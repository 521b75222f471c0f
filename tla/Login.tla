-------------------------------- MODULE Login --------------------------------
(***************************************************************************)
(* A client logs in: the server's half of the negotiation of protocol.cpp, *)
(* as ClientStream drives it in server mode (stream.cpp), with the layers  *)
(* of SecureStream and the glue of QCA's TLS and SASL objects (qca.cpp).   *)
(*                                                                         *)
(* One call of srvProcessNext is one step: it runs until the protocol      *)
(* needs more data.  The client and the provider of SASL mechanisms are    *)
(* external: a client that follows the protocol and sends one thing at a   *)
(* time, and a provider that may take several challenges or refuse.  The   *)
(* server writes an element of ElementBytes bytes for every answer, and    *)
(* the socket writes any number of its bytes at a time.                    *)
(***************************************************************************)
EXTENDS SecureStream

CONSTANTS
    ElementBytes,   \* bytes of an element the stream writes
    MaxChallenges,  \* bound: challenges of a SASL exchange
    MaxStanzas      \* bound: stanzas written after the login

ASSUME ElementAssumption == ElementBytes \in Nat \ {0}
ASSUME BoundsAssumption == MaxChallenges \in Nat /\ MaxStanzas \in Nat

VARIABLES
    ss,         \* the SecureStream, see the module of that name
    up,         \* what the client has sent and the server not read: items
    down,       \* what has left the server and the client not read
    proto,      \* CoreProtocol: step, old, tls_started, sasl_authed, user
    stream,     \* ClientStream: state, tls object, sslnow
    client,     \* the client: what it waits for, its layers, its choices
    challenges, \* challenges of this exchange
    stanzas     \* stanzas written after the login

vars == <<ss, up, down, proto, stream, client, challenges, stanzas>>

\* An item under the layers it was written through.
Item(kind, layers) == [kind |-> kind, layers |-> layers]

Features(tls, mechs, bind) == [tls |-> tls, mechs |-> mechs, bind |-> bind]

NoFeatures == Features(FALSE, FALSE, FALSE)

-----------------------------------------------------------------------------
(***************************************************************************)
(* The server                                                              *)
(***************************************************************************)
\* What arrived is for the server, which is still there.
Reads(kind) ==
    /\ stream.state \notin {"reset", "crashed"}
    /\ up # <<>> /\ Head(up).kind = kind
    /\ up' = Tail(up)

Wait(step) == proto.step = step

\* An element is written under the layers that are there.
Written(s, name, features) ==
    SSWrite(s, ElementBytes,
            Item([name |-> name, features |-> features], LayerTypes(s)))

\* error() and reset(): the layers go, and the socket is closed.
Fail ==
    /\ ss' = Idle
    /\ stream' = [stream EXCEPT !.state = "reset"]
    /\ proto' = [proto EXCEPT !.step = "reset"]
    /\ UNCHANGED challenges

\* Mutation: the mechanisms stay on offer.
OfferedAlways(p) ==
    Features(~p.tls_started /\ ~p.sasl_authed, TRUE, p.sasl_authed)

\* TLS is offered without a look at whether there is a certificate or the
\* connection was under TLS from the start.
Offered(p) ==
    Features(~p.tls_started /\ ~p.sasl_authed, ~p.sasl_authed, p.sasl_authed)

\* The stream is opened: the header is answered, and then comes what the
\* version calls for.
ReadOpen(old) ==
    LET header == Written(ss, "open", NoFeatures)
        features == Written(header, "features", Offered(proto))
    IN  /\ Reads(IF old THEN "open0" ELSE "open1")
        /\ Wait("RecvOpen")
        /\ ss' = IF old THEN header ELSE features
        /\ proto' = [proto EXCEPT !.old = old,
                                  !.step = IF old THEN "GetAuthRequest" ELSE "GetRequest"]
        /\ UNCHANGED <<down, stream, client, challenges, stanzas>>

\* <proceed/> is written, the stream reset and the layer put in place at once,
\* while the bytes of <proceed/> may still be in the socket's buffer.
ReadStartTLS ==
    /\ Reads("starttls")
    /\ Wait("GetRequest")
    /\ IF stream.tls
       THEN /\ ss' = StartTLS(Written(ss, "proceed", NoFeatures))
            /\ proto' = [proto EXCEPT !.tls_started = TRUE, !.step = "RecvOpen"]
            /\ UNCHANGED stream
       ELSE /\ stream' = [stream EXCEPT !.state = "crashed"]
            /\ UNCHANGED <<ss, proto>>
    /\ UNCHANGED <<down, client, challenges, stanzas>>

\* The handshake, in TLS::update(): the client's part arrives, the server's
\* goes out.  With the last part handshaken() comes first, and a port that
\* starts with TLS opens its stream then.
Flight(last) ==
    Item([name |-> IF last THEN "finished" ELSE "hello", features |-> NoFeatures],
         LayerTypes(ss))

ReadHandshake(kind, last) ==
    /\ Reads(kind)
    /\ HasLayer(ss, "TLS") /\ ss.topInProgress
    /\ ss' = TlsFlight(ss, 1, last, Flight(last))
    /\ proto' = [proto EXCEPT !.step = IF last /\ stream.sslnow THEN "RecvOpen" ELSE @]
    /\ UNCHANGED <<down, stream, client, challenges, stanzas>>

HandshakeFails ==
    /\ Reads("hello") \/ Reads("finished")
    /\ HasLayer(ss, "TLS") /\ ss.topInProgress
    /\ Fail
    /\ UNCHANGED <<down, client, stanzas>>

(***************************************************************************)
(* SASL.  The provider is asked by putServerFirstStep or putStep.  A       *)
(* mechanism that takes one step has its AuthCheck in the first, where     *)
(* SASL::handleServerFirstStep does not pass it on but tries again, which  *)
(* the provider takes as leave to continue.  The user is told to the       *)
(* protocol only by authCheck().                                           *)
(***************************************************************************)
\* Mutation: the name is not taken over from the check.
CheckedForgets(p) == p

Checked(p) == [p EXCEPT !.user = "user"]

Challenge(p) ==
    /\ challenges < MaxChallenges
    /\ challenges' = challenges + 1
    /\ ss' = Written(ss, "challenge", NoFeatures)
    /\ proto' = [p EXCEPT !.step = "GetSASLResponse"]
    /\ UNCHANGED stream

\* Mutation: the layer is put in place first.
SuccessUnderLayer(p) ==
    /\ ss' = Written(SetLayerSASL(ss), "success", NoFeatures)
    /\ proto' = [p EXCEPT !.sasl_authed = TRUE, !.step = "RecvOpen"]
    /\ UNCHANGED <<stream, challenges>>

\* <success/> is written, the stream reset and the layer put in place.
Success(p) ==
    /\ ss' = SetLayerSASL(Written(ss, "success", NoFeatures))
    /\ proto' = [p EXCEPT !.sasl_authed = TRUE, !.step = "RecvOpen"]
    /\ UNCHANGED <<stream, challenges>>

ReadAuth ==
    LET started == [proto EXCEPT !.sasl_started = TRUE]
    IN  /\ Reads("auth")
        /\ Wait("GetRequest") /\ ~proto.sasl_started
        /\ \/ client.mech = "one_step" /\ Success(started)
           \/ client.mech = "challenges" /\ Challenge(started)
           \/ Fail
        /\ UNCHANGED <<down, client, stanzas>>

\* The check comes with the step in which the provider knows the user, the
\* last one or one before it.
ReadResponse ==
    /\ Reads("response")
    /\ Wait("GetSASLResponse")
    /\ \/ Success(Checked(proto))
       \/ \E p \in {proto, Checked(proto)} : Challenge(p)
       \/ Fail
    /\ UNCHANGED <<down, client, stanzas>>

(***************************************************************************)
(* The end of the login                                                    *)
(***************************************************************************)
\* loginComplete(): the session is announced under the jid made before.
Ready(p) ==
    /\ proto' = [p EXCEPT !.step = "Done"]
    /\ stream' = [stream EXCEPT !.state = "Active", !.jid = p.user]

ReadBind ==
    /\ Reads("bind")
    /\ Wait("GetRequest")
    /\ ss' = Written(ss, "bound", NoFeatures)
    /\ Ready(proto)
    /\ UNCHANGED <<down, client, challenges, stanzas>>

ReadAuthGet ==
    /\ Reads("auth_get")
    /\ Wait("GetAuthRequest")
    /\ ss' = Written(ss, "auth_fields", NoFeatures)
    /\ UNCHANGED <<down, proto, stream, client, challenges, stanzas>>

ReadAuthSet ==
    /\ Reads("auth_set")
    /\ Wait("GetAuthRequest")
    /\ IF client.password
       THEN /\ ss' = Written(ss, "bound", NoFeatures)
            /\ Ready([proto EXCEPT !.user = "user"])
            /\ UNCHANGED challenges
       ELSE Fail
    /\ UNCHANGED <<down, client, stanzas>>

WriteStanza ==
    /\ stream.state = "Active"
    /\ stanzas < MaxStanzas
    /\ stanzas' = stanzas + 1
    /\ ss' = Written(ss, "stanza", NoFeatures)
    /\ UNCHANGED <<up, down, proto, stream, client, challenges>>

\* The socket writes n bytes: items that are complete travel to the client.
SocketWrites(n) ==
    /\ stream.state \notin {"reset", "crashed"}
    /\ n <= Total(ss.out, "bytes")
    /\ ss' = SocketWrote(ss, n)
    /\ down' = down \o Drained(ss.out, n).items
    /\ UNCHANGED <<up, proto, stream, client, challenges, stanzas>>

-----------------------------------------------------------------------------
(***************************************************************************)
(* The client (external)                                                   *)
(***************************************************************************)
Send(kind) == up' = Append(up, Item(kind, client.layers))

Opening == IF client.old THEN "open0" ELSE "open1"

ClientStarts ==
    /\ client.waits = "start"
    /\ IF stream.sslnow
       THEN /\ client' = [client EXCEPT !.waits = "hello", !.layers = <<"TLS">>]
            /\ up' = Append(up, Item("hello", <<"TLS">>))
       ELSE /\ client' = [client EXCEPT !.waits = "open"]
            /\ Send(Opening)
    /\ UNCHANGED <<ss, down, proto, stream, challenges, stanzas>>

\* What the client sends for what it reads, and what it waits for then.
Answer(name, f, c) ==
    CASE name = "open" -> IF c.old THEN [sends |-> "auth_get", c |-> [c EXCEPT !.waits = "auth_fields"]]
                          ELSE [sends |-> "nothing", c |-> [c EXCEPT !.waits = "features"]]
      [] name = "features" /\ f.tls /\ c.starttls /\ "TLS" \notin ToSet(c.layers) ->
            [sends |-> "starttls", c |-> [c EXCEPT !.waits = "proceed"]]
      [] name = "features" /\ f.mechs /\ ~(f.tls /\ c.starttls /\ "TLS" \notin ToSet(c.layers)) ->
            [sends |-> "auth", c |-> [c EXCEPT !.waits = "sasl"]]
      [] name = "features" /\ f.bind -> [sends |-> "bind", c |-> [c EXCEPT !.waits = "bound"]]
      [] name = "proceed" ->
            [sends |-> "hello", c |-> [c EXCEPT !.waits = "hello", !.layers = Append(@, "TLS")]]
      [] name = "hello" -> [sends |-> "finished", c |-> [c EXCEPT !.waits = "finished"]]
      [] name = "finished" ->
            [sends |-> Opening, c |-> [c EXCEPT !.waits = "open"]]
      [] name = "challenge" -> [sends |-> "response", c |-> c]
      [] name = "success" ->
            [sends |-> Opening,
             c |-> [c EXCEPT !.waits = "open", !.layers = Append(@, "SASL")]]
      [] name = "auth_fields" -> [sends |-> "auth_set", c |-> [c EXCEPT !.waits = "bound"]]
      [] name = "bound" -> [sends |-> "nothing", c |-> [c EXCEPT !.waits = "nothing"]]
      [] name = "stanza" -> [sends |-> "nothing", c |-> c]

ClientReads ==
    /\ down # <<>>
    /\ LET item == Head(down).kind
           a == Answer(item.name, item.features, client)
       IN  /\ client' = a.c
           /\ up' = IF a.sends = "nothing" THEN up
                    ELSE Append(up, Item(a.sends, a.c.layers))
    /\ down' = Tail(down)
    /\ UNCHANGED <<ss, proto, stream, challenges, stanzas>>

-----------------------------------------------------------------------------
Init ==
    /\ up = <<>> /\ down = <<>>
    /\ challenges = 0 /\ stanzas = 0
    /\ \E old, sslnow, tls, starttls, password \in BOOLEAN,
          mech \in {"one_step", "challenges"} :
        /\ sslnow => tls
        /\ stream = [state |-> "Idle", tls |-> tls, sslnow |-> sslnow, jid |-> "none"]
        /\ ss = IF sslnow THEN StartTLS(Idle) ELSE Idle
        /\ proto = [step |-> IF sslnow THEN "Closed" ELSE "RecvOpen", old |-> FALSE,
                    tls_started |-> FALSE, sasl_started |-> FALSE,
                    sasl_authed |-> FALSE, user |-> "none"]
        /\ client = [waits |-> "start", layers |-> <<>>, old |-> old,
                     starttls |-> starttls, mech |-> mech, password |-> password]

ServerReads ==
    \/ \E old \in BOOLEAN : ReadOpen(old)
    \/ ReadStartTLS
    \/ ReadHandshake("hello", FALSE)
    \/ ReadHandshake("finished", TRUE)
    \/ HandshakeFails
    \/ ReadAuth
    \/ ReadResponse
    \/ ReadBind
    \/ ReadAuthGet
    \/ ReadAuthSet

SocketStep == \E n \in 1..Total(ss.out, "bytes") : SocketWrites(n)

ClientStep == ClientStarts \/ ClientReads

Next == ServerReads \/ SocketStep \/ ClientStep \/ WriteStanza

\* Weak fairness of SocketStep, with the condition under which it is enabled
\* written out: evaluating ENABLED through every layer is slow.
CanWrite == ss.out # <<>> /\ stream.state \notin {"reset", "crashed"}

SocketRuns == []<>~CanWrite \/ []<><<SocketStep>>_vars

\* The event loop handles what arrives, the socket writes what it can, and the
\* client answers.
Spec ==
    Init /\ [][Next]_vars
         /\ WF_vars(ServerReads) /\ WF_vars(ClientStep) /\ SocketRuns

-----------------------------------------------------------------------------
(***************************************************************************)
(* Properties                                                              *)
(***************************************************************************)
\* The state is well typed, and no layer is there twice or out of order.
TypeOK ==
    /\ LayerTypes(ss) \in {<<>>, <<"TLS">>, <<"SASL">>, <<"TLS", "SASL">>}
    /\ client.layers \in {<<>>, <<"TLS">>, <<"SASL">>, <<"TLS", "SASL">>}
    /\ ss.pending \in Nat /\ ss.reported \in Nat
    /\ proto.step \in {"Closed", "RecvOpen", "GetRequest", "GetSASLResponse",
                       "GetAuthRequest", "Done", "reset"}
    /\ stream.state \in {"Idle", "Active", "reset", "crashed"}
    /\ challenges \in 0..MaxChallenges /\ stanzas \in 0..MaxStanzas

\* Every byte the stream writes is reported once, when it has left and not
\* before, through every change of the layers: the bytes of <proceed/> and
\* <success/> are under way when the layer over them is put in place, and the
\* handshake's own bytes count for nothing.
WritesReported == Accurate(ss)

\* A session is announced under the name that was authenticated: by iq:auth, or
\* by the provider's check.  With a mechanism of one step the check is never
\* passed on, and the session has no name.
Announced ==
    stream.state = "Active" =>
        stream.jid = IF proto.old \/ client.mech = "challenges" THEN "user" ELSE "none"

\* Whoever reads takes off the layers that the writer put on: each end
\* switches at the same place in each direction.
SameLayers ==
    /\ down # <<>> => Head(down).layers = client.layers
    /\ up # <<>> /\ stream.state \in {"Idle", "Active"} =>
          Head(up).layers = LayerTypes(ss)

\* Every login ends: the client is bound, or the server has closed the stream.
LoginEnds ==
    <>(client.waits = "nothing" \/ stream.state \in {"reset", "crashed"})
=============================================================================
