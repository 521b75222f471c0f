-------------------------------- MODULE S2S ---------------------------------
(***************************************************************************)
(* Server-to-server sessions of the router (src/router.cpp) on two hosts   *)
(* that run this server: outbound sessions that queue stanzas until the    *)
(* dialback result, verify sessions that ask the claimed host back, and    *)
(* inbound sessions that accept stanzas once they are validated; with the  *)
(* dialback part of the stream protocol (src/iris/xmpp-core/protocol.cpp,  *)
(* stream.cpp) and connections that fail, close and break.                 *)
(*                                                                         *)
(* Both processes are event loops: one action handles one event of one     *)
(* session.  A connection is a pair of FIFO channels; a session has the    *)
(* number of its connection, which also stands for the stream id that the  *)
(* accepting side chose.  The dialback key is the constant "123" on both   *)
(* sides (router.cpp:326), so it always matches and is left out.           *)
(***************************************************************************)
EXTENDS Naturals, FiniteSets, Sequences, SequencesExt

CONSTANTS
    Hosts,       \* the two hosts
    Senders,     \* the hosts whose users send stanzas to the other host
    MaxStanzas,  \* bound: stanzas sent by one host
    MaxConns,    \* bound: outbound and verify sessions created in a run
    MaxBreaks    \* bound: connections that fail or break

ASSUME S2SAssumption ==
    /\ IsFiniteSet(Hosts) /\ Cardinality(Hosts) = 2
    /\ Senders \subseteq Hosts
    /\ MaxStanzas \in Nat /\ MaxConns \in Nat /\ MaxBreaks \in Nat

VARIABLES
    list,    \* [Hosts -> Seq(Session)]: Router::Private::list
    wire,    \* [Conns -> [toIn, toOut : Seq(Msg)]]: what is in flight
    shut,    \* <<connection, direction>>: the receiver of that direction closed
    conns,   \* how many connections have been numbered
    breaks,  \* how many have failed or broken
    sent,    \* [Hosts -> Nat]: stanzas the host's users sent, numbered from 1
    got      \* [Hosts -> Seq(Nat)]: stanzas of the host that the other one took

vars == <<list, wire, shut, conns, breaks, sent, got>>

Conns == 1 .. MaxConns
Stanzas == 1 .. MaxStanzas
Peer(h) == CHOOSE p \in Hosts : p # h
Back(dir) == IF dir = "toIn" THEN "toOut" ELSE "toIn"

\* A message is [t, n]: n is a stanza number, a stream id, or 1/0 for a grant.
Msg == [t : {"open", "result", "verify", "grant", "vgrant", "stanza", "close", "reset"}, n : Nat]
M(t, n) == [t |-> t, n |-> n]

\* "st" is the state of the session's stream; "dead" is a stream that was reset
\* while its session stays in the list.  "ver" is Session::ver_id.
Session == [kind : {"out", "verify", "in"}, c : Conns,
            st : {"connecting", "opening", "ready", "dead"},
            active : BOOLEAN, ver : Conns \cup {0}, validated : BOOLEAN,
            pending : Seq(Stanzas)]

\* Mutation: ver_id is set for no session.
NewSessionNoId(kind, c, st, ver, pending) ==
    [kind |-> kind, c |-> c, st |-> st, active |-> kind = "in", ver |-> MaxConns + 1,
     validated |-> FALSE, pending |-> pending]

NewSession(kind, c, st, ver, pending) ==
    [kind |-> kind, c |-> c, st |-> st, active |-> kind = "in", ver |-> ver,
     validated |-> FALSE, pending |-> pending]

Incoming(s) == IF s.kind = "in" THEN "toIn" ELSE "toOut"

Init ==
    /\ list = [h \in Hosts |-> <<>>]
    /\ wire = [c \in Conns |-> [toIn |-> <<>>, toOut |-> <<>>]]
    /\ shut = {}
    /\ conns = 0
    /\ breaks = 0
    /\ sent = [h \in Hosts |-> 0]
    /\ got = [h \in Hosts |-> <<>>]

-----------------------------------------------------------------------------
(* The connections.                                                        *)

\* Data written towards an end that has closed goes nowhere.
Put(w, c, dir, ms) ==
    IF <<c, dir>> \in shut THEN w ELSE [w EXCEPT ![c][dir] = @ \o ms]

Taken(s) == [wire EXCEPT ![s.c][Incoming(s)] = Tail(@)]

\* The session's end of the connection is closed: what was on its way to it is
\* lost, the other end reads the rest and then the close.
CloseEnd(w, s) ==
    /\ wire' = [Put(w, s.c, Back(Incoming(s)), <<M("close", 0)>>)
                    EXCEPT ![s.c][Incoming(s)] = <<>>]
    /\ shut' = shut \cup {<<s.c, Incoming(s)>>}

\* Session::close, then Router::Private::sess_done: the session and its stream
\* are gone, its pending stanzas with them.
Done(h, i, w) ==
    /\ list' = [list EXCEPT ![h] = RemoveAt(@, i)]
    /\ CloseEnd(w, list[h][i])

-----------------------------------------------------------------------------
(* Router::write to the other host.                                        *)

\* ensureOutbound takes the first session of the list that goes to the host,
\* whatever it is for.
\* Mutation: only a session that may already be written through counts.
OutboundsActive(h) == {i \in 1 .. Len(list[h]) : list[h][i].kind # "in" /\ list[h][i].active}

Outbounds(h) == {i \in 1 .. Len(list[h]) : list[h][i].kind # "in"}

ensureOutbound(h) == CHOOSE i \in Outbounds(h) : \A j \in Outbounds(h) : i <= j

\* Mutation: a session whose stream is up is written through and queued.
SessionWriteTwice(h, i, n) ==
    /\ wire' = IF list[h][i].active \/ list[h][i].st = "ready"
               THEN Put(wire, list[h][i].c, "toIn", <<M("stanza", n)>>) ELSE wire
    /\ list' = IF list[h][i].active THEN list
               ELSE [list EXCEPT ![h][i].pending = Append(@, n)]

\* Mutation: the queue is a stack.
SessionWriteFront(h, i, n) ==
    IF list[h][i].active
    THEN /\ wire' = Put(wire, list[h][i].c, "toIn", <<M("stanza", n)>>)
         /\ UNCHANGED list
    ELSE /\ list' = [list EXCEPT ![h][i].pending = <<n>> \o @]
         /\ UNCHANGED wire

\* Session::write: an active session writes, any other one queues.
SessionWrite(h, i, n) ==
    IF list[h][i].active
    THEN /\ wire' = Put(wire, list[h][i].c, "toIn", <<M("stanza", n)>>)
         /\ UNCHANGED list
    ELSE /\ list' = [list EXCEPT ![h][i].pending = Append(@, n)]
         /\ UNCHANGED wire

Write(h) ==
    /\ h \in Senders
    /\ sent[h] < MaxStanzas
    /\ sent' = [sent EXCEPT ![h] = @ + 1]
    /\ IF Outbounds(h) = {}
       THEN /\ conns < MaxConns
            /\ conns' = conns + 1
            /\ list' = [list EXCEPT ![h] = Append(@,
                   NewSession("out", conns + 1, "connecting", 0, <<sent[h] + 1>>))]
            /\ UNCHANGED wire
       ELSE SessionWrite(h, ensureOutbound(h), sent[h] + 1) /\ UNCHANGED conns
    /\ UNCHANGED <<shut, breaks, got>>

-----------------------------------------------------------------------------
(* Connecting.                                                             *)

Connected(h, i) ==
    LET s == list[h][i] IN
    /\ s.st = "connecting"
    /\ list' = [list EXCEPT ![h][i].st = "opening",
                            ![Peer(h)] = Append(@, NewSession("in", s.c, "opening", 0, <<>>))]
    /\ wire' = [wire EXCEPT ![s.c].toIn = <<M("open", 0)>>]
    /\ UNCHANGED <<shut, conns, breaks, sent, got>>

\* The connector gives up, or an established stream ends.  Nothing is connected
\* to the error and close signals of a verify session's stream.
StreamGone(h, i, w) ==
    IF list[h][i].kind = "verify"
    THEN list' = [list EXCEPT ![h][i].st = "dead"] /\ CloseEnd(w, list[h][i])
    ELSE Done(h, i, w)

ConnectFailed(h, i) ==
    /\ list[h][i].st = "connecting"
    /\ breaks < MaxBreaks
    /\ breaks' = breaks + 1
    /\ StreamGone(h, i, wire)
    /\ UNCHANGED <<conns, sent, got>>

\* A connection breaks: each end gets what was under way or nothing of it, and
\* then sees an orderly close or an error.
Break(h, i) ==
    LET c == list[h][i].c IN
    /\ list[h][i].kind # "in"
    /\ list[h][i].st \in {"opening", "ready"}
    /\ breaks < MaxBreaks
    /\ breaks' = breaks + 1
    /\ \E m1, m2 \in {"close", "reset"}, keep \in BOOLEAN :
          wire' = [wire EXCEPT
              ![c].toIn = IF <<c, "toIn">> \in shut THEN <<>>
                          ELSE (IF keep THEN @ ELSE <<>>) \o <<M(m1, 0)>>,
              ![c].toOut = (IF keep THEN @ ELSE <<>>) \o <<M(m2, 0)>>]
    /\ UNCHANGED <<list, shut, conns, sent, got>>

-----------------------------------------------------------------------------
(* The accepting side.                                                     *)

\* Mutation: the test of "active" the wrong way round.
pendingOutboundActive(h, id) ==
    \E i \in 1 .. Len(list[h]) :
        LET s == list[h][i] IN s.kind = "out" /\ s.active /\ s.st = "ready" /\ s.c = id

\* pendingOutboundSession: a verify session has no sent_key and never matches.
pendingOutboundSession(h, id) ==
    \E i \in 1 .. Len(list[h]) :
        LET s == list[h][i] IN s.kind = "out" /\ ~s.active /\ s.st = "ready" /\ s.c = id

InOpen(h, i, m) ==
    LET s == list[h][i] IN
    /\ m.t = "open"
    /\ list' = [list EXCEPT ![h][i].st = "ready"]
    /\ wire' = Put(Taken(s), s.c, "toOut", <<M("open", s.c)>>)
    /\ UNCHANGED <<shut, conns, got>>

\* cs_dialbackRequest.
dialbackRequest(h, i, m) ==
    LET s == list[h][i] IN
    /\ m.t = "result"
    /\ conns < MaxConns
    /\ conns' = conns + 1
    /\ list' = [list EXCEPT ![h] = Append(@,
           NewSession("verify", conns + 1, "connecting", s.c, <<>>))]
    /\ wire' = Taken(s)
    /\ UNCHANGED <<shut, got>>

\* cs_dialbackVerifyRequest.
dialbackVerifyRequest(h, i, m) ==
    LET s == list[h][i]
        ok == IF pendingOutboundSession(h, m.n) THEN 1 ELSE 0
    IN  /\ m.t = "verify"
        /\ wire' = Put(Taken(s), s.c, "toOut", <<M("vgrant", ok)>>)
        /\ UNCHANGED <<list, shut, conns, got>>

\* A stanza from a domain that is not validated on this stream ends the stream.
StanzaReceived(h, i, m) ==
    LET s == list[h][i] IN
    /\ m.t = "stanza"
    /\ IF s.validated
       THEN /\ got' = [got EXCEPT ![Peer(h)] = Append(@, m.n)]
            /\ wire' = Taken(s)
            /\ UNCHANGED <<list, shut>>
       ELSE Done(h, i, Taken(s)) /\ UNCHANGED got
    /\ UNCHANGED conns

\* bs_connectionClosed ends the session; bs_error leaves it as it is.
InGone(h, i, m) ==
    /\ \/ m.t = "close" /\ Done(h, i, Taken(list[h][i]))
       \/ /\ m.t = "reset"
          /\ list' = [list EXCEPT ![h][i].st = "dead"]
          /\ CloseEnd(Taken(list[h][i]), list[h][i])
    /\ UNCHANGED <<conns, got>>

-----------------------------------------------------------------------------
(* The connecting side.                                                    *)

\* EReady: the request goes out with the stream's id known.
OutOpen(h, i, m) ==
    LET s == list[h][i] IN
    /\ m.t = "open"
    /\ list' = [list EXCEPT ![h][i].st = "ready"]
    /\ wire' = Put(Taken(s), s.c, "toIn",
                   <<IF s.kind = "verify" THEN M("verify", s.ver) ELSE M("result", 0)>>)
    /\ UNCHANGED <<shut, conns, got>>

\* Mutation: the flushed queue is not cleared.
ActivatedKeeping(s) == [s EXCEPT !.active = TRUE]

Activated(s) == [s EXCEPT !.active = TRUE, !.pending = <<>>]

\* cs_dialbackResult.
dialbackResult(h, i, m) ==
    LET s == list[h][i]
        flushed == [k \in 1 .. Len(s.pending) |-> M("stanza", s.pending[k])]
    IN  /\ m.t = "grant"
        /\ IF m.n = 1
           THEN /\ list' = [list EXCEPT ![h][i] = Activated(@)]
                /\ wire' = Put(Taken(s), s.c, "toIn", flushed)
           ELSE UNCHANGED list /\ wire' = Taken(s)
        /\ UNCHANGED <<shut, conns, got>>

\* pendingInboundSession(ver_id): the sessions it may return, one at most.
pendingInbound(h, id) ==
    {i \in 1 .. Len(list[h]) : list[h][i].kind = "in" /\ list[h][i].c = id}

\* Mutation: the grant is sent and not remembered.
ValidatedNone(h, in, ok) == list[h]

\* Mutation: every inbound session of the host is validated.
ValidatedAll(h, in, ok) ==
    [k \in 1 .. Len(list[h]) |->
        IF list[h][k].kind = "in" /\ ok = 1 THEN [list[h][k] EXCEPT !.validated = TRUE]
        ELSE list[h][k]]

\* dialbackStep writes the grant and remembers the host as validated.
Validated(h, in, ok) ==
    [k \in 1 .. Len(list[h]) |->
        IF k \in in /\ ok = 1 THEN [list[h][k] EXCEPT !.validated = TRUE] ELSE list[h][k]]

\* cs_dialbackVerifyResult: the waiting session is granted, this one closes.
dialbackVerifyResult(h, i, m) ==
    LET s == list[h][i]
        in == pendingInbound(h, s.ver)
    IN  /\ m.t = "vgrant"
        /\ list' = [list EXCEPT ![h] = RemoveAt(Validated(h, in, m.n), i)]
        /\ CloseEnd(IF in = {} THEN Taken(s)
                    ELSE Put(Taken(s), s.ver, "toOut", <<M("grant", m.n)>>), s)
        /\ UNCHANGED <<conns, got>>

OutGone(h, i, m) ==
    /\ m.t \in {"close", "reset"}
    /\ StreamGone(h, i, Taken(list[h][i]))
    /\ UNCHANGED <<conns, got>>

-----------------------------------------------------------------------------

\* The next event of the session's stream.
Receive(h, i) ==
    LET s == list[h][i]
        in == wire[s.c][Incoming(s)]
    IN  /\ s.st \in {"opening", "ready"}
        /\ in # <<>>
        /\ \/ /\ s.kind = "in"
              /\ \/ InOpen(h, i, Head(in))
                 \/ dialbackRequest(h, i, Head(in))
                 \/ dialbackVerifyRequest(h, i, Head(in))
                 \/ StanzaReceived(h, i, Head(in))
                 \/ InGone(h, i, Head(in))
           \/ /\ s.kind # "in"
              /\ \/ OutOpen(h, i, Head(in))
                 \/ dialbackResult(h, i, Head(in))
                 \/ dialbackVerifyResult(h, i, Head(in))
                 \/ OutGone(h, i, Head(in))
        /\ UNCHANGED <<breaks, sent>>

Next ==
    \E h \in Hosts :
        \/ Write(h)
        \/ \E i \in 1 .. Len(list[h]) :
              Connected(h, i) \/ ConnectFailed(h, i) \/ Break(h, i) \/ Receive(h, i)

\* An event loop that has an event to handle handles it, and a connection
\* attempt that is not refused succeeds in the end.
Progress(h) == \E i \in 1 .. Len(list[h]) : Connected(h, i) \/ Receive(h, i)

Spec == Init /\ [][Next]_vars /\ \A h \in Hosts : WF_vars(Progress(h))

-----------------------------------------------------------------------------
(* Properties.                                                             *)

\* Every variable has its type.
TypeOK ==
    /\ list \in [Hosts -> Seq(Session)]
    /\ wire \in [Conns -> [toIn : Seq(Msg), toOut : Seq(Msg)]]
    /\ shut \subseteq Conns \X {"toIn", "toOut"}
    /\ conns \in 0 .. MaxConns
    /\ breaks \in 0 .. MaxBreaks
    /\ sent \in [Hosts -> 0 .. MaxStanzas]
    /\ got \in [Hosts -> Seq(Stanzas)]

SessionsOf(h, kind) == {i \in 1 .. Len(list[h]) : list[h][i].kind = kind}

\* Traffic to a host is not spread over several streams: however sends, failed
\* connections and verify sessions interleave, ensureOutbound never opens a
\* second outbound session while one is in the list.
OneOutbound == \A h \in Hosts : Cardinality(SessionsOf(h, "out")) <= 1

\* Nothing is stranded behind newer stanzas: once a session writes through
\* (active), its queue from before the dialback result is empty.
ActiveHasNoPending ==
    \A h \in Hosts : \A i \in SessionsOf(h, "out") :
        list[h][i].active => list[h][i].pending = <<>>

\* The two ends agree on the dialback result: when the connecting side writes
\* through, the accepting side has validated the stream, unless its session is
\* gone; so no stanza of ours ends the stream as coming from an unverified
\* sender (protocol.cpp:1118).
ActiveIsValidated ==
    \A h \in Hosts : \A i \in SessionsOf(h, "out") : \A k \in SessionsOf(Peer(h), "in") :
        list[h][i].active /\ list[Peer(h)][k].c = list[h][i].c => list[Peer(h)][k].validated

\* A stream is validated only for a host that asked for it: the accepting side
\* holds a validated session only if the connecting side has activated its own,
\* has the answer on the way to it, or has lost the connection.
ValidatedWasAsked ==
    \A h \in Hosts : \A k \in SessionsOf(Peer(h), "in") :
        LET s == list[Peer(h)][k]
            back == wire[s.c].toOut
        IN  s.validated =>
              \/ <<s.c, "toOut">> \in shut
              \/ \E j \in 1 .. Len(back) : back[j].t \in {"grant", "close", "reset"}
              \/ \E i \in SessionsOf(h, "out") : list[h][i].c = s.c /\ list[h][i].active

\* At most once: a stanza that was queued, flushed, or written while its
\* session broke and was replaced is never delivered twice.
NoDuplicates ==
    \A h \in Hosts : \A i, j \in 1 .. Len(got[h]) : got[h][i] = got[h][j] => i = j

\* The dialback exchanges of two hosts that call each other at the same time
\* do not wait for each other for ever: as long as no connection fails, every
\* outbound session is activated and every verify session goes away.
Settles ==
    [](breaks = 0) =>
        \A h \in Hosts :
            <>[](/\ \A i \in SessionsOf(h, "out") : list[h][i].active
                 /\ SessionsOf(h, "verify") = {})

\* With one sending host and no failures the sessions are the reliable link.
Sender == CHOOSE h \in Senders : TRUE
ReliableLink == INSTANCE Link WITH sent <- sent[Sender], got <- got[Sender]
ImplementsLink == ReliableLink!Spec

\* README.md:16-17, "Server to server connectivity", "Message delivery": as long
\* as no connection fails, a stanza for the other host reaches it.
EventuallyDelivered ==
    [](breaks = 0) =>
        \A h \in Hosts : \A n \in Stanzas :
            sent[h] >= n ~> \E i \in 1 .. Len(got[h]) : got[h][i] = n
=============================================================================
