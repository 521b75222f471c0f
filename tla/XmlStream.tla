----------------------------- MODULE XmlStream ------------------------------
(***************************************************************************)
(* The element pipeline of an established stream: ClientStream             *)
(* (src/iris/xmpp-core/stream.cpp) over CoreProtocol, BasicProtocol and    *)
(* XmlProtocol (protocol.cpp, xmlprotocol.cpp), for an end in client mode  *)
(* and an end in server mode of one connection, from the moment both are   *)
(* ready until both are reset.                                             *)
(*                                                                         *)
(* An end is an event loop.  Four events make its stream run processNext:  *)
(* the queued call that write() posts, data that arrives, bytes that were  *)
(* written, and close() or writeDirect().  processNext is a loop of        *)
(* protocol steps; "running" names the end whose loop is going on, and one *)
(* action is one step of it.  Nothing else happens meanwhile: what the     *)
(* loop changes is private to its end, but for what it appends to the wire *)
(* and the other end cannot tell when.                                     *)
(***************************************************************************)
EXTENDS Naturals, FiniteSets, Sequences, SequencesExt

CONSTANTS
    MaxClient,   \* bound: stanzas the application of the client writes
    MaxServer,   \* bound: stanzas the application of the server writes
    MaxTroubles  \* bound: malformed texts written and connections that fail, together

Ends == {"client", "server"}
Other(e) == IF e = "client" THEN "server" ELSE "client"
MaxSent(e) == IF e = "client" THEN MaxClient ELSE MaxServer

ASSUME XmlStreamAssumption ==
    /\ MaxClient \in Nat /\ MaxServer \in Nat
    /\ MaxTroubles \in Nat

VARIABLES
    st,          \* [Ends -> StreamState]
    running,     \* the end whose processNext loop is going on, or "none"
    wire,        \* [Ends -> Seq(Element)]: what is on its way to that end
    unreported,  \* [Ends -> Nat]: bytes the end's socket has not yet reported written
    broken,      \* the ends whose socket failed and whose stream was not told
    breaks,      \* how many connections have failed
    directs,     \* how many malformed texts the client wrote with writeDirect
    sent,        \* [Ends -> Nat]: stanzas that were accepted by write(), numbered from 1
    got,         \* [Ends -> Seq(Nat)]: stanzas of the other end that the application read
    ended        \* [Ends -> Seq(Signal)]: the signals that told the application of the end

net == <<wire, unreported, broken, breaks>>
hist == <<directs, sent, got, ended>>
vars == <<st, running, net, hist>>

Stanzas == 1 .. Max({MaxClient, MaxServer})
Signal == {"connectionClosed", "delayedCloseFinished", "error"}

\* "bad" is text that does not parse; "error" is a stream:error element.
Element == [t : {"stanza"}, n : Stanzas] \cup [t : {"bad", "error", "close"}, n : {0}]
El(t) == [t |-> t, n |-> 0]
Stanza(n) == [t |-> "stanza", n |-> n]

\* The sizes only have to let bytes be reported in portions.
Size(el) == IF el.t = "stanza" THEN 2 ELSE 1
TrackItem == [t : {"stanza", "other", "close"}, size : 1 .. 2]

StreamState == [
    state : {"Active", "Closing", "Idle"},   \* ClientStream::Private::state
    proto : {"Open", "Closing", "Reset"},    \* XmlProtocol::state, and the fresh object
    sendList : Seq(Element),
    track : Seq(TrackItem),                  \* trackQueue
    stanzasPending : Nat,
    stanzasWritten : Nat,
    closeWritten : BOOLEAN,
    peerClosed : BOOLEAN,
    doShutdown : BOOLEAN,
    closeError : BOOLEAN,
    notify : SUBSET {"NSend", "NRecv"},
    parser : Seq(Element),                   \* received and not parsed
    in : Seq(Stanzas),                       \* parsed and not read by the application
    posted : Nat,                            \* queued calls of processNext
    timer : BOOLEAN,                         \* a queued doReadyRead
    told : Nat]                              \* EStanzaSent: stanzaWritten() on a client

Fresh == [state |-> "Active", proto |-> "Open", sendList |-> <<>>, track |-> <<>>,
          stanzasPending |-> 0, stanzasWritten |-> 0, closeWritten |-> FALSE,
          peerClosed |-> FALSE, doShutdown |-> FALSE, closeError |-> FALSE,
          notify |-> {"NRecv"}, parser |-> <<>>, in |-> <<>>, posted |-> 0,
          timer |-> FALSE, told |-> 0]

Init ==
    /\ st = [e \in Ends |-> Fresh]
    /\ running = "none"
    /\ wire = [e \in Ends |-> <<>>]
    /\ unreported = [e \in Ends |-> 0]
    /\ broken = {}
    /\ breaks = 0
    /\ directs = 0
    /\ sent = [e \in Ends |-> 0]
    /\ got = [e \in Ends |-> <<>>]
    /\ ended = [e \in Ends |-> <<>>]

Put(e, s) == st' = [st EXCEPT ![e] = s]
Gone(e) == st[e].state = "Idle" \/ e \in broken

-----------------------------------------------------------------------------
(* Writing and tracking bytes.                                             *)

Track(el) ==
    [t |-> CASE el.t = "stanza" -> "stanza" [] el.t = "close" -> "close" [] OTHER -> "other",
     size |-> Size(el)]

\* Byte b of item i, for every item.
Bytes(track) ==
    Cardinality({ib \in (DOMAIN track) \X (1 .. 2) : ib[2] <= track[ib[1]].size})

\* How many of the elements, or of the items, are stanzas.
StanzasIn(els) == Cardinality({i \in DOMAIN els : els[i].t = "stanza"})

\* The step queues the elements for tracking, and its ESend writes them.  A
\* socket that failed drops what it is given.
Emit(e, s, els) ==
    LET track == [i \in DOMAIN els |-> Track(els[i])]
        o == Other(e)
    IN /\ Put(e, [s EXCEPT !.track = @ \o track, !.notify = {}])
       /\ wire' = IF Gone(o) \/ e \in broken THEN wire ELSE [wire EXCEPT ![o] = @ \o els]
       /\ unreported' = IF e \in broken THEN unreported
                        ELSE [unreported EXCEPT ![e] = @ + Bytes(track)]

\* Mutation: an item keeps its whole size when only a part of it is written.
WrittenForgets(track, n) ==
    LET whole == {k \in 0 .. Len(track) : Bytes(SubSeq(track, 1, k)) <= n}
    IN [done |-> SubSeq(track, 1, Max(whole)),
        track |-> SubSeq(track, Max(whole) + 1, Len(track))]

\* outgoingDataWritten(n): the items the bytes cover are done, the next one
\* keeps the rest of its size.
Written(track, n) ==
    LET whole == {k \in 0 .. Len(track) : Bytes(SubSeq(track, 1, k)) <= n}
        k == Max(whole)
        left == n - Bytes(SubSeq(track, 1, k))
        rest == SubSeq(track, k + 1, Len(track))
    IN [done |-> SubSeq(track, 1, k),
        track |-> IF rest = <<>> THEN <<>> ELSE [rest EXCEPT ![1].size = @ - left]]

\* Mutation: the bytes of the closing tag are not noticed.
CreditedNoClose(s, n) ==
    LET w == Written(s.track, n)
        stanzas == StanzasIn(w.done)
    IN [s EXCEPT !.track = w.track,
                 !.stanzasPending = @ - stanzas,
                 !.stanzasWritten = @ + stanzas]

\* itemWritten, for each item that is done.
Credited(s, n) ==
    LET w == Written(s.track, n)
        stanzas == StanzasIn(w.done)
    IN [s EXCEPT !.track = w.track,
                 !.stanzasPending = @ - stanzas,
                 !.stanzasWritten = @ + stanzas,
                 !.closeWritten = @ \/ \E i \in DOMAIN w.done : w.done[i].t = "close"]

-----------------------------------------------------------------------------
(* The end of a stream.                                                    *)

\* Mutation: the protocol keeps its closing state.
ResetStateKeepsClosing(s) ==
    [Fresh EXCEPT !.state = "Idle", !.proto = s.proto, !.notify = {}, !.in = s.in,
                  !.posted = s.posted, !.timer = s.timer,
                  !.closeWritten = s.closeWritten]

\* ClientStream::reset(false): the protocol starts afresh, "in" and the calls
\* already queued stay.
ResetState(s) ==
    [Fresh EXCEPT !.state = "Idle", !.proto = "Reset", !.notify = {}, !.in = s.in,
                  !.posted = s.posted, !.timer = s.timer]

\* The connector of a client deletes its socket at once: what the socket has not
\* written yet may not leave.  The socket of a server closes when it has.
CloseSocket(e) ==
    LET o == Other(e)
        least == IF e = "server" \/ Len(wire[o]) < Len(st[e].track) THEN 0
                 ELSE Len(wire[o]) - Len(st[e].track)
    IN /\ \E k \in (IF e = "server" THEN {Len(wire[o])} ELSE least .. Len(wire[o])) :
            wire' = [wire EXCEPT ![e] = <<>>, ![o] = SubSeq(wire[o], 1, k)]
       /\ unreported' = [unreported EXCEPT ![e] = 0]

\* The stream is reset and says so to the application.
Finish(e, signal) ==
    /\ Put(e, ResetState(st[e]))
    /\ CloseSocket(e)
    /\ broken' = broken \ {e}
    /\ running' = "none"
    /\ ended' = [ended EXCEPT ![e] = Append(@, signal)]
    /\ UNCHANGED <<breaks, directs, sent, got>>

-----------------------------------------------------------------------------
(* processNext: one action per outcome of a protocol step.                 *)

\* A step that advances the parser takes the next element with it.
Parses(s) == s.proto = "Open" /\ s.parser # <<>>
Popped(s) == IF Parses(s) THEN [s EXCEPT !.parser = Tail(@)] ELSE s
Elem(s) == IF Parses(s) THEN Head(s.parser) ELSE El("none")

PeerClose(s) == [s EXCEPT !.proto = "Closing", !.parser = Tail(@), !.peerClosed = TRUE]

\* DocumentClose: the incoming side answers it, the other side is done.
StepDocumentClose(e) ==
    LET s == st[e] IN
    /\ Elem(s).t = "close"
    /\ \/ /\ e = "server"
          /\ Emit(e, PeerClose(s), <<El("close")>>)
          /\ UNCHANGED <<running, broken, breaks, hist>>
       \/ /\ e = "client"
          /\ Finish(e, "connectionClosed")

\* A parse error: the incoming side sends the error and closes.
StepParseError(e) ==
    LET s == st[e] IN
    /\ Elem(s).t = "bad"
    /\ \/ /\ e = "server"
          /\ Emit(e, [Popped(s) EXCEPT !.proto = "Closing", !.closeError = TRUE],
                  <<El("error"), El("close")>>)
          /\ UNCHANGED <<running, broken, breaks, hist>>
       \/ /\ e = "client"
          /\ Finish(e, "error")

\* The steps below are BasicProtocol::doStep, in the order it tests them: each
\* takes the element the parser gave with it, and only StepElement delivers it.
InDoStep(s) == s.proto = "Open" /\ Elem(s).t \notin {"close", "bad"}

StepShutdown(e) ==
    LET s == st[e] IN
    /\ InDoStep(s) /\ s.doShutdown
    /\ Emit(e, [Popped(s) EXCEPT !.doShutdown = FALSE, !.proto = "Closing"], <<El("close")>>)
    /\ UNCHANGED <<running, broken, breaks, hist>>

StepStreamError(e) ==
    LET s == st[e] IN
    /\ InDoStep(s) /\ ~s.doShutdown
    /\ Elem(s).t = "error"
    /\ Finish(e, "error")

\* EStanzaSent: a client end tells its application.
StepStanzaSent(e) ==
    LET s == st[e] IN
    /\ InDoStep(s) /\ ~s.doShutdown /\ Elem(s).t # "error"
    /\ s.stanzasWritten > 0
    /\ Put(e, [Popped(s) EXCEPT !.stanzasWritten = @ - 1, !.notify = {},
                                !.told = @ + 1])
    /\ UNCHANGED <<running, net, hist>>

\* Mutation: the newest item is sent first.
SendFirstLast(s) == [Popped(s) EXCEPT
    !.sendList = Front(@),
    !.stanzasPending = @ + IF Head(s.sendList).t = "stanza" THEN 1 ELSE 0]

\* The first item leaves the list; a stanza is pending until it is written.
SendFirst(s) == [Popped(s) EXCEPT
    !.sendList = Tail(@),
    !.stanzasPending = @ + IF Head(s.sendList).t = "stanza" THEN 1 ELSE 0]

StepSend(e) ==
    LET s == st[e] IN
    /\ InDoStep(s) /\ ~s.doShutdown /\ Elem(s).t # "error"
    /\ s.stanzasWritten = 0 /\ s.sendList # <<>>
    /\ Emit(e, SendFirst(s), <<Head(s.sendList)>>)
    /\ UNCHANGED <<running, broken, breaks, hist>>

\* EStanzaReady: stored for now, announced when the loop ends.
StepElement(e) ==
    LET s == st[e] IN
    /\ InDoStep(s) /\ ~s.doShutdown /\ s.stanzasWritten = 0 /\ s.sendList = <<>>
    /\ Elem(s).t = "stanza"
    /\ Put(e, [Popped(s) EXCEPT !.in = Append(@, Elem(s).n), !.notify = {}])
    /\ UNCHANGED <<running, net, hist>>

\* The closing tag is written: the stream is over.
StepCloseFinished(e) ==
    LET s == st[e] IN
    /\ s.proto = "Closing" /\ s.closeWritten
    /\ Finish(e, IF e = "server" \/ s.closeError THEN "error" ELSE
                 IF s.peerClosed THEN "connectionClosed" ELSE "delayedCloseFinished")

\* Mutation: a step without work asks for incoming data only.
NeedsRecvOnly(s) == IF s.proto = "Closing" THEN {"NSend"} ELSE {"NRecv"}

\* What a step without work waits for.
Needs(s) ==
    IF s.proto = "Closing" THEN {"NSend"}
    ELSE {"NRecv"} \cup (IF s.stanzasPending > 0 THEN {"NSend"} ELSE {})

\* The loop ends: a server announces what came in at once and its application
\* reads all of it, a client by a timer.
LoopEnds(e) ==
    LET s == st[e] IN
    /\ \/ s.proto = "Open" /\ ~Parses(s) /\ ~s.doShutdown
          /\ s.stanzasWritten = 0 /\ s.sendList = <<>>
       \/ s.proto = "Closing" /\ ~s.closeWritten
       \/ s.proto = "Reset"
    /\ \/ /\ e = "server"
          /\ Put(e, [s EXCEPT !.notify = Needs(s), !.in = <<>>])
          /\ got' = [got EXCEPT ![e] = @ \o s.in]
       \/ /\ e = "client"
          /\ Put(e, [s EXCEPT !.notify = Needs(s), !.timer = @ \/ s.in # <<>>])
          /\ UNCHANGED got
    /\ running' = "none"
    /\ UNCHANGED <<net, directs, sent, ended>>

Step(e) ==
    /\ running = e
    /\ \/ StepDocumentClose(e) \/ StepParseError(e) \/ StepShutdown(e)
       \/ StepStreamError(e) \/ StepStanzaSent(e) \/ StepSend(e)
       \/ StepElement(e) \/ StepCloseFinished(e) \/ LoopEnds(e)

-----------------------------------------------------------------------------
(* The events of an end.                                                   *)

\* The loop runs when the event finds what the stream waits for.
RunIf(e, wakes) == running' = IF wakes THEN e ELSE "none"

\* ClientStream::write: the stanza is queued, and so is a call of processNext.
Write(e) ==
    LET n == sent[e] + 1 IN
    /\ st[e].state = "Active" /\ sent[e] < MaxSent(e)
    /\ Put(e, [st[e] EXCEPT !.sendList = Append(@, Stanza(n)), !.posted = @ + 1])
    /\ sent' = [sent EXCEPT ![e] = n]
    /\ UNCHANGED <<running, net, directs, got, ended>>

\* ClientStream::writeDirect, given text that does not parse: processNext at once.
WriteDirect(e) ==
    /\ e = "client" /\ st[e].state = "Active"
    /\ directs + breaks < MaxTroubles
    /\ Put(e, [st[e] EXCEPT !.sendList = Append(@, El("bad"))])
    /\ directs' = directs + 1
    /\ running' = e
    /\ UNCHANGED <<net, sent, got, ended>>

\* ClientStream::close.  On the server side it shuts the unused client protocol
\* down; the router never calls it.
Close(e) ==
    /\ e = "client" /\ st[e].state = "Active"
    /\ Put(e, [st[e] EXCEPT !.state = "Closing", !.doShutdown = TRUE])
    /\ running' = e
    /\ UNCHANGED <<net, hist>>

RunPosted(e) ==
    /\ st[e].posted > 0
    /\ Put(e, [st[e] EXCEPT !.posted = @ - 1])
    /\ running' = e
    /\ UNCHANGED <<net, hist>>

\* ss_readyRead: what has arrived goes to the parser.
ReadyRead(e) ==
    /\ ~Gone(e)
    /\ \E k \in 1 .. Len(wire[e]) :
        /\ Put(e, [st[e] EXCEPT !.parser = @ \o SubSeq(wire[e], 1, k)])
        /\ wire' = [wire EXCEPT ![e] = SubSeq(@, k + 1, Len(@))]
    /\ RunIf(e, "NRecv" \in st[e].notify)
    /\ UNCHANGED <<unreported, broken, breaks, hist>>

\* ss_bytesWritten.
BytesWritten(e) ==
    /\ ~Gone(e)
    /\ \E n \in 1 .. unreported[e] :
        /\ Put(e, Credited(st[e], n))
        /\ unreported' = [unreported EXCEPT ![e] = @ - n]
    /\ RunIf(e, "NSend" \in st[e].notify)
    /\ UNCHANGED <<wire, broken, breaks, hist>>

\* doReadyRead, on the client.
DoReadyRead(e) ==
    /\ st[e].timer
    /\ Put(e, [st[e] EXCEPT !.timer = FALSE, !.in = <<>>])
    /\ got' = [got EXCEPT ![e] = @ \o st[e].in]
    /\ UNCHANGED <<running, net, directs, sent, ended>>

\* bs_connectionClosed: the other end closed, and all its data is read.
ConnectionClosed(e) ==
    /\ ~Gone(e) /\ Gone(Other(e)) /\ wire[e] = <<>>
    /\ Finish(e, "connectionClosed")

\* The socket of an end fails: the connector of a client passes the error on
\* (cr_error); bs_error of a server stream does nothing.
Fails(e) ==
    /\ ~Gone(e) /\ directs + breaks < MaxTroubles
    /\ breaks' = breaks + 1
    /\ wire' = [o \in Ends |-> <<>>]
    /\ unreported' = [unreported EXCEPT ![e] = 0]
    /\ \/ /\ e = "client"
          /\ Put(e, ResetState(st[e]))
          /\ ended' = [ended EXCEPT ![e] = Append(@, "error")]
          /\ UNCHANGED broken
       \/ /\ e = "server"
          /\ broken' = broken \cup {e}
          /\ UNCHANGED <<st, ended>>
    /\ UNCHANGED <<running, directs, sent, got>>

Event(e) ==
    /\ running = "none"
    /\ RunPosted(e) \/ ReadyRead(e) \/ BytesWritten(e) \/ DoReadyRead(e) \/ ConnectionClosed(e)

Application(e) == running = "none" /\ (Write(e) \/ WriteDirect(e) \/ Close(e))

Next == \E e \in Ends :
    Step(e) \/ Event(e) \/ Application(e) \/ (running = "none" /\ Fails(e))

\* As long as an event loop has something to do, one of them does.
Fairness == WF_vars(\E e \in Ends : Step(e) \/ Event(e))

Spec == Init /\ [][Next]_vars /\ Fairness

-----------------------------------------------------------------------------
(* Properties.                                                             *)

\* Every variable has its type; an application is told at most once that its
\* stream has ended (reset() before every terminal signal).
TypeOK ==
    /\ st \in [Ends -> StreamState]
    /\ running \in Ends \cup {"none"}
    /\ wire \in [Ends -> Seq(Element)]
    /\ unreported \in [Ends -> Nat]
    /\ broken \subseteq Ends
    /\ breaks \in Nat /\ directs \in Nat
    /\ sent \in [Ends -> Nat]
    /\ got \in [Ends -> Seq(Stanzas)]
    /\ ended \in [Ends -> {<<>>} \cup {<<x>> : x \in Signal}]

\* Bytes are credited once and to the item they belong to: what trackQueue waits
\* for is what the socket has still to report, and every stanza an application
\* wrote is queued, pending, written or was announced as written
\* (xmlprotocol.cpp outgoingDataWritten, protocol.cpp itemWritten).
BytesAccounted ==
    \A e \in Ends : ~Gone(e) =>
        /\ Bytes(st[e].track) = unreported[e]
        /\ st[e].stanzasPending = StanzasIn(st[e].track)
        /\ sent[e] = StanzasIn(st[e].sendList) + st[e].stanzasPending
                     + st[e].stanzasWritten + st[e].told

\* No lost wakeup: an end whose loop has stopped has nothing left to do that the
\* events it asked for in "notify", or calls already queued, would not bring up.
NoLostWakeup ==
    running = "none" => \A e \in Ends : ~Gone(e) =>
        /\ st[e].in # <<>> => st[e].timer
        /\ st[e].proto = "Closing" => ~st[e].closeWritten
        /\ st[e].proto = "Open" =>
             /\ st[e].parser = <<>> /\ st[e].stanzasWritten = 0 /\ ~st[e].doShutdown
             /\ st[e].sendList # <<>> => st[e].posted > 0

\* The elements on their way to an application, the stanzas it read first.
Pipeline(e) ==
    LET read == got[e] \o st[e].in
    IN [i \in DOMAIN read |-> Stanza(read[i])]
         \o st[e].parser \o wire[e] \o st[Other(e)].sendList

\* Order and loss: stanzas arrive in the order they were written and none twice;
\* and while both streams are open, the elements a receiver has lost (the ones
\* doStep took from the parser in a step that did something else) are at most
\* the items it sent itself, so an end that only listens loses nothing.
InOrderAndLossBounded ==
    \A e \in Ends :
        LET p == Pipeline(e)
            o == Other(e)
            written == sent[e] + (IF e = "client" THEN directs ELSE 0)
        IN /\ \A i, j \in DOMAIN p :
                i < j /\ p[i].t = "stanza" /\ p[j].t = "stanza" => p[i].n < p[j].n
           /\ (\A x \in Ends : st[x].state = "Active" /\ st[x].proto = "Open" /\ ~Gone(x))
                => sent[o] - StanzasIn(p) <= written - Len(st[e].sendList)

\* A stream that is closed at one end ends at both, the closing handshake
\* included; the exception is a server end whose socket failed with an error,
\* which bs_error leaves as it is.
BothEnd ==
    (\E e \in Ends : st[e].state = "Closing" \/ ended[e] # <<>>)
        ~> (\A e \in Ends : ended[e] # <<>> \/ e \in broken)
=============================================================================
