----------------------------- MODULE S2SProofs ------------------------------
(***************************************************************************)
(* Theorems about S2S for every number of stanzas, connections and         *)
(* failures: type correctness, one outbound session per host, an empty     *)
(* queue behind every active session, and delivery at most once.           *)
(***************************************************************************)
EXTENDS S2S, SequenceFacts, FiniteSetTheorems, TLAPS

\* A stanza on the wire has a number.
Message == {m \in Msg : m.t = "stanza" => m.n \in Stanzas}
Wires == [Conns -> [toIn : Seq(Message), toOut : Seq(Message)]]

\* One session list.
OneOut(l) == \A i, j \in 1 .. Len(l) : l[i].kind = "out" /\ l[j].kind = "out" => i = j
Flushed(l) == \A i \in 1 .. Len(l) : l[i].active => l[i].pending = <<>>
Good(l) == l \in Seq(Session) /\ OneOut(l) /\ Flushed(l)

Types ==
    /\ list \in [Hosts -> Seq(Session)] /\ \A h \in Hosts : Good(list[h])
    /\ wire \in Wires
    /\ shut \subseteq Conns \X {"toIn", "toOut"}
    /\ conns \in 0 .. MaxConns
    /\ breaks \in 0 .. MaxBreaks
    /\ sent \in [Hosts -> 0 .. MaxStanzas]
    /\ got \in [Hosts -> Seq(Stanzas)]

-----------------------------------------------------------------------------
(* The hosts.                                                              *)

\* There is another host.
LEMMA PeerType == \A h \in Hosts : Peer(h) \in Hosts /\ Peer(h) # h
<1> SUFFICES ASSUME NEW h \in Hosts PROVE \E p \in Hosts : p # h
  BY DEF Peer
<1>1. Hosts # {h}
  <2>1. Cardinality({h}) = 1
    BY FS_Singleton
  <2> QED BY <2>1, S2SAssumption DEF S2SAssumption
<1> QED BY <1>1

-----------------------------------------------------------------------------
(* The wire.                                                               *)

\* Writing, reading, and emptying a direction of a connection.
LEMMA WireType ==
    ASSUME NEW w \in Wires, NEW c \in Conns, NEW dir \in {"toIn", "toOut"}
    PROVE  /\ w[c][dir] \in Seq(Message)
           /\ \A x \in Seq(Message) : [w EXCEPT ![c][dir] = x] \in Wires
           /\ \A ms \in Seq(Message) : Put(w, c, dir, ms) \in Wires
           /\ w[c][dir] # <<>> => [w EXCEPT ![c][dir] = Tail(@)] \in Wires
                                  /\ Head(w[c][dir]) \in Message
<1>1. w[c] \in [toIn : Seq(Message), toOut : Seq(Message)]
  BY DEF Wires
<1>2. w[c][dir] \in Seq(Message)
  <2>1. CASE dir = "toIn" BY <2>1, <1>1
  <2>2. CASE dir = "toOut" BY <2>2, <1>1
  <2> QED BY <2>1, <2>2
<1>3. ASSUME NEW x \in Seq(Message) PROVE [w EXCEPT ![c][dir] = x] \in Wires
  <2>1. [w[c] EXCEPT ![dir] = x] \in [toIn : Seq(Message), toOut : Seq(Message)]
    <3>1. CASE dir = "toIn" BY <3>1, <1>1, <1>3
    <3>2. CASE dir = "toOut" BY <3>2, <1>1, <1>3
    <3> QED BY <3>1, <3>2
  <2> QED BY <2>1 DEF Wires
<1>4. ASSUME NEW ms \in Seq(Message) PROVE Put(w, c, dir, ms) \in Wires
  <2>1. w[c][dir] \o ms \in Seq(Message)
    BY <1>2, <1>4, ConcatProperties
  <2> QED BY <2>1, <1>3 DEF Put
<1>5. ASSUME w[c][dir] # <<>>
      PROVE  [w EXCEPT ![c][dir] = Tail(@)] \in Wires /\ Head(w[c][dir]) \in Message
  <2>1. Tail(w[c][dir]) \in Seq(Message) /\ Head(w[c][dir]) \in Message
    BY <1>2, <1>5, HeadTailProperties
  <2> QED BY <2>1, <1>3
<1> QED BY <1>2, <1>3, <1>4, <1>5

-----------------------------------------------------------------------------
(* A list of sessions.                                                     *)

\* A session changes its state but not its kind.
LEMMA GoodReplaced ==
    ASSUME NEW l, Good(l), NEW i \in 1 .. Len(l), NEW e \in Session,
           e.kind = l[i].kind, e.active => e.pending = <<>>
    PROVE  Good([l EXCEPT ![i] = e])
<1> DEFINE m == [l EXCEPT ![i] = e]
<1>1. m \in Seq(Session) /\ Len(m) = Len(l)
      /\ \A j \in 1 .. Len(l) : m[j] = IF j = i THEN e ELSE l[j]
  BY ExceptSeq DEF Good
<1> HIDE DEF m
<1>2. OneOut(m) /\ Flushed(m)
  BY <1>1 DEF Good, OneOut, Flushed
<1>3. Good(m)
  BY <1>1, <1>2 DEF Good
<1> QED BY <1>3 DEF m

\* A session joins the list, an outbound one only when there is none.
LEMMA GoodAppended ==
    ASSUME NEW l, Good(l), NEW e \in Session, e.active => e.pending = <<>>,
           e.kind = "out" => \A i \in 1 .. Len(l) : l[i].kind # "out"
    PROVE  Good(Append(l, e))
<1> DEFINE m == Append(l, e)
<1>1. m \in Seq(Session) /\ Len(m) = Len(l) + 1 /\ Len(l) \in Nat
      /\ \A j \in 1 .. Len(l) + 1 : m[j] = IF j = Len(l) + 1 THEN e ELSE l[j]
  BY LenProperties DEF Good
<1> HIDE DEF m
<1>2. OneOut(m) /\ Flushed(m)
  BY <1>1 DEF Good, OneOut, Flushed
<1>3. Good(m)
  BY <1>1, <1>2 DEF Good
<1> QED BY <1>3 DEF m

\* A session leaves the list.
LEMMA GoodRemoved ==
    ASSUME NEW l, Good(l), NEW i \in 1 .. Len(l)
    PROVE  Good(RemoveAt(l, i))
<1> DEFINE m == RemoveAt(l, i)
<1>1. m \in Seq(Session) /\ Len(m) = Len(l) - 1 /\ Len(l) \in Nat
      /\ \A k \in 1 .. Len(l) - 1 : m[k] = IF k < i THEN l[k] ELSE l[k + 1]
  BY RemoveAtType, LenProperties DEF Good
<1> HIDE DEF m
<1>2. Flushed(m)
  BY <1>1 DEF Good, Flushed
<1>3. OneOut(m)
  <2> SUFFICES ASSUME NEW j \in 1 .. Len(m), NEW k \in 1 .. Len(m),
                      m[j].kind = "out", m[k].kind = "out"
               PROVE  j = k
    BY DEF OneOut
  <2> DEFINE at(n) == IF n < i THEN n ELSE n + 1
  <2>1. at(j) \in 1 .. Len(l) /\ at(k) \in 1 .. Len(l) /\ m[j] = l[at(j)] /\ m[k] = l[at(k)]
    BY <1>1
  <2>2. at(j) = at(k)
    BY <2>1 DEF Good, OneOut
  <2> QED BY <2>2, <1>1
<1>4. Good(m)
  BY <1>1, <1>2, <1>3 DEF Good
<1> QED BY <1>4 DEF m

\* Sessions of the list are validated.
LEMMA GoodValidated ==
    ASSUME NEW h \in Hosts, Good(list[h]), NEW in, NEW ok
    PROVE  Good(Validated(h, in, ok)) /\ Len(Validated(h, in, ok)) = Len(list[h])
<1> DEFINE l == list[h]
           m == Validated(h, in, ok)
<1>1. l \in Seq(Session) /\ Len(l) \in Nat /\ \A k \in 1 .. Len(l) : l[k] \in Session
  BY LenProperties, ElementOfSeq DEF Good
<1>2. m = [k \in 1 .. Len(l) |->
              IF k \in in /\ ok = 1 THEN [l[k] EXCEPT !.validated = TRUE] ELSE l[k]]
  BY DEF Validated
<1> HIDE DEF l, m
<1>3. \A k \in 1 .. Len(l) :
         m[k] \in Session /\ m[k].kind = l[k].kind /\ m[k].active = l[k].active
         /\ m[k].pending = l[k].pending
  <2> TAKE k \in 1 .. Len(l)
  <2> DEFINE e == [l[k] EXCEPT !.validated = TRUE]
  <2>1. l[k] \in Session /\ (m[k] = e \/ m[k] = l[k])
    BY <1>1, <1>2
  <2>2. e \in Session /\ e.kind = l[k].kind /\ e.active = l[k].active /\ e.pending = l[k].pending
    BY <2>1 DEF Session
  <2> QED BY <2>1, <2>2
<1>4. m \in [1 .. Len(l) -> Session]
  BY <1>2, <1>3
<1>5. m \in Seq(Session) /\ Len(m) = Len(l)
  BY <1>1, <1>4, SeqDef, LenProperties
<1>6. OneOut(m) /\ Flushed(m)
  BY <1>3, <1>5 DEF Good, OneOut, Flushed, l
<1> QED BY <1>5, <1>6 DEF Good, l, m

\* The handler of one session changes the list of one host.
LEMMA ListChanged ==
    ASSUME Types, NEW h \in Hosts, NEW l, Good(l), list' = [list EXCEPT ![h] = l]
    PROVE  list' \in [Hosts -> Seq(Session)] /\ \A g \in Hosts : Good(list'[g])
<1>1. \A g \in Hosts : list'[g] = IF g = h THEN l ELSE list[g]
  BY DEF Types
<1>2. \A g \in Hosts : Good(list'[g])
  BY <1>1 DEF Types
<1>3. l \in Seq(Session)
  BY DEF Good
<1> QED BY <1>2, <1>3 DEF Types

\* The sessions of a list, and which end of the wire they read.
LEMMA OneSession ==
    ASSUME Types, NEW h \in Hosts, NEW i \in 1 .. Len(list[h])
    PROVE  /\ Good(list[h]) /\ list[h][i] \in Session
           /\ list[h][i].active => list[h][i].pending = <<>>
           /\ list[h][i].c \in Conns
           /\ Incoming(list[h][i]) \in {"toIn", "toOut"}
           /\ Back(Incoming(list[h][i])) \in {"toIn", "toOut"}
<1>1. Good(list[h]) /\ list[h][i] \in Session
  BY ElementOfSeq DEF Types
<1> QED BY <1>1 DEF Session, Incoming, Back, Good, Flushed

\* Closing an end.
LEMMA ClosedType ==
    ASSUME Types, NEW s \in Session, NEW w \in Wires, CloseEnd(w, s)
    PROVE  wire' \in Wires /\ shut' \subseteq Conns \X {"toIn", "toOut"}
<1>1. s.c \in Conns /\ Incoming(s) \in {"toIn", "toOut"} /\ Back(Incoming(s)) \in {"toIn", "toOut"}
  BY DEF Session, Incoming, Back
<1>2. <<M("close", 0)>> \in Seq(Message)
  BY DEF M, Msg, Message
<1> DEFINE v == Put(w, s.c, Back(Incoming(s)), <<M("close", 0)>>)
<1>3. v \in Wires
  BY <1>1, <1>2, WireType
<1> HIDE DEF v
<1>4. [v EXCEPT ![s.c][Incoming(s)] = <<>>] \in Wires
  BY <1>1, <1>3, WireType, EmptySeq
<1>5. wire' = [v EXCEPT ![s.c][Incoming(s)] = <<>>] /\ shut' = shut \cup {<<s.c, Incoming(s)>>}
  BY DEF CloseEnd, v
<1> QED BY <1>1, <1>4, <1>5 DEF Types

\* A session that is done leaves the list, and its end closes.
LEMMA DoneTypes ==
    ASSUME Types, NEW h \in Hosts, NEW i \in 1 .. Len(list[h]), NEW w \in Wires, Done(h, i, w),
           conns' \in 0 .. MaxConns, breaks' \in 0 .. MaxBreaks,
           sent' \in [Hosts -> 0 .. MaxStanzas], got' \in [Hosts -> Seq(Stanzas)]
    PROVE  Types'
<1>1. Good(RemoveAt(list[h], i))
  BY OneSession, GoodRemoved
<1>2. list' = [list EXCEPT ![h] = RemoveAt(list[h], i)] /\ CloseEnd(w, list[h][i])
  BY DEF Done
<1>3. list' \in [Hosts -> Seq(Session)] /\ \A g \in Hosts : Good(list'[g])
  BY <1>1, <1>2, ListChanged
<1>4. wire' \in Wires /\ shut' \subseteq Conns \X {"toIn", "toOut"}
  BY <1>2, OneSession, ClosedType
<1> QED BY <1>3, <1>4 DEF Types

\* A session only changes the state of its stream.
LEMMA StateChanged ==
    ASSUME Types, NEW h \in Hosts, NEW i \in 1 .. Len(list[h]),
           NEW st \in {"connecting", "opening", "ready", "dead"},
           list' = [list EXCEPT ![h][i].st = st]
    PROVE  list' \in [Hosts -> Seq(Session)] /\ \A g \in Hosts : Good(list'[g])
<1> DEFINE s == list[h][i]
           e == [s EXCEPT !.st = st]
<1>1. Good(list[h]) /\ s \in Session /\ (s.active => s.pending = <<>>)
  BY OneSession
<1>2. e \in Session /\ e.kind = s.kind /\ e.active = s.active /\ e.pending = s.pending
  <2> HIDE DEF s
  <2> QED BY <1>1 DEF Session
<1>3. list' = [list EXCEPT ![h] = [list[h] EXCEPT ![i] = e]]
  OBVIOUS
<1> HIDE DEF e
<1>4. Good([list[h] EXCEPT ![i] = e])
  <2>1. e.kind = list[h][i].kind /\ (e.active => e.pending = <<>>)
    BY <1>1, <1>2
  <2> QED BY <1>1, <1>2, <2>1, GoodReplaced
<1> QED BY <1>3, <1>4, ListChanged

\* The stream of a connecting session ends.
LEMMA GoneTypes ==
    ASSUME Types, NEW h \in Hosts, NEW i \in 1 .. Len(list[h]), NEW w \in Wires, StreamGone(h, i, w),
           conns' \in 0 .. MaxConns, breaks' \in 0 .. MaxBreaks,
           sent' \in [Hosts -> 0 .. MaxStanzas], got' \in [Hosts -> Seq(Stanzas)]
    PROVE  Types'
<1>1. CASE list[h][i].kind = "verify"
  <2>1. list' = [list EXCEPT ![h][i].st = "dead"] /\ CloseEnd(w, list[h][i])
    BY <1>1 DEF StreamGone
  <2>2. list' \in [Hosts -> Seq(Session)] /\ \A g \in Hosts : Good(list'[g])
    BY <2>1, StateChanged
  <2>3. wire' \in Wires /\ shut' \subseteq Conns \X {"toIn", "toOut"}
    BY <2>1, OneSession, ClosedType
  <2> QED BY <2>2, <2>3 DEF Types
<1>2. CASE list[h][i].kind # "verify"
  BY <1>2, DoneTypes DEF StreamGone
<1> QED BY <1>1, <1>2

-----------------------------------------------------------------------------
(* The actions.                                                            *)

\* No sessions, nothing on the wire.
LEMMA InitTypes == Init => Types
<1> SUFFICES ASSUME Init PROVE Types
  OBVIOUS
<1>1. <<>> \in Seq(Session) /\ <<>> \in Seq(Message) /\ <<>> \in Seq(Stanzas) /\ Len(<<>>) = 0
  BY EmptySeq
<1>2. Good(<<>>)
  BY <1>1 DEF Good, OneOut, Flushed
<1>3. wire \in Wires
  BY <1>1 DEF Init, Wires
<1> QED BY <1>1, <1>2, <1>3, S2SAssumption DEF Init, Types, S2SAssumption

\* A new session joins the list of one host.
LEMMA SessionJoins ==
    ASSUME Types, NEW h \in Hosts, NEW e \in Session, e.active => e.pending = <<>>,
           e.kind = "out" => \A i \in 1 .. Len(list[h]) : list[h][i].kind # "out"
    PROVE  Good(Append(list[h], e))
<1>1. Good(list[h])
  BY DEF Types
<1> QED BY <1>1, GoodAppended

\* Router::write: the session found, or a new one.
LEMMA WriteTypes == ASSUME Types, NEW h \in Hosts, Write(h) PROVE Types'
<1> DEFINE n == sent[h] + 1
<1>1. /\ n \in Stanzas /\ sent' \in [Hosts -> 0 .. MaxStanzas] /\ sent[h] + 1 = n
      /\ UNCHANGED <<shut, breaks, got>>
  BY S2SAssumption DEF Types, Write, Stanzas, S2SAssumption
<1>2. <<n>> \in Seq(Stanzas) /\ <<M("stanza", n)>> \in Seq(Message)
  <2>1. M("stanza", n) \in Message
    BY <1>1 DEF M, Message, Msg, Stanzas
  <2> QED BY <1>1, <2>1
<1> HIDE DEF n
<1>3. CASE Outbounds(h) = {}
  <2> DEFINE e == NewSession("out", conns + 1, "connecting", 0, <<n>>)
  <2>0. conns < MaxConns /\ conns' = conns + 1 /\ wire' = wire
        /\ list' = [list EXCEPT ![h] = Append(list[h], e)]
    BY <1>1, <1>3 DEF Write
  <2>1. conns' \in 0 .. MaxConns /\ conns + 1 \in Conns
    BY <2>0, S2SAssumption DEF Types, Conns, S2SAssumption
  <2>2. e \in Session /\ ~e.active
    BY <1>2, <2>1 DEF NewSession, Session
  <2>3. \A i \in 1 .. Len(list[h]) : list[h][i].kind # "out"
    BY <1>3 DEF Outbounds
  <2> HIDE DEF e
  <2>4. Good(Append(list[h], e))
    BY <2>2, <2>3, SessionJoins
  <2>5. list' \in [Hosts -> Seq(Session)] /\ \A g \in Hosts : Good(list'[g])
    BY <2>0, <2>4, ListChanged
  <2> QED BY <1>1, <2>0, <2>1, <2>5 DEF Types
<1>4. CASE Outbounds(h) # {}
  <2> DEFINE i == ensureOutbound(h)
             s == list[h][i]
             e == [s EXCEPT !.pending = Append(@, n)]
  <2>1. i \in 1 .. Len(list[h])
    <3>1. Outbounds(h) \subseteq Nat
      BY DEF Outbounds
    <3>2. \E k \in Outbounds(h) : \A j \in Outbounds(h) : k <= j
      BY <1>4, <3>1, LeastNumber
    <3> QED BY <3>2 DEF ensureOutbound, Outbounds
  <2>2. SessionWrite(h, i, n) /\ conns' = conns
    BY <1>1, <1>4 DEF Write
  <2>3. Good(list[h]) /\ s \in Session /\ s.c \in Conns
    BY <2>1, OneSession
  <2> HIDE DEF i
  <2>4. CASE s.active
    <3>1. wire' = Put(wire, s.c, "toIn", <<M("stanza", n)>>) /\ list' = list
      BY <2>2, <2>4 DEF SessionWrite
    <3>2. wire' \in Wires
      BY <1>2, <2>3, <3>1, WireType DEF Types
    <3> QED BY <1>1, <2>2, <3>1, <3>2 DEF Types
  <2>5. CASE ~s.active
    <3>1. list' = [list EXCEPT ![h] = [list[h] EXCEPT ![i] = e]] /\ wire' = wire
      BY <2>2, <2>5 DEF SessionWrite
    <3>2. e \in Session /\ e.kind = s.kind /\ ~e.active
      <4> HIDE DEF s
      <4>1. s.pending \in Seq(Stanzas)
        BY <2>3 DEF Session
      <4>2. Append(s.pending, n) \in Seq(Stanzas)
        BY <1>1, <4>1
      <4> QED BY <2>3, <2>5, <4>2 DEF Session
    <3>3. Good([list[h] EXCEPT ![i] = e])
      <4> HIDE DEF e
      <4> QED BY <2>1, <2>3, <3>2, GoodReplaced
    <3>4. list' \in [Hosts -> Seq(Session)] /\ \A g \in Hosts : Good(list'[g])
      <4> HIDE DEF e
      <4> QED BY <3>1, <3>3, ListChanged
    <3> QED BY <1>1, <2>2, <3>1, <3>4 DEF Types
  <2> QED BY <2>4, <2>5
<1> QED BY <1>3, <1>4

\* A connection is accepted by the other host.
LEMMA ConnectedTypes ==
    ASSUME Types, NEW h \in Hosts, NEW i \in 1 .. Len(list[h]), Connected(h, i)
    PROVE  Types'
<1> DEFINE s == list[h][i]
           g == Peer(h)
           e == NewSession("in", s.c, "opening", 0, <<>>)
           up == [list EXCEPT ![h][i].st = "opening"]
<1>1. g \in Hosts /\ g # h /\ s \in Session /\ s.c \in Conns
  BY PeerType, OneSession
<1>2. /\ list' = [up EXCEPT ![g] = Append(list[g], e)]
      /\ wire' = [wire EXCEPT ![s.c].toIn = <<M("open", 0)>>]
      /\ UNCHANGED <<shut, conns, breaks, sent, got>>
  <2>1. list' = [up EXCEPT ![g] = Append(list[g], e)]
    BY DEF Connected
  <2>2. wire' = [wire EXCEPT ![s.c].toIn = <<M("open", 0)>>]
        /\ UNCHANGED <<shut, conns, breaks, sent, got>>
    BY DEF Connected
  <2> QED BY <2>1, <2>2
<1>3. up \in [Hosts -> Seq(Session)] /\ \A k \in Hosts : Good(up[k])
  <2> DEFINE f == [s EXCEPT !.st = "opening"]
  <2>1. Good(list[h]) /\ (s.active => s.pending = <<>>)
    BY OneSession
  <2>2. f \in Session /\ f.kind = s.kind /\ (f.active => f.pending = <<>>)
    <3> HIDE DEF s
    <3> QED BY <1>1, <2>1 DEF Session
  <2>3. up = [list EXCEPT ![h] = [list[h] EXCEPT ![i] = f]]
    OBVIOUS
  <2>4. Good([list[h] EXCEPT ![i] = f])
    <3> HIDE DEF f
    <3> QED BY <2>1, <2>2, GoodReplaced
  <2>5. \A k \in Hosts : up[k] = IF k = h THEN [list[h] EXCEPT ![i] = f] ELSE list[k]
    BY <2>3 DEF Types
  <2>6. [list[h] EXCEPT ![i] = f] \in Seq(Session)
    BY <2>4 DEF Good
  <2> HIDE DEF up, f
  <2> QED BY <2>3, <2>4, <2>5, <2>6 DEF Types
<1>4. e \in Session /\ e.kind = "in" /\ e.pending = <<>>
  BY <1>1, EmptySeq DEF NewSession, Session
<1>5. Good(Append(list[g], e))
  <2> HIDE DEF e
  <2>1. Good(list[g])
    BY <1>1 DEF Types
  <2> QED BY <1>4, <2>1, GoodAppended
<1>6. wire' \in Wires
  <2>1. <<M("open", 0)>> \in Seq(Message)
    BY DEF M, Message, Msg
  <2>2. wire' = [wire EXCEPT ![s.c]["toIn"] = <<M("open", 0)>>]
    BY <1>2
  <2> QED BY <1>1, <2>1, <2>2, WireType DEF Types
<1>7. list' \in [Hosts -> Seq(Session)] /\ \A k \in Hosts : Good(list'[k])
  <2> HIDE DEF up, e
  <2>1. \A k \in Hosts : list'[k] = IF k = g THEN Append(list[g], e) ELSE up[k]
    BY <1>2, <1>3
  <2>2. Append(list[g], e) \in Seq(Session)
    BY <1>5 DEF Good
  <2> QED BY <2>1, <2>2, <1>2, <1>3, <1>5
<1> QED BY <1>2, <1>6, <1>7 DEF Types

\* A connection fails to open, or breaks.
LEMMA FailureTypes ==
    ASSUME Types, NEW h \in Hosts, NEW i \in 1 .. Len(list[h]), ConnectFailed(h, i) \/ Break(h, i)
    PROVE  Types'
<1>1. breaks' \in 0 .. MaxBreaks
  <2>1. breaks < MaxBreaks /\ breaks' = breaks + 1
    BY DEF ConnectFailed, Break
  <2> QED BY <2>1, S2SAssumption DEF Types, S2SAssumption
<1>2. CASE ConnectFailed(h, i)
  BY <1>1, <1>2, GoneTypes DEF ConnectFailed, Types
<1>3. CASE Break(h, i)
  <2> DEFINE c == list[h][i].c
  <2>1. c \in Conns
    BY OneSession
  <2>2. PICK m1 \in {"close", "reset"}, m2 \in {"close", "reset"}, keep \in BOOLEAN :
          wire' = [wire EXCEPT
              ![c].toIn = IF <<c, "toIn">> \in shut THEN <<>>
                          ELSE (IF keep THEN @ ELSE <<>>) \o <<M(m1, 0)>>,
              ![c].toOut = (IF keep THEN @ ELSE <<>>) \o <<M(m2, 0)>>]
    BY <1>3 DEF Break
  <2> DEFINE in == IF <<c, "toIn">> \in shut THEN <<>>
                   ELSE (IF keep THEN wire[c].toIn ELSE <<>>) \o <<M(m1, 0)>>
             out == (IF keep THEN wire[c].toOut ELSE <<>>) \o <<M(m2, 0)>>
  <2>3. wire[c].toIn \in Seq(Message) /\ wire[c].toOut \in Seq(Message)
        /\ <<M(m1, 0)>> \in Seq(Message) /\ <<M(m2, 0)>> \in Seq(Message)
    BY <2>1 DEF Types, Wires, M, Message, Msg
  <2>4. in \in Seq(Message) /\ out \in Seq(Message)
    BY <2>3, EmptySeq, ConcatProperties
  <2>5. wire' = [wire EXCEPT ![c] = [wire[c] EXCEPT !.toIn = in, !.toOut = out]]
    BY <2>1, <2>2 DEF Types, Wires
  <2> HIDE DEF in, out, c
  <2>6. wire' \in Wires
    BY <2>1, <2>4, <2>5 DEF Types, Wires
  <2>7. UNCHANGED <<list, shut, conns, sent, got>>
    BY <1>3 DEF Break
  <2> QED BY <1>1, <2>6, <2>7 DEF Types
<1> QED BY <1>2, <1>3

\* A session takes a message off its wire.
LEMMA TakenType ==
    ASSUME Types, NEW h \in Hosts, NEW i \in 1 .. Len(list[h]),
           wire[list[h][i].c][Incoming(list[h][i])] # <<>>
    PROVE  /\ Taken(list[h][i]) \in Wires
           /\ Head(wire[list[h][i].c][Incoming(list[h][i])]) \in Message
BY OneSession, WireType DEF Types, Taken

\* A message is answered on the other direction of the wire.
LEMMA AnsweredType ==
    ASSUME Types, NEW h \in Hosts, NEW i \in 1 .. Len(list[h]), NEW w \in Wires,
           NEW dir \in {"toIn", "toOut"}, NEW m \in Message
    PROVE  Put(w, list[h][i].c, dir, <<m>>) \in Wires
<1>1. <<m>> \in Seq(Message)
  OBVIOUS
<1> QED BY <1>1, OneSession, WireType

\* The accepting side.
LEMMA InTypes ==
    ASSUME Types, NEW h \in Hosts, NEW i \in 1 .. Len(list[h]), NEW m \in Message,
           Taken(list[h][i]) \in Wires, UNCHANGED <<breaks, sent>>,
           \/ InOpen(h, i, m) \/ dialbackRequest(h, i, m) \/ dialbackVerifyRequest(h, i, m)
           \/ StanzaReceived(h, i, m) \/ InGone(h, i, m)
    PROVE  Types'
<1> DEFINE s == list[h][i]
<1>1. s.c \in Conns /\ s.c \in Nat
  BY OneSession DEF Conns
<1>2. CASE InOpen(h, i, m)
  <2>1. M("open", s.c) \in Message
    BY <1>1 DEF M, Message, Msg
  <2>2. wire' = Put(Taken(s), s.c, "toOut", <<M("open", s.c)>>)
        /\ list' = [list EXCEPT ![h][i].st = "ready"] /\ UNCHANGED <<shut, conns, got>>
    BY <1>2 DEF InOpen
  <2>3. wire' \in Wires
    BY <2>1, <2>2, AnsweredType
  <2>4. list' \in [Hosts -> Seq(Session)] /\ \A g \in Hosts : Good(list'[g])
    BY <2>2, StateChanged
  <2> QED BY <2>2, <2>3, <2>4 DEF Types
<1>3. CASE dialbackRequest(h, i, m)
  <2> DEFINE e == NewSession("verify", conns + 1, "connecting", s.c, <<>>)
  <2>1. /\ conns < MaxConns /\ conns' = conns + 1 /\ wire' = Taken(s) /\ UNCHANGED <<shut, got>>
        /\ list' = [list EXCEPT ![h] = Append(list[h], e)]
    BY <1>3 DEF dialbackRequest
  <2>2. conns' \in 0 .. MaxConns /\ conns + 1 \in Conns
    BY <2>1, S2SAssumption DEF Types, Conns, S2SAssumption
  <2>3. e \in Session /\ e.kind = "verify" /\ e.pending = <<>>
    BY <1>1, <2>2, EmptySeq DEF NewSession, Session
  <2> HIDE DEF e
  <2>4. Good(Append(list[h], e))
    BY <2>3, SessionJoins
  <2>5. list' \in [Hosts -> Seq(Session)] /\ \A g \in Hosts : Good(list'[g])
    BY <2>1, <2>4, ListChanged
  <2> QED BY <2>1, <2>2, <2>5 DEF Types
<1>4. CASE dialbackVerifyRequest(h, i, m)
  <2> DEFINE ok == IF pendingOutboundSession(h, m.n) THEN 1 ELSE 0
  <2>1. wire' = Put(Taken(s), s.c, "toOut", <<M("vgrant", ok)>>) /\ UNCHANGED <<list, shut, conns, got>>
    BY <1>4 DEF dialbackVerifyRequest
  <2>2. M("vgrant", ok) \in Message
    BY DEF M, Message, Msg
  <2>3. wire' \in Wires
    <3> HIDE DEF ok
    <3> QED BY <2>1, <2>2, AnsweredType
  <2> QED BY <2>1, <2>3 DEF Types
<1>5. CASE StanzaReceived(h, i, m)
  <2>1. CASE s.validated
    <3>1. /\ got' = [got EXCEPT ![Peer(h)] = Append(got[Peer(h)], m.n)] /\ m.t = "stanza"
          /\ wire' = Taken(s) /\ UNCHANGED <<list, shut, conns>>
      BY <1>5, <2>1 DEF StanzaReceived
    <3>2. m.n \in Stanzas /\ Peer(h) \in Hosts /\ got[Peer(h)] \in Seq(Stanzas)
      BY <3>1, PeerType DEF Message, Types
    <3>3. Append(got[Peer(h)], m.n) \in Seq(Stanzas)
      BY <3>2
    <3>4. got' \in [Hosts -> Seq(Stanzas)]
      BY <3>1, <3>3 DEF Types
    <3> QED BY <3>1, <3>4 DEF Types
  <2>2. CASE ~s.validated
    <3>1. Done(h, i, Taken(s)) /\ UNCHANGED <<got, conns>>
      BY <1>5, <2>2 DEF StanzaReceived
    <3>2. /\ conns' \in 0 .. MaxConns /\ breaks' \in 0 .. MaxBreaks
          /\ sent' \in [Hosts -> 0 .. MaxStanzas] /\ got' \in [Hosts -> Seq(Stanzas)]
      BY <3>1 DEF Types
    <3> QED BY <3>1, <3>2, DoneTypes
  <2> QED BY <2>1, <2>2
<1>6. CASE InGone(h, i, m)
  <2>1. /\ conns' \in 0 .. MaxConns /\ breaks' \in 0 .. MaxBreaks
        /\ sent' \in [Hosts -> 0 .. MaxStanzas] /\ got' \in [Hosts -> Seq(Stanzas)]
    BY <1>6 DEF Types, InGone
  <2>2. CASE Done(h, i, Taken(s))
    BY <2>1, <2>2, DoneTypes
  <2>3. CASE list' = [list EXCEPT ![h][i].st = "dead"] /\ CloseEnd(Taken(s), s)
    <3>1. list' \in [Hosts -> Seq(Session)] /\ \A g \in Hosts : Good(list'[g])
      BY <2>3, StateChanged
    <3>2. wire' \in Wires /\ shut' \subseteq Conns \X {"toIn", "toOut"}
      BY <2>3, OneSession, ClosedType
    <3> QED BY <2>1, <3>1, <3>2 DEF Types
  <2> QED BY <1>6, <2>2, <2>3 DEF InGone
<1> QED BY <1>2, <1>3, <1>4, <1>5, <1>6

\* The connecting side.
LEMMA OutTypes ==
    ASSUME Types, NEW h \in Hosts, NEW i \in 1 .. Len(list[h]), NEW m \in Message,
           Taken(list[h][i]) \in Wires, UNCHANGED <<breaks, sent>>,
           \/ OutOpen(h, i, m) \/ dialbackResult(h, i, m)
           \/ dialbackVerifyResult(h, i, m) \/ OutGone(h, i, m)
    PROVE  Types'
<1> DEFINE s == list[h][i]
<1>1. s \in Session /\ s.c \in Conns /\ s.ver \in Nat /\ Good(list[h])
  BY OneSession DEF Session, Conns
<1>2. CASE OutOpen(h, i, m)
  <2> DEFINE r == IF s.kind = "verify" THEN M("verify", s.ver) ELSE M("result", 0)
  <2>1. r \in Message
    BY <1>1 DEF M, Message, Msg
  <2>2. wire' = Put(Taken(s), s.c, "toIn", <<r>>)
        /\ list' = [list EXCEPT ![h][i].st = "ready"] /\ UNCHANGED <<shut, conns, got>>
    BY <1>2 DEF OutOpen
  <2>3. wire' \in Wires
    <3> HIDE DEF r
    <3> QED BY <2>1, <2>2, AnsweredType
  <2>4. list' \in [Hosts -> Seq(Session)] /\ \A g \in Hosts : Good(list'[g])
    BY <2>2, StateChanged
  <2> QED BY <2>2, <2>3, <2>4 DEF Types
<1>3. CASE dialbackResult(h, i, m)
  <2> DEFINE flushed == [k \in 1 .. Len(s.pending) |-> M("stanza", s.pending[k])]
  <2>1. UNCHANGED <<shut, conns, got>>
    BY <1>3 DEF dialbackResult
  <2>2. CASE m.n = 1
    <3>1. /\ list' = [list EXCEPT ![h] = [list[h] EXCEPT ![i] = Activated(s)]]
          /\ wire' = Put(Taken(s), s.c, "toIn", flushed)
      BY <1>3, <2>2 DEF dialbackResult
    <3>2. flushed \in Seq(Message)
      <4>1. s.pending \in Seq(Stanzas)
        BY <1>1 DEF Session
      <4>2. \A k \in 1 .. Len(s.pending) : s.pending[k] \in Stanzas
        <5> HIDE DEF s
        <5> QED BY <4>1, ElementOfSeq
      <4>3. \A k \in 1 .. Len(s.pending) : M("stanza", s.pending[k]) \in Message
        BY <4>2 DEF M, Message, Msg, Stanzas
      <4>4. Len(s.pending) \in Nat
        BY <4>1, LenProperties
      <4>5. flushed \in [1 .. Len(s.pending) -> Message]
        BY <4>3
      <4> HIDE DEF flushed
      <4> QED BY <4>4, <4>5, SeqDef
    <3>3. wire' \in Wires
      <4> HIDE DEF flushed
      <4> QED BY <1>1, <3>1, <3>2, WireType
    <3>4. Activated(s) \in Session /\ Activated(s).kind = s.kind /\ Activated(s).pending = <<>>
      <4> HIDE DEF s
      <4> QED BY <1>1, EmptySeq DEF Activated, Session
    <3>5. Good([list[h] EXCEPT ![i] = Activated(s)])
      BY <1>1, <3>4, GoodReplaced
    <3>6. list' \in [Hosts -> Seq(Session)] /\ \A g \in Hosts : Good(list'[g])
      BY <3>1, <3>5, ListChanged
    <3> QED BY <2>1, <3>3, <3>6 DEF Types
  <2>3. CASE m.n # 1
    BY <1>3, <2>1, <2>3 DEF dialbackResult, Types
  <2> QED BY <2>2, <2>3
<1>4. CASE dialbackVerifyResult(h, i, m)
  <2> DEFINE in == pendingInbound(h, s.ver)
             v == Validated(h, in, m.n)
             w == IF in = {} THEN Taken(s) ELSE Put(Taken(s), s.ver, "toOut", <<M("grant", m.n)>>)
  <2>1. list' = [list EXCEPT ![h] = RemoveAt(v, i)] /\ CloseEnd(w, s) /\ UNCHANGED <<conns, got>>
    BY <1>4 DEF dialbackVerifyResult
  <2>2. Good(v) /\ Len(v) = Len(list[h])
    BY <1>1, GoodValidated
  <2>3. Good(RemoveAt(v, i))
    <3> HIDE DEF v
    <3> QED BY <2>2, GoodRemoved
  <2>4. w \in Wires
    <3>1. CASE in = {}
      BY <3>1
    <3>2. CASE in # {}
      <4>1. PICK k \in 1 .. Len(list[h]) : list[h][k].c = s.ver
        BY <3>2 DEF pendingInbound
      <4>2. s.ver \in Conns
        BY <4>1, OneSession
      <4>3. <<M("grant", m.n)>> \in Seq(Message)
        BY DEF M, Message, Msg
      <4> QED BY <3>2, <4>2, <4>3, WireType
    <3> QED BY <3>1, <3>2
  <2> HIDE DEF w, v
  <2>5. wire' \in Wires /\ shut' \subseteq Conns \X {"toIn", "toOut"}
    BY <1>1, <2>1, <2>4, ClosedType
  <2>6. list' \in [Hosts -> Seq(Session)] /\ \A g \in Hosts : Good(list'[g])
    BY <2>1, <2>3, ListChanged
  <2> QED BY <2>1, <2>5, <2>6 DEF Types
<1>5. CASE OutGone(h, i, m)
  <2>1. /\ conns' \in 0 .. MaxConns /\ breaks' \in 0 .. MaxBreaks
        /\ sent' \in [Hosts -> 0 .. MaxStanzas] /\ got' \in [Hosts -> Seq(Stanzas)]
    BY <1>5 DEF Types, OutGone
  <2> QED BY <1>5, <2>1, GoneTypes DEF OutGone
<1> QED BY <1>2, <1>3, <1>4, <1>5

-----------------------------------------------------------------------------
\* The types are kept by every step.
LEMMA StepTypes == Types /\ [Next]_vars => Types'
<1> SUFFICES ASSUME Types, [Next]_vars PROVE Types'
  OBVIOUS
<1>1. ASSUME NEW h \in Hosts, Write(h) PROVE Types'
  BY <1>1, WriteTypes
<1>2. ASSUME NEW h \in Hosts, NEW i \in 1 .. Len(list[h]),
             Connected(h, i) \/ ConnectFailed(h, i) \/ Break(h, i)
      PROVE  Types'
  BY <1>2, ConnectedTypes, FailureTypes
<1>3. ASSUME NEW h \in Hosts, NEW i \in 1 .. Len(list[h]), Receive(h, i) PROVE Types'
  <2> DEFINE m == Head(wire[list[h][i].c][Incoming(list[h][i])])
  <2>1. /\ Taken(list[h][i]) \in Wires /\ m \in Message
    BY <1>3, TakenType DEF Receive
  <2>2. /\ UNCHANGED <<breaks, sent>>
        /\ \/ InOpen(h, i, m) \/ dialbackRequest(h, i, m) \/ dialbackVerifyRequest(h, i, m)
              \/ StanzaReceived(h, i, m) \/ InGone(h, i, m)
           \/ OutOpen(h, i, m) \/ dialbackResult(h, i, m)
              \/ dialbackVerifyResult(h, i, m) \/ OutGone(h, i, m)
    BY <1>3 DEF Receive
  <2> HIDE DEF m
  <2> QED BY <2>1, <2>2, InTypes, OutTypes
<1>4. CASE UNCHANGED vars
  BY <1>4 DEF vars, Types
<1> QED BY <1>1, <1>2, <1>3, <1>4 DEF Next

\* Every reachable state satisfies them.
LEMMA Reachable == Spec => []Types
  BY InitTypes, StepTypes, PTL DEF Spec

\* Every variable has its type, for any number of stanzas and connections.
THEOREM TypeCorrect == Spec => []TypeOK
<1>1. ASSUME Types PROVE TypeOK
  <2>1. Message \subseteq Msg
    BY DEF Message
  <2>2. \A c \in Conns : wire[c].toIn \in Seq(Msg) /\ wire[c].toOut \in Seq(Msg)
    BY <1>1, <2>1, SeqMonotonic DEF Types, Wires
  <2>3. wire \in [Conns -> [toIn : Seq(Msg), toOut : Seq(Msg)]]
    BY <1>1, <2>2 DEF Types, Wires
  <2> QED BY <1>1, <2>3 DEF Types, TypeOK
<1> QED BY <1>1, Reachable, PTL

\* A host never has two outbound sessions, whatever fails and in which order.
THEOREM OutboundIsOne == Spec => []OneOutbound
<1>1. ASSUME Types PROVE OneOutbound
  <2> SUFFICES ASSUME NEW h \in Hosts PROVE Cardinality(SessionsOf(h, "out")) <= 1
    BY DEF OneOutbound
  <2> DEFINE O == SessionsOf(h, "out")
  <2>1. \A i, j \in O : i = j
    BY <1>1 DEF Types, Good, OneOut, SessionsOf
  <2>2. CASE O = {}
    BY <2>2, FS_EmptySet
  <2>3. CASE O # {}
    <3>1. PICK i \in O : O = {i}
      BY <2>1, <2>3
    <3>2. Cardinality(O) = 1
      BY <3>1, FS_Singleton
    <3> QED BY <3>2
  <2> QED BY <2>2, <2>3
<1> QED BY <1>1, Reachable, PTL

\* Nothing is left in the queue of a session that writes through.
THEOREM ActiveIsFlushed == Spec => []ActiveHasNoPending
<1>1. ASSUME Types PROVE ActiveHasNoPending
  BY <1>1 DEF Types, Good, Flushed, ActiveHasNoPending, SessionsOf
<1> QED BY <1>1, Reachable, PTL

-----------------------------------------------------------------------------
(* At most once.                                                           *)

\* A stanza that was sent is in one place at most: in the queue of a session,
\* on a wire that a session of the other host reads, or with the other host;
\* each step keeps it where it is, loses it, or moves it forward.

\* Where stanza n of host h is; c is the connection it is to take.
Queued(h, c, n) ==
    \E i \in 1 .. Len(list[h]) :
        /\ list[h][i].kind # "in" /\ list[h][i].c = c
        /\ \E k \in 1 .. Len(list[h][i].pending) : list[h][i].pending[k] = n

Fed(h, c) ==
    \E j \in 1 .. Len(list[Peer(h)]) : list[Peer(h)][j].kind = "in" /\ list[Peer(h)][j].c = c

OnWire(h, c, n) == Fed(h, c) /\ \E k \in 1 .. Len(wire[c].toIn) : wire[c].toIn[k] = M("stanza", n)

Took(h, n) == \E k \in 1 .. Len(got[h]) : got[h][k] = n

NoRepeat(q) == \A j, k \in 1 .. Len(q) : q[j] = q[k] => j = k
OnceOnWire(q) == \A j, k \in 1 .. Len(q) : q[j].t = "stanza" /\ q[j] = q[k] => j = k

\* A connection has one session of the host that made it, and none there that
\* accepted it; the other host only accepts it, once it is open.
OwnConn(l) ==
    \A i, j \in 1 .. Len(l) : l[i].kind # "in" /\ l[i].c = l[j].c => i = j
Numbered ==
    /\ \A h \in Hosts : OwnConn(list[h])
    /\ \A h \in Hosts : \A i \in 1 .. Len(list[h]) :
          list[h][i].c <= conns /\ (list[h][i].st = "connecting" => list[h][i].kind # "in")
    /\ \A g, h \in Hosts : \A i \in 1 .. Len(list[g]), j \in 1 .. Len(list[h]) :
          g # h /\ list[g][i].kind # "in" /\ list[g][i].c = list[h][j].c => list[h][j].kind = "in"

\* No stanza is in two places, and none that was not sent is in any.
Apart ==
    \A h \in Hosts, c, d \in Conns, n \in Stanzas :
        /\ Queued(h, c, n) => (Queued(h, d, n) => c = d) /\ ~OnWire(h, d, n) /\ ~Took(h, n)
        /\ OnWire(h, c, n) => (OnWire(h, d, n) => c = d) /\ ~Took(h, n)
        /\ Queued(h, c, n) \/ OnWire(h, c, n) \/ Took(h, n) => n <= sent[h]

\* None is twice in one place.
SingleQueue ==
    \A h \in Hosts : \A i \in 1 .. Len(list[h]) : list[h][i].kind # "in" => NoRepeat(list[h][i].pending)
SingleWire == \A h \in Hosts, c \in Conns : Fed(h, c) => OnceOnWire(wire[c].toIn)
SingleGot == \A h \in Hosts : NoRepeat(got[h])

DInv == Numbered /\ Apart /\ SingleQueue /\ SingleWire /\ SingleGot

-----------------------------------------------------------------------------
(* The two hosts.                                                          *)

\* There are two hosts.
LEMMA PeerOnly == \A g, h \in Hosts : g # h => Peer(g) = h
<1> SUFFICES ASSUME NEW g \in Hosts, NEW h \in Hosts, g # h, Peer(g) # h PROVE FALSE
  OBVIOUS
<1> DEFINE p == Peer(g)
           T == {g} \cup {p}
<1>1. p \in Hosts /\ p # g /\ p # h
  BY PeerType
<1> HIDE DEF p
<1>2. IsFiniteSet(T) /\ Cardinality(T) = 2
  <2>1. IsFiniteSet({g}) /\ Cardinality({g}) = 1
    BY FS_Singleton
  <2> QED BY <1>1, <2>1, FS_AddElement
<1>3. h \notin T
  BY <1>1
<1> HIDE DEF T
<1>4. IsFiniteSet(T \cup {h}) /\ Cardinality(T \cup {h}) = 3
  BY <1>2, <1>3, FS_AddElement
<1>5. T \cup {h} \subseteq Hosts
  BY <1>1 DEF T
<1>6. Cardinality(T \cup {h}) <= Cardinality(Hosts)
  BY <1>5, FS_Subset, S2SAssumption DEF S2SAssumption
<1> QED BY <1>4, <1>6, S2SAssumption DEF S2SAssumption

\* The other host's other host.
LEMMA PeerPeer == \A h \in Hosts : Peer(Peer(h)) = h
BY PeerType, PeerOnly

-----------------------------------------------------------------------------
(* How a step moves stanzas.                                               *)

\* Stanzas stay where they are, or are lost.
LEMMA NothingNew ==
    ASSUME Apart, UNCHANGED got, \A h \in Hosts : sent'[h] = sent[h],
           \A h \in Hosts, c \in Conns, n \in Stanzas :
              (Queued(h, c, n)' => Queued(h, c, n)) /\ (OnWire(h, c, n)' => OnWire(h, c, n))
    PROVE  Apart'
<1>1. \A h \in Hosts, n \in Stanzas : Took(h, n)' <=> Took(h, n)
  BY DEF Took
<1> QED BY <1>1 DEF Apart

\* A host sends its next stanza, to a queue or to a wire.
LEMMA OneNew ==
    ASSUME Types, Apart, NEW g \in Hosts, NEW b \in Conns, NEW m \in Stanzas, m = sent[g] + 1,
           UNCHANGED got, \A h \in Hosts : sent'[h] = IF h = g THEN m ELSE sent[h],
           ~(Queued(g, b, m)' /\ OnWire(g, b, m)'),
           \A h \in Hosts, c \in Conns, n \in Stanzas :
              Queued(h, c, n)' => Queued(h, c, n) \/ (h = g /\ c = b /\ n = m),
           \A h \in Hosts, c \in Conns, n \in Stanzas :
              OnWire(h, c, n)' => OnWire(h, c, n) \/ (h = g /\ c = b /\ n = m)
    PROVE  Apart'
<1>1. \A h \in Hosts, n \in Stanzas : Took(h, n)' <=> Took(h, n)
  BY DEF Took
<1>2. \A h \in Hosts : sent[h] \in Nat
  BY DEF Types
<1>3. \A n \in Stanzas : n \in Nat
  BY DEF Stanzas
<1> QED BY <1>1, <1>2, <1>3 DEF Apart

\* A queue is written to its wire.
LEMMA Flush ==
    ASSUME Apart, NEW g \in Hosts, NEW b \in Conns, UNCHANGED <<got, sent>>,
           \A h \in Hosts, c \in Conns, n \in Stanzas :
              /\ Queued(h, c, n)' => Queued(h, c, n) /\ ~(h = g /\ c = b)
              /\ OnWire(h, c, n)' => OnWire(h, c, n) \/ (h = g /\ c = b /\ Queued(h, c, n))
    PROVE  Apart'
<1>1. \A h \in Hosts, n \in Stanzas : Took(h, n)' <=> Took(h, n)
  BY DEF Took
<1> QED BY <1>1 DEF Apart

\* The other host takes a stanza off a wire.
LEMMA Take ==
    ASSUME Types, Apart, NEW g \in Hosts, NEW b \in Conns, NEW m \in Stanzas, UNCHANGED sent,
           OnWire(g, b, m), \A h \in Hosts : got'[h] = IF h = g THEN Append(got[g], m) ELSE got[h],
           \A h \in Hosts, c \in Conns, n \in Stanzas : Queued(h, c, n)' => Queued(h, c, n),
           \A h \in Hosts, c \in Conns, n \in Stanzas :
              OnWire(h, c, n)' => OnWire(h, c, n) /\ ~(h = g /\ c = b /\ n = m)
    PROVE  Apart'
<1>1. \A h \in Hosts, n \in Stanzas : Took(h, n)' <=> Took(h, n) \/ (h = g /\ n = m)
  <2> TAKE h \in Hosts, n \in Stanzas
  <2>1. got[h] \in Seq(Stanzas) /\ Len(got[h]) \in Nat
    BY LenProperties DEF Types
  <2>2. got'[h] = IF h = g THEN Append(got[h], m) ELSE got[h]
    OBVIOUS
  <2>3. CASE h = g
    <3>1. Len(got'[h]) = Len(got[h]) + 1 /\ got'[h][Len(got[h]) + 1] = m
          /\ \A k \in 1 .. Len(got[h]) : got'[h][k] = got[h][k]
      BY <2>1, <2>2, <2>3
    <3>2. \A k \in 1 .. Len(got[h]) + 1 : k \in 1 .. Len(got[h]) \/ k = Len(got[h]) + 1
      BY <2>1
    <3>3. 1 .. Len(got[h]) \subseteq 1 .. Len(got[h]) + 1
          /\ Len(got[h]) + 1 \in 1 .. Len(got[h]) + 1
      BY <2>1
    <3>4. Took(h, n)' <=> \E k \in 1 .. Len(got[h]) + 1 : got'[h][k] = n
      BY <3>1 DEF Took
    <3>5. Took(h, n)' <=> (\E k \in 1 .. Len(got[h]) : got[h][k] = n) \/ m = n
      BY <3>1, <3>2, <3>3, <3>4
    <3> QED BY <2>3, <3>5 DEF Took
  <2>4. CASE h # g
    BY <2>2, <2>4 DEF Took
  <2> QED BY <2>3, <2>4
<1> QED BY <1>1 DEF Apart

-----------------------------------------------------------------------------
(* How a step changes a list of sessions.                                  *)

\* m holds sessions of l and no others; a queue is as it was or empty.
Inherits(l, m) ==
    /\ \A j \in 1 .. Len(m) : \E i \in 1 .. Len(l) :
          m[j].kind = l[i].kind /\ m[j].c = l[i].c /\ m[j].st \in {l[i].st, "opening", "ready", "dead"}
    /\ OwnConn(l) => OwnConn(m)
Drains(l, m) ==
    \A j \in 1 .. Len(m) : \E i \in 1 .. Len(l) :
        m[j].kind = l[i].kind /\ m[j].c = l[i].c /\ m[j].pending \in {l[i].pending, <<>>}

\* A list that did not change.
LEMMA SameList == \A l : Inherits(l, l) /\ Drains(l, l)
BY DEF Inherits, Drains

\* A session is replaced by one of the same connection.
LEMMA ReplacedInherits ==
    ASSUME NEW l \in Seq(Session), NEW i \in 1 .. Len(l), NEW e \in Session,
           e.kind = l[i].kind, e.c = l[i].c, e.st \in {l[i].st, "opening", "ready", "dead"}
    PROVE  /\ Inherits(l, [l EXCEPT ![i] = e])
           /\ e.pending \in {l[i].pending, <<>>} => Drains(l, [l EXCEPT ![i] = e])
<1> DEFINE m == [l EXCEPT ![i] = e]
<1>1. Len(m) = Len(l) /\ \A j \in 1 .. Len(l) : m[j] = IF j = i THEN e ELSE l[j]
  BY ExceptSeq
<1> HIDE DEF m
<1>2. \A j \in 1 .. Len(m) : m[j].kind = l[j].kind /\ m[j].c = l[j].c
                             /\ m[j].st \in {l[j].st, "opening", "ready", "dead"}
  BY <1>1
<1>3. Inherits(l, m)
  BY <1>1, <1>2 DEF Inherits, OwnConn
<1>4. e.pending \in {l[i].pending, <<>>} => Drains(l, m)
  BY <1>1, <1>2 DEF Drains
<1> QED BY <1>3, <1>4 DEF m

\* A session leaves the list.
LEMMA RemovedInherits ==
    ASSUME NEW l \in Seq(Session), NEW i \in 1 .. Len(l)
    PROVE  Inherits(l, RemoveAt(l, i)) /\ Drains(l, RemoveAt(l, i))
<1> DEFINE m == RemoveAt(l, i)
           at(n) == IF n < i THEN n ELSE n + 1
<1>1. Len(m) = Len(l) - 1 /\ Len(l) \in Nat /\ \A k \in 1 .. Len(l) - 1 : m[k] = l[at(k)]
  BY RemoveAtType, LenProperties
<1>2. \A k \in 1 .. Len(m) : at(k) \in 1 .. Len(l) /\ m[k] = l[at(k)]
  <2> HIDE DEF m
  <2> QED BY <1>1
<1>3. \A j, k \in 1 .. Len(m) : at(j) = at(k) => j = k
  <2> HIDE DEF m
  <2> QED BY <1>1
<1> HIDE DEF m, at
<1>4. Drains(l, m)
  BY <1>2 DEF Drains
<1>5. OwnConn(l) => OwnConn(m)
  <2> SUFFICES ASSUME OwnConn(l), NEW j \in 1 .. Len(m), NEW k \in 1 .. Len(m),
                      m[j].kind # "in", m[j].c = m[k].c
               PROVE  j = k
    BY DEF OwnConn
  <2>1. at(j) = at(k)
    BY <1>2 DEF OwnConn
  <2> QED BY <2>1, <1>3
<1>6. Inherits(l, m)
  BY <1>2, <1>5 DEF Inherits
<1> QED BY <1>4, <1>6 DEF m

\* Sessions of the list are validated.
LEMMA ValidatedInherits ==
    ASSUME NEW h \in Hosts, list[h] \in Seq(Session), NEW in, NEW ok
    PROVE  Inherits(list[h], Validated(h, in, ok)) /\ Drains(list[h], Validated(h, in, ok))
<1> DEFINE l == list[h]
           m == Validated(h, in, ok)
<1>1. Len(l) \in Nat /\ \A k \in 1 .. Len(l) : l[k] \in Session
  BY LenProperties, ElementOfSeq
<1>2. m = [k \in 1 .. Len(l) |->
              IF k \in in /\ ok = 1 THEN [l[k] EXCEPT !.validated = TRUE] ELSE l[k]]
  BY DEF Validated
<1> HIDE DEF l, m
<1>3. \A k \in 1 .. Len(l) :
         m[k] \in Session /\ m[k].kind = l[k].kind /\ m[k].c = l[k].c /\ m[k].pending = l[k].pending
         /\ m[k].st = l[k].st
  <2> TAKE k \in 1 .. Len(l)
  <2> DEFINE e == [l[k] EXCEPT !.validated = TRUE]
  <2>1. l[k] \in Session /\ (m[k] = e \/ m[k] = l[k])
    BY <1>1, <1>2
  <2>2. e \in Session /\ e.kind = l[k].kind /\ e.c = l[k].c /\ e.pending = l[k].pending
        /\ e.st = l[k].st
    BY <2>1 DEF Session
  <2> QED BY <2>1, <2>2
<1>4. m \in [1 .. Len(l) -> Session]
  BY <1>2, <1>3
<1>5. Len(m) = Len(l)
  BY <1>1, <1>4, SeqDef, LenProperties
<1>6. Inherits(l, m) /\ Drains(l, m)
  BY <1>3, <1>5 DEF Inherits, Drains, OwnConn
<1> QED BY <1>6 DEF l, m

\* Both orders relate three lists.
LEMMA InheritsTransitive ==
    ASSUME NEW k, NEW l, NEW m, Inherits(k, l), Drains(k, l), Inherits(l, m), Drains(l, m)
    PROVE  Inherits(k, m) /\ Drains(k, m)
<1>1. Inherits(k, m)
  <2>1. ASSUME NEW j \in 1 .. Len(m)
        PROVE  \E i \in 1 .. Len(k) :
                  m[j].kind = k[i].kind /\ m[j].c = k[i].c
                  /\ m[j].st \in {k[i].st, "opening", "ready", "dead"}
    <3>1. PICK n \in 1 .. Len(l) :
              m[j].kind = l[n].kind /\ m[j].c = l[n].c
              /\ m[j].st \in {l[n].st, "opening", "ready", "dead"}
      BY DEF Inherits
    <3>2. PICK i \in 1 .. Len(k) :
              l[n].kind = k[i].kind /\ l[n].c = k[i].c
              /\ l[n].st \in {k[i].st, "opening", "ready", "dead"}
      BY DEF Inherits
    <3> QED BY <3>1, <3>2
  <2> QED BY <2>1 DEF Inherits
<1>2. ASSUME NEW j \in 1 .. Len(m)
      PROVE  \E i \in 1 .. Len(k) :
                m[j].kind = k[i].kind /\ m[j].c = k[i].c /\ m[j].pending \in {k[i].pending, <<>>}
  <2>1. PICK n \in 1 .. Len(l) :
            m[j].kind = l[n].kind /\ m[j].c = l[n].c /\ m[j].pending \in {l[n].pending, <<>>}
    BY DEF Drains
  <2>2. PICK i \in 1 .. Len(k) :
            l[n].kind = k[i].kind /\ l[n].c = k[i].c /\ l[n].pending \in {k[i].pending, <<>>}
    BY DEF Drains
  <2> QED BY <2>1, <2>2
<1>3. Drains(k, m)
  BY <1>2 DEF Drains
<1> QED BY <1>1, <1>3

\* The numbers stay right when no host gains a session.
LEMMA NumberedKept ==
    ASSUME Numbered, UNCHANGED conns, \A g \in Hosts : Inherits(list[g], list'[g])
    PROVE  Numbered' /\ \A g \in Hosts, c \in Conns : Fed(g, c)' => Fed(g, c)
<1>1. \A g \in Hosts : \A j \in 1 .. Len(list'[g]) : \E i \in 1 .. Len(list[g]) :
         list'[g][j].kind = list[g][i].kind /\ list'[g][j].c = list[g][i].c
         /\ list'[g][j].st \in {list[g][i].st, "opening", "ready", "dead"}
  BY DEF Inherits
<1>2. \A g \in Hosts : OwnConn(list'[g])
  BY DEF Numbered, Inherits
<1>3. \A g \in Hosts, c \in Conns : Fed(g, c)' => Fed(g, c)
  <2> SUFFICES ASSUME NEW g \in Hosts, NEW c \in Conns, Fed(g, c)' PROVE Fed(g, c)
    OBVIOUS
  <2> DEFINE p == Peer(g)
  <2>1. PICK j \in 1 .. Len(list'[p]) : list'[p][j].kind = "in" /\ list'[p][j].c = c
    BY DEF Fed
  <2>2. p \in Hosts
    BY PeerType
  <2> HIDE DEF p
  <2>3. \E i \in 1 .. Len(list[p]) : list[p][i].kind = "in" /\ list[p][i].c = c
    BY <1>1, <2>1, <2>2
  <2> QED BY <2>3 DEF Fed, p
<1>4. \A g \in Hosts : \A j \in 1 .. Len(list'[g]) :
         list'[g][j].c <= conns' /\ (list'[g][j].st = "connecting" => list'[g][j].kind # "in")
  <2> TAKE g \in Hosts
  <2> TAKE j \in 1 .. Len(list'[g])
  <2>1. PICK i \in 1 .. Len(list[g]) :
          list'[g][j].kind = list[g][i].kind /\ list'[g][j].c = list[g][i].c
          /\ list'[g][j].st \in {list[g][i].st, "opening", "ready", "dead"}
    BY <1>1
  <2> QED BY <2>1 DEF Numbered
<1>5. \A g, h \in Hosts : \A i \in 1 .. Len(list'[g]), j \in 1 .. Len(list'[h]) :
          g # h /\ list'[g][i].kind # "in" /\ list'[g][i].c = list'[h][j].c
             => list'[h][j].kind = "in"
  <2> SUFFICES ASSUME NEW g \in Hosts, NEW h \in Hosts,
                      NEW i \in 1 .. Len(list'[g]), NEW j \in 1 .. Len(list'[h]),
                      g # h, list'[g][i].kind # "in", list'[g][i].c = list'[h][j].c
               PROVE  list'[h][j].kind = "in"
    OBVIOUS
  <2>1. PICK k \in 1 .. Len(list[g]) :
          list'[g][i].kind = list[g][k].kind /\ list'[g][i].c = list[g][k].c
    BY <1>1
  <2>2. PICK l \in 1 .. Len(list[h]) :
          list'[h][j].kind = list[h][l].kind /\ list'[h][j].c = list[h][l].c
    BY <1>1
  <2> QED BY <2>1, <2>2 DEF Numbered
<1> QED BY <1>2, <1>3, <1>4, <1>5 DEF Numbered

\* No stanza enters a queue.
LEMMA QueuesKept ==
    ASSUME SingleQueue, \A g \in Hosts : Drains(list[g], list'[g])
    PROVE  /\ SingleQueue'
           /\ \A g \in Hosts, c \in Conns, n \in Stanzas : Queued(g, c, n)' => Queued(g, c, n)
<1>1. \A g \in Hosts : \A j \in 1 .. Len(list'[g]) : \E i \in 1 .. Len(list[g]) :
         list'[g][j].kind = list[g][i].kind /\ list'[g][j].c = list[g][i].c
         /\ list'[g][j].pending \in {list[g][i].pending, <<>>}
  BY DEF Drains
<1>2. NoRepeat(<<>>)
  BY EmptySeq DEF NoRepeat
<1>3. SingleQueue'
  BY <1>1, <1>2 DEF SingleQueue
<1>4. ASSUME NEW g \in Hosts, NEW c \in Conns, NEW n \in Stanzas, Queued(g, c, n)'
      PROVE  Queued(g, c, n)
  <2>1. PICK j \in 1 .. Len(list'[g]) :
            list'[g][j].kind # "in" /\ list'[g][j].c = c
            /\ \E k \in 1 .. Len(list'[g][j].pending) : list'[g][j].pending[k] = n
    BY <1>4 DEF Queued
  <2>2. PICK i \in 1 .. Len(list[g]) :
            list'[g][j].kind = list[g][i].kind /\ list'[g][j].c = list[g][i].c
            /\ list'[g][j].pending \in {list[g][i].pending, <<>>}
    BY <1>1
  <2>3. list'[g][j].pending # <<>>
    BY <2>1, EmptySeq
  <2> QED BY <2>1, <2>2, <2>3 DEF Queued
<1> QED BY <1>3, <1>4

-----------------------------------------------------------------------------
(* How a step changes the wires.                                           *)

\* q has no stanza that p does not have, and has none twice if p has not.
Thin(p, q) ==
    /\ \A k \in 1 .. Len(q) : q[k].t = "stanza" => \E j \in 1 .. Len(p) : p[j] = q[k]
    /\ OnceOnWire(p) => OnceOnWire(q)
Thinner(w, v) == \A c \in Conns : Thin(w[c].toIn, v[c].toIn)

\* Two steps of a change.
LEMMA ThinnerTransitive ==
    ASSUME NEW u, NEW v, NEW w, Thinner(u, v), Thinner(v, w)
    PROVE  Thinner(u, w)
<1> SUFFICES ASSUME NEW c \in Conns PROVE Thin(u[c].toIn, w[c].toIn)
  BY DEF Thinner
<1>1. Thin(u[c].toIn, v[c].toIn) /\ Thin(v[c].toIn, w[c].toIn)
  BY DEF Thinner
<1> QED BY <1>1 DEF Thin

\* One direction of a connection changes.
LEMMA ThinnerOne ==
    ASSUME NEW w \in Wires, NEW c \in Conns, NEW dir \in {"toIn", "toOut"}, NEW x,
           dir = "toIn" => Thin(w[c][dir], x)
    PROVE  Thinner(w, [w EXCEPT ![c][dir] = x])
<1> DEFINE v == [w EXCEPT ![c][dir] = x]
<1>1. w[c] \in [toIn : Seq(Message), toOut : Seq(Message)]
  BY DEF Wires
<1>2. \A d \in Conns : v[d].toIn = IF d = c /\ dir = "toIn" THEN x ELSE w[d].toIn
  <2>1. \A d \in Conns : v[d] = IF d = c THEN [w[c] EXCEPT ![dir] = x] ELSE w[d]
    BY DEF Wires
  <2>2. [w[c] EXCEPT ![dir] = x].toIn = IF dir = "toIn" THEN x ELSE w[c].toIn
    BY <1>1
  <2> QED BY <2>1, <2>2
<1>3. \A q : Thin(q, q)
  BY DEF Thin
<1> HIDE DEF v
<1>4. Thinner(w, v)
  BY <1>2, <1>3 DEF Thinner
<1> QED BY <1>4 DEF v

\* What is not a stanza is appended.
LEMMA ThinAppended ==
    ASSUME NEW q \in Seq(Message), NEW m \in Message, m.t # "stanza"
    PROVE  Thin(q, q \o <<m>>)
<1> DEFINE x == q \o <<m>>
<1>1. Len(q) \in Nat
  BY LenProperties
<1>2. Len(x) = Len(q) + 1 /\ \A k \in 1 .. Len(q) + 1 : x[k] = IF k = Len(q) + 1 THEN m ELSE q[k]
  BY <1>1
<1> HIDE DEF x
<1>3. Thin(q, x)
  BY <1>1, <1>2 DEF Thin, OnceOnWire
<1> QED BY <1>3 DEF x

\* It is written.
LEMMA ThinnerPut ==
    ASSUME NEW w \in Wires, NEW c \in Conns, NEW dir \in {"toIn", "toOut"},
           NEW m \in Message, m.t # "stanza"
    PROVE  Thinner(w, Put(w, c, dir, <<m>>))
<1> DEFINE q == w[c][dir]
           x == q \o <<m>>
<1>1. q \in Seq(Message)
  BY WireType
<1> HIDE DEF q
<1>2. Thin(q, x)
  BY <1>1, ThinAppended
<1> HIDE DEF x
<1>3. Thinner(w, [w EXCEPT ![c][dir] = x])
  BY <1>2, ThinnerOne DEF q
<1>4. \A p : Thin(p, p)
  BY DEF Thin
<1> QED BY <1>3, <1>4 DEF Put, Thinner, x, q

\* A message is read.
LEMMA ThinnerTail ==
    ASSUME NEW w \in Wires, NEW c \in Conns, NEW dir \in {"toIn", "toOut"}, w[c][dir] # <<>>
    PROVE  Thinner(w, [w EXCEPT ![c][dir] = Tail(@)])
<1> DEFINE q == w[c][dir]
           x == Tail(q)
<1>1. q \in Seq(Message) /\ Len(q) \in Nat /\ q # <<>>
  BY WireType, LenProperties
<1> HIDE DEF q
<1>2. Len(x) = Len(q) - 1 /\ \A k \in 1 .. Len(q) - 1 : x[k] = q[k + 1]
  BY <1>1
<1> HIDE DEF x
<1>3. Thin(q, x)
  BY <1>1, <1>2 DEF Thin, OnceOnWire
<1>4. Thinner(w, [w EXCEPT ![c][dir] = x])
  BY <1>3, ThinnerOne DEF q
<1> QED BY <1>4 DEF x, q

\* A direction is emptied.
LEMMA ThinnerEmpty ==
    ASSUME NEW w \in Wires, NEW c \in Conns, NEW dir \in {"toIn", "toOut"}
    PROVE  Thinner(w, [w EXCEPT ![c][dir] = <<>>])
<1>1. \A p : Thin(p, <<>>)
  BY EmptySeq DEF Thin, OnceOnWire
<1> QED BY <1>1, ThinnerOne

\* An end of a connection closes.
LEMMA ThinnerClosed ==
    ASSUME NEW s \in Session, NEW w \in Wires, CloseEnd(w, s)
    PROVE  Thinner(w, wire')
<1> DEFINE m == M("close", 0)
           v == Put(w, s.c, Back(Incoming(s)), <<m>>)
<1>1. s.c \in Conns /\ Incoming(s) \in {"toIn", "toOut"} /\ Back(Incoming(s)) \in {"toIn", "toOut"}
  BY DEF Session, Incoming, Back
<1>2. m \in Message /\ m.t # "stanza" /\ <<m>> \in Seq(Message)
  BY DEF M, Msg, Message
<1>3. wire' = [v EXCEPT ![s.c][Incoming(s)] = <<>>]
  BY DEF CloseEnd
<1> HIDE DEF m
<1>4. v \in Wires /\ Thinner(w, v)
  BY <1>1, <1>2, WireType, ThinnerPut
<1> HIDE DEF v
<1>5. Thinner(v, wire')
  BY <1>1, <1>3, <1>4, ThinnerEmpty
<1> QED BY <1>4, <1>5, ThinnerTransitive

\* No stanza enters a wire.
LEMMA WiresKept ==
    ASSUME SingleWire, Thinner(wire, wire'), \A g \in Hosts, c \in Conns : Fed(g, c)' => Fed(g, c)
    PROVE  /\ SingleWire'
           /\ \A g \in Hosts, c \in Conns, n \in Stanzas : OnWire(g, c, n)' => OnWire(g, c, n)
<1>1. SingleWire'
  BY DEF SingleWire, Thinner, Thin
<1>2. \A n \in Stanzas : M("stanza", n).t = "stanza"
  BY DEF M
<1>3. ASSUME NEW g \in Hosts, NEW c \in Conns, NEW n \in Stanzas, OnWire(g, c, n)'
      PROVE  OnWire(g, c, n)
  BY <1>2, <1>3 DEF OnWire, Thinner, Thin
<1> QED BY <1>1, <1>3

\* Where a step moves no stanza forward, the invariant is kept.
LEMMA Quiet ==
    ASSUME DInv, UNCHANGED <<conns, sent, got>>, Thinner(wire, wire'),
           \A g \in Hosts : Inherits(list[g], list'[g]) /\ Drains(list[g], list'[g])
    PROVE  DInv'
<1>1. Numbered' /\ \A g \in Hosts, c \in Conns : Fed(g, c)' => Fed(g, c)
  BY NumberedKept DEF DInv
<1>2. SingleQueue' /\ \A g \in Hosts, c \in Conns, n \in Stanzas : Queued(g, c, n)' => Queued(g, c, n)
  BY QueuesKept DEF DInv
<1>3. SingleWire' /\ \A g \in Hosts, c \in Conns, n \in Stanzas : OnWire(g, c, n)' => OnWire(g, c, n)
  BY <1>1, WiresKept DEF DInv
<1>4. Apart'
  BY <1>2, <1>3, NothingNew DEF DInv
<1>5. SingleGot'
  BY DEF DInv, SingleGot
<1> QED BY <1>1, <1>2, <1>3, <1>4, <1>5 DEF DInv

-----------------------------------------------------------------------------
(* Handlers that move no stanza forward.                                   *)

\* The list of one host changes.
LEMMA OneHost ==
    ASSUME Types, NEW h \in Hosts, NEW m, Inherits(list[h], m), Drains(list[h], m),
           list' = [list EXCEPT ![h] = m]
    PROVE  \A g \in Hosts : Inherits(list[g], list'[g]) /\ Drains(list[g], list'[g])
<1>1. \A g \in Hosts : list'[g] = IF g = h THEN m ELSE list[g]
  BY DEF Types
<1> QED BY <1>1, SameList

\* The state of one stream changes.
LEMMA StreamState ==
    ASSUME Types, NEW h \in Hosts, NEW i \in 1 .. Len(list[h]),
           NEW st \in {"opening", "ready", "dead"},
           list' = [list EXCEPT ![h][i].st = st]
    PROVE  \A g \in Hosts : Inherits(list[g], list'[g]) /\ Drains(list[g], list'[g])
<1> DEFINE s == list[h][i]
           e == [s EXCEPT !.st = st]
<1>1. list[h] \in Seq(Session) /\ s \in Session
  BY OneSession DEF Good
<1>2. e \in Session /\ e.kind = s.kind /\ e.c = s.c /\ e.pending = s.pending /\ e.st = st
  <2> HIDE DEF s
  <2> QED BY <1>1 DEF Session
<1>3. list' = [list EXCEPT ![h] = [list[h] EXCEPT ![i] = e]]
  OBVIOUS
<1> HIDE DEF e
<1>4. Inherits(list[h], [list[h] EXCEPT ![i] = e]) /\ Drains(list[h], [list[h] EXCEPT ![i] = e])
  BY <1>1, <1>2, ReplacedInherits
<1> QED BY <1>3, <1>4, OneHost

\* A session is gone, its queue with it.
LEMMA DoneQuiet ==
    ASSUME Types, DInv, NEW h \in Hosts, NEW i \in 1 .. Len(list[h]), NEW w \in Wires,
           Thinner(wire, w), Done(h, i, w), UNCHANGED <<conns, sent, got>>
    PROVE  DInv'
<1>1. list' = [list EXCEPT ![h] = RemoveAt(list[h], i)] /\ CloseEnd(w, list[h][i])
  BY DEF Done
<1>2. list[h] \in Seq(Session) /\ list[h][i] \in Session
  BY OneSession DEF Good
<1>3. \A g \in Hosts : Inherits(list[g], list'[g]) /\ Drains(list[g], list'[g])
  BY <1>1, <1>2, RemovedInherits, OneHost
<1>4. Thinner(wire, wire')
  BY <1>1, <1>2, ThinnerClosed, ThinnerTransitive
<1> QED BY <1>3, <1>4, Quiet

\* A stream is dead, its session stays.
LEMMA DeadQuiet ==
    ASSUME Types, DInv, NEW h \in Hosts, NEW i \in 1 .. Len(list[h]), NEW w \in Wires,
           Thinner(wire, w), list' = [list EXCEPT ![h][i].st = "dead"],
           CloseEnd(w, list[h][i]), UNCHANGED <<conns, sent, got>>
    PROVE  DInv'
<1>1. \A g \in Hosts : Inherits(list[g], list'[g]) /\ Drains(list[g], list'[g])
  BY StreamState
<1>2. Thinner(wire, wire')
  BY OneSession, ThinnerClosed, ThinnerTransitive
<1> QED BY <1>1, <1>2, Quiet

\* The stream of a connecting session ends.
LEMMA GoneQuiet ==
    ASSUME Types, DInv, NEW h \in Hosts, NEW i \in 1 .. Len(list[h]), NEW w \in Wires,
           Thinner(wire, w), StreamGone(h, i, w), UNCHANGED <<conns, sent, got>>
    PROVE  DInv'
BY DoneQuiet, DeadQuiet DEF StreamGone

\* A connection fails to open.
LEMMA FailedQuiet ==
    ASSUME Types, DInv, NEW h \in Hosts, NEW i \in 1 .. Len(list[h]), ConnectFailed(h, i)
    PROVE  DInv'
<1>1. StreamGone(h, i, wire) /\ UNCHANGED <<conns, sent, got>>
  BY DEF ConnectFailed
<1>2. wire \in Wires /\ Thinner(wire, wire)
  BY DEF Types, Thinner, Thin
<1> QED BY <1>1, <1>2, GoneQuiet

\* A connection breaks: what was under way is kept or lost.
LEMMA BreakQuiet ==
    ASSUME Types, DInv, NEW h \in Hosts, NEW i \in 1 .. Len(list[h]), Break(h, i)
    PROVE  DInv'
<1> DEFINE c == list[h][i].c
<1>1. c \in Conns /\ UNCHANGED <<list, conns, sent, got>>
  BY OneSession DEF Break
<1>2. PICK m1 \in {"close", "reset"}, m2 \in {"close", "reset"}, keep \in BOOLEAN :
          wire' = [wire EXCEPT
              ![c].toIn = IF <<c, "toIn">> \in shut THEN <<>>
                          ELSE (IF keep THEN @ ELSE <<>>) \o <<M(m1, 0)>>,
              ![c].toOut = (IF keep THEN @ ELSE <<>>) \o <<M(m2, 0)>>]
  BY DEF Break
<1> DEFINE q == wire[c].toIn
           m == M(m1, 0)
           in == IF <<c, "toIn">> \in shut THEN <<>> ELSE (IF keep THEN q ELSE <<>>) \o <<m>>
           out == (IF keep THEN wire[c].toOut ELSE <<>>) \o <<M(m2, 0)>>
<1>3. q \in Seq(Message) /\ Len(q) \in Nat /\ wire[c] \in [toIn : Seq(Message), toOut : Seq(Message)]
  BY <1>1, LenProperties DEF Types, Wires
<1>4. m \in Message /\ m.t # "stanza"
  BY DEF M, Msg, Message
<1>5. \A d \in Conns : wire'[d].toIn = IF d = c THEN in ELSE wire[d].toIn
  <2>1. wire' = [wire EXCEPT ![c] = [wire[c] EXCEPT !.toIn = in, !.toOut = out]]
    BY <1>1, <1>2 DEF Types, Wires
  <2> HIDE DEF in, out, c
  <2>2. \A d \in Conns : wire'[d] = IF d = c THEN [wire[c] EXCEPT !.toIn = in, !.toOut = out]
                                    ELSE wire[d]
    BY <1>1, <2>1 DEF Types, Wires
  <2> QED BY <1>3, <2>2
<1> HIDE DEF q, m
<1>6. Thin(q, q \o <<m>>)
  BY <1>3, <1>4, ThinAppended
<1>7. Thin(q, <<>> \o <<m>>)
  <2> DEFINE x == <<>> \o <<m>>
  <2>1. x = <<m>>
    BY <1>4, ConcatEmptySeq
  <2> HIDE DEF x
  <2>2. Thin(q, x)
    BY <1>4, <2>1 DEF Thin, OnceOnWire
  <2> QED BY <2>2 DEF x
<1>8. Thin(q, <<>>)
  BY EmptySeq DEF Thin, OnceOnWire
<1>9. Thin(q, in)
  BY <1>6, <1>7, <1>8
<1>10. \A p : Thin(p, p)
  BY DEF Thin
<1>11. Thinner(wire, wire')
  <2> HIDE DEF in, c
  <2> QED BY <1>5, <1>9, <1>10 DEF Thinner, q
<1>12. \A g \in Hosts : list'[g] = list[g]
  BY <1>1
<1>13. \A g \in Hosts : Inherits(list[g], list'[g]) /\ Drains(list[g], list'[g])
  BY <1>12, SameList
<1> QED BY <1>1, <1>11, <1>13, Quiet

\* A message that is no stanza is answered, or not.
LEMMA AnsweredQuiet ==
    ASSUME Types, NEW h \in Hosts, NEW i \in 1 .. Len(list[h]), NEW w \in Wires,
           Thinner(wire, w), NEW dir \in {"toIn", "toOut"}, NEW m \in Message, m.t # "stanza"
    PROVE  Thinner(wire, Put(w, list[h][i].c, dir, <<m>>))
<1>1. list[h][i].c \in Conns
  BY OneSession
<1> QED BY <1>1, ThinnerPut, ThinnerTransitive

-----------------------------------------------------------------------------
(* New sessions.                                                           *)

\* A session with the next number joins the list of the host that connects.
LEMMA FreshSession ==
    ASSUME Types, DInv, NEW h \in Hosts, NEW e \in Session, e.kind # "in",
           e.c = conns + 1, conns' = conns + 1,
           \A g \in Hosts : list'[g] = IF g = h THEN Append(list[g], e) ELSE list[g]
    PROVE  /\ Numbered'
           /\ NoRepeat(e.pending) => SingleQueue'
           /\ \A g \in Hosts, c \in Conns : Fed(g, c)' => Fed(g, c)
           /\ \A g \in Hosts, c \in Conns, m \in Stanzas :
                Queued(g, c, m)' => \/ Queued(g, c, m)
                                    \/ /\ g = h /\ c = conns + 1
                                       /\ \E k \in 1 .. Len(e.pending) : e.pending[k] = m
<1> DEFINE l == list[h]
           m == Append(l, e)
<1>1. l \in Seq(Session) /\ Len(l) \in Nat /\ conns \in Nat
  BY LenProperties DEF Types
<1>2. \A g \in Hosts : list'[g] = IF g = h THEN m ELSE list[g]
  OBVIOUS
<1> HIDE DEF l
<1>3. Len(m) = Len(l) + 1 /\ \A j \in 1 .. Len(m) :
         IF j = Len(l) + 1 THEN m[j] = e ELSE j \in 1 .. Len(l) /\ m[j] = l[j]
  BY <1>1
<1> HIDE DEF m
<1>4. \A g \in Hosts : \A j \in 1 .. Len(list'[g]) :
         \/ g = h /\ j = Len(l) + 1 /\ list'[g][j] = e
         \/ j \in 1 .. Len(list[g]) /\ list'[g][j] = list[g][j]
  BY <1>2, <1>3 DEF l
<1>5. \A g \in Hosts : \A j \in 1 .. Len(list[g]) :
         list[g][j].c \in Nat /\ list[g][j].c <= conns /\ list[g][j].c # e.c
  <2> TAKE g \in Hosts
  <2> TAKE j \in 1 .. Len(list[g])
  <2>1. list[g][j].c \in Nat
    BY OneSession DEF Conns
  <2>2. list[g][j].c <= conns
    BY DEF DInv, Numbered
  <2> QED BY <1>1, <2>1, <2>2
<1>6. \A g \in Hosts : OwnConn(list'[g])
  <2> SUFFICES ASSUME NEW g \in Hosts, NEW j \in 1 .. Len(list'[g]), NEW k \in 1 .. Len(list'[g]),
                      list'[g][j].kind # "in", list'[g][j].c = list'[g][k].c
               PROVE  j = k
    BY DEF OwnConn
  <2>1. OwnConn(list[g])
    BY DEF DInv, Numbered
  <2>2. \/ g = h /\ j = Len(l) + 1 /\ list'[g][j] = e
        \/ j \in 1 .. Len(list[g]) /\ list'[g][j] = list[g][j]
    BY <1>4
  <2>3. \/ g = h /\ k = Len(l) + 1 /\ list'[g][k] = e
        \/ k \in 1 .. Len(list[g]) /\ list'[g][k] = list[g][k]
    BY <1>4
  <2> QED BY <1>5, <2>1, <2>2, <2>3 DEF OwnConn
<1>7. \A g \in Hosts : \A j \in 1 .. Len(list'[g]) :
         list'[g][j].c <= conns' /\ (list'[g][j].st = "connecting" => list'[g][j].kind # "in")
  <2> TAKE g \in Hosts
  <2> TAKE j \in 1 .. Len(list'[g])
  <2>1. CASE list'[g][j] = e
    BY <1>1, <2>1
  <2>2. CASE j \in 1 .. Len(list[g]) /\ list'[g][j] = list[g][j]
    <3>1. list[g][j].c <= conns /\ (list[g][j].st = "connecting" => list[g][j].kind # "in")
      BY <2>2 DEF DInv, Numbered
    <3> QED BY <1>1, <1>5, <2>2, <3>1
  <2> QED BY <1>4, <2>1, <2>2
<1>8. \A x, y \in Hosts : \A i \in 1 .. Len(list'[x]), j \in 1 .. Len(list'[y]) :
         x # y /\ list'[x][i].kind # "in" /\ list'[x][i].c = list'[y][j].c
           => list'[y][j].kind = "in"
  <2> SUFFICES ASSUME NEW x \in Hosts, NEW y \in Hosts, NEW i \in 1 .. Len(list'[x]),
                      NEW j \in 1 .. Len(list'[y]), x # y, list'[x][i].kind # "in",
                      list'[x][i].c = list'[y][j].c
               PROVE  list'[y][j].kind = "in"
    OBVIOUS
  <2>1. \/ x = h /\ list'[x][i] = e
        \/ i \in 1 .. Len(list[x]) /\ list'[x][i] = list[x][i]
    BY <1>4
  <2>2. \/ y = h /\ list'[y][j] = e
        \/ j \in 1 .. Len(list[y]) /\ list'[y][j] = list[y][j]
    BY <1>4
  <2>3. CASE x = h /\ list'[x][i] = e
    BY <1>5, <2>2, <2>3
  <2>4. CASE y = h /\ list'[y][j] = e
    BY <1>5, <2>1, <2>4
  <2>5. CASE /\ i \in 1 .. Len(list[x]) /\ list'[x][i] = list[x][i]
             /\ j \in 1 .. Len(list[y]) /\ list'[y][j] = list[y][j]
    BY <2>5 DEF DInv, Numbered
  <2> QED BY <2>1, <2>2, <2>3, <2>4, <2>5
<1>9. Numbered'
  BY <1>6, <1>7, <1>8 DEF Numbered
<1>10. NoRepeat(e.pending) => SingleQueue'
  BY <1>4 DEF SingleQueue, DInv
<1>11. \A g \in Hosts, c \in Conns : Fed(g, c)' => Fed(g, c)
  BY <1>4, PeerType DEF Fed
<1>12. ASSUME NEW g \in Hosts, NEW c \in Conns, NEW n \in Stanzas, Queued(g, c, n)'
       PROVE  \/ Queued(g, c, n)
              \/ /\ g = h /\ c = conns + 1
                 /\ \E k \in 1 .. Len(e.pending) : e.pending[k] = n
  BY <1>4, <1>12 DEF Queued
<1> QED BY <1>9, <1>10, <1>11, <1>12

\* cs_dialbackRequest.
LEMMA RequestKeeps ==
    ASSUME Types, DInv, NEW h \in Hosts, NEW i \in 1 .. Len(list[h]), NEW m \in Message,
           Thinner(wire, Taken(list[h][i])), dialbackRequest(h, i, m), UNCHANGED sent
    PROVE  DInv'
<1> DEFINE e == NewSession("verify", conns + 1, "connecting", list[h][i].c, <<>>)
<1>1. /\ conns < MaxConns /\ conns' = conns + 1 /\ wire' = Taken(list[h][i]) /\ UNCHANGED <<shut, got>>
      /\ \A g \in Hosts : list'[g] = IF g = h THEN Append(list[g], e) ELSE list[g]
  BY DEF dialbackRequest, Types
<1>2. conns + 1 \in Conns
  BY <1>1, S2SAssumption DEF Types, Conns, S2SAssumption
<1>3. e \in Session /\ e.kind # "in" /\ e.c = conns + 1 /\ e.pending = <<>>
  BY <1>2, OneSession, EmptySeq DEF NewSession, Session
<1> HIDE DEF e
<1>4. NoRepeat(e.pending) /\ 1 .. Len(e.pending) = {}
  BY <1>3, EmptySeq DEF NoRepeat
<1>5. /\ Numbered' /\ SingleQueue'
      /\ \A g \in Hosts, c \in Conns : Fed(g, c)' => Fed(g, c)
      /\ \A g \in Hosts, c \in Conns, n \in Stanzas : Queued(g, c, n)' => Queued(g, c, n)
  BY <1>1, <1>3, <1>4, FreshSession
<1>6. SingleWire' /\ \A g \in Hosts, c \in Conns, n \in Stanzas : OnWire(g, c, n)' => OnWire(g, c, n)
  BY <1>1, <1>5, WiresKept DEF DInv
<1>7. Apart' /\ SingleGot'
  <2>1. Apart'
    BY <1>1, <1>5, <1>6, NothingNew DEF DInv
  <2>2. SingleGot'
    BY <1>1 DEF DInv, SingleGot
  <2> QED BY <2>1, <2>2
<1> QED BY <1>5, <1>6, <1>7 DEF DInv

\* The other host accepts a connection.
LEMMA ConnectedKeeps ==
    ASSUME Types, DInv, NEW h \in Hosts, NEW i \in 1 .. Len(list[h]), Connected(h, i)
    PROVE  DInv'
<1> DEFINE s == list[h][i]
           p == Peer(h)
           b == s.c
           f == [s EXCEPT !.st = "opening"]
           e == NewSession("in", b, "opening", 0, <<>>)
           o == <<M("open", 0)>>
<1>1. p \in Hosts /\ p # h /\ s \in Session /\ b \in Conns
      /\ list[h] \in Seq(Session) /\ list[p] \in Seq(Session) /\ Len(list[p]) \in Nat
  BY PeerType, OneSession, LenProperties DEF Good, Types
<1>2. UNCHANGED <<shut, conns, sent, got>> /\ wire' = [wire EXCEPT ![b].toIn = o]
  BY DEF Connected
<1>3. list' = [list EXCEPT ![h] = [list[h] EXCEPT ![i] = f], ![p] = Append(list[p], e)]
  BY DEF Connected
<1>4. \A g \in Hosts : list'[g] = IF g = p THEN Append(list[p], e)
                                  ELSE IF g = h THEN [list[h] EXCEPT ![i] = f] ELSE list[g]
  <2> HIDE DEF f, e, p
  <2> QED BY <1>1, <1>3 DEF Types
<1>5. f.kind = s.kind /\ f.c = b /\ f.pending = s.pending /\ e.kind = "in" /\ e.c = b /\ f \in Session
      /\ e \in Session /\ e.st = "opening" /\ f.st = "opening"
  <2>1. e \in Session /\ e.kind = "in" /\ e.c = b /\ e.st = "opening"
    BY <1>1, EmptySeq DEF NewSession, Session
  <2>2. f.kind = s.kind /\ f.c = s.c /\ f.pending = s.pending /\ f \in Session /\ f.st = "opening"
    <3> HIDE DEF s
    <3> QED BY <1>1 DEF Session
  <2> QED BY <2>1, <2>2
<1> DEFINE u == [list[h] EXCEPT ![i] = f]
           v == Append(list[p], e)
<1>6. Len(u) = Len(list[h]) /\ \A j \in 1 .. Len(list[h]) :
         u[j].kind = list[h][j].kind /\ u[j].c = list[h][j].c /\ u[j].pending = list[h][j].pending
         /\ u[j].st \in {list[h][j].st, "opening"}
  <2> HIDE DEF f
  <2>1. Len(u) = Len(list[h]) /\ \A j \in 1 .. Len(list[h]) : u[j] = IF j = i THEN f ELSE list[h][j]
    BY <1>1, <1>5, ExceptSeq
  <2> QED BY <1>5, <2>1
<1>7. Len(v) = Len(list[p]) + 1 /\ \A j \in 1 .. Len(v) :
         IF j = Len(list[p]) + 1 THEN v[j] = e ELSE j \in 1 .. Len(list[p]) /\ v[j] = list[p][j]
  <2> HIDE DEF e
  <2> QED BY <1>1, <1>5
<1> HIDE DEF u, v, e, f, o
<1>8. \A g \in Hosts : \A j \in 1 .. Len(list'[g]) :
         \/ g = p /\ j = Len(list[p]) + 1 /\ list'[g][j].kind = "in" /\ list'[g][j].c = b
            /\ list'[g][j].st = "opening"
         \/ /\ j \in 1 .. Len(list[g])
            /\ list'[g][j].kind = list[g][j].kind /\ list'[g][j].c = list[g][j].c
            /\ list'[g][j].pending = list[g][j].pending
            /\ list'[g][j].st \in {list[g][j].st, "opening"}
  <2> TAKE g \in Hosts
  <2>1. CASE g = p
    BY <1>4, <1>5, <1>7, <2>1 DEF v
  <2>2. CASE g = h
    BY <1>1, <1>4, <1>6, <2>2 DEF u
  <2>3. CASE g # p /\ g # h
    BY <1>4, <2>3
  <2> QED BY <2>1, <2>2, <2>3
<1> HIDE DEF s, p, b
<1>9. \A j \in 1 .. Len(list[p]) : list[p][j].c = b => list[p][j].kind = "in"
  <2>1. list[h][i].kind # "in"
    BY DEF DInv, Numbered, Connected
  <2> QED BY <1>1, <2>1 DEF DInv, Numbered, s, b
<1>10. \A g \in Hosts : OwnConn(list'[g])
  <2> SUFFICES ASSUME NEW g \in Hosts, NEW j \in 1 .. Len(list'[g]), NEW k \in 1 .. Len(list'[g]),
                      list'[g][j].kind # "in", list'[g][j].c = list'[g][k].c
               PROVE  j = k
    BY DEF OwnConn
  <2>1. OwnConn(list[g])
    BY DEF DInv, Numbered
  <2>2. j \in 1 .. Len(list[g]) /\ list[g][j].kind # "in" /\ list[g][j].c = list'[g][j].c
    BY <1>8
  <2>3. CASE g = p /\ list'[g][k].c = b
    BY <1>9, <2>2, <2>3
  <2>4. CASE ~(g = p /\ list'[g][k].c = b)
    BY <1>8, <2>1, <2>2, <2>4 DEF OwnConn
  <2> QED BY <2>3, <2>4
<1>11. \A g \in Hosts : \A j \in 1 .. Len(list'[g]) :
         list'[g][j].c <= conns' /\ (list'[g][j].st = "connecting" => list'[g][j].kind # "in")
  <2>1. b <= conns
    BY DEF DInv, Numbered, s, b
  <2> QED BY <1>2, <1>8, <2>1 DEF DInv, Numbered
<1>12. \A x, y \in Hosts : \A k \in 1 .. Len(list'[x]), j \in 1 .. Len(list'[y]) :
         x # y /\ list'[x][k].kind # "in" /\ list'[x][k].c = list'[y][j].c
           => list'[y][j].kind = "in"
  <2> SUFFICES ASSUME NEW x \in Hosts, NEW y \in Hosts, NEW k \in 1 .. Len(list'[x]),
                      NEW j \in 1 .. Len(list'[y]), x # y, list'[x][k].kind # "in",
                      list'[x][k].c = list'[y][j].c, list'[y][j].kind # "in"
               PROVE  FALSE
    OBVIOUS
  <2>1. k \in 1 .. Len(list[x]) /\ list[x][k].kind # "in" /\ list[x][k].c = list'[x][k].c
    BY <1>8
  <2>2. j \in 1 .. Len(list[y]) /\ list[y][j].kind # "in" /\ list[y][j].c = list'[y][j].c
    BY <1>8
  <2> QED BY <2>1, <2>2 DEF DInv, Numbered
<1>13. Numbered'
  BY <1>10, <1>11, <1>12 DEF Numbered
<1>14. SingleQueue'
  BY <1>8 DEF DInv, SingleQueue
<1>15. ASSUME NEW g \in Hosts, NEW c \in Conns, NEW n \in Stanzas, Queued(g, c, n)'
       PROVE  Queued(g, c, n)
  <2>1. PICK j \in 1 .. Len(list'[g]) :
            list'[g][j].kind # "in" /\ list'[g][j].c = c
            /\ \E k \in 1 .. Len(list'[g][j].pending) : list'[g][j].pending[k] = n
    BY <1>15 DEF Queued
  <2>2. /\ j \in 1 .. Len(list[g])
        /\ list'[g][j].kind = list[g][j].kind /\ list'[g][j].c = list[g][j].c
        /\ list'[g][j].pending = list[g][j].pending
    BY <1>8, <2>1
  <2> QED BY <2>1, <2>2 DEF Queued
<1>16. \A g \in Hosts, c \in Conns : Fed(g, c)' => Fed(g, c) \/ c = b
  BY <1>8, PeerType DEF Fed
<1>17. \A c \in Conns : wire'[c].toIn = IF c = b THEN o ELSE wire[c].toIn
  BY <1>1, <1>2 DEF Types, Wires
<1>18. Len(o) = 1 /\ o[1].t # "stanza"
  BY DEF o, M
<1>19. SingleWire'
  <2>1. OnceOnWire(o)
    BY <1>18 DEF OnceOnWire
  <2> QED BY <1>16, <1>17, <2>1 DEF DInv, SingleWire
<1>20. ASSUME NEW g \in Hosts, NEW c \in Conns, NEW n \in Stanzas, OnWire(g, c, n)'
       PROVE  OnWire(g, c, n)
  <2>1. M("stanza", n).t = "stanza"
    BY DEF M
  <2>2. c # b
    BY <1>17, <1>18, <1>20, <2>1 DEF OnWire
  <2> QED BY <1>16, <1>17, <1>20, <2>2 DEF OnWire
<1>21. Apart' /\ SingleGot'
  <2>1. Apart'
    BY <1>2, <1>15, <1>20, NothingNew DEF DInv
  <2>2. SingleGot'
    BY <1>2 DEF DInv, SingleGot
  <2> QED BY <2>1, <2>2
<1> QED BY <1>13, <1>14, <1>19, <1>21 DEF DInv

-----------------------------------------------------------------------------
(* Stanzas that move forward.                                              *)

\* What is written goes to one wire, or nowhere.
LEMMA PutAppends ==
    ASSUME NEW w \in Wires, NEW b \in Conns, NEW ms
    PROVE  \A c \in Conns : \/ Put(w, b, "toIn", ms)[c].toIn = w[c].toIn
                            \/ c = b /\ Put(w, b, "toIn", ms)[c].toIn = w[c].toIn \o ms
<1>1. w[b] \in [toIn : Seq(Message), toOut : Seq(Message)]
  BY DEF Wires
<1> QED BY <1>1 DEF Put, Wires

\* The messages ms carry the stanzas r, and are written to connection b.
Carries(ms, r) == Len(ms) = Len(r) /\ \A k \in 1 .. Len(r) : ms[k] = M("stanza", r[k])
OffWire(h, b, r) == \A k \in 1 .. Len(r) : ~OnWire(h, b, r[k])
Appended(b, ms) ==
    \A c \in Conns : wire'[c].toIn = wire[c].toIn \/ (c = b /\ wire'[c].toIn = wire[c].toIn \o ms)

\* The connecting side of connection b writes the stanzas r, none of which is
\* on that wire already.
LEMMA Written ==
    ASSUME Types, DInv, NEW h \in Hosts, NEW i \in 1 .. Len(list[h]), list[h][i].kind # "in",
           NEW b \in Conns, b = list[h][i].c, NEW r \in Seq(Stanzas), NoRepeat(r), OffWire(h, b, r),
           NEW ms \in Seq(Message), Carries(ms, r), Appended(b, ms),
           \A g \in Hosts, c \in Conns : Fed(g, c)' => Fed(g, c)
    PROVE  /\ SingleWire'
           /\ \A g \in Hosts, c \in Conns, n \in Stanzas :
                OnWire(g, c, n)' => OnWire(g, c, n) \/ (g = h /\ c = b /\ \E k \in 1 .. Len(r) : r[k] = n)
<1> DEFINE q == wire[b].toIn
           x == q \o ms
<1>1. Len(ms) = Len(r) /\ \A k \in 1 .. Len(r) : ms[k] = M("stanza", r[k])
  BY DEF Carries
<1>2. q \in Seq(Message) /\ Len(q) \in Nat /\ Len(r) \in Nat
  <2>1. wire[b] \in [toIn : Seq(Message), toOut : Seq(Message)]
    BY DEF Types, Wires
  <2>2. q \in Seq(Message)
    BY <2>1
  <2> QED BY <2>2, LenProperties
<1>3. \A g \in Hosts : Fed(g, b) => g = h
  <2> SUFFICES ASSUME NEW g \in Hosts, Fed(g, b), g # h PROVE FALSE
    OBVIOUS
  <2>1. Peer(g) = h
    BY PeerOnly
  <2>2. PICK j \in 1 .. Len(list[h]) : list[h][j].kind = "in" /\ list[h][j].c = b
    BY <2>1 DEF Fed
  <2>3. OwnConn(list[h])
    BY DEF DInv, Numbered
  <2> QED BY <2>2, <2>3 DEF OwnConn
<1>4. \A k \in 1 .. Len(r) : r[k] \in Stanzas /\ ms[k].t = "stanza" /\ ms[k].n = r[k]
  <2>1. \A n : M("stanza", n).t = "stanza" /\ M("stanza", n).n = n
    BY DEF M
  <2> QED BY <1>1, <2>1, ElementOfSeq
<1>5. \A g \in Hosts, c \in Conns : Fed(g, c)' =>
         wire'[c].toIn = wire[c].toIn \/ (g = h /\ c = b /\ wire'[c].toIn = x)
  BY <1>3 DEF Appended
<1> HIDE DEF q
<1>6. Len(x) = Len(q) + Len(r) /\ \A k \in 1 .. Len(x) :
         \/ k \in 1 .. Len(q) /\ x[k] = q[k]
         \/ k - Len(q) \in 1 .. Len(r) /\ x[k] = ms[k - Len(q)]
  <2>1. Len(x) = Len(q) + Len(ms) /\ \A k \in 1 .. Len(q) + Len(ms) :
           x[k] = IF k <= Len(q) THEN q[k] ELSE ms[k - Len(q)]
    BY <1>2, ConcatProperties
  <2> HIDE DEF x
  <2> QED BY <1>1, <1>2, <2>1
<1> HIDE DEF x
<1>7. Fed(h, b) => \A j \in 1 .. Len(q), k \in 1 .. Len(r) : q[j] # ms[k]
  BY <1>1, <1>4 DEF OffWire, OnWire, q
<1>8. \A j, k \in 1 .. Len(r) : ms[j] = ms[k] => j = k
  BY <1>4 DEF NoRepeat
<1>9. Fed(h, b) => OnceOnWire(x)
  <2> SUFFICES ASSUME Fed(h, b), NEW j \in 1 .. Len(x), NEW k \in 1 .. Len(x),
                      x[j].t = "stanza", x[j] = x[k]
               PROVE  j = k
    BY DEF OnceOnWire
  <2>0. OnceOnWire(q)
    BY DEF DInv, SingleWire, q
  <2>1. CASE j \in 1 .. Len(q) /\ x[j] = q[j]
    <3>1. k \in 1 .. Len(q) /\ x[k] = q[k]
      BY <1>6, <1>7, <2>1
    <3> QED BY <2>0, <2>1, <3>1 DEF OnceOnWire
  <2>2. CASE j - Len(q) \in 1 .. Len(r) /\ x[j] = ms[j - Len(q)]
    <3>1. k - Len(q) \in 1 .. Len(r) /\ x[k] = ms[k - Len(q)]
      BY <1>6, <1>7, <2>2
    <3>2. j - Len(q) = k - Len(q)
      BY <1>8, <2>2, <3>1
    <3> QED BY <1>2, <1>6, <3>2
  <2> QED BY <1>6, <2>1, <2>2
<1>10. SingleWire'
  BY <1>5, <1>9 DEF DInv, SingleWire
<1>11. ASSUME NEW g \in Hosts, NEW c \in Conns, NEW n \in Stanzas, OnWire(g, c, n)'
       PROVE  OnWire(g, c, n) \/ (g = h /\ c = b /\ \E k \in 1 .. Len(r) : r[k] = n)
  <2>1. Fed(g, c)' /\ Fed(g, c)
    BY <1>11 DEF OnWire
  <2>2. PICK k \in 1 .. Len(wire'[c].toIn) : wire'[c].toIn[k] = M("stanza", n)
    BY <1>11 DEF OnWire
  <2>3. CASE wire'[c].toIn = wire[c].toIn
    BY <2>1, <2>2, <2>3 DEF OnWire
  <2>4. CASE g = h /\ c = b /\ wire'[c].toIn = x
    <3>1. CASE k \in 1 .. Len(q) /\ x[k] = q[k]
      BY <2>1, <2>2, <2>4, <3>1 DEF OnWire, q
    <3>2. CASE k - Len(q) \in 1 .. Len(r) /\ x[k] = ms[k - Len(q)]
      <4>1. M("stanza", n).n = n
        BY DEF M
      <4> QED BY <1>4, <2>2, <2>4, <3>2, <4>1
    <3> QED BY <1>6, <2>2, <2>4, <3>1, <3>2
  <2> QED BY <1>5, <2>1, <2>3, <2>4
<1> QED BY <1>10, <1>11

\* An active session writes to the wire.
LEMMA WriteThrough ==
    ASSUME Types, DInv, NEW h \in Hosts, NEW i \in 1 .. Len(list[h]), list[h][i].kind # "in",
           NEW n \in Stanzas, n = sent[h] + 1,
           \A g \in Hosts : sent'[g] = IF g = h THEN n ELSE sent[g],
           UNCHANGED <<list, conns, got>>, wire' = Put(wire, list[h][i].c, "toIn", <<M("stanza", n)>>)
    PROVE  DInv'
<1> DEFINE ms == <<M("stanza", n)>>
           r == <<n>>
<1>1. PICK b \in Conns : b = list[h][i].c
  BY OneSession
<1>2. \A c \in Conns : ~OnWire(h, c, n) /\ ~Queued(h, c, n)
  <2>1. ~(n <= sent[h])
    BY DEF Types
  <2> QED BY <2>1 DEF DInv, Apart
<1>3. Appended(b, ms)
  <2>1. wire' = Put(wire, b, "toIn", ms)
    BY <1>1
  <2>2. wire \in Wires
    BY DEF Types
  <2> HIDE DEF ms
  <2>3. \A c \in Conns : \/ Put(wire, b, "toIn", ms)[c].toIn = wire[c].toIn
                         \/ c = b /\ Put(wire, b, "toIn", ms)[c].toIn = wire[c].toIn \o ms
    BY <2>2, PutAppends
  <2> QED BY <2>1, <2>3 DEF Appended
<1>4. \A g \in Hosts : list'[g] = list[g]
  OBVIOUS
<1>5. \A g \in Hosts : Inherits(list[g], list'[g]) /\ Drains(list[g], list'[g])
  BY <1>4, SameList
<1>6. Numbered' /\ \A g \in Hosts, c \in Conns : Fed(g, c)' => Fed(g, c)
  BY <1>5, NumberedKept DEF DInv
<1>7. SingleQueue' /\ \A g \in Hosts, c \in Conns, m \in Stanzas : Queued(g, c, m)' => Queued(g, c, m)
  BY <1>5, QueuesKept DEF DInv
<1>8. r \in Seq(Stanzas) /\ NoRepeat(r) /\ Len(r) = 1 /\ r[1] = n
  BY DEF NoRepeat
<1>9. ms \in Seq(Message) /\ Len(ms) = 1 /\ ms[1] = M("stanza", n)
  BY DEF M, Message, Msg, Stanzas
<1> HIDE DEF ms, r
<1>10. OffWire(h, b, r)
  BY <1>2, <1>8 DEF OffWire
<1>11. Carries(ms, r)
  BY <1>8, <1>9 DEF Carries
<1>12. /\ SingleWire'
       /\ \A g \in Hosts, c \in Conns, m \in Stanzas :
            OnWire(g, c, m)' => OnWire(g, c, m) \/ (g = h /\ c = b /\ \E k \in 1 .. Len(r) : r[k] = m)
  BY <1>1, <1>3, <1>6, <1>8, <1>9, <1>10, <1>11, Written
<1>13. Apart'
  <2>1. ~(Queued(h, b, n)' /\ OnWire(h, b, n)')
    BY <1>2, <1>7
  <2>2. \A g \in Hosts, c \in Conns, m \in Stanzas :
           Queued(g, c, m)' => Queued(g, c, m) \/ (g = h /\ c = b /\ m = n)
    BY <1>7
  <2>3. \A g \in Hosts, c \in Conns, m \in Stanzas :
           OnWire(g, c, m)' => OnWire(g, c, m) \/ (g = h /\ c = b /\ m = n)
    BY <1>8, <1>12
  <2>4. Apart
    BY DEF DInv
  <2> QED BY <2>1, <2>2, <2>3, <2>4, OneNew
<1>14. SingleGot'
  BY DEF DInv, SingleGot
<1> QED BY <1>6, <1>7, <1>12, <1>13, <1>14 DEF DInv

\* Any other one queues.
LEMMA WriteQueued ==
    ASSUME Types, DInv, NEW h \in Hosts, NEW i \in 1 .. Len(list[h]), list[h][i].kind # "in",
           NEW n \in Stanzas, n = sent[h] + 1,
           \A g \in Hosts : sent'[g] = IF g = h THEN n ELSE sent[g],
           UNCHANGED <<wire, conns, got>>, list' = [list EXCEPT ![h][i].pending = Append(@, n)]
    PROVE  DInv'
<1> DEFINE s == list[h][i]
           e == [s EXCEPT !.pending = Append(@, n)]
<1>1. PICK b \in Conns : b = s.c
  BY OneSession
<1>2. \A c \in Conns : ~OnWire(h, c, n) /\ ~Queued(h, c, n)
  <2>1. ~(n <= sent[h])
    BY DEF Types
  <2> QED BY <2>1 DEF DInv, Apart
<1>3. list[h] \in Seq(Session) /\ s \in Session /\ s.pending \in Seq(Stanzas) /\ Len(s.pending) \in Nat
  <2>1. list[h] \in Seq(Session) /\ s \in Session
    BY OneSession DEF Good
  <2> HIDE DEF s
  <2> QED BY <2>1, LenProperties DEF Session
<1>4. list' = [list EXCEPT ![h] = [list[h] EXCEPT ![i] = e]]
  OBVIOUS
<1>5. e \in Session /\ e.kind = s.kind /\ e.c = s.c /\ e.st = s.st /\ e.pending = Append(s.pending, n)
  <2> HIDE DEF s
  <2>1. Append(s.pending, n) \in Seq(Stanzas)
    BY <1>3
  <2> QED BY <1>3, <2>1 DEF Session
<1>6. Len(e.pending) = Len(s.pending) + 1 /\ \A k \in 1 .. Len(e.pending) :
         IF k = Len(s.pending) + 1 THEN e.pending[k] = n
         ELSE k \in 1 .. Len(s.pending) /\ e.pending[k] = s.pending[k]
  <2> HIDE DEF s, e
  <2> QED BY <1>3, <1>5
<1> HIDE DEF e
<1>7. \A g \in Hosts : list'[g] = IF g = h THEN [list[h] EXCEPT ![i] = e] ELSE list[g]
  BY <1>4 DEF Types
<1>8. Len(list'[h]) = Len(list[h])
      /\ \A j \in 1 .. Len(list[h]) : list'[h][j] = IF j = i THEN e ELSE list[h][j]
  <2> DEFINE u == [list[h] EXCEPT ![i] = e]
  <2>1. Len(u) = Len(list[h]) /\ \A j \in 1 .. Len(list[h]) : u[j] = IF j = i THEN e ELSE list[h][j]
    BY <1>3, <1>5, ExceptSeq
  <2>2. list'[h] = u
    BY <1>7
  <2> HIDE DEF u
  <2> QED BY <2>1, <2>2
<1>9. Inherits(list[h], list'[h])
  <2>1. Inherits(list[h], [list[h] EXCEPT ![i] = e])
    BY <1>3, <1>5, ReplacedInherits
  <2> QED BY <1>7, <2>1
<1>10. \A g \in Hosts : Inherits(list[g], list'[g])
  BY <1>7, <1>9, SameList
<1>11. Numbered' /\ \A g \in Hosts, c \in Conns : Fed(g, c)' => Fed(g, c)
  BY <1>10, NumberedKept DEF DInv
<1>12. \A k \in 1 .. Len(s.pending) : s.pending[k] # n
  BY <1>1, <1>2 DEF Queued
<1>13. NoRepeat(e.pending)
  <2>1. NoRepeat(s.pending)
    BY DEF DInv, SingleQueue
  <2> HIDE DEF s
  <2> QED BY <1>3, <1>6, <1>12, <2>1 DEF NoRepeat
<1>14. SingleQueue'
  <2> SUFFICES ASSUME NEW g \in Hosts, NEW j \in 1 .. Len(list'[g]), list'[g][j].kind # "in"
               PROVE  NoRepeat(list'[g][j].pending)
    BY DEF SingleQueue
  <2>1. CASE g = h /\ j = i
    BY <1>8, <1>13, <2>1
  <2>2. CASE ~(g = h /\ j = i)
    <3>1. j \in 1 .. Len(list[g]) /\ list'[g][j] = list[g][j]
      BY <1>7, <1>8, <2>2
    <3> QED BY <3>1 DEF DInv, SingleQueue
  <2> QED BY <2>1, <2>2
<1>15. ASSUME NEW g \in Hosts, NEW c \in Conns, NEW m \in Stanzas, Queued(g, c, m)'
       PROVE  Queued(g, c, m) \/ (g = h /\ c = b /\ m = n)
  <2>1. PICK j \in 1 .. Len(list'[g]) :
          /\ list'[g][j].kind # "in" /\ list'[g][j].c = c
          /\ \E k \in 1 .. Len(list'[g][j].pending) : list'[g][j].pending[k] = m
    BY <1>15 DEF Queued
  <2>2. CASE g = h /\ j = i
    <3>1. list'[g][j] = e /\ c = b
      BY <1>1, <1>5, <1>8, <2>1, <2>2
    <3>2. PICK k \in 1 .. Len(e.pending) : e.pending[k] = m
      BY <2>1, <3>1
    <3>3. CASE k = Len(s.pending) + 1
      BY <1>6, <2>2, <3>1, <3>2, <3>3
    <3>4. CASE k \in 1 .. Len(s.pending) /\ e.pending[k] = s.pending[k]
      BY <1>1, <2>2, <3>1, <3>2, <3>4 DEF Queued
    <3> QED BY <1>6, <3>2, <3>3, <3>4
  <2>3. CASE ~(g = h /\ j = i)
    <3>1. j \in 1 .. Len(list[g]) /\ list'[g][j] = list[g][j]
      BY <1>7, <1>8, <2>3
    <3> QED BY <2>1, <3>1 DEF Queued
  <2> QED BY <2>2, <2>3
<1>16. SingleWire' /\ \A g \in Hosts, c \in Conns, m \in Stanzas : OnWire(g, c, m)' => OnWire(g, c, m)
  <2>1. Thinner(wire, wire')
    BY DEF Thinner, Thin
  <2> QED BY <1>11, <2>1, WiresKept DEF DInv
<1>17. Apart'
  <2>1. ~(Queued(h, b, n)' /\ OnWire(h, b, n)')
    BY <1>2, <1>16
  <2>2. \A g \in Hosts, c \in Conns, m \in Stanzas :
           Queued(g, c, m)' => Queued(g, c, m) \/ (g = h /\ c = b /\ m = n)
    BY <1>15
  <2>3. \A g \in Hosts, c \in Conns, m \in Stanzas :
           OnWire(g, c, m)' => OnWire(g, c, m) \/ (g = h /\ c = b /\ m = n)
    BY <1>16
  <2>4. Apart
    BY DEF DInv
  <2> QED BY <2>1, <2>2, <2>3, <2>4, OneNew
<1>18. SingleGot'
  BY DEF DInv, SingleGot
<1> QED BY <1>11, <1>14, <1>16, <1>17, <1>18 DEF DInv

\* Without a session to the other host, a new one queues.
LEMMA WriteFirst ==
    ASSUME Types, DInv, NEW h \in Hosts, NEW n \in Stanzas, n = sent[h] + 1,
           \A g \in Hosts : sent'[g] = IF g = h THEN n ELSE sent[g],
           UNCHANGED <<wire, got>>, conns < MaxConns, conns' = conns + 1,
           list' = [list EXCEPT ![h] = Append(@,
               NewSession("out", conns + 1, "connecting", 0, <<n>>))]
    PROVE  DInv'
<1> DEFINE e == NewSession("out", conns + 1, "connecting", 0, <<n>>)
<1>1. PICK b \in Conns : b = conns + 1
  BY S2SAssumption DEF Types, Conns, S2SAssumption
<1>2. \A c \in Conns : ~OnWire(h, c, n)
  <2>1. ~(n <= sent[h])
    BY DEF Types
  <2> QED BY <2>1 DEF DInv, Apart
<1>3. e \in Session /\ e.kind # "in" /\ e.c = conns + 1 /\ e.pending = <<n>>
  BY <1>1 DEF NewSession, Session
<1>4. \A g \in Hosts : list'[g] = IF g = h THEN Append(list[g], e) ELSE list[g]
  BY DEF Types
<1> HIDE DEF e
<1>5. /\ Numbered'
      /\ NoRepeat(e.pending) => SingleQueue'
      /\ \A g \in Hosts, c \in Conns : Fed(g, c)' => Fed(g, c)
      /\ \A g \in Hosts, c \in Conns, m \in Stanzas :
           Queued(g, c, m)' => \/ Queued(g, c, m)
                               \/ /\ g = h /\ c = conns + 1
                                  /\ \E k \in 1 .. Len(e.pending) : e.pending[k] = m
  BY <1>3, <1>4, FreshSession
<1>6. NoRepeat(e.pending) /\ \A k \in 1 .. Len(e.pending) : e.pending[k] = n
  BY <1>3 DEF NoRepeat
<1>7. SingleWire' /\ \A g \in Hosts, c \in Conns, m \in Stanzas : OnWire(g, c, m)' => OnWire(g, c, m)
  <2>1. Thinner(wire, wire')
    BY DEF Thinner, Thin
  <2> QED BY <1>5, <2>1, WiresKept DEF DInv
<1>8. Apart'
  <2>1. ~(Queued(h, b, n)' /\ OnWire(h, b, n)')
    BY <1>2, <1>7
  <2>2. \A g \in Hosts, c \in Conns, m \in Stanzas :
           Queued(g, c, m)' => Queued(g, c, m) \/ (g = h /\ c = b /\ m = n)
    BY <1>1, <1>5, <1>6
  <2>3. \A g \in Hosts, c \in Conns, m \in Stanzas :
           OnWire(g, c, m)' => OnWire(g, c, m) \/ (g = h /\ c = b /\ m = n)
    BY <1>7
  <2>4. Apart
    BY DEF DInv
  <2> QED BY <2>1, <2>2, <2>3, <2>4, OneNew
<1>9. SingleGot'
  BY DEF DInv, SingleGot
<1> QED BY <1>5, <1>6, <1>7, <1>8, <1>9 DEF DInv

\* Router::write.
LEMMA WriteKeeps == ASSUME Types, DInv, NEW h \in Hosts, Write(h) PROVE DInv'
<1>1. PICK n \in Stanzas : n = sent[h] + 1
  BY S2SAssumption DEF Types, Write, Stanzas, S2SAssumption
<1>2. UNCHANGED got /\ \A g \in Hosts : sent'[g] = IF g = h THEN n ELSE sent[g]
  BY <1>1 DEF Write, Types
<1>3. CASE Outbounds(h) = {}
  <2>1. UNCHANGED wire /\ conns < MaxConns /\ conns' = conns + 1
        /\ list' = [list EXCEPT ![h] = Append(@,
               NewSession("out", conns + 1, "connecting", 0, <<n>>))]
    BY <1>1, <1>3 DEF Write
  <2> QED BY <1>1, <1>2, <2>1, WriteFirst
<1>4. CASE Outbounds(h) # {}
  <2>1. PICK i \in 1 .. Len(list[h]) : i = ensureOutbound(h) /\ list[h][i].kind # "in"
    <3>1. Outbounds(h) \subseteq Nat
      BY DEF Outbounds
    <3>2. \E k \in Outbounds(h) : \A j \in Outbounds(h) : k <= j
      BY <1>4, <3>1, LeastNumber
    <3> QED BY <3>2 DEF ensureOutbound, Outbounds
  <2>2. SessionWrite(h, i, n) /\ conns' = conns
    BY <1>1, <1>4, <2>1 DEF Write
  <2>3. CASE list[h][i].active
    BY <1>1, <1>2, <2>1, <2>2, <2>3, WriteThrough DEF SessionWrite
  <2>4. CASE ~list[h][i].active
    BY <1>1, <1>2, <2>1, <2>2, <2>4, WriteQueued DEF SessionWrite
  <2> QED BY <2>3, <2>4
<1> QED BY <1>3, <1>4

\* cs_dialbackResult, granted: the queue is written and emptied.
LEMMA GrantKeeps ==
    ASSUME Types, DInv, NEW h \in Hosts, NEW i \in 1 .. Len(list[h]), list[h][i].kind # "in",
           Taken(list[h][i]) \in Wires, NEW m \in Message, dialbackResult(h, i, m), m.n = 1,
           UNCHANGED sent
    PROVE  DInv'
<1> DEFINE s == list[h][i]
           e == Activated(s)
<1>1. PICK b \in Conns : b = s.c
  BY OneSession
<1>2. list[h] \in Seq(Session) /\ s \in Session
  BY OneSession DEF Good
<1>3. PICK r \in Seq(Stanzas) : r = s.pending
  <2> HIDE DEF s
  <2> QED BY <1>2 DEF Session
<1> DEFINE ms == [k \in 1 .. Len(r) |-> M("stanza", r[k])]
<1>4. ms \in Seq(Message) /\ Carries(ms, r)
  <2>1. Len(r) \in Nat /\ \A k \in 1 .. Len(r) : r[k] \in Stanzas
    BY LenProperties, ElementOfSeq
  <2>2. \A n \in Stanzas : M("stanza", n) \in Message
    BY DEF M, Message, Msg, Stanzas
  <2>3. ms \in [1 .. Len(r) -> Message]
    BY <2>1, <2>2
  <2>4. \A k \in 1 .. Len(r) : ms[k] = M("stanza", r[k])
    OBVIOUS
  <2> HIDE DEF ms
  <2>5. ms \in Seq(Message) /\ Len(ms) = Len(r)
    BY <2>1, <2>3, SeqDef, LenProperties
  <2> QED BY <2>4, <2>5 DEF Carries
<1>5. /\ UNCHANGED <<shut, conns, got>>
      /\ list' = [list EXCEPT ![h] = [list[h] EXCEPT ![i] = e]]
      /\ wire' = Put(Taken(s), b, "toIn", ms)
  BY <1>1, <1>3 DEF dialbackResult
<1> HIDE DEF ms
<1>6. Appended(b, ms)
  <2>1. \A c \in Conns : \/ Put(Taken(s), b, "toIn", ms)[c].toIn = Taken(s)[c].toIn
                         \/ c = b /\ Put(Taken(s), b, "toIn", ms)[c].toIn = Taken(s)[c].toIn \o ms
    BY PutAppends
  <2>2. \A c \in Conns : Taken(s)[c].toIn = wire[c].toIn
    <3>1. Incoming(s) = "toOut"
      BY DEF Incoming
    <3>2. Taken(s) = [wire EXCEPT ![b]["toOut"] = Tail(@)]
      BY <1>1, <3>1 DEF Taken
    <3>3. wire \in Wires
      BY DEF Types
    <3> QED BY <3>2, <3>3 DEF Wires
  <2> QED BY <1>5, <2>1, <2>2 DEF Appended
<1>7. e \in Session /\ e.kind = s.kind /\ e.c = s.c /\ e.st = s.st /\ e.pending = <<>>
  <2> HIDE DEF s
  <2> QED BY <1>2, EmptySeq DEF Activated, Session
<1> HIDE DEF e
<1>8. \A g \in Hosts : list'[g] = IF g = h THEN [list[h] EXCEPT ![i] = e] ELSE list[g]
  BY <1>5 DEF Types
<1>9. Inherits(list[h], list'[h]) /\ Drains(list[h], list'[h])
  <2> DEFINE u == [list[h] EXCEPT ![i] = e]
  <2>1. Inherits(list[h], u) /\ Drains(list[h], u)
    BY <1>2, <1>7, ReplacedInherits
  <2> QED BY <1>8, <2>1
<1>10. \A g \in Hosts : Inherits(list[g], list'[g]) /\ Drains(list[g], list'[g])
  BY <1>8, <1>9, SameList
<1>11. Numbered' /\ \A g \in Hosts, c \in Conns : Fed(g, c)' => Fed(g, c)
  BY <1>5, <1>10, NumberedKept DEF DInv
<1>12. SingleQueue' /\ \A g \in Hosts, c \in Conns, n \in Stanzas : Queued(g, c, n)' => Queued(g, c, n)
  BY <1>10, QueuesKept DEF DInv
<1>13. \A n \in Stanzas : ~Queued(h, b, n)'
  <2> SUFFICES ASSUME NEW n \in Stanzas, Queued(h, b, n)' PROVE FALSE
    OBVIOUS
  <2>1. PICK j \in 1 .. Len(list'[h]) :
          /\ list'[h][j].kind # "in" /\ list'[h][j].c = b
          /\ \E k \in 1 .. Len(list'[h][j].pending) : list'[h][j].pending[k] = n
    BY DEF Queued
  <2> DEFINE u == [list[h] EXCEPT ![i] = e]
  <2>2. Len(u) = Len(list[h]) /\ u[i] = e
    BY <1>2, <1>7, ExceptSeq
  <2>3. list'[h] = u
    BY <1>8
  <2> HIDE DEF u
  <2>4. i \in 1 .. Len(list'[h]) /\ list'[h][i] = e
    BY <2>2, <2>3
  <2>5. j = i
    <3>1. OwnConn(list'[h])
      BY <1>11 DEF Numbered
    <3> QED BY <1>1, <1>7, <2>1, <2>4, <3>1 DEF OwnConn
  <2>6. list'[h][j].pending = <<>>
    BY <1>7, <2>4, <2>5
  <2> QED BY <2>1, <2>6, EmptySeq
<1>14. \A k \in 1 .. Len(r) : r[k] \in Stanzas /\ Queued(h, b, r[k])
  BY <1>1, <1>3, ElementOfSeq DEF Queued
<1>15. OffWire(h, b, r)
  BY <1>14 DEF OffWire, DInv, Apart
<1>16. NoRepeat(r)
  BY <1>3 DEF DInv, SingleQueue
<1>17. /\ SingleWire'
       /\ \A g \in Hosts, c \in Conns, n \in Stanzas :
            OnWire(g, c, n)' => OnWire(g, c, n) \/ (g = h /\ c = b /\ \E k \in 1 .. Len(r) : r[k] = n)
  BY <1>1, <1>4, <1>6, <1>11, <1>15, <1>16, Written
<1>18. Apart'
  <2>1. \A g \in Hosts, c \in Conns, n \in Stanzas : Queued(g, c, n)' => Queued(g, c, n) /\ ~(g = h /\ c = b)
    BY <1>12, <1>13
  <2>2. \A g \in Hosts, c \in Conns, n \in Stanzas :
           OnWire(g, c, n)' => OnWire(g, c, n) \/ (g = h /\ c = b /\ Queued(g, c, n))
    BY <1>14, <1>17
  <2>3. Apart /\ UNCHANGED <<got, sent>>
    BY <1>5 DEF DInv
  <2> QED BY <2>1, <2>2, <2>3, Flush
<1>19. SingleGot'
  BY <1>5 DEF DInv, SingleGot
<1> QED BY <1>11, <1>12, <1>17, <1>18, <1>19 DEF DInv

\* A stanza that was read is not on its wire again.
LEMMA ReadOnce ==
    ASSUME NEW q \in Seq(Message), q # <<>>, OnceOnWire(q), Head(q).t = "stanza"
    PROVE  /\ 1 \in 1 .. Len(q) /\ q[1] = Head(q)
           /\ \A k \in 1 .. Len(Tail(q)) : Tail(q)[k] # Head(q)
<1>1. Len(q) \in Nat
  BY LenProperties
<1>2. 1 \in 1 .. Len(q) /\ q[1] = Head(q)
  BY <1>1
<1>3. \A k \in 1 .. Len(Tail(q)) : k + 1 \in 1 .. Len(q) /\ Tail(q)[k] = q[k + 1] /\ k + 1 # 1
  BY <1>1
<1> QED BY <1>2, <1>3 DEF OnceOnWire

\* A stanza of a validated stream reaches the other host.
LEMMA StanzaKeeps ==
    ASSUME Types, DInv, NEW h \in Hosts, NEW i \in 1 .. Len(list[h]), list[h][i].kind = "in",
           NEW m \in Message, m.t = "stanza", wire[list[h][i].c].toIn # <<>>,
           m = Head(wire[list[h][i].c].toIn), list[h][i].validated, StanzaReceived(h, i, m),
           UNCHANGED sent
    PROVE  DInv'
<1>1. PICK b \in Conns : b = list[h][i].c
  BY OneSession
<1>2. PICK g \in Hosts : g = Peer(h) /\ Peer(g) = h
  BY PeerType, PeerPeer
<1>3. PICK n \in Stanzas : n = m.n
  BY DEF Message
<1>4. UNCHANGED <<list, shut, conns>> /\ wire' = Taken(list[h][i])
      /\ got' = [got EXCEPT ![g] = Append(@, n)]
  BY <1>2, <1>3 DEF StanzaReceived
<1> DEFINE q == wire[b].toIn
<1>5. q \in Seq(Message) /\ Len(q) \in Nat /\ q # <<>> /\ wire \in Wires
  <2>1. wire \in Wires /\ wire[b] \in [toIn : Seq(Message), toOut : Seq(Message)]
    BY DEF Types, Wires
  <2>2. q \in Seq(Message) /\ q # <<>>
    BY <1>1, <2>1
  <2> QED BY <2>1, <2>2, LenProperties
<1>6. wire' = [wire EXCEPT ![b]["toIn"] = Tail(@)]
  BY <1>1, <1>4 DEF Taken, Incoming
<1>7. wire'[b].toIn = Tail(q)
  BY <1>5, <1>6 DEF Wires
<1>8. Thinner(wire, wire')
  BY <1>5, <1>6, ThinnerTail
<1>9. m = M("stanza", n)
  BY <1>3 DEF M, Message, Msg
<1>10. Fed(g, b)
  BY <1>1, <1>2 DEF Fed
<1> HIDE DEF q
<1>11. 1 \in 1 .. Len(q) /\ q[1] = m /\ \A k \in 1 .. Len(Tail(q)) : Tail(q)[k] # m
  <2>1. OnceOnWire(q)
    BY <1>10 DEF DInv, SingleWire, q
  <2>2. m = Head(q)
    BY <1>1 DEF q
  <2> QED BY <1>5, <2>1, <2>2, ReadOnce
<1>12. OnWire(g, b, n)
  BY <1>9, <1>10, <1>11 DEF OnWire, q
<1>13. ~OnWire(g, b, n)'
  BY <1>7, <1>9, <1>11 DEF OnWire
<1>14. \A x \in Hosts : list'[x] = list[x]
  BY <1>4
<1>15. \A x \in Hosts : Inherits(list[x], list'[x]) /\ Drains(list[x], list'[x])
  BY <1>14, SameList
<1>16. Numbered' /\ \A x \in Hosts, c \in Conns : Fed(x, c)' => Fed(x, c)
  BY <1>4, <1>15, NumberedKept DEF DInv
<1>17. SingleQueue' /\ \A x \in Hosts, c \in Conns, k \in Stanzas : Queued(x, c, k)' => Queued(x, c, k)
  BY <1>15, QueuesKept DEF DInv
<1>18. SingleWire' /\ \A x \in Hosts, c \in Conns, k \in Stanzas : OnWire(x, c, k)' => OnWire(x, c, k)
  BY <1>8, <1>16, WiresKept DEF DInv
<1>19. Apart'
  <2>1. \A x \in Hosts, c \in Conns, k \in Stanzas :
           OnWire(x, c, k)' => OnWire(x, c, k) /\ ~(x = g /\ c = b /\ k = n)
    BY <1>13, <1>18
  <2>2. Apart
    BY DEF DInv
  <2>3. \A x \in Hosts : got'[x] = IF x = g THEN Append(got[g], n) ELSE got[x]
    BY <1>4 DEF Types
  <2> QED BY <1>12, <1>17, <2>1, <2>2, <2>3, Take
<1>20. SingleGot'
  <2>1. got[g] \in Seq(Stanzas) /\ Len(got[g]) \in Nat
    BY LenProperties DEF Types
  <2>2. \A x \in Hosts : got'[x] = IF x = g THEN Append(got[g], n) ELSE got[x]
    BY <1>4 DEF Types
  <2>3. ~Took(g, n) /\ NoRepeat(got[g])
    BY <1>12 DEF DInv, Apart, SingleGot
  <2>4. NoRepeat(Append(got[g], n))
    <3> DEFINE p == got[g]
               y == Append(p, n)
    <3>1. Len(y) = Len(p) + 1 /\ \A k \in 1 .. Len(y) :
             IF k = Len(p) + 1 THEN y[k] = n ELSE k \in 1 .. Len(p) /\ y[k] = p[k]
      <4> HIDE DEF p
      <4> QED BY <2>1 DEF p
    <3>2. \A k \in 1 .. Len(p) : p[k] # n
      BY <2>3 DEF Took
    <3> HIDE DEF y
    <3>3. NoRepeat(y)
      BY <2>3, <3>1, <3>2 DEF NoRepeat
    <3> QED BY <3>3 DEF y
  <2> QED BY <2>2, <2>4 DEF DInv, SingleGot
<1> QED BY <1>16, <1>17, <1>18, <1>19, <1>20 DEF DInv

-----------------------------------------------------------------------------
(* The steps.                                                              *)

\* A session reads its next message.
LEMMA ReadThinner ==
    ASSUME Types, NEW h \in Hosts, NEW i \in 1 .. Len(list[h]),
           wire[list[h][i].c][Incoming(list[h][i])] # <<>>
    PROVE  Taken(list[h][i]) \in Wires /\ Thinner(wire, Taken(list[h][i]))
<1>1. list[h][i].c \in Conns /\ Incoming(list[h][i]) \in {"toIn", "toOut"} /\ wire \in Wires
  BY OneSession DEF Types
<1>2. Thinner(wire, Taken(list[h][i]))
  BY <1>1, ThinnerTail DEF Taken
<1> QED BY <1>2, TakenType

\* The accepting side.
LEMMA InKeeps ==
    ASSUME Types, DInv, NEW h \in Hosts, NEW i \in 1 .. Len(list[h]), list[h][i].kind = "in",
           NEW m \in Message, m = Head(wire[list[h][i].c].toIn), wire[list[h][i].c].toIn # <<>>,
           Taken(list[h][i]) \in Wires, Thinner(wire, Taken(list[h][i])), UNCHANGED <<breaks, sent>>,
           \/ InOpen(h, i, m) \/ dialbackRequest(h, i, m) \/ dialbackVerifyRequest(h, i, m)
           \/ StanzaReceived(h, i, m) \/ InGone(h, i, m)
    PROVE  DInv'
<1> DEFINE s == list[h][i]
           w == Taken(s)
<1>1. s.c \in Conns /\ s.c \in Nat
  BY OneSession DEF Conns
<1>2. CASE InOpen(h, i, m)
  <2> DEFINE r == M("open", s.c)
  <2>1. r \in Message /\ r.t # "stanza"
    BY <1>1 DEF M, Message, Msg
  <2>2. wire' = Put(w, s.c, "toOut", <<r>>) /\ list' = [list EXCEPT ![h][i].st = "ready"]
        /\ UNCHANGED <<conns, sent, got>>
    BY <1>2 DEF InOpen
  <2> HIDE DEF r
  <2>3. Thinner(wire, wire')
    BY <2>1, <2>2, AnsweredQuiet
  <2>4. \A g \in Hosts : Inherits(list[g], list'[g]) /\ Drains(list[g], list'[g])
    BY <2>2, StreamState
  <2> QED BY <2>2, <2>3, <2>4, Quiet
<1>3. CASE dialbackRequest(h, i, m)
  BY <1>3, RequestKeeps
<1>4. CASE dialbackVerifyRequest(h, i, m)
  <2> DEFINE r == M("vgrant", IF pendingOutboundSession(h, m.n) THEN 1 ELSE 0)
  <2>1. r \in Message /\ r.t # "stanza"
    BY DEF M, Message, Msg
  <2>2. wire' = Put(w, s.c, "toOut", <<r>>) /\ UNCHANGED <<list, conns, sent, got>>
    BY <1>4 DEF dialbackVerifyRequest
  <2> HIDE DEF r
  <2>3. Thinner(wire, wire')
    BY <2>1, <2>2, AnsweredQuiet
  <2>4. \A g \in Hosts : list'[g] = list[g]
    BY <2>2
  <2>5. \A g \in Hosts : Inherits(list[g], list'[g]) /\ Drains(list[g], list'[g])
    BY <2>4, SameList
  <2> QED BY <2>2, <2>3, <2>5, Quiet
<1>5. CASE StanzaReceived(h, i, m)
  <2>1. CASE s.validated
    BY <1>5, <2>1, StanzaKeeps DEF StanzaReceived
  <2>2. CASE ~s.validated
    <3>1. Done(h, i, w) /\ UNCHANGED <<conns, sent, got>>
      BY <1>5, <2>2 DEF StanzaReceived
    <3> QED BY <3>1, DoneQuiet
  <2> QED BY <2>1, <2>2
<1>6. CASE InGone(h, i, m)
  <2>1. UNCHANGED <<conns, sent, got>>
    BY <1>6 DEF InGone
  <2>2. CASE Done(h, i, w)
    BY <2>1, <2>2, DoneQuiet
  <2>3. CASE list' = [list EXCEPT ![h][i].st = "dead"] /\ CloseEnd(w, s)
    BY <2>1, <2>3, DeadQuiet
  <2> QED BY <1>6, <2>2, <2>3 DEF InGone
<1> QED BY <1>2, <1>3, <1>4, <1>5, <1>6

\* The connecting side.
LEMMA OutKeeps ==
    ASSUME Types, DInv, NEW h \in Hosts, NEW i \in 1 .. Len(list[h]), list[h][i].kind # "in",
           NEW m \in Message, Taken(list[h][i]) \in Wires, Thinner(wire, Taken(list[h][i])),
           UNCHANGED <<breaks, sent>>,
           \/ OutOpen(h, i, m) \/ dialbackResult(h, i, m)
           \/ dialbackVerifyResult(h, i, m) \/ OutGone(h, i, m)
    PROVE  DInv'
<1> DEFINE s == list[h][i]
           w == Taken(s)
<1>1. s \in Session /\ s.c \in Conns /\ s.ver \in Nat /\ list[h] \in Seq(Session) /\ Good(list[h])
  <2>1. s \in Session /\ s.c \in Conns /\ s.ver \in Nat
    BY OneSession DEF Session, Conns
  <2>2. Good(list[h])
    BY OneSession
  <2> QED BY <2>1, <2>2 DEF Good
<1>2. CASE OutOpen(h, i, m)
  <2> DEFINE r == IF s.kind = "verify" THEN M("verify", s.ver) ELSE M("result", 0)
  <2>1. r \in Message /\ r.t # "stanza"
    BY <1>1 DEF M, Message, Msg
  <2>2. wire' = Put(w, s.c, "toIn", <<r>>) /\ list' = [list EXCEPT ![h][i].st = "ready"]
        /\ UNCHANGED <<conns, sent, got>>
    BY <1>2 DEF OutOpen
  <2> HIDE DEF r
  <2>3. Thinner(wire, wire')
    BY <2>1, <2>2, AnsweredQuiet
  <2>4. \A g \in Hosts : Inherits(list[g], list'[g]) /\ Drains(list[g], list'[g])
    BY <2>2, StreamState
  <2> QED BY <2>2, <2>3, <2>4, Quiet
<1>3. CASE dialbackResult(h, i, m)
  <2>1. CASE m.n = 1
    BY <1>3, <2>1, GrantKeeps
  <2>2. CASE m.n # 1
    <3>1. wire' = w /\ UNCHANGED <<list, conns, sent, got>>
      BY <1>3, <2>2 DEF dialbackResult
    <3>2. \A g \in Hosts : list'[g] = list[g]
      BY <3>1
    <3>3. \A g \in Hosts : Inherits(list[g], list'[g]) /\ Drains(list[g], list'[g])
      BY <3>2, SameList
    <3> QED BY <3>1, <3>3, Quiet
  <2> QED BY <2>1, <2>2
<1>4. CASE dialbackVerifyResult(h, i, m)
  <2> DEFINE in == pendingInbound(h, s.ver)
             v == Validated(h, in, m.n)
             x == IF in = {} THEN w ELSE Put(w, s.ver, "toOut", <<M("grant", m.n)>>)
  <2>1. list' = [list EXCEPT ![h] = RemoveAt(v, i)] /\ CloseEnd(x, s) /\ UNCHANGED <<conns, sent, got>>
    BY <1>4 DEF dialbackVerifyResult
  <2>2. v \in Seq(Session) /\ Len(v) = Len(list[h])
    BY <1>1, GoodValidated DEF Good
  <2>3. Inherits(list[h], v) /\ Drains(list[h], v)
    BY <1>1, ValidatedInherits
  <2>4. x \in Wires /\ Thinner(wire, x)
    <3>1. CASE in = {}
      BY <3>1
    <3>2. CASE in # {}
      <4>1. PICK k \in 1 .. Len(list[h]) : list[h][k].c = s.ver
        BY <3>2 DEF pendingInbound
      <4>2. M("grant", m.n) \in Message /\ M("grant", m.n).t # "stanza"
            /\ <<M("grant", m.n)>> \in Seq(Message)
        BY DEF M, Message, Msg
      <4>3. Thinner(wire, Put(w, s.ver, "toOut", <<M("grant", m.n)>>))
        BY <4>1, <4>2, AnsweredQuiet
      <4>4. s.ver \in Conns
        BY <4>1, OneSession
      <4>5. Put(w, s.ver, "toOut", <<M("grant", m.n)>>) \in Wires
        BY <4>2, <4>4, WireType
      <4> QED BY <3>2, <4>3, <4>5
    <3> QED BY <3>1, <3>2
  <2> HIDE DEF v, x
  <2>5. Thinner(wire, wire')
    BY <1>1, <2>1, <2>4, ThinnerClosed, ThinnerTransitive
  <2>6. Inherits(list[h], RemoveAt(v, i)) /\ Drains(list[h], RemoveAt(v, i))
    BY <2>2, <2>3, RemovedInherits, InheritsTransitive
  <2>7. \A g \in Hosts : Inherits(list[g], list'[g]) /\ Drains(list[g], list'[g])
    BY <2>1, <2>6, OneHost
  <2> QED BY <2>1, <2>5, <2>7, Quiet
<1>5. CASE OutGone(h, i, m)
  <2>1. StreamGone(h, i, w) /\ UNCHANGED <<conns, sent, got>>
    BY <1>5 DEF OutGone
  <2> QED BY <2>1, GoneQuiet
<1> QED BY <1>2, <1>3, <1>4, <1>5

\* Nothing is anywhere at the start.
LEMMA InitDelivery == Init => DInv
<1> SUFFICES ASSUME Init PROVE DInv
  OBVIOUS
<1>1. \A h \in Hosts : list[h] = <<>> /\ got[h] = <<>>
  BY DEF Init
<1>2. 1 .. Len(<<>>) = {}
  BY EmptySeq
<1>3. \A h \in Hosts : 1 .. Len(list[h]) = {} /\ 1 .. Len(got[h]) = {}
  BY <1>1, <1>2
<1>4. Numbered /\ SingleQueue /\ SingleGot
  BY <1>3 DEF Numbered, OwnConn, SingleQueue, SingleGot, NoRepeat
<1>5. SingleWire /\ Apart
  BY <1>3, PeerType DEF SingleWire, Apart, Fed, Queued, OnWire, Took
<1> QED BY <1>4, <1>5 DEF DInv

\* Every step keeps each stanza in one place.
LEMMA StepDelivery == Types /\ DInv /\ [Next]_vars => DInv'
<1> SUFFICES ASSUME Types, DInv, [Next]_vars PROVE DInv'
  OBVIOUS
<1>1. ASSUME NEW h \in Hosts, Write(h) PROVE DInv'
  BY <1>1, WriteKeeps
<1>2. ASSUME NEW h \in Hosts, NEW i \in 1 .. Len(list[h]),
             Connected(h, i) \/ ConnectFailed(h, i) \/ Break(h, i)
      PROVE  DInv'
  BY <1>2, ConnectedKeeps, FailedQuiet, BreakQuiet
<1>3. ASSUME NEW h \in Hosts, NEW i \in 1 .. Len(list[h]), Receive(h, i) PROVE DInv'
  <2> DEFINE q == wire[list[h][i].c][Incoming(list[h][i])]
  <2>1. q # <<>> /\ UNCHANGED <<breaks, sent>>
    BY <1>3 DEF Receive
  <2>2. PICK m \in Message : m = Head(q)
    BY <2>1, TakenType
  <2>3. Taken(list[h][i]) \in Wires /\ Thinner(wire, Taken(list[h][i]))
    BY <2>1, ReadThinner
  <2>4. CASE list[h][i].kind = "in"
    <3>1. q = wire[list[h][i].c].toIn
      BY <2>4 DEF Incoming
    <3>2. \/ InOpen(h, i, m) \/ dialbackRequest(h, i, m) \/ dialbackVerifyRequest(h, i, m)
          \/ StanzaReceived(h, i, m) \/ InGone(h, i, m)
      BY <1>3, <2>2, <2>4 DEF Receive
    <3> HIDE DEF q
    <3> QED BY <2>1, <2>2, <2>3, <2>4, <3>1, <3>2, InKeeps
  <2>5. CASE list[h][i].kind # "in"
    <3>1. \/ OutOpen(h, i, m) \/ dialbackResult(h, i, m)
          \/ dialbackVerifyResult(h, i, m) \/ OutGone(h, i, m)
      BY <1>3, <2>2, <2>5 DEF Receive
    <3> QED BY <2>1, <2>2, <2>3, <2>5, <3>1, OutKeeps
  <2> QED BY <2>4, <2>5
<1>4. CASE UNCHANGED vars
  <2>1. \A g \in Hosts : list'[g] = list[g]
    BY <1>4 DEF vars
  <2>2. \A g \in Hosts : Inherits(list[g], list'[g]) /\ Drains(list[g], list'[g])
    BY <2>1, SameList
  <2>3. Thinner(wire, wire')
    BY <1>4 DEF vars, Thinner, Thin
  <2> QED BY <1>4, <2>2, <2>3, Quiet DEF vars
<1> QED BY <1>1, <1>2, <1>3, <1>4 DEF Next

\* The other host takes no stanza twice, whatever breaks between the dialback
\* result, the flush and the stanzas written after it.
THEOREM DeliveredOnce == Spec => []NoDuplicates
<1>1. ASSUME DInv PROVE NoDuplicates
  BY <1>1 DEF DInv, SingleGot, NoRepeat, NoDuplicates
<1>2. Spec => []DInv
  BY InitDelivery, StepDelivery, Reachable, PTL DEF Spec
<1> QED BY <1>1, <1>2, PTL
=============================================================================
