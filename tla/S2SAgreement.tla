---------------------------- MODULE S2SAgreement ----------------------------
(***************************************************************************)
(* The two ends of a connection agree on the dialback result, for every    *)
(* number of stanzas, connections and failures: who writes through is      *)
(* validated at the other end, and who is validated there was granted.     *)
(* The sessions of a host and what is on its way in one direction are seen *)
(* as sets: neither the order of a list nor that of a wire matters here.   *)
(*                                                                         *)
(* And the sessions of two hosts implement the reliable link, step by      *)
(* step: with one sending host, for every number of stanzas and            *)
(* connections and until a connection fails, the other host takes the      *)
(* stanzas in the order they were sent, each once, and skips none.         *)
(***************************************************************************)
EXTENDS S2SProofs

Sessions(h) == ToSet(list[h])
Way(w, c, dir) == ToSet(w[c][dir])

\* What the sessions of host h are to connection c.
Accepts(h, c) == \E s \in Sessions(h) : s.kind = "in" /\ s.c = c
Unproven(h, c) == \E s \in Sessions(h) : s.kind = "in" /\ s.c = c /\ ~s.validated
Proven(h, c) == \E s \in Sessions(h) : s.kind = "in" /\ s.c = c /\ s.validated
Dials(h, c) == \E s \in Sessions(h) : s.kind # "in" /\ s.c = c /\ s.st = "connecting"
Verifies(h, c) == \E s \in Sessions(h) : s.kind = "verify" /\ s.c = c
AsksAbout(h, c) == \E s \in Sessions(h) : s.kind # "in" /\ s.ver = c
Live(h, c) == \E s \in Sessions(h) : s.kind # "in" /\ s.c = c /\ s.active
LiveOut(h, c) == \E s \in Sessions(h) : s.kind = "out" /\ s.c = c /\ s.active

\* What is on its way on connection c.
Granted(c) == M("grant", 1) \in Way(wire, c, "toOut")
Ending(c) == \E m \in Way(wire, c, "toOut") : m.t \in {"close", "reset"}
Requested(c) == \E m \in Way(wire, c, "toIn") : m.t = "result"

\* One host at most accepts a connection, and only after it was dialled; until
\* then, and before the connection has its number, nothing comes back on it.
OneAcceptor == \A g, h \in Hosts, c \in Conns : Accepts(g, c) /\ Accepts(h, c) => g = h
DialledIsNew ==
    \A g, h \in Hosts, c \in Conns :
        Dials(g, c) => ~Live(h, c) /\ ~Accepts(h, c) /\ Way(wire, c, "toOut") = {}
NumbersAreNew == \A c \in Conns : c > conns => Way(wire, c, "toOut") = {}

\* Who is granted, or writes through, is validated by the acceptor.
GrantedIsProven == \A h \in Hosts, c \in Conns : Granted(c) => ~Unproven(h, c)
LiveIsProven == \A g, h \in Hosts, c \in Conns : Live(g, c) => ~Unproven(h, c)

\* Nothing but an outbound session asks for dialback, so no verify session is
\* asked about or validated.
OutboundAsks ==
    \A g, h \in Hosts, c \in Conns :
        Requested(c) \/ AsksAbout(g, c) \/ Proven(g, c) => c <= conns /\ ~Verifies(h, c)

\* Who is validated is told, unless the connection ends first.
ProvenIsTold ==
    \A h \in Hosts, c \in Conns :
        Proven(Peer(h), c) => <<c, "toOut">> \in shut \/ Granted(c) \/ Ending(c) \/ LiveOut(h, c)

AInv ==
    /\ OneAcceptor /\ DialledIsNew /\ NumbersAreNew /\ GrantedIsProven /\ LiveIsProven
    /\ OutboundAsks /\ ProvenIsTold

-----------------------------------------------------------------------------
(* Sequences as sets.                                                      *)

\* The elements of a sequence, one by one.
LEMMA SetOf ==
    ASSUME NEW S, NEW q \in Seq(S)
    PROVE  /\ ToSet(q) \subseteq S /\ (ToSet(q) = {} => q = <<>>)
           /\ \A k \in 1 .. Len(q) : q[k] \in ToSet(q)
           /\ \A x \in ToSet(q) : \E k \in 1 .. Len(q) : q[k] = x
<1>1. DOMAIN q = 1 .. Len(q) /\ Len(q) \in Nat /\ \A k \in 1 .. Len(q) : q[k] \in S
  BY LenProperties, ElementOfSeq
<1>2. ToSet(q) = {q[k] : k \in 1 .. Len(q)}
  BY <1>1 DEF ToSet
<1>3. Len(q) # 0 => 1 \in 1 .. Len(q)
  BY <1>1
<1>4. ToSet(q) = {} => q = <<>>
  BY <1>2, <1>3, EmptySeq
<1> QED BY <1>1, <1>2, <1>4

\* No element, one, and those of two sequences.
LEMMA SetJoined ==
    ASSUME NEW S, NEW p \in Seq(S), NEW q \in Seq(S)
    PROVE  ToSet(p \o q) = ToSet(p) \cup ToSet(q)
<1> DEFINE r == p \o q
<1>1. r \in Seq(S) /\ Len(p) \in Nat /\ Len(q) \in Nat /\ Len(r) = Len(p) + Len(q)
      /\ \A k \in 1 .. Len(p) + Len(q) : r[k] = IF k <= Len(p) THEN p[k] ELSE q[k - Len(p)]
  BY ConcatProperties, LenProperties
<1> HIDE DEF r
<1>2. \A x \in ToSet(r) : x \in ToSet(p) \/ x \in ToSet(q)
  <2> TAKE x \in ToSet(r)
  <2>1. PICK k \in 1 .. Len(r) : r[k] = x
    BY <1>1, SetOf
  <2>2. k <= Len(p) => k \in 1 .. Len(p) /\ x = p[k]
    BY <1>1, <2>1
  <2>3. ~(k <= Len(p)) => k - Len(p) \in 1 .. Len(q) /\ x = q[k - Len(p)]
    BY <1>1, <2>1
  <2> QED BY <2>2, <2>3, SetOf
<1>3. ASSUME NEW x \in ToSet(p) PROVE x \in ToSet(r)
  <2>1. PICK k \in 1 .. Len(p) : p[k] = x
    BY SetOf
  <2>2. k \in 1 .. Len(r) /\ r[k] = x
    BY <1>1, <2>1
  <2> QED BY <1>1, <2>2, SetOf
<1>4. ASSUME NEW x \in ToSet(q) PROVE x \in ToSet(r)
  <2>1. PICK k \in 1 .. Len(q) : q[k] = x
    BY SetOf
  <2> DEFINE n == Len(p) + k
  <2>2. n \in 1 .. Len(r) /\ ~(n <= Len(p)) /\ n - Len(p) = k
    BY <1>1
  <2> HIDE DEF n
  <2>3. r[n] = x
    BY <1>1, <2>1, <2>2
  <2> QED BY <1>1, <2>2, <2>3, SetOf
<1> QED BY <1>2, <1>3, <1>4 DEF r

\* The elements of sequences of no and of one element.
LEMMA SetSmall == ToSet(<<>>) = {} /\ \A x : ToSet(<<x>>) = {x}
<1>1. ToSet(<<>>) = {}
  BY DEF ToSet
<1>2. ASSUME NEW x PROVE ToSet(<<x>>) = {x}
  BY DEF ToSet
<1> QED BY <1>1, <1>2

\* The first element leaves.
LEMMA SetTail ==
    ASSUME NEW S, NEW q \in Seq(S), q # <<>>
    PROVE  ToSet(q) = ToSet(Tail(q)) \cup {Head(q)}
<1> DEFINE r == Tail(q)
<1>1. Len(q) \in Nat /\ Len(q) # 0 /\ r \in Seq(S) /\ Len(r) = Len(q) - 1 /\ Head(q) = q[1]
      /\ \A k \in 1 .. Len(q) - 1 : r[k] = q[k + 1]
  BY EmptySeq, LenProperties, HeadTailProperties
<1> HIDE DEF r
<1>2. ASSUME NEW x \in ToSet(q) PROVE x \in ToSet(r) \/ x = Head(q)
  <2>1. PICK k \in 1 .. Len(q) : q[k] = x
    BY SetOf
  <2>2. k # 1 => k - 1 \in 1 .. Len(r) /\ r[k - 1] = x
    BY <1>1, <2>1
  <2> QED BY <1>1, <2>1, <2>2, SetOf
<1>3. ASSUME NEW x \in ToSet(r) PROVE x \in ToSet(q)
  <2>1. PICK k \in 1 .. Len(r) : r[k] = x
    BY <1>1, SetOf
  <2>2. k + 1 \in 1 .. Len(q) /\ q[k + 1] = x
    BY <1>1, <2>1
  <2> QED BY <2>2, SetOf
<1>4. Head(q) \in ToSet(q)
  <2>1. 1 \in 1 .. Len(q)
    BY <1>1
  <2> QED BY <1>1, <2>1, SetOf
<1> QED BY <1>2, <1>3, <1>4 DEF r

\* One element is replaced.
LEMMA SetReplaced ==
    ASSUME NEW S, NEW q \in Seq(S), NEW i \in 1 .. Len(q), NEW e \in S
    PROVE  /\ ToSet([q EXCEPT ![i] = e]) \subseteq ToSet(q) \cup {e}
           /\ ToSet(q) \subseteq ToSet([q EXCEPT ![i] = e]) \cup {q[i]}
           /\ e \in ToSet([q EXCEPT ![i] = e])
<1> DEFINE r == [q EXCEPT ![i] = e]
<1>1. r \in Seq(S) /\ Len(r) = Len(q) /\ \A j \in 1 .. Len(q) : r[j] = IF j = i THEN e ELSE q[j]
  BY ExceptSeq
<1> HIDE DEF r
<1>2. ToSet(r) \subseteq ToSet(q) \cup {e}
  BY <1>1, SetOf
<1>3. ToSet(q) \subseteq ToSet(r) \cup {q[i]}
  BY <1>1, SetOf
<1>4. e \in ToSet(r)
  BY <1>1, SetOf
<1> QED BY <1>2, <1>3, <1>4 DEF r

\* One element is taken out.
LEMMA SetRemoved ==
    ASSUME NEW S, NEW q \in Seq(S), NEW i \in 1 .. Len(q)
    PROVE  /\ ToSet(RemoveAt(q, i)) \subseteq ToSet(q)
           /\ ToSet(q) \subseteq ToSet(RemoveAt(q, i)) \cup {q[i]}
<1> DEFINE r == RemoveAt(q, i)
<1>1. r \in Seq(S) /\ Len(r) = Len(q) - 1 /\ Len(q) \in Nat
      /\ \A k \in 1 .. Len(q) - 1 : r[k] = IF k < i THEN q[k] ELSE q[k + 1]
  BY RemoveAtType, LenProperties
<1> HIDE DEF r
<1>2. ASSUME NEW x \in ToSet(r) PROVE x \in ToSet(q)
  <2>1. PICK k \in 1 .. Len(r) : r[k] = x
    BY <1>1, SetOf
  <2>2. k \in 1 .. Len(q) /\ k + 1 \in 1 .. Len(q) /\ (x = q[k] \/ x = q[k + 1])
    BY <1>1, <2>1
  <2> QED BY <2>2, SetOf
<1>3. ASSUME NEW x \in ToSet(q) PROVE x \in ToSet(r) \/ x = q[i]
  <2>1. PICK k \in 1 .. Len(q) : q[k] = x
    BY SetOf
  <2>2. k < i => k \in 1 .. Len(r) /\ r[k] = x
    BY <1>1, <2>1
  <2>3. k > i => k - 1 \in 1 .. Len(r) /\ r[k - 1] = x
    BY <1>1, <2>1
  <2> QED BY <1>1, <2>1, <2>2, <2>3, SetOf
<1> QED BY <1>2, <1>3 DEF r

-----------------------------------------------------------------------------
(* The wires as sets.                                                      *)

Directions == {"toIn", "toOut"}
With(w, b, dir, x) == [w EXCEPT ![b][dir] = x]

\* One direction of a connection changes.
LEMMA WaySet ==
    ASSUME NEW w \in Wires, NEW b \in Conns, NEW dir \in Directions, NEW x \in Seq(Message)
    PROVE  \A c \in Conns, d \in Directions :
              Way(With(w, b, dir, x), c, d) = IF c = b /\ d = dir THEN ToSet(x) ELSE Way(w, c, d)
<1> DEFINE v == With(w, b, dir, x)
<1>1. \A c \in Conns : v[c] = IF c = b THEN [w[b] EXCEPT ![dir] = x] ELSE w[c]
  BY DEF Wires, With
<1>2. \A d \in Directions : [w[b] EXCEPT ![dir] = x][d] = IF d = dir THEN x ELSE w[b][d]
  BY DEF Wires, Directions
<1>3. \A c \in Conns, d \in Directions : v[c][d] = IF c = b /\ d = dir THEN x ELSE w[c][d]
  BY <1>1, <1>2
<1> QED BY <1>3 DEF Way

\* v is w with the messages of x written, unless their reader closed.
Adds(w, v, b, dir, x) ==
    \A c \in Conns, d \in Directions :
        Way(v, c, d) = IF c = b /\ d = dir /\ <<b, dir>> \notin shut THEN Way(w, c, d) \cup x
                       ELSE Way(w, c, d)

\* Messages are written.
LEMMA WayPut ==
    ASSUME NEW w \in Wires, NEW b \in Conns, NEW dir \in Directions, NEW ms \in Seq(Message)
    PROVE  Adds(w, Put(w, b, dir, ms), b, dir, ToSet(ms))
<1>1. CASE <<b, dir>> \in shut
  BY <1>1 DEF Put, Adds
<1>2. CASE <<b, dir>> \notin shut
  <2> DEFINE q == w[b][dir]
             x == q \o ms
  <2>1. q \in Seq(Message)
    BY WireType DEF Directions
  <2> HIDE DEF q
  <2>2. x \in Seq(Message) /\ ToSet(x) = ToSet(q) \cup ToSet(ms)
    BY <2>1, SetJoined, ConcatProperties
  <2>3. Put(w, b, dir, ms) = With(w, b, dir, x)
    BY <1>2 DEF Put, q, With
  <2> HIDE DEF x
  <2>4. \A c \in Conns, d \in Directions :
           Way(With(w, b, dir, x), c, d) = IF c = b /\ d = dir THEN ToSet(x) ELSE Way(w, c, d)
    BY <2>2, WaySet
  <2> QED BY <1>2, <2>2, <2>3, <2>4 DEF Way, q, Adds
<1> QED BY <1>1, <1>2

\* One message is written.
LEMMA WaySent ==
    ASSUME NEW w \in Wires, NEW b \in Conns, NEW dir \in Directions, NEW m \in Message
    PROVE  /\ Put(w, b, dir, <<m>>) \in Wires
           /\ Adds(w, Put(w, b, dir, <<m>>), b, dir, {m})
<1> DEFINE ms == <<m>>
<1>1. ms \in Seq(Message) /\ ToSet(ms) = {m}
  BY SetSmall
<1> HIDE DEF ms
<1>2. Put(w, b, dir, ms) \in Wires
  BY <1>1, WireType DEF Directions
<1>3. Adds(w, Put(w, b, dir, ms), b, dir, ToSet(ms))
  BY <1>1, WayPut
<1> QED BY <1>1, <1>2, <1>3 DEF ms

\* A session reads the first message of its wire.
LEMMA WayTaken ==
    ASSUME Types, NEW h \in Hosts, NEW i \in 1 .. Len(list[h]),
           wire[list[h][i].c][Incoming(list[h][i])] # <<>>
    PROVE  /\ Taken(list[h][i]) \in Wires
           /\ \A c \in Conns, d \in Directions :
                /\ Way(Taken(list[h][i]), c, d) \subseteq Way(wire, c, d)
                /\ ~(c = list[h][i].c /\ d = Incoming(list[h][i]))
                     => Way(Taken(list[h][i]), c, d) = Way(wire, c, d)
                /\ \A m \in Way(wire, c, d) :
                     m \in Way(Taken(list[h][i]), c, d)
                     \/ m = Head(wire[list[h][i].c][Incoming(list[h][i])])
           /\ Head(wire[list[h][i].c][Incoming(list[h][i])])
                \in Way(wire, list[h][i].c, Incoming(list[h][i]))
<1> DEFINE s == list[h][i]
           q == wire[s.c][Incoming(s)]
           x == Tail(q)
<1>1. s.c \in Conns /\ Incoming(s) \in Directions /\ wire \in Wires
  BY OneSession DEF Types, Directions
<1>2. q \in Seq(Message) /\ q # <<>>
  BY <1>1, WireType DEF Directions
<1>3. Taken(s) \in Wires
  BY TakenType
<1>4. Taken(s) = With(wire, s.c, Incoming(s), x)
  BY DEF Taken, With
<1> HIDE DEF q
<1>5. x \in Seq(Message) /\ ToSet(q) = ToSet(x) \cup {Head(q)}
  BY <1>2, SetTail, HeadTailProperties
<1> HIDE DEF x
<1>6. \A c \in Conns, d \in Directions :
         Way(With(wire, s.c, Incoming(s), x), c, d) =
           IF c = s.c /\ d = Incoming(s) THEN ToSet(x) ELSE Way(wire, c, d)
  BY <1>1, <1>5, WaySet
<1>7. Way(wire, s.c, Incoming(s)) = ToSet(q)
  BY DEF Way, q
<1> QED BY <1>3, <1>4, <1>5, <1>6, <1>7 DEF q

\* An end closes: what was on its way to it is gone, the other end gets to know.
LEMMA WayClosed ==
    ASSUME NEW s \in Session, NEW w \in Wires, CloseEnd(w, s)
    PROVE  /\ shut' = shut \cup {<<s.c, Incoming(s)>>}
           /\ \A c \in Conns, d \in Directions :
                Way(wire', c, d) =
                  IF c # s.c THEN Way(w, c, d)
                  ELSE IF d = Incoming(s) THEN {}
                  ELSE IF <<c, d>> \in shut THEN Way(w, c, d) ELSE Way(w, c, d) \cup {M("close", 0)}
<1> DEFINE m == M("close", 0)
           v == Put(w, s.c, Back(Incoming(s)), <<m>>)
           none == <<>>
<1>1. s.c \in Conns /\ Incoming(s) \in Directions /\ Back(Incoming(s)) \in Directions
  BY DEF Session, Incoming, Back, Directions
<1>8. \A d \in Directions : d # Incoming(s) <=> d = Back(Incoming(s))
  BY DEF Incoming, Back, Directions
<1>2. m \in Message
  BY DEF M, Msg, Message
<1>3. wire' = With(v, s.c, Incoming(s), none) /\ shut' = shut \cup {<<s.c, Incoming(s)>>}
  BY DEF CloseEnd, With
<1> HIDE DEF m
<1>4. v \in Wires
  BY <1>1, <1>2, WaySent
<1>7. \A c \in Conns, d \in Directions :
         Way(v, c, d) =
           IF c = s.c /\ d = Back(Incoming(s)) /\ <<s.c, Back(Incoming(s))>> \notin shut
           THEN Way(w, c, d) \cup {m} ELSE Way(w, c, d)
  <2>1. Adds(w, v, s.c, Back(Incoming(s)), {m})
    BY <1>1, <1>2, WaySent
  <2> QED BY <2>1 DEF Adds
<1> HIDE DEF v
<1>5. none \in Seq(Message) /\ ToSet(none) = {}
  BY SetSmall
<1> HIDE DEF none
<1>9. PICK b \in Conns, dir \in Directions : b = s.c /\ dir = Incoming(s)
  BY <1>1
<1>6. \A c \in Conns, d \in Directions :
         Way(With(v, b, dir, none), c, d) = IF c = b /\ d = dir THEN ToSet(none) ELSE Way(v, c, d)
  BY <1>4, <1>5, WaySet
<1> QED BY <1>1, <1>8, <1>3, <1>9, <1>7, <1>5, <1>6, ZenonT(60) DEF m

-----------------------------------------------------------------------------
(* The sessions as sets.                                                   *)

\* A connection belongs to the session that dialled it, of one host.
Dialled ==
    /\ \A h \in Hosts : \A s \in Sessions(h) :
          s \in Session /\ s.c \in Conns /\ s.c <= conns /\ (s.st = "connecting" => s.kind # "in")
    /\ \A g, h \in Hosts : \A r \in Sessions(g), s \in Sessions(h) :
          r.kind # "in" /\ r.c = s.c => (g = h => r = s) /\ (g # h => s.kind = "in")

\* The sessions of a host are those of its list.
LEMMA ListSet ==
    ASSUME Types, NEW h \in Hosts
    PROVE  /\ list[h] \in Seq(Session) /\ Sessions(h) \subseteq Session
           /\ \A i \in 1 .. Len(list[h]) : list[h][i] \in Sessions(h)
           /\ \A s \in Sessions(h) : \E i \in 1 .. Len(list[h]) : list[h][i] = s
<1>1. list[h] \in Seq(Session)
  BY DEF Types
<1> QED BY <1>1, SetOf DEF Sessions

\* What the numbers of the sessions say of the sets.
LEMMA NumberedSets == Types /\ Numbered => Dialled
<1> SUFFICES ASSUME Types, Numbered PROVE Dialled
  OBVIOUS
<1>1. \A h \in Hosts : \A s \in Sessions(h) :
         s \in Session /\ \E i \in 1 .. Len(list[h]) : list[h][i] = s
  BY ListSet
<1>2. \A s \in Session : s.c \in Conns
  BY DEF Session
<1>3. \A h \in Hosts : \A s \in Sessions(h) :
         s \in Session /\ s.c \in Conns /\ s.c <= conns /\ (s.st = "connecting" => s.kind # "in")
  BY <1>1, <1>2 DEF Numbered
<1>4. ASSUME NEW g \in Hosts, NEW h \in Hosts, NEW r \in Sessions(g), NEW s \in Sessions(h),
             r.kind # "in", r.c = s.c
      PROVE  (g = h => r = s) /\ (g # h => s.kind = "in")
  <2>1. PICK i \in 1 .. Len(list[g]) : list[g][i] = r
    BY <1>1
  <2>2. PICK j \in 1 .. Len(list[h]) : list[h][j] = s
    BY <1>1
  <2>3. g = h => r = s
    BY <1>4, <2>1, <2>2 DEF Numbered, OwnConn
  <2>4. g # h => s.kind = "in"
    BY <1>4, <2>1, <2>2 DEF Numbered
  <2> QED BY <2>3, <2>4
<1> QED BY <1>3, <1>4 DEF Dialled

\* m has no session that l does not have, but for its stream and its queue.
Alike(r, s) ==
    /\ r.kind = s.kind /\ r.c = s.c /\ r.ver = s.ver /\ r.active = s.active
    /\ r.validated = s.validated /\ (s.st = "connecting" => r.st = "connecting")
Descends(l, m) == \A s \in ToSet(m) : \E r \in ToSet(l) : Alike(r, s)

\* No session of a host becomes something it was not.
LEMMA DescendsSets ==
    ASSUME NEW h \in Hosts, NEW c \in Conns, Descends(list[h], list'[h])
    PROVE  /\ Accepts(h, c)' => Accepts(h, c)
           /\ Unproven(h, c)' => Unproven(h, c)
           /\ Proven(h, c)' => Proven(h, c)
           /\ Dials(h, c)' => Dials(h, c)
           /\ Verifies(h, c)' => Verifies(h, c)
           /\ AsksAbout(h, c)' => AsksAbout(h, c)
           /\ Live(h, c)' => Live(h, c)
<1>1. \A s \in Sessions(h)' : \E r \in Sessions(h) : Alike(r, s)
  BY DEF Descends, Sessions
<1>2. Accepts(h, c)' => Accepts(h, c)
  BY <1>1 DEF Accepts, Alike
<1>3. Unproven(h, c)' => Unproven(h, c)
  BY <1>1 DEF Unproven, Alike
<1>4. Proven(h, c)' => Proven(h, c)
  BY <1>1 DEF Proven, Alike
<1>5. Dials(h, c)' => Dials(h, c)
  BY <1>1 DEF Dials, Alike
<1>6. Verifies(h, c)' => Verifies(h, c)
  BY <1>1 DEF Verifies, Alike
<1>7. AsksAbout(h, c)' => AsksAbout(h, c)
  BY <1>1 DEF AsksAbout, Alike
<1>8. Live(h, c)' => Live(h, c)
  BY <1>1 DEF Live, Alike
<1> QED BY <1>2, <1>3, <1>4, <1>5, <1>6, <1>7, <1>8

\* A step that brings no news: nothing is granted, asked or answered that was
\* not, and what ends a connection, grants it or was granted stays or is cut.
Calm ==
    \A c \in Conns :
        /\ Granted(c)' => Granted(c)
        /\ Requested(c)' => Requested(c) \/ (c <= conns /\ \A h \in Hosts : ~Verifies(h, c))
        /\ Way(wire, c, "toOut")' # {} =>
              Way(wire, c, "toOut") # {} \/ (c <= conns /\ \A g \in Hosts : ~Dials(g, c))
        /\ Granted(c) \/ Ending(c) => Granted(c)' \/ Ending(c)' \/ <<c, "toOut">> \in shut'
Faithful == \A h \in Hosts, c \in Conns : LiveOut(h, c) => LiveOut(h, c)' \/ <<c, "toOut">> \in shut'

\* Such a step keeps the agreement.
LEMMA CalmKeeps ==
    ASSUME Types, AInv, UNCHANGED conns, shut \subseteq shut', Calm, Faithful,
           \A h \in Hosts : Descends(list[h], list'[h])
    PROVE  AInv'
<1>1. \A h \in Hosts, c \in Conns :
         /\ Accepts(h, c)' => Accepts(h, c)
         /\ Unproven(h, c)' => Unproven(h, c)
         /\ Proven(h, c)' => Proven(h, c)
         /\ Dials(h, c)' => Dials(h, c)
         /\ Verifies(h, c)' => Verifies(h, c)
         /\ AsksAbout(h, c)' => AsksAbout(h, c)
         /\ Live(h, c)' => Live(h, c)
  BY DescendsSets
<1>2. OneAcceptor'
  BY <1>1 DEF AInv, OneAcceptor
<1>3. DialledIsNew'
  BY <1>1 DEF AInv, DialledIsNew, Calm
<1>4. NumbersAreNew'
  <2>1. \A c \in Conns : c > conns => ~(c <= conns)
    BY DEF Types, Conns
  <2> QED BY <2>1 DEF AInv, NumbersAreNew, Calm
<1>5. GrantedIsProven'
  BY <1>1 DEF AInv, GrantedIsProven, Calm
<1>6. LiveIsProven'
  BY <1>1 DEF AInv, LiveIsProven
<1>7. OutboundAsks'
  BY <1>1 DEF AInv, OutboundAsks, Calm
<1>8. ProvenIsTold'
  <2>1. \A h \in Hosts : Peer(h) \in Hosts
    BY PeerType
  <2>2. \A h \in Hosts, c \in Conns : Proven(Peer(h), c)' => Proven(Peer(h), c)
    BY <1>1, <2>1
  <2> QED BY <2>2 DEF AInv, ProvenIsTold, Calm, Faithful
<1> QED BY <1>2, <1>3, <1>4, <1>5, <1>6, <1>7, <1>8 DEF AInv

-----------------------------------------------------------------------------
(* The list of one host changes.                                           *)

\* A list that did not change, or changed at one host.
LEMMA DescendsHost ==
    ASSUME Types, NEW h \in Hosts, NEW l, Descends(list[h], l), list' = [list EXCEPT ![h] = l]
    PROVE  \A g \in Hosts : Descends(list[g], list'[g])
<1>1. \A g \in Hosts : list'[g] = IF g = h THEN l ELSE list[g]
  BY DEF Types
<1>2. \A k : Descends(k, k)
  BY DEF Descends, Alike
<1> QED BY <1>1, <1>2

\* Only what is gone from one list writes through no more.
LEMMA LiveHost ==
    ASSUME Types, NEW h \in Hosts, NEW l, NEW r, NEW s \in ToSet(l),
           list' = [list EXCEPT ![h] = l], ToSet(list[h]) \subseteq ToSet(l) \cup {r},
           Alike(r, s)
    PROVE  \A g \in Hosts, c \in Conns : LiveOut(g, c) => LiveOut(g, c)'
<1>1. \A g \in Hosts : list'[g] = IF g = h THEN l ELSE list[g]
  BY DEF Types
<1>2. SUFFICES ASSUME NEW g \in Hosts, NEW c \in Conns, LiveOut(g, c) PROVE LiveOut(g, c)'
  OBVIOUS
<1>3. PICK t \in ToSet(list[g]) : t.kind = "out" /\ t.c = c /\ t.active
  BY <1>2 DEF LiveOut, Sessions
<1>4. CASE g # h
  BY <1>1, <1>3, <1>4 DEF LiveOut, Sessions
<1>5. CASE g = h
  <2>1. t \in ToSet(l) \/ t = r
    BY <1>3, <1>5
  <2>2. \E u \in ToSet(l) : u.kind = "out" /\ u.c = c /\ u.active
    BY <1>3, <2>1 DEF Alike
  <2> QED BY <1>1, <1>5, <2>2 DEF LiveOut, Sessions
<1> QED BY <1>4, <1>5

\* One session is replaced by one that differs in its stream or queue.
LEMMA ReplacedCalm ==
    ASSUME Types, NEW h \in Hosts, NEW i \in 1 .. Len(list[h]), NEW e \in Session,
           Alike(list[h][i], e), list' = [list EXCEPT ![h] = [list[h] EXCEPT ![i] = e]]
    PROVE  /\ \A g \in Hosts : Descends(list[g], list'[g])
           /\ \A g \in Hosts, c \in Conns : LiveOut(g, c) => LiveOut(g, c)'
<1> DEFINE q == list[h]
           l == [q EXCEPT ![i] = e]
<1>1. q \in Seq(Session) /\ q[i] \in ToSet(q)
  BY ListSet DEF Sessions
<1>2. list' = [list EXCEPT ![h] = l]
  OBVIOUS
<1> HIDE DEF q
<1>3. /\ ToSet(l) \subseteq ToSet(q) \cup {e}
      /\ ToSet(q) \subseteq ToSet(l) \cup {q[i]}
      /\ e \in ToSet(l)
  BY <1>1, SetReplaced DEF q
<1> HIDE DEF l
<1>4. Descends(q, l)
  BY <1>1, <1>3 DEF Descends, Alike, q
<1>5. \A g \in Hosts : Descends(list[g], list'[g])
  BY <1>2, <1>4, DescendsHost DEF q
<1>6. \A g \in Hosts, c \in Conns : LiveOut(g, c) => LiveOut(g, c)'
  BY <1>2, <1>3, LiveHost DEF q
<1> QED BY <1>5, <1>6

\* The state of one stream changes.
LEMMA StreamCalm ==
    ASSUME Types, NEW h \in Hosts, NEW i \in 1 .. Len(list[h]),
           NEW st \in {"opening", "ready", "dead"},
           list' = [list EXCEPT ![h][i].st = st]
    PROVE  /\ \A g \in Hosts : Descends(list[g], list'[g])
           /\ \A g \in Hosts, c \in Conns : LiveOut(g, c) => LiveOut(g, c)'
<1> DEFINE s == list[h][i]
           e == [s EXCEPT !.st = st]
<1>1. s \in Session
  BY OneSession
<1>2. e \in Session /\ Alike(s, e)
  <2> HIDE DEF s
  <2> QED BY <1>1 DEF Session, Alike
<1>3. list' = [list EXCEPT ![h] = [list[h] EXCEPT ![i] = e]]
  OBVIOUS
<1> HIDE DEF e
<1> QED BY <1>2, <1>3, ReplacedCalm

\* A session leaves its list.
LEMMA RemovedCalm ==
    ASSUME Types, NEW h \in Hosts, NEW i \in 1 .. Len(list[h]),
           list' = [list EXCEPT ![h] = RemoveAt(list[h], i)]
    PROVE  /\ \A g \in Hosts : Descends(list[g], list'[g])
           /\ \A g \in Hosts, c \in Conns :
                LiveOut(g, c) => LiveOut(g, c)' \/ (list[h][i].kind = "out" /\ list[h][i].c = c)
<1> DEFINE l == RemoveAt(list[h], i)
<1>1. ToSet(l) \subseteq ToSet(list[h]) /\ ToSet(list[h]) \subseteq ToSet(l) \cup {list[h][i]}
  BY ListSet, SetRemoved
<1> HIDE DEF l
<1>2. Descends(list[h], l)
  BY <1>1 DEF Descends, Alike
<1>3. list' = [list EXCEPT ![h] = l]
  BY DEF l
<1>4. \A g \in Hosts : Descends(list[g], list'[g])
  BY <1>2, <1>3, DescendsHost
<1>5. \A g \in Hosts : list'[g] = IF g = h THEN l ELSE list[g]
  BY <1>3 DEF Types
<1>6. ASSUME NEW g \in Hosts, NEW c \in Conns, LiveOut(g, c)
      PROVE  LiveOut(g, c)' \/ (list[h][i].kind = "out" /\ list[h][i].c = c)
  <2>1. PICK t \in ToSet(list[g]) : t.kind = "out" /\ t.c = c /\ t.active
    BY <1>6 DEF LiveOut, Sessions
  <2>2. t \in ToSet(list'[g]) \/ t = list[h][i]
    BY <1>1, <1>5, <2>1
  <2> QED BY <2>1, <2>2 DEF LiveOut, Sessions
<1> QED BY <1>4, <1>6

-----------------------------------------------------------------------------
(* Steps without news.                                                     *)

\* An acceptor of connection b reads and answers, or closes its end; a session
\* that dialled reads, writes what is no request, or closes its end.
AcceptorActs(b) ==
    \A c \in Conns :
        /\ Way(wire', c, "toIn") \subseteq Way(wire, c, "toIn")
        /\ Way(wire, c, "toOut") \subseteq Way(wire', c, "toOut")
        /\ \A m \in Way(wire', c, "toOut") :
              m \in Way(wire, c, "toOut") \/ (c = b /\ m.t # "grant")
DiallerActs ==
    \A c \in Conns :
        /\ Way(wire', c, "toOut") \subseteq Way(wire, c, "toOut")
        /\ \A m \in Way(wire', c, "toIn") : m \in Way(wire, c, "toIn") \/ m.t # "result"
        /\ \A m \in Way(wire, c, "toOut") :
              \/ m \in Way(wire', c, "toOut") \/ <<c, "toOut">> \in shut'
              \/ m # M("grant", 1) /\ m.t \notin {"close", "reset"}

\* Nobody dials a connection that is accepted.
LEMMA AcceptedNotDialled ==
    ASSUME Types, Numbered, AInv, NEW h \in Hosts, NEW s \in Sessions(h), s.kind = "in"
    PROVE  s.c \in Conns /\ s.c <= conns /\ \A g \in Hosts : ~Dials(g, s.c)
<1>1. s.c \in Conns /\ s.c <= conns
  BY NumberedSets DEF Dialled
<1>2. Accepts(h, s.c)
  BY DEF Accepts
<1> QED BY <1>1, <1>2 DEF AInv, DialledIsNew

\* What an acceptor does brings no news.
LEMMA AcceptorCalm ==
    ASSUME Types, Numbered, AInv, NEW h \in Hosts, NEW s \in Sessions(h), s.kind = "in",
           AcceptorActs(s.c)
    PROVE  Calm
<1>1. s.c <= conns /\ \A g \in Hosts : ~Dials(g, s.c)
  BY AcceptedNotDialled
<1>2. M("grant", 1).t = "grant"
  BY DEF M
<1> SUFFICES ASSUME NEW c \in Conns
             PROVE  /\ Granted(c)' => Granted(c)
                    /\ Requested(c)' => Requested(c)
                    /\ Way(wire, c, "toOut")' # {} =>
                          Way(wire, c, "toOut") # {} \/ (c <= conns /\ \A g \in Hosts : ~Dials(g, c))
                    /\ Granted(c) \/ Ending(c) => Granted(c)' \/ Ending(c)'
  BY DEF Calm
<1>3. Way(wire', c, "toIn") \subseteq Way(wire, c, "toIn")
  BY DEF AcceptorActs
<1>4. Way(wire, c, "toOut") \subseteq Way(wire', c, "toOut")
  BY DEF AcceptorActs
<1>5. \A m \in Way(wire', c, "toOut") : m \in Way(wire, c, "toOut") \/ (c = s.c /\ m.t # "grant")
  BY DEF AcceptorActs
<1>6. Granted(c)' => Granted(c)
  BY <1>2, <1>5 DEF Granted
<1>7. Requested(c)' => Requested(c)
  BY <1>3 DEF Requested
<1>8. Way(wire', c, "toOut") # {} =>
         Way(wire, c, "toOut") # {} \/ (c <= conns /\ \A g \in Hosts : ~Dials(g, c))
  BY <1>1, <1>5
<1>9. Granted(c) \/ Ending(c) => Granted(c)' \/ Ending(c)'
  BY <1>4 DEF Granted, Ending
<1> QED BY <1>6, <1>7, <1>8, <1>9

\* What a session does that dialled brings no news, unless it asks or is granted.
LEMMA DiallerCalm == ASSUME DiallerActs PROVE Calm
<1>1. M("grant", 1).t = "grant"
  BY DEF M
<1> SUFFICES ASSUME NEW c \in Conns
             PROVE  /\ Granted(c)' => Granted(c)
                    /\ Requested(c)' => Requested(c)
                    /\ Way(wire, c, "toOut")' # {} => Way(wire, c, "toOut") # {}
                    /\ Granted(c) \/ Ending(c) =>
                          Granted(c)' \/ Ending(c)' \/ <<c, "toOut">> \in shut'
  BY DEF Calm
<1>2. Way(wire', c, "toOut") \subseteq Way(wire, c, "toOut")
  BY DEF DiallerActs
<1>3. \A m \in Way(wire', c, "toIn") : m \in Way(wire, c, "toIn") \/ m.t # "result"
  BY DEF DiallerActs
<1>4. \A m \in Way(wire, c, "toOut") :
         \/ m \in Way(wire', c, "toOut") \/ <<c, "toOut">> \in shut'
         \/ m # M("grant", 1) /\ m.t \notin {"close", "reset"}
  BY DEF DiallerActs
<1>5. Granted(c)' => Granted(c)
  BY <1>2 DEF Granted
<1>6. Requested(c)' => Requested(c)
  BY <1>3 DEF Requested
<1>7. Granted(c) \/ Ending(c) => Granted(c)' \/ Ending(c)' \/ <<c, "toOut">> \in shut'
  BY <1>4 DEF Granted, Ending
<1> QED BY <1>2, <1>5, <1>6, <1>7

\* w is the wire with messages read from one direction only.
Reads(w, dir) ==
    /\ w \in Wires
    /\ \A c \in Conns, d \in Directions :
          Way(w, c, d) \subseteq Way(wire, c, d) /\ (d # dir => Way(w, c, d) = Way(wire, c, d))

\* The session of an acceptor is done, or its stream is dead.
LEMMA AcceptorCloses ==
    ASSUME Types, Numbered, AInv, NEW h \in Hosts, NEW i \in 1 .. Len(list[h]),
           list[h][i].kind = "in", NEW w, Reads(w, "toIn"), CloseEnd(w, list[h][i]),
           \/ list' = [list EXCEPT ![h] = RemoveAt(list[h], i)]
           \/ list' = [list EXCEPT ![h][i].st = "dead"],
           UNCHANGED conns
    PROVE  AInv'
<1> DEFINE s == list[h][i]
           m == M("close", 0)
<1>1. s \in Session /\ s \in Sessions(h) /\ s.c \in Conns /\ Incoming(s) = "toIn" /\ m.t # "grant"
  BY OneSession, ListSet DEF Incoming, M
<1> HIDE DEF s, m
<1>2. shut' = shut \cup {<<s.c, Incoming(s)>>}
  BY <1>1, WayClosed DEF Reads, s
<1>3. \A c \in Conns, d \in Directions :
         Way(wire', c, d) =
           IF c # s.c THEN Way(w, c, d)
           ELSE IF d = Incoming(s) THEN {}
           ELSE IF <<c, d>> \in shut THEN Way(w, c, d) ELSE Way(w, c, d) \cup {m}
  BY <1>1, WayClosed DEF Reads, s, m
<1>4. AcceptorActs(s.c)
  BY <1>1, <1>3 DEF AcceptorActs, Reads, Directions
<1>5. Calm
  BY <1>1, <1>4, AcceptorCalm DEF s
<1>6. /\ \A g \in Hosts : Descends(list[g], list'[g])
      /\ \A g \in Hosts, c \in Conns : LiveOut(g, c) => LiveOut(g, c)'
  BY RemovedCalm, StreamCalm
<1> QED BY <1>2, <1>5, <1>6, CalmKeeps DEF Faithful

\* The session of a connection that was dialled is done, or its stream is dead.
LEMMA DiallerCloses ==
    ASSUME Types, Numbered, AInv, NEW h \in Hosts, NEW i \in 1 .. Len(list[h]),
           list[h][i].kind # "in", NEW w, Reads(w, "toOut"), StreamGone(h, i, w),
           \A c \in Conns : c # list[h][i].c => Way(w, c, "toOut") = Way(wire, c, "toOut"),
           UNCHANGED conns
    PROVE  AInv'
<1> DEFINE s == list[h][i]
           m == M("close", 0)
<1>1. s \in Session /\ s.c \in Conns /\ Incoming(s) = "toOut" /\ m.t # "result"
  BY OneSession DEF Incoming, M
<1>2. /\ CloseEnd(w, s)
      /\ \/ list' = [list EXCEPT ![h] = RemoveAt(list[h], i)]
         \/ list' = [list EXCEPT ![h][i].st = "dead"]
  BY DEF StreamGone, Done
<1>3. \A c \in Conns : c # s.c => Way(w, c, "toOut") = Way(wire, c, "toOut")
  OBVIOUS
<1> HIDE DEF s, m
<1>4. shut' = shut \cup {<<s.c, Incoming(s)>>}
  BY <1>1, <1>2, WayClosed DEF Reads
<1>5. \A c \in Conns, d \in Directions :
         Way(wire', c, d) =
           IF c # s.c THEN Way(w, c, d)
           ELSE IF d = Incoming(s) THEN {}
           ELSE IF <<c, d>> \in shut THEN Way(w, c, d) ELSE Way(w, c, d) \cup {m}
  BY <1>1, <1>2, WayClosed DEF Reads, m
<1>6. DiallerActs
  BY <1>1, <1>3, <1>4, <1>5 DEF DiallerActs, Reads, Directions
<1>7. /\ \A g \in Hosts : Descends(list[g], list'[g])
      /\ \A g \in Hosts, c \in Conns : LiveOut(g, c) => LiveOut(g, c)' \/ s.c = c
  BY <1>2, RemovedCalm, StreamCalm DEF s
<1>8. Faithful
  BY <1>1, <1>4, <1>7 DEF Faithful
<1> QED BY <1>4, <1>6, <1>7, <1>8, DiallerCalm, CalmKeeps

-----------------------------------------------------------------------------
(* A session joins a list.                                                 *)

\* The sessions of each host after a new one joined.
LEMMA JoinedSets ==
    ASSUME Types, NEW h \in Hosts, NEW e \in Session, list' = [list EXCEPT ![h] = Append(list[h], e)]
    PROVE  \A g \in Hosts : Sessions(g)' = IF g = h THEN Sessions(g) \cup {e} ELSE Sessions(g)
<1> DEFINE q == list[h]
           p == <<e>>
           l == q \o p
<1>1. q \in Seq(Session) /\ p \in Seq(Session) /\ ToSet(p) = {e}
  BY ListSet, SetSmall
<1>2. l = Append(q, e)
  BY <1>1
<1> HIDE DEF p, q
<1>3. ToSet(l) = ToSet(q) \cup {e}
  BY <1>1, SetJoined
<1> HIDE DEF l
<1>4. \A g \in Hosts : list'[g] = IF g = h THEN l ELSE list[g]
  BY <1>2 DEF Types, q
<1>5. ToSet(l) = Sessions(h) \cup {e}
  BY <1>3 DEF Sessions, q
<1>6. \A g \in Hosts : Sessions(g)' = IF g = h THEN ToSet(l) ELSE Sessions(g)
  BY <1>4 DEF Sessions
<1> QED BY <1>5, <1>6

\* A session with a new number, for a host to send to or to ask about another.
LEMMA FreshAgrees ==
    ASSUME Types, Numbered, AInv, NEW h \in Hosts, NEW e \in Session, NEW b \in Conns, b = conns + 1,
           e.kind # "in", e.c = b, ~e.active, conns' = b, UNCHANGED shut,
           list' = [list EXCEPT ![h] = Append(list[h], e)],
           e.ver \in Conns => e.ver <= conns /\ \A g \in Hosts : ~Verifies(g, e.ver),
           \A c \in Conns : Way(wire', c, "toOut") = Way(wire, c, "toOut"),
           \A c \in Conns : Way(wire', c, "toIn") \subseteq Way(wire, c, "toIn")
    PROVE  AInv'
<1>1. \A g \in Hosts : Sessions(g)' = IF g = h THEN Sessions(g) \cup {e} ELSE Sessions(g)
  BY JoinedSets
<1>2. \A g \in Hosts, c \in Conns :
         /\ Accepts(g, c)' <=> Accepts(g, c)
         /\ Unproven(g, c)' <=> Unproven(g, c)
         /\ Proven(g, c)' <=> Proven(g, c)
  BY <1>1 DEF Accepts, Unproven, Proven
<1>3. \A g \in Hosts, c \in Conns : Live(g, c)' <=> Live(g, c)
  BY <1>1 DEF Live
<1>4. \A g \in Hosts, c \in Conns : LiveOut(g, c)' <=> LiveOut(g, c)
  BY <1>1 DEF LiveOut
<1>5. \A g \in Hosts, c \in Conns : Dials(g, c)' => Dials(g, c) \/ c = b
  BY <1>1 DEF Dials
<1>6. \A g \in Hosts, c \in Conns : Verifies(g, c)' => Verifies(g, c) \/ c = b
  BY <1>1 DEF Verifies
<1>7. \A g \in Hosts, c \in Conns : AsksAbout(g, c)' => AsksAbout(g, c) \/ c = e.ver
  BY <1>1 DEF AsksAbout
<1>8. \A c \in Conns : /\ Granted(c)' <=> Granted(c)
                       /\ Ending(c)' <=> Ending(c)
                       /\ Requested(c)' => Requested(c)
  BY DEF Granted, Ending, Requested
<1>9. ~(b <= conns) /\ b > conns /\ \A c \in Conns : (c <= conns => c <= b) /\ (c > b => c > conns)
  BY DEF Types, Conns
<1>10. \A g \in Hosts : ~Live(g, b) /\ ~Accepts(g, b)
  <2>1. \A g \in Hosts : \A s \in Sessions(g) : s.c <= conns
    BY NumberedSets DEF Dialled
  <2> QED BY <1>9, <2>1 DEF Live, Accepts
<1>11. OneAcceptor'
  BY <1>2 DEF AInv, OneAcceptor
<1>12. DialledIsNew'
  <2>1. Way(wire, b, "toOut") = {}
    BY <1>9 DEF AInv, NumbersAreNew
  <2> QED BY <1>2, <1>3, <1>5, <1>10, <2>1 DEF AInv, DialledIsNew
<1>13. NumbersAreNew'
  BY <1>9 DEF AInv, NumbersAreNew
<1>14. GrantedIsProven' /\ LiveIsProven'
  BY <1>2, <1>3, <1>8 DEF AInv, GrantedIsProven, LiveIsProven
<1>15. OutboundAsks'
  BY <1>2, <1>6, <1>7, <1>8, <1>9 DEF AInv, OutboundAsks
<1>16. ProvenIsTold'
  BY <1>2, <1>4, <1>8, PeerType DEF AInv, ProvenIsTold
<1> QED BY <1>11, <1>12, <1>13, <1>14, <1>15, <1>16 DEF AInv

\* A connection is accepted.
LEMMA ConnectedAgrees ==
    ASSUME Types, Types', Numbered, Numbered', AInv, NEW h \in Hosts, NEW i \in 1 .. Len(list[h]),
           Connected(h, i)
    PROVE  AInv'
<1> DEFINE s == list[h][i]
           p == Peer(h)
           f == [s EXCEPT !.st = "opening"]
           e == NewSession("in", s.c, "opening", 0, <<>>)
           l == [list[h] EXCEPT ![i] = f]
           m == Append(list[p], e)
           one == <<M("open", 0)>>
<1>1. s \in Session /\ s \in Sessions(h) /\ s.c \in Conns /\ p \in Hosts /\ p # h
  BY OneSession, ListSet, PeerType
<1>2. s.st = "connecting" /\ s.kind # "in"
  BY <1>1, NumberedSets DEF Connected, Dialled
<1>3. e \in Session /\ e.kind = "in" /\ e.c = s.c /\ ~e.validated
  BY <1>1, EmptySeq DEF NewSession, Session
<1>4. f \in Session /\ f.kind = s.kind /\ f.c = s.c /\ f.st = "opening" /\ Alike(s, f)
  <2> HIDE DEF s
  <2> QED BY <1>1 DEF Session, Alike
<1>5. \A g \in Hosts : list'[g] = IF g = h THEN l ELSE IF g = p THEN m ELSE list[g]
  BY <1>1 DEF Connected, Types
<1>6. UNCHANGED <<shut, conns>> /\ wire' = With(wire, s.c, "toIn", one)
  BY DEF Connected, With
<1>7. \A c \in Conns, d \in Directions :
         Way(wire', c, d) = IF c = s.c /\ d = "toIn" THEN {M("open", 0)} ELSE Way(wire, c, d)
  <2>1. one \in Seq(Message) /\ ToSet(one) = {M("open", 0)}
    BY SetSmall DEF M, Message, Msg
  <2>2. PICK b \in Conns : b = s.c
    BY <1>1
  <2> HIDE DEF one, s
  <2>3. wire \in Wires /\ "toIn" \in Directions
    BY DEF Types, Directions
  <2>4. \A c \in Conns, d \in Directions :
           Way(With(wire, b, "toIn", one), c, d) = IF c = b /\ d = "toIn" THEN ToSet(one) ELSE Way(wire, c, d)
    BY <2>1, <2>3, WaySet
  <2> QED BY <1>6, <2>1, <2>2, <2>4
<1>8. /\ \A g \in Hosts : \A t \in Sessions(g)' : (\E r \in Sessions(g) : Alike(r, t)) \/ (g = p /\ t = e)
      /\ \A g \in Hosts : \A r \in Sessions(g) : \E t \in Sessions(g)' :
            t.kind = r.kind /\ t.c = r.c /\ t.active = r.active
      /\ f \in Sessions(h)'
  <2>1. /\ ToSet(l) \subseteq Sessions(h) \cup {f}
        /\ Sessions(h) \subseteq ToSet(l) \cup {s} /\ f \in ToSet(l)
    <3> DEFINE q == list[h]
    <3>1. q \in Seq(Session) /\ i \in 1 .. Len(q) /\ q[i] = s /\ l = [q EXCEPT ![i] = f] /\ Sessions(h) = ToSet(q)
      BY ListSet DEF Sessions
    <3> HIDE DEF q, f, l, s
    <3>2. ToSet([q EXCEPT ![i] = f]) \subseteq ToSet(q) \cup {f}
          /\ ToSet(q) \subseteq ToSet([q EXCEPT ![i] = f]) \cup {q[i]}
          /\ f \in ToSet([q EXCEPT ![i] = f])
      BY <1>4, <3>1, SetReplaced
    <3> QED BY <3>1, <3>2
  <2>2. ToSet(m) = Sessions(p) \cup {e}
    <3> DEFINE q == list[p]
               x == <<e>>
               y == q \o x
    <3>1. q \in Seq(Session) /\ x \in Seq(Session) /\ ToSet(x) = {e} /\ y = Append(q, e)
      BY <1>1, <1>3, ListSet, SetSmall
    <3> HIDE DEF x, q, e
    <3>2. ToSet(y) = ToSet(q) \cup ToSet(x)
      BY <3>1, SetJoined, ZenonT(60)
    <3> QED BY <3>1, <3>2 DEF Sessions, q
  <2>3. \A r : Alike(r, r)
    BY DEF Alike
  <2>4. f.active = s.active
    BY <1>4 DEF Alike
  <2> HIDE DEF l, m, e, f, s, p
  <2>5. \A g \in Hosts : Sessions(g)' = IF g = h THEN ToSet(l) ELSE IF g = p THEN ToSet(m) ELSE Sessions(g)
    BY <1>5 DEF Sessions
  <2>6. \A g \in Hosts : \A t \in Sessions(g)' : (\E r \in Sessions(g) : Alike(r, t)) \/ (g = p /\ t = e)
    BY <1>1, <1>4, <2>1, <2>2, <2>3, <2>5
  <2>7. \A g \in Hosts : \A r \in Sessions(g) : \E t \in Sessions(g)' :
           t.kind = r.kind /\ t.c = r.c /\ t.active = r.active
    BY <1>1, <1>4, <2>1, <2>2, <2>4, <2>5
  <2> QED BY <2>1, <2>5, <2>6, <2>7
<1> PICK b \in Conns : b = s.c
  BY <1>1
<1> HIDE DEF e, f, l, m, s, p
<1>9. \A g \in Hosts, c \in Conns : LiveOut(g, c) => LiveOut(g, c)'
  BY <1>8 DEF LiveOut
<1>10. \A g \in Hosts, c \in Conns :
          /\ Accepts(g, c)' => Accepts(g, c) \/ (g = p /\ c = b)
          /\ Unproven(g, c)' => Unproven(g, c) \/ (g = p /\ c = b)
          /\ Proven(g, c)' => Proven(g, c)
  BY <1>3, <1>8 DEF Accepts, Unproven, Proven, Alike
<1>11. \A g \in Hosts, c \in Conns :
          /\ Verifies(g, c)' => Verifies(g, c)
          /\ AsksAbout(g, c)' => AsksAbout(g, c)
          /\ Live(g, c)' => Live(g, c)
  BY <1>3, <1>8 DEF Verifies, AsksAbout, Live, Alike
<1>12. \A g \in Hosts, c \in Conns : Dials(g, c)' => Dials(g, c) /\ c # b
  <2>1. \A g \in Hosts, c \in Conns : Dials(g, c)' => Dials(g, c)
    BY <1>3, <1>8 DEF Dials, Alike
  <2>2. Dialled'
    BY NumberedSets, PTL
  <2>3. \A g \in Hosts : ~Dials(g, b)'
    BY <1>2, <1>4, <1>8, <2>2 DEF Dialled, Dials
  <2> QED BY <2>1, <2>3
<1>13. Dials(h, b)
  BY <1>1, <1>2 DEF Dials
<1>14. /\ Way(wire, b, "toOut") = {}
       /\ \A g \in Hosts : ~Live(g, b) /\ ~Accepts(g, b)
  BY <1>13 DEF AInv, DialledIsNew
<1>15. \A c \in Conns : /\ Way(wire', c, "toOut") = Way(wire, c, "toOut")
                        /\ Way(wire', c, "toIn") \subseteq Way(wire, c, "toIn") \cup {M("open", 0)}
  BY <1>7 DEF Directions
<1>16. \A c \in Conns : /\ Granted(c)' <=> Granted(c)
                        /\ Ending(c)' <=> Ending(c)
                        /\ Requested(c)' => Requested(c)
  BY <1>15 DEF Granted, Ending, Requested, M
<1>17. OneAcceptor'
  BY <1>10, <1>14 DEF AInv, OneAcceptor
<1>18. DialledIsNew'
  BY <1>10, <1>11, <1>12, <1>15 DEF AInv, DialledIsNew
<1>19. NumbersAreNew'
  BY <1>6, <1>15 DEF AInv, NumbersAreNew
<1>20. GrantedIsProven'
  BY <1>10, <1>14, <1>16 DEF AInv, GrantedIsProven, Granted
<1>21. LiveIsProven'
  BY <1>10, <1>11, <1>14 DEF AInv, LiveIsProven
<1>22. OutboundAsks'
  BY <1>6, <1>10, <1>11, <1>16 DEF AInv, OutboundAsks
<1>23. ProvenIsTold'
  BY <1>6, <1>9, <1>10, <1>16, PeerType DEF AInv, ProvenIsTold
<1> QED BY <1>17, <1>18, <1>19, <1>20, <1>21, <1>22, <1>23 DEF AInv

-----------------------------------------------------------------------------
(* The answers.                                                            *)

\* The sessions of each host after one was replaced.
LEMMA ReplacedSets ==
    ASSUME Types, NEW h \in Hosts, NEW i \in 1 .. Len(list[h]), NEW e \in Session,
           list' = [list EXCEPT ![h] = [list[h] EXCEPT ![i] = e]]
    PROVE  /\ \A g \in Hosts : \A t \in Sessions(g)' : t \in Sessions(g) \/ (g = h /\ t = e)
           /\ \A g \in Hosts : \A r \in Sessions(g) : r \in Sessions(g)' \/ (g = h /\ r = list[h][i])
           /\ e \in Sessions(h)'
<1> DEFINE q == list[h]
           l == [q EXCEPT ![i] = e]
<1>1. q \in Seq(Session) /\ Sessions(h) = ToSet(q)
  BY ListSet DEF Sessions
<1>2. \A g \in Hosts : list'[g] = IF g = h THEN l ELSE list[g]
  BY DEF Types
<1> HIDE DEF q
<1>3. /\ ToSet(l) \subseteq ToSet(q) \cup {e}
      /\ ToSet(q) \subseteq ToSet(l) \cup {q[i]}
      /\ e \in ToSet(l)
  BY <1>1, SetReplaced DEF q
<1> HIDE DEF l
<1>4. \A g \in Hosts : Sessions(g)' = IF g = h THEN ToSet(l) ELSE Sessions(g)
  BY <1>2 DEF Sessions
<1> QED BY <1>1, <1>3, <1>4 DEF q

\* The queue of a session is flushed as stanzas.
LEMMA FlushedMessages ==
    ASSUME NEW r \in Seq(Stanzas), NEW ms, ms = [k \in 1 .. Len(r) |-> M("stanza", r[k])]
    PROVE  ms \in Seq(Message) /\ \A m \in ToSet(ms) : m.t = "stanza"
<1>1. Len(r) \in Nat /\ \A k \in 1 .. Len(r) : r[k] \in Stanzas
  BY LenProperties, ElementOfSeq
<1>2. \A n \in Stanzas : M("stanza", n) \in Message /\ M("stanza", n).t = "stanza"
  BY DEF M, Message, Msg, Stanzas
<1>3. ms \in [1 .. Len(r) -> Message] /\ \A k \in 1 .. Len(r) : ms[k].t = "stanza"
  BY <1>1, <1>2
<1>4. ms \in Seq(Message) /\ Len(ms) = Len(r)
  BY <1>1, <1>3, SeqDef, LenProperties
<1>5. \A m \in ToSet(ms) : \E k \in 1 .. Len(ms) : ms[k] = m
  BY <1>4, SetOf
<1> QED BY <1>3, <1>4, <1>5

\* A session is granted: its acceptor was validated before the grant was sent.
LEMMA GrantAgrees ==
    ASSUME Types, Numbered, AInv, NEW h \in Hosts, NEW i \in 1 .. Len(list[h]),
           list[h][i].kind # "in", wire[list[h][i].c][Incoming(list[h][i])] # <<>>,
           NEW m \in Message, m = Head(wire[list[h][i].c][Incoming(list[h][i])]),
           dialbackResult(h, i, m), m.n = 1
    PROVE  AInv'
<1> DEFINE s == list[h][i]
           e == Activated(s)
           w == Taken(s)
           ms == [k \in 1 .. Len(s.pending) |-> M("stanza", s.pending[k])]
<1>1. PICK b \in Conns : b = s.c
  BY OneSession
<1>2. s \in Session /\ s \in Sessions(h) /\ Incoming(s) = "toOut" /\ s.kind # "in"
  BY OneSession, ListSet DEF Incoming
<1>3. m = M("grant", 1)
  BY DEF dialbackResult, M, Message, Msg
<1>4. /\ UNCHANGED <<shut, conns>>
      /\ list' = [list EXCEPT ![h] = [list[h] EXCEPT ![i] = e]]
      /\ wire' = Put(w, b, "toIn", ms)
  BY <1>1 DEF dialbackResult
<1>5. e \in Session /\ e.kind = s.kind /\ e.c = b /\ e.st = s.st /\ e.ver = s.ver
      /\ e.validated = s.validated /\ e.active
  <2> HIDE DEF s
  <2> QED BY <1>1, <1>2, EmptySeq DEF Activated, Session
<1>6. ms \in Seq(Message) /\ \A x \in ToSet(ms) : x.t = "stanza"
  <2>1. s.pending \in Seq(Stanzas)
    <3> HIDE DEF s
    <3> QED BY <1>2 DEF Session
  <2> QED BY <2>1, FlushedMessages
<1> HIDE DEF ms
<1>7. /\ w \in Wires
      /\ \A c \in Conns, d \in Directions :
           /\ Way(w, c, d) \subseteq Way(wire, c, d)
           /\ ~(c = b /\ d = "toOut") => Way(w, c, d) = Way(wire, c, d)
           /\ \A x \in Way(wire, c, d) : x \in Way(w, c, d) \/ x = m
      /\ m \in Way(wire, b, "toOut")
  BY <1>1, <1>2, WayTaken
<1> HIDE DEF w
<1>8. \A c \in Conns, d \in Directions :
         Way(wire', c, d) =
           IF c = b /\ d = "toIn" /\ <<b, "toIn">> \notin shut THEN Way(w, c, d) \cup ToSet(ms)
           ELSE Way(w, c, d)
  <2>1. "toIn" \in Directions /\ w \in Wires
    BY <1>7 DEF Directions
  <2>2. Adds(w, Put(w, b, "toIn", ms), b, "toIn", ToSet(ms))
    BY <1>6, <2>1, WayPut
  <2>3. Adds(w, wire', b, "toIn", ToSet(ms))
    BY <1>4, <2>2
  <2> QED BY <2>3 DEF Adds
<1>9. Granted(b)
  BY <1>3, <1>7 DEF Granted
<1>10. /\ \A g \in Hosts : \A t \in Sessions(g)' : t \in Sessions(g) \/ (g = h /\ t = e)
       /\ \A g \in Hosts : \A r \in Sessions(g) : r \in Sessions(g)' \/ (g = h /\ r = s)
       /\ e \in Sessions(h)'
  <2> HIDE DEF e
  <2> QED BY <1>4, <1>5, ReplacedSets
<1> HIDE DEF e, s
<1>11. \A g \in Hosts, c \in Conns :
          /\ Accepts(g, c)' => Accepts(g, c)
          /\ Unproven(g, c)' => Unproven(g, c)
          /\ Proven(g, c)' => Proven(g, c)
  BY <1>2, <1>5, <1>10 DEF Accepts, Unproven, Proven
<1>12. \A g \in Hosts, c \in Conns : Dials(g, c)' => Dials(g, c)
  BY <1>1, <1>2, <1>5, <1>10 DEF Dials
<1>13. \A g \in Hosts, c \in Conns : Verifies(g, c)' => Verifies(g, c)
  BY <1>1, <1>2, <1>5, <1>10 DEF Verifies
<1>14. \A g \in Hosts, c \in Conns : AsksAbout(g, c)' => AsksAbout(g, c)
  BY <1>1, <1>2, <1>5, <1>10 DEF AsksAbout
<1>15. \A g \in Hosts, c \in Conns : Live(g, c)' => Live(g, c) \/ c = b
  BY <1>5, <1>10 DEF Live
<1>16. \A g \in Hosts, c \in Conns : LiveOut(g, c) => LiveOut(g, c)'
  BY <1>1, <1>5, <1>10 DEF LiveOut
<1>17. \A c \in Conns :
          /\ Way(wire', c, "toOut") \subseteq Way(wire, c, "toOut")
          /\ c # b => Way(wire', c, "toOut") = Way(wire, c, "toOut")
          /\ \A x \in Way(wire', c, "toIn") : x \in Way(wire, c, "toIn") \/ x.t = "stanza"
  BY <1>6, <1>7, <1>8 DEF Directions
<1>18. \A c \in Conns : (Granted(c)' => Granted(c)) /\ (Requested(c)' => Requested(c))
                        /\ (c # b => (Granted(c)' <=> Granted(c)) /\ (Ending(c)' <=> Ending(c)))
  BY <1>17 DEF Granted, Requested, Ending
<1>19. \A g \in Hosts : ~Unproven(g, b) /\ ~Dials(g, b)
  BY <1>7, <1>9 DEF AInv, GrantedIsProven, DialledIsNew
<1>20. OneAcceptor'
  BY <1>11 DEF AInv, OneAcceptor
<1>21. DialledIsNew'
  BY <1>11, <1>12, <1>15, <1>17, <1>19 DEF AInv, DialledIsNew
<1>22. NumbersAreNew'
  BY <1>4, <1>17 DEF AInv, NumbersAreNew
<1>23. GrantedIsProven' /\ LiveIsProven'
  BY <1>11, <1>15, <1>18, <1>19 DEF AInv, GrantedIsProven, LiveIsProven
<1>24. OutboundAsks'
  BY <1>4, <1>11, <1>13, <1>14, <1>18 DEF AInv, OutboundAsks
<1>25. ASSUME NEW g \in Hosts, Proven(Peer(g), b) PROVE LiveOut(g, b)'
  <2>1. PICK p \in Hosts : p = Peer(g) /\ Peer(p) = g
    BY PeerType, PeerPeer
  <2>2. PICK r \in Sessions(p) : r.kind = "in" /\ r.c = b
    BY <1>25, <2>1 DEF Proven
  <2>3. p # h
    <3> HIDE DEF s
    <3>1. \A t \in Sessions(h) : s.c = t.c => s = t
      BY <1>2, NumberedSets DEF Dialled
    <3> QED BY <1>1, <1>2, <2>2, <3>1
  <2>4. g = h
    BY <2>1, <2>3, PeerOnly
  <2>5. ~Verifies(h, b)
    BY <1>25, <2>1 DEF AInv, OutboundAsks
  <2>6. s.kind = "out"
    BY <1>1, <1>2, <2>5 DEF Verifies, Session
  <2> QED BY <1>5, <1>10, <2>4, <2>6 DEF LiveOut
<1>26. ProvenIsTold'
  <2>1. \A g \in Hosts, c \in Conns : Proven(Peer(g), c)' => Proven(Peer(g), c)
    BY <1>11, PeerType
  <2> QED BY <1>4, <1>16, <1>18, <1>25, <2>1 DEF AInv, ProvenIsTold
<1> QED BY <1>20, <1>21, <1>22, <1>23, <1>24, <1>26 DEF AInv

\* The list after a verify session was answered with n for connection b, and its
\* sessions: those that wait are validated if n grants it.
Answered(h, i, b, n) == [list EXCEPT ![h] = RemoveAt(Validated(h, pendingInbound(h, b), n), i)]
Follows(r, t, b, n) ==
    /\ t.kind = r.kind /\ t.c = r.c /\ t.ver = r.ver /\ t.active = r.active /\ t.st = r.st
    /\ t.validated => r.validated \/ (r.kind = "in" /\ r.c = b /\ n = 1)
    /\ ~t.validated => ~r.validated /\ ~(r.kind = "in" /\ r.c = b /\ n = 1)
AnsweredFrom(h, s, b, n) ==
    /\ \A g \in Hosts : g # h => Sessions(g)' = Sessions(g)
    /\ \A t \in Sessions(h)' : \E r \in Sessions(h) : Follows(r, t, b, n)
    /\ \A r \in Sessions(h) :
          \/ r.kind = s.kind /\ r.c = s.c
          \/ \E t \in Sessions(h)' : t.kind = r.kind /\ t.c = r.c /\ t.active = r.active

\* A verify session is answered: the sessions that wait are validated, the
\* others stay as they are, and the verify session leaves.
LEMMA AnsweredSets ==
    ASSUME Types, NEW h \in Hosts, NEW i \in 1 .. Len(list[h]), NEW b, NEW n,
           list' = Answered(h, i, b, n)
    PROVE  AnsweredFrom(h, list[h][i], b, n)
<1> DEFINE q == list[h]
           in == pendingInbound(h, b)
           v == Validated(h, in, n)
           l == RemoveAt(v, i)
<1>1. Good(list[h]) /\ q \in Seq(Session) /\ Len(q) \in Nat /\ \A k \in 1 .. Len(q) : q[k] \in Session
  BY ListSet, ElementOfSeq, LenProperties DEF Types
<1>2. v = [k \in 1 .. Len(q) |->
              IF k \in in /\ n = 1 THEN [q[k] EXCEPT !.validated = TRUE] ELSE q[k]]
  BY DEF Validated
<1>3. \A k \in 1 .. Len(q) : k \in in <=> q[k].kind = "in" /\ q[k].c = b
  BY DEF pendingInbound
<1>4. v \in Seq(Session) /\ Len(v) = Len(q)
  <2> HIDE DEF in
  <2> QED BY <1>1, GoodValidated DEF Good
<1>5. \A g \in Hosts : list'[g] = IF g = h THEN l ELSE list[g]
  BY DEF Types, Answered
<1> HIDE DEF v, in, q
<1>6. \A k \in 1 .. Len(q) : Follows(q[k], v[k], b, n)
  <2> TAKE k \in 1 .. Len(q)
  <2> DEFINE r == q[k]
             u == [r EXCEPT !.validated = TRUE]
  <2>1. r \in Session /\ v[k] = IF k \in in /\ n = 1 THEN u ELSE r
    BY <1>1, <1>2
  <2> HIDE DEF r
  <2>2. /\ u.kind = r.kind /\ u.c = r.c /\ u.ver = r.ver /\ u.active = r.active /\ u.st = r.st
        /\ u.validated = TRUE
    BY <2>1 DEF Session
  <2> HIDE DEF u
  <2>3. k \in in <=> r.kind = "in" /\ r.c = b
    BY <1>3 DEF r
  <2>4. v[k].kind = r.kind /\ v[k].c = r.c /\ v[k].ver = r.ver /\ v[k].active = r.active
        /\ v[k].st = r.st
    BY <2>1, <2>2
  <2>5. /\ v[k].validated => r.validated \/ (r.kind = "in" /\ r.c = b /\ n = 1)
        /\ ~v[k].validated => ~r.validated /\ ~(r.kind = "in" /\ r.c = b /\ n = 1)
    BY <2>1, <2>2, <2>3
  <2> QED BY <2>4, <2>5 DEF r, Follows
<1>7. ToSet(l) \subseteq ToSet(v) /\ ToSet(v) \subseteq ToSet(l) \cup {v[i]} /\ i \in 1 .. Len(q)
  BY <1>4, SetRemoved DEF q
<1> HIDE DEF l
<1>8. \A g \in Hosts : Sessions(g)' = IF g = h THEN ToSet(l) ELSE Sessions(g)
  BY <1>5 DEF Sessions
<1>9. \A k \in 1 .. Len(q) : q[k] \in Sessions(h)
  BY ListSet DEF q
<1>10. ASSUME NEW t \in Sessions(h)'
       PROVE  \E r \in Sessions(h) : Follows(r, t, b, n)
  <2>1. t \in ToSet(v)
    BY <1>7, <1>8, <1>10
  <2>2. PICK k \in 1 .. Len(v) : v[k] = t
    BY <1>4, <2>1, SetOf
  <2> QED BY <1>4, <1>6, <1>9, <2>2
<1>11. ASSUME NEW r \in Sessions(h)
       PROVE  \/ r.kind = q[i].kind /\ r.c = q[i].c
              \/ \E t \in Sessions(h)' : t.kind = r.kind /\ t.c = r.c /\ t.active = r.active
  <2>1. PICK k \in 1 .. Len(q) : q[k] = r
    BY ListSet DEF q
  <2>2. v[k] \in ToSet(v)
    BY <1>4, SetOf
  <2>3. v[k] \in ToSet(l) \/ v[k] = v[i]
    BY <1>7, <2>2
  <2>4. v[k].kind = r.kind /\ v[k].c = r.c /\ v[k].active = r.active
    BY <1>6, <2>1 DEF Follows
  <2>5. v[i].kind = q[i].kind /\ v[i].c = q[i].c
    BY <1>6, <1>7 DEF Follows
  <2> QED BY <1>8, <2>3, <2>4, <2>5
<1> QED BY <1>8, <1>10, <1>11 DEF q, AnsweredFrom

\* A verify session is answered.
LEMMA VerifiedAgrees ==
    ASSUME Types, Numbered, AInv, NEW h \in Hosts, NEW i \in 1 .. Len(list[h]),
           list[h][i].kind # "in", wire[list[h][i].c][Incoming(list[h][i])] # <<>>,
           NEW m \in Message, m = Head(wire[list[h][i].c][Incoming(list[h][i])]),
           dialbackVerifyResult(h, i, m)
    PROVE  AInv'
<1> DEFINE s == list[h][i]
           in == pendingInbound(h, s.ver)
           w == Taken(s)
           a == M("grant", m.n)
           x == IF in = {} THEN w ELSE Put(w, s.ver, "toOut", <<a>>)
           z == M("close", 0)
<1>1. s \in Session /\ s \in Sessions(h) /\ Incoming(s) = "toOut" /\ s.kind # "in" /\ s.c \in Conns
  BY OneSession, ListSet DEF Incoming
<1>2. /\ UNCHANGED conns
      /\ list' = [list EXCEPT ![h] = RemoveAt(Validated(h, pendingInbound(h, s.ver), m.n), i)]
      /\ CloseEnd(x, s)
  BY DEF dialbackVerifyResult
<1>3. /\ w \in Wires
      /\ \A c \in Conns, d \in Directions :
           /\ Way(w, c, d) \subseteq Way(wire, c, d)
           /\ ~(c = s.c /\ d = "toOut") => Way(w, c, d) = Way(wire, c, d)
  BY <1>1, WayTaken
<1>4. AnsweredFrom(h, s, s.ver, m.n)
  <2>1. PICK b, n : b = s.ver /\ n = m.n
    OBVIOUS
  <2>2. list' = Answered(h, i, b, n)
    BY <1>2, <2>1 DEF Answered
  <2>3. AnsweredFrom(h, list[h][i], b, n)
    BY <2>2, AnsweredSets
  <2> QED BY <2>1, <2>3
<1>5. /\ in # {} => \E r \in Sessions(h) : r.kind = "in" /\ r.c = s.ver
      /\ in = {} => \A r \in Sessions(h) : ~(r.kind = "in" /\ r.c = s.ver)
  <2>1. in = {k \in 1 .. Len(list[h]) : list[h][k].kind = "in" /\ list[h][k].c = s.ver}
    BY DEF pendingInbound
  <2>2. /\ \A k \in 1 .. Len(list[h]) : list[h][k] \in Sessions(h)
        /\ \A r \in Sessions(h) : \E k \in 1 .. Len(list[h]) : list[h][k] = r
    BY ListSet
  <2> HIDE DEF in, s
  <2> QED BY <2>1, <2>2
<1>6. in # {} => s.ver \in Conns
  BY <1>5, NumberedSets DEF Dialled
<1>7. a \in Message /\ a.t = "grant" /\ z.t = "close"
      /\ (a = M("grant", 1) <=> m.n = 1) /\ z # M("grant", 1)
  <2>1. m.n \in Nat
    BY DEF Message, Msg
  <2> QED BY <2>1 DEF M, Message, Msg
<1> HIDE DEF in, w, a, z
<1>8. /\ x \in Wires
      /\ \A c \in Conns, d \in Directions :
           Way(x, c, d) =
             IF in # {} /\ c = s.ver /\ d = "toOut" /\ <<c, "toOut">> \notin shut
             THEN Way(w, c, d) \cup {a} ELSE Way(w, c, d)
  <2>1. CASE in = {}
    BY <1>3, <2>1
  <2>2. CASE in # {}
    <3>1. PICK b \in Conns : b = s.ver
      BY <1>6, <2>2
    <3>2. "toOut" \in Directions
      BY DEF Directions
    <3>3. x = Put(w, b, "toOut", <<a>>)
      BY <2>2, <3>1
    <3> HIDE DEF x
    <3>4. Put(w, b, "toOut", <<a>>) \in Wires /\ Adds(w, Put(w, b, "toOut", <<a>>), b, "toOut", {a})
      BY <1>3, <1>7, <3>2, WaySent
    <3>5. x \in Wires /\ Adds(w, x, b, "toOut", {a})
      BY <3>3, <3>4
    <3>6. \A c \in Conns, d \in Directions :
             Way(x, c, d) = IF c = b /\ d = "toOut" /\ <<b, "toOut">> \notin shut
                            THEN Way(w, c, d) \cup {a} ELSE Way(w, c, d)
      BY <3>5 DEF Adds
    <3> HIDE DEF s
    <3> QED BY <2>2, <3>1, <3>5, <3>6
  <2> QED BY <2>1, <2>2
<1> HIDE DEF x
<1>9. /\ shut' = shut \cup {<<s.c, Incoming(s)>>}
      /\ \A c \in Conns, d \in Directions :
           Way(wire', c, d) =
             IF c # s.c THEN Way(x, c, d)
             ELSE IF d = Incoming(s) THEN {}
             ELSE IF <<c, d>> \in shut THEN Way(x, c, d) ELSE Way(x, c, d) \cup {z}
  <2>1. PICK u \in Wires : u = x
    BY <1>8
  <2>2. CloseEnd(u, s)
    BY <1>2, <2>1
  <2> HIDE DEF s
  <2> QED BY <1>1, <2>1, <2>2, WayClosed DEF z
<1> PICK b : b = s.ver
  OBVIOUS
<1> HIDE DEF s
<1>10. \A c \in Conns :
          /\ c # s.c => Way(wire', c, "toOut") =
                IF in # {} /\ c = b /\ <<c, "toOut">> \notin shut THEN Way(wire, c, "toOut") \cup {a}
                ELSE Way(wire, c, "toOut")
          /\ c = s.c => Way(wire', c, "toOut") = {} /\ <<c, "toOut">> \in shut'
          /\ \A y \in Way(wire', c, "toIn") : y \in Way(wire, c, "toIn") \/ y = z
  BY <1>1, <1>3, <1>8, <1>9 DEF Directions
<1>11. \A g \in Hosts, c \in Conns :
          /\ Accepts(g, c)' => Accepts(g, c)
          /\ Dials(g, c)' => Dials(g, c)
          /\ Verifies(g, c)' => Verifies(g, c)
          /\ AsksAbout(g, c)' => AsksAbout(g, c)
          /\ Live(g, c)' => Live(g, c)
  <2> DEFINE Same(r, t) ==
        t.kind = r.kind /\ t.c = r.c /\ t.ver = r.ver /\ t.active = r.active /\ t.st = r.st
  <2>1. \A g \in Hosts : \A t \in Sessions(g)' : \E r \in Sessions(g) : Same(r, t)
    <3>1. \A r, t : Follows(r, t, b, m.n) => Same(r, t)
      BY DEF Follows
    <3>2. \A r : Same(r, r)
      OBVIOUS
    <3> HIDE DEF Same
    <3> TAKE g \in Hosts
    <3>3. CASE g = h
      <4>1. \A t \in Sessions(h)' : \E r \in Sessions(h) : Follows(r, t, b, m.n)
        BY <1>4 DEF AnsweredFrom
      <4> QED BY <3>1, <3>3, <4>1
    <3>4. CASE g # h
      <4>1. Sessions(g)' = Sessions(g)
        BY <1>4, <3>4 DEF AnsweredFrom
      <4> QED BY <3>2, <4>1
    <3> QED BY <3>3, <3>4
  <2>2. \A g \in Hosts, c \in Conns : Accepts(g, c)' => Accepts(g, c)
    BY <2>1 DEF Accepts
  <2>3. \A g \in Hosts, c \in Conns : Dials(g, c)' => Dials(g, c)
    BY <2>1 DEF Dials
  <2>4. \A g \in Hosts, c \in Conns : Verifies(g, c)' => Verifies(g, c)
    BY <2>1 DEF Verifies
  <2>5. \A g \in Hosts, c \in Conns : AsksAbout(g, c)' => AsksAbout(g, c)
    BY <2>1 DEF AsksAbout
  <2>6. \A g \in Hosts, c \in Conns : Live(g, c)' => Live(g, c)
    BY <2>1 DEF Live
  <2> QED BY <2>2, <2>3, <2>4, <2>5, <2>6
<1>12. \A g \in Hosts, c \in Conns :
          /\ Unproven(g, c)' => Unproven(g, c) /\ ~(g = h /\ in # {} /\ c = b /\ m.n = 1)
          /\ Proven(g, c)' => Proven(g, c) \/ (g = h /\ in # {} /\ c = b /\ m.n = 1)
  <2> SUFFICES ASSUME NEW g \in Hosts, NEW c \in Conns
               PROVE  /\ Unproven(g, c)' => Unproven(g, c) /\ ~(g = h /\ in # {} /\ c = b /\ m.n = 1)
                      /\ Proven(g, c)' => Proven(g, c) \/ (g = h /\ in # {} /\ c = b /\ m.n = 1)
    OBVIOUS
  <2>1. \A t \in Sessions(h)' : \E r \in Sessions(h) : Follows(r, t, b, m.n)
    BY <1>4 DEF AnsweredFrom
  <2>2. g # h => Sessions(g)' = Sessions(g)
    BY <1>4 DEF AnsweredFrom
  <2>3. \A r \in Sessions(h) : r.kind = "in" /\ r.c = b => in # {}
    BY <1>5
  <2>4. Unproven(g, c)' => Unproven(g, c) /\ ~(g = h /\ in # {} /\ c = b /\ m.n = 1)
    <3> SUFFICES ASSUME Unproven(g, c)'
                 PROVE  Unproven(g, c) /\ ~(g = h /\ in # {} /\ c = b /\ m.n = 1)
      OBVIOUS
    <3>1. PICK t \in Sessions(g)' : t.kind = "in" /\ t.c = c /\ ~t.validated
      BY DEF Unproven
    <3>2. CASE g = h
      <4>1. PICK r \in Sessions(h) : Follows(r, t, b, m.n)
        BY <2>1, <3>1, <3>2
      <4>2. r.kind = "in" /\ r.c = c /\ ~r.validated /\ ~(r.kind = "in" /\ r.c = b /\ m.n = 1)
        BY <3>1, <4>1 DEF Follows
      <4> QED BY <3>2, <4>2 DEF Unproven
    <3>3. CASE g # h
      <4>1. t \in Sessions(g)
        BY <2>2, <3>3
      <4> QED BY <3>1, <3>3, <4>1 DEF Unproven
    <3> QED BY <3>2, <3>3
  <2>5. Proven(g, c)' => Proven(g, c) \/ (g = h /\ in # {} /\ c = b /\ m.n = 1)
    <3> SUFFICES ASSUME Proven(g, c)'
                 PROVE  Proven(g, c) \/ (g = h /\ in # {} /\ c = b /\ m.n = 1)
      OBVIOUS
    <3>1. PICK t \in Sessions(g)' : t.kind = "in" /\ t.c = c /\ t.validated
      BY DEF Proven
    <3>2. CASE g = h
      <4>1. PICK r \in Sessions(h) : Follows(r, t, b, m.n)
        BY <2>1, <3>1, <3>2
      <4>2. r.kind = "in" /\ r.c = c /\ (r.validated \/ (r.c = b /\ m.n = 1))
        BY <3>1, <4>1 DEF Follows
      <4>3. CASE r.validated
        BY <3>2, <4>2, <4>3 DEF Proven
      <4>4. CASE r.c = b /\ m.n = 1
        BY <2>3, <3>2, <4>2, <4>4
      <4> QED BY <4>2, <4>3, <4>4
    <3>3. CASE g # h
      <4>1. t \in Sessions(g)
        BY <2>2, <3>3
      <4> QED BY <3>1, <4>1 DEF Proven
    <3> QED BY <3>2, <3>3
  <2> QED BY <2>4, <2>5
<1>13. \A g \in Hosts, c \in Conns : LiveOut(g, c) => LiveOut(g, c)' \/ <<c, "toOut">> \in shut'
  <2> SUFFICES ASSUME NEW g \in Hosts, NEW c \in Conns, LiveOut(g, c), c # s.c
               PROVE  LiveOut(g, c)'
    BY <1>10
  <2>1. PICK r \in Sessions(g) : r.kind = "out" /\ r.c = c /\ r.active
    BY DEF LiveOut
  <2>2. g = h => \E t \in Sessions(h)' : t.kind = r.kind /\ t.c = r.c /\ t.active = r.active
    BY <1>4, <2>1 DEF AnsweredFrom
  <2>3. g # h => Sessions(g)' = Sessions(g)
    BY <1>4 DEF AnsweredFrom
  <2> QED BY <2>1, <2>2, <2>3 DEF LiveOut
<1>14. \A c \in Conns :
          /\ Granted(c)' => Granted(c) \/ (in # {} /\ c = b /\ m.n = 1)
          /\ Requested(c)' => Requested(c)
          /\ Granted(c) \/ Ending(c) => Granted(c)' \/ Ending(c)' \/ <<c, "toOut">> \in shut'
          /\ in # {} /\ c = b /\ m.n = 1 => Granted(c)' \/ <<c, "toOut">> \in shut'
  <2>1. shut \subseteq shut'
    BY <1>9
  <2> QED BY <1>7, <1>10, <2>1 DEF Granted, Requested, Ending
<1>15. in # {} => /\ Accepts(h, b) /\ b \in Conns /\ b <= conns /\ AsksAbout(h, b)
                  /\ \A g \in Hosts : ~Dials(g, b)
  <2> SUFFICES ASSUME in # {}
               PROVE  /\ Accepts(h, b) /\ b \in Conns /\ b <= conns /\ AsksAbout(h, b)
                      /\ \A g \in Hosts : ~Dials(g, b)
    OBVIOUS
  <2>1. PICK r \in Sessions(h) : r.kind = "in" /\ r.c = b
    BY <1>5
  <2> QED BY <1>1, <2>1, AcceptedNotDialled DEF Accepts, AsksAbout
<1>16. OneAcceptor'
  BY <1>11 DEF AInv, OneAcceptor
<1>17. DialledIsNew'
  BY <1>10, <1>11, <1>15, ZenonT(60) DEF AInv, DialledIsNew
<1>18. NumbersAreNew'
  <2>1. \A c \in Conns : c > conns => ~(c <= conns)
    BY DEF Types, Conns
  <2> QED BY <1>2, <1>10, <1>15, <2>1 DEF AInv, NumbersAreNew
<1>19. GrantedIsProven'
  <2>1. \A g \in Hosts, c \in Conns : Unproven(g, c) => Accepts(g, c)
    BY DEF Unproven, Accepts
  <2> QED BY <1>12, <1>14, <1>15, <2>1 DEF AInv, GrantedIsProven, OneAcceptor
<1>20. LiveIsProven'
  BY <1>11, <1>12 DEF AInv, LiveIsProven
<1>21. OutboundAsks'
  BY <1>2, <1>11, <1>12, <1>14, <1>15 DEF AInv, OutboundAsks
<1>22. ProvenIsTold'
  <2>1. \A g \in Hosts, c \in Conns :
           Proven(Peer(g), c)' => Proven(Peer(g), c) \/ (in # {} /\ c = b /\ m.n = 1)
    BY <1>12, PeerType
  <2>2. shut \subseteq shut'
    BY <1>9
  <2> QED BY <1>13, <1>14, <2>1, <2>2 DEF AInv, ProvenIsTold
<1> QED BY <1>16, <1>17, <1>18, <1>19, <1>20, <1>21, <1>22 DEF AInv

-----------------------------------------------------------------------------
(* The other steps.                                                        *)

\* The stream of a connecting session is up: it asks for dialback, or for what
\* it is to verify.
LEMMA OpenAgrees ==
    ASSUME Types, Numbered, AInv, NEW h \in Hosts, NEW i \in 1 .. Len(list[h]),
           list[h][i].kind # "in", wire[list[h][i].c][Incoming(list[h][i])] # <<>>,
           NEW m \in Message, m = Head(wire[list[h][i].c][Incoming(list[h][i])]), OutOpen(h, i, m)
    PROVE  AInv'
<1> DEFINE s == list[h][i]
           w == Taken(s)
           r == IF s.kind = "verify" THEN M("verify", s.ver) ELSE M("result", 0)
<1>1. /\ s \in Session /\ s \in Sessions(h) /\ s.kind # "in" /\ s.c \in Conns /\ s.ver \in Nat
      /\ Incoming(s) = "toOut"
  <2>1. s \in Session /\ s \in Sessions(h) /\ s.kind # "in"
    BY OneSession, ListSet
  <2> HIDE DEF s
  <2> QED BY <2>1 DEF Incoming, Session, Conns
<1>2. /\ list' = [list EXCEPT ![h][i].st = "ready"] /\ wire' = Put(w, s.c, "toIn", <<r>>)
      /\ UNCHANGED <<shut, conns>> /\ m.t = "open"
  BY DEF OutOpen
<1>3. /\ w \in Wires
      /\ \A c \in Conns, d \in Directions :
           /\ Way(w, c, d) \subseteq Way(wire, c, d)
           /\ d # "toOut" => Way(w, c, d) = Way(wire, c, d)
           /\ \A x \in Way(wire, c, d) : x \in Way(w, c, d) \/ x = m
  BY <1>1, WayTaken
<1>4. r \in Message /\ (r.t = "result" => s.kind # "verify")
  <2> HIDE DEF s
  <2> QED BY <1>1 DEF M, Msg, Message
<1>5. s.c <= conns /\ (s.kind # "verify" => \A g \in Hosts : ~Verifies(g, s.c))
  BY <1>1, NumberedSets DEF Dialled, Verifies
<1>6. /\ \A g \in Hosts : Descends(list[g], list'[g])
      /\ \A g \in Hosts, c \in Conns : LiveOut(g, c) => LiveOut(g, c)'
  BY <1>2, StreamCalm
<1> HIDE DEF w, r, s
<1>7. \A c \in Conns, d \in Directions :
         Way(wire', c, d) =
           IF c = s.c /\ d = "toIn" /\ <<s.c, "toIn">> \notin shut THEN Way(w, c, d) \cup {r}
           ELSE Way(w, c, d)
  <2>1. PICK b \in Conns, u \in Wires : b = s.c /\ u = w
    BY <1>1, <1>3
  <2>2. "toIn" \in Directions
    BY DEF Directions
  <2>3. Adds(u, Put(u, b, "toIn", <<r>>), b, "toIn", {r})
    BY <1>4, <2>2, WaySent
  <2>4. Adds(w, wire', b, "toIn", {r})
    BY <1>2, <2>1, <2>3
  <2> QED BY <2>1, <2>4 DEF Adds
<1>8. \A c \in Conns :
         /\ Way(wire', c, "toOut") \subseteq Way(wire, c, "toOut")
         /\ \A x \in Way(wire, c, "toOut") : x \in Way(wire', c, "toOut") \/ x = m
         /\ \A x \in Way(wire', c, "toIn") : x \in Way(wire, c, "toIn") \/ (x = r /\ c = s.c)
  BY <1>3, <1>7 DEF Directions
<1>9. Calm
  <2> SUFFICES ASSUME NEW c \in Conns
               PROVE  /\ Granted(c)' => Granted(c)
                      /\ Requested(c)' => Requested(c) \/ (c <= conns /\ \A g \in Hosts : ~Verifies(g, c))
                      /\ Way(wire, c, "toOut")' # {} => Way(wire, c, "toOut") # {}
                      /\ Granted(c) \/ Ending(c) => Granted(c)' \/ Ending(c)'
    BY DEF Calm
  <2>1. Granted(c)' => Granted(c)
    BY <1>8 DEF Granted
  <2>2. Requested(c)' => Requested(c) \/ (c <= conns /\ \A g \in Hosts : ~Verifies(g, c))
    BY <1>4, <1>5, <1>8 DEF Requested
  <2>3. Granted(c) => Granted(c)'
    <3>1. m # M("grant", 1)
      <4>1. M("grant", 1).t = "grant"
        BY DEF M
      <4> QED BY <1>2, <4>1
    <3> QED BY <1>8, <3>1 DEF Granted
  <2>4. Ending(c) => Ending(c)'
    BY <1>2, <1>8 DEF Ending
  <2> QED BY <1>8, <2>1, <2>2, <2>3, <2>4
<1>10. shut \subseteq shut' /\ UNCHANGED conns
  BY <1>2
<1>11. Faithful
  BY <1>6 DEF Faithful
<1> QED BY <1>6, <1>9, <1>10, <1>11, CalmKeeps

\* A connection breaks: what its sessions have still to read ends it.
LEMMA BreakAgrees ==
    ASSUME Types, Numbered, AInv, NEW h \in Hosts, NEW i \in 1 .. Len(list[h]), Break(h, i)
    PROVE  AInv'
<1> DEFINE s == list[h][i]
<1>1. s \in Sessions(h) /\ s.kind # "in" /\ s.st # "connecting" /\ s.c \in Conns
  BY OneSession, ListSet DEF Break
<1>2. UNCHANGED <<list, shut, conns>>
  BY DEF Break
<1>3. PICK m1 \in {"close", "reset"}, m2 \in {"close", "reset"}, keep \in BOOLEAN :
          wire' = [wire EXCEPT
              ![s.c].toIn = IF <<s.c, "toIn">> \in shut THEN <<>>
                            ELSE (IF keep THEN @ ELSE <<>>) \o <<M(m1, 0)>>,
              ![s.c].toOut = (IF keep THEN @ ELSE <<>>) \o <<M(m2, 0)>>]
  BY DEF Break
<1>4. PICK b \in Conns : b = s.c
  BY <1>1
<1> DEFINE p == wire[b].toIn
           q == wire[b].toOut
           a == M(m1, 0)
           z == M(m2, 0)
           in == IF <<b, "toIn">> \in shut THEN <<>> ELSE (IF keep THEN p ELSE <<>>) \o <<a>>
           out == (IF keep THEN q ELSE <<>>) \o <<z>>
<1>5. wire' = [wire EXCEPT ![b].toIn = in, ![b].toOut = out]
  <2> HIDE DEF s
  <2> QED BY <1>3, <1>4 DEF Types, Wires
<1>6. p \in Seq(Message) /\ q \in Seq(Message) /\ wire \in Wires
  BY DEF Types, Wires
<1>7. a \in Message /\ a.t # "result" /\ z \in Message /\ z.t \in {"close", "reset"} /\ z.t # "grant"
  BY DEF M, Msg, Message
<1> HIDE DEF a, z
<1>8. \A x \in Message : \A r \in Seq(Message) :
         /\ r \o <<x>> \in Seq(Message) /\ ToSet(r \o <<x>>) = ToSet(r) \cup {x}
  <2> TAKE x \in Message
  <2> TAKE r \in Seq(Message)
  <2>1. <<x>> \in Seq(Message)
    OBVIOUS
  <2>2. r \o <<x>> \in Seq(Message)
    BY <2>1, ConcatProperties
  <2>3. ToSet(r \o <<x>>) = ToSet(r) \cup ToSet(<<x>>)
    BY <2>1, SetJoined, ZenonT(60)
  <2> QED BY <2>2, <2>3, SetSmall
<1>9. <<>> \in Seq(Message) /\ ToSet(<<>>) = {}
  BY SetSmall, EmptySeq
<1>10. in \in Seq(Message) /\ ToSet(in) \subseteq ToSet(p) \cup {a}
  BY <1>6, <1>7, <1>8, <1>9
<1>11. /\ out \in Seq(Message) /\ z \in ToSet(out) /\ ToSet(out) \subseteq ToSet(q) \cup {z}
  BY <1>6, <1>7, <1>8, <1>9
<1> HIDE DEF in, out
<1> DEFINE u == With(wire, b, "toIn", in)
<1>12. wire' = With(u, b, "toOut", out)
  BY <1>5, <1>6 DEF With, Wires
<1>13. u \in Wires
  BY <1>6, <1>10, WireType DEF With
<1>14. \A c \in Conns, d \in Directions :
          Way(u, c, d) = IF c = b /\ d = "toIn" THEN ToSet(in) ELSE Way(wire, c, d)
  BY <1>6, <1>10, WaySet DEF Directions
<1> HIDE DEF u
<1>15. \A c \in Conns, d \in Directions :
          Way(wire', c, d) = IF c = b /\ d = "toOut" THEN ToSet(out) ELSE Way(u, c, d)
  BY <1>11, <1>12, <1>13, WaySet DEF Directions
<1>16. /\ Way(wire, b, "toIn") = ToSet(p) /\ Way(wire, b, "toOut") = ToSet(q)
  BY DEF Way
<1> HIDE DEF p, q
<1>17. \A c \in Conns :
          /\ \A x \in Way(wire', c, "toIn") : x \in Way(wire, c, "toIn") \/ x = a
          /\ \A x \in Way(wire', c, "toOut") : x \in Way(wire, c, "toOut") \/ (x = z /\ c = b)
          /\ c = b => z \in Way(wire', c, "toOut")
          /\ c # b => Way(wire', c, "toOut") = Way(wire, c, "toOut")
  BY <1>10, <1>11, <1>14, <1>15, <1>16 DEF Directions
<1>18. b <= conns /\ \A g \in Hosts : ~Dials(g, b)
  BY <1>1, <1>4, NumberedSets DEF Dialled, Dials
<1> HIDE DEF s
<1>19. Calm
  <2> SUFFICES ASSUME NEW c \in Conns
               PROVE  /\ Granted(c)' => Granted(c)
                      /\ Requested(c)' => Requested(c)
                      /\ Way(wire, c, "toOut")' # {} =>
                            Way(wire, c, "toOut") # {} \/ (c <= conns /\ \A g \in Hosts : ~Dials(g, c))
                      /\ Granted(c) \/ Ending(c) => Granted(c)' \/ Ending(c)'
    BY DEF Calm
  <2>1. z # M("grant", 1)
    BY <1>7 DEF M
  <2>2. Granted(c)' => Granted(c)
    BY <1>17, <2>1 DEF Granted
  <2>3. Requested(c)' => Requested(c)
    BY <1>7, <1>17 DEF Requested
  <2>4. Way(wire', c, "toOut") # {} =>
           Way(wire, c, "toOut") # {} \/ (c <= conns /\ \A g \in Hosts : ~Dials(g, c))
    BY <1>17, <1>18
  <2>5. Granted(c) \/ Ending(c) => Granted(c)' \/ Ending(c)'
    BY <1>7, <1>17 DEF Granted, Ending
  <2> QED BY <2>2, <2>3, <2>4, <2>5
<1>20. \A g \in Hosts : Descends(list[g], list'[g])
  BY <1>2 DEF Descends, Alike
<1>21. Faithful
  BY <1>2 DEF Faithful, LiveOut, Sessions
<1>22. shut \subseteq shut' /\ UNCHANGED conns
  BY <1>2
<1> QED BY <1>19, <1>20, <1>21, <1>22, CalmKeeps

\* A stanza is written, queued, or makes an outbound session.
LEMMA WriteAgrees ==
    ASSUME Types, Numbered, AInv, NEW h \in Hosts, Write(h)
    PROVE  AInv'
<1>1. PICK n \in Stanzas : n = sent[h] + 1
  BY S2SAssumption DEF Types, Write, Stanzas, S2SAssumption
<1>2. UNCHANGED shut
  BY DEF Write
<1>3. CASE Outbounds(h) = {}
  <2> DEFINE e == NewSession("out", conns + 1, "connecting", 0, <<n>>)
  <2>1. conns < MaxConns /\ conns' = conns + 1 /\ list' = [list EXCEPT ![h] = Append(list[h], e)]
        /\ UNCHANGED wire
    BY <1>1, <1>3 DEF Write
  <2>2. PICK b \in Conns : b = conns + 1
    BY <2>1, S2SAssumption DEF Types, Conns, S2SAssumption
  <2>3. e \in Session /\ e.kind # "in" /\ e.c = b /\ ~e.active /\ e.ver = 0
    <3>1. <<n>> \in Seq(Stanzas)
      OBVIOUS
    <3> QED BY <2>2, <3>1 DEF NewSession, Session
  <2>4. e.ver \notin Conns
    BY <2>3, S2SAssumption DEF Conns, S2SAssumption
  <2> HIDE DEF e
  <2>5. \A c \in Conns : /\ Way(wire', c, "toOut") = Way(wire, c, "toOut")
                         /\ Way(wire', c, "toIn") \subseteq Way(wire, c, "toIn")
    BY <2>1
  <2> QED BY <1>2, <2>1, <2>2, <2>3, <2>4, <2>5, FreshAgrees
<1>4. CASE Outbounds(h) # {}
  <2>1. PICK i \in 1 .. Len(list[h]) : i = ensureOutbound(h) /\ list[h][i].kind # "in"
    <3>1. Outbounds(h) \subseteq Nat
      BY DEF Outbounds
    <3>2. \E k \in Outbounds(h) : \A j \in Outbounds(h) : k <= j
      BY <1>4, <3>1, LeastNumber
    <3> QED BY <3>2 DEF ensureOutbound, Outbounds
  <2>2. SessionWrite(h, i, n) /\ conns' = conns
    BY <1>1, <1>4, <2>1 DEF Write
  <2> DEFINE s == list[h][i]
             m == M("stanza", n)
  <2>3. s \in Session /\ s.c \in Conns /\ wire \in Wires
    BY OneSession DEF Types
  <2>4. shut \subseteq shut'
    BY <1>2
  <2>5. CASE s.active
    <3>1. wire' = Put(wire, s.c, "toIn", <<m>>) /\ UNCHANGED list
      BY <2>2, <2>5 DEF SessionWrite
    <3>2. m \in Message /\ m.t # "result"
      BY DEF M, Msg, Message, Stanzas
    <3> HIDE DEF m, s
    <3>3. PICK b \in Conns : b = s.c
      BY <2>3
    <3>4. "toIn" \in Directions /\ "toOut" \in Directions
      BY DEF Directions
    <3>5. Adds(wire, wire', b, "toIn", {m})
      <4>1. Adds(wire, Put(wire, b, "toIn", <<m>>), b, "toIn", {m})
        BY <2>3, <3>2, <3>4, WaySent
      <4> QED BY <3>1, <3>3, <4>1
    <3>6. DiallerActs
      <4>1. \A c \in Conns :
               /\ Way(wire', c, "toOut") = Way(wire, c, "toOut")
               /\ \A x \in Way(wire', c, "toIn") : x \in Way(wire, c, "toIn") \/ x = m
        BY <3>4, <3>5 DEF Adds
      <4> QED BY <3>2, <4>1 DEF DiallerActs
    <3>7. \A g \in Hosts : Descends(list[g], list'[g])
      BY <3>1 DEF Descends, Alike
    <3>8. Faithful
      BY <3>1 DEF Faithful, LiveOut, Sessions
    <3>9. Calm
      BY <3>6, DiallerCalm
    <3> QED BY <2>2, <2>4, <3>7, <3>8, <3>9, CalmKeeps
  <2>6. CASE ~s.active
    <3> DEFINE r == Append(s.pending, n)
               e == [s EXCEPT !.pending = r]
    <3>1. list' = [list EXCEPT ![h][i].pending = Append(@, n)] /\ UNCHANGED wire
      BY <2>2, <2>6 DEF SessionWrite
    <3>2. list' = [list EXCEPT ![h] = [list[h] EXCEPT ![i] = e]]
      BY <3>1
    <3>3. s.pending \in Seq(Stanzas)
      <4> HIDE DEF s
      <4> QED BY <2>3 DEF Session
    <3>4. r \in Seq(Stanzas)
      <4> HIDE DEF s
      <4> QED BY <3>3, AppendProperties
    <3>5. e \in Session /\ Alike(s, e)
      <4> HIDE DEF s, r
      <4> QED BY <2>3, <3>4 DEF Session, Alike
    <3> HIDE DEF e
    <3>6. /\ \A g \in Hosts : Descends(list[g], list'[g])
          /\ \A g \in Hosts, c \in Conns : LiveOut(g, c) => LiveOut(g, c)'
      BY <3>2, <3>5, ReplacedCalm
    <3>7. Calm
      <4>1. DiallerActs
        BY <3>1 DEF DiallerActs
      <4> QED BY <4>1, DiallerCalm
    <3>8. Faithful
      BY <3>6 DEF Faithful
    <3> QED BY <2>2, <2>4, <3>6, <3>7, <3>8, CalmKeeps
  <2> QED BY <2>5, <2>6
<1> QED BY <1>3, <1>4

\* An acceptor that is asked for dialback asks back, about an outbound session.
LEMMA RequestAgrees ==
    ASSUME Types, Numbered, AInv, NEW h \in Hosts, NEW i \in 1 .. Len(list[h]),
           list[h][i].kind = "in", wire[list[h][i].c][Incoming(list[h][i])] # <<>>,
           NEW m \in Message, m = Head(wire[list[h][i].c][Incoming(list[h][i])]),
           dialbackRequest(h, i, m)
    PROVE  AInv'
<1> DEFINE s == list[h][i]
           w == Taken(s)
           e == NewSession("verify", conns + 1, "connecting", s.c, <<>>)
<1>1. s \in Session /\ s.c \in Conns /\ Incoming(s) = "toIn"
  BY OneSession DEF Incoming
<1>2. /\ conns < MaxConns /\ conns' = conns + 1 /\ list' = [list EXCEPT ![h] = Append(list[h], e)]
      /\ wire' = w /\ UNCHANGED shut /\ m.t = "result"
  BY DEF dialbackRequest
<1>3. /\ m \in Way(wire, s.c, "toIn")
      /\ \A c \in Conns : /\ Way(w, c, "toOut") = Way(wire, c, "toOut")
                         /\ Way(w, c, "toIn") \subseteq Way(wire, c, "toIn")
  BY <1>1, WayTaken DEF Directions
<1>4. s.c <= conns /\ \A g \in Hosts : ~Verifies(g, s.c)
  <2>1. Requested(s.c)
    BY <1>2, <1>3 DEF Requested
  <2> QED BY <1>1, <2>1 DEF AInv, OutboundAsks
<1>5. PICK b \in Conns : b = conns + 1
  <2>1. conns \in 0 .. MaxConns /\ MaxConns \in Nat /\ conns < MaxConns
    BY <1>2, S2SAssumption DEF Types, S2SAssumption
  <2>2. conns + 1 \in Conns
    BY <2>1 DEF Conns
  <2> QED BY <2>2
<1> HIDE DEF w
<1>6. e \in Session /\ e.kind # "in" /\ e.c = b /\ ~e.active /\ e.ver = s.c
  <2> HIDE DEF s
  <2>1. <<>> \in Seq(Stanzas)
    BY EmptySeq
  <2> QED BY <1>1, <1>5, <2>1 DEF NewSession, Session
<1> HIDE DEF e, s
<1>7. e.ver <= conns /\ \A g \in Hosts : ~Verifies(g, e.ver)
  BY <1>4, <1>6
<1>8. \A c \in Conns : /\ Way(wire', c, "toOut") = Way(wire, c, "toOut")
                       /\ Way(wire', c, "toIn") \subseteq Way(wire, c, "toIn")
  BY <1>2, <1>3
<1> QED BY <1>2, <1>5, <1>6, <1>7, <1>8, FreshAgrees

\* The accepting side.
LEMMA InAgrees ==
    ASSUME Types, Numbered, AInv, NEW h \in Hosts, NEW i \in 1 .. Len(list[h]),
           list[h][i].kind = "in", wire[list[h][i].c][Incoming(list[h][i])] # <<>>,
           NEW m \in Message, m = Head(wire[list[h][i].c][Incoming(list[h][i])]),
           \/ InOpen(h, i, m) \/ dialbackRequest(h, i, m) \/ dialbackVerifyRequest(h, i, m)
           \/ StanzaReceived(h, i, m) \/ InGone(h, i, m)
    PROVE  AInv'
<1> DEFINE s == list[h][i]
           w == Taken(s)
<1>1. s \in Session /\ s \in Sessions(h) /\ s.kind = "in" /\ s.c \in Conns /\ Incoming(s) = "toIn"
  BY OneSession, ListSet DEF Incoming
<1>2. Reads(w, "toIn")
  BY <1>1, WayTaken DEF Reads
<1>4. ASSUME NEW r \in Message, r.t # "grant", wire' = Put(w, s.c, "toOut", <<r>>),
             UNCHANGED <<shut, conns>>,
             list' = [list EXCEPT ![h][i].st = "ready"] \/ UNCHANGED list
      PROVE  AInv'
  <2>1. PICK b \in Conns, u \in Wires : b = s.c /\ u = w
    BY <1>1, <1>2 DEF Reads
  <2>2. "toOut" \in Directions /\ "toIn" \in Directions
    BY DEF Directions
  <2>3. Adds(u, Put(u, b, "toOut", <<r>>), b, "toOut", {r})
    BY <2>2, WaySent
  <2>4. \A g \in Hosts : Descends(list[g], list'[g])
    <3>1. CASE UNCHANGED list
      BY <3>1 DEF Descends, Alike
    <3>2. CASE list' = [list EXCEPT ![h][i].st = "ready"]
      BY <3>2, StreamCalm
    <3> QED BY <1>4, <3>1, <3>2
  <2>5. Faithful
    <3>1. CASE UNCHANGED list
      BY <3>1 DEF Faithful, LiveOut, Sessions
    <3>2. CASE list' = [list EXCEPT ![h][i].st = "ready"]
      BY <3>2, StreamCalm DEF Faithful
    <3> QED BY <1>4, <3>1, <3>2
  <2> HIDE DEF w, s
  <2>6. Adds(w, wire', b, "toOut", {r})
    <3>1. wire' = Put(u, b, "toOut", <<r>>)
      BY <1>4, <2>1
    <3> QED BY <2>1, <2>3, <3>1
  <2>7. AcceptorActs(s.c)
    <3>1. \A c \in Conns :
             /\ Way(wire', c, "toIn") = Way(w, c, "toIn")
             /\ Way(wire', c, "toOut") = IF c = s.c /\ <<b, "toOut">> \notin shut
                                        THEN Way(w, c, "toOut") \cup {r} ELSE Way(w, c, "toOut")
      BY <2>1, <2>2, <2>6 DEF Adds
    <3>2. \A c \in Conns :
             Way(w, c, "toIn") \subseteq Way(wire, c, "toIn") /\ Way(w, c, "toOut") = Way(wire, c, "toOut")
      BY <1>2, <2>2 DEF Reads
    <3> QED BY <1>4, <3>1, <3>2 DEF AcceptorActs
  <2>8. Calm
    BY <1>1, <2>7, AcceptorCalm
  <2>9. shut \subseteq shut' /\ UNCHANGED conns
    BY <1>4
  <2> QED BY <2>4, <2>5, <2>8, <2>9, CalmKeeps
<1>5. CASE InOpen(h, i, m)
  <2> DEFINE r == M("open", s.c)
  <2>1. r \in Message /\ r.t # "grant"
    <3>1. s.c \in Nat
      BY <1>1 DEF Conns
    <3> HIDE DEF s
    <3> QED BY <3>1 DEF M, Message, Msg
  <2>2. wire' = Put(w, s.c, "toOut", <<r>>) /\ list' = [list EXCEPT ![h][i].st = "ready"]
        /\ UNCHANGED <<shut, conns>>
    BY <1>5 DEF InOpen
  <2> HIDE DEF r, s, w
  <2> QED BY <1>4, <2>1, <2>2
<1>6. CASE dialbackRequest(h, i, m)
  BY <1>6, RequestAgrees
<1>7. CASE dialbackVerifyRequest(h, i, m)
  <2> DEFINE r == M("vgrant", IF pendingOutboundSession(h, m.n) THEN 1 ELSE 0)
  <2>1. r \in Message /\ r.t # "grant"
    BY DEF M, Message, Msg
  <2>2. wire' = Put(w, s.c, "toOut", <<r>>) /\ UNCHANGED <<list, shut, conns>>
    BY <1>7 DEF dialbackVerifyRequest
  <2> HIDE DEF r, s, w
  <2> QED BY <1>4, <2>1, <2>2
<1>8. CASE StanzaReceived(h, i, m)
  <2>1. CASE s.validated
    <3>1. wire' = w /\ UNCHANGED <<list, shut, conns>>
      BY <1>8, <2>1 DEF StanzaReceived
    <3>2. AcceptorActs(s.c)
      BY <1>2, <3>1 DEF AcceptorActs, Reads, Directions
    <3>3. Calm
      BY <1>1, <3>2, AcceptorCalm
    <3>4. Faithful /\ \A g \in Hosts : Descends(list[g], list'[g])
      BY <3>1 DEF Faithful, LiveOut, Sessions, Descends, Alike
    <3>5. shut \subseteq shut' /\ UNCHANGED conns
      BY <3>1
    <3> QED BY <3>3, <3>4, <3>5, CalmKeeps
  <2>2. CASE ~s.validated
    <3>1. list' = [list EXCEPT ![h] = RemoveAt(list[h], i)] /\ CloseEnd(w, s) /\ UNCHANGED conns
      BY <1>8, <2>2 DEF StanzaReceived, Done
    <3> QED BY <1>2, <3>1, AcceptorCloses
  <2> QED BY <2>1, <2>2
<1>9. CASE InGone(h, i, m)
  <2>1. /\ \/ list' = [list EXCEPT ![h] = RemoveAt(list[h], i)]
           \/ list' = [list EXCEPT ![h][i].st = "dead"]
        /\ CloseEnd(w, s) /\ UNCHANGED conns
    BY <1>9 DEF InGone, Done
  <2> QED BY <1>2, <2>1, AcceptorCloses
<1> QED BY <1>5, <1>6, <1>7, <1>8, <1>9

\* The connecting side.
LEMMA OutAgrees ==
    ASSUME Types, Numbered, AInv, NEW h \in Hosts, NEW i \in 1 .. Len(list[h]),
           list[h][i].kind # "in", wire[list[h][i].c][Incoming(list[h][i])] # <<>>,
           NEW m \in Message, m = Head(wire[list[h][i].c][Incoming(list[h][i])]),
           \/ OutOpen(h, i, m) \/ dialbackResult(h, i, m)
           \/ dialbackVerifyResult(h, i, m) \/ OutGone(h, i, m)
    PROVE  AInv'
<1> DEFINE s == list[h][i]
           w == Taken(s)
<1>1. s.c \in Conns /\ Incoming(s) = "toOut"
  BY OneSession DEF Incoming
<1>2. Reads(w, "toOut")
  BY <1>1, WayTaken DEF Reads
<1>3. \A c \in Conns : c # s.c => Way(w, c, "toOut") = Way(wire, c, "toOut")
  BY WayTaken DEF Directions
<1>4. \A c \in Conns : \A x \in Way(wire, c, "toOut") : x \in Way(w, c, "toOut") \/ x = m
  BY WayTaken DEF Directions
<1>5. CASE OutOpen(h, i, m)
  BY <1>5, OpenAgrees
<1>6. CASE dialbackResult(h, i, m)
  <2>1. CASE m.n = 1
    BY <1>6, <2>1, GrantAgrees
  <2>2. CASE m.n # 1
    <3>1. wire' = w /\ UNCHANGED <<list, shut, conns>> /\ m.t = "grant"
      BY <1>6, <2>2 DEF dialbackResult
    <3>2. m # M("grant", 1)
      BY <2>2 DEF M
    <3> HIDE DEF w
    <3>3. DiallerActs
      BY <1>2, <1>4, <3>1, <3>2 DEF DiallerActs, Reads, Directions
    <3>4. Calm
      BY <3>3, DiallerCalm
    <3>5. Faithful /\ \A g \in Hosts : Descends(list[g], list'[g])
      BY <3>1 DEF Faithful, LiveOut, Sessions, Descends, Alike
    <3>6. shut \subseteq shut' /\ UNCHANGED conns
      BY <3>1
    <3> QED BY <3>4, <3>5, <3>6, CalmKeeps
  <2> QED BY <2>1, <2>2
<1>7. CASE dialbackVerifyResult(h, i, m)
  BY <1>7, VerifiedAgrees
<1>8. CASE OutGone(h, i, m)
  <2>1. StreamGone(h, i, w) /\ UNCHANGED conns
    BY <1>8 DEF OutGone
  <2> HIDE DEF w
  <2> QED BY <1>2, <1>3, <2>1, DiallerCloses
<1> QED BY <1>5, <1>6, <1>7, <1>8

\* A connection attempt fails.
LEMMA FailedAgrees ==
    ASSUME Types, Numbered, AInv, NEW h \in Hosts, NEW i \in 1 .. Len(list[h]), ConnectFailed(h, i)
    PROVE  AInv'
<1>1. list[h][i].kind # "in" /\ StreamGone(h, i, wire) /\ UNCHANGED conns
  BY DEF ConnectFailed, Numbered
<1>2. Reads(wire, "toOut")
  BY DEF Reads, Types
<1> QED BY <1>1, <1>2, DiallerCloses

-----------------------------------------------------------------------------
(* The theorems.                                                           *)

\* Nobody agrees on anything at the start.
LEMMA InitAgrees == Init => AInv
<1> SUFFICES ASSUME Init PROVE AInv
  OBVIOUS
<1>1. \A h \in Hosts : Sessions(h) = {}
  BY SetSmall DEF Init, Sessions
<1>2. \A c \in Conns, d \in Directions : Way(wire, c, d) = {}
  BY SetSmall DEF Init, Way, Directions
<1>3. \A c \in Conns : Way(wire, c, "toOut") = {} /\ Way(wire, c, "toIn") = {}
  BY <1>2 DEF Directions
<1>4. OneAcceptor /\ DialledIsNew /\ NumbersAreNew
  BY <1>1, <1>3 DEF OneAcceptor, DialledIsNew, NumbersAreNew, Accepts, Dials
<1>5. GrantedIsProven /\ LiveIsProven
  BY <1>1, <1>3 DEF GrantedIsProven, LiveIsProven, Granted, Live
<1>6. OutboundAsks
  BY <1>1, <1>3 DEF OutboundAsks, Requested, AsksAbout, Proven
<1>7. ProvenIsTold
  BY <1>1, PeerType DEF ProvenIsTold, Proven
<1> QED BY <1>4, <1>5, <1>6, <1>7 DEF AInv

\* Every step keeps the agreement.
LEMMA StepAgrees == Types /\ Types' /\ DInv /\ DInv' /\ AInv /\ [Next]_vars => AInv'
<1> SUFFICES ASSUME Types, Types', DInv, DInv', AInv, [Next]_vars PROVE AInv'
  OBVIOUS
<1>1. Numbered /\ Numbered'
  BY DEF DInv
<1>2. ASSUME NEW h \in Hosts, Write(h) PROVE AInv'
  BY <1>1, <1>2, WriteAgrees
<1>3. ASSUME NEW h \in Hosts, NEW i \in 1 .. Len(list[h]),
             Connected(h, i) \/ ConnectFailed(h, i) \/ Break(h, i)
      PROVE  AInv'
  BY <1>1, <1>3, ConnectedAgrees, FailedAgrees, BreakAgrees
<1>4. ASSUME NEW h \in Hosts, NEW i \in 1 .. Len(list[h]), Receive(h, i) PROVE AInv'
  <2>1. wire[list[h][i].c][Incoming(list[h][i])] # <<>>
    BY <1>4 DEF Receive
  <2>2. PICK m \in Message : m = Head(wire[list[h][i].c][Incoming(list[h][i])])
    BY <2>1, TakenType
  <2>3. CASE list[h][i].kind = "in"
    <3>1. \/ InOpen(h, i, m) \/ dialbackRequest(h, i, m) \/ dialbackVerifyRequest(h, i, m)
          \/ StanzaReceived(h, i, m) \/ InGone(h, i, m)
      BY <1>4, <2>2, <2>3 DEF Receive
    <3> QED BY <1>1, <2>1, <2>2, <2>3, <3>1, InAgrees
  <2>4. CASE list[h][i].kind # "in"
    <3>1. \/ OutOpen(h, i, m) \/ dialbackResult(h, i, m)
          \/ dialbackVerifyResult(h, i, m) \/ OutGone(h, i, m)
      BY <1>4, <2>2, <2>4 DEF Receive
    <3> QED BY <1>1, <2>1, <2>2, <2>4, <3>1, OutAgrees
  <2> QED BY <2>3, <2>4
<1>5. CASE UNCHANGED vars
  <2>1. UNCHANGED <<list, wire, shut, conns>>
    BY <1>5 DEF vars
  <2>2. DiallerActs
    BY <2>1 DEF DiallerActs
  <2>3. Calm
    BY <2>2, DiallerCalm
  <2>4. Faithful /\ \A g \in Hosts : Descends(list[g], list'[g])
    BY <2>1 DEF Faithful, LiveOut, Sessions, Descends, Alike
  <2> QED BY <2>1, <2>3, <2>4, CalmKeeps
<1> QED BY <1>2, <1>3, <1>4, <1>5 DEF Next

\* The agreement holds in every reachable state.
LEMMA Agreement == Spec => [](Types /\ AInv)
<1>1. Spec => []DInv
  BY InitDelivery, StepDelivery, Reachable, PTL DEF Spec
<1> QED BY <1>1, InitAgrees, StepAgrees, Reachable, PTL DEF Spec

\* Whoever writes through is validated by the session that accepted the
\* connection, so none of its stanzas ends the stream.
THEOREM ActiveAgrees == Spec => []ActiveIsValidated
<1>1. ASSUME Types, AInv PROVE ActiveIsValidated
  <2> SUFFICES ASSUME NEW h \in Hosts, NEW i \in SessionsOf(h, "out"),
                      NEW k \in SessionsOf(Peer(h), "in"),
                      list[h][i].active, list[Peer(h)][k].c = list[h][i].c
               PROVE  list[Peer(h)][k].validated
    BY DEF ActiveIsValidated
  <2>1. PICK p \in Hosts : p = Peer(h)
    BY PeerType
  <2> DEFINE s == list[h][i]
             t == list[p][k]
  <2>2. i \in 1 .. Len(list[h]) /\ s.kind = "out" /\ s.active
    BY DEF SessionsOf
  <2>3. k \in 1 .. Len(list[p]) /\ t.kind = "in" /\ t.c = s.c
    BY <2>1 DEF SessionsOf
  <2>4. s \in Sessions(h) /\ s.c \in Conns
    BY <1>1, <2>2, ListSet, OneSession
  <2>5. t \in Sessions(p)
    BY <1>1, <2>3, ListSet
  <2> HIDE DEF s, t
  <2>6. Live(h, s.c)
    BY <2>4, <2>2 DEF Live, s
  <2>7. ~Unproven(p, s.c)
    BY <1>1, <2>4, <2>6 DEF AInv, LiveIsProven
  <2>8. t.validated
    BY <2>5, <2>7, <2>3 DEF Unproven
  <2> QED BY <2>1, <2>8 DEF t
<1> QED BY <1>1, Agreement, PTL

\* A session is validated only when the connecting side was told, will be, or
\* has lost the connection.
THEOREM ValidatedAgrees == Spec => []ValidatedWasAsked
<1>1. ASSUME Types, AInv PROVE ValidatedWasAsked
  <2> SUFFICES ASSUME NEW h \in Hosts, NEW k \in SessionsOf(Peer(h), "in"),
                      list[Peer(h)][k].validated, NEW c, c = list[Peer(h)][k].c
               PROVE  \/ <<c, "toOut">> \in shut
                      \/ \E j \in 1 .. Len(wire[c].toOut) :
                            wire[c].toOut[j].t \in {"grant", "close", "reset"}
                      \/ \E i \in SessionsOf(h, "out") : list[h][i].c = c /\ list[h][i].active
    BY DEF ValidatedWasAsked
  <2>1. PICK p \in Hosts : p = Peer(h)
    BY PeerType
  <2> DEFINE t == list[p][k]
  <2>2. k \in 1 .. Len(list[p]) /\ t.kind = "in" /\ t.c = c /\ t.validated
    BY <2>1 DEF SessionsOf
  <2>3. t \in Sessions(p) /\ c \in Conns
    BY <1>1, <2>2, ListSet, OneSession
  <2> HIDE DEF t
  <2>4. Proven(p, c)
    BY <2>3, <2>2 DEF Proven
  <2>5. <<c, "toOut">> \in shut \/ Granted(c) \/ Ending(c) \/ LiveOut(h, c)
    BY <1>1, <2>1, <2>3, <2>4 DEF AInv, ProvenIsTold
  <2>6. wire[c].toOut \in Seq(Message)
    BY <1>1, <2>3 DEF Types, Wires
  <2>7. ASSUME NEW x \in Way(wire, c, "toOut")
        PROVE  \E j \in 1 .. Len(wire[c].toOut) : wire[c].toOut[j] = x
    BY <2>6, SetOf DEF Way
  <2>8. CASE Granted(c)
    <3>1. M("grant", 1).t = "grant"
      BY DEF M
    <3> QED BY <2>7, <2>8, <3>1 DEF Granted
  <2>9. CASE Ending(c)
    BY <2>7, <2>9 DEF Ending
  <2>10. CASE LiveOut(h, c)
    <3>1. PICK s \in Sessions(h) : s.kind = "out" /\ s.c = c /\ s.active
      BY <2>10 DEF LiveOut
    <3>2. PICK i \in 1 .. Len(list[h]) : list[h][i] = s
      BY <1>1, ListSet
    <3> QED BY <3>1, <3>2 DEF SessionsOf
  <2> QED BY <2>5, <2>8, <2>9, <2>10
<1> QED BY <1>1, Agreement, PTL

-----------------------------------------------------------------------------
(***************************************************************************)
(* The link                                                                *)
(***************************************************************************)
\* Only one host's users send.  (When both do, the queue of a verify session
\* is lost with it, and the link with the queue.)
OneSender == Senders = {Sender}

\* Before the first stanza there is nothing.
Idle ==
    /\ \A h \in Hosts : list[h] = <<>>
    /\ \A c \in Conns : wire[c].toIn = <<>> /\ wire[c].toOut = <<>>
    /\ conns = 0 /\ shut = {} /\ sent[Sender] = 0 /\ got[Sender] = <<>>

\* Then the sender has one outbound session, of the first connection, and the
\* other host's verify sessions queue nothing.
Kinds ==
    \A h \in Hosts : \A s \in Sessions(h) :
        /\ s.kind = "out" => h = Sender /\ s.c = 1
        /\ s.kind = "verify" => h # Sender /\ s.pending = <<>>

\* No other connection asks for dialback or carries a stanza.
NoTrain(w) == \A c \in Conns : c # 1 => \A m \in Way(w, c, "toIn") : m.t \notin {"result", "stanza"}

\* The stanzas after the first n, k of them.
Train(n, k) == [j \in 1 .. k |-> M("stanza", n + j)]
Counted(n) == [k \in 1 .. n |-> k]

Grants == \A m \in Way(wire, 1, "toOut") : m.t = "grant"

\* The outbound session o goes through the exchange in one order; until it is
\* granted all stanzas are in its queue, and then all that were not taken are on
\* the wire.
Queueing(o) == ~o.active /\ got[Sender] = <<>> /\ o.pending = Counted(sent[Sender])
Wired(in, out) == wire[1].toIn = in /\ wire[1].toOut = out

Dialling(o) == Queueing(o) /\ o.st = "connecting" /\ Wired(<<>>, <<>>)
Greeting(o) == Queueing(o) /\ o.st = "opening" /\ Wired(<<M("open", 0)>>, <<>>)
Greeted(o) == Queueing(o) /\ o.st = "opening" /\ Wired(<<>>, <<M("open", 1)>>)
Asking(o) == Queueing(o) /\ o.st = "ready" /\ Wired(<<M("result", 0)>>, <<>>)
Awaiting(o) == Queueing(o) /\ o.st = "ready" /\ wire[1].toIn = <<>> /\ Grants
Sending(o) ==
    /\ o.active /\ o.st = "ready" /\ Grants
    /\ Len(got[Sender]) <= sent[Sender]
    /\ wire[1].toIn = Train(Len(got[Sender]), sent[Sender] - Len(got[Sender]))

Stage(o) == Dialling(o) \/ Greeting(o) \/ Greeted(o) \/ Asking(o) \/ Awaiting(o) \/ Sending(o)

\* Nobody is asked about the connection before its request was read.
AskedLate(o) == (\E h \in Hosts : AsksAbout(h, 1)) => Awaiting(o) \/ Sending(o)

Open(c) == <<c, "toIn">> \notin shut /\ <<c, "toOut">> \notin shut

Running ==
    /\ 1 <= conns /\ Kinds /\ NoTrain(wire) /\ Open(1)
    /\ \E o \in Sessions(Sender) : o.kind = "out" /\ Stage(o) /\ AskedLate(o)

LInv == breaks = 0 => Idle \/ Running

-----------------------------------------------------------------------------
(* The wires, message by message.                                          *)

\* The number of connections is a number.
LEMMA ConnsCounted == Types => conns \in Nat
BY DEF Types

\* The sender is a host, and the only one that writes.
LEMMA SenderType == OneSender => Sender \in Hosts /\ \A h \in Senders : h = Sender
BY S2SAssumption DEF OneSender, S2SAssumption

\* w is v with x in one place.
Puts(w, v, b, dir, x) ==
    \A c \in Conns, d \in Directions : w[c][d] = IF c = b /\ d = dir THEN x ELSE v[c][d]

\* One direction of a connection changes.
LEMMA WithAt ==
    ASSUME NEW w \in Wires, NEW b \in Conns, NEW dir \in Directions, NEW x
    PROVE  Puts(With(w, b, dir, x), w, b, dir, x)
<1> DEFINE v == With(w, b, dir, x)
<1>1. \A c \in Conns : v[c] = IF c = b THEN [w[b] EXCEPT ![dir] = x] ELSE w[c]
  BY DEF Wires, With
<1>2. \A d \in Directions : [w[b] EXCEPT ![dir] = x][d] = IF d = dir THEN x ELSE w[b][d]
  BY DEF Wires, Directions
<1> HIDE DEF v
<1>3. \A c \in Conns, d \in Directions : v[c][d] = IF c = b /\ d = dir THEN x ELSE w[c][d]
  BY <1>1, <1>2
<1> QED BY <1>3 DEF v, Puts

\* A session reads the first message of its wire.
LEMMA TakenAt ==
    ASSUME Types, NEW h \in Hosts, NEW i \in 1 .. Len(list[h]), NEW s, s = list[h][i]
    PROVE  /\ s.c \in Conns /\ Incoming(s) \in Directions
           /\ Puts(Taken(s), wire, s.c, Incoming(s), Tail(wire[s.c][Incoming(s)]))
<1>1. s.c \in Conns /\ Incoming(s) \in Directions /\ wire \in Wires
  BY OneSession DEF Types, Directions
<1> DEFINE x == Tail(wire[s.c][Incoming(s)])
<1>2. Taken(s) = With(wire, s.c, Incoming(s), x)
  BY DEF Taken, With
<1> HIDE DEF x
<1>3. Puts(With(wire, s.c, Incoming(s), x), wire, s.c, Incoming(s), x)
  BY <1>1, WithAt
<1> QED BY <1>1, <1>2, <1>3 DEF x

\* Messages are written to a reader that has not closed.
LEMMA PutAt ==
    ASSUME NEW w \in Wires, NEW b \in Conns, NEW dir \in Directions, NEW ms
    PROVE  Puts(Put(w, b, dir, ms), w, b, dir,
                IF <<b, dir>> \in shut THEN w[b][dir] ELSE w[b][dir] \o ms)
<1>1. CASE <<b, dir>> \in shut
  BY <1>1 DEF Put, Puts
<1>2. CASE <<b, dir>> \notin shut
  <2> DEFINE x == w[b][dir] \o ms
  <2>1. Put(w, b, dir, ms) = With(w, b, dir, x)
    BY <1>2 DEF Put, With
  <2> HIDE DEF x
  <2>2. Puts(With(w, b, dir, x), w, b, dir, x)
    BY WithAt
  <2> QED BY <1>2, <2>1, <2>2 DEF x
<1> QED BY <1>1, <1>2

\* An end closes; the other connections are as they were.
LEMMA ClosedAt ==
    ASSUME NEW s \in Session, NEW w \in Wires, CloseEnd(w, s)
    PROVE  /\ shut' = shut \cup {<<s.c, Incoming(s)>>}
           /\ \A c \in Conns, d \in Directions : c # s.c => wire'[c][d] = w[c][d]
           /\ \A c \in Conns : \A m \in Way(wire', c, "toIn") : m \in Way(w, c, "toIn") \/ m.t = "close"
<1> DEFINE m == M("close", 0)
           v == Put(w, s.c, Back(Incoming(s)), <<m>>)
           none == <<>>
<1>1. s.c \in Conns /\ Incoming(s) \in Directions /\ Back(Incoming(s)) \in Directions
  BY DEF Session, Incoming, Back, Directions
<1>2. m \in Message /\ m.t = "close"
  BY DEF M, Msg, Message
<1>3. wire' = With(v, s.c, Incoming(s), none) /\ shut' = shut \cup {<<s.c, Incoming(s)>>}
  BY DEF CloseEnd, With
<1> HIDE DEF m, none
<1>4. v \in Wires
  BY <1>1, <1>2, WaySent
<1>5. \A c \in Conns, d \in Directions : c # s.c => v[c][d] = w[c][d]
  <2>1. PICK b \in Conns, dir \in Directions : b = s.c /\ dir = Back(Incoming(s))
    BY <1>1
  <2>2. PICK ms : ms = <<m>>
    OBVIOUS
  <2>3. \E x : Puts(Put(w, b, dir, ms), w, b, dir, x)
    BY PutAt
  <2> QED BY <2>1, <2>2, <2>3 DEF Puts
<1> HIDE DEF v
<1>6. \A c \in Conns, d \in Directions : c # s.c => wire'[c][d] = v[c][d]
  BY <1>1, <1>3, <1>4, WithAt DEF Puts
<1>7. \A c \in Conns, d \in Directions :
         Way(wire', c, d) =
           IF c # s.c THEN Way(w, c, d)
           ELSE IF d = Incoming(s) THEN {}
           ELSE IF <<c, d>> \in shut THEN Way(w, c, d) ELSE Way(w, c, d) \cup {m}
  BY WayClosed DEF m
<1>8. \A c \in Conns : \A x \in Way(wire', c, "toIn") : x \in Way(w, c, "toIn") \/ x.t = "close"
  <2> SUFFICES ASSUME NEW c \in Conns, NEW x \in Way(wire', c, "toIn")
               PROVE  x \in Way(w, c, "toIn") \/ x.t = "close"
    OBVIOUS
  <2>1. "toIn" \in Directions
    BY DEF Directions
  <2>2. Way(wire', c, "toIn") \in {Way(w, c, "toIn"), {}, Way(w, c, "toIn") \cup {m}}
    BY <1>7, <2>1
  <2> QED BY <1>2, <2>2
<1> QED BY <1>3, <1>5, <1>6, <1>8

-----------------------------------------------------------------------------
(* What goes on elsewhere.                                                 *)

\* What all these steps have in common: the outbound session o, in the stage it
\* is in.
Ongoing(o) ==
    /\ Types /\ Dialled /\ OneSender /\ 1 \in Conns
    /\ 1 <= conns /\ Kinds /\ NoTrain(wire) /\ Open(1)
    /\ o \in Sessions(Sender) /\ o.kind = "out" /\ Stage(o) /\ AskedLate(o)

\* Everything about the sender's connection is session o and its acceptor.
LEMMA WhoseOne ==
    ASSUME NEW o, Ongoing(o), NEW h \in Hosts, NEW s \in Sessions(h)
    PROVE  /\ Sender \in Hosts /\ o.c = 1 /\ o \in Session
           /\ h = Sender /\ (s.c = 1 \/ s.kind # "in") => s = o
           /\ h # Sender /\ s.kind # "in" => s.kind = "verify" /\ s.pending = <<>> /\ s.c # 1
<1>1. Sender \in Hosts /\ o \in Sessions(Sender) /\ o.kind = "out"
  BY SenderType DEF Ongoing
<1>2. o.c = 1 /\ o \in Session /\ s \in Session
  BY <1>1 DEF Ongoing, Kinds, Dialled
<1>3. s.kind \in {"in", "out", "verify"}
  BY <1>2 DEF Session
<1>4. s.kind = "out" => h = Sender /\ s.c = 1
  BY DEF Ongoing, Kinds
<1>5. s.kind = "verify" => h # Sender /\ s.pending = <<>>
  BY DEF Ongoing, Kinds
<1>6. o.c = s.c => (h = Sender => o = s) /\ (h # Sender => s.kind = "in")
  BY <1>1 DEF Ongoing, Dialled
<1> QED BY <1>1, <1>2, <1>3, <1>4, <1>5, <1>6

\* No session becomes of another kind.
LEMMA KindsKept ==
    ASSUME Types, Types', Kinds, \A g \in Hosts : Drains(list[g], list'[g])
    PROVE  Kinds'
<1>1. ASSUME NEW g \in Hosts, NEW t \in Sessions(g)'
      PROVE  \E r \in Sessions(g) : t.kind = r.kind /\ t.c = r.c /\ t.pending \in {r.pending, <<>>}
  <2>1. PICK j \in 1 .. Len(list'[g]) : list'[g][j] = t
    <3>1. list'[g] \in Seq(Session)
      BY DEF Types
    <3> QED BY <3>1, SetOf DEF Sessions
  <2>2. PICK i \in 1 .. Len(list[g]) :
            t.kind = list[g][i].kind /\ t.c = list[g][i].c /\ t.pending \in {list[g][i].pending, <<>>}
    BY <2>1 DEF Drains
  <2> QED BY <2>2, ListSet
<1>2. \A g \in Hosts : \A r \in Sessions(g) :
         /\ r.kind = "out" => g = Sender /\ r.c = 1
         /\ r.kind = "verify" => g # Sender /\ r.pending = <<>>
  BY DEF Kinds
<1>3. \A g \in Hosts : \A t \in Sessions(g)' :
         /\ t.kind = "out" => g = Sender /\ t.c = 1
         /\ t.kind = "verify" => g # Sender /\ t.pending = <<>>
  BY <1>1, <1>2
<1> QED BY <1>3 DEF Kinds

\* The connection of o is left alone.
SameOne == \A d \in Directions : wire'[1][d] = wire[1][d]

\* The exchange stays where it is.
LEMMA StageKept ==
    ASSUME SameOne, UNCHANGED <<sent, got>>
    PROVE  \A o : (Stage(o) => Stage(o)') /\ (Awaiting(o) \/ Sending(o) => (Awaiting(o) \/ Sending(o))')
<1>1. wire'[1].toIn = wire[1].toIn /\ wire'[1].toOut = wire[1].toOut
  BY DEF SameOne, Directions
<1>2. \A in, out : Wired(in, out)' <=> Wired(in, out)
  BY <1>1 DEF Wired
<1>3. Grants' <=> Grants
  BY <1>1 DEF Grants, Way
<1>4. \A o : Queueing(o)' <=> Queueing(o)
  BY DEF Queueing
<1>5. \A o : Dialling(o) => Dialling(o)'
  BY <1>2, <1>4 DEF Dialling
<1>6. \A o : Greeting(o) => Greeting(o)'
  BY <1>2, <1>4 DEF Greeting
<1>7. \A o : Greeted(o) => Greeted(o)'
  BY <1>2, <1>4 DEF Greeted
<1>8. \A o : Asking(o) => Asking(o)'
  BY <1>2, <1>4 DEF Asking
<1>9. \A o : Awaiting(o) => Awaiting(o)'
  BY <1>1, <1>3, <1>4 DEF Awaiting
<1>10. \A o : Sending(o) => Sending(o)'
  BY <1>1, <1>3 DEF Sending
<1> QED BY <1>5, <1>6, <1>7, <1>8, <1>9, <1>10 DEF Stage

\* A step of another connection.
LEMMA ElsewhereKeeps ==
    ASSUME NEW o, Ongoing(o), Types', conns' >= conns, UNCHANGED <<sent, got>>,
           \A g \in Hosts : Drains(list[g], list'[g]),
           \A g \in Hosts : AsksAbout(g, 1)' => AsksAbout(g, 1),
           o \in Sessions(Sender)', SameOne, NoTrain(wire'), Open(1)'
    PROVE  Running'
<1>1. Kinds'
  BY KindsKept DEF Ongoing
<1>2. 1 <= conns'
  BY DEF Ongoing, Types
<1>3. Stage(o)' /\ AskedLate(o)'
  BY StageKept DEF AskedLate, Ongoing
<1>4. o.kind = "out"
  BY DEF Ongoing
<1> QED BY <1>1, <1>2, <1>3, <1>4 DEF Running

\* The stream of another session changes its state, or the session leaves.
LEMMA OthersKeep ==
    ASSUME NEW o, Ongoing(o), NEW h \in Hosts, NEW i \in 1 .. Len(list[h]), list[h][i].c # 1,
           \/ UNCHANGED list
           \/ \E st \in {"opening", "ready", "dead"} : list' = [list EXCEPT ![h][i].st = st]
           \/ list' = [list EXCEPT ![h] = RemoveAt(list[h], i)]
    PROVE  /\ \A g \in Hosts : Drains(list[g], list'[g])
           /\ \A g \in Hosts : AsksAbout(g, 1)' => AsksAbout(g, 1)
           /\ o \in Sessions(Sender)'
<1>1. Types /\ 1 \in Conns /\ o \in Sessions(Sender)
  BY DEF Ongoing
<1>2. list[h][i] \in Sessions(h) /\ list[h][i] \in Session
  BY <1>1, ListSet, OneSession
<1>3. o # list[h][i] /\ Sender \in Hosts
  BY <1>2, WhoseOne
<1>4. CASE UNCHANGED list
  BY <1>1, <1>4, SameList DEF AsksAbout, Sessions
<1>5. CASE \E st \in {"opening", "ready", "dead"} : list' = [list EXCEPT ![h][i].st = st]
  <2>1. PICK st \in {"opening", "ready", "dead"} : list' = [list EXCEPT ![h][i].st = st]
    BY <1>5
  <2>2. \A g \in Hosts : Drains(list[g], list'[g])
    BY <1>1, <2>1, StreamState
  <2>3. \A g \in Hosts : Descends(list[g], list'[g])
    BY <1>1, <2>1, StreamCalm
  <2>4. \A g \in Hosts : AsksAbout(g, 1)' => AsksAbout(g, 1)
    BY <1>1, <2>3, DescendsSets
  <2> DEFINE s == list[h][i]
             e == [s EXCEPT !.st = st]
  <2>5. e \in Session
    <3> HIDE DEF s
    <3> QED BY <1>2 DEF s, Session
  <2>6. list' = [list EXCEPT ![h] = [list[h] EXCEPT ![i] = e]]
    BY <2>1
  <2> HIDE DEF e
  <2>7. o \in Sessions(Sender)'
    BY <1>1, <1>3, <2>5, <2>6, ReplacedSets
  <2> QED BY <2>2, <2>4, <2>7
<1>6. CASE list' = [list EXCEPT ![h] = RemoveAt(list[h], i)]
  <2> DEFINE l == RemoveAt(list[h], i)
  <2>1. list[h] \in Seq(Session) /\ list' = [list EXCEPT ![h] = l]
    BY <1>1, <1>6, ListSet
  <2>2. Inherits(list[h], l) /\ Drains(list[h], l)
    BY <2>1, RemovedInherits
  <2>3. ToSet(list[h]) \subseteq ToSet(l) \cup {list[h][i]}
    BY <2>1, SetRemoved
  <2> HIDE DEF l
  <2>4. \A g \in Hosts : Drains(list[g], list'[g])
    BY <1>1, <2>1, <2>2, OneHost
  <2>5. \A g \in Hosts : Descends(list[g], list'[g])
    BY <1>1, <1>6, RemovedCalm
  <2>6. \A g \in Hosts : AsksAbout(g, 1)' => AsksAbout(g, 1)
    BY <1>1, <2>5, DescendsSets
  <2>7. \A g \in Hosts : list'[g] = IF g = h THEN l ELSE list[g]
    BY <1>1, <2>1 DEF Types
  <2>8. o \in Sessions(Sender)'
    BY <1>1, <1>3, <2>3, <2>7 DEF Sessions
  <2> QED BY <2>4, <2>6, <2>8
<1> QED BY <1>4, <1>5, <1>6

\* A wire on which the sender's connection is as it was, and no other asks for
\* dialback or carries a stanza.
Apart1(w) == w \in Wires /\ (\A d \in Directions : w[1][d] = wire[1][d]) /\ NoTrain(w)

\* A message of another connection is read.
LEMMA ApartTaken ==
    ASSUME NEW o, Ongoing(o), NEW h \in Hosts, NEW i \in 1 .. Len(list[h]), list[h][i].c # 1,
           wire[list[h][i].c][Incoming(list[h][i])] # <<>>
    PROVE  /\ Apart1(Taken(list[h][i]))
           /\ list[h][i].kind = "in" =>
                Head(wire[list[h][i].c][Incoming(list[h][i])]).t \notin {"result", "stanza"}
<1> DEFINE s == list[h][i]
           w == Taken(s)
           m == Head(wire[s.c][Incoming(s)])
<1>1. Types /\ 1 \in Conns /\ NoTrain(wire)
  BY DEF Ongoing
<1>2. /\ w \in Wires
      /\ \A c \in Conns, d \in Directions : Way(w, c, d) \subseteq Way(wire, c, d)
      /\ m \in Way(wire, s.c, Incoming(s))
  BY <1>1, WayTaken
<1>3. s.c \in Conns /\ s.c # 1 /\ Puts(w, wire, s.c, Incoming(s), Tail(wire[s.c][Incoming(s)]))
  BY <1>1, TakenAt
<1>4. s.kind = "in" => Incoming(s) = "toIn"
  BY DEF Incoming
<1> HIDE DEF w, m, s
<1>5. \A d \in Directions : w[1][d] = wire[1][d]
  BY <1>1, <1>3 DEF Puts
<1>6. NoTrain(w)
  BY <1>1, <1>2 DEF NoTrain, Directions
<1>7. s.kind = "in" => m.t \notin {"result", "stanza"}
  BY <1>1, <1>2, <1>3, <1>4 DEF NoTrain
<1> QED BY <1>2, <1>5, <1>6, <1>7 DEF w, m, s, Apart1

\* A message that is none of those is written on another connection.
LEMMA ApartPut ==
    ASSUME 1 \in Conns, NEW w, Apart1(w), NEW b \in Conns, b # 1, NEW dir \in Directions,
           NEW m \in Message, m.t \notin {"result", "stanza"}
    PROVE  Apart1(Put(w, b, dir, <<m>>))
<1> DEFINE ms == <<m>>
           v == Put(w, b, dir, ms)
<1>1. w \in Wires /\ NoTrain(w) /\ \A d \in Directions : w[1][d] = wire[1][d]
  BY DEF Apart1
<1>2. v \in Wires /\ Adds(w, v, b, dir, {m})
  BY <1>1, WaySent
<1> HIDE DEF ms
<1>3. \E x : Puts(v, w, b, dir, x)
  BY <1>1, PutAt
<1> HIDE DEF v
<1>4. \A d \in Directions : v[1][d] = w[1][d]
  BY <1>3 DEF Puts
<1>5. \A c \in Conns : \A x \in Way(v, c, "toIn") : x \in Way(w, c, "toIn") \/ x = m
  <2>1. "toIn" \in Directions
    BY DEF Directions
  <2> QED BY <1>2, <2>1 DEF Adds
<1>6. NoTrain(v)
  BY <1>1, <1>5 DEF NoTrain
<1>7. Apart1(v)
  BY <1>1, <1>2, <1>4, <1>6 DEF Apart1
<1> QED BY <1>7 DEF v, ms

\* An end of another connection closes.
LEMMA ApartClosed ==
    ASSUME 1 \in Conns, Open(1), NEW w, Apart1(w), NEW s \in Session, s.c # 1, CloseEnd(w, s)
    PROVE  SameOne /\ NoTrain(wire') /\ Open(1)'
<1>1. w \in Wires /\ NoTrain(w) /\ \A d \in Directions : w[1][d] = wire[1][d]
  BY DEF Apart1
<1>2. /\ shut' = shut \cup {<<s.c, Incoming(s)>>}
      /\ \A c \in Conns, d \in Directions : c # s.c => wire'[c][d] = w[c][d]
      /\ \A c \in Conns : \A m \in Way(wire', c, "toIn") : m \in Way(w, c, "toIn") \/ m.t = "close"
  BY <1>1, ClosedAt
<1>3. SameOne
  BY <1>1, <1>2 DEF SameOne
<1>4. NoTrain(wire')
  BY <1>1, <1>2 DEF NoTrain
<1>5. Open(1)'
  BY <1>2 DEF Open
<1> QED BY <1>3, <1>4, <1>5

\* Another acceptor reads a message.
LEMMA InElsewhere ==
    ASSUME NEW o, Ongoing(o), Types', NEW h \in Hosts, NEW i \in 1 .. Len(list[h]),
           list[h][i].kind = "in", list[h][i].c # 1,
           wire[list[h][i].c][Incoming(list[h][i])] # <<>>, UNCHANGED sent,
           NEW m \in Message, m = Head(wire[list[h][i].c][Incoming(list[h][i])]),
           \/ InOpen(h, i, m) \/ dialbackRequest(h, i, m) \/ dialbackVerifyRequest(h, i, m)
           \/ StanzaReceived(h, i, m) \/ InGone(h, i, m)
    PROVE  Running' /\ UNCHANGED got
<1>1. Types /\ 1 \in Conns /\ Open(1) /\ conns \in Nat
  BY ConnsCounted DEF Ongoing
<1>2. PICK s \in Session : s = list[h][i]
  BY <1>1, OneSession
<1>3. Apart1(Taken(s)) /\ m.t \notin {"result", "stanza"}
  BY <1>2, ApartTaken
<1>4. s.c \in Conns /\ s.c # 1 /\ "toOut" \in Directions /\ s.c \in Nat
  BY <1>1, <1>2, OneSession DEF Directions, Conns
<1>5. ASSUME UNCHANGED <<shut, conns, got>>, NEW a \in Message, a.t \notin {"result", "stanza"},
             wire' = Put(Taken(s), s.c, "toOut", <<a>>),
             UNCHANGED list \/ list' = [list EXCEPT ![h][i].st = "ready"]
      PROVE  Running' /\ UNCHANGED got
  <2>1. Apart1(wire')
    BY <1>1, <1>3, <1>4, <1>5, ApartPut
  <2>2. SameOne /\ NoTrain(wire') /\ Open(1)'
    BY <1>1, <1>5, <2>1 DEF Apart1, SameOne, Open
  <2>3. /\ \A g \in Hosts : Drains(list[g], list'[g])
        /\ \A g \in Hosts : AsksAbout(g, 1)' => AsksAbout(g, 1)
        /\ o \in Sessions(Sender)'
    BY <1>2, <1>4, <1>5, OthersKeep
  <2>4. conns' >= conns
    BY <1>1, <1>5
  <2> QED BY <1>5, <2>2, <2>3, <2>4, ElsewhereKeeps
<1>6. CASE InOpen(h, i, m)
  <2>1. M("open", s.c) \in Message /\ M("open", s.c).t = "open"
    BY <1>4 DEF M, Message, Msg
  <2> QED BY <1>2, <1>5, <1>6, <2>1 DEF InOpen
<1>7. CASE dialbackVerifyRequest(h, i, m)
  <2>1. \A n \in {0, 1} : M("vgrant", n) \in Message /\ M("vgrant", n).t = "vgrant"
    BY DEF M, Message, Msg
  <2>2. PICK n \in {0, 1} : n = IF pendingOutboundSession(h, m.n) THEN 1 ELSE 0
    OBVIOUS
  <2> QED BY <1>2, <1>5, <1>7, <2>1, <2>2 DEF dialbackVerifyRequest
<1>8. CASE InGone(h, i, m)
  <2>1. /\ CloseEnd(Taken(s), s) /\ UNCHANGED <<conns, got>>
        /\ \/ list' = [list EXCEPT ![h] = RemoveAt(list[h], i)]
           \/ list' = [list EXCEPT ![h][i].st = "dead"]
    BY <1>2, <1>8 DEF InGone, Done
  <2>2. SameOne /\ NoTrain(wire') /\ Open(1)'
    BY <1>1, <1>3, <1>4, <2>1, ApartClosed
  <2>3. /\ \A g \in Hosts : Drains(list[g], list'[g])
        /\ \A g \in Hosts : AsksAbout(g, 1)' => AsksAbout(g, 1)
        /\ o \in Sessions(Sender)'
    BY <1>2, <1>4, <2>1, OthersKeep
  <2>4. conns' >= conns
    BY <1>1, <2>1
  <2> QED BY <2>1, <2>2, <2>3, <2>4, ElsewhereKeeps
<1>9. CASE dialbackRequest(h, i, m) \/ StanzaReceived(h, i, m)
  BY <1>3, <1>9 DEF dialbackRequest, StanzaReceived
<1> QED BY <1>6, <1>7, <1>8, <1>9

-----------------------------------------------------------------------------
(* The verify sessions of the other host.                                  *)

\* A verify session is answered: what waits for it is granted or refused.
LEMMA AnsweredSessions ==
    ASSUME NEW o, Ongoing(o), NEW h \in Hosts, h # Sender, NEW i \in 1 .. Len(list[h]), NEW n,
           NEW in, in = pendingInbound(h, list[h][i].ver),
           list' = [list EXCEPT ![h] = RemoveAt(Validated(h, in, n), i)]
    PROVE  /\ \A g \in Hosts : Drains(list[g], list'[g])
           /\ \A g \in Hosts : AsksAbout(g, 1)' => AsksAbout(g, 1)
           /\ o \in Sessions(Sender)'
<1> DEFINE v == Validated(h, in, n)
           l == RemoveAt(v, i)
<1>1. Types /\ 1 \in Conns /\ o \in Sessions(Sender) /\ Sender \in Hosts
  BY SenderType DEF Ongoing
<1>2. PICK b : b = list[h][i].ver
  OBVIOUS
<1>3. list[h] \in Seq(Session) /\ Good(list[h])
  BY <1>1, ListSet, OneSession
<1>4. Inherits(list[h], v) /\ Drains(list[h], v)
  BY <1>3, ValidatedInherits
<1>5. v \in Seq(Session) /\ Len(v) = Len(list[h])
  BY <1>3, GoodValidated DEF Good
<1>6. Inherits(v, l) /\ Drains(v, l)
  <2> HIDE DEF v
  <2> QED BY <1>5, RemovedInherits
<1>7. list' = [list EXCEPT ![h] = l]
  OBVIOUS
<1>8. list' = Answered(h, i, b, n)
  BY <1>2 DEF Answered
<1> HIDE DEF l, v
<1>9. Inherits(list[h], l) /\ Drains(list[h], l)
  BY <1>4, <1>6, InheritsTransitive
<1>10. \A g \in Hosts : Drains(list[g], list'[g])
  BY <1>1, <1>7, <1>9, OneHost
<1>11. AnsweredFrom(h, list[h][i], b, n)
  BY <1>1, <1>8, AnsweredSets
<1>12. \A g \in Hosts : AsksAbout(g, 1)' => AsksAbout(g, 1)
  BY <1>11 DEF AnsweredFrom, Follows, AsksAbout
<1>13. Sessions(Sender)' = Sessions(Sender)
  BY <1>1, <1>11 DEF AnsweredFrom
<1> QED BY <1>1, <1>10, <1>12, <1>13

\* A grant of the sender's connection is written, or a refusal.
LEMMA GrantWritten ==
    ASSUME NEW o, Ongoing(o), UNCHANGED <<sent, got>>,
           NEW m \in Message, m.t = "grant", wire'[1].toIn = wire[1].toIn,
           wire'[1].toOut = wire[1].toOut \o <<m>>,
           \E h \in Hosts : AsksAbout(h, 1)
    PROVE  Stage(o)' /\ AskedLate(o)'
<1>1. Awaiting(o) \/ Sending(o)
  BY DEF Ongoing, AskedLate
<1>2. Grants'
  <2> DEFINE q == wire[1].toOut
             p == <<m>>
  <2>1. q \in Seq(Message)
    BY DEF Ongoing, Types, Wires
  <2>2. Grants
    BY <1>1 DEF Awaiting, Sending
  <2>3. p \in Seq(Message) /\ ToSet(p) = {m}
    BY SetSmall
  <2> HIDE DEF p, q
  <2>4. ToSet(q \o p) = ToSet(q) \cup {m}
    BY <2>1, <2>3, SetJoined
  <2>5. Way(wire', 1, "toOut") = Way(wire, 1, "toOut") \cup {m}
    BY <2>4 DEF Way, p, q
  <2> QED BY <2>2, <2>5 DEF Grants
<1>3. Awaiting(o) => Awaiting(o)'
  BY <1>2 DEF Awaiting, Queueing
<1>4. Sending(o) => Sending(o)'
  BY <1>2 DEF Sending
<1> QED BY <1>1, <1>3, <1>4 DEF Stage, AskedLate

\* A verify session hears the answer.
LEMMA AnswerKeeps ==
    ASSUME NEW o, Ongoing(o), Types', NEW h \in Hosts, NEW i \in 1 .. Len(list[h]),
           list[h][i].kind # "in", h # Sender,
           wire[list[h][i].c][Incoming(list[h][i])] # <<>>, UNCHANGED sent,
           NEW m \in Message, m = Head(wire[list[h][i].c][Incoming(list[h][i])]),
           dialbackVerifyResult(h, i, m)
    PROVE  Running' /\ UNCHANGED got
<1> DEFINE in == pendingInbound(h, list[h][i].ver)
           a == M("grant", m.n)
<1>1. Types /\ 1 \in Conns /\ Open(1) /\ conns \in Nat /\ NoTrain(wire)
  BY ConnsCounted DEF Ongoing
<1>2. PICK s \in Session : s = list[h][i]
  BY <1>1, OneSession
<1>3. s.c \in Conns /\ s.c # 1 /\ s.kind # "in" /\ s \in Sessions(h)
  <2>1. s \in Sessions(h)
    BY <1>1, <1>2, ListSet
  <2> QED BY <1>1, <1>2, <2>1, OneSession, WhoseOne
<1>4. Apart1(Taken(s))
  BY <1>2, <1>3, ApartTaken
<1>5. a \in Message /\ a.t = "grant"
  <2>1. m.n \in Nat
    BY DEF Message, Msg
  <2> QED BY <2>1 DEF M, Message, Msg
<1>6. /\ list' = [list EXCEPT ![h] = RemoveAt(Validated(h, in, m.n), i)]
      /\ CloseEnd(IF in = {} THEN Taken(s) ELSE Put(Taken(s), s.ver, "toOut", <<a>>), s)
      /\ UNCHANGED <<conns, got>>
  BY <1>2 DEF dialbackVerifyResult
<1>7. /\ \A g \in Hosts : Drains(list[g], list'[g])
      /\ \A g \in Hosts : AsksAbout(g, 1)' => AsksAbout(g, 1)
      /\ o \in Sessions(Sender)'
  <2>1. PICK n, p : n = m.n /\ p = in
    OBVIOUS
  <2> QED BY <1>6, <2>1, AnsweredSessions
<1>8. in # {} => s.ver \in Conns
  <2>1. ASSUME NEW k \in in PROVE s.ver \in Conns
    <3>1. k \in 1 .. Len(list[h]) /\ list[h][k].c = s.ver
      BY <1>2, <2>1 DEF pendingInbound
    <3> QED BY <1>1, <3>1, OneSession
  <2> QED BY <2>1
<1> HIDE DEF in, a
<1>9. conns' >= conns
  <2>1. conns' = conns
    BY <1>6
  <2>2. conns \in Nat
    BY <1>1
  <2> QED BY <2>1, <2>2
<1>10. "toOut" \in Directions
  BY DEF Directions
<1>11. CASE in = {} \/ s.ver # 1
  <2> DEFINE w == IF in = {} THEN Taken(s) ELSE Put(Taken(s), s.ver, "toOut", <<a>>)
  <2>1. Apart1(w)
    BY <1>1, <1>4, <1>5, <1>8, <1>10, <1>11, ApartPut
  <2>2. CloseEnd(w, s)
    BY <1>6
  <2> HIDE DEF w
  <2>3. SameOne /\ NoTrain(wire') /\ Open(1)'
    BY <1>1, <1>3, <2>1, <2>2, ApartClosed
  <2> QED BY <1>6, <1>7, <1>9, <2>3, ElsewhereKeeps
<1>12. CASE in # {} /\ s.ver = 1
  <2> DEFINE t == Taken(s)
             ms == <<a>>
             w == Put(t, 1, "toOut", ms)
  <2>1. CloseEnd(w, s)
    BY <1>6, <1>12
  <2>2. t \in Wires /\ NoTrain(t) /\ \A d \in Directions : t[1][d] = wire[1][d]
    BY <1>4 DEF Apart1
  <2> HIDE DEF t
  <2>3. w \in Wires /\ Adds(t, w, 1, "toOut", {a})
    BY <1>1, <1>5, <1>10, <2>2, WaySent
  <2>4. Puts(w, t, 1, "toOut", IF <<1, "toOut">> \in shut THEN t[1]["toOut"] ELSE t[1]["toOut"] \o ms)
    <3> HIDE DEF ms
    <3> QED BY <1>1, <1>10, <2>2, PutAt
  <2>5. w[1].toIn = wire[1].toIn /\ w[1].toOut = wire[1].toOut \o ms
    <3>1. <<1, "toOut">> \notin shut
      BY <1>1 DEF Open
    <3>2. t[1].toIn = wire[1].toIn /\ t[1].toOut = wire[1].toOut
      BY <2>2 DEF Directions
    <3> HIDE DEF w, ms
    <3> QED BY <1>1, <2>4, <3>1, <3>2 DEF Puts, Directions
  <2> HIDE DEF w
  <2>6. /\ shut' = shut \cup {<<s.c, Incoming(s)>>}
        /\ \A c \in Conns, d \in Directions : c # s.c => wire'[c][d] = w[c][d]
        /\ \A c \in Conns : \A x \in Way(wire', c, "toIn") : x \in Way(w, c, "toIn") \/ x.t = "close"
    BY <2>1, <2>3, ClosedAt
  <2>7. wire'[1].toIn = wire[1].toIn /\ wire'[1].toOut = wire[1].toOut \o <<a>>
    BY <1>1, <1>3, <2>5, <2>6 DEF Directions
  <2>8. \E g \in Hosts : AsksAbout(g, 1)
    BY <1>3, <1>12 DEF AsksAbout
  <2>9. Stage(o)' /\ AskedLate(o)'
    BY <1>5, <1>6, <2>7, <2>8, GrantWritten
  <2>10. NoTrain(wire')
    <3>1. \A c \in Conns : Way(w, c, "toIn") = Way(t, c, "toIn")
      BY <2>3 DEF Adds, Directions
    <3> QED BY <2>2, <2>6, <3>1 DEF NoTrain
  <2>11. Open(1)'
    BY <1>1, <1>3, <2>6 DEF Open
  <2>12. Kinds'
    BY <1>7, KindsKept DEF Ongoing
  <2>13. 1 <= conns' /\ o.kind = "out"
    BY <1>6 DEF Ongoing
  <2> QED BY <1>6, <1>7, <2>9, <2>10, <2>11, <2>12, <2>13 DEF Running
<1> QED BY <1>6, <1>11, <1>12

\* A verify session reads a message.
LEMMA OutElsewhere ==
    ASSUME NEW o, Ongoing(o), Types', NEW h \in Hosts, NEW i \in 1 .. Len(list[h]),
           list[h][i].kind # "in", h # Sender,
           wire[list[h][i].c][Incoming(list[h][i])] # <<>>, UNCHANGED sent,
           NEW m \in Message, m = Head(wire[list[h][i].c][Incoming(list[h][i])]),
           \/ OutOpen(h, i, m) \/ dialbackResult(h, i, m)
           \/ dialbackVerifyResult(h, i, m) \/ OutGone(h, i, m)
    PROVE  Running' /\ UNCHANGED got
<1>1. Types /\ 1 \in Conns /\ Open(1) /\ conns \in Nat
  BY ConnsCounted DEF Ongoing
<1>2. PICK s \in Session : s = list[h][i]
  BY <1>1, OneSession
<1>3. /\ s.c \in Conns /\ s.c # 1 /\ s.kind = "verify" /\ s.pending = <<>> /\ s \in Sessions(h)
      /\ "toIn" \in Directions
  <2>1. s \in Sessions(h)
    BY <1>1, <1>2, ListSet
  <2> QED BY <1>1, <1>2, <2>1, OneSession, WhoseOne DEF Directions
<1>4. Apart1(Taken(s))
  BY <1>2, <1>3, ApartTaken
<1>5. CASE OutOpen(h, i, m)
  <2> DEFINE a == M("verify", s.ver)
  <2>1. a \in Message /\ a.t = "verify"
    BY <1>2 DEF M, Message, Msg, Session, Conns
  <2>2. /\ list' = [list EXCEPT ![h][i].st = "ready"] /\ UNCHANGED <<shut, conns, got>>
        /\ wire' = Put(Taken(s), s.c, "toIn", <<a>>)
    BY <1>2, <1>3, <1>5 DEF OutOpen
  <2> HIDE DEF a
  <2>3. Apart1(wire')
    BY <1>1, <1>3, <1>4, <2>1, <2>2, ApartPut
  <2>4. SameOne /\ NoTrain(wire') /\ Open(1)'
    BY <1>1, <2>2, <2>3 DEF Apart1, SameOne, Open
  <2>5. /\ \A g \in Hosts : Drains(list[g], list'[g])
        /\ \A g \in Hosts : AsksAbout(g, 1)' => AsksAbout(g, 1)
        /\ o \in Sessions(Sender)'
    BY <1>2, <1>3, <2>2, OthersKeep
  <2>6. conns' >= conns
    BY <1>1, <2>2
  <2> QED BY <2>2, <2>4, <2>5, <2>6, ElsewhereKeeps
<1>6. CASE OutGone(h, i, m)
  <2>1. /\ CloseEnd(Taken(s), s) /\ UNCHANGED <<conns, got>>
        /\ list' = [list EXCEPT ![h][i].st = "dead"]
    BY <1>2, <1>3, <1>6 DEF OutGone, StreamGone
  <2>2. SameOne /\ NoTrain(wire') /\ Open(1)'
    BY <1>1, <1>3, <1>4, <2>1, ApartClosed
  <2>3. /\ \A g \in Hosts : Drains(list[g], list'[g])
        /\ \A g \in Hosts : AsksAbout(g, 1)' => AsksAbout(g, 1)
        /\ o \in Sessions(Sender)'
    BY <1>2, <1>3, <2>1, OthersKeep
  <2>4. conns' >= conns
    BY <1>1, <2>1
  <2> QED BY <2>1, <2>2, <2>3, <2>4, ElsewhereKeeps
<1>7. CASE dialbackResult(h, i, m) /\ m.n # 1
  <2>1. UNCHANGED <<list, shut, conns, got>> /\ wire' = Taken(s)
    BY <1>2, <1>7 DEF dialbackResult
  <2>2. SameOne /\ NoTrain(wire') /\ Open(1)'
    BY <1>1, <1>4, <2>1 DEF Apart1, SameOne, Open
  <2>3. /\ \A g \in Hosts : Drains(list[g], list'[g])
        /\ \A g \in Hosts : AsksAbout(g, 1)' => AsksAbout(g, 1)
        /\ o \in Sessions(Sender)'
    BY <1>2, <1>3, <2>1, OthersKeep
  <2>4. conns' >= conns
    BY <1>1, <2>1
  <2> QED BY <2>1, <2>2, <2>3, <2>4, ElsewhereKeeps
<1>8. CASE dialbackResult(h, i, m) /\ m.n = 1
  <2> DEFINE e == Activated(s)
             ms == [k \in 1 .. Len(s.pending) |-> M("stanza", s.pending[k])]
  <2>1. /\ UNCHANGED <<shut, conns, got>>
        /\ list' = [list EXCEPT ![h] = [list[h] EXCEPT ![i] = e]]
        /\ wire' = Put(Taken(s), s.c, "toIn", ms)
    BY <1>2, <1>8 DEF dialbackResult
  <2>2. e \in Session /\ e.kind = s.kind /\ e.c = s.c /\ e.ver = s.ver /\ e.pending = <<>>
        /\ e.st = s.st
    BY <1>2, EmptySeq DEF Activated, Session
  <2>3. ms = <<>>
    BY <1>3
  <2> HIDE DEF e, ms
  <2>4. Taken(s) \in Wires
    BY <1>4 DEF Apart1
  <2>5. ms \in Seq(Message) /\ ToSet(ms) = {}
    BY <2>3, SetSmall
  <2>6. wire' \in Wires /\ Adds(Taken(s), wire', s.c, "toIn", {})
    BY <1>3, <2>1, <2>4, <2>5, WayPut, WireType DEF Directions
  <2>7. \E x : Puts(wire', Taken(s), s.c, "toIn", x)
    BY <1>3, <2>1, <2>4, PutAt
  <2>8. SameOne
    BY <1>1, <1>3, <1>4, <2>7 DEF Apart1, SameOne, Puts
  <2>9. NoTrain(wire')
    <3>1. \A c \in Conns : Way(wire', c, "toIn") \subseteq Way(Taken(s), c, "toIn")
      BY <1>3, <2>6 DEF Adds
    <3> QED BY <1>4, <3>1 DEF Apart1, NoTrain
  <2>10. Open(1)'
    BY <1>1, <2>1 DEF Open
  <2>11. \A g \in Hosts : Drains(list[g], list'[g])
    <3>1. Drains(list[h], [list[h] EXCEPT ![i] = e]) /\ Inherits(list[h], [list[h] EXCEPT ![i] = e])
      BY <1>1, <1>2, <2>2, ListSet, ReplacedInherits
    <3> QED BY <1>1, <2>1, <3>1, OneHost
  <2>12. \A g \in Hosts : \A t \in Sessions(g)' : t \in Sessions(g) \/ (g = h /\ t = e)
    BY <1>1, <2>1, <2>2, ReplacedSets
  <2>13. o \in Sessions(Sender)'
    <3>1. Sender \in Hosts /\ o \in Sessions(Sender)
      BY SenderType DEF Ongoing
    <3> QED BY <1>1, <2>1, <2>2, <3>1, ReplacedSets
  <2>14. \A g \in Hosts : AsksAbout(g, 1)' => AsksAbout(g, 1)
    BY <1>3, <2>2, <2>12 DEF AsksAbout
  <2>15. conns' >= conns
    BY <1>1, <2>1
  <2> QED BY <2>1, <2>8, <2>9, <2>10, <2>11, <2>13, <2>14, <2>15, ElsewhereKeeps
<1>9. CASE dialbackVerifyResult(h, i, m)
  BY <1>2, <1>3, <1>9, AnswerKeeps
<1> QED BY <1>5, <1>6, <1>7, <1>8, <1>9

-----------------------------------------------------------------------------
(* The session of the sender and its acceptor.                             *)

\* What was on the wires of other connections is all there is; the stage of the
\* exchange is told.
LEMMA OneKeeps ==
    ASSUME NEW o, NEW e, Ongoing(o), Types', conns' >= conns, Kinds', UNCHANGED shut,
           \A c \in Conns, d \in Directions : c # 1 => wire'[c][d] = wire[c][d],
           e \in Sessions(Sender)', e.kind = "out", Stage(e)', AskedLate(e)'
    PROVE  Running'
<1>1. NoTrain(wire')
  BY DEF Ongoing, NoTrain, Way, Directions
<1>2. 1 <= conns' /\ Open(1)'
  BY DEF Ongoing, Types, Open
<1> QED BY <1>1, <1>2 DEF Running

\* A train is a sequence of stanzas.
LEMMA TrainType ==
    ASSUME NEW n \in Nat, NEW k \in Nat
    PROVE  /\ Train(n, k) \in Seq(Msg) /\ Len(Train(n, k)) = k
           /\ \A j \in 1 .. k : Train(n, k)[j] = M("stanza", n + j)
<1> DEFINE q == Train(n, k)
<1>1. q \in [1 .. k -> Msg]
  BY DEF Train, M, Msg
<1>2. \A j \in 1 .. k : q[j] = M("stanza", n + j)
  BY DEF Train
<1> HIDE DEF q
<1>3. q \in Seq(Msg)
  BY <1>1, SeqDef
<1>4. DOMAIN q = 1 .. k
  BY <1>1
<1>5. Len(q) = k
  BY <1>3, <1>4, LenProperties
<1> QED BY <1>2, <1>3, <1>5 DEF q

\* A train of stanzas loses its head, grows at its end, and is what a queue
\* that is flushed makes.
LEMMA Trains ==
    ASSUME NEW n \in Nat, NEW k \in Nat
    PROVE  /\ Train(n, k) # <<>> =>
                /\ k > 0 /\ Head(Train(n, k)) = M("stanza", n + 1)
                /\ Tail(Train(n, k)) = Train(n + 1, k - 1)
           /\ Train(n, k) \o <<M("stanza", n + k + 1)>> = Train(n, k + 1)
           /\ Append(Counted(n), n + 1) = Counted(n + 1)
           /\ [j \in 1 .. Len(Counted(k)) |-> M("stanza", Counted(k)[j])] = Train(0, k)
           /\ Train(n, 0) = <<>>
<1> DEFINE q == Train(n, k)
           m(j) == M("stanza", j)
           x == M("stanza", n + k + 1)
<1>1. \A j \in Nat : M("stanza", j) \in Msg
  BY DEF M, Msg
<1>2. q \in Seq(Msg) /\ Len(q) = k /\ \A j \in 1 .. k : q[j] = M("stanza", n + j)
  BY TrainType
<1>3. Train(n, 0) = <<>>
  BY DEF Train
<1>4. ASSUME q # <<>>
      PROVE  k > 0 /\ Head(q) = M("stanza", n + 1) /\ Tail(q) = Train(n + 1, k - 1)
  <2> DEFINE p == Tail(q)
             r == Train(n + 1, k - 1)
  <2>1. k > 0
    BY <1>3, <1>4
  <2>2. Head(q) = M("stanza", n + 1)
    <3> HIDE DEF q
    <3> QED BY <1>2, <2>1
  <2>3. p \in Seq(Msg) /\ Len(p) = k - 1 /\ \A j \in 1 .. k - 1 : p[j] = q[j + 1]
    <3> HIDE DEF q
    <3> QED BY <1>2, <1>4, HeadTailProperties
  <2>4. r \in Seq(Msg) /\ Len(r) = k - 1 /\ \A j \in 1 .. k - 1 : r[j] = M("stanza", n + 1 + j)
    <3>1. n + 1 \in Nat /\ k - 1 \in Nat
      BY <2>1
    <3> QED BY <3>1, TrainType
  <2> HIDE DEF p, q, r
  <2>5. \A j \in 1 .. k - 1 : p[j] = r[j]
    <3> TAKE j \in 1 .. k - 1
    <3>1. j + 1 \in 1 .. k /\ n + (j + 1) = n + 1 + j
      BY <2>1
    <3>2. p[j] = M("stanza", n + (j + 1))
      BY <1>2, <2>3, <3>1
    <3> QED BY <2>4, <3>1, <3>2
  <2>6. p = r
    BY <2>3, <2>4, <2>5, SeqEqual
  <2> QED BY <2>1, <2>2, <2>6 DEF p, q, r
<1>5. q \o <<x>> = Train(n, k + 1)
  <2> DEFINE p == <<x>>
             l == q \o p
             r == Train(n, k + 1)
  <2>1. x \in Msg /\ p \in Seq(Msg) /\ Len(p) = 1 /\ p[1] = x
    BY <1>1
  <2>2. r \in Seq(Msg) /\ Len(r) = k + 1 /\ \A j \in 1 .. k + 1 : r[j] = M("stanza", n + j)
    BY TrainType
  <2> HIDE DEF p, q, r, x
  <2>3. l \in Seq(Msg) /\ Len(l) = k + 1
        /\ \A j \in 1 .. k + 1 : l[j] = IF j <= k THEN q[j] ELSE p[j - k]
    <3>1. l \in Seq(Msg) /\ Len(l) = Len(q) + Len(p)
          /\ \A j \in 1 .. Len(q) + Len(p) : l[j] = IF j <= Len(q) THEN q[j] ELSE p[j - Len(q)]
      BY <1>2, <2>1, ConcatProperties
    <3> HIDE DEF l
    <3> QED BY <1>2, <2>1, <3>1
  <2> HIDE DEF l
  <2>4. \A j \in 1 .. k + 1 : l[j] = r[j]
    <3> TAKE j \in 1 .. k + 1
    <3>1. CASE j \in 1 .. k
      BY <1>2, <2>2, <2>3, <3>1
    <3>2. CASE j = k + 1
      <4>1. l[j] = p[1] /\ n + j = n + k + 1
        BY <2>3, <3>2
      <4> QED BY <2>1, <2>2, <4>1 DEF x
    <3> QED BY <3>1, <3>2
  <2>5. l = r
    BY <2>2, <2>3, <2>4, SeqEqual
  <2> QED BY <2>5 DEF l, p, q, r, x
<1>6. Append(Counted(n), n + 1) = Counted(n + 1)
  <2> DEFINE c == Counted(n)
             d == Counted(n + 1)
             l == Append(c, n + 1)
  <2>1. c \in Seq(Nat) /\ Len(c) = n /\ \A j \in 1 .. n : c[j] = j
    <3>1. c \in [1 .. n -> Nat]
      BY DEF Counted
    <3> QED BY <3>1, SeqDef, LenProperties DEF Counted
  <2>2. d \in Seq(Nat) /\ Len(d) = n + 1 /\ \A j \in 1 .. n + 1 : d[j] = j
    <3>1. d \in [1 .. n + 1 -> Nat]
      BY DEF Counted
    <3> QED BY <3>1, SeqDef, LenProperties DEF Counted
  <2> HIDE DEF c, d
  <2>3. l \in Seq(Nat) /\ Len(l) = n + 1 /\ l[n + 1] = n + 1 /\ \A j \in 1 .. n : l[j] = c[j]
    BY <2>1, AppendProperties
  <2> HIDE DEF l
  <2>4. \A j \in 1 .. n + 1 : l[j] = d[j]
    BY <2>1, <2>2, <2>3
  <2>5. l = d
    BY <2>2, <2>3, <2>4, SeqEqual
  <2> QED BY <2>5 DEF l, c, d
<1>7. [j \in 1 .. Len(Counted(k)) |-> M("stanza", Counted(k)[j])] = Train(0, k)
  <2>1. Counted(k) \in [1 .. k -> Nat] /\ \A j \in 1 .. k : Counted(k)[j] = j
    BY DEF Counted
  <2>2. Len(Counted(k)) = k
    BY <2>1, SeqDef, LenProperties
  <2> QED BY <2>1, <2>2 DEF Train
<1> QED BY <1>3, <1>4, <1>5, <1>6, <1>7

\* What the acceptor reads next says how far the exchange is.
LEMMA AtHead ==
    ASSUME NEW o, Ongoing(o), wire[1].toIn # <<>>
    PROVE  LET m == Head(wire[1].toIn)
               x == Tail(wire[1].toIn)
               n == Len(got[Sender])
           IN  \/ m.t = "open" /\ Greeting(o) /\ x = <<>>
               \/ m.t = "result" /\ Asking(o) /\ x = <<>>
               \/ /\ m.t = "stanza" /\ Sending(o) /\ n \in Nat /\ sent[Sender] \in Nat
                  /\ m.n = n + 1 /\ n < sent[Sender] /\ x = Train(n + 1, sent[Sender] - (n + 1))
<1> DEFINE q == wire[1].toIn
           n == Len(got[Sender])
           k == sent[Sender] - n
<1>1. n \in Nat /\ sent[Sender] \in Nat
  <2>1. Sender \in Hosts /\ Types
    BY SenderType DEF Ongoing
  <2> QED BY <2>1, LenProperties DEF Types
<1>2. \A y : <<y>> # <<>> /\ Head(<<y>>) = y /\ Tail(<<y>>) = <<>>
  OBVIOUS
<1>3. /\ M("open", 0).t = "open" /\ M("result", 0).t = "result"
      /\ M("stanza", n + 1).t = "stanza" /\ M("stanza", n + 1).n = n + 1
  BY DEF M
<1>4. CASE Greeting(o)
  BY <1>2, <1>3, <1>4 DEF Greeting, Wired
<1>5. CASE Asking(o)
  BY <1>2, <1>3, <1>5 DEF Asking, Wired
<1>6. CASE Sending(o)
  <2>1. n <= sent[Sender] /\ q = Train(n, k) /\ q # <<>>
    BY <1>6 DEF Sending
  <2> HIDE DEF n, q
  <2>2. k \in Nat
    BY <1>1, <2>1
  <2> HIDE DEF k
  <2>3. k > 0 /\ Head(q) = M("stanza", n + 1) /\ Tail(q) = Train(n + 1, k - 1)
    BY <1>1, <2>1, <2>2, Trains
  <2>4. n < sent[Sender] /\ k - 1 = sent[Sender] - (n + 1)
    BY <1>1, <2>3 DEF k
  <2> QED BY <1>1, <1>3, <1>6, <2>3, <2>4 DEF n, q
<1>7. ~Dialling(o) /\ ~Greeted(o) /\ ~Awaiting(o)
  BY DEF Dialling, Greeted, Awaiting, Wired
<1> QED BY <1>4, <1>5, <1>6, <1>7 DEF Ongoing, Stage

\* The other host takes the stanza after those it took.
Delivers ==
    /\ Len(got[Sender]) < sent[Sender]
    /\ got' = [got EXCEPT ![Sender] = Append(got[Sender], Len(got[Sender]) + 1)]

\* The acceptor of the sender's connection reads a message.
LEMMA InHere ==
    ASSUME NEW o, Ongoing(o), LiveIsProven, Types', NEW h \in Hosts, NEW i \in 1 .. Len(list[h]),
           list[h][i].kind = "in", list[h][i].c = 1,
           wire[list[h][i].c][Incoming(list[h][i])] # <<>>, UNCHANGED sent,
           NEW m \in Message, m = Head(wire[list[h][i].c][Incoming(list[h][i])]),
           \/ InOpen(h, i, m) \/ dialbackRequest(h, i, m) \/ dialbackVerifyRequest(h, i, m)
           \/ StanzaReceived(h, i, m) \/ InGone(h, i, m)
    PROVE  Running' /\ (UNCHANGED got \/ Delivers)
<1>1. Types /\ 1 \in Conns /\ Open(1) /\ conns \in Nat /\ Sender \in Hosts /\ o \in Sessions(Sender)
      /\ o.kind = "out" /\ AskedLate(o)
  BY SenderType, ConnsCounted DEF Ongoing
<1>2. PICK s \in Session : s = list[h][i]
  BY <1>1, OneSession
<1>3. s.kind = "in" /\ s.c = 1 /\ Incoming(s) = "toIn" /\ s \in Sessions(h) /\ h # Sender
  <2>1. s \in Sessions(h) /\ s.kind = "in" /\ s.c = 1
    BY <1>1, <1>2, ListSet
  <2>2. h # Sender
    BY <1>1, <2>1, WhoseOne
  <2> QED BY <2>1, <2>2 DEF Incoming
<1> DEFINE q == wire[1].toIn
           x == Tail(q)
           w == Taken(s)
           n == Len(got[Sender])
<1>4. q # <<>> /\ m = Head(q) /\ w \in Wires
  BY <1>1, <1>2, <1>3, TakenType
<1>5. Puts(w, wire, 1, "toIn", x)
  BY <1>1, <1>2, <1>3, TakenAt
<1>6. \/ m.t = "open" /\ Greeting(o) /\ x = <<>>
      \/ m.t = "result" /\ Asking(o) /\ x = <<>>
      \/ /\ m.t = "stanza" /\ Sending(o) /\ n \in Nat /\ sent[Sender] \in Nat
         /\ m.n = n + 1 /\ n < sent[Sender] /\ x = Train(n + 1, sent[Sender] - (n + 1))
  BY <1>4, AtHead
<1> HIDE DEF q, x, w, n
<1>7. "toIn" \in Directions /\ "toOut" \in Directions /\ \A d \in Directions : d = "toIn" \/ d = "toOut"
  BY DEF Directions
<1>8. CASE InOpen(h, i, m)
  <2> DEFINE a == M("open", 1)
             ms == <<a>>
  <2>1. /\ list' = [list EXCEPT ![h][i].st = "ready"] /\ UNCHANGED <<shut, conns, got>>
        /\ wire' = Put(w, 1, "toOut", ms) /\ m.t = "open"
    BY <1>2, <1>3, <1>8 DEF InOpen, w
  <2>2. Greeting(o) /\ x = <<>>
    BY <1>6, <2>1
  <2>3. Puts(wire', w, 1, "toOut",
             IF <<1, "toOut">> \in shut THEN w[1]["toOut"] ELSE w[1]["toOut"] \o ms)
    <3> HIDE DEF ms
    <3> QED BY <1>1, <1>4, <1>7, <2>1, PutAt
  <2>4. /\ \A c \in Conns, d \in Directions : c # 1 => wire'[c][d] = wire[c][d]
        /\ wire'[1].toIn = x /\ wire'[1].toOut = wire[1].toOut \o ms
    <3>1. <<1, "toOut">> \notin shut
      BY <1>1 DEF Open
    <3> HIDE DEF ms
    <3>2. /\ \A c \in Conns, d \in Directions : c # 1 => w[c][d] = wire[c][d]
          /\ w[1]["toIn"] = x /\ w[1]["toOut"] = wire[1]["toOut"]
      BY <1>1, <1>5, <1>7 DEF Puts
    <3>3. Puts(wire', w, 1, "toOut", w[1]["toOut"] \o ms)
      BY <2>3, <3>1
    <3>4. /\ \A c \in Conns, d \in Directions : c # 1 => wire'[c][d] = w[c][d]
          /\ wire'[1]["toIn"] = w[1]["toIn"] /\ wire'[1]["toOut"] = w[1]["toOut"] \o ms
      BY <1>1, <1>7, <3>3 DEF Puts
    <3> QED BY <3>2, <3>4
  <2>5. Wired(<<>>, <<M("open", 1)>>)'
    <3>1. wire[1].toOut = <<>>
      BY <2>2 DEF Greeting, Wired
    <3>2. <<>> \o ms = ms
      BY ConcatEmptySeq DEF M
    <3> QED BY <2>2, <2>4, <3>1, <3>2 DEF Wired
  <2>6. Greeted(o)'
    BY <2>1, <2>2, <2>5 DEF Greeting, Greeted, Queueing
  <2>7. \A g \in Hosts : Drains(list[g], list'[g])
    BY <1>1, <2>1, StreamState
  <2>8. \A g \in Hosts : Descends(list[g], list'[g])
    BY <1>1, <2>1, StreamCalm
  <2>9. Kinds'
    BY <2>7, KindsKept DEF Ongoing
  <2>10. AskedLate(o)'
    <3>1. ~Awaiting(o) /\ ~Sending(o)
      BY <2>2 DEF Greeting, Awaiting, Sending
    <3> QED BY <1>1, <2>8, <3>1, DescendsSets DEF AskedLate
  <2>11. o \in Sessions(Sender)'
    <3>1. list'[Sender] = list[Sender]
      BY <1>1, <1>3, <2>1 DEF Types
    <3> QED BY <1>1, <3>1 DEF Sessions
  <2>12. conns' >= conns /\ Stage(o)'
    BY <1>1, <2>1, <2>6 DEF Stage
  <2> QED BY <1>1, <2>1, <2>4, <2>9, <2>10, <2>11, <2>12, OneKeeps
<1>9. CASE dialbackRequest(h, i, m)
  <2> DEFINE e == NewSession("verify", conns + 1, "connecting", 1, <<>>)
  <2>1. /\ conns < MaxConns /\ conns' = conns + 1 /\ wire' = w /\ UNCHANGED <<shut, got>>
        /\ list' = [list EXCEPT ![h] = Append(list[h], e)] /\ m.t = "result"
    BY <1>2, <1>3, <1>9 DEF dialbackRequest, w
  <2>2. Asking(o) /\ x = <<>>
    BY <1>6, <2>1
  <2>3. e \in Session /\ e.kind = "verify" /\ e.pending = <<>>
    <3>1. conns + 1 \in Conns
      BY <1>1, <2>1, S2SAssumption DEF Conns, S2SAssumption
    <3> QED BY <1>1, <3>1, EmptySeq DEF NewSession, Session
  <2> HIDE DEF e
  <2>4. \A g \in Hosts : Sessions(g)' = IF g = h THEN Sessions(g) \cup {e} ELSE Sessions(g)
    BY <1>1, <2>1, <2>3, JoinedSets
  <2>5. Kinds'
    BY <1>3, <2>3, <2>4 DEF Ongoing, Kinds
  <2>6. /\ \A c \in Conns, d \in Directions : c # 1 => wire'[c][d] = wire[c][d]
        /\ wire'[1].toIn = x /\ wire'[1].toOut = wire[1].toOut
    BY <1>1, <1>5, <1>7, <2>1 DEF Puts
  <2>7. Awaiting(o)'
    <3>1. wire[1].toOut = <<>>
      BY <2>2 DEF Asking, Wired
    <3>2. Grants'
      BY <2>6, <3>1, SetSmall DEF Grants, Way
    <3> QED BY <2>1, <2>2, <2>6, <3>2 DEF Asking, Awaiting, Queueing
  <2>8. conns' >= conns /\ Stage(o)' /\ AskedLate(o)'
    BY <1>1, <2>1, <2>7 DEF Stage, AskedLate
  <2>9. o \in Sessions(Sender)'
    BY <1>1, <1>3, <2>4
  <2> QED BY <1>1, <2>1, <2>5, <2>6, <2>8, <2>9, OneKeeps
<1>10. CASE StanzaReceived(h, i, m)
  <2>1. m.t = "stanza" /\ UNCHANGED conns
    BY <1>10 DEF StanzaReceived
  <2>2. Sending(o) /\ m.n = n + 1 /\ n < sent[Sender] /\ x = Train(n + 1, sent[Sender] - (n + 1))
        /\ n \in Nat /\ sent[Sender] \in Nat
    BY <1>6, <2>1
  <2>3. s.validated
    <3>1. o.active /\ o.c = 1
      BY <1>1, <2>2, WhoseOne DEF Sending
    <3>2. Live(Sender, 1)
      BY <1>1, <3>1 DEF Live
    <3>3. ~Unproven(h, 1)
      BY <1>1, <3>2 DEF LiveIsProven
    <3> QED BY <1>3, <3>3 DEF Unproven
  <2>4. /\ got' = [got EXCEPT ![Peer(h)] = Append(@, m.n)]
        /\ wire' = w /\ UNCHANGED <<list, shut>>
    BY <1>2, <1>10, <2>3 DEF StanzaReceived, w
  <2>5. Peer(h) = Sender
    BY <1>1, <1>3, PeerOnly
  <2>6. got' = [got EXCEPT ![Sender] = Append(got[Sender], n + 1)]
    BY <2>2, <2>4, <2>5
  <2>7. Delivers
    BY <2>2, <2>6 DEF Delivers, n
  <2>8. Len(got'[Sender]) = n + 1
    <3>1. got[Sender] \in Seq(Stanzas) /\ got'[Sender] = Append(got[Sender], n + 1)
      BY <1>1, <2>6 DEF Types
    <3> QED BY <3>1 DEF n
  <2>9. /\ \A c \in Conns, d \in Directions : c # 1 => wire'[c][d] = wire[c][d]
        /\ wire'[1].toIn = x /\ wire'[1].toOut = wire[1].toOut
    BY <1>1, <1>5, <1>7, <2>4 DEF Puts
  <2>10. Sending(o)'
    <3>1. Grants'
      BY <2>2, <2>9 DEF Sending, Grants, Way
    <3>2. n + 1 <= sent[Sender]
      BY <2>2
    <3> QED BY <2>2, <2>8, <2>9, <3>1, <3>2 DEF Sending
  <2>11. conns' >= conns /\ Stage(o)' /\ AskedLate(o)'
    BY <1>1, <2>1, <2>10 DEF Stage, AskedLate
  <2>12. Kinds' /\ o \in Sessions(Sender)'
    BY <1>1, <2>4 DEF Ongoing, Kinds, Sessions
  <2> QED BY <1>1, <2>4, <2>7, <2>9, <2>11, <2>12, OneKeeps
<1>11. CASE dialbackVerifyRequest(h, i, m) \/ InGone(h, i, m)
  BY <1>6, <1>11 DEF dialbackVerifyRequest, InGone
<1> QED BY <1>8, <1>9, <1>10, <1>11

\* The outbound session changes to e.
LEMMA HereReplaced ==
    ASSUME NEW o, Ongoing(o), NEW i \in 1 .. Len(list[Sender]), list[Sender][i] = o,
           NEW e \in Session, e.kind = "out", e.c = 1, e.ver = o.ver,
           list' = [list EXCEPT ![Sender] = [list[Sender] EXCEPT ![i] = e]]
    PROVE  /\ Kinds' /\ e \in Sessions(Sender)'
           /\ \A g \in Hosts : AsksAbout(g, 1)' => AsksAbout(g, 1)
<1>1. Types /\ Sender \in Hosts /\ o \in Sessions(Sender) /\ o.kind = "out" /\ Kinds
  BY SenderType DEF Ongoing
<1>2. /\ \A g \in Hosts : \A t \in Sessions(g)' : t \in Sessions(g) \/ (g = Sender /\ t = e)
      /\ e \in Sessions(Sender)'
  BY <1>1, ReplacedSets
<1>3. Kinds'
  BY <1>1, <1>2 DEF Kinds
<1>4. \A g \in Hosts : AsksAbout(g, 1)' => AsksAbout(g, 1)
  BY <1>1, <1>2 DEF AsksAbout
<1> QED BY <1>2, <1>3, <1>4

\* What the outbound session reads next says how far the exchange is.
LEMMA AtBack ==
    ASSUME NEW o, Ongoing(o), wire[1].toOut # <<>>
    PROVE  LET m == Head(wire[1].toOut)
               x == Tail(wire[1].toOut)
           IN  \/ m.t = "open" /\ Greeted(o) /\ x = <<>>
               \/ /\ m.t = "grant" /\ (Awaiting(o) \/ Sending(o))
                  /\ ToSet(x) \subseteq ToSet(wire[1].toOut)
<1> DEFINE q == wire[1].toOut
<1>1. q \in Seq(Message)
  BY DEF Ongoing, Types, Wires
<1>2. CASE Greeted(o)
  BY <1>2 DEF Greeted, Wired, M
<1>3. CASE Awaiting(o) \/ Sending(o)
  <2>1. \A m \in ToSet(q) : m.t = "grant"
    BY <1>3 DEF Awaiting, Sending, Grants, Way
  <2> HIDE DEF q
  <2>2. ToSet(q) = ToSet(Tail(q)) \cup {Head(q)} /\ Head(q) \in ToSet(q)
    BY <1>1, SetTail DEF q
  <2> QED BY <1>3, <2>1, <2>2 DEF q
<1>4. ~Dialling(o) /\ ~Greeting(o) /\ ~Asking(o)
  BY DEF Dialling, Greeting, Asking, Wired
<1> QED BY <1>2, <1>3, <1>4 DEF Ongoing, Stage

\* Messages are written by the outbound session after it read one.
LEMMA HerePut ==
    ASSUME NEW o, Ongoing(o), NEW w \in Wires, NEW x, NEW ms, Puts(w, wire, 1, "toOut", x),
           wire' = Put(w, 1, "toIn", ms)
    PROVE  /\ \A c \in Conns, d \in Directions : c # 1 => wire'[c][d] = wire[c][d]
           /\ wire'[1].toIn = wire[1].toIn \o ms /\ wire'[1].toOut = x
<1>1. "toIn" \in Directions /\ "toOut" \in Directions /\ \A d \in Directions : d = "toIn" \/ d = "toOut"
  BY DEF Directions
<1>2. 1 \in Conns /\ <<1, "toIn">> \notin shut
  BY DEF Ongoing, Open
<1>3. /\ \A c \in Conns, d \in Directions : c # 1 => w[c][d] = wire[c][d]
      /\ w[1]["toIn"] = wire[1]["toIn"] /\ w[1]["toOut"] = x
  BY <1>1, <1>2 DEF Puts
<1>4. Puts(wire', w, 1, "toIn", w[1]["toIn"] \o ms)
  <2>1. Puts(Put(w, 1, "toIn", ms), w, 1, "toIn",
             IF <<1, "toIn">> \in shut THEN w[1]["toIn"] ELSE w[1]["toIn"] \o ms)
    BY <1>1, <1>2, PutAt
  <2> QED BY <1>2, <2>1
<1>5. /\ \A c \in Conns, d \in Directions : c # 1 => wire'[c][d] = w[c][d]
      /\ wire'[1]["toOut"] = w[1]["toOut"] /\ wire'[1]["toIn"] = w[1]["toIn"] \o ms
  BY <1>1, <1>2, <1>4 DEF Puts
<1> QED BY <1>3, <1>5

\* The outbound session is granted and flushes its queue.
LEMMA GrantedHere ==
    ASSUME NEW o, Ongoing(o), Types', NEW i \in 1 .. Len(list[Sender]), list[Sender][i] = o,
           wire[1].toOut # <<>>, UNCHANGED sent,
           NEW m, m = Head(wire[1].toOut), dialbackResult(Sender, i, m), m.n = 1
    PROVE  Running' /\ UNCHANGED got
<1> DEFINE e == Activated(o)
           ms == [k \in 1 .. Len(o.pending) |-> M("stanza", o.pending[k])]
           x == Tail(wire[1].toOut)
           n == Len(got[Sender])
           k == sent[Sender]
<1>1. Types /\ 1 \in Conns /\ Sender \in Hosts /\ o \in Sessions(Sender) /\ o.kind = "out" /\ o.c = 1
      /\ o \in Session /\ (o.active => o.pending = <<>>)
  <2>1. Types /\ 1 \in Conns /\ Sender \in Hosts /\ o \in Sessions(Sender) /\ o.kind = "out"
    BY SenderType DEF Ongoing
  <2> QED BY <2>1, OneSession, WhoseOne
<1>2. /\ list' = [list EXCEPT ![Sender] = [list[Sender] EXCEPT ![i] = e]]
      /\ wire' = Put(Taken(o), 1, "toIn", ms) /\ UNCHANGED <<shut, conns, got>> /\ m.t = "grant"
  BY <1>1 DEF dialbackResult
<1>3. e \in Session /\ e.kind = "out" /\ e.c = 1 /\ e.ver = o.ver /\ e.st = o.st /\ e.active
  BY <1>1, EmptySeq DEF Activated, Session
<1>4. (Awaiting(o) \/ Sending(o)) /\ ToSet(x) \subseteq ToSet(wire[1].toOut)
  BY <1>2, AtBack
<1>5. Incoming(o) = "toOut"
  BY <1>1 DEF Incoming
<1>6. Puts(Taken(o), wire, 1, "toOut", x) /\ Taken(o) \in Wires
  <2>1. Taken(o) \in Wires
    BY <1>1, <1>5, TakenType
  <2> QED BY <1>1, <1>5, <2>1, TakenAt
<1>7. n \in Nat /\ k \in Nat
  BY <1>1, LenProperties DEF Types
<1>8. wire[1].toIn \in Seq(Message)
  BY <1>1 DEF Types, Wires
<1> HIDE DEF e, ms, x
<1>9. /\ \A c \in Conns, d \in Directions : c # 1 => wire'[c][d] = wire[c][d]
      /\ wire'[1].toIn = wire[1].toIn \o ms /\ wire'[1].toOut = x
  BY <1>2, <1>6, HerePut
<1>10. n <= k /\ wire'[1].toIn = Train(n, k - n)
  <2>1. CASE Awaiting(o)
    <3>1. n = 0 /\ o.pending = Counted(k) /\ wire[1].toIn = <<>>
      BY <2>1 DEF Awaiting, Queueing
    <3>2. ms = Train(0, k)
      BY <1>7, <3>1, Trains DEF ms
    <3>3. Train(0, k) \in Seq(Msg)
      BY <1>7, TrainType
    <3>4. <<>> \o ms = ms
      BY <3>2, <3>3, ConcatEmptySeq
    <3> QED BY <1>7, <1>9, <3>1, <3>2, <3>4
  <2>2. CASE Sending(o)
    <3>1. ms = <<>>
      BY <1>1, <2>2, EmptySeq DEF Sending, ms
    <3>2. wire[1].toIn \o <<>> = wire[1].toIn
      BY <1>8, ConcatEmptySeq
    <3> QED BY <1>9, <2>2, <3>1, <3>2 DEF Sending
  <2> QED BY <1>4, <2>1, <2>2
<1>11. Grants'
  <2>1. Grants /\ ToSet(wire'[1].toOut) \subseteq ToSet(wire[1].toOut)
    BY <1>4, <1>9 DEF Awaiting, Sending
  <2> QED BY <2>1 DEF Grants, Way
<1>12. Sending(e)'
  <2>1. o.st = "ready"
    BY <1>4 DEF Awaiting, Sending
  <2> QED BY <1>2, <1>3, <1>10, <1>11, <2>1 DEF Sending
<1>13. Kinds' /\ e \in Sessions(Sender)'
  BY <1>2, <1>3, HereReplaced
<1>14. conns' >= conns /\ Stage(e)' /\ AskedLate(e)'
  BY <1>1, <1>2, <1>12 DEF Stage, AskedLate, Types
<1> QED BY <1>2, <1>3, <1>9, <1>13, <1>14, OneKeeps

\* The outbound session reads a message.
LEMMA OutHere ==
    ASSUME NEW o, Ongoing(o), Types', NEW i \in 1 .. Len(list[Sender]), list[Sender][i] = o,
           wire[1].toOut # <<>>, UNCHANGED sent, NEW m, m = Head(wire[1].toOut),
           \/ OutOpen(Sender, i, m) \/ dialbackResult(Sender, i, m)
           \/ dialbackVerifyResult(Sender, i, m) \/ OutGone(Sender, i, m)
    PROVE  Running' /\ UNCHANGED got
<1> DEFINE x == Tail(wire[1].toOut)
<1>1. Types /\ 1 \in Conns /\ Sender \in Hosts /\ o \in Sessions(Sender) /\ o.kind = "out" /\ o.c = 1
      /\ o \in Session /\ AskedLate(o) /\ Kinds
  <2>1. Types /\ 1 \in Conns /\ Sender \in Hosts /\ o \in Sessions(Sender) /\ o.kind = "out"
        /\ AskedLate(o) /\ Kinds
    BY SenderType DEF Ongoing
  <2> QED BY <2>1, WhoseOne
<1>2. Incoming(o) = "toOut"
  BY <1>1 DEF Incoming
<1>3. Puts(Taken(o), wire, 1, "toOut", x) /\ Taken(o) \in Wires
  <2>1. Taken(o) \in Wires
    BY <1>1, <1>2, TakenType
  <2> QED BY <1>1, <1>2, <2>1, TakenAt
<1>4. \/ m.t = "open" /\ Greeted(o) /\ x = <<>>
      \/ m.t = "grant" /\ (Awaiting(o) \/ Sending(o)) /\ ToSet(x) \subseteq ToSet(wire[1].toOut)
  BY AtBack
<1> HIDE DEF x
<1>5. CASE OutOpen(Sender, i, m)
  <2> DEFINE e == [o EXCEPT !.st = "ready"]
             ms == <<M("result", 0)>>
  <2>1. /\ list' = [list EXCEPT ![Sender] = [list[Sender] EXCEPT ![i] = e]]
        /\ wire' = Put(Taken(o), 1, "toIn", ms) /\ UNCHANGED <<shut, conns, got>> /\ m.t = "open"
    BY <1>1, <1>5 DEF OutOpen
  <2>2. /\ e \in Session /\ e.kind = "out" /\ e.c = 1 /\ e.ver = o.ver /\ e.st = "ready"
        /\ e.active = o.active /\ e.pending = o.pending
    BY <1>1 DEF Session
  <2>3. Greeted(o) /\ x = <<>>
    BY <1>4, <2>1
  <2>4. <<>> \o ms = ms
    BY ConcatEmptySeq DEF M
  <2> HIDE DEF e, ms
  <2>5. /\ \A c \in Conns, d \in Directions : c # 1 => wire'[c][d] = wire[c][d]
        /\ wire'[1].toIn = wire[1].toIn \o ms /\ wire'[1].toOut = x
    BY <1>3, <2>1, HerePut
  <2>6. Wired(ms, <<>>)'
    BY <2>3, <2>4, <2>5 DEF Greeted, Wired
  <2>7. Queueing(e)'
    BY <2>1, <2>2, <2>3 DEF Greeted, Queueing
  <2>8. Asking(e)'
    BY <2>2, <2>6, <2>7 DEF Asking, ms
  <2>9. /\ Kinds' /\ e \in Sessions(Sender)'
        /\ \A g \in Hosts : AsksAbout(g, 1)' => AsksAbout(g, 1)
    BY <2>1, <2>2, HereReplaced
  <2>10. ~Awaiting(o) /\ ~Sending(o)
    BY <2>3 DEF Greeted, Awaiting, Sending
  <2>11. conns' >= conns /\ Stage(e)' /\ AskedLate(e)'
    BY <1>1, <2>1, <2>8, <2>9, <2>10 DEF Stage, AskedLate, Types
  <2> QED BY <2>1, <2>2, <2>5, <2>9, <2>11, OneKeeps
<1>6. CASE dialbackResult(Sender, i, m) /\ m.n = 1
  BY <1>6, GrantedHere
<1>7. CASE dialbackResult(Sender, i, m) /\ m.n # 1
  <2>1. UNCHANGED <<list, shut, conns, got>> /\ wire' = Taken(o) /\ m.t = "grant"
    BY <1>7 DEF dialbackResult
  <2>2. /\ \A c \in Conns, d \in Directions : c # 1 => wire'[c][d] = wire[c][d]
        /\ wire'[1].toIn = wire[1].toIn /\ wire'[1].toOut = x
    BY <1>1, <1>3, <2>1 DEF Puts, Directions
  <2>3. Grants'
    <3>1. Grants /\ ToSet(wire'[1].toOut) \subseteq ToSet(wire[1].toOut)
      BY <1>4, <2>1, <2>2 DEF Awaiting, Sending
    <3> QED BY <3>1 DEF Grants, Way
  <2>4. (Awaiting(o) => Awaiting(o)') /\ (Sending(o) => Sending(o)')
    BY <2>1, <2>2, <2>3 DEF Awaiting, Sending, Queueing
  <2>5. conns' >= conns /\ Stage(o)' /\ AskedLate(o)'
    BY <1>1, <1>4, <2>1, <2>4 DEF Stage, AskedLate, Types
  <2>6. Kinds' /\ o \in Sessions(Sender)'
    BY <1>1, <2>1 DEF Kinds, Sessions
  <2> QED BY <1>1, <2>1, <2>2, <2>5, <2>6, OneKeeps
<1>8. CASE dialbackVerifyResult(Sender, i, m) \/ OutGone(Sender, i, m)
  BY <1>4, <1>8 DEF dialbackVerifyResult, OutGone
<1> QED BY <1>5, <1>6, <1>7, <1>8

-----------------------------------------------------------------------------
(* Connecting and writing.                                                *)

\* A connection is accepted: the session that dialled it waits for the greeting,
\* and the other host has a new session.
LEMMA ConnectedSets ==
    ASSUME Types, NEW h \in Hosts, NEW i \in 1 .. Len(list[h]), Connected(h, i),
           NEW s \in Session, s = list[h][i]
    PROVE  LET f == [s EXCEPT !.st = "opening"]
               e == NewSession("in", s.c, "opening", 0, <<>>)
           IN  /\ f \in Session /\ e \in Session
               /\ \A g \in Hosts : \A t \in Sessions(g)' :
                     t \in Sessions(g) \/ (g = h /\ t = f) \/ (g # h /\ t = e)
               /\ \A g \in Hosts : \A r \in Sessions(g) : r \in Sessions(g)' \/ (g = h /\ r = s)
               /\ f \in Sessions(h)'
<1> DEFINE p == Peer(h)
           f == [s EXCEPT !.st = "opening"]
           e == NewSession("in", s.c, "opening", 0, <<>>)
           q == list[h]
           l == [q EXCEPT ![i] = f]
           k == list[p]
           x == <<e>>
           m == k \o x
<1>1. p \in Hosts /\ p # h /\ s.c \in Conns
  BY OneSession, PeerType
<1>2. f \in Session /\ e \in Session
  BY <1>1, EmptySeq DEF NewSession, Session
<1>3. /\ q \in Seq(Session) /\ Sessions(h) = ToSet(q) /\ q[i] = s
      /\ k \in Seq(Session) /\ Sessions(p) = ToSet(k)
  BY <1>1, ListSet DEF Sessions
<1>4. x \in Seq(Session) /\ ToSet(x) = {e}
  BY <1>2, SetSmall
<1>5. m = Append(list[p], e)
  BY <1>3, <1>4
<1>6. \A g \in Hosts : list'[g] = IF g = h THEN l ELSE IF g = p THEN m ELSE list[g]
  <2>1. list' = [[list EXCEPT ![h] = l] EXCEPT ![p] = Append(list[p], e)]
    <3>1. list' = [list EXCEPT ![h][i].st = "opening", ![p] = Append(@, e)]
      BY DEF Connected
    <3> QED BY <1>1, <3>1 DEF Types
  <2> HIDE DEF m, l, e, p
  <2> QED BY <1>1, <1>5, <2>1 DEF Types
<1> HIDE DEF f, e, q, k, x
<1>7. ToSet(l) \subseteq ToSet(q) \cup {f} /\ ToSet(q) \subseteq ToSet(l) \cup {s} /\ f \in ToSet(l)
  <2>1. i \in 1 .. Len(q)
    BY DEF q
  <2>2. /\ ToSet([q EXCEPT ![i] = f]) \subseteq ToSet(q) \cup {f}
        /\ ToSet(q) \subseteq ToSet([q EXCEPT ![i] = f]) \cup {q[i]}
        /\ f \in ToSet([q EXCEPT ![i] = f])
    BY <1>2, <1>3, <2>1, SetReplaced
  <2> QED BY <1>3, <2>2
<1>8. ToSet(m) = ToSet(k) \cup {e}
  BY <1>3, <1>4, SetJoined
<1> HIDE DEF l, m
<1>9. \A g \in Hosts :
         Sessions(g)' = IF g = h THEN ToSet(l) ELSE IF g = p THEN ToSet(m) ELSE Sessions(g)
  BY <1>6 DEF Sessions
<1> HIDE DEF p
<1>10. \A g \in Hosts : \A t \in Sessions(g)' :
          t \in Sessions(g) \/ (g = h /\ t = f) \/ (g # h /\ t = e)
  BY <1>1, <1>3, <1>7, <1>8, <1>9
<1>11. \A g \in Hosts : \A r \in Sessions(g) : r \in Sessions(g)' \/ (g = h /\ r = s)
  BY <1>1, <1>3, <1>7, <1>8, <1>9
<1>12. f \in Sessions(h)'
  BY <1>7, <1>9
<1> QED BY <1>2, <1>10, <1>11, <1>12 DEF f, e

\* A connection is accepted, the sender's or one of a verify session.
LEMMA ConnectedLinks ==
    ASSUME NEW o, Ongoing(o), Types', NEW h \in Hosts, NEW i \in 1 .. Len(list[h]), Connected(h, i)
    PROVE  Running' /\ UNCHANGED got
<1>1. Types /\ 1 \in Conns /\ Sender \in Hosts /\ o \in Sessions(Sender) /\ o.kind = "out" /\ o.c = 1
      /\ o \in Session /\ AskedLate(o) /\ Kinds /\ Open(1) /\ conns \in Nat /\ Dialled /\ NoTrain(wire)
  <2>1. Types /\ 1 \in Conns /\ Sender \in Hosts /\ o \in Sessions(Sender) /\ o.kind = "out"
        /\ AskedLate(o) /\ Kinds /\ Open(1) /\ Dialled /\ NoTrain(wire)
    BY SenderType DEF Ongoing
  <2>2. conns \in Nat
    BY <2>1 DEF Types
  <2> QED BY <2>1, <2>2, WhoseOne
<1>2. PICK s \in Session : s = list[h][i]
  BY <1>1, OneSession
<1>3. s \in Sessions(h) /\ s.c \in Conns /\ s.st = "connecting" /\ s.kind # "in"
  <2>1. s \in Sessions(h) /\ s.c \in Conns
    BY <1>1, <1>2, ListSet, OneSession
  <2> QED BY <1>1, <1>2, <2>1 DEF Connected, Dialled
<1> DEFINE f == [s EXCEPT !.st = "opening"]
           e == NewSession("in", s.c, "opening", 0, <<>>)
           one == <<M("open", 0)>>
<1>4. /\ f \in Session /\ e \in Session
      /\ \A g \in Hosts : \A t \in Sessions(g)' :
            t \in Sessions(g) \/ (g = h /\ t = f) \/ (g # h /\ t = e)
      /\ \A g \in Hosts : \A r \in Sessions(g) : r \in Sessions(g)' \/ (g = h /\ r = s)
      /\ f \in Sessions(h)'
  BY <1>1, <1>2, ConnectedSets
<1>5. UNCHANGED <<shut, conns, sent, got>> /\ wire' = With(wire, s.c, "toIn", one)
  BY <1>2 DEF Connected, With
<1>6. Puts(wire', wire, s.c, "toIn", one)
  <2>1. wire \in Wires /\ "toIn" \in Directions
    BY <1>1 DEF Types, Directions
  <2> HIDE DEF one
  <2>2. Puts(With(wire, s.c, "toIn", one), wire, s.c, "toIn", one)
    BY <1>3, <2>1, WithAt
  <2> QED BY <1>5, <2>2
<1>7. /\ f.kind = s.kind /\ f.c = s.c /\ f.ver = s.ver /\ f.active = s.active
      /\ f.pending = s.pending /\ f.st = "opening" /\ e.kind = "in"
  BY <1>2 DEF Session, NewSession
<1> HIDE DEF f, e, one
<1>8. \A g \in Hosts : \A c : AsksAbout(g, c)' => AsksAbout(g, c)
  BY <1>3, <1>4, <1>7 DEF AsksAbout
<1>9. Kinds'
  BY <1>1, <1>3, <1>4, <1>7 DEF Kinds
<1>10. conns' >= conns
  BY <1>1, <1>5
<1>11. CASE h = Sender
  <2>1. s = o
    BY <1>1, <1>3, <1>11, WhoseOne
  <2>2. Dialling(o)
    BY <1>3, <2>1 DEF Ongoing, Stage, Greeting, Greeted, Asking, Awaiting, Sending
  <2>3. /\ \A c \in Conns, d \in Directions : c # 1 => wire'[c][d] = wire[c][d]
        /\ wire'[1].toIn = one /\ wire'[1].toOut = wire[1].toOut
    BY <1>1, <1>6, <2>1 DEF Puts, Directions
  <2>4. Greeting(f)'
    <3>1. Wired(<<M("open", 0)>>, <<>>)'
      BY <2>2, <2>3 DEF Dialling, Wired, one
    <3>2. Queueing(f)'
      BY <1>5, <1>7, <2>1, <2>2 DEF Dialling, Queueing
    <3> QED BY <1>7, <3>1, <3>2 DEF Greeting
  <2>5. AskedLate(f)'
    <3>1. ~Awaiting(o) /\ ~Sending(o)
      BY <1>3, <2>1 DEF Awaiting, Sending
    <3> QED BY <1>1, <1>8, <3>1 DEF AskedLate
  <2>6. Stage(f)' /\ f.kind = "out"
    BY <1>1, <1>7, <2>1, <2>4 DEF Stage
  <2> QED BY <1>4, <1>5, <1>9, <1>10, <1>11, <2>3, <2>5, <2>6, OneKeeps
<1>12. CASE h # Sender
  <2>1. s.c # 1
    BY <1>3, <1>12, WhoseOne
  <2>2. SameOne
    BY <1>1, <1>6, <2>1 DEF SameOne, Puts
  <2>3. NoTrain(wire')
    <3>1. ToSet(one) = {M("open", 0)} /\ M("open", 0).t = "open" /\ "toIn" \in Directions
      BY SetSmall DEF one, M, Directions
    <3>2. \A c \in Conns :
             Way(wire', c, "toIn") = IF c = s.c THEN {M("open", 0)} ELSE Way(wire, c, "toIn")
      BY <1>6, <3>1 DEF Puts, Way
    <3> QED BY <1>1, <3>1, <3>2 DEF NoTrain
  <2>4. o \in Sessions(Sender)'
    BY <1>1, <1>4, <1>12
  <2>5. Stage(o)' /\ AskedLate(o)'
    BY <1>1, <1>5, <1>8, <2>2, StageKept DEF AskedLate, Ongoing
  <2>6. Open(1)' /\ 1 <= conns'
    BY <1>1, <1>5 DEF Open, Ongoing
  <2> QED BY <1>1, <1>5, <1>9, <2>3, <2>4, <2>5, <2>6 DEF Running
<1> QED BY <1>5, <1>11, <1>12

\* The sender hands over a stanza.
Sends == sent[Sender] < MaxStanzas /\ sent'[Sender] = sent[Sender] + 1

\* The stanza joins the queue of the outbound session, or goes to the wire.
LEMMA WriteLinks ==
    ASSUME NEW o, Ongoing(o), Types', NEW h \in Hosts, Write(h)
    PROVE  Running' /\ UNCHANGED got /\ Sends
<1>1. Types /\ 1 \in Conns /\ Sender \in Hosts /\ o \in Sessions(Sender) /\ o.kind = "out" /\ o.c = 1
      /\ o \in Session /\ AskedLate(o) /\ Kinds /\ Open(1) /\ conns \in Nat /\ Stage(o) /\ h = Sender
  <2>1. Types /\ 1 \in Conns /\ Sender \in Hosts /\ o \in Sessions(Sender) /\ o.kind = "out"
        /\ AskedLate(o) /\ Kinds /\ Open(1) /\ Stage(o)
    BY SenderType DEF Ongoing
  <2>2. conns \in Nat
    BY <2>1 DEF Types
  <2>3. h = Sender
    BY SenderType DEF Ongoing, Write
  <2> QED BY <2>1, <2>2, <2>3, WhoseOne
<1> DEFINE k == sent[Sender]
           n == Len(got[Sender])
<1>2. k \in Nat /\ n \in Nat /\ wire[1].toIn \in Seq(Message)
  BY <1>1, LenProperties DEF Types, Wires
<1>3. sent[Sender] < MaxStanzas /\ sent'[Sender] = k + 1 /\ UNCHANGED <<shut, got>>
  BY <1>1 DEF Write, Types
<1>4. PICK i \in 1 .. Len(list[Sender]) : i = ensureOutbound(Sender) /\ list[Sender][i] = o
  <2>1. Outbounds(Sender) # {}
    <3>1. PICK j \in 1 .. Len(list[Sender]) : list[Sender][j] = o
      BY <1>1, ListSet
    <3> QED BY <1>1, <3>1 DEF Outbounds
  <2>2. PICK i \in 1 .. Len(list[Sender]) : i = ensureOutbound(Sender) /\ list[Sender][i].kind # "in"
    <3>1. Outbounds(Sender) \subseteq Nat
      BY DEF Outbounds
    <3>2. \E j \in Outbounds(Sender) : \A l \in Outbounds(Sender) : j <= l
      BY <2>1, <3>1, LeastNumber
    <3> QED BY <3>2 DEF ensureOutbound, Outbounds
  <2>3. list[Sender][i] \in Sessions(Sender)
    BY <1>1, ListSet
  <2> QED BY <1>1, <2>2, <2>3, WhoseOne
<1>5. SessionWrite(Sender, i, k + 1) /\ UNCHANGED conns
  <2>1. i \in Outbounds(Sender)
    BY <1>1, <1>4 DEF Outbounds
  <2> QED BY <1>1, <1>4, <2>1 DEF Write
<1>6. conns' >= conns
  BY <1>1, <1>5
<1>7. CASE o.active
  <2>1. Sending(o)
    BY <1>1, <1>7 DEF Stage, Dialling, Greeting, Greeted, Asking, Awaiting, Queueing
  <2> DEFINE m == M("stanza", k + 1)
             ms == <<m>>
             x == wire[1].toOut
  <2>2. UNCHANGED list /\ wire' = Put(wire, 1, "toIn", ms)
    BY <1>1, <1>4, <1>5, <1>7 DEF SessionWrite
  <2>3. wire \in Wires /\ Puts(wire, wire, 1, "toOut", x)
    BY <1>1 DEF Types, Puts
  <2> HIDE DEF ms, x
  <2>4. /\ \A c \in Conns, d \in Directions : c # 1 => wire'[c][d] = wire[c][d]
        /\ wire'[1].toIn = wire[1].toIn \o ms /\ wire'[1].toOut = x
    BY <2>2, <2>3, HerePut
  <2>5. n <= k /\ wire[1].toIn = Train(n, k - n)
    BY <2>1 DEF Sending
  <2>6. wire'[1].toIn = Train(n, (k + 1) - n)
    <3>1. PICK j \in Nat : j = k - n
      BY <1>2, <2>5
    <3>2. j + 1 = (k + 1) - n /\ n + j + 1 = k + 1
      BY <1>2, <3>1
    <3> HIDE DEF n, k
    <3>3. Train(n, j) \o <<M("stanza", n + j + 1)>> = Train(n, j + 1)
      BY <1>2, Trains
    <3> QED BY <2>4, <2>5, <3>1, <3>2, <3>3 DEF ms
  <2>7. Sending(o)'
    <3>1. Grants'
      BY <2>1, <2>4 DEF Sending, Grants, Way, x
    <3>2. n <= k + 1
      BY <1>2, <2>5
    <3> QED BY <1>3, <2>1, <2>6, <3>1, <3>2 DEF Sending
  <2>8. Kinds' /\ o \in Sessions(Sender)' /\ Stage(o)' /\ AskedLate(o)'
    BY <1>1, <2>2, <2>7 DEF Kinds, Sessions, Stage, AskedLate
  <2>9. Running'
    BY <1>1, <1>3, <1>6, <2>4, <2>8, OneKeeps
  <2> QED BY <1>3, <2>9 DEF Sends
<1>8. CASE ~o.active
  <2> PICK r, e : r = Append(o.pending, k + 1) /\ e = [o EXCEPT !.pending = r]
    OBVIOUS
  <2>1. list' = [list EXCEPT ![Sender] = [list[Sender] EXCEPT ![i] = e]] /\ UNCHANGED wire
    BY <1>4, <1>5, <1>8 DEF SessionWrite
  <2>2. Queueing(o)
    BY <1>1, <1>8 DEF Stage, Dialling, Greeting, Greeted, Asking, Awaiting, Sending
  <2>3. r = Counted(k + 1)
    BY <1>2, <2>2, Trains DEF Queueing
  <2>4. r \in Seq(Stanzas)
    <3>1. o.pending \in Seq(Stanzas)
      BY <1>1 DEF Session
    <3>2. k + 1 \in Stanzas
      BY <1>2, <1>3, S2SAssumption DEF Stanzas, S2SAssumption
    <3> QED BY <3>1, <3>2, AppendProperties
  <2>5. /\ e \in Session /\ e.kind = "out" /\ e.c = 1 /\ e.ver = o.ver /\ e.st = o.st
        /\ ~e.active /\ e.pending = r
    BY <1>1, <1>8, <2>4 DEF Session
  <2>6. /\ Kinds' /\ e \in Sessions(Sender)'
        /\ \A g \in Hosts : AsksAbout(g, 1)' => AsksAbout(g, 1)
    BY <1>4, <2>1, <2>5, HereReplaced
  <2>7. Queueing(e)'
    BY <1>3, <2>2, <2>3, <2>5 DEF Queueing
  <2>8. (\A in, out : Wired(in, out) => Wired(in, out)') /\ (Grants => Grants')
    BY <2>1 DEF Wired, Grants, Way
  <2>9. /\ Dialling(o) => Dialling(e)'
        /\ Greeting(o) => Greeting(e)'
        /\ Greeted(o) => Greeted(e)'
        /\ Asking(o) => Asking(e)'
    BY <2>5, <2>7, <2>8 DEF Dialling, Greeting, Greeted, Asking
  <2>10. Awaiting(o) => Awaiting(e)'
    BY <2>1, <2>5, <2>7, <2>8 DEF Awaiting
  <2>11. ~Sending(o)
    BY <1>8 DEF Sending
  <2>12. Stage(e)' /\ AskedLate(e)'
    BY <1>1, <2>6, <2>9, <2>10, <2>11 DEF Stage, AskedLate
  <2>13. \A c \in Conns, d \in Directions : c # 1 => wire'[c][d] = wire[c][d]
    BY <2>1
  <2>14. Running'
    BY <1>3, <1>6, <2>5, <2>6, <2>12, <2>13, OneKeeps
  <2> QED BY <1>3, <2>14 DEF Sends
<1> QED BY <1>7, <1>8

\* The first stanza makes the outbound session.
LEMMA FirstLinks ==
    ASSUME Types, OneSender, Idle, NEW h \in Hosts, Write(h)
    PROVE  Running' /\ UNCHANGED got /\ Sends
<1>1. Sender \in Hosts /\ h = Sender /\ list[Sender] = <<>> /\ conns = 0
      /\ \A g \in Hosts : Sessions(g) = {}
  BY SenderType, SetSmall DEF Write, Idle, Sessions
<1>2. Outbounds(Sender) = {}
  BY <1>1, EmptySeq DEF Outbounds
<1>3. sent[Sender] = 0 /\ sent[Sender] < MaxStanzas /\ sent'[Sender] = 1 /\ UNCHANGED <<wire, shut, got>>
  BY <1>1, <1>2 DEF Write, Types, Idle
<1>4. conns < MaxConns /\ conns' = 1
  BY <1>1, <1>2 DEF Write
<1>5. 1 \in Conns /\ 1 \in Stanzas
  BY <1>1, <1>3, <1>4, S2SAssumption DEF Conns, Stanzas, S2SAssumption
<1> DEFINE q == <<1>>
           e == NewSession("out", 1, "connecting", 0, q)
<1>6. list' = [list EXCEPT ![Sender] = Append(list[Sender], e)]
  BY <1>1, <1>2, <1>3 DEF Write
<1>7. q \in Seq(Stanzas) /\ q = Counted(1)
  <2>1. Counted(0) = <<>>
    BY DEF Counted
  <2>2. Append(Counted(0), 0 + 1) = Counted(0 + 1)
    BY Trains
  <2>3. \A x : Append(<<>>, x) = <<x>>
    OBVIOUS
  <2>4. q = Counted(1)
    BY <2>1, <2>2, <2>3
  <2>5. q \in Seq(Stanzas)
    BY <1>5
  <2> QED BY <2>4, <2>5
<1> HIDE DEF q
<1>8. /\ e \in Session /\ e.kind = "out" /\ e.c = 1 /\ e.st = "connecting" /\ e.ver = 0
      /\ ~e.active /\ e.pending = Counted(1)
  BY <1>5, <1>7 DEF NewSession, Session
<1> HIDE DEF e
<1>9. \A g \in Hosts : Sessions(g)' = IF g = Sender THEN {e} ELSE {}
  <2>1. \A g \in Hosts : Sessions(g)' = IF g = Sender THEN Sessions(g) \cup {e} ELSE Sessions(g)
    BY <1>1, <1>6, <1>8, JoinedSets
  <2> QED BY <1>1, <2>1
<1>10. Kinds'
  BY <1>8, <1>9 DEF Kinds
<1>11. NoTrain(wire') /\ Wired(<<>>, <<>>)' /\ Open(1)'
  <2>1. \A c \in Conns : wire'[c].toIn = <<>> /\ wire'[c].toOut = <<>>
    BY <1>3 DEF Idle
  <2>2. <<1, "toIn">> \notin shut' /\ <<1, "toOut">> \notin shut'
    BY <1>3 DEF Idle
  <2> QED BY <1>5, <2>1, <2>2, SetSmall DEF NoTrain, Way, Wired, Open
<1>12. Dialling(e)'
  <2>1. got'[Sender] = <<>>
    BY <1>3 DEF Idle
  <2> QED BY <1>3, <1>8, <1>11, <2>1 DEF Dialling, Queueing
<1>13. AskedLate(e)'
  BY <1>8, <1>9 DEF AskedLate, AsksAbout
<1>14. Running'
  BY <1>1, <1>4, <1>8, <1>9, <1>10, <1>11, <1>12, <1>13 DEF Running, Stage
<1> QED BY <1>3, <1>14 DEF Sends

-----------------------------------------------------------------------------
(* The theorems.                                                          *)

\* What a step does to the link.
Moves == \/ UNCHANGED got /\ Sends
         \/ UNCHANGED sent /\ Delivers
         \/ UNCHANGED <<sent, got>>

\* A step of a network where nothing failed is one of the link, or leaves it alone.
LEMMA StepLink ==
    ASSUME Types, Types', Dialled, LiveIsProven, OneSender, LInv, [Next]_vars
    PROVE  LInv' /\ (breaks' = 0 => Moves)
<1> SUFFICES ASSUME breaks' = 0 PROVE (Idle \/ Running)' /\ Moves
  BY DEF LInv
<1>1. breaks \in Nat /\ conns \in 0 .. MaxConns /\ MaxConns \in Nat
  BY S2SAssumption DEF Types, S2SAssumption
<1>2. \A h \in Hosts : \A i \in 1 .. Len(list[h]) : ~ConnectFailed(h, i) /\ ~Break(h, i)
  <2>1. ~(breaks' = breaks + 1)
    BY <1>1
  <2>2. \A h, i : ConnectFailed(h, i) \/ Break(h, i) => breaks' = breaks + 1
    BY DEF ConnectFailed, Break
  <2> QED BY <2>1, <2>2
<1>3. breaks = 0
  <2>1. CASE UNCHANGED vars
    BY <2>1 DEF vars
  <2>2. CASE Next
    <3>1. PICK h \in Hosts : \/ Write(h)
                            \/ \E i \in 1 .. Len(list[h]) : Connected(h, i) \/ Receive(h, i)
      BY <1>2, <2>2 DEF Next
    <3>2. \A i : Write(h) \/ Connected(h, i) \/ Receive(h, i) => breaks' = breaks
      BY DEF Write, Connected, Receive
    <3> QED BY <3>1, <3>2
  <2> QED BY <2>1, <2>2
<1>4. CASE UNCHANGED vars
  <2>1. UNCHANGED <<list, wire, shut, conns, sent, got>>
    BY <1>4 DEF vars
  <2>2. Idle' <=> Idle
    BY <2>1 DEF Idle
  <2>3. Running' <=> Running
    <3>1. \A o : Stage(o)' <=> Stage(o)
      BY <2>1 DEF Stage, Dialling, Greeting, Greeted, Asking, Awaiting, Sending, Queueing, Wired,
                  Grants, Way
    <3>2. \A o : AskedLate(o)' <=> AskedLate(o)
      BY <2>1 DEF AskedLate, AsksAbout, Sessions, Awaiting, Sending, Queueing, Grants, Way
    <3> QED BY <2>1, <3>1, <3>2 DEF Running, Kinds, NoTrain, Open, Sessions, Way
  <2> QED BY <1>3, <2>1, <2>2, <2>3 DEF LInv, Moves
<1>5. CASE Idle /\ Next
  <2>1. \A h \in Hosts : \A i \in 1 .. Len(list[h]) : FALSE
    BY <1>5, EmptySeq DEF Idle
  <2>2. PICK h \in Hosts : Write(h)
    BY <1>5, <2>1 DEF Next
  <2>3. UNCHANGED got /\ Sends /\ Running'
    BY <1>5, <2>2, FirstLinks
  <2> QED BY <2>3 DEF Moves
<1>6. CASE Running /\ Next
  <2>1. PICK o : Ongoing(o)
    <3>1. 1 \in Conns
      BY <1>1, <1>6 DEF Running, Conns
    <3> QED BY <1>6, <3>1 DEF Running, Ongoing
  <2>2. ASSUME NEW h \in Hosts, Write(h) PROVE Running' /\ Moves
    <3>1. Running' /\ UNCHANGED got /\ Sends
      BY <2>1, <2>2, WriteLinks
    <3> QED BY <3>1 DEF Moves
  <2>3. ASSUME NEW h \in Hosts, NEW i \in 1 .. Len(list[h]), Connected(h, i) PROVE Running' /\ Moves
    <3>1. Running' /\ UNCHANGED got
      BY <2>1, <2>3, ConnectedLinks
    <3> QED BY <2>3, <3>1 DEF Moves, Connected
  <2>4. ASSUME NEW h \in Hosts, NEW i \in 1 .. Len(list[h]), Receive(h, i) PROVE Running' /\ Moves
    <3> DEFINE s == list[h][i]
    <3>1. wire[s.c][Incoming(s)] # <<>> /\ UNCHANGED sent
      BY <2>4 DEF Receive
    <3>2. PICK m \in Message : m = Head(wire[s.c][Incoming(s)])
      BY <3>1, TakenType
    <3>3. CASE s.kind = "in"
      <4>1. \/ InOpen(h, i, m) \/ dialbackRequest(h, i, m) \/ dialbackVerifyRequest(h, i, m)
            \/ StanzaReceived(h, i, m) \/ InGone(h, i, m)
        BY <2>4, <3>2, <3>3 DEF Receive
      <4>2. Running' /\ (UNCHANGED got \/ Delivers)
        BY <2>1, <3>1, <3>2, <3>3, <4>1, InHere, InElsewhere
      <4> QED BY <3>1, <4>2 DEF Moves
    <3>4. CASE s.kind # "in"
      <4>1. \/ OutOpen(h, i, m) \/ dialbackResult(h, i, m)
            \/ dialbackVerifyResult(h, i, m) \/ OutGone(h, i, m)
        BY <2>4, <3>2, <3>4 DEF Receive
      <4>2. CASE h # Sender
        <5>1. Running' /\ UNCHANGED got
          BY <2>1, <3>1, <3>2, <3>4, <4>1, <4>2, OutElsewhere
        <5> QED BY <3>1, <5>1 DEF Moves
      <4>3. CASE h = Sender
        <5>1. s \in Sessions(h)
          BY ListSet
        <5>2. s = o /\ o.c = 1
          BY <2>1, <3>4, <4>3, <5>1, WhoseOne
        <5>3. Incoming(o) = "toOut"
          BY <3>4, <5>2 DEF Incoming
        <5>4. wire[1].toOut # <<>> /\ m = Head(wire[1].toOut)
          BY <3>1, <3>2, <5>2, <5>3
        <5>5. Running' /\ UNCHANGED got
          BY <2>1, <3>1, <4>1, <4>3, <5>2, <5>4, OutHere
        <5> QED BY <3>1, <5>5 DEF Moves
      <4> QED BY <4>2, <4>3
    <3> QED BY <3>3, <3>4
  <2> QED BY <1>2, <1>6, <2>2, <2>3, <2>4 DEF Next
<1> QED BY <1>3, <1>4, <1>5, <1>6 DEF LInv

\* The moves of the network are those of the link.
LEMMA MovesOfLink == ASSUME Types, OneSender, Moves PROVE [ReliableLink!Next]_(ReliableLink!vars)
<1>1. UNCHANGED sent => sent'[Sender] = sent[Sender]
  OBVIOUS
<1>2. UNCHANGED got => got'[Sender] = got[Sender]
  OBVIOUS
<1>3. Delivers => /\ Len(got[Sender]) < sent[Sender]
                  /\ got'[Sender] = Append(got[Sender], Len(got[Sender]) + 1)
  BY SenderType DEF Delivers, Types
<1> QED BY <1>1, <1>2, <1>3
        DEF Moves, Sends, ReliableLink!Next, ReliableLink!Send, ReliableLink!Deliver, ReliableLink!vars

\* The network starts as the link does.
LEMMA InitLink == ASSUME Init, OneSender PROVE LInv /\ ReliableLink!Init
<1>1. Idle
  BY SenderType DEF Init, Idle
<1> QED BY <1>1 DEF LInv, Idle, ReliableLink!Init

\* With one sending host, until a connection fails, what the users of the host
\* hand over and what the other host takes behave as the reliable link: in the
\* order it was sent, each stanza once, and none is skipped.
THEOREM LinkKept ==
    OneSender =>
      (Spec => ReliableLink!Init
               /\ [][breaks' = 0 => [ReliableLink!Next]_(ReliableLink!vars)]_vars)
<1> SUFFICES ASSUME OneSender
             PROVE  Spec => ReliableLink!Init
                            /\ [][breaks' = 0 => [ReliableLink!Next]_(ReliableLink!vars)]_vars
  OBVIOUS
<1>1. Init => LInv /\ ReliableLink!Init
  BY InitLink
<1>2. Types /\ Types' /\ DInv /\ AInv /\ LInv /\ [Next]_vars
        => LInv' /\ (breaks' = 0 => [ReliableLink!Next]_(ReliableLink!vars))
  <2> SUFFICES ASSUME Types, Types', DInv, AInv, LInv, [Next]_vars
               PROVE  LInv' /\ (breaks' = 0 => [ReliableLink!Next]_(ReliableLink!vars))
    OBVIOUS
  <2>1. Dialled /\ LiveIsProven
    BY NumberedSets DEF DInv, AInv
  <2>2. LInv' /\ (breaks' = 0 => Moves)
    BY <2>1, StepLink
  <2> QED BY <2>2, MovesOfLink
<1>3. Spec => []DInv
  BY InitDelivery, StepDelivery, Reachable, PTL DEF Spec
<1> QED BY <1>1, <1>2, <1>3, Agreement, PTL DEF Spec

\* When no connection can fail, the network implements the link's every step.
THEOREM LinkImplemented ==
    OneSender /\ MaxBreaks = 0 =>
      (Spec => ReliableLink!Init /\ [][ReliableLink!Next]_(ReliableLink!vars))
<1> SUFFICES ASSUME OneSender, MaxBreaks = 0
             PROVE  Spec => ReliableLink!Init /\ [][ReliableLink!Next]_(ReliableLink!vars)
  OBVIOUS
<1>1. Types' => breaks' = 0
  BY DEF Types
<1> DEFINE Step == [ReliableLink!Next]_(ReliableLink!vars)
<1>2. UNCHANGED vars => Step
  BY DEF vars, ReliableLink!vars
<1>3. Spec => ReliableLink!Init /\ [][breaks' = 0 => Step]_vars
  BY LinkKept
<1> HIDE DEF Step
<1>4. Spec => ReliableLink!Init /\ []Types
  BY <1>3, Agreement, PTL
<1>5. Types' /\ [breaks' = 0 => Step]_vars => Step
  BY <1>1, <1>2
<1> QED BY <1>3, <1>4, <1>5, PTL DEF Step

=============================================================================
