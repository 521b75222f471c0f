----------------------------- MODULE JdnsProofs -----------------------------
(***************************************************************************)
(* Theorems about Jdns for every set of names, requests and servers, every *)
(* table of aliases and every bound: its types, no request is forgotten,   *)
(* and the rotation over the servers leaves none out.                      *)
(***************************************************************************)
EXTENDS Jdns, SequenceFacts, FiniteSetTheorems, FunctionTheorems, TLAPS

Answers == {"unused", "open", "cancelled"} \cup Outcomes

Faults == {"none", "deleted_query", "no_server", "freed_array"}

Sessions ==
    [qs : Seq(QueryRecords), live : SUBSET Nat, answer : [Requests -> Answers], fault : Faults]

Asked(id, x) == [query |-> id, server |-> x] \in net

\* Paced(id, q): the servers that q has tried or seen fail were sent a packet,
\* and as long as it has sent fewer packets than there are servers each of
\* them went to a server of its own; after that, every server was asked.
Paced(id, q) ==
    changes = 0 /\ q.step # Inactive =>
        /\ \A x \in q.tried \cup q.failed : Asked(id, x)
        /\ q.step < Len(servers) => q.ntried = q.step /\ Cardinality(q.tried) = q.step
        /\ q.step >= Len(servers) => \A x \in Servers : Asked(id, x)

\* Pointers(s): parents and children are records, a parent has no parent.
Pointers(s) ==
    /\ s.live \subseteq DOMAIN s.qs
    /\ \A id \in DOMAIN s.qs :
          /\ s.qs[id].child <= Len(s.qs)
          /\ s.qs[id].parent <= Len(s.qs)
          /\ s.qs[id].parent # None => s.qs[s.qs[id].parent].parent = None

Kept(id, q) ==
    /\ q.ntried <= q.step
    /\ q.parent = None \/ q.child = None
    /\ q.step = Inactive => q.reqs = <<>> /\ q.parent = None
    /\ Paced(id, q)

\* Linked(s, id): a lookup has its own timer or a child that exists, unless its
\* child gave up; and its child, while it exists, reports to it.
Linked(s, id) ==
    /\ s.qs[id].timer \/ s.qs[id].child \in s.live \/ id \in untold
    /\ s.qs[id].child \in s.live => s.qs[s.qs[id].child].parent = id

Listened(s) ==
    \A r \in Requests : s.answer[r] = "open" =>
        \E id \in s.live : r \in ToSet(s.qs[id].reqs)

\* Good(s, x): what holds of the session s at every place of a handler, except
\* that the links of the query x may be in the making.
Good(s, x) ==
    /\ Pointers(s)
    /\ \A id \in s.live : Kept(id, s.qs[id]) /\ (id # x => Linked(s, id))
    /\ Listened(s)

\* The inductive invariant.
JdnsInv ==
    /\ TypeOK
    /\ Good(Session, None)
    /\ changes = 0 => ToSet(servers) = Servers

-----------------------------------------------------------------------------
\* The parts of a session, and the members of its sequences.
LEMMA SessionParts ==
    ASSUME NEW s \in Sessions
    PROVE  /\ s.qs \in Seq(QueryRecords) /\ Len(s.qs) \in Nat /\ DOMAIN s.qs = 1 .. Len(s.qs)
           /\ \A id \in DOMAIN s.qs : s.qs[id] \in QueryRecords
           /\ s.answer \in [Requests -> Answers] /\ s.fault \in Faults
<1>1. s.qs \in Seq(QueryRecords)
  BY DEF Sessions
<1>2. Len(s.qs) \in Nat /\ DOMAIN s.qs = 1 .. Len(s.qs)
  BY <1>1, LenProperties
<1>3. \A id \in DOMAIN s.qs : s.qs[id] \in QueryRecords
  BY <1>1, <1>2, ElementOfSeq
<1> QED BY <1>1, <1>2, <1>3 DEF Sessions

\* The fields of a query record.
LEMMA RecordParts ==
    ASSUME NEW q \in QueryRecords
    PROVE  /\ q.name \in Names /\ q.reqs \in Seq(Requests) /\ q.step \in 0 .. Inactive
           /\ q.timer \in BOOLEAN /\ q.asked \in BOOLEAN /\ q.tried \subseteq Servers
           /\ q.ntried \in Nat /\ q.failed \subseteq Servers /\ q.trycache \in BOOLEAN
           /\ q.chain \in 0 .. MaxChain /\ q.parent \in Nat /\ q.child \in Nat
BY DEF QueryRecords

\* The bounds are numbers.
LEMMA Bounds == GiveUpStep \in Nat /\ MaxQueries \in Nat /\ MaxChanges \in Nat /\ Inactive \in Nat
BY BoundsAssumption DEF Inactive

\* A new record.
LEMMA NewRecord ==
    ASSUME NEW n \in Names
    PROVE  /\ NewQuery(n) \in QueryRecords /\ Gone \in QueryRecords
           /\ NewQuery(n).reqs = <<>> /\ NewQuery(n).step = 0 /\ NewQuery(n).timer
           /\ NewQuery(n).ntried = 0 /\ NewQuery(n).tried = {} /\ NewQuery(n).failed = {}
           /\ NewQuery(n).parent = None /\ NewQuery(n).child = None /\ NewQuery(n).chain = 0
           /\ NewQuery(n).name = n
           /\ Gone.parent = None /\ Gone.child = None /\ Gone.reqs = <<>>
<1>1. <<>> \in Seq(Requests)
  BY EmptySeq
<1>2. \A m \in Names : NewQuery(m) \in QueryRecords
  BY <1>1, Bounds DEF NewQuery, QueryRecords, None, MaxChain
<1>3. (CHOOSE m \in Names : TRUE) \in Names
  OBVIOUS
<1>4. NewQuery(CHOOSE m \in Names : TRUE) \in QueryRecords
  BY <1>2, <1>3
<1>5. Gone \in QueryRecords
  BY <1>4 DEF Gone, QueryRecords
<1>6. Gone.parent = None /\ Gone.child = None /\ Gone.reqs = <<>>
  BY DEF Gone, NewQuery
<1> QED BY <1>2, <1>5, <1>6 DEF NewQuery

\* A record of the session is replaced: what has to hold of the new one.
LEMMA PutGood ==
    ASSUME NEW s \in Sessions, NEW t \in Sessions, NEW x, NEW id \in s.live, NEW q \in QueryRecords,
           Good(s, x), t.live = s.live, t.answer = s.answer, t.qs = [s.qs EXCEPT ![id] = q],
           Kept(id, q), q.child <= Len(s.qs),
           q.child \in s.live => s.qs[q.child].parent = id,
           id # x => q.timer \/ q.child \in s.live \/ id \in untold,
           \/ q.parent = s.qs[id].parent
           \/ q.parent = None /\ \A y \in s.live \ {x} : s.qs[y].child # id,
           \A r \in ToSet(s.qs[id].reqs) : s.answer[r] = "open" => r \in ToSet(q.reqs)
    PROVE  Good(t, x)
<1>1. /\ s.qs \in Seq(QueryRecords) /\ Len(s.qs) \in Nat /\ DOMAIN s.qs = 1 .. Len(s.qs)
      /\ \A i \in DOMAIN s.qs : s.qs[i] \in QueryRecords
  BY SessionParts
<1>2. id \in DOMAIN s.qs /\ s.live \subseteq DOMAIN s.qs
  BY DEF Good, Pointers
<1>3. /\ DOMAIN t.qs = DOMAIN s.qs /\ t.qs[id] = q
      /\ \A i \in DOMAIN s.qs : i # id => t.qs[i] = s.qs[i]
  BY <1>1, <1>2
<1>4. Len(t.qs) = Len(s.qs)
  BY <1>1, <1>3, SessionParts
<1>5. \A i \in DOMAIN s.qs : s.qs[i].parent \in Nat /\ s.qs[i].child \in Nat
  BY <1>1, RecordParts
<1>6. q.parent \in Nat /\ q.child \in Nat
  BY RecordParts
<1>7. Pointers(t)
  <2>1. t.live \subseteq DOMAIN t.qs
    BY <1>2, <1>3
  <2>2. \A i \in DOMAIN t.qs : t.qs[i].parent = s.qs[i].parent \/ t.qs[i].parent = None
    BY <1>3, <1>2
  <2>3. ASSUME NEW i \in DOMAIN t.qs
        PROVE  /\ t.qs[i].child <= Len(t.qs)
               /\ t.qs[i].parent <= Len(t.qs)
               /\ t.qs[i].parent # None => t.qs[t.qs[i].parent].parent = None
    <3>1. /\ s.qs[i].child <= Len(s.qs) /\ s.qs[i].parent <= Len(s.qs)
          /\ s.qs[i].parent # None => s.qs[s.qs[i].parent].parent = None
      BY <1>3 DEF Good, Pointers
    <3>2. t.qs[i].child <= Len(t.qs)
      BY <3>1, <1>3, <1>4
    <3>3. t.qs[i].parent <= Len(t.qs)
      BY <3>1, <2>2, <1>4, <1>1 DEF None
    <3>4. CASE t.qs[i].parent = None
      BY <3>2, <3>3, <3>4
    <3>5. CASE t.qs[i].parent # None
      <4>1. t.qs[i].parent = s.qs[i].parent /\ s.qs[i].parent \in DOMAIN s.qs
        BY <3>5, <2>2, <3>1, <1>1, <1>3, <1>5 DEF None
      <4> QED BY <4>1, <3>1, <3>5, <2>2, <1>3, <3>2, <3>3
    <3> QED BY <3>4, <3>5
  <2> QED BY <2>1, <2>3 DEF Pointers
<1>8. ASSUME NEW i \in t.live
      PROVE  Kept(i, t.qs[i]) /\ (i # x => Linked(t, i))
  <2>1. i \in s.live /\ i \in DOMAIN s.qs
    BY <1>2
  <2>2. Kept(i, s.qs[i]) /\ (i # x => Linked(s, i))
    BY <2>1 DEF Good
  <2>3. Kept(i, t.qs[i])
    BY <2>2, <2>1, <1>3
  <2>4. CASE i = id
    <3>1. i # x => q.timer \/ q.child \in t.live \/ i \in untold
      BY <2>4
    <3>2. ASSUME q.child \in s.live
          PROVE  t.qs[q.child].parent = id
      <4>1. s.qs[q.child].parent = id /\ q.child \in DOMAIN s.qs
        BY <3>2, <1>2
      <4>2. CASE q.child = id
        <5>1. s.qs[id].parent = id /\ id # None
          BY <4>1, <4>2, <1>1, <1>2 DEF None
        <5>2. s.qs[id].parent = None
          BY <5>1, <1>2 DEF Good, Pointers
        <5> QED BY <5>1, <5>2
      <4> QED BY <4>1, <4>2, <1>3
    <3> QED BY <3>1, <3>2, <2>3, <2>4, <1>3 DEF Linked
  <2>5. CASE i # id
    <3>1. SUFFICES ASSUME i # x PROVE Linked(t, i)
      BY <2>3
    <3>2. Linked(s, i) /\ t.qs[i] = s.qs[i]
      BY <3>1, <2>2, <2>5, <2>1, <1>3
    <3>3. ASSUME s.qs[i].child \in s.live
          PROVE  t.qs[s.qs[i].child].parent = i
      <4>1. s.qs[s.qs[i].child].parent = i
        BY <3>3, <3>2 DEF Linked
      <4>2. CASE s.qs[i].child = id
        <5>1. q.parent = s.qs[id].parent
          BY <4>2, <3>1, <2>1
        <5> QED BY <5>1, <4>1, <4>2, <1>3
      <4>3. CASE s.qs[i].child # id
        BY <4>3, <4>1, <3>3, <1>2, <1>3
      <4> QED BY <4>2, <4>3
    <3> QED BY <3>2, <3>3 DEF Linked
  <2> QED BY <2>4, <2>5
<1>9. Listened(t)
  <2>1. SUFFICES ASSUME NEW r \in Requests, s.answer[r] = "open"
                 PROVE  \E i \in s.live : r \in ToSet(t.qs[i].reqs)
    BY DEF Listened
  <2>2. PICK i \in s.live : r \in ToSet(s.qs[i].reqs)
    BY <2>1 DEF Good, Listened
  <2>3. CASE i = id
    BY <2>1, <2>2, <2>3, <1>3
  <2>4. CASE i # id
    BY <2>1, <2>2, <2>4, <1>2, <1>3
  <2> QED BY <2>3, <2>4
<1> QED BY <1>7, <1>8, <1>9 DEF Good

\* Records are deleted: nobody who waits may listen to one of them, and none
\* may be the child of a query that stays, but for the one that is excepted.
LEMMA WipedGood ==
    ASSUME NEW s \in Sessions, NEW t \in Sessions, NEW x, Good(s, x),
           NEW ids \in SUBSET DOMAIN s.qs,
           t.live = s.live \ ids, t.answer = s.answer,
           t.qs = [i \in DOMAIN s.qs |-> IF i \in ids THEN Gone ELSE s.qs[i]],
           \A i \in ids : \A r \in ToSet(s.qs[i].reqs) : s.answer[r] # "open",
           \A i \in ids : s.qs[i].parent \in s.live => s.qs[i].parent \in ids \cup {x}
    PROVE  Good(t, x)
<1>1. /\ s.qs \in Seq(QueryRecords) /\ Len(s.qs) \in Nat /\ DOMAIN s.qs = 1 .. Len(s.qs)
      /\ \A i \in DOMAIN s.qs : s.qs[i] \in QueryRecords
  BY SessionParts
<1>2. s.live \subseteq DOMAIN s.qs
  BY DEF Good, Pointers
<1>3. /\ DOMAIN t.qs = DOMAIN s.qs
      /\ \A i \in DOMAIN s.qs : t.qs[i] = IF i \in ids THEN Gone ELSE s.qs[i]
  OBVIOUS
<1>4. Len(t.qs) = Len(s.qs)
  BY <1>1, <1>3, SessionParts
<1>5. Gone.parent = None /\ Gone.child = None
  BY DEF Gone, NewQuery
<1>6. \A i \in DOMAIN s.qs : s.qs[i].parent \in Nat /\ s.qs[i].child \in Nat
  BY <1>1, RecordParts
<1>7. Pointers(t)
  <2>1. ASSUME NEW i \in DOMAIN t.qs
        PROVE  /\ t.qs[i].child <= Len(t.qs)
               /\ t.qs[i].parent <= Len(t.qs)
               /\ t.qs[i].parent # None => t.qs[t.qs[i].parent].parent = None
    <3>1. /\ s.qs[i].child <= Len(s.qs) /\ s.qs[i].parent <= Len(s.qs)
          /\ s.qs[i].parent # None => s.qs[s.qs[i].parent].parent = None
      BY <1>3 DEF Good, Pointers
    <3>2. CASE i \in ids
      BY <3>2, <1>1, <1>3, <1>4, <1>5 DEF None
    <3>3. CASE i \notin ids
      <4>1. t.qs[i] = s.qs[i]
        BY <3>3, <1>3
      <4>2. ASSUME s.qs[i].parent # None
            PROVE  t.qs[s.qs[i].parent].parent = None
        <5>1. s.qs[i].parent \in DOMAIN s.qs
          BY <4>2, <3>1, <1>1, <1>3, <1>6 DEF None
        <5> QED BY <5>1, <4>2, <3>1, <1>3, <1>5
      <4> QED BY <4>1, <4>2, <3>1, <1>4
    <3> QED BY <3>2, <3>3
  <2> QED BY <2>1, <1>2, <1>3 DEF Pointers
<1>8. ASSUME NEW i \in t.live
      PROVE  Kept(i, t.qs[i]) /\ (i # x => Linked(t, i))
  <2>1. i \in s.live /\ i \in DOMAIN s.qs /\ t.qs[i] = s.qs[i]
    BY <1>2, <1>3
  <2>2. Kept(i, s.qs[i]) /\ (i # x => Linked(s, i))
    BY <2>1 DEF Good
  <2>3. SUFFICES ASSUME i # x PROVE Linked(t, i)
    BY <2>1, <2>2
  <2>4. ASSUME s.qs[i].child \in t.live
        PROVE  t.qs[s.qs[i].child].parent = i
    BY <2>2, <2>3, <2>4, <1>2, <1>3 DEF Linked
  <2>5. ASSUME s.qs[i].child \in s.live, s.qs[i].child \notin t.live
        PROVE  FALSE
    <3>1. s.qs[i].child \in ids /\ s.qs[s.qs[i].child].parent = i
      BY <2>2, <2>3, <2>5 DEF Linked
    <3> QED BY <3>1, <2>1, <2>3
  <2> QED BY <2>1, <2>2, <2>3, <2>4, <2>5 DEF Linked
<1>9. Listened(t)
  <2>1. SUFFICES ASSUME NEW r \in Requests, s.answer[r] = "open"
                 PROVE  \E i \in t.live : r \in ToSet(t.qs[i].reqs)
    BY DEF Listened
  <2>2. PICK i \in s.live : r \in ToSet(s.qs[i].reqs)
    BY <2>1 DEF Good, Listened
  <2>3. i \notin ids
    BY <2>1, <2>2
  <2> QED BY <2>2, <2>3, <1>2, <1>3
<1> QED BY <1>7, <1>8, <1>9 DEF Good

\* A sequence of records keeps its type when one is replaced.
LEMMA PutType ==
    ASSUME NEW s \in Sessions, NEW id \in DOMAIN s.qs, NEW q \in QueryRecords
    PROVE  /\ [s EXCEPT !.qs = [s.qs EXCEPT ![id] = q]] \in Sessions
           /\ [s EXCEPT !.qs = [s.qs EXCEPT ![id] = q]].qs = [s.qs EXCEPT ![id] = q]
           /\ [s EXCEPT !.qs = [s.qs EXCEPT ![id] = q]].live = s.live
           /\ [s EXCEPT !.qs = [s.qs EXCEPT ![id] = q]].answer = s.answer
           /\ [s EXCEPT !.qs = [s.qs EXCEPT ![id] = q]].fault = s.fault
<1>1. s.qs \in Seq(QueryRecords) /\ DOMAIN s.qs = 1 .. Len(s.qs)
  BY SessionParts
<1>2. [s.qs EXCEPT ![id] = q] \in Seq(QueryRecords)
  BY <1>1, ExceptSeq
<1> QED BY <1>2 DEF Sessions

\* Deleting a record nobody waits for.
LEMMA DeletedGood ==
    ASSUME NEW s \in Sessions, NEW x, NEW id \in DOMAIN s.qs, Good(s, x),
           \A r \in ToSet(s.qs[id].reqs) : s.answer[r] # "open",
           s.qs[id].parent \in s.live => s.qs[id].parent = x
    PROVE  /\ Deleted(s, id) \in Sessions /\ Good(Deleted(s, id), x)
           /\ Deleted(s, id).qs = [s.qs EXCEPT ![id] = Gone]
           /\ Deleted(s, id).live = s.live \ {id}
           /\ Deleted(s, id).answer = s.answer /\ Deleted(s, id).fault = s.fault
<1>1. /\ s.qs \in Seq(QueryRecords) /\ DOMAIN s.qs = 1 .. Len(s.qs)
      /\ s.qs[id] \in QueryRecords
  BY SessionParts
<1>2. Gone \in QueryRecords
  BY <1>1, RecordParts, NewRecord
<1>3. [s.qs EXCEPT ![id] = Gone] \in Seq(QueryRecords)
  BY <1>1, <1>2, ExceptSeq
<1>4. /\ Deleted(s, id) \in Sessions
      /\ Deleted(s, id).qs = [s.qs EXCEPT ![id] = Gone]
      /\ Deleted(s, id).live = s.live \ {id}
      /\ Deleted(s, id).answer = s.answer /\ Deleted(s, id).fault = s.fault
  BY <1>3 DEF Deleted, Sessions
<1>5. [s.qs EXCEPT ![id] = Gone]
        = [i \in DOMAIN s.qs |-> IF i \in {id} THEN Gone ELSE s.qs[i]]
  OBVIOUS
<1>6. Good(Deleted(s, id), x)
  <2>1. \A i \in {id} : \A r \in ToSet(s.qs[i].reqs) : s.answer[r] # "open"
    OBVIOUS
  <2>2. /\ {id} \in SUBSET DOMAIN s.qs
        /\ \A i \in {id} : s.qs[i].parent \in s.live => s.qs[i].parent \in {id} \cup {x}
    OBVIOUS
  <2>3. PICK t \in Sessions : t = Deleted(s, id)
    BY <1>4
  <2>4. /\ t.live = s.live \ {id} /\ t.answer = s.answer
        /\ t.qs = [i \in DOMAIN s.qs |-> IF i \in {id} THEN Gone ELSE s.qs[i]]
    BY <2>3, <1>4, <1>5
  <2>5. Good(t, x)
    BY <2>1, <2>2, <2>4, WipedGood
  <2> QED BY <2>3, <2>5
<1> QED BY <1>4, <1>6

\* A new record: a child of a query without a parent, or nobody's child.
LEMMA AddedGood ==
    ASSUME NEW s \in Sessions, NEW x, Good(s, x), NEW q \in QueryRecords,
           q.reqs = <<>>, q.step = 0, q.timer, q.ntried = 0, q.tried = {}, q.failed = {},
           q.child = None, q.parent <= Len(s.qs),
           q.parent # None => s.qs[q.parent].parent = None,
           changes = 0 => ToSet(servers) = Servers, servers \in Seq(Servers)
    PROVE  /\ Added(s, q) \in Sessions /\ Good(Added(s, q), x)
           /\ Added(s, q).qs = Append(s.qs, q) /\ Len(Added(s, q).qs) = Len(s.qs) + 1
           /\ Added(s, q).live = s.live \cup {Len(s.qs) + 1}
           /\ Added(s, q).answer = s.answer /\ Added(s, q).fault = s.fault
           /\ \A i \in DOMAIN s.qs : Added(s, q).qs[i] = s.qs[i]
           /\ Added(s, q).qs[Len(s.qs) + 1] = q
           /\ Len(s.qs) + 1 \notin s.live
<1> DEFINE t == Added(s, q)
           new == Len(s.qs) + 1
<1>1. /\ s.qs \in Seq(QueryRecords) /\ Len(s.qs) \in Nat /\ DOMAIN s.qs = 1 .. Len(s.qs)
      /\ \A i \in DOMAIN s.qs : s.qs[i] \in QueryRecords
  BY SessionParts
<1>2. /\ Append(s.qs, q) \in Seq(QueryRecords) /\ Len(Append(s.qs, q)) = Len(s.qs) + 1
      /\ \A i \in 1 .. Len(s.qs) : Append(s.qs, q)[i] = s.qs[i]
      /\ Append(s.qs, q)[Len(s.qs) + 1] = q
  BY <1>1, AppendProperties
<1>3. /\ t \in Sessions /\ t.qs = Append(s.qs, q) /\ t.live = s.live \cup {new}
      /\ t.answer = s.answer /\ t.fault = s.fault
  <2>1. s.live \cup {new} \in SUBSET Nat
    BY <1>1 DEF Sessions
  <2> QED BY <2>1, <1>2 DEF Added, Sessions
<1>4. /\ DOMAIN t.qs = 1 .. new /\ Len(t.qs) = new /\ t.qs[new] = q
      /\ \A i \in DOMAIN s.qs : t.qs[i] = s.qs[i]
  <2> HIDE DEF t
  <2> QED BY <1>1, <1>2, <1>3, SessionParts
<1>5. s.live \subseteq DOMAIN s.qs /\ new \notin s.live /\ new \in Nat /\ new # None
  BY <1>1 DEF Good, Pointers, None
<1>6. \A i \in DOMAIN s.qs : s.qs[i].parent \in Nat /\ s.qs[i].child \in Nat
  BY <1>1, RecordParts
<1>7. q.parent \in Nat
  BY RecordParts
<1> HIDE DEF t, new
<1>8. Pointers(t)
  <2>1. ASSUME NEW i \in DOMAIN t.qs
        PROVE  /\ t.qs[i].child <= Len(t.qs)
               /\ t.qs[i].parent <= Len(t.qs)
               /\ t.qs[i].parent # None => t.qs[t.qs[i].parent].parent = None
    <3>1. CASE i = new
      <4>1. t.qs[i] = q
        BY <3>1, <1>4
      <4>2. q.parent # None => q.parent \in DOMAIN s.qs
        BY <1>7, <1>1 DEF None
      <4>3. q.parent # None => t.qs[q.parent].parent = None
        BY <4>2, <1>4
      <4> QED BY <4>1, <4>3, <1>1, <1>4, <1>7 DEF None, new
    <3>2. CASE i # new
      <4>1. i \in DOMAIN s.qs /\ t.qs[i] = s.qs[i]
        BY <3>2, <1>1, <1>4 DEF new
      <4>2. /\ s.qs[i].child <= Len(s.qs) /\ s.qs[i].parent <= Len(s.qs)
            /\ s.qs[i].parent # None => s.qs[s.qs[i].parent].parent = None
        BY <4>1 DEF Good, Pointers
      <4>3. s.qs[i].parent # None => s.qs[i].parent \in DOMAIN s.qs
        BY <4>1, <4>2, <1>1, <1>6 DEF None
      <4>4. s.qs[i].parent # None => t.qs[s.qs[i].parent].parent = None
        BY <4>2, <4>3, <1>4
      <4> QED BY <4>1, <4>2, <4>4, <1>1, <1>4, <1>6 DEF new
    <3> QED BY <3>1, <3>2
  <2>2. t.live \subseteq DOMAIN t.qs
    BY <1>1, <1>3, <1>4, <1>5 DEF new
  <2> QED BY <2>1, <2>2 DEF Pointers
<1>9. ASSUME NEW i \in t.live
      PROVE  Kept(i, t.qs[i]) /\ (i # x => Linked(t, i))
  <2>1. CASE i = new
    <3>1. t.qs[i] = q
      BY <2>1, <1>4
    <3>2. Len(servers) \in Nat /\ DOMAIN servers = 1 .. Len(servers)
      BY LenProperties
    <3>3. changes = 0 /\ 0 >= Len(servers) => Servers = {}
      BY <3>2 DEF ToSet
    <3>4. Paced(i, q)
      BY <3>2, <3>3, FS_EmptySet DEF Paced
    <3>5. None \notin t.live
      BY <1>1, <1>3, <1>5 DEF None
    <3>6. q.step # Inactive
      BY Bounds DEF Inactive
    <3> QED BY <3>1, <3>4, <3>5, <3>6 DEF Kept, Linked
  <2>2. CASE i # new
    <3>1. i \in s.live /\ i \in DOMAIN s.qs /\ t.qs[i] = s.qs[i]
      BY <2>2, <1>3, <1>4, <1>5
    <3>2. Kept(i, s.qs[i]) /\ (i # x => Linked(s, i))
      BY <3>1 DEF Good
    <3>3. SUFFICES ASSUME i # x PROVE Linked(t, i)
      BY <3>1, <3>2
    <3>4. ASSUME s.qs[i].child \in t.live
          PROVE  t.qs[s.qs[i].child].parent = i
      <4>1. s.qs[i].child <= Len(s.qs)
        BY <3>1 DEF Good, Pointers
      <4>2. s.qs[i].child \in s.live
        BY <4>1, <3>1, <3>4, <1>1, <1>3, <1>6 DEF new
      <4> QED BY <4>2, <3>2, <3>3, <1>4, <1>5 DEF Linked
    <3>5. s.qs[i].child \in s.live => s.qs[i].child \in t.live
      BY <1>3
    <3> QED BY <3>1, <3>2, <3>3, <3>4, <3>5 DEF Linked
  <2> QED BY <2>1, <2>2
<1>10. Listened(t)
  <2>1. SUFFICES ASSUME NEW r \in Requests, s.answer[r] = "open"
                 PROVE  \E i \in t.live : r \in ToSet(t.qs[i].reqs)
    BY <1>3 DEF Listened
  <2>2. PICK i \in s.live : r \in ToSet(s.qs[i].reqs)
    BY <2>1 DEF Good, Listened
  <2> QED BY <2>2, <1>3, <1>4, <1>5
<1>11. Good(t, x)
  BY <1>8, <1>9, <1>10 DEF Good
<1> QED BY <1>3, <1>4, <1>5, <1>11 DEF t, new

\* Telling those who listen to a query: nobody waits for it any more.
LEMMA ReportGood ==
    ASSUME NEW s \in Sessions, NEW x, Good(s, x), NEW id \in DOMAIN s.qs, NEW outcome \in Outcomes
    PROVE  \E t \in Sessions :
              /\ t = Report(s, id, outcome)
              /\ Good(t, x) /\ t.qs = s.qs /\ t.live = s.live /\ t.fault = s.fault
              /\ \A r \in Requests : t.answer[r] = "open" =>
                    s.answer[r] = "open" /\ r \notin ToSet(s.qs[id].reqs)
<1> DEFINE t == Report(s, id, outcome)
<1>1. s.answer \in [Requests -> Answers] /\ outcome \in Answers /\ outcome # "open"
  BY SessionParts DEF Answers, Outcomes
<1>2. /\ t \in Sessions /\ t.qs = s.qs /\ t.live = s.live /\ t.fault = s.fault
      /\ t.answer = [r \in Requests |->
            IF r \in ToSet(s.qs[id].reqs) /\ s.answer[r] = "open" THEN outcome ELSE s.answer[r]]
  BY <1>1 DEF Report, Sessions
<1> HIDE DEF t
<1>3. \A r \in Requests : t.answer[r] = "open" =>
            s.answer[r] = "open" /\ r \notin ToSet(s.qs[id].reqs)
  BY <1>1, <1>2
<1>4. Pointers(t) /\ Listened(t)
  BY <1>2, <1>3 DEF Good, Pointers, Listened
<1>5. \A i \in t.live : Kept(i, t.qs[i]) /\ (i # x => Linked(t, i))
  BY <1>2 DEF Good, Linked
<1>6. Good(t, x)
  BY <1>4, <1>5 DEF Good
<1> QED BY <1>2, <1>3, <1>6 DEF t

\* A fault changes nothing else.
LEMMA FaultGood ==
    ASSUME NEW s \in Sessions, NEW x, Good(s, x), NEW f \in Faults
    PROVE  /\ [s EXCEPT !.fault = f] \in Sessions /\ Good([s EXCEPT !.fault = f], x)
           /\ [s EXCEPT !.fault = f].qs = s.qs /\ [s EXCEPT !.fault = f].live = s.live
           /\ [s EXCEPT !.fault = f].answer = s.answer
<1>1. \A t : t \in Sessions /\ t.qs = s.qs /\ t.live = s.live /\ t.answer = s.answer => Good(t, x)
  BY DEF Good, Pointers, Listened, Linked
<1>2. /\ [s EXCEPT !.fault = f] \in Sessions
      /\ [s EXCEPT !.fault = f].qs = s.qs /\ [s EXCEPT !.fault = f].live = s.live
      /\ [s EXCEPT !.fault = f].answer = s.answer
  BY DEF Sessions
<1> QED BY <1>1, <1>2

\* The parent is told and deleted, if there is one.
LEMMA TellParentGood ==
    ASSUME NEW s \in Sessions, NEW x, NEW id \in DOMAIN s.qs, Good(s, x), NEW outcome \in Outcomes
    PROVE  /\ TellParent(s, id, outcome) \in Sessions /\ Good(TellParent(s, id, outcome), x)
           /\ DOMAIN TellParent(s, id, outcome).qs = DOMAIN s.qs
           /\ TellParent(s, id, outcome).qs[id] \in {s.qs[id], Gone}
           /\ TellParent(s, id, outcome).qs[id].parent \notin TellParent(s, id, outcome).live
           /\ \A r \in Requests : TellParent(s, id, outcome).answer[r] = "open" => s.answer[r] = "open"
<1> DEFINE p == s.qs[id].parent
<1>0. None \notin s.live /\ Gone.parent = None
  BY SessionParts DEF Good, Pointers, None, Gone, NewQuery
<1>1. CASE p = None
  BY <1>0, <1>1 DEF TellParent
<1>2. CASE p # None /\ ~Exists(s, p)
  <2>1. "deleted_query" \in Faults
    BY DEF Faults
  <2>2. PICK t \in Sessions :
            /\ t = [s EXCEPT !.fault = "deleted_query"] /\ Good(t, x)
            /\ t.qs = s.qs /\ t.live = s.live /\ t.answer = s.answer
    BY <2>1, FaultGood
  <2>3. TellParent(s, id, outcome) = t
    BY <1>2, <2>2 DEF TellParent
  <2> QED BY <1>2, <2>2, <2>3 DEF Exists
<1>3. CASE p # None /\ Exists(s, p)
  <2>0. PICK u \in Sessions :
            /\ u = Report(s, p, outcome)
            /\ Good(u, x) /\ u.qs = s.qs /\ u.live = s.live /\ u.fault = s.fault
            /\ \A r \in Requests : u.answer[r] = "open" =>
                  s.answer[r] = "open" /\ r \notin ToSet(s.qs[p].reqs)
    <3>1. p \in DOMAIN s.qs
      BY <1>3 DEF Exists, Good, Pointers
    <3> QED BY <3>1, ReportGood
  <2>1. u = Report(s, p, outcome)
    BY <2>0
  <2>2. /\ Good(u, x) /\ u.qs = s.qs /\ u.live = s.live
        /\ \A r \in Requests : u.answer[r] = "open" =>
              s.answer[r] = "open" /\ r \notin ToSet(s.qs[p].reqs)
    BY <2>0
  <2>3. p \in DOMAIN u.qs
    BY <1>3, <2>2 DEF Exists, Good, Pointers
  <2>4. \A r \in ToSet(u.qs[p].reqs) : u.answer[r] # "open"
    <3>1. u.qs[p] \in QueryRecords
      BY <2>3, SessionParts
    <3>2. ToSet(u.qs[p].reqs) \subseteq Requests
      BY <3>1, RecordParts, ElementOfSeq, LenProperties DEF ToSet
    <3> QED BY <3>2, <2>2
  <2>9. u.qs[p].parent = None /\ None \notin u.live
    BY <1>0, <1>3, <2>2 DEF Good, Pointers
  <2>11. u.qs[p].parent \in u.live => u.qs[p].parent = x
    BY <2>9
  <2>5. PICK t \in Sessions :
            /\ t = Deleted(u, p) /\ Good(t, x) /\ t.qs = [u.qs EXCEPT ![p] = Gone]
            /\ t.answer = u.answer /\ t.live = u.live \ {p}
    <3> HIDE DEF p
    <3> QED BY <2>2, <2>3, <2>4, <2>11, DeletedGood, ZenonT(40)
  <2>6. /\ Good(t, x) /\ t.qs = [u.qs EXCEPT ![p] = Gone] /\ t.answer = u.answer
        /\ t.live = u.live \ {p}
    BY <2>5
  <2>7. TellParent(s, id, outcome) = t
    BY <1>3, <2>1, <2>5 DEF TellParent
  <2>8. t.qs[id] \in {s.qs[id], Gone} /\ DOMAIN t.qs = DOMAIN s.qs
    BY <2>2, <2>3, <2>6
  <2>10. t.qs[id].parent \notin t.live
    BY <1>0, <2>2, <2>6, <2>8
  <2> QED BY <2>2, <2>6, <2>7, <2>8, <2>10
<1> QED BY <1>1, <1>2, <1>3

\* The query is answered and deleted, and so is its parent.
LEMMA AnsweredGood ==
    ASSUME NEW s \in Sessions, NEW x, NEW id \in DOMAIN s.qs, Good(s, x),
           NEW outcome \in Outcomes, NEW parentOutcome \in Outcomes
    PROVE  /\ Answered(s, id, outcome, parentOutcome) \in Sessions
           /\ Good(Answered(s, id, outcome, parentOutcome), x)
<1>0. PICK u \in Sessions :
          /\ u = Report(s, id, outcome)
          /\ Good(u, x) /\ u.qs = s.qs /\ u.live = s.live /\ u.fault = s.fault
          /\ \A r \in Requests : u.answer[r] = "open" =>
                s.answer[r] = "open" /\ r \notin ToSet(s.qs[id].reqs)
  BY ReportGood
<1>1. u = Report(s, id, outcome)
  BY <1>0
<1>2. /\ Good(u, x) /\ u.qs = s.qs
      /\ \A r \in Requests : u.answer[r] = "open" => r \notin ToSet(s.qs[id].reqs)
  BY <1>0
<1>3. PICK t \in Sessions :
          /\ t = TellParent(u, id, parentOutcome)
          /\ Good(t, x) /\ DOMAIN t.qs = DOMAIN u.qs
          /\ t.qs[id] \in {u.qs[id], Gone} /\ t.qs[id].parent \notin t.live
          /\ \A r \in Requests : t.answer[r] = "open" => u.answer[r] = "open"
  <2>1. id \in DOMAIN u.qs
    BY <1>2
  <2>2. PICK t : t = TellParent(u, id, parentOutcome)
    OBVIOUS
  <2>3. t \in Sessions
    BY <1>2, <2>1, <2>2, TellParentGood
  <2>4. /\ Good(t, x) /\ DOMAIN t.qs = DOMAIN u.qs
        /\ t.qs[id] \in {u.qs[id], Gone} /\ t.qs[id].parent \notin t.live
        /\ \A r \in Requests : t.answer[r] = "open" => u.answer[r] = "open"
    BY <1>2, <2>1, <2>2, TellParentGood
  <2> QED BY <2>2, <2>3, <2>4
<1>4. /\ Good(t, x) /\ DOMAIN t.qs = DOMAIN s.qs
      /\ t.qs[id] \in {s.qs[id], Gone} /\ t.qs[id].parent \notin t.live
      /\ \A r \in Requests : t.answer[r] = "open" => u.answer[r] = "open"
  BY <1>2, <1>3
<1>5. \A r \in ToSet(t.qs[id].reqs) : t.answer[r] # "open"
  <2>1. t.qs[id] \in QueryRecords
    BY <1>4, SessionParts
  <2>2. ToSet(t.qs[id].reqs) \subseteq Requests
    BY <2>1, RecordParts, ElementOfSeq, LenProperties DEF ToSet
  <2>3. ToSet(Gone.reqs) = {}
    BY DEF Gone, NewQuery, ToSet
  <2> QED BY <2>2, <2>3, <1>2, <1>4
<1>6. Deleted(t, id) \in Sessions /\ Good(Deleted(t, id), x)
  BY <1>4, <1>5, DeletedGood
<1> QED BY <1>1, <1>3, <1>6 DEF Answered

-----------------------------------------------------------------------------
\* What the servers are known to be while their list has not changed.
Listed ==
    /\ servers \in Seq(Servers)
    /\ changes = 0 => ToSet(servers) = Servers

\* A reply that is only an alias.
LEMMA FollowAliasGood ==
    ASSUME NEW s \in Sessions, Good(s, None), Listed, NEW id \in s.live,
           s.qs[id].chain < MaxChain
    PROVE  FollowAlias(s, id) \in Sessions /\ Good(FollowAlias(s, id), None)
<1> DEFINE q == s.qs[id]
           new == Len(s.qs) + 1
           up == IF q.parent = None THEN id ELSE q.parent
           next == [NewQuery(Alias[q.name]) EXCEPT !.chain = q.chain + 1, !.parent = up]
<1>1. /\ s.qs \in Seq(QueryRecords) /\ Len(s.qs) \in Nat /\ DOMAIN s.qs = 1 .. Len(s.qs)
      /\ \A i \in DOMAIN s.qs : s.qs[i] \in QueryRecords
  BY SessionParts
<1>2. id \in DOMAIN s.qs /\ s.live \subseteq DOMAIN s.qs
  BY DEF Good, Pointers
<1>3. q \in QueryRecords
  BY <1>1, <1>2
<1>4. q.name \in Names /\ q.chain \in 0 .. MaxChain /\ q.parent \in Nat /\ q.child \in Nat
  BY <1>3, RecordParts
<1>5. Alias[q.name] \in Names
  BY <1>4, NamesAssumption
<1>6. up \in Nat /\ up <= Len(s.qs) /\ up # None /\ s.qs[up].parent = None
  BY <1>1, <1>2, <1>4 DEF Good, Pointers, None
<1>7. /\ next \in QueryRecords /\ next.reqs = <<>> /\ next.step = 0 /\ next.timer
      /\ next.ntried = 0 /\ next.tried = {} /\ next.failed = {} /\ next.child = None
      /\ next.parent = up
  <2>1. PICK n \in QueryRecords : n = NewQuery(Alias[q.name])
    BY <1>5, NewRecord
  <2>2. /\ n.reqs = <<>> /\ n.step = 0 /\ n.timer /\ n.ntried = 0 /\ n.tried = {}
        /\ n.failed = {} /\ n.child = None
    BY <2>1, <1>5, NewRecord
  <2>3. q.chain + 1 \in 0 .. MaxChain
    BY <1>4 DEF MaxChain
  <2> HIDE DEF up
  <2>4. next = [n EXCEPT !.chain = q.chain + 1, !.parent = up]
    BY <2>1
  <2> QED BY <2>2, <2>3, <2>4, <1>6 DEF QueryRecords
<1> HIDE DEF next
<1>8. PICK u \in Sessions : u = Added(s, next)
  BY <1>6, <1>7, AddedGood DEF Listed
<1>9. /\ Good(u, None) /\ Len(u.qs) = new /\ u.live = s.live \cup {new} /\ u.answer = s.answer
      /\ u.fault = s.fault
      /\ \A i \in DOMAIN s.qs : u.qs[i] = s.qs[i]
      /\ u.qs[new] = next /\ new \notin s.live
  BY <1>6, <1>7, <1>8, AddedGood DEF Listed
<1>10. /\ id \in u.live /\ u.qs[id] = q /\ DOMAIN u.qs = 1 .. new /\ new \in u.live
       /\ DOMAIN s.qs \subseteq DOMAIN u.qs
  BY <1>1, <1>2, <1>9, SessionParts
<1>11. CASE q.parent = None
  <2>1. PICK q2 \in QueryRecords : q2 = Suspended(q, new)
    <3>1. new \in Nat
      BY <1>1
    <3> HIDE DEF new, q
    <3> QED BY <1>3, <3>1 DEF Suspended, QueryRecords
  <2>2. /\ q2.child = new /\ q2.parent = None /\ q2.reqs = q.reqs /\ q2.step = q.step
        /\ q2.ntried = q.ntried /\ q2.tried = q.tried /\ q2.failed = q.failed
    <3> HIDE DEF new, q
    <3> QED BY <1>3, <1>11, <2>1 DEF Suspended, QueryRecords
  <2>3. PICK t \in Sessions : t = [u EXCEPT !.qs = [u.qs EXCEPT ![id] = q2]]
    BY <1>2, <1>10, PutType
  <2>4. t.qs = [u.qs EXCEPT ![id] = q2] /\ t.live = u.live /\ t.answer = u.answer
    BY <1>2, <1>10, <2>3, PutType
  <2>5. FollowAlias(s, id) = t
    <3>1. next = [NewQuery(Alias[q.name]) EXCEPT !.chain = q.chain + 1, !.parent = id]
      BY <1>11 DEF next
    <3> QED BY <1>8, <1>11, <2>1, <2>3, <3>1 DEF FollowAlias
  <2>6. Kept(id, q2)
    <3>1. Kept(id, q)
      BY DEF Good
    <3> QED BY <2>2, <3>1 DEF Kept, Paced
  <2>8. u.qs[new].parent = id
    BY <1>7, <1>9, <1>11
  <2>9. q2.child <= Len(u.qs)
    BY <2>2, <1>9, <1>1
  <2>10. Good(t, None)
    <3> HIDE DEF q, new
    <3>1. q2.child \in u.live => u.qs[q2.child].parent = id
      BY <2>2, <2>8
    <3>2. q2.timer \/ q2.child \in u.live
      BY <2>2, <1>10
    <3>3. q2.parent = u.qs[id].parent
      BY <2>2, <1>10, <1>11
    <3>4. \A r \in ToSet(u.qs[id].reqs) : u.answer[r] = "open" => r \in ToSet(q2.reqs)
      BY <2>2, <1>10
    <3> QED BY <1>9, <1>10, <2>4, <2>6, <2>9, <3>1, <3>2, <3>3, <3>4, PutGood
  <2> QED BY <2>5, <2>10
<1>12. CASE q.parent # None /\ ~Exists(s, q.parent)
  <2>1. "deleted_query" \in Faults
    BY DEF Faults
  <2>2. FollowAlias(s, id) = [s EXCEPT !.fault = "deleted_query"]
    BY <1>12 DEF FollowAlias
  <2> QED BY <2>1, <2>2, FaultGood
<1>13. CASE q.parent # None /\ Exists(s, q.parent)
  <2>1. up = q.parent /\ up \in s.live /\ up \in DOMAIN s.qs /\ up \in u.live
    BY <1>2, <1>9, <1>13 DEF Exists
  <2>2. s.qs[up] \in QueryRecords
    BY <2>1, <1>1
  <2>3. PICK q2 \in QueryRecords : q2 = [s.qs[up] EXCEPT !.child = new]
    <3>1. new \in Nat
      BY <1>1
    <3> HIDE DEF new, up
    <3> QED BY <2>2, <3>1 DEF QueryRecords
  <2>4. /\ q2.child = new /\ q2.parent = None /\ q2.reqs = s.qs[up].reqs /\ q2.step = s.qs[up].step
        /\ q2.ntried = s.qs[up].ntried /\ q2.tried = s.qs[up].tried
        /\ q2.failed = s.qs[up].failed
    <3> HIDE DEF new, up
    <3> QED BY <2>2, <2>3, <1>6 DEF QueryRecords
  <2>5. u.qs[up] = s.qs[up]
    BY <2>1, <1>9
  <2>6. PICK t \in Sessions : t = [u EXCEPT !.qs = [u.qs EXCEPT ![up] = q2]]
    BY <1>10, <2>1, PutType
  <2>7. t.qs = [u.qs EXCEPT ![up] = q2] /\ t.live = u.live /\ t.answer = u.answer
    BY <1>10, <2>1, <2>6, PutType
  <2>8. Kept(up, q2)
    <3>1. Kept(up, s.qs[up])
      BY <2>1 DEF Good
    <3> HIDE DEF new, up
    <3> QED BY <2>4, <3>1 DEF Kept, Paced
  <2>9. q2.child <= Len(u.qs)
    BY <1>1, <1>9, <2>4
  <2>10. u.qs[new].parent = up
    BY <1>7, <1>9
  <2>11. Good(t, None)
    <3> HIDE DEF q, new, up
    <3>1. q2.child \in u.live => u.qs[q2.child].parent = up
      BY <2>4, <2>10
    <3>2. q2.timer \/ q2.child \in u.live
      BY <2>4, <1>10
    <3>3. q2.parent = u.qs[up].parent
      BY <2>4, <2>5, <1>6
    <3>4. \A r \in ToSet(u.qs[up].reqs) : u.answer[r] = "open" => r \in ToSet(q2.reqs)
      BY <2>4, <2>5
    <3> QED BY <1>9, <2>1, <2>7, <2>8, <2>9, <3>1, <3>2, <3>3, <3>4, PutGood
  <2>12. id \in DOMAIN t.qs
    BY <1>2, <1>10, <2>7
  <2>13. "success" \in Outcomes
    BY DEF Outcomes
  <2>14. /\ Answered(t, id, "success", "success") \in Sessions
         /\ Good(Answered(t, id, "success", "success"), None)
    BY <2>11, <2>12, <2>13, AnsweredGood
  <2>15. t = [Added(s, next) EXCEPT !.qs[q.parent].child = new]
    <3>1. [u EXCEPT !.qs[q.parent].child = new]
            = [u EXCEPT !.qs = [u.qs EXCEPT ![q.parent] = [u.qs[q.parent] EXCEPT !.child = new]]]
      OBVIOUS
    <3> QED BY <1>8, <2>1, <2>3, <2>5, <2>6, <3>1
  <2>16. FollowAlias(s, id) = Answered(t, id, "success", "success")
    BY <1>13, <2>15 DEF FollowAlias, next
  <2> QED BY <2>14, <2>16
<1> QED BY <1>11, <1>12, <1>13

\* Every reply, for a query that waits for one.
LEMMA ProcessResponseGood ==
    ASSUME NEW s \in Sessions, Good(s, None), Listed, NEW id \in s.live,
           NEW reply \in {"answer", "nxdomain", "cname", "error"}
    PROVE  ProcessResponse(s, id, reply) \in Sessions /\ Good(ProcessResponse(s, id, reply), None)
<1>1. id \in DOMAIN s.qs
  BY DEF Good, Pointers
<1>2. {"success", "nxdomain", "error"} \subseteq Outcomes
  BY DEF Outcomes
<1>3. \A a, b \in {"success", "nxdomain", "error"} :
        Answered(s, id, a, b) \in Sessions /\ Good(Answered(s, id, a, b), None)
  BY <1>1, <1>2, AnsweredGood
<1>5. s.qs[id].chain \in 0 .. MaxChain
  BY <1>1, SessionParts, RecordParts
<1>6. CASE reply = "error"
  BY <1>3, <1>6 DEF ProcessResponse
<1>7. CASE reply = "nxdomain"
  BY <1>3, <1>7 DEF ProcessResponse
<1>8. CASE reply = "cname"
  <2>1. s.qs[id].chain < MaxChain \/ s.qs[id].chain >= MaxChain
    BY <1>5 DEF MaxChain
  <2>2. s.qs[id].chain < MaxChain => ~(s.qs[id].chain >= MaxChain)
    BY <1>5 DEF MaxChain
  <2>3. s.qs[id].chain < MaxChain => FollowAlias(s, id) \in Sessions /\ Good(FollowAlias(s, id), None)
    BY <1>8, FollowAliasGood
  <2> QED BY <1>3, <1>8, <2>1, <2>2, <2>3 DEF ProcessResponse
<1>9. CASE reply = "answer"
  BY <1>3, <1>9 DEF ProcessResponse
<1> QED BY <1>6, <1>7, <1>8, <1>9

-----------------------------------------------------------------------------
\* A query nobody listens to any more: it was never sent and goes, or it
\* becomes inactive.
LEMMA UnicastCancelGood ==
    ASSUME NEW s \in Sessions, NEW x, NEW id \in s.live, Good(s, x),
           s.qs[id].reqs = <<>>, s.qs[id].parent = None,
           s.qs[id].child \in s.live => s.qs[s.qs[id].child].parent = id
    PROVE  \E t \in Sessions :
              /\ t = UnicastCancel(s, id)
              /\ Good(t, x) /\ t.live \subseteq s.live /\ DOMAIN t.qs = DOMAIN s.qs
              /\ s.live \ {id} \subseteq t.live
              /\ t.answer = s.answer
              /\ \A i \in DOMAIN s.qs : i # id => t.qs[i] = s.qs[i]
              /\ id \in t.live => t.qs[id].timer /\ t.qs[id].child = s.qs[id].child
<1>1. /\ s.qs \in Seq(QueryRecords) /\ Len(s.qs) \in Nat /\ DOMAIN s.qs = 1 .. Len(s.qs)
      /\ \A i \in DOMAIN s.qs : s.qs[i] \in QueryRecords
  BY SessionParts
<1>2. id \in DOMAIN s.qs /\ s.live \subseteq DOMAIN s.qs
  BY DEF Good, Pointers
<1>3. PICK q \in QueryRecords : q = s.qs[id]
  BY <1>1, <1>2
<1>4. q.step \in 0 .. Inactive /\ q.ntried \in Nat /\ q.ntried <= q.step /\ Kept(id, q)
  BY <1>3, RecordParts DEF Good, Kept
<1>5. CASE q.step = 0
  <2>1. ToSet(s.qs[id].reqs) = {} /\ s.qs[id].parent \notin s.live
    BY <1>1, <1>2 DEF ToSet, None
  <2>2. /\ Deleted(s, id) \in Sessions /\ Good(Deleted(s, id), x)
        /\ Deleted(s, id).qs = [s.qs EXCEPT ![id] = Gone]
        /\ Deleted(s, id).live = s.live \ {id}
        /\ Deleted(s, id).answer = s.answer
    BY <1>2, <2>1, DeletedGood, ZenonT(40)
  <2>3. UnicastCancel(s, id) = Deleted(s, id)
    BY <1>3, <1>5 DEF UnicastCancel
  <2>4. PICK t \in Sessions : t = Deleted(s, id)
    BY <2>2
  <2> QED BY <1>2, <2>2, <2>3, <2>4
<1>6. CASE q.step # 0
  <2>1. PICK q2 \in QueryRecords : q2 = [q EXCEPT !.step = Inactive, !.timer = TRUE]
    <3>1. Inactive \in 0 .. Inactive
      BY Bounds
    <3> QED BY <3>1 DEF QueryRecords
  <2>2. /\ q2.step = Inactive /\ q2.timer /\ q2.reqs = q.reqs /\ q2.ntried = q.ntried
        /\ q2.child = q.child /\ q2.parent = q.parent
    BY <2>1 DEF QueryRecords
  <2>3. PICK t \in Sessions : t = [s EXCEPT !.qs = [s.qs EXCEPT ![id] = q2]]
    BY <1>2, PutType
  <2>4. t.qs = [s.qs EXCEPT ![id] = q2] /\ t.live = s.live /\ t.answer = s.answer
    BY <1>2, <2>3, PutType
  <2>5. UnicastCancel(s, id) = t
    <3>1. [s EXCEPT !.qs[id].step = Inactive, !.qs[id].timer = TRUE]
            = [s EXCEPT !.qs = [s.qs EXCEPT ![id] = [s.qs[id] EXCEPT !.step = Inactive, !.timer = TRUE]]]
      BY <1>1, <1>2 DEF Sessions
    <3> QED BY <1>3, <1>6, <2>1, <2>3, <3>1 DEF UnicastCancel
  <2>6. Kept(id, q2)
    <3>1. q2.ntried <= q2.step
      BY <1>4, <2>2, Bounds
    <3> QED BY <1>3, <1>4, <2>2, <3>1 DEF Kept, Paced
  <2>7. q2.child <= Len(s.qs)
    BY <1>2, <1>3, <2>2 DEF Good, Pointers
  <2>8. Good(t, x)
    BY <1>3, <2>2, <2>4, <2>6, <2>7, PutGood
  <2> QED BY <1>2, <1>3, <2>2, <2>4, <2>5, <2>8
<1> QED BY <1>5, <1>6

\* Cancelling a query and the child that nobody listens to.
LEMMA AbandonGood ==
    ASSUME NEW s \in Sessions, NEW id \in s.live, Good(s, None), s.qs[id].reqs = <<>>,
           s.qs[id].parent = None
    PROVE  Abandon(s, id) \in Sessions /\ Good(Abandon(s, id), None)
<1>1. /\ s.qs \in Seq(QueryRecords) /\ Len(s.qs) \in Nat /\ DOMAIN s.qs = 1 .. Len(s.qs)
      /\ \A i \in DOMAIN s.qs : s.qs[i] \in QueryRecords
  BY SessionParts
<1>2. id \in DOMAIN s.qs /\ s.live \subseteq DOMAIN s.qs /\ id # None
  BY <1>1 DEF Good, Pointers, None
<1>3. Linked(s, id)
  BY <1>2 DEF Good
<1>4. UnicastCancel(s, id) \in Sessions /\ Good(UnicastCancel(s, id), None)
  BY <1>3, UnicastCancelGood DEF Linked
<1> DEFINE child == s.qs[id].child
<1>5. CASE child = None \/ (Exists(s, child) /\ s.qs[child].reqs # <<>>)
  BY <1>4, <1>5 DEF Abandon
<1>6. CASE child # None /\ ~Exists(s, child)
  <2>1. "deleted_query" \in Faults
    BY DEF Faults
  <2> QED BY <1>6, <2>1, FaultGood DEF Abandon
<1>7. CASE child # None /\ Exists(s, child) /\ s.qs[child].reqs = <<>>
  <2>1. child \in s.live /\ child \in DOMAIN s.qs /\ s.qs[child].parent = id
    BY <1>2, <1>3, <1>7 DEF Linked, Exists
  <2>2. s.qs[id].parent = None /\ child # id
    BY <1>2, <2>1 DEF Good, Pointers
  <2>3. Good(s, id)
    BY <1>1, <1>2 DEF Good, None
  <2>4. PICK c \in QueryRecords : c = s.qs[child]
    BY <1>1, <2>1
  <2>5. PICK c2 \in QueryRecords : c2 = [c EXCEPT !.parent = None]
    BY DEF QueryRecords, None
  <2>6. /\ c2.parent = None /\ c2.child = c.child /\ c2.reqs = c.reqs /\ c2.timer = c.timer
        /\ c2.step = c.step /\ c2.ntried = c.ntried /\ c2.tried = c.tried /\ c2.failed = c.failed
    BY <2>5 DEF QueryRecords
  <2>7. Kept(child, c) /\ Linked(s, child)
    BY <1>1, <1>2, <2>1, <2>4 DEF Good, None
  <2>8. Kept(child, c2)
    BY <2>6, <2>7 DEF Kept, Paced
  <2>9. PICK s1 \in Sessions : s1 = [s EXCEPT !.qs = [s.qs EXCEPT ![child] = c2]]
    BY <2>1, PutType
  <2>10. s1.qs = [s.qs EXCEPT ![child] = c2] /\ s1.live = s.live /\ s1.answer = s.answer
    BY <2>1, <2>9, PutType
  <2>11. Good(s1, id)
    <3>1. c2.child <= Len(s.qs)
      BY <2>1, <2>4, <2>6 DEF Good, Pointers
    <3>2. c2.child \in s.live => s.qs[c2.child].parent = child
      BY <2>4, <2>6, <2>7 DEF Linked
    <3>3. c2.timer \/ c2.child \in s.live \/ child \in untold
      BY <2>4, <2>6, <2>7 DEF Linked
    <3>4. \A y \in s.live \ {id} : s.qs[y].child # child
      <4>1. \A y \in s.live : Linked(s, y)
        BY <1>1, <1>2 DEF Good, None
      <4> QED BY <4>1, <2>1 DEF Linked
    <3>5. \A r \in ToSet(s.qs[child].reqs) : s.answer[r] = "open" => r \in ToSet(c2.reqs)
      BY <2>4, <2>6
    <3> HIDE DEF child
    <3> QED BY <2>1, <2>3, <2>6, <2>8, <2>10, <3>1, <3>2, <3>3, <3>4, <3>5, PutGood
  <2>12. s1.qs[child] = c2 /\ s1.qs[id] = s.qs[id] /\ DOMAIN s1.qs = DOMAIN s.qs
    BY <1>2, <2>1, <2>2, <2>10
  <2>13. s1.qs[child].reqs = <<>> /\ s1.qs[child].parent = None
    BY <1>7, <2>4, <2>6, <2>12
  <2>14. s1.qs[child].child \in s1.live => s1.qs[s1.qs[child].child].parent = child
    <3>1. SUFFICES ASSUME c.child \in s.live PROVE s1.qs[c.child].parent = child
      BY <2>6, <2>10, <2>12
    <3>2. s.qs[c.child].parent = child /\ c.child \in DOMAIN s.qs
      BY <1>2, <2>4, <2>7, <3>1 DEF Linked
    <3>3. c.child # child
      BY <3>2, <1>1, <2>1 DEF Good, Pointers, None
    <3> QED BY <3>2, <3>3, <2>10
  <2>15. PICK s2 \in Sessions :
            /\ s2 = UnicastCancel(s1, child)
            /\ Good(s2, id) /\ s2.live \subseteq s1.live /\ DOMAIN s2.qs = DOMAIN s1.qs
            /\ s1.live \ {child} \subseteq s2.live
            /\ s2.answer = s1.answer
            /\ \A i \in DOMAIN s1.qs : i # child => s2.qs[i] = s1.qs[i]
            /\ child \in s2.live => s2.qs[child].timer /\ s2.qs[child].child = s1.qs[child].child
    <3> HIDE DEF child
    <3>1. child \in s1.live
      BY <2>1, <2>10
    <3> QED BY <2>11, <2>13, <2>14, <3>1, UnicastCancelGood, ZenonT(60)
  <2>16. id \in s2.live /\ id \in DOMAIN s2.qs /\ s2.qs[id] = s.qs[id]
    BY <1>2, <2>2, <2>10, <2>12, <2>15
  <2>17. PICK q \in QueryRecords : q = s.qs[id]
    BY <1>1, <1>2
  <2>18. PICK q2 \in QueryRecords : q2 = [q EXCEPT !.child = None]
    BY DEF QueryRecords, None
  <2>19. /\ q2.child = None /\ q2.reqs = q.reqs /\ q2.parent = q.parent /\ q2.step = q.step
         /\ q2.ntried = q.ntried /\ q2.tried = q.tried /\ q2.failed = q.failed
    BY <2>18 DEF QueryRecords
  <2>20. Kept(id, q2)
    <3>1. Kept(id, q)
      BY <2>17 DEF Good
    <3> QED BY <2>19, <3>1 DEF Kept, Paced
  <2>21. PICK s3 \in Sessions : s3 = [s2 EXCEPT !.qs = [s2.qs EXCEPT ![id] = q2]]
    BY <2>16, PutType
  <2>22. s3.qs = [s2.qs EXCEPT ![id] = q2] /\ s3.live = s2.live /\ s3.answer = s2.answer
    BY <2>16, <2>21, PutType
  <2>23. None \notin s2.live
    BY <1>1, <1>2, <2>10, <2>15 DEF None
  <2>24. Good(s3, id)
    <3>1. q2.child <= Len(s2.qs)
      BY <2>19, SessionParts DEF None
    <3>2. q2.child \in s2.live => s2.qs[q2.child].parent = id
      BY <2>19, <2>23
    <3>3. q2.parent = s2.qs[id].parent
      BY <2>16, <2>17, <2>19
    <3>4. \A r \in ToSet(s2.qs[id].reqs) : s2.answer[r] = "open" => r \in ToSet(q2.reqs)
      BY <2>16, <2>17, <2>19
    <3>5. Good(s2, id) /\ id \in s2.live
      BY <2>15, <2>16
    <3> HIDE DEF child
    <3> QED BY <2>20, <2>22, <3>1, <3>2, <3>3, <3>4, <3>5, PutGood
  <2>25. s3.qs[id] = q2 /\ id \in s3.live
    BY <2>16, <2>22
  <2>26. PICK t \in Sessions :
            /\ t = UnicastCancel(s3, id)
            /\ Good(t, id) /\ t.live \subseteq s3.live /\ DOMAIN t.qs = DOMAIN s3.qs
            /\ s3.live \ {id} \subseteq t.live
            /\ t.answer = s3.answer
            /\ \A i \in DOMAIN s3.qs : i # id => t.qs[i] = s3.qs[i]
            /\ id \in t.live => t.qs[id].timer /\ t.qs[id].child = s3.qs[id].child
    <3>1. s3.qs[id].reqs = <<>> /\ s3.qs[id].parent = None
      BY <2>17, <2>19, <2>25
    <3>2. s3.qs[id].child \in s3.live => s3.qs[s3.qs[id].child].parent = id
      BY <2>19, <2>22, <2>23, <2>25
    <3>3. id \in s3.live /\ Good(s3, id)
      BY <2>24, <2>25
    <3> HIDE DEF child
    <3> QED BY <3>1, <3>2, <3>3, UnicastCancelGood, ZenonT(40)
  <2>27. id \in t.live => Linked(t, id)
    BY <2>19, <2>22, <2>23, <2>25, <2>26 DEF Linked
  <2>28. Good(t, None)
    BY <2>26, <2>27 DEF Good
  <2>29. Abandon(s, id) = t
    <3>1. s1 = [s EXCEPT !.qs[child].parent = None]
      BY <2>4, <2>5, <2>9
    <3>2. s3 = [s2 EXCEPT !.qs[id].child = None]
      BY <2>16, <2>17, <2>18, <2>21
    <3>3. t = UnicastCancel([UnicastCancel([s EXCEPT !.qs[child].parent = None], child)
                    EXCEPT !.qs[id].child = None], id)
      BY <2>15, <2>26, <3>1, <3>2
    <3> QED BY <1>7, <3>3 DEF Abandon
  <2> QED BY <2>28, <2>29
<1> QED BY <1>5, <1>6, <1>7

-----------------------------------------------------------------------------
\* The first of some records.
LEMMA FirstIsLeast ==
    ASSUME NEW places \in SUBSET Nat, places # {}
    PROVE  First(places) \in places /\ \A j \in places : First(places) <= j
<1>1. \E k \in places : \A j \in places : k <= j
  BY LeastNumber
<1> QED BY <1>1 DEF First

\* A query to listen to: the first that is active, or a new one; inactive ones
\* have no listeners, so they may go.
LEMMA GetQueryGood ==
    ASSUME NEW s \in Sessions, Good(s, None), Listed, NEW name \in Names
    PROVE  \E t \in Sessions : \E id \in t.live :
              /\ GetQuery(s, name) = [session |-> t, id |-> id]
              /\ Good(t, None) /\ t.answer = s.answer /\ t.fault = s.fault
              /\ t.qs[id].step # Inactive
<1> DEFINE same == {id \in s.live : s.qs[id].name = name}
           active == {id \in same : s.qs[id].step # Inactive}
           nuked == {id \in same \ active : \A a \in active : id < a}
           left == [s EXCEPT !.live = @ \ nuked,
                             !.qs = [id \in DOMAIN @ |-> IF id \in nuked THEN Gone ELSE @[id]]]
<1>1. /\ s.qs \in Seq(QueryRecords) /\ Len(s.qs) \in Nat /\ DOMAIN s.qs = 1 .. Len(s.qs)
      /\ \A i \in DOMAIN s.qs : s.qs[i] \in QueryRecords
  BY SessionParts
<1>2. s.live \subseteq DOMAIN s.qs /\ s.live \in SUBSET Nat
  BY DEF Good, Pointers, Sessions
<1>3. Gone \in QueryRecords
  BY NewRecord
<1>4. \A id \in nuked : id \in DOMAIN s.qs /\ s.qs[id].reqs = <<>> /\ s.qs[id].parent = None
  BY <1>2 DEF Good, Kept
<1>5. nuked \in SUBSET DOMAIN s.qs
  BY <1>4
<1>6. PICK t \in Sessions :
        /\ t = left /\ t.live = s.live \ nuked /\ t.answer = s.answer /\ t.fault = s.fault
        /\ t.qs = [id \in DOMAIN s.qs |-> IF id \in nuked THEN Gone ELSE s.qs[id]]
  <2> HIDE DEF nuked
  <2>1. [id \in DOMAIN s.qs |-> IF id \in nuked THEN Gone ELSE s.qs[id]] \in Seq(QueryRecords)
    <3>1. \A i \in 1 .. Len(s.qs) : (IF i \in nuked THEN Gone ELSE s.qs[i]) \in QueryRecords
      BY <1>1, <1>3
    <3> QED BY <3>1, <1>1, IsASeq
  <2>2. s.live \ nuked \in SUBSET Nat
    BY <1>2
  <2>3. left.qs = [id \in DOMAIN s.qs |-> IF id \in nuked THEN Gone ELSE s.qs[id]]
    BY DEF Sessions
  <2>4. left.live = s.live \ nuked /\ left.answer = s.answer /\ left.fault = s.fault
    BY DEF Sessions
  <2>5. left \in Sessions
    BY <2>1, <2>2 DEF Sessions
  <2> HIDE DEF left
  <2> QED BY <2>3, <2>4, <2>5
<1>7. Good(t, None)
  <2>1. \A i \in nuked : \A r \in ToSet(s.qs[i].reqs) : s.answer[r] # "open"
    BY <1>4 DEF ToSet
  <2>2. \A i \in nuked : s.qs[i].parent \in s.live => s.qs[i].parent \in nuked \cup {None}
    BY <1>1, <1>2, <1>4 DEF None
  <2> HIDE DEF nuked
  <2> QED BY <1>5, <1>6, <2>1, <2>2, WipedGood, ZenonT(60)
<1>8. CASE active # {}
  <2>1. active \in SUBSET Nat
    BY <1>2
  <2> HIDE DEF active
  <2>2. First(active) \in active
    BY <1>8, <2>1, FirstIsLeast
  <2> USE DEF active
  <2>3. First(active) \in t.live /\ t.qs[First(active)] = s.qs[First(active)]
    <3>1. First(active) \in s.live /\ First(active) \notin nuked /\ First(active) \in DOMAIN s.qs
      BY <2>2, <1>2
    <3> HIDE DEF nuked, active
    <3> QED BY <3>1, <1>6
  <2>4. t.qs[First(active)].step # Inactive
    BY <2>2, <2>3
  <2>5. GetQuery(s, name) = [session |-> left, id |-> First(active)]
    BY <1>8 DEF GetQuery
  <2> HIDE DEF active, left, nuked
  <2> QED BY <1>6, <1>7, <2>3, <2>4, <2>5
<1>9. CASE active = {}
  <2> DEFINE q == NewQuery(name)
  <2>1. /\ q \in QueryRecords /\ q.reqs = <<>> /\ q.step = 0 /\ q.timer
        /\ q.ntried = 0 /\ q.tried = {} /\ q.failed = {} /\ q.parent = None /\ q.child = None
    BY NewRecord
  <2>2. Len(t.qs) = Len(s.qs)
    <3> HIDE DEF nuked
    <3>1. DOMAIN t.qs = 1 .. Len(s.qs)
      BY <1>1, <1>6
    <3> QED BY <3>1, <1>1, SessionParts
  <2>3. GetQuery(s, name) = [session |-> Added(left, q), id |-> Len(s.qs) + 1]
    BY <1>9 DEF GetQuery
  <2> HIDE DEF q, left, nuked, active
  <2>4. q.parent <= Len(t.qs)
    BY <2>1, SessionParts DEF None
  <2>5. /\ Added(t, q) \in Sessions /\ Good(Added(t, q), None)
        /\ Added(t, q).live = t.live \cup {Len(t.qs) + 1}
        /\ Added(t, q).answer = t.answer /\ Added(t, q).fault = t.fault
        /\ Added(t, q).qs[Len(t.qs) + 1] = q
    BY <1>7, <2>1, <2>4, AddedGood DEF Listed
  <2>6. PICK u \in Sessions : u = Added(t, q)
    BY <2>5
  <2>7. GetQuery(s, name) = [session |-> u, id |-> Len(s.qs) + 1]
    BY <1>6, <2>3, <2>6
  <2>8. Len(s.qs) + 1 \in u.live /\ u.qs[Len(s.qs) + 1] = q
    BY <2>2, <2>5, <2>6
  <2>9. Inactive # 0
    BY Bounds DEF Inactive
  <2> QED BY <1>6, <2>1, <2>5, <2>6, <2>7, <2>8, <2>9
<1> QED BY <1>8, <1>9

\* A request begins to listen to an active query.
LEMMA ListenGood ==
    ASSUME NEW s \in Sessions, Good(s, None), NEW id \in s.live, s.qs[id].step # Inactive,
           NEW r \in Requests
    PROVE  LET t == [s EXCEPT !.qs[id].reqs = Append(@, r), !.answer[r] = "open"]
           IN  t \in Sessions /\ Good(t, None)
<1>1. /\ s.qs \in Seq(QueryRecords) /\ Len(s.qs) \in Nat /\ DOMAIN s.qs = 1 .. Len(s.qs)
      /\ \A i \in DOMAIN s.qs : s.qs[i] \in QueryRecords
  BY SessionParts
<1>2. id \in DOMAIN s.qs /\ s.live \subseteq DOMAIN s.qs /\ None \notin s.live
  BY <1>1 DEF Good, Pointers, None
<1>3. PICK q \in QueryRecords : q = s.qs[id]
  BY <1>1, <1>2
<1>4. q.reqs \in Seq(Requests)
  BY RecordParts
<1>5. /\ Append(q.reqs, r) \in Seq(Requests) /\ Len(Append(q.reqs, r)) = Len(q.reqs) + 1
      /\ Len(q.reqs) \in Nat
      /\ \A k \in 1 .. Len(q.reqs) : Append(q.reqs, r)[k] = q.reqs[k]
      /\ Append(q.reqs, r)[Len(q.reqs) + 1] = r
  BY <1>4, AppendProperties, LenProperties
<1>6. ToSet(q.reqs) \subseteq ToSet(Append(q.reqs, r)) /\ r \in ToSet(Append(q.reqs, r))
  <2>1. DOMAIN Append(q.reqs, r) = 1 .. Len(q.reqs) + 1 /\ DOMAIN q.reqs = 1 .. Len(q.reqs)
    BY <1>4, <1>5, LenProperties
  <2>2. \A k \in DOMAIN q.reqs : k \in DOMAIN Append(q.reqs, r) /\ Append(q.reqs, r)[k] = q.reqs[k]
    BY <1>5, <2>1
  <2>3. Len(q.reqs) + 1 \in DOMAIN Append(q.reqs, r)
    BY <1>5, <2>1
  <2> QED BY <1>5, <2>2, <2>3 DEF ToSet
<1>7. PICK q2 \in QueryRecords : q2 = [q EXCEPT !.reqs = Append(q.reqs, r)]
  BY <1>5 DEF QueryRecords
<1>8. /\ q2.reqs = Append(q.reqs, r) /\ q2.parent = q.parent /\ q2.child = q.child
      /\ q2.timer = q.timer /\ q2.step = q.step /\ q2.ntried = q.ntried
      /\ q2.tried = q.tried /\ q2.failed = q.failed
  BY <1>7 DEF QueryRecords
<1>9. Kept(id, q) /\ Linked(s, id)
  BY <1>2, <1>3 DEF Good
<1>10. PICK u \in Sessions : u = [s EXCEPT !.qs = [s.qs EXCEPT ![id] = q2]]
  BY <1>2, PutType
<1>11. u.qs = [s.qs EXCEPT ![id] = q2] /\ u.live = s.live /\ u.answer = s.answer /\ u.fault = s.fault
  BY <1>2, <1>10, PutType
<1>12. Good(u, None)
  <2>1. Kept(id, q2)
    BY <1>3, <1>8, <1>9 DEF Kept, Paced
  <2>2. q2.child <= Len(s.qs)
    BY <1>2, <1>3, <1>8 DEF Good, Pointers
  <2>3. q2.child \in s.live => s.qs[q2.child].parent = id
    BY <1>3, <1>8, <1>9 DEF Linked
  <2>4. q2.timer \/ q2.child \in s.live \/ id \in untold
    BY <1>3, <1>8, <1>9 DEF Linked
  <2>5. \A x \in ToSet(s.qs[id].reqs) : s.answer[x] = "open" => x \in ToSet(q2.reqs)
    BY <1>3, <1>6, <1>8
  <2>6. q2.parent = s.qs[id].parent
    BY <1>3, <1>8
  <2> QED BY <1>11, <2>1, <2>2, <2>3, <2>4, <2>5, <2>6, PutGood
<1>13. PICK t : t = [u EXCEPT !.answer = [u.answer EXCEPT ![r] = "open"]]
  OBVIOUS
<1>14. /\ t \in Sessions /\ t.qs = u.qs /\ t.live = u.live /\ t.fault = u.fault
       /\ \A x \in Requests : t.answer[x] = IF x = r THEN "open" ELSE u.answer[x]
  BY <1>13 DEF Sessions, Answers
<1>15. Good(t, None)
  <2>1. Pointers(t) /\ \A i \in t.live : Kept(i, t.qs[i]) /\ (i # None => Linked(t, i))
    BY <1>12, <1>14 DEF Good, Pointers, Linked
  <2>2. id \in t.live /\ r \in ToSet(t.qs[id].reqs)
    BY <1>2, <1>6, <1>8, <1>11, <1>14
  <2>3. Listened(t)
    BY <1>12, <1>14, <2>2 DEF Good, Listened
  <2> QED BY <2>1, <2>3 DEF Good
<1>16. t = [s EXCEPT !.qs[id].reqs = Append(@, r), !.answer[r] = "open"]
  BY <1>3, <1>7, <1>10, <1>13 DEF Sessions
<1> QED BY <1>14, <1>15, <1>16

\* The first entry x of an array is taken out: the others stay, and perhaps x.
LEMMA ArrayRemoveKeeps ==
    ASSUME NEW S, NEW array \in Seq(S), NEW x \in ToSet(array)
    PROVE  /\ ArrayRemove(array, x) \in Seq(S)
           /\ \A y \in ToSet(array) : y # x => y \in ToSet(ArrayRemove(array, x))
<1> DEFINE here == {k \in DOMAIN array : array[k] = x}
           pos == CHOOSE k \in DOMAIN array : array[k] = x
                    /\ \A j \in 1..(k - 1) : array[j] # x
           n == Len(array)
           moved == [k \in 1..n |-> IF k < pos \/ k = n THEN array[k] ELSE array[k + 1]]
<1>1. n \in Nat /\ DOMAIN array = 1 .. n /\ \A k \in 1 .. n : array[k] \in S
  BY LenProperties, ElementOfSeq
<1>2. here # {} /\ here \subseteq Nat
  BY <1>1 DEF ToSet
<1>3. \E k \in DOMAIN array : array[k] = x /\ \A j \in 1..(k - 1) : array[j] # x
  <2>1. PICK k \in here : \A j \in here : k <= j
    BY <1>2, LeastNumber
  <2>2. \A j \in 1..(k - 1) : array[j] # x
    BY <2>1, <1>1
  <2> QED BY <2>1, <2>2
<1>4. pos \in DOMAIN array /\ array[pos] = x
  BY <1>3
<1> HIDE DEF pos
<1>5. CASE n > 1
  <2>0. ArrayRemove(array, x) = moved
    BY <1>5 DEF ArrayRemove, pos
  <2>1. pos \in 1 .. n /\ pos \in Int /\ pos <= n
    BY <1>1, <1>4
  <2>2. ASSUME NEW k \in 1 .. n
        PROVE  (IF k < pos \/ k = n THEN array[k] ELSE array[k + 1]) \in S
    <3>1. array[k] \in S
      BY <1>1
    <3>2. k # n => array[k + 1] \in S
      <4>0. n \in Nat
        BY <1>1
      <4> HIDE DEF n
      <4>1. k # n => k + 1 \in 1 .. n
        BY <4>0
      <4> QED BY <1>1, <4>1
    <3> QED BY <3>1, <3>2
  <2>3. moved \in Seq(S)
    <3> HIDE DEF n
    <3> QED BY <1>1, <2>2, IsASeq
  <2>4. ASSUME NEW y \in ToSet(array), y # x
        PROVE  y \in ToSet(moved)
    <3>1. PICK k \in 1 .. n : array[k] = y
      BY <1>1 DEF ToSet
    <3>2. CASE k < pos
      <4>1. moved[k] = y
        BY <3>1, <3>2
      <4> QED BY <4>1, <1>1 DEF ToSet
    <3>3. CASE ~(k < pos)
      <4>1. k # pos
        BY <3>1, <2>4, <1>4
      <4>2. k - 1 \in 1 .. n /\ ~(k - 1 < pos) /\ k - 1 # n
        BY <3>3, <4>1, <1>1, <2>1
      <4>3. moved[k - 1] = array[k - 1 + 1] /\ k - 1 + 1 = k
        BY <4>2, <1>1
      <4>4. moved[k - 1] = y
        BY <4>3, <3>1
      <4> QED BY <4>2, <4>4 DEF ToSet
    <3> QED BY <3>2, <3>3
  <2> QED BY <2>0, <2>3, <2>4
<1>6. CASE ~(n > 1)
  <2>1. ArrayRemove(array, x) = <<>>
    BY <1>6 DEF ArrayRemove
  <2>2. <<>> \in Seq(S)
    BY EmptySeq
  <2>3. n = 1 /\ pos = 1
    BY <1>1, <1>4, <1>6
  <2>4. \A y \in ToSet(array) : y = x
    BY <1>1, <1>4, <2>3 DEF ToSet
  <2> QED BY <2>1, <2>2, <2>4
<1> QED BY <1>5, <1>6

\* A request stops to listen.
LEMMA UnlistenGood ==
    ASSUME NEW s \in Sessions, Good(s, None), NEW id \in s.live,
           NEW r \in Requests, r \in ToSet(s.qs[id].reqs)
    PROVE  LET t == [s EXCEPT !.qs[id].reqs = ArrayRemove(@, r), !.answer[r] = "cancelled"]
           IN  /\ t \in Sessions /\ Good(t, None) /\ t.live = s.live /\ t.fault = s.fault
               /\ id \in t.live /\ t.qs[id].parent = s.qs[id].parent
<1>1. /\ s.qs \in Seq(QueryRecords) /\ Len(s.qs) \in Nat /\ DOMAIN s.qs = 1 .. Len(s.qs)
      /\ \A i \in DOMAIN s.qs : s.qs[i] \in QueryRecords
  BY SessionParts
<1>2. id \in DOMAIN s.qs /\ s.live \subseteq DOMAIN s.qs /\ None \notin s.live
  BY <1>1 DEF Good, Pointers, None
<1>3. PICK q \in QueryRecords : q = s.qs[id]
  BY <1>1, <1>2
<1>4. q.reqs \in Seq(Requests)
  BY RecordParts
<1>5. /\ ArrayRemove(q.reqs, r) \in Seq(Requests)
      /\ \A y \in ToSet(q.reqs) : y # r => y \in ToSet(ArrayRemove(q.reqs, r))
  BY <1>3, <1>4, ArrayRemoveKeeps
<1>6. q.reqs # <<>>
  BY <1>3 DEF ToSet
<1>7. PICK q2 \in QueryRecords : q2 = [q EXCEPT !.reqs = ArrayRemove(q.reqs, r)]
  BY <1>5 DEF QueryRecords
<1>8. /\ q2.reqs = ArrayRemove(q.reqs, r) /\ q2.parent = q.parent /\ q2.child = q.child
      /\ q2.timer = q.timer /\ q2.step = q.step /\ q2.ntried = q.ntried
      /\ q2.tried = q.tried /\ q2.failed = q.failed
  BY <1>7 DEF QueryRecords
<1>9. Kept(id, q) /\ Linked(s, id)
  BY <1>2, <1>3 DEF Good
<1>10. PICK u : u = [s EXCEPT !.answer = [s.answer EXCEPT ![r] = "cancelled"]]
  OBVIOUS
<1>11. /\ u \in Sessions /\ u.qs = s.qs /\ u.live = s.live /\ u.fault = s.fault
       /\ \A x \in Requests : u.answer[x] = IF x = r THEN "cancelled" ELSE s.answer[x]
  BY <1>10 DEF Sessions, Answers
<1>12. Good(u, None)
  <2>1. Pointers(u) /\ \A i \in u.live : Kept(i, u.qs[i]) /\ (i # None => Linked(u, i))
    BY <1>11 DEF Good, Pointers, Linked
  <2>2. Listened(u)
    BY <1>11 DEF Good, Listened
  <2> QED BY <2>1, <2>2 DEF Good
<1>13. PICK t \in Sessions : t = [u EXCEPT !.qs = [u.qs EXCEPT ![id] = q2]]
  BY <1>2, <1>11, PutType
<1>14. /\ t.qs = [u.qs EXCEPT ![id] = q2] /\ t.live = u.live /\ t.answer = u.answer
       /\ t.fault = u.fault
  BY <1>2, <1>11, <1>13, PutType
<1>15. Good(t, None)
  <2>1. Kept(id, q2)
    BY <1>6, <1>8, <1>9 DEF Kept, Paced
  <2>2. q2.child <= Len(u.qs)
    BY <1>2, <1>3, <1>8, <1>11 DEF Good, Pointers
  <2>3. q2.child \in u.live => u.qs[q2.child].parent = id
    BY <1>3, <1>8, <1>9, <1>11 DEF Linked
  <2>4. q2.timer \/ q2.child \in u.live \/ id \in untold
    BY <1>3, <1>8, <1>9, <1>11 DEF Linked
  <2>5. \A x \in ToSet(u.qs[id].reqs) : u.answer[x] = "open" => x \in ToSet(q2.reqs)
    <3>1. u.answer[r] # "open"
      BY <1>11
    <3> QED BY <3>1, <1>3, <1>5, <1>8, <1>11
  <2>6. q2.parent = u.qs[id].parent /\ id \in u.live
    BY <1>3, <1>8, <1>11
  <2> QED BY <1>11, <1>12, <1>14, <2>1, <2>2, <2>3, <2>4, <2>5, <2>6, PutGood
<1>16. t = [s EXCEPT !.qs[id].reqs = ArrayRemove(@, r), !.answer[r] = "cancelled"]
  BY <1>3, <1>7, <1>10, <1>13 DEF Sessions
<1>17. t.qs[id].parent = s.qs[id].parent
  BY <1>2, <1>3, <1>8, <1>11, <1>14
<1> QED BY <1>11, <1>14, <1>15, <1>16, <1>17

-----------------------------------------------------------------------------
(***************************************************************************)
(* The actions.                                                            *)
(***************************************************************************)
CacheOK == cache \in [Names -> [own : {"none", "answer", "nxdomain"}, cnames : 0 .. 2]]

\* The session of a state is one, and its packets are of its queries.
LEMMA SessionOK ==
    ASSUME JdnsInv
    PROVE  /\ Session \in Sessions /\ Good(Session, None) /\ Listed
           /\ Session.qs = qs /\ Session.live = live /\ Session.answer = answer
           /\ Session.fault = fault
           /\ Len(qs) \in Nat /\ DOMAIN qs = 1 .. Len(qs) /\ live \subseteq DOMAIN qs
           /\ \A id \in DOMAIN qs : qs[id] \in QueryRecords
<1>1. qs \in Seq(QueryRecords) /\ live \subseteq DOMAIN qs
  BY DEF JdnsInv, TypeOK
<1>2. Len(qs) \in Nat /\ DOMAIN qs = 1 .. Len(qs)
  BY <1>1, LenProperties
<1>3. \A id \in DOMAIN qs : qs[id] \in QueryRecords
  BY <1>1, <1>2, ElementOfSeq
<1>4. live \in SUBSET Nat
  BY <1>1, <1>2
<1>5. answer \in [Requests -> Answers] /\ fault \in Faults
  BY DEF JdnsInv, TypeOK, Answers, Faults
<1>6. Session \in Sessions
  BY <1>1, <1>4, <1>5 DEF Session, Sessions
<1>7. Listed
  BY DEF JdnsInv, TypeOK, Listed
<1> QED BY <1>1, <1>2, <1>3, <1>6, <1>7 DEF Session, JdnsInv

\* A handler ends: what it made of the session is the new state, where a query
\* that lost its link is one whose child gave up.
LEMMA BecomeUntoldInv ==
    ASSUME JdnsInv, NEW s \in Sessions, NEW x, Good(s, x), Become(s), CacheOK',
           UNCHANGED <<servers, changes>>,
           untold \subseteq untold', untold' \subseteq 1 .. MaxQueries,
           x \in s.live => x \in untold',
           x \in s.live /\ s.qs[x].child \in s.live => s.qs[s.qs[x].child].parent = x
    PROVE  JdnsInv'
<1>1. /\ s.qs \in Seq(QueryRecords) /\ Len(s.qs) \in Nat /\ DOMAIN s.qs = 1 .. Len(s.qs)
      /\ s.answer \in [Requests -> Answers] /\ s.fault \in Faults
  BY SessionParts
<1>2. s.live \subseteq DOMAIN s.qs
  BY DEF Good, Pointers
<1>3. /\ qs' = s.qs /\ live' = s.live /\ answer' = s.answer /\ fault' = s.fault
      /\ Len(s.qs) <= MaxQueries /\ net' = {p \in net : p.query \in s.live}
      /\ servers' = servers /\ changes' = changes
  BY DEF Become, Exists
<1>4. net \subseteq [query : DOMAIN qs, server : Servers]
  BY DEF JdnsInv, TypeOK
<1>5. net' \subseteq [query : DOMAIN qs', server : Servers]
  BY <1>2, <1>3, <1>4
<1>6. \A id \in live' : qs'[id].ntried <= qs'[id].step
                        /\ (qs'[id].parent = None \/ qs'[id].child = None)
  BY <1>3 DEF Good, Kept
<1>7. TypeOK'
  <2>1. servers' \in Seq(Servers) /\ IsInjective(servers)' /\ changes' \in 0 .. MaxChanges
    BY <1>3 DEF JdnsInv, TypeOK, IsInjective
  <2>2. qs' \in Seq(QueryRecords) /\ Len(qs') <= MaxQueries /\ live' \subseteq DOMAIN qs'
    BY <1>1, <1>2, <1>3
  <2>3. answer' \in [Requests -> {"unused", "open", "cancelled"} \cup Outcomes]
    BY <1>1, <1>3 DEF Answers
  <2>4. fault' \in {"none", "deleted_query", "no_server", "freed_array"}
    BY <1>1, <1>3 DEF Faults
  <2> QED BY <2>1, <2>2, <2>3, <2>4, <1>5, <1>6 DEF TypeOK, CacheOK
<1>8. Good(Session, None)'
  <2>1. \A id \in s.live : \A y : Asked(id, y) => Asked(id, y)'
    BY <1>3 DEF Asked
  <2>2. \A id \in s.live : Kept(id, s.qs[id]) /\ (id # x => Linked(s, id))
    BY DEF Good
  <2>3. ASSUME NEW id \in s.live
        PROVE  Paced(id, qs[id])'
    <3>1. Paced(id, s.qs[id])
      BY <2>2 DEF Kept
    <3> QED BY <1>3, <2>1, <3>1 DEF Paced
  <2>4. ASSUME NEW id \in s.live
        PROVE  Kept(id, Session.qs[id])'
    <3>1. Kept(id, qs[id])'
      BY <1>3, <2>2, <2>3 DEF Kept
    <3> QED BY <3>1 DEF Session
  <2>5. ASSUME NEW id \in s.live
        PROVE  Linked(Session, id)'
    <3>1. s.qs[id].timer \/ s.qs[id].child \in s.live \/ id \in untold'
      BY <2>2 DEF Linked
    <3>2. s.qs[id].child \in s.live => s.qs[s.qs[id].child].parent = id
      BY <2>2 DEF Linked
    <3> QED BY <1>3, <3>1, <3>2 DEF Linked, Session
  <2>6. Pointers(Session)' /\ Listened(Session)'
    BY <1>3 DEF Good, Pointers, Listened, Session
  <2>7. Session.live' = s.live
    BY <1>3 DEF Session
  <2> QED BY <2>4, <2>5, <2>6, <2>7 DEF Good
<1> QED BY <1>3, <1>7, <1>8 DEF JdnsInv

\* A handler that leaves every query its link.
LEMMA BecomeInv ==
    ASSUME JdnsInv, NEW s \in Sessions, Good(s, None), Become(s), CacheOK',
           UNCHANGED <<servers, changes, untold>>
    PROVE  JdnsInv'
<1>1. None \notin s.live
  BY SessionParts DEF Good, Pointers, None
<1>2. untold' \subseteq 1 .. MaxQueries /\ untold \subseteq untold'
  BY DEF JdnsInv, TypeOK
<1> QED BY <1>1, <1>2, BecomeUntoldInv

\* A reply of a server.
LEMMA ReplyInv ==
    ASSUME JdnsInv, NEW p \in net, NEW reply \in Replies, Reply(p, reply)
    PROVE  JdnsInv'
<1> DEFINE id == p.query
           failing == [Session EXCEPT !.qs[p.query].failed = @ \cup {p.server}]
           s == IF reply = "error" THEN failing ELSE Session
<1>1. /\ Session \in Sessions /\ Good(Session, None) /\ Listed
      /\ Session.qs = qs /\ Session.live = live /\ live \subseteq DOMAIN qs
      /\ \A i \in DOMAIN qs : qs[i] \in QueryRecords
  BY SessionOK
<1>2. id \in live /\ id \in DOMAIN qs /\ p.server \in Servers /\ Asked(id, p.server)
  <2>1. id \in live
    BY <1>1 DEF Reply, Exists
  <2>2. p \in [query : DOMAIN qs, server : Servers]
    BY DEF JdnsInv, TypeOK
  <2> QED BY <1>1, <2>1, <2>2 DEF Asked
<1>3. reply \in {"answer", "nxdomain", "cname", "error"}
  BY RepliesAssumption
<1>4. s \in Sessions /\ Good(s, None) /\ s.live = live
  <2>1. CASE reply # "error"
    BY <1>1, <2>1
  <2>2. CASE reply = "error"
    <3>1. PICK q \in QueryRecords : q = qs[id]
      BY <1>1, <1>2
    <3>2. PICK q2 \in QueryRecords : q2 = [q EXCEPT !.failed = q.failed \cup {p.server}]
      <4>1. q.failed \cup {p.server} \in SUBSET Servers
        BY <1>2, RecordParts
      <4> QED BY <4>1 DEF QueryRecords
    <3>3. /\ q2.failed = q.failed \cup {p.server} /\ q2.parent = q.parent /\ q2.child = q.child
          /\ q2.timer = q.timer /\ q2.step = q.step /\ q2.ntried = q.ntried
          /\ q2.tried = q.tried /\ q2.reqs = q.reqs
      BY <3>2 DEF QueryRecords
    <3>4. PICK t \in Sessions : t = [Session EXCEPT !.qs = [Session.qs EXCEPT ![id] = q2]]
      BY <1>1, <1>2, PutType
    <3>5. /\ t.qs = [Session.qs EXCEPT ![id] = q2] /\ t.live = Session.live
          /\ t.answer = Session.answer
      BY <1>1, <1>2, <3>4, PutType
    <3>6. id # None
      BY <1>2, SessionOK DEF None
    <3>7. Kept(id, q) /\ Linked(Session, id)
      BY <1>1, <1>2, <3>1, <3>6 DEF Good
    <3>8. Kept(id, q2)
      BY <1>2, <3>3, <3>7 DEF Kept, Paced
    <3>9. q2.child <= Len(Session.qs)
      BY <1>1, <1>2, <3>1, <3>3 DEF Good, Pointers
    <3>10. q2.child \in Session.live => Session.qs[q2.child].parent = id
      BY <1>1, <3>1, <3>3, <3>7 DEF Linked
    <3>11. q2.timer \/ q2.child \in Session.live \/ id \in untold
      BY <1>1, <3>1, <3>3, <3>7 DEF Linked
    <3>12. \A r \in ToSet(Session.qs[id].reqs) : Session.answer[r] = "open" => r \in ToSet(q2.reqs)
      BY <1>1, <3>1, <3>3
    <3>13. q2.parent = Session.qs[id].parent /\ id \in Session.live
      BY <1>1, <1>2, <3>1, <3>3
    <3>14. Good(t, None)
      <4> HIDE DEF id
      <4> QED BY <1>1, <3>5, <3>8, <3>9, <3>10, <3>11, <3>12, <3>13, PutGood
    <3>15. failing = t
      BY <1>1, <3>1, <3>2, <3>4
    <3> QED BY <1>1, <2>2, <3>5, <3>14, <3>15
  <2> QED BY <2>1, <2>2
<1>5. ProcessResponse(s, id, reply) \in Sessions /\ Good(ProcessResponse(s, id, reply), None)
  <2> HIDE DEF s, id
  <2> QED BY <1>1, <1>2, <1>3, <1>4, ProcessResponseGood
<1>6. CacheOK'
  <2>1. cache \in [Names -> [own : {"none", "answer", "nxdomain"}, cnames : 0 .. 2]]
    BY DEF JdnsInv, TypeOK
  <2>2. PICK n : n = qs[id].name
    OBVIOUS
  <2>3. n \in Names
    BY <1>1, <1>2, <2>2, RecordParts
  <2>4. cache' = Cached(n, reply)
    BY <2>2 DEF Reply
  <2>5. cache[n].own \in {"none", "answer", "nxdomain"} /\ cache[n].cnames \in 0 .. 2
    BY <2>1, <2>3
  <2>6. cache[n].cnames < 2 => cache[n].cnames + 1 \in 0 .. 2
    BY <2>5
  <2>7. CASE reply = "nxdomain"
    BY <2>1, <2>3, <2>4, <2>7 DEF Cached, CacheOK
  <2>8. CASE reply = "answer"
    BY <2>1, <2>3, <2>4, <2>8 DEF Cached, CacheOK
  <2>9. CASE reply = "cname"
    <3> DEFINE more == IF reply \in Lasting /\ cache[n].cnames < 2
                       THEN cache[n].cnames + 1 ELSE cache[n].cnames
    <3>1. more \in 0 .. 2
      BY <2>5, <2>6
    <3>2. cache' = [cache EXCEPT ![n].own = "none", ![n].cnames = more]
      BY <2>1, <2>3, <2>4, <2>9 DEF Cached
    <3> HIDE DEF more
    <3>3. PICK c \in [own : {"none", "answer", "nxdomain"}, cnames : 0 .. 2] : c = cache[n]
      BY <2>1, <2>3
    <3>4. PICK d \in [own : {"none", "answer", "nxdomain"}, cnames : 0 .. 2] :
              d = [[c EXCEPT !.own = "none"] EXCEPT !.cnames = more]
      BY <3>1
    <3>5. cache' = [cache EXCEPT ![n] = d]
      BY <2>1, <2>3, <3>2, <3>3, <3>4
    <3> QED BY <2>1, <2>3, <3>4, <3>5 DEF CacheOK
  <2>10. CASE reply = "error"
    BY <2>1, <2>4, <2>10 DEF Cached, CacheOK
  <2> QED BY <1>3, <2>7, <2>8, <2>9, <2>10
<1>7. Become(ProcessResponse(s, id, reply)) /\ UNCHANGED <<servers, changes, untold>>
  BY DEF Reply
<1> QED BY <1>5, <1>6, <1>7, BecomeInv

\* A query's timer goes off and the cache has the answer.
LEMMA UseCacheInv ==
    ASSUME JdnsInv, NEW id, NEW requery \in BOOLEAN, UseCache(id, requery)
    PROVE  JdnsInv'
<1> DEFINE again == [NewQuery(qs[id].name) EXCEPT !.trycache = FALSE]
           s == IF requery THEN Added(Session, again) ELSE Session
           reply == FromCache(qs[id].name)
<1>1. /\ Session \in Sessions /\ Good(Session, None) /\ Listed
      /\ Session.qs = qs /\ Session.live = live /\ live \subseteq DOMAIN qs
      /\ \A i \in DOMAIN qs : qs[i] \in QueryRecords
  BY SessionOK
<1>2. id \in live /\ id \in DOMAIN qs
  BY <1>1 DEF UseCache, Due, Exists
<1>3. qs[id].name \in Names
  BY <1>1, <1>2, RecordParts
<1>4. reply \in {"answer", "nxdomain", "cname", "error"}
  <2>1. cache[qs[id].name].own \in {"none", "answer", "nxdomain"}
    BY <1>3 DEF JdnsInv, TypeOK
  <2>2. reply # "none"
    BY DEF UseCache, Hit
  <2> QED BY <2>1, <2>2 DEF FromCache
<1>5. s \in Sessions /\ Good(s, None) /\ id \in s.live
  <2>1. PICK n \in QueryRecords : n = NewQuery(qs[id].name)
    BY <1>3, NewRecord
  <2>2. /\ n.reqs = <<>> /\ n.step = 0 /\ n.timer /\ n.ntried = 0 /\ n.tried = {}
        /\ n.failed = {} /\ n.child = None /\ n.parent = None
    BY <1>3, <2>1, NewRecord
  <2>3. PICK q \in QueryRecords : q = [n EXCEPT !.trycache = FALSE]
    BY DEF QueryRecords
  <2>4. /\ q.reqs = <<>> /\ q.step = 0 /\ q.timer /\ q.ntried = 0 /\ q.tried = {}
        /\ q.failed = {} /\ q.child = None /\ q.parent = None
    BY <2>2, <2>3 DEF QueryRecords
  <2>5. q.parent <= Len(Session.qs)
    BY <1>1, <2>4, SessionParts DEF None
  <2>6. /\ Added(Session, q) \in Sessions /\ Good(Added(Session, q), None)
        /\ Added(Session, q).live = Session.live \cup {Len(Session.qs) + 1}
    BY <1>1, <2>4, <2>5, AddedGood DEF Listed
  <2>7. again = q
    BY <2>1, <2>3
  <2> QED BY <1>1, <1>2, <2>6, <2>7
<1>6. ProcessResponse(s, id, reply) \in Sessions /\ Good(ProcessResponse(s, id, reply), None)
  <2> HIDE DEF s, reply
  <2> QED BY <1>1, <1>4, <1>5, ProcessResponseGood
<1>7. Become(ProcessResponse(s, id, reply)) /\ UNCHANGED <<servers, cache, changes, untold>>
  BY DEF UseCache
<1>8. CacheOK'
  BY <1>7 DEF JdnsInv, TypeOK, CacheOK
<1> QED BY <1>6, <1>7, <1>8, BecomeInv

\* The minute of an inactive query is over.
LEMMA ForgetInv ==
    ASSUME JdnsInv, NEW id, Forget(id)
    PROVE  JdnsInv'
<1>1. /\ Session \in Sessions /\ Good(Session, None)
      /\ Session.qs = qs /\ Session.live = live /\ live \subseteq DOMAIN qs
  BY SessionOK
<1>2. id \in live /\ id \in DOMAIN qs /\ qs[id].step = Inactive
  BY <1>1 DEF Forget, Due, Exists
<1>3. qs[id].reqs = <<>> /\ Session.qs[id].parent \notin Session.live
  BY <1>1, <1>2, SessionOK DEF Good, Kept, None
<1>4. \A r \in ToSet(Session.qs[id].reqs) : Session.answer[r] # "open"
  BY <1>1, <1>3 DEF ToSet
<1>5. Deleted(Session, id) \in Sessions /\ Good(Deleted(Session, id), None)
  BY <1>1, <1>2, <1>3, <1>4, DeletedGood
<1>6. Become(Deleted(Session, id)) /\ UNCHANGED <<servers, cache, changes, untold>>
  BY DEF Forget
<1>7. CacheOK'
  BY <1>6 DEF JdnsInv, TypeOK, CacheOK
<1> QED BY <1>5, <1>6, <1>7, BecomeInv

\* A query gives up.
LEMMA GiveUpInv ==
    ASSUME JdnsInv, NEW id, GiveUp(id)
    PROVE  JdnsInv'
<1>1. /\ Session \in Sessions /\ Good(Session, None)
      /\ Session.qs = qs /\ Session.live = live /\ live \subseteq DOMAIN qs
      /\ \A i \in DOMAIN qs : qs[i] \in QueryRecords
  BY SessionOK
<1>2. id \in live /\ id \in DOMAIN Session.qs
  BY <1>1 DEF GiveUp, Due, Exists
<1>3. "timeout" \in Outcomes
  BY DEF Outcomes
<1>4. PICK u \in Sessions :
          /\ u = Report(Session, id, "timeout")
          /\ Good(u, None) /\ u.qs = Session.qs /\ u.live = Session.live
          /\ u.fault = Session.fault
          /\ \A r \in Requests : u.answer[r] = "open" =>
                Session.answer[r] = "open" /\ r \notin ToSet(Session.qs[id].reqs)
  BY <1>1, <1>2, <1>3, ReportGood
<1>5. \A r \in ToSet(u.qs[id].reqs) : u.answer[r] # "open"
  <2>1. ToSet(qs[id].reqs) \subseteq Requests
    BY <1>1, <1>2, RecordParts, ElementOfSeq, LenProperties DEF ToSet
  <2> QED BY <1>1, <1>4, <2>1
<1> DEFINE p == qs[id].parent
<1>6. Good(u, p)
  BY <1>1, <1>4, SessionOK DEF Good, None
<1>7. PICK t \in Sessions :
          /\ t = Deleted(u, id) /\ Good(t, p)
          /\ t.qs = [qs EXCEPT ![id] = Gone] /\ t.live = live \ {id}
  BY <1>1, <1>2, <1>4, <1>5, <1>6, DeletedGood
<1>8. /\ Become(t) /\ UNCHANGED <<servers, cache, changes>>
      /\ untold' = untold \cup ({p} \ {None})
  BY <1>4, <1>7 DEF GiveUp
<1>9. CacheOK'
  BY <1>8 DEF JdnsInv, TypeOK, CacheOK
<1>10. p \in Nat /\ p <= Len(qs) /\ Len(qs) <= MaxQueries /\ MaxQueries \in Nat
  BY <1>1, <1>2, RecordParts, Bounds DEF Good, Pointers, JdnsInv, TypeOK
<1>11. untold \subseteq untold' /\ untold' \subseteq 1 .. MaxQueries
  <2>1. untold \subseteq 1 .. MaxQueries
    BY DEF JdnsInv, TypeOK
  <2>2. p # None => p \in 1 .. MaxQueries
    <3>1. Len(qs) \in Nat
      BY SessionOK
    <3> HIDE DEF p
    <3> QED BY <1>10, <3>1 DEF None
  <2> HIDE DEF p
  <2> QED BY <1>8, <2>1, <2>2
<1>12. p \in t.live => p \in untold'
  BY <1>7, <1>8, SessionOK DEF None
<1>13. ASSUME p \in t.live, t.qs[p].child \in t.live
       PROVE  t.qs[t.qs[p].child].parent = p
  <2>1. p \in live /\ p # id /\ p # None /\ t.qs[p] = qs[p]
    BY <1>1, <1>7, <1>13, SessionOK DEF None
  <2>2. qs[p].child \in live /\ qs[p].child # id /\ t.qs[qs[p].child] = qs[qs[p].child]
    BY <1>1, <1>7, <1>13, <2>1
  <2>3. Linked(Session, p)
    BY <1>1, <2>1 DEF Good
  <2> QED BY <1>1, <2>1, <2>2, <2>3 DEF Linked
<1> HIDE DEF p
<1> QED BY <1>7, <1>8, <1>9, <1>11, <1>12, <1>13, BecomeUntoldInv

\* A request is made.
LEMMA QueryInv ==
    ASSUME JdnsInv, NEW r \in Requests, NEW name \in Names, Query(r, name)
    PROVE  JdnsInv'
<1>1. Session \in Sessions /\ Good(Session, None) /\ Listed
  BY SessionOK
<1>2. PICK t \in Sessions, id \in Nat :
          /\ id \in t.live
          /\ GetQuery(Session, name) = [session |-> t, id |-> id]
          /\ Good(t, None) /\ t.qs[id].step # Inactive
  <2>1. PICK t \in Sessions : \E id \in t.live :
          /\ GetQuery(Session, name) = [session |-> t, id |-> id]
          /\ Good(t, None) /\ t.answer = Session.answer /\ t.fault = Session.fault
          /\ t.qs[id].step # Inactive
    BY <1>1, GetQueryGood
  <2>2. t.live \subseteq Nat
    BY DEF Sessions
  <2> QED BY <2>1, <2>2
<1>3. PICK u : u = [t EXCEPT !.qs[id].reqs = Append(@, r), !.answer[r] = "open"]
  OBVIOUS
<1>4. u \in Sessions /\ Good(u, None)
  BY <1>2, <1>3, ListenGood
<1>5. Become(u) /\ UNCHANGED <<servers, cache, changes, untold>>
  BY <1>2, <1>3 DEF Query
<1>6. CacheOK'
  BY <1>5 DEF JdnsInv, TypeOK, CacheOK
<1> QED BY <1>4, <1>5, <1>6, BecomeInv

\* A request is cancelled.
LEMMA CancelInv ==
    ASSUME JdnsInv, NEW r \in Requests, NEW freed \in BOOLEAN, Cancel(r, freed)
    PROVE  JdnsInv'
<1> DEFINE id == CHOOSE i \in live : r \in ToSet(qs[i].reqs)
           s == [Session EXCEPT !.qs[id].reqs = ArrayRemove(@, r), !.answer[r] = "cancelled"]
<1>1. /\ Session \in Sessions /\ Good(Session, None)
      /\ Session.qs = qs /\ Session.live = live /\ Session.answer = answer
  BY SessionOK
<1>2. id \in live /\ r \in ToSet(qs[id].reqs)
  <2>1. answer[r] = "open"
    BY DEF Cancel
  <2>2. \E i \in live : r \in ToSet(qs[i].reqs)
    BY <1>1, <2>1 DEF Good, Listened
  <2> QED BY <2>2
<1> HIDE DEF id
<1>3. PICK u : u = s
  OBVIOUS
<1>4. u \in Sessions /\ Good(u, None) /\ id \in u.live /\ u.qs[id].parent = qs[id].parent
  BY <1>1, <1>2, <1>3, UnlistenGood
<1>5. UNCHANGED <<servers, cache, changes, untold>> /\ CacheOK'
  BY DEF Cancel, JdnsInv, TypeOK, CacheOK
<1>6. CASE freed
  <2>1. Become([u EXCEPT !.fault = "freed_array"])
    BY <1>3, <1>6 DEF Cancel, id
  <2>2. "freed_array" \in Faults
    BY DEF Faults
  <2>3. [u EXCEPT !.fault = "freed_array"] \in Sessions
        /\ Good([u EXCEPT !.fault = "freed_array"], None)
    BY <1>4, <2>2, FaultGood
  <2> QED BY <1>5, <2>1, <2>3, BecomeInv
<1>7. CASE ~freed /\ u.qs[id].reqs = <<>> /\ qs[id].parent = None
  <2>1. Become(Abandon(u, id))
    BY <1>3, <1>7 DEF Cancel, id
  <2>2. Abandon(u, id) \in Sessions /\ Good(Abandon(u, id), None)
    BY <1>4, <1>7, AbandonGood
  <2> QED BY <1>5, <2>1, <2>2, BecomeInv
<1>8. CASE ~freed /\ ~(u.qs[id].reqs = <<>> /\ qs[id].parent = None)
  <2>1. Become(u)
    BY <1>3, <1>8 DEF Cancel, id
  <2> QED BY <1>4, <1>5, <2>1, BecomeInv
<1> QED BY <1>6, <1>7, <1>8

\* While the list of servers has not changed it has each of them once.
LEMMA ServerCount ==
    ASSUME JdnsInv, changes = 0
    PROVE  Len(servers) \in Nat /\ Cardinality(Servers) = Len(servers)
<1>1. /\ servers \in Seq(Servers) /\ Len(servers) \in Nat
      /\ DOMAIN servers = 1 .. Len(servers) /\ ToSet(servers) = Servers
  BY LenProperties DEF JdnsInv, TypeOK
<1>2. servers \in [1 .. Len(servers) -> Servers]
  BY <1>1, ElementOfSeq
<1>3. servers \in Injection(1 .. Len(servers), Servers)
  BY <1>2 DEF JdnsInv, TypeOK, Injection
<1>4. \A x \in Servers : \E k \in 1 .. Len(servers) : servers[k] = x
  BY <1>1 DEF ToSet
<1>5. servers \in Surjection(1 .. Len(servers), Servers)
  BY <1>2, <1>4 DEF Surjection
<1>6. Cardinality(1 .. Len(servers)) = Cardinality(Servers)
  BY <1>3, <1>5, FS_Injection, ServersAssumption
<1>7. Cardinality(1 .. Len(servers)) = Len(servers)
  <2>1. PICK n \in Nat : n = Len(servers)
    BY <1>1
  <2>2. Cardinality(1 .. n) = IF 1 > n THEN 0 ELSE n - 1 + 1
    BY FS_Interval
  <2>3. Cardinality(1 .. n) = n
    BY <2>2
  <2> QED BY <2>1, <2>3
<1> QED BY <1>1, <1>6, <1>7

\* What the end of a round changes of a query.
LEMMA RoundOverParts ==
    ASSUME NEW q \in QueryRecords
    PROVE  /\ RoundOver(q) \in QueryRecords
           /\ RoundOver(q).step = q.step /\ RoundOver(q).reqs = q.reqs
           /\ RoundOver(q).timer = q.timer /\ RoundOver(q).failed = q.failed
           /\ RoundOver(q).parent = q.parent /\ RoundOver(q).child = q.child
           /\ \/ RoundOver(q).tried = q.tried /\ RoundOver(q).ntried = q.ntried
                 /\ q.ntried # Len(servers)
              \/ RoundOver(q).tried = {} /\ RoundOver(q).ntried = 0
                 /\ q.ntried = Len(servers)
BY DEF RoundOver, QueryRecords

\* A server to ask is one of the list, neither tried nor seen to fail.
LEMMA AskableParts ==
    ASSUME JdnsInv, NEW q \in QueryRecords, Askable(q) # {}
    PROVE  /\ servers[First(Askable(q))] \in Servers
           /\ servers[First(Askable(q))] \notin q.tried \cup q.failed
<1>1. servers \in Seq(Servers) /\ DOMAIN servers = 1 .. Len(servers) /\ Len(servers) \in Nat
  BY LenProperties DEF JdnsInv, TypeOK
<1>2. Askable(q) \in SUBSET Nat
  BY <1>1 DEF Askable
<1>3. First(Askable(q)) \in Askable(q)
  BY <1>2, FirstIsLeast
<1>4. /\ First(Askable(q)) \in 1 .. Len(servers)
      /\ servers[First(Askable(q))] \notin q.tried \cup q.failed
  BY <1>1, <1>3 DEF Askable
<1> QED BY <1>1, <1>4, ElementOfSeq

\* A packet is sent: the query after it, and what its servers were asked.
LEMMA SentKept ==
    ASSUME JdnsInv, NEW id \in live, NEW ns \in Servers,
           qs[id].step \in 0 .. GiveUpStep - 1,
           NEW q \in QueryRecords, q = RoundOver([qs[id] EXCEPT !.asked = TRUE]),
           ns \notin q.tried \cup q.failed,
           net' = net \cup {[query |-> id, server |-> ns]},
           UNCHANGED <<servers, changes>>
    PROVE  \E t \in QueryRecords :
              /\ t = Sent(q, ns) /\ Kept(id, t)'
              /\ t.reqs = qs[id].reqs /\ t.timer = qs[id].timer
              /\ t.parent = qs[id].parent /\ t.child = qs[id].child
<1>1. PICK q0 \in QueryRecords : q0 = qs[id]
  BY SessionOK
<1>2. /\ q0.step \in Nat /\ q0.step + 1 \in 0 .. Inactive /\ q0.step + 1 # Inactive
      /\ q0.ntried \in Nat /\ q0.tried \subseteq Servers /\ q0.failed \subseteq Servers
  <2>1. q0.step \in 0 .. GiveUpStep - 1
    BY <1>1
  <2> QED BY <2>1, Bounds, RecordParts DEF Inactive
<1>3. /\ q0.ntried <= q0.step
      /\ q0.parent = None \/ q0.child = None
      /\ Paced(id, q0)
  BY <1>1, SessionOK DEF Good, Kept
<1>4. PICK q1 \in QueryRecords : q1 = [q0 EXCEPT !.asked = TRUE]
  BY DEF QueryRecords
<1>5. /\ q1.step = q0.step /\ q1.reqs = q0.reqs /\ q1.timer = q0.timer /\ q1.failed = q0.failed
      /\ q1.parent = q0.parent /\ q1.child = q0.child /\ q1.tried = q0.tried
      /\ q1.ntried = q0.ntried
  BY <1>4 DEF QueryRecords
<1>6. q = RoundOver(q1)
  BY <1>1, <1>4
<1>7. /\ q.step = q0.step /\ q.reqs = q0.reqs /\ q.timer = q0.timer /\ q.failed = q0.failed
      /\ q.parent = q0.parent /\ q.child = q0.child
      /\ \/ q.tried = q0.tried /\ q.ntried = q0.ntried /\ q0.ntried # Len(servers)
         \/ q.tried = {} /\ q.ntried = 0 /\ q0.ntried = Len(servers)
  BY <1>5, <1>6, RoundOverParts
<1>8. PICK q2 \in QueryRecords :
          q2 = [q EXCEPT !.tried = @ \cup {ns}, !.ntried = @ + 1, !.step = @ + 1]
  <2>1. q.step + 1 \in 0 .. Inactive
    BY <1>2, <1>7
  <2>2. q.ntried \in Nat /\ q.tried \subseteq Servers
    BY RecordParts
  <2>3. q.ntried + 1 \in Nat
    BY <2>2
  <2>4. q.tried \cup {ns} \in SUBSET Servers
    BY <2>2, Zenon
  <2> QED BY <2>1, <2>3, <2>4 DEF QueryRecords
<1>9. /\ q2.step = q0.step + 1 /\ q2.reqs = q0.reqs /\ q2.timer = q0.timer
      /\ q2.failed = q0.failed /\ q2.parent = q0.parent /\ q2.child = q0.child
      /\ q2.tried = q.tried \cup {ns} /\ q2.ntried = q.ntried + 1
  BY <1>7, <1>8 DEF QueryRecords
<1>10. PICK t \in QueryRecords : t = Sent(q, ns)
  BY <1>8, RoundOverParts DEF Sent
<1>11. /\ t.step = q0.step + 1 /\ t.reqs = q0.reqs /\ t.timer = q0.timer
       /\ t.failed = q0.failed /\ t.parent = q0.parent /\ t.child = q0.child
       /\ \/ t.tried = q.tried \cup {ns} /\ t.ntried = q.ntried + 1
             /\ q.ntried + 1 # Len(servers)
          \/ t.tried = {} /\ t.ntried = 0 /\ q.ntried + 1 = Len(servers)
  <2>1. t = RoundOver(q2)
    BY <1>8, <1>10 DEF Sent
  <2> QED BY <1>9, <2>1, RoundOverParts, ZenonT(40)
<1>12. t.ntried <= t.step
  <2>1. q.ntried \in Nat /\ q.ntried <= q0.step
    BY <1>2, <1>3, <1>7
  <2> QED BY <1>2, <1>11, <2>1
<1>13. ASSUME changes = 0
       PROVE  /\ \A x \in t.tried \cup t.failed : Asked(id, x)'
              /\ t.step < Len(servers) => t.ntried = t.step /\ Cardinality(t.tried) = t.step
              /\ t.step >= Len(servers) => \A x \in Servers : Asked(id, x)'
  <2>1. PICK n \in Nat : n = Len(servers) /\ n = Cardinality(Servers)
    BY <1>13, ServerCount
  <2>2. /\ \A x \in q0.tried \cup q0.failed : Asked(id, x)
        /\ q0.step < n => q0.ntried = q0.step /\ Cardinality(q0.tried) = q0.step
        /\ q0.step >= n => \A x \in Servers : Asked(id, x)
    BY <1>2, <1>3, <1>13, <2>1 DEF Paced
  <2>3. /\ \A x : Asked(id, x) => Asked(id, x)'
        /\ Asked(id, ns)'
    BY DEF Asked
  <2>4. t.tried \subseteq q0.tried \cup {ns}
    BY <1>7, <1>11
  <2>5. \A x \in t.tried \cup t.failed : Asked(id, x)'
    BY <1>11, <2>2, <2>3, <2>4
  <2>6. ASSUME q0.step < n
        PROVE  /\ q.tried = q0.tried /\ q.ntried = q0.step
               /\ Cardinality(q0.tried \cup {ns}) = q0.step + 1
    <3>1. q.tried = q0.tried /\ q.ntried = q0.step /\ Cardinality(q0.tried) = q0.step
      BY <1>2, <1>7, <2>1, <2>2, <2>6
    <3>2. IsFiniteSet(q0.tried)
      BY <1>2, ServersAssumption, FS_Subset
    <3>3. ns \notin q0.tried
      BY <3>1
    <3> QED BY <3>1, <3>2, <3>3, FS_AddElement
  <2>7. ASSUME t.step < n
        PROVE  t.ntried = t.step /\ Cardinality(t.tried) = t.step
    <3>1. q0.step < n /\ q0.step + 1 # n
      BY <1>2, <1>11, <2>1, <2>7
    <3> QED BY <3>1, <2>1, <2>6, <1>11
  <2>8. ASSUME t.step >= n
        PROVE  \A x \in Servers : Asked(id, x)'
    <3>1. CASE q0.step >= n
      BY <3>1, <2>2, <2>3
    <3>2. CASE q0.step < n
      <4>1. q0.step + 1 = n
        BY <1>2, <1>11, <2>1, <2>8, <3>2
      <4>2. Cardinality(q0.tried \cup {ns}) = Cardinality(Servers)
        BY <3>2, <4>1, <2>1, <2>6
      <4>3. q0.tried \cup {ns} = Servers
        BY <1>2, <4>2, ServersAssumption, FS_Subset
      <4> QED BY <4>3, <2>2, <2>3
    <3> QED BY <3>1, <3>2, <1>2, <2>1
  <2> QED BY <2>1, <2>5, <2>7, <2>8
<1>14. Paced(id, t)'
  BY <1>13 DEF Paced
<1>15. Kept(id, t)'
  BY <1>2, <1>3, <1>11, <1>12, <1>14 DEF Kept
<1> QED BY <1>1, <1>10, <1>11, <1>15

\* The links of the lookups depend on these fields of their queries only.
LEMMA SameLinks ==
    ASSUME JdnsInv, untold' = untold, DOMAIN qs' = DOMAIN qs, Len(qs') = Len(qs), live' = live, answer' = answer,
           \A i \in DOMAIN qs :
              /\ qs'[i].child = qs[i].child /\ qs'[i].parent = qs[i].parent
              /\ qs'[i].timer = qs[i].timer /\ qs'[i].reqs = qs[i].reqs
    PROVE  Pointers(Session)' /\ Listened(Session)' /\ \A i \in live : Linked(Session, i)'
<1>1. /\ Session.qs = qs /\ Session.live = live /\ Session.answer = answer
      /\ (Session.qs)' = qs' /\ (Session.live)' = live /\ (Session.answer)' = answer
  BY DEF Session
<1>2. /\ live \subseteq DOMAIN qs /\ Len(qs) \in Nat /\ DOMAIN qs = 1 .. Len(qs)
      /\ \A i \in DOMAIN qs : qs[i] \in QueryRecords
  BY SessionOK
<1>3. \A i \in DOMAIN qs : qs[i].parent \in Nat
  BY <1>2, RecordParts
<1>4. /\ \A i \in DOMAIN qs :
            /\ qs[i].child <= Len(qs) /\ qs[i].parent <= Len(qs)
            /\ qs[i].parent # None => qs[qs[i].parent].parent = None
      /\ \A i \in live : i # None => Linked(Session, i)
      /\ Listened(Session)
  BY <1>1 DEF JdnsInv, Good, Pointers
<1>5. Pointers(Session)'
  <2>1. ASSUME NEW i \in DOMAIN qs, qs[i].parent # None
        PROVE  qs'[qs[i].parent].parent = None
    <3>1. qs[i].parent \in DOMAIN qs
      BY <1>2, <1>3, <1>4, <2>1 DEF None
    <3> QED BY <3>1, <2>1, <1>4
  <2>2. ASSUME NEW i \in DOMAIN qs'
        PROVE  /\ qs'[i].child <= Len(qs') /\ qs'[i].parent <= Len(qs')
               /\ qs'[i].parent # None => qs'[qs'[i].parent].parent = None
    BY <2>1, <1>4
  <2> QED BY <1>1, <1>2, <2>2 DEF Pointers
<1>6. Listened(Session)'
  BY <1>1, <1>2, <1>4 DEF Listened
<1>7. ASSUME NEW i \in live
      PROVE  Linked(Session, i)'
  <2>1. i \in DOMAIN qs /\ i # None
    BY <1>2 DEF None
  <2>2. Linked(Session, i)
    BY <1>4, <2>1
  <2>3. qs[i].child \in live => qs'[qs[i].child].parent = i
    BY <1>1, <1>2, <2>2 DEF Linked
  <2> QED BY <1>1, <2>1, <2>2, <2>3 DEF Linked
<1> QED BY <1>5, <1>6, <1>7

\* A query is sent to the next server, if there is one.
LEMMA SendInv ==
    ASSUME JdnsInv, NEW id, Send(id)
    PROVE  JdnsInv'
<1> DEFINE asking == [qs[id] EXCEPT !.asked = TRUE]
<1>1. /\ Session \in Sessions /\ Good(Session, None)
      /\ Session.qs = qs /\ Session.live = live /\ live \subseteq DOMAIN qs
      /\ Len(qs) \in Nat /\ DOMAIN qs = 1 .. Len(qs)
      /\ \A i \in DOMAIN qs : qs[i] \in QueryRecords
  BY SessionOK
<1>2. id \in live /\ id \in DOMAIN qs /\ qs[id].step # Inactive /\ qs[id].step # GiveUpStep
  BY <1>1 DEF Send, Due, Exists, GivesUp
<1>3. PICK q \in QueryRecords : q = RoundOver(asking)
  <2>1. asking \in QueryRecords
    <3>1. PICK q0 \in QueryRecords : q0 = qs[id]
      BY <1>1, <1>2
    <3>2. [q0 EXCEPT !.asked = TRUE] \in QueryRecords
      BY DEF QueryRecords
    <3> QED BY <3>1, <3>2
  <2> QED BY <2>1, RoundOverParts
<1>4. /\ UNCHANGED <<servers, live, cache, answer, changes, untold>>
      /\ IF Askable(q) = {}
         THEN fault' = "no_server" /\ UNCHANGED <<qs, net>>
         ELSE /\ qs' = [qs EXCEPT ![id] = Sent(q, servers[First(Askable(q))])]
              /\ net' = net \cup {[query |-> id, server |-> servers[First(Askable(q))]]}
              /\ UNCHANGED fault
  BY <1>3 DEF Send
<1>5. CASE Askable(q) = {}
  <2>1. UNCHANGED <<servers, live, cache, answer, changes, untold, qs, net>> /\ fault' = "no_server"
    BY <1>4, <1>5
  <2>2. TypeOK'
    BY <2>1 DEF JdnsInv, TypeOK, IsInjective
  <2>3. Pointers(Session)' /\ Listened(Session)' /\ \A i \in live : Linked(Session, i)'
    BY <2>1, SameLinks
  <2>4. \A i \in live : Kept(i, qs[i])'
    BY <1>1, <2>1 DEF Good, Kept, Paced, Asked
  <2>5. Good(Session, None)'
    BY <2>1, <2>3, <2>4 DEF Good, Session
  <2> QED BY <2>1, <2>2, <2>5 DEF JdnsInv
<1>6. CASE Askable(q) # {}
  <2>1. PICK ns \in Servers : ns = servers[First(Askable(q))] /\ ns \notin q.tried \cup q.failed
    BY <1>6, AskableParts
  <2>2. /\ qs' = [qs EXCEPT ![id] = Sent(q, ns)]
        /\ net' = net \cup {[query |-> id, server |-> ns]}
        /\ UNCHANGED <<servers, live, cache, answer, changes, untold, fault>>
    BY <1>4, <1>6, <2>1
  <2>3. qs[id].step \in 0 .. GiveUpStep - 1
    <3>1. qs[id].step \in 0 .. Inactive
      BY <1>1, <1>2, RecordParts
    <3> QED BY <3>1, <1>2, Bounds DEF Inactive
  <2>4. PICK t \in QueryRecords :
            /\ t = Sent(q, ns) /\ Kept(id, t)'
            /\ t.reqs = qs[id].reqs /\ t.timer = qs[id].timer
            /\ t.parent = qs[id].parent /\ t.child = qs[id].child
    BY <1>2, <1>3, <2>1, <2>2, <2>3, SentKept
  <2>5. qs' = [qs EXCEPT ![id] = t]
    BY <2>2, <2>4
  <2>6. qs \in Seq(QueryRecords)
    BY DEF JdnsInv, TypeOK
  <2>7. qs' \in Seq(QueryRecords) /\ DOMAIN qs' = DOMAIN qs /\ Len(qs') = Len(qs)
    BY <1>2, <2>5, <2>6, ExceptSeq
  <2>8. Pointers(Session)' /\ Listened(Session)' /\ \A i \in live : Linked(Session, i)'
    <3>1. \A i \in DOMAIN qs :
             /\ qs'[i].child = qs[i].child /\ qs'[i].parent = qs[i].parent
             /\ qs'[i].timer = qs[i].timer /\ qs'[i].reqs = qs[i].reqs
      BY <2>4, <2>5
    <3> QED BY <2>2, <2>7, <3>1, SameLinks
  <2>9. ASSUME NEW i \in live
        PROVE  Kept(i, qs[i])'
    <3>1. CASE i = id
      <4>1. qs'[i] = t
        BY <1>2, <2>5, <3>1
      <4> QED BY <2>4, <3>1, <4>1 DEF Kept, Paced, Asked
    <3>2. CASE i # id
      <4>1. qs'[i] = qs[i]
        BY <1>1, <2>5, <3>2
      <4>2. Kept(i, qs[i])
        BY <1>1 DEF Good
      <4>3. \A x : Asked(i, x) => Asked(i, x)'
        BY <2>2 DEF Asked
      <4>4. Paced(i, qs[i])'
        BY <2>2, <4>1, <4>2, <4>3 DEF Kept, Paced
      <4> QED BY <4>1, <4>2, <4>4 DEF Kept
    <3> QED BY <3>1, <3>2
  <2>10. Good(Session, None)'
    BY <2>2, <2>8, <2>9 DEF Good, Session
  <2>11. TypeOK'
    <3>1. servers' \in Seq(Servers) /\ IsInjective(servers)' /\ changes' \in 0 .. MaxChanges
          /\ untold' \subseteq 1 .. MaxQueries
      BY <2>2 DEF JdnsInv, TypeOK, IsInjective
    <3>2. Len(qs') <= MaxQueries /\ live' \subseteq DOMAIN qs'
      BY <1>1, <2>2, <2>7 DEF JdnsInv, TypeOK
    <3>3. net' \subseteq [query : DOMAIN qs', server : Servers]
      BY <1>2, <2>2, <2>7 DEF JdnsInv, TypeOK
    <3>4. /\ cache' \in [Names -> [own : {"none", "answer", "nxdomain"}, cnames : 0 .. 2]]
          /\ answer' \in [Requests -> {"unused", "open", "cancelled"} \cup Outcomes]
          /\ fault' \in {"none", "deleted_query", "no_server", "freed_array"}
      BY <2>2 DEF JdnsInv, TypeOK
    <3>5. \A i \in live' : /\ qs'[i].ntried <= qs'[i].step
                           /\ qs'[i].parent = None \/ qs'[i].child = None
      BY <2>2, <2>9 DEF Kept
    <3> QED BY <2>7, <3>1, <3>2, <3>3, <3>4, <3>5 DEF TypeOK
  <2> QED BY <2>2, <2>10, <2>11 DEF JdnsInv
<1> QED BY <1>5, <1>6

\* What the loss of servers changes of a query.
LEMMA ServerGoneParts ==
    ASSUME NEW q \in QueryRecords, NEW gone
    PROVE  /\ ServerGone(q, gone) \in QueryRecords
           /\ ServerGone(q, gone).step = q.step /\ ServerGone(q, gone).reqs = q.reqs
           /\ ServerGone(q, gone).timer = q.timer
           /\ ServerGone(q, gone).parent = q.parent /\ ServerGone(q, gone).child = q.child
           /\ ServerGone(q, gone).ntried <= q.ntried
<1>1. PICK k \in Nat :
          k = (IF q.ntried = 1 /\ q.tried \cap gone # {} THEN 0 ELSE q.ntried) /\ k <= q.ntried
  <2>1. q.ntried \in Nat
    BY RecordParts
  <2> QED BY <2>1
<1>2. q.tried \ gone \in SUBSET Servers /\ q.failed \ gone \in SUBSET Servers
  BY RecordParts, Zenon
<1>3. ServerGone(q, gone) = [q EXCEPT !.tried = q.tried \ gone, !.failed = q.failed \ gone,
                                      !.ntried = k]
  BY <1>1 DEF ServerGone
<1> QED BY <1>1, <1>2, <1>3 DEF QueryRecords

\* The list of servers changes.
LEMMA SetNameserversInv ==
    ASSUME JdnsInv, NEW new \in SUBSET Servers, NEW freed \in BOOLEAN,
           SetNameservers(new, freed)
    PROVE  JdnsInv'
<1> DEFINE gone == ToSet(servers) \ new
           told == {r \in Requests : \E id \in live : r \in ToSet(qs[id].reqs)}
<1>1. /\ Session \in Sessions /\ Good(Session, None)
      /\ Session.qs = qs /\ Session.live = live /\ Session.answer = answer
      /\ live \subseteq DOMAIN qs
      /\ Len(qs) \in Nat /\ DOMAIN qs = 1 .. Len(qs)
      /\ \A i \in DOMAIN qs : qs[i] \in QueryRecords
  BY SessionOK
<1>2. changes' # 0 /\ changes' \in 0 .. MaxChanges
  BY Bounds DEF SetNameservers, JdnsInv, TypeOK
<1>3. servers' \in Seq(Servers) /\ IsInjective(servers)'
  <2>1. servers' \in SetToSeqs(new)
    BY DEF SetNameservers, Relisted
  <2>2. /\ servers' \in [1 .. Cardinality(new) -> new]
        /\ \A i, j \in 1 .. Cardinality(new) : i # j => servers'[i] # servers'[j]
    BY <2>1 DEF SetToSeqs
  <2>3. Cardinality(new) \in Nat
    BY ServersAssumption, FS_Subset, FS_CardinalityType
  <2>4. servers' \in Seq(new)
    BY <2>2, <2>3, SeqDef
  <2>5. servers' \in [1 .. Cardinality(new) -> Servers]
    BY <2>2
  <2>6. servers' \in Seq(Servers)
    BY <2>3, <2>5, SeqDef
  <2> QED BY <2>2, <2>6 DEF IsInjective
<1>4. /\ UNCHANGED <<cache, untold>>
      /\ fault' \in {"none", "deleted_query", "no_server", "freed_array"}
  BY DEF SetNameservers, JdnsInv, TypeOK
<1>5. \A i, q : Paced(i, q)'
  BY <1>2 DEF Paced
<1>6. CASE new = {}
  <2>1. /\ qs' = [id \in DOMAIN qs |-> Gone] /\ live' = {} /\ net' = {}
        /\ answer' = [r \in Requests |->
              IF r \in told /\ answer[r] = "open" THEN "timeout" ELSE answer[r]]
    BY <1>6 DEF SetNameservers
  <2>2. answer \in [Requests -> {"unused", "open", "cancelled"} \cup Outcomes]
    BY DEF JdnsInv, TypeOK
  <2>3. answer' \in [Requests -> {"unused", "open", "cancelled"} \cup Outcomes]
    BY <2>1, <2>2 DEF Outcomes
  <2>4. qs' \in Seq(QueryRecords) /\ DOMAIN qs' = DOMAIN qs /\ Len(qs') = Len(qs)
    <3>1. CASE DOMAIN qs = {}
      <4>1. Len(qs) = 0
        BY <1>1, <3>1
      <4> QED BY <1>1, <2>1, <3>1, <4>1, SeqDef
    <3>2. CASE DOMAIN qs # {}
      <4>1. Gone \in QueryRecords
        BY <1>1, <3>2, RecordParts, NewRecord
      <4>2. qs' \in [1 .. Len(qs) -> QueryRecords]
        BY <1>1, <2>1, <4>1
      <4> QED BY <1>1, <2>1, <4>2, SeqDef
    <3> QED BY <3>1, <3>2
  <2>5. Listened(Session)'
    <3>1. ASSUME NEW r \in Requests
          PROVE  answer'[r] # "open"
      <4>1. answer[r] = "open" => r \in told
        BY <1>1 DEF Good, Listened
      <4> QED BY <2>1, <4>1
    <3> QED BY <3>1 DEF Listened, Session
  <2>6. Pointers(Session)'
    <3>1. Gone.parent = None /\ Gone.child = None
      BY DEF Gone, NewQuery
    <3>2. \A i \in DOMAIN qs' : qs'[i] = Gone
      BY <2>1
    <3> QED BY <1>1, <2>1, <2>4, <3>1, <3>2 DEF Pointers, Session, None
  <2>7. Good(Session, None)'
    BY <2>1, <2>5, <2>6 DEF Good, Session
  <2>8. TypeOK'
    BY <1>2, <1>3, <1>4, <2>1, <2>3, <2>4 DEF JdnsInv, TypeOK
  <2> QED BY <1>2, <2>7, <2>8 DEF JdnsInv
<1>7. CASE new # {}
  <2>1. qs' = [id \in DOMAIN qs |-> ServerGone(qs[id], gone)] /\ UNCHANGED <<live, answer, net>>
    BY <1>7 DEF SetNameservers
  <2>2. ASSUME NEW i \in DOMAIN qs
        PROVE  /\ qs'[i] \in QueryRecords
               /\ qs'[i].child = qs[i].child /\ qs'[i].parent = qs[i].parent
               /\ qs'[i].timer = qs[i].timer /\ qs'[i].reqs = qs[i].reqs
               /\ qs'[i].step = qs[i].step /\ qs'[i].ntried <= qs[i].ntried
    <3>1. PICK q \in QueryRecords : q = qs[i]
      BY <1>1
    <3>2. qs'[i] = ServerGone(q, gone)
      BY <2>1, <3>1
    <3> HIDE DEF gone
    <3> QED BY <3>1, <3>2, ServerGoneParts
  <2>3. qs' \in Seq(QueryRecords) /\ DOMAIN qs' = DOMAIN qs /\ Len(qs') = Len(qs)
    <3>1. qs' \in [1 .. Len(qs) -> QueryRecords]
      BY <1>1, <2>1, <2>2
    <3>2. DOMAIN qs' = 1 .. Len(qs) /\ Len(qs) \in Nat /\ DOMAIN qs = 1 .. Len(qs)
      BY <1>1, <2>1
    <3>3. qs' \in Seq(QueryRecords)
      BY <3>1, <3>2, SeqDef
    <3> QED BY <3>2, <3>3, LenProperties
  <2>4. Pointers(Session)' /\ Listened(Session)' /\ \A i \in live : Linked(Session, i)'
    BY <1>4, <2>1, <2>2, <2>3, SameLinks
  <2>5. ASSUME NEW i \in live
        PROVE  /\ Kept(i, qs[i])' /\ qs'[i].ntried <= qs'[i].step
               /\ qs'[i].parent = None \/ qs'[i].child = None
    <3>1. /\ qs[i].ntried <= qs[i].step /\ (qs[i].parent = None \/ qs[i].child = None)
          /\ qs[i].step = Inactive => qs[i].reqs = <<>> /\ qs[i].parent = None
      BY <1>1 DEF Good, Kept
    <3>2. i \in DOMAIN qs /\ i \in live'
      BY <1>1, <2>1
    <3>3. qs'[i] \in QueryRecords /\ qs[i] \in QueryRecords
      BY <1>1, <2>2, <3>2
    <3>4. qs'[i].ntried \in Nat /\ qs[i].ntried \in Nat /\ qs[i].step \in Nat
      BY <3>3, RecordParts
    <3>5. qs'[i].ntried <= qs'[i].step
      BY <2>2, <3>1, <3>2, <3>4
    <3> QED BY <1>5, <2>2, <3>1, <3>2, <3>5 DEF Kept
  <2>6. Good(Session, None)'
    BY <2>1, <2>4, <2>5 DEF Good, Session
  <2>7. TypeOK'
    <3>1. net' \subseteq [query : DOMAIN qs', server : Servers]
      BY <2>1, <2>3 DEF JdnsInv, TypeOK
    <3>2. Len(qs') <= MaxQueries /\ live' \subseteq DOMAIN qs'
      BY <1>1, <2>1, <2>3 DEF JdnsInv, TypeOK
    <3>3. /\ cache' \in [Names -> [own : {"none", "answer", "nxdomain"}, cnames : 0 .. 2]]
          /\ answer' \in [Requests -> {"unused", "open", "cancelled"} \cup Outcomes]
          /\ fault' \in {"none", "deleted_query", "no_server", "freed_array"}
      BY <1>4, <2>1 DEF JdnsInv, TypeOK
    <3>4. \A i \in live' : /\ qs'[i].ntried <= qs'[i].step
                           /\ qs'[i].parent = None \/ qs'[i].child = None
      BY <2>1, <2>5
    <3>5. untold' \subseteq 1 .. MaxQueries
      BY <1>4 DEF JdnsInv, TypeOK
    <3> QED BY <1>2, <1>3, <2>3, <3>1, <3>2, <3>3, <3>4, <3>5 DEF TypeOK
  <2> QED BY <1>2, <2>6, <2>7 DEF JdnsInv
<1> QED BY <1>6, <1>7

\* A cached record expires.
LEMMA ExpireInv ==
    ASSUME JdnsInv, NEW name \in Names, NEW kind \in {"own", "cname"}, Expire(name, kind)
    PROVE  JdnsInv'
<1>1. UNCHANGED <<servers, qs, live, net, answer, fault, changes, untold>>
  BY DEF Expire
<1>2. cache' \in [Names -> [own : {"none", "answer", "nxdomain"}, cnames : 0 .. 2]]
  <2>1. PICK c \in [own : {"none", "answer", "nxdomain"}, cnames : 0 .. 2] : c = cache[name]
    BY DEF JdnsInv, TypeOK
  <2>2. [c EXCEPT !.own = "none"] \in [own : {"none", "answer", "nxdomain"}, cnames : 0 .. 2]
    OBVIOUS
  <2>3. c.cnames > 0 =>
          [c EXCEPT !.cnames = @ - 1] \in [own : {"none", "answer", "nxdomain"}, cnames : 0 .. 2]
    <3>1. c.cnames \in 0 .. 2
      OBVIOUS
    <3>2. c.cnames > 0 => c.cnames - 1 \in 0 .. 2
      BY <3>1
    <3> QED BY <3>2
  <2>4. cache \in [Names -> [own : {"none", "answer", "nxdomain"}, cnames : 0 .. 2]]
    BY DEF JdnsInv, TypeOK
  <2>5. \/ cache' = [cache EXCEPT ![name] = [c EXCEPT !.own = "none"]]
        \/ c.cnames > 0 /\ cache' = [cache EXCEPT ![name] = [c EXCEPT !.cnames = @ - 1]]
    BY <2>1, <2>4 DEF Expire
  <2> QED BY <2>2, <2>3, <2>4, <2>5
<1>3. TypeOK'
  BY <1>1, <1>2 DEF JdnsInv, TypeOK, IsInjective
<1>4. Good(Session, None)'
  BY <1>1 DEF JdnsInv, Good, Session, Pointers, Listened, Linked, Kept, Paced, Asked
<1> QED BY <1>1, <1>3, <1>4 DEF JdnsInv


\* The program starts with the servers it was given, in some order.
LEMMA InitInv ==
    ASSUME Init
    PROVE  JdnsInv
<1>1. /\ servers = SetToSeq(Servers) /\ qs = <<>> /\ live = {} /\ net = {} /\ fault = "none"
      /\ changes = 0 /\ untold = {} /\ answer = [r \in Requests |-> "unused"]
      /\ cache = [n \in Names |-> [own |-> "none", cnames |-> 0]]
  BY DEF Init
<1>2. PICK n \in Nat : n = Cardinality(Servers) /\ ExistsBijection(1 .. n, Servers)
  BY ServersAssumption, FS_CardinalityType
<1>3. \E f \in [1 .. n -> Servers] : IsInjective(f)
  BY <1>2 DEF ExistsBijection, Bijection, Injection
<1>4. servers \in [1 .. n -> Servers] /\ IsInjective(servers)
  BY <1>1, <1>2, <1>3 DEF SetToSeq
<1>5. servers \in Seq(Servers)
  BY <1>4, SeqDef
<1>6. ToSet(servers) = Servers
  <2>1. servers \in Injection(1 .. n, Servers)
    BY <1>4 DEF Injection
  <2>2. Cardinality(1 .. n) = n
    <3>1. Cardinality(1 .. n) = IF 1 > n THEN 0 ELSE n - 1 + 1
      BY FS_Interval
    <3> QED BY <3>1
  <2>3. servers \in Surjection(1 .. n, Servers)
    BY <1>2, <2>1, <2>2, FS_Injection, ServersAssumption
  <2>4. DOMAIN servers = 1 .. n
    BY <1>4
  <2> QED BY <1>4, <2>3, <2>4 DEF Surjection, ToSet
<1>7. qs \in Seq(QueryRecords) /\ Len(qs) = 0 /\ DOMAIN qs = {}
  BY <1>1, EmptySeq
<1>8. /\ answer \in [Requests -> {"unused", "open", "cancelled"} \cup Outcomes]
      /\ \A r \in Requests : answer[r] # "open"
  BY <1>1
<1>9. TypeOK
  <2>1. cache \in [Names -> [own : {"none", "answer", "nxdomain"}, cnames : 0 .. 2]]
    BY <1>1
  <2>2. 0 <= MaxQueries /\ 0 \in 0 .. MaxChanges
    BY Bounds
  <2> QED BY <1>1, <1>4, <1>5, <1>7, <1>8, <2>1, <2>2 DEF TypeOK
<1>10. Good(Session, None)
  <2>1. Pointers(Session)
    BY <1>1, <1>7 DEF Pointers, Session
  <2>2. Listened(Session)
    BY <1>8 DEF Listened, Session
  <2> QED BY <1>1, <2>1, <2>2 DEF Good, Session
<1> QED BY <1>6, <1>9, <1>10 DEF JdnsInv

\* Every step keeps the invariant.
LEMMA NextInv ==
    ASSUME JdnsInv, [Next]_vars
    PROVE  JdnsInv'
<1>1. ASSUME NEW p \in net, NEW reply \in Replies, Reply(p, reply)
      PROVE  JdnsInv'
  BY <1>1, ReplyInv
<1>2. ASSUME NEW id \in DOMAIN qs, Timeout(id)
      PROVE  JdnsInv'
  BY <1>2, UseCacheInv, ForgetInv, GiveUpInv, SendInv DEF Timeout
<1>3. ASSUME NEW r \in Requests, NEW n \in Names, Query(r, n)
      PROVE  JdnsInv'
  BY <1>3, QueryInv
<1>4. ASSUME NEW r \in Requests, NEW freed \in BOOLEAN, Cancel(r, freed)
      PROVE  JdnsInv'
  BY <1>4, CancelInv
<1>5. ASSUME NEW new \in SUBSET Servers, NEW freed \in BOOLEAN, SetNameservers(new, freed)
      PROVE  JdnsInv'
  BY <1>5, SetNameserversInv
<1>6. ASSUME NEW n \in Names, NEW kind \in {"own", "cname"}, Expire(n, kind)
      PROVE  JdnsInv'
  BY <1>6, ExpireInv
<1>7. CASE UNCHANGED vars
  <2>1. TypeOK'
    BY <1>7 DEF JdnsInv, TypeOK, IsInjective, vars
  <2>2. Good(Session, None)'
    BY <1>7 DEF JdnsInv, Good, Session, Pointers, Listened, Linked, Kept, Paced, Asked, vars
  <2> QED BY <1>7, <2>1, <2>2 DEF JdnsInv, vars
<1> QED BY <1>1, <1>2, <1>3, <1>4, <1>5, <1>6, <1>7 DEF Next, TimerStep

\* The inductive invariant holds in every reachable state.
LEMMA JdnsInvariant == Spec => []JdnsInv
<1>1. Init => JdnsInv
  BY InitInv
<1>2. JdnsInv /\ [Next]_vars => JdnsInv'
  BY NextInv
<1> QED BY <1>1, <1>2, PTL DEF Spec

-----------------------------------------------------------------------------
(***************************************************************************)
(* The theorems.                                                           *)
(***************************************************************************)
\* The resolver's state is well typed, no query has both a parent and a child,
\* and none has tried more servers than it has sent packets.
THEOREM TypeCorrect == Spec => []TypeOK
<1>1. JdnsInv => TypeOK
  BY DEF JdnsInv
<1> QED BY <1>1, JdnsInvariant, PTL

\* A lookup that is not answered is still listened for by a query with a timer
\* of its own, or with a child in the list that reports to it, or by one whose
\* child gave up without telling it (jdns.c:1767): there is no other way for a
\* lookup to be forgotten.
THEOREM NobodyForgotten == Spec => []Served
<1>1. JdnsInv => Served
  <2>1. SUFFICES ASSUME JdnsInv, NEW r \in Requests, answer[r] = "open"
                 PROVE  \E id \in live : r \in ToSet(qs[id].reqs)
                                             /\ (Waits(id) \/ id \in untold)
    BY DEF Served
  <2>2. PICK id \in live : r \in ToSet(qs[id].reqs)
    BY <2>1 DEF JdnsInv, Good, Listened, Session
  <2>3. id # None
    BY <2>1, SessionOK DEF None
  <2>4. Linked(Session, id)
    BY <2>1, <2>3 DEF JdnsInv, Good, Session
  <2>5. Waits(id) \/ id \in untold
    BY <2>4 DEF Linked, Waits, Session, Exists
  <2> QED BY <2>2, <2>5
<1> QED BY <1>1, JdnsInvariant, PTL

\* While the list of servers does not change, a query that has been sent as
\* often as there are servers was sent to each of them.
THEOREM RotationComplete == Spec => []EveryServerAsked
<1>1. JdnsInv => EveryServerAsked
  <2>1. SUFFICES ASSUME JdnsInv, changes = 0, NEW id \in live, qs[id].step # Inactive,
                        qs[id].step >= Len(servers), NEW x \in Servers
                 PROVE  [query |-> id, server |-> x] \in net
    BY DEF EveryServerAsked
  <2>2. Paced(id, qs[id])
    BY <2>1 DEF JdnsInv, Good, Kept, Session
  <2> QED BY <2>1, <2>2 DEF Paced, Asked
<1> QED BY <1>1, JdnsInvariant, PTL
=============================================================================
