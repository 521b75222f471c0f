-------------------------- MODULE XmlStreamProofs ---------------------------
(***************************************************************************)
(* Theorems about XmlStream for any number of stanzas and of troubles:     *)
(* type correctness, the accounting of written bytes, no lost wakeup, and  *)
(* the order and the loss of stanzas.                                      *)
(***************************************************************************)
EXTENDS XmlStream, SequenceFacts, FiniteSetTheorems, TLAPS

-----------------------------------------------------------------------------
(* Counting the elements of a sequence.                                    *)

\* The places of s where there is a member of V, and how many they are.
Places(s, V) == {i \in DOMAIN s : s[i] \in V}
Picks(s, V) == Cardinality(Places(s, V))

\* A sequence has finitely many places.
LEMMA PlacesFinite ==
    ASSUME NEW S, NEW s \in Seq(S), NEW V
    PROVE  IsFiniteSet(Places(s, V)) /\ Picks(s, V) \in Nat /\ Picks(s, V) <= Len(s)
<1>1. Len(s) \in Nat /\ DOMAIN s = 1 .. Len(s)
  BY LenProperties
<1>2. IsFiniteSet(1 .. Len(s)) /\ Cardinality(1 .. Len(s)) = Len(s)
  BY <1>1, FS_Interval
<1>3. Places(s, V) \in SUBSET (1 .. Len(s))
  BY <1>1 DEF Places
<1> QED BY <1>2, <1>3, FS_Subset, FS_CardinalityType DEF Picks

\* Members are counted in the parts of a sequence.
LEMMA PicksConcat ==
    ASSUME NEW S, NEW s \in Seq(S), NEW t \in Seq(S), NEW V
    PROVE  Picks(s \o t, V) = Picks(s, V) + Picks(t, V)
<1> DEFINE n == Len(s)
           A == Places(s, V)
           B == Places(t, V)
           C == {i + n : i \in B}
           f == [i \in B |-> i + n]
<1>1. /\ Len(s) \in Nat /\ DOMAIN s = 1 .. Len(s)
      /\ Len(t) \in Nat /\ DOMAIN t = 1 .. Len(t)
  BY LenProperties
<1>2. /\ s \o t \in Seq(S) /\ Len(s \o t) = Len(s) + Len(t)
      /\ \A i \in 1 .. Len(s) + Len(t) :
            (s \o t)[i] = IF i <= Len(s) THEN s[i] ELSE t[i - Len(s)]
  BY ConcatProperties
<1>3. DOMAIN (s \o t) = 1 .. Len(s) + Len(t)
  BY <1>2, LenProperties
<1>4. IsFiniteSet(A) /\ IsFiniteSet(B)
  BY PlacesFinite
<1>5. A \subseteq 1 .. n /\ B \subseteq 1 .. Len(t)
  BY <1>1 DEF Places
<1>6. IsFiniteSet(C) /\ Cardinality(C) = Cardinality(B)
  <2>1. f \in Bijection(B, C)
    <3>1. \A i, j \in B : f[i] = f[j] => i = j
      BY <1>1, <1>5
    <3> QED BY <3>1 DEF Bijection, Injection, Surjection, IsInjective
  <2>2. ExistsBijection(B, C)
    BY <2>1 DEF ExistsBijection
  <2> QED BY <1>4, <2>2, FS_Bijection
<1>7. A \cap C = {}
  BY <1>1, <1>5
<1>8. Places(s \o t, V) = A \cup C
  <2>1. ASSUME NEW i \in 1 .. Len(s) + Len(t)
        PROVE  i \in A \cup C <=> (s \o t)[i] \in V
    <3>1. CASE i <= n
      <4>1. i \notin C
        BY <3>1, <1>1, <1>5
      <4>2. i \in DOMAIN s /\ (s \o t)[i] = s[i]
        BY <3>1, <1>1, <1>2
      <4> QED BY <4>1, <4>2 DEF Places
    <3>2. CASE ~(i <= n)
      <4>1. i - n \in DOMAIN t /\ (s \o t)[i] = t[i - n] /\ i = (i - n) + n
        BY <3>2, <1>1, <1>2
      <4>2. i \notin A
        BY <3>2, <1>1, <1>5
      <4>3. i \in C <=> i - n \in B
        BY <3>2, <1>1, <1>5
      <4> QED BY <4>1, <4>2, <4>3 DEF Places
    <3> QED BY <3>1, <3>2
  <2>2. A \cup C \subseteq 1 .. Len(s) + Len(t)
    BY <1>1, <1>5
  <2> QED BY <2>1, <2>2, <1>3 DEF Places
<1>9. Cardinality(A) \in Nat /\ Cardinality(B) \in Nat
  BY <1>4, FS_CardinalityType
<1>10. Cardinality(A \cup C) = Cardinality(A) + Cardinality(C) - Cardinality(A \cap C)
  BY <1>4, <1>6, FS_Union
<1>11. Cardinality(A \cap C) = 0
  BY <1>7, FS_EmptySet
<1> QED BY <1>6, <1>8, <1>9, <1>10, <1>11 DEF Picks

\* Nothing is in the empty sequence, and one thing at most in a short one.
LEMMA PicksFew ==
    ASSUME NEW V
    PROVE  /\ Picks(<<>>, V) = 0
           /\ \A x : Picks(<<x>>, V) = IF x \in V THEN 1 ELSE 0
<1>1. Places(<<>>, V) = {}
  BY DEF Places
<1>2. ASSUME NEW x PROVE Places(<<x>>, V) = IF x \in V THEN {1} ELSE {}
  BY DEF Places
<1> QED BY <1>1, <1>2, FS_EmptySet, FS_Singleton DEF Picks

\* What an element is replaced by counts in its place.
LEMMA PicksTail ==
    ASSUME NEW S, NEW s \in Seq(S), s # <<>>, NEW V
    PROVE  Picks(s, V) = Picks(Tail(s), V) + (IF Head(s) \in V THEN 1 ELSE 0)
<1>1. Head(s) \in S /\ Tail(s) \in Seq(S) /\ <<Head(s)>> \in Seq(S)
  BY HeadTailProperties
<1>2. s = <<Head(s)>> \o Tail(s)
  OBVIOUS
<1>3. Picks(<<Head(s)>> \o Tail(s), V) = Picks(<<Head(s)>>, V) + Picks(Tail(s), V)
  BY <1>1, PicksConcat
<1>4. Picks(<<Head(s)>>, V) = IF Head(s) \in V THEN 1 ELSE 0
  BY PicksFew
<1>5. Picks(Tail(s), V) \in Nat
  BY <1>1, PlacesFinite
<1>6. Picks(s, V) = Picks(<<Head(s)>> \o Tail(s), V)
  BY <1>2
<1>7. CASE Head(s) \in V
  BY <1>3, <1>4, <1>5, <1>6, <1>7
<1>8. CASE Head(s) \notin V
  BY <1>3, <1>4, <1>5, <1>6, <1>8
<1> QED BY <1>7, <1>8

\* Members are counted up to an item and after it.
LEMMA PicksSplit ==
    ASSUME NEW S, NEW s \in Seq(S), NEW k \in 0 .. Len(s), NEW V
    PROVE  /\ SubSeq(s, 1, k) \in Seq(S) /\ SubSeq(s, k + 1, Len(s)) \in Seq(S)
           /\ s = SubSeq(s, 1, k) \o SubSeq(s, k + 1, Len(s))
           /\ Picks(s, V) = Picks(SubSeq(s, 1, k), V) + Picks(SubSeq(s, k + 1, Len(s)), V)
<1>1. Len(s) \in Nat /\ \A i \in 1 .. Len(s) : s[i] \in S
  BY LenProperties, ElementOfSeq
<1>2. SubSeq(s, 1, k) \in Seq(S)
  BY <1>1, SubSeqProperties
<1>3. SubSeq(s, k + 1, Len(s)) \in Seq(S)
  BY <1>1, SubSeqProperties
<1>4. SubSeq(s, 1, k) \o SubSeq(s, k + 1, Len(s)) = SubSeq(s, 1, Len(s))
  <2>1. 1 \in 1 .. Len(s) + 1 /\ k \in 1 - 1 .. Len(s) /\ Len(s) \in k .. Len(s)
    BY <1>1
  <2> QED BY <2>1, ConcatAdjacentSubSeq
<1>5. SubSeq(s, 1, Len(s)) = s
  BY SubSeqFull
<1>6. s = SubSeq(s, 1, k) \o SubSeq(s, k + 1, Len(s))
  BY <1>4, <1>5
<1>7. Picks(SubSeq(s, 1, k) \o SubSeq(s, k + 1, Len(s)), V)
        = Picks(SubSeq(s, 1, k), V) + Picks(SubSeq(s, k + 1, Len(s)), V)
  BY <1>2, <1>3, PicksConcat
<1>8. Picks(s, V) = Picks(SubSeq(s, 1, k) \o SubSeq(s, k + 1, Len(s)), V)
  BY <1>4, <1>5
<1> QED BY <1>2, <1>3, <1>6, <1>7, <1>8

-----------------------------------------------------------------------------
(* Stanzas and bytes.                                                      *)

\* Stanzas are counted like the members of a set.
LEMMA StanzasArePicks ==
    ASSUME NEW S, NEW s \in Seq(S)
    PROVE  StanzasIn(s) = Picks(s, {x \in S : x.t = "stanza"})
<1>1. \A i \in DOMAIN s : s[i] \in S
  BY LenProperties, ElementOfSeq
<1>2. {i \in DOMAIN s : s[i].t = "stanza"} = Places(s, {x \in S : x.t = "stanza"})
  BY <1>1 DEF Places
<1> QED BY <1>2 DEF StanzasIn, Picks

\* The stanzas of a sequence are those of its parts.
LEMMA StanzasConcat ==
    ASSUME NEW S, NEW s \in Seq(S), NEW t \in Seq(S)
    PROVE  /\ StanzasIn(s) \in Nat /\ StanzasIn(t) \in Nat /\ StanzasIn(s \o t) \in Nat
           /\ StanzasIn(s \o t) = StanzasIn(s) + StanzasIn(t)
<1> DEFINE V == {x \in S : x.t = "stanza"}
<1>1. s \o t \in Seq(S)
  BY ConcatProperties
<1>2. Picks(s \o t, V) = Picks(s, V) + Picks(t, V)
  BY PicksConcat
<1>3. /\ StanzasIn(s) = Picks(s, V) /\ StanzasIn(t) = Picks(t, V)
      /\ StanzasIn(s \o t) = Picks(s \o t, V)
  BY <1>1, StanzasArePicks
<1>4. Picks(s, V) \in Nat /\ Picks(t, V) \in Nat /\ Picks(s \o t, V) \in Nat
  BY <1>1, PlacesFinite
<1> QED BY <1>2, <1>3, <1>4

\* There is one at most in a sequence of one element.
LEMMA StanzasFew ==
    /\ StanzasIn(<<>>) = 0
    /\ \A x : StanzasIn(<<x>>) = IF x.t = "stanza" THEN 1 ELSE 0
<1>1. <<>> \in Seq({})
  OBVIOUS
<1>2. StanzasIn(<<>>) = Picks(<<>>, {x \in {} : x.t = "stanza"})
  BY <1>1, StanzasArePicks
<1>3. StanzasIn(<<>>) = 0
  BY <1>2, PicksFew
<1>4. ASSUME NEW x PROVE StanzasIn(<<x>>) = IF x.t = "stanza" THEN 1 ELSE 0
  <2>1. <<x>> \in Seq({x})
    OBVIOUS
  <2>2. StanzasIn(<<x>>) = Picks(<<x>>, {y \in {x} : y.t = "stanza"})
    BY <2>1, StanzasArePicks
  <2>3. Picks(<<x>>, {y \in {x} : y.t = "stanza"})
          = IF x \in {y \in {x} : y.t = "stanza"} THEN 1 ELSE 0
    BY PicksFew
  <2> QED BY <2>2, <2>3
<1> QED BY <1>3, <1>4

\* One more, or one less.
LEMMA StanzasAppend ==
    ASSUME NEW S, NEW s \in Seq(S), NEW x \in S
    PROVE  StanzasIn(Append(s, x)) = StanzasIn(s) + (IF x.t = "stanza" THEN 1 ELSE 0)
<1>1. <<x>> \in Seq(S) /\ Append(s, x) = s \o <<x>>
  BY AppendIsConcat
<1>2. StanzasIn(s \o <<x>>) = StanzasIn(s) + StanzasIn(<<x>>)
  BY <1>1, StanzasConcat
<1>3. StanzasIn(<<x>>) = IF x.t = "stanza" THEN 1 ELSE 0
  BY StanzasFew
<1>4. StanzasIn(Append(s, x)) = StanzasIn(s \o <<x>>)
  BY <1>1
<1> QED BY <1>2, <1>3, <1>4

\* The first element of a sequence is counted with it.
LEMMA StanzasTail ==
    ASSUME NEW S, NEW s \in Seq(S), s # <<>>
    PROVE  /\ StanzasIn(Tail(s)) \in Nat
           /\ StanzasIn(s) = StanzasIn(Tail(s)) + (IF Head(s).t = "stanza" THEN 1 ELSE 0)
<1>1. Head(s) \in S /\ Tail(s) \in Seq(S) /\ <<Head(s)>> \in Seq(S)
  BY HeadTailProperties
<1>2. s = <<Head(s)>> \o Tail(s)
  OBVIOUS
<1>3. /\ StanzasIn(Tail(s)) \in Nat
      /\ StanzasIn(<<Head(s)>> \o Tail(s)) = StanzasIn(<<Head(s)>>) + StanzasIn(Tail(s))
  BY <1>1, StanzasConcat
<1>4. StanzasIn(<<Head(s)>>) = IF Head(s).t = "stanza" THEN 1 ELSE 0
  BY StanzasFew
<1>5. StanzasIn(s) = StanzasIn(<<Head(s)>> \o Tail(s))
  BY <1>2
<1>6. CASE Head(s).t = "stanza"
  BY <1>3, <1>4, <1>5, <1>6
<1>7. CASE Head(s).t # "stanza"
  BY <1>3, <1>4, <1>5, <1>7
<1> QED BY <1>6, <1>7

\* The stanzas of a sequence are those up to an element and those after it.
LEMMA StanzasSplit ==
    ASSUME NEW S, NEW s \in Seq(S), NEW k \in 0 .. Len(s)
    PROVE  /\ StanzasIn(SubSeq(s, 1, k)) \in Nat
           /\ StanzasIn(SubSeq(s, k + 1, Len(s))) \in Nat
           /\ StanzasIn(s) = StanzasIn(SubSeq(s, 1, k)) + StanzasIn(SubSeq(s, k + 1, Len(s)))
<1>1. /\ SubSeq(s, 1, k) \in Seq(S) /\ SubSeq(s, k + 1, Len(s)) \in Seq(S)
      /\ s = SubSeq(s, 1, k) \o SubSeq(s, k + 1, Len(s))
  BY PicksSplit
<1>2. /\ StanzasIn(SubSeq(s, 1, k)) \in Nat
      /\ StanzasIn(SubSeq(s, k + 1, Len(s))) \in Nat
      /\ StanzasIn(SubSeq(s, 1, k) \o SubSeq(s, k + 1, Len(s)))
           = StanzasIn(SubSeq(s, 1, k)) + StanzasIn(SubSeq(s, k + 1, Len(s)))
  BY <1>1, StanzasConcat
<1>3. StanzasIn(s) = StanzasIn(SubSeq(s, 1, k) \o SubSeq(s, k + 1, Len(s)))
  BY <1>1
<1> QED BY <1>2, <1>3

\* The items that have a byte b.
Reaching(b) == {x \in TrackItem : b <= x.size}

\* Bytes are counted by the first byte of an item and the second.
LEMMA BytesArePicks ==
    ASSUME NEW s \in Seq(TrackItem)
    PROVE  /\ Bytes(s) \in Nat
           /\ Bytes(s) = Picks(s, Reaching(1)) + Picks(s, Reaching(2))
<1> DEFINE A == Places(s, Reaching(1))
           B == Places(s, Reaching(2))
           D == {ib \in (DOMAIN s) \X (1 .. 2) : ib[2] <= s[ib[1]].size}
<1>1. \A i \in DOMAIN s : s[i] \in TrackItem
  BY LenProperties, ElementOfSeq
<1>2. IsFiniteSet(A) /\ IsFiniteSet(B)
  BY PlacesFinite
<1>3. D = (A \X {1}) \cup (B \X {2})
  <2>1. ASSUME NEW i \in DOMAIN s
        PROVE  (i \in A <=> 1 <= s[i].size) /\ (i \in B <=> 2 <= s[i].size)
    BY <1>1 DEF Places, Reaching
  <2>2. ASSUME NEW d \in D PROVE d \in (A \X {1}) \cup (B \X {2})
    <3>1. PICK i \in DOMAIN s, b \in 1 .. 2 : d = <<i, b>> /\ b <= s[i].size
      OBVIOUS
    <3> QED BY <2>1, <3>1
  <2>3. ASSUME NEW d \in (A \X {1}) \cup (B \X {2}) PROVE d \in D
    <3>1. \/ \E i \in A : d = <<i, 1>>
          \/ \E i \in B : d = <<i, 2>>
      OBVIOUS
    <3>2. A \subseteq DOMAIN s /\ B \subseteq DOMAIN s
      BY DEF Places
    <3> QED BY <2>1, <3>1, <3>2
  <2> QED BY <2>2, <2>3
<1>4. /\ IsFiniteSet(A \X {1}) /\ Cardinality(A \X {1}) = Cardinality(A) * 1
      /\ IsFiniteSet(B \X {2}) /\ Cardinality(B \X {2}) = Cardinality(B) * 1
  <2> HIDE DEF A, B, D
  <2>1. IsFiniteSet({1}) /\ Cardinality({1}) = 1 /\ IsFiniteSet({2}) /\ Cardinality({2}) = 1
    BY FS_Singleton
  <2>2. IsFiniteSet(A \X {1}) /\ Cardinality(A \X {1}) = Cardinality(A) * Cardinality({1})
    BY <1>2, <2>1, FS_Product
  <2>3. IsFiniteSet(B \X {2}) /\ Cardinality(B \X {2}) = Cardinality(B) * Cardinality({2})
    BY <1>2, <2>1, FS_Product
  <2> QED BY <2>1, <2>2, <2>3
<1>5. (A \X {1}) \cap (B \X {2}) = {}
  OBVIOUS
<1>6. Cardinality((A \X {1}) \cup (B \X {2})) =
        Cardinality(A \X {1}) + Cardinality(B \X {2}) - Cardinality((A \X {1}) \cap (B \X {2}))
  BY <1>4, FS_Union
<1>7. Cardinality((A \X {1}) \cap (B \X {2})) = 0
  BY <1>5, FS_EmptySet
<1>8. Cardinality(A) \in Nat /\ Cardinality(B) \in Nat
  BY <1>2, FS_CardinalityType
<1>9. Cardinality(D) = Cardinality((A \X {1}) \cup (B \X {2}))
  BY <1>3
<1>10. /\ Bytes(s) = Cardinality(D) /\ Picks(s, Reaching(1)) = Cardinality(A)
       /\ Picks(s, Reaching(2)) = Cardinality(B)
  BY DEF Bytes, Picks
<1> HIDE DEF A, B, D
<1> QED BY <1>4, <1>6, <1>7, <1>8, <1>9, <1>10
\* The bytes of a sequence are those of its parts.
LEMMA BytesConcat ==
    ASSUME NEW s \in Seq(TrackItem), NEW t \in Seq(TrackItem)
    PROVE  /\ Bytes(s) \in Nat /\ Bytes(t) \in Nat /\ Bytes(s \o t) \in Nat
           /\ Bytes(s \o t) = Bytes(s) + Bytes(t)
<1>1. s \o t \in Seq(TrackItem)
  BY ConcatProperties
<1>2. /\ Picks(s \o t, Reaching(1)) = Picks(s, Reaching(1)) + Picks(t, Reaching(1))
      /\ Picks(s \o t, Reaching(2)) = Picks(s, Reaching(2)) + Picks(t, Reaching(2))
  BY PicksConcat
<1>3. /\ Picks(s, Reaching(1)) \in Nat /\ Picks(t, Reaching(1)) \in Nat
      /\ Picks(s, Reaching(2)) \in Nat /\ Picks(t, Reaching(2)) \in Nat
  BY PlacesFinite
<1>4. /\ Bytes(s) \in Nat /\ Bytes(s) = Picks(s, Reaching(1)) + Picks(s, Reaching(2))
      /\ Bytes(t) \in Nat /\ Bytes(t) = Picks(t, Reaching(1)) + Picks(t, Reaching(2))
      /\ Bytes(s \o t) \in Nat
      /\ Bytes(s \o t) = Picks(s \o t, Reaching(1)) + Picks(s \o t, Reaching(2))
  BY <1>1, BytesArePicks
<1> QED BY <1>2, <1>3, <1>4

\* The bytes of one item are its size.
LEMMA BytesFew ==
    /\ Bytes(<<>>) = 0
    /\ \A x \in TrackItem : Bytes(<<x>>) = x.size
<1>1. <<>> \in Seq(TrackItem)
  OBVIOUS
<1>2. Bytes(<<>>) = Picks(<<>>, Reaching(1)) + Picks(<<>>, Reaching(2))
  BY <1>1, BytesArePicks
<1>3. Picks(<<>>, Reaching(1)) = 0 /\ Picks(<<>>, Reaching(2)) = 0
  BY PicksFew
<1>4. ASSUME NEW x \in TrackItem PROVE Bytes(<<x>>) = x.size
  <2>1. <<x>> \in Seq(TrackItem)
    OBVIOUS
  <2>2. Bytes(<<x>>) = Picks(<<x>>, Reaching(1)) + Picks(<<x>>, Reaching(2))
    BY <2>1, BytesArePicks
  <2>3. /\ Picks(<<x>>, Reaching(1)) = IF x \in Reaching(1) THEN 1 ELSE 0
        /\ Picks(<<x>>, Reaching(2)) = IF x \in Reaching(2) THEN 1 ELSE 0
    BY PicksFew
  <2>4. x.size \in 1 .. 2 /\ (x \in Reaching(1) <=> 1 <= x.size) /\ (x \in Reaching(2) <=> 2 <= x.size)
    BY DEF TrackItem, Reaching
  <2>5. CASE x.size = 1
    BY <2>2, <2>3, <2>4, <2>5
  <2>6. CASE x.size = 2
    BY <2>2, <2>3, <2>4, <2>6
  <2> QED BY <2>4, <2>5, <2>6
<1> QED BY <1>2, <1>3, <1>4

\* The first item of a sequence is counted with it.
LEMMA BytesTail ==
    ASSUME NEW s \in Seq(TrackItem), s # <<>>
    PROVE  Bytes(Tail(s)) \in Nat /\ Bytes(s) = Head(s).size + Bytes(Tail(s))
<1>1. Head(s) \in TrackItem /\ Tail(s) \in Seq(TrackItem) /\ <<Head(s)>> \in Seq(TrackItem)
  BY HeadTailProperties
<1>2. s = <<Head(s)>> \o Tail(s)
  OBVIOUS
<1>3. /\ Bytes(Tail(s)) \in Nat
      /\ Bytes(<<Head(s)>> \o Tail(s)) = Bytes(<<Head(s)>>) + Bytes(Tail(s))
  BY <1>1, BytesConcat
<1>4. Bytes(<<Head(s)>>) = Head(s).size
  BY <1>1, BytesFew
<1>5. Bytes(s) = Bytes(<<Head(s)>> \o Tail(s))
  BY <1>2
<1> QED BY <1>3, <1>4, <1>5

\* The bytes of a sequence are those up to an item and those after it.
LEMMA BytesSplit ==
    ASSUME NEW s \in Seq(TrackItem), NEW k \in 0 .. Len(s)
    PROVE  /\ Bytes(SubSeq(s, 1, k)) \in Nat /\ Bytes(SubSeq(s, k + 1, Len(s))) \in Nat
           /\ Bytes(s) = Bytes(SubSeq(s, 1, k)) + Bytes(SubSeq(s, k + 1, Len(s)))
<1>1. /\ SubSeq(s, 1, k) \in Seq(TrackItem) /\ SubSeq(s, k + 1, Len(s)) \in Seq(TrackItem)
      /\ s = SubSeq(s, 1, k) \o SubSeq(s, k + 1, Len(s))
  BY PicksSplit
<1>2. /\ Bytes(SubSeq(s, 1, k)) \in Nat /\ Bytes(SubSeq(s, k + 1, Len(s))) \in Nat
      /\ Bytes(SubSeq(s, 1, k) \o SubSeq(s, k + 1, Len(s)))
           = Bytes(SubSeq(s, 1, k)) + Bytes(SubSeq(s, k + 1, Len(s)))
  BY <1>1, BytesConcat
<1>3. Bytes(s) = Bytes(SubSeq(s, 1, k) \o SubSeq(s, k + 1, Len(s)))
  BY <1>1
<1> QED BY <1>2, <1>3

-----------------------------------------------------------------------------
(* What the bytes that are reported cover.                                 *)

\* A bounded nonempty set of numbers has a greatest one.
LEMMA GreatestNumber ==
    ASSUME NEW n \in Nat, NEW T, T \subseteq 0 .. n, T # {}
    PROVE  Max(T) \in T /\ \A x \in T : x <= Max(T)
<1> DEFINE D == {n - x : x \in T}
<1>1. D \subseteq Nat /\ D # {}
  <2>1. \A x \in T : x \in Nat /\ x <= n /\ n - x \in Nat
    OBVIOUS
  <2> QED BY <2>1
<1>2. PICK d \in D : \A c \in D : d <= c
  BY <1>1, LeastNumber
<1>3. PICK m \in T : d = n - m
  OBVIOUS
<1>4. \A x \in T : m >= x
  BY <1>2, <1>3
<1>5. Max(T) \in T /\ \A x \in T : Max(T) >= x
  BY <1>4 DEF Max
<1> QED BY <1>5

\* Replacing the first element leaves the others.
LEMMA FirstChanged ==
    ASSUME NEW S, NEW s \in Seq(S), s # <<>>, NEW y \in S, NEW q, q = [s EXCEPT ![1] = y]
    PROVE  q \in Seq(S) /\ q # <<>> /\ Head(q) = y /\ Tail(q) = Tail(s)
<1>1. 1 \in 1 .. Len(s) /\ Len(s) \in Nat
  BY EmptySeq, LenProperties
<1>2. /\ q \in Seq(S) /\ Len(q) = Len(s)
      /\ \A j \in 1 .. Len(s) : q[j] = IF j = 1 THEN y ELSE s[j]
  BY <1>1, ExceptSeq
<1>3. q # <<>>
  BY <1>1, <1>2, EmptySeq
<1>4. Head(q) = y
  BY <1>1, <1>2, <1>3
<1>5. /\ Tail(s) \in Seq(S) /\ Len(Tail(s)) = Len(s) - 1
      /\ \A i \in 1 .. Len(Tail(s)) : Tail(s)[i] = s[i + 1]
  BY HeadTailProperties
<1>6. /\ Tail(q) \in Seq(S) /\ Len(Tail(q)) = Len(q) - 1
      /\ \A i \in 1 .. Len(Tail(q)) : Tail(q)[i] = q[i + 1]
  BY <1>2, <1>3, HeadTailProperties
<1>7. \A i \in 1 .. Len(Tail(s)) : Tail(q)[i] = Tail(s)[i]
  BY <1>1, <1>2, <1>5, <1>6
<1>8. Tail(q) = Tail(s)
  BY <1>1, <1>2, <1>5, <1>6, <1>7, SeqEqual
<1> QED BY <1>2, <1>3, <1>4, <1>8

\* The elements up to a place and after it.
LEMMA PartsOfSeq ==
    ASSUME NEW S, NEW s \in Seq(S), NEW k \in 0 .. Len(s)
    PROVE  /\ Len(SubSeq(s, 1, k)) = k
           /\ \A i \in 1 .. k : SubSeq(s, 1, k)[i] = s[i]
           /\ Len(SubSeq(s, k + 1, Len(s))) = Len(s) - k
           /\ \A i \in 1 .. Len(s) - k : SubSeq(s, k + 1, Len(s))[i] = s[k + i]
<1>1. Len(s) \in Nat /\ \A i \in 1 .. Len(s) : s[i] \in S
  BY LenProperties, ElementOfSeq
<1>2. /\ Len(SubSeq(s, 1, k)) = IF 1 <= k THEN k - 1 + 1 ELSE 0
      /\ \A i \in 1 .. k - 1 + 1 : SubSeq(s, 1, k)[i] = s[1 + i - 1]
  BY <1>1, SubSeqProperties
<1>3. Len(SubSeq(s, k + 1, Len(s))) = IF k + 1 <= Len(s) THEN Len(s) - (k + 1) + 1 ELSE 0
  BY <1>1, SubSeqProperties
<1>4. \A i \in 1 .. Len(s) - (k + 1) + 1 : SubSeq(s, k + 1, Len(s))[i] = s[k + 1 + i - 1]
  BY <1>1, SubSeqProperties
<1>5. \A i \in 1 .. Len(s) - k : i \in 1 .. Len(s) - (k + 1) + 1 /\ k + 1 + i - 1 = k + i
  BY <1>1
<1>6. \A i \in 1 .. k : i \in 1 .. k - 1 + 1 /\ 1 + i - 1 = i
  BY <1>1
<1>7. Len(SubSeq(s, k + 1, Len(s))) = Len(s) - k
  BY <1>1, <1>3
<1>8. Len(SubSeq(s, 1, k)) = k
  BY <1>1, <1>2
<1> QED BY <1>2, <1>4, <1>5, <1>6, <1>7, <1>8

\* The items of s are among those of t, but for their sizes.
Fewer(s, t) == \A i \in DOMAIN s : \E j \in DOMAIN t : s[i].t = t[j].t

\* The n bytes end some items, and leave the others their remaining bytes.
Divides(track, n, w) ==
    /\ w.done \in Seq(TrackItem) /\ w.track \in Seq(TrackItem)
    /\ Bytes(w.track) = Bytes(track) - n
    /\ StanzasIn(w.done) \in Nat /\ StanzasIn(w.track) \in Nat
    /\ StanzasIn(w.done) + StanzasIn(w.track) = StanzasIn(track)
    /\ Fewer(w.done, track) /\ Fewer(w.track, track)

\* Bytes that are reported, no more than were written, are credited in full.
LEMMA WrittenDivides ==
    ASSUME NEW track \in Seq(TrackItem), NEW n \in Nat, n <= Bytes(track)
    PROVE  Divides(track, n, Written(track, n))
<1> DEFINE whole == {k \in 0 .. Len(track) : Bytes(SubSeq(track, 1, k)) <= n}
           w == Written(track, n)
<1>0. Len(track) \in Nat /\ Bytes(track) \in Nat /\ DOMAIN track = 1 .. Len(track)
  BY LenProperties, BytesArePicks
<1>1. 0 \in whole
  <2>1. SubSeq(track, 1, 0) = <<>>
    BY SubSeqEmpty
  <2>2. Bytes(SubSeq(track, 1, 0)) = 0
    BY <2>1, BytesFew
  <2> QED BY <1>0, <2>2
<1>2. Max(whole) \in whole /\ \A x \in whole : x <= Max(whole)
  BY <1>0, <1>1, GreatestNumber
<1>3. PICK k \in 0 .. Len(track) : /\ k = Max(whole)
                                   /\ Bytes(SubSeq(track, 1, k)) <= n
                                   /\ \A x \in whole : x <= k
  BY <1>2
<1>4. PICK done, rest : done = SubSeq(track, 1, k) /\ rest = SubSeq(track, k + 1, Len(track))
  OBVIOUS
<1>5. /\ done \in Seq(TrackItem) /\ rest \in Seq(TrackItem) /\ track = done \o rest
  BY <1>4, PicksSplit
<1>6. /\ Bytes(done) \in Nat /\ Bytes(rest) \in Nat /\ Bytes(track) = Bytes(done) + Bytes(rest)
  BY <1>4, BytesSplit
<1>7. /\ StanzasIn(done) \in Nat /\ StanzasIn(rest) \in Nat
      /\ StanzasIn(track) = StanzasIn(done) + StanzasIn(rest)
  BY <1>4, StanzasSplit
<1>8. PICK left \in Nat : left = n - Bytes(done)
  <2>1. Bytes(done) <= n
    BY <1>3, <1>4
  <2>2. n - Bytes(done) \in Nat
    BY <1>6, <2>1
  <2> QED BY <2>2
<1>9. Fewer(done, track) /\ \A i \in DOMAIN rest : \E j \in DOMAIN track : rest[i] = track[j]
  <2>1. /\ Len(done) = k /\ \A i \in 1 .. k : done[i] = track[i]
        /\ Len(rest) = Len(track) - k
        /\ \A i \in 1 .. Len(track) - k : rest[i] = track[k + i]
    BY <1>4, PartsOfSeq
  <2>2. DOMAIN done = 1 .. k /\ DOMAIN rest = 1 .. Len(track) - k
    BY <1>5, <2>1, LenProperties
  <2>3. \A i \in 1 .. Len(track) - k : k + i \in DOMAIN track
    BY <1>0
  <2>4. \A i \in 1 .. k : i \in DOMAIN track
    BY <1>0
  <2> QED BY <2>1, <2>2, <2>3, <2>4 DEF Fewer
<1>10. w.done = done
  BY <1>3, <1>4 DEF Written
<1>11. w.track = IF rest = <<>> THEN <<>> ELSE [rest EXCEPT ![1].size = @ - left]
  BY <1>3, <1>4, <1>8 DEF Written
<1>12. CASE rest = <<>>
  <2>1. w.track = <<>> /\ Bytes(<<>>) = 0 /\ StanzasIn(<<>>) = 0
    BY <1>11, <1>12, BytesFew, StanzasFew
  <2>2. Fewer(<<>>, track)
    BY DEF Fewer
  <2>3. Bytes(track) - n = 0
    <3>1. Bytes(rest) = 0
      BY <1>12, <2>1
    <3>2. Bytes(done) <= n
      BY <1>3, <1>4
    <3> QED BY <1>6, <3>1, <3>2
  <2>4. StanzasIn(rest) = 0
    BY <1>12, <2>1
  <2>5. <<>> \in Seq(TrackItem)
    OBVIOUS
  <2>6. Bytes(w.track) = Bytes(track) - n
    BY <2>1, <2>3
  <2>7. StanzasIn(w.track) = 0 /\ StanzasIn(w.done) = StanzasIn(done)
    BY <1>10, <2>1
  <2>8. StanzasIn(w.done) + StanzasIn(w.track) = StanzasIn(track)
    BY <1>7, <2>4, <2>7
  <2>9. w.done \in Seq(TrackItem) /\ w.track \in Seq(TrackItem)
    BY <1>5, <1>10, <2>1, <2>5
  <2>10. Fewer(w.done, track) /\ Fewer(w.track, track)
    BY <1>9, <1>10, <2>1, <2>2
  <2> QED BY <1>7, <2>6, <2>7, <2>8, <2>9, <2>10 DEF Divides
<1>13. CASE rest # <<>>
  <2>1. k + 1 \in 1 .. Len(track) /\ rest[1] = track[k + 1] /\ rest[1] \in TrackItem
    <3>1. k < Len(track)
      BY <1>0, <1>4, <1>13, SubSeqEmpty
    <3>2. \A i \in 1 .. Len(track) : track[i] \in TrackItem
      BY ElementOfSeq
    <3>3. \A i \in 1 .. Len(track) - (k + 1) + 1 : rest[i] = track[k + 1 + i - 1]
      BY <1>0, <1>4, <3>2, SubSeqProperties
    <3> QED BY <1>0, <3>1, <3>2, <3>3
  <2>2. PICK x \in TrackItem : x = rest[1]
    BY <2>1
  <2>3. left < x.size
    <3>1. k + 1 \notin whole
      BY <1>3
    <3>2. Bytes(SubSeq(track, 1, k + 1)) > n
      <4>1. Bytes(SubSeq(track, 1, k + 1)) \in Nat
        BY <2>1, BytesSplit
      <4> QED BY <2>1, <3>1, <4>1
    <3>3. SubSeq(track, 1, k + 1) = done \o <<x>>
      <4>1. 1 \in 1 .. Len(track) /\ k + 1 \in 1 .. Len(track) /\ (k + 1) - 1 = k
        BY <2>1, <1>0
      <4>2. SubSeq(track, 1, k + 1) = SubSeq(track, 1, (k + 1) - 1) \o <<track[k + 1]>>
        BY <4>1, SubSeqRecursiveSecond
      <4> QED BY <1>4, <2>1, <2>2, <4>1, <4>2
    <3>4. Bytes(done \o <<x>>) = Bytes(done) + Bytes(<<x>>) /\ Bytes(<<x>>) = x.size
      <4>1. <<x>> \in Seq(TrackItem)
        OBVIOUS
      <4> QED BY <1>5, <4>1, BytesConcat, BytesFew
    <3>5. x.size \in Nat
      BY DEF TrackItem
    <3>6. Bytes(done) + x.size > n
      BY <3>2, <3>3, <3>4
    <3> QED BY <1>6, <1>8, <3>5, <3>6
  <2>4. PICK y \in TrackItem : y = [x EXCEPT !.size = @ - left] /\ y.t = x.t
                               /\ y.size = x.size - left
    <3>1. x.size \in 1 .. 2 /\ x.size - left \in 1 .. 2
      BY <1>8, <2>3 DEF TrackItem
    <3>2. [x EXCEPT !.size = @ - left] \in TrackItem
      BY <3>1 DEF TrackItem
    <3>3. /\ [x EXCEPT !.size = @ - left].t = x.t
          /\ [x EXCEPT !.size = @ - left].size = x.size - left
      BY DEF TrackItem
    <3> QED BY <3>2, <3>3
  <2>5. w.track = [rest EXCEPT ![1] = y]
    BY <1>11, <1>13, <2>2, <2>4
  <2>6. PICK q : q = w.track
    OBVIOUS
  <2>7. q \in Seq(TrackItem) /\ q # <<>> /\ Head(q) = y /\ Tail(q) = Tail(rest)
    BY <1>5, <1>13, <2>5, <2>6, FirstChanged
  <2>8. Head(rest) = x
    BY <1>13, <2>2
  <2>9. /\ Bytes(Tail(rest)) \in Nat /\ Bytes(rest) = x.size + Bytes(Tail(rest))
        /\ Bytes(q) = y.size + Bytes(Tail(rest))
    BY <1>5, <1>13, <2>7, <2>8, BytesTail
  <2>10. Bytes(q) = Bytes(track) - n
    <3>1. x.size \in Nat
      BY DEF TrackItem
    <3> QED BY <1>6, <1>8, <2>4, <2>9, <3>1
  <2>11. StanzasIn(q) = StanzasIn(rest)
    <3>1. StanzasIn(q) = StanzasIn(Tail(q)) + (IF Head(q).t = "stanza" THEN 1 ELSE 0)
      BY <2>7, StanzasTail
    <3>2. StanzasIn(rest) = StanzasIn(Tail(rest)) + (IF Head(rest).t = "stanza" THEN 1 ELSE 0)
      BY <1>5, <1>13, StanzasTail
    <3>3. Head(q).t = Head(rest).t /\ Tail(q) = Tail(rest)
      BY <2>4, <2>7, <2>8
    <3>4. StanzasIn(Tail(q)) = StanzasIn(Tail(rest))
      BY <3>3
    <3>5. (IF Head(q).t = "stanza" THEN 1 ELSE 0) = (IF Head(rest).t = "stanza" THEN 1 ELSE 0)
      BY <3>3
    <3> QED BY <3>1, <3>2, <3>4, <3>5
  <2>12. Fewer(q, track)
    <3>1. /\ Len(rest) \in Nat /\ DOMAIN rest = 1 .. Len(rest) /\ 1 \in 1 .. Len(rest)
      BY <1>5, <1>13, EmptySeq, LenProperties
    <3>2. q = [rest EXCEPT ![1] = y]
      BY <2>5, <2>6
    <3>3. DOMAIN q = DOMAIN rest /\ \A i \in DOMAIN rest : q[i] = IF i = 1 THEN y ELSE rest[i]
      <4> HIDE DEF w
      <4> QED BY <3>2
    <3>4. \A i \in DOMAIN q : q[i].t = rest[i].t
      BY <2>2, <2>4, <3>3
    <3> QED BY <1>9, <3>3, <3>4 DEF Fewer
  <2> QED BY <1>5, <1>6, <1>7, <1>9, <1>10, <2>6, <2>7, <2>10, <2>11, <2>12 DEF Divides
<1> QED BY <1>12, <1>13

-----------------------------------------------------------------------------
(* Elements, items and the records of a stream.                            *)

\* The items an end tracks for the elements it writes.
Tracks(els) == [i \in DOMAIN els |-> Track(els[i])]

\* Every element has an item of its kind.
LEMMA TrackOfElement ==
    ASSUME NEW el \in Element
    PROVE  /\ Track(el) \in TrackItem
           /\ Track(el).t = "stanza" <=> el.t = "stanza"
           /\ Track(el).t = "close" <=> el.t = "close"
<1>1. el.t \in {"stanza", "bad", "error", "close"}
  BY DEF Element
<1> QED BY <1>1 DEF Track, Size, TrackItem

\* The elements that an end makes itself.
LEMMA MadeElements ==
    /\ El("close") \in Element /\ El("close").t = "close"
    /\ El("error") \in Element /\ El("error").t = "error"
    /\ El("bad") \in Element /\ El("bad").t = "bad"
    /\ \A n \in Stanzas : Stanza(n) \in Element /\ Stanza(n).t = "stanza" /\ Stanza(n).n = n
  BY DEF El, Stanza, Element

\* The items of a sequence of elements.
LEMMA TracksOfElements ==
    ASSUME NEW els \in Seq(Element)
    PROVE  /\ Tracks(els) \in Seq(TrackItem)
           /\ Len(Tracks(els)) = Len(els)
           /\ \A i \in 1 .. Len(els) : Tracks(els)[i] = Track(els[i])
           /\ StanzasIn(Tracks(els)) = StanzasIn(els)
<1>1. Len(els) \in Nat /\ DOMAIN els = 1 .. Len(els) /\ \A i \in 1 .. Len(els) : els[i] \in Element
  BY LenProperties, ElementOfSeq
<1>2. Tracks(els) = [i \in 1 .. Len(els) |-> Track(els[i])]
  BY <1>1 DEF Tracks
<1>3. \A i \in 1 .. Len(els) : Track(els[i]) \in TrackItem
  BY <1>1, TrackOfElement
<1>4. Tracks(els) \in Seq(TrackItem) /\ Len(Tracks(els)) = Len(els)
  BY <1>1, <1>2, <1>3
<1>5. \A i \in 1 .. Len(els) : Tracks(els)[i].t = "stanza" <=> els[i].t = "stanza"
  BY <1>1, <1>2, TrackOfElement
<1>6. {i \in DOMAIN Tracks(els) : Tracks(els)[i].t = "stanza"}
        = {i \in DOMAIN els : els[i].t = "stanza"}
  BY <1>1, <1>2, <1>5
<1> QED BY <1>2, <1>4, <1>6 DEF StanzasIn

\* A step takes the first parsed element, or none.
LEMMA PoppedType ==
    ASSUME NEW s \in StreamState
    PROVE  /\ Popped(s) \in StreamState
           /\ Popped(s) = [s EXCEPT !.parser = Popped(s).parser]
           /\ Parses(s) => /\ Popped(s).parser = Tail(s.parser)
                           /\ Elem(s) = Head(s.parser) /\ Elem(s) \in Element
           /\ ~Parses(s) => Popped(s) = s /\ Elem(s).t = "none"
<1>1. CASE Parses(s)
  <2>1. Tail(s.parser) \in Seq(Element) /\ Head(s.parser) \in Element
    BY <1>1, HeadTailProperties DEF Parses, StreamState
  <2> QED BY <1>1, <2>1 DEF Popped, Elem, StreamState
<1>2. CASE ~Parses(s)
  <2>1. Popped(s) = s /\ Elem(s).t = "none"
    BY <1>2 DEF Popped, Elem, El
  <2>2. s = [s EXCEPT !.parser = s.parser]
    BY DEF StreamState
  <2> QED BY <1>2, <2>1, <2>2
<1> QED BY <1>1, <1>2

\* A stream that is put in the place of an end's.
LEMMA PutView ==
    ASSUME TypeOK, NEW e \in Ends, NEW t \in StreamState, Put(e, t)
    PROVE  /\ st' \in [Ends -> StreamState] /\ st'[e] = t
           /\ \A o \in Ends : o # e => st'[o] = st[o]
  BY DEF TypeOK, Put

\* The two ends.
LEMMA TwoEnds ==
    ASSUME NEW e \in Ends
    PROVE  /\ Other(e) \in Ends /\ Other(e) # e /\ Other(Other(e)) = e
           /\ \A x \in Ends : x = e \/ x = Other(e)
  BY DEF Ends, Other

\* What writing elements does.
Emits(e, t, els) ==
    /\ t \in StreamState
    /\ st' \in [Ends -> StreamState] /\ st'[e] = t
    /\ \A o \in Ends : o # e => st'[o] = st[o]
    /\ wire' \in [Ends -> Seq(Element)] /\ wire'[e] = wire[e]
    /\ \/ wire'[Other(e)] = wire[Other(e)] /\ (Gone(Other(e)) \/ e \in broken)
       \/ wire'[Other(e)] = wire[Other(e)] \o els
    /\ unreported' \in [Ends -> Nat]
    /\ e \notin broken => unreported'[e] = unreported[e] + Bytes(Tracks(els))
    /\ \A o \in Ends : o # e => unreported'[o] = unreported[o]

\* Writing elements keeps the types, and appends them to the wire and the queue.
LEMMA EmitView ==
    ASSUME TypeOK, NEW e \in Ends, NEW s \in StreamState, NEW els \in Seq(Element), Emit(e, s, els)
    PROVE  Emits(e, [s EXCEPT !.track = s.track \o Tracks(els), !.notify = {}], els)
<1> DEFINE t == [s EXCEPT !.track = s.track \o Tracks(els), !.notify = {}]
<1>1. Tracks(els) \in Seq(TrackItem) /\ Bytes(Tracks(els)) \in Nat
  BY TracksOfElements, BytesArePicks
<1>2. t \in StreamState
  <2>1. s.track \o Tracks(els) \in Seq(TrackItem)
    BY <1>1, ConcatProperties DEF StreamState
  <2> QED BY <2>1 DEF StreamState
<1>3. Put(e, t)
  BY DEF Emit, Tracks
<1>4. /\ st' \in [Ends -> StreamState] /\ st'[e] = t
      /\ \A o \in Ends : o # e => st'[o] = st[o]
  BY <1>2, <1>3, PutView
<1>5. Other(e) \in Ends /\ Other(e) # e
  BY TwoEnds
<1>6. /\ wire' \in [Ends -> Seq(Element)] /\ wire'[e] = wire[e]
      /\ \/ wire'[Other(e)] = wire[Other(e)] /\ (Gone(Other(e)) \/ e \in broken)
         \/ wire'[Other(e)] = wire[Other(e)] \o els
  <2>1. wire[Other(e)] \o els \in Seq(Element)
    BY <1>5, ConcatProperties DEF TypeOK
  <2>2. wire' = IF Gone(Other(e)) \/ e \in broken THEN wire
                ELSE [wire EXCEPT ![Other(e)] = wire[Other(e)] \o els]
    BY DEF Emit
  <2> QED BY <1>5, <2>1, <2>2 DEF TypeOK
<1>7. /\ unreported' \in [Ends -> Nat]
      /\ e \notin broken => unreported'[e] = unreported[e] + Bytes(Tracks(els))
      /\ \A o \in Ends : o # e => unreported'[o] = unreported[o]
  <2>1. unreported' = IF e \in broken THEN unreported
                      ELSE [unreported EXCEPT ![e] = @ + Bytes(Tracks(els))]
    BY DEF Emit, Tracks
  <2> QED BY <1>1, <2>1 DEF TypeOK
<1> QED BY <1>2, <1>4, <1>6, <1>7 DEF Emits

\* The end of a stream.
Finishes(e, signal) ==
    /\ ResetState(st[e]) \in StreamState
    /\ st' \in [Ends -> StreamState] /\ st'[e] = ResetState(st[e])
    /\ \A o \in Ends : o # e => st'[o] = st[o]
    /\ wire' \in [Ends -> Seq(Element)] /\ wire'[e] = <<>>
    /\ \E k \in 0 .. Len(wire[Other(e)]) : wire'[Other(e)] = SubSeq(wire[Other(e)], 1, k)
    /\ unreported' \in [Ends -> Nat]
    /\ \A o \in Ends : o # e => unreported'[o] = unreported[o]
    /\ broken' = broken \ {e} /\ running' = "none"
    /\ ended' = [ended EXCEPT ![e] = Append(ended[e], signal)]
    /\ UNCHANGED <<breaks, directs, sent, got>>

\* A stream that was reset keeps what came in and the calls that are queued.
LEMMA ResetView ==
    ASSUME NEW s \in StreamState
    PROVE  /\ ResetState(s) \in StreamState
           /\ ResetState(s).state = "Idle" /\ ResetState(s).proto = "Reset"
           /\ ResetState(s).in = s.in /\ ResetState(s).timer = s.timer
           /\ ResetState(s).parser = <<>> /\ ResetState(s).sendList = <<>>
           /\ ResetState(s).notify = {} /\ ResetState(s).stanzasWritten = 0
           /\ ResetState(s).posted = s.posted /\ ~ResetState(s).doShutdown
<1> DEFINE f == Fresh
<1>1. /\ f \in StreamState /\ f.parser = <<>> /\ f.sendList = <<>> /\ f.stanzasWritten = 0
      /\ ~f.doShutdown
  <2>1. <<>> \in Seq(Element) /\ <<>> \in Seq(TrackItem) /\ <<>> \in Seq(Stanzas)
    OBVIOUS
  <2> QED BY <2>1 DEF Fresh, StreamState
<1>2. ResetState(s) = [f EXCEPT !.state = "Idle", !.proto = "Reset", !.notify = {}, !.in = s.in,
                                !.posted = s.posted, !.timer = s.timer]
  BY DEF ResetState
<1> HIDE DEF f
<1> DEFINE t == ResetState(s)
<1>3. /\ t.state = "Idle" /\ t.proto = "Reset" /\ t.notify = {} /\ t.in = s.in
      /\ t.posted = s.posted /\ t.timer = s.timer
      /\ t.parser = f.parser /\ t.sendList = f.sendList
      /\ t.stanzasWritten = f.stanzasWritten /\ t.doShutdown = f.doShutdown
  BY <1>1, <1>2 DEF StreamState
<1>4. t \in StreamState
  BY <1>1, <1>2 DEF StreamState
<1> QED BY <1>1, <1>3, <1>4

\* Part of a wire is a wire.
LEMMA Prefix ==
    ASSUME NEW S, NEW s \in Seq(S), NEW k \in 0 .. Len(s)
    PROVE  SubSeq(s, 1, k) \in Seq(S)
  BY PicksSplit

\* Closing the socket of an end cuts the wire to the other end at most.
LEMMA FinishView ==
    ASSUME TypeOK, NEW e \in Ends, NEW signal, Finish(e, signal)
    PROVE  Finishes(e, signal)
<1> DEFINE o == Other(e)
<1>1. o \in Ends /\ o # e
  BY TwoEnds
<1>2. /\ ResetState(st[e]) \in StreamState
      /\ st' \in [Ends -> StreamState] /\ st'[e] = ResetState(st[e])
      /\ \A x \in Ends : x # e => st'[x] = st[x]
  <2>1. st[e] \in StreamState
    BY DEF TypeOK
  <2> QED BY <2>1, ResetView, PutView DEF Finish
<1>3. wire[o] \in Seq(Element) /\ Len(wire[o]) \in Nat /\ Len(st[e].track) \in Nat
  BY <1>1, LenProperties DEF TypeOK, StreamState
<1>4. PICK least \in 0 .. Len(wire[o]) :
        /\ \E k \in (IF e = "server" THEN {Len(wire[o])} ELSE least .. Len(wire[o])) :
              wire' = [wire EXCEPT ![e] = <<>>, ![o] = SubSeq(wire[o], 1, k)]
        /\ unreported' = [unreported EXCEPT ![e] = 0]
  <2>1. PICK least : /\ least = IF e = "server" \/ Len(wire[o]) < Len(st[e].track) THEN 0
                                ELSE Len(wire[o]) - Len(st[e].track)
                     /\ \E k \in (IF e = "server" THEN {Len(wire[o])} ELSE least .. Len(wire[o])) :
                           wire' = [wire EXCEPT ![e] = <<>>, ![o] = SubSeq(wire[o], 1, k)]
                     /\ unreported' = [unreported EXCEPT ![e] = 0]
    BY DEF Finish, CloseSocket
  <2>2. least = IF e = "server" \/ Len(wire[o]) < Len(st[e].track) THEN 0
                ELSE Len(wire[o]) - Len(st[e].track)
    BY <2>1
  <2>3. least \in 0 .. Len(wire[o])
    <3>1. PICK m \in Nat, n \in Nat : m = Len(wire[o]) /\ n = Len(st[e].track)
      BY <1>3
    <3> HIDE DEF o
    <3>2. least = IF e = "server" \/ m < n THEN 0 ELSE m - n
      BY <2>2, <3>1
    <3>3. least \in 0 .. m
      BY <3>2
    <3> QED BY <3>1, <3>3
  <2> QED BY <2>1, <2>3
<1>5. PICK k \in 0 .. Len(wire[o]) : wire' = [wire EXCEPT ![e] = <<>>, ![o] = SubSeq(wire[o], 1, k)]
  <2>1. PICK k \in (IF e = "server" THEN {Len(wire[o])} ELSE least .. Len(wire[o])) :
           wire' = [wire EXCEPT ![e] = <<>>, ![o] = SubSeq(wire[o], 1, k)]
    BY <1>4
  <2>2. k \in 0 .. Len(wire[o])
    BY <1>3
  <2> QED BY <2>1, <2>2
<1>6. SubSeq(wire[o], 1, k) \in Seq(Element)
  BY <1>3, Prefix
<1>7. /\ wire' \in [Ends -> Seq(Element)] /\ wire'[e] = <<>>
      /\ wire'[o] = SubSeq(wire[o], 1, k)
  <2> HIDE DEF o
  <2>1. PICK c \in Seq(Element) : c = SubSeq(wire[o], 1, k)
    BY <1>6
  <2>2. wire' = [wire EXCEPT ![e] = <<>>, ![o] = c]
    BY <1>5, <2>1
  <2>3. wire \in [Ends -> Seq(Element)] /\ <<>> \in Seq(Element)
    BY DEF TypeOK
  <2> QED BY <1>1, <2>1, <2>2, <2>3
<1>8. /\ unreported' \in [Ends -> Nat]
      /\ \A x \in Ends : x # e => unreported'[x] = unreported[x]
  BY <1>4 DEF TypeOK
<1> QED BY <1>2, <1>7, <1>8 DEF Finish, Finishes

-----------------------------------------------------------------------------
(* What each step and each event changes.                                  *)

Closings == {<<El("close")>>, <<El("error"), El("close")>>}

\* The streams that these changes make of s.
Closing(s, els, b, c, d) ==
    [s EXCEPT !.parser = Popped(s).parser, !.proto = "Closing",
              !.peerClosed = b, !.closeError = c, !.doShutdown = d,
              !.track = s.track \o Tracks(els), !.notify = {}]
Sending(s, el) ==
    [s EXCEPT !.parser = Popped(s).parser, !.sendList = Tail(s.sendList),
              !.stanzasPending = @ + (IF el.t = "stanza" THEN 1 ELSE 0),
              !.track = s.track \o Tracks(<<el>>), !.notify = {}]
Announced(s) ==
    [s EXCEPT !.parser = Popped(s).parser, !.stanzasWritten = @ - 1, !.notify = {}, !.told = @ + 1]
Taken(s) ==
    [s EXCEPT !.parser = Tail(s.parser), !.in = Append(s.in, Head(s.parser).n), !.notify = {}]
Ending(s) == [s EXCEPT !.notify = Needs(s), !.in = <<>>]
EndingLater(s) == [s EXCEPT !.notify = Needs(s), !.timer = @ \/ s.in # <<>>]
Receiving(s, els) == [s EXCEPT !.parser = s.parser \o els]
Crediting(s, w) ==
    [s EXCEPT !.track = w.track, !.stanzasPending = @ - StanzasIn(w.done),
              !.stanzasWritten = @ + StanzasIn(w.done),
              !.closeWritten = @ \/ \E i \in DOMAIN w.done : w.done[i].t = "close"]
Called(s) == [s EXCEPT !.posted = @ - 1]
Reading(s) == [s EXCEPT !.timer = FALSE, !.in = <<>>]
Writing(s, n) == [s EXCEPT !.sendList = Append(s.sendList, Stanza(n)), !.posted = @ + 1]
WritingDirect(s) == [s EXCEPT !.sendList = Append(s.sendList, El("bad"))]
ShuttingDown(s) == [s EXCEPT !.state = "Closing", !.doShutdown = TRUE]

\* The closing tag is written, after an error or not.
ClosingStep(e) ==
    /\ st[e].proto = "Open"
    /\ \E els \in Closings, b, c, d \in BOOLEAN :
          Emits(e, Closing(st[e], els, b, c, d), els)
    /\ UNCHANGED <<running, broken, breaks, hist>>

\* The first item of the list is written.
SendingStep(e) ==
    /\ st[e].proto = "Open" /\ ~st[e].doShutdown /\ st[e].stanzasWritten = 0
    /\ st[e].sendList # <<>>
    /\ LET el == Head(st[e].sendList) IN
       Emits(e, Sending(st[e], el), <<el>>)
    /\ UNCHANGED <<running, broken, breaks, hist>>

\* The stream of e becomes t and nothing else changes but the history.
Becomes(e, t) ==
    /\ t \in StreamState
    /\ st' \in [Ends -> StreamState] /\ st'[e] = t
    /\ \A o \in Ends : o # e => st'[o] = st[o]

\* A stanza is announced as written.
SentStep(e) ==
    /\ st[e].proto = "Open" /\ st[e].stanzasWritten > 0
    /\ Becomes(e, Announced(st[e]))
    /\ UNCHANGED <<running, net, hist>>

\* A stanza that was parsed is kept for the application.
ElementStep(e) ==
    /\ st[e].proto = "Open" /\ st[e].stanzasWritten = 0 /\ st[e].sendList = <<>>
    /\ st[e].parser # <<>> /\ Head(st[e].parser) \in Element /\ Head(st[e].parser).t = "stanza"
    /\ Becomes(e, Taken(st[e]))
    /\ UNCHANGED <<running, net, hist>>

\* The loop ends.
EndStep(e) ==
    /\ \/ /\ st[e].proto = "Open" /\ st[e].parser = <<>> /\ ~st[e].doShutdown
          /\ st[e].stanzasWritten = 0 /\ st[e].sendList = <<>>
       \/ st[e].proto = "Closing" /\ ~st[e].closeWritten
       \/ st[e].proto = "Reset"
    /\ \/ /\ e = "server"
          /\ Becomes(e, Ending(st[e]))
          /\ got' = [got EXCEPT ![e] = got[e] \o st[e].in]
       \/ /\ e = "client"
          /\ Becomes(e, EndingLater(st[e]))
          /\ UNCHANGED got
    /\ running' = "none"
    /\ UNCHANGED <<net, directs, sent, ended>>

\* The stream ends.
FinishStep(e) ==
    /\ st[e].proto # "Reset"
    /\ \E signal \in Signal : Finishes(e, signal)

\* A step that writes the closing tag.
LEMMA ClosingView ==
    ASSUME TypeOK, NEW e \in Ends, st[e].proto = "Open",
           NEW els \in Closings, NEW b \in BOOLEAN, NEW c \in BOOLEAN, NEW d \in BOOLEAN,
           NEW r, r = [st[e] EXCEPT !.parser = Popped(st[e]).parser, !.proto = "Closing",
                                    !.peerClosed = b, !.closeError = c, !.doShutdown = d],
           Emit(e, r, els), UNCHANGED <<running, broken, breaks, hist>>
    PROVE  ClosingStep(e)
<1> DEFINE s == st[e]
           p == Popped(s)
           t == Closing(s, els, b, c, d)
<1>1. s \in StreamState /\ p.parser \in Seq(Element)
  <2>1. s \in StreamState
    BY DEF TypeOK
  <2>2. p \in StreamState
    BY <2>1, PoppedType
  <2> QED BY <2>1, <2>2 DEF StreamState
<1>2. r \in StreamState
  <2> HIDE DEF s, p
  <2>1. r = [s EXCEPT !.parser = p.parser, !.proto = "Closing",
                      !.peerClosed = b, !.closeError = c, !.doShutdown = d]
    BY DEF s, p
  <2> QED BY <1>1, <2>1 DEF StreamState
<1>3. els \in Seq(Element)
  <2>1. El("close") \in Element /\ El("error") \in Element
    BY MadeElements
  <2>2. PICK x \in Element, y \in Element : x = El("close") /\ y = El("error")
    BY <2>1
  <2>3. els = <<x>> \/ els = <<y, x>>
    BY <2>2 DEF Closings
  <2>4. <<x>> \in Seq(Element)
    OBVIOUS
  <2>5. <<y, x>> \in Seq(Element)
    OBVIOUS
  <2> QED BY <2>3, <2>4, <2>5
<1>4. Emits(e, [r EXCEPT !.track = r.track \o Tracks(els), !.notify = {}], els)
  BY <1>2, <1>3, EmitView
<1>5. [r EXCEPT !.track = r.track \o Tracks(els), !.notify = {}] = t
  <2>1. r.track = s.track
    BY <1>1 DEF StreamState
  <2> HIDE DEF s, p
  <2>2. r = [s EXCEPT !.parser = p.parser, !.proto = "Closing",
                      !.peerClosed = b, !.closeError = c, !.doShutdown = d]
    BY DEF s, p
  <2>3. t = [s EXCEPT !.parser = p.parser, !.proto = "Closing",
                      !.peerClosed = b, !.closeError = c, !.doShutdown = d,
                      !.track = s.track \o Tracks(els), !.notify = {}]
    BY DEF Closing, p
  <2> HIDE DEF t
  <2> QED BY <1>1, <2>1, <2>2, <2>3 DEF StreamState
<1>6. Emits(e, t, els)
  BY <1>4, <1>5
<1> QED BY <1>6 DEF ClosingStep

\* A step that ends the stream.
LEMMA FinishIsEnd ==
    ASSUME TypeOK, NEW e \in Ends, st[e].proto # "Reset", NEW signal \in Signal, Finish(e, signal)
    PROVE  FinishStep(e)
<1>1. Finishes(e, signal)
  BY FinishView
<1> QED BY <1>1 DEF FinishStep

\* An end makes no step but these.
LEMMA StepKinds ==
    ASSUME TypeOK, NEW e \in Ends, Step(e)
    PROVE  /\ running = e
           /\ \/ ClosingStep(e) \/ SendingStep(e) \/ SentStep(e) \/ ElementStep(e)
              \/ EndStep(e) \/ FinishStep(e)
<1> DEFINE s == st[e]
           p == Popped(s)
<1>0. running = e
  BY DEF Step
<1>1. /\ s \in StreamState /\ p \in StreamState /\ p = [s EXCEPT !.parser = p.parser]
      /\ Parses(s) => p.parser = Tail(s.parser) /\ Elem(s) = Head(s.parser) /\ Elem(s) \in Element
      /\ ~Parses(s) => p = s /\ Elem(s).t = "none"
  BY PoppedType DEF TypeOK
<1>1a. s \in StreamState /\ p.parser \in Seq(Element)
  BY <1>1 DEF StreamState
<1>1b. /\ p.sendList = s.sendList /\ p.stanzasPending = s.stanzasPending
       /\ p.stanzasWritten = s.stanzasWritten /\ p.told = s.told
  <2>1. PICK q \in Seq(Element) : q = p.parser
    BY <1>1a
  <2>2. p = [s EXCEPT !.parser = q]
    BY <1>1, <2>1
  <2> HIDE DEF p, s
  <2> QED BY <1>1a, <2>2 DEF StreamState
<1>2. SUFFICES \/ ClosingStep(e) \/ SendingStep(e) \/ SentStep(e) \/ ElementStep(e)
               \/ EndStep(e) \/ FinishStep(e)
  BY <1>0
<1>3. CASE StepDocumentClose(e)
  <2>0. Parses(s) /\ s.proto = "Open"
    BY <1>1, <1>3 DEF StepDocumentClose, Parses
  <2>1. CASE e = "server" /\ Emit(e, PeerClose(s), <<El("close")>>)
             /\ UNCHANGED <<running, broken, breaks, hist>>
    <3>1. PICK r : r = PeerClose(s)
      OBVIOUS
    <3>2. r = [s EXCEPT !.parser = p.parser, !.proto = "Closing", !.peerClosed = TRUE,
                        !.closeError = s.closeError, !.doShutdown = s.doShutdown]
      BY <1>1, <2>0, <3>1 DEF PeerClose, StreamState
    <3>3. s.closeError \in BOOLEAN /\ s.doShutdown \in BOOLEAN /\ <<El("close")>> \in Closings
      BY <1>1 DEF StreamState, Closings
    <3> QED BY <2>0, <2>1, <3>1, <3>2, <3>3, ClosingView
  <2>2. CASE e = "client" /\ Finish(e, "connectionClosed")
    BY <2>0, <2>2, FinishIsEnd DEF Signal
  <2> QED BY <1>3, <2>1, <2>2 DEF StepDocumentClose
<1>4. CASE StepParseError(e)
  <2>0. Parses(s) /\ s.proto = "Open"
    BY <1>1, <1>4 DEF StepParseError, Parses
  <2>1. CASE e = "server" /\ Emit(e, [p EXCEPT !.proto = "Closing", !.closeError = TRUE],
                                  <<El("error"), El("close")>>)
             /\ UNCHANGED <<running, broken, breaks, hist>>
    <3>1. PICK r : r = [p EXCEPT !.proto = "Closing", !.closeError = TRUE]
      OBVIOUS
    <3>2. r = [s EXCEPT !.parser = p.parser, !.proto = "Closing", !.peerClosed = s.peerClosed,
                        !.closeError = TRUE, !.doShutdown = s.doShutdown]
      BY <1>1, <2>0, <3>1 DEF Popped, StreamState
    <3>3. /\ s.peerClosed \in BOOLEAN /\ s.doShutdown \in BOOLEAN
          /\ <<El("error"), El("close")>> \in Closings
      BY <1>1 DEF StreamState, Closings
    <3> QED BY <2>0, <2>1, <3>1, <3>2, <3>3, ClosingView
  <2>2. CASE e = "client" /\ Finish(e, "error")
    BY <2>0, <2>2, FinishIsEnd DEF Signal
  <2> QED BY <1>4, <2>1, <2>2 DEF StepParseError
<1>5. CASE StepShutdown(e)
  <2>1. s.proto = "Open" /\ Emit(e, [p EXCEPT !.doShutdown = FALSE, !.proto = "Closing"],
                                 <<El("close")>>)
        /\ UNCHANGED <<running, broken, breaks, hist>>
    BY <1>5 DEF StepShutdown, InDoStep
  <2>2. PICK r : r = [p EXCEPT !.doShutdown = FALSE, !.proto = "Closing"]
    OBVIOUS
  <2>3. r = [s EXCEPT !.parser = p.parser, !.proto = "Closing", !.peerClosed = s.peerClosed,
                      !.closeError = s.closeError, !.doShutdown = FALSE]
    BY <1>1, <2>1, <2>2 DEF Popped, StreamState
  <2>4. s.peerClosed \in BOOLEAN /\ s.closeError \in BOOLEAN /\ <<El("close")>> \in Closings
    BY <1>1 DEF StreamState, Closings
  <2> QED BY <2>1, <2>2, <2>3, <2>4, ClosingView
<1>6. CASE StepStreamError(e)
  BY <1>6, FinishIsEnd DEF StepStreamError, InDoStep, Signal
<1>7. CASE StepStanzaSent(e)
  <2>1. /\ s.proto = "Open" /\ s.stanzasWritten > 0 /\ UNCHANGED <<running, net, hist>>
        /\ Put(e, [p EXCEPT !.stanzasWritten = @ - 1, !.notify = {}, !.told = @ + 1])
    BY <1>7 DEF StepStanzaSent, InDoStep
  <2>2. PICK t : t = [p EXCEPT !.stanzasWritten = @ - 1, !.notify = {}, !.told = @ + 1]
    OBVIOUS
  <2>3. /\ t \in StreamState
        /\ t = [s EXCEPT !.parser = p.parser, !.stanzasWritten = @ - 1, !.notify = {},
                         !.told = @ + 1]
    <3>1. s.stanzasWritten \in Nat /\ s.stanzasWritten - 1 \in Nat /\ s.told + 1 \in Nat
      <4>1. s.stanzasWritten \in Nat /\ s.told \in Nat
        BY <1>1 DEF StreamState
      <4> HIDE DEF s, p
      <4> QED BY <2>1, <4>1
    <3> HIDE DEF s, p
    <3>2. t = [s EXCEPT !.parser = p.parser, !.stanzasWritten = @ - 1, !.notify = {},
                        !.told = @ + 1]
      BY <1>1, <1>1b, <2>2 DEF StreamState
    <3> QED BY <1>1a, <3>1, <3>2 DEF StreamState
  <2>4. Becomes(e, t)
    BY <2>1, <2>2, <2>3, PutView DEF Becomes
  <2> QED BY <2>1, <2>3, <2>4 DEF SentStep, Announced
<1>8. CASE StepSend(e)
  <2>1. /\ s.proto = "Open" /\ ~s.doShutdown /\ s.stanzasWritten = 0 /\ s.sendList # <<>>
        /\ UNCHANGED <<running, broken, breaks, hist>>
        /\ Emit(e, SendFirst(s), <<Head(s.sendList)>>)
    BY <1>8 DEF StepSend, InDoStep
  <2>2. PICK el : el = Head(s.sendList)
    OBVIOUS
  <2>3. el \in Element /\ Tail(s.sendList) \in Seq(Element) /\ <<el>> \in Seq(Element)
    <3>1. s.sendList \in Seq(Element)
      BY <1>1 DEF StreamState
    <3>2. el \in Element /\ Tail(s.sendList) \in Seq(Element)
      BY <2>1, <2>2, <3>1, HeadTailProperties
    <3> QED BY <3>2
  <2>4. PICK r : r = SendFirst(s)
    OBVIOUS
  <2>5. PICK k \in {0, 1} : k = IF el.t = "stanza" THEN 1 ELSE 0
    OBVIOUS
  <2>6. r = [p EXCEPT !.sendList = Tail(p.sendList), !.stanzasPending = @ + k]
    BY <2>2, <2>4, <2>5 DEF SendFirst
  <2>7. /\ r \in StreamState
        /\ r = [s EXCEPT !.parser = p.parser, !.sendList = Tail(s.sendList),
                         !.stanzasPending = @ + k]
    <3>1. s.stanzasPending + k \in Nat
      <4>1. s.stanzasPending \in Nat
        BY <1>1a DEF StreamState
      <4> HIDE DEF s
      <4> QED BY <4>1
    <3> HIDE DEF s, p
    <3>2. r = [s EXCEPT !.parser = p.parser, !.sendList = Tail(s.sendList),
                        !.stanzasPending = @ + k]
      BY <1>1, <1>1b, <2>6 DEF StreamState
    <3>3. PICK l \in Seq(Element) : l = Tail(s.sendList)
      BY <2>3
    <3>4. r = [s EXCEPT !.parser = p.parser, !.sendList = l, !.stanzasPending = @ + k]
      BY <3>2, <3>3
    <3>5. r \in StreamState
      BY <1>1a, <3>1, <3>4 DEF StreamState
    <3> QED BY <3>2, <3>5
  <2>8. Emits(e, [r EXCEPT !.track = r.track \o Tracks(<<el>>), !.notify = {}], <<el>>)
    BY <2>1, <2>2, <2>3, <2>4, <2>7, EmitView
  <2>9. [r EXCEPT !.track = r.track \o Tracks(<<el>>), !.notify = {}]
          = [s EXCEPT !.parser = p.parser, !.sendList = Tail(s.sendList),
                      !.stanzasPending = @ + (IF el.t = "stanza" THEN 1 ELSE 0),
                      !.track = s.track \o Tracks(<<el>>), !.notify = {}]
    BY <1>1, <2>5, <2>7 DEF StreamState
  <2> QED BY <2>1, <2>2, <2>8, <2>9 DEF SendingStep, Sending
<1>9. CASE StepElement(e)
  <2>1. /\ s.proto = "Open" /\ s.stanzasWritten = 0 /\ s.sendList = <<>> /\ Elem(s).t = "stanza"
        /\ UNCHANGED <<running, net, hist>>
        /\ Put(e, [p EXCEPT !.in = Append(@, Elem(s).n), !.notify = {}])
    BY <1>9 DEF StepElement, InDoStep
  <2>2. Parses(s) /\ p.parser = Tail(s.parser) /\ Elem(s) = Head(s.parser) /\ Elem(s) \in Element
    BY <1>1, <2>1
  <2>3. s.parser # <<>>
    BY <2>2 DEF Parses
  <2>4. PICK n \in Stanzas : n = Elem(s).n
    BY <2>1, <2>2 DEF Element
  <2>5. PICK t : t = [p EXCEPT !.in = Append(@, n), !.notify = {}]
    OBVIOUS
  <2>6. /\ t \in StreamState
        /\ t = [s EXCEPT !.parser = Tail(s.parser), !.in = Append(s.in, n), !.notify = {}]
    <3>1. Append(s.in, n) \in Seq(Stanzas)
      BY <1>1, AppendProperties DEF StreamState
    <3> QED BY <1>1, <2>2, <2>5, <3>1 DEF StreamState
  <2>7. Put(e, t)
    BY <2>1, <2>4, <2>5
  <2>8. Becomes(e, t)
    BY <2>6, <2>7, PutView DEF Becomes
  <2> QED BY <2>1, <2>2, <2>3, <2>4, <2>6, <2>8 DEF ElementStep, Taken
<1>10. CASE StepCloseFinished(e)
  <2>1. s.proto # "Reset" /\ \E signal \in Signal : Finish(e, signal)
    BY <1>10 DEF StepCloseFinished, Signal
  <2> QED BY <2>1, FinishIsEnd
<1>11. CASE LoopEnds(e)
  <2>1. Needs(s) \in SUBSET {"NSend", "NRecv"}
    BY DEF Needs
  <2>2. \/ /\ s.proto = "Open" /\ s.parser = <<>> /\ ~s.doShutdown
           /\ s.stanzasWritten = 0 /\ s.sendList = <<>>
        \/ s.proto = "Closing" /\ ~s.closeWritten
        \/ s.proto = "Reset"
    BY <1>11 DEF LoopEnds, Parses
  <2>3. running' = "none" /\ UNCHANGED <<net, directs, sent, ended>>
    BY <1>11 DEF LoopEnds
  <2>4. CASE e = "server" /\ Put(e, [s EXCEPT !.notify = Needs(s), !.in = <<>>])
             /\ got' = [got EXCEPT ![e] = @ \o s.in]
    <3>1. PICK t : t = [s EXCEPT !.notify = Needs(s), !.in = <<>>]
      OBVIOUS
    <3>2. t \in StreamState
      <4>1. <<>> \in Seq(Stanzas)
        OBVIOUS
      <4>2. PICK m \in SUBSET {"NSend", "NRecv"} : m = Needs(s)
        BY <2>1
      <4> HIDE DEF s
      <4> QED BY <1>1a, <3>1, <4>1, <4>2 DEF StreamState
    <3>3. Becomes(e, t)
      BY <2>4, <3>1, <3>2, PutView DEF Becomes
    <3> QED BY <2>2, <2>3, <2>4, <3>1, <3>3 DEF EndStep, Ending, EndingLater
  <2>5. CASE e = "client" /\ Put(e, [s EXCEPT !.notify = Needs(s), !.timer = @ \/ s.in # <<>>])
             /\ UNCHANGED got
    <3>1. PICK t : t = [s EXCEPT !.notify = Needs(s), !.timer = @ \/ s.in # <<>>]
      OBVIOUS
    <3>2. t \in StreamState
      <4>1. PICK m \in SUBSET {"NSend", "NRecv"} : m = Needs(s)
        BY <2>1
      <4> HIDE DEF s
      <4> QED BY <1>1a, <3>1, <4>1 DEF StreamState
    <3>3. Becomes(e, t)
      BY <2>5, <3>1, <3>2, PutView DEF Becomes
    <3> QED BY <2>2, <2>3, <2>5, <3>1, <3>3 DEF EndStep, Ending, EndingLater
  <2> QED BY <1>11, <2>4, <2>5 DEF LoopEnds
<1> QED BY <1>3, <1>4, <1>5, <1>6, <1>7, <1>8, <1>9, <1>10, <1>11 DEF Step

\* An end is idle when its protocol was reset, and then its application was told;
\* nobody writes more than the bound.
Shape == \A e \in Ends :
    /\ st[e].state = "Idle" <=> st[e].proto = "Reset"
    /\ ended[e] = <<>> <=> st[e].state # "Idle"
    /\ sent[e] <= MaxSent(e)

\* A queued call runs the loop.
PostedStep(e) ==
    /\ st[e].posted > 0
    /\ Becomes(e, Called(st[e]))
    /\ running' = e
    /\ UNCHANGED <<net, hist>>

\* Data arrives.
ReadStep(e) ==
    /\ ~Gone(e)
    /\ \E k \in 1 .. Len(wire[e]) :
        /\ Becomes(e, Receiving(st[e], SubSeq(wire[e], 1, k)))
        /\ wire' = [wire EXCEPT ![e] = SubSeq(wire[e], k + 1, Len(wire[e]))]
    /\ RunIf(e, "NRecv" \in st[e].notify)
    /\ UNCHANGED <<unreported, broken, breaks, hist>>

\* Bytes are reported.
WrittenStep(e) ==
    /\ ~Gone(e)
    /\ \E n \in 1 .. unreported[e] : \E w :
        /\ Divides(st[e].track, n, w)
        /\ Becomes(e, Crediting(st[e], w))
        /\ unreported' = [unreported EXCEPT ![e] = unreported[e] - n]
    /\ RunIf(e, "NSend" \in st[e].notify)
    /\ UNCHANGED <<wire, broken, breaks, hist>>

\* The application reads.
TimerStep(e) ==
    /\ st[e].timer
    /\ Becomes(e, Reading(st[e]))
    /\ got' = [got EXCEPT ![e] = got[e] \o st[e].in]
    /\ UNCHANGED <<running, net, directs, sent, ended>>

\* The application writes a stanza.
WriteStep(e) ==
    /\ st[e].state = "Active" /\ sent[e] + 1 \in Stanzas /\ sent[e] < MaxSent(e)
    /\ Becomes(e, Writing(st[e], sent[e] + 1))
    /\ sent' = [sent EXCEPT ![e] = sent[e] + 1]
    /\ UNCHANGED <<running, net, directs, got, ended>>

\* The application writes text that does not parse.
DirectStep(e) ==
    /\ e = "client" /\ st[e].state = "Active"
    /\ Becomes(e, WritingDirect(st[e]))
    /\ directs' = directs + 1 /\ running' = e
    /\ UNCHANGED <<net, sent, got, ended>>

\* The application closes the stream.
CloseStep(e) ==
    /\ e = "client" /\ st[e].state = "Active"
    /\ Becomes(e, ShuttingDown(st[e]))
    /\ running' = e
    /\ UNCHANGED <<net, hist>>

\* The socket of an end fails.
FailStep(e) ==
    /\ ~Gone(e) /\ breaks' = breaks + 1
    /\ wire' = [o \in Ends |-> <<>>]
    /\ unreported' = [unreported EXCEPT ![e] = 0]
    /\ \/ /\ e = "client" /\ Becomes(e, ResetState(st[e]))
          /\ ended' = [ended EXCEPT ![e] = Append(ended[e], "error")]
          /\ UNCHANGED broken
       \/ /\ e = "server" /\ broken' = broken \cup {e}
          /\ UNCHANGED <<st, ended>>
    /\ UNCHANGED <<running, directs, sent, got>>

\* Nothing else happens between the loops.
LEMMA EventKinds ==
    ASSUME TypeOK, Shape, BytesAccounted, NEW e \in Ends, Event(e) \/ Application(e) \/ Fails(e)
    PROVE  \/ PostedStep(e) \/ ReadStep(e) \/ WrittenStep(e) \/ TimerStep(e)
           \/ WriteStep(e) \/ DirectStep(e) \/ CloseStep(e)
           \/ ~Gone(e) /\ FinishStep(e)
           \/ FailStep(e)
<1> DEFINE s == st[e]
<1>1. /\ s \in StreamState /\ wire[e] \in Seq(Element) /\ unreported[e] \in Nat
      /\ sent[e] \in Nat
  BY DEF TypeOK
<1>2. CASE RunPosted(e)
  <2>1. s.posted \in Nat
    BY <1>1 DEF StreamState
  <2>2. PICK k \in Nat : k = s.posted - 1
    <3> HIDE DEF s
    <3>1. s.posted > 0
      BY <1>2 DEF RunPosted, s
    <3> QED BY <2>1, <3>1
  <2>3. PICK t : t = [s EXCEPT !.posted = k]
    OBVIOUS
  <2>4. t \in StreamState
    BY <1>1, <2>3 DEF StreamState
  <2>5. t = [s EXCEPT !.posted = @ - 1]
    BY <2>2, <2>3
  <2>6. Becomes(e, t)
    BY <1>2, <2>4, <2>5, PutView DEF RunPosted, Becomes
  <2> QED BY <1>2, <2>5, <2>6 DEF RunPosted, PostedStep, Called
<1>3. CASE ReadyRead(e)
  <2>1. PICK k \in 1 .. Len(wire[e]) :
            /\ Put(e, [s EXCEPT !.parser = @ \o SubSeq(wire[e], 1, k)])
            /\ wire' = [wire EXCEPT ![e] = SubSeq(@, k + 1, Len(@))]
    BY <1>3 DEF ReadyRead
  <2>2. s.parser \o SubSeq(wire[e], 1, k) \in Seq(Element)
    <3>1. k \in 0 .. Len(wire[e])
      BY <1>1, LenProperties
    <3>2. SubSeq(wire[e], 1, k) \in Seq(Element) /\ s.parser \in Seq(Element)
      BY <1>1, <3>1, Prefix DEF StreamState
    <3> QED BY <3>2, ConcatProperties
  <2>3. PICK t : t = [s EXCEPT !.parser = s.parser \o SubSeq(wire[e], 1, k)]
    OBVIOUS
  <2>4. t \in StreamState
    BY <1>1, <2>2, <2>3 DEF StreamState
  <2>5. Becomes(e, t)
    BY <2>1, <2>3, <2>4, PutView DEF Becomes
  <2>6. wire' = [wire EXCEPT ![e] = SubSeq(wire[e], k + 1, Len(wire[e]))]
    BY <2>1
  <2> QED BY <1>3, <2>3, <2>5, <2>6 DEF ReadyRead, ReadStep, Receiving
<1>4. CASE BytesWritten(e)
  <2>1. PICK n \in 1 .. unreported[e] :
            /\ Put(e, Credited(s, n))
            /\ unreported' = [unreported EXCEPT ![e] = @ - n]
    BY <1>4 DEF BytesWritten
  <2>2. /\ s.track \in Seq(TrackItem) /\ n \in Nat /\ n <= Bytes(s.track)
        /\ s.stanzasPending = StanzasIn(s.track)
    BY <1>1, <1>4 DEF BytesWritten, BytesAccounted, StreamState
  <2>3. PICK w : w = Written(s.track, n) /\ Divides(s.track, n, w)
    BY <2>2, WrittenDivides
  <2>4. PICK k \in Nat, m \in Nat : /\ k = StanzasIn(w.done) /\ m = s.stanzasPending - k
                                    /\ w.track \in Seq(TrackItem)
    <3>1. /\ StanzasIn(w.done) \in Nat /\ StanzasIn(w.track) \in Nat
          /\ StanzasIn(w.done) + StanzasIn(w.track) = s.stanzasPending
          /\ w.track \in Seq(TrackItem)
      BY <2>2, <2>3 DEF Divides
    <3>2. s.stanzasPending - StanzasIn(w.done) = StanzasIn(w.track)
      <4> HIDE DEF s
      <4> QED BY <3>1
    <3> QED BY <3>1, <3>2
  <2>5. PICK c \in BOOLEAN : c = (s.closeWritten \/ \E i \in DOMAIN w.done : w.done[i].t = "close")
    OBVIOUS
  <2>6. PICK t : t = [s EXCEPT !.track = w.track, !.stanzasPending = m,
                               !.stanzasWritten = @ + k, !.closeWritten = c]
    OBVIOUS
  <2>7. t \in StreamState
    <3>1. s.stanzasWritten + k \in Nat
      <4>1. s.stanzasWritten \in Nat
        BY <1>1 DEF StreamState
      <4> HIDE DEF s
      <4> QED BY <4>1
    <3> QED BY <1>1, <2>4, <2>6, <3>1 DEF StreamState
  <2>8. t = Credited(s, n)
    BY <2>3, <2>4, <2>5, <2>6 DEF Credited
  <2>9. Becomes(e, t)
    BY <2>1, <2>7, <2>8, PutView DEF Becomes
  <2>10. t = [s EXCEPT !.track = w.track, !.stanzasPending = @ - StanzasIn(w.done),
                       !.stanzasWritten = @ + StanzasIn(w.done),
                       !.closeWritten = @ \/ \E i \in DOMAIN w.done : w.done[i].t = "close"]
    BY <2>4, <2>5, <2>6
  <2> QED BY <1>4, <2>1, <2>3, <2>9, <2>10 DEF BytesWritten, WrittenStep, Crediting
<1>5. CASE DoReadyRead(e)
  <2>1. PICK t : t = [s EXCEPT !.timer = FALSE, !.in = <<>>]
    OBVIOUS
  <2>2. t \in StreamState
    <3>1. <<>> \in Seq(Stanzas)
      OBVIOUS
    <3> QED BY <1>1, <2>1, <3>1 DEF StreamState
  <2>3. Becomes(e, t)
    BY <1>5, <2>1, <2>2, PutView DEF DoReadyRead, Becomes
  <2> QED BY <1>5, <2>1, <2>3 DEF DoReadyRead, TimerStep, Reading
<1>6. CASE ConnectionClosed(e)
  <2>1. ~Gone(e) /\ Finish(e, "connectionClosed") /\ "connectionClosed" \in Signal
    BY <1>6 DEF ConnectionClosed, Signal
  <2>2. st[e].proto # "Reset"
    BY <2>1 DEF Gone, Shape
  <2>3. FinishStep(e)
    BY <2>1, <2>2, FinishIsEnd
  <2> QED BY <2>1, <2>3
<1>7. CASE Write(e)
  <2>1. /\ s.state = "Active" /\ sent[e] < MaxSent(e)
        /\ Put(e, [s EXCEPT !.sendList = Append(@, Stanza(sent[e] + 1)), !.posted = @ + 1])
        /\ sent' = [sent EXCEPT ![e] = sent[e] + 1]
        /\ UNCHANGED <<running, net, directs, got, ended>>
    BY <1>7 DEF Write
  <2>2. sent[e] + 1 \in Stanzas
    <3>1. {MaxClient, MaxServer} \subseteq 0 .. MaxClient + MaxServer
      BY XmlStreamAssumption DEF XmlStreamAssumption
    <3>2. MaxSent(e) \in {MaxClient, MaxServer}
      BY DEF MaxSent
    <3>3. MaxSent(e) <= Max({MaxClient, MaxServer}) /\ Max({MaxClient, MaxServer}) \in Nat
      <4>1. MaxClient + MaxServer \in Nat
        BY XmlStreamAssumption DEF XmlStreamAssumption
      <4>2. PICK T : T = {MaxClient, MaxServer}
        OBVIOUS
      <4>3. Max(T) \in T /\ \A x \in T : x <= Max(T)
        BY <3>1, <4>1, <4>2, GreatestNumber
      <4> QED BY <3>1, <3>2, <4>2, <4>3
    <3>4. MaxSent(e) \in Nat
      BY <3>2, XmlStreamAssumption DEF XmlStreamAssumption
    <3> QED BY <1>1, <2>1, <3>3, <3>4 DEF Stanzas
  <2>3. PICK el \in Element : el = Stanza(sent[e] + 1)
    BY <2>2, MadeElements
  <2>4. PICK t : t = [s EXCEPT !.sendList = Append(s.sendList, el), !.posted = @ + 1]
    OBVIOUS
  <2>5. t \in StreamState
    <3>1. Append(s.sendList, el) \in Seq(Element)
      BY <1>1, AppendProperties DEF StreamState
    <3>2. s.posted + 1 \in Nat
      BY <1>1 DEF StreamState
    <3> QED BY <1>1, <2>4, <3>1, <3>2 DEF StreamState
  <2>6. Becomes(e, t)
    BY <2>1, <2>3, <2>4, <2>5, PutView DEF Becomes
  <2> QED BY <2>1, <2>2, <2>3, <2>4, <2>6 DEF WriteStep, Writing
<1>8. CASE WriteDirect(e)
  <2>1. PICK el \in Element : el = El("bad")
    BY MadeElements
  <2>2. PICK t : t = [s EXCEPT !.sendList = Append(s.sendList, el)]
    OBVIOUS
  <2>3. t \in StreamState
    <3>1. Append(s.sendList, el) \in Seq(Element)
      BY <1>1, AppendProperties DEF StreamState
    <3> QED BY <1>1, <2>2, <3>1 DEF StreamState
  <2>4. Becomes(e, t)
    BY <1>8, <2>1, <2>2, <2>3, PutView DEF WriteDirect, Becomes
  <2> QED BY <1>8, <2>1, <2>2, <2>4 DEF WriteDirect, DirectStep, WritingDirect
<1>9. CASE Close(e)
  <2>1. PICK t : t = [s EXCEPT !.state = "Closing", !.doShutdown = TRUE]
    OBVIOUS
  <2>2. t \in StreamState
    BY <1>1, <2>1 DEF StreamState
  <2>3. Becomes(e, t)
    BY <1>9, <2>1, <2>2, PutView DEF Close, Becomes
  <2> QED BY <1>9, <2>1, <2>3 DEF Close, CloseStep, ShuttingDown
<1>10. CASE Fails(e)
  <2>1. e = "client" => Becomes(e, ResetState(s))
    <3>1. ResetState(s) \in StreamState
      BY <1>1, ResetView
    <3>2. e = "client" => Put(e, ResetState(s))
      BY <1>10 DEF Fails
    <3> QED BY <3>1, <3>2, PutView DEF Becomes
  <2> QED BY <1>10, <2>1 DEF Fails, FailStep
<1> QED BY <1>2, <1>3, <1>4, <1>5, <1>6, <1>7, <1>8, <1>9, <1>10 DEF Event, Application

-----------------------------------------------------------------------------
(* Types.                                                                  *)

\* What an application read stays a sequence of stanzas.
LEMMA ReadType ==
    ASSUME TypeOK, NEW e \in Ends
    PROVE  [got EXCEPT ![e] = got[e] \o st[e].in] \in [Ends -> Seq(Stanzas)]
<1>1. got[e] \in Seq(Stanzas) /\ st[e].in \in Seq(Stanzas)
  BY DEF TypeOK, StreamState
<1>2. got[e] \o st[e].in \in Seq(Stanzas)
  BY <1>1, ConcatProperties
<1> QED BY <1>2 DEF TypeOK

\* An application is told of the end once.
LEMMA FinishTypes ==
    ASSUME TypeOK, Shape, NEW e \in Ends, FinishStep(e)
    PROVE  TypeOK' /\ Shape'
<1>1. PICK signal \in Signal : Finishes(e, signal)
  BY DEF FinishStep
<1>2. st[e].state # "Idle" /\ ended[e] = <<>>
  BY DEF FinishStep, Shape
<1>3. ended' = [ended EXCEPT ![e] = <<signal>>]
  <2>1. Append(<<>>, signal) = <<signal>>
    OBVIOUS
  <2>2. ended' = [ended EXCEPT ![e] = Append(ended[e], signal)]
    BY <1>1 DEF Finishes
  <2> QED BY <1>2, <2>1, <2>2
<1>4. ended' \in [Ends -> {<<>>} \cup {<<x>> : x \in Signal}] /\ ended'[e] # <<>>
      /\ \A o \in Ends : o # e => ended'[o] = ended[o]
  <2>1. <<signal>> \in {<<x>> : x \in Signal} /\ <<signal>> # <<>>
    OBVIOUS
  <2> QED BY <1>3, <2>1 DEF TypeOK
<1>5. st'[e].state = "Idle" /\ st'[e].proto = "Reset" /\ \A o \in Ends : o # e => st'[o] = st[o]
  <2>1. st[e] \in StreamState
    BY DEF TypeOK
  <2> QED BY <1>1, <2>1, ResetView DEF Finishes
<1>6. TypeOK'
  BY <1>1, <1>4 DEF TypeOK, Finishes
<1>7. Shape'
  <2>1. sent' = sent
    BY <1>1 DEF Finishes
  <2> QED BY <1>4, <1>5, <2>1 DEF Shape
<1> QED BY <1>6, <1>7

\* Whether t is as open as s.
AsOpen(s, t) == t.state = s.state /\ t.proto = s.proto

\* Most changes leave a stream as open as it is.
LEMMA OpenKept ==
    ASSUME NEW s \in StreamState
    PROVE  /\ \A els, b, c, d : /\ Closing(s, els, b, c, d).state = s.state
                               /\ Closing(s, els, b, c, d).proto = "Closing"
           /\ \A el : AsOpen(s, Sending(s, el))
           /\ AsOpen(s, Announced(s)) /\ AsOpen(s, Taken(s))
           /\ AsOpen(s, Ending(s)) /\ AsOpen(s, EndingLater(s))
           /\ \A els : AsOpen(s, Receiving(s, els))
           /\ \A w : AsOpen(s, Crediting(s, w))
           /\ AsOpen(s, Called(s)) /\ AsOpen(s, Reading(s))
           /\ \A n : AsOpen(s, Writing(s, n))
           /\ AsOpen(s, WritingDirect(s))
           /\ ShuttingDown(s).state = "Closing" /\ ShuttingDown(s).proto = s.proto
<1>1. \A els, b, c, d : /\ Closing(s, els, b, c, d).state = s.state
                       /\ Closing(s, els, b, c, d).proto = "Closing"
  BY DEF Closing, StreamState
<1>2. \A el : AsOpen(s, Sending(s, el))
  BY DEF Sending, StreamState, AsOpen
<1>3. AsOpen(s, Announced(s)) /\ AsOpen(s, Taken(s))
  BY DEF Announced, Taken, StreamState, AsOpen
<1>4. AsOpen(s, Ending(s)) /\ AsOpen(s, EndingLater(s))
  BY DEF Ending, EndingLater, StreamState, AsOpen
<1>5. \A els : AsOpen(s, Receiving(s, els))
  BY DEF Receiving, StreamState, AsOpen
<1>6. \A w : AsOpen(s, Crediting(s, w))
  BY DEF Crediting, StreamState, AsOpen
<1>7. AsOpen(s, Called(s)) /\ AsOpen(s, Reading(s))
  BY DEF Called, Reading, StreamState, AsOpen
<1>8. \A n : AsOpen(s, Writing(s, n))
  BY DEF Writing, StreamState, AsOpen
<1>9. AsOpen(s, WritingDirect(s))
  BY DEF WritingDirect, StreamState, AsOpen
<1>10. ShuttingDown(s).state = "Closing" /\ ShuttingDown(s).proto = s.proto
  BY DEF ShuttingDown, StreamState
<1> QED BY <1>1, <1>2, <1>3, <1>4, <1>5, <1>6, <1>7, <1>8, <1>9, <1>10

\* Steps keep the types.
LEMMA StepTypes ==
    ASSUME TypeOK, Shape, NEW e \in Ends, Step(e)
    PROVE  TypeOK' /\ Shape'
<1>1. /\ running = e
      /\ \/ ClosingStep(e) \/ SendingStep(e) \/ SentStep(e) \/ ElementStep(e)
         \/ EndStep(e) \/ FinishStep(e)
  BY StepKinds
<1>2. st[e] \in StreamState
  BY DEF TypeOK
<1>3. CASE ClosingStep(e)
  <2>1. PICK t, els : Emits(e, t, els) /\ t.state = st[e].state /\ t.proto = "Closing"
                      /\ st[e].proto = "Open"
    BY <1>2, <1>3, OpenKept DEF ClosingStep, AsOpen
  <2>2. TypeOK'
    BY <1>3, <2>1 DEF TypeOK, Emits, ClosingStep, hist
  <2>3. Shape'
    BY <1>3, <2>1 DEF Shape, Emits, ClosingStep, hist
  <2> QED BY <2>2, <2>3
<1>4. CASE SendingStep(e)
  <2>1. PICK t, els : Emits(e, t, els) /\ t.state = st[e].state /\ t.proto = st[e].proto
    BY <1>2, <1>4, OpenKept DEF SendingStep, AsOpen
  <2>2. TypeOK'
    BY <1>4, <2>1 DEF TypeOK, Emits, SendingStep, hist
  <2>3. Shape'
    BY <1>4, <2>1 DEF Shape, Emits, SendingStep, hist
  <2> QED BY <2>2, <2>3
<1>5. CASE SentStep(e)
  <2>1. PICK t : Becomes(e, t) /\ t.state = st[e].state /\ t.proto = st[e].proto
    BY <1>2, <1>5, OpenKept DEF SentStep, AsOpen
  <2>2. TypeOK'
    BY <1>5, <2>1 DEF TypeOK, Becomes, SentStep, hist, net
  <2>3. Shape'
    BY <1>5, <2>1 DEF Shape, Becomes, SentStep, hist, net
  <2> QED BY <2>2, <2>3
<1>6. CASE ElementStep(e)
  <2>1. PICK t : Becomes(e, t) /\ t.state = st[e].state /\ t.proto = st[e].proto
    BY <1>2, <1>6, OpenKept DEF ElementStep, AsOpen
  <2>2. TypeOK'
    BY <1>6, <2>1 DEF TypeOK, Becomes, ElementStep, hist, net
  <2>3. Shape'
    BY <1>6, <2>1 DEF Shape, Becomes, ElementStep, hist, net
  <2> QED BY <2>2, <2>3
<1>7. CASE EndStep(e)
  <2>1. PICK t : Becomes(e, t) /\ t.state = st[e].state /\ t.proto = st[e].proto
    BY <1>2, <1>7, OpenKept DEF EndStep, AsOpen
  <2>2. got' \in [Ends -> Seq(Stanzas)]
    BY <1>7, ReadType DEF EndStep, TypeOK
  <2>3. TypeOK'
    BY <1>7, <2>1, <2>2 DEF TypeOK, Becomes, EndStep, net
  <2>4. Shape'
    BY <1>7, <2>1 DEF Shape, Becomes, EndStep
  <2> QED BY <2>3, <2>4
<1> QED BY <1>1, <1>3, <1>4, <1>5, <1>6, <1>7, FinishTypes

\* Events keep the types.
LEMMA EventTypes ==
    ASSUME TypeOK, Shape, BytesAccounted, NEW e \in Ends, Event(e) \/ Application(e) \/ Fails(e)
    PROVE  TypeOK' /\ Shape'
<1>1. \/ PostedStep(e) \/ ReadStep(e) \/ WrittenStep(e) \/ TimerStep(e)
      \/ WriteStep(e) \/ DirectStep(e) \/ CloseStep(e)
      \/ ~Gone(e) /\ FinishStep(e)
      \/ FailStep(e)
  BY EventKinds
<1>2. st[e] \in StreamState
  BY DEF TypeOK
<1>3. CASE PostedStep(e)
  <2>1. PICK t : Becomes(e, t) /\ t.state = st[e].state /\ t.proto = st[e].proto
    BY <1>2, <1>3, OpenKept DEF PostedStep, AsOpen
  <2>2. TypeOK'
    BY <1>3, <2>1 DEF TypeOK, Becomes, PostedStep, net, hist
  <2>3. Shape'
    BY <1>3, <2>1 DEF Shape, Becomes, PostedStep, net, hist
  <2> QED BY <2>2, <2>3
<1>4. CASE ReadStep(e)
  <2>1. PICK k, t :
            /\ k \in 1 .. Len(wire[e])
            /\ Becomes(e, t) /\ t.state = st[e].state /\ t.proto = st[e].proto
            /\ wire' = [wire EXCEPT ![e] = SubSeq(wire[e], k + 1, Len(wire[e]))]
    BY <1>2, <1>4, OpenKept DEF ReadStep, AsOpen
  <2>2. wire' \in [Ends -> Seq(Element)]
    <3>1. wire[e] \in Seq(Element) /\ k \in 0 .. Len(wire[e])
      BY <2>1 DEF TypeOK
    <3>2. SubSeq(wire[e], k + 1, Len(wire[e])) \in Seq(Element)
      BY <3>1, PicksSplit
    <3> QED BY <2>1, <3>2 DEF TypeOK
  <2>3. running' \in Ends \cup {"none"}
    BY <1>4 DEF ReadStep, RunIf
  <2>4. TypeOK'
    BY <1>4, <2>1, <2>2, <2>3 DEF TypeOK, Becomes, ReadStep, hist
  <2>5. Shape'
    BY <1>4, <2>1 DEF Shape, Becomes, ReadStep, hist
  <2> QED BY <2>4, <2>5
<1>5. CASE WrittenStep(e)
  <2>1. PICK n, t :
            /\ n \in 1 .. unreported[e]
            /\ Becomes(e, t) /\ t.state = st[e].state /\ t.proto = st[e].proto
            /\ unreported' = [unreported EXCEPT ![e] = unreported[e] - n]
    BY <1>2, <1>5, OpenKept DEF WrittenStep, AsOpen
  <2>2. unreported' \in [Ends -> Nat]
    <3>1. unreported[e] \in Nat
      BY DEF TypeOK
    <3>2. unreported[e] - n \in Nat
      BY <2>1, <3>1
    <3> QED BY <2>1, <3>2 DEF TypeOK
  <2>3. running' \in Ends \cup {"none"}
    BY <1>5 DEF WrittenStep, RunIf
  <2>4. TypeOK'
    BY <1>5, <2>1, <2>2, <2>3 DEF TypeOK, Becomes, WrittenStep, hist
  <2>5. Shape'
    BY <1>5, <2>1 DEF Shape, Becomes, WrittenStep, hist
  <2> QED BY <2>4, <2>5
<1>6. CASE TimerStep(e)
  <2>1. PICK t : Becomes(e, t) /\ t.state = st[e].state /\ t.proto = st[e].proto
    BY <1>2, <1>6, OpenKept DEF TimerStep, AsOpen
  <2>2. got' \in [Ends -> Seq(Stanzas)]
    BY <1>6, ReadType DEF TimerStep
  <2>3. TypeOK'
    BY <1>6, <2>1, <2>2 DEF TypeOK, Becomes, TimerStep, net
  <2>4. Shape'
    BY <1>6, <2>1 DEF Shape, Becomes, TimerStep
  <2> QED BY <2>3, <2>4
<1>7. CASE WriteStep(e)
  <2>1. PICK t : Becomes(e, t) /\ t.state = st[e].state /\ t.proto = st[e].proto
    BY <1>2, <1>7, OpenKept DEF WriteStep, AsOpen
  <2>2. sent' \in [Ends -> Nat] /\ sent'[e] <= MaxSent(e)
        /\ \A o \in Ends : o # e => sent'[o] = sent[o]
    <3>1. MaxSent(e) \in Nat /\ sent[e] \in Nat /\ sent[e] < MaxSent(e)
      BY <1>7, XmlStreamAssumption DEF MaxSent, XmlStreamAssumption, TypeOK, WriteStep
    <3>2. sent[e] + 1 \in Nat /\ sent[e] + 1 <= MaxSent(e)
      BY <3>1
    <3> QED BY <1>7, <3>2 DEF WriteStep, TypeOK
  <2>3. TypeOK'
    BY <1>7, <2>1, <2>2 DEF TypeOK, Becomes, WriteStep, net
  <2>4. Shape'
    BY <1>7, <2>1, <2>2 DEF Shape, Becomes, WriteStep
  <2> QED BY <2>3, <2>4
<1>8. CASE DirectStep(e)
  <2>1. PICK t : Becomes(e, t) /\ t.state = st[e].state /\ t.proto = st[e].proto
    BY <1>2, <1>8, OpenKept DEF DirectStep, AsOpen
  <2>2. TypeOK'
    BY <1>8, <2>1 DEF TypeOK, Becomes, DirectStep, net
  <2>3. Shape'
    BY <1>8, <2>1 DEF Shape, Becomes, DirectStep
  <2> QED BY <2>2, <2>3
<1>9. CASE CloseStep(e)
  <2>1. PICK t : Becomes(e, t) /\ t.state = "Closing" /\ st[e].state = "Active"
                 /\ t.proto = st[e].proto
    BY <1>2, <1>9, OpenKept DEF CloseStep, AsOpen
  <2>2. TypeOK'
    BY <1>9, <2>1 DEF TypeOK, Becomes, CloseStep, net, hist
  <2>3. Shape'
    BY <1>9, <2>1 DEF Shape, Becomes, CloseStep, net, hist
  <2> QED BY <2>2, <2>3
<1>10. CASE FailStep(e)
  <2>1. ended[e] = <<>>
    BY <1>10 DEF FailStep, Gone, Shape
  <2>2. wire' \in [Ends -> Seq(Element)] /\ unreported' \in [Ends -> Nat] /\ breaks' \in Nat
    <3>1. <<>> \in Seq(Element)
      OBVIOUS
    <3> QED BY <1>10, <3>1 DEF FailStep, TypeOK
  <2>3. CASE e = "client" /\ Becomes(e, ResetState(st[e]))
             /\ ended' = [ended EXCEPT ![e] = Append(ended[e], "error")] /\ UNCHANGED broken
    <3>1. ended' = [ended EXCEPT ![e] = <<"error">>]
      <4>1. Append(<<>>, "error") = <<"error">>
        OBVIOUS
      <4> QED BY <2>1, <2>3, <4>1
    <3>2. ended' \in [Ends -> {<<>>} \cup {<<x>> : x \in Signal}] /\ ended'[e] # <<>>
          /\ \A o \in Ends : o # e => ended'[o] = ended[o]
      BY <3>1 DEF TypeOK, Signal
    <3>3. PICK t : Becomes(e, t) /\ t.state = "Idle" /\ t.proto = "Reset"
      BY <1>2, <2>3, ResetView
    <3>4. TypeOK'
      BY <1>10, <2>2, <2>3, <3>2, <3>3 DEF TypeOK, Becomes, FailStep
    <3>5. Shape'
      BY <1>10, <3>2, <3>3 DEF Shape, Becomes, FailStep
    <3> QED BY <3>4, <3>5
  <2>4. CASE e = "server" /\ broken' = broken \cup {e} /\ UNCHANGED <<st, ended>>
    <3>1. TypeOK'
      BY <1>10, <2>2, <2>4 DEF TypeOK, FailStep
    <3>2. Shape'
      BY <1>10, <2>4 DEF Shape, FailStep
    <3> QED BY <3>1, <3>2
  <2> QED BY <1>10, <2>3, <2>4 DEF FailStep
<1> QED BY <1>1, <1>3, <1>4, <1>5, <1>6, <1>7, <1>8, <1>9, <1>10, FinishTypes

-----------------------------------------------------------------------------
(* Accounting.                                                             *)

\* What BytesAccounted says of one stream s, of which u bytes are unreported and
\* whose application wrote n stanzas.
Accounts(s, u, n) ==
    /\ Bytes(s.track) = u
    /\ s.stanzasPending = StanzasIn(s.track)
    /\ n = StanzasIn(s.sendList) + s.stanzasPending + s.stanzasWritten + s.told

\* Changes that do not touch the queues.
SameAccounts(s, t) ==
    /\ t.track = s.track /\ t.stanzasPending = s.stanzasPending /\ t.sendList = s.sendList
    /\ t.stanzasWritten = s.stanzasWritten /\ t.told = s.told

\* Most changes do not.
LEMMA AccountsSame ==
    ASSUME NEW s \in StreamState
    PROVE  /\ SameAccounts(s, Taken(s)) /\ SameAccounts(s, Ending(s))
           /\ SameAccounts(s, EndingLater(s)) /\ \A els : SameAccounts(s, Receiving(s, els))
           /\ SameAccounts(s, Called(s)) /\ SameAccounts(s, Reading(s))
           /\ SameAccounts(s, ShuttingDown(s))
<1>1. SameAccounts(s, Taken(s))
  BY DEF Taken, StreamState, SameAccounts
<1>2. SameAccounts(s, Ending(s))
  BY DEF Ending, StreamState, SameAccounts
<1>3. SameAccounts(s, EndingLater(s))
  BY DEF EndingLater, StreamState, SameAccounts
<1>4. \A els : SameAccounts(s, Receiving(s, els))
  BY DEF Receiving, StreamState, SameAccounts
<1>5. SameAccounts(s, Called(s)) /\ SameAccounts(s, Reading(s))
  BY DEF Called, Reading, StreamState, SameAccounts
<1>6. SameAccounts(s, ShuttingDown(s))
  BY DEF ShuttingDown, StreamState, SameAccounts
<1> QED BY <1>1, <1>2, <1>3, <1>4, <1>5, <1>6

\* The elements that close a stream are no stanzas.
LEMMA ClosingsAreNoStanzas ==
    ASSUME NEW els \in Closings
    PROVE  /\ els \in Seq(Element) /\ StanzasIn(els) = 0
           /\ \A i \in DOMAIN els : els[i].t # "stanza"
<1>1. PICK x \in Element, y \in Element : /\ x = El("close") /\ x.t = "close"
                                          /\ y = El("error") /\ y.t = "error"
  BY MadeElements
<1>2. els = <<x>> \/ els = <<y, x>>
  BY <1>1 DEF Closings
<1>3. els \in Seq(Element)
  <2>1. <<x>> \in Seq(Element)
    OBVIOUS
  <2>2. <<y, x>> \in Seq(Element)
    OBVIOUS
  <2> QED BY <1>2, <2>1, <2>2
<1>4. \A i \in DOMAIN els : els[i].t # "stanza"
  <2>1. CASE els = <<x>>
    BY <1>1, <2>1
  <2>2. CASE els = <<y, x>>
    BY <1>1, <2>2
  <2> QED BY <1>2, <2>1, <2>2
<1>5. {i \in DOMAIN els : els[i].t = "stanza"} = {}
  BY <1>4
<1>6. StanzasIn(els) = 0
  BY <1>5, FS_EmptySet DEF StanzasIn
<1> QED BY <1>3, <1>4, <1>6

\* Closing elements are tracked, and are no stanzas.
LEMMA ClosingAccounts ==
    ASSUME NEW s \in StreamState, NEW els \in Closings, NEW b, NEW c, NEW d,
           NEW u \in Nat, NEW n \in Nat, Accounts(s, u, n)
    PROVE  Accounts(Closing(s, els, b, c, d), u + Bytes(Tracks(els)), n)
<1>1. /\ s.track \in Seq(TrackItem) /\ Tracks(els) \in Seq(TrackItem)
      /\ StanzasIn(Tracks(els)) = 0
  BY ClosingsAreNoStanzas, TracksOfElements DEF StreamState
<1>2. Bytes(s.track \o Tracks(els)) = Bytes(s.track) + Bytes(Tracks(els))
  BY <1>1, BytesConcat
<1>3. StanzasIn(s.track \o Tracks(els)) = StanzasIn(s.track)
  <2>1. /\ StanzasIn(s.track) \in Nat
        /\ StanzasIn(s.track \o Tracks(els)) = StanzasIn(s.track) + StanzasIn(Tracks(els))
    BY <1>1, StanzasConcat
  <2> QED BY <1>1, <2>1
<1>4. PICK t : t = Closing(s, els, b, c, d)
  OBVIOUS
<1>5. /\ t.track = s.track \o Tracks(els) /\ t.stanzasPending = s.stanzasPending
      /\ t.sendList = s.sendList /\ t.stanzasWritten = s.stanzasWritten /\ t.told = s.told
  BY <1>4 DEF Closing, StreamState
<1>6. Accounts(t, u + Bytes(Tracks(els)), n)
  BY <1>2, <1>3, <1>5 DEF Accounts
<1> QED BY <1>4, <1>6

\* An item that is sent is tracked, and pending when it is a stanza.
LEMMA SendingAccounts ==
    ASSUME NEW s \in StreamState, s.sendList # <<>>, NEW u \in Nat, NEW n \in Nat,
           Accounts(s, u, n), NEW el, el = Head(s.sendList)
    PROVE  Accounts(Sending(s, el), u + Bytes(Tracks(<<el>>)), n)
<1> DEFINE k == IF el.t = "stanza" THEN 1 ELSE 0
<1>1. s.sendList \in Seq(Element) /\ s.track \in Seq(TrackItem) /\ k \in Nat
  BY DEF StreamState
<1>2. el \in Element
  BY <1>1, HeadTailProperties
<1>3. <<el>> \in Seq(Element)
  BY <1>2
<1>4. Tracks(<<el>>) \in Seq(TrackItem) /\ StanzasIn(Tracks(<<el>>)) = k
  BY <1>3, TracksOfElements, StanzasFew
<1>5. Bytes(s.track \o Tracks(<<el>>)) = Bytes(s.track) + Bytes(Tracks(<<el>>))
  BY <1>1, <1>4, BytesConcat
<1>6. /\ StanzasIn(s.track) \in Nat
      /\ StanzasIn(s.track \o Tracks(<<el>>)) = StanzasIn(s.track) + k
  BY <1>1, <1>4, StanzasConcat
<1>7. /\ StanzasIn(Tail(s.sendList)) \in Nat
      /\ StanzasIn(s.sendList) = StanzasIn(Tail(s.sendList)) + k
  BY <1>1, StanzasTail
<1>8. PICK t : t = Sending(s, el)
  OBVIOUS
<1>9. /\ t.track = s.track \o Tracks(<<el>>) /\ t.stanzasPending = s.stanzasPending + k
      /\ t.sendList = Tail(s.sendList) /\ t.stanzasWritten = s.stanzasWritten /\ t.told = s.told
  BY <1>8 DEF Sending, StreamState
<1>10. s.stanzasPending \in Nat /\ s.stanzasWritten \in Nat /\ s.told \in Nat
  BY DEF StreamState
<1> HIDE DEF k
<1>11. Bytes(t.track) = u + Bytes(Tracks(<<el>>))
  BY <1>5, <1>9 DEF Accounts
<1>12. t.stanzasPending = StanzasIn(t.track)
  BY <1>6, <1>9 DEF Accounts
<1>13. n = StanzasIn(t.sendList) + t.stanzasPending + t.stanzasWritten + t.told
  <2>1. n = StanzasIn(s.sendList) + s.stanzasPending + s.stanzasWritten + s.told
    BY DEF Accounts
  <2> QED BY <1>1, <1>7, <1>9, <1>10, <2>1
<1>14. Accounts(t, u + Bytes(Tracks(<<el>>)), n)
  BY <1>11, <1>12, <1>13 DEF Accounts
<1> QED BY <1>8, <1>14

\* A stanza that is announced was written.
LEMMA AnnouncedAccounts ==
    ASSUME NEW s \in StreamState, s.stanzasWritten > 0, NEW u, NEW n, Accounts(s, u, n)
    PROVE  Accounts(Announced(s), u, n)
<1>1. PICK t : t = Announced(s)
  OBVIOUS
<1>2. /\ t.track = s.track /\ t.stanzasPending = s.stanzasPending /\ t.sendList = s.sendList
      /\ t.stanzasWritten = s.stanzasWritten - 1 /\ t.told = s.told + 1
  BY <1>1 DEF Announced, StreamState
<1>3. /\ s.stanzasPending \in Nat /\ s.stanzasWritten \in Nat /\ s.told \in Nat
      /\ StanzasIn(s.sendList) \in Nat
  BY StanzasConcat DEF StreamState
<1>4. n = StanzasIn(s.sendList) + s.stanzasPending + s.stanzasWritten + s.told
  BY DEF Accounts
<1>5. n = StanzasIn(t.sendList) + t.stanzasPending + t.stanzasWritten + t.told
  BY <1>2, <1>3, <1>4
<1>6. Accounts(t, u, n)
  BY <1>2, <1>5 DEF Accounts
<1> QED BY <1>1, <1>6

\* Stanzas that are written are no longer pending.
LEMMA CreditingAccounts ==
    ASSUME NEW s \in StreamState, NEW u \in Nat, NEW n, Accounts(s, u, n),
           NEW k \in 1 .. u, NEW w, Divides(s.track, k, w)
    PROVE  Accounts(Crediting(s, w), u - k, n)
<1>1. PICK t : t = Crediting(s, w)
  OBVIOUS
<1>2. /\ t.track = w.track /\ t.stanzasPending = s.stanzasPending - StanzasIn(w.done)
      /\ t.sendList = s.sendList
      /\ t.stanzasWritten = s.stanzasWritten + StanzasIn(w.done) /\ t.told = s.told
  BY <1>1 DEF Crediting, StreamState
<1>3. /\ s.stanzasPending \in Nat /\ s.stanzasWritten \in Nat /\ s.told \in Nat
      /\ StanzasIn(s.sendList) \in Nat /\ StanzasIn(w.done) \in Nat /\ StanzasIn(w.track) \in Nat
  BY StanzasConcat DEF StreamState, Divides
<1>4. StanzasIn(w.done) + StanzasIn(w.track) = s.stanzasPending
  BY DEF Divides, Accounts
<1>5. n = StanzasIn(s.sendList) + s.stanzasPending + s.stanzasWritten + s.told
  BY DEF Accounts
<1>6. n = StanzasIn(t.sendList) + t.stanzasPending + t.stanzasWritten + t.told
  BY <1>2, <1>3, <1>5
<1>7. t.stanzasPending = StanzasIn(t.track)
  BY <1>2, <1>3, <1>4
<1>8. Bytes(t.track) = u - k
  BY <1>2 DEF Divides, Accounts
<1>9. Accounts(t, u - k, n)
  BY <1>6, <1>7, <1>8 DEF Accounts
<1> QED BY <1>1, <1>9

\* What an application writes is queued.
LEMMA WritingAccounts ==
    ASSUME NEW s \in StreamState, NEW u, NEW n \in Nat, n + 1 \in Stanzas, Accounts(s, u, n)
    PROVE  Accounts(Writing(s, n + 1), u, n + 1)
<1>1. s.sendList \in Seq(Element)
  BY DEF StreamState
<1>2. /\ StanzasIn(Append(s.sendList, Stanza(n + 1))) = StanzasIn(s.sendList) + 1
      /\ StanzasIn(s.sendList) \in Nat
  BY <1>1, MadeElements, StanzasAppend, StanzasConcat
<1>3. PICK t : t = Writing(s, n + 1)
  OBVIOUS
<1>4. /\ t.track = s.track /\ t.stanzasPending = s.stanzasPending
      /\ t.sendList = Append(s.sendList, Stanza(n + 1))
      /\ t.stanzasWritten = s.stanzasWritten /\ t.told = s.told
  BY <1>3 DEF Writing, StreamState
<1>5. s.stanzasPending \in Nat /\ s.stanzasWritten \in Nat /\ s.told \in Nat
  BY DEF StreamState
<1>6. n = StanzasIn(s.sendList) + s.stanzasPending + s.stanzasWritten + s.told
  BY DEF Accounts
<1>7. n + 1 = StanzasIn(t.sendList) + t.stanzasPending + t.stanzasWritten + t.told
  BY <1>2, <1>4, <1>5, <1>6
<1>8. Accounts(t, u, n + 1)
  BY <1>4, <1>7 DEF Accounts
<1> QED BY <1>3, <1>8

\* Text that does not parse is no stanza.
LEMMA DirectAccounts ==
    ASSUME NEW s \in StreamState, NEW u, NEW n, Accounts(s, u, n)
    PROVE  Accounts(WritingDirect(s), u, n)
<1>1. s.sendList \in Seq(Element)
  BY DEF StreamState
<1>2. StanzasIn(Append(s.sendList, El("bad"))) = StanzasIn(s.sendList)
  <2>1. StanzasIn(s.sendList) \in Nat
    BY <1>1, StanzasConcat
  <2> QED BY <1>1, <2>1, MadeElements, StanzasAppend
<1>3. PICK t : t = WritingDirect(s)
  OBVIOUS
<1>4. /\ t.track = s.track /\ t.stanzasPending = s.stanzasPending
      /\ t.sendList = Append(s.sendList, El("bad"))
      /\ t.stanzasWritten = s.stanzasWritten /\ t.told = s.told
  BY <1>3 DEF WritingDirect, StreamState
<1>5. Accounts(t, u, n)
  BY <1>2, <1>4 DEF Accounts
<1> QED BY <1>3, <1>5

\* The accounts of an end, and what leaves those of the other one alone.
Balanced(x) == ~Gone(x) => Accounts(st[x], unreported[x], sent[x])
Untouched(x) ==
    /\ st'[x] = st[x] /\ unreported'[x] = unreported[x] /\ sent'[x] = sent[x]
    /\ x \in broken => x \in broken'

\* The accounts are balanced when both ends are.
LEMMA AccountsOfAnEnd ==
    ASSUME BytesAccounted, NEW e \in Ends, \A x \in Ends : x # e => Untouched(x), Balanced(e)'
    PROVE  BytesAccounted'
<1>1. ASSUME NEW x \in Ends PROVE Balanced(x)'
  <2>1. CASE x = e
    BY <2>1
  <2>2. CASE x # e
    <3>1. Untouched(x) /\ Balanced(x)
      BY <2>2 DEF BytesAccounted, Balanced, Accounts
    <3> QED BY <3>1 DEF Untouched, Balanced, Gone
  <2> QED BY <2>1, <2>2
<1> QED BY <1>1 DEF BytesAccounted, Balanced, Accounts

\* Nothing is asked of an end that is gone.
LEMMA FinishAccounts ==
    ASSUME TypeOK, BytesAccounted, NEW e \in Ends, FinishStep(e)
    PROVE  BytesAccounted'
<1>1. PICK signal \in Signal : Finishes(e, signal)
  BY DEF FinishStep
<1>2. st'[e].state = "Idle"
  <2>1. st[e] \in StreamState
    BY DEF TypeOK
  <2> QED BY <1>1, <2>1, ResetView DEF Finishes
<1>3. Balanced(e)'
  BY <1>2 DEF Balanced, Gone
<1>4. \A x \in Ends : x # e => Untouched(x)
  BY <1>1 DEF Finishes, Untouched
<1> QED BY <1>3, <1>4, AccountsOfAnEnd

\* An end that stays gone or open, and whose accounts balance if they did.
LEMMA StaysBalanced ==
    ASSUME BytesAccounted, NEW e \in Ends, broken' = broken,
           NEW t, st'[e] = t, t.state = "Idle" <=> st[e].state = "Idle",
           ~Gone(e) /\ Accounts(st[e], unreported[e], sent[e])
             => Accounts(t, unreported'[e], sent'[e])
    PROVE  Balanced(e)'
<1>1. Balanced(e)
  BY DEF BytesAccounted, Balanced, Accounts
<1>2. Gone(e)' <=> Gone(e)
  BY DEF Gone
<1> QED BY <1>1, <1>2 DEF Balanced

\* Steps balance the accounts.
LEMMA StepAccounts ==
    ASSUME TypeOK, Shape, BytesAccounted, NEW e \in Ends, Step(e)
    PROVE  BytesAccounted'
<1>1. \/ ClosingStep(e) \/ SendingStep(e) \/ SentStep(e) \/ ElementStep(e)
      \/ EndStep(e) \/ FinishStep(e)
  BY StepKinds
<1>2. /\ st[e] \in StreamState /\ unreported[e] \in Nat /\ sent[e] \in Nat
  BY DEF TypeOK
<1>3. CASE ClosingStep(e)
  <2>1. PICK els, b, c, d : els \in Closings /\ Emits(e, Closing(st[e], els, b, c, d), els)
    BY <1>3 DEF ClosingStep
  <2>2. PICK t : t = Closing(st[e], els, b, c, d) /\ t.state = st[e].state
    BY <1>2, OpenKept
  <2>3. ~Gone(e) /\ Accounts(st[e], unreported[e], sent[e]) => Accounts(t, unreported'[e], sent'[e])
    <3>1. ~Gone(e) => unreported'[e] = unreported[e] + Bytes(Tracks(els))
      BY <2>1 DEF Emits, Gone
    <3>2. sent'[e] = sent[e]
      BY <1>3 DEF ClosingStep, hist
    <3> QED BY <1>2, <2>1, <2>2, <3>1, <3>2, ClosingAccounts
  <2>4. st'[e] = t /\ broken' = broken
    BY <1>3, <2>1, <2>2 DEF Emits, ClosingStep
  <2>5. Balanced(e)'
    BY <2>2, <2>3, <2>4, StaysBalanced
  <2>6. \A x \in Ends : x # e => Untouched(x)
    BY <1>3, <2>1 DEF Emits, ClosingStep, Untouched, hist
  <2> QED BY <2>5, <2>6, AccountsOfAnEnd
<1>4. CASE SendingStep(e)
  <2>1. PICK el : el = Head(st[e].sendList) /\ Emits(e, Sending(st[e], el), <<el>>)
    BY <1>4 DEF SendingStep
  <2>2. PICK t : t = Sending(st[e], el) /\ t.state = st[e].state
    BY <1>2, OpenKept DEF AsOpen
  <2>3. ~Gone(e) /\ Accounts(st[e], unreported[e], sent[e]) => Accounts(t, unreported'[e], sent'[e])
    <3>1. ~Gone(e) => unreported'[e] = unreported[e] + Bytes(Tracks(<<el>>))
      BY <2>1 DEF Emits, Gone
    <3>2. sent'[e] = sent[e] /\ st[e].sendList # <<>>
      BY <1>4 DEF SendingStep, hist
    <3> QED BY <1>2, <2>1, <2>2, <3>1, <3>2, SendingAccounts
  <2>4. st'[e] = t /\ broken' = broken
    BY <1>4, <2>1, <2>2 DEF Emits, SendingStep
  <2>5. Balanced(e)'
    BY <2>2, <2>3, <2>4, StaysBalanced
  <2>6. \A x \in Ends : x # e => Untouched(x)
    BY <1>4, <2>1 DEF Emits, SendingStep, Untouched, hist
  <2> QED BY <2>5, <2>6, AccountsOfAnEnd
<1>5. CASE SentStep(e)
  <2>1. PICK t : t = Announced(st[e]) /\ Becomes(e, t) /\ t.state = st[e].state
    BY <1>2, <1>5, OpenKept DEF SentStep, AsOpen
  <2>2. Accounts(st[e], unreported[e], sent[e]) => Accounts(t, unreported'[e], sent'[e])
    <3>1. unreported'[e] = unreported[e] /\ sent'[e] = sent[e] /\ st[e].stanzasWritten > 0
      BY <1>5 DEF SentStep, net, hist
    <3> QED BY <1>2, <2>1, <3>1, AnnouncedAccounts
  <2>3. st'[e] = t /\ broken' = broken /\ \A x \in Ends : x # e => Untouched(x)
    BY <1>5, <2>1 DEF Becomes, SentStep, Untouched, net, hist
  <2>4. Balanced(e)'
    BY <2>1, <2>2, <2>3, StaysBalanced
  <2> QED BY <2>3, <2>4, AccountsOfAnEnd
<1>6. CASE ElementStep(e) \/ EndStep(e)
  <2>1. PICK t : Becomes(e, t) /\ t.state = st[e].state /\ SameAccounts(st[e], t)
    BY <1>2, <1>6, OpenKept, AccountsSame DEF ElementStep, EndStep, AsOpen
  <2>2. unreported' = unreported /\ sent' = sent /\ broken' = broken
    BY <1>6 DEF ElementStep, EndStep, net, hist
  <2>3. Accounts(st[e], unreported[e], sent[e]) => Accounts(t, unreported'[e], sent'[e])
    BY <2>1, <2>2 DEF SameAccounts, Accounts
  <2>4. st'[e] = t /\ \A x \in Ends : x # e => Untouched(x)
    BY <2>1, <2>2 DEF Becomes, Untouched
  <2>5. Balanced(e)'
    BY <2>1, <2>2, <2>3, <2>4, StaysBalanced
  <2> QED BY <2>4, <2>5, AccountsOfAnEnd
<1> QED BY <1>1, <1>3, <1>4, <1>5, <1>6, FinishAccounts

\* Events balance the accounts.
LEMMA EventAccounts ==
    ASSUME TypeOK, Shape, BytesAccounted, NEW e \in Ends, Event(e) \/ Application(e) \/ Fails(e)
    PROVE  BytesAccounted'
<1>1. \/ PostedStep(e) \/ ReadStep(e) \/ WrittenStep(e) \/ TimerStep(e)
      \/ WriteStep(e) \/ DirectStep(e) \/ CloseStep(e)
      \/ ~Gone(e) /\ FinishStep(e)
      \/ FailStep(e)
  BY EventKinds
<1>2. /\ st[e] \in StreamState /\ unreported[e] \in Nat /\ sent[e] \in Nat
  BY DEF TypeOK
<1>3. CASE PostedStep(e) \/ ReadStep(e) \/ TimerStep(e) \/ CloseStep(e)
  <2>1. PICK t : /\ Becomes(e, t) /\ (t.state = "Idle" <=> st[e].state = "Idle")
                 /\ SameAccounts(st[e], t)
    <3>1. CASE PostedStep(e)
      BY <1>2, <3>1, OpenKept, AccountsSame DEF PostedStep, AsOpen
    <3>2. CASE ReadStep(e)
      BY <1>2, <3>2, OpenKept, AccountsSame DEF ReadStep, AsOpen
    <3>3. CASE TimerStep(e)
      BY <1>2, <3>3, OpenKept, AccountsSame DEF TimerStep, AsOpen
    <3>4. CASE CloseStep(e)
      BY <1>2, <3>4, OpenKept, AccountsSame DEF CloseStep, AsOpen
    <3> QED BY <1>3, <3>1, <3>2, <3>3, <3>4
  <2>2. unreported' = unreported /\ sent' = sent /\ broken' = broken
    BY <1>3 DEF PostedStep, ReadStep, TimerStep, CloseStep, net, hist
  <2>3. Accounts(st[e], unreported[e], sent[e]) => Accounts(t, unreported'[e], sent'[e])
    BY <2>1, <2>2 DEF SameAccounts, Accounts
  <2>4. st'[e] = t /\ \A x \in Ends : x # e => Untouched(x)
    BY <2>1, <2>2 DEF Becomes, Untouched
  <2>5. Balanced(e)'
    BY <2>1, <2>2, <2>3, <2>4, StaysBalanced
  <2> QED BY <2>4, <2>5, AccountsOfAnEnd
<1>4. CASE WrittenStep(e)
  <2>1. PICK n, w :
            /\ n \in 1 .. unreported[e]
            /\ Divides(st[e].track, n, w) /\ Becomes(e, Crediting(st[e], w))
            /\ unreported' = [unreported EXCEPT ![e] = unreported[e] - n]
    BY <1>4 DEF WrittenStep
  <2>2. PICK t : t = Crediting(st[e], w) /\ t.state = st[e].state
    BY <1>2, OpenKept DEF AsOpen
  <2>3. Accounts(st[e], unreported[e], sent[e]) => Accounts(t, unreported'[e], sent'[e])
    <3>1. unreported'[e] = unreported[e] - n /\ sent'[e] = sent[e]
      BY <1>4, <2>1 DEF TypeOK, WrittenStep, hist
    <3> QED BY <1>2, <2>1, <2>2, <3>1, CreditingAccounts
  <2>4. st'[e] = t /\ broken' = broken /\ \A x \in Ends : x # e => Untouched(x)
    BY <1>4, <2>1, <2>2 DEF Becomes, WrittenStep, Untouched, hist, TypeOK
  <2>5. Balanced(e)'
    BY <2>2, <2>3, <2>4, StaysBalanced
  <2> QED BY <2>4, <2>5, AccountsOfAnEnd
<1>5. CASE WriteStep(e)
  <2>1. PICK t : t = Writing(st[e], sent[e] + 1) /\ Becomes(e, t) /\ t.state = st[e].state
    BY <1>2, <1>5, OpenKept DEF WriteStep, AsOpen
  <2>2. Accounts(st[e], unreported[e], sent[e]) => Accounts(t, unreported'[e], sent'[e])
    <3>1. unreported'[e] = unreported[e] /\ sent'[e] = sent[e] + 1 /\ sent[e] + 1 \in Stanzas
      BY <1>5 DEF WriteStep, TypeOK, net
    <3> QED BY <1>2, <2>1, <3>1, WritingAccounts
  <2>3. st'[e] = t /\ broken' = broken /\ \A x \in Ends : x # e => Untouched(x)
    BY <1>5, <2>1 DEF Becomes, WriteStep, Untouched, net, TypeOK
  <2>4. Balanced(e)'
    BY <2>1, <2>2, <2>3, StaysBalanced
  <2> QED BY <2>3, <2>4, AccountsOfAnEnd
<1>6. CASE DirectStep(e)
  <2>1. PICK t : t = WritingDirect(st[e]) /\ Becomes(e, t) /\ t.state = st[e].state
    BY <1>2, <1>6, OpenKept DEF DirectStep, AsOpen
  <2>2. unreported' = unreported /\ sent' = sent /\ broken' = broken
    BY <1>6 DEF DirectStep, net
  <2>3. Accounts(st[e], unreported[e], sent[e]) => Accounts(t, unreported'[e], sent'[e])
    BY <1>2, <2>1, <2>2, DirectAccounts
  <2>4. st'[e] = t /\ \A x \in Ends : x # e => Untouched(x)
    BY <2>1, <2>2 DEF Becomes, Untouched
  <2>5. Balanced(e)'
    BY <2>1, <2>2, <2>3, <2>4, StaysBalanced
  <2> QED BY <2>4, <2>5, AccountsOfAnEnd
<1>7. CASE FailStep(e)
  <2>1. Balanced(e)'
    <3>1. CASE e = "client" /\ Becomes(e, ResetState(st[e]))
      BY <1>2, <3>1, ResetView DEF Becomes, Balanced, Gone
    <3>2. CASE broken' = broken \cup {e}
      BY <3>2 DEF Balanced, Gone
    <3> QED BY <1>7, <3>1, <3>2 DEF FailStep
  <2>2. \A x \in Ends : x # e => Untouched(x)
    BY <1>7 DEF FailStep, Becomes, Untouched, TypeOK
  <2> QED BY <2>1, <2>2, AccountsOfAnEnd
<1> QED BY <1>1, <1>3, <1>4, <1>5, <1>6, <1>7, FinishAccounts

\* Nothing is tracked or sent at first.
LEMMA InitAccounts ==
    ASSUME Init
    PROVE  TypeOK /\ Shape /\ BytesAccounted
<1>1. PICK f : /\ f = Fresh /\ st = [e \in Ends |-> f]
  BY DEF Init
<1>2. <<>> \in Seq(Element) /\ <<>> \in Seq(TrackItem) /\ <<>> \in Seq(Stanzas)
  OBVIOUS
<1>3. /\ f \in StreamState /\ f.state = "Active" /\ f.proto = "Open" /\ f.track = <<>>
      /\ f.sendList = <<>> /\ f.stanzasPending = 0 /\ f.stanzasWritten = 0 /\ f.told = 0
  BY <1>1, <1>2 DEF Fresh, StreamState
<1>4. TypeOK
  BY <1>1, <1>2, <1>3 DEF Init, TypeOK
<1>5. Shape
  <2>1. \A e \in Ends : MaxSent(e) \in Nat
    BY XmlStreamAssumption DEF XmlStreamAssumption, MaxSent
  <2> QED BY <1>1, <1>3, <2>1 DEF Init, Shape
<1>6. BytesAccounted
  <2>1. Bytes(<<>>) = 0 /\ StanzasIn(<<>>) = 0
    BY BytesFew, StanzasFew
  <2>2. \A e \in Ends : st[e] = f /\ unreported[e] = 0 /\ sent[e] = 0
    BY <1>1 DEF Init
  <2> QED BY <1>3, <2>1, <2>2 DEF BytesAccounted
<1> QED BY <1>4, <1>5, <1>6

\* The first inductive invariant.
AccInv == TypeOK /\ Shape /\ BytesAccounted

\* It is inductive.
LEMMA AccInvStep ==
    ASSUME AccInv, [Next]_vars
    PROVE  AccInv'
<1>1. CASE Next
  <2>1. PICK e \in Ends : Step(e) \/ Event(e) \/ Application(e) \/ Fails(e)
    BY <1>1 DEF Next
  <2> QED BY <2>1, StepTypes, EventTypes, StepAccounts, EventAccounts DEF AccInv
<1>2. CASE UNCHANGED vars
  BY <1>2 DEF AccInv, TypeOK, Shape, BytesAccounted, Gone, vars, net, hist
<1> QED BY <1>1, <1>2

\* The first inductive invariant holds.
LEMMA AccInvHolds == Spec => []AccInv
<1>1. Init => AccInv
  BY InitAccounts DEF AccInv
<1> QED BY <1>1, AccInvStep, PTL DEF Spec

\* Every reachable state has its types, whatever is written, reported, closed or
\* broken: in particular no count goes below zero, and an application is told of
\* the end of its stream at most once.
THEOREM TypeCorrect == Spec => []TypeOK
  BY AccInvHolds, PTL DEF AccInv

\* Every byte that is reported is credited once, to the item it belongs to, and
\* every stanza is accounted for (outgoingDataWritten, itemWritten).
THEOREM BytesAreAccounted == Spec => []BytesAccounted
  BY AccInvHolds, PTL DEF AccInv

-----------------------------------------------------------------------------
(* No lost wakeup.                                                         *)

\* What is left to do, and the events that are asked for, when no loop goes on.
Asleep(s) ==
    /\ s.in # <<>> => s.timer
    /\ s.proto = "Closing" => ~s.closeWritten /\ "NSend" \in s.notify
    /\ s.proto = "Open" =>
         /\ s.parser = <<>> /\ s.stanzasWritten = 0 /\ ~s.doShutdown
         /\ s.sendList # <<>> => s.posted > 0
         /\ "NRecv" \in s.notify
         /\ s.stanzasPending > 0 => "NSend" \in s.notify

Waiting(e) == ~Gone(e) /\ running # e => Asleep(st[e])
Waits == \A e \in Ends : Waiting(e)

\* The other end sleeps on.
LEMMA OthersSleep ==
    ASSUME Waits, NEW e \in Ends,
           \A x \in Ends : x # e => st'[x] = st[x] /\ (x \in broken => x \in broken'),
           running \in {"none", e}, Waiting(e)'
    PROVE  Waits'
<1>1. ASSUME NEW x \in Ends, x # e PROVE Waiting(x)'
  <2>1. running # x /\ Waiting(x)
    BY <1>1 DEF Waits, Ends
  <2>2. Gone(x) => Gone(x)'
    BY <1>1 DEF Gone
  <2> QED BY <1>1, <2>1, <2>2 DEF Waiting
<1> QED BY <1>1 DEF Waits

\* When a loop ends its stream sleeps.
LEMMA StepWaits ==
    ASSUME TypeOK, Shape, Waits, NEW e \in Ends, Step(e)
    PROVE  Waits'
<1>1. /\ running = e
      /\ \/ ClosingStep(e) \/ SendingStep(e) \/ SentStep(e) \/ ElementStep(e)
         \/ EndStep(e) \/ FinishStep(e)
  BY StepKinds
<1>2. st[e] \in StreamState
  BY DEF TypeOK
<1>3. CASE ClosingStep(e) \/ SendingStep(e)
  <2>1. running' = e /\ broken' = broken
    BY <1>1, <1>3 DEF ClosingStep, SendingStep
  <2>2. \A x \in Ends : x # e => st'[x] = st[x]
    BY <1>3 DEF ClosingStep, SendingStep, Emits
  <2> QED BY <1>1, <2>1, <2>2, OthersSleep DEF Waiting
<1>4. CASE SentStep(e) \/ ElementStep(e)
  <2>1. running' = e /\ broken' = broken /\ \A x \in Ends : x # e => st'[x] = st[x]
    BY <1>1, <1>4 DEF SentStep, ElementStep, Becomes, net
  <2> QED BY <1>1, <2>1, OthersSleep DEF Waiting
<1>5. CASE EndStep(e)
  <2>1. PICK t : /\ Becomes(e, t)
                 /\ \/ e = "server" /\ t = Ending(st[e])
                    \/ e = "client" /\ t = EndingLater(st[e])
    BY <1>5 DEF EndStep
  <2>2. /\ t.in # <<>> => t.timer
        /\ t.proto = st[e].proto /\ t.parser = st[e].parser /\ t.sendList = st[e].sendList
        /\ t.stanzasWritten = st[e].stanzasWritten /\ t.doShutdown = st[e].doShutdown
        /\ t.closeWritten = st[e].closeWritten /\ t.stanzasPending = st[e].stanzasPending
        /\ t.notify = Needs(st[e])
    <3>1. CASE t = Ending(st[e])
      BY <1>2, <3>1 DEF Ending, StreamState
    <3>2. CASE t = EndingLater(st[e])
      BY <1>2, <3>2 DEF EndingLater, StreamState
    <3> QED BY <2>1, <3>1, <3>2
  <2>3. Asleep(t)
    BY <1>5, <2>2 DEF EndStep, Asleep, Needs
  <2>4. Waiting(e)'
    BY <2>1, <2>3 DEF Waiting, Becomes
  <2>5. broken' = broken /\ \A x \in Ends : x # e => st'[x] = st[x]
    BY <1>5, <2>1 DEF EndStep, Becomes, net
  <2> QED BY <1>1, <2>4, <2>5, OthersSleep
<1>6. CASE FinishStep(e)
  <2>1. PICK signal \in Signal : Finishes(e, signal)
    BY <1>6 DEF FinishStep
  <2>2. Waiting(e)'
    BY <1>2, <2>1, ResetView DEF Finishes, Waiting, Gone
  <2> QED BY <1>1, <2>1, <2>2, OthersSleep DEF Finishes
<1> QED BY <1>1, <1>3, <1>4, <1>5, <1>6

\* An event wakes a stream that has something to do.
LEMMA EventWaits ==
    ASSUME TypeOK, Shape, BytesAccounted, Waits, running = "none",
           NEW e \in Ends, Event(e) \/ Application(e) \/ Fails(e)
    PROVE  Waits'
<1>1. \/ PostedStep(e) \/ ReadStep(e) \/ WrittenStep(e) \/ TimerStep(e)
      \/ WriteStep(e) \/ DirectStep(e) \/ CloseStep(e)
      \/ ~Gone(e) /\ FinishStep(e)
      \/ FailStep(e)
  BY EventKinds
<1>2. st[e] \in StreamState
  BY DEF TypeOK
<1>3. ~Gone(e) => Asleep(st[e]) /\ st[e].proto \in {"Open", "Closing"}
  <2>1. running # e
    BY DEF Ends
  <2> QED BY <1>2, <2>1 DEF Waits, Waiting, Gone, Shape, StreamState
<1>4. CASE PostedStep(e) \/ DirectStep(e) \/ CloseStep(e)
  <2>1. running' = e /\ broken' = broken /\ \A x \in Ends : x # e => st'[x] = st[x]
    BY <1>4 DEF PostedStep, DirectStep, CloseStep, Becomes, net
  <2> QED BY <2>1, OthersSleep DEF Waiting
<1>5. CASE ReadStep(e)
  <2>1. PICK els, t : Becomes(e, t) /\ t = Receiving(st[e], els)
    BY <1>5 DEF ReadStep
  <2>2. ~Gone(e) /\ broken' = broken /\ running' = IF "NRecv" \in st[e].notify THEN e ELSE "none"
    BY <1>5 DEF ReadStep, RunIf
  <2>3. Waiting(e)'
    <3>1. CASE "NRecv" \in st[e].notify
      BY <2>2, <3>1 DEF Waiting
    <3>2. CASE "NRecv" \notin st[e].notify
      <4>1. st[e].proto = "Closing"
        BY <1>3, <2>2, <3>2 DEF Asleep
      <4>2. /\ t.in = st[e].in /\ t.timer = st[e].timer /\ t.proto = st[e].proto
            /\ t.closeWritten = st[e].closeWritten /\ t.notify = st[e].notify
        BY <1>2, <2>1 DEF Receiving, StreamState
      <4>3. Asleep(t)
        BY <1>3, <2>2, <4>1, <4>2 DEF Asleep
      <4> QED BY <2>1, <4>3 DEF Waiting, Becomes
    <3> QED BY <3>1, <3>2
  <2> QED BY <2>1, <2>2, <2>3, OthersSleep DEF Becomes
<1>6. CASE WrittenStep(e)
  <2>1. PICK n, w, t :
            Divides(st[e].track, n, w) /\ Becomes(e, t) /\ t = Crediting(st[e], w)
    BY <1>6 DEF WrittenStep
  <2>2. ~Gone(e) /\ broken' = broken /\ running' = IF "NSend" \in st[e].notify THEN e ELSE "none"
    BY <1>6 DEF WrittenStep, RunIf
  <2>3. Waiting(e)'
    <3>1. CASE "NSend" \in st[e].notify
      BY <2>2, <3>1 DEF Waiting
    <3>2. CASE "NSend" \notin st[e].notify
      <4>1. st[e].proto = "Open" /\ st[e].stanzasPending = 0
        BY <1>2, <1>3, <2>2, <3>2 DEF Asleep, StreamState
      <4>2. StanzasIn(w.done) = 0
        <5>1. StanzasIn(st[e].track) = 0
          BY <2>2, <4>1 DEF BytesAccounted
        <5> QED BY <2>1, <5>1 DEF Divides
      <4>3. /\ t.in = st[e].in /\ t.timer = st[e].timer /\ t.proto = st[e].proto
            /\ t.parser = st[e].parser /\ t.doShutdown = st[e].doShutdown
            /\ t.sendList = st[e].sendList /\ t.posted = st[e].posted
            /\ t.notify = st[e].notify
            /\ t.stanzasPending = st[e].stanzasPending - StanzasIn(w.done)
            /\ t.stanzasWritten = st[e].stanzasWritten + StanzasIn(w.done)
        BY <1>2, <2>1 DEF Crediting, StreamState
      <4>4. t.stanzasPending = 0 /\ t.stanzasWritten = st[e].stanzasWritten
        <5>1. st[e].stanzasWritten \in Nat
          BY <1>2 DEF StreamState
        <5> QED BY <4>1, <4>2, <4>3, <5>1
      <4>5. Asleep(t)
        BY <1>3, <2>2, <4>1, <4>3, <4>4 DEF Asleep
      <4> QED BY <2>1, <4>5 DEF Waiting, Becomes
    <3> QED BY <3>1, <3>2
  <2> QED BY <2>1, <2>2, <2>3, OthersSleep DEF Becomes
<1>7. CASE TimerStep(e)
  <2>1. PICK t : Becomes(e, t) /\ t = Reading(st[e])
    BY <1>7 DEF TimerStep
  <2>2. running' = running /\ broken' = broken
    BY <1>7 DEF TimerStep, net
  <2>3. /\ t.in = <<>> /\ t.proto = st[e].proto /\ t.state = st[e].state
        /\ t.parser = st[e].parser /\ t.doShutdown = st[e].doShutdown
        /\ t.sendList = st[e].sendList /\ t.posted = st[e].posted
        /\ t.notify = st[e].notify /\ t.closeWritten = st[e].closeWritten
        /\ t.stanzasPending = st[e].stanzasPending /\ t.stanzasWritten = st[e].stanzasWritten
    BY <1>2, <2>1 DEF Reading, StreamState
  <2>4. ~Gone(e) => Asleep(t)
    BY <1>3, <2>3 DEF Asleep
  <2>5. Waiting(e)'
    BY <2>1, <2>2, <2>3, <2>4 DEF Waiting, Becomes, Gone
  <2> QED BY <2>1, <2>2, <2>5, OthersSleep DEF Becomes
<1>8. CASE WriteStep(e)
  <2>1. PICK t : Becomes(e, t) /\ t = Writing(st[e], sent[e] + 1)
    BY <1>8 DEF WriteStep
  <2>2. running' = running /\ broken' = broken
    BY <1>8 DEF WriteStep, net
  <2>3. /\ t.in = st[e].in /\ t.timer = st[e].timer /\ t.proto = st[e].proto
        /\ t.state = st[e].state
        /\ t.parser = st[e].parser /\ t.doShutdown = st[e].doShutdown
        /\ t.posted = st[e].posted + 1
        /\ t.notify = st[e].notify /\ t.closeWritten = st[e].closeWritten
        /\ t.stanzasPending = st[e].stanzasPending /\ t.stanzasWritten = st[e].stanzasWritten
    BY <1>2, <2>1 DEF Writing, StreamState
  <2>4. t.posted > 0
    <3>1. st[e].posted \in Nat
      BY <1>2 DEF StreamState
    <3> QED BY <2>3, <3>1
  <2>5. ~Gone(e) => Asleep(t)
    BY <1>3, <2>3, <2>4 DEF Asleep
  <2>6. Waiting(e)'
    BY <2>1, <2>2, <2>3, <2>5 DEF Waiting, Becomes, Gone
  <2> QED BY <2>1, <2>2, <2>6, OthersSleep DEF Becomes
<1>9. CASE FinishStep(e)
  <2>1. PICK signal \in Signal : Finishes(e, signal)
    BY <1>9 DEF FinishStep
  <2>2. Waiting(e)'
    BY <1>2, <2>1, ResetView DEF Finishes, Waiting, Gone
  <2> QED BY <2>1, <2>2, OthersSleep DEF Finishes
<1>10. CASE FailStep(e)
  <2>1. Waiting(e)'
    <3>1. CASE e = "client" /\ Becomes(e, ResetState(st[e]))
      BY <1>2, <3>1, ResetView DEF Becomes, Waiting, Gone
    <3>2. CASE broken' = broken \cup {e}
      BY <3>2 DEF Waiting, Gone
    <3> QED BY <1>10, <3>1, <3>2 DEF FailStep
  <2>2. \A x \in Ends : x # e => st'[x] = st[x] /\ (x \in broken => x \in broken')
    BY <1>10 DEF FailStep, Becomes
  <2> QED BY <2>1, <2>2, OthersSleep
<1> QED BY <1>1, <1>4, <1>5, <1>6, <1>7, <1>8, <1>9, <1>10

\* The second inductive invariant.
WaitInv == AccInv /\ Waits

\* It is inductive.
LEMMA WaitInvStep ==
    ASSUME WaitInv, [Next]_vars
    PROVE  WaitInv'
<1>1. AccInv'
  BY AccInvStep DEF WaitInv
<1>2. CASE Next
  <2>1. PICK e \in Ends : Step(e) \/ (running = "none" /\ (Event(e) \/ Application(e) \/ Fails(e)))
    <3>1. PICK e \in Ends : Step(e) \/ Event(e) \/ Application(e) \/ (running = "none" /\ Fails(e))
      BY <1>2 DEF Next
    <3>2. Event(e) \/ Application(e) => running = "none"
      BY DEF Event, Application
    <3> QED BY <3>1, <3>2
  <2> QED BY <1>1, <2>1, StepWaits, EventWaits DEF WaitInv, AccInv
<1>3. CASE UNCHANGED vars
  BY <1>1, <1>3 DEF WaitInv, Waits, Waiting, Gone, vars, net, hist
<1> QED BY <1>2, <1>3

\* It holds at first.
LEMMA InitWaits ==
    ASSUME Init
    PROVE  Waits
<1>1. PICK f : /\ f = Fresh /\ st = [e \in Ends |-> f]
  BY DEF Init
<1>2. Asleep(f)
  <2>1. /\ f.in = <<>> /\ f.proto = "Open" /\ f.parser = <<>> /\ f.stanzasWritten = 0
        /\ f.doShutdown = FALSE /\ f.sendList = <<>> /\ f.notify = {"NRecv"}
        /\ f.stanzasPending = 0
    BY <1>1 DEF Fresh
  <2> QED BY <2>1 DEF Asleep
<1> QED BY <1>1, <1>2 DEF Waits, Waiting

\* The second inductive invariant holds.
LEMMA WaitInvHolds == Spec => []WaitInv
<1>1. Init => WaitInv
  BY InitAccounts, InitWaits DEF WaitInv, AccInv
<1> QED BY <1>1, WaitInvStep, PTL DEF Spec

\* An end whose loop has stopped has nothing left to do that the events it asked
\* for, or calls already queued, would not bring up: parsed stanzas have their
\* timer, a closing stream waits for its closing tag, an open one has nothing
\* unparsed, unannounced or unsent (processNext, needTimer, notify).
THEOREM WakesUp == Spec => []NoLostWakeup
<1>1. WaitInv => NoLostWakeup
  <2>1. ASSUME Waits, running = "none", NEW e \in Ends, ~Gone(e) PROVE Asleep(st[e])
    BY <2>1 DEF Waits, Waiting, Ends
  <2> QED BY <2>1 DEF WaitInv, NoLostWakeup, Asleep
<1> QED BY <1>1, WaitInvHolds, PTL

-----------------------------------------------------------------------------
(* Parts of a sequence of elements.                                        *)

\* The numbers of the stanzas of p, and whether they increase.
Numbers(p) == {p[i].n : i \in {j \in DOMAIN p : p[j].t = "stanza"}}
Ordered(p) == \A i, j \in DOMAIN p :
                i < j /\ p[i].t = "stanza" /\ p[j].t = "stanza" => p[i].n < p[j].n

\* Every number of A is less than every number of B.
Below(A, B) == \A m \in A, n \in B : m < n

\* q has some of the stanzas of p, all but k at most, in their order.
Part(q, p, k) ==
    /\ q \in Seq(Element)
    /\ Numbers(q) \subseteq Numbers(p)
    /\ Ordered(p) => Ordered(q)
    /\ StanzasIn(p) <= StanzasIn(q) + k

\* The numbers of the parts of a sequence, and their order.
LEMMA NumbersConcat ==
    ASSUME NEW p \in Seq(Element), NEW q \in Seq(Element)
    PROVE  /\ Numbers(p \o q) = Numbers(p) \cup Numbers(q)
           /\ Ordered(p \o q) <=> Ordered(p) /\ Ordered(q) /\ Below(Numbers(p), Numbers(q))
<1> DEFINE r == p \o q
           m == Len(p)
           n == Len(q)
<1>1. m \in Nat /\ n \in Nat /\ DOMAIN p = 1 .. m /\ DOMAIN q = 1 .. n
  BY LenProperties
<1>2. r \in Seq(Element) /\ Len(r) = m + n
      /\ \A i \in 1 .. m + n : r[i] = IF i <= m THEN p[i] ELSE q[i - m]
  BY ConcatProperties
<1>3. DOMAIN r = 1 .. m + n
  BY <1>2, LenProperties
<1> HIDE DEF r, m, n
<1>4. \A i \in 1 .. m : i \in 1 .. m + n /\ r[i] = p[i]
  BY <1>1, <1>2
<1>5. \A i \in 1 .. n : i + m \in 1 .. m + n /\ r[i + m] = q[i]
  <2>1. ASSUME NEW i \in 1 .. n PROVE i + m \in 1 .. m + n /\ r[i + m] = q[i]
    <3>1. PICK j : j = i + m
      OBVIOUS
    <3>2. j \in 1 .. m + n /\ ~(j <= m) /\ j - m = i
      BY <1>1, <3>1
    <3>3. r[j] = q[j - m]
      BY <1>2, <3>2
    <3> QED BY <3>1, <3>2, <3>3
  <2> QED BY <2>1
<1>6. \A i \in 1 .. m + n : i \in 1 .. m \/ (i - m \in 1 .. n /\ i > m /\ i = (i - m) + m)
  BY <1>1
<1>7. Numbers(r) = Numbers(p) \cup Numbers(q)
  <2>1. Numbers(p) \subseteq Numbers(r)
    BY <1>1, <1>3, <1>4 DEF Numbers
  <2>2. Numbers(q) \subseteq Numbers(r)
    BY <1>1, <1>3, <1>5 DEF Numbers
  <2>3. ASSUME NEW v \in Numbers(r) PROVE v \in Numbers(p) \cup Numbers(q)
    <3>1. PICK i \in 1 .. m + n : r[i].t = "stanza" /\ v = r[i].n
      BY <1>3 DEF Numbers
    <3>2. CASE i \in 1 .. m
      BY <1>1, <1>4, <3>1, <3>2 DEF Numbers
    <3>3. CASE i - m \in 1 .. n /\ i = (i - m) + m
      <4>1. r[i] = q[i - m]
        BY <1>5, <3>3
      <4> QED BY <1>1, <3>1, <3>3, <4>1 DEF Numbers
    <3> QED BY <1>6, <3>2, <3>3
  <2> QED BY <2>1, <2>2, <2>3
<1>8. ASSUME Ordered(r) PROVE Ordered(p) /\ Ordered(q) /\ Below(Numbers(p), Numbers(q))
  <2>1. \A i, j \in 1 .. m + n :
           i < j /\ r[i].t = "stanza" /\ r[j].t = "stanza" => r[i].n < r[j].n
    BY <1>3, <1>8 DEF Ordered
  <2>2. ASSUME NEW i \in 1 .. m, NEW j \in 1 .. m, i < j, p[i].t = "stanza", p[j].t = "stanza"
        PROVE  p[i].n < p[j].n
    BY <1>4, <2>1, <2>2
  <2>3. ASSUME NEW i \in 1 .. n, NEW j \in 1 .. n, i < j, q[i].t = "stanza", q[j].t = "stanza"
        PROVE  q[i].n < q[j].n
    <3>1. i + m < j + m
      BY <1>1, <2>3
    <3> QED BY <1>5, <2>1, <2>3, <3>1
  <2>4. ASSUME NEW i \in 1 .. m, NEW j \in 1 .. n, p[i].t = "stanza", q[j].t = "stanza"
        PROVE  p[i].n < q[j].n
    <3>1. i < j + m
      BY <1>1
    <3> QED BY <1>4, <1>5, <2>1, <2>4, <3>1
  <2>5. Ordered(p)
    BY <1>1, <2>2 DEF Ordered
  <2>6. Ordered(q)
    BY <1>1, <2>3 DEF Ordered
  <2>7. Below(Numbers(p), Numbers(q))
    BY <1>1, <2>4 DEF Below, Numbers
  <2> QED BY <2>5, <2>6, <2>7
<1>9. ASSUME Ordered(p), Ordered(q), Below(Numbers(p), Numbers(q)) PROVE Ordered(r)
  <2>1. ASSUME NEW i \in 1 .. m + n, NEW j \in 1 .. m + n, i < j,
               r[i].t = "stanza", r[j].t = "stanza"
        PROVE  r[i].n < r[j].n
    <3>1. CASE j \in 1 .. m
      <4>1. i \in 1 .. m
        BY <1>1, <2>1, <3>1
      <4> QED BY <1>1, <1>4, <1>9, <2>1, <3>1, <4>1 DEF Ordered
    <3>2. CASE i \in 1 .. m /\ j - m \in 1 .. n /\ j = (j - m) + m
      <4>1. r[i] = p[i] /\ r[j] = q[j - m]
        BY <1>4, <1>5, <3>2
      <4>2. p[i].n \in Numbers(p) /\ q[j - m].n \in Numbers(q)
        BY <1>1, <2>1, <3>2, <4>1 DEF Numbers
      <4> QED BY <1>9, <4>1, <4>2 DEF Below
    <3>3. CASE i - m \in 1 .. n /\ i = (i - m) + m /\ j - m \in 1 .. n /\ j = (j - m) + m
      <4>1. r[i] = q[i - m] /\ r[j] = q[j - m]
        BY <1>5, <3>3
      <4>2. i - m < j - m
        BY <1>1, <2>1
      <4> QED BY <1>1, <1>9, <2>1, <3>3, <4>1, <4>2 DEF Ordered
    <3> QED BY <1>6, <3>1, <3>2, <3>3
  <2> QED BY <1>3, <2>1 DEF Ordered
<1> QED BY <1>7, <1>8, <1>9 DEF r

\* The numbers of stanzas are numbers.
LEMMA NumbersAreStanzas ==
    ASSUME NEW p \in Seq(Element), NEW n \in Numbers(p)
    PROVE  n \in Nat
<1>1. PICK i \in DOMAIN p : p[i].t = "stanza" /\ n = p[i].n
  BY DEF Numbers
<1>2. p[i] \in Element
  BY LenProperties, ElementOfSeq
<1> QED BY <1>1, <1>2 DEF Element, Stanzas

\* Parts of parts of a sequence are a part of it.
LEMMA PartConcat ==
    ASSUME NEW p1 \in Seq(Element), NEW p2 \in Seq(Element), NEW q1, NEW q2,
           NEW j \in Nat, NEW k \in Nat, Part(q1, p1, j), Part(q2, p2, k)
    PROVE  Part(q1 \o q2, p1 \o p2, j + k)
<1>1. q1 \in Seq(Element) /\ q2 \in Seq(Element)
  BY DEF Part
<1>2. q1 \o q2 \in Seq(Element)
  BY <1>1, ConcatProperties
<1>3. /\ Numbers(q1 \o q2) = Numbers(q1) \cup Numbers(q2)
      /\ Numbers(p1 \o p2) = Numbers(p1) \cup Numbers(p2)
      /\ Ordered(q1 \o q2) <=> Ordered(q1) /\ Ordered(q2) /\ Below(Numbers(q1), Numbers(q2))
      /\ Ordered(p1 \o p2) <=> Ordered(p1) /\ Ordered(p2) /\ Below(Numbers(p1), Numbers(p2))
  BY <1>1, NumbersConcat
<1>4. Numbers(q1) \subseteq Numbers(p1) /\ Numbers(q2) \subseteq Numbers(p2)
  BY DEF Part
<1>5. Ordered(p1 \o p2) => Ordered(q1 \o q2)
  BY <1>3, <1>4 DEF Part, Below
<1>6. StanzasIn(p1 \o p2) <= StanzasIn(q1 \o q2) + (j + k)
  <2>1. /\ StanzasIn(p1) \in Nat /\ StanzasIn(p2) \in Nat
        /\ StanzasIn(p1 \o p2) = StanzasIn(p1) + StanzasIn(p2)
        /\ StanzasIn(q1) \in Nat /\ StanzasIn(q2) \in Nat
        /\ StanzasIn(q1 \o q2) = StanzasIn(q1) + StanzasIn(q2)
    BY <1>1, StanzasConcat
  <2>2. StanzasIn(p1) <= StanzasIn(q1) + j /\ StanzasIn(p2) <= StanzasIn(q2) + k
    BY DEF Part
  <2> QED BY <2>1, <2>2
<1> QED BY <1>2, <1>3, <1>4, <1>5, <1>6 DEF Part

\* A sequence is part of itself.
LEMMA PartSame ==
    ASSUME NEW p \in Seq(Element)
    PROVE  StanzasIn(p) \in Nat /\ Part(p, p, 0)
<1>1. StanzasIn(p) \in Nat
  BY StanzasConcat
<1> QED BY <1>1 DEF Part

\* The empty sequence is part of every one.
LEMMA PartNone ==
    ASSUME NEW p \in Seq(Element)
    PROVE  Part(<<>>, p, StanzasIn(p))
<1>1. StanzasIn(p) \in Nat /\ StanzasIn(<<>>) = 0
  BY StanzasConcat, StanzasFew
<1>2. <<>> \in Seq(Element) /\ Numbers(<<>>) = {} /\ Ordered(<<>>)
  BY DEF Numbers, Ordered
<1> QED BY <1>1, <1>2 DEF Part

\* So are its beginning and what follows it.
LEMMA PartSplit ==
    ASSUME NEW p \in Seq(Element), NEW q \in Seq(Element)
    PROVE  Part(p, p \o q, StanzasIn(q)) /\ Part(q, p \o q, StanzasIn(p))
<1>1. /\ StanzasIn(p) \in Nat /\ StanzasIn(q) \in Nat
      /\ StanzasIn(p \o q) = StanzasIn(p) + StanzasIn(q)
  BY StanzasConcat
<1>2. /\ StanzasIn(p \o q) <= StanzasIn(p) + StanzasIn(q)
      /\ StanzasIn(p \o q) <= StanzasIn(q) + StanzasIn(p)
  BY <1>1
<1> QED BY <1>2, NumbersConcat DEF Part

\* Without its first element a sequence has lost one stanza at most.
LEMMA PartTail ==
    ASSUME NEW p \in Seq(Element), p # <<>>
    PROVE  /\ Head(p) \in Element /\ <<Head(p)>> \in Seq(Element) /\ Tail(p) \in Seq(Element)
           /\ p = <<Head(p)>> \o Tail(p)
           /\ Part(Tail(p), p, 1)
<1>1. PICK x \in Element, q \in Seq(Element) : x = Head(p) /\ q = Tail(p)
  BY HeadTailProperties
<1>2. <<x>> \in Seq(Element) /\ p = <<x>> \o q
  BY <1>1
<1>3. Numbers(q) \subseteq Numbers(p) /\ (Ordered(p) => Ordered(q))
  BY <1>2, NumbersConcat
<1>4. /\ StanzasIn(q) \in Nat
      /\ StanzasIn(p) = StanzasIn(q) + (IF x.t = "stanza" THEN 1 ELSE 0)
  BY <1>1, StanzasTail
<1>5. StanzasIn(p) <= StanzasIn(q) + 1
  BY <1>4
<1> QED BY <1>1, <1>2, <1>3, <1>5 DEF Part

\* Elements that are no stanzas change nothing.
LEMMA PartMore ==
    ASSUME NEW p \in Seq(Element), NEW els \in Seq(Element), StanzasIn(els) = 0,
           \A i \in DOMAIN els : els[i].t # "stanza"
    PROVE  Part(p \o els, p, 0)
<1>1. Numbers(els) = {} /\ Ordered(els)
  BY DEF Numbers, Ordered
<1>2. p \o els \in Seq(Element) /\ Numbers(p \o els) = Numbers(p) /\ (Ordered(p \o els) <=> Ordered(p))
  <2>1. /\ Numbers(p \o els) = Numbers(p) \cup Numbers(els)
        /\ Ordered(p \o els) <=> Ordered(p) /\ Ordered(els) /\ Below(Numbers(p), Numbers(els))
    BY NumbersConcat
  <2>2. Below(Numbers(p), {})
    BY DEF Below
  <2>3. p \o els \in Seq(Element)
    BY ConcatProperties
  <2> QED BY <1>1, <2>1, <2>2, <2>3
<1>3. /\ StanzasIn(p) \in Nat
      /\ StanzasIn(p \o els) = StanzasIn(p) + StanzasIn(els)
  BY StanzasConcat
<1>4. StanzasIn(p) <= StanzasIn(p \o els) + 0
  BY <1>3
<1> QED BY <1>2, <1>4 DEF Part

\* A stanza with a number that is greater than all others goes last.
LEMMA OrderedAppend ==
    ASSUME NEW p \in Seq(Element), NEW n \in Stanzas, Ordered(p), \A m \in Numbers(p) : m < n
    PROVE  /\ Ordered(p \o <<Stanza(n)>>)
           /\ Numbers(p \o <<Stanza(n)>>) = Numbers(p) \cup {n}
           /\ StanzasIn(p) \in Nat
           /\ StanzasIn(p \o <<Stanza(n)>>) = StanzasIn(p) + 1
<1>1. PICK x \in Element : x = Stanza(n) /\ x.t = "stanza" /\ x.n = n
  BY MadeElements
<1>2. <<x>> \in Seq(Element) /\ DOMAIN <<x>> = {1} /\ <<x>>[1] = x
  OBVIOUS
<1>3. Numbers(<<x>>) = {n} /\ Ordered(<<x>>)
  <2>1. Numbers(<<x>>) = {n}
    BY <1>1, <1>2 DEF Numbers
  <2>2. ~(1 < 1)
    OBVIOUS
  <2>3. Ordered(<<x>>)
    BY <1>2, <2>2 DEF Ordered
  <2> QED BY <2>1, <2>3
<1>4. Numbers(p \o <<x>>) = Numbers(p) \cup {n} /\ Ordered(p \o <<x>>)
  <2>1. /\ Numbers(p \o <<x>>) = Numbers(p) \cup Numbers(<<x>>)
        /\ Ordered(p \o <<x>>)
             <=> Ordered(p) /\ Ordered(<<x>>) /\ Below(Numbers(p), Numbers(<<x>>))
    BY <1>2, NumbersConcat
  <2>2. Below(Numbers(p), {n})
    BY DEF Below
  <2> QED BY <1>3, <2>1, <2>2
<1>5. StanzasIn(<<x>>) = 1
  BY <1>1, StanzasFew
<1>6. StanzasIn(p) \in Nat /\ StanzasIn(p \o <<x>>) = StanzasIn(p) + 1
  BY <1>2, <1>5, StanzasConcat
<1> QED BY <1>1, <1>4, <1>6

-----------------------------------------------------------------------------
(* The pipeline to an application.                                         *)

\* The elements the application took, those in the parser, those on the wire and
\* those in the list of the sender.
Taking(q) == [i \in DOMAIN q |-> Stanza(q[i])]
Pipe(q, p, w, l) == Taking(q) \o p \o w \o l

\* What was taken are stanzas.
LEMMA TakingType ==
    ASSUME NEW q \in Seq(Stanzas)
    PROVE  /\ Taking(q) \in Seq(Element) /\ Len(Taking(q)) = Len(q)
           /\ \A i \in 1 .. Len(q) : Taking(q)[i] = Stanza(q[i])
           /\ StanzasIn(Taking(q)) = Len(q)
<1>1. Len(q) \in Nat /\ DOMAIN q = 1 .. Len(q) /\ \A i \in 1 .. Len(q) : q[i] \in Stanzas
  BY LenProperties, ElementOfSeq
<1>2. Taking(q) = [i \in 1 .. Len(q) |-> Stanza(q[i])]
  BY <1>1 DEF Taking
<1>3. \A i \in 1 .. Len(q) : Stanza(q[i]) \in Element /\ Stanza(q[i]).t = "stanza"
  BY <1>1, MadeElements
<1>4. Taking(q) \in Seq(Element) /\ Len(Taking(q)) = Len(q)
  BY <1>1, <1>2, <1>3
<1>5. {i \in DOMAIN Taking(q) : Taking(q)[i].t = "stanza"} = 1 .. Len(q)
  BY <1>1, <1>2, <1>3
<1>6. StanzasIn(Taking(q)) = Len(q)
  <2>1. PICK n \in Nat : n = Len(q)
    BY <1>1
  <2>2. Cardinality(1 .. n) = n
    BY FS_Interval
  <2> QED BY <1>5, <2>1, <2>2 DEF StanzasIn
<1> QED BY <1>1, <1>2, <1>4, <1>6

\* One more is taken.
LEMMA TakingAppend ==
    ASSUME NEW q \in Seq(Stanzas), NEW n \in Stanzas
    PROVE  Taking(Append(q, n)) = Taking(q) \o <<Stanza(n)>>
<1> DEFINE r == Append(q, n)
           x == Stanza(n)
<1>1. Len(q) \in Nat /\ DOMAIN q = 1 .. Len(q)
  BY LenProperties
<1>2. /\ r \in Seq(Stanzas) /\ Len(r) = Len(q) + 1
      /\ \A i \in 1 .. Len(q) : r[i] = q[i]
      /\ r[Len(q) + 1] = n
  BY AppendProperties
<1>3. Taking(q) \in Seq(Element) /\ Taking(r) \in Seq(Element) /\ <<x>> \in Seq(Element)
  <2>1. x \in Element
    BY MadeElements
  <2> HIDE DEF r, x
  <2> QED BY <1>2, <2>1, TakingType
<1>4. /\ Len(Taking(q)) = Len(q) /\ Len(Taking(r)) = Len(q) + 1
      /\ \A i \in 1 .. Len(q) : Taking(q)[i] = Stanza(q[i])
      /\ \A i \in 1 .. Len(q) + 1 : Taking(r)[i] = Stanza(r[i])
  <2> HIDE DEF r
  <2> QED BY <1>2, TakingType
<1> HIDE DEF r
<1>5. /\ Taking(q) \o <<x>> \in Seq(Element)
      /\ Len(Taking(q) \o <<x>>) = Len(q) + 1
      /\ \A i \in 1 .. Len(q) + 1 :
            (Taking(q) \o <<x>>)[i] = IF i <= Len(q) THEN Taking(q)[i] ELSE <<x>>[i - Len(q)]
  BY <1>3, <1>4, ConcatProperties
<1>6. \A i \in 1 .. Len(q) + 1 : Taking(r)[i] = (Taking(q) \o <<x>>)[i]
  <2>1. ASSUME NEW i \in 1 .. Len(q) PROVE Taking(r)[i] = (Taking(q) \o <<x>>)[i]
    <3>1. i <= Len(q) /\ i \in 1 .. Len(q) + 1
      BY <1>1
    <3> QED BY <1>2, <1>4, <1>5, <3>1
  <2>2. Taking(r)[Len(q) + 1] = (Taking(q) \o <<x>>)[Len(q) + 1]
    <3>1. PICK k : k = Len(q) + 1
      OBVIOUS
    <3>2. ~(k <= Len(q)) /\ k \in 1 .. Len(q) + 1 /\ k - Len(q) = 1
      BY <1>1, <3>1
    <3>3. (Taking(q) \o <<x>>)[k] = <<x>>[1]
      BY <1>5, <3>2
    <3>4. <<x>>[1] = x
      OBVIOUS
    <3>5. Taking(r)[k] = Stanza(n)
      BY <1>2, <1>4, <3>1, <3>2
    <3> QED BY <3>1, <3>3, <3>4, <3>5
  <2>3. \A i \in 1 .. Len(q) + 1 : i \in 1 .. Len(q) \/ i = Len(q) + 1
    BY <1>1
  <2> QED BY <2>1, <2>2, <2>3
<1>7. Taking(r) = Taking(q) \o <<x>>
  BY <1>3, <1>4, <1>5, <1>6, SeqEqual
<1> QED BY <1>7 DEF r

\* The order in which three sequences are joined makes no difference.
Joined(a, b, c) == a \o b \o c = a \o (b \o c)

\* It makes none.
LEMMA AllJoined ==
    ASSUME NEW S, NEW a \in Seq(S), NEW b \in Seq(S), NEW c \in Seq(S)
    PROVE  Joined(a, b, c)
  BY ConcatAssociative DEF Joined

\* Appending to the second of two sequences appends to both.
LEMMA AppendPushes ==
    ASSUME NEW S, NEW a \in Seq(S), NEW b \in Seq(S), NEW n \in S
    PROVE  a \o Append(b, n) = Append(a \o b, n)
<1>1. <<n>> \in Seq(S) /\ Append(b, n) = b \o <<n>>
  BY AppendIsConcat
<1>2. PICK c \in Seq(S) : c = a \o b
  BY ConcatProperties
<1>3. Append(c, n) = c \o <<n>>
  BY AppendIsConcat
<1>4. a \o (b \o <<n>>) = a \o b \o <<n>>
  BY <1>1, AllJoined DEF Joined
<1> QED BY <1>1, <1>2, <1>3, <1>4

\* A pipeline is a sequence, and its stanzas are those of its segments.
LEMMA PipeType ==
    ASSUME NEW q \in Seq(Stanzas), NEW p \in Seq(Element), NEW w \in Seq(Element),
           NEW l \in Seq(Element)
    PROVE  /\ Taking(q) \in Seq(Element) /\ Taking(q) \o p \in Seq(Element)
           /\ Taking(q) \o p \o w \in Seq(Element)
           /\ Pipe(q, p, w, l) \in Seq(Element)
<1>1. PICK a \in Seq(Element) : a = Taking(q)
  BY TakingType
<1>2. a \o p \in Seq(Element)
  BY ConcatProperties
<1>3. a \o p \o w \in Seq(Element)
  BY <1>2, ConcatProperties
<1>4. a \o p \o w \o l \in Seq(Element)
  BY <1>3, ConcatProperties
<1> QED BY <1>1, <1>2, <1>3, <1>4 DEF Pipe

\* Segments that lose stanzas make a pipeline that does.
LEMMA PipeParts ==
    ASSUME NEW q \in Seq(Stanzas), NEW p \in Seq(Element), NEW w \in Seq(Element),
           NEW l \in Seq(Element), NEW p2, NEW w2, NEW l2,
           NEW i \in Nat, NEW j \in Nat, NEW k \in Nat,
           Part(p2, p, i), Part(w2, w, j), Part(l2, l, k)
    PROVE  Part(Pipe(q, p2, w2, l2), Pipe(q, p, w, l), i + j + k)
<1>1. PICK a \in Seq(Element) : a = Taking(q)
  BY TakingType
<1>2. Part(a, a, 0)
  BY PartSame
<1>3. Part(a \o p2, a \o p, 0 + i)
  BY <1>2, PartConcat
<1>4. a \o p \in Seq(Element)
  BY ConcatProperties
<1>5. 0 + i \in Nat /\ 0 + i + j \in Nat /\ 0 + i + j + k = i + j + k
  OBVIOUS
<1>6. Part(a \o p2 \o w2, a \o p \o w, 0 + i + j)
  BY <1>3, <1>4, <1>5, PartConcat
<1>7. a \o p \o w \in Seq(Element)
  BY <1>4, ConcatProperties
<1>8. Part(a \o p2 \o w2 \o l2, a \o p \o w \o l, 0 + i + j + k)
  BY <1>5, <1>6, <1>7, PartConcat
<1> QED BY <1>1, <1>5, <1>8 DEF Pipe

\* The application takes the first element of the parser.
LEMMA PipeTaken ==
    ASSUME NEW q \in Seq(Stanzas), NEW p \in Seq(Element), NEW w \in Seq(Element),
           NEW l \in Seq(Element), p # <<>>, Head(p).t = "stanza"
    PROVE  /\ Head(p).n \in Stanzas
           /\ Pipe(Append(q, Head(p).n), Tail(p), w, l) = Pipe(q, p, w, l)
<1>1. PICK x \in Element, r \in Seq(Element) :
         x = Head(p) /\ <<x>> \in Seq(Element) /\ r = Tail(p) /\ p = <<x>> \o r
  BY PartTail
<1>2. x.n \in Stanzas /\ x = Stanza(x.n)
  BY <1>1 DEF Element, Stanza
<1>3. Taking(Append(q, x.n)) = Taking(q) \o <<x>>
  BY <1>2, TakingAppend
<1>4. Joined(Taking(q), <<x>>, r)
  BY <1>1, TakingType, AllJoined
<1>5. Taking(Append(q, x.n)) \o r = Taking(q) \o p
  BY <1>1, <1>3, <1>4 DEF Joined
<1> QED BY <1>1, <1>2, <1>5 DEF Pipe

\* Moving the third of four segments to the one before it.
Regroups(a, b, x, y) == a \o (b \o x) \o y = a \o b \o (x \o y)

\* It leaves the whole as it is.
LEMMA Regrouped ==
    ASSUME NEW S, NEW a \in Seq(S), NEW b \in Seq(S), NEW x \in Seq(S), NEW y \in Seq(S)
    PROVE  Regroups(a, b, x, y)
<1>1. Joined(a, b, x)
  BY AllJoined
<1>2. PICK c \in Seq(S) : c = a \o b
  BY ConcatProperties
<1>3. Joined(c, x, y)
  BY AllJoined
<1> QED BY <1>1, <1>2, <1>3 DEF Regroups, Joined

\* The parser receives from the wire.
LEMMA PipeRead ==
    ASSUME NEW q \in Seq(Stanzas), NEW p \in Seq(Element), NEW w \in Seq(Element),
           NEW l \in Seq(Element), NEW k \in 0 .. Len(w)
    PROVE  Pipe(q, p \o SubSeq(w, 1, k), SubSeq(w, k + 1, Len(w)), l) = Pipe(q, p, w, l)
<1>1. /\ SubSeq(w, 1, k) \in Seq(Element) /\ SubSeq(w, k + 1, Len(w)) \in Seq(Element)
      /\ w = SubSeq(w, 1, k) \o SubSeq(w, k + 1, Len(w))
  BY PicksSplit
<1>2. Taking(q) \in Seq(Element)
  BY TakingType
<1>3. Regroups(Taking(q), p, SubSeq(w, 1, k), SubSeq(w, k + 1, Len(w)))
  BY <1>1, <1>2, Regrouped
<1>4. Taking(q) \o (p \o SubSeq(w, 1, k)) \o SubSeq(w, k + 1, Len(w)) = Taking(q) \o p \o w
  BY <1>1, <1>3 DEF Regroups
<1> QED BY <1>4 DEF Pipe

\* The first item of the list goes to the wire.
LEMMA PipeSent ==
    ASSUME NEW q \in Seq(Stanzas), NEW p \in Seq(Element), NEW w \in Seq(Element),
           NEW l \in Seq(Element), l # <<>>
    PROVE  Pipe(q, p, w \o <<Head(l)>>, Tail(l)) = Pipe(q, p, w, l)
<1>1. PICK x \in Element, r \in Seq(Element) :
         x = Head(l) /\ <<x>> \in Seq(Element) /\ r = Tail(l) /\ l = <<x>> \o r
  BY PartTail
<1>2. PICK b \in Seq(Element) : b = Taking(q) \o p
  BY PipeType
<1>3. Joined(b, w, <<x>>)
  BY <1>1, AllJoined
<1>4. PICK c \in Seq(Element) : c = b \o w
  BY ConcatProperties
<1>5. Joined(c, <<x>>, r)
  BY <1>1, AllJoined
<1>6. b \o (w \o <<x>>) \o r = b \o w \o l
  BY <1>1, <1>3, <1>4, <1>5 DEF Joined
<1> QED BY <1>1, <1>2, <1>6 DEF Pipe

\* What is appended to the list comes last.
LEMMA PipeWritten ==
    ASSUME NEW q \in Seq(Stanzas), NEW p \in Seq(Element), NEW w \in Seq(Element),
           NEW l \in Seq(Element), NEW x \in Element
    PROVE  Pipe(q, p, w, Append(l, x)) = Pipe(q, p, w, l) \o <<x>>
<1>1. <<x>> \in Seq(Element) /\ Append(l, x) = l \o <<x>>
  BY AppendIsConcat
<1>2. PICK c \in Seq(Element) : c = Taking(q) \o p \o w
  BY PipeType
<1>3. Joined(c, l, <<x>>)
  BY <1>1, AllJoined
<1> QED BY <1>1, <1>2, <1>3 DEF Pipe, Joined

\* The pipeline of the model has these segments.
LEMMA PipelineIsPipe ==
    ASSUME TypeOK, NEW x \in Ends
    PROVE  /\ Pipeline(x) = Pipe(got[x] \o st[x].in, st[x].parser, wire[x], st[Other(x)].sendList)
           /\ got[x] \o st[x].in \in Seq(Stanzas)
           /\ got[x] \in Seq(Stanzas) /\ st[x].in \in Seq(Stanzas)
           /\ st[x].parser \in Seq(Element) /\ wire[x] \in Seq(Element)
           /\ st[Other(x)].sendList \in Seq(Element)
           /\ Pipeline(x) \in Seq(Element) /\ StanzasIn(Pipeline(x)) \in Nat
<1>1. st[x] \in StreamState /\ st[Other(x)] \in StreamState
  BY TwoEnds DEF TypeOK
<1>2. /\ got[x] \in Seq(Stanzas) /\ st[x].in \in Seq(Stanzas)
      /\ st[x].parser \in Seq(Element) /\ wire[x] \in Seq(Element)
      /\ st[Other(x)].sendList \in Seq(Element)
  BY <1>1 DEF TypeOK, StreamState
<1>3. got[x] \o st[x].in \in Seq(Stanzas)
  BY <1>2, ConcatProperties
<1>4. Pipeline(x) = Pipe(got[x] \o st[x].in, st[x].parser, wire[x], st[Other(x)].sendList)
  BY DEF Pipeline, Pipe, Taking
<1>5. Pipeline(x) \in Seq(Element)
  <2>1. Pipe(got[x] \o st[x].in, st[x].parser, wire[x], st[Other(x)].sendList) \in Seq(Element)
    BY <1>2, <1>3, PipeType
  <2> QED BY <1>4, <2>1
<1>6. StanzasIn(Pipeline(x)) \in Nat
  BY <1>5, PartSame
<1> QED BY <1>2, <1>3, <1>4, <1>5, <1>6

-----------------------------------------------------------------------------
(* Order and loss.                                                         *)

IsOpen(x) == st[x].state = "Active" /\ st[x].proto = "Open" /\ ~Gone(x)
AllOpen == \A x \in Ends : IsOpen(x)

\* What the application of x wrote.
WrittenBy(x) == sent[x] + (IF x = "client" THEN directs ELSE 0)

\* Every item that x sent cost it one stanza at most.
LostFew(x) ==
    AllOpen => sent[Other(x)] + Len(st[x].sendList) <= StanzasIn(Pipeline(x)) + WrittenBy(x)

\* The pipeline to x is in order, none of its numbers is new, and few were lost.
Flow(x) ==
    /\ Ordered(Pipeline(x))
    /\ \A n \in Numbers(Pipeline(x)) : n <= sent[Other(x)]
    /\ LostFew(x)

\* A step keeps the order of what goes to x, and x sends what it loses.
Flows(x) ==
    /\ sent'[Other(x)] = sent[Other(x)]
    /\ \E k \in Nat :
         /\ Part(Pipeline(x)', Pipeline(x), k)
         /\ AllOpen' => /\ AllOpen
                        /\ Len(st'[x].sendList) + k + WrittenBy(x)
                             <= Len(st[x].sendList) + WrittenBy(x)'

\* The numbers that an end counts.
LEMMA Counts ==
    ASSUME TypeOK, NEW x \in Ends
    PROVE  /\ sent[x] \in Nat /\ sent[Other(x)] \in Nat /\ directs \in Nat
           /\ WrittenBy(x) \in Nat /\ Len(st[x].sendList) \in Nat
<1>1. sent[x] \in Nat /\ sent[Other(x)] \in Nat /\ directs \in Nat
  BY TwoEnds DEF TypeOK
<1>2. WrittenBy(x) \in Nat
  BY <1>1 DEF WrittenBy
<1>3. Len(st[x].sendList) \in Nat
  BY LenProperties DEF TypeOK, StreamState
<1> QED BY <1>1, <1>2, <1>3

\* The same in the next state.
LEMMA CountsNext ==
    ASSUME TypeOK', NEW x \in Ends
    PROVE  WrittenBy(x)' \in Nat /\ Len(st'[x].sendList) \in Nat
<1>1. sent'[x] \in Nat /\ directs' \in Nat
  BY DEF TypeOK
<1>2. WrittenBy(x)' \in Nat
  BY <1>1 DEF WrittenBy
<1>3. Len(st'[x].sendList) \in Nat
  BY LenProperties DEF TypeOK, StreamState
<1> QED BY <1>2, <1>3

\* Such a step keeps the order.
LEMMA FlowKept ==
    ASSUME TypeOK, TypeOK', NEW x \in Ends, Flow(x), Flows(x)
    PROVE  Flow(x)'
<1>1. PICK k \in Nat :
         /\ Part(Pipeline(x)', Pipeline(x), k)
         /\ AllOpen' => /\ AllOpen
                        /\ Len(st'[x].sendList) + k + WrittenBy(x)
                             <= Len(st[x].sendList) + WrittenBy(x)'
  BY DEF Flows
<1>2. sent'[Other(x)] = sent[Other(x)]
  BY DEF Flows
<1>3. Ordered(Pipeline(x))' /\ \A n \in Numbers(Pipeline(x))' : n <= sent'[Other(x)]
  BY <1>1, <1>2 DEF Part, Flow
<1>4. ASSUME AllOpen'
      PROVE  sent'[Other(x)] + Len(st'[x].sendList) <= StanzasIn(Pipeline(x))' + WrittenBy(x)'
  <2>1. /\ sent[Other(x)] + Len(st[x].sendList) <= StanzasIn(Pipeline(x)) + WrittenBy(x)
        /\ StanzasIn(Pipeline(x)) <= StanzasIn(Pipeline(x))' + k
        /\ Len(st'[x].sendList) + k + WrittenBy(x) <= Len(st[x].sendList) + WrittenBy(x)'
    BY <1>1, <1>4 DEF Flow, LostFew, Part
  <2>2. /\ sent[Other(x)] \in Nat /\ WrittenBy(x) \in Nat /\ Len(st[x].sendList) \in Nat
        /\ WrittenBy(x)' \in Nat /\ Len(st'[x].sendList) \in Nat
    BY Counts, CountsNext
  <2>3. StanzasIn(Pipeline(x)) \in Nat /\ StanzasIn(Pipeline(x))' \in Nat
    <3>1. Pipeline(x)' \in Seq(Element)
      BY <1>1 DEF Part
    <3>2. StanzasIn(Pipeline(x)') \in Nat
      BY <3>1, PartSame
    <3>3. StanzasIn(Pipeline(x))' = StanzasIn(Pipeline(x)')
      BY DEF StanzasIn
    <3> QED BY <3>2, <3>3, PipelineIsPipe
  <2>4. PICK a, b, c, d, p, q, n, m :
          /\ a = sent[Other(x)] /\ b = WrittenBy(x) /\ c = Len(st[x].sendList)
          /\ d = WrittenBy(x)' /\ m = Len(st'[x].sendList)
          /\ p = StanzasIn(Pipeline(x)) /\ q = StanzasIn(Pipeline(x))'
          /\ n = sent'[Other(x)]
    OBVIOUS
  <2>5. /\ a \in Nat /\ b \in Nat /\ c \in Nat /\ d \in Nat /\ p \in Nat /\ q \in Nat
        /\ m \in Nat /\ n = a
        /\ a + c <= p + b /\ p <= q + k /\ m + k + b <= c + d
    <3>1. p <= q + k
      BY <2>1, <2>4 DEF StanzasIn
    <3> QED BY <1>2, <2>1, <2>2, <2>3, <2>4, <3>1
  <2>6. n + m <= q + d
    BY <2>5
  <2> QED BY <2>4, <2>6
<1> QED BY <1>3, <1>4 DEF Flow, LostFew

\* The pipeline in the next state has the segments of that state.
LEMMA PipelineNext ==
    ASSUME NEW x \in Ends
    PROVE  Pipeline(x)' = Pipe(got'[x] \o st'[x].in, st'[x].parser, wire'[x], st'[Other(x)].sendList)
  BY DEF Pipeline, Pipe, Taking

\* A step that takes a part of every segment.
LEMMA PartFlows ==
    ASSUME TypeOK, NEW x \in Ends, NEW i \in Nat, NEW j \in Nat, NEW k \in Nat,
           got'[x] \o st'[x].in = got[x] \o st[x].in,
           Part(st'[x].parser, st[x].parser, i), Part(wire'[x], wire[x], j),
           Part(st'[Other(x)].sendList, st[Other(x)].sendList, k),
           sent'[Other(x)] = sent[Other(x)],
           AllOpen' => /\ AllOpen
                       /\ Len(st'[x].sendList) + (i + j + k) + WrittenBy(x)
                            <= Len(st[x].sendList) + WrittenBy(x)'
    PROVE  Flows(x)
<1>1. Part(Pipeline(x)', Pipeline(x), i + j + k)
  <2>1. Part(Pipe(got[x] \o st[x].in, st'[x].parser, wire'[x], st'[Other(x)].sendList),
             Pipe(got[x] \o st[x].in, st[x].parser, wire[x], st[Other(x)].sendList), i + j + k)
    BY PipelineIsPipe, PipeParts
  <2>2. Pipeline(x)' = Pipe(got[x] \o st[x].in, st'[x].parser, wire'[x], st'[Other(x)].sendList)
    BY PipelineNext
  <2> QED BY <2>1, <2>2, PipelineIsPipe
<1>2. i + j + k \in Nat
  OBVIOUS
<1> QED BY <1>1, <1>2 DEF Flows

\* Nothing that was closed or broken is opened by a change of one end.
LEMMA OpenBefore ==
    ASSUME NEW e \in Ends, \A x \in Ends : x # e => st'[x] = st[x],
           broken \subseteq broken',
           st'[e].state = "Active" /\ st'[e].proto = "Open"
             => st[e].state = "Active" /\ st[e].proto = "Open"
    PROVE  AllOpen' => AllOpen
<1>1. ASSUME AllOpen', NEW x \in Ends PROVE IsOpen(x)
  <2>1. IsOpen(x)'
    BY <1>1 DEF AllOpen
  <2>2. st[x].state = "Active" /\ st[x].proto = "Open" /\ x \notin broken
    BY <2>1 DEF IsOpen, Gone
  <2> QED BY <2>2 DEF IsOpen, Gone
<1> QED BY <1>1 DEF AllOpen

\* A step that leaves the pipelines and the lists as they are.
LEMMA SameFlows ==
    ASSUME TypeOK, \A x \in Ends : Pipeline(x)' = Pipeline(x) /\ st'[x].sendList = st[x].sendList,
           sent' = sent, directs' = directs, AllOpen' => AllOpen
    PROVE  \A x \in Ends : Flows(x)
<1>1. ASSUME NEW x \in Ends PROVE Flows(x)
  <2>1. Part(Pipeline(x)', Pipeline(x), 0)
    BY PipelineIsPipe, PartSame
  <2>2. WrittenBy(x)' = WrittenBy(x)
    BY DEF WrittenBy
  <2>3. WrittenBy(x) \in Nat /\ Len(st[x].sendList) \in Nat
    BY Counts
  <2>4. Len(st'[x].sendList) + 0 + WrittenBy(x) <= Len(st[x].sendList) + WrittenBy(x)'
    BY <2>2, <2>3
  <2> QED BY <2>1, <2>4 DEF Flows
<1> QED BY <1>1

\* A change of one end, of what is on its way to it and of what it read, leaves
\* the other pipeline as it is.
LEMMA OwnChange ==
    ASSUME NEW e \in Ends, NEW t, Becomes(e, t), t.sendList = st[e].sendList,
           wire'[Other(e)] = wire[Other(e)], got'[Other(e)] = got[Other(e)],
           Pipe(got'[e] \o t.in, t.parser, wire'[e], st[Other(e)].sendList) = Pipeline(e)
    PROVE  \A x \in Ends : Pipeline(x)' = Pipeline(x) /\ st'[x].sendList = st[x].sendList
<1> DEFINE o == Other(e)
<1>1. o \in Ends /\ o # e /\ Other(o) = e /\ \A x \in Ends : x = e \/ x = o
  BY TwoEnds
<1>2. st'[e] = t /\ st'[o] = st[o]
  BY <1>1 DEF Becomes
<1>3. Pipeline(e)' = Pipeline(e)
  BY <1>2, PipelineNext
<1>4. Pipeline(o)' = Pipeline(o)
  <2>1. Pipeline(o) = Pipe(got[o] \o st[o].in, st[o].parser, wire[o], st[e].sendList)
    BY <1>1 DEF Pipeline, Pipe, Taking
  <2>2. Pipeline(o)' = Pipe(got'[o] \o st'[o].in, st'[o].parser, wire'[o], st'[e].sendList)
    BY <1>1, PipelineNext
  <2> QED BY <1>2, <2>1, <2>2
<1> QED BY <1>1, <1>2, <1>3, <1>4

\* The element a step takes is one stanza at most.
LEMMA PartPopped ==
    ASSUME NEW s \in StreamState
    PROVE  Part(Popped(s).parser, s.parser, 1)
<1>1. s.parser \in Seq(Element)
  BY DEF StreamState
<1>2. CASE Parses(s)
  BY <1>1, <1>2, PoppedType, PartTail DEF Parses
<1>3. CASE ~Parses(s)
  <2>1. Popped(s).parser = s.parser
    BY <1>3, PoppedType
  <2>2. Part(s.parser, s.parser, 0) /\ StanzasIn(s.parser) \in Nat
    BY <1>1, PartSame
  <2> QED BY <2>1, <2>2 DEF Part
<1> QED BY <1>2, <1>3

\* A step that writes a closing tag.
LEMMA ClosingFlows ==
    ASSUME TypeOK, NEW e \in Ends, ClosingStep(e)
    PROVE  \A x \in Ends : Flows(x)
<1> DEFINE o == Other(e)
<1>1. o \in Ends /\ o # e /\ Other(o) = e /\ \A x \in Ends : x = e \/ x = o
  BY TwoEnds
<1>2. PICK els, b, c, d : els \in Closings /\ Emits(e, Closing(st[e], els, b, c, d), els)
  BY DEF ClosingStep
<1>3. PICK t : t = Closing(st[e], els, b, c, d)
  OBVIOUS
<1>4. st[e] \in StreamState /\ st[o] \in StreamState
  BY <1>1 DEF TypeOK
<1>5. /\ t.in = st[e].in /\ t.sendList = st[e].sendList /\ t.parser = Popped(st[e]).parser
      /\ t.proto = "Closing"
  BY <1>3, <1>4 DEF Closing, StreamState
<1>6. st'[e] = t /\ st'[o] = st[o] /\ wire'[e] = wire[e] /\ got' = got /\ sent' = sent
  BY <1>1, <1>2, <1>3 DEF ClosingStep, Emits, hist
<1>7. ~AllOpen'
  BY <1>5, <1>6 DEF AllOpen, IsOpen
<1>8. /\ wire[e] \in Seq(Element) /\ wire[o] \in Seq(Element) /\ st[o].parser \in Seq(Element)
      /\ st[e].sendList \in Seq(Element) /\ st[o].sendList \in Seq(Element)
  BY <1>1, <1>4 DEF TypeOK, StreamState
<1>9. Flows(e)
  <2>1. Part(st'[e].parser, st[e].parser, 1)
    BY <1>4, <1>5, <1>6, PartPopped
  <2>2. Part(wire'[e], wire[e], 0) /\ Part(st'[o].sendList, st[o].sendList, 0)
    BY <1>6, <1>8, PartSame
  <2>3. got'[e] \o st'[e].in = got[e] \o st[e].in /\ sent'[o] = sent[o]
    BY <1>5, <1>6
  <2> QED BY <1>7, <2>1, <2>2, <2>3, PartFlows
<1>10. Flows(o)
  <2>1. Part(wire'[o], wire[o], 0)
    <3>1. wire'[o] = wire[o] \/ wire'[o] = wire[o] \o els
      BY <1>2 DEF Emits
    <3>2. Part(wire[o] \o els, wire[o], 0)
      BY <1>2, <1>8, ClosingsAreNoStanzas, PartMore
    <3>3. Part(wire[o], wire[o], 0)
      BY <1>8, PartSame
    <3> QED BY <3>1, <3>2, <3>3
  <2>2. Part(st'[o].parser, st[o].parser, 0) /\ Part(st'[Other(o)].sendList, st[Other(o)].sendList, 0)
    BY <1>1, <1>5, <1>6, <1>8, PartSame
  <2>3. got'[o] \o st'[o].in = got[o] \o st[o].in /\ sent'[Other(o)] = sent[Other(o)]
    BY <1>6
  <2> QED BY <1>1, <1>7, <2>1, <2>2, <2>3, PartFlows
<1> QED BY <1>1, <1>9, <1>10

\* A step that sends the first item of the list.
LEMMA SendingFlows ==
    ASSUME TypeOK, NEW e \in Ends, SendingStep(e)
    PROVE  \A x \in Ends : Flows(x)
<1> DEFINE o == Other(e)
<1>1. o \in Ends /\ o # e /\ Other(o) = e /\ \A x \in Ends : x = e \/ x = o
  BY TwoEnds
<1>2. PICK el : el = Head(st[e].sendList) /\ Emits(e, Sending(st[e], el), <<el>>)
  BY DEF SendingStep
<1>3. PICK t : t = Sending(st[e], el)
  OBVIOUS
<1>4. st[e] \in StreamState /\ st[o] \in StreamState /\ st[e].sendList # <<>>
  BY <1>1 DEF TypeOK, SendingStep
<1>5. /\ t.in = st[e].in /\ t.sendList = Tail(st[e].sendList) /\ t.parser = Popped(st[e]).parser
      /\ t.proto = st[e].proto /\ t.state = st[e].state
  BY <1>3, <1>4 DEF Sending, StreamState
<1>6. /\ st'[e] = t /\ st'[o] = st[o] /\ wire'[e] = wire[e] /\ got' = got /\ sent' = sent
      /\ directs' = directs /\ broken' = broken
  BY <1>1, <1>2, <1>3 DEF SendingStep, Emits, hist
<1>7. AllOpen' => AllOpen
  BY <1>1, <1>5, <1>6, OpenBefore
<1>8. /\ wire[e] \in Seq(Element) /\ wire[o] \in Seq(Element) /\ st[o].parser \in Seq(Element)
      /\ st[e].sendList \in Seq(Element) /\ st[o].sendList \in Seq(Element)
  BY <1>1, <1>4 DEF TypeOK, StreamState
<1>9. Flows(e)
  <2>1. Part(st'[e].parser, st[e].parser, 1)
    BY <1>4, <1>5, <1>6, PartPopped
  <2>2. Part(wire'[e], wire[e], 0) /\ Part(st'[o].sendList, st[o].sendList, 0)
    BY <1>6, <1>8, PartSame
  <2>3. got'[e] \o st'[e].in = got[e] \o st[e].in /\ sent'[o] = sent[o]
    BY <1>5, <1>6
  <2>4. Len(st'[e].sendList) + (1 + 0 + 0) + WrittenBy(e) <= Len(st[e].sendList) + WrittenBy(e)'
    <3>1. Len(st'[e].sendList) = Len(st[e].sendList) - 1
      BY <1>4, <1>5, <1>6, <1>8, HeadTailProperties
    <3>2. WrittenBy(e)' = WrittenBy(e) /\ WrittenBy(e) \in Nat /\ Len(st[e].sendList) \in Nat
      BY <1>6, Counts DEF WrittenBy
    <3> QED BY <3>1, <3>2
  <2> QED BY <1>7, <2>1, <2>2, <2>3, <2>4, PartFlows
<1>10. Flows(o)
  <2>1. got'[o] \o st'[o].in = got[o] \o st[o].in /\ sent'[Other(o)] = sent[Other(o)]
    BY <1>6
  <2>2. Part(st'[o].parser, st[o].parser, 0)
    BY <1>6, <1>8, PartSame
  <2>3. CASE wire'[o] = wire[o] /\ (Gone(o) \/ e \in broken)
    <3>1. Part(wire'[o], wire[o], 0)
      BY <1>8, <2>3, PartSame
    <3>2. Part(st'[e].sendList, st[e].sendList, 1)
      BY <1>4, <1>5, <1>6, <1>8, PartTail
    <3>3. ~AllOpen'
      BY <1>1, <1>6, <2>3 DEF AllOpen, IsOpen, Gone
    <3> QED BY <1>1, <2>1, <2>2, <3>1, <3>2, <3>3, PartFlows
  <2>4. CASE wire'[o] = wire[o] \o <<el>>
    <3>1. Pipeline(o)' = Pipe(got[o] \o st[o].in, st[o].parser, wire[o] \o <<el>>, Tail(st[e].sendList))
      BY <1>1, <1>5, <1>6, <2>4, PipelineNext
    <3>2. /\ Pipeline(o) = Pipe(got[o] \o st[o].in, st[o].parser, wire[o], st[e].sendList)
          /\ got[o] \o st[o].in \in Seq(Stanzas) /\ Pipeline(o) \in Seq(Element)
      BY <1>1, PipelineIsPipe
    <3>3. Pipeline(o)' = Pipeline(o)
      <4>1. PICK q \in Seq(Stanzas) : q = got[o] \o st[o].in
        BY <3>2
      <4>2. PICK p \in Seq(Element) : p = st[o].parser
        BY <1>8
      <4>3. PICK w \in Seq(Element) : w = wire[o]
        BY <1>8
      <4>4. PICK l \in Seq(Element) : l = st[e].sendList
        BY <1>8
      <4>5. Pipe(q, p, w \o <<Head(l)>>, Tail(l)) = Pipe(q, p, w, l)
        BY <1>4, <4>4, PipeSent
      <4> QED BY <1>2, <3>1, <3>2, <4>1, <4>2, <4>3, <4>4, <4>5
    <3>4. Part(Pipeline(o)', Pipeline(o), 0)
      BY <3>2, <3>3, PartSame
    <3>5. Len(st'[o].sendList) + 0 + WrittenBy(o) <= Len(st[o].sendList) + WrittenBy(o)'
      <4>1. WrittenBy(o)' = WrittenBy(o) /\ WrittenBy(o) \in Nat /\ Len(st[o].sendList) \in Nat
        BY <1>1, <1>6, Counts DEF WrittenBy
      <4> QED BY <1>6, <4>1
    <3> QED BY <1>7, <2>1, <3>4, <3>5 DEF Flows
  <2> QED BY <1>2, <2>3, <2>4 DEF Emits
<1> QED BY <1>1, <1>9, <1>10

\* The end of a stream, or of a connection.
LEMMA EndingFlows ==
    ASSUME TypeOK, Shape, NEW e \in Ends, FinishStep(e) \/ FailStep(e)
    PROVE  \A x \in Ends : Flows(x)
<1> DEFINE o == Other(e)
<1>1. o \in Ends /\ o # e /\ Other(o) = e /\ \A x \in Ends : x = e \/ x = o
  BY TwoEnds
<1>2. st[e] \in StreamState /\ st[o] \in StreamState
  BY <1>1 DEF TypeOK
<1>3. /\ st[e].parser \in Seq(Element) /\ st[o].parser \in Seq(Element)
      /\ st[e].sendList \in Seq(Element) /\ st[o].sendList \in Seq(Element)
      /\ wire[e] \in Seq(Element) /\ wire[o] \in Seq(Element)
  BY <1>1, <1>2 DEF TypeOK, StreamState
<1>4. /\ got' = got /\ sent' = sent /\ st'[o] = st[o] /\ wire'[e] = <<>>
      /\ \/ st'[e] = ResetState(st[e])
         \/ st'[e] = st[e] /\ e \in broken'
      /\ \E k \in 0 .. Len(wire[o]) : wire'[o] = SubSeq(wire[o], 1, k)
  <2>1. CASE FinishStep(e)
    BY <1>1, <2>1 DEF FinishStep, Finishes
  <2>2. CASE FailStep(e)
    <3>1. wire'[o] = SubSeq(wire[o], 1, 0)
      <4>1. SubSeq(wire[o], 1, 0) = <<>>
        BY SubSeqEmpty
      <4> QED BY <1>1, <2>2, <4>1 DEF FailStep
    <3>2. 0 \in 0 .. Len(wire[o])
      BY <1>3, LenProperties
    <3> QED BY <1>1, <2>2, <3>1, <3>2 DEF FailStep, Becomes
  <2> QED BY <2>1, <2>2
<1>5. st'[e].in = st[e].in /\ ~AllOpen' /\ \E i, k \in Nat :
         Part(st'[e].parser, st[e].parser, i) /\ Part(st'[e].sendList, st[e].sendList, k)
  <2>1. CASE st'[e] = ResetState(st[e])
    <3>1. st'[e].in = st[e].in /\ st'[e].parser = <<>> /\ st'[e].sendList = <<>> /\ st'[e].state = "Idle"
      BY <1>2, <2>1, ResetView
    <3>2. /\ StanzasIn(st[e].parser) \in Nat /\ StanzasIn(st[e].sendList) \in Nat
          /\ Part(<<>>, st[e].parser, StanzasIn(st[e].parser))
          /\ Part(<<>>, st[e].sendList, StanzasIn(st[e].sendList))
      BY <1>3, PartSame, PartNone
    <3>3. ~AllOpen'
      BY <3>1 DEF AllOpen, IsOpen
    <3> QED BY <3>1, <3>2, <3>3
  <2>2. CASE st'[e] = st[e] /\ e \in broken'
    <3>1. Part(st[e].parser, st[e].parser, 0) /\ Part(st[e].sendList, st[e].sendList, 0)
      BY <1>3, PartSame
    <3>2. ~AllOpen'
      BY <2>2 DEF AllOpen, IsOpen, Gone
    <3> QED BY <2>2, <3>1, <3>2
  <2> QED BY <1>4, <2>1, <2>2
<1>6. PICK i, k : /\ i \in Nat /\ k \in Nat
                  /\ Part(st'[e].parser, st[e].parser, i)
                  /\ Part(st'[e].sendList, st[e].sendList, k)
  BY <1>5
<1>7. Flows(e)
  <2>1. Part(<<>>, wire[e], StanzasIn(wire[e])) /\ StanzasIn(wire[e]) \in Nat
    BY <1>3, PartSame, PartNone
  <2>2. Part(st'[o].sendList, st[o].sendList, 0)
    BY <1>3, <1>4, PartSame
  <2>3. got'[e] \o st'[e].in = got[e] \o st[e].in /\ sent'[o] = sent[o]
    BY <1>4, <1>5
  <2> QED BY <1>4, <1>5, <1>6, <2>1, <2>2, <2>3, PartFlows
<1>8. Flows(o)
  <2>1. PICK m : m \in 0 .. Len(wire[o]) /\ wire'[o] = SubSeq(wire[o], 1, m)
    BY <1>4
  <2>2. PICK p, q : /\ p \in Seq(Element) /\ q \in Seq(Element)
                    /\ p = wire'[o] /\ wire[o] = p \o q
    <3>1. /\ SubSeq(wire[o], 1, m) \in Seq(Element)
          /\ SubSeq(wire[o], m + 1, Len(wire[o])) \in Seq(Element)
          /\ wire[o] = SubSeq(wire[o], 1, m) \o SubSeq(wire[o], m + 1, Len(wire[o]))
      BY <1>3, <2>1, PicksSplit
    <3> QED BY <2>1, <3>1
  <2>3. Part(p, p \o q, StanzasIn(q)) /\ StanzasIn(q) \in Nat
    BY <2>2, PartSplit, PartSame
  <2>4. Part(st'[o].parser, st[o].parser, 0)
    BY <1>3, <1>4, PartSame
  <2>5. got'[o] \o st'[o].in = got[o] \o st[o].in /\ sent'[Other(o)] = sent[Other(o)]
    BY <1>4
  <2> QED BY <1>1, <1>5, <1>6, <2>2, <2>3, <2>4, <2>5, PartFlows
<1> QED BY <1>1, <1>7, <1>8

\* Before its stanzas are announced a stream gets nothing to parse.
Heeds(s) == s.proto = "Open" /\ s.stanzasWritten > 0 => s.parser = <<>>

\* What a step that makes t of s leaves as it is.
KeepsFlow(s, t) ==
    /\ t.parser = s.parser /\ t.sendList = s.sendList
    /\ t.state = "Active" /\ t.proto = "Open" => s.state = "Active" /\ s.proto = "Open"

\* The changes that leave it as it is.
LEMMA FlowFields ==
    ASSUME NEW s \in StreamState
    PROVE  /\ KeepsFlow(s, Ending(s)) /\ Ending(s).in = <<>>
           /\ KeepsFlow(s, EndingLater(s)) /\ EndingLater(s).in = s.in
           /\ \A w : KeepsFlow(s, Crediting(s, w)) /\ Crediting(s, w).in = s.in
           /\ KeepsFlow(s, Called(s)) /\ Called(s).in = s.in
           /\ KeepsFlow(s, Reading(s)) /\ Reading(s).in = <<>>
           /\ KeepsFlow(s, ShuttingDown(s)) /\ ShuttingDown(s).in = s.in
<1>1. KeepsFlow(s, Ending(s)) /\ Ending(s).in = <<>>
  BY DEF Ending, StreamState, KeepsFlow
<1>2. KeepsFlow(s, EndingLater(s)) /\ EndingLater(s).in = s.in
  BY DEF EndingLater, StreamState, KeepsFlow
<1>3. \A w : KeepsFlow(s, Crediting(s, w)) /\ Crediting(s, w).in = s.in
  BY DEF Crediting, StreamState, KeepsFlow
<1>4. KeepsFlow(s, Called(s)) /\ Called(s).in = s.in
  BY DEF Called, StreamState, KeepsFlow
<1>5. KeepsFlow(s, Reading(s)) /\ Reading(s).in = <<>>
  BY DEF Reading, StreamState, KeepsFlow
<1>6. KeepsFlow(s, ShuttingDown(s)) /\ ShuttingDown(s).in = s.in
  BY DEF ShuttingDown, StreamState, KeepsFlow
<1> QED BY <1>1, <1>2, <1>3, <1>4, <1>5, <1>6

\* A step that changes nothing on the way to the applications, but for what they
\* read of it.
LEMMA QuietFlows ==
    ASSUME TypeOK, NEW e \in Ends, NEW t, Becomes(e, t), KeepsFlow(st[e], t),
           wire' = wire, sent' = sent, directs' = directs, broken' = broken,
           got'[Other(e)] = got[Other(e)],
           \/ got'[e] = got[e] /\ t.in = st[e].in
           \/ got'[e] = got[e] \o st[e].in /\ t.in = <<>>
    PROVE  \A x \in Ends : Flows(x)
<1>1. /\ Pipeline(e) = Pipe(got[e] \o st[e].in, st[e].parser, wire[e], st[Other(e)].sendList)
      /\ got[e] \o st[e].in \in Seq(Stanzas)
  BY PipelineIsPipe
<1>2. got'[e] \o t.in = got[e] \o st[e].in
  BY <1>1, ConcatEmptySeq
<1>3. \A x \in Ends : Pipeline(x)' = Pipeline(x) /\ st'[x].sendList = st[x].sendList
  <2>1. t.parser = st[e].parser /\ t.sendList = st[e].sendList
    BY DEF KeepsFlow
  <2>2. Pipe(got'[e] \o t.in, t.parser, wire'[e], st[Other(e)].sendList) = Pipeline(e)
    BY <1>1, <1>2, <2>1
  <2> QED BY <2>1, <2>2, OwnChange
<1>4. AllOpen' => AllOpen
  BY OpenBefore DEF Becomes, KeepsFlow
<1> QED BY <1>3, <1>4, SameFlows

\* Steps keep the order of what goes to each end, and an end sends what it loses.
LEMMA StepFlows ==
    ASSUME TypeOK, Shape, NEW e \in Ends, Step(e), Heeds(st[e])
    PROVE  \A x \in Ends : Flows(x)
<1>1. \/ ClosingStep(e) \/ SendingStep(e) \/ SentStep(e) \/ ElementStep(e)
      \/ EndStep(e) \/ FinishStep(e)
  BY StepKinds
<1>2. st[e] \in StreamState /\ Other(e) \in Ends /\ Other(e) # e
  BY TwoEnds DEF TypeOK
<1>3. CASE SentStep(e)
  <2>1. PICK t : t = Announced(st[e]) /\ Becomes(e, t)
    BY <1>3 DEF SentStep
  <2>2. st[e].parser = <<>>
    BY <1>3 DEF SentStep, Heeds
  <2>3. Popped(st[e]).parser = st[e].parser
    BY <1>2, <2>2, PoppedType DEF Parses
  <2>4. KeepsFlow(st[e], t) /\ t.in = st[e].in
    BY <1>2, <2>1, <2>3 DEF Announced, StreamState, KeepsFlow
  <2>5. wire' = wire /\ sent' = sent /\ directs' = directs /\ broken' = broken /\ got' = got
    BY <1>3 DEF SentStep, net, hist
  <2> QED BY <2>1, <2>4, <2>5, QuietFlows
<1>4. CASE ElementStep(e)
  <2>1. PICK t : t = Taken(st[e]) /\ Becomes(e, t)
    BY <1>4 DEF ElementStep
  <2>2. /\ t.in = Append(st[e].in, Head(st[e].parser).n) /\ t.parser = Tail(st[e].parser)
        /\ t.sendList = st[e].sendList /\ t.state = st[e].state /\ t.proto = st[e].proto
    BY <1>2, <2>1 DEF Taken, StreamState
  <2>3. wire' = wire /\ sent' = sent /\ directs' = directs /\ broken' = broken /\ got' = got
    BY <1>4 DEF ElementStep, net, hist
  <2>4. st[e].parser # <<>> /\ Head(st[e].parser).t = "stanza"
    BY <1>4 DEF ElementStep
  <2>5. /\ Pipeline(e) = Pipe(got[e] \o st[e].in, st[e].parser, wire[e], st[Other(e)].sendList)
        /\ got[e] \o st[e].in \in Seq(Stanzas) /\ got[e] \in Seq(Stanzas)
        /\ st[e].in \in Seq(Stanzas) /\ st[e].parser \in Seq(Element)
        /\ wire[e] \in Seq(Element) /\ st[Other(e)].sendList \in Seq(Element)
    BY PipelineIsPipe
  <2>6. PICK n \in Stanzas : n = Head(st[e].parser).n
    BY <2>4, <2>5, PipeTaken
  <2>7. got[e] \o Append(st[e].in, n) = Append(got[e] \o st[e].in, n)
    <3>1. PICK a \in Seq(Stanzas) : a = got[e]
      BY <2>5
    <3>2. PICK b \in Seq(Stanzas) : b = st[e].in
      BY <2>5
    <3>3. a \o Append(b, n) = Append(a \o b, n)
      BY AppendPushes
    <3> QED BY <3>1, <3>2, <3>3
  <2>8. Pipe(Append(got[e] \o st[e].in, n), Tail(st[e].parser), wire[e], st[Other(e)].sendList)
          = Pipeline(e)
    <3>1. PICK q \in Seq(Stanzas) : q = got[e] \o st[e].in
      BY <2>5
    <3>2. PICK p \in Seq(Element) : p = st[e].parser
      BY <2>5
    <3>3. PICK w \in Seq(Element) : w = wire[e]
      BY <2>5
    <3>4. PICK l \in Seq(Element) : l = st[Other(e)].sendList
      BY <2>5
    <3>5. Pipe(Append(q, Head(p).n), Tail(p), w, l) = Pipe(q, p, w, l)
      BY <2>4, <3>2, PipeTaken
    <3> QED BY <2>5, <2>6, <3>1, <3>2, <3>3, <3>4, <3>5
  <2>9. \A x \in Ends : Pipeline(x)' = Pipeline(x) /\ st'[x].sendList = st[x].sendList
    <3>1. Pipe(got'[e] \o t.in, t.parser, wire'[e], st[Other(e)].sendList) = Pipeline(e)
      BY <2>2, <2>3, <2>6, <2>7, <2>8
    <3> QED BY <2>1, <2>2, <2>3, <3>1, OwnChange
  <2>10. AllOpen' => AllOpen
    BY <2>1, <2>2, <2>3, OpenBefore DEF Becomes
  <2> QED BY <2>3, <2>9, <2>10, SameFlows
<1>5. CASE EndStep(e)
  <2>1. wire' = wire /\ sent' = sent /\ directs' = directs /\ broken' = broken
    BY <1>5 DEF EndStep, net
  <2>2. got'[Other(e)] = got[Other(e)]
    BY <1>2, <1>5 DEF EndStep, TypeOK
  <2>3. CASE Becomes(e, Ending(st[e])) /\ got' = [got EXCEPT ![e] = got[e] \o st[e].in]
    <3>1. got'[e] = got[e] \o st[e].in
      BY <2>3 DEF TypeOK
    <3>2. PICK t : t = Ending(st[e]) /\ KeepsFlow(st[e], t) /\ t.in = <<>>
      BY <1>2, FlowFields
    <3> QED BY <2>1, <2>2, <2>3, <3>1, <3>2, QuietFlows
  <2>4. CASE Becomes(e, EndingLater(st[e])) /\ UNCHANGED got
    <3>1. PICK t : t = EndingLater(st[e]) /\ KeepsFlow(st[e], t) /\ t.in = st[e].in
      BY <1>2, FlowFields
    <3> QED BY <2>1, <2>2, <2>4, <3>1, QuietFlows
  <2> QED BY <1>5, <2>3, <2>4 DEF EndStep
<1> QED BY <1>1, <1>3, <1>4, <1>5, ClosingFlows, SendingFlows, EndingFlows

\* What is appended to the list of e is in the pipeline to the other end only.
LEMMA AppendView ==
    ASSUME TypeOK, NEW e \in Ends, NEW t, NEW y \in Element, Becomes(e, t),
           t.sendList = Append(st[e].sendList, y), t.in = st[e].in, t.parser = st[e].parser,
           t.state = st[e].state, t.proto = st[e].proto,
           wire' = wire, got' = got, broken' = broken
    PROVE  /\ Pipeline(e)' = Pipeline(e)
           /\ Pipeline(Other(e))' = Pipeline(Other(e)) \o <<y>>
           /\ Len(st'[e].sendList) = Len(st[e].sendList) + 1
           /\ st'[Other(e)] = st[Other(e)]
           /\ AllOpen' => AllOpen
<1> DEFINE o == Other(e)
<1>1. o \in Ends /\ o # e /\ Other(o) = e
  BY TwoEnds
<1>2. st'[e] = t /\ st'[o] = st[o]
  BY <1>1 DEF Becomes
<1>3. Pipeline(e)' = Pipeline(e)
  <2>1. Pipeline(e) = Pipe(got[e] \o st[e].in, st[e].parser, wire[e], st[o].sendList)
    BY PipelineIsPipe
  <2> QED BY <1>2, <2>1, PipelineNext
<1>4. Pipeline(o)' = Pipeline(o) \o <<y>>
  <2>1. /\ Pipeline(o) = Pipe(got[o] \o st[o].in, st[o].parser, wire[o], st[e].sendList)
        /\ got[o] \o st[o].in \in Seq(Stanzas) /\ st[o].parser \in Seq(Element)
        /\ wire[o] \in Seq(Element) /\ st[e].sendList \in Seq(Element)
    BY <1>1, PipelineIsPipe
  <2>2. Pipeline(o)'
          = Pipe(got[o] \o st[o].in, st[o].parser, wire[o], Append(st[e].sendList, y))
    BY <1>1, <1>2, PipelineNext
  <2>3. Pipe(got[o] \o st[o].in, st[o].parser, wire[o], Append(st[e].sendList, y))
          = Pipe(got[o] \o st[o].in, st[o].parser, wire[o], st[e].sendList) \o <<y>>
    <3>1. PICK q \in Seq(Stanzas) : q = got[o] \o st[o].in
      BY <2>1
    <3>2. PICK p \in Seq(Element) : p = st[o].parser
      BY <2>1
    <3>3. PICK w \in Seq(Element) : w = wire[o]
      BY <2>1
    <3>4. PICK l \in Seq(Element) : l = st[e].sendList
      BY <2>1
    <3>5. Pipe(q, p, w, Append(l, y)) = Pipe(q, p, w, l) \o <<y>>
      BY PipeWritten
    <3> QED BY <3>1, <3>2, <3>3, <3>4, <3>5
  <2> QED BY <2>1, <2>2, <2>3
<1>5. Len(st'[e].sendList) = Len(st[e].sendList) + 1
  <2>1. st[e].sendList \in Seq(Element)
    BY DEF TypeOK, StreamState
  <2> QED BY <1>2, <2>1, AppendProperties
<1>6. AllOpen' => AllOpen
  BY <1>2, OpenBefore DEF Becomes
<1> QED BY <1>2, <1>3, <1>4, <1>5, <1>6

\* A stanza that is written goes last in the pipeline to the other end.
LEMMA WriteFlows ==
    ASSUME TypeOK, NEW e \in Ends, WriteStep(e)
    PROVE  Flows(e) /\ (Flow(Other(e)) => Flow(Other(e))')
<1> DEFINE o == Other(e)
           n == sent[e] + 1
<1>1. o \in Ends /\ o # e /\ Other(o) = e
  BY TwoEnds
<1>2. PICK t : t = Writing(st[e], n) /\ Becomes(e, t)
  BY DEF WriteStep
<1>3. n \in Stanzas /\ Stanza(n) \in Element /\ sent[e] \in Nat
  BY MadeElements DEF WriteStep, TypeOK
<1>4. /\ t.sendList = Append(st[e].sendList, Stanza(n)) /\ t.in = st[e].in
      /\ t.parser = st[e].parser /\ t.state = st[e].state /\ t.proto = st[e].proto
  <2>1. st[e] \in StreamState
    BY DEF TypeOK
  <2> HIDE DEF n
  <2> QED BY <1>2, <2>1 DEF Writing, StreamState
<1>5. /\ wire' = wire /\ got' = got /\ broken' = broken /\ directs' = directs
      /\ sent' = [sent EXCEPT ![e] = n]
  BY DEF WriteStep, net
<1>6. sent'[e] = n /\ sent'[o] = sent[o]
  BY <1>1, <1>5 DEF TypeOK
<1> HIDE DEF n
<1>7. /\ Pipeline(e)' = Pipeline(e) /\ Pipeline(o)' = Pipeline(o) \o <<Stanza(n)>>
      /\ Len(st'[e].sendList) = Len(st[e].sendList) + 1 /\ st'[o] = st[o]
      /\ AllOpen' => AllOpen
  BY <1>2, <1>3, <1>4, <1>5, AppendView
<1>8. WrittenBy(e)' = WrittenBy(e) + 1 /\ WrittenBy(o)' = WrittenBy(o)
  <2>1. sent[e] \in Nat /\ directs \in Nat
    BY DEF TypeOK
  <2> QED BY <1>5, <1>6, <2>1 DEF WrittenBy, n
<1>9. Flows(e)
  <2>1. Part(Pipeline(e)', Pipeline(e), 0)
    BY <1>7, PipelineIsPipe, PartSame
  <2>2. Len(st'[e].sendList) + 0 + WrittenBy(e) <= Len(st[e].sendList) + WrittenBy(e)'
    BY <1>7, <1>8, Counts
  <2> QED BY <1>6, <1>7, <2>1, <2>2 DEF Flows
<1>10. ASSUME Flow(o) PROVE Flow(o)'
  <2>1. Ordered(Pipeline(o)) /\ \A m \in Numbers(Pipeline(o)) : m <= sent[e]
    BY <1>1, <1>10 DEF Flow
  <2>2. \A m \in Numbers(Pipeline(o)) : m < n
    <3>1. ASSUME NEW m \in Numbers(Pipeline(o)) PROVE m \in Nat
      BY <1>1, PipelineIsPipe, NumbersAreStanzas
    <3> QED BY <1>3, <2>1, <3>1 DEF n
  <2>3. PICK p \in Seq(Element) : p = Pipeline(o)
    BY <1>1, PipelineIsPipe
  <2>4. /\ Ordered(p \o <<Stanza(n)>>) /\ Numbers(p \o <<Stanza(n)>>) = Numbers(p) \cup {n}
        /\ StanzasIn(p) \in Nat /\ StanzasIn(p \o <<Stanza(n)>>) = StanzasIn(p) + 1
    BY <1>3, <2>1, <2>2, <2>3, OrderedAppend
  <2>5. Ordered(Pipeline(o)') /\ \A m \in Numbers(Pipeline(o)') : m <= sent'[e]
    <3>1. \A m \in Numbers(p) : m <= n
      <4>1. ASSUME NEW m \in Numbers(p) PROVE m \in Nat
        BY NumbersAreStanzas
      <4> QED BY <1>3, <2>1, <2>3, <4>1 DEF n
    <3>2. n <= n
      BY <1>3 DEF n
    <3> QED BY <1>6, <1>7, <2>3, <2>4, <3>1, <3>2
  <2>6. ASSUME AllOpen'
        PROVE  sent'[e] + Len(st'[o].sendList) <= StanzasIn(Pipeline(o)') + WrittenBy(o)'
    <3>1. sent[e] + Len(st[o].sendList) <= StanzasIn(p) + WrittenBy(o)
      BY <1>1, <1>7, <1>10, <2>3, <2>6 DEF Flow, LostFew
    <3>2. StanzasIn(Pipeline(o)') = StanzasIn(p) + 1
      BY <1>7, <2>3, <2>4
    <3>3. WrittenBy(o) \in Nat /\ Len(st[o].sendList) \in Nat
      BY <1>1, Counts
    <3>4. sent[e] + 1 + Len(st[o].sendList) <= StanzasIn(p) + 1 + WrittenBy(o)
      <4>1. \A a, b, c, d \in Nat : a + b <= c + d => a + 1 + b <= c + 1 + d
        OBVIOUS
      <4>2. sent[e] \in Nat /\ StanzasIn(p) \in Nat
        BY <1>3, <2>4
      <4> QED BY <3>1, <3>3, <4>1, <4>2
    <3> QED BY <1>6, <1>7, <1>8, <3>2, <3>4 DEF n
  <2>7. /\ Ordered(Pipeline(o))' <=> Ordered(Pipeline(o)')
        /\ Numbers(Pipeline(o))' = Numbers(Pipeline(o)')
        /\ StanzasIn(Pipeline(o))' = StanzasIn(Pipeline(o)')
    BY DEF Ordered, Numbers, StanzasIn
  <2> QED BY <1>1, <2>5, <2>6, <2>7 DEF Flow, LostFew
<1> QED BY <1>9, <1>10

\* Text that does not parse is no stanza.
LEMMA DirectFlows ==
    ASSUME TypeOK, NEW e \in Ends, DirectStep(e)
    PROVE  \A x \in Ends : Flows(x)
<1> DEFINE o == Other(e)
<1>1. o \in Ends /\ o # e /\ Other(o) = e /\ \A x \in Ends : x = e \/ x = o
  BY TwoEnds
<1>2. PICK t : t = WritingDirect(st[e]) /\ Becomes(e, t)
  BY DEF DirectStep
<1>3. PICK y \in Element : y = El("bad") /\ y.t = "bad"
  BY MadeElements
<1>4. /\ t.sendList = Append(st[e].sendList, y) /\ t.in = st[e].in
      /\ t.parser = st[e].parser /\ t.state = st[e].state /\ t.proto = st[e].proto
  BY <1>2, <1>3 DEF WritingDirect, TypeOK, StreamState
<1>5. /\ wire' = wire /\ got' = got /\ broken' = broken /\ directs' = directs + 1
      /\ sent' = sent /\ e = "client"
  BY DEF DirectStep, net
<1>6. /\ Pipeline(e)' = Pipeline(e) /\ Pipeline(o)' = Pipeline(o) \o <<y>>
      /\ Len(st'[e].sendList) = Len(st[e].sendList) + 1 /\ st'[o] = st[o]
      /\ AllOpen' => AllOpen
  BY <1>2, <1>4, <1>5, AppendView
<1>7. WrittenBy(e)' = WrittenBy(e) + 1 /\ WrittenBy(o)' = WrittenBy(o)
  <2>1. sent[e] \in Nat /\ directs \in Nat /\ o # "client"
    BY <1>1, <1>5 DEF TypeOK
  <2>2. WrittenBy(e) = sent[e] + directs /\ WrittenBy(e)' = sent[e] + (directs + 1)
    BY <1>5 DEF WrittenBy
  <2>3. sent[e] + (directs + 1) = sent[e] + directs + 1
    BY <2>1
  <2>4. WrittenBy(o)' = WrittenBy(o)
    BY <1>5, <2>1 DEF WrittenBy
  <2> QED BY <2>2, <2>3, <2>4
<1>8. Flows(e)
  <2>1. Part(Pipeline(e)', Pipeline(e), 0)
    BY <1>6, PipelineIsPipe, PartSame
  <2>2. Len(st'[e].sendList) + 0 + WrittenBy(e) <= Len(st[e].sendList) + WrittenBy(e)'
    BY <1>6, <1>7, Counts
  <2> QED BY <1>5, <1>6, <2>1, <2>2 DEF Flows
<1>9. Flows(o)
  <2>1. Part(Pipeline(o)', Pipeline(o), 0)
    <3>1. <<y>> \in Seq(Element) /\ StanzasIn(<<y>>) = 0
      BY <1>3, StanzasFew
    <3>2. \A i \in DOMAIN <<y>> : <<y>>[i].t # "stanza"
      BY <1>3
    <3>3. PICK p \in Seq(Element) : p = Pipeline(o)
      BY <1>1, PipelineIsPipe
    <3>4. Part(p \o <<y>>, p, 0)
      BY <3>1, <3>2, PartMore
    <3> QED BY <1>6, <3>3, <3>4
  <2>2. Len(st'[o].sendList) + 0 + WrittenBy(o) <= Len(st[o].sendList) + WrittenBy(o)'
    <3>1. WrittenBy(o) \in Nat /\ Len(st[o].sendList) \in Nat
      BY <1>1, Counts
    <3> QED BY <1>6, <1>7, <3>1
  <2> QED BY <1>5, <1>6, <2>1, <2>2 DEF Flows
<1> QED BY <1>1, <1>8, <1>9

\* Events but the writing of a stanza do like steps.
LEMMA EventFlows ==
    ASSUME TypeOK, Shape, BytesAccounted, NEW e \in Ends, Event(e) \/ Application(e) \/ Fails(e)
    PROVE  WriteStep(e) \/ \A x \in Ends : Flows(x)
<1>1. \/ PostedStep(e) \/ ReadStep(e) \/ WrittenStep(e) \/ TimerStep(e)
      \/ WriteStep(e) \/ DirectStep(e) \/ CloseStep(e)
      \/ ~Gone(e) /\ FinishStep(e)
      \/ FailStep(e)
  BY EventKinds
<1>2. st[e] \in StreamState /\ Other(e) \in Ends /\ Other(e) # e
  BY TwoEnds DEF TypeOK
<1>3. CASE PostedStep(e) \/ CloseStep(e)
  <2>1. PICK t : Becomes(e, t) /\ KeepsFlow(st[e], t) /\ t.in = st[e].in
    BY <1>2, <1>3, FlowFields DEF PostedStep, CloseStep
  <2>2. wire' = wire /\ sent' = sent /\ directs' = directs /\ broken' = broken /\ got' = got
    BY <1>3 DEF PostedStep, CloseStep, net, hist
  <2> QED BY <2>1, <2>2, QuietFlows
<1>4. CASE ReadStep(e)
  <2>1. PICK k, t :
            /\ k \in 1 .. Len(wire[e])
            /\ t = Receiving(st[e], SubSeq(wire[e], 1, k)) /\ Becomes(e, t)
            /\ wire' = [wire EXCEPT ![e] = SubSeq(wire[e], k + 1, Len(wire[e]))]
    BY <1>4 DEF ReadStep
  <2>2. /\ t.in = st[e].in /\ t.parser = st[e].parser \o SubSeq(wire[e], 1, k)
        /\ t.sendList = st[e].sendList /\ t.state = st[e].state /\ t.proto = st[e].proto
    BY <1>2, <2>1 DEF Receiving, StreamState
  <2>3. /\ wire'[Other(e)] = wire[Other(e)] /\ wire'[e] = SubSeq(wire[e], k + 1, Len(wire[e]))
    BY <1>2, <2>1 DEF TypeOK
  <2>4. sent' = sent /\ directs' = directs /\ broken' = broken /\ got' = got
    BY <1>4 DEF ReadStep, hist
  <2>5. Pipe(got'[e] \o t.in, t.parser, wire'[e], st[Other(e)].sendList) = Pipeline(e)
    <3>1. /\ Pipeline(e) = Pipe(got[e] \o st[e].in, st[e].parser, wire[e], st[Other(e)].sendList)
          /\ got[e] \o st[e].in \in Seq(Stanzas) /\ st[e].parser \in Seq(Element)
          /\ wire[e] \in Seq(Element) /\ st[Other(e)].sendList \in Seq(Element)
      BY PipelineIsPipe
    <3>2. k \in 0 .. Len(wire[e])
      BY <2>1
    <3>3. Pipe(got[e] \o st[e].in, st[e].parser \o SubSeq(wire[e], 1, k),
               SubSeq(wire[e], k + 1, Len(wire[e])), st[Other(e)].sendList) = Pipeline(e)
      BY <3>1, <3>2, PipeRead
    <3> QED BY <2>2, <2>3, <2>4, <3>3
  <2>6. \A x \in Ends : Pipeline(x)' = Pipeline(x) /\ st'[x].sendList = st[x].sendList
    BY <2>1, <2>2, <2>3, <2>4, <2>5, OwnChange
  <2>7. AllOpen' => AllOpen
    BY <2>1, <2>2, <2>4, OpenBefore DEF Becomes
  <2> QED BY <2>4, <2>6, <2>7, SameFlows
<1>5. CASE WrittenStep(e)
  <2>1. PICK t : Becomes(e, t) /\ KeepsFlow(st[e], t) /\ t.in = st[e].in
    BY <1>2, <1>5, FlowFields DEF WrittenStep
  <2>2. wire' = wire /\ sent' = sent /\ directs' = directs /\ broken' = broken /\ got' = got
    BY <1>5 DEF WrittenStep, hist
  <2> QED BY <2>1, <2>2, QuietFlows
<1>6. CASE TimerStep(e)
  <2>1. PICK t : t = Reading(st[e]) /\ KeepsFlow(st[e], t) /\ t.in = <<>>
    BY <1>2, FlowFields
  <2>2. wire' = wire /\ sent' = sent /\ directs' = directs /\ broken' = broken
    BY <1>6 DEF TimerStep, net
  <2>3. got'[e] = got[e] \o st[e].in /\ got'[Other(e)] = got[Other(e)]
    BY <1>2, <1>6 DEF TimerStep, TypeOK
  <2>4. Becomes(e, t)
    BY <1>6, <2>1 DEF TimerStep
  <2> QED BY <2>1, <2>2, <2>3, <2>4, QuietFlows
<1> QED BY <1>1, <1>3, <1>4, <1>5, <1>6, DirectFlows, EndingFlows

\* A stream that has stanzas to announce gets nothing to parse.
LEMMA HeedsKept ==
    ASSUME WaitInv, \A x \in Ends : Heeds(st[x]), NEW e \in Ends,
           \/ Step(e)
           \/ running = "none" /\ (Event(e) \/ Application(e) \/ Fails(e))
    PROVE  \A x \in Ends : Heeds(st'[x])
<1>1. TypeOK /\ Shape /\ BytesAccounted /\ Waits
  BY DEF WaitInv, AccInv
<1>2. st[e] \in StreamState
  BY <1>1 DEF TypeOK
<1>3. SUFFICES Heeds(st'[e]) /\ \A x \in Ends : x # e => st'[x] = st[x]
  OBVIOUS
<1>4. CASE Step(e)
  <2>1. \/ ClosingStep(e) \/ SendingStep(e) \/ SentStep(e) \/ ElementStep(e)
        \/ EndStep(e) \/ FinishStep(e)
    BY <1>1, <1>4, StepKinds
  <2>2. CASE ClosingStep(e)
    <3>1. PICK t, els : Emits(e, t, els) /\ t.proto = "Closing"
      BY <1>2, <2>2, OpenKept DEF ClosingStep
    <3> QED BY <3>1 DEF Emits, Heeds
  <2>3. CASE SendingStep(e)
    <3>1. PICK el, t : t = Sending(st[e], el) /\ Emits(e, t, <<el>>)
      BY <2>3 DEF SendingStep
    <3>2. t.stanzasWritten = st[e].stanzasWritten
      BY <1>2, <3>1 DEF Sending, StreamState
    <3>3. st[e].stanzasWritten = 0
      BY <2>3 DEF SendingStep
    <3> QED BY <3>1, <3>2, <3>3 DEF Emits, Heeds
  <2>4. CASE SentStep(e)
    <3>1. PICK t : t = Announced(st[e]) /\ Becomes(e, t)
      BY <2>4 DEF SentStep
    <3>2. st[e].parser = <<>>
      BY <2>4 DEF SentStep, Heeds
    <3>3. Popped(st[e]).parser = <<>>
      BY <1>2, <3>2, PoppedType DEF Parses
    <3>4. t.parser = <<>>
      BY <1>2, <3>1, <3>3 DEF Announced, StreamState
    <3> QED BY <3>1, <3>4 DEF Becomes, Heeds
  <2>5. CASE ElementStep(e)
    <3>1. PICK t : t = Taken(st[e]) /\ Becomes(e, t)
      BY <2>5 DEF ElementStep
    <3>2. t.stanzasWritten = st[e].stanzasWritten
      BY <1>2, <3>1 DEF Taken, StreamState
    <3>3. st[e].stanzasWritten = 0
      BY <2>5 DEF ElementStep
    <3> QED BY <3>1, <3>2, <3>3 DEF Becomes, Heeds
  <2>6. CASE EndStep(e)
    <3>1. PICK t : Becomes(e, t) /\ (t = Ending(st[e]) \/ t = EndingLater(st[e]))
      BY <2>6 DEF EndStep
    <3>2. /\ t.parser = st[e].parser /\ t.stanzasWritten = st[e].stanzasWritten
          /\ t.proto = st[e].proto
      <4>1. CASE t = Ending(st[e])
        BY <1>2, <4>1 DEF Ending, StreamState
      <4>2. CASE t = EndingLater(st[e])
        BY <1>2, <4>2 DEF EndingLater, StreamState
      <4> QED BY <3>1, <4>1, <4>2
    <3> QED BY <3>1, <3>2 DEF Becomes, Heeds
  <2>7. CASE FinishStep(e)
    BY <1>2, <2>7, ResetView DEF FinishStep, Finishes, Heeds
  <2>8. \A x \in Ends : x # e => st'[x] = st[x]
    BY <2>1 DEF ClosingStep, SendingStep, SentStep, ElementStep, EndStep, FinishStep,
                Emits, Becomes, Finishes
  <2> QED BY <2>1, <2>2, <2>3, <2>4, <2>5, <2>6, <2>7, <2>8
<1>5. CASE running = "none" /\ (Event(e) \/ Application(e) \/ Fails(e))
  <2>1. \/ PostedStep(e) \/ ReadStep(e) \/ WrittenStep(e) \/ TimerStep(e)
        \/ WriteStep(e) \/ DirectStep(e) \/ CloseStep(e)
        \/ ~Gone(e) /\ FinishStep(e)
        \/ FailStep(e)
    BY <1>1, <1>5, EventKinds
  <2>2. ~Gone(e) /\ st[e].proto = "Open" => st[e].parser = <<>> /\ st[e].stanzasWritten = 0
    <3>1. running # e
      BY <1>5 DEF Ends
    <3> QED BY <1>1, <3>1 DEF Waits, Waiting, Asleep
  <2>3. CASE ReadStep(e)
    <3>1. PICK els, t : t = Receiving(st[e], els) /\ Becomes(e, t)
      BY <2>3 DEF ReadStep
    <3>2. t.stanzasWritten = st[e].stanzasWritten /\ t.proto = st[e].proto
      BY <1>2, <3>1 DEF Receiving, StreamState
    <3>3. ~Gone(e)
      BY <2>3 DEF ReadStep
    <3> QED BY <2>2, <3>1, <3>2, <3>3 DEF Becomes, Heeds
  <2>4. CASE WrittenStep(e)
    <3>1. PICK w, t : t = Crediting(st[e], w) /\ Becomes(e, t)
      BY <2>4 DEF WrittenStep
    <3>2. t.parser = st[e].parser /\ t.proto = st[e].proto
      BY <1>2, <3>1 DEF Crediting, StreamState
    <3>3. ~Gone(e)
      BY <2>4 DEF WrittenStep
    <3> QED BY <2>2, <3>1, <3>2, <3>3 DEF Becomes, Heeds
  <2>5. CASE PostedStep(e) \/ TimerStep(e) \/ WriteStep(e) \/ DirectStep(e) \/ CloseStep(e)
    <3>1. PICK t : /\ Becomes(e, t)
                   /\ \/ t = Called(st[e]) \/ t = Reading(st[e]) \/ t = Writing(st[e], sent[e] + 1)
                      \/ t = WritingDirect(st[e]) \/ t = ShuttingDown(st[e])
      BY <2>5 DEF PostedStep, TimerStep, WriteStep, DirectStep, CloseStep
    <3>2. /\ t.parser = st[e].parser /\ t.stanzasWritten = st[e].stanzasWritten
          /\ t.proto = st[e].proto
      <4>1. CASE t = Called(st[e])
        BY <1>2, <4>1 DEF Called, StreamState
      <4>2. CASE t = Reading(st[e])
        BY <1>2, <4>2 DEF Reading, StreamState
      <4>3. CASE t = Writing(st[e], sent[e] + 1)
        BY <1>2, <4>3 DEF Writing, StreamState
      <4>4. CASE t = WritingDirect(st[e])
        BY <1>2, <4>4 DEF WritingDirect, StreamState
      <4>5. CASE t = ShuttingDown(st[e])
        BY <1>2, <4>5 DEF ShuttingDown, StreamState
      <4> QED BY <3>1, <4>1, <4>2, <4>3, <4>4, <4>5
    <3> QED BY <3>1, <3>2 DEF Becomes, Heeds
  <2>6. CASE FinishStep(e)
    BY <1>2, <2>6, ResetView DEF FinishStep, Finishes, Heeds
  <2>7. CASE FailStep(e)
    <3>1. CASE Becomes(e, ResetState(st[e]))
      BY <1>2, <3>1, ResetView DEF Becomes, Heeds
    <3>2. CASE UNCHANGED st
      BY <3>2
    <3> QED BY <2>7, <3>1, <3>2 DEF FailStep
  <2>8. \A x \in Ends : x # e => st'[x] = st[x]
    BY <2>1 DEF PostedStep, ReadStep, WrittenStep, TimerStep, WriteStep, DirectStep, CloseStep,
                FinishStep, FailStep, Becomes, Finishes
  <2> QED BY <2>1, <2>3, <2>4, <2>5, <2>6, <2>7, <2>8
<1> QED BY <1>4, <1>5

\* The third inductive invariant.
FlowInv == WaitInv /\ \A x \in Ends : Heeds(st[x]) /\ Flow(x)

\* It is inductive.
LEMMA FlowInvStep ==
    ASSUME FlowInv, [Next]_vars
    PROVE  FlowInv'
<1>1. WaitInv /\ WaitInv' /\ TypeOK /\ Shape /\ BytesAccounted /\ TypeOK'
  BY WaitInvStep DEF FlowInv, WaitInv, AccInv
<1>2. CASE Next
  <2>1. PICK e \in Ends : \/ Step(e)
                          \/ running = "none" /\ (Event(e) \/ Application(e) \/ Fails(e))
    <3>1. PICK e \in Ends : Step(e) \/ Event(e) \/ Application(e) \/ (running = "none" /\ Fails(e))
      BY <1>2 DEF Next
    <3>2. Event(e) \/ Application(e) => running = "none"
      BY DEF Event, Application
    <3> QED BY <3>1, <3>2
  <2>2. \A x \in Ends : Heeds(st'[x])
    BY <1>1, <2>1, HeedsKept DEF FlowInv
  <2>3. WriteStep(e) \/ \A x \in Ends : Flows(x)
    BY <1>1, <2>1, StepFlows, EventFlows DEF FlowInv
  <2>4. \A x \in Ends : Flow(x)'
    <3>1. CASE \A x \in Ends : Flows(x)
      BY <1>1, <3>1, FlowKept DEF FlowInv
    <3>2. CASE WriteStep(e)
      <4>1. Flows(e) /\ (Flow(Other(e)) => Flow(Other(e))')
        BY <1>1, <3>2, WriteFlows
      <4>2. Other(e) \in Ends /\ \A x \in Ends : x = e \/ x = Other(e)
        BY TwoEnds
      <4>3. Flow(e)'
        BY <1>1, <4>1, FlowKept DEF FlowInv
      <4>4. Flow(Other(e))'
        BY <4>1, <4>2 DEF FlowInv
      <4> QED BY <4>2, <4>3, <4>4
    <3> QED BY <2>3, <3>1, <3>2
  <2> QED BY <1>1, <2>2, <2>4 DEF FlowInv
<1>3. CASE UNCHANGED vars
  BY <1>1, <1>3 DEF FlowInv, Flow, LostFew, AllOpen, IsOpen, Gone, WrittenBy, Pipeline,
                    vars, net, hist
<1> QED BY <1>2, <1>3

\* It holds at first: every pipeline is empty.
LEMMA InitFlow ==
    ASSUME Init
    PROVE  \A x \in Ends : Heeds(st[x]) /\ Flow(x)
<1>1. PICK f : /\ f = Fresh /\ st = [e \in Ends |-> f]
  BY DEF Init
<1>2. f.in = <<>> /\ f.parser = <<>> /\ f.sendList = <<>>
  BY <1>1 DEF Fresh
<1>3. ASSUME NEW x \in Ends PROVE Heeds(st[x]) /\ Flow(x)
  <2>1. st[x] = f /\ st[Other(x)] = f /\ Other(x) \in Ends
    BY <1>1, TwoEnds
  <2>2. Pipeline(x) = <<>>
    <3>1. Pipeline(x) = Pipe(got[x] \o st[x].in, st[x].parser, wire[x], st[Other(x)].sendList)
      BY DEF Pipeline, Pipe, Taking
    <3>2. got[x] = <<>> /\ wire[x] = <<>>
      BY DEF Init
    <3>3. Pipeline(x) = Pipe(<<>> \o <<>>, <<>>, <<>>, <<>>)
      BY <1>2, <2>1, <3>1, <3>2
    <3>4. <<>> \in Seq(Element) /\ <<>> \o <<>> = <<>> /\ Taking(<<>>) = <<>>
      BY DEF Taking
    <3> QED BY <3>3, <3>4 DEF Pipe
  <2>3. Ordered(<<>>) /\ Numbers(<<>>) = {} /\ StanzasIn(<<>>) = 0
    BY StanzasFew DEF Ordered, Numbers
  <2>4. sent[Other(x)] + Len(st[x].sendList) <= StanzasIn(Pipeline(x)) + WrittenBy(x)
    <3>1. sent[Other(x)] = 0 /\ sent[x] = 0 /\ directs = 0 /\ Len(st[x].sendList) = 0
      BY <1>2, <2>1 DEF Init
    <3> QED BY <2>2, <2>3, <3>1 DEF WrittenBy
  <2>5. Heeds(st[x])
    BY <1>2, <2>1 DEF Heeds
  <2> QED BY <2>2, <2>3, <2>4, <2>5 DEF Flow, LostFew
<1> QED BY <1>3

\* The third inductive invariant holds.
LEMMA FlowInvHolds == Spec => []FlowInv
<1>1. Init => FlowInv
  BY InitAccounts, InitWaits, InitFlow DEF FlowInv, WaitInv, AccInv
<1> QED BY <1>1, FlowInvStep, PTL DEF Spec

\* Stanzas arrive in the order they were written and none arrives twice; and while
\* both streams are open an application has lost at most as many as the items its
\* own end sent (sendItem, and the element that doStep drops with it).
THEOREM OrderKept == Spec => []InOrderAndLossBounded
<1>1. FlowInv => InOrderAndLossBounded
  <2>1. ASSUME FlowInv, NEW x \in Ends
        PROVE  /\ Ordered(Pipeline(x))
               /\ AllOpen => sent[Other(x)] - StanzasIn(Pipeline(x))
                               <= WrittenBy(x) - Len(st[x].sendList)
    <3>1. TypeOK /\ Flow(x)
      BY <2>1 DEF FlowInv, WaitInv, AccInv
    <3>2. /\ sent[Other(x)] \in Nat /\ WrittenBy(x) \in Nat /\ Len(st[x].sendList) \in Nat
          /\ StanzasIn(Pipeline(x)) \in Nat
      BY <3>1, Counts, PipelineIsPipe
    <3>3. AllOpen => sent[Other(x)] + Len(st[x].sendList) <= StanzasIn(Pipeline(x)) + WrittenBy(x)
      BY <3>1 DEF Flow, LostFew
    <3> QED BY <3>1, <3>2, <3>3 DEF Flow
  <2>2. AllOpen <=> \A y \in Ends : st[y].state = "Active" /\ st[y].proto = "Open" /\ ~Gone(y)
    BY DEF AllOpen, IsOpen
  <2> QED BY <2>1, <2>2 DEF InOrderAndLossBounded, Ordered, WrittenBy
<1> QED BY <1>1, FlowInvHolds, PTL
=====
