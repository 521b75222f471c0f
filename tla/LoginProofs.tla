---------------------------- MODULE LoginProofs -----------------------------
(***************************************************************************)
(* Theorems about Login for every size of an element, every overhead of    *)
(* the layers and every bound: every byte that the stream writes is        *)
(* reported once, when it has left, through every change of the layers;    *)
(* the two ends change their layers at the same place; and a session is    *)
(* announced under the name that was authenticated.                        *)
(*                                                                         *)
(* First the sums that the layers and the buffer are counted by, then what *)
(* the socket's writes and the stream's do to a stack of layers, then the  *)
(* phases of the protocol and who may speak in each.                       *)
(***************************************************************************)
EXTENDS Login, SequenceFacts

-----------------------------------------------------------------------------
(***************************************************************************)
(* Sums                                                                    *)
(***************************************************************************)
\* Numbers(items, field): every item has a number in the field.
Numbers(items, field) ==
    /\ Len(items) \in Nat
    /\ \A k \in 1 .. Len(items) : items[k][field] \in Nat

\* The partial sums of a list are what their recursive definition says.
LEMMA SumsStep ==
    ASSUME NEW items, NEW field, Numbers(items, field)
    PROVE  /\ Sums(items, field) \in [0 .. Len(items) -> Nat]
           /\ Sums(items, field)[0] = 0
           /\ \A k \in 1 .. Len(items) :
                 Sums(items, field)[k] = Sums(items, field)[k - 1] + items[k][field]
<1>1. PICK n \in Nat : n = Len(items)
  BY DEF Numbers
<1>2. \A k \in 1 .. n : items[k][field] \in Nat
  BY <1>1 DEF Numbers
<1> DEFINE Sum(s, m) == /\ s \in [0 .. m -> Nat] /\ s[0] = 0
                        /\ \A k \in 1 .. m : s[k] = s[k - 1] + items[k][field]
           Bad == {m \in 0 .. n : ~\E s : Sum(s, m)}
<1>3. Bad = {}
  <2> SUFFICES ASSUME Bad # {} PROVE FALSE
    OBVIOUS
  <2>1. PICK m \in Bad : \A i \in Bad : m <= i
    <3>1. Bad \subseteq Nat
      BY <1>1
    <3> HIDE DEF Bad
    <3> QED BY <3>1, LeastNumber
  <2>2. m \in 0 .. n /\ ~\E s : Sum(s, m)
    BY <2>1
  <2>3. CASE m = 0
    <3> DEFINE z == [k \in 0 .. 0 |-> 0]
    <3>1. Sum(z, 0)
      OBVIOUS
    <3> QED BY <3>1, <2>2, <2>3
  <2>4. CASE m # 0
    <3>1. m - 1 \in 0 .. n /\ m - 1 \notin Bad
      <4>1. m - 1 \in 0 .. n /\ m \in Nat
        BY <2>2, <2>4, <1>1
      <4> HIDE DEF Bad
      <4>2. ~(m <= m - 1)
        BY <4>1
      <4> QED BY <4>1, <4>2, <2>1, Zenon
    <3>2. PICK s : Sum(s, m - 1)
      BY <3>1
    <3> DEFINE t == [k \in 0 .. m |-> IF k = m THEN s[m - 1] + items[m][field] ELSE s[k]]
    <3>3. Sum(t, m)
      <4>1. s[m - 1] \in Nat /\ items[m][field] \in Nat
        BY <3>2, <2>2, <2>4, <1>2
      <4>2. t \in [0 .. m -> Nat]
        <5>1. \A k \in 0 .. m : k # m => k \in 0 .. m - 1
          BY <2>2
        <5> QED BY <4>1, <5>1, <3>2
      <4>3. t[0] = 0
        BY <3>2, <2>2, <2>4
      <4>4. \A k \in 1 .. m : t[k] = t[k - 1] + items[k][field]
        <5> TAKE k \in 1 .. m
        <5>1. CASE k = m
          BY <5>1, <2>2
        <5>2. CASE k # m
          <6>1. k \in 1 .. m - 1 /\ k \in 0 .. m /\ k - 1 \in 0 .. m /\ k - 1 # m
            BY <5>2, <2>2
          <6> QED BY <6>1, <5>2, <3>2
        <5> QED BY <5>1, <5>2
      <4> HIDE DEF t
      <4> QED BY <4>2, <4>3, <4>4
    <3> HIDE DEF t
    <3> QED BY <3>3, <2>2
  <2> QED BY <2>3, <2>4
<1>4. PICK t : Sum(t, n)
  BY <1>3, <1>1
<1> DEFINE Step(s) == [k \in 0 .. n |-> IF k = 0 THEN 0 ELSE s[k - 1] + items[k][field]]
<1>5. t = Step(t)
  <2>1. t = [k \in 0 .. n |-> t[k]]
    BY <1>4
  <2>2. \A k \in 0 .. n : t[k] = IF k = 0 THEN 0 ELSE t[k - 1] + items[k][field]
    BY <1>4, <1>1
  <2> QED BY <2>1, <2>2, Zenon
<1>6. Sums(items, field) = CHOOSE s : s = Step(s)
  BY <1>1 DEF Sums
<1>7. PICK s : s = Sums(items, field) /\ s = Step(s)
  BY <1>5, <1>6
<1>8. s[0] = 0 /\ \A k \in 1 .. n : s[k] = s[k - 1] + items[k][field]
  BY <1>7, <1>1
<1>9. \A k \in 0 .. n : s[k] \in Nat
  <2> DEFINE Odd == {k \in 0 .. n : s[k] \notin Nat}
  <2> SUFFICES ASSUME Odd # {} PROVE FALSE
    OBVIOUS
  <2>1. PICK k \in Odd : \A i \in Odd : k <= i
    <3>1. Odd \subseteq Nat
      BY <1>1
    <3> HIDE DEF Odd
    <3> QED BY <3>1, LeastNumber
  <2>2. k \in 1 .. n /\ k - 1 \in 0 .. n /\ k - 1 \notin Odd
    BY <2>1, <1>8
  <2>3. s[k - 1] \in Nat /\ items[k][field] \in Nat
    BY <2>2, <1>2
  <2> QED BY <2>1, <2>2, <2>3, <1>8
<1>10. s \in [0 .. n -> Nat]
  <2>1. s = [k \in 0 .. n |-> s[k]]
    BY <1>7
  <2> QED BY <2>1, <1>9
<1> QED BY <1>1, <1>7, <1>8, <1>10

\* The sums never fall, and rise where the numbers are not 0.
LEMMA SumsRise ==
    ASSUME NEW items, NEW field, Numbers(items, field),
           NEW i \in 0 .. Len(items), NEW j \in 0 .. Len(items), i <= j
    PROVE  /\ Sums(items, field)[i] <= Sums(items, field)[j]
           /\ i < j /\ (\A k \in 1 .. Len(items) : items[k][field] > 0)
                 => Sums(items, field)[i] < Sums(items, field)[j]
<1>1. PICK n \in Nat : n = Len(items)
  BY DEF Numbers
<1>2. PICK s : s = Sums(items, field)
  OBVIOUS
<1>3. /\ s \in [0 .. n -> Nat]
      /\ \A k \in 1 .. n : s[k] = s[k - 1] + items[k][field]
  BY <1>1, <1>2, SumsStep
<1>4. \A k \in 1 .. n : items[k][field] \in Nat
  BY <1>1 DEF Numbers
<1>5. ASSUME NEW strict \in BOOLEAN, strict => \A k \in 1 .. n : items[k][field] > 0
      PROVE  s[i] <= s[j] /\ (strict /\ i < j => s[i] < s[j])
  <2> DEFINE Bad == {k \in i .. n : ~(s[i] <= s[k] /\ (strict /\ i < k => s[i] < s[k]))}
  <2>1. Bad = {}
    <3> SUFFICES ASSUME Bad # {} PROVE FALSE
      OBVIOUS
    <3>1. PICK k \in Bad : \A l \in Bad : k <= l
      <4>1. Bad \subseteq Nat
        BY <1>1
      <4> HIDE DEF Bad
      <4> QED BY <4>1, LeastNumber
    <3>2. s[i] \in Nat /\ s[k] \in Nat
      BY <3>1, <1>1, <1>3
    <3>3. k # i
      BY <3>1, <3>2
    <3>4. k \in 1 .. n /\ k - 1 \in i .. n /\ k - 1 \notin Bad
      BY <3>1, <3>3, <1>1
    <3>5. s[i] <= s[k - 1]
      BY <3>4
    <3>6. s[k - 1] \in Nat /\ items[k][field] \in Nat /\ s[k] = s[k - 1] + items[k][field]
      BY <3>4, <1>3, <1>4
    <3>7. strict => items[k][field] > 0
      BY <3>4, <1>5
    <3>8. s[i] <= s[k] /\ (strict => s[i] < s[k])
      <4> HIDE DEF Bad
      <4>1. \A x, y, d \in Nat : x <= y => x <= y + d /\ (d > 0 => x < y + d)
        OBVIOUS
      <4>2. s[i] <= s[k - 1] + items[k][field]
            /\ (items[k][field] > 0 => s[i] < s[k - 1] + items[k][field])
        BY <4>1, <3>2, <3>5, <3>6, Zenon
      <4> QED BY <4>2, <3>6, <3>7, Zenon
    <3> QED BY <3>1, <3>8, Zenon
  <2> QED BY <2>1, <1>1
<1>6. s[i] <= s[j]
  BY <1>5
<1>7. ASSUME i < j, \A k \in 1 .. n : items[k][field] > 0
      PROVE  s[i] < s[j]
  BY <1>5, <1>7
<1> QED BY <1>1, <1>2, <1>6, <1>7

\* Lists with the same numbers have the same sums.
LEMMA SumsSame ==
    ASSUME NEW a, NEW f, Numbers(a, f), NEW b, NEW g, Len(b) = Len(a),
           \A k \in 1 .. Len(a) : b[k][g] = a[k][f]
    PROVE  Numbers(b, g) /\ Sums(b, g) = Sums(a, f)
<1>1. PICK n \in Nat : n = Len(a)
  BY DEF Numbers
<1>2. Numbers(b, g)
  BY DEF Numbers
<1>3. PICK s, t : s = Sums(a, f) /\ t = Sums(b, g)
  OBVIOUS
<1>4. /\ s \in [0 .. n -> Nat] /\ s[0] = 0
      /\ \A k \in 1 .. n : s[k] = s[k - 1] + a[k][f]
  BY <1>1, <1>3, SumsStep
<1>5. /\ t \in [0 .. n -> Nat] /\ t[0] = 0
      /\ \A k \in 1 .. n : t[k] = t[k - 1] + b[k][g]
  BY <1>1, <1>2, <1>3, SumsStep
<1>6. \A k \in 0 .. n : t[k] = s[k]
  <2> DEFINE Bad == {k \in 0 .. n : t[k] # s[k]}
  <2> SUFFICES ASSUME Bad # {} PROVE FALSE
    OBVIOUS
  <2>1. PICK k \in Bad : \A i \in Bad : k <= i
    <3>1. Bad \subseteq Nat
      BY <1>1
    <3> HIDE DEF Bad
    <3> QED BY <3>1, LeastNumber
  <2>2. k \in 1 .. n /\ k - 1 \in 0 .. n /\ k - 1 \notin Bad
    BY <2>1, <1>1, <1>4, <1>5
  <2>3. t[k - 1] = s[k - 1]
    BY <2>2
  <2> QED BY <2>1, <2>2, <2>3, <1>1, <1>4, <1>5
<1> QED BY <1>2, <1>3, <1>4, <1>5, <1>6

\* Remains(b, g, a, f, k, c): b has the numbers of a but for its first k and
\* for c of the next.
Remains(b, g, a, f, k, c) ==
    /\ k = Len(a) => c = 0
    /\ k < Len(a) => c <= a[k + 1][f]
    /\ Len(b) = Len(a) - k
    /\ \A j \in 1 .. Len(a) - k : b[j][g] = IF j = 1 THEN a[k + 1][f] - c ELSE a[k + j][f]

\* The sum of what remains is the sum of all without that.
LEMMA TotalRest ==
    ASSUME NEW a, NEW f, Numbers(a, f), NEW k \in 0 .. Len(a), NEW c \in Nat,
           NEW b, NEW g, Remains(b, g, a, f, k, c)
    PROVE  Numbers(b, g) /\ Sums(a, f)[k] \in Nat /\ Total(a, f) \in Nat
           /\ Total(b, g) = Total(a, f) - Sums(a, f)[k] - c
<1>1. PICK n \in Nat : n = Len(a)
  BY DEF Numbers
<1>0. /\ k = n => c = 0
      /\ k < n => c <= a[k + 1][f]
      /\ Len(b) = n - k
      /\ \A j \in 1 .. n - k : b[j][g] = IF j = 1 THEN a[k + 1][f] - c ELSE a[k + j][f]
  BY <1>1 DEF Remains
<1>2. \A j \in 1 .. n : a[j][f] \in Nat
  BY <1>1 DEF Numbers
<1>3. Numbers(b, g)
  <2>1. \A j \in 1 .. n - k : b[j][g] \in Nat
    <3> TAKE j \in 1 .. n - k
    <3>1. k + j \in 1 .. n /\ k + 1 \in 1 .. n /\ k < n
      BY <1>1
    <3>2. a[k + j][f] \in Nat /\ a[k + 1][f] \in Nat
      BY <3>1, <1>2
    <3> QED BY <3>1, <3>2, <1>0, <1>1
  <2> QED BY <2>1, <1>0, <1>1 DEF Numbers
<1>4. PICK s, t : s = Sums(a, f) /\ t = Sums(b, g)
  OBVIOUS
<1>5. /\ s \in [0 .. n -> Nat] /\ s[0] = 0
      /\ \A j \in 1 .. n : s[j] = s[j - 1] + a[j][f]
  BY <1>1, <1>4, SumsStep
<1>6. /\ t \in [0 .. n - k -> Nat] /\ t[0] = 0
      /\ \A j \in 1 .. n - k : t[j] = t[j - 1] + b[j][g]
  <2>1. /\ Sums(b, g) \in [0 .. Len(b) -> Nat] /\ Sums(b, g)[0] = 0
        /\ \A j \in 1 .. Len(b) : Sums(b, g)[j] = Sums(b, g)[j - 1] + b[j][g]
    BY <1>3, SumsStep
  <2>2. Len(b) = n - k
    BY <1>0
  <2> QED BY <2>1, <2>2, <1>4, Zenon
<1>7. \A j \in 1 .. n - k : t[j] = s[k + j] - s[k] - c
  <2> DEFINE Bad == {j \in 1 .. n - k : t[j] # s[k + j] - s[k] - c}
  <2> SUFFICES ASSUME Bad # {} PROVE FALSE
    OBVIOUS
  <2>1. PICK j \in Bad : \A i \in Bad : j <= i
    <3>1. Bad \subseteq Nat
      BY <1>1
    <3> HIDE DEF Bad
    <3> QED BY <3>1, LeastNumber
  <2>2. j \in 1 .. n - k /\ k + j \in 1 .. n /\ k \in 0 .. n /\ (k + j) - 1 \in 0 .. n /\ j \in Nat
    BY <2>1, <1>1
  <2>3. s[k + j] = s[(k + j) - 1] + a[k + j][f] /\ t[j] = t[j - 1] + b[j][g]
    BY <2>2, <1>5, <1>6
  <2>4. s[k] \in Nat /\ s[(k + j) - 1] \in Nat /\ a[k + j][f] \in Nat
    BY <2>2, <1>5, <1>2
  <2>5. CASE j = 1
    <3>1. t[1] = 0 + (a[k + 1][f] - c) /\ s[k + 1] = s[k] + a[k + 1][f]
      BY <2>2, <2>3, <2>5, <1>0, <1>1, <1>6
    <3> QED BY <3>1, <2>1, <2>4, <2>5
  <2>6. CASE j # 1
    <3>1. j - 1 \in 1 .. n - k /\ j - 1 \notin Bad
      <4>1. j - 1 \in 1 .. n - k /\ ~(j <= j - 1)
        BY <2>2, <2>6, <1>1
      <4> HIDE DEF Bad
      <4> QED BY <4>1, <2>1, Zenon
    <3>2. t[j - 1] = s[k + (j - 1)] - s[k] - c
      BY <3>1
    <3>3. k + (j - 1) = (k + j) - 1
      BY <2>2
    <3>4. t[j] = t[j - 1] + a[k + j][f]
      BY <2>2, <2>3, <2>6, <1>0, <1>1
    <3>5. t[j] = s[k + j] - s[k] - c
      <4>0. t[j - 1] \in Nat
        <5>1. j - 1 \in 0 .. n - k
          BY <3>1, <2>2
        <5> QED BY <5>1, <1>6
      <4>1. PICK x, y, z, w \in Nat :
                /\ x = t[j - 1] /\ y = s[k]
                /\ z = s[(k + j) - 1] /\ w = a[k + j][f]
        BY <4>0, <2>4
      <4>2. x = z - y - c
        BY <4>1, <3>2, <3>3
      <4>3. t[j] = x + w /\ s[k + j] = z + w
        BY <4>1, <3>4, <2>3
      <4>4. x + w = (z + w) - y - c
        BY <4>2
      <4> QED BY <4>1, <4>3, <4>4
    <3> QED BY <3>5, <2>1
  <2> QED BY <2>5, <2>6
<1>8. s[k] \in Nat /\ s[n] \in Nat
  BY <1>1, <1>5
<1>9. t[n - k] = s[n] - s[k] - c
  <2>1. CASE k = n
    BY <2>1, <1>0, <1>1, <1>6, <1>8
  <2>2. CASE k # n
    <3>1. n - k \in 1 .. n - k /\ k + (n - k) = n
      BY <2>2, <1>1
    <3> QED BY <3>1, <1>7
  <2> QED BY <2>1, <2>2
<1> QED BY <1>0, <1>1, <1>3, <1>4, <1>8, <1>9 DEF Total

\* The sum of a list with one more item.
LEMMA TotalAppend ==
    ASSUME NEW S, NEW a \in Seq(S), NEW f, Numbers(a, f), NEW e \in S, e[f] \in Nat
    PROVE  Numbers(Append(a, e), f) /\ Total(a, f) \in Nat
           /\ Total(Append(a, e), f) = Total(a, f) + e[f]
<1>1. PICK n \in Nat : n = Len(a)
  BY DEF Numbers
<1>2. PICK b : b = Append(a, e)
  OBVIOUS
<1>3. Len(b) = n + 1 /\ b[n + 1] = e /\ \A k \in 1 .. n : b[k] = a[k]
  BY <1>1, <1>2, AppendProperties
<1>4. Numbers(b, f)
  <2>1. \A k \in 1 .. n + 1 : b[k][f] \in Nat
    <3> TAKE k \in 1 .. n + 1
    <3>1. CASE k = n + 1
      BY <3>1, <1>3
    <3>2. CASE k # n + 1
      <4>1. k \in 1 .. n
        BY <3>2
      <4> QED BY <4>1, <1>3, <1>1 DEF Numbers
    <3> QED BY <3>1, <3>2
  <2> QED BY <2>1, <1>3 DEF Numbers
<1>5. PICK s, t : s = Sums(a, f) /\ t = Sums(b, f)
  OBVIOUS
<1>6. /\ s \in [0 .. n -> Nat] /\ s[0] = 0
      /\ \A j \in 1 .. n : s[j] = s[j - 1] + a[j][f]
  BY <1>1, <1>5, SumsStep
<1>7. /\ t \in [0 .. n + 1 -> Nat] /\ t[0] = 0
      /\ \A j \in 1 .. n + 1 : t[j] = t[j - 1] + b[j][f]
  <2>1. /\ Sums(b, f) \in [0 .. Len(b) -> Nat] /\ Sums(b, f)[0] = 0
        /\ \A j \in 1 .. Len(b) : Sums(b, f)[j] = Sums(b, f)[j - 1] + b[j][f]
    BY <1>4, SumsStep
  <2> QED BY <2>1, <1>3, <1>5, Zenon
<1>8. \A j \in 0 .. n : t[j] = s[j]
  <2> DEFINE Bad == {j \in 0 .. n : t[j] # s[j]}
  <2> SUFFICES ASSUME Bad # {} PROVE FALSE
    OBVIOUS
  <2>1. PICK j \in Bad : \A i \in Bad : j <= i
    <3>1. Bad \subseteq Nat
      BY <1>1
    <3> HIDE DEF Bad
    <3> QED BY <3>1, LeastNumber
  <2>2. j \in 1 .. n /\ j \in 1 .. n + 1 /\ j - 1 \in 0 .. n /\ j - 1 \notin Bad
    BY <2>1, <1>6, <1>7
  <2>3. t[j - 1] = s[j - 1] /\ b[j] = a[j]
    BY <2>2, <1>3
  <2>4. t[j] = t[j - 1] + b[j][f] /\ s[j] = s[j - 1] + a[j][f]
    BY <2>2, <1>6, <1>7
  <2> QED BY <2>1, <2>3, <2>4
<1>9. t[n + 1] = s[n] + e[f] /\ s[n] \in Nat
  <2>1. n + 1 \in 1 .. n + 1 /\ (n + 1) - 1 = n /\ n \in 0 .. n
    OBVIOUS
  <2>2. t[n + 1] = t[(n + 1) - 1] + b[n + 1][f]
    BY <2>1, <1>7
  <2> QED BY <2>1, <2>2, <1>3, <1>6, <1>8
<1> QED BY <1>1, <1>2, <1>3, <1>4, <1>5, <1>9 DEF Total

\* What Covered finds: the one number of items that n covers.
LEMMA CoveredFound ==
    ASSUME NEW a, NEW f, Numbers(a, f), NEW n \in Nat
    PROVE  /\ Covered(a, f, n) \in 0 .. Len(a)
           /\ Sums(a, f)[Covered(a, f, n)] <= n
           /\ Covered(a, f, n) = Len(a) \/ Sums(a, f)[Covered(a, f, n) + 1] > n
           /\ \A k \in 0 .. Len(a) :
                 /\ Sums(a, f)[k] <= n
                 /\ k = Len(a) \/ Sums(a, f)[k + 1] > n
                 => k = Covered(a, f, n)
<1>1. PICK m \in Nat : m = Len(a)
  BY DEF Numbers
<1>2. PICK s : s = Sums(a, f)
  OBVIOUS
<1>3. s \in [0 .. m -> Nat] /\ s[0] = 0
  BY <1>1, <1>2, SumsStep
<1> DEFINE Fits(k) == s[k] <= n /\ (k = m \/ s[k + 1] > n)
           Ends == {k \in 0 .. m : k = m \/ s[k + 1] > n}
<1>4. \E k \in 0 .. m : Fits(k)
  <2>1. m \in Ends
    BY <1>1
  <2>2. PICK k \in Ends : \A i \in Ends : k <= i
    <3>1. Ends \subseteq Nat
      BY <1>1
    <3> HIDE DEF Ends
    <3> QED BY <3>1, <2>1, LeastNumber
  <2>3. s[k] <= n
    <3>1. CASE k = 0
      BY <3>1, <1>3
    <3>2. CASE k # 0
      <4>1. k - 1 \in 0 .. m /\ k - 1 \notin Ends /\ (k - 1) + 1 = k /\ k \in 0 .. m
        <5>1. k - 1 \in 0 .. m /\ (k - 1) + 1 = k /\ k \in 0 .. m /\ ~(k <= k - 1)
          BY <3>2, <2>2, <1>1
        <5> HIDE DEF Ends
        <5> QED BY <5>1, <2>2, Zenon
      <4>2. ~(s[k] > n) /\ s[k] \in Nat
        BY <4>1, <1>3
      <4> QED BY <4>2
    <3> QED BY <3>1, <3>2
  <2> QED BY <2>2, <2>3
<1>5. Covered(a, f, n) = CHOOSE k \in 0 .. m : Fits(k)
  BY <1>1, <1>2 DEF Covered
<1>6. PICK c : c = Covered(a, f, n) /\ c \in 0 .. m /\ Fits(c)
  BY <1>4, <1>5
<1>7. \A k \in 0 .. m : Fits(k) => k = c
  <2>1. \A i, j \in 0 .. m : i <= j => s[i] <= s[j]
    BY <1>1, <1>2, SumsRise
  <2>2. ASSUME NEW i \in 0 .. m, NEW j \in 0 .. m, i < j, Fits(i), Fits(j)
        PROVE  FALSE
    <3>1. i # m /\ i + 1 \in 0 .. m /\ i + 1 <= j
      BY <2>2, <1>1
    <3>2. s[i + 1] <= s[j] /\ s[i + 1] \in Nat /\ s[j] \in Nat
      BY <3>1, <2>1, <1>3
    <3> QED BY <3>1, <3>2, <2>2
  <2> TAKE k \in 0 .. m
  <2> HAVE Fits(k)
  <2> HIDE DEF Fits
  <2>3. ~(k < c) /\ ~(c < k)
    BY <2>2, <1>6
  <2> QED BY <2>3, <1>6, <1>1
<1> QED BY <1>1, <1>2, <1>6, <1>7
Stacks == {<<>>, <<"TLS">>, <<"SASL">>, <<"TLS", "SASL">>}

Answers == {"open", "features", "proceed", "hello", "finished", "challenge", "success",
            "auth_fields", "bound", "stanza"}

FeatureSets == [tls : BOOLEAN, mechs : BOOLEAN, bind : BOOLEAN]

\* What the server sends, and what its layers and its buffer keep of it.
Items == [kind : [name : Answers, features : FeatureSets], layers : Stacks]
Tracked == [plain : Nat, encoded : Nat]
Layers == [type : {"TLS", "SASL"}, done : BOOLEAN, prebytes : Nat, p : Nat, list : Seq(Tracked)]
Entries == [bytes : Nat \ {0}, plain : Nat, layered : BOOLEAN, item : Items]
Streams == [layers : Seq(Layers), pending : Nat, topInProgress : BOOLEAN, reported : Nat,
            out : Seq(Entries), sent : Nat]

\* Own(a): the layer counts what is written as its own.
Own(a) == a.type = "SASL" \/ a.done

\* Follows(a, out): each entry of the buffer is an item of the layer a, which
\* has nothing else to report.
Follows(a, out) ==
    /\ Own(a) /\ a.prebytes = 0 /\ a.p = 0
    /\ Len(a.list) = Len(out)
    /\ \A k \in DOMAIN out : a.list[k].encoded = out[k].bytes /\ out[k].layered

\* No layer, one, or two, and each has counted all there is in the buffer.
Bare(s) ==
    /\ s.layers = <<>>
    /\ \A k \in DOMAIN s.out : s.out[k].plain = s.out[k].bytes /\ ~s.out[k].layered

Single(s) ==
    /\ Len(s.layers) = 1
    /\ Follows(s.layers[1], s.out)
    /\ \A k \in DOMAIN s.out : s.layers[1].list[k].plain = s.out[k].plain

Double(s) ==
    /\ Len(s.layers) = 2 /\ LayerTypes(s) = <<"TLS", "SASL">>
    /\ Follows(s.layers[1], s.out)
    /\ s.layers[2].prebytes = 0 /\ s.layers[2].p = 0
    /\ Len(s.layers[2].list) = Len(s.out)
    /\ \A k \in DOMAIN s.out :
          /\ s.layers[2].list[k].plain = s.out[k].plain
          /\ s.layers[2].list[k].encoded = s.layers[1].list[k].plain
          /\ s.layers[2].list[k].encoded > 0

Settled(s) == ~s.topInProgress /\ (Bare(s) \/ Single(s) \/ Double(s))

\* TLS shakes hands; what it sends is no byte of the stream.
Shaking(s) ==
    /\ s.topInProgress /\ LayerTypes(s) = <<"TLS">> /\ Len(s.layers) = 1
    /\ ~s.layers[1].done
    /\ s.layers[1].prebytes = 0 /\ s.layers[1].p = 0 /\ s.layers[1].list = <<>>
    /\ s.pending = 0 /\ \A k \in DOMAIN s.out : s.out[k].layered

\* The last layer was put in place while one element was under way, as the
\* layers below had it.
BegunOnSocket(s) ==
    /\ Len(s.layers) = 1 /\ ~s.layers[1].done
    /\ s.topInProgress = (s.layers[1].type = "TLS")
    /\ s.layers[1].p = 0 /\ s.layers[1].list = <<>>
    /\ Len(s.out) = 1 /\ ~s.out[1].layered
    /\ s.out[1].plain = s.out[1].bytes /\ s.layers[1].prebytes = s.out[1].bytes

BegunOnTLS(s) ==
    /\ Len(s.layers) = 2 /\ LayerTypes(s) = <<"TLS", "SASL">> /\ ~s.topInProgress
    /\ Follows(s.layers[1], s.out)
    /\ s.layers[2].p = 0 /\ s.layers[2].list = <<>>
    /\ Len(s.out) = 1
    /\ s.layers[1].list[1].plain = s.out[1].plain /\ s.layers[2].prebytes = s.out[1].plain

\* The accounting of the stack.
Accounted(s) ==
    /\ s \in Streams
    /\ Settled(s) \/ Shaking(s) \/ BegunOnSocket(s) \/ BegunOnTLS(s)
    /\ Accurate(s)

-----------------------------------------------------------------------------
(***************************************************************************)
(* The buffer of the socket                                                *)
(***************************************************************************)
\* Leaves(out, n, k, left, rest, plain): when n bytes go, the first k entries
\* go and left bytes of the next; rest remains, and plain of the stream's bytes
\* have gone.
Leaves(out, n, k, left, rest, plain) ==
    /\ k = Covered(out, "bytes", n) /\ left = n - Sums(out, "bytes")[k]
    /\ k = Len(out) => left = 0
    /\ k < Len(out) => left < out[k + 1].bytes
    /\ rest = Drained(out, n).out /\ plain = Drained(out, n).plain
    /\ Drained(out, n).items = [j \in 1 .. k |-> out[j].item]
    /\ Len(rest) = Len(out) - k
    /\ \A j \in 1 .. Len(out) - k :
          /\ rest[j].bytes = IF j = 1 THEN out[k + 1].bytes - left ELSE out[k + j].bytes
          /\ rest[j].plain = IF j = 1 /\ ~out[k + 1].layered
                             THEN out[k + 1].plain - left ELSE out[k + j].plain
          /\ rest[j].layered = out[k + j].layered /\ rest[j].item = out[k + j].item
    /\ plain = Sums(out, "plain")[k] + (IF k = Len(out) \/ out[k + 1].layered THEN 0 ELSE left)
    /\ Total(out, "plain") \in Nat /\ plain <= Total(out, "plain")
    /\ Total(rest, "plain") = Total(out, "plain") - plain

\* That is what Drained does, where an entry under no layer is of the stream.
LEMMA DrainedFacts ==
    ASSUME NEW out \in Seq(Entries),
           \A j \in 1 .. Len(out) : out[j].layered \/ out[j].plain = out[j].bytes,
           NEW n \in Nat, n <= Total(out, "bytes")
    PROVE  \E k \in 0 .. Len(out), left \in Nat, rest \in Seq(Entries), plain \in Nat :
              Leaves(out, n, k, left, rest, plain)
<1>1. PICK m \in Nat : m = Len(out)
  BY LenProperties
<1>2. \A j \in 1 .. m : out[j] \in Entries
  BY <1>1, ElementOfSeq
<1>3. Numbers(out, "bytes") /\ Numbers(out, "plain")
  <2>1. \A j \in 1 .. m : out[j].bytes \in Nat /\ out[j].plain \in Nat
    BY <1>2 DEF Entries
  <2> QED BY <2>1, <1>1 DEF Numbers
<1>4. PICK s : s = Sums(out, "bytes")
  OBVIOUS
<1>5. /\ s \in [0 .. m -> Nat]
      /\ \A j \in 1 .. m : s[j] = s[j - 1] + out[j].bytes
  BY <1>1, <1>3, <1>4, SumsStep
<1>6. PICK k \in 0 .. m : k = Covered(out, "bytes", n) /\ s[k] <= n /\ (k = m \/ s[k + 1] > n)
  BY <1>1, <1>3, <1>4, CoveredFound
<1>7. s[m] >= n
  BY <1>1, <1>4 DEF Total
<1>8. PICK left \in Nat : left = n - s[k]
  BY <1>5, <1>6
<1>9. k = m => left = 0
  BY <1>5, <1>6, <1>7, <1>8
<1>10. k < m => left < out[k + 1].bytes
  <2> SUFFICES ASSUME k < m PROVE left < out[k + 1].bytes
    OBVIOUS
  <2>1. k + 1 \in 1 .. m /\ (k + 1) - 1 = k
    BY <1>1
  <2>2. s[k + 1] = s[k] + out[k + 1].bytes /\ s[k] \in Nat /\ out[k + 1].bytes \in Nat
    BY <2>1, <1>2, <1>5 DEF Entries
  <2> QED BY <2>2, <1>6, <1>8
<1>11. PICK p \in Nat : p = IF k = m \/ out[k + 1].layered THEN 0 ELSE left
  OBVIOUS
<1>12. PICK rest : rest = [j \in 1 .. (m - k) |->
            IF j = 1 THEN [out[k + 1] EXCEPT !.bytes = @ - left, !.plain = @ - p] ELSE out[k + j]]
  OBVIOUS
<1>13. /\ Drained(out, n).out = rest
       /\ Drained(out, n).plain = Sums(out, "plain")[k] + p
       /\ Drained(out, n).items = [j \in 1 .. k |-> out[j].item]
  <2>1. Drained(out, n) = [out |-> rest, plain |-> Sums(out, "plain")[k] + p,
                           items |-> [j \in 1 .. k |-> out[j].item]]
    BY <1>1, <1>4, <1>6, <1>8, <1>11, <1>12 DEF Drained
  <2> QED BY <2>1
<1>14. p <= left /\ (k < m => p <= out[k + 1].plain)
  <2>1. ASSUME k < m PROVE p <= out[k + 1].plain
    <3>1. k + 1 \in 1 .. m
      BY <2>1, <1>1
    <3>2. out[k + 1].plain \in Nat /\ out[k + 1].bytes \in Nat
      BY <3>1, <1>2 DEF Entries
    <3>3. out[k + 1].layered \/ out[k + 1].plain = out[k + 1].bytes
      BY <3>1, <1>1
    <3> QED BY <3>2, <3>3, <2>1, <1>10, <1>11
  <2> QED BY <2>1, <1>11
<1>15. \A j \in 1 .. m - k :
          /\ rest[j] \in Entries
          /\ rest[j].bytes = IF j = 1 THEN out[k + 1].bytes - left ELSE out[k + j].bytes
          /\ rest[j].plain = IF j = 1 THEN out[k + 1].plain - p ELSE out[k + j].plain
          /\ rest[j].layered = out[k + j].layered /\ rest[j].item = out[k + j].item
  <2> TAKE j \in 1 .. m - k
  <2>1. k < m /\ k + j \in 1 .. m /\ k + 1 \in 1 .. m
    BY <1>1
  <2>2. out[k + j] \in Entries /\ out[k + 1] \in Entries
    BY <2>1, <1>2
  <2>3. CASE j = 1
    <3>1. PICK e : e = out[k + 1]
      OBVIOUS
    <3>2. /\ e \in Entries /\ left < e.bytes /\ p <= e.plain
          /\ rest[j] = [e EXCEPT !.bytes = @ - left, !.plain = @ - p]
      BY <3>1, <2>1, <2>2, <2>3, <1>10, <1>12, <1>14
    <3>3. e.bytes - left \in Nat \ {0} /\ e.plain - p \in Nat
      BY <3>2 DEF Entries
    <3>4. rest[j] \in Entries /\ rest[j].bytes = e.bytes - left /\ rest[j].plain = e.plain - p
          /\ rest[j].layered = e.layered /\ rest[j].item = e.item
      BY <3>2, <3>3 DEF Entries
    <3> QED BY <3>1, <3>4, <2>3
  <2>4. CASE j # 1
    BY <2>2, <2>4, <1>12
  <2> QED BY <2>3, <2>4
<1>16. rest \in Seq(Entries) /\ Len(rest) = m - k
  <2>1. m - k \in Nat
    BY <1>1
  <2>2. rest \in [1 .. m - k -> Entries]
    BY <1>12, <1>15
  <2> QED BY <2>1, <2>2, SeqDef
<1>17. /\ Sums(out, "plain")[k] \in Nat /\ Total(out, "plain") \in Nat
       /\ Total(rest, "plain") = Total(out, "plain") - Sums(out, "plain")[k] - p
       /\ Numbers(rest, "plain")
  <2>1. k = Len(out) => p = 0
    BY <1>1, <1>11
  <2>2. PICK f : f = "plain"
    OBVIOUS
  <2>3. k < Len(out) => p <= out[k + 1][f]
    BY <2>2, <1>1, <1>14
  <2>4. Len(rest) = Len(out) - k
    BY <1>1, <1>16
  <2>5. \A j \in 1 .. Len(out) - k :
            rest[j][f] = IF j = 1 THEN out[k + 1][f] - p ELSE out[k + j][f]
    BY <2>2, <1>1, <1>15
  <2>6. k \in 0 .. Len(out) /\ Numbers(out, f)
    BY <2>2, <1>1, <1>3
  <2>7. /\ Numbers(rest, f) /\ Sums(out, f)[k] \in Nat /\ Total(out, f) \in Nat
        /\ Total(rest, f) = Total(out, f) - Sums(out, f)[k] - p
    <3>1. Remains(rest, f, out, f, k, p)
      BY <2>1, <2>3, <2>4, <2>5 DEF Remains
    <3> QED BY <3>1, <2>6, TotalRest
  <2> QED BY <2>2, <2>7
<1>18. Total(rest, "plain") \in Nat
  <2>1. Sums(rest, "plain") \in [0 .. Len(rest) -> Nat]
    BY <1>17, SumsStep
  <2>2. Len(rest) \in 0 .. Len(rest)
    BY <1>1, <1>16
  <2> QED BY <2>1, <2>2 DEF Total
<1>19. PICK plain \in Nat : plain = Sums(out, "plain")[k] + p
  BY <1>17
<1>20. plain <= Total(out, "plain") /\ Total(rest, "plain") = Total(out, "plain") - plain
  BY <1>17, <1>18, <1>19
<1>21. \A j \in 1 .. m - k :
          /\ rest[j].bytes = IF j = 1 THEN out[k + 1].bytes - left ELSE out[k + j].bytes
          /\ rest[j].plain = IF j = 1 /\ ~out[k + 1].layered
                             THEN out[k + 1].plain - left ELSE out[k + j].plain
          /\ rest[j].layered = out[k + j].layered /\ rest[j].item = out[k + j].item
  <2> TAKE j \in 1 .. m - k
  <2>1. k < m /\ k + 1 \in 1 .. m
    BY <1>1
  <2>2. out[k + 1].plain \in Nat
    BY <2>1, <1>2 DEF Entries
  <2> QED BY <2>1, <2>2, <1>11, <1>15
<1>22. /\ k \in 0 .. Len(out) /\ Len(rest) = Len(out) - k
       /\ k = Len(out) => left = 0
       /\ k < Len(out) => left < out[k + 1].bytes
       /\ left = n - Sums(out, "bytes")[k]
  BY <1>1, <1>4, <1>8, <1>9, <1>10, <1>16
<1>23. /\ rest = Drained(out, n).out /\ plain = Drained(out, n).plain
       /\ plain = Sums(out, "plain")[k]
                     + (IF k = Len(out) \/ out[k + 1].layered THEN 0 ELSE left)
  BY <1>1, <1>11, <1>13, <1>19
<1>24. \A j \in 1 .. Len(out) - k :
          /\ rest[j].bytes = IF j = 1 THEN out[k + 1].bytes - left ELSE out[k + j].bytes
          /\ rest[j].plain = IF j = 1 /\ ~out[k + 1].layered
                             THEN out[k + 1].plain - left ELSE out[k + j].plain
          /\ rest[j].layered = out[k + j].layered /\ rest[j].item = out[k + j].item
  BY <1>1, <1>21
<1>25. k = Covered(out, "bytes", n) /\ rest \in Seq(Entries)
       /\ Drained(out, n).items = [j \in 1 .. k |-> out[j].item]
       /\ Total(out, "plain") \in Nat /\ plain <= Total(out, "plain")
       /\ Total(rest, "plain") = Total(out, "plain") - plain
  BY <1>6, <1>13, <1>16, <1>17, <1>20
<1>26. Leaves(out, n, k, left, rest, plain)
  BY <1>22, <1>23, <1>24, <1>25, Zenon DEF Leaves
<1> QED BY <1>22, <1>25, <1>26

\* Items(out): the items of a buffer.
Carried(out) == [j \in DOMAIN out |-> out[j].item]

\* What has left the buffer and what is left of it are what it carried.
LEMMA DrainedItems ==
    ASSUME NEW out \in Seq(Entries), NEW k \in 0 .. Len(out), NEW rest \in Seq(Entries),
           Len(rest) = Len(out) - k,
           \A j \in 1 .. Len(out) - k : rest[j].item = out[k + j].item
    PROVE  [j \in 1 .. k |-> out[j].item] \o Carried(rest) = Carried(out)
<1>1. PICK m \in Nat : m = Len(out)
  BY LenProperties
<1>2. PICK a, b, c : a = [j \in 1 .. k |-> out[j].item] /\ b = Carried(rest) /\ c = Carried(out)
  OBVIOUS
<1>3. \A j \in 1 .. m : out[j].item \in Items
  <2>1. \A j \in 1 .. m : out[j] \in Entries
    BY <1>1, ElementOfSeq
  <2> QED BY <2>1 DEF Entries
<1>4. DOMAIN out = 1 .. m /\ DOMAIN rest = 1 .. m - k
  BY <1>1, LenProperties
<1>5. c \in Seq(Items) /\ Len(c) = m /\ \A j \in 1 .. m : c[j] = out[j].item
  <2>1. c \in [1 .. m -> Items]
    BY <1>2, <1>3, <1>4 DEF Carried
  <2> QED BY <2>1, <1>2, <1>4, SeqDef DEF Carried
<1>6. a \in Seq(Items) /\ Len(a) = k /\ \A j \in 1 .. k : a[j] = out[j].item
  <2>1. a \in [1 .. k -> Items]
    BY <1>1, <1>2, <1>3
  <2> QED BY <2>1, <1>1, <1>2, SeqDef
<1>7. b \in Seq(Items) /\ Len(b) = m - k /\ \A j \in 1 .. m - k : b[j] = out[k + j].item
  <2>1. \A j \in 1 .. m - k : k + j \in 1 .. m
    BY <1>1
  <2>2. b = [j \in 1 .. m - k |-> rest[j].item]
    BY <1>2, <1>4 DEF Carried
  <2>3. \A j \in 1 .. m - k : b[j] = out[k + j].item
    BY <2>2, <1>1
  <2>4. b \in [1 .. m - k -> Items]
    BY <2>1, <2>2, <2>3, <1>3
  <2>5. m - k \in Nat
    BY <1>1
  <2> QED BY <2>3, <2>4, <2>5, SeqDef
<1>8. /\ a \o b \in Seq(Items) /\ Len(a \o b) = Len(a) + Len(b)
      /\ \A j \in 1 .. Len(a) + Len(b) : (a \o b)[j] = IF j <= Len(a) THEN a[j] ELSE b[j - Len(a)]
  BY <1>6, <1>7, ConcatProperties
<1>9. Len(a) + Len(b) = m /\ Len(a) = k
  BY <1>1, <1>6, <1>7
<1>10. \A j \in 1 .. m : (a \o b)[j] = c[j]
  <2> TAKE j \in 1 .. m
  <2>1. CASE j <= k
    <3>1. j \in 1 .. k
      BY <2>1, <1>1
    <3> QED BY <3>1, <2>1, <1>5, <1>6, <1>8, <1>9
  <2>2. CASE ~(j <= k)
    <3>1. j - k \in 1 .. m - k /\ k + (j - k) = j
      BY <2>2, <1>1
    <3>2. (a \o b)[j] = b[j - k]
      BY <2>2, <1>8, <1>9
    <3> QED BY <3>1, <3>2, <1>5, <1>7
  <2> QED BY <2>1, <2>2
<1>11. a \o b = c
  BY <1>5, <1>8, <1>9, <1>10, SeqEqual
<1> QED BY <1>2, <1>11

-----------------------------------------------------------------------------
(***************************************************************************)
(* The layers                                                              *)
(***************************************************************************)
\* Through two layers at most: each hands the report it makes to the next.
LEMMA PassedSteps ==
    ASSUME NEW layers, Len(layers) \in 0 .. 2, NEW n
    PROVE  /\ Passed(layers, n)[0] = n
           /\ \A k \in 1 .. Len(layers) :
                 Passed(layers, n)[k] = LayerFinished(layers[k], Passed(layers, n)[k - 1]).plain
<1>1. PICK m \in 0 .. 2 : m = Len(layers)
  OBVIOUS
<1> DEFINE first == LayerFinished(layers[1], n).plain
           second == LayerFinished(layers[2], first).plain
           Step(s) == [k \in 0 .. m |-> IF k = 0 THEN n ELSE LayerFinished(layers[k], s[k - 1]).plain]
           t == [k \in 0 .. m |-> IF k = 0 THEN n ELSE IF k = 1 THEN first ELSE second]
<1>2. t = Step(t)
  <2> SUFFICES ASSUME NEW k \in 0 .. m
               PROVE  t[k] = IF k = 0 THEN n ELSE LayerFinished(layers[k], t[k - 1]).plain
    BY Zenon
  <2>1. CASE k = 0
    BY <2>1
  <2>2. CASE k = 1
    <3>1. t[0] = n /\ t[1] = first
      BY <2>2
    <3> QED BY <3>1, <2>2
  <2>3. CASE k = 2
    <3>1. t[1] = first /\ t[2] = second
      BY <2>3
    <3> QED BY <3>1, <2>3
  <2> QED BY <2>1, <2>2, <2>3, <1>1
<1>3. Passed(layers, n) = CHOOSE s : s = Step(s)
  BY <1>1 DEF Passed
<1>4. PICK s : s = Passed(layers, n) /\ s = Step(s)
  BY <1>2, <1>3
<1>5. s[0] = n
  BY <1>4, <1>1
<1>6. \A k \in 1 .. m : s[k] = LayerFinished(layers[k], s[k - 1]).plain
  <2> TAKE k \in 1 .. m
  <2>1. k \in 0 .. m /\ k # 0
    BY <1>1
  <2> QED BY <2>1, <1>4
<1> QED BY <1>1, <1>4, <1>5, <1>6

\* Through one layer.
LEMMA PassedOne ==
    ASSUME NEW layers, Len(layers) = 1, NEW n
    PROVE  /\ Passed(layers, n)[0] = n
           /\ Passed(layers, n)[1] = LayerFinished(layers[1], n).plain
<1>1. Len(layers) \in 0 .. 2 /\ 1 \in 1 .. Len(layers) /\ 1 - 1 = 0
  OBVIOUS
<1>2. Passed(layers, n)[0] = n
  BY <1>1, PassedSteps
<1>3. Passed(layers, n)[1] = LayerFinished(layers[1], Passed(layers, n)[1 - 1]).plain
  BY <1>1, PassedSteps
<1> QED BY <1>1, <1>2, <1>3

\* Through two.
LEMMA PassedTwo ==
    ASSUME NEW layers, Len(layers) = 2, NEW n
    PROVE  /\ Passed(layers, n)[0] = n
           /\ Passed(layers, n)[1] = LayerFinished(layers[1], n).plain
           /\ Passed(layers, n)[2] = LayerFinished(layers[2], Passed(layers, n)[1]).plain
<1>1. Len(layers) \in 0 .. 2 /\ 1 \in 1 .. Len(layers) /\ 2 \in 1 .. Len(layers)
      /\ 1 - 1 = 0 /\ 2 - 1 = 1
  OBVIOUS
<1>2. Passed(layers, n)[0] = n
  BY <1>1, PassedSteps
<1>3. Passed(layers, n)[1] = LayerFinished(layers[1], Passed(layers, n)[1 - 1]).plain
  BY <1>1, PassedSteps
<1>4. Passed(layers, n)[2] = LayerFinished(layers[2], Passed(layers, n)[2 - 1]).plain
  BY <1>1, PassedSteps
<1> QED BY <1>1, <1>2, <1>3, <1>4

\* What is written grows on its way down.
LEMMA SizesSteps ==
    ASSUME NEW layers, Len(layers) \in 0 .. 2, NEW n
    PROVE  /\ Sizes(layers, n)[Len(layers)] = n
           /\ \A k \in 1 .. Len(layers) :
                 Sizes(layers, n)[k - 1] = Encoded(layers[k].type, Sizes(layers, n)[k])
<1>1. PICK m \in 0 .. 2 : m = Len(layers)
  OBVIOUS
<1> DEFINE first == Encoded(layers[m].type, n)
           second == Encoded(layers[m - 1].type, first)
           Step(s) == [k \in 0 .. m |-> IF k = m THEN n ELSE Encoded(layers[k + 1].type, s[k + 1])]
           t == [k \in 0 .. m |-> IF k = m THEN n ELSE IF k = m - 1 THEN first ELSE second]
<1>2. t = Step(t)
  <2> SUFFICES ASSUME NEW k \in 0 .. m
               PROVE  t[k] = IF k = m THEN n ELSE Encoded(layers[k + 1].type, t[k + 1])
    BY Zenon
  <2>1. CASE k = m
    BY <2>1
  <2>2. CASE k = m - 1
    <3>1. t[m] = n /\ t[m - 1] = first /\ k + 1 = m /\ k # m
      BY <2>2, <1>1
    <3> QED BY <3>1, <2>2
  <2>3. CASE k = m - 2
    <3>1. t[m - 1] = first /\ t[m - 2] = second /\ k + 1 = m - 1 /\ k # m
      BY <2>3, <1>1
    <3> QED BY <3>1, <2>3
  <2> QED BY <2>1, <2>2, <2>3, <1>1
<1>3. Sizes(layers, n) = CHOOSE s : s = Step(s)
  BY <1>1 DEF Sizes
<1>4. PICK s : s = Sizes(layers, n) /\ s = Step(s)
  BY <1>2, <1>3
<1>5. s[m] = n
  BY <1>4, <1>1
<1>6. \A k \in 1 .. m : s[k - 1] = Encoded(layers[k].type, s[k])
  <2> TAKE k \in 1 .. m
  <2>1. k - 1 \in 0 .. m /\ k - 1 # m /\ (k - 1) + 1 = k
    BY <1>1
  <2> QED BY <2>1, <1>4
<1> QED BY <1>1, <1>4, <1>5, <1>6

\* Remnant(l, a, c, left): the layer a without the first c of its items, and
\* without left bytes of the next.
Remnant(l, a, c, left) ==
    /\ l.type = a.type /\ l.done = a.done /\ l.prebytes = 0 /\ l.p = a.p
    /\ Len(l.list) = Len(a.list) - c
    /\ \A j \in 1 .. Len(a.list) - c :
          /\ l.list[j].plain = a.list[c + j].plain
          /\ l.list[j].encoded = IF j = 1 THEN a.list[c + 1].encoded - left
                                 ELSE a.list[c + j].encoded

\* The lists of a layer have numbers.
LEMMA LayerNumbers ==
    ASSUME NEW a \in Layers
    PROVE  /\ a.list \in Seq(Tracked) /\ Len(a.list) \in Nat
           /\ \A j \in 1 .. Len(a.list) : a.list[j] \in Tracked
           /\ Numbers(a.list, "plain") /\ Numbers(a.list, "encoded")
<1>1. a.list \in Seq(Tracked)
  BY DEF Layers
<1>2. Len(a.list) \in Nat
  BY <1>1, LenProperties
<1>3. \A j \in 1 .. Len(a.list) : a.list[j] \in Tracked
  BY <1>1, <1>2, ElementOfSeq
<1>4. \A j \in 1 .. Len(a.list) : a.list[j].plain \in Nat /\ a.list[j].encoded \in Nat
  BY <1>3 DEF Tracked
<1> QED BY <1>1, <1>2, <1>3, <1>4 DEF Numbers

\* A layer that has nothing but its own reports the items that are complete.
LEMMA OwnFinished ==
    ASSUME NEW a \in Layers, Own(a), a.prebytes = 0, NEW b \in Nat,
           NEW c \in 0 .. Len(a.list), c = Covered(a.list, "encoded", b),
           NEW left \in Nat, left = b - Sums(a.list, "encoded")[c],
           c < Len(a.list) => left <= a.list[c + 1].encoded
    PROVE  /\ LayerFinished(a, b).plain = Sums(a.list, "plain")[c]
           /\ \E l \in Layers : l = LayerFinished(a, b).layer /\ Remnant(l, a, c, left)
<1>1. PICK m \in Nat : m = Len(a.list)
  BY LayerNumbers
<1>2. \A j \in 1 .. m : a.list[j] \in Tracked
  BY <1>1, LayerNumbers
<1>3. PICK list : list = [j \in 1 .. (m - c) |->
          IF j = 1 THEN [a.list[c + 1] EXCEPT !.encoded = @ - left] ELSE a.list[c + j]]
  OBVIOUS
<1>4. \A j \in 1 .. m - c :
          /\ list[j] \in Tracked
          /\ list[j].plain = a.list[c + j].plain
          /\ list[j].encoded = IF j = 1 THEN a.list[c + 1].encoded - left ELSE a.list[c + j].encoded
  <2> TAKE j \in 1 .. m - c
  <2>1. c < m /\ c + j \in 1 .. m /\ c + 1 \in 1 .. m
    BY <1>1
  <2>2. a.list[c + j] \in Tracked /\ a.list[c + 1] \in Tracked
    BY <2>1, <1>2
  <2>3. CASE j = 1
    <3>1. PICK e : e = a.list[c + 1]
      OBVIOUS
    <3>2. e \in Tracked /\ left <= e.encoded /\ list[j] = [e EXCEPT !.encoded = @ - left]
      BY <3>1, <2>1, <2>2, <2>3, <1>1, <1>3
    <3>3. e.encoded - left \in Nat
      BY <3>2 DEF Tracked
    <3>4. list[j] \in Tracked /\ list[j].plain = e.plain /\ list[j].encoded = e.encoded - left
      BY <3>2, <3>3 DEF Tracked
    <3> QED BY <3>1, <3>4, <2>3
  <2>4. CASE j # 1
    BY <2>2, <2>4, <1>3
  <2> QED BY <2>3, <2>4
<1>5. list \in Seq(Tracked) /\ Len(list) = m - c
  <2>1. m - c \in Nat
    BY <1>1
  <2>2. list \in [1 .. m - c -> Tracked]
    BY <1>3, <1>4
  <2>3. list \in Seq(Tracked)
    BY <2>1, <2>2, SeqDef, SMTT(40)
  <2>4. DOMAIN list = 1 .. m - c
    BY <2>2
  <2>5. Len(list) \in Nat /\ DOMAIN list = 1 .. Len(list)
    BY <2>3, LenProperties
  <2> QED BY <2>1, <2>3, <2>4, <2>5
<1>6. Lesser(a.prebytes, b) = 0 /\ b - 0 = b
  BY DEF Lesser
<1>7. PICK past : past = [a EXCEPT !.prebytes = @ - 0]
  OBVIOUS
<1>8. past \in Layers /\ past = a
  BY <1>7 DEF Layers
<1>9. TrackerFinished(a, b) = [layer |-> [a EXCEPT !.list = list],
                               plain |-> Sums(a.list, "plain")[c]]
  <2>1. c = Completed(a.list, b)
    BY DEF Completed
  <2>2. left = b - Sums(a.list, "encoded")[c]
    OBVIOUS
  <2>3. list = [j \in 1..(Len(a.list) - c) |->
              IF j = 1 THEN [a.list[c + 1] EXCEPT !.encoded = @ - left] ELSE a.list[c + j]]
    BY <1>1, <1>3
  <2> QED BY <2>1, <2>2, <2>3 DEF TrackerFinished
<1>10. LayerFinished(a, b) = [layer |-> [a EXCEPT !.list = list],
                              plain |-> 0 + Sums(a.list, "plain")[c]]
  BY <1>6, <1>7, <1>8, <1>9 DEF LayerFinished, Own
<1>11. Sums(a.list, "plain")[c] \in Nat
  BY LayerNumbers, SumsStep
<1>12. PICK l : l = [a EXCEPT !.list = list]
  OBVIOUS
<1>13. /\ l \in Layers /\ l.list = list /\ l.type = a.type /\ l.done = a.done
       /\ l.prebytes = 0 /\ l.p = a.p
  BY <1>12, <1>5 DEF Layers
<1>14. Remnant(l, a, c, left)
  BY <1>1, <1>4, <1>5, <1>13 DEF Remnant
<1> QED BY <1>10, <1>11, <1>12, <1>13, <1>14

\* A layer that was put in place over bytes passes these on, and has no other.
LEMMA BegunFinished ==
    ASSUME NEW a \in Layers, a.p = 0, a.list = <<>>, NEW b \in Nat, b <= a.prebytes
    PROVE  /\ LayerFinished(a, b).plain = b
           /\ \E l \in Layers :
                 /\ l = LayerFinished(a, b).layer
                 /\ l.type = a.type /\ l.done = a.done /\ l.prebytes = a.prebytes - b
                 /\ l.p = 0 /\ l.list = <<>>
<1>1. a.prebytes \in Nat
  BY DEF Layers
<1>2. Lesser(a.prebytes, b) = b /\ b - b = 0
  BY <1>1 DEF Lesser
<1>3. PICK past : past = [a EXCEPT !.prebytes = @ - b]
  OBVIOUS
<1>4. /\ past \in Layers /\ past.type = a.type /\ past.done = a.done
      /\ past.prebytes = a.prebytes - b /\ past.p = 0 /\ past.list = <<>>
  <2>1. a.prebytes - b \in Nat
    BY <1>1
  <2> QED BY <2>1, <1>3 DEF Layers
<1>5. CASE ~Own(a)
  <2>1. LayerFinished(a, b) = [layer |-> past, plain |-> b]
    BY <1>2, <1>3, <1>5 DEF LayerFinished, Own
  <2> QED BY <2>1, <1>4
<1>6. CASE Own(a)
  <2>1. Len(past.list) = 0 /\ Numbers(past.list, "encoded") /\ Numbers(past.list, "plain")
    BY <1>4, LayerNumbers
  <2>2. Sums(past.list, "encoded")[0] = 0 /\ Sums(past.list, "plain")[0] = 0
    BY <2>1, SumsStep
  <2>3. Completed(past.list, 0) = 0
    <3>1. Covered(past.list, "encoded", 0) \in 0 .. Len(past.list)
      BY <2>1, CoveredFound
    <3> QED BY <3>1, <2>1 DEF Completed
  <2>4. PICK own : own = TrackerFinished(past, 0)
    OBVIOUS
  <2>5. own.plain = 0 /\ own.layer = [past EXCEPT !.list = <<>>]
    <3>1. PICK list : list = [j \in 1 .. (Len(past.list) - 0) |->
              IF j = 1 THEN [past.list[0 + 1] EXCEPT !.encoded = @ - (0 - 0)]
              ELSE past.list[0 + j]]
      OBVIOUS
    <3>2. list = <<>>
      BY <3>1, <2>1
    <3>4. 0 - Sums(past.list, "encoded")[0] = 0 - 0
      BY <2>2
    <3>5. own = [layer |-> [past EXCEPT !.list = list], plain |-> 0]
      BY <3>1, <3>4, <2>2, <2>3, <2>4 DEF TrackerFinished
    <3> QED BY <3>2, <3>5
  <2>6. own.layer = past
    BY <2>5, <1>4 DEF Layers
  <2>7. LayerFinished(a, b) = [layer |-> own.layer, plain |-> b + own.plain]
    BY <1>2, <1>3, <1>6, <2>4 DEF LayerFinished, Own
  <2> QED BY <2>5, <2>6, <2>7, <1>4
<1> QED BY <1>5, <1>6

\* A layer that shakes hands reports nothing.
LEMMA ShakingFinished ==
    ASSUME NEW a \in Layers, ~Own(a), a.prebytes = 0, NEW b \in Nat
    PROVE  LayerFinished(a, b).plain = 0 /\ LayerFinished(a, b).layer = a
<1>1. Lesser(a.prebytes, b) = 0
  BY DEF Lesser
<1>2. [a EXCEPT !.prebytes = @ - 0] = a
  BY DEF Layers
<1>3. LayerFinished(a, b) = [layer |-> a, plain |-> 0]
  BY <1>1, <1>2 DEF LayerFinished, Own
<1> QED BY <1>3

-----------------------------------------------------------------------------
(***************************************************************************)
(* The socket writes                                                       *)
(***************************************************************************)
\* Keeps(s, n, r): the socket's write changes neither which layers there are nor
\* what the client is to read.
Keeps(s, n, r) ==
    /\ r = SocketWrote(s, n)
    /\ LayerTypes(r) = LayerTypes(s) /\ r.topInProgress = s.topInProgress
    /\ Drained(s.out, n).items \o Carried(r.out) = Carried(s.out)

\* The parts of a stream.
LEMMA StreamParts ==
    ASSUME NEW s \in Streams
    PROVE  /\ s.layers \in Seq(Layers) /\ Len(s.layers) \in Nat /\ DOMAIN s.layers = 1 .. Len(s.layers)
           /\ \A j \in 1 .. Len(s.layers) : s.layers[j] \in Layers
           /\ s.out \in Seq(Entries) /\ Len(s.out) \in Nat /\ DOMAIN s.out = 1 .. Len(s.out)
           /\ \A j \in 1 .. Len(s.out) : s.out[j] \in Entries
           /\ Numbers(s.out, "bytes") /\ Numbers(s.out, "plain")
           /\ Total(s.out, "bytes") \in Nat /\ Total(s.out, "plain") \in Nat
           /\ s.pending \in Nat /\ s.reported \in Nat /\ s.sent \in Nat /\ s.topInProgress \in BOOLEAN
<1>1. /\ s.layers \in Seq(Layers) /\ s.out \in Seq(Entries)
      /\ s.pending \in Nat /\ s.reported \in Nat /\ s.sent \in Nat /\ s.topInProgress \in BOOLEAN
  BY DEF Streams
<1>2. /\ Len(s.layers) \in Nat /\ DOMAIN s.layers = 1 .. Len(s.layers)
      /\ Len(s.out) \in Nat /\ DOMAIN s.out = 1 .. Len(s.out)
  BY <1>1, LenProperties
<1>3. \A j \in 1 .. Len(s.layers) : s.layers[j] \in Layers
  BY <1>1, <1>2, ElementOfSeq
<1>4. \A j \in 1 .. Len(s.out) : s.out[j] \in Entries
  BY <1>1, <1>2, ElementOfSeq
<1>5. Numbers(s.out, "bytes") /\ Numbers(s.out, "plain")
  <2>1. \A j \in 1 .. Len(s.out) : s.out[j].bytes \in Nat /\ s.out[j].plain \in Nat
    BY <1>4 DEF Entries
  <2> QED BY <2>1, <1>2 DEF Numbers
<1>6. Total(s.out, "bytes") \in Nat /\ Total(s.out, "plain") \in Nat
  <2>1. Len(s.out) \in 0 .. Len(s.out)
    BY <1>2
  <2>2. /\ Sums(s.out, "bytes") \in [0 .. Len(s.out) -> Nat]
        /\ Sums(s.out, "plain") \in [0 .. Len(s.out) -> Nat]
    BY <1>5, SumsStep
  <2> QED BY <2>1, <2>2 DEF Total
<1> QED BY <1>1, <1>2, <1>3, <1>4, <1>5, <1>6, Zenon

\* Turned(ls, s, n, plain): when the report of n bytes has passed, the layers
\* have become ls, and it says plain.
Turned(ls, s, n, plain) ==
    /\ Len(ls) = Len(s.layers)
    /\ \A j \in 1 .. Len(ls) :
          /\ ls[j] = LayerFinished(s.layers[j], Passed(s.layers, n)[j - 1]).layer
          /\ ls[j].type = s.layers[j].type
    /\ Passed(s.layers, n)[Len(s.layers)] = plain

\* What the socket writes is reported, if the layers make of it what has gone
\* of the stream's bytes.
LEMMA WroteFacts ==
    ASSUME NEW s \in Streams, Accurate(s), NEW n \in Nat,
           NEW k \in 0 .. Len(s.out), NEW left \in Nat, NEW rest \in Seq(Entries), NEW plain \in Nat,
           Leaves(s.out, n, k, left, rest, plain),
           NEW ls \in Seq(Layers), Turned(ls, s, n, plain)
    PROVE  \E r \in Streams :
              /\ Keeps(s, n, r) /\ Accurate(r)
              /\ r.layers = ls /\ r.out = rest
<1>1. PICK m \in Nat : m = Len(s.layers)
  BY StreamParts
<1>0. /\ Len(ls) = Len(s.layers)
      /\ \A j \in 1 .. Len(ls) :
            /\ ls[j] = LayerFinished(s.layers[j], Passed(s.layers, n)[j - 1]).layer
            /\ ls[j].type = s.layers[j].type
      /\ Passed(s.layers, n)[Len(s.layers)] = plain
  BY DEF Turned
<1>2. DOMAIN s.layers = 1 .. m /\ DOMAIN ls = 1 .. m
  BY <1>0, <1>1, StreamParts, LenProperties
<1>3. PICK d : d = Drained(s.out, n)
  OBVIOUS
<1>4. d.out = rest /\ d.plain = plain
  BY <1>3 DEF Leaves
<1>5. PICK w : w = [s EXCEPT !.out = d.out, !.sent = @ + d.plain]
  OBVIOUS
<1>6. /\ w \in Streams /\ w.out = rest /\ w.sent = s.sent + plain /\ w.layers = s.layers
      /\ w.pending = s.pending /\ w.reported = s.reported /\ w.topInProgress = s.topInProgress
  <2>1. s.sent + plain \in Nat
    BY StreamParts
  <2> QED BY <2>1, <1>4, <1>5 DEF Streams
<1>7. ls = [j \in DOMAIN w.layers |-> LayerFinished(w.layers[j], Passed(w.layers, n)[j - 1]).layer]
  <2>1. ls = [j \in 1 .. m |-> ls[j]]
    BY <1>2, LenProperties
  <2>2. \A j \in 1 .. m : ls[j] = LayerFinished(s.layers[j], Passed(s.layers, n)[j - 1]).layer
    BY <1>0, <1>1
  <2>3. ls = [j \in 1 .. m |-> LayerFinished(s.layers[j], Passed(s.layers, n)[j - 1]).layer]
    BY <2>1, <2>2, Zenon
  <2> QED BY <2>3, <1>2, <1>6, Zenon
<1>8. PICK r : r = [w EXCEPT !.layers = ls, !.pending = @ - plain, !.reported = @ + plain]
  OBVIOUS
<1>9. r = SocketWrote(s, n)
  <2>1. SocketWrote(s, n) = Report(w, n)
    BY <1>3, <1>5 DEF SocketWrote
  <2>2. Passed(w.layers, n)[Len(w.layers)] = plain
    BY <1>0, <1>6
  <2>3. Report(w, n) = [w EXCEPT !.layers = ls, !.pending = @ - plain, !.reported = @ + plain]
    BY <2>2, <1>7, Zenon DEF Report
  <2> QED BY <2>1, <2>3, <1>8, Zenon
<1>10. s.reported = s.sent /\ s.pending = Total(s.out, "plain")
  BY DEF Accurate
<1>11. s.pending - plain \in Nat /\ s.reported + plain \in Nat
       /\ s.pending - plain = Total(rest, "plain")
  <2>1. PICK t \in Nat : t = Total(s.out, "plain") /\ plain <= t /\ Total(rest, "plain") = t - plain
    BY Zenon DEF Leaves
  <2>2. s.pending = t /\ s.reported = s.sent /\ s.sent \in Nat
    BY <2>1, <1>10, StreamParts
  <2> QED BY <2>1, <2>2
<1>12. /\ r \in Streams /\ r.layers = ls /\ r.out = rest /\ r.topInProgress = s.topInProgress
       /\ r.pending = s.pending - plain /\ r.reported = s.reported + plain
       /\ r.sent = s.sent + plain
  BY <1>6, <1>8, <1>11 DEF Streams
<1>13. Accurate(r)
  BY <1>10, <1>11, <1>12 DEF Accurate
<1>14. LayerTypes(r) = LayerTypes(s)
  <2>1. \A j \in 1 .. m : ls[j].type = s.layers[j].type
    BY <1>0, <1>1
  <2>2. [j \in 1 .. m |-> ls[j].type] = [j \in 1 .. m |-> s.layers[j].type]
    BY <2>1
  <2> QED BY <2>2, <1>2, <1>12 DEF LayerTypes
<1>15. Drained(s.out, n).items \o Carried(rest) = Carried(s.out)
  <2>1. /\ Drained(s.out, n).items = [j \in 1 .. k |-> s.out[j].item]
        /\ Len(rest) = Len(s.out) - k
        /\ \A j \in 1 .. Len(s.out) - k : rest[j].item = s.out[k + j].item
    BY DEF Leaves
  <2>2. PICK out \in Seq(Entries) : out = s.out
    BY StreamParts
  <2>3. k \in 0 .. Len(out) /\ Len(rest) = Len(out) - k
        /\ \A j \in 1 .. Len(out) - k : rest[j].item = out[k + j].item
    BY <2>1, <2>2
  <2>4. [j \in 1 .. k |-> out[j].item] \o Carried(rest) = Carried(out)
    BY <2>3, DrainedItems
  <2> QED BY <2>1, <2>2, <2>4
<1> QED BY <1>9, <1>12, <1>13, <1>14, <1>15 DEF Keeps

\* Under no layer the bytes that go are the stream's.
LEMMA BareWrote ==
    ASSUME NEW s \in Streams, Accurate(s), Bare(s), NEW n \in 1 .. Total(s.out, "bytes")
    PROVE  \E r \in Streams : Keeps(s, n, r) /\ Accurate(r) /\ Bare(r)
<1>1. n \in Nat /\ n <= Total(s.out, "bytes")
  BY StreamParts
<1>2. PICK m \in Nat : m = Len(s.out) /\ DOMAIN s.out = 1 .. m /\ s.out \in Seq(Entries)
  BY StreamParts
<1>3. \A j \in 1 .. m : s.out[j].plain = s.out[j].bytes /\ ~s.out[j].layered
  BY <1>2 DEF Bare
<1>4. PICK k \in 0 .. m, left \in Nat, rest \in Seq(Entries), plain \in Nat :
          Leaves(s.out, n, k, left, rest, plain)
  BY <1>1, <1>2, <1>3, DrainedFacts
<1>5. Sums(s.out, "plain") = Sums(s.out, "bytes") /\ Sums(s.out, "bytes") \in [0 .. m -> Nat]
  <2>1. PICK out : out = s.out
    OBVIOUS
  <2>2. PICK f, g : f = "bytes" /\ g = "plain"
    OBVIOUS
  <2>3. Numbers(out, f) /\ Len(out) = m
    BY <2>1, <2>2, <1>2, StreamParts
  <2>4. \A j \in 1 .. Len(out) : out[j][g] = out[j][f]
    BY <2>1, <2>2, <1>2, <1>3
  <2>5. Sums(out, g) = Sums(out, f)
    BY <2>3, <2>4, SumsSame
  <2>6. Sums(out, f) \in [0 .. m -> Nat]
    BY <2>3, SumsStep
  <2> QED BY <2>1, <2>2, <2>5, <2>6
<1>6. plain = n
  <2>1. plain = Sums(s.out, "bytes")[k] + left /\ left = n - Sums(s.out, "bytes")[k]
    <3>1. k < m => ~s.out[k + 1].layered
      BY <1>3
    <3>2. plain = Sums(s.out, "plain")[k] + (IF k = m \/ s.out[k + 1].layered THEN 0 ELSE left)
          /\ (k = m => left = 0) /\ left = n - Sums(s.out, "bytes")[k]
      BY <1>2, <1>4 DEF Leaves
    <3> QED BY <3>1, <3>2, <1>2, <1>5
  <2>2. Sums(s.out, "bytes")[k] \in Nat
    BY <1>5
  <2> QED BY <2>1, <2>2, <1>1
<1>7. s.layers = <<>> /\ Len(s.layers) = 0
  BY DEF Bare
<1>8. Passed(s.layers, n)[0] = n
  BY <1>7, PassedSteps
<1>9. PICK r \in Streams : Keeps(s, n, r) /\ Accurate(r) /\ r.layers = <<>> /\ r.out = rest
  <2>1. <<>> \in Seq(Layers) /\ Len(<<>>) = 0
    OBVIOUS
  <2>3. PICK ls \in Seq(Layers) : ls = <<>>
    BY <2>1
  <2>4. Len(ls) = Len(s.layers) /\ Len(s.layers) = 0
    BY <2>1, <2>3, <1>7
  <2>5. Passed(s.layers, n)[Len(s.layers)] = plain /\ k \in 0 .. Len(s.out)
    BY <1>2, <1>6, <1>7, <1>8
  <2>6. Turned(ls, s, n, plain)
    BY <2>4, <2>5 DEF Turned
  <2>7. \E r \in Streams : Keeps(s, n, r) /\ Accurate(r) /\ r.layers = ls /\ r.out = rest
    BY <2>5, <2>6, <1>1, <1>4, WroteFacts
  <2> QED BY <2>3, <2>7
<1>10. \A j \in DOMAIN rest : rest[j].plain = rest[j].bytes /\ ~rest[j].layered
  <2>1. Len(rest) = m - k /\ DOMAIN rest = 1 .. Len(rest)
    BY <1>2, <1>4, LenProperties DEF Leaves
  <2> TAKE j \in DOMAIN rest
  <2>2. j \in 1 .. m - k /\ k + j \in 1 .. m /\ k + 1 \in 1 .. m
    BY <2>1, <1>2
  <2>3. /\ rest[j].bytes = IF j = 1 THEN s.out[k + 1].bytes - left ELSE s.out[k + j].bytes
        /\ rest[j].plain = IF j = 1 /\ ~s.out[k + 1].layered
                           THEN s.out[k + 1].plain - left ELSE s.out[k + j].plain
        /\ rest[j].layered = s.out[k + j].layered
    BY <2>2, <1>2, <1>4 DEF Leaves
  <2> QED BY <2>2, <2>3, <1>3
<1> QED BY <1>9, <1>10 DEF Bare

\* A layer whose items are the entries of the buffer follows them.
LEMMA FollowsFinished ==
    ASSUME NEW out \in Seq(Entries), NEW n \in Nat,
           NEW k \in 0 .. Len(out), NEW left \in Nat, NEW rest \in Seq(Entries), NEW plain \in Nat,
           Leaves(out, n, k, left, rest, plain),
           NEW a \in Layers, Follows(a, out)
    PROVE  \E l \in Layers :
              /\ l = LayerFinished(a, n).layer
              /\ LayerFinished(a, n).plain = Sums(a.list, "plain")[k]
              /\ plain = Sums(out, "plain")[k]
              /\ l.type = a.type /\ l.done = a.done /\ Follows(l, rest)
              /\ \A j \in 1 .. Len(rest) :
                    /\ l.list[j].plain = a.list[k + j].plain
                    /\ rest[j].plain = out[k + j].plain
<1>1. PICK m \in Nat : m = Len(out) /\ DOMAIN out = 1 .. m
  BY LenProperties
<1>2. /\ Own(a) /\ a.prebytes = 0 /\ a.p = 0 /\ Len(a.list) = m
      /\ \A j \in 1 .. m : a.list[j].encoded = out[j].bytes /\ out[j].layered
  BY <1>1 DEF Follows
<1>3. \A j \in 1 .. m : out[j] \in Entries
  BY <1>1, ElementOfSeq
<1>4. Numbers(out, "bytes") /\ Numbers(out, "plain")
  <2>1. \A j \in 1 .. m : out[j].bytes \in Nat /\ out[j].plain \in Nat
    BY <1>3 DEF Entries
  <2> QED BY <2>1, <1>1 DEF Numbers
<1>5. PICK list : list = a.list
  OBVIOUS
<1>6. Sums(list, "encoded") = Sums(out, "bytes")
  <2>1. PICK f, g : f = "bytes" /\ g = "encoded"
    OBVIOUS
  <2>2. Numbers(out, f) /\ Len(list) = Len(out)
    BY <2>1, <1>1, <1>2, <1>4, <1>5
  <2>3. \A j \in 1 .. Len(out) : list[j][g] = out[j][f]
    BY <2>1, <1>1, <1>2, <1>5
  <2>4. Sums(list, g) = Sums(out, f)
    BY <2>2, <2>3, SumsSame
  <2> QED BY <2>1, <2>4
<1>7. Sums(out, "bytes")[k] <= n /\ (k = m \/ Sums(out, "bytes")[k + 1] > n)
  BY <1>1, <1>4, CoveredFound DEF Leaves
<1>8. k = Covered(list, "encoded", n)
  <2>1. Numbers(list, "encoded") /\ Len(list) = m
    BY <1>2, <1>5, LayerNumbers
  <2>2. k \in 0 .. Len(list)
    BY <2>1, <1>1
  <2>3. Sums(list, "encoded")[k] <= n /\ (k = Len(list) \/ Sums(list, "encoded")[k + 1] > n)
    BY <2>1, <1>6, <1>7
  <2> QED BY <2>1, <2>2, <2>3, CoveredFound
<1>9. left = n - Sums(list, "encoded")[k] /\ (k < m => left < out[k + 1].bytes)
  BY <1>1, <1>6 DEF Leaves
<1>10. /\ LayerFinished(a, n).plain = Sums(list, "plain")[k]
       /\ \E l \in Layers : l = LayerFinished(a, n).layer /\ Remnant(l, a, k, left)
  <2>1. k < Len(a.list) => left <= a.list[k + 1].encoded
    <3> SUFFICES ASSUME k < m PROVE left <= a.list[k + 1].encoded
      BY <1>2
    <3>1. k + 1 \in 1 .. m
      BY <1>1
    <3>2. a.list[k + 1].encoded = out[k + 1].bytes /\ out[k + 1].bytes \in Nat
      BY <3>1, <1>2, <1>3 DEF Entries
    <3> QED BY <3>2, <1>9
  <2>2. k \in 0 .. Len(a.list)
    BY <1>1, <1>2
  <2>3. k = Covered(a.list, "encoded", n) /\ left = n - Sums(a.list, "encoded")[k]
    BY <1>5, <1>8, <1>9
  <2> QED BY <2>1, <2>2, <2>3, <1>2, <1>5, OwnFinished
<1>11. PICK l \in Layers : l = LayerFinished(a, n).layer /\ Remnant(l, a, k, left)
  BY <1>10
<1>12. /\ l.type = a.type /\ l.done = a.done /\ l.prebytes = 0 /\ l.p = 0
       /\ Len(l.list) = m - k
       /\ \A j \in 1 .. m - k :
             /\ l.list[j].plain = a.list[k + j].plain
             /\ l.list[j].encoded = IF j = 1 THEN a.list[k + 1].encoded - left
                                    ELSE a.list[k + j].encoded
  BY <1>2, <1>11 DEF Remnant
<1>13. /\ Len(rest) = m - k /\ DOMAIN rest = 1 .. m - k
       /\ \A j \in 1 .. m - k :
             /\ rest[j].bytes = IF j = 1 THEN out[k + 1].bytes - left ELSE out[k + j].bytes
             /\ rest[j].plain = IF j = 1 /\ ~out[k + 1].layered
                                THEN out[k + 1].plain - left ELSE out[k + j].plain
             /\ rest[j].layered = out[k + j].layered
  <2>1. Len(rest) = m - k
    BY <1>1 DEF Leaves
  <2>2. DOMAIN rest = 1 .. m - k
    BY <2>1, LenProperties
  <2> QED BY <2>1, <2>2, <1>1 DEF Leaves
<1>14. \A j \in 1 .. m - k :
           l.list[j].encoded = rest[j].bytes /\ rest[j].layered /\ rest[j].plain = out[k + j].plain
  <2> TAKE j \in 1 .. m - k
  <2>1. k + j \in 1 .. m /\ k + 1 \in 1 .. m
    BY <1>1
  <2>2. out[k + j].layered /\ out[k + 1].layered
    BY <2>1, <1>2
  <2>3. rest[j].layered /\ rest[j].plain = out[k + j].plain
    BY <2>2, <1>13
  <2>4. a.list[k + j].encoded = out[k + j].bytes /\ a.list[k + 1].encoded = out[k + 1].bytes
    BY <2>1, <1>2
  <2>5. l.list[j].encoded = rest[j].bytes
    <3>1. l.list[j].encoded = IF j = 1 THEN a.list[k + 1].encoded - left
                              ELSE a.list[k + j].encoded
      BY <1>12
    <3>2. rest[j].bytes = IF j = 1 THEN out[k + 1].bytes - left ELSE out[k + j].bytes
      BY <1>13
    <3> QED BY <3>1, <3>2, <2>4
  <2> QED BY <2>3, <2>5
<1>15. Follows(l, rest)
  BY <1>2, <1>12, <1>13, <1>14 DEF Follows, Own
<1>16. plain = Sums(out, "plain")[k]
  <2>1. k < m => out[k + 1].layered
    BY <1>1, <1>2
  <2>2. Sums(out, "plain")[k] \in Nat
    BY <1>1, <1>4, SumsStep
  <2>3. plain = Sums(out, "plain")[k] + (IF k = m \/ out[k + 1].layered THEN 0 ELSE left)
    BY <1>1 DEF Leaves
  <2>4. (IF k = m \/ out[k + 1].layered THEN 0 ELSE left) = 0
    <3>1. k = m \/ k < m
      BY <1>1
    <3> QED BY <3>1, <2>1, Zenon
  <2>5. plain = Sums(out, "plain")[k] + 0
    BY <2>3, <2>4, Zenon
  <2> QED BY <2>2, <2>5
<1>17. \A j \in 1 .. Len(rest) :
          l.list[j].plain = a.list[k + j].plain /\ rest[j].plain = out[k + j].plain
  BY <1>12, <1>13, <1>14
<1> QED BY <1>5, <1>10, <1>11, <1>12, <1>15, <1>16, <1>17, Zenon

\* One layer: each of its items stands for what its entry does.
LEMMA SingleWrote ==
    ASSUME NEW s \in Streams, Accurate(s), Single(s), NEW n \in 1 .. Total(s.out, "bytes")
    PROVE  \E r \in Streams : Keeps(s, n, r) /\ Accurate(r) /\ Single(r)
<1>1. n \in Nat /\ n <= Total(s.out, "bytes")
  BY StreamParts
<1>2. PICK out \in Seq(Entries), m \in Nat : out = s.out /\ m = Len(out) /\ DOMAIN out = 1 .. m
  BY StreamParts
<1>3. PICK a \in Layers : a = s.layers[1] /\ Len(s.layers) = 1
  BY StreamParts DEF Single
<1>4. Follows(a, out) /\ \A j \in 1 .. m : a.list[j].plain = out[j].plain
  BY <1>2, <1>3 DEF Single
<1>5. \A j \in 1 .. m : out[j].layered
  BY <1>2, <1>4 DEF Follows
<1>6. PICK k \in 0 .. m, left \in Nat, rest \in Seq(Entries), plain \in Nat :
          Leaves(out, n, k, left, rest, plain)
  BY <1>1, <1>2, <1>5, DrainedFacts
<1>7. PICK l \in Layers :
          /\ l = LayerFinished(a, n).layer
          /\ LayerFinished(a, n).plain = Sums(a.list, "plain")[k]
          /\ plain = Sums(out, "plain")[k]
          /\ l.type = a.type /\ l.done = a.done /\ Follows(l, rest)
          /\ \A j \in 1 .. Len(rest) :
                /\ l.list[j].plain = a.list[k + j].plain
                /\ rest[j].plain = out[k + j].plain
  <2>1. k \in 0 .. Len(out)
    BY <1>2
  <2> QED BY <2>1, <1>1, <1>4, <1>6, FollowsFinished
<1>8. LayerFinished(a, n).plain = plain
  <2>1. LayerFinished(a, n).plain = Sums(a.list, "plain")[k] /\ plain = Sums(out, "plain")[k]
    BY <1>7
  <2>2. PICK f, list : f = "plain" /\ list = a.list
    OBVIOUS
  <2>3. Numbers(out, f) /\ Len(list) = Len(out)
    BY <2>2, <1>2, <1>4, StreamParts DEF Follows
  <2>4. \A j \in 1 .. Len(out) : list[j][f] = out[j][f]
    BY <2>2, <1>2, <1>4
  <2>5. Sums(list, f) = Sums(out, f)
    BY <2>3, <2>4, SumsSame
  <2> QED BY <2>1, <2>2, <2>5
<1>9. PICK ls \in Seq(Layers) : ls = <<l>> /\ Len(ls) = 1 /\ ls[1] = l
  <2>1. <<l>> \in Seq(Layers) /\ Len(<<l>>) = 1 /\ <<l>>[1] = l
    OBVIOUS
  <2> QED BY <2>1
<1>10. Turned(ls, s, n, plain)
  <2>1. Len(s.layers) \in 0 .. 2
    BY <1>3
  <2>2. /\ Passed(s.layers, n)[0] = n
        /\ Passed(s.layers, n)[1] = LayerFinished(s.layers[1], n).plain
    BY <1>3, PassedOne
  <2>3. ls[1] = LayerFinished(s.layers[1], Passed(s.layers, n)[0]).layer
        /\ ls[1].type = s.layers[1].type
    BY <2>2, <1>3, <1>7, <1>9
  <2>4. Passed(s.layers, n)[1] = plain
    BY <2>2, <1>3, <1>8
  <2>5. \A j \in 1 .. Len(ls) : j = 1 /\ j - 1 = 0
    BY <1>9
  <2> QED BY <2>3, <2>4, <2>5, <1>3, <1>9 DEF Turned
<1>11. PICK r \in Streams : Keeps(s, n, r) /\ Accurate(r) /\ r.layers = ls /\ r.out = rest
  <2>1. k \in 0 .. Len(s.out) /\ Leaves(s.out, n, k, left, rest, plain)
    BY <1>2, <1>6
  <2> QED BY <2>1, <1>1, <1>10, WroteFacts
<1>12. Single(r)
  <2>1. Len(rest) = m - k /\ DOMAIN rest = 1 .. Len(rest)
    BY <1>2, <1>6, LenProperties DEF Leaves
  <2>2. \A j \in DOMAIN rest : l.list[j].plain = rest[j].plain
    <3> TAKE j \in DOMAIN rest
    <3>1. j \in 1 .. Len(rest) /\ k + j \in 1 .. m
      BY <2>1, <1>2
    <3> QED BY <3>1, <1>4, <1>7
  <2> QED BY <2>2, <1>7, <1>9, <1>11 DEF Single
<1> QED BY <1>11, <1>12

\* Two layers: an item of the upper one is complete when that of the lower is.
LEMMA DoubleWrote ==
    ASSUME NEW s \in Streams, Accurate(s), Double(s), NEW n \in 1 .. Total(s.out, "bytes")
    PROVE  \E r \in Streams : Keeps(s, n, r) /\ Accurate(r) /\ Double(r)
<1>1. n \in Nat /\ n <= Total(s.out, "bytes")
  BY StreamParts
<1>2. PICK out \in Seq(Entries), m \in Nat : out = s.out /\ m = Len(out) /\ DOMAIN out = 1 .. m
  BY StreamParts
<1>3. PICK a \in Layers, b \in Layers : a = s.layers[1] /\ b = s.layers[2] /\ Len(s.layers) = 2
  BY StreamParts DEF Double
<1>4. /\ Follows(a, out) /\ Len(a.list) = m
      /\ b.type = "SASL" /\ b.prebytes = 0 /\ b.p = 0 /\ Len(b.list) = m
      /\ \A j \in 1 .. m :
            /\ b.list[j].plain = out[j].plain
            /\ b.list[j].encoded = a.list[j].plain /\ b.list[j].encoded > 0
  <2>1. b.type = "SASL"
    <3>1. LayerTypes(s)[2] = "SASL"
      BY DEF Double
    <3>2. LayerTypes(s)[2] = s.layers[2].type
      BY <1>3, StreamParts DEF LayerTypes
    <3> QED BY <3>1, <3>2, <1>3
  <2> QED BY <2>1, <1>2, <1>3 DEF Double, Follows
<1>5. \A j \in 1 .. m : out[j].layered
  BY <1>2, <1>4 DEF Follows
<1>6. PICK k \in 0 .. m, left \in Nat, rest \in Seq(Entries), plain \in Nat :
          Leaves(out, n, k, left, rest, plain)
  BY <1>1, <1>2, <1>5, DrainedFacts
<1>7. k \in 0 .. Len(out)
  BY <1>2
<1>8. PICK l \in Layers :
          /\ l = LayerFinished(a, n).layer
          /\ LayerFinished(a, n).plain = Sums(a.list, "plain")[k]
          /\ plain = Sums(out, "plain")[k]
          /\ l.type = a.type /\ l.done = a.done /\ Follows(l, rest)
          /\ \A j \in 1 .. Len(rest) :
                /\ l.list[j].plain = a.list[k + j].plain
                /\ rest[j].plain = out[k + j].plain
  BY <1>7, <1>1, <1>4, <1>6, FollowsFinished
<1>9. LayerFinished(a, n).plain = Sums(a.list, "plain")[k] /\ plain = Sums(out, "plain")[k]
  BY <1>8
<1>10. PICK f, g : f = "plain" /\ g = "encoded"
  OBVIOUS
<1>11. PICK la, lb : la = a.list /\ lb = b.list
  OBVIOUS
<1>12. /\ Numbers(la, f) /\ Numbers(lb, f) /\ Numbers(lb, g) /\ Numbers(out, f)
       /\ Len(la) = m /\ Len(lb) = m
  BY <1>2, <1>4, <1>10, <1>11, LayerNumbers, StreamParts
<1>13. Sums(lb, g) = Sums(la, f)
  <2>1. \A j \in 1 .. Len(la) : lb[j][g] = la[j][f]
    BY <1>4, <1>10, <1>11, <1>12
  <2>2. Numbers(la, f) /\ Len(lb) = Len(la)
    BY <1>12
  <2> QED BY <2>1, <2>2, SumsSame
<1>14. Sums(lb, f) = Sums(out, f)
  <2>1. \A j \in 1 .. Len(out) : lb[j][f] = out[j][f]
    BY <1>2, <1>4, <1>10, <1>11
  <2>2. Numbers(out, f) /\ Len(lb) = Len(out)
    BY <1>2, <1>12
  <2> QED BY <2>1, <2>2, SumsSame
<1>15. PICK got \in Nat : got = Sums(lb, g)[k]
  BY <1>12, SumsStep
<1>16. LayerFinished(a, n).plain = got
  BY <1>9, <1>10, <1>11, <1>13, <1>15
<1>17. k = Covered(lb, g, got)
  <2>1. k = m \/ Sums(lb, g)[k + 1] > got
    <3> SUFFICES ASSUME k # m PROVE Sums(lb, g)[k + 1] > got
      OBVIOUS
    <3>1. k \in 0 .. Len(lb) /\ k + 1 \in 0 .. Len(lb) /\ k <= k + 1 /\ k < k + 1
      BY <1>2, <1>12
    <3>2. \A j \in 1 .. Len(lb) : lb[j][g] > 0
      BY <1>4, <1>10, <1>11, <1>12
    <3>3. Sums(lb, g)[k] < Sums(lb, g)[k + 1]
      BY <3>1, <3>2, <1>12, SumsRise
    <3>4. Sums(lb, g)[k + 1] \in Nat
      BY <3>1, <1>12, SumsStep
    <3> QED BY <3>3, <3>4, <1>15
  <2>2. Sums(lb, g)[k] <= got
    BY <1>15
  <2> QED BY <2>1, <2>2, <1>12, CoveredFound
<1>18. /\ LayerFinished(b, got).plain = Sums(b.list, "plain")[k]
       /\ \E q \in Layers : q = LayerFinished(b, got).layer /\ Remnant(q, b, k, 0)
  <2>1. Own(b) /\ b.prebytes = 0
    BY <1>4 DEF Own
  <2>2. k \in 0 .. Len(b.list) /\ k = Covered(b.list, "encoded", got)
    BY <1>4, <1>10, <1>11, <1>17
  <2>3. 0 \in Nat /\ 0 = got - Sums(b.list, "encoded")[k]
    BY <1>10, <1>11, <1>15
  <2>4. k < Len(b.list) => 0 <= b.list[k + 1].encoded
    <3> SUFFICES ASSUME k < m PROVE 0 <= b.list[k + 1].encoded
      BY <1>4
    <3>1. k + 1 \in 1 .. m
      BY <1>2
    <3>2. b.list[k + 1] \in Tracked
      BY <3>1, <1>4, LayerNumbers
    <3> QED BY <3>2 DEF Tracked
  <2> QED BY <2>1, <2>2, <2>3, <2>4, OwnFinished
<1>19. PICK q \in Layers : q = LayerFinished(b, got).layer /\ Remnant(q, b, k, 0)
  BY <1>18
<1>20. LayerFinished(b, got).plain = plain
  BY <1>9, <1>10, <1>11, <1>14, <1>18
<1>21. /\ q.type = "SASL" /\ q.prebytes = 0 /\ q.p = 0 /\ Len(q.list) = m - k
       /\ \A j \in 1 .. m - k :
             /\ q.list[j].plain = b.list[k + j].plain
             /\ q.list[j].encoded = b.list[k + j].encoded
  <2>1. \A j \in 1 .. m - k : b.list[k + 1] \in Tracked
    <3> TAKE j \in 1 .. m - k
    <3>1. k + 1 \in 1 .. m
      BY <1>2
    <3> QED BY <3>1, <1>4, LayerNumbers
  <2>2. \A j \in 1 .. m - k : b.list[k + 1].encoded - 0 = b.list[k + 1].encoded
    BY <2>1 DEF Tracked
  <2> QED BY <2>2, <1>4, <1>19 DEF Remnant
<1>22. PICK ls \in Seq(Layers) : ls = <<l, q>> /\ Len(ls) = 2 /\ ls[1] = l /\ ls[2] = q
  <2>1. <<l, q>> \in Seq(Layers) /\ Len(<<l, q>>) = 2 /\ <<l, q>>[1] = l /\ <<l, q>>[2] = q
    OBVIOUS
  <2> QED BY <2>1
<1>23. Turned(ls, s, n, plain)
  <2>1. Len(s.layers) \in 0 .. 2 /\ 1 \in 1 .. Len(s.layers) /\ 2 \in 1 .. Len(s.layers)
    BY <1>3
  <2>2. /\ Passed(s.layers, n)[0] = n
        /\ Passed(s.layers, n)[1] = LayerFinished(s.layers[1], n).plain
        /\ Passed(s.layers, n)[2] = LayerFinished(s.layers[2], Passed(s.layers, n)[1]).plain
    BY <1>3, PassedTwo
  <2>3. Passed(s.layers, n)[1] = got /\ Passed(s.layers, n)[2] = plain
    BY <2>2, <1>3, <1>16, <1>20
  <2>4. ls[1] = LayerFinished(s.layers[1], Passed(s.layers, n)[0]).layer
        /\ ls[1].type = s.layers[1].type
    BY <2>2, <1>3, <1>8, <1>22
  <2>5. ls[2] = LayerFinished(s.layers[2], Passed(s.layers, n)[1]).layer
        /\ ls[2].type = s.layers[2].type
    BY <2>3, <1>3, <1>4, <1>19, <1>21, <1>22
  <2>6. \A j \in 1 .. Len(ls) : (j = 1 /\ j - 1 = 0) \/ (j = 2 /\ j - 1 = 1)
    BY <1>22
  <2> QED BY <2>3, <2>4, <2>5, <2>6, <1>3, <1>22 DEF Turned
<1>24. PICK r \in Streams : Keeps(s, n, r) /\ Accurate(r) /\ r.layers = ls /\ r.out = rest
  <2>1. k \in 0 .. Len(s.out) /\ Leaves(s.out, n, k, left, rest, plain)
    BY <1>2, <1>6
  <2> QED BY <2>1, <1>1, <1>23, WroteFacts
<1>25. Double(r)
  <2>1. Len(rest) = m - k /\ DOMAIN rest = 1 .. m - k
    BY <1>2, <1>6, LenProperties DEF Leaves
  <2>2. \A j \in 1 .. m - k :
            q.list[j].plain = rest[j].plain /\ q.list[j].encoded = l.list[j].plain
            /\ q.list[j].encoded > 0
    <3> TAKE j \in 1 .. m - k
    <3>1. k + j \in 1 .. m
      BY <1>2
    <3>2. b.list[k + j].plain = out[k + j].plain /\ b.list[k + j].encoded = a.list[k + j].plain
          /\ b.list[k + j].encoded > 0
      BY <3>1, <1>4
    <3>3. q.list[j].plain = b.list[k + j].plain /\ q.list[j].encoded = b.list[k + j].encoded
      BY <1>21
    <3>4. l.list[j].plain = a.list[k + j].plain /\ rest[j].plain = out[k + j].plain
      BY <2>1, <1>8
    <3> QED BY <3>2, <3>3, <3>4
  <2>3. LayerTypes(r) = <<"TLS", "SASL">>
    BY <1>24 DEF Keeps, Double
  <2>4. r.layers[1] = l /\ r.layers[2] = q /\ Len(r.layers) = 2
    BY <1>22, <1>24
  <2> QED BY <2>1, <2>2, <2>3, <2>4, <1>8, <1>21, <1>24 DEF Double
<1> QED BY <1>24, <1>25

\* While TLS shakes hands nothing is reported.
LEMMA ShakingWrote ==
    ASSUME NEW s \in Streams, Accurate(s), Shaking(s), NEW n \in 1 .. Total(s.out, "bytes")
    PROVE  \E r \in Streams : Keeps(s, n, r) /\ Accurate(r) /\ Shaking(r)
<1>1. n \in Nat /\ n <= Total(s.out, "bytes")
  BY StreamParts
<1>2. PICK out \in Seq(Entries), m \in Nat : out = s.out /\ m = Len(out) /\ DOMAIN out = 1 .. m
  BY StreamParts
<1>3. PICK a \in Layers : a = s.layers[1] /\ Len(s.layers) = 1
  BY StreamParts DEF Shaking
<1>4. ~Own(a) /\ a.type = "TLS" /\ ~a.done /\ a.prebytes = 0 /\ a.p = 0 /\ a.list = <<>>
  <2>1. LayerTypes(s)[1] = "TLS"
    BY DEF Shaking
  <2>2. LayerTypes(s)[1] = s.layers[1].type
    BY <1>3, StreamParts DEF LayerTypes
  <2> QED BY <2>1, <2>2, <1>3 DEF Shaking, Own
<1>5. \A j \in 1 .. m : out[j].layered
  BY <1>2 DEF Shaking
<1>6. PICK k \in 0 .. m, left \in Nat, rest \in Seq(Entries), plain \in Nat :
          Leaves(out, n, k, left, rest, plain)
  BY <1>1, <1>2, <1>5, DrainedFacts
<1>7. plain = 0
  BY <1>2, <1>6 DEF Leaves, Shaking, Accurate
<1>8. LayerFinished(a, n).plain = 0 /\ LayerFinished(a, n).layer = a
  BY <1>1, <1>4, ShakingFinished
<1>9. PICK ls \in Seq(Layers) : ls = s.layers
  BY StreamParts
<1>10. Turned(ls, s, n, plain)
  <2>1. Len(s.layers) \in 0 .. 2 /\ 1 \in 1 .. Len(s.layers) /\ Len(ls) = 1
    BY <1>3, <1>9
  <2>2. /\ Passed(s.layers, n)[0] = n
        /\ Passed(s.layers, n)[1] = LayerFinished(s.layers[1], n).plain
    BY <1>3, PassedOne
  <2>3. \A j \in 1 .. Len(ls) : j = 1 /\ j - 1 = 0
    BY <2>1
  <2> QED BY <2>2, <2>3, <1>3, <1>7, <1>8, <1>9 DEF Turned
<1>11. PICK r \in Streams : Keeps(s, n, r) /\ Accurate(r) /\ r.layers = ls /\ r.out = rest
  <2>1. k \in 0 .. Len(s.out) /\ Leaves(s.out, n, k, left, rest, plain)
    BY <1>2, <1>6
  <2> QED BY <2>1, <1>1, <1>10, WroteFacts
<1>12. Shaking(r)
  <2>1. Len(rest) = m - k /\ DOMAIN rest = 1 .. m - k
    BY <1>2, <1>6, LenProperties DEF Leaves
  <2>2. \A j \in DOMAIN rest : rest[j].layered
    <3> TAKE j \in DOMAIN rest
    <3>1. j \in 1 .. m - k /\ k + j \in 1 .. m
      BY <2>1, <1>2
    <3>2. rest[j].layered = out[k + j].layered
      BY <3>1, <1>2, <1>6 DEF Leaves
    <3> QED BY <3>1, <3>2, <1>5
  <2>3. r.pending = 0
    <3>1. Total(rest, "plain") = 0
      BY <1>2, <1>6, <1>7 DEF Leaves, Accurate, Shaking
    <3> QED BY <3>1, <1>11 DEF Accurate
  <2>4. LayerTypes(r) = <<"TLS">> /\ r.topInProgress
    BY <1>11 DEF Keeps, Shaking
  <2> QED BY <2>2, <2>3, <2>4, <1>3, <1>4, <1>9, <1>11 DEF Shaking
<1> QED BY <1>11, <1>12

\* The sums of one item.
LEMMA SumsOfOne ==
    ASSUME NEW items, NEW field, Numbers(items, field), Len(items) = 1
    PROVE  /\ Sums(items, field)[0] = 0 /\ Sums(items, field)[1] = items[1][field]
           /\ Total(items, field) = items[1][field] /\ items[1][field] \in Nat
<1>1. /\ Sums(items, field)[0] = 0
      /\ Sums(items, field)[1] = Sums(items, field)[1 - 1] + items[1][field]
  BY SumsStep
<1>2. items[1][field] \in Nat
  BY DEF Numbers
<1> QED BY <1>1, <1>2 DEF Total

\* When one entry is in the buffer, all of it goes or a part of it.
LEMMA OneLeaves ==
    ASSUME NEW out \in Seq(Entries), Len(out) = 1, NEW n \in Nat, n > 0,
           NEW k \in 0 .. 1, NEW left \in Nat, NEW rest \in Seq(Entries), NEW plain \in Nat,
           Leaves(out, n, k, left, rest, plain)
    PROVE  \/ /\ k = 0 /\ left = n /\ n < out[1].bytes /\ Len(rest) = 1
              /\ rest[1].bytes = out[1].bytes - n /\ rest[1].layered = out[1].layered
              /\ rest[1].plain = IF out[1].layered THEN out[1].plain ELSE out[1].plain - n
              /\ plain = IF out[1].layered THEN 0 ELSE n
           \/ k = 1 /\ left = 0 /\ n = out[1].bytes /\ rest = <<>> /\ plain = out[1].plain
<1>1. Numbers(out, "bytes") /\ Numbers(out, "plain") /\ out[1].bytes \in Nat /\ out[1].plain \in Nat
  <2>1. out[1] \in Entries
    BY ElementOfSeq
  <2>2. \A j \in 1 .. Len(out) : out[j].bytes \in Nat /\ out[j].plain \in Nat
    BY <2>1 DEF Entries
  <2> QED BY <2>2 DEF Numbers
<1>2. /\ Sums(out, "bytes")[0] = 0 /\ Sums(out, "bytes")[1] = out[1].bytes
      /\ Sums(out, "plain")[0] = 0 /\ Sums(out, "plain")[1] = out[1].plain
  BY <1>1, SumsOfOne
<1>3. CASE k = 0
  <2>1. left = n /\ n < out[1].bytes /\ Len(rest) = 1
    <3>1. left = n - Sums(out, "bytes")[k] /\ (k < Len(out) => left < out[k + 1].bytes)
          /\ Len(rest) = Len(out) - k
      BY DEF Leaves
    <3> QED BY <3>1, <1>2, <1>3
  <2>2. /\ rest[1].bytes = IF 1 = 1 THEN out[k + 1].bytes - left ELSE out[k + 1].bytes
        /\ rest[1].plain = IF 1 = 1 /\ ~out[k + 1].layered
                           THEN out[k + 1].plain - left ELSE out[k + 1].plain
        /\ rest[1].layered = out[k + 1].layered
    <3>1. 1 \in 1 .. Len(out) - k
      BY <1>3
    <3> QED BY <3>1 DEF Leaves
  <2>3. plain = 0 + (IF out[1].layered THEN 0 ELSE left)
    BY <1>2, <1>3 DEF Leaves
  <2> QED BY <2>1, <2>2, <2>3, <1>3
<1>4. CASE k = 1
  <2>1. left = 0 /\ 0 = n - out[1].bytes /\ Len(rest) = 0
    <3>1. (k = Len(out) => left = 0) /\ left = n - Sums(out, "bytes")[k] /\ Len(rest) = Len(out) - k
      BY DEF Leaves
    <3> QED BY <3>1, <1>2, <1>4
  <2>2. rest = <<>>
    BY <2>1, EmptySeq
  <2>3. plain = out[1].plain + 0
    BY <1>2, <1>4 DEF Leaves
  <2> QED BY <2>1, <2>2, <2>3, <1>1, <1>4
<1> QED BY <1>3, <1>4

\* The bytes from before the only layer are passed on; when they have gone, TLS
\* is alone with its handshake, and a SASL layer with what is written under it.
LEMMA BegunOnSocketWrote ==
    ASSUME NEW s \in Streams, Accurate(s), BegunOnSocket(s), NEW n \in 1 .. Total(s.out, "bytes")
    PROVE  \E r \in Streams :
              /\ Keeps(s, n, r) /\ Accurate(r)
              /\ BegunOnSocket(r) \/ Shaking(r) \/ (~r.topInProgress /\ Single(r))
<1>1. n \in Nat /\ n > 0 /\ n <= Total(s.out, "bytes")
  BY StreamParts
<1>2. PICK out \in Seq(Entries) : out = s.out /\ Len(out) = 1 /\ out[1] \in Entries
  BY StreamParts DEF BegunOnSocket
<1>3. PICK a \in Layers : a = s.layers[1] /\ Len(s.layers) = 1 /\ DOMAIN s.layers = 1 .. 1
  BY StreamParts DEF BegunOnSocket
<1>4. /\ ~a.done /\ s.topInProgress = (a.type = "TLS") /\ a.p = 0 /\ a.list = <<>>
      /\ ~out[1].layered /\ out[1].plain = out[1].bytes /\ a.prebytes = out[1].bytes
  BY <1>2, <1>3 DEF BegunOnSocket
<1>5. PICK k \in 0 .. 1, left \in Nat, rest \in Seq(Entries), plain \in Nat :
          Leaves(out, n, k, left, rest, plain)
  <2>1. \A j \in 1 .. Len(out) : out[j].layered \/ out[j].plain = out[j].bytes
    BY <1>2, <1>4
  <2>2. n <= Total(out, "bytes")
    BY <1>1, <1>2
  <2>3. \E k \in 0 .. Len(out), left \in Nat, rest \in Seq(Entries), plain \in Nat :
            Leaves(out, n, k, left, rest, plain)
    BY <2>1, <2>2, <1>1, DrainedFacts
  <2> QED BY <2>3, <1>2
<1>6. \/ /\ k = 0 /\ n < out[1].bytes /\ Len(rest) = 1 /\ ~rest[1].layered
         /\ rest[1].bytes = out[1].bytes - n /\ rest[1].plain = out[1].plain - n /\ plain = n
      \/ n = out[1].bytes /\ rest = <<>> /\ plain = n
  BY <1>1, <1>2, <1>4, <1>5, OneLeaves
<1>7. n <= a.prebytes /\ plain = n
  <2>1. out[1].bytes \in Nat
    BY <1>2 DEF Entries
  <2> QED BY <2>1, <1>1, <1>4, <1>6
<1>8. /\ LayerFinished(a, n).plain = n
      /\ \E q \in Layers :
            /\ q = LayerFinished(a, n).layer
            /\ q.type = a.type /\ q.done = a.done /\ q.prebytes = a.prebytes - n
            /\ q.p = 0 /\ q.list = <<>>
  BY <1>1, <1>4, <1>7, BegunFinished
<1>9. PICK l \in Layers :
          /\ l = LayerFinished(a, n).layer
          /\ l.type = a.type /\ l.done = a.done /\ l.prebytes = a.prebytes - n
          /\ l.p = 0 /\ l.list = <<>>
  BY <1>8
<1>10. PICK ls \in Seq(Layers) : ls = <<l>> /\ Len(ls) = 1 /\ ls[1] = l
  <2>1. <<l>> \in Seq(Layers) /\ Len(<<l>>) = 1 /\ <<l>>[1] = l
    OBVIOUS
  <2> QED BY <2>1
<1>11. Turned(ls, s, n, plain)
  <2>1. Len(s.layers) \in 0 .. 2 /\ 1 \in 1 .. Len(s.layers) /\ Len(ls) = 1
    BY <1>3, <1>10
  <2>2. /\ Passed(s.layers, n)[0] = n
        /\ Passed(s.layers, n)[1] = LayerFinished(s.layers[1], n).plain
    BY <1>3, PassedOne
  <2>3. \A j \in 1 .. Len(ls) : j = 1 /\ j - 1 = 0
    BY <2>1
  <2> QED BY <2>2, <2>3, <1>3, <1>7, <1>8, <1>9, <1>10 DEF Turned
<1>12. PICK r \in Streams : Keeps(s, n, r) /\ Accurate(r) /\ r.layers = ls /\ r.out = rest
  <2>1. k \in 0 .. Len(s.out) /\ Leaves(s.out, n, k, left, rest, plain)
    BY <1>2, <1>5
  <2> QED BY <2>1, <1>1, <1>11, WroteFacts
<1>13. LayerTypes(r) = LayerTypes(s) /\ r.topInProgress = (a.type = "TLS") /\ LayerTypes(s) = <<a.type>>
  <2>1. LayerTypes(s) = [j \in 1 .. 1 |-> s.layers[j].type]
    BY <1>3 DEF LayerTypes
  <2>2. LayerTypes(s) = <<a.type>>
    BY <2>1, <1>3
  <2> QED BY <2>2, <1>4, <1>12 DEF Keeps
<1>14. CASE n < out[1].bytes /\ Len(rest) = 1
  BY <1>3, <1>4, <1>6, <1>9, <1>10, <1>12, <1>13, <1>14, SMTT(40) DEF BegunOnSocket
<1>15. CASE n = out[1].bytes /\ rest = <<>>
  <2>1. l.prebytes = 0 /\ r.layers[1] = l /\ Len(r.layers) = 1 /\ r.out = <<>> /\ ~l.done
    BY <1>1, <1>4, <1>9, <1>10, <1>12, <1>15
  <2>2. CASE a.type = "TLS"
    <3>1. r.pending = 0
      <4>1. Len(r.out) = 0
        BY <2>1
      <4>2. Total(r.out, "plain") = 0
        BY <4>1, StreamParts, SumsStep DEF Total
      <4> QED BY <4>2, <1>12 DEF Accurate
    <3>2. \A j \in DOMAIN r.out : r.out[j].layered
      BY <2>1
    <3> QED BY <3>1, <3>2, <2>1, <2>2, <1>9, <1>12, <1>13 DEF Shaking
  <2>3. CASE a.type # "TLS"
    <3>1. l.type = "SASL" /\ Own(l)
      BY <2>3, <1>9 DEF Layers, Own
    <3>2. Follows(l, <<>>)
      <4>1. Len(l.list) = Len(<<>>) /\ \A j \in DOMAIN <<>> : FALSE
        BY <1>9
      <4> QED BY <4>1, <3>1, <2>1, <1>9 DEF Follows
    <3>3. Single(r)
      BY <3>2, <2>1 DEF Single
    <3> QED BY <3>3, <2>3, <1>12, <1>13
  <2> QED BY <2>2, <2>3
<1> QED BY <1>6, <1>14, <1>15

\* So are those from before the SASL layer, as TLS below it makes them out.
LEMMA BegunOnTLSWrote ==
    ASSUME NEW s \in Streams, Accurate(s), BegunOnTLS(s), NEW n \in 1 .. Total(s.out, "bytes")
    PROVE  \E r \in Streams : Keeps(s, n, r) /\ Accurate(r) /\ (BegunOnTLS(r) \/ Double(r))
<1>1. n \in Nat /\ n > 0 /\ n <= Total(s.out, "bytes")
  BY StreamParts
<1>2. PICK out \in Seq(Entries) :
          out = s.out /\ Len(out) = 1 /\ DOMAIN out = 1 .. 1 /\ out[1] \in Entries
  BY StreamParts DEF BegunOnTLS
<1>3. PICK a \in Layers, b \in Layers : a = s.layers[1] /\ b = s.layers[2] /\ Len(s.layers) = 2
  BY StreamParts DEF BegunOnTLS
<1>4. /\ Follows(a, out) /\ Len(a.list) = 1
      /\ b.p = 0 /\ b.list = <<>>
      /\ a.list[1].plain = out[1].plain /\ b.prebytes = out[1].plain /\ out[1].layered
  BY <1>2, <1>3 DEF BegunOnTLS, Follows
<1>5. PICK k \in 0 .. 1, left \in Nat, rest \in Seq(Entries), plain \in Nat :
          Leaves(out, n, k, left, rest, plain)
  <2>1. \A j \in 1 .. Len(out) : out[j].layered \/ out[j].plain = out[j].bytes
    BY <1>2, <1>4
  <2>2. n <= Total(out, "bytes")
    BY <1>1, <1>2
  <2>3. \E k \in 0 .. Len(out), left \in Nat, rest \in Seq(Entries), plain \in Nat :
            Leaves(out, n, k, left, rest, plain)
    BY <2>1, <2>2, <1>1, DrainedFacts
  <2> QED BY <2>3, <1>2
<1>6. \/ k = 0 /\ n < out[1].bytes /\ Len(rest) = 1 /\ rest[1].plain = out[1].plain /\ plain = 0
      \/ k = 1 /\ n = out[1].bytes /\ rest = <<>> /\ plain = out[1].plain
  BY <1>1, <1>2, <1>4, <1>5, OneLeaves
<1>7. k \in 0 .. Len(out)
  BY <1>2
<1>8. PICK l \in Layers :
          /\ l = LayerFinished(a, n).layer
          /\ LayerFinished(a, n).plain = Sums(a.list, "plain")[k]
          /\ plain = Sums(out, "plain")[k]
          /\ l.type = a.type /\ l.done = a.done /\ Follows(l, rest)
          /\ \A j \in 1 .. Len(rest) :
                /\ l.list[j].plain = a.list[k + j].plain
                /\ rest[j].plain = out[k + j].plain
  BY <1>7, <1>1, <1>4, <1>5, FollowsFinished
<1>9. LayerFinished(a, n).plain = Sums(a.list, "plain")[k] /\ plain = Sums(out, "plain")[k]
  BY <1>8
<1>10. LayerFinished(a, n).plain = plain
  <2>1. Numbers(a.list, "plain")
    BY LayerNumbers
  <2>2. Sums(a.list, "plain")[0] = 0 /\ Sums(a.list, "plain")[1] = a.list[1].plain
    BY <2>1, <1>4, SumsOfOne
  <2> QED BY <2>2, <1>4, <1>6, <1>9
<1>11. plain <= b.prebytes
  <2>1. out[1].plain \in Nat
    BY <1>2 DEF Entries
  <2> QED BY <2>1, <1>4, <1>6
<1>12. /\ LayerFinished(b, plain).plain = plain
       /\ \E q \in Layers :
             /\ q = LayerFinished(b, plain).layer
             /\ q.type = b.type /\ q.done = b.done /\ q.prebytes = b.prebytes - plain
             /\ q.p = 0 /\ q.list = <<>>
  BY <1>4, <1>11, BegunFinished
<1>13. PICK q \in Layers :
          /\ q = LayerFinished(b, plain).layer
          /\ q.type = b.type /\ q.done = b.done /\ q.prebytes = b.prebytes - plain
          /\ q.p = 0 /\ q.list = <<>>
  BY <1>12
<1>14. PICK ls \in Seq(Layers) : ls = <<l, q>> /\ Len(ls) = 2 /\ ls[1] = l /\ ls[2] = q
  <2>1. <<l, q>> \in Seq(Layers) /\ Len(<<l, q>>) = 2 /\ <<l, q>>[1] = l /\ <<l, q>>[2] = q
    OBVIOUS
  <2> QED BY <2>1
<1>15. Turned(ls, s, n, plain)
  <2>1. Len(s.layers) \in 0 .. 2 /\ 1 \in 1 .. Len(s.layers) /\ 2 \in 1 .. Len(s.layers)
    BY <1>3
  <2>2. /\ Passed(s.layers, n)[0] = n
        /\ Passed(s.layers, n)[1] = LayerFinished(s.layers[1], n).plain
        /\ Passed(s.layers, n)[2] = LayerFinished(s.layers[2], Passed(s.layers, n)[1]).plain
    BY <1>3, PassedTwo
  <2>3. Passed(s.layers, n)[1] = plain /\ Passed(s.layers, n)[2] = plain
    BY <2>2, <1>3, <1>10, <1>12
  <2>4. ls[1] = LayerFinished(s.layers[1], Passed(s.layers, n)[0]).layer
        /\ ls[1].type = s.layers[1].type
    BY <2>2, <1>3, <1>8, <1>14
  <2>5. ls[2] = LayerFinished(s.layers[2], Passed(s.layers, n)[1]).layer
        /\ ls[2].type = s.layers[2].type
    BY <2>3, <1>3, <1>13, <1>14
  <2>6. \A j \in 1 .. Len(ls) : (j = 1 /\ j - 1 = 0) \/ (j = 2 /\ j - 1 = 1)
    BY <1>14
  <2> QED BY <2>3, <2>4, <2>5, <2>6, <1>3, <1>14 DEF Turned
<1>16. PICK r \in Streams : Keeps(s, n, r) /\ Accurate(r) /\ r.layers = ls /\ r.out = rest
  <2>1. k \in 0 .. Len(s.out) /\ Leaves(s.out, n, k, left, rest, plain)
    BY <1>2, <1>5
  <2> QED BY <2>1, <1>1, <1>15, WroteFacts
<1>17. /\ LayerTypes(r) = <<"TLS", "SASL">> /\ ~r.topInProgress
       /\ Len(r.layers) = 2 /\ r.layers[1] = l /\ r.layers[2] = q
  BY <1>14, <1>16 DEF Keeps, BegunOnTLS
<1>18. CASE k = 0
  <2>1. q.prebytes = out[1].plain
    <3>1. out[1].plain \in Nat
      BY <1>2 DEF Entries
    <3> QED BY <3>1, <1>4, <1>6, <1>13, <1>18
  <2>2. Len(rest) = 1 /\ rest[1].plain = out[1].plain /\ l.list[1].plain = out[1].plain
    <3>1. Len(rest) = 1 /\ rest[1].plain = out[1].plain
      BY <1>6, <1>18
    <3>2. l.list[1].plain = a.list[0 + 1].plain
      BY <3>1, <1>8, <1>18, SMTT(40)
    <3> QED BY <3>1, <3>2, <1>4
  <2>3. Follows(l, rest) /\ q.p = 0 /\ q.list = <<>> /\ q.prebytes = rest[1].plain
        /\ l.list[1].plain = rest[1].plain
    BY <2>1, <2>2, <1>8, <1>13
  <2>4. BegunOnTLS(r)
    BY <2>2, <2>3, <1>16, <1>17, Zenon DEF BegunOnTLS
  <2> QED BY <2>4, <1>16, Zenon
<1>19. CASE k = 1
  <2>1. q.prebytes = 0 /\ rest = <<>>
    <3>1. out[1].plain \in Nat
      BY <1>2 DEF Entries
    <3> QED BY <3>1, <1>4, <1>6, <1>13, <1>19
  <2>2. Len(q.list) = Len(rest) /\ DOMAIN rest = {}
    BY <2>1, <1>13
  <2> QED BY <2>1, <2>2, <1>8, <1>13, <1>16, <1>17 DEF Double
<1> QED BY <1>18, <1>19

\* What the socket writes is accounted for, however the layers came to be there.
LEMMA SocketWrote_Accounted ==
    ASSUME NEW s, Accounted(s), NEW n \in 1 .. Total(s.out, "bytes")
    PROVE  \E r : Keeps(s, n, r) /\ Accounted(r) /\ (Settled(s) => Settled(r))
<1>1. s \in Streams /\ Accurate(s)
  BY DEF Accounted
<1>2. CASE Settled(s)
  <2>1. ~s.topInProgress /\ (Bare(s) \/ Single(s) \/ Double(s))
    BY <1>2 DEF Settled
  <2>2. PICK r \in Streams : Keeps(s, n, r) /\ Accurate(r) /\ (Bare(r) \/ Single(r) \/ Double(r))
    BY <2>1, <1>1, BareWrote, SingleWrote, DoubleWrote
  <2>3. Settled(r)
    BY <2>1, <2>2 DEF Settled, Keeps
  <2> QED BY <2>2, <2>3 DEF Accounted
<1>3. CASE Shaking(s) \/ BegunOnSocket(s) \/ BegunOnTLS(s)
  <2>1. ~Settled(s)
    <3>1. CASE Shaking(s)
      BY <3>1 DEF Shaking, Settled
    <3>2. CASE BegunOnSocket(s)
      BY <3>2 DEF BegunOnSocket, Settled, Bare, Single, Double, Follows
    <3>3. CASE BegunOnTLS(s)
      BY <3>3 DEF BegunOnTLS, Settled, Bare, Single, Double, Follows
    <3> QED BY <3>1, <3>2, <3>3, <1>3
  <2>2. PICK r \in Streams : /\ Keeps(s, n, r) /\ Accurate(r)
                             /\ \/ Shaking(r) \/ BegunOnSocket(r) \/ BegunOnTLS(r)
                                \/ ~r.topInProgress /\ (Single(r) \/ Double(r))
    <3>1. CASE Shaking(s)
      BY <3>1, <1>1, ShakingWrote
    <3>2. CASE BegunOnSocket(s)
      BY <3>2, <1>1, BegunOnSocketWrote
    <3>3. CASE BegunOnTLS(s)
      <4>1. \A r : Keeps(s, n, r) => ~r.topInProgress
        BY <3>3 DEF Keeps, BegunOnTLS
      <4> QED BY <4>1, <3>3, <1>1, BegunOnTLSWrote
    <3> QED BY <3>1, <3>2, <3>3, <1>3
  <2> QED BY <2>1, <2>2 DEF Accounted, Settled
<1> QED BY <1>2, <1>3 DEF Accounted

-----------------------------------------------------------------------------
(***************************************************************************)
(* The stream writes, and layers are put in place                          *)
(***************************************************************************)
\* What is appended to the buffer is what the client reads last.
LEMMA CarriedAppend ==
    ASSUME NEW out \in Seq(Entries), NEW e \in Entries
    PROVE  Carried(Append(out, e)) = Append(Carried(out), e.item)
<1>1. PICK m, b : m \in Nat /\ m = Len(out) /\ b = Append(out, e) /\ DOMAIN out = 1 .. m
  BY LenProperties
<1>2. b \in Seq(Entries) /\ Len(b) = m + 1 /\ b[m + 1] = e /\ \A j \in 1 .. m : b[j] = out[j]
  BY <1>1, AppendProperties
<1>3. DOMAIN b = 1 .. m + 1
  BY <1>2, LenProperties
<1>4. \A j \in 1 .. m : out[j].item \in Items
  <2>1. \A j \in 1 .. m : out[j] \in Entries
    BY <1>1, ElementOfSeq
  <2> QED BY <2>1 DEF Entries
<1>5. e.item \in Items
  BY DEF Entries
<1>6. PICK c : c = Carried(out)
  OBVIOUS
<1>7. c \in Seq(Items) /\ Len(c) = m /\ \A j \in 1 .. m : c[j] = out[j].item
  <2>1. c = [j \in 1 .. m |-> out[j].item]
    BY <1>1, <1>6 DEF Carried
  <2>2. c \in [1 .. m -> Items]
    BY <2>1, <1>4
  <2> QED BY <2>1, <2>2, <1>1, SeqDef
<1>8. PICK d : d = Append(c, e.item)
  OBVIOUS
<1>9. d \in Seq(Items) /\ Len(d) = m + 1 /\ d[m + 1] = e.item /\ \A j \in 1 .. m : d[j] = c[j]
  BY <1>5, <1>7, <1>8, AppendProperties
<1>10. \A j \in 1 .. m + 1 : d[j] = b[j].item
  <2> TAKE j \in 1 .. m + 1
  <2>1. CASE j = m + 1
    BY <2>1, <1>2, <1>9
  <2>2. CASE j # m + 1
    <3>1. j \in 1 .. m
      BY <2>2, <1>1
    <3> QED BY <3>1, <1>2, <1>7, <1>9
  <2> QED BY <2>1, <2>2
<1>11. d = [j \in 1 .. m + 1 |-> b[j].item]
  <2>1. DOMAIN d = 1 .. m + 1 /\ d = [j \in DOMAIN d |-> d[j]]
    BY <1>9, LenProperties
  <2>2. d = [j \in 1 .. m + 1 |-> d[j]]
    BY <2>1
  <2> QED BY <2>2, <1>10, Zenon
<1> QED BY <1>1, <1>3, <1>6, <1>8, <1>11 DEF Carried

\* A layer with nothing waiting tracks what it is given.
LEMMA LayerTakes ==
    ASSUME NEW a \in Layers, a.p = 0, NEW encoded \in Nat, NEW plain \in Nat
    PROVE  \E l \in Layers :
              /\ l = SpecifyEncoded([a EXCEPT !.p = @ + plain], encoded, plain)
              /\ l.type = a.type /\ l.done = a.done /\ l.prebytes = a.prebytes /\ l.p = 0
              /\ l.list = Append(a.list, [plain |-> plain, encoded |-> encoded])
<1>1. PICK b : b = [a EXCEPT !.p = @ + plain]
  OBVIOUS
<1>2. /\ b \in Layers /\ b.type = a.type /\ b.done = a.done /\ b.prebytes = a.prebytes
      /\ b.list = a.list /\ b.p = plain
  BY <1>1 DEF Layers
<1>3. PICK l : l = SpecifyEncoded(b, encoded, plain)
  OBVIOUS
<1>4. PICK list : list = Append(a.list, [plain |-> plain, encoded |-> encoded])
  OBVIOUS
<1>5. list \in Seq(Tracked)
  <2>1. [plain |-> plain, encoded |-> encoded] \in Tracked /\ a.list \in Seq(Tracked)
    BY DEF Tracked, Layers
  <2> QED BY <2>1, <1>4, AppendProperties
<1>6. l = [b EXCEPT !.p = @ - plain, !.list = list]
  BY <1>2, <1>3, <1>4 DEF SpecifyEncoded
<1>7. /\ l \in Layers /\ l.type = a.type /\ l.done = a.done /\ l.prebytes = a.prebytes
      /\ l.p = 0 /\ l.list = list
  <2>1. plain - plain = 0
    OBVIOUS
  <2> QED BY <2>1, <1>2, <1>5, <1>6 DEF Layers
<1> QED BY <1>1, <1>3, <1>4, <1>7

\* Adds(s, n, r, e, item): e is appended to the buffer, for n of the stream's bytes.
Adds(s, n, r, e, item) ==
    /\ e.item = item /\ e.plain = n
    /\ r.out = Append(s.out, e) /\ r.topInProgress = s.topInProgress
    /\ LayerTypes(r) = LayerTypes(s)

\* SameTypes(ls, s): the layers ls are of the types of those of s.
SameTypes(ls, s) ==
    Len(ls) = Len(s.layers) /\ \A j \in 1 .. Len(ls) : ls[j].type = s.layers[j].type

\* The stream when n of its bytes are put into the buffer as so many bytes.
Put(s, n, ls, bytes, item) == Raw([s EXCEPT !.pending = @ + n, !.layers = ls], bytes, n, item)

\* What is put into the buffer is counted.
LEMMA RawFacts ==
    ASSUME NEW s \in Streams, Accurate(s), NEW n \in Nat, NEW ls \in Seq(Layers),
           SameTypes(ls, s), NEW bytes \in Nat \ {0},
           NEW item \in Items
    PROVE  \E r \in Streams, e \in Entries :
              /\ r = Put(s, n, ls, bytes, item)
              /\ Adds(s, n, r, e, item) /\ Accurate(r) /\ r.layers = ls
              /\ e.bytes = bytes /\ e.layered = (Len(s.layers) # 0)
<1>1. PICK w : w = [s EXCEPT !.pending = @ + n, !.layers = ls]
  OBVIOUS
<1>0. Len(ls) = Len(s.layers) /\ \A j \in 1 .. Len(ls) : ls[j].type = s.layers[j].type
  BY DEF SameTypes
<1>2. /\ w \in Streams /\ w.pending = s.pending + n /\ w.layers = ls /\ w.out = s.out
      /\ w.topInProgress = s.topInProgress /\ w.reported = s.reported /\ w.sent = s.sent
  <2>1. s.pending + n \in Nat
    BY StreamParts
  <2> QED BY <2>1, <1>1 DEF Streams
<1>3. (w.layers # <<>>) = (Len(s.layers) # 0)
  BY <1>0, <1>2, StreamParts, EmptySeq
<1>4. PICK e : e = [bytes |-> bytes, plain |-> n, layered |-> w.layers # <<>>, item |-> item]
  OBVIOUS
<1>5. /\ e \in Entries /\ e.bytes = bytes /\ e.plain = n /\ e.item = item
      /\ e.layered = (w.layers # <<>>)
  <2>1. (w.layers # <<>>) \in BOOLEAN
    OBVIOUS
  <2> QED BY <2>1, <1>4 DEF Entries
<1>6. PICK r : r = Raw(w, bytes, n, item)
  OBVIOUS
<1>7. r = [w EXCEPT !.out = Append(@, e)]
  BY <1>4, <1>6 DEF Raw
<1>8. PICK out \in Seq(Entries) : out = Append(s.out, e)
  <2>1. s.out \in Seq(Entries)
    BY StreamParts
  <2> QED BY <2>1, <1>5, AppendProperties
<1>9. /\ r \in Streams /\ r.out = out /\ r.layers = ls /\ r.pending = s.pending + n
      /\ r.topInProgress = s.topInProgress /\ r.reported = s.reported /\ r.sent = s.sent
  <2>1. r = [w EXCEPT !.out = out]
    BY <1>2, <1>7, <1>8
  <2> QED BY <2>1, <1>2, <1>8 DEF Streams
<1>10. Accurate(r)
  <2>1. PICK f, old : f = "plain" /\ old = s.out
    OBVIOUS
  <2>2. old \in Seq(Entries) /\ Numbers(old, f) /\ e[f] \in Nat /\ e[f] = n
    BY <2>1, <1>5, StreamParts
  <2>3. Total(Append(old, e), f) = Total(old, f) + e[f]
    BY <2>2, <1>5, TotalAppend
  <2>4. Total(out, "plain") = Total(s.out, "plain") + n
    BY <2>1, <2>2, <2>3, <1>8
  <2> QED BY <2>4, <1>9 DEF Accurate
<1>11. LayerTypes(r) = LayerTypes(s)
  <2>1. PICK m \in Nat : m = Len(s.layers)
    BY StreamParts
  <2>2. DOMAIN s.layers = 1 .. m /\ DOMAIN ls = 1 .. m
    BY <2>1, <1>0, StreamParts, LenProperties
  <2>3. [j \in 1 .. m |-> ls[j].type] = [j \in 1 .. m |-> s.layers[j].type]
    BY <2>1, <1>0
  <2> QED BY <2>2, <2>3, <1>9 DEF LayerTypes
<1> QED BY <1>1, <1>3, <1>5, <1>6, <1>8, <1>9, <1>10, <1>11 DEF Adds, Put

\* A layer that follows the buffer takes the new entry, too.
LEMMA FollowsAppend ==
    ASSUME NEW out \in Seq(Entries), NEW e \in Entries, NEW a \in Layers, NEW l \in Layers,
           NEW item \in Tracked,
           Follows(a, out), e.layered, item.encoded = e.bytes,
           l.type = a.type, l.done = a.done, l.prebytes = a.prebytes, l.p = 0,
           l.list = Append(a.list, item)
    PROVE  Follows(l, Append(out, e))
<1>1. PICK m, b : m \in Nat /\ m = Len(out) /\ b = Append(out, e) /\ DOMAIN out = 1 .. m
  BY LenProperties
<1>2. b \in Seq(Entries) /\ Len(b) = m + 1 /\ b[m + 1] = e /\ \A j \in 1 .. m : b[j] = out[j]
  BY <1>1, AppendProperties
<1>3. DOMAIN b = 1 .. m + 1
  BY <1>2, LenProperties
<1>4. PICK old \in Seq(Tracked) : old = a.list
  BY LayerNumbers
<1>5. /\ Own(a) /\ a.prebytes = 0 /\ Len(old) = m
      /\ \A j \in 1 .. m : old[j].encoded = out[j].bytes /\ out[j].layered
  BY <1>1, <1>4 DEF Follows
<1>6. PICK list : list = Append(old, item)
  OBVIOUS
<1>7. /\ Len(list) = m + 1 /\ list[m + 1] = item /\ \A j \in 1 .. m : list[j] = old[j]
  BY <1>5, <1>6, AppendProperties
<1>8. \A j \in 1 .. m + 1 : list[j].encoded = b[j].bytes /\ b[j].layered
  <2> TAKE j \in 1 .. m + 1
  <2>1. CASE j = m + 1
    BY <2>1, <1>2, <1>7
  <2>2. CASE j # m + 1
    <3>1. j \in 1 .. m
      BY <2>2, <1>1
    <3> QED BY <3>1, <1>2, <1>5, <1>7
  <2> QED BY <2>1, <2>2
<1>9. l.list = list
  BY <1>4, <1>6
<1> QED BY <1>1, <1>2, <1>3, <1>5, <1>7, <1>8, <1>9 DEF Follows, Own

\* The bytes a layer makes of some are some.
LEMMA EncodedSome ==
    ASSUME NEW type, NEW n \in Nat \ {0}
    PROVE  Encoded(type, n) \in Nat \ {0}
BY OverheadAssumption DEF Encoded

\* What is written under no layer goes to the buffer as it is.
LEMMA BareTakes ==
    ASSUME NEW s \in Streams, Accurate(s), Bare(s), NEW n \in Nat \ {0}, NEW item \in Items
    PROVE  \E r \in Streams, e \in Entries :
              r = SSWrite(s, n, item) /\ Adds(s, n, r, e, item) /\ Accurate(r) /\ Bare(r)
<1>1. s.layers = <<>> /\ Len(s.layers) = 0
  BY DEF Bare
<1>2. Sizes(s.layers, n)[0] = n
  <2>1. Len(s.layers) \in 0 .. 2
    BY <1>1
  <2>2. Sizes(s.layers, n)[Len(s.layers)] = n
    BY <2>1, SizesSteps
  <2> QED BY <2>2, <1>1
<1>3. PICK ls \in Seq(Layers) : ls = <<>>
  <2>1. <<>> \in Seq(Layers)
    OBVIOUS
  <2> QED BY <2>1
<1>4. LayerWrite(s.layers, n) = ls
  <2>1. DOMAIN s.layers = {}
    BY <1>1
  <2> QED BY <2>1, <1>3 DEF LayerWrite
<1>5. SSWrite(s, n, item) = Put(s, n, ls, n, item)
  BY <1>2, <1>4 DEF SSWrite, Put
<1>6. PICK r \in Streams, e \in Entries :
          /\ r = SSWrite(s, n, item) /\ Adds(s, n, r, e, item) /\ Accurate(r) /\ r.layers = ls
          /\ e.bytes = n /\ e.layered = (Len(s.layers) # 0)
  <2>1. SameTypes(ls, s)
    BY <1>1, <1>3 DEF SameTypes
  <2> QED BY <2>1, <1>5, RawFacts
<1>7. Bare(r)
  <2>1. PICK out \in Seq(Entries), m \in Nat : out = s.out /\ m = Len(out) /\ DOMAIN out = 1 .. m
    BY StreamParts
  <2>2. PICK b : b = Append(out, e)
    OBVIOUS
  <2>3. b \in Seq(Entries) /\ Len(b) = m + 1 /\ b[m + 1] = e /\ \A j \in 1 .. m : b[j] = out[j]
    BY <2>1, <2>2, AppendProperties
  <2>4. DOMAIN b = 1 .. m + 1
    BY <2>1, <2>3, LenProperties
  <2>5. \A j \in DOMAIN b : b[j].plain = b[j].bytes /\ ~b[j].layered
    <3> TAKE j \in DOMAIN b
    <3>1. CASE j = m + 1
      BY <3>1, <2>3, <1>1, <1>6 DEF Adds
    <3>2. CASE j # m + 1
      <4>1. j \in 1 .. m
        BY <3>2, <2>1, <2>4
      <4> QED BY <4>1, <2>1, <2>3 DEF Bare
    <3> QED BY <3>1, <3>2
  <2> QED BY <2>1, <2>2, <2>5, <1>3, <1>6 DEF Bare, Adds
<1> QED BY <1>6, <1>7

\* One layer makes an item of it.
LEMMA SingleTakes ==
    ASSUME NEW s \in Streams, Accurate(s), Single(s), NEW n \in Nat \ {0}, NEW item \in Items
    PROVE  \E r \in Streams, e \in Entries :
              r = SSWrite(s, n, item) /\ Adds(s, n, r, e, item) /\ Accurate(r) /\ Single(r)
<1>1. PICK out \in Seq(Entries), m \in Nat : out = s.out /\ m = Len(out) /\ DOMAIN out = 1 .. m
  BY StreamParts
<1>2. PICK a \in Layers : a = s.layers[1] /\ Len(s.layers) = 1 /\ DOMAIN s.layers = 1 .. 1
  BY StreamParts DEF Single
<1>3. Follows(a, out) /\ a.p = 0 /\ Len(a.list) = m /\ \A j \in 1 .. m : a.list[j].plain = out[j].plain
  BY <1>1, <1>2 DEF Single, Follows
<1>4. PICK bytes \in Nat \ {0} : bytes = Encoded(a.type, n)
  BY EncodedSome
<1>5. Sizes(s.layers, n)[1] = n /\ Sizes(s.layers, n)[0] = bytes
  <2>1. Len(s.layers) \in 0 .. 2 /\ 1 \in 1 .. Len(s.layers)
    BY <1>2
  <2>2. Sizes(s.layers, n)[Len(s.layers)] = n
    BY <2>1, SizesSteps
  <2>3. Sizes(s.layers, n)[1 - 1] = Encoded(s.layers[1].type, Sizes(s.layers, n)[1])
    BY <2>1, SizesSteps
  <2> QED BY <2>2, <2>3, <1>2, <1>4
<1>6. PICK i \in Tracked : i = [plain |-> n, encoded |-> bytes]
  BY DEF Tracked
<1>7. PICK l \in Layers :
          /\ l = SpecifyEncoded([a EXCEPT !.p = @ + n], bytes, n)
          /\ l.type = a.type /\ l.done = a.done /\ l.prebytes = a.prebytes /\ l.p = 0
          /\ l.list = Append(a.list, i)
  BY <1>3, <1>6, LayerTakes
<1>8. PICK ls \in Seq(Layers) : ls = <<l>> /\ Len(ls) = 1 /\ ls[1] = l
  <2>1. <<l>> \in Seq(Layers) /\ Len(<<l>>) = 1 /\ <<l>>[1] = l
    OBVIOUS
  <2> QED BY <2>1
<1>9. LayerWrite(s.layers, n) = ls
  <2>1. \A k \in 1 .. 1 : k = 1 /\ k - 1 = 0
    OBVIOUS
  <2>2. LayerWrite(s.layers, n) = [k \in 1 .. 1 |->
            SpecifyEncoded([s.layers[k] EXCEPT !.p = @ + Sizes(s.layers, n)[k]],
                           Sizes(s.layers, n)[k - 1], Sizes(s.layers, n)[k])]
    BY <1>2 DEF LayerWrite
  <2>3. \A k \in 1 .. 1 :
            SpecifyEncoded([s.layers[k] EXCEPT !.p = @ + Sizes(s.layers, n)[k]],
                           Sizes(s.layers, n)[k - 1], Sizes(s.layers, n)[k]) = l
    BY <2>1, <1>2, <1>5, <1>7
  <2>4. LayerWrite(s.layers, n) = [k \in 1 .. 1 |-> l]
    BY <2>2, <2>3, Zenon
  <2>5. [k \in 1 .. 1 |-> l] = <<l>>
    OBVIOUS
  <2> QED BY <2>4, <2>5, <1>8
<1>10. SSWrite(s, n, item) = Put(s, n, ls, bytes, item)
  BY <1>5, <1>9 DEF SSWrite, Put
<1>11. PICK r \in Streams, e \in Entries :
          /\ r = SSWrite(s, n, item) /\ Adds(s, n, r, e, item) /\ Accurate(r) /\ r.layers = ls
          /\ e.bytes = bytes /\ e.layered = (Len(s.layers) # 0)
  <2>1. SameTypes(ls, s)
    BY <1>2, <1>7, <1>8 DEF SameTypes
  <2> QED BY <2>1, <1>10, RawFacts
<1>12. r.out = Append(out, e) /\ e.plain = n /\ e.layered /\ e.bytes = bytes
  <2>1. Len(s.layers) # 0
    BY <1>2
  <2>2. r.out = Append(s.out, e) /\ e.plain = n
    BY <1>11 DEF Adds
  <2> QED BY <2>1, <2>2, <1>1, <1>11
<1>13. Follows(l, Append(out, e))
  BY <1>3, <1>6, <1>7, <1>12, FollowsAppend
<1>14. \A j \in DOMAIN Append(out, e) : l.list[j].plain = Append(out, e)[j].plain
  <2>1. PICK b : b = Append(out, e)
    OBVIOUS
  <2>2. b \in Seq(Entries) /\ Len(b) = m + 1 /\ b[m + 1] = e /\ \A j \in 1 .. m : b[j] = out[j]
    BY <2>1, <1>1, AppendProperties
  <2>3. DOMAIN b = 1 .. m + 1
    BY <2>2, LenProperties
  <2>4. PICK old \in Seq(Tracked) : old = a.list
    BY LayerNumbers
  <2>5. PICK list : list = Append(old, i)
    OBVIOUS
  <2>6. list[m + 1] = i /\ \A j \in 1 .. m : list[j] = old[j]
    BY <2>4, <2>5, <1>3, AppendProperties
  <2>7. \A j \in 1 .. m + 1 : list[j].plain = b[j].plain
    <3> TAKE j \in 1 .. m + 1
    <3>1. CASE j = m + 1
      BY <3>1, <2>2, <2>6, <1>6, <1>12
    <3>2. CASE j # m + 1
      <4>1. j \in 1 .. m
        BY <3>2, <1>1
      <4> QED BY <4>1, <2>2, <2>4, <2>6, <1>3
    <3> QED BY <3>1, <3>2
  <2> QED BY <2>1, <2>3, <2>4, <2>5, <2>7, <1>7
<1>15. Single(r)
  BY <1>8, <1>11, <1>12, <1>13, <1>14 DEF Single
<1> QED BY <1>11, <1>15

\* Two make one each, that of the lower of the other's.
LEMMA DoubleTakes ==
    ASSUME NEW s \in Streams, Accurate(s), Double(s), NEW n \in Nat \ {0}, NEW item \in Items
    PROVE  \E r \in Streams, e \in Entries :
              r = SSWrite(s, n, item) /\ Adds(s, n, r, e, item) /\ Accurate(r) /\ Double(r)
<1>1. PICK out \in Seq(Entries), m \in Nat : out = s.out /\ m = Len(out) /\ DOMAIN out = 1 .. m
  BY StreamParts
<1>2. PICK a \in Layers, b \in Layers :
          a = s.layers[1] /\ b = s.layers[2] /\ Len(s.layers) = 2 /\ DOMAIN s.layers = 1 .. 2
  <2>1. Len(s.layers) = 2
    BY DEF Double
  <2>2. s.layers[1] \in Layers /\ s.layers[2] \in Layers /\ DOMAIN s.layers = 1 .. 2
    BY <2>1, StreamParts
  <2> QED BY <2>1, <2>2
<1>3. /\ Follows(a, out) /\ a.p = 0 /\ Len(a.list) = m
      /\ b.prebytes = 0 /\ b.p = 0 /\ Len(b.list) = m
      /\ \A j \in 1 .. m :
            /\ b.list[j].plain = out[j].plain
            /\ b.list[j].encoded = a.list[j].plain /\ b.list[j].encoded > 0
  BY <1>1, <1>2 DEF Double, Follows
<1>4. PICK mid \in Nat \ {0} : mid = Encoded(b.type, n)
  BY EncodedSome
<1>5. PICK bytes \in Nat \ {0} : bytes = Encoded(a.type, mid)
  BY EncodedSome
<1>6. Sizes(s.layers, n)[2] = n /\ Sizes(s.layers, n)[1] = mid /\ Sizes(s.layers, n)[0] = bytes
  <2>1. Len(s.layers) \in 0 .. 2 /\ 1 \in 1 .. Len(s.layers) /\ 2 \in 1 .. Len(s.layers)
        /\ 2 - 1 = 1 /\ 1 - 1 = 0
    BY <1>2
  <2>2. Sizes(s.layers, n)[Len(s.layers)] = n
    BY <2>1, SizesSteps
  <2>3. Sizes(s.layers, n)[1 - 1] = Encoded(s.layers[1].type, Sizes(s.layers, n)[1])
    BY <2>1, SizesSteps
  <2>4. Sizes(s.layers, n)[2 - 1] = Encoded(s.layers[2].type, Sizes(s.layers, n)[2])
    BY <2>1, SizesSteps
  <2> QED BY <2>1, <2>2, <2>3, <2>4, <1>2, <1>4, <1>5
<1>7. PICK i \in Tracked : i = [plain |-> mid, encoded |-> bytes]
  BY DEF Tracked
<1>8. PICK h \in Tracked : h = [plain |-> n, encoded |-> mid]
  BY DEF Tracked
<1>9. PICK l \in Layers :
          /\ l = SpecifyEncoded([a EXCEPT !.p = @ + mid], bytes, mid)
          /\ l.type = a.type /\ l.done = a.done /\ l.prebytes = a.prebytes /\ l.p = 0
          /\ l.list = Append(a.list, i)
  BY <1>3, <1>7, LayerTakes
<1>10. PICK q \in Layers :
          /\ q = SpecifyEncoded([b EXCEPT !.p = @ + n], mid, n)
          /\ q.type = b.type /\ q.done = b.done /\ q.prebytes = b.prebytes /\ q.p = 0
          /\ q.list = Append(b.list, h)
  BY <1>3, <1>8, LayerTakes
<1>11. PICK ls \in Seq(Layers) : ls = <<l, q>> /\ Len(ls) = 2 /\ ls[1] = l /\ ls[2] = q
  <2>1. <<l, q>> \in Seq(Layers) /\ Len(<<l, q>>) = 2 /\ <<l, q>>[1] = l /\ <<l, q>>[2] = q
    OBVIOUS
  <2> QED BY <2>1
<1>12. LayerWrite(s.layers, n) = ls
  <2>1. \A k \in 1 .. 2 : (k = 1 /\ k - 1 = 0) \/ (k = 2 /\ k - 1 = 1)
    OBVIOUS
  <2>2. LayerWrite(s.layers, n) = [k \in 1 .. 2 |->
            SpecifyEncoded([s.layers[k] EXCEPT !.p = @ + Sizes(s.layers, n)[k]],
                           Sizes(s.layers, n)[k - 1], Sizes(s.layers, n)[k])]
    BY <1>2 DEF LayerWrite
  <2>3. \A k \in 1 .. 2 :
            SpecifyEncoded([s.layers[k] EXCEPT !.p = @ + Sizes(s.layers, n)[k]],
                           Sizes(s.layers, n)[k - 1], Sizes(s.layers, n)[k])
              = ls[k]
    <3> TAKE k \in 1 .. 2
    <3>1. CASE k = 1
      BY <3>1, <1>2, <1>6, <1>9, <1>11
    <3>2. CASE k = 2
      BY <3>2, <2>1, <1>2, <1>6, <1>10, <1>11
    <3> QED BY <3>1, <3>2, <2>1
  <2>4. LayerWrite(s.layers, n) = [k \in 1 .. 2 |-> ls[k]]
    BY <2>2, <2>3, Zenon
  <2>5. [k \in 1 .. 2 |-> ls[k]] = ls
    BY <1>11, LenProperties
  <2> QED BY <2>4, <2>5
<1>13. SSWrite(s, n, item) = Put(s, n, ls, bytes, item)
  BY <1>6, <1>12, Zenon DEF SSWrite, Put
<1>14. PICK r \in Streams, e \in Entries :
          /\ r = SSWrite(s, n, item) /\ Adds(s, n, r, e, item) /\ Accurate(r) /\ r.layers = ls
          /\ e.bytes = bytes /\ e.layered = (Len(s.layers) # 0)
  <2>1. SameTypes(ls, s)
    <3>1. Len(ls) = Len(s.layers) /\ \A j \in 1 .. Len(ls) : j = 1 \/ j = 2
      BY <1>2, <1>11
    <3>2. ls[1].type = s.layers[1].type /\ ls[2].type = s.layers[2].type
      BY <1>2, <1>9, <1>10, <1>11
    <3> QED BY <3>1, <3>2, Zenon DEF SameTypes
  <2> QED BY <2>1, <1>13, RawFacts
<1>15. r.out = Append(out, e) /\ e.plain = n /\ e.layered /\ e.bytes = bytes
       /\ LayerTypes(r) = <<"TLS", "SASL">>
  <2>1. Len(s.layers) # 0
    BY <1>2
  <2>2. r.out = Append(s.out, e) /\ e.plain = n /\ LayerTypes(r) = LayerTypes(s)
    BY <1>14 DEF Adds
  <2>3. LayerTypes(s) = <<"TLS", "SASL">>
    BY DEF Double
  <2> QED BY <2>1, <2>2, <2>3, <1>1, <1>14
<1>16. Follows(l, Append(out, e))
  BY <1>3, <1>7, <1>9, <1>15, FollowsAppend
<1>17. /\ Len(q.list) = Len(Append(out, e))
       /\ \A j \in DOMAIN Append(out, e) :
             /\ q.list[j].plain = Append(out, e)[j].plain
             /\ q.list[j].encoded = l.list[j].plain /\ q.list[j].encoded > 0
  <2>1. PICK c : c = Append(out, e)
    OBVIOUS
  <2>2. c \in Seq(Entries) /\ Len(c) = m + 1 /\ c[m + 1] = e /\ \A j \in 1 .. m : c[j] = out[j]
    BY <2>1, <1>1, AppendProperties
  <2>3. DOMAIN c = 1 .. m + 1
    BY <2>2, LenProperties
  <2>4. PICK la \in Seq(Tracked), lb \in Seq(Tracked) : la = a.list /\ lb = b.list
    BY LayerNumbers
  <2>5. PICK x, y : x = Append(la, i) /\ y = Append(lb, h)
    OBVIOUS
  <2>6. x[m + 1] = i /\ \A j \in 1 .. m : x[j] = la[j]
    BY <2>4, <2>5, <1>3, AppendProperties
  <2>7. Len(y) = m + 1 /\ y[m + 1] = h /\ \A j \in 1 .. m : y[j] = lb[j]
    BY <2>4, <2>5, <1>3, AppendProperties
  <2>8. \A j \in 1 .. m + 1 :
            y[j].plain = c[j].plain /\ y[j].encoded = x[j].plain /\ y[j].encoded > 0
    <3> TAKE j \in 1 .. m + 1
    <3>1. CASE j = m + 1
      BY <3>1, <2>2, <2>6, <2>7, <1>7, <1>8, <1>15
    <3>2. CASE j # m + 1
      <4>1. j \in 1 .. m
        BY <3>2, <1>1
      <4>2. y[j] = b.list[j] /\ x[j] = a.list[j] /\ c[j] = out[j]
        BY <4>1, <2>2, <2>4, <2>6, <2>7
      <4> QED BY <4>1, <4>2, <1>3
    <3> QED BY <3>1, <3>2
  <2>9. q.list = y /\ l.list = x
    BY <2>4, <2>5, <1>9, <1>10
  <2> QED BY <2>1, <2>2, <2>3, <2>7, <2>8, <2>9
<1>18. q.prebytes = 0 /\ q.p = 0 /\ r.layers[1] = l /\ r.layers[2] = q /\ Len(r.layers) = 2
  BY <1>3, <1>10, <1>11, <1>14
<1>19. Double(r)
  BY <1>15, <1>16, <1>17, <1>18 DEF Double
<1> QED BY <1>14, <1>19

\* What the stream writes when the layers are settled leaves them so.
LEMMA SSWriteSettled ==
    ASSUME NEW s \in Streams, Accurate(s), Settled(s), NEW n \in Nat \ {0}, NEW item \in Items
    PROVE  \E r \in Streams, e \in Entries :
              r = SSWrite(s, n, item) /\ Adds(s, n, r, e, item) /\ Accurate(r) /\ Settled(r)
<1>1. ~s.topInProgress /\ (Bare(s) \/ Single(s) \/ Double(s))
  BY DEF Settled
<1>2. PICK r \in Streams, e \in Entries :
          /\ r = SSWrite(s, n, item) /\ Adds(s, n, r, e, item) /\ Accurate(r)
          /\ Bare(r) \/ Single(r) \/ Double(r)
  <2>1. CASE Bare(s)
    BY <2>1, BareTakes
  <2>2. CASE Single(s)
    BY <2>2, SingleTakes
  <2>3. CASE Double(s)
    BY <2>3, DoubleTakes
  <2> QED BY <2>1, <2>2, <2>3, <1>1
<1> QED BY <1>1, <1>2 DEF Settled, Adds

\* One more than nothing.
LEMMA AppendOne == \A x : Append(<<>>, x) = <<x>>
OBVIOUS

\* One more than one.
LEMMA AppendTwo == \A x, y : Append(<<x>>, y) = <<x, y>>
<1> TAKE x, y
<1> DEFINE S == {x, y}
<1>1. <<x>> \in Seq(S) /\ y \in S /\ Len(<<x>>) = 1 /\ <<x>>[1] = x
  OBVIOUS
<1>2. PICK t \in Seq(S) : t = Append(<<x>>, y)
  BY <1>1, AppendProperties
<1>3. Len(t) = 2 /\ t[1] = x /\ t[2] = y
  BY <1>1, <1>2, AppendProperties
<1>4. <<x, y>> \in Seq(S) /\ Len(<<x, y>>) = 2 /\ <<x, y>>[1] = x /\ <<x, y>>[2] = y
  OBVIOUS
<1>5. t = <<x, y>>
  BY <1>3, <1>4, SeqEqual
<1> QED BY <1>2, <1>5

\* The layers that LayerTypes names.
LEMMA TypesOf ==
    ASSUME NEW s \in Streams
    PROVE  /\ LayerTypes(s) = <<>> => s.layers = <<>> /\ Len(s.layers) = 0
           /\ LayerTypes(s) = <<"TLS">> => Len(s.layers) = 1 /\ s.layers[1].type = "TLS"
           /\ Len(s.layers) = 1 => LayerTypes(s) = <<s.layers[1].type>>
           /\ s.layers = <<>> => LayerTypes(s) = <<>>
<1>1. PICK m \in Nat : m = Len(s.layers) /\ DOMAIN s.layers = 1 .. m
  BY StreamParts
<1>2. LayerTypes(s) = [j \in 1 .. m |-> s.layers[j].type]
  BY <1>1 DEF LayerTypes
<1>3. DOMAIN LayerTypes(s) = 1 .. m
  BY <1>2
<1>4. LayerTypes(s) = <<>> => s.layers = <<>> /\ m = 0
  <2> SUFFICES ASSUME LayerTypes(s) = <<>> PROVE s.layers = <<>> /\ m = 0
    OBVIOUS
  <2>1. 1 .. m = {}
    BY <1>3
  <2>2. m = 0
    BY <2>1
  <2> QED BY <2>2, <1>1, StreamParts, EmptySeq
<1>5. LayerTypes(s) = <<"TLS">> => m = 1 /\ s.layers[1].type = "TLS"
  <2> SUFFICES ASSUME LayerTypes(s) = <<"TLS">> PROVE m = 1 /\ s.layers[1].type = "TLS"
    OBVIOUS
  <2>1. 1 .. m = 1 .. 1
    BY <1>3
  <2>2. m = 1
    BY <2>1
  <2> QED BY <2>2, <1>2
<1>6. m = 1 => LayerTypes(s) = <<s.layers[1].type>>
  BY <1>2
<1>7. s.layers = <<>> => LayerTypes(s) = <<>>
  BY <1>1, <1>2
<1> QED BY <1>1, <1>4, <1>5, <1>6, <1>7

\* With nothing in the buffer a stream is settled, or TLS shakes hands.
LEMMA AccountedEmpty ==
    ASSUME NEW s, Accounted(s), s.out = <<>>
    PROVE  /\ s.topInProgress => Shaking(s)
           /\ ~s.topInProgress => Settled(s)
<1>1. ~BegunOnSocket(s) /\ ~BegunOnTLS(s)
  BY DEF BegunOnSocket, BegunOnTLS
<1>2. Settled(s) \/ Shaking(s)
  BY <1>1 DEF Accounted
<1> QED BY <1>2 DEF Settled, Shaking

\* The shape of a settled stream is that of its layers.
LEMMA SettledShape ==
    ASSUME NEW s \in Streams, Settled(s)
    PROVE  /\ LayerTypes(s) = <<>> => Bare(s)
           /\ LayerTypes(s) = <<"TLS">> => Single(s)
<1>1. Bare(s) \/ Single(s) \/ Double(s)
  BY DEF Settled
<1>2. LayerTypes(s) = <<>> => Bare(s)
  BY <1>1, TypesOf DEF Single, Double
<1>3. LayerTypes(s) = <<"TLS">> => Single(s)
  BY <1>1, TypesOf DEF Bare, Double
<1> QED BY <1>2, <1>3

\* A layer is put in place over one element, which is under way.
LEMMA LayerPut ==
    ASSUME NEW s \in Streams, Accurate(s), ~s.topInProgress, Len(s.out) = 1,
           NEW type \in {"TLS", "SASL"},
           Bare(s) \/ (Single(s) /\ LayerTypes(s) = <<"TLS">> /\ type = "SASL"),
           NEW top \in BOOLEAN, top = (type = "TLS")
    PROVE  \E t \in Streams :
              /\ t = [s EXCEPT !.layers = Append(@, NewLayer(type, CalcPrebytes(s))),
                               !.topInProgress = top]
              /\ Accounted(t) /\ LayerTypes(t) = Append(LayerTypes(s), type)
              /\ t.out = s.out /\ t.topInProgress = top
<1>1. PICK out \in Seq(Entries) : out = s.out /\ Len(out) = 1 /\ out[1] \in Entries
  BY StreamParts
<1>2. s.pending = out[1].plain /\ out[1].plain \in Nat
  <2>1. Numbers(out, "plain")
    BY <1>1, StreamParts
  <2>2. Total(out, "plain") = out[1].plain /\ out[1].plain \in Nat
    BY <2>1, <1>1, SumsOfOne
  <2> QED BY <2>2, <1>1 DEF Accurate
<1>3. CalcPrebytes(s) = out[1].plain
  <2>1. PICK layers : layers = s.layers
    OBVIOUS
  <2>2. Numbers(layers, "prebytes")
    <3>1. \A j \in 1 .. Len(layers) : layers[j].prebytes \in Nat
      BY <2>1, StreamParts DEF Layers
    <3> QED BY <3>1, <2>1, StreamParts DEF Numbers
  <2>3. Total(layers, "prebytes") = 0
    <3>1. CASE Bare(s)
      <4>1. Len(layers) = 0
        BY <3>1, <2>1 DEF Bare
      <4>2. Sums(layers, "prebytes")[0] = 0
        BY <2>2, SumsStep
      <4> QED BY <4>1, <4>2 DEF Total
    <3>2. CASE Single(s)
      <4>1. Len(layers) = 1 /\ layers[1].prebytes = 0
        BY <3>2, <2>1 DEF Single, Follows
      <4> QED BY <4>1, <2>2, SumsOfOne
    <3> QED BY <3>1, <3>2
  <2> QED BY <2>1, <2>3, <1>2 DEF CalcPrebytes
<1>4. PICK l : l = NewLayer(type, CalcPrebytes(s))
  OBVIOUS
<1>5. /\ l \in Layers /\ l.type = type /\ ~l.done /\ l.prebytes = out[1].plain
      /\ l.p = 0 /\ l.list = <<>>
  <2>1. l = [type |-> type, done |-> FALSE, prebytes |-> out[1].plain, p |-> 0, list |-> <<>>]
    BY <1>3, <1>4 DEF NewLayer
  <2>2. <<>> \in Seq(Tracked)
    OBVIOUS
  <2> QED BY <2>1, <2>2, <1>2 DEF Layers
<1>6. PICK old \in Seq(Layers) : old = s.layers
  BY StreamParts
<1>7. PICK ls \in Seq(Layers) : ls = Append(old, l)
  BY <1>5, AppendProperties
<1>8. PICK t : t = [s EXCEPT !.layers = Append(@, NewLayer(type, CalcPrebytes(s))),
                             !.topInProgress = top]
  OBVIOUS
<1>9. /\ t \in Streams /\ t.layers = ls /\ t.topInProgress = top /\ t.out = s.out
      /\ t.pending = s.pending /\ t.reported = s.reported /\ t.sent = s.sent
  <2>1. t = [s EXCEPT !.layers = ls, !.topInProgress = top]
    BY <1>4, <1>6, <1>7, <1>8
  <2> QED BY <2>1 DEF Streams
<1>10. Accurate(t)
  BY <1>9 DEF Accurate
<1>11. CASE Bare(s)
  <2>1. ls = <<l>> /\ Len(ls) = 1 /\ ls[1] = l /\ LayerTypes(s) = <<>>
    BY <1>6, <1>7, <1>11, TypesOf DEF Bare
  <2>2. LayerTypes(t) = <<type>>
    BY <2>1, <1>5, <1>9, TypesOf
  <2>3. out[1].plain = out[1].bytes /\ ~out[1].layered
    <3>1. 1 \in DOMAIN s.out
      BY StreamParts
    <3> QED BY <3>1, <1>1, <1>11 DEF Bare
  <2>4. BegunOnSocket(t)
    BY <2>1, <2>3, <1>1, <1>5, <1>9 DEF BegunOnSocket
  <2>5. LayerTypes(t) = Append(LayerTypes(s), type)
    BY <2>1, <2>2, AppendOne, Zenon
  <2>6. Accounted(t)
    BY <2>4, <1>9, <1>10 DEF Accounted
  <2> QED BY <2>5, <2>6, <1>8, <1>9
<1>12. CASE Single(s) /\ LayerTypes(s) = <<"TLS">> /\ type = "SASL"
  <2>1. Len(old) = 1 /\ Follows(old[1], out) /\ old[1].list[1].plain = out[1].plain
        /\ old[1].type = "TLS"
    <3>1. 1 \in DOMAIN s.out
      BY StreamParts
    <3> QED BY <3>1, <1>1, <1>6, <1>12, TypesOf DEF Single
  <2>2. Len(ls) = 2 /\ ls[1] = old[1] /\ ls[2] = l
    BY <2>1, <1>5, <1>7, AppendProperties
  <2>3. LayerTypes(t) = <<"TLS", "SASL">>
    <3>1. DOMAIN ls = 1 .. 2
      BY <2>2, LenProperties
    <3>2. LayerTypes(t) = [j \in 1 .. 2 |-> ls[j].type]
      BY <3>1, <1>9 DEF LayerTypes
    <3>3. \A j \in 1 .. 2 : ls[j].type = <<"TLS", "SASL">>[j]
      BY <2>1, <2>2, <1>5, <1>12
    <3>4. LayerTypes(t) = [j \in 1 .. 2 |-> <<"TLS", "SASL">>[j]]
      BY <3>2, <3>3, Zenon
    <3> QED BY <3>4
  <2>4. BegunOnTLS(t)
    BY <2>1, <2>2, <2>3, <1>1, <1>5, <1>9, <1>12 DEF BegunOnTLS
  <2>5. Append(LayerTypes(s), type) = <<"TLS", "SASL">>
    <3>1. Append(<<"TLS">>, "SASL") = <<"TLS", "SASL">>
      BY AppendTwo, Zenon
    <3> QED BY <3>1, <1>12, Zenon
  <2>6. Accounted(t)
    BY <2>4, <1>9, <1>10 DEF Accounted
  <2> QED BY <2>3, <2>5, <2>6, <1>8, <1>9
<1> QED BY <1>11, <1>12

\* TLS is put in place where there is nothing.
LEMMA StartTLSBegun ==
    ASSUME NEW s \in Streams, Accurate(s), ~s.topInProgress, Len(s.out) = 1, Bare(s)
    PROVE  \E t \in Streams :
              /\ t = StartTLS(s) /\ Accounted(t) /\ LayerTypes(t) = <<"TLS">>
              /\ t.out = s.out /\ t.topInProgress
<1>1. PICK t \in Streams :
          /\ t = [s EXCEPT !.layers = Append(@, NewLayer("TLS", CalcPrebytes(s))),
                           !.topInProgress = TRUE]
          /\ Accounted(t) /\ LayerTypes(t) = Append(LayerTypes(s), "TLS")
          /\ t.out = s.out /\ t.topInProgress = TRUE
  BY LayerPut
<1>2. LayerTypes(s) = <<>>
  BY TypesOf DEF Bare
<1>3. ~HasLayer(s, "TLS")
  BY <1>2 DEF HasLayer, ToSet
<1>4. t = StartTLS(s)
  BY <1>1, <1>3 DEF StartTLS
<1>5. LayerTypes(t) = <<"TLS">>
  BY <1>1, <1>2, AppendOne, Zenon
<1> QED BY <1>1, <1>4, <1>5

\* The SASL layer is put over nothing, or over TLS.
LEMMA SetLayerSASLBegun ==
    ASSUME NEW s \in Streams, Accurate(s), Settled(s), Len(s.out) = 1,
           LayerTypes(s) \in {<<>>, <<"TLS">>}
    PROVE  \E t \in Streams :
              /\ t = SetLayerSASL(s) /\ Accounted(t) /\ LayerTypes(t) = Append(LayerTypes(s), "SASL")
              /\ t.out = s.out /\ ~t.topInProgress
<1>1. ~s.topInProgress /\ (Bare(s) \/ (Single(s) /\ LayerTypes(s) = <<"TLS">>))
  BY SettledShape DEF Settled
<1>2. PICK t \in Streams :
          /\ t = [s EXCEPT !.layers = Append(@, NewLayer("SASL", CalcPrebytes(s))),
                           !.topInProgress = FALSE]
          /\ Accounted(t) /\ LayerTypes(t) = Append(LayerTypes(s), "SASL")
          /\ t.out = s.out /\ t.topInProgress = FALSE
  BY <1>1, LayerPut
<1>3. ~HasLayer(s, "SASL")
  BY DEF HasLayer, ToSet
<1>4. t = SetLayerSASL(s)
  <2>1. SetLayerSASL(s) = [s EXCEPT !.layers = Append(@, NewLayer("SASL", CalcPrebytes(s)))]
    BY <1>1, <1>3 DEF SetLayerSASL
  <2> QED BY <2>1, <1>1, <1>2 DEF Streams
<1> QED BY <1>2, <1>4

\* The server's part of the handshake.
LEMMA FlightFacts ==
    ASSUME NEW s \in Streams, Accurate(s), Shaking(s), s.out = <<>>, NEW last \in BOOLEAN,
           NEW item \in Items
    PROVE  \E t \in Streams :
              /\ t = TlsFlight(s, 1, last, item) /\ Accounted(t) /\ LayerTypes(t) = <<"TLS">>
              /\ Carried(t.out) = <<item>> /\ t.topInProgress = ~last
<1>1. PICK a \in Layers : a = s.layers[1] /\ Len(s.layers) = 1 /\ DOMAIN s.layers = 1 .. 1
  BY StreamParts DEF Shaking
<1>2. /\ a.type = "TLS" /\ ~a.done /\ a.prebytes = 0 /\ a.p = 0 /\ a.list = <<>>
      /\ s.topInProgress /\ s.pending = 0 /\ LayerTypes(s) = <<"TLS">>
  BY <1>1, TypesOf DEF Shaking
<1>3. PICK i \in Tracked : i = [plain |-> 0, encoded |-> 1]
  BY DEF Tracked
<1>4. PICK l \in Layers :
          /\ l = SpecifyEncoded([a EXCEPT !.done = TRUE], 1, 0)
          /\ l.type = "TLS" /\ l.done /\ l.prebytes = 0 /\ l.p = 0 /\ l.list = <<i>>
  <2>1. PICK b : b = [a EXCEPT !.done = TRUE]
    OBVIOUS
  <2>2. /\ b \in Layers /\ b.type = "TLS" /\ b.done /\ b.prebytes = 0 /\ b.p = 0 /\ b.list = <<>>
    BY <2>1, <1>2 DEF Layers
  <2>3. SpecifyEncoded(b, 1, 0) = [b EXCEPT !.p = @ - 0, !.list = Append(@, i)]
    BY <2>2, <1>3 DEF SpecifyEncoded
  <2>6. <<i>> \in Seq(Tracked) /\ Append(<<>>, i) = <<i>>
    OBVIOUS
  <2>4. PICK list \in Seq(Tracked) : list = <<i>>
    BY <2>6
  <2>5. SpecifyEncoded(b, 1, 0) = [b EXCEPT !.p = 0, !.list = list]
    BY <2>2, <2>3, <2>4, <2>6
  <2> QED BY <2>1, <2>2, <2>4, <2>5 DEF Layers
<1>5. PICK ls \in Seq(Layers) : ls = IF last THEN <<l>> ELSE s.layers
  <2>1. <<l>> \in Seq(Layers)
    OBVIOUS
  <2> QED BY <2>1, StreamParts
<1>6. /\ Len(ls) = 1 /\ ls[1].type = "TLS" /\ ls[1] \in Layers /\ DOMAIN ls = 1 .. 1
      /\ ls[1] = IF last THEN l ELSE a
  BY <1>1, <1>2, <1>4, <1>5
<1>7. PICK w : w = IF last THEN [s EXCEPT !.layers[1] = l, !.topInProgress = FALSE] ELSE s
  OBVIOUS
<1>8. /\ w \in Streams /\ w.layers = ls /\ w.topInProgress = ~last /\ w.out = <<>>
      /\ w.pending = 0 /\ w.reported = s.reported /\ w.sent = s.sent
  <2>1. CASE last
    <3>1. [s.layers EXCEPT ![1] = l] = <<l>>
      BY <1>1, StreamParts
    <3>2. w = [s EXCEPT !.layers = ls, !.topInProgress = FALSE]
      BY <3>1, <2>1, <1>5, <1>7
    <3> QED BY <3>2, <2>1, <1>2 DEF Streams
  <2>2. CASE ~last
    BY <2>2, <1>2, <1>5, <1>7
  <2> QED BY <2>1, <2>2
<1>9. Accurate(w)
  BY <1>2, <1>8 DEF Accurate
<1>10. TlsFlight(s, 1, last, item) = Put(w, 0, ls, 1, item)
  <2>1. [w EXCEPT !.pending = @ + 0, !.layers = ls] = w
    <3>1. [w EXCEPT !.pending = 0, !.layers = ls] = w
      BY <1>8 DEF Streams
    <3>2. w.pending + 0 = 0
      BY <1>8
    <3> QED BY <3>1, <3>2
  <2>2. TlsFlight(s, 1, last, item) = Raw(w, 1, 0, item)
    BY <1>1, <1>4, <1>7, Zenon DEF TlsFlight
  <2> QED BY <2>1, <2>2 DEF Put
<1>11. PICK t \in Streams, e \in Entries :
           /\ t = TlsFlight(s, 1, last, item)
           /\ Adds(w, 0, t, e, item) /\ Accurate(t) /\ t.layers = ls
           /\ e.bytes = 1 /\ e.layered
  <2>1. SameTypes(ls, w)
    BY <1>8 DEF SameTypes
  <2>2. Len(w.layers) # 0
    <3>1. Len(w.layers) = 1
      BY <1>6, <1>8, Zenon
    <3> QED BY <3>1
  <2>3. \E t \in Streams, e \in Entries :
           /\ t = Put(w, 0, ls, 1, item)
           /\ Adds(w, 0, t, e, item) /\ Accurate(t) /\ t.layers = ls
           /\ e.bytes = 1 /\ e.layered = (Len(w.layers) # 0)
    BY <2>1, <1>8, <1>9, RawFacts
  <2> QED BY <2>2, <2>3, <1>10
<1>12. /\ t.out = <<e>> /\ e.item = item /\ e.plain = 0 /\ t.topInProgress = ~last
       /\ Len(t.out) = 1 /\ t.out[1] = e /\ DOMAIN t.out = 1 .. 1
  <2>1. t.out = Append(w.out, e) /\ e.item = item /\ e.plain = 0
        /\ t.topInProgress = w.topInProgress
    BY <1>11 DEF Adds
  <2>2. t.out = <<e>>
    BY <2>1, <1>8, AppendOne, Zenon
  <2> QED BY <2>1, <2>2, <1>8
<1>13. LayerTypes(t) = <<"TLS">> /\ Carried(t.out) = <<item>>
  <2>1. LayerTypes(t) = <<"TLS">>
    BY <1>6, <1>11, TypesOf
  <2>2. Carried(t.out) = [j \in 1 .. 1 |-> t.out[j].item]
    BY <1>12 DEF Carried
  <2> QED BY <2>1, <2>2, <1>12
<1>14. CASE last
  <2>3. Len(l.list) = 1 /\ l.list[1].encoded = 1 /\ l.list[1].plain = 0
    <3>1. Len(<<i>>) = 1 /\ <<i>>[1] = i
      OBVIOUS
    <3>2. Len(l.list) = 1 /\ l.list[1] = i
      BY <3>1, <1>4, Zenon
    <3> QED BY <3>2, <1>3
  <2>4. \A k \in DOMAIN t.out : k = 1
    BY <1>12
  <2>5. l.list[1].encoded = t.out[1].bytes /\ t.out[1].layered /\ l.list[1].plain = t.out[1].plain
    BY <2>3, <1>11, <1>12
  <2>1. Follows(l, t.out)
    BY <2>3, <2>4, <2>5, <1>4, <1>12 DEF Follows, Own
  <2>2. Single(t)
    <3>1. Len(t.layers) = 1 /\ t.layers[1] = l
      BY <1>6, <1>11, <1>14
    <3> QED BY <3>1, <2>1, <2>4, <2>5 DEF Single
  <2> QED BY <2>2, <1>11, <1>12, <1>13, <1>14 DEF Accounted, Settled
<1>15. CASE ~last
  <2>1. t.pending = 0
    <3>1. Numbers(t.out, "plain")
      BY StreamParts
    <3>2. Total(t.out, "plain") = t.out[1].plain
      BY <3>1, <1>12, SumsOfOne
    <3> QED BY <3>2, <1>11, <1>12 DEF Accurate
  <2>3. t.topInProgress /\ LayerTypes(t) = <<"TLS">>
    BY <1>12, <1>13, <1>15
  <2>4. Len(t.layers) = 1 /\ t.layers[1] = a
    BY <1>6, <1>11, <1>15
  <2>5. \A k \in DOMAIN t.out : t.out[k].layered
    BY <1>11, <1>12
  <2>2. Shaking(t)
    BY <2>1, <2>3, <2>4, <2>5, <1>2 DEF Shaking
  <2> QED BY <2>2, <1>11, <1>12, <1>13 DEF Accounted
<1> QED BY <1>14, <1>15

\* The stream of a port that starts with TLS, and of one that does not.
LEMMA IdleFacts ==
    /\ Idle \in Streams /\ Accounted(Idle) /\ LayerTypes(Idle) = <<>> /\ ~Idle.topInProgress
    /\ Idle.out = <<>>
    /\ StartTLS(Idle) \in Streams /\ Accounted(StartTLS(Idle)) /\ StartTLS(Idle).topInProgress
    /\ LayerTypes(StartTLS(Idle)) = <<"TLS">> /\ StartTLS(Idle).out = <<>>
<1>1. /\ Idle.layers = <<>> /\ Idle.pending = 0 /\ Idle.topInProgress = FALSE
      /\ Idle.reported = 0 /\ Idle.out = <<>> /\ Idle.sent = 0 /\ Idle \in Streams
  <2>1. <<>> \in Seq(Layers) /\ <<>> \in Seq(Entries)
    OBVIOUS
  <2> QED BY <2>1 DEF Idle, Streams
<1>2. Accurate(Idle) /\ Total(<<>>, "prebytes") = 0
  <2>1. Len(<<>>) = 0
    OBVIOUS
  <2>2. Numbers(<<>>, "plain") /\ Numbers(<<>>, "prebytes")
    BY <2>1 DEF Numbers
  <2>3. Total(<<>>, "plain") = 0 /\ Total(<<>>, "prebytes") = 0
    BY <2>1, <2>2, SumsStep DEF Total
  <2> QED BY <2>3, <1>1 DEF Accurate
<1>3. LayerTypes(Idle) = <<>>
  BY <1>1, TypesOf
<1>4. Settled(Idle)
  BY <1>1 DEF Settled, Bare
<1>5. PICK l \in Layers : l = NewLayer("TLS", 0)
  <2>1. <<>> \in Seq(Tracked)
    OBVIOUS
  <2> QED BY <2>1 DEF NewLayer, Layers
<1>6. l.type = "TLS" /\ ~l.done /\ l.prebytes = 0 /\ l.p = 0 /\ l.list = <<>>
  BY <1>5 DEF NewLayer
<1>7. PICK t : t = StartTLS(Idle)
  OBVIOUS
<1>8. t = [Idle EXCEPT !.layers = <<l>>, !.topInProgress = TRUE]
  <2>1. ~HasLayer(Idle, "TLS")
    BY <1>3 DEF HasLayer, ToSet
  <2>2. CalcPrebytes(Idle) = 0
    BY <1>1, <1>2 DEF CalcPrebytes
  <2>3. t = [Idle EXCEPT !.layers = Append(@, l), !.topInProgress = TRUE]
    BY <2>1, <2>2, <1>1, <1>5, <1>7 DEF StartTLS
  <2>4. Append(Idle.layers, l) = <<l>>
    BY <1>1
  <2> QED BY <2>3, <2>4
<1>9. /\ t \in Streams /\ t.layers = <<l>> /\ t.topInProgress /\ t.out = <<>> /\ t.pending = 0
      /\ t.reported = 0 /\ t.sent = 0
  <2>1. <<l>> \in Seq(Layers)
    OBVIOUS
  <2> QED BY <2>1, <1>1, <1>8 DEF Streams
<1>10. Accurate(t)
  BY <1>1, <1>2, <1>9 DEF Accurate
<1>11. LayerTypes(t) = <<"TLS">>
  <2>1. Len(t.layers) = 1 /\ t.layers[1].type = "TLS"
    BY <1>6, <1>9
  <2> QED BY <2>1, <1>9, TypesOf
<1>12. Shaking(t)
  BY <1>6, <1>9, <1>11 DEF Shaking
<1> QED BY <1>1, <1>2, <1>3, <1>4, <1>7, <1>9, <1>10, <1>11, <1>12 DEF Accounted

-----------------------------------------------------------------------------
(***************************************************************************)
(* The phases of a login                                                   *)
(***************************************************************************)
\* What is on its way to the client.
Coming == down \o Carried(ss.out)

\* It is the server's turn, which reads kind under the layers of both.
Asked(kind) ==
    /\ up = <<Item(kind, client.layers)>> /\ Coming = <<>>
    /\ LayerTypes(ss) = client.layers

\* It is the client's turn, which hears these.
Told(names) ==
    /\ up = <<>> /\ Len(Coming) = Len(names)
    /\ \A k \in DOMAIN names : Coming[k].kind.name = names[k] /\ Coming[k].layers = client.layers

Same == LayerTypes(ss) = client.layers /\ ~ss.topInProgress

Begins ==
    /\ client.waits = "start" /\ client.layers = <<>>
    /\ up = <<>> /\ Coming = <<>>
    /\ LayerTypes(ss) = IF stream.sslnow THEN <<"TLS">> ELSE <<>>
    /\ ss.topInProgress = stream.sslnow
    /\ proto.step = IF stream.sslnow THEN "Closed" ELSE "RecvOpen"

Opens ==
    /\ client.waits = "open" /\ Same
    /\ \/ Asked(Opening) /\ proto.step = "RecvOpen"
       \/ client.old /\ Told(<<"open">>) /\ proto.step = "GetAuthRequest" /\ proto.old
       \/ /\ ~client.old /\ Told(<<"open", "features">>) /\ proto.step = "GetRequest"
          /\ Coming[2].kind.features = Offered(proto)

Chooses ==
    /\ client.waits = "features" /\ Same
    /\ ~client.old /\ Told(<<"features">>) /\ proto.step = "GetRequest"
    /\ Coming[1].kind.features = Offered(proto)

Secures ==
    \/ /\ client.waits = "proceed" /\ client.layers = <<>> /\ ~client.old
       /\ \/ Asked("starttls") /\ proto.step = "GetRequest" /\ ~ss.topInProgress
          \/ /\ Told(<<"proceed">>) /\ LayerTypes(ss) = <<"TLS">> /\ ss.topInProgress
             /\ proto.step = "RecvOpen"
    \/ /\ client.waits \in {"hello", "finished"} /\ client.layers = <<"TLS">>
       /\ LayerTypes(ss) = <<"TLS">>
       /\ proto.step = IF stream.sslnow THEN "Closed" ELSE "RecvOpen"
       /\ ss.topInProgress
       /\ \/ Asked(client.waits)
          \/ client.waits = "hello" /\ Told(<<"hello">>)
    \/ /\ client.waits = "finished" /\ client.layers = <<"TLS">>
       /\ Same /\ Told(<<"finished">>) /\ proto.step = "RecvOpen"

Authenticates ==
    /\ client.waits = "sasl" /\ ~client.old /\ ~ss.topInProgress
    /\ \/ Asked("auth") /\ proto.step = "GetRequest" /\ ~proto.sasl_authed
       \/ /\ client.mech = "challenges" /\ ~proto.sasl_authed
          /\ proto.step = "GetSASLResponse" /\ Same
          /\ Asked("response") \/ Told(<<"challenge">>)
       \/ /\ Told(<<"success">>) /\ proto.step = "RecvOpen" /\ proto.sasl_authed
          /\ LayerTypes(ss) = Append(client.layers, "SASL")

Finishes ==
    /\ Same
    /\ \/ /\ client.waits = "auth_fields" /\ client.old /\ proto.old
          /\ proto.step = "GetAuthRequest"
          /\ Asked("auth_get") \/ Told(<<"auth_fields">>)
       \/ /\ client.waits = "bound" /\ client.old /\ proto.old
          /\ proto.step = "GetAuthRequest" /\ Asked("auth_set")
       \/ /\ client.waits = "bound" /\ ~client.old /\ proto.step = "GetRequest"
          /\ proto.sasl_authed /\ Asked("bind")

\* The session is announced; stanzas follow.
Online ==
    /\ proto.step = "Done" /\ Same /\ Settled(ss)
    /\ up = <<>>
    /\ \A k \in DOMAIN Coming :
          /\ Coming[k].layers = client.layers
          /\ Coming[k].kind.name = IF k = 1 /\ client.waits = "bound" THEN "bound" ELSE "stanza"
    /\ \/ client.waits = "bound" /\ Coming # <<>>
       \/ client.waits = "nothing"
    /\ stream.jid = IF client.old \/ client.mech = "challenges" THEN "user" ELSE "none"
    /\ proto.old = client.old

Ended == up = <<>> /\ down = <<>> /\ client.waits # "start"

\* What the protocol knows of the user.
UserKnown ==
    /\ proto.old => client.old
    /\ "SASL" \in ToSet(LayerTypes(ss)) => proto.sasl_authed
    /\ proto.sasl_authed => ~client.old
    /\ stream.sslnow /\ client.waits # "start" => "TLS" \in ToSet(client.layers)
    /\ ~client.old /\ client.mech = "one_step" => proto.user = "none"
    /\ proto.sasl_authed /\ client.mech = "challenges" => proto.user = "user"

Protos == [step : {"Closed", "RecvOpen", "GetRequest", "GetSASLResponse", "GetAuthRequest",
                   "Done", "reset"},
           old : BOOLEAN, tls_started : BOOLEAN, sasl_started : BOOLEAN,
           sasl_authed : BOOLEAN, user : {"none", "user"}]

Conns == [state : {"Idle", "Active", "reset", "crashed"}, tls : BOOLEAN,
          sslnow : BOOLEAN, jid : {"none", "user"}]

Clients == [waits : {"start", "open", "features", "proceed", "hello", "finished", "sasl",
                     "auth_fields", "bound", "nothing"},
            layers : Stacks, old : BOOLEAN, starttls : BOOLEAN,
            mech : {"one_step", "challenges"}, password : BOOLEAN]

LoginTypes ==
    /\ down \in Seq(Items)
    /\ proto \in Protos /\ stream \in Conns /\ client \in Clients
    /\ challenges \in 0 .. MaxChallenges /\ stanzas \in 0 .. MaxStanzas

LoginInv ==
    /\ LoginTypes
    /\ Accounted(ss)
    /\ stream.state = "Idle" =>
          UserKnown /\ (Begins \/ Opens \/ Chooses \/ Secures \/ Authenticates \/ Finishes)
    /\ stream.state = "Active" => Online
    /\ stream.state \notin {"Idle", "Active"} => Ended

-----------------------------------------------------------------------------
\* The layers of a stream are one of the four stacks.
LEMMA StackTypes ==
    ASSUME NEW s, Accounted(s)
    PROVE  LayerTypes(s) \in Stacks
<1>1. s \in Streams
  BY DEF Accounted
<1>2. Len(s.layers) = 1 => LayerTypes(s) \in Stacks
  <2> SUFFICES ASSUME Len(s.layers) = 1 PROVE LayerTypes(s) \in Stacks
    OBVIOUS
  <2>1. s.layers[1] \in Layers
    BY <1>1, StreamParts
  <2>2. s.layers[1].type \in {"TLS", "SASL"}
    BY <2>1 DEF Layers
  <2>3. LayerTypes(s) = <<s.layers[1].type>>
    BY <1>1, TypesOf
  <2> QED BY <2>2, <2>3 DEF Stacks
<1>3. CASE Settled(s)
  BY <1>1, <1>2, <1>3, TypesOf DEF Settled, Bare, Single, Double, Stacks
<1>4. CASE Shaking(s)
  BY <1>2, <1>4 DEF Shaking
<1>5. CASE BegunOnSocket(s)
  BY <1>2, <1>5 DEF BegunOnSocket
<1>6. CASE BegunOnTLS(s)
  BY <1>6 DEF BegunOnTLS, Stacks
<1> QED BY <1>3, <1>4, <1>5, <1>6 DEF Accounted

\* Nothing comes if nothing is in the buffer or past it.
LEMMA CarriedFacts ==
    ASSUME NEW out \in Seq(Entries)
    PROVE  /\ Carried(out) \in Seq(Items) /\ Len(Carried(out)) = Len(out)
           /\ <<>> \o Carried(out) = Carried(out)
           /\ Carried(out) = <<>> => out = <<>>
           /\ out = <<>> => Carried(out) = <<>>
<1>1. PICK m \in Nat : m = Len(out) /\ DOMAIN out = 1 .. m
  BY LenProperties
<1>2. \A j \in 1 .. m : out[j].item \in Items
  <2>1. \A j \in 1 .. m : out[j] \in Entries
    BY <1>1, ElementOfSeq
  <2> QED BY <2>1 DEF Entries
<1>3. Carried(out) = [j \in 1 .. m |-> out[j].item]
  BY <1>1 DEF Carried
<1>4. Carried(out) \in Seq(Items) /\ Len(Carried(out)) = m
  BY <1>2, <1>3
<1>5. Carried(out) = <<>> => out = <<>>
  <2> SUFFICES ASSUME Carried(out) = <<>> PROVE out = <<>>
    OBVIOUS
  <2>1. m = 0
    BY <1>4
  <2> QED BY <2>1, <1>1, EmptySeq
<1>6. out = <<>> => Carried(out) = <<>>
  <2> SUFFICES ASSUME out = <<>> PROVE Carried(out) = <<>>
    OBVIOUS
  <2>1. Len(out) = 0
    OBVIOUS
  <2> QED BY <2>1, <1>1, <1>4, EmptySeq
<1>7. <<>> \o Carried(out) = Carried(out)
  BY <1>4, ConcatEmptySeq
<1> QED BY <1>1, <1>4, <1>5, <1>6, <1>7

\* What comes is what is past the buffer and then what is in it.
LEMMA ComingFacts ==
    ASSUME NEW d \in Seq(Items), NEW out \in Seq(Entries)
    PROVE  /\ d \o Carried(out) \in Seq(Items)
           /\ d \o Carried(out) = <<>> => d = <<>> /\ out = <<>>
           /\ d # <<>> => /\ d \o Carried(out) # <<>>
                          /\ Head(d) = (d \o Carried(out))[1] /\ Head(d) \in Items
                          /\ Tail(d) \o Carried(out) = Tail(d \o Carried(out))
                          /\ Tail(d) \in Seq(Items)
<1>1. PICK c \in Seq(Items) : c = Carried(out) /\ Len(c) = Len(out) /\ (c = <<>> => out = <<>>)
  BY CarriedFacts
<1>2. /\ d \o c \in Seq(Items) /\ Len(d \o c) = Len(d) + Len(c)
      /\ \A j \in 1 .. Len(d) + Len(c) : (d \o c)[j] = IF j <= Len(d) THEN d[j] ELSE c[j - Len(d)]
      /\ Len(d) \in Nat /\ Len(c) \in Nat
  BY ConcatProperties, LenProperties
<1>3. d \o c = <<>> => d = <<>> /\ c = <<>>
  <2> SUFFICES ASSUME d \o c = <<>> PROVE d = <<>> /\ c = <<>>
    OBVIOUS
  <2>1. Len(d \o c) = 0
    OBVIOUS
  <2>2. Len(d) = 0 /\ Len(c) = 0
    BY <2>1, <1>2
  <2> QED BY <2>2, EmptySeq
<1>4. ASSUME d # <<>>
      PROVE  /\ d \o c # <<>> /\ Head(d) = (d \o c)[1] /\ Head(d) \in Items
             /\ Tail(d) \o c = Tail(d \o c) /\ Tail(d) \in Seq(Items)
  <2>1. Len(d) >= 1
    BY <1>2, <1>4, EmptySeq
  <2>2. d \o c # <<>>
    BY <1>3, <1>4
  <2>3. Head(d) = d[1] /\ Head(d) \in Items
    BY <1>4, <2>1
  <2>4. Head(d) = (d \o c)[1]
    BY <2>1, <2>3, <1>2
  <2>5. PICK t \in Seq(Items) : t = Tail(d) /\ Len(t) = Len(d) - 1
                                /\ \A j \in 1 .. Len(d) - 1 : t[j] = d[j + 1]
    <3> DEFINE t == Tail(d)
    <3>1. t \in Seq(Items) /\ Len(t) = Len(d) - 1
      BY <1>4, HeadTailProperties
    <3>2. \A j \in 1 .. Len(t) : t[j] = d[j + 1]
      BY <1>4, HeadTailProperties
    <3> HIDE DEF t
    <3>3. \A j \in 1 .. Len(d) - 1 : t[j] = d[j + 1]
      BY <3>1, <3>2
    <3> QED BY <3>1, <3>3 DEF t
  <2>6. PICK u \in Seq(Items) :
            /\ u = Tail(d \o c) /\ Len(u) = Len(d) + Len(c) - 1
            /\ \A j \in 1 .. Len(d) + Len(c) - 1 : u[j] = (d \o c)[j + 1]
    <3> DEFINE w == d \o c
               u == Tail(w)
    <3>1. w \in Seq(Items) /\ w # <<>> /\ Len(w) = Len(d) + Len(c)
      BY <2>2, <1>2
    <3> HIDE DEF w
    <3>2. u \in Seq(Items) /\ Len(u) = Len(w) - 1
      BY <3>1, HeadTailProperties
    <3>3. \A j \in 1 .. Len(u) : u[j] = w[j + 1]
      BY <3>1, HeadTailProperties
    <3> HIDE DEF u
    <3>4. Len(u) = Len(d) + Len(c) - 1
      BY <3>1, <3>2
    <3>5. \A j \in 1 .. Len(d) + Len(c) - 1 : u[j] = w[j + 1]
      BY <3>3, <3>4
    <3>6. \E v \in Seq(Items) : v = Tail(w) /\ Len(v) = Len(d) + Len(c) - 1
                                /\ \A j \in 1 .. Len(d) + Len(c) - 1 : v[j] = w[j + 1]
      BY <3>2, <3>4, <3>5 DEF u
    <3> QED BY <3>6 DEF w
  <2>7. /\ t \o c \in Seq(Items) /\ Len(t \o c) = Len(d) - 1 + Len(c)
        /\ \A j \in 1 .. Len(d) - 1 + Len(c) :
              (t \o c)[j] = IF j <= Len(d) - 1 THEN t[j] ELSE c[j - (Len(d) - 1)]
    BY <2>5, <1>2, ConcatProperties
  <2>8. \A j \in 1 .. Len(u) : (t \o c)[j] = u[j]
    <3> TAKE j \in 1 .. Len(u)
    <3>1. j + 1 \in 1 .. Len(d) + Len(c) /\ j \in 1 .. Len(d) - 1 + Len(c) /\ j \in Nat
      BY <2>6, <1>2
    <3>2. u[j] = IF j + 1 <= Len(d) THEN d[j + 1] ELSE c[j + 1 - Len(d)]
      BY <3>1, <2>6, <1>2
    <3>3. CASE j + 1 <= Len(d)
      <4>1. j \in 1 .. Len(d) - 1 /\ j <= Len(d) - 1
        BY <3>1, <3>3, <1>2
      <4> QED BY <4>1, <3>1, <3>2, <3>3, <2>5, <2>7
    <3>4. CASE ~(j + 1 <= Len(d))
      <4>1. j - (Len(d) - 1) = j + 1 - Len(d) /\ ~(j <= Len(d) - 1)
        BY <3>1, <3>4, <1>2
      <4> QED BY <4>1, <3>1, <3>2, <3>4, <2>7
    <3> QED BY <3>3, <3>4
  <2>9. Len(t \o c) = Len(u)
    BY <2>6, <2>7, <1>2
  <2>10. t \o c = u
    BY <2>6, <2>7, <2>8, <2>9, SeqEqual
  <2> QED BY <2>2, <2>3, <2>4, <2>5, <2>6, <2>10
<1> QED BY <1>1, <1>2, <1>3, <1>4

\* What has left the buffer is a sequence of items.
LEMMA DrainedType ==
    ASSUME NEW s \in Streams, NEW n \in Nat
    PROVE  Drained(s.out, n).items \in Seq(Items)
<1>1. PICK k \in 0 .. Len(s.out) : k = Covered(s.out, "bytes", n)
  BY StreamParts, CoveredFound
<1>2. Drained(s.out, n).items = [j \in 1 .. k |-> s.out[j].item]
  BY <1>1 DEF Drained
<1>3. k \in Nat /\ \A j \in 1 .. k : s.out[j].item \in Items
  <2>1. \A j \in 1 .. k : j \in 1 .. Len(s.out)
    BY StreamParts
  <2> QED BY <2>1, StreamParts DEF Entries
<1> QED BY <1>2, <1>3

\* Wrote(s, name, features, r): r is s after an element is written.
Wrote(s, name, features, r) ==
    /\ r = Written(s, name, features)
    /\ r \in Streams /\ Accounted(r) /\ Settled(r) /\ ~r.topInProgress
    /\ LayerTypes(r) = LayerTypes(s)
    /\ Len(r.out) = Len(s.out) + 1
    /\ Carried(r.out) = Append(Carried(s.out),
                               Item([name |-> name, features |-> features], LayerTypes(s)))

\* An element is written to a settled stream, which stays settled.
LEMMA WrittenFacts ==
    ASSUME NEW s, Accounted(s), Settled(s), NEW name \in Answers, NEW features \in FeatureSets
    PROVE  \E r : Wrote(s, name, features, r)
<1>1. s \in Streams /\ Accurate(s)
  BY DEF Accounted
<1>2. PICK item \in Items :
          item = Item([name |-> name, features |-> features], LayerTypes(s))
  BY StackTypes DEF Item, Items
<1>3. ElementBytes \in Nat \ {0}
  BY ElementAssumption
<1>4. PICK r \in Streams, e \in Entries :
          r = SSWrite(s, ElementBytes, item) /\ Adds(s, ElementBytes, r, e, item)
          /\ Accurate(r) /\ Settled(r)
  BY <1>1, <1>2, <1>3, SSWriteSettled
<1>5. r = Written(s, name, features)
  BY <1>2, <1>4 DEF Written
<1>6. /\ r.out = Append(s.out, e) /\ e.item = item /\ LayerTypes(r) = LayerTypes(s)
  BY <1>4 DEF Adds
<1>7. Carried(r.out) = Append(Carried(s.out), item) /\ Len(r.out) = Len(s.out) + 1
  <2>1. PICK out \in Seq(Entries) : out = s.out
    BY <1>1, StreamParts
  <2>2. Carried(Append(out, e)) = Append(Carried(out), e.item)
    BY <2>1, CarriedAppend
  <2>3. Len(Append(out, e)) = Len(out) + 1
    BY <2>1, AppendProperties
  <2> QED BY <2>1, <2>2, <2>3, <1>6
<1>8. Accounted(r) /\ ~r.topInProgress
  BY <1>4 DEF Accounted, Settled
<1> QED BY <1>2, <1>4, <1>5, <1>6, <1>7, <1>8 DEF Wrote

\* The features that are offered, and none.
LEMMA FeatureTypes ==
    ASSUME NEW p, p.tls_started \in BOOLEAN, p.sasl_authed \in BOOLEAN
    PROVE  /\ Offered(p) \in FeatureSets
           /\ Offered(p).tls = (~p.tls_started /\ ~p.sasl_authed)
           /\ Offered(p).mechs = ~p.sasl_authed /\ Offered(p).bind = p.sasl_authed
BY DEF Offered, Features, FeatureSets

\* So is offering nothing.
LEMMA NoFeatureTypes == NoFeatures \in FeatureSets
BY DEF NoFeatures, Features, FeatureSets

\* Only(r, name, features, layers): the buffer of r carries this element alone.
Only(r, name, features, layers) ==
    Carried(r.out) = <<Item([name |-> name, features |-> features], layers)>>

\* One element is written where there was nothing.
LEMMA WrittenAlone ==
    ASSUME NEW s, Accounted(s), ~s.topInProgress, s.out = <<>>,
           NEW name \in Answers, NEW features \in FeatureSets
    PROVE  \E r : Wrote(s, name, features, r) /\ Only(r, name, features, LayerTypes(s))
                  /\ Len(r.out) = 1
<1>1. Settled(s)
  BY AccountedEmpty
<1>2. PICK r : Wrote(s, name, features, r)
  BY <1>1, WrittenFacts
<1>3. Carried(s.out) = <<>> /\ Len(s.out) = 0
  <2>1. <<>> \in Seq(Entries)
    OBVIOUS
  <2>2. Carried(<<>>) = <<>>
    BY <2>1, CarriedFacts
  <2> QED BY <2>2
<1>4. Only(r, name, features, LayerTypes(s))
  <2>1. PICK item : item = Item([name |-> name, features |-> features], LayerTypes(s))
    OBVIOUS
  <2>2. Carried(r.out) = Append(Carried(s.out), item)
    BY <1>2, <2>1 DEF Wrote
  <2>3. Carried(r.out) = <<item>>
    BY <2>2, <1>3, AppendOne, Zenon
  <2> QED BY <2>1, <2>3 DEF Only
<1>5. Len(r.out) = 1
  BY <1>2, <1>3 DEF Wrote
<1> QED BY <1>2, <1>4, <1>5

\* The same, and TLS is put in place.
LEMMA ProceedFacts ==
    ASSUME NEW s, Accounted(s), ~s.topInProgress, s.out = <<>>, LayerTypes(s) = <<>>
    PROVE  \E t : /\ t = StartTLS(Written(s, "proceed", NoFeatures)) /\ Accounted(t)
                  /\ Only(t, "proceed", NoFeatures, <<>>)
                  /\ LayerTypes(t) = <<"TLS">> /\ t.topInProgress
<1>1. "proceed" \in Answers /\ NoFeatures \in FeatureSets
  BY NoFeatureTypes DEF Answers
<1>2. PICK r : Wrote(s, "proceed", NoFeatures, r) /\ Only(r, "proceed", NoFeatures, LayerTypes(s))
               /\ Len(r.out) = 1
  BY <1>1, WrittenAlone
<1>3. /\ r = Written(s, "proceed", NoFeatures) /\ r \in Streams /\ Accurate(r) /\ Settled(r)
      /\ ~r.topInProgress /\ LayerTypes(r) = <<>>
  BY <1>2 DEF Wrote, Accounted
<1>4. Bare(r)
  BY <1>3, SettledShape
<1>5. PICK t \in Streams :
          /\ t = StartTLS(r) /\ Accounted(t) /\ LayerTypes(t) = <<"TLS">>
          /\ t.out = r.out /\ t.topInProgress
  BY <1>2, <1>3, <1>4, StartTLSBegun
<1>6. Only(t, "proceed", NoFeatures, <<>>)
  BY <1>2, <1>5 DEF Only
<1> QED BY <1>3, <1>5, <1>6

\* The same with <success/> and the layer of SASL.
LEMMA SuccessFacts ==
    ASSUME NEW s, Accounted(s), ~s.topInProgress, s.out = <<>>,
           LayerTypes(s) \in {<<>>, <<"TLS">>}
    PROVE  \E t : /\ t = SetLayerSASL(Written(s, "success", NoFeatures)) /\ Accounted(t)
                  /\ Only(t, "success", NoFeatures, LayerTypes(s))
                  /\ LayerTypes(t) = Append(LayerTypes(s), "SASL") /\ ~t.topInProgress
<1>1. "success" \in Answers /\ NoFeatures \in FeatureSets
  BY NoFeatureTypes DEF Answers
<1>2. PICK r : Wrote(s, "success", NoFeatures, r) /\ Only(r, "success", NoFeatures, LayerTypes(s))
               /\ Len(r.out) = 1
  BY <1>1, WrittenAlone
<1>3. /\ r = Written(s, "success", NoFeatures) /\ r \in Streams /\ Accurate(r) /\ Settled(r)
      /\ LayerTypes(r) = LayerTypes(s)
  BY <1>2 DEF Wrote, Accounted
<1>4. PICK t \in Streams :
          /\ t = SetLayerSASL(r) /\ Accounted(t) /\ LayerTypes(t) = Append(LayerTypes(r), "SASL")
          /\ t.out = r.out /\ ~t.topInProgress
  BY <1>2, <1>3, SetLayerSASLBegun
<1>5. Only(t, "success", NoFeatures, LayerTypes(s))
  BY <1>2, <1>4 DEF Only
<1> QED BY <1>3, <1>4, <1>5

\* The header and the features after it.
LEMMA OpenedFacts ==
    ASSUME NEW s, Accounted(s), ~s.topInProgress, s.out = <<>>, NEW features \in FeatureSets
    PROVE  \E h, t : /\ h = Written(s, "open", NoFeatures) /\ Accounted(h) /\ ~h.topInProgress
                     /\ LayerTypes(h) = LayerTypes(s) /\ Only(h, "open", NoFeatures, LayerTypes(s))
                     /\ t = Written(h, "features", features) /\ Accounted(t) /\ ~t.topInProgress
                     /\ LayerTypes(t) = LayerTypes(s)
                     /\ Carried(t.out) =
                           <<Item([name |-> "open", features |-> NoFeatures], LayerTypes(s)),
                             Item([name |-> "features", features |-> features], LayerTypes(s))>>
<1>1. "open" \in Answers /\ "features" \in Answers /\ NoFeatures \in FeatureSets
  BY NoFeatureTypes DEF Answers
<1>2. PICK h : Wrote(s, "open", NoFeatures, h) /\ Only(h, "open", NoFeatures, LayerTypes(s))
  BY <1>1, WrittenAlone
<1>3. /\ h = Written(s, "open", NoFeatures) /\ Accounted(h) /\ Settled(h) /\ ~h.topInProgress
      /\ LayerTypes(h) = LayerTypes(s)
  BY <1>2 DEF Wrote
<1>4. PICK t : Wrote(h, "features", features, t)
  BY <1>1, <1>3, WrittenFacts
<1>5. /\ t = Written(h, "features", features) /\ Accounted(t) /\ ~t.topInProgress
      /\ LayerTypes(t) = LayerTypes(s)
  BY <1>3, <1>4 DEF Wrote
<1>6. PICK i : i = Item([name |-> "open", features |-> NoFeatures], LayerTypes(s))
  OBVIOUS
<1>7. PICK j : j = Item([name |-> "features", features |-> features], LayerTypes(s))
  OBVIOUS
<1>8. Carried(h.out) = <<i>>
  BY <1>2, <1>6 DEF Only
<1>9. Carried(t.out) = Append(Carried(h.out), j)
  BY <1>3, <1>4, <1>7 DEF Wrote
<1>10. Carried(t.out) = <<i, j>>
  BY <1>8, <1>9, AppendTwo, Zenon
<1> QED BY <1>2, <1>3, <1>5, <1>6, <1>7, <1>10

-----------------------------------------------------------------------------
\* Turn(kind): the server has read kind, and nothing else is on its way.
Turn(kind) ==
    /\ up = <<Item(kind, client.layers)>> /\ up' = <<>> /\ down = <<>> /\ ss.out = <<>>
    /\ LayerTypes(ss) = client.layers /\ client.layers \in Stacks
    /\ stream.state = "Idle" /\ UserKnown

\* What it reads is what was asked.
LEMMA AskedTurn ==
    ASSUME LoginInv, stream.state = "Idle", NEW kind, NEW asked, Asked(asked), Reads(kind)
    PROVE  kind = asked /\ Turn(kind)
<1>1. down \in Seq(Items) /\ ss.out \in Seq(Entries) /\ client.layers \in Stacks
  BY StreamParts DEF LoginInv, LoginTypes, Protos, Conns, Clients, Accounted
<1>2. down = <<>> /\ ss.out = <<>>
  BY <1>1, ComingFacts DEF Asked, Coming
<1>3. PICK i : i = Item(asked, client.layers)
  OBVIOUS
<1>4. up = <<i>> /\ i.kind = asked
  BY <1>3 DEF Asked, Item
<1>5. Head(up) = i /\ Tail(up) = <<>>
  BY <1>4
<1>6. kind = asked /\ up' = <<>>
  BY <1>4, <1>5 DEF Reads
<1> QED BY <1>1, <1>2, <1>3, <1>4, <1>6 DEF Turn, LoginInv, Asked

\* What each request finds.
AtOpen(kind) == kind = Opening /\ client.waits = "open" /\ proto.step = "RecvOpen" /\ ~ss.topInProgress

AtStartTLS(kind) ==
    /\ kind = "starttls" /\ client.waits = "proceed" /\ client.layers = <<>> /\ ~client.old
    /\ proto.step = "GetRequest" /\ ~ss.topInProgress

AtHandshake(kind) ==
    /\ kind \in {"hello", "finished"} /\ client.waits = kind /\ client.layers = <<"TLS">>
    /\ proto.step = (IF stream.sslnow THEN "Closed" ELSE "RecvOpen") /\ ss.topInProgress

AtAuth(kind) ==
    /\ kind = "auth" /\ client.waits = "sasl" /\ ~client.old /\ ~ss.topInProgress
    /\ proto.step = "GetRequest" /\ ~proto.sasl_authed

AtResponse(kind) ==
    /\ kind = "response" /\ client.waits = "sasl" /\ ~client.old /\ ~ss.topInProgress
    /\ client.mech = "challenges" /\ proto.step = "GetSASLResponse" /\ ~proto.sasl_authed

AtAuthGet(kind) ==
    /\ kind = "auth_get" /\ client.waits = "auth_fields" /\ client.old /\ proto.old
    /\ proto.step = "GetAuthRequest" /\ ~ss.topInProgress

AtAuthSet(kind) ==
    /\ kind = "auth_set" /\ client.waits = "bound" /\ client.old /\ proto.old
    /\ proto.step = "GetAuthRequest" /\ ~ss.topInProgress

AtBind(kind) ==
    /\ kind = "bind" /\ client.waits = "bound" /\ ~client.old
    /\ proto.step = "GetRequest" /\ proto.sasl_authed /\ ~ss.topInProgress

\* A request is one of these, and it is its turn.
LEMMA Hears ==
    ASSUME LoginInv, NEW kind, Reads(kind)
    PROVE  /\ Turn(kind)
           /\ \/ AtOpen(kind) \/ AtStartTLS(kind) \/ AtHandshake(kind) \/ AtAuth(kind)
              \/ AtResponse(kind) \/ AtAuthGet(kind) \/ AtAuthSet(kind) \/ AtBind(kind)
<1>1. up # <<>> /\ stream.state \notin {"reset", "crashed"}
  BY DEF Reads
<1>2. stream.state = "Idle"
  <2>1. stream.state \in {"Idle", "Active", "reset", "crashed"}
    BY DEF LoginInv, LoginTypes, Protos, Conns, Clients
  <2>2. stream.state # "Active"
    BY <1>1 DEF LoginInv, Online
  <2> QED BY <2>1, <2>2, <1>1
<1>3. Begins \/ Opens \/ Chooses \/ Secures \/ Authenticates \/ Finishes
  BY <1>2 DEF LoginInv
<1>4. \A names : ~Told(names)
  BY <1>1 DEF Told
<1>5. CASE Begins
  BY <1>1, <1>5 DEF Begins
<1>6. CASE Opens
  <2>1. Asked(Opening) /\ proto.step = "RecvOpen" /\ client.waits = "open" /\ ~ss.topInProgress
    BY <1>4, <1>6 DEF Opens, Same
  <2>2. kind = Opening /\ Turn(kind)
    BY <2>1, <1>2, AskedTurn
  <2> QED BY <2>1, <2>2 DEF AtOpen
<1>7. CASE Chooses
  BY <1>4, <1>7 DEF Chooses
<1>8. CASE Secures
  <2>1. \/ /\ client.waits = "proceed" /\ client.layers = <<>> /\ ~client.old
           /\ Asked("starttls") /\ proto.step = "GetRequest" /\ ~ss.topInProgress
        \/ /\ client.waits \in {"hello", "finished"} /\ client.layers = <<"TLS">>
           /\ proto.step = (IF stream.sslnow THEN "Closed" ELSE "RecvOpen") /\ ss.topInProgress
           /\ Asked(client.waits)
    BY <1>4, <1>8 DEF Secures
  <2>2. CASE Asked("starttls") /\ client.waits = "proceed"
    <3>1. kind = "starttls" /\ Turn(kind)
      BY <2>2, <1>2, AskedTurn
    <3> QED BY <2>1, <2>2, <3>1 DEF AtStartTLS
  <2>3. CASE Asked(client.waits) /\ client.waits \in {"hello", "finished"}
    <3>1. kind = client.waits /\ Turn(kind)
      BY <2>3, <1>2, AskedTurn
    <3> QED BY <2>1, <2>3, <3>1 DEF AtHandshake
  <2> QED BY <2>1, <2>2, <2>3
<1>9. CASE Authenticates
  <2>1. /\ client.waits = "sasl" /\ ~client.old /\ ~ss.topInProgress /\ ~proto.sasl_authed
        /\ \/ Asked("auth") /\ proto.step = "GetRequest"
           \/ client.mech = "challenges" /\ proto.step = "GetSASLResponse" /\ Asked("response")
    BY <1>4, <1>9 DEF Authenticates
  <2>2. CASE Asked("auth") /\ proto.step = "GetRequest"
    <3>1. kind = "auth" /\ Turn(kind)
      BY <2>2, <1>2, AskedTurn
    <3> QED BY <2>1, <2>2, <3>1 DEF AtAuth
  <2>3. CASE client.mech = "challenges" /\ proto.step = "GetSASLResponse" /\ Asked("response")
    <3>1. kind = "response" /\ Turn(kind)
      BY <2>3, <1>2, AskedTurn
    <3> QED BY <2>1, <2>3, <3>1 DEF AtResponse
  <2> QED BY <2>1, <2>2, <2>3
<1>10. CASE Finishes
  <2>1. /\ ~ss.topInProgress
        /\ \/ /\ client.waits = "auth_fields" /\ client.old /\ proto.old
              /\ proto.step = "GetAuthRequest" /\ Asked("auth_get")
           \/ /\ client.waits = "bound" /\ client.old /\ proto.old
              /\ proto.step = "GetAuthRequest" /\ Asked("auth_set")
           \/ /\ client.waits = "bound" /\ ~client.old /\ proto.step = "GetRequest"
              /\ proto.sasl_authed /\ Asked("bind")
    BY <1>4, <1>10 DEF Finishes, Same
  <2>2. CASE Asked("auth_get") /\ client.waits = "auth_fields"
    <3>1. kind = "auth_get" /\ Turn(kind)
      BY <2>2, <1>2, AskedTurn
    <3> QED BY <2>1, <2>2, <3>1 DEF AtAuthGet
  <2>3. CASE Asked("auth_set") /\ client.waits = "bound" /\ client.old
    <3>1. kind = "auth_set" /\ Turn(kind)
      BY <2>3, <1>2, AskedTurn
    <3> QED BY <2>1, <2>3, <3>1 DEF AtAuthSet
  <2>4. CASE Asked("bind") /\ client.waits = "bound" /\ ~client.old
    <3>1. kind = "bind" /\ Turn(kind)
      BY <2>4, <1>2, AskedTurn
    <3> QED BY <2>1, <2>4, <3>1 DEF AtBind
  <2> QED BY <2>1, <2>2, <2>3, <2>4
<1> QED BY <1>3, <1>5, <1>6, <1>7, <1>8, <1>9, <1>10

\* Said(r, name, features): the server has answered with one element.
Said(r, name, features) ==
    /\ Accounted(r) /\ ss' = r /\ Only(r, name, features, client.layers)
    /\ up' = <<>> /\ down' = <<>> /\ client' = client

\* It is what the client is told.
LEMMA SaidTold ==
    ASSUME NEW r, NEW name, NEW features, Said(r, name, features)
    PROVE  Told(<<name>>)' /\ Coming'[1].kind.features = features
<1>1. PICK item : item = Item([name |-> name, features |-> features], client.layers)
  OBVIOUS
<1>2. item.kind.name = name /\ item.kind.features = features /\ item.layers = client.layers
  BY <1>1 DEF Item
<1>3. Carried(r.out) = <<item>> /\ r.out \in Seq(Entries)
  BY <1>1, StreamParts DEF Said, Only, Accounted
<1>4. <<>> \o Carried(r.out) = Carried(r.out)
  BY <1>3, CarriedFacts
<1>5. Coming' = <<item>>
  BY <1>3, <1>4 DEF Coming, Said
<1>6. Len(<<item>>) = 1 /\ Len(<<name>>) = 1 /\ <<item>>[1] = item /\ <<name>>[1] = name
      /\ \A k \in DOMAIN <<name>> : k = 1
  OBVIOUS
<1>7. Told(<<name>>)'
  BY <1>2, <1>5, <1>6 DEF Told, Said
<1> QED BY <1>2, <1>5, <1>6, <1>7

\* A layer of SASL is in the stack when it is there.
LEMMA NoSASL == "SASL" \notin ToSet(<<>>) /\ "SASL" \notin ToSet(<<"TLS">>)
                /\ "TLS" \notin ToSet(<<>>) /\ "TLS" \in ToSet(<<"TLS">>)
<1>1. "TLS" = <<"TLS">>[1] /\ 1 \in DOMAIN <<"TLS">>
  OBVIOUS
<1> QED BY <1>1 DEF ToSet

\* The stack has no layer of SASL before the user is authenticated.
LEMMA BeforeSASL ==
    ASSUME NEW layers \in Stacks, "SASL" \notin ToSet(layers)
    PROVE  layers \in {<<>>, <<"TLS">>}
<1>1. "SASL" \in ToSet(<<"SASL">>) /\ "SASL" \in ToSet(<<"TLS", "SASL">>)
  <2>1. "SASL" = <<"SASL">>[1] /\ 1 \in DOMAIN <<"SASL">>
    OBVIOUS
  <2>2. "SASL" = <<"TLS", "SASL">>[2] /\ 2 \in DOMAIN <<"TLS", "SASL">>
    OBVIOUS
  <2> QED BY <2>1, <2>2 DEF ToSet
<1> QED BY <1>1 DEF Stacks

\* The stream is reset: nothing is on its way any more.
LEMMA FailKeeps ==
    ASSUME LoginInv, NEW kind, Turn(kind), Fail, UNCHANGED <<down, client, stanzas>>,
           client.waits # "start"
    PROVE  LoginInv'
<1>1. /\ ss' = Idle /\ stream' = [stream EXCEPT !.state = "reset"]
      /\ proto' = [proto EXCEPT !.step = "reset"] /\ challenges' = challenges
  BY DEF Fail
<1>2. LoginTypes'
  BY <1>1 DEF LoginInv, LoginTypes, Protos, Conns, Clients
<1>3. Accounted(ss)'
  BY <1>1, IdleFacts
<1>4. Ended'
  BY <1>1 DEF Ended, Turn
<1>5. stream'.state = "reset"
  BY <1>1 DEF LoginInv, LoginTypes, Protos, Conns, Clients
<1> QED BY <1>2, <1>3, <1>4, <1>5 DEF LoginInv

\* The stream is opened.
LEMMA ReadOpenKeeps ==
    ASSUME LoginInv, NEW old \in BOOLEAN, ReadOpen(old)
    PROVE  LoginInv'
<1> DEFINE kind == IF old THEN "open0" ELSE "open1"
<1>1. Turn(kind) /\ AtOpen(kind)
  <2>1. Reads(kind) /\ proto.step = "RecvOpen"
    BY DEF ReadOpen, Wait
  <2>2. kind \in {"open0", "open1"}
    OBVIOUS
  <2> HIDE DEF kind
  <2>3. ~AtHandshake(kind)
    BY <2>2 DEF AtHandshake
  <2> QED BY <2>1, <2>2, <2>3, Hears DEF AtStartTLS, AtAuth, AtResponse, AtAuthGet, AtAuthSet, AtBind
<1>2. old = client.old /\ client.waits = "open" /\ ~ss.topInProgress
  BY <1>1 DEF AtOpen, Opening, LoginInv, LoginTypes, Protos, Conns, Clients
<1>3. PICK f \in FeatureSets : f = Offered(proto)
  BY FeatureTypes DEF LoginInv, LoginTypes, Protos, Conns, Clients
<1>4. Accounted(ss) /\ ss.out = <<>> /\ LayerTypes(ss) = client.layers
  BY <1>1 DEF LoginInv, Turn
<1>5. PICK h, t : /\ h = Written(ss, "open", NoFeatures) /\ Accounted(h) /\ ~h.topInProgress
                  /\ LayerTypes(h) = LayerTypes(ss)
                  /\ Only(h, "open", NoFeatures, LayerTypes(ss))
                  /\ t = Written(h, "features", f) /\ Accounted(t) /\ ~t.topInProgress
                  /\ LayerTypes(t) = LayerTypes(ss)
                  /\ Carried(t.out) =
                        <<Item([name |-> "open", features |-> NoFeatures], LayerTypes(ss)),
                          Item([name |-> "features", features |-> f], LayerTypes(ss))>>
  BY <1>2, <1>4, OpenedFacts
<1>6. /\ ss' = (IF old THEN h ELSE t)
      /\ proto' = [proto EXCEPT !.old = old,
                                !.step = IF old THEN "GetAuthRequest" ELSE "GetRequest"]
      /\ down' = down /\ stream' = stream /\ client' = client /\ challenges' = challenges
      /\ stanzas' = stanzas
  BY <1>3, <1>5 DEF ReadOpen
<1>7. LoginTypes'
  <2>1. proto \in Protos
    BY DEF LoginInv, LoginTypes
  <2>2. proto' \in Protos
    BY <2>1, <1>6 DEF Protos
  <2> QED BY <2>2, <1>6 DEF LoginInv, LoginTypes
<1>8. /\ proto'.old = old /\ proto'.step = (IF old THEN "GetAuthRequest" ELSE "GetRequest")
      /\ proto'.sasl_authed = proto.sasl_authed /\ proto'.user = proto.user
      /\ proto'.tls_started = proto.tls_started
  BY <1>6 DEF LoginInv, LoginTypes, Protos, Conns, Clients
<1>9. Accounted(ss)' /\ LayerTypes(ss)' = client.layers /\ ~ss'.topInProgress
      /\ up' = <<>> /\ down' = <<>>
  BY <1>1, <1>4, <1>5, <1>6 DEF Turn
<1>10. UserKnown'
  BY <1>1, <1>2, <1>6, <1>8, <1>9 DEF Turn, UserKnown
<1>11. Opens'
  <2>1. Same' /\ client'.waits = "open"
    BY <1>2, <1>6, <1>9 DEF Same
  <2>2. CASE old
    <3>1. Said(h, "open", NoFeatures)
      BY <2>2, <1>4, <1>5, <1>6, <1>9 DEF Said
    <3>2. Told(<<"open">>)'
      BY <3>1, SaidTold
    <3> QED BY <2>1, <2>2, <3>2, <1>2, <1>6, <1>8 DEF Opens
  <2>3. CASE ~old
    <3>1. PICK i : i = Item([name |-> "open", features |-> NoFeatures], client.layers)
      OBVIOUS
    <3>2. PICK j : j = Item([name |-> "features", features |-> f], client.layers)
      OBVIOUS
    <3>3. /\ i.kind.name = "open" /\ i.layers = client.layers
          /\ j.kind.name = "features" /\ j.kind.features = f /\ j.layers = client.layers
      BY <3>1, <3>2 DEF Item
    <3>4. Coming' = <<i, j>>
      <4>1. t.out \in Seq(Entries)
        BY <1>5, StreamParts DEF Accounted
      <4>2. <<>> \o Carried(t.out) = Carried(t.out)
        BY <4>1, CarriedFacts
      <4>3. Carried(t.out) = <<i, j>>
        BY <3>1, <3>2, <1>4, <1>5
      <4> QED BY <4>2, <4>3, <2>3, <1>6, <1>9 DEF Coming
    <3>5. /\ Len(<<i, j>>) = 2 /\ <<i, j>>[1] = i /\ <<i, j>>[2] = j
          /\ Len(<<"open", "features">>) = 2 /\ <<"open", "features">>[1] = "open"
          /\ <<"open", "features">>[2] = "features"
          /\ \A k \in DOMAIN <<"open", "features">> : k = 1 \/ k = 2
      OBVIOUS
    <3>6. Told(<<"open", "features">>)'
      BY <3>3, <3>4, <3>5, <1>6, <1>9 DEF Told
    <3>7. Coming'[2].kind.features = Offered(proto)'
      <4>1. Offered(proto') = Offered(proto)
        BY <1>8 DEF Offered
      <4> QED BY <4>1, <3>3, <3>4, <3>5, <1>3
    <3> QED BY <2>1, <2>3, <3>6, <3>7, <1>2, <1>6, <1>8 DEF Opens
  <2> QED BY <2>2, <2>3
<1>12. stream'.state = "Idle"
  BY <1>1, <1>6 DEF Turn
<1> QED BY <1>7, <1>9, <1>10, <1>11, <1>12 DEF LoginInv

\* TLS is started.
LEMMA ReadStartTLSKeeps ==
    ASSUME LoginInv, ReadStartTLS
    PROVE  LoginInv'
<1>1. Turn("starttls") /\ AtStartTLS("starttls")
  <2>1. Reads("starttls")
    BY DEF ReadStartTLS
  <2>2. ~AtOpen("starttls")
    BY DEF AtOpen, Opening
  <2> QED BY <2>1, <2>2, Hears DEF AtHandshake, AtAuth, AtResponse, AtAuthGet, AtAuthSet, AtBind
<1>2. /\ client.waits = "proceed" /\ client.layers = <<>> /\ ~client.old /\ ~ss.topInProgress
      /\ LayerTypes(ss) = <<>> /\ Accounted(ss) /\ ss.out = <<>> /\ up' = <<>>
      /\ down = <<>> /\ stream.state = "Idle" /\ UserKnown
  BY <1>1 DEF LoginInv, Turn, AtStartTLS
<1>3. down' = down /\ client' = client /\ challenges' = challenges /\ stanzas' = stanzas
  BY DEF ReadStartTLS
<1>4. CASE stream.tls
  <2>1. PICK t : /\ t = StartTLS(Written(ss, "proceed", NoFeatures)) /\ Accounted(t)
                 /\ Only(t, "proceed", NoFeatures, <<>>)
                 /\ LayerTypes(t) = <<"TLS">> /\ t.topInProgress
    BY <1>2, ProceedFacts
  <2>2. /\ ss' = t /\ stream' = stream
        /\ proto' = [proto EXCEPT !.tls_started = TRUE, !.step = "RecvOpen"]
    BY <2>1, <1>4 DEF ReadStartTLS
  <2>3. LoginTypes'
    <3>1. proto \in Protos
      BY DEF LoginInv, LoginTypes
    <3>2. proto' \in Protos
      BY <3>1, <2>2 DEF Protos
    <3> QED BY <3>2, <2>2, <1>3 DEF LoginInv, LoginTypes
  <2>4. /\ proto'.step = "RecvOpen" /\ proto'.old = proto.old /\ proto'.user = proto.user
        /\ proto'.sasl_authed = proto.sasl_authed
    BY <2>2 DEF LoginInv, LoginTypes, Protos, Conns, Clients
  <2>5. Told(<<"proceed">>)'
    <3>1. Said(t, "proceed", NoFeatures)
      BY <2>1, <2>2, <1>2, <1>3 DEF Said
    <3> QED BY <3>1, SaidTold
  <2>6. Secures'
    BY <2>1, <2>2, <2>4, <2>5, <1>2, <1>3 DEF Secures
  <2>7. UserKnown'
    BY <2>1, <2>2, <2>4, <1>2, <1>3, NoSASL DEF UserKnown
  <2>8. Accounted(ss)' /\ stream'.state = "Idle"
    BY <2>1, <2>2, <1>2
  <2> QED BY <2>3, <2>6, <2>7, <2>8 DEF LoginInv
<1>5. CASE ~stream.tls
  <2>1. stream' = [stream EXCEPT !.state = "crashed"] /\ ss' = ss /\ proto' = proto
    BY <1>5 DEF ReadStartTLS
  <2>2. LoginTypes'
    BY <2>1, <1>3 DEF LoginInv, LoginTypes, Protos, Conns, Clients
  <2>3. stream'.state = "crashed"
    BY <2>1 DEF LoginInv, LoginTypes, Protos, Conns, Clients
  <2>4. Ended'
    BY <1>2, <1>3 DEF Ended
  <2>5. Accounted(ss)'
    BY <2>1, <1>2
  <2> QED BY <2>2, <2>3, <2>4, <2>5 DEF LoginInv
<1> QED BY <1>4, <1>5

\* Another part of the handshake has come.
LEMMA ReadHandshakeKeeps ==
    ASSUME LoginInv, NEW kind, NEW last \in BOOLEAN,
           kind = (IF last THEN "finished" ELSE "hello"), ReadHandshake(kind, last)
    PROVE  LoginInv'
<1>1. Turn(kind) /\ AtHandshake(kind)
  <2>1. Reads(kind) /\ kind \in {"hello", "finished"}
    BY DEF ReadHandshake
  <2>2. ~AtOpen(kind)
    BY <2>1 DEF AtOpen, Opening
  <2> QED BY <2>1, <2>2, Hears DEF AtStartTLS, AtAuth, AtResponse, AtAuthGet, AtAuthSet, AtBind
<1>2. /\ client.waits = kind /\ client.layers = <<"TLS">> /\ ss.topInProgress
      /\ proto.step = (IF stream.sslnow THEN "Closed" ELSE "RecvOpen")
      /\ LayerTypes(ss) = <<"TLS">> /\ Accounted(ss) /\ ss.out = <<>> /\ up' = <<>>
      /\ down = <<>> /\ stream.state = "Idle" /\ UserKnown
  BY <1>1 DEF LoginInv, Turn, AtHandshake
<1>3. PICK item \in Items : item = Flight(last) /\ item = Item([name |-> kind, features |-> NoFeatures],
                                                              client.layers)
  <2>1. Flight(last) = Item([name |-> kind, features |-> NoFeatures], client.layers)
    BY <1>2 DEF Flight
  <2>2. kind \in Answers /\ NoFeatures \in FeatureSets /\ client.layers \in Stacks
    BY <1>2, NoFeatureTypes DEF Answers, Stacks
  <2>3. Item([name |-> kind, features |-> NoFeatures], client.layers) \in Items
    BY <2>2 DEF Item, Items
  <2> QED BY <2>1, <2>3
<1>4. PICK t \in Streams : /\ t = TlsFlight(ss, 1, last, item) /\ Accounted(t)
                           /\ LayerTypes(t) = <<"TLS">>
                           /\ Carried(t.out) = <<item>> /\ t.topInProgress = ~last
  <2>1. ss \in Streams /\ Accurate(ss) /\ Shaking(ss)
    BY <1>2, AccountedEmpty DEF Accounted
  <2> QED BY <2>1, <1>2, <1>3, FlightFacts
<1>5. /\ ss' = t
      /\ proto' = [proto EXCEPT !.step = IF last /\ stream.sslnow THEN "RecvOpen" ELSE @]
      /\ down' = down /\ stream' = stream /\ client' = client /\ challenges' = challenges
      /\ stanzas' = stanzas
  BY <1>3, <1>4 DEF ReadHandshake
<1>6. LoginTypes'
  <2>1. proto \in Protos
    BY DEF LoginInv, LoginTypes
  <2>2. proto' \in Protos
    BY <2>1, <1>5 DEF Protos
  <2> QED BY <2>2, <1>5 DEF LoginInv, LoginTypes
<1>7. /\ proto'.step = (IF last /\ stream.sslnow THEN "RecvOpen" ELSE proto.step)
      /\ proto'.old = proto.old /\ proto'.user = proto.user
      /\ proto'.sasl_authed = proto.sasl_authed
  BY <1>5 DEF LoginInv, LoginTypes, Protos, Conns, Clients
<1>8. Told(<<kind>>)'
  <2>1. Said(t, kind, NoFeatures)
    BY <1>2, <1>3, <1>4, <1>5 DEF Said, Only
  <2> QED BY <2>1, SaidTold
<1>9. Secures'
  <2>1. client' = client /\ LayerTypes(ss)' = <<"TLS">> /\ stream' = stream
    BY <1>4, <1>5
  <2>2. CASE last
    <3>1. proto'.step = "RecvOpen" /\ ~ss'.topInProgress
      BY <2>2, <1>2, <1>4, <1>5, <1>7
    <3> QED BY <2>1, <2>2, <3>1, <1>2, <1>8 DEF Secures, Same
  <2>3. CASE ~last
    <3>1. proto'.step = proto.step /\ ss'.topInProgress
      BY <2>3, <1>4, <1>5, <1>7
    <3> QED BY <2>1, <2>3, <3>1, <1>2, <1>8 DEF Secures
  <2> QED BY <2>2, <2>3
<1>10. UserKnown'
  BY <1>2, <1>4, <1>5, <1>7, NoSASL DEF UserKnown
<1>11. Accounted(ss)' /\ stream'.state = "Idle"
  BY <1>2, <1>4, <1>5
<1> QED BY <1>6, <1>9, <1>10, <1>11 DEF LoginInv

\* The handshake fails.
LEMMA HandshakeFailsKeeps ==
    ASSUME LoginInv, HandshakeFails
    PROVE  LoginInv'
<1>1. PICK kind \in {"hello", "finished"} : Reads(kind)
  BY DEF HandshakeFails
<1>2. Turn(kind) /\ AtHandshake(kind)
  <2>1. ~AtOpen(kind)
    BY DEF AtOpen, Opening
  <2> QED BY <1>1, <2>1, Hears DEF AtStartTLS, AtAuth, AtResponse, AtAuthGet, AtAuthSet, AtBind
<1>3. client.waits # "start"
  BY <1>2 DEF AtHandshake
<1> QED BY <1>2, <1>3, FailKeeps DEF HandshakeFails

\* Exchange(p): SASL is under way, and p is what the protocol knows.
Exchange(p) ==
    /\ p \in Protos /\ ~proto.sasl_authed /\ ~p.sasl_authed /\ ~p.old
    /\ client.waits = "sasl" /\ ~client.old /\ ~ss.topInProgress
    /\ client.mech = "one_step" => p.user = "none"

\* The user is authenticated, and the layer put in place.
LEMMA SuccessKeeps ==
    ASSUME LoginInv, NEW kind, Turn(kind), NEW p, Exchange(p), Success(p),
           client.mech = "challenges" => p.user = "user",
           UNCHANGED <<down, client, stanzas>>
    PROVE  LoginInv'
<1>1. /\ Accounted(ss) /\ ss.out = <<>> /\ LayerTypes(ss) = client.layers /\ up' = <<>>
      /\ down = <<>> /\ stream.state = "Idle" /\ UserKnown /\ ~ss.topInProgress
      /\ client.layers \in Stacks
  BY DEF LoginInv, Turn, Exchange
<1>2. LayerTypes(ss) \in {<<>>, <<"TLS">>}
  <2>1. "SASL" \notin ToSet(LayerTypes(ss))
    BY <1>1 DEF UserKnown, Exchange
  <2> QED BY <2>1, <1>1, BeforeSASL
<1>3. PICK t : /\ t = SetLayerSASL(Written(ss, "success", NoFeatures)) /\ Accounted(t)
               /\ Only(t, "success", NoFeatures, LayerTypes(ss))
               /\ LayerTypes(t) = Append(LayerTypes(ss), "SASL") /\ ~t.topInProgress
  BY <1>1, <1>2, SuccessFacts
<1>4. /\ ss' = t /\ proto' = [p EXCEPT !.sasl_authed = TRUE, !.step = "RecvOpen"]
      /\ stream' = stream /\ challenges' = challenges /\ down' = down /\ client' = client
      /\ stanzas' = stanzas
  BY <1>3 DEF Success
<1>5. /\ proto' \in Protos /\ proto'.sasl_authed /\ proto'.step = "RecvOpen"
      /\ proto'.old = p.old /\ proto'.user = p.user
  BY <1>4 DEF Exchange, Protos
<1>6. LoginTypes'
  BY <1>4, <1>5 DEF LoginInv, LoginTypes
<1>7. Told(<<"success">>)'
  <2>1. Said(t, "success", NoFeatures)
    BY <1>1, <1>3, <1>4 DEF Said
  <2> QED BY <2>1, SaidTold
<1>8. Authenticates'
  BY <1>1, <1>3, <1>4, <1>5, <1>7 DEF Authenticates, Exchange
<1>9. UserKnown'
  BY <1>1, <1>4, <1>5 DEF UserKnown, Exchange
<1>10. Accounted(ss)' /\ stream'.state = "Idle"
  BY <1>1, <1>3, <1>4
<1> QED BY <1>6, <1>8, <1>9, <1>10 DEF LoginInv

\* The provider asks for more.
LEMMA ChallengeKeeps ==
    ASSUME LoginInv, NEW kind, Turn(kind), NEW p, Exchange(p), Challenge(p),
           client.mech = "challenges", UNCHANGED <<down, client, stanzas>>
    PROVE  LoginInv'
<1>1. /\ Accounted(ss) /\ ss.out = <<>> /\ LayerTypes(ss) = client.layers /\ up' = <<>>
      /\ down = <<>> /\ stream.state = "Idle" /\ UserKnown /\ ~ss.topInProgress
  BY DEF LoginInv, Turn, Exchange
<1>2. PICK t : Wrote(ss, "challenge", NoFeatures, t)
               /\ Only(t, "challenge", NoFeatures, LayerTypes(ss))
  <2>1. "challenge" \in Answers
    BY DEF Answers
  <2> QED BY <2>1, <1>1, NoFeatureTypes, WrittenAlone
<1>3. /\ t = Written(ss, "challenge", NoFeatures) /\ Accounted(t) /\ ~t.topInProgress
      /\ LayerTypes(t) = LayerTypes(ss)
  BY <1>2 DEF Wrote
<1>4. /\ ss' = t /\ proto' = [p EXCEPT !.step = "GetSASLResponse"]
      /\ stream' = stream /\ challenges' = challenges + 1 /\ challenges < MaxChallenges
      /\ down' = down /\ client' = client /\ stanzas' = stanzas
  BY <1>3 DEF Challenge
<1>5. /\ proto' \in Protos /\ ~proto'.sasl_authed /\ proto'.step = "GetSASLResponse"
      /\ ~proto'.old
  BY <1>4 DEF Exchange, Protos
<1>6. LoginTypes'
  <2>1. challenges' \in 0 .. MaxChallenges
    BY <1>4, BoundsAssumption DEF LoginInv, LoginTypes
  <2> QED BY <2>1, <1>4, <1>5 DEF LoginInv, LoginTypes
<1>7. Told(<<"challenge">>)'
  <2>1. Said(t, "challenge", NoFeatures)
    BY <1>1, <1>2, <1>3, <1>4 DEF Said
  <2> QED BY <2>1, SaidTold
<1>8. Authenticates'
  BY <1>1, <1>3, <1>4, <1>5, <1>7 DEF Authenticates, Exchange, Same
<1>9. UserKnown'
  BY <1>1, <1>3, <1>4, <1>5 DEF UserKnown, Exchange
<1>10. Accounted(ss)' /\ stream'.state = "Idle"
  BY <1>1, <1>3, <1>4
<1> QED BY <1>6, <1>8, <1>9, <1>10 DEF LoginInv

\* SASL begins.
LEMMA ReadAuthKeeps ==
    ASSUME LoginInv, ReadAuth
    PROVE  LoginInv'
<1>1. Turn("auth") /\ AtAuth("auth")
  <2>1. Reads("auth")
    BY DEF ReadAuth
  <2>2. ~AtOpen("auth")
    BY DEF AtOpen, Opening
  <2> QED BY <2>1, <2>2, Hears
          DEF AtStartTLS, AtHandshake, AtResponse, AtAuthGet, AtAuthSet, AtBind
<1>2. PICK p : p = [proto EXCEPT !.sasl_started = TRUE]
  OBVIOUS
<1>3. proto \in Protos /\ client \in Clients
  BY DEF LoginInv, LoginTypes
<1>4. /\ p \in Protos /\ p.sasl_authed = proto.sasl_authed /\ p.old = proto.old
      /\ p.user = proto.user
  BY <1>2, <1>3 DEF Protos
<1>5. /\ ~proto.sasl_authed /\ client.waits = "sasl" /\ ~client.old /\ ~ss.topInProgress
      /\ UserKnown
  BY <1>1 DEF AtAuth, Turn
<1>6. Exchange(p)
  BY <1>4, <1>5 DEF Exchange, UserKnown
<1>7. /\ UNCHANGED <<down, client, stanzas>>
      /\ \/ client.mech = "one_step" /\ Success(p)
         \/ client.mech = "challenges" /\ Challenge(p)
         \/ Fail
  BY <1>2 DEF ReadAuth
<1>8. CASE client.mech = "one_step" /\ Success(p)
  <2>1. client.mech = "challenges" => p.user = "user"
    BY <1>8
  <2> QED BY <2>1, <1>1, <1>6, <1>7, <1>8, SuccessKeeps
<1>9. CASE client.mech = "challenges" /\ Challenge(p)
  BY <1>1, <1>6, <1>7, <1>9, ChallengeKeeps
<1>10. CASE Fail
  BY <1>1, <1>5, <1>7, <1>10, FailKeeps
<1> QED BY <1>7, <1>8, <1>9, <1>10

\* SASL goes on.
LEMMA ReadResponseKeeps ==
    ASSUME LoginInv, ReadResponse
    PROVE  LoginInv'
<1>1. Turn("response") /\ AtResponse("response")
  <2>1. Reads("response")
    BY DEF ReadResponse
  <2>2. ~AtOpen("response")
    BY DEF AtOpen, Opening
  <2> QED BY <2>1, <2>2, Hears
          DEF AtStartTLS, AtHandshake, AtAuth, AtAuthGet, AtAuthSet, AtBind
<1>2. proto \in Protos
  BY DEF LoginInv, LoginTypes
<1>3. /\ ~proto.sasl_authed /\ client.waits = "sasl" /\ ~client.old /\ ~ss.topInProgress
      /\ UserKnown /\ client.mech = "challenges"
  BY <1>1 DEF AtResponse, Turn
<1>4. Exchange(proto)
  BY <1>2, <1>3 DEF Exchange, UserKnown
<1>5. Exchange(Checked(proto)) /\ Checked(proto).user = "user"
  <2>1. /\ Checked(proto) \in Protos /\ Checked(proto).sasl_authed = proto.sasl_authed
        /\ Checked(proto).old = proto.old /\ Checked(proto).user = "user"
    BY <1>2 DEF Checked, Protos
  <2> QED BY <2>1, <1>3 DEF Exchange, UserKnown
<1>6. /\ UNCHANGED <<down, client, stanzas>>
      /\ \/ Success(Checked(proto))
         \/ \E p \in {proto, Checked(proto)} : Challenge(p)
         \/ Fail
  BY DEF ReadResponse
<1>7. CASE Success(Checked(proto))
  BY <1>1, <1>5, <1>6, <1>7, SuccessKeeps
<1>8. CASE \E p \in {proto, Checked(proto)} : Challenge(p)
  <2>1. PICK p : Challenge(p) /\ Exchange(p)
    BY <1>4, <1>5, <1>8
  <2> QED BY <2>1, <1>1, <1>3, <1>6, ChallengeKeeps
<1>9. CASE Fail
  BY <1>1, <1>3, <1>6, <1>9, FailKeeps
<1> QED BY <1>6, <1>7, <1>8, <1>9

\* The login is complete, under a name that is known.
LEMMA ReadyKeeps ==
    ASSUME LoginInv, NEW kind, Turn(kind), NEW p \in Protos, Ready(p),
           client.waits = "bound", ~ss.topInProgress,
           ss' = Written(ss, "bound", NoFeatures),
           p.user = (IF client.old \/ client.mech = "challenges" THEN "user" ELSE "none"),
           p.old = client.old,
           UNCHANGED <<down, client, challenges, stanzas>>
    PROVE  LoginInv'
<1>1. /\ Accounted(ss) /\ ss.out = <<>> /\ LayerTypes(ss) = client.layers /\ up' = <<>>
      /\ down = <<>> /\ stream \in Conns
  BY DEF LoginInv, LoginTypes, Turn
<1>2. PICK t : Wrote(ss, "bound", NoFeatures, t) /\ Only(t, "bound", NoFeatures, LayerTypes(ss))
  <2>1. "bound" \in Answers
    BY DEF Answers
  <2> QED BY <2>1, <1>1, NoFeatureTypes, WrittenAlone
<1>3. /\ ss' = t /\ Accounted(t) /\ ~t.topInProgress /\ Settled(t)
      /\ LayerTypes(t) = LayerTypes(ss)
  BY <1>2 DEF Wrote
<1>4. /\ proto' = [p EXCEPT !.step = "Done"]
      /\ stream' = [stream EXCEPT !.state = "Active", !.jid = p.user]
  BY DEF Ready
<1>5. proto' \in Protos /\ proto'.step = "Done" /\ proto'.old = p.old
  BY <1>4 DEF Protos
<1>6. stream' \in Conns /\ stream'.state = "Active" /\ stream'.jid = p.user
  <2>1. p.user \in {"none", "user"}
    BY DEF Protos
  <2> QED BY <2>1, <1>1, <1>4 DEF Conns
<1>7. LoginTypes'
  BY <1>5, <1>6 DEF LoginInv, LoginTypes
<1>8. Told(<<"bound">>)'
  <2>1. Said(t, "bound", NoFeatures)
    BY <1>1, <1>2, <1>3 DEF Said
  <2> QED BY <2>1, SaidTold
<1>9. Online'
  <2>1. PICK c : c = Coming'
    OBVIOUS
  <2>2. Len(c) = 1 /\ c[1].kind.name = "bound" /\ c[1].layers = client.layers
    <3>1. Len(<<"bound">>) = 1 /\ <<"bound">>[1] = "bound" /\ 1 \in DOMAIN <<"bound">>
      OBVIOUS
    <3> QED BY <3>1, <2>1, <1>8 DEF Told
  <2>3. c \in Seq(Items)
    <3>1. t.out \in Seq(Entries)
      BY <1>3, StreamParts DEF Accounted
    <3>2. <<>> \o Carried(t.out) \in Seq(Items)
      BY <3>1, CarriedFacts
    <3> QED BY <3>2, <2>1, <1>1, <1>3 DEF Coming
  <2>4. c # <<>> /\ \A k \in DOMAIN c : k = 1
    <3>1. DOMAIN c = 1 .. 1
      BY <2>2, <2>3, LenProperties
    <3>2. Len(<<>>) = 0
      OBVIOUS
    <3> QED BY <3>1, <3>2, <2>2
  <2>5. \A k \in DOMAIN Coming' :
            /\ Coming'[k].layers = client.layers
            /\ Coming'[k].kind.name = IF k = 1 /\ client.waits = "bound" THEN "bound" ELSE "stanza"
    BY <2>1, <2>2, <2>4
  <2>6. Same'
    BY <1>1, <1>3 DEF Same
  <2> QED BY <2>1, <2>4, <2>5, <2>6, <1>1, <1>3, <1>5, <1>6 DEF Online
<1>10. Accounted(ss)'
  BY <1>3
<1> QED BY <1>6, <1>7, <1>9, <1>10 DEF LoginInv

\* The client binds.
LEMMA ReadBindKeeps ==
    ASSUME LoginInv, ReadBind
    PROVE  LoginInv'
<1>1. Turn("bind") /\ AtBind("bind")
  <2>1. Reads("bind")
    BY DEF ReadBind
  <2>2. ~AtOpen("bind")
    BY DEF AtOpen, Opening
  <2> QED BY <2>1, <2>2, Hears
          DEF AtStartTLS, AtHandshake, AtAuth, AtResponse, AtAuthGet, AtAuthSet
<1>2. proto \in Protos /\ client \in Clients
  BY DEF LoginInv, LoginTypes
<1>3. client.waits = "bound" /\ ~client.old /\ proto.sasl_authed /\ ~ss.topInProgress /\ UserKnown
  BY <1>1 DEF AtBind, Turn
<1>4. proto.old = client.old
  BY <1>2, <1>3 DEF UserKnown, Protos, Clients
<1>5. proto.user = (IF client.old \/ client.mech = "challenges" THEN "user" ELSE "none")
  BY <1>2, <1>3 DEF UserKnown, Clients
<1>6. Ready(proto) /\ ss' = Written(ss, "bound", NoFeatures)
      /\ UNCHANGED <<down, client, challenges, stanzas>>
  BY DEF ReadBind
<1> QED BY <1>1, <1>2, <1>3, <1>4, <1>5, <1>6, ReadyKeeps

\* The client asks what iq:auth wants.
LEMMA ReadAuthGetKeeps ==
    ASSUME LoginInv, ReadAuthGet
    PROVE  LoginInv'
<1>1. Turn("auth_get") /\ AtAuthGet("auth_get")
  <2>1. Reads("auth_get")
    BY DEF ReadAuthGet
  <2>2. ~AtOpen("auth_get")
    BY DEF AtOpen, Opening
  <2> QED BY <2>1, <2>2, Hears
          DEF AtStartTLS, AtHandshake, AtAuth, AtResponse, AtBind, AtAuthSet
<1>2. /\ Accounted(ss) /\ ss.out = <<>> /\ LayerTypes(ss) = client.layers /\ up' = <<>>
      /\ down = <<>> /\ stream.state = "Idle" /\ UserKnown /\ ~ss.topInProgress
      /\ client.waits = "auth_fields" /\ client.old /\ proto.old /\ proto.step = "GetAuthRequest"
  BY <1>1 DEF LoginInv, Turn, AtAuthGet
<1>3. PICK t : Wrote(ss, "auth_fields", NoFeatures, t)
               /\ Only(t, "auth_fields", NoFeatures, LayerTypes(ss))
  <2>1. "auth_fields" \in Answers
    BY DEF Answers
  <2> QED BY <2>1, <1>2, NoFeatureTypes, WrittenAlone
<1>4. /\ t = Written(ss, "auth_fields", NoFeatures) /\ Accounted(t) /\ ~t.topInProgress
      /\ LayerTypes(t) = LayerTypes(ss)
  BY <1>3 DEF Wrote
<1>5. ss' = t /\ UNCHANGED <<down, proto, stream, client, challenges, stanzas>>
  BY <1>4 DEF ReadAuthGet
<1>6. LoginTypes'
  BY <1>5 DEF LoginInv, LoginTypes
<1>7. Told(<<"auth_fields">>)'
  <2>1. Said(t, "auth_fields", NoFeatures)
    BY <1>2, <1>3, <1>4, <1>5 DEF Said
  <2> QED BY <2>1, SaidTold
<1>8. Finishes'
  BY <1>2, <1>4, <1>5, <1>7 DEF Finishes, Same
<1>9. UserKnown'
  BY <1>2, <1>4, <1>5 DEF UserKnown
<1>10. Accounted(ss)' /\ stream'.state = "Idle"
  BY <1>2, <1>4, <1>5
<1> QED BY <1>6, <1>8, <1>9, <1>10 DEF LoginInv

\* The client gives its password.
LEMMA ReadAuthSetKeeps ==
    ASSUME LoginInv, ReadAuthSet
    PROVE  LoginInv'
<1>1. Turn("auth_set") /\ AtAuthSet("auth_set")
  <2>1. Reads("auth_set")
    BY DEF ReadAuthSet
  <2>2. ~AtOpen("auth_set")
    BY DEF AtOpen, Opening
  <2> QED BY <2>1, <2>2, Hears
          DEF AtStartTLS, AtHandshake, AtAuth, AtResponse, AtBind, AtAuthGet
<1>2. proto \in Protos /\ client \in Clients
  BY DEF LoginInv, LoginTypes
<1>3. client.waits = "bound" /\ client.old /\ proto.old /\ ~ss.topInProgress
  BY <1>1 DEF AtAuthSet
<1>4. UNCHANGED <<down, client, stanzas>>
  BY DEF ReadAuthSet
<1>5. CASE client.password
  <2>1. PICK p : p = [proto EXCEPT !.user = "user"]
    OBVIOUS
  <2>2. p \in Protos /\ p.user = "user" /\ p.old = proto.old
    BY <2>1, <1>2 DEF Protos
  <2>3. p.old = client.old
    BY <2>2, <1>2, <1>3 DEF Protos, Clients
  <2>4. p.user = (IF client.old \/ client.mech = "challenges" THEN "user" ELSE "none")
    BY <2>2, <1>3
  <2>5. Ready(p) /\ ss' = Written(ss, "bound", NoFeatures) /\ challenges' = challenges
    BY <2>1, <1>5 DEF ReadAuthSet
  <2> QED BY <2>2, <2>3, <2>4, <2>5, <1>1, <1>3, <1>4, ReadyKeeps
<1>6. CASE ~client.password
  BY <1>1, <1>3, <1>4, <1>6, FailKeeps DEF ReadAuthSet
<1> QED BY <1>5, <1>6

\* A stanza is written to a client that is online.
LEMMA WriteStanzaKeeps ==
    ASSUME LoginInv, WriteStanza
    PROVE  LoginInv'
<1>1. /\ stream.state = "Active" /\ Online /\ Accounted(ss) /\ Settled(ss) /\ Same /\ up = <<>>
      /\ down \in Seq(Items)
  BY DEF LoginInv, LoginTypes, Online, WriteStanza
<1>2. PICK t : Wrote(ss, "stanza", NoFeatures, t)
  <2>1. "stanza" \in Answers
    BY DEF Answers
  <2> QED BY <2>1, <1>1, NoFeatureTypes, WrittenFacts
<1>3. /\ t = Written(ss, "stanza", NoFeatures) /\ Accounted(t) /\ Settled(t) /\ ~t.topInProgress
      /\ LayerTypes(t) = LayerTypes(ss)
  BY <1>2 DEF Wrote
<1>4. /\ ss' = t /\ stanzas < MaxStanzas /\ stanzas' = stanzas + 1
      /\ UNCHANGED <<up, down, proto, stream, client, challenges>>
  BY <1>3 DEF WriteStanza
<1>5. LoginTypes'
  <2>1. stanzas' \in 0 .. MaxStanzas
    BY <1>4, BoundsAssumption DEF LoginInv, LoginTypes
  <2> QED BY <2>1, <1>4 DEF LoginInv, LoginTypes
<1>6. PICK item \in Items :
          item = Item([name |-> "stanza", features |-> NoFeatures], client.layers)
          /\ item.kind.name = "stanza" /\ item.layers = client.layers
  <2>1. PICK i : i = Item([name |-> "stanza", features |-> NoFeatures], client.layers)
    OBVIOUS
  <2>2. client.layers \in Stacks /\ "stanza" \in Answers /\ NoFeatures \in FeatureSets
    BY NoFeatureTypes DEF LoginInv, LoginTypes, Clients, Answers
  <2>3. i \in Items /\ i.kind.name = "stanza" /\ i.layers = client.layers
    BY <2>1, <2>2 DEF Item, Items
  <2> QED BY <2>1, <2>3
<1>7. PICK c \in Seq(Items) : c = Coming /\ Coming' = Append(c, item)
  <2>1. PICK b \in Seq(Items) : b = Carried(ss.out) /\ ss.out \in Seq(Entries)
    BY <1>1, StreamParts, CarriedFacts DEF Accounted
  <2>2. Carried(t.out) = Append(b, item)
    BY <2>1, <1>1, <1>2, <1>6 DEF Wrote, Same
  <2>3. down \o b \in Seq(Items) /\ Coming = down \o b
    BY <2>1, <1>1, ComingFacts DEF Coming
  <2>4. down \o Append(b, item) = Append(down \o b, item)
    <3>1. <<item>> \in Seq(Items)
      OBVIOUS
    <3>2. Append(b, item) = b \o <<item>> /\ Append(down \o b, item) = (down \o b) \o <<item>>
      BY <2>3, AppendIsConcat
    <3>3. (down \o b) \o <<item>> = down \o (b \o <<item>>)
      BY <3>1, <1>1, ConcatAssociative
    <3> QED BY <3>2, <3>3
  <2>5. Coming' = down \o Append(b, item)
    BY <2>2, <1>4 DEF Coming
  <2> QED BY <2>3, <2>4, <2>5
<1>8. PICK m \in Nat : m = Len(c) /\ DOMAIN c = 1 .. m
  BY LenProperties
<1>9. PICK d \in Seq(Items) : d = Append(c, item) /\ Len(d) = m + 1 /\ DOMAIN d = 1 .. m + 1
                              /\ d[m + 1] = item /\ \A k \in 1 .. m : d[k] = c[k]
  <2>1. Append(c, item) \in Seq(Items) /\ Len(Append(c, item)) = m + 1
        /\ Append(c, item)[m + 1] = item /\ \A k \in 1 .. m : Append(c, item)[k] = c[k]
    BY <1>8, AppendProperties
  <2>2. DOMAIN Append(c, item) = 1 .. m + 1
    BY <2>1, LenProperties
  <2> QED BY <2>1, <2>2
<1>10. Online'
  <2>1. client.waits = "bound" => m # 0
    <3>1. client.waits = "bound" => c # <<>>
      BY <1>1, <1>7 DEF Online
    <3> QED BY <3>1, <1>8, EmptySeq
  <2>2. \A k \in DOMAIN d :
            /\ d[k].layers = client.layers
            /\ d[k].kind.name = IF k = 1 /\ client.waits = "bound" THEN "bound" ELSE "stanza"
    <3> TAKE k \in DOMAIN d
    <3>1. k \in 1 .. m \/ k = m + 1
      BY <1>9
    <3>2. CASE k \in 1 .. m
      <4>1. d[k] = c[k] /\ k \in DOMAIN c
        BY <3>2, <1>8, <1>9
      <4> QED BY <4>1, <1>1, <1>7 DEF Online
    <3>3. CASE k = m + 1
      <4>1. d[k] = item /\ ~(k = 1 /\ client.waits = "bound")
        BY <3>3, <2>1, <1>9
      <4> QED BY <4>1, <1>6
    <3> QED BY <3>1, <3>2, <3>3
  <2>3. Coming' # <<>>
    <3>1. Len(<<>>) = 0
      OBVIOUS
    <3> QED BY <3>1, <1>7, <1>9
  <2>4. \A k \in DOMAIN Coming' :
            /\ Coming'[k].layers = client'.layers
            /\ Coming'[k].kind.name =
                  IF k = 1 /\ client'.waits = "bound" THEN "bound" ELSE "stanza"
    BY <2>2, <1>4, <1>7, <1>9
  <2>5. Same' /\ Settled(ss)' /\ up' = <<>>
    BY <1>1, <1>3, <1>4 DEF Same
  <2> QED BY <2>3, <2>4, <2>5, <1>1, <1>4 DEF Online
<1>11. Accounted(ss)' /\ stream'.state = "Active"
  BY <1>1, <1>3, <1>4
<1> QED BY <1>5, <1>10, <1>11 DEF LoginInv

\* What the socket writes changes nothing of what is on its way.
LEMMA SocketWritesKeeps ==
    ASSUME LoginInv, NEW n \in 1 .. Total(ss.out, "bytes"), SocketWrites(n)
    PROVE  LoginInv'
<1>1. Accounted(ss) /\ ss \in Streams /\ down \in Seq(Items)
  BY DEF LoginInv, LoginTypes, Accounted
<1>2. PICK r : Keeps(ss, n, r) /\ Accounted(r) /\ (Settled(ss) => Settled(r))
  BY <1>1, SocketWrote_Accounted
<1>3. /\ r = SocketWrote(ss, n) /\ LayerTypes(r) = LayerTypes(ss)
      /\ r.topInProgress = ss.topInProgress
      /\ Drained(ss.out, n).items \o Carried(r.out) = Carried(ss.out)
  BY <1>2 DEF Keeps
<1>4. PICK items \in Seq(Items) : items = Drained(ss.out, n).items
  <2>1. n \in Nat
    BY <1>1, StreamParts
  <2> QED BY <2>1, <1>1, DrainedType
<1>5. /\ ss' = r /\ down' = down \o items /\ stream.state \notin {"reset", "crashed"}
      /\ UNCHANGED <<up, proto, stream, client, challenges, stanzas>>
  BY <1>3, <1>4 DEF SocketWrites
<1>6. Coming' = Coming
  <2>1. PICK b \in Seq(Items) : b = Carried(r.out)
    BY <1>2, StreamParts, CarriedFacts DEF Accounted
  <2>2. (down \o items) \o b = down \o (items \o b)
    BY <2>1, <1>1, ConcatAssociative
  <2>3. items \o b = Carried(ss.out)
    BY <2>1, <1>3, <1>4
  <2> QED BY <2>1, <2>2, <2>3, <1>5 DEF Coming
<1>7. /\ LayerTypes(ss)' = LayerTypes(ss) /\ ss'.topInProgress = ss.topInProgress
      /\ Accounted(ss)' /\ (Settled(ss) => Settled(ss)')
  BY <1>2, <1>3, <1>5
<1>8. LoginTypes'
  <2>1. down' \in Seq(Items)
    BY <1>1, <1>4, <1>5, ConcatProperties
  <2> QED BY <2>1, <1>5 DEF LoginInv, LoginTypes
<1>9. ASSUME NEW names, Told(names) PROVE Told(names)'
  BY <1>5, <1>6, <1>9 DEF Told
<1>10. ASSUME NEW kind, Asked(kind) PROVE Asked(kind)'
  BY <1>5, <1>6, <1>7, <1>10 DEF Asked
<1>11. Same => Same'
  BY <1>5, <1>7 DEF Same
<1>12. UserKnown => UserKnown'
  BY <1>5, <1>7 DEF UserKnown
<1>13. Begins => Begins'
  BY <1>5, <1>6, <1>7 DEF Begins
<1>14. Opens => Opens'
  BY <1>5, <1>6, <1>9, <1>10, <1>11 DEF Opens, Opening
<1>15. Chooses => Chooses'
  BY <1>5, <1>6, <1>9, <1>11 DEF Chooses
<1>16. Secures => Secures'
  BY <1>5, <1>7, <1>9, <1>10, <1>11 DEF Secures
<1>17. Authenticates => Authenticates'
  BY <1>5, <1>7, <1>9, <1>10, <1>11 DEF Authenticates
<1>18. Finishes => Finishes'
  BY <1>5, <1>9, <1>10, <1>11 DEF Finishes
<1>19. Online => Online'
  BY <1>5, <1>6, <1>7, <1>11 DEF Online
<1>20. stream.state \in {"Idle", "Active"}
  BY <1>5 DEF LoginInv, LoginTypes, Conns
<1>21. stream.state = "Idle" =>
           UserKnown' /\ (Begins' \/ Opens' \/ Chooses' \/ Secures' \/ Authenticates' \/ Finishes')
  BY <1>12, <1>13, <1>14, <1>15, <1>16, <1>17, <1>18 DEF LoginInv
<1>22. stream.state = "Active" => Online'
  BY <1>19 DEF LoginInv
<1>23. stream' = stream
  BY <1>5
<1> QED BY <1>7, <1>8, <1>20, <1>21, <1>22, <1>23 DEF LoginInv

\* The client starts.
LEMMA ClientStartsKeeps ==
    ASSUME LoginInv, ClientStarts
    PROVE  LoginInv'
<1>1. client.waits = "start" /\ client \in Clients
  BY DEF ClientStarts, LoginInv, LoginTypes
<1>2. stream.state = "Idle"
  BY <1>1 DEF LoginInv, LoginTypes, Conns, Online, Ended
<1>3. /\ client.layers = <<>> /\ up = <<>> /\ Coming = <<>> /\ UserKnown
      /\ LayerTypes(ss) = (IF stream.sslnow THEN <<"TLS">> ELSE <<>>)
      /\ ss.topInProgress = stream.sslnow
      /\ proto.step = (IF stream.sslnow THEN "Closed" ELSE "RecvOpen")
  BY <1>1, <1>2 DEF LoginInv, Begins, Opens, Chooses, Secures, Authenticates, Finishes
<1>4. UNCHANGED <<ss, down, proto, stream, challenges, stanzas>>
  BY DEF ClientStarts
<1>5. Coming' = <<>> /\ Accounted(ss)' /\ stream'.state = "Idle"
  BY <1>2, <1>3, <1>4 DEF Coming, LoginInv
<1>6. CASE stream.sslnow
  <2>1. client' = [client EXCEPT !.waits = "hello", !.layers = <<"TLS">>]
        /\ up' = Append(up, Item("hello", <<"TLS">>))
    BY <1>6 DEF ClientStarts
  <2>2. /\ client' \in Clients /\ client'.waits = "hello" /\ client'.layers = <<"TLS">>
        /\ client'.old = client.old /\ client'.mech = client.mech
    <3>1. <<"TLS">> \in Stacks
      BY DEF Stacks
    <3> QED BY <3>1, <2>1, <1>1 DEF Clients
  <2>3. up' = <<Item("hello", <<"TLS">>)>>
    BY <2>1, <1>3, AppendOne, Zenon
  <2>4. Asked("hello")'
    BY <2>2, <2>3, <1>3, <1>4, <1>5, <1>6 DEF Asked
  <2>5. Secures'
    BY <2>2, <2>4, <1>3, <1>4, <1>6 DEF Secures
  <2>6. LoginTypes'
    BY <2>2, <1>4 DEF LoginInv, LoginTypes
  <2>7. UserKnown'
    BY <2>2, <1>3, <1>4, NoSASL DEF UserKnown
  <2> QED BY <2>5, <2>6, <2>7, <1>5 DEF LoginInv
<1>7. CASE ~stream.sslnow
  <2>1. client' = [client EXCEPT !.waits = "open"]
        /\ up' = Append(up, Item(Opening, client.layers))
    BY <1>7 DEF ClientStarts, Send
  <2>2. /\ client' \in Clients /\ client'.waits = "open" /\ client'.layers = client.layers
        /\ client'.old = client.old /\ client'.mech = client.mech
    BY <2>1, <1>1 DEF Clients
  <2>3. up' = <<Item(Opening, client.layers)>>
    BY <2>1, <1>3, AppendOne, Zenon
  <2>4. Asked(Opening)'
    BY <2>2, <2>3, <1>3, <1>4, <1>5, <1>7 DEF Asked, Opening
  <2>5. Opens'
    BY <2>2, <2>4, <1>3, <1>4, <1>7 DEF Opens, Same
  <2>6. LoginTypes'
    BY <2>2, <1>4 DEF LoginInv, LoginTypes
  <2>7. UserKnown'
    BY <2>2, <1>3, <1>4, <1>7 DEF UserKnown
  <2> QED BY <2>5, <2>6, <2>7, <1>5 DEF LoginInv
<1> QED BY <1>6, <1>7

\* What the client makes of each answer.
LEMMA Answered ==
    ASSUME NEW f \in FeatureSets, NEW c \in Clients
    PROVE  /\ Answer("open", f, c) =
                 IF c.old THEN [sends |-> "auth_get", c |-> [c EXCEPT !.waits = "auth_fields"]]
                 ELSE [sends |-> "nothing", c |-> [c EXCEPT !.waits = "features"]]
           /\ Answer("proceed", f, c) =
                 [sends |-> "hello", c |-> [c EXCEPT !.waits = "hello", !.layers = Append(@, "TLS")]]
           /\ Answer("hello", f, c) = [sends |-> "finished", c |-> [c EXCEPT !.waits = "finished"]]
           /\ Answer("finished", f, c) = [sends |-> Opening, c |-> [c EXCEPT !.waits = "open"]]
           /\ Answer("challenge", f, c) = [sends |-> "response", c |-> c]
           /\ Answer("success", f, c) =
                 [sends |-> Opening, c |-> [c EXCEPT !.waits = "open", !.layers = Append(@, "SASL")]]
           /\ Answer("auth_fields", f, c) = [sends |-> "auth_set", c |-> [c EXCEPT !.waits = "bound"]]
           /\ Answer("bound", f, c) = [sends |-> "nothing", c |-> [c EXCEPT !.waits = "nothing"]]
           /\ Answer("stanza", f, c) = [sends |-> "nothing", c |-> c]
BY DEF Answer

\* Of the features it takes TLS first, then a mechanism, then it binds.
LEMMA FeaturesAnswered ==
    ASSUME NEW f \in FeatureSets, NEW c \in Clients,
           f.mechs \/ f.bind, f.bind => ~f.mechs /\ ~f.tls
    PROVE  \/ /\ f.tls /\ "TLS" \notin ToSet(c.layers)
              /\ Answer("features", f, c) =
                    [sends |-> "starttls", c |-> [c EXCEPT !.waits = "proceed"]]
           \/ /\ f.mechs
              /\ Answer("features", f, c) = [sends |-> "auth", c |-> [c EXCEPT !.waits = "sasl"]]
           \/ /\ f.bind /\ ~f.mechs
              /\ Answer("features", f, c) = [sends |-> "bind", c |-> [c EXCEPT !.waits = "bound"]]
<1>1. /\ f.tls \in BOOLEAN /\ f.mechs \in BOOLEAN /\ f.bind \in BOOLEAN
      /\ c.starttls \in BOOLEAN
  BY DEF FeatureSets, Clients
<1>2. PICK tls \in BOOLEAN :
          tls = (f.tls /\ c.starttls /\ "TLS" \notin ToSet(c.layers))
  OBVIOUS
<1>3. CASE tls
  <2>1. Answer("features", f, c) = [sends |-> "starttls", c |-> [c EXCEPT !.waits = "proceed"]]
    BY <1>2, <1>3 DEF Answer
  <2> QED BY <2>1, <1>2, <1>3
<1>4. CASE ~tls /\ f.mechs
  <2>1. Answer("features", f, c) = [sends |-> "auth", c |-> [c EXCEPT !.waits = "sasl"]]
    BY <1>2, <1>4 DEF Answer
  <2> QED BY <2>1, <1>4
<1>5. CASE ~tls /\ ~f.mechs
  <2>1. Answer("features", f, c) = [sends |-> "bind", c |-> [c EXCEPT !.waits = "bound"]]
    BY <1>2, <1>5 DEF Answer
  <2> QED BY <2>1, <1>5
<1> QED BY <1>3, <1>4, <1>5

\* Takes(name, f): the client reads the first thing that comes, which is name.
Takes(name, f) ==
    /\ f \in FeatureSets /\ Coming # <<>> /\ Coming \in Seq(Items)
    /\ Coming[1].kind.name = name /\ Coming[1].kind.features = f
    /\ Coming' = Tail(Coming)
    /\ client' = Answer(name, f, client).c
    /\ up' = IF Answer(name, f, client).sends = "nothing" THEN up
             ELSE Append(up, Item(Answer(name, f, client).sends, Answer(name, f, client).c.layers))
    /\ UNCHANGED <<ss, proto, stream, challenges, stanzas>> /\ down' \in Seq(Items)

\* A client that reads takes what comes first.
LEMMA ReadsTakes ==
    ASSUME LoginInv, ClientReads
    PROVE  /\ \E name \in Answers, f \in FeatureSets : Takes(name, f)
           /\ stream.state \in {"Idle", "Active"}
<1>1. down # <<>> /\ down \in Seq(Items) /\ ss.out \in Seq(Entries)
  BY StreamParts DEF ClientReads, LoginInv, LoginTypes, Accounted
<1>2. PICK i \in Items : i = Head(down) /\ i = Coming[1] /\ Coming # <<>> /\ Coming \in Seq(Items)
                         /\ Tail(down) \o Carried(ss.out) = Tail(Coming)
                         /\ Tail(down) \in Seq(Items)
  BY <1>1, ComingFacts DEF Coming
<1>3. i.kind.name \in Answers /\ i.kind.features \in FeatureSets
  BY DEF Items
<1>4. PICK name \in Answers, f \in FeatureSets : name = i.kind.name /\ f = i.kind.features
  BY <1>3
<1>5. PICK a : a = Answer(name, f, client)
  OBVIOUS
<1>6. /\ client' = a.c
      /\ up' = (IF a.sends = "nothing" THEN up ELSE Append(up, Item(a.sends, a.c.layers)))
      /\ down' = Tail(down) /\ UNCHANGED <<ss, proto, stream, challenges, stanzas>>
  BY <1>2, <1>4, <1>5 DEF ClientReads
<1>7. Coming' = Tail(Coming)
  BY <1>2, <1>6 DEF Coming
<1>8. Takes(name, f)
  BY <1>2, <1>4, <1>5, <1>6, <1>7 DEF Takes
<1>9. stream.state \in {"Idle", "Active"}
  BY <1>1 DEF LoginInv, LoginTypes, Conns, Ended
<1> QED BY <1>8, <1>9

\* The last thing that was told is read: nothing else is on its way.
LEMMA TakesLast ==
    ASSUME NEW name, NEW f, Takes(name, f), NEW only, Told(<<only>>)
    PROVE  name = only /\ Coming' = <<>> /\ up = <<>>
<1>1. Len(<<only>>) = 1 /\ <<only>>[1] = only /\ 1 \in DOMAIN <<only>>
  OBVIOUS
<1>2. name = only /\ Len(Coming) = 1
  BY <1>1 DEF Takes, Told
<1>3. PICK c \in Seq(Items) : c = Coming /\ c # <<>> /\ Len(c) = 1
  BY <1>2 DEF Takes
<1>4. Tail(c) \in Seq(Items) /\ Len(Tail(c)) = 0
  BY <1>3, HeadTailProperties
<1>5. Tail(c) = <<>>
  BY <1>4, EmptySeq
<1> QED BY <1>2, <1>3, <1>5 DEF Takes, Told

\* Sent(kind, c): the client sends this and is then c.
Sent(kind, c) ==
    /\ up' = <<Item(kind, c.layers)>> /\ client' = c /\ Coming' = <<>>
    /\ UNCHANGED <<ss, proto, stream, challenges, stanzas>>

\* It is the server's turn.
LEMMA SentAsked ==
    ASSUME NEW kind, NEW c, Sent(kind, c), LayerTypes(ss) = c.layers
    PROVE  Asked(kind)'
BY DEF Sent, Asked

\* The answer to the last thing that was told is sent.
LEMMA LastSent ==
    ASSUME NEW name, NEW f, Takes(name, f), NEW only, Told(<<only>>),
           NEW kind, NEW c, Answer(only, f, client) = [sends |-> kind, c |-> c], kind # "nothing"
    PROVE  name = only /\ Sent(kind, c)
<1>1. name = only /\ Coming' = <<>> /\ up = <<>>
  BY TakesLast
<1>2. Answer(name, f, client).sends = kind /\ Answer(name, f, client).c = c
  BY <1>1
<1>3. up' = Append(<<>>, Item(kind, c.layers))
  BY <1>1, <1>2 DEF Takes
<1>4. up' = <<Item(kind, c.layers)>>
  BY <1>3, AppendOne, Zenon
<1> QED BY <1>1, <1>2, <1>4 DEF Takes, Sent

\* Steps(c): the client has gone on to c, and nobody else has moved.
Steps(c) ==
    /\ client' = c /\ c \in Clients /\ c.waits # "start"
    /\ c.old = client.old /\ c.mech = client.mech
    /\ "TLS" \in ToSet(client.layers) => "TLS" \in ToSet(c.layers)
    /\ UNCHANGED <<ss, proto, stream, challenges, stanzas>> /\ down' \in Seq(Items)

\* The invariant holds after that, if one of the phases does.
LEMMA ClientKept ==
    ASSUME LoginInv, NEW c, Steps(c), client.waits # "start", stream.state = "Idle",
           Opens' \/ Chooses' \/ Secures' \/ Authenticates' \/ Finishes'
    PROVE  LoginInv'
<1>1. LoginTypes'
  BY DEF LoginInv, LoginTypes, Steps
<1>2. Accounted(ss)'
  BY DEF LoginInv, Steps
<1>3. UserKnown'
  BY DEF LoginInv, UserKnown, Steps
<1>4. stream'.state = "Idle"
  BY DEF Steps
<1> QED BY <1>1, <1>2, <1>3, <1>4 DEF LoginInv

\* What the client is when it waits for something else.
LEMMA WaitsFor ==
    ASSUME NEW c \in Clients, NEW d, NEW name \in {"open", "features", "proceed", "hello", "finished",
                                                   "sasl", "auth_fields", "bound", "nothing"},
           d = [c EXCEPT !.waits = name]
    PROVE  /\ d \in Clients /\ d.waits = name /\ d.layers = c.layers /\ d.old = c.old
           /\ d.mech = c.mech
BY DEF Clients

\* The same when it puts a layer in place.
LEMMA WaitsUnder ==
    ASSUME NEW c \in Clients, NEW d, NEW name \in {"open", "hello"}, NEW type,
           Append(c.layers, type) \in Stacks,
           d = [c EXCEPT !.waits = name, !.layers = Append(@, type)]
    PROVE  /\ d \in Clients /\ d.waits = name /\ d.layers = Append(c.layers, type)
           /\ d.old = c.old /\ d.mech = c.mech
<1>1. PICK ls \in Stacks : ls = Append(c.layers, type)
  OBVIOUS
<1>2. d = [c EXCEPT !.waits = name, !.layers = ls]
  BY <1>1
<1> QED BY <1>1, <1>2 DEF Clients

\* A layer that is put in place leaves those below.
LEMMA Grows ==
    ASSUME NEW layers \in Stacks
    PROVE  \A x \in ToSet(layers) : x \in ToSet(Append(layers, "SASL"))
<1>1. PICK S : S = {"TLS", "SASL"}
  OBVIOUS
<1>2. PICK a \in S, b \in S : a = "TLS" /\ b = "SASL"
  BY <1>1
<1>3. <<>> \in Seq(S) /\ <<a>> \in Seq(S) /\ <<b>> \in Seq(S) /\ <<a, b>> \in Seq(S)
  OBVIOUS
<1>4. layers \in {<<>>, <<a>>, <<b>>, <<a, b>>}
  BY <1>2 DEF Stacks
<1>5. PICK old \in Seq(S) : old = layers
  BY <1>3, <1>4
<1>6. PICK new \in Seq(S) : new = Append(old, b) /\ Len(new) = Len(old) + 1
                            /\ \A k \in 1 .. Len(old) : new[k] = old[k]
  <2>1. Append(old, b) \in Seq(S) /\ Len(Append(old, b)) = Len(old) + 1
        /\ \A k \in 1 .. Len(old) : Append(old, b)[k] = old[k]
    BY AppendProperties
  <2> QED BY <2>1
<1>7. Len(old) \in Nat /\ DOMAIN old = 1 .. Len(old) /\ DOMAIN new = 1 .. Len(old) + 1
  BY <1>6, LenProperties
<1>8. \A k \in DOMAIN old : k \in DOMAIN new /\ new[k] = old[k]
  BY <1>6, <1>7
<1>9. \A x \in ToSet(old) : x \in ToSet(new)
  BY <1>8 DEF ToSet
<1> QED BY <1>2, <1>5, <1>6, <1>9

\* The client reads while it opens the stream.
LEMMA OpensReads ==
    ASSUME LoginInv, stream.state = "Idle", Opens, NEW name, NEW f, Takes(name, f)
    PROVE  LoginInv'
<1>1. client \in Clients /\ f \in FeatureSets /\ Coming # <<>> /\ down' \in Seq(Items)
      /\ UNCHANGED <<ss, proto, stream, challenges, stanzas>>
  BY DEF LoginInv, LoginTypes, Takes
<1>2. client.waits = "open" /\ Same
  BY DEF Opens
<1>3. CASE client.old /\ Told(<<"open">>) /\ proto.step = "GetAuthRequest" /\ proto.old
  <2>1. PICK c : c = [client EXCEPT !.waits = "auth_fields"]
    OBVIOUS
  <2>2. /\ c \in Clients /\ c.waits = "auth_fields" /\ c.layers = client.layers
        /\ c.old = client.old /\ c.mech = client.mech
    BY <2>1, <1>1, WaitsFor
  <2>3. Answer("open", f, client) = [sends |-> "auth_get", c |-> c]
    BY <2>1, <1>1, <1>3, Answered
  <2>4. Sent("auth_get", c)
    BY <2>3, <1>3, LastSent
  <2>5. Asked("auth_get")'
    BY <2>2, <2>4, <1>2, SentAsked DEF Same
  <2>6. client' = c
    BY <2>4 DEF Sent
  <2>7. Finishes'
    BY <2>2, <2>5, <2>6, <1>1, <1>2, <1>3 DEF Finishes, Same
  <2>8. Steps(c)
    BY <2>2, <2>6, <1>1 DEF Steps
  <2> QED BY <2>7, <2>8, <1>2, ClientKept
<1>4. CASE /\ ~client.old /\ Told(<<"open", "features">>) /\ proto.step = "GetRequest"
           /\ Coming[2].kind.features = Offered(proto)
  <2>1. PICK c : c = [client EXCEPT !.waits = "features"]
    OBVIOUS
  <2>2. /\ c \in Clients /\ c.waits = "features" /\ c.layers = client.layers
        /\ c.old = client.old /\ c.mech = client.mech
    BY <2>1, <1>1, WaitsFor
  <2>3. /\ Len(<<"open", "features">>) = 2 /\ <<"open", "features">>[1] = "open"
        /\ <<"open", "features">>[2] = "features"
        /\ 1 \in DOMAIN <<"open", "features">> /\ 2 \in DOMAIN <<"open", "features">>
    OBVIOUS
  <2>4. /\ name = "open" /\ Len(Coming) = 2 /\ up = <<>>
        /\ Coming[2].kind.name = "features" /\ Coming[2].layers = client.layers
    BY <2>3, <1>4 DEF Takes, Told
  <2>5. Answer(name, f, client) = [sends |-> "nothing", c |-> c]
    BY <2>1, <2>4, <1>1, <1>4, Answered
  <2>6. client' = c /\ up' = <<>> /\ Coming' = Tail(Coming)
    BY <2>4, <2>5 DEF Takes
  <2>7. PICK d \in Seq(Items) : d = Coming /\ d # <<>> /\ Len(d) = 2
    BY <2>4, <1>1 DEF Takes
  <2>8. PICK t \in Seq(Items) : t = Tail(d) /\ Len(t) = 1 /\ t[1] = d[2]
    <3>1. Tail(d) \in Seq(Items) /\ Len(Tail(d)) = 2 - 1
      BY <2>7, HeadTailProperties
    <3>2. \A k \in 1 .. Len(Tail(d)) : Tail(d)[k] = d[k + 1]
      BY <2>7, HeadTailProperties
    <3> DEFINE u == Tail(d)
    <3> HIDE DEF u
    <3>3. u \in Seq(Items) /\ Len(u) = 1 /\ \A k \in 1 .. Len(u) : u[k] = d[k + 1]
      BY <3>1, <3>2 DEF u
    <3>4. u[1] = d[1 + 1]
      BY <3>3
    <3>5. u[1] = d[2]
      BY <3>4
    <3> QED BY <3>3, <3>5 DEF u
  <2>9. Len(<<"features">>) = 1 /\ <<"features">>[1] = "features"
        /\ \A k \in DOMAIN <<"features">> : k = 1
    OBVIOUS
  <2>10. Told(<<"features">>)'
    BY <2>2, <2>4, <2>6, <2>7, <2>8, <2>9 DEF Told
  <2>11. Coming'[1].kind.features = Offered(proto)'
    BY <2>6, <2>7, <2>8, <1>1, <1>4
  <2>12. Chooses'
    BY <2>2, <2>6, <2>10, <2>11, <1>1, <1>2, <1>4 DEF Chooses, Same
  <2>13. Steps(c)
    BY <2>2, <2>6, <1>1 DEF Steps
  <2> QED BY <2>12, <2>13, <1>2, ClientKept
<1> QED BY <1>1, <1>3, <1>4 DEF Opens, Asked

\* The client reads what is offered.
LEMMA ChoosesReads ==
    ASSUME LoginInv, stream.state = "Idle", Chooses, NEW name, NEW f, Takes(name, f)
    PROVE  LoginInv'
<1>1. client \in Clients /\ f \in FeatureSets /\ proto \in Protos /\ down' \in Seq(Items)
      /\ UNCHANGED <<ss, proto, stream, challenges, stanzas>> /\ UserKnown
  BY DEF LoginInv, LoginTypes, Takes
<1>2. client.waits = "features" /\ Same /\ ~client.old /\ Told(<<"features">>)
      /\ proto.step = "GetRequest" /\ f = Offered(proto)
  BY DEF Chooses, Takes
<1>3. /\ f.tls = (~proto.tls_started /\ ~proto.sasl_authed)
      /\ f.mechs = ~proto.sasl_authed /\ f.bind = proto.sasl_authed
      /\ proto.sasl_authed \in BOOLEAN
  BY <1>1, <1>2, FeatureTypes DEF Protos
<1>4. \/ /\ f.tls /\ "TLS" \notin ToSet(client.layers)
         /\ Answer("features", f, client) =
               [sends |-> "starttls", c |-> [client EXCEPT !.waits = "proceed"]]
      \/ /\ f.mechs
         /\ Answer("features", f, client) =
               [sends |-> "auth", c |-> [client EXCEPT !.waits = "sasl"]]
      \/ /\ f.bind /\ ~f.mechs
         /\ Answer("features", f, client) =
               [sends |-> "bind", c |-> [client EXCEPT !.waits = "bound"]]
  BY <1>1, <1>3, FeaturesAnswered
<1>5. CASE /\ f.tls /\ "TLS" \notin ToSet(client.layers)
           /\ Answer("features", f, client) =
                 [sends |-> "starttls", c |-> [client EXCEPT !.waits = "proceed"]]
  <2>1. PICK c : c = [client EXCEPT !.waits = "proceed"]
    OBVIOUS
  <2>2. /\ c \in Clients /\ c.waits = "proceed" /\ c.layers = client.layers
        /\ c.old = client.old /\ c.mech = client.mech
    BY <2>1, <1>1, WaitsFor
  <2>3. Sent("starttls", c)
    BY <2>1, <1>2, <1>5, LastSent
  <2>4. Asked("starttls")'
    BY <2>2, <2>3, <1>2, SentAsked DEF Same
  <2>5. client.layers = <<>>
    <3>1. "SASL" \notin ToSet(client.layers)
      BY <1>1, <1>2, <1>3, <1>5 DEF UserKnown, Same
    <3>2. client.layers \in {<<>>, <<"TLS">>}
      BY <3>1, <1>1, BeforeSASL DEF Clients
    <3> QED BY <3>2, <1>5, NoSASL
  <2>6. client' = c
    BY <2>3 DEF Sent
  <2>7. Secures'
    BY <2>2, <2>4, <2>5, <2>6, <1>1, <1>2 DEF Secures, Same
  <2>8. Steps(c)
    BY <2>2, <2>6, <1>1 DEF Steps
  <2> QED BY <2>7, <2>8, <1>2, ClientKept
<1>6. CASE /\ f.mechs
           /\ Answer("features", f, client) =
                 [sends |-> "auth", c |-> [client EXCEPT !.waits = "sasl"]]
  <2>1. PICK c : c = [client EXCEPT !.waits = "sasl"]
    OBVIOUS
  <2>2. /\ c \in Clients /\ c.waits = "sasl" /\ c.layers = client.layers
        /\ c.old = client.old /\ c.mech = client.mech
    BY <2>1, <1>1, WaitsFor
  <2>3. Sent("auth", c)
    BY <2>1, <1>2, <1>6, LastSent
  <2>4. Asked("auth")'
    BY <2>2, <2>3, <1>2, SentAsked DEF Same
  <2>5. client' = c
    BY <2>3 DEF Sent
  <2>6. Authenticates'
    BY <2>2, <2>4, <2>5, <1>1, <1>2, <1>3, <1>6 DEF Authenticates, Same
  <2>7. Steps(c)
    BY <2>2, <2>5, <1>1 DEF Steps
  <2> QED BY <2>6, <2>7, <1>2, ClientKept
<1>7. CASE /\ f.bind /\ ~f.mechs
           /\ Answer("features", f, client) =
                 [sends |-> "bind", c |-> [client EXCEPT !.waits = "bound"]]
  <2>1. PICK c : c = [client EXCEPT !.waits = "bound"]
    OBVIOUS
  <2>2. /\ c \in Clients /\ c.waits = "bound" /\ c.layers = client.layers
        /\ c.old = client.old /\ c.mech = client.mech
    BY <2>1, <1>1, WaitsFor
  <2>3. Sent("bind", c)
    BY <2>1, <1>2, <1>7, LastSent
  <2>4. Asked("bind")'
    BY <2>2, <2>3, <1>2, SentAsked DEF Same
  <2>5. client' = c
    BY <2>3 DEF Sent
  <2>6. Finishes'
    BY <2>2, <2>4, <2>5, <1>1, <1>2, <1>3, <1>7 DEF Finishes, Same
  <2>7. Steps(c)
    BY <2>2, <2>5, <1>1 DEF Steps
  <2> QED BY <2>6, <2>7, <1>2, ClientKept
<1> QED BY <1>4, <1>5, <1>6, <1>7

\* The client reads while TLS is put in place.
LEMMA SecuresReads ==
    ASSUME LoginInv, stream.state = "Idle", Secures, NEW name, NEW f, Takes(name, f)
    PROVE  LoginInv'
<1>1. client \in Clients /\ f \in FeatureSets /\ Coming # <<>> /\ down' \in Seq(Items)
      /\ UNCHANGED <<ss, proto, stream, challenges, stanzas>> /\ UserKnown
  BY DEF LoginInv, LoginTypes, Takes
<1>2. \A kind : ~Asked(kind)
  BY <1>1 DEF Asked
<1>3. \/ /\ client.waits = "proceed" /\ client.layers = <<>> /\ Told(<<"proceed">>)
         /\ LayerTypes(ss) = <<"TLS">> /\ ss.topInProgress /\ proto.step = "RecvOpen"
      \/ /\ client.waits = "hello" /\ client.layers = <<"TLS">> /\ Told(<<"hello">>)
         /\ LayerTypes(ss) = <<"TLS">> /\ ss.topInProgress
         /\ proto.step = (IF stream.sslnow THEN "Closed" ELSE "RecvOpen")
      \/ /\ client.waits = "finished" /\ client.layers = <<"TLS">> /\ Told(<<"finished">>)
         /\ Same /\ proto.step = "RecvOpen"
  BY <1>2 DEF Secures
<1>4. CASE /\ client.waits = "proceed" /\ client.layers = <<>> /\ Told(<<"proceed">>)
           /\ LayerTypes(ss) = <<"TLS">> /\ ss.topInProgress /\ proto.step = "RecvOpen"
  <2>1. PICK c : c = [client EXCEPT !.waits = "hello", !.layers = Append(@, "TLS")]
    OBVIOUS
  <2>2. Append(client.layers, "TLS") = <<"TLS">>
    BY <1>4, AppendOne, Zenon
  <2>3. /\ c \in Clients /\ c.waits = "hello" /\ c.layers = <<"TLS">>
        /\ c.old = client.old /\ c.mech = client.mech
    <3>1. Append(client.layers, "TLS") \in Stacks
      BY <2>2 DEF Stacks
    <3>2. /\ c \in Clients /\ c.waits = "hello" /\ c.layers = Append(client.layers, "TLS")
          /\ c.old = client.old /\ c.mech = client.mech
      BY <3>1, <2>1, <1>1, WaitsUnder
    <3> QED BY <3>2, <2>2
  <2>4. Answer("proceed", f, client) = [sends |-> "hello", c |-> c]
    BY <2>1, <1>1, Answered
  <2>5. Sent("hello", c)
    BY <2>4, <1>4, LastSent
  <2>6. Asked("hello")'
    BY <2>3, <2>5, <1>4, SentAsked
  <2>7. client' = c
    BY <2>5 DEF Sent
  <2>8. ~stream.sslnow
    BY <1>1, <1>4, NoSASL DEF UserKnown
  <2>9. Secures'
    BY <2>3, <2>6, <2>7, <2>8, <1>1, <1>4 DEF Secures
  <2>10. Steps(c)
    BY <2>3, <2>7, <1>1, NoSASL DEF Steps
  <2> QED BY <2>9, <2>10, <1>4, ClientKept
<1>5. CASE /\ client.waits = "hello" /\ client.layers = <<"TLS">> /\ Told(<<"hello">>)
           /\ LayerTypes(ss) = <<"TLS">> /\ ss.topInProgress
           /\ proto.step = (IF stream.sslnow THEN "Closed" ELSE "RecvOpen")
  <2>1. PICK c : c = [client EXCEPT !.waits = "finished"]
    OBVIOUS
  <2>2. /\ c \in Clients /\ c.waits = "finished" /\ c.layers = client.layers
        /\ c.old = client.old /\ c.mech = client.mech
    BY <2>1, <1>1, WaitsFor
  <2>3. Answer("hello", f, client) = [sends |-> "finished", c |-> c]
    BY <2>1, <1>1, Answered
  <2>4. Sent("finished", c)
    BY <2>3, <1>5, LastSent
  <2>5. Asked("finished")'
    BY <2>2, <2>4, <1>5, SentAsked
  <2>6. client' = c
    BY <2>4 DEF Sent
  <2>7. Secures'
    BY <2>2, <2>5, <2>6, <1>1, <1>5 DEF Secures
  <2>8. Steps(c)
    BY <2>2, <2>6, <1>1 DEF Steps
  <2> QED BY <2>7, <2>8, <1>5, ClientKept
<1>6. CASE /\ client.waits = "finished" /\ client.layers = <<"TLS">> /\ Told(<<"finished">>)
           /\ Same /\ proto.step = "RecvOpen"
  <2>1. PICK c : c = [client EXCEPT !.waits = "open"]
    OBVIOUS
  <2>2. /\ c \in Clients /\ c.waits = "open" /\ c.layers = client.layers
        /\ c.old = client.old /\ c.mech = client.mech
    BY <2>1, <1>1, WaitsFor
  <2>3. PICK kind : kind = Opening /\ kind # "nothing"
    BY DEF Opening
  <2>4. Answer("finished", f, client) = [sends |-> kind, c |-> c]
    BY <2>1, <2>3, <1>1, Answered
  <2>5. Sent(kind, c)
    BY <2>3, <2>4, <1>6, LastSent
  <2>6. Asked(kind)'
    BY <2>2, <2>5, <1>6, SentAsked DEF Same
  <2>7. client' = c
    BY <2>5 DEF Sent
  <2>8. Opening' = kind
    BY <2>2, <2>3, <2>7 DEF Opening
  <2>9. Opens'
    BY <2>2, <2>6, <2>7, <2>8, <1>1, <1>6 DEF Opens, Same, Asked
  <2>10. Steps(c)
    BY <2>2, <2>7, <1>1 DEF Steps
  <2> QED BY <2>9, <2>10, <1>6, ClientKept
<1> QED BY <1>3, <1>4, <1>5, <1>6

\* The client reads while SASL is under way.
LEMMA AuthenticatesReads ==
    ASSUME LoginInv, stream.state = "Idle", Authenticates, NEW name, NEW f, Takes(name, f)
    PROVE  LoginInv'
<1>1. client \in Clients /\ f \in FeatureSets /\ Coming # <<>> /\ down' \in Seq(Items)
      /\ UNCHANGED <<ss, proto, stream, challenges, stanzas>> /\ Accounted(ss)
  BY DEF LoginInv, LoginTypes, Takes
<1>2. \A kind : ~Asked(kind)
  BY <1>1 DEF Asked
<1>3. /\ client.waits = "sasl" /\ ~client.old /\ ~ss.topInProgress
      /\ \/ /\ client.mech = "challenges" /\ ~proto.sasl_authed
            /\ proto.step = "GetSASLResponse" /\ Same /\ Told(<<"challenge">>)
         \/ /\ Told(<<"success">>) /\ proto.step = "RecvOpen" /\ proto.sasl_authed
            /\ LayerTypes(ss) = Append(client.layers, "SASL")
  BY <1>2 DEF Authenticates
<1>4. CASE /\ client.mech = "challenges" /\ ~proto.sasl_authed
           /\ proto.step = "GetSASLResponse" /\ Same /\ Told(<<"challenge">>)
  <2>1. PICK c : c = client
    OBVIOUS
  <2>2. Answer("challenge", f, client) = [sends |-> "response", c |-> c]
    BY <2>1, <1>1, Answered
  <2>3. Sent("response", c)
    BY <2>2, <1>4, LastSent
  <2>4. Asked("response")'
    BY <2>1, <2>3, <1>4, SentAsked DEF Same
  <2>5. client' = client
    BY <2>1, <2>3 DEF Sent
  <2>6. Authenticates'
    BY <2>4, <2>5, <1>1, <1>3, <1>4 DEF Authenticates, Same
  <2>7. Steps(c)
    BY <2>1, <2>5, <1>1, <1>3 DEF Steps
  <2> QED BY <2>6, <2>7, <1>3, ClientKept
<1>5. CASE /\ Told(<<"success">>) /\ proto.step = "RecvOpen" /\ proto.sasl_authed
           /\ LayerTypes(ss) = Append(client.layers, "SASL")
  <2>1. PICK c : c = [client EXCEPT !.waits = "open", !.layers = Append(@, "SASL")]
    OBVIOUS
  <2>2. /\ c \in Clients /\ c.waits = "open" /\ c.layers = LayerTypes(ss)
        /\ c.old = client.old /\ c.mech = client.mech
    <3>1. Append(client.layers, "SASL") \in Stacks
      BY <1>1, <1>5, StackTypes
    <3> QED BY <3>1, <2>1, <1>1, <1>5, WaitsUnder
  <2>3. PICK kind : kind = Opening /\ kind # "nothing"
    BY DEF Opening
  <2>4. Answer("success", f, client) = [sends |-> kind, c |-> c]
    BY <2>1, <2>3, <1>1, Answered
  <2>5. Sent(kind, c)
    BY <2>3, <2>4, <1>5, LastSent
  <2>6. Asked(kind)'
    BY <2>2, <2>5, SentAsked
  <2>7. client' = c
    BY <2>5 DEF Sent
  <2>8. Opening' = kind
    BY <2>2, <2>3, <2>7 DEF Opening
  <2>9. Opens'
    BY <2>2, <2>6, <2>7, <2>8, <1>1, <1>3, <1>5 DEF Opens, Same, Asked
  <2>10. "TLS" \in ToSet(client.layers) => "TLS" \in ToSet(c.layers)
    <3>1. client.layers \in Stacks /\ c.layers = Append(client.layers, "SASL")
      BY <2>2, <1>1, <1>5 DEF Clients
    <3> QED BY <3>1, Grows
  <2>11. Steps(c)
    BY <2>2, <2>7, <2>10, <1>1 DEF Steps
  <2> QED BY <2>9, <2>11, <1>3, ClientKept
<1> QED BY <1>3, <1>4, <1>5

\* The client reads what iq:auth wants.
LEMMA FinishesReads ==
    ASSUME LoginInv, stream.state = "Idle", Finishes, NEW name, NEW f, Takes(name, f)
    PROVE  LoginInv'
<1>1. client \in Clients /\ f \in FeatureSets /\ Coming # <<>> /\ down' \in Seq(Items)
      /\ UNCHANGED <<ss, proto, stream, challenges, stanzas>>
  BY DEF LoginInv, LoginTypes, Takes
<1>2. \A kind : ~Asked(kind)
  BY <1>1 DEF Asked
<1>3. /\ Same /\ client.waits = "auth_fields" /\ client.old /\ proto.old
      /\ proto.step = "GetAuthRequest" /\ Told(<<"auth_fields">>)
  BY <1>2 DEF Finishes
<1>4. PICK c : c = [client EXCEPT !.waits = "bound"]
  OBVIOUS
<1>5. /\ c \in Clients /\ c.waits = "bound" /\ c.layers = client.layers
      /\ c.old = client.old /\ c.mech = client.mech
  BY <1>1, <1>4, WaitsFor
<1>6. Answer("auth_fields", f, client) = [sends |-> "auth_set", c |-> c]
  BY <1>1, <1>4, Answered
<1>7. Sent("auth_set", c)
  BY <1>3, <1>6, LastSent
<1>8. Asked("auth_set")'
  BY <1>3, <1>5, <1>7, SentAsked DEF Same
<1>9. client' = c
  BY <1>7 DEF Sent
<1>10. Finishes'
  BY <1>1, <1>3, <1>5, <1>8, <1>9 DEF Finishes, Same
<1>11. Steps(c)
  BY <1>1, <1>5, <1>9 DEF Steps
<1> QED BY <1>3, <1>10, <1>11, ClientKept

\* The client reads when the session is announced.
LEMMA OnlineReads ==
    ASSUME LoginInv, stream.state = "Active", NEW name, NEW f, Takes(name, f)
    PROVE  LoginInv'
<1>1. client \in Clients /\ f \in FeatureSets /\ down' \in Seq(Items) /\ Online /\ Accounted(ss)
      /\ UNCHANGED <<ss, proto, stream, challenges, stanzas>>
  BY DEF LoginInv, LoginTypes, Takes
<1>2. PICK d \in Seq(Items) : d = Coming /\ d # <<>> /\ Coming' = Tail(d)
  BY DEF Takes
<1>3. PICK m \in Nat : Len(d) = m + 1
  <2>1. Len(d) \in Nat \ {0}
    BY <1>2, EmptySeq
  <2>2. Len(d) - 1 \in Nat /\ Len(d) = (Len(d) - 1) + 1
    BY <2>1
  <2> QED BY <2>2
<1>4. PICK t \in Seq(Items) : t = Tail(d) /\ DOMAIN t = 1 .. m
                              /\ \A k \in 1 .. m : t[k] = d[k + 1] /\ k + 1 \in DOMAIN d /\ k + 1 # 1
  <2>1. Tail(d) \in Seq(Items) /\ Len(Tail(d)) = m
    BY <1>2, <1>3, HeadTailProperties
  <2>2. \A k \in 1 .. m : Tail(d)[k] = d[k + 1]
    BY <2>1, <1>2, HeadTailProperties
  <2>3. DOMAIN Tail(d) = 1 .. m /\ DOMAIN d = 1 .. m + 1
    BY <2>1, <1>3, LenProperties
  <2>4. \A k \in 1 .. m : k + 1 \in 1 .. m + 1 /\ k + 1 # 1
    OBVIOUS
  <2> QED BY <2>1, <2>2, <2>3, <2>4
<1>5. 1 \in DOMAIN d
  BY <1>3, LenProperties
<1>6. name = (IF client.waits = "bound" THEN "bound" ELSE "stanza") /\ up = <<>>
      /\ client.waits \in {"bound", "nothing"}
  BY <1>1, <1>2, <1>5 DEF Online, Takes
<1>7. \A k \in 1 .. m : t[k].layers = client.layers /\ t[k].kind.name = "stanza"
  BY <1>1, <1>2, <1>4 DEF Online
<1>8. /\ client' \in Clients /\ client'.waits = "nothing" /\ client'.layers = client.layers
      /\ client'.old = client.old /\ client'.mech = client.mech /\ up' = <<>>
  <2>1. CASE client.waits = "bound"
    <3>1. PICK c : c = [client EXCEPT !.waits = "nothing"]
      OBVIOUS
    <3>2. /\ c \in Clients /\ c.waits = "nothing" /\ c.layers = client.layers
          /\ c.old = client.old /\ c.mech = client.mech
      BY <3>1, <1>1, WaitsFor
    <3>3. Answer(name, f, client) = [sends |-> "nothing", c |-> c]
      BY <3>1, <2>1, <1>1, <1>6, Answered
    <3>4. client' = c /\ up' = up
      BY <3>3 DEF Takes
    <3> QED BY <3>2, <3>4, <1>6
  <2>2. CASE client.waits = "nothing"
    <3>1. Answer(name, f, client) = [sends |-> "nothing", c |-> client]
      BY <2>2, <1>1, <1>6, Answered
    <3>2. client' = client /\ up' = up
      BY <3>1 DEF Takes
    <3> QED BY <3>2, <2>2, <1>1, <1>6
  <2> QED BY <2>1, <2>2, <1>6
<1>9. Online'
  <2>1. \A k \in DOMAIN Coming' :
            /\ Coming'[k].layers = client'.layers
            /\ Coming'[k].kind.name =
                  IF k = 1 /\ client'.waits = "bound" THEN "bound" ELSE "stanza"
    BY <1>2, <1>4, <1>7, <1>8
  <2>2. proto' = proto /\ stream' = stream /\ ss' = ss
    BY <1>1
  <2> QED BY <2>1, <2>2, <1>1, <1>8 DEF Online, Same
<1>10. LoginTypes'
  BY <1>1, <1>8 DEF LoginInv, LoginTypes
<1>11. Accounted(ss)' /\ stream'.state = "Active"
  BY <1>1
<1> QED BY <1>9, <1>10, <1>11 DEF LoginInv

\* The client reads.
LEMMA ClientReadsKeeps ==
    ASSUME LoginInv, ClientReads
    PROVE  LoginInv'
<1>1. PICK name \in Answers, f \in FeatureSets : Takes(name, f)
  BY ReadsTakes
<1>2. CASE stream.state = "Active"
  BY <1>1, <1>2, OnlineReads
<1>3. CASE stream.state = "Idle"
  <2>1. ~Begins
    BY <1>1 DEF Begins, Takes
  <2>2. Opens \/ Chooses \/ Secures \/ Authenticates \/ Finishes
    BY <2>1, <1>3 DEF LoginInv
  <2> QED BY <2>2, <1>1, <1>3, OpensReads, ChoosesReads, SecuresReads, AuthenticatesReads,
             FinishesReads
<1> QED BY <1>2, <1>3, ReadsTakes

-----------------------------------------------------------------------------
\* It holds where a connection begins, with TLS and without.
LEMMA InitHolds == Init => LoginInv
<1> SUFFICES ASSUME Init PROVE LoginInv
  OBVIOUS
<1>1. PICK old \in BOOLEAN, sslnow \in BOOLEAN, tls \in BOOLEAN, starttls \in BOOLEAN,
           password \in BOOLEAN, mech \in {"one_step", "challenges"} :
          /\ sslnow => tls
          /\ stream = [state |-> "Idle", tls |-> tls, sslnow |-> sslnow, jid |-> "none"]
          /\ ss = (IF sslnow THEN StartTLS(Idle) ELSE Idle)
          /\ proto = [step |-> IF sslnow THEN "Closed" ELSE "RecvOpen", old |-> FALSE,
                      tls_started |-> FALSE, sasl_started |-> FALSE,
                      sasl_authed |-> FALSE, user |-> "none"]
          /\ client = [waits |-> "start", layers |-> <<>>, old |-> old,
                       starttls |-> starttls, mech |-> mech, password |-> password]
  BY Zenon DEF Init
<1>2. up = <<>> /\ down = <<>> /\ challenges = 0 /\ stanzas = 0
  BY DEF Init
<1>3. /\ Accounted(ss) /\ ss.topInProgress = sslnow /\ ss.out = <<>>
      /\ LayerTypes(ss) = (IF sslnow THEN <<"TLS">> ELSE <<>>)
  <2>1. CASE sslnow
    <3>1. ss = StartTLS(Idle)
      BY <2>1, <1>1
    <3> QED BY <3>1, <2>1, IdleFacts
  <2>2. CASE ~sslnow
    <3>1. ss = Idle
      BY <2>2, <1>1
    <3>2. Idle.topInProgress = FALSE
      BY DEF Idle
    <3> QED BY <3>1, <3>2, <2>2, IdleFacts
  <2> QED BY <2>1, <2>2
<1>4. Coming = <<>>
  <2>1. <<>> \in Seq(Entries) /\ <<>> \in Seq(Items)
    OBVIOUS
  <2>2. Carried(<<>>) = <<>> /\ <<>> \o Carried(<<>>) = Carried(<<>>)
    BY <2>1, CarriedFacts
  <2> QED BY <2>2, <1>2, <1>3 DEF Coming
<1>5. LoginTypes
  <2>1. <<>> \in Stacks /\ <<>> \in Seq(Items)
    BY DEF Stacks
  <2>2. stream \in Conns
    BY <1>1 DEF Conns
  <2>3. proto \in Protos
    BY <1>1 DEF Protos
  <2>4. client \in Clients
    BY <2>1, <1>1 DEF Clients
  <2>5. challenges \in 0 .. MaxChallenges /\ stanzas \in 0 .. MaxStanzas
    BY <1>2, BoundsAssumption
  <2> QED BY <2>1, <2>2, <2>3, <2>4, <2>5, <1>2 DEF LoginTypes
<1>6. /\ stream.state = "Idle" /\ stream.sslnow = sslnow /\ proto.old = FALSE
      /\ proto.sasl_authed = FALSE /\ proto.user = "none"
      /\ proto.step = (IF sslnow THEN "Closed" ELSE "RecvOpen")
      /\ client.waits = "start" /\ client.layers = <<>>
  BY <1>1
<1>7. Begins
  BY <1>2, <1>3, <1>4, <1>6 DEF Begins
<1>8. UserKnown
  <2>1. "SASL" \notin ToSet(LayerTypes(ss))
    BY <1>3, NoSASL
  <2> QED BY <2>1, <1>6 DEF UserKnown
<1> QED BY <1>3, <1>5, <1>6, <1>7, <1>8 DEF LoginInv

\* Every step keeps it.
LEMMA NextKeeps == LoginInv /\ [Next]_vars => LoginInv'
<1> SUFFICES ASSUME LoginInv, [Next]_vars PROVE LoginInv'
  OBVIOUS
<1>1. CASE ServerReads
  <2>1. CASE \E old \in BOOLEAN : ReadOpen(old)
    BY <2>1, ReadOpenKeeps
  <2>2. CASE ReadStartTLS
    BY <2>2, ReadStartTLSKeeps
  <2>3. CASE ReadHandshake("hello", FALSE)
    BY <2>3, ReadHandshakeKeeps
  <2>4. CASE ReadHandshake("finished", TRUE)
    BY <2>4, ReadHandshakeKeeps
  <2>5. CASE HandshakeFails
    BY <2>5, HandshakeFailsKeeps
  <2>6. CASE ReadAuth
    BY <2>6, ReadAuthKeeps
  <2>7. CASE ReadResponse
    BY <2>7, ReadResponseKeeps
  <2>8. CASE ReadBind
    BY <2>8, ReadBindKeeps
  <2>9. CASE ReadAuthGet
    BY <2>9, ReadAuthGetKeeps
  <2>10. CASE ReadAuthSet
    BY <2>10, ReadAuthSetKeeps
  <2> QED BY <1>1, <2>1, <2>2, <2>3, <2>4, <2>5, <2>6, <2>7, <2>8, <2>9, <2>10 DEF ServerReads
<1>2. CASE SocketStep
  BY <1>2, SocketWritesKeeps DEF SocketStep
<1>3. CASE ClientStarts
  BY <1>3, ClientStartsKeeps
<1>4. CASE ClientReads
  BY <1>4, ClientReadsKeeps
<1>5. CASE WriteStanza
  BY <1>5, WriteStanzaKeeps
<1>6. CASE UNCHANGED vars
  <2>1. /\ ss' = ss /\ up' = up /\ down' = down /\ proto' = proto /\ stream' = stream
        /\ client' = client /\ challenges' = challenges /\ stanzas' = stanzas
    BY <1>6 DEF vars
  <2>2. Coming' = Coming
    BY <2>1 DEF Coming
  <2>3. ASSUME NEW names, Told(names) PROVE Told(names)'
    BY <2>1, <2>2, <2>3 DEF Told
  <2>4. ASSUME NEW kind, Asked(kind) PROVE Asked(kind)'
    BY <2>1, <2>2, <2>4 DEF Asked
  <2>5. UserKnown => UserKnown'
    BY <2>1 DEF UserKnown
  <2>6. Begins => Begins'
    BY <2>1, <2>2 DEF Begins
  <2>7. Opens => Opens'
    BY <2>1, <2>2, <2>3, <2>4 DEF Opens, Same, Opening
  <2>8. Chooses => Chooses'
    BY <2>1, <2>2, <2>3 DEF Chooses, Same
  <2>9. Secures => Secures'
    BY <2>1, <2>3, <2>4 DEF Secures, Same
  <2>10. Authenticates => Authenticates'
    BY <2>1, <2>3, <2>4 DEF Authenticates, Same
  <2>11. Finishes => Finishes'
    BY <2>1, <2>3, <2>4 DEF Finishes, Same
  <2>12. Online => Online'
    BY <2>1, <2>2 DEF Online, Same
  <2>13. Ended => Ended'
    BY <2>1 DEF Ended
  <2>14. LoginTypes' /\ Accounted(ss)'
    BY <2>1 DEF LoginInv, LoginTypes
  <2>15. stream.state = "Idle" =>
             UserKnown' /\ (Begins' \/ Opens' \/ Chooses' \/ Secures' \/ Authenticates' \/ Finishes')
    BY <2>5, <2>6, <2>7, <2>8, <2>9, <2>10, <2>11 DEF LoginInv
  <2>16. /\ stream.state = "Active" => Online'
         /\ stream.state \notin {"Idle", "Active"} => Ended'
    BY <2>12, <2>13 DEF LoginInv
  <2> QED BY <2>1, <2>14, <2>15, <2>16 DEF LoginInv
<1> QED BY <1>1, <1>2, <1>3, <1>4, <1>5, <1>6 DEF Next, ClientStep

\* The accounting of the layers and the phase of the protocol, throughout.
THEOREM PhasesKept == Spec => []LoginInv
<1>1. LoginInv /\ [Next]_vars => LoginInv'
  BY NextKeeps
<1> QED BY <1>1, InitHolds, PTL DEF Spec

\* Every variable has its type, and no layer is twice in a stack or out of
\* order in it.
THEOREM TypeCorrect == Spec => []TypeOK
<1>1. LoginInv => TypeOK
  <2> SUFFICES ASSUME LoginInv PROVE TypeOK
    OBVIOUS
  <2>1. /\ Accounted(ss) /\ ss \in Streams /\ proto \in Protos /\ stream \in Conns
        /\ client \in Clients
        /\ challenges \in 0 .. MaxChallenges /\ stanzas \in 0 .. MaxStanzas
    BY DEF LoginInv, LoginTypes, Accounted
  <2>2. LayerTypes(ss) \in Stacks /\ client.layers \in Stacks
    BY <2>1, StackTypes DEF Clients
  <2>3. ss.pending \in Nat /\ ss.reported \in Nat
    BY <2>1, StreamParts
  <2>4. /\ proto.step \in {"Closed", "RecvOpen", "GetRequest", "GetSASLResponse",
                           "GetAuthRequest", "Done", "reset"}
        /\ stream.state \in {"Idle", "Active", "reset", "crashed"}
    BY <2>1 DEF Protos, Conns
  <2> QED BY <2>1, <2>2, <2>3, <2>4 DEF TypeOK, Stacks
<1> QED BY <1>1, PhasesKept, PTL

\* Every byte that the stream writes is reported once, when it has left: through
\* <proceed/> and the handshake, through <success/>, under each stack of layers
\* and whatever the overhead of each.
THEOREM BytesReported == Spec => []WritesReported
<1>1. LoginInv => WritesReported
  BY DEF LoginInv, Accounted, WritesReported
<1> QED BY <1>1, PhasesKept, PTL

\* A session is announced under the name that was authenticated, or under none
\* when the mechanism took one step.
THEOREM NamesAnnounced == Spec => []Announced
<1>1. LoginInv => Announced
  BY DEF LoginInv, Online, Announced
<1> QED BY <1>1, PhasesKept, PTL

\* Each end takes off the layers that the other put on.
THEOREM LayersAgree == Spec => []SameLayers
<1>1. LoginInv => SameLayers
  <2> SUFFICES ASSUME LoginInv PROVE SameLayers
    OBVIOUS
  <2>1. down \in Seq(Items) /\ ss.out \in Seq(Entries) /\ stream \in Conns
    BY StreamParts DEF LoginInv, LoginTypes, Accounted
  <2>2. ASSUME down # <<>> PROVE Head(down).layers = client.layers
    <3>1. PICK d \in Seq(Items) : d = Coming /\ d # <<>> /\ Head(down) = d[1]
      BY <2>1, <2>2, ComingFacts DEF Coming
    <3>2. Len(d) \in Nat \ {0} /\ DOMAIN d = 1 .. Len(d)
      BY <3>1, EmptySeq, LenProperties
    <3>3. 1 \in DOMAIN d
      BY <3>2
    <3>4. stream.state \in {"Idle", "Active"}
      BY <2>1, <2>2 DEF LoginInv, Conns, Ended
    <3>5. ASSUME NEW names, Told(names), 1 \in DOMAIN names PROVE d[1].layers = client.layers
      BY <3>1, <3>5 DEF Told
    <3>6. /\ \A x : 1 \in DOMAIN <<x>>
          /\ \A x, y : 1 \in DOMAIN <<x, y>>
      OBVIOUS
    <3>7. CASE stream.state = "Idle"
      <4>1. \A kind : ~Asked(kind)
        BY <3>1 DEF Asked
      <4>2. ~Begins
        BY <3>1 DEF Begins
      <4>3. \/ \E x : Told(<<x>>)
            \/ \E x, y : Told(<<x, y>>)
        BY <4>1, <4>2, <3>7 DEF LoginInv, Opens, Chooses, Secures, Authenticates, Finishes
      <4> QED BY <4>3, <3>1, <3>5, <3>6
    <3>8. CASE stream.state = "Active"
      BY <3>1, <3>3, <3>8 DEF LoginInv, Online
    <3> QED BY <3>4, <3>7, <3>8
  <2>3. ASSUME up # <<>>, stream.state \in {"Idle", "Active"}
        PROVE  Head(up).layers = LayerTypes(ss)
    <3>1. stream.state = "Idle"
      BY <2>3 DEF LoginInv, Online
    <3>2. \A names : ~Told(names)
      BY <2>3 DEF Told
    <3>3. PICK kind : Asked(kind)
      BY <2>3, <3>1, <3>2
         DEF LoginInv, Begins, Opens, Chooses, Secures, Authenticates, Finishes
    <3>4. PICK i : i = Item(kind, client.layers)
      OBVIOUS
    <3>5. Head(up) = i /\ i.layers = client.layers
      BY <3>3, <3>4 DEF Asked, Item
    <3> QED BY <3>3, <3>5 DEF Asked
  <2> QED BY <2>2, <2>3 DEF SameLayers
<1> QED BY <1>1, PhasesKept, PTL
=============================================================================
