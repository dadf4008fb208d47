----------------------------- MODULE StoreProofs -----------------------------
(***************************************************************************)
(* What holds of the simulated disk and of the programs on it for every    *)
(* value of their constants.  For the programs, the inductive invariant    *)
(* says of each where in its poll it may be and what is then on the        *)
(* device, however often and in whatever order faults strike.              *)
(***************************************************************************)
EXTENDS StorePrograms, FiniteSetTheorems, SequenceTheorems, WellFoundedInduction, TLAPS

-----------------------------------------------------------------------------
(* Replaying a log *)

\* A set of numbers has a least one.
LEMMA Least ==
  ASSUME NEW T \in SUBSET Nat, T # {}
  PROVE  \E n \in T : \A m \in T : n <= m
<1> DEFINE order == OpToRel(<, Nat)
<1>1. IsWellFoundedOn(order, Nat) BY NatLessThanWellFounded
<1>2. \E n \in T : \A m \in T : ~(<<m, n>> \in order) BY <1>1, WFMin, Zenon
<1>3. PICK n \in T : \A m \in T : ~(<<m, n>> \in order) BY <1>2
<1>4. \A m, k \in Nat : m < k => <<m, k>> \in order BY Zenon DEF OpToRel
<1> HIDE DEF order
<1>5. ASSUME NEW m \in T PROVE n <= m
  <2>1. ~(m < n) BY <1>3, <1>4
  <2> QED BY <2>1
<1> QED BY <1>3, <1>5

\* The function FoldLeft computes a replay with, up to the n-th write.
Unfolds(g, t, ws, n) ==
  g = [s \in SUBSET (1 .. n) |->
         IF s = {} THEN t ELSE ApplyBytes(g[s \ {Max(s)}], ws[Max(s)])]

LEMMA ReplayUnfolds ==
  ASSUME NEW t, NEW ws, NEW n \in Nat, DOMAIN ws = 1 .. n
  PROVE  Replay(t, ws) = (CHOOSE g : Unfolds(g, t, ws, n))[1 .. n]
BY Zenon DEF Replay, FoldLeft, MapThenFoldSet, Unfolds

\* The last write of the first n.
LEMMA MaxIsLast ==
  ASSUME NEW n \in Nat, NEW s \in SUBSET (1 .. n), n \in s
  PROVE  Max(s) = n
<1>1. \A y \in s : n >= y OBVIOUS
<1>2. PICK x \in s : x = Max(s) /\ \A y \in s : x >= y BY <1>1 DEF Max
<1> QED BY <1>1, <1>2

\* One more write to look at.
Longer(h, t, ws, n) ==
  [s \in SUBSET (1 .. n) |-> IF n \in s THEN ApplyBytes(h[s \ {n}], ws[n]) ELSE h[s]]

LEMMA LongerUnfolds ==
  ASSUME NEW t, NEW ws, NEW n \in Nat \ {0}, NEW h, Unfolds(h, t, ws, n - 1)
  PROVE  Unfolds(Longer(h, t, ws, n), t, ws, n)
<1> DEFINE g == Longer(h, t, ws, n)
<1>1. g = [s \in SUBSET (1 .. n) |-> IF n \in s THEN ApplyBytes(h[s \ {n}], ws[n]) ELSE h[s]]
  BY DEF Longer
<1> HIDE DEF g
<1>2. ASSUME NEW s \in SUBSET (1 .. n)
      PROVE  g[s] = IF s = {} THEN t ELSE ApplyBytes(g[s \ {Max(s)}], ws[Max(s)])
  <2>1. CASE n \in s
    <3>1. Max(s) = n BY <2>1, MaxIsLast
    <3>2. s \ {n} \in SUBSET (1 .. n) /\ n \notin s \ {n} OBVIOUS
    <3>3. g[s \ {n}] = h[s \ {n}] BY <3>2, <1>1
    <3> QED BY <2>1, <3>1, <3>3, <1>1
  <2>2. CASE n \notin s
    <3>1. s \in SUBSET (1 .. n - 1)
      <4>1. ASSUME NEW k \in s PROVE k \in 1 .. n - 1 BY <2>2
      <4> QED BY <4>1
    <3>2. g[s] = h[s] BY <1>1, <2>2
    <3>3. h[s] = IF s = {} THEN t ELSE ApplyBytes(h[s \ {Max(s)}], ws[Max(s)])
      BY <3>1 DEF Unfolds
    <3>4. s \ {Max(s)} \in SUBSET (1 .. n) /\ n \notin s \ {Max(s)} BY <2>2
    <3>5. g[s \ {Max(s)}] = h[s \ {Max(s)}] BY <3>4, <1>1
    <3> QED BY <3>2, <3>3, <3>5
  <2> QED BY <2>1, <2>2
<1>3. g = [s \in SUBSET (1 .. n) |->
             IF s = {} THEN t ELSE ApplyBytes(g[s \ {Max(s)}], ws[Max(s)])]
  BY <1>1, <1>2
<1> QED BY <1>3 DEF Unfolds, g

LEMMA Unfolding ==
  ASSUME NEW t, NEW ws, NEW n \in Nat
  PROVE  \E g : Unfolds(g, t, ws, n)
<1> DEFINE T == {k \in Nat : ~ \E g : Unfolds(g, t, ws, k)}
<1>1. SUFFICES ASSUME T # {} PROVE FALSE OBVIOUS
<1>2. PICK k \in T : \A m \in T : k <= m
  <2>1. T \in SUBSET Nat OBVIOUS
  <2> HIDE DEF T
  <2> QED BY <1>1, <2>1, Least
<1>3. CASE k = 0
  <2> DEFINE g == [s \in SUBSET (1 .. 0) |-> t]
  <2>1. SUBSET (1 .. 0) = {{}} OBVIOUS
  <2>2. g = [s \in SUBSET (1 .. 0) |->
               IF s = {} THEN t ELSE ApplyBytes(g[s \ {Max(s)}], ws[Max(s)])] BY <2>1
  <2>3. Unfolds(g, t, ws, 0) BY <2>2 DEF Unfolds
  <2> QED BY <1>3, <2>3
<1>4. CASE k # 0
  <2>1. k - 1 \in Nat /\ ~(k <= k - 1) /\ k \in Nat \ {0} BY <1>4
  <2>2. k - 1 \notin T BY <1>2, <2>1
  <2>3. PICK h : Unfolds(h, t, ws, k - 1) BY <2>1, <2>2
  <2>4. Unfolds(Longer(h, t, ws, k), t, ws, k) BY <2>1, <2>3, LongerUnfolds
  <2> QED BY <2>4
<1> QED BY <1>3, <1>4

SameStart(ws, vs, k) == \A i \in 1 .. k : ws[i] = vs[i]
Alike(g, h, k) == \A s \in SUBSET (1 .. k) : g[s] = h[s]

\* Two logs that begin with the same writes are replayed alike so far.
LEMMA UnfoldingUnique ==
  ASSUME NEW t, NEW ws, NEW vs, NEW n \in Nat, NEW k \in Nat, k <= n,
         NEW g, NEW h, Unfolds(g, t, ws, k), Unfolds(h, t, vs, n),
         SameStart(ws, vs, k)
  PROVE  Alike(g, h, k)
<1> DEFINE T == {j \in 0 .. k : \E s \in SUBSET (1 .. j) : g[s] # h[s]}
<1>1. SUFFICES ASSUME T # {} PROVE FALSE BY DEF Alike
<1>2. PICK j \in T : \A i \in T : j <= i
  <2>1. T \in SUBSET Nat OBVIOUS
  <2> HIDE DEF T
  <2> QED BY <1>1, <2>1, Least
<1>3. PICK s \in SUBSET (1 .. j) : g[s] # h[s] BY <1>2
<1>4. s \in SUBSET (1 .. k) /\ s \in SUBSET (1 .. n) BY <1>2
<1>5. g[s] = IF s = {} THEN t ELSE ApplyBytes(g[s \ {Max(s)}], ws[Max(s)]) BY <1>4 DEF Unfolds
<1>6. h[s] = IF s = {} THEN t ELSE ApplyBytes(h[s \ {Max(s)}], vs[Max(s)]) BY <1>4 DEF Unfolds
<1>7. s # {} BY <1>3, <1>5, <1>6
<1>8. j \in 1 .. k
  <2>1. PICK i \in s : TRUE BY <1>7
  <2>2. i \in 1 .. j /\ j \in 0 .. k BY <1>2, <1>3
  <2> QED BY <2>2
<1>9. CASE j \in s
  <2>1. Max(s) = j BY <1>8, <1>9, MaxIsLast
  <2>2. j - 1 \in 0 .. k /\ ~(j <= j - 1) BY <1>8
  <2>3. j - 1 \notin T BY <1>2, <2>2
  <2>4. s \ {j} \in SUBSET (1 .. j - 1)
    <3>1. ASSUME NEW i \in s \ {j} PROVE i \in 1 .. j - 1 BY <1>8
    <3> QED BY <3>1
  <2>5. g[s \ {j}] = h[s \ {j}] BY <2>2, <2>3, <2>4
  <2>6. ws[j] = vs[j] BY <1>8 DEF SameStart
  <2> QED BY <1>3, <1>5, <1>6, <1>7, <2>1, <2>5, <2>6
<1>10. CASE j \notin s
  <2>2. j - 1 \in 0 .. k /\ ~(j <= j - 1) BY <1>8
  <2>3. j - 1 \notin T BY <1>2, <2>2
  <2>4. s \in SUBSET (1 .. j - 1)
    <3>1. ASSUME NEW i \in s PROVE i \in 1 .. j - 1 BY <1>8, <1>10
    <3> QED BY <3>1
  <2> QED BY <2>2, <2>3, <2>4, <1>3
<1> QED BY <1>9, <1>10

\* Nothing to replay leaves what there was.
LEMMA ReplayNothing ==
  ASSUME NEW t
  PROVE  Replay(t, <<>>) = t
<1> DEFINE g == CHOOSE g : Unfolds(g, t, <<>>, 0)
<1>1. Replay(t, <<>>) = g[1 .. 0]
  <2>1. DOMAIN <<>> = 1 .. 0 OBVIOUS
  <2> QED BY <2>1, ReplayUnfolds
<1>2. Unfolds(g, t, <<>>, 0) BY Unfolding
<1> HIDE DEF g
<1>3. 1 .. 0 \in SUBSET (1 .. 0) /\ 1 .. 0 = {} OBVIOUS
<1>4. g[1 .. 0] = t BY <1>2, <1>3 DEF Unfolds
<1> QED BY <1>1, <1>4

\* A log with one more write is replayed by replaying the log and then the write.
LEMMA ReplayAppend ==
  ASSUME NEW t, NEW ws, NEW n \in Nat, DOMAIN ws = 1 .. n,
         NEW vs, DOMAIN vs = 1 .. n + 1, \A i \in 1 .. n : vs[i] = ws[i]
  PROVE  Replay(t, vs) = ApplyBytes(Replay(t, ws), vs[n + 1])
<1> DEFINE g == CHOOSE g : Unfolds(g, t, ws, n)
           h == CHOOSE h : Unfolds(h, t, vs, n + 1)
<1>1. Replay(t, ws) = g[1 .. n] BY ReplayUnfolds
<1>2. Replay(t, vs) = h[1 .. n + 1]
  <2>1. n + 1 \in Nat OBVIOUS
  <2> QED BY <2>1, ReplayUnfolds
<1>3. Unfolds(g, t, ws, n) BY Unfolding
<1>4. Unfolds(h, t, vs, n + 1)
  <2>1. n + 1 \in Nat OBVIOUS
  <2> QED BY <2>1, Unfolding
<1> HIDE DEF g, h
<1>5. 1 .. n + 1 \in SUBSET (1 .. n + 1) /\ n + 1 \in 1 .. n + 1 OBVIOUS
<1>6. Max(1 .. n + 1) = n + 1 BY <1>5, MaxIsLast
<1>7. h[1 .. n + 1] = ApplyBytes(h[(1 .. n + 1) \ {n + 1}], vs[n + 1])
  <2>1. h[1 .. n + 1] = IF 1 .. n + 1 = {} THEN t
                        ELSE ApplyBytes(h[(1 .. n + 1) \ {Max(1 .. n + 1)}], vs[Max(1 .. n + 1)])
    BY <1>4, <1>5 DEF Unfolds
  <2>2. 1 .. n + 1 # {} BY <1>5
  <2> QED BY <2>1, <2>2, <1>6
<1>8. (1 .. n + 1) \ {n + 1} = 1 .. n OBVIOUS
<1>9. g[1 .. n] = h[1 .. n]
  <2> DEFINE m == n + 1
  <2>1. m \in Nat /\ n <= m /\ Unfolds(h, t, vs, m) BY <1>4
  <2>2. SameStart(ws, vs, n) BY DEF SameStart
  <2> HIDE DEF m
  <2>3. Alike(g, h, n) BY <1>3, <2>1, <2>2, UnfoldingUnique
  <2> QED BY <2>3 DEF Alike
<1> QED BY <1>1, <1>2, <1>7, <1>8, <1>9

-----------------------------------------------------------------------------
(* The type of a device *)

Bytes == Seq(Byte)
WriteType == [offset : Nat, data : Bytes]

LEMMA FunctionIsSeq == ASSUME NEW S, NEW n \in Nat, NEW f \in [1 .. n -> S] PROVE f \in Seq(S)
<1>1. [1 .. n -> S] \in {[1 .. k -> S] : k \in Nat} OBVIOUS
<1>2. f \in UNION {[1 .. k -> S] : k \in Nat} BY <1>1
<1> QED BY <1>2, SeqDef, Zenon

Size(w) == w.offset + Len(w.data)

\* What a write leaves, byte for byte.
LEMMA ApplyIs ==
  ASSUME NEW t \in Bytes, NEW w \in WriteType
  PROVE  /\ ApplyBytes(t, w) \in Bytes
         /\ Len(ApplyBytes(t, w)) = IF Size(w) > Len(t) THEN Size(w) ELSE Len(t)
         /\ \A i \in 1 .. Len(ApplyBytes(t, w)) :
              ApplyBytes(t, w)[i] = IF i \in w.offset + 1 .. Size(w) THEN w.data[i - w.offset]
                                    ELSE IF i <= Len(t) THEN t[i] ELSE 0
<1> DEFINE n == IF Size(w) > Len(t) THEN Size(w) ELSE Len(t)
           e(i) == IF i \in w.offset + 1 .. Size(w) THEN w.data[i - w.offset]
                   ELSE IF i <= Len(t) THEN t[i] ELSE 0
<1>1. w.offset \in Nat /\ w.data \in Bytes /\ Len(w.data) \in Nat /\ Len(t) \in Nat
  BY DEF WriteType, Bytes
<1>2. n \in Nat /\ Size(w) \in Nat BY <1>1 DEF Size
<1>3. ApplyBytes(t, w) = [i \in 1 .. n |-> e(i)] BY DEF ApplyBytes, Size
<1>4. ASSUME NEW i \in 1 .. n PROVE e(i) \in Byte
  <2>1. CASE i \in w.offset + 1 .. Size(w)
    <3>1. i - w.offset \in 1 .. Len(w.data) BY <1>1, <2>1 DEF Size
    <3>2. w.data[i - w.offset] \in Byte BY <1>1, <3>1, ElementOfSeq DEF Bytes
    <3> QED BY <2>1, <3>2
  <2>2. CASE i \notin w.offset + 1 .. Size(w) /\ i <= Len(t)
    <3>1. i \in 1 .. Len(t) BY <1>1, <1>2, <2>2
    <3>2. t[i] \in Byte BY <3>1, ElementOfSeq DEF Bytes
    <3> QED BY <2>2, <3>2
  <2>3. CASE i \notin w.offset + 1 .. Size(w) /\ ~(i <= Len(t)) BY <2>3 DEF Byte
  <2> QED BY <2>1, <2>2, <2>3
<1> HIDE DEF n, e
<1>5. [i \in 1 .. n |-> e(i)] \in [1 .. n -> Byte] BY <1>4
<1>6. ApplyBytes(t, w) \in Bytes BY <1>2, <1>3, <1>5, FunctionIsSeq DEF Bytes
<1>7. DOMAIN ApplyBytes(t, w) = 1 .. n BY <1>3
<1>8. Len(ApplyBytes(t, w)) = n BY <1>2, <1>6, <1>7 DEF Bytes
<1> QED BY <1>3, <1>6, <1>8 DEF n, e

\* The front of a log.
LEMMA FrontIs ==
  ASSUME NEW S, NEW ws \in Seq(S), NEW n \in Nat, Len(ws) = n + 1
  PROVE  \E vs \in Seq(S) : Len(vs) = n /\ \A i \in 1 .. n : vs[i] = ws[i]
<1> DEFINE vs == [i \in 1 .. n |-> ws[i]]
<1>1. \A i \in 1 .. n : i \in 1 .. Len(ws) OBVIOUS
<1>2. vs \in [1 .. n -> S] BY <1>1, ElementOfSeq
<1>3. vs \in Seq(S) BY <1>2, FunctionIsSeq
<1>4. Len(vs) = n BY <1>3
<1> QED BY <1>3, <1>4

LEMMA ReplayLast ==
  ASSUME NEW t, NEW ws \in Seq(WriteType), NEW n \in Nat, Len(ws) = n + 1,
         NEW vs \in Seq(WriteType), Len(vs) = n, \A i \in 1 .. n : vs[i] = ws[i]
  PROVE  Replay(t, ws) = ApplyBytes(Replay(t, vs), ws[n + 1])
<1>1. DOMAIN ws = 1 .. n + 1 /\ DOMAIN vs = 1 .. n OBVIOUS
<1>2. \A i \in 1 .. n : ws[i] = vs[i] OBVIOUS
<1> QED BY <1>1, <1>2, ReplayAppend

LEMMA ReplayType ==
  ASSUME NEW t \in Bytes, NEW ws \in Seq(WriteType)
  PROVE  Replay(t, ws) \in Bytes
<1> DEFINE T == {n \in Nat : \E vs \in Seq(WriteType) : Len(vs) = n /\ Replay(t, vs) \notin Bytes}
<1>1. SUFFICES ASSUME T # {} PROVE FALSE
  <2>1. Len(ws) \in Nat OBVIOUS
  <2> QED BY <2>1
<1>2. PICK n \in T : \A m \in T : n <= m
  <2>1. T \in SUBSET Nat OBVIOUS
  <2> HIDE DEF T
  <2> QED BY <1>1, <2>1, Least
<1>3. PICK vs \in Seq(WriteType) : Len(vs) = n /\ Replay(t, vs) \notin Bytes BY <1>2
<1>4. CASE n = 0
  <2>1. vs = <<>> BY <1>3, <1>4
  <2> QED BY <1>3, <2>1, ReplayNothing
<1>5. CASE n # 0
  <2> DEFINE k == n - 1
  <2>1. k \in Nat /\ Len(vs) = k + 1 /\ ~(n <= k) BY <1>2, <1>3, <1>5
  <2> HIDE DEF k
  <2>2. PICK us \in Seq(WriteType) : Len(us) = k /\ \A i \in 1 .. k : us[i] = vs[i]
    BY <2>1, FrontIs
  <2>3. k \notin T BY <1>2, <2>1
  <2>4. Replay(t, us) \in Bytes BY <2>1, <2>2, <2>3
  <2>5. Replay(t, vs) = ApplyBytes(Replay(t, us), vs[k + 1]) BY <2>1, <2>2, ReplayLast
  <2>6. vs[k + 1] \in WriteType BY <2>1, ElementOfSeq
  <2> QED BY <1>3, <2>4, <2>5, <2>6, ApplyIs
<1> QED BY <1>4, <1>5

-----------------------------------------------------------------------------
(* Replaying writes that do not overlap *)

\* What a replay of such writes is, in terms that do not mention their order.
Shows(b, t, ws) ==
  /\ b \in Bytes /\ Len(t) <= Len(b)
  /\ \A k \in 1 .. Len(ws) : Size(ws[k]) <= Len(b)
  /\ Len(b) = Len(t) \/ \E k \in 1 .. Len(ws) : Len(b) = Size(ws[k])
  /\ \A i \in 1 .. Len(b) :
       /\ \A k \in 1 .. Len(ws) : i \in Touched(ws[k]) => b[i] = ws[k].data[i - ws[k].offset]
       /\ (\A k \in 1 .. Len(ws) : i \notin Touched(ws[k])) =>
            b[i] = IF i <= Len(t) THEN t[i] ELSE 0

LEMMA WriteFacts ==
  ASSUME NEW w \in WriteType
  PROVE  w.offset \in Nat /\ w.data \in Bytes /\ Size(w) \in Nat /\ Touched(w) = w.offset + 1 .. Size(w)
BY DEF WriteType, Bytes, Size, Touched

LEMMA OneMoreShows ==
  ASSUME NEW t \in Bytes, NEW ws \in Seq(WriteType), NEW n \in Nat, Len(ws) = n + 1, Disjoint(ws),
         NEW vs \in Seq(WriteType), Len(vs) = n, \A i \in 1 .. n : vs[i] = ws[i],
         NEW b, Shows(b, t, vs)
  PROVE  Shows(ApplyBytes(b, ws[n + 1]), t, ws)
<1> DEFINE w == ws[n + 1]
           c == ApplyBytes(b, w)
<1>1. n + 1 \in 1 .. Len(ws) /\ \A k \in 1 .. Len(ws) : k = n + 1 \/ k \in 1 .. n OBVIOUS
<1>2. \A k \in 1 .. Len(ws) : ws[k] \in WriteType BY ElementOfSeq
<1>3. w \in WriteType BY <1>1, <1>2
<1>4. b \in Bytes BY DEF Shows
<1>5. Len(b) \in Nat /\ Len(t) \in Nat BY <1>4 DEF Bytes
<1>6. /\ c \in Bytes
      /\ Len(c) = IF Size(w) > Len(b) THEN Size(w) ELSE Len(b)
      /\ \A i \in 1 .. Len(c) : c[i] = IF i \in Touched(w) THEN w.data[i - w.offset]
                                      ELSE IF i <= Len(b) THEN b[i] ELSE 0
  <2>1. Touched(w) = w.offset + 1 .. Size(w) BY <1>3, WriteFacts
  <2> HIDE DEF w
  <2> QED BY <1>3, <1>4, <2>1, ApplyIs
<1>7. Size(w) \in Nat BY <1>3, WriteFacts
<1>w. w = ws[n + 1] OBVIOUS
<1> HIDE DEF w, c
<1>8. \A k \in 1 .. n : Size(ws[k]) <= Len(b) /\ Size(ws[k]) \in Nat
                        /\ Touched(ws[k]) = ws[k].offset + 1 .. Size(ws[k])
                        /\ Touched(ws[k]) \intersect Touched(w) = {}
  <2>1. ASSUME NEW k \in 1 .. n
        PROVE  Size(ws[k]) <= Len(b) /\ Size(ws[k]) \in Nat
               /\ Touched(ws[k]) = ws[k].offset + 1 .. Size(ws[k])
               /\ Touched(ws[k]) \intersect Touched(w) = {}
    <3>1. k \in 1 .. Len(ws) /\ k # n + 1 /\ DOMAIN ws = 1 .. Len(ws) OBVIOUS
    <3>2. ws[k] \in WriteType BY <1>2, <3>1
    <3>3. vs[k] = ws[k] OBVIOUS
    <3>4. Size(ws[k]) <= Len(b) BY <3>3 DEF Shows
    <3>5. Touched(ws[k]) \intersect Touched(w) = {} BY <1>1, <1>w, <3>1 DEF Disjoint
    <3> QED BY <3>2, <3>4, <3>5, WriteFacts
  <2> QED BY <2>1
<1>9. Len(t) <= Len(b) BY DEF Shows
<1>10. Len(b) <= Len(c) /\ Len(t) <= Len(c) BY <1>5, <1>6, <1>7, <1>9
<1>11. \A k \in 1 .. Len(ws) : Size(ws[k]) <= Len(c)
  <2>1. Size(w) <= Len(c) BY <1>5, <1>6, <1>7
  <2>2. Len(c) \in Nat BY <1>6, <1>5, <1>7
  <2> QED BY <1>1, <1>8, <1>10, <1>5, <1>w, <2>1, <2>2
<1>12. Len(c) = Len(t) \/ \E k \in 1 .. Len(ws) : Len(c) = Size(ws[k])
  <2>1. CASE Len(c) = Size(w) BY <2>1, <1>1, <1>w
  <2>2. CASE Len(c) = Len(b)
    <3>1. Len(b) = Len(t) \/ \E k \in 1 .. n : Len(b) = Size(vs[k]) BY DEF Shows
    <3>2. \A k \in 1 .. n : vs[k] = ws[k] /\ k \in 1 .. Len(ws) OBVIOUS
    <3> QED BY <2>2, <3>1, <3>2
  <2> QED BY <1>6, <2>1, <2>2
<1>13. ASSUME NEW i \in 1 .. Len(c), NEW k \in 1 .. Len(ws), i \in Touched(ws[k])
       PROVE  c[i] = ws[k].data[i - ws[k].offset]
  <2>1. CASE k = n + 1 BY <2>1, <1>13, <1>6, <1>w
  <2>2. CASE k \in 1 .. n
    <3>1. i \in 1 .. Len(b)
      <4> DEFINE o == ws[k].offset
      <4>0. o \in Nat /\ i \in o + 1 .. Size(ws[k]) BY <1>2, <1>8, <1>13, <2>2, WriteFacts
      <4> HIDE DEF o
      <4>1. i <= Size(ws[k]) BY <4>0, <1>8, <2>2
      <4>2. Size(ws[k]) <= Len(b) /\ Size(ws[k]) \in Nat BY <1>8, <2>2
      <4> QED BY <1>5, <4>1, <4>2
    <3>2. i \notin Touched(w) BY <1>8, <1>13, <2>2
    <3>3. c[i] = b[i] BY <1>6, <3>1, <3>2
    <3>4. vs[k] = ws[k] BY <2>2
    <3>5. b[i] = vs[k].data[i - vs[k].offset] BY <1>13, <2>2, <3>1, <3>4 DEF Shows
    <3> QED BY <3>3, <3>4, <3>5
  <2> QED BY <1>1, <2>1, <2>2
<1>14. ASSUME NEW i \in 1 .. Len(c), \A k \in 1 .. Len(ws) : i \notin Touched(ws[k])
       PROVE  c[i] = IF i <= Len(t) THEN t[i] ELSE 0
  <2>1. i \notin Touched(w) BY <1>1, <1>14, <1>w
  <2>2. c[i] = IF i <= Len(b) THEN b[i] ELSE 0 BY <1>6, <2>1
  <2>3. CASE i <= Len(b)
    <3>1. i \in 1 .. Len(b) BY <1>5, <2>3
    <3>2. \A k \in 1 .. n : i \notin Touched(vs[k])
      <4>1. \A k \in 1 .. n : vs[k] = ws[k] /\ k \in 1 .. Len(ws) OBVIOUS
      <4> QED BY <4>1, <1>14
    <3>3. b[i] = IF i <= Len(t) THEN t[i] ELSE 0 BY <3>1, <3>2 DEF Shows
    <3> QED BY <2>2, <2>3, <3>3
  <2>4. CASE ~(i <= Len(b))
    <3>1. ~(i <= Len(t)) BY <1>5, <1>9, <2>4
    <3> QED BY <2>2, <2>4, <3>1
  <2> QED BY <2>3, <2>4
<1>15. Shows(c, t, ws) BY <1>6, <1>10, <1>11, <1>12, <1>13, <1>14 DEF Shows
<1> QED BY <1>15 DEF c, w

LEMMA ReplayShows ==
  ASSUME NEW t \in Bytes, NEW ws \in Seq(WriteType), Disjoint(ws)
  PROVE  Shows(Replay(t, ws), t, ws)
<1> DEFINE Bad(vs, n) == Len(vs) = n /\ Disjoint(vs) /\ ~Shows(Replay(t, vs), t, vs)
           T == {n \in Nat : \E vs \in Seq(WriteType) : Bad(vs, n)}
<1>1. SUFFICES ASSUME T # {} PROVE FALSE
  <2>1. Len(ws) \in Nat OBVIOUS
  <2> QED BY <2>1
<1>2. PICK n \in T : \A m \in T : n <= m
  <2>1. T \in SUBSET Nat OBVIOUS
  <2> HIDE DEF T
  <2> QED BY <1>1, <2>1, Least
<1>3. PICK vs \in Seq(WriteType) : Bad(vs, n) BY <1>2
<1>4. CASE n = 0
  <2>1. vs = <<>> BY <1>3, <1>4
  <2>2. Replay(t, vs) = t BY <2>1, ReplayNothing
  <2>3. Len(vs) = 0 /\ Len(t) \in Nat BY <2>1 DEF Bytes
  <2>4. Shows(t, t, vs) BY <2>3 DEF Shows
  <2> QED BY <1>3, <2>2, <2>4
<1>5. CASE n # 0
  <2> DEFINE k == n - 1
  <2>1. k \in Nat /\ Len(vs) = k + 1 /\ ~(n <= k) BY <1>2, <1>3, <1>5
  <2> HIDE DEF k
  <2>2. PICK us \in Seq(WriteType) : Len(us) = k /\ \A i \in 1 .. k : us[i] = vs[i]
    BY <2>1, FrontIs
  <2>3. k \notin T BY <1>2, <2>1
  <2>4. Disjoint(us)
    <3>1. DOMAIN us = 1 .. k /\ DOMAIN vs = 1 .. k + 1 BY <2>1, <2>2
    <3>2. \A i \in 1 .. k : i \in 1 .. k + 1 BY <2>1
    <3> QED BY <1>3, <2>2, <3>1, <3>2 DEF Disjoint
  <2>5. Shows(Replay(t, us), t, us) BY <2>1, <2>2, <2>3, <2>4
  <2>6. Replay(t, vs) = ApplyBytes(Replay(t, us), vs[k + 1]) BY <2>1, <2>2, ReplayLast
  <2>7. Shows(ApplyBytes(Replay(t, us), vs[k + 1]), t, vs) BY <1>3, <2>1, <2>2, <2>5, OneMoreShows
  <2> QED BY <1>3, <2>6, <2>7
<1> QED BY <1>4, <1>5

LEMMA ShowsSame ==
  ASSUME NEW t \in Bytes, NEW ws \in Seq(WriteType), NEW b, NEW c, Shows(b, t, ws), Shows(c, t, ws)
  PROVE  b = c
<1>1. \A k \in 1 .. Len(ws) : Size(ws[k]) \in Nat BY ElementOfSeq, WriteFacts
<1>2. b \in Bytes /\ c \in Bytes BY DEF Shows
<1>3. Len(b) \in Nat /\ Len(c) \in Nat /\ Len(t) \in Nat BY <1>2 DEF Bytes
<1>4. Len(b) <= Len(c) BY <1>1, <1>3 DEF Shows
<1>5. Len(c) <= Len(b) BY <1>1, <1>3 DEF Shows
<1>6. Len(b) = Len(c) BY <1>3, <1>4, <1>5
<1>7. ASSUME NEW i \in 1 .. Len(b) PROVE b[i] = c[i]
  <2>1. CASE \E k \in 1 .. Len(ws) : i \in Touched(ws[k]) BY <1>6, <2>1 DEF Shows
  <2>2. CASE \A k \in 1 .. Len(ws) : i \notin Touched(ws[k]) BY <1>6, <2>2 DEF Shows
  <2> QED BY <2>1, <2>2
<1> QED BY <1>2, <1>6, <1>7, SeqEqual DEF Bytes

\* The order of such writes does not show.
LEMMA ReverseShowsSame ==
  ASSUME NEW t \in Bytes, NEW ws \in Seq(WriteType), Disjoint(ws)
  PROVE  Reordered(t, ws) = Replay(t, ws)
<1> DEFINE vs == Reverse(ws)
           n == Len(ws)
<1>1. n \in Nat /\ DOMAIN ws = 1 .. n OBVIOUS
<1>2. vs = [i \in 1 .. n |-> ws[(n - i) + 1]] BY DEF Reverse
<1>3. \A i \in 1 .. n : (n - i) + 1 \in 1 .. n /\ (n - ((n - i) + 1)) + 1 = i BY <1>1
<1>4. vs \in [1 .. n -> WriteType] BY <1>2, <1>3, ElementOfSeq
<1>5. vs \in Seq(WriteType) /\ Len(vs) = n
  <2>1. vs \in Seq(WriteType) BY <1>1, <1>4, FunctionIsSeq
  <2>2. DOMAIN vs = 1 .. n BY <1>2
  <2> QED BY <1>1, <2>1, <2>2
<1>r. Reordered(t, ws) = Replay(t, vs) BY DEF Reordered
<1> HIDE DEF vs
<1>6. \A i \in 1 .. n : vs[i] = ws[(n - i) + 1] BY <1>2
<1>7. \A k \in 1 .. n : ws[k] = vs[(n - k) + 1] BY <1>3, <1>6
<1>8. Disjoint(vs)
  <2>1. DOMAIN vs = 1 .. n BY <1>2
  <2>2. ASSUME NEW i \in 1 .. n, NEW j \in 1 .. n, i # j
        PROVE  Touched(vs[i]) \intersect Touched(vs[j]) = {}
    <3>1. (n - i) + 1 # (n - j) + 1 BY <1>1, <2>2
    <3>2. (n - i) + 1 \in DOMAIN ws /\ (n - j) + 1 \in DOMAIN ws BY <1>1, <1>3
    <3>3. Touched(ws[(n - i) + 1]) \intersect Touched(ws[(n - j) + 1]) = {}
      BY <3>1, <3>2 DEF Disjoint
    <3> QED BY <1>6, <3>3
  <2> QED BY <2>1, <2>2 DEF Disjoint
<1>9. Shows(Replay(t, vs), t, vs) BY <1>5, <1>8, ReplayShows
<1>10. Shows(Replay(t, vs), t, ws)
  <2> DEFINE b == Replay(t, vs)
  <2>1. \A k \in 1 .. n : (n - k) + 1 \in 1 .. Len(vs) /\ ws[k] = vs[(n - k) + 1]
    BY <1>3, <1>5, <1>7
  <2>2. \A k \in 1 .. Len(vs) : (n - k) + 1 \in 1 .. n /\ vs[k] = ws[(n - k) + 1]
    BY <1>3, <1>5, <1>6
  <2>3. b \in Bytes /\ Len(t) <= Len(b) BY <1>9 DEF Shows
  <2> HIDE DEF b, n
  <2>4. \A k \in 1 .. n : Size(ws[k]) <= Len(b) BY <1>9, <2>1 DEF Shows, b
  <2>5. Len(b) = Len(t) \/ \E k \in 1 .. n : Len(b) = Size(ws[k]) BY <1>9, <2>2 DEF Shows, b
  <2>6. ASSUME NEW i \in 1 .. Len(b), NEW k \in 1 .. n, i \in Touched(ws[k])
        PROVE  b[i] = ws[k].data[i - ws[k].offset]
    <3>1. (n - k) + 1 \in 1 .. Len(vs) /\ ws[k] = vs[(n - k) + 1] BY <2>1
    <3> QED BY <1>9, <2>6, <3>1 DEF Shows, b
  <2>7. ASSUME NEW i \in 1 .. Len(b), \A k \in 1 .. n : i \notin Touched(ws[k])
        PROVE  b[i] = IF i <= Len(t) THEN t[i] ELSE 0
    <3>1. \A k \in 1 .. Len(vs) : i \notin Touched(vs[k]) BY <2>2, <2>7
    <3> QED BY <1>9, <3>1 DEF Shows, b
  <2> QED BY <2>3, <2>4, <2>5, <2>6, <2>7 DEF Shows, b, n
<1>11. Shows(Replay(t, ws), t, ws) BY ReplayShows
<1> QED BY <1>r, <1>10, <1>11, ShowsSame

-----------------------------------------------------------------------------
(* The log explains what is pending *)

Calls == {F, R} \union {W(offset, data) : offset \in Nat, data \in Bytes}
Labels == {"ack", "intact", "damaged", "recovered", "term-not-persisted",
           "vote-not-persisted", "log-not-persisted"}

\* The device and the program are well formed.
StoreType ==
  /\ pending \in Bytes /\ committed \in Bytes /\ log \in Seq(WriteType)
  /\ {up, torn, lost, reorder, started, rotted, tornWrite, whole, spared} \subseteq BOOLEAN
  /\ crashes \in Nat /\ forgotten \in Nat
  /\ todo \in Seq(Calls) /\ records \in Seq(Labels)
  /\ program \in Programs

LEMMA RecordIsBytes == Record \in Bytes /\ Term \in Bytes /\ Vote \in Bytes /\ Entry \in Bytes
BY DEF Record, Term, Vote, Entry, Bytes, Byte

LEMMA WrittenIsBytes ==
  ASSUME NEW data \in Bytes, NEW isTorn \in BOOLEAN
  PROVE  Written(data, isTorn) \in Bytes
<1> DEFINE n == (Len(data) + 1) \div 2
<1>1. Len(data) \in Nat BY DEF Bytes
<1>2. CASE Len(data) > 1
  <2>1. n \in Nat /\ n <= Len(data) BY <1>1, <1>2
  <2>2. \A i \in 1 .. n : data[i] \in Byte BY <2>1, ElementOfSeq DEF Bytes
  <2> HIDE DEF n
  <2>3. SubSeq(data, 1, n) \in Bytes BY <2>1, <2>2, SubSeqProperties DEF Bytes
  <2> QED BY <2>3 DEF Written, n
<1>3. CASE ~(Len(data) > 1) BY <1>3 DEF Written
<1> QED BY <1>2, <1>3

LEMMA RotIsBytes ==
  ASSUME NEW b \in Bytes
  PROVE  Rot(b) \in Bytes /\ (b # <<>> => Rot(b) # <<>>)
<1>1. CASE b = <<>> BY <1>1 DEF Rot
<1>2. CASE b # <<>>
  <2> DEFINE x == IF b[1] % 2 = 0 THEN b[1] + 1 ELSE b[1] - 1
  <2>1. 1 \in 1 .. Len(b) /\ b \in Seq(Byte) BY <1>2 DEF Bytes
  <2>2. b[1] \in Byte BY <2>1, ElementOfSeq
  <2>3. x \in Byte BY <2>2 DEF Byte
  <2>4. Rot(b) = [b EXCEPT ![1] = x] BY <1>2 DEF Rot
  <2> HIDE DEF x
  <2>5. Rot(b) \in Seq(Byte) /\ Len(Rot(b)) = Len(b) BY <2>1, <2>3, <2>4, ExceptSeq
  <2> QED BY <2>1, <2>5 DEF Bytes
<1> QED BY <1>1, <1>2

\* What the storage calls do to the device.
LEMMA WriteDoes ==
  ASSUME StoreType, NEW offset \in Nat, NEW data \in Bytes, Write(offset, data)
  PROVE  \E w \in WriteType :
           /\ w = [offset |-> offset, data |-> Written(data, torn)]
           /\ pending' = ApplyBytes(pending, w) /\ pending' \in Bytes
           /\ log' = Append(log, w) /\ log' \in Seq(WriteType)
           /\ UNCHANGED <<committed, up, torn, lost, reorder, crashes>>
<1> DEFINE w == [offset |-> offset, data |-> Written(data, torn)]
<1>1. torn \in BOOLEAN BY DEF StoreType
<1>2. w \in WriteType BY <1>1, WrittenIsBytes DEF WriteType
<1>3. pending' = ApplyBytes(pending, w) /\ log' = Append(log, w)
      /\ UNCHANGED <<committed, up, torn, lost, reorder, crashes>> BY DEF Write, flags
<1> HIDE DEF w
<1>4. pending' \in Bytes BY <1>2, <1>3, ApplyIs DEF StoreType
<1>5. log' \in Seq(WriteType) BY <1>2, <1>3, AppendProperties DEF StoreType
<1> QED BY <1>2, <1>3, <1>4, <1>5 DEF w

LEMMA ReorderedType ==
  ASSUME NEW t \in Bytes, NEW ws \in Seq(WriteType)
  PROVE  Reordered(t, ws) \in Bytes
<1> DEFINE n == Len(ws)
<1>1. n \in Nat OBVIOUS
<1>2. Reverse(ws) = [i \in 1 .. n |-> ws[(n - i) + 1]] BY DEF Reverse
<1>3. \A i \in 1 .. n : (n - i) + 1 \in 1 .. n BY <1>1
<1>4. Reverse(ws) \in [1 .. n -> WriteType] BY <1>2, <1>3, ElementOfSeq
<1>5. Reverse(ws) \in Seq(WriteType) BY <1>1, <1>4, FunctionIsSeq
<1> QED BY <1>5, ReplayType DEF Reordered

LEMMA FlushDoes ==
  ASSUME StoreType, Flush
  PROVE  /\ pending' = committed' /\ committed' \in Bytes /\ log' = <<>>
         /\ committed' = pending \/ (Len(log) > 1 /\ committed' = Reordered(committed, log))
         /\ UNCHANGED <<up, torn, lost, reorder, crashes>>
BY ReorderedType DEF StoreType, Flush, LogAfterFlush, flags

LEMMA ScriptIsCalls ==
  ASSUME program \in Programs, program # "free"
  PROVE  Script \in Seq(Calls)
<1> DEFINE A == W(0, Record)  T == W(0, Term)  V == W(1, Vote)  E == W(2, Entry)
<1>1. {A, T, V, E, F, R} \subseteq Calls
  <2>1. \A offset \in Nat, data \in Bytes : W(offset, data) \in Calls BY DEF Calls
  <2>2. A \in Calls /\ T \in Calls /\ V \in Calls /\ E \in Calls
    <3>1. 0 \in Nat /\ 1 \in Nat /\ 2 \in Nat OBVIOUS
    <3> QED BY <2>1, <3>1, RecordIsBytes
  <2>3. F \in Calls /\ R \in Calls BY DEF Calls
  <2> QED BY <2>2, <2>3
<1> HIDE DEF A, T, V, E
<1>2. /\ <<A, F>> \in Seq(Calls) /\ <<A>> \in Seq(Calls) /\ <<A, F, R>> \in Seq(Calls)
      /\ <<T, V, E, F>> \in Seq(Calls) /\ <<V, E, F>> \in Seq(Calls) /\ <<T, E, F>> \in Seq(Calls)
  BY <1>1
<1>3. program \in Raft \union {"wal", "wal-unflushed", "torn-write"} BY ProgramsOK
<1> QED BY <1>2, <1>3 DEF Script, Raft, FlushedLog, AckBeforeFlush, TornWrite, A, T, V, E

LEMMA LabelType == Recovered \in Labels /\ ReadBack \in Labels
BY DEF Recovered, ReadBack, Diagnosis, Labels

LEMMA CallType ==
  ASSUME NEW c \in Calls
  PROVE  /\ c.call = "write" => c.offset \in Nat /\ c.data \in Bytes /\ c = W(c.offset, c.data)
         /\ c.call = "flush" => c = F
         /\ c.call = "read" => c = R
         /\ c.call \in {"write", "flush", "read"}
BY DEF Calls, F, R, W

LEMMA StoreTypeInit == ASSUME ProgramsInit PROVE StoreType
BY EmptySeq DEF ProgramsInit, Init, StoreType, Bytes

LEMMA StoreTypeStep ==
  ASSUME StoreType, [ProgramsNext]_allVars
  PROVE  StoreType'
<1>1. CASE Start
  <2>1. program # "free" /\ UNCHANGED <<vars, program, rotted, tornWrite, whole, spared, forgotten>>
       /\ started' = TRUE
    BY <1>1 DEF Start
  <2>2. todo' \in Seq(Calls) /\ records' \in Seq(Labels)
    <3>1. CASE Stores BY <1>1, <2>1, <3>1, ScriptIsCalls DEF Start, StoreType
    <3>2. CASE ~Stores
      <4>1. todo' = <<>> /\ records' = Append(records, Recovered) BY <1>1, <3>2 DEF Start
      <4> QED BY <4>1, LabelType, AppendProperties DEF StoreType
    <3> QED BY <3>1, <3>2
  <2> QED BY <2>1, <2>2 DEF StoreType, vars, device, flags
<1>2. CASE Call
  <2> DEFINE c == Head(todo)
  <2>1. c \in Calls /\ todo' \in Seq(Calls) BY <1>2, HeadTailProperties DEF Call, StoreType
  <2>2. UNCHANGED <<program, started, rotted, spared, forgotten>> BY <1>2 DEF Call
  <2>3. records' \in Seq(Labels)
    <3>1. \/ records' = Append(records, ReadBack) \/ records' = Append(records, "ack")
          \/ records' = records BY <1>2 DEF Call
    <3>2. "ack" \in Labels BY DEF Labels
    <3>3. records \in Seq(Labels) BY DEF StoreType
    <3>4. \A label \in Labels : Append(records, label) \in Seq(Labels) BY <3>3
    <3> QED BY <3>1, <3>2, <3>3, <3>4, LabelType
  <2> HIDE DEF c
  <2>4. CASE c.call = "write"
    <3>1. Write(c.offset, c.data) /\ tornWrite' \in BOOLEAN /\ whole' \in BOOLEAN
      BY <1>2, <2>4 DEF Call, c
    <3>2. c.offset \in Nat /\ c.data \in Bytes BY <2>1, <2>4, CallType
    <3> QED BY <2>1, <2>2, <2>3, <3>1, <3>2, WriteDoes DEF StoreType
  <2>5. CASE c.call = "flush"
    <3>1. Flush /\ UNCHANGED <<tornWrite, whole>> BY <1>2, <2>5 DEF Call, c
    <3>2. log' \in Seq(WriteType) BY <3>1, FlushDoes, EmptySeq
    <3> QED BY <2>1, <2>2, <2>3, <3>1, <3>2, FlushDoes DEF StoreType
  <2>6. CASE c.call = "read"
    <3>1. UNCHANGED <<vars, tornWrite, whole>> BY <1>2, <2>6 DEF Call, c
    <3> QED BY <2>1, <2>2, <2>3, <3>1 DEF StoreType, vars, device, flags
  <2> QED BY <2>1, <2>4, <2>5, <2>6, CallType
<1>3. CASE Fault
  <2>1. UNCHANGED <<program, todo, records, tornWrite, whole>> BY <1>3 DEF Fault
  <2>2. Loss \in Nat BY DEF Loss, StoreType
  <2>3. forgotten' \in Nat BY <1>3, <2>2 DEF Fault, StoreType
  <2>4. CASE Crash /\ started' = FALSE /\ spared' = (spared \/ ~lost) /\ UNCHANGED rotted
    <3>1. UNCHANGED <<committed, torn, lost, reorder>> /\ up' = FALSE /\ crashes' = crashes + 1
      BY <2>4 DEF Crash, flags
    <3>2. UNCHANGED <<pending, log>> \/ (pending' = committed /\ log' = <<>>) BY <2>4 DEF Crash
    <3>3. spared' \in BOOLEAN BY <2>4 DEF StoreType
    <3>4. pending' \in Bytes /\ log' \in Seq(WriteType) BY <3>2, EmptySeq DEF StoreType
    <3>5. started' \in BOOLEAN /\ up' \in BOOLEAN /\ UNCHANGED <<rotted, program, todo, records, tornWrite, whole>>
      BY <2>1, <2>4, <3>1
    <3>6. crashes' \in Nat BY <3>1 DEF StoreType
    <3>7. {up, torn, lost, reorder, started, rotted, tornWrite, whole, spared}' \subseteq BOOLEAN
      BY <3>1, <3>3, <3>5 DEF StoreType
    <3> QED BY <2>1, <2>3, <3>1, <3>4, <3>6, <3>7 DEF StoreType
  <2>5. CASE (Restart \/ Enable) /\ UNCHANGED <<started, rotted, spared>>
    BY <2>1, <2>3, <2>5 DEF StoreType, Restart, Enable, device, flags
  <2>6. CASE BitRot /\ rotted' = (rotted \/ committed # <<>>) /\ UNCHANGED <<started, spared>>
    <3>1. Rot(committed) \in Bytes BY RotIsBytes DEF StoreType
    <3> QED BY <2>1, <2>3, <2>6, <3>1, EmptySeq DEF StoreType, BitRot, flags
  <2> QED BY <1>3, <2>4, <2>5, <2>6 DEF Fault
<1>4. CASE FreeCall
  <2>1. UNCHANGED progVars BY <1>4 DEF FreeCall
  <2>2. CASE Flush
    <3>1. log' \in Seq(WriteType) BY <2>2, FlushDoes, EmptySeq
    <3> QED BY <2>1, <2>2, <3>1, FlushDoes DEF StoreType, progVars
  <2>3. CASE \E offset \in Offsets, data \in Blocks : Write(offset, data)
    <3>1. PICK offset \in Offsets, data \in Blocks : Write(offset, data) BY <2>3
    <3>2. offset \in Nat /\ data \in Bytes BY BlocksOK DEF Bytes
    <3> QED BY <2>1, <3>1, <3>2, WriteDoes DEF StoreType, progVars
  <2> QED BY <1>4, <2>2, <2>3 DEF FreeCall
<1>5. CASE UNCHANGED allVars
  BY <1>5 DEF allVars, vars, device, flags, progVars, StoreType
<1> QED BY <1>1, <1>2, <1>3, <1>4, <1>5 DEF ProgramsNext

\* What a step does to the device.
Writes(w) == pending' = ApplyBytes(pending, w) /\ log' = Append(log, w) /\ UNCHANGED committed
Settles == pending' = committed' /\ log' = <<>>

LEMMA DeviceKinds ==
  ASSUME StoreType, [ProgramsNext]_allVars
  PROVE  UNCHANGED device \/ Settles \/ \E w \in WriteType : Writes(w)
<1>1. CASE Start BY <1>1 DEF Start, vars, device
<1>2. CASE Call
  <2>1. Head(todo) \in Calls BY <1>2, HeadTailProperties DEF Call, StoreType
  <2>2. CASE Flush BY <2>2, FlushDoes DEF Settles
  <2>3. CASE UNCHANGED vars BY <2>3 DEF vars, device
  <2>4. CASE Head(todo).call = "write" /\ Write(Head(todo).offset, Head(todo).data)
    BY <2>1, <2>4, CallType, WriteDoes DEF Writes
  <2> QED BY <1>2, <2>2, <2>3, <2>4 DEF Call
<1>3. CASE Fault BY <1>3 DEF Fault, Crash, Restart, Enable, BitRot, Settles, device
<1>4. CASE FreeCall
  <2>1. CASE Flush BY <2>1, FlushDoes DEF Settles
  <2>2. CASE \E offset \in Offsets, data \in Blocks : Write(offset, data)
    <3>1. PICK offset \in Offsets, data \in Blocks : Write(offset, data) BY <2>2
    <3>2. offset \in Nat /\ data \in Bytes BY BlocksOK DEF Bytes
    <3> QED BY <3>1, <3>2, WriteDoes DEF Writes
  <2> QED BY <1>4, <2>1, <2>2 DEF FreeCall
<1>5. CASE UNCHANGED allVars BY <1>5 DEF allVars, vars, device
<1> QED BY <1>1, <1>2, <1>3, <1>4, <1>5 DEF ProgramsNext

LEMMA ExplainsStep ==
  ASSUME StoreType, LogExplainsPending, [ProgramsNext]_allVars
  PROVE  LogExplainsPending'
<1>1. CASE UNCHANGED device BY <1>1 DEF LogExplainsPending, device
<1>2. CASE Settles
  <2>1. Replay(committed', <<>>) = committed' BY ReplayNothing
  <2> QED BY <1>2, <2>1 DEF Settles, LogExplainsPending
<1>3. CASE \E w \in WriteType : Writes(w)
  <2>1. PICK w \in WriteType : Writes(w) BY <1>3
  <2> DEFINE n == Len(log)
             more == Append(log, w)
  <2>2. log \in Seq(WriteType) /\ n \in Nat BY DEF StoreType
  <2>3. /\ more \in Seq(WriteType) /\ Len(more) = n + 1
        /\ \A i \in 1 .. n : log[i] = more[i]
        /\ more[n + 1] = w
    BY <2>2, AppendProperties
  <2> HIDE DEF more
  <2>4. Replay(committed, more) = ApplyBytes(Replay(committed, log), w)
    BY <2>2, <2>3, ReplayLast
  <2>5. log' = more /\ pending' = ApplyBytes(pending, w) /\ committed' = committed
    BY <2>1 DEF Writes, more
  <2> QED BY <2>4, <2>5 DEF LogExplainsPending
<1> QED BY <1>1, <1>2, <1>3, DeviceKinds

\* The log always explains the difference between what the program reads and what
\* is durable, through torn writes, crashes and reordered flushes (PageStore).
THEOREM LogExplains == ProgramsSpec => [](StoreType /\ LogExplainsPending)
<1>1. ProgramsInit => StoreType /\ LogExplainsPending
  <2>1. Replay(<<>>, <<>>) = <<>> BY ReplayNothing
  <2> QED BY <2>1, StoreTypeInit DEF ProgramsInit, Init, LogExplainsPending
<1>2. StoreType /\ LogExplainsPending /\ [ProgramsNext]_allVars => (StoreType /\ LogExplainsPending)'
  BY StoreTypeStep, ExplainsStep
<1> QED BY <1>1, <1>2, PTL DEF ProgramsSpec

LEMMA DisjointFlush ==
  ASSUME StoreType, LogExplainsPending, Flush, Disjoint(log)
  PROVE  committed' = pending
<1>1. CASE committed' = pending BY <1>1
<1>2. CASE committed' = Reordered(committed, log)
  <2>1. committed \in Bytes /\ log \in Seq(WriteType) BY DEF StoreType
  <2>2. Reordered(committed, log) = Replay(committed, log) BY <2>1, ReverseShowsSame
  <2> QED BY <1>2, <2>2 DEF LogExplainsPending
<1> QED BY <1>1, <1>2, FlushDoes

\* A reordered flush of writes that do not overlap is the flush the program asked
\* for, however many there are (PageStore::flush).
THEOREM ReorderIsHarmless == ProgramsSpec => ReorderNeedsOverlap
<1>1. StoreType /\ LogExplainsPending /\ [ProgramsNext]_allVars
        => [Flush /\ Disjoint(log) => committed' = pending]_vars
  BY DisjointFlush
<1>2. ProgramsSpec => [][ProgramsNext]_allVars BY PTL DEF ProgramsSpec
<1> QED BY <1>1, <1>2, LogExplains, PTL DEF ReorderNeedsOverlap

\* The write-ahead log: nothing is left unflushed between two polls, and what was
\* acknowledged is on the device.
WalState ==
  /\ ~started => todo = <<>>
  /\ \/ todo = <<>> /\ log = <<>> /\ pending = committed
     \/ todo = FlushedLog /\ log = <<>> /\ pending = <<>> /\ committed = <<>> /\ records = <<>>
     \/ /\ todo = <<F>> /\ Len(log) = 1 /\ committed = <<>> /\ records = <<>>
        /\ pending # <<>> /\ (~tornWrite => pending = Record)
  /\ forgotten = 0
  /\ pending = <<>> => records = <<>>
  /\ todo = <<>> /\ ~rotted /\ ~tornWrite => pending \in {<<>>, Record}
  /\ \A k \in DOMAIN records :
       /\ records[k] = "ack" => k = 1
       /\ ~rotted /\ ~tornWrite => k = 1 \/ records[k] = "intact"

\* Without a flush nothing is ever durable: what is pending is what was acknowledged
\* and not lost since.
UnflushedState ==
  /\ committed = <<>>
  /\ ~started => todo = <<>>
  /\ todo = <<>> \/ (todo = AckBeforeFlush /\ pending = <<>>)
  /\ log = <<>> <=> pending = <<>>
  /\ pending # <<>> => Recorded("ack")
  /\ Acks = forgotten + IF pending = <<>> THEN 0 ELSE 1
  /\ ~spared =>
       /\ ~started => pending = <<>>
       /\ \A k \in DOMAIN records : records[k] = "ack"

\* The torn-write experiment: a whole record stays whole but for its first byte, which
\* may rot and is written again before it is read; before there is one every write was
\* torn, and every later one will be.
LastBytes(bytes) == Len(bytes) = 4 /\ \A i \in 2 .. 4 : bytes[i] = Record[i]
TornState ==
  /\ ~started => todo = <<>>
  /\ \/ /\ todo \in {<<>>, TornWrite} /\ log = <<>> /\ pending = committed
        /\ IF whole THEN LastBytes(pending) ELSE Len(pending) \in {0, 2}
     \/ /\ todo = <<F, R>> /\ Len(log) = 1
        /\ IF whole THEN pending = Record ELSE Len(pending) = 2
     \/ /\ todo = <<R>> /\ log = <<>> /\ pending = committed
        /\ IF whole THEN pending = Record ELSE Len(pending) = 2
  /\ ~whole /\ (pending # <<>> \/ records # <<>>) => torn
  /\ \A k \in DOMAIN records : records[k] = IF whole THEN "intact" ELSE "damaged"

\* The writes of the persistence probe.
TermWrite == [offset |-> 0, data |-> Term]
VoteWrite == [offset |-> 1, data |-> Vote]
EntryWrite == [offset |-> 2, data |-> Entry]

At(calls, ws, bytes) == todo = calls /\ log = ws /\ pending = bytes

\* How far the probe has come in its first poll.
Probing ==
  \/ At(Script, <<>>, <<>>)
  \/ /\ program = "raft"
     /\ \/ At(<<W(1, Vote), W(2, Entry), F>>, <<TermWrite>>, <<1>>)
        \/ At(<<W(2, Entry), F>>, <<TermWrite, VoteWrite>>, <<1, 2>>)
        \/ At(<<F>>, <<TermWrite, VoteWrite, EntryWrite>>, <<1, 2, 3>>)
  \/ /\ program = "raft-no-term"
     /\ \/ At(<<W(2, Entry), F>>, <<VoteWrite>>, <<0, 2>>)
        \/ At(<<F>>, <<VoteWrite, EntryWrite>>, <<0, 2, 3>>)
  \/ /\ program = "raft-no-vote"
     /\ \/ At(<<W(2, Entry), F>>, <<TermWrite>>, <<1>>)
        \/ At(<<F>>, <<TermWrite, EntryWrite>>, <<1, 0, 3>>)

\* What it leaves on the device, and what it then says.
Kept ==
  CASE program = "raft" -> <<1, 2, 3>>
    [] program = "raft-no-term" -> <<0, 2, 3>>
    [] program = "raft-no-vote" -> <<1, 0, 3>>
Blame ==
  CASE program = "raft" -> "recovered"
    [] program = "raft-no-term" -> "term-not-persisted"
    [] program = "raft-no-vote" -> "vote-not-persisted"

ProbeState ==
  ~rotted =>
    /\ ~started => todo = <<>>
    /\ \/ todo = <<>> /\ log = <<>> /\ pending = committed /\ pending \in {<<>>, Kept}
       \/ Probing /\ committed = <<>>
    /\ \A k \in DOMAIN records : records[k] = Blame

ProgramState ==
  /\ program = "wal" => WalState
  /\ program = "wal-unflushed" => UnflushedState
  /\ program = "torn-write" => TornState
  /\ program \in Raft => ProbeState

-----------------------------------------------------------------------------
(* One call of a poll *)

LEMMA CallWrites ==
  ASSUME StoreType, Call, NEW offset \in Nat, NEW data \in Bytes, Head(todo) = W(offset, data)
  PROVE  \E w \in WriteType :
           /\ w = [offset |-> offset, data |-> Written(data, torn)]
           /\ pending' = ApplyBytes(pending, w) /\ log' = Append(log, w)
           /\ tornWrite' = (tornWrite \/ (torn /\ Len(data) > 1))
           /\ whole' = (whole \/ Written(data, torn) = data)
           /\ records' = IF Len(todo) = 1 /\ program \notin Raft THEN Append(records, "ack") ELSE records
           /\ UNCHANGED <<committed, torn, crashes, program, started, rotted, spared, forgotten>>
<1> DEFINE c == Head(todo)
<1>1. c.call = "write" /\ c.offset = offset /\ c.data = data /\ c # R BY DEF W, R
<1> HIDE DEF c
<1>2. /\ Write(offset, data) /\ tornWrite' = (tornWrite \/ (torn /\ Len(data) > 1))
      /\ whole' = (whole \/ Written(data, torn) = data)
  BY <1>1 DEF Call, c
<1>3. records' = IF Len(todo) = 1 /\ program \notin Raft THEN Append(records, "ack") ELSE records
  BY <1>1 DEF Call, c
<1>4. UNCHANGED <<program, started, rotted, spared, forgotten>> BY DEF Call
<1> QED BY <1>2, <1>3, <1>4, WriteDoes

LEMMA CallFlushes ==
  ASSUME StoreType, Call, Head(todo) = F
  PROVE  /\ Flush
         /\ records' = IF Len(todo) = 1 /\ program \notin Raft THEN Append(records, "ack") ELSE records
         /\ UNCHANGED <<torn, crashes, tornWrite, whole, program, started, rotted, spared, forgotten>>
<1>1. Head(todo).call = "flush" /\ Head(todo) # R BY DEF F, R
<1>2. Flush /\ UNCHANGED <<tornWrite, whole>> BY <1>1 DEF Call
<1>3. records' = IF Len(todo) = 1 /\ program \notin Raft THEN Append(records, "ack") ELSE records
  BY <1>1 DEF Call
<1>4. UNCHANGED <<program, started, rotted, spared, forgotten>> BY DEF Call
<1> QED BY <1>2, <1>3, <1>4, FlushDoes

LEMMA CallReads ==
  ASSUME StoreType, Call, Head(todo) = R
  PROVE  /\ records' = Append(records, ReadBack)
         /\ UNCHANGED <<vars, tornWrite, whole, program, started, rotted, spared, forgotten>>
<1>1. Head(todo).call = "read" BY DEF R
<1>2. UNCHANGED <<vars, tornWrite, whole>> BY <1>1 DEF Call
<1> QED BY <1>2 DEF Call

\* Where the device is too short it is filled with zeros.
LEMMA FirstWrite ==
  ASSUME NEW w \in WriteType
  PROVE  /\ w.offset = 0 => ApplyBytes(<<>>, w) = w.data
         /\ Len(w.data) > 0 => ApplyBytes(<<>>, w) # <<>>
<1> DEFINE b == ApplyBytes(<<>>, w)
           n == Len(w.data)
<1>1. <<>> \in Bytes /\ Len(<<>>) = 0 BY EmptySeq DEF Bytes
<1>2. w.data \in Bytes /\ n \in Nat /\ w.offset \in Nat BY DEF WriteType, Bytes
<1>3. /\ b \in Bytes /\ Len(b) = w.offset + n
      /\ \A i \in 1 .. Len(b) : b[i] = IF i \in w.offset + 1 .. w.offset + n
                                      THEN w.data[i - w.offset] ELSE 0
  <2>1. Size(w) = w.offset + n BY DEF Size
  <2>2. Size(w) \in Nat BY <1>2, <2>1
  <2>3. Len(b) = Size(w) BY <1>1, <2>2, ApplyIs
  <2>4. \A i \in 1 .. Len(b) : ~(i <= 0) OBVIOUS
  <2> QED BY <1>1, <2>1, <2>2, <2>3, <2>4, ApplyIs
<1> HIDE DEF b, n
<1>4. ASSUME w.offset = 0 PROVE b = w.data
  <2>1. Len(b) = n BY <1>2, <1>3, <1>4
  <2>2. \A i \in 1 .. n : b[i] = w.data[i] BY <1>2, <1>3, <1>4, <2>1
  <2> QED BY <1>2, <1>3, <2>1, <2>2, SeqEqual DEF Bytes, n
<1>5. ASSUME n > 0 PROVE b # <<>> BY <1>1, <1>2, <1>3, <1>5
<1> QED BY <1>4, <1>5 DEF b, n

LEMMA RecordWritten ==
  ASSUME NEW isTorn \in BOOLEAN
  PROVE  /\ ~isTorn => Written(Record, isTorn) = Record
         /\ isTorn => Written(Record, isTorn) # Record
         /\ Len(Written(Record, isTorn)) = IF isTorn THEN 2 ELSE 4
         /\ \A i \in 1 .. Len(Written(Record, isTorn)) : Written(Record, isTorn)[i] = Record[i]
         /\ Len(Written(Record, isTorn)) > 0 /\ Len(Record) > 1
<1>1. Len(Record) = 4 BY DEF Record
<1>2. CASE isTorn
  <2>1. Written(Record, isTorn) = SubSeq(Record, 1, 2) BY <1>1, <1>2 DEF Written
  <2>2. \A i \in 1 .. 2 : Record[i] \in Byte BY DEF Record, Byte
  <2>3. Len(SubSeq(Record, 1, 2)) = 2 /\ \A i \in 1 .. 2 : SubSeq(Record, 1, 2)[i] = Record[i]
    BY <2>2, SubSeqProperties
  <2>4. Len(Written(Record, isTorn)) = 2 BY <2>1, <2>3
  <2>5. Written(Record, isTorn) # Record
    <3>1. ASSUME Written(Record, isTorn) = Record PROVE FALSE
      <4>1. Len(Record) = 2 BY <2>4, <3>1
      <4> QED BY <1>1, <4>1
    <3> QED BY <3>1
  <2>6. \A i \in 1 .. Len(Written(Record, isTorn)) : Written(Record, isTorn)[i] = Record[i]
    BY <2>1, <2>3, <2>4
  <2>7. Len(Written(Record, isTorn)) > 0 /\ Len(Record) > 1 BY <1>1, <2>4
  <2> QED BY <1>2, <2>4, <2>5, <2>6, <2>7, Zenon
<1>3. CASE ~isTorn BY <1>1, <1>3 DEF Written
<1> QED BY <1>2, <1>3

\* The record written over what the torn-write experiment may find.
LEMMA RecordOver ==
  ASSUME NEW t \in Bytes, NEW isTorn \in BOOLEAN, NEW w \in WriteType,
         w = [offset |-> 0, data |-> Written(Record, isTorn)]
  PROVE  /\ LastBytes(t) => ApplyBytes(t, w) = Record
         /\ Len(t) = 0 /\ ~isTorn => ApplyBytes(t, w) = Record
         /\ Len(t) \in {0, 2} /\ isTorn => Len(ApplyBytes(t, w)) = 2
<1> DEFINE b == ApplyBytes(t, w)
<1>1. w.offset = 0 /\ Len(w.data) = (IF isTorn THEN 2 ELSE 4)
      /\ \A i \in 1 .. Len(w.data) : w.data[i] = Record[i]
  BY RecordWritten
<1>2. Size(w) = IF isTorn THEN 2 ELSE 4 BY <1>1 DEF Size
<1>3. /\ b \in Bytes /\ Len(b) = IF Size(w) > Len(t) THEN Size(w) ELSE Len(t)
      /\ \A i \in 1 .. Len(b) :
           b[i] = IF i \in 1 .. Size(w) THEN w.data[i] ELSE IF i <= Len(t) THEN t[i] ELSE 0
  <2>1. /\ b \in Bytes /\ Len(b) = IF Size(w) > Len(t) THEN Size(w) ELSE Len(t)
        /\ \A i \in 1 .. Len(b) :
             b[i] = IF i \in w.offset + 1 .. Size(w) THEN w.data[i - w.offset]
                    ELSE IF i <= Len(t) THEN t[i] ELSE 0
    BY ApplyIs
  <2>2. w.offset + 1 = 1 /\ \A i \in Nat : i - w.offset = i BY <1>1
  <2> HIDE DEF b
  <2>3. \A i \in 1 .. Len(b) : i \in Nat OBVIOUS
  <2> QED BY <2>1, <2>2, <2>3
<1> HIDE DEF b
<1>4. Len(Record) = 4 /\ Record \in Bytes BY RecordIsBytes DEF Record
<1>5. ASSUME LastBytes(t) \/ (Len(t) = 0 /\ ~isTorn) PROVE b = Record
  <2>1. Len(b) = 4 BY <1>2, <1>3, <1>5 DEF LastBytes
  <2>2. ASSUME NEW i \in 1 .. 4 PROVE b[i] = Record[i]
    <3>1. CASE i <= Size(w)
      <4>1. i \in 1 .. Size(w) /\ i \in 1 .. Len(w.data) BY <1>1, <1>2, <3>1
      <4> QED BY <1>1, <1>3, <2>1, <4>1
    <3>2. CASE ~(i <= Size(w))
      <4>1. isTorn /\ i \in 2 .. 4 /\ i \notin 1 .. Size(w) BY <1>2, <3>2
      <4>2. LastBytes(t) BY <1>5, <4>1
      <4>3. t[i] = Record[i] /\ i <= Len(t) BY <4>1, <4>2 DEF LastBytes
      <4>4. i \in 1 .. Len(b) BY <2>1
      <4> QED BY ONLY <1>3, <4>1, <4>3, <4>4
    <3> QED BY <3>1, <3>2
  <2> QED BY <1>3, <1>4, <2>1, <2>2, SeqEqual DEF Bytes
<1>6. ASSUME Len(t) \in {0, 2}, isTorn PROVE Len(b) = 2 BY <1>2, <1>3, <1>6
<1> QED BY <1>5, <1>6 DEF b

\* Bit rot changes the first byte and no other.
LEMMA RotFirstByte ==
  ASSUME NEW b \in Bytes
  PROVE  Len(Rot(b)) = Len(b) /\ \A i \in 2 .. Len(b) : Rot(b)[i] = b[i]
<1>1. CASE b = <<>> BY <1>1 DEF Rot
<1>2. CASE b # <<>>
  <2> DEFINE x == IF b[1] % 2 = 0 THEN b[1] + 1 ELSE b[1] - 1
  <2>1. 1 \in 1 .. Len(b) /\ b \in Seq(Byte) BY <1>2 DEF Bytes
  <2>2. b[1] \in Byte BY <2>1, ElementOfSeq
  <2>3. x \in Byte BY <2>2 DEF Byte
  <2>4. Rot(b) = [b EXCEPT ![1] = x] BY <1>2 DEF Rot
  <2> HIDE DEF x
  <2>5. /\ Len(Rot(b)) = Len(b)
        /\ \A i \in 1 .. Len(b) : Rot(b)[i] = IF i = 1 THEN x ELSE b[i]
    BY <2>1, <2>3, <2>4, ExceptSeq
  <2>6. \A i \in 2 .. Len(b) : i \in 1 .. Len(b) /\ i # 1 OBVIOUS
  <2> QED BY <2>5, <2>6
<1> QED BY <1>1, <1>2

\* What the faults between two polls do to the device and the program.
LEMMA FaultKinds ==
  ASSUME StoreType, Fault
  PROVE  /\ todo = <<>> /\ UNCHANGED <<program, todo, records, tornWrite, whole>> /\ (torn => torn')
         /\ \/ /\ crashes' = crashes + 1 /\ ~started' /\ UNCHANGED <<committed, rotted>>
               /\ \/ UNCHANGED <<pending, log, forgotten>> /\ spared'
                  \/ pending' = committed /\ log' = <<>> /\ UNCHANGED spared /\ forgotten' = Loss
            \/ UNCHANGED <<pending, committed, log, crashes, started, rotted, spared, forgotten>>
            \/ /\ crashes' = crashes + 1 /\ UNCHANGED <<started, spared>>
               /\ rotted' = (rotted \/ committed # <<>>)
               /\ committed' = Rot(committed) /\ pending' = Rot(committed) /\ log' = <<>>
               /\ forgotten' = Loss
<1>1. todo = <<>> /\ UNCHANGED <<program, todo, records, tornWrite, whole>> BY DEF Fault
<1>2. CASE /\ Crash
           /\ started' = FALSE /\ spared' = (spared \/ ~lost) /\ UNCHANGED rotted
           /\ forgotten' = IF lost THEN Loss ELSE forgotten
  <2>1. UNCHANGED torn /\ UNCHANGED committed /\ crashes' = crashes + 1 BY <1>2 DEF Crash, flags
  <2>2. CASE lost
    <3>1. spared' = spared BY <1>2, <2>2 DEF StoreType
    <3>2. pending' = committed /\ log' = <<>> /\ forgotten' = Loss BY <1>2, <2>2 DEF Crash, Spares
    <3> QED BY <1>1, <1>2, <2>1, <3>1, <3>2
  <2>3. CASE ~lost
    <3>1. UNCHANGED <<pending, log, forgotten>> /\ spared' BY <1>2, <2>3 DEF Crash, Spares
    <3> QED BY <1>1, <1>2, <2>1, <3>1
  <2> QED BY <2>2, <2>3
<1>3. CASE (Restart \/ Enable) /\ UNCHANGED <<started, rotted, spared, forgotten>>
  BY <1>1, <1>3 DEF Restart, Enable, device, flags
<1>4. CASE /\ BitRot
           /\ rotted' = (rotted \/ committed # <<>>) /\ UNCHANGED <<started, spared>>
           /\ forgotten' = Loss
  BY <1>1, <1>4 DEF BitRot, flags
<1> QED BY <1>2, <1>3, <1>4 DEF Fault

LEMMA StartKinds ==
  ASSUME StoreType, Start
  PROVE  /\ ~started /\ started' /\ program # "free"
         /\ UNCHANGED <<pending, committed, log, torn, crashes, program, rotted, tornWrite, whole,
                        spared, forgotten>>
         /\ \/ /\ pending = <<>> \/ program = "torn-write"
               /\ todo' = Script /\ records' = records
            \/ /\ pending # <<>> /\ program # "torn-write"
               /\ todo' = <<>> /\ records' = Append(records, Recovered)
BY DEF Start, Stores, vars, device, flags

LEMMA RecordsGrow ==
  ASSUME StoreType, NEW label \in Labels, records' = Append(records, label),
         NEW k \in DOMAIN records'
  PROVE  (k \in DOMAIN records /\ records'[k] = records[k])
         \/ (k = Len(records) + 1 /\ records'[k] = label)
<1>1. records \in Seq(Labels) BY DEF StoreType
<1> QED BY <1>1, AppendProperties

LEMMA RecordedStays ==
  ASSUME StoreType, NEW label \in Labels, records' = Append(records, label),
         Recorded("ack") \/ label = "ack"
  PROVE  Recorded("ack")'
<1> DEFINE n == Len(records)
<1>1. /\ n \in Nat /\ DOMAIN records = 1 .. n
      /\ DOMAIN records' = 1 .. n + 1 /\ records'[n + 1] = label
      /\ \A k \in 1 .. n : records'[k] = records[k]
  BY AppendProperties DEF StoreType
<1> HIDE DEF n
<1>2. n + 1 \in 1 .. n + 1 /\ \A k \in 1 .. n : k \in 1 .. n + 1 BY <1>1
<1> QED BY <1>1, <1>2 DEF Recorded

\* An acknowledgement is one more, another record none.
LEMMA AcksGrow ==
  ASSUME StoreType, NEW label \in Labels, records' = Append(records, label)
  PROVE  Acks \in Nat /\ Acks' = IF label = "ack" THEN Acks + 1 ELSE Acks
<1> DEFINE n == Len(records)
           A == {k \in DOMAIN records : records[k] = "ack"}
           B == {k \in DOMAIN records' : records'[k] = "ack"}
<1>1. /\ n \in Nat /\ DOMAIN records = 1 .. n
      /\ DOMAIN records' = 1 .. n + 1 /\ records'[n + 1] = label
      /\ \A k \in 1 .. n : records'[k] = records[k]
  BY AppendProperties DEF StoreType
<1>2. Acks = Cardinality(A) /\ Acks' = Cardinality(B) BY DEF Acks
<1>3. n + 1 \notin A /\ A \subseteq 1 .. n BY <1>1
<1>4. B = IF label = "ack" THEN A \union {n + 1} ELSE A
  <2>1. ASSUME NEW k PROVE k \in B <=> k \in A \/ (k = n + 1 /\ label = "ack")
    <3>1. k \in 1 .. n + 1 <=> k \in 1 .. n \/ k = n + 1 BY <1>1
    <3> QED BY <1>1, <3>1
  <2> HIDE DEF A, B
  <2> QED BY <2>1
<1> HIDE DEF A, B, n
<1>5. IsFiniteSet(1 .. n) BY <1>1, FS_Interval
<1>6. IsFiniteSet(A) BY <1>3, <1>5, FS_Subset
<1>7. Cardinality(A) \in Nat BY <1>6, FS_CardinalityType
<1>8. Cardinality(A \union {n + 1}) = Cardinality(A) + 1 BY <1>3, <1>6, FS_AddElement
<1> QED BY <1>2, <1>4, <1>7, <1>8

-----------------------------------------------------------------------------
(* The write-ahead log *)

LEMMA WalStep ==
  ASSUME StoreType, StoreType', program = "wal", UNCHANGED program, WalState, [ProgramsNext]_allVars
  PROVE  WalState'
<1> USE DEF WalState
<1>1. CASE Start
  <2>1. todo = <<>> /\ log = <<>> /\ pending = committed /\ ~started BY <1>1, StartKinds
  <2>2. /\ started' = TRUE
        /\ UNCHANGED <<pending, committed, log, rotted, tornWrite, forgotten>>
    BY <1>1, StartKinds DEF StoreType
  <2>3. CASE pending = <<>> /\ todo' = Script /\ records' = records
    <3>1. todo' = FlushedLog BY <2>3 DEF Script
    <3>2. records = <<>> BY <2>3
    <3>3. FlushedLog # <<>> BY DEF FlushedLog
    <3> QED BY <2>1, <2>2, <2>3, <3>1, <3>2, <3>3
  <2>4. CASE pending # <<>> /\ todo' = <<>> /\ records' = Append(records, Recovered)
    <3>1. Recovered = ReadBack BY DEF Recovered, Raft
    <3>2. ReadBack # "ack" /\ (pending = Record => ReadBack = "intact") BY DEF ReadBack
    <3>3. ~rotted /\ ~tornWrite => pending = Record BY <2>1, <2>4
    <3>4. ASSUME NEW k \in DOMAIN records'
          PROVE  /\ records'[k] = "ack" => k = 1
                 /\ ~rotted /\ ~tornWrite => k = 1 \/ records'[k] = "intact"
      BY <2>4, <3>1, <3>2, <3>3, <3>4, LabelType, RecordsGrow
    <3> QED BY <2>1, <2>2, <2>3, <2>4, <3>3, <3>4
  <2> QED BY <1>1, <2>3, <2>4, StartKinds
<1>2. CASE Call
  <2>1. CASE todo = FlushedLog
    <3>1. Head(todo) = W(0, Record) /\ Len(todo) = 2 /\ todo' = <<F>> /\ todo # <<>> /\ started
          /\ log = <<>> /\ pending = <<>> /\ committed = <<>> /\ records = <<>>
      BY <1>2, <2>1 DEF FlushedLog, Call, StoreType
    <3>2. PICK w \in WriteType :
            /\ w = [offset |-> 0, data |-> Written(Record, torn)]
            /\ pending' = ApplyBytes(pending, w) /\ log' = Append(log, w)
            /\ tornWrite' = (tornWrite \/ (torn /\ Len(Record) > 1))
            /\ records' = IF Len(todo) = 1 /\ program \notin Raft THEN Append(records, "ack") ELSE records
            /\ UNCHANGED <<committed, torn, crashes, program, started, rotted, spared, forgotten>>
      BY <1>2, <3>1, RecordIsBytes, CallWrites
    <3>3. torn \in BOOLEAN /\ tornWrite \in BOOLEAN BY DEF StoreType
    <3>4. pending' = Written(Record, torn) /\ pending' # <<>>
      BY <3>1, <3>2, <3>3, FirstWrite, RecordWritten
    <3>5. ~tornWrite' => pending' = Record BY <3>2, <3>3, <3>4, RecordWritten
    <3>6. Len(log') = 1 BY <3>1, <3>2
    <3>7. records' = <<>> /\ committed' = <<>> /\ started' = started /\ forgotten' = 0
      BY <3>1, <3>2
    <3> QED BY <3>1, <3>4, <3>5, <3>6, <3>7
  <2>2. CASE todo = <<F>>
    <3>1. Head(todo) = F /\ Len(todo) = 1 /\ todo' = <<>> /\ todo # <<>> /\ started
          /\ Len(log) = 1 /\ pending # <<>> /\ records = <<>> /\ (~tornWrite => pending = Record)
      BY <1>2, <2>2 DEF FlushedLog, Call, StoreType
    <3>2. "ack" \in Labels /\ program \notin Raft BY DEF Labels, Raft
    <3>3. Flush /\ records' = <<"ack">> /\ UNCHANGED <<tornWrite, started, rotted, forgotten>>
      BY <1>2, <3>1, <3>2, CallFlushes
    <3>4. pending' = committed' /\ committed' = pending /\ log' = <<>> BY <3>1, <3>3, FlushDoes
    <3>5. DOMAIN records' = {1} BY <3>3
    <3> QED BY <3>1, <3>3, <3>4, <3>5
  <2>3. todo # <<>> BY <1>2 DEF Call
  <2> QED BY <2>1, <2>2, <2>3
<1>3. CASE Fault
  <2>1. todo = <<>> /\ log = <<>> /\ pending = committed /\ UNCHANGED <<todo, records, tornWrite>>
    BY <1>3, FaultKinds
  <2>2. committed \in Bytes BY DEF StoreType
  <2>3. /\ pending' = committed' /\ log' = <<>> /\ (rotted => rotted')
        /\ (pending' = <<>> => pending = <<>>) /\ (~rotted' => pending' = pending)
    <3>1. CASE /\ UNCHANGED <<committed, rotted>>
               /\ UNCHANGED <<pending, log>> \/ (pending' = committed /\ log' = <<>>)
      BY <2>1, <3>1
    <3>2. CASE /\ rotted' = (rotted \/ committed # <<>>)
               /\ committed' = Rot(committed) /\ pending' = Rot(committed) /\ log' = <<>>
      <4>1. committed' = <<>> => committed = <<>> BY <2>2, <3>2, RotIsBytes
      <4>2. committed = <<>> => Rot(committed) = <<>> BY DEF Rot
      <4> QED BY <2>1, <3>2, <4>1, <4>2
    <3> QED BY <1>3, <3>1, <3>2, FaultKinds
  <2>4. forgotten' = 0
    <3>1. Loss = forgotten BY <2>1 DEF Loss
    <3> QED BY <1>3, <3>1, FaultKinds
  <2> QED BY <2>1, <2>3, <2>4
<1>4. CASE FreeCall BY <1>4 DEF FreeCall
<1>5. CASE UNCHANGED allVars BY <1>5 DEF allVars, vars, device, progVars
<1> QED BY <1>1, <1>2, <1>3, <1>4, <1>5 DEF ProgramsNext

-----------------------------------------------------------------------------
(* The planted storage bugs *)

LEMMA UnflushedStep ==
  ASSUME StoreType, StoreType', program = "wal-unflushed", UNCHANGED program, UnflushedState,
         [ProgramsNext]_allVars
  PROVE  UnflushedState'
<1> USE DEF UnflushedState
<1>1. CASE Start
  <2>1. todo = <<>> /\ ~started BY <1>1, StartKinds
  <2>2. started' /\ UNCHANGED <<pending, committed, log, spared, forgotten>> BY <1>1, StartKinds
  <2>3. CASE pending = <<>> /\ todo' = Script /\ records' = records
    <3>1. todo' = AckBeforeFlush BY <2>3 DEF Script
    <3>2. Acks' = Acks BY <2>3 DEF Acks
    <3> QED BY <2>1, <2>2, <2>3, <3>1, <3>2 DEF Recorded
  <2>4. CASE pending # <<>> /\ todo' = <<>> /\ records' = Append(records, Recovered)
    <3>1. spared BY <2>1, <2>4
    <3>2. Recovered \in Labels /\ Recovered # "ack" BY LabelType DEF Recovered, ReadBack, Raft
    <3>3. Acks' = Acks BY <2>4, <3>2, AcksGrow
    <3>4. Recorded("ack")' BY <2>4, <3>2, RecordedStays
    <3> QED BY <2>2, <2>4, <3>1, <3>3, <3>4
  <2> QED BY <1>1, <2>3, <2>4, StartKinds
<1>2. CASE Call
  <2>1. todo = AckBeforeFlush /\ pending = <<>> /\ todo # <<>> BY <1>2 DEF Call
  <2>2. Head(todo) = W(0, Record) /\ Len(todo) = 1 /\ todo' = <<>> /\ started
    BY <1>2, <2>1 DEF AckBeforeFlush, Call, StoreType
  <2>3. "ack" \in Labels /\ program \notin Raft BY DEF Labels, Raft
  <2>4. PICK w \in WriteType :
          /\ w = [offset |-> 0, data |-> Written(Record, torn)]
          /\ pending' = ApplyBytes(pending, w) /\ log' = Append(log, w)
          /\ records' = Append(records, "ack")
          /\ UNCHANGED <<committed, started, spared, forgotten>>
    BY <1>2, <2>2, <2>3, RecordIsBytes, CallWrites
  <2>5. \A k \in DOMAIN records' : ~spared => records'[k] = "ack"
    BY <2>3, <2>4, RecordsGrow
  <2>6. pending' # <<>>
    <3>1. torn \in BOOLEAN BY DEF StoreType
    <3>2. Len(w.data) > 0 BY <2>4, <3>1, RecordWritten
    <3> QED BY <2>1, <2>4, <3>2, FirstWrite
  <2>7. log' # <<>>
    <3>1. log \in Seq(WriteType) BY DEF StoreType
    <3>2. Len(log') = Len(log) + 1 /\ Len(log) \in Nat BY <2>4, <3>1
    <3> QED BY <3>2
  <2>8. Recorded("ack")' BY <2>3, <2>4, RecordedStays
  <2>9. Acks' = forgotten' + 1
    <3>1. Acks' = Acks + 1 BY <2>3, <2>4, AcksGrow
    <3>2. Acks = forgotten BY <2>1 DEF StoreType
    <3> QED BY <2>4, <3>1, <3>2
  <2> QED BY <2>2, <2>4, <2>5, <2>6, <2>7, <2>8, <2>9
<1>3. CASE Fault
  <2>1. todo = <<>> /\ UNCHANGED <<todo, records>> BY <1>3, FaultKinds
  <2>2. Rot(<<>>) = <<>> BY DEF Rot
  <2>3. committed' = <<>> BY <1>3, <2>2, FaultKinds
  <2>4. ASSUME ~spared' PROVE ~spared /\ (~started' => pending' = <<>>)
    BY <1>3, <2>2, <2>4, FaultKinds
  <2>5. \/ UNCHANGED <<pending, log, forgotten>>
        \/ pending' = <<>> /\ log' = <<>> /\ forgotten' = Loss
    BY <1>3, <2>2, FaultKinds
  <2>6. Loss = forgotten + IF pending = <<>> THEN 0 ELSE 1 BY DEF Loss, StoreType
  <2>7. Acks' = Acks /\ (Recorded("ack")' <=> Recorded("ack")) BY <2>1 DEF Acks, Recorded
  <2>8. Acks' = forgotten' + IF pending' = <<>> THEN 0 ELSE 1
    <3>1. forgotten \in Nat /\ forgotten' \in Nat BY DEF StoreType
    <3>2. CASE UNCHANGED <<pending, log, forgotten>> BY <2>7, <3>2
    <3>3. CASE pending' = <<>> /\ log' = <<>> /\ forgotten' = Loss
      <4>1. Acks' = forgotten' BY <2>6, <2>7, <3>3
      <4> QED BY <3>1, <3>3, <4>1
    <3> QED BY <2>5, <3>2, <3>3
  <2> QED BY <2>1, <2>3, <2>4, <2>5, <2>7, <2>8
<1>4. CASE FreeCall BY <1>4 DEF FreeCall
<1>5. CASE UNCHANGED allVars
  <2>1. Acks' = Acks /\ (Recorded("ack")' <=> Recorded("ack"))
    BY <1>5 DEF allVars, progVars, Acks, Recorded
  <2> QED BY <1>5, <2>1 DEF allVars, vars, device, progVars
<1> QED BY <1>1, <1>2, <1>3, <1>4, <1>5 DEF ProgramsNext

LEMMA TornStep ==
  ASSUME StoreType, StoreType', program = "torn-write", UNCHANGED program, TornState,
         [ProgramsNext]_allVars
  PROVE  TornState'
<1>b. pending \in Bytes /\ committed \in Bytes /\ torn \in BOOLEAN /\ whole \in BOOLEAN
  BY DEF StoreType
<1>e. \A b \in Bytes : Len(b) = 0 <=> b = <<>> BY DEF Bytes
<1>1. CASE Start
  <2>1. ~started /\ started' /\ todo' = Script /\ records' = records
        /\ UNCHANGED <<pending, committed, log, torn, whole>>
    BY <1>1, StartKinds
  <2>2. todo' = TornWrite BY <2>1 DEF Script
  <2>3. todo = <<>> BY <2>1 DEF TornState
  <2>4. todo # <<F, R>> /\ todo # <<R>> BY <2>3
  <2> QED BY <2>1, <2>2, <2>3, <2>4 DEF TornState
<1>2. CASE Call
  <2>1. todo # <<>> /\ todo' = Tail(todo) /\ started BY <1>2 DEF Call, TornState
  <2>2. CASE /\ todo = TornWrite /\ log = <<>> /\ pending = committed
             /\ IF whole THEN LastBytes(pending) ELSE Len(pending) \in {0, 2}
    <3>1. Head(todo) = W(0, Record) /\ Len(todo) = 3 /\ todo' = <<F, R>>
      BY <2>1, <2>2 DEF TornWrite
    <3>2. PICK w \in WriteType :
            /\ w = [offset |-> 0, data |-> Written(Record, torn)]
            /\ pending' = ApplyBytes(pending, w) /\ log' = Append(log, w)
            /\ whole' = (whole \/ Written(Record, torn) = Record)
            /\ records' = records
            /\ UNCHANGED <<torn, started>>
      BY <1>2, <3>1, RecordIsBytes, CallWrites
    <3>3. whole' = (whole \/ ~torn) BY <1>b, <3>2, RecordWritten
    <3>4. Len(log') = 1 BY <2>2, <3>2
    <3>5. CASE whole
      <4>1. pending' = Record BY <1>b, <2>2, <3>2, <3>5, RecordOver
      <4>2. whole' BY <3>3, <3>5
      <4> QED BY <2>1, <3>1, <3>2, <3>4, <3>5, <4>1, <4>2 DEF TornState
    <3>6. CASE ~whole /\ ~torn
      <4>1. pending = <<>> /\ records = <<>> BY <3>6 DEF TornState
      <4>2. pending' = Record BY <1>b, <1>e, <3>2, <3>6, <4>1, RecordOver
      <4>3. whole' BY <3>3, <3>6
      <4>4. records' = <<>> BY <3>2, <4>1
      <4>5. DOMAIN records' = {} BY <4>4
      <4> QED BY <2>1, <3>1, <3>2, <3>4, <4>2, <4>3, <4>5 DEF TornState
    <3>7. CASE ~whole /\ torn
      <4>1. Len(pending') = 2 BY <1>b, <2>2, <3>2, <3>7, RecordOver
      <4>2. ~whole' /\ torn' BY <3>2, <3>3, <3>7
      <4> QED BY <2>1, <3>1, <3>2, <3>4, <3>7, <4>1, <4>2 DEF TornState
    <3> QED BY <3>5, <3>6, <3>7
  <2>3. CASE /\ todo = <<F, R>> /\ Len(log) = 1
             /\ IF whole THEN pending = Record ELSE Len(pending) = 2
    <3>1. Head(todo) = F /\ Len(todo) = 2 /\ todo' = <<R>> BY <2>1, <2>3
    <3>2. Flush /\ records' = records /\ UNCHANGED <<torn, whole, started>>
      BY <1>2, <3>1, CallFlushes
    <3>3. pending' = pending /\ committed' = pending' /\ log' = <<>> BY <2>3, <3>2, FlushDoes
    <3> QED BY <2>1, <2>3, <3>1, <3>2, <3>3 DEF TornState
  <2>4. CASE /\ todo = <<R>> /\ log = <<>> /\ pending = committed
             /\ IF whole THEN pending = Record ELSE Len(pending) = 2
    <3>1. Head(todo) = R /\ todo' = <<>> BY <2>1, <2>4
    <3>2. records' = Append(records, ReadBack)
          /\ UNCHANGED <<pending, committed, log, torn, whole, started>>
      BY <1>2, <3>1, CallReads DEF vars, device, flags
    <3>3. Len(Record) = 4 /\ \A i \in 2 .. 4 : Record[i] = Record[i] BY DEF Record
    <3>4. ReadBack = IF whole THEN "intact" ELSE "damaged"
      <4>1. ~whole => pending # Record BY <2>4, <3>3
      <4> QED BY <2>4, <4>1 DEF ReadBack
    <3>5. \A k \in DOMAIN records' : records'[k] = IF whole THEN "intact" ELSE "damaged"
      BY <3>2, <3>4, LabelType, RecordsGrow DEF TornState
    <3>6. ~whole => torn
      <4>1. ~whole => pending # <<>> BY <2>4
      <4> QED BY <4>1 DEF TornState
    <3>7. IF whole THEN LastBytes(pending) ELSE Len(pending) \in {0, 2}
      BY <2>4, <3>3 DEF LastBytes
    <3> QED BY <2>4, <3>1, <3>2, <3>5, <3>6, <3>7 DEF TornState
  <2> QED BY <2>1, <2>2, <2>3, <2>4 DEF TornState
<1>3. CASE Fault
  <2>1. todo = <<>> /\ UNCHANGED <<todo, records, whole>> /\ (torn => torn') BY <1>3, FaultKinds
  <2>2. todo # <<F, R>> /\ todo # <<R>> BY <2>1
  <2>3. log = <<>> /\ pending = committed
        /\ IF whole THEN LastBytes(pending) ELSE Len(pending) \in {0, 2}
    BY <2>2 DEF TornState
  <2>4. log' = <<>> /\ pending' = committed' /\ (pending' = pending \/ pending' = Rot(pending))
    BY <1>3, <2>3, FaultKinds
  <2>5. Len(pending') = Len(pending) /\ (LastBytes(pending) => LastBytes(pending'))
    BY <1>b, <2>4, RotFirstByte DEF LastBytes
  <2>6. pending' = <<>> <=> pending = <<>>
    <3>1. pending' \in Bytes BY DEF StoreType
    <3> QED BY <1>b, <1>e, <2>5, <3>1
  <2> QED BY <2>1, <2>3, <2>4, <2>5, <2>6 DEF TornState
<1>4. CASE FreeCall BY <1>4 DEF FreeCall
<1>5. CASE UNCHANGED allVars
  BY <1>5 DEF allVars, vars, device, flags, progVars, TornState
<1> QED BY <1>1, <1>2, <1>3, <1>4, <1>5 DEF ProgramsNext

-----------------------------------------------------------------------------
(* The persistence probe *)

LEMMA ProbeWriteTypes ==
  /\ TermWrite \in WriteType /\ VoteWrite \in WriteType /\ EntryWrite \in WriteType
  /\ Touched(TermWrite) = {1} /\ Touched(VoteWrite) = {2} /\ Touched(EntryWrite) = {3}
<1>1. Len(Term) = 1 /\ Len(Vote) = 1 /\ Len(Entry) = 1 BY DEF Term, Vote, Entry
<1>2. TermWrite \in WriteType /\ VoteWrite \in WriteType /\ EntryWrite \in WriteType
  BY RecordIsBytes DEF WriteType, TermWrite, VoteWrite, EntryWrite
<1>3. Touched(TermWrite) = 1 .. 1 /\ Touched(VoteWrite) = 2 .. 2 /\ Touched(EntryWrite) = 3 .. 3
  <2>1. /\ TermWrite.offset = 0 /\ Len(TermWrite.data) = 1
        /\ VoteWrite.offset = 1 /\ Len(VoteWrite.data) = 1
        /\ EntryWrite.offset = 2 /\ Len(EntryWrite.data) = 1
    BY <1>1 DEF TermWrite, VoteWrite, EntryWrite
  <2> QED BY <2>1 DEF Touched
<1> QED BY <1>2, <1>3

\* One byte at the end of a device, or behind it.
LEMMA OneByte ==
  ASSUME NEW t \in Bytes, NEW w \in WriteType, NEW x, NEW b \in Bytes,
         w.data = <<x>>, Len(t) <= w.offset, Len(b) = w.offset + 1, b[w.offset + 1] = x,
         \A i \in 1 .. Len(t) : b[i] = t[i],
         \A i \in Len(t) + 1 .. w.offset : b[i] = 0
  PROVE  ApplyBytes(t, w) = b
<1> DEFINE c == ApplyBytes(t, w)
<1>1. w.offset \in Nat /\ Len(t) \in Nat BY DEF WriteType, Bytes
<1>2. Size(w) = w.offset + 1 BY DEF Size
<1>3. c \in Bytes /\ Len(c) = Len(b) BY <1>1, <1>2, ApplyIs
<1>4. ASSUME NEW i \in 1 .. Len(b) PROVE c[i] = b[i]
  <2>1. c[i] = IF i \in w.offset + 1 .. Size(w) THEN w.data[i - w.offset]
               ELSE IF i <= Len(t) THEN t[i] ELSE 0
    <3>1. \A j \in 1 .. Len(c) : c[j] = IF j \in w.offset + 1 .. Size(w) THEN w.data[j - w.offset]
                                      ELSE IF j <= Len(t) THEN t[j] ELSE 0
      BY ApplyIs
    <3> HIDE DEF c
    <3>2. i \in 1 .. Len(c) BY <1>3
    <3> QED BY <3>1, <3>2
  <2>2. CASE i = w.offset + 1
    <3>1. i - w.offset = 1 /\ i \in w.offset + 1 .. Size(w) BY <1>1, <1>2, <2>2
    <3>2. w.data[1] = x OBVIOUS
    <3> QED BY <2>1, <2>2, <3>1, <3>2
  <2>3. CASE i # w.offset + 1
    <3>1. i \notin w.offset + 1 .. Size(w) /\ i \in 1 .. w.offset BY <1>1, <1>2, <2>3
    <3> QED BY <1>1, <2>1, <3>1
  <2> QED BY <2>2, <2>3
<1> HIDE DEF c
<1>5. c = b BY <1>3, <1>4, SeqEqual DEF Bytes
<1> QED BY <1>5 DEF c

LEMMA ProbeBytes ==
  /\ ApplyBytes(<<>>, TermWrite) = <<1>>
  /\ ApplyBytes(<<1>>, VoteWrite) = <<1, 2>>
  /\ ApplyBytes(<<1, 2>>, EntryWrite) = <<1, 2, 3>>
  /\ ApplyBytes(<<>>, VoteWrite) = <<0, 2>>
  /\ ApplyBytes(<<0, 2>>, EntryWrite) = <<0, 2, 3>>
  /\ ApplyBytes(<<1>>, EntryWrite) = <<1, 0, 3>>
<1>1. /\ <<>> \in Bytes /\ <<1>> \in Bytes /\ <<1, 2>> \in Bytes /\ <<0, 2>> \in Bytes
      /\ <<1, 2, 3>> \in Bytes /\ <<0, 2, 3>> \in Bytes /\ <<1, 0, 3>> \in Bytes
  BY DEF Bytes, Byte
<1>2. /\ TermWrite.offset = 0 /\ TermWrite.data = <<1>>
      /\ VoteWrite.offset = 1 /\ VoteWrite.data = <<2>>
      /\ EntryWrite.offset = 2 /\ EntryWrite.data = <<3>>
  BY DEF TermWrite, VoteWrite, EntryWrite, Term, Vote, Entry
<1>3. ASSUME NEW t \in Bytes, NEW b \in Bytes, Len(t) <= 1, Len(b) = 2, b[2] = 2,
             b[1] = IF Len(t) = 1 THEN t[1] ELSE 0
      PROVE  ApplyBytes(t, VoteWrite) = b
  <2>1. Len(t) \in Nat BY DEF Bytes
  <2>2. \A i \in 1 .. Len(t) : b[i] = t[i]
    <3>1. Len(t) \in {0, 1} BY <1>3, <2>1
    <3>2. CASE Len(t) = 0 BY <3>2
    <3>3. CASE Len(t) = 1 BY <1>3, <3>3
    <3> QED BY <3>1, <3>2, <3>3
  <2>3. \A i \in Len(t) + 1 .. 1 : b[i] = 0 BY <1>3, <2>1
  <2>4. /\ Len(t) <= VoteWrite.offset /\ Len(b) = VoteWrite.offset + 1
        /\ b[VoteWrite.offset + 1] = 2 /\ VoteWrite.data = <<2>>
        /\ \A i \in Len(t) + 1 .. VoteWrite.offset : b[i] = 0
    BY <1>2, <1>3, <2>3
  <2>5. VoteWrite \in WriteType BY ProbeWriteTypes
  <2> QED BY <2>2, <2>4, <2>5, OneByte
<1>4. ASSUME NEW t \in Bytes, NEW b \in Bytes, Len(t) <= 2, Len(b) = 3, b[3] = 3,
             b[1] = IF Len(t) >= 1 THEN t[1] ELSE 0,
             b[2] = IF Len(t) = 2 THEN t[2] ELSE 0
      PROVE  ApplyBytes(t, EntryWrite) = b
  <2>1. Len(t) \in {0, 1, 2}
    <3>1. Len(t) \in Nat BY DEF Bytes
    <3>2. PICK k : k = Len(t) OBVIOUS
    <3>3. k \in Nat /\ k <= 2 BY <1>4, <3>1, <3>2
    <3>4. k \in {0, 1, 2} BY <3>3
    <3> QED BY <3>2, <3>4
  <2>2. \A i \in 1 .. Len(t) : b[i] = t[i]
    <3> SUFFICES ASSUME NEW i \in 1 .. Len(t) PROVE b[i] = t[i] OBVIOUS
    <3>1. CASE Len(t) = 0 BY <3>1
    <3>2. CASE Len(t) = 1
      <4>1. i = 1 BY <3>2
      <4> QED BY <1>4, <3>2, <4>1
    <3>3. CASE Len(t) = 2
      <4>1. i = 1 \/ i = 2 BY <3>3
      <4> QED BY <1>4, <3>3, <4>1
    <3> QED BY <2>1, <3>1, <3>2, <3>3
  <2>3. \A i \in Len(t) + 1 .. 2 : b[i] = 0
    <3> SUFFICES ASSUME NEW i \in Len(t) + 1 .. 2 PROVE b[i] = 0 OBVIOUS
    <3>1. CASE Len(t) = 0
      <4>1. i = 1 \/ i = 2 BY <3>1
      <4> QED BY <1>4, <3>1, <4>1
    <3>2. CASE Len(t) = 1
      <4>1. i = 2 BY <3>2
      <4> QED BY <1>4, <3>2, <4>1
    <3>3. CASE Len(t) = 2 BY <3>3
    <3> QED BY <2>1, <3>1, <3>2, <3>3
  <2>4. /\ Len(t) <= EntryWrite.offset /\ Len(b) = EntryWrite.offset + 1
        /\ b[EntryWrite.offset + 1] = 3 /\ EntryWrite.data = <<3>>
        /\ \A i \in Len(t) + 1 .. EntryWrite.offset : b[i] = 0
    BY <1>2, <1>4, <2>3
  <2>5. EntryWrite \in WriteType BY ProbeWriteTypes
  <2> QED BY <2>2, <2>4, <2>5, OneByte
<1>5. ApplyBytes(<<>>, TermWrite) = <<1>> BY <1>1, <1>2, ProbeWriteTypes, FirstWrite
<1>6. ApplyBytes(<<1>>, VoteWrite) = <<1, 2>>
  <2> DEFINE t == <<1>>
             b == <<1, 2>>
  <2>1. t \in Bytes /\ Len(t) = 1 /\ t[1] = 1 BY <1>1
  <2>2. b \in Bytes /\ Len(b) = 2 /\ b[1] = 1 /\ b[2] = 2 BY <1>1
  <2> HIDE DEF t, b
  <2>3. ApplyBytes(t, VoteWrite) = b
    <3>1. Len(t) <= 1 /\ b[1] = IF Len(t) = 1 THEN t[1] ELSE 0 BY <2>1, <2>2
    <3> QED BY <1>3, <2>1, <2>2, <3>1
  <2> QED BY <2>3 DEF t, b
<1>7. ApplyBytes(<<1, 2>>, EntryWrite) = <<1, 2, 3>>
  <2> DEFINE t == <<1, 2>>
             b == <<1, 2, 3>>
  <2>1. t \in Bytes /\ Len(t) = 2 /\ t[1] = 1 /\ t[2] = 2 BY <1>1
  <2>2. b \in Bytes /\ Len(b) = 3 /\ b[1] = 1 /\ b[2] = 2 /\ b[3] = 3 BY <1>1
  <2> HIDE DEF t, b
  <2>3. ApplyBytes(t, EntryWrite) = b
    <3>1. Len(t) <= 2 /\ Len(t) >= 1 /\ Len(t) = 2 BY <2>1
    <3> QED BY <1>4, <2>1, <2>2, <3>1
  <2> QED BY <2>3 DEF t, b
<1>8. ApplyBytes(<<>>, VoteWrite) = <<0, 2>>
  <2> DEFINE t == <<>>
             b == <<0, 2>>
  <2>1. t \in Bytes /\ Len(t) = 0 BY <1>1
  <2>2. b \in Bytes /\ Len(b) = 2 /\ b[1] = 0 /\ b[2] = 2 BY <1>1
  <2> HIDE DEF t, b
  <2>3. ApplyBytes(t, VoteWrite) = b
    <3>1. Len(t) <= 1 /\ b[1] = IF Len(t) = 1 THEN t[1] ELSE 0 BY <2>1, <2>2
    <3> QED BY <1>3, <2>1, <2>2, <3>1
  <2> QED BY <2>3 DEF t, b
<1>9. ApplyBytes(<<0, 2>>, EntryWrite) = <<0, 2, 3>>
  <2> DEFINE t == <<0, 2>>
             b == <<0, 2, 3>>
  <2>1. t \in Bytes /\ Len(t) = 2 /\ t[1] = 0 /\ t[2] = 2 BY <1>1
  <2>2. b \in Bytes /\ Len(b) = 3 /\ b[1] = 0 /\ b[2] = 2 /\ b[3] = 3 BY <1>1
  <2> HIDE DEF t, b
  <2>3. ApplyBytes(t, EntryWrite) = b
    <3>1. Len(t) <= 2 /\ Len(t) >= 1 /\ Len(t) = 2 BY <2>1
    <3> QED BY <1>4, <2>1, <2>2, <3>1
  <2> QED BY <2>3 DEF t, b
<1>10. ApplyBytes(<<1>>, EntryWrite) = <<1, 0, 3>>
  <2> DEFINE t == <<1>>
             b == <<1, 0, 3>>
  <2>1. t \in Bytes /\ Len(t) = 1 /\ t[1] = 1 BY <1>1
  <2>2. b \in Bytes /\ Len(b) = 3 /\ b[1] = 1 /\ b[2] = 0 /\ b[3] = 3 BY <1>1
  <2> HIDE DEF t, b
  <2>3. ApplyBytes(t, EntryWrite) = b
    <3>1. Len(t) <= 2 /\ Len(t) >= 1 /\ ~(Len(t) = 2) BY <2>1
    <3> QED BY <1>4, <2>1, <2>2, <3>1
  <2> QED BY <2>3 DEF t, b
<1> QED BY <1>5, <1>6, <1>7, <1>8, <1>9, <1>10

LEMMA ProbeDisjoint ==
  /\ Disjoint(<<TermWrite, VoteWrite, EntryWrite>>)
  /\ Disjoint(<<VoteWrite, EntryWrite>>)
  /\ Disjoint(<<TermWrite, EntryWrite>>)
<1>1. Disjoint(<<TermWrite, VoteWrite, EntryWrite>>)
  <2> DEFINE ws == <<TermWrite, VoteWrite, EntryWrite>>
  <2>1. DOMAIN ws = 1 .. 3 /\ ws[1] = TermWrite /\ ws[2] = VoteWrite /\ ws[3] = EntryWrite OBVIOUS
  <2> QED BY <2>1, ProbeWriteTypes DEF Disjoint
<1>2. Disjoint(<<VoteWrite, EntryWrite>>) BY ProbeWriteTypes DEF Disjoint
<1>3. Disjoint(<<TermWrite, EntryWrite>>) BY ProbeWriteTypes DEF Disjoint
<1> QED BY <1>1, <1>2, <1>3

\* A byte is never torn.
LEMMA ProbeWrites ==
  ASSUME StoreType, Call, program \in Raft, NEW offset \in Nat, NEW data \in {Term, Vote, Entry},
         Head(todo) = W(offset, data)
  PROVE  LET w == [offset |-> offset, data |-> data]
         IN  /\ pending' = ApplyBytes(pending, w) /\ log' = Append(log, w) /\ records' = records
             /\ UNCHANGED <<committed, program, started, rotted>>
<1>1. Written(data, torn) = data
  <2>1. Len(data) = 1 BY DEF Term, Vote, Entry
  <2> QED BY <2>1 DEF Written
<1>2. data \in Bytes BY RecordIsBytes
<1> QED BY <1>1, <1>2, CallWrites

\* The probe makes its next write.
LEMMA ProbingGoesOn ==
  ASSUME StoreType, StoreType', program \in Raft, UNCHANGED program, Probing, committed = <<>>, Call,
         Head(todo) # F
  PROVE  Probing' /\ UNCHANGED <<committed, started, rotted, records>>
<1> DEFINE Goes(offset, data, w, bytes) ==
             /\ log' = Append(log, w) /\ pending' = bytes
             /\ UNCHANGED <<committed, started, rotted, records>>
<1>t. todo' = Tail(todo) BY DEF Call
<1>1. ASSUME Head(todo) = W(0, Term), pending = <<>> PROVE Goes(0, Term, TermWrite, <<1>>)
  BY <1>1, ProbeWrites, ProbeBytes DEF TermWrite
<1>2. ASSUME Head(todo) = W(1, Vote), pending = <<>> PROVE Goes(1, Vote, VoteWrite, <<0, 2>>)
  BY <1>2, ProbeWrites, ProbeBytes DEF VoteWrite
<1>3. ASSUME Head(todo) = W(1, Vote), pending = << 1 >> PROVE Goes(1, Vote, VoteWrite, <<1, 2>>)
  BY <1>3, ProbeWrites, ProbeBytes DEF VoteWrite
<1>4. ASSUME Head(todo) = W(2, Entry), pending = <<1, 2>>
      PROVE  Goes(2, Entry, EntryWrite, <<1, 2, 3>>)
  BY <1>4, ProbeWrites, ProbeBytes DEF EntryWrite
<1>5. ASSUME Head(todo) = W(2, Entry), pending = <<0, 2>>
      PROVE  Goes(2, Entry, EntryWrite, <<0, 2, 3>>)
  BY <1>5, ProbeWrites, ProbeBytes DEF EntryWrite
<1>6. ASSUME Head(todo) = W(2, Entry), pending = << 1 >>
      PROVE  Goes(2, Entry, EntryWrite, <<1, 0, 3>>)
  BY <1>6, ProbeWrites, ProbeBytes DEF EntryWrite
<1> DEFINE A == W(0, Term)  B == W(1, Vote)  C == W(2, Entry)
<1>7. CASE At(Script, <<>>, <<>>)
  <2>1. CASE program = "raft"
    <3>1. Script = <<A, B, C, F>> BY <2>1 DEF Script
    <3>2. Head(todo) = A /\ todo' = <<B, C, F>> BY <1>t, <1>7, <3>1 DEF At
    <3>3. log' = <<TermWrite>> /\ pending' = <<1>> BY <1>1, <1>7, <3>2 DEF At
    <3> QED BY <1>1, <1>7, <2>1, <3>2, <3>3 DEF At, Probing
  <2>2. CASE program = "raft-no-term"
    <3>1. Script = <<B, C, F>> BY <2>2 DEF Script
    <3>2. Head(todo) = B /\ todo' = <<C, F>> BY <1>t, <1>7, <3>1 DEF At
    <3>3. log' = <<VoteWrite>> /\ pending' = <<0, 2>> BY <1>2, <1>7, <3>2 DEF At
    <3> QED BY <1>2, <1>7, <2>2, <3>2, <3>3 DEF At, Probing
  <2>3. CASE program = "raft-no-vote"
    <3>1. Script = <<A, C, F>> BY <2>3 DEF Script
    <3>2. Head(todo) = A /\ todo' = <<C, F>> BY <1>t, <1>7, <3>1 DEF At
    <3>3. log' = <<TermWrite>> /\ pending' = <<1>> BY <1>1, <1>7, <3>2 DEF At
    <3> QED BY <1>1, <1>7, <2>3, <3>2, <3>3 DEF At, Probing
  <2> QED BY <2>1, <2>2, <2>3 DEF Raft
<1>8. CASE program = "raft" /\ At(<<B, C, F>>, <<TermWrite>>, <<1>>)
  <2>1. Head(todo) = B /\ todo' = <<C, F>> BY <1>t, <1>8 DEF At
  <2>2. log' = <<TermWrite, VoteWrite>> /\ pending' = <<1, 2>> BY <1>3, <1>8, <2>1 DEF At
  <2> QED BY <1>3, <1>8, <2>1, <2>2 DEF At, Probing
<1>9. CASE program = "raft" /\ At(<<C, F>>, <<TermWrite, VoteWrite>>, <<1, 2>>)
  <2>1. Head(todo) = C /\ todo' = <<F>> BY <1>t, <1>9 DEF At
  <2>2. log' = <<TermWrite, VoteWrite, EntryWrite>> /\ pending' = <<1, 2, 3>>
    BY <1>4, <1>9, <2>1 DEF At
  <2> QED BY <1>4, <1>9, <2>1, <2>2 DEF At, Probing
<1>10. CASE program = "raft-no-term" /\ At(<<C, F>>, <<VoteWrite>>, <<0, 2>>)
  <2>1. Head(todo) = C /\ todo' = <<F>> BY <1>t, <1>10 DEF At
  <2>2. log' = <<VoteWrite, EntryWrite>> /\ pending' = <<0, 2, 3>> BY <1>5, <1>10, <2>1 DEF At
  <2> QED BY <1>5, <1>10, <2>1, <2>2 DEF At, Probing
<1>11. CASE program = "raft-no-vote" /\ At(<<C, F>>, <<TermWrite>>, <<1>>)
  <2>1. Head(todo) = C /\ todo' = <<F>> BY <1>t, <1>11 DEF At
  <2>2. log' = <<TermWrite, EntryWrite>> /\ pending' = <<1, 0, 3>> BY <1>6, <1>11, <2>1 DEF At
  <2> QED BY <1>6, <1>11, <2>1, <2>2 DEF At, Probing
<1>12. todo # <<F>>
  <2>1. Head(<<F>>) = F OBVIOUS
  <2> QED BY <2>1
<1> QED BY <1>7, <1>8, <1>9, <1>10, <1>11, <1>12 DEF Probing, At

\* It flushes what it has written, in whatever order, and all of it stays.
LEMMA ProbingEnds ==
  ASSUME StoreType, LogExplainsPending, program \in Raft, UNCHANGED program, Probing,
         committed = <<>>, Call, Head(todo) = F
  PROVE  /\ todo' = <<>> /\ log' = <<>> /\ pending' = committed' /\ pending' = Kept
         /\ UNCHANGED <<started, rotted, records>>
<1>1. Flush /\ records' = records /\ UNCHANGED <<started, rotted>> BY CallFlushes
<1>2. F # W(0, Term) /\ F # W(1, Vote) /\ F # W(2, Entry) BY DEF F, W
<1>3. todo # Script
  <2>1. ASSUME todo = Script PROVE Head(todo) \in {W(0, Term), W(1, Vote)} BY <2>1 DEF Script, Raft
  <2> QED BY <1>2, <2>1
<1>4. /\ todo # <<W(1, Vote), W(2, Entry), F>> /\ todo # <<W(2, Entry), F>> BY <1>2
<1>5. todo = <<F>> /\ pending = Kept /\ Disjoint(log)
  <2>1. CASE program = "raft" /\ At(<<F>>, <<TermWrite, VoteWrite, EntryWrite>>, <<1, 2, 3>>)
    BY <2>1, ProbeDisjoint DEF At, Kept
  <2>2. CASE program = "raft-no-term" /\ At(<<F>>, <<VoteWrite, EntryWrite>>, <<0, 2, 3>>)
    BY <2>2, ProbeDisjoint DEF At, Kept
  <2>3. CASE program = "raft-no-vote" /\ At(<<F>>, <<TermWrite, EntryWrite>>, <<1, 0, 3>>)
    BY <2>3, ProbeDisjoint DEF At, Kept
  <2> QED BY <1>3, <1>4, <2>1, <2>2, <2>3 DEF Probing, At
<1>6. todo' = <<>> BY <1>5 DEF Call
<1>7. committed' = pending BY <1>1, <1>5, DisjointFlush
<1> QED BY <1>1, <1>5, <1>6, <1>7, FlushDoes DEF Kept

LEMMA KeptIsBlamed ==
  ASSUME program \in Raft, pending = Kept
  PROVE  Recovered = Blame
<1> DEFINE bytes == [i \in 1 .. 3 |-> IF i <= Len(pending) THEN pending[i] ELSE 0]
<1>1. Len(pending) = 3 BY DEF Kept, Raft
<1>2. DOMAIN bytes = 1 .. 3 /\ \A i \in 1 .. 3 : bytes[i] = pending[i] BY <1>1
<1>3. bytes[1] = pending[1] /\ bytes[2] = pending[2] /\ bytes[3] = pending[3] BY <1>2
<1>4. Term \o Vote \o Entry = <<1, 2, 3>>
  <2>1. <<1>> \in Seq(Byte) /\ <<1, 2>> \in Seq(Byte) /\ 2 \in Byte /\ 3 \in Byte BY DEF Byte
  <2>2. Append(<<1>>, 2) = <<1, 2>> /\ Append(<<1, 2>>, 3) = <<1, 2, 3>>
    <3>1. ASSUME NEW s \in Seq(Byte), NEW x \in Byte, NEW t \in Seq(Byte), Len(t) = Len(s) + 1,
                 t[Len(s) + 1] = x, \A i \in 1 .. Len(s) : t[i] = s[i]
          PROVE  Append(s, x) = t
      <4>1. Append(s, x) \in Seq(Byte) /\ Len(Append(s, x)) = Len(s) + 1
            /\ \A i \in 1 .. Len(s) + 1 : Append(s, x)[i] = t[i]
        BY <3>1
      <4> QED BY <3>1, <4>1, SeqEqual
    <3> DEFINE s == <<1>>  t == <<1, 2>>  u == <<1, 2, 3>>
    <3>2. s \in Seq(Byte) /\ t \in Seq(Byte) /\ u \in Seq(Byte) BY <2>1 DEF Byte
    <3>3. Len(s) = 1 /\ Len(t) = 2 /\ Len(u) = 3 OBVIOUS
    <3>4. \A i \in 1 .. 1 : t[i] = s[i] OBVIOUS
    <3>5. \A i \in 1 .. 2 : u[i] = t[i] OBVIOUS
    <3>6. t[2] = 2 /\ u[3] = 3 OBVIOUS
    <3> HIDE DEF s, t, u
    <3>7. Append(s, 2) = t
      <4>1. Len(t) = Len(s) + 1 /\ t[Len(s) + 1] = 2 /\ \A i \in 1 .. Len(s) : t[i] = s[i]
        BY <3>3, <3>4, <3>6
      <4> QED BY ONLY <2>1, <3>1, <3>2, <4>1
    <3>8. Append(t, 3) = u
      <4>1. Len(u) = Len(t) + 1 /\ u[Len(t) + 1] = 3 /\ \A i \in 1 .. Len(t) : u[i] = t[i]
        BY <3>3, <3>5, <3>6
      <4> QED BY ONLY <2>1, <3>1, <3>2, <4>1
    <3> QED BY <3>7, <3>8 DEF s, t, u
  <2>3. Append(<<1>>, 2) = <<1>> \o <<2>> /\ Append(<<1, 2>>, 3) = <<1, 2>> \o <<3>>
    BY ONLY <2>1, AppendIsConcat, Zenon
  <2> QED BY <2>2, <2>3, Zenon DEF Term, Vote, Entry
<1>5. Term[1] = 1 /\ Vote[1] = 2 BY DEF Term, Vote
<1>6. bytes = <<pending[1], pending[2], pending[3]>>
  <2>1. DOMAIN <<pending[1], pending[2], pending[3]>> = 1 .. 3 OBVIOUS
  <2>2. bytes = [i \in 1 .. 3 |-> pending[i]] BY <1>2
  <2> QED BY <2>2
<1> HIDE DEF bytes
<1>7. CASE program = "raft"
  <2>1. pending[1] = 1 /\ pending[2] = 2 /\ pending[3] = 3 BY <1>7 DEF Kept
  <2>2. bytes = Term \o Vote \o Entry BY <1>4, <1>6, <2>1
  <2> QED BY <1>7, <2>2 DEF Recovered, Diagnosis, Blame, Raft, bytes
<1>8. CASE program = "raft-no-term"
  <2>1. bytes[1] = 0 BY <1>3, <1>8 DEF Kept
  <2>2. bytes # <<1, 2, 3>> /\ bytes[1] # Term[1] BY <1>5, <2>1
  <2> QED BY <1>4, <1>8, <2>2 DEF Recovered, Diagnosis, Blame, Raft, bytes
<1>9. CASE program = "raft-no-vote"
  <2>1. bytes[1] = 1 /\ bytes[2] = 0 BY <1>3, <1>9 DEF Kept
  <2>2. bytes # <<1, 2, 3>> /\ bytes[1] = Term[1] /\ bytes[2] # Vote[1] BY <1>5, <2>1
  <2> QED BY <1>4, <1>9, <2>2 DEF Recovered, Diagnosis, Blame, Raft, bytes
<1> QED BY <1>7, <1>8, <1>9 DEF Raft

LEMMA ProbeStep ==
  ASSUME StoreType, StoreType', LogExplainsPending, program \in Raft, UNCHANGED program, ProbeState,
         [ProgramsNext]_allVars
  PROVE  ProbeState'
<1> SUFFICES ASSUME ~rotted' PROVE ProbeState' BY DEF ProbeState
<1>k. Kept' = Kept /\ Blame' = Blame BY DEF Kept, Blame
<1>d. program # "torn-write" /\ program # "free" BY DEF Raft
<1>1. ASSUME Start PROVE ProbeState'
  <2>1. ~started /\ started' /\ UNCHANGED <<pending, committed, log, rotted>>
    BY <1>1, StartKinds
  <2>2. todo = <<>> /\ log = <<>> /\ pending = committed /\ pending \in {<<>>, Kept}
    BY <2>1 DEF ProbeState, Probing, At, StoreType
  <2>3. CASE pending = <<>> /\ todo' = Script /\ records' = records
    <3>1. Script' = Script BY DEF Script
    <3>2. Probing' BY <2>1, <2>2, <2>3, <3>1 DEF Probing, At
    <3> QED BY <1>k, <2>1, <2>2, <2>3, <3>2 DEF ProbeState
  <2>4. CASE pending # <<>> /\ todo' = <<>> /\ records' = Append(records, Recovered)
    <3>1. Recovered = Blame BY <2>2, <2>4, KeptIsBlamed
    <3>2. \A k \in DOMAIN records : records[k] = Blame BY <2>1 DEF ProbeState
    <3>3. \A k \in DOMAIN records' : records'[k] = Blame
      BY <2>4, <3>1, <3>2, LabelType, RecordsGrow
    <3> QED BY <1>k, <2>1, <2>2, <2>4, <3>3 DEF ProbeState
  <2> QED BY <1>1, <1>d, <2>3, <2>4, StartKinds
<1>2. ASSUME Call PROVE ProbeState'
  <2>1. todo # <<>> /\ ~rotted BY <1>2 DEF Call
  <2>2. Probing /\ committed = <<>> /\ \A k \in DOMAIN records : records[k] = Blame
    BY <2>1 DEF ProbeState
  <2>3. started' BY <1>2, <2>1 DEF Call, ProbeState
  <2>4. CASE Head(todo) = F
    BY <1>2, <1>k, <2>2, <2>3, <2>4, ProbingEnds DEF ProbeState
  <2>5. CASE Head(todo) # F
    BY <1>2, <1>k, <2>2, <2>3, <2>5, ProbingGoesOn DEF ProbeState
  <2> QED BY <2>4, <2>5
<1>3. ASSUME Fault PROVE ProbeState'
  <2>0. todo = <<>> /\ UNCHANGED <<todo, records>> BY <1>3, FaultKinds
  <2>1. todo = <<>> /\ ~rotted /\ UNCHANGED <<todo, records>>
    <3>1. rotted' = rotted \/ rotted' = (rotted \/ committed # <<>>) BY <1>3, FaultKinds
    <3>2. ~rotted BY <3>1
    <3> QED BY <2>0, <3>2
  <2>2. log = <<>> /\ pending = committed /\ pending \in {<<>>, Kept}
    BY <2>1 DEF ProbeState, Probing, At
  <2>3. Rot(<<>>) = <<>> BY DEF Rot
  <2>4. log' = <<>> /\ pending' = committed' /\ pending' = pending
    BY <1>3, <2>1, <2>2, <2>3, FaultKinds
  <2> QED BY <1>k, <2>1, <2>2, <2>4 DEF ProbeState
<1>4. CASE FreeCall BY <1>4, <1>d DEF FreeCall
<1>5. ASSUME UNCHANGED allVars PROVE ProbeState'
  <2>1. UNCHANGED <<pending, committed, log, todo, started, records, rotted>>
    BY <1>5 DEF allVars, vars, device, progVars
  <2>2. Script' = Script BY DEF Script
  <2>3. Probing' <=> Probing BY <2>1, <2>2 DEF Probing, At
  <2> QED BY <1>k, <2>1, <2>3 DEF ProbeState
<1> QED BY <1>1, <1>2, <1>3, <1>4, <1>5 DEF ProgramsNext

-----------------------------------------------------------------------------
(* The theorems *)

LEMMA ProgramStateInit == ASSUME ProgramsInit PROVE ProgramState
<1> USE DEF ProgramsInit, Init
<1>1. records = <<>> /\ DOMAIN records = {} OBVIOUS
<1>2. Acks = 0
  <2>1. {k \in DOMAIN records : records[k] = "ack"} = {} BY <1>1
  <2> QED BY <2>1, FS_EmptySet DEF Acks
<1>3. UnflushedState BY <1>1, <1>2 DEF UnflushedState
<1>4. TornState
  <2>1. Len(pending) = 0 OBVIOUS
  <2> QED BY <1>1, <2>1 DEF TornState
<1>5. WalState BY <1>1 DEF WalState
<1>6. ProbeState BY <1>1 DEF ProbeState
<1> QED BY <1>3, <1>4, <1>5, <1>6 DEF ProgramState

LEMMA ProgramStateStep ==
  ASSUME StoreType, LogExplainsPending, ProgramState, [ProgramsNext]_allVars
  PROVE  ProgramState'
<1>1. StoreType' BY StoreTypeStep
<1>2. UNCHANGED program
  BY DEF ProgramsNext, Start, Call, Fault, FreeCall, progVars, allVars
<1>3. program = "wal" => WalState' BY <1>1, <1>2, WalStep DEF ProgramState
<1>4. program = "wal-unflushed" => UnflushedState' BY <1>1, <1>2, UnflushedStep DEF ProgramState
<1>5. program = "torn-write" => TornState' BY <1>1, <1>2, TornStep DEF ProgramState
<1>6. program \in Raft => ProbeState' BY <1>1, <1>2, ProbeStep DEF ProgramState
<1> QED BY <1>2, <1>3, <1>4, <1>5, <1>6 DEF ProgramState

\* Wherever a program is in its poll, the device holds what it has stored there.
THEOREM ProgramsKeepState == ProgramsSpec => [](StoreType /\ ProgramState)
<1>1. StoreType /\ LogExplainsPending /\ ProgramState /\ [ProgramsNext]_allVars => ProgramState'
  BY ProgramStateStep
<1>2. ProgramsInit => ProgramState BY ProgramStateInit
<1> QED BY <1>1, <1>2, LogExplains, PTL DEF ProgramsSpec

\* A log that is flushed before it is acknowledged is recovered as it was written,
\* whatever crashes and reorderings come between (wal_recovery_world).
THEOREM FlushedIsRecovered == ProgramsSpec => []AckedIsRecovered
<1>1. StoreType /\ ProgramState => AckedIsRecovered
  <2> SUFFICES ASSUME StoreType, ProgramState, program = "wal", ~rotted, ~tornWrite,
                      NEW k \in DOMAIN records, Acked(k)
               PROVE  records[k] = "intact"
    BY DEF AckedIsRecovered
  <2>1. k # 1
    <3>1. PICK j \in 1 .. k - 1 : records[j] = "ack" BY DEF Acked
    <3>2. records \in Seq(Labels) BY DEF StoreType
    <3>3. k \in Nat BY <3>2
    <3> QED BY <3>1, <3>3
  <2> QED BY <2>1 DEF ProgramState, WalState
<1> QED BY <1>1, ProgramsKeepState, PTL

\* The persistence probe blames what was not persisted and nothing else
\* (run_persistence_probe).
THEOREM ProbeBlames == ProgramsSpec => []ProbeIsRight
<1>1. ProgramState => ProbeIsRight
  <2> SUFFICES ASSUME ProgramState, ~rotted, NEW k \in DOMAIN records
               PROVE  CASE program = "raft" -> records[k] = "recovered"
                        [] program = "raft-no-term" -> records[k] = "term-not-persisted"
                        [] program = "raft-no-vote" -> records[k] = "vote-not-persisted"
                        [] OTHER -> TRUE
    BY DEF ProbeIsRight
  <2>1. program \in Raft => records[k] = Blame BY DEF ProgramState, ProbeState
  <2> QED BY <2>1 DEF Raft, Blame
<1> QED BY <1>1, ProgramsKeepState, PTL

\* The unflushed log acknowledges once more for every fault that took what it had
\* acknowledged, and for no other reason; the log that is flushed first loses nothing so and
\* acknowledges once (run_storage_ack_before_flush, wal_recovery_world).
THEOREM LossesAreCounted == ProgramsSpec => []LossesShow
<1>1. ProgramState => LossesShow
  <2> SUFFICES ASSUME ProgramState
               PROVE  /\ program = "wal-unflushed" =>
                           Acks = forgotten + IF pending = <<>> THEN 0 ELSE 1
                      /\ program = "wal" => forgotten = 0 /\ Acks <= 1
    BY DEF LossesShow
  <2>1. program = "wal-unflushed" => Acks = forgotten + IF pending = <<>> THEN 0 ELSE 1
    BY DEF ProgramState, UnflushedState
  <2>2. ASSUME program = "wal" PROVE forgotten = 0 /\ Acks <= 1
    <3> DEFINE A == {k \in DOMAIN records : records[k] = "ack"}
    <3>1. forgotten = 0 /\ A \subseteq {1} BY <2>2 DEF ProgramState, WalState
    <3>2. Acks = Cardinality(A) BY DEF Acks
    <3> HIDE DEF A
    <3>3. IsFiniteSet({1}) /\ Cardinality({1}) = 1 BY FS_Singleton
    <3>4. Cardinality(A) <= 1 BY <3>1, <3>3, FS_Subset
    <3> QED BY <3>1, <3>2, <3>4
  <2> QED BY <2>1, <2>2
<1> QED BY <1>1, ProgramsKeepState, PTL

\* The oracle of that experiment is silent only after a crash that spared the record;
\* that of the torn write tells, after any faults and restarts, whether a whole record
\* was ever stored (storage_ack_before_flush_signature, storage_torn_write_signature).
THEOREM OraclesTell == ProgramsSpec => []OraclesFire
<1>1. StoreType /\ ProgramState => OraclesFire
  <2> SUFFICES ASSUME StoreType, ProgramState, records # <<>>
               PROVE  /\ program = "wal-unflushed" /\ ~AckLost => spared
                      /\ program = "torn-write" => (TornRead <=> ~whole)
    BY DEF OraclesFire
  <2>1. 1 \in DOMAIN records BY DEF StoreType
  <2>2. ASSUME program = "wal-unflushed", ~spared PROVE AckLost
    <3>1. \A k \in DOMAIN records : records[k] = "ack"
      BY <2>2 DEF ProgramState, UnflushedState
    <3> QED BY <2>1, <3>1 DEF AckLost, Recorded
  <2>3. ASSUME program = "torn-write" PROVE TornRead <=> ~whole
    <3>1. \A k \in DOMAIN records : records[k] = IF whole THEN "intact" ELSE "damaged"
      BY <2>3 DEF ProgramState, TornState
    <3> QED BY <2>1, <3>1 DEF TornRead, Recorded
  <2> QED BY <2>2, <2>3
<1> QED BY <1>1, ProgramsKeepState, PTL
=============================================================================
