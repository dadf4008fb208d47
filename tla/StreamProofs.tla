---------------------------- MODULE StreamProofs ----------------------------
(***************************************************************************)
(* What holds of a deterministic stream for any number of frames: it is a  *)
(* channel, a finished one is complete, and its transcript accounts for    *)
(* every frame.                                                            *)
(***************************************************************************)
EXTENDS Stream, SequenceTheorems, WellFoundedInduction, TLAPS

-----------------------------------------------------------------------------
(* Draining *)

\* A set of numbers has a least one.
LEMMA Least ==
  ASSUME NEW T \in SUBSET Nat, T # {}
  PROVE  \E n \in T : \A m \in T : n <= m
<1> DEFINE order == OpToRel(<, Nat)
<1>1. IsWellFoundedOn(order, Nat) BY NatLessThanWellFounded
<1>2. \E n \in T : \A m \in T : ~(<<m, n>> \in order) BY <1>1, WFMin, Zenon
<1>3. PICK n \in T : \A m \in T : ~(<<m, n>> \in order) BY <1>2
<1>4. \A m, k \in Nat : m < k => <<m, k>> \in order BY Zenon DEF OpToRel
<1> HIDE DEF order
<1>5. ASSUME NEW m \in T PROVE n <= m
  <2>1. ~(m < n) BY <1>3, <1>4
  <2> QED BY <2>1
<1> QED BY <1>3, <1>5

\* The frames from the first one up to before the k-th, in order.
Run(first, k) == [i \in 1 .. k - first |-> first + i - 1]

LEMMA RunGrows ==
  ASSUME NEW first \in Nat, NEW k \in Nat, first < k
  PROVE  Run(first, k) = Append(Run(first, k - 1), k - 1)
<1> DEFINE s == Run(first, k - 1)
<1>1. s = [i \in 1 .. k - 1 - first |-> first + i - 1] BY DEF Run
<1>2. s \in Seq(Nat) /\ Len(s) = k - 1 - first
  <2>1. k - 1 - first \in Nat OBVIOUS
  <2>2. \A i \in 1 .. k - 1 - first : first + i - 1 \in Nat OBVIOUS
  <2> QED BY <1>1, <2>1, <2>2, IsASeq
<1> HIDE DEF s
<1>3. Append(s, k - 1) = [i \in 1 .. k - first |-> IF i <= k - 1 - first THEN s[i] ELSE k - 1]
  <2>1. Append(s, k - 1) \in Seq(Nat) /\ Len(Append(s, k - 1)) = k - first BY <1>2, AppendProperties
  <2>2. \A i \in 1 .. k - first : Append(s, k - 1)[i] = IF i <= k - 1 - first THEN s[i] ELSE k - 1
    BY <1>2, AppendProperties
  <2>3. DOMAIN Append(s, k - 1) = 1 .. k - first BY <2>1, LenProperties
  <2>4. Append(s, k - 1) = [i \in DOMAIN Append(s, k - 1) |-> Append(s, k - 1)[i]]
    BY <2>1
  <2> QED BY <2>2, <2>3, <2>4
<1>4. \A i \in 1 .. k - first : (IF i <= k - 1 - first THEN s[i] ELSE k - 1) = first + i - 1
  BY <1>1
<1> QED BY <1>3, <1>4 DEF Run, s

\* The function Fresh is computed with.
Takes(g, first, k) ==
  g = [n \in first .. k |->
         IF n = first THEN <<>>
         ELSE IF n - 1 \in delivered_once THEN g[n - 1] ELSE Append(g[n - 1], n - 1)]

\* When nothing from the first frame on was delivered, all of them are fresh.
LEMMA FreshIsRun ==
  ASSUME NEW first \in Nat, NEW k \in Nat, first <= k, delivered_once \intersect (first .. k) = {}
  PROVE  Fresh(first, k) = Run(first, k)
<1> DEFINE w == [n \in first .. k |-> Run(first, n)]
           g == CHOOSE h : Takes(h, first, k)
<1>1. Fresh(first, k) = g[k] BY Zenon DEF Fresh, Takes
<1>2. Run(first, first) = <<>> BY DEF Run
<1>3. ASSUME NEW n \in first .. k, n # first
      PROVE  /\ n - 1 \in first .. k /\ n - 1 \notin delivered_once
             /\ Run(first, n) = Append(Run(first, n - 1), n - 1)
  <2>1. n \in Nat /\ first < n /\ n - 1 \in first .. k BY <1>3
  <2>2. Run(first, n) = Append(Run(first, n - 1), n - 1) BY <2>1, RunGrows
  <2> QED BY <2>1, <2>2
<1>4. Takes(w, first, k)
  <2>1. \A n \in first .. k : w[n] = IF n = first THEN <<>>
          ELSE IF n - 1 \in delivered_once THEN w[n - 1] ELSE Append(w[n - 1], n - 1)
    BY <1>2, <1>3
  <2> QED BY <2>1 DEF Takes
<1>5. Takes(g, first, k) BY <1>4
<1> HIDE DEF g, w
<1>6. \A n \in first .. k : g[n] = IF n = first THEN <<>>
          ELSE IF n - 1 \in delivered_once THEN g[n - 1] ELSE Append(g[n - 1], n - 1)
  BY <1>5 DEF Takes
<1> DEFINE T == {n \in first .. k : g[n] # Run(first, n)}
<1>7. T = {}
  <2>1. SUFFICES ASSUME T # {} PROVE FALSE OBVIOUS
  <2>2. PICK n \in T : \A m \in T : n <= m
    <3>1. T \in SUBSET Nat OBVIOUS
    <3> HIDE DEF T
    <3> QED BY <2>1, <3>1, Least
  <2>3. n # first BY <1>2, <1>6
  <2>4. n - 1 \in first .. k /\ ~(n <= n - 1) BY <2>3
  <2>5. n - 1 \notin T BY <2>2, <2>4
  <2>6. g[n - 1] = Run(first, n - 1) BY <2>4, <2>5
  <2> QED BY <1>3, <1>6, <2>3, <2>6
<1> QED BY <1>1, <1>7

-----------------------------------------------------------------------------
(* The transcript *)

\* What a transcript tells of the frames, for a stream that has sent this many frames
\* and delivered the first of them.
Where(es, labels) == {i \in DOMAIN es : es[i].label \in labels}
Of(es, labels) == {es[i].seq : i \in Where(es, labels)}
Rising(es, labels) == \A i, j \in Where(es, labels) : i < j => es[i].seq < es[j].seq

Fates == {"drop", "blocked", "enqueue"}
Lost(es) == Of(es, {"drop", "blocked"})
Happening == [label : Fates \union {"disconnect", "reconnect", "duplicate", "delay", "deliver"},
              seq : Nat]

Tells(es, sent, done) ==
  /\ es \in Seq(Happening)
  /\ Of(es, Fates) = 0 .. sent - 1 /\ Rising(es, Fates)
  /\ Of(es, {"deliver"}) = 0 .. done - 1 /\ Rising(es, {"deliver"})
  /\ \A i \in Where(es, {"deliver"}), j \in Where(es, {"enqueue"}) : es[i].seq = es[j].seq => j < i

\* One more event at the end.
LEMMA OneMore ==
  ASSUME NEW es \in Seq(Happening), NEW e \in Happening, NEW labels
  PROVE  /\ Append(es, e) \in Seq(Happening) /\ DOMAIN es = 1 .. Len(es)
         /\ Append(es, e)[Len(es) + 1] = e /\ \A i \in 1 .. Len(es) : Append(es, e)[i] = es[i]
         /\ Where(Append(es, e), labels) =
              Where(es, labels) \union IF e.label \in labels THEN {Len(es) + 1} ELSE {}
         /\ Of(Append(es, e), labels) =
              Of(es, labels) \union IF e.label \in labels THEN {e.seq} ELSE {}
<1> DEFINE fs == Append(es, e)
<1>1. fs \in Seq(Happening) /\ Len(fs) = Len(es) + 1 /\ Len(es) \in Nat /\ DOMAIN es = 1 .. Len(es)
      /\ fs[Len(es) + 1] = e /\ \A i \in 1 .. Len(es) : fs[i] = es[i]
  BY AppendProperties, LenProperties
<1>2. DOMAIN fs = 1 .. Len(es) + 1 BY <1>1, LenProperties
<1> HIDE DEF fs
<1>3. DOMAIN fs = DOMAIN es \union {Len(es) + 1} BY <1>1, <1>2
<1>4. Where(fs, labels) = Where(es, labels) \union IF e.label \in labels THEN {Len(es) + 1} ELSE {}
  BY <1>1, <1>3 DEF Where
<1>5. Of(fs, labels) = Of(es, labels) \union IF e.label \in labels THEN {e.seq} ELSE {}
  <2>1. \A i \in Where(es, labels) : fs[i] = es[i] BY <1>1 DEF Where
  <2> QED BY <1>1, <1>4, <2>1 DEF Of
<1> QED BY <1>1, <1>4, <1>5 DEF fs

\* An event that is later than those it must not precede.
LEMMA RisesOn ==
  ASSUME NEW es \in Seq(Happening), NEW e \in Happening, NEW labels, Rising(es, labels),
         e.label \in labels => \A n \in Of(es, labels) : n < e.seq
  PROVE  Rising(Append(es, e), labels)
<1> DEFINE fs == Append(es, e)
<1>1. fs[Len(es) + 1] = e /\ (\A i \in 1 .. Len(es) : fs[i] = es[i])
      /\ Where(fs, labels) = Where(es, labels) \union IF e.label \in labels THEN {Len(es) + 1} ELSE {}
  BY OneMore
<1>2. Where(es, labels) \subseteq 1 .. Len(es) BY OneMore DEF Where
<1>3. Len(es) \in Nat BY LenProperties
<1> HIDE DEF fs
<1>4. SUFFICES ASSUME NEW i \in Where(fs, labels), NEW j \in Where(fs, labels), i < j
               PROVE  fs[i].seq < fs[j].seq
  BY DEF Rising, fs
<1>5. i \in Where(es, labels) BY <1>1, <1>2, <1>3, <1>4
<1>6. CASE j \in Where(es, labels) BY <1>1, <1>2, <1>4, <1>5, <1>6 DEF Rising
<1>7. CASE j \notin Where(es, labels)
  <2>1. j = Len(es) + 1 /\ e.label \in labels BY <1>1, <1>4, <1>7
  <2>2. es[i].seq \in Of(es, labels) BY <1>5 DEF Of
  <2> QED BY <1>1, <1>2, <1>5, <2>1, <2>2
<1> QED BY <1>6, <1>7

\* Events that decide nothing about a frame.
Remarks == {"disconnect", "reconnect", "duplicate", "delay"}

LEMMA Remark ==
  ASSUME NEW sent \in Nat, NEW done \in Nat, NEW es, Tells(es, sent, done),
         NEW label \in Remarks, NEW n \in Nat
  PROVE  /\ Tells(Append(es, Event(label, n)), sent, done)
         /\ Lost(Append(es, Event(label, n))) = Lost(es)
<1> DEFINE e == Event(label, n)
           fs == Append(es, e)
<1>1. es \in Seq(Happening) BY DEF Tells
<1>2. e \in Happening /\ e.label = label /\ label \notin Fates \union {"deliver"}
  BY DEF Event, Happening, Remarks, Fates
<1> HIDE DEF e
<1>3. fs \in Seq(Happening) /\ \A i \in 1 .. Len(es) : fs[i] = es[i] BY <1>1, <1>2, OneMore
<1>4. ASSUME NEW labels, label \notin labels
      PROVE  Where(fs, labels) = Where(es, labels) /\ Of(fs, labels) = Of(es, labels)
             /\ Where(es, labels) \subseteq 1 .. Len(es)
  <2>1. Where(es, labels) \subseteq 1 .. Len(es) BY <1>1, <1>2, OneMore DEF Where
  <2>2. e.label \notin labels BY <1>2, <1>4
  <2>3. Where(fs, labels) = Where(es, labels) \union IF e.label \in labels THEN {Len(es) + 1} ELSE {}
    BY <1>1, <1>2, OneMore
  <2>4. Of(fs, labels) = Of(es, labels) \union IF e.label \in labels THEN {e.seq} ELSE {}
    BY <1>1, <1>2, OneMore
  <2> HIDE DEF fs
  <2> QED BY <2>1, <2>2, <2>3, <2>4
<1>5. Rising(fs, Fates) /\ Rising(fs, {"deliver"}) BY <1>1, <1>2, RisesOn DEF Tells
<1> HIDE DEF fs
<1>6. "deliver" # label /\ "enqueue" # label /\ label \notin {"drop", "blocked"} BY <1>2 DEF Fates
<1>7. Of(fs, Fates) = Of(es, Fates) /\ Of(fs, {"deliver"}) = Of(es, {"deliver"})
      /\ Lost(fs) = Lost(es)
  BY <1>2, <1>4, <1>6 DEF Lost
<1>8. \A i \in Where(fs, {"deliver"}), j \in Where(fs, {"enqueue"}) : fs[i].seq = fs[j].seq => j < i
  <2>1. Where(fs, {"deliver"}) = Where(es, {"deliver"}) /\ Where(es, {"deliver"}) \subseteq 1 .. Len(es)
    BY <1>4, <1>6
  <2>2. Where(fs, {"enqueue"}) = Where(es, {"enqueue"}) /\ Where(es, {"enqueue"}) \subseteq 1 .. Len(es)
    BY <1>4, <1>6
  <2> QED BY <1>3, <2>1, <2>2 DEF Tells
<1>9. Tells(fs, sent, done) BY <1>3, <1>5, <1>7, <1>8 DEF Tells
<1> QED BY <1>7, <1>9 DEF fs, e

\* The optional events of the model.
LEMMA Remarked ==
  ASSUME NEW sent \in Nat, NEW done \in Nat, NEW es, Tells(es, sent, done),
         NEW given \in BOOLEAN, NEW label \in Remarks, NEW n \in Nat
  PROVE  /\ Tells(es \o Labels(given, label, n), sent, done)
         /\ Lost(es \o Labels(given, label, n)) = Lost(es)
<1>1. es \in Seq(Happening) BY DEF Tells
<1>2. Event(label, n) \in Happening BY DEF Event, Happening, Remarks, Fates
<1>3. CASE given
  <2>1. es \o Labels(given, label, n) = Append(es, Event(label, n))
    BY <1>1, <1>2, <1>3, AppendIsConcat DEF Labels
  <2> QED BY <2>1, Remark
<1>4. CASE ~given
  <2>1. es \o Labels(given, label, n) = es BY <1>1, <1>4, ConcatEmptySeq DEF Labels
  <2> QED BY <2>1
<1> QED BY <1>3, <1>4

\* What becomes of the next frame.
LEMMA Fate ==
  ASSUME NEW sent \in Nat, NEW done \in 0 .. sent, NEW es, Tells(es, sent, done),
         NEW label \in Fates
  PROVE  /\ Tells(Append(es, Event(label, sent)), sent + 1, done)
         /\ Lost(Append(es, Event(label, sent))) =
              Lost(es) \union IF label = "enqueue" THEN {} ELSE {sent}
<1> DEFINE e == Event(label, sent)
           fs == Append(es, e)
<1>1. es \in Seq(Happening) BY DEF Tells
<1>2. e \in Happening /\ e.label = label /\ e.seq = sent /\ label \notin {"deliver"}
  BY DEF Event, Happening, Fates
<1> HIDE DEF e
<1>3. /\ fs \in Seq(Happening) /\ \A i \in 1 .. Len(es) : fs[i] = es[i]
      /\ fs[Len(es) + 1] = e /\ Len(es) \in Nat
  BY <1>1, <1>2, OneMore, LenProperties
<1>4. /\ Of(fs, Fates) = Of(es, Fates) \union {sent} /\ Of(fs, {"deliver"}) = Of(es, {"deliver"})
      /\ Where(fs, {"deliver"}) = Where(es, {"deliver"})
      /\ Where(fs, {"enqueue"}) \subseteq Where(es, {"enqueue"}) \union {Len(es) + 1}
      /\ Lost(fs) = Lost(es) \union IF label = "enqueue" THEN {} ELSE {sent}
  <2>1. ASSUME NEW labels
        PROVE  /\ Where(fs, labels) = Where(es, labels) \union IF e.label \in labels THEN {Len(es) + 1} ELSE {}
               /\ Of(fs, labels) = Of(es, labels) \union IF e.label \in labels THEN {e.seq} ELSE {}
    BY <1>1, <1>2, OneMore
  <2> HIDE DEF fs
  <2>2. e.label \in Fates /\ (e.label = "enqueue" <=> e.label \notin {"drop", "blocked"}) BY <1>2 DEF Fates
  <2>3. /\ Where(fs, {"deliver"}) = Where(es, {"deliver"}) \union IF e.label \in {"deliver"} THEN {Len(es) + 1} ELSE {}
        /\ Where(fs, {"enqueue"}) = Where(es, {"enqueue"}) \union IF e.label \in {"enqueue"} THEN {Len(es) + 1} ELSE {}
    BY <2>1
  <2>4. /\ Of(fs, Fates) = Of(es, Fates) \union IF e.label \in Fates THEN {e.seq} ELSE {}
        /\ Of(fs, {"deliver"}) = Of(es, {"deliver"}) \union IF e.label \in {"deliver"} THEN {e.seq} ELSE {}
        /\ Of(fs, {"drop", "blocked"}) = Of(es, {"drop", "blocked"}) \union IF e.label \in {"drop", "blocked"} THEN {e.seq} ELSE {}
    BY <2>1
  <2> QED BY <1>2, <2>2, <2>3, <2>4 DEF Lost
<1>5. Where(es, {"deliver"}) \subseteq 1 .. Len(es) /\ Where(es, {"enqueue"}) \subseteq 1 .. Len(es)
  BY <1>1, <1>2, OneMore DEF Where
<1>6. Rising(fs, Fates) /\ Rising(fs, {"deliver"})
  <2>1. \A n \in Of(es, Fates) : n < sent BY DEF Tells
  <2> QED BY <1>1, <1>2, <2>1, RisesOn DEF Tells
<1> HIDE DEF fs
<1>7. ASSUME NEW i \in Where(fs, {"deliver"}), NEW j \in Where(fs, {"enqueue"}), fs[i].seq = fs[j].seq
      PROVE  j < i
  <2>1. CASE j \in Where(es, {"enqueue"}) BY <1>3, <1>4, <1>5, <1>7, <2>1 DEF Tells
  <2>2. CASE j = Len(es) + 1
    <3>1. fs[i] = es[i] /\ i \in Where(es, {"deliver"}) BY <1>3, <1>4, <1>5
    <3>2. es[i].seq \in 0 .. done - 1 BY <3>1 DEF Of, Tells
    <3> QED BY <1>2, <1>3, <1>7, <2>2, <3>1, <3>2
  <2> QED BY <1>4, <2>1, <2>2
<1>8. Tells(fs, sent + 1, done)
  <2>1. Of(fs, Fates) = 0 .. (sent + 1) - 1 BY <1>4 DEF Tells
  <2>2. Of(fs, {"deliver"}) = 0 .. done - 1 BY <1>4 DEF Tells
  <2> QED BY <1>3, <1>6, <1>7, <2>1, <2>2 DEF Tells
<1> QED BY <1>4, <1>8 DEF fs, e

\* The delivery of the next frame.
LEMMA Delivery ==
  ASSUME NEW sent \in Nat, NEW done \in Nat, NEW es, Tells(es, sent, done)
  PROVE  /\ Tells(Append(es, Event("deliver", done)), sent, done + 1)
         /\ Lost(Append(es, Event("deliver", done))) = Lost(es)
<1> DEFINE e == Event("deliver", done)
           fs == Append(es, e)
<1>1. es \in Seq(Happening) BY DEF Tells
<1>2. e \in Happening /\ e.label = "deliver" /\ e.seq = done
  BY DEF Event, Happening, Fates
<1> HIDE DEF e
<1>3. /\ fs \in Seq(Happening) /\ \A i \in 1 .. Len(es) : fs[i] = es[i]
      /\ fs[Len(es) + 1] = e /\ Len(es) \in Nat
  BY <1>1, <1>2, OneMore, LenProperties
<1>4. /\ Of(fs, Fates) = Of(es, Fates) /\ Of(fs, {"deliver"}) = Of(es, {"deliver"}) \union {done}
      /\ Where(fs, {"deliver"}) = Where(es, {"deliver"}) \union {Len(es) + 1}
      /\ Where(fs, {"enqueue"}) = Where(es, {"enqueue"})
      /\ Lost(fs) = Lost(es)
  <2>1. ASSUME NEW labels
        PROVE  /\ Where(fs, labels) = Where(es, labels) \union IF e.label \in labels THEN {Len(es) + 1} ELSE {}
               /\ Of(fs, labels) = Of(es, labels) \union IF e.label \in labels THEN {e.seq} ELSE {}
    BY <1>1, <1>2, OneMore
  <2> HIDE DEF fs
  <2>2. e.label \notin Fates /\ e.label # "enqueue" /\ e.label \notin {"drop", "blocked"} BY <1>2 DEF Fates
  <2>3. /\ Where(fs, {"deliver"}) = Where(es, {"deliver"}) \union IF e.label \in {"deliver"} THEN {Len(es) + 1} ELSE {}
        /\ Where(fs, {"enqueue"}) = Where(es, {"enqueue"}) \union IF e.label \in {"enqueue"} THEN {Len(es) + 1} ELSE {}
    BY <2>1
  <2>4. /\ Of(fs, Fates) = Of(es, Fates) \union IF e.label \in Fates THEN {e.seq} ELSE {}
        /\ Of(fs, {"deliver"}) = Of(es, {"deliver"}) \union IF e.label \in {"deliver"} THEN {e.seq} ELSE {}
        /\ Of(fs, {"drop", "blocked"}) = Of(es, {"drop", "blocked"}) \union IF e.label \in {"drop", "blocked"} THEN {e.seq} ELSE {}
    BY <2>1
  <2> QED BY <1>2, <2>2, <2>3, <2>4 DEF Lost
<1>5. Where(es, {"deliver"}) \subseteq 1 .. Len(es) /\ Where(es, {"enqueue"}) \subseteq 1 .. Len(es)
  BY <1>1, <1>2, OneMore DEF Where
<1>6. Rising(fs, Fates) /\ Rising(fs, {"deliver"})
  <2>1. \A n \in Of(es, {"deliver"}) : n < done BY DEF Tells
  <2>2. "deliver" \notin Fates BY DEF Fates
  <2> QED BY <1>1, <1>2, <2>1, <2>2, RisesOn DEF Tells
<1> HIDE DEF fs
<1>7. ASSUME NEW i \in Where(fs, {"deliver"}), NEW j \in Where(fs, {"enqueue"}), fs[i].seq = fs[j].seq
      PROVE  j < i
  <2>1. CASE i \in Where(es, {"deliver"}) BY <1>3, <1>4, <1>5, <1>7, <2>1 DEF Tells
  <2>2. CASE i = Len(es) + 1 BY <1>3, <1>4, <1>5, <2>2
  <2> QED BY <1>4, <2>1, <2>2
<1>8. Tells(fs, sent, done + 1)
  <2>1. Of(fs, {"deliver"}) = 0 .. (done + 1) - 1
    <3>1. 0 .. (done + 1) - 1 = (0 .. done - 1) \union {done} OBVIOUS
    <3> QED BY <1>4, <3>1 DEF Tells
  <2>2. Of(fs, Fates) = 0 .. sent - 1 BY <1>4 DEF Tells
  <2> QED BY <1>3, <1>6, <1>7, <2>1, <2>2 DEF Tells
<1> QED BY <1>4, <1>8 DEF fs, e

\* The events of some deliveries.
Announced(s) == [i \in DOMAIN s |-> Event("deliver", s[i])]

LEMMA AnnouncedGrows ==
  ASSUME NEW s \in Seq(Nat), NEW n \in Nat
  PROVE  /\ Announced(s) \in Seq(Happening)
         /\ Announced(Append(s, n)) = Append(Announced(s), Event("deliver", n))
<1> DEFINE t == Append(s, n)
           a == Announced(s)
           b == Announced(t)
           c == Append(a, Event("deliver", n))
<1>1. Len(s) \in Nat /\ DOMAIN s = 1 .. Len(s) /\ \A i \in 1 .. Len(s) : s[i] \in Nat
  BY LenProperties, ElementOfSeq
<1>2. \A m \in Nat : Event("deliver", m) \in Happening BY DEF Event, Happening, Fates
<1>3. t \in Seq(Nat) /\ DOMAIN t = 1 .. Len(s) + 1 /\ t[Len(s) + 1] = n
      /\ \A i \in 1 .. Len(s) : t[i] = s[i]
  BY <1>1, AppendProperties, LenProperties
<1>4. a = [i \in 1 .. Len(s) |-> Event("deliver", s[i])] BY <1>1 DEF Announced
<1>5. b = [i \in 1 .. Len(s) + 1 |-> Event("deliver", t[i])] BY <1>3 DEF Announced
<1> HIDE DEF a, b, t
<1>6. a \in Seq(Happening) /\ Len(a) = Len(s) BY <1>1, <1>2, <1>4, IsASeq
<1>7. DOMAIN c = 1 .. Len(s) + 1 /\ c[Len(s) + 1] = Event("deliver", n)
      /\ (\A i \in 1 .. Len(s) : c[i] = a[i]) /\ c = [i \in DOMAIN c |-> c[i]]
  <2>1. Event("deliver", n) \in Happening BY <1>2
  <2>2. c \in Seq(Happening) /\ Len(c) = Len(s) + 1 BY <1>6, <2>1, AppendProperties
  <2>3. DOMAIN c = 1 .. Len(s) + 1 BY <2>2, LenProperties
  <2>4. c[Len(s) + 1] = Event("deliver", n) /\ \A i \in 1 .. Len(s) : c[i] = a[i]
    BY <1>1, <1>6, <2>1, AppendProperties
  <2> HIDE DEF c
  <2>5. c = [i \in DOMAIN c |-> c[i]] BY <2>2
  <2> QED BY <2>3, <2>4, <2>5
<1> HIDE DEF c
<1>8. b = c
  <2>1. \A i \in 1 .. Len(s) + 1 : Event("deliver", t[i]) = c[i]
    <3> SUFFICES ASSUME NEW i \in 1 .. Len(s) + 1 PROVE Event("deliver", t[i]) = c[i] OBVIOUS
    <3>1. CASE i = Len(s) + 1 BY <1>3, <1>7, <3>1
    <3>2. CASE i # Len(s) + 1
      <4>1. i \in 1 .. Len(s) BY <1>1, <3>2
      <4> QED BY <1>3, <1>4, <1>7, <4>1
    <3> QED BY <3>1, <3>2
  <2> QED BY <1>5, <1>7, <2>1
<1> QED BY <1>6, <1>8 DEF a, b, c, t

\* All frames from the first to be delivered up to before the k-th.
LEMMA Deliveries ==
  ASSUME NEW sent \in Nat, NEW done \in Nat, NEW k \in Nat, done <= k,
         NEW es, Tells(es, sent, done)
  PROVE  /\ Tells(es \o Announced(Run(done, k)), sent, k)
         /\ Lost(es \o Announced(Run(done, k))) = Lost(es)
<1> DEFINE after(n) == es \o Announced(Run(done, n))
           Good(n) == Tells(after(n), sent, n) /\ Lost(after(n)) = Lost(es)
           T == {n \in done .. k : ~Good(n)}
<1>1. es \in Seq(Happening) BY DEF Tells
<1>2. Good(done)
  <2>1. Run(done, done) = <<>> BY DEF Run
  <2>2. Announced(<<>>) = <<>> BY DEF Announced
  <2>3. after(done) = es BY <1>1, <2>1, <2>2, ConcatEmptySeq
  <2> QED BY <2>3
<1>3. ASSUME NEW n \in done + 1 .. k, Good(n - 1) PROVE Good(n)
  <2>1. n \in Nat /\ done < n /\ n - 1 \in Nat BY <1>3
  <2>2. Run(done, n) = Append(Run(done, n - 1), n - 1) BY <2>1, RunGrows
  <2>3. Run(done, n - 1) \in Seq(Nat)
    <3>1. (n - 1) - done \in Nat BY <2>1
    <3>2. \A i \in 1 .. (n - 1) - done : done + i - 1 \in Nat OBVIOUS
    <3> QED BY <3>1, <3>2, IsASeq DEF Run
  <2>4. Announced(Run(done, n)) = Append(Announced(Run(done, n - 1)), Event("deliver", n - 1))
        /\ Announced(Run(done, n - 1)) \in Seq(Happening)
    BY <2>1, <2>2, <2>3, AnnouncedGrows
  <2>5. Event("deliver", n - 1) \in Happening BY <2>1 DEF Event, Happening, Fates
  <2>6. after(n) = Append(after(n - 1), Event("deliver", n - 1))
    BY <1>1, <2>4, <2>5
  <2> HIDE DEF after
  <2>7. Tells(after(n), sent, (n - 1) + 1) /\ Lost(after(n)) = Lost(after(n - 1))
    BY <1>3, <2>1, <2>6, Delivery
  <2>8. (n - 1) + 1 = n BY <2>1
  <2> QED BY <1>3, <2>7, <2>8
<1> HIDE DEF Good
<1>4. T = {}
  <2>1. SUFFICES ASSUME T # {} PROVE FALSE OBVIOUS
  <2>2. PICK n \in T : \A m \in T : n <= m
    <3>1. T \in SUBSET Nat OBVIOUS
    <3> HIDE DEF T
    <3> QED BY <2>1, <3>1, Least
  <2>3. n # done BY <1>2
  <2>4. n \in done + 1 .. k /\ n - 1 \in done .. k /\ ~(n <= n - 1) BY <2>3
  <2>5. n - 1 \notin T BY <2>2, <2>4
  <2> QED BY <1>3, <2>4, <2>5
<1>5. Good(k) BY <1>4
<1> QED BY <1>5 DEF Good

\* The last frame on its way is a delayed one.
Waits(es) == \E i \in Where(es, {"delay"}) : \A j \in Where(es, {"enqueue", "delay"}) : j <= i

LEMMA WaitsOn ==
  ASSUME NEW es \in Seq(Happening), NEW e \in Happening,
         e.label = "delay" \/ (Waits(es) /\ e.label \notin {"enqueue", "delay"})
  PROVE  Waits(Append(es, e))
<1> DEFINE fs == Append(es, e)
<1>1. /\ Where(fs, {"delay"}) =
           Where(es, {"delay"}) \union IF e.label \in {"delay"} THEN {Len(es) + 1} ELSE {}
      /\ Where(fs, {"enqueue", "delay"}) =
           Where(es, {"enqueue", "delay"})
             \union IF e.label \in {"enqueue", "delay"} THEN {Len(es) + 1} ELSE {}
      /\ Where(es, {"enqueue", "delay"}) \subseteq 1 .. Len(es)
  BY OneMore DEF Where
<1>2. Len(es) \in Nat BY LenProperties
<1> HIDE DEF fs
<1>3. CASE e.label = "delay"
  <2>1. Len(es) + 1 \in Where(fs, {"delay"}) BY <1>1, <1>3
  <2>2. \A j \in Where(fs, {"enqueue", "delay"}) : j <= Len(es) + 1 BY <1>1, <1>2
  <2>3. Waits(fs) BY <2>1, <2>2 DEF Waits
  <2> QED BY <2>3 DEF fs
<1>4. CASE Waits(es) /\ e.label \notin {"enqueue", "delay"}
  <2>1. Where(fs, {"delay"}) = Where(es, {"delay"})
        /\ Where(fs, {"enqueue", "delay"}) = Where(es, {"enqueue", "delay"})
    BY <1>1, <1>4
  <2>2. Waits(fs) BY <1>4, <2>1 DEF Waits
  <2> QED BY <2>2 DEF fs
<1> QED BY <1>3, <1>4

-----------------------------------------------------------------------------
(* The invariant *)

\* What is delivered is the frames before the first that is missing from the buffer,
\* and the buffer has every later frame that was not lost.
StreamOK ==
  /\ next_send \in Nat /\ next_deliver \in 0 .. next_send
  /\ connected \in BOOLEAN /\ finished \in BOOLEAN
  /\ delivered_once = 0 .. next_deliver - 1
  /\ delivered = Run(0, next_deliver)
  /\ Tells(events, next_send, next_deliver)
  /\ Lost(events) \subseteq next_deliver .. next_send - 1
  /\ buffered = (next_deliver .. next_send - 1) \ Lost(events)
  /\ finished => next_deliver \notin buffered
  /\ next_deliver \in buffered => Waits(events)

\* The part that concerns a buffer and a transcript to which calls still add.
Between(buffer, es, sent) ==
  /\ sent \in Nat /\ next_deliver \in 0 .. sent
  /\ Tells(es, sent, next_deliver)
  /\ Lost(es) \subseteq next_deliver .. sent - 1
  /\ buffer = (next_deliver .. sent - 1) \ Lost(es)

\* Two runs of frames make one.
LEMMA RunsMeet ==
  ASSUME NEW m \in Nat, NEW k \in Nat, m <= k
  PROVE  Run(0, m) \o Run(m, k) = Run(0, k)
<1> DEFINE a == Run(0, m)
           b == Run(m, k)
           c == a \o b
<1>1. a = [i \in 1 .. m |-> i - 1]
  <2>1. m - 0 = m /\ \A i \in 1 .. m : 0 + i - 1 = i - 1 OBVIOUS
  <2> QED BY <2>1 DEF Run
<1>2. b = [i \in 1 .. k - m |-> m + i - 1] BY DEF Run
<1>3. Run(0, k) = [i \in 1 .. k |-> i - 1]
  <2>1. k - 0 = k /\ \A i \in 1 .. k : 0 + i - 1 = i - 1 OBVIOUS
  <2> QED BY <2>1 DEF Run
<1> HIDE DEF a, b
<1>4. a \in Seq(Nat) /\ Len(a) = m
  <2>1. \A i \in 1 .. m : i - 1 \in Nat OBVIOUS
  <2> QED BY <1>1, <2>1, IsASeq
<1>5. b \in Seq(Nat) /\ Len(b) = k - m
  <2>1. k - m \in Nat /\ \A i \in 1 .. k - m : m + i - 1 \in Nat OBVIOUS
  <2> QED BY <1>2, <2>1, IsASeq
<1>6. DOMAIN c = 1 .. k /\ c = [i \in DOMAIN c |-> c[i]]
  <2>1. c \in Seq(Nat) /\ Len(c) = k BY <1>4, <1>5, ConcatProperties
  <2> QED BY <2>1, LenProperties
<1>7. \A i \in 1 .. k : c[i] = IF i <= m THEN a[i] ELSE b[i - m] BY <1>4, <1>5, ConcatProperties
<1> HIDE DEF c
<1>8. ASSUME NEW i \in 1 .. k PROVE c[i] = i - 1
  <2>1. CASE i <= m BY <1>1, <1>7, <2>1
  <2>2. CASE ~(i <= m)
    <3>1. i - m \in 1 .. k - m BY <2>2
    <3>2. m + (i - m) - 1 = i - 1 OBVIOUS
    <3> QED BY <1>2, <1>7, <2>2, <3>1, <3>2
  <2> QED BY <2>1, <2>2
<1>9. c = Run(0, k) BY <1>3, <1>6, <1>8
<1> QED BY <1>9 DEF a, b, c

\* drain_ordered leaves nothing that could be delivered.
LEMMA Drained ==
  ASSUME StreamOK, NEW buffer, NEW es, Between(buffer, es, next_send'), Drain(buffer, es),
         next_send <= next_send', connected' \in BOOLEAN, finished' \in BOOLEAN
  PROVE  /\ StreamOK' /\ Lost(events)' = Lost(es)
         /\ next_deliver <= next_deliver'
<1> DEFINE sent == next_send'
<1>1. PICK k \in next_deliver .. sent :
        /\ DrainsTo(buffer, k)
        /\ next_deliver' = k
        /\ buffered' = buffer \ (next_deliver .. k - 1)
        /\ delivered_once' = delivered_once \union ToSet(Fresh(next_deliver, k))
        /\ delivered' = delivered \o Fresh(next_deliver, k)
        /\ events' = es \o [i \in DOMAIN Fresh(next_deliver, k) |->
                              Event("deliver", Fresh(next_deliver, k)[i])]
  BY DEF Drain
<1>2. next_deliver \in Nat /\ sent \in Nat /\ k \in Nat /\ next_deliver <= k /\ k <= sent
  BY <1>1 DEF Between
<1>3. Fresh(next_deliver, k) = Run(next_deliver, k)
  <2>1. delivered_once \intersect (next_deliver .. k) = {} BY <1>2 DEF StreamOK
  <2> QED BY <1>2, <2>1, FreshIsRun
<1>4. delivered_once' = 0 .. k - 1
  <2> DEFINE s == Run(next_deliver, k)
  <2>1. s = [i \in 1 .. k - next_deliver |-> next_deliver + i - 1] BY DEF Run
  <2> HIDE DEF s
  <2>2. ToSet(s) = next_deliver .. k - 1
    <3>1. DOMAIN s = 1 .. k - next_deliver BY <2>1
    <3>2. ASSUME NEW n \in next_deliver .. k - 1 PROVE \E i \in DOMAIN s : s[i] = n
      <4>1. n - next_deliver + 1 \in 1 .. k - next_deliver BY <1>2
      <4>2. next_deliver + (n - next_deliver + 1) - 1 = n BY <1>2
      <4> QED BY <2>1, <3>1, <4>1, <4>2
    <3>3. ASSUME NEW i \in DOMAIN s PROVE s[i] \in next_deliver .. k - 1
      <4>1. i \in 1 .. k - next_deliver BY <3>1
      <4>2. next_deliver + i - 1 \in next_deliver .. k - 1 BY <1>2, <4>1
      <4> QED BY <2>1, <4>1, <4>2
    <3>4. ToSet(s) = {s[i] : i \in DOMAIN s} BY DEF ToSet
    <3> QED BY <3>2, <3>3, <3>4
  <2>3. delivered_once' = (0 .. next_deliver - 1) \union (next_deliver .. k - 1)
    BY <1>1, <1>3, <2>2 DEF StreamOK, s
  <2> QED BY <1>2, <2>3
<1>5. delivered' = Run(0, k) BY <1>1, <1>2, <1>3, RunsMeet DEF StreamOK
<1>6. Tells(events', sent, k) /\ Lost(events') = Lost(es)
  <2>1. events' = es \o Announced(Run(next_deliver, k)) BY <1>1, <1>3 DEF Announced
  <2>2. Tells(es, sent, next_deliver) BY DEF Between
  <2> QED BY <1>2, <2>1, <2>2, Deliveries
<1>7. k \notin buffered' /\ Lost(es) \subseteq k .. sent - 1
      /\ buffered' = (k .. sent - 1) \ Lost(es)
  <2>1. k \notin buffer /\ next_deliver .. k - 1 \subseteq buffer BY <1>1 DEF DrainsTo
  <2>2. buffer = (next_deliver .. sent - 1) \ Lost(es) /\ Lost(es) \subseteq next_deliver .. sent - 1
    BY DEF Between
  <2>3. Lost(es) \subseteq k .. sent - 1
    <3>1. ASSUME NEW n \in Lost(es) PROVE n \in k .. sent - 1
      <4>1. n \in next_deliver .. sent - 1 /\ n \notin buffer BY <2>2
      <4>2. n \notin next_deliver .. k - 1 BY <2>1, <4>1
      <4> HIDE DEF sent
      <4>3. n \in Nat /\ next_deliver <= n /\ n <= sent - 1 BY <1>2, <4>1
      <4>4. ~(n <= k - 1) BY <1>2, <4>2, <4>3
      <4> QED BY <1>2, <4>3, <4>4
    <3> QED BY <3>1
  <2>4. buffered' = buffer \ (next_deliver .. k - 1) BY <1>1
  <2>5. (next_deliver .. sent - 1) \ (next_deliver .. k - 1) = k .. sent - 1 BY <1>2
  <2> HIDE DEF sent
  <2>6. buffered' = (k .. sent - 1) \ Lost(es) BY <2>2, <2>4, <2>5
  <2> QED BY <2>1, <2>3, <2>4, <2>6
<1>8. next_deliver' = k BY <1>1
<1>9. k \in 0 .. sent BY <1>2
<1>10. StreamOK'
  BY <1>2, <1>4, <1>5, <1>6, <1>7, <1>8, <1>9 DEF StreamOK
<1>11. Lost(events)' = Lost(es) BY <1>6 DEF Lost, Of, Where
<1> QED BY <1>2, <1>8, <1>10, <1>11

\* What a frame on its way adds to the transcript.
LEMMA OnItsWay ==
  ASSUME NEW sent \in Nat, NEW done \in 0 .. sent, NEW es, Tells(es, sent, done), NEW faults \in Faults
  PROVE  /\ Tells(es \o Enqueued(faults, sent), sent + 1, done)
         /\ Lost(es \o Enqueued(faults, sent)) = Lost(es)
         /\ faults.delay # <<>> => Waits(es \o Enqueued(faults, sent))
<1> DEFINE e == Event("enqueue", sent)
           d1 == Labels(faults.duplicate, "duplicate", sent)
           d2 == Labels(faults.delay # <<>>, "delay", sent)
           es1 == Append(es, e)
           es2 == es1 \o d1
           es3 == es2 \o d2
<1>1. es \in Seq(Happening) /\ e \in Happening /\ Event("duplicate", sent) \in Happening
      /\ Event("delay", sent) \in Happening
  BY DEF Tells, Event, Happening, Fates
<1>2. d1 \in Seq(Happening) /\ d2 \in Seq(Happening)
  <2>1. <<Event("duplicate", sent)>> \in Seq(Happening) /\ <<Event("delay", sent)>> \in Seq(Happening)
        /\ <<>> \in Seq(Happening)
    BY <1>1
  <2> QED BY <2>1 DEF Labels
<1>3. es \o Enqueued(faults, sent) = es3
  <2>0. e \in Happening BY <1>1
  <2> HIDE DEF e, d1, d2
  <2>1. <<e>> \in Seq(Happening) BY <2>0
  <2>2. es \o <<e>> = es1 BY <1>1, <2>0, AppendIsConcat
  <2>3. (<<e>> \o d1) \in Seq(Happening) BY <1>2, <2>1, ConcatProperties
  <2>4. es \o ((<<e>> \o d1) \o d2) = (es \o (<<e>> \o d1)) \o d2
    <3>1. PICK x : x = <<e>> \o d1 OBVIOUS
    <3>2. es \in Seq(Happening) /\ x \in Seq(Happening) /\ d2 \in Seq(Happening) BY <1>1, <1>2, <2>3, <3>1
    <3>3. (es \o x) \o d2 = es \o (x \o d2) BY <3>2, ConcatAssociative
    <3> QED BY <3>1, <3>3
  <2>5. es \o (<<e>> \o d1) = (es \o <<e>>) \o d1
    <3>1. PICK x : x = <<e>> OBVIOUS
    <3>2. es \in Seq(Happening) /\ x \in Seq(Happening) /\ d1 \in Seq(Happening) BY <1>1, <1>2, <2>1, <3>1
    <3>3. (es \o x) \o d1 = es \o (x \o d1) BY <3>2, ConcatAssociative
    <3> QED BY <3>1, <3>3
  <2>6. Enqueued(faults, sent) = (<<e>> \o d1) \o d2 BY DEF Enqueued, e, d1, d2
  <2> QED BY <2>2, <2>4, <2>5, <2>6
<1> HIDE DEF es1, es2, es3
<1>4. Tells(es1, sent + 1, done) /\ Lost(es1) = Lost(es)
  <2>1. "enqueue" \in Fates BY DEF Fates
  <2>2. Tells(Append(es, Event("enqueue", sent)), sent + 1, done)
        /\ Lost(Append(es, Event("enqueue", sent))) =
             Lost(es) \union IF "enqueue" = "enqueue" THEN {} ELSE {sent}
    BY <2>1, Fate, Zenon
  <2>3. es1 = Append(es, Event("enqueue", sent)) BY DEF es1
  <2> QED BY <2>2, <2>3
<1>5. sent + 1 \in Nat /\ done \in Nat OBVIOUS
<1>6. "duplicate" \in Remarks /\ "delay" \in Remarks BY DEF Remarks
<1>7. faults.duplicate \in BOOLEAN /\ (faults.delay # <<>>) \in BOOLEAN BY DEF Faults
<1>8. Tells(es2, sent + 1, done) /\ Lost(es2) = Lost(es)
  BY <1>4, <1>5, <1>6, <1>7, Remarked DEF es2
<1>9. Tells(es3, sent + 1, done) /\ Lost(es3) = Lost(es)
  <2> DEFINE late == faults.delay # <<>>
  <2>1. late \in BOOLEAN /\ d2 = Labels(late, "delay", sent) OBVIOUS
  <2> HIDE DEF late, d2
  <2>2. es3 = es2 \o Labels(late, "delay", sent) BY <2>1 DEF es3
  <2> QED BY <1>5, <1>6, <1>8, <2>1, <2>2, Remarked
<1>10. ASSUME faults.delay # <<>> PROVE Waits(es3)
  <2>1. es2 \in Seq(Happening) BY <1>8 DEF Tells
  <2>2. es3 = Append(es2, Event("delay", sent))
    BY <1>1, <1>10, <2>1, AppendIsConcat DEF es3, Labels
  <2>3. Event("delay", sent).label = "delay" BY DEF Event
  <2> QED BY <1>1, <2>1, <2>2, <2>3, WaitsOn
<1> QED BY <1>3, <1>9, <1>10

\* The link events that come before the fate of a frame.
LEMMA LinksFirst ==
  ASSUME StreamOK, NEW faults \in Faults, NEW es,
         es = (events \o Labels(faults.disconnect, "disconnect", next_send))
                      \o Labels(faults.reconnect, "reconnect", next_send)
  PROVE  /\ Tells(es, next_send, next_deliver) /\ Lost(es) = Lost(events)
         /\ Waits(events) => Waits(es)
<1> DEFINE es1 == events \o Labels(faults.disconnect, "disconnect", next_send)
           d == Event("disconnect", next_send)
           r == Event("reconnect", next_send)
<1>1. next_send \in Nat /\ next_deliver \in Nat /\ Tells(events, next_send, next_deliver) BY DEF StreamOK
<1>2. faults.disconnect \in BOOLEAN /\ faults.reconnect \in BOOLEAN BY DEF Faults
<1>3. "disconnect" \in Remarks /\ "reconnect" \in Remarks BY DEF Remarks
<1>4. Tells(es1, next_send, next_deliver) /\ Lost(es1) = Lost(events)
  BY <1>1, <1>2, <1>3, Remarked
<1>5. es = es1 \o Labels(faults.reconnect, "reconnect", next_send) OBVIOUS
<1> HIDE DEF es1
<1>6. Tells(es, next_send, next_deliver) /\ Lost(es) = Lost(es1)
  BY <1>1, <1>2, <1>3, <1>4, <1>5, Remarked
<1>7. d \in Happening /\ r \in Happening /\ d.label = "disconnect" /\ r.label = "reconnect"
  BY <1>1 DEF Event, Happening, Fates
<1>8. events \in Seq(Happening) /\ es1 \in Seq(Happening) BY <1>1, <1>4 DEF Tells
<1> HIDE DEF d, r
<1>9. ASSUME Waits(events) PROVE Waits(es1)
  <2>1. CASE faults.disconnect
    <3>1. es1 = Append(events, d) BY <1>7, <1>8, <2>1, AppendIsConcat DEF es1, Labels, d
    <3> QED BY <1>7, <1>8, <1>9, <3>1, WaitsOn
  <2>2. CASE ~faults.disconnect
    <3>1. es1 = events BY <1>8, <2>2, ConcatEmptySeq DEF es1, Labels
    <3> QED BY <1>9, <3>1
  <2> QED BY <2>1, <2>2
<1>10. ASSUME Waits(es1) PROVE Waits(es)
  <2>1. CASE faults.reconnect
    <3>1. es = Append(es1, r) BY <1>5, <1>7, <1>8, <2>1, AppendIsConcat DEF Labels, r
    <3> QED BY <1>7, <1>8, <1>10, <3>1, WaitsOn
  <2>2. CASE ~faults.reconnect
    <3>1. es = es1 BY <1>5, <1>8, <2>2, ConcatEmptySeq DEF Labels
    <3> QED BY <1>10, <3>1
  <2> QED BY <2>1, <2>2
<1> QED BY <1>4, <1>6, <1>9, <1>10

\* What a step does to the channel: it may send a frame, which may be lost, and it
\* may deliver some that were not.
Passes ==
  /\ \/ next_send' = next_send + 1 /\ Lost(events)' \in {Lost(events), Lost(events) \union {next_send}}
     \/ next_send' = next_send /\ Lost(events)' = Lost(events)
  /\ next_deliver <= next_deliver'

LEMMA SendStep ==
  ASSUME StreamOK, NEW faults \in Faults, Send(faults)
  PROVE  StreamOK' /\ Passes
<1> DEFINE links == (events \o Labels(faults.disconnect, "disconnect", next_send))
                            \o Labels(faults.reconnect, "reconnect", next_send)
           full == links \o Enqueued(faults, next_send)
<1>1. /\ next_send \in Nat /\ next_deliver \in 0 .. next_send /\ next_send' = next_send + 1
      /\ connected' \in BOOLEAN /\ finished' = finished /\ finished = FALSE
  <2>1. ConnectedUnder(faults) \in BOOLEAN BY DEF ConnectedUnder, Faults, StreamOK
  <2> QED BY <2>1 DEF Send, StreamOK
<1>2. /\ Tells(links, next_send, next_deliver) /\ Lost(links) = Lost(events)
      /\ Waits(events) => Waits(links)
  BY LinksFirst
<1>3. /\ Tells(full, next_send + 1, next_deliver) /\ Lost(full) = Lost(events)
      /\ faults.delay # <<>> => Waits(full)
  BY <1>1, <1>2, OnItsWay
<1> HIDE DEF full
<1>4. Lost(events) \subseteq next_deliver .. next_send - 1
      /\ buffered = (next_deliver .. next_send - 1) \ Lost(events)
  BY DEF StreamOK
<1>5. next_send \notin Lost(events) /\ Lost(events) \subseteq next_deliver .. (next_send + 1) - 1
  BY <1>1, <1>4
<1>6. (next_deliver .. (next_send + 1) - 1) = (next_deliver .. next_send - 1) \union {next_send}
  BY <1>1
<1>7. CASE NotOnItsWay(faults)
  <2> DEFINE label == IF connected' THEN "drop" ELSE "blocked"
             e == Event(label, next_send)
  <2>1. /\ events' = Append(links, e)
        /\ UNCHANGED <<next_deliver, buffered, delivered_once, delivered>>
    BY <1>7 DEF Send
  <2>2. label \in Fates /\ label # "enqueue" BY DEF Fates
  <2>3. e \in Happening /\ e.label \notin {"enqueue", "delay"} BY <1>1 DEF Event, Happening, Fates
  <2> HIDE DEF label
  <2>4. Tells(events', next_send + 1, next_deliver) /\ Lost(events') = Lost(events) \union {next_send}
    BY <1>1, <1>2, <2>1, <2>2, Fate
  <2>5. links \in Seq(Happening) BY <1>2 DEF Tells
  <2> HIDE DEF e, links
  <2>6. Waits(events) => Waits(events') BY <1>2, <2>1, <2>3, <2>5, WaitsOn
  <2>7. buffered' = (next_deliver .. (next_send + 1) - 1) \ Lost(events')
        /\ Lost(events') \subseteq next_deliver .. (next_send + 1) - 1
    BY <1>1, <1>4, <1>5, <1>6, <2>1, <2>4
  <2>8. next_deliver' \in 0 .. next_send' /\ next_send' \in Nat BY <1>1, <2>1
  <2>9. next_deliver' \in buffered' => Waits(events') BY <2>1, <2>6 DEF StreamOK
  <2>10. StreamOK' BY <1>1, <2>1, <2>4, <2>7, <2>8, <2>9 DEF StreamOK
  <2>11. Lost(events)' = Lost(events) \union {next_send} BY <2>4 DEF Lost, Of, Where
  <2> QED BY <1>1, <2>1, <2>10, <2>11 DEF Passes
<1>8. buffered \union {next_send} = (next_deliver .. (next_send + 1) - 1) \ Lost(events)
  BY <1>4, <1>5, <1>6
<1>9. CASE ~NotOnItsWay(faults) /\ Delays(faults)
  <2>1. /\ buffered' = buffered \union {next_send} /\ events' = full
        /\ UNCHANGED <<next_deliver, delivered_once, delivered>>
    BY <1>9 DEF Send, full
  <2>2. faults.delay # <<>> BY <1>9 DEF Delays
  <2>3. next_deliver' \in 0 .. next_send' /\ next_send' \in Nat BY <1>1, <2>1
  <2>4. StreamOK' BY <1>1, <1>3, <1>5, <1>8, <2>1, <2>2, <2>3 DEF StreamOK
  <2>5. Lost(events)' = Lost(events) BY <1>3, <2>1 DEF Lost, Of, Where
  <2> QED BY <1>1, <2>1, <2>4, <2>5 DEF Passes
<1>10. CASE ~NotOnItsWay(faults) /\ ~Delays(faults)
  <2>1. Drain(buffered \union {next_send}, full) BY <1>10 DEF Send, full
  <2>2. Between(buffered \union {next_send}, full, next_send')
    <3>1. next_deliver \in 0 .. next_send + 1 /\ next_send + 1 \in Nat BY <1>1
    <3> QED BY <1>1, <1>3, <1>5, <1>8, <3>1 DEF Between
  <2>3. next_send <= next_send' BY <1>1
  <2>4. StreamOK' /\ Lost(events)' = Lost(full) /\ next_deliver <= next_deliver'
    <3>1. finished' \in BOOLEAN /\ connected' \in BOOLEAN BY <1>1, Zenon
    <3> QED BY <2>1, <2>2, <2>3, <3>1, Drained
  <2> QED BY <1>1, <1>3, <2>4 DEF Passes
<1> QED BY <1>7, <1>9, <1>10

LEMMA StreamStep ==
  ASSUME StreamOK, [Next]_vars
  PROVE  StreamOK' /\ Passes
<1>1. ASSUME NEW faults \in Faults, Send(faults) PROVE StreamOK' /\ Passes BY <1>1, SendStep
<1>2. CASE Flush \/ IntoTranscript
  <2>1. Drain(buffered, events) /\ next_send' = next_send /\ connected' = connected /\ finished' \in BOOLEAN
    BY <1>2 DEF Flush, IntoTranscript, FinalFlush, StreamOK
  <2>2. Between(buffered, events, next_send') BY <2>1 DEF Between, StreamOK
  <2>3. next_send <= next_send' /\ connected' \in BOOLEAN BY <2>1 DEF StreamOK
  <2>4. StreamOK' /\ Lost(events)' = Lost(events) /\ next_deliver <= next_deliver'
    BY <2>1, <2>2, <2>3, Drained
  <2> QED BY <2>1, <2>4 DEF Passes
<1>3. CASE UNCHANGED vars
  <2>1. StreamOK' BY <1>3 DEF vars, StreamOK
  <2>2. Passes BY <1>3 DEF vars, StreamOK, Passes, Lost, Of, Where
  <2> QED BY <2>1, <2>2
<1> QED BY <1>1, <1>2, <1>3 DEF Next

LEMMA StreamInit == Init => StreamOK
<1> SUFFICES ASSUME Init PROVE StreamOK OBVIOUS
<1>1. <<>> \in Seq(Happening) /\ \A labels : Where(<<>>, labels) = {} BY DEF Where
<1>2. \A labels : Of(<<>>, labels) = {} /\ Rising(<<>>, labels) BY <1>1 DEF Of, Rising
<1>3. 0 .. 0 - 1 = {} OBVIOUS
<1>4. Tells(<<>>, 0, 0) BY <1>1, <1>2, <1>3 DEF Tells
<1>5. Run(0, 0) = <<>> BY DEF Run
<1>6. Lost(<<>>) = {} BY <1>2 DEF Lost
<1>7. next_send = 0 /\ next_deliver = 0 /\ buffered = {} /\ delivered_once = {}
      /\ delivered = <<>> /\ events = <<>> /\ connected = TRUE /\ finished = FALSE
  BY DEF Init
<1>8. 0 \in 0 .. 0 OBVIOUS
<1> QED BY <1>3, <1>4, <1>5, <1>6, <1>7, <1>8 DEF StreamOK

\* A stream never loses track: what it delivered is a prefix of what was sent, and the
\* buffer has all that is still to come.
THEOREM StreamKeepsTrack == Spec => []StreamOK
BY StreamInit, StreamStep, PTL DEF Spec

-----------------------------------------------------------------------------
(* What follows *)

LEMMA MissingIsLost == Missing = Lost(events)
BY DEF Missing, About, At, Lost, Of, Where

\* DeterministicStream is a channel: everything in order, once, up to the first frame
\* that was dropped or blocked.
THEOREM StreamIsChannel == Spec => ImplementsChannel
<1>1. Init => Fifo!Init
  <2> SUFFICES ASSUME Init PROVE Fifo!Init OBVIOUS
  <2>1. Missing = {} BY DEF Init, Missing, About, At
  <2> QED BY <2>1 DEF Init, Fifo!Init
<1>2. StreamOK /\ StreamOK' /\ Passes => Fifo!Next
  <2> SUFFICES ASSUME StreamOK, StreamOK', Passes PROVE Fifo!Next OBVIOUS
  <2>1. Missing = Lost(events) /\ Missing' = Lost(events)'
    BY DEF Missing, About, At, Lost, Of, Where
  <2>2. Fifo!Put \/ (next_send' = next_send /\ Missing' = Missing) BY <2>1 DEF Passes, Fifo!Put
  <2> DEFINE n == next_deliver'
  <2>3. n \in next_deliver .. next_send' /\ n \in Nat BY DEF Passes, StreamOK
  <2>4. Len(delivered) = next_deliver
    <3>1. next_deliver \in Nat /\ delivered = [i \in 1 .. next_deliver - 0 |-> 0 + i - 1]
      BY DEF StreamOK, Run
    <3>2. next_deliver - 0 = next_deliver BY <3>1
    <3> QED BY <3>1, <3>2
  <2>5. delivered' = [i \in 1 .. n |-> i - 1]
    <3>1. delivered' = [i \in 1 .. n - 0 |-> 0 + i - 1] BY DEF StreamOK, Run
    <3> HIDE DEF n
    <3>2. n - 0 = n /\ \A i \in 1 .. n : 0 + i - 1 = i - 1 BY <2>3
    <3> QED BY <3>1, <3>2
  <2>6. Missing' \intersect (0 .. n - 1) = {}
    <3>1. Lost(events)' \subseteq n .. next_send' - 1 BY DEF StreamOK, Lost, Of, Where
    <3> QED BY <2>1, <2>3, <3>1
  <2> HIDE DEF n
  <2> QED BY <2>2, <2>3, <2>4, <2>5, <2>6 DEF Fifo!Next
<1>3. Spec => [][Fifo!Next]_Fifo!vars BY StreamKeepsTrack, StreamStep, <1>2, PTL DEF Spec
<1> QED BY <1>1, <1>3, PTL DEF Spec, ImplementsChannel, Fifo!Spec

\* into_transcript flushes, so nothing that could be delivered is held back.
THEOREM FinishedHasAll == Spec => []FinishedIsComplete
<1>1. StreamOK => FinishedIsComplete
  <2> SUFFICES ASSUME StreamOK, finished, NEW k \in 0 .. next_send - 1,
                      \A s \in 0 .. k : s \notin Missing
               PROVE  k \in ToSet(delivered)
    BY DEF FinishedIsComplete
  <2>1. next_send \in Nat /\ next_deliver \in Nat /\ next_deliver \notin buffered
        /\ buffered = (next_deliver .. next_send - 1) \ Lost(events)
    BY DEF StreamOK
  <2>2. k < next_deliver
    <3>1. SUFFICES ASSUME next_deliver <= k PROVE FALSE BY <2>1
    <3>2. next_deliver \in 0 .. k /\ next_deliver \in next_deliver .. next_send - 1 BY <2>1, <3>1
    <3> QED BY <2>1, <3>2, MissingIsLost
  <2>3. delivered = [i \in 1 .. next_deliver - 0 |-> 0 + i - 1] BY DEF StreamOK, Run
  <2>4. k + 1 \in 1 .. next_deliver - 0 /\ 0 + (k + 1) - 1 = k BY <2>1, <2>2
  <2>5. k + 1 \in DOMAIN delivered /\ delivered[k + 1] = k BY <2>3, <2>4
  <2> QED BY <2>5 DEF ToSet
<1> QED BY <1>1, StreamKeepsTrack, PTL

\* A delayed frame goes with the next one on its way.
THEOREM DelaysEnd == Spec => []DelayIsShort
<1>1. StreamOK => DelayIsShort BY DEF StreamOK, DelayIsShort, Waits, Where, At
<1> QED BY <1>1, StreamKeepsTrack, PTL

\* The transcript has the fate of every frame, and its delivery, once and in order.
THEOREM TranscriptIsComplete == Spec => []TranscriptAccounts
<1>1. StreamOK => TranscriptAccounts
  <2> SUFFICES ASSUME StreamOK PROVE TranscriptAccounts OBVIOUS
  <2>1. Tells(events, next_send, next_deliver) /\ next_deliver \in Nat BY DEF StreamOK
  <2>2. delivered = [i \in 1 .. next_deliver - 0 |-> 0 + i - 1] BY DEF StreamOK, Run
  <2>3. delivered = [i \in 1 .. next_deliver |-> i - 1]
    <3>1. next_deliver - 0 = next_deliver /\ \A i \in 1 .. next_deliver : 0 + i - 1 = i - 1 BY <2>1
    <3> QED BY <2>2, <3>1
  <2>4. ToSet(delivered) = 0 .. next_deliver - 1
    <3>1. ASSUME NEW n \in 0 .. next_deliver - 1 PROVE \E i \in DOMAIN delivered : delivered[i] = n
      <4>1. n + 1 \in 1 .. next_deliver /\ (n + 1) - 1 = n BY <2>1
      <4> QED BY <2>3, <4>1
    <3>2. \A i \in DOMAIN delivered : delivered[i] \in 0 .. next_deliver - 1 BY <2>1, <2>3
    <3> QED BY <3>1, <3>2 DEF ToSet
  <2>5. \A i, j \in DOMAIN delivered : i < j => delivered[i] < delivered[j] BY <2>1, <2>3
  <2>6. About(Fates) = 0 .. next_send - 1 /\ Ascending(Fates)
        /\ About({"deliver"}) = 0 .. next_deliver - 1 /\ Ascending({"deliver"})
    BY <2>1 DEF Tells, About, At, Ascending, Of, Where, Rising
  <2>7. \A i \in At({"deliver"}), j \in At({"enqueue"}) : events[i].seq = events[j].seq => j < i
    BY <2>1 DEF Tells, At, Where
  <2>8. Fates = {"drop", "blocked", "enqueue"} BY DEF Fates
  <2> QED BY <2>4, <2>5, <2>6, <2>7, <2>8 DEF TranscriptAccounts
<1> QED BY <1>1, StreamKeepsTrack, PTL
=============================================================================
