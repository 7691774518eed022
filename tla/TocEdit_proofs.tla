--------------------------- MODULE TocEdit_proofs ---------------------------
(***************************************************************************)
(* Proofs about TocEdit: the tracks and marks of an editing session.       *)
(***************************************************************************)
EXTENDS TocEdit, Track_proofs

\* Each mark of an ordered list is before all later ones.
LEMMA LaterMarks ==
    ASSUME NEW s \in Seq(Nat), \A i \in DOMAIN s : i > 1 => s[i - 1] < s[i]
    PROVE  \A i, j \in DOMAIN s : i < j => s[i] < s[j]
<1>1. SUFFICES ASSUME NEW i \in DOMAIN s, NEW k \in DOMAIN s, i < k, ~(s[i] < s[k]) PROVE FALSE
  OBVIOUS
<1>2. PICK T : T = {j \in 1 .. Len(s) : i < j /\ ~(s[i] < s[j])}
  OBVIOUS
<1>3. PICK m \in T : \A j \in T : m <= j
  <2>1. T \subseteq Nat /\ k \in T
    BY <1>1, <1>2
  <2> QED
    BY <2>1, LeastNatural
<1>4. m \in DOMAIN s /\ i < m /\ ~(s[i] < s[m]) /\ i \in Nat /\ m \in Nat
  BY <1>2, <1>3
<1>5. s[m - 1] < s[m]
  BY <1>4
<1>6. CASE m - 1 = i
  BY <1>4, <1>5, <1>6
<1>7. CASE m - 1 # i
  <2>1. m - 1 \in 1 .. Len(s) /\ i < m - 1 /\ ~(m <= m - 1)
    BY <1>4, <1>7
  <2>2. s[i] < s[m - 1]
    BY <1>2, <1>3, <2>1
  <2>3. s[i] \in Nat /\ s[m - 1] \in Nat /\ s[m] \in Nat
    BY <1>4, <2>1
  <2> QED
    BY <1>4, <1>5, <2>2, <2>3
<1> QED
  BY <1>6, <1>7
\* What InsertAt() makes of a sequence.
LEMMA InsertAtProperties ==
    ASSUME NEW S, NEW x \in Seq(S), NEW i \in 1 .. Len(x) + 1, NEW e \in S
    PROVE  /\ InsertAt(x, i, e) \in Seq(S) /\ Len(InsertAt(x, i, e)) = Len(x) + 1
           /\ \A j \in 1 .. Len(x) + 1 :
                 InsertAt(x, i, e)[j] = IF j < i THEN x[j] ELSE IF j = i THEN e ELSE x[j - 1]
<1>0. PICK s : s = InsertAt(x, i, e)
  OBVIOUS
<1>1. x \in Seq(S) /\ i \in 1 .. Len(x) + 1 /\ Len(x) \in Nat
  OBVIOUS
<1>2. SubSeq(x, 1, i - 1) \in Seq(S) /\ Len(SubSeq(x, 1, i - 1)) = i - 1
      /\ \A j \in 1 .. i - 1 : SubSeq(x, 1, i - 1)[j] = x[j]
  BY <1>1
<1>3. SubSeq(x, i, Len(x)) \in Seq(S) /\ Len(SubSeq(x, i, Len(x))) = Len(x) - i + 1
      /\ \A j \in 1 .. Len(x) - i + 1 : SubSeq(x, i, Len(x))[j] = x[i + j - 1]
  BY <1>1
<1>4. PICK a, b : a = SubSeq(x, 1, i - 1) /\ b = SubSeq(x, i, Len(x))
  OBVIOUS
<1>5. s = a \o <<e>> \o b
  BY <1>0, <1>4 DEF InsertAt
<1>6. a \o <<e>> \in Seq(S) /\ Len(a \o <<e>>) = i
      /\ \A j \in 1 .. i : (a \o <<e>>)[j] = IF j < i THEN x[j] ELSE e
  BY <1>1, <1>2, <1>4
<1>7. PICK c : c = a \o <<e>>
  OBVIOUS
<1>8. /\ c \in Seq(S) /\ Len(c) = i /\ \A j \in 1 .. i : c[j] = IF j < i THEN x[j] ELSE e
      /\ b \in Seq(S) /\ Len(b) = Len(x) - i + 1 /\ \A j \in 1 .. Len(x) - i + 1 : b[j] = x[i + j - 1]
      /\ s = c \o b
  BY <1>3, <1>4, <1>5, <1>6, <1>7
<1>9. /\ s \in Seq(S) /\ Len(s) = Len(c) + Len(b)
      /\ \A j \in 1 .. Len(c) + Len(b) : s[j] = IF j <= Len(c) THEN c[j] ELSE b[j - Len(c)]
  BY <1>8, ConcatProperties
<1>10. Len(c) + Len(b) = Len(x) + 1
  BY <1>1, <1>8
<1>11. ASSUME NEW j \in 1 .. Len(x) + 1
       PROVE  s[j] = IF j < i THEN x[j] ELSE IF j = i THEN e ELSE x[j - 1]
  <2>1. CASE j <= i
    <3>1. s[j] = c[j] /\ j \in 1 .. i
      BY <1>1, <1>8, <1>9, <1>10, <2>1
    <3> QED
      BY <1>1, <1>8, <2>1, <3>1
  <2>2. CASE j > i
    <3>1. s[j] = b[j - i] /\ j - i \in 1 .. Len(x) - i + 1
      <4>1. j \in 1 .. Len(c) + Len(b) /\ ~(j <= Len(c)) /\ Len(c) = i /\ j - i \in 1 .. Len(x) - i + 1
        BY <1>1, <1>8, <1>10, <2>2
      <4> QED
        BY <1>9, <4>1
    <3>2. b[j - i] = x[i + (j - i) - 1] /\ i + (j - i) - 1 = j - 1
      BY <1>1, <1>8, <3>1
    <3> QED
      BY <1>1, <2>2, <3>1, <3>2
  <2> QED
    BY <1>1, <2>1, <2>2
<1> QED
  BY <1>0, <1>9, <1>10, <1>11
-----------------------------------------------------------------------------
(* The operations of a track.                                              *)

\* The loop of addIndex() ends at the first increment that is not before pos.
LEMMA FirstFrom ==
    ASSUME NEW t, t.index \in Seq(Nat), NEW pos \in Nat
    PROVE  /\ FirstIndexFrom(t, pos) \in 1 .. Len(t.index) + 1
           /\ \A j \in DOMAIN t.index : j < FirstIndexFrom(t, pos) => t.index[j] < pos
           /\ FirstIndexFrom(t, pos) \in DOMAIN t.index => t.index[FirstIndexFrom(t, pos)] >= pos
<1>1. PICK later : later = {i \in DOMAIN t.index : t.index[i] >= pos}
  OBVIOUS
<1>2. FirstIndexFrom(t, pos) = IF later = {} THEN Len(t.index) + 1 ELSE Min(later)
  BY <1>1 DEF FirstIndexFrom
<1>3. later \subseteq 1 .. Len(t.index) /\ \A j \in DOMAIN t.index : j \notin later => t.index[j] < pos
  BY <1>1
<1>4. CASE later = {}
  BY <1>2, <1>3, <1>4
<1>5. CASE later # {}
  <2>1. Min(later) \in later /\ \A m \in later : Min(later) <= m
    <3>1. later \subseteq Nat
      BY <1>1, <1>3
    <3> QED
      BY ONLY <1>5, <3>1, LeastNatural
  <2>2. PICK n : n = Min(later)
    OBVIOUS
  <2>3. n \in 1 .. Len(t.index) /\ n \in later /\ \A m \in later : n <= m
    BY <1>3, <2>1, <2>2
  <2>4. \A j \in DOMAIN t.index : j < n => t.index[j] < pos
    BY <1>3, <2>3
  <2>5. n \in 1 .. Len(t.index) + 1 /\ t.index[n] >= pos
    BY <1>1, <2>3
  <2>6. FirstIndexFrom(t, pos) = n
    BY <1>2, <1>5, <2>2
  <2> QED
    BY <2>4, <2>5, <2>6
<1> QED
  BY <1>4, <1>5

\* An index mark that addIndex() accepts is put between its neighbours.
LEMMA AddIndexOrdered ==
    ASSUME NEW t, IsTrack(t), OrderedMarks(t), NEW pos \in Nat
    PROVE  OrderedMarks(AddIndex(t, pos).track)
<1>1. t.index \in Seq(Nat) /\ t.length \in Nat /\ t.start \in Nat /\ Length(t) = t.length
  BY DEF IsTrack, Length
<1>2. PICK i : i = FirstIndexFrom(t, pos)
  OBVIOUS
<1>3. /\ i \in 1 .. Len(t.index) + 1
      /\ \A j \in DOMAIN t.index : j < i => t.index[j] < pos
      /\ i \in DOMAIN t.index => t.index[i] >= pos
  BY <1>1, <1>2, FirstFrom
<1>4. CASE AddIndex(t, pos).track = t
  BY <1>4
<1>5. CASE AddIndex(t, pos).track # t
  <2>1. /\ ~(pos >= Msf(Length(t) - t.start)) /\ pos # 0
        /\ ~(i \in DOMAIN t.index /\ t.index[i] = pos)
        /\ AddIndex(t, pos).track = [t EXCEPT !.index = InsertAt(@, i, pos)]
    BY <1>2, <1>5 DEF AddIndex, Result
  <2>2. pos > 0 /\ t.start + pos < t.length
    BY <1>1, <2>1 DEF Msf, LargerOf
  <2>3. PICK s : s = InsertAt(t.index, i, pos)
    OBVIOUS
  <2>4. PICK x : x = t.index
    OBVIOUS
  <2>5. /\ s \in Seq(Nat) /\ Len(s) = Len(x) + 1
        /\ \A j \in 1 .. Len(x) + 1 : s[j] = IF j < i THEN x[j] ELSE IF j = i THEN pos ELSE x[j - 1]
    <3>1. PICK S : S = Nat
      OBVIOUS
    <3>2. x \in Seq(S) /\ i \in 1 .. Len(x) + 1 /\ pos \in S
      BY <1>1, <1>3, <2>4, <3>1
    <3>3. s = InsertAt(x, i, pos)
      BY <2>3, <2>4
    <3>4. /\ s \in Seq(S) /\ Len(s) = Len(x) + 1
          /\ \A j \in 1 .. Len(x) + 1 : s[j] = IF j < i THEN x[j] ELSE IF j = i THEN pos ELSE x[j - 1]
      <4>1. /\ InsertAt(x, i, pos) \in Seq(S) /\ Len(InsertAt(x, i, pos)) = Len(x) + 1
            /\ \A j \in 1 .. Len(x) + 1 :
                  InsertAt(x, i, pos)[j] = IF j < i THEN x[j] ELSE IF j = i THEN pos ELSE x[j - 1]
        BY ONLY <3>2, InsertAtProperties
      <4> QED
        BY ONLY <3>3, <4>1
    <3> QED
      BY <3>1, <3>4
  <2>6. PICK r : r = AddIndex(t, pos).track
    OBVIOUS
  <2>7. r.index = s /\ r.start = t.start /\ Length(r) = t.length
    BY <2>1, <2>3, <2>6 DEF IsTrack, Length
  <2>8. \A j \in 1 .. Len(x) : /\ x[j] \in Nat /\ 0 < x[j] /\ t.start + x[j] < t.length
                               /\ j > 1 => x[j - 1] < x[j]
    <3>1. DOMAIN x = 1 .. Len(x) /\ \A j \in DOMAIN x : x[j] \in Nat
      BY <1>1, <2>4
    <3>2. \A j \in DOMAIN x : 0 < x[j] /\ t.start + x[j] < t.length /\ (j > 1 => x[j - 1] < x[j])
      BY <1>1, <2>4 DEF OrderedMarks
    <3> QED
      BY <3>1, <3>2
  <2>9. ASSUME NEW j \in 1 .. Len(x) + 1
        PROVE  0 < s[j] /\ t.start + s[j] < t.length /\ (j > 1 => s[j - 1] < s[j])
    <3>1. i \in 1 .. Len(x) + 1 /\ Len(x) \in Nat
      BY <1>1, <1>3, <2>4
    <3>2. /\ s[j] = IF j < i THEN x[j] ELSE IF j = i THEN pos ELSE x[j - 1]
          /\ j > 1 => s[j - 1] = IF j - 1 < i THEN x[j - 1] ELSE IF j - 1 = i THEN pos ELSE x[j - 2]
      <4>1. j > 1 => j - 1 \in 1 .. Len(x) + 1 /\ (j - 1) - 1 = j - 2
        BY <3>1
      <4> QED
        BY <2>5, <4>1
    <3>3. \A k \in 1 .. Len(x) : (k < i => x[k] < pos) /\ (k = i => x[k] > pos)
      <4>1. i \in 1 .. Len(x) => x[i] >= pos /\ x[i] # pos /\ x[i] \in Nat
        BY <1>1, <1>3, <2>1, <2>4, <2>8
      <4> QED
        BY <1>1, <1>3, <2>4, <4>1
    <3>4. CASE j < i
      <4>1. j \in 1 .. Len(x) /\ (j > 1 => j - 1 < i)
        BY <3>1, <3>4
      <4> QED
        BY <2>8, <3>2, <3>4, <4>1
    <3>5. CASE j = i
      <4>1. j > 1 => j - 1 \in 1 .. Len(x) /\ j - 1 < i
        BY <3>1, <3>5
      <4>2. s[j] = pos /\ (j > 1 => s[j - 1] = x[j - 1])
        BY <3>1, <3>2, <3>5, <4>1
      <4> QED
        BY <2>2, <3>3, <4>1, <4>2
    <3>6. CASE j = i + 1
      <4>1. j - 1 \in 1 .. Len(x) /\ j - 1 = i
        BY <3>1, <3>6
      <4>2. s[j] = x[j - 1] /\ s[j - 1] = pos
        BY <3>1, <3>2, <3>6, <4>1
      <4> QED
        BY <2>2, <2>8, <3>3, <4>1, <4>2
    <3>7. CASE j > i + 1
      <4>1. j - 1 \in 1 .. Len(x) /\ j - 1 > 1 /\ (j - 1) - 1 = j - 2 /\ ~(j - 1 < i) /\ j - 1 # i /\ ~(j < i) /\ j # i
        BY <3>1, <3>7
      <4>2. s[j] = x[j - 1] /\ s[j - 1] = x[j - 2]
        BY <3>1, <3>2, <3>7, <4>1
      <4>3. x[(j - 1) - 1] < x[j - 1] /\ 0 < x[j - 1] /\ t.start + x[j - 1] < t.length
        BY <2>8, <4>1
      <4> QED
        BY <4>1, <4>2, <4>3
    <3> QED
      BY <3>1, <3>4, <3>5, <3>6, <3>7
  <2>10. DOMAIN r.index = 1 .. Len(x) + 1
    BY <2>5, <2>7
  <2>11. r.start < Length(r) \/ r.start = 0
    BY <1>1, <2>7 DEF OrderedMarks
  <2> QED
    BY <2>6, <2>7, <2>9, <2>10, <2>11 DEF OrderedMarks
<1> QED
  BY <1>4, <1>5

\* What is left of an ordered list without one of its marks is ordered.
LEMMA RemoveIndexOrdered ==
    ASSUME NEW t, IsTrack(t), OrderedMarks(t), NEW k \in Nat
    PROVE  OrderedMarks(RemoveIndex(t, k).track)
<1>1. t.index \in Seq(Nat) /\ t.length \in Nat /\ t.start \in Nat /\ Length(t) = t.length
  BY DEF IsTrack, Length
<1>2. CASE RemoveIndex(t, k).track = t
  BY <1>2
<1>3. CASE RemoveIndex(t, k).track # t
  <2>1. PICK x, i : x = t.index /\ i = k + 1
    OBVIOUS
  <2>2. /\ x \in Seq(Nat) /\ Len(x) \in Nat /\ i \in 1 .. Len(x)
        /\ RemoveIndex(t, k).track = [t EXCEPT !.index = RemoveAt(@, i)]
    BY <1>1, <1>3, <2>1 DEF RemoveIndex, Result
  <2>num. x \in Seq(Nat) /\ Len(x) \in Nat /\ i \in 1 .. Len(x) /\ i \in Nat
    BY <2>2
  <2>3. PICK r, s : r = RemoveIndex(t, k).track /\ s = RemoveAt(x, i)
    OBVIOUS
  <2>4. r.index = s /\ r.start = t.start /\ Length(r) = t.length
    BY <2>1, <2>2, <2>3 DEF IsTrack, Length
  <2>5. s \in Seq(Nat) /\ Len(s) = Len(x) - 1
        /\ \A j \in 1 .. Len(x) - 1 : s[j] = IF j < i THEN x[j] ELSE x[j + 1]
    <3>1. PICK a, b : a = SubSeq(x, 1, i - 1) /\ b = SubSeq(x, i + 1, Len(x))
      OBVIOUS
    <3>2. a \in Seq(Nat) /\ Len(a) = i - 1 /\ \A j \in 1 .. i - 1 : a[j] = x[j]
      BY <2>num, <3>1
    <3>3. b \in Seq(Nat) /\ Len(b) = Len(x) - i /\ \A j \in 1 .. Len(x) - i : b[j] = x[i + j]
      <4>1. b \in Seq(Nat)
        BY <2>num, <3>1
      <4>2. Len(b) = Len(x) - i
        BY <2>num, <3>1
      <4>3. ASSUME NEW j \in 1 .. Len(x) - i PROVE b[j] = x[i + j]
        <5>1. b[j] = x[(i + 1) + j - 1] /\ (i + 1) + j - 1 = i + j
          BY <2>num, <3>1
        <5> QED
          BY <5>1
      <4> QED
        BY <4>1, <4>2, <4>3
    <3>4. /\ s \in Seq(Nat) /\ Len(s) = Len(a) + Len(b)
          /\ \A j \in 1 .. Len(a) + Len(b) : s[j] = IF j <= Len(a) THEN a[j] ELSE b[j - Len(a)]
      <4>1. s = a \o b
        BY <2>3, <3>1 DEF RemoveAt
      <4> QED
        BY <3>2, <3>3, <4>1, ConcatProperties
    <3>5. Len(a) + Len(b) = Len(x) - 1
      BY <2>num, <3>2, <3>3
    <3>6. ASSUME NEW j \in 1 .. Len(x) - 1 PROVE s[j] = IF j < i THEN x[j] ELSE x[j + 1]
      <4>1. CASE j < i
        <5>1. j \in 1 .. Len(a) + Len(b) /\ j <= Len(a) /\ j \in 1 .. i - 1
          BY <2>num, <3>2, <3>3, <4>1
        <5> QED
          BY <3>2, <3>4, <4>1, <5>1
      <4>2. CASE j >= i
        <5>1. ~(j <= Len(a)) /\ j - Len(a) \in 1 .. Len(x) - i /\ i + (j - Len(a)) = j + 1 /\ ~(j < i)
          BY <2>num, <3>2, <4>2
        <5>2. s[j] = b[j - Len(a)]
          BY <3>4, <3>5, <5>1
        <5>3. b[j - Len(a)] = x[i + (j - Len(a))]
          BY <3>3, <5>1
        <5> QED
          BY <5>1, <5>2, <5>3
      <4> QED
        BY <2>num, <4>1, <4>2
    <3> QED
      BY <3>4, <3>5, <3>6
  <2>6. \A j \in 1 .. Len(x) : x[j] \in Nat /\ 0 < x[j] /\ t.start + x[j] < t.length /\ (j > 1 => x[j - 1] < x[j])
    <3>1. DOMAIN x = 1 .. Len(x) /\ \A j \in DOMAIN x : x[j] \in Nat
      BY <2>num
    <3>2. \A j \in DOMAIN x : 0 < x[j] /\ t.start + x[j] < t.length /\ (j > 1 => x[j - 1] < x[j])
      BY <1>1, <2>1 DEF OrderedMarks
    <3> QED
      BY <3>1, <3>2
  <2>7. \A m, n \in 1 .. Len(x) : m < n => x[m] < x[n]
    <3>1. DOMAIN x = 1 .. Len(x)
      BY <2>num
    <3> QED
      BY ONLY <2>num, <2>6, <3>1, LaterMarks
  <2>8. ASSUME NEW j \in 1 .. Len(s)
        PROVE  0 < s[j] /\ t.start + s[j] < t.length /\ (j > 1 => s[j - 1] < s[j])
    <3>1. PICK p \in 1 .. Len(x) : p = IF j < i THEN j ELSE j + 1
      BY <2>num, <2>5
    <3>2. s[j] = x[p]
      BY <2>5, <3>1
    <3>3. ASSUME j > 1 PROVE s[j - 1] < s[j]
      <4>1. PICK q \in 1 .. Len(x) : q = (IF j - 1 < i THEN j - 1 ELSE j) /\ q < p
        <5>1. j \in 1 .. Len(x) - 1 /\ j - 1 \in 1 .. Len(x)
          BY <2>num, <2>5, <3>3
        <5>2. CASE j - 1 < i
          BY <2>num, <3>1, <5>1, <5>2
        <5>3. CASE ~(j - 1 < i)
          BY <2>num, <3>1, <5>1, <5>3
        <5> QED
          BY <5>2, <5>3
      <4>2. s[j - 1] = x[q]
        <5>1. j - 1 \in 1 .. Len(x) - 1 /\ (j - 1) + 1 = j
          BY <2>num, <2>5, <3>3
        <5> QED
          BY <2>5, <4>1, <5>1
      <4> QED
        BY <2>7, <3>2, <4>1, <4>2
    <3> QED
      BY <2>6, <3>2, <3>3
  <2>9. DOMAIN r.index = 1 .. Len(s)
    BY <2>4, <2>5
  <2>10. r.start < Length(r) \/ r.start = 0
    BY <1>1, <2>4 DEF OrderedMarks
  <2> QED
    BY <2>3, <2>4, <2>8, <2>9, <2>10 DEF OrderedMarks
<1> QED
  BY <1>2, <1>3

\* Moving the start of a track leaves its marks where they are; the first one
\* is behind the new start as well.
LEMMA MoveStartOrdered ==
    ASSUME NEW t, IsTrack(t), OrderedMarks(t), NEW lba \in Nat
    PROVE  OrderedMarks(MoveStart(t, lba).track)
<1>1. t.index \in Seq(Nat) /\ t.length \in Nat /\ t.start \in Nat /\ Length(t) = t.length
  BY DEF IsTrack, Length
<1>2. CASE MoveStart(t, lba).track = t
  BY <1>2
<1>3. CASE MoveStart(t, lba).track # t
  <2>1. PICK x, r : x = t.index /\ r = MoveStart(t, lba).track
    OBVIOUS
  <2>2. /\ ~(x # <<>> /\ lba >= t.start + x[1]) /\ ~(lba > t.length - FourSeconds)
        /\ r = [t EXCEPT !.index = Shifted(@, t.start - lba), !.start = lba]
    BY <1>1, <1>3, <2>1 DEF MoveStart, StartMoved, TooLate, Result
  <2>3. x \in Seq(Nat) /\ Len(x) \in Nat /\ DOMAIN x = 1 .. Len(x) /\ \A j \in DOMAIN x : x[j] \in Nat
    BY <1>1, <2>1
  <2>4. \A j \in DOMAIN x : 0 < x[j] /\ t.start + x[j] < t.length /\ (j > 1 => x[j - 1] < x[j])
    BY <1>1, <2>1 DEF OrderedMarks
  <2>5. /\ DOMAIN r.index = DOMAIN x /\ \A j \in DOMAIN x : r.index[j] = x[j] + (t.start - lba)
        /\ r.start = lba /\ Length(r) = t.length
    BY <2>1, <2>2 DEF IsTrack, Length, Shifted
  <2>6. lba < t.length
    BY <1>1, <2>2, TrackAssumption
  <2>7. ASSUME NEW j \in DOMAIN x PROVE lba < t.start + x[j]
    <3>1. x # <<>> /\ 1 \in DOMAIN x /\ x[1] \in Nat /\ x[j] \in Nat /\ j >= 1
      BY <2>3
    <3>2. lba < t.start + x[1]
      BY <1>1, <2>2, <3>1
    <3>3. x[1] <= x[j]
      <4>1. CASE j = 1
        BY <3>1, <4>1
      <4>2. CASE j > 1
        <5>1. \A m, n \in DOMAIN x : m < n => x[m] < x[n]
          BY <2>3, <2>4, LaterMarks
        <5> QED
          BY <3>1, <4>2, <5>1
      <4> QED
        BY <2>3, <4>1, <4>2
    <3> QED
      BY <1>1, <3>1, <3>2, <3>3
  <2>8. ASSUME NEW j \in DOMAIN x
        PROVE  0 < r.index[j] /\ r.start + r.index[j] < t.length /\ (j > 1 => r.index[j - 1] < r.index[j])
    <3>1. x[j] \in Nat /\ lba < t.start + x[j] /\ t.start + x[j] < t.length /\ r.index[j] = x[j] + (t.start - lba)
      BY <2>3, <2>4, <2>5, <2>7
    <3>2. 0 < r.index[j] /\ lba + r.index[j] < t.length
      BY <1>1, <3>1
    <3>3. ASSUME j > 1 PROVE r.index[j - 1] < r.index[j]
      <4>1. j - 1 \in DOMAIN x
        BY <2>3, <3>3
      <4>2. x[j - 1] \in Nat /\ x[j - 1] < x[j] /\ r.index[j - 1] = x[j - 1] + (t.start - lba)
        BY <2>3, <2>4, <2>5, <3>3, <4>1
      <4> QED
        BY <1>1, <3>1, <4>2
    <3> QED
      BY <2>5, <3>2, <3>3
  <2> QED
    BY <2>1, <2>5, <2>6, <2>8 DEF OrderedMarks
<1> QED
  BY <1>2, <1>3

\* An index mark that is moved stays between its neighbours.
LEMMA MoveIncrementOrdered ==
    ASSUME NEW t, IsTrack(t), OrderedMarks(t), NEW i \in DOMAIN t.index, NEW lba \in Nat
    PROVE  OrderedMarks(MoveIncrement(t, i, lba).track)
<1>1. t.index \in Seq(Nat) /\ t.length \in Nat /\ t.start \in Nat /\ Length(t) = t.length
  BY DEF IsTrack, Length
<1>2. CASE MoveIncrement(t, i, lba).track = t
  BY <1>2
<1>3. CASE MoveIncrement(t, i, lba).track # t
  <2>1. PICK x, r, pos : x = t.index /\ r = MoveIncrement(t, i, lba).track /\ pos = lba - t.start
    OBVIOUS
  <2>2. /\ lba > t.start /\ BetweenNeighbours(t, i, pos)
        /\ r = [t EXCEPT !.index[i] = pos]
    BY <1>3, <2>1 DEF MoveIncrement, Result
  <2>3. x \in Seq(Nat) /\ Len(x) \in Nat /\ DOMAIN x = 1 .. Len(x) /\ i \in DOMAIN x /\ \A j \in DOMAIN x : x[j] \in Nat
    BY <1>1, <2>1
  <2>4. \A j \in DOMAIN x : 0 < x[j] /\ t.start + x[j] < t.length /\ (j > 1 => x[j - 1] < x[j])
    BY <1>1, <2>1 DEF OrderedMarks
  <2>5. /\ DOMAIN r.index = DOMAIN x /\ \A j \in DOMAIN x : r.index[j] = IF j = i THEN pos ELSE x[j]
        /\ r.start = t.start /\ Length(r) = t.length
    BY <2>1, <2>2 DEF IsTrack, Length
  <2>6. pos \in Nat /\ pos > 0
    BY <1>1, <2>1, <2>2
  <2>7. (i > 1 => x[i - 1] < pos) /\ (i = Len(x) => t.start + pos < t.length) /\ (i # Len(x) => pos < x[i + 1])
    <3>1. pos > (IF i = 1 THEN 0 ELSE x[i - 1]) /\ pos < (IF i = Len(x) THEN t.length - t.start ELSE x[i + 1])
      BY <1>1, <2>1, <2>2 DEF BetweenNeighbours
    <3>2. i > 1 => x[i - 1] \in Nat
      BY <2>3
    <3> QED
      BY <1>1, <2>3, <2>6, <3>1, <3>2
  <2>8. t.start + pos < t.length
    <3>1. CASE i = Len(x)
      BY <2>7, <3>1
    <3>2. CASE i # Len(x)
      <4>1. i + 1 \in DOMAIN x /\ pos < x[i + 1]
        BY <2>3, <2>7, <3>2
      <4>2. x[i + 1] \in Nat /\ t.start + x[i + 1] < t.length
        BY <2>3, <2>4, <4>1
      <4> QED
        BY <1>1, <2>6, <4>1, <4>2
    <3> QED
      BY <3>1, <3>2
  <2>9. ASSUME NEW j \in DOMAIN x
        PROVE  0 < r.index[j] /\ t.start + r.index[j] < t.length /\ (j > 1 => r.index[j - 1] < r.index[j])
    <3>1. 0 < r.index[j] /\ t.start + r.index[j] < t.length
      BY <2>4, <2>5, <2>6, <2>8
    <3>2. ASSUME j > 1 PROVE r.index[j - 1] < r.index[j]
      <4>1. j - 1 \in DOMAIN x /\ x[j - 1] < x[j]
        BY <2>3, <2>4, <3>2
      <4>2. CASE j = i
        <5>1. j - 1 # i
          BY <2>3, <4>2
        <5>2. r.index[j] = pos /\ r.index[j - 1] = x[j - 1]
          BY <2>5, <4>1, <4>2, <5>1
        <5> QED
          BY <2>7, <3>2, <4>2, <5>2
      <4>3. CASE j - 1 = i
        <5>1. j # i /\ j = i + 1 /\ i # Len(x)
          BY <2>3, <4>3
        <5>2. r.index[j - 1] = pos /\ r.index[j] = x[j]
          BY <2>5, <4>1, <4>3, <5>1
        <5> QED
          BY <2>7, <5>1, <5>2
      <4>4. CASE j # i /\ j - 1 # i
        BY <2>5, <4>1, <4>4
      <4> QED
        BY <4>2, <4>3, <4>4
    <3> QED
      BY <3>1, <3>2
  <2>10. r.start < Length(r) \/ r.start = 0
    BY <1>1, <2>5 DEF OrderedMarks
  <2> QED
    BY <2>1, <2>5, <2>9, <2>10 DEF OrderedMarks
<1> QED
  BY <1>2, <1>3

\* A track whose pieces are exchanged drops the marks that are then behind its end.
RisingMarks(index) == \A i \in DOMAIN index : 0 < index[i] /\ (i > 1 => index[i - 1] < index[i])

\* What is left of rising marks is in order, with the pre-gap or without it.
LEMMA DropOrdered ==
    ASSUME NEW t, {"index", "start", "length"} \subseteq DOMAIN t, t.index \in Seq(Nat), t.length \in Nat, t.start \in Nat,
           t.start < t.length \/ t.start = 0, RisingMarks(t.index)
    PROVE  OrderedMarks(DropIndicesBehindEnd(t))
<1>1. PICK x, behind : x = t.index /\ behind = {i \in DOMAIN x : x[i] + t.start >= t.length}
  OBVIOUS
<1>2. DropIndicesBehindEnd(t) = IF behind = {} THEN t ELSE [t EXCEPT !.index = SubSeq(@, 1, Min(behind) - 1)]
  BY <1>1 DEF DropIndicesBehindEnd, Length
<1>3. x \in Seq(Nat) /\ Len(x) \in Nat /\ DOMAIN x = 1 .. Len(x) /\ \A i \in DOMAIN x : x[i] \in Nat
  BY <1>1
<1>4. \A i \in DOMAIN x : 0 < x[i] /\ (i > 1 => x[i - 1] < x[i])
  BY <1>1 DEF RisingMarks
<1>5. \A i \in DOMAIN x : i \notin behind => t.start + x[i] < t.length
  BY <1>1, <1>3
<1>6. CASE behind = {}
  BY <1>1, <1>2, <1>4, <1>5, <1>6 DEF OrderedMarks, Length
<1>7. CASE behind # {}
  <2>1. PICK n : n = Min(behind)
    OBVIOUS
  <2>2. n \in behind /\ \A m \in behind : n <= m
    <3>1. behind \subseteq Nat
      BY <1>1, <1>3
    <3> QED
      BY <1>7, <2>1, <3>1, LeastNatural
  <2>3. n \in 1 .. Len(x) /\ \A i \in 1 .. n - 1 : i \notin behind /\ i \in DOMAIN x
    <3>1. n \in 1 .. Len(x)
      BY <1>1, <1>3, <2>2
    <3>2. \A i \in 1 .. n - 1 : ~(n <= i) /\ i \in DOMAIN x
      BY <1>3, <3>1
    <3> QED
      BY <2>2, <3>1, <3>2
  <2>4. PICK s, r : s = SubSeq(x, 1, n - 1) /\ r = DropIndicesBehindEnd(t)
    OBVIOUS
  <2>5. s \in Seq(Nat) /\ Len(s) = n - 1 /\ \A i \in 1 .. n - 1 : s[i] = x[i]
    BY <1>3, <2>3, <2>4
  <2>6. r.index = s /\ r.start = t.start /\ Length(r) = t.length
    BY <1>1, <1>2, <1>7, <2>1, <2>4 DEF Length
  <2>7. ASSUME NEW i \in DOMAIN s
        PROVE  0 < s[i] /\ t.start + s[i] < t.length /\ (i > 1 => s[i - 1] < s[i])
    <3>1. i \in 1 .. n - 1 /\ (i > 1 => i - 1 \in 1 .. n - 1)
      BY <2>3, <2>5
    <3>2. s[i] = x[i] /\ (i > 1 => s[i - 1] = x[i - 1]) /\ i \in DOMAIN x /\ i \notin behind
      BY <2>3, <2>5, <3>1
    <3> QED
      BY <1>4, <1>5, <3>2
  <2> QED
    BY <2>4, <2>6, <2>7 DEF OrderedMarks
<1> QED
  BY <1>6, <1>7

\* The split of a track keeps the marks that are inside what is left of it.
LEMMA KeepingOrdered ==
    ASSUME NEW t, IsTrack(t), RisingMarks(t.index), NEW subs, Length(Keeping(t, subs)) \in Nat
    PROVE  OrderedMarks(Keeping(t, subs))
<1>1. PICK u : u = Update([t EXCEPT !.subTracks = subs])
  OBVIOUS
<1>2. DOMAIN t = {"mode", "subTracks", "length", "start", "index"} /\ t.index \in Seq(Nat) /\ t.start \in Nat
  BY DEF IsTrack
<1>3. DOMAIN u = DOMAIN t /\ u.index = t.index /\ u.start = ResetStart(t.start, u.length)
  BY <1>1, <1>2 DEF Update
<1>4. Keeping(t, subs) = DropIndicesBehindEnd(u)
  BY <1>1 DEF Keeping
<1>5. Length(DropIndicesBehindEnd(u)) = u.length
  BY <1>2, <1>3 DEF DropIndicesBehindEnd, Length
<1>6. u.length \in Nat
  BY <1>4, <1>5
<1>7. u.start \in Nat /\ (u.start < u.length \/ u.start = 0)
  BY <1>2, <1>3, <1>6 DEF ResetStart
<1> QED
  BY <1>2, <1>3, <1>4, <1>6, <1>7, DropOrdered
-----------------------------------------------------------------------------
(* Tracks of a session without sub-channel data: the audio tracks are as   *)
(* update() leaves them, and their marks are in order.                     *)

Good(t) ==
    /\ IsTrack(t) /\ OrderedMarks(t)
    /\ t.mode # "RW"
    /\ t.mode = "AUDIO" => t \in WholeTracks
GoodAudio(t) == Good(t) /\ t.mode = "AUDIO"

\* Increments x behind a pre-gap of s blocks, in order and inside a track of n blocks.
Marks(x, s, n) == x \in Seq(Nat) /\ RisingMarks(x) /\ \A i \in DOMAIN x : s + x[i] < n

\* What is known of a good track.
LEMMA GoodFacts ==
    ASSUME NEW t, Good(t)
    PROVE  /\ t.start \in Nat /\ t.length \in Nat /\ Length(t) = t.length
           /\ t.index \in Seq(Nat) /\ Len(t.index) \in Nat /\ Len(t.index) <= MaxIndices
           /\ t.start < t.length \/ t.start = 0
           /\ Marks(t.index, t.start, t.length)
<1>1. t.start \in Nat /\ t.length \in Nat /\ Length(t) = t.length /\ t.index \in Seq(Nat) /\ Len(t.index) <= MaxIndices
  BY DEF Good, IsTrack, Length
<1>2. Len(t.index) \in Nat
  BY <1>1
<1>3. t.start < t.length \/ t.start = 0
  BY <1>1 DEF Good, OrderedMarks
<1>4. \A i \in DOMAIN t.index : /\ 0 < t.index[i] /\ t.start + t.index[i] < t.length
                                /\ i > 1 => t.index[i - 1] < t.index[i]
  BY <1>1 DEF Good, OrderedMarks
<1>5. Marks(t.index, t.start, t.length)
  BY <1>1, <1>4 DEF Marks, RisingMarks
<1> QED
  BY <1>1, <1>2, <1>3, <1>5

\* Marks that fit in a track are in order, also where update() resets the pre-gap.
LEMMA MarksFit ==
    ASSUME NEW u, u.length \in Nat, NEW s \in Nat, Marks(u.index, s, u.length), u.start = ResetStart(s, u.length)
    PROVE  OrderedMarks(u) /\ u.start \in Nat /\ (u.start < u.length \/ u.start = 0)
<1>1. PICK x \in Seq(Nat), n \in Nat : x = u.index /\ n = u.length /\ Length(u) = n
  BY DEF Marks, Length
<1>2. u.start \in Nat /\ u.start <= s /\ (u.start < n \/ u.start = 0)
  BY <1>1 DEF ResetStart
<1>3. ASSUME NEW i \in DOMAIN x
      PROVE  0 < x[i] /\ u.start + x[i] < n /\ (i > 1 => x[i - 1] < x[i])
  <2>1. 0 < x[i] /\ s + x[i] < n /\ (i > 1 => x[i - 1] < x[i])
    BY <1>1 DEF Marks, RisingMarks
  <2>2. x[i] \in Nat
    OBVIOUS
  <2> QED
    BY <1>2, <2>1, <2>2
<1> QED
  BY <1>1, <1>2, <1>3 DEF OrderedMarks

\* A track as update() leaves it, with its marks in order, is a good one.
LEMMA WholeIsGood ==
    ASSUME NEW u \in WholeTracks, Len(u.index) <= MaxIndices, OrderedMarks(u)
    PROVE  GoodAudio(u)
<1>1. PICK m, list, len, s, x : u = [mode |-> m, subTracks |-> list, length |-> len, start |-> s, index |-> x]
  BY WholeFacts DEF IsRecord
<1>2. u.mode = "AUDIO" /\ u.length \in Nat /\ u.start \in Nat /\ u.index \in Seq(Nat)
  BY WholeFacts
<1>3. \A i \in DOMAIN u.subTracks : u.subTracks[i] \in PieceType
  <2>1. PICK subs \in Seq(AudioPieces) : subs = u.subTracks
    BY WholeFacts DEF AudioLists
  <2>2. \A i \in DOMAIN subs : subs[i] \in AudioPieces
    BY <2>1
  <2>3. \A p \in AudioPieces : p \in PieceType
    BY DEF AudioPieces, PieceType, Modes
  <2> QED
    BY <2>1, <2>2, <2>3
<1>4. DOMAIN u = {"mode", "subTracks", "length", "start", "index"}
  BY <1>1
<1>5. IsTrack(u)
  BY <1>2, <1>3, <1>4 DEF IsTrack, Modes
<1> QED
  BY <1>2, <1>5 DEF GoodAudio, Good

\* A track that gets longer keeps its pre-gap and its marks.
LEMMA GrownIsGood ==
    ASSUME NEW t, GoodAudio(t), NEW u, NEW subs \in AudioLists, MadeFrom(u, t, subs),
           RealLength(subs) >= RealLength(t.subTracks)
    PROVE  /\ GoodAudio(u)
           /\ u.length = Ceiling(RealLength(subs), SAMPLES_PER_BLOCK)
           /\ u.length >= t.length /\ u.start = t.start /\ u.index = t.index
<1>1. t \in WholeTracks /\ Good(t) /\ t.mode = "AUDIO"
  BY DEF GoodAudio, Good
<1>2. PICK start \in Nat, n \in Nat, x \in Seq(Nat) : start = t.start /\ n = t.length /\ x = t.index
  BY <1>1, GoodFacts
<1>3. Len(x) <= MaxIndices /\ (start < n \/ start = 0) /\ Marks(x, start, n)
  BY <1>1, <1>2, GoodFacts
<1>4. u \in WholeTracks
  BY <1>1, <1>2, MadeWhole
<1>5. u.length = Ceiling(RealLength(subs), SAMPLES_PER_BLOCK) /\ u.start = ResetStart(start, u.length) /\ u.index = x
  BY <1>2 DEF MadeFrom
<1>6. PICK m \in Nat : m = u.length /\ m >= n
  <2>1. PICK r \in Nat, k \in Nat : r = RealLength(subs) /\ k = RealLength(t.subTracks) /\ k <= r
    BY <1>1, WholeFacts, RealFacts DEF AudioLists
  <2>2. n = Ceiling(k, SAMPLES_PER_BLOCK)
    BY <1>1, <1>2, <2>1, WholeFacts
  <2>3. Ceiling(k, SAMPLES_PER_BLOCK) <= Ceiling(r, SAMPLES_PER_BLOCK) /\ Ceiling(r, SAMPLES_PER_BLOCK) \in Nat
    BY <2>1, CeilingFacts, TrackAssumption
  <2> QED
    BY <1>5, <2>1, <2>2, <2>3
<1>7. u.start = start
  BY <1>3, <1>5, <1>6 DEF ResetStart
<1>8. Marks(x, start, m)
  BY <1>3, <1>6 DEF Marks
<1>9. OrderedMarks(u)
  BY <1>5, <1>6, <1>8, MarksFit
<1> QED
  BY <1>2, <1>3, <1>4, <1>5, <1>6, <1>7, <1>9, WholeIsGood

\* Another pre-gap that the marks of a track fit behind.
LEMMA StartSet ==
    ASSUME NEW t, GoodAudio(t), NEW s \in Nat, s < t.length \/ s = 0, Marks(t.index, s, t.length)
    PROVE  /\ GoodAudio(SetStart(t, s)) /\ SetStart(t, s) = Marked(t, s, t.index)
           /\ SetStart(t, s).length = t.length /\ SetStart(t, s).start = s /\ SetStart(t, s).index = t.index
<1>1. t \in WholeTracks /\ Good(t)
  BY DEF GoodAudio, Good
<1>2. t.length \in Nat /\ Length(t) = t.length /\ t.index \in Seq(Nat) /\ Len(t.index) <= MaxIndices
  BY <1>1, GoodFacts
<1>3. SetStart(t, s) = [t EXCEPT !.start = s]
  BY <1>2 DEF SetStart
<1>4. [t EXCEPT !.start = s] = Marked(t, s, t.index)
  BY <1>1, WholeFacts, MarkedForms
<1>5. PICK u : u = Marked(t, s, t.index)
  OBVIOUS
<1>6. u \in WholeTracks /\ u.length = t.length /\ u.start = s /\ u.index = t.index
  BY <1>1, <1>2, <1>5, OtherMarks
<1>7. u.start = ResetStart(s, u.length)
  BY <1>2, <1>6 DEF ResetStart
<1>8. OrderedMarks(u)
  BY <1>2, <1>6, <1>7, MarksFit
<1>9. GoodAudio(u)
  BY <1>2, <1>6, <1>8, WholeIsGood
<1> QED
  BY <1>3, <1>4, <1>5, <1>6, <1>9

\* A shorter pre-gap, or none.
LEMMA EarlierStart ==
    ASSUME NEW t, GoodAudio(t), NEW s \in Nat, s <= t.start
    PROVE  /\ GoodAudio(SetStart(t, s)) /\ SetStart(t, s) = Marked(t, s, t.index)
           /\ SetStart(t, s).length = t.length /\ SetStart(t, s).start = s /\ SetStart(t, s).index = t.index
<1>1. Good(t)
  BY DEF GoodAudio
<1>2. t.start \in Nat /\ t.length \in Nat /\ (t.start < t.length \/ t.start = 0) /\ Marks(t.index, t.start, t.length)
  BY <1>1, GoodFacts
<1>3. s < t.length \/ s = 0
  BY <1>2
<1>4. Marks(t.index, s, t.length)
  <2>1. t.index \in Seq(Nat) /\ RisingMarks(t.index) /\ \A i \in DOMAIN t.index : t.start + t.index[i] < t.length
    BY <1>2 DEF Marks
  <2>2. PICK x \in Seq(Nat) : x = t.index
    BY <2>1
  <2>3. \A i \in DOMAIN x : s + x[i] < t.length
    <3> TAKE i \in DOMAIN x
    <3>1. x[i] \in Nat /\ t.start + x[i] < t.length
      BY <2>1, <2>2
    <3> QED
      BY <1>2, <3>1
  <2> QED
    BY <2>1, <2>2, <2>3 DEF Marks
<1> QED
  BY <1>3, <1>4, StartSet

\* The number of blocks is the only one whose samples reach n and not one block more.
LEMMA CeilingIs ==
    ASSUME NEW n \in Nat, NEW e \in Nat, NEW d \in Nat \ {0}, e * d >= n, e * d < n + d
    PROVE  Ceiling(n, d) = e
<1>1. PICK f \in Nat : f = Ceiling(n, d) /\ \A j \in Nat : (j * d < n) <=> (j < f)
  BY CeilingFacts
<1>2. PICK ed \in Nat : ed = e * d
  OBVIOUS
<1>3. ~(e < f)
  BY <1>1, <1>2
<1>4. CASE e = 0
  BY <1>1, <1>3, <1>4
<1>5. CASE e # 0
  <2>1. PICK k \in Nat : k = e - 1
    BY <1>5
  <2>2. k * d = ed - d
    BY <1>2, <2>1
  <2>3. k * d < n
    BY <1>2, <2>2
  <2>4. k < f
    BY <1>1, <2>3
  <2> QED
    BY <1>1, <1>3, <2>1, <2>4
<1> QED
  BY <1>4, <1>5

\* Whole blocks add up.
LEMMA CeilingShifts ==
    ASSUME NEW n \in Nat, NEW k \in Nat, NEW d \in Nat \ {0}
    PROVE  Ceiling(k * d + n, d) = k + Ceiling(n, d) /\ Ceiling(k * d, d) = k
<1>1. PICK f \in Nat, fd \in Nat, kd \in Nat : f = Ceiling(n, d) /\ fd = f * d /\ kd = k * d
  BY CeilingFacts
<1>2. fd >= n /\ fd < n + d
  BY <1>1, CeilingFacts
<1>3. (k + f) * d = kd + fd
  BY <1>1
<1>4. Ceiling(kd + n, d) = k + f
  BY <1>2, <1>3, CeilingIs
<1>5. Ceiling(kd, d) = k
  BY <1>1, CeilingIs
<1> QED
  BY <1>1, <1>4, <1>5

\* A list that holds samples is not empty.
LEMMA NotEmpty ==
    ASSUME NEW list \in AudioLists, RealLength(list) # 0
    PROVE  list # <<>>
<1>1. Len(list) # 0
  BY RealFacts DEF AudioLists
<1> QED
  BY <1>1

\* The audio that moves over from the successor goes behind the last block.
LEMMA GrownBehind ==
    ASSUME NEW t, GoodAudio(t), NEW list \in AudioLists, RealLength(list) # 0, NEW u, u = AppendTrackData(t, list)
    PROVE  /\ GoodAudio(u) /\ u.length >= t.length /\ u.start = t.start /\ u.index = t.index
           /\ \A k \in Nat : RealLength(list) = k * SAMPLES_PER_BLOCK => u.length = t.length + k
<1>1. t \in WholeTracks
  BY DEF GoodAudio, Good
<1>2. list # <<>>
  BY NotEmpty
<1>3. PICK subs \in AudioLists : /\ MadeFrom(u, t, subs)
                                 /\ RealLength(subs) = t.length * SAMPLES_PER_BLOCK + RealLength(list)
  BY <1>1, <1>2, JoinsOfAudio
<1>4. RealLength(subs) >= RealLength(t.subTracks)
  <2>1. PICK r \in Nat, n \in Nat, l \in Nat : r = RealLength(t.subTracks) /\ n = t.length /\ l = RealLength(list)
    BY <1>1, WholeFacts, RealFacts DEF AudioLists
  <2>2. n * SAMPLES_PER_BLOCK >= r
    BY <1>1, <2>1, WholeFacts, CeilingFacts, TrackAssumption
  <2>3. PICK nq \in Nat : nq = n * SAMPLES_PER_BLOCK
    BY TrackAssumption
  <2> QED
    BY <1>3, <2>1, <2>2, <2>3
<1>5. /\ GoodAudio(u) /\ u.start = t.start /\ u.index = t.index /\ u.length >= t.length
      /\ u.length = Ceiling(RealLength(subs), SAMPLES_PER_BLOCK)
  BY <1>3, <1>4, GrownIsGood
<1>6. ASSUME NEW k \in Nat, RealLength(list) = k * SAMPLES_PER_BLOCK PROVE u.length = t.length + k
  <2>1. PICK q \in Nat \ {0}, n \in Nat : q = SAMPLES_PER_BLOCK /\ n = t.length
    BY <1>1, WholeFacts, TrackAssumption
  <2>2. PICK m \in Nat : m = n + k /\ m * q = n * q + k * q
    OBVIOUS
  <2>3. RealLength(subs) = m * q
    BY <1>3, <1>6, <2>1, <2>2
  <2>4. Ceiling(m * q, q) = m
    BY CeilingShifts
  <2> QED
    BY <1>5, <2>1, <2>2, <2>3, <2>4
<1> QED
  BY <1>5, <1>6

\* The audio of k blocks that moves over from the predecessor goes before the first one.
LEMMA GrownInFront ==
    ASSUME NEW t, GoodAudio(t), NEW list \in AudioLists, NEW k \in Nat \ {0},
           RealLength(list) = k * SAMPLES_PER_BLOCK, NEW u, u = PrependTrackData(t, list)
    PROVE  GoodAudio(u) /\ u.length = k + t.length /\ u.start = t.start /\ u.index = t.index
<1>1. t \in WholeTracks /\ SAMPLES_PER_BLOCK \in Nat \ {0}
  BY TrackAssumption DEF GoodAudio, Good
<1>2. PICK q \in Nat \ {0}, kq \in Nat : q = SAMPLES_PER_BLOCK /\ kq = k * q /\ kq # 0
  BY <1>1
<1>3. list # <<>>
  BY <1>2, NotEmpty
<1>4. PICK subs \in AudioLists : MadeFrom(u, t, subs) /\ RealLength(subs) = kq + RealLength(t.subTracks)
  BY <1>1, <1>2, <1>3, JoinsOfAudio
<1>5. PICK r \in Nat : r = RealLength(t.subTracks) /\ t.length = Ceiling(r, q)
  BY <1>1, <1>2, WholeFacts
<1>6. GoodAudio(u) /\ u.length = Ceiling(kq + r, q) /\ u.start = t.start /\ u.index = t.index
  BY <1>2, <1>4, <1>5, GrownIsGood
<1>7. Ceiling(k * q + r, q) = k + Ceiling(r, q)
  BY CeilingShifts
<1> QED
  BY <1>2, <1>5, <1>6, <1>7

\* The audio of the removed track goes behind that of its predecessor.
LEMMA GrownByTrack ==
    ASSUME NEW t, GoodAudio(t), NEW other, GoodAudio(other), NEW u, u = AppendWholeTrack(t, other)
    PROVE  GoodAudio(u) /\ u.length >= t.length /\ u.start = t.start /\ u.index = t.index
<1>1. t \in WholeTracks /\ other \in WholeTracks
  BY DEF GoodAudio, Good
<1>2. PICK subs \in AudioLists : /\ MadeFrom(u, t, subs)
                                 /\ RealLength(subs) = RealLength(t.subTracks) + RealLength(other.subTracks)
  BY <1>1, WholeJoined
<1>3. RealLength(t.subTracks) \in Nat /\ RealLength(other.subTracks) \in Nat
  BY <1>1, WholeFacts
<1>4. RealLength(subs) >= RealLength(t.subTracks)
  BY <1>2, <1>3
<1> QED
  BY <1>2, <1>4, GrownIsGood

\* A new track of audio has its blocks, and neither pre-gap nor marks.
LEMMA NewGood ==
    /\ GoodAudio(NewTrack("AUDIO"))
    /\ \A list \in AudioLists : \A k \in Nat \ {0} : RealLength(list) = k * SAMPLES_PER_BLOCK =>
          /\ GoodAudio(AppendTrackData(NewTrack("AUDIO"), list))
          /\ AppendTrackData(NewTrack("AUDIO"), list).length = k
          /\ AppendTrackData(NewTrack("AUDIO"), list).start = 0
<1>1. PICK t : t = NewTrack("AUDIO")
  OBVIOUS
<1>2. t \in WholeTracks /\ t.index = <<>> /\ t.start = 0 /\ t.length = 0
  BY <1>1, NewTrackIsWhole DEF NewTrack
<1>3. GoodAudio(t)
  <2>1. OrderedMarks(t)
    BY <1>2 DEF OrderedMarks
  <2>2. Len(t.index) <= MaxIndices
    BY <1>2, TrackAssumption
  <2> QED
    BY <1>2, <2>1, <2>2, WholeIsGood
<1>4. ASSUME NEW list \in AudioLists, NEW k \in Nat \ {0}, RealLength(list) = k * SAMPLES_PER_BLOCK
      PROVE  /\ GoodAudio(AppendTrackData(t, list))
             /\ AppendTrackData(t, list).length = k
             /\ AppendTrackData(t, list).start = 0
  <2>1. PICK q \in Nat \ {0}, kq \in Nat : q = SAMPLES_PER_BLOCK /\ kq = k * q /\ kq # 0
    BY TrackAssumption
  <2>2. RealLength(list) # 0 /\ list # <<>>
    BY <1>4, <2>1, NotEmpty
  <2>3. PICK u : u = AppendTrackData(t, list)
    OBVIOUS
  <2>4. GoodAudio(u) /\ u.start = 0
    BY <1>2, <1>3, <2>2, <2>3, GrownBehind
  <2>5. PICK subs \in AudioLists : MadeFrom(u, t, subs) /\ RealLength(subs) = t.length * q + RealLength(list)
    BY <1>2, <2>1, <2>2, <2>3, JoinsOfAudio
  <2>6. RealLength(subs) = kq
    BY <1>2, <1>4, <2>1, <2>5
  <2>7. Ceiling(k * q, q) = k
    BY CeilingShifts
  <2>8. u.length = k
    BY <2>1, <2>5, <2>6, <2>7 DEF MadeFrom
  <2> QED
    BY <2>3, <2>4, <2>8
<1> QED
  BY <1>1, <1>3, <1>4

\* What is left of a split track keeps its pre-gap if that is still inside it.
LEMMA KeptStart ==
    ASSUME NEW t \in WholeTracks, NEW subs \in AudioLists
    PROVE  Keeping(t, subs).start = ResetStart(t.start, Keeping(t, subs).length)
<1>1. PICK u : u = Update([t EXCEPT !.subTracks = subs])
  OBVIOUS
<1>2. MadeFrom(u, t, subs)
  BY <1>1, WholeFacts, UpdatedWith
<1>3. u \in WholeTracks
  BY <1>2, WholeFacts, MadeWhole
<1>4. Keeping(t, subs) = DropIndicesBehindEnd(u)
  BY <1>1 DEF Keeping
<1> QED
  BY <1>2, <1>3, <1>4, DropChangesMarks DEF MadeFrom

\* A good track of which a part was split off.
LEMMA KeptIsGood ==
    ASSUME NEW t, GoodAudio(t), NEW subs \in AudioLists
    PROVE  /\ GoodAudio(Keeping(t, subs))
           /\ Keeping(t, subs).start = ResetStart(t.start, Keeping(t, subs).length)
<1>1. t \in WholeTracks /\ Good(t) /\ IsTrack(t)
  BY DEF GoodAudio, Good
<1>2. Len(t.index) <= MaxIndices /\ RisingMarks(t.index) /\ Len(t.index) \in Nat
  BY <1>1, GoodFacts DEF Marks
<1>3. PICK u : u = Keeping(t, subs)
  OBVIOUS
<1>4. u \in WholeTracks /\ Len(u.index) <= Len(t.index) /\ u.start = ResetStart(t.start, u.length)
  BY <1>1, <1>3, KeptAudio, KeptStart
<1>5. Length(u) \in Nat /\ Len(u.index) \in Nat
  <2>1. u.length \in Nat /\ u.index \in Seq(Nat)
    BY <1>4, WholeFacts
  <2> QED
    BY <2>1 DEF Length
<1>6. OrderedMarks(u)
  BY <1>1, <1>2, <1>3, <1>5, KeepingOrdered
<1>7. Len(u.index) <= MaxIndices
  BY <1>2, <1>4, <1>5, TrackAssumption
<1> QED
  BY <1>3, <1>4, <1>6, <1>7, WholeIsGood

\* The split of a track behind its first k blocks.
LEMMA SplitBehind ==
    ASSUME NEW t, GoodAudio(t), NEW k \in Nat \ {0}, k < t.length,
           NEW u, u = RemoveToEnd(t, SampleOf(k)).track, NEW list, list = RemoveToEnd(t, SampleOf(k)).list
    PROVE  /\ GoodAudio(u) /\ u.length = k /\ u.start = ResetStart(t.start, k)
           /\ list \in AudioLists /\ NoPadding(list)
           /\ t.length - k \in Nat \ {0}
           /\ RealLength(list) = (t.length - k) * SAMPLES_PER_BLOCK
<1>1. t \in WholeTracks
  BY DEF GoodAudio, Good
<1>2. PICK q \in Nat \ {0}, kq \in Nat : q = SAMPLES_PER_BLOCK /\ kq = k * q
  BY TrackAssumption
<1>3. PICK n \in Nat, real \in Nat : n = t.length /\ real = RealLength(t.subTracks) /\ n = Ceiling(real, q)
  BY <1>1, <1>2, WholeFacts
<1>4. PICK total \in Nat, rest \in Nat \ {0} : total = n * q /\ rest = n - k
  BY <1>3
<1>5. kq < real
  BY <1>2, <1>3, CeilingFacts
<1>6. kq < total /\ rest * q = total - kq
  <2>1. real <= total
    BY <1>3, <1>4, CeilingFacts
  <2>2. (n - k) * q = n * q - k * q
    BY <1>3
  <2> QED
    BY <1>2, <1>4, <1>5, <2>1, <2>2
<1>7. LesserOf(kq, real) = kq /\ LesserOf(kq, total) = kq
  BY <1>5, <1>6 DEF LesserOf
<1>8. SampleOf(k) = kq
  BY <1>2 DEF SampleOf
<1>9. /\ RemoveToEnd(t, kq).track = Keeping(t, Split(t.subTracks, kq).before)
      /\ Split(t.subTracks, kq).before \in AudioLists
      /\ RemoveToEnd(t, kq).track.length = Ceiling(LesserOf(kq, real), SAMPLES_PER_BLOCK)
      /\ RemoveToEnd(t, kq).list \in AudioLists /\ NoPadding(RemoveToEnd(t, kq).list)
      /\ RealLength(RemoveToEnd(t, kq).list) = total - LesserOf(kq, total)
  <2>1. real = RealLength(t.subTracks) /\ total = t.length * SAMPLES_PER_BLOCK
    BY <1>2, <1>3, <1>4
  <2> QED
    BY ONLY <1>1, <2>1, kq \in Nat, RemovedAudio
<1>10. GoodAudio(u) /\ u.start = ResetStart(t.start, u.length)
  BY <1>8, <1>9, KeptIsGood
<1>11. u.length = k
  <2>1. Ceiling(k * q, q) = k
    BY CeilingShifts
  <2> QED
    BY <1>2, <1>7, <1>8, <1>9, <2>1
<1>12. RealLength(list) = (t.length - k) * SAMPLES_PER_BLOCK
  BY <1>2, <1>3, <1>4, <1>6, <1>7, <1>8, <1>9
<1> QED
  BY <1>3, <1>4, <1>8, <1>9, <1>10, <1>11, <1>12

\* The split of a track that leaves all but its first k blocks.
LEMMA SplitBefore ==
    ASSUME NEW t, GoodAudio(t), NEW k \in Nat \ {0}, k < t.length,
           NEW u, u = RemoveFromStart(t, SampleOf(k)).track, NEW list, list = RemoveFromStart(t, SampleOf(k)).list
    PROVE  /\ GoodAudio(u) /\ u.length = t.length - k /\ u.start = ResetStart(t.start, t.length - k)
           /\ list \in AudioLists /\ NoPadding(list)
           /\ RealLength(list) = k * SAMPLES_PER_BLOCK /\ RealLength(list) # 0
<1>1. t \in WholeTracks
  BY DEF GoodAudio, Good
<1>2. PICK q \in Nat \ {0}, kq \in Nat : q = SAMPLES_PER_BLOCK /\ kq = k * q /\ kq # 0
  BY TrackAssumption
<1>3. PICK n \in Nat, real \in Nat : n = t.length /\ real = RealLength(t.subTracks) /\ n = Ceiling(real, q)
  BY <1>1, <1>2, WholeFacts
<1>4. PICK total \in Nat, rest \in Nat \ {0} : total = n * q /\ rest = n - k
  BY <1>3
<1>5. kq < real
  BY <1>2, <1>3, CeilingFacts
<1>6. kq < total
  <2>1. real <= total
    BY <1>3, <1>4, CeilingFacts
  <2> QED
    BY <1>5, <2>1
<1>7. LesserOf(kq, real) = kq /\ LesserOf(kq, total) = kq
  BY <1>5, <1>6 DEF LesserOf
<1>8. SampleOf(k) = kq
  BY <1>2 DEF SampleOf
<1>9. /\ RemoveFromStart(t, kq).track = Keeping(t, Split(t.subTracks, kq).from)
      /\ Split(t.subTracks, kq).from \in AudioLists
      /\ RemoveFromStart(t, kq).track.length = Ceiling(real - LesserOf(kq, real), SAMPLES_PER_BLOCK)
      /\ RemoveFromStart(t, kq).list \in AudioLists /\ NoPadding(RemoveFromStart(t, kq).list)
      /\ RealLength(RemoveFromStart(t, kq).list) = LesserOf(kq, total)
  <2>1. real = RealLength(t.subTracks) /\ total = t.length * SAMPLES_PER_BLOCK
    BY <1>2, <1>3, <1>4
  <2> QED
    BY ONLY <1>1, <2>1, kq \in Nat, RemovedAudio
<1>10. GoodAudio(u) /\ u.start = ResetStart(t.start, u.length)
  BY <1>8, <1>9, KeptIsGood
<1>11. u.length = n - k
  <2>1. PICK left \in Nat : left = real - kq
    BY <1>5
  <2>2. Ceiling(k * q + left, q) = k + Ceiling(left, q) /\ Ceiling(left, q) \in Nat
    <3>1. k \in Nat
      OBVIOUS
    <3>2. Ceiling(k * q + left, q) = k + Ceiling(left, q)
      BY <3>1, CeilingShifts
    <3>3. Ceiling(left, q) \in Nat
      BY CeilingFacts
    <3> QED
      BY <3>2, <3>3
  <2>3. kq + left = real
    BY <2>1
  <2>4. n = k + Ceiling(left, q)
    BY <1>2, <1>3, <2>2, <2>3
  <2>5. u.length = Ceiling(left, q)
    BY <1>2, <1>7, <1>8, <1>9, <2>1
  <2> QED
    BY <2>2, <2>4, <2>5
<1> QED
  BY <1>2, <1>3, <1>7, <1>8, <1>9, <1>10, <1>11

\* Moving the start of a track of audio.
LEMMA StartMovedIsGood ==
    ASSUME NEW t, GoodAudio(t), NEW lba \in Nat, NEW r, r = MoveStart(t, lba)
    PROVE  /\ GoodAudio(r.track) /\ r.track.length = t.length
           /\ r.ret = 0 => r.track.start = lba /\ lba <= t.length - FourSeconds
           /\ r.ret # 0 => r.track = t
<1>1. t \in WholeTracks /\ Good(t) /\ IsTrack(t) /\ OrderedMarks(t)
  BY DEF GoodAudio, Good
<1>2. t.start \in Nat /\ t.length \in Nat /\ Length(t) = t.length /\ t.index \in Seq(Nat) /\ Len(t.index) <= MaxIndices
  BY <1>1, GoodFacts
<1>3. OrderedMarks(r.track)
  BY <1>1, MoveStartOrdered
<1>4. \/ r.ret # 0 /\ r.track = t
      \/ r.ret = 0 /\ r.track = StartMoved(t, lba) /\ lba <= t.length - FourSeconds
  BY <1>2, TrackAssumption DEF MoveStart, TooLate, Result
<1>5. CASE r.ret # 0 /\ r.track = t
  BY <1>5
<1>6. CASE r.ret = 0 /\ r.track = StartMoved(t, lba) /\ lba <= t.length - FourSeconds
  <2>1. PICK old \in Seq(Nat), n \in Nat : old = t.index /\ n = Len(old) /\ DOMAIN old = 1 .. n
    BY <1>2
  <2>2. PICK x, d : d = t.start - lba /\ x = [i \in 1 .. n |-> old[i] + d]
    OBVIOUS
  <2>3. d \in Int /\ x = Shifted(t.index, t.start - lba)
    BY <1>2, <2>1, <2>2 DEF Shifted
  <2>4. r.track = [t EXCEPT !.index = x, !.start = lba]
    BY <1>6, <2>3 DEF StartMoved
  <2>5. r.track = Marked(t, lba, x)
    <3>1. PICK m, list, len, s2, ix : t = [mode |-> m, subTracks |-> list, length |-> len, start |-> s2, index |-> ix]
      BY <1>1, WholeFacts DEF IsRecord
    <3> QED
      BY <2>4, <3>1 DEF Marked
  <2>6. r.track.index = x
    <3>1. PICK m, list, len, s2, ix : t = [mode |-> m, subTracks |-> list, length |-> len, start |-> s2, index |-> ix]
      BY <1>1, WholeFacts DEF IsRecord
    <3> QED
      BY <2>5, <3>1 DEF Marked
  <2>7. \A i \in 1 .. n : x[i] \in Nat
    <3> TAKE i \in 1 .. n
    <3>1. x[i] \in Int
      <4>1. old[i] \in Nat
        BY <2>1
      <4> QED
        BY <2>2, <2>3, <4>1
    <3>2. 0 < x[i]
      <4>1. i \in DOMAIN x
        BY <2>2
      <4> QED
        BY <1>3, <2>6, <4>1 DEF OrderedMarks
    <3> QED
      BY <3>1, <3>2
  <2>8. x \in Seq(Nat) /\ Len(x) = n
    <3>1. x = [i \in 1 .. n |-> x[i]]
      BY <2>2
    <3>2. PICK S : S = Nat
      OBVIOUS
    <3>3. x \in [1 .. n -> S]
      BY <2>7, <3>1, <3>2
    <3>4. x \in Seq(S)
      BY <3>3
    <3>5. Len(x) = n
      BY <3>1, <3>4
    <3> QED
      BY <3>2, <3>4, <3>5
  <2>9. r.track \in WholeTracks /\ r.track.length = t.length /\ r.track.start = lba
    <3>1. x \in Seq(Nat) /\ t \in WholeTracks
      BY <1>1, <2>8
    <3>2. Marked(t, lba, x) \in WholeTracks /\ Marked(t, lba, x).length = t.length /\ Marked(t, lba, x).start = lba
      BY ONLY <3>1, lba \in Nat, OtherMarks
    <3> QED
      BY <2>5, <3>2
  <2>10. Len(r.track.index) <= MaxIndices
    BY <1>2, <2>1, <2>6, <2>8
  <2> QED
    BY <1>3, <1>6, <2>9, <2>10, WholeIsGood
<1> QED
  BY <1>4, <1>5, <1>6

\* A start that was moved is where it was moved to, four seconds before the end.
LEMMA StartMovedTo ==
    ASSUME NEW t, GoodAudio(t), NEW lba \in Nat, MoveStart(t, lba).ret = 0
    PROVE  MoveStart(t, lba).track.start = lba /\ lba <= t.length - FourSeconds
<1>1. "start" \in DOMAIN t
  BY DEF GoodAudio, Good, IsTrack
<1>2. t.length \in Nat /\ Length(t) = t.length
  BY GoodFacts DEF GoodAudio
<1>3. MoveStart(t, lba).track = StartMoved(t, lba) /\ ~(lba > t.length - FourSeconds)
  BY <1>2 DEF MoveStart, TooLate, Result
<1>4. StartMoved(t, lba).start = lba
  BY <1>1 DEF StartMoved
<1> QED
  BY <1>2, <1>3, <1>4, TrackAssumption

\* Other marks in order make a good track of any mode a good one.
LEMMA OtherIndexIsGood ==
    ASSUME NEW t, Good(t), NEW x \in Seq(Nat), Len(x) <= MaxIndices, NEW u, u = [t EXCEPT !.index = x], OrderedMarks(u)
    PROVE  Good(u) /\ u.mode = t.mode /\ u.length = t.length /\ u.start = t.start
<1>1. IsTrack(t)
  BY DEF Good
<1>2. DOMAIN t = {"mode", "subTracks", "length", "start", "index"}
  BY <1>1 DEF IsTrack
<1>3. /\ DOMAIN u = DOMAIN t /\ u.index = x
      /\ u.mode = t.mode /\ u.subTracks = t.subTracks /\ u.length = t.length /\ u.start = t.start
  BY <1>2
<1>4. IsTrack(u)
  BY <1>1, <1>2, <1>3 DEF IsTrack
<1>5. t.mode = "AUDIO" => u \in WholeTracks
  <2> SUFFICES ASSUME t.mode = "AUDIO" PROVE u \in WholeTracks
    OBVIOUS
  <2>1. t \in WholeTracks
    BY DEF Good
  <2>2. u = Marked(t, t.start, x)
    BY <2>1, WholeFacts, MarkedForms
  <2>3. t.start \in Nat
    BY <2>1, WholeFacts
  <2> QED
    BY <2>1, <2>2, <2>3, OtherMarks
<1> QED
  BY <1>3, <1>4, <1>5 DEF Good

\* addIndex(), removeIndex() and moveIndex() of an increment keep a track good.
LEMMA IndexAddedIsGood ==
    ASSUME NEW t, Good(t), NEW pos \in Nat, NEW u, u = AddIndex(t, pos).track
    PROVE  Good(u) /\ u.mode = t.mode /\ u.length = t.length /\ u.start = t.start
<1>1. OrderedMarks(u)
  BY AddIndexOrdered DEF Good
<1>2. t.index \in Seq(Nat) /\ Len(t.index) \in Nat /\ Len(t.index) <= MaxIndices
  BY GoodFacts
<1>3. CASE u = t
  BY <1>3
<1>4. CASE u # t
  <2>1. PICK i : i = FirstIndexFrom(t, pos)
    OBVIOUS
  <2>2. i \in 1 .. Len(t.index) + 1
    BY <1>2, <2>1, FirstFrom
  <2>3. Len(t.index) # MaxIndices /\ u = [t EXCEPT !.index = InsertAt(@, i, pos)]
    BY <1>4, <2>1 DEF AddIndex, Result, IndicesFull
  <2>4. PICK x, S, old : x = InsertAt(t.index, i, pos) /\ S = Nat /\ old = t.index
    OBVIOUS
  <2>5. x \in Seq(S) /\ Len(x) = Len(old) + 1
    <3>1. old \in Seq(S) /\ i \in 1 .. Len(old) + 1 /\ pos \in S /\ x = InsertAt(old, i, pos)
      BY <1>2, <2>2, <2>4
    <3> QED
      BY ONLY <3>1, InsertAtProperties
  <2>6. x \in Seq(Nat) /\ Len(x) <= MaxIndices
    BY <1>2, <2>3, <2>4, <2>5, TrackAssumption
  <2>7. u = [t EXCEPT !.index = x]
    BY <2>3, <2>4
  <2> QED
    BY ONLY <1>1, <2>6, <2>7, Good(t), OtherIndexIsGood
<1> QED
  BY <1>3, <1>4

\* removeIndex() of any increment.
LEMMA IndexRemovedIsGood ==
    ASSUME NEW t, Good(t), NEW k \in Nat, NEW u, u = RemoveIndex(t, k).track
    PROVE  Good(u) /\ u.mode = t.mode /\ u.length = t.length /\ u.start = t.start
<1>1. OrderedMarks(u)
  BY RemoveIndexOrdered DEF Good
<1>2. PICK old \in Seq(Nat), n \in Nat : old = t.index /\ n = Len(old) /\ n <= MaxIndices
  BY GoodFacts
<1>3. CASE u = t
  BY <1>3
<1>4. CASE u # t
  <2>1. k + 1 \in 1 .. n /\ u = [t EXCEPT !.index = RemoveAt(@, k + 1)]
    BY <1>2, <1>4 DEF RemoveIndex, Result
  <2>2. PICK i \in 1 .. Len(old) : i = k + 1
    BY <1>2, <2>1
  <2>3. PICK x, a, b : x = a \o b /\ a = SubSeq(old, 1, i - 1) /\ b = SubSeq(old, i + 1, Len(old))
    OBVIOUS
  <2>4. u = [t EXCEPT !.index = x]
    BY <1>2, <2>1, <2>2, <2>3 DEF RemoveAt
  <2>num. old \in Seq(Nat) /\ Len(old) \in Nat /\ i \in 1 .. Len(old) /\ i \in Nat
    OBVIOUS
  <2>5. a \in Seq(Nat) /\ Len(a) = i - 1 /\ b \in Seq(Nat) /\ Len(b) = Len(old) - i
    <3>1. a \in Seq(Nat) /\ Len(a) = i - 1
      BY ONLY <2>num, <2>3
    <3>2. b \in Seq(Nat)
      BY ONLY <2>num, <2>3
    <3>3. Len(b) = Len(old) - i
      BY ONLY <2>num, <2>3
    <3> QED
      BY <3>1, <3>2, <3>3
  <2>6. x \in Seq(Nat) /\ Len(x) = Len(a) + Len(b)
    <3>1. PICK S : S = Nat
      OBVIOUS
    <3>2. a \in Seq(S) /\ b \in Seq(S)
      BY <2>5, <3>1
    <3>3. x \in Seq(S) /\ Len(x) = Len(a) + Len(b)
      BY ONLY <2>3, <3>2, ConcatProperties
    <3> QED
      BY <3>1, <3>3
  <2>7. Len(x) <= MaxIndices
    BY <1>2, <2>num, <2>5, <2>6, TrackAssumption
  <2> QED
    BY ONLY <1>1, <2>4, <2>6, <2>7, Good(t), OtherIndexIsGood
<1> QED
  BY <1>3, <1>4

\* moveIndex() of an increment, whether it moves or is refused.
LEMMA IncrementMovedIsGood ==
    ASSUME NEW t, Good(t), NEW i \in DOMAIN t.index, NEW lba \in Nat, NEW u, u = MoveIncrement(t, i, lba).track
    PROVE  Good(u) /\ u.mode = t.mode /\ u.length = t.length /\ u.start = t.start
<1>1. OrderedMarks(u)
  BY MoveIncrementOrdered DEF Good
<1>2. PICK old \in Seq(Nat), n \in Nat : old = t.index /\ n = Len(old) /\ n <= MaxIndices /\ DOMAIN old = 1 .. n
  BY GoodFacts
<1>3. CASE u = t
  BY <1>3
<1>4. CASE u # t
  <2>1. PICK pos : pos = lba - t.start
    OBVIOUS
  <2>2. lba > t.start /\ u = [t EXCEPT !.index[i] = pos]
    BY <1>4, <2>1 DEF MoveIncrement, Result
  <2>3. pos \in Nat
    BY <2>1, <2>2, GoodFacts
  <2>4. PICK x : x = [old EXCEPT ![i] = pos]
    OBVIOUS
  <2>5. x \in Seq(Nat) /\ Len(x) = n
    BY <1>2, <2>3, <2>4
  <2>6. u = [t EXCEPT !.index = x]
    BY <1>2, <2>2, <2>4
  <2>7. Len(x) <= MaxIndices
    BY <1>2, <2>5
  <2> QED
    BY ONLY <1>1, <2>5, <2>6, <2>7, Good(t), OtherIndexIsGood
<1> QED
  BY <1>3, <1>4

\* One piece more, and a list of pieces: the loops of Toc::appendTrack() and Toc::appendTrackData().
LEMMA PieceAppendedIsGood ==
    ASSUME NEW t, GoodAudio(t), NEW st \in AudioPieces
    PROVE  GoodAudio(AppendSubTrack(t, st))
<1>1. t \in WholeTracks
  BY DEF GoodAudio, Good
<1>2. PICK subs \in AudioLists : MadeFrom(AppendSubTrack(t, st), t, subs) /\ RealLength(subs) >= RealLength(t.subTracks)
  BY <1>1, AppendOfAudio
<1> QED
  BY <1>2, GrownIsGood

GoodTracks == {t \in WholeTracks : GoodAudio(t)}

\* The loop of Toc::appendTrackData() over a list of pieces.
LEMMA AllAppendedIsGood ==
    ASSUME NEW t, GoodAudio(t), NEW list \in AudioLists
    PROVE  GoodAudio(AppendAll(t, list))
<1>1. PICK S : S = GoodTracks
  OBVIOUS
<1>2. PICK n \in Nat : n = Len(list)
  BY RealFacts DEF AudioLists
<1>3. t \in S
  BY <1>1 DEF GoodTracks, GoodAudio, Good
<1>4. \A i \in 1 .. n : \A s \in S : AppendSubTrack(s, list[i]) \in S
  <2> TAKE i \in 1 .. n
  <2> TAKE s \in S
  <2>1. list[i] \in AudioPieces
    BY <1>2, ElementOfSeq DEF AudioLists
  <2>2. GoodAudio(s)
    BY <1>1 DEF GoodTracks
  <2>3. GoodAudio(AppendSubTrack(s, list[i]))
    BY <2>1, <2>2, PieceAppendedIsGood
  <2> QED
    BY <1>1, <2>3 DEF GoodTracks, GoodAudio, Good
<1>5. PICK step : step = [i \in 1 .. n |-> [s \in S |-> AppendSubTrack(s, list[i])]]
  OBVIOUS
<1>6. \A i \in 1 .. n : step[i] = [s \in S |-> AppendSubTrack(s, list[i])]
  BY <1>5
<1>7. \A i \in 1 .. n : \A s \in S : step[i][s] = AppendSubTrack(s, list[i])
  BY <1>6
<1>8. IsLoop(S, n, t, step)
  <2>1. \A i \in 1 .. n : step[i] \in [S -> S]
    BY <1>4, <1>6
  <2>2. step \in [1 .. n -> [S -> S]]
    BY <1>5, <2>1
  <2> QED
    BY <1>3, <2>2 DEF IsLoop
<1>9. PICK f : ValuesOf(f, S, n, t, step)
  BY <1>8, LoopExists
<1>10. f \in [0 .. n -> S] /\ f[0] = t /\ \A i \in 1 .. n : f[i] = step[i][f[i - 1]]
  BY <1>9 DEF ValuesOf
<1>11. \A i \in 0 .. n : f[i] = IF i = 0 THEN t ELSE AppendSubTrack(f[i - 1], list[i])
  <2> TAKE i \in 0 .. n
  <2>1. CASE i = 0
    BY <1>10, <2>1
  <2>2. CASE i # 0
    <3>1. i \in 1 .. n /\ i - 1 \in 0 .. n
      BY <2>2
    <3>2. f[i] = step[i][f[i - 1]] /\ f[i - 1] \in S
      BY <1>10, <3>1
    <3>3. f[i] = AppendSubTrack(f[i - 1], list[i])
      BY <1>7, <3>1, <3>2
    <3> QED
      BY <2>2, <3>3
  <2> QED
    BY <2>1, <2>2
<1>12. f = [i \in 0 .. n |-> IF i = 0 THEN t ELSE AppendSubTrack(f[i - 1], list[i])]
  <2>1. f = [i \in 0 .. n |-> f[i]]
    BY <1>10
  <2> QED
    BY <1>11, <2>1
<1>13. PICK g : g = [i \in 0 .. n |-> IF i = 0 THEN t ELSE AppendSubTrack(g[i - 1], list[i])] /\ AppendAll(t, list) = g[n]
  BY <1>2, <1>12 DEF AppendAll, Loop
<1>14. \A i \in 0 .. n : g[i] = IF i = 0 THEN t ELSE AppendSubTrack(g[i - 1], list[i])
  BY <1>13
<1>15. g = [i \in 0 .. n |-> g[i]] /\ g[0] = t
  <2>1. 0 \in 0 .. n
    OBVIOUS
  <2> QED
    BY <1>13, <1>14, <2>1
<1>16. ASSUME NEW i \in 1 .. n, g[i - 1] \in S PROVE g[i] = step[i][g[i - 1]]
  <2>1. i \in 0 .. n /\ i # 0
    OBVIOUS
  <2> QED
    BY <1>7, <1>14, <1>16, <2>1
<1>17. ValuesOf(g, S, n, t, step)
  BY <1>8, <1>15, <1>16, LoopTyped
<1>18. g[n] \in S
  BY <1>17 DEF ValuesOf
<1> QED
  BY <1>1, <1>13, <1>18 DEF GoodTracks

\* appendTrack() fills a short list up to four seconds.
LEMMA FilledIsAudio ==
    ASSUME NEW list \in AudioLists
    PROVE  Filled(list) \in AudioLists
<1>1. PICK missing \in Int : missing = SampleOf(FourSeconds) - TotalLength(list)
  <2>1. TotalLength(list) \in Nat
    BY RealFacts DEF AudioLists
  <2>2. SampleOf(FourSeconds) \in Nat
    BY TrackAssumption DEF SampleOf
  <2> QED
    BY <2>1, <2>2
<1>2. CASE missing > 0
  <2>1. PICK st : st = Piece("AUDIO", Silence, 0, missing)
    OBVIOUS
  <2>2. st \in AudioPieces
    BY <1>1, <1>2, <2>1, TrackAssumption DEF Piece, AudioPieces
  <2>3. Filled(list) = Append(list, st)
    BY <1>1, <1>2, <2>1 DEF Filled
  <2> QED
    BY <2>2, <2>3, AppendProperties DEF AudioLists
<1>3. CASE ~(missing > 0)
  BY <1>1, <1>3 DEF Filled
<1> QED
  BY <1>2, <1>3
-----------------------------------------------------------------------------
(* Samples that come into a track, and samples that are cut out of it.     *)

\* The increments behind the inserted samples move with their audio.
LEMMA RoomKeepsMarks ==
    ASSUME NEW t \in WholeTracks, NEW pos \in Nat, NEW blen \in Nat, NEW s \in Nat, NEW x \in Seq(Nat),
           RoomMade(t, pos, blen, s, x), Marks(t.index, t.start, t.length), NEW n \in Nat, n >= t.length + blen
    PROVE  Marks(x, s, n) /\ Len(x) = Len(t.index)
<1>1. PICK start \in Nat, old \in Seq(Nat), len \in Nat : start = t.start /\ old = t.index /\ len = t.length
  BY WholeFacts
<1>2. PICK m \in Nat : m = Len(old) /\ DOMAIN old = 1 .. m /\ \A i \in 1 .. m : old[i] \in Nat
  BY SMTT(30)
<1>3. \A i \in 1 .. m : 0 < old[i] /\ start + old[i] < len /\ (i > 1 => old[i - 1] < old[i])
  BY <1>1, <1>2 DEF Marks, RisingMarks
<1>num. n >= len + blen
  BY <1>1
<1>4. CASE s = start + blen /\ x = old
  <2>1. \A i \in 1 .. m : s + old[i] < n
    <3> TAKE i \in 1 .. m
    <3>1. old[i] \in Nat /\ start + old[i] < len
      BY <1>2, <1>3
    <3> QED
      BY <1>4, <1>num, <3>1
  <2> QED
    BY <1>1, <1>2, <1>3, <1>4, <2>1 DEF Marks, RisingMarks
<1>5. CASE /\ s = start /\ Len(x) = m
           /\ \A i \in 1 .. m : x[i] = IF Follows(t, i, pos) THEN old[i] + blen ELSE old[i]
  <2>1. \A i \in 1 .. m : x[i] \in Nat /\ x[i] >= old[i] /\ x[i] <= old[i] + blen
    BY <1>2, <1>5, SMTT(30)
  <2>2. \A i \in 1 .. m : 0 < x[i] /\ s + x[i] < n
    <3> TAKE i \in 1 .. m
    <3>1. old[i] \in Nat /\ 0 < old[i] /\ start + old[i] < len
      BY <1>2, <1>3
    <3>2. x[i] \in Nat /\ x[i] >= old[i] /\ x[i] <= old[i] + blen
      BY <2>1
    <3> QED
      BY <1>5, <1>num, <3>1, <3>2, SMTT(30)
  <2>3. ASSUME NEW i \in 1 .. m, i > 1 PROVE x[i - 1] < x[i]
    <3>1. i - 1 \in 1 .. m /\ old[i - 1] < old[i] /\ old[i - 1] \in Nat /\ old[i] \in Nat
      BY <1>2, <1>3, <2>3, SMTT(30)
    <3>2. Follows(t, i - 1, pos) => Follows(t, i, pos)
      <4>1. PICK a \in Nat, b \in Nat, q \in Nat : a = old[i - 1] /\ b = old[i] /\ q = SAMPLES_PER_BLOCK
        BY <3>1, TrackAssumption
      <4>2. a * q <= b * q
        BY <3>1, <4>1, SMTT(30)
      <4>3. PICK aq \in Nat, bq \in Nat : aq = a * q /\ bq = b * q /\ aq <= bq
        BY <4>2
      <4>4. t.index[i - 1] * SAMPLES_PER_BLOCK = aq /\ t.index[i] * SAMPLES_PER_BLOCK = bq
        BY <1>1, <4>1, <4>3
      <4>5. (Follows(t, i - 1, pos) <=> aq >= pos) /\ (Follows(t, i, pos) <=> bq >= pos)
        BY <4>4 DEF Follows
      <4>6. aq >= pos => bq >= pos
        BY <4>3
      <4> QED
        BY <4>5, <4>6
    <3>3. CASE Follows(t, i, pos)
      <4>1. x[i] = old[i] + blen
        BY <1>5, <3>3
      <4>2. x[i - 1] \in Nat /\ x[i - 1] <= old[i - 1] + blen
        BY <2>1, <3>1
      <4> QED
        BY <3>1, <4>1, <4>2, SMTT(30)
    <3>4. CASE ~Follows(t, i, pos)
      <4>1. x[i] = old[i] /\ x[i - 1] = old[i - 1]
        BY <1>5, <3>1, <3>2, <3>4
      <4> QED
        BY <3>1, <4>1
    <3> QED
      BY <3>3, <3>4
  <2>4. DOMAIN x = 1 .. m
    BY <1>5
  <2> QED
    BY <1>1, <1>2, <1>5, <2>2, <2>3, <2>4 DEF Marks, RisingMarks
<1> QED
  BY <1>1, <1>2, <1>4, <1>5 DEF RoomMade

\* insertTrackData() keeps a track good.
LEMMA InsertedIsGood ==
    ASSUME NEW t, GoodAudio(t), NEW pos \in Nat, NEW list \in AudioLists, NoPadding(list)
    PROVE  GoodAudio(InsertTrackData(t, pos, list))
<1>1. t \in WholeTracks /\ Good(t)
  BY DEF GoodAudio, Good
<1>2. CASE TotalLength(list) = 0
  BY <1>2 DEF InsertTrackData
<1>3. CASE TotalLength(list) # 0
  <2>1. PICK u : u = InsertTrackData(t, pos, list)
    OBVIOUS
  <2>2. PICK blen \in Nat : Inserted(u, t, pos, blen)
    <3>1. t \in WholeTracks
      BY <1>1
    <3> QED
      BY <1>3, <2>1, <3>1, InsertTrack
  <2>3. /\ u \in WholeTracks /\ u.length >= t.length + blen
        /\ \E s \in Nat, x \in Seq(Nat) : /\ RoomMade(t, pos, blen, s, x)
                                          /\ u.start = ResetStart(s, u.length) /\ u.index = x
    BY <2>2 DEF Inserted
  <2>8. PICK s \in Nat, x \in Seq(Nat) : RoomMade(t, pos, blen, s, x) /\ u.start = ResetStart(s, u.length) /\ u.index = x
    BY <2>3
  <2>4. PICK n \in Nat : n = u.length
    BY <2>3, WholeFacts
  <2>5. Marks(x, s, n) /\ Len(x) = Len(t.index)
    <3>1. Marks(t.index, t.start, t.length)
      BY <1>1, GoodFacts
    <3> QED
      BY <1>1, <2>3, <2>8, <2>4, <3>1, RoomKeepsMarks
  <2>6. OrderedMarks(u)
    BY <2>8, <2>4, <2>5, MarksFit
  <2>7. Len(u.index) <= MaxIndices
    BY <1>1, <2>8, <2>5, GoodFacts
  <2> QED
    BY <2>1, <2>3, <2>6, <2>7, WholeIsGood
<1> QED
  BY <1>2, <1>3

\* Increasing positive increments are rising marks.
LEMMA RisingFromIncreasing ==
    ASSUME NEW x \in Seq(Nat), Increasing(x), \A j \in 1 .. Len(x) : 0 < x[j]
    PROVE  RisingMarks(x)
<1>1. DOMAIN x = 1 .. Len(x)
  OBVIOUS
<1> QED
  BY <1>1 DEF Increasing, RisingMarks

\* What a cut of first..last makes of the marks of t, and of its length.
MarksNear(t, u, first, last) ==
    /\ \A j \in DOMAIN u.index :
          \E k \in DOMAIN t.index : \E e \in 0 .. 2 * SAMPLES_PER_BLOCK - 1 :
             /\ (u.start + u.index[j]) * SAMPLES_PER_BLOCK
                    = GoneTo((t.start + t.index[k]) * SAMPLES_PER_BLOCK, first, last) - e
             /\ t.index[k] \in Nat /\ u.index[j] \in Nat
    /\ last < t.length * SAMPLES_PER_BLOCK =>
          \E e \in 1 - SAMPLES_PER_BLOCK .. SAMPLES_PER_BLOCK - 1 :
             (t.length - u.length) * SAMPLES_PER_BLOCK = (last - first + 1) + e

\* removeTrackData() keeps a track good, and its marks near where they were.
LEMMA CutIsGood ==
    ASSUME NEW t, GoodAudio(t), NEW first \in Nat, NEW last \in Nat, first <= last
    PROVE  /\ GoodAudio(RemoveTrackData(t, first, last).track)
           /\ RemoveTrackData(t, first, last).list \in AudioLists
           /\ NoPadding(RemoveTrackData(t, first, last).list)
           /\ MarksNear(t, RemoveTrackData(t, first, last).track, first, last)
<1>1. t \in WholeTracks /\ Good(t)
  BY DEF GoodAudio, Good
<1>2. PICK start \in Nat, old \in Seq(Nat), len \in Nat :
        /\ start = t.start /\ old = t.index /\ len = t.length
        /\ Marks(old, start, len) /\ Len(old) <= MaxIndices
  BY <1>1, GoodFacts
<1>3. PICK m \in Nat : m = Len(old) /\ DOMAIN old = 1 .. m /\ \A i \in 1 .. m : old[i] \in Nat
  OBVIOUS
<1>4. \A i \in 1 .. m : 0 < old[i] /\ start + old[i] < len /\ (i > 1 => old[i - 1] < old[i])
  BY <1>2, <1>3 DEF Marks, RisingMarks
<1>5. \A j, k \in 1 .. Len(t.index) : j < k => t.index[j] < t.index[k]
  <2>1. \A j, k \in DOMAIN old : j < k => old[j] < old[k]
    BY <1>3, <1>4, LaterMarks
  <2> QED
    BY <1>2, <1>3, <2>1
<1>6. PICK c, u : c = CutAdjustment(t, first, last) /\ u = RemoveTrackData(t, first, last).track
  OBVIOUS
<1>7. /\ u \in WholeTracks
      /\ AdjustedUpTo(c, t.index, Len(t.index), u.index)
      /\ t.start - c.preGapAdj \in Nat
      /\ u.start = ResetStart(t.start - c.preGapAdj, u.length)
      /\ u.length = Ceiling(RealLength(CutAway(t.subTracks, first, last)), SAMPLES_PER_BLOCK)
      /\ RemoveTrackData(t, first, last).list \in AudioLists
      /\ NoPadding(RemoveTrackData(t, first, last).list)
  BY <1>1, <1>5, <1>6, CutTrack
<1>8. PICK q \in Nat \ {0}, real \in Nat : q = SAMPLES_PER_BLOCK /\ real = RealLength(t.subTracks) /\ len = Ceiling(real, q)
  BY <1>1, <1>2, WholeFacts, TrackAssumption
<1>9. PICK left : left = LesserOf(first, real) + (real - LesserOf(last + 1, real))
  OBVIOUS
<1>10. left \in Nat /\ u.length = Ceiling(left, q)
  <2>1. PICK away : away = CutAway(t.subTracks, first, last)
    OBVIOUS
  <2>2. away \in AudioLists /\ RealLength(away) = left
    BY <1>1, <1>8, <1>9, <2>1, WholeFacts, CutAwayFacts
  <2>3. left \in Nat
    BY <2>2, RealFacts DEF AudioLists
  <2> QED
    BY <1>7, <1>8, <2>1, <2>2, <2>3
<1>11. CutOf(c, q, start, first, last, real, left)
  BY <1>1, <1>2, <1>6, <1>8, <1>9, CutOfTrack
<1>12. PICK s \in Nat, x \in Seq(Nat), n \in Nat :
         /\ s = start - c.preGapAdj /\ x = u.index /\ n = u.length /\ n = Ceiling(left, q)
         /\ AdjustedUpTo(c, old, m, x) /\ u.start = ResetStart(s, n)
  BY <1>2, <1>3, <1>7, <1>10, WholeFacts
<1>13. /\ Len(x) <= m /\ Increasing(x)
       /\ \A j \in 1 .. Len(x) : /\ 0 < x[j]
                                 /\ \E k \in 1 .. m : Survives(c, old[k]) /\ x[j] = NewIndex(c, old[k])
  BY <1>12 DEF AdjustedUpTo
<1>14. ASSUME NEW j \in 1 .. Len(x) PROVE s + x[j] < n
  <2>1. PICK k \in 1 .. m : Survives(c, old[k]) /\ x[j] = NewIndex(c, old[k])
    BY <1>13
  <2>2. PICK p \in Nat : p = old[k] /\ p > 0 /\ start + p < len
    BY <1>3, <1>4
  <2>3. (start + p) * q < real
    <3>1. PICK b \in Nat : b = start + p
      OBVIOUS
    <3>2. b * q < real
      BY <1>8, <2>2, <3>1, CeilingFacts
    <3> QED
      BY <3>1, <3>2
  <2>4. (start - c.preGapAdj + NewIndex(c, p)) * q < left
    BY <1>11, <2>1, <2>2, <2>3 DEF CutOf
  <2>5. PICK b \in Nat : b = s + x[j] /\ b = start - c.preGapAdj + NewIndex(c, p)
    <3>1. x[j] \in Nat
      OBVIOUS
    <3>2. s + x[j] \in Nat
      BY <3>1
    <3>3. start - c.preGapAdj = s /\ NewIndex(c, p) = x[j]
      BY <1>12, <2>1, <2>2
    <3> QED
      BY <3>2, <3>3
  <2>6. b * q < left
    BY <2>4, <2>5
  <2>7. b < n
    BY <1>10, <1>12, <2>6, CeilingFacts
  <2> QED
    BY <2>5, <2>7
<1>15. Marks(x, s, n)
  <2>1. RisingMarks(x)
    BY <1>13, RisingFromIncreasing
  <2>2. DOMAIN x = 1 .. Len(x)
    OBVIOUS
  <2> QED
    BY <1>14, <2>1, <2>2 DEF Marks
<1>16. OrderedMarks(u)
  BY <1>12, <1>15, MarksFit
<1>17. Len(u.index) <= MaxIndices
  BY <1>2, <1>3, <1>12, <1>13, TrackAssumption
<1>18. GoodAudio(u)
  BY <1>7, <1>16, <1>17, WholeIsGood
<1>19. ASSUME NEW j \in DOMAIN u.index
       PROVE  \E k \in DOMAIN t.index : \E e \in 0 .. 2 * q - 1 :
                 /\ (u.start + u.index[j]) * q = GoneTo((start + t.index[k]) * q, first, last) - e
                 /\ t.index[k] \in Nat /\ u.index[j] \in Nat
  <2>1. j \in 1 .. Len(x) /\ x[j] \in Nat
    BY <1>12, <1>19, SMTT(30)
  <2>2. PICK k \in 1 .. m : Survives(c, old[k]) /\ x[j] = NewIndex(c, old[k])
    BY <1>13, <2>1
  <2>3. PICK p \in Nat : p = old[k] /\ p > 0
    BY <1>3, <1>4
  <2>4. PICK e \in 0 .. 2 * q - 1 : (start - c.preGapAdj + NewIndex(c, p)) * q = GoneTo((start + p) * q, first, last) - e
    BY <1>11, <2>2, <2>3 DEF CutOf
  <2>5. u.start = s
    <3>1. s + x[j] < n
      BY <1>14, <2>1
    <3>2. s < n
      BY <2>1, <3>1
    <3> QED
      BY <1>12, <3>2 DEF ResetStart
  <2>6. u.start + u.index[j] = start - c.preGapAdj + NewIndex(c, p)
    BY <1>12, <2>2, <2>3, <2>5
  <2> QED
    BY <1>2, <1>3, <1>12, <2>1, <2>2, <2>3, <2>4, <2>6
<1>20. ASSUME last < t.length * q
       PROVE  \E e \in 1 - q .. q - 1 : (t.length - u.length) * q = (last - first + 1) + e
  <2>1. PICK lq \in Nat, nq \in Nat : lq = len * q /\ nq = n * q
    OBVIOUS
  <2>2. lq >= real /\ lq < real + q
    BY <1>8, <2>1, CeilingFacts
  <2>3. nq >= left /\ nq < left + q
    BY <1>8, <1>10, <1>12, <2>1, CeilingFacts
  <2>4. last < lq
    BY <1>2, <1>20, <2>1
  <2>5. (t.length - u.length) * q = lq - nq
    <3>1. (len - n) * q = len * q - n * q
      OBVIOUS
    <3> QED
      BY <1>2, <1>12, <2>1, <3>1
  <2>6. PICK e \in Int : e = (lq - nq) - (last - first + 1)
    BY <2>1
  <2>7. -q < e /\ e < q
    <3>1. CASE last + 1 <= real
      <4>1. left = first + (real - (last + 1))
        BY <1>9, <3>1 DEF LesserOf
      <4> QED
        BY <1>10, <2>1, <2>2, <2>3, <2>6, <4>1
    <3>2. CASE ~(last + 1 <= real) /\ first < real
      <4>1. left = first
        BY <1>8, <1>9, <3>2 DEF LesserOf
      <4> QED
        BY <1>10, <2>1, <2>2, <2>3, <2>4, <2>6, <3>2, <4>1
    <3>3. CASE ~(last + 1 <= real) /\ ~(first < real)
      <4>1. left = real
        BY <1>8, <1>9, <3>3 DEF LesserOf
      <4> QED
        BY <1>10, <2>1, <2>2, <2>3, <2>4, <2>6, <3>3, <4>1
    <3> QED
      BY <3>1, <3>2, <3>3
  <2>8. e \in 1 - q .. q - 1
    BY <2>7
  <2>9. lq - nq = (last - first + 1) + e
    BY <2>1, <2>6
  <2> QED
    BY <2>5, <2>8, <2>9
<1>21. MarksNear(t, u, first, last)
  BY <1>2, <1>8, <1>19, <1>20 DEF MarksNear
<1> QED
  BY <1>6, <1>7, <1>18, <1>21
-----------------------------------------------------------------------------
(* Positions on the disc.                                                  *)

\* Toc::update() has added up lengths of tracks.
LEMMA EndsExist ==
    ASSUME NEW T, NEW N \in Nat
    PROVE  \E g : g = [k \in 0 .. N |-> IF k = 0 THEN 0 ELSE g[k - 1] + Length(T[k])]
<1>1. SUFFICES ASSUME ~(\E g : g = [k \in 0 .. N |-> IF k = 0 THEN 0 ELSE g[k - 1] + Length(T[k])]) PROVE FALSE
  OBVIOUS
<1>2. PICK bad : bad = {n \in Nat : ~(\E g : g = [k \in 0 .. n |-> IF k = 0 THEN 0 ELSE g[k - 1] + Length(T[k])])}
  OBVIOUS
<1>3. PICK n \in bad : \A m \in bad : n <= m
  <2>1. bad \subseteq Nat /\ N \in bad
    BY <1>1, <1>2
  <2> QED
    BY <2>1, LeastNatural
<1>4. n \in Nat /\ ~(\E g : g = [k \in 0 .. n |-> IF k = 0 THEN 0 ELSE g[k - 1] + Length(T[k])])
  BY <1>2, <1>3
<1>5. n # 0
  <2> SUFFICES ASSUME n = 0 PROVE FALSE
    OBVIOUS
  <2>1. PICK g : g = [k \in 0 .. 0 |-> 0]
    OBVIOUS
  <2>2. g = [k \in 0 .. n |-> IF k = 0 THEN 0 ELSE g[k - 1] + Length(T[k])]
    BY <2>1
  <2> QED
    BY <1>4, <2>2
<1>6. PICK g : g = [k \in 0 .. n - 1 |-> IF k = 0 THEN 0 ELSE g[k - 1] + Length(T[k])]
  <2>1. n - 1 \in Nat /\ ~(n <= n - 1)
    BY <1>4, <1>5
  <2> QED
    BY <1>2, <1>3, <2>1
<1>7. PICK h : h = [k \in 0 .. n |-> IF k = n THEN g[n - 1] + Length(T[n]) ELSE g[k]]
  OBVIOUS
<1>8. \A k \in 0 .. n : h[k] = IF k = 0 THEN 0 ELSE h[k - 1] + Length(T[k])
  <2> TAKE k \in 0 .. n
  <2>1. CASE k = 0
    BY <1>4, <1>5, <1>6, <1>7, <2>1
  <2>2. CASE k # 0
    <3>1. k - 1 \in 0 .. n - 1 /\ k - 1 \in 0 .. n /\ k - 1 # n
      BY <1>4, <2>2
    <3>2. h[k - 1] = g[k - 1]
      BY <1>7, <3>1
    <3>3. CASE k = n
      BY <1>7, <2>2, <3>2, <3>3
    <3>4. CASE k # n
      <4>1. k \in 0 .. n - 1
        BY <1>4, <3>4
      <4>2. h[k] = g[k]
        BY <1>7, <3>4
      <4>3. g[k] = g[k - 1] + Length(T[k])
        BY <1>6, <2>2, <4>1
      <4> QED
        BY <2>2, <3>2, <4>2, <4>3
    <3> QED
      BY <3>3, <3>4
  <2> QED
    BY <2>1, <2>2
<1>9. h = [k \in 0 .. n |-> IF k = 0 THEN 0 ELSE h[k - 1] + Length(T[k])]
  <2>1. h = [k \in 0 .. n |-> h[k]]
    BY <1>7
  <2> QED
    BY <1>8, <2>1
<1> QED
  BY <1>4, <1>9

Ends(T) == CHOOSE g : g = [k \in 0 .. Len(T) |-> IF k = 0 THEN 0 ELSE g[k - 1] + Length(T[k])]

\* The start of a track on the disc is a natural number.
LEMMA AbsStartNat ==
    ASSUME NEW T, Len(T) \in Nat, \A k \in 1 .. Len(T) : Length(T[k]) \in Nat, NEW nr \in 1 .. Len(T) + 1
    PROVE  AbsStart(T, nr) \in Nat
<1>1. AbsStart(T, nr) = Ends(T)[nr - 1]
  BY DEF AbsStart, Ends
<1>2. Ends(T) = [k \in 0 .. Len(T) |-> IF k = 0 THEN 0 ELSE Ends(T)[k - 1] + Length(T[k])]
  BY EndsExist DEF Ends
<1>3. PICK g : g = Ends(T)
  OBVIOUS
<1>4. \A k \in 0 .. Len(T) : g[k] = IF k = 0 THEN 0 ELSE g[k - 1] + Length(T[k])
  BY <1>2, <1>3
<1>5. PICK bad : bad = {k \in 0 .. Len(T) : g[k] \notin Nat}
  OBVIOUS
<1>6. bad = {}
  <2> SUFFICES ASSUME bad # {} PROVE FALSE
    OBVIOUS
  <2>1. PICK n \in bad : \A m \in bad : n <= m
    <3>1. bad \subseteq Nat
      BY <1>5
    <3> QED
      BY <3>1, LeastNatural
  <2>2. n \in 0 .. Len(T) /\ g[n] \notin Nat /\ n # 0
    BY <1>4, <1>5, <2>1
  <2>3. n - 1 \in 0 .. Len(T) /\ ~(n <= n - 1) /\ n \in 1 .. Len(T)
    BY <2>2
  <2>4. g[n - 1] \in Nat
    BY <1>5, <2>1, <2>3
  <2> QED
    BY <1>4, <2>2, <2>3, <2>4
<1> QED
  BY <1>1, <1>3, <1>5, <1>6

\* The next track starts where a track ends, and the first one at the start of the disc.
LEMMA AbsStartStep ==
    ASSUME NEW T, Len(T) \in Nat, \A k \in 1 .. Len(T) : Length(T[k]) \in Nat
    PROVE  /\ AbsStart(T, 1) = 0
           /\ \A nr \in 1 .. Len(T) : AbsStart(T, nr + 1) = AbsStart(T, nr) + Length(T[nr])
<1>1. PICK g : g = Ends(T)
  OBVIOUS
<1>2. Ends(T) = [k \in 0 .. Len(T) |-> IF k = 0 THEN 0 ELSE Ends(T)[k - 1] + Length(T[k])]
  BY EndsExist DEF Ends
<1>3. \A k \in 0 .. Len(T) : g[k] = IF k = 0 THEN 0 ELSE g[k - 1] + Length(T[k])
  BY <1>1, <1>2
<1>4. \A nr : AbsStart(T, nr) = g[nr - 1]
  BY <1>1 DEF AbsStart, Ends
<1>5. AbsStart(T, 1) = 0
  <2>1. g[0] = 0 /\ 1 - 1 = 0
    BY <1>3
  <2> QED
    BY <1>4, <2>1
<1>6. ASSUME NEW nr \in 1 .. Len(T) PROVE AbsStart(T, nr + 1) = AbsStart(T, nr) + Length(T[nr])
  <2>1. g[nr] = g[nr - 1] + Length(T[nr]) /\ (nr + 1) - 1 = nr
    BY <1>3
  <2> QED
    BY <1>4, <2>1
<1> QED
  BY <1>5, <1>6

\* A disc of good tracks, each of at least d blocks behind its pre-gap.
Fine(t, d) == Good(t) /\ t.start + d <= t.length
Disc(T, d) ==
    /\ Len(T) \in Nat /\ T = [i \in 1 .. Len(T) |-> T[i]]
    /\ \A i \in 1 .. Len(T) : Fine(T[i], d)

\* Where the tracks of such a disc are.
LEMMA DiscPositions ==
    ASSUME NEW T, NEW d, Disc(T, d), NEW nr \in 1 .. Len(T)
    PROVE  /\ Len(T) \in Nat /\ DOMAIN T = 1 .. Len(T)
           /\ Fine(T[nr], d) /\ Good(T[nr]) /\ T[nr].start \in Nat /\ T[nr].length \in Nat /\ Length(T[nr]) = T[nr].length
           /\ AbsStart(T, nr) \in Nat
           /\ StartOf(T, nr) = AbsStart(T, nr) + T[nr].start
           /\ EndOf(T, nr) = AbsStart(T, nr) + T[nr].length
           /\ nr = 1 => AbsStart(T, nr) = 0
           /\ nr > 1 => /\ nr - 1 \in 1 .. Len(T) /\ AbsStart(T, nr - 1) \in Nat
                        /\ AbsStart(T, nr) = AbsStart(T, nr - 1) + T[nr - 1].length
                        /\ AbsStart(T, nr) = EndOf(T, nr - 1)
<1>1. Len(T) \in Nat /\ T = [i \in 1 .. Len(T) |-> T[i]] /\ \A i \in 1 .. Len(T) : Fine(T[i], d) /\ Good(T[i])
  BY DEF Disc, Fine
<1>2. \A i \in 1 .. Len(T) : T[i].start \in Nat /\ T[i].length \in Nat /\ Length(T[i]) = T[i].length
  BY <1>1, GoodFacts
<1>3. DOMAIN T = 1 .. Len(T)
  BY <1>1
<1>4. \A i \in 1 .. Len(T) : AbsStart(T, i) \in Nat
  <2> TAKE i \in 1 .. Len(T)
  <2>1. i \in 1 .. Len(T) + 1 /\ \A k \in 1 .. Len(T) : Length(T[k]) \in Nat
    BY <1>1, <1>2
  <2> QED
    BY <1>1, <2>1, AbsStartNat
<1>5. /\ AbsStart(T, 1) = 0
      /\ \A i \in 1 .. Len(T) : AbsStart(T, i + 1) = AbsStart(T, i) + Length(T[i])
  <2>1. \A k \in 1 .. Len(T) : Length(T[k]) \in Nat
    BY <1>2
  <2> QED
    BY <1>1, <2>1, AbsStartStep
<1>6. ASSUME nr > 1
      PROVE  /\ nr - 1 \in 1 .. Len(T) /\ AbsStart(T, nr - 1) \in Nat
             /\ AbsStart(T, nr) = AbsStart(T, nr - 1) + T[nr - 1].length
             /\ AbsStart(T, nr) = EndOf(T, nr - 1)
  <2>1. PICK p \in 1 .. Len(T) : p = nr - 1 /\ p + 1 = nr
    BY <1>1, <1>6
  <2>2. AbsStart(T, nr) = AbsStart(T, p) + Length(T[p])
    BY <1>5, <2>1
  <2> QED
    BY <1>2, <1>4, <2>1, <2>2 DEF EndOf
<1> QED
  BY <1>1, <1>2, <1>3, <1>4, <1>5, <1>6 DEF StartOf, EndOf

\* A track stays where it is if those before it keep their lengths.
LEMMA StartKept ==
    ASSUME NEW T, NEW d, Disc(T, d), NEW U, Disc(U, d), Len(U) = Len(T), NEW nr \in 1 .. Len(T),
           \A k \in 1 .. nr - 1 : U[k].length = T[k].length
    PROVE  AbsStart(U, nr) = AbsStart(T, nr)
<1>1. PICK bad : bad = {k \in 1 .. nr : AbsStart(U, k) # AbsStart(T, k)}
  OBVIOUS
<1>2. bad = {}
  <2> SUFFICES ASSUME bad # {} PROVE FALSE
    OBVIOUS
  <2>1. PICK n \in bad : \A m \in bad : n <= m
    <3>1. bad \subseteq Nat
      BY <1>1
    <3> QED
      BY <3>1, LeastNatural
  <2>2. n \in 1 .. nr /\ n \in 1 .. Len(T) /\ n \in 1 .. Len(U) /\ AbsStart(U, n) # AbsStart(T, n)
    BY <1>1, <2>1 DEF Disc
  <2>3. CASE n = 1
    BY <2>2, <2>3, DiscPositions
  <2>4. CASE n # 1
    <3>1. PICK m \in 1 .. nr - 1 : m = n - 1 /\ ~(n <= m) /\ m \in 1 .. nr
      BY <2>2, <2>4
    <3>2. AbsStart(U, m) = AbsStart(T, m)
      BY <1>1, <2>1, <3>1
    <3>3. AbsStart(T, n) = AbsStart(T, m) + T[m].length /\ AbsStart(U, n) = AbsStart(U, m) + U[m].length
      BY <2>2, <2>4, <3>1, DiscPositions
    <3> QED
      BY <2>2, <3>1, <3>2, <3>3
  <2> QED
    BY <2>3, <2>4
<1> QED
  BY <1>1, <1>2

\* Where a track is whose predecessor changes.
LEMMA StartAfter ==
    ASSUME NEW T, NEW d, Disc(T, d), NEW nr \in 1 .. Len(T), nr > 1, NEW U, Disc(U, d), Len(U) = Len(T),
           \A k \in 1 .. Len(T) : k \notin {nr - 1, nr} => U[k] = T[k]
    PROVE  AbsStart(U, nr) = AbsStart(T, nr - 1) + U[nr - 1].length
<1>1. PICK b \in 1 .. Len(T) : b = nr - 1
  BY DEF Disc
<1>2. \A k \in 1 .. b - 1 : U[k].length = T[k].length
  BY <1>1
<1>3. AbsStart(U, b) = AbsStart(T, b)
  BY <1>2, StartKept
<1>4. AbsStart(U, nr) = AbsStart(U, nr - 1) + U[nr - 1].length
  <2>1. nr \in 1 .. Len(U)
    OBVIOUS
  <2> QED
    BY ONLY <2>1, Disc(U, d), nr > 1, DiscPositions
<1> QED
  BY <1>1, <1>3, <1>4

\* Where all tracks are if one of them changes its length.
LEMMA StartsShift ==
    ASSUME NEW T, NEW d, Disc(T, d), NEW U, Disc(U, d), Len(U) = Len(T), NEW nr \in 1 .. Len(T),
           \A k \in 1 .. Len(T) : k # nr => U[k].length = T[k].length, NEW k \in 1 .. Len(T)
    PROVE  AbsStart(U, k) = IF k <= nr THEN AbsStart(T, k) ELSE AbsStart(T, k) + (U[nr].length - T[nr].length)
<1>1. PICK by \in Int : by = U[nr].length - T[nr].length
  <2>1. nr \in 1 .. Len(U) /\ T[nr].length \in Nat
    BY DiscPositions
  <2>2. U[nr].length \in Nat
    BY ONLY Disc(U, d), <2>1, DiscPositions
  <2> QED
    BY <2>1, <2>2
<1>2. PICK bad : bad = {i \in 1 .. Len(T) : AbsStart(U, i) # IF i <= nr THEN AbsStart(T, i) ELSE AbsStart(T, i) + by}
  OBVIOUS
<1>3. bad = {}
  <2> SUFFICES ASSUME bad # {} PROVE FALSE
    OBVIOUS
  <2>1. PICK n \in bad : \A m \in bad : n <= m
    <3>1. bad \subseteq Nat
      BY <1>2
    <3> QED
      BY <3>1, LeastNatural
  <2>2. n \in 1 .. Len(T) /\ n \in 1 .. Len(U) /\ AbsStart(U, n) # IF n <= nr THEN AbsStart(T, n) ELSE AbsStart(T, n) + by
    BY <1>2, <2>1
  <2>3. /\ n = 1 => AbsStart(T, n) = 0
        /\ n > 1 => AbsStart(T, n) = AbsStart(T, n - 1) + T[n - 1].length /\ AbsStart(T, n - 1) \in Nat
    BY <2>2, DiscPositions
  <2>4. /\ n = 1 => AbsStart(U, n) = 0
        /\ n > 1 => AbsStart(U, n) = AbsStart(U, n - 1) + U[n - 1].length
    BY ONLY <2>2, Disc(U, d), DiscPositions
  <2>5. CASE n = 1
    BY <2>2, <2>3, <2>4, <2>5
  <2>6. CASE n # 1
    <3>1. PICK i \in 1 .. Len(T) : i = n - 1 /\ ~(n <= i) /\ n > 1
      BY <2>2, <2>6
    <3>2. AbsStart(U, i) = IF i <= nr THEN AbsStart(T, i) ELSE AbsStart(T, i) + by
      BY <1>2, <2>1, <3>1
    <3>3. T[i].length \in Nat /\ U[i].length = (IF i = nr THEN T[i].length + by ELSE T[i].length)
      <4>1. T[i].length \in Nat
        BY DiscPositions
      <4>2. i \in 1 .. Len(U)
        OBVIOUS
      <4>3. U[i].length \in Nat
        BY ONLY <4>2, Disc(U, d), DiscPositions
      <4> QED
        BY <1>1, <4>1, <4>3
    <3> QED
      BY <2>2, <2>3, <2>4, <3>1, <3>2, <3>3, SMTT(30)
  <2> QED
    BY <2>5, <2>6
<1> QED
  BY <1>1, <1>2, <1>3

\* A track ends before the later ones start.
LEMMA TracksFollow ==
    ASSUME NEW T, NEW d, Disc(T, d), NEW a \in 1 .. Len(T), NEW b \in 1 .. Len(T), a < b
    PROVE  EndOf(T, a) \in Nat /\ EndOf(T, a) <= AbsStart(T, b)
<1>1. PICK end \in Nat : end = EndOf(T, a)
  BY DiscPositions
<1>2. PICK bad : bad = {i \in a + 1 .. Len(T) : ~(end <= AbsStart(T, i))}
  OBVIOUS
<1>3. bad = {}
  <2> SUFFICES ASSUME bad # {} PROVE FALSE
    OBVIOUS
  <2>1. PICK n \in bad : \A m \in bad : n <= m
    <3>1. bad \subseteq Nat
      BY <1>2
    <3> QED
      BY <3>1, LeastNatural
  <2>2. n \in 1 .. Len(T) /\ n > a /\ n > 1 /\ ~(end <= AbsStart(T, n))
    BY <1>2, <2>1
  <2>3. /\ AbsStart(T, n - 1) \in Nat /\ AbsStart(T, n) = AbsStart(T, n - 1) + T[n - 1].length
        /\ AbsStart(T, n) = EndOf(T, n - 1)
    BY <2>2, DiscPositions
  <2>4. PICK i \in 1 .. Len(T) : i = n - 1 /\ ~(n <= i) /\ i >= a
    BY <2>2
  <2>5. T[i].length \in Nat
    BY DiscPositions
  <2>6. CASE i = a
    BY <1>1, <2>2, <2>3, <2>4, <2>6
  <2>7. CASE i # a
    <3>1. end <= AbsStart(T, i)
      BY <1>2, <2>1, <2>4, <2>7
    <3> QED
      BY <2>2, <2>3, <2>4, <2>5, <3>1
  <2> QED
    BY <2>6, <2>7
<1>4. b \in a + 1 .. Len(T)
  OBVIOUS
<1> QED
  BY <1>1, <1>2, <1>3, <1>4

\* The samples of a track are those from its start on the disc on.
LEMMA FoundTrack ==
    ASSUME NEW T, NEW d, Disc(T, d), NEW sample \in Nat, NEW nr, nr \in FindTrack(T, sample)
    PROVE  /\ nr \in 1 .. Len(T)
           /\ SampleOf(AbsStart(T, nr)) \in Nat
           /\ sample >= SampleOf(AbsStart(T, nr)) /\ sample < SampleOf(EndOf(T, nr))
<1>1. DOMAIN T = 1 .. Len(T)
  BY DEF Disc
<1>2. nr \in 1 .. Len(T) /\ sample < SampleOf(EndOf(T, nr)) /\ \A k \in 1 .. nr - 1 : sample >= SampleOf(EndOf(T, k))
  BY <1>1 DEF FindTrack
<1>3. AbsStart(T, nr) \in Nat
  BY <1>2, DiscPositions
<1>4. SampleOf(AbsStart(T, nr)) \in Nat
  BY <1>3, TrackAssumption DEF SampleOf
<1>5. CASE nr = 1
  <2>1. AbsStart(T, nr) = 0
    BY <1>2, <1>5, DiscPositions
  <2>2. SampleOf(AbsStart(T, nr)) = 0
    BY <2>1, TrackAssumption DEF SampleOf
  <2> QED
    BY <1>2, <2>2
<1>6. CASE nr # 1
  <2>1. nr > 1 /\ nr - 1 \in 1 .. nr - 1
    BY <1>2, <1>6
  <2>2. AbsStart(T, nr) = EndOf(T, nr - 1)
    BY <1>2, <2>1, DiscPositions
  <2> QED
    BY <1>2, <1>4, <2>1, <2>2
<1> QED
  BY <1>2, <1>4, <1>5, <1>6

\* A block is in the track that has its first sample.
LEMMA FoundBlock ==
    ASSUME NEW T, NEW d, Disc(T, d), NEW lba \in Nat, NEW nr, nr \in FindTrack(T, SampleOf(lba))
    PROVE  nr \in 1 .. Len(T) /\ lba >= AbsStart(T, nr) /\ lba < EndOf(T, nr)
<1>1. PICK q \in Nat \ {0}, s \in Nat : q = SAMPLES_PER_BLOCK /\ s = SampleOf(lba) /\ s = lba * q
  BY TrackAssumption DEF SampleOf
<1>0. s \in Nat /\ nr \in FindTrack(T, s)
  BY <1>1
<1>2. nr \in 1 .. Len(T) /\ s >= SampleOf(AbsStart(T, nr)) /\ s < SampleOf(EndOf(T, nr))
  BY ONLY <1>0, Disc(T, d), FoundTrack
<1>3. PICK a \in Nat, b \in Nat : a = AbsStart(T, nr) /\ b = EndOf(T, nr)
  <2>1. AbsStart(T, nr) \in Nat /\ T[nr].length \in Nat /\ EndOf(T, nr) = AbsStart(T, nr) + T[nr].length
    BY <1>2, DiscPositions
  <2> QED
    BY <2>1
<1>4. PICK aq \in Nat, bq \in Nat : aq = a * q /\ bq = b * q
  OBVIOUS
<1>5. aq <= s /\ ~(bq <= s)
  BY <1>1, <1>2, <1>3, <1>4 DEF SampleOf
<1>6. a <= lba
  BY <1>1, <1>4, <1>5, MultipleOrder
<1>7. ~(b <= lba)
  <2>1. b <= lba => b * q <= lba * q
    OBVIOUS
  <2> QED
    BY <1>1, <1>4, <1>5, <2>1
<1> QED
  BY <1>2, <1>3, <1>6, <1>7
\* A disc is a sequence of such tracks.
LEMMA DiscOfTracks ==
    ASSUME NEW d, NEW S, \A t \in S : Fine(t, d), NEW T \in Seq(S)
    PROVE  Disc(T, d)
<1>1. Len(T) \in Nat /\ T = [i \in 1 .. Len(T) |-> T[i]] /\ \A i \in 1 .. Len(T) : T[i] \in S
  OBVIOUS
<1> QED
  BY <1>1 DEF Disc

\* The tracks of a disc are a set of such tracks.
LEMMA TracksOfDisc ==
    ASSUME NEW T, NEW d, Disc(T, d)
    PROVE  \E S : T \in Seq(S) /\ \A t \in S : Fine(t, d)
<1>1. Len(T) \in Nat /\ T = [i \in 1 .. Len(T) |-> T[i]] /\ \A i \in 1 .. Len(T) : Fine(T[i], d)
  BY DEF Disc
<1>2. PICK S : S = {T[i] : i \in 1 .. Len(T)}
  OBVIOUS
<1>3. T \in Seq(S)
  <2>1. PICK n \in Nat : n = Len(T)
    BY <1>1
  <2>2. T = [i \in 1 .. n |-> T[i]] /\ \A i \in 1 .. n : T[i] \in S
    BY <1>1, <1>2, <2>1
  <2>3. T \in [1 .. n -> S]
    BY ONLY <2>2
  <2> QED
    BY ONLY <2>1, <2>3
<1>4. \A t \in S : Fine(t, d)
  BY <1>1, <1>2
<1> QED
  BY <1>3, <1>4

\* One track of the disc is exchanged, two of them are, or a new one is the last.
LEMMA DiscChanges ==
    ASSUME NEW T, NEW d, Disc(T, d), NEW a \in 1 .. Len(T), NEW u, Fine(u, d)
    PROVE  /\ Disc([T EXCEPT ![a] = u], d)
           /\ \A b \in 1 .. Len(T) : \A v : Fine(v, d) => Disc([T EXCEPT ![a] = u, ![b] = v], d)
<1>1. PICK S : T \in Seq(S) /\ \A t \in S : Fine(t, d)
  BY TracksOfDisc
<1>2. Disc([T EXCEPT ![a] = u], d)
  <2>1. PICK U : U = S \cup {u}
    OBVIOUS
  <2>2. T \in Seq(U) /\ u \in U /\ \A t \in U : Fine(t, d)
    BY <1>1, <2>1
  <2>3. PICK V : V = [T EXCEPT ![a] = u]
    OBVIOUS
  <2>4. V \in Seq(U)
    BY <2>2, <2>3
  <2>5. Disc(V, d)
    BY ONLY <2>2, <2>4, DiscOfTracks
  <2> QED
    BY <2>3, <2>5
<1>3. ASSUME NEW b \in 1 .. Len(T), NEW v, Fine(v, d)
      PROVE  Disc([T EXCEPT ![a] = u, ![b] = v], d)
  <2>1. PICK U : U = S \cup {u, v}
    OBVIOUS
  <2>2. T \in Seq(U) /\ u \in U /\ v \in U /\ \A t \in U : Fine(t, d)
    BY <1>1, <1>3, <2>1
  <2>3. PICK V : V = [T EXCEPT ![a] = u]
    OBVIOUS
  <2>4. V \in Seq(U) /\ Len(V) = Len(T)
    BY <2>2, <2>3
  <2>5. PICK W : W = [V EXCEPT ![b] = v]
    OBVIOUS
  <2>6. W \in Seq(U)
    BY <2>2, <2>4, <2>5
  <2>7. Disc(W, d)
    BY ONLY <2>2, <2>6, DiscOfTracks
  <2>8. W = [T EXCEPT ![a] = u, ![b] = v]
    BY <2>3, <2>5
  <2> QED
    BY <2>7, <2>8
<1> QED
  BY <1>2, <1>3

\* The tracks of a disc of which one or two were exchanged.
LEMMA TracksAfter ==
    ASSUME NEW T, NEW d, Disc(T, d), NEW a \in 1 .. Len(T), NEW u
    PROVE  /\ Len([T EXCEPT ![a] = u]) = Len(T) /\ [T EXCEPT ![a] = u][a] = u
           /\ \A k \in 1 .. Len(T) : k # a => [T EXCEPT ![a] = u][k] = T[k]
           /\ \A b \in 1 .. Len(T) : \A v : b # a =>
                 /\ Len([T EXCEPT ![a] = u, ![b] = v]) = Len(T)
                 /\ [T EXCEPT ![a] = u, ![b] = v][a] = u /\ [T EXCEPT ![a] = u, ![b] = v][b] = v
                 /\ \A k \in 1 .. Len(T) : k \notin {a, b} => [T EXCEPT ![a] = u, ![b] = v][k] = T[k]
<1>1. PICK S : T \in Seq(S)
  BY TracksOfDisc
<1>2. PICK V : V = [T EXCEPT ![a] = u]
  OBVIOUS
<1>3. Len(V) = Len(T) /\ V[a] = u /\ (\A k \in 1 .. Len(T) : k # a => V[k] = T[k])
  BY <1>1, <1>2
<1>4. ASSUME NEW b \in 1 .. Len(T), NEW v, b # a
      PROVE  /\ Len([T EXCEPT ![a] = u, ![b] = v]) = Len(T)
             /\ [T EXCEPT ![a] = u, ![b] = v][a] = u /\ [T EXCEPT ![a] = u, ![b] = v][b] = v
             /\ \A k \in 1 .. Len(T) : k \notin {a, b} => [T EXCEPT ![a] = u, ![b] = v][k] = T[k]
  <2>1. PICK W : W = [T EXCEPT ![a] = u, ![b] = v]
    OBVIOUS
  <2>2. Len(W) = Len(T) /\ W[a] = u /\ W[b] = v /\ \A k \in 1 .. Len(T) : k \notin {a, b} => W[k] = T[k]
    BY <1>1, <1>4, <2>1
  <2> QED
    BY <2>1, <2>2
<1> QED
  BY <1>2, <1>3, <1>4

\* A new track becomes the last one.
LEMMA TrackAppended ==
    ASSUME NEW T, NEW d, Disc(T, d), NEW u, Fine(u, d)
    PROVE  Disc(Append(T, u), d)
<1>1. PICK S : T \in Seq(S) /\ \A t \in S : Fine(t, d)
  BY TracksOfDisc
<1>2. PICK U : U = S \cup {u}
  OBVIOUS
<1>3. T \in Seq(U) /\ u \in U /\ \A t \in U : Fine(t, d)
  BY <1>1, <1>2
<1>4. PICK V : V = Append(T, u)
  OBVIOUS
<1>5. V \in Seq(U)
  BY <1>3, <1>4
<1>6. Disc(V, d)
  BY ONLY <1>3, <1>5, DiscOfTracks
<1> QED
  BY <1>4, <1>6

\* A track is put in behind a track that changes.
LEMMA TrackInserted ==
    ASSUME NEW T, NEW d, Disc(T, d), NEW nr \in 1 .. Len(T), NEW u, Fine(u, d), NEW v, Fine(v, d)
    PROVE  Disc(InsertAt([T EXCEPT ![nr] = u], nr + 1, v), d)
<1>1. PICK S : T \in Seq(S) /\ \A t \in S : Fine(t, d)
  BY TracksOfDisc
<1>2. PICK U : U = S \cup {u, v}
  OBVIOUS
<1>3. T \in Seq(U) /\ u \in U /\ v \in U /\ \A t \in U : Fine(t, d)
  BY <1>1, <1>2
<1>4. PICK V : V = [T EXCEPT ![nr] = u]
  OBVIOUS
<1>5. V \in Seq(U) /\ Len(V) = Len(T)
  BY <1>3, <1>4
<1>6. PICK i \in 1 .. Len(V) + 1 : i = nr + 1
  BY <1>1, <1>5
<1>7. PICK W : W = InsertAt(V, i, v)
  OBVIOUS
<1>8. W \in Seq(U)
  BY <1>3, <1>5, <1>7, InsertAtProperties
<1>9. Disc(W, d)
  BY ONLY <1>3, <1>8, DiscOfTracks
<1> QED
  BY <1>4, <1>6, <1>7, <1>9

\* A track goes, and its predecessor changes.
LEMMA TrackRemoved ==
    ASSUME NEW T, NEW d, Disc(T, d), NEW nr \in 1 .. Len(T), nr > 1, NEW u, Fine(u, d)
    PROVE  Disc(RemoveAt([T EXCEPT ![nr - 1] = u], nr), d)
<1>1. PICK S : T \in Seq(S) /\ \A t \in S : Fine(t, d)
  BY TracksOfDisc
<1>2. PICK U : U = S \cup {u}
  OBVIOUS
<1>3. T \in Seq(U) /\ u \in U /\ \A t \in U : Fine(t, d)
  BY <1>1, <1>2
<1>4. PICK V : V = [T EXCEPT ![nr - 1] = u]
  OBVIOUS
<1>5. V \in Seq(U) /\ Len(V) = Len(T)
  <2>1. nr - 1 \in 1 .. Len(T)
    BY <1>1
  <2> QED
    BY <1>3, <1>4, <2>1
<1>6. PICK W : W = RemoveAt(V, nr)
  OBVIOUS
<1>7. W \in Seq(U)
  <2>1. W = SubSeq(V, 1, nr - 1) \o SubSeq(V, nr + 1, Len(V))
    BY <1>6 DEF RemoveAt
  <2>2. PICK n \in Nat : n = Len(V)
    BY <1>5
  <2>3. PICK a, b : a = SubSeq(V, 1, nr - 1) /\ b = SubSeq(V, nr + 1, Len(V))
    OBVIOUS
  <2>4. a \in Seq(U)
    <3>1. \A i \in 1 .. nr - 1 : V[i] \in U
      BY <1>5
    <3> QED
      BY <1>5, <2>3, <3>1
  <2>5. b \in Seq(U)
    <3>1. \A i \in nr + 1 .. n : V[i] \in U
      BY <1>5, <2>2
    <3> QED
      BY <1>5, <2>2, <2>3, <3>1
  <2> QED
    BY <2>1, <2>3, <2>4, <2>5
<1>8. Disc(W, d)
  BY ONLY <1>3, <1>7, DiscOfTracks
<1> QED
  BY <1>4, <1>6, <1>8

\* A track that is not shorter behind its pre-gap than a fine one is as fine.
LEMMA FineAsBefore ==
    ASSUME NEW t, NEW d \in Nat, Fine(t, d), NEW u, Good(u), t.length - t.start <= u.length - u.start
    PROVE  Fine(u, d)
<1>1. t.start \in Nat /\ t.length \in Nat /\ t.start + d <= t.length
  BY GoodFacts DEF Fine
<1>2. u.start \in Nat /\ u.length \in Nat
  BY GoodFacts
<1>3. u.start + d <= u.length
  BY <1>1, <1>2
<1> QED
  BY <1>3 DEF Fine

\* A track that keeps its length and its pre-gap, and one that grows behind its pre-gap.
LEMMA FineIfNotLess ==
    ASSUME NEW t, NEW d \in Nat, Fine(t, d), NEW u, Good(u), u.length >= t.length, u.start <= t.start
    PROVE  Fine(u, d)
<1>1. t.start \in Nat /\ t.length \in Nat /\ u.start \in Nat /\ u.length \in Nat
  BY GoodFacts DEF Fine
<1>2. t.length - t.start <= u.length - u.start
  BY <1>1
<1> QED
  BY <1>2, FineAsBefore

\* A good track behind whose pre-gap there are four seconds, for the two values of d.
Reserve(d) == d = 0 \/ d = FourSeconds
\* For both values of d, a good track is fine if four seconds stay where four seconds must.
LEMMA FineIfLong ==
    ASSUME NEW d, Reserve(d), NEW u, Good(u), d = FourSeconds => u.start + FourSeconds <= u.length
    PROVE  Fine(u, d)
<1>1. u.start \in Nat /\ u.length \in Nat /\ (u.start < u.length \/ u.start = 0)
  BY GoodFacts
<1>2. CASE d = 0
  BY <1>1, <1>2 DEF Fine
<1>3. CASE d = FourSeconds
  BY <1>3 DEF Fine
<1> QED
  BY <1>2, <1>3 DEF Reserve

\* The assertions of a split hold inside the track.
LEMMA SplitAsserts ==
    ASSUME NEW t, t.length \in Nat, NEW k \in Nat \ {0}, k < t.length
    PROVE  RemoveAsserts(t, SampleOf(k))
<1>1. PICK q \in Nat \ {0} : q = SAMPLES_PER_BLOCK
  BY TrackAssumption
<1>2. PICK n \in Nat, s \in Nat, e \in Nat : n = t.length /\ s = k * q /\ e = n * q
  OBVIOUS
<1>3. s > 0
  BY <1>2
<1>4. s < e
  <2>1. PICK m \in Nat \ {0} : m = n - k
    BY <1>2
  <2>2. n = k + m
    BY <1>2, <2>1
  <2>3. (k + m) * q = k * q + m * q
    OBVIOUS
  <2>4. m * q > 0
    OBVIOUS
  <2> QED
    BY <1>2, <2>2, <2>3, <2>4
<1> QED
  BY <1>1, <1>2, <1>3, <1>4 DEF RemoveAsserts, SampleOf, Length

\* The audio of k blocks that comes in front becomes part of the pre-gap.
LEMMA PregapGrown ==
    ASSUME NEW t, GoodAudio(t), NEW list \in AudioLists, NEW k \in Nat \ {0},
           RealLength(list) = k * SAMPLES_PER_BLOCK, NEW s, s = k + t.start,
           NEW u, u = SetStart(PrependTrackData(t, list), s)
    PROVE  GoodAudio(u) /\ u.length = k + t.length /\ t.length - t.start <= u.length - u.start
<1>1. PICK g : g = PrependTrackData(t, list)
  OBVIOUS
<1>2. GoodAudio(g) /\ g.length = k + t.length /\ g.start = t.start /\ g.index = t.index
  BY <1>1, GrownInFront
<1>3. /\ t.start \in Nat /\ t.length \in Nat /\ (t.start < t.length \/ t.start = 0)
      /\ Marks(t.index, t.start, t.length)
  BY GoodFacts DEF GoodAudio
<1>4. CASE t.length = 0
  <2>1. t.start = 0 /\ s >= g.length /\ g.length # 0
    BY <1>2, <1>3, <1>4
  <2>2. u = g
    BY <1>1, <2>1 DEF SetStart, Length
  <2> QED
    BY <1>2, <1>3, <2>1, <2>2
<1>5. CASE t.length # 0
  <2>1. s \in Nat /\ s < g.length
    BY <1>2, <1>3, <1>5
  <2>2. Marks(g.index, s, g.length)
    <3>1. PICK x, a, n : x = t.index /\ a = t.start /\ n = t.length
      OBVIOUS
    <3>2. x \in Seq(Nat) /\ RisingMarks(x) /\ a \in Nat /\ n \in Nat /\ s = k + a /\ \A i \in DOMAIN x : a + x[i] < n
      BY <1>3, <3>1 DEF Marks
    <3>3. \A i \in DOMAIN x : s + x[i] < k + n
      BY <3>2
    <3> QED
      BY <1>2, <3>1, <3>2, <3>3 DEF Marks
  <2>3. GoodAudio(u) /\ u.length = g.length /\ u.start = s
    BY <1>1, <1>2, <2>1, <2>2, StartSet
  <2> QED
    BY <1>2, <1>3, <2>3
<1> QED
  BY <1>4, <1>5

-----------------------------------------------------------------------------
(* The edits of marks keep such a disc, and with four seconds behind each  *)
(* pre-gap they fail no assertion.                                         *)

DiscKept(d) == Disc(toc', d) /\ (d = FourSeconds => ~aborted')

\* Where there are four seconds behind each pre-gap, a mark arrives where it is moved to.
Arrives(d, nr, ix, lba) == d = FourSeconds => MarkerAt(toc', nr, ix) = lba

\* Tracks of plain audio, and the predecessor of one whose mark may be moved.
LEMMA PlainIsAudio ==
    ASSUME NEW d, Disc(toc, d), NEW nr \in 1 .. Len(toc)
    PROVE  /\ IsPlainAudio(toc[nr]) => GoodAudio(toc[nr])
           /\ nr > 1 /\ PredecessorIsAudio(nr) => GoodAudio(toc[nr - 1])
<1>1. Good(toc[nr]) /\ (nr > 1 => nr - 1 \in 1 .. Len(toc))
  BY DiscPositions
<1>2. ASSUME nr > 1, PredecessorIsAudio(nr) PROVE GoodAudio(toc[nr - 1])
  <2>1. PICK p \in 1 .. Len(toc) : p = nr - 1
    BY <1>1, <1>2
  <2>2. Good(toc[p]) /\ toc[p].mode # "DATA"
    BY <1>2, <2>1, DiscPositions DEF PredecessorIsAudio
  <2>3. toc[p].mode \in Modes /\ toc[p].mode # "RW"
    BY <2>2 DEF Good, IsTrack
  <2> QED
    BY <2>1, <2>2, <2>3 DEF GoodAudio, Modes
<1> QED
  BY <1>1, <1>2 DEF IsPlainAudio, GoodAudio

\* A mark that moves inside its track.
LEMMA MoveWithinKeeps ==
    ASSUME NEW d, Reserve(d), Disc(toc, d), ~aborted, NEW nr \in DOMAIN toc, NEW ix \in 0 .. MaxIndices + 1,
           NEW lba \in Lbas, MoveWithinTrack(nr, ix, lba)
    PROVE  DiscKept(d) /\ Arrives(d, nr, ix, lba)
<1>0. PICK t, pos, r : t = toc[nr] /\ pos = lba - AbsStart(toc, nr) /\ r = MoveIndex(t, ix, pos)
  OBVIOUS
<1>1. nr \in 1 .. Len(toc)
  BY DEF Disc
<1>2. /\ Good(t) /\ Fine(t, d) /\ t.start \in Nat /\ t.length \in Nat /\ Length(t) = t.length
      /\ AbsStart(toc, nr) \in Nat /\ EndOf(toc, nr) = AbsStart(toc, nr) + t.length
      /\ (nr = 1 => AbsStart(toc, nr) = 0)
      /\ (IsPlainAudio(t) => GoodAudio(t))
  BY <1>0, <1>1, DiscPositions, PlainIsAudio
<1>3. Len(t.index) \in Nat
  BY <1>2, GoodFacts
<1>4. lba \in Nat /\ ix \in Nat /\ ix < FourSeconds /\ FourSeconds \in Nat
  BY TrackAssumption DEF Lbas
<1>5. /\ HasIndex(nr, ix) /\ ix >= 1 /\ (ix = 1 => IsPlainAudio(t))
      /\ (ix = 1 => nr = 1 \/ pos > 0) /\ (ix # 1 => pos > 0)
      /\ AbortUnless(MoveIndexAsserts(t, ix, pos), r.ret = 0 /\ Becomes([toc EXCEPT ![nr] = r.track]))
  BY <1>0, <1>4 DEF MoveWithinTrack, Movable, StaysInTrack
<1>6. pos \in Nat
  BY <1>0, <1>2, <1>4, <1>5
<1>7. d = FourSeconds => MoveIndexAsserts(t, ix, pos)
  <2>1. ix - 2 < Len(t.index)
    BY <1>0, <1>5 DEF HasIndex
  <2>2. d = FourSeconds => ix < Length(t)
    BY <1>2, <1>4 DEF Fine
  <2> QED
    BY <1>5, <1>6, <2>1, <2>2 DEF MoveIndexAsserts
<1>8. r.ret = 0 => Fine(r.track, d)
  <2>1. CASE ix = 1
    <3>1. GoodAudio(t) /\ r = MoveStart(t, pos)
      BY <1>0, <1>2, <1>5, <2>1 DEF MoveIndex
    <3>2. /\ GoodAudio(r.track) /\ r.track.length = t.length
          /\ (r.ret = 0 => r.track.start = pos /\ pos <= t.length - FourSeconds)
      <4>1. GoodAudio(r.track) /\ r.track.length = t.length
        BY ONLY <1>6, <3>1, StartMovedIsGood
      <4>2. r.ret = 0 => r.track.start = pos /\ pos <= t.length - FourSeconds
        BY <1>6, <3>1, StartMovedTo
      <4> QED
        BY <4>1, <4>2
    <3>3. r.ret = 0 => r.track.start + FourSeconds <= r.track.length
      BY <1>2, <1>4, <1>6, <3>2
    <3> QED
      BY <3>2, <3>3, FineIfLong DEF GoodAudio
  <2>2. CASE ix # 1
    <3>1. PICK i \in Nat : i = ix - 1
      BY <1>4, <1>5
    <3>2. i \in DOMAIN t.index
      <4>1. i \in 1 .. Len(t.index)
        BY <1>0, <1>3, <1>4, <1>5, <2>2, <3>1 DEF HasIndex
      <4>2. t.index \in Seq(Nat)
        BY <1>2, GoodFacts
      <4> QED
        BY <4>1, <4>2
    <3>3. r = MoveIncrement(t, i, pos)
      BY <1>0, <2>2, <3>1 DEF MoveIndex
    <3>4. Good(r.track) /\ r.track.length = t.length /\ r.track.start = t.start
      BY <1>2, <1>6, <3>2, <3>3, IncrementMovedIsGood
    <3>5. d \in Nat
      BY <1>4 DEF Reserve
    <3>6. r.track.length >= t.length /\ r.track.start <= t.start
      BY <1>2, <3>4
    <3> QED
      BY <1>2, <3>4, <3>5, <3>6, FineIfNotLess
  <2> QED
    BY <2>1, <2>2
<1>9. r.ret = 0 => Disc([toc EXCEPT ![nr] = r.track], d)
  BY <1>1, <1>8, DiscChanges
<1>10. ASSUME r.ret = 0 PROVE MarkerAt([toc EXCEPT ![nr] = r.track], nr, ix) = lba
  <2>1. PICK T : T = [toc EXCEPT ![nr] = r.track]
    OBVIOUS
  <2>2. Len(T) = Len(toc) /\ T[nr] = r.track /\ \A k \in 1 .. Len(toc) : k # nr => T[k] = toc[k]
    BY <1>1, <2>1, TracksAfter
  <2>3. Disc(T, d) /\ \A k \in 1 .. nr - 1 : T[k].length = toc[k].length
    BY <1>1, <1>9, <1>10, <2>1, <2>2 DEF Disc
  <2>4. AbsStart(T, nr) = AbsStart(toc, nr) /\ StartOf(T, nr) = AbsStart(T, nr) + r.track.start
    <3>1. AbsStart(T, nr) = AbsStart(toc, nr)
      BY <1>1, <2>2, <2>3, StartKept
    <3>2. nr \in 1 .. Len(T)
      BY <1>1, <2>2
    <3>3. StartOf(T, nr) = AbsStart(T, nr) + T[nr].start
      BY ONLY <2>3, <3>2, DiscPositions
    <3> QED
      BY <2>2, <3>1, <3>3
  <2>5. CASE ix = 1
    <3>1. GoodAudio(t) /\ r = MoveStart(t, pos)
      BY <1>0, <1>2, <1>5, <2>5 DEF MoveIndex
    <3>2. r.track.start = pos
      BY <1>6, <1>10, <3>1, StartMovedTo
    <3> QED
      BY <1>0, <1>2, <1>4, <1>6, <2>1, <2>4, <2>5, <3>2 DEF MarkerAt
  <2>6. CASE ix # 1
    <3>1. PICK i \in Nat : i = ix - 1
      BY <1>4, <1>5
    <3>2. t.index \in Seq(Nat) /\ i \in DOMAIN t.index
      <4>1. i \in 1 .. Len(t.index)
        BY <1>0, <1>3, <1>4, <1>5, <2>6, <3>1 DEF HasIndex
      <4>2. t.index \in Seq(Nat)
        BY <1>2, GoodFacts
      <4> QED
        BY <4>1, <4>2
    <3>3. r = MoveIncrement(t, i, pos)
      BY <1>0, <2>6, <3>1 DEF MoveIndex
    <3>4. r.track = [t EXCEPT !.index[i] = pos - t.start]
      BY <1>10, <3>3 DEF MoveIncrement, Result
    <3>5. {"index", "start"} \subseteq DOMAIN t
      BY <1>2 DEF Good, IsTrack
    <3>6. r.track.start = t.start /\ r.track.index[i] = pos - t.start
      BY <3>2, <3>4, <3>5
    <3>7. ix # 0
      BY <1>4, <1>5
    <3>8. MarkerAt(T, nr, ix) = (AbsStart(toc, nr) + t.start) + (pos - t.start)
      BY <2>2, <2>4, <2>6, <3>1, <3>6, <3>7 DEF MarkerAt
    <3> QED
      BY <1>0, <1>2, <1>4, <1>6, <2>1, <3>8
  <2> QED
    BY <2>5, <2>6
<1> QED
  BY <1>5, <1>7, <1>9, <1>10 DEF AbortUnless, Abort, Becomes, DiscKept, Arrives

\* A start that moves to the left: its predecessor hands over its end.
LEMMA MoveLeftKeeps ==
    ASSUME NEW d, Reserve(d), Disc(toc, d), ~aborted, NEW nr \in DOMAIN toc, NEW ix \in 0 .. MaxIndices + 1,
           NEW lba \in Lbas, MoveStartLeft(nr, ix, lba)
    PROVE  DiscKept(d) /\ Arrives(d, nr, ix, lba)
<1>0. PICK b : b = nr - 1
  OBVIOUS
<1>1. nr \in 1 .. Len(toc) /\ Len(toc) \in Nat /\ lba \in Nat /\ FourSeconds \in Nat /\ FourSeconds > 1 /\ d \in Nat
  <2>1. MaxIndices \in Nat /\ FourSeconds \in Nat /\ FourSeconds > MaxIndices + 1
    BY TrackAssumption
  <2> QED
    BY <2>1 DEF Disc, Lbas, Reserve
<1>2. /\ nr > 1 /\ PredecessorIsAudio(nr) /\ IsPlainAudio(toc[nr])
  <2>1. ~StaysInTrack(nr, ix) /\ Movable(nr, ix) /\ ix \in Nat
    BY TrackAssumption DEF MoveStartLeft
  <2>2. ix <= 1
    BY <2>1 DEF StaysInTrack
  <2>3. CASE ix = 0
    BY <1>1, <2>1, <2>3 DEF Movable
  <2>4. CASE ix = 1
    <3>1. toc[nr].start \in Nat
      BY <1>1, DiscPositions
    <3> QED
      BY <1>1, <2>1, <2>4, <3>1 DEF Movable, StaysInTrack
  <2> QED
    BY <2>1, <2>2, <2>3, <2>4
<1>3. PICK p, t : p = toc[b] /\ t = toc[nr]
  OBVIOUS
<1>4. b \in 1 .. Len(toc) /\ GoodAudio(p) /\ GoodAudio(t) /\ Fine(p, d) /\ Fine(t, d)
  <2>1. b \in 1 .. Len(toc)
    BY <1>0, <1>1, <1>2
  <2> QED
    BY <1>0, <1>1, <1>2, <1>3, <2>1, DiscPositions, PlainIsAudio
<1>5. /\ p.start \in Nat /\ p.length \in Nat /\ t.start \in Nat /\ t.length \in Nat
      /\ AbsStart(toc, b) \in Nat /\ AbsStart(toc, nr) = AbsStart(toc, b) + p.length
      /\ StartOf(toc, nr) = AbsStart(toc, nr) + t.start /\ StartOf(toc, b) = AbsStart(toc, b) + p.start
  BY <1>0, <1>1, <1>2, <1>3, <1>4, DiscPositions
<1>6. lba < AbsStart(toc, nr) /\ lba >= StartOf(toc, b) + FourSeconds
  BY <1>0 DEF MoveStartLeft
<1>7. PICK pos : pos = lba - AbsStart(toc, b)
  OBVIOUS
<1>8. pos \in Nat \ {0} /\ pos < p.length /\ p.start + FourSeconds <= pos
  <2>1. PICK a \in Nat, n \in Nat, i \in Nat : a = AbsStart(toc, b) /\ n = p.length /\ i = p.start
    BY <1>5
  <2>2. lba < a + n /\ lba >= a + i + FourSeconds /\ pos = lba - a
    BY <1>5, <1>6, <1>7, <2>1
  <2>3. pos \in Nat \ {0} /\ pos < n /\ i + FourSeconds <= pos
    BY <1>1, <2>2
  <2> QED
    BY <2>1, <2>3
<1>9. PICK k : k = p.length - pos
  OBVIOUS
<1>10. StartOf(toc, nr) - lba = k + t.start
  BY <1>1, <1>5, <1>7, <1>9, SMTT(30)
<1>11. PICK u, list : u = RemoveToEnd(p, SampleOf(pos)).track /\ list = RemoveToEnd(p, SampleOf(pos)).list
  OBVIOUS
<1>12. /\ GoodAudio(u) /\ u.length = pos /\ u.start = ResetStart(p.start, pos)
       /\ list \in AudioLists /\ k \in Nat \ {0} /\ RealLength(list) = k * SAMPLES_PER_BLOCK
  BY <1>4, <1>8, <1>9, <1>11, SplitBehind
<1>13. Fine(u, d)
  <2>1. u.start = p.start
    BY <1>1, <1>5, <1>8, <1>12 DEF ResetStart
  <2>2. u.start + FourSeconds <= u.length
    BY <1>8, <1>12, <2>1
  <2> QED
    BY <1>12, <2>2, FineIfLong DEF GoodAudio
<1>14. PICK s, g : s = k + t.start /\ g = SetStart(PrependTrackData(t, list), s)
  OBVIOUS
<1>15. GoodAudio(g) /\ g.length = k + t.length /\ t.length - t.start <= g.length - g.start
  BY <1>4, <1>12, <1>14, PregapGrown
<1>16. PICK m : m = MoveStart(g, 0)
  OBVIOUS
<1>17. Fine(g, d) /\ Fine(m.track, d)
  <2>1. Fine(g, d)
    BY <1>1, <1>4, <1>15, FineAsBefore DEF GoodAudio
  <2>2. CASE m.ret = 0
    <3>1. GoodAudio(m.track) /\ m.track.length = g.length
      <4>1. 0 \in Nat
        OBVIOUS
      <4> QED
        BY ONLY <1>15, <1>16, <4>1, StartMovedIsGood
    <3>2. m.track.start = 0 /\ 0 <= g.length - FourSeconds
      BY <1>15, <1>16, <2>2, StartMovedTo
    <3>3. m.track.start + FourSeconds <= m.track.length
      <4>1. PICK n \in Nat : n = g.length
        BY <1>5, <1>12, <1>15
      <4>2. 0 + FourSeconds <= n
        BY <1>1, <3>2, <4>1
      <4> QED
        BY <3>1, <3>2, <4>1, <4>2
    <3> QED
      BY <2>1, <3>1, <3>3, FineIfLong DEF GoodAudio
  <2>3. CASE m.ret # 0
    <3>1. m.track = g
      BY <1>16, <2>3 DEF MoveStart, Result
    <3> QED
      BY <2>1, <3>1
  <2> QED
    BY <2>1, <2>2, <2>3
<1>18. PICK v : v = IF ix = 1 THEN MoveIndex(g, 1, 0).track ELSE g
  OBVIOUS
<1>19. Fine(v, d)
  BY <1>16, <1>17, <1>18 DEF MoveIndex
<1>20. AbortUnless(RemoveAsserts(p, SampleOf(pos)) /\ (ix = 1 => MoveIndexAsserts(g, 1, 0)),
                   Becomes([toc EXCEPT ![b] = u, ![nr] = v]))
  <2>1. g = SetStart(PrependTrackData(toc[nr], RemoveToEnd(toc[nr - 1], SampleOf(lba - AbsStart(toc, nr - 1))).list), StartOf(toc, nr) - lba)
    BY <1>0, <1>3, <1>7, <1>10, <1>11, <1>14
  <2> QED
    BY <1>0, <1>3, <1>7, <1>11, <1>18, <2>1 DEF MoveStartLeft
<1>21. RemoveAsserts(p, SampleOf(pos))
  BY <1>5, <1>8, SplitAsserts
<1>22. d = FourSeconds => MoveIndexAsserts(g, 1, 0)
  <2>1. Len(g.index) \in Nat /\ Length(g) = g.length
    BY <1>15, GoodFacts DEF GoodAudio
  <2>2. d = FourSeconds => 1 < g.length
    <3>1. g.length \in Nat /\ g.start \in Nat /\ g.start + d <= g.length
      BY <1>15, <1>17, GoodFacts DEF Fine, GoodAudio
    <3> QED
      BY <1>1, <3>1
  <2> QED
    BY <2>1, <2>2 DEF MoveIndexAsserts
<1>23. Disc([toc EXCEPT ![b] = u, ![nr] = v], d)
  BY <1>1, <1>4, <1>13, <1>19, DiscChanges
<1>24. PICK T : T = [toc EXCEPT ![b] = u, ![nr] = v]
  OBVIOUS
<1>25. d = FourSeconds => MarkerAt(T, nr, ix) = lba
  <2>1. Disc(T, d) /\ Len(T) = Len(toc) /\ T[b] = u /\ T[nr] = v
        /\ \A o \in 1 .. Len(toc) : o \notin {b, nr} => T[o] = toc[o]
    <3>1. Disc(T, d)
      BY <1>23, <1>24
    <3>2. b # nr
      BY <1>0, <1>1
    <3>3. /\ Len(T) = Len(toc) /\ T[b] = u /\ T[nr] = v
          /\ \A o \in 1 .. Len(toc) : o \notin {b, nr} => T[o] = toc[o]
      BY <1>1, <1>4, <1>24, <3>2, TracksAfter
    <3> QED
      BY <3>1, <3>3
  <2>2. AbsStart(T, nr) = AbsStart(toc, b) + pos
    BY <1>0, <1>1, <1>2, <1>12, <2>1, StartAfter
  <2>3. AbsStart(T, nr) = lba
    BY <1>1, <1>5, <1>7, <2>2
  <2>4. ix # 0 => ix = 1
    BY <1>1, TrackAssumption DEF MoveStartLeft, StaysInTrack
  <2>5. CASE ix = 0
    BY <2>3, <2>5 DEF MarkerAt
  <2>6. CASE ix = 1
    <3>1. v = m.track
      BY <1>16, <1>18, <2>6 DEF MoveIndex
    <3>2. d = FourSeconds => m.track.start = 0
      <4>1. g.length \in Nat /\ g.start \in Nat /\ Length(g) = g.length /\ Marks(g.index, g.start, g.length)
        BY <1>15, GoodFacts DEF GoodAudio
      <4>2. ~(g.index # <<>> /\ 0 >= g.start + g.index[1])
        <5>1. PICK x \in Seq(Nat) : x = g.index /\ RisingMarks(x)
          BY <4>1 DEF Marks
        <5>2. x # <<>> => 1 \in DOMAIN x /\ x[1] \in Nat /\ 0 < x[1]
          BY <5>1 DEF RisingMarks
        <5> QED
          BY <4>1, <5>1, <5>2
      <4>3. d = FourSeconds => ~TooLate(g, 0)
        BY <1>1, <1>17, <4>1 DEF Fine, TooLate
      <4>4. d = FourSeconds => m.ret = 0
        BY <1>16, <4>2, <4>3 DEF MoveStart, Result
      <4> QED
        BY <1>15, <1>16, <4>4, StartMovedTo
    <3>3. StartOf(T, nr) = AbsStart(T, nr) + T[nr].start
      BY DEF StartOf
    <3> QED
      BY <1>1, <2>1, <2>3, <2>6, <3>1, <3>2, <3>3 DEF MarkerAt
  <2> QED
    BY <2>4, <2>5, <2>6
<1> QED
  BY <1>20, <1>21, <1>22, <1>23, <1>24, <1>25 DEF AbortUnless, Abort, Becomes, DiscKept, Arrives

\* The front of a track goes to the end of its predecessor: its first pos blocks,
\* none of them behind the start that the track then has.
LEMMA FrontHandedOver ==
    ASSUME NEW d, Reserve(d), Disc(toc, d), NEW nr \in 1 .. Len(toc), NEW b \in 1 .. Len(toc), GoodAudio(toc[b]),
           NEW t, GoodAudio(t), NEW pos \in Nat \ {0}, pos < t.length,
           d = FourSeconds => t.start + FourSeconds <= t.length - pos,
           NEW u, u = RemoveFromStart(t, SampleOf(pos)).track,
           NEW list, list = RemoveFromStart(t, SampleOf(pos)).list
    PROVE  /\ Disc([toc EXCEPT ![nr] = u, ![b] = AppendTrackData(toc[b], list)], d)
           /\ AppendTrackData(toc[b], list).length = toc[b].length + pos
           /\ u.start = ResetStart(t.start, t.length - pos)
           /\ RemoveAsserts(t, SampleOf(pos))
<1>1. t.length \in Nat /\ t.start \in Nat
  BY GoodFacts DEF GoodAudio
<1>2. /\ GoodAudio(u) /\ u.length = t.length - pos /\ u.start = ResetStart(t.start, t.length - pos)
      /\ list \in AudioLists /\ RealLength(list) # 0 /\ RealLength(list) = pos * SAMPLES_PER_BLOCK
  BY SplitBefore
<1>3. Fine(u, d)
  <2>1. u.start \in Nat /\ u.start <= t.start
    <3>1. t.length - pos \in Nat
      BY <1>1
    <3> QED
      BY <1>1, <1>2, <3>1 DEF ResetStart
  <2>2. d = FourSeconds => u.start + FourSeconds <= u.length
    BY <1>1, <1>2, <2>1, TrackAssumption
  <2> QED
    BY <1>2, <2>2, FineIfLong DEF GoodAudio
<1>4. PICK p, w : p = toc[b] /\ w = AppendTrackData(p, list)
  OBVIOUS
<1>5. Fine(w, d)
  <2>1. GoodAudio(w) /\ w.length >= p.length /\ w.start = p.start
    BY <1>2, <1>4, GrownBehind
  <2>2. Fine(p, d) /\ p.start \in Nat /\ d \in Nat
    BY <1>4, DiscPositions, TrackAssumption DEF Reserve
  <2> QED
    BY <2>1, <2>2, FineIfNotLess DEF GoodAudio
<1>6. Disc([toc EXCEPT ![nr] = u, ![b] = w], d)
  BY <1>3, <1>5, DiscChanges
<1>7. RemoveAsserts(t, SampleOf(pos))
  BY <1>1, SplitAsserts
<1>8. w.length = p.length + pos
  BY <1>2, <1>4, GrownBehind
<1> QED
  BY <1>2, <1>4, <1>6, <1>7, <1>8

\* A start that moves to the right: its predecessor takes over the front of the track.
LEMMA MoveRightKeeps ==
    ASSUME NEW d, Reserve(d), Disc(toc, d), ~aborted, NEW nr \in DOMAIN toc, NEW ix \in 0 .. MaxIndices + 1,
           NEW lba \in Lbas, MoveStartRight(nr, ix, lba)
    PROVE  DiscKept(d) /\ Arrives(d, nr, ix, lba)
<1>0. PICK b : b = nr - 1
  OBVIOUS
<1>1. nr \in 1 .. Len(toc) /\ Len(toc) \in Nat /\ lba \in Nat /\ FourSeconds \in Nat /\ FourSeconds > 1 /\ d \in Nat
  <2>1. MaxIndices \in Nat /\ FourSeconds \in Nat /\ FourSeconds > MaxIndices + 1
    BY TrackAssumption
  <2> QED
    BY <2>1 DEF Disc, Lbas, Reserve
<1>2. /\ nr > 1 /\ PredecessorIsAudio(nr) /\ IsPlainAudio(toc[nr])
      /\ ix = 0 \/ ix = 1
  <2>1. ~StaysInTrack(nr, ix) /\ Movable(nr, ix) /\ ix \in Nat
    BY TrackAssumption DEF MoveStartRight
  <2>2. ix <= 1
    BY <2>1 DEF StaysInTrack
  <2>3. CASE ix = 0
    BY <1>1, <2>1, <2>3 DEF Movable
  <2>4. CASE ix = 1
    <3>1. toc[nr].start \in Nat
      BY <1>1, DiscPositions
    <3> QED
      BY <1>1, <2>1, <2>4, <3>1 DEF Movable, StaysInTrack
  <2> QED
    BY <2>1, <2>2, <2>3, <2>4
<1>3. PICK t : t = toc[nr]
  OBVIOUS
<1>4. b \in 1 .. Len(toc) /\ GoodAudio(toc[b]) /\ GoodAudio(t) /\ Fine(t, d)
  <2>1. b \in 1 .. Len(toc)
    BY <1>0, <1>1, <1>2
  <2> QED
    BY <1>0, <1>1, <1>2, <1>3, <2>1, DiscPositions, PlainIsAudio
<1>5. /\ t.start \in Nat /\ t.length \in Nat /\ (t.start < t.length \/ t.start = 0) /\ Length(t) = t.length
      /\ AbsStart(toc, nr) \in Nat /\ StartOf(toc, nr) = AbsStart(toc, nr) + t.start
  BY <1>1, <1>3, <1>4, DiscPositions, GoodFacts
<1>6. PICK pos : pos = lba - AbsStart(toc, nr)
  OBVIOUS
<1>7. pos \in Nat \ {0} /\ (ix = 0 => pos < t.start /\ StartOf(toc, nr) - lba = t.start - pos)
  <2>1. pos > 0 /\ (ix = 0 => lba < StartOf(toc, nr))
    BY <1>6 DEF MoveStartRight
  <2> QED
    BY <1>1, <1>5, <1>6, <2>1
<1>8. PICK r : r = IF ix = 1 THEN MoveIndex(t, 1, pos) ELSE Result(0, t)
  OBVIOUS
<1>9. PICK s, c : s = (IF ix = 1 THEN 0 ELSE StartOf(toc, nr) - lba) /\ c = SetStart(r.track, s)
  OBVIOUS
<1>10. PICK u, list : u = RemoveFromStart(c, SampleOf(pos)).track /\ list = RemoveFromStart(c, SampleOf(pos)).list
  OBVIOUS
<1>11. AbortUnless(/\ ix = 1 => MoveIndexAsserts(t, 1, pos)
                   /\ r.ret = 0 => RemoveAsserts(c, SampleOf(pos)),
                   r.ret = 0 /\ Becomes([toc EXCEPT ![nr] = u, ![b] = AppendTrackData(@, list)]))
  <2>1. c = SetStart(r.track, IF ix = 1 THEN 0 ELSE StartOf(toc, nr) - lba)
    BY <1>9
  <2> QED
    BY <1>0, <1>3, <1>6, <1>8, <1>10, <2>1 DEF MoveStartRight
<1>12. ASSUME r.ret = 0
       PROVE  /\ GoodAudio(c) /\ c.length = t.length /\ c.length \in Nat /\ pos < c.length
              /\ d = FourSeconds => c.start + FourSeconds <= c.length - pos
              /\ ix = 1 => c.start = 0
  <2>1. CASE ix = 1
    <3>1. r = MoveStart(t, pos) /\ s = 0
      BY <1>8, <1>9, <2>1 DEF MoveIndex
    <3>2. PICK v : v = r.track
      OBVIOUS
    <3>3. GoodAudio(v) /\ v.length = t.length
      <4>1. GoodAudio(r.track) /\ r.track.length = t.length
        BY ONLY <1>4, <1>7, <3>1, StartMovedIsGood
      <4> QED
        BY <3>2, <4>1
    <3>4. v.start = pos /\ pos <= t.length - FourSeconds
      BY <1>4, <1>7, <1>12, <3>1, <3>2, StartMovedTo
    <3>5. s \in Nat /\ s <= v.start
      BY <1>7, <3>1, <3>4
    <3>6. GoodAudio(c) /\ c.length = v.length /\ c.start = 0
      BY <1>9, <3>1, <3>2, <3>3, <3>5, EarlierStart
    <3> QED
      BY <1>1, <1>5, <1>7, <3>3, <3>4, <3>6
  <2>2. CASE ix # 1
    <3>1. r.track = t /\ s = t.start - pos /\ pos < t.start
      BY <1>2, <1>7, <1>8, <1>9, <2>2 DEF Result
    <3>2. s \in Nat /\ s <= t.start
      BY <1>5, <1>7, <3>1
    <3>3. GoodAudio(c) /\ c.length = t.length /\ c.start = s
      BY <1>4, <1>9, <3>1, <3>2, EarlierStart
    <3>4. d = FourSeconds => t.start + FourSeconds <= t.length
      BY <1>4 DEF Fine
    <3>5. d = FourSeconds => c.start + FourSeconds <= c.length - pos
      BY <1>1, <1>5, <1>7, <3>1, <3>3, <3>4, SMTT(30)
    <3>6. pos < c.length
      BY <1>5, <1>7, <3>1, <3>3
    <3> QED
      BY <1>5, <2>2, <3>3, <3>5, <3>6
  <2> QED
    BY <2>1, <2>2
<1>13. r.ret = 0 => /\ Disc([toc EXCEPT ![nr] = u, ![b] = AppendTrackData(toc[b], list)], d)
                    /\ AppendTrackData(toc[b], list).length = toc[b].length + pos
                    /\ u.start = ResetStart(c.start, c.length - pos)
                    /\ RemoveAsserts(c, SampleOf(pos))
  BY <1>1, <1>4, <1>7, <1>10, <1>12, FrontHandedOver, SMTT(30)
<1>14. r.ret = 0 => Disc([toc EXCEPT ![nr] = u, ![b] = AppendTrackData(@, list)], d)
  <2>1. nr # b
    BY <1>0, <1>1
  <2>2. [toc EXCEPT ![nr] = u, ![b] = AppendTrackData(@, list)] = [toc EXCEPT ![nr] = u, ![b] = AppendTrackData(toc[b], list)]
    BY <2>1
  <2> QED
    BY <1>13, <2>2
<1>15. d = FourSeconds => MoveIndexAsserts(t, 1, pos)
  <2>1. Len(t.index) \in Nat
    BY <1>4, GoodFacts DEF GoodAudio
  <2>2. d = FourSeconds => 1 < t.length
    BY <1>1, <1>4, <1>5 DEF Fine
  <2> QED
    BY <1>5, <1>7, <2>1, <2>2 DEF MoveIndexAsserts
<1>16. PICK T : T = [toc EXCEPT ![nr] = u, ![b] = AppendTrackData(@, list)]
                /\ T = [toc EXCEPT ![nr] = u, ![b] = AppendTrackData(toc[b], list)]
  <2>1. nr # b
    BY <1>0, <1>1
  <2> QED
    BY <2>1
<1>17. ASSUME r.ret = 0 PROVE MarkerAt(T, nr, ix) = lba
  <2>1. Disc(T, d) /\ Len(T) = Len(toc) /\ T[b] = AppendTrackData(toc[b], list) /\ T[nr] = u
        /\ \A k \in 1 .. Len(toc) : k \notin {b, nr} => T[k] = toc[k]
    <3>1. Disc(T, d)
      BY <1>14, <1>16, <1>17
    <3>2. b # nr
      BY <1>0, <1>1
    <3>3. /\ Len(T) = Len(toc) /\ T[b] = AppendTrackData(toc[b], list) /\ T[nr] = u
          /\ \A k \in 1 .. Len(toc) : k \notin {b, nr} => T[k] = toc[k]
      BY <1>1, <1>4, <1>16, <3>2, TracksAfter
    <3> QED
      BY <3>1, <3>3
  <2>2. AbsStart(T, nr) = AbsStart(toc, b) + (toc[b].length + pos)
    BY <1>0, <1>1, <1>2, <1>13, <1>17, <2>1, StartAfter
  <2>3. AbsStart(T, nr) = lba
    <3>1. /\ AbsStart(toc, b) \in Nat /\ toc[b].length \in Nat
          /\ AbsStart(toc, nr) = AbsStart(toc, b) + toc[b].length
      BY <1>0, <1>1, <1>2, <1>4, DiscPositions
    <3> QED
      BY <1>1, <1>6, <2>2, <3>1, SMTT(30)
  <2>4. CASE ix = 0
    BY <2>3, <2>4 DEF MarkerAt
  <2>5. CASE ix = 1
    <3>1. u.start = 0
      BY <1>12, <1>13, <1>17, <2>5 DEF ResetStart
    <3>2. StartOf(T, nr) = AbsStart(T, nr) + T[nr].start
      BY DEF StartOf
    <3> QED
      BY <1>1, <2>1, <2>3, <2>5, <3>1, <3>2 DEF MarkerAt
  <2> QED
    BY <1>2, <2>4, <2>5
<1> QED
  BY <1>11, <1>13, <1>14, <1>15, <1>16, <1>17 DEF AbortUnless, Abort, Becomes, DiscKept, Arrives

\* The pre-gap of the first track goes, an index mark, or the pre-gap of another track.
LEMMA RemoveFirstPregapKeeps ==
    ASSUME NEW d, Reserve(d), Disc(toc, d), RemoveFirstPregap
    PROVE  DiscKept(d)
<1>1. 1 \in 1 .. Len(toc)
  BY DEF RemoveFirstPregap, Disc
<1>2. PICK t, u : t = toc[1] /\ u = SetStart(t, 0)
  OBVIOUS
<1>3. GoodAudio(t) /\ Fine(t, d) /\ t.start \in Nat /\ t.length \in Nat /\ d \in Nat
  <2>1. IsPlainAudio(toc[1])
    BY DEF RemoveFirstPregap, Removable
  <2> QED
    BY <1>1, <1>2, <2>1, PlainIsAudio, DiscPositions, TrackAssumption DEF Reserve
<1>4. GoodAudio(u) /\ u.length = t.length /\ u.start = 0
  <2>1. 0 \in Nat /\ 0 <= t.start
    BY <1>3
  <2> QED
    BY <1>2, <1>3, <2>1, EarlierStart
<1>5. Fine(u, d)
  <2>1. Good(u) /\ u.length >= t.length /\ u.start <= t.start
    BY <1>3, <1>4 DEF GoodAudio
  <2> QED
    BY <1>3, <2>1, FineIfNotLess
<1>6. Disc([toc EXCEPT ![1] = u], d)
  BY <1>1, <1>5, DiscChanges
<1>7. toc' = [toc EXCEPT ![1] = u] /\ ~aborted'
  BY <1>2 DEF RemoveFirstPregap, Becomes
<1> QED
  BY <1>6, <1>7 DEF DiscKept

\* An index mark goes.
LEMMA RemoveIndexKeeps ==
    ASSUME NEW d, Reserve(d), Disc(toc, d), NEW nr \in DOMAIN toc, NEW ix \in 2 .. MaxIndices + 1, RemoveIndexMarker(nr, ix)
    PROVE  DiscKept(d)
<1>1. nr \in 1 .. Len(toc)
  BY DEF Disc
<1>2. PICK k \in Nat : k = ix - 2
  BY TrackAssumption
<1>3. PICK t, u : t = toc[nr] /\ u = RemoveIndex(t, k).track
  OBVIOUS
<1>4. Fine(t, d) /\ Good(t) /\ t.start \in Nat /\ t.length \in Nat /\ d \in Nat
  BY <1>1, <1>3, DiscPositions, TrackAssumption DEF Reserve
<1>5. Good(u) /\ u.length = t.length /\ u.start = t.start
  BY <1>2, <1>3, <1>4, IndexRemovedIsGood
<1>6. Fine(u, d)
  <2>1. u.length >= t.length /\ u.start <= t.start
    BY <1>4, <1>5
  <2> QED
    BY <1>4, <1>5, <2>1, FineIfNotLess
<1>7. Disc([toc EXCEPT ![nr] = u], d)
  BY <1>1, <1>6, DiscChanges
<1>8. toc' = [toc EXCEPT ![nr] = u] /\ ~aborted'
  BY <1>2, <1>3 DEF RemoveIndexMarker, Becomes
<1> QED
  BY <1>7, <1>8 DEF DiscKept

\* The pre-gap of a track goes to the end of its predecessor.
LEMMA RemovePregapKeeps ==
    ASSUME NEW d, Reserve(d), Disc(toc, d), ~aborted, NEW nr \in DOMAIN toc, RemovePregap(nr)
    PROVE  DiscKept(d)
<1>0. PICK b : b = nr - 1
  OBVIOUS
<1>1. nr \in 1 .. Len(toc) /\ Len(toc) \in Nat
  BY DEF Disc
<1>2. nr > 1 /\ PredecessorIsAudio(nr) /\ IsPlainAudio(toc[nr]) /\ toc[nr].start # 0
  BY DEF RemovePregap, Removable
<1>3. PICK t : t = toc[nr]
  OBVIOUS
<1>4. b \in 1 .. Len(toc) /\ nr # b /\ GoodAudio(toc[b]) /\ GoodAudio(t) /\ Fine(t, d)
  <2>1. b \in 1 .. Len(toc) /\ nr # b
    BY <1>0, <1>1, <1>2
  <2> QED
    BY <1>0, <1>1, <1>2, <1>3, <2>1, DiscPositions, PlainIsAudio
<1>5. PICK pos \in Nat \ {0} : pos = t.start /\ pos < t.length /\ t.length \in Nat
  BY <1>2, <1>3, <1>4, GoodFacts DEF GoodAudio
<1>6. PICK c : c = SetStart(t, 0)
  OBVIOUS
<1>7. GoodAudio(c) /\ c.length = t.length /\ c.start = 0
  <2>1. 0 \in Nat /\ 0 <= t.start
    BY <1>5
  <2> QED
    BY <1>4, <1>6, <2>1, EarlierStart
<1>8. PICK u, list : u = RemoveFromStart(c, SampleOf(pos)).track /\ list = RemoveFromStart(c, SampleOf(pos)).list
  OBVIOUS
<1>9. d = FourSeconds => c.start + FourSeconds <= c.length - pos
  BY <1>4, <1>5, <1>7, TrackAssumption DEF Fine
<1>10. Disc([toc EXCEPT ![nr] = u, ![b] = AppendTrackData(toc[b], list)], d)
  BY <1>1, <1>4, <1>5, <1>7, <1>8, <1>9, FrontHandedOver
<1>11. [toc EXCEPT ![nr] = u, ![b] = AppendTrackData(@, list)] = [toc EXCEPT ![nr] = u, ![b] = AppendTrackData(toc[b], list)]
  BY <1>4
<1>12. RemoveAsserts(t, SampleOf(pos))
  BY <1>5, SplitAsserts
<1>13. AbortUnless(RemoveAsserts(t, SampleOf(pos)), Becomes([toc EXCEPT ![nr] = u, ![b] = AppendTrackData(@, list)]))
  BY <1>0, <1>3, <1>5, <1>6, <1>8 DEF RemovePregap
<1> QED
  BY <1>10, <1>11, <1>12, <1>13 DEF AbortUnless, Becomes, DiscKept

\* A track is joined to its predecessor.
LEMMA RemoveTrackKeeps ==
    ASSUME NEW d, Reserve(d), Disc(toc, d), NEW nr \in DOMAIN toc, RemoveTrack(nr)
    PROVE  DiscKept(d)
<1>1. nr \in 1 .. Len(toc) /\ Len(toc) \in Nat
  BY DEF Disc
<1>2. nr > 1 /\ PredecessorIsAudio(nr) /\ IsPlainAudio(toc[nr])
  BY DEF RemoveTrack, Removable
<1>3. PICK b \in 1 .. Len(toc) : b = nr - 1
  BY <1>1, <1>2
<1>4. PICK p, t, u : p = toc[b] /\ t = toc[nr] /\ u = AppendWholeTrack(p, t)
  OBVIOUS
<1>5. GoodAudio(p) /\ GoodAudio(t) /\ Fine(p, d) /\ p.start \in Nat /\ p.length \in Nat /\ d \in Nat
  BY <1>1, <1>2, <1>3, <1>4, DiscPositions, PlainIsAudio, TrackAssumption DEF Reserve
<1>6. GoodAudio(u) /\ u.length >= p.length /\ u.start = p.start
  BY <1>4, <1>5, GrownByTrack
<1>7. Fine(u, d)
  <2>1. Good(u) /\ u.start <= p.start
    BY <1>5, <1>6 DEF GoodAudio
  <2> QED
    BY <1>5, <1>6, <2>1, FineIfNotLess
<1>8. Disc(RemoveAt([toc EXCEPT ![nr - 1] = u], nr), d)
  BY <1>1, <1>2, <1>7, TrackRemoved
<1>9. toc' = RemoveAt([toc EXCEPT ![nr - 1] = u], nr) /\ ~aborted'
  BY <1>3, <1>4 DEF RemoveTrack, Becomes
<1> QED
  BY <1>8, <1>9 DEF DiscKept

\* A new index mark.
LEMMA AddIndexKeeps ==
    ASSUME NEW d, Reserve(d), Disc(toc, d), NEW lba \in Lbas, AddIndexMarker(lba)
    PROVE  DiscKept(d)
<1>1. lba \in Nat /\ d \in Nat
  BY TrackAssumption DEF Lbas, Reserve
<1>2. PICK nr \in FindTrack(toc, SampleOf(lba)) :
         /\ lba > StartOf(toc, nr)
         /\ AddIndex(toc[nr], lba - StartOf(toc, nr)).ret = 0
         /\ Becomes([toc EXCEPT ![nr] = AddIndex(toc[nr], lba - StartOf(toc, nr)).track])
  BY DEF AddIndexMarker
<1>3. nr \in 1 .. Len(toc)
  BY DEF FindTrack, Disc
<1>4. PICK t : t = toc[nr]
  OBVIOUS
<1>5. /\ Fine(t, d) /\ Good(t) /\ t.start \in Nat /\ t.length \in Nat
      /\ AbsStart(toc, nr) \in Nat /\ StartOf(toc, nr) = AbsStart(toc, nr) + t.start
  BY <1>3, <1>4, DiscPositions
<1>6. PICK pos \in Nat : pos = lba - StartOf(toc, nr)
  BY <1>1, <1>2, <1>5
<1>7. PICK u : u = AddIndex(t, pos).track
  OBVIOUS
<1>8. Good(u) /\ u.length = t.length /\ u.start = t.start
  BY <1>5, <1>7, IndexAddedIsGood
<1>9. Fine(u, d)
  <2>1. u.length >= t.length /\ u.start <= t.start
    BY <1>5, <1>8
  <2> QED
    BY <1>1, <1>5, <1>8, <2>1, FineIfNotLess
<1>10. Disc([toc EXCEPT ![nr] = u], d)
  BY <1>3, <1>9, DiscChanges
<1>11. toc' = [toc EXCEPT ![nr] = u] /\ ~aborted'
  BY <1>2, <1>4, <1>6, <1>7 DEF Becomes
<1> QED
  BY <1>10, <1>11 DEF DiscKept

\* The pieces that fill k blocks.
Blocks(list, k) == k \in Nat \ {0} /\ RealLength(list) = k * SAMPLES_PER_BLOCK

\* A track that is split at a block of its own, four seconds behind its start.
LEMMA SplitOff ==
    ASSUME NEW d, Reserve(d), Disc(toc, d), NEW lba \in Nat, NEW nr \in 1 .. Len(toc), IsPlainAudio(toc[nr]),
           lba - StartOf(toc, nr) >= FourSeconds, lba < EndOf(toc, nr),
           NEW pos, pos = lba - AbsStart(toc, nr),
           NEW u, u = RemoveToEnd(toc[nr], SampleOf(pos)).track,
           NEW list, list = RemoveToEnd(toc[nr], SampleOf(pos)).list,
           NEW k, k = EndOf(toc, nr) - lba
    PROVE  Fine(u, d) /\ RemoveAsserts(toc[nr], SampleOf(pos)) /\ list \in AudioLists /\ Blocks(list, k)
<1>1. PICK t : t = toc[nr]
  OBVIOUS
<1>2. /\ GoodAudio(t) /\ t.start \in Nat /\ t.length \in Nat /\ AbsStart(toc, nr) \in Nat
      /\ StartOf(toc, nr) = AbsStart(toc, nr) + t.start /\ EndOf(toc, nr) = AbsStart(toc, nr) + t.length
  BY <1>1, DiscPositions, PlainIsAudio
<1>3. FourSeconds \in Nat /\ FourSeconds > 0
  <2>1. MaxIndices \in Nat /\ FourSeconds \in Nat /\ FourSeconds > MaxIndices + 1
    BY TrackAssumption
  <2> QED
    BY <2>1
<1>5. pos \in Nat \ {0} /\ pos < t.length /\ t.start + FourSeconds <= pos /\ k = t.length - pos
  <2>1. PICK a \in Nat, s \in Nat, n \in Nat : a = AbsStart(toc, nr) /\ s = t.start /\ n = t.length
    BY <1>2
  <2>2. lba - (a + s) >= FourSeconds /\ lba < a + n /\ pos = lba - a /\ k = (a + n) - lba
    BY <1>1, <1>2, <2>1
  <2>3. pos \in Nat \ {0} /\ pos < n /\ s + FourSeconds <= pos /\ k = n - pos
    BY <1>3, <2>2, SMTT(30)
  <2> QED
    BY <2>1, <2>2, <2>3
<1>6. /\ GoodAudio(u) /\ u.length = pos /\ u.start = ResetStart(t.start, pos)
      /\ list \in AudioLists /\ Blocks(list, k)
  <2>1. u = RemoveToEnd(t, SampleOf(pos)).track /\ list = RemoveToEnd(t, SampleOf(pos)).list
    BY <1>1
  <2>2. /\ GoodAudio(u) /\ u.length = pos /\ u.start = ResetStart(t.start, pos)
        /\ list \in AudioLists /\ k \in Nat \ {0} /\ RealLength(list) = k * SAMPLES_PER_BLOCK
    <3>1. GoodAudio(t) /\ pos \in Nat \ {0} /\ pos < t.length /\ t.length \in Nat
      BY <1>2, <1>5
    <3>2. k = t.length - pos
      BY <1>5
    <3> QED
      BY ONLY <2>1, <3>1, <3>2, SplitBehind
  <2> QED
    BY <1>5, <2>2 DEF Blocks
<1>7. Fine(u, d)
  <2>1. u.start = t.start
    BY <1>2, <1>3, <1>5, <1>6 DEF ResetStart
  <2>2. u.start + FourSeconds <= u.length
    BY <1>5, <1>6, <2>1
  <2> QED
    BY <1>6, <2>2, FineIfLong DEF GoodAudio
<1>8. RemoveAsserts(t, SampleOf(pos))
  BY <1>2, <1>5, SplitAsserts
<1> QED
  BY <1>1, <1>6, <1>7, <1>8

\* A new track mark splits a track, and a new pre-gap is the end of its predecessor.
LEMMA AddTrackKeeps ==
    ASSUME NEW d, Reserve(d), Disc(toc, d), ~aborted, NEW lba \in Lbas, AddTrackMarker(lba)
    PROVE  DiscKept(d)
<1>1. lba \in Nat
  BY DEF Lbas
<1>2. PICK nr \in FindTrack(toc, SampleOf(lba)) :
         LET removed == RemoveToEnd(toc[nr], SampleOf(lba - AbsStart(toc, nr)))
         IN  /\ IsPlainAudio(toc[nr])
             /\ lba - StartOf(toc, nr) >= FourSeconds
             /\ EndOf(toc, nr) - lba >= FourSeconds
             /\ AbortUnless(RemoveAsserts(toc[nr], SampleOf(lba - AbsStart(toc, nr))),
                            Becomes(InsertAt([toc EXCEPT ![nr] = removed.track], nr + 1,
                                             AppendTrackData(NewTrack("AUDIO"), removed.list))))
  BY DEF AddTrackMarker
<1>3. nr \in 1 .. Len(toc)
  BY DEF FindTrack, Disc
<1>4. PICK pos : pos = lba - AbsStart(toc, nr)
  OBVIOUS
<1>5. PICK u, list : u = RemoveToEnd(toc[nr], SampleOf(pos)).track /\ list = RemoveToEnd(toc[nr], SampleOf(pos)).list
  OBVIOUS
<1>6. PICK k : k = EndOf(toc, nr) - lba
  OBVIOUS
<1>7. Fine(u, d) /\ RemoveAsserts(toc[nr], SampleOf(pos)) /\ list \in AudioLists /\ Blocks(list, k)
  <2>1. lba < EndOf(toc, nr)
    BY <1>1, <1>2, FoundBlock
  <2> QED
    BY <1>1, <1>2, <1>3, <1>4, <1>5, <1>6, <2>1, SplitOff
<1>8. PICK v : v = AppendTrackData(NewTrack("AUDIO"), list)
  OBVIOUS
<1>9. Fine(v, d)
  <2>1. GoodAudio(v) /\ v.length = k /\ v.start = 0
    BY <1>7, <1>8, NewGood DEF Blocks
  <2>2. v.start + FourSeconds <= v.length
    BY <1>2, <1>6, <2>1, TrackAssumption
  <2> QED
    BY <2>1, <2>2, FineIfLong DEF GoodAudio
<1>10. Disc(InsertAt([toc EXCEPT ![nr] = u], nr + 1, v), d)
  BY <1>3, <1>7, <1>9, TrackInserted
<1>11. toc' = InsertAt([toc EXCEPT ![nr] = u], nr + 1, v) /\ ~aborted'
  BY <1>2, <1>4, <1>5, <1>7, <1>8 DEF AbortUnless, Becomes
<1> QED
  BY <1>10, <1>11 DEF DiscKept

\* The end of a track becomes the pre-gap of its successor.
LEMMA AddPregapKeeps ==
    ASSUME NEW d, Reserve(d), Disc(toc, d), ~aborted, NEW lba \in Lbas, AddPregap(lba)
    PROVE  DiscKept(d)
<1>1. lba \in Nat /\ d \in Nat
  BY TrackAssumption DEF Lbas, Reserve
<1>2. PICK nr \in FindTrack(toc, SampleOf(lba)) : EndBecomesPregap(nr, lba)
  BY DEF AddPregap
<1>3. nr \in 1 .. Len(toc) /\ Len(toc) \in Nat
  BY DEF FindTrack, Disc
<1>4. PICK pos : pos = lba - AbsStart(toc, nr)
  OBVIOUS
<1>5. PICK u, list : u = RemoveToEnd(toc[nr], SampleOf(pos)).track /\ list = RemoveToEnd(toc[nr], SampleOf(pos)).list
  OBVIOUS
<1>6. PICK k : k = EndOf(toc, nr) - lba
  OBVIOUS
<1>7. Fine(u, d) /\ RemoveAsserts(toc[nr], SampleOf(pos)) /\ list \in AudioLists /\ Blocks(list, k)
  <2>1. IsPlainAudio(toc[nr]) /\ lba - StartOf(toc, nr) >= FourSeconds
    BY <1>2 DEF EndBecomesPregap
  <2>2. lba < EndOf(toc, nr)
    BY <1>1, <1>2, FoundBlock
  <2> QED
    BY <1>1, <1>3, <1>4, <1>5, <1>6, <2>1, <2>2, SplitOff
<1>8. PICK e \in 1 .. Len(toc) : e = nr + 1 /\ e - 1 = nr /\ e > 1
  BY <1>2, <1>3 DEF EndBecomesPregap
<1>9. PICK t, v : t = toc[e] /\ v = SetStart(PrependTrackData(t, list), k)
  OBVIOUS
<1>10. GoodAudio(t) /\ Fine(t, d) /\ t.start = 0 /\ t.length \in Nat
  <2>1. IsPlainAudio(t) /\ t.start = 0
    BY <1>2, <1>8, <1>9 DEF EndBecomesPregap
  <2> QED
    BY <1>8, <1>9, <2>1, DiscPositions, PlainIsAudio
<1>11. StartOf(toc, e) - lba = k
  BY <1>6, <1>8, <1>9, <1>10, DiscPositions
<1>12. Fine(v, d)
  <2>1. k = k + t.start /\ k \in Nat \ {0} /\ RealLength(list) = k * SAMPLES_PER_BLOCK
    BY <1>7, <1>10 DEF Blocks
  <2>2. GoodAudio(v) /\ t.length - t.start <= v.length - v.start
    BY <1>7, <1>9, <1>10, <2>1, PregapGrown
  <2> QED
    BY <1>1, <1>10, <2>2, FineAsBefore DEF GoodAudio
<1>13. Disc([toc EXCEPT ![nr] = u, ![e] = v], d)
  BY <1>3, <1>7, <1>8, <1>12, DiscChanges
<1>14. toc' = [toc EXCEPT ![nr] = u, ![e] = v] /\ ~aborted'
  <2>1. AbortUnless(RemoveAsserts(toc[nr], SampleOf(pos)), Becomes([toc EXCEPT ![nr] = u, ![e] = v]))
    BY <1>2, <1>4, <1>5, <1>8, <1>9, <1>11 DEF EndBecomesPregap
  <2> QED
    BY <1>7, <2>1 DEF AbortUnless, Becomes
<1> QED
  BY <1>13, <1>14 DEF DiscKept

-----------------------------------------------------------------------------
(* The edits that add and remove audio keep a disc of good tracks.         *)

\* Where audio may come and go, nothing is asked of the length of a track.
LEMMA GoodIsFine ==
    ASSUME NEW u, Good(u)
    PROVE  Fine(u, 0)
<1>1. 0 # FourSeconds /\ Reserve(0)
  BY TrackAssumption DEF Reserve
<1> QED
  BY <1>1, FineIfLong

\* A new track at the end.
LEMMA NewTrackKeeps ==
    ASSUME Disc(toc, 0), NEW list \in AudioLists
    PROVE  Disc(WithNewTrack(list), 0)
<1>1. PICK u : u = AppendAll(NewTrack("AUDIO"), Filled(list))
  OBVIOUS
<1>2. GoodAudio(u)
  BY <1>1, NewGood, FilledIsAudio, AllAppendedIsGood
<1>3. Fine(u, 0)
  BY <1>2, GoodIsFine DEF GoodAudio
<1> QED
  BY <1>1, <1>3, TrackAppended DEF WithNewTrack

\* Audio at the end, and in the middle.
LEMMA AppendedKeeps ==
    ASSUME Disc(toc, 0), NEW list \in AudioLists, AppendToLastTrack(list)
    PROVE  Disc(toc', 0)
<1>1. CASE toc = <<>> /\ AudioBecomes(WithNewTrack(list))
  BY <1>1, NewTrackKeeps DEF AudioBecomes
<1>2. CASE toc # <<>> /\ IsPlainAudio(Last(toc)) /\ AudioBecomes([toc EXCEPT ![Len(toc)] = AppendAll(@, list)])
  <2>1. PICK n : n = Len(toc)
    OBVIOUS
  <2>2. n \in 1 .. Len(toc)
    BY <1>2, <2>1 DEF Disc
  <2>3. PICK u : u = AppendAll(toc[n], list)
    OBVIOUS
  <2>4. GoodAudio(toc[n])
    <3>1. IsPlainAudio(toc[n])
      BY <1>2, <2>1 DEF Last
    <3> QED
      BY <2>2, <3>1, PlainIsAudio
  <2>5. Fine(u, 0)
    BY <2>3, <2>4, AllAppendedIsGood, GoodIsFine DEF GoodAudio
  <2>6. Disc([toc EXCEPT ![n] = u], 0)
    BY <2>2, <2>5, DiscChanges
  <2>7. toc' = [toc EXCEPT ![n] = u]
    BY <1>2, <2>1, <2>3 DEF AudioBecomes
  <2> QED
    BY <2>6, <2>7
<1> QED
  BY <1>1, <1>2 DEF AppendToLastTrack

\* Audio that is inserted into a track, or behind the last one.
LEMMA InsertedKeeps ==
    ASSUME Disc(toc, 0), NEW pos \in Nat, NEW list \in AudioLists, NoPadding(list), InsertAudio(pos, list)
    PROVE  Disc(toc', 0)
<1>1. ASSUME NEW nr \in FindTrack(toc, pos), IsPlainAudio(toc[nr]),
             AudioBecomes([toc EXCEPT ![nr] = InsertTrackData(@, pos - SampleOf(AbsStart(toc, nr)), list)])
      PROVE  Disc(toc', 0)
  <2>1. nr \in 1 .. Len(toc) /\ SampleOf(AbsStart(toc, nr)) \in Nat /\ pos >= SampleOf(AbsStart(toc, nr))
    BY FoundTrack
  <2>2. PICK p \in Nat : p = pos - SampleOf(AbsStart(toc, nr))
    BY <2>1
  <2>3. PICK u : u = InsertTrackData(toc[nr], p, list)
    OBVIOUS
  <2>4. GoodAudio(u)
    BY <1>1, <2>1, <2>3, PlainIsAudio, InsertedIsGood
  <2>5. Fine(u, 0)
    BY <2>4, GoodIsFine DEF GoodAudio
  <2>6. Disc([toc EXCEPT ![nr] = u], 0)
    BY <2>1, <2>5, DiscChanges
  <2>7. toc' = [toc EXCEPT ![nr] = u]
    BY <1>1, <2>2, <2>3 DEF AudioBecomes
  <2> QED
    BY <2>6, <2>7
<1>2. ASSUME AppendToLastTrack(list) PROVE Disc(toc', 0)
  BY <1>2, AppendedKeeps
<1> QED
  BY <1>1, <1>2 DEF InsertAudio

\* The cut of first..last takes the samples f..l out of track nr, which starts at base.
CutInTrack(cut, first, last, nr, base, f, l) ==
    /\ GoodAudio(toc[nr]) /\ base = SampleOf(AbsStart(toc, nr))
    /\ first = base + f /\ last = base + l /\ f <= l /\ l < toc[nr].length * SAMPLES_PER_BLOCK
    /\ cut = [toc |-> [toc EXCEPT ![nr] = RemoveTrackData(toc[nr], f, l).track],
              list |-> RemoveTrackData(toc[nr], f, l).list]

\* A cut takes samples out of one track of plain audio.
LEMMA CutOfDisc ==
    ASSUME Disc(toc, 0), NEW first \in Nat, NEW last \in Nat, NEW cut \in CutFrom(toc, first, last)
    PROVE  \E nr \in 1 .. Len(toc) : \E base \in Nat, f \in Nat, l \in Nat : CutInTrack(cut, first, last, nr, base, f, l)
<1>1. PICK nr : /\ nr \in FindTrack(toc, first) /\ nr \in FindTrack(toc, last) /\ first <= last /\ IsPlainAudio(toc[nr])
                /\ cut = LET base == SampleOf(AbsStart(toc, nr))
                             removed == RemoveTrackData(toc[nr], first - base, last - base)
                         IN  [toc |-> [toc EXCEPT ![nr] = removed.track], list |-> removed.list]
  BY DEF CutFrom
<1>2. PICK base \in Nat : /\ base = SampleOf(AbsStart(toc, nr)) /\ first >= base /\ last >= base /\ nr \in 1 .. Len(toc)
                          /\ last < SampleOf(EndOf(toc, nr))
  BY <1>1, FoundTrack
<1>3. PICK f \in Nat, l \in Nat : f = first - base /\ l = last - base /\ f <= l
  BY <1>1, <1>2
<1>4. GoodAudio(toc[nr])
  BY <1>1, <1>2, PlainIsAudio
<1>5. l < toc[nr].length * SAMPLES_PER_BLOCK
  <2>1. PICK a \in Nat, n \in Nat, q \in Nat : a = AbsStart(toc, nr) /\ n = toc[nr].length /\ q = SAMPLES_PER_BLOCK
    BY <1>2, DiscPositions, TrackAssumption
  <2>2. EndOf(toc, nr) = a + n
    BY <1>2, <2>1, DiscPositions
  <2>3. SampleOf(a + n) = a * q + n * q /\ SampleOf(a) = a * q
    BY <2>1 DEF SampleOf
  <2>4. PICK aq \in Nat, nq \in Nat : aq = a * q /\ nq = n * q
    OBVIOUS
  <2>5. base = aq /\ SampleOf(EndOf(toc, nr)) = aq + nq
    BY <1>2, <2>1, <2>2, <2>3, <2>4
  <2>6. last < aq + nq /\ l = last - aq
    BY <1>2, <1>3, <2>5
  <2>7. l < nq
    BY ONLY <2>6, aq \in Nat, nq \in Nat, l \in Nat, last \in Nat
  <2>8. toc[nr].length * SAMPLES_PER_BLOCK = nq
    BY <2>1, <2>4
  <2> QED
    BY <2>7, <2>8
<1>6. cut = [toc |-> [toc EXCEPT ![nr] = RemoveTrackData(toc[nr], f, l).track],
             list |-> RemoveTrackData(toc[nr], f, l).list]
  BY <1>1, <1>2, <1>3
<1>7. first = base + f /\ last = base + l
  BY <1>2, <1>3
<1>8. CutInTrack(cut, first, last, nr, base, f, l)
  BY <1>2, <1>3, <1>4, <1>5, <1>6, <1>7 DEF CutInTrack
<1> QED
  BY <1>2, <1>8

\* A cut, whose samples come to the scrap.
LEMMA CutKeeps ==
    ASSUME Disc(toc, 0), NEW first \in Nat, NEW last \in Nat, Cut(first, last)
    PROVE  Disc(toc', 0) /\ scrap' \in AudioLists /\ NoPadding(scrap')
<1>1. PICK cut \in CutFrom(toc, first, last) : toc' = cut.toc /\ scrap' = cut.list
  BY DEF Cut, AudioBecomes
<1>2. PICK nr \in 1 .. Len(toc) : \E base \in Nat, f \in Nat, l \in Nat : CutInTrack(cut, first, last, nr, base, f, l)
  BY CutOfDisc
<1>9. PICK base \in Nat, f \in Nat, l \in Nat : CutInTrack(cut, first, last, nr, base, f, l)
  BY <1>2
<1>3. /\ GoodAudio(toc[nr]) /\ f <= l
      /\ cut = [toc |-> [toc EXCEPT ![nr] = RemoveTrackData(toc[nr], f, l).track],
                list |-> RemoveTrackData(toc[nr], f, l).list]
  BY <1>9 DEF CutInTrack
<1>4. PICK u, list : u = RemoveTrackData(toc[nr], f, l).track /\ list = RemoveTrackData(toc[nr], f, l).list
  OBVIOUS
<1>5. GoodAudio(u) /\ list \in AudioLists /\ NoPadding(list)
  BY <1>3, <1>4, CutIsGood
<1>6. Fine(u, 0)
  BY <1>5, GoodIsFine DEF GoodAudio
<1>7. Disc([toc EXCEPT ![nr] = u], 0)
  BY <1>6, DiscChanges
<1>8. toc' = [toc EXCEPT ![nr] = u] /\ scrap' = list
  BY <1>1, <1>3, <1>4
<1> QED
  BY <1>5, <1>7, <1>8

\* Positions in samples.
LEMMA SampleFacts ==
    ASSUME NEW a \in Int, NEW b \in Int
    PROVE  /\ SampleOf(a) \in Int /\ (a \in Nat => SampleOf(a) \in Nat)
           /\ SampleOf(a + b) = SampleOf(a) + SampleOf(b)
           /\ (a < b => SampleOf(a) < SampleOf(b)) /\ (a <= b => SampleOf(a) <= SampleOf(b))
<1>1. PICK q \in Nat \ {0} : q = SAMPLES_PER_BLOCK
  BY TrackAssumption
<1>2. PICK aq \in Int, bq \in Int : aq = a * q /\ bq = b * q
  OBVIOUS
<1>3. (a + b) * q = aq + bq
  BY <1>2
<1>4. a < b => aq < bq
  <2> HAVE a < b
  <2>1. PICK j \in Nat : b = a + 1 + j
    OBVIOUS
  <2>2. PICK jq \in Nat : jq = j * q
    OBVIOUS
  <2>3. (a + 1 + j) * q = a * q + q + j * q
    OBVIOUS
  <2>4. bq = aq + q + jq
    BY <1>2, <2>1, <2>2, <2>3
  <2> QED
    BY <2>4
<1>5. a <= b => aq <= bq
  BY <1>2, <1>4
<1>6. a \in Nat => aq \in Nat
  BY <1>2
<1> QED
  BY <1>1, <1>2, <1>3, <1>4, <1>5, <1>6 DEF SampleOf

LEMMA SampleIsNat == ASSUME NEW a \in Nat PROVE SampleOf(a) \in Nat
  BY SampleFacts
LEMMA SampleIsInt == ASSUME NEW a \in Int PROVE SampleOf(a) \in Int
  BY SampleFacts
LEMMA SampleOfSum == ASSUME NEW a \in Int, NEW b \in Int PROVE SampleOf(a + b) = SampleOf(a) + SampleOf(b)
  BY SampleFacts
LEMMA SamplesInOrder == ASSUME NEW a \in Int, NEW b \in Int PROVE a <= b => SampleOf(a) <= SampleOf(b)
  BY SampleFacts

\* Where a sample of a track goes on the disc.
LEMMA GoneOnDisc ==
    ASSUME NEW a \in Nat, NEW x \in Nat, NEW f \in Nat, NEW l \in Nat
    PROVE  GoneTo(x, f, l) \in Int /\ GoneTo(a + x, a + f, a + l) = a + GoneTo(x, f, l)
<1>1. (a + x < a + f <=> x < f) /\ (a + x > a + l <=> x > l)
  OBVIOUS
<1>2. (a + x) - ((a + l) - (a + f) + 1) = a + (x - (l - f + 1))
  OBVIOUS
<1> QED
  BY <1>1, <1>2 DEF GoneTo

\* The marks of a disc, one by one.
LEMMA MarkOfDisc ==
    ASSUME NEW T, NEW m
    PROVE  m \in MarkSamples(T) <=> \E k \in DOMAIN T : \E i \in DOMAIN T[k].index : m = SampleOf(StartOf(T, k) + T[k].index[i])
  BY DEF MarkSamples

\* A mark that was a mark of t, whose cut it survived.
LEMMA MarkInCutTrack ==
    ASSUME NEW A \in Nat, NEW v \in Nat, NEW w \in Nat, NEW f \in Nat, NEW l \in Nat, NEW e \in 0 .. 2 * SAMPLES_PER_BLOCK - 1,
           SampleOf(w) = GoneTo(SampleOf(v), f, l) - e
    PROVE  SampleOf(A + w) - GoneTo(SampleOf(A + v), SampleOf(A) + f, SampleOf(A) + l) \in 1 - 2 * SAMPLES_PER_BLOCK .. 0
<1>1. PICK q \in Nat \ {0} : q = SAMPLES_PER_BLOCK
  BY TrackAssumption
<1>2. PICK a \in Nat, x \in Nat, y \in Nat : /\ a = SampleOf(A) /\ x = SampleOf(v) /\ y = SampleOf(w)
                                             /\ SampleOf(A + v) = a + x /\ SampleOf(A + w) = a + y
  <2>1. SampleOf(A) \in Nat /\ SampleOf(v) \in Nat /\ SampleOf(w) \in Nat
    BY SampleIsNat
  <2>2. A \in Int /\ v \in Int /\ w \in Int
    OBVIOUS
  <2>3. SampleOf(A + v) = SampleOf(A) + SampleOf(v)
    BY ONLY <2>2, SampleOfSum
  <2>4. SampleOf(A + w) = SampleOf(A) + SampleOf(w)
    BY ONLY <2>2, SampleOfSum
  <2> QED
    BY <2>1, <2>3, <2>4
<1>3. PICK g \in Int : g = GoneTo(x, f, l) /\ GoneTo(a + x, a + f, a + l) = a + g
  <2>1. a \in Nat /\ x \in Nat /\ f \in Nat /\ l \in Nat
    OBVIOUS
  <2>2. GoneTo(x, f, l) \in Int
    BY ONLY <2>1, GoneOnDisc
  <2>3. GoneTo(a + x, a + f, a + l) = a + GoneTo(x, f, l)
    BY ONLY <2>1, GoneOnDisc
  <2> QED
    BY <2>2, <2>3
<1>4. y = g - e
  BY <1>2, <1>3
<1>5. (a + y) - (a + g) = -e /\ -e \in 1 - 2 * q .. 0
  BY <1>1, <1>4
<1> QED
  BY <1>1, <1>2, <1>3, <1>5

\* Every mark of the disc after a cut is near where a mark of the disc has gone.
LEMMA CutMarksNear ==
    ASSUME Disc(toc, 0), NEW first \in Nat, NEW last \in Nat, NEW cut \in CutFrom(toc, first, last), NEW m \in MarkSamples(cut.toc)
    PROVE  \E old \in MarkSamples(toc) :
              m - GoneTo(old, first, last) \in 1 - 2 * SAMPLES_PER_BLOCK .. 2 * SAMPLES_PER_BLOCK - 1
<1>1. PICK nr \in 1 .. Len(toc) : \E base \in Nat, f \in Nat, l \in Nat : CutInTrack(cut, first, last, nr, base, f, l)
  BY CutOfDisc
<1>18. PICK base \in Nat, f \in Nat, l \in Nat : CutInTrack(cut, first, last, nr, base, f, l)
  BY <1>1
<1>2. /\ GoodAudio(toc[nr]) /\ base = SampleOf(AbsStart(toc, nr))
      /\ first = base + f /\ last = base + l /\ f <= l /\ l < toc[nr].length * SAMPLES_PER_BLOCK
      /\ cut = [toc |-> [toc EXCEPT ![nr] = RemoveTrackData(toc[nr], f, l).track],
                list |-> RemoveTrackData(toc[nr], f, l).list]
  BY <1>18 DEF CutInTrack
<1>3. PICK t, u : t = toc[nr] /\ u = RemoveTrackData(t, f, l).track
  OBVIOUS
<1>4. GoodAudio(u) /\ MarksNear(t, u, f, l)
  BY <1>2, <1>3, CutIsGood
<1>5. PICK U : U = [toc EXCEPT ![nr] = u] /\ cut.toc = U
  BY <1>2, <1>3
<1>6. Disc(U, 0)
  <2>1. Fine(u, 0)
    BY <1>4, GoodIsFine DEF GoodAudio
  <2>2. Disc([toc EXCEPT ![nr] = u], 0)
    BY <2>1, DiscChanges
  <2> QED
    BY <1>5, <2>2
<1>7. Len(U) = Len(toc) /\ U[nr] = u /\ \A k \in 1 .. Len(toc) : k # nr => U[k] = toc[k]
  BY <1>5, TracksAfter
<1>8. DOMAIN toc = 1 .. Len(toc) /\ DOMAIN U = 1 .. Len(toc)
  BY <1>6, <1>7 DEF Disc
<1>0. PICK k \in 1 .. Len(toc) : \E j \in DOMAIN U[k].index : m = SampleOf(StartOf(U, k) + U[k].index[j])
  <2>1. m \in MarkSamples(U)
    BY <1>5
  <2>2. \E k \in DOMAIN U : \E j \in DOMAIN U[k].index : m = SampleOf(StartOf(U, k) + U[k].index[j])
    BY ONLY <2>1, MarkOfDisc
  <2> QED
    BY ONLY <1>8, <2>2
<1>9. PICK j \in DOMAIN U[k].index : m = SampleOf(StartOf(U, k) + U[k].index[j])
  BY <1>0
<1>10. PICK len \in Nat, rest \in Nat, A \in Nat : len = t.length /\ rest = u.length /\ A = AbsStart(toc, nr)
  BY <1>3, <1>4, DiscPositions, GoodFacts DEF GoodAudio
<1>11. AbsStart(U, k) = IF k <= nr THEN AbsStart(toc, k) ELSE AbsStart(toc, k) + (rest - len)
  <2>1. \A i \in 1 .. Len(toc) : i # nr => U[i].length = toc[i].length
    BY <1>7
  <2>2. AbsStart(U, k) = IF k <= nr THEN AbsStart(toc, k) ELSE AbsStart(toc, k) + (U[nr].length - toc[nr].length)
    BY <1>6, <1>7, <2>1, StartsShift
  <2> QED
    BY <1>3, <1>7, <1>10, <2>2
<1>12. StartOf(U, k) = AbsStart(U, k) + U[k].start
  BY DEF StartOf
<1>13. PICK q \in Nat \ {0} : q = SAMPLES_PER_BLOCK
  BY TrackAssumption
<1>14. CASE k = nr
  <2>1. PICK i \in DOMAIN t.index : \E e \in 0 .. 2 * q - 1 :
          /\ (u.start + u.index[j]) * q = GoneTo((t.start + t.index[i]) * q, f, l) - e
          /\ t.index[i] \in Nat /\ u.index[j] \in Nat
    BY <1>4, <1>7, <1>9, <1>13, <1>14 DEF MarksNear
  <2>2. PICK e \in 0 .. 2 * q - 1 :
          /\ (u.start + u.index[j]) * q = GoneTo((t.start + t.index[i]) * q, f, l) - e
          /\ t.index[i] \in Nat /\ u.index[j] \in Nat
    BY <2>1
  <2>3. PICK v \in Nat, w \in Nat : v = t.start + t.index[i] /\ w = u.start + u.index[j]
    <3>1. t.start \in Nat /\ u.start \in Nat
      BY <1>2, <1>3, <1>4, GoodFacts DEF GoodAudio
    <3> QED
      BY <2>2, <3>1, SMTT(30)
  <2>4. SampleOf(w) = GoneTo(SampleOf(v), f, l) - e
    BY <1>13, <2>2, <2>3 DEF SampleOf
  <2>5. SampleOf(A + w) - GoneTo(SampleOf(A + v), SampleOf(A) + f, SampleOf(A) + l) \in 1 - 2 * q .. 0
    BY <1>13, <2>4, MarkInCutTrack
  <2>6. m = SampleOf(A + w)
    <3>1. PICK z \in Nat, y \in Nat : z = u.index[j] /\ y = u.start /\ w = y + z
      BY <1>4, <2>2, <2>3, GoodFacts DEF GoodAudio
    <3>2. AbsStart(U, k) = A
      BY <1>10, <1>11, <1>14
    <3>3. StartOf(U, k) + U[k].index[j] = (A + y) + z
      BY <1>7, <1>12, <1>14, <3>1, <3>2
    <3>4. (A + y) + z = A + w
      BY <3>1
    <3> QED
      BY <1>9, <3>3, <3>4
  <2>7. SampleOf(A + v) \in MarkSamples(toc)
    <3>1. StartOf(toc, nr) + toc[nr].index[i] = A + v
      <4>1. PICK y \in Nat, z \in Nat : y = t.start /\ z = t.index[i] /\ v = y + z
        <5>1. t.start \in Nat
          BY <1>3, DiscPositions
        <5> QED
          BY <2>2, <2>3, <5>1
      <4>2. StartOf(toc, nr) = A + y
        BY <1>3, <1>10, <4>1, DiscPositions
      <4>3. (A + y) + z = A + (y + z)
        OBVIOUS
      <4>4. StartOf(toc, nr) + toc[nr].index[i] = (A + y) + z
        BY <1>3, <4>1, <4>2
      <4>5. A + (y + z) = A + v
        BY <4>1
      <4> QED
        BY ONLY <4>3, <4>4, <4>5
    <3>2. nr \in DOMAIN toc /\ i \in DOMAIN toc[nr].index
      BY <1>3, <1>8
    <3> QED
      BY <3>1, <3>2, MarkOfDisc
  <2>8. first = SampleOf(A) + f /\ last = SampleOf(A) + l
    BY <1>2, <1>10
  <2>9. \A z : z \in 1 - 2 * q .. 0 => z \in 1 - 2 * q .. 2 * q - 1
    OBVIOUS
  <2> QED
    BY <1>13, <2>5, <2>6, <2>7, <2>8, <2>9
<1>15. ASSUME k # nr
       PROVE  \E x \in Nat : /\ SampleOf(x) \in MarkSamples(toc) /\ x >= AbsStart(toc, k) /\ x < EndOf(toc, k)
                             /\ m = SampleOf(x + IF k <= nr THEN 0 ELSE rest - len)
  <2>1. PICK p : p = toc[k]
    OBVIOUS
  <2>2. /\ AbsStart(toc, k) \in Nat /\ p.start \in Nat /\ p.length \in Nat /\ Good(p)
        /\ StartOf(toc, k) = AbsStart(toc, k) + p.start /\ EndOf(toc, k) = AbsStart(toc, k) + p.length
    BY <2>1, DiscPositions
  <2>3. U[k] = p /\ j \in DOMAIN p.index
    BY <1>7, <1>9, <1>15, <2>1
  <2>4. p.index[j] \in Nat /\ p.start + p.index[j] < p.length
    <3>1. p.index \in Seq(Nat) /\ \A i \in DOMAIN p.index : p.start + p.index[i] < p.length
      BY <2>2, GoodFacts DEF Marks
    <3>2. PICK y \in Seq(Nat) : y = p.index
      BY <3>1
    <3>3. y[j] \in Nat
      BY <2>3, <3>2
    <3> QED
      BY <2>3, <3>1, <3>2, <3>3
  <2>5. PICK x \in Nat : x = AbsStart(toc, k) + p.start + p.index[j]
    BY <2>2, <2>4
  <2>6. SampleOf(x) \in MarkSamples(toc)
    <3>1. x = StartOf(toc, k) + toc[k].index[j]
      BY <2>1, <2>2, <2>5
    <3> QED
      BY <1>8, <2>1, <2>3, <3>1, MarkOfDisc
  <2>7. PICK by \in Int : by = IF k <= nr THEN 0 ELSE rest - len
    <3>1. rest - len \in Int
      OBVIOUS
    <3>2. (IF k <= nr THEN 0 ELSE rest - len) \in Int
      BY ONLY <3>1
    <3> QED
      BY ONLY <3>2
  <2>8. StartOf(U, k) + U[k].index[j] = x + by
    <3>1. PICK b \in Nat, y \in Nat, z \in Nat : b = AbsStart(toc, k) /\ y = p.start /\ z = p.index[j] /\ x = b + y + z
      BY <2>2, <2>4, <2>5
    <3>2. StartOf(U, k) + U[k].index[j] = AbsStart(U, k) + y + z
      BY <1>12, <2>3, <3>1
    <3>3. AbsStart(U, k) = b + by
      <4>1. CASE k <= nr
        BY <1>11, <2>7, <3>1, <4>1
      <4>2. CASE ~(k <= nr)
        BY <1>11, <2>7, <3>1, <4>2
      <4> QED
        BY <4>1, <4>2
    <3>4. (b + by) + y + z = (b + y + z) + by
      OBVIOUS
    <3>5. StartOf(U, k) + U[k].index[j] = (b + by) + y + z
      BY ONLY <3>2, <3>3
    <3>6. (b + y + z) + by = x + by
      BY ONLY <3>1
    <3> QED
      BY ONLY <3>4, <3>5, <3>6
  <2>9. m = SampleOf(x + by)
    BY <1>9, <2>8
  <2>10. x >= AbsStart(toc, k) /\ x < EndOf(toc, k)
    <3>1. PICK b \in Nat, y \in Nat, z \in Nat, n \in Nat :
            b = AbsStart(toc, k) /\ y = p.start /\ z = p.index[j] /\ n = p.length
      BY <2>2, <2>4
    <3>2. x = b + y + z /\ EndOf(toc, k) = b + n /\ y + z < n
      BY <2>2, <2>4, <2>5, <3>1
    <3>3. b + y + z >= b /\ b + y + z < b + n
      BY <3>2
    <3> QED
      BY ONLY <3>1, <3>2, <3>3
  <2> QED
    BY <2>6, <2>7, <2>9, <2>10
<1>16. CASE k < nr
  <2>1. PICK x \in Nat : SampleOf(x) \in MarkSamples(toc) /\ x < EndOf(toc, k) /\ m = SampleOf(x + 0)
    BY <1>15, <1>16
  <2>2. EndOf(toc, k) <= A /\ EndOf(toc, k) \in Nat
    <3>1. EndOf(toc, k) \in Nat /\ EndOf(toc, k) <= AbsStart(toc, nr)
      BY ONLY Disc(toc, 0), k \in 1 .. Len(toc), nr \in 1 .. Len(toc), <1>16, TracksFollow
    <3> QED
      BY <1>10, <3>1
  <2>3. m = SampleOf(x) /\ m < SampleOf(A) /\ m \in Nat
    <3>1. x < A /\ x + 0 = x
      BY <2>1, <2>2
    <3>2. SampleOf(x) < SampleOf(A)
      BY <3>1, SampleFacts
    <3> QED
      BY <2>1, <3>1, <3>2, SampleIsNat
  <2>4. GoneTo(m, first, last) = m
    BY <1>2, <1>10, <2>3, SMTT(30) DEF GoneTo
  <2>5. m - m \in 1 - 2 * q .. 2 * q - 1
    BY <2>3
  <2> QED
    BY <1>13, <2>1, <2>3, <2>4, <2>5
<1>17. CASE k > nr
  <2>1. PICK x \in Nat : SampleOf(x) \in MarkSamples(toc) /\ x >= AbsStart(toc, k) /\ m = SampleOf(x + (rest - len))
    BY <1>15, <1>17
  <2>2. EndOf(toc, nr) <= AbsStart(toc, k) /\ AbsStart(toc, k) \in Nat
    BY <1>17, TracksFollow, DiscPositions
  <2>3. EndOf(toc, nr) = A + len
    BY <1>3, <1>10, DiscPositions
  <2>4. PICK e \in 1 - q .. q - 1 : SampleOf(len - rest) = (l - f + 1) + e
    <3>1. l < t.length * q
      BY <1>2, <1>3, <1>13
    <3> QED
      BY <1>4, <1>10, <1>13, <3>1 DEF MarksNear, SampleOf
  <2>5. PICK o \in Nat, a \in Nat, n \in Nat : o = SampleOf(x) /\ a = SampleOf(A) /\ n = SampleOf(len) /\ o >= a + n
    <3>1. A + len <= x
      BY <1>10, <2>1, <2>2, <2>3
    <3>2. SampleOf(A + len) <= SampleOf(x) /\ SampleOf(A + len) = SampleOf(A) + SampleOf(len)
      <4>1. PICK c \in Nat : c = A + len /\ c <= x
        BY <3>1
      <4>2. SampleOf(c) <= SampleOf(x)
        BY <4>1, SampleFacts
      <4> QED
        BY <4>1, <4>2, SampleOfSum
    <3>3. SampleOf(x) \in Nat /\ SampleOf(A) \in Nat /\ SampleOf(len) \in Nat
      BY SampleIsNat
    <3> QED
      BY <3>2, <3>3
  <2>6. l < n
    <3>1. l < t.length * SAMPLES_PER_BLOCK
      BY <1>2, <1>3
    <3>2. n = t.length * SAMPLES_PER_BLOCK
      BY <1>10, <2>5 DEF SampleOf
    <3> QED
      BY <3>1, <3>2
  <2>7. o > last /\ ~(o < first) /\ last - first + 1 = l - f + 1
    <3>1. first = a + f /\ last = a + l /\ f <= l
      BY <1>2, <1>10, <2>5
    <3>2. o >= a + n /\ l < n
      BY <2>5, <2>6
    <3>3. o \in Nat /\ a \in Nat /\ n \in Nat /\ f \in Nat /\ l \in Nat
      OBVIOUS
    <3> QED
      BY ONLY <3>1, <3>2, <3>3
  <2>8. GoneTo(o, first, last) = o - (l - f + 1)
    BY <2>7 DEF GoneTo
  <2>9. m = o - SampleOf(len - rest)
    <3>1. len - rest \in Int /\ rest - len \in Int
      OBVIOUS
    <3>2. SampleOf((rest - len) + (len - rest)) = SampleOf(rest - len) + SampleOf(len - rest)
      BY ONLY <3>1, SampleOfSum
    <3>3. (rest - len) + (len - rest) = 0 /\ SampleOf(0) = 0
      BY <1>13 DEF SampleOf
    <3>4. SampleOf(x + (rest - len)) = SampleOf(x) + SampleOf(rest - len)
      <4>1. x \in Int
        OBVIOUS
      <4> QED
        BY ONLY <3>1, <4>1, SampleOfSum
    <3>5. SampleOf(rest - len) \in Int /\ SampleOf(len - rest) \in Int
      BY ONLY <3>1, SampleIsInt
    <3>6. PICK c \in Int, d \in Int : c = SampleOf(rest - len) /\ d = SampleOf(len - rest)
      BY <3>5
    <3>7. c + d = 0 /\ m = o + c
      BY <2>1, <2>5, <3>2, <3>3, <3>4, <3>6
    <3> QED
      BY <3>6, <3>7, SMTT(30)
  <2>10. m - (o - (l - f + 1)) = -e
    BY <2>4, <2>9
  <2>11. -e \in 1 - 2 * q .. 2 * q - 1
    OBVIOUS
  <2> QED
    BY <1>13, <2>1, <2>5, <2>8, <2>10, <2>11
<1> QED
  BY <1>14, <1>16, <1>17

-----------------------------------------------------------------------------
(* The invariant of an editing session.                                    *)

\* d is the number of blocks that stay behind each pre-gap: 0 if audio may be
\* added and removed, FourSeconds if only marks are edited.
EditInv(d) ==
    /\ Disc(toc, d)
    /\ scrap \in AudioLists /\ NoPadding(scrap)
    /\ aborted \in BOOLEAN /\ (d = FourSeconds => ~aborted)
    /\ audioEdits \in 0 .. MaxAudioEdits

\* A track that reading a TOC file leaves is a good one.
LEMMA PlainTrackIsGood ==
    ASSUME NEW t, PlainTrack(t)
    PROVE  Good(t)
<1>1. PICK m \in {"AUDIO", "DATA"}, subs \in Seq(PieceType), n \in Nat, s \in Nat, x \in Seq(Nat) :
         t = [mode |-> m, subTracks |-> subs, length |-> n, start |-> s, index |-> x]
  BY DEF PlainTrack
<1>2. IsTrack(t)
  <2>1. DOMAIN t = {"mode", "subTracks", "length", "start", "index"}
    BY <1>1
  <2>2. t.mode \in Modes /\ t.length \in Nat /\ t.start \in Nat /\ t.index \in Seq(Nat)
    BY <1>1 DEF Modes
  <2>3. \A i \in DOMAIN t.subTracks : t.subTracks[i] \in PieceType
    BY <1>1
  <2> QED
    BY <2>1, <2>2, <2>3 DEF IsTrack, PlainTrack
<1>3. ASSUME t.mode = "AUDIO" PROVE t \in WholeTracks
  <2>1. Update(t) = t /\ \A i \in DOMAIN subs : subs[i].mode = "AUDIO"
    BY <1>1, <1>3 DEF PlainTrack, IsPlainAudio
  <2>2. subs \in AudioLists
    <3>1. PICK k \in Nat : k = Len(subs) /\ DOMAIN subs = 1 .. k /\ subs = [i \in 1 .. k |-> subs[i]]
      OBVIOUS
    <3>2. ASSUME NEW i \in 1 .. k PROVE subs[i] \in AudioPieces
      <4>1. subs[i] \in PieceType
        BY <3>1, ElementOfSeq
      <4>2. subs[i].mode = "AUDIO"
        BY <2>1, <3>1
      <4> QED
        BY <4>1, <4>2 DEF PieceType, AudioPieces
    <3>3. PICK R : R = AudioPieces
      OBVIOUS
    <3>4. subs \in [1 .. k -> R]
      BY <3>1, <3>2, <3>3
    <3>5. subs \in Seq(R)
      BY ONLY <3>4, k \in Nat
    <3> QED
      BY <3>3, <3>5 DEF AudioLists
  <2>3. IsRecord(t)
    BY <1>1 DEF IsRecord
  <2>4. [t EXCEPT !.subTracks = subs] = t
    BY <1>1
  <2>5. MadeFrom(t, t, subs)
    BY <2>1, <2>2, <2>3, <2>4, UpdatedWith
  <2>6. t.start \in Nat /\ t.index \in Seq(Nat)
    BY <1>1
  <2> QED
    BY <1>3, <2>2, <2>5, <2>6, MadeWhole
<1>4. t.mode # "RW" /\ OrderedMarks(t)
  BY <1>1 DEF PlainTrack
<1> QED
  BY <1>2, <1>3, <1>4 DEF Good

\* What reading a TOC file leaves is a disc of good tracks.
LEMMA PlainTocIsDisc ==
    ASSUME NEW d, Reserve(d), NEW T, PlainToc(T), d = FourSeconds => LongToc(T)
    PROVE  Disc(T, d)
<1>1. Len(T) \in Nat /\ DOMAIN T = 1 .. Len(T) /\ T = [i \in 1 .. Len(T) |-> T[i]]
  BY DEF PlainToc
<1>2. ASSUME NEW i \in 1 .. Len(T) PROVE Fine(T[i], d)
  <2>1. PICK t : t = T[i]
    OBVIOUS
  <2>2. Good(t)
    BY <1>1, <2>1, PlainTrackIsGood DEF PlainToc
  <2>3. t.start \in Nat /\ t.length \in Nat /\ Length(t) = t.length
    BY <2>2, GoodFacts
  <2>4. d = FourSeconds => t.length - t.start >= FourSeconds
    BY <1>1, <2>1, <2>3 DEF LongToc
  <2>5. d = FourSeconds => t.start + FourSeconds <= t.length
    BY <2>3, <2>4, TrackAssumption
  <2>6. Fine(t, d)
    BY <2>2, <2>5, FineIfLong
  <2> QED
    BY <2>1, <2>6
<1> QED
  BY <1>1, <1>2 DEF Disc

\* A session starts in the invariant.
LEMMA EditInvInit ==
    ASSUME PlainSession, NEW d, Reserve(d), d = FourSeconds => MarkerSession, Init
    PROVE  EditInv(d)
<1>1. PlainToc(toc) /\ (d = FourSeconds => LongToc(toc))
  BY DEF Init, PlainSession, MarkerSession
<1>2. Disc(toc, d)
  BY <1>1, PlainTocIsDisc
<1>3. scrap \in AudioLists /\ NoPadding(scrap)
  <2>1. PICK none : none = scrap
    OBVIOUS
  <2>2. none = <<>> /\ Len(none) = 0
    BY <2>1 DEF Init
  <2>3. none \in Seq(AudioPieces)
    BY <2>2
  <2> QED
    BY <2>1, <2>2, <2>3 DEF AudioLists, NoPadding
<1> QED
  <2>1. aborted \in BOOLEAN /\ ~aborted
    BY DEF Init
  <2>2. audioEdits \in 0 .. MaxAudioEdits
    BY EditAssumption DEF Init
  <2> QED
    BY <1>2, <1>3, <2>1, <2>2 DEF EditInv

\* A file that may be added.
LEMMA FileIsAudio ==
    ASSUME NEW p \in AudioFiles
    PROVE  <<p>> \in AudioLists /\ NoPadding(<<p>>)
<1>1. p \in PieceType /\ p.mode = "AUDIO" /\ ~IsPadding(p)
  BY DEF AudioFiles
<1>2. p \in AudioPieces /\ ~p.pad
  BY <1>1 DEF PieceType, AudioPieces, IsPadding
<1>3. PICK R : R = AudioPieces
  OBVIOUS
<1>4. <<p>> \in Seq(R) /\ Len(<<p>>) = 1 /\ <<p>>[1] = p
  BY <1>2, <1>3
<1> QED
  BY <1>2, <1>3, <1>4 DEF AudioLists, NoPadding

\* Edits that add or remove audio count.
LEMMA AudioEditCounted ==
    ASSUME EditInv(0), NEW T, AudioBecomes(T)
    PROVE  audioEdits' \in 0 .. MaxAudioEdits /\ aborted' \in BOOLEAN /\ MaxAudioEdits # 0 /\ toc' = T
<1>1. audioEdits < MaxAudioEdits /\ audioEdits' = audioEdits + 1 /\ aborted' = aborted /\ toc' = T
  BY DEF AudioBecomes
<1>2. audioEdits \in 0 .. MaxAudioEdits /\ MaxAudioEdits \in Nat /\ aborted \in BOOLEAN
  BY EditAssumption DEF EditInv
<1> QED
  BY <1>1, <1>2

\* A file is added, or the scrap pasted.
LEMMA EditInvAudio ==
    ASSUME EditInv(0), NEW pos \in Nat, NEW list \in AudioLists, NoPadding(list), UNCHANGED scrap,
           AppendTrack(list) \/ AppendToLastTrack(list) \/ InsertAudio(pos, list)
    PROVE  EditInv(0)' /\ MaxAudioEdits # 0
<1>1. Disc(toc, 0) /\ scrap' \in AudioLists /\ NoPadding(scrap')
  BY DEF EditInv
<1>2. \E T : AudioBecomes(T)
  BY DEF AppendTrack, AppendToLastTrack, InsertAudio
<1>3. audioEdits' \in 0 .. MaxAudioEdits /\ aborted' \in BOOLEAN /\ MaxAudioEdits # 0
  BY <1>2, AudioEditCounted
<1>4. Disc(toc', 0)
  <2>1. CASE AppendTrack(list)
    <3>1. toc' = WithNewTrack(list)
      BY <2>1, AudioEditCounted DEF AppendTrack
    <3> QED
      BY <1>1, <3>1, NewTrackKeeps
  <2>2. CASE AppendToLastTrack(list)
    BY <1>1, <2>2, AppendedKeeps
  <2>3. CASE InsertAudio(pos, list)
    BY <1>1, <2>3, InsertedKeeps
  <2> QED
    BY <2>1, <2>2, <2>3
<1>5. 0 # FourSeconds
  BY TrackAssumption
<1> QED
  BY <1>1, <1>3, <1>4, <1>5 DEF EditInv

\* Samples are cut.
LEMMA EditInvCut ==
    ASSUME EditInv(0), NEW first \in Nat, NEW last \in Nat, Cut(first, last)
    PROVE  EditInv(0)' /\ MaxAudioEdits # 0
<1>1. Disc(toc, 0)
  BY DEF EditInv
<1>2. \E T : AudioBecomes(T)
  BY DEF Cut
<1>3. audioEdits' \in 0 .. MaxAudioEdits /\ aborted' \in BOOLEAN /\ MaxAudioEdits # 0
  BY <1>2, AudioEditCounted
<1>4. Disc(toc', 0) /\ scrap' \in AudioLists /\ NoPadding(scrap')
  BY <1>1, CutKeeps
<1>5. 0 # FourSeconds
  BY TrackAssumption
<1> QED
  BY <1>3, <1>4, <1>5 DEF EditInv

\* Each edit keeps the invariant.
LEMMA EditInvNext ==
    ASSUME NEW d, Reserve(d), d = FourSeconds => MaxAudioEdits = 0, EditInv(d), [Next]_vars
    PROVE  EditInv(d)'
<1>1. /\ Disc(toc, d) /\ scrap \in AudioLists /\ NoPadding(scrap)
      /\ aborted \in BOOLEAN /\ audioEdits \in 0 .. MaxAudioEdits /\ MaxAudioEdits \in Nat
  BY EditAssumption DEF EditInv
<1>2. ASSUME DiscKept(d), UNCHANGED <<scrap, audioEdits>>, aborted' \in BOOLEAN PROVE EditInv(d)'
  BY <1>1, <1>2 DEF EditInv, DiscKept
<1>3. ASSUME UNCHANGED vars PROVE EditInv(d)'
  BY <1>3 DEF vars, EditInv
<1>4. ASSUME NEW nr \in DOMAIN toc, NEW ix \in 0 .. MaxIndices + 1, NEW lba \in Lbas, MoveTrackMarker(nr, ix, lba)
      PROVE  EditInv(d)'
  <2>1. ~aborted /\ UNCHANGED <<scrap, audioEdits>> /\ aborted' \in BOOLEAN
    BY <1>1, <1>4 DEF MoveTrackMarker, MoveWithinTrack, MoveStartLeft, MoveStartRight, AbortUnless, Abort, Becomes
  <2>2. DiscKept(d)
    BY <1>1, <1>4, <2>1, MoveWithinKeeps, MoveLeftKeeps, MoveRightKeeps DEF MoveTrackMarker
  <2> QED
    BY <1>2, <2>1, <2>2
<1>5. ASSUME NEW lba \in Lbas, AddIndexMarker(lba) \/ AddTrackMarker(lba) \/ AddPregap(lba)
      PROVE  EditInv(d)'
  <2>1. ~aborted /\ UNCHANGED <<scrap, audioEdits>> /\ aborted' \in BOOLEAN
    BY <1>1, <1>5 DEF AddIndexMarker, AddTrackMarker, AddPregap, EndBecomesPregap, AbortUnless, Abort, Becomes
  <2>2. DiscKept(d)
    BY <1>1, <1>5, <2>1, AddIndexKeeps, AddTrackKeeps, AddPregapKeeps
  <2> QED
    BY <1>2, <2>1, <2>2
<1>6. ASSUME RemoveMarker \/ RemoveTrackMarker PROVE EditInv(d)'
  <2>1. CASE RemoveFirstPregap
    <3>1. UNCHANGED <<scrap, audioEdits>> /\ aborted' \in BOOLEAN
      BY <1>1, <2>1 DEF RemoveFirstPregap, Becomes
    <3> QED
      BY <1>1, <1>2, <2>1, <3>1, RemoveFirstPregapKeeps
  <2>2. ASSUME NEW nr \in DOMAIN toc, NEW ix \in 2 .. MaxIndices + 1, RemoveIndexMarker(nr, ix) PROVE EditInv(d)'
    <3>1. UNCHANGED <<scrap, audioEdits>> /\ aborted' \in BOOLEAN
      BY <1>1, <2>2 DEF RemoveIndexMarker, Becomes
    <3> QED
      BY <1>1, <1>2, <2>2, <3>1, RemoveIndexKeeps
  <2>3. ASSUME NEW nr \in DOMAIN toc, RemovePregap(nr) PROVE EditInv(d)'
    <3>1. ~aborted /\ UNCHANGED <<scrap, audioEdits>> /\ aborted' \in BOOLEAN
      BY <1>1, <2>3 DEF RemovePregap, AbortUnless, Abort, Becomes
    <3> QED
      BY <1>1, <1>2, <2>3, <3>1, RemovePregapKeeps
  <2>4. ASSUME NEW nr \in DOMAIN toc, RemoveTrack(nr) PROVE EditInv(d)'
    <3>1. UNCHANGED <<scrap, audioEdits>> /\ aborted' \in BOOLEAN
      BY <1>1, <2>4 DEF RemoveTrack, Becomes
    <3> QED
      BY <1>1, <1>2, <2>4, <3>1, RemoveTrackKeeps
  <2> QED
    BY <1>6, <2>1, <2>2, <2>3, <2>4 DEF RemoveMarker, RemoveTrackMarker
<1>7. ASSUME \E T : AudioBecomes(T) PROVE d = 0
  <2>1. audioEdits < MaxAudioEdits
    BY <1>7 DEF AudioBecomes
  <2>2. MaxAudioEdits # 0
    BY <1>1, <2>1
  <2> QED
    BY <2>2 DEF Reserve
<1>8. Samples \subseteq Nat
  BY DEF Samples
<1>9. ASSUME NEW pos \in Nat, NEW list \in AudioLists, NoPadding(list), UNCHANGED scrap,
             AppendTrack(list) \/ AppendToLastTrack(list) \/ InsertAudio(pos, list)
      PROVE  EditInv(d)'
  <2>1. \E T : AudioBecomes(T)
    BY <1>9 DEF AppendTrack, InsertAudio, AppendToLastTrack
  <2>2. d = 0
    BY <1>7, <2>1
  <2> QED
    BY <1>9, <2>2, EditInvAudio
<1>10. ASSUME AddAudio PROVE EditInv(d)'
  <2>1. PICK p \in NewPieces : /\ \/ AppendTrack(<<p>>)
                                  \/ AppendToLastTrack(<<p>>)
                                  \/ \E pos \in Samples : InsertAudio(pos, <<p>>)
                               /\ UNCHANGED scrap
    BY <1>10 DEF AddAudio
  <2>2. PICK list : list = <<p>>
    OBVIOUS
  <2>3. list \in AudioLists /\ NoPadding(list)
    BY <2>2, FileIsAudio, EditAssumption
  <2>4. PICK pos \in Nat : AppendTrack(list) \/ AppendToLastTrack(list) \/ InsertAudio(pos, list)
    <3>1. 0 \in Nat
      OBVIOUS
    <3> QED
      BY <1>8, <2>1, <2>2, <3>1
  <2> QED
    BY <1>9, <2>1, <2>3, <2>4
<1>11. ASSUME PasteScrap PROVE EditInv(d)'
  <2>1. PICK pos \in Samples : InsertAudio(pos, scrap) /\ UNCHANGED scrap
    BY <1>11 DEF PasteScrap, Paste
  <2> QED
    BY <1>1, <1>8, <1>9, <2>1
<1>12. ASSUME CutSelection PROVE EditInv(d)'
  <2>1. PICK first \in Nat, last \in Nat : Cut(first, last)
    BY <1>8, <1>12 DEF CutSelection
  <2>2. \E T : AudioBecomes(T)
    BY <2>1 DEF Cut
  <2>3. d = 0
    BY <1>7, <2>2
  <2> QED
    BY <2>1, <2>3, EditInvCut
<1> QED
  BY <1>3, <1>4, <1>5, <1>6, <1>10, <1>11, <1>12 DEF Next, MoveMarker, AddMarker

\* The invariant says all that the properties do.
LEMMA EditInvImplies ==
    ASSUME NEW d, Reserve(d), EditInv(d)
    PROVE  /\ TypeOK /\ MarksOrdered
           /\ d = FourSeconds => TracksLastFourSeconds /\ NoAssertionFails
<1>1. Disc(toc, d) /\ scrap \in AudioLists
  BY DEF EditInv
<1>2. /\ DOMAIN toc = 1 .. Len(toc)
      /\ \A nr \in 1 .. Len(toc) : Good(toc[nr]) /\ Fine(toc[nr], d)
  BY <1>1, DiscPositions DEF Disc
<1>3. toc \in Seq(ToSet(toc))
  <2>1. PICK S : S = ToSet(toc)
    OBVIOUS
  <2>2. PICK n \in Nat : n = Len(toc) /\ toc = [i \in 1 .. n |-> toc[i]]
    BY <1>1 DEF Disc
  <2>3. \A i \in 1 .. n : toc[i] \in S
    BY <1>2, <2>1, <2>2 DEF ToSet
  <2>4. toc \in [1 .. n -> S]
    BY <2>2, <2>3
  <2>5. toc \in Seq(S)
    BY ONLY <2>4, n \in Nat
  <2> QED
    BY <2>1, <2>5
<1>4. \A i \in DOMAIN scrap : scrap[i] \in PieceType
  <2>1. PICK n \in Nat : n = Len(scrap) /\ DOMAIN scrap = 1 .. n
    BY <1>1 DEF AudioLists
  <2>2. ASSUME NEW i \in 1 .. n PROVE scrap[i] \in PieceType
    <3>1. scrap[i] \in AudioPieces
      BY <1>1, <2>1, ElementOfSeq DEF AudioLists
    <3> QED
      BY <3>1 DEF AudioPieces, PieceType, Modes
  <2> QED
    BY <2>1, <2>2
<1>5. TypeOK
  <2>1. aborted \in BOOLEAN
    BY DEF EditInv
  <2>2. audioEdits \in 0 .. MaxAudioEdits
    BY DEF EditInv
  <2>3. \A nr \in DOMAIN toc : IsTrack(toc[nr])
    BY <1>2 DEF Good
  <2> QED
    BY <1>3, <1>4, <2>1, <2>2, <2>3 DEF TypeOK
<1>6. MarksOrdered
  BY <1>2 DEF MarksOrdered, Good
<1>7. ASSUME d = FourSeconds PROVE TracksLastFourSeconds
  <2>1. ASSUME NEW nr \in DOMAIN toc PROVE Length(toc[nr]) - toc[nr].start >= FourSeconds
    <3>1. PICK t : t = toc[nr]
      OBVIOUS
    <3>2. Good(t) /\ t.start + FourSeconds <= t.length
      BY <1>2, <1>7, <3>1 DEF Fine
    <3>3. t.start \in Nat /\ t.length \in Nat /\ Length(t) = t.length
      BY <3>2, GoodFacts
    <3> QED
      BY <3>1, <3>2, <3>3, TrackAssumption
  <2> QED
    BY <2>1 DEF TracksLastFourSeconds
<1>8. d = FourSeconds => NoAssertionFails
  BY DEF EditInv, NoAssertionFails
<1> QED
  BY <1>5, <1>6, <1>7, <1>8

\* Type correctness: whatever is edited, the tracks of a session without sub-channel
\* data stay tracks, and the scrap stays a list of pieces (trackdb/Toc.cc, Track.cc).
THEOREM EditTypeCorrect == ASSUME PlainSession PROVE Spec => []TypeOK
<1>1. PICK d : d = 0
  OBVIOUS
<1>2. Reserve(d) /\ d # FourSeconds
  BY <1>1, TrackAssumption DEF Reserve
<1>3. Init => EditInv(d)
  BY <1>2, EditInvInit
<1>4. EditInv(d) /\ [Next]_vars => EditInv(d)'
  BY <1>2, EditInvNext
<1>5. EditInv(d) => TypeOK
  BY <1>2, EditInvImplies
<1> QED
  BY <1>3, <1>4, <1>5, PTL DEF Spec

\* No sequence of edits, of marks and of audio alike, puts the marks of a track out
\* of order, lets two of them coincide, or leaves one behind the end of its track.
THEOREM MarksStayInOrder == ASSUME PlainSession PROVE Spec => []MarksOrdered
<1>1. PICK d : d = 0
  OBVIOUS
<1>2. Reserve(d) /\ d # FourSeconds
  BY <1>1, TrackAssumption DEF Reserve
<1>3. Init => EditInv(d)
  BY <1>2, EditInvInit
<1>4. EditInv(d) /\ [Next]_vars => EditInv(d)'
  BY <1>2, EditInvNext
<1>5. EditInv(d) => MarksOrdered
  BY <1>2, EditInvImplies
<1> QED
  BY <1>3, <1>4, <1>5, PTL DEF Spec

\* Whatever was edited before, and whatever is cut, an index mark is then less than two
\* blocks from where the sample has gone on which some mark stood before: the roundings of
\* the pre-gap, of the increments and of the length of the track never add up to more, and
\* no mark appears elsewhere (trackdb/Track.cc, removeTrackData(); Toc.cc, removeTrackData()).
THEOREM CutLeavesMarksNear == ASSUME PlainSession PROVE Spec => []CutKeepsMarksNear
<1>1. PICK d : d = 0
  OBVIOUS
<1>2. Reserve(d) /\ d # FourSeconds
  BY <1>1, TrackAssumption DEF Reserve
<1>3. Init => EditInv(d)
  BY <1>2, EditInvInit
<1>4. EditInv(d) /\ [Next]_vars => EditInv(d)'
  BY <1>2, EditInvNext
<1>5. EditInv(d) => CutKeepsMarksNear
  <2> HAVE EditInv(d)
  <2>1. Disc(toc, 0)
    BY <1>1 DEF EditInv
  <2>2. Samples \subseteq Nat
    BY DEF Samples
  <2>3. \A first, last \in Samples : \A cut \in CutFrom(toc, first, last) :
           \A m \in MarkSamples(cut.toc) : \E old \in MarkSamples(toc) :
              m - GoneTo(old, first, last) \in 1 - 2 * SAMPLES_PER_BLOCK .. 2 * SAMPLES_PER_BLOCK - 1
    BY <2>1, <2>2, CutMarksNear
  <2> QED
    BY <2>3 DEF CutKeepsMarksNear, GoneTo
<1> QED
  BY <1>3, <1>4, <1>5, PTL DEF Spec

\* A session that edits only marks, of tracks that last four seconds behind their
\* pre-gaps, leaves such tracks (trackdb/Toc.cc: the tests of four seconds in
\* moveTrackMarker(), addTrackMarker() and addPregap(), moveIndex() in Track.cc).
THEOREM TracksStayLong == ASSUME PlainSession, MarkerSession PROVE Spec => []TracksLastFourSeconds
<1>1. PICK d : d = FourSeconds
  OBVIOUS
<1>2. Reserve(d) /\ MarkerSession /\ MaxAudioEdits = 0
  BY <1>1 DEF Reserve, MarkerSession
<1>3. Init => EditInv(d)
  BY <1>2, EditInvInit
<1>4. EditInv(d) /\ [Next]_vars => EditInv(d)'
  BY <1>2, EditInvNext
<1>5. EditInv(d) => TracksLastFourSeconds
  BY <1>1, <1>2, EditInvImplies
<1> QED
  BY <1>3, <1>4, <1>5, PTL DEF Spec

\* In such a session no edit fails an assertion of Track: the arguments that Toc
\* hands to moveIndex(), removeToEnd() and removeFromStart() are always legal.
THEOREM MarkEditsNeverAbort == ASSUME PlainSession, MarkerSession PROVE Spec => []NoAssertionFails
<1>1. PICK d : d = FourSeconds
  OBVIOUS
<1>2. Reserve(d) /\ MarkerSession /\ MaxAudioEdits = 0
  BY <1>1 DEF Reserve, MarkerSession
<1>3. Init => EditInv(d)
  BY <1>2, EditInvInit
<1>4. EditInv(d) /\ [Next]_vars => EditInv(d)'
  BY <1>2, EditInvNext
<1>5. EditInv(d) => NoAssertionFails
  BY <1>1, <1>2, EditInvImplies
<1> QED
  BY <1>3, <1>4, <1>5, PTL DEF Spec

\* In such a session a track, index or pre-gap mark that is moved is then where it
\* was moved to, on the disc, whatever audio changed tracks on the way: no rounding,
\* and no pre-gap left over (trackdb/Toc.cc, moveTrackMarker(); Track.cc, moveIndex()).
THEOREM MovedMarksArrive == ASSUME PlainSession, MarkerSession PROVE Spec => MovedMarkerIsThere
<1>1. PICK d : d = FourSeconds
  OBVIOUS
<1>2. Reserve(d) /\ MarkerSession /\ MaxAudioEdits = 0
  BY <1>1 DEF Reserve, MarkerSession
<1>3. Init => EditInv(d)
  BY <1>2, EditInvInit
<1>4. EditInv(d) /\ [Next]_vars => EditInv(d)'
  BY <1>2, EditInvNext
<1>5. ASSUME EditInv(d), NEW nr \in DOMAIN toc, NEW ix \in 0 .. MaxIndices + 1, NEW lba \in Lbas,
             MoveTrackMarker(nr, ix, lba), ~aborted'
      PROVE  MarkerAt(toc', nr, ix) = lba
  <2>1. Disc(toc, d)
    BY <1>5 DEF EditInv
  <2>2. ~aborted
    BY <1>5 DEF MoveTrackMarker, MoveWithinTrack, MoveStartLeft, MoveStartRight, AbortUnless, Abort, Becomes
  <2>3. Arrives(d, nr, ix, lba)
    BY <1>2, <1>5, <2>1, <2>2, MoveWithinKeeps, MoveLeftKeeps, MoveRightKeeps DEF MoveTrackMarker
  <2> QED
    BY <1>1, <2>3 DEF Arrives
<1>6. EditInv(d) => \A nr \in DOMAIN toc, ix \in 0 .. MaxIndices + 1, lba \in Lbas :
                       MoveTrackMarker(nr, ix, lba) /\ ~aborted' => MarkerAt(toc', nr, ix) = lba
  BY <1>5
<1> QED
  BY <1>3, <1>4, <1>6, PTL DEF Spec, MovedMarkerIsThere

-----------------------------------------------------------------------------
(* The edits.                                                              *)

\* The edits that put no piece into a track that had others before.
MarkEdit ==
    \/ \E lba \in Lbas : AddIndexMarker(lba) \/ AddTrackMarker(lba)
    \/ RemoveFirstPregap
    \/ \E nr \in DOMAIN toc, ix \in 2 .. MaxIndices + 1 : RemoveIndexMarker(nr, ix)
    \/ \E nr \in DOMAIN toc, ix \in 0 .. MaxIndices + 1, lba \in Lbas : MoveWithinTrack(nr, ix, lba)

\* One track of the disc is exchanged for another one with ordered marks.
LEMMA OneTrackChanges ==
    ASSUME MarksOrdered, NEW nr \in DOMAIN toc, NEW t, OrderedMarks(t), toc' = [toc EXCEPT ![nr] = t]
    PROVE  MarksOrdered'
<1>1. DOMAIN toc' = DOMAIN toc /\ \A k \in DOMAIN toc : toc'[k] = IF k = nr THEN t ELSE toc[k]
  OBVIOUS
<1>2. \A k \in DOMAIN toc : OrderedMarks(toc'[k])
  BY <1>1 DEF MarksOrdered
<1> QED
  BY <1>1, <1>2 DEF MarksOrdered

\* Adding an index or a track mark, removing an index mark or the first pre-gap,
\* and moving a mark inside its track keep the marks of every track in order and
\* inside it (Track.cc: addIndex(), removeIndex(), moveIndex(), removeToEnd()).
THEOREM MarksStayOrdered == TypeOK /\ TypeOK' /\ MarksOrdered /\ MarkEdit => MarksOrdered'
<1> SUFFICES ASSUME TypeOK, TypeOK', MarksOrdered, MarkEdit PROVE MarksOrdered'
  OBVIOUS
<1>1. /\ Len(toc) \in Nat /\ DOMAIN toc = 1 .. Len(toc) /\ toc \in Seq(ToSet(toc))
      /\ \A nr \in DOMAIN toc : IsTrack(toc[nr]) /\ OrderedMarks(toc[nr])
  BY DEF TypeOK, MarksOrdered
<1>2. \A nr \in DOMAIN toc : toc[nr].start \in Nat /\ toc[nr].length \in Nat /\ toc[nr].index \in Seq(Nat)
  BY <1>1 DEF IsTrack
<1>3. \A nr \in DOMAIN toc : AbsStart(toc, nr) \in Nat /\ StartOf(toc, nr) \in Nat
  <2> TAKE nr \in DOMAIN toc
  <2>1. \A k \in 1 .. Len(toc) : Length(toc[k]) \in Nat
    BY <1>1, <1>2 DEF Length
  <2>2. nr \in 1 .. Len(toc) + 1
    BY <1>1
  <2>3. AbsStart(toc, nr) \in Nat
    BY <1>1, <2>1, <2>2, AbsStartNat
  <2> QED
    BY <1>2, <2>3 DEF StartOf
<1>4. ASSUME NEW lba \in Lbas, AddIndexMarker(lba) PROVE MarksOrdered'
  <2>1. PICK nr \in DOMAIN toc : /\ lba > StartOf(toc, nr)
                                 /\ toc' = [toc EXCEPT ![nr] = AddIndex(toc[nr], lba - StartOf(toc, nr)).track]
    BY <1>4 DEF AddIndexMarker, FindTrack, Becomes
  <2>2. lba - StartOf(toc, nr) \in Nat
    BY <1>3, <2>1 DEF Lbas
  <2>3. OrderedMarks(AddIndex(toc[nr], lba - StartOf(toc, nr)).track)
    BY <1>1, <2>2, AddIndexOrdered
  <2> QED
    BY <2>1, <2>3, OneTrackChanges
<1>5. ASSUME NEW lba \in Lbas, AddTrackMarker(lba) PROVE MarksOrdered'
  <2>1. CASE toc' = toc
    BY <2>1 DEF MarksOrdered
  <2>2. CASE toc' # toc
    <3>1. PICK nr \in DOMAIN toc :
            LET removed == RemoveToEnd(toc[nr], SampleOf(lba - AbsStart(toc, nr)))
            IN  toc' = InsertAt([toc EXCEPT ![nr] = removed.track], nr + 1,
                                AppendTrackData(NewTrack("AUDIO"), removed.list))
      BY <1>5, <2>2 DEF AddTrackMarker, FindTrack, AbortUnless, Abort, Becomes
    <3>2. PICK subs, list, t, new, T :
            /\ t = Keeping(toc[nr], subs) /\ new = AppendTrackData(NewTrack("AUDIO"), list)
            /\ T = [toc EXCEPT ![nr] = t] /\ toc' = InsertAt(T, nr + 1, new)
      <4>1. RemoveToEnd(toc[nr], SampleOf(lba - AbsStart(toc, nr))).track
              = Keeping(toc[nr], Split(toc[nr].subTracks, SampleOf(lba - AbsStart(toc, nr))).before)
        BY DEF RemoveToEnd, Removal
      <4> QED
        BY <3>1, <4>1
    <3>3. PICK S : S = ToSet(toc) \cup {t, new}
      OBVIOUS
    <3>4. /\ T \in Seq(S) /\ Len(T) = Len(toc) /\ new \in S /\ nr + 1 \in 1 .. Len(T) + 1
          /\ \A k \in 1 .. Len(T) : T[k] = IF k = nr THEN t ELSE toc[k]
      <4>1. toc \in Seq(S) /\ t \in S /\ nr \in 1 .. Len(toc)
        BY <1>1, <3>3
      <4> QED
        BY <3>2, <3>3, <4>1
    <3>5. /\ Len(toc') = Len(T) + 1 /\ toc' \in Seq(S)
          /\ \A j \in 1 .. Len(T) + 1 : toc'[j] = IF j < nr + 1 THEN T[j] ELSE IF j = nr + 1 THEN new ELSE T[j - 1]
      <4>1. PICK U, i : U = toc' /\ i = nr + 1
        OBVIOUS
      <4>2. T \in Seq(S) /\ i \in 1 .. Len(T) + 1 /\ new \in S
        BY <3>4, <4>1
      <4>3. /\ Len(U) = Len(T) + 1 /\ U \in Seq(S)
            /\ \A j \in 1 .. Len(T) + 1 : U[j] = IF j < i THEN T[j] ELSE IF j = i THEN new ELSE T[j - 1]
        <5>1. /\ InsertAt(T, i, new) \in Seq(S) /\ Len(InsertAt(T, i, new)) = Len(T) + 1
              /\ \A j \in 1 .. Len(T) + 1 :
                    InsertAt(T, i, new)[j] = IF j < i THEN T[j] ELSE IF j = i THEN new ELSE T[j - 1]
          BY ONLY <4>2, InsertAtProperties
        <5>2. U = InsertAt(T, i, new)
          BY <3>2, <4>1
        <5> QED
          BY ONLY <5>1, <5>2
      <4> QED
        BY <4>1, <4>3
    <3>6. OrderedMarks(t)
      <4>1. toc'[nr] = t /\ nr \in DOMAIN toc'
        BY <1>1, <3>4, <3>5
      <4>2. Length(t) \in Nat
        BY <4>1 DEF TypeOK, IsTrack, Length
      <4>3. RisingMarks(toc[nr].index) /\ IsTrack(toc[nr])
        BY <1>1 DEF RisingMarks, OrderedMarks
      <4> QED
        BY <3>2, <4>2, <4>3, KeepingOrdered
    <3>7. OrderedMarks(new)
      <4>1. new.index = <<>> /\ new.start = 0
        BY <3>2 DEF AppendTrackData, Merged, Update, NewTrack, ResetStart
      <4> QED
        BY <4>1 DEF OrderedMarks
    <3>8. ASSUME NEW j \in DOMAIN toc' PROVE OrderedMarks(toc'[j])
      <4>1. j \in 1 .. Len(T) + 1
        BY <3>5
      <4>2. CASE j < nr + 1
        <5>1. j \in 1 .. Len(T) /\ j \in DOMAIN toc
          BY <1>1, <3>4, <4>1, <4>2
        <5> QED
          BY <1>1, <3>4, <3>5, <3>6, <4>1, <4>2, <5>1
      <4>3. CASE j = nr + 1
        BY <3>5, <3>7, <4>1, <4>3
      <4>4. CASE j > nr + 1
        <5>1. j - 1 \in 1 .. Len(T) /\ j - 1 \in DOMAIN toc /\ j - 1 # nr /\ ~(j < nr + 1) /\ j # nr + 1
          BY <1>1, <3>4, <4>1, <4>4
        <5>2. toc'[j] = toc[j - 1]
          BY <3>4, <3>5, <4>1, <5>1
        <5> QED
          BY <1>1, <5>1, <5>2
      <4> QED
        BY <1>1, <4>1, <4>2, <4>3, <4>4
    <3> QED
      BY <3>8 DEF MarksOrdered
  <2> QED
    BY <2>1, <2>2
<1>6. ASSUME RemoveFirstPregap PROVE MarksOrdered'
  <2>1. 1 \in DOMAIN toc /\ toc' = [toc EXCEPT ![1] = SetStart(toc[1], 0)]
    BY <1>1, <1>6 DEF RemoveFirstPregap, Becomes
  <2>2. PICK t : t = SetStart(toc[1], 0)
    OBVIOUS
  <2>3. CASE t = toc[1]
    BY <1>1, <2>1, <2>2, <2>3, OneTrackChanges
  <2>4. CASE t # toc[1]
    <3>1. t = [toc[1] EXCEPT !.start = 0]
      BY <2>2, <2>4 DEF SetStart
    <3>2. t.start = 0 /\ t.index = toc[1].index /\ Length(t) = toc[1].length /\ Length(toc[1]) = toc[1].length
      BY <1>1, <2>1, <3>1 DEF IsTrack, Length
    <3>3. ASSUME NEW i \in DOMAIN t.index
          PROVE  0 < t.index[i] /\ t.start + t.index[i] < Length(t) /\ (i > 1 => t.index[i - 1] < t.index[i])
      <4>1. 0 < t.index[i] /\ toc[1].start + t.index[i] < toc[1].length /\ (i > 1 => t.index[i - 1] < t.index[i])
        BY <1>1, <2>1, <3>2 DEF OrderedMarks
      <4>2. t.index[i] \in Nat /\ toc[1].start \in Nat /\ toc[1].length \in Nat
        BY <1>2, <2>1, <3>2
      <4> QED
        BY <3>2, <4>1, <4>2
    <3>4. OrderedMarks(t)
      BY <3>2, <3>3 DEF OrderedMarks
    <3> QED
      BY <2>1, <2>2, <3>4, OneTrackChanges
  <2> QED
    BY <2>3, <2>4
<1>7. ASSUME NEW nr \in DOMAIN toc, NEW ix \in 2 .. MaxIndices + 1, RemoveIndexMarker(nr, ix) PROVE MarksOrdered'
  <2>1. toc' = [toc EXCEPT ![nr] = RemoveIndex(toc[nr], ix - 2).track]
    BY <1>7 DEF RemoveIndexMarker, Becomes
  <2>2. ix - 2 \in Nat
    BY TrackAssumption
  <2>3. OrderedMarks(RemoveIndex(toc[nr], ix - 2).track)
    BY <1>1, <2>2, RemoveIndexOrdered
  <2> QED
    BY <2>1, <2>3, OneTrackChanges
<1>8. ASSUME NEW nr \in DOMAIN toc, NEW ix \in 0 .. MaxIndices + 1, NEW lba \in Lbas, MoveWithinTrack(nr, ix, lba)
      PROVE  MarksOrdered'
  <2>1. PICK pos, t : pos = lba - AbsStart(toc, nr) /\ t = MoveIndex(toc[nr], ix, pos).track
    OBVIOUS
  <2>2. CASE toc' = toc
    BY <2>2 DEF MarksOrdered
  <2>3. CASE toc' # toc
    <3>1. /\ HasIndex(nr, ix) /\ ix >= 1 /\ pos >= 0
          /\ toc' = [toc EXCEPT ![nr] = t]
      BY <1>8, <2>1, <2>3 DEF MoveWithinTrack, Movable, StaysInTrack, AbortUnless, Abort, Becomes, MoveIndexAsserts
    <3>2. pos \in Nat
      BY <1>3, <2>1, <3>1 DEF Lbas
    <3>3. CASE ix = 1
      <4>1. OrderedMarks(MoveStart(toc[nr], pos).track)
        BY <1>1, <3>2, MoveStartOrdered
      <4> QED
        BY <2>1, <3>1, <3>3, <4>1, OneTrackChanges DEF MoveIndex
    <3>4. CASE ix # 1
      <4>1. ix - 1 \in DOMAIN toc[nr].index
        BY <1>2, <3>1, <3>4, TrackAssumption DEF HasIndex
      <4>2. OrderedMarks(MoveIncrement(toc[nr], ix - 1, pos).track)
        BY <1>1, <3>2, <4>1, MoveIncrementOrdered
      <4> QED
        BY <2>1, <3>1, <3>4, <4>2, OneTrackChanges DEF MoveIndex
    <3> QED
      BY <3>3, <3>4
  <2> QED
    BY <2>2, <2>3
<1> QED
  BY <1>4, <1>5, <1>6, <1>7, <1>8 DEF MarkEdit
=============================================================================
