----------------------------- MODULE Track_proofs -----------------------------
(***************************************************************************)
(* Facts about Track: lengths of lists of pieces, and where pieces start.  *)
(* The provers have no induction over data; what holds at every place of a *)
(* recursive function is proved with the least place where it would not.   *)
(***************************************************************************)
EXTENDS Track, SequenceTheorems, WellFoundedInduction, TLAPS

\* A set of natural numbers that is not empty has a least element, Min() of it.
LEMMA LeastNatural ==
    ASSUME NEW T, T \subseteq Nat, T # {}
    PROVE  Min(T) \in T /\ \A m \in T : Min(T) <= m
<1>1. PICK n \in T : \A m \in T : ~(<<m, n>> \in OpToRel(<, Nat))
  BY WFMin, NatLessThanWellFounded
<1>2. \A m \in T : n <= m
  <2>1. \A m \in T : ~(m < n)
    BY <1>1 DEF OpToRel
  <2> QED
    BY <2>1
<1> QED
  BY <1>2 DEF Min

\* What holds at 0 and goes on from each place to the next one holds everywhere.
LEMMA Everywhere ==
    ASSUME NEW n \in Nat, NEW holds, 0 \in holds, \A i \in 1 .. n : i - 1 \in holds => i \in holds
    PROVE  0 .. n \subseteq holds
<1> SUFFICES ASSUME NEW k \in 0 .. n, k \notin holds PROVE FALSE
  OBVIOUS
<1>1. PICK bad : bad = {i \in 0 .. n : i \notin holds}
  OBVIOUS
<1>2. PICK i \in bad : \A j \in bad : i <= j
  <2>1. bad \subseteq Nat /\ bad # {}
    BY <1>1
  <2> QED
    BY <2>1, LeastNatural
<1>3. i \in 1 .. n /\ i \notin holds /\ i - 1 \in 0 .. n /\ ~(i <= i - 1)
  BY <1>1, <1>2
<1> QED
  BY <1>1, <1>2, <1>3

\* The values f of a loop over 1 .. n, which starts with a base and goes from a
\* value v of S to step[i][v].
IsLoop(S, n, base, step) == n \in Nat /\ base \in S /\ step \in [1 .. n -> [S -> S]]
ValuesOf(f, S, n, base, step) ==
    f \in [0 .. n -> S] /\ f[0] = base /\ \A i \in 1 .. n : f[i] = step[i][f[i - 1]]

\* Such a loop has values: what a LET defines by f[i] == ... f[i - 1] ... obeys its equations.
LEMMA LoopExists ==
    ASSUME NEW S, NEW n, NEW base, NEW step, IsLoop(S, n, base, step)
    PROVE  \E f : ValuesOf(f, S, n, base, step)
<1> USE DEF IsLoop, ValuesOf
<1>1. PICK holds : holds = {m \in 0 .. n : \E f \in [0 .. m -> S] : f[0] = base /\ \A i \in 1 .. m : f[i] = step[i][f[i - 1]]}
  OBVIOUS
<1>2. 0 \in holds
  <2>1. PICK f : f = [i \in 0 .. 0 |-> base]
    OBVIOUS
  <2>2. f \in [0 .. 0 -> S] /\ f[0] = base /\ \A i \in 1 .. 0 : f[i] = step[i][f[i - 1]]
    BY <2>1
  <2> QED
    BY <1>1, <2>2
<1>3. ASSUME NEW m \in 1 .. n, m - 1 \in holds PROVE m \in holds
  <2>1. PICK f \in [0 .. m - 1 -> S] : f[0] = base /\ \A i \in 1 .. m - 1 : f[i] = step[i][f[i - 1]]
    BY <1>1, <1>3
  <2>2. PICK v \in S : v = step[m][f[m - 1]]
    <3>1. m - 1 \in 0 .. m - 1 /\ step[m] \in [S -> S]
      OBVIOUS
    <3>2. f[m - 1] \in S
      BY <3>1
    <3> QED
      BY <3>1, <3>2
  <2>3. PICK g : g = [i \in 0 .. m |-> IF i = m THEN v ELSE f[i]]
    OBVIOUS
  <2>4. g \in [0 .. m -> S]
    <3>1. \A i \in 0 .. m : i # m => f[i] \in S
      OBVIOUS
    <3> QED
      BY <2>3, <3>1
  <2>5. g[0] = base
    BY <2>1, <2>3
  <2>6. \A i \in 1 .. m : g[i] = step[i][g[i - 1]]
    <3> TAKE i \in 1 .. m
    <3>1. i - 1 \in 0 .. m /\ i - 1 # m /\ g[i - 1] = f[i - 1]
      BY <2>3
    <3>2. CASE i = m
      BY <2>2, <2>3, <3>1, <3>2
    <3>3. CASE i # m
      <4>1. i \in 1 .. m - 1 /\ g[i] = f[i]
        BY <2>3, <3>3
      <4> QED
        BY <2>1, <3>1, <4>1
    <3> QED
      BY <3>2, <3>3
  <2> QED
    BY <1>1, <2>4, <2>5, <2>6, SMTT(30)
<1>4. 0 .. n \subseteq holds
  BY <1>2, <1>3, Everywhere
<1> QED
  BY <1>1, <1>4
-----------------------------------------------------------------------------
(* The length of a list of pieces, and where its pieces start.             *)

\* A list of pieces, of each of which the length is known; the sums of the first ones.
Measured(subs) == Len(subs) \in Nat /\ \A i \in 1 .. Len(subs) : subs[i].len \in Nat
AreSums(f, subs) ==
    /\ f \in [0 .. Len(subs) -> Nat]
    /\ f[0] = 0
    /\ \A i \in 1 .. Len(subs) : f[i] = f[i - 1] + subs[i].len

\* Sums are the same as long as the pieces are.
LEMMA SumsAgree ==
    ASSUME NEW f, NEW subs, AreSums(f, subs), NEW g, NEW others, AreSums(g, others),
           NEW n \in Nat, n <= Len(subs), n <= Len(others), Measured(subs), Measured(others),
           \A i \in 1 .. n : subs[i].len = others[i].len
    PROVE  \A i \in 0 .. n : f[i] = g[i]
<1>1. PICK same : same = {i \in 0 .. n : g[i] = f[i]}
  OBVIOUS
<1>2. 0 \in same
  BY <1>1 DEF AreSums
<1>3. ASSUME NEW i \in 1 .. n, i - 1 \in same PROVE i \in same
  <2>1. i \in 1 .. Len(subs) /\ i \in 1 .. Len(others) /\ g[i - 1] = f[i - 1] /\ i \in 0 .. n
    BY <1>1, <1>3 DEF Measured
  <2>2. f[i] = f[i - 1] + subs[i].len /\ g[i] = g[i - 1] + subs[i].len
    BY <2>1 DEF AreSums
  <2> QED
    BY <1>1, <2>1, <2>2
<1>4. 0 .. n \subseteq same
  BY <1>2, <1>3, Everywhere
<1> QED
  BY <1>1, <1>4

\* TrackDataList::length() adds up the lengths of all pieces.
LEMMA LengthAddsUp ==
    ASSUME NEW subs, Measured(subs)
    PROVE  \E f : AreSums(f, subs) /\ TotalLength(subs) = f[Len(subs)]
<1>1. PICK n : n = Len(subs)
  OBVIOUS
<1>2. n \in Nat /\ \A i \in 1 .. n : subs[i].len \in Nat
  BY <1>1 DEF Measured
<1>3. PICK step : step = [i \in 1 .. n |-> [s \in Nat |-> s + subs[i].len]]
  OBVIOUS
<1>4. step \in [1 .. n -> [Nat -> Nat]]
  <2>1. \A i \in 1 .. n : [s \in Nat |-> s + subs[i].len] \in [Nat -> Nat]
    BY <1>2
  <2> QED
    BY <1>3, <2>1
<1>5. PICK f \in [0 .. n -> Nat] : f[0] = 0 /\ \A i \in 1 .. n : f[i] = step[i][f[i - 1]]
  <2>1. PICK S, zero : S = Nat /\ zero = 0
    OBVIOUS
  <2>2. IsLoop(S, n, zero, step)
    BY <1>2, <1>4, <2>1 DEF IsLoop
  <2>3. PICK f : ValuesOf(f, S, n, zero, step)
    BY <2>2, LoopExists
  <2> QED
    BY <2>1, <2>3 DEF ValuesOf
<1>6. \A i \in 1 .. n : f[i] = f[i - 1] + subs[i].len
  <2> TAKE i \in 1 .. n
  <2>1. f[i - 1] \in Nat
    BY <1>2
  <2> QED
    BY <1>3, <1>5, <2>1
<1>7. AreSums(f, subs)
  BY <1>1, <1>5, <1>6 DEF AreSums
<1>8. f = [i \in 0 .. n |-> IF i = 0 THEN 0 ELSE f[i - 1] + subs[i].len]
  <2>1. \A i \in 0 .. n : f[i] = IF i = 0 THEN 0 ELSE f[i - 1] + subs[i].len
    <3> TAKE i \in 0 .. n
    <3>1. CASE i = 0
      BY <1>5, <3>1
    <3>2. CASE i # 0
      BY <1>2, <1>6, <3>2
    <3> QED
      BY <3>1, <3>2
  <2>2. f = [i \in 0 .. n |-> f[i]]
    OBVIOUS
  <2> QED
    BY <2>1, <2>2
<1>9. PICK g : g = [i \in 0 .. n |-> IF i = 0 THEN 0 ELSE g[i - 1] + subs[i].len] /\ TotalLength(subs) = g[n]
  BY <1>1, <1>8 DEF TotalLength
<1>10. 0 .. n \subseteq {i \in 0 .. n : g[i] = f[i]}
  <2>1. PICK same : same = {i \in 0 .. n : g[i] = f[i]}
    OBVIOUS
  <2>2. 0 \in same
    BY <1>2, <1>5, <1>9, <2>1
  <2>3. ASSUME NEW i \in 1 .. n, i - 1 \in same PROVE i \in same
    <3>1. i \in 0 .. n /\ i # 0 /\ g[i - 1] = f[i - 1]
      BY <1>2, <2>1, <2>3
    <3>2. g[i] = g[i - 1] + subs[i].len
      BY <1>9, <3>1
    <3> QED
      BY <1>6, <2>1, <3>1, <3>2
  <2>4. 0 .. n \subseteq same
    BY <1>2, <2>2, <2>3, Everywhere
  <2> QED
    BY <2>1, <2>4
<1>11. TotalLength(subs) = f[n]
  BY <1>2, <1>9, <1>10
<1> QED
  BY <1>1, <1>7, <1>11

\* The first k pieces of a list add up to the k-th sum.
LEMMA LengthOfFirst ==
    ASSUME NEW S, NEW subs \in Seq(S), Measured(subs), NEW f, AreSums(f, subs), NEW k \in 0 .. Len(subs)
    PROVE  TotalLength(SubSeq(subs, 1, k)) = f[k]
<1>1. PICK part : part = SubSeq(subs, 1, k)
  OBVIOUS
<1>2. k \in Nat /\ k <= Len(subs) /\ Len(part) = k /\ \A i \in 1 .. k : part[i] = subs[i]
  BY <1>1 DEF Measured
<1>3. Measured(part)
  BY <1>2 DEF Measured
<1>4. PICK g : AreSums(g, part) /\ TotalLength(part) = g[Len(part)]
  BY <1>3, LengthAddsUp
<1>5. \A i \in 0 .. k : f[i] = g[i]
  BY <1>2, <1>3, <1>4, SumsAgree
<1>6. k \in 0 .. k
  BY <1>2
<1> QED
  BY <1>1, <1>2, <1>4, <1>5, <1>6

\* Each piece of a track starts where the one before it ends, the first one at 0.
LEMMA StartsOfPieces ==
    ASSUME NEW S, NEW subs \in Seq(S), Measured(subs)
    PROVE  /\ \A i \in 1 .. Len(subs) + 1 : SubTrackStart(subs, i) \in Nat
           /\ SubTrackStart(subs, 1) = 0
           /\ \A i \in 1 .. Len(subs) : SubTrackStart(subs, i + 1) = SubTrackStart(subs, i) + subs[i].len
           /\ SubTrackStart(subs, Len(subs) + 1) = TotalLength(subs)
<1>1. PICK n : n = Len(subs)
  OBVIOUS
<1>2. n \in Nat /\ \A i \in 1 .. n : subs[i].len \in Nat
  BY <1>1 DEF Measured
<1>3. PICK f : AreSums(f, subs) /\ TotalLength(subs) = f[n]
  BY <1>1, LengthAddsUp
<1>4. f \in [0 .. n -> Nat] /\ f[0] = 0 /\ \A i \in 1 .. n : f[i] = f[i - 1] + subs[i].len
  BY <1>1, <1>3 DEF AreSums
<1>5. ASSUME NEW i \in 1 .. n + 1 PROVE SubTrackStart(subs, i) = f[i - 1] /\ f[i - 1] \in Nat
  <2>1. i - 1 \in 0 .. n
    BY <1>2
  <2>2. TotalLength(SubSeq(subs, 1, i - 1)) = f[i - 1]
    <3>1. PICK k : k = i - 1
      OBVIOUS
    <3>2. k \in 0 .. Len(subs)
      BY <1>1, <2>1, <3>1
    <3>3. TotalLength(SubSeq(subs, 1, k)) = f[k]
      BY <1>3, <3>2, LengthOfFirst
    <3> QED
      BY <3>1, <3>3
  <2> QED
    BY <1>4, <2>1, <2>2 DEF SubTrackStart
<1>6. \A i \in 1 .. n + 1 : SubTrackStart(subs, i) \in Nat
  BY <1>5
<1>7. SubTrackStart(subs, 1) = 0
  <2>1. 1 \in 1 .. n + 1 /\ 1 - 1 = 0
    BY <1>2
  <2> QED
    BY <1>4, <1>5, <2>1
<1>8. \A i \in 1 .. n : SubTrackStart(subs, i + 1) = SubTrackStart(subs, i) + subs[i].len
  <2> TAKE i \in 1 .. n
  <2>1. i \in 1 .. n + 1 /\ i + 1 \in 1 .. n + 1 /\ (i + 1) - 1 = i
    BY <1>2
  <2>2. SubTrackStart(subs, i + 1) = f[i] /\ SubTrackStart(subs, i) = f[i - 1]
    BY <1>5, <2>1
  <2> QED
    BY <1>4, <2>2
<1>9. SubTrackStart(subs, n + 1) = TotalLength(subs)
  <2>1. n + 1 \in 1 .. n + 1 /\ (n + 1) - 1 = n
    BY <1>2
  <2> QED
    BY <1>3, <1>5, <2>1
<1> QED
  BY <1>1, <1>6, <1>7, <1>8, <1>9

\* findSubTrack() finds the piece that a sample of the track is in.
LEMMA FoundSubTrack ==
    ASSUME NEW S, NEW subs \in Seq(S), Measured(subs), subs # <<>>, NEW sample \in Nat
    PROVE  /\ FindSubTrack(subs, sample) \in 1 .. Len(subs)
           /\ SubTrackStart(subs, FindSubTrack(subs, sample)) <= sample
           /\ \/ FindSubTrack(subs, sample) = Len(subs)
              \/ sample < SubTrackStart(subs, FindSubTrack(subs, sample) + 1)
<1>1. PICK n : n = Len(subs)
  OBVIOUS
<1>2. n \in Nat /\ n >= 1 /\ DOMAIN subs = 1 .. n
  BY <1>1 DEF Measured
<1>3. PICK found : found = {i \in 1 .. n : i = n \/ sample < SubTrackStart(subs, i + 1)}
  OBVIOUS
<1>4. PICK i \in found : i = FindSubTrack(subs, sample) /\ \A j \in found : i <= j
  <2>1. found \subseteq Nat /\ n \in found
    BY <1>2, <1>3
  <2>2. Min(found) \in found /\ \A j \in found : Min(found) <= j
    BY <2>1, LeastNatural
  <2>3. FindSubTrack(subs, sample) = Min(found)
    BY <1>1, <1>2, <1>3 DEF FindSubTrack
  <2> QED
    BY <2>2, <2>3
<1>5. i \in 1 .. n /\ (i = n \/ sample < SubTrackStart(subs, i + 1))
  BY <1>3, <1>4
<1>6. SubTrackStart(subs, i) <= sample
  <2>1. CASE i = 1
    <3>1. SubTrackStart(subs, 1) = 0
      BY StartsOfPieces
    <3> QED
      BY <2>1, <3>1
  <2>2. CASE i # 1
    <3>1. i - 1 \in 1 .. n /\ i - 1 # n /\ (i - 1) + 1 = i /\ ~(i <= i - 1)
      BY <1>2, <1>5, <2>2
    <3>2. i - 1 \notin found
      BY <1>4, <3>1
    <3>3. ~(sample < SubTrackStart(subs, (i - 1) + 1))
      BY <1>3, <3>1, <3>2
    <3>4. SubTrackStart(subs, i) \in Nat
      <4>1. i \in 1 .. Len(subs) + 1
        BY <1>1, <1>2, <1>5
      <4> QED
        BY <4>1, StartsOfPieces
    <3> QED
      BY <3>1, <3>3, <3>4
  <2> QED
    BY <2>1, <2>2
<1> QED
  BY <1>1, <1>4, <1>5, <1>6
-----------------------------------------------------------------------------
(* Lists of audio pieces, and the audio in them that is not padding.       *)

\* Lists that are as long, piece by piece, have the same length.
LEMMA SameLength ==
    ASSUME NEW a, NEW b, Measured(a), Measured(b), Len(a) = Len(b), \A i \in 1 .. Len(a) : a[i].len = b[i].len
    PROVE  TotalLength(a) = TotalLength(b)
<1>1. PICK f : AreSums(f, a) /\ TotalLength(a) = f[Len(a)]
  BY LengthAddsUp
<1>2. PICK g : AreSums(g, b) /\ TotalLength(b) = g[Len(b)]
  BY LengthAddsUp
<1>3. PICK n \in Nat : n = Len(a) /\ n = Len(b) /\ n <= Len(a) /\ n <= Len(b)
  BY DEF Measured
<1>4. \A i \in 1 .. n : a[i].len = b[i].len
  BY <1>3
<1>5. \A i \in 0 .. n : f[i] = g[i]
  BY <1>1, <1>2, <1>3, <1>4, SumsAgree
<1>6. n \in 0 .. n
  BY <1>3
<1> QED
  BY <1>1, <1>2, <1>3, <1>5, <1>6

\* Lengths are natural numbers.
LEMMA LengthIsNat ==
    ASSUME NEW a, Measured(a)
    PROVE  TotalLength(a) \in Nat /\ (Len(a) = 0 => TotalLength(a) = 0)
<1>1. PICK f : AreSums(f, a) /\ TotalLength(a) = f[Len(a)]
  BY LengthAddsUp
<1> QED
  BY <1>1 DEF AreSums, Measured

\* A list that is nowhere longer than another one is not longer.
LEMMA NotLonger ==
    ASSUME NEW a, NEW b, Measured(a), Measured(b), Len(a) = Len(b), \A i \in 1 .. Len(a) : a[i].len <= b[i].len
    PROVE  TotalLength(a) <= TotalLength(b)
<1>1. PICK f : AreSums(f, a) /\ TotalLength(a) = f[Len(a)]
  BY LengthAddsUp
<1>2. PICK g : AreSums(g, b) /\ TotalLength(b) = g[Len(b)]
  BY LengthAddsUp
<1>3. PICK n \in Nat : n = Len(a) /\ n = Len(b)
  BY DEF Measured
<1>4. PICK holds : holds = {i \in 0 .. n : f[i] <= g[i]}
  OBVIOUS
<1>5. 0 \in holds
  BY <1>1, <1>2, <1>3, <1>4 DEF AreSums
<1>6. ASSUME NEW i \in 1 .. n, i - 1 \in holds PROVE i \in holds
  <2>1. f[i - 1] \in Nat /\ g[i - 1] \in Nat /\ f[i - 1] <= g[i - 1] /\ i \in 0 .. n
    BY <1>1, <1>2, <1>3, <1>4, <1>6 DEF AreSums
  <2>2. a[i].len \in Nat /\ b[i].len \in Nat /\ a[i].len <= b[i].len
    BY <1>3 DEF Measured
  <2>3. f[i] = f[i - 1] + a[i].len /\ g[i] = g[i - 1] + b[i].len
    BY <1>1, <1>2, <1>3 DEF AreSums
  <2>4. f[i] <= g[i]
    BY <2>1, <2>2, <2>3
  <2> QED
    BY <1>4, <2>1, <2>4
<1>7. 0 .. n \subseteq holds
  BY <1>5, <1>6, Everywhere
<1> QED
  BY <1>1, <1>2, <1>3, <1>4, <1>7

\* Lengths add up when lists are joined.
LEMMA LengthOfConcat ==
    ASSUME NEW S, NEW a \in Seq(S), NEW b \in Seq(S), Measured(a), Measured(b)
    PROVE  Measured(a \o b) /\ TotalLength(a \o b) = TotalLength(a) + TotalLength(b)
<1>1. PICK m \in Nat, n \in Nat : m = Len(a) /\ n = Len(b)
  BY DEF Measured
<1>2. PICK c : c = a \o b
  OBVIOUS
<1>3. Len(c) = m + n /\ \A i \in 1 .. m + n : c[i] = IF i <= m THEN a[i] ELSE b[i - m]
  BY <1>1, <1>2, ConcatProperties
<1>4. \A i \in 1 .. m : a[i].len \in Nat
  BY <1>1 DEF Measured
<1>5. \A i \in 1 .. n : b[i].len \in Nat
  BY <1>1 DEF Measured
<1>6. \A i \in 1 .. m + n : c[i].len \in Nat
  <2> TAKE i \in 1 .. m + n
  <2>1. CASE i <= m
    BY <1>3, <1>4, <2>1
  <2>2. CASE ~(i <= m)
    <3>1. i - m \in 1 .. n
      BY <2>2
    <3> QED
      BY <1>3, <1>5, <2>2, <3>1
  <2> QED
    BY <2>1, <2>2
<1>7. Measured(c)
  BY <1>3, <1>6 DEF Measured
<1>8. PICK f : AreSums(f, a) /\ TotalLength(a) = f[m]
  BY <1>1, LengthAddsUp
<1>9. PICK g : AreSums(g, b) /\ TotalLength(b) = g[n]
  BY <1>1, LengthAddsUp
<1>10. PICK h : AreSums(h, c) /\ TotalLength(c) = h[m + n]
  BY <1>3, <1>7, LengthAddsUp
<1>11. h[m] = f[m]
  <2>1. \A i \in 1 .. m : c[i].len = a[i].len
    BY <1>3
  <2>2. m <= Len(c) /\ m <= Len(a)
    BY <1>1, <1>3
  <2>3. \A i \in 0 .. m : h[i] = f[i]
    BY <1>7, <1>8, <1>10, <2>1, <2>2, SumsAgree
  <2>4. m \in 0 .. m
    OBVIOUS
  <2> QED
    BY <2>3, <2>4
<1>12. PICK holds : holds = {i \in 0 .. n : h[m + i] = h[m] + g[i]}
  OBVIOUS
<1>13. 0 \in holds
  <2>1. g[0] = 0 /\ h[m] \in Nat
    BY <1>1, <1>3, <1>9, <1>10 DEF AreSums
  <2> QED
    BY <1>12, <2>1
<1>14. ASSUME NEW i \in 1 .. n, i - 1 \in holds PROVE i \in holds
  <2>1. PICK k : k = m + i
    OBVIOUS
  <2>2. k \in 1 .. m + n /\ k - 1 = m + (i - 1) /\ k - m = i /\ ~(k <= m)
    BY <2>1
  <2>3. h[k] = h[k - 1] + b[i].len
    <3>1. h[k] = h[k - 1] + c[k].len
      BY <1>3, <1>10, <2>2 DEF AreSums
    <3>2. c[k] = b[i]
      BY <1>3, <2>2
    <3> QED
      BY <3>1, <3>2
  <2>4. h[k - 1] = h[m] + g[i - 1]
    BY <1>12, <1>14, <2>2
  <2>5. g[i] = g[i - 1] + b[i].len
    BY <1>1, <1>9 DEF AreSums
  <2>6. h[m] \in Nat /\ g[i - 1] \in Nat /\ b[i].len \in Nat
    <3>1. m \in 0 .. Len(c) /\ i - 1 \in 0 .. Len(b)
      BY <1>1, <1>3
    <3> QED
      BY <1>5, <1>9, <1>10, <3>1 DEF AreSums
  <2>7. h[m + i] = h[m] + g[i]
    BY <2>1, <2>3, <2>4, <2>5, <2>6
  <2> QED
    BY <1>12, <2>7
<1>15. 0 .. n \subseteq holds
  BY <1>13, <1>14, Everywhere
<1>16. h[m + n] = h[m] + g[n]
  BY <1>12, <1>15
<1> QED
  BY <1>2, <1>7, <1>8, <1>9, <1>10, <1>11, <1>16

\* The pieces of plain audio tracks.
AudioPieces == [pad : BOOLEAN, mode : {"AUDIO"}, file : STRING, pos : Nat, len : Nat]

\* What becomes of an audio piece when it is split, merged, or handed to another track.
LEMMA PieceFacts ==
    ASSUME NEW st \in AudioPieces
    PROVE  /\ st.pad \in BOOLEAN /\ st.mode = "AUDIO" /\ st.pos \in Nat /\ st.len \in Nat
           /\ AsData(st) \in AudioPieces /\ ~AsData(st).pad /\ AsData(st).len = st.len
           /\ \A n \in Nat : /\ [st EXCEPT !.len = n] \in AudioPieces
                             /\ [st EXCEPT !.len = n].len = n /\ [st EXCEPT !.len = n].pad = st.pad
           /\ \A n \in 0 .. st.len : /\ SecondPart(st, n) \in AudioPieces
                                     /\ SecondPart(st, n).len = st.len - n /\ SecondPart(st, n).pad = st.pad
<1>1. /\ st.pad \in BOOLEAN /\ st.mode = "AUDIO" /\ st.pos \in Nat /\ st.len \in Nat /\ st.file \in STRING
      /\ st = [pad |-> st.pad, mode |-> "AUDIO", file |-> st.file, pos |-> st.pos, len |-> st.len]
  BY DEF AudioPieces
<1>2. AsData(st) \in AudioPieces /\ ~AsData(st).pad /\ AsData(st).len = st.len
  BY <1>1 DEF AsData, AudioPieces
<1>3. ASSUME NEW n \in Nat
      PROVE  [st EXCEPT !.len = n] \in AudioPieces /\ [st EXCEPT !.len = n].len = n /\ [st EXCEPT !.len = n].pad = st.pad
  BY <1>1 DEF AudioPieces
<1>4. ASSUME NEW n \in 0 .. st.len
      PROVE  SecondPart(st, n) \in AudioPieces /\ SecondPart(st, n).len = st.len - n /\ SecondPart(st, n).pad = st.pad
  <2>1. PICK l \in Nat : l = st.len - n
    BY <1>1
  <2>2. PICK p \in Nat : p = PositionOf(st, n)
    <3>1. n \in Nat /\ st.pos + n \in Nat
      BY <1>1
    <3>2. CASE st.file = Silence
      BY <1>1, <3>2 DEF PositionOf
    <3>3. CASE st.file # Silence
      BY <3>1, <3>3 DEF PositionOf
    <3> QED
      BY <3>2, <3>3
  <2>3. SecondPart(st, n) = [st EXCEPT !.len = l, !.pos = p]
    BY ONLY <2>1, <2>2 DEF SecondPart
  <2>4. SecondPart(st, n) = [pad |-> st.pad, mode |-> "AUDIO", file |-> st.file, pos |-> p, len |-> l]
    BY <1>1, <2>3
  <2> QED
    BY <1>1, <2>1, <2>4 DEF AudioPieces
<1> QED
  BY <1>1, <1>2, <1>3, <1>4

\* The lengths of the pieces that are not padding, and their sum.
SolidPart(st) == [len |-> IF st.pad THEN 0 ELSE st.len]
Solid(subs) == [i \in 1 .. Len(subs) |-> SolidPart(subs[i])]
RealLength(subs) == TotalLength(Solid(subs))
NoPadding(subs) == \A i \in 1 .. Len(subs) : ~subs[i].pad
OnlyLastIsPadding(subs) == \A i \in 1 .. Len(subs) : i # Len(subs) => ~subs[i].pad

\* What is not padding is not longer than the list, and as long if there is no padding.
LEMMA RealFacts ==
    ASSUME NEW subs \in Seq(AudioPieces)
    PROVE  /\ Len(subs) \in Nat /\ DOMAIN subs = 1 .. Len(subs) /\ Measured(subs)
           /\ Measured(Solid(subs)) /\ Len(Solid(subs)) = Len(subs) /\ Solid(subs) \in Seq([len : Nat])
           /\ \A i \in 1 .. Len(subs) : Solid(subs)[i].len = IF subs[i].pad THEN 0 ELSE subs[i].len
           /\ TotalLength(subs) \in Nat /\ RealLength(subs) \in Nat /\ RealLength(subs) <= TotalLength(subs)
           /\ NoPadding(subs) => RealLength(subs) = TotalLength(subs)
           /\ Len(subs) = 0 => TotalLength(subs) = 0 /\ RealLength(subs) = 0
<1>1. PICK n \in Nat : n = Len(subs)
  BY LenProperties
<1>2. DOMAIN subs = 1 .. n /\ \A i \in 1 .. n : subs[i] \in AudioPieces
  BY <1>1, LenProperties, ElementOfSeq
<1>3. \A i \in 1 .. n : subs[i].pad \in BOOLEAN /\ subs[i].len \in Nat
  BY <1>2, PieceFacts
<1>4. Measured(subs)
  BY <1>1, <1>3 DEF Measured
<1>5. PICK s : s = Solid(subs)
  OBVIOUS
<1>6. s = [i \in 1 .. n |-> SolidPart(subs[i])]
  BY <1>1, <1>5 DEF Solid
<1>7. \A i \in 1 .. n : s[i] = SolidPart(subs[i])
  BY <1>6
<1>8. \A i \in 1 .. n : s[i] \in [len : Nat] /\ s[i].len = IF subs[i].pad THEN 0 ELSE subs[i].len
  <2> TAKE i \in 1 .. n
  <2>1. s[i] = [len |-> IF subs[i].pad THEN 0 ELSE subs[i].len]
    BY <1>7 DEF SolidPart
  <2>2. PICK k \in Nat : k = IF subs[i].pad THEN 0 ELSE subs[i].len
    BY <1>3
  <2> QED
    BY <2>1, <2>2
<1>9. s \in Seq([len : Nat]) /\ Len(s) = n
  <2>1. s \in [1 .. n -> [len : Nat]]
    BY <1>6, <1>7, <1>8
  <2>2. s \in Seq([len : Nat])
    <3>1. PICK R : R = [len : Nat]
      OBVIOUS
    <3>2. s \in [1 .. n -> R]
      BY <2>1, <3>1
    <3>3. s \in Seq(R)
      BY ONLY <3>2, n \in Nat
    <3> QED
      BY <3>1, <3>3
  <2> QED
    BY <2>1, <2>2, LenProperties
<1>10. Measured(s)
  BY <1>8, <1>9, <1>3 DEF Measured
<1>11. TotalLength(subs) \in Nat /\ TotalLength(s) \in Nat
  BY <1>4, <1>10, LengthIsNat
<1>12. TotalLength(s) <= TotalLength(subs)
  <2>1. \A i \in 1 .. n : s[i].len <= subs[i].len
    BY <1>3, <1>8
  <2> QED
    BY <1>1, <1>4, <1>9, <1>10, <2>1, NotLonger
<1>13. NoPadding(subs) => TotalLength(s) = TotalLength(subs)
  <2> SUFFICES ASSUME NoPadding(subs) PROVE TotalLength(s) = TotalLength(subs)
    OBVIOUS
  <2>1. \A i \in 1 .. n : s[i].len = subs[i].len
    BY <1>1, <1>8 DEF NoPadding
  <2> QED
    BY <1>1, <1>4, <1>9, <1>10, <2>1, SameLength
<1>14. n = 0 => TotalLength(subs) = 0 /\ TotalLength(s) = 0
  BY <1>1, <1>4, <1>9, <1>10, LengthIsNat
<1> QED
  BY <1>1, <1>2, <1>4, <1>5, <1>8, <1>9, <1>10, <1>11, <1>12, <1>13, <1>14 DEF RealLength

\* Joining lists of audio.
LEMMA RealOfConcat ==
    ASSUME NEW a \in Seq(AudioPieces), NEW b \in Seq(AudioPieces)
    PROVE  /\ a \o b \in Seq(AudioPieces)
           /\ TotalLength(a \o b) = TotalLength(a) + TotalLength(b)
           /\ RealLength(a \o b) = RealLength(a) + RealLength(b)
<1>1. PICK c : c = a \o b
  OBVIOUS
<1>2. PICK m \in Nat, n \in Nat : m = Len(a) /\ n = Len(b)
  BY RealFacts
<1>3. c \in Seq(AudioPieces) /\ Len(c) = m + n /\ \A i \in 1 .. m + n : c[i] = IF i <= m THEN a[i] ELSE b[i - m]
  BY <1>1, <1>2, ConcatProperties
<1>4. TotalLength(c) = TotalLength(a) + TotalLength(b)
  BY <1>1, RealFacts, LengthOfConcat
<1>5. PICK sa, sb, sc : sa = Solid(a) /\ sb = Solid(b) /\ sc = Solid(c)
  OBVIOUS
<1>6. /\ sa \in Seq([len : Nat]) /\ Measured(sa) /\ Len(sa) = m
      /\ sb \in Seq([len : Nat]) /\ Measured(sb) /\ Len(sb) = n
      /\ sc \in Seq([len : Nat]) /\ Measured(sc) /\ Len(sc) = m + n
  BY <1>2, <1>3, <1>5, RealFacts
<1>7. Measured(sa \o sb) /\ TotalLength(sa \o sb) = TotalLength(sa) + TotalLength(sb)
  BY <1>6, LengthOfConcat
<1>8. PICK both : both = sa \o sb
  OBVIOUS
<1>9. Len(both) = m + n /\ \A i \in 1 .. m + n : both[i] = IF i <= m THEN sa[i] ELSE sb[i - m]
  BY <1>6, <1>8, ConcatProperties
<1>10. \A i \in 1 .. m + n : sc[i].len = both[i].len
  <2> TAKE i \in 1 .. m + n
  <2>1. sc[i].len = IF c[i].pad THEN 0 ELSE c[i].len
    BY <1>3, <1>5, RealFacts
  <2>2. CASE i <= m
    <3>1. i \in 1 .. m
      BY <2>2
    <3>2. sa[i].len = IF a[i].pad THEN 0 ELSE a[i].len
      BY <1>2, <1>5, <3>1, RealFacts
    <3> QED
      BY <1>3, <1>9, <2>1, <2>2, <3>2
  <2>3. CASE ~(i <= m)
    <3>1. PICK k \in 1 .. n : k = i - m
      BY <2>3
    <3>2. sb[k].len = IF b[k].pad THEN 0 ELSE b[k].len
      BY <1>2, <1>5, RealFacts
    <3> QED
      BY <1>3, <1>9, <2>1, <2>3, <3>1, <3>2
  <2> QED
    BY <2>2, <2>3
<1>11. TotalLength(sc) = TotalLength(both)
  BY <1>6, <1>7, <1>8, <1>9, <1>10, SameLength
<1> QED
  BY <1>1, <1>3, <1>4, <1>5, <1>7, <1>8, <1>11 DEF RealLength

\* Lists of one piece.
LEMMA RealOfOne ==
    ASSUME NEW st \in AudioPieces
    PROVE  /\ <<st>> \in Seq(AudioPieces)
           /\ TotalLength(<<st>>) = st.len
           /\ RealLength(<<st>>) = IF st.pad THEN 0 ELSE st.len
<1>1. PICK a : a = <<st>>
  OBVIOUS
<1>2. a \in Seq(AudioPieces) /\ Len(a) = 1 /\ a[1] = st
  BY <1>1
<1>3. PICK l \in Nat : l = st.len
  BY PieceFacts
<1>4. PICK f : AreSums(f, a) /\ TotalLength(a) = f[1]
  BY <1>2, LengthAddsUp, RealFacts
<1>5. 1 \in 1 .. 1 /\ 1 - 1 = 0
  OBVIOUS
<1>6. f[1] = l
  BY <1>2, <1>3, <1>4, <1>5 DEF AreSums
<1>7. PICK s : s = Solid(a)
  OBVIOUS
<1>8. Measured(s) /\ Len(s) = 1 /\ s[1].len = IF st.pad THEN 0 ELSE l
  BY <1>2, <1>3, <1>5, <1>7, RealFacts
<1>9. PICK g : AreSums(g, s) /\ TotalLength(s) = g[1]
  BY <1>8, LengthAddsUp
<1>10. g[1] = IF st.pad THEN 0 ELSE l
  <2>1. g[0] = 0 /\ g[1] = g[0] + s[1].len
    BY <1>5, <1>8, <1>9 DEF AreSums
  <2> QED
    BY <1>8, <2>1
<1> QED
  BY <1>1, <1>2, <1>3, <1>4, <1>6, <1>7, <1>9, <1>10 DEF RealLength

\* Appending a piece to a list.
LEMMA RealOfAppend ==
    ASSUME NEW a \in Seq(AudioPieces), NEW st \in AudioPieces
    PROVE  /\ Append(a, st) \in Seq(AudioPieces)
           /\ TotalLength(Append(a, st)) = TotalLength(a) + st.len
           /\ RealLength(Append(a, st)) = RealLength(a) + IF st.pad THEN 0 ELSE st.len
<1>1. Append(a, st) = a \o <<st>> /\ Append(a, st) \in Seq(AudioPieces)
  BY AppendIsConcat, AppendProperties
<1> QED
  BY <1>1, RealOfConcat, RealOfOne, ZenonT(30)
-----------------------------------------------------------------------------
(* Loops: what a recursive function of a LET computes step by step.        *)

\* A function that obeys the equations of a loop has the values of the loop.
LEMMA LoopTyped ==
    ASSUME NEW S, NEW n, NEW base, NEW step, IsLoop(S, n, base, step),
           NEW g, g = [i \in 0 .. n |-> g[i]], g[0] = base,
           \A i \in 1 .. n : g[i - 1] \in S => g[i] = step[i][g[i - 1]]
    PROVE  ValuesOf(g, S, n, base, step)
<1>1. n \in Nat /\ base \in S /\ step \in [1 .. n -> [S -> S]]
  BY DEF IsLoop
<1>2. PICK holds : holds = {i \in 0 .. n : g[i] \in S}
  OBVIOUS
<1>3. 0 \in holds
  BY <1>1, <1>2
<1>4. ASSUME NEW i \in 1 .. n, i - 1 \in holds PROVE i \in holds
  <2>1. g[i - 1] \in S /\ i \in 0 .. n
    BY <1>1, <1>2, <1>4
  <2>2. step[i] \in [S -> S] /\ g[i] = step[i][g[i - 1]]
    BY <1>1, <2>1
  <2>3. g[i] \in S
    BY <2>1, <2>2
  <2> QED
    BY <1>2, <2>1, <2>3
<1>5. 0 .. n \subseteq holds
  BY <1>1, <1>3, <1>4, Everywhere
<1>6. \A i \in 0 .. n : g[i] \in S
  BY <1>2, <1>5
<1>7. g \in [0 .. n -> S]
  BY <1>6
<1>8. \A i \in 1 .. n : g[i] = step[i][g[i - 1]]
  <2> TAKE i \in 1 .. n
  <2>1. i - 1 \in 0 .. n
    BY <1>1
  <2> QED
    BY <1>6, <2>1
<1> QED
  BY <1>7, <1>8 DEF ValuesOf

\* The steps of update() that leave the padding away.
Unpad(kept, st) == IF IsPadding(st) THEN kept ELSE Append(kept, st)
AudioLists == Seq(AudioPieces)

\* The loop of Unpadded() has a value at each place.
LEMMA UnpaddedLoop ==
    ASSUME NEW subs \in AudioLists, NEW n \in Nat, n = Len(subs)
    PROVE  \E f \in [0 .. n -> AudioLists] :
               f[0] = <<>> /\ Unpadded(subs) = f[n] /\ \A i \in 1 .. n : f[i] = Unpad(f[i - 1], subs[i])
<1>1. PICK S : S = AudioLists
  OBVIOUS
<1>2. PICK none : none = <<>>
  OBVIOUS
<1>3. none \in S
  BY <1>1, <1>2 DEF AudioLists
<1>4. \A i \in 1 .. n : \A s \in S : Unpad(s, subs[i]) \in S
  <2> TAKE i \in 1 .. n
  <2> TAKE s \in S
  <2>1. subs[i] \in AudioPieces
    BY ElementOfSeq DEF AudioLists
  <2> QED
    BY <1>1, <2>1, AppendProperties DEF AudioLists, Unpad
<1>5. PICK step : step = [i \in 1 .. n |-> [s \in S |-> Unpad(s, subs[i])]]
  OBVIOUS
<1>6. \A i \in 1 .. n : step[i] = [s \in S |-> Unpad(s, subs[i])]
  BY <1>5
<1>7. \A i \in 1 .. n : \A s \in S : step[i][s] = Unpad(s, subs[i])
  BY <1>6, ZenonT(30)
<1>8. IsLoop(S, n, none, step)
  <2>1. \A i \in 1 .. n : step[i] \in [S -> S]
    BY <1>4, <1>6, ZenonT(30)
  <2>2. step \in [1 .. n -> [S -> S]]
    BY <1>5, <2>1
  <2> QED
    BY <1>3, <2>2 DEF IsLoop
<1>9. PICK f : ValuesOf(f, S, n, none, step)
  BY <1>8, LoopExists
<1>10. f \in [0 .. n -> S] /\ f[0] = none /\ \A i \in 1 .. n : f[i] = step[i][f[i - 1]]
  BY <1>9 DEF ValuesOf
<1>11. \A i \in 0 .. n : f[i] = IF i = 0 THEN <<>> ELSE Unpad(f[i - 1], subs[i])
  <2> TAKE i \in 0 .. n
  <2>1. CASE i = 0
    BY <1>2, <1>10, <2>1
  <2>2. CASE i # 0
    <3>1. i \in 1 .. n /\ i - 1 \in 0 .. n
      BY <2>2
    <3>2. f[i] = step[i][f[i - 1]] /\ f[i - 1] \in S
      BY <1>10, <3>1
    <3>3. f[i] = Unpad(f[i - 1], subs[i])
      BY <1>7, <3>1, <3>2
    <3> QED
      BY <2>2, <3>3
  <2> QED
    BY <2>1, <2>2
<1>12. f = [i \in 0 .. n |-> IF i = 0 THEN <<>> ELSE Unpad(f[i - 1], subs[i])]
  <2>1. f = [i \in 0 .. n |-> f[i]]
    BY <1>10
  <2> QED
    BY <1>11, <2>1
<1>13. PICK g : g = [i \in 0 .. n |-> IF i = 0 THEN <<>> ELSE Unpad(g[i - 1], subs[i])] /\ Unpadded(subs) = g[n]
  BY <1>12 DEF Unpadded, Loop, Unpad
<1>14. \A i \in 0 .. n : g[i] = IF i = 0 THEN <<>> ELSE Unpad(g[i - 1], subs[i])
  BY <1>13
<1>15. g = [i \in 0 .. n |-> g[i]] /\ g[0] = none
  <2>1. 0 \in 0 .. n
    OBVIOUS
  <2> QED
    BY <1>2, <1>13, <1>14, <2>1
<1>16. ASSUME NEW i \in 1 .. n, g[i - 1] \in S PROVE g[i] = step[i][g[i - 1]]
  <2>1. i \in 0 .. n /\ i # 0
    OBVIOUS
  <2> QED
    BY <1>7, <1>14, <1>16, <2>1
<1>17. ValuesOf(g, S, n, none, step)
  BY <1>8, <1>15, <1>16, LoopTyped
<1>18. \A i \in 1 .. n : g[i] = Unpad(g[i - 1], subs[i])
  <2> TAKE i \in 1 .. n
  <2>1. i \in 0 .. n /\ i # 0
    OBVIOUS
  <2> QED
    BY <1>14, <2>1
<1> QED
  BY <1>1, <1>2, <1>13, <1>15, <1>17, <1>18 DEF ValuesOf

\* Without padding, a list holds the audio it held with it.
LEMMA UnpaddedFacts ==
    ASSUME NEW subs \in AudioLists
    PROVE  /\ Unpadded(subs) \in AudioLists
           /\ NoPadding(Unpadded(subs))
           /\ TotalLength(Unpadded(subs)) = RealLength(subs)
<1>1. PICK n \in Nat : n = Len(subs)
  BY LenProperties DEF AudioLists
<1>2. PICK f \in [0 .. n -> AudioLists] :
          f[0] = <<>> /\ Unpadded(subs) = f[n] /\ \A i \in 1 .. n : f[i] = Unpad(f[i - 1], subs[i])
  BY <1>1, UnpaddedLoop
<1>3. PICK solid : solid = Solid(subs)
  OBVIOUS
<1>4. /\ Measured(solid) /\ Len(solid) = n
      /\ \A i \in 1 .. n : solid[i].len = IF subs[i].pad THEN 0 ELSE subs[i].len
  BY <1>1, <1>3, RealFacts DEF AudioLists
<1>5. PICK h : AreSums(h, solid) /\ TotalLength(solid) = h[n]
  BY <1>4, LengthAddsUp
<1>6. h \in [0 .. n -> Nat] /\ h[0] = 0 /\ \A i \in 1 .. n : h[i] = h[i - 1] + solid[i].len
  BY <1>4, <1>5 DEF AreSums
<1>7. PICK holds : holds = {i \in 0 .. n : NoPadding(f[i]) /\ TotalLength(f[i]) = h[i]}
  OBVIOUS
<1>8. 0 \in holds
  <2>1. NoPadding(<<>>) /\ TotalLength(<<>>) = 0
    <3>1. <<>> \in Seq(AudioPieces) /\ Len(<<>>) = 0
      OBVIOUS
    <3>2. TotalLength(<<>>) = 0
      BY <3>1, RealFacts
    <3> QED
      BY <3>1, <3>2 DEF NoPadding
  <2> QED
    BY <1>2, <1>6, <1>7, <2>1
<1>9. ASSUME NEW i \in 1 .. n, i - 1 \in holds PROVE i \in holds
  <2>1. PICK old \in Seq(AudioPieces), new \in Seq(AudioPieces) : old = f[i - 1] /\ new = f[i]
    <3>1. i - 1 \in 0 .. n /\ i \in 0 .. n
      OBVIOUS
    <3> QED
      BY <1>2, <3>1 DEF AudioLists
  <2>2. NoPadding(old) /\ TotalLength(old) = h[i - 1]
    BY <1>7, <1>9, <2>1
  <2>3. PICK st \in AudioPieces : st = subs[i]
    BY <1>1, ElementOfSeq DEF AudioLists
  <2>4. st.pad \in BOOLEAN /\ st.len \in Nat
    BY PieceFacts
  <2>5. new = IF st.pad THEN old ELSE Append(old, st)
    BY <1>2, <2>1, <2>3 DEF Unpad, IsPadding
  <2>6. h[i] = h[i - 1] + (IF st.pad THEN 0 ELSE st.len) /\ h[i - 1] \in Nat
    <3>1. i - 1 \in 0 .. n
      OBVIOUS
    <3> QED
      BY <1>4, <1>6, <2>3, <3>1
  <2>7. CASE st.pad
    <3>1. new = old /\ h[i] = h[i - 1]
      BY <2>5, <2>6, <2>7
    <3> QED
      BY <1>7, <2>1, <2>2, <3>1
  <2>8. CASE ~st.pad
    <3>1. new = Append(old, st) /\ h[i] = h[i - 1] + st.len
      BY <2>5, <2>6, <2>8
    <3>2. TotalLength(new) = TotalLength(old) + st.len
      BY <3>1, RealOfAppend
    <3>3. NoPadding(new)
      <4>1. PICK m \in Nat : m = Len(old)
        BY LenProperties
      <4>2. Len(new) = m + 1 /\ new[m + 1] = st /\ \A k \in 1 .. m : new[k] = old[k]
        BY <3>1, <4>1, AppendProperties
      <4>3. \A k \in 1 .. m : ~old[k].pad
        BY <2>2, <4>1 DEF NoPadding
      <4>4. \A k \in 1 .. m + 1 : k = m + 1 \/ k \in 1 .. m
        OBVIOUS
      <4>5. \A k \in 1 .. m + 1 : ~new[k].pad
        BY <2>8, <4>2, <4>3, <4>4
      <4> QED
        BY <4>2, <4>5 DEF NoPadding
    <3>4. TotalLength(new) = h[i]
      BY <2>2, <3>1, <3>2
    <3> QED
      BY <1>7, <2>1, <3>3, <3>4
  <2> QED
    BY <2>4, <2>7, <2>8
<1>10. 0 .. n \subseteq holds
  BY <1>8, <1>9, Everywhere
<1>11. n \in 0 .. n
  OBVIOUS
<1>12. NoPadding(f[n]) /\ TotalLength(f[n]) = h[n] /\ f[n] \in AudioLists
  BY <1>2, <1>7, <1>10, <1>11
<1> QED
  BY <1>2, <1>3, <1>5, <1>12 DEF RealLength
-----------------------------------------------------------------------------
(* update() on a track of plain audio.                                     *)

\* Rounding up to whole blocks.
LEMMA CeilingFacts ==
    ASSUME NEW n \in Nat, NEW d \in Nat \ {0}
    PROVE  /\ Ceiling(n, d) \in Nat
           /\ Ceiling(n, d) * d >= n
           /\ Ceiling(n, d) * d < n + d
           /\ Ceiling(n, d) * d - n = ((-n) % d)
           /\ \A k \in Nat : (k * d < n) <=> (k < Ceiling(n, d))
           /\ \A m \in Nat : m <= n => Ceiling(m, d) <= Ceiling(n, d)
<1>1. PICK c \in Nat, r \in Nat : c = (n + d - 1) \div d /\ n + d - 1 = c * d + r /\ r < d
  OBVIOUS
<1>2. c = Ceiling(n, d)
  BY <1>1 DEF Ceiling
<1>3. c * d >= n /\ c * d < n + d /\ c * d \in Nat
  BY <1>1
<1>4. c * d - n = ((-n) % d)
  <2>1. PICK e \in Nat : e = c * d - n /\ e < d
    BY <1>3
  <2>2. PICK u \in Int, v \in Int : v = ((-n) % d) /\ -n = d * u + v
    <3>1. PICK neg \in Int : neg = -n
      OBVIOUS
    <3>2. neg = d * (neg \div d) + (neg % d) /\ neg \div d \in Int /\ (neg % d) \in Int
      OBVIOUS
    <3> QED
      BY <3>1, <3>2
  <2>3. 0 <= v /\ v < d
    BY <2>2
  <2>4. PICK w \in Int : w = u + c
    BY <2>2
  <2>5. d * w = d * u + d * c
    BY <2>2, <2>4
  <2>6. d * c = c * d
    OBVIOUS
  <2>7. d * w = e - v
    <3>1. PICK x \in Int, y \in Int, z \in Int : x = d * u /\ y = c * d /\ z = d * w
      OBVIOUS
    <3>2. z = x + y /\ e = y - n /\ -n = x + v
      BY <2>1, <2>2, <2>5, <2>6, <3>1
    <3>3. z = e - v
      BY ONLY <3>2, x \in Int, y \in Int, z \in Int, e \in Nat, n \in Nat, v \in Int
    <3> QED
      BY <3>1, <3>3
  <2>8. ~(w >= 1)
    <3> SUFFICES ASSUME w >= 1 PROVE FALSE
      OBVIOUS
    <3>1. PICK j \in Nat : w = 1 + j
      OBVIOUS
    <3>2. d * w = d + d * j /\ d * j >= 0
      BY <3>1
    <3> QED
      BY <2>1, <2>3, <2>7, <3>2
  <2>9. ~(w <= -1)
    <3> SUFFICES ASSUME w <= -1 PROVE FALSE
      OBVIOUS
    <3>1. PICK j \in Nat : w = -1 - j
      OBVIOUS
    <3>2. d * w = -d - d * j /\ d * j >= 0
      BY <3>1
    <3> QED
      BY <2>1, <2>3, <2>7, <3>2
  <2>10. w = 0
    BY <2>8, <2>9
  <2>11. d * w = 0
    BY <2>10
  <2>12. e = v
    BY <2>1, <2>2, <2>7, <2>11
  <2> QED
    BY <2>1, <2>2, <2>12
<1>5. ASSUME NEW k \in Nat PROVE (k * d < n) <=> (k < c)
  <2>1. ASSUME k < c PROVE k * d < n
    <3>1. PICK j \in Nat : c = k + 1 + j
      BY <2>1
    <3>2. c * d = k * d + d + j * d /\ j * d >= 0 /\ k * d \in Nat
      BY <3>1
    <3> QED
      BY <1>3, <3>2
  <2>2. ASSUME ~(k < c) PROVE ~(k * d < n)
    <3>1. PICK j \in Nat : k = c + j
      BY <2>2
    <3>2. k * d = c * d + j * d /\ j * d >= 0
      BY <3>1
    <3> QED
      BY <1>3, <3>2
  <2> QED
    BY <2>1, <2>2
<1>6. ASSUME NEW m \in Nat, m <= n PROVE Ceiling(m, d) <= c
  <2>1. PICK e \in Nat, s \in Nat : e = (m + d - 1) \div d /\ m + d - 1 = e * d + s /\ s < d
    OBVIOUS
  <2>2. ~(c < e)
    <3> SUFFICES ASSUME c < e PROVE FALSE
      OBVIOUS
    <3>1. PICK j \in Nat : e = c + 1 + j
      OBVIOUS
    <3>2. e * d = c * d + d + j * d /\ j * d >= 0
      BY <3>1
    <3> QED
      BY <1>1, <1>6, <2>1, <3>2
  <2> QED
    BY <2>1, <2>2 DEF Ceiling
<1> QED
  BY <1>2, <1>3, <1>4, <1>5, <1>6

\* A list of audio is one run of samples, which ends with its last piece.
LEMMA OneRun ==
    ASSUME NEW subs \in AudioLists, NEW n \in Nat, n = Len(subs), NEW i \in 1 .. n
    PROVE  /\ EndsRun(subs, i) <=> i = n
           /\ BlockLength(subs, i) = SAMPLES_PER_BLOCK /\ AudioCutMode(subs)
           /\ i = n => RunUpTo(subs, i) = TotalLength(subs)
<1>1. \A k \in 1 .. n : subs[k] \in AudioPieces /\ subs[k].mode = "AUDIO"
  <2> TAKE k \in 1 .. n
  <2>1. subs[k] \in AudioPieces
    BY ElementOfSeq DEF AudioLists
  <2> QED
    BY <2>1, PieceFacts
<1>2. AudioCutMode(subs)
  <2>1. 1 \in 1 .. n
    OBVIOUS
  <2> QED
    BY <1>1, <2>1 DEF AudioCutMode
<1>3. \A k \in 1 .. n : EndsRun(subs, k) <=> k = n
  <2> TAKE k \in 1 .. n
  <2>1. k # n => k + 1 \in 1 .. n
    OBVIOUS
  <2>2. k # n => subs[k + 1].mode = subs[k].mode
    BY <1>1, <2>1
  <2> QED
    BY <2>2 DEF EndsRun
<1>4. ASSUME i = n PROVE RunUpTo(subs, i) = TotalLength(subs)
  <2>1. \A j \in 1 .. i : (/\ j = 1 \/ EndsRun(subs, j - 1)
                           /\ \A k \in j .. i - 1 : ~EndsRun(subs, k)) <=> j = 1
    <3> TAKE j \in 1 .. i
    <3>1. j # 1 => j - 1 \in 1 .. n /\ j - 1 # n
      BY <1>4
    <3>2. \A k \in j .. i - 1 : k \in 1 .. n /\ k # n
      BY <1>4
    <3> QED
      BY <1>3, <3>1, <3>2
  <2>2. PICK first : first = CHOOSE j \in 1 .. i : /\ j = 1 \/ EndsRun(subs, j - 1)
                                                   /\ \A k \in j .. i - 1 : ~EndsRun(subs, k)
    OBVIOUS
  <2>3. 1 \in 1 .. i
    OBVIOUS
  <2>4. first = 1
    BY <2>1, <2>2, <2>3
  <2>5. RunUpTo(subs, i) = TotalLength(SubSeq(subs, first, i))
    BY <2>2 DEF RunUpTo
  <2>6. SubSeq(subs, 1, n) = subs
    <3>1. subs \in Seq(AudioPieces)
      BY DEF AudioLists
    <3> QED
      BY <3>1, SubSeqFull
  <2> QED
    BY <1>4, <2>4, <2>5, <2>6
<1> QED
  BY <1>2, <1>3, <1>4 DEF BlockLength

\* The length of a track in blocks: that of its audio, rounded up.
LEMMA BlocksOfAudio ==
    ASSUME NEW subs \in AudioLists
    PROVE  LengthInBlocks(subs) = Ceiling(TotalLength(subs), SAMPLES_PER_BLOCK)
<1>1. PICK n \in Nat : n = Len(subs)
  BY LenProperties DEF AudioLists
<1>2. PICK c \in Nat : c = Ceiling(TotalLength(subs), SAMPLES_PER_BLOCK) /\ (n = 0 => c = 0)
  <2>1. TotalLength(subs) \in Nat /\ (n = 0 => TotalLength(subs) = 0)
    BY <1>1, RealFacts DEF AudioLists
  <2>2. PICK q \in Nat \ {0} : q = SAMPLES_PER_BLOCK
    BY TrackAssumption
  <2>3. Ceiling(TotalLength(subs), q) \in Nat
    BY <2>1, CeilingFacts
  <2>4. Ceiling(0, q) = 0
    BY DEF Ceiling
  <2> QED
    BY <2>1, <2>2, <2>3, <2>4
<1>3. \A i \in 1 .. n : BlocksOfRun(subs, i) = IF i = n THEN c ELSE 0
  <2> TAKE i \in 1 .. n
  <2>1. /\ EndsRun(subs, i) <=> i = n
        /\ BlockLength(subs, i) = SAMPLES_PER_BLOCK
        /\ i = n => RunUpTo(subs, i) = TotalLength(subs)
    BY <1>1, OneRun
  <2> QED
    BY <1>2, <2>1 DEF BlocksOfRun
<1>4. PICK f : f = [i \in 0 .. n |-> IF i = n THEN c ELSE 0]
  OBVIOUS
<1>5. \A i \in 0 .. n : f[i] = IF i = n THEN c ELSE 0
  BY <1>4
<1>6. \A i \in 0 .. n : f[i] = IF i = 0 THEN 0 ELSE f[i - 1] + BlocksOfRun(subs, i)
  <2> TAKE i \in 0 .. n
  <2>1. CASE i = 0
    BY <1>2, <1>5, <2>1
  <2>2. CASE i # 0
    <3>1. i \in 1 .. n /\ i - 1 \in 0 .. n /\ i - 1 # n
      BY <2>2
    <3>2. f[i - 1] = 0 /\ f[i] = IF i = n THEN c ELSE 0
      BY <1>5, <3>1
    <3> QED
      BY <1>3, <2>2, <3>1, <3>2
  <2> QED
    BY <2>1, <2>2
<1>7. f = [i \in 0 .. n |-> IF i = 0 THEN 0 ELSE f[i - 1] + BlocksOfRun(subs, i)]
  <2>1. f = [i \in 0 .. n |-> f[i]]
    BY <1>4, <1>5
  <2> QED
    BY <1>6, <2>1
<1>8. PICK g : g = [i \in 0 .. n |-> IF i = 0 THEN 0 ELSE g[i - 1] + BlocksOfRun(subs, i)] /\ LengthInBlocks(subs) = g[n]
  BY <1>1, <1>7 DEF LengthInBlocks
<1>9. PICK same : same = {i \in 0 .. n : g[i] = f[i]}
  OBVIOUS
<1>10. \A i \in 0 .. n : g[i] = IF i = 0 THEN 0 ELSE g[i - 1] + BlocksOfRun(subs, i)
  BY <1>8
<1>11. 0 \in same
  <2>1. 0 \in 0 .. n
    OBVIOUS
  <2> QED
    BY <1>6, <1>9, <1>10, <2>1
<1>12. ASSUME NEW i \in 1 .. n, i - 1 \in same PROVE i \in same
  <2>1. i \in 0 .. n /\ i # 0 /\ g[i - 1] = f[i - 1]
    BY <1>9, <1>12
  <2> QED
    BY <1>6, <1>9, <1>10, <2>1
<1>13. 0 .. n \subseteq same
  BY <1>11, <1>12, Everywhere
<1>14. n \in 0 .. n
  OBVIOUS
<1>15. g[n] = f[n] /\ f[n] = c
  BY <1>5, <1>9, <1>13, <1>14
<1> QED
  BY <1>2, <1>8, <1>15

\* A list of two pieces.
LEMMA TwoPieces ==
    ASSUME NEW T, NEW x \in T, NEW y \in T
    PROVE  <<x>> \o <<y>> = <<x, y>>
<1>1. PICK a, b, c : a = <<x>> /\ b = <<y>> /\ c = <<x, y>>
  OBVIOUS
<1>2. a \in Seq(T) /\ b \in Seq(T) /\ c \in Seq(T) /\ Len(a) = 1 /\ Len(b) = 1 /\ Len(c) = 2
  BY <1>1
<1>3. a[1] = x /\ b[1] = y /\ c[1] = x /\ c[2] = y
  BY <1>1
<1>4. PICK d \in Seq(T) : d = a \o b
  BY <1>2, ConcatProperties
<1>5. Len(d) = 2 /\ d[1] = x /\ d[2] = y
  BY <1>2, <1>3, <1>4, ConcatProperties
<1>6. \A i \in 1 .. 2 : d[i] = c[i]
  BY <1>3, <1>5
<1>7. d = c
  BY <1>2, <1>5, <1>6, SeqEqual
<1> QED
  BY <1>1, <1>4, <1>7

\* What update() pads a list of audio with.
PadOf(subs) == (-TotalLength(subs)) % SAMPLES_PER_BLOCK
\* A list without padding is padded at its end, if at all.
LEMMA PaddedAudio ==
    ASSUME NEW subs \in AudioLists
    PROVE  Padded(subs) = IF subs # <<>> /\ PadOf(subs) > 0 THEN Append(subs, Padding("AUDIO", PadOf(subs))) ELSE subs
<1>1. PICK n \in Nat : n = Len(subs) /\ subs \in Seq(AudioPieces)
  BY LenProperties DEF AudioLists
<1>2. PICK whole : whole = IF subs # <<>> /\ PadOf(subs) > 0 THEN Append(subs, Padding("AUDIO", PadOf(subs))) ELSE subs
  OBVIOUS
<1>3. \A i \in 1 .. n : i # n => WithPadding(subs, i) = <<subs[i]>>
  <2> TAKE i \in 1 .. n
  <2>1. EndsRun(subs, i) <=> i = n
    BY <1>1, OneRun
  <2> QED
    BY <2>1 DEF WithPadding
<1>4. n # 0 => WithPadding(subs, n) = IF PadOf(subs) > 0 THEN <<subs[n], Padding("AUDIO", PadOf(subs))>> ELSE <<subs[n]>>
  <2> SUFFICES ASSUME n # 0 PROVE WithPadding(subs, n) = IF PadOf(subs) > 0 THEN <<subs[n], Padding("AUDIO", PadOf(subs))>> ELSE <<subs[n]>>
    OBVIOUS
  <2>1. n \in 1 .. n
    OBVIOUS
  <2>2. /\ EndsRun(subs, n) /\ AudioCutMode(subs)
        /\ BlockLength(subs, n) = SAMPLES_PER_BLOCK
        /\ RunUpTo(subs, n) = TotalLength(subs)
    BY <1>1, <2>1, OneRun
  <2>3. PadLength(subs, n) = PadOf(subs)
    BY <2>2 DEF PadLength, PadOf
  <2> QED
    BY <2>2, <2>3 DEF WithPadding
<1>5. PICK first : first = [i \in 0 .. n |-> SubSeq(subs, 1, i)]
  OBVIOUS
<1>6. \A i \in 0 .. n : first[i] = SubSeq(subs, 1, i)
  BY <1>5
<1>7. first[0] = <<>> /\ first[n] = subs
  <2>1. 0 \in 0 .. n /\ n \in 0 .. n
    OBVIOUS
  <2>2. SubSeq(subs, 1, n) = subs
    BY <1>1, SubSeqFull
  <2>3. SubSeq(subs, 1, 0) = <<>>
    BY <1>1, SubSeqEmpty
  <2> QED
    BY <1>6, <2>1, <2>2, <2>3
<1>8. \A i \in 1 .. n : first[i] = first[i - 1] \o <<subs[i]>>
  <2> TAKE i \in 1 .. n
  <2>1. i \in 0 .. n /\ i - 1 \in 0 .. n
    OBVIOUS
  <2>2. first[i] = SubSeq(subs, 1, i) /\ first[i - 1] = SubSeq(subs, 1, i - 1)
    BY <1>6, <2>1
  <2>3. PICK k \in Nat : k = i - 1
    OBVIOUS
  <2>4. PICK a \in Seq(AudioPieces), b \in Seq(AudioPieces) : a = SubSeq(subs, 1, i) /\ b = SubSeq(subs, 1, k) \o <<subs[i]>>
    <3>1. subs[i] \in AudioPieces
      BY <1>1, ElementOfSeq
    <3>2. SubSeq(subs, 1, k) \in Seq(AudioPieces) /\ SubSeq(subs, 1, i) \in Seq(AudioPieces)
      BY <1>1, <2>3, SubSeqProperties
    <3>3. <<subs[i]>> \in Seq(AudioPieces)
      BY <3>1
    <3> QED
      BY <3>2, <3>3, ConcatProperties
  <2>5. Len(a) = i /\ Len(b) = i
    BY <1>1, <2>3, <2>4
  <2>6. \A j \in 1 .. i : a[j] = b[j]
    BY <1>1, <2>3, <2>4
  <2>7. a = b
    BY <2>4, <2>5, <2>6, SeqEqual
  <2> QED
    BY <2>2, <2>3, <2>4, <2>7
<1>9. PICK f : f = [i \in 0 .. n |-> IF i = n THEN whole ELSE first[i]]
  OBVIOUS
<1>10. \A i \in 0 .. n : f[i] = IF i = n THEN whole ELSE first[i]
  BY <1>9
<1>11. \A i \in 0 .. n : f[i] = IF i = 0 THEN <<>> ELSE f[i - 1] \o WithPadding(subs, i)
  <2> TAKE i \in 0 .. n
  <2>1. CASE i = 0
    <3>1. n = 0 => whole = <<>>
      <4> SUFFICES ASSUME n = 0 PROVE whole = <<>>
        OBVIOUS
      <4>1. subs = <<>>
        BY <1>1, EmptySeq
      <4> QED
        BY <1>2, <4>1
    <3> QED
      BY <1>7, <1>10, <2>1, <3>1
  <2>2. CASE i # 0 /\ i # n
    <3>1. i \in 1 .. n /\ i - 1 \in 0 .. n /\ i - 1 # n
      BY <2>2
    <3>2. f[i] = first[i] /\ f[i - 1] = first[i - 1]
      BY <1>10, <2>2, <3>1
    <3> QED
      BY <1>3, <1>8, <2>2, <3>1, <3>2
  <2>3. CASE i # 0 /\ i = n
    <3>1. i \in 1 .. n /\ i - 1 \in 0 .. n /\ i - 1 # n
      BY <2>3
    <3>2. f[i] = whole /\ f[i - 1] = first[i - 1] /\ first[i - 1] \o <<subs[n]>> = subs
      BY <1>7, <1>8, <1>10, <2>3, <3>1
    <3>3. subs # <<>>
      BY <1>1, <2>3, EmptySeq
    <3>4. CASE PadOf(subs) > 0
      <4>1. PICK pad : pad = Padding("AUDIO", PadOf(subs))
        OBVIOUS
      <4>2. WithPadding(subs, n) = <<subs[n], pad>> /\ whole = Append(subs, pad)
        BY <1>2, <1>4, <2>3, <3>3, <3>4, <4>1
      <4>3. PICK T : subs \in Seq(T) /\ pad \in T /\ first[i - 1] \in Seq(T) /\ subs[n] \in T
        <5>1. PICK T : T = AudioPieces \cup {pad}
          OBVIOUS
        <5>2. \A k \in 1 .. n : subs[k] \in T
          BY <1>1, <5>1, ElementOfSeq
        <5>3. subs \in Seq(T)
          BY <1>1, <5>2, SeqDef
        <5>4. first[i - 1] = SubSeq(subs, 1, i - 1)
          BY <1>6, <3>1
        <5>5. PICK k \in Nat : k = i - 1 /\ k <= n
          BY <3>1
        <5>6. SubSeq(subs, 1, k) \in Seq(T)
          BY <1>1, <5>3, <5>5, SubSeqProperties
        <5> QED
          BY <2>3, <3>1, <5>1, <5>2, <5>3, <5>4, <5>5, <5>6
      <4>4. Append(subs, pad) = (first[i - 1] \o <<subs[n]>>) \o <<pad>>
        BY <3>2, <4>3, AppendIsConcat
      <4>5. (first[i - 1] \o <<subs[n]>>) \o <<pad>> = first[i - 1] \o (<<subs[n]>> \o <<pad>>)
        BY <4>3, ConcatAssociative
      <4>6. <<subs[n]>> \o <<pad>> = <<subs[n], pad>>
        BY <4>3, TwoPieces
      <4> QED
        BY <2>3, <3>2, <4>2, <4>4, <4>5, <4>6
    <3>5. CASE ~(PadOf(subs) > 0)
      BY <1>2, <1>4, <2>3, <3>2, <3>5
    <3> QED
      BY <3>4, <3>5
  <2> QED
    BY <2>1, <2>2, <2>3
<1>12. f = [i \in 0 .. n |-> IF i = 0 THEN <<>> ELSE f[i - 1] \o WithPadding(subs, i)]
  <2>1. f = [i \in 0 .. n |-> f[i]]
    BY <1>9, <1>10
  <2> QED
    BY <1>11, <2>1
<1>13. PICK g : g = [i \in 0 .. n |-> IF i = 0 THEN <<>> ELSE g[i - 1] \o WithPadding(subs, i)] /\ Padded(subs) = g[n]
  BY <1>1, <1>12 DEF Padded
<1>14. PICK same : same = {i \in 0 .. n : g[i] = f[i]}
  OBVIOUS
<1>15. \A i \in 0 .. n : g[i] = IF i = 0 THEN <<>> ELSE g[i - 1] \o WithPadding(subs, i)
  BY <1>13
<1>16. 0 \in same
  <2>1. 0 \in 0 .. n
    OBVIOUS
  <2> QED
    BY <1>11, <1>14, <1>15, <2>1
<1>17. ASSUME NEW i \in 1 .. n, i - 1 \in same PROVE i \in same
  <2>1. i \in 0 .. n /\ i # 0 /\ g[i - 1] = f[i - 1]
    BY <1>14, <1>17
  <2> QED
    BY <1>11, <1>14, <1>15, <2>1
<1>18. 0 .. n \subseteq same
  BY <1>16, <1>17, Everywhere
<1>19. n \in 0 .. n
  OBVIOUS
<1>20. g[n] = f[n] /\ f[n] = whole
  BY <1>10, <1>14, <1>18, <1>19
<1> QED
  BY <1>2, <1>13, <1>20

\* What update() makes of a list of audio.
LEMMA PaddedFacts ==
    ASSUME NEW subs \in AudioLists, NoPadding(subs)
    PROVE  /\ Padded(subs) \in AudioLists
           /\ OnlyLastIsPadding(Padded(subs))
           /\ RealLength(Padded(subs)) = TotalLength(subs)
           /\ TotalLength(Padded(subs)) = LengthInBlocks(subs) * SAMPLES_PER_BLOCK
<1>1. PICK n \in Nat : n = Len(subs) /\ subs \in Seq(AudioPieces)
  BY LenProperties DEF AudioLists
<1>2. PICK q \in Nat \ {0}, total \in Nat : q = SAMPLES_PER_BLOCK /\ total = TotalLength(subs)
  BY <1>1, RealFacts, TrackAssumption
<1>3. RealLength(subs) = total
  BY <1>1, <1>2, RealFacts
<1>4. PICK c \in Nat : c = LengthInBlocks(subs) /\ c = Ceiling(total, q)
  BY <1>2, BlocksOfAudio, CeilingFacts
<1>5. PICK pad \in Nat : pad = PadOf(subs) /\ pad = c * q - total
  <2>1. Ceiling(total, q) * q >= total /\ Ceiling(total, q) * q - total = ((-total) % q)
    BY CeilingFacts
  <2>2. PadOf(subs) = ((-total) % q)
    BY <1>2 DEF PadOf
  <2>3. c * q >= total /\ c * q \in Nat /\ c * q - total = PadOf(subs)
    BY <1>4, <2>1, <2>2
  <2> QED
    BY <2>3
<1>6. c * q = total + pad
  <2>1. PICK e \in Nat : e = c * q
    BY <1>4
  <2> QED
    BY <1>5, <2>1
<1>7. CASE subs # <<>> /\ pad > 0
  <2>1. PICK last : last = Padding("AUDIO", pad)
    OBVIOUS
  <2>2. last = [pad |-> TRUE, mode |-> "AUDIO", file |-> Silence, pos |-> 0, len |-> pad]
    BY <2>1 DEF Padding, Piece
  <2>3. last \in AudioPieces /\ last.pad /\ last.len = pad
    BY <2>2, TrackAssumption DEF AudioPieces
  <2>4. Padded(subs) = Append(subs, last)
    BY <1>5, <1>7, <2>1, PaddedAudio
  <2>5. PICK p : p = Append(subs, last)
    OBVIOUS
  <2>6. p \in Seq(AudioPieces) /\ TotalLength(p) = total + pad /\ RealLength(p) = total
    BY <1>1, <1>2, <1>3, <2>3, <2>5, RealOfAppend
  <2>7. OnlyLastIsPadding(p)
    <3>1. Len(p) = n + 1 /\ \A i \in 1 .. n : p[i] = subs[i]
      BY <1>1, <2>3, <2>5, AppendProperties
    <3>2. \A i \in 1 .. n + 1 : i = n + 1 \/ i \in 1 .. n
      OBVIOUS
    <3>3. \A i \in 1 .. n : ~p[i].pad
      BY <1>1, <3>1 DEF NoPadding
    <3> QED
      BY <3>1, <3>2, <3>3 DEF OnlyLastIsPadding
  <2> QED
    BY <1>2, <1>4, <1>6, <2>4, <2>5, <2>6, <2>7 DEF AudioLists
<1>8. CASE ~(subs # <<>> /\ pad > 0)
  <2>1. Padded(subs) = subs
    BY <1>5, <1>8, PaddedAudio
  <2>2. total = c * q
    <3>1. CASE subs = <<>>
      <4>1. total = 0
        BY <1>1, <1>2, <3>1, RealFacts
      <4>2. c = 0
        BY <1>4, <4>1 DEF Ceiling
      <4> QED
        BY <4>1, <4>2
    <3>2. CASE subs # <<>>
      <4>1. pad = 0
        BY <1>8, <3>2
      <4> QED
        BY <1>6, <4>1
    <3> QED
      BY <3>1, <3>2
  <2>3. OnlyLastIsPadding(subs)
    BY DEF NoPadding, OnlyLastIsPadding
  <2> QED
    BY <1>2, <1>3, <1>4, <2>1, <2>2, <2>3
<1> QED
  BY <1>7, <1>8

\* Tracks are records.
IsRecord(t) == \E m, subs, len, s, ix : t = [mode |-> m, subTracks |-> subs, length |-> len, start |-> s, index |-> ix]

\* A track whose sub-tracks and length are what update() makes of audio.
IsUpdated(t) ==
    /\ IsRecord(t)
    /\ t.subTracks \in AudioLists
    /\ OnlyLastIsPadding(t.subTracks)
    /\ t.length = Ceiling(RealLength(t.subTracks), SAMPLES_PER_BLOCK)
    /\ TotalLength(t.subTracks) = t.length * SAMPLES_PER_BLOCK

\* update() keeps the audio, and counts its blocks.
LEMMA UpdateOfAudio ==
    ASSUME NEW t, IsRecord(t), t.subTracks \in AudioLists
    PROVE  /\ IsUpdated(Update(t))
           /\ RealLength(Update(t).subTracks) = RealLength(t.subTracks)
           /\ Update(t).length = Ceiling(RealLength(t.subTracks), SAMPLES_PER_BLOCK)
           /\ Update(t).start = ResetStart(t.start, Update(t).length)
           /\ Update(t).mode = t.mode /\ Update(t).index = t.index
<1>1. PICK u : u = Unpadded(t.subTracks)
  OBVIOUS
<1>2. u \in AudioLists /\ NoPadding(u) /\ TotalLength(u) = RealLength(t.subTracks)
  BY <1>1, UnpaddedFacts
<1>3. PICK p : p = Padded(u)
  OBVIOUS
<1>4. PICK l : l = LengthInBlocks(u)
  OBVIOUS
<1>5. /\ p \in AudioLists /\ OnlyLastIsPadding(p) /\ RealLength(p) = RealLength(t.subTracks)
      /\ l = Ceiling(RealLength(t.subTracks), SAMPLES_PER_BLOCK)
      /\ TotalLength(p) = l * SAMPLES_PER_BLOCK
  BY <1>2, <1>3, <1>4, PaddedFacts, BlocksOfAudio
<1>6. PICK m, subs, len, s, ix : t = [mode |-> m, subTracks |-> subs, length |-> len, start |-> s, index |-> ix]
  BY DEF IsRecord
<1>7. PICK r : r = ResetStart(s, l)
  OBVIOUS
<1>8. Update(t) = [t EXCEPT !.subTracks = p, !.length = l, !.start = ResetStart(@, l)]
  BY <1>1, <1>3, <1>4 DEF Update
<1>9. Update(t) = [mode |-> m, subTracks |-> p, length |-> l, start |-> r, index |-> ix]
  BY <1>6, <1>7, <1>8
<1>10. PICK v : v = Update(t)
  OBVIOUS
<1>11. IsRecord(v) /\ v.subTracks = p /\ v.length = l /\ v.start = r /\ v.mode = m /\ v.index = ix
  <2>1. IsRecord(v)
    BY <1>9, <1>10 DEF IsRecord
  <2> QED
    BY <1>9, <1>10, <2>1
<1>12. t.mode = m /\ t.start = s /\ t.index = ix
  BY <1>6
<1> QED
  BY <1>5, <1>7, <1>10, <1>11, <1>12 DEF IsUpdated
-----------------------------------------------------------------------------
(* Splitting and merging lists of audio.                                   *)

\* The first k pieces of a list and the other ones.
AreParts(subs, k, a, b) == k <= Len(subs) /\ a = SubSeq(subs, 1, k) /\ b = SubSeq(subs, k + 1, Len(subs))
\* Together the two parts hold what the list held.
LEMMA TwoParts ==
    ASSUME NEW subs \in AudioLists, NEW k \in Nat, NEW a, NEW b, AreParts(subs, k, a, b)
    PROVE  /\ a \in AudioLists /\ b \in AudioLists
           /\ TotalLength(subs) = TotalLength(a) + TotalLength(b)
           /\ RealLength(subs) = RealLength(a) + RealLength(b)
           /\ TotalLength(a) = SubTrackStart(subs, k + 1)
           /\ OnlyLastIsPadding(subs) /\ k # Len(subs) => NoPadding(a)
           /\ k = Len(subs) => a = subs /\ b = <<>>
<1> USE DEF AreParts
<1>1. PICK n \in Nat : n = Len(subs) /\ subs \in Seq(AudioPieces) /\ k \in 0 .. n
  BY LenProperties DEF AudioLists
<1>2. \A i \in 1 .. n : subs[i] \in AudioPieces
  BY <1>1, ElementOfSeq
<1>3. a \in Seq(AudioPieces) /\ Len(a) = k /\ \A i \in 1 .. k : a[i] = subs[i]
  <2>1. \A i \in 1 .. k : subs[i] \in AudioPieces
    BY <1>1, <1>2
  <2> QED
    BY <1>1, <2>1, SubSeqProperties
<1>4. b \in Seq(AudioPieces)
  <2>1. \A i \in k + 1 .. n : subs[i] \in AudioPieces
    BY <1>1, <1>2
  <2> QED
    BY <1>1, <2>1, SubSeqProperties
<1>5. subs = a \o b
  <2>1. a \o b = SubSeq(subs, 1, n)
    <3>1. 1 \in 1 .. n + 1 /\ k \in 1 - 1 .. n /\ n \in k .. n
      BY <1>1
    <3> QED
      BY <1>1, <3>1, ConcatAdjacentSubSeq
  <2> QED
    BY <1>1, <2>1, SubSeqFull
<1>6. TotalLength(subs) = TotalLength(a) + TotalLength(b) /\ RealLength(subs) = RealLength(a) + RealLength(b)
  <2>1. TotalLength(a \o b) = TotalLength(a) + TotalLength(b) /\ RealLength(a \o b) = RealLength(a) + RealLength(b)
    BY <1>3, <1>4, RealOfConcat
  <2> QED
    BY <1>5, <2>1
<1>7. TotalLength(a) = SubTrackStart(subs, k + 1)
  BY DEF SubTrackStart
<1>8. ASSUME OnlyLastIsPadding(subs), k # n PROVE NoPadding(a)
  <2>1. \A i \in 1 .. k : i \in 1 .. n /\ i # n
    BY <1>1, <1>8
  <2>2. \A i \in 1 .. k : ~a[i].pad
    BY <1>1, <1>3, <1>8, <2>1 DEF OnlyLastIsPadding
  <2> QED
    BY <1>3, <2>2 DEF NoPadding
<1>9. ASSUME k = n PROVE a = subs /\ b = <<>>
  <2>1. b = <<>>
    BY <1>1, <1>9, SubSeqEmpty
  <2> QED
    BY <1>1, <1>9, <2>1, SubSeqFull
<1> QED
  BY <1>1, <1>3, <1>4, <1>6, <1>7, <1>8, <1>9 DEF AudioLists

LesserOf(a, b) == IF a < b THEN a ELSE b

\* Splitting a list: the audio before the sample and the audio from it on.
LEMMA SplitFacts ==
    ASSUME NEW subs \in AudioLists, NEW sample \in Nat,
           NEW before, before = Split(subs, sample).before, NEW from, from = Split(subs, sample).from
    PROVE  /\ before \in AudioLists /\ from \in AudioLists
           /\ TotalLength(before) = LesserOf(sample, TotalLength(subs))
           /\ TotalLength(subs) = TotalLength(before) + TotalLength(from)
           /\ RealLength(subs) = RealLength(before) + RealLength(from)
           /\ OnlyLastIsPadding(subs) => RealLength(before) = LesserOf(sample, RealLength(subs))
<1>1. PICK n \in Nat : n = Len(subs) /\ subs \in Seq(AudioPieces) /\ Measured(subs)
  BY RealFacts DEF AudioLists
<1>2. PICK total \in Nat, real \in Nat : total = TotalLength(subs) /\ real = RealLength(subs) /\ real <= total
  BY <1>1, RealFacts
<1>3. ASSUME before \in AudioLists, from \in AudioLists,
             TotalLength(before) = LesserOf(sample, total), total = TotalLength(before) + TotalLength(from),
             real = RealLength(before) + RealLength(from),
             OnlyLastIsPadding(subs) => NoPadding(before) \/ RealLength(from) = 0,
             OnlyLastIsPadding(subs), sample <= total
      PROVE  RealLength(before) = LesserOf(sample, real)
  <2>1. PICK rb \in Nat, rf \in Nat : rb = RealLength(before) /\ rf = RealLength(from) /\ real = rb + rf
    BY <1>3, RealFacts DEF AudioLists
  <2>2. TotalLength(before) = sample
    BY <1>2, <1>3 DEF LesserOf
  <2>3. rb <= sample
    BY <1>3, <2>1, <2>2, RealFacts DEF AudioLists
  <2>4. CASE NoPadding(before)
    <3>1. rb = sample
      BY <1>3, <2>1, <2>2, <2>4, RealFacts DEF AudioLists
    <3> QED
      BY <2>1, <3>1 DEF LesserOf
  <2>5. CASE rf = 0
    <3>1. rb = real
      BY <2>1, <2>5
    <3> QED
      BY <2>1, <2>3, <3>1 DEF LesserOf
  <2> QED
    BY <1>3, <2>1, <2>4, <2>5
<1>4. CASE subs = <<>> \/ sample >= total
  <2>1. before = subs /\ from = <<>>
    BY <1>2, <1>4 DEF Split
  <2>2. <<>> \in Seq(AudioPieces) /\ TotalLength(<<>>) = 0 /\ RealLength(<<>>) = 0
    <3>1. <<>> \in Seq(AudioPieces) /\ Len(<<>>) = 0
      OBVIOUS
    <3> QED
      BY <3>1, RealFacts
  <2>3. sample >= total
    <3>1. subs = <<>> => total = 0
      BY <1>2, <2>2
    <3> QED
      BY <1>4, <3>1
  <2>4. TotalLength(before) = LesserOf(sample, total)
    BY <1>2, <2>1, <2>3 DEF LesserOf
  <2>5. RealLength(before) = LesserOf(sample, real)
    BY <1>2, <2>1, <2>3 DEF LesserOf
  <2>6. total = TotalLength(before) + TotalLength(from) /\ real = RealLength(before) + RealLength(from)
    BY <1>2, <2>1, <2>2
  <2> QED
    BY <1>2, <2>1, <2>2, <2>4, <2>5, <2>6 DEF AudioLists
<1>5. CASE ~(subs = <<>> \/ sample >= total)
  <2>1. subs # <<>> /\ sample < total
    BY <1>2, <1>5
  <2>2. PICK i \in 1 .. n : /\ i = FindSubTrack(subs, sample)
                            /\ SubTrackStart(subs, i) <= sample
                            /\ i = n \/ sample < SubTrackStart(subs, i + 1)
    BY <1>1, <2>1, FoundSubTrack
  <2>3. PICK st \in AudioPieces : st = subs[i]
    BY <1>1, <2>2, ElementOfSeq
  <2>4. st.pad \in BOOLEAN /\ st.len \in Nat
    BY PieceFacts
  <2>5. PICK start \in Nat : start = SubTrackStart(subs, i)
    <3>1. i \in 1 .. Len(subs) + 1
      BY <1>1
    <3> QED
      BY <1>1, <3>1, StartsOfPieces
  <2>6. SubTrackStart(subs, i + 1) = start + st.len
    BY <1>1, <2>3, <2>5, StartsOfPieces
  <2>7. start <= sample /\ sample < start + st.len
    <3>1. i = n => start + st.len = total
      BY <1>1, <1>2, <2>6, StartsOfPieces
    <3> QED
      BY <2>1, <2>2, <2>5, <2>6, <3>1
  <2>8. PICK d \in Nat : d = sample - start /\ d <= st.len /\ d \in 0 .. st.len
    BY <2>4, <2>7
  <2>19. PICK k \in Nat : k = i - 1
    OBVIOUS
  <2>9. PICK a, b : k = i - 1 /\ a = SubSeq(subs, 1, k) /\ b = SubSeq(subs, k + 1, n)
    BY <2>19
  <2>10. /\ a \in AudioLists /\ b \in AudioLists
         /\ total = TotalLength(a) + TotalLength(b)
         /\ real = RealLength(a) + RealLength(b)
         /\ TotalLength(a) = start
         /\ OnlyLastIsPadding(subs) => NoPadding(a)
    <3>1. k <= Len(subs) /\ k # Len(subs) /\ k + 1 = i
      BY <1>1, <2>9
    <3>2. a = SubSeq(subs, 1, k) /\ b = SubSeq(subs, k + 1, Len(subs))
      BY <1>1, <2>9
    <3>3. /\ a \in AudioLists /\ b \in AudioLists
          /\ TotalLength(subs) = TotalLength(a) + TotalLength(b)
          /\ RealLength(subs) = RealLength(a) + RealLength(b)
          /\ TotalLength(a) = SubTrackStart(subs, k + 1)
          /\ OnlyLastIsPadding(subs) => NoPadding(a)
      <4>1. AreParts(subs, k, a, b)
        BY <3>1, <3>2 DEF AreParts
      <4> QED
        BY <3>1, <4>1, TwoParts
    <3> QED
      BY <1>2, <2>5, <3>1, <3>3
  <2>11. CASE d = 0
    <3>1. before = a /\ from = b
      <4>1. Split(subs, sample) = [before |-> SubSeq(subs, 1, i - 1), from |-> SubSeq(subs, i, n)]
        BY <1>1, <1>2, <1>5, <2>2, <2>5, <2>8, <2>11 DEF Split
      <4>2. i = k + 1
        BY <2>9
      <4> QED
        BY <2>9, <4>1, <4>2
    <3>2. TotalLength(before) = LesserOf(sample, total)
      BY <1>2, <2>1, <2>8, <2>10, <2>11, <3>1 DEF LesserOf
    <3>3. before \in AudioLists /\ from \in AudioLists /\ total = TotalLength(before) + TotalLength(from)
          /\ real = RealLength(before) + RealLength(from) /\ (OnlyLastIsPadding(subs) => NoPadding(before))
      BY <2>10, <3>1
    <3>4. OnlyLastIsPadding(subs) => RealLength(before) = LesserOf(sample, real)
      BY <1>3, <2>1, <3>2, <3>3
    <3> QED
      BY <1>2, <3>2, <3>3, <3>4
  <2>12. CASE d # 0
    <3>1. PICK p, s : p = [st EXCEPT !.len = d] /\ s = SecondPart(st, d)
      OBVIOUS
    <3>2. /\ p \in AudioPieces /\ p.len = d /\ p.pad = st.pad
          /\ s \in AudioPieces /\ s.len = st.len - d /\ s.pad = st.pad
      BY <2>8, <3>1, PieceFacts
    <3>3. PICK c, e : c = SubSeq(subs, 1, i) /\ e = SubSeq(subs, i + 1, n)
      OBVIOUS
    <3>4. before = Append(a, p) /\ from = <<s>> \o e
      <4>1. Split(subs, sample) = [before |-> Append(SubSeq(subs, 1, i - 1), [subs[i] EXCEPT !.len = d]),
                                   from |-> <<SecondPart(subs[i], d)>> \o SubSeq(subs, i + 1, n)]
        BY <1>1, <1>2, <1>5, <2>2, <2>5, <2>8, <2>12 DEF Split
      <4>2. Split(subs, sample) = [before |-> Append(a, p), from |-> <<s>> \o e]
        BY <2>3, <2>9, <3>1, <3>3, <4>1
      <4> QED
        BY <4>2
    <3>5. /\ c \in AudioLists /\ e \in AudioLists
          /\ total = TotalLength(c) + TotalLength(e)
          /\ real = RealLength(c) + RealLength(e)
          /\ TotalLength(c) = start + st.len
          /\ i = n => e = <<>>
      <4>1. PICK j \in Nat : j = i /\ j <= Len(subs)
        BY <1>1
      <4>2. c = SubSeq(subs, 1, j) /\ e = SubSeq(subs, j + 1, Len(subs))
        BY <1>1, <3>3, <4>1
      <4>3. /\ c \in AudioLists /\ e \in AudioLists
            /\ TotalLength(subs) = TotalLength(c) + TotalLength(e)
            /\ RealLength(subs) = RealLength(c) + RealLength(e)
            /\ TotalLength(c) = SubTrackStart(subs, j + 1)
            /\ j = Len(subs) => e = <<>>
        <5>1. AreParts(subs, j, c, e)
          BY <4>1, <4>2 DEF AreParts
        <5> QED
          BY <5>1, TwoParts
      <4> QED
        BY <1>1, <1>2, <2>6, <4>1, <4>3
    <3>6. RealLength(c) = RealLength(a) + IF st.pad THEN 0 ELSE st.len
      <4>1. c = Append(a, st)
        <5>1. SubSeq(subs, 1, i) = SubSeq(subs, 1, i - 1) \o <<subs[i]>>
          <6>1. 1 \in 1 .. Len(subs) /\ i \in 1 .. Len(subs)
            BY <1>1
          <6> QED
            BY <1>1, <6>1, SubSeqRecursiveSecond
        <5>2. Append(a, st) = a \o <<st>>
          BY <2>10, AppendIsConcat DEF AudioLists
        <5> QED
          BY <2>3, <2>9, <3>3, <5>1, <5>2
      <4> QED
        BY <2>10, <4>1, RealOfAppend DEF AudioLists
    <3>7. /\ before \in AudioLists /\ TotalLength(before) = start + d
          /\ RealLength(before) = RealLength(a) + IF st.pad THEN 0 ELSE d
      BY <2>10, <3>2, <3>4, RealOfAppend DEF AudioLists
    <3>8. /\ from \in AudioLists /\ TotalLength(from) = st.len - d + TotalLength(e)
          /\ RealLength(from) = (IF st.pad THEN 0 ELSE st.len - d) + RealLength(e)
      <4>1. <<s>> \in Seq(AudioPieces) /\ TotalLength(<<s>>) = s.len /\ RealLength(<<s>>) = IF s.pad THEN 0 ELSE s.len
        BY <3>2, RealOfOne
      <4>2. PICK one, end : one = <<s>> /\ end = e /\ one \in Seq(AudioPieces) /\ end \in Seq(AudioPieces)
        BY <3>5, <4>1 DEF AudioLists
      <4>3. /\ one \o end \in Seq(AudioPieces)
            /\ TotalLength(one \o end) = TotalLength(one) + TotalLength(end)
            /\ RealLength(one \o end) = RealLength(one) + RealLength(end)
        BY <4>2, RealOfConcat
      <4>4. from = one \o end
        BY <3>4, <4>2
      <4> QED
        BY <3>2, <4>1, <4>2, <4>3, <4>4 DEF AudioLists
    <3>9. PICK ra \in Nat, re \in Nat, te \in Nat : ra = RealLength(a) /\ re = RealLength(e) /\ te = TotalLength(e)
      BY <2>10, <3>5, RealFacts DEF AudioLists
    <3>10. TotalLength(before) = sample /\ total = TotalLength(before) + TotalLength(from)
      BY <2>4, <2>8, <3>5, <3>7, <3>8, <3>9
    <3>11. real = RealLength(before) + RealLength(from)
      <4>1. CASE st.pad
        BY <3>5, <3>6, <3>7, <3>8, <3>9, <4>1
      <4>2. CASE ~st.pad
        BY <2>4, <2>8, <3>5, <3>6, <3>7, <3>8, <3>9, <4>2, SMTT(30)
      <4> QED
        BY <2>4, <4>1, <4>2
    <3>12. OnlyLastIsPadding(subs) => NoPadding(before) \/ RealLength(from) = 0
      <4> SUFFICES ASSUME OnlyLastIsPadding(subs) PROVE NoPadding(before) \/ RealLength(from) = 0
        OBVIOUS
      <4>1. CASE st.pad
        <5>1. i = n
          BY <1>1, <2>3, <4>1 DEF OnlyLastIsPadding
        <5>2. RealLength(e) = 0
          <6>1. <<>> \in Seq(AudioPieces) /\ Len(<<>>) = 0
            OBVIOUS
          <6> QED
            BY <3>5, <5>1, <6>1, RealFacts
        <5> QED
          BY <3>8, <4>1, <5>2
      <4>2. CASE ~st.pad
        <5>1. PICK m \in Nat : m = Len(a) /\ a \in Seq(AudioPieces)
          BY <2>10, LenProperties DEF AudioLists
        <5>2. Len(before) = m + 1 /\ before[m + 1] = p /\ \A j \in 1 .. m : before[j] = a[j]
          BY <3>2, <3>4, <5>1, AppendProperties
        <5>3. \A j \in 1 .. m : ~a[j].pad
          BY <2>10, <5>1 DEF NoPadding
        <5>4. \A j \in 1 .. m + 1 : j = m + 1 \/ j \in 1 .. m
          OBVIOUS
        <5>5. \A j \in 1 .. m + 1 : ~before[j].pad
          BY <3>2, <4>2, <5>2, <5>3, <5>4
        <5> QED
          BY <5>2, <5>5 DEF NoPadding
      <4> QED
        BY <4>1, <4>2
    <3>13. TotalLength(before) = LesserOf(sample, total)
      BY <1>2, <2>1, <3>10 DEF LesserOf
    <3>14. OnlyLastIsPadding(subs) => RealLength(before) = LesserOf(sample, real)
      BY <1>3, <2>1, <3>7, <3>8, <3>10, <3>11, <3>12, <3>13
    <3> QED
      BY <1>2, <3>7, <3>8, <3>10, <3>11, <3>13, <3>14
  <2> QED
    BY <2>11, <2>12
<1> QED
  BY <1>4, <1>5

\* The last piece of a list replaced by another one.
LEMMA LastReplaced ==
    ASSUME NEW s \in AudioLists, s # <<>>, NEW p \in AudioPieces
    PROVE  /\ Len(s) \in Nat \ {0} /\ s[Len(s)] \in AudioPieces
           /\ [s EXCEPT ![Len(s)] = p] \in AudioLists
           /\ \E a \in AudioLists : /\ s = Append(a, s[Len(s)])
                                    /\ [s EXCEPT ![Len(s)] = p] = Append(a, p)
                                    /\ OnlyLastIsPadding(s) => NoPadding(a)
<1>1. PICK n \in Nat \ {0} : n = Len(s) /\ s \in Seq(AudioPieces) /\ n \in 1 .. Len(s)
  BY EmptySeq DEF AudioLists
<1>2. \A i \in 1 .. n : s[i] \in AudioPieces
  BY <1>1, ElementOfSeq
<1>3. PICK r : r = [s EXCEPT ![n] = p]
  OBVIOUS
<1>4. r \in Seq(AudioPieces) /\ Len(r) = n /\ \A i \in 1 .. n : r[i] = IF i = n THEN p ELSE s[i]
  BY <1>1, <1>3, ExceptSeq
<1>5. PICK k \in Nat : k = n - 1 /\ k <= Len(s) /\ k # Len(s)
  BY <1>1
<1>6. PICK a, b : a = SubSeq(s, 1, k) /\ b = SubSeq(s, k + 1, Len(s))
  OBVIOUS
<1>7. a \in AudioLists /\ (OnlyLastIsPadding(s) => NoPadding(a))
  <2>1. AreParts(s, k, a, b)
    BY <1>5, <1>6 DEF AreParts
  <2> QED
    BY <1>5, <2>1, TwoParts
<1>8. a \in Seq(AudioPieces) /\ Len(a) = k /\ \A i \in 1 .. k : a[i] = s[i]
  <2>1. \A i \in 1 .. k : s[i] \in AudioPieces
    BY <1>2, <1>5
  <2> QED
    BY <1>5, <1>6, <2>1, SubSeqProperties
<1>9. \A i \in 1 .. n : i = n \/ i \in 1 .. k
  BY <1>5
<1>10. \A e \in AudioPieces : /\ Append(a, e) \in Seq(AudioPieces) /\ Len(Append(a, e)) = n
                              /\ \A i \in 1 .. n : Append(a, e)[i] = IF i = n THEN e ELSE a[i]
  <2> TAKE e \in AudioPieces
  <2>1. Append(a, e) \in Seq(AudioPieces) /\ Len(Append(a, e)) = k + 1 /\ k + 1 = n
    BY <1>5, <1>8, AppendProperties
  <2>2. Append(a, e)[n] = e /\ \A i \in 1 .. k : Append(a, e)[i] = a[i]
    BY <1>8, <2>1, AppendProperties
  <2>3. n \notin 1 .. k
    BY <1>5
  <2> QED
    BY <1>9, <2>1, <2>2, <2>3
<1>11. s = Append(a, s[n])
  <2>0. PICK e \in AudioPieces : e = s[n]
    BY <1>1, <1>2
  <2>1. PICK c : c = Append(a, e)
    OBVIOUS
  <2>2. c \in Seq(AudioPieces) /\ Len(c) = n /\ \A i \in 1 .. n : c[i] = IF i = n THEN e ELSE a[i]
    BY <1>10, <2>1
  <2>3. \A i \in 1 .. n : s[i] = c[i]
    BY <1>8, <1>9, <2>0, <2>2
  <2>4. s = c
    BY <1>1, <2>2, <2>3, SeqEqual
  <2> QED
    BY <2>0, <2>1, <2>4
<1>12. r = Append(a, p)
  <2>1. PICK c : c = Append(a, p)
    OBVIOUS
  <2>2. c \in Seq(AudioPieces) /\ Len(c) = n /\ \A i \in 1 .. n : c[i] = IF i = n THEN p ELSE a[i]
    BY <1>10, <2>1
  <2>3. \A i \in 1 .. n : r[i] = c[i]
    BY <1>4, <1>8, <1>9, <2>2
  <2>4. r = c
    BY <1>4, <2>2, <2>3, SeqEqual
  <2> QED
    BY <2>1, <2>4
<1> QED
  BY <1>1, <1>2, <1>3, <1>4, <1>7, <1>11, <1>12 DEF AudioLists

\* The audio of a piece.
RealOf(st) == IF st.pad THEN 0 ELSE st.len

\* One turn of mergeSubTracks() puts the piece behind the list, or into its last piece.
LEMMA MergeNextFacts ==
    ASSUME NEW done \in AudioLists, NEW st \in AudioPieces
    PROVE  /\ MergeNext(done, st) \in AudioLists
           /\ RealLength(MergeNext(done, st)) = RealLength(done) + RealOf(st)
<1>1. done \in Seq(AudioPieces) /\ st.pad \in BOOLEAN /\ st.len \in Nat
  BY PieceFacts DEF AudioLists
<1>2. CASE done # <<>> /\ Mergeable(done[Len(done)], st)
  <2>1. PICK last \in AudioPieces : last = done[Len(done)]
    BY <1>2, LastReplaced
  <2>2. last.pad = st.pad /\ last.len \in Nat
    BY <1>2, <2>1, PieceFacts DEF Mergeable
  <2>13. PICK l \in Nat : l = last.len + st.len
    BY <1>1, <2>2
  <2>3. PICK p : l = last.len + st.len /\ p = [last EXCEPT !.len = l]
    BY <2>13
  <2>4. p \in AudioPieces /\ p.len = l /\ p.pad = last.pad
    BY <2>3, PieceFacts
  <2>5. MergeNext(done, st) = [done EXCEPT ![Len(done)] = p]
    BY <1>2, <2>1, <2>3 DEF MergeNext
  <2>6. PICK a \in AudioLists : done = Append(a, last) /\ [done EXCEPT ![Len(done)] = p] = Append(a, p)
    <3>1. PICK a \in AudioLists : done = Append(a, done[Len(done)]) /\ [done EXCEPT ![Len(done)] = p] = Append(a, p)
      BY <1>2, <2>4, LastReplaced, ZenonT(30)
    <3> QED
      BY <2>1, <3>1
  <2>7. /\ Append(a, p) \in Seq(AudioPieces)
        /\ RealLength(Append(a, p)) = RealLength(a) + RealOf(p)
        /\ RealLength(Append(a, last)) = RealLength(a) + RealOf(last)
    BY <2>4, <2>6, RealOfAppend DEF AudioLists, RealOf
  <2>8. RealLength(a) \in Nat
    BY <2>6, RealFacts DEF AudioLists
  <2>9. RealOf(p) = RealOf(last) + RealOf(st)
    BY <1>1, <2>2, <2>4, <2>13 DEF RealOf
  <2>10. RealOf(last) \in Nat /\ RealOf(st) \in Nat
    BY <1>1, <2>2 DEF RealOf
  <2>11. PICK x \in Nat, y \in Nat, z \in Nat : x = RealLength(a) /\ y = RealOf(last) /\ z = RealOf(st)
    BY <2>8, <2>10
  <2>12. RealLength(Append(a, p)) = RealLength(done) + RealOf(st)
    <3>1. RealLength(done) = x + y /\ RealLength(Append(a, p)) = x + (y + z)
      BY <2>6, <2>7, <2>9, <2>11
    <3> QED
      BY <2>11, <3>1
  <2> QED
    BY <2>5, <2>6, <2>7, <2>12 DEF AudioLists
<1>3. CASE ~(done # <<>> /\ Mergeable(done[Len(done)], st))
  <2>1. MergeNext(done, st) = Append(done, st)
    BY <1>3 DEF MergeNext
  <2> QED
    BY <1>1, <2>1, RealOfAppend DEF AudioLists, RealOf
<1> QED
  BY <1>2, <1>3

\* The loop of mergeSubTracks() has a value at each place.
LEMMA MergeLoop ==
    ASSUME NEW subs \in AudioLists, NEW n \in Nat, n = Len(subs)
    PROVE  \E f \in [0 .. n -> AudioLists] :
               f[0] = <<>> /\ MergeSubTracks(subs) = f[n] /\ \A i \in 1 .. n : f[i] = MergeNext(f[i - 1], subs[i])
<1>1. PICK S : S = AudioLists
  OBVIOUS
<1>2. PICK none : none = <<>>
  OBVIOUS
<1>3. none \in S
  BY <1>1, <1>2 DEF AudioLists
<1>4. \A i \in 1 .. n : \A s \in S : MergeNext(s, subs[i]) \in S
  <2> TAKE i \in 1 .. n
  <2> TAKE s \in S
  <2>1. subs[i] \in AudioPieces
    BY ElementOfSeq DEF AudioLists
  <2> QED
    BY <1>1, <2>1, MergeNextFacts
<1>5. PICK step : step = [i \in 1 .. n |-> [s \in S |-> MergeNext(s, subs[i])]]
  OBVIOUS
<1>6. \A i \in 1 .. n : step[i] = [s \in S |-> MergeNext(s, subs[i])]
  BY <1>5
<1>7. \A i \in 1 .. n : \A s \in S : step[i][s] = MergeNext(s, subs[i])
  BY <1>6, ZenonT(30)
<1>8. IsLoop(S, n, none, step)
  <2>1. \A i \in 1 .. n : step[i] \in [S -> S]
    BY <1>4, <1>6
  <2>2. step \in [1 .. n -> [S -> S]]
    BY <1>5, <2>1
  <2> QED
    BY <1>3, <2>2 DEF IsLoop
<1>9. PICK f : ValuesOf(f, S, n, none, step)
  BY <1>8, LoopExists
<1>10. f \in [0 .. n -> S] /\ f[0] = none /\ \A i \in 1 .. n : f[i] = step[i][f[i - 1]]
  BY <1>9 DEF ValuesOf
<1>11. \A i \in 0 .. n : f[i] = IF i = 0 THEN <<>> ELSE MergeNext(f[i - 1], subs[i])
  <2> TAKE i \in 0 .. n
  <2>1. CASE i = 0
    BY <1>2, <1>10, <2>1
  <2>2. CASE i # 0
    <3>1. i \in 1 .. n /\ i - 1 \in 0 .. n
      BY <2>2
    <3>2. f[i] = step[i][f[i - 1]] /\ f[i - 1] \in S
      BY <1>10, <3>1
    <3>3. f[i] = MergeNext(f[i - 1], subs[i])
      BY <1>7, <3>1, <3>2
    <3> QED
      BY <2>2, <3>3
  <2> QED
    BY <2>1, <2>2
<1>12. f = [i \in 0 .. n |-> IF i = 0 THEN <<>> ELSE MergeNext(f[i - 1], subs[i])]
  <2>1. f = [i \in 0 .. n |-> f[i]]
    BY <1>10
  <2> QED
    BY <1>11, <2>1
<1>13. PICK g : g = [i \in 0 .. n |-> IF i = 0 THEN <<>> ELSE MergeNext(g[i - 1], subs[i])] /\ MergeSubTracks(subs) = g[n]
  BY <1>12 DEF MergeSubTracks, Loop
<1>14. \A i \in 0 .. n : g[i] = IF i = 0 THEN <<>> ELSE MergeNext(g[i - 1], subs[i])
  BY <1>13
<1>15. g = [i \in 0 .. n |-> g[i]] /\ g[0] = none
  <2>1. 0 \in 0 .. n
    OBVIOUS
  <2> QED
    BY <1>2, <1>13, <1>14, <2>1
<1>16. ASSUME NEW i \in 1 .. n, g[i - 1] \in S PROVE g[i] = step[i][g[i - 1]]
  <2>1. i \in 0 .. n /\ i # 0
    OBVIOUS
  <2> QED
    BY <1>7, <1>14, <1>16, <2>1
<1>17. ValuesOf(g, S, n, none, step)
  BY <1>8, <1>15, <1>16, LoopTyped
<1>18. \A i \in 1 .. n : g[i] = MergeNext(g[i - 1], subs[i])
  <2> TAKE i \in 1 .. n
  <2>1. i \in 0 .. n /\ i # 0
    OBVIOUS
  <2> QED
    BY <1>14, <2>1
<1> QED
  BY <1>1, <1>2, <1>13, <1>15, <1>17, <1>18 DEF ValuesOf

\* mergeSubTracks() keeps the audio of a list.
LEMMA MergeFacts ==
    ASSUME NEW subs \in AudioLists
    PROVE  MergeSubTracks(subs) \in AudioLists /\ RealLength(MergeSubTracks(subs)) = RealLength(subs)
<1>1. PICK n \in Nat : n = Len(subs)
  BY LenProperties DEF AudioLists
<1>2. PICK f \in [0 .. n -> AudioLists] :
          f[0] = <<>> /\ MergeSubTracks(subs) = f[n] /\ \A i \in 1 .. n : f[i] = MergeNext(f[i - 1], subs[i])
  BY <1>1, MergeLoop
<1>3. PICK solid : solid = Solid(subs)
  OBVIOUS
<1>4. /\ Measured(solid) /\ Len(solid) = n
      /\ \A i \in 1 .. n : solid[i].len = RealOf(subs[i])
  BY <1>1, <1>3, RealFacts DEF AudioLists, RealOf
<1>5. PICK h : AreSums(h, solid) /\ TotalLength(solid) = h[n]
  BY <1>4, LengthAddsUp
<1>6. h[0] = 0 /\ \A i \in 1 .. n : h[i] = h[i - 1] + solid[i].len
  BY <1>4, <1>5 DEF AreSums
<1>7. PICK holds : holds = {i \in 0 .. n : RealLength(f[i]) = h[i]}
  OBVIOUS
<1>8. 0 \in holds
  <2>1. <<>> \in Seq(AudioPieces) /\ Len(<<>>) = 0
    OBVIOUS
  <2>2. RealLength(<<>>) = 0
    BY <2>1, RealFacts
  <2> QED
    BY <1>2, <1>6, <1>7, <2>2
<1>9. ASSUME NEW i \in 1 .. n, i - 1 \in holds PROVE i \in holds
  <2>1. i - 1 \in 0 .. n /\ i \in 0 .. n /\ RealLength(f[i - 1]) = h[i - 1]
    BY <1>7, <1>9
  <2>2. f[i - 1] \in AudioLists /\ subs[i] \in AudioPieces /\ f[i] = MergeNext(f[i - 1], subs[i])
    BY <1>1, <1>2, <2>1, ElementOfSeq DEF AudioLists
  <2>3. RealLength(f[i]) = RealLength(f[i - 1]) + RealOf(subs[i])
    BY <2>2, MergeNextFacts
  <2>4. RealLength(f[i]) = h[i]
    BY <1>4, <1>6, <2>1, <2>3
  <2> QED
    BY <1>7, <2>1, <2>4
<1>10. 0 .. n \subseteq holds
  BY <1>8, <1>9, Everywhere
<1>11. n \in 0 .. n
  OBVIOUS
<1>12. RealLength(f[n]) = h[n] /\ f[n] \in AudioLists
  BY <1>2, <1>7, <1>10, <1>11
<1> QED
  BY <1>2, <1>3, <1>5, <1>12 DEF RealLength
-----------------------------------------------------------------------------
(* The operations on tracks of plain audio.                                *)

\* An updated track u holds as much audio as the list, and has the start and marks of t.
MadeFrom(u, t, subs) ==
    /\ IsUpdated(u)
    /\ RealLength(u.subTracks) = RealLength(subs)
    /\ u.length = Ceiling(RealLength(subs), SAMPLES_PER_BLOCK)
    /\ u.start = ResetStart(t.start, u.length)
    /\ u.mode = t.mode
    /\ u.index = t.index

\* What update() makes of a track with another list.
LEMMA UpdatedWith ==
    ASSUME NEW t, IsRecord(t), NEW subs \in AudioLists
    PROVE  MadeFrom(Update([t EXCEPT !.subTracks = subs]), t, subs)
<1>1. PICK m, old, len, s, ix : t = [mode |-> m, subTracks |-> old, length |-> len, start |-> s, index |-> ix]
  BY DEF IsRecord
<1>2. PICK v : v = [t EXCEPT !.subTracks = subs]
  OBVIOUS
<1>3. v = [mode |-> m, subTracks |-> subs, length |-> len, start |-> s, index |-> ix]
  BY <1>1, <1>2
<1>4. IsRecord(v) /\ v.subTracks = subs /\ v.start = t.start /\ v.mode = t.mode /\ v.index = t.index
  <2>1. IsRecord(v)
    BY <1>3 DEF IsRecord
  <2> QED
    BY <1>1, <1>3, <2>1
<1> QED
  BY <1>2, <1>4, UpdateOfAudio DEF MadeFrom

\* The same with the list merged.
LEMMA MergedWith ==
    ASSUME NEW t, IsRecord(t), NEW subs \in AudioLists
    PROVE  MadeFrom(Merged(t, subs), t, subs)
<1>1. PICK merged \in AudioLists : merged = MergeSubTracks(subs) /\ RealLength(merged) = RealLength(subs)
  BY MergeFacts
<1>2. Merged(t, subs) = Update([t EXCEPT !.subTracks = merged])
  BY <1>1 DEF Merged
<1>3. MadeFrom(Merged(t, subs), t, merged)
  BY <1>2, UpdatedWith
<1> QED
  BY <1>1, <1>3 DEF MadeFrom

\* The padding at the end becomes data when more is appended.
LEMMA PadToDataFacts ==
    ASSUME NEW subs \in AudioLists
    PROVE  /\ PadToData(subs) \in AudioLists
           /\ TotalLength(PadToData(subs)) = TotalLength(subs)
           /\ RealLength(PadToData(subs)) \in Nat /\ RealLength(PadToData(subs)) >= RealLength(subs)
           /\ OnlyLastIsPadding(subs) => RealLength(PadToData(subs)) = TotalLength(subs)
<1>1. subs \in Seq(AudioPieces) /\ RealLength(subs) \in Nat /\ TotalLength(subs) \in Nat
  BY RealFacts DEF AudioLists
<1>2. CASE subs = <<>>
  <2>1. PadToData(subs) = subs
    BY <1>2 DEF PadToData
  <2>2. RealLength(subs) = 0 /\ TotalLength(subs) = 0
    <3>1. Len(subs) = 0
      BY <1>1, <1>2
    <3> QED
      BY <1>1, <3>1, RealFacts
  <2> QED
    BY <1>1, <2>1, <2>2
<1>3. CASE subs # <<>>
  <2>1. PICK last \in AudioPieces : last = subs[Len(subs)]
    <3>1. Len(subs) \in 1 .. Len(subs)
      BY <1>1, <1>3, EmptySeq
    <3> QED
      BY <1>1, <3>1, ElementOfSeq
  <2>2. PICK p \in AudioPieces : p = AsData(last) /\ ~p.pad /\ p.len = last.len /\ last.pad \in BOOLEAN /\ last.len \in Nat
    BY PieceFacts
  <2>3. PadToData(subs) = [subs EXCEPT ![Len(subs)] = p]
    BY <1>3, <2>1, <2>2 DEF PadToData
  <2>4. PICK a \in AudioLists : /\ subs = Append(a, subs[Len(subs)])
                                /\ [subs EXCEPT ![Len(subs)] = p] = Append(a, p)
                                /\ OnlyLastIsPadding(subs) => NoPadding(a)
    BY <1>3, LastReplaced
  <2>5. PICK r \in Nat, n \in Nat : r = RealLength(a) /\ n = TotalLength(a) /\ (NoPadding(a) => r = n)
    BY <2>4, RealFacts DEF AudioLists
  <2>6. subs = Append(a, last) /\ PadToData(subs) = Append(a, p)
    BY <2>1, <2>3, <2>4
  <2>7. RealLength(Append(a, last)) = r + RealOf(last) /\ TotalLength(Append(a, last)) = n + last.len
    BY <2>4, <2>5, RealOfAppend DEF AudioLists, RealOf
  <2>8. RealLength(Append(a, p)) = r + RealOf(p) /\ TotalLength(Append(a, p)) = n + p.len /\ Append(a, p) \in AudioLists
    BY <2>2, <2>4, <2>5, RealOfAppend DEF AudioLists, RealOf
  <2>9. PICK l \in Nat, lp \in Nat : l = last.len /\ lp = RealOf(last) /\ lp <= l /\ RealOf(p) = l
    BY <2>2 DEF RealOf
  <2>10. /\ RealLength(subs) = r + lp /\ TotalLength(subs) = n + l
         /\ RealLength(PadToData(subs)) = r + l /\ TotalLength(PadToData(subs)) = n + l
    BY <2>2, <2>6, <2>7, <2>8, <2>9
  <2>11. OnlyLastIsPadding(subs) => r = n
    BY <2>4, <2>5
  <2>12. RealLength(PadToData(subs)) >= RealLength(subs) /\ RealLength(PadToData(subs)) \in Nat
    BY <2>5, <2>9, <2>10
  <2> QED
    BY <2>6, <2>8, <2>10, <2>11, <2>12
<1> QED
  BY <1>2, <1>3

\* Sub-tracks that leave a track hold no padding.
LEMMA RemovalFacts ==
    ASSUME NEW list \in AudioLists, NEW t
    PROVE  /\ Removal(list, t).track = t
           /\ Removal(list, t).list \in AudioLists
           /\ NoPadding(Removal(list, t).list)
           /\ TotalLength(Removal(list, t).list) = TotalLength(list)
           /\ RealLength(Removal(list, t).list) = TotalLength(list)
<1>1. PICK n \in Nat : n = Len(list) /\ DOMAIN list = 1 .. n /\ Measured(list)
  BY RealFacts DEF AudioLists
<1>2. PICK r : r = Removal(list, t).list
  OBVIOUS
<1>3. r = [i \in 1 .. n |-> AsData(list[i])]
  BY <1>1, <1>2 DEF Removal
<1>4. \A i \in 1 .. n : r[i] = AsData(list[i])
  BY <1>3
<1>5. \A i \in 1 .. n : r[i] \in AudioPieces /\ ~r[i].pad /\ r[i].len = list[i].len
  <2> TAKE i \in 1 .. n
  <2>1. list[i] \in AudioPieces
    BY <1>1, ElementOfSeq DEF AudioLists
  <2> QED
    BY <1>4, <2>1, PieceFacts
<1>6. r \in Seq(AudioPieces) /\ Len(r) = n
  <2>1. r \in [1 .. n -> AudioPieces]
    BY <1>3, <1>5
  <2>2. PICK R : R = AudioPieces
    OBVIOUS
  <2>3. r \in [1 .. n -> R]
    BY <2>1, <2>2
  <2>4. r \in Seq(R) /\ Len(r) = n
    BY ONLY <2>3, n \in Nat
  <2> QED
    BY <2>2, <2>4
<1>7. Measured(r) /\ RealLength(r) \in Nat
  BY <1>6, RealFacts
<1>8. NoPadding(r)
  BY <1>5, <1>6 DEF NoPadding
<1>9. TotalLength(r) = TotalLength(list)
  BY <1>1, <1>5, <1>6, <1>7, SameLength
<1>10. RealLength(r) = TotalLength(r)
  BY <1>6, <1>8, RealFacts
<1>11. Removal(list, t).track = t
  BY DEF Removal
<1> QED
  BY <1>2, <1>6, <1>8, <1>9, <1>10, <1>11 DEF AudioLists

\* The tracks of plain audio, as update() leaves them.
AudioTracks == [mode : {"AUDIO"}, subTracks : AudioLists, length : Nat, start : Nat, index : Seq(Nat)]
WholeTracks == {t \in AudioTracks : IsUpdated(t)}

\* What is known of such a track.
LEMMA WholeFacts ==
    ASSUME NEW t \in WholeTracks
    PROVE  /\ IsRecord(t) /\ IsUpdated(t)
           /\ t.mode = "AUDIO" /\ t.subTracks \in AudioLists /\ t.length \in Nat /\ t.start \in Nat /\ t.index \in Seq(Nat)
           /\ OnlyLastIsPadding(t.subTracks)
           /\ RealLength(t.subTracks) \in Nat
           /\ t.length = Ceiling(RealLength(t.subTracks), SAMPLES_PER_BLOCK)
           /\ TotalLength(t.subTracks) = t.length * SAMPLES_PER_BLOCK
<1>1. t \in AudioTracks /\ IsUpdated(t)
  BY DEF WholeTracks
<1>2. t.mode = "AUDIO" /\ t.subTracks \in AudioLists /\ t.length \in Nat /\ t.start \in Nat /\ t.index \in Seq(Nat)
  BY <1>1 DEF AudioTracks
<1>3. RealLength(t.subTracks) \in Nat
  BY <1>2, RealFacts DEF AudioLists
<1> QED
  BY <1>1, <1>2, <1>3 DEF IsUpdated

\* What is made from such a track, or from one with another start and index, is one again.
LEMMA MadeWhole ==
    ASSUME NEW u, NEW t, NEW subs \in AudioLists, MadeFrom(u, t, subs),
           t.mode = "AUDIO", t.start \in Nat, t.index \in Seq(Nat)
    PROVE  u \in WholeTracks /\ Length(u) = u.length
<1>1. PICK m, list, len, s, ix : u = [mode |-> m, subTracks |-> list, length |-> len, start |-> s, index |-> ix]
  BY DEF MadeFrom, IsUpdated, IsRecord
<1>2. u.mode = "AUDIO" /\ u.subTracks \in AudioLists /\ u.index \in Seq(Nat)
  BY DEF MadeFrom, IsUpdated
<1>3. u.length \in Nat
  <2>1. PICK q \in Nat \ {0}, r \in Nat : q = SAMPLES_PER_BLOCK /\ r = RealLength(subs)
    BY TrackAssumption, RealFacts DEF AudioLists
  <2>2. Ceiling(r, q) \in Nat
    BY CeilingFacts
  <2> QED
    BY <2>1, <2>2 DEF MadeFrom
<1>4. u.start \in Nat
  BY DEF MadeFrom, ResetStart
<1>5. u \in AudioTracks
  BY <1>1, <1>2, <1>3, <1>4 DEF AudioTracks
<1> QED
  BY <1>5 DEF WholeTracks, MadeFrom, Length

\* A new track has no audio.
LEMMA NewTrackIsWhole == NewTrack("AUDIO") \in WholeTracks /\ NewTrack("AUDIO").index = <<>> /\ NewTrack("AUDIO").start = 0
<1>1. PICK t : t = NewTrack("AUDIO")
  OBVIOUS
<1>2. t = [mode |-> "AUDIO", subTracks |-> <<>>, length |-> 0, start |-> 0, index |-> <<>>]
  BY <1>1 DEF NewTrack
<1>3. t.mode = "AUDIO" /\ t.subTracks = <<>> /\ t.length = 0 /\ t.start = 0 /\ t.index = <<>> /\ IsRecord(t)
  <2>1. IsRecord(t)
    BY <1>2 DEF IsRecord
  <2> QED
    BY <1>2, <2>1
<1>4. PICK none : none = <<>>
  OBVIOUS
<1>5. none \in Seq(AudioPieces) /\ Len(none) = 0 /\ none \in AudioLists
  BY <1>4 DEF AudioLists
<1>6. TotalLength(none) = 0 /\ RealLength(none) = 0
  BY <1>5, RealFacts
<1>7. OnlyLastIsPadding(none)
  BY <1>5 DEF OnlyLastIsPadding
<1>8. PICK q \in Nat \ {0} : q = SAMPLES_PER_BLOCK
  BY TrackAssumption
<1>9. Ceiling(0, q) = 0 /\ 0 * q = 0
  BY DEF Ceiling
<1>10. IsUpdated(t)
  BY <1>3, <1>4, <1>5, <1>6, <1>7, <1>8, <1>9 DEF IsUpdated
<1>11. t \in AudioTracks
  <2>1. none \in Seq(Nat)
    BY <1>4
  <2> QED
    BY <1>2, <1>4, <1>5, <2>1 DEF AudioTracks
<1> QED
  BY <1>1, <1>3, <1>10, <1>11 DEF WholeTracks

\* Appending a sub-track.
LEMMA AppendOfAudio ==
    ASSUME NEW t \in WholeTracks, NEW st \in AudioPieces
    PROVE  /\ MadeFrom(AppendSubTrack(t, st), t, Append(t.subTracks, st))
           /\ Append(t.subTracks, st) \in AudioLists
           /\ RealLength(Append(t.subTracks, st)) >= RealLength(t.subTracks)
<1>1. PICK subs \in AudioLists : subs = t.subTracks
  BY WholeFacts
<1>2. AcceptsMode(t, st)
  <2>1. CASE subs = <<>>
    BY <1>1, <2>1 DEF AcceptsMode
  <2>2. CASE subs # <<>>
    <3>1. 1 \in 1 .. Len(subs)
      BY <2>2, EmptySeq DEF AudioLists
    <3>2. subs[1].mode = "AUDIO"
      <4>1. subs[1] \in AudioPieces
        BY <3>1, ElementOfSeq DEF AudioLists
      <4> QED
        BY <4>1, PieceFacts
    <3>3. st.mode = "AUDIO"
      BY PieceFacts
    <3> QED
      BY <1>1, <3>2, <3>3 DEF AcceptsMode, AudioCutMode
  <2> QED
    BY <2>1, <2>2
<1>3. PICK more : more = Append(subs, st)
  OBVIOUS
<1>4. more \in AudioLists /\ RealLength(more) = RealLength(subs) + RealOf(st)
  BY <1>3, RealOfAppend DEF AudioLists, RealOf
<1>5. AppendSubTrack(t, st) = Update([t EXCEPT !.subTracks = more])
  BY <1>1, <1>2, <1>3 DEF AppendSubTrack
<1>6. IsRecord(t)
  BY WholeFacts
<1>7. MadeFrom(AppendSubTrack(t, st), t, more)
  BY <1>4, <1>5, <1>6, UpdatedWith
<1>8. PICK x \in Nat, y \in Nat : x = RealLength(subs) /\ y = RealOf(st)
  BY <1>1, WholeFacts, PieceFacts DEF RealOf
<1>9. RealLength(more) >= RealLength(subs)
  BY <1>4, <1>8
<1> QED
  BY <1>1, <1>3, <1>4, <1>7, <1>9

\* Appending, prepending and joining: the audio of both, and of the padding in between.
LEMMA JoinsOfAudio ==
    ASSUME NEW t \in WholeTracks, NEW list \in AudioLists, list # <<>>
    PROVE  /\ PadToData(t.subTracks) \o list \in AudioLists
           /\ MadeFrom(AppendTrackData(t, list), t, PadToData(t.subTracks) \o list)
           /\ RealLength(PadToData(t.subTracks) \o list) = t.length * SAMPLES_PER_BLOCK + RealLength(list)
           /\ list \o t.subTracks \in AudioLists
           /\ MadeFrom(PrependTrackData(t, list), t, list \o t.subTracks)
           /\ RealLength(list \o t.subTracks) = RealLength(list) + RealLength(t.subTracks)
<1>1. PICK subs \in AudioLists : subs = t.subTracks /\ OnlyLastIsPadding(subs) /\ TotalLength(subs) = t.length * SAMPLES_PER_BLOCK
  BY WholeFacts
<1>2. PICK padded \in AudioLists : padded = PadToData(subs) /\ RealLength(padded) = TotalLength(subs)
  BY <1>1, PadToDataFacts
<1>3. PICK behind, front : behind = padded \o list /\ front = list \o subs
  OBVIOUS
<1>4. behind \in AudioLists /\ RealLength(behind) = RealLength(padded) + RealLength(list)
  BY <1>3, RealOfConcat DEF AudioLists
<1>5. front \in AudioLists /\ RealLength(front) = RealLength(list) + RealLength(subs)
  BY <1>3, RealOfConcat DEF AudioLists
<1>6. IsRecord(t)
  BY WholeFacts
<1>7. AppendTrackData(t, list) = Merged(t, behind) /\ PrependTrackData(t, list) = Merged(t, front)
  BY <1>1, <1>2, <1>3 DEF AppendTrackData, PrependTrackData
<1>8. MadeFrom(AppendTrackData(t, list), t, behind) /\ MadeFrom(PrependTrackData(t, list), t, front)
  BY <1>4, <1>5, <1>6, <1>7, MergedWith
<1> QED
  BY <1>1, <1>2, <1>3, <1>4, <1>5, <1>8

\* Joining a whole track.
LEMMA WholeJoined ==
    ASSUME NEW t \in WholeTracks, NEW other \in WholeTracks
    PROVE  /\ t.subTracks \o other.subTracks \in AudioLists
           /\ MadeFrom(AppendWholeTrack(t, other), t, t.subTracks \o other.subTracks)
           /\ RealLength(t.subTracks \o other.subTracks) = RealLength(t.subTracks) + RealLength(other.subTracks)
<1>1. PICK a \in AudioLists, b \in AudioLists : a = t.subTracks /\ b = other.subTracks
  BY WholeFacts
<1>2. PICK c : c = a \o b
  OBVIOUS
<1>3. c \in AudioLists /\ RealLength(c) = RealLength(a) + RealLength(b)
  BY <1>2, RealOfConcat DEF AudioLists
<1>4. IsRecord(t)
  BY WholeFacts
<1>5. AppendWholeTrack(t, other) = Merged(t, c)
  BY <1>1, <1>2 DEF AppendWholeTrack
<1>6. MadeFrom(AppendWholeTrack(t, other), t, c)
  BY <1>3, <1>4, <1>5, MergedWith
<1> QED
  BY <1>1, <1>2, <1>3, <1>6

\* Dropping marks behind the end changes nothing else.
LEMMA DropChangesMarks ==
    ASSUME NEW t \in WholeTracks
    PROVE  /\ DropIndicesBehindEnd(t) \in WholeTracks
           /\ DropIndicesBehindEnd(t).subTracks = t.subTracks
           /\ DropIndicesBehindEnd(t).length = t.length
           /\ DropIndicesBehindEnd(t).start = t.start
           /\ Len(DropIndicesBehindEnd(t).index) <= Len(t.index)
<1>1. PICK behind : behind = {i \in DOMAIN t.index : t.index[i] + t.start >= t.length}
  OBVIOUS
<1>2. DropIndicesBehindEnd(t) = IF behind = {} THEN t ELSE [t EXCEPT !.index = SubSeq(@, 1, Min(behind) - 1)]
  BY <1>1 DEF DropIndicesBehindEnd, Length
<1>3. t.index \in Seq(Nat) /\ Len(t.index) \in Nat /\ DOMAIN t.index = 1 .. Len(t.index)
  BY WholeFacts
<1>4. CASE behind = {}
  BY <1>2, <1>3, <1>4
<1>5. CASE behind # {}
  <2>1. PICK m \in 1 .. Len(t.index) : m = Min(behind)
    <3>1. behind \subseteq Nat
      BY <1>1, <1>3
    <3>2. Min(behind) \in behind
      BY <1>5, <3>1, LeastNatural
    <3> QED
      BY <1>1, <1>3, <3>2
  <2>2. PICK x : x = SubSeq(t.index, 1, m - 1)
    OBVIOUS
  <2>3. x \in Seq(Nat) /\ Len(x) <= Len(t.index)
    <3>1. PICK k \in Nat : k = m - 1 /\ k <= Len(t.index)
      BY <1>3, <2>1
    <3>2. \A i \in 1 .. k : t.index[i] \in Nat
      BY <1>3, <3>1, ElementOfSeq
    <3>3. x \in Seq(Nat) /\ Len(x) = k
      BY <2>2, <3>1, <3>2, SubSeqProperties
    <3> QED
      BY <3>1, <3>3
  <2>4. PICK u : u = DropIndicesBehindEnd(t)
    OBVIOUS
  <2>5. u = [t EXCEPT !.index = x]
    BY <1>2, <1>5, <2>1, <2>2, <2>4
  <2>6. PICK m2, list, len, s, ix : t = [mode |-> m2, subTracks |-> list, length |-> len, start |-> s, index |-> ix]
    BY WholeFacts DEF IsRecord
  <2>7. u = [mode |-> m2, subTracks |-> list, length |-> len, start |-> s, index |-> x]
    BY <2>5, <2>6
  <2>8. u.subTracks = t.subTracks /\ u.length = t.length /\ u.start = t.start /\ u.index = x /\ u.mode = t.mode
    BY <2>6, <2>7
  <2>9. IsUpdated(u)
    <3>1. IsRecord(u)
      BY <2>7 DEF IsRecord
    <3> QED
      BY <2>8, <3>1, WholeFacts DEF IsUpdated
  <2>10. u \in AudioTracks
    <3>1. t.mode = "AUDIO" /\ t.subTracks \in AudioLists /\ t.length \in Nat /\ t.start \in Nat
      BY WholeFacts
    <3> QED
      BY <2>3, <2>7, <2>8, <3>1 DEF AudioTracks
  <2> QED
    BY <2>3, <2>4, <2>8, <2>9, <2>10 DEF WholeTracks
<1> QED
  BY <1>4, <1>5

\* A track with another start and other marks.
Marked(t, s, x) == [t EXCEPT !.start = s, !.index = x]

\* Another start and other marks leave the audio alone.
LEMMA OtherMarks ==
    ASSUME NEW t \in WholeTracks, NEW s \in Nat, NEW x \in Seq(Nat)
    PROVE  /\ Marked(t, s, x) \in WholeTracks
           /\ Marked(t, s, x).subTracks = t.subTracks /\ Marked(t, s, x).length = t.length
           /\ Marked(t, s, x).start = s /\ Marked(t, s, x).index = x
<1>1. PICK u : u = Marked(t, s, x)
  OBVIOUS
<1>2. PICK m, list, len, s2, ix : t = [mode |-> m, subTracks |-> list, length |-> len, start |-> s2, index |-> ix]
  BY WholeFacts DEF IsRecord
<1>3. u = [mode |-> m, subTracks |-> list, length |-> len, start |-> s, index |-> x]
  BY <1>1, <1>2 DEF Marked
<1>4. u.subTracks = t.subTracks /\ u.length = t.length /\ u.start = s /\ u.index = x /\ u.mode = t.mode
  BY <1>2, <1>3
<1>5. IsUpdated(u)
  <2>1. IsRecord(u)
    BY <1>3 DEF IsRecord
  <2> QED
    BY <1>4, <2>1, WholeFacts DEF IsUpdated
<1>6. u \in AudioTracks
  <2>1. t.mode = "AUDIO" /\ t.subTracks \in AudioLists /\ t.length \in Nat
    BY WholeFacts
  <2> QED
    BY <1>3, <1>4, <2>1 DEF AudioTracks
<1> QED
  BY <1>1, <1>4, <1>5, <1>6 DEF WholeTracks

\* The ways in which the operations set the marks.
LEMMA MarkedForms ==
    ASSUME NEW t, IsRecord(t), NEW s, NEW x
    PROVE  /\ [t EXCEPT !.start = s] = Marked(t, s, t.index)
           /\ [t EXCEPT !.index = x] = Marked(t, t.start, x)
<1>2. PICK m, list, len, s2, ix : t = [mode |-> m, subTracks |-> list, length |-> len, start |-> s2, index |-> ix]
  BY DEF IsRecord
<1>7. [t EXCEPT !.start = s] = Marked(t, s, t.index)
  BY <1>2 DEF Marked
<1>8. [t EXCEPT !.index = x] = Marked(t, t.start, x)
  BY <1>2 DEF Marked
<1> QED
  BY <1>7, <1>8

\* What is left of a track, and what is removed from it.
LEMMA KeptAudio ==
    ASSUME NEW t \in WholeTracks, NEW subs \in AudioLists
    PROVE  /\ Keeping(t, subs) \in WholeTracks
           /\ Keeping(t, subs).length = Ceiling(RealLength(subs), SAMPLES_PER_BLOCK)
           /\ RealLength(Keeping(t, subs).subTracks) = RealLength(subs)
           /\ Len(Keeping(t, subs).index) <= Len(t.index)
<1>1. PICK u : u = Update([t EXCEPT !.subTracks = subs])
  OBVIOUS
<1>2. MadeFrom(u, t, subs)
  BY <1>1, WholeFacts, UpdatedWith
<1>3. u \in WholeTracks
  BY <1>2, WholeFacts, MadeWhole
<1>4. Keeping(t, subs) = DropIndicesBehindEnd(u)
  BY <1>1 DEF Keeping
<1>5. u.index = t.index /\ u.length = Ceiling(RealLength(subs), SAMPLES_PER_BLOCK) /\ RealLength(u.subTracks) = RealLength(subs)
  BY <1>2 DEF MadeFrom
<1> QED
  BY <1>3, <1>4, <1>5, DropChangesMarks

\* removeToEnd() and removeFromStart(): what is left, and what is removed.
LEMMA RemovedAudio ==
    ASSUME NEW t \in WholeTracks, NEW sample \in Nat,
           NEW real, real = RealLength(t.subTracks), NEW total, total = t.length * SAMPLES_PER_BLOCK
    PROVE  /\ RemoveToEnd(t, sample).track = Keeping(t, Split(t.subTracks, sample).before)
           /\ Split(t.subTracks, sample).before \in AudioLists
           /\ RemoveToEnd(t, sample).track \in WholeTracks
           /\ RemoveToEnd(t, sample).track.length = Ceiling(LesserOf(sample, real), SAMPLES_PER_BLOCK)
           /\ RemoveToEnd(t, sample).list \in AudioLists /\ NoPadding(RemoveToEnd(t, sample).list)
           /\ RealLength(RemoveToEnd(t, sample).list) = total - LesserOf(sample, total)
           /\ RemoveFromStart(t, sample).track = Keeping(t, Split(t.subTracks, sample).from)
           /\ Split(t.subTracks, sample).from \in AudioLists
           /\ RemoveFromStart(t, sample).track \in WholeTracks
           /\ RemoveFromStart(t, sample).track.length = Ceiling(real - LesserOf(sample, real), SAMPLES_PER_BLOCK)
           /\ RemoveFromStart(t, sample).list \in AudioLists /\ NoPadding(RemoveFromStart(t, sample).list)
           /\ RealLength(RemoveFromStart(t, sample).list) = LesserOf(sample, total)
<1>1. PICK subs \in AudioLists : subs = t.subTracks /\ OnlyLastIsPadding(subs) /\ TotalLength(subs) = total /\ RealLength(subs) = real
  BY WholeFacts
<1>2. PICK before, from : before = Split(subs, sample).before /\ from = Split(subs, sample).from
  OBVIOUS
<1>3. /\ before \in AudioLists /\ from \in AudioLists
      /\ TotalLength(before) = LesserOf(sample, total)
      /\ total = TotalLength(before) + TotalLength(from)
      /\ real = RealLength(before) + RealLength(from)
      /\ RealLength(before) = LesserOf(sample, real)
  BY <1>1, <1>2, SplitFacts
<1>4. PICK rb \in Nat, rf \in Nat, tb \in Nat, tf \in Nat :
          rb = RealLength(before) /\ rf = RealLength(from) /\ tb = TotalLength(before) /\ tf = TotalLength(from)
  BY <1>3, RealFacts DEF AudioLists
<1>5. RealLength(from) = real - LesserOf(sample, real)
  <2>1. real = rb + rf /\ LesserOf(sample, real) = rb
    BY <1>3, <1>4
  <2> QED
    BY <1>4, <2>1
<1>6. TotalLength(from) = total - LesserOf(sample, total)
  <2>1. total = tb + tf /\ LesserOf(sample, total) = tb
    BY <1>3, <1>4
  <2> QED
    BY <1>4, <2>1
<1>7. /\ RemoveToEnd(t, sample) = Removal(from, Keeping(t, before))
      /\ RemoveFromStart(t, sample) = Removal(before, Keeping(t, from))
  BY <1>1, <1>2 DEF RemoveToEnd, RemoveFromStart
<1>8. /\ RemoveToEnd(t, sample).track = Keeping(t, before)
      /\ RemoveToEnd(t, sample).list \in AudioLists /\ NoPadding(RemoveToEnd(t, sample).list)
      /\ RealLength(RemoveToEnd(t, sample).list) = TotalLength(from)
  BY <1>3, <1>7, RemovalFacts
<1>9. /\ RemoveFromStart(t, sample).track = Keeping(t, from)
      /\ RemoveFromStart(t, sample).list \in AudioLists /\ NoPadding(RemoveFromStart(t, sample).list)
      /\ RealLength(RemoveFromStart(t, sample).list) = TotalLength(before)
  BY <1>3, <1>7, RemovalFacts
<1>10. /\ Keeping(t, before) \in WholeTracks /\ Keeping(t, before).length = Ceiling(LesserOf(sample, real), SAMPLES_PER_BLOCK)
       /\ Keeping(t, from) \in WholeTracks
       /\ Keeping(t, from).length = Ceiling(real - LesserOf(sample, real), SAMPLES_PER_BLOCK)
  BY <1>3, <1>5, KeptAudio
<1> QED
  BY <1>1, <1>2, <1>3, <1>6, <1>8, <1>9, <1>10

\* The audio that a cut leaves: that before the first and behind the last sample.
LEMMA CutAwayFacts ==
    ASSUME NEW subs \in AudioLists, OnlyLastIsPadding(subs), NEW first \in Nat, NEW last \in Nat, first <= last,
           NEW real, real = RealLength(subs)
    PROVE  /\ CutAway(subs, first, last) \in AudioLists
           /\ RealLength(CutAway(subs, first, last)) = LesserOf(first, real) + (real - LesserOf(last + 1, real))
           /\ CutOut(subs, first, last) \in AudioLists
<1>2. PICK next \in Nat : next = last + 1
  OBVIOUS
<1>3. PICK before, from : before = Split(subs, first).before /\ from = Split(subs, next).from
  OBVIOUS
<1>4. PICK upto : upto = Split(subs, next).before
  OBVIOUS
<1>5. before \in AudioLists /\ RealLength(before) = LesserOf(first, real)
  <2>1. PICK rest : rest = Split(subs, first).from
    OBVIOUS
  <2> QED
    BY <1>3, <2>1, SplitFacts
<1>6. /\ from \in AudioLists /\ upto \in AudioLists
      /\ real = RealLength(upto) + RealLength(from)
      /\ RealLength(upto) = LesserOf(next, real)
  BY <1>3, <1>4, SplitFacts
<1>7. PICK ru \in Nat, rf \in Nat : ru = RealLength(upto) /\ rf = RealLength(from)
  BY <1>6, RealFacts DEF AudioLists
<1>8. RealLength(from) = real - LesserOf(next, real)
  <2>1. real = ru + rf /\ LesserOf(next, real) = ru
    BY <1>6, <1>7
  <2> QED
    BY <1>7, <2>1
<1>9. CutAway(subs, first, last) = before \o from
  BY <1>2, <1>3 DEF CutAway
<1>10. before \o from \in AudioLists /\ RealLength(before \o from) = RealLength(before) + RealLength(from)
  BY <1>5, <1>6, RealOfConcat DEF AudioLists
<1>11. CutOut(subs, first, last) \in AudioLists
  <2>1. PICK part, rest : part = Split(upto, first).from /\ rest = Split(upto, first).before
    OBVIOUS
  <2>2. part \in AudioLists
    BY <1>6, <2>1, SplitFacts
  <2>3. CutOut(subs, first, last) = part
    BY <1>2, <1>4, <2>1 DEF CutOut
  <2> QED
    BY <2>2, <2>3
<1> QED
  BY <1>2, <1>5, <1>8, <1>9, <1>10, <1>11

\* The pieces that a cut puts into the scrap.
LEMMA CopiedAudio ==
    ASSUME NEW pieces \in AudioLists
    PROVE  CopiedPieces(pieces) \in AudioLists
<1>1. PICK n \in Nat : n = Len(pieces) /\ DOMAIN pieces = 1 .. n
  BY LenProperties DEF AudioLists
<1>2. \A i \in 1 .. n : pieces[i] \in AudioPieces
  BY <1>1, ElementOfSeq DEF AudioLists
<1>3. PICK c : c = CopiedPieces(pieces)
  OBVIOUS
<1>4. c = [i \in 1 .. n |-> IF i \in {1, n} THEN pieces[i] ELSE InnerPiece(pieces, i)]
  BY <1>1, <1>3 DEF CopiedPieces
<1>5. \A i \in 1 .. n : c[i] \in AudioPieces
  <2> TAKE i \in 1 .. n
  <2>1. c[i] = IF i \in {1, n} THEN pieces[i] ELSE pieces[2]
    BY <1>4 DEF InnerPiece
  <2>2. i \notin {1, n} => 2 \in 1 .. n
    OBVIOUS
  <2> QED
    BY <1>2, <2>1, <2>2
<1>6. c \in [1 .. n -> AudioPieces]
  BY <1>4, <1>5
<1>7. PICK R : R = AudioPieces
  OBVIOUS
<1>8. c \in [1 .. n -> R]
  BY <1>6, <1>7
<1>9. c \in Seq(R)
  BY ONLY <1>8, n \in Nat
<1> QED
  BY <1>3, <1>7, <1>9 DEF AudioLists
-----------------------------------------------------------------------------
(* The increments that a cut adjusts.                                      *)

Increasing(x) == \A i \in 1 .. Len(x) : i > 1 => x[i - 1] < x[i]

\* The increments that a cut does not remove, and where they go.
Survives(c, pos) == ~(pos >= c.slba /\ pos <= c.elba)
NewIndex(c, pos) == MovedIndex(c, pos) - c.indexAdj
IsAdjustment(c) == c.slba \in Int /\ c.elba \in Int /\ c.indexMove \in Int /\ c.indexAdj \in Int

\* What adjusting keeps in order: no later increment passes an earlier one, and
\* where two meet, the loop drops the second one.
KeepsOrder(c) ==
    \A p \in Nat, r \in Nat :
        p < r /\ Survives(c, p) /\ Survives(c, r) =>
            \/ NewIndex(c, p) < NewIndex(c, r)
            \/ NewIndex(c, p) = NewIndex(c, r) /\ c.indexAdj = 0 /\ r > c.elba

\* The increments already adjusted, after i turns of the loop.
AdjustedUpTo(c, x, i, done) ==
    /\ done \in Seq(Nat) /\ Len(done) <= i
    /\ Increasing(done)
    /\ \A j \in 1 .. Len(done) : /\ 0 < done[j]
                                 /\ \E k \in 1 .. i : Survives(c, x[k]) /\ done[j] = NewIndex(c, x[k])

\* One turn of the loop over the increments.
LEMMA AdjustTurn ==
    ASSUME NEW c, IsAdjustment(c), KeepsOrder(c), NEW x \in Seq(Nat), NEW i \in 1 .. Len(x),
           \A j, k \in 1 .. Len(x) : j < k => x[j] < x[k],
           NEW done, AdjustedUpTo(c, x, i - 1, done)
    PROVE  AdjustedUpTo(c, x, i, AdjustIndex(c, done, x[i]))
<1>1. PICK n \in Nat : n = Len(x) /\ i \in 1 .. n
  BY LenProperties
<1>2. PICK pos \in Nat : pos = x[i]
  BY ElementOfSeq
<1>3. PICK m \in Nat : m = Len(done) /\ m <= i - 1
  BY <1>1, LenProperties DEF AdjustedUpTo
<1>4. /\ done \in Seq(Nat) /\ Increasing(done)
      /\ \A j \in 1 .. m : /\ 0 < done[j]
                           /\ \E k \in 1 .. i - 1 : Survives(c, x[k]) /\ done[j] = NewIndex(c, x[k])
  BY <1>3 DEF AdjustedUpTo
<1>5. \A k \in 1 .. i - 1 : k \in 1 .. i /\ k \in 1 .. n /\ k < i
  BY <1>1
<1>6. CASE AdjustIndex(c, done, pos) = done
  <2>1. \A j \in 1 .. m : /\ 0 < done[j]
                          /\ \E k \in 1 .. i : Survives(c, x[k]) /\ done[j] = NewIndex(c, x[k])
    BY <1>4, <1>5
  <2>2. m <= i
    BY <1>1, <1>3
  <2> QED
    BY <1>2, <1>3, <1>4, <1>6, <2>1, <2>2 DEF AdjustedUpTo
<1>7. CASE AdjustIndex(c, done, pos) # done
  <2>1. /\ AdjustIndex(c, done, pos) = Append(done, MovedIndex(c, pos) - c.indexAdj)
        /\ Survives(c, pos)
        /\ ~(MovedIndex(c, pos) - c.indexAdj <= 0)
        /\ ~Repeats(c, done, pos)
    BY <1>7 DEF AdjustIndex, Survives
  <2>2. MovedIndex(c, pos) \in Int
    BY DEF MovedIndex, IsAdjustment
  <2>3. PICK new \in Nat : new = NewIndex(c, pos) /\ new = MovedIndex(c, pos) - c.indexAdj /\ new > 0
    BY <2>1, <2>2 DEF NewIndex, IsAdjustment
  <2>4. PICK r : r = Append(done, new)
    OBVIOUS
  <2>5. r \in Seq(Nat) /\ Len(r) = m + 1 /\ r[m + 1] = new /\ \A j \in 1 .. m : r[j] = done[j]
    BY <1>3, <1>4, <2>4, AppendProperties
  <2>6. ASSUME NEW j \in 1 .. m
        PROVE  done[j] < new \/ (done[j] = new /\ c.indexAdj = 0 /\ pos > c.elba)
    <3>1. PICK k \in 1 .. i - 1 : Survives(c, x[k]) /\ done[j] = NewIndex(c, x[k])
      BY <1>4
    <3>2. PICK p \in Nat : p = x[k] /\ p < pos
      BY <1>1, <1>2, <1>5, ElementOfSeq
    <3>3. \/ NewIndex(c, p) < NewIndex(c, pos)
          \/ NewIndex(c, p) = NewIndex(c, pos) /\ c.indexAdj = 0 /\ pos > c.elba
      BY <2>1, <3>1, <3>2 DEF KeepsOrder
    <3> QED
      BY <2>3, <3>1, <3>2, <3>3
  <2>7. m # 0 => done[m] < new
    <3> SUFFICES ASSUME m # 0, ~(done[m] < new) PROVE FALSE
      OBVIOUS
    <3>1. m \in 1 .. m
      OBVIOUS
    <3>2. done[m] = new /\ c.indexAdj = 0 /\ pos > c.elba
      BY <2>6, <3>1
    <3>3. done[m] = MovedIndex(c, pos)
      BY <2>2, <2>3, <3>2
    <3>4. done # <<>>
      BY <1>3, <1>4, EmptySeq
    <3>5. Repeats(c, done, pos)
      BY <1>3, <3>2, <3>3, <3>4 DEF Repeats
    <3> QED
      BY <2>1, <3>5
  <2>8. Increasing(r)
    <3>1. ASSUME NEW j \in 1 .. m + 1, j > 1 PROVE r[j - 1] < r[j]
      <4>1. CASE j = m + 1
        <5>1. j - 1 = m /\ m \in 1 .. m
          BY <3>1, <4>1
        <5> QED
          BY <2>5, <2>7, <4>1, <5>1
      <4>2. CASE j # m + 1
        <5>1. j \in 1 .. m /\ j - 1 \in 1 .. m
          BY <3>1, <4>2
        <5>2. done[j - 1] < done[j]
          BY <1>3, <1>4, <3>1, <5>1 DEF Increasing
        <5> QED
          BY <2>5, <5>1, <5>2
      <4> QED
        BY <4>1, <4>2
    <3> QED
      BY <2>5, <3>1 DEF Increasing
  <2>9. ASSUME NEW j \in 1 .. m + 1
        PROVE  0 < r[j] /\ \E k \in 1 .. i : Survives(c, x[k]) /\ r[j] = NewIndex(c, x[k])
    <3>1. CASE j = m + 1
      <4>1. i \in 1 .. i
        BY <1>1
      <4> QED
        BY <1>2, <2>1, <2>3, <2>5, <3>1, <4>1
    <3>2. CASE j # m + 1
      <4>1. j \in 1 .. m /\ r[j] = done[j]
        BY <2>5, <3>2
      <4> QED
        BY <1>4, <1>5, <4>1
    <3> QED
      BY <3>1, <3>2
  <2>10. Len(r) <= i
    BY <1>1, <1>3, <2>5
  <2>11. AdjustIndex(c, done, x[i]) = r
    BY <1>2, <2>1, <2>3, <2>4
  <2> QED
    BY <2>5, <2>8, <2>9, <2>10, <2>11 DEF AdjustedUpTo
<1> QED
  BY <1>6, <1>7

\* The increments after a cut.
IntLists == Seq(Int)
Adjusted(c, x) == Loop(LAMBDA done, pos : AdjustIndex(c, done, pos), <<>>, x)

\* The loop over the increments has a value at each place.
LEMMA AdjustLoop ==
    ASSUME NEW c, IsAdjustment(c), NEW x \in Seq(Nat), NEW n \in Nat, n = Len(x)
    PROVE  \E f \in [0 .. n -> IntLists] :
               f[0] = <<>> /\ Adjusted(c, x) = f[n] /\ \A i \in 1 .. n : f[i] = AdjustIndex(c, f[i - 1], x[i])
<1>1. PICK S : S = IntLists
  OBVIOUS
<1>2. PICK none : none = <<>>
  OBVIOUS
<1>3. none \in S
  BY <1>1, <1>2 DEF IntLists
<1>4. \A i \in 1 .. n : \A s \in S : AdjustIndex(c, s, x[i]) \in S
  <2> TAKE i \in 1 .. n
  <2> TAKE s \in S
  <2>1. x[i] \in Nat
    BY ElementOfSeq
  <2>2. MovedIndex(c, x[i]) - c.indexAdj \in Int
    BY <2>1 DEF MovedIndex, IsAdjustment
  <2> QED
    BY <1>1, <2>2, AppendProperties DEF AdjustIndex, IntLists
<1>5. PICK step : step = [i \in 1 .. n |-> [s \in S |-> AdjustIndex(c, s, x[i])]]
  OBVIOUS
<1>6. \A i \in 1 .. n : step[i] = [s \in S |-> AdjustIndex(c, s, x[i])]
  BY <1>5
<1>7. \A i \in 1 .. n : \A s \in S : step[i][s] = AdjustIndex(c, s, x[i])
  BY <1>6, ZenonT(30)
<1>8. IsLoop(S, n, none, step)
  <2>1. \A i \in 1 .. n : step[i] \in [S -> S]
    BY <1>4, <1>6, ZenonT(30)
  <2>2. step \in [1 .. n -> [S -> S]]
    BY <1>5, <2>1
  <2> QED
    BY <1>3, <2>2 DEF IsLoop
<1>9. PICK f : ValuesOf(f, S, n, none, step)
  BY <1>8, LoopExists
<1>10. f \in [0 .. n -> S] /\ f[0] = none /\ \A i \in 1 .. n : f[i] = step[i][f[i - 1]]
  BY <1>9 DEF ValuesOf
<1>11. \A i \in 0 .. n : f[i] = IF i = 0 THEN <<>> ELSE AdjustIndex(c, f[i - 1], x[i])
  <2> TAKE i \in 0 .. n
  <2>1. CASE i = 0
    BY <1>2, <1>10, <2>1
  <2>2. CASE i # 0
    <3>1. i \in 1 .. n /\ i - 1 \in 0 .. n
      BY <2>2
    <3>2. f[i] = step[i][f[i - 1]] /\ f[i - 1] \in S
      BY <1>10, <3>1
    <3>3. f[i] = AdjustIndex(c, f[i - 1], x[i])
      BY <1>7, <3>1, <3>2
    <3> QED
      BY <2>2, <3>3
  <2> QED
    BY <2>1, <2>2
<1>12. f = [i \in 0 .. n |-> IF i = 0 THEN <<>> ELSE AdjustIndex(c, f[i - 1], x[i])]
  <2>1. f = [i \in 0 .. n |-> f[i]]
    BY <1>10
  <2> QED
    BY <1>11, <2>1
<1>13. PICK g : g = [i \in 0 .. n |-> IF i = 0 THEN <<>> ELSE AdjustIndex(c, g[i - 1], x[i])] /\ Adjusted(c, x) = g[n]
  BY <1>12 DEF Adjusted, Loop
<1>14. \A i \in 0 .. n : g[i] = IF i = 0 THEN <<>> ELSE AdjustIndex(c, g[i - 1], x[i])
  BY <1>13
<1>15. g = [i \in 0 .. n |-> g[i]] /\ g[0] = none
  <2>1. 0 \in 0 .. n
    OBVIOUS
  <2> QED
    BY <1>2, <1>13, <1>14, <2>1
<1>16. ASSUME NEW i \in 1 .. n, g[i - 1] \in S PROVE g[i] = step[i][g[i - 1]]
  <2>1. i \in 0 .. n /\ i # 0
    OBVIOUS
  <2> QED
    BY <1>7, <1>14, <1>16, <2>1
<1>17. ValuesOf(g, S, n, none, step)
  BY <1>8, <1>15, <1>16, LoopTyped
<1>18. \A i \in 1 .. n : g[i] = AdjustIndex(c, g[i - 1], x[i])
  <2> TAKE i \in 1 .. n
  <2>1. i \in 0 .. n /\ i # 0
    OBVIOUS
  <2> QED
    BY <1>14, <2>1
<1> QED
  BY <1>1, <1>2, <1>13, <1>15, <1>17, <1>18 DEF ValuesOf

\* The increments after a cut are in order, and each one is where an increment went.
LEMMA AdjustedFacts ==
    ASSUME NEW c, IsAdjustment(c), KeepsOrder(c), NEW x \in Seq(Nat), \A j, k \in 1 .. Len(x) : j < k => x[j] < x[k]
    PROVE  AdjustedUpTo(c, x, Len(x), Adjusted(c, x))
<1>1. PICK n \in Nat : n = Len(x)
  BY LenProperties
<1>2. PICK f \in [0 .. n -> IntLists] :
          f[0] = <<>> /\ Adjusted(c, x) = f[n] /\ \A i \in 1 .. n : f[i] = AdjustIndex(c, f[i - 1], x[i])
  BY <1>1, AdjustLoop
<1>3. PICK holds : holds = {i \in 0 .. n : AdjustedUpTo(c, x, i, f[i])}
  OBVIOUS
<1>4. 0 \in holds
  <2>1. PICK none : none = <<>>
    OBVIOUS
  <2>2. none \in Seq(Nat) /\ Len(none) = 0
    BY <2>1
  <2>3. AdjustedUpTo(c, x, 0, none)
    BY <2>2 DEF AdjustedUpTo, Increasing
  <2> QED
    BY <1>2, <1>3, <2>1, <2>3
<1>5. ASSUME NEW i \in 1 .. n, i - 1 \in holds PROVE i \in holds
  <2>1. AdjustedUpTo(c, x, i - 1, f[i - 1]) /\ i \in 1 .. Len(x) /\ i \in 0 .. n
    BY <1>1, <1>3, <1>5
  <2>2. AdjustedUpTo(c, x, i, AdjustIndex(c, f[i - 1], x[i]))
    BY <2>1, AdjustTurn
  <2>3. AdjustedUpTo(c, x, i, f[i])
    BY <1>2, <2>2
  <2> QED
    BY <1>3, <2>1, <2>3
<1>6. 0 .. n \subseteq holds
  BY <1>4, <1>5, Everywhere
<1>7. n \in 0 .. n
  OBVIOUS
<1> QED
  BY <1>1, <1>2, <1>3, <1>6, <1>7

\* Blocks and samples.
LEMMA DivFacts ==
    ASSUME NEW n \in Nat, NEW q \in Nat \ {0}
    PROVE  /\ n \div q \in Nat
           /\ (n \div q) * q <= n
           /\ n < (n \div q) * q + q
           /\ (n % q) = 0 => (n \div q) * q = n
           /\ \A k \in Nat : k > n \div q => k * q > n
<1>1. PICK d \in Nat, r \in Nat : d = n \div q /\ r = (n % q) /\ n = d * q + r /\ r < q
  <2>1. n = q * (n \div q) + (n % q) /\ n \div q \in Int /\ (n % q) \in 0 .. q - 1
    OBVIOUS
  <2>2. n \div q \in Nat
    OBVIOUS
  <2>3. q * (n \div q) = (n \div q) * q
    BY <2>2
  <2> QED
    BY <2>1, <2>2, <2>3
<1>2. PICK e \in Nat : e = d * q
  OBVIOUS
<1>3. e <= n /\ n < e + q /\ (r = 0 => e = n)
  BY <1>1, <1>2
<1>4. ASSUME NEW k \in Nat, k > d PROVE k * q > n
  <2>1. PICK j \in Nat : k = d + 1 + j
    BY <1>4
  <2>2. PICK x \in Nat : x = j * q
    OBVIOUS
  <2>3. k * q = e + q + x
    BY <1>2, <2>1, <2>2
  <2> QED
    BY <1>3, <2>2, <2>3
<1> QED
  BY <1>1, <1>2, <1>3, <1>4

\* A multiple that is greater than -q is not negative.
LEMMA NotBelow ==
    ASSUME NEW k \in Int, NEW q \in Nat \ {0}, k * q > -q
    PROVE  k >= 0
<1> SUFFICES ASSUME k < 0 PROVE FALSE
  OBVIOUS
<1>1. PICK j \in Nat : k = -1 - j
  OBVIOUS
<1>2. PICK x \in Nat : x = j * q
  OBVIOUS
<1>3. k * q = -q - x
  BY <1>1, <1>2
<1> QED
  BY <1>2, <1>3

\* Where a sample goes when the samples first..last are cut.
GoneTo(sample, first, last) ==
    IF sample < first THEN sample ELSE IF sample > last THEN sample - (last - first + 1) ELSE first

\* A cut of the samples first..last of a track that starts with start blocks of pre-gap.
\* An increment that survives stands at, or less than two blocks before, the place
\* where the sample it stood on has gone.
CutOf(c, q, start, first, last, real, left) ==
    /\ IsAdjustment(c) /\ c.preGapAdj \in Nat /\ c.preGapAdj <= start
    /\ KeepsOrder(c)
    /\ \A p \in Nat : p > 0 /\ Survives(c, p) /\ (start + p) * q < real
                          => (start - c.preGapAdj + NewIndex(c, p)) * q < left
    /\ \A p \in Nat : p > 0 /\ Survives(c, p)
                          => \E e \in 0 .. 2 * q - 1 :
                                (start - c.preGapAdj + NewIndex(c, p)) * q = GoneTo((start + p) * q, first, last) - e

\* No sample of the pre-gap is cut.
LEMMA CutBehindPregap ==
    ASSUME NEW q \in Nat \ {0}, NEW start \in Nat, NEW first \in Nat, NEW last \in Nat, first <= last,
           NEW real \in Nat, NEW left, left = LesserOf(first, real) + (real - LesserOf(last + 1, real)),
           NEW s \in Nat, s = start * q, first >= s,
           NEW c, c = [slba |-> Ceiling(first - s, q), elba |-> (last - s) \div q,
                       indexMove |-> Ceiling(last - first + 1, q), indexAdj |-> 0, preGapAdj |-> 0]
    PROVE  CutOf(c, q, start, first, last, real, left)
<1>1. PICK a \in Nat, b \in Nat, n \in Nat : a = first - s /\ b = last - s /\ n = last - first + 1 /\ a <= b /\ n = b - a + 1
  OBVIOUS
<1>2. PICK slba \in Nat : slba = Ceiling(a, q) /\ \A k \in Nat : (k < slba) <=> (k * q < a)
  BY <1>1, CeilingFacts
<1>3. PICK move \in Nat : move = Ceiling(n, q) /\ move * q >= n /\ move * q < n + q
  BY <1>1, CeilingFacts
<1>4. PICK elba \in Nat : elba = b \div q /\ \A k \in Nat : k > elba => k * q > b
  BY <1>1, DivFacts
<1>5. c = [slba |-> slba, elba |-> elba, indexMove |-> move, indexAdj |-> 0, preGapAdj |-> 0]
  BY <1>1, <1>2, <1>3, <1>4
<1>6. c.slba = slba /\ c.elba = elba /\ c.indexMove = move /\ c.indexAdj = 0 /\ c.preGapAdj = 0
  BY <1>5
<1>7. IsAdjustment(c) /\ c.preGapAdj \in Nat /\ c.preGapAdj <= start
  BY <1>6 DEF IsAdjustment
<1>8. \A p \in Nat : NewIndex(c, p) = IF p > elba THEN p - move ELSE p
  BY <1>6 DEF NewIndex, MovedIndex
<1>9. \A p \in Nat : Survives(c, p) /\ ~(p > elba) => p < slba
  BY <1>6 DEF Survives
<1>10. PICK mq \in Nat : mq = move * q /\ mq >= n /\ mq < n + q
  BY <1>3
<1>11. ASSUME NEW p \in Nat, NEW r \in Nat, p < r, Survives(c, p), Survives(c, r)
       PROVE  \/ NewIndex(c, p) < NewIndex(c, r)
              \/ NewIndex(c, p) = NewIndex(c, r) /\ c.indexAdj = 0 /\ r > c.elba
  <2>1. CASE ~(r > elba)
    <3>1. ~(p > elba)
      BY <1>11, <2>1
    <3> QED
      BY <1>8, <1>11, <2>1, <3>1
  <2>2. CASE r > elba /\ p > elba
    BY <1>8, <1>11, <2>2
  <2>3. CASE r > elba /\ ~(p > elba)
    <3>1. p * q < a /\ r * q > b
      BY <1>2, <1>4, <1>9, <1>11, <2>3
    <3>2. PICK pq \in Nat, rq \in Nat : pq = p * q /\ rq = r * q
      OBVIOUS
    <3>3. PICK k \in Int : k = r - move - p
      OBVIOUS
    <3>4. k * q = rq - mq - pq
      BY <1>10, <3>2, <3>3
    <3>5. k * q > -q
      BY <1>1, <1>10, <3>1, <3>2, <3>4
    <3>6. k >= 0
      BY <3>5, NotBelow
    <3>7. NewIndex(c, p) = p /\ NewIndex(c, r) = r - move
      BY <1>8, <2>3
    <3> QED
      BY <1>6, <2>3, <3>3, <3>6, <3>7
  <2> QED
    BY <2>1, <2>2, <2>3
<1>12. ASSUME NEW p \in Nat, p > 0, Survives(c, p), (start + p) * q < real
       PROVE  (start - c.preGapAdj + NewIndex(c, p)) * q < left
  <2>1. PICK pq \in Nat : pq = p * q /\ (start + p) * q = s + pq
    <3>1. (start + p) * q = start * q + p * q
      OBVIOUS
    <3> QED
      BY <3>1
  <2>2. CASE p > elba
    <3>1. pq > b
      BY <1>4, <2>1, <2>2
    <3>2. left = real - n
      <4>1. first < real /\ last + 1 <= real
        BY <1>1, <1>12, <2>1, <3>1
      <4>2. LesserOf(first, real) = first /\ real - LesserOf(last + 1, real) = real - (last + 1)
        BY <4>1 DEF LesserOf
      <4> QED
        BY <1>1, <4>2
    <3>3. start - c.preGapAdj + NewIndex(c, p) = (start + p) - move
      BY <1>6, <1>8, <2>2
    <3>4. ((start + p) - move) * q = s + pq - mq
      <4>1. ((start + p) - move) * q = (start + p) * q - move * q
        OBVIOUS
      <4> QED
        BY <1>10, <2>1, <4>1
    <3>5. s + pq - mq < real - n
      BY <1>10, <1>12, <2>1
    <3> QED
      BY <3>2, <3>3, <3>4, <3>5
  <2>3. CASE ~(p > elba)
    <3>1. pq < a
      BY <1>2, <1>9, <1>12, <2>1, <2>3
    <3>2. s + pq < first /\ s + pq < real
      BY <1>1, <1>12, <2>1, <3>1
    <3>3. LesserOf(first, real) <= left
      <4>1. PICK f \in Nat, e \in Nat : f = LesserOf(first, real) /\ e = LesserOf(last + 1, real) /\ e <= real
        BY DEF LesserOf
      <4> QED
        BY <4>1
    <3>4. s + pq < LesserOf(first, real)
      BY <3>2 DEF LesserOf
    <3>5. LesserOf(first, real) \in Nat /\ left \in Int
      <4>1. LesserOf(first, real) \in Nat /\ LesserOf(last + 1, real) \in Nat
        BY DEF LesserOf
      <4> QED
        BY <4>1
    <3>6. start - c.preGapAdj + NewIndex(c, p) = start + p
      BY <1>6, <1>8, <2>3
    <3> QED
      BY <2>1, <3>3, <3>4, <3>5, <3>6
  <2> QED
    BY <2>2, <2>3
<1>13. KeepsOrder(c)
  BY <1>11 DEF KeepsOrder
<1>14. ASSUME NEW p \in Nat, p > 0, Survives(c, p)
       PROVE  \E e \in 0 .. 2 * q - 1 :
                 (start - c.preGapAdj + NewIndex(c, p)) * q = GoneTo((start + p) * q, first, last) - e
  <2>1. PICK pq \in Nat, o \in Nat : pq = p * q /\ o = (start + p) * q /\ o = s + pq
    <3>1. (start + p) * q = start * q + p * q
      OBVIOUS
    <3> QED
      BY <3>1
  <2>2. CASE p > elba
    <3>1. pq > b /\ o > last /\ ~(o < first)
      BY <1>1, <1>4, <2>1, <2>2
    <3>2. GoneTo(o, first, last) = o - n
      BY <1>1, <3>1 DEF GoneTo
    <3>3. start - c.preGapAdj + NewIndex(c, p) = (start + p) - move
      BY <1>6, <1>8, <2>2
    <3>4. ((start + p) - move) * q = o - mq
      BY <1>10, <2>1
    <3>5. PICK e \in Nat : e = mq - n /\ e < q
      BY <1>10
    <3>6. e \in 0 .. 2 * q - 1
      BY <3>5
    <3>7. o - mq = (o - n) - e
      BY <1>10, <3>5
    <3> QED
      BY <2>1, <3>2, <3>3, <3>4, <3>6, <3>7
  <2>3. CASE ~(p > elba)
    <3>1. pq < a /\ o < first
      BY <1>1, <1>2, <1>9, <1>14, <2>1, <2>3
    <3>2. GoneTo(o, first, last) = o
      BY <3>1 DEF GoneTo
    <3>3. start - c.preGapAdj + NewIndex(c, p) = start + p
      BY <1>6, <1>8, <2>3
    <3>4. 0 \in 0 .. 2 * q - 1 /\ o = o - 0
      OBVIOUS
    <3> QED
      BY <2>1, <3>2, <3>3, <3>4
  <2> QED
    BY <2>2, <2>3
<1> QED
  BY <1>7, <1>12, <1>13, <1>14 DEF CutOf

\* What the pre-gap loses: whole blocks, and one more from the marks for the rest.
LEMMA GapFacts ==
    ASSUME NEW gap \in Nat, NEW q \in Nat \ {0}
    PROVE  \E g \in Nat : \E adj \in 0 .. 1 : /\ g = gap \div q /\ adj = (IF gap % q # 0 THEN 1 ELSE 0)
                                              /\ g * q <= gap /\ (g + adj) * q >= gap
<1>1. PICK g \in Nat : g = gap \div q /\ g * q <= gap /\ gap < g * q + q /\ ((gap % q) = 0 => g * q = gap)
  BY DivFacts
<1>2. PICK gq \in Nat : gq = g * q
  OBVIOUS
<1>3. CASE (gap % q) = 0
  <2>1. 0 = (IF gap % q # 0 THEN 1 ELSE 0)
    BY <1>3
  <2>2. (g + 0) * q >= gap
    BY <1>1, <1>2, <1>3
  <2>3. 0 \in 0 .. 1
    OBVIOUS
  <2> QED
    BY <1>1, <2>1, <2>2, <2>3
<1>4. CASE (gap % q) # 0
  <2>1. 1 = (IF gap % q # 0 THEN 1 ELSE 0)
    BY <1>4
  <2>2. (g + 1) * q >= gap
    <3>1. (g + 1) * q = gq + q
      BY <1>2
    <3> QED
      BY <1>1, <1>2, <3>1
  <2>3. 1 \in 0 .. 1
    OBVIOUS
  <2> QED
    BY <1>1, <2>1, <2>2, <2>3
<1> QED
  BY <1>3, <1>4

\* Multiples keep their order.
LEMMA MultipleOrder ==
    ASSUME NEW k \in Nat, NEW m \in Nat, NEW q \in Nat \ {0}, k * q <= m * q
    PROVE  k <= m
<1> SUFFICES ASSUME m < k PROVE FALSE
  OBVIOUS
<1>1. PICK j \in Nat : k = m + 1 + j
  OBVIOUS
<1>2. PICK x \in Nat, y \in Nat : x = m * q /\ y = j * q
  OBVIOUS
<1>3. k * q = x + q + y
  BY <1>1, <1>2
<1> QED
  BY <1>2, <1>3

\* Only samples of the pre-gap are cut.
LEMMA CutInPregap ==
    ASSUME NEW q \in Nat \ {0}, NEW start \in Nat, NEW first \in Nat, NEW last \in Nat, first <= last,
           NEW real \in Nat, NEW left, left = LesserOf(first, real) + (real - LesserOf(last + 1, real)),
           NEW s \in Nat, s = start * q, last < s,
           NEW c, c = [slba |-> -1, elba |-> -1, indexMove |-> 0,
                       indexAdj |-> IF (last - first + 1) % q # 0 THEN 1 ELSE 0,
                       preGapAdj |-> (last - first + 1) \div q]
    PROVE  CutOf(c, q, start, first, last, real, left)
<1>1. PICK n \in Nat : n = last - first + 1 /\ n <= s
  OBVIOUS
<1>2. PICK g \in Nat, adj \in 0 .. 1 : /\ g = n \div q /\ adj = (IF n % q # 0 THEN 1 ELSE 0)
                                       /\ g * q <= n /\ (g + adj) * q >= n
  BY <1>1, GapFacts
<1>3. c = [slba |-> -1, elba |-> -1, indexMove |-> 0, indexAdj |-> adj, preGapAdj |-> g]
  BY <1>1, <1>2
<1>4. c.slba = -1 /\ c.elba = -1 /\ c.indexMove = 0 /\ c.indexAdj = adj /\ c.preGapAdj = g
  BY <1>3
<1>5. g <= start
  <2>1. g * q <= start * q
    BY <1>1, <1>2
  <2> QED
    BY <2>1, MultipleOrder
<1>6. IsAdjustment(c) /\ c.preGapAdj \in Nat /\ c.preGapAdj <= start
  BY <1>4, <1>5 DEF IsAdjustment
<1>7. \A p \in Nat : NewIndex(c, p) = p - adj
  BY <1>4 DEF NewIndex, MovedIndex
<1>8. KeepsOrder(c)
  <2>1. \A p \in Nat, r \in Nat : p < r => p - adj < r - adj
    OBVIOUS
  <2> QED
    BY <1>7, <2>1 DEF KeepsOrder
<1>9. ASSUME NEW p \in Nat, p > 0, Survives(c, p), (start + p) * q < real
      PROVE  (start - c.preGapAdj + NewIndex(c, p)) * q < left
  <2>1. PICK x \in Nat, y \in Nat : x = (start + p) * q /\ y = (g + adj) * q
    OBVIOUS
  <2>2. x >= s + q
    <3>1. PICK j \in Nat : p = 1 + j
      BY <1>9
    <3>2. PICK z \in Nat : z = j * q
      OBVIOUS
    <3>3. (start + p) * q = start * q + q + j * q
      BY <3>1
    <3> QED
      BY <2>1, <3>2, <3>3
  <2>3. left = real - n
    <3>1. first < real /\ last + 1 <= real
      BY <1>9, <2>1, <2>2
    <3>2. LesserOf(first, real) = first /\ real - LesserOf(last + 1, real) = real - (last + 1)
      BY <3>1 DEF LesserOf
    <3> QED
      BY <1>1, <3>2
  <2>4. start - c.preGapAdj + NewIndex(c, p) = (start + p) - (g + adj)
    BY <1>4, <1>7
  <2>5. ((start + p) - (g + adj)) * q = x - y
    BY <2>1
  <2>6. x - y < real - n
    BY <1>1, <1>2, <1>9, <2>1
  <2> QED
    BY <2>3, <2>4, <2>5, <2>6
<1>10. ASSUME NEW p \in Nat, p > 0, Survives(c, p)
       PROVE  \E e \in 0 .. 2 * q - 1 :
                 (start - c.preGapAdj + NewIndex(c, p)) * q = GoneTo((start + p) * q, first, last) - e
  <2>1. PICK x \in Nat, y \in Nat, gq \in Nat : x = (start + p) * q /\ y = (g + adj) * q /\ gq = g * q
    OBVIOUS
  <2>2. x >= s + q
    <3>1. PICK j \in Nat : p = 1 + j
      BY <1>10
    <3>2. PICK z \in Nat : z = j * q
      OBVIOUS
    <3>3. (start + p) * q = start * q + q + j * q
      BY <3>1
    <3> QED
      BY <2>1, <3>2, <3>3
  <2>3. GoneTo(x, first, last) = x - n
    <3>1. x > last /\ ~(x < first)
      BY <2>2
    <3> QED
      BY <1>1, <3>1 DEF GoneTo
  <2>4. y <= n + q
    <3>1. adj = 0 \/ adj = 1
      OBVIOUS
    <3>2. (g + 0) * q = gq /\ (g + 1) * q = gq + q
      BY <2>1
    <3>3. gq <= n
      BY <1>2, <2>1
    <3> QED
      BY <2>1, <3>1, <3>2, <3>3
  <2>5. PICK e \in Nat : e = y - n /\ e <= q
    BY <1>1, <1>2, <2>1, <2>4
  <2>6. e \in 0 .. 2 * q - 1 /\ x - y = (x - n) - e
    BY <1>1, <2>5
  <2>7. start - c.preGapAdj + NewIndex(c, p) = (start + p) - (g + adj)
    BY <1>4, <1>7
  <2>8. ((start + p) - (g + adj)) * q = x - y
    BY <2>1
  <2> QED
    BY <2>1, <2>3, <2>6, <2>7, <2>8
<1> QED
  BY <1>6, <1>8, <1>9, <1>10 DEF CutOf

\* The end of the pre-gap is cut, and what follows it.
LEMMA CutAcrossStart ==
    ASSUME NEW q \in Nat \ {0}, NEW start \in Nat, NEW first \in Nat, NEW last \in Nat, first <= last,
           NEW real \in Nat, NEW left, left = LesserOf(first, real) + (real - LesserOf(last + 1, real)),
           NEW s \in Nat, s = start * q, first < s, last >= s,
           NEW c, c = [slba |-> 0, elba |-> (last - s) \div q, indexMove |-> Ceiling(last - s + 1, q),
                       indexAdj |-> IF (s - first) % q # 0 THEN 1 ELSE 0,
                       preGapAdj |-> (s - first) \div q]
    PROVE  CutOf(c, q, start, first, last, real, left)
<1>1. PICK gap \in Nat, b \in Nat, n \in Nat : gap = s - first /\ b = last - s /\ n = b + 1
  OBVIOUS
<1>2. PICK g \in Nat, adj \in 0 .. 1 : /\ g = gap \div q /\ adj = (IF gap % q # 0 THEN 1 ELSE 0)
                                       /\ g * q <= gap /\ (g + adj) * q >= gap
  BY <1>1, GapFacts
<1>3. PICK move \in Nat : move = Ceiling(n, q) /\ move * q >= n /\ move * q < n + q
  BY <1>1, CeilingFacts
<1>4. PICK elba \in Nat : elba = b \div q /\ \A k \in Nat : k > elba => k * q > b
  BY <1>1, DivFacts
<1>5. c = [slba |-> 0, elba |-> elba, indexMove |-> move, indexAdj |-> adj, preGapAdj |-> g]
  BY <1>1, <1>2, <1>3, <1>4
<1>6. c.slba = 0 /\ c.elba = elba /\ c.indexMove = move /\ c.indexAdj = adj /\ c.preGapAdj = g
  BY <1>5
<1>7. g <= start
  <2>1. g * q <= start * q
    BY <1>1, <1>2
  <2> QED
    BY <2>1, MultipleOrder
<1>8. IsAdjustment(c) /\ c.preGapAdj \in Nat /\ c.preGapAdj <= start
  BY <1>6, <1>7 DEF IsAdjustment
<1>9. \A p \in Nat : Survives(c, p) => p > elba /\ NewIndex(c, p) = p - move - adj
  <2> TAKE p \in Nat
  <2>1. Survives(c, p) => p > elba
    BY <1>6 DEF Survives
  <2>2. p > elba => MovedIndex(c, p) = p - move
    BY <1>6 DEF MovedIndex
  <2>3. NewIndex(c, p) = MovedIndex(c, p) - adj
    BY <1>6 DEF NewIndex
  <2> QED
    BY <2>1, <2>2, <2>3
<1>10. KeepsOrder(c)
  <2>1. \A p \in Nat, r \in Nat : p < r => p - move - adj < r - move - adj
    OBVIOUS
  <2> QED
    BY <1>9, <2>1 DEF KeepsOrder
<1>11. ASSUME NEW p \in Nat, p > 0, Survives(c, p), (start + p) * q < real
       PROVE  (start - c.preGapAdj + NewIndex(c, p)) * q < left
  <2>1. PICK x \in Nat, y \in Nat, z \in Nat, pq \in Nat : x = (start + p) * q /\ y = (g + adj) * q /\ z = move * q /\ pq = p * q
    OBVIOUS
  <2>2. pq > b /\ x = s + pq
    <3>1. pq > b
      BY <1>4, <1>9, <1>11, <2>1
    <3>2. (start + p) * q = start * q + p * q
      OBVIOUS
    <3> QED
      BY <2>1, <3>1, <3>2
  <2>3. left = real - gap - n
    <3>1. first < real /\ last + 1 <= real
      BY <1>1, <1>11, <2>1, <2>2
    <3>2. LesserOf(first, real) = first /\ real - LesserOf(last + 1, real) = real - (last + 1)
      BY <3>1 DEF LesserOf
    <3> QED
      BY <1>1, <3>2
  <2>4. start - c.preGapAdj + NewIndex(c, p) = (start + p) - (g + adj) - move
    BY <1>6, <1>9, <1>11
  <2>5. ((start + p) - (g + adj) - move) * q = x - y - z
    BY <2>1
  <2>6. x - y - z < real - gap - n
    BY <1>1, <1>2, <1>3, <1>11, <2>1
  <2> QED
    BY <2>3, <2>4, <2>5, <2>6
<1>12. ASSUME NEW p \in Nat, p > 0, Survives(c, p)
       PROVE  \E e \in 0 .. 2 * q - 1 :
                 (start - c.preGapAdj + NewIndex(c, p)) * q = GoneTo((start + p) * q, first, last) - e
  <2>1. PICK x \in Nat, y \in Nat, z \in Nat, pq \in Nat, gq \in Nat :
          x = (start + p) * q /\ y = (g + adj) * q /\ z = move * q /\ pq = p * q /\ gq = g * q
    OBVIOUS
  <2>2. pq > b /\ x = s + pq
    <3>1. pq > b
      BY <1>4, <1>9, <1>12, <2>1
    <3>2. (start + p) * q = start * q + p * q
      OBVIOUS
    <3> QED
      BY <2>1, <3>1, <3>2
  <2>3. GoneTo(x, first, last) = x - (gap + n)
    <3>1. x > last /\ ~(x < first) /\ last - first + 1 = gap + n
      BY <1>1, <2>2
    <3> QED
      BY <3>1 DEF GoneTo
  <2>4. y >= gap /\ y <= gap + q
    <3>1. adj = 0 \/ adj = 1
      OBVIOUS
    <3>2. (g + 0) * q = gq /\ (g + 1) * q = gq + q
      BY <2>1
    <3>3. gq <= gap
      BY <1>2, <2>1
    <3> QED
      BY <1>2, <2>1, <3>1, <3>2, <3>3
  <2>5. PICK e \in Nat : e = (y + z) - (gap + n) /\ e < 2 * q
    BY <1>1, <1>3, <2>1, <2>4
  <2>6. e \in 0 .. 2 * q - 1 /\ x - y - z = (x - (gap + n)) - e
    BY <1>1, <2>5
  <2>7. start - c.preGapAdj + NewIndex(c, p) = (start + p) - (g + adj) - move
    BY <1>6, <1>9, <1>12
  <2>8. ((start + p) - (g + adj) - move) * q = x - y - z
    BY <2>1
  <2> QED
    BY <2>1, <2>3, <2>6, <2>7, <2>8
<1> QED
  BY <1>8, <1>10, <1>11, <1>12 DEF CutOf

\* What removeTrackData() does to the marks is one of these three.
LEMMA CutOfTrack ==
    ASSUME NEW t \in WholeTracks, NEW first \in Nat, NEW last \in Nat, first <= last,
           NEW real, real = RealLength(t.subTracks),
           NEW left, left = LesserOf(first, real) + (real - LesserOf(last + 1, real)),
           NEW q, q = SAMPLES_PER_BLOCK
    PROVE  CutOf(CutAdjustment(t, first, last), q, t.start, first, last, real, left)
<1>a. q \in Nat \ {0}
  BY TrackAssumption
<1>b. PICK start \in Nat : start = t.start
  BY WholeFacts
<1>c. PICK s \in Nat : s = start * q
  BY <1>a
<1>1. start = t.start /\ s = start * q /\ q \in Nat \ {0}
  BY <1>a, <1>b, <1>c
<1>2. PICK c : c = CutAdjustment(t, first, last)
  OBVIOUS
<1>3. real \in Nat
  BY WholeFacts
<1>4. \A sample : InPregap(t, sample) <=> sample < s
  BY <1>1 DEF InPregap
<1>5. CASE ~InPregap(t, first)
  <2>1. c = [slba |-> Ceiling(first - s, q), elba |-> (last - s) \div q,
             indexMove |-> Ceiling(last - first + 1, q), indexAdj |-> 0, preGapAdj |-> 0]
    BY <1>1, <1>2, <1>5 DEF CutAdjustment
  <2>2. first >= s
    BY <1>1, <1>4, <1>5
  <2>3. CutOf(c, q, start, first, last, real, left)
    BY <1>1, <1>3, <2>1, <2>2, CutBehindPregap
  <2> QED
    BY <1>1, <1>2, <2>3
<1>6. CASE InPregap(t, first) /\ InPregap(t, last)
  <2>1. c = [slba |-> -1, elba |-> -1, indexMove |-> 0,
             indexAdj |-> IF (last - first + 1) % q # 0 THEN 1 ELSE 0,
             preGapAdj |-> (last - first + 1) \div q]
    BY <1>1, <1>2, <1>6 DEF CutAdjustment
  <2>2. last < s
    BY <1>4, <1>6
  <2>3. CutOf(c, q, start, first, last, real, left)
    BY <1>1, <1>3, <2>1, <2>2, CutInPregap
  <2> QED
    BY <1>1, <1>2, <2>3
<1>7. CASE InPregap(t, first) /\ ~InPregap(t, last)
  <2>1. c = [slba |-> 0, elba |-> (last - s) \div q, indexMove |-> Ceiling(last - s + 1, q),
             indexAdj |-> IF (s - first) % q # 0 THEN 1 ELSE 0,
             preGapAdj |-> (s - first) \div q]
    BY <1>1, <1>2, <1>7 DEF CutAdjustment
  <2>2. first < s /\ last >= s
    BY <1>1, <1>4, <1>7
  <2>3. CutOf(c, q, start, first, last, real, left)
    BY <1>1, <1>3, <2>1, <2>2, CutAcrossStart
  <2> QED
    BY <1>1, <1>2, <2>3
<1> QED
  BY <1>5, <1>6, <1>7

\* removeTrackData(): what is left of the track, and what goes into the scrap.
LEMMA CutTrack ==
    ASSUME NEW t \in WholeTracks, NEW first \in Nat, NEW last \in Nat, first <= last,
           \A j, k \in 1 .. Len(t.index) : j < k => t.index[j] < t.index[k],
           NEW c, c = CutAdjustment(t, first, last), NEW u, u = RemoveTrackData(t, first, last).track
    PROVE  /\ u \in WholeTracks
           /\ u.index = Adjusted(c, t.index)
           /\ AdjustedUpTo(c, t.index, Len(t.index), u.index)
           /\ t.start - c.preGapAdj \in Nat
           /\ u.start = ResetStart(t.start - c.preGapAdj, u.length)
           /\ u.length = Ceiling(RealLength(CutAway(t.subTracks, first, last)), SAMPLES_PER_BLOCK)
           /\ RemoveTrackData(t, first, last).list \in AudioLists
           /\ NoPadding(RemoveTrackData(t, first, last).list)
<1>1. PICK real, left, q : /\ real = RealLength(t.subTracks) /\ q = SAMPLES_PER_BLOCK
                           /\ left = LesserOf(first, real) + (real - LesserOf(last + 1, real))
  OBVIOUS
<1>2. CutOf(c, q, t.start, first, last, real, left)
  BY <1>1, CutOfTrack
<1>3. IsAdjustment(c) /\ KeepsOrder(c) /\ c.preGapAdj \in Nat /\ c.preGapAdj <= t.start
  BY <1>2 DEF CutOf
<1>4. t.start \in Nat /\ t.index \in Seq(Nat)
  BY WholeFacts
<1>5. PICK x \in Seq(Nat), s \in Nat : x = Adjusted(c, t.index) /\ s = t.start - c.preGapAdj /\ AdjustedUpTo(c, t.index, Len(t.index), x)
  <2>1. AdjustedUpTo(c, t.index, Len(t.index), Adjusted(c, t.index))
    BY <1>3, <1>4, AdjustedFacts
  <2>2. Adjusted(c, t.index) \in Seq(Nat)
    BY <2>1 DEF AdjustedUpTo
  <2>3. t.start - c.preGapAdj \in Nat
    BY <1>3, <1>4
  <2> QED
    BY <2>1, <2>2, <2>3
<1>6. Msf(t.start - c.preGapAdj) = s
  BY <1>5 DEF Msf, LargerOf
<1>7. PICK adjusted : adjusted = Marked(t, s, x)
  OBVIOUS
<1>8. adjusted \in WholeTracks /\ adjusted.start = s /\ adjusted.index = x
  BY <1>7, OtherMarks
<1>9. adjusted = [t EXCEPT !.index = Loop(LAMBDA done, pos : AdjustIndex(c, done, pos), <<>>, @), !.start = Msf(@ - c.preGapAdj)]
  <2>1. x = Loop(LAMBDA done, pos : AdjustIndex(c, done, pos), <<>>, t.index)
    BY <1>5 DEF Adjusted
  <2>2. adjusted = [t EXCEPT !.index = x, !.start = s]
    <3>1. PICK m, list, len, s2, ix : t = [mode |-> m, subTracks |-> list, length |-> len, start |-> s2, index |-> ix]
      BY WholeFacts DEF IsRecord
    <3> QED
      BY <1>7, <3>1 DEF Marked
  <2> QED
    BY <1>6, <2>1, <2>2
<1>10. PICK away \in AudioLists, out \in AudioLists : away = CutAway(t.subTracks, first, last) /\ out = CutOut(t.subTracks, first, last)
  BY WholeFacts, CutAwayFacts
<1>11. RemoveTrackData(t, first, last) = Removal(CopiedPieces(out), Merged(adjusted, away))
  BY <1>9, <1>10 DEF RemoveTrackData
<1>12. PICK copied \in AudioLists : copied = CopiedPieces(out)
  BY CopiedAudio
<1>13. u = Merged(adjusted, away) /\ RemoveTrackData(t, first, last).list \in AudioLists /\ NoPadding(RemoveTrackData(t, first, last).list)
  BY <1>11, <1>12, RemovalFacts
<1>14. MadeFrom(u, adjusted, away)
  BY <1>8, <1>13, WholeFacts, MergedWith
<1>15. u \in WholeTracks
  BY <1>8, <1>14, WholeFacts, MadeWhole
<1>16. u.index = x /\ u.start = ResetStart(s, u.length) /\ u.length = Ceiling(RealLength(away), SAMPLES_PER_BLOCK)
  BY <1>8, <1>14 DEF MadeFrom
<1> QED
  BY <1>5, <1>10, <1>13, <1>15, <1>16
-----------------------------------------------------------------------------
(* Inserting samples.                                                      *)

\* The blocks of n and of at least l more samples.
LEMMA CeilingGrows ==
    ASSUME NEW n \in Nat, NEW l \in Nat, NEW m \in Nat, m >= n + l, NEW d \in Nat \ {0}
    PROVE  Ceiling(m, d) >= Ceiling(n, d) + (l \div d)
<1>1. PICK c \in Nat, b \in Nat, e \in Nat : c = Ceiling(n, d) /\ b = (l \div d) /\ e = Ceiling(m, d)
  BY CeilingFacts, DivFacts
<1>2. b * d <= l
  BY <1>1, DivFacts
<1>3. m <= e * d
  BY <1>1, CeilingFacts
<1>4. CASE c = 0
  <2>1. b * d <= e * d
    <3>1. b * d \in Nat /\ e * d \in Nat
      OBVIOUS
    <3> QED
      BY <1>2, <1>3, <3>1
  <2>2. b <= e
    BY <2>1, MultipleOrder
  <2> QED
    BY <1>1, <1>4, <2>2
<1>5. CASE c # 0
  <2>1. PICK k \in Nat, kd \in Nat, bd \in Nat : k = c - 1 /\ kd = k * d /\ bd = b * d
    BY <1>5
  <2>2. kd < n
    <3>1. \A j \in Nat : (j * d < n) <=> (j < Ceiling(n, d))
      BY CeilingFacts
    <3> QED
      BY <1>1, <2>1, <3>1
  <2>3. (k + b) * d = kd + bd
    BY <2>1
  <2>4. (k + b) * d < m
    BY <1>2, <2>1, <2>2, <2>3
  <2>5. k + b < Ceiling(m, d)
    <3>1. \A j \in Nat : (j * d < m) <=> (j < Ceiling(m, d))
      BY CeilingFacts
    <3> QED
      BY <2>4, <3>1
  <2> QED
    BY <1>1, <2>1, <2>5
<1> QED
  BY <1>4, <1>5

\* The marks a track has when blen blocks come in at pos: its pre-gap is longer,
\* or the increments from pos on stand blen blocks later.
RoomMade(t, pos, blen, s, x) ==
    \/ s = t.start + blen /\ x = t.index
    \/ /\ s = t.start /\ Len(x) = Len(t.index)
       /\ \A i \in 1 .. Len(x) : x[i] = IF Follows(t, i, pos) THEN t.index[i] + blen ELSE t.index[i]

\* MakeRoom() gives a track such a pre-gap or such increments.
LEMMA RoomFacts ==
    ASSUME NEW t \in WholeTracks, NEW pos \in Nat, NEW blen \in Nat
    PROVE  \E s \in Nat, x \in Seq(Nat) : MakeRoom(t, pos, blen) = Marked(t, s, x) /\ RoomMade(t, pos, blen, s, x)
<1>1. t.start \in Nat /\ t.index \in Seq(Nat) /\ Len(t.index) \in Nat /\ DOMAIN t.index = 1 .. Len(t.index)
  BY WholeFacts
<1>2. CASE pos <= t.start * SAMPLES_PER_BLOCK
  <2>1. PICK s \in Nat : s = t.start + blen
    BY <1>1
  <2>2. MakeRoom(t, pos, blen) = [t EXCEPT !.start = s]
    BY <1>2, <2>1 DEF MakeRoom
  <2>3. [t EXCEPT !.start = s] = Marked(t, s, t.index)
    BY WholeFacts, MarkedForms
  <2>4. RoomMade(t, pos, blen, s, t.index)
    BY <2>1 DEF RoomMade
  <2> QED
    BY <1>1, <2>2, <2>3, <2>4
<1>3. CASE ~(pos <= t.start * SAMPLES_PER_BLOCK)
  <2>1. PICK old \in Seq(Nat), n \in Nat : old = t.index /\ n = Len(old) /\ DOMAIN old = 1 .. n
    BY <1>1
  <2>2. PICK x : x = [i \in 1 .. n |-> IF Follows(t, i, pos) THEN old[i] + blen ELSE old[i]]
    OBVIOUS
  <2>3. \A i \in 1 .. n : x[i] \in Nat /\ x[i] = IF Follows(t, i, pos) THEN t.index[i] + blen ELSE t.index[i]
    <3>1. \A i \in 1 .. n : old[i] \in Nat
      BY <2>1
    <3> QED
      BY <2>1, <2>2, <3>1
  <2>4. x \in Seq(Nat) /\ Len(x) = n
    <3>1. x = [i \in 1 .. n |-> x[i]]
      BY <2>2
    <3>2. PICK S : S = Nat
      OBVIOUS
    <3>3. x \in [1 .. n -> S]
      BY <2>3, <3>1, <3>2
    <3>4. x \in Seq(S)
      BY <3>3
    <3>5. Len(x) = n
      BY <3>1, <3>4
    <3> QED
      BY <3>2, <3>4, <3>5
  <2>5. MakeRoom(t, pos, blen) = [t EXCEPT !.index = x]
    BY <1>3, <2>1, <2>2 DEF MakeRoom
  <2>6. [t EXCEPT !.index = x] = Marked(t, t.start, x)
    BY WholeFacts, MarkedForms
  <2>7. RoomMade(t, pos, blen, t.start, x)
    BY <2>1, <2>3, <2>4 DEF RoomMade
  <2> QED
    BY <1>1, <2>4, <2>5, <2>6, <2>7
<1> QED
  BY <1>2, <1>3

\* What t becomes when at least blen blocks come in at pos.
Inserted(u, t, pos, blen) ==
    /\ u \in WholeTracks
    /\ u.length >= t.length + blen
    /\ \E s \in Nat, x \in Seq(Nat) : /\ RoomMade(t, pos, blen, s, x)
                                      /\ u.start = ResetStart(s, u.length) /\ u.index = x

\* insertTrackData(): the track has all the audio it had and the inserted one.
LEMMA InsertTrack ==
    ASSUME NEW t \in WholeTracks, NEW pos \in Nat, NEW list \in AudioLists, NoPadding(list),
           TotalLength(list) # 0, NEW u, u = InsertTrackData(t, pos, list)
    PROVE  \E blen \in Nat : Inserted(u, t, pos, blen)
<1>0. PICK blen : blen = (TotalLength(list) \div SAMPLES_PER_BLOCK)
  OBVIOUS
<1>1. PICK l \in Nat : l = TotalLength(list) /\ RealLength(list) = l
  BY RealFacts DEF AudioLists
<1>2. SAMPLES_PER_BLOCK \in Nat \ {0}
  BY TrackAssumption
<1>3. blen \in Nat
  BY <1>0, <1>1, <1>2, DivFacts
<1>4. PICK s \in Nat, x \in Seq(Nat) : MakeRoom(t, pos, blen) = Marked(t, s, x) /\ RoomMade(t, pos, blen, s, x)
  BY <1>3, RoomFacts
<1>5. PICK r : r = Marked(t, s, x)
  OBVIOUS
<1>6. r \in WholeTracks /\ r.start = s /\ r.index = x
  BY <1>5, OtherMarks
<1>7. PICK before \in AudioLists, from \in AudioLists :
        /\ before = Split(t.subTracks, pos).before /\ from = Split(t.subTracks, pos).from
        /\ RealLength(t.subTracks) = RealLength(before) + RealLength(from)
  <2>1. t.subTracks \in AudioLists
    BY WholeFacts
  <2> QED
    BY <2>1, SplitFacts
<1>8. PICK head \in AudioLists : RealLength(head) \in Nat /\ RealLength(head) >= RealLength(before)
                                 /\ u = Merged(r, head \o list \o from)
  <2>1. RealLength(before) \in Nat
    BY RealFacts DEF AudioLists
  <2>2. CASE pos \in {SubTrackStart(t.subTracks, i) : i \in DOMAIN t.subTracks}
    <3>1. u = Merged(r, before \o list \o from)
      BY <1>0, <1>4, <1>5, <1>7, <2>2 DEF InsertTrackData
    <3> QED
      BY <2>1, <3>1
  <2>3. CASE pos \notin {SubTrackStart(t.subTracks, i) : i \in DOMAIN t.subTracks}
    <3>1. u = Merged(r, PadToData(before) \o list \o from)
      BY <1>0, <1>4, <1>5, <1>7, <2>3 DEF InsertTrackData
    <3> QED
      BY <3>1, PadToDataFacts
  <2> QED
    BY <2>2, <2>3
<1>9. PICK subs \in AudioLists : /\ subs = head \o list \o from
                                 /\ RealLength(subs) = RealLength(head) + RealLength(list) + RealLength(from)
  <2>1. head \o list \in AudioLists /\ RealLength(head \o list) = RealLength(head) + RealLength(list)
    BY RealOfConcat DEF AudioLists
  <2>2. (head \o list) \o from \in AudioLists /\ RealLength((head \o list) \o from) = RealLength(head \o list) + RealLength(from)
    BY <2>1, RealOfConcat DEF AudioLists
  <2> QED
    BY <2>1, <2>2
<1>10. MadeFrom(u, r, subs)
  BY <1>6, <1>8, <1>9, WholeFacts, MergedWith
<1>11. u \in WholeTracks
  BY <1>6, <1>10, WholeFacts, MadeWhole
<1>12. u.length = Ceiling(RealLength(subs), SAMPLES_PER_BLOCK) /\ u.start = ResetStart(s, u.length) /\ u.index = x
  BY <1>6, <1>10 DEF MadeFrom
<1>13. u.length >= t.length + blen
  <2>1. PICK m \in Nat, n \in Nat : m = RealLength(subs) /\ n = RealLength(t.subTracks)
    BY WholeFacts, RealFacts DEF AudioLists
  <2>2. m >= n + l
    <3>1. RealLength(before) \in Nat /\ RealLength(from) \in Nat
      BY RealFacts DEF AudioLists
    <3> QED
      BY <1>1, <1>7, <1>8, <1>9, <2>1, <3>1, SMTT(30)
  <2>3. Ceiling(m, SAMPLES_PER_BLOCK) >= Ceiling(n, SAMPLES_PER_BLOCK) + (l \div SAMPLES_PER_BLOCK)
    BY <1>2, <2>2, CeilingGrows
  <2>4. t.length = Ceiling(n, SAMPLES_PER_BLOCK)
    BY <2>1, WholeFacts
  <2> QED
    BY <1>0, <1>1, <1>12, <2>1, <2>3, <2>4
<1> QED
  BY <1>3, <1>4, <1>11, <1>12, <1>13 DEF Inserted
=============================================================================
