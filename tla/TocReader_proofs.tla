--------------------------- MODULE TocReader_proofs ---------------------------
(***************************************************************************)
(* Proofs about TocReader: the positions of the three readers agree        *)
(* between two calls, and no assertion of theirs fails while samples of a  *)
(* disc are read.                                                          *)
(***************************************************************************)
EXTENDS TocReader, Track_proofs

(* The invariant.  Place is the unit of the track where the open piece is.  *)
(* In a call the disc's position is still the one before it; what the call *)
(* has got so far is asked - left samples of earlier tracks, and of this   *)
(* track those that trackPos is ahead of.                                  *)
SampleCalls == {"idle", "track", "samples", "burst", "inburst", "subchannel", "return"}
BlockCalls == {"idle", "block", "gather", "done"}
InTrackReader == {"samples", "burst", "inburst", "subchannel"}
Place == SubTrackStart(T.subTracks, readSubTrack) + dataPos
OnSample == T.mode # "DATA" /\ trackPos < SampleOf(T.length) => Place = Offset(T, trackPos)
GotFromTrack ==
    CASE call.pc = "track" -> 0
      [] call.pc = "return" -> call.share
      [] call.pc \in InTrackReader -> call.share - call.inTrack

Typed ==
    /\ toc \in Discs
    /\ user \in {"none", "samples", "blocks"}
    /\ user = "none" => readTrack = 0
    /\ user # "none" => /\ readTrack \in 1 .. Len(toc)
                        /\ readSubTrack \in 1 .. Len(T.subTracks)
                        /\ dataPos \in 0 .. S.len
    /\ tocPos \in Nat /\ trackPos \in Nat /\ readPos \in Nat
    /\ aborted \in BOOLEAN
CallTyped ==
    /\ call \in [pc : SampleCalls \cup BlockCalls, asked : Nat, left : Nat, share : Nat, inTrack : Nat, count : Nat,
                 mode : Modes, got : {call.got}]
    /\ user = "none" => call = Idle
    /\ user = "samples" => call.pc \in SampleCalls
    /\ user = "blocks" => call.pc \in BlockCalls
    /\ call.pc \in {"block", "gather"} => call.left >= 1
    /\ call.pc = "idle" => call = Idle
InDisc == tocPos <= DiscSamples
Agreed == user = "samples" /\ call.pc = "idle" /\ answer # Failed =>
    /\ tocPos = AbsStart(readTrack) + trackPos
    /\ trackPos <= SampleOf(T.length)
    /\ OnSample
Counted == user = "samples" /\ call.pc # "idle" =>
    /\ call.left >= 1 /\ call.left <= call.asked /\ tocPos + call.asked <= DiscSamples
    /\ trackPos <= SampleOf(T.length)
    /\ tocPos + (call.asked - call.left) + GotFromTrack = AbsStart(readTrack) + trackPos
Shared ==
    /\ call.pc \in InTrackReader =>
          /\ call.inTrack <= call.share /\ call.share <= call.left
          /\ trackPos + call.inTrack <= SampleOf(T.length)
          /\ call.share < call.left => trackPos + call.inTrack = SampleOf(T.length)
    /\ call.pc = "return" => call.share <= call.left /\ (call.share < call.left => trackPos = SampleOf(T.length))
Placed ==
    /\ call.pc \in {"track", "return", "burst"} => OnSample
    /\ call.pc = "samples" => /\ T.mode = "AUDIO" /\ call.count > 0 /\ call.share = call.inTrack
                              /\ Place + call.count = trackPos + call.share
    /\ call.pc \in {"burst", "inburst"} => T.mode = "RW" /\ call.inTrack > 0
    /\ call.pc = "inburst" => call.count > 0 /\ Place + call.count = Offset(T, trackPos) + Burst * SAMPLE_LEN
    /\ call.pc = "subchannel" => /\ T.mode = "RW" /\ call.count > 0
                                 /\ trackPos % SAMPLES_PER_BLOCK = 0 /\ trackPos < SampleOf(T.length)
                                 /\ Place + call.count = Offset(T, trackPos)
NoAbort == user = "samples" => ~aborted
IInv ==
    /\ Typed
    /\ CallTyped
    /\ InDisc
    /\ Agreed
    /\ Counted
    /\ Shared
    /\ Placed
    /\ NoAbort
-----------------------------------------------------------------------------
(* Facts about the constants.                                              *)

\* Quotient and remainder.
LEMMA Division ==
    ASSUME NEW n \in Nat, NEW d \in Nat \ {0}
    PROVE  n \div d \in Nat /\ n % d \in 0 .. d - 1 /\ n = d * (n \div d) + (n % d)
<1>1. n % d \in 0 .. d - 1 /\ n \div d \in Int /\ n = d * (n \div d) + (n % d)
  OBVIOUS
<1>2. n \div d >= 0
  OBVIOUS
<1> QED
  BY <1>1, <1>2

\* A quotient and a remainder are those of the number that they make up.
LEMMA DivisionUnique ==
    ASSUME NEW d \in Nat \ {0}, NEW q \in Nat, NEW r \in 0 .. d - 1
    PROVE  (d * q + r) \div d = q /\ (d * q + r) % d = r
OBVIOUS

\* The offset in a track with sub-channel data of the sample behind b more samples
\* of a block: sub-channel data is skipped behind the last one.
LEMMA OffsetOfNext ==
    ASSUME NEW t, t.mode = "RW", ~AudioCutMode(t.subTracks), NEW pos \in Nat,
           NEW b \in 1 .. SAMPLES_PER_BLOCK - (pos % SAMPLES_PER_BLOCK)
    PROVE  /\ Offset(t, pos) \in Nat /\ Offset(t, pos + b) \in Nat
           /\ (pos + b) % SAMPLES_PER_BLOCK # 0 => Offset(t, pos + b) = Offset(t, pos) + b * SAMPLE_LEN
           /\ (pos + b) % SAMPLES_PER_BLOCK = 0 =>
                 Offset(t, pos + b) = Offset(t, pos) + b * SAMPLE_LEN + SubChannelSize
<1>1. PICK d \in Nat \ {0}, sl \in Nat \ {0}, sub \in Nat \ {0} :
         d = SAMPLES_PER_BLOCK /\ sl = SAMPLE_LEN /\ sub = SubChannelSize
  BY TrackAssumption, ReaderAssumption
<1>2. BlockSize["RW"] = d * sl + sub
  BY <1>1, ReaderAssumption
<1>3. PICK q \in Nat, r \in 0 .. d - 1 : q = pos \div d /\ r = pos % d /\ pos = d * q + r
  <2>1. pos \div d \in Nat /\ pos % d \in 0 .. d - 1 /\ pos = d * (pos \div d) + (pos % d)
    BY Division
  <2> QED
    BY <2>1
<1>4. Offset(t, pos) = q * (d * sl + sub) + r * sl
  BY <1>1, <1>2, <1>3 DEF Offset, InBlock
<1>5. b \in 1 .. d - r
  BY <1>1, <1>3
<1>6. CASE b < d - r
  <2>1. PICK s \in 0 .. d - 1 : s = r + b /\ s # 0
    BY <1>5, <1>6
  <2>2. pos + b = d * q + s
    BY <1>3, <1>5, <2>1
  <2>3. (pos + b) \div d = q /\ (pos + b) % d = s
    BY <2>2, DivisionUnique
  <2>4. Offset(t, pos + b) = q * (d * sl + sub) + s * sl
    BY <1>1, <1>2, <2>3 DEF Offset, InBlock
  <2>5. s * sl = r * sl + b * sl
    BY <1>5, <2>1
  <2> QED
    BY <1>1, <1>4, <1>5, <2>1, <2>3, <2>4, <2>5
<1>7. CASE b = d - r
  <2>1. pos + b = d * (q + 1) + 0
    BY <1>3, <1>7
  <2>2. (pos + b) \div d = q + 1 /\ (pos + b) % d = 0
    <3>1. q + 1 \in Nat /\ 0 \in 0 .. d - 1
      OBVIOUS
    <3>2. (d * (q + 1) + 0) \div d = q + 1 /\ (d * (q + 1) + 0) % d = 0
      BY <3>1, DivisionUnique
    <3> QED
      BY <2>1, <3>2
  <2>3. Offset(t, pos + b) = (q + 1) * (d * sl + sub) + 0 * sl
    BY <1>1, <1>2, <2>2 DEF Offset, InBlock
  <2>4. (q + 1) * (d * sl + sub) + 0 * sl = q * (d * sl + sub) + (d * sl + sub)
    OBVIOUS
  <2>5. d * sl = r * sl + b * sl
    BY <1>5, <1>7
  <2> QED
    BY <1>1, <1>4, <1>5, <2>2, <2>3, <2>4, <2>5
<1> QED
  BY <1>5, <1>6, <1>7

\* The samples of a block, up to its last one, are inside the track.
LEMMA OffsetInTrack ==
    ASSUME NEW t, t.mode = "RW", ~AudioCutMode(t.subTracks), t.length \in Nat,
           NEW pos \in Nat, pos < SampleOf(t.length),
           NEW b \in 0 .. SAMPLES_PER_BLOCK - (pos % SAMPLES_PER_BLOCK)
    PROVE  Offset(t, pos) + b * SAMPLE_LEN <= t.length * BlockSize["RW"]
<1>1. PICK d \in Nat \ {0}, sl \in Nat \ {0}, sub \in Nat \ {0} :
         d = SAMPLES_PER_BLOCK /\ sl = SAMPLE_LEN /\ sub = SubChannelSize
  BY TrackAssumption, ReaderAssumption
<1>2. PICK bs \in Nat : bs = d * sl + sub /\ BlockSize["RW"] = bs
  BY <1>1, ReaderAssumption
<1>3. PICK q \in Nat, r \in 0 .. d - 1 : q = pos \div d /\ r = pos % d /\ pos = d * q + r
  <2>1. pos \div d \in Nat /\ pos % d \in 0 .. d - 1 /\ pos = d * (pos \div d) + (pos % d)
    BY Division
  <2> QED
    BY <2>1
<1>4. Offset(t, pos) = q * bs + r * sl
  BY <1>1, <1>2, <1>3 DEF Offset, InBlock
<1>5. PICK n \in Nat : n = t.length /\ pos < n * d
  BY <1>1 DEF SampleOf
<1>6. q * d < n * d
  BY <1>3, <1>5
<1>7. q < n
  BY <1>6
<1>8. (q + 1) * bs <= n * bs
  BY <1>7
<1>9. r * sl + b * sl <= d * sl
  <2>1. r + b <= d /\ b \in Nat
    BY <1>1, <1>3
  <2>2. (r + b) * sl <= d * sl
    BY <2>1
  <2> QED
    BY <2>1, <2>2
<1>10. b * SAMPLE_LEN \in Nat /\ r * sl \in Nat /\ q * bs \in Nat /\ b * SAMPLE_LEN = b * sl /\ (q + 1) * bs = q * bs + bs
       /\ d * sl \in Nat
  BY <1>1, <1>2, <1>3
<1> QED
  BY <1>2, <1>4, <1>5, <1>8, <1>9, <1>10

\* Toc::update(): each track of a disc starts where the one before it ends, the first one at 0.
LEMMA StartsOfTracks ==
    ASSUME NEW disc, Len(disc) \in Nat, \A nr \in 1 .. Len(disc) : disc[nr].length \in Nat
    PROVE  /\ \A nr \in 1 .. Len(disc) + 1 : StartOf(disc, nr) \in Nat
           /\ StartOf(disc, 1) = 0
           /\ \A nr \in 1 .. Len(disc) : StartOf(disc, nr + 1) = StartOf(disc, nr) + SampleOf(disc[nr].length)
<1>1. PICK n \in Nat : n = Len(disc)
  OBVIOUS
<1>2. PICK pieces : pieces = [i \in 1 .. n |-> [len |-> disc[i].length]]
  OBVIOUS
<1>3. Len(pieces) = n /\ \A i \in 1 .. n : pieces[i].len = disc[i].length /\ disc[i].length \in Nat
  BY <1>1, <1>2
<1>4. PICK f : AreSums(f, pieces)
  <2>1. Measured(pieces)
    BY <1>3 DEF Measured
  <2> QED
    BY <2>1, LengthAddsUp
<1>5. f \in [0 .. n -> Nat] /\ f[0] = 0 /\ \A i \in 1 .. n : f[i] = f[i - 1] + disc[i].length
  BY <1>3, <1>4 DEF AreSums
<1>6. f = [k \in 0 .. n |-> IF k = 0 THEN 0 ELSE f[k - 1] + disc[k].length]
  <2>1. \A k \in 0 .. n : f[k] = IF k = 0 THEN 0 ELSE f[k - 1] + disc[k].length
    <3> TAKE k \in 0 .. n
    <3>1. CASE k = 0
      BY <1>5, <3>1
    <3>2. CASE k # 0
      BY <1>5, <3>2
    <3> QED
      BY <3>1, <3>2
  <2>2. f = [k \in 0 .. n |-> f[k]]
    BY <1>5
  <2> QED
    BY <2>1, <2>2
<1>7. PICK g : /\ g = [k \in 0 .. n |-> IF k = 0 THEN 0 ELSE g[k - 1] + disc[k].length]
               /\ \A nr : StartOf(disc, nr) = SampleOf(g[nr - 1])
  BY <1>1, <1>6 DEF StartOf
<1>8. 0 .. n \subseteq {i \in 0 .. n : g[i] = f[i]}
  <2>1. PICK same : same = {i \in 0 .. n : g[i] = f[i]}
    OBVIOUS
  <2>2. 0 \in same
    BY <1>5, <1>7, <2>1
  <2>3. ASSUME NEW i \in 1 .. n, i - 1 \in same PROVE i \in same
    <3>1. i \in 0 .. n /\ i # 0 /\ g[i - 1] = f[i - 1]
      BY <2>1, <2>3
    <3>2. g[i] = g[i - 1] + disc[i].length
      BY <1>7, <3>1
    <3> QED
      BY <1>5, <2>1, <3>1, <3>2
  <2>4. 0 .. n \subseteq same
    BY <2>2, <2>3, Everywhere
  <2> QED
    BY <2>1, <2>4
<1>9. PICK d \in Nat : d = SAMPLES_PER_BLOCK
  BY TrackAssumption
<1>10. \A nr \in 1 .. n + 1 : nr - 1 \in 0 .. n /\ StartOf(disc, nr) = f[nr - 1] * d /\ f[nr - 1] \in Nat
  <2> TAKE nr \in 1 .. n + 1
  <2>1. nr - 1 \in 0 .. n /\ f[nr - 1] \in Nat /\ g[nr - 1] = f[nr - 1]
    BY <1>5, <1>8
  <2>2. StartOf(disc, nr) = g[nr - 1] * d
    BY <1>7, <1>9 DEF SampleOf
  <2> QED
    BY <2>1, <2>2
<1>11. \A nr \in 1 .. n + 1 : StartOf(disc, nr) \in Nat
  BY <1>10
<1>12. StartOf(disc, 1) = 0
  BY <1>5, <1>10
<1>13. ASSUME NEW nr \in 1 .. n PROVE StartOf(disc, nr + 1) = StartOf(disc, nr) + SampleOf(disc[nr].length)
  <2>1. StartOf(disc, nr + 1) = f[nr] * d /\ StartOf(disc, nr) = f[nr - 1] * d /\ f[nr - 1] \in Nat
    <3>1. nr + 1 \in 1 .. n + 1 /\ nr \in 1 .. n + 1 /\ (nr + 1) - 1 = nr
      OBVIOUS
    <3> QED
      BY <1>10, <3>1
  <2>2. f[nr] = f[nr - 1] + disc[nr].length /\ disc[nr].length \in Nat
    BY <1>3, <1>5
  <2>3. (f[nr - 1] + disc[nr].length) * d = f[nr - 1] * d + disc[nr].length * d
    BY <2>1, <2>2
  <2> QED
    BY <1>9, <2>1, <2>2, <2>3 DEF SampleOf
<1> QED
  BY <1>1, <1>11, <1>12, <1>13

\* Toc::findTrack() finds the track that a sample of the disc is in.
LEMMA FoundTrack ==
    ASSUME NEW disc, Len(disc) \in Nat \ {0}, DOMAIN disc = 1 .. Len(disc),
           \A nr \in 1 .. Len(disc) : disc[nr].length \in Nat,
           NEW sample \in Nat, sample < StartOf(disc, Len(disc) + 1),
           NEW found, found = Min({nr \in DOMAIN disc : sample < StartOf(disc, nr + 1)})
    PROVE  found \in 1 .. Len(disc) /\ StartOf(disc, found) <= sample /\ sample < StartOf(disc, found + 1)
<1>1. PICK n \in Nat \ {0} : n = Len(disc)
  OBVIOUS
<1>2. PICK after : after = {nr \in 1 .. n : sample < StartOf(disc, nr + 1)}
  OBVIOUS
<1>3. found \in after /\ \A nr \in after : found <= nr
  <2>1. after \subseteq Nat /\ n \in after
    BY <1>1, <1>2
  <2>2. Min(after) \in after /\ \A nr \in after : Min(after) <= nr
    BY <2>1, LeastNatural
  <2> QED
    BY <1>1, <1>2, <2>2
<1>4. found \in 1 .. n /\ sample < StartOf(disc, found + 1)
  BY <1>2, <1>3
<1>5. StartOf(disc, found) <= sample
  <2>1. CASE found = 1
    BY <1>1, <2>1, StartsOfTracks
  <2>2. CASE found # 1
    <3>1. found - 1 \in 1 .. n /\ ~(found <= found - 1) /\ (found - 1) + 1 = found
      BY <1>4, <2>2
    <3>2. ~(sample < StartOf(disc, found))
      BY <1>2, <1>3, <3>1
    <3>3. StartOf(disc, found) \in Nat
      <4>1. found \in 1 .. Len(disc) + 1
        BY <1>1, <1>4
      <4> QED
        BY <4>1, StartsOfTracks
    <3> QED
      BY <3>2, <3>3
  <2> QED
    BY <2>1, <2>2
<1> QED
  BY <1>1, <1>4, <1>5

\* A read of a piece gets as much as it wants, or fails.
LEMMA ReadLength ==
    ASSUME NEW st, st.file \in DOMAIN FileLength \cup {Silence}, st.pos \in Nat,
           NEW from \in Nat, NEW n \in Nat, NEW read \in ReadFrom(st, from, n)
    PROVE  Len(read) = n
<1>1. CASE st.file = Silence
  <2>1. read = [i \in 1 .. n |-> Zero]
    BY <1>1 DEF ReadFrom
  <2> QED
    BY <2>1
<1>2. CASE st.file # Silence
  <2>1. PICK missing \in Int : missing = st.pos + from + n - FileLength[st.file]
    BY <1>2, ReaderAssumption
  <2>2. PICK real : real = [i \in 1 .. n |-> <<st.file, st.pos + from + i - 1>>]
    OBVIOUS
  <2>3. CASE missing <= 0
    <3>1. read = real
      BY <1>2, <2>1, <2>2, <2>3 DEF ReadFrom
    <3> QED
      BY <2>2, <3>1
  <2>4. CASE missing > 0 /\ st.mode # "AUDIO"
    BY <1>2, <2>1, <2>4 DEF ReadFrom
  <2>5. CASE missing > 0 /\ missing >= n /\ st.mode = "AUDIO"
    <3>1. read = [i \in 1 .. n |-> Zero]
      BY <1>2, <2>1, <2>5 DEF ReadFrom
    <3> QED
      BY <3>1
  <2>6. CASE missing \in 1 .. n - 1 /\ st.mode = "AUDIO"
    <3>1. read = [i \in 1 .. n |-> IF i <= n - missing THEN real[i] ELSE Stale]
      BY <1>2, <2>1, <2>2, <2>6 DEF ReadFrom
    <3> QED
      BY <3>1
  <2> QED
    BY <2>1, <2>3, <2>4, <2>5, <2>6
<1> QED
  BY <1>1, <1>2
-----------------------------------------------------------------------------
(* Facts about a state, from the invariant.                                *)

\* The open disc and the length of its tracks.
LEMMA DiscFacts ==
    ASSUME toc \in Discs
    PROVE  /\ Len(toc) \in Nat \ {0} /\ DOMAIN toc = 1 .. Len(toc)
           /\ \A nr \in 1 .. Len(toc) : Loadable(toc[nr]) /\ toc[nr].length \in Nat /\ SampleOf(toc[nr].length) \in Nat
           /\ \A nr \in 1 .. Len(toc) + 1 : AbsStart(nr) \in Nat
           /\ AbsStart(1) = 0 /\ DiscSamples = AbsStart(Len(toc) + 1) /\ DiscSamples \in Nat
           /\ \A nr \in 1 .. Len(toc) : AbsStart(nr + 1) = AbsStart(nr) + SampleOf(toc[nr].length)
<1>1. /\ Len(toc) \in Nat \ {0} /\ DOMAIN toc = 1 .. Len(toc)
      /\ \A nr \in 1 .. Len(toc) : Loadable(toc[nr])
  BY DiscAssumption
<1>2. \A nr \in 1 .. Len(toc) : toc[nr].length \in Nat
  BY <1>1 DEF Loadable
<1>3. \A nr \in 1 .. Len(toc) : SampleOf(toc[nr].length) \in Nat
  BY <1>2, TrackAssumption DEF SampleOf
<1>4. PICK disc : disc = toc
  OBVIOUS
<1>5. /\ \A nr \in 1 .. Len(disc) + 1 : StartOf(disc, nr) \in Nat
      /\ StartOf(disc, 1) = 0
      /\ \A nr \in 1 .. Len(disc) : StartOf(disc, nr + 1) = StartOf(disc, nr) + SampleOf(disc[nr].length)
  <2>1. Len(disc) \in Nat /\ \A nr \in 1 .. Len(disc) : disc[nr].length \in Nat
    BY <1>1, <1>2, <1>4
  <2> QED
    BY ONLY <2>1, StartsOfTracks
<1>6. DiscSamples = AbsStart(Len(toc) + 1) /\ DiscSamples \in Nat
  <2>1. Len(toc) + 1 \in 1 .. Len(toc) + 1
    BY <1>1
  <2> QED
    BY <1>4, <1>5, <2>1 DEF DiscSamples, AbsStart
<1> QED
  BY <1>1, <1>2, <1>3, <1>4, <1>5, <1>6 DEF AbsStart

\* The pieces of a track, and the length of its blocks.
LEMMA TrackFacts ==
    ASSUME NEW t, Loadable(t)
    PROVE  /\ t.mode \in Modes /\ t.length \in Nat /\ SampleOf(t.length) \in Nat
           /\ Len(t.subTracks) \in Nat \ {0} /\ DOMAIN t.subTracks = 1 .. Len(t.subTracks)
           /\ \A i \in 1 .. Len(t.subTracks) :
                 /\ t.subTracks[i].len \in Nat /\ t.subTracks[i].pos \in Nat /\ t.subTracks[i].mode \in Modes
                 /\ t.subTracks[i].file \in DOMAIN FileLength \cup {Silence}
           /\ \A i \in 1 .. Len(t.subTracks) + 1 : SubTrackStart(t.subTracks, i) \in Nat
           /\ SubTrackStart(t.subTracks, 1) = 0
           /\ \A i \in 1 .. Len(t.subTracks) :
                 SubTrackStart(t.subTracks, i + 1) = SubTrackStart(t.subTracks, i) + t.subTracks[i].len
           /\ t.mode = "AUDIO" => /\ AudioCutMode(t.subTracks)
                                  /\ SampleOf(t.length) <= SubTrackStart(t.subTracks, Len(t.subTracks) + 1)
           /\ t.mode # "AUDIO" => ~AudioCutMode(t.subTracks)
           /\ t.mode = "RW" => t.length * BlockSize["RW"] <= SubTrackStart(t.subTracks, Len(t.subTracks) + 1)
           /\ \A pos \in Nat : Offset(t, pos) \in Nat
           /\ Offset(t, 0) = 0 /\ (t.mode = "AUDIO" => \A pos \in Nat : Offset(t, pos) = pos)
<1>1. PICK subs : subs = t.subTracks
  OBVIOUS
<1>2. PICK P : P = [pad : BOOLEAN, mode : Modes, file : DOMAIN FileLength \cup {Silence}, pos : Nat, len : Nat]
  OBVIOUS
<1>3. subs \in Seq(P) /\ subs # <<>>
  BY <1>1, <1>2 DEF Loadable
<1>4. Len(subs) \in Nat \ {0} /\ DOMAIN subs = 1 .. Len(subs)
  BY <1>3
<1>5. \A i \in 1 .. Len(subs) : /\ subs[i].len \in Nat /\ subs[i].pos \in Nat /\ subs[i].mode \in Modes
                                /\ subs[i].file \in DOMAIN FileLength \cup {Silence}
  <2>1. \A i \in 1 .. Len(subs) : subs[i] \in P
    BY <1>3
  <2> QED
    BY <1>2, <2>1
<1>6. Measured(subs)
  BY <1>4, <1>5 DEF Measured
<1>7. /\ \A i \in 1 .. Len(subs) + 1 : SubTrackStart(subs, i) \in Nat
      /\ SubTrackStart(subs, 1) = 0
      /\ \A i \in 1 .. Len(subs) : SubTrackStart(subs, i + 1) = SubTrackStart(subs, i) + subs[i].len
      /\ SubTrackStart(subs, Len(subs) + 1) = TotalLength(subs)
  BY ONLY <1>3, <1>6, StartsOfPieces
<1>8. t.mode \in Modes /\ t.length \in Nat /\ SampleOf(t.length) \in Nat
  BY TrackAssumption DEF Loadable, SampleOf
<1>9. t.mode = "AUDIO" => /\ AudioCutMode(subs)
                          /\ SampleOf(t.length) <= TotalLength(subs)
  BY <1>1 DEF Loadable, UnitsOfTrackBlock, SampleOf
<1>10. t.mode # "AUDIO" => ~AudioCutMode(subs)
  BY <1>1 DEF Loadable
<1>11. ASSUME t.mode = "RW" PROVE t.length * BlockSize["RW"] <= TotalLength(subs)
  <2>1. t.mode # "DATA" /\ t.mode # "AUDIO"
    BY <1>11
  <2>2. t.length * UnitsOfTrackBlock(t) <= TotalLength(t.subTracks)
    BY <2>1 DEF Loadable
  <2>3. UnitsOfTrackBlock(t) = BlockSize["RW"]
    BY <1>1, <1>10, <1>11, <2>1 DEF UnitsOfTrackBlock
  <2> QED
    BY <1>1, <2>2, <2>3
<1>12. \A pos \in Nat : Offset(t, pos) \in Nat
  <2> TAKE pos \in Nat
  <2>1. CASE t.mode = "AUDIO"
    BY <1>1, <1>9, <2>1 DEF Offset
  <2>2. CASE t.mode # "AUDIO"
    <3>1. PICK d \in Nat \ {0}, sl \in Nat, bs \in Nat : d = SAMPLES_PER_BLOCK /\ sl = SAMPLE_LEN /\ bs = BlockSize[t.mode]
      BY <1>8, TrackAssumption, ReaderAssumption
    <3>2. PICK q \in Nat, r \in Nat : q = pos \div d /\ r = pos % d
      <4>1. pos \div d \in Nat /\ pos % d \in 0 .. d - 1
        BY Division
      <4> QED
        BY <4>1
    <3>3. Offset(t, pos) = q * bs + r * sl
      BY <1>1, <1>10, <2>2, <3>1, <3>2 DEF Offset, InBlock
    <3> QED
      BY <3>3
  <2> QED
    BY <2>1, <2>2
<1>13. Offset(t, 0) = 0
  <2>1. CASE t.mode = "AUDIO"
    BY <1>1, <1>9, <2>1 DEF Offset
  <2>2. CASE t.mode # "AUDIO"
    <3>1. PICK d \in Nat \ {0}, sl \in Nat, bs \in Nat : d = SAMPLES_PER_BLOCK /\ sl = SAMPLE_LEN /\ bs = BlockSize[t.mode]
      BY <1>8, TrackAssumption, ReaderAssumption
    <3>2. 0 \div d = 0 /\ 0 % d = 0
      OBVIOUS
    <3>3. Offset(t, 0) = 0 * bs + 0 * sl
      BY <1>1, <1>10, <2>2, <3>1, <3>2 DEF Offset, InBlock
    <3> QED
      BY <3>3
  <2> QED
    BY <2>1, <2>2
<1>14. t.mode = "AUDIO" => \A pos \in Nat : Offset(t, pos) = pos
  BY <1>1, <1>9 DEF Offset
<1> QED
  BY <1>1, <1>4, <1>5, <1>7, <1>8, <1>9, <1>10, <1>11, <1>12, <1>13, <1>14

\* The smaller one of two numbers.
LEMMA MinOfTwo ==
    ASSUME NEW a \in Nat, NEW b \in Nat
    PROVE  Min({a, b}) = IF a <= b THEN a ELSE b
<1>1. PICK P : P = {a, b}
  OBVIOUS
<1>2. Min(P) \in P /\ \A m \in P : Min(P) <= m
  <2>1. P \subseteq Nat /\ P # {}
    BY <1>1
  <2> QED
    BY <2>1, LeastNatural
<1> QED
  BY <1>1, <1>2

\* The open track.
LEMMA OpenFacts ==
    ASSUME Typed, user # "none"
    PROVE  /\ Loadable(T) /\ readTrack \in 1 .. Len(toc) /\ T = toc[readTrack]
           /\ readSubTrack \in 1 .. Len(T.subTracks) /\ dataPos \in 0 .. S.len /\ S = T.subTracks[readSubTrack]
           /\ S.len \in Nat /\ S.mode \in Modes
           /\ Place \in Nat /\ Place = SubTrackStart(T.subTracks, readSubTrack) + dataPos
<1>1. readTrack \in 1 .. Len(toc) /\ toc \in Discs /\ readSubTrack \in 1 .. Len(T.subTracks) /\ dataPos \in 0 .. S.len
  BY DEF Typed
<1>2. Loadable(T)
  BY <1>1, DiscFacts DEF T
<1>3. PICK t : t = T
  OBVIOUS
<1>4. PICK i : i = readSubTrack
  OBVIOUS
<1>5. Loadable(t) /\ i \in 1 .. Len(t.subTracks)
  BY <1>1, <1>2, <1>3, <1>4
<1>6. t.subTracks[i].len \in Nat /\ t.subTracks[i].mode \in Modes /\ SubTrackStart(t.subTracks, i) \in Nat
  <2>1. Len(t.subTracks) \in Nat
    BY <1>5, TrackFacts
  <2>2. i \in 1 .. Len(t.subTracks) + 1
    BY <1>5, <2>1
  <2> QED
    BY <1>5, <2>2, TrackFacts
<1> QED
  BY <1>1, <1>2, <1>3, <1>4, <1>6 DEF S, T, Place

\* The ways that a read of a piece may end (see ReadPiece).
Refused(read, modes) ==
    LET next == NextSubTrack(read)
    IN  next > Len(T.subTracks) \/ (next # readSubTrack /\ T.subTracks[next].mode \notin modes)
Taken(read, after) ==
    LET next == NextSubTrack(read)
        more == call.count - Len(read)
        got == IF call.pc = "subchannel" THEN call.got ELSE call.got \o read
    IN  /\ readSubTrack' = next
        /\ dataPos' = IF next # readSubTrack THEN 0 ELSE dataPos + Len(read)
        /\ call' = IF more = 0 THEN [after EXCEPT !.got = got]
                   ELSE [call EXCEPT !.count = more, !.got = got]
        /\ UNCHANGED answer
NotOpened(read) == NextSubTrack(read) # readSubTrack /\ MayFail /\ UNCHANGED <<readSubTrack, dataPos>>

\* What a step of readTrackData() does.  It aborts, or a file fails, or n units of
\* those still wanted are read, and the open piece and the position in it are
\* those n units further on.
LEMMA PieceRead ==
    ASSUME Typed, CallTyped, user # "none", ~aborted, NEW modes, NEW after, ReadPiece(modes, after)
    PROVE  \/ /\ aborted' = TRUE /\ UNCHANGED <<readSubTrack, dataPos, call, answer>>
              /\ modes = AnyMode => SubTrackStart(T.subTracks, Len(T.subTracks) + 1) < Place + call.count
           \/ aborted' = aborted /\ answer' = Failed /\ call' = Idle /\ UNCHANGED <<readSubTrack, dataPos>>
           \/ /\ aborted' = aborted /\ answer' = answer
              /\ readSubTrack' \in 1 .. Len(T.subTracks) /\ dataPos' \in 0 .. T.subTracks[readSubTrack'].len
              /\ \E n \in 0 .. call.count : \E g :
                    /\ SubTrackStart(T.subTracks, readSubTrack') + dataPos' = Place + n
                    /\ call' = IF n = call.count THEN [after EXCEPT !.got = g]
                               ELSE [call EXCEPT !.count = call.count - n, !.got = g]
<1>1. PICK t, i, k : t = T /\ i = readSubTrack /\ k = dataPos
  OBVIOUS
<1>2. Loadable(t) /\ i \in 1 .. Len(t.subTracks) /\ k \in 0 .. t.subTracks[i].len /\ S = t.subTracks[i]
      /\ Place = SubTrackStart(t.subTracks, i) + k
  BY <1>1, OpenFacts DEF Place
<1>3. PICK count \in Nat : count = call.count
  BY DEF CallTyped
<1>4. PICK m \in Nat \ {0} : m = Len(t.subTracks)
  BY <1>2, TrackFacts
<1>5. PICK avail \in Nat : avail = Available /\ t.subTracks[i].len = k + avail
  <2>1. t.subTracks[i].len \in Nat
    BY <1>2, TrackFacts
  <2>2. Available = t.subTracks[i].len - k
    BY <1>1, <1>2 DEF Available
  <2> QED
    BY <1>2, <2>1, <2>2
<1>6. PICK n \in 0 .. count : n = Wanted /\ n <= avail /\ (n # count => n = avail)
  <2>1. Wanted = IF count <= avail THEN count ELSE avail
    BY <1>3, <1>5, MinOfTwo DEF Wanted
  <2> QED
    BY <1>5, <2>1
<1>7. \A read \in ReadFrom(S, dataPos, Wanted) : Len(read) = n
  <2> SUFFICES ASSUME NEW read \in ReadFrom(S, dataPos, Wanted) PROVE Len(read) = n
    OBVIOUS
  <2>1. PICK st : st = t.subTracks[i]
    OBVIOUS
  <2>2. st.file \in DOMAIN FileLength \cup {Silence} /\ st.pos \in Nat
    BY <1>2, <2>1, TrackFacts
  <2>3. read \in ReadFrom(st, k, n) /\ k \in Nat /\ n \in Nat
    BY <1>1, <1>2, <1>3, <1>6, <2>1
  <2> QED
    BY <2>2, <2>3, ReadLength
<1>8. CASE \/ \E read \in ReadFrom(S, dataPos, Wanted) : NotOpened(read) /\ UNCHANGED aborted
           \/ (Faulty \/ ReadFrom(S, dataPos, Wanted) = {}) /\ Fails /\ UNCHANGED <<readSubTrack, dataPos, aborted>>
  BY <1>8 DEF NotOpened, MayFail, Fails
<1>9. ASSUME NEW read \in ReadFrom(S, dataPos, Wanted), Refused(read, modes),
             aborted' = TRUE /\ UNCHANGED <<readSubTrack, dataPos, call, answer>>
      PROVE  /\ aborted' = TRUE /\ UNCHANGED <<readSubTrack, dataPos, call, answer>>
             /\ modes = AnyMode => SubTrackStart(T.subTracks, Len(T.subTracks) + 1) < Place + call.count
  <2> SUFFICES ASSUME modes = AnyMode PROVE SubTrackStart(t.subTracks, m + 1) < Place + count
    BY <1>1, <1>3, <1>4, <1>9
  <2>1. NextSubTrack(read) = IF n = count THEN i ELSE i + 1
    BY <1>1, <1>3, <1>7 DEF NextSubTrack, FullyRead
  <2>2. n # count
    BY <1>1, <1>2, <1>4, <1>9, <2>1 DEF Refused
  <2>3. i = m
    <3> SUFFICES ASSUME i # m PROVE FALSE
      OBVIOUS
    <3>1. i + 1 \in 1 .. m
      BY <1>2, <1>4
    <3>2. t.subTracks[i + 1].mode \in AnyMode
      <4>1. t.subTracks[i + 1].mode \in Modes
        BY <1>2, <1>4, <3>1, TrackFacts
      <4> QED
        BY <4>1, TrackAssumption DEF AnyMode
    <3> QED
      BY <1>1, <1>4, <1>9, <2>1, <2>2, <3>1, <3>2 DEF Refused
  <2>4. SubTrackStart(t.subTracks, i + 1) = SubTrackStart(t.subTracks, i) + t.subTracks[i].len
        /\ SubTrackStart(t.subTracks, i) \in Nat
    <3>1. i \in 1 .. Len(t.subTracks) + 1
      BY <1>2, <1>4
    <3> QED
      BY <1>2, <3>1, TrackFacts
  <2> QED
    BY <1>2, <1>5, <1>6, <2>2, <2>3, <2>4
<1>10. ASSUME NEW read \in ReadFrom(S, dataPos, Wanted), ~Refused(read, modes), Taken(read, after), UNCHANGED aborted
       PROVE  /\ aborted' = aborted /\ answer' = answer
              /\ readSubTrack' \in 1 .. Len(T.subTracks) /\ dataPos' \in 0 .. T.subTracks[readSubTrack'].len
              /\ \E l \in 0 .. call.count : \E g :
                    /\ SubTrackStart(T.subTracks, readSubTrack') + dataPos' = Place + l
                    /\ call' = IF l = call.count THEN [after EXCEPT !.got = g]
                               ELSE [call EXCEPT !.count = call.count - l, !.got = g]
  <2>1. PICK next : next = IF n = count THEN i ELSE i + 1
    OBVIOUS
  <2>2. NextSubTrack(read) = next /\ Len(read) = n
    BY <1>1, <1>3, <1>7, <2>1 DEF NextSubTrack, FullyRead
  <2>3. readSubTrack' = next /\ dataPos' = (IF next # i THEN 0 ELSE k + n) /\ ~(next > m)
    BY <1>1, <1>4, <1>10, <2>2 DEF Refused, Taken
  <2>4. next \in 1 .. m
    BY <1>2, <1>4, <2>1, <2>3
  <2>5. PICK g : call' = IF n = count THEN [after EXCEPT !.got = g] ELSE [call EXCEPT !.count = count - n, !.got = g]
    <3>1. PICK g : g = IF call.pc = "subchannel" THEN call.got ELSE call.got \o read
      OBVIOUS
    <3>2. call' = IF count - n = 0 THEN [after EXCEPT !.got = g] ELSE [call EXCEPT !.count = count - n, !.got = g]
      BY <1>3, <1>10, <2>2, <3>1 DEF Taken
    <3>3. CASE n = count
      <4>1. count - n = 0
        BY <3>3
      <4> QED
        BY <3>2, <3>3, <4>1
    <3>4. CASE n # count
      <4>1. count - n # 0
        BY <3>4
      <4> QED
        BY <3>2, <3>4, <4>1
    <3> QED
      BY <3>3, <3>4
  <2>6. t.subTracks[next].len \in Nat /\ t.subTracks[i].len \in Nat
    BY <1>2, <1>4, <2>4, TrackFacts
  <2>7. dataPos' \in 0 .. t.subTracks[next].len
    BY <1>2, <1>5, <1>6, <2>3, <2>6, SMTT(30)
  <2>8. SubTrackStart(t.subTracks, next) + dataPos' = Place + n
    <3>1. SubTrackStart(t.subTracks, i + 1) = SubTrackStart(t.subTracks, i) + t.subTracks[i].len
          /\ SubTrackStart(t.subTracks, i) \in Nat
      <4>1. i \in 1 .. Len(t.subTracks) + 1
        BY <1>2, <1>4
      <4> QED
        BY <1>2, <4>1, TrackFacts
    <3>2. CASE n = count
      BY <1>2, <2>1, <2>3, <3>1, <3>2
    <3>3. CASE n # count
      BY <1>2, <1>5, <1>6, <2>1, <2>3, <3>1, <3>3
    <3> QED
      BY <3>2, <3>3
  <2>9. /\ readSubTrack' \in 1 .. Len(T.subTracks) /\ dataPos' \in 0 .. T.subTracks[readSubTrack'].len
        /\ SubTrackStart(T.subTracks, readSubTrack') + dataPos' = Place + n
    BY <1>1, <1>4, <2>3, <2>4, <2>7, <2>8
  <2>10. aborted' = aborted /\ answer' = answer
    BY <1>10 DEF Taken
  <2> QED
    BY <1>3, <2>5, <2>9, <2>10
<1> QED
  <2>1. CASE \E read \in ReadFrom(S, dataPos, Wanted) : AbortIf(Refused(read, modes), Taken(read, after) \/ NotOpened(read))
    BY <1>8, <1>9, <1>10, <2>1 DEF AbortIf
  <2>2. \/ \E read \in ReadFrom(S, dataPos, Wanted) : AbortIf(Refused(read, modes), Taken(read, after) \/ NotOpened(read))
        \/ (Faulty \/ ReadFrom(S, dataPos, Wanted) = {}) /\ Fails /\ UNCHANGED <<readSubTrack, dataPos, aborted>>
    BY DEF ReadPiece, Refused, Taken, NotOpened
  <2> QED
    BY <1>8, <2>1, <2>2
-----------------------------------------------------------------------------
(* The steps.  First, what need not be shown when no call is under way, or *)
(* one that reads blocks.                                                  *)

\* Nothing is said of a call when none is under way.
LEMMA NoCall ==
    ASSUME call' = Idle
    PROVE  CallTyped' /\ Counted' /\ Shared' /\ Placed'
<1>1. call'.pc = "idle" /\ call' = [pc |-> "idle", asked |-> 0, left |-> 0, share |-> 0, inTrack |-> 0, count |-> 0,
                                     mode |-> "AUDIO", got |-> <<>>]
  BY DEF Idle
<1>2. CallTyped'
  <2>1. call' \in [pc : SampleCalls \cup BlockCalls, asked : Nat, left : Nat, share : Nat, inTrack : Nat, count : Nat,
                   mode : Modes, got : {call'.got}]
    BY <1>1 DEF SampleCalls, Modes
  <2>2. call'.pc \in SampleCalls /\ call'.pc \in BlockCalls /\ call'.pc \notin {"block", "gather"}
    BY <1>1 DEF SampleCalls, BlockCalls
  <2> QED
    BY <2>1, <2>2 DEF CallTyped, Idle
<1>3. Counted'
  BY <1>1 DEF Counted
<1>4. Shared'
  BY <1>1 DEF Shared, InTrackReader
<1>5. Placed'
  BY <1>1 DEF Placed
<1> QED
  BY <1>2, <1>3, <1>4, <1>5

\* Nothing is said of positions in samples while blocks are read.
LEMMA NoSamples ==
    ASSUME user' = "blocks", call'.pc \in BlockCalls
    PROVE  Agreed' /\ Counted' /\ Shared' /\ Placed' /\ NoAbort'
<1>1. Agreed' /\ Counted' /\ NoAbort'
  BY DEF Agreed, Counted, NoAbort
<1>2. Shared'
  BY DEF Shared, InTrackReader, BlockCalls
<1>3. Placed'
  BY DEF Placed, BlockCalls
<1> QED
  BY <1>1, <1>2, <1>3

\* The positions of the tracks are those of the same disc.
LEMMA SameDisc ==
    ASSUME toc' = toc
    PROVE  DiscSamples' = DiscSamples /\ \A nr : AbsStart(nr)' = AbsStart(nr)
BY DEF DiscSamples, AbsStart

\* The open track is the same while disc and track number are.
LEMMA SameTrack ==
    ASSUME toc' = toc, readTrack' = readTrack
    PROVE  T' = T
BY DEF T

\* At the start of a track.
LEMMA AtStart ==
    ASSUME Typed, toc' = toc, NEW nr \in 1 .. Len(toc), AtStartOf(nr)
    PROVE  /\ readTrack' \in 1 .. Len(toc') /\ readSubTrack' \in 1 .. Len(T'.subTracks) /\ dataPos' \in 0 .. S'.len
           /\ trackPos' = 0 /\ readPos' = 0 /\ T' = toc[nr] /\ SampleOf(T'.length) \in Nat
           /\ OnSample'
<1>1. PICK t : t = toc[nr]
  OBVIOUS
<1>2. readTrack' = nr /\ readSubTrack' = 1 /\ trackPos' = 0 /\ readPos' = 0 /\ dataPos' = 0
  BY DEF AtStartOf
<1>3. Loadable(t)
  BY <1>1, DiscFacts DEF Typed
<1>4. T' = t
  BY <1>1, <1>2 DEF T
<1>5. 1 \in 1 .. Len(t.subTracks) /\ t.subTracks[1].len \in Nat
  <2>1. Len(t.subTracks) \in Nat \ {0}
    BY <1>3, TrackFacts
  <2>2. 1 \in 1 .. Len(t.subTracks)
    BY <2>1
  <2> QED
    BY <1>3, <2>2, TrackFacts
<1>6. S' = t.subTracks[1]
  BY <1>2, <1>4 DEF S
<1>7. 0 \in 0 .. S'.len
  BY <1>5, <1>6
<1>8. OnSample'
  <2>1. Place' = SubTrackStart(t.subTracks, 1) + 0
    BY <1>2, <1>4 DEF Place
  <2>2. SubTrackStart(t.subTracks, 1) = 0 /\ Offset(t, 0) = 0
    BY <1>3, TrackFacts
  <2> QED
    BY <1>2, <1>4, <2>1, <2>2 DEF OnSample
<1>9. SampleOf(t.length) \in Nat
  BY <1>3, TrackFacts
<1> QED
  BY <1>1, <1>2, <1>4, <1>5, <1>7, <1>8, <1>9

\* The invariant holds at first.
LEMMA InitHolds ==
    ASSUME Init
    PROVE  IInv
<1>1. toc \in Discs /\ user = "none" /\ readTrack = 0 /\ tocPos = 0 /\ trackPos = 0 /\ readPos = 0 /\ call = Idle
      /\ aborted = FALSE
  BY DEF Init
<1>2. call.pc = "idle" /\ call = [pc |-> "idle", asked |-> 0, left |-> 0, share |-> 0, inTrack |-> 0, count |-> 0,
                                  mode |-> "AUDIO", got |-> <<>>]
  BY <1>1 DEF Idle
<1>3. Typed
  BY <1>1 DEF Typed
<1>4. CallTyped
  <2>1. call \in [pc : SampleCalls \cup BlockCalls, asked : Nat, left : Nat, share : Nat, inTrack : Nat, count : Nat,
                  mode : Modes, got : {call.got}]
    BY <1>2 DEF SampleCalls, Modes
  <2> QED
    BY <1>1, <1>2, <2>1 DEF CallTyped, SampleCalls, BlockCalls
<1>5. InDisc
  <2>1. DiscSamples \in Nat
    BY <1>1, DiscFacts
  <2> QED
    BY <1>1, <2>1 DEF InDisc
<1>6. Agreed /\ Counted /\ NoAbort
  BY <1>1 DEF Agreed, Counted, NoAbort
<1>7. Shared
  BY <1>2 DEF Shared, InTrackReader
<1>8. Placed
  BY <1>2 DEF Placed
<1> QED
  BY <1>3, <1>4, <1>5, <1>6, <1>7, <1>8 DEF IInv

\* openData() of a reader keeps the invariant.
LEMMA OpenStep ==
    ASSUME IInv, OpenDisc \/ OpenTrack
    PROVE  IInv'
<1>0. PICK who \in {"samples", "blocks"}, nr \in 1 .. Len(toc) :
         \E content : Open(who, nr, content) /\ (who = "samples" => nr = 1)
  <2>1. Len(toc) \in Nat \ {0} /\ DOMAIN toc = 1 .. Len(toc)
    BY DiscFacts DEF IInv, Typed
  <2>2. 1 \in 1 .. Len(toc)
    BY <2>1
  <2>3. CASE OpenDisc
    BY <2>2, <2>3 DEF OpenDisc
  <2>4. CASE OpenTrack
    BY <2>1, <2>4 DEF OpenTrack
  <2> QED
    BY <2>3, <2>4
<1>1. PICK content : Open(who, nr, content) /\ (who = "samples" => nr = 1)
  BY <1>0
<1>2. user = "none" /\ aborted = FALSE /\ aborted' = FALSE /\ user' = who /\ tocPos' = 0 /\ toc' = toc /\ call' = call
      /\ AtStartOf(nr)
  BY <1>1 DEF Open, IInv, Typed
<1>3. call' = Idle
  BY <1>2 DEF IInv, CallTyped
<1>4. /\ readTrack' \in 1 .. Len(toc') /\ readSubTrack' \in 1 .. Len(T'.subTracks) /\ dataPos' \in 0 .. S'.len
      /\ trackPos' = 0 /\ readPos' = 0 /\ T' = toc[nr] /\ SampleOf(T'.length) \in Nat
      /\ OnSample'
  BY <1>2, AtStart DEF IInv
<1>5. Typed'
  BY <1>2, <1>4 DEF IInv, Typed
<1>6. CallTyped' /\ Counted' /\ Shared' /\ Placed'
  BY <1>3, NoCall
<1>7. InDisc' /\ AbsStart(1)' = 0
  <2>1. DiscSamples \in Nat /\ AbsStart(1) = 0
    BY DiscFacts DEF IInv, Typed
  <2> QED
    BY <1>2, <2>1, SameDisc DEF InDisc
<1>8. Agreed'
  <2> SUFFICES ASSUME user' = "samples" PROVE tocPos' = AbsStart(readTrack)' + trackPos' /\ trackPos' <= SampleOf(T'.length)
    BY <1>4 DEF Agreed
  <2>1. readTrack' = 1
    BY <1>1, <1>2 DEF AtStartOf
  <2>2. AbsStart(readTrack)' = 0
    BY <1>7, <2>1 DEF AbsStart
  <2> QED
    BY <1>2, <1>4, <2>2
<1>9. NoAbort'
  BY <1>2 DEF NoAbort
<1> QED
  BY <1>5, <1>6, <1>7, <1>8, <1>9 DEF IInv

\* closeData() keeps the invariant.
LEMMA CloseStep ==
    ASSUME IInv, Close
    PROVE  IInv'
<1>1. user' = "none" /\ readTrack' = 0 /\ tocPos' = 0 /\ trackPos' = 0 /\ readPos' = 0 /\ toc' = toc /\ call' = Idle
      /\ aborted' = aborted
  BY DEF Close
<1>2. Typed'
  BY <1>1 DEF Typed, IInv
<1>3. CallTyped' /\ Counted' /\ Shared' /\ Placed'
  BY <1>1, NoCall
<1>4. InDisc'
  <2>1. DiscSamples \in Nat
    BY DiscFacts DEF IInv, Typed
  <2> QED
    BY <1>1, <2>1, SameDisc DEF InDisc
<1>5. Agreed' /\ NoAbort'
  BY <1>1 DEF Agreed, NoAbort
<1> QED
  BY <1>2, <1>3, <1>4, <1>5 DEF IInv

\* The piece that findSubTrack() finds for an offset in a track.
LEMMA PieceFound ==
    ASSUME NEW t, Loadable(t), NEW offset \in Nat, NEW i, i = FindSubTrack(t.subTracks, offset)
    PROVE  /\ i \in 1 .. Len(t.subTracks) /\ SubTrackStart(t.subTracks, i) \in Nat /\ t.subTracks[i].len \in Nat
           /\ SubTrackStart(t.subTracks, i) <= offset
           /\ SubTrackStart(t.subTracks, i + 1) = SubTrackStart(t.subTracks, i) + t.subTracks[i].len
<1>1. PICK subs : subs = t.subTracks
  OBVIOUS
<1>2. PICK P : P = [pad : BOOLEAN, mode : Modes, file : DOMAIN FileLength \cup {Silence}, pos : Nat, len : Nat]
  OBVIOUS
<1>3. subs \in Seq(P) /\ subs # <<>>
  BY <1>1, <1>2 DEF Loadable
<1>4. Measured(subs)
  BY <1>1, TrackFacts DEF Measured
<1>5. i \in 1 .. Len(subs) /\ SubTrackStart(subs, i) <= offset
  BY ONLY <1>1, <1>3, <1>4, offset \in Nat, i = FindSubTrack(t.subTracks, offset), FoundSubTrack
<1>6. i \in 1 .. Len(subs) + 1
  BY <1>4, <1>5 DEF Measured
<1> QED
  BY <1>1, <1>5, <1>6, TrackFacts

\* seekSample() keeps the invariant.
LEMMA SeekStep ==
    ASSUME IInv, SeekSample
    PROVE  IInv'
<1>0. PICK sample \in 0 .. DiscSamples - 1 :
         \E nr, t, offset, i :
            /\ nr = TrackOf(sample) /\ t = toc[nr] /\ offset = Offset(t, sample - AbsStart(nr))
            /\ i = FindSubTrack(t.subTracks, offset)
            /\ user = "samples" /\ call = Idle /\ ~aborted /\ readTrack' = nr
            /\ toc' = toc /\ user' = user /\ call' = call /\ aborted' = aborted
            /\ \/ /\ offset < SubTrackStart(t.subTracks, i + 1)
                  /\ readSubTrack' = i
                  /\ dataPos' = offset - SubTrackStart(t.subTracks, i)
                  /\ trackPos' = sample - AbsStart(nr)
                  /\ tocPos' = sample
                  /\ readPos' = IF nr = readTrack THEN readPos ELSE 0
               \/ /\ answer' = Failed
                  /\ IF nr = readTrack THEN UNCHANGED <<readSubTrack, dataPos, trackPos, readPos>> ELSE AtStartOf(nr)
                  /\ UNCHANGED tocPos
  BY DEF SeekSample, Ready
<1>1. PICK nr, t, offset, i :
         /\ nr = TrackOf(sample) /\ t = toc[nr] /\ offset = Offset(t, sample - AbsStart(nr))
         /\ i = FindSubTrack(t.subTracks, offset)
         /\ user = "samples" /\ call = Idle /\ ~aborted /\ readTrack' = nr
         /\ toc' = toc /\ user' = user /\ call' = call /\ aborted' = aborted
         /\ \/ /\ offset < SubTrackStart(t.subTracks, i + 1)
               /\ readSubTrack' = i
               /\ dataPos' = offset - SubTrackStart(t.subTracks, i)
               /\ trackPos' = sample - AbsStart(nr)
               /\ tocPos' = sample
               /\ readPos' = IF nr = readTrack THEN readPos ELSE 0
            \/ /\ answer' = Failed
               /\ IF nr = readTrack THEN UNCHANGED <<readSubTrack, dataPos, trackPos, readPos>> ELSE AtStartOf(nr)
               /\ UNCHANGED tocPos
  BY <1>0
<1>2. Typed /\ toc \in Discs
  BY DEF IInv, Typed
<1>3. DiscSamples \in Nat /\ Len(toc) \in Nat \ {0} /\ DOMAIN toc = 1 .. Len(toc)
      /\ \A n \in 1 .. Len(toc) : toc[n].length \in Nat
  BY <1>2, DiscFacts
<1>4. nr \in 1 .. Len(toc) /\ AbsStart(nr) <= sample /\ sample < AbsStart(nr + 1)
  <2>1. PICK disc : disc = toc
    OBVIOUS
  <2>2. sample \in Nat /\ sample < StartOf(disc, Len(disc) + 1)
    BY <1>3, <2>1 DEF DiscSamples, AbsStart
  <2>3. nr = Min({n \in DOMAIN disc : sample < StartOf(disc, n + 1)})
    BY <1>1, <2>1 DEF TrackOf, AbsStart
  <2>4. nr \in 1 .. Len(disc) /\ StartOf(disc, nr) <= sample /\ sample < StartOf(disc, nr + 1)
    BY <1>3, <2>1, <2>2, <2>3, FoundTrack
  <2> QED
    BY <2>1, <2>4 DEF AbsStart
<1>5. AbsStart(nr) \in Nat /\ SampleOf(t.length) \in Nat /\ AbsStart(nr + 1) = AbsStart(nr) + SampleOf(t.length) /\ Loadable(t)
  <2>1. nr \in 1 .. Len(toc) + 1
    BY <1>3, <1>4
  <2> QED
    BY <1>1, <1>2, <1>4, <2>1, DiscFacts
<1>6. CallTyped' /\ Counted' /\ Shared' /\ Placed'
  BY <1>1, NoCall
<1>7. NoAbort' /\ user' = "samples"
  BY <1>1 DEF NoAbort
<1>8. DiscSamples' = DiscSamples /\ AbsStart(nr)' = AbsStart(nr) /\ T' = t
  BY <1>1, SameDisc DEF T
<1>9. CASE /\ offset < SubTrackStart(t.subTracks, i + 1)
           /\ readSubTrack' = i
           /\ dataPos' = offset - SubTrackStart(t.subTracks, i)
           /\ trackPos' = sample - AbsStart(nr)
           /\ tocPos' = sample
           /\ readPos' = IF nr = readTrack THEN readPos ELSE 0
  <2>1. PICK pos \in Nat : pos = sample - AbsStart(nr) /\ pos < SampleOf(t.length)
    BY <1>3, <1>4, <1>5
  <2>2. offset \in Nat
    BY <1>1, <1>5, <2>1, TrackFacts
  <2>3. /\ i \in 1 .. Len(t.subTracks) /\ SubTrackStart(t.subTracks, i) \in Nat /\ t.subTracks[i].len \in Nat
        /\ SubTrackStart(t.subTracks, i) <= offset
        /\ SubTrackStart(t.subTracks, i + 1) = SubTrackStart(t.subTracks, i) + t.subTracks[i].len
    BY <1>1, <1>5, <2>2, PieceFound, ZenonT(30)
  <2>4. dataPos' \in 0 .. t.subTracks[i].len /\ SubTrackStart(t.subTracks, i) + dataPos' = offset
    BY <1>9, <2>2, <2>3
  <2>5. S' = t.subTracks[i]
    BY <1>8, <1>9 DEF S
  <2>6. readPos' \in Nat
    BY <1>9 DEF IInv, Typed
  <2>7. Typed'
    <3>1. sample \in Nat /\ tocPos' = sample /\ trackPos' = pos
      BY <1>3, <1>9, <2>1
    <3>2. readTrack' = nr /\ nr \in 1 .. Len(toc') /\ toc' \in Discs /\ aborted' \in BOOLEAN
      BY <1>1, <1>2, <1>4 DEF Typed
    <3>3. readSubTrack' \in 1 .. Len(T'.subTracks) /\ dataPos' \in 0 .. S'.len
      BY <1>8, <1>9, <2>3, <2>4, <2>5
    <3> QED
      BY <1>7, <2>6, <3>1, <3>2, <3>3 DEF Typed
  <2>8. InDisc'
    BY <1>3, <1>8, <1>9 DEF InDisc
  <2>9. OnSample'
    <3>1. Place' = offset
      BY <1>8, <1>9, <2>4 DEF Place
    <3>2. offset = Offset(T', trackPos')
      BY <1>1, <1>8, <1>9
    <3> QED
      BY <3>1, <3>2 DEF OnSample
  <2>10. Agreed'
    <3>1. tocPos' = AbsStart(nr)' + trackPos' /\ trackPos' <= SampleOf(T'.length)
      BY <1>3, <1>5, <1>8, <1>9, <2>1
    <3>2. AbsStart(readTrack)' = AbsStart(nr)'
      BY <1>1 DEF AbsStart
    <3> QED
      BY <2>9, <3>1, <3>2 DEF Agreed
  <2> QED
    BY <1>6, <1>7, <2>7, <2>8, <2>10 DEF IInv
<1>10. CASE /\ answer' = Failed
            /\ IF nr = readTrack THEN UNCHANGED <<readSubTrack, dataPos, trackPos, readPos>> ELSE AtStartOf(nr)
            /\ UNCHANGED tocPos
  <2>1. readTrack' \in 1 .. Len(toc') /\ readSubTrack' \in 1 .. Len(T'.subTracks) /\ dataPos' \in 0 .. S'.len
        /\ trackPos' \in Nat /\ readPos' \in Nat
    <3>1. CASE nr = readTrack
      <4>1. readTrack' = readTrack /\ T' = T /\ S' = S
        BY <1>1, <1>10, <3>1 DEF T, S
      <4> QED
        BY <1>1, <1>2, <1>10, <3>1, <4>1 DEF Typed
    <3>2. CASE nr # readTrack
      BY <1>1, <1>2, <1>4, <1>10, <3>2, AtStart
    <3> QED
      BY <3>1, <3>2
  <2>2. Typed'
    BY <1>1, <1>2, <1>10, <2>1 DEF Typed
  <2>3. InDisc'
    BY <1>8, <1>10 DEF IInv, InDisc
  <2>4. Agreed'
    BY <1>10 DEF Agreed
  <2> QED
    BY <1>6, <1>7, <2>2, <2>3, <2>4 DEF IInv
<1> QED
  BY <1>1, <1>9, <1>10

\* The beginning of a call of TocReader::readSamples() keeps the invariant.
LEMMA ReadSamplesStep ==
    ASSUME IInv, ReadSamples
    PROVE  IInv'
<1>0. PICK n \in Lengths :
         \E len :
            /\ len = Min({n, DiscSamples - tocPos}) /\ len > 0
            /\ user = "samples" /\ call = Idle /\ answer # Failed
            /\ call' = [Idle EXCEPT !.pc = "track", !.asked = len, !.left = len]
            /\ UNCHANGED <<toc, user, readTrack, tocPos, trackPos, readPos, readSubTrack, dataPos, aborted>>
  BY DEF ReadSamples, Ready
<1>1. PICK len :
         /\ len = Min({n, DiscSamples - tocPos}) /\ len > 0
         /\ user = "samples" /\ call = Idle /\ answer # Failed
         /\ call' = [Idle EXCEPT !.pc = "track", !.asked = len, !.left = len]
         /\ UNCHANGED <<toc, user, readTrack, tocPos, trackPos, readPos, readSubTrack, dataPos, aborted>>
  BY <1>0
<1>2. DiscSamples \in Nat /\ tocPos \in Nat /\ tocPos <= DiscSamples
  BY DiscFacts DEF IInv, Typed, InDisc
<1>3. len \in Nat /\ tocPos + len <= DiscSamples
  <2>1. PICK rest \in Nat : rest = DiscSamples - tocPos
    BY <1>2
  <2>2. n \in Nat
    BY ReaderAssumption
  <2>3. len = IF n <= rest THEN n ELSE rest
    BY <1>1, <2>1, <2>2, MinOfTwo
  <2> QED
    BY <1>2, <2>1, <2>2, <2>3
<1>4. /\ call' = [pc |-> "track", asked |-> len, left |-> len, share |-> 0, inTrack |-> 0, count |-> 0,
                  mode |-> "AUDIO", got |-> <<>>]
      /\ call.pc = "idle"
  BY <1>1 DEF Idle
<1>5. T' = T /\ S' = S /\ Place' = Place /\ AbsStart(readTrack)' = AbsStart(readTrack) /\ DiscSamples' = DiscSamples
      /\ Offset(T, trackPos)' = Offset(T, trackPos)
  BY <1>1 DEF T, S, Place, AbsStart, DiscSamples, Offset, InBlock
<1>6. Typed' /\ InDisc' /\ NoAbort'
  BY <1>1, <1>5 DEF IInv, Typed, InDisc, NoAbort
<1>7. CallTyped'
  <2>1. call' \in [pc : SampleCalls \cup BlockCalls, asked : Nat, left : Nat, share : Nat, inTrack : Nat, count : Nat,
                   mode : Modes, got : {call'.got}]
    BY <1>3, <1>4 DEF SampleCalls, Modes
  <2>2. call'.pc \in SampleCalls /\ call'.pc \notin {"block", "gather", "idle"} /\ user' = "samples"
    BY <1>1, <1>4 DEF SampleCalls
  <2> QED
    BY <2>1, <2>2 DEF CallTyped
<1>8. tocPos = AbsStart(readTrack) + trackPos /\ trackPos <= SampleOf(T.length) /\ OnSample
  BY <1>1, <1>4 DEF IInv, Agreed
<1>9. Agreed' /\ Shared'
  BY <1>4 DEF Agreed, Shared, InTrackReader
<1>10. OnSample'
  BY <1>1, <1>5, <1>8 DEF OnSample
<1>11. Placed'
  BY <1>4, <1>10 DEF Placed
<1>12. GotFromTrack' = 0
  BY <1>4 DEF GotFromTrack, InTrackReader
<1>13. Counted'
  <2>1. call'.left = len /\ call'.asked = len /\ len >= 1 /\ tocPos' = tocPos /\ trackPos' = trackPos
    BY <1>1, <1>3, <1>4
  <2>2. tocPos' + (call'.asked - call'.left) + GotFromTrack' = AbsStart(readTrack)' + trackPos'
    BY <1>2, <1>3, <1>5, <1>8, <1>12, <2>1
  <2> QED
    BY <1>3, <1>5, <1>8, <2>1, <2>2 DEF Counted
<1> QED
  BY <1>6, <1>7, <1>9, <1>11, <1>13 DEF IInv

\* What the invariant says while a call of readSamples() is under way.
LEMMA CallFacts ==
    ASSUME IInv, call.pc \in {"track", "samples", "burst", "inburst", "subchannel", "return"}
    PROVE  /\ user = "samples" /\ aborted = FALSE /\ toc \in Discs /\ Typed /\ CallTyped
           /\ call = [pc |-> call.pc, asked |-> call.asked, left |-> call.left, share |-> call.share,
                      inTrack |-> call.inTrack, count |-> call.count, mode |-> call.mode, got |-> call.got]
           /\ call.asked \in Nat /\ call.left \in Nat /\ call.share \in Nat /\ call.inTrack \in Nat /\ call.count \in Nat
           /\ call.mode \in Modes
           /\ tocPos \in Nat /\ trackPos \in Nat
           /\ DiscSamples \in Nat /\ AbsStart(readTrack) \in Nat /\ SampleOf(T.length) \in Nat
           /\ AbsStart(readTrack + 1) = AbsStart(readTrack) + SampleOf(T.length)
           /\ Loadable(T) /\ readTrack \in 1 .. Len(toc) /\ Place \in Nat
           /\ call.left >= 1 /\ call.left <= call.asked /\ tocPos + call.asked <= DiscSamples
           /\ trackPos <= SampleOf(T.length)
           /\ tocPos + (call.asked - call.left) + GotFromTrack = AbsStart(readTrack) + trackPos
<1>1. call.pc \notin BlockCalls /\ call.pc # "idle"
  BY DEF BlockCalls
<1>2. /\ call = [pc |-> call.pc, asked |-> call.asked, left |-> call.left, share |-> call.share,
                 inTrack |-> call.inTrack, count |-> call.count, mode |-> call.mode, got |-> call.got]
      /\ call.asked \in Nat /\ call.left \in Nat /\ call.share \in Nat /\ call.inTrack \in Nat /\ call.count \in Nat
      /\ call.mode \in Modes
  BY DEF IInv, CallTyped
<1>3. user = "samples"
  <2>1. user # "none"
    BY <1>1 DEF IInv, CallTyped, Idle
  <2> QED
    BY <1>1, <2>1 DEF IInv, Typed, CallTyped
<1>4. Typed /\ CallTyped /\ toc \in Discs /\ tocPos \in Nat /\ trackPos \in Nat /\ aborted = FALSE
  BY <1>3 DEF IInv, Typed, NoAbort
<1>5. Loadable(T) /\ readTrack \in 1 .. Len(toc) /\ T = toc[readTrack] /\ Place \in Nat
  BY <1>3, <1>4, OpenFacts
<1>6. DiscSamples \in Nat /\ AbsStart(readTrack) \in Nat /\ SampleOf(T.length) \in Nat
      /\ AbsStart(readTrack + 1) = AbsStart(readTrack) + SampleOf(T.length)
  <2>1. Len(toc) \in Nat
    BY <1>4, DiscFacts
  <2>2. readTrack \in 1 .. Len(toc) + 1
    BY <1>5, <2>1
  <2> QED
    BY <1>4, <1>5, <2>2, DiscFacts
<1>7. /\ call.left >= 1 /\ call.left <= call.asked /\ tocPos + call.asked <= DiscSamples
      /\ trackPos <= SampleOf(T.length)
      /\ tocPos + (call.asked - call.left) + GotFromTrack = AbsStart(readTrack) + trackPos
  BY <1>1, <1>3 DEF IInv, Counted
<1> QED
  BY <1>2, <1>3, <1>4, <1>5, <1>6, <1>7

\* A call that goes on is typed.
LEMMA CallGoesOn ==
    ASSUME NEW pc \in {"track", "samples", "burst", "inburst", "subchannel", "return"},
           NEW asked \in Nat, NEW left \in Nat, NEW share \in Nat, NEW inTrack \in Nat, NEW count \in Nat,
           NEW mode \in Modes, NEW got, user' = "samples",
           call' = [pc |-> pc, asked |-> asked, left |-> left, share |-> share, inTrack |-> inTrack, count |-> count,
                    mode |-> mode, got |-> got]
    PROVE  CallTyped' /\ Agreed'
<1>1. call' \in [pc : SampleCalls \cup BlockCalls, asked : Nat, left : Nat, share : Nat, inTrack : Nat, count : Nat,
                 mode : Modes, got : {call'.got}]
  BY DEF SampleCalls
<1>2. call'.pc \in SampleCalls /\ call'.pc \notin {"block", "gather", "idle"}
  BY DEF SampleCalls
<1>3. CallTyped'
  BY <1>1, <1>2 DEF CallTyped
<1> QED
  BY <1>2, <1>3 DEF Agreed

\* A call of TrackReader::readSamples(), up to its first read of a piece, keeps the invariant.
LEMMA CallTrackStep ==
    ASSUME IInv, CallTrack
    PROVE  IInv'
<1>1. call.pc = "track" /\ UNCHANGED <<toc, user, readTrack, tocPos, readPos, readSubTrack, dataPos, aborted>>
  BY DEF CallTrack
<1>2. /\ user = "samples" /\ aborted = FALSE /\ Typed
      /\ call = [pc |-> "track", asked |-> call.asked, left |-> call.left, share |-> call.share,
                 inTrack |-> call.inTrack, count |-> call.count, mode |-> call.mode, got |-> call.got]
      /\ call.asked \in Nat /\ call.left \in Nat /\ call.count \in Nat /\ call.mode \in Modes
      /\ tocPos \in Nat /\ trackPos \in Nat /\ AbsStart(readTrack) \in Nat /\ SampleOf(T.length) \in Nat
      /\ Loadable(T) /\ Place \in Nat
      /\ call.left >= 1 /\ call.left <= call.asked /\ tocPos + call.asked <= DiscSamples
      /\ trackPos <= SampleOf(T.length)
      /\ tocPos + (call.asked - call.left) = AbsStart(readTrack) + trackPos
  <2>1. GotFromTrack = 0
    BY <1>1 DEF GotFromTrack, InTrackReader
  <2> QED
    BY <1>1, <2>1, CallFacts
<1>a. PICK asked \in Nat, left \in Nat : asked = call.asked /\ left = call.left
  BY <1>2
<1>b. PICK count \in Nat, mode \in Modes, got \in {call.got} : count = call.count /\ mode = call.mode /\ got = call.got
  BY <1>2
<1>c. PICK pos \in Nat, total \in Nat : pos = trackPos /\ total = SampleOf(T.length)
  BY <1>2
<1>3. /\ asked = call.asked /\ left = call.left /\ count = call.count /\ mode = call.mode /\ got = call.got
      /\ pos = trackPos /\ total = SampleOf(T.length)
  BY <1>a, <1>b, <1>c
<1>4. PICK share \in Nat : /\ share = ShareOfTrack /\ share <= left /\ pos + share <= total
                           /\ (share < left => pos + share = total)
  <2>1. PICK rest \in Nat : rest = total - pos
    BY <1>2, <1>3
  <2>2. Min({left, rest}) = IF left <= rest THEN left ELSE rest
    BY MinOfTwo
  <2>3. ShareOfTrack = LargerOf(IF left <= rest THEN left ELSE rest, 0)
    BY <1>3, <2>1, <2>2 DEF ShareOfTrack
  <2>4. ShareOfTrack = IF left <= rest THEN left ELSE rest
    BY <2>3 DEF LargerOf
  <2>5. PICK least \in Nat : least = IF left <= rest THEN left ELSE rest
    OBVIOUS
  <2>6. least <= left /\ pos + least <= total /\ (least < left => pos + least = total)
    <3>1. total = pos + rest
      BY <2>1
    <3> QED
      BY <2>5, <3>1
  <2> QED
    BY <2>4, <2>5, <2>6
<1>5. T' = T /\ S' = S /\ Place' = Place /\ AbsStart(readTrack)' = AbsStart(readTrack) /\ DiscSamples' = DiscSamples
      /\ user' = "samples" /\ tocPos' = tocPos
  BY <1>1, <1>2 DEF T, S, Place, AbsStart, DiscSamples
<1>6. trackPos' = IF T.mode = "DATA" THEN pos + share ELSE pos
  BY <1>3, <1>4 DEF CallTrack
<1>7. Typed' /\ InDisc' /\ NoAbort'
  <2>1. trackPos' \in Nat
    BY <1>6
  <2> QED
    BY <1>1, <1>2, <1>5, <2>1 DEF IInv, Typed, InDisc, NoAbort
<1>8. OnSample
  BY <1>1 DEF IInv, Placed
<1>9. CASE share = 0 \/ T.mode = "DATA"
  <2>1. PICK g : call' = [pc |-> "return", asked |-> asked, left |-> left, share |-> share, inTrack |-> share,
                          count |-> count, mode |-> mode, got |-> g]
    <3>1. CASE share = 0
      <4>1. call' = [[call EXCEPT !.share = share, !.inTrack = share] EXCEPT !.pc = "return"]
        BY <1>4, <3>1 DEF CallTrack
      <4> QED
        BY <1>2, <1>3, <4>1
    <3>2. CASE share # 0 /\ T.mode = "DATA"
      <4>1. share > 0 /\ ~Plain(T) /\ T.mode # "RW"
        BY <3>2 DEF Plain
      <4>2. call' = [[call EXCEPT !.share = share, !.inTrack = share]
                       EXCEPT !.pc = "return", !.got = @ \o [k \in 1 .. share |-> Filler]]
        BY <1>4, <3>2, <4>1 DEF CallTrack
      <4> QED
        BY <1>2, <1>3, <4>2
    <3> QED
      BY <1>9, <3>1, <3>2
  <2>2. trackPos' = pos + share
    BY <1>6, <1>9
  <2>3. call'.pc = "return" /\ call'.share = share /\ call'.left = left /\ call'.asked = asked
    BY <2>1
  <2>4. CallTyped' /\ Agreed'
    BY <1>5, <2>1, CallGoesOn
  <2>5. GotFromTrack' = share
    BY <2>3 DEF GotFromTrack, InTrackReader
  <2>6. Counted'
    <3>1. trackPos' <= SampleOf(T'.length)
      BY <1>3, <1>4, <1>5, <2>2
    <3>2. tocPos' + (asked - left) + share = AbsStart(readTrack)' + trackPos'
      BY <1>2, <1>3, <1>5, <2>2
    <3> QED
      BY <1>2, <1>3, <1>5, <2>3, <2>5, <3>1, <3>2 DEF Counted
  <2>7. Shared'
    <3>1. share < left => trackPos' = SampleOf(T'.length)
      BY <1>3, <1>4, <1>5, <2>2
    <3> QED
      BY <1>4, <2>3, <3>1 DEF Shared, InTrackReader
  <2>8. OnSample'
    <3>1. CASE T.mode = "DATA"
      BY <1>5, <3>1 DEF OnSample
    <3>2. CASE T.mode # "DATA"
      <4>1. trackPos' = trackPos
        BY <1>3, <1>6, <3>2
      <4> QED
        BY <1>5, <1>8, <4>1 DEF OnSample
    <3> QED
      BY <3>1, <3>2
  <2>9. Placed'
    BY <2>3, <2>8 DEF Placed
  <2> QED
    BY <1>7, <2>4, <2>6, <2>7, <2>9 DEF IInv
<1>10. CASE share # 0 /\ T.mode = "AUDIO"
  <2>1. call' = [pc |-> "samples", asked |-> asked, left |-> left, share |-> share, inTrack |-> share,
                 count |-> share, mode |-> mode, got |-> got]
    <3>1. share > 0 /\ Plain(T)
      BY <1>10 DEF Plain
    <3>2. call' = [[call EXCEPT !.share = share, !.inTrack = share] EXCEPT !.pc = "samples", !.count = share]
      BY <1>4, <1>10, <3>1 DEF CallTrack
    <3> QED
      BY <1>2, <1>3, <3>2
  <2>2. trackPos' = pos
    BY <1>6, <1>10
  <2>3. call'.pc = "samples" /\ call'.share = share /\ call'.left = left /\ call'.asked = asked
        /\ call'.inTrack = share /\ call'.count = share
    BY <2>1
  <2>4. CallTyped' /\ Agreed'
    BY <1>5, <2>1, CallGoesOn
  <2>5. GotFromTrack' = 0
    BY <2>3 DEF GotFromTrack, InTrackReader
  <2>6. Counted'
    <3>1. trackPos' <= SampleOf(T'.length)
      BY <1>3, <1>4, <1>5, <2>2
    <3>2. tocPos' + (asked - left) + 0 = AbsStart(readTrack)' + trackPos'
      BY <1>2, <1>3, <1>5, <2>2
    <3> QED
      BY <1>2, <1>3, <1>5, <2>3, <2>5, <3>1, <3>2 DEF Counted
  <2>7. Shared'
    <3>1. trackPos' + share <= SampleOf(T'.length) /\ (share < left => trackPos' + share = SampleOf(T'.length))
      BY <1>3, <1>4, <1>5, <2>2
    <3> QED
      BY <1>4, <2>3, <3>1 DEF Shared
  <2>8. Placed'
    <3>1. pos < total /\ share > 0
      BY <1>4, <1>10
    <3>2. Offset(T, pos) = pos
      BY <1>2, <1>10, TrackFacts
    <3>3. Place = pos
      BY <1>3, <1>8, <1>10, <3>1, <3>2 DEF OnSample
    <3> QED
      BY <1>5, <1>10, <2>2, <2>3, <3>1, <3>3 DEF Placed
  <2> QED
    BY <1>7, <2>4, <2>6, <2>7, <2>8 DEF IInv
<1>11. CASE share # 0 /\ T.mode = "RW"
  <2>1. call' = [pc |-> "burst", asked |-> asked, left |-> left, share |-> share, inTrack |-> share,
                 count |-> count, mode |-> mode, got |-> got]
    <3>1. share > 0 /\ ~Plain(T)
      BY <1>11 DEF Plain
    <3>2. call' = [[call EXCEPT !.share = share, !.inTrack = share] EXCEPT !.pc = "burst"]
      BY <1>4, <1>11, <3>1 DEF CallTrack
    <3> QED
      BY <1>2, <1>3, <3>2
  <2>2. trackPos' = trackPos /\ trackPos' = pos
    BY <1>3, <1>6, <1>11
  <2>3. call'.pc = "burst" /\ call'.share = share /\ call'.left = left /\ call'.asked = asked /\ call'.inTrack = share
    BY <2>1
  <2>4. CallTyped' /\ Agreed'
    BY <1>5, <2>1, CallGoesOn
  <2>5. GotFromTrack' = 0
    BY <2>3 DEF GotFromTrack, InTrackReader
  <2>6. Counted'
    <3>1. trackPos' <= SampleOf(T'.length)
      BY <1>3, <1>4, <1>5, <2>2
    <3>2. tocPos' + (asked - left) + 0 = AbsStart(readTrack)' + trackPos'
      BY <1>2, <1>3, <1>5, <2>2
    <3> QED
      BY <1>2, <1>3, <1>5, <2>3, <2>5, <3>1, <3>2 DEF Counted
  <2>7. Shared'
    <3>1. trackPos' + share <= SampleOf(T'.length) /\ (share < left => trackPos' + share = SampleOf(T'.length))
      BY <1>3, <1>4, <1>5, <2>2
    <3> QED
      BY <1>4, <2>3, <3>1 DEF Shared
  <2>8. OnSample'
    BY <1>5, <1>8, <2>2 DEF OnSample
  <2>9. Placed'
    BY <1>5, <1>11, <2>3, <2>8 DEF Placed
  <2> QED
    BY <1>7, <2>4, <2>6, <2>7, <2>9 DEF IInv
<1>12. T.mode \in {"AUDIO", "RW", "DATA"}
  BY <1>2, TrackFacts DEF Modes
<1> QED
  BY <1>9, <1>10, <1>11, <1>12

\* A step inside the open track.
LEMMA StepInTrack ==
    ASSUME IInv, user = "samples", ~aborted,
           UNCHANGED <<toc, user, readTrack, tocPos, readPos, aborted>>, trackPos' \in Nat,
           readSubTrack' \in 1 .. Len(T.subTracks), dataPos' \in 0 .. T.subTracks[readSubTrack'].len
    PROVE  /\ Typed' /\ InDisc' /\ NoAbort' /\ user' = "samples" /\ T' = T /\ tocPos' = tocPos
           /\ Place' = SubTrackStart(T.subTracks, readSubTrack') + dataPos'
           /\ AbsStart(readTrack)' = AbsStart(readTrack) /\ DiscSamples' = DiscSamples
<1>1. T' = T /\ AbsStart(readTrack)' = AbsStart(readTrack) /\ DiscSamples' = DiscSamples
  BY DEF T, AbsStart, DiscSamples
<1>2. S' = T.subTracks[readSubTrack'] /\ Place' = SubTrackStart(T.subTracks, readSubTrack') + dataPos'
  BY <1>1 DEF S, Place
<1>3. Typed'
  BY <1>1, <1>2 DEF IInv, Typed
<1>4. InDisc' /\ NoAbort'
  BY <1>1 DEF IInv, InDisc, NoAbort
<1> QED
  BY <1>1, <1>2, <1>3, <1>4

\* A call that fails keeps the invariant.
LEMMA FailedCall ==
    ASSUME IInv, user = "samples", ~aborted,
           UNCHANGED <<toc, user, readTrack, tocPos, readPos, readSubTrack, dataPos, aborted>>, trackPos' \in Nat,
           answer' = Failed, call' = Idle
    PROVE  IInv'
<1>1. readSubTrack' \in 1 .. Len(T.subTracks) /\ dataPos' \in 0 .. T.subTracks[readSubTrack'].len
  BY DEF IInv, Typed, S
<1>2. Typed' /\ InDisc' /\ NoAbort'
  BY <1>1, StepInTrack
<1>3. CallTyped' /\ Counted' /\ Shared' /\ Placed'
  BY NoCall
<1>4. Agreed'
  BY DEF Agreed
<1> QED
  BY <1>2, <1>3, <1>4 DEF IInv

\* A read of samples of plain audio keeps the invariant.
LEMMA ReadPlainStep ==
    ASSUME IInv, ReadPlain
    PROVE  IInv'
<1>1. /\ call.pc = "samples" /\ UNCHANGED <<toc, user, readTrack, tocPos, readPos>>
      /\ trackPos' = IF call'.pc = "return" THEN trackPos + call.share ELSE trackPos
  BY DEF ReadPlain
<1>2. /\ user = "samples" /\ aborted = FALSE /\ Typed /\ CallTyped
      /\ call = [pc |-> "samples", asked |-> call.asked, left |-> call.left, share |-> call.share,
                 inTrack |-> call.inTrack, count |-> call.count, mode |-> call.mode, got |-> call.got]
      /\ call.asked \in Nat /\ call.left \in Nat /\ call.share \in Nat /\ call.count \in Nat /\ call.mode \in Modes
      /\ tocPos \in Nat /\ trackPos \in Nat /\ AbsStart(readTrack) \in Nat /\ SampleOf(T.length) \in Nat
      /\ Loadable(T) /\ Place \in Nat
      /\ call.left >= 1 /\ call.left <= call.asked /\ tocPos + call.asked <= DiscSamples
      /\ tocPos + (call.asked - call.left) + GotFromTrack = AbsStart(readTrack) + trackPos
  BY <1>1, CallFacts
<1>a. PICK asked \in Nat, left \in Nat : asked = call.asked /\ left = call.left
  BY <1>2
<1>b. PICK count \in Nat, mode \in Modes, got \in {call.got} : count = call.count /\ mode = call.mode /\ got = call.got
  BY <1>2
<1>c. PICK pos \in Nat, total \in Nat : pos = trackPos /\ total = SampleOf(T.length)
  BY <1>2
<1>d. PICK share \in Nat : share = call.share
  BY <1>2
<1>3. /\ call.inTrack = share /\ T.mode = "AUDIO" /\ count > 0 /\ Place + count = pos + share
      /\ share <= left /\ pos + share <= total /\ (share < left => pos + share = total)
  BY <1>1, <1>a, <1>b, <1>c, <1>d DEF IInv, Placed, Shared, InTrackReader
<1>4. tocPos + (asked - left) = AbsStart(readTrack) + pos
  <2>1. GotFromTrack = share - share
    BY <1>1, <1>3, <1>d DEF GotFromTrack, InTrackReader
  <2>2. GotFromTrack = 0
    BY <2>1
  <2> QED
    BY <1>2, <1>a, <1>c, <2>2
<1>5. PICK after : after = [call EXCEPT !.pc = "return"] /\ ReadPiece(AnyMode, after)
  <2>1. PICK after : after = [call EXCEPT !.pc = "return"]
    OBVIOUS
  <2>2. ReadPiece(AnyMode, [call EXCEPT !.pc = "return"])
    BY DEF ReadPlain
  <2> QED
    BY <2>1, <2>2
<1>6. after = [pc |-> "return", asked |-> asked, left |-> left, share |-> share, inTrack |-> share,
               count |-> count, mode |-> mode, got |-> got]
  BY <1>2, <1>3, <1>5, <1>a, <1>b, <1>d
<1>7. trackPos' \in Nat
  BY <1>1, <1>c, <1>d
<1>8. CASE aborted' = TRUE /\ SubTrackStart(T.subTracks, Len(T.subTracks) + 1) < Place + call.count
  <2>1. SampleOf(T.length) <= SubTrackStart(T.subTracks, Len(T.subTracks) + 1)
        /\ SubTrackStart(T.subTracks, Len(T.subTracks) + 1) \in Nat
    <3>1. Len(T.subTracks) + 1 \in 1 .. Len(T.subTracks) + 1
      BY <1>2, TrackFacts, SMTT(30)
    <3> QED
      BY <1>2, <1>3, <3>1, TrackFacts
  <2> QED
    BY <1>2, <1>3, <1>8, <1>b, <1>c, <2>1, SMTT(30)
<1>9. CASE aborted' = aborted /\ answer' = Failed /\ call' = Idle /\ UNCHANGED <<readSubTrack, dataPos>>
  BY <1>1, <1>2, <1>7, <1>9, FailedCall
<1>10. CASE /\ aborted' = aborted
            /\ readSubTrack' \in 1 .. Len(T.subTracks) /\ dataPos' \in 0 .. T.subTracks[readSubTrack'].len
            /\ \E n \in 0 .. call.count : \E g :
                  /\ SubTrackStart(T.subTracks, readSubTrack') + dataPos' = Place + n
                  /\ call' = IF n = call.count THEN [after EXCEPT !.got = g]
                             ELSE [call EXCEPT !.count = call.count - n, !.got = g]
  <2>0. PICK n \in 0 .. count :
           \E g :
              /\ SubTrackStart(T.subTracks, readSubTrack') + dataPos' = Place + n
              /\ call' = IF n = count THEN [after EXCEPT !.got = g] ELSE [call EXCEPT !.count = count - n, !.got = g]
    BY <1>10, <1>b
  <2>1. PICK g :
           /\ SubTrackStart(T.subTracks, readSubTrack') + dataPos' = Place + n
           /\ call' = IF n = count THEN [after EXCEPT !.got = g] ELSE [call EXCEPT !.count = count - n, !.got = g]
    BY <2>0
  <2>2. /\ Typed' /\ InDisc' /\ NoAbort' /\ user' = "samples" /\ T' = T /\ tocPos' = tocPos
        /\ Place' = Place + n /\ AbsStart(readTrack)' = AbsStart(readTrack) /\ DiscSamples' = DiscSamples
    BY <1>1, <1>2, <1>7, <1>10, <2>1, StepInTrack
  <2>3. CASE n = count
    <3>1. call' = [pc |-> "return", asked |-> asked, left |-> left, share |-> share, inTrack |-> share,
                   count |-> count, mode |-> mode, got |-> g]
      BY <1>6, <2>1, <2>3
    <3>2. call'.pc = "return" /\ call'.share = share /\ call'.left = left /\ call'.asked = asked
      BY <3>1
    <3>3. trackPos' = pos + share
      BY <1>1, <1>c, <1>d, <3>2
    <3>4. CallTyped' /\ Agreed'
      BY <2>2, <3>1, CallGoesOn
    <3>5. GotFromTrack' = share
      BY <3>2 DEF GotFromTrack, InTrackReader
    <3>6. Counted'
      <4>1. trackPos' <= SampleOf(T'.length)
        BY <1>3, <1>c, <2>2, <3>3
      <4>2. tocPos' + (asked - left) + share = AbsStart(readTrack)' + trackPos'
        BY <1>2, <1>4, <2>2, <3>3
      <4> QED
        BY <1>2, <1>a, <2>2, <3>2, <3>5, <4>1, <4>2 DEF Counted
    <3>7. Shared'
      <4>1. share < left => trackPos' = SampleOf(T'.length)
        BY <1>3, <1>c, <2>2, <3>3
      <4> QED
        BY <1>3, <3>2, <4>1 DEF Shared, InTrackReader
    <3>8. OnSample'
      <4>1. Offset(T, pos + share) = pos + share
        <5>1. pos + share \in Nat
          OBVIOUS
        <5> QED
          BY <1>2, <1>3, <5>1, TrackFacts
      <4> QED
        BY <1>3, <2>2, <2>3, <3>3, <4>1 DEF OnSample
    <3>9. Placed'
      BY <3>2, <3>8 DEF Placed
    <3> QED
      BY <2>2, <3>4, <3>6, <3>7, <3>9 DEF IInv
  <2>4. CASE n # count
    <3>1. PICK more \in Nat : more = count - n /\ more > 0
      BY <2>4
    <3>2. call' = [pc |-> "samples", asked |-> asked, left |-> left, share |-> share, inTrack |-> share,
                   count |-> more, mode |-> mode, got |-> g]
      <4>1. call' = [call EXCEPT !.count = more, !.got = g]
        BY <2>1, <2>4, <3>1
      <4>2. call = [pc |-> "samples", asked |-> asked, left |-> left, share |-> share, inTrack |-> share,
                    count |-> count, mode |-> mode, got |-> got]
        BY <1>2, <1>3, <1>a, <1>b, <1>d
      <4> QED
        BY <4>1, <4>2
    <3>3. call'.pc = "samples" /\ call'.share = share /\ call'.left = left /\ call'.asked = asked
          /\ call'.inTrack = share /\ call'.count = more
      BY <3>2
    <3>4. trackPos' = pos
      BY <1>1, <1>c, <3>3
    <3>5. CallTyped' /\ Agreed'
      BY <2>2, <3>2, CallGoesOn
    <3>6. GotFromTrack' = 0
      BY <3>3 DEF GotFromTrack, InTrackReader
    <3>7. Counted'
      <4>1. trackPos' <= SampleOf(T'.length)
        BY <1>3, <1>c, <2>2, <3>4
      <4>2. tocPos' + (asked - left) + 0 = AbsStart(readTrack)' + trackPos'
        BY <1>2, <1>4, <2>2, <3>4
      <4> QED
        BY <1>2, <1>a, <2>2, <3>3, <3>6, <4>1, <4>2 DEF Counted
    <3>8. Shared'
      <4>1. trackPos' + share <= SampleOf(T'.length) /\ (share < left => trackPos' + share = SampleOf(T'.length))
        BY <1>3, <1>c, <2>2, <3>4
      <4> QED
        BY <1>3, <3>3, <4>1 DEF Shared
    <3>9. Placed'
      <4>1. Place' + more = pos + share
        BY <1>2, <1>3, <2>2, <3>1
      <4> QED
        BY <1>3, <2>2, <3>1, <3>3, <3>4, <4>1 DEF Placed
    <3> QED
      BY <2>2, <3>5, <3>7, <3>8, <3>9 DEF IInv
  <2> QED
    BY <2>3, <2>4
<1> QED
  <2>1. user # "none" /\ ~aborted
    BY <1>2
  <2> QED
    BY <1>2, <1>5, <1>8, <1>9, <1>10, <2>1, PieceRead

\* What is left to show when a call goes on in the track reader.
LEMMA GoesOnInTrack ==
    ASSUME Typed', InDisc', NoAbort', user' = "samples",
           NEW pc \in InTrackReader,
           NEW asked \in Nat, NEW left \in Nat, NEW share \in Nat, NEW inTrack \in Nat, NEW count \in Nat,
           NEW mode \in Modes, NEW got,
           call' = [pc |-> pc, asked |-> asked, left |-> left, share |-> share, inTrack |-> inTrack, count |-> count,
                    mode |-> mode, got |-> got],
           left >= 1, left <= asked, tocPos' + asked <= DiscSamples', trackPos' <= SampleOf(T'.length),
           tocPos' + (asked - left) + (share - inTrack) = AbsStart(readTrack)' + trackPos',
           inTrack <= share, share <= left, trackPos' + inTrack <= SampleOf(T'.length),
           share < left => trackPos' + inTrack = SampleOf(T'.length),
           Placed'
    PROVE  IInv'
<1>1. call'.pc = pc /\ call'.share = share /\ call'.left = left /\ call'.asked = asked /\ call'.inTrack = inTrack
  OBVIOUS
<1>2. pc \in {"track", "samples", "burst", "inburst", "subchannel", "return"} /\ pc \notin {"track", "return", "idle"}
  BY DEF InTrackReader
<1>3. CallTyped' /\ Agreed'
  BY <1>2, CallGoesOn
<1>4. GotFromTrack' = share - inTrack
  BY <1>1, <1>2 DEF GotFromTrack
<1>5. Counted'
  BY <1>1, <1>4 DEF Counted
<1>6. Shared'
  BY <1>1, <1>2 DEF Shared
<1> QED
  BY <1>3, <1>5, <1>6 DEF IInv

\* What is left to show when the track reader has its share and gives the call back to the disc.
LEMMA ReturnsToDisc ==
    ASSUME Typed', InDisc', NoAbort', user' = "samples",
           NEW asked \in Nat, NEW left \in Nat, NEW share \in Nat, NEW inTrack \in Nat, NEW count \in Nat,
           NEW mode \in Modes, NEW got,
           call' = [pc |-> "return", asked |-> asked, left |-> left, share |-> share, inTrack |-> inTrack,
                    count |-> count, mode |-> mode, got |-> got],
           left >= 1, left <= asked, tocPos' + asked <= DiscSamples', trackPos' <= SampleOf(T'.length),
           tocPos' + (asked - left) + share = AbsStart(readTrack)' + trackPos',
           share <= left, share < left => trackPos' = SampleOf(T'.length),
           OnSample'
    PROVE  IInv'
<1>1. call'.pc = "return" /\ call'.share = share /\ call'.left = left /\ call'.asked = asked
  OBVIOUS
<1>2. CallTyped' /\ Agreed'
  BY CallGoesOn
<1>3. GotFromTrack' = share
  BY <1>1 DEF GotFromTrack, InTrackReader
<1>4. Counted'
  BY <1>1, <1>3 DEF Counted
<1>5. Shared'
  BY <1>1 DEF Shared, InTrackReader
<1>6. Placed'
  BY <1>1 DEF Placed
<1> QED
  BY <1>2, <1>4, <1>5, <1>6 DEF IInv

\* What the invariant says in a track with sub-channel data.
LEMMA RWCallFacts ==
    ASSUME IInv, call.pc \in {"burst", "inburst", "subchannel"}
    PROVE  /\ user = "samples" /\ aborted = FALSE /\ Typed /\ CallTyped
           /\ call = [pc |-> call.pc, asked |-> call.asked, left |-> call.left, share |-> call.share,
                      inTrack |-> call.inTrack, count |-> call.count, mode |-> call.mode, got |-> call.got]
           /\ call.asked \in Nat /\ call.left \in Nat /\ call.share \in Nat /\ call.inTrack \in Nat /\ call.count \in Nat
           /\ call.mode \in Modes /\ tocPos \in Nat /\ trackPos \in Nat
           /\ DiscSamples \in Nat /\ AbsStart(readTrack) \in Nat /\ SampleOf(T.length) \in Nat
           /\ Loadable(T) /\ Place \in Nat /\ T.mode = "RW" /\ ~AudioCutMode(T.subTracks) /\ T.length \in Nat
           /\ call.left >= 1 /\ call.left <= call.asked /\ tocPos + call.asked <= DiscSamples
           /\ trackPos <= SampleOf(T.length)
           /\ tocPos + (call.asked - call.left) + (call.share - call.inTrack) = AbsStart(readTrack) + trackPos
           /\ call.inTrack <= call.share /\ call.share <= call.left
           /\ trackPos + call.inTrack <= SampleOf(T.length)
           /\ (call.share < call.left => trackPos + call.inTrack = SampleOf(T.length))
           /\ SubTrackStart(T.subTracks, Len(T.subTracks) + 1) \in Nat
           /\ T.length * BlockSize["RW"] <= SubTrackStart(T.subTracks, Len(T.subTracks) + 1)
           /\ (call.pc # "subchannel" =>
                 /\ Burst \in 1 .. SAMPLES_PER_BLOCK - (trackPos % SAMPLES_PER_BLOCK)
                 /\ Burst <= call.inTrack /\ Burst \in Nat /\ Burst >= 1)
<1>1. call.pc \in {"track", "samples", "burst", "inburst", "subchannel", "return"} /\ call.pc \in InTrackReader
      /\ call.pc \notin {"track", "return"}
  BY DEF InTrackReader
<1>2. GotFromTrack = call.share - call.inTrack
  BY <1>1 DEF GotFromTrack
<1>3. T.mode = "RW" /\ (call.pc # "subchannel" => call.inTrack > 0)
  BY DEF IInv, Placed
<1>4. call.inTrack <= call.share /\ call.share <= call.left /\ trackPos + call.inTrack <= SampleOf(T.length)
      /\ (call.share < call.left => trackPos + call.inTrack = SampleOf(T.length))
  BY <1>1 DEF IInv, Shared
<1>5. Loadable(T) /\ trackPos \in Nat /\ call.inTrack \in Nat
  BY <1>1, CallFacts
<1>6. /\ ~AudioCutMode(T.subTracks) /\ T.length \in Nat
      /\ SubTrackStart(T.subTracks, Len(T.subTracks) + 1) \in Nat
      /\ T.length * BlockSize["RW"] <= SubTrackStart(T.subTracks, Len(T.subTracks) + 1)
  <2>1. Len(T.subTracks) + 1 \in 1 .. Len(T.subTracks) + 1
    BY <1>5, TrackFacts
  <2>2. T.mode # "AUDIO"
    BY <1>3
  <2> QED
    BY <1>3, <1>5, <2>1, <2>2, TrackFacts
<1>7. ASSUME call.pc # "subchannel"
      PROVE  /\ Burst \in 1 .. SAMPLES_PER_BLOCK - (trackPos % SAMPLES_PER_BLOCK)
             /\ Burst <= call.inTrack /\ Burst \in Nat /\ Burst >= 1
  <2>1. PICK d \in Nat \ {0}, pos \in Nat : d = SAMPLES_PER_BLOCK /\ pos = trackPos
    BY <1>5, TrackAssumption
  <2>2. pos % d \in 0 .. d - 1
    BY Division
  <2>3. PICK rest \in Nat : rest = d - (pos % d) /\ rest >= 1
    BY <2>2
  <2>4. PICK n \in Nat : n = call.inTrack /\ n >= 1
    BY <1>3, <1>5, <1>7
  <2>5. Burst = IF n <= rest THEN n ELSE rest
    BY <2>1, <2>3, <2>4, MinOfTwo DEF Burst
  <2>6. Burst \in 1 .. rest /\ Burst <= n
    BY <2>3, <2>4, <2>5
  <2> QED
    BY <2>1, <2>3, <2>4, <2>6
<1> QED
  BY <1>1, <1>2, <1>3, <1>4, <1>6, <1>7, CallFacts

\* The beginning of the samples of a block keeps the invariant.
LEMMA StartBurstStep ==
    ASSUME IInv, StartBurst
    PROVE  IInv'
<1>1. /\ call.pc = "burst" /\ call' = [call EXCEPT !.pc = "inburst", !.count = Burst * SAMPLE_LEN]
      /\ UNCHANGED <<toc, user, readTrack, tocPos, trackPos, readPos, readSubTrack, dataPos, aborted>>
  BY DEF StartBurst
<1>2. /\ user = "samples" /\ aborted = FALSE /\ Typed
      /\ call = [pc |-> "burst", asked |-> call.asked, left |-> call.left, share |-> call.share,
                 inTrack |-> call.inTrack, count |-> call.count, mode |-> call.mode, got |-> call.got]
      /\ call.asked \in Nat /\ call.left \in Nat /\ call.share \in Nat /\ call.inTrack \in Nat /\ call.mode \in Modes
      /\ trackPos \in Nat /\ SampleOf(T.length) \in Nat /\ T.mode = "RW" /\ Loadable(T)
      /\ call.left >= 1 /\ call.left <= call.asked /\ tocPos + call.asked <= DiscSamples
      /\ trackPos <= SampleOf(T.length)
      /\ tocPos + (call.asked - call.left) + (call.share - call.inTrack) = AbsStart(readTrack) + trackPos
      /\ call.inTrack <= call.share /\ call.share <= call.left
      /\ trackPos + call.inTrack <= SampleOf(T.length)
      /\ (call.share < call.left => trackPos + call.inTrack = SampleOf(T.length))
      /\ Burst \in 1 .. SAMPLES_PER_BLOCK - (trackPos % SAMPLES_PER_BLOCK)
  BY <1>1, RWCallFacts
<1>3. call.inTrack > 0 /\ OnSample
  BY <1>1 DEF IInv, Placed
<1>4. PICK burst \in Nat \ {0}, count \in Nat : burst = Burst /\ count = burst * SAMPLE_LEN /\ count > 0
  <2>1. Burst \in Nat \ {0}
    BY <1>2, TrackAssumption
  <2>2. Burst * SAMPLE_LEN \in Nat /\ Burst * SAMPLE_LEN > 0
    BY <2>1, ReaderAssumption
  <2> QED
    BY <2>1, <2>2
<1>5. PICK asked \in Nat, left \in Nat, share \in Nat, inTrack \in Nat : 
         asked = call.asked /\ left = call.left /\ share = call.share /\ inTrack = call.inTrack
  BY <1>2
<1>6. PICK mode \in Modes, got \in {call.got} : mode = call.mode /\ got = call.got
  BY <1>2
<1>7. call' = [pc |-> "inburst", asked |-> asked, left |-> left, share |-> share, inTrack |-> inTrack,
               count |-> count, mode |-> mode, got |-> got]
  BY <1>1, <1>2, <1>4, <1>5, <1>6
<1>8. /\ readSubTrack' \in 1 .. Len(T.subTracks) /\ dataPos' \in 0 .. T.subTracks[readSubTrack'].len
  BY <1>1, <1>2 DEF Typed, S
<1>9. /\ Typed' /\ InDisc' /\ NoAbort' /\ user' = "samples" /\ T' = T /\ tocPos' = tocPos
      /\ Place' = SubTrackStart(T.subTracks, readSubTrack') + dataPos'
      /\ AbsStart(readTrack)' = AbsStart(readTrack) /\ DiscSamples' = DiscSamples
  BY <1>1, <1>2, <1>8, StepInTrack
<1>10. Place' = Place /\ Offset(T', trackPos') = Offset(T, trackPos)
  BY <1>1, <1>9 DEF Place
<1>11. Place = Offset(T, trackPos)
  BY <1>2, <1>3 DEF OnSample
<1>12. Burst' = Burst
  BY <1>1, <1>5, <1>7 DEF Burst
<1>13. Offset(T, trackPos) \in Nat
  BY <1>2, TrackFacts
<1>14. Placed'
  <2>1. call'.pc = "inburst" /\ call'.count = count /\ call'.inTrack = inTrack
    BY <1>7
  <2>2. Place' + count = Offset(T', trackPos') + Burst' * SAMPLE_LEN
    BY <1>4, <1>10, <1>11, <1>12
  <2> QED
    BY <1>2, <1>3, <1>4, <1>5, <1>9, <2>1, <2>2 DEF Placed
<1>15. "inburst" \in InTrackReader
  BY DEF InTrackReader
<1>16. /\ left >= 1 /\ left <= asked /\ tocPos' + asked <= DiscSamples' /\ trackPos' <= SampleOf(T'.length)
       /\ tocPos' + (asked - left) + (share - inTrack) = AbsStart(readTrack)' + trackPos'
       /\ inTrack <= share /\ share <= left /\ trackPos' + inTrack <= SampleOf(T'.length)
       /\ (share < left => trackPos' + inTrack = SampleOf(T'.length))
  BY <1>1, <1>2, <1>5, <1>9
<1> QED
  BY <1>7, <1>9, <1>14, <1>15, <1>16, GoesOnInTrack

\* A read of samples of a block keeps the invariant.
LEMMA ReadBurstStep ==
    ASSUME IInv, ReadBurst
    PROVE  IInv'
<1>1. /\ call.pc = "inburst" /\ UNCHANGED <<toc, user, readTrack, tocPos, readPos>>
      /\ trackPos' = IF call'.pc \in {"inburst", "idle"} THEN trackPos ELSE trackPos + Burst
  BY DEF ReadBurst
<1>2. /\ user = "samples" /\ aborted = FALSE /\ Typed /\ CallTyped
      /\ call = [pc |-> "inburst", asked |-> call.asked, left |-> call.left, share |-> call.share,
                 inTrack |-> call.inTrack, count |-> call.count, mode |-> call.mode, got |-> call.got]
      /\ call.asked \in Nat /\ call.left \in Nat /\ call.share \in Nat /\ call.inTrack \in Nat /\ call.count \in Nat
      /\ call.mode \in Modes /\ tocPos \in Nat /\ trackPos \in Nat
      /\ AbsStart(readTrack) \in Nat /\ SampleOf(T.length) \in Nat /\ DiscSamples \in Nat
      /\ Loadable(T) /\ Place \in Nat /\ T.mode = "RW" /\ ~AudioCutMode(T.subTracks) /\ T.length \in Nat
      /\ call.left >= 1 /\ call.left <= call.asked /\ tocPos + call.asked <= DiscSamples
      /\ trackPos <= SampleOf(T.length)
      /\ tocPos + (call.asked - call.left) + (call.share - call.inTrack) = AbsStart(readTrack) + trackPos
      /\ call.inTrack <= call.share /\ call.share <= call.left
      /\ trackPos + call.inTrack <= SampleOf(T.length)
      /\ (call.share < call.left => trackPos + call.inTrack = SampleOf(T.length))
      /\ SubTrackStart(T.subTracks, Len(T.subTracks) + 1) \in Nat
      /\ T.length * BlockSize["RW"] <= SubTrackStart(T.subTracks, Len(T.subTracks) + 1)
      /\ Burst \in 1 .. SAMPLES_PER_BLOCK - (trackPos % SAMPLES_PER_BLOCK) /\ Burst <= call.inTrack
      /\ Burst \in Nat /\ Burst >= 1
  BY <1>1, RWCallFacts
<1>a. PICK asked \in Nat, left \in Nat, share \in Nat, inTrack \in Nat :
         asked = call.asked /\ left = call.left /\ share = call.share /\ inTrack = call.inTrack
  BY <1>2
<1>b. PICK count \in Nat, mode \in Modes, got \in {call.got} : count = call.count /\ mode = call.mode /\ got = call.got
  BY <1>2
<1>c. PICK pos \in Nat, total \in Nat : pos = trackPos /\ total = SampleOf(T.length)
  BY <1>2
<1>d. PICK b \in 1 .. SAMPLES_PER_BLOCK - (pos % SAMPLES_PER_BLOCK) : b = Burst /\ b <= inTrack /\ b \in Nat /\ b >= 1
  <2>1. Burst \in 1 .. SAMPLES_PER_BLOCK - (pos % SAMPLES_PER_BLOCK)
    BY <1>2, <1>c
  <2>2. Burst <= inTrack /\ Burst \in Nat /\ Burst >= 1
    BY <1>2, <1>a
  <2> QED
    BY <2>1, <2>2
<1>3. call.inTrack > 0 /\ count > 0 /\ Place + count = Offset(T, pos) + b * SAMPLE_LEN
  BY <1>1, <1>b, <1>c, <1>d DEF IInv, Placed
<1>e. PICK next : next = Offset(T, pos) + b * SAMPLE_LEN /\ next \in Nat
  <2>1. Offset(T, pos) \in Nat
    BY <1>2, TrackFacts
  <2>2. b * SAMPLE_LEN \in Nat
    BY <1>d, ReaderAssumption
  <2> QED
    BY <2>1, <2>2
<1>f. Offset(T, pos + b) \in Nat
      /\ ((pos + b) % SAMPLES_PER_BLOCK # 0 => Offset(T, pos + b) = next)
      /\ ((pos + b) % SAMPLES_PER_BLOCK = 0 => Offset(T, pos + b) = next + SubChannelSize)
  <2>1. PICK t : t = T
    OBVIOUS
  <2>2. t.mode = "RW" /\ ~AudioCutMode(t.subTracks)
    BY <1>2, <2>1
  <2>3. /\ Offset(t, pos + b) \in Nat
        /\ (pos + b) % SAMPLES_PER_BLOCK # 0 => Offset(t, pos + b) = Offset(t, pos) + b * SAMPLE_LEN
        /\ (pos + b) % SAMPLES_PER_BLOCK = 0 =>
              Offset(t, pos + b) = Offset(t, pos) + b * SAMPLE_LEN + SubChannelSize
    BY <2>2, OffsetOfNext
  <2> QED
    BY <1>e, <2>1, <2>3
<1>4. PICK after : /\ after = IF SkipsSubChannel(pos + b)
                              THEN [pc |-> "subchannel", asked |-> asked, left |-> left, share |-> share,
                                    inTrack |-> inTrack - b, count |-> SubChannelSize, mode |-> mode, got |-> got]
                              ELSE [pc |-> AfterBurst(inTrack - b), asked |-> asked, left |-> left, share |-> share,
                                    inTrack |-> inTrack - b, count |-> count, mode |-> mode, got |-> got]
                   /\ ReadPiece(AnyMode, after)
  <2>1. PICK after : after = IF SkipsSubChannel(trackPos + Burst)
                             THEN [[call EXCEPT !.inTrack = @ - Burst] EXCEPT !.pc = "subchannel", !.count = SubChannelSize]
                             ELSE [[call EXCEPT !.inTrack = @ - Burst] EXCEPT
                                     !.pc = AfterBurst([call EXCEPT !.inTrack = @ - Burst].inTrack)]
    OBVIOUS
  <2>2. ReadPiece(AnyMode, after)
    BY <2>1 DEF ReadBurst
  <2>3. call = [pc |-> "inburst", asked |-> asked, left |-> left, share |-> share, inTrack |-> inTrack,
                count |-> count, mode |-> mode, got |-> got]
    BY <1>2, <1>a, <1>b
  <2>4. CASE SkipsSubChannel(pos + b)
    <3>1. after = [[call EXCEPT !.inTrack = @ - b] EXCEPT !.pc = "subchannel", !.count = SubChannelSize]
      BY <1>c, <1>d, <2>1, <2>4
    <3>2. after = [pc |-> "subchannel", asked |-> asked, left |-> left, share |-> share,
                   inTrack |-> inTrack - b, count |-> SubChannelSize, mode |-> mode, got |-> got]
      BY <2>3, <3>1
    <3> QED
      BY <2>2, <2>4, <3>2
  <2>5. CASE ~SkipsSubChannel(pos + b)
    <3>1. [call EXCEPT !.inTrack = @ - Burst] =
            [pc |-> "inburst", asked |-> asked, left |-> left, share |-> share, inTrack |-> inTrack - b,
             count |-> count, mode |-> mode, got |-> got]
      BY <1>d, <2>3
    <3>2. after = [pc |-> AfterBurst(inTrack - b), asked |-> asked, left |-> left, share |-> share,
                   inTrack |-> inTrack - b, count |-> count, mode |-> mode, got |-> got]
      BY <1>c, <1>d, <2>1, <2>5, <3>1
    <3> QED
      BY <2>2, <2>5, <3>2
  <2> QED
    BY <2>4, <2>5
<1>5. trackPos' \in Nat
  <2>1. trackPos' = pos \/ trackPos' = pos + b
    BY <1>1, <1>c, <1>d
  <2> QED
    BY <1>d, <2>1
<1>6. CASE aborted' = TRUE /\ SubTrackStart(T.subTracks, Len(T.subTracks) + 1) < Place + call.count
  <2>1. PICK t : t = T
    OBVIOUS
  <2>2. t.mode = "RW" /\ ~AudioCutMode(t.subTracks) /\ t.length \in Nat /\ pos < SampleOf(t.length)
    <3>1. t.mode = "RW" /\ ~AudioCutMode(t.subTracks) /\ t.length \in Nat
      BY <1>2, <2>1
    <3>2. pos + inTrack <= total
      BY <1>2, <1>a, <1>c
    <3>3. pos < total
      BY <1>d, <3>2
    <3> QED
      BY <1>c, <2>1, <3>1, <3>3
  <2>3. b \in 0 .. SAMPLES_PER_BLOCK - (pos % SAMPLES_PER_BLOCK)
    <3>1. SAMPLES_PER_BLOCK - (pos % SAMPLES_PER_BLOCK) \in Int
      BY TrackAssumption
    <3> QED
      BY <1>d, <3>1
  <2>4. next <= T.length * BlockSize["RW"]
    BY <1>e, <2>1, <2>2, <2>3, OffsetInTrack
  <2>5. T.length * BlockSize["RW"] \in Nat
    <3>1. T.length \in Nat
      BY <1>2
    <3>2. BlockSize["RW"] \in Nat
      BY TrackAssumption DEF Modes
    <3> QED
      BY <3>1, <3>2
  <2> QED
    <3>1. SubTrackStart(T.subTracks, Len(T.subTracks) + 1) \in Nat
          /\ T.length * BlockSize["RW"] <= SubTrackStart(T.subTracks, Len(T.subTracks) + 1)
      BY <1>2
    <3>2. SubTrackStart(T.subTracks, Len(T.subTracks) + 1) < next
      BY <1>3, <1>6, <1>b, <1>e
    <3> QED
      BY <1>e, <2>4, <2>5, <3>1, <3>2
<1>7. CASE aborted' = aborted /\ answer' = Failed /\ call' = Idle /\ UNCHANGED <<readSubTrack, dataPos>>
  BY <1>1, <1>2, <1>5, <1>7, FailedCall
<1>8. CASE /\ aborted' = aborted
           /\ readSubTrack' \in 1 .. Len(T.subTracks) /\ dataPos' \in 0 .. T.subTracks[readSubTrack'].len
           /\ \E n \in 0 .. call.count : \E g :
                 /\ SubTrackStart(T.subTracks, readSubTrack') + dataPos' = Place + n
                 /\ call' = IF n = call.count THEN [after EXCEPT !.got = g]
                            ELSE [call EXCEPT !.count = call.count - n, !.got = g]
  <2>0. PICK n \in 0 .. count :
           \E g :
              /\ SubTrackStart(T.subTracks, readSubTrack') + dataPos' = Place + n
              /\ call' = IF n = count THEN [after EXCEPT !.got = g] ELSE [call EXCEPT !.count = count - n, !.got = g]
    BY <1>8, <1>b
  <2>1. PICK g :
           /\ SubTrackStart(T.subTracks, readSubTrack') + dataPos' = Place + n
           /\ call' = IF n = count THEN [after EXCEPT !.got = g] ELSE [call EXCEPT !.count = count - n, !.got = g]
    BY <2>0
  <2>2. /\ Typed' /\ InDisc' /\ NoAbort' /\ user' = "samples" /\ T' = T /\ tocPos' = tocPos
        /\ Place' = Place + n /\ AbsStart(readTrack)' = AbsStart(readTrack) /\ DiscSamples' = DiscSamples
    BY <1>1, <1>2, <1>5, <1>8, <2>1, StepInTrack
  <2>3. CASE n # count
    <3>1. PICK more \in Nat : more = count - n /\ more > 0
      BY <2>3
    <3>2. call' = [pc |-> "inburst", asked |-> asked, left |-> left, share |-> share, inTrack |-> inTrack,
                   count |-> more, mode |-> mode, got |-> g]
      <4>1. call' = [call EXCEPT !.count = more, !.got = g]
        BY <2>1, <2>3, <3>1
      <4>2. call = [pc |-> "inburst", asked |-> asked, left |-> left, share |-> share, inTrack |-> inTrack,
                    count |-> count, mode |-> mode, got |-> got]
        BY <1>2, <1>a, <1>b
      <4> QED
        BY <4>1, <4>2
    <3>3. call'.pc = "inburst" /\ call'.inTrack = inTrack /\ call'.count = more
      BY <3>2
    <3>4. trackPos' = trackPos
      BY <1>1, <3>3
    <3>5. Burst' = Burst
      BY <1>a, <3>3, <3>4 DEF Burst
    <3>6. Placed'
      <4>1. Place' + more = Offset(T', trackPos') + Burst' * SAMPLE_LEN
        BY <1>2, <1>3, <1>c, <1>d, <1>e, <2>2, <3>1, <3>4, <3>5
      <4>2. T'.mode = "RW" /\ inTrack > 0
        BY <1>2, <1>3, <1>a, <2>2
      <4> QED
        BY <3>1, <3>3, <4>1, <4>2 DEF Placed
    <3>7. "inburst" \in InTrackReader
      BY DEF InTrackReader
    <3>8. /\ left >= 1 /\ left <= asked /\ tocPos' + asked <= DiscSamples' /\ trackPos' <= SampleOf(T'.length)
          /\ tocPos' + (asked - left) + (share - inTrack) = AbsStart(readTrack)' + trackPos'
          /\ inTrack <= share /\ share <= left /\ trackPos' + inTrack <= SampleOf(T'.length)
          /\ (share < left => trackPos' + inTrack = SampleOf(T'.length))
      BY <1>2, <1>a, <2>2, <3>4
    <3> QED
      BY <2>2, <3>2, <3>6, <3>7, <3>8, GoesOnInTrack
  <2>4. CASE n = count
    <3>1. PICK rest \in Nat : rest = inTrack - b
      BY <1>d
    <3>2. Place' = next
      BY <1>2, <1>3, <1>e, <2>2, <2>4
    <3>3. SkipsSubChannel(pos + b) <=> ((pos + b) % SAMPLES_PER_BLOCK = 0 /\ pos + b < total)
      BY <1>c DEF SkipsSubChannel
    <3>4. /\ left >= 1 /\ left <= asked /\ tocPos' + asked <= DiscSamples'
          /\ tocPos' + (asked - left) + (share - rest) = AbsStart(readTrack)' + (pos + b)
          /\ rest <= share /\ share <= left /\ (pos + b) + rest <= SampleOf(T'.length)
          /\ (share < left => (pos + b) + rest = SampleOf(T'.length))
          /\ pos + b <= SampleOf(T'.length) /\ SampleOf(T'.length) = total
      <4>1. /\ left >= 1 /\ left <= asked /\ tocPos + asked <= DiscSamples
            /\ tocPos + (asked - left) + (share - inTrack) = AbsStart(readTrack) + pos
            /\ inTrack <= share /\ share <= left /\ pos + inTrack <= total
            /\ (share < left => pos + inTrack = total)
        BY <1>2, <1>a, <1>c
      <4>2. tocPos \in Nat /\ AbsStart(readTrack) \in Nat
        BY <1>2
      <4>3. tocPos' = tocPos /\ DiscSamples' = DiscSamples /\ AbsStart(readTrack)' = AbsStart(readTrack)
            /\ SampleOf(T'.length) = total
        BY <1>c, <2>2
      <4>4. /\ tocPos + (asked - left) + (share - rest) = AbsStart(readTrack) + (pos + b)
            /\ rest <= share /\ (pos + b) + rest <= total
            /\ (share < left => (pos + b) + rest = total)
            /\ pos + b <= total
        BY <1>d, <3>1, <4>1, <4>2
      <4> QED
        BY <4>1, <4>3, <4>4
    <3>5. CASE SkipsSubChannel(pos + b)
      <4>1. PICK sub \in Nat : sub = SubChannelSize /\ sub > 0
        BY ReaderAssumption
      <4>2. call' = [pc |-> "subchannel", asked |-> asked, left |-> left, share |-> share,
                     inTrack |-> rest, count |-> sub, mode |-> mode, got |-> g]
        BY <1>4, <2>1, <2>4, <3>1, <3>5, <4>1
      <4>3. call'.pc = "subchannel" /\ call'.count = sub
        BY <4>2
      <4>4. trackPos' = pos + b
        BY <1>1, <1>c, <1>d, <4>3
      <4>5. Placed'
        <5>1. Place' + sub = Offset(T', trackPos')
          BY <1>f, <2>2, <3>2, <3>3, <3>5, <4>1, <4>4
        <5>2. trackPos' % SAMPLES_PER_BLOCK = 0 /\ trackPos' < SampleOf(T'.length)
          BY <3>3, <3>4, <3>5, <4>4
        <5> QED
          BY <1>2, <2>2, <4>1, <4>3, <5>1, <5>2 DEF Placed
      <4>6. "subchannel" \in InTrackReader
        BY DEF InTrackReader
      <4> QED
        BY <2>2, <3>4, <4>2, <4>4, <4>5, <4>6, GoesOnInTrack
    <3>6. CASE ~SkipsSubChannel(pos + b)
      <4>1. call' = [pc |-> AfterBurst(rest), asked |-> asked, left |-> left, share |-> share,
                     inTrack |-> rest, count |-> count, mode |-> mode, got |-> g]
        BY <1>4, <2>1, <2>4, <3>1, <3>6
      <4>2. call'.pc = AfterBurst(rest) /\ AfterBurst(rest) \in {"burst", "return"}
        BY <4>1 DEF AfterBurst
      <4>3. trackPos' = pos + b
        BY <1>1, <1>c, <1>d, <4>2
      <4>4. OnSample'
        <5> SUFFICES ASSUME trackPos' < SampleOf(T'.length) PROVE Place' = Offset(T', trackPos')
          BY DEF OnSample
        <5>1. (pos + b) % SAMPLES_PER_BLOCK # 0
          BY <3>3, <3>4, <3>6, <4>3
        <5> QED
          BY <1>f, <2>2, <3>2, <4>3, <5>1
      <4>5. CASE rest > 0
        <5>1. AfterBurst(rest) = "burst"
          BY <4>5 DEF AfterBurst
        <5>2. call' = [pc |-> "burst", asked |-> asked, left |-> left, share |-> share,
                       inTrack |-> rest, count |-> count, mode |-> mode, got |-> g]
          BY <4>1, <5>1
        <5>3. call'.pc = "burst" /\ call'.inTrack = rest
          BY <5>2
        <5>4. Placed'
          BY <1>2, <2>2, <4>4, <4>5, <5>3 DEF Placed
        <5>5. "burst" \in InTrackReader
          BY DEF InTrackReader
        <5> QED
          BY <2>2, <3>4, <4>3, <5>2, <5>4, <5>5, GoesOnInTrack
      <4>6. CASE rest = 0
        <5>1. AfterBurst(rest) = "return"
          BY <4>6 DEF AfterBurst
        <5>2. call' = [pc |-> "return", asked |-> asked, left |-> left, share |-> share,
                       inTrack |-> rest, count |-> count, mode |-> mode, got |-> g]
          BY <4>1, <5>1
        <5>3. tocPos' + (asked - left) + share = AbsStart(readTrack)' + trackPos'
              /\ (share < left => trackPos' = SampleOf(T'.length))
          BY <3>4, <4>3, <4>6
        <5> QED
          BY <2>2, <3>4, <4>3, <4>4, <5>2, <5>3, ReturnsToDisc
      <4> QED
        BY <4>5, <4>6
    <3> QED
      BY <3>5, <3>6
  <2> QED
    BY <2>3, <2>4
<1> QED
  <2>1. user # "none" /\ ~aborted
    BY <1>2
  <2> QED
    <3>1. Typed /\ CallTyped /\ ReadPiece(AnyMode, after)
      BY <1>2, <1>4
    <3>2. \/ aborted' = TRUE /\ SubTrackStart(T.subTracks, Len(T.subTracks) + 1) < Place + call.count
          \/ aborted' = aborted /\ answer' = Failed /\ call' = Idle /\ UNCHANGED <<readSubTrack, dataPos>>
          \/ /\ aborted' = aborted
             /\ readSubTrack' \in 1 .. Len(T.subTracks) /\ dataPos' \in 0 .. T.subTracks[readSubTrack'].len
             /\ \E n \in 0 .. call.count : \E g :
                   /\ SubTrackStart(T.subTracks, readSubTrack') + dataPos' = Place + n
                   /\ call' = IF n = call.count THEN [after EXCEPT !.got = g]
                              ELSE [call EXCEPT !.count = call.count - n, !.got = g]
      BY <2>1, <3>1, PieceRead
    <3> QED
      BY <1>6, <1>7, <1>8, <3>2

\* A read of sub-channel data keeps the invariant.
LEMMA ReadSubChannelStep ==
    ASSUME IInv, ReadSubChannel
    PROVE  IInv'
<1>1. call.pc = "subchannel" /\ UNCHANGED <<toc, user, readTrack, tocPos, trackPos, readPos>>
  BY DEF ReadSubChannel
<1>2. /\ user = "samples" /\ aborted = FALSE /\ Typed /\ CallTyped
      /\ call = [pc |-> "subchannel", asked |-> call.asked, left |-> call.left, share |-> call.share,
                 inTrack |-> call.inTrack, count |-> call.count, mode |-> call.mode, got |-> call.got]
      /\ call.asked \in Nat /\ call.left \in Nat /\ call.share \in Nat /\ call.inTrack \in Nat /\ call.count \in Nat
      /\ call.mode \in Modes /\ trackPos \in Nat
      /\ SampleOf(T.length) \in Nat
      /\ Loadable(T) /\ Place \in Nat /\ T.mode = "RW" /\ ~AudioCutMode(T.subTracks) /\ T.length \in Nat
      /\ call.left >= 1 /\ call.left <= call.asked /\ tocPos + call.asked <= DiscSamples
      /\ trackPos <= SampleOf(T.length)
      /\ tocPos + (call.asked - call.left) + (call.share - call.inTrack) = AbsStart(readTrack) + trackPos
      /\ call.inTrack <= call.share /\ call.share <= call.left
      /\ trackPos + call.inTrack <= SampleOf(T.length)
      /\ (call.share < call.left => trackPos + call.inTrack = SampleOf(T.length))
      /\ SubTrackStart(T.subTracks, Len(T.subTracks) + 1) \in Nat
      /\ T.length * BlockSize["RW"] <= SubTrackStart(T.subTracks, Len(T.subTracks) + 1)
  BY <1>1, RWCallFacts
<1>a. PICK asked \in Nat, left \in Nat, share \in Nat, inTrack \in Nat :
         asked = call.asked /\ left = call.left /\ share = call.share /\ inTrack = call.inTrack
  BY <1>2
<1>b. PICK count \in Nat, mode \in Modes, got \in {call.got} : count = call.count /\ mode = call.mode /\ got = call.got
  BY <1>2
<1>3. /\ count > 0 /\ trackPos % SAMPLES_PER_BLOCK = 0 /\ trackPos < SampleOf(T.length)
      /\ Place + count = Offset(T, trackPos)
  BY <1>1, <1>b DEF IInv, Placed
<1>4. PICK after : /\ after = [pc |-> AfterBurst(inTrack), asked |-> asked, left |-> left, share |-> share,
                               inTrack |-> inTrack, count |-> count, mode |-> mode, got |-> got]
                   /\ ReadPiece(AnyMode, after)
  <2>1. PICK after : after = [call EXCEPT !.pc = AfterBurst(call.inTrack)]
    OBVIOUS
  <2>2. ReadPiece(AnyMode, after)
    BY <2>1 DEF ReadSubChannel
  <2>3. call = [pc |-> "subchannel", asked |-> asked, left |-> left, share |-> share, inTrack |-> inTrack,
                count |-> count, mode |-> mode, got |-> got]
    BY <1>2, <1>a, <1>b
  <2>4. after = [pc |-> AfterBurst(inTrack), asked |-> asked, left |-> left, share |-> share,
                 inTrack |-> inTrack, count |-> count, mode |-> mode, got |-> got]
    BY <2>1, <2>3
  <2> QED
    BY <2>2, <2>4
<1>5. CASE aborted' = TRUE /\ SubTrackStart(T.subTracks, Len(T.subTracks) + 1) < Place + call.count
  <2>a. PICK t : t = T
    OBVIOUS
  <2>b. PICK pos \in Nat : pos = trackPos
    BY <1>2
  <2>1. t = T /\ pos = trackPos
    BY <2>a, <2>b
  <2>2. t.mode = "RW" /\ ~AudioCutMode(t.subTracks) /\ t.length \in Nat /\ pos < SampleOf(t.length)
    BY <1>2, <1>3, <2>1
  <2>3. 0 \in 0 .. SAMPLES_PER_BLOCK - (pos % SAMPLES_PER_BLOCK)
    <3>1. pos % SAMPLES_PER_BLOCK \in 0 .. SAMPLES_PER_BLOCK - 1 /\ SAMPLES_PER_BLOCK \in Nat
      BY TrackAssumption
    <3> QED
      BY <3>1
  <2>4. Offset(t, pos) + 0 * SAMPLE_LEN <= t.length * BlockSize["RW"]
    BY <2>2, <2>3, OffsetInTrack
  <2>5. Offset(t, pos) \in Nat /\ 0 * SAMPLE_LEN = 0
    <3>1. Loadable(t)
      BY <1>2, <2>1
    <3>2. Offset(t, pos) \in Nat
      BY <3>1, TrackFacts
    <3> QED
      BY <3>2, ReaderAssumption
  <2>6. T.length * BlockSize["RW"] \in Nat
    <3>1. T.length \in Nat
      BY <1>2
    <3>2. BlockSize["RW"] \in Nat
      BY TrackAssumption DEF Modes
    <3> QED
      BY <3>1, <3>2
  <2>7. SubTrackStart(T.subTracks, Len(T.subTracks) + 1) \in Nat
        /\ T.length * BlockSize["RW"] <= SubTrackStart(T.subTracks, Len(T.subTracks) + 1)
    BY <1>2
  <2>8. SubTrackStart(T.subTracks, Len(T.subTracks) + 1) < Offset(t, pos)
    BY <1>3, <1>5, <1>b, <2>1
  <2> QED
    BY <2>1, <2>4, <2>5, <2>6, <2>7, <2>8
<1>6. CASE aborted' = aborted /\ answer' = Failed /\ call' = Idle /\ UNCHANGED <<readSubTrack, dataPos>>
  <2>1. trackPos' \in Nat
    BY <1>1, <1>2
  <2> QED
    BY <1>1, <1>2, <1>6, <2>1, FailedCall
<1>7. CASE /\ aborted' = aborted
           /\ readSubTrack' \in 1 .. Len(T.subTracks) /\ dataPos' \in 0 .. T.subTracks[readSubTrack'].len
           /\ \E n \in 0 .. call.count : \E g :
                 /\ SubTrackStart(T.subTracks, readSubTrack') + dataPos' = Place + n
                 /\ call' = IF n = call.count THEN [after EXCEPT !.got = g]
                            ELSE [call EXCEPT !.count = call.count - n, !.got = g]
  <2>0. PICK n \in 0 .. count :
           \E g :
              /\ SubTrackStart(T.subTracks, readSubTrack') + dataPos' = Place + n
              /\ call' = IF n = count THEN [after EXCEPT !.got = g] ELSE [call EXCEPT !.count = count - n, !.got = g]
    BY <1>7, <1>b
  <2>1. PICK g :
           /\ SubTrackStart(T.subTracks, readSubTrack') + dataPos' = Place + n
           /\ call' = IF n = count THEN [after EXCEPT !.got = g] ELSE [call EXCEPT !.count = count - n, !.got = g]
    BY <2>0
  <2>2. /\ Typed' /\ InDisc' /\ NoAbort' /\ user' = "samples" /\ T' = T /\ tocPos' = tocPos
        /\ Place' = Place + n /\ AbsStart(readTrack)' = AbsStart(readTrack) /\ DiscSamples' = DiscSamples
    <3>1. trackPos' \in Nat
      BY <1>1, <1>2
    <3> QED
      BY <1>1, <1>2, <1>7, <2>1, <3>1, StepInTrack
  <2>3. /\ left >= 1 /\ left <= asked /\ tocPos' + asked <= DiscSamples' /\ trackPos' <= SampleOf(T'.length)
        /\ tocPos' + (asked - left) + (share - inTrack) = AbsStart(readTrack)' + trackPos'
        /\ inTrack <= share /\ share <= left /\ trackPos' + inTrack <= SampleOf(T'.length)
        /\ (share < left => trackPos' + inTrack = SampleOf(T'.length))
    BY <1>1, <1>2, <1>a, <2>2
  <2>4. trackPos' = trackPos
    BY <1>1
  <2>5. CASE n # count
    <3>1. PICK more \in Nat : more = count - n /\ more > 0
      BY <2>5
    <3>2. call' = [pc |-> "subchannel", asked |-> asked, left |-> left, share |-> share, inTrack |-> inTrack,
                   count |-> more, mode |-> mode, got |-> g]
      <4>1. call' = [call EXCEPT !.count = more, !.got = g]
        BY <2>1, <2>5, <3>1
      <4>2. call = [pc |-> "subchannel", asked |-> asked, left |-> left, share |-> share, inTrack |-> inTrack,
                    count |-> count, mode |-> mode, got |-> got]
        BY <1>2, <1>a, <1>b
      <4> QED
        BY <4>1, <4>2
    <3>3. call'.pc = "subchannel" /\ call'.count = more
      BY <3>2
    <3>4. Placed'
      <4>1. Place' + more = Offset(T', trackPos')
        BY <1>2, <1>3, <2>2, <2>4, <3>1
      <4>2. T'.mode = "RW" /\ trackPos' % SAMPLES_PER_BLOCK = 0 /\ trackPos' < SampleOf(T'.length)
        BY <1>2, <1>3, <2>2, <2>4
      <4> QED
        BY <3>1, <3>3, <4>1, <4>2 DEF Placed
    <3>5. "subchannel" \in InTrackReader
      BY DEF InTrackReader
    <3> QED
      BY <2>2, <2>3, <3>2, <3>4, <3>5, GoesOnInTrack
  <2>6. CASE n = count
    <3>1. call' = [pc |-> AfterBurst(inTrack), asked |-> asked, left |-> left, share |-> share,
                   inTrack |-> inTrack, count |-> count, mode |-> mode, got |-> g]
      BY <1>4, <2>1, <2>6
    <3>2. OnSample'
      BY <1>3, <2>2, <2>4, <2>6 DEF OnSample
    <3>3. CASE inTrack > 0
      <4>1. AfterBurst(inTrack) = "burst"
        BY <3>3 DEF AfterBurst
      <4>2. call' = [pc |-> "burst", asked |-> asked, left |-> left, share |-> share,
                     inTrack |-> inTrack, count |-> count, mode |-> mode, got |-> g]
        BY <3>1, <4>1
      <4>3. call'.pc = "burst" /\ call'.inTrack = inTrack
        BY <4>2
      <4>4. Placed'
        BY <1>2, <2>2, <3>2, <3>3, <4>3 DEF Placed
      <4>5. "burst" \in InTrackReader
        BY DEF InTrackReader
      <4> QED
        BY <2>2, <2>3, <4>2, <4>4, <4>5, GoesOnInTrack
    <3>4. CASE inTrack = 0
      <4>1. AfterBurst(inTrack) = "return"
        BY <3>4 DEF AfterBurst
      <4>2. call' = [pc |-> "return", asked |-> asked, left |-> left, share |-> share,
                     inTrack |-> inTrack, count |-> count, mode |-> mode, got |-> g]
        BY <3>1, <4>1
      <4>3. /\ tocPos' + (asked - left) + share = AbsStart(readTrack)' + trackPos'
            /\ (share < left => trackPos' = SampleOf(T'.length))
        <5>1. trackPos' + 0 = trackPos'
          BY <1>2, <2>4
        <5> QED
          BY <2>3, <3>4, <5>1
      <4> QED
        BY <2>2, <2>3, <3>2, <4>2, <4>3, ReturnsToDisc
    <3> QED
      BY <3>3, <3>4
  <2> QED
    BY <2>5, <2>6
<1> QED
  <2>1. user # "none" /\ ~aborted
    BY <1>2
  <2>2. Typed /\ CallTyped /\ ReadPiece(AnyMode, after)
    BY <1>2, <1>4
  <2>3. \/ aborted' = TRUE /\ SubTrackStart(T.subTracks, Len(T.subTracks) + 1) < Place + call.count
        \/ aborted' = aborted /\ answer' = Failed /\ call' = Idle /\ UNCHANGED <<readSubTrack, dataPos>>
        \/ /\ aborted' = aborted
           /\ readSubTrack' \in 1 .. Len(T.subTracks) /\ dataPos' \in 0 .. T.subTracks[readSubTrack'].len
           /\ \E n \in 0 .. call.count : \E g :
                 /\ SubTrackStart(T.subTracks, readSubTrack') + dataPos' = Place + n
                 /\ call' = IF n = call.count THEN [after EXCEPT !.got = g]
                            ELSE [call EXCEPT !.count = call.count - n, !.got = g]
    BY <2>1, <2>2, PieceRead
  <2> QED
    BY <1>5, <1>6, <1>7, <2>3

\* The return to the loop of TocReader::readSamples() keeps the invariant: there is
\* a next track if samples are missing.
LEMMA ReturnStep ==
    ASSUME IInv, ReturnFromTrack
    PROVE  IInv'
<1>1. call.pc = "return" /\ UNCHANGED <<toc, user>>
  BY DEF ReturnFromTrack
<1>2. /\ user = "samples" /\ aborted = FALSE /\ Typed /\ toc \in Discs
      /\ call = [pc |-> "return", asked |-> call.asked, left |-> call.left, share |-> call.share,
                 inTrack |-> call.inTrack, count |-> call.count, mode |-> call.mode, got |-> call.got]
      /\ call.asked \in Nat /\ call.left \in Nat /\ call.share \in Nat /\ call.inTrack \in Nat /\ call.count \in Nat
      /\ call.mode \in Modes /\ tocPos \in Nat /\ trackPos \in Nat
      /\ DiscSamples \in Nat /\ AbsStart(readTrack) \in Nat /\ SampleOf(T.length) \in Nat
      /\ AbsStart(readTrack + 1) = AbsStart(readTrack) + SampleOf(T.length)
      /\ readTrack \in 1 .. Len(toc)
      /\ call.left >= 1 /\ call.left <= call.asked /\ tocPos + call.asked <= DiscSamples
      /\ trackPos <= SampleOf(T.length)
      /\ tocPos + (call.asked - call.left) + GotFromTrack = AbsStart(readTrack) + trackPos
  BY <1>1, CallFacts
<1>a. PICK asked \in Nat, left \in Nat, share \in Nat : asked = call.asked /\ left = call.left /\ share = call.share
  BY <1>2
<1>b. PICK inTrack \in Nat, count \in Nat, mode \in Modes, got \in {call.got} :
         inTrack = call.inTrack /\ count = call.count /\ mode = call.mode /\ got = call.got
  BY <1>2
<1>c. tocPos \in Nat /\ trackPos \in Nat /\ AbsStart(readTrack) \in Nat /\ SampleOf(T.length) \in Nat
  BY <1>2
<1>d. AbsStart(readTrack + 1) = AbsStart(readTrack) + SampleOf(T.length)
  BY <1>2
<1>3. OnSample /\ share <= left /\ (share < left => trackPos = SampleOf(T.length))
  BY <1>1, <1>a DEF IInv, Placed, Shared
<1>4. tocPos + (asked - left) + share = AbsStart(readTrack) + trackPos
  <2>1. GotFromTrack = share
    BY <1>1, <1>a DEF GotFromTrack, InTrackReader
  <2> QED
    BY <1>2, <1>a, <2>1
<1>5. DiscSamples' = DiscSamples
  BY <1>1, SameDisc
<1>6. CASE share = left
  <2>1. /\ tocPos' = tocPos + asked /\ call' = Idle
        /\ UNCHANGED <<readTrack, readSubTrack, trackPos, readPos, dataPos, aborted>>
    BY <1>6, <1>a DEF ReturnFromTrack
  <2>2. T' = T /\ S' = S /\ Place' = Place /\ AbsStart(readTrack)' = AbsStart(readTrack)
    BY <1>1, <2>1 DEF T, S, Place, AbsStart
  <2>3. Typed'
    <3>1. tocPos' \in Nat
      BY <1>c, <2>1
    <3> QED
      BY <1>1, <1>2, <2>1, <2>2, <3>1 DEF Typed
  <2>4. InDisc' /\ NoAbort'
    BY <1>2, <1>5, <1>a, <2>1 DEF InDisc, NoAbort
  <2>5. CallTyped' /\ Counted' /\ Shared' /\ Placed'
    BY <2>1, NoCall
  <2>6. OnSample'
    BY <1>3, <2>1, <2>2 DEF OnSample
  <2>7. tocPos' = AbsStart(readTrack)' + trackPos'
    <3>1. tocPos + asked = AbsStart(readTrack) + trackPos
      BY <1>4, <1>6, <1>c
    <3> QED
      BY <2>1, <2>2, <3>1
  <2>8. Agreed'
    BY <1>2, <2>1, <2>2, <2>6, <2>7 DEF Agreed
  <2> QED
    BY <2>3, <2>4, <2>5, <2>8 DEF IInv
<1>7. CASE share # left
  <2>1. share < left /\ trackPos = SampleOf(T.length)
    BY <1>3, <1>7
  <2>2. tocPos + (asked - left) + share = AbsStart(readTrack + 1)
    BY <1>2, <1>4, <2>1
  <2>3. readTrack # Len(toc)
    <3> SUFFICES ASSUME readTrack = Len(toc) PROVE FALSE
      OBVIOUS
    <3>1. AbsStart(readTrack + 1) = DiscSamples
      BY DEF DiscSamples
    <3> QED
      BY <1>2, <1>a, <2>1, <2>2, <3>1, SMTT(30)
  <2>4. PICK nr \in 1 .. Len(toc) : nr = readTrack + 1
    <3>1. Len(toc) \in Nat
      BY <1>2, DiscFacts
    <3>2. readTrack \in 1 .. Len(toc)
      BY <1>2
    <3>3. readTrack + 1 \in 1 .. Len(toc)
      BY <2>3, <3>1, <3>2
    <3> QED
      BY <3>3
  <2>5. /\ tocPos' = tocPos /\ AtStartOf(nr) /\ aborted' = aborted
        /\ \/ call' = [call EXCEPT !.pc = "track", !.left = @ - call.share]
           \/ MayFail
    BY <1>7, <1>a, <2>3, <2>4 DEF ReturnFromTrack
  <2>6. /\ readTrack' \in 1 .. Len(toc') /\ readSubTrack' \in 1 .. Len(T'.subTracks) /\ dataPos' \in 0 .. S'.len
        /\ trackPos' = 0 /\ readPos' = 0 /\ SampleOf(T'.length) \in Nat
        /\ OnSample'
    BY <1>1, <1>2, <2>5, AtStart
  <2>7. Typed'
    BY <1>1, <1>2, <2>5, <2>6 DEF Typed
  <2>8. InDisc' /\ NoAbort'
    BY <1>2, <1>5, <2>5 DEF IInv, InDisc, NoAbort
  <2>9. CASE MayFail
    <3>1. answer' = Failed /\ call' = Idle
      BY <2>9 DEF MayFail, Fails
    <3>2. CallTyped' /\ Counted' /\ Shared' /\ Placed' /\ Agreed'
      BY <3>1, NoCall DEF Agreed
    <3> QED
      BY <2>7, <2>8, <3>2 DEF IInv
  <2>10. CASE call' = [call EXCEPT !.pc = "track", !.left = @ - call.share]
    <3>1. PICK more \in Nat : more = left - share /\ more >= 1
      BY <2>1
    <3>2. call' = [pc |-> "track", asked |-> asked, left |-> more, share |-> share, inTrack |-> inTrack,
                   count |-> count, mode |-> mode, got |-> got]
      <4>1. call = [pc |-> "return", asked |-> asked, left |-> left, share |-> share, inTrack |-> inTrack,
                    count |-> count, mode |-> mode, got |-> got]
        BY <1>2, <1>a, <1>b
      <4> QED
        BY <2>10, <3>1, <4>1
    <3>3. user' = "samples"
      BY <1>1, <1>2
    <3>4. CallTyped' /\ Agreed'
      BY <3>2, <3>3, CallGoesOn
    <3>5. call'.pc = "track" /\ call'.left = more /\ call'.asked = asked
      BY <3>2
    <3>6. GotFromTrack' = 0
      BY <3>5 DEF GotFromTrack, InTrackReader
    <3>7. Counted'
      <4>1. AbsStart(readTrack)' = AbsStart(readTrack + 1)
        <5>1. readTrack' = readTrack + 1
          BY <2>4, <2>5 DEF AtStartOf
        <5> QED
          BY <1>1, <5>1 DEF AbsStart
      <4>2. tocPos' + (asked - more) + 0 = AbsStart(readTrack)' + trackPos'
        <5>1. AbsStart(readTrack + 1) \in Nat
          BY <1>c, <1>d
        <5>2. tocPos + (asked - more) = AbsStart(readTrack + 1)
          BY <1>c, <2>2, <3>1
        <5>3. tocPos' = tocPos
          BY <2>5
        <5>4. trackPos' = 0
          BY <2>6
        <5>5. tocPos' + (asked - more) = AbsStart(readTrack)'
          BY <4>1, <5>2, <5>3
        <5>6. AbsStart(readTrack)' \in Nat
          BY <4>1, <5>1
        <5>7. PICK a : a = AbsStart(readTrack)'
          OBVIOUS
        <5>8. PICK q \in Nat : q = tocPos'
          BY <1>c, <5>3
        <5>9. PICK d \in Int : d = asked - more
          BY <1>a, <3>1
        <5>10. q + d + 0 = a + 0
          BY <5>5, <5>6, <5>7, <5>8, <5>9
        <5> QED
          BY <5>4, <5>7, <5>8, <5>9, <5>10
      <4>3. more <= asked /\ tocPos' + asked <= DiscSamples' /\ trackPos' <= SampleOf(T'.length)
        <5>1. tocPos' = tocPos
          BY <2>5
        <5>2. trackPos' = 0
          BY <2>6
        <5>3. tocPos + asked <= DiscSamples
          BY <1>2, <1>a
        <5>4. more <= asked
          <6>1. left <= asked
            BY <1>2, <1>a
          <6> QED
            BY <3>1, <6>1
        <5>5. SampleOf(T'.length) \in Nat
          BY <2>6
        <5>6. trackPos' <= SampleOf(T'.length)
          <6>1. PICK n \in Nat : n = SampleOf(T'.length)
            BY <5>5
          <6> QED
            BY <5>2, <6>1
        <5> QED
          BY <1>5, <5>1, <5>3, <5>4, <5>6
      <4> QED
        BY <3>1, <3>5, <3>6, <4>2, <4>3 DEF Counted
    <3>8. Shared'
      BY <3>5 DEF Shared, InTrackReader
    <3>9. Placed'
      BY <2>6, <3>5 DEF Placed
    <3> QED
      BY <2>7, <2>8, <3>4, <3>7, <3>8, <3>9 DEF IInv
  <2> QED
    BY <2>5, <2>9, <2>10
<1> QED
  BY <1>6, <1>7
-----------------------------------------------------------------------------
(* Blocks of a track: the positions stay inside the track's pieces.        *)

\* A step of a reader of blocks.
LEMMA BlockStep ==
    ASSUME IInv, user = "blocks", UNCHANGED <<toc, user, readTrack, tocPos>>,
           trackPos' \in Nat, readPos' \in Nat, aborted' \in BOOLEAN,
           readSubTrack' \in 1 .. Len(T.subTracks), dataPos' \in 0 .. T.subTracks[readSubTrack'].len,
           call'.pc \in BlockCalls, CallTyped'
    PROVE  IInv'
<1>1. T' = T /\ DiscSamples' = DiscSamples
  BY DEF T, AbsStart, DiscSamples
<1>2. S' = T.subTracks[readSubTrack']
  BY <1>1 DEF S
<1>3. Typed'
  BY <1>1, <1>2 DEF IInv, Typed
<1>4. InDisc'
  BY <1>1 DEF IInv, InDisc
<1>5. Agreed' /\ Counted' /\ Shared' /\ Placed' /\ NoAbort'
  BY NoSamples
<1> QED
  BY <1>3, <1>4, <1>5 DEF IInv

\* A call that reads blocks is typed.
LEMMA BlockCallTyped ==
    ASSUME NEW pc \in {"block", "gather", "done"},
           NEW asked \in Nat, NEW left \in Nat, NEW share \in Nat, NEW inTrack \in Nat, NEW count \in Nat,
           NEW mode \in Modes, NEW got, user' = "blocks", left >= 1 \/ pc = "done",
           call' = [pc |-> pc, asked |-> asked, left |-> left, share |-> share, inTrack |-> inTrack, count |-> count,
                    mode |-> mode, got |-> got]
    PROVE  CallTyped' /\ call'.pc \in BlockCalls
<1>1. call' \in [pc : SampleCalls \cup BlockCalls, asked : Nat, left : Nat, share : Nat, inTrack : Nat, count : Nat,
                 mode : Modes, got : {call'.got}]
  BY DEF BlockCalls
<1>2. call'.pc \in BlockCalls /\ call'.pc # "idle" /\ (call'.pc \in {"block", "gather"} => call'.left >= 1)
  BY DEF BlockCalls
<1> QED
  BY <1>1, <1>2 DEF CallTyped

\* The beginning of a call of readData() keeps the invariant.
LEMMA ReadDataStep ==
    ASSUME IInv, ReadData
    PROVE  IInv'
<1>0. PICK n \in Lengths :
         \E len :
            /\ len = Min({n, T.length - readPos}) /\ len > 0
            /\ user = "blocks" /\ call = Idle
            /\ call' = [Idle EXCEPT !.pc = "block", !.asked = len, !.left = len]
            /\ UNCHANGED <<toc, user, readTrack, tocPos, trackPos, readPos, readSubTrack, dataPos, aborted>>
  BY DEF ReadData, Ready
<1>1. PICK len :
         /\ len = Min({n, T.length - readPos}) /\ len > 0
         /\ user = "blocks" /\ call = Idle
         /\ call' = [Idle EXCEPT !.pc = "block", !.asked = len, !.left = len]
         /\ UNCHANGED <<toc, user, readTrack, tocPos, trackPos, readPos, readSubTrack, dataPos, aborted>>
  BY <1>0
<1>2. Typed /\ trackPos \in Nat /\ readPos \in Nat /\ aborted \in BOOLEAN /\ n \in Nat /\ n >= 1
  BY ReaderAssumption DEF IInv, Typed
<1>3. T.length \in Nat
  <2>1. Loadable(T)
    BY <1>1, <1>2, OpenFacts
  <2> QED
    BY <2>1, TrackFacts
<1>4. len \in Nat
  <2>1. CASE readPos <= T.length
    <3>1. PICK rest \in Nat : rest = T.length - readPos
      BY <1>2, <1>3, <2>1
    <3> QED
      BY <1>1, <1>2, <3>1, MinOfTwo
  <2>2. CASE ~(readPos <= T.length)
    <3>1. PICK rest \in Int : rest = T.length - readPos /\ rest < 0
      BY <1>2, <1>3, <2>2
    <3>2. Min({n, rest}) = rest
      BY <1>2, <3>1 DEF Min
    <3> QED
      BY <1>1, <3>1, <3>2
  <2> QED
    BY <2>1, <2>2
<1>5. call' = [pc |-> "block", asked |-> len, left |-> len, share |-> 0, inTrack |-> 0, count |-> 0,
               mode |-> "AUDIO", got |-> <<>>]
  BY <1>1 DEF Idle
<1>6. CallTyped' /\ call'.pc \in BlockCalls
  <2>1. user' = "blocks" /\ len >= 1 /\ "AUDIO" \in Modes
    BY <1>1, <1>4 DEF Modes
  <2> QED
    BY <1>4, <1>5, <2>1, BlockCallTyped
<1>7. readSubTrack' \in 1 .. Len(T.subTracks) /\ dataPos' \in 0 .. T.subTracks[readSubTrack'].len
  BY <1>1, <1>2 DEF Typed, S
<1> QED
  BY <1>1, <1>2, <1>6, <1>7, BlockStep

\* What the invariant says while a call of readData() is under way.
LEMMA BlockCallFacts ==
    ASSUME IInv, call.pc \in {"block", "gather", "done"}
    PROVE  /\ user = "blocks" /\ Typed /\ CallTyped
           /\ call = [pc |-> call.pc, asked |-> call.asked, left |-> call.left, share |-> call.share,
                      inTrack |-> call.inTrack, count |-> call.count, mode |-> call.mode, got |-> call.got]
           /\ call.asked \in Nat /\ call.left \in Nat /\ call.share \in Nat /\ call.inTrack \in Nat /\ call.count \in Nat
           /\ call.mode \in Modes /\ (call.pc # "done" => call.left >= 1)
           /\ trackPos \in Nat /\ readPos \in Nat /\ aborted \in BOOLEAN
           /\ Loadable(T) /\ S.mode \in Modes
           /\ readSubTrack \in 1 .. Len(T.subTracks) /\ dataPos \in 0 .. T.subTracks[readSubTrack].len
<1>1. call.pc \notin SampleCalls /\ call.pc # "idle" /\ call.pc \in BlockCalls
  BY DEF SampleCalls, BlockCalls
<1>2. user = "blocks"
  <2>1. user # "none"
    BY <1>1 DEF IInv, CallTyped, Idle
  <2> QED
    BY <1>1, <2>1 DEF IInv, Typed, CallTyped
<1>3. /\ call = [pc |-> call.pc, asked |-> call.asked, left |-> call.left, share |-> call.share,
                 inTrack |-> call.inTrack, count |-> call.count, mode |-> call.mode, got |-> call.got]
      /\ call.asked \in Nat /\ call.left \in Nat /\ call.share \in Nat /\ call.inTrack \in Nat /\ call.count \in Nat
      /\ call.mode \in Modes
  BY DEF IInv, CallTyped
<1>4. call.pc # "done" => call.left >= 1
  BY DEF IInv, CallTyped
<1>5. Typed /\ CallTyped /\ trackPos \in Nat /\ readPos \in Nat /\ aborted \in BOOLEAN
  BY DEF IInv, Typed
<1>6. Loadable(T) /\ S.mode \in Modes /\ readSubTrack \in 1 .. Len(T.subTracks)
      /\ dataPos \in 0 .. T.subTracks[readSubTrack].len
  BY <1>2, <1>5, OpenFacts
<1> QED
  BY <1>2, <1>3, <1>4, <1>5, <1>6

\* The beginning of a block keeps the invariant.
LEMMA ReadBlockStep ==
    ASSUME IInv, ReadBlock
    PROVE  IInv'
<1>1. call.pc = "block" /\ UNCHANGED <<toc, user, readTrack, tocPos, trackPos, readPos>>
  BY DEF ReadBlock
<1>2. /\ user = "blocks" /\ CallTyped
      /\ call = [pc |-> "block", asked |-> call.asked, left |-> call.left, share |-> call.share,
                 inTrack |-> call.inTrack, count |-> call.count, mode |-> call.mode, got |-> call.got]
      /\ call.asked \in Nat /\ call.left \in Nat /\ call.share \in Nat /\ call.inTrack \in Nat
      /\ call.left >= 1
      /\ trackPos \in Nat /\ readPos \in Nat /\ aborted \in BOOLEAN
      /\ Loadable(T) /\ S.mode \in Modes
      /\ readSubTrack \in 1 .. Len(T.subTracks) /\ dataPos \in 0 .. T.subTracks[readSubTrack].len
  BY <1>1, BlockCallFacts
<1>3. CASE BlockHasData
  <2>1. UNCHANGED <<readSubTrack, dataPos, aborted>>
        /\ call' = [call EXCEPT !.pc = "gather", !.mode = S.mode, !.count = UnitsOfBlock(T, S)]
    BY <1>3 DEF ReadBlock
  <2>2. PICK asked \in Nat, left \in Nat, share \in Nat, inTrack \in Nat :
           asked = call.asked /\ left = call.left /\ share = call.share /\ inTrack = call.inTrack
    BY <1>2
  <2>3. PICK mode \in Modes, got \in {call.got} : mode = S.mode /\ got = call.got
    BY <1>2
  <2>4. PICK count \in Nat : count = UnitsOfBlock(T, S)
    <3>1. UnitsOfBlock(T, S) \in Nat
      <4>1. SAMPLES_PER_BLOCK \in Nat /\ BlockSize[S.mode] \in Nat
        BY <2>3, TrackAssumption
      <4> QED
        BY <4>1 DEF UnitsOfBlock
    <3> QED
      BY <3>1
  <2>5. call' = [pc |-> "gather", asked |-> asked, left |-> left, share |-> share, inTrack |-> inTrack,
                 count |-> count, mode |-> mode, got |-> got]
    BY <1>2, <2>1, <2>2, <2>3, <2>4
  <2>6. CallTyped' /\ call'.pc \in BlockCalls
    <3>1. user' = "blocks" /\ left >= 1
      BY <1>1, <1>2, <2>2
    <3> QED
      BY <2>5, <3>1, BlockCallTyped
  <2>7. readSubTrack' \in 1 .. Len(T.subTracks) /\ dataPos' \in 0 .. T.subTracks[readSubTrack'].len
    BY <1>2, <2>1
  <2> QED
    BY <1>1, <1>2, <2>1, <2>6, <2>7, BlockStep
<1>4. CASE ~BlockHasData
  <2>1. \/ aborted' = TRUE /\ UNCHANGED <<readSubTrack, dataPos, call>>
        \/ /\ readSubTrack # Len(T.subTracks) /\ aborted' = aborted
           /\ readSubTrack' = readSubTrack + 1 /\ dataPos' = 0 /\ (call' = call \/ call' = Idle)
    BY <1>4 DEF ReadBlock, AbortIf, MayFail, Fails
  <2>2. call' = call \/ call' = Idle
    BY <2>1
  <2>3. CallTyped' /\ call'.pc \in BlockCalls
    <3>1. CASE call' = call
      <4>1. user' = user
        BY <1>1
      <4> QED
        BY <1>1, <1>2, <3>1, <4>1 DEF CallTyped, BlockCalls
    <3>2. CASE call' = Idle
      BY <3>2, NoCall DEF Idle, BlockCalls
    <3> QED
      BY <2>2, <3>1, <3>2
  <2>4. readSubTrack' \in 1 .. Len(T.subTracks) /\ dataPos' \in 0 .. T.subTracks[readSubTrack'].len
    <3>1. CASE UNCHANGED <<readSubTrack, dataPos>>
      BY <1>2, <3>1
    <3>2. CASE readSubTrack # Len(T.subTracks) /\ readSubTrack' = readSubTrack + 1 /\ dataPos' = 0
      <4>1. PICK t : t = T
        OBVIOUS
      <4>2. PICK i \in 1 .. Len(t.subTracks) : i = readSubTrack + 1
        <5>1. Len(t.subTracks) \in Nat
          BY <1>2, <4>1, TrackFacts
        <5> QED
          BY <1>2, <3>2, <4>1, <5>1
      <4>3. t.subTracks[i].len \in Nat
        BY <1>2, <4>1, TrackFacts
      <4> QED
        BY <3>2, <4>1, <4>2, <4>3
    <3> QED
      BY <2>1, <3>1, <3>2
  <2>5. aborted' \in BOOLEAN
    BY <1>2, <2>1
  <2> QED
    BY <1>1, <1>2, <2>3, <2>4, <2>5, BlockStep
<1> QED
  BY <1>3, <1>4

\* A read of a part of a block keeps the invariant.
LEMMA GatherStep ==
    ASSUME IInv, Gather
    PROVE  IInv'
<1>1. call.pc = "gather" /\ UNCHANGED <<toc, user, readTrack, tocPos, trackPos, readPos>> /\ ~aborted
  BY DEF Gather
<1>2. /\ user = "blocks" /\ Typed /\ CallTyped
      /\ call = [pc |-> "gather", asked |-> call.asked, left |-> call.left, share |-> call.share,
                 inTrack |-> call.inTrack, count |-> call.count, mode |-> call.mode, got |-> call.got]
      /\ call.asked \in Nat /\ call.left \in Nat /\ call.share \in Nat /\ call.inTrack \in Nat /\ call.count \in Nat
      /\ call.mode \in Modes /\ call.left >= 1
      /\ trackPos \in Nat /\ readPos \in Nat /\ aborted \in BOOLEAN
      /\ readSubTrack \in 1 .. Len(T.subTracks) /\ dataPos \in 0 .. T.subTracks[readSubTrack].len
  BY <1>1, BlockCallFacts
<1>a. PICK asked \in Nat, left \in Nat, share \in Nat, inTrack \in Nat :
         asked = call.asked /\ left = call.left /\ share = call.share /\ inTrack = call.inTrack
  BY <1>2
<1>b. PICK count \in Nat, mode \in Modes, got \in {call.got} : count = call.count /\ mode = call.mode /\ got = call.got
  BY <1>2
<1>3. call = [pc |-> "gather", asked |-> asked, left |-> left, share |-> share, inTrack |-> inTrack,
              count |-> count, mode |-> mode, got |-> got]
  BY <1>2, <1>a, <1>b
<1>4. PICK rest \in Nat : rest = left - 1
  BY <1>2, <1>a
<1>5. PICK pc \in {"done", "block"} : pc = IF call.left = 1 THEN "done" ELSE "block"
  OBVIOUS
<1>e. PICK after : after = [call EXCEPT !.pc = pc, !.left = @ - 1]
  OBVIOUS
<1>f. after = [pc |-> pc, asked |-> asked, left |-> rest, share |-> share, inTrack |-> inTrack,
               count |-> count, mode |-> mode, got |-> got]
  BY <1>3, <1>4, <1>a, <1>e
<1>g. rest >= 1 \/ pc = "done"
  BY <1>4, <1>5, <1>a
<1>h. ReadPiece({call.mode}, after)
  BY <1>5, <1>e DEF Gather
<1>6. \/ aborted' = TRUE /\ UNCHANGED <<readSubTrack, dataPos, call>>
      \/ aborted' = aborted /\ call' = Idle /\ UNCHANGED <<readSubTrack, dataPos>>
      \/ /\ aborted' = aborted
         /\ readSubTrack' \in 1 .. Len(T.subTracks) /\ dataPos' \in 0 .. T.subTracks[readSubTrack'].len
         /\ \E n \in 0 .. call.count : \E g :
               call' = IF n = call.count THEN [after EXCEPT !.got = g]
                       ELSE [call EXCEPT !.count = call.count - n, !.got = g]
  <2>1. user # "none" /\ ~aborted /\ Typed /\ CallTyped
    BY <1>1, <1>2
  <2>2. ReadPiece({call.mode}, after)
    BY <1>h
  <2> QED
    BY <2>1, <2>2, PieceRead
<1>7. readSubTrack' \in 1 .. Len(T.subTracks) /\ dataPos' \in 0 .. T.subTracks[readSubTrack'].len
  <2>1. CASE UNCHANGED <<readSubTrack, dataPos>>
    BY <1>2, <2>1
  <2> QED
    BY <1>6, <2>1
<1>8. aborted' \in BOOLEAN
  BY <1>2, <1>6
<1>9. user' = "blocks"
  BY <1>1, <1>2
<1>10. CallTyped' /\ call'.pc \in BlockCalls
  <2>1. CASE call' = call
    BY <1>1, <1>2, <2>1 DEF CallTyped, BlockCalls
  <2>2. CASE call' = Idle
    BY <2>2, NoCall DEF Idle, BlockCalls
  <2>3. CASE \E n \in 0 .. call.count : \E g :
                call' = IF n = call.count THEN [after EXCEPT !.got = g]
                        ELSE [call EXCEPT !.count = call.count - n, !.got = g]
    <3>0. PICK n \in 0 .. count :
             \E g :
                call' = IF n = count THEN [after EXCEPT !.got = g] ELSE [call EXCEPT !.count = count - n, !.got = g]
      BY <1>b, <2>3
    <3>1. PICK g :
             call' = IF n = count THEN [after EXCEPT !.got = g] ELSE [call EXCEPT !.count = count - n, !.got = g]
      BY <3>0
    <3>2. CASE n = count
      <4>1. call' = [pc |-> pc, asked |-> asked, left |-> rest, share |-> share, inTrack |-> inTrack,
                     count |-> count, mode |-> mode, got |-> g]
        BY <1>f, <3>1, <3>2
      <4> QED
        BY <1>5, <1>9, <1>g, <4>1, BlockCallTyped
    <3>3. CASE n # count
      <4>1. PICK more \in Nat : more = count - n
        OBVIOUS
      <4>2. call' = [pc |-> "gather", asked |-> asked, left |-> left, share |-> share, inTrack |-> inTrack,
                     count |-> more, mode |-> mode, got |-> g]
        BY <1>3, <3>1, <3>3, <4>1
      <4>3. left >= 1
        BY <1>2, <1>a
      <4> QED
        BY <1>9, <4>2, <4>3, BlockCallTyped
    <3> QED
      BY <3>2, <3>3
  <2> QED
    BY <1>6, <2>1, <2>2, <2>3
<1> QED
  BY <1>1, <1>2, <1>7, <1>8, <1>10, BlockStep

\* The end of a call of readData() keeps the invariant.
LEMMA ReturnBlocksStep ==
    ASSUME IInv, ReturnBlocks
    PROVE  IInv'
<1>1. /\ call.pc = "done" /\ UNCHANGED <<toc, user, readTrack, tocPos, trackPos, readSubTrack, dataPos, aborted>>
      /\ readPos' = readPos + call.asked /\ call' = Idle
  BY DEF ReturnBlocks
<1>2. /\ user = "blocks" /\ call.asked \in Nat /\ trackPos \in Nat /\ readPos \in Nat /\ aborted \in BOOLEAN
      /\ readSubTrack \in 1 .. Len(T.subTracks) /\ dataPos \in 0 .. T.subTracks[readSubTrack].len
  BY <1>1, BlockCallFacts
<1>3. CallTyped' /\ call'.pc \in BlockCalls
  BY <1>1, NoCall DEF Idle, BlockCalls
<1>4. readPos' \in Nat /\ trackPos' \in Nat /\ aborted' \in BOOLEAN
      /\ readSubTrack' \in 1 .. Len(T.subTracks) /\ dataPos' \in 0 .. T.subTracks[readSubTrack'].len
  BY <1>1, <1>2
<1> QED
  BY <1>1, <1>2, <1>3, <1>4, BlockStep
-----------------------------------------------------------------------------
\* Every step keeps the invariant.
LEMMA StepHolds ==
    ASSUME IInv, [Next]_vars
    PROVE  IInv'
<1>1. CASE Next
  BY <1>1, OpenStep, CloseStep, SeekStep, ReadSamplesStep, ReadDataStep, CallTrackStep, ReadPlainStep, StartBurstStep,
     ReadBurstStep, ReadSubChannelStep, ReturnStep, ReadBlockStep, GatherStep, ReturnBlocksStep DEF Next
<1>2. CASE UNCHANGED vars
  <2>1. UNCHANGED <<toc, user, readTrack, tocPos, trackPos, readPos, readSubTrack, dataPos, call, answer, aborted>>
    BY <1>2 DEF vars
  <2>2. T' = T /\ S' = S /\ Place' = Place /\ DiscSamples' = DiscSamples /\ AbsStart(readTrack)' = AbsStart(readTrack)
        /\ Burst' = Burst /\ GotFromTrack' = GotFromTrack
    BY <2>1 DEF T, S, Place, AbsStart, DiscSamples, Burst, GotFromTrack
  <2>3. Typed' /\ CallTyped' /\ InDisc'
    BY <2>1, <2>2 DEF IInv, Typed, CallTyped, InDisc
  <2>4. OnSample' = OnSample
    BY <2>1, <2>2 DEF OnSample
  <2>5. Agreed' /\ Counted' /\ NoAbort'
    BY <2>1, <2>2, <2>4 DEF IInv, Agreed, Counted, NoAbort
  <2>6. Shared' /\ Placed'
    BY <2>1, <2>2, <2>4 DEF IInv, Shared, Placed
  <2> QED
    BY <2>3, <2>5, <2>6 DEF IInv
<1> QED
  BY <1>1, <1>2

\* The invariant holds in every state.
THEOREM ReaderInvariant == Spec => []IInv
<1>1. Init => IInv
  BY InitHolds
<1>2. IInv /\ [Next]_vars => IInv'
  BY StepHolds
<1> QED
  BY <1>1, <1>2, PTL DEF Spec

\* The positions of the disc, track and sub-track readers (seekSample() and
\* readSamples() of TocReader, TrackReader and TrackDataReader) are inside what
\* they read, and name the same sample between two calls.
THEOREM ReaderPositionsAgree == Spec => []PositionsAgree
<1>1. IInv => PositionsAgree
  <2> SUFFICES ASSUME IInv PROVE PositionsAgree
    OBVIOUS
  <2>1. TypeOK
    <3>1. Typed /\ toc \in Discs
      BY DEF IInv, Typed
    <3>2. DiscSamples \in Nat /\ Len(toc) \in Nat
      BY <3>1, DiscFacts
    <3>3. tocPos \in 0 .. DiscSamples
      BY <3>1, <3>2 DEF IInv, Typed, InDisc
    <3>4. readTrack \in 0 .. Len(toc)
      BY <3>1, <3>2 DEF Typed
    <3>5. readTrack > 0 => readSubTrack \in DOMAIN T.subTracks /\ dataPos \in 0 .. S.len
      <4> SUFFICES ASSUME readTrack > 0 PROVE readSubTrack \in DOMAIN T.subTracks /\ dataPos \in 0 .. S.len
        OBVIOUS
      <4>1. user # "none"
        BY <3>1 DEF Typed
      <4>2. Loadable(T) /\ readSubTrack \in 1 .. Len(T.subTracks) /\ dataPos \in 0 .. S.len
        BY <3>1, <4>1, OpenFacts
      <4> QED
        BY <4>2, TrackFacts
    <3>6. call.count \in Nat /\ call.left \in Nat /\ call.inTrack \in Nat
      BY DEF IInv, CallTyped
    <3> QED
      BY <3>1, <3>3, <3>4, <3>5, <3>6 DEF TypeOK, Typed
  <2>2. ASSUME Ready("samples")
        PROVE  /\ tocPos = AbsStart(readTrack) + trackPos
               /\ T.mode # "DATA" /\ trackPos < SampleOf(T.length) =>
                     SubTrackStart(T.subTracks, readSubTrack) + dataPos = Offset(T, trackPos)
    <3>1. user = "samples" /\ call.pc = "idle" /\ answer # Failed
      BY <2>2 DEF Ready, Idle
    <3> QED
      BY <3>1 DEF IInv, Agreed, OnSample, Place
  <2> QED
    BY <2>1, <2>2 DEF PositionsAgree
<1> QED
  BY <1>1, ReaderInvariant, PTL

\* No assertion of the readers fails while samples of a disc are read: the piece
\* and the track that a call goes on to exist (Track.cc:1735, Toc.cc:1409).
THEOREM SamplesNeverAbort == Spec => [](user = "samples" => ~aborted)
<1>1. IInv => (user = "samples" => ~aborted)
  BY DEF IInv, NoAbort
<1> QED
  BY <1>1, ReaderInvariant, PTL
=============================================================================
