----------------------------- MODULE RecordProofs -----------------------------
(***************************************************************************)
(* Proofs about how cdrecord writes a CD, for every set of jobs with any   *)
(* number of tracks of any size, and every size of a transfer.             *)
(***************************************************************************)
EXTENDS Record, SequenceTheorems, WellFoundedInduction, TLAPS

----------------------------------------------------------------------------
(* The inductive invariant                                                 *)

\* From the first track to the last.
InTrack == {"pregap", "addr", "data", "write", "tail", "pad", "close"}
AtWork == {"open"} \cup InTrack
Closing == {"leadout", "fixate", "exit"}
Leaving == {"flush", "restore", "ended"}
PCs == {"setup", "init", "speed", "session", "leadin"} \cup AtWork \cup Closing \cup Leaving

Types ==
    /\ TypeOK /\ pc \in PCs
    /\ out \in [1 .. N -> Seq(Int)] /\ pos \in Int
    /\ {islast, retried, gap, last, scrambled, misplaced, lossy, cached, refused} \subseteq BOOLEAN

\* Where the program is tells how far it came and how it fared.
Flow ==
    /\ pc \in AtWork => track \in 1 .. N
    /\ errs > 0 => pc \in Closing \cup Leaving
    /\ errs = 2 => pc \in {"exit"} \cup Leaving
    /\ pc \notin Leaving => status = "running"
    /\ (pc \in Closing /\ errs = 0) \/ status = "ok" =>
          track = N + 1 /\ (Whole \/ ~cached)
    /\ pc \in {"setup", "init", "speed", "session", "leadin"} =>
          \A i \in 1 .. N : out[i] = <<>>
    /\ pc = "pregap" => Whole
    /\ pc = "addr" => ~Whole

\* The write parameter page of the drive, as far as it is set.
Page ==
    /\ pc \in {"session", "leadin"} \cup AtWork => page.test = job.dummy
    /\ pc \in {"leadin"} \cup AtWork => page.multi = job.multi
    /\ pc \in {"leadin"} \cup AtWork /\ Whole => page.type = job.mode /\ page.db = "raw"
    /\ pc \in InTrack /\ ~Whole =>
          page.type = job.mode /\ page.db = IF T.audio THEN "audio" ELSE "data"

\* What of n units that were read is of the track t.
Cap(t, n) == IF t.its >= 0 THEN Smaller(t.its, n) ELSE n

\* There is nothing more to read.
Through == bytes_read = T.size \/ (T.its >= 0 /\ bytes_read >= T.its)

\* The counters of the loops: whole sectors are written and padded, and of the
\* input there is no more read than there is.
Counters ==
    /\ bytespt % 2 = 0 /\ bytes % 2 = 0 /\ amt % 2 = 0
    /\ pc \in InTrack => from <= bytes_read /\ bytes_read <= T.size
    /\ pc \in {"pregap", "addr", "data"} =>
          /\ T.its = 0 => bytes_read = 0 /\ bytes = 0
          /\ T.its > 0 => bytes_read < T.its
    /\ pc \in {"pregap", "addr"} => bytes_read = 0 /\ bytes = 0
    /\ pc \in {"pregap", "addr", "data", "write"} => bytespt = 2 * Secspt \/ Through
    /\ pc \in {"pregap", "addr"} => bytespt = 2 * Secspt
    /\ pc \in {"pregap", "pad"} => amt > 0
    /\ pc = "write" =>
          /\ T.its > 0 => bytes_read <= T.its
          /\ T.its = 0 => from = 0 /\ bytes_read <= 2 * Secspt
    /\ pc = "tail" => Through
    /\ pc \in InTrack \ {"pad", "close"} => padsecs = Padded(T)

\* The track begins with the sectors of the input up to the n-th unit.
Begins(s, n) == Len(s) >= Secs(n) /\ \A k \in 1 .. Secs(n) : s[k] = k
Complete(i) == Begins(out[i], Cap(Tracks[i], Tracks[i].size))

\* As long as no write was short: what was written of the track, and what the
\* buffer holds.
Content ==
    /\ pc \in AtWork => \A i \in 1 .. N : i > track \/ (i = track /\ pc = "open") => out[i] = <<>>
    /\ pc \in InTrack => Len(out[track]) = bytes \div 2 + IF pc \in {"pad", "close"} THEN padsecs - amt \div 2 ELSE 0
    /\ pc \in {"pregap", "addr", "data", "write"} =>
          \/ /\ bytes = (IF pc = "write" THEN from ELSE bytes_read)
             /\ Begins(out[track], bytes)
          \/ pc = "data" /\ Through /\ Complete(track)
    /\ pc = "write" =>
          LET data == Cap(T, bytes_read) - from
          IN  /\ bytespt >= 2 * Secs(data)
              /\ data = bytespt \/ Through
              /\ job.mode # "fixed" => bytespt = 2 * Secs(data)
    /\ pc \in {"tail", "pad", "close"} => Complete(track)
    /\ pc = "close" => amt = 0
    /\ \A i \in 1 .. track - 1 : Complete(i)

\* What was said to be the last write of the track was it.
LastSaid ==
    /\ pc \in {"pregap", "addr"} => ~islast
    /\ pc \in {"pregap", "addr", "write", "pad"} => ~last
    /\ pc = "data" => (~last /\ ~islast) \/ bytes_read = T.size
    /\ pc = "write" /\ islast =>
          Through /\ padsecs = 0 /\ (T.short \/ bytes_read \div 2 >= Min)
    /\ pc \in {"data", "tail"} /\ last => padsecs = 0 /\ (T.short \/ bytes \div 2 >= Min)

\* Padding is what was missing.
Padding ==
    pc \in {"pad", "close"} /\ (~T.short \/ Packets) => padsecs + bytes \div 2 >= Min

\* Where the tracks are, in SAO and RAW mode, and where the loop is in them.
Starts ==
    /\ \A i \in 1 .. N - 1 :
          trackstart[i + 1] = trackstart[i] + Current(Tracks[i]) + Gap(Tracks[i + 1])
    /\ job.mode = "raw" \/ pc \in {"setup", "init", "speed", "session", "leadin"} => trackstart = Plan
Address ==
    /\ pc \in {"data", "write"} => startsec = trackstart[track] + bytes \div 2
    /\ ~misplaced

\* Where the next write goes and the last one ended.
Joined ==
    /\ ~gap
    /\ pc = "open" => pos \in {None, trackstart[track] - Gap(T)}
    /\ pc \in {"pregap", "data", "write", "tail", "pad"} => pos \in {None, startsec}
    /\ pc = "pregap" => startsec + amt \div 2 = trackstart[track]
    /\ pc = "tail" => startsec = trackstart[track] + Secs(T.its) /\ bytes = 2 * Secs(T.its)
    /\ pc = "pad" => startsec + amt \div 2 = trackstart[track] + Current(T)
    /\ pc = "close" => pos \in {None, trackstart[track] + Current(T)}
    /\ pc \in Closing /\ errs = 0 => pos \in {None, trackstart[N] + Current(Tracks[N])}

\* Only in RAW mode something else is written than numbers of the input and zeros.
NoScrambled == job.mode # "raw" => \A i \in 1 .. N : \A k \in DOMAIN out[i] : out[i][k] >= 0

IndInv ==
    /\ Types /\ Flow /\ Page /\ Counters
    /\ SectorSizeRestored /\ NoScrambled
    /\ ~lossy => Content /\ Padding
    /\ ~lossy /\ ~Packets => LastSaid
    /\ ~Whole => ~misplaced
    /\ Whole => Starts
    /\ Whole /\ ~lossy => Address
    /\ Whole /\ ~lossy /\ ~ShortInput => Joined

----------------------------------------------------------------------------
(* Numbers                                                                 *)

\* Half sectors and sectors.
LEMMA Halves ==
    ASSUME NEW x \in Nat, x % 2 = 0
    PROVE  x \div 2 \in Nat /\ x = 2 * (x \div 2) /\ Secs(x) = x \div 2
BY DEF Secs

LEMMA HalfOf ==
    ASSUME NEW x \in Nat, NEW y \in Nat, x >= 2 * y
    PROVE  x \div 2 >= y
OBVIOUS

LEMMA SecsType ==
    ASSUME NEW x \in Nat
    PROVE  Secs(x) \in Nat /\ 2 * Secs(x) >= x /\ 2 * Secs(x) <= x + 1 /\ (2 * Secs(x)) % 2 = 0
BY DEF Secs

LEMMA SecsSum ==
    ASSUME NEW x \in Nat, NEW y \in Nat, x % 2 = 0
    PROVE  Secs(x + y) = x \div 2 + Secs(y)
BY DEF Secs

LEMMA SecsMonotone ==
    ASSUME NEW x \in Nat, NEW y \in Nat, x <= y
    PROVE  Secs(x) <= Secs(y)
BY DEF Secs

\* Every set of natural numbers that holds 0 and the successor of each of its
\* members holds all.
LEMMA Inductive ==
    ASSUME NEW S, 0 \in S, \A n \in Nat : n \in S => n + 1 \in S
    PROVE  \A n \in Nat : n \in S
<1> SUFFICES ASSUME NEW n \in Nat, n \notin S PROVE FALSE
  OBVIOUS
<1> DEFINE R == {ss \in Nat \X Nat : ss[1] < ss[2]}
           B == {x \in Nat : x \notin S}
<1>1. IsWellFoundedOn(R, Nat)
  BY NatLessThanWellFounded DEF OpToRel
<1>2. \A x, y \in Nat : x < y => <<x, y>> \in R
  OBVIOUS
<1>3. B # {} /\ B \subseteq Nat
  OBVIOUS
<1>4. PICK m \in B : \A x \in B : ~(<<x, m>> \in R)
  <2> HIDE DEF B, R
  <2> QED
    BY <1>1, <1>3, WFMin
<1>5. m \in Nat /\ m \notin S
  OBVIOUS
<1>6. m # 0 /\ m - 1 \in Nat /\ m - 1 < m
  BY <1>5
<1>7. m - 1 \in S
  BY <1>2, <1>4, <1>5, <1>6
<1>8. (m - 1) + 1 \in S
  BY <1>6, <1>7
<1> QED
  BY <1>5, <1>8

----------------------------------------------------------------------------
(* Jobs                                                                    *)

LEMMA Sizes == /\ Min \in Nat \ {0} /\ Secspt \in Nat \ {0} /\ Pregap \in Nat \ {0}
               /\ Secspt < Min /\ MaxBusy \in Nat /\ MaxIntr \in Nat
BY SizeAssumption

LEMMA JobTypes ==
    ASSUME job \in Jobs
    PROVE  /\ N \in Nat \ {0} /\ job.mode \in Modes /\ job.secsize \in {0, 512, 2048}
           /\ {job.dummy, job.multi, job.nofix, job.fifo} \subseteq BOOLEAN
           /\ \A i \in 1 .. N : Tracks[i] \in Track /\ (Whole => Tracks[i].its >= 0)
<1>1. /\ job \in Job /\ job.tracks # <<>>
      /\ job.mode \in {"sao", "raw"} => \A i \in DOMAIN job.tracks : job.tracks[i].its >= 0
  <2>1. job \in Job /\ job.tracks # <<>>
    BY JobAssumption
  <2>2. ASSUME job.mode \in {"sao", "raw"}, NEW i \in DOMAIN job.tracks
        PROVE  job.tracks[i].its >= 0
    BY <2>2, JobAssumption
  <2> QED
    BY <2>1, <2>2
<1>2. job.tracks \in Seq(Track)
  BY <1>1 DEF Job
<1>3. /\ Len(job.tracks) \in Nat /\ Len(job.tracks) # 0
      /\ DOMAIN job.tracks = 1 .. Len(job.tracks)
      /\ \A i \in 1 .. Len(job.tracks) : job.tracks[i] \in Track
  <2> HIDE DEF Track
  <2> QED
    BY <1>1, <1>2, LenProperties, EmptySeq, ElementOfSeq
<1> QED
  BY <1>1, <1>3 DEF Job, N, Tracks, Whole

LEMMA TrackTypes ==
    ASSUME NEW t \in Track
    PROVE  /\ t.its \in Int /\ t.its >= -1 /\ t.size \in Nat /\ t.pad \in Nat /\ t.pregap \in Nat
           /\ t.inpre \in BOOLEAN /\ t.short \in BOOLEAN /\ t.audio \in BOOLEAN
BY DEF Track

\* What checktsize() computes.
LEMMA PlanTypes ==
    ASSUME NEW t \in Track
    PROVE  Padded(t) \in Nat /\ Gap(t) \in Nat /\ Current(t) \in Nat
<1>1. /\ t.its \in Int /\ t.size \in Nat /\ t.pad \in Nat /\ t.pregap \in Nat
  BY TrackTypes
<1>2. t.its >= 0 => Secs(t.its) \in Nat
  <2>1. t.its >= 0 => t.its \in Nat
    BY <1>1
  <2> QED
    BY <2>1, SecsType
<1>3. Min \in Nat
  BY Sizes
<1>4. Padded(t) \in Nat
  <2> DEFINE s == Secs(t.its)
  <2>1. CASE /\ ~t.short /\ t.its > 0 /\ t.its \div 2 < Min /\ t.pad + s < Min
    <3>1. s \in Nat
      BY <1>1, <1>2, <2>1
    <3>2. Padded(t) = Min - s
      BY <2>1 DEF Padded
    <3> HIDE DEF s
    <3>3. t.pad + s < Min
      BY <2>1 DEF s
    <3> QED
      BY <1>1, <1>3, <3>1, <3>2, <3>3
  <2>2. CASE ~(/\ ~t.short /\ t.its > 0 /\ t.its \div 2 < Min /\ t.pad + s < Min)
    BY <1>1, <2>2 DEF Padded
  <2> QED
    BY <2>1, <2>2
<1>5. Gap(t) \in Nat
  BY <1>1 DEF Gap
<1>6. Current(t) \in Nat
  <2>1. RunOut(t) \in Nat
    BY DEF RunOut
  <2>2. \A n \in Nat : Longer(t, n) \in Nat
    BY <1>3 DEF Longer
  <2>3. t.its >= 0 => Secs(t.its) + Padded(t) \in Nat
    BY <1>2, <1>4
  <2> HIDE DEF RunOut
  <2> QED
    BY <1>1, <2>1, <2>2, <2>3 DEF Current
<1> QED
  BY <1>4, <1>5, <1>6

\* The plan is what its equations say.
LEMMA PlanIs ==
    ASSUME job \in Jobs
    PROVE  /\ Plan \in [1 .. N + 1 -> Int]
           /\ Plan[1] = Gap(Tracks[1]) - Pregap
           /\ \A i \in 1 .. N - 1 :
                 Plan[i + 1] = Plan[i] + Current(Tracks[i]) + Gap(Tracks[i + 1])
           /\ Plan[N + 1] = Plan[N] + Current(Tracks[N])
<1>1. N \in Nat \ {0} /\ \A i \in 1 .. N : Tracks[i] \in Track
  BY JobTypes
<1> DEFINE First == Gap(Tracks[1]) - Pregap
           Add(i) == Current(Tracks[i - 1]) + IF i <= N THEN Gap(Tracks[i]) ELSE 0
           Obeys(f, m) == \A i \in 1 .. m : f[i] = IF i = 1 THEN First ELSE f[i - 1] + Add(i)
           S == {m \in Nat : m <= N + 1 => \E f \in [1 .. m -> Int] : Obeys(f, m)}
<1>2. First \in Int
  BY <1>1, PlanTypes, Sizes
<1>3. \A i \in 2 .. N + 1 : Add(i) \in Int
  <2> SUFFICES ASSUME NEW i \in 2 .. N + 1 PROVE Add(i) \in Int
    OBVIOUS
  <2>1. i - 1 \in 1 .. N /\ (i <= N => i \in 1 .. N)
    BY <1>1
  <2>2. Current(Tracks[i - 1]) \in Nat /\ (i <= N => Gap(Tracks[i]) \in Nat)
    BY <1>1, <2>1, PlanTypes
  <2> QED
    BY <2>2
<1> HIDE DEF First, Add
<1>4. 0 \in S
  <2>1. [i \in 1 .. 0 |-> 0] \in [1 .. 0 -> Int] /\ Obeys([i \in 1 .. 0 |-> 0], 0)
    OBVIOUS
  <2> QED
    BY <2>1
<1>5. \A m \in Nat : m \in S => m + 1 \in S
  <2> SUFFICES ASSUME NEW m \in Nat, m \in S PROVE m + 1 \in S
    OBVIOUS
  <2>a. m + 1 \in Nat /\ (m + 1 <= N + 1 => m <= N + 1)
    BY <1>1
  <2> SUFFICES ASSUME m + 1 <= N + 1
               PROVE  \E f \in [1 .. m + 1 -> Int] : Obeys(f, m + 1)
    <3> HIDE DEF Obeys
    <3> QED
      BY <2>a
  <2>1. PICK f \in [1 .. m -> Int] : Obeys(f, m)
    <3> HIDE DEF Obeys
    <3> QED
      BY <2>a
  <2> DEFINE e == IF m = 0 THEN First ELSE f[m] + Add(m + 1)
             g == [i \in 1 .. m + 1 |-> IF i = m + 1 THEN e ELSE f[i]]
  <2>2. e \in Int
    <3>1. CASE m = 0
      BY <1>2, <3>1
    <3>2. CASE m # 0
      <4>1. m + 1 \in 2 .. N + 1 /\ m \in 1 .. m
        BY <1>1, <3>2
      <4>2. f[m] \in Int /\ Add(m + 1) \in Int
        BY <1>3, <2>1, <4>1
      <4> QED
        BY <3>2, <4>2
    <3> QED
      BY <3>1, <3>2
  <2>3. g \in [1 .. m + 1 -> Int]
    <3> HIDE DEF e
    <3> QED
      BY <2>2
  <2>4. Obeys(g, m + 1)
    <3> SUFFICES ASSUME NEW i \in 1 .. m + 1
                 PROVE  g[i] = IF i = 1 THEN First ELSE g[i - 1] + Add(i)
      OBVIOUS
    <3>1. CASE i = m + 1
      <4>1. g[i] = e
        BY <3>1
      <4>2. i # 1 => i - 1 = m /\ g[i - 1] = f[m] /\ m # 0
        BY <3>1
      <4> QED
        BY <3>1, <4>1, <4>2
    <3>2. CASE i # m + 1
      <4>1. i \in 1 .. m /\ g[i] = f[i]
        BY <3>2
      <4>2. i # 1 => i - 1 \in 1 .. m /\ g[i - 1] = f[i - 1]
        BY <4>1
      <4> QED
        BY <2>1, <4>1, <4>2
    <3> QED
      BY <3>1, <3>2
  <2> QED
    BY <2>3, <2>4
<1>6. N + 1 \in S
  <2>1. N + 1 \in Nat
    BY <1>1
  <2> HIDE DEF S
  <2> QED
    BY <1>4, <1>5, <2>1, Inductive
<1>7. PICK f \in [1 .. N + 1 -> Int] : Obeys(f, N + 1)
  BY <1>1, <1>6
<1> DEFINE Def(h) == [i \in 1 .. N + 1 |->
                         IF i = 1 THEN First
                         ELSE h[i - 1] + Current(Tracks[i - 1])
                              + IF i <= N THEN Gap(Tracks[i]) ELSE 0]
<1>8. f = Def(f)
  <2>1. \A i \in 1 .. N + 1 : f[i] = Def(f)[i]
    <3> SUFFICES ASSUME NEW i \in 1 .. N + 1 PROVE f[i] = Def(f)[i]
      OBVIOUS
    <3>1. CASE i = 1
      BY <1>7, <3>1
    <3>2. CASE i # 1
      <4>1. i \in 2 .. N + 1 /\ i - 1 \in 1 .. N /\ i - 1 \in 1 .. N + 1 /\ (i <= N => i \in 1 .. N)
        BY <1>1, <3>2
      <4>2. /\ f[i - 1] \in Int /\ Current(Tracks[i - 1]) \in Int
            /\ (i <= N => Gap(Tracks[i]) \in Int)
        BY <1>1, <1>7, <4>1, PlanTypes, SMTT(20)
      <4>3. f[i] = f[i - 1] + Add(i)
        BY <1>7, <3>2
      <4> QED
        BY <3>2, <4>2, <4>3 DEF Add
    <3> QED
      BY <3>1, <3>2
  <2> QED
    BY <2>1
<1>9. Plan = CHOOSE h : h = Def(h)
  BY Zenon DEF Plan, First
<1>10. Plan = Def(Plan)
  BY <1>8, <1>9
<1> DEFINE P == Plan
<1>11. /\ P \in [1 .. N + 1 -> Int]
       /\ \A i \in 1 .. N + 1 :
            P[i] = IF i = 1 THEN First
                   ELSE P[i - 1] + Current(Tracks[i - 1])
                        + IF i <= N THEN Gap(Tracks[i]) ELSE 0
  <2>1. \A i \in 1 .. N + 1 : Plan[i] = IF i = 1 THEN First
                                      ELSE Plan[i - 1] + Current(Tracks[i - 1])
                                           + IF i <= N THEN Gap(Tracks[i]) ELSE 0
    BY <1>10
  <2> DEFINE Same == {m \in Nat : m \in 1 .. N + 1 => Plan[m] = f[m]}
  <2>2. \A m \in Nat : m \in Same => m + 1 \in Same
    <3> SUFFICES ASSUME NEW m \in Nat, m \in Same, m + 1 \in 1 .. N + 1
                 PROVE  Plan[m + 1] = f[m + 1]
      OBVIOUS
    <3>0. (m + 1) - 1 = m /\ (m # 0 => m + 1 # 1 /\ m \in 1 .. N + 1 /\ Plan[m] = f[m])
      BY <1>1
    <3>1. f[m + 1] = IF m + 1 = 1 THEN First ELSE f[(m + 1) - 1] + Current(Tracks[(m + 1) - 1])
                                           + IF m + 1 <= N THEN Gap(Tracks[m + 1]) ELSE 0
      BY <1>8
    <3>2. Plan[m + 1] = IF m + 1 = 1 THEN First ELSE Plan[(m + 1) - 1] + Current(Tracks[(m + 1) - 1])
                                           + IF m + 1 <= N THEN Gap(Tracks[m + 1]) ELSE 0
      BY <2>1
    <3>3. CASE m = 0
      BY <3>1, <3>2, <3>3
    <3>4. CASE m # 0
      BY <3>0, <3>1, <3>2, <3>4
    <3> QED
      BY <3>3, <3>4
  <2>3. \A m \in Nat : m \in Same
    <3>1. 0 \in Same
      OBVIOUS
    <3> HIDE DEF Same
    <3> QED
      BY <2>2, <3>1, Inductive
  <2>4. \A i \in 1 .. N + 1 : Plan[i] = f[i]
    BY <2>3
  <2>5. Plan = [i \in 1 .. N + 1 |-> Plan[i]]
    BY <1>10
  <2>6. Plan \in [1 .. N + 1 -> Int]
    BY <1>7, <2>4, <2>5
  <2> QED
    BY <2>1, <2>6
<1> HIDE DEF P
<1>12. P[1] = First
  BY <1>1, <1>11
<1>13. \A i \in 1 .. N - 1 :
          P[i + 1] = P[i] + Current(Tracks[i]) + Gap(Tracks[i + 1])
  <2> SUFFICES ASSUME NEW i \in 1 .. N - 1
               PROVE  P[i + 1] = P[i] + Current(Tracks[i]) + Gap(Tracks[i + 1])
    OBVIOUS
  <2>1. i + 1 \in 1 .. N + 1 /\ i + 1 # 1 /\ i + 1 <= N /\ (i + 1) - 1 = i
    BY <1>1
  <2>2. P[i + 1] = P[(i + 1) - 1] + Current(Tracks[(i + 1) - 1])
                   + IF i + 1 <= N THEN Gap(Tracks[i + 1]) ELSE 0
    BY <1>11, <2>1
  <2> QED
    BY <2>1, <2>2
<1>14. P[N + 1] = P[N] + Current(Tracks[N])
  <2>1. N + 1 \in 1 .. N + 1 /\ N + 1 # 1 /\ ~(N + 1 <= N) /\ (N + 1) - 1 = N /\ N \in 1 .. N
    BY <1>1
  <2>2. P[N + 1] = P[(N + 1) - 1] + Current(Tracks[(N + 1) - 1]) + 0
    BY <1>11, <2>1
  <2>3. P[N] \in Int /\ Current(Tracks[N]) \in Int
    BY <1>1, <1>11, <2>1, PlanTypes
  <2> QED
    BY <2>1, <2>2, <2>3
<1> QED
  BY <1>11, <1>12, <1>13, <1>14 DEF P, First

----------------------------------------------------------------------------
(* Types and counters                                                      *)

\* What every variable is, one by one.
LEMMA TypesAre ==
    ASSUME Types
    PROVE  /\ job \in Jobs /\ pc \in PCs /\ track \in 0 .. N + 1
           /\ trackstart \in [1 .. N + 1 -> Int] /\ startsec \in Int /\ pos \in Int
           /\ bytes_read \in Nat /\ from \in Nat /\ bytes \in Nat /\ padsecs \in Nat /\ amt \in Nat
           /\ bytespt \in Nat /\ bytespt <= 2 * Secspt
           /\ out \in [1 .. N -> Seq(Int)]
           /\ errs \in 0 .. 2
BY Sizes DEF Types, TypeOK

\* What GetBuf makes of the input: of what is read no more is kept than the
\* buffer holds, and no more than is of the track.
LEMMA ReadTypes ==
    ASSUME Types, Flow, Counters, pc = "data", Read > 0
    PROVE  /\ Read \in Nat \ {0} /\ Read <= bytespt
           /\ bytes_read + Read <= T.size
           /\ T.its > 0 => bytes_read + Read <= T.its
           /\ T.its # 0 /\ Read < bytespt =>
                 bytes_read + Read = T.size \/ (T.its >= 0 /\ bytes_read + Read = T.its)
<1>1. track \in 1 .. N /\ job \in Jobs
  BY TypesAre DEF Flow, AtWork, InTrack
<1>2. T \in Track
  BY <1>1, JobTypes DEF T
<1>3. T.its \in Int /\ T.its >= -1 /\ T.size \in Nat
  BY <1>2, TrackTypes
<1>4. bytes_read \in Nat /\ bytespt \in Nat
  BY TypesAre
<1>5. bytes_read <= T.size /\ (T.its > 0 => bytes_read < T.its)
  BY DEF Counters, InTrack
<1>6. Wanted \in Nat /\ Wanted <= bytespt /\ (T.its > 0 => Wanted <= T.its - bytes_read)
      /\ (Wanted = bytespt \/ (T.its > 0 /\ Wanted = T.its - bytes_read))
  BY <1>3, <1>4, <1>5 DEF Wanted, Smaller
<1> DEFINE w == Wanted
           r == Read
<1>7. r = Smaller(w, T.size - bytes_read) /\ r > 0
  BY DEF Read
<1>8. w \in Nat /\ w <= bytespt /\ (T.its > 0 => w <= T.its - bytes_read)
      /\ (w = bytespt \/ (T.its > 0 /\ w = T.its - bytes_read))
  BY <1>6
<1> HIDE DEF w, r
<1>9. /\ r \in Nat \ {0} /\ r <= bytespt /\ bytes_read + r <= T.size
      /\ T.its > 0 => bytes_read + r <= T.its
      /\ T.its # 0 /\ r < bytespt =>
            bytes_read + r = T.size \/ (T.its >= 0 /\ bytes_read + r = T.its)
  BY <1>3, <1>4, <1>5, <1>7, <1>8 DEF Smaller
<1> QED
  BY <1>9 DEF r

\* The read of GetBuf.
Got == /\ Read > 0 /\ bytes_read' = bytes_read + Read
       /\ islast' = (islast \/ ((AtEnd \/ Data < bytespt) /\ MaybeLast))
       /\ bytespt' = IF Data < bytespt THEN Rounded(Data) ELSE bytespt
       /\ from' = bytes_read

\* What is left of it for the track.
LEMMA DataIs ==
    ASSUME Types, Flow, Counters, pc = "data", Got, UNCHANGED <<job, track>>
    PROVE  /\ Data \in Nat /\ Data <= bytespt /\ Data = Cap(T, bytes_read') - bytes_read
           /\ T.its # 0 => Data = Read
           /\ T.its = 0 => Data = 0
           /\ bytespt' \in Nat /\ bytespt' <= bytespt /\ bytespt' % 2 = 0
           /\ bytespt' >= 2 * Secs(Data)
           /\ job.mode # "fixed" => bytespt' = 2 * Secs(Data)
           /\ Data < bytespt => job.mode = "fixed" \/ bytespt' = 2 * Secs(Data)
           /\ Data = bytespt => bytespt' = bytespt
<1>1. track \in 1 .. N /\ job \in Jobs
  BY TypesAre DEF Flow, AtWork, InTrack
<1>2. T \in Track
  BY <1>1, JobTypes DEF T
<1>3. T.its \in Int /\ T.its >= -1 /\ T.size \in Nat
  BY <1>2, TrackTypes
<1>4. bytes_read \in Nat /\ bytespt \in Nat /\ bytespt % 2 = 0
  BY TypesAre DEF Counters
<1>5. (T.its > 0 => bytes_read < T.its) /\ (T.its = 0 => bytes_read = 0)
  BY DEF Counters
<1> DEFINE r == Read
           d == Data
<1>6. /\ r \in Nat \ {0} /\ r <= bytespt
      /\ T.its > 0 => bytes_read + r <= T.its
      /\ bytes_read' = bytes_read + r
  BY ReadTypes DEF Got
<1>7. d = IF T.its >= 0 /\ bytes_read' >= T.its THEN r - (bytes_read' - T.its) ELSE r
  BY DEF Data, AtEnd
<1>8. bytespt' = IF d < bytespt THEN Rounded(d) ELSE bytespt
  BY DEF Got
<1> HIDE DEF r, d
<1>9. /\ d \in Nat /\ d <= bytespt /\ d = Cap(T, bytes_read') - bytes_read
      /\ T.its # 0 => d = r
      /\ T.its = 0 => d = 0
  BY <1>3, <1>4, <1>5, <1>6, <1>7 DEF Cap, Smaller
<1>10. 2 * Secs(d) \in Nat /\ (2 * Secs(d)) % 2 = 0 /\ 2 * Secs(d) >= d /\ 2 * Secs(d) <= d + 1
  <2>1. d \in Nat
    BY <1>9
  <2> QED
    BY <2>1, SecsType
<1>11. 2 * Secs(d) <= bytespt
  BY <1>4, <1>9, <1>10
<1>12. Rounded(d) = IF job.mode = "fixed" THEN bytespt ELSE 2 * Secs(d)
  BY DEF Rounded
<1>13. d = bytespt => 2 * Secs(d) = bytespt
  BY <1>4, Halves
<1>14. /\ bytespt' \in Nat /\ bytespt' <= bytespt /\ bytespt' % 2 = 0
       /\ bytespt' >= 2 * Secs(d)
       /\ job.mode # "fixed" => bytespt' = 2 * Secs(d)
       /\ d < bytespt => job.mode = "fixed" \/ bytespt' = 2 * Secs(d)
       /\ d = bytespt => bytespt' = bytespt
  <2>1. CASE d < bytespt /\ job.mode = "fixed"
    <3>1. bytespt' = bytespt
      BY <1>8, <1>12, <2>1
    <3> QED
      BY <1>4, <1>9, <1>11, <2>1, <3>1
  <2>2. CASE d < bytespt /\ job.mode # "fixed"
    <3>1. bytespt' = 2 * Secs(d)
      BY <1>8, <1>12, <2>2
    <3> QED
      BY <1>4, <1>9, <1>10, <1>11, <2>2, <3>1
  <2>3. CASE ~(d < bytespt)
    <3>1. bytespt' = bytespt /\ d = bytespt
      BY <1>4, <1>8, <1>9, <2>3
    <3> QED
      BY <1>4, <1>9, <1>11, <1>13, <2>3, <3>1
  <2> QED
    BY <2>1, <2>2, <2>3
<1> QED
  BY <1>9, <1>14 DEF d, r

LEMMA InitTypes == Init => Types
<1> SUFFICES ASSUME Init PROVE Types
  OBVIOUS
<1>1. job \in Jobs
  BY DEF Init
<1>2. /\ N \in Nat \ {0} /\ job.dummy \in BOOLEAN /\ job.secsize \in {0, 512, 2048}
  BY <1>1, JobTypes
<1>3. Plan \in [1 .. N + 1 -> Int]
  BY <1>1, PlanIs
<1>4. MaxBusy \in Nat /\ MaxIntr \in Nat /\ Secspt \in Nat
  BY Sizes
<1>5. page \in [test : BOOLEAN, type : Modes, db : {"data", "audio", "raw"}, multi : BOOLEAN]
  BY DEF Init, Modes
<1>6. /\ pc = "setup" /\ secsize = job.secsize /\ refused = FALSE /\ track = 0 /\ trackstart = Plan
      /\ startsec = 0 /\ bytes_read = 0 /\ from = 0 /\ bytes = 0 /\ bytespt = 0
      /\ islast = FALSE /\ padsecs = 0 /\ amt = 0 /\ retried = FALSE /\ busy = 0
      /\ errs = 0 /\ status = "running" /\ intrs = 0
      /\ out = [i \in 1 .. N |-> <<>>] /\ pos = None /\ gap = FALSE
      /\ last = FALSE /\ scrambled = FALSE /\ misplaced = FALSE /\ lossy = FALSE /\ cached = FALSE
  BY DEF Init
<1>7. TypeOK
  BY <1>1, <1>2, <1>3, <1>4, <1>5, <1>6 DEF TypeOK
<1>8. out \in [1 .. N -> Seq(Int)]
  <2>1. <<>> \in Seq(Int)
    BY EmptySeq
  <2> QED
    BY <1>6, <2>1
<1>9. pos \in Int
  BY <1>6 DEF None
<1>10. {islast, retried, gap, last, scrambled, misplaced, lossy, cached, refused} \subseteq BOOLEAN
  BY <1>6
<1>11. pc \in PCs
  BY <1>6 DEF PCs
<1> QED
  BY <1>7, <1>8, <1>9, <1>10, <1>11 DEF Types

\* A write of the first n sectors of a buffer.
LEMMA BurnTypes ==
    ASSUME Types, track \in 1 .. N, UNCHANGED job, NEW s \in Int, NEW n \in Nat,
           NEW buffer \in Seq(Int), n <= Len(buffer), islast' \in BOOLEAN, Burn(s, buffer, n)
    PROVE  /\ out' \in [1 .. N -> Seq(Int)] /\ pos' \in Int
           /\ {gap', last', lossy', cached'} \subseteq BOOLEAN
<1>1. SubSeq(buffer, 1, n) \in Seq(Int)
  <2>1. \A i \in 1 .. n : i \in 1 .. Len(buffer)
    OBVIOUS
  <2> QED
    BY <2>1, SubSeqProperties
<1>2. out[track] \in Seq(Int)
  BY TypesAre
<1>3. out[track] \o SubSeq(buffer, 1, n) \in Seq(Int)
  BY <1>1, <1>2, ConcatProperties
<1>4. out' \in [1 .. N -> Seq(Int)]
  BY <1>3, TypesAre DEF Burn
<1>5. pos' \in Int
  BY DEF Burn
<1>6. {gap, last, lossy, cached} \subseteq BOOLEAN
  BY DEF Types
<1>7. {gap', last', lossy', cached'} \subseteq BOOLEAN
  BY <1>6 DEF Burn
<1> QED
  BY <1>4, <1>5, <1>7

\* The buffers of the loops.
LEMMA ChunkIs ==
    ASSUME Types, Flow, Counters, pc = "write"
    PROVE  /\ Chunk \in Seq(Int) /\ Len(Chunk) = bytespt \div 2 /\ Len(Chunk) \in Nat
           /\ \A k \in 1 .. Len(Chunk) :
                 Chunk[k] = IF from \div 2 + k <= Secs(Cap(T, bytes_read)) THEN from \div 2 + k ELSE 0
<1> DEFINE h == bytespt \div 2
           end == Secs(IF T.its >= 0 THEN Smaller(T.its, bytes_read) ELSE bytes_read)
           c == [k \in 1 .. h |-> IF from \div 2 + k <= end THEN from \div 2 + k ELSE 0]
<1>1. bytespt \in Nat /\ from \in Nat /\ bytespt % 2 = 0
  BY TypesAre DEF Counters
<1>2. h \in Nat /\ from \div 2 \in Nat
  BY <1>1
<1>3. Chunk = c
  BY DEF Chunk
<1>4. end = Secs(Cap(T, bytes_read))
  BY DEF Cap
<1> HIDE DEF end, h
<1>5. c \in [1 .. h -> Int]
  BY <1>2
<1>6. \A k \in 1 .. h : c[k] = IF from \div 2 + k <= end THEN from \div 2 + k ELSE 0
  OBVIOUS
<1> HIDE DEF c
<1>7. c \in Seq(Int) /\ Len(c) = h
  BY <1>2, <1>5, SeqDef
<1> QED
  BY <1>2, <1>3, <1>4, <1>6, <1>7 DEF h

LEMMA ZerosAre ==
    ASSUME NEW n \in Nat
    PROVE  /\ Zeros(n) \in Seq(Int) /\ Len(Zeros(n)) = n
           /\ job.mode # "raw" => \A k \in 1 .. n : Zeros(n)[k] = 0
<1> DEFINE z == Zeros(n)
<1>1. z \in [1 .. n -> Int] /\ (job.mode # "raw" => \A k \in 1 .. n : z[k] = 0)
  BY DEF Zeros
<1> HIDE DEF z
<1>2. z \in Seq(Int) /\ Len(z) = n
  BY <1>1, SeqDef
<1> QED
  BY <1>1, <1>2 DEF z

LEMMA PadSizeIs ==
    ASSUME Types, Counters, pc \in {"pad", "pregap"}
    PROVE  PadSize \in Nat \ {0} /\ PadSize <= amt \div 2 /\ PadSize - 1 \in Nat
<1>1. amt \in Nat /\ amt > 0 /\ amt % 2 = 0 /\ Secspt \in Nat \ {0}
  BY TypesAre, Sizes DEF Counters
<1> QED
  BY <1>1 DEF PadSize, Smaller

\* The steps of main() around the tracks.
LEMMA MainTypes ==
    ASSUME IndInv, \/ Setup \/ SpeedSelect \/ open_session \/ write_leadin \/ CloseTrack
                   \/ Leadout \/ Fixate \/ Exit \/ Flush \/ Restore \/ Signal
    PROVE  Types'
<1>1. Types /\ Flow
  BY DEF IndInv
<1>2. /\ job \in Jobs /\ track \in 0 .. N + 1 /\ trackstart \in [1 .. N + 1 -> Int]
      /\ N \in Nat \ {0} /\ MaxIntr \in Nat /\ Pregap \in Nat
      /\ job.dummy \in BOOLEAN /\ job.multi \in BOOLEAN /\ job.mode \in Modes
      /\ job.secsize \in {0, 512, 2048} /\ errs \in 0 .. 2
      /\ cached \in BOOLEAN /\ intrs \in 0 .. MaxIntr
      /\ secsize \in {0, 512, 2048, 2352} /\ gap \in BOOLEAN
      /\ Tracks[1] \in Track
  BY <1>1, TypesAre, JobTypes, Sizes DEF Types, TypeOK
<1> DEFINE Pages == [test : BOOLEAN, type : Modes, db : {"data", "audio", "raw"}, multi : BOOLEAN]
<1>3. page \in Pages
  BY <1>1 DEF Types, TypeOK
<1>4. \A p \in Pages : /\ deflt_writemodes(p) \subseteq Pages
                       /\ WithTest(p) \in Pages /\ SessionPage(p) \in Pages
  <2> SUFFICES ASSUME NEW p \in Pages
               PROVE  /\ deflt_writemodes(p) \subseteq Pages
                      /\ WithTest(p) \in Pages /\ SessionPage(p) \in Pages
    OBVIOUS
  <2>1. deflt_writemodes(p) \subseteq Pages
    BY DEF deflt_writemodes, Default, Modes
  <2>2. WithTest(p) \in Pages
    BY <1>2 DEF WithTest
  <2>3. SessionPage(p) \in Pages
    <3> DEFINE ty == IF Whole THEN job.mode ELSE "tao"
               d == IF Whole THEN "raw" ELSE IF Tracks[1].audio THEN "audio" ELSE "data"
    <3>1. ty \in Modes /\ d \in {"data", "audio", "raw"}
      BY <1>2 DEF Modes
    <3>2. SessionPage(p) = [p EXCEPT !.type = ty, !.db = d, !.multi = job.multi]
      BY DEF SessionPage
    <3>3. job.multi \in BOOLEAN
      BY <1>2
    <3> HIDE DEF ty, d
    <3>4. ASSUME NEW x \in Modes, NEW y \in {"data", "audio", "raw"}, NEW z \in BOOLEAN
          PROVE  [p EXCEPT !.type = x, !.db = y, !.multi = z] \in Pages
      OBVIOUS
    <3>5. [p EXCEPT !.type = ty, !.db = d, !.multi = job.multi] \in Pages
      <4> HIDE DEF Pages
      <4> QED
        BY ONLY <3>1, <3>3, <3>4
    <3> QED
      BY ONLY <3>2, <3>5
  <2> QED
    BY <2>1, <2>2, <2>3
<1>5. UNCHANGED <<job, startsec, bytes_read, from, bytes, bytespt, islast, padsecs, amt,
                  retried, busy, out, last, scrambled, misplaced, lossy>>
  BY DEF Setup, SpeedSelect, open_session, write_leadin, CloseTrack, Leadout, Fixate, Exit,
         Flush, Restore, Signal, Begin, End, loop, media
<1>6. page' \in Pages
  <2>1. CASE Setup \/ write_leadin \/ CloseTrack \/ Leadout \/ Fixate \/ Exit \/ Flush \/ Restore
             \/ Signal
    <3>1. page' = page
      BY <2>1 DEF Setup, write_leadin, CloseTrack, Leadout, Fixate, Exit, Flush, Restore, Signal, drive
    <3> QED
      BY <1>3, <3>1
  <2>2. CASE SpeedSelect
    <3>1. PICK p \in deflt_writemodes(page) :
            page' = WithTest(p) \/ page' \in {p} \cup {WithTest(q) : q \in {x \in {p} : pc = "speed"}}
      BY <2>2 DEF SpeedSelect
    <3>2. p \in Pages
      BY <1>3, <1>4, <3>1
    <3>3. page' = WithTest(p) \/ page' = p
      BY <3>1
    <3> QED
      BY <1>4, <3>2, <3>3
  <2>3. CASE open_session
    <3>1. page' = page \/ page' = SessionPage(page)
      BY <2>3 DEF open_session
    <3> QED
      BY <1>3, <1>4, <3>1
  <2> QED
    BY <2>1, <2>2, <2>3
<1>7. trackstart' \in [1 .. N + 1 -> Int]
  <2>1. CASE write_leadin
    <3>1. trackstart' = trackstart \/ \E n \in {-Pregap, Pregap} : trackstart' = Shift(n)
      BY <2>1 DEF write_leadin
    <3>2. ASSUME NEW n \in Int PROVE Shift(n) \in [1 .. N + 1 -> Int]
      <4>1. trackstart \in [1 .. N + 1 -> Int] /\ Pregap \in Nat /\ N \in Nat
        BY <1>2
      <4>2. [i \in 1 .. N + 1 |-> IF i <= N THEN trackstart[i] + n + Pregap ELSE trackstart[i]]
               \in [1 .. N + 1 -> Int]
        <5> DEFINE f(i) == IF i <= N THEN trackstart[i] + n + Pregap ELSE trackstart[i]
        <5>1. \A i \in 1 .. N + 1 : f(i) \in Int
          BY <4>1
        <5> HIDE DEF f
        <5>2. [i \in 1 .. N + 1 |-> f(i)] \in [1 .. N + 1 -> Int]
          BY ONLY <5>1
        <5> QED
          BY ONLY <5>2 DEF f
      <4> QED
        BY <4>1, <4>2 DEF Shift
    <3> QED
      <4>1. trackstart \in [1 .. N + 1 -> Int] /\ -Pregap \in Int /\ Pregap \in Int
        BY <1>2
      <4>2. \A n \in {-Pregap, Pregap} : Shift(n) \in [1 .. N + 1 -> Int]
        BY <4>1, <3>2, Zenon
      <4> QED
        BY <4>1, <4>2, <3>1, Zenon
  <2>2. CASE ~write_leadin
    <3>1. trackstart' = trackstart
      BY <2>2 DEF Setup, SpeedSelect, open_session, CloseTrack, Leadout, Fixate, Exit, Flush,
                  Restore, Signal
    <3> QED
      BY <1>2, <3>1
  <2> QED
    BY <2>1, <2>2
<1>8. track' \in 0 .. N + 1 /\ pos' \in Int
  <2>1. pos \in Int
    BY <1>1, TypesAre
  <2>2. CASE write_leadin
    BY <1>2, <2>2 DEF write_leadin, None
  <2>3. CASE CloseTrack
    <3>1. track \in 1 .. N
      BY <1>1, <2>3 DEF CloseTrack, Flow, AtWork, InTrack
    <3> QED
      BY <1>2, <2>1, <2>3, <3>1 DEF CloseTrack
  <2>4. CASE ~write_leadin /\ ~CloseTrack
    <3>1. UNCHANGED <<track, pos>>
      BY <2>4 DEF Setup, SpeedSelect, open_session, Leadout, Fixate, Exit, Flush,
                  Restore, Signal, Begin, media
    <3> QED
      BY <1>2, <2>1, <3>1
  <2> QED
    BY <2>2, <2>3, <2>4
<1>9. secsize' \in {0, 512, 2048, 2352} /\ refused' \in BOOLEAN /\ cached' \in BOOLEAN /\ gap' \in BOOLEAN
  <2>0. refused \in BOOLEAN
    BY <1>1 DEF Types
  <2>1. CASE Setup
    BY <1>2, <2>0, <2>1 DEF Setup, Begin, media
  <2>2. CASE Restore
    <3>1. /\ secsize' = job.secsize \/ secsize' = secsize
          /\ refused' = refused \/ refused' = TRUE
          /\ cached' = cached /\ gap' = gap
      BY <2>2 DEF Restore, End, OldSize
    <3>2. secsize' \in {0, 512, 2048, 2352}
      BY <1>2, <3>1
    <3>3. refused' \in BOOLEAN
      BY <2>0, <3>1
    <3>4. cached' \in BOOLEAN /\ gap' \in BOOLEAN
      BY <1>2, <3>1
    <3> QED
      BY <3>2, <3>3, <3>4
  <2>3. CASE SpeedSelect \/ open_session \/ write_leadin \/ Exit \/ Signal
    BY <1>2, <2>0, <2>3 DEF SpeedSelect, open_session, write_leadin, Exit, Signal, Begin, End, media, drive
  <2>4. CASE CloseTrack \/ Fixate \/ Flush
    <3>1. UNCHANGED <<secsize, refused, gap>>
      BY <2>4 DEF CloseTrack, Fixate, Flush, End, drive
    <3>2. cached' \in BOOLEAN
      <4>1. cached' \in {cached, FALSE}
        <5>1. CASE Whole
          BY <2>4, <5>1 DEF CloseTrack, Fixate, Flush
        <5>2. CASE ~Whole
          BY <2>4, <5>2 DEF CloseTrack, Fixate, Flush
        <5> QED
          BY <5>1, <5>2
      <4>2. cached \in BOOLEAN
        BY <1>2
      <4> QED
        BY <4>1, <4>2
    <3>3. secsize \in {0, 512, 2048, 2352} /\ gap \in BOOLEAN
      BY <1>2
    <3> QED
      BY <2>0, <3>1, <3>2, <3>3
  <2>5. CASE Leadout
    BY <1>2, <2>0, <2>5 DEF Leadout, drive
  <2> QED
    BY <2>1, <2>2, <2>3, <2>4, <2>5
<1>10. errs' \in 0 .. 2 /\ intrs' \in 0 .. MaxIntr
  <2>1. CASE CloseTrack
    <3>1. errs = 0
      BY <1>1, <1>2, <2>1 DEF CloseTrack, Flow, Closing, Leaving
    <3> QED
      BY <1>2, <2>1, <3>1 DEF CloseTrack, GiveUp, over, End
  <2>2. CASE Fixate
    <3>1. errs # 2
      BY <1>1, <1>2, <2>2 DEF Fixate, Flow, Leaving
    <3>2. errs' \in {errs, errs + 1} /\ intrs' = intrs
      BY <2>2 DEF Fixate, End
    <3> QED
      BY <1>2, <3>1, <3>2
  <2>3. CASE Signal
    BY <1>2, <2>3 DEF Signal
  <2>4. CASE Setup \/ SpeedSelect \/ open_session \/ write_leadin \/ Leadout \/ Exit \/ Flush \/ Restore
    <3>1. UNCHANGED <<errs, intrs>>
      BY <2>4 DEF Setup, SpeedSelect, open_session, write_leadin, Leadout, Exit, Flush,
                  Restore, Begin, End, over
    <3> QED
      BY <1>2, <3>1
  <2> QED
    BY <2>1, <2>2, <2>3, <2>4
<1>11. status' \in {"running", "ok", "errors", "fatal", "signal", "killed"} /\ pc' \in PCs
  <2>0. status \in {"running", "ok", "errors", "fatal", "signal", "killed"}
    BY <1>1 DEF Types, TypeOK
  <2>1. CASE Setup \/ SpeedSelect \/ open_session \/ write_leadin
    BY <2>0, <2>1 DEF Setup, SpeedSelect, open_session, write_leadin, Leave,
                      PCs, AtWork, InTrack, Closing, Leaving
  <2>2. CASE CloseTrack \/ Leadout \/ Fixate \/ Exit
    BY <2>0, <2>2 DEF CloseTrack, Leadout, Fixate, Exit, Leave, GiveUp, over,
                      PCs, AtWork, InTrack, Closing, Leaving
  <2>3. CASE Flush \/ Restore \/ Signal
    BY <2>0, <2>3 DEF Flush, Restore, Signal, over, PCs, Leaving
  <2> QED
    BY <2>1, <2>2, <2>3
<1>12. TypeOK'
  <2>1. TypeOK
    BY <1>1 DEF Types
  <2> HIDE DEF Pages
  <2>2. {bytes_read, from, bytes, padsecs, amt} \subseteq Nat /\ bytespt \in 0 .. 2 * Secspt
        /\ busy \in 0 .. MaxBusy /\ startsec \in Int
    BY <2>1 DEF TypeOK
  <2> QED
    BY <1>2, <1>5, <1>6, <1>7, <1>8, <1>9, <1>10, <1>11, <2>2 DEF TypeOK, Pages, N, Tracks
<1> QED
  BY <1>1, <1>5, <1>8, <1>9, <1>11, <1>12 DEF Types, N, Tracks

Looping == OpenWhole \/ OpenTrack \/ NextAddress \/ GetBuf \/ Busy \/ WriteData \/ EndOfTrack \/ PadTrack

\* The track that is written.
LEMMA AtTrack ==
    ASSUME Types, Flow, pc \in AtWork
    PROVE  /\ job \in Jobs /\ N \in Nat \ {0} /\ track \in 1 .. N /\ T \in Track
           /\ T.its \in Int /\ T.its >= -1 /\ T.size \in Nat /\ T.pad \in Nat /\ T.pregap \in Nat
           /\ T.inpre \in BOOLEAN /\ T.short \in BOOLEAN /\ T.audio \in BOOLEAN
           /\ Padded(T) \in Nat /\ Gap(T) \in Nat /\ Current(T) \in Nat
           /\ errs = 0 /\ status = "running" /\ (Whole => T.its >= 0)
<1>1. job \in Jobs /\ track \in 1 .. N /\ errs \in 0 .. 2
  BY TypesAre DEF Flow
<1>2. T \in Track /\ N \in Nat \ {0} /\ (Whole => T.its >= 0)
  BY <1>1, JobTypes DEF T
<1>3. errs = 0 /\ status = "running"
  BY <1>1 DEF Flow, AtWork, InTrack, Closing, Leaving
<1> QED
  BY <1>1, <1>2, <1>3, TrackTypes, PlanTypes

\* The length of the padding at the end.
LEMMA PadMoreIs ==
    ASSUME Types
    PROVE  PadMore \in Nat /\ PadMore >= padsecs
<1>1. padsecs \in Nat /\ bytes \in Nat /\ Min \in Nat
  BY TypesAre, Sizes
<1> QED
  BY <1>1 DEF PadMore

\* The steps of the loops, track by track.
LEMMA LoopFrame ==
    ASSUME IndInv, Looping
    PROVE  /\ UNCHANGED <<job, track, intrs, refused>> /\ N' = N /\ T' = T /\ pc \in AtWork
           /\ Types /\ Flow /\ Counters
<1>1. UNCHANGED <<job, track, intrs, refused>>
  BY DEF Looping, OpenWhole, OpenTrack, NextAddress, GetBuf, Busy, WriteData, EndOfTrack,
         PadTrack, drive
<1>2. pc \in AtWork
  BY DEF Looping, OpenWhole, OpenTrack, NextAddress, GetBuf, Busy, WriteData, EndOfTrack,
         PadTrack, AtWork, InTrack
<1> QED
  BY <1>1, <1>2 DEF IndInv, N, T, Tracks

\* A write of the track and of its padding.
LEMMA WriteIs ==
    ASSUME IndInv, WriteData,
           NEW n \in {bytespt \div 2, bytespt \div 2 - 1} \cap Nat, NEW s \in Addresses,
           Burn(s, Chunk, n)
    PROVE  /\ n \in Nat /\ n <= Len(Chunk) /\ s \in Int
           /\ out' \in [1 .. N -> Seq(Int)] /\ pos' \in Int
           /\ {gap', last', lossy', cached'} \subseteq BOOLEAN
<1>1. Types /\ Flow /\ Counters /\ pc = "write"
  BY DEF IndInv, WriteData
<1>2. track \in 1 .. N /\ job' = job /\ islast' = islast /\ islast \in BOOLEAN
  BY <1>1, AtTrack DEF WriteData, AtWork, InTrack, Types
<1>3. startsec \in Int /\ bytespt \in Nat
  BY <1>1, TypesAre
<1>4. s \in Int
  BY <1>3 DEF Addresses
<1>5. Chunk \in Seq(Int) /\ Len(Chunk) = bytespt \div 2
  BY <1>1, ChunkIs
<1>6. n \in Nat /\ n <= Len(Chunk)
  BY <1>3, <1>5
<1> QED
  BY <1>1, <1>2, <1>4, <1>5, <1>6, BurnTypes

LEMMA PadIs ==
    ASSUME IndInv, PadTrack, NEW n \in {PadSize, PadSize - 1} \ {0},
           islast' = (pc = "pad" /\ amt <= 2 * PadSize), Burn(startsec, Zeros(PadSize), n)
    PROVE  /\ n \in Nat \ {0} /\ n <= PadSize /\ n <= amt \div 2 /\ Len(Zeros(PadSize)) = PadSize
           /\ out' \in [1 .. N -> Seq(Int)] /\ pos' \in Int
           /\ {gap', last', lossy', cached', islast'} \subseteq BOOLEAN
<1>1. Types /\ Flow /\ Counters /\ pc \in {"pad", "pregap"}
  BY DEF IndInv, PadTrack
<1>2. track \in 1 .. N /\ job' = job
  BY <1>1, AtTrack DEF PadTrack, AtWork, InTrack
<1>3. startsec \in Int /\ amt \in Nat
  BY <1>1, TypesAre
<1>4. PadSize \in Nat \ {0} /\ PadSize <= amt \div 2
  BY <1>1, PadSizeIs
<1> DEFINE z == Zeros(PadSize)
<1>5. z \in Seq(Int) /\ Len(z) = PadSize
  BY <1>4, ZerosAre
<1>6. n \in Nat \ {0} /\ n <= PadSize /\ n <= amt \div 2
  <2> HIDE DEF z
  <2> DEFINE ps == PadSize
  <2>1. ps \in Nat \ {0} /\ ps <= amt \div 2 /\ n \in {ps, ps - 1} \ {0}
    BY <1>4
  <2> HIDE DEF ps
  <2>2. n \in Nat \ {0} /\ n <= ps /\ n <= amt \div 2
    BY <1>3, <2>1
  <2> QED
    BY <2>2 DEF ps
<1>7. islast' \in BOOLEAN
  OBVIOUS
<1>8. Burn(startsec, z, n)
  OBVIOUS
<1> HIDE DEF z
<1>9. /\ out' \in [1 .. N -> Seq(Int)] /\ pos' \in Int
      /\ {gap', last', lossy', cached'} \subseteq BOOLEAN
  BY <1>1, <1>2, <1>3, <1>5, <1>6, <1>7, <1>8, BurnTypes
<1> QED
  BY <1>5, <1>6, <1>7, <1>9 DEF z


LEMMA LoopTypes ==
    ASSUME IndInv, Looping
    PROVE  Types'
<1>1. /\ UNCHANGED <<job, track, intrs, refused>> /\ N' = N /\ T' = T /\ pc \in AtWork
      /\ Types /\ Flow /\ Counters
  BY LoopFrame
<1>2. /\ job \in Jobs /\ N \in Nat \ {0} /\ track \in 1 .. N
      /\ T.its \in Int /\ T.its >= -1 /\ T.size \in Nat /\ T.pregap \in Nat
      /\ Padded(T) \in Nat /\ errs = 0
  BY <1>1, AtTrack
<1>3. /\ trackstart \in [1 .. N + 1 -> Int] /\ startsec \in Int /\ pos \in Int
      /\ bytes_read \in Nat /\ from \in Nat /\ bytes \in Nat /\ padsecs \in Nat /\ amt \in Nat
      /\ bytespt \in Nat /\ bytespt <= 2 * Secspt
      /\ out \in [1 .. N -> Seq(Int)]
      /\ Secspt \in Nat \ {0} /\ Min \in Nat \ {0} /\ MaxBusy \in Nat
  BY <1>1, TypesAre, Sizes
<1> DEFINE Pages == [test : BOOLEAN, type : Modes, db : {"data", "audio", "raw"}, multi : BOOLEAN]
<1>4. page' \in Pages
  <2>1. page \in Pages
    BY <1>1 DEF Types, TypeOK
  <2>2. CASE OpenTrack
    <3>1. page' = page \/ page' = TrackPage(page)
      BY <2>2 DEF OpenTrack
    <3> DEFINE d == IF T.audio THEN "audio" ELSE "data"
    <3>2. TrackPage(page) = [page EXCEPT !.type = job.mode, !.db = d]
      BY DEF TrackPage
    <3>3. job.mode \in Modes /\ d \in {"data", "audio", "raw"}
      BY <1>2, JobTypes
    <3> HIDE DEF d
    <3>4. ASSUME NEW p \in Pages, NEW x \in Modes, NEW y \in {"data", "audio", "raw"}
          PROVE  [p EXCEPT !.type = x, !.db = y] \in Pages
      OBVIOUS
    <3>5. TrackPage(page) \in Pages
      BY <2>1, <3>2, <3>3, <3>4
    <3> HIDE DEF Pages
    <3> QED
      BY <2>1, <3>1, <3>5
  <2>3. CASE ~OpenTrack
    <3>1. page' = page
      BY <2>3 DEF Looping, OpenWhole, NextAddress, GetBuf, Busy, WriteData, EndOfTrack, PadTrack, drive
    <3> QED
      BY <2>1, <3>1
  <2> QED
    BY <2>2, <2>3
<1>5. secsize' \in {0, 512, 2048, 2352}
  <2>1. secsize \in {0, 512, 2048, 2352}
    BY <1>1 DEF Types, TypeOK
  <2>2. CASE OpenTrack
    BY <2>1, <2>2 DEF OpenTrack
  <2>3. CASE ~OpenTrack
    <3>1. secsize' = secsize
      BY <2>3 DEF Looping, OpenWhole, NextAddress, GetBuf, Busy, WriteData, EndOfTrack, PadTrack, drive
    <3> QED
      BY <2>1, <3>1
  <2> QED
    BY <2>2, <2>3
<1>6. errs' \in 0 .. 2
  <2>1. errs' = errs \/ errs' = errs + 1
    BY DEF Looping, OpenWhole, OpenTrack, NextAddress, GetBuf, Busy, WriteData, EndOfTrack,
           PadTrack, over, GiveUp, WriteFails
  <2> QED
    BY <1>2, <2>1
<1>7. pc' \in PCs /\ status' \in {"running", "ok", "errors", "fatal", "signal", "killed"}
  <2>0. status \in {"running", "ok", "errors", "fatal", "signal", "killed"} /\ pc \in PCs
    BY <1>1 DEF Types, TypeOK
  <2>1. CASE OpenWhole \/ OpenTrack \/ NextAddress \/ GetBuf \/ EndOfTrack
    BY <2>0, <2>1 DEF OpenWhole, OpenTrack, NextAddress, GetBuf, EndOfTrack, over, GiveUp, Leave,
                      PCs, AtWork, InTrack, Closing, Leaving
  <2>2. CASE Busy
    BY <2>0, <2>2 DEF Busy, over, Again
  <2>3. CASE WriteData
    BY <2>0, <2>3 DEF WriteData, WriteFails, GiveUp, over, PCs, AtWork, InTrack, Closing, Leaving
  <2>4. CASE PadTrack
    BY <2>0, <2>4 DEF PadTrack, PadNext, over, PCs, AtWork, InTrack, Closing, Leaving
  <2> QED
    BY <2>1, <2>2, <2>3, <2>4 DEF Looping
<1>8. /\ trackstart' \in [1 .. N + 1 -> Int] /\ startsec' \in Int /\ pos' \in Int
      /\ bytes_read' \in Nat /\ from' \in Nat /\ bytes' \in Nat /\ padsecs' \in Nat /\ amt' \in Nat
      /\ bytespt' \in 0 .. 2 * Secspt
      /\ out' \in [1 .. N -> Seq(Int)] /\ busy' \in 0 .. MaxBusy
  <2>0. busy \in 0 .. MaxBusy
    BY <1>1 DEF Types, TypeOK
  <2>1. CASE OpenWhole \/ OpenTrack
    <3>1. /\ startsec' = 0 \/ startsec' = trackstart[track] \/ startsec' = trackstart[track] - T.pregap
          /\ amt' = 0 \/ amt' = 2 * T.pregap
      BY <2>1 DEF OpenWhole, OpenTrack
    <3>2. NewTrack /\ UNCHANGED <<trackstart, out, pos>>
      BY <2>1 DEF OpenWhole, OpenTrack
    <3>3. trackstart[track] \in Int
      BY <1>2, <1>3
    <3>4. /\ bytes_read' = 0 /\ from' = 0 /\ bytes' = 0 /\ bytespt' = 2 * Secspt /\ busy' = 0
          /\ padsecs' = Padded(T)
      BY <3>2 DEF NewTrack
    <3>5. startsec' \in Int /\ amt' \in Nat
      <4>1. T.pregap \in Nat
        BY <1>2
      <4> QED
        BY <3>1, <3>3, <4>1
    <3> QED
      BY <1>2, <1>3, <3>2, <3>4, <3>5, SMTT(20)
  <2>2. CASE NextAddress
    <3>1. pos' \in {None, pos} /\ UNCHANGED <<bytes_read, from, bytes, bytespt, padsecs, amt, busy, out>>
      BY <2>2 DEF NextAddress
    <3>2. startsec' \in Int /\ trackstart' \in [1 .. N + 1 -> Int]
      <4>1. CASE UNCHANGED <<startsec, trackstart>>
        BY <1>3, <4>1
      <4>2. CASE \E n \in {0, 2} : startsec' = (IF pos = None THEN 0 ELSE pos) + n
                                   /\ trackstart' = [trackstart EXCEPT ![track] = startsec']
        <5>1. startsec' \in Int
          BY <1>3, <4>2
        <5>2. trackstart' = [trackstart EXCEPT ![track] = startsec']
          BY <4>2
        <5> QED
          BY <1>3, <5>1, <5>2
      <4> QED
        BY <2>2, <4>1, <4>2 DEF NextAddress
    <3> QED
      BY <1>3, <2>0, <3>1, <3>2 DEF None
  <2>3. CASE GetBuf
    <3>1. /\ from' = bytes_read
          /\ UNCHANGED <<trackstart, startsec, bytes, padsecs, amt, busy, out, pos>>
      BY <2>3 DEF GetBuf, media
    <3>2. bytes_read' \in Nat /\ bytespt' \in 0 .. 2 * Secspt
      <4>1. CASE UNCHANGED <<bytes_read, bytespt>>
        BY <1>3, <4>1
      <4>2. CASE Got
        <5>1. pc = "data"
          BY <2>3 DEF GetBuf
        <5>2. Read \in Nat /\ bytes_read' = bytes_read + Read
          BY <1>1, <4>2, <5>1, ReadTypes DEF Got
        <5>3. bytespt' \in Nat /\ bytespt' <= bytespt
          BY <1>1, <4>2, <5>1, DataIs
        <5> QED
          BY <1>3, <5>2, <5>3
      <4> QED
        BY <2>3, <4>1, <4>2 DEF GetBuf, Got
    <3> QED
      BY <1>3, <2>0, <3>1, <3>2
  <2>4. CASE Busy
    <3>1. /\ busy < MaxBusy /\ busy' = busy + 1
          /\ UNCHANGED <<trackstart, startsec, bytes_read, from, bytes, bytespt, padsecs, amt, out, pos>>
      BY <2>4 DEF Busy, media
    <3> QED
      BY <1>3, <2>0, <3>1
  <2>5. CASE WriteData
    <3>1. busy' = 0 /\ UNCHANGED <<trackstart, bytes_read, from, bytespt, padsecs, amt>>
      BY <2>5 DEF WriteData
    <3>2. startsec' \in Int /\ bytes' \in Nat /\ out' \in [1 .. N -> Seq(Int)] /\ pos' \in Int
      <4>1. CASE UNCHANGED <<startsec, bytes, out, pos>>
        BY <1>3, <4>1
      <4>2. CASE \E n \in {bytespt \div 2, bytespt \div 2 - 1} \cap Nat, s \in Addresses :
                    Burn(s, Chunk, n) /\ startsec' = s + n /\ bytes' = bytes + 2 * n
        <5>1. PICK n \in {bytespt \div 2, bytespt \div 2 - 1} \cap Nat, s \in Addresses :
                    Burn(s, Chunk, n) /\ startsec' = s + n /\ bytes' = bytes + 2 * n
          BY <4>2
        <5>2. n \in Nat /\ s \in Int /\ out' \in [1 .. N -> Seq(Int)] /\ pos' \in Int
          BY <2>5, <5>1, WriteIs
        <5> QED
          BY <1>3, <5>1, <5>2
      <4> QED
        BY <2>5, <4>1, <4>2 DEF WriteData
    <3> QED
      BY <1>3, <3>1, <3>2
  <2>6. CASE EndOfTrack
    <3>1. /\ padsecs' = PadMore /\ amt' = 2 * padsecs' /\ bytespt' = 2 * Secspt
          /\ UNCHANGED <<trackstart, startsec, bytes_read, from, bytes, busy, out, pos>>
      BY <2>6 DEF EndOfTrack
    <3>2. PadMore \in Nat
      BY <1>1, PadMoreIs
    <3> QED
      BY <1>3, <2>0, <3>1, <3>2
  <2>7. CASE PadTrack
    <3>1. busy' = 0 /\ UNCHANGED <<trackstart, bytes_read, from, bytes, bytespt, padsecs>>
      BY <2>7 DEF PadTrack
    <3>2. trackstart[track] \in Int
      BY <1>2, <1>3
    <3>3. startsec' \in Int /\ amt' \in Nat /\ out' \in [1 .. N -> Seq(Int)] /\ pos' \in Int
      <4>1. CASE PadNext /\ UNCHANGED <<amt, out, pos>>
        BY <1>3, <3>2, <4>1 DEF PadNext
      <4>2. CASE \E n \in {PadSize, PadSize - 1} \ {0} :
                    /\ islast' = (pc = "pad" /\ amt <= 2 * PadSize)
                    /\ Burn(startsec, Zeros(PadSize), n)
                    /\ amt' = amt - 2 * n
                    /\ IF amt' > 0 THEN startsec' = startsec + n /\ UNCHANGED pc ELSE PadNext
        <5>1. PICK n \in {PadSize, PadSize - 1} \ {0} :
                    /\ islast' = (pc = "pad" /\ amt <= 2 * PadSize)
                    /\ Burn(startsec, Zeros(PadSize), n)
                    /\ amt' = amt - 2 * n
                    /\ startsec' \in {startsec + n, startsec, trackstart[track]}
          BY <4>2 DEF PadNext
        <5>2. n \in Nat /\ n <= amt \div 2 /\ out' \in [1 .. N -> Seq(Int)] /\ pos' \in Int
          BY <2>7, <5>1, PadIs
        <5> QED
          BY <1>3, <3>2, <5>1, <5>2
      <4> QED
        BY <2>7, <4>1, <4>2 DEF PadTrack
    <3> QED
      BY <1>3, <3>1, <3>3
  <2> QED
    BY <2>1, <2>2, <2>3, <2>4, <2>5, <2>6, <2>7 DEF Looping
<1>9. {islast', retried', gap', last', scrambled', misplaced', lossy', cached'} \subseteq BOOLEAN
  <2>0. /\ islast \in BOOLEAN /\ retried \in BOOLEAN /\ gap \in BOOLEAN /\ last \in BOOLEAN
        /\ scrambled \in BOOLEAN /\ misplaced \in BOOLEAN /\ lossy \in BOOLEAN /\ cached \in BOOLEAN
    BY <1>1 DEF Types
  <2>1. CASE OpenWhole \/ OpenTrack
    BY <2>0, <2>1 DEF OpenWhole, OpenTrack, NewTrack
  <2>2. CASE NextAddress \/ Busy
    BY <2>0, <2>2 DEF NextAddress, Busy, media
  <2>3. CASE GetBuf
    <3>1. UNCHANGED <<gap, last, scrambled, misplaced, lossy, cached>> /\ (retried' = retried \/ retried' = FALSE)
      BY <2>3 DEF GetBuf, media
    <3>2. islast' = islast \/ islast' = (islast \/ ((AtEnd \/ Data < bytespt) /\ MaybeLast))
      BY <2>3 DEF GetBuf
    <3>3. islast' \in BOOLEAN
      BY <2>0, <3>2
    <3> QED
      BY <2>0, <3>1, <3>3
  <2>4. CASE WriteData
    <3>1. islast' = islast /\ scrambled' = scrambled
      BY <2>4 DEF WriteData
    <3>2. retried' \in BOOLEAN
      BY <2>0, <2>4 DEF WriteData, WriteFails, Retried
    <3>3. misplaced' \in BOOLEAN
      BY <2>0, <2>4 DEF WriteData
    <3>4. {gap', last', lossy', cached'} \subseteq BOOLEAN
      <4>1. CASE UNCHANGED <<gap, last, lossy, cached>>
        BY <2>0, <4>1
      <4>2. CASE \E n \in {bytespt \div 2, bytespt \div 2 - 1} \cap Nat, s \in Addresses : Burn(s, Chunk, n)
        BY <2>4, <4>2, WriteIs
      <4> QED
        BY <2>4, <4>1, <4>2 DEF WriteData
    <3> QED
      BY <2>0, <3>1, <3>2, <3>3, <3>4
  <2>5. CASE EndOfTrack
    BY <2>0, <2>5 DEF EndOfTrack
  <2>6. CASE PadTrack
    <3>1. retried' = retried /\ misplaced' = misplaced
      BY <2>6 DEF PadTrack
    <3>2. scrambled' \in BOOLEAN
      BY <2>0, <2>6 DEF PadTrack
    <3>3. {islast', gap', last', lossy', cached'} \subseteq BOOLEAN
      <4>1. CASE lossy' = TRUE /\ UNCHANGED <<islast, gap, last, cached>>
        BY <2>0, <4>1
      <4>2. CASE \E n \in {PadSize, PadSize - 1} \ {0} :
                    /\ islast' = (pc = "pad" /\ amt <= 2 * PadSize)
                    /\ Burn(startsec, Zeros(PadSize), n)
        BY <2>6, <4>2, PadIs
      <4> QED
        BY <2>6, <4>1, <4>2 DEF PadTrack
    <3> QED
      BY <2>0, <3>1, <3>2, <3>3
  <2> QED
    BY <2>1, <2>2, <2>3, <2>4, <2>5, <2>6 DEF Looping
<1>10. TypeOK'
  <2>1. intrs \in 0 .. MaxIntr
    BY <1>1 DEF Types, TypeOK
  <2>2. job' \in Jobs /\ track' \in 0 .. N' + 1 /\ intrs' \in 0 .. MaxIntr
    BY <1>1, <1>2, <2>1
  <2>3. trackstart' \in [1 .. N' + 1 -> Int]
    BY <1>1, <1>8
  <2>4. {bytes_read', from', bytes', padsecs', amt'} \subseteq Nat
    BY <1>8
  <2> QED
    BY <1>4, <1>5, <1>6, <1>7, <1>8, <2>2, <2>3, <2>4 DEF TypeOK
<1>11. refused \in BOOLEAN
  BY <1>1 DEF Types
<1> QED
  BY <1>1, <1>7, <1>8, <1>9, <1>10, <1>11 DEF Types


----------------------------------------------------------------------------
(* The flow of control and the mode of the drive                           *)

LEMMA JobKept ==
    ASSUME Next
    PROVE  job' = job /\ N' = N /\ Tracks' = Tracks /\ Whole' = Whole /\ Packets' = Packets
<1>1. job' = job
  BY DEF Next, Program, WriteTrack, Setup, SpeedSelect, open_session, write_leadin, OpenWhole,
         OpenTrack, NextAddress, GetBuf, Busy, WriteData, EndOfTrack, PadTrack, CloseTrack,
         Leadout, Fixate, Exit, Flush, Restore, Signal, Begin, End
<1> QED
  BY <1>1 DEF N, Tracks, Whole, Packets

LEMMA StepFlow ==
    ASSUME IndInv, Next
    PROVE  Flow'
<1>1. Types /\ Flow
  BY DEF IndInv
<1>2. /\ job' = job /\ N' = N /\ Whole' = Whole /\ N \in Nat \ {0}
      /\ track \in 0 .. N + 1 /\ errs \in 0 .. 2
  BY <1>1, JobKept, TypesAre, JobTypes
<1>3. CASE Looping
  <2>1. /\ track' = track /\ pc \in AtWork /\ errs = 0 /\ status = "running" /\ track \in 1 .. N
    BY <1>1, <1>3, LoopFrame, AtTrack
  <2>2. \/ pc' \in InTrack /\ errs' = 0 /\ status' = "running"
        \/ pc' = "leadout" /\ errs' = 1 /\ status' = "running"
        \/ pc' = "flush" /\ errs' = 0 /\ status' = "fatal"
    <3>1. CASE OpenWhole \/ OpenTrack \/ NextAddress \/ GetBuf \/ EndOfTrack
      BY <2>1, <3>1 DEF OpenWhole, OpenTrack, NextAddress, GetBuf, EndOfTrack, over, GiveUp, Leave, InTrack
    <3>2. CASE Busy \/ WriteData
      BY <2>1, <3>2 DEF Busy, Again, WriteData, WriteFails, over, GiveUp, InTrack
    <3>3. CASE PadTrack
      BY <2>1, <3>3 DEF PadTrack, PadNext, over, InTrack
    <3> QED
      BY <1>3, <3>1, <3>2, <3>3 DEF Looping
  <2>3. pc' = "pregap" => Whole
    BY <1>1, <1>3 DEF Looping, OpenWhole, OpenTrack, NextAddress, GetBuf, Busy, Again, WriteData,
       WriteFails, GiveUp, EndOfTrack, PadTrack, PadNext, Leave, Flow
  <2>4. pc' = "addr" => ~Whole
    BY <1>1, <1>3 DEF Looping, OpenWhole, OpenTrack, NextAddress, GetBuf, Busy, Again, WriteData,
       WriteFails, GiveUp, EndOfTrack, PadTrack, PadNext, Leave, Flow
  <2> QED
    BY <1>2, <2>1, <2>2, <2>3, <2>4 DEF Flow, AtWork, InTrack, Closing, Leaving
<1>4. CASE Setup \/ SpeedSelect \/ open_session \/ write_leadin
  <2>1. /\ pc \in {"setup", "init", "speed", "session", "leadin"} /\ errs = 0 /\ status = "running"
        /\ \A i \in 1 .. N : out[i] = <<>>
    BY <1>1, <1>2, <1>4 DEF Setup, SpeedSelect, open_session, write_leadin, Flow, Closing, Leaving
  <2>2. /\ out' = out /\ errs' = errs /\ (pc' = "open" => track' = 1)
        /\ \/ pc' \in {"init", "speed", "session", "leadin", "open"} /\ status' = status
           \/ pc' = "flush" /\ status' = "fatal"
    BY <1>4 DEF Setup, SpeedSelect, open_session, write_leadin, Begin, media, Leave
  <2> QED
    BY <1>2, <2>1, <2>2 DEF Flow, AtWork, InTrack, Closing, Leaving
<1>5. CASE CloseTrack
  <2>1. pc = "close" /\ errs = 0 /\ status = "running" /\ track \in 1 .. N
    BY <1>1, <1>2, <1>5, AtTrack DEF CloseTrack, AtWork, InTrack
  <2>2. /\ status' = "running" /\ out' = out
        /\ \/ /\ track' = track + 1 /\ errs' = 0 /\ pc' = (IF track < N THEN "open" ELSE "leadout")
              /\ (Whole \/ ~cached')
           \/ pc' = "leadout" /\ errs' = 1
    <3>1. \/ /\ track' = track + 1 /\ pc' = (IF track < N THEN "open" ELSE "leadout")
             /\ cached' = (Whole /\ cached) /\ UNCHANGED over
          \/ GiveUp
      BY <1>5 DEF CloseTrack
    <3>2. out' = out
      BY <1>5 DEF CloseTrack, End
    <3>3. CASE GiveUp
      BY <2>1, <3>2, <3>3 DEF GiveUp
    <3>4. CASE ~GiveUp
      <4>1. /\ track' = track + 1 /\ pc' = (IF track < N THEN "open" ELSE "leadout")
            /\ errs' = errs /\ status' = status
        BY <3>1, <3>4 DEF over
      <4>2. Whole \/ ~cached'
        BY <3>1, <3>4
      <4> QED
        BY <2>1, <3>2, <4>1, <4>2
    <3> QED
      BY <3>3, <3>4
  <2> QED
    BY <1>2, <2>1, <2>2 DEF Flow, AtWork, InTrack, Closing, Leaving
<1>6. CASE Leadout
  BY <1>1, <1>2, <1>6 DEF Leadout, over, Flow, AtWork, InTrack, Closing, Leaving
<1>7. CASE Fixate
  <2>1. /\ pc = "fixate" /\ pc' = "exit" /\ status' = status /\ track' = track
        /\ errs' \in {errs, errs + 1} /\ (~cached => ~cached')
    BY <1>7 DEF Fixate, End
  <2>2. errs \in {0, 1} /\ status = "running" /\ (errs = 0 => track = N + 1 /\ (Whole \/ ~cached))
    BY <1>1, <1>2, <2>1 DEF Flow, Closing, Leaving
  <2> QED
    BY <1>2, <2>1, <2>2 DEF Flow, AtWork, InTrack, Closing, Leaving
<1>8. CASE Exit
  <2>1. /\ pc = "exit" /\ pc' = "flush" /\ UNCHANGED <<track, errs, cached>>
        /\ status' = IF errs = 0 THEN "ok" ELSE "errors"
    BY <1>8 DEF Exit, Leave, End
  <2>2. errs = 0 => track = N + 1 /\ (Whole \/ ~cached)
    BY <1>1, <2>1 DEF Flow, Closing
  <2> QED
    BY <1>2, <2>1, <2>2 DEF Flow, AtWork, InTrack, Closing, Leaving
<1>9. CASE Flush \/ Restore
  <2>1. /\ pc' \in {"restore", "ended"} /\ UNCHANGED <<track, errs, status>>
        /\ (~cached => ~cached') /\ pc \in {"flush", "restore"}
    <3>1. CASE Flush
      <4>1. pc' = "restore" /\ pc = "flush" /\ UNCHANGED <<track, errs, status>>
        BY <3>1 DEF Flush, over
      <4>2. cached' = cached \/ cached' = FALSE
        BY <3>1 DEF Flush
      <4> QED
        BY <4>1, <4>2
    <3>2. CASE Restore
      BY <3>2 DEF Restore, over
    <3> QED
      BY <1>9, <3>1, <3>2
  <2> QED
    BY <1>1, <1>2, <2>1 DEF Flow, AtWork, InTrack, Closing, Leaving
<1>10. CASE Signal
  <2>1. /\ pc' \in {"flush", "ended"} /\ UNCHANGED <<track, errs, cached>>
        /\ status' \in {status, "signal", "killed"}
    BY <1>10 DEF Signal
  <2> QED
    BY <1>1, <1>2, <2>1 DEF Flow, AtWork, InTrack, Closing, Leaving
<1> QED
  BY <1>3, <1>4, <1>5, <1>6, <1>7, <1>8, <1>9, <1>10 DEF Next, Program, WriteTrack, Looping


\* A page keeps what is not set.
LEMMA PageSet ==
    ASSUME NEW p \in [test : BOOLEAN, type : Modes, db : {"data", "audio", "raw"}, multi : BOOLEAN]
    PROVE  /\ deflt_writemodes(p) \subseteq
                 [test : BOOLEAN, type : Modes, db : {"data", "audio", "raw"}, multi : BOOLEAN]
           /\ WithTest(p).test = job.dummy
           /\ SessionPage(p).test = p.test /\ SessionPage(p).multi = job.multi
           /\ Whole => SessionPage(p).type = job.mode /\ SessionPage(p).db = "raw"
           /\ TrackPage(p).test = p.test /\ TrackPage(p).multi = p.multi
           /\ TrackPage(p).type = job.mode /\ TrackPage(p).db = IF T.audio THEN "audio" ELSE "data"
<1>1. deflt_writemodes(p) \subseteq
         [test : BOOLEAN, type : Modes, db : {"data", "audio", "raw"}, multi : BOOLEAN]
  BY DEF deflt_writemodes, Default, Modes
<1>2. WithTest(p).test = job.dummy
  BY DEF WithTest
<1>3. /\ SessionPage(p).test = p.test /\ SessionPage(p).multi = job.multi
      /\ Whole => SessionPage(p).type = job.mode /\ SessionPage(p).db = "raw"
  BY DEF SessionPage
<1>4. /\ TrackPage(p).test = p.test /\ TrackPage(p).multi = p.multi
      /\ TrackPage(p).type = job.mode /\ TrackPage(p).db = IF T.audio THEN "audio" ELSE "data"
  BY DEF TrackPage
<1> QED
  BY <1>1, <1>2, <1>3, <1>4

LEMMA StepPage ==
    ASSUME IndInv, Next
    PROVE  Page'
<1>1. Types /\ Flow /\ Page
  BY DEF IndInv
<1>2. /\ job' = job /\ Whole' = Whole /\ N' = N
      /\ page \in [test : BOOLEAN, type : Modes, db : {"data", "audio", "raw"}, multi : BOOLEAN]
  BY <1>1, JobKept DEF Types, TypeOK
<1>3. CASE Setup \/ Leadout \/ Fixate \/ Exit \/ Flush \/ Restore \/ Signal
  BY <1>3 DEF Setup, Leadout, Fixate, Exit, Leave, Flush, Restore, Signal, Page, AtWork, InTrack
<1>4. CASE SpeedSelect
  <2>1. pc' = "session" => page'.test = job.dummy
    <3>1. PICK p \in deflt_writemodes(page) : pc' = "session" => page' = WithTest(p)
      BY <1>4 DEF SpeedSelect, Leave
    <3> QED
      BY <1>2, <3>1, PageSet
  <2>2. pc' \in {"speed", "session", "flush"}
    BY <1>4 DEF SpeedSelect, Leave
  <2> QED
    BY <1>2, <2>1, <2>2 DEF Page, AtWork, InTrack
<1>5. CASE open_session
  <2>1. pc = "session" /\ (pc' = "flush" \/ (pc' = "leadin" /\ page' = SessionPage(page)))
    BY <1>5 DEF open_session, Leave
  <2>2. page.test = job.dummy
    BY <1>1, <2>1 DEF Page
  <2> QED
    BY <1>2, <2>1, <2>2, PageSet DEF Page, AtWork, InTrack
<1>6. CASE write_leadin
  <2>1. pc = "leadin" /\ pc' \in {"open", "flush"} /\ page' = page
    BY <1>6 DEF write_leadin, drive, Leave
  <2> QED
    BY <1>1, <1>2, <2>1 DEF Page, AtWork, InTrack
<1>7. CASE CloseTrack
  <2>1. pc = "close" /\ pc' \in {"open", "leadout"} /\ page' = page
    BY <1>7 DEF CloseTrack, drive, GiveUp
  <2> QED
    BY <1>1, <1>2, <2>1 DEF Page, AtWork, InTrack
<1>8. CASE OpenTrack
  <2>1. /\ pc = "open" /\ ~Whole
        /\ (pc' = "leadout" \/ (pc' = "addr" /\ page' = TrackPage(page)))
    BY <1>8 DEF OpenTrack, GiveUp
  <2>2. page.test = job.dummy /\ page.multi = job.multi
    BY <1>1, <2>1 DEF Page, AtWork
  <2>3. T' = T
    BY <1>8, LoopFrame DEF Looping
  <2> QED
    BY <1>2, <2>1, <2>2, <2>3, PageSet DEF Page, AtWork, InTrack
<1>9. CASE Looping /\ ~OpenTrack
  <2>1. page' = page
    BY <1>9 DEF Looping, OpenWhole, NextAddress, GetBuf, Busy, WriteData, EndOfTrack, PadTrack, drive
  <2>2. pc' \in InTrack \cup {"leadout", "flush"} /\ (pc \in InTrack \/ Whole) /\ pc \in AtWork
    <3>1. CASE OpenWhole \/ NextAddress \/ GetBuf \/ EndOfTrack
      BY <3>1 DEF OpenWhole, NextAddress, GetBuf, EndOfTrack, GiveUp, Leave, InTrack, AtWork
    <3>2. CASE Busy \/ WriteData
      BY <3>2 DEF Busy, Again, WriteData, WriteFails, GiveUp, InTrack, AtWork
    <3>3. CASE PadTrack
      BY <3>3 DEF PadTrack, PadNext, InTrack, AtWork
    <3> QED
      BY <1>9, <3>1, <3>2, <3>3 DEF Looping
  <2>3. T' = T
    BY <1>9, LoopFrame
  <2> QED
    BY <1>1, <1>2, <2>1, <2>2, <2>3 DEF Page, AtWork, InTrack
<1> QED
  BY <1>3, <1>4, <1>5, <1>6, <1>7, <1>8, <1>9 DEF Next, Program, WriteTrack, Looping

\* The sector size of the drive, once it is restored.
LEMMA StepSectorSize ==
    ASSUME IndInv, Next
    PROVE  SectorSizeRestored'
<1>1. job' = job
  BY JobKept
<1>2. pc # "ended" /\ pc' = "ended" => Restore \/ status' = "killed"
  <2>1. CASE Looping
    BY <2>1 DEF Looping, OpenWhole, OpenTrack, NextAddress, GetBuf, Busy, Again, WriteData,
                WriteFails, GiveUp, EndOfTrack, PadTrack, PadNext, Leave
  <2>2. CASE Setup \/ SpeedSelect \/ open_session \/ write_leadin \/ CloseTrack \/ Leadout
             \/ Fixate \/ Exit \/ Flush
    BY <2>2 DEF Setup, SpeedSelect, open_session, write_leadin, CloseTrack, Leadout, Fixate,
                Exit, Flush, GiveUp, Leave
  <2>3. CASE Signal
    BY <2>3 DEF Signal
  <2> QED
    BY <2>1, <2>2, <2>3 DEF Next, Program, WriteTrack, Looping
<1>3. pc # "ended"
  BY DEF Next, Program, WriteTrack, Setup, SpeedSelect, open_session, write_leadin, OpenWhole,
         OpenTrack, NextAddress, GetBuf, Busy, WriteData, EndOfTrack, PadTrack, CloseTrack,
         Leadout, Fixate, Exit, Flush, Restore, Signal
<1> QED
  BY <1>1, <1>2, <1>3 DEF SectorSizeRestored, Ended, Restore, OldSize


----------------------------------------------------------------------------
(* The counters                                                            *)

\* Not all of the input is read: something is left to read.
LEMMA NothingLeft ==
    ASSUME Types, Flow, Counters, pc = "data", ~(Read > 0)
    PROVE  Through
<1>1. T.its \in Int /\ T.size \in Nat
  BY AtTrack DEF AtWork, InTrack
<1>2. bytes_read \in Nat /\ bytespt \in Nat /\ Secspt \in Nat \ {0}
  BY TypesAre, Sizes
<1>3. /\ bytes_read <= T.size /\ (T.its > 0 => bytes_read < T.its)
      /\ bytespt = 2 * Secspt \/ Through
  BY DEF Counters, InTrack
<1> SUFFICES ASSUME ~Through PROVE FALSE
  OBVIOUS
<1>4. bytespt > 0 /\ bytes_read < T.size
  BY <1>1, <1>2, <1>3 DEF Through
<1>5. Wanted \in Nat /\ Wanted > 0
  BY <1>1, <1>2, <1>3, <1>4 DEF Wanted, Smaller
<1> DEFINE w == Wanted
           r == Read
<1>6. r = Smaller(w, T.size - bytes_read) /\ ~(r > 0) /\ w \in Nat /\ w > 0
  BY <1>5 DEF Read
<1> HIDE DEF w, r
<1> QED
  BY <1>1, <1>2, <1>4, <1>6 DEF Smaller

\* What was read, and what it leaves for the next read.
LEMMA GotIs ==
    ASSUME Types, Flow, Counters, pc = "data", Got, UNCHANGED <<job, track>>
    PROVE  /\ bytes_read' \in Nat /\ bytes_read < bytes_read' /\ bytes_read' <= T.size
           /\ T.its > 0 => bytes_read' <= T.its
           /\ T.its = 0 => bytes_read = 0 /\ bytes_read' <= 2 * Secspt
           /\ bytespt' % 2 = 0 /\ (bytespt' = 2 * Secspt \/ Through')
           /\ Data = bytespt \/ Through'
<1>1. T.its \in Int /\ T.size \in Nat /\ T' = T
  BY AtTrack DEF AtWork, InTrack, T, Tracks
<1>2. bytes_read \in Nat /\ bytespt \in Nat /\ bytespt <= 2 * Secspt /\ Secspt \in Nat
  BY TypesAre, Sizes
<1>3. /\ bytespt = 2 * Secspt \/ Through
      /\ T.its = 0 => bytes_read = 0
  BY DEF Counters
<1> DEFINE r == Read
           d == Data
<1>4. /\ r \in Nat \ {0} /\ r <= bytespt /\ bytes_read + r <= T.size
      /\ T.its > 0 => bytes_read + r <= T.its
      /\ T.its # 0 /\ r < bytespt =>
            bytes_read + r = T.size \/ (T.its >= 0 /\ bytes_read + r = T.its)
      /\ bytes_read' = bytes_read + r
  BY ReadTypes DEF Got
<1>5. /\ d \in Nat /\ d <= bytespt /\ (T.its # 0 => d = r)
      /\ bytespt' % 2 = 0
      /\ d = bytespt => bytespt' = bytespt
  BY DataIs
<1> HIDE DEF r, d
<1>6. bytes_read' = T.size \/ (T.its >= 0 /\ bytes_read' >= T.its) => Through'
  BY <1>1 DEF Through
<1>7. d = bytespt \/ Through'
  <2>1. CASE T.its = 0
    <3>1. bytes_read' \in Nat
      BY <1>2, <1>4
    <3> QED
      BY <1>6, <2>1, <3>1
  <2>2. CASE T.its # 0 /\ r < bytespt
    <3>1. bytes_read' = T.size \/ (T.its >= 0 /\ bytes_read' = T.its)
      BY <1>4, <2>2
    <3> QED
      BY <1>1, <1>6, <3>1
  <2>3. CASE T.its # 0 /\ ~(r < bytespt)
    <3>1. d = bytespt
      BY <1>2, <1>4, <1>5, <2>3
    <3> QED
      BY <3>1
  <2> QED
    BY <2>1, <2>2, <2>3
<1>8. Through => Through'
  BY <1>1, <1>2, <1>4, <1>6 DEF Through
<1>9. bytespt' = 2 * Secspt \/ Through'
  BY <1>3, <1>5, <1>7, <1>8
<1> QED
  BY <1>1, <1>2, <1>3, <1>4, <1>5, <1>7, <1>9 DEF d

LEMMA StepCounters ==
    ASSUME IndInv, Next
    PROVE  Counters'
<1>1. Types /\ Flow /\ Counters
  BY DEF IndInv
<1>2. bytespt % 2 = 0 /\ bytes % 2 = 0 /\ amt % 2 = 0
  BY <1>1 DEF Counters
<1>3. CASE ~Looping
  <2>1. UNCHANGED <<bytespt, bytes, amt>> /\ pc' \notin InTrack
    BY <1>3 DEF Looping, Next, Program, WriteTrack, Setup, SpeedSelect, open_session, write_leadin,
           CloseTrack, Leadout, Fixate, Exit, Flush, Restore, Signal, Begin, End, Leave, GiveUp, loop, InTrack
  <2> QED
    BY <1>2, <2>1 DEF Counters, InTrack
<1> SUFFICES ASSUME Looping PROVE Counters'
  BY <1>3
<1>4. /\ T' = T /\ UNCHANGED <<job, track>> /\ pc \in AtWork
      /\ T.its \in Int /\ T.size \in Nat /\ T.pregap \in Nat
  BY <1>1, LoopFrame, AtTrack
<1>5. /\ bytes_read \in Nat /\ from \in Nat /\ bytes \in Nat /\ padsecs \in Nat /\ amt \in Nat
      /\ bytespt \in Nat /\ bytespt <= 2 * Secspt /\ Secspt \in Nat \ {0} /\ Min \in Nat \ {0}
  BY <1>1, TypesAre, Sizes
<1>6. Padded(T)' = Padded(T)
  BY <1>4 DEF Padded
<1>7. CASE OpenWhole \/ OpenTrack
  <2>1. NewTrack
    BY <1>7 DEF OpenWhole, OpenTrack
  <2>2. \/ pc' = "pregap" /\ amt' = 2 * T.pregap /\ T.pregap > 0
        \/ pc' \in {"data", "addr", "leadout"} /\ amt' = 0
    BY <1>7 DEF OpenWhole, OpenTrack, HasPregap, GiveUp
  <2>3. /\ bytes_read' = 0 /\ from' = 0 /\ bytes' = 0 /\ bytespt' = 2 * Secspt /\ padsecs' = Padded(T)
    BY <2>1 DEF NewTrack
  <2> QED
    BY <1>4, <1>5, <1>6, <2>2, <2>3 DEF Counters, InTrack
<1>8. CASE NextAddress \/ Busy
  <2>1. /\ UNCHANGED <<bytes_read, from, bytes, bytespt, padsecs, amt>>
        /\ \/ pc' = "leadout"
           \/ pc' = pc
           \/ pc = "addr" /\ pc' = "data"
    BY <1>8 DEF NextAddress, Busy, GiveUp, Again
  <2>2. Through' = Through
    BY <1>4, <2>1 DEF Through
  <2> QED
    BY <1>1, <1>4, <1>6, <2>1, <2>2 DEF Counters, InTrack
<1>9. CASE GetBuf
  <2>0. pc = "data"
    BY <1>9 DEF GetBuf
  <2>1. CASE Got
    <3>1. pc' = "write" /\ UNCHANGED <<bytes, padsecs, amt>> /\ from' = bytes_read
      <4>1. Read > 0
        BY <2>1 DEF Got
      <4>2. bytes_read' # bytes_read
        BY <1>1, <1>4, <1>5, <2>0, <2>1, GotIs
      <4> QED
        BY <1>9, <4>1, <4>2 DEF GetBuf, Got
    <3>2. padsecs = Padded(T)
      BY <1>1, <2>0 DEF Counters, InTrack
    <3>3. /\ bytes_read' \in Nat /\ bytes_read < bytes_read' /\ bytes_read' <= T.size
          /\ T.its > 0 => bytes_read' <= T.its
          /\ T.its = 0 => bytes_read = 0 /\ bytes_read' <= 2 * Secspt
          /\ bytespt' % 2 = 0 /\ (bytespt' = 2 * Secspt \/ Through')
      BY <1>1, <1>4, <2>0, <2>1, GotIs
    <3> QED
      BY <1>2, <1>4, <1>5, <1>6, <3>1, <3>2, <3>3 DEF Counters, InTrack
  <2>2. CASE ~(Read > 0) /\ pc' = "tail" /\ UNCHANGED <<bytes_read, islast, bytespt, retried, status>>
    <3>1. from' = bytes_read /\ UNCHANGED <<bytes, padsecs, amt>>
      BY <1>9 DEF GetBuf
    <3>2. Through
      BY <1>1, <2>0, <2>2, NothingLeft
    <3>3. Through'
      BY <1>4, <2>2, <3>2 DEF Through
    <3>4. bytes_read <= T.size /\ padsecs = Padded(T)
      BY <1>1, <2>0 DEF Counters, InTrack
    <3> QED
      BY <1>2, <1>4, <1>5, <1>6, <2>2, <3>1, <3>3, <3>4 DEF Counters, InTrack
  <2>3. CASE pc' = "flush" /\ UNCHANGED <<bytes_read, islast, bytespt, retried>>
    <3>1. from' = bytes_read /\ UNCHANGED <<bytes, padsecs, amt>>
      BY <1>9 DEF GetBuf
    <3> QED
      BY <1>2, <2>3, <3>1 DEF Counters, InTrack
  <2>4. Read \in Int
    <3>1. bytes_read <= T.size /\ (T.its > 0 => bytes_read < T.its)
      BY <1>1, <2>0 DEF Counters, InTrack
    <3>2. Wanted \in Nat
      BY <1>4, <1>5, <3>1 DEF Wanted, Smaller
    <3> HIDE DEF Wanted
    <3> QED
      BY <1>4, <1>5, <3>2 DEF Read, Smaller
  <2> HIDE DEF Read
  <2>5. Read <= 0 => ~(Read > 0)
    BY <2>4
  <2> QED
    BY <1>9, <2>1, <2>2, <2>3, <2>5 DEF GetBuf, Got, Leave
<1>10. CASE WriteData
  <2>1. /\ pc = "write" /\ UNCHANGED <<bytes_read, from, bytespt, padsecs, amt>>
        /\ \/ /\ \E n \in Nat : bytes' = bytes + 2 * n
              /\ pc' = IF More THEN "data" ELSE "tail"
           \/ pc' \in {"write", "leadout"} /\ bytes' = bytes
    BY <1>10 DEF WriteData, WriteFails, GiveUp
  <2>2. bytes' % 2 = 0
    BY <1>2, <1>5, <2>1
  <2>3. Through' = Through
    BY <1>4, <2>1 DEF Through
  <2>4. ~More => Through
    BY <1>4, <1>5 DEF More, Through
  <2>5. /\ from <= bytes_read /\ bytes_read <= T.size /\ (bytespt = 2 * Secspt \/ Through)
        /\ T.its > 0 => bytes_read <= T.its
        /\ T.its = 0 => from = 0 /\ bytes_read <= 2 * Secspt
        /\ padsecs = Padded(T)
    BY <1>1, <2>1 DEF Counters, InTrack
  <2>6. CASE pc' = "data"
    <3>1. More
      BY <2>1, <2>6
    <3>2. T.its # 0 /\ (T.its > 0 => bytes_read < T.its)
      BY <1>4, <1>5, <3>1 DEF More
    <3> QED
      BY <1>2, <1>4, <1>5, <1>6, <2>1, <2>2, <2>3, <2>5, <2>6, <3>2 DEF Counters, InTrack
  <2>7. CASE pc' = "tail"
    <3>1. Through'
      BY <2>1, <2>3, <2>4, <2>7
    <3> QED
      BY <1>2, <1>4, <1>5, <1>6, <2>1, <2>2, <2>5, <2>7, <3>1 DEF Counters, InTrack
  <2>8. CASE pc' \in {"write", "leadout"}
    BY <1>2, <1>4, <1>5, <1>6, <2>1, <2>2, <2>3, <2>5, <2>8 DEF Counters, InTrack
  <2> QED
    BY <2>1, <2>6, <2>7, <2>8
<1>11. CASE EndOfTrack
  <2>1. /\ pc = "tail" /\ padsecs' = PadMore /\ amt' = 2 * padsecs' /\ bytespt' = 2 * Secspt
        /\ pc' = (IF padsecs' > 0 THEN "pad" ELSE "close") /\ UNCHANGED <<bytes_read, from, bytes>>
    BY <1>11 DEF EndOfTrack
  <2>2. padsecs' \in Nat
    BY <1>1, <2>1, PadMoreIs
  <2>3. from <= bytes_read /\ bytes_read <= T.size
    BY <1>1, <2>1 DEF Counters, InTrack
  <2> QED
    BY <1>2, <1>4, <1>5, <2>1, <2>2, <2>3 DEF Counters, InTrack
<1>12. CASE PadTrack
  <2>1. pc \in {"pad", "pregap"} /\ UNCHANGED <<bytes_read, from, bytes, bytespt, padsecs>>
    BY <1>12 DEF PadTrack
  <2>2. /\ amt' \in Nat /\ amt' % 2 = 0
        /\ \/ amt' > 0 /\ pc' = pc
           \/ pc = "pregap" /\ pc' = "data"
           \/ pc' = "close"
    <3>1. CASE PadNext /\ UNCHANGED amt
      BY <1>2, <1>5, <3>1 DEF PadNext
    <3>2. CASE \E n \in {PadSize, PadSize - 1} \ {0} :
                  /\ islast' = (pc = "pad" /\ amt <= 2 * PadSize)
                  /\ Burn(startsec, Zeros(PadSize), n)
                  /\ amt' = amt - 2 * n
                  /\ IF amt' > 0 THEN startsec' = startsec + n /\ UNCHANGED pc ELSE PadNext
      <4>1. PICK n \in {PadSize, PadSize - 1} \ {0} :
                  /\ islast' = (pc = "pad" /\ amt <= 2 * PadSize)
                  /\ Burn(startsec, Zeros(PadSize), n)
                  /\ amt' = amt - 2 * n
                  /\ IF amt' > 0 THEN UNCHANGED pc ELSE PadNext
        BY <3>2
      <4>2. n \in Nat /\ n <= amt \div 2
        BY <1>12, <4>1, PadIs
      <4>3. amt' \in Nat /\ amt' % 2 = 0
        BY <1>2, <1>5, <4>1, <4>2
      <4> QED
        BY <4>1, <4>3 DEF PadNext
    <3> QED
      BY <1>12, <3>1, <3>2 DEF PadTrack
  <2>3. Through' = Through
    BY <1>4, <2>1 DEF Through
  <2> QED
    BY <1>1, <1>2, <1>4, <1>5, <1>6, <2>1, <2>2, <2>3 DEF Counters, InTrack
<1> QED
  BY <1>7, <1>8, <1>9, <1>10, <1>11, <1>12 DEF Looping


----------------------------------------------------------------------------
(* What is written                                                         *)

\* A write adds to the track and leaves the other tracks alone.
LEMMA Appended ==
    ASSUME Types, track \in 1 .. N, UNCHANGED <<job, track>>, pc # "pregap",
           NEW s, NEW n \in Nat, NEW buffer \in Seq(Int), n <= Len(buffer),
           Burn(s, buffer, n)
    PROVE  /\ out[track] \in Seq(Int) /\ Len(out[track]) \in Nat /\ DOMAIN out' = 1 .. N
           /\ Len(out'[track]) = Len(out[track]) + n
           /\ \A k \in 1 .. Len(out[track]) : out'[track][k] = out[track][k]
           /\ \A k \in 1 .. n : out'[track][Len(out[track]) + k] = buffer[k]
           /\ \A i \in 1 .. N : i # track => out'[i] = out[i]
<1> DEFINE o == out[track]
           b == SubSeq(buffer, 1, n)
<1>1. o \in Seq(Int) /\ out \in [1 .. N -> Seq(Int)]
  BY TypesAre
<1>2. b \in Seq(Int) /\ Len(b) = n /\ \A k \in 1 .. n : b[k] = buffer[k]
  <2>1. \A i \in 1 .. n : i \in 1 .. Len(buffer)
    OBVIOUS
  <2>2. b \in Seq(Int) /\ Len(b) = n
    BY <2>1, SubSeqProperties
  <2>3. \A k \in 1 .. n : b[k] = buffer[k]
    BY <2>1, SubSeqProperties
  <2> QED
    BY <2>2, <2>3
<1>3. out' = [out EXCEPT ![track] = o \o b]
  BY DEF Burn
<1> HIDE DEF o, b
<1>4. /\ o \o b \in Seq(Int) /\ Len(o \o b) = Len(o) + n /\ Len(o) \in Nat
      /\ \A k \in 1 .. Len(o) : (o \o b)[k] = o[k]
      /\ \A k \in 1 .. n : (o \o b)[Len(o) + k] = b[k]
  <2>1. Len(o) \in Nat
    BY <1>1, LenProperties
  <2>2. /\ o \o b \in Seq(Int) /\ Len(o \o b) = Len(o) + n
        /\ \A k \in 1 .. Len(o) + n : (o \o b)[k] = IF k <= Len(o) THEN o[k] ELSE b[k - Len(o)]
    BY <1>1, <1>2, ConcatProperties
  <2>3. \A k \in 1 .. Len(o) : (o \o b)[k] = o[k]
    BY <2>1, <2>2
  <2>4. ASSUME NEW k \in 1 .. n PROVE (o \o b)[Len(o) + k] = b[k]
    <3>1. Len(o) + k \in 1 .. Len(o) + n /\ ~(Len(o) + k <= Len(o)) /\ (Len(o) + k) - Len(o) = k
      BY <2>1
    <3> QED
      BY <2>2, <3>1
  <2> QED
    BY <2>1, <2>2, <2>3, <2>4
<1>5. out'[track] = o \o b /\ DOMAIN out' = 1 .. N /\ \A i \in 1 .. N : i # track => out'[i] = out[i]
  BY <1>1, <1>3
<1> QED
  BY <1>1, <1>2, <1>4, <1>5 DEF o

\* What a step may write: the pages of the loops, and nothing else.
LEMMA WriteSteps ==
    ASSUME IndInv, Next
    PROVE  \/ out' = out
           \/ /\ WriteData
              /\ \E n \in {bytespt \div 2, bytespt \div 2 - 1} \cap Nat, s \in Addresses :
                    /\ Burn(s, Chunk, n)
                    /\ startsec' = s + n /\ bytes' = bytes + 2 * n
                    /\ misplaced' = (misplaced \/ (job.mode = "raw" /\ Encoded # s))
                    /\ pc' = IF More THEN "data" ELSE "tail"
           \/ /\ PadTrack /\ pc = "pad"
              /\ \E n \in {PadSize, PadSize - 1} \ {0} :
                    /\ islast' = (pc = "pad" /\ amt <= 2 * PadSize)
                    /\ Burn(startsec, Zeros(PadSize), n)
                    /\ amt' = amt - 2 * n
                    /\ IF amt' > 0 THEN startsec' = startsec + n /\ UNCHANGED pc ELSE PadNext
<1>1. CASE WriteData
  BY <1>1 DEF WriteData
<1>2. CASE PadTrack
  <2>1. CASE pc = "pad"
    BY <1>2, <2>1 DEF PadTrack
  <2>2. CASE pc = "pregap"
    <3>1. out' = out
      BY <1>2, <2>2 DEF PadTrack, Burn
    <3> QED
      BY <3>1
  <2> QED
    BY <1>2, <2>1, <2>2 DEF PadTrack
<1>3. CASE ~WriteData /\ ~PadTrack
  <2>1. out' = out
    BY <1>3 DEF Next, Program, WriteTrack, Setup, SpeedSelect, open_session, write_leadin, OpenWhole,
         OpenTrack, NextAddress, GetBuf, Busy, EndOfTrack, CloseTrack,
         Leadout, Fixate, Exit, Flush, Restore, Signal, Begin, End, media
  <2> QED
    BY <2>1
<1> QED
  BY <1>1, <1>2, <1>3

\* The two of them, as far as the sectors are concerned.
LEMMA ChunkWritten ==
    ASSUME IndInv, WriteData,
           NEW n \in {bytespt \div 2, bytespt \div 2 - 1} \cap Nat, NEW s \in Addresses,
           Burn(s, Chunk, n)
    PROVE  /\ track \in 1 .. N /\ UNCHANGED <<job, track>> /\ pc = "write"
           /\ n \in Nat /\ n <= Len(Chunk) /\ DOMAIN out' = 1 .. N
           /\ Len(out[track]) \in Nat /\ Len(out'[track]) = Len(out[track]) + n
           /\ \A k \in 1 .. Len(out[track]) : out'[track][k] = out[track][k]
           /\ \A k \in 1 .. n : out'[track][Len(out[track]) + k] = Chunk[k]
           /\ \A i \in 1 .. N : i # track => out'[i] = out[i]
           /\ lossy' = (lossy \/ n < bytespt \div 2)
<1>1. Types /\ Flow /\ Counters /\ pc = "write" /\ UNCHANGED <<job, track>>
  BY DEF IndInv, WriteData
<1>2. track \in 1 .. N
  BY <1>1, AtTrack DEF AtWork, InTrack
<1>3. n \in Nat /\ n <= Len(Chunk)
  BY WriteIs
<1>4. Chunk \in Seq(Int) /\ Len(Chunk) = bytespt \div 2
  BY <1>1, ChunkIs
<1> DEFINE c == Chunk
<1>5. c \in Seq(Int) /\ n <= Len(c) /\ Burn(s, c, n) /\ Len(c) = bytespt \div 2
  BY <1>3, <1>4
<1> HIDE DEF c
<1>6. lossy' = (lossy \/ n < bytespt \div 2)
  BY <1>5 DEF Burn
<1>7. /\ Len(out[track]) \in Nat /\ Len(out'[track]) = Len(out[track]) + n /\ DOMAIN out' = 1 .. N
      /\ \A k \in 1 .. Len(out[track]) : out'[track][k] = out[track][k]
      /\ \A k \in 1 .. n : out'[track][Len(out[track]) + k] = c[k]
      /\ \A i \in 1 .. N : i # track => out'[i] = out[i]
  BY <1>1, <1>2, <1>3, <1>5, Appended
<1> QED
  BY <1>1, <1>2, <1>3, <1>6, <1>7 DEF c

LEMMA ZerosWritten ==
    ASSUME IndInv, PadTrack, pc = "pad", NEW n \in {PadSize, PadSize - 1} \ {0},
           islast' = (pc = "pad" /\ amt <= 2 * PadSize), Burn(startsec, Zeros(PadSize), n)
    PROVE  /\ track \in 1 .. N /\ UNCHANGED <<job, track>>
           /\ n \in Nat \ {0} /\ n <= PadSize /\ n <= amt \div 2 /\ DOMAIN out' = 1 .. N
           /\ Len(out[track]) \in Nat /\ Len(out'[track]) = Len(out[track]) + n
           /\ \A k \in 1 .. Len(out[track]) : out'[track][k] = out[track][k]
           /\ job.mode # "raw" => \A k \in 1 .. n : out'[track][Len(out[track]) + k] = 0
           /\ \A i \in 1 .. N : i # track => out'[i] = out[i]
           /\ lossy' = (lossy \/ n < PadSize)
<1>1. Types /\ Flow /\ Counters /\ UNCHANGED <<job, track>>
  BY DEF IndInv, PadTrack
<1>2. track \in 1 .. N
  BY <1>1, AtTrack DEF AtWork, InTrack
<1>3. n \in Nat \ {0} /\ n <= PadSize /\ n <= amt \div 2
  BY PadIs
<1>4. PadSize \in Nat
  BY <1>1, PadSizeIs
<1> DEFINE p == PadSize
           z == Zeros(p)
<1>5. /\ z \in Seq(Int) /\ Len(z) = p /\ Burn(startsec, z, n) /\ p \in Nat /\ n <= p
      /\ job.mode # "raw" => \A k \in 1 .. p : z[k] = 0
  BY <1>3, <1>4, ZerosAre
<1> HIDE DEF z, p
<1>6. lossy' = (lossy \/ n < p)
  BY <1>5 DEF Burn
<1>7. /\ Len(out[track]) \in Nat /\ Len(out'[track]) = Len(out[track]) + n /\ DOMAIN out' = 1 .. N
      /\ \A k \in 1 .. Len(out[track]) : out'[track][k] = out[track][k]
      /\ \A k \in 1 .. n : out'[track][Len(out[track]) + k] = z[k]
      /\ \A i \in 1 .. N : i # track => out'[i] = out[i]
  BY <1>1, <1>2, <1>3, <1>5, Appended, SMTT(20)
<1>8. ASSUME job.mode # "raw", NEW k \in 1 .. n PROVE out'[track][Len(out[track]) + k] = 0
  <2>1. k \in 1 .. p
    BY <1>3, <1>5
  <2> QED
    BY <1>5, <1>7, <1>8, <2>1
<1> QED
  BY <1>1, <1>2, <1>3, <1>6, <1>7, <1>8 DEF p

LEMMA StepNoScrambled ==
    ASSUME IndInv, Next
    PROVE  NoScrambled'
<1>1. Types /\ Flow /\ Counters /\ NoScrambled
  BY DEF IndInv
<1>2. job' = job /\ N' = N
  BY JobKept
<1>3. out \in [1 .. N -> Seq(Int)]
  BY <1>1, TypesAre
<1> SUFFICES ASSUME job.mode # "raw", NEW i \in 1 .. N, NEW k \in DOMAIN out'[i]
             PROVE  out'[i][k] >= 0
  BY <1>2 DEF NoScrambled
<1>4. \A j \in 1 .. N : \A m \in DOMAIN out[j] : out[j][m] >= 0
  BY <1>1 DEF NoScrambled
<1>5. CASE out' = out
  BY <1>4, <1>5
<1>6. ASSUME NEW n \in Nat, Len(out[track]) \in Nat, track \in 1 .. N, NEW b,
             Len(out'[track]) = Len(out[track]) + n, out'[track] \in Seq(Int),
             \A m \in 1 .. Len(out[track]) : out'[track][m] = out[track][m],
             \A m \in 1 .. n : out'[track][Len(out[track]) + m] = b[m],
             \A m \in 1 .. n : b[m] >= 0,
             \A j \in 1 .. N : j # track => out'[j] = out[j]
      PROVE  out'[i][k] >= 0
  <2>1. CASE i # track
    BY <1>4, <1>6, <2>1
  <2>2. CASE i = track
    <3> DEFINE l == Len(out[track])
    <3>0. n \in Nat /\ l \in Nat
      BY <1>6
    <3>1. k \in 1 .. l + n
      BY <1>6, <2>2, LenProperties
    <3> HIDE DEF l
    <3>2. CASE k <= l
      <4>0. k \in 1 .. l
        BY <3>0, <3>1, <3>2
      <4>1. k \in 1 .. Len(out[track]) /\ out[track] \in Seq(Int)
        BY <1>3, <1>6, <4>0 DEF l
      <4>2. k \in DOMAIN out[track]
        BY <4>1, LenProperties
      <4> QED
        BY <1>4, <1>6, <2>2, <4>1, <4>2
    <3>3. CASE ~(k <= l)
      <4> DEFINE m == k - l
      <4>1. m \in 1 .. n /\ k = l + m
        BY <3>0, <3>1, <3>3
      <4> HIDE DEF m
      <4> QED
        BY <1>6, <2>2, <4>1 DEF l
    <3> QED
      BY <3>2, <3>3
  <2> QED
    BY <2>1, <2>2
<1>7. ASSUME WriteData, NEW n \in {bytespt \div 2, bytespt \div 2 - 1} \cap Nat, NEW s \in Addresses,
             Burn(s, Chunk, n)
      PROVE  out'[i][k] >= 0
  <2>1. pc = "write" /\ track \in 1 .. N /\ n \in Nat /\ n <= Len(Chunk)
    BY <1>7, ChunkWritten
  <2>2. \A m \in 1 .. n : Chunk[m] >= 0
    <3> SUFFICES ASSUME NEW m \in 1 .. n PROVE Chunk[m] >= 0
      OBVIOUS
    <3>1. m \in 1 .. Len(Chunk) /\ from \in Nat
      BY <1>1, <2>1, TypesAre, ChunkIs
    <3>2. Chunk[m] = from \div 2 + m \/ Chunk[m] = 0
      BY <1>1, <2>1, <3>1, ChunkIs
    <3> QED
      BY <3>1, <3>2
  <2>3. out'[track] \in Seq(Int)
    BY <1>7, <2>1, WriteIs
  <2> DEFINE c == Chunk
  <2>4. /\ Len(out[track]) \in Nat /\ Len(out'[track]) = Len(out[track]) + n
        /\ \A m \in 1 .. Len(out[track]) : out'[track][m] = out[track][m]
        /\ \A m \in 1 .. n : out'[track][Len(out[track]) + m] = c[m]
        /\ \A j \in 1 .. N : j # track => out'[j] = out[j]
    BY <1>7, ChunkWritten
  <2>5. \A m \in 1 .. n : c[m] >= 0
    BY <2>2
  <2> HIDE DEF c
  <2> QED
    BY <1>6, <2>1, <2>3, <2>4, <2>5
<1>8. ASSUME PadTrack, pc = "pad", NEW n \in {PadSize, PadSize - 1} \ {0},
             islast' = (pc = "pad" /\ amt <= 2 * PadSize), Burn(startsec, Zeros(PadSize), n)
      PROVE  out'[i][k] >= 0
  <2>1. track \in 1 .. N /\ n \in Nat
    BY <1>8, ZerosWritten
  <2>2. out'[track] \in Seq(Int)
    BY <1>8, <2>1, PadIs
  <2> DEFINE z == [m \in 1 .. n |-> 0]
  <2>3. /\ Len(out[track]) \in Nat /\ Len(out'[track]) = Len(out[track]) + n
        /\ \A m \in 1 .. Len(out[track]) : out'[track][m] = out[track][m]
        /\ \A m \in 1 .. n : out'[track][Len(out[track]) + m] = 0
        /\ \A j \in 1 .. N : j # track => out'[j] = out[j]
    BY <1>8, ZerosWritten
  <2>4. \A m \in 1 .. n : z[m] = 0 /\ out'[track][Len(out[track]) + m] = z[m]
    BY <2>3
  <2>5. \A m \in 1 .. n : z[m] >= 0
    BY <2>4
  <2> HIDE DEF z
  <2> QED
    BY <1>6, <2>1, <2>2, <2>3, <2>4, <2>5
<1> QED
  BY <1>5, <1>7, <1>8, WriteSteps


----------------------------------------------------------------------------
(* The contents of the tracks                                              *)

LEMMA BeginsLess ==
    ASSUME NEW s, NEW m \in Nat, NEW n \in Nat, m <= n, Len(s) \in Nat, Begins(s, n)
    PROVE  Begins(s, m)
<1>1. Secs(m) \in Nat /\ Secs(n) \in Nat /\ Secs(m) <= Secs(n)
  BY SecsType, SecsMonotone
<1> QED
  BY <1>1 DEF Begins

LEMMA CapType ==
    ASSUME NEW t \in Track, NEW n \in Nat
    PROVE  Cap(t, n) \in Nat /\ Cap(t, n) <= n
BY TrackTypes DEF Cap, Smaller

\* The tracks that are not written stay complete, or empty.
LEMMA OthersKept ==
    ASSUME IndInv, Content, Next, \A i \in 1 .. N : i # track => out'[i] = out[i]
    PROVE  /\ \A i \in 1 .. track - 1 : Complete(i)'
           /\ pc \in AtWork => \A i \in 1 .. N : i > track => out'[i] = <<>>
<1>1. Types
  BY DEF IndInv
<1>2. N' = N /\ Tracks' = Tracks
  BY JobKept
<1>3. track \in 0 .. N + 1 /\ N \in Nat
  BY <1>1, TypesAre, JobTypes
<1>4. ASSUME NEW i \in 1 .. track - 1 PROVE Complete(i)'
  <2>1. i \in 1 .. N /\ i # track
    BY <1>3
  <2>2. Complete(i)
    BY DEF Content
  <2> QED
    BY <1>2, <2>1, <2>2 DEF Complete
<1>5. ASSUME pc \in AtWork, NEW i \in 1 .. N, i > track PROVE out'[i] = <<>>
  <2>1. out[i] = <<>> /\ i # track
    BY <1>3, <1>5 DEF Content
  <2> QED
    BY <2>1
<1> QED
  BY <1>4, <1>5

LEMMA ContentOpen ==
    ASSUME IndInv, Content, OpenWhole \/ OpenTrack
    PROVE  Content'
<1>1. Types /\ Flow /\ Counters /\ Next /\ pc = "open" /\ pc \in AtWork
  BY DEF IndInv, Next, Program, OpenWhole, OpenTrack, AtWork
<1>2. /\ T' = T /\ UNCHANGED <<job, track>> /\ N' = N /\ track \in 1 .. N /\ N \in Nat
  BY <1>1, LoopFrame, AtTrack DEF Looping
<1>3. /\ bytes_read' = 0 /\ bytes' = 0 /\ out' = out
      /\ pc' \in {"pregap", "data", "addr", "leadout"}
  BY DEF OpenWhole, OpenTrack, NewTrack, GiveUp
<1>4. /\ \A i \in 1 .. track - 1 : Complete(i)'
      /\ \A i \in 1 .. N : i > track => out'[i] = <<>>
  BY <1>1, <1>3, OthersKept
<1>5. out'[track] = <<>>
  BY <1>1, <1>2, <1>3 DEF Content
<1>6. Len(out'[track]) = 0 /\ Begins(out'[track], 0)
  <2>1. Len(out'[track]) = 0
    BY <1>5, EmptySeq
  <2>2. Secs(0) = 0
    BY DEF Secs
  <2> QED
    BY <2>1, <2>2 DEF Begins
<1>7. pc' \in InTrack => Len(out'[track']) = bytes' \div 2
  BY <1>2, <1>3, <1>6
<1>8. Begins(out[track], bytes)'
  BY <1>2, <1>3, <1>6 DEF Begins, Secs
<1> QED
  BY <1>2, <1>3, <1>4, <1>7, <1>8 DEF Content, AtWork, InTrack

LEMMA ContentSame ==
    ASSUME IndInv, Content, NextAddress \/ Busy
    PROVE  Content'
<1>1. Types /\ Flow /\ Counters /\ Next /\ pc \in AtWork
  BY DEF IndInv, Next, Program, WriteTrack, NextAddress, Busy, AtWork, InTrack
<1>2. /\ T' = T /\ UNCHANGED <<job, track>> /\ N' = N /\ track \in 1 .. N /\ N \in Nat
  BY <1>1, LoopFrame, AtTrack DEF Looping
<1>3. /\ UNCHANGED <<out, bytes, bytes_read, from, bytespt, padsecs, amt>>
      /\ \/ pc' = "leadout"
         \/ pc = "addr" /\ pc' = "data"
         \/ pc' = pc /\ pc # "open"
  BY DEF NextAddress, Busy, Again, GiveUp, media
<1>4. /\ \A i \in 1 .. track - 1 : Complete(i)'
      /\ \A i \in 1 .. N : i > track => out'[i] = <<>>
  BY <1>1, <1>3, OthersKept
<1>5. Complete(track)' = Complete(track) /\ Begins(out[track], bytes)' = Begins(out[track], bytes)
      /\ Through' = Through /\ Cap(T, bytes_read)' = Cap(T, bytes_read)
  BY <1>2, <1>3 DEF Complete, Begins, Cap, Through, Tracks
<1> DEFINE data == Cap(T, bytes_read) - from
           all == Complete(track)
           begins == Begins(out[track], bytes)
           through == Through
<1>6. data' = data /\ all' = all /\ begins' = begins /\ through' = through /\ Secs(data)' = Secs(data)
  BY <1>3, <1>5 DEF Secs
<1>7. CASE pc' = "leadout"
  BY <1>2, <1>4, <1>7 DEF Content, AtWork, InTrack
<1>8. CASE pc' # "leadout"
  <2>1. pc \in InTrack /\ pc' \in InTrack /\ pc # "open" /\ pc' # "open"
    BY <1>1, <1>3, <1>8 DEF AtWork, InTrack
  <2>2. Len(out'[track']) = bytes' \div 2 + IF pc' \in {"pad", "close"} THEN padsecs' - amt' \div 2 ELSE 0
    BY <1>2, <1>3, <1>8, <2>1 DEF Content
  <2>3. pc' \in {"pregap", "addr", "data", "write"} =>
          \/ bytes' = (IF pc' = "write" THEN from' ELSE bytes_read') /\ begins'
          \/ pc' = "data" /\ through' /\ all'
    BY <1>2, <1>3, <1>6, <1>8 DEF Content
  <2>4. pc' = "write" =>
          /\ bytespt' >= 2 * Secs(data)' /\ (data' = bytespt' \/ through')
          /\ job.mode # "fixed" => bytespt' = 2 * Secs(data)'
    BY <1>3, <1>6, <1>8 DEF Content
  <2>5. pc' \in {"tail", "pad", "close"} => all'
    BY <1>3, <1>6, <1>8 DEF Content
  <2>6. pc' = "close" => amt' = 0
    BY <1>3, <1>8 DEF Content
  <2> QED
    BY <1>2, <1>4, <2>1, <2>2, <2>3, <2>4, <2>5, <2>6 DEF Content, AtWork, InTrack
<1> QED
  BY <1>7, <1>8

LEMMA ContentRead ==
    ASSUME IndInv, Content, GetBuf
    PROVE  Content'
<1>1. Types /\ Flow /\ Counters /\ Next /\ pc = "data" /\ pc \in AtWork /\ pc \in InTrack
  BY DEF IndInv, Next, Program, WriteTrack, GetBuf, AtWork, InTrack
<1>2. /\ T' = T /\ UNCHANGED <<job, track>> /\ N' = N /\ track \in 1 .. N /\ N \in Nat
      /\ T \in Track /\ T.its \in Int /\ T.size \in Nat
  BY <1>1, LoopFrame, AtTrack DEF Looping
<1>3. /\ UNCHANGED <<out, bytes, padsecs, amt>> /\ from' = bytes_read
  BY DEF GetBuf, media
<1>4. /\ \A i \in 1 .. track - 1 : Complete(i)'
      /\ \A i \in 1 .. N : i > track => out'[i] = <<>>
  BY <1>1, <1>3, OthersKept
<1>5. Len(out'[track']) = bytes' \div 2
  <2>1. Len(out[track]) = bytes \div 2 + 0
    BY <1>1 DEF Content
  <2>2. bytes \div 2 \in Nat
    <3>1. bytes \in Nat
      BY <1>1, TypesAre
    <3> QED
      BY <3>1
  <2> QED
    BY <1>2, <1>3, <2>1, <2>2
<1>6. bytes_read \in Nat /\ bytes \in Nat /\ out[track] \in Seq(Int) /\ Len(out[track]) \in Nat
  <2>1. bytes_read \in Nat /\ bytes \in Nat /\ out[track] \in Seq(Int)
    BY <1>1, <1>2, TypesAre
  <2> QED
    BY <2>1, LenProperties
<1>7. \/ bytes = bytes_read /\ Begins(out[track], bytes)
      \/ Through /\ Complete(track)
  BY <1>1 DEF Content
<1>8. bytes_read <= T.size /\ (T.its > 0 => bytes_read < T.its) /\ (T.its = 0 => bytes_read = 0 /\ bytes = 0)
  BY <1>1 DEF Counters
<1>9. CASE Got
  <2>1. /\ bytes_read' \in Nat /\ bytes_read < bytes_read' /\ bytes_read' <= T.size
        /\ Data = bytespt \/ Through'
    BY <1>1, <1>2, <1>9, GotIs
  <2>2. /\ Data = Cap(T, bytes_read') - bytes_read
        /\ bytespt' >= 2 * Secs(Data)
        /\ job.mode # "fixed" => bytespt' = 2 * Secs(Data)
        /\ Data = bytespt => bytespt' = bytespt
    BY <1>1, <1>2, <1>9, DataIs
  <2>3. pc' = "write"
    <3>1. bytes_read' # bytes_read
      BY <1>6, <2>1
    <3> QED
      BY <1>9, <3>1 DEF GetBuf, Got
  <2>4. bytes = bytes_read /\ Begins(out[track], bytes)
    <3>1. CASE T.its = 0
      <4>1. bytes = 0 /\ bytes_read = 0
        BY <1>8, <3>1
      <4>2. Secs(0) = 0
        BY DEF Secs
      <4> QED
        BY <1>6, <4>1, <4>2 DEF Begins
    <3>2. CASE T.its # 0
      <4>1. ~Through
        BY <1>2, <1>6, <1>8, <2>1, <3>2 DEF Through
      <4> QED
        BY <1>7, <4>1
    <3> QED
      BY <3>1, <3>2
  <2>5. bytes' = from' /\ Begins(out[track], bytes)'
    BY <1>2, <1>3, <2>4 DEF Begins
  <2> DEFINE data == Cap(T, bytes_read) - from
  <2>6. data' = Data
    BY <1>2, <1>3, <2>2 DEF Cap
  <2>7. /\ bytespt' >= 2 * Secs(data') /\ (data' = bytespt' \/ Through')
        /\ job'.mode # "fixed" => bytespt' = 2 * Secs(data')
    BY <1>2, <2>1, <2>2, <2>6
  <2>8. Secs(data)' = Secs(data')
    BY DEF Secs
  <2> HIDE DEF data
  <2> QED
    BY <1>2, <1>4, <1>5, <2>3, <2>5, <2>7, <2>8 DEF Content, AtWork, InTrack, data
<1>10. CASE pc' = "tail" /\ ~(Read > 0)
  <2>1. Through
    BY <1>1, <1>10, NothingLeft
  <2>2. Complete(track)
    <3>1. CASE bytes = bytes_read /\ Begins(out[track], bytes)
      <4> DEFINE c == Cap(T, T.size)
      <4>1. c \in Nat /\ c <= T.size
        BY <1>2, CapType
      <4>2. c <= bytes
        <5>1. CASE bytes_read = T.size
          BY <1>6, <3>1, <4>1, <5>1
        <5>2. CASE T.its >= 0 /\ bytes_read >= T.its
          <6>1. T.its = 0
            BY <1>2, <1>6, <1>8, <5>2
          <6>2. c = 0
            BY <1>2, <6>1 DEF Cap, Smaller
          <6> QED
            BY <1>6, <6>2
        <5> QED
          BY <2>1, <5>1, <5>2 DEF Through
      <4> HIDE DEF c
      <4>3. Begins(out[track], c)
        BY <1>6, <3>1, <4>1, <4>2, BeginsLess
      <4> QED
        BY <4>3 DEF c, Complete, T
    <3> QED
      BY <1>7, <3>1
  <2>3. Complete(track)'
    BY <1>2, <1>3, <2>2 DEF Complete, Tracks
  <2> QED
    BY <1>2, <1>4, <1>5, <1>10, <2>3 DEF Content, AtWork, InTrack
<1>11. CASE pc' = "flush"
  BY <1>2, <1>4, <1>11 DEF Content, AtWork, InTrack
<1>12. Read <= 0 => ~(Read > 0)
  <2>1. bytespt \in Nat
    BY <1>1, TypesAre
  <2>2. Wanted \in Nat
    BY <1>2, <1>6, <1>8, <2>1 DEF Wanted, Smaller
  <2>3. Read \in Int
    <3> HIDE DEF Wanted
    <3> QED
      BY <1>2, <1>6, <2>2 DEF Read, Smaller
  <2> HIDE DEF Read
  <2> QED
    BY <2>3
<1> QED
  BY <1>9, <1>10, <1>11, <1>12 DEF GetBuf, Got, Leave


\* A whole write of the buffer.
LEMMA ContentWrite ==
    ASSUME IndInv, Content, WriteData, ~lossy'
    PROVE  Content'
<1>1. Types /\ Flow /\ Counters /\ Next /\ pc = "write" /\ pc \in AtWork /\ pc \in InTrack
  BY DEF IndInv, Next, Program, WriteTrack, WriteData, AtWork, InTrack
<1>2. /\ T' = T /\ UNCHANGED <<job, track>> /\ N' = N /\ track \in 1 .. N /\ N \in Nat
      /\ T \in Track /\ T.its \in Int /\ T.size \in Nat
  BY <1>1, LoopFrame, AtTrack DEF Looping
<1>3. UNCHANGED <<bytes_read, from, bytespt, padsecs, amt>>
  BY DEF WriteData
<1>4. /\ bytes_read \in Nat /\ bytes \in Nat /\ from \in Nat /\ bytespt \in Nat /\ Len(out[track]) \in Nat
      /\ bytespt % 2 = 0 /\ bytes % 2 = 0
  <2>1. bytes_read \in Nat /\ bytes \in Nat /\ from \in Nat /\ bytespt \in Nat /\ out[track] \in Seq(Int)
    BY <1>1, <1>2, TypesAre
  <2> QED
    BY <1>1, <2>1, LenProperties DEF Counters
<1> DEFINE cap == Cap(T, bytes_read)
           data == cap - from
           h == from \div 2
           m == bytespt \div 2
<1>5. /\ bytes = from /\ Begins(out[track], from)
      /\ bytespt >= 2 * Secs(data) /\ (data = bytespt \/ Through)
      /\ job.mode # "fixed" => bytespt = 2 * Secs(data)
  BY <1>1 DEF Content
<1>6. Len(out[track]) = h
  <2>1. Len(out[track]) = bytes \div 2 + 0 /\ bytes \div 2 \in Nat
    <3>1. Len(out[track]) = bytes \div 2 + 0
      BY <1>1 DEF Content
    <3>2. bytes \div 2 \in Nat
      BY <1>4
    <3> QED
      BY <3>1, <3>2
  <2> QED
    BY <1>5, <2>1
<1>7. /\ T.its > 0 => bytes_read <= T.its
      /\ T.its = 0 => from = 0
      /\ from <= bytes_read /\ bytes_read <= T.size
  BY <1>1 DEF Counters
<1>8. data \in Nat /\ cap \in Nat /\ cap = from + data
  BY <1>2, <1>4, <1>7 DEF Cap, Smaller
<1>9. Secs(cap) = h + Secs(data) /\ Secs(data) \in Nat /\ h \in Nat /\ m \in Nat /\ m >= Secs(data)
      /\ Secs(from) = h /\ bytespt = 2 * m
  <2> HIDE DEF cap, data
  <2>1. from % 2 = 0
    BY <1>4, <1>5
  <2>2. Secs(cap) = h + Secs(data)
    BY <1>4, <1>8, <2>1, SecsSum
  <2>3. Secs(data) \in Nat
    BY <1>8, SecsType
  <2>4. m \in Nat /\ bytespt = 2 * m /\ h \in Nat /\ Secs(from) = h
    BY <1>4, <2>1, Halves
  <2> QED
    BY <1>5, <2>2, <2>3, <2>4
<1>10. CASE \E n \in {bytespt \div 2, bytespt \div 2 - 1} \cap Nat, s \in Addresses :
              /\ Burn(s, Chunk, n) /\ startsec' = s + n /\ bytes' = bytes + 2 * n
              /\ misplaced' = (misplaced \/ (job.mode = "raw" /\ Encoded # s))
              /\ pc' = IF More THEN "data" ELSE "tail"
  <2>1. PICK n \in {bytespt \div 2, bytespt \div 2 - 1} \cap Nat, s \in Addresses :
           /\ Burn(s, Chunk, n) /\ bytes' = bytes + 2 * n
           /\ pc' = IF More THEN "data" ELSE "tail"
    BY <1>10
  <2>2. /\ n \in Nat
        /\ Len(out'[track]) = Len(out[track]) + n
        /\ \A k \in 1 .. Len(out[track]) : out'[track][k] = out[track][k]
        /\ \A k \in 1 .. n : out'[track][Len(out[track]) + k] = Chunk[k]
        /\ \A i \in 1 .. N : i # track => out'[i] = out[i]
        /\ lossy' = (lossy \/ n < bytespt \div 2)
    BY <2>1, ChunkWritten
  <2>3. n = m
    <3>1. ~(n < m)
      <4>1. lossy' = (lossy \/ n < m)
        BY <2>2
      <4> HIDE DEF m
      <4> QED
        BY <4>1
    <3>2. n = m \/ n = m - 1
      BY <2>1
    <3> HIDE DEF m
    <3> QED
      BY <1>9, <3>1, <3>2
  <2> HIDE DEF cap, data, h, m
  <2> DEFINE o == out'[track]
             c == Chunk
  <2>4. /\ Len(o) = h + m
        /\ \A k \in 1 .. h : o[k] = k
        /\ \A k \in 1 .. m : o[h + k] = c[k]
    <3>1. \A k \in 1 .. h : out[track][k] = k
      BY <1>5, <1>9 DEF Begins
    <3> QED
      BY <1>6, <2>2, <2>3, <3>1
  <2>5. \A k \in 1 .. m : c[k] = IF h + k <= Secs(cap) THEN h + k ELSE 0
    <3>1. Len(Chunk) = m
      BY <1>1, ChunkIs DEF m
    <3> QED
      BY <1>1, <3>1, ChunkIs DEF h, cap
  <2>6. Begins(o, cap)
    <3> HIDE DEF o, c
    <3>1. Len(o) >= Secs(cap)
      BY <1>9, <2>4
    <3>2. ASSUME NEW k \in 1 .. Secs(cap) PROVE o[k] = k
      <4>1. CASE k <= h
        <5>1. k \in 1 .. h
          BY <1>9, <4>1
        <5> QED
          BY <2>4, <5>1
      <4>2. CASE ~(k <= h)
        <5> DEFINE j == k - h
        <5>1. j \in 1 .. m /\ h + j = k /\ h + j <= Secs(cap)
          BY <1>9, <4>2
        <5> HIDE DEF j
        <5>2. o[h + j] = c[j] /\ c[j] = h + j
          BY <2>4, <2>5, <5>1
        <5> QED
          BY <5>1, <5>2
      <4> QED
        BY <4>1, <4>2
    <3> QED
      BY <3>1, <3>2 DEF Begins
  <2>7. bytes' = from + bytespt /\ bytes' \div 2 = h + m /\ bytes' \in Nat
    <3>1. from = 2 * h
      BY <1>4, <1>5 DEF h
    <3>2. bytes' = 2 * (h + m)
      BY <1>5, <1>9, <2>1, <2>3, <3>1
    <3>3. h + m \in Nat
      BY <1>9
    <3> HIDE DEF h, m
    <3>4. (2 * (h + m)) \div 2 = h + m
      BY <3>3
    <3> QED
      BY <1>9, <3>1, <3>2, <3>3, <3>4
  <2>8. /\ \A i \in 1 .. track - 1 : Complete(i)'
        /\ \A i \in 1 .. N : i > track => out'[i] = <<>>
    BY <1>1, <2>2, OthersKept
  <2>9. bytes_read = T.size \/ (T.its >= 0 /\ bytes_read >= T.its) => Complete(track)'
    <3> SUFFICES ASSUME bytes_read = T.size \/ (T.its >= 0 /\ bytes_read >= T.its)
                 PROVE  Complete(track)'
      OBVIOUS
    <3>1. Cap(T, T.size) = cap
      BY <1>2, <1>4, <1>7 DEF cap, Cap, Smaller
    <3>2. Begins(out'[track], Cap(T, T.size))
      BY <2>6, <3>1
    <3> QED
      BY <1>2, <3>2 DEF Complete, Begins, Cap, T, Tracks
  <2>10. CASE More
    <3>1. pc' = "data"
      BY <2>1, <2>10
    <3>2. cap = bytes_read
      BY <1>2, <1>4, <2>10 DEF cap, Cap, Smaller, More
    <3>3. \/ bytes' = bytes_read' /\ Begins(out[track], bytes)'
          \/ Through' /\ Complete(track)'
      <4>1. CASE data = bytespt
        <5>1. bytes' = cap
          BY <1>8, <2>7, <4>1
        <5>2. Begins(out'[track], bytes')
          BY <2>6, <5>1
        <5>3. Begins(out[track], bytes)'
          BY <1>2, <5>2 DEF Begins, Secs
        <5> QED
          BY <1>3, <3>2, <5>1, <5>3
      <4>2. CASE Through
        <5>1. Complete(track)' /\ Through'
          BY <1>2, <1>3, <2>9, <4>2 DEF Through
        <5> QED
          BY <5>1
      <4> QED
        BY <1>5, <4>1, <4>2 DEF data, cap
    <3>4. Len(out'[track']) = bytes' \div 2
      BY <1>2, <1>6, <2>2, <2>3, <2>7
    <3> QED
      BY <1>2, <2>8, <3>1, <3>3, <3>4, <2>7 DEF Content, AtWork, InTrack
  <2>11. CASE ~More
    <3>1. pc' = "tail" /\ Complete(track)'
      <4>1. T.its >= 0 /\ bytes_read >= T.its
        BY <1>2, <1>4, <2>11 DEF More
      <4> QED
        BY <2>1, <2>9, <2>11, <4>1
    <3>2. Len(out'[track']) = bytes' \div 2
      BY <1>2, <1>6, <2>2, <2>3, <2>7
    <3> QED
      BY <1>2, <2>8, <3>1, <3>2, <2>7 DEF Content, AtWork, InTrack
  <2> QED
    BY <2>10, <2>11
<1>11. CASE WriteFails /\ UNCHANGED <<startsec, bytes, out, pos, gap, last, misplaced, lossy, cached>>
  <2>1. pc' = pc \/ pc' = "leadout"
    BY <1>11 DEF WriteFails, GiveUp
  <2>2. out' = out /\ bytes' = bytes
    BY <1>11
  <2>3. /\ \A i \in 1 .. track - 1 : Complete(i)'
        /\ \A i \in 1 .. N : i > track => out'[i] = <<>>
    BY <1>1, <2>2, OthersKept
  <2>4. CASE pc' = "leadout"
    BY <1>2, <2>3, <2>4 DEF Content, AtWork, InTrack
  <2>5. CASE pc' = "write"
    <3>1. Begins(out[track], bytes)' /\ data' = data /\ Through' = Through /\ bytes' = from'
      BY <1>2, <1>3, <1>5, <2>2 DEF Begins, Cap, Through
    <3>2. Secs(data)' = Secs(data)
      BY <3>1 DEF Secs
    <3>3. Len(out'[track']) = bytes' \div 2 + 0
      BY <1>1, <1>2, <2>2 DEF Content
    <3>4. bytespt' >= 2 * Secs(data)' /\ (data' = bytespt' \/ Through')
          /\ (job'.mode # "fixed" => bytespt' = 2 * Secs(data)')
      BY <1>2, <1>3, <1>5, <3>1, <3>2
    <3> QED
      BY <1>2, <2>3, <2>5, <3>1, <3>3, <3>4 DEF Content, AtWork, InTrack
  <2> QED
    BY <1>1, <2>1, <2>4, <2>5
<1> QED
  BY <1>10, <1>11 DEF WriteData


LEMMA ContentEnd ==
    ASSUME IndInv, Content, EndOfTrack
    PROVE  Content'
<1>1. Types /\ Flow /\ Counters /\ Next /\ pc = "tail" /\ pc \in AtWork /\ pc \in InTrack
  BY DEF IndInv, Next, Program, WriteTrack, EndOfTrack, AtWork, InTrack
<1>2. /\ T' = T /\ UNCHANGED <<job, track>> /\ N' = N /\ track \in 1 .. N /\ N \in Nat
  BY <1>1, LoopFrame, AtTrack DEF Looping
<1>3. /\ UNCHANGED <<out, bytes>> /\ padsecs' = PadMore /\ amt' = 2 * padsecs'
      /\ pc' = IF padsecs' > 0 THEN "pad" ELSE "close"
  BY DEF EndOfTrack
<1>4. /\ \A i \in 1 .. track - 1 : Complete(i)'
      /\ \A i \in 1 .. N : i > track => out'[i] = <<>>
  BY <1>1, <1>3, OthersKept
<1>5. padsecs' \in Nat /\ bytes \in Nat
  BY <1>1, <1>3, PadMoreIs, TypesAre
<1>6. Len(out'[track']) = bytes' \div 2 + (padsecs' - amt' \div 2)
  <2>1. Len(out[track]) = bytes \div 2 + 0
    BY <1>1 DEF Content
  <2>2. bytes \div 2 \in Nat /\ padsecs' - amt' \div 2 = 0
    BY <1>3, <1>5
  <2> QED
    BY <1>2, <1>3, <2>1, <2>2
<1>7. Complete(track)'
  BY <1>1, <1>2, <1>3 DEF Content, Complete, Tracks
<1>8. pc' = "close" => amt' = 0
  BY <1>3, <1>5
<1>9. pc' \in {"pad", "close"}
  BY <1>3
<1> QED
  BY <1>2, <1>4, <1>6, <1>7, <1>8, <1>9 DEF Content, AtWork, InTrack

LEMMA ContentPad ==
    ASSUME IndInv, Content, PadTrack, ~lossy'
    PROVE  Content'
<1>1. Types /\ Flow /\ Counters /\ Next /\ pc \in {"pad", "pregap"} /\ pc \in AtWork /\ pc \in InTrack
  BY DEF IndInv, Next, Program, WriteTrack, PadTrack, AtWork, InTrack
<1>2. /\ T' = T /\ UNCHANGED <<job, track>> /\ N' = N /\ track \in 1 .. N /\ N \in Nat
      /\ T \in Track
  BY <1>1, LoopFrame, AtTrack DEF Looping
<1>3. UNCHANGED <<bytes_read, bytes, padsecs>>
  BY DEF PadTrack
<1>4. bytes \in Nat /\ padsecs \in Nat /\ amt \in Nat /\ bytes \div 2 \in Nat /\ amt % 2 = 0
  <2>1. bytes \in Nat /\ padsecs \in Nat /\ amt \in Nat /\ amt % 2 = 0
    BY <1>1, TypesAre DEF Counters
  <2> QED
    BY <2>1
<1>5. CASE pc = "pregap"
  <2>1. out' = out /\ pc' \in {"pregap", "data"}
    BY <1>5 DEF PadTrack, Burn, PadNext
  <2>2. /\ \A i \in 1 .. track - 1 : Complete(i)'
        /\ \A i \in 1 .. N : i > track => out'[i] = <<>>
    BY <1>1, <2>1, OthersKept
  <2>3. bytes = bytes_read /\ Begins(out[track], bytes)
    BY <1>5 DEF Content
  <2>4. bytes' = bytes_read' /\ Begins(out[track], bytes)'
    BY <1>2, <1>3, <2>1, <2>3 DEF Begins
  <2>5. Len(out'[track']) = bytes' \div 2 + 0
    BY <1>1, <1>2, <1>3, <1>5, <2>1 DEF Content
  <2> QED
    BY <1>2, <2>1, <2>2, <2>4, <2>5 DEF Content, AtWork, InTrack
<1>6. CASE pc = "pad"
  <2>1. PICK n \in {PadSize, PadSize - 1} \ {0} :
           /\ islast' = (pc = "pad" /\ amt <= 2 * PadSize)
           /\ Burn(startsec, Zeros(PadSize), n)
           /\ amt' = amt - 2 * n
           /\ IF amt' > 0 THEN UNCHANGED pc ELSE pc' = "close"
    BY <1>6 DEF PadTrack, PadNext
  <2>2. /\ n \in Nat \ {0} /\ n <= amt \div 2
        /\ Len(out[track]) \in Nat /\ Len(out'[track]) = Len(out[track]) + n
        /\ \A k \in 1 .. Len(out[track]) : out'[track][k] = out[track][k]
        /\ \A i \in 1 .. N : i # track => out'[i] = out[i]
    BY <1>6, <2>1, ZerosWritten
  <2>3. /\ \A i \in 1 .. track - 1 : Complete(i)'
        /\ \A i \in 1 .. N : i > track => out'[i] = <<>>
    BY <1>1, <2>2, OthersKept
  <2>4. amt' \in Nat /\ amt' \div 2 = amt \div 2 - n
    BY <1>4, <2>1, <2>2
  <2>5. Len(out'[track']) = bytes' \div 2 + (padsecs' - amt' \div 2)
    <3>1. Len(out[track]) = bytes \div 2 + (padsecs - amt \div 2)
      BY <1>6, <1>1 DEF Content
    <3>2. amt \div 2 \in Nat
      BY <1>4
    <3> DEFINE l == Len(out[track])
               a == amt \div 2
               b == bytes \div 2
    <3>3. /\ l = b + (padsecs - a) /\ Len(out'[track]) = l + n /\ amt' \div 2 = a - n
          /\ l \in Nat /\ a \in Nat /\ b \in Nat /\ n \in Nat /\ padsecs \in Nat
      BY <1>4, <2>2, <2>4, <3>1, <3>2
    <3> HIDE DEF l, a
    <3>4. Len(out'[track]) = b + (padsecs - amt' \div 2)
      BY <3>3
    <3> QED
      BY <1>2, <1>3, <3>4
  <2>6. pc' \in {"pad", "close"} /\ (pc' = "close" => amt' = 0)
    BY <1>6, <2>1, <2>4
  <2>7. Complete(track)'
    <3>1. Begins(out[track], Cap(T, T.size))
      BY <1>6 DEF Content, Complete, T
    <3>2. Secs(Cap(T, T.size)) \in Nat
      <4>1. Cap(T, T.size) \in Nat
        BY <1>2, CapType, TrackTypes
      <4> QED
        BY <4>1, SecsType
    <3>3. Begins(out'[track], Cap(T, T.size))
      <4> DEFINE l == Len(out[track])
                 q == Secs(Cap(T, T.size))
      <4>1. l \in Nat /\ n \in Nat /\ q \in Nat /\ l >= q /\ Len(out'[track]) = l + n
        BY <2>2, <3>1, <3>2 DEF Begins
      <4>2. /\ \A k \in 1 .. l : out'[track][k] = out[track][k]
            /\ \A k \in 1 .. q : out[track][k] = k
        BY <2>2, <3>1 DEF Begins
      <4> HIDE DEF l, q
      <4>3. Len(out'[track]) >= q /\ \A k \in 1 .. q : out'[track][k] = k
        BY <4>1, <4>2
      <4> QED
        BY <4>3 DEF Begins, q
    <3> QED
      BY <1>2, <3>3 DEF Complete, Begins, Cap, T, Tracks
  <2> QED
    BY <1>2, <2>3, <2>5, <2>6, <2>7 DEF Content, AtWork, InTrack
<1> QED
  BY <1>1, <1>5, <1>6

\* A loss is not made good.
LEMMA LossStays ==
    ASSUME Next, ~lossy'
    PROVE  ~lossy
BY DEF Next, Program, WriteTrack, Setup, SpeedSelect, open_session, write_leadin, OpenWhole,
       OpenTrack, NextAddress, GetBuf, Busy, WriteData, EndOfTrack, PadTrack, CloseTrack,
       Leadout, Fixate, Exit, Flush, Restore, Signal, Begin, End, media, Burn

LEMMA StepContent ==
    ASSUME IndInv, Next, ~lossy'
    PROVE  Content'
<1>1. Types /\ Flow /\ Content
  BY LossStays DEF IndInv
<1>2. CASE Looping
  BY <1>1, <1>2, ContentOpen, ContentSame, ContentRead, ContentWrite, ContentEnd, ContentPad DEF Looping
<1>3. track \in 0 .. N + 1 /\ N \in Nat /\ N' = N /\ Tracks' = Tracks
  BY <1>1, TypesAre, JobTypes, JobKept
<1>4. CASE Setup \/ SpeedSelect \/ open_session \/ Leadout \/ Fixate \/ Exit \/ Flush \/ Restore \/ Signal
  <2>1. /\ UNCHANGED <<out, track>> /\ pc' \notin AtWork
    BY <1>4 DEF Setup, SpeedSelect, open_session, Leadout, Fixate, Exit, Flush, Restore, Signal,
                Begin, End, Leave, media, AtWork, InTrack
  <2>2. \A i \in 1 .. track - 1 : Complete(i)'
    BY <1>1, <2>1, OthersKept
  <2> QED
    BY <2>1, <2>2 DEF Content, AtWork, InTrack
<1>5. CASE write_leadin
  <2>1. out' = out /\ track' = 1 /\ pc' \in {"open", "flush"} /\ \A i \in 1 .. N : out[i] = <<>>
    BY <1>1, <1>5 DEF write_leadin, Leave, Flow
  <2> QED
    BY <1>3, <2>1 DEF Content, AtWork, InTrack
<1>6. CASE CloseTrack
  <2>1. /\ out' = out /\ pc = "close" /\ pc' \in {"open", "leadout"}
        /\ \/ track' = track + 1
           \/ track' = track /\ pc' = "leadout"
    BY <1>6 DEF CloseTrack, GiveUp, End
  <2>2. \A i \in 1 .. track - 1 : Complete(i)'
    BY <1>1, <2>1, OthersKept
  <2>3. ASSUME NEW i \in 1 .. N, i = track PROVE Complete(i)'
    <3>1. Complete(i)
      BY <1>1, <2>1, <2>3 DEF Content
    <3> QED
      BY <1>3, <2>1, <3>1 DEF Complete
  <2>4. \A i \in 1 .. track' - 1 : Complete(i)'
    <3> SUFFICES ASSUME NEW i \in 1 .. track' - 1 PROVE Complete(i)'
      OBVIOUS
    <3>0. track \in 1 .. N
      BY <1>1, <2>1 DEF Flow, AtWork, InTrack
    <3>1. i \in 1 .. N /\ (i = track \/ i \in 1 .. track - 1)
      BY <1>3, <2>1, <3>0
    <3> QED
      BY <2>2, <2>3, <3>1
  <2>5. pc' = "open" => \A i \in 1 .. N : i > track' \/ i = track' => out'[i] = <<>>
    <3> SUFFICES ASSUME pc' = "open", NEW i \in 1 .. N, i > track' \/ i = track'
                 PROVE  out'[i] = <<>>
      OBVIOUS
    <3>1. i > track
      BY <1>3, <2>1
    <3> QED
      BY <1>1, <2>1, <3>1 DEF Content, AtWork, InTrack
  <2> QED
    BY <1>3, <2>1, <2>4, <2>5 DEF Content, AtWork, InTrack
<1> QED
  BY <1>2, <1>4, <1>5, <1>6 DEF Next, Program, WriteTrack, Looping

\* Padding is not less than what is missing.
LEMMA StepPadding ==
    ASSUME IndInv, Next, ~lossy'
    PROVE  Padding'
<1>1. Types /\ Flow /\ Padding
  BY LossStays DEF IndInv
<1>2. CASE EndOfTrack
  <2>1. T' = T /\ Packets' = Packets /\ padsecs' = PadMore /\ bytes' = bytes
    BY <1>2, LoopFrame, JobKept DEF Looping, EndOfTrack
  <2>2. padsecs \in Nat /\ bytes \in Nat /\ Min \in Nat
    BY <1>1, TypesAre, Sizes
  <2> DEFINE b == bytes \div 2
  <2>3. b \in Nat
    BY <2>2
  <2>4. PadMore = IF (~T.short \/ Packets) /\ padsecs + b < Min THEN Min - b ELSE padsecs
    BY DEF PadMore, Packets
  <2> HIDE DEF b
  <2>5. ~T.short \/ Packets => PadMore + b >= Min
    BY <2>2, <2>3, <2>4
  <2> QED
    BY <2>1, <2>5 DEF Padding, b
<1>3. CASE ~EndOfTrack /\ pc' \in {"pad", "close"}
  <2>1. PadTrack \/ Busy
    BY <1>3 DEF Next, Program, WriteTrack, Setup, SpeedSelect, open_session, write_leadin, OpenWhole,
           OpenTrack, NextAddress, GetBuf, WriteData, WriteFails, GiveUp, Leave, CloseTrack,
           Leadout, Fixate, Exit, Flush, Restore, Signal
  <2>2. pc \in {"pad", "close"} /\ UNCHANGED <<padsecs, bytes>>
    BY <1>3, <2>1 DEF PadTrack, PadNext, Busy, Again
  <2>3. T' = T /\ Packets' = Packets
    BY <2>1, LoopFrame, JobKept DEF Looping
  <2> QED
    BY <1>1, <2>2, <2>3 DEF Padding
<1> QED
  BY <1>2, <1>3 DEF Padding


----------------------------------------------------------------------------
(* The last write                                                          *)

\* A write that filled a sector: what was counted is what was read, or more.
LEMMA CountedWhole ==
    ASSUME IndInv, Content, WriteData, ~lossy', pc' # "write", pc' # "leadout"
    PROVE  \E n \in Nat, s \in Addresses :
             /\ n = bytespt \div 2 /\ Burn(s, Chunk, n)
             /\ bytes' = bytes + 2 * n /\ startsec' = s + n
             /\ misplaced' = (misplaced \/ (job.mode = "raw" /\ Encoded # s))
             /\ 2 * n = bytespt /\ bytes = from
<1>1. Types /\ Flow /\ Counters /\ pc = "write"
  BY DEF IndInv, WriteData
<1>2. PICK n \in {bytespt \div 2, bytespt \div 2 - 1} \cap Nat, s \in Addresses :
        /\ Burn(s, Chunk, n) /\ startsec' = s + n /\ bytes' = bytes + 2 * n
        /\ misplaced' = (misplaced \/ (job.mode = "raw" /\ Encoded # s))
  BY <1>1 DEF WriteData, WriteFails, GiveUp
<1> DEFINE m == bytespt \div 2
<1>3. m \in Nat /\ 2 * m = bytespt
  <2>1. bytespt \in Nat /\ bytespt % 2 = 0
    BY <1>1, TypesAre DEF Counters
  <2> QED
    BY <2>1
<1>4. n \in Nat /\ lossy' = (lossy \/ n < m)
  BY <1>2, ChunkWritten
<1>5. n = m
  <2>1. ~(n < m)
    <3> HIDE DEF m
    <3> QED
      BY <1>4
  <2>2. n = m \/ n = m - 1
    BY <1>2
  <2> HIDE DEF m
  <2> QED
    BY <1>3, <1>4, <2>1, <2>2
<1>6. bytes = from
  BY <1>1 DEF Content
<1> QED
  BY <1>2, <1>3, <1>4, <1>5, <1>6

LEMMA StepLastSaid ==
    ASSUME IndInv, Next, ~lossy', ~Packets
    PROVE  LastSaid'
<1>1. Types /\ Flow /\ Counters /\ Content /\ LastSaid /\ NoScrambled
  BY LossStays DEF IndInv
<1>2. CASE ~Looping
  <2>1. pc' \notin InTrack
    BY <1>2 DEF Looping, Next, Program, WriteTrack, Setup, SpeedSelect, open_session, write_leadin,
           CloseTrack, Leadout, Fixate, Exit, Flush, Restore, Signal, Leave, GiveUp, InTrack
  <2> QED
    BY <2>1 DEF LastSaid, InTrack
<1> SUFFICES ASSUME Looping PROVE LastSaid'
  BY <1>2
<1>3. /\ T' = T /\ UNCHANGED <<job, track>> /\ pc \in AtWork
      /\ T.its \in Int /\ T.size \in Nat /\ T \in Track
  BY <1>1, LoopFrame, AtTrack
<1>4. /\ bytes_read \in Nat /\ from \in Nat /\ bytes \in Nat /\ padsecs \in Nat /\ amt \in Nat
      /\ bytespt \in Nat /\ Min \in Nat /\ Secspt \in Nat /\ Secspt < Min
      /\ islast \in BOOLEAN /\ last \in BOOLEAN
  BY <1>1, TypesAre, Sizes DEF Types
<1>5. job.mode \notin {"variable", "fixed"}
  BY DEF Packets
<1>6. CASE OpenWhole \/ OpenTrack
  <2>1. islast' = FALSE /\ last' = FALSE /\ pc' \in {"pregap", "data", "addr", "leadout"}
    BY <1>6 DEF OpenWhole, OpenTrack, NewTrack, GiveUp
  <2> QED
    BY <2>1 DEF LastSaid
<1>7. CASE NextAddress \/ Busy
  <2>1. /\ UNCHANGED <<islast, last, bytes_read, bytes, padsecs>>
        /\ \/ pc' = "leadout"
           \/ pc' = pc
           \/ pc = "addr" /\ pc' = "data"
    BY <1>7 DEF NextAddress, Busy, GiveUp, Again, media
  <2>2. Through' = Through
    BY <1>3, <2>1 DEF Through
  <2> QED
    BY <1>1, <1>3, <2>1, <2>2 DEF LastSaid
<1>8. CASE GetBuf
  <2>0. pc = "data" /\ last' = last /\ padsecs' = padsecs /\ bytes' = bytes
    BY <1>8 DEF GetBuf, media
  <2>1. CASE Got
    <3>1. /\ bytes_read' \in Nat /\ bytes_read < bytes_read' /\ bytes_read' <= T.size
          /\ Data = bytespt \/ Through'
      BY <1>1, <1>3, <2>0, <2>1, GotIs
    <3>2. pc' = "write"
      <4>1. bytes_read' # bytes_read
        BY <1>4, <3>1
      <4> QED
        BY <1>8, <4>1 DEF GetBuf, Got
    <3>3. ~last /\ ~islast
      <4>1. bytes_read # T.size
        BY <1>3, <1>4, <3>1
      <4> QED
        BY <1>1, <2>0, <4>1 DEF LastSaid
    <3>4. ASSUME islast'
          PROVE  Through' /\ padsecs = 0 /\ (T.short \/ bytes_read' \div 2 >= Min)
      <4>1. (AtEnd \/ Data < bytespt) /\ MaybeLast
        BY <2>1, <3>3, <3>4 DEF Got
      <4>2. padsecs = 0 /\ (T.short \/ bytes_read' \div 2 >= Min)
        BY <1>5, <4>1 DEF MaybeLast
      <4>3. Through'
        <5>1. CASE AtEnd
          BY <1>3, <5>1 DEF AtEnd, Through
        <5>2. CASE Data < bytespt
          <6>1. Data # bytespt
            <7> HIDE DEF Data
            <7> QED
              BY <1>4, <5>2
          <6> QED
            BY <3>1, <6>1
        <5> QED
          BY <4>1, <5>1, <5>2
      <4> QED
        BY <4>2, <4>3
    <3> QED
      BY <1>3, <2>0, <3>2, <3>3, <3>4 DEF LastSaid
  <2>2. CASE pc' = "tail"
    BY <1>1, <1>3, <2>0, <2>2 DEF LastSaid
  <2>3. CASE pc' = "flush"
    BY <2>3 DEF LastSaid
  <2> QED
    BY <1>8, <2>1, <2>2, <2>3 DEF GetBuf, Got, Leave
<1>9. CASE WriteData
  <2>1. pc = "write" /\ UNCHANGED <<bytes_read, from, bytespt, padsecs, islast>>
    BY <1>9 DEF WriteData
  <2>2. CASE pc' = "leadout"
    BY <2>2 DEF LastSaid
  <2>3. CASE pc' = "write"
    <3>1. FALSE
      BY <1>5, <1>9, <2>3 DEF WriteData, WriteFails, GiveUp
    <3> QED
      BY <3>1
  <2>4. CASE pc' # "leadout" /\ pc' # "write"
    <3>1. PICK n \in Nat, s \in Addresses :
             /\ n = bytespt \div 2 /\ Burn(s, Chunk, n)
             /\ bytes' = bytes + 2 * n /\ 2 * n = bytespt /\ bytes = from
      BY <1>1, <1>9, <2>4, CountedWhole
    <3>2. last' = (last \/ islast)
      BY <2>1, <3>1 DEF Burn
    <3>3. pc' = IF More THEN "data" ELSE "tail"
      BY <1>9, <2>4 DEF WriteData, WriteFails, GiveUp
    <3>4. ~last
      BY <1>1, <2>1 DEF LastSaid
    <3>5. CASE ~islast
      <4>1. ~last' /\ ~islast'
        BY <2>1, <3>2, <3>4, <3>5
      <4> QED
        BY <3>3, <4>1 DEF LastSaid
    <3>6. CASE islast
      <4>1. Through /\ padsecs = 0 /\ (T.short \/ bytes_read \div 2 >= Min)
        BY <1>1, <2>1, <3>6 DEF LastSaid
      <4>2. /\ T.its > 0 => bytes_read <= T.its
            /\ T.its = 0 => from = 0 /\ bytes_read <= 2 * Secspt
            /\ from <= bytes_read
        BY <1>1, <2>1 DEF Counters, InTrack
      <4> DEFINE data == Cap(T, bytes_read) - from
      <4>3. bytespt >= 2 * Secs(data) /\ data \in Nat
        <5>1. bytespt >= 2 * Secs(data)
          BY <1>1, <2>1 DEF Content
        <5>2. data \in Nat
          BY <1>3, <1>4, <4>2 DEF Cap, Smaller
        <5> QED
          BY <5>1, <5>2
      <4>4. T.its # 0 => data = bytes_read - from
        BY <1>3, <1>4, <4>2 DEF Cap, Smaller
      <4> HIDE DEF data
      <4>5. 2 * Secs(data) >= data /\ Secs(data) \in Nat
        BY <4>3, SecsType
      <4>6. T.its # 0 => bytes' >= bytes_read
        BY <1>4, <3>1, <4>3, <4>4, <4>5
      <4>7. T.short \/ bytes' \div 2 >= Min
        <5>1. CASE T.its = 0
          BY <1>4, <4>1, <4>2, <5>1
        <5>2. CASE T.its # 0
          <6>1. bytes' \in Nat
            BY <1>4, <3>1
          <6>2. CASE T.short
            BY <6>2
          <6>3. CASE bytes_read \div 2 >= Min
            <7>1. bytes_read >= 2 * Min
              BY <1>4, <6>3
            <7>2. bytes' >= 2 * Min
              BY <1>4, <4>6, <5>2, <6>1, <7>1
            <7>3. Min \in Nat
              BY <1>4
            <7>4. bytes' \div 2 >= Min
              BY <6>1, <7>2, <7>3, HalfOf
            <7> QED
              BY <7>4
          <6> QED
            BY <4>1, <6>2, <6>3
        <5> QED
          BY <5>1, <5>2
      <4>8. More => bytes_read = T.size
        BY <1>3, <1>4, <4>1 DEF More, Through
      <4> QED
        BY <1>3, <2>1, <3>3, <4>1, <4>7, <4>8 DEF LastSaid
    <3> QED
      BY <3>5, <3>6
  <2> QED
    BY <2>2, <2>3, <2>4
<1>10. CASE EndOfTrack
  <2>1. /\ pc = "tail" /\ UNCHANGED <<bytes, last>> /\ padsecs' = PadMore
        /\ pc' = IF padsecs' > 0 THEN "pad" ELSE "close"
    BY <1>10 DEF EndOfTrack
  <2>2. CASE last
    <3>1. padsecs = 0 /\ (T.short \/ bytes \div 2 >= Min)
      BY <1>1, <2>1, <2>2 DEF LastSaid
    <3>2. PadMore = 0
      <4> DEFINE b == bytes \div 2
      <4>1. b \in Nat
        BY <1>4
      <4>2. PadMore = IF ~T.short /\ padsecs + b < Min THEN Min - b ELSE padsecs
        BY <1>5 DEF PadMore
      <4>3. T.short \/ b >= Min
        BY <3>1
      <4> HIDE DEF b
      <4> QED
        BY <1>4, <3>1, <4>1, <4>2, <4>3
    <3>3. pc' = "close"
      BY <2>1, <3>2
    <3> QED
      BY <3>3 DEF LastSaid
  <2>3. CASE ~last
    BY <2>1, <2>3 DEF LastSaid
  <2> QED
    BY <2>2, <2>3
<1>11. CASE PadTrack
  <2>1. pc \in {"pad", "pregap"} /\ UNCHANGED <<bytes_read, bytes, padsecs>>
    BY <1>11 DEF PadTrack
  <2>2. ~last /\ (pc = "pregap" => ~islast)
    BY <1>1, <2>1 DEF LastSaid
  <2>3. PICK n \in {PadSize, PadSize - 1} \ {0} :
           /\ islast' = (pc = "pad" /\ amt <= 2 * PadSize)
           /\ Burn(startsec, Zeros(PadSize), n)
           /\ amt' = amt - 2 * n
           /\ IF amt' > 0 THEN UNCHANGED pc ELSE PadNext
    BY <1>11 DEF PadTrack
  <2>4. last' = islast'
    BY <2>2, <2>3 DEF Burn
  <2>5. CASE pc = "pregap"
    <3>1. ~islast' /\ ~last'
      BY <2>3, <2>4, <2>5
    <3>2. pc' \in {"pregap", "data"}
      BY <2>3, <2>5 DEF PadNext
    <3> QED
      BY <3>1, <3>2 DEF LastSaid
  <2>6. CASE pc = "pad"
    <3>1. CASE amt' > 0
      <4>1. n \in Nat /\ lossy' = (lossy \/ n < PadSize)
        BY <1>11, <2>3, <2>6, ZerosWritten
      <4>2. PadSize \in Nat
        BY <1>1, <2>6, PadSizeIs
      <4> DEFINE p == PadSize
      <4>3. n \in {p, p - 1} /\ p \in Nat /\ n \in Nat /\ lossy' = (lossy \/ n < p)
            /\ islast' = (pc = "pad" /\ amt <= 2 * p)
        BY <2>3, <4>1, <4>2
      <4> HIDE DEF p
      <4>4. ~(n < p)
        BY <4>3
      <4>5. n = p
        BY <4>3, <4>4
      <4>6. ~(amt <= 2 * p)
        BY <1>4, <2>3, <3>1, <4>3, <4>5
      <4>7. ~islast' /\ ~last' /\ pc' = "pad"
        BY <2>3, <2>4, <2>6, <3>1, <4>3, <4>6
      <4> QED
        BY <4>7 DEF LastSaid
    <3>2. CASE ~(amt' > 0)
      <4>1. pc' = "close"
        BY <2>3, <2>6, <3>2 DEF PadNext
      <4> QED
        BY <4>1 DEF LastSaid
    <3> QED
      BY <3>1, <3>2
  <2> QED
    BY <2>1, <2>5, <2>6
<1> QED
  BY <1>6, <1>7, <1>8, <1>9, <1>10, <1>11 DEF Looping


----------------------------------------------------------------------------
(* The addresses in SAO and RAW mode                                       *)

LEMMA PlanKept ==
    ASSUME Next
    PROVE  /\ Plan' = Plan
           /\ \A t \in Track : Current(t)' = Current(t) /\ Gap(t)' = Gap(t)
<1>1. job' = job
  BY JobKept
<1>2. Plan' = Plan
  BY <1>1 DEF Plan, Current, RunOut, Gap, Longer, Padded, N, Tracks
<1>3. ASSUME NEW t \in Track
      PROVE  Current(t)' = Current(t) /\ Gap(t)' = Gap(t)
  BY <1>1 DEF Current, RunOut, Gap, Longer, Padded
<1> QED
  BY <1>2, <1>3

LEMMA StepStarts ==
    ASSUME IndInv, Next, Whole
    PROVE  Starts'
<1>1. Types /\ Flow /\ Starts
  BY DEF IndInv
<1>2. job' = job /\ N' = N /\ Tracks' = Tracks /\ Plan' = Plan /\ N \in Nat \ {0}
      /\ \A i \in 1 .. N : Tracks[i] \in Track
      /\ trackstart \in [1 .. N + 1 -> Int] /\ Pregap \in Nat
  <2>1. job' = job /\ N' = N /\ Tracks' = Tracks /\ Plan' = Plan
    BY JobKept, PlanKept
  <2>2. job \in Jobs /\ trackstart \in [1 .. N + 1 -> Int]
    BY <1>1, TypesAre
  <2>3. N \in Nat \ {0} /\ \A i \in 1 .. N : Tracks[i] \in Track
    BY <2>2, JobTypes
  <2> QED
    BY <2>1, <2>2, <2>3, Sizes
<1>3. ASSUME NEW i \in 1 .. N - 1
      PROVE  /\ i \in 1 .. N /\ i + 1 \in 1 .. N
             /\ trackstart[i + 1] = trackstart[i] + Current(Tracks[i]) + Gap(Tracks[i + 1])
             /\ Current(Tracks[i]) \in Nat /\ Gap(Tracks[i + 1]) \in Nat
             /\ Current(Tracks[i])' = Current(Tracks[i]) /\ Gap(Tracks[i + 1])' = Gap(Tracks[i + 1])
  <2>1. i \in 1 .. N /\ i + 1 \in 1 .. N
    BY <1>2
  <2>2. Tracks[i] \in Track /\ Tracks[i + 1] \in Track
    BY <1>2, <2>1
  <2>3. trackstart[i + 1] = trackstart[i] + Current(Tracks[i]) + Gap(Tracks[i + 1])
    BY <1>1 DEF Starts
  <2>4. Current(Tracks[i]) \in Nat /\ Gap(Tracks[i + 1]) \in Nat
    BY <2>2, PlanTypes
  <2>5. Current(Tracks[i])' = Current(Tracks[i]) /\ Gap(Tracks[i + 1])' = Gap(Tracks[i + 1])
    BY <1>2 DEF Current, RunOut, Gap, Longer, Padded
  <2> QED
    BY <2>1, <2>3, <2>4, <2>5
<1>4. CASE write_leadin
  <2>0. pc = "leadin" /\ pc' \in {"open", "flush"}
    BY <1>4 DEF write_leadin, Leave
  <2>1. trackstart' = trackstart \/ \E n \in {-Pregap, Pregap} : trackstart' = Shift(n)
    BY <1>4 DEF write_leadin
  <2>2. ASSUME NEW i \in 1 .. N - 1
        PROVE  trackstart'[i + 1] = trackstart'[i] + Current(Tracks[i]) + Gap(Tracks[i + 1])
    <3>1. CASE trackstart' = trackstart
      BY <1>3, <3>1
    <3>2. CASE job.mode = "sao" /\ \E n \in {-Pregap, Pregap} : trackstart' = Shift(n)
      <4>1. PICK n \in {-Pregap, Pregap} : trackstart' = Shift(n)
        BY <3>2
      <4>2. n \in Int
        BY <1>2
      <4>3. i \in 1 .. N /\ i + 1 \in 1 .. N /\ i \in 1 .. N + 1 /\ i + 1 \in 1 .. N + 1
        BY <1>2, <1>3
      <4>4. /\ trackstart'[i] = trackstart[i] + n + Pregap
            /\ trackstart'[i + 1] = trackstart[i + 1] + n + Pregap
        BY <3>2, <4>1, <4>3 DEF Shift
      <4>5. trackstart[i] \in Int /\ trackstart[i + 1] \in Int
        BY <1>2, <4>3
      <4> DEFINE c == Current(Tracks[i])
                 g == Gap(Tracks[i + 1])
      <4>6. c \in Nat /\ g \in Nat /\ trackstart[i + 1] = trackstart[i] + c + g
        BY <1>3
      <4> HIDE DEF c, g
      <4>7. trackstart'[i + 1] = trackstart'[i] + c + g
        <5>1. Pregap \in Nat
          BY <1>2
        <5> QED
          BY <4>2, <4>4, <4>5, <4>6, <5>1
      <4> QED
        BY <4>7 DEF c, g
    <3>3. job.mode # "sao" => trackstart' = trackstart
      BY <2>1 DEF Shift
    <3> QED
      BY <2>1, <3>1, <3>2, <3>3
  <2>3. job'.mode = "raw" => trackstart' = Plan'
    <3>1. job.mode = "raw" => trackstart' = trackstart
      BY <2>1 DEF Shift
    <3>2. job.mode = "raw" => trackstart = Plan
      BY <1>1 DEF Starts
    <3> QED
      BY <1>2, <3>1, <3>2
  <2>4. \A i \in 1 .. N' - 1 :
          trackstart'[i + 1] = trackstart'[i] + Current(Tracks[i])' + Gap(Tracks[i + 1])'
    BY <1>2, <1>3, <2>2
  <2> QED
    BY <2>0, <2>3, <2>4 DEF Starts
<1>5. CASE ~write_leadin
  <2>1. ~NextAddress
    BY <1>1 DEF NextAddress, Flow
  <2>2. trackstart' = trackstart
    BY <1>5, <2>1 DEF Next, Program, WriteTrack, Setup, SpeedSelect, open_session, OpenWhole,
         OpenTrack, GetBuf, Busy, WriteData, EndOfTrack, PadTrack, CloseTrack,
         Leadout, Fixate, Exit, Flush, Restore, Signal
  <2>3. pc' \in {"setup", "init", "speed", "session", "leadin"} =>
          pc \in {"setup", "init", "speed", "session", "leadin"}
    <3>1. CASE Looping
      BY <3>1 DEF Looping, OpenWhole, OpenTrack, NextAddress, GetBuf, Busy, Again, WriteData,
                WriteFails, GiveUp, EndOfTrack, PadTrack, PadNext, Leave
    <3>2. CASE ~Looping
      BY <1>5, <3>2 DEF Next, Program, WriteTrack, Looping, Setup, SpeedSelect, open_session,
                CloseTrack, Leadout, Fixate, Exit, Flush, Restore, Signal, GiveUp, Leave
    <3> QED
      BY <3>1, <3>2
  <2>4. \A i \in 1 .. N' - 1 :
          trackstart'[i + 1] = trackstart'[i] + Current(Tracks[i])' + Gap(Tracks[i + 1])'
    BY <1>2, <1>3, <2>2
  <2>5. job'.mode = "raw" \/ pc' \in {"setup", "init", "speed", "session", "leadin"} => trackstart' = Plan'
    BY <1>1, <1>2, <2>2, <2>3 DEF Starts
  <2> QED
    BY <2>4, <2>5 DEF Starts
<1> QED
  BY <1>4, <1>5

\* Only in RAW mode a sector is encoded for an address.
LEMMA StepNotRaw ==
    ASSUME IndInv, Next, ~Whole
    PROVE  ~misplaced'
<1>1. ~misplaced /\ job.mode # "raw"
  BY DEF IndInv, Whole
<1>2. CASE WriteData
  BY <1>1, <1>2 DEF WriteData
<1>3. CASE ~WriteData
  <2>1. misplaced' = misplaced
    BY <1>3 DEF Next, Program, WriteTrack, Setup, SpeedSelect, open_session, write_leadin, OpenWhole,
         OpenTrack, NextAddress, GetBuf, Busy, EndOfTrack, PadTrack, CloseTrack,
         Leadout, Fixate, Exit, Flush, Restore, Signal, Begin, End, media
  <2> QED
    BY <1>1, <2>1
<1> QED
  BY <1>2, <1>3

LEMMA StepAddress ==
    ASSUME IndInv, Next, Whole, ~lossy'
    PROVE  Address'
<1>1. Types /\ Flow /\ Counters /\ Content /\ Starts /\ Address
  BY LossStays DEF IndInv
<1>2. job.mode \in {"sao", "raw"} /\ UNCHANGED job
  BY JobKept DEF Whole
<1>3. CASE WriteData
  <2>1. pc = "write" /\ UNCHANGED <<track, trackstart, from>>
    BY <1>3 DEF WriteData
  <2>2. startsec = trackstart[track] + bytes \div 2 /\ ~misplaced
    BY <1>1, <2>1 DEF Address
  <2>3. CASE pc' = "leadout"
    <3>1. misplaced' = misplaced
      BY <1>3, <2>3 DEF WriteData
    <3> QED
      BY <2>2, <2>3, <3>1 DEF Address
  <2>4. CASE pc' # "leadout"
    <3>1. pc' # "write"
      BY <1>2, <1>3, <2>4 DEF WriteData, WriteFails, GiveUp
    <3>2. PICK n \in Nat, s \in Addresses :
             /\ bytes' = bytes + 2 * n /\ startsec' = s + n
             /\ misplaced' = (misplaced \/ (job.mode = "raw" /\ Encoded # s))
             /\ bytes = from
      BY <1>1, <1>3, <2>4, <3>1, CountedWhole
    <3>3. s = startsec
      BY <1>2, <3>2 DEF Addresses
    <3>4. track \in 1 .. N /\ trackstart[track] \in Int /\ bytes \in Nat /\ bytes % 2 = 0
      <4>1. track \in 1 .. N /\ N \in Nat
        BY <1>1, <2>1, AtTrack DEF AtWork, InTrack
      <4> QED
        BY <1>1, <4>1, TypesAre DEF Counters
    <3>5. bytes' \div 2 = bytes \div 2 + n
      BY <3>2, <3>4
    <3>6. startsec' = trackstart[track] + bytes' \div 2
      <4> DEFINE b == bytes \div 2
                 b2 == bytes' \div 2
      <4>1. b \in Nat /\ b2 = b + n /\ startsec = trackstart[track] + b
        BY <2>2, <3>4, <3>5
      <4> HIDE DEF b, b2
      <4>2. startsec' = trackstart[track] + b2
        BY <3>2, <3>3, <3>4, <4>1
      <4> QED
        BY <4>2 DEF b2
    <3>7. job.mode = "raw" => Encoded = s
      <4>1. job.mode = "raw" => trackstart = Plan
        BY <1>1 DEF Starts
      <4> QED
        BY <2>2, <3>2, <3>3, <4>1 DEF Encoded
    <3>8. ~misplaced'
      BY <2>2, <3>2, <3>7
    <3> QED
      BY <2>1, <3>6, <3>8 DEF Address
  <2> QED
    BY <2>3, <2>4
<1>4. CASE ~WriteData
  <2>1. misplaced' = misplaced
    BY <1>4 DEF Next, Program, WriteTrack, Setup, SpeedSelect, open_session, write_leadin, OpenWhole,
         OpenTrack, NextAddress, GetBuf, Busy, EndOfTrack, PadTrack, CloseTrack,
         Leadout, Fixate, Exit, Flush, Restore, Signal, Begin, End, media
  <2>2. CASE pc' \notin {"data", "write"}
    BY <1>1, <2>1, <2>2 DEF Address
  <2>3. CASE OpenWhole /\ pc' = "data"
    <3>1. startsec' = trackstart[track] /\ bytes' = 0 /\ UNCHANGED <<track, trackstart>>
      BY <2>3 DEF OpenWhole, NewTrack
    <3>2. trackstart[track] \in Int
      <4>1. track \in 1 .. N /\ N \in Nat
        BY <1>1, <2>3, AtTrack DEF OpenWhole, AtWork
      <4> QED
        BY <1>1, <4>1, TypesAre
    <3>3. startsec' = trackstart'[track'] + bytes' \div 2
      BY <3>1, <3>2
    <3> QED
      BY <1>1, <2>1, <3>3 DEF Address
  <2>4. CASE PadTrack /\ pc' = "data"
    <3>1. pc = "pregap" /\ UNCHANGED <<bytes, track, trackstart>>
      BY <2>4 DEF PadTrack, PadNext
    <3>2. bytes = 0
      BY <1>1, <3>1 DEF Counters
    <3>3. startsec' = trackstart[track]
      BY <2>4, <3>1 DEF PadTrack, PadNext
    <3>4. trackstart[track] \in Int
      <4>1. track \in 1 .. N /\ N \in Nat
        BY <1>1, <3>1, AtTrack DEF AtWork, InTrack
      <4> QED
        BY <1>1, <4>1, TypesAre
    <3>5. startsec' = trackstart'[track'] + bytes' \div 2
      BY <3>1, <3>2, <3>3, <3>4
    <3> QED
      BY <1>1, <2>1, <3>5 DEF Address
  <2>5. CASE (GetBuf \/ Busy) /\ pc' \in {"data", "write"}
    <3>1. pc \in {"data", "write"} /\ UNCHANGED <<startsec, bytes, track, trackstart>>
      BY <2>5 DEF GetBuf, Busy, Again, media
    <3> QED
      BY <1>1, <2>1, <3>1 DEF Address
  <2>6. ~NextAddress
    BY <1>1 DEF NextAddress, Flow
  <2>7. pc' \in {"data", "write"} => OpenWhole \/ PadTrack \/ GetBuf \/ Busy
    BY <1>4, <2>6 DEF Next, Program, WriteTrack, Setup, SpeedSelect, open_session, write_leadin,
         OpenTrack, EndOfTrack, CloseTrack, GiveUp, Leave,
         Leadout, Fixate, Exit, Flush, Restore, Signal
  <2>8. OpenWhole \/ PadTrack => pc' # "write"
    BY DEF OpenWhole, PadTrack, PadNext
  <2> QED
    BY <2>2, <2>3, <2>4, <2>5, <2>7, <2>8
<1> QED
  BY <1>3, <1>4


\* The length of a track that was written and padded is the one of the plan.
LEMMA AsPlanned ==
    ASSUME IndInv, Whole, pc \in AtWork, padsecs = Padded(T), bytes = 2 * Secs(T.its)
    PROVE  Secs(T.its) \in Nat /\ PadMore \in Nat /\ Secs(T.its) + PadMore = Current(T)
<1>1. Types /\ Flow
  BY DEF IndInv
<1>2. /\ T \in Track /\ T.its \in Int /\ T.its >= 0 /\ T.short \in BOOLEAN /\ Padded(T) \in Nat
      /\ job.mode \in {"sao", "raw"} /\ Min \in Nat
  BY <1>1, AtTrack, Sizes DEF Whole
<1> DEFINE z == Secs(T.its)
           p == Padded(T)
<1>3. z \in Nat
  <2>1. T.its \in Nat
    BY <1>2
  <2> QED
    BY <2>1, SecsType
<1>4. RunOut(T) = 0
  BY <1>2 DEF RunOut
<1>5. Current(T) = Longer(T, z + p) + 0
  BY <1>2, <1>4 DEF Current
<1>6. bytes \div 2 = z
  <2>1. bytes = 2 * z
    OBVIOUS
  <2> HIDE DEF z
  <2> QED
    BY <1>3, <2>1
<1>7. PadMore = IF ~T.short /\ p + z < Min THEN Min - z ELSE p
  BY <1>2, <1>6 DEF PadMore
<1> HIDE DEF z, p
<1>8. p \in Nat
  BY <1>2 DEF p
<1>9. z + PadMore = Current(T) /\ PadMore \in Nat
  BY <1>2, <1>3, <1>5, <1>7, <1>8 DEF Longer
<1> QED
  BY <1>3, <1>9 DEF z

\* A write where the last one ended.
LEMMA NoGap ==
    ASSUME ~gap, pos \in {None, startsec}, NEW b, NEW n, Burn(startsec, b, n)
    PROVE  ~gap' /\ pos' = startsec + n
BY DEF Burn

LEMMA StepJoined ==
    ASSUME IndInv, Next, Whole, ~lossy', ~ShortInput
    PROVE  Joined'
<1>1. Types /\ Flow /\ Counters /\ Content /\ Starts /\ Address /\ Joined
  BY LossStays DEF IndInv
<1>2. /\ job' = job /\ N' = N /\ Tracks' = Tracks /\ job.mode \in {"sao", "raw"}
      /\ N \in Nat \ {0} /\ track \in 0 .. N + 1 /\ startsec \in Int /\ amt \in Nat /\ pos \in Int
      /\ trackstart \in [1 .. N + 1 -> Int]
      /\ \A i \in 1 .. N : Tracks[i] \in Track
  BY <1>1, JobKept, TypesAre, JobTypes DEF Whole
<1>3. pc \in AtWork => /\ track \in 1 .. N /\ trackstart[track] \in Int
                       /\ Current(T) \in Nat /\ Gap(T) \in Nat /\ T.pregap \in Nat
                       /\ T.its \in Int /\ T.its >= 0 /\ T.size \in Nat /\ T.size >= T.its
  <2> SUFFICES ASSUME pc \in AtWork
               PROVE  /\ track \in 1 .. N /\ trackstart[track] \in Int
                      /\ Current(T) \in Nat /\ Gap(T) \in Nat /\ T.pregap \in Nat
                      /\ T.its \in Int /\ T.its >= 0 /\ T.size \in Nat /\ T.size >= T.its
    OBVIOUS
  <2>1. /\ track \in 1 .. N /\ Current(T) \in Nat /\ Gap(T) \in Nat /\ T.pregap \in Nat
        /\ T.its \in Int /\ T.its >= 0 /\ T.size \in Nat
    BY <1>1, AtTrack
  <2>2. ~(T.size < T.its)
    BY <2>1 DEF ShortInput, T
  <2> QED
    BY <1>2, <2>1, <2>2
<1>4. ~gap
  BY <1>1 DEF Joined
<1>5. CASE pc' \in Leaving
  <2>1. gap' = gap
    BY <1>5 DEF Next, Program, WriteTrack, Setup, SpeedSelect, open_session, write_leadin, OpenWhole,
           OpenTrack, NextAddress, GetBuf, Busy, Again, WriteData, WriteFails, GiveUp, EndOfTrack,
           PadTrack, PadNext, CloseTrack,
           Leadout, Fixate, Exit, Flush, Restore, Signal, Begin, End, media, Leaving, Leave
  <2> QED
    BY <1>4, <1>5, <2>1 DEF Joined, Leaving, Closing
<1>6. CASE Setup \/ SpeedSelect \/ open_session
  <2>1. gap' = gap /\ pc' \in {"init", "speed", "session", "leadin", "flush"}
    BY <1>6 DEF Setup, SpeedSelect, open_session, Begin, media, Leave
  <2> QED
    BY <1>4, <2>1 DEF Joined, Closing
<1>7. CASE write_leadin
  <2>1. gap' = gap /\ pc' \in {"open", "flush"} /\ pos' = None
    BY <1>7 DEF write_leadin, Leave
  <2> QED
    BY <1>4, <2>1 DEF Joined, Closing
<1>8. CASE Leadout
  <2>1. /\ pc = "leadout" /\ pc' \in {"exit", "fixate"} /\ UNCHANGED <<errs, pos, trackstart>>
        /\ gap' = (gap \/ (job.mode = "raw" /\ errs = 0 /\ pos \notin {None, trackstart[N + 1]}))
    BY <1>8 DEF Leadout, over
  <2>2. errs = 0 => pos \in {None, trackstart[N] + Current(Tracks[N])}
    BY <1>1, <2>1 DEF Joined, Closing
  <2>3. job.mode = "raw" => trackstart[N + 1] = trackstart[N] + Current(Tracks[N])
    <3>1. job.mode = "raw" => trackstart = Plan
      BY <1>1 DEF Starts
    <3>2. Plan[N + 1] = Plan[N] + Current(Tracks[N])
      BY <1>1, TypesAre, PlanIs
    <3> QED
      BY <3>1, <3>2
  <2>4. ~gap'
    BY <1>4, <2>1, <2>2, <2>3
  <2>5. errs' = 0 => pos' \in {None, trackstart'[N'] + Current(Tracks[N])'}
    <3>1. Current(Tracks[N])' = Current(Tracks[N])
      BY <1>2 DEF Current, RunOut, Longer, Padded
    <3> QED
      BY <1>2, <2>1, <2>2, <3>1
  <2> QED
    BY <2>1, <2>4, <2>5 DEF Joined
<1>9. CASE Fixate
  <2>1. /\ pc = "fixate" /\ pc' = "exit" /\ UNCHANGED <<errs, pos, trackstart, gap>>
    BY <1>9 DEF Fixate, End
  <2>2. errs = 0 => pos \in {None, trackstart[N] + Current(Tracks[N])}
    BY <1>1, <2>1 DEF Joined, Closing
  <2>3. errs' = 0 => pos' \in {None, trackstart'[N'] + Current(Tracks[N])'}
    <3>1. Current(Tracks[N])' = Current(Tracks[N])
      BY <1>2 DEF Current, RunOut, Longer, Padded
    <3> QED
      BY <1>2, <2>1, <2>2, <3>1
  <2> QED
    BY <1>4, <2>1, <2>3 DEF Joined
<1>10. CASE CloseTrack
  <2>1. /\ pc = "close" /\ track' = track + 1 /\ pc' = (IF track < N THEN "open" ELSE "leadout")
        /\ UNCHANGED <<gap, pos, trackstart>>
    BY <1>10 DEF CloseTrack, End
  <2>2. pos \in {None, trackstart[track] + Current(T)}
    BY <1>1, <2>1 DEF Joined
  <2>3. pc \in AtWork
    BY <2>1 DEF AtWork, InTrack
  <2>4. CASE track < N
    <3>1. track \in 1 .. N - 1 /\ track + 1 \in 1 .. N
      BY <1>2, <1>3, <2>3, <2>4
    <3>2. trackstart[track + 1] = trackstart[track] + Current(T) + Gap(Tracks[track + 1])
      BY <1>1, <3>1 DEF Starts, T
    <3>3. Gap(Tracks[track + 1]) \in Nat
      BY <1>2, <3>1, PlanTypes
    <3>4. trackstart[track + 1] - Gap(Tracks[track + 1]) = trackstart[track] + Current(T)
      <4> DEFINE g == Gap(Tracks[track + 1])
                 c == Current(T)
      <4>1. g \in Nat /\ c \in Nat /\ trackstart[track] \in Int /\ trackstart[track + 1] = trackstart[track] + c + g
        BY <1>3, <2>3, <3>2, <3>3
      <4> HIDE DEF g, c
      <4>2. trackstart[track + 1] - g = trackstart[track] + c
        BY <4>1
      <4> QED
        BY <4>2 DEF g, c
    <3>5. Gap(T)' = Gap(Tracks[track + 1])
      BY <1>2, <2>1 DEF Gap, T
    <3>6. pos' \in {None, trackstart'[track'] - Gap(T)'}
      BY <2>1, <2>2, <3>4, <3>5
    <3> QED
      BY <1>4, <2>1, <2>4, <3>6 DEF Joined, Closing
  <2>5. CASE ~(track < N)
    <3>1. track = N
      BY <1>2, <1>3, <2>3, <2>5
    <3>2. Current(Tracks[N])' = Current(Tracks[N])
      BY <1>2 DEF Current, RunOut, Longer, Padded
    <3>3. pos' \in {None, trackstart'[N'] + Current(Tracks[N])'}
      BY <1>2, <2>1, <2>2, <3>1, <3>2 DEF T
    <3> QED
      BY <1>4, <2>1, <2>5, <3>3 DEF Joined
  <2> QED
    BY <2>4, <2>5
<1>11. CASE Looping /\ pc' = "leadout"
  <2>1. errs' = errs + 1 /\ gap' = gap
    BY <1>11 DEF Looping, OpenWhole, OpenTrack, NextAddress, GetBuf, Busy, Again, WriteData, WriteFails,
                 GiveUp, EndOfTrack, PadTrack, PadNext, Leave
  <2>2. errs = 0
    BY <1>1, <1>11, LoopFrame, AtTrack
  <2> QED
    BY <1>4, <1>11, <2>1, <2>2 DEF Joined
<1>12. CASE Flush \/ Restore \/ Signal
  <2>1. pc' \in Leaving
    BY <1>12 DEF Flush, Restore, Signal, Leaving
  <2> QED
    BY <1>5, <2>1
<1>13. CASE Exit
  <2>1. pc' \in Leaving
    BY <1>13 DEF Exit, Leave, Leaving
  <2> QED
    BY <1>5, <2>1
<1>14. CASE Looping /\ pc' \notin Leaving \cup {"leadout"}
  <2>1. /\ T' = T /\ UNCHANGED <<job, track>> /\ pc \in AtWork
        /\ Gap(T)' = Gap(T) /\ Current(T)' = Current(T)
    <3>1. T' = T /\ UNCHANGED <<job, track>> /\ pc \in AtWork
      BY <1>14, LoopFrame
    <3> QED
      BY <3>1 DEF Gap, Current, RunOut, Longer, Padded
  <2>2. /\ track \in 1 .. N /\ trackstart[track] \in Int
        /\ Current(T) \in Nat /\ Gap(T) \in Nat /\ T.pregap \in Nat
        /\ T.its \in Int /\ T.its >= 0 /\ T.size \in Nat /\ T.size >= T.its
    BY <1>3, <2>1
  <2> DEFINE ts == trackstart[track]
             cu == Current(T)
             ga == Gap(T)
             z == Secs(T.its)
  <2>3. z \in Nat /\ z = Secs(T.its)
    <3>1. T.its \in Nat
      BY <2>2
    <3> QED
      BY <3>1, SecsType
  <2>4. trackstart' = trackstart /\ trackstart'[track'] = ts
    <3>1. ~NextAddress
      BY <1>1 DEF NextAddress, Flow
    <3> QED
      BY <1>14, <2>1, <3>1 DEF Looping, OpenWhole, OpenTrack, GetBuf, Busy, WriteData, EndOfTrack, PadTrack
  <2>5. CASE OpenWhole
    <3>1. /\ pc = "open" /\ pos' = pos /\ gap' = gap
          /\ IF HasPregap
             THEN pc' = "pregap" /\ startsec' = ts - T.pregap /\ amt' = 2 * T.pregap
             ELSE pc' = "data" /\ startsec' = ts /\ amt' = 0
      BY <2>5 DEF OpenWhole
    <3>2. pos \in {None, ts - ga}
      BY <1>1, <3>1 DEF Joined
    <3>3. CASE HasPregap
      <4>1. ga = T.pregap
        BY <3>3 DEF HasPregap, Gap
      <4>2. startsec' + amt' \div 2 = ts
        BY <2>2, <3>1, <3>3
      <4>3. pos' \in {None, startsec'}
        BY <3>1, <3>2, <3>3, <4>1
      <4> QED
        BY <1>4, <2>4, <3>1, <3>3, <4>2, <4>3 DEF Joined, Closing
    <3>4. CASE ~HasPregap
      <4>1. ga = 0
        BY <2>2, <3>4 DEF HasPregap, Gap
      <4>2. pos' \in {None, startsec'}
        BY <2>2, <3>1, <3>2, <3>4, <4>1
      <4> QED
        BY <1>4, <3>1, <3>4, <4>2 DEF Joined, Closing
    <3> QED
      BY <3>3, <3>4
  <2>6. CASE GetBuf
    <3>1. /\ pc = "data" /\ UNCHANGED <<pos, gap, startsec, bytes>> /\ pc' \in {"write", "tail"}
      BY <1>14, <2>6 DEF GetBuf, media, Leave, Leaving
    <3>2. pos' \in {None, startsec'}
      BY <1>1, <3>1 DEF Joined
    <3>3. CASE pc' = "write"
      BY <1>4, <3>1, <3>2, <3>3 DEF Joined, Closing
    <3>4. CASE pc' = "tail"
      <4>1. ~(Read > 0)
        <5>1. Read <= 0
          BY <2>6, <3>4 DEF GetBuf, Leave
        <5>2. Read \in Int
          <6>1. bytes_read \in Nat /\ bytespt \in Nat
            BY <1>1, TypesAre
          <6>2. Wanted \in Int
            BY <2>2, <6>1 DEF Wanted, Smaller
          <6> HIDE DEF Wanted
          <6> QED
            BY <2>2, <6>1, <6>2 DEF Read, Smaller
        <5> HIDE DEF Read
        <5> QED
          BY <5>1, <5>2
      <4>2. Through
        BY <1>1, <3>1, <4>1, NothingLeft
      <4>3. /\ T.its = 0 => bytes_read = 0 /\ bytes = 0
            /\ T.its > 0 => bytes_read < T.its
        BY <1>1, <3>1 DEF Counters
      <4>4. bytes_read \in Nat
        BY <1>1, TypesAre
      <4>5. T.its = 0 /\ bytes = 0
        BY <2>2, <4>2, <4>3, <4>4 DEF Through
      <4>6. z = 0
        BY <4>5 DEF Secs
      <4>7. startsec = ts + bytes \div 2
        BY <1>1, <3>1 DEF Address
      <4>8. startsec' = ts + z /\ bytes' = 2 * z
        BY <2>2, <3>1, <4>5, <4>6, <4>7
      <4>9. z' = z
        BY <2>1 DEF Secs
      <4> QED
        BY <1>4, <2>4, <3>1, <3>2, <3>4, <4>8, <4>9 DEF Joined, Closing
    <3> QED
      BY <3>1, <3>3, <3>4
  <2>7. CASE Busy
    <3>1. /\ pc \in {"write", "pad", "pregap"} /\ pc' = pc /\ UNCHANGED <<pos, gap, startsec, amt>>
      BY <2>7 DEF Busy, Again, media
    <3> QED
      BY <1>1, <2>1, <2>4, <3>1 DEF Joined, Closing
  <2>8. CASE WriteData
    <3>1. pc = "write" /\ UNCHANGED <<bytes_read, from, bytespt, padsecs>>
      BY <2>8 DEF WriteData
    <3>2. pc' # "write"
      BY <1>2, <2>8 DEF WriteData, WriteFails, GiveUp
    <3>3. PICK n \in Nat, s \in Addresses :
             /\ n = bytespt \div 2 /\ Burn(s, Chunk, n)
             /\ bytes' = bytes + 2 * n /\ startsec' = s + n
             /\ 2 * n = bytespt /\ bytes = from
      BY <1>1, <1>14, <2>8, <3>2, CountedWhole
    <3>4. s = startsec
      BY <1>2, <3>3 DEF Addresses
    <3>5. ~gap' /\ pos' = startsec'
      <4>1. pos \in {None, startsec}
        BY <1>1, <3>1 DEF Joined
      <4> HIDE DEF Chunk
      <4> QED
        BY <1>4, <3>3, <3>4, <4>1, NoGap
    <3>6. pc' = IF More THEN "data" ELSE "tail"
      BY <1>14, <2>8, <3>2 DEF WriteData, WriteFails, GiveUp
    <3>7. CASE More
      <4>1. pc' = "data"
        BY <3>6, <3>7
      <4> QED
        BY <3>5, <4>1 DEF Joined, Closing
    <3>8. CASE ~More
      <4>1. pc' = "tail"
        BY <3>6, <3>8
      <4>2. bytes_read \in Nat /\ from \in Nat /\ bytes \in Nat /\ bytes % 2 = 0 /\ bytespt \in Nat
        BY <1>1, TypesAre DEF Counters
      <4>3. bytes_read >= T.its
        BY <2>2, <3>8, <4>2 DEF More
      <4> DEFINE cap == Cap(T, bytes_read)
                 data == cap - from
      <4>4. cap = T.its
        BY <2>2, <4>2, <4>3 DEF Cap, Smaller
      <4>5. bytespt = 2 * Secs(data)
        BY <1>1, <1>2, <3>1 DEF Content
      <4>6. from <= T.its
        <5>1. /\ T.its > 0 => bytes_read <= T.its
              /\ T.its = 0 => from = 0
              /\ from <= bytes_read
          BY <1>1, <3>1 DEF Counters, InTrack
        <5> QED
          BY <2>2, <4>2, <5>1
      <4>7. data \in Nat /\ from + data = T.its
        BY <2>2, <4>2, <4>4, <4>6
      <4> HIDE DEF cap, data
      <4>8. z = from \div 2 + Secs(data)
        <5>1. from % 2 = 0
          BY <3>3, <4>2
        <5>2. Secs(from + data) = from \div 2 + Secs(data)
          BY <4>2, <4>7, <5>1, SecsSum
        <5> QED
          BY <4>7, <5>2
      <4>9. startsec = ts + bytes \div 2
        BY <1>1, <3>1 DEF Address
      <4>10. bytes' = 2 * z /\ startsec' = ts + z
        <5> DEFINE h == from \div 2
                   d == Secs(data)
        <5>1. h \in Nat /\ from = 2 * h
          BY <3>3, <4>2
        <5>2. d \in Nat /\ n = d
          <6>1. d \in Nat
            BY <4>7, SecsType
          <6> HIDE DEF d
          <6>2. 2 * n = 2 * d
            BY <3>3, <4>5 DEF d
          <6> QED
            BY <3>3, <6>1, <6>2
        <5>3. z = h + d /\ startsec = ts + h
          BY <3>3, <4>8, <4>9
        <5> HIDE DEF h, d, ts, z
        <5>4. ts \in Int
          BY <2>2 DEF ts
        <5> QED
          BY <3>3, <3>4, <5>1, <5>2, <5>3, <5>4
      <4>11. z' = z
        BY <2>1 DEF Secs
      <4> QED
        BY <2>4, <3>5, <4>1, <4>10, <4>11 DEF Joined, Closing
    <3> QED
      BY <3>7, <3>8
  <2>9. CASE EndOfTrack
    <3>1. /\ pc = "tail" /\ padsecs' = PadMore /\ amt' = 2 * padsecs'
          /\ pc' = (IF padsecs' > 0 THEN "pad" ELSE "close")
          /\ UNCHANGED <<startsec, bytes, pos, gap>>
      BY <2>9 DEF EndOfTrack
    <3>2. padsecs = Padded(T)
      BY <1>1, <3>1 DEF Counters, InTrack
    <3>3. startsec = ts + z /\ bytes = 2 * z /\ pos \in {None, startsec}
      BY <1>1, <3>1 DEF Joined
    <3>4. padsecs' \in Nat /\ z + padsecs' = cu
      BY <2>1, <3>1, <3>2, <3>3, AsPlanned
    <3> HIDE DEF z, cu, ts
    <3>5. ts \in Int
      BY <2>2 DEF ts
    <3>6. startsec' + amt' \div 2 = ts + cu
      BY <2>3, <3>1, <3>3, <3>4, <3>5
    <3>7. pc' = "close" => pos' \in {None, ts + cu}
      <4>1. padsecs' > 0 \/ padsecs' = 0
        BY <3>4
      <4>2. padsecs' = 0 => cu = z
        BY <2>3, <3>4
      <4> QED
        BY <3>1, <3>3, <4>1, <4>2
    <3>8. cu' = cu /\ trackstart'[track'] = ts
      BY <2>1, <2>4 DEF cu, ts
    <3> QED
      BY <1>4, <3>1, <3>3, <3>6, <3>7, <3>8 DEF Joined, Closing, cu
  <2>10. CASE PadTrack
    <3>1. PICK n \in {PadSize, PadSize - 1} \ {0} :
           /\ islast' = (pc = "pad" /\ amt <= 2 * PadSize)
           /\ Burn(startsec, Zeros(PadSize), n)
           /\ amt' = amt - 2 * n
           /\ IF amt' > 0 THEN startsec' = startsec + n /\ UNCHANGED pc ELSE PadNext
      BY <1>14, <2>10 DEF PadTrack
    <3>2. n \in Nat \ {0} /\ n <= amt \div 2 /\ amt % 2 = 0 /\ amt \in Nat
      BY <1>1, <1>2, <2>10, <3>1, PadIs DEF Counters
    <3>3. pc \in {"pad", "pregap"}
      BY <2>10 DEF PadTrack
    <3>4. ~gap' /\ pos' = startsec + n
      <4>1. pos \in {None, startsec}
        BY <1>1, <3>3 DEF Joined
      <4> DEFINE b == Zeros(PadSize)
      <4>2. Burn(startsec, b, n)
        BY <3>1
      <4> HIDE DEF b
      <4> QED
        BY <1>4, <4>1, <4>2, NoGap
    <3> DEFINE end == IF pc = "pregap" THEN ts ELSE ts + cu
    <3>5. startsec + amt \div 2 = end
      BY <1>1, <3>3 DEF Joined
    <3>6. startsec + n + amt' \div 2 = end /\ amt' \in Nat /\ (~(amt' > 0) => startsec + n = end)
      <4> HIDE DEF end
      <4> DEFINE a == amt \div 2
      <4>1. a \in Nat /\ amt = 2 * a /\ n \in Nat /\ n <= a /\ startsec + a = end
        BY <3>2, <3>5
      <4> HIDE DEF a
      <4>2. amt' = 2 * (a - n)
        BY <3>1, <4>1
      <4>3. a - n \in Nat
        BY <4>1
      <4>4. amt' \div 2 = a - n /\ amt' \in Nat /\ (~(amt' > 0) => a = n)
        BY <4>1, <4>2, <4>3
      <4>5. startsec \in Int
        BY <1>2
      <4>6. startsec + n + (a - n) = end
        BY <4>1, <4>5
      <4> QED
        BY <4>1, <4>4, <4>6
    <3>7. CASE amt' > 0
      <4>1. startsec' = startsec + n /\ pc' = pc
        BY <3>1, <3>7
      <4>2. startsec' + amt' \div 2 = end
        BY <3>6, <4>1
      <4> QED
        BY <2>1, <2>4, <3>3, <3>4, <4>1, <4>2 DEF Joined, Closing
    <3>8. CASE ~(amt' > 0) /\ pc = "pregap"
      <4>1. pc' = "data" /\ startsec' = ts
        BY <3>1, <3>8 DEF PadNext
      <4> QED
        BY <3>4, <3>6, <3>8, <4>1 DEF Joined, Closing
    <3>9. CASE ~(amt' > 0) /\ pc = "pad"
      <4>1. pc' = "close"
        BY <3>1, <3>9 DEF PadNext
      <4>2. pos' = ts + cu
        BY <3>4, <3>6, <3>9
      <4> QED
        BY <2>1, <2>4, <3>4, <4>1, <4>2 DEF Joined, Closing
    <3> QED
      BY <3>3, <3>7, <3>8, <3>9
  <2>11. ~OpenTrack /\ ~NextAddress
    BY <1>1 DEF OpenTrack, NextAddress, Flow
  <2> QED
    BY <1>14, <2>5, <2>6, <2>7, <2>8, <2>9, <2>10, <2>11 DEF Looping
<1> QED
  BY <1>5, <1>6, <1>7, <1>8, <1>9, <1>10, <1>11, <1>12, <1>13, <1>14 DEF Next, Program, WriteTrack, Looping


----------------------------------------------------------------------------
(* The theorems                                                            *)

LEMMA InitInv == Init => IndInv
<1> SUFFICES ASSUME Init PROVE IndInv
  OBVIOUS
<1>1. Types
  BY InitTypes
<1>2. /\ pc = "setup" /\ errs = 0 /\ status = "running" /\ track = 0
      /\ bytespt = 0 /\ bytes = 0 /\ amt = 0 /\ misplaced = FALSE /\ gap = FALSE
      /\ out = [i \in 1 .. N |-> <<>>] /\ trackstart = Plan
  BY DEF Init
<1>3. N \in Nat /\ job \in Jobs
  BY <1>1, TypesAre, JobTypes
<1>4. \A i \in 1 .. N : out[i] = <<>>
  BY <1>2
<1>5. Flow
  BY <1>2, <1>4 DEF Flow, AtWork, InTrack, Closing, Leaving
<1>6. Page
  BY <1>2 DEF Page, AtWork, InTrack
<1>7. Counters
  BY <1>2 DEF Counters, InTrack
<1>8. SectorSizeRestored
  BY <1>2 DEF SectorSizeRestored, Ended
<1>9. NoScrambled
  <2>1. \A i \in 1 .. N : DOMAIN out[i] = {}
    BY <1>4
  <2> QED
    BY <2>1 DEF NoScrambled
<1>10. Content
  BY <1>2, <1>3 DEF Content, AtWork, InTrack
<1>11. Padding
  BY <1>2 DEF Padding
<1>12. LastSaid
  BY <1>2 DEF LastSaid
<1>13. Starts
  BY <1>2, <1>3, PlanIs DEF Starts
<1>14. Address /\ ~misplaced
  BY <1>2 DEF Address
<1>15. Joined
  BY <1>2 DEF Joined, Closing
<1> QED
  BY <1>1, <1>5, <1>6, <1>7, <1>8, <1>9, <1>10, <1>11, <1>12, <1>13, <1>14, <1>15 DEF IndInv

LEMMA StepInv == IndInv /\ [Next]_vars => IndInv'
<1> SUFFICES ASSUME IndInv, [Next]_vars PROVE IndInv'
  OBVIOUS
<1>1. CASE UNCHANGED vars
  <2>1. /\ UNCHANGED <<job, pc, page, secsize, refused, track, trackstart, errs, status, intrs, cached>>
        /\ UNCHANGED <<startsec, bytes_read, from, bytes, bytespt, islast, padsecs, amt, retried, busy>>
        /\ UNCHANGED <<out, pos, gap, last, scrambled, misplaced, lossy>>
    BY <1>1 DEF vars, drive, loop, media, over
  <2>2. /\ N' = N /\ Tracks' = Tracks /\ T' = T /\ Whole' = Whole /\ Packets' = Packets
        /\ ShortInput' = ShortInput /\ Through' = Through
    BY <2>1 DEF N, Tracks, T, Whole, Packets, ShortInput, Through
  <2>3. Types' /\ Flow' /\ Page' /\ SectorSizeRestored' /\ NoScrambled'
    <3>1. Types' = Types
      BY <2>1, <2>2 DEF Types, TypeOK
    <3>2. Flow' = Flow /\ Page' = Page
      BY <2>1, <2>2 DEF Flow, Page
    <3>3. SectorSizeRestored' = SectorSizeRestored /\ NoScrambled' = NoScrambled
      BY <2>1, <2>2 DEF SectorSizeRestored, Ended, NoScrambled
    <3> QED
      BY <3>1, <3>2, <3>3 DEF IndInv
  <2>4. Counters' = Counters
    BY <2>1, <2>2 DEF Counters, Padded
  <2>5. Content' = Content
    BY <2>1, <2>2 DEF Content, Complete, Begins, Cap, Secs
  <2>6. Padding' = Padding /\ LastSaid' = LastSaid
    BY <2>1, <2>2 DEF Padding, LastSaid
  <2>7. Starts' = Starts /\ Address' = Address
    BY <2>1, <2>2 DEF Starts, Plan, Address, Current, RunOut, Gap, Longer, Padded
  <2>8. Joined' = Joined
    BY <2>1, <2>2 DEF Joined, Current, RunOut, Gap, Longer, Padded, Secs
  <2> QED
    BY <2>1, <2>2, <2>3, <2>4, <2>5, <2>6, <2>7, <2>8 DEF IndInv
<1>2. CASE Next
  <2>1. Types'
    BY <1>2, MainTypes, LoopTypes DEF Next, Program, WriteTrack, Looping
  <2>2. Flow' /\ Page' /\ Counters' /\ SectorSizeRestored' /\ NoScrambled'
    BY <1>2, StepFlow, StepPage, StepCounters, StepSectorSize, StepNoScrambled
  <2>3. ~lossy' => Content' /\ Padding'
    BY <1>2, StepContent, StepPadding
  <2>4. Packets' = Packets /\ Whole' = Whole /\ ShortInput' = ShortInput
    BY <1>2, JobKept DEF ShortInput
  <2>5. ~lossy' /\ ~Packets => LastSaid'
    BY <1>2, StepLastSaid
  <2>6. (Whole => Starts') /\ (~Whole => ~misplaced')
    BY <1>2, StepStarts, StepNotRaw
  <2>7. Whole /\ ~lossy' => Address'
    BY <1>2, StepAddress
  <2>8. Whole /\ ~lossy' /\ ~ShortInput => Joined'
    BY <1>2, StepJoined
  <2> QED
    BY <2>1, <2>2, <2>3, <2>4, <2>5, <2>6, <2>7, <2>8 DEF IndInv
<1> QED
  BY <1>1, <1>2

\* The inductive invariant holds of every behaviour of the program.
THEOREM Invariance == Spec => []IndInv
BY InitInv, StepInv, PTL DEF Spec

\* In SAO and RAW mode every write goes on where the one before ended, over
\* the pregaps, the padding and the ends of the tracks to the lead-out: what
\* checktsize() planned from the sizes is what write_track_data() and
\* pad_track() write.
THEOREM WrittenAsPlanned == Spec => []Contiguous
<1>1. IndInv => Contiguous
  BY DEF IndInv, Joined, Contiguous
<1> QED
  BY <1>1, Invariance, PTL

\* When the program ends with status 0, and no write was short, every track
\* holds its input, and outside of SAO and RAW mode nothing is left in the
\* cache of the drive.
THEOREM OkIsComplete == Spec => []OkMeansWritten
<1>1. IndInv => OkMeansWritten
  <2> SUFFICES ASSUME IndInv, Ended, status = "ok", ~lossy
               PROVE  /\ \A i \in 1 .. N :
                           LET n == IF Tracks[i].its >= 0 THEN Smaller(Tracks[i].its, Tracks[i].size)
                                    ELSE Tracks[i].size
                           IN  Len(out[i]) >= Secs(n) /\ \A k \in 1 .. Secs(n) : out[i][k] = k
                      /\ ~Whole => ~cached
    BY DEF OkMeansWritten
  <2>1. track = N + 1 /\ (Whole \/ ~cached) /\ N \in Nat
    BY TypesAre, JobTypes DEF IndInv, Flow
  <2>2. ASSUME NEW i \in 1 .. N PROVE Complete(i)
    <3>1. i \in 1 .. track - 1
      BY <2>1
    <3> QED
      BY <3>1 DEF IndInv, Content
  <2>3. \A i \in 1 .. N :
          LET n == IF Tracks[i].its >= 0 THEN Smaller(Tracks[i].its, Tracks[i].size)
                   ELSE Tracks[i].size
          IN  Len(out[i]) >= Secs(n) /\ \A k \in 1 .. Secs(n) : out[i][k] = k
    BY <2>2 DEF Complete, Begins, Cap
  <2> QED
    BY <2>1, <2>3
<1> QED
  BY <1>1, Invariance, PTL

\* The drive has its old sector size again when the program ends, unless it was
\* killed or the drive refused.
THEOREM SectorSizeBack == Spec => []SectorSizeRestored
<1>1. IndInv => SectorSizeRestored
  BY DEF IndInv
<1> QED
  BY <1>1, Invariance, PTL


\* Every write is a right one: in the mode that was asked for, encoded for its
\* address, not behind the last one of its track, padded with zeros, and no
\* track ends too short.
THEOREM EveryWriteIsRight == Spec => WritesKept
<1>1. IndInv => TypeOK /\ LongEnough /\ EncodedInPlace /\ PadIsZero
  <2> SUFFICES ASSUME IndInv PROVE TypeOK /\ LongEnough /\ EncodedInPlace /\ PadIsZero
    OBVIOUS
  <2>1. Types /\ Flow /\ TypeOK
    BY DEF IndInv, Types
  <2>2. LongEnough
    <3> SUFFICES ASSUME pc = "close", ~lossy, ~T.short \/ Packets PROVE Len(out[track]) >= Min
      BY DEF LongEnough
    <3>1. Len(out[track]) = bytes \div 2 + (padsecs - amt \div 2) /\ amt = 0
      BY DEF IndInv, Content, InTrack
    <3>2. padsecs + bytes \div 2 >= Min
      BY DEF IndInv, Padding
    <3>3. padsecs \in Nat /\ bytes \in Nat /\ Min \in Nat
      BY <2>1, TypesAre, Sizes
    <3> DEFINE b == bytes \div 2
    <3>4. b \in Nat /\ amt \div 2 = 0
      BY <3>1, <3>3
    <3> HIDE DEF b
    <3>5. Len(out[track]) = b + (padsecs - 0) /\ padsecs + b >= Min
      BY <3>1, <3>2, <3>4 DEF b
    <3> QED
      BY <3>3, <3>4, <3>5
  <2>3. EncodedInPlace
    BY DEF IndInv, Address, EncodedInPlace
  <2>4. PadIsZero
    BY DEF IndInv, NoScrambled, PadIsZero
  <2> QED
    BY <2>1, <2>2, <2>3, <2>4
<1> DEFINE Right == out' # out \/ (pc = "pregap" /\ pos' # pos) =>
               /\ page.test = job.dummy /\ page.type = job.mode /\ page.multi = job.multi
               /\ page.db = IF Whole THEN "raw" ELSE IF T.audio THEN "audio" ELSE "data"
           NotAfter == out' # out /\ ~Packets /\ ~lossy => ~last
<1>2. IndInv /\ [Next]_vars => [Right]_vars /\ [NotAfter]_vars
  <2> SUFFICES ASSUME IndInv, Next PROVE Right /\ NotAfter
    OBVIOUS
  <2>1. out' # out => pc \in {"write", "pad"}
    BY WriteSteps DEF WriteData
  <2>2. Right
    <3> SUFFICES ASSUME pc \in {"write", "pad", "pregap"}
                 PROVE  /\ page.test = job.dummy /\ page.type = job.mode /\ page.multi = job.multi
                        /\ page.db = IF Whole THEN "raw" ELSE IF T.audio THEN "audio" ELSE "data"
      BY <2>1
    <3> QED
      BY DEF IndInv, Page, AtWork, InTrack
  <2>3. NotAfter
    BY <2>1 DEF IndInv, LastSaid
  <2> QED
    BY <2>2, <2>3
<1>3. RightMode <=> [][Right]_vars
  BY DEF RightMode
<1>4. LastIsLast <=> [][NotAfter]_vars
  BY DEF LastIsLast
<1> HIDE DEF Right, NotAfter
<1>5. Spec => [](TypeOK /\ LongEnough /\ EncodedInPlace /\ PadIsZero) /\ [][Right]_vars /\ [][NotAfter]_vars
  BY <1>1, <1>2, Invariance, PTL DEF Spec
<1> QED
  BY <1>3, <1>4, <1>5 DEF WritesKept

=============================================================================
