--------------------------- MODULE RingBuffProofs ---------------------------
(***************************************************************************)
(* Proofs about the ring of buffers of cdda2wav, for every number and size *)
(* of buffers, every recording, both builds and any end of the processes.  *)
(***************************************************************************)
EXTENDS RingBuff, SequenceTheorems, TLAPS

\* The reader has a buffer that is not counted yet.
Busy == rpc \in {"read", "shrink", "sync", "define", "count"}
Dead == rpc \in {"closing", "gone"}

\* The number of the buffer that `last' stands for.
Oldest == written + (IF wpc = "written" THEN 1 ELSE 0)

\* The slot that is n behind s.
At(s, n) == IF s + n < Buffers THEN s + n ELSE s + n - Buffers

\* The counters, and what a process knows at each of its steps.
Counters ==
    /\ read - written \in 0 .. Buffers
    /\ rpc = "count" => read - written < Buffers
    /\ wpc = "written" => read - written > 0
    /\ rpc \in {"release", "unflag", "post"} \/ def > 0 \/ wpc = "take" => read >= 1
    /\ rpc = "gone" /\ wpc # "gone" => read >= 1
    /\ read >= 1 => last # NULL /\ fill # NULL
    /\ rpc = "count" => last # NULL

\* What is left of the job and where the reader is in it.
Remaining ==
    /\ iloop <= todo
    /\ job.overlap = 0 => overlap = 0
    /\ rpc = "shrink" => burst >= 0 /\ job.real > 0
    /\ job.real = 0 => todo = job.todo

\* The buffers before and behind the one that is read.
Previous ==
    /\ Busy \/ todo # iloop => fill # NULL
    /\ rpc \in {"read", "shrink", "sync"} /\ todo # iloop => prev # NULL /\ fill = INC(prev)

\* The buffer that is saved, and the files.
Saving ==
    /\ wpc \in {"save", "drop"} => slot # NULL /\ slot = last
    /\ wpc = "save" => woff + ins <= Size
    /\ track >= 1
    /\ track = 1 \/ ~job.bulk => file = 1
    /\ track >= 3 => sDone >= job.todo

\* The distance between the buffer that is filled and the oldest one.
Position ==
    ~Dead /\ wpc # "gone" /\ last # NULL =>
        /\ fill # NULL
        /\ fill - last - ((IF Busy THEN read ELSE read - 1) - Oldest) \in {0, Buffers, -Buffers}

\* A flag is set while the process that set it waits.
Flags ==
    /\ WakeupsMatch
    /\ childWaits => wpc \in {"blocked", "gone"} \/ rpc = "gone"
    /\ parentWaits => rpc \in {"blocked", "closing", "gone"}
    /\ rpc = "unflag" => childWaits
    /\ wpc = "unflag" => parentWaits

\* The semaphores count what nobody holds.
Tokens ==
    /\ {rpc, wpc} \cap {"flag", "blocked", "unflag", "post"} = {}
    /\ def + (IF wpc \in {"take", "save", "drop", "written"} THEN 1 ELSE 0)
           + (IF rpc = "release" THEN 1 ELSE 0) <= read - written
    /\ free + (IF Busy \/ rpc = "occupy" THEN 1 ELSE 0)
            + (IF wpc = "release" THEN 1 ELSE 0) <= Buffers - (read - written)

\* Who was not woken early has a buffer to fill, or one to save.
Held ==
    /\ Busy \/ rpc = "occupy" => read - written < Buffers
    /\ wpc \in {"take", "save", "drop", "written"} => read - written > 0

\* No process was woken early, and no sector is read twice.
Plain == ~early /\ job.overlap = 0

\* Samples in n buffers, and how many buffers the reader has read.
P(n) == n * Size
Advanced == read + (IF rpc \in {"define", "count"} THEN 1 ELSE 0)

\* How far the reader is: behind full buffers, until nothing is left.
Progress ==
    /\ rpc \in {"request", "flag", "blocked", "occupy", "read", "shrink"} => iloop > 0
    /\ ~Dead /\ (iloop > 0 \/ rpc = "sync") =>
          /\ lsec * F = todo - iloop /\ lsec * F = P(Advanced)
          /\ rpc # "sync" \/ burst = NSectors => todo = job.todo
          /\ rpc \notin {"read", "shrink", "sync"} => burst = NSectors \/ (burst = 0 /\ lsec = 0)
    /\ rpc \in {"read", "sync"} => burst <= NSectors /\ (burst < NSectors => iloop <= burst * F)
    /\ rpc \in {"read", "sync", "shrink"} => burst >= 0
    /\ rpc = "shrink" => burst < NSectors /\ Singly
    /\ todo > job.todo => job.todo > job.bound * F

\* How far the writer is: all of the buffers before, or all that is wanted.
Written ==
    /\ sDone <= P(read)
    /\ wpc \notin {"save", "drop", "gone"} => sDone <= P(Oldest) /\ (sDone = P(Oldest) \/ sDone >= todo)
    /\ wpc = "save" => /\ sDone + ins <= P(Oldest + 1)
                       /\ sDone + ins = P(Oldest + 1) \/ sDone + ins >= todo
    /\ wpc = "drop" => sDone <= P(Oldest + 1) /\ (sDone = P(Oldest + 1) \/ sDone >= todo)

\* Buffer s holds the samples after the first `base' ones, as far as they are wanted.
Holds(s, base) == \A i \in 1 .. Size : base + i <= todo => data[s][i] = base + i

Defined == read + (IF rpc = "count" THEN 1 ELSE 0)

\* The buffers in the ring, but for the one that is being saved.
Ready ==
    wpc # "gone" =>
       \A k \in 0 .. Buffers - 1 :
          Oldest + k < Defined =>
              (k = 0 /\ wpc \in {"save", "drop"}) \/ Holds(At(last, k), P(Oldest + k))

\* What was read and is not in the ring yet, and what is left to save.
Fresh ==
    /\ rpc \in {"shrink", "sync"} =>
          \A i \in 1 .. Size : i <= burst * F => data[fill][i] = lsec * F + i
    /\ rpc = "define" => Holds(fill, P(read))

Rest == wpc = "save" => woff = 0 /\ \A i \in 1 .. ins : data[slot][i] = sDone + i

Content == (\A s \in Slots : offset[s] = 0) /\ Ready /\ Fresh /\ Rest

\* The files, so far.
Files ==
    /\ Len(out) = sDone
    /\ \A i \in 1 .. Len(out) : out[i] = <<IF job.bulk /\ i > job.bound * F THEN 2 ELSE 1, i>>
    /\ job.bulk => /\ track = 1 => sDone <= job.bound * F
                   /\ track >= 2 => \/ file = 2 /\ sDone >= job.bound * F
                                    \/ sDone = job.todo /\ job.todo <= job.bound * F

IndInv ==
    /\ TypeOK /\ Counters /\ Remaining /\ Previous /\ Saving /\ Position
    /\ Pipes => Flags
    /\ ~Pipes => Tokens /\ ~early
    /\ early \/ (Held /\ NeverWraps)
    /\ Plain => Progress /\ Written /\ Content /\ Files

-----------------------------------------------------------------------------
(* The constants, the job and the types.                                   *)

LEMMA Sizes ==
    /\ Buffers \in Nat /\ Buffers >= 1 /\ NSectors \in Nat /\ NSectors >= 1
    /\ F \in Nat /\ F >= 1 /\ MaxRetry \in Nat /\ MaxRetry >= 1
    /\ Size \in Nat /\ Size >= 1 /\ NSectors * F = Size
<1>1. Buffers \in Nat /\ Buffers >= 1 /\ NSectors \in Nat /\ NSectors >= 1
      /\ F \in Nat /\ F >= 1 /\ MaxRetry \in Nat /\ MaxRetry >= 1
  BY SizeAssumption
<1>2. \A a, b \in Nat : a >= 1 /\ b >= 1 => a * b \in Nat /\ a * b >= 1
  OBVIOUS
<1> QED
  BY <1>1, <1>2 DEF Size

\* Fewer sectors, fewer samples.
LEMMA FewerSectors ==
    ASSUME NEW n \in Nat, NEW m \in Nat, n <= m
    PROVE  n * F \in Nat /\ n * F <= m * F
<1>1. \A a, b, c \in Nat : a <= b => a * c \in Nat /\ a * c <= b * c
  OBVIOUS
<1> QED
  BY <1>1, Sizes

LEMMA IncIs ==
    ASSUME NEW s \in Slots
    PROVE  INC(s) \in Slots /\ INC(s) = IF s + 1 < Buffers THEN s + 1 ELSE 0
<1>1. s \in Nat /\ s < Buffers /\ Buffers \in Nat /\ Buffers >= 1
  BY Sizes DEF Slots
<1>2. CASE s + 1 < Buffers
  BY <1>1, <1>2 DEF INC, Slots
<1>3. CASE s + 1 = Buffers
  BY <1>1, <1>3 DEF INC, Slots
<1> QED
  BY <1>1, <1>2, <1>3

LEMMA JobTypes ==
    ASSUME TypeOK
    PROVE  /\ job \in Jobs
           /\ job.todo \in Nat /\ job.todo > 0 /\ job.end \in Nat /\ job.bound \in Nat
           /\ job.bulk \in BOOLEAN /\ job.real \in Nat /\ job.overlap \in Nat
           /\ job.pipes \in BOOLEAN /\ job.todo <= job.end * F
           /\ job.end * F \in Nat /\ job.bound * F \in Nat
<1>1. job \in Jobs
  BY DEF TypeOK
<1>2. job \in Job /\ job.todo <= job.end * F
  BY <1>1, JobAssumption
<1>3. /\ job.todo \in Nat /\ job.todo > 0 /\ job.end \in Nat /\ job.bound \in Nat
      /\ job.bulk \in BOOLEAN /\ job.real \in Nat /\ job.overlap \in Nat
      /\ job.pipes \in BOOLEAN
  BY <1>2 DEF Job
<1> QED
  BY <1>1, <1>2, <1>3, FewerSectors

LEMMA TypesAre ==
    ASSUME TypeOK
    PROVE  /\ fill \in Slots \cup {NULL} /\ last \in Slots \cup {NULL}
           /\ prev \in Slots \cup {NULL} /\ slot \in Slots \cup {NULL}
           /\ read \in Nat /\ written \in Nat /\ def \in Nat /\ free \in Nat
           /\ sDone \in Nat /\ woff \in Nat /\ ins \in Nat /\ iloop \in Nat /\ todo \in Nat
           /\ childWaits \in BOOLEAN /\ parentWaits \in BOOLEAN /\ eor \in BOOLEAN
           /\ rsig \in BOOLEAN /\ wsig \in BOOLEAN /\ early \in BOOLEAN
           /\ lsec \in Int /\ burst \in Int
           /\ overlap \in Nat /\ overlap <= NSectors - 1 /\ retries \in 0 .. MaxRetry - 1
           /\ track \in Nat /\ file \in 1 .. 2 /\ out \in Seq((1 .. 2) \X Int)
           /\ data \in [Slots -> [1 .. Size -> Int]] /\ offset \in [Slots -> 0 .. Size]
           /\ rpc \in ReaderPC /\ wpc \in WriterPC
<1>1. /\ fill \in Slots \cup {NULL} /\ last \in Slots \cup {NULL}
      /\ prev \in Slots \cup {NULL} /\ slot \in Slots \cup {NULL}
  BY DEF TypeOK
<1>2. /\ read \in Nat /\ written \in Nat /\ def \in Nat /\ free \in Nat
      /\ sDone \in Nat /\ woff \in Nat /\ ins \in Nat /\ iloop \in Nat /\ todo \in Nat
  BY DEF TypeOK
<1>3. /\ childWaits \in BOOLEAN /\ parentWaits \in BOOLEAN /\ eor \in BOOLEAN
      /\ rsig \in BOOLEAN /\ wsig \in BOOLEAN /\ early \in BOOLEAN
  BY Zenon DEF TypeOK
<1>4. lsec \in Int /\ burst \in Int
  BY DEF TypeOK
<1>5. /\ overlap \in Nat /\ overlap <= NSectors - 1 /\ retries \in 0 .. MaxRetry - 1
  BY Sizes DEF TypeOK
<1>6. /\ track \in Nat /\ file \in 1 .. 2 /\ out \in Seq((1 .. 2) \X Int)
      /\ data \in [Slots -> [1 .. Size -> Int]] /\ offset \in [Slots -> 0 .. Size]
      /\ rpc \in ReaderPC /\ wpc \in WriterPC
  BY DEF TypeOK
<1> QED
  BY <1>1, <1>2, <1>3, <1>4, <1>5, <1>6

-----------------------------------------------------------------------------
(* The counters and what is left.                                          *)

LEMMA CountersKept ==
    ASSUME TypeOK, Counters, Previous, Next
    PROVE  Counters'
<1>1. read \in Nat /\ written \in Nat /\ def \in Nat /\ Buffers \in Nat /\ Buffers >= 1
      /\ last \in Slots \cup {NULL} /\ NULL \notin Slots
  BY TypesAre, Sizes DEF NULL, Slots
<1>2. CASE ReadLoop \/ RequestFree \/ ParentWaits \/ ParentWakes \/ ReadSectors \/ ReadSingles
             \/ ShrinkJob \/ Synchronize \/ UnrecoverableError \/ ReaderSignal \/ AwaitChild
  <2>1. UNCHANGED <<read, written, def, last, fill, wpc>>
    BY <1>2 DEF ReadLoop, RequestFree, ParentWaits, ParentWakes, ReadSectors, ReadSingles,
                ShrinkJob, Synchronize, UnrecoverableError, ReaderSignal, AwaitChild, ring, sync
  <2>2. rpc' \notin {"count", "release", "unflag", "post"} /\ (rpc' = "gone" => wpc = "gone")
    BY <1>2 DEF ReadLoop, RequestFree, ParentWaits, ParentWakes, ReadSectors, ReadSingles,
                ShrinkJob, Synchronize, Advance, Retry, UnrecoverableError, ReaderSignal,
                AwaitChild, ReaderEnds
  <2> QED
    BY <1>1, <2>1, <2>2 DEF Counters
<1>3. CASE OccupyBuffer
  <2>1. UNCHANGED <<read, written, def, last, wpc>> /\ rpc' = "read" /\ fill' # NULL
    <3>1. 0 \in Slots /\ fill \in Slots \cup {NULL}
      BY Sizes, TypesAre DEF Slots
    <3> QED
      BY <1>1, <1>3, <3>1, IncIs DEF OccupyBuffer, sync
  <2> QED
    BY <1>1, <2>1 DEF Counters
<1>4. CASE FirstDefined
  <2>1. UNCHANGED <<read, written, def, fill, wpc>> /\ fill # NULL /\ rpc = "define"
        /\ last' = (IF rpc' = "count" /\ last = NULL THEN fill ELSE last)
        /\ \/ rpc' = "count" /\ read - written < Buffers
           \/ rpc' = "gone" /\ ~(read - written < Buffers)
    BY <1>4 DEF FirstDefined, sync, Previous, Busy
  <2> QED
    BY <1>1, <2>1 DEF Counters
<1>5. CASE CountDefined
  <2>1. UNCHANGED <<written, def, fill, last, wpc>> /\ read' = read + 1 /\ rpc' = "release"
        /\ rpc = "count" /\ fill # NULL
    BY <1>5 DEF CountDefined, sync, Previous, Busy
  <2> QED
    BY <1>1, <2>1 DEF Counters
<1>6. CASE ReleaseDefined \/ UnflagChild \/ WakeChild
  <2>1. UNCHANGED <<read, written, fill, last, wpc>> /\ rpc \in {"release", "unflag", "post"}
        /\ def' \in {def, def + 1} /\ rpc' \in {"loop", "unflag", "post", "closing"}
    BY <1>6 DEF ReleaseDefined, UnflagChild, WakeChild, ReaderEnds, ring
  <2> QED
    BY <1>1, <2>1 DEF Counters
<1>7. CASE \/ WriteLoop \/ TestEnd \/ TestDrained \/ ChildWaits \/ SaveBuffer
           \/ Saved \/ SaveFails \/ ReleaseFree \/ UnflagParent \/ WakeParent \/ WriterSignal
           \/ TakeBuffer
  <2>1. UNCHANGED <<read, written, def, last, fill, rpc>>
    BY <1>7 DEF WriteLoop, TestEnd, TestDrained, ChildWaits, SaveBuffer, Saved, SaveFails,
                ReleaseFree, UnflagParent, WakeParent, WriterSignal, TakeBuffer, ring, sync
  <2>2. wpc' \notin {"take", "written"} /\ wpc # "gone"
    BY <1>7 DEF WriteLoop, TestEnd, TestDrained, ChildWaits, SaveBuffer, Saved, SaveFails,
                ReleaseFree, UnflagParent, WakeParent, WriterSignal, TakeBuffer, WriterEnds
  <2> QED
    BY <1>1, <2>1, <2>2 DEF Counters
<1>8. CASE RequestDefined \/ ChildWakes
  <2>1. UNCHANGED <<read, written, last, fill, rpc>> /\ wpc' \in {"flag", "take"}
        /\ wpc # "gone" /\ def' \in Nat /\ (def' > 0 => def > 0)
        /\ (wpc' = "take" => read # written \/ def > 0 \/ rpc = "gone")
    BY <1>1, <1>8 DEF RequestDefined, ChildWakes, ring, Empty
  <2> QED
    BY <1>1, <2>1 DEF Counters
<1>9. CASE DropBuffer
  <2>1. UNCHANGED <<read, written, def, fill, rpc>> /\ wpc = "drop"
        /\ \/ wpc' = "written" /\ read - written > 0 /\ last' = (IF last = NULL THEN fill ELSE INC(last))
           \/ wpc' = "gone" /\ last' = last
    BY <1>9 DEF DropBuffer, sync, WriterEnds
  <2>2. wpc' = "written" => last' # NULL
    BY <1>1, <2>1, IncIs DEF Counters
  <2> QED
    BY <1>1, <2>1, <2>2 DEF Counters
<1>10. CASE CountDropped
  <2>1. UNCHANGED <<read, def, fill, last, rpc>> /\ written' = written + 1 /\ wpc = "written"
        /\ wpc' = "release"
    BY <1>10 DEF CountDropped, sync
  <2> QED
    BY <1>1, <2>1 DEF Counters
<1>11. CASE Interrupt \/ Gone
  <2>1. UNCHANGED <<read, written, def, last, fill, rpc, wpc>>
    BY <1>11 DEF Interrupt, Gone, vars, ring, sync
  <2> QED
    BY <2>1 DEF Counters
<1> QED
  BY <1>2, <1>3, <1>4, <1>5, <1>6, <1>7, <1>8, <1>9, <1>10, <1>11 DEF Next, Reader, Writer

\* What a step of the reader that looks for the place of a buffer may do.
LEMMA SyncIs ==
    ASSUME TypeOK, Synchronize
    PROVE  /\ rpc = "sync" /\ rpc' \in {"define", "read"}
           /\ \/ /\ rpc' = "define" /\ iloop' \in Nat /\ iloop' <= iloop
                 /\ \E off \in 0 .. Size : offset' = [offset EXCEPT ![fill] = off]
                 /\ retries' = retries
              \/ /\ rpc' = "read" /\ iloop' = iloop /\ offset' = offset /\ retries' = retries + 1
                 /\ retries + 1 < MaxRetry
           /\ overlap' \in 0 .. NSectors - 1
           /\ overlap = 0 => overlap' = 0
           /\ lsec' \in Int /\ burst' \in Int
           /\ UNCHANGED <<job, data, fill, last, read, written, sync, ends, prev, wpc, writer,
                          signals, exits>>
<1>1. /\ iloop \in Nat /\ burst \in Int /\ lsec \in Int /\ overlap \in Nat /\ overlap <= NSectors - 1
      /\ retries \in Nat /\ job.end \in Nat /\ todo \in Nat
  BY TypesAre, JobTypes
<1>2. /\ Buffers \in Nat /\ NSectors \in Nat /\ NSectors >= 1 /\ F \in Nat /\ F >= 1
      /\ MaxRetry \in Nat /\ Size \in Nat /\ NSectors * F = Size
  BY Sizes
<1>3. ASSUME NEW ls \in Int, NEW bu \in Int
      PROVE  CalcSectorBurst(ls, bu) \in Int
  <2>1. (iloop + F - 1) \div F \in Int
    BY <1>1, <1>2
  <2> QED
    BY <1>1, <1>2, <2>1 DEF CalcSectorBurst, Min2
<1>4. ASSUME NEW off \in 0 .. Size, NEW match \in BOOLEAN, NEW ov \in 0 .. NSectors - 1,
             NEW ls \in Int, NEW bu \in Int, Advance(off, match, ov, ls, bu)
      PROVE  /\ rpc' = "define" /\ iloop' \in Nat /\ iloop' <= iloop
             /\ offset' = [offset EXCEPT ![fill] = off]
             /\ retries' = retries
             /\ overlap' \in 0 .. NSectors - 1 /\ (ov = 0 => overlap' = 0)
             /\ lsec' \in Int /\ burst' \in Int
  <2> DEFINE added == bu * F - off
             less == match /\ todo # iloop /\ off > F /\ ov > 1
             ov2 == IF less THEN ov - 1 ELSE ov
             bu2 == IF less THEN CalcSectorBurst(ls, bu) ELSE bu
  <2>1. added \in Int
    <3>1. bu * F \in Int
      BY <1>2
    <3> QED
      BY <1>2, <3>1
  <2>2. bu2 \in Int /\ ov2 \in 0 .. NSectors - 1 /\ (ov = 0 => ov2 = 0)
    BY <1>2, <1>3
  <2>3. /\ offset' = [offset EXCEPT ![fill] = off]
        /\ iloop' = (IF added >= 0 /\ iloop >= added THEN iloop - added ELSE 0)
        /\ overlap' = ov2 /\ burst' = bu2 /\ lsec' = ls + bu2 - ov2
        /\ rpc' = "define" /\ retries' = retries
    BY <1>4 DEF Advance
  <2> HIDE DEF added, ov2, bu2
  <2> QED
    BY <1>1, <1>2, <2>1, <2>2, <2>3
<1>5. ASSUME NEW ov \in 1 .. NSectors - 1, NEW ls \in Int, Retry(ov, ls)
      PROVE  \/ /\ rpc' = "define" /\ iloop' \in Nat /\ iloop' <= iloop
                /\ \E off \in 0 .. Size : offset' = [offset EXCEPT ![fill] = off]
                /\ retries' = retries
                /\ overlap' \in 0 .. NSectors - 1 /\ lsec' \in Int /\ burst' \in Int
             \/ /\ rpc' = "read" /\ iloop' = iloop /\ offset' = offset /\ retries' = retries + 1
                /\ retries + 1 < MaxRetry
                /\ overlap' \in 0 .. NSectors - 1 /\ lsec' \in Int /\ burst' \in Int
  <2> DEFINE bu == CalcSectorBurst(ls, burst)
  <2>1. bu \in Int
    BY <1>1, <1>3
  <2> DEFINE off == ov * F
  <2>2. off \in 0 .. Size
    BY <1>2, FewerSectors
  <2>3. \/ /\ retries + 1 < MaxRetry /\ retries' = retries + 1 /\ rpc' = "read"
           /\ overlap' = ov /\ lsec' = ls /\ burst' = bu
           /\ UNCHANGED <<offset, iloop>>
        \/ Advance(off, FALSE, ov, ls, bu)
    BY <1>5 DEF Retry
  <2>4. ov \in 0 .. NSectors - 1 /\ FALSE \in BOOLEAN
    BY <1>2
  <2> HIDE DEF bu, off
  <2>5. CASE Advance(off, FALSE, ov, ls, bu)
    <3>1. /\ rpc' = "define" /\ iloop' \in Nat /\ iloop' <= iloop
          /\ offset' = [offset EXCEPT ![fill] = off]
          /\ retries' = retries
          /\ overlap' \in 0 .. NSectors - 1 /\ lsec' \in Int /\ burst' \in Int
      BY <1>4, <2>1, <2>2, <2>4, <2>5
    <3> QED
      BY <2>2, <3>1
  <2>6. CASE /\ retries + 1 < MaxRetry /\ retries' = retries + 1 /\ rpc' = "read"
             /\ overlap' = ov /\ lsec' = ls /\ burst' = bu
             /\ UNCHANGED <<offset, iloop>>
    BY <2>1, <2>4, <2>6
  <2> QED
    BY <2>3, <2>5, <2>6
<1>6. UNCHANGED <<job, data, fill, last, read, written, sync, ends, prev, wpc, writer,
                  signals, exits>> /\ rpc = "sync"
  BY DEF Synchronize
<1>7. CASE Unsynchronised
  <2>1. Advance(0, TRUE, overlap, lsec, burst)
    BY <1>7 DEF Synchronize
  <2>2. 0 \in 0 .. Size /\ overlap \in 0 .. NSectors - 1
    BY <1>1, <1>2
  <2> QED
    BY <1>1, <1>4, <1>6, <2>1, <2>2
<1>8. CASE ~Unsynchronised /\ Continues # {}
  <2>1. PICK off \in Continues : Advance(off, TRUE, overlap, lsec, burst)
    BY <1>8 DEF Synchronize
  <2>2. off \in 0 .. Size /\ overlap \in 0 .. NSectors - 1
    BY <1>1, <1>2 DEF Continues
  <2> QED
    BY <1>1, <1>4, <1>6, <2>1, <2>2
<1>9. CASE ~Unsynchronised /\ Continues = {}
  <2>1. overlap # 0
    BY <1>9 DEF Unsynchronised
  <2>2. PICK ov \in 1 .. NSectors - 1, ls \in Int : Retry(ov, ls)
    <3>1. CASE CanGrow
      <4>1. Retry(overlap + 1, lsec - 1)
        BY <1>9, <3>1 DEF Synchronize
      <4> QED
        BY <1>1, <1>2, <3>1, <4>1 DEF CanGrow
    <3>2. CASE ~CanGrow
      <4>1. Retry(1, lsec + overlap - 1)
        BY <1>9, <3>2 DEF Synchronize
      <4> QED
        BY <1>1, <1>2, <2>1, <4>1
    <3> QED
      BY <3>1, <3>2
  <2> QED
    BY <1>5, <1>6, <2>1, <2>2
<1> QED
  BY <1>7, <1>8, <1>9

\* Steps that leave alone what the reader counts with.
LEMMA ReaderIdle ==
    ASSUME TypeOK, Next, ~ReadSectors, ~ReadSingles, ~ShrinkJob, ~Synchronize, ~OccupyBuffer
    PROVE  /\ UNCHANGED <<job, iloop, todo, lsec, burst, overlap, prev, fill, retries, offset, eor>>
           /\ rpc' \notin {"read", "shrink", "sync", "define"} \/ rpc' = rpc
           /\ rpc' = "count" => rpc \in {"count", "define"}
<1>1. CASE ReadLoop \/ RequestFree \/ ParentWaits \/ ParentWakes \/ UnrecoverableError \/ ReaderSignal
             \/ AwaitChild \/ FirstDefined \/ CountDefined \/ ReleaseDefined \/ UnflagChild \/ WakeChild
  <2>1. UNCHANGED <<job, iloop, todo, lsec, burst, overlap, prev, fill, retries, offset, eor>>
    BY <1>1 DEF ReadLoop, RequestFree, ParentWaits, ParentWakes, UnrecoverableError, ReaderSignal,
                AwaitChild, FirstDefined, CountDefined, ReleaseDefined, UnflagChild, WakeChild,
                reader, ring, ends
  <2>2. /\ rpc' \notin {"read", "shrink", "sync", "define"} \/ rpc' = rpc
        /\ rpc' = "count" => rpc \in {"count", "define"}
    BY <1>1 DEF ReadLoop, RequestFree, ParentWaits, ParentWakes, UnrecoverableError, ReaderSignal,
                AwaitChild, FirstDefined, CountDefined, ReleaseDefined, UnflagChild, WakeChild, ReaderEnds
  <2> QED
    BY <2>1, <2>2
<1>2. CASE Writer \/ SaveFails \/ Interrupt \/ Gone
  <2>1. UNCHANGED <<job, iloop, todo, lsec, burst, overlap, prev, fill, retries, offset, rpc, eor>>
    BY <1>2 DEF Writer, WriteLoop, TestEnd, TestDrained, RequestDefined, ChildWaits, ChildWakes,
                TakeBuffer, SaveBuffer, Saved, DropBuffer, CountDropped, ReleaseFree, UnflagParent,
                WakeParent, WriterSignal, SaveFails, Interrupt, Gone, vars, reader, ring, ends
  <2> QED
    BY <2>1
<1> QED
  BY <1>1, <1>2 DEF Next, Reader

\* What a sector that the medium does not have makes of the burst.
LEMMA SinglesIs ==
    ASSUME TypeOK, ReadSingles
    PROVE  LET singles == IF job.real > lsec THEN Min2(burst, job.real - lsec) ELSE 0
           IN  /\ singles \in Int /\ burst' = singles
               /\ burst' < burst => burst' >= 0
               /\ burst >= 0 => burst' >= 0 /\ burst' <= burst
               /\ eor' = (burst' < burst)
               /\ rpc' = IF burst' < burst THEN "shrink" ELSE "sync"
<1>1. lsec \in Int /\ burst \in Int /\ job.real \in Nat
  BY TypesAre, JobTypes
<1> DEFINE singles == IF job.real > lsec THEN Min2(burst, job.real - lsec) ELSE 0
<1>2. /\ singles \in Int
      /\ singles < burst => singles >= 0
      /\ burst >= 0 => singles >= 0 /\ singles <= burst
  BY <1>1 DEF Min2
<1>3. burst' = singles /\ eor' = (singles < burst) /\ rpc' = IF eor' THEN "shrink" ELSE "sync"
  BY DEF ReadSingles
<1> HIDE DEF singles
<1>4. rpc' = IF burst' < burst THEN "shrink" ELSE "sync"
  BY <1>3
<1>5. eor' = (burst' < burst)
  BY <1>3
<1>6. singles \in Int /\ burst' = singles /\ (burst' < burst => burst' >= 0)
      /\ (burst >= 0 => burst' >= 0 /\ burst' <= burst)
  BY <1>2, <1>3
<1> QED
  BY <1>4, <1>5, <1>6 DEF singles

LEMMA RemainingKept ==
    ASSUME TypeOK, Remaining, Next
    PROVE  Remaining'
<1>1. /\ iloop \in Nat /\ todo \in Nat /\ burst \in Int /\ overlap \in Nat /\ lsec \in Int
      /\ job.real \in Nat
  BY TypesAre, JobTypes
<1>2. CASE ~ReadSectors /\ ~ReadSingles /\ ~ShrinkJob /\ ~Synchronize /\ ~OccupyBuffer
  BY <1>2, ReaderIdle DEF Remaining
<1>3. CASE ReadSectors \/ OccupyBuffer
  <2>1. UNCHANGED <<job, iloop, todo, overlap>> /\ rpc' # "shrink"
    BY <1>3 DEF ReadSectors, OccupyBuffer, reader, ends
  <2> QED
    BY <2>1 DEF Remaining
<1>4. CASE ReadSingles
  <2>1. UNCHANGED <<job, iloop, todo, overlap>> /\ job.real > 0
    BY <1>4 DEF ReadSingles, Singly
  <2>2. rpc' = "shrink" => burst' >= 0
    BY <1>4, SinglesIs
  <2> QED
    BY <2>1, <2>2 DEF Remaining
<1>5. CASE ShrinkJob
  <2> DEFINE n == burst * F
  <2>1. UNCHANGED <<job, overlap>> /\ rpc' = "sync" /\ rpc = "shrink"
        /\ todo' = todo - (iloop - n) /\ iloop' = n
    BY <1>5 DEF ShrinkJob
  <2>2. n \in Nat
    BY <1>1, <2>1, FewerSectors DEF Remaining
  <2> HIDE DEF n
  <2> QED
    BY <1>1, <2>1, <2>2 DEF Remaining
<1>6. CASE Synchronize
  <2>1. iloop' \in Nat /\ iloop' <= iloop /\ todo' = todo /\ job' = job /\ rpc' # "shrink"
        /\ (overlap = 0 => overlap' = 0)
    BY <1>1, <1>6, SyncIs DEF ends
  <2> QED
    BY <1>1, <2>1 DEF Remaining
<1> QED
  BY <1>2, <1>3, <1>4, <1>5, <1>6

LEMMA PreviousKept ==
    ASSUME TypeOK, Remaining, Previous, Next
    PROVE  Previous'
<1>1. /\ iloop \in Nat /\ todo \in Nat /\ fill \in Slots \cup {NULL} /\ NULL \notin Slots
      /\ 0 \in Slots
  BY TypesAre, Sizes DEF Slots, NULL
<1>2. CASE ~ReadSectors /\ ~ReadSingles /\ ~ShrinkJob /\ ~Synchronize /\ ~OccupyBuffer
  <2>1. Busy' => Busy
    BY <1>2, ReaderIdle DEF Busy
  <2>2. rpc' \in {"read", "shrink", "sync"} => rpc \in {"read", "shrink", "sync"}
    BY <1>2, ReaderIdle
  <2> QED
    BY <1>2, <2>1, <2>2, ReaderIdle DEF Previous
<1>3. CASE OccupyBuffer
  <2>1. /\ prev' = fill /\ fill' = (IF fill = NULL THEN 0 ELSE INC(fill)) /\ rpc' = "read"
        /\ UNCHANGED <<iloop, todo>>
    BY <1>3 DEF OccupyBuffer, ends
  <2> QED
    BY <1>1, <2>1, IncIs DEF Previous
<1>4. CASE ReadSectors \/ ReadSingles
  <2>1. UNCHANGED <<prev, fill, iloop, todo>> /\ rpc = "read" /\ rpc' \in {"shrink", "sync"}
    BY <1>4 DEF ReadSectors, ReadSingles, reader, ends
  <2> QED
    BY <2>1 DEF Previous, Busy
<1>5. CASE ShrinkJob
  <2>1. /\ UNCHANGED <<prev, fill>> /\ rpc = "shrink" /\ rpc' = "sync"
        /\ todo' = todo - (iloop - burst * F) /\ iloop' = burst * F
    BY <1>5 DEF ShrinkJob, ring
  <2>2. burst * F \in Nat
    <3>1. burst \in Nat
      BY <2>1, TypesAre DEF Remaining
    <3> QED
      BY <3>1, FewerSectors
  <2>3. (todo # iloop)' => todo # iloop
    BY <1>1, <2>1, <2>2
  <2> QED
    BY <2>1, <2>3 DEF Previous, Busy
<1>6. CASE Synchronize
  <2>1. UNCHANGED <<prev, fill, todo>> /\ rpc = "sync"
        /\ (rpc' = "define" \/ (rpc' = "read" /\ iloop' = iloop))
    BY <1>6, SyncIs DEF ends
  <2> QED
    BY <2>1 DEF Previous, Busy
<1> QED
  BY <1>2, <1>3, <1>4, <1>5, <1>6

\* Steps that leave alone what the writer has.
LEMMA WriterIdle ==
    ASSUME Next, ~SaveBuffer, ~TakeBuffer, ~DropBuffer
    PROVE  /\ UNCHANGED <<job, sDone, slot, woff, ins, track, file, out>>
           /\ wpc' \notin {"take", "save", "drop", "written"} \/ wpc' = wpc
              \/ (wpc' = "take" /\ (RequestDefined \/ ChildWakes))
              \/ (wpc' = "drop" /\ Saved)
<1>1. CASE Reader \/ UnrecoverableError \/ Interrupt \/ Gone
  <2>1. UNCHANGED <<job, sDone, slot, woff, ins, track, file, out, wpc>>
    BY <1>1 DEF Reader, ReadLoop, RequestFree, ParentWaits, ParentWakes, OccupyBuffer, ReadSectors,
                ReadSingles, ShrinkJob, Synchronize, FirstDefined, CountDefined, ReleaseDefined,
                UnflagChild, WakeChild, AwaitChild, ReaderSignal, UnrecoverableError, Interrupt,
                Gone, vars, writer
  <2> QED
    BY <2>1
<1>2. CASE \/ WriteLoop \/ TestEnd \/ TestDrained \/ RequestDefined \/ ChildWaits \/ ChildWakes
           \/ Saved \/ CountDropped \/ ReleaseFree \/ UnflagParent \/ WakeParent \/ WriterSignal
           \/ SaveFails
  <2>1. UNCHANGED <<job, sDone, slot, woff, ins, track, file, out>>
    BY <1>2 DEF WriteLoop, TestEnd, TestDrained, RequestDefined, ChildWaits, ChildWakes, Saved,
                CountDropped, ReleaseFree, UnflagParent, WakeParent, WriterSignal, SaveFails, writer
  <2>2. /\ wpc' \notin {"take", "save", "drop", "written"}
           \/ (wpc' = "take" /\ (RequestDefined \/ ChildWakes))
           \/ (wpc' = "drop" /\ Saved)
    BY <1>2 DEF WriteLoop, TestEnd, TestDrained, RequestDefined, ChildWaits, ChildWakes, Saved,
                CountDropped, ReleaseFree, UnflagParent, WakeParent, WriterSignal, SaveFails, WriterEnds
  <2> QED
    BY <2>1, <2>2
<1> QED
  BY <1>1, <1>2 DEF Next, Writer

\* How much goes to the file, and where its track ends.
LEMMA HowMuchIs ==
    ASSUME TypeOK
    PROVE  /\ HowMuch \in Nat /\ HowMuch <= ins /\ Left \in Int
           /\ job.bulk /\ Left >= 0 => HowMuch <= Left /\ (Left <= ins => HowMuch = Left)
           /\ ~job.bulk => HowMuch = ins
           /\ track = 1 => Left = job.bound * F - sDone
           /\ track = 2 => Left = job.end * F - sDone
<1>1. /\ ins \in Nat /\ sDone \in Nat /\ track \in Nat /\ F \in Nat
      /\ job.bound * F \in Nat /\ job.end * F \in Nat
  BY TypesAre, JobTypes, Sizes
<1>2. /\ track = 1 => Left = job.bound * F - sDone
      /\ track = 2 => Left = job.end * F - sDone
  BY <1>1 DEF Left, StartSector
<1>3. track \notin {1, 2} => Left \in {ins, -1 * F - sDone}
  BY <1>1 DEF Left, StartSector
<1>4. Left \in Int
  BY <1>1, <1>2, <1>3
<1>5. /\ HowMuch \in Nat /\ HowMuch <= ins
      /\ job.bulk /\ Left >= 0 => HowMuch <= Left /\ (Left <= ins => HowMuch = Left)
      /\ ~job.bulk => HowMuch = ins
  BY <1>1, <1>4 DEF HowMuch, Min2
<1> QED
  BY <1>2, <1>4, <1>5

\* The parts of a step that saves.
LEMMA SaveIs ==
    ASSUME TypeOK, Saving, SaveBuffer
    PROVE  /\ UNCHANGED <<job, wpc, rpc, slot, woff, last, todo>> /\ wpc = "save"
           /\ sDone' = sDone + HowMuch /\ ins' = ins - HowMuch
           /\ track' \in Nat /\ track' >= track /\ (track' # track => track' = track + 1)
           /\ file' \in 1 .. 2
           /\ track' = 1 \/ ~job.bulk => file' = file
           /\ track' >= 3 => sDone' >= job.todo
<1>1. /\ ins \in Nat /\ sDone \in Nat /\ track \in Nat /\ file \in 1 .. 2
      /\ job.end * F \in Nat /\ job.todo \in Nat /\ job.todo <= job.end * F
  BY TypesAre, JobTypes
<1>2. /\ UNCHANGED <<job, wpc, rpc, slot, woff, last, todo>> /\ wpc = "save"
      /\ sDone' = sDone + HowMuch /\ ins' = ins - HowMuch
      /\ track' = (IF TrackEnds THEN track + 1 ELSE track)
      /\ file' = (IF TrackEnds /\ job.bulk /\ job.todo - sDone - HowMuch > 0 THEN file + 1 ELSE file)
  BY DEF SaveBuffer, ends
<1>3. TrackEnds /\ track >= 2 => job.todo - sDone - HowMuch <= 0
  <2>1. CASE track = 2
    BY <1>1, <2>1, HowMuchIs DEF TrackEnds
  <2>2. CASE track >= 3
    BY <1>1, <2>2, HowMuchIs DEF Saving
  <2> QED
    BY <1>1, <2>1, <2>2
<1>4. track' >= 3 => sDone' >= job.todo
  <2>1. CASE track >= 3
    BY <1>1, <1>2, <2>1, HowMuchIs DEF Saving
  <2>2. CASE track < 3 /\ track' >= 3
    BY <1>1, <1>2, <1>3, <2>2, HowMuchIs
  <2> QED
    BY <1>1, <2>1, <2>2
<1>5. track >= 1 /\ (track = 1 => file = 1)
  BY DEF Saving
<1>6. file' \in 1 .. 2 /\ (track' = 1 \/ ~job.bulk => file' = file)
  <2>1. CASE TrackEnds /\ job.bulk /\ job.todo - sDone - HowMuch > 0
    <3>1. track = 1
      BY <1>1, <1>3, <1>5, <2>1, HowMuchIs
    <3> QED
      BY <1>2, <1>5, <2>1, <3>1
  <2>2. CASE ~(TrackEnds /\ job.bulk /\ job.todo - sDone - HowMuch > 0)
    BY <1>1, <1>2, <2>2
  <2> QED
    BY <2>1, <2>2
<1>7. track' \in Nat /\ track' >= track /\ (track' # track => track' = track + 1)
  BY <1>1, <1>2
<1> QED
  BY <1>2, <1>4, <1>6, <1>7

LEMMA SavingKept ==
    ASSUME TypeOK, Counters, Saving, Next
    PROVE  Saving'
<1>1. /\ ins \in Nat /\ woff \in Nat /\ track \in Nat /\ last \in Slots \cup {NULL}
      /\ NULL \notin Slots /\ sDone \in Nat /\ job.todo \in Nat /\ todo \in Nat /\ Size \in Nat
  BY TypesAre, JobTypes, Sizes DEF Slots, NULL
<1>2. CASE ~SaveBuffer /\ ~TakeBuffer /\ ~DropBuffer
  <2>1. last' = last \/ last = NULL
    <3>1. CASE FirstDefined
      BY <3>1 DEF FirstDefined
    <3>2. CASE ~FirstDefined
      BY <1>2, <3>2 DEF Next, Reader, Writer, ReadLoop, RequestFree, ParentWaits, ParentWakes,
          OccupyBuffer, ReadSectors, ReadSingles, ShrinkJob, Synchronize, CountDefined,
          ReleaseDefined, UnflagChild, WakeChild, AwaitChild, ReaderSignal, UnrecoverableError,
          Interrupt, Gone, vars, WriteLoop, TestEnd, TestDrained, RequestDefined, ChildWaits,
          ChildWakes, Saved, CountDropped, ReleaseFree, UnflagParent, WakeParent, WriterSignal,
          SaveFails, ring
    <3> QED
      BY <3>1, <3>2
  <2>2. wpc' \in {"save", "drop"} => wpc \in {"save", "drop"}
    BY <1>2, WriterIdle DEF Saved
  <2>3. wpc' = "save" => wpc = "save"
    BY <1>2, WriterIdle
  <2>4. UNCHANGED <<job, sDone, slot, woff, ins, track, file>>
    BY <1>2, WriterIdle
  <2> QED
    BY <2>1, <2>2, <2>3, <2>4 DEF Saving
<1>3. CASE TakeBuffer
  <2>1. /\ slot' = last /\ last' = last /\ woff' = offset[last] /\ ins' = Available(last)
        /\ wpc = "take" /\ UNCHANGED <<job, sDone, track, file>>
    BY <1>3 DEF TakeBuffer, ring
  <2>2. last \in Slots
    BY <1>1, <2>1 DEF Counters
  <2>3. offset[last] \in 0 .. Size
    BY <2>2, TypesAre
  <2>4. woff' + ins' <= Size
    BY <1>1, <2>1, <2>3 DEF Available, Min2
  <2> QED
    BY <1>1, <2>1, <2>2, <2>4 DEF Saving
<1>4. CASE SaveBuffer
  BY <1>1, <1>4, SaveIs, HowMuchIs DEF Saving
<1>5. CASE DropBuffer
  <2>1. wpc' \in {"written", "gone"} /\ UNCHANGED <<job, sDone, track, file>>
    BY <1>5 DEF DropBuffer, WriterEnds, writer
  <2> QED
    BY <2>1 DEF Saving
<1> QED
  BY <1>2, <1>3, <1>4, <1>5

-----------------------------------------------------------------------------
(* The place of a buffer in the ring.                                      *)

\* Steps that leave the ends of the ring where they are.
LEMMA RingIdle ==
    ASSUME TypeOK, Next, ~OccupyBuffer, ~FirstDefined, ~CountDefined, ~DropBuffer, ~CountDropped
    PROVE  /\ UNCHANGED <<fill, last, read, written>>
           /\ ~Dead' => ~Dead /\ (Busy' <=> Busy) /\ (rpc' = "count" <=> rpc = "count")
           /\ wpc' # "gone" => wpc # "gone" /\ Oldest' = Oldest
                               /\ (wpc' = "written" <=> wpc = "written")
<1>1. CASE ReadLoop \/ RequestFree \/ ParentWaits \/ ParentWakes \/ UnrecoverableError \/ ReaderSignal
             \/ AwaitChild \/ ReleaseDefined \/ UnflagChild \/ WakeChild \/ ReadSectors \/ ReadSingles
             \/ ShrinkJob \/ Synchronize
  <2>1. UNCHANGED <<fill, last, read, written, wpc>>
    BY <1>1 DEF ReadLoop, RequestFree, ParentWaits, ParentWakes, UnrecoverableError, ReaderSignal,
                AwaitChild, ReleaseDefined, UnflagChild, WakeChild, ReadSectors, ReadSingles,
                ShrinkJob, Synchronize, ring
  <2>2. CASE Synchronize
    BY <2>1, <2>2, SyncIs DEF Dead, Busy, Oldest
  <2>3. CASE ~Synchronize
    BY <1>1, <2>1, <2>3
       DEF ReadLoop, RequestFree, ParentWaits, ParentWakes, UnrecoverableError, ReaderSignal,
           AwaitChild, ReleaseDefined, UnflagChild, WakeChild, ReadSectors, ReadSingles,
           ShrinkJob, ReaderEnds, Dead, Busy, Oldest
  <2> QED
    BY <2>2, <2>3
<1>2. CASE WriteLoop \/ TestEnd \/ TestDrained \/ RequestDefined \/ ChildWaits \/ ChildWakes
             \/ TakeBuffer \/ SaveBuffer \/ Saved \/ ReleaseFree \/ UnflagParent
             \/ WakeParent \/ WriterSignal \/ SaveFails \/ Interrupt \/ Gone
  <2>1. UNCHANGED <<fill, last, read, written, rpc>>
    BY <1>2 DEF WriteLoop, TestEnd, TestDrained, RequestDefined, ChildWaits, ChildWakes,
                TakeBuffer, SaveBuffer, Saved, ReleaseFree, UnflagParent, WakeParent, WriterSignal,
                SaveFails, Interrupt, Gone, vars, ring
  <2>2. wpc' # "gone" => wpc # "gone" /\ (wpc' = "written" <=> wpc = "written")
    BY <1>2 DEF WriteLoop, TestEnd, TestDrained, RequestDefined, ChildWaits, ChildWakes,
                TakeBuffer, SaveBuffer, Saved, ReleaseFree, UnflagParent, WakeParent, WriterSignal,
                SaveFails, Interrupt, Gone, vars, WriterEnds
  <2> QED
    BY <2>1, <2>2 DEF Dead, Busy, Oldest
<1> QED
  BY <1>1, <1>2 DEF Next, Reader, Writer

LEMMA PositionKept ==
    ASSUME TypeOK, Counters, Previous, Position, Next
    PROVE  Position'
<1>1. /\ read \in Nat /\ written \in Nat /\ Buffers \in Nat /\ Buffers >= 1
      /\ fill \in Slots \cup {NULL} /\ last \in Slots \cup {NULL} /\ NULL \notin Slots
      /\ 0 \in Slots
  BY TypesAre, Sizes DEF Slots, NULL
<1>2. \A s \in Slots : s \in Nat /\ s < Buffers
  BY <1>1 DEF Slots
<1>3. CASE ~OccupyBuffer /\ ~FirstDefined /\ ~CountDefined /\ ~DropBuffer /\ ~CountDropped
  BY <1>3, RingIdle DEF Position
<1>4. CASE OccupyBuffer
  <2>1. /\ UNCHANGED <<last, read, written, wpc>> /\ rpc = "occupy" /\ rpc' = "read"
        /\ fill' = IF fill = NULL THEN 0 ELSE INC(fill)
    BY <1>4 DEF OccupyBuffer
  <2>2. SUFFICES ASSUME wpc # "gone", last # NULL
                 PROVE  fill' # NULL /\ fill' - last - (read - Oldest) \in {0, Buffers, -Buffers}
    BY <2>1 DEF Position, Busy, Oldest
  <2>3. fill # NULL /\ fill - last - ((read - 1) - Oldest) \in {0, Buffers, -Buffers}
    BY <2>1, <2>2 DEF Position, Busy, Dead
  <2>4. /\ fill \in Slots /\ last \in Slots /\ fill' = (IF fill + 1 < Buffers THEN fill + 1 ELSE 0)
        /\ fill' \in Slots
    BY <1>1, <2>1, <2>2, <2>3, IncIs
  <2>5. Oldest \in Nat /\ read - Oldest <= Buffers
    BY <1>1 DEF Oldest, Counters
  <2> QED
    BY <1>1, <1>2, <2>3, <2>4, <2>5
<1>5. CASE FirstDefined
  <2>1. /\ UNCHANGED <<read, written, fill, wpc>> /\ rpc = "define" /\ rpc' \in {"count", "gone"}
        /\ rpc' = "count" => last' = IF last = NULL THEN fill ELSE last
    BY <1>5 DEF FirstDefined
  <2>2. CASE last # NULL
    BY <2>1, <2>2 DEF Position, Busy, Dead, Oldest
  <2>3. CASE last = NULL
    <3>1. read = 0 /\ written = 0 /\ wpc # "written"
      BY <1>1, <2>3 DEF Counters
    <3>2. fill # NULL
      BY <2>1 DEF Previous, Busy
    <3> QED
      BY <1>1, <1>2, <2>1, <2>3, <3>1, <3>2 DEF Position, Busy, Dead, Oldest
  <2> QED
    BY <2>2, <2>3
<1>6. CASE CountDefined
  <2>1. UNCHANGED <<fill, last, written, wpc>> /\ rpc = "count" /\ rpc' = "release" /\ read' = read + 1
    BY <1>6 DEF CountDefined
  <2>2. Oldest' = Oldest /\ read' - 1 = read
    BY <1>1, <2>1 DEF Oldest
  <2> QED
    BY <2>1, <2>2 DEF Position, Busy, Dead
<1>7. CASE DropBuffer
  <2>1. /\ UNCHANGED <<fill, read, written, rpc>> /\ wpc = "drop" /\ wpc' \in {"written", "gone"}
        /\ wpc' = "written" => read - written > 0 /\ last' = (IF last = NULL THEN fill ELSE INC(last))
    BY <1>7 DEF DropBuffer, WriterEnds
  <2>2. SUFFICES ASSUME wpc' = "written", ~Dead
                 PROVE  /\ fill # NULL
                        /\ fill - last' - ((IF Busy THEN read ELSE read - 1) - (written + 1))
                              \in {0, Buffers, -Buffers}
    BY <2>1 DEF Position, Busy, Dead, Oldest
  <2>3. last # NULL
    BY <1>1, <2>1, <2>2 DEF Counters
  <2> DEFINE r == IF Busy THEN read ELSE read - 1
  <2>4. fill # NULL /\ fill - last - (r - written) \in {0, Buffers, -Buffers}
    BY <1>1, <2>1, <2>2, <2>3 DEF Position, Oldest
  <2>5. r \in Int /\ r >= written
    BY <1>1, <2>1, <2>2
  <2>6. /\ last \in Slots /\ fill \in Slots /\ last' \in Slots
        /\ last' = IF last + 1 < Buffers THEN last + 1 ELSE 0
    BY <1>1, <2>1, <2>2, <2>3, <2>4, IncIs
  <2> HIDE DEF r
  <2>7. fill - last' - (r - (written + 1)) \in {0, Buffers, -Buffers}
    BY <1>1, <1>2, <2>4, <2>5, <2>6
  <2> QED
    BY <2>4, <2>7 DEF r
<1>8. CASE CountDropped
  <2>1. /\ UNCHANGED <<fill, last, read, rpc>> /\ wpc = "written" /\ wpc' = "release"
        /\ written' = written + 1
    BY <1>8 DEF CountDropped
  <2>2. Oldest' = Oldest
    BY <1>1, <2>1 DEF Oldest
  <2> QED
    BY <2>1, <2>2 DEF Position, Busy, Dead
<1> QED
  BY <1>3, <1>4, <1>5, <1>6, <1>7, <1>8

-----------------------------------------------------------------------------
(* The types.                                                              *)

\* What each step leaves of the medium in a buffer.
LEMMA SectorsType ==
    ASSUME TypeOK, NEW n \in Int, fill \in Slots
    PROVE  Sectors(n) \in [1 .. Size -> Int]
<1>1. /\ data[fill] \in [1 .. Size -> Int] /\ lsec * F \in Int /\ n * F \in Int /\ Size \in Nat
  <2>1. data \in [Slots -> [1 .. Size -> Int]] /\ lsec \in Int /\ F \in Int /\ Size \in Nat
    BY TypesAre, Sizes
  <2>2. \A a, b \in Int : a * b \in Int
    OBVIOUS
  <2> QED
    BY <2>1, <2>2
<1> DEFINE f(i) == IF i <= n * F THEN lsec * F + i ELSE data[fill][i]
<1>2. \A i \in 1 .. Size : f(i) \in Int
  BY <1>1
<1> HIDE DEF f
<1>3. [i \in 1 .. Size |-> f(i)] \in [1 .. Size -> Int]
  BY ONLY <1>2
<1> QED
  BY ONLY <1>3 DEF f, Sectors

LEMMA DataType ==
    ASSUME TypeOK, Previous, Saving, Next
    PROVE  data' \in [Slots -> [1 .. Size -> Int]]
<1>1. data \in [Slots -> [1 .. Size -> Int]] /\ fill \in Slots \cup {NULL} /\ slot \in Slots \cup {NULL}
  BY TypesAre
<1> DEFINE Buffer == [1 .. Size -> Int]
<1>2. \A s \in Slots, b \in Buffer : [data EXCEPT ![s] = b] \in [Slots -> Buffer]
  <2> HIDE DEF Buffer
  <2> QED
    BY <1>1 DEF Buffer
<1>3. CASE ReadSectors \/ ReadSingles
  <2>1. rpc = "read" /\ fill \in Slots
    BY <1>1, <1>3 DEF ReadSectors, ReadSingles, Previous, Busy
  <2>2. PICK n \in Int : data' = [data EXCEPT ![fill] = Sectors(n)]
    <3>1. CASE ReadSectors
      BY <3>1, TypesAre DEF ReadSectors
    <3>2. CASE ReadSingles
      BY <3>2, SinglesIs DEF ReadSingles
    <3> QED
      BY <1>3, <3>1, <3>2
  <2>3. Sectors(n) \in Buffer
    BY <2>1, SectorsType
  <2> HIDE DEF Buffer
  <2> QED
    BY <1>2, <2>1, <2>2, <2>3 DEF Buffer
<1>4. CASE SaveBuffer
  <2>1. wpc = "save" /\ slot \in Slots
    BY <1>1, <1>4 DEF SaveBuffer, Saving
  <2>2. /\ woff \in Nat /\ ins \in Nat /\ HowMuch \in Nat /\ HowMuch <= ins /\ Size \in Nat
        /\ woff + ins <= Size
    BY <2>1, TypesAre, HowMuchIs, Sizes DEF Saving
  <2> DEFINE how == HowMuch
             f(i) == IF woff < i /\ i <= woff + ins - how THEN data[slot][i + how] ELSE data[slot][i]
  <2>3. data' = [data EXCEPT ![slot] = [i \in 1 .. Size |-> f(i)]]
    BY <1>4 DEF SaveBuffer
  <2>4. data[slot] \in [1 .. Size -> Int]
    BY <1>1, <2>1
  <2>5. \A i \in 1 .. Size : f(i) \in Int
    <3> HIDE DEF how
    <3>1. how \in Nat /\ how <= ins
      BY <2>2 DEF how
    <3> QED
      BY <2>2, <2>4, <3>1
  <2> HIDE DEF f
  <2>6. [i \in 1 .. Size |-> f(i)] \in Buffer
    BY ONLY <2>5
  <2> HIDE DEF Buffer
  <2> QED
    BY <1>2, <2>1, <2>3, <2>6 DEF Buffer
<1>5. CASE ~ReadSectors /\ ~ReadSingles /\ ~SaveBuffer
  <2>1. data' = data
    BY <1>5 DEF Next, Reader, Writer, ReadLoop, RequestFree, ParentWaits, ParentWakes,
          OccupyBuffer, ShrinkJob, Synchronize, FirstDefined, CountDefined,
          ReleaseDefined, UnflagChild, WakeChild, AwaitChild, ReaderSignal, UnrecoverableError,
          Interrupt, Gone, vars, WriteLoop, TestEnd, TestDrained, RequestDefined, ChildWaits,
          ChildWakes, Saved, CountDropped, ReleaseFree, UnflagParent, WakeParent, WriterSignal,
          SaveFails, TakeBuffer, DropBuffer, ring
  <2> QED
    BY <1>1, <2>1
<1> QED
  BY <1>3, <1>4, <1>5

LEMMA OutType ==
    ASSUME TypeOK, Saving, SaveBuffer
    PROVE  out' \in Seq((1 .. 2) \X Int)
<1>1. /\ wpc = "save" /\ slot \in Slots /\ data[slot] \in [1 .. Size -> Int]
      /\ out \in Seq((1 .. 2) \X Int) /\ file \in 1 .. 2
  BY TypesAre DEF SaveBuffer, Saving
<1>2. /\ woff \in Nat /\ ins \in Nat /\ HowMuch \in Nat /\ HowMuch <= ins /\ Size \in Nat
      /\ woff + ins <= Size
  BY <1>1, TypesAre, HowMuchIs, Sizes DEF Saving
<1> DEFINE more == [i \in 1 .. HowMuch |-> <<file, data[slot][woff + i]>>]
<1>3. out' = out \o more
  BY DEF SaveBuffer
<1>4. \A i \in 1 .. HowMuch : <<file, data[slot][woff + i]>> \in (1 .. 2) \X Int
  BY <1>1, <1>2
<1>5. more \in Seq((1 .. 2) \X Int)
  <2>1. more \in [1 .. HowMuch -> (1 .. 2) \X Int]
    BY <1>4
  <2> HIDE DEF more
  <2> QED
    BY <1>2, <2>1, SeqDef
<1> HIDE DEF more
<1> QED
  BY <1>1, <1>3, <1>5, ConcatProperties

LEMMA WriterTypes ==
    ASSUME TypeOK, Counters, Saving, Next
    PROVE  /\ slot' \in Slots \cup {NULL} /\ sDone' \in Nat /\ woff' \in Nat /\ ins' \in Nat
           /\ track' \in Nat /\ file' \in 1 .. 2 /\ out' \in Seq((1 .. 2) \X Int)
<1>1. /\ slot \in Slots \cup {NULL} /\ sDone \in Nat /\ woff \in Nat /\ ins \in Nat
      /\ track \in Nat /\ file \in 1 .. 2 /\ out \in Seq((1 .. 2) \X Int)
      /\ last \in Slots \cup {NULL} /\ todo \in Nat /\ Size \in Nat
  BY TypesAre, Sizes
<1>2. CASE ~SaveBuffer /\ ~TakeBuffer /\ ~DropBuffer
  BY <1>1, <1>2, WriterIdle
<1>3. CASE TakeBuffer
  <2>1. /\ slot' = last /\ woff' = offset[last] /\ ins' = Available(last)
        /\ wpc = "take" /\ UNCHANGED <<sDone, track, file, out>>
    BY <1>3 DEF TakeBuffer
  <2>2. last \in Slots
    BY <1>1, <2>1 DEF Counters
  <2>3. offset[last] \in 0 .. Size
    BY <2>2, TypesAre
  <2>4. ins' \in Nat
    BY <1>1, <2>1, <2>3 DEF Available, Min2
  <2> QED
    BY <1>1, <2>1, <2>2, <2>3, <2>4
<1>4. CASE SaveBuffer
  BY <1>1, <1>4, SaveIs, HowMuchIs, OutType
<1>5. CASE DropBuffer
  <2>1. UNCHANGED <<slot, sDone, woff, ins, track, file, out>>
    BY <1>5 DEF DropBuffer, writer
  <2> QED
    BY <1>1, <2>1
<1> QED
  BY <1>2, <1>3, <1>4, <1>5

LEMMA ReaderTypes ==
    ASSUME TypeOK, Remaining, Previous, Next
    PROVE  /\ job' \in Jobs
           /\ fill' \in Slots \cup {NULL} /\ prev' \in Slots \cup {NULL}
           /\ iloop' \in Nat /\ todo' \in Nat /\ lsec' \in Int /\ burst' \in Int
           /\ overlap' \in 0 .. NSectors - 1 /\ retries' \in 0 .. MaxRetry - 1
           /\ offset' \in [Slots -> 0 .. Size] /\ eor' \in BOOLEAN
<1>1. /\ job \in Jobs /\ fill \in Slots \cup {NULL} /\ prev \in Slots \cup {NULL}
      /\ iloop \in Nat /\ todo \in Nat /\ lsec \in Int /\ burst \in Int
      /\ overlap \in 0 .. NSectors - 1 /\ retries \in 0 .. MaxRetry - 1
      /\ offset \in [Slots -> 0 .. Size] /\ eor \in BOOLEAN
      /\ MaxRetry \in Nat /\ MaxRetry >= 1 /\ NSectors \in Nat /\ F \in Nat /\ F >= 1
      /\ job.end \in Nat
  BY TypesAre, JobTypes, Sizes DEF TypeOK
<1>2. CASE ~ReadSectors /\ ~ReadSingles /\ ~ShrinkJob /\ ~Synchronize /\ ~OccupyBuffer
  BY <1>1, <1>2, ReaderIdle
<1>3. CASE ReadSectors
  <2>1. UNCHANGED <<job, fill, prev, iloop, todo, lsec, burst, overlap, retries, offset, eor>>
    BY <1>3 DEF ReadSectors, reader, ends
  <2> QED
    BY <1>1, <2>1
<1>4. CASE ReadSingles
  <2>1. UNCHANGED <<job, fill, prev, iloop, todo, lsec, overlap, retries, offset>>
    BY <1>4 DEF ReadSingles
  <2>2. burst' \in Int /\ eor' \in BOOLEAN
    BY <1>4, SinglesIs
  <2> QED
    BY <1>1, <2>1, <2>2
<1>5. CASE ShrinkJob
  <2>1. /\ UNCHANGED <<job, fill, prev, lsec, burst, overlap, retries, offset, eor>> /\ rpc = "shrink"
        /\ todo' = todo - (iloop - burst * F) /\ iloop' = burst * F
    BY <1>5 DEF ShrinkJob, ring
  <2>2. burst \in Nat /\ iloop <= todo
    BY <1>1, <2>1 DEF Remaining
  <2> DEFINE n == burst * F
  <2>3. n \in Nat
    BY <2>2, FewerSectors
  <2> HIDE DEF n
  <2>4. todo' = todo - (iloop - n) /\ iloop' = n
    BY <2>1 DEF n
  <2>5. todo' \in Nat /\ iloop' \in Nat
    BY <1>1, <2>2, <2>3, <2>4
  <2> QED
    BY <1>1, <2>1, <2>5
<1>6. CASE Synchronize
  <2>1. fill \in Slots
    BY <1>1, <1>6 DEF Synchronize, Previous, Busy
  <2>2. UNCHANGED <<job, fill, prev, todo, eor>>
    BY <1>6, SyncIs DEF ends
  <2>3. iloop' \in Nat /\ lsec' \in Int /\ burst' \in Int /\ overlap' \in 0 .. NSectors - 1
    BY <1>1, <1>6, SyncIs
  <2>4. retries' \in 0 .. MaxRetry - 1
    BY <1>1, <1>6, SyncIs
  <2>5. offset' = offset \/ \E off \in 0 .. Size : offset' = [offset EXCEPT ![fill] = off]
    BY <1>6, SyncIs
  <2>6. offset' \in [Slots -> 0 .. Size]
    BY <1>1, <2>1, <2>5
  <2> QED
    BY <1>1, <2>2, <2>3, <2>4, <2>6
<1>7. CASE OccupyBuffer
  <2>1. /\ prev' = fill /\ fill' = (IF fill = NULL THEN 0 ELSE INC(fill))
        /\ burst' = CalcSectorBurst(lsec, burst) /\ retries' = 0
        /\ UNCHANGED <<job, iloop, todo, lsec, overlap, offset, eor>>
    BY <1>7 DEF OccupyBuffer, ends
  <2>2. 0 \in Slots
    BY Sizes DEF Slots
  <2>3. fill' \in Slots
    BY <1>1, <2>1, <2>2, IncIs
  <2>4. (iloop + F - 1) \div F \in Int
    BY <1>1
  <2>5. burst' \in Int
    BY <1>1, <2>1, <2>4 DEF CalcSectorBurst, Min2
  <2> QED
    BY <1>1, <2>1, <2>3, <2>5
<1> QED
  BY <1>2, <1>3, <1>4, <1>5, <1>6, <1>7

LEMMA CounterTypes ==
    ASSUME TypeOK, Previous, Next
    PROVE  /\ read' \in Nat /\ written' \in Nat /\ def' \in Nat /\ free' \in Nat
           /\ last' \in Slots \cup {NULL}
<1>1. /\ read \in Nat /\ written \in Nat /\ def \in Nat /\ free \in Nat
      /\ last \in Slots \cup {NULL} /\ fill \in Slots \cup {NULL}
  BY TypesAre
<1>2. read' \in {read, read + 1} /\ written' \in {written, written + 1}
  <2>1. CASE ~OccupyBuffer /\ ~FirstDefined /\ ~CountDefined /\ ~DropBuffer /\ ~CountDropped
    BY <2>1, RingIdle
  <2>2. CASE OccupyBuffer \/ FirstDefined \/ CountDefined \/ DropBuffer \/ CountDropped
    BY <2>2 DEF OccupyBuffer, FirstDefined, CountDefined, DropBuffer, CountDropped
  <2> QED
    BY <2>1, <2>2
<1>3. last' \in Slots \cup {NULL}
  <2>1. CASE ~OccupyBuffer /\ ~FirstDefined /\ ~CountDefined /\ ~DropBuffer /\ ~CountDropped
    BY <1>1, <2>1, RingIdle
  <2>2. CASE OccupyBuffer \/ FirstDefined \/ CountDefined \/ DropBuffer \/ CountDropped
    BY <1>1, <2>2, IncIs DEF OccupyBuffer, FirstDefined, CountDefined, DropBuffer, CountDropped
  <2> QED
    BY <2>1, <2>2
<1>4. def' = def \/ def' = def + 1 \/ (def > 0 /\ def' = def - 1)
  <2>1. CASE Reader \/ UnrecoverableError \/ SaveFails \/ Interrupt \/ Gone
    BY <2>1 DEF Reader, ReadLoop, RequestFree, ParentWaits, ParentWakes,
          OccupyBuffer, ShrinkJob, Synchronize, FirstDefined, CountDefined, ReadSectors, ReadSingles,
          ReleaseDefined, UnflagChild, WakeChild, AwaitChild, ReaderSignal, UnrecoverableError,
          Interrupt, Gone, SaveFails, vars, sync
  <2>2. CASE Writer
    BY <2>2 DEF Writer, WriteLoop, TestEnd, TestDrained, RequestDefined, ChildWaits,
          ChildWakes, Saved, CountDropped, ReleaseFree, UnflagParent, WakeParent, WriterSignal,
          TakeBuffer, DropBuffer, SaveBuffer, sync
  <2> QED
    BY <2>1, <2>2 DEF Next
<1>5. free' = free \/ free' = free + 1 \/ (free > 0 /\ free' = free - 1)
  <2>1. CASE Reader \/ UnrecoverableError \/ SaveFails \/ Interrupt \/ Gone
    BY <2>1 DEF Reader, ReadLoop, RequestFree, ParentWaits, ParentWakes,
          OccupyBuffer, ShrinkJob, Synchronize, FirstDefined, CountDefined, ReadSectors, ReadSingles,
          ReleaseDefined, UnflagChild, WakeChild, AwaitChild, ReaderSignal, UnrecoverableError,
          Interrupt, Gone, SaveFails, vars, sync
  <2>2. CASE Writer
    BY <2>2 DEF Writer, WriteLoop, TestEnd, TestDrained, RequestDefined, ChildWaits,
          ChildWakes, Saved, CountDropped, ReleaseFree, UnflagParent, WakeParent, WriterSignal,
          TakeBuffer, DropBuffer, SaveBuffer, sync
  <2> QED
    BY <2>1, <2>2 DEF Next
<1> QED
  BY <1>1, <1>2, <1>3, <1>4, <1>5

LEMMA FlagTypes ==
    ASSUME TypeOK, Next
    PROVE  /\ childWaits' \in BOOLEAN /\ parentWaits' \in BOOLEAN
           /\ rsig' \in BOOLEAN /\ wsig' \in BOOLEAN
<1>1. /\ childWaits \in BOOLEAN /\ parentWaits \in BOOLEAN /\ rsig \in BOOLEAN /\ wsig \in BOOLEAN
  BY TypesAre
<1>2. CASE Reader \/ UnrecoverableError \/ SaveFails \/ Interrupt \/ Gone
  <2>1. /\ childWaits' = childWaits \/ childWaits' = FALSE
        /\ parentWaits' = parentWaits \/ parentWaits' = TRUE
    BY <1>2 DEF Reader, ReadLoop, RequestFree, ParentWaits, ParentWakes,
          OccupyBuffer, ShrinkJob, Synchronize, FirstDefined, CountDefined, ReadSectors, ReadSingles,
          ReleaseDefined, UnflagChild, WakeChild, AwaitChild, ReaderSignal, UnrecoverableError,
          Interrupt, Gone, SaveFails, vars, sync
  <2>2. (rsig' = rsig \/ rsig' = TRUE) /\ (wsig' = wsig \/ wsig' = TRUE)
    BY <1>2 DEF Reader, ReadLoop, RequestFree, ParentWaits, ParentWakes,
          OccupyBuffer, ShrinkJob, Synchronize, FirstDefined, CountDefined, ReadSectors, ReadSingles,
          ReleaseDefined, UnflagChild, WakeChild, AwaitChild, ReaderSignal, UnrecoverableError,
          Interrupt, Gone, SaveFails, vars, signals
  <2>3. childWaits' \in BOOLEAN
    BY <1>1, <2>1, Zenon
  <2>4. parentWaits' \in BOOLEAN
    BY <1>1, <2>1, Zenon
  <2>5. rsig' \in BOOLEAN /\ wsig' \in BOOLEAN
    BY <1>1, <2>2, Zenon
  <2> QED
    BY <2>3, <2>4, <2>5
<1>3. CASE Writer
  <2>1. /\ childWaits' = childWaits \/ childWaits' = TRUE
        /\ parentWaits' = parentWaits \/ parentWaits' = FALSE
        /\ UNCHANGED <<rsig, wsig>>
    BY <1>3 DEF Writer, WriteLoop, TestEnd, TestDrained, RequestDefined, ChildWaits,
          ChildWakes, Saved, CountDropped, ReleaseFree, UnflagParent, WakeParent, WriterSignal,
          TakeBuffer, DropBuffer, SaveBuffer, sync, signals
  <2>2. childWaits' \in BOOLEAN
    BY <1>1, <2>1, Zenon
  <2>3. parentWaits' \in BOOLEAN
    BY <1>1, <2>1, Zenon
  <2> QED
    BY <1>1, <2>1, <2>2, <2>3
<1> QED
  BY <1>2, <1>3 DEF Next

LEMMA PlaceTypes ==
    ASSUME TypeOK, Next
    PROVE  /\ rpc' \in ReaderPC /\ wpc' \in WriterPC
           /\ rexit' \in {"none", "ok", "read", "semaphore", "sigpipe", "interrupted", "abort"}
           /\ wexit' \in {"none", "ok", "write", "sigpipe", "interrupted", "abort"}
<1>1. /\ rpc \in ReaderPC /\ wpc \in WriterPC
      /\ rexit \in {"none", "ok", "read", "semaphore", "sigpipe", "interrupted", "abort"}
      /\ wexit \in {"none", "ok", "write", "sigpipe", "interrupted", "abort"}
  BY DEF TypeOK
<1>2. CASE Synchronize
  BY <1>1, <1>2, SyncIs DEF ReaderPC, exits
<1>3. CASE UnrecoverableError \/ SaveFails \/ Interrupt \/ Gone
  BY <1>1, <1>3 DEF UnrecoverableError, Interrupt, Gone, SaveFails, vars, exits, ReaderEnds,
        WriterEnds, ReaderPC, WriterPC
<1>4. CASE Reader /\ ~Synchronize
  <2>1. wpc' = wpc /\ wexit' = wexit
    BY <1>4 DEF Reader, ReadLoop, RequestFree, ParentWaits, ParentWakes,
          OccupyBuffer, ShrinkJob, FirstDefined, CountDefined, ReadSectors, ReadSingles,
          ReleaseDefined, UnflagChild, WakeChild, AwaitChild, ReaderSignal, exits
  <2>2. /\ rpc' \in ReaderPC
        /\ rexit' \in {rexit, "ok", "semaphore", "sigpipe", "interrupted", "abort"}
    BY <1>4 DEF Reader, ReadLoop, RequestFree, ParentWaits, ParentWakes,
          OccupyBuffer, ShrinkJob, FirstDefined, CountDefined, ReadSectors, ReadSingles,
          ReleaseDefined, UnflagChild, WakeChild, AwaitChild, ReaderSignal, exits, ReaderEnds, ReaderPC
  <2> QED
    BY <1>1, <2>1, <2>2
<1>5. CASE Writer
  <2>1. rpc' = rpc /\ rexit' = rexit
    BY <1>5 DEF Writer, WriteLoop, TestEnd, TestDrained, RequestDefined, ChildWaits,
          ChildWakes, Saved, CountDropped, ReleaseFree, UnflagParent, WakeParent, WriterSignal,
          TakeBuffer, DropBuffer, SaveBuffer, exits
  <2>2. wpc' \in WriterPC \/ wpc' = wpc
    BY <1>5 DEF Writer, WriteLoop, TestEnd, TestDrained, RequestDefined, ChildWaits,
          ChildWakes, Saved, CountDropped, ReleaseFree, UnflagParent, WakeParent, WriterSignal,
          TakeBuffer, DropBuffer, SaveBuffer, WriterEnds, WriterPC
  <2>3. wexit' \in {wexit, "ok", "sigpipe", "interrupted", "abort"}
    BY <1>5 DEF Writer, WriteLoop, TestEnd, TestDrained, RequestDefined, ChildWaits,
          ChildWakes, Saved, CountDropped, ReleaseFree, UnflagParent, WakeParent, WriterSignal,
          TakeBuffer, DropBuffer, SaveBuffer, exits, WriterEnds
  <2> QED
    BY <1>1, <2>1, <2>2, <2>3
<1> QED
  BY <1>2, <1>3, <1>4, <1>5 DEF Next

\* What was early stays early, and only a process that waited becomes so.
LEMMA EarlyKept ==
    ASSUME TypeOK, Next
    PROVE  /\ early' \in BOOLEAN /\ (early => early')
           /\ ParentWakes \/ ChildWakes \/ early' = early
<1>1. early \in BOOLEAN
  BY TypesAre
<1>2. CASE ParentWakes
  <2>1. early' = (early \/ (rpc' = "occupy" /\ Full))
    BY <1>2 DEF ParentWakes
  <2> QED
    BY <1>1, <1>2, <2>1, Zenon
<1>3. CASE ChildWakes
  <2>1. early' = (early \/ Empty)
    BY <1>3 DEF ChildWakes
  <2> QED
    BY <1>1, <1>3, <2>1, Zenon
<1>4. CASE ~ParentWakes /\ ~ChildWakes
  <2>1. early' = early
    BY <1>4 DEF Next, Reader, ReadLoop, RequestFree, ParentWaits, OccupyBuffer,
          ReadSectors, ReadSingles, ShrinkJob, Synchronize, FirstDefined, CountDefined,
          ReleaseDefined, UnflagChild, WakeChild, AwaitChild, ReaderSignal, UnrecoverableError,
          Writer, WriteLoop, TestEnd, TestDrained, RequestDefined, ChildWaits,
          TakeBuffer, SaveBuffer, Saved, DropBuffer, CountDropped, ReleaseFree, UnflagParent,
          WakeParent, WriterSignal, SaveFails, Interrupt, Gone, vars
  <2> QED
    BY <1>1, <2>1, Zenon
<1> QED
  BY <1>2, <1>3, <1>4

LEMMA TypesKept ==
    ASSUME TypeOK, Counters, Remaining, Previous, Saving, Next
    PROVE  TypeOK'
<1>1. job' \in Jobs
  BY ReaderTypes
<1>2. data' \in [Slots -> [1 .. Size -> Int]] /\ offset' \in [Slots -> 0 .. Size]
  BY DataType, ReaderTypes
<1>3. {fill, last, prev, slot}' \subseteq Slots \cup {NULL}
  BY ReaderTypes, WriterTypes, CounterTypes
<1>4. {read, written, def, free, sDone, woff, ins, iloop, todo}' \subseteq Nat
  BY ReaderTypes, WriterTypes, CounterTypes
<1>5. {childWaits, parentWaits, eor, rsig, wsig, early}' \subseteq BOOLEAN
  <2>1. /\ childWaits' \in BOOLEAN /\ parentWaits' \in BOOLEAN /\ eor' \in BOOLEAN
        /\ rsig' \in BOOLEAN /\ wsig' \in BOOLEAN /\ early' \in BOOLEAN
    BY FlagTypes, ReaderTypes, EarlyKept, TypesAre
  <2> QED
    BY <2>1, Zenon
<1>6. {lsec, burst}' \subseteq Int /\ overlap' \in 0 .. NSectors - 1 /\ retries' \in 0 .. MaxRetry - 1
  BY ReaderTypes
<1>7. track' \in Nat /\ file' \in 1 .. 2 /\ out' \in Seq((1 .. 2) \X Int)
  BY WriterTypes
<1> QED
  BY <1>1, <1>2, <1>3, <1>4, <1>5, <1>6, <1>7, PlaceTypes DEF TypeOK

-----------------------------------------------------------------------------
(* Flags and pipes; semaphores.                                            *)

LEMMA FlagsKept ==
    ASSUME TypeOK, Flags, Pipes, Next
    PROVE  Flags'
<1>1. def \in Nat /\ free \in Nat
  BY TypesAre
<1>2. CASE Synchronize
  <2>1. /\ UNCHANGED <<def, free, childWaits, parentWaits, wpc>>
        /\ rpc = "sync" /\ rpc' \in {"define", "read"}
    BY <1>2, SyncIs DEF sync
  <2> QED
    BY <2>1 DEF Flags, WakeupsMatch
<1>3. CASE \/ ReadLoop \/ OccupyBuffer \/ ReadSectors \/ ReadSingles \/ ShrinkJob \/ FirstDefined
           \/ CountDefined \/ RequestFree \/ UnrecoverableError \/ AwaitChild \/ ReaderSignal
  <2>1. /\ UNCHANGED <<def, free, childWaits, parentWaits, wpc>>
        /\ rpc' \notin {"unflag", "post"}
        /\ rpc \in {"blocked", "closing", "gone"} => rpc' \in {"blocked", "closing", "gone"}
        /\ rpc = "gone" => rpc' = "gone"
    BY <1>3 DEF ReadLoop, OccupyBuffer, ReadSectors, ReadSingles, ShrinkJob, FirstDefined,
                CountDefined, RequestFree, UnrecoverableError, AwaitChild, ReaderSignal, ReaderEnds,
                sync, Pipes
  <2> QED
    BY <1>1, <2>1 DEF Flags, WakeupsMatch
<1>4. CASE ParentWaits
  BY <1>1, <1>4 DEF ParentWaits, Flags, WakeupsMatch
<1>5. CASE ParentWakes
  BY <1>1, <1>5 DEF ParentWakes, ReaderEnds, Flags, WakeupsMatch
<1>6. CASE ReleaseDefined
  BY <1>1, <1>6 DEF ReleaseDefined, Flags, WakeupsMatch
<1>7. CASE UnflagChild
  BY <1>1, <1>7 DEF UnflagChild, Flags, WakeupsMatch
<1>8. CASE WakeChild
  BY <1>1, <1>8 DEF WakeChild, ReaderEnds, Flags, WakeupsMatch
<1>9. CASE \/ WriteLoop \/ TestEnd \/ TestDrained \/ RequestDefined \/ Saved \/ CountDropped
           \/ WriterSignal \/ TakeBuffer \/ DropBuffer \/ SaveBuffer \/ SaveFails
  <2>1. /\ UNCHANGED <<def, free, childWaits, parentWaits, rpc>>
        /\ wpc' \notin {"unflag", "post"} /\ wpc # "gone"
        /\ wpc = "blocked" => wpc' = "gone"
    BY <1>9 DEF WriteLoop, TestEnd, TestDrained, RequestDefined, Saved, CountDropped, WriterSignal,
                TakeBuffer, DropBuffer, SaveBuffer, SaveFails, WriterEnds, sync, Pipes
  <2> QED
    BY <1>1, <2>1 DEF Flags, WakeupsMatch
<1>10. CASE ChildWaits
  BY <1>1, <1>10 DEF ChildWaits, Flags, WakeupsMatch
<1>11. CASE ChildWakes
  BY <1>1, <1>11 DEF ChildWakes, Flags, WakeupsMatch
<1>12. CASE ReleaseFree
  BY <1>1, <1>12 DEF ReleaseFree, Flags, WakeupsMatch
<1>13. CASE UnflagParent
  BY <1>1, <1>13 DEF UnflagParent, Flags, WakeupsMatch
<1>14. CASE WakeParent
  BY <1>1, <1>14 DEF WakeParent, WriterEnds, Flags, WakeupsMatch
<1>15. CASE Interrupt \/ Gone
  <2>1. UNCHANGED <<def, free, childWaits, parentWaits, rpc, wpc>>
    BY <1>15 DEF Interrupt, Gone, vars, sync
  <2> QED
    BY <2>1 DEF Flags, WakeupsMatch
<1> QED
  BY <1>2, <1>3, <1>4, <1>5, <1>6, <1>7, <1>8, <1>9, <1>10, <1>11, <1>12, <1>13, <1>14, <1>15
     DEF Next, Reader, Writer

LEMMA TokensKept ==
    ASSUME TypeOK, Counters, Tokens, ~Pipes, Next
    PROVE  Tokens'
<1>1. /\ def \in Nat /\ free \in Nat /\ read \in Nat /\ written \in Nat /\ Buffers \in Nat
  BY TypesAre, Sizes
<1>2. {rpc, wpc} \cap {"flag", "blocked", "unflag", "post"} = {}
  BY DEF Tokens
<1>3. rpc \notin {"flag", "blocked", "unflag", "post"} /\ wpc \notin {"flag", "blocked", "unflag", "post"}
  BY <1>2
<1>4. CASE \/ ReadLoop \/ OccupyBuffer \/ ReadSectors \/ ReadSingles \/ ShrinkJob \/ FirstDefined
           \/ Synchronize \/ UnrecoverableError \/ AwaitChild \/ ReaderSignal
  <2>1. UNCHANGED <<def, free, read, written, wpc>>
    BY <1>4 DEF ReadLoop, OccupyBuffer, ReadSectors, ReadSingles, ShrinkJob, FirstDefined,
                Synchronize, UnrecoverableError, AwaitChild, ReaderSignal, sync, ring
  <2>2. /\ rpc' \notin {"flag", "blocked", "unflag", "post", "release"}
        /\ Busy' \/ rpc' = "occupy" => Busy \/ rpc = "occupy"
    <3>1. CASE Synchronize
      BY <3>1, SyncIs DEF Busy
    <3>2. CASE ~Synchronize
      BY <1>4, <3>2 DEF ReadLoop, OccupyBuffer, ReadSectors, ReadSingles, ShrinkJob, FirstDefined,
                UnrecoverableError, AwaitChild, ReaderSignal, ReaderEnds, Busy
    <3> QED
      BY <3>1, <3>2
  <2> QED
    BY <1>1, <1>3, <2>1, <2>2 DEF Tokens
<1>5. CASE RequestFree
  <2>1. /\ UNCHANGED <<def, read, written, wpc>> /\ rpc = "request" /\ rpc' = "occupy"
        /\ free > 0 /\ free' = free - 1
    BY <1>5 DEF RequestFree, ring, Pipes
  <2> QED
    BY <1>1, <1>3, <2>1 DEF Tokens, Busy
<1>6. CASE ParentWaits \/ ParentWakes \/ UnflagChild \/ WakeChild
  BY <1>3, <1>6 DEF ParentWaits, ParentWakes, UnflagChild, WakeChild
<1>7. CASE CountDefined
  <2>1. /\ UNCHANGED <<def, free, written, wpc>> /\ rpc = "count" /\ rpc' = "release"
        /\ read' = read + 1
    BY <1>7 DEF CountDefined, sync
  <2> QED
    BY <1>1, <1>3, <2>1 DEF Tokens, Busy
<1>8. CASE ReleaseDefined
  <2>1. /\ UNCHANGED <<free, read, written, wpc>> /\ rpc = "release" /\ rpc' = "loop"
        /\ def' = def + 1
    BY <1>8 DEF ReleaseDefined, ring, Pipes
  <2> QED
    BY <1>1, <1>3, <2>1 DEF Tokens, Busy
<1>9. CASE \/ WriteLoop \/ TestEnd \/ TestDrained \/ Saved \/ WriterSignal \/ TakeBuffer \/ DropBuffer
           \/ SaveBuffer \/ SaveFails
  <2>1. UNCHANGED <<def, free, read, written, rpc>>
    BY <1>9 DEF WriteLoop, TestEnd, TestDrained, Saved, WriterSignal, TakeBuffer, DropBuffer,
                SaveBuffer, SaveFails, sync, ring
  <2>2. /\ wpc' \notin {"flag", "blocked", "unflag", "post", "release"}
        /\ wpc' \in {"take", "save", "drop", "written"} => wpc \in {"take", "save", "drop", "written"}
    BY <1>9 DEF WriteLoop, TestEnd, TestDrained, Saved, WriterSignal, TakeBuffer, DropBuffer,
                SaveBuffer, SaveFails, WriterEnds
  <2> QED
    BY <1>1, <1>3, <2>1, <2>2 DEF Tokens, Busy
<1>10. CASE RequestDefined
  <2>1. /\ UNCHANGED <<free, read, written, rpc>> /\ wpc = "request" /\ wpc' = "take"
        /\ def > 0 /\ def' = def - 1
    BY <1>10 DEF RequestDefined, ring, Pipes
  <2> QED
    BY <1>1, <1>3, <2>1 DEF Tokens, Busy
<1>11. CASE ChildWaits \/ ChildWakes \/ UnflagParent \/ WakeParent
  BY <1>3, <1>11 DEF ChildWaits, ChildWakes, UnflagParent, WakeParent
<1>12. CASE CountDropped
  <2>1. /\ UNCHANGED <<def, free, read, rpc>> /\ wpc = "written" /\ wpc' = "release"
        /\ written' = written + 1
    BY <1>12 DEF CountDropped, sync
  <2> QED
    BY <1>1, <1>3, <2>1 DEF Tokens, Busy
<1>13. CASE ReleaseFree
  <2>1. /\ UNCHANGED <<def, read, written, rpc>> /\ wpc = "release" /\ wpc' = "loop"
        /\ free' = free + 1
    BY <1>13 DEF ReleaseFree, ring, Pipes
  <2> QED
    BY <1>1, <1>3, <2>1 DEF Tokens, Busy
<1>14. CASE Interrupt \/ Gone
  <2>1. UNCHANGED <<def, free, read, written, rpc, wpc>>
    BY <1>14 DEF Interrupt, Gone, vars, sync, ring
  <2> QED
    BY <2>1 DEF Tokens, Busy
<1> QED
  BY <1>4, <1>5, <1>6, <1>7, <1>8, <1>9, <1>10, <1>11, <1>12, <1>13, <1>14 DEF Next, Reader, Writer

\* A process that finds a buffer keeps it, until it has counted it.
LEMMA HeldKept ==
    ASSUME TypeOK, Counters, ~Pipes => Tokens, Held, ~early', Next
    PROVE  Held'
<1>1. /\ read \in Nat /\ written \in Nat /\ Buffers \in Nat /\ def \in Nat /\ free \in Nat
      /\ read - written >= 0 /\ read - written <= Buffers
  BY TypesAre, Sizes DEF Counters
<1>2. CASE RequestFree
  <2>1. /\ UNCHANGED <<read, written, wpc>> /\ rpc' \in {"flag", "occupy"}
        /\ rpc' = "occupy" => IF Pipes THEN ~Full ELSE free > 0
    BY <1>2 DEF RequestFree, ring
  <2>2. ~Pipes /\ free > 0 => read - written < Buffers
    <3>1. ~Pipes => free + 0 <= Buffers - (read - written)
      BY <1>1 DEF Tokens
    <3> QED
      BY <1>1, <3>1
  <2>3. rpc' = "occupy" => read - written < Buffers
    BY <1>1, <2>1, <2>2 DEF Full
  <2> QED
    BY <2>1, <2>3 DEF Held, Busy
<1>3. CASE ParentWakes
  <2>1. /\ UNCHANGED <<read, written, wpc>> /\ rpc' \in {"occupy", "closing"}
        /\ early' = (early \/ (rpc' = "occupy" /\ Full))
    BY <1>3 DEF ParentWakes, ReaderEnds, ring
  <2>2. rpc' = "occupy" => ~Full
    BY <2>1, Zenon
  <2>3. rpc' = "occupy" => read - written < Buffers
    BY <1>1, <2>2 DEF Full
  <2> QED
    BY <2>1, <2>3 DEF Held, Busy
<1>4. CASE RequestDefined
  <2>1. /\ UNCHANGED <<read, written, rpc>> /\ wpc' \in {"flag", "take"}
        /\ wpc' = "take" => IF Pipes THEN ~Empty ELSE def > 0
    BY <1>4 DEF RequestDefined, ring
  <2>2. ~Pipes /\ def > 0 => read - written > 0
    <3>1. ~Pipes => def + 0 <= read - written
      BY <1>1 DEF Tokens
    <3> QED
      BY <1>1, <3>1
  <2>3. wpc' = "take" => read - written > 0
    BY <1>1, <2>1, <2>2 DEF Empty
  <2> QED
    BY <2>1, <2>3 DEF Held, Busy
<1>5. CASE ChildWakes
  <2>1. /\ UNCHANGED <<read, written, rpc>> /\ wpc' = "take"
        /\ early' = (early \/ Empty)
    BY <1>5 DEF ChildWakes, ring
  <2>2. ~Empty
    BY <2>1, Zenon
  <2>3. read - written > 0
    BY <1>1, <2>2 DEF Empty
  <2> QED
    BY <2>1, <2>3 DEF Held, Busy
<1>6. CASE CountDefined
  <2>1. UNCHANGED <<written, wpc>> /\ rpc' = "release" /\ read' = read + 1
    BY <1>6 DEF CountDefined
  <2> QED
    BY <1>1, <2>1 DEF Held, Busy
<1>7. CASE CountDropped
  <2>1. UNCHANGED <<read, rpc>> /\ wpc' = "release" /\ written' = written + 1
    BY <1>7 DEF CountDropped
  <2> QED
    BY <1>1, <2>1 DEF Held, Busy
<1>8. CASE Synchronize
  <2>1. UNCHANGED <<read, written, wpc>> /\ rpc = "sync" /\ rpc' \in {"define", "read"}
    BY <1>8, SyncIs
  <2> QED
    BY <2>1 DEF Held, Busy
<1>9. CASE \/ ReadLoop \/ ParentWaits \/ OccupyBuffer \/ ReadSectors \/ ReadSingles \/ ShrinkJob
           \/ FirstDefined \/ ReleaseDefined \/ UnflagChild \/ WakeChild \/ AwaitChild
           \/ ReaderSignal \/ UnrecoverableError
  <2>1. UNCHANGED <<read, written, wpc>>
    BY <1>9 DEF ReadLoop, ParentWaits, OccupyBuffer, ReadSectors, ReadSingles, ShrinkJob, FirstDefined,
                ReleaseDefined, UnflagChild, WakeChild, AwaitChild, ReaderSignal,
                UnrecoverableError, ring
  <2>2. Busy' \/ rpc' = "occupy" => Busy \/ rpc = "occupy"
    BY <1>9 DEF ReadLoop, ParentWaits, OccupyBuffer, ReadSectors, ReadSingles, ShrinkJob, FirstDefined,
                ReleaseDefined, UnflagChild, WakeChild, AwaitChild, ReaderSignal,
                UnrecoverableError, ReaderEnds, Busy
  <2> QED
    BY <2>1, <2>2 DEF Held
<1>10. CASE \/ WriteLoop \/ TestEnd \/ TestDrained \/ ChildWaits \/ TakeBuffer \/ SaveBuffer \/ Saved
            \/ DropBuffer \/ ReleaseFree \/ UnflagParent \/ WakeParent \/ WriterSignal \/ SaveFails
  <2>1. UNCHANGED <<read, written, rpc>>
    BY <1>10 DEF WriteLoop, TestEnd, TestDrained, ChildWaits, TakeBuffer, SaveBuffer, Saved, DropBuffer,
                 ReleaseFree, UnflagParent, WakeParent, WriterSignal, SaveFails, ring
  <2>2. wpc' \in {"take", "save", "drop", "written"} => wpc \in {"take", "save", "drop", "written"}
    BY <1>10 DEF WriteLoop, TestEnd, TestDrained, ChildWaits, TakeBuffer, SaveBuffer, Saved, DropBuffer,
                 ReleaseFree, UnflagParent, WakeParent, WriterSignal, SaveFails, WriterEnds
  <2> QED
    BY <2>1, <2>2 DEF Held, Busy
<1>11. CASE Interrupt \/ Gone
  <2>1. UNCHANGED <<read, written, rpc, wpc>>
    BY <1>11 DEF Interrupt, Gone, vars, ring
  <2> QED
    BY <2>1 DEF Held, Busy
<1> QED
  BY <1>2, <1>3, <1>4, <1>5, <1>6, <1>7, <1>8, <1>9, <1>10, <1>11 DEF Next, Reader, Writer

-----------------------------------------------------------------------------
(* How far the two are, if no sector is read twice.                        *)

LEMMA PIs ==
    ASSUME NEW n \in Nat
    PROVE  P(n) \in Nat /\ P(n + 1) = P(n) + Size /\ \A m \in Nat : m <= n => P(m) <= P(n)
<1>1. \A a, b \in Nat : a * b \in Nat
  OBVIOUS
<1>2. \A a, b \in Nat : (a + 1) * b = a * b + b
  OBVIOUS
<1>3. \A a, b, c \in Nat : a <= b => a * c <= b * c
  OBVIOUS
<1> QED
  BY <1>1, <1>2, <1>3, Sizes DEF P

\* The sectors that hold n samples.
LEMMA CeilIs ==
    ASSUME NEW n \in Nat, n > 0
    PROVE  LET q == (n + F - 1) \div F IN q \in Nat /\ n <= q * F
<1> DEFINE q == (n + F - 1) \div F
<1>1. F \in Nat /\ F >= 1
  BY Sizes
<1>2. \A x \in Nat : x \div F \in Int /\ x - (x \div F) * F = x % F /\ x % F < F
  BY <1>1
<1>3. \A x \in Nat : x \div F \in Nat
  BY <1>1
<1>4. n + F - 1 \in Nat
  BY <1>1
<1>5. q \in Nat
  BY <1>3, <1>4
<1> QED
  BY <1>1, <1>2, <1>4, <1>5

\* The next burst fills the buffer or has all that is left.
LEMMA BurstIs ==
    ASSUME TypeOK, iloop > 0, iloop <= todo, todo = job.todo, lsec * F = todo - iloop,
           burst = NSectors \/ (burst = 0 /\ lsec = 0)
    PROVE  LET b == CalcSectorBurst(lsec, burst)
           IN  b \in Nat /\ b <= NSectors /\ (b < NSectors => iloop <= b * F)
<1>1. /\ iloop \in Nat /\ todo \in Nat /\ lsec \in Int /\ job.end \in Nat /\ job.todo <= job.end * F
      /\ NSectors \in Nat /\ NSectors >= 1 /\ F \in Nat /\ F >= 1 /\ job.end * F \in Nat
  BY TypesAre, JobTypes, Sizes
<1>2. CASE lsec + burst - 1 >= job.end
  <2>1. CalcSectorBurst(lsec, burst) = job.end - lsec
    BY <1>2 DEF CalcSectorBurst
  <2>2. burst = NSectors
    BY <1>1, <1>2
  <2>3. \A a, b \in Int, c \in Nat : a <= b => a * c <= b * c
    OBVIOUS
  <2>4. \A a, b, c \in Int : (a - b) * c = a * c - b * c
    OBVIOUS
  <2>5. lsec < job.end
    <3>1. lsec * F < job.end * F
      BY <1>1
    <3> QED
      BY <1>1, <2>3, <3>1
  <2>6. (job.end - lsec) * F = job.end * F - lsec * F
    BY <1>1, <2>4
  <2> QED
    BY <1>1, <1>2, <2>1, <2>2, <2>5, <2>6
<1>3. CASE ~(lsec + burst - 1 >= job.end)
  <2> DEFINE q == (iloop + F - 1) \div F
  <2>1. CalcSectorBurst(lsec, burst) = Min2(NSectors, q)
    BY <1>3 DEF CalcSectorBurst
  <2>2. q \in Nat /\ iloop <= q * F
    BY <1>1, CeilIs
  <2> HIDE DEF q
  <2> QED
    BY <1>1, <2>1, <2>2 DEF Min2
<1> QED
  BY <1>2, <1>3

\* A step that looks for the place of a buffer where none are read twice.
LEMMA SyncPlain ==
    ASSUME TypeOK, Remaining, Plain, Synchronize, burst \in Nat, burst <= NSectors
    PROVE  /\ rpc = "sync" /\ rpc' = "define"
           /\ offset' = [offset EXCEPT ![fill] = 0]
           /\ burst' = burst /\ lsec' = lsec + burst
           /\ burst * F \in Nat /\ burst * F <= Size
           /\ iloop' = IF iloop >= burst * F THEN iloop - burst * F ELSE 0
           /\ UNCHANGED <<job, data, fill, last, read, written, sync, ends, prev, wpc, writer,
                          signals, exits>>
<1>1. overlap = 0
  BY DEF Remaining, Plain
<1>2. /\ rpc = "sync"
      /\ UNCHANGED <<job, data, fill, last, read, written, sync, ends, prev, wpc, writer,
                     signals, exits>>
  BY DEF Synchronize
<1>3. Advance(0, TRUE, overlap, lsec, burst)
  BY <1>1 DEF Synchronize, Unsynchronised
<1>4. burst * F \in Nat /\ burst * F <= Size /\ iloop \in Nat /\ lsec \in Int
  BY FewerSectors, Sizes, TypesAre
<1> DEFINE n == burst * F
<1> HIDE DEF n
<1>5. /\ rpc' = "define" /\ offset' = [offset EXCEPT ![fill] = 0]
      /\ burst' = burst /\ lsec' = lsec + burst - 0
      /\ iloop' = IF n - 0 >= 0 /\ iloop >= n - 0 THEN iloop - (n - 0) ELSE 0
  BY <1>1, <1>3 DEF Advance, n
<1>6. n \in Nat /\ n = burst * F
  BY <1>4 DEF n
<1>7. iloop' = IF iloop >= n THEN iloop - n ELSE 0
  BY <1>4, <1>5, <1>6
<1>8. lsec' = lsec + burst
  BY <1>4, <1>5
<1> QED
  BY <1>2, <1>4, <1>5, <1>6, <1>7, <1>8

\* Steps that leave the place of the reader alone.
LEMMA ProgressIdle ==
    ASSUME TypeOK, Next,
           ~ReadSectors, ~ReadSingles, ~ShrinkJob, ~Synchronize, ~OccupyBuffer
    PROVE  ~Dead' => /\ ~Dead /\ Advanced' = Advanced
                     /\ rpc \in {"read", "shrink", "sync"} => rpc' = rpc
                     /\ rpc' = "request" => iloop # 0 \/ rpc = "request"
                     /\ rpc' \in {"flag", "blocked", "occupy"} =>
                           rpc \in {"request", "flag", "blocked", "occupy"}
<1>2. read \in Nat
  BY TypesAre
<1>3. CASE ReadLoop \/ UnrecoverableError \/ ReaderSignal \/ AwaitChild
  <2>1. rpc' \in {"request", "closing", "gone"} /\ (rpc' = "request" => rpc = "loop" /\ iloop # 0)
        /\ read' = read
    BY <1>3 DEF ReadLoop, UnrecoverableError, ReaderSignal, AwaitChild, ReaderEnds, ring
  <2> QED
    BY <2>1 DEF Dead, Advanced
<1>4. CASE RequestFree
  <2>1. rpc = "request" /\ rpc' \in {"flag", "occupy"} /\ read' = read
    BY <1>4 DEF RequestFree, ring
  <2> QED
    BY <2>1 DEF Dead, Advanced
<1>5. CASE FirstDefined
  <2>1. rpc = "define" /\ rpc' \in {"count", "gone"} /\ read' = read
    BY <1>5 DEF FirstDefined
  <2> QED
    BY <2>1 DEF Dead, Advanced
<1>6. CASE CountDefined
  <2>1. rpc = "count" /\ rpc' = "release" /\ read' = read + 1
    BY <1>6 DEF CountDefined
  <2> QED
    BY <1>2, <2>1 DEF Dead, Advanced
<1>7. CASE ReleaseDefined
  <2>1. rpc = "release" /\ rpc' \in {"unflag", "loop"} /\ read' = read
    BY <1>7 DEF ReleaseDefined, ring
  <2> QED
    BY <2>1 DEF Dead, Advanced
<1>8. CASE ParentWaits \/ ParentWakes \/ UnflagChild \/ WakeChild
  <2>1. /\ rpc \in {"flag", "blocked", "unflag", "post"} /\ read' = read
        /\ rpc' \in {"blocked", "occupy", "post", "loop", "closing"}
        /\ rpc' \in {"blocked", "occupy"} => rpc \in {"flag", "blocked"}
    BY <1>8 DEF ParentWaits, ParentWakes, UnflagChild, WakeChild, ReaderEnds, ring
  <2> QED
    BY <2>1 DEF Dead, Advanced
<1>9. CASE Writer \/ SaveFails \/ Interrupt \/ Gone
  <2>1. UNCHANGED <<read, rpc>>
    BY <1>9 DEF Writer, WriteLoop, TestEnd, TestDrained, RequestDefined, ChildWaits, ChildWakes,
                TakeBuffer, SaveBuffer, Saved, DropBuffer, CountDropped, ReleaseFree, UnflagParent,
                WakeParent, WriterSignal, SaveFails, Interrupt, Gone, vars, ring
  <2> QED
    BY <2>1 DEF Dead, Advanced
<1> QED
  BY <1>3, <1>4, <1>5, <1>6, <1>7, <1>8, <1>9 DEF Next, Reader

LEMMA ProgressKept ==
    ASSUME TypeOK, Remaining, Plain, Progress, Next
    PROVE  Progress'
<1>1. /\ iloop \in Nat /\ todo \in Nat /\ lsec \in Int /\ burst \in Int /\ read \in Nat
      /\ job.todo \in Nat /\ job.bound \in Nat /\ NSectors \in Nat /\ NSectors >= 1
      /\ F \in Nat /\ F >= 1 /\ Size \in Nat /\ Size >= 1 /\ NSectors * F = Size
  BY TypesAre, JobTypes, Sizes
<1>2. iloop <= todo
  BY DEF Remaining
<1>3. CASE ~ReadSectors /\ ~ReadSingles /\ ~ShrinkJob /\ ~Synchronize /\ ~OccupyBuffer
  <2>1. /\ UNCHANGED <<job, iloop, todo, lsec, burst>>
        /\ rpc' \notin {"read", "shrink", "sync", "define"} \/ rpc' = rpc
    BY <1>3, ReaderIdle
  <2>2. ~Dead' => /\ ~Dead /\ Advanced' = Advanced
                  /\ rpc \in {"read", "shrink", "sync"} => rpc' = rpc
                  /\ rpc' = "request" => iloop # 0 \/ rpc = "request"
                  /\ rpc' \in {"flag", "blocked", "occupy"} =>
                        rpc \in {"request", "flag", "blocked", "occupy"}
    BY <1>3, ProgressIdle
  <2>3. Singly' = Singly
    BY <2>1 DEF Singly
  <2>4. rpc' \in {"request", "flag", "blocked", "occupy", "read", "shrink"} => ~Dead'
    BY DEF Dead
  <2>5. P(Advanced)' = P(Advanced) \/ Dead'
    BY <2>2 DEF P
  <2>6. (rpc \in {"request", "flag", "blocked", "occupy", "read", "shrink"} => iloop > 0)
        /\ (todo > job.todo => job.todo > job.bound * F)
    BY DEF Progress
  <2>7. rpc' \in {"request", "flag", "blocked", "occupy", "read", "shrink"} => iloop' > 0
    BY <1>1, <2>1, <2>2, <2>4, <2>6
  <2>8. ~Dead' /\ (iloop' > 0 \/ rpc' = "sync") =>
          /\ lsec' * F = todo' - iloop' /\ lsec' * F = P(Advanced)'
          /\ rpc' # "sync" \/ burst' = NSectors => todo' = job.todo'
          /\ rpc' \notin {"read", "shrink", "sync"} => burst' = NSectors \/ (burst' = 0 /\ lsec' = 0)
    BY <2>1, <2>2, <2>5 DEF Progress
  <2>9. /\ rpc' \in {"read", "sync"} => burst' <= NSectors /\ (burst' < NSectors => iloop' <= burst' * F)
        /\ rpc' \in {"read", "sync", "shrink"} => burst' >= 0
        /\ rpc' = "shrink" => burst' < NSectors /\ Singly'
        /\ todo' > job.todo' => job.todo' > job.bound' * F
    BY <2>1, <2>3, <2>6 DEF Progress
  <2> QED
    BY <2>7, <2>8, <2>9 DEF Progress
<1>4. CASE OccupyBuffer
  <2>1. /\ rpc = "occupy" /\ rpc' = "read" /\ burst' = CalcSectorBurst(lsec, burst)
        /\ UNCHANGED <<job, iloop, todo, lsec, read>>
    BY <1>4 DEF OccupyBuffer, ends
  <2>2. iloop > 0 /\ ~Dead /\ Advanced = read
    BY <1>1, <2>1 DEF Progress, Dead, Advanced
  <2>3. /\ lsec * F = todo - iloop /\ lsec * F = P(read) /\ todo = job.todo
        /\ burst = NSectors \/ (burst = 0 /\ lsec = 0)
        /\ todo > job.todo => job.todo > job.bound * F
    BY <2>1, <2>2 DEF Progress
  <2>4. burst' \in Nat /\ burst' <= NSectors /\ (burst' < NSectors => iloop <= burst' * F)
    BY <1>2, <2>1, <2>2, <2>3, BurstIs
  <2>5. P(Advanced)' = P(read)
    BY <1>1, <2>1 DEF Advanced, P
  <2> QED
    BY <2>1, <2>2, <2>3, <2>4, <2>5 DEF Progress
<1>5. CASE ReadSectors
  <2>1. /\ rpc = "read" /\ rpc' = "sync" /\ UNCHANGED <<job, iloop, todo, lsec, burst, read>>
    BY <1>5 DEF ReadSectors, ends, reader
  <2>2. iloop > 0 /\ ~Dead /\ Advanced = read
    BY <1>1, <2>1 DEF Progress, Dead, Advanced
  <2>3. P(Advanced)' = P(Advanced)
    BY <2>1 DEF Advanced, P
  <2> QED
    BY <2>1, <2>2, <2>3 DEF Progress
<1>6. CASE ReadSingles
  <2>1. /\ rpc = "read" /\ UNCHANGED <<job, iloop, todo, lsec, read>> /\ Singly
    BY <1>6 DEF ReadSingles
  <2>2. iloop > 0 /\ ~Dead /\ Advanced = read
    BY <1>1, <2>1 DEF Progress, Dead, Advanced
  <2>3. burst >= 0 /\ burst <= NSectors /\ (burst < NSectors => iloop <= burst * F)
    BY <2>1 DEF Progress
  <2>4. /\ burst' \in Int /\ burst' >= 0 /\ burst' <= burst
        /\ rpc' = IF burst' < burst THEN "shrink" ELSE "sync"
    BY <1>6, <2>3, SinglesIs
  <2>5. Singly'
    BY <2>1 DEF Singly
  <2>6. P(Advanced)' = P(Advanced)
    BY <2>1, <2>4 DEF Advanced, P
  <2>7. /\ lsec * F = todo - iloop /\ lsec * F = P(Advanced) /\ todo = job.todo
        /\ todo > job.todo => job.todo > job.bound * F
    BY <2>1, <2>2 DEF Progress
  <2>8. CASE burst' < burst
    <3>1. rpc' = "shrink" /\ burst' < NSectors
      BY <1>1, <2>3, <2>4, <2>8
    <3> QED
      BY <2>1, <2>2, <2>4, <2>5, <2>6, <2>7, <3>1 DEF Progress
  <2>9. CASE burst' = burst
    BY <1>1, <2>1, <2>2, <2>3, <2>4, <2>6, <2>7, <2>9 DEF Progress
  <2> QED
    BY <1>1, <2>4, <2>8, <2>9
<1>7. CASE ShrinkJob
  <2>1. /\ rpc = "shrink" /\ rpc' = "sync" /\ UNCHANGED <<job, lsec, burst, read>>
        /\ todo' = todo - (iloop - burst * F) /\ iloop' = burst * F
    BY <1>7 DEF ShrinkJob, ring
  <2>2. iloop > 0 /\ ~Dead /\ Advanced = read /\ burst >= 0 /\ burst < NSectors /\ Singly
    BY <1>1, <2>1 DEF Progress, Dead, Advanced
  <2>3. lsec * F = todo - iloop /\ lsec * F = P(Advanced) /\ todo = job.todo
    BY <2>1, <2>2 DEF Progress
  <2>4. burst * F \in Nat /\ job.bound * F \in Nat /\ lsec * F \in Int
    BY <1>1, <2>2, <2>3, FewerSectors
  <2>5. P(Advanced)' = P(Advanced)
    BY <2>1 DEF Advanced, P
  <2>6. job.todo > job.bound * F
    <3>1. \A a, b \in Int, c \in Nat : a <= b => a * c <= b * c
      OBVIOUS
    <3>2. job.bound * F <= lsec * F
      BY <1>1, <2>2, <3>1 DEF Singly
    <3> QED
      BY <1>1, <2>2, <2>3, <2>4, <3>2
  <2> DEFINE n == burst * F
             m == lsec * F
  <2>7. n \in Nat /\ m \in Int /\ m = todo - iloop /\ todo' = todo - (iloop - n) /\ iloop' = n
    BY <2>1, <2>3, <2>4
  <2> HIDE DEF n, m
  <2>8. m = todo' - iloop'
    BY <1>1, <2>7
  <2>9. lsec' * F = todo' - iloop' /\ lsec' * F = P(Advanced)' /\ iloop' <= burst' * F
    BY <2>1, <2>3, <2>4, <2>5, <2>8 DEF m
  <2>10. todo' > job.todo' => job.todo' > job.bound' * F
    BY <2>1, <2>6
  <2> QED
    BY <1>1, <2>1, <2>2, <2>9, <2>10 DEF Progress
<1>8. CASE Synchronize
  <2>1. rpc = "sync"
    BY <1>8 DEF Synchronize
  <2>2. /\ burst \in Nat /\ burst <= NSectors /\ (burst < NSectors => iloop <= burst * F)
        /\ ~Dead /\ Advanced = read
        /\ lsec * F = todo - iloop /\ lsec * F = P(read)
        /\ burst = NSectors => todo = job.todo
        /\ todo > job.todo => job.todo > job.bound * F
    BY <1>1, <2>1 DEF Progress, Dead, Advanced
  <2>3. /\ rpc' = "define" /\ burst' = burst /\ lsec' = lsec + burst
        /\ burst * F \in Nat
        /\ iloop' = (IF iloop >= burst * F THEN iloop - burst * F ELSE 0)
        /\ UNCHANGED <<job, todo, read>>
    BY <1>8, <2>2, SyncPlain DEF ends
  <2>4. Advanced' = read + 1
    BY <2>3 DEF Advanced
  <2>5. CASE burst = NSectors /\ iloop > Size
    <3>1. \A a, b, c \in Int : (a + b) * c = a * c + b * c
      OBVIOUS
    <3>2. lsec' * F = lsec * F + Size
      BY <1>1, <2>3, <2>5, <3>1
    <3>3. P(Advanced)' = P(read) + Size
      <4>1. P(read + 1) = P(read) + Size
        BY <1>1, PIs
      <4>2. P(Advanced)' = P(read + 1)
        BY <2>4 DEF P
      <4> QED
        BY <4>1, <4>2
    <3>4. iloop' = iloop - Size /\ todo' = todo
      BY <1>1, <2>3, <2>5
    <3>5. lsec * F \in Int
      BY <1>1, <2>2
    <3>6. lsec' * F = todo' - iloop'
      BY <1>1, <2>2, <3>2, <3>4, <3>5
    <3>7. lsec' * F = P(Advanced)'
      BY <2>2, <3>2, <3>3
    <3> QED
      BY <2>2, <2>3, <2>5, <3>6, <3>7 DEF Progress
  <2>6. CASE ~(burst = NSectors /\ iloop > Size)
    <3>1. iloop' = 0
      BY <1>1, <2>2, <2>3, <2>6
    <3> QED
      BY <2>2, <2>3, <3>1 DEF Progress
  <2> QED
    BY <2>5, <2>6
<1> QED
  BY <1>3, <1>4, <1>5, <1>6, <1>7, <1>8

\* Steps that leave what the writer has done alone.
LEMMA WrittenIdle ==
    ASSUME TypeOK, Next, ~SaveBuffer, ~TakeBuffer, ~DropBuffer, ~Saved
    PROVE  /\ UNCHANGED <<job, sDone, slot, woff, ins, track, file, out>>
           /\ wpc' # "gone" => /\ wpc # "gone" /\ Oldest' = Oldest
                               /\ wpc' = "save" <=> wpc = "save"
                               /\ wpc' = "drop" <=> wpc = "drop"
           /\ todo' = todo \/ ShrinkJob
           /\ read' \in {read, read + 1}
<1>1. UNCHANGED <<job, sDone, slot, woff, ins, track, file, out>> /\ written \in Nat
  BY WriterIdle, TypesAre
<1>2. CASE Reader \/ UnrecoverableError \/ Interrupt \/ Gone
  <2>1. UNCHANGED <<written, wpc>> /\ read' \in {read, read + 1}
    BY <1>2 DEF Reader, ReadLoop, RequestFree, ParentWaits, ParentWakes, OccupyBuffer, ReadSectors,
                ReadSingles, ShrinkJob, Synchronize, FirstDefined, CountDefined, ReleaseDefined,
                UnflagChild, WakeChild, AwaitChild, ReaderSignal, UnrecoverableError, Interrupt,
                Gone, vars, ring
  <2>2. todo' = todo \/ ShrinkJob
    BY <1>2 DEF Reader, ReadLoop, RequestFree, ParentWaits, ParentWakes, OccupyBuffer, ReadSectors,
                ReadSingles, Synchronize, FirstDefined, CountDefined, ReleaseDefined,
                UnflagChild, WakeChild, AwaitChild, ReaderSignal, UnrecoverableError, Interrupt,
                Gone, vars, ends
  <2>3. CASE wpc # "gone"
    BY <1>1, <2>1, <2>2, <2>3 DEF Oldest
  <2>4. CASE wpc = "gone"
    BY <1>1, <2>1, <2>2, <2>4
  <2> QED
    BY <2>3, <2>4
<1>3. CASE \/ WriteLoop \/ TestEnd \/ TestDrained \/ RequestDefined \/ ChildWaits \/ ChildWakes
           \/ ReleaseFree \/ UnflagParent \/ WakeParent \/ WriterSignal \/ SaveFails
  <2>1. UNCHANGED <<todo, read, written>>
    BY <1>3 DEF WriteLoop, TestEnd, TestDrained, RequestDefined, ChildWaits, ChildWakes,
                ReleaseFree, UnflagParent, WakeParent, WriterSignal, SaveFails, ends, ring
  <2>2. wpc # "gone" /\ (wpc' # "gone" => {wpc, wpc'} \cap {"save", "drop", "written"} = {})
    BY <1>3 DEF WriteLoop, TestEnd, TestDrained, RequestDefined, ChildWaits, ChildWakes,
                ReleaseFree, UnflagParent, WakeParent, WriterSignal, SaveFails, WriterEnds
  <2> QED
    BY <1>1, <2>1, <2>2 DEF Oldest
<1>4. CASE CountDropped
  <2>1. UNCHANGED <<todo, read>> /\ written' = written + 1 /\ wpc = "written" /\ wpc' = "release"
    BY <1>4 DEF CountDropped, ends
  <2> QED
    BY <1>1, <2>1 DEF Oldest
<1> QED
  BY <1>2, <1>3, <1>4 DEF Next, Writer

\* A writer that has a buffer has one that is defined.
LEMMA OldestIs ==
    ASSUME TypeOK, Counters, Held
    PROVE  /\ Oldest \in Nat /\ read \in Nat /\ Oldest <= read /\ read - Oldest <= Buffers
           /\ wpc \in {"take", "save", "drop"} => Oldest + 1 <= read
<1>1. read \in Nat /\ written \in Nat /\ def \in Nat /\ Buffers \in Nat
  BY TypesAre, Sizes
<1>2. CASE wpc = "written"
  BY <1>1, <1>2 DEF Counters, Oldest
<1>3. CASE wpc # "written"
  <2>1. Oldest = written
    BY <1>1, <1>3 DEF Oldest
  <2>2. wpc \in {"take", "save", "drop"} => written + 1 <= read
    BY <1>1 DEF Held
  <2> QED
    BY <1>1, <2>1, <2>2 DEF Counters
<1> QED
  BY <1>2, <1>3

\* Before the job shrinks, the samples that are read already are fewer.
LEMMA ShrinkIs ==
    ASSUME TypeOK, Progress, ShrinkJob
    PROVE  /\ P(read) < todo /\ P(read) <= todo'
           /\ UNCHANGED <<job, read, written, last, fill, offset, data, wpc, sDone, slot, woff, ins, out, track, file>>
           /\ rpc = "shrink" /\ rpc' = "sync" /\ lsec * F = P(read) /\ lsec' = lsec /\ burst' = burst
           /\ todo' = P(read) + burst * F
<1>1. /\ rpc = "shrink" /\ rpc' = "sync" /\ lsec' = lsec /\ burst' = burst
      /\ todo' = todo - (iloop - burst * F)
      /\ UNCHANGED <<job, read, written, last, fill, offset, data, wpc, sDone, slot, woff, ins, out, track, file>>
  BY DEF ShrinkJob, ring, writer
<1>2. iloop \in Nat /\ todo \in Nat /\ burst \in Int /\ read \in Nat
  BY TypesAre
<1>3. iloop > 0 /\ ~Dead /\ Advanced = read /\ burst >= 0 /\ burst < NSectors
  BY <1>1, <1>2 DEF Progress, Dead, Advanced
<1>4. lsec * F = todo - iloop /\ lsec * F = P(read)
  BY <1>1, <1>3 DEF Progress
<1>5. burst * F \in Nat /\ P(read) \in Nat
  BY <1>2, <1>3, FewerSectors, Sizes, PIs
<1> DEFINE n == burst * F
           m == P(read)
<1>6. n \in Nat /\ m \in Nat /\ m = todo - iloop /\ todo' = todo - (iloop - n)
  BY <1>1, <1>4, <1>5
<1> HIDE DEF n, m
<1>7. m < todo /\ m <= todo' /\ todo' = m + n
  BY <1>2, <1>3, <1>6
<1> QED
  BY <1>1, <1>4, <1>7 DEF n, m

LEMMA NeverWrapsKept ==
    ASSUME TypeOK, Counters, Remaining, Saving, Held, NeverWraps,
           Plain => Progress /\ Written, ~early, Next
    PROVE  NeverWraps'
<1>1. sDone \in Nat /\ ins \in Nat /\ todo \in Nat /\ read \in Nat
  BY TypesAre
<1>2. CASE ~(job.real = 0 \/ job.overlap = 0)
  <2>1. job' = job
    BY DEF Next, Reader, ReadLoop, RequestFree, ParentWaits, ParentWakes, OccupyBuffer, ReadSectors,
           ReadSingles, ShrinkJob, Synchronize, FirstDefined, CountDefined, ReleaseDefined,
           UnflagChild, WakeChild, AwaitChild, ReaderSignal, UnrecoverableError, Interrupt,
           Gone, vars, Writer, WriteLoop, TestEnd, TestDrained, RequestDefined, ChildWaits,
           ChildWakes, TakeBuffer, SaveBuffer, Saved, DropBuffer, CountDropped, ReleaseFree,
           UnflagParent, WakeParent, WriterSignal, SaveFails
  <2> QED
    BY <1>2, <2>1 DEF NeverWraps
<1>3. CASE job.real = 0 \/ job.overlap = 0
  <2>1. sDone <= todo /\ (wpc = "save" => sDone + ins <= todo)
    BY <1>3 DEF NeverWraps
  <2>2. CASE TakeBuffer
    <3>1. /\ wpc' = "save" /\ UNCHANGED <<sDone, todo>> /\ ins' = Available(last) /\ wpc = "take"
      BY <2>2 DEF TakeBuffer, ends
    <3>2. last \in Slots
      BY <3>1, TypesAre DEF Counters
    <3>3. offset[last] \in 0 .. Size /\ Size \in Nat
      BY <3>2, TypesAre, Sizes
    <3>4. Available(last) <= todo - sDone
      BY <1>1, <2>1, <3>3 DEF Available, Min2
    <3>5. ins' \in Int
      BY <1>1, <3>1, <3>3 DEF Available, Min2
    <3> QED
      BY <1>1, <2>1, <3>1, <3>4, <3>5 DEF NeverWraps
  <2>3. CASE SaveBuffer
    BY <1>1, <2>1, <2>3, SaveIs, HowMuchIs DEF NeverWraps
  <2>4. CASE DropBuffer \/ Saved
    <3>1. UNCHANGED <<sDone, todo>> /\ wpc' # "save"
      BY <2>4 DEF DropBuffer, Saved, WriterEnds, writer, ends
    <3> QED
      BY <2>1, <3>1 DEF NeverWraps
  <2>5. CASE ShrinkJob
    <3>1. Plain
      <4>1. job.real > 0 /\ job.real \in Nat
        BY <2>5, JobTypes DEF ShrinkJob, Remaining
      <4> QED
        BY <1>3, <4>1 DEF Plain
    <3>2. P(read) <= todo' /\ UNCHANGED <<sDone, ins, wpc>>
      BY <2>5, <3>1, ShrinkIs
    <3>3. sDone <= P(read) /\ (wpc = "save" => sDone + ins <= P(Oldest + 1))
      BY <3>1 DEF Written
    <3>4. wpc = "save" => P(Oldest + 1) <= P(read)
      BY OldestIs, PIs
    <3>5. todo' \in Int /\ P(read) \in Nat /\ P(Oldest + 1) \in Nat
      <4>1. todo' = todo - (iloop - burst * F) /\ iloop \in Nat /\ burst * F \in Int
        <5>1. \A a, b \in Int : a * b \in Int
          OBVIOUS
        <5> QED
          BY <2>5, <5>1, TypesAre, Sizes DEF ShrinkJob
      <4>2. Oldest \in Nat /\ Oldest + 1 \in Nat
        BY OldestIs
      <4>3. P(read) \in Nat /\ P(Oldest + 1) \in Nat
        BY <1>1, <4>2, PIs
      <4>4. todo' \in Int
        BY <1>1, <4>1
      <4> QED
        BY <4>3, <4>4
    <3> QED
      BY <1>1, <3>2, <3>3, <3>4, <3>5 DEF NeverWraps
  <2>6. CASE ~TakeBuffer /\ ~SaveBuffer /\ ~DropBuffer /\ ~Saved /\ ~ShrinkJob
    <3>1. UNCHANGED <<sDone, ins, todo>> /\ (wpc' = "save" => wpc = "save")
      BY <2>6, WrittenIdle
    <3> QED
      BY <2>1, <3>1 DEF NeverWraps
  <2> QED
    BY <2>2, <2>3, <2>4, <2>5, <2>6
<1> QED
  BY <1>2, <1>3

LEMMA WrittenKept ==
    ASSUME TypeOK, Counters, Remaining, Saving, Held, Plain, NeverWraps, Progress, Written,
           \A s \in Slots : offset[s] = 0, Next
    PROVE  Written'
<1>1. /\ sDone \in Nat /\ ins \in Nat /\ todo \in Nat /\ read \in Nat /\ Size \in Nat /\ written \in Nat
      /\ Oldest \in Nat /\ Oldest <= read
      /\ wpc \in {"take", "save", "drop"} => Oldest + 1 <= read
  BY TypesAre, Sizes, OldestIs
<1>2. /\ P(Oldest) \in Nat /\ P(Oldest + 1) = P(Oldest) + Size /\ P(Oldest) <= P(read)
      /\ wpc \in {"take", "save", "drop"} => P(Oldest + 1) <= P(read)
      /\ P(read) \in Nat /\ P(read) <= P(read + 1) /\ P(read + 1) \in Nat
  <2>1. P(Oldest) \in Nat /\ P(Oldest + 1) = P(Oldest) + Size
    BY <1>1, PIs
  <2>2. P(read) \in Nat /\ P(read + 1) = P(read) + Size /\ P(Oldest) <= P(read)
    BY <1>1, PIs
  <2>3. wpc \in {"take", "save", "drop"} => P(Oldest + 1) <= P(read)
    BY <1>1, PIs
  <2> QED
    BY <1>1, <2>1, <2>2, <2>3
<1>3. sDone <= todo /\ (wpc = "save" => sDone + ins <= todo)
  BY DEF NeverWraps, Plain
<1>4. CASE TakeBuffer
  <2>1. /\ wpc = "take" /\ wpc' = "save" /\ UNCHANGED <<sDone, todo, read, written>>
        /\ ins' = Available(last)
    BY <1>4 DEF TakeBuffer, ends, ring
  <2>2. last \in Slots
    BY <2>1, TypesAre DEF Counters
  <2>3. ins' = Min2(todo - sDone, Size)
    BY <1>1, <1>3, <2>1, <2>2 DEF Available
  <2>4. Oldest' = Oldest
    BY <2>1 DEF Oldest
  <2>5. sDone <= P(Oldest) /\ (sDone = P(Oldest) \/ sDone >= todo) /\ sDone <= P(read)
    BY <2>1 DEF Written
  <2>6. /\ sDone + ins' <= P(Oldest + 1)
        /\ sDone + ins' = P(Oldest + 1) \/ sDone + ins' >= todo
    BY <1>1, <1>2, <1>3, <2>3, <2>5 DEF Min2
  <2>7. P(Oldest + 1)' = P(Oldest + 1) /\ P(read)' = P(read)
    BY <2>1, <2>4 DEF P
  <2> QED
    BY <2>1, <2>5, <2>6, <2>7 DEF Written
<1>5. CASE SaveBuffer
  <2>1. /\ wpc = "save" /\ wpc' = "save" /\ sDone' = sDone + HowMuch /\ ins' = ins - HowMuch
        /\ UNCHANGED <<todo, read, written>>
    BY <1>5, SaveIs DEF SaveBuffer, ends
  <2>2. HowMuch \in Nat /\ HowMuch <= ins
    BY HowMuchIs
  <2>3. P(Oldest + 1)' = P(Oldest + 1) /\ P(read)' = P(read)
    BY <2>1 DEF P, Oldest
  <2>4. sDone' + ins' = sDone + ins /\ sDone' <= sDone + ins
    BY <1>1, <2>1, <2>2
  <2>5. sDone + ins <= P(Oldest + 1) /\ (sDone + ins = P(Oldest + 1) \/ sDone + ins >= todo)
    BY <2>1 DEF Written
  <2>6. sDone' <= P(read)
    BY <1>1, <1>2, <2>1, <2>2, <2>4, <2>5
  <2> QED
    BY <2>1, <2>3, <2>4, <2>5, <2>6 DEF Written
<1>6. CASE Saved
  <2>1. /\ wpc = "save" /\ wpc' = "drop" /\ UNCHANGED <<sDone, todo, read, written>>
        /\ sDone >= todo \/ ins = 0
    BY <1>1, <1>6 DEF Saved, ends, ring, writer
  <2>2. sDone + ins <= P(Oldest + 1) /\ (sDone + ins = P(Oldest + 1) \/ sDone + ins >= todo)
        /\ sDone <= P(read)
    BY <2>1 DEF Written
  <2>3. P(Oldest + 1)' = P(Oldest + 1) /\ P(read)' = P(read)
    BY <2>1 DEF P, Oldest
  <2>4. sDone <= P(Oldest + 1) /\ (sDone = P(Oldest + 1) \/ sDone >= todo)
    BY <1>1, <1>2, <2>1, <2>2
  <2> QED
    BY <2>1, <2>2, <2>3, <2>4 DEF Written
<1>7. CASE DropBuffer
  <2>1. wpc = "drop" /\ wpc' \in {"written", "gone"} /\ UNCHANGED <<sDone, todo, read, written>>
    BY <1>7 DEF DropBuffer, ends, writer, WriterEnds
  <2>2. wpc' = "written" => Oldest' = Oldest + 1
    BY <1>1, <2>1 DEF Oldest
  <2>3. wpc' = "written" => P(Oldest)' = P(Oldest + 1)
    BY <2>2 DEF P
  <2>4. P(read)' = P(read)
    BY <2>1 DEF P
  <2>5. sDone <= P(Oldest + 1) /\ (sDone = P(Oldest + 1) \/ sDone >= todo) /\ sDone <= P(read)
    BY <2>1 DEF Written
  <2> QED
    BY <2>1, <2>3, <2>4, <2>5 DEF Written
<1>8. CASE ShrinkJob
  <2>1. P(read) < todo /\ UNCHANGED <<sDone, ins, wpc, read, written>>
    BY <1>8, ShrinkIs
  <2>2. P(Oldest + 1)' = P(Oldest + 1) /\ P(read)' = P(read) /\ P(Oldest)' = P(Oldest)
    BY <2>1 DEF P, Oldest
  <2>3. sDone <= P(read)
    BY DEF Written
  <2>4. wpc \notin {"save", "drop", "gone"} => sDone = P(Oldest)
    BY <1>1, <1>2, <2>1, <2>3 DEF Written
  <2>5. wpc = "save" => sDone + ins = P(Oldest + 1)
    BY <1>1, <1>2, <2>1, <2>3 DEF Written
  <2>6. wpc = "drop" => sDone = P(Oldest + 1)
    BY <1>1, <1>2, <2>1, <2>3 DEF Written
  <2> QED
    BY <1>1, <1>2, <2>1, <2>2, <2>3, <2>4, <2>5, <2>6 DEF Written
<1>9. CASE ~TakeBuffer /\ ~SaveBuffer /\ ~DropBuffer /\ ~Saved /\ ~ShrinkJob
  <2>1. /\ UNCHANGED <<sDone, ins, todo>> /\ read' \in {read, read + 1}
        /\ wpc' # "gone" => /\ wpc # "gone" /\ Oldest' = Oldest
                            /\ wpc' = "save" <=> wpc = "save"
                            /\ wpc' = "drop" <=> wpc = "drop"
    BY <1>9, WrittenIdle
  <2>2. wpc' # "gone" => P(Oldest)' = P(Oldest) /\ P(Oldest + 1)' = P(Oldest + 1)
    BY <2>1 DEF P
  <2>3. P(read)' \in {P(read), P(read + 1)}
    BY <2>1 DEF P
  <2>4. sDone' <= P(read)'
    <3>1. sDone <= P(read)
      BY DEF Written
    <3> QED
      BY <1>1, <1>2, <2>1, <2>3, <3>1
  <2> QED
    BY <2>1, <2>2, <2>4 DEF Written
<1> QED
  BY <1>4, <1>5, <1>6, <1>7, <1>8, <1>9

-----------------------------------------------------------------------------
(* What the buffers hold.                                                  *)

\* Slots at different distances are different.
LEMMA AtIs ==
    ASSUME NEW s \in Slots, NEW n \in 0 .. Buffers - 1
    PROVE  /\ At(s, n) \in Slots /\ At(s, 0) = s
           /\ \A m \in 0 .. Buffers - 1 : At(s, m) = At(s, n) => m = n
           /\ n + 1 <= Buffers - 1 => At(INC(s), n) = At(s, n + 1)
<1>1. s \in Nat /\ s < Buffers /\ Buffers \in Nat
  BY Sizes DEF Slots
<1>2. At(s, n) \in Slots /\ At(s, 0) = s
  BY <1>1 DEF At, Slots
<1>3. \A m \in 0 .. Buffers - 1 : At(s, m) = At(s, n) => m = n
  BY <1>1 DEF At
<1>4. n + 1 <= Buffers - 1 => At(INC(s), n) = At(s, n + 1)
  BY <1>1, IncIs DEF At
<1> QED
  BY <1>2, <1>3, <1>4

\* The buffer that the reader has is behind all that are defined.
LEMMA FillIs ==
    ASSUME TypeOK, Counters, Previous, Position, Held, Busy, last # NULL, wpc # "gone"
    PROVE  /\ read - Oldest \in 0 .. Buffers - 1 /\ fill = At(last, read - Oldest)
           /\ fill \in Slots /\ last \in Slots
           /\ \A k \in 0 .. Buffers - 1 : Oldest + k < read => At(last, k) # fill
<1>1. read \in Nat /\ written \in Nat /\ Oldest \in Nat /\ Buffers \in Nat /\ free \in Nat
      /\ fill \in Slots \cup {NULL} /\ last \in Slots /\ NULL \notin Slots
  BY TypesAre, OldestIs, Sizes DEF NULL, Slots
<1>2. fill \in Slots
  BY <1>1 DEF Previous
<1>3. read - written < Buffers
  BY <1>1 DEF Held
<1>4. read - Oldest \in 0 .. Buffers - 1
  <2>1. Oldest <= read
    BY OldestIs
  <2>2. Oldest \in {written, written + 1}
    BY <1>1 DEF Oldest
  <2> QED
    BY <1>1, <1>3, <2>1, <2>2
<1>5. fill - last - (read - Oldest) \in {0, Buffers, -Buffers}
  <2>1. ~Dead
    BY DEF Busy, Dead
  <2> QED
    BY <2>1 DEF Position
<1>6. fill \in 0 .. Buffers - 1 /\ last \in 0 .. Buffers - 1
  BY <1>1, <1>2 DEF Slots
<1> DEFINE d == read - Oldest
<1>7. d \in 0 .. Buffers - 1 /\ fill - last - d \in {0, Buffers, -Buffers}
  BY <1>4, <1>5
<1>8. \A k \in 0 .. Buffers - 1 : Oldest + k < read => k # d
  BY <1>1
<1> HIDE DEF d
<1>9. fill = At(last, d)
  BY <1>1, <1>6, <1>7 DEF At
<1>10. \A k \in 0 .. Buffers - 1 : Oldest + k < read => At(last, k) # fill
  BY <1>1, <1>7, <1>8, <1>9, AtIs
<1> QED
  BY <1>1, <1>2, <1>4, <1>9, <1>10 DEF d

\* Unless woken early, the reader never has the buffer that the writer saves.
LEMMA FillIsNotSlot ==
    ASSUME TypeOK, Counters, Previous, Saving, Position, Held, Busy, wpc \in {"take", "save"}
    PROVE  fill # (IF wpc = "take" THEN last ELSE slot)
<1>1. last # NULL /\ last \in Slots /\ (wpc = "save" => slot = last)
  BY TypesAre DEF Counters, Saving
<1>2. Oldest + 1 <= read /\ Oldest \in Nat /\ Buffers \in Nat /\ Buffers >= 1
  BY OldestIs, Sizes
<1>3. 0 \in 0 .. Buffers - 1 /\ Oldest + 0 < read
  BY <1>2, OldestIs
<1>4. At(last, 0) # fill /\ At(last, 0) = last
  BY <1>1, <1>3, FillIs, AtIs
<1> QED
  BY <1>1, <1>4

\* Before a buffer is defined there is none in the ring.
LEMMA NoneDefined ==
    ASSUME TypeOK, Counters, Held, last = NULL
    PROVE  read = 0 /\ Oldest = 0 /\ Defined = 0
<1>1. read \in Nat /\ Oldest \in Nat /\ Oldest <= read
  BY OldestIs
<1>2. read = 0 /\ rpc # "count"
  BY <1>1 DEF Counters
<1> QED
  BY <1>1, <1>2 DEF Defined

\* Steps that leave the samples, the offsets and the oldest buffer alone.
LEMMA ContentIdle ==
    ASSUME Next
    PROVE  /\ ReadSectors \/ ReadSingles \/ SaveBuffer \/ data' = data
           /\ Synchronize \/ offset' = offset
           /\ FirstDefined \/ DropBuffer \/ last' = last
<1>1. CASE ReadLoop \/ RequestFree \/ ParentWaits \/ ParentWakes \/ OccupyBuffer \/ ReadSectors
           \/ ReadSingles \/ ShrinkJob \/ Synchronize \/ FirstDefined \/ CountDefined
           \/ ReleaseDefined \/ UnflagChild \/ WakeChild \/ AwaitChild \/ ReaderSignal
           \/ UnrecoverableError \/ Interrupt \/ Gone
  BY <1>1 DEF ReadLoop, RequestFree, ParentWaits, ParentWakes, OccupyBuffer, ReadSectors,
              ReadSingles, ShrinkJob, Synchronize, FirstDefined, CountDefined, ReleaseDefined,
              UnflagChild, WakeChild, AwaitChild, ReaderSignal, UnrecoverableError, Interrupt,
              Gone, vars, ring
<1>2. CASE Writer \/ SaveFails
  BY <1>2 DEF Writer, WriteLoop, TestEnd, TestDrained, RequestDefined, ChildWaits, ChildWakes,
              TakeBuffer, SaveBuffer, Saved, DropBuffer, CountDropped, ReleaseFree, UnflagParent,
              WakeParent, WriterSignal, SaveFails, ring
<1> QED
  BY <1>1, <1>2 DEF Next, Reader

\* Sectors are read into a buffer that the writer does not look at.
LEMMA ContentOfRead ==
    ASSUME TypeOK, Counters, Previous, Saving, Position, Held, Content, Next,
           ReadSectors \/ ReadSingles
    PROVE  Content'
<1>1. /\ rpc = "read" /\ rpc' \in {"shrink", "sync"}
      /\ UNCHANGED <<offset, fill, last, read, written, todo, lsec, wpc, sDone, slot, woff, ins>>
  <2>1. CASE ReadSectors
    BY <2>1 DEF ReadSectors, ends, reader, writer
  <2>2. CASE ReadSingles
    <3>1. /\ rpc = "read"
          /\ UNCHANGED <<offset, fill, last, read, written, todo, lsec, wpc, sDone, slot, woff, ins>>
      BY <2>2 DEF ReadSingles, writer
    <3>2. rpc' \in {"shrink", "sync"}
      BY <2>2, SinglesIs
    <3> QED
      BY <3>1, <3>2
  <2> QED
    BY <2>1, <2>2
<1>2. burst' \in Int /\ data' = [data EXCEPT ![fill] = Sectors(burst')]
  <2>1. CASE ReadSectors
    <3>1. burst' = burst /\ data' = [data EXCEPT ![fill] = Sectors(burst)]
      BY <2>1 DEF ReadSectors, reader
    <3> QED
      BY <3>1, TypesAre
  <2>2. CASE ReadSingles
    <3>1. data' = [data EXCEPT ![fill] = Sectors(burst')]
      BY <2>2 DEF ReadSingles
    <3> QED
      BY <2>2, <3>1, SinglesIs
  <2> QED
    BY <2>1, <2>2
<1>3. fill \in Slots /\ data \in [Slots -> [1 .. Size -> Int]] /\ Buffers \in Nat /\ Buffers >= 1
      /\ Size \in Nat /\ last \in Slots \cup {NULL} /\ Busy
  BY <1>1, TypesAre, Sizes DEF Previous, Busy
<1>4. /\ data'[fill] = Sectors(burst')
      /\ \A s \in Slots : s # fill => data'[s] = data[s]
  BY <1>2, <1>3
<1>5. Ready'
  <2> SUFFICES ASSUME wpc # "gone", NEW k \in 0 .. Buffers - 1, Oldest + k < read,
                      ~(k = 0 /\ wpc \in {"save", "drop"})
               PROVE  Holds(At(last, k), P(Oldest + k))'
    <3>1. Oldest' = Oldest /\ Defined' = read /\ wpc' = wpc
      <4>1. read \in Nat
        BY TypesAre
      <4> QED
        BY <1>1, <4>1 DEF Oldest, Defined
    <3> QED
      BY <3>1 DEF Ready
  <2>1. last # NULL
    BY <1>1, <1>3, NoneDefined, TypesAre
  <2>2. At(last, k) # fill /\ At(last, k) \in Slots
    BY <1>3, <2>1, FillIs, AtIs
  <2>3. Defined = read
    BY <1>1, TypesAre DEF Defined
  <2>4. Holds(At(last, k), P(Oldest + k))
    BY <2>3 DEF Content, Ready
  <2>5. At(last, k)' = At(last, k) /\ P(Oldest + k)' = P(Oldest + k)
    BY <1>1 DEF At, P, Oldest
  <2> QED
    BY <1>1, <1>4, <2>2, <2>4, <2>5 DEF Holds
<1>6. Fresh'
  <2>1. \A i \in 1 .. Size : i <= burst' * F => Sectors(burst')[i] = lsec * F + i
    BY DEF Sectors
  <2> QED
    BY <1>1, <1>4, <2>1 DEF Fresh
<1>7. Rest'
  <2>1. wpc = "save" => slot # fill /\ slot \in Slots
    BY <1>3, FillIsNotSlot, TypesAre DEF Saving
  <2> QED
    BY <1>1, <1>4, <2>1 DEF Content, Rest
<1> QED
  BY <1>1, <1>5, <1>6, <1>7 DEF Content

\* When the job shrinks, all the buffers before the last are full.
LEMMA ContentOfShrink ==
    ASSUME TypeOK, Counters, Held, Progress, Content, ShrinkJob
    PROVE  Content'
<1>1. /\ P(read) < todo
      /\ UNCHANGED <<read, written, last, fill, offset, data, wpc, sDone, slot, woff, ins>>
      /\ rpc = "shrink" /\ rpc' = "sync" /\ lsec' = lsec /\ burst' = burst
  BY ShrinkIs
<1>2. Oldest \in Nat /\ read \in Nat /\ Buffers \in Nat /\ Size \in Nat /\ todo \in Nat
  BY OldestIs, Sizes, TypesAre
<1>3. Ready'
  <2> SUFFICES ASSUME wpc # "gone", NEW k \in 0 .. Buffers - 1, Oldest + k < read,
                      ~(k = 0 /\ wpc \in {"save", "drop"})
               PROVE  Holds(At(last, k), P(Oldest + k))'
    <3>1. Oldest' = Oldest /\ Defined' = read /\ wpc' = wpc
      BY <1>1, <1>2 DEF Oldest, Defined
    <3> QED
      BY <3>1 DEF Ready
  <2>1. Defined = read
    BY <1>1, <1>2 DEF Defined
  <2>2. Holds(At(last, k), P(Oldest + k))
    BY <2>1 DEF Content, Ready
  <2>3. At(last, k)' = At(last, k) /\ P(Oldest + k)' = P(Oldest + k)
    BY <1>1 DEF At, P, Oldest
  <2>4. P(Oldest + k) + Size <= P(read) /\ P(Oldest + k) \in Nat /\ P(read) \in Nat
    <3>1. Oldest + k \in Nat /\ Oldest + k + 1 \in Nat /\ Oldest + k + 1 <= read
      BY <1>2
    <3>2. P(Oldest + k + 1) = P(Oldest + k) + Size /\ P(Oldest + k) \in Nat
      BY <3>1, PIs
    <3>3. P(Oldest + k + 1) <= P(read) /\ P(read) \in Nat
      BY <1>2, <3>1, PIs
    <3> QED
      BY <3>2, <3>3
  <2> DEFINE p == P(Oldest + k)
             q == P(read)
  <2>5. p + Size <= q /\ p \in Nat /\ q \in Nat /\ q < todo
    BY <1>1, <2>4
  <2> HIDE DEF p, q
  <2>6. \A i \in 1 .. Size : p + i <= todo
    BY <1>2, <2>5
  <2>7. \A i \in 1 .. Size : data[At(last, k)][i] = p + i
    BY <2>2, <2>6 DEF Holds, p
  <2> QED
    BY <1>1, <2>3, <2>7 DEF Holds, p
<1>4. Fresh' /\ Rest'
  BY <1>1 DEF Content, Fresh, Rest
<1> QED
  BY <1>1, <1>3, <1>4 DEF Content

\* What was read is what the next buffer is to hold.
LEMMA ContentOfSync ==
    ASSUME TypeOK, Counters, Remaining, Held, Plain, Progress, Content, Synchronize
    PROVE  Content'
<1>1. rpc = "sync" /\ read \in Nat /\ burst \in Int /\ NSectors \in Nat /\ Size \in Nat /\ todo \in Nat
      /\ iloop \in Nat /\ fill \in Slots \cup {NULL} /\ offset \in [Slots -> 0 .. Size]
      /\ NSectors * F = Size
  BY TypesAre, Sizes DEF Synchronize
<1>2. /\ burst \in Nat /\ burst <= NSectors /\ (burst < NSectors => iloop <= burst * F)
      /\ lsec * F = todo - iloop /\ lsec * F = P(read)
  BY <1>1 DEF Progress, Dead, Advanced
<1>3. /\ rpc' = "define" /\ offset' = [offset EXCEPT ![fill] = 0] /\ burst * F \in Nat
      /\ UNCHANGED <<data, fill, last, read, written, todo, wpc, sDone, slot, woff, ins>>
  BY <1>2, SyncPlain DEF ends, writer
<1>4. \A s \in Slots : offset'[s] = 0
  BY <1>1, <1>3 DEF Content
<1>5. Ready'
  <2>1. Oldest' = Oldest /\ Defined' = Defined /\ wpc' = wpc
    BY <1>1, <1>3 DEF Oldest, Defined
  <2>2. \A k : At(last, k)' = At(last, k) /\ P(Oldest + k)' = P(Oldest + k)
    BY <1>3, <2>1 DEF At, P
  <2> QED
    BY <1>3, <2>1, <2>2 DEF Content, Ready, Holds
<1>6. Fresh'
  <2> DEFINE p == P(read)
             n == burst * F
  <2>1. \A i \in 1 .. Size : i <= n => data[fill][i] = p + i
    BY <1>1, <1>2 DEF Content, Fresh
  <2>2. n = Size \/ iloop <= n
    BY <1>1, <1>2
  <2>3. p = todo - iloop /\ n \in Nat
    BY <1>2, <1>3
  <2> HIDE DEF p, n
  <2>6. \A i \in 1 .. Size : p + i <= todo => i <= n
    BY <1>1, <2>2, <2>3
  <2>7. \A i \in 1 .. Size : p + i <= todo => data[fill][i] = p + i
    BY <2>1, <2>6
  <2>9. Holds(fill, P(read))'
    BY <1>3, <2>7 DEF Holds, P, p
  <2> QED
    BY <1>3, <2>9 DEF Fresh
<1>7. Rest'
  BY <1>3 DEF Content, Rest
<1> QED
  BY <1>4, <1>5, <1>6, <1>7 DEF Content

\* The buffer that was read is the next one in the ring.
LEMMA ContentOfDefine ==
    ASSUME TypeOK, Counters, Previous, Position, Held, Content, FirstDefined \/ CountDefined
    PROVE  Content'
<1>1. /\ read \in Nat /\ Oldest \in Nat /\ Oldest <= read /\ Buffers \in Nat /\ Buffers >= 1
      /\ NULL \notin Slots /\ last \in Slots \cup {NULL}
  BY TypesAre, OldestIs, Sizes DEF Slots, NULL
<1>2. CASE FirstDefined
  <2>1. /\ rpc = "define" /\ rpc' \in {"count", "gone"}
        /\ last' = (IF rpc' = "count" /\ last = NULL THEN fill ELSE last)
        /\ UNCHANGED <<data, offset, fill, read, written, todo, lsec, wpc, sDone, slot, woff, ins>>
    BY <1>2 DEF FirstDefined, ends, reader, writer
  <2>2. Busy /\ fill # NULL /\ fill \in Slots /\ Defined = read
    BY <1>1, <2>1, TypesAre DEF Busy, Previous, Defined
  <2>3. Oldest' = Oldest /\ Defined' \in {read, read + 1} /\ (rpc' = "gone" => Defined' = read)
    BY <1>1, <2>1 DEF Oldest, Defined
  <2>4. Ready'
    <3> SUFFICES ASSUME wpc # "gone", NEW k \in 0 .. Buffers - 1, Oldest + k < Defined',
                        ~(k = 0 /\ wpc \in {"save", "drop"})
                 PROVE  Holds(At(last', k), P(Oldest + k))
      <4>1. \A k : P(Oldest + k)' = P(Oldest + k) /\ At(last, k)' = At(last', k)
        BY <2>3 DEF P, At
      <4>2. \A s, p : Holds(s, p)' <=> Holds(s', p')
        BY <2>1 DEF Holds
      <4> QED
        BY <2>1, <2>3, <4>1 DEF Ready, Holds
    <3>1. CASE Oldest + k < read
      <4>1. last # NULL
        BY <1>1, <3>1, NoneDefined
      <4> QED
        BY <2>1, <2>2, <3>1, <4>1 DEF Content, Ready
    <3>2. CASE ~(Oldest + k < read)
      <4>1. Oldest + k = read /\ rpc' = "count"
        BY <1>1, <2>1, <2>3, <3>2
      <4>2. Holds(fill, P(read))
        BY <2>1 DEF Content, Fresh
      <4>3. CASE last = NULL
        <5>1. k = 0 /\ last' = fill
          BY <1>1, <2>1, <4>1, <4>3, NoneDefined
        <5>2. At(fill, k) = fill
          BY <2>2, <5>1, AtIs
        <5> QED
          BY <4>1, <4>2, <5>1, <5>2
      <4>4. CASE last # NULL
        <5>1. fill = At(last, k)
          <6>1. k = read - Oldest
            BY <1>1, <4>1
          <6> QED
            BY <2>2, <4>4, <6>1, FillIs
        <5> QED
          BY <2>1, <4>1, <4>2, <4>4, <5>1
      <4> QED
        BY <4>3, <4>4
    <3> QED
      BY <3>1, <3>2
  <2>5. Fresh' /\ Rest'
    BY <2>1 DEF Content, Fresh, Rest
  <2> QED
    BY <2>1, <2>4, <2>5 DEF Content
<1>3. CASE CountDefined
  <2>1. /\ rpc = "count" /\ rpc' = "release" /\ read' = read + 1
        /\ UNCHANGED <<data, offset, fill, last, written, todo, lsec, wpc, sDone, slot, woff, ins>>
    BY <1>3 DEF CountDefined, ends, reader, writer
  <2>2. Oldest' = Oldest /\ Defined' = Defined
    BY <1>1, <2>1 DEF Oldest, Defined
  <2>3. \A k : P(Oldest + k)' = P(Oldest + k) /\ At(last, k)' = At(last, k)
    BY <2>1, <2>2 DEF P, At
  <2>4. Ready'
    BY <2>1, <2>2, <2>3 DEF Content, Ready, Holds
  <2>5. Fresh' /\ Rest'
    BY <2>1 DEF Content, Fresh, Rest
  <2> QED
    BY <2>1, <2>4, <2>5 DEF Content
<1> QED
  BY <1>2, <1>3

\* The writer takes the oldest buffer.
LEMMA ContentOfTake ==
    ASSUME TypeOK, Counters, Held, Plain, NeverWraps, Written, Content, TakeBuffer
    PROVE  Content'
<1>1. /\ wpc = "take" /\ wpc' = "save" /\ slot' = last /\ woff' = offset[last]
      /\ ins' = Available(last)
      /\ UNCHANGED <<data, offset, fill, last, read, written, rpc, todo, lsec, burst, sDone>>
  BY DEF TakeBuffer, ends, ring, reader
<1>2. /\ last \in Slots /\ read \in Nat /\ Oldest \in Nat /\ Oldest + 1 <= read /\ todo \in Nat
      /\ sDone \in Nat /\ Buffers \in Nat /\ Buffers >= 1 /\ Size \in Nat
  BY <1>1, TypesAre, OldestIs, Sizes DEF Counters
<1>3. sDone <= todo /\ (sDone = P(Oldest) \/ sDone >= todo)
  BY <1>1 DEF NeverWraps, Plain, Written
<1>4. Oldest' = Oldest /\ Defined' = Defined /\ read <= Defined
  BY <1>1, <1>2 DEF Oldest, Defined
<1>5. \A k : P(Oldest + k)' = P(Oldest + k) /\ At(last, k)' = At(last, k)
  BY <1>1, <1>4 DEF P, At
<1>6. Ready'
  BY <1>1, <1>4, <1>5 DEF Content, Ready, Holds
<1>7. Fresh'
  BY <1>1 DEF Content, Fresh, Holds, P
<1>8. woff' = 0
  BY <1>1, <1>2 DEF Content
<1>9. Holds(last, P(Oldest))
  <2>1. 0 \in 0 .. Buffers - 1 /\ Oldest + 0 < Defined /\ Oldest + 0 = Oldest
    BY <1>2, <1>4, OldestIs, TypesAre DEF Defined
  <2>2. Holds(At(last, 0), P(Oldest + 0))
    BY <1>1, <2>1 DEF Content, Ready
  <2> QED
    BY <1>2, <2>1, <2>2, AtIs
<1>10. ins' \in Nat /\ ins' <= Size /\ ins' <= todo - sDone
  BY <1>1, <1>2, <1>3 DEF Available, Min2, Content
<1>11. \A i \in 1 .. ins' : data[last][i] = sDone + i
  <2>1. CASE sDone >= todo
    BY <1>2, <1>3, <1>10, <2>1
  <2>2. CASE sDone = P(Oldest)
    BY <1>2, <1>9, <1>10, <2>2 DEF Holds
  <2> QED
    BY <1>3, <2>1, <2>2
<1>12. Rest'
  BY <1>1, <1>8, <1>11 DEF Rest
<1> QED
  BY <1>1, <1>6, <1>7, <1>12 DEF Content

\* What is left of the buffer moves up.
LEMMA ContentOfSave ==
    ASSUME TypeOK, Counters, Previous, Saving, Position, Held, Content, SaveBuffer
    PROVE  Content'
<1>1. /\ wpc = "save" /\ wpc' = "save" /\ sDone' = sDone + HowMuch /\ ins' = ins - HowMuch
      /\ UNCHANGED <<offset, fill, last, read, written, rpc, todo, lsec, burst, slot, woff>>
      /\ data' = [data EXCEPT ![slot] =
                         [i \in 1 .. Size |-> IF woff < i /\ i <= woff + ins - HowMuch THEN @[i + HowMuch] ELSE @[i]]]
  BY DEF SaveBuffer, ends, reader
<1>2. /\ last \in Slots /\ slot = last /\ data \in [Slots -> [1 .. Size -> Int]]
      /\ ins \in Nat /\ sDone \in Nat /\ HowMuch \in Nat /\ HowMuch <= ins /\ Size \in Nat
      /\ woff + ins <= Size /\ woff = 0 /\ Buffers \in Nat /\ Buffers >= 1
  BY <1>1, TypesAre, HowMuchIs, Sizes DEF Saving, Content, Rest
<1>3. /\ data'[slot] = [i \in 1 .. Size |-> IF woff < i /\ i <= woff + ins - HowMuch
                                             THEN data[slot][i + HowMuch] ELSE data[slot][i]]
      /\ \A s \in Slots : s # slot => data'[s] = data[s]
  BY <1>1, <1>2
<1>4. Rest'
  <2>1. \A i \in 1 .. ins - HowMuch : data'[slot][i] = data[slot][i + HowMuch]
    BY <1>2, <1>3
  <2>2. \A i \in 1 .. ins - HowMuch : i + HowMuch \in 1 .. ins
    BY <1>2
  <2>3. \A i \in 1 .. ins : data[slot][i] = sDone + i
    BY <1>1 DEF Content, Rest
  <2>4. \A i \in 1 .. ins - HowMuch : data'[slot][i] = sDone + HowMuch + i
    BY <1>2, <2>1, <2>2, <2>3
  <2> QED
    BY <1>1, <1>2, <2>4 DEF Rest
<1>5. Oldest' = Oldest /\ Defined' = Defined
  BY <1>1 DEF Oldest, Defined
<1>6. Ready'
  <2> SUFFICES ASSUME NEW k \in 0 .. Buffers - 1, Oldest + k < Defined, k # 0
               PROVE  Holds(At(last, k), P(Oldest + k))'
    BY <1>1, <1>5 DEF Ready
  <2>1. At(last, k) # last /\ At(last, k) \in Slots
    <3>1. 0 \in 0 .. Buffers - 1
      BY <1>2
    <3> QED
      BY <1>2, <3>1, AtIs
  <2>2. Holds(At(last, k), P(Oldest + k))
    BY <1>1 DEF Content, Ready
  <2>3. At(last, k)' = At(last, k) /\ P(Oldest + k)' = P(Oldest + k)
    BY <1>1, <1>5 DEF At, P
  <2> QED
    BY <1>1, <1>2, <1>3, <2>1, <2>2, <2>3 DEF Holds
<1>7. Fresh'
  <2>1. rpc \in {"shrink", "sync", "define"} => fill # slot /\ fill \in Slots
    <3>1. rpc \in {"shrink", "sync", "define"} => Busy
      BY DEF Busy
    <3> QED
      BY <1>1, <3>1, FillIsNotSlot, TypesAre DEF Previous
  <2> QED
    BY <1>1, <1>3, <2>1 DEF Content, Fresh, Holds, P
<1> QED
  BY <1>1, <1>4, <1>6, <1>7 DEF Content

\* The next buffer is the oldest one.
LEMMA ContentOfDrop ==
    ASSUME TypeOK, Counters, Saving, Held, Content, DropBuffer
    PROVE  Content'
<1>1. /\ wpc = "drop" /\ wpc' \in {"written", "gone"}
      /\ wpc' = "written" => last' = (IF last = NULL THEN fill ELSE INC(last))
      /\ UNCHANGED <<data, offset, fill, read, written, rpc, todo, lsec, burst, sDone>>
  BY DEF DropBuffer, ends, reader, writer, WriterEnds
<1>2. /\ last \in Slots /\ Buffers \in Nat /\ Buffers >= 1 /\ read \in Nat /\ Oldest \in Nat
      /\ written \in Nat /\ free \in Nat
  BY <1>1, TypesAre, OldestIs, Sizes DEF Saving
<1>3. Fresh' /\ Rest'
  BY <1>1 DEF Content, Fresh, Rest, Holds, P
<1>4. Ready'
  <2> SUFFICES ASSUME wpc' = "written"
               PROVE  Ready'
    BY <1>1 DEF Ready
  <2>1. Oldest' = Oldest + 1 /\ Defined' = Defined /\ last' = INC(last) /\ Oldest = written
    BY <1>1, <1>2, TypesAre DEF Oldest, Defined, Slots, NULL
  <2>2. Defined - Oldest <= Buffers
    <3>1. rpc = "count" => read - written < Buffers
      BY DEF Counters
    <3>2. read - written <= Buffers
      BY <1>2 DEF Counters
    <3> QED
      BY <1>2, <2>1, <3>1, <3>2 DEF Defined
  <2>3. ASSUME NEW k \in 0 .. Buffers - 1, Oldest + 1 + k < Defined
        PROVE  Holds(At(INC(last), k), P(Oldest + 1 + k))
    <3>1. k + 1 \in 0 .. Buffers - 1 /\ Oldest + (k + 1) < Defined /\ k + 1 # 0
      BY <1>2, <2>2, <2>3 DEF Defined
    <3>2. Holds(At(last, k + 1), P(Oldest + (k + 1)))
      BY <1>1, <3>1 DEF Content, Ready
    <3>3. At(INC(last), k) = At(last, k + 1) /\ Oldest + (k + 1) = Oldest + 1 + k
      BY <1>2, <3>1, AtIs
    <3> QED
      BY <3>2, <3>3
  <2>4. \A k : P(Oldest + k)' = P(Oldest + 1 + k) /\ At(last, k)' = At(INC(last), k)
    BY <2>1 DEF P, At
  <2> QED
    BY <1>1, <2>1, <2>3, <2>4 DEF Ready, Holds
<1> QED
  BY <1>1, <1>3, <1>4 DEF Content

LEMMA ContentKept ==
    ASSUME TypeOK, Counters, Remaining, Previous, Saving, Position, Held, Plain, NeverWraps,
           Progress, Written, Content, Next
    PROVE  Content'
<1>1. CASE ReadSectors \/ ReadSingles
  BY <1>1, ContentOfRead
<1>2. CASE ShrinkJob
  BY <1>2, ContentOfShrink
<1>3. CASE Synchronize
  BY <1>3, ContentOfSync
<1>4. CASE FirstDefined \/ CountDefined
  BY <1>4, ContentOfDefine
<1>5. CASE TakeBuffer
  BY <1>5, ContentOfTake
<1>6. CASE SaveBuffer
  BY <1>6, ContentOfSave
<1>7. CASE DropBuffer
  BY <1>7, ContentOfDrop
<1>8. CASE /\ ~ReadSectors /\ ~ReadSingles /\ ~ShrinkJob /\ ~Synchronize /\ ~FirstDefined
           /\ ~CountDefined /\ ~TakeBuffer /\ ~SaveBuffer /\ ~DropBuffer
  <2>1. UNCHANGED <<data, offset, last>>
    BY <1>8, ContentIdle
  <2>2. /\ UNCHANGED <<todo, sDone, slot, woff, ins>>
        /\ wpc' # "gone" => /\ wpc # "gone" /\ Oldest' = Oldest
                            /\ wpc \in {"save", "drop"} => wpc' \in {"save", "drop"}
                            /\ wpc' = "save" => wpc = "save"
    <3>1. CASE Saved
      <4>1. wpc = "save" /\ wpc' = "drop" /\ UNCHANGED <<todo, sDone, slot, woff, ins, written>>
        BY <3>1 DEF Saved, ends, ring, writer
      <4> QED
        BY <4>1 DEF Oldest
    <3>2. CASE ~Saved
      BY <1>8, <3>2, WrittenIdle
    <3> QED
      BY <3>1, <3>2
  <2>3. /\ read' = read /\ (rpc' = "count" => rpc = "count")
        /\ rpc' \in {"shrink", "sync", "define"} => rpc' = rpc /\ UNCHANGED <<burst, lsec, fill>>
    <3>1. CASE OccupyBuffer
      BY <3>1 DEF OccupyBuffer
    <3>2. CASE CountDropped
      BY <3>2 DEF CountDropped, ring, reader
    <3>3. CASE ~OccupyBuffer /\ ~CountDropped
      <4>1. read' = read
        BY <1>8, <3>3, RingIdle
      <4>2. /\ UNCHANGED <<lsec, burst, fill>>
            /\ rpc' \notin {"read", "shrink", "sync", "define"} \/ rpc' = rpc
            /\ rpc' = "count" => rpc \in {"count", "define"}
        BY <1>8, <3>3, ReaderIdle
      <4>3. rpc' = "count" => rpc = "count"
        BY <1>8, <3>3, <4>2
           DEF Next, Reader, Writer, ReadLoop, RequestFree, ParentWaits, ParentWakes,
               UnrecoverableError, ReaderSignal, AwaitChild, ReleaseDefined, UnflagChild, WakeChild,
               WriteLoop, TestEnd, TestDrained, RequestDefined, ChildWaits, ChildWakes, Saved,
               ReleaseFree, UnflagParent, WakeParent, WriterSignal, SaveFails, Interrupt, Gone,
               vars, ReaderEnds
      <4> QED
        BY <4>1, <4>2, <4>3
    <3> QED
      BY <3>1, <3>2, <3>3
  <2>4. Ready'
    <3> SUFFICES ASSUME wpc' # "gone"
                 PROVE  Ready'
      BY DEF Ready
    <3>1. Oldest' = Oldest /\ Oldest \in Nat /\ Defined' <= Defined /\ Defined \in Nat /\ Defined' \in Nat
      BY <2>2, <2>3, OldestIs DEF Defined
    <3>2. \A k : P(Oldest + k)' = P(Oldest + k) /\ At(last, k)' = At(last, k)
      BY <2>1, <3>1 DEF P, At
    <3>3. \A k \in 0 .. Buffers - 1 : Oldest + k < Defined' => Oldest + k < Defined
      BY <3>1
    <3> QED
      BY <2>1, <2>2, <3>1, <3>2, <3>3 DEF Content, Ready, Holds
  <2>5. Fresh'
    BY <2>1, <2>2, <2>3 DEF Content, Fresh, Holds, P
  <2>6. Rest'
    BY <2>1, <2>2 DEF Content, Rest
  <2> QED
    BY <2>1, <2>4, <2>5, <2>6 DEF Content
<1> QED
  BY <1>1, <1>2, <1>3, <1>4, <1>5, <1>6, <1>7, <1>8

-----------------------------------------------------------------------------
(* The files.                                                              *)

LEMMA FilesKept ==
    ASSUME TypeOK, Saving, Plain, NeverWraps, Progress, Content, Files, Next
    PROVE  Files'
<1>1. CASE ~SaveBuffer
  <2>1. UNCHANGED <<job, sDone, track, file, out>>
    <3>1. CASE TakeBuffer
      BY <3>1 DEF TakeBuffer
    <3>2. CASE DropBuffer
      BY <3>2 DEF DropBuffer, writer
    <3>3. CASE ~TakeBuffer /\ ~DropBuffer
      BY <1>1, <3>3, WriterIdle
    <3> QED
      BY <3>1, <3>2, <3>3
  <2> QED
    BY <2>1 DEF Files
<1>2. CASE SaveBuffer
  <2> DEFINE how == HowMuch
             cut == job.bound * F
             in2(i) == IF job.bulk /\ i > cut THEN 2 ELSE 1
  <2>1. /\ wpc = "save" /\ sDone < todo /\ job' = job
        /\ sDone' = sDone + how
        /\ track' \in {track, track + 1} /\ (track' # track <=> TrackEnds)
        /\ file' = IF TrackEnds /\ job.bulk /\ job.todo - sDone - how > 0 THEN file + 1 ELSE file
    <3>1. track \in Nat
      BY TypesAre
    <3> QED
      BY <1>2, <3>1 DEF SaveBuffer
  <2>2. /\ sDone \in Nat /\ todo \in Nat /\ ins \in Nat /\ track \in Nat /\ track >= 1 /\ file \in 1 .. 2
        /\ job.todo \in Nat /\ cut \in Nat /\ job.bulk \in BOOLEAN /\ file' \in 1 .. 2
        /\ how \in Nat /\ how <= ins /\ sDone + ins <= todo /\ woff = 0 /\ Len(out) = sDone
        /\ \A i \in 1 .. ins : data[slot][i] = sDone + i
    <3>1. /\ sDone \in Nat /\ todo \in Nat /\ ins \in Nat /\ track \in Nat /\ track >= 1 /\ file \in 1 .. 2
          /\ job.todo \in Nat /\ cut \in Nat /\ job.bulk \in BOOLEAN
      BY TypesAre, JobTypes DEF Saving
    <3>2. file' \in 1 .. 2
      BY <1>2, SaveIs
    <3>3. how \in Nat /\ how <= ins
      BY HowMuchIs
    <3>4. sDone + ins <= todo /\ woff = 0 /\ Len(out) = sDone
          /\ \A i \in 1 .. ins : data[slot][i] = sDone + i
      BY <2>1 DEF NeverWraps, Plain, Content, Rest, Files
    <3> QED
      BY <3>1, <3>2, <3>3, <3>4
  <2>3. job.bulk /\ track = 1 =>
          /\ file = 1 /\ sDone + how <= cut
          /\ TrackEnds => sDone + how = cut \/ sDone + how = job.todo
    <3> SUFFICES ASSUME job.bulk, track = 1
                 PROVE  /\ file = 1 /\ sDone + how <= cut
                        /\ TrackEnds => sDone + how = cut \/ sDone + how = job.todo
      OBVIOUS
    <3>1. file = 1 /\ sDone <= cut
      BY DEF Saving, Files
    <3>2. Left = cut - sDone /\ (Left >= 0 => how <= Left /\ (Left <= ins => how = Left))
      BY HowMuchIs
    <3>3. TrackEnds => (Left >= 0 /\ Left <= ins) \/ job.todo - sDone - how = 0
      BY DEF TrackEnds
    <3> HIDE DEF how, cut
    <3>4. sDone + how <= cut /\ ((Left >= 0 /\ Left <= ins) => sDone + how = cut)
          /\ (job.todo - sDone - how = 0 => sDone + how = job.todo)
      BY <2>2, <3>1, <3>2
    <3> QED
      BY <3>1, <3>3, <3>4
  <2>4. job.bulk /\ track >= 2 => file = 2 /\ sDone >= cut
    <3>1. todo > job.todo => job.todo > cut
      BY DEF Progress
    <3>2. ~(sDone = job.todo /\ job.todo <= cut)
      <4> HIDE DEF cut
      <4> QED
        BY <2>1, <2>2, <3>1
    <3> QED
      BY <3>2 DEF Files
  <2>5. /\ Len(out') = sDone + how
        /\ \A i \in 1 .. sDone + how :
              out'[i] = IF i <= sDone THEN out[i] ELSE <<file, i>>
    <3> DEFINE more == [i \in 1 .. how |-> <<file, data[slot][woff + i]>>]
    <3>1. out' = out \o more
      BY <1>2 DEF SaveBuffer
    <3>2. \A i \in 1 .. how : data[slot][woff + i] = sDone + i
      BY <2>2
    <3>3. \A i \in 1 .. how : more[i] = <<file, sDone + i>>
      BY <3>2
    <3>4. more \in Seq((1 .. 2) \X Int) /\ Len(more) = how
      <4>1. \A i \in 1 .. how : <<file, data[slot][woff + i]>> \in (1 .. 2) \X Int
        BY <2>2, <3>2
      <4>2. more \in [1 .. how -> (1 .. 2) \X Int]
        BY <4>1
      <4>3. how \in Nat
        BY <2>2
      <4> HIDE DEF more, how
      <4>4. more \in Seq((1 .. 2) \X Int)
        BY <4>2, <4>3, SeqDef
      <4> QED
        BY <4>2, <4>3, <4>4, LenProperties
    <3> HIDE DEF more, how
    <3>5. out \in Seq((1 .. 2) \X Int)
      BY TypesAre
    <3>6. /\ Len(out') = sDone + how
          /\ \A i \in 1 .. sDone + how : out'[i] = IF i <= sDone THEN out[i] ELSE more[i - sDone]
      <4>1. Len(out) = sDone
        BY <2>2
      <4>2. /\ Len(out \o more) = Len(out) + Len(more)
            /\ \A i \in 1 .. Len(out) + Len(more) :
                  (out \o more)[i] = IF i <= Len(out) THEN out[i] ELSE more[i - Len(out)]
        BY <3>4, <3>5, ConcatProperties
      <4> QED
        BY <3>1, <3>4, <4>1, <4>2
    <3>7. \A i \in 1 .. sDone + how : ~(i <= sDone) => i - sDone \in 1 .. how /\ sDone + (i - sDone) = i
      BY <2>2
    <3> QED
      BY <3>3, <3>6, <3>7
  <2>6. \A i \in 1 .. sDone : out[i] = <<in2(i), i>>
    BY <2>2 DEF Files
  <2>7. \A i \in 1 .. sDone + how : ~(i <= sDone) => file = in2(i)
    <3>1. ~job.bulk => file = 1
      BY DEF Saving
    <3> HIDE DEF how, cut
    <3> QED
      BY <2>2, <2>3, <2>4, <3>1
  <2>8. \A i \in 1 .. sDone + how : out'[i] = <<in2(i), i>>
    <3> HIDE DEF how, in2
    <3>1. \A i \in 1 .. sDone + how : i <= sDone => i \in 1 .. sDone
      BY <2>2
    <3> QED
      BY <2>5, <2>6, <2>7, <3>1
  <2>9. /\ Len(out') = sDone'
        /\ \A i \in 1 .. Len(out') : out'[i] = <<IF job'.bulk /\ i > job'.bound * F THEN 2 ELSE 1, i>>
    BY <2>1, <2>5, <2>8
  <2>10. job.bulk => /\ track' = 1 => sDone' <= cut
                     /\ track' >= 2 => \/ file' = 2 /\ sDone' >= cut
                                       \/ sDone' = job.todo /\ job.todo <= cut
    <3> SUFFICES ASSUME job.bulk
                 PROVE  /\ track' = 1 => sDone' <= cut
                        /\ track' >= 2 => \/ file' = 2 /\ sDone' >= cut
                                          \/ sDone' = job.todo /\ job.todo <= cut
      OBVIOUS
    <3>1. todo > job.todo => job.todo > cut
      BY DEF Progress
    <3> HIDE DEF how, cut
    <3>2. CASE track = 1
      <4>1. CASE ~TrackEnds
        BY <2>1, <2>2, <2>3, <3>2, <4>1
      <4>2. CASE TrackEnds /\ job.todo - sDone - how > 0
        BY <2>1, <2>2, <2>3, <3>2, <4>2
      <4>3. CASE TrackEnds /\ ~(job.todo - sDone - how > 0)
        BY <2>1, <2>2, <2>3, <3>1, <3>2, <4>3
      <4> QED
        BY <4>1, <4>2, <4>3
    <3>3. CASE track >= 2
      BY <2>1, <2>2, <2>4, <3>3
    <3> QED
      BY <2>2, <3>2, <3>3
  <2> QED
    BY <2>1, <2>9, <2>10 DEF Files
<1> QED
  BY <1>1, <1>2

-----------------------------------------------------------------------------
(* The theorems.                                                           *)

LEMMA InitInv == Init => IndInv
<1> SUFFICES ASSUME Init
             PROVE  IndInv
  OBVIOUS
<1>1. /\ job \in Jobs /\ job \in Job /\ Buffers \in Nat /\ Buffers >= 1 /\ NSectors \in Nat /\ NSectors >= 1
      /\ MaxRetry \in Nat /\ MaxRetry >= 1 /\ Size \in Nat
      /\ job.overlap > 0 => NSectors > job.overlap
  BY Sizes, JobAssumption, OverlapAssumption DEF Init
<1>2. /\ job.todo \in Nat /\ job.todo > 0 /\ job.overlap \in Nat /\ job.bound \in Nat
      /\ job.pipes \in BOOLEAN
  BY <1>1 DEF Job
<1>3. job.bound * F \in Nat
  BY <1>2, FewerSectors
<1>4. /\ fill = NULL /\ last = NULL /\ prev = NULL /\ slot = NULL
      /\ read = 0 /\ written = 0 /\ def = 0 /\ free = InitialFree /\ todo = job.todo
      /\ rpc = "loop" /\ wpc = "loop" /\ iloop = job.todo /\ lsec = 0 /\ burst = 0
      /\ overlap = job.overlap /\ retries = 0 /\ sDone = 0 /\ woff = 0 /\ ins = 0
      /\ track = 1 /\ file = 1 /\ out = <<>>
      /\ rexit = "none" /\ wexit = "none"
      /\ data = [s \in Slots |-> [i \in 1 .. Size |-> 0]] /\ offset = [s \in Slots |-> 0]
  BY DEF Init
<1>5. childWaits = FALSE /\ parentWaits = FALSE /\ eor = FALSE /\ rsig = FALSE /\ wsig = FALSE
      /\ early = FALSE
  BY DEF Init
<1>6. free \in Nat /\ (Pipes => free = 0) /\ (~Pipes => free = Buffers)
  BY <1>1, <1>4 DEF InitialFree
<1>7. TypeOK
  <2>1. data \in [Slots -> [1 .. Size -> Int]] /\ offset \in [Slots -> 0 .. Size]
    BY <1>1, <1>4
  <2>2. {childWaits, parentWaits, eor, rsig, wsig, early} \subseteq BOOLEAN
    BY <1>5
  <2>3. {read, written, def, free, sDone, woff, ins, iloop, todo} \subseteq Nat
    BY <1>2, <1>4, <1>6
  <2>4. {lsec, burst} \subseteq Int /\ overlap \in 0 .. NSectors - 1 /\ retries \in 0 .. MaxRetry - 1
    BY <1>1, <1>2, <1>4
  <2>5. {fill, last, prev, slot} \subseteq Slots \cup {NULL}
    BY <1>4
  <2>6. rpc \in ReaderPC /\ wpc \in WriterPC /\ track \in Nat /\ file \in 1 .. 2
        /\ rexit \in {"none", "ok", "read", "semaphore", "sigpipe", "interrupted", "abort"}
        /\ wexit \in {"none", "ok", "write", "sigpipe", "interrupted", "abort"}
    BY <1>4 DEF ReaderPC, WriterPC
  <2>7. out \in Seq((1 .. 2) \X Int)
    BY <1>4, EmptySeq
  <2> QED
    BY <1>1, <2>1, <2>2, <2>3, <2>4, <2>5, <2>6, <2>7 DEF TypeOK
<1>8. Counters /\ Remaining /\ Previous /\ Saving /\ Position
  BY <1>1, <1>2, <1>4 DEF Counters, Remaining, Previous, Saving, Position, Busy
<1>9. Pipes => Flags
  <2>1. ~childWaits /\ ~parentWaits
    BY <1>5
  <2> QED
    BY <1>4, <1>6, <2>1 DEF Flags, WakeupsMatch
<1>10. (~Pipes => Tokens) /\ ~early /\ Held
  BY <1>1, <1>4, <1>5, <1>6 DEF Tokens, Held, Busy
<1>11. NeverWraps
  BY <1>2, <1>4 DEF NeverWraps
<1>12. P(0) = 0 /\ 0 * F = 0
  BY <1>1, Sizes DEF P
<1>13. Oldest = 0 /\ Advanced = 0 /\ Defined = 0
  BY <1>4 DEF Oldest, Advanced, Defined
<1>14. Progress
  BY <1>2, <1>4, <1>12, <1>13 DEF Progress
<1>15. Written
  BY <1>4, <1>12, <1>13 DEF Written
<1>16. Content
  BY <1>4, <1>13 DEF Content, Ready, Fresh, Rest
<1>17. Files
  BY <1>3, <1>4 DEF Files
<1> QED
  BY <1>7, <1>8, <1>9, <1>10, <1>11, <1>14, <1>15, <1>16, <1>17 DEF IndInv

LEMMA StepInv == IndInv /\ [Next]_vars => IndInv'
<1>1. ASSUME IndInv, Next
      PROVE  IndInv'
  <2> USE <1>1
  <2>1. /\ TypeOK /\ Counters /\ Remaining /\ Previous /\ Saving /\ Position
        /\ Pipes => Flags
        /\ ~Pipes => Tokens /\ ~early
        /\ ~early => Held /\ NeverWraps
        /\ Plain => ~early /\ Progress /\ Written /\ Content /\ Files
    BY DEF IndInv, Plain
  <2>2. TypeOK'
    BY <2>1, TypesKept
  <2>3. Counters' /\ Remaining' /\ Previous' /\ Saving' /\ Position'
    BY <2>1, CountersKept, RemainingKept, PreviousKept, SavingKept, PositionKept
  <2>4. job' = job
    <3>1. CASE SaveBuffer \/ TakeBuffer \/ DropBuffer
      BY <3>1 DEF SaveBuffer, TakeBuffer, DropBuffer
    <3>2. CASE ~(SaveBuffer \/ TakeBuffer \/ DropBuffer)
      BY <3>2, WriterIdle
    <3> QED
      BY <3>1, <3>2
  <2>5. Pipes' = Pipes /\ (~early' => ~early) /\ (Plain' => Plain)
    BY <2>1, <2>4, EarlyKept DEF Pipes, Plain
  <2>6. Pipes => Flags'
    BY <2>1, FlagsKept
  <2>7. ~Pipes => Tokens' /\ ~early'
    <3>1. ~Pipes => Tokens'
      BY <2>1, TokensKept
    <3>2. ~Pipes => ~ParentWakes /\ ~ChildWakes
      BY <2>1 DEF Tokens, ParentWakes, ChildWakes
    <3> QED
      BY <2>1, <3>1, <3>2, EarlyKept
  <2>8. ~early' => Held' /\ NeverWraps'
    BY <2>1, <2>5, HeldKept, NeverWrapsKept
  <2>9. Plain => Progress'
    BY <2>1, ProgressKept
  <2>10. Plain => Written'
    BY <2>1, WrittenKept DEF Content
  <2>11. Plain => Content'
    BY <2>1, ContentKept
  <2>12. Plain => Files'
    BY <2>1, FilesKept
  <2> QED
    BY <2>2, <2>3, <2>5, <2>6, <2>7, <2>8, <2>9, <2>10, <2>11, <2>12 DEF IndInv
<1>2. ASSUME IndInv, UNCHANGED vars
      PROVE  IndInv'
  <2>1. UNCHANGED <<job, data, offset, fill, last, read, written, childWaits, parentWaits, eor, todo,
                    def, free, rpc, iloop, lsec, burst, overlap, prev, retries, wpc, sDone, slot, woff,
                    ins, track, file, out, rsig, wsig, rexit, wexit, early>>
    BY <1>2 DEF vars, ring, sync, ends, reader, writer, signals, exits
  <2>2. TypeOK'
    BY <1>2, <2>1 DEF IndInv, TypeOK
  <2>3. Counters' /\ Remaining' /\ Previous' /\ Saving' /\ Position'
    BY <1>2, <2>1 DEF IndInv, Counters, Remaining, Previous, Saving, Position, Busy, Dead, Oldest
  <2>4. Pipes' = Pipes /\ Plain' = Plain /\ early' = early
    BY <2>1 DEF Pipes, Plain
  <2>5. Pipes => Flags'
    BY <1>2, <2>1 DEF IndInv, Flags, WakeupsMatch
  <2>6. (~Pipes => Tokens' /\ ~early') /\ (~early => Held' /\ NeverWraps')
    BY <1>2, <2>1 DEF IndInv, Tokens, NeverWraps, Held, Busy
  <2>7. Plain => Progress' /\ Written'
    BY <1>2, <2>1 DEF IndInv, Progress, Written, P, Advanced, Oldest, Dead, Singly
  <2>8. Plain => Content' /\ Files'
    BY <1>2, <2>1 DEF IndInv, Content, Ready, Fresh, Rest, Files, Holds, At, P, Oldest, Defined
  <2> QED
    BY <2>2, <2>3, <2>4, <2>5, <2>6, <2>7, <2>8 DEF IndInv
<1> QED
  BY <1>1, <1>2

\* The inductive invariant holds of every behaviour of the two processes.
THEOREM Invariance == Spec => []IndInv
BY InitInv, StepInv, PTL DEF Spec

\* Unless a process was woken early, the assertions of ringbuff.c hold where
\* they are evaluated.
LEMMA Asserted ==
    ASSUME IndInv, ~early
    PROVE  AssertsHold
<1>1. TypeOK /\ Counters /\ Remaining /\ Previous /\ Held
  BY DEF IndInv
<1>2. read \in Nat /\ written \in Nat /\ def \in Nat /\ free \in Nat /\ Buffers \in Nat
  BY <1>1, TypesAre, Sizes
<1>3. /\ rpc = "occupy" => read - written <= Buffers
      /\ rpc = "define" => read - written < Buffers
      /\ wpc = "drop" => read - written > 0
  BY <1>1, <1>2 DEF Counters, Held, Busy
<1>4. ASSUME rpc = "sync", ~Unsynchronised
      PROVE  prev # NULL /\ prev # fill
  <2>1. todo # iloop /\ overlap # 0
    BY <1>4 DEF Unsynchronised
  <2>2. prev \in Slots /\ fill = INC(prev)
    BY <1>1, <1>4, <2>1, TypesAre DEF Previous
  <2>3. Buffers > 1
    <3>1. job \in Jobs /\ job.overlap \in Nat /\ job.overlap # 0
      BY <1>1, <2>1, JobTypes DEF Remaining
    <3> QED
      BY <3>1, OverlapAssumption
  <2>4. INC(prev) # prev
    BY <1>2, <2>2, <2>3, IncIs DEF Slots
  <2> QED
    BY <2>2, <2>4 DEF Slots, NULL
<1> QED
  BY <1>3, <1>4 DEF AssertsHold

LEMMA KeptApart ==
    ASSUME IndInv, ~early
    PROVE  Apart
<1>1. TypeOK /\ Counters /\ Previous /\ Saving /\ Position /\ Held
  BY DEF IndInv
<1>2. rpc \in {"read", "shrink", "sync", "define"} => Busy
  BY DEF Busy
<1> QED
  BY <1>1, <1>2, FillIsNotSlot DEF Apart

\* The ring of cdda2wav, for any number of buffers and any interleaving of the
\* two processes.  As long as no process was woken early, which with semaphores
\* none is, every assertion of ringbuff.c holds, no unsigned difference wraps
\* and no buffer is read into while it is saved; with flags and pipes no byte is
\* left in a pipe for a later request, and the counters stay the ring apart.
THEOREM RingIsSafe == Spec => []RingInv
<1>1. IndInv => RingInv
  <2> SUFFICES ASSUME IndInv
               PROVE  RingInv
    OBVIOUS
  <2>1. TypeOK /\ read - written \in 0 .. Buffers
    BY DEF IndInv, Counters
  <2>2. IF Pipes THEN WakeupsMatch ELSE ~early
    BY DEF IndInv, Flags
  <2>3. ~early => AssertsHold /\ NeverWraps /\ Apart
    BY Asserted, KeptApart DEF IndInv
  <2> QED
    BY <2>1, <2>2, <2>3 DEF RingInv
<1> QED
  BY <1>1, Invariance, PTL

\* What do_write() puts into the files is what do_read() got from the medium,
\* in either build, if no sectors are read twice and as long as no process was
\* woken early (with semaphores none is, by RingIsSafe): every sample once, in
\* order, each track's in its own file, whatever the sizes of buffers and
\* tracks and wherever the medium ends.
THEOREM FilesInOrder == Spec => []InOrder
<1>1. IndInv => InOrder
  <2> SUFFICES ASSUME IndInv, job.overlap = 0, ~early
               PROVE  \A i \in 1 .. Len(out) : out[i] = <<FileOf(i), i>>
    BY DEF InOrder
  <2> QED
    BY DEF IndInv, Plain, Files, FileOf
<1> QED
  BY <1>1, Invariance, PTL
=============================================================================
