------------------------------ MODULE BurnProofs ------------------------------
(***************************************************************************)
(* Proofs about the burning side of growisofs, for every disc, image and   *)
(* size of a block, however often the unit postpones, and wherever         *)
(* commands fail, signals arrive, and the power is lost.                   *)
(***************************************************************************)
EXTENDS Burn, TLAPS

PCs == {"setup", "idle", "write", "wrote", "sync", "flush", "read", "inner", "exiting",
        "final", "end"}
Hows == {"none", "done", "failed", "input", "signal", "crash", "start"}
Writing == {"write", "wrote", "sync"}

Numbers ==
    /\ nwa \in Nat /\ safe \in Nat /\ nextWr \in Nat /\ firstWr \in Nat
    /\ cut \in Nat /\ nbl \in Nat /\ blk \in Nat
    /\ retries \in Nat /\ busy \in Nat /\ run \in Nat
Labels ==
    /\ pc \in PCs /\ how \in Hows
    /\ errno \in {0, EINTR, EIO} /\ saved \in {0, EINTR, EIO}
    /\ status \in {0, 1, EINTR, EIO, 128 + EIO}
Types == job \in Jobs /\ disc \in [Sectors -> Int] /\ Numbers /\ Labels

Flags ==
    /\ dirty \in BOOLEAN /\ trackClosed \in BOOLEAN /\ closed \in BOOLEAN
    /\ written \in BOOLEAN /\ blocked \in BOOLEAN /\ quickgrown \in BOOLEAN
    /\ doReload \in BOOLEAN /\ refused \in BOOLEAN /\ flushFailed \in BOOLEAN
    /\ impatient \in BOOLEAN

\* Where the program is: why it ended is known from when it leaves main(); only
\* sessions on discs that can be overwritten get beyond the image.
Where ==
    /\ how # "none" => pc \in {"exiting", "final", "end"}
    /\ pc = "exiting" => how \in {"done", "failed", "input"}
    /\ how \in {"crash", "start"} => pc = "end"
    /\ pc = "setup" => blk = 0 /\ nbl = 0 /\ ~dirty /\ ~written /\ (Relocates => nwa = Start)
    /\ blk <= Descriptors + 1
    /\ blk > Chunks \/ pc \in {"inner", "flush", "read"} \/ ~doReload => Relocates
    /\ pc \in {"inner", "flush", "read"} \/ ~doReload => blk = Chunks
    /\ ~doReload => /\ job.kind = "-RW" /\ how \in {"none", "signal"}
                    /\ pc \in {"inner", "final", "read", "end"}
    /\ pc = "final" => written

\* The block that is written.
Block ==
    pc \in Writing =>
        /\ NextBlock
        /\ cut + nbl <= Chunk
        /\ cut = 0 => nbl = Truncated(Address(blk), Chunk)
        /\ blk = Descriptors => cut = 0
        /\ job.dao => lba + nbl <= Start + job.length

\* The track: all before the next writable address can be resumed.
Track ==
    /\ Start <= safe /\ safe <= nwa /\ nwa <= Start + Chunks * Chunk
    /\ job.dao => nwa <= Start + job.length
    /\ pc \in {"idle", "flush", "read"} /\ ~written =>
          nextWr = 0 \/ (WriteOnce /\ nextWr = nwa /\ (Relocates => blk = 0 /\ nwa = Start))

\* On disc d, the sectors from a on, c of them, hold what belongs there.
Holds(d, a, c) == \A x \in a .. a + c - 1 : (job.dao => x < Start + job.length) => d[x] = Meant(x)

\* What was written so far.
Progress ==
    /\ ImageInPlace
    /\ how # "crash" => \A b \in 0 .. Chunks - 1 : b < blk => Holds(disc, Address(b), Chunk)
    /\ how # "crash" /\ blk > Descriptors => Holds(disc, Chunk, Chunk)
    /\ pc = "wrote" /\ cut = 0 => Holds(disc, Address(blk), Chunk)
    /\ how = "done" => blk >= Chunks /\ (Relocates => blk > Descriptors)

\* How the errors come to be the exit status.
Blame ==
    /\ pc = "exiting" => errno = IF how = "done" THEN 0 ELSE EIO
    /\ pc = "final" /\ how \in {"failed", "input"} => saved = EIO
    /\ FailureIsReported
    /\ FailsForCause

\* What is in the cache is flushed by the handler, if that knows of it.
Excuse == flushFailed \/ impatient \/ job.kind = "RAM" \/ (job.dl /\ refused)
FlushIsNext(t) == t # <<>> /\ Head(t) = "flush"
Cache ==
    /\ pc \in Writing /\ ~written => blocked \/ impatient
    /\ ~written /\ dirty => \/ pc = "wrote"
                            \/ pc = "exiting" /\ how = "failed" /\ job.dl /\ refused
                            \/ pc = "end" /\ Excuse
    /\ pc = "final" /\ dirty => \/ job.kind = "RAM"
                                \/ FlushIsNext(todo)
                                \/ flushFailed /\ job.kind = "-R" /\ job.dao
    /\ NothingLeftInCache
    /\ Ended /\ how = "done" /\ status = 0 /\ ~job.dao => ~dirty \/ job.kind = "RAM"
    /\ how = "crash" => ~dirty

\* What is left to do on a write-once disc, by how much of it is done.
Stopping == {<<"flush", "stop">>, <<"stop">>}
JustFlush == {<<"flush", "reload">>, <<"reload">>}
TrackOnly == {<<"flush", "track", "wait", "reload">>, <<"track", "wait", "reload">>}
Both == {<<"flush", "track", "wait", "session", "wait", "reload">>,
         <<"track", "wait", "session", "wait", "reload">>}
TrackDone == {<<"wait", "session", "wait", "reload">>, <<"session", "wait", "reload">>}
AllDone == {<<"wait", "reload">>, <<"reload">>}
IsDao == job.kind = "-R" /\ job.dao

Closing ==
    WriteOnce =>
        /\ doReload
        /\ trackClosed \/ closed => pc \in {"final", "end"} /\ how # "signal"
        /\ pc = "final" /\ how = "signal" => todo \in Stopping
        /\ pc = "final" /\ how # "signal" /\ IsDao => todo \in JustFlush
        /\ pc = "final" /\ how # "signal" /\ ~IsDao =>
              /\ todo \in TrackOnly \cup Both \cup TrackDone \cup AllDone
              /\ todo \in TrackOnly => job.pow
              /\ how = "done" /\ saved = 0 =>
                    /\ todo \in TrackDone => trackClosed
                    /\ todo \in AllDone => trackClosed /\ (~job.pow => closed)
        /\ nbl # 0 /\ (pc \in {"idle", "flush", "read"} \/ (pc = "exiting" /\ how = "done")) => written
        /\ Ended /\ how = "done" /\ status = 0 /\ ~job.reload /\ ~job.dao /\ nbl # 0 =>
              trackClosed /\ (~job.pow => closed)

IndInv == Types /\ Flags /\ Where /\ Block /\ Track /\ Progress /\ Blame /\ Cache /\ Closing

------------------------------------------------------------------------------
(* Sizes and addresses                                                     *)

LEMMA JobType ==
    ASSUME job \in Jobs
    PROVE  /\ job.kind \in Kinds /\ job.next \in Nat /\ job.length \in Nat
           /\ job.next # 1 /\ job.length > (Chunks - 1) * Chunk /\ job.length <= Chunks * Chunk
           /\ job.dl \in BOOLEAN /\ job.pow \in BOOLEAN /\ job.dao \in BOOLEAN /\ job.reload \in BOOLEAN
<1>1. job \in Job
  BY JobAssumption
<1> QED
  BY <1>1, JobAssumption DEF Job

LEMMA Sizes ==
    ASSUME job \in Jobs
    PROVE  /\ Chunk \in Nat /\ Chunk > 0 /\ Chunks \in Nat /\ Chunks > 0 /\ Hold \in Nat
           /\ job.length \in Nat /\ job.length <= Chunks * Chunk /\ Chunks * Chunk \in Nat
           /\ Start \in Nat /\ (Relocates => Start >= 2 * Chunk) /\ Descriptors = Chunks + 1
           /\ Sectors = 0 .. (Start + Chunks * Chunk) - 1
<1>1. /\ Chunk \in Nat /\ Chunk > 0 /\ Chunks \in Nat /\ Chunks > 0 /\ Hold \in Nat
  BY SizeAssumption
<1>2. job.next \in Nat /\ job.next # 1 /\ job.length \in Nat /\ job.length <= Chunks * Chunk
  BY JobType
<1>3. Chunks * Chunk \in Nat /\ Start \in Nat /\ Start = job.next * Chunk
  BY <1>1, <1>2 DEF Start
<1>4. ASSUME Relocates PROVE Start >= 2 * Chunk
  <2>1. job.next >= 2
    BY <1>2, <1>4 DEF Relocates
  <2> QED
    BY <1>1, <1>2, <1>3, <2>1
<1>5. (job.next + Chunks) * Chunk = Start + Chunks * Chunk
  BY <1>1, <1>2, <1>3
<1>6. Sectors = 0 .. (Start + Chunks * Chunk) - 1
  <2>1. \A x, y : x = y => 0 .. x - 1 = 0 .. y - 1
    BY Zenon
  <2> QED
    BY <1>5, <2>1, Zenon DEF Sectors
<1> QED
  BY <1>1, <1>2, <1>3, <1>4, <1>6, Zenon DEF Descriptors

\* A block of the image lies in it, and begins before it ends.
LEMMA BlockBounds ==
    ASSUME job \in Jobs, NEW b \in 0 .. Chunks - 1
    PROVE  /\ Address(b) \in Nat /\ Address(b) = Start + b * Chunk /\ b * Chunk \in Nat
           /\ Address(b) + Chunk <= Start + Chunks * Chunk
           /\ Address(b) < Start + job.length
<1>1. Chunk \in Nat /\ Chunk > 0 /\ Chunks \in Nat /\ Start \in Nat /\ Descriptors = Chunks + 1
  BY Sizes
<1>2. b * Chunk \in Nat /\ b * Chunk + Chunk <= Chunks * Chunk
  BY <1>1
<1>3. job.length \in Nat /\ job.length > (Chunks - 1) * Chunk
  BY JobType
<1>4. b * Chunk <= (Chunks - 1) * Chunk
  BY <1>1
<1>5. Address(b) = Start + b * Chunk
  BY <1>1 DEF Address
<1> QED
  BY <1>1, <1>2, <1>3, <1>4, <1>5

LEMMA AddressType ==
    ASSUME job \in Jobs, NEW b \in Nat
    PROVE  Address(b) \in Nat
<1>1. Chunk \in Nat /\ Start \in Nat
  BY Sizes
<1>2. b * Chunk \in Nat
  BY <1>1
<1> QED
  BY <1>1, <1>2 DEF Address

LEMMA DescriptorsAddress ==
    ASSUME job \in Jobs
    PROVE  Address(Descriptors) = Chunk
BY DEF Address

\* What a sector should hold is a number, and not nothing.
LEMMA ContentType ==
    ASSUME job \in Jobs, NEW b \in Nat, NEW i \in Nat
    PROVE  Content(b, i) \in Int /\ Content(b, i) # 0
<1>1. Chunk \in Nat
  BY Sizes
<1>2. b * Chunk \in Nat
  BY <1>1
<1> QED
  BY <1>1, <1>2 DEF Content

\* How much of a block is written.
LEMMA TruncatedType ==
    ASSUME job \in Jobs, NEW a \in Nat, NEW n \in Nat, job.dao => a <= Start + job.length
    PROVE  /\ Truncated(a, n) \in Nat /\ Truncated(a, n) <= n
           /\ job.dao => a + Truncated(a, n) <= Start + job.length
           /\ ~job.dao => Truncated(a, n) = n
           /\ job.dao => a + Truncated(a, n) = IF a + n > Start + job.length THEN Start + job.length ELSE a + n
<1>1. Start \in Nat /\ job.length \in Nat
  BY Sizes
<1>2. Start + job.length # 0
  <2>1. Chunks \in Nat /\ Chunks > 0 /\ Chunk \in Nat /\ Chunk > 0 /\ job.length > (Chunks - 1) * Chunk
    BY Sizes, JobType
  <2>2. (Chunks - 1) * Chunk >= 0
    BY <2>1
  <2> QED
    BY <1>1, <2>1, <2>2
<1> QED
  BY <1>1, <1>2 DEF Truncated, DaoBlocks

------------------------------------------------------------------------------
(* Types                                                                   *)

LEMMA InitTypes == Init => Types /\ Flags
<1> SUFFICES ASSUME Init PROVE Types /\ Flags
  OBVIOUS
<1>1. Start \in Nat
  BY Sizes DEF Init
<1>2. disc \in [Sectors -> Int]
  BY DEF Init
<1>3. Types
  BY <1>1, <1>2 DEF Init, Types, Numbers, Labels, PCs, Hows
<1>4. Flags
  BY DEF Init, Flags
<1> QED
  BY <1>3, <1>4

\* What the steps of the handlers leave alone.
LEMMA StepKept ==
    ASSUME StepKeeps
    PROVE  UNCHANGED <<job, disc, nwa, blocked, firstWr, retries, busy, blk, cut, nbl, run, impatient>>
BY DEF StepKeeps, count, place

\* What the preparation and the first part of a write do.
LEMMA SetupEffect ==
    ASSUME Setup
    PROVE  /\ UNCHANGED <<job, disc, nwa, safe, dirty, trackClosed, closed, written, blocked,
                          firstWr, doReload, saved, retries, busy, blk, cut, nbl, todo, run,
                          refused, flushFailed, impatient>>
           /\ pc = "setup"
           /\ \/ /\ pc' = "idle" /\ (nextWr' = 0 \/ (WriteOnce /\ nextWr' = nwa))
                 /\ (quickgrown' = TRUE \/ quickgrown' = FALSE)
                 /\ (job.kind # "-RW" => quickgrown' = FALSE)
                 /\ errno' = errno /\ status' = status /\ how' = how
              \/ /\ pc' = "end" /\ status' = 128 + EIO /\ how' = "start" /\ errno' = EIO
                 /\ nextWr' = nextWr /\ quickgrown' = quickgrown
<1>1. SetupDone => /\ nextWr' = 0 \/ (WriteOnce /\ nextWr' = nwa)
                   /\ quickgrown' = TRUE \/ quickgrown' = FALSE
                   /\ job.kind # "-RW" => quickgrown' = FALSE
  BY Zenon DEF SetupDone, NextWritable
<1> QED
  BY <1>1, Zenon DEF Setup, SetupDone, SetupFails, unit, count, place

\* What has been written before is skipped; only at the next writable address
\* is a block cut off.
LEMMA PwriteEffect ==
    ASSUME Pwrite
    PROVE  /\ UNCHANGED <<job, disc, nwa, safe, dirty, trackClosed, closed, written, nextWr,
                          quickgrown, doReload, errno, saved, busy, todo, status, how, run,
                          refused, flushFailed, impatient>>
           /\ pc = "idle" /\ NextBlock
           /\ \/ /\ Skips /\ pc' = pc /\ blk' = blk + 1 /\ cut' = cut /\ nbl' = nbl
                 /\ blocked' = blocked /\ firstWr' = firstWr /\ retries' = retries
              \/ /\ ~Skips /\ pc' = "write" /\ blk' = blk /\ cut' = CutAt /\ retries' = 0
                 /\ nbl' = Truncated(Address(blk) + CutAt, Chunk - CutAt)
                 /\ HoldSignals(Address(blk) + CutAt)
BY Zenon DEF Pwrite, unit, count, history

\* The job is never another one; the disc is written to by one command, and what
\* was in the cache is lost with the power.
LEMMA Kept ==
    ASSUME [Next]_vars
    PROVE  /\ job' = job
           /\ disc' = disc \/ WriteOk \/ Crash
<1> USE DEF unit, mode, count, place, history
<1>1. CASE Setup \/ Pwrite
  BY <1>1 DEF Setup, Pwrite
<1>2. CASE WriteOk \/ Crash
  BY <1>2 DEF WriteOk, Crash
<1>3. CASE LongWrite \/ BecomingReady \/ Busy \/ SyncCache
  BY <1>3 DEF LongWrite, BecomingReady, Busy, SyncCache
<1>4. CASE WriteFails \/ Account
  BY <1>4 DEF WriteFails, Account
<1>5. CASE Main
  BY <1>5 DEF Main, InputFails, Done, Relocate, RelocateFlush, ReadBack, LeavesMain
<1>6. CASE Handler
  BY <1>6 DEF Handler, Enter, FlushStep, PrintedStep, CloseStep, WaitStep, StopStep, ReloadStep, StepKeeps
<1>7. CASE Interrupt \/ Resume \/ UNCHANGED vars
  BY <1>7 DEF Interrupt, Resume, vars
<1> QED
  BY <1>1, <1>2, <1>3, <1>4, <1>5, <1>6, <1>7 DEF Next, Program, Write

\* A block is cut off at the next writable address only, and not beyond its end.
LEMMA CutBounds ==
    ASSUME Types, Where, Track, pc = "idle", NextBlock, ~Skips
    PROVE  /\ Address(blk) \in Nat /\ CutAt \in Nat /\ CutAt < Chunk
           /\ CutAt # 0 => /\ Address(blk) + CutAt = nwa /\ ~written /\ WriteOnce
                           /\ blk \in 0 .. Chunks - 1
           /\ Address(blk) + CutAt \in Nat /\ Chunk - CutAt \in Nat
           /\ job.dao => Address(blk) + CutAt <= Start + job.length
           /\ Truncated(Address(blk) + CutAt, Chunk - CutAt) \in Nat
           /\ Truncated(Address(blk) + CutAt, Chunk - CutAt) <= Chunk - CutAt
<1>1. /\ Chunk \in Nat /\ Chunk > 0 /\ Start \in Nat /\ job.length \in Nat /\ Chunks \in Nat
      /\ Descriptors = Chunks + 1 /\ (Relocates => Start >= 2 * Chunk)
  BY Sizes DEF Types
<1>2. nwa \in Nat /\ nextWr \in Nat /\ blk \in Nat /\ Address(blk) \in Nat
  BY AddressType DEF Types, Numbers
<1>3. ~written => nextWr = 0 \/ (WriteOnce /\ nextWr = nwa /\ (Relocates => blk = 0 /\ nwa = Start))
  BY Zenon DEF Track
<1>4. CutAt \in Nat /\ CutAt < Chunk
  BY <1>1, <1>2 DEF CutAt, Skips
<1>5. CutAt # 0 => ~written /\ Address(blk) + CutAt = nextWr /\ nextWr # 0
  BY <1>1, <1>2 DEF CutAt
<1>6. blk = Descriptors => Relocates
  BY <1>1, <1>2 DEF Where
<1>7. CutAt # 0 => blk \in 0 .. Chunks - 1
  <2>1. blk = Descriptors => CutAt = 0
    BY <1>1, <1>2, <1>3, <1>5, <1>6
  <2> QED
    BY <1>1, <2>1 DEF NextBlock
<1>8. job.dao => Address(blk) + CutAt <= Start + job.length
  <2>1. CASE CutAt # 0
    BY <1>3, <1>5, <2>1 DEF Track
  <2>2. CASE CutAt = 0 /\ blk # Descriptors
    BY <1>1, <1>2, <2>2, BlockBounds DEF NextBlock, Types
  <2>3. CASE blk = Descriptors
    BY <1>1, <1>2, <1>3, <1>5, <1>6, <2>3, DescriptorsAddress DEF Types
  <2> QED
    BY <2>1, <2>2, <2>3
<1>9. Address(blk) + CutAt \in Nat /\ Chunk - CutAt \in Nat
  BY <1>1, <1>2, <1>4
<1> QED
  BY <1>2, <1>3, <1>4, <1>5, <1>7, <1>8, <1>9, TruncatedType DEF Types

LEMMA StepDisc == Types /\ [Next]_vars => job' \in Jobs /\ disc' \in [Sectors' -> Int]
<1> SUFFICES ASSUME Types, [Next]_vars PROVE job' \in Jobs /\ disc' \in [Sectors' -> Int]
  OBVIOUS
<1>1. job' = job /\ Sectors' = Sectors
  BY Kept DEF Sectors
<1>2. job \in Jobs /\ disc \in [Sectors -> Int] /\ lba \in Nat /\ blk \in Nat /\ cut \in Nat
  BY AddressType DEF Types, Numbers, lba
<1>3. CASE WriteOk
  <2>1. ASSUME NEW a \in lba .. lba + nbl - 1 PROVE Buffer(a) \in Int
    <3>1. cut + a - lba \in Nat
      BY <1>2, <2>1
    <3> QED
      BY <1>2, <3>1, ContentType DEF Buffer
  <2>2. disc' = [a \in Sectors |-> IF a \in lba .. lba + nbl - 1 THEN Buffer(a) ELSE disc[a]]
    BY <1>3 DEF WriteOk
  <2> QED
    BY <1>1, <1>2, <2>1, <2>2
<1>4. CASE Crash
  <2>1. disc' = [a \in Sectors |-> IF a >= nwa' THEN 0 ELSE disc[a]]
    BY <1>4 DEF Crash
  <2> QED
    BY <1>1, <1>2, <2>1
<1> QED
  BY <1>1, <1>2, <1>3, <1>4, Kept

LEMMA StepNumbers == Types /\ Track /\ Where /\ [Next]_vars => Numbers'
<1> SUFFICES ASSUME Types, Track, Where, [Next]_vars PROVE Numbers'
  OBVIOUS
<1> USE DEF unit, mode, count, place, history
<1>s. job \in Jobs /\ Chunk \in Nat /\ Start \in Nat /\ Descriptors \in Nat
  BY Sizes DEF Types
<1>n. Numbers
  BY DEF Types
<1>1. CASE Setup
  <2>1. nextWr' = 0 \/ nextWr' = nwa \/ nextWr' = nextWr
    BY <1>1, SetupEffect, Zenon
  <2>2. UNCHANGED <<nwa, safe, firstWr, cut, nbl, blk, retries, busy, run>>
    BY <1>1, SetupEffect, Zenon
  <2> QED
    BY <1>n, <2>1, <2>2 DEF Numbers
<1>2. CASE Pwrite
  <2>1. CASE Skips
    BY <1>2, <1>n, <2>1, PwriteEffect DEF Numbers
  <2>2. CASE ~Skips
    <3>1. /\ Address(blk) + CutAt \in Nat /\ Chunk - CutAt \in Nat /\ CutAt \in Nat
          /\ Truncated(Address(blk) + CutAt, Chunk - CutAt) \in Nat
      BY <1>2, <2>2, CutBounds, PwriteEffect
    <3>2. firstWr' = Address(blk) + CutAt \/ firstWr' = firstWr
      BY <1>2, <2>2, PwriteEffect, Zenon DEF HoldSignals
    <3> QED
      BY <1>2, <1>n, <2>2, <3>1, <3>2, PwriteEffect DEF Numbers
  <2> QED
    BY <2>1, <2>2
<1>3. CASE WriteOk
  <2>1. lba \in Nat
    BY <1>s, <1>n, AddressType DEF lba, Numbers
  <2> QED
    BY <1>3, <1>n, <2>1 DEF WriteOk, Numbers
<1>4. CASE LongWrite \/ Busy
  BY <1>4, <1>n DEF LongWrite, Busy, Postponed, Numbers
<1>5. CASE BecomingReady
  BY <1>5, <1>n DEF BecomingReady, Postponed, Numbers
<1>7. CASE SyncCache
  BY <1>7, <1>n DEF SyncCache, Numbers
<1>8. CASE WriteFails
  BY <1>8, <1>n DEF WriteFails, Numbers
<1>9. CASE Account
  <2>1. lba \in Nat
    BY <1>s, <1>n, AddressType DEF lba, Numbers
  <2> QED
    BY <1>9, <1>n, <2>1 DEF Account, Numbers
<1>10. CASE InputFails \/ Done \/ Relocate
  BY <1>10, <1>n DEF InputFails, Done, Relocate, LeavesMain, Numbers
<1>12. CASE RelocateFlush
  BY <1>12, <1>n DEF RelocateFlush, LeavesMain, Numbers
<1>13. CASE ReadBack
  BY <1>13, <1>s, <1>n DEF ReadBack, LeavesMain, Numbers
<1>14. CASE Enter \/ Interrupt
  BY <1>14, <1>n DEF Enter, Interrupt, Numbers
<1>16. CASE FlushStep
  BY <1>16, <1>n DEF FlushStep, StepKeeps, Numbers
<1>17. CASE PrintedStep \/ CloseStep \/ WaitStep \/ StopStep
  BY <1>17, <1>n DEF PrintedStep, CloseStep, WaitStep, StopStep, StepKeeps, Numbers
<1>21. CASE ReloadStep
  BY <1>21, <1>n DEF ReloadStep, StepKeeps, Numbers
<1>22. CASE Crash
  BY <1>22, <1>n DEF Crash, Numbers
<1>23. CASE Resume
  BY <1>23, <1>n DEF Resume, Numbers
<1>24. CASE UNCHANGED vars
  BY <1>24, <1>n DEF vars, Numbers
<1> QED
  BY <1>1, <1>2, <1>3, <1>4, <1>5, <1>7, <1>8, <1>9, <1>10, <1>12, <1>13, <1>14, <1>16,
     <1>17, <1>21, <1>22, <1>23, <1>24 DEF Next, Program, Write, Main, Handler

LEMMA StepLabels == Labels /\ [Next]_vars => Labels'
<1> SUFFICES ASSUME Labels, [Next]_vars PROVE Labels'
  OBVIOUS
<1> USE DEF unit, mode, count, place, history
<1>1. CASE Setup
  <2>1. \/ pc' = "idle" /\ errno' = errno /\ status' = status /\ how' = how
        \/ pc' = "end" /\ status' = 128 + EIO /\ how' = "start" /\ errno' = EIO
    BY <1>1, SetupEffect, Zenon
  <2>2. saved' = saved
    BY <1>1, SetupEffect, Zenon
  <2> QED
    BY <2>1, <2>2 DEF Labels, PCs, Hows
<1>2. CASE Pwrite
  BY <1>2, PwriteEffect DEF Labels, PCs, Hows
<1>3. CASE WriteOk \/ LongWrite \/ Busy
  BY <1>3 DEF WriteOk, LongWrite, Busy, Postponed, Labels, PCs, Hows
<1>5. CASE BecomingReady
  BY <1>5 DEF BecomingReady, Postponed, Labels, PCs, Hows
<1>7. CASE SyncCache
  BY <1>7 DEF SyncCache, Labels, PCs, Hows
<1>8. CASE WriteFails
  BY <1>8 DEF WriteFails, Labels, PCs, Hows
<1>9. CASE Account
  BY <1>9 DEF Account, Labels, PCs, Hows
<1>10. CASE InputFails \/ Done
  BY <1>10 DEF InputFails, Done, LeavesMain, Labels, PCs, Hows
<1>11. CASE Relocate
  BY <1>11 DEF Relocate, Labels, PCs, Hows
<1>12. CASE RelocateFlush \/ ReadBack
  BY <1>12 DEF RelocateFlush, ReadBack, LeavesMain, Labels, PCs, Hows
<1>14. CASE Enter \/ Interrupt
  BY <1>14 DEF Enter, Interrupt, Labels, PCs, Hows
<1>16. CASE FlushStep
  BY <1>16 DEF FlushStep, StepKeeps, NextStep, Leave, Labels, PCs, Hows
<1>17. CASE PrintedStep \/ CloseStep
  BY <1>17 DEF PrintedStep, CloseStep, CloseError, StepKeeps, NextStep, Leave, Labels, PCs, Hows
<1>19. CASE WaitStep \/ StopStep
  BY <1>19 DEF WaitStep, StopStep, StepKeeps, NextStep, Leave, Labels, PCs, Hows
<1>21. CASE ReloadStep
  BY <1>21 DEF ReloadStep, StepKeeps, Leave, Labels, PCs, Hows
<1>22. CASE Crash \/ Resume \/ UNCHANGED vars
  BY <1>22 DEF Crash, Resume, vars, Labels, PCs, Hows
<1> QED
  BY <1>1, <1>2, <1>3, <1>5, <1>7, <1>8, <1>9, <1>10, <1>11, <1>12, <1>14, <1>16,
     <1>17, <1>19, <1>21, <1>22 DEF Next, Program, Write, Main, Handler

\* The flags are flags.
LEMMA StepFlags == Flags /\ [Next]_vars => Flags'
<1> SUFFICES ASSUME Flags, [Next]_vars PROVE Flags'
  OBVIOUS
<1> USE DEF unit, mode, count, place, history
<1>1. CASE Setup
  <2>1. quickgrown' \in BOOLEAN
    BY <1>1, SetupEffect, Zenon DEF Flags
  <2>2. UNCHANGED <<dirty, trackClosed, closed, written, blocked, doReload, refused, flushFailed, impatient>>
    BY <1>1, SetupEffect, Zenon
  <2> QED
    BY <2>1, <2>2 DEF Flags
<1>2. CASE Pwrite
  <2>1. blocked' \in BOOLEAN
    BY <1>2, PwriteEffect, Zenon DEF HoldSignals, Flags
  <2> QED
    BY <1>2, <2>1, PwriteEffect DEF Flags
<1>3. CASE WriteOk
  BY <1>3 DEF WriteOk, Flags
<1>4. CASE LongWrite \/ Busy
  BY <1>4 DEF LongWrite, Busy, Postponed, Flags
<1>5. CASE BecomingReady
  BY <1>5 DEF BecomingReady, Postponed, Flags
<1>7. CASE SyncCache
  BY <1>7 DEF SyncCache, Flags
<1>8. CASE WriteFails
  BY <1>8 DEF WriteFails, Flags
<1>9. CASE Account
  BY <1>9 DEF Account, Flags
<1>10. CASE InputFails \/ Done
  BY <1>10 DEF InputFails, Done, LeavesMain, Flags
<1>11. CASE Relocate
  BY <1>11 DEF Relocate, Flags
<1>12. CASE RelocateFlush
  <2>1. UNCHANGED <<blocked, quickgrown, flushFailed, impatient>>
    BY <1>12 DEF RelocateFlush, LeavesMain
  <2>2. UNCHANGED <<trackClosed, closed, written, doReload>>
    BY <1>12 DEF RelocateFlush
  <2>3. dirty' \in {dirty, FALSE} /\ refused' \in {refused, TRUE}
    BY <1>12 DEF RelocateFlush
  <2> QED
    BY <2>1, <2>2, <2>3 DEF Flags
<1>13. CASE ReadBack
  BY <1>13 DEF ReadBack, LeavesMain, Flags
<1>14. CASE Enter
  BY <1>14 DEF Enter, Flags
<1>15. CASE Interrupt
  BY <1>15 DEF Interrupt, Flags
<1>16. CASE FlushStep
  BY <1>16 DEF FlushStep, StepKeeps, NextStep, Leave, Flags
<1>17. CASE PrintedStep
  BY <1>17 DEF PrintedStep, StepKeeps, NextStep, Flags
<1>18. CASE CloseStep
  BY <1>18 DEF CloseStep, CloseError, StepKeeps, NextStep, Flags
<1>19. CASE WaitStep
  BY <1>19 DEF WaitStep, StepKeeps, NextStep, Flags
<1>20. CASE StopStep
  BY <1>20 DEF StopStep, StepKeeps, Leave, Flags
<1>21. CASE ReloadStep
  BY <1>21 DEF ReloadStep, StepKeeps, Leave, Flags
<1>22. CASE Crash
  BY <1>22 DEF Crash, Flags
<1>23. CASE Resume
  BY <1>23 DEF Resume, Flags
<1>24. CASE UNCHANGED vars
  BY <1>24 DEF vars, Flags
<1> QED
  BY <1>1, <1>2, <1>3, <1>4, <1>5, <1>7, <1>8, <1>9, <1>10, <1>11, <1>12, <1>13, <1>14,
     <1>15, <1>16, <1>17, <1>18, <1>19, <1>20, <1>21, <1>22, <1>23, <1>24
     DEF Next, Program, Write, Main, Handler

------------------------------------------------------------------------------
(* Where the program is                                                    *)

\* What depends on the disc and the image only does not change.
LEMMA JobKept ==
    ASSUME job' = job
    PROVE  /\ WriteOnce' = WriteOnce /\ Relocates' = Relocates /\ Start' = Start
           /\ Descriptors' = Descriptors /\ Sectors' = Sectors /\ IsDao' = IsDao
           /\ \A b : Address(b)' = Address(b)
           /\ \A a : Meant(a)' = Meant(a)
           /\ \A a, n : Truncated(a, n)' = Truncated(a, n)
BY DEF WriteOnce, Relocates, Rewritable, Start, Descriptors, Sectors, IsDao, Address, Meant, Content,
       Truncated, DaoBlocks

LEMMA StepWhere == Types /\ Flags /\ Where /\ Block /\ Cache /\ [Next]_vars => Where'
<1> SUFFICES ASSUME Types, Flags, Where, Block, Cache, [Next]_vars PROVE Where'
  OBVIOUS
<1> USE DEF unit, mode, count, place, history
<1>s. Chunks \in Nat /\ Descriptors = Chunks + 1 /\ blk \in Nat /\ Descriptors' = Descriptors
  BY Sizes, Kept, JobKept DEF Types, Numbers
<1>j. job' = job /\ Relocates' = Relocates
  BY Kept, JobKept
<1>1. CASE Setup
  <2>1. UNCHANGED <<dirty, written, nwa, blk, nbl, doReload>> /\ pc = "setup"
    BY <1>1, SetupEffect, Zenon
  <2>2. (pc' = "idle" /\ how' = how) \/ (pc' = "end" /\ how' = "start")
    BY <1>1, SetupEffect, Zenon
  <2> QED
    BY <1>j, <1>s, <2>1, <2>2 DEF Where
<1>2. CASE Pwrite
  <2>1. UNCHANGED <<how, doReload>> /\ pc = "idle" /\ NextBlock
    BY <1>2, PwriteEffect, Zenon
  <2>2. (pc' = "idle" /\ blk' = blk + 1 /\ Skips) \/ (pc' = "write" /\ blk' = blk)
    BY <1>2, PwriteEffect, Zenon
  <2> QED
    BY <1>j, <1>s, <2>1, <2>2 DEF Where, NextBlock
<1>3. CASE WriteOk \/ LongWrite \/ Busy
  BY <1>3, <1>j, <1>s DEF WriteOk, LongWrite, Busy, Postponed, Where
<1>5. CASE BecomingReady \/ SyncCache
  BY <1>5, <1>j, <1>s DEF BecomingReady, SyncCache, Postponed, Where
<1>8. CASE WriteFails
  BY <1>8, <1>j, <1>s DEF WriteFails, Where
<1>9. CASE Account
  <2>1. NextBlock /\ pc = "wrote"
    BY <1>9 DEF Account, Block, Writing
  <2> QED
    BY <1>9, <1>j, <1>s, <2>1 DEF Account, Where, NextBlock
<1>10. CASE InputFails \/ Done
  BY <1>10, <1>j, <1>s DEF InputFails, Done, LeavesMain, Where
<1>11. CASE Relocate
  BY <1>11, <1>j, <1>s DEF Relocate, Where
<1>12. CASE RelocateFlush
  BY <1>12, <1>j, <1>s DEF RelocateFlush, LeavesMain, Where
<1>13. CASE ReadBack
  BY <1>13, <1>j, <1>s DEF ReadBack, LeavesMain, Where
<1>14. CASE Enter
  BY <1>14, <1>j, <1>s DEF Enter, Where
<1>15. CASE Interrupt
  BY <1>15, <1>j, <1>s DEF Interrupt, Where
<1>16. CASE FlushStep
  BY <1>16, <1>j, <1>s DEF FlushStep, StepKeeps, Step, NextStep, Leave, Where
<1>17. CASE PrintedStep \/ CloseStep
  BY <1>17, <1>j, <1>s DEF PrintedStep, CloseStep, StepKeeps, Step, NextStep, Where
<1>19. CASE WaitStep \/ StopStep
  BY <1>19, <1>j, <1>s DEF WaitStep, StopStep, StepKeeps, Step, NextStep, Leave, Where
<1>21. CASE ReloadStep
  BY <1>21, <1>j, <1>s DEF ReloadStep, StepKeeps, Step, Leave, Where
<1>22. CASE Crash
  <2>1. doReload
    BY <1>22 DEF Crash, WriteOnce, Where
  <2>2. UNCHANGED <<doReload, blk>> /\ pc' = "end" /\ how' = "crash" /\ pc # "setup"
    BY <1>22, Zenon DEF Crash
  <2> QED
    BY <1>j, <1>s, <2>1, <2>2 DEF Where
<1>23. CASE Resume
  <2>1. ~dirty /\ dirty' = dirty /\ ~Relocates
    BY <1>23, Zenon DEF Resume, Cache
  <2>2. pc' = "setup" /\ how' = "none" /\ ~written' /\ doReload' /\ blk' = 0 /\ nbl' = 0
    BY <1>23, Zenon DEF Resume
  <2> QED
    BY <1>j, <1>s, <2>1, <2>2 DEF Where
<1>24. CASE UNCHANGED vars
  <2>1. UNCHANGED <<how, pc, blk, nbl, dirty, written, nwa, doReload, job>>
    BY <1>24, Zenon DEF vars
  <2> QED
    BY <1>j, <1>s, <2>1, JobKept DEF Where
<1> QED
  BY <1>1, <1>2, <1>3, <1>5, <1>8, <1>9, <1>10, <1>11, <1>12, <1>13, <1>14, <1>15, <1>16,
     <1>17, <1>19, <1>21, <1>22, <1>23, <1>24 DEF Next, Program, Write, Main, Handler

\* Which steps choose a block, get a block written, move on, and end the recording.
LEMMA Moves ==
    ASSUME [Next]_vars
    PROVE  /\ nwa' = nwa \/ WriteOk \/ Crash
           /\ (cut' = cut /\ nbl' = nbl) \/ Pwrite \/ Resume
           /\ blk' = blk \/ Pwrite \/ Account \/ ReadBack \/ Resume
           /\ pc' \in Writing => Pwrite \/ pc \in Writing
           /\ pc' = "wrote" => WriteOk \/ pc = "wrote"
           /\ how = "crash" => how' = "crash" \/ Resume \/ pc # "end"
           /\ how' = "done" => Done \/ how = "done"
           /\ safe' = safe \/ safe' = nwa' \/ Crash
           /\ pc' \in {"idle", "flush", "read"} =>
                 \/ Setup \/ Pwrite \/ Account \/ Relocate \/ RelocateFlush \/ ReadBack \/ ReloadStep
                 \/ pc' = pc /\ written' = written /\ nextWr' = nextWr /\ nwa' = nwa /\ blk' = blk
<1> USE DEF unit, mode, count, place, history, Writing
<1>1. CASE Setup
  BY <1>1, SetupEffect
<1>2. CASE Pwrite
  BY <1>2, PwriteEffect
<1>3. CASE WriteOk
  BY <1>3 DEF WriteOk
<1>4. CASE LongWrite \/ BecomingReady
  BY <1>4 DEF LongWrite, BecomingReady, Postponed
<1>5. CASE Busy \/ SyncCache
  BY <1>5 DEF Busy, SyncCache, Postponed
<1>6. CASE WriteFails \/ Account
  BY <1>6 DEF WriteFails, Account
<1>7. CASE InputFails \/ Done
  BY <1>7 DEF InputFails, Done, LeavesMain
<1>8. CASE Relocate
  BY <1>8 DEF Relocate
<1>9. CASE RelocateFlush \/ ReadBack
  BY <1>9 DEF RelocateFlush, ReadBack, LeavesMain
<1>10. CASE Enter \/ Interrupt
  BY <1>10 DEF Enter, Interrupt
<1>11. CASE FlushStep \/ PrintedStep
  BY <1>11 DEF FlushStep, PrintedStep, StepKeeps, NextStep, Leave, Step
<1>12. CASE CloseStep \/ WaitStep
  BY <1>12 DEF CloseStep, WaitStep, StepKeeps, NextStep, Leave, Step
<1>13. CASE StopStep \/ ReloadStep
  BY <1>13 DEF StopStep, ReloadStep, StepKeeps, NextStep, Leave, Step
<1>14. CASE Crash \/ Resume
  BY <1>14 DEF Crash, Resume
<1>15. CASE UNCHANGED vars
  BY <1>15 DEF vars
<1> QED
  BY <1>1, <1>2, <1>3, <1>4, <1>5, <1>6, <1>7, <1>8, <1>9, <1>10, <1>11, <1>12, <1>13, <1>14, <1>15
  DEF Next, Program, Write, Main, Handler

\* The block being written.
LEMMA StepBlock == Types /\ Flags /\ Where /\ Track /\ Block /\ [Next]_vars => Block'
<1> SUFFICES ASSUME Types, Flags, Where, Track, Block, [Next]_vars, pc' \in Writing
             PROVE /\ NextBlock' /\ cut' + nbl' <= Chunk
                   /\ cut' = 0 => nbl' = Truncated(Address(blk'), Chunk)
                   /\ blk' = Descriptors => cut' = 0
                   /\ job.dao => Address(blk') + cut' + nbl' <= Start + job.length
  BY Kept, JobKept DEF Block, lba, Address, Truncated, Start, DaoBlocks, Descriptors
<1>s. /\ Chunk \in Nat /\ Chunk > 0 /\ Chunks \in Nat /\ Start \in Nat /\ job.length \in Nat
      /\ Descriptors = Chunks + 1 /\ Descriptors' = Descriptors
  BY Sizes, Kept, JobKept DEF Types
<1>1. CASE Pwrite
  <2>1. /\ pc = "idle" /\ NextBlock /\ ~Skips /\ blk' = blk /\ cut' = CutAt
        /\ nbl' = Truncated(Address(blk) + CutAt, Chunk - CutAt)
    <3>1. pc' # "idle"
      BY DEF Writing
    <3> QED
      BY <1>1, <3>1, PwriteEffect, Zenon
  <2> DEFINE first == Address(blk) + CutAt
             rest == Chunk - CutAt
  <2>2. /\ Address(blk) \in Nat /\ CutAt \in Nat /\ CutAt < Chunk /\ first \in Nat /\ rest \in Nat
        /\ CutAt # 0 => blk \in 0 .. Chunks - 1
        /\ Truncated(first, rest) \in Nat /\ Truncated(first, rest) <= rest
        /\ job.dao => first <= Start + job.length
    BY <2>1, CutBounds
  <2>3. job.dao => first + Truncated(first, rest) <= Start + job.length
    BY <2>2, TruncatedType DEF Types
  <2>4. NextBlock'
    BY <1>s, <2>1 DEF NextBlock
  <2>5. cut' + nbl' <= Chunk
    BY <1>s, <2>1, <2>2
  <2>6. ASSUME cut' = 0 PROVE nbl' = Truncated(Address(blk'), Chunk)
    <3>1. first = Address(blk) /\ rest = Chunk
      BY <1>s, <2>1, <2>2, <2>6
    <3> QED
      BY <2>1, <3>1
  <2>7. blk' = Descriptors => cut' = 0
    BY <1>s, <2>1, <2>2
  <2>8. ASSUME job.dao PROVE Address(blk') + cut' + nbl' <= Start + job.length
    BY <2>1, <2>3, <2>8
  <2> QED
    BY <2>4, <2>5, <2>6, <2>7, <2>8
<1>2. CASE pc \in Writing /\ ~Pwrite
  <2>1. ~Resume
    BY <1>2 DEF Resume, Writing
  <2>2. ~Account /\ ~ReadBack
    BY DEF Account, ReadBack, LeavesMain, Writing
  <2>3. cut' = cut /\ nbl' = nbl /\ blk' = blk
    BY <1>2, <2>1, <2>2, Moves
  <2>4. NextBlock'
    BY <1>2, <1>s, <2>3 DEF NextBlock, Block
  <2> QED
    BY <1>2, <2>3, <2>4 DEF Block, lba
<1> QED
  BY <1>1, <1>2, Moves

LEMMA StepTrack == Types /\ Flags /\ Where /\ Track /\ Block /\ [Next]_vars => Track'
<1> SUFFICES ASSUME Types, Flags, Where, Track, Block, [Next]_vars
             PROVE /\ Start <= safe' /\ safe' <= nwa' /\ nwa' <= Start + Chunks * Chunk
                   /\ job.dao => nwa' <= Start + job.length
                   /\ pc' \in {"idle", "flush", "read"} /\ ~written' =>
                         nextWr' = 0 \/ (WriteOnce /\ nextWr' = nwa' /\ (Relocates => blk' = 0 /\ nwa' = Start))
  BY Kept, JobKept DEF Track
<1>s. /\ Chunk \in Nat /\ Chunk > 0 /\ Chunks \in Nat /\ Start \in Nat /\ job.length \in Nat
      /\ Chunks * Chunk \in Nat /\ Descriptors = Chunks + 1 /\ (Relocates => Start >= 2 * Chunk)
  BY Sizes DEF Types
<1>n. nwa \in Nat /\ safe \in Nat /\ nextWr \in Nat /\ blk \in Nat /\ cut \in Nat /\ nbl \in Nat
  BY DEF Types, Numbers
<1>t. /\ Start <= safe /\ safe <= nwa /\ nwa <= Start + Chunks * Chunk
      /\ job.dao => nwa <= Start + job.length
  BY DEF Track
<1>1. /\ Start <= safe' /\ safe' <= nwa' /\ nwa' <= Start + Chunks * Chunk
      /\ job.dao => nwa' <= Start + job.length
  <2>1. CASE WriteOk
    <3>1. safe' = safe /\ (nwa' = nwa \/ (lba = nwa /\ nwa' = lba + nbl)) /\ pc = "write"
      BY <2>1, Zenon DEF WriteOk
    <3>2. /\ NextBlock /\ cut + nbl <= Chunk /\ (job.dao => lba + nbl <= Start + job.length)
          /\ blk = Descriptors => cut = 0
      BY <3>1 DEF Block, Writing
    <3>3. lba = nwa => blk # Descriptors
      <4>1. blk = Descriptors => lba = Chunk /\ Relocates
        BY <1>s, <1>n, <3>2, DescriptorsAddress DEF lba, Types, Where
      <4> QED
        BY <1>s, <1>n, <1>t, <4>1
    <3>4. lba = nwa => lba + nbl <= Start + Chunks * Chunk
      <4>1. blk # Descriptors => Address(blk) \in Nat /\ Address(blk) + Chunk <= Start + Chunks * Chunk
        BY <3>2, BlockBounds DEF NextBlock, Types
      <4> QED
        BY <1>s, <1>n, <3>2, <3>3, <4>1 DEF lba
    <3>5. lba = nwa => nwa + nbl >= nwa
      BY <1>n
    <3> QED
      BY <1>s, <1>n, <1>t, <3>1, <3>2, <3>4, <3>5
  <2>2. CASE Crash
    <3>1. nwa' \in safe .. nwa /\ safe' = nwa'
      BY <2>2, Zenon DEF Crash
    <3> QED
      BY <1>s, <1>n, <1>t, <3>1
  <2>3. CASE nwa' = nwa /\ ~Crash
    BY <1>s, <1>n, <1>t, <2>3, Moves
  <2> QED
    BY <2>1, <2>2, <2>3, Moves
<1>2. ASSUME pc' \in {"idle", "flush", "read"}, ~written'
      PROVE  nextWr' = 0 \/ (WriteOnce /\ nextWr' = nwa' /\ (Relocates => blk' = 0 /\ nwa' = Start))
  <2>1. ASSUME pc \in {"idle", "flush", "read"}, ~written
        PROVE  nextWr = 0 \/ (WriteOnce /\ nextWr = nwa /\ (Relocates => blk = 0 /\ nwa = Start))
    BY <2>1, Zenon DEF Track
  <2>2. CASE Setup
    <3>1. pc = "setup" /\ nwa' = nwa /\ blk' = blk /\ (nextWr' = 0 \/ (WriteOnce /\ nextWr' = nwa))
      <4>1. pc' # "end"
        BY <1>2
      <4> QED
        BY <2>2, <4>1, SetupEffect, Zenon
    <3> QED
      BY <3>1 DEF Where
  <2>3. CASE Pwrite
    <3>1. /\ pc = "idle" /\ written' = written /\ nextWr' = nextWr /\ nwa' = nwa /\ Skips
      <4>1. pc' # "write"
        BY <1>2
      <4> QED
        BY <2>3, <4>1, PwriteEffect, Zenon
    <3>2. nextWr # 0 /\ Address(blk) + Chunk <= nextWr /\ Address(blk) \in Nat
      BY <1>n, <3>1, AddressType DEF Skips, Types
    <3>3. ~Relocates
      <4>1. Address(0) = Start
        BY <1>s DEF Address
      <4> QED
        BY <1>2, <1>s, <1>n, <2>1, <3>1, <3>2, <4>1
    <3> QED
      BY <1>2, <2>1, <3>1, <3>3
  <2>4. CASE Account
    BY <1>2, <2>4 DEF Account
  <2>5. CASE Relocate
    <3>1. pc = "idle" /\ written' = written /\ nextWr' = nextWr /\ nwa' = nwa /\ blk' = blk
      BY <2>5, Zenon DEF Relocate, unit, place
    <3> QED
      BY <1>2, <2>1, <3>1
  <2>6. CASE RelocateFlush
    BY <1>2, <2>1, <2>6 DEF RelocateFlush, LeavesMain, place
  <2>7. CASE ReadBack
    <3>1. pc = "read" /\ written' = written /\ nextWr' = nextWr
      BY <2>7, Zenon DEF ReadBack
    <3>2. Relocates /\ blk = Chunks /\ Chunks # 0
      BY <1>s, <3>1, SizeAssumption DEF Where
    <3> QED
      BY <1>2, <2>1, <3>1, <3>2
  <2>8. CASE ReloadStep
    <3>1. ~doReload
      BY <1>2, <2>8 DEF ReloadStep, Leave
    <3>2. ~WriteOnce /\ job.kind # "RAM"
      BY <3>1 DEF Where, WriteOnce
    <3> QED
      BY <2>8, <3>2, Zenon DEF ReloadStep
  <2>9. CASE pc' = pc /\ written' = written /\ nextWr' = nextWr /\ nwa' = nwa /\ blk' = blk
    BY <1>2, <2>1, <2>9
  <2> QED
    BY <1>2, <2>2, <2>3, <2>4, <2>5, <2>6, <2>7, <2>8, <2>9, Moves
<1> QED
  BY <1>1, <1>2

------------------------------------------------------------------------------
(* The image                                                               *)

\* A sector of the image is one of a block of it.
LEMMA BlockOf ==
    ASSUME NEW n \in Nat, NEW d \in Nat, d > 0, NEW c \in Nat, n < c * d
    PROVE  \E b \in 0 .. c - 1 : b * d <= n /\ n < b * d + d
<1> DEFINE b == n \div d
<1>1. b \in Int /\ n = d * b + (n % d) /\ n % d >= 0 /\ n % d < d /\ n % d \in Int
  OBVIOUS
<1>2. b * d <= n /\ n < b * d + d
  BY <1>1
<1> HIDE DEF b
<1>3. b >= 0
  BY <1>1, <1>2
<1>4. b < c
  BY <1>1, <1>2
<1>5. b \in 0 .. c - 1
  BY <1>1, <1>3, <1>4
<1> QED
  BY <1>2, <1>5, Zenon

\* What is written belongs where it goes.
LEMMA BufferMeant ==
    ASSUME Types, Where, Block, pc = "write", NEW a \in lba .. lba + nbl - 1
    PROVE  a \in Sectors /\ Buffer(a) = Meant(a) /\ Buffer(a) # 0
<1>s. /\ Chunk \in Nat /\ Chunk > 0 /\ Chunks \in Nat /\ Start \in Nat
      /\ Chunks * Chunk \in Nat /\ Descriptors = Chunks + 1 /\ (Relocates => Start >= 2 * Chunk)
      /\ Sectors = 0 .. (Start + Chunks * Chunk) - 1
  BY Sizes DEF Types
<1>n. blk \in Nat /\ cut \in Nat /\ nbl \in Nat /\ Address(blk) \in Nat
  BY AddressType DEF Types, Numbers
<1>1. NextBlock /\ cut + nbl <= Chunk /\ (blk = Descriptors => cut = 0)
  BY DEF Block, Writing
<1>2. a \in Int /\ Address(blk) + cut <= a /\ a < Address(blk) + Chunk
  BY <1>s, <1>n, <1>1 DEF lba
<1>3. cut + a - lba \in Nat /\ cut + a - lba = a - Address(blk)
  BY <1>n, <1>2 DEF lba
<1>4. Buffer(a) = Content(blk, a - Address(blk)) /\ Buffer(a) # 0
  BY <1>n, <1>3, ContentType DEF Buffer, Types
<1>5. CASE blk = Descriptors
  <2>1. Address(blk) = Chunk /\ Relocates
    BY <1>s, <1>5, DescriptorsAddress DEF Types, Where
  <2>2. a \in Sectors /\ ~(a >= Start)
    BY <1>s, <1>n, <1>2, <2>1
  <2>3. Meant(a) = Content(Descriptors, a - Chunk)
    BY <2>2 DEF Meant
  <2> QED
    BY <1>4, <1>5, <2>1, <2>2, <2>3
<1>6. CASE blk \in 0 .. Chunks - 1
  <2>1. /\ Address(blk) = Start + blk * Chunk /\ blk * Chunk \in Nat
        /\ Address(blk) + Chunk <= Start + Chunks * Chunk
    BY <1>6, BlockBounds DEF Types
  <2>2. a \in Sectors /\ a >= Start
    BY <1>s, <1>n, <1>2, <2>1
  <2>3. Meant(a) = a - Start + 1
    BY <2>2 DEF Meant
  <2>4. Content(blk, a - Address(blk)) = blk * Chunk + (a - Address(blk)) + 1
    BY <1>s, <1>6 DEF Content
  <2> QED
    BY <1>s, <1>n, <1>2, <1>4, <2>1, <2>2, <2>3, <2>4
<1> QED
  BY <1>1, <1>5, <1>6 DEF NextBlock

\* What is in place stays there, except for what is lost with the power.
LEMMA WrittenStays ==
    ASSUME Types, Where, Block, [Next]_vars, ~Crash, NEW a \in Sectors
    PROVE  /\ disc'[a] = disc[a] \/ (WriteOk /\ a \in lba .. lba + nbl - 1 /\ disc'[a] = Meant(a) /\ disc'[a] # 0)
           /\ disc[a] = Meant(a) => disc'[a] = Meant(a)
           /\ WriteOk /\ a \in lba .. lba + nbl - 1 => disc'[a] = Meant(a)
<1>1. CASE WriteOk
  <2>1. disc' = [x \in Sectors |-> IF x \in lba .. lba + nbl - 1 THEN Buffer(x) ELSE disc[x]] /\ pc = "write"
    BY <1>1, Zenon DEF WriteOk
  <2>2. disc'[a] = IF a \in lba .. lba + nbl - 1 THEN Buffer(a) ELSE disc[a]
    BY <2>1, Zenon
  <2>3. a \in lba .. lba + nbl - 1 => Buffer(a) = Meant(a) /\ Buffer(a) # 0
    BY <2>1, BufferMeant
  <2> QED
    BY <1>1, <2>2, <2>3, Zenon
<1>2. CASE ~WriteOk
  BY <1>2, Kept, Zenon
<1> QED
  BY <1>1, <1>2

LEMMA StepImage ==
    Types /\ Where /\ Block /\ Track /\ ImageInPlace /\ [Next]_vars => ImageInPlace'
<1> SUFFICES ASSUME Types, Where, Block, Track, ImageInPlace, [Next]_vars
             PROVE  /\ \A a \in Sectors : disc'[a] \in {0, Meant(a)}
                    /\ WriteOnce => \A a \in Start .. nwa' - 1 : disc'[a] # 0
  BY Kept, JobKept DEF ImageInPlace
<1>s. /\ Chunks \in Nat /\ Chunk \in Nat /\ Chunks * Chunk \in Nat /\ Start \in Nat
      /\ Sectors = 0 .. (Start + Chunks * Chunk) - 1
  BY Sizes DEF Types
<1>n. /\ nwa \in Nat /\ safe \in Nat /\ Start <= safe /\ safe <= nwa /\ nwa <= Start + Chunks * Chunk
      /\ blk \in Nat /\ cut \in Nat /\ nbl \in Nat /\ Address(blk) \in Nat
  BY AddressType DEF Track, Types, Numbers
<1>1. CASE Crash
  <2>1. /\ nwa' \in safe .. nwa /\ WriteOnce
        /\ disc' = [a \in Sectors |-> IF a >= nwa' THEN 0 ELSE disc[a]]
    BY <1>1, Zenon DEF Crash
  <2>2. \A a \in Sectors : disc'[a] = IF a >= nwa' THEN 0 ELSE disc[a]
    BY <2>1, Zenon
  <2>3. \A a \in Sectors : disc'[a] \in {0, Meant(a)}
    BY <2>2, Zenon DEF ImageInPlace
  <2>4. PICK m \in Nat : m = nwa' /\ m <= nwa
    BY <1>n, <2>1
  <2>5. ASSUME NEW a \in Start .. m - 1 PROVE disc'[a] # 0
    <3>0. Start \in Nat /\ nwa \in Nat /\ m <= nwa /\ nwa <= Start + Chunks * Chunk /\ Chunks * Chunk \in Nat
      BY <1>s, <1>n, <2>4
    <3>1. a \in Nat /\ a < m /\ a >= Start
      BY <3>0
    <3>3. a < nwa /\ a < Start + Chunks * Chunk
      BY <3>0, <3>1
    <3>2. a \in Sectors /\ a \in Start .. nwa - 1 /\ ~(a >= m)
      BY <1>s, <3>0, <3>1, <3>3
    <3> QED
      BY <2>1, <2>2, <2>4, <3>2, Zenon DEF ImageInPlace
  <2> QED
    BY <2>3, <2>4, <2>5
<1>2. CASE ~Crash
  <2>1. \A a \in Sectors : disc'[a] \in {0, Meant(a)}
    BY <1>2, WrittenStays, Zenon DEF ImageInPlace
  <2>2. ASSUME WriteOnce, NEW a \in Start .. nwa' - 1 PROVE disc'[a] # 0
    <3>1. nwa' = nwa \/ (WriteOk /\ lba = nwa /\ nwa' = lba + nbl)
      <4>1. WriteOk => nwa' = nwa \/ (lba = nwa /\ nwa' = lba + nbl)
        BY Zenon DEF WriteOk
      <4> QED
        BY <1>2, <4>1, Moves
    <3>2. a \in Start .. nwa - 1 \/ (WriteOk /\ a \in lba .. lba + nbl - 1)
      BY <1>s, <1>n, <2>2, <3>1 DEF lba
    <3>3. CASE WriteOk /\ a \in lba .. lba + nbl - 1
      <4>1. pc = "write"
        BY <3>3 DEF WriteOk
      <4>2. a \in Sectors /\ Meant(a) # 0
        BY <3>3, <4>1, BufferMeant
      <4> QED
        BY <1>2, <3>3, <4>2, WrittenStays
    <3>4. CASE a \in Start .. nwa - 1
      <4>1. a \in Sectors /\ disc[a] # 0
        BY <1>s, <1>n, <2>2, <3>4 DEF ImageInPlace
      <4> QED
        BY <1>2, <4>1, WrittenStays, Zenon
    <3> QED
      BY <3>2, <3>3, <3>4
  <2> QED
    BY <2>1, <2>2
<1> QED
  BY <1>1, <1>2

\* Blocks that are in place stay there.
LEMMA HoldsStays ==
    ASSUME Types, Where, Block, [Next]_vars, ~Crash, NEW a \in Int, NEW c \in Int,
           \A x \in a .. a + c - 1 : x \in Sectors, Holds(disc, a, c)
    PROVE  Holds(disc', a, c)
BY WrittenStays, Zenon DEF Holds

\* What is skipped is there.
LEMMA SkippedHolds ==
    ASSUME Types, Where, Track, ImageInPlace, pc = "idle", NextBlock, Skips
    PROVE  blk \in 0 .. Chunks - 1 /\ Holds(disc, Address(blk), Chunk)
<1>s. /\ Chunk \in Nat /\ Chunk > 0 /\ Chunks \in Nat /\ Start \in Nat /\ Descriptors = Chunks + 1
      /\ Chunks * Chunk \in Nat /\ Sectors = 0 .. (Start + Chunks * Chunk) - 1
  BY Sizes DEF Types
<1>n. blk \in Nat /\ nwa \in Nat /\ nextWr \in Nat /\ nwa <= Start + Chunks * Chunk
  BY DEF Track, Types, Numbers
<1>1. nextWr # 0 /\ ~written
  BY DEF Skips
<1>2. WriteOnce /\ nextWr = nwa /\ (Relocates => blk = 0 /\ nwa = Start)
  BY <1>1 DEF Track
<1>3. Address(blk) + Chunk <= nwa /\ Address(blk) \in Nat
  BY <1>2, AddressType DEF Skips, Types, Numbers
<1>4. blk # Descriptors
  BY <1>s, <1>n, <1>2 DEF Where
<1>5. blk \in 0 .. Chunks - 1
  BY <1>4 DEF NextBlock
<1>6. Address(blk) >= Start
  BY <1>s, <1>5, BlockBounds DEF Types
<1>7. ASSUME NEW x \in Address(blk) .. Address(blk) + Chunk - 1 PROVE disc[x] = Meant(x)
  <2>1. x \in Sectors /\ x \in Start .. nwa - 1
    BY <1>s, <1>n, <1>3, <1>6, <1>7
  <2> QED
    BY <1>2, <2>1, Zenon DEF ImageInPlace
<1> QED
  BY <1>5, <1>7, Zenon DEF Holds

\* A block that was not cut off is in place when it was written.
LEMMA WrittenHolds ==
    ASSUME Types, Where, Block, WriteOk, cut = 0
    PROVE  Holds(disc', Address(blk), Chunk)
<1>s. Chunk \in Nat /\ Start \in Nat /\ job.length \in Nat
  BY Sizes DEF Types
<1>n. blk \in Nat /\ nbl \in Nat /\ Address(blk) \in Nat
  BY AddressType DEF Types, Numbers
<1>1. pc = "write" /\ disc' = [x \in Sectors |-> IF x \in lba .. lba + nbl - 1 THEN Buffer(x) ELSE disc[x]]
  BY Zenon DEF WriteOk
<1>2. lba = Address(blk) /\ nbl = Truncated(Address(blk), Chunk) /\ NextBlock
  BY <1>n, <1>1 DEF Block, Writing, lba
<1>3. job.dao => Address(blk) <= Start + job.length
  <2>1. CASE blk = Descriptors
    BY <1>s, <1>n, <2>1, DescriptorsAddress, Sizes DEF Types, Where
  <2>2. CASE blk # Descriptors
    BY <1>s, <1>n, <1>2, <2>2, BlockBounds DEF NextBlock, Types
  <2> QED
    BY <2>1, <2>2
<1>4. /\ ~job.dao => nbl = Chunk
      /\ job.dao => Address(blk) + nbl = IF Address(blk) + Chunk > Start + job.length
                                        THEN Start + job.length ELSE Address(blk) + Chunk
  BY <1>s, <1>n, <1>2, <1>3, TruncatedType DEF Types
<1>5. ASSUME NEW x \in Address(blk) .. Address(blk) + Chunk - 1, job.dao => x < Start + job.length
      PROVE  disc'[x] = Meant(x)
  <2>1. x \in lba .. lba + nbl - 1
    BY <1>s, <1>n, <1>2, <1>4, <1>5
  <2>2. x \in Sectors /\ Buffer(x) = Meant(x)
    BY <1>1, <2>1, BufferMeant
  <2> QED
    BY <1>1, <2>1, <2>2, Zenon
<1> QED
  BY <1>5, Zenon DEF Holds

LEMMA StepProgress ==
    Types /\ Where /\ Block /\ Track /\ Progress /\ [Next]_vars => Progress'
<1> SUFFICES ASSUME Types, Where, Block, Track, Progress, [Next]_vars
             PROVE  /\ how' # "crash" => \A b \in 0 .. Chunks - 1 : b < blk' => Holds(disc', Address(b), Chunk)
                    /\ how' # "crash" /\ blk' > Descriptors => Holds(disc', Chunk, Chunk)
                    /\ pc' = "wrote" /\ cut' = 0 => Holds(disc', Address(blk'), Chunk)
                    /\ how' = "done" => blk' >= Chunks /\ (Relocates => blk' > Descriptors)
  BY StepImage, Kept, JobKept DEF Progress, Holds
<1>s. /\ Chunk \in Nat /\ Chunk > 0 /\ Chunks \in Nat /\ Chunks > 0 /\ Start \in Nat
      /\ Descriptors = Chunks + 1 /\ Descriptors \in Nat /\ Address(Descriptors) = Chunk
      /\ Chunks * Chunk \in Nat /\ Sectors = 0 .. (Start + Chunks * Chunk) - 1
      /\ Relocates => Start >= 2 * Chunk
  BY Sizes, DescriptorsAddress DEF Types
<1>n. blk \in Nat /\ blk <= Descriptors + 1
  BY DEF Types, Numbers, Where
<1>h. /\ how # "crash" => \A b \in 0 .. Chunks - 1 : b < blk => Holds(disc, Address(b), Chunk)
      /\ how # "crash" /\ blk > Descriptors => Holds(disc, Chunk, Chunk)
      /\ pc = "wrote" /\ cut = 0 => Holds(disc, Address(blk), Chunk)
  BY DEF Progress
<1>i. \A b \in 0 .. Chunks - 1 :
         Address(b) \in Int /\ \A x \in Address(b) .. Address(b) + Chunk - 1 : x \in Sectors
  <2> TAKE b \in 0 .. Chunks - 1
  <2>1. Address(b) \in Nat /\ Address(b) + Chunk <= Start + Chunks * Chunk
    BY BlockBounds DEF Types
  <2> QED
    BY <1>s, <2>1
<1>d. Relocates => \A x \in Chunk .. Chunk + Chunk - 1 : x \in Sectors
  BY <1>s
\* Nothing that is in place is lost but with the power.
<1>1. ASSUME ~Crash, how # "crash"
      PROVE  /\ \A b \in 0 .. Chunks - 1 : b < blk => Holds(disc', Address(b), Chunk)
             /\ blk > Descriptors => Holds(disc', Chunk, Chunk)
  <2>1. ASSUME NEW b \in 0 .. Chunks - 1, b < blk PROVE Holds(disc', Address(b), Chunk)
    <3>1. Address(b) \in Int /\ \A x \in Address(b) .. Address(b) + Chunk - 1 : x \in Sectors
      BY <1>i
    <3>2. Holds(disc, Address(b), Chunk)
      BY <1>1, <1>h, <2>1
    <3>3. Chunk \in Int
      BY <1>s
    <3> QED
      BY <1>1, <3>1, <3>2, <3>3, HoldsStays, Zenon
  <2>2. ASSUME blk > Descriptors PROVE Holds(disc', Chunk, Chunk)
    <3>1. Relocates
      BY <1>s, <1>n, <2>2 DEF Where
    <3>2. Chunk \in Int /\ \A x \in Chunk .. Chunk + Chunk - 1 : x \in Sectors
      BY <1>s, <1>d, <3>1
    <3>3. Holds(disc, Chunk, Chunk)
      BY <1>1, <1>h, <2>2
    <3> QED
      BY <1>1, <3>2, <3>3, HoldsStays, Zenon
  <2> QED
    BY <2>1, <2>2
\* The block passed, which was skipped or written, is in place.
<1>2. ASSUME blk' = blk + 1, disc' = disc, pc \in {"idle", "wrote"}, how # "crash",
             NextBlock, Holds(disc, Address(blk), Chunk)
      PROVE  /\ \A b \in 0 .. Chunks - 1 : b < blk' => Holds(disc', Address(b), Chunk)
             /\ blk' > Descriptors => Holds(disc', Chunk, Chunk)
  <2>1. ASSUME NEW b \in 0 .. Chunks - 1, b < blk' PROVE Holds(disc, Address(b), Chunk)
    <3>1. b < blk \/ b = blk
      BY <1>n, <1>2, <2>1
    <3> QED
      BY <1>2, <1>h, <3>1, Zenon
  <2>2. ASSUME blk' > Descriptors PROVE Holds(disc, Chunk, Chunk)
    <3>1. blk > Descriptors \/ blk = Descriptors
      BY <1>n, <1>s, <1>2, <2>2
    <3> QED
      BY <1>2, <1>h, <1>s, <3>1, Zenon
  <2> QED
    BY <1>2, <2>1, <2>2
<1>3. ASSUME how' # "crash"
      PROVE  /\ \A b \in 0 .. Chunks - 1 : b < blk' => Holds(disc', Address(b), Chunk)
             /\ blk' > Descriptors => Holds(disc', Chunk, Chunk)
  <2>c. ~Crash
    BY <1>3, Zenon DEF Crash
  <2>1. CASE Resume
    <3>1. blk' = 0
      BY <2>1, Zenon DEF Resume
    <3> QED
      BY <1>s, <3>1
  <2>2. CASE blk' = blk /\ ~Resume
    <3>1. how # "crash"
      BY <1>3, <2>2, Moves DEF Where
    <3> QED
      BY <1>1, <2>c, <2>2, <3>1
  <2>3. CASE Pwrite
    <3>1. pc = "idle" /\ NextBlock /\ how # "crash" /\ disc' = disc /\ (blk' = blk \/ (Skips /\ blk' = blk + 1))
      BY <1>3, <2>3, PwriteEffect, Zenon
    <3>2. CASE Skips /\ blk' = blk + 1
      <4>1. Holds(disc, Address(blk), Chunk)
        BY <3>1, <3>2, SkippedHolds DEF Progress
      <4> QED
        BY <1>2, <3>1, <3>2, <4>1
    <3> QED
      BY <1>1, <2>c, <3>1, <3>2
  <2>4. CASE Account
    <3>1. pc = "wrote" /\ how # "crash" /\ disc' = disc /\ (blk' = blk \/ (cut = 0 /\ blk' = blk + 1))
      <4>1. pc = "wrote" /\ disc' = disc /\ (blk' = blk \/ (cut = 0 /\ blk' = blk + 1))
        BY <2>4, Zenon DEF Account, Short, unit
      <4> QED
        BY <4>1 DEF Where
    <3>2. CASE cut = 0 /\ blk' = blk + 1
      <4>1. Holds(disc, Address(blk), Chunk) /\ NextBlock
        BY <1>h, <3>1, <3>2 DEF Block, Writing
      <4> QED
        BY <1>2, <3>1, <3>2, <4>1
    <3> QED
      BY <1>1, <2>c, <3>1, <3>2
  <2>5. CASE ReadBack
    <3>1. pc = "read" /\ disc' = disc /\ (blk' = blk \/ blk' = Descriptors)
      BY <2>5, Zenon DEF ReadBack, LeavesMain, place, unit
    <3>2. blk = Chunks /\ how # "crash"
      BY <3>1 DEF Where
    <3>3. blk' = Descriptors => \A b \in 0 .. Chunks - 1 : b < blk
      BY <1>s, <3>2
    <3> QED
      BY <1>1, <1>s, <2>c, <3>1, <3>2, <3>3
  <2> QED
    BY <2>1, <2>2, <2>3, <2>4, <2>5, Moves
<1>4. ASSUME pc' = "wrote", cut' = 0 PROVE Holds(disc', Address(blk'), Chunk)
  <2>1. CASE WriteOk
    <3>1. blk' = blk /\ cut' = cut
      BY <2>1, Zenon DEF WriteOk, place
    <3> QED
      BY <1>4, <2>1, <3>1, WrittenHolds
  <2>2. CASE ~WriteOk
    <3>1. pc = "wrote" /\ ~Pwrite /\ ~Account /\ ~ReadBack /\ ~Resume /\ ~Crash
      <4>1. pc = "wrote"
        BY <1>4, <2>2, Moves
      <4> QED
        BY <1>4, <4>1 DEF Pwrite, Account, ReadBack, Resume, Crash
    <3>2. blk' = blk /\ cut' = cut /\ disc' = disc
      BY <2>2, <3>1, Moves, Kept
    <3> QED
      BY <1>4, <1>h, <3>1, <3>2
  <2> QED
    BY <2>1, <2>2
<1>5. ASSUME how' = "done" PROVE blk' >= Chunks /\ (Relocates => blk' > Descriptors)
  <2>1. CASE Done
    <3>1. blk' = blk /\ ~NextBlock /\ (Relocates => blk > Descriptors)
      BY <2>1, Zenon DEF Done, LeavesMain, place
    <3> QED
      BY <1>s, <1>n, <3>1 DEF NextBlock
  <2>2. CASE how = "done" /\ ~Done
    <3>1. pc \in {"exiting", "final", "end"}
      BY <2>2 DEF Where
    <3>2. ~Pwrite /\ ~Account /\ ~ReadBack /\ ~Resume
      BY <1>5, <3>1 DEF Pwrite, Account, ReadBack, Resume
    <3>3. blk' = blk
      BY <3>2, Moves
    <3> QED
      BY <2>2, <3>3 DEF Progress
  <2> QED
    BY <1>5, <2>1, <2>2, Moves
<1> QED
  BY <1>3, <1>4, <1>5

------------------------------------------------------------------------------
(* How a recording ends                                                    *)

LEMMA ReloadEffect ==
    ASSUME ReloadStep
    PROVE  /\ UNCHANGED <<job, disc, nwa, safe, dirty, trackClosed, closed, blocked, firstWr,
                          quickgrown, doReload, errno, saved, retries, busy, blk, cut, nbl,
                          how, run, refused, flushFailed, impatient>>
           /\ pc = "final" /\ todo # <<>> /\ Head(todo) = "reload" /\ todo' = <<>>
           /\ written' = (written /\ job.kind = "RAM")
           /\ \/ doReload /\ pc' = "end" /\ (status' = saved \/ (job.reload /\ status' \in {0, 1}))
              \/ ~doReload /\ how # "none" /\ pc' = "end" /\ status' = errno
              \/ ~doReload /\ how = "none" /\ pc' = "read" /\ status' = status
<1>1. UNCHANGED <<job, disc, nwa, blocked, firstWr, retries, busy, blk, cut, nbl, run, impatient>>
  BY StepKept, Zenon DEF ReloadStep
<1>2. ASSUME doReload
      PROVE  pc' = "end" /\ todo' = <<>> /\ (status' = saved \/ (job.reload /\ status' \in {0, 1}))
  <2>1. PICK s \in (IF job.reload THEN {0, 1, saved} ELSE {saved}) : Leave(s)
    BY <1>2, Zenon DEF ReloadStep
  <2> QED
    BY <2>1, Zenon DEF Leave
<1> QED
  BY <1>1, <1>2, Zenon DEF ReloadStep, Step, Leave

LEMMA StepBlame == Types /\ Where /\ Blame /\ [Next]_vars => Blame'
<1> SUFFICES ASSUME Types, Where, Blame, [Next]_vars
             PROVE  /\ pc' = "exiting" => errno' = IF how' = "done" THEN 0 ELSE EIO
                    /\ pc' = "final" /\ how' \in {"failed", "input"} => saved' = EIO
                    /\ pc' = "end" /\ how' \in {"failed", "input", "start"} /\ ~job.reload => status' # 0
                    /\ how' = "failed" => refused' \/ cut' > 0
  BY Kept DEF Blame, FailureIsReported, FailsForCause, Ended
<1> USE DEF unit, mode, count, place, history
<1>c. EIO = 5 /\ EINTR = 4 /\ cut \in Nat
  BY DEF EIO, EINTR, Types, Numbers
<1>b. /\ pc = "exiting" => errno = IF how = "done" THEN 0 ELSE EIO
      /\ pc = "final" /\ how \in {"failed", "input"} => saved = EIO
      /\ pc = "end" /\ how \in {"failed", "input", "start"} /\ ~job.reload => status # 0
      /\ how = "failed" => refused \/ cut > 0
  BY DEF Blame, FailureIsReported, FailsForCause, Ended
<1>1. CASE Setup
  <2>1. /\ (pc' = "idle" /\ how' = how) \/ (pc' = "end" /\ how' = "start" /\ status' = 128 + EIO)
        /\ pc = "setup" /\ refused' = refused /\ cut' = cut
    BY <1>1, SetupEffect, Zenon
  <2> QED
    BY <1>b, <1>c, <2>1
<1>2. CASE Pwrite
  <2>1. pc' \in {"idle", "write"} /\ how' = how /\ pc = "idle"
    BY <1>2, PwriteEffect, Zenon
  <2> QED
    BY <2>1 DEF Where
<1>3. CASE WriteOk \/ LongWrite \/ Busy
  BY <1>3, <1>b DEF WriteOk, LongWrite, Busy, Postponed
<1>5. CASE BecomingReady \/ SyncCache
  BY <1>5, <1>b DEF BecomingReady, SyncCache, Postponed
<1>8. CASE WriteFails
  BY <1>8, <1>b DEF WriteFails
<1>9. CASE Account
  BY <1>9, <1>b, <1>c DEF Account, Short, Where
<1>10. CASE InputFails \/ Done
  BY <1>10, <1>b DEF InputFails, Done, LeavesMain
<1>11. CASE Relocate
  BY <1>11, <1>b DEF Relocate
<1>12. CASE RelocateFlush
  BY <1>12, <1>b DEF RelocateFlush, LeavesMain
<1>13. CASE ReadBack
  BY <1>13, <1>b DEF ReadBack, LeavesMain
<1>14. CASE Enter
  BY <1>14, <1>b, <1>c DEF Enter, Where
<1>15. CASE Interrupt
  BY <1>15, <1>b DEF Interrupt
<1>16. CASE FlushStep
  BY <1>16, <1>b, <1>c DEF FlushStep, StepKeeps, Step, NextStep, Leave
<1>17. CASE PrintedStep
  BY <1>17, <1>b DEF PrintedStep, StepKeeps, Step, NextStep
<1>18. CASE CloseStep
  BY <1>18, <1>b DEF CloseStep, CloseError, StepKeeps, Step, NextStep
<1>19. CASE WaitStep
  BY <1>19, <1>b, <1>c DEF WaitStep, StepKeeps, Step, NextStep, Leave
<1>20. CASE StopStep
  BY <1>20, <1>b, <1>c DEF StopStep, StepKeeps, Step, NextStep, Leave
<1>21. CASE ReloadStep
  <2>1. how' = how /\ saved' = saved /\ refused' = refused /\ cut' = cut /\ pc = "final"
    BY <1>21, ReloadEffect, Zenon
  <2>2. \/ pc' = "end" /\ doReload /\ (status' = saved \/ job.reload)
        \/ pc' \in {"end", "read"} /\ ~doReload
    BY <1>21, ReloadEffect, Zenon
  <2>3. (~doReload => how \in {"none", "signal"}) /\ how # "start"
    BY <2>1 DEF Where
  <2>4. CASE pc' = "end" /\ doReload /\ (status' = saved \/ job.reload)
    BY <1>b, <1>c, <2>1, <2>3, <2>4
  <2>5. CASE pc' \in {"end", "read"} /\ ~doReload
    BY <1>b, <2>1, <2>3, <2>5
  <2> QED
    BY <2>2, <2>4, <2>5
<1>22. CASE Crash
  BY <1>22 DEF Crash
<1>23. CASE Resume
  BY <1>23 DEF Resume
<1>24. CASE UNCHANGED vars
  BY <1>24, <1>b DEF vars
<1> QED
  BY <1>1, <1>2, <1>3, <1>5, <1>8, <1>9, <1>10, <1>11, <1>12, <1>13, <1>14, <1>15, <1>16,
     <1>17, <1>18, <1>19, <1>20, <1>21, <1>22, <1>23, <1>24 DEF Next, Program, Write, Main, Handler

\* A handler begins by flushing, and then does something else.
LEMMA FlushFirst ==
    ASSUME job \in Jobs, job.kind # "RAM"
    PROVE  FlushIsNext(Finalize) /\ FlushIsNext(OnSignal)
<1>1. job.kind \in Kinds
  BY JobType
<1>2. Finalize \in {<<"flush", "leadout", "wait", "reload">>, <<"flush", "deice", "wait", "leadout", "wait", "reload">>,
                   <<"flush", "session", "wait", "reload">>, <<"flush", "reload">>,
                   <<"flush", "track", "wait", "reload">>,
                   <<"flush", "track", "wait", "session", "wait", "reload">>}
  BY Zenon DEF Finalize
<1>3. FlushIsNext(Finalize)
  BY <1>2 DEF FlushIsNext
<1>4. FlushIsNext(<<"flush", "stop">>)
  BY DEF FlushIsNext
<1> QED
  BY <1>3, <1>4, Zenon DEF OnSignal

LEMMA StepCache == Types /\ Flags /\ Where /\ Cache /\ [Next]_vars => Cache'
<1> SUFFICES ASSUME Types, Flags, Where, Cache, [Next]_vars
             PROVE  /\ pc' \in Writing /\ ~written' => blocked' \/ impatient'
                    /\ ~written' /\ dirty' =>
                          \/ pc' = "wrote"
                          \/ pc' = "exiting" /\ how' = "failed" /\ job.dl /\ refused'
                          \/ pc' = "end" /\ Excuse'
                    /\ pc' = "final" /\ dirty' =>
                          \/ job.kind = "RAM"
                          \/ FlushIsNext(todo')
                          \/ flushFailed' /\ job.kind = "-R" /\ job.dao
                    /\ pc' = "end" /\ dirty' => Excuse'
                    /\ pc' = "end" /\ how' = "done" /\ status' = 0 /\ ~job.dao => ~dirty' \/ job.kind = "RAM"
                    /\ how' = "crash" => ~dirty'
  BY Kept DEF Cache, NothingLeftInCache, Ended, Excuse
<1> USE DEF unit, mode, count, place, history
<1>j. job' = job
  BY Kept
<1>c. EIO = 5 /\ EINTR = 4
  BY DEF EIO, EINTR
<1>b. /\ pc \in Writing /\ ~written => blocked \/ impatient
      /\ ~written /\ dirty => \/ pc = "wrote"
                              \/ pc = "exiting" /\ how = "failed" /\ job.dl /\ refused
                              \/ pc = "end" /\ Excuse
      /\ pc = "final" /\ dirty => \/ job.kind = "RAM"
                                  \/ FlushIsNext(todo)
                                  \/ flushFailed /\ job.kind = "-R" /\ job.dao
      /\ pc = "end" /\ dirty => Excuse
      /\ pc = "end" /\ how = "done" /\ status = 0 /\ ~job.dao => ~dirty \/ job.kind = "RAM"
      /\ how = "crash" => ~dirty
  BY DEF Cache, NothingLeftInCache, Ended, Excuse
<1>w. /\ how # "none" => pc \in {"exiting", "final", "end"}
      /\ how = "crash" => pc = "end"
      /\ pc = "setup" => ~dirty
      /\ ~doReload => job.kind = "-RW"
      /\ pc = "final" => written
  BY DEF Where
<1>1. CASE Setup
  <2>1. UNCHANGED <<dirty, written>> /\ pc = "setup" /\ pc' \in {"idle", "end"}
        /\ (how' = how \/ how' = "start")
    BY <1>1, SetupEffect, Zenon
  <2> QED
    BY <1>w, <2>1 DEF Writing
<1>2. CASE Pwrite
  <2>1. ~written => blocked' = TRUE \/ pc' = "idle"
    BY <1>2, PwriteEffect, Zenon DEF HoldSignals
  <2>2. UNCHANGED <<written, dirty, how>> /\ pc = "idle" /\ pc' \in {"idle", "write"}
    BY <1>2, PwriteEffect, Zenon
  <2> QED
    BY <1>b, <1>w, <2>1, <2>2 DEF Writing
<1>3. CASE WriteOk
  <2>1. UNCHANGED <<written, blocked, impatient, how>> /\ pc = "write" /\ pc' = "wrote"
    BY <1>3, Zenon DEF WriteOk
  <2> QED
    BY <1>b, <1>w, <2>1 DEF Writing
<1>4. CASE LongWrite \/ Busy
  BY <1>4, <1>b, <1>w DEF LongWrite, Busy, Postponed, Writing
<1>5. CASE BecomingReady
  BY <1>5, <1>b, <1>w DEF BecomingReady, Postponed, Writing
<1>7. CASE SyncCache
  BY <1>7, <1>b, <1>w DEF SyncCache, Writing
<1>8. CASE WriteFails
  <2>1. UNCHANGED <<dirty, blocked, impatient>> /\ pc \in {"write", "sync"} /\ pc' = "exiting"
        /\ how' = "failed" /\ refused' = TRUE
        /\ (written' = written \/ job.dl)
    BY <1>8, Zenon DEF WriteFails
  <2> QED
    BY <1>b, <1>w, <2>1 DEF Writing
<1>9. CASE Account
  BY <1>9, <1>b, <1>w DEF Account, Writing
<1>10. CASE InputFails \/ Done
  BY <1>10, <1>b, <1>w DEF InputFails, Done, LeavesMain, Writing
<1>11. CASE Relocate
  BY <1>11, <1>b, <1>w DEF Relocate, Writing
<1>12. CASE RelocateFlush
  BY <1>12, <1>b, <1>w DEF RelocateFlush, LeavesMain, Writing
<1>13. CASE ReadBack
  BY <1>13, <1>b, <1>w DEF ReadBack, LeavesMain, Writing
<1>14. CASE Enter
  <2>1. /\ UNCHANGED <<dirty, written, how, flushFailed, impatient, refused>> /\ pc \in {"exiting", "inner"}
        /\ (written /\ pc' = "final" /\ todo' = Finalize) \/ (~written /\ pc' = "end")
    BY <1>14, Zenon DEF Enter
  <2>2. job.kind # "RAM" => FlushIsNext(Finalize)
    BY FlushFirst, Zenon DEF Types
  <2>3. ~written /\ dirty => how = "failed" /\ job.dl /\ refused
    BY <1>b, <2>1
  <2>4. ~written /\ dirty => Excuse'
    BY <1>j, <2>1, <2>3 DEF Excuse
  <2>5. how' # "crash"
    BY <1>w, <2>1
  <2> QED
    BY <1>w, <2>1, <2>2, <2>3, <2>4, <2>5 DEF Writing
<1>15. CASE Interrupt
  <2>1. /\ UNCHANGED <<dirty, written, flushFailed, impatient, refused>> /\ how' = "signal" /\ ~blocked
        /\ pc \in {"idle", "write", "wrote", "sync", "flush", "read", "exiting", "inner"}
        /\ (written /\ pc' = "final" /\ todo' = OnSignal) \/ (~written /\ pc' = "end")
    BY <1>15, Zenon DEF Interrupt
  <2>2. job.kind # "RAM" => FlushIsNext(OnSignal)
    BY FlushFirst, Zenon DEF Types
  <2>3. ~written /\ dirty => impatient \/ (job.dl /\ refused)
    BY <1>b, <2>1 DEF Writing
  <2>4. ~written /\ dirty => Excuse'
    BY <1>j, <2>1, <2>3 DEF Excuse
  <2> QED
    BY <2>1, <2>2, <2>4 DEF Writing
<1>16. CASE FlushStep
  <2>1. /\ UNCHANGED <<written, how>> /\ pc = "final"
        /\ \/ dirty' = FALSE /\ pc' = "final"
           \/ flushFailed' = TRUE /\ pc' = "end" /\ status' = EIO
           \/ flushFailed' = TRUE /\ pc' = "final" /\ job.kind = "-R" /\ job.dao
    BY <1>16, Zenon DEF FlushStep, Step, NextStep, Leave, Immediately
  <2>2. flushFailed' = TRUE => Excuse'
    BY Zenon DEF Excuse
  <2> QED
    BY <1>c, <1>w, <2>1, <2>2 DEF Writing
<1>17. CASE PrintedStep
  <2>1. UNCHANGED <<dirty, written, how, flushFailed>> /\ pc = "final" /\ pc' = "final" /\ ~FlushIsNext(todo)
    BY <1>17, Zenon DEF PrintedStep, Step, NextStep, FlushIsNext
  <2> QED
    BY <1>b, <1>w, <2>1 DEF Writing
<1>18. CASE CloseStep
  <2>1. UNCHANGED <<dirty, written, how, flushFailed>> /\ pc = "final" /\ pc' = "final" /\ ~FlushIsNext(todo)
    BY <1>18, Zenon DEF CloseStep, Step, NextStep, FlushIsNext
  <2> QED
    BY <1>b, <1>w, <2>1 DEF Writing
<1>19. CASE WaitStep
  <2>1. /\ UNCHANGED <<dirty, written, how, flushFailed>> /\ pc = "final" /\ ~FlushIsNext(todo)
        /\ pc' = "final" \/ (pc' = "end" /\ status' = EIO)
    BY <1>19, Zenon DEF WaitStep, Step, NextStep, Leave, FlushIsNext
  <2>2. dirty => job.kind = "RAM" \/ (flushFailed /\ job.kind = "-R" /\ job.dao)
    BY <1>b, <2>1
  <2>3. dirty => Excuse'
    BY <1>j, <2>1, <2>2 DEF Excuse
  <2> QED
    BY <1>c, <1>w, <2>1, <2>2, <2>3 DEF Writing
<1>20. CASE StopStep
  <2>1. /\ UNCHANGED <<dirty, how, flushFailed>> /\ pc = "final" /\ ~FlushIsNext(todo)
        /\ pc' = "end" /\ status' = EINTR
    BY <1>20, Zenon DEF StopStep, Step, Leave, FlushIsNext
  <2>2. dirty => job.kind = "RAM" \/ (flushFailed /\ job.kind = "-R" /\ job.dao)
    BY <1>b, <2>1
  <2>3. dirty => Excuse'
    BY <1>j, <2>1, <2>2 DEF Excuse
  <2> QED
    BY <1>c, <1>w, <2>1, <2>3 DEF Writing
<1>21. CASE ReloadStep
  <2>1. /\ UNCHANGED <<dirty, how, flushFailed, impatient, refused>> /\ pc = "final"
        /\ ~FlushIsNext(todo)
    BY <1>21, ReloadEffect, Zenon DEF FlushIsNext
  <2>2. pc' = "end" \/ (pc' = "read" /\ ~doReload)
    BY <1>21, ReloadEffect, Zenon
  <2>3. dirty => job.kind = "RAM" \/ (flushFailed /\ job.kind = "-R" /\ job.dao)
    BY <1>b, <2>1
  <2>4. dirty => Excuse'
    BY <1>j, <2>1, <2>3 DEF Excuse
  <2>5. dirty /\ pc' = "end" => ~(how = "done" /\ ~job.dao) \/ job.kind = "RAM"
    BY <2>3
  <2>6. pc' = "read" => ~dirty
    BY <1>w, <2>2, <2>3
  <2> QED
    BY <1>w, <2>1, <2>2, <2>4, <2>5, <2>6 DEF Writing
<1>22. CASE Crash
  BY <1>22 DEF Crash, Writing
<1>23. CASE Resume
  BY <1>23, <1>b DEF Resume, Writing
<1>24. CASE UNCHANGED vars
  <2>1. UNCHANGED <<pc, how, status, todo, dirty, written, blocked, flushFailed, impatient, refused>>
    BY <1>24, Zenon DEF vars
  <2>2. Excuse' = Excuse
    BY <1>j, <2>1 DEF Excuse
  <2> QED
    BY <1>b, <2>1, <2>2 DEF Writing
<1> QED
  BY <1>1, <1>2, <1>3, <1>4, <1>5, <1>7, <1>8, <1>9, <1>10, <1>11, <1>12, <1>13, <1>14, <1>15,
     <1>16, <1>17, <1>18, <1>19, <1>20, <1>21, <1>22, <1>23, <1>24 DEF Next, Program, Write, Main, Handler

------------------------------------------------------------------------------
(* Closing                                                                 *)

\* What the handlers of write-once discs do, and in which order.
LEMMA HandlerOf ==
    ASSUME job \in Jobs, WriteOnce
    PROVE  /\ IsDao => Finalize \in JustFlush
           /\ ~IsDao => Finalize \in Both \/ (job.pow /\ Finalize \in TrackOnly)
           /\ OnSignal \in Stopping
<1>1. OnSignal = <<"flush", "stop">>
  BY Zenon DEF OnSignal
<1>2. CASE IsDao
  <2>1. Finalize = <<"flush", "reload">>
    BY <1>2 DEF Finalize, IsDao
  <2> QED
    BY <1>1, <1>2, <2>1, Zenon DEF JustFlush, Stopping
<1>3. CASE ~IsDao /\ job.kind = "BD-R" /\ job.pow
  <2>1. Finalize = <<"flush", "track", "wait", "reload">>
    BY <1>3 DEF Finalize, IsDao
  <2> QED
    BY <1>1, <1>3, <2>1, Zenon DEF TrackOnly, Stopping
<1>4. CASE ~IsDao /\ ~(job.kind = "BD-R" /\ job.pow)
  <2>1. Finalize = <<"flush", "track", "wait", "session", "wait", "reload">>
    BY <1>4 DEF Finalize, IsDao, WriteOnce
  <2> QED
    BY <1>1, <1>4, <2>1, Zenon DEF Both, Stopping
<1> QED
  BY <1>2, <1>3, <1>4

LEMMA Order ==
    /\ \A t \in Stopping :
          Head(t) \in {"flush", "stop"} /\ (Head(t) = "flush" => Tail(t) \in Stopping)
    /\ \A t \in JustFlush :
          Head(t) \in {"flush", "reload"} /\ (Head(t) = "flush" => Tail(t) \in JustFlush)
    /\ \A t \in TrackOnly :
          /\ Head(t) \in {"flush", "track"}
          /\ Head(t) = "flush" => Tail(t) \in TrackOnly
          /\ Head(t) = "track" => Tail(t) \in AllDone
    /\ \A t \in Both :
          /\ Head(t) \in {"flush", "track"}
          /\ Head(t) = "flush" => Tail(t) \in Both
          /\ Head(t) = "track" => Tail(t) \in TrackDone
    /\ \A t \in TrackDone :
          /\ Head(t) \in {"wait", "session"}
          /\ Head(t) = "wait" => Tail(t) \in TrackDone
          /\ Head(t) = "session" => Tail(t) \in AllDone
    /\ \A t \in AllDone :
          Head(t) \in {"wait", "reload"} /\ (Head(t) = "wait" => Tail(t) \in AllDone)
<1>r. Head(<<"reload">>) = "reload" /\ Head(<<"stop">>) = "stop"
  OBVIOUS
<1>1. \A t \in Stopping : Head(t) \in {"flush", "stop"} /\ (Head(t) = "flush" => Tail(t) \in Stopping)
  <2>1. Head(<<"flush", "stop">>) = "flush" /\ Tail(<<"flush", "stop">>) = <<"stop">>
    OBVIOUS
  <2> QED
    BY <1>r, <2>1, Zenon DEF Stopping
<1>2. \A t \in JustFlush : Head(t) \in {"flush", "reload"} /\ (Head(t) = "flush" => Tail(t) \in JustFlush)
  <2>1. Head(<<"flush", "reload">>) = "flush" /\ Tail(<<"flush", "reload">>) = <<"reload">>
    OBVIOUS
  <2> QED
    BY <1>r, <2>1, Zenon DEF JustFlush
<1>3. \A t \in TrackOnly :
      /\ Head(t) \in {"flush", "track"}
      /\ Head(t) = "flush" => Tail(t) \in TrackOnly
      /\ Head(t) = "track" => Tail(t) \in AllDone
  <2>1. /\ Head(<<"flush", "track", "wait", "reload">>) = "flush"
        /\ Tail(<<"flush", "track", "wait", "reload">>) = <<"track", "wait", "reload">>
        /\ Head(<<"track", "wait", "reload">>) = "track"
        /\ Tail(<<"track", "wait", "reload">>) = <<"wait", "reload">>
    OBVIOUS
  <2> QED
    BY <2>1, Zenon DEF TrackOnly, AllDone
<1>4. \A t \in Both :
      /\ Head(t) \in {"flush", "track"}
      /\ Head(t) = "flush" => Tail(t) \in Both
      /\ Head(t) = "track" => Tail(t) \in TrackDone
  <2>1. /\ Head(<<"flush", "track", "wait", "session", "wait", "reload">>) = "flush"
        /\ Tail(<<"flush", "track", "wait", "session", "wait", "reload">>)
              = <<"track", "wait", "session", "wait", "reload">>
        /\ Head(<<"track", "wait", "session", "wait", "reload">>) = "track"
        /\ Tail(<<"track", "wait", "session", "wait", "reload">>) = <<"wait", "session", "wait", "reload">>
    OBVIOUS
  <2> QED
    BY <2>1, Zenon DEF Both, TrackDone
<1>5. \A t \in TrackDone :
      /\ Head(t) \in {"wait", "session"}
      /\ Head(t) = "wait" => Tail(t) \in TrackDone
      /\ Head(t) = "session" => Tail(t) \in AllDone
  <2>1. /\ Head(<<"wait", "session", "wait", "reload">>) = "wait"
        /\ Tail(<<"wait", "session", "wait", "reload">>) = <<"session", "wait", "reload">>
        /\ Head(<<"session", "wait", "reload">>) = "session"
        /\ Tail(<<"session", "wait", "reload">>) = <<"wait", "reload">>
    OBVIOUS
  <2> QED
    BY <2>1, Zenon DEF TrackDone, AllDone
<1>6. \A t \in AllDone : Head(t) \in {"wait", "reload"} /\ (Head(t) = "wait" => Tail(t) \in AllDone)
  <2>1. Head(<<"wait", "reload">>) = "wait" /\ Tail(<<"wait", "reload">>) = <<"reload">>
    OBVIOUS
  <2> QED
    BY <1>r, <2>1, Zenon DEF AllDone
<1> QED
  BY <1>1, <1>2, <1>3, <1>4, <1>5, <1>6, Zenon

LEMMA Apart ==
    ASSUME NEW t
    PROVE  /\ t \in TrackOnly => t \notin Both \cup TrackDone \cup AllDone
           /\ t \in Both => t \notin TrackDone \cup AllDone
           /\ t \in TrackDone => t \notin AllDone
BY DEF TrackOnly, Both, TrackDone, AllDone

\* A handler for a write-once disc comes to an end in the order of its commands.
LEMMA StepClosing == Types /\ Flags /\ Where /\ Closing /\ [Next]_vars => Closing'
<1> SUFFICES ASSUME Types, Flags, Where, Closing, [Next]_vars, WriteOnce
             PROVE  /\ doReload'
                    /\ trackClosed' \/ closed' => pc' \in {"final", "end"} /\ how' # "signal"
                    /\ pc' = "final" /\ how' = "signal" => todo' \in Stopping
                    /\ pc' = "final" /\ how' # "signal" /\ IsDao => todo' \in JustFlush
                    /\ pc' = "final" /\ how' # "signal" /\ ~IsDao =>
                          /\ todo' \in TrackOnly \cup Both \cup TrackDone \cup AllDone
                          /\ todo' \in TrackOnly => job.pow
                          /\ how' = "done" /\ saved' = 0 =>
                                /\ todo' \in TrackDone => trackClosed'
                                /\ todo' \in AllDone => trackClosed' /\ (~job.pow => closed')
                    /\ nbl' # 0 /\ (pc' \in {"idle", "flush", "read"} \/ (pc' = "exiting" /\ how' = "done")) =>
                          written'
                    /\ pc' = "end" /\ how' = "done" /\ status' = 0 /\ ~job.reload /\ ~job.dao /\ nbl' # 0 =>
                          trackClosed' /\ (~job.pow => closed')
  BY Kept, JobKept DEF Closing, Ended
<1> USE DEF unit, mode, count, place, history
<1>c. EIO = 5 /\ EINTR = 4
  BY DEF EIO, EINTR
<1>b. /\ doReload
      /\ trackClosed \/ closed => pc \in {"final", "end"} /\ how # "signal"
      /\ nbl # 0 /\ (pc \in {"idle", "flush", "read"} \/ (pc = "exiting" /\ how = "done")) => written
      /\ pc = "end" /\ how = "done" /\ status = 0 /\ ~job.reload /\ ~job.dao /\ nbl # 0 =>
            trackClosed /\ (~job.pow => closed)
  BY DEF Closing, Ended
<1>h. /\ pc = "final" /\ how = "signal" => todo \in Stopping
      /\ pc = "final" /\ how # "signal" /\ IsDao => todo \in JustFlush
      /\ pc = "final" /\ how # "signal" /\ ~IsDao =>
            /\ todo \in TrackOnly \cup Both \cup TrackDone \cup AllDone
            /\ todo \in TrackOnly => job.pow
            /\ how = "done" /\ saved = 0 =>
                  /\ todo \in TrackDone => trackClosed
                  /\ todo \in AllDone => trackClosed /\ (~job.pow => closed)
  BY DEF Closing
<1>w. /\ how # "none" => pc \in {"exiting", "final", "end"}
      /\ pc = "setup" => nbl = 0
  BY DEF Where
<1>j. job.kind \in {"+R", "-R", "BD-R"} /\ (~job.dao => ~IsDao)
  BY DEF WriteOnce, IsDao
<1>1. CASE Setup
  <2>1. UNCHANGED <<doReload, trackClosed, closed, nbl, written>> /\ pc = "setup"
        /\ pc' \in {"idle", "end"} /\ (how' = how \/ how' = "start")
    BY <1>1, SetupEffect, Zenon
  <2> QED
    BY <1>b, <1>w, <2>1
<1>2. CASE Pwrite
  <2>1. UNCHANGED <<doReload, trackClosed, closed, written, how>> /\ pc = "idle"
    BY <1>2, PwriteEffect, Zenon
  <2>2. (pc' = "idle" /\ nbl' = nbl) \/ pc' = "write"
    BY <1>2, PwriteEffect, Zenon
  <2> QED
    BY <1>b, <2>1, <2>2
<1>3. CASE WriteOk \/ LongWrite \/ BecomingReady \/ Busy \/ SyncCache
  <2>1. /\ UNCHANGED <<doReload, trackClosed, closed>> /\ pc \in {"write", "sync"}
        /\ pc' \in {"write", "wrote", "sync"}
    BY <1>3, Zenon DEF WriteOk, LongWrite, BecomingReady, Busy, SyncCache, Postponed
  <2> QED
    BY <1>b, <2>1
<1>8. CASE WriteFails
  <2>1. /\ UNCHANGED <<doReload, trackClosed, closed>> /\ pc \in {"write", "sync"}
        /\ pc' = "exiting" /\ how' = "failed"
    BY <1>8, Zenon DEF WriteFails
  <2> QED
    BY <1>b, <2>1
<1>9. CASE Account
  <2>1. UNCHANGED <<doReload, trackClosed, closed>> /\ pc = "wrote" /\ written' /\ pc' \in {"idle", "exiting"}
    BY <1>9, Zenon DEF Account
  <2> QED
    BY <1>b, <2>1
<1>10. CASE InputFails \/ Done
  <2>1. UNCHANGED <<doReload, trackClosed, closed, nbl, written>> /\ pc = "idle" /\ pc' = "exiting"
    BY <1>10, Zenon DEF InputFails, Done, LeavesMain
  <2> QED
    BY <1>b, <2>1
<1>11. CASE Relocate
  BY <1>11, <1>j, <1>b DEF Relocate
<1>12. CASE RelocateFlush \/ ReadBack
  <2>1. /\ UNCHANGED <<trackClosed, closed, written>> /\ (doReload' = doReload \/ doReload')
        /\ pc \in {"flush", "read"}
        /\ (pc' \in {"idle", "read"} /\ nbl' = nbl) \/ (pc' = "exiting" /\ how' = "failed")
    BY <1>12, Zenon DEF RelocateFlush, ReadBack, LeavesMain
  <2> QED
    BY <1>b, <2>1
<1>14. CASE Enter
  <2>1. /\ UNCHANGED <<doReload, trackClosed, closed, nbl, how>> /\ pc \in {"exiting", "inner"}
        /\ (written /\ pc' = "final" /\ todo' = Finalize) \/ (~written /\ pc' = "end")
    BY <1>14, Zenon DEF Enter
  <2>2. how # "signal" /\ ~trackClosed /\ ~closed
    BY <1>b, <1>w, <2>1 DEF Where
  <2>3. /\ IsDao => Finalize \in JustFlush
        /\ ~IsDao => Finalize \in Both \/ (job.pow /\ Finalize \in TrackOnly)
    BY HandlerOf DEF Types
  <2>4. how = "done" /\ nbl # 0 => written
    BY <1>b, <1>w, <2>1
  <2> QED
    BY <1>b, <2>1, <2>2, <2>3, <2>4, Apart
<1>15. CASE Interrupt
  <2>1. /\ UNCHANGED <<doReload, trackClosed, closed>> /\ how' = "signal"
        /\ pc \in {"idle", "write", "wrote", "sync", "flush", "read", "exiting", "inner"}
        /\ (pc' = "final" /\ todo' = OnSignal) \/ pc' = "end"
    BY <1>15, Zenon DEF Interrupt
  <2>2. OnSignal \in Stopping
    BY HandlerOf DEF Types
  <2> QED
    BY <1>b, <2>1, <2>2
<1>16. CASE FlushStep
  <2>1. /\ UNCHANGED <<doReload, trackClosed, closed, nbl, how, saved>>
        /\ pc = "final" /\ Head(todo) = "flush"
        /\ (pc' = "final" /\ todo' = Tail(todo)) \/ (pc' = "end" /\ status' = EIO)
    BY <1>16, StepKept, Zenon DEF FlushStep, Step, NextStep, Leave
  <2>2. CASE pc' = "end"
    <3>1. ~(status' = 0)
      BY <1>c, <2>1, <2>2
    <3> QED
      BY <1>b, <2>1, <2>2, <3>1
  <2>3. CASE pc' = "final" /\ how = "signal"
    <3>1. Tail(todo) \in Stopping
      BY <1>h, <2>1, <2>3, Order
    <3> QED
      BY <1>b, <2>1, <2>3, <3>1
  <2>4. CASE pc' = "final" /\ how # "signal" /\ IsDao
    <3>1. Tail(todo) \in JustFlush
      BY <1>h, <2>1, <2>4, Order
    <3> QED
      BY <1>b, <2>1, <2>4, <3>1
  <2>5. CASE pc' = "final" /\ how # "signal" /\ ~IsDao
    <3>1. todo \in TrackOnly \/ todo \in Both
      BY <1>h, <2>1, <2>5, Order
    <3>2. (todo \in TrackOnly /\ Tail(todo) \in TrackOnly) \/ (todo \in Both /\ Tail(todo) \in Both)
      BY <2>1, <3>1, Order
    <3> QED
      BY <1>b, <1>h, <2>1, <2>5, <3>2, Apart
  <2> QED
    BY <2>1, <2>2, <2>3, <2>4, <2>5
<1>17. CASE PrintedStep
  <2>1. pc = "final" /\ Head(todo) \in {"deice", "leadout"}
    BY <1>17, Zenon DEF PrintedStep, Step
  <2> QED
    BY <1>h, <2>1, Order
<1>18. CASE CloseStep
  <2>1. /\ UNCHANGED <<doReload, nbl, how>>
        /\ pc = "final" /\ Head(todo) \in {"track", "session"} /\ pc' = "final" /\ todo' = Tail(todo)
        /\ \/ trackClosed' = TRUE /\ closed' = (Head(todo) = "session") /\ saved' = saved
           \/ saved' = EIO
    BY <1>18, StepKept, Zenon DEF CloseStep, CloseError, Step, NextStep
  <2>2. how # "signal" /\ ~IsDao
    BY <1>h, <2>1, Order
  <2>3. \/ todo \in TrackOnly /\ Tail(todo) \in AllDone /\ job.pow
        \/ todo \in Both /\ Tail(todo) \in TrackDone
        \/ todo \in TrackDone /\ Head(todo) = "session" /\ Tail(todo) \in AllDone
    BY <1>h, <2>1, <2>2, Order
  <2>4. Tail(todo) \in AllDone \/ Tail(todo) \in TrackDone
    BY <2>3
  <2>5. trackClosed' \/ saved' # 0
    BY <1>c, <2>1
  <2>6. Tail(todo) \in AllDone /\ ~job.pow => closed' \/ saved' # 0
    <3>1. Head(todo) = "session" => closed' \/ saved' = EIO
      BY <2>1
    <3> QED
      BY <1>c, <2>3, <3>1, Apart
  <2>7. Tail(todo) \notin TrackOnly
    BY <2>4, Apart
  <2> QED
    BY <1>b, <2>1, <2>2, <2>4, <2>5, <2>6, <2>7
<1>19. CASE WaitStep
  <2>1. /\ UNCHANGED <<doReload, trackClosed, closed, nbl, how, saved>>
        /\ pc = "final" /\ Head(todo) = "wait"
        /\ (pc' = "final" /\ todo' = Tail(todo)) \/ (pc' = "end" /\ status' = EIO)
    BY <1>19, StepKept, Zenon DEF WaitStep, Step, NextStep, Leave
  <2>2. how # "signal" /\ ~IsDao
    BY <1>h, <2>1, Order
  <2>3. \/ todo \in TrackDone /\ Tail(todo) \in TrackDone
        \/ todo \in AllDone /\ Tail(todo) \in AllDone
    BY <1>h, <2>1, <2>2, Order
  <2>4. CASE pc' = "end"
    BY <1>b, <1>c, <2>1, <2>2, <2>4
  <2>5. CASE pc' = "final"
    BY <1>b, <1>h, <2>1, <2>2, <2>3, <2>5, Apart
  <2> QED
    BY <2>1, <2>4, <2>5
<1>20. CASE StopStep
  <2>1. /\ UNCHANGED <<doReload, trackClosed, closed, how>>
        /\ pc = "final" /\ pc' = "end" /\ status' = EINTR
    BY <1>20, StepKept, Zenon DEF StopStep, Step, Leave
  <2> QED
    BY <1>b, <1>c, <2>1
<1>21. CASE ReloadStep
  <2>1. /\ UNCHANGED <<doReload, trackClosed, closed, nbl, how>>
        /\ pc = "final" /\ Head(todo) = "reload" /\ pc' = "end" /\ (status' = saved \/ job.reload)
    BY <1>21, <1>b, ReloadEffect, Zenon
  <2>2. how # "signal" /\ ~IsDao => todo \in AllDone
    BY <1>h, <2>1, Order
  <2>3. how = "done" /\ saved = 0 /\ ~job.dao => trackClosed /\ (~job.pow => closed)
    BY <1>h, <1>j, <2>1, <2>2
  <2> QED
    BY <1>b, <2>1, <2>3
<1>22. CASE Crash
  <2>1. UNCHANGED <<doReload, trackClosed, closed>> /\ pc' = "end" /\ how' = "crash"
    BY <1>22, Zenon DEF Crash
  <2> QED
    BY <1>b, <2>1
<1>23. CASE Resume
  <2>1. ~trackClosed' /\ ~closed' /\ doReload' /\ pc' = "setup"
    BY <1>23 DEF Resume
  <2> QED
    BY <2>1
<1>24. CASE UNCHANGED vars
  <2>1. UNCHANGED <<doReload, trackClosed, closed, pc, how, todo, saved, nbl, written, status>>
    BY <1>24, Zenon DEF vars
  <2> QED
    BY <1>b, <1>h, <2>1
<1> QED
  BY <1>1, <1>2, <1>3, <1>8, <1>9, <1>10, <1>11, <1>12, <1>14, <1>15, <1>16, <1>17, <1>18, <1>19,
     <1>20, <1>21, <1>22, <1>23, <1>24 DEF Next, Program, Write, Main, Handler

------------------------------------------------------------------------------
(* The theorems                                                            *)

LEMMA InitInv == Init => IndInv
<1> SUFFICES ASSUME Init PROVE IndInv
  OBVIOUS
<1>1. Types /\ Flags
  BY InitTypes
<1>s. /\ Chunk \in Nat /\ Chunks \in Nat /\ Start \in Nat /\ Chunks * Chunk \in Nat
      /\ Descriptors = Chunks + 1 /\ job.length \in Nat
  BY <1>1, Sizes DEF Types
<1>2. Where
  BY <1>s DEF Init, Where
<1>3. Block /\ Blame /\ Cache /\ Closing
  BY DEF Init, Block, Blame, Cache, Closing, FailureIsReported, FailsForCause, NothingLeftInCache, Ended, Writing
<1>4. Track
  <2>1. Start <= safe /\ safe <= nwa /\ nwa <= Start + Chunks * Chunk
    BY <1>s DEF Init
  <2>2. nwa <= Start + job.length /\ pc = "setup"
    BY <1>s DEF Init
  <2> QED
    BY <2>1, <2>2 DEF Track
<1>5. Progress
  <2>1. ImageInPlace
    <3>1. \A a \in Sectors : disc[a] = 0
      BY Zenon DEF Init
    <3>2. Start .. nwa - 1 = {}
      BY <1>s DEF Init
    <3> QED
      BY <3>1, <3>2, Zenon DEF ImageInPlace
  <2>2. blk = 0 /\ pc = "setup" /\ how = "none"
    BY DEF Init
  <2> QED
    BY <1>s, <2>1, <2>2 DEF Progress
<1> QED
  BY <1>1, <1>2, <1>3, <1>4, <1>5 DEF IndInv

LEMMA StepInv == IndInv /\ [Next]_vars => IndInv'
<1> SUFFICES ASSUME IndInv, [Next]_vars PROVE IndInv'
  OBVIOUS
<1>1. Types /\ Flags /\ Where /\ Block /\ Track /\ Progress /\ Blame /\ Cache /\ Closing
  BY DEF IndInv
<1>2. Types' /\ Flags'
  BY <1>1, StepDisc, StepNumbers, StepLabels, StepFlags DEF Types
<1>3. Where' /\ Block' /\ Track'
  BY <1>1, StepWhere, StepBlock, StepTrack
<1>4. Progress' /\ Blame' /\ Cache' /\ Closing'
  BY <1>1, StepProgress, StepBlame, StepCache, StepClosing
<1> QED
  BY <1>2, <1>3, <1>4 DEF IndInv

\* Whatever the unit answers and whenever a signal arrives or the power fails,
\* the program, the unit and the disc agree as IndInv says.
THEOREM Invariance == Spec => []IndInv
<1>1. UNCHANGED vars => [Next]_vars
  OBVIOUS
<1> QED
  BY InitInv, StepInv, PTL DEF Spec

\* The recording ends as it should, for every disc and image: it fails for a
\* cause, says so, and leaves a write-once disc open that was interrupted
\* (growisofs_mmc.cpp:2064).
THEOREM RecordingEndsRightly == Spec => []EndsRightly
<1>1. IndInv => EndsRightly
  <2> SUFFICES ASSUME IndInv PROVE EndsRightly
    OBVIOUS
  <2>1. TypeOK
    <3>1. /\ job \in Jobs /\ disc \in [Sectors -> Int]
          /\ {nwa, safe, nextWr, firstWr, cut, nbl, blk} \subseteq Nat
          /\ {retries, busy, run} \subseteq Nat
      BY DEF IndInv, Types, Numbers
    <3>2. {dirty, trackClosed, closed, written, blocked, quickgrown, doReload, refused, flushFailed,
           impatient} \subseteq BOOLEAN
      BY Zenon DEF IndInv, Flags
    <3>3. /\ {errno, saved} \subseteq {0, EINTR, EIO} /\ status \in {0, 1, EINTR, EIO, 128 + EIO}
          /\ pc \in PCs /\ how \in Hows
      BY DEF IndInv, Types, Labels
    <3> QED
      BY <3>1, <3>2, <3>3, Zenon DEF TypeOK, PCs, Hows
  <2>2. FailureIsReported /\ FailsForCause
    BY DEF IndInv, Blame
  <2>3. InterruptedStaysOpen
    BY DEF IndInv, Closing, InterruptedStaysOpen
  <2> QED
    BY <2>1, <2>2, <2>3 DEF EndsRightly
<1> QED
  BY <1>1, Invariance, PTL

\* Whatever is cut off, skipped, overwritten, lost with the power or resumed, a
\* sector holds nothing or what belongs there (growisofs_mmc.cpp:480).
THEOREM ImageStaysInPlace == Spec => []ImageInPlace
<1>1. IndInv => ImageInPlace
  BY DEF IndInv, Progress
<1> QED
  BY <1>1, Invariance, PTL

\* The program does not end with data in the unit's cache but for the cases
\* that NothingLeftInCache names (growisofs_mmc.cpp:494).
THEOREM CacheIsFlushed == Spec => []NothingLeftInCache
<1>1. IndInv => NothingLeftInCache
  BY DEF IndInv, Cache
<1> QED
  BY <1>1, Invariance, PTL

\* Exit status 0 after the last block means that all of the image and its
\* descriptors are on the disc, and that the disc is closed
\* (growisofs_mmc.cpp:1780).
THEOREM SuccessIsComplete == Spec => []SuccessMeansComplete
<1>1. IndInv => SuccessMeansComplete
  <2> SUFFICES ASSUME IndInv, Ended, how = "done", status = 0, ~job.reload
               PROVE  /\ \A a \in Start .. Start + job.length - 1 : disc[a] = Meant(a)
                      /\ Relocates => \A a \in Chunk .. 2 * Chunk - 1 : disc[a] = Meant(a)
                      /\ ~job.dao => ~dirty \/ job.kind = "RAM"
                      /\ WriteOnce /\ ~job.dao /\ nbl # 0 => trackClosed /\ (~job.pow => closed)
    BY DEF SuccessMeansComplete
  <2>s. /\ Chunk \in Nat /\ Chunk > 0 /\ Chunks \in Nat /\ Start \in Nat /\ Descriptors = Chunks + 1
        /\ job.length \in Nat /\ job.length <= Chunks * Chunk /\ Chunks * Chunk \in Nat
        /\ (Relocates => Start >= 2 * Chunk)
    BY Sizes DEF IndInv, Types
  <2>1. /\ blk \in Nat /\ blk >= Chunks /\ (Relocates => blk > Descriptors)
        /\ \A b \in 0 .. Chunks - 1 : b < blk => Holds(disc, Address(b), Chunk)
        /\ blk > Descriptors => Holds(disc, Chunk, Chunk)
    BY DEF IndInv, Types, Numbers, Progress
  <2>2. ASSUME NEW a \in Start .. Start + job.length - 1 PROVE disc[a] = Meant(a)
    <3>1. a \in Int /\ a - Start \in Nat /\ a - Start < Chunks * Chunk /\ a < Start + job.length
      BY <2>s
    <3>2. PICK b \in 0 .. Chunks - 1 : b * Chunk <= a - Start /\ a - Start < b * Chunk + Chunk
      BY <2>s, <3>1, BlockOf
    <3>3. Address(b) = Start + b * Chunk /\ b * Chunk \in Nat
      BY BlockBounds DEF IndInv, Types
    <3>4. a \in Address(b) .. Address(b) + Chunk - 1
      BY <2>s, <3>1, <3>2, <3>3
    <3>5. Holds(disc, Address(b), Chunk)
      <4>1. b < blk
        BY <2>s, <2>1, <3>2
      <4> QED
        BY <2>1, <4>1
    <3> QED
      BY <3>1, <3>4, <3>5, Zenon DEF Holds
  <2>3. ASSUME Relocates, NEW a \in Chunk .. 2 * Chunk - 1 PROVE disc[a] = Meant(a)
    <3>1. a \in Chunk .. Chunk + Chunk - 1 /\ a < Start + job.length
      BY <2>s, <2>3
    <3> QED
      BY <2>1, <2>3, <3>1, Zenon DEF Holds
  <2>4. ~job.dao => ~dirty \/ job.kind = "RAM"
    BY DEF IndInv, Cache
  <2>5. WriteOnce /\ ~job.dao /\ nbl # 0 => trackClosed /\ (~job.pow => closed)
    BY DEF IndInv, Closing
  <2> QED
    BY <2>2, <2>3, <2>4, <2>5
<1> QED
  BY <1>1, Invariance, PTL
===============================================================================
