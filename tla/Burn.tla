--------------------------------- MODULE Burn ---------------------------------
(***************************************************************************)
(* The burning side of growisofs (growisofs_mmc.cpp): poor_mans_setup()    *)
(* prepares a DVD or Blu-ray Disc, poor_mans_pwrite64() writes 32 KB of    *)
(* it, and the handler of its kind, *_finalize(), flushes and closes it    *)
(* when the program ends or a signal arrives.  What the unit holds in its  *)
(* cache is lost with its power; a write-once disc whose session is still  *)
(* open is resumed by the next run from the unit's next writable address.  *)
(*                                                                         *)
(* A step is a SCSI command with what is done about its answer, or the     *)
(* code between two of them; a signal may arrive before each step.         *)
(***************************************************************************)
EXTENDS Integers, Sequences

CONSTANTS
    Jobs,       \* what may be recorded, see Job
    Chunk,      \* sectors of 2 KB in a block of 32 KB
    Chunks,     \* blocks of the image
    Hold,       \* sectors during which signals are held back, buf_size/2
    MaxBusy,    \* bound of the model: how often the unit postpones
    MaxRuns     \* bound of the model: runs of the program on one disc

\* kind: of the disc; dl: it has a double layer; pow: it can be overwritten in
\* part; compat: dvd_compat; dao: is_dao; next: next_session, in blocks;
\* length: sectors of the image; reload: no_reload <= 0.
Kinds == {"+RW", "+R", "-RW", "-R", "RAM", "BD-R", "BD-RE"}
Job == [kind : Kinds, dl : BOOLEAN, pow : BOOLEAN, compat : BOOLEAN, dao : BOOLEAN,
        next : Nat, length : Nat, reload : BOOLEAN]
ASSUME JobAssumption ==
    /\ Jobs \subseteq Job
    /\ \A j \in Jobs : j.length > (Chunks - 1) * Chunk /\ j.length <= Chunks * Chunk
    /\ \A j \in Jobs : j.next # 1   \* a session begins after the descriptors it continues
ASSUME SizeAssumption ==
    Chunk \in Nat \ {0} /\ Chunks \in Nat \ {0} /\ Hold \in Nat /\ MaxBusy \in Nat /\ MaxRuns \in Nat

EINTR == 4
EIO == 5

VARIABLES
    job,
    \* the unit: the sectors, how many of a write-once track are written and
    \* recorded for certain, is there more in the cache, is the track, is the
    \* session closed?
    disc, nwa, safe, dirty, trackClosed, closed,
    \* the program: media_written, next_wr_addr, signals_blocked, first_wr_addr,
    \* quickgrown, do_reload, errno, saved_errno, retries
    written, nextWr, blocked, firstWr, quickgrown, doReload, errno, saved, retries,
    \* where it is: the block it writes, how many sectors of it are cut off at
    \* the front and how many are written, what the handler still has to do
    pc, blk, cut, nbl, todo, status,
    \* history: why the program ended, runs so far, commands postponed; has the
    \* unit refused a command, failed to flush, postponed the very first write?
    how, run, busy, refused, flushFailed, impatient

unit == <<disc, nwa, safe, dirty, trackClosed, closed>>
mode == <<written, nextWr, blocked, firstWr, quickgrown, doReload>>
count == <<retries, busy>>
place == <<blk, cut, nbl>>
history == <<how, run, refused, flushFailed, impatient>>
vars == <<job, unit, mode, errno, saved, count, pc, place, todo, status, history>>

WriteOnce == job.kind \in {"+R", "-R", "BD-R"}
\* poor_man_rewritable() for this disc
Rewritable == ~WriteOnce \/ job.pow
Relocates == job.next # 0 /\ Rewritable

Start == job.next * Chunk
Sectors == 0 .. (job.next + Chunks) * Chunk - 1
DaoBlocks == IF job.dao THEN Start + job.length ELSE 0

\* Blocks 0 to Chunks - 1 are the image; Descriptors stands for the volume
\* descriptors, which go to VOLDESC_OFF.
Descriptors == Chunks + 1
Address(b) == IF b = Descriptors THEN Chunk ELSE Start + b * Chunk
Content(b, i) == IF b = Descriptors THEN -1 - i ELSE b * Chunk + i + 1

----------------------------------------------------------------------------
(* poor_mans_setup                                                         *)

\* It starts as a boolean that asks for the resumption of write-once discs.
NextWritable == IF WriteOnce THEN {0, nwa} ELSE {0}

SetupDone ==
    /\ pc' = "idle" /\ nextWr' \in NextWritable
    /\ quickgrown' \in IF job.kind = "-RW" THEN BOOLEAN ELSE {FALSE}
    /\ UNCHANGED <<errno, status, how>>

SetupFails ==
    /\ pc' = "end" /\ status' = 128 + EIO /\ how' = "start" /\ errno' = EIO
    /\ UNCHANGED <<nextWr, quickgrown>>

\* Lock the tray, format or reserve a track, ask for the next writable address.
Setup ==
    /\ pc = "setup"
    /\ SetupDone \/ SetupFails
    /\ UNCHANGED <<job, unit, written, blocked, firstWr, doReload, saved, count, place,
                   todo, run, refused, flushFailed, impatient>>

----------------------------------------------------------------------------
(* poor_mans_pwrite64                                                      *)

Skips == ~written /\ nextWr # 0 /\ Address(blk) + Chunk <= nextWr
CutAt == IF ~written /\ nextWr > Address(blk) THEN nextWr - Address(blk) ELSE 0

Truncated(a, n) == IF DaoBlocks # 0 /\ a + n > DaoBlocks THEN DaoBlocks - a ELSE n

\* Mutant: signals are let through from the first write on.
HoldSignalsNot(a) == blocked' = FALSE /\ firstWr' = a

\* Signals are held back until half the unit's buffer is written.
HoldSignals(a) ==
    IF ~written THEN blocked' = TRUE /\ firstWr' = a
    ELSE blocked' = (blocked /\ a < firstWr + Hold) /\ UNCHANGED firstWr

NextBlock == blk \in 0 .. Chunks - 1 \cup {Descriptors}

Pwrite ==
    /\ pc = "idle" /\ NextBlock
    /\ IF Skips
       THEN blk' = blk + 1 /\ UNCHANGED <<pc, cut, nbl, blocked, firstWr, count>>
       ELSE LET first == Address(blk) + CutAt IN
            /\ cut' = CutAt /\ nbl' = Truncated(first, Chunk - CutAt)
            /\ HoldSignals(first)
            /\ retries' = 0 /\ pc' = "write"
            /\ UNCHANGED <<blk, busy>>
    /\ UNCHANGED <<job, unit, written, nextWr, quickgrown, doReload, errno, saved, todo,
                   status, history>>

lba == Address(blk) + cut

\* Mutant: the buffer is not advanced with the address.
BufferNotAdvanced(a) == Content(blk, a - lba)

\* What goes to sector a: buff was advanced as far as lba.
Buffer(a) == Content(blk, cut + a - lba)

\* The unit takes the data.
Accepts == ~WriteOnce \/ lba = nwa \/ (job.pow /\ lba + nbl <= nwa)
WriteOk ==
    /\ pc = "write" /\ Accepts
    /\ disc' = [a \in Sectors |-> IF a \in lba .. lba + nbl - 1 THEN Buffer(a) ELSE disc[a]]
    /\ nwa' = IF WriteOnce /\ lba = nwa THEN lba + nbl ELSE nwa
    /\ dirty' = TRUE
    /\ pc' = "wrote"
    /\ UNCHANGED <<job, safe, trackClosed, closed, mode, errno, saved, count, place, todo,
                   status, history>>

Postponed == pc = "write" /\ busy < MaxBusy /\ busy' = busy + 1 /\ errno' = EIO

\* "LONG WRITE IN PROGRESS": nap and repeat; or, for a unit that does not say
\* how fast it writes, ask for events and flush.
LongWrite ==
    /\ Postponed
    /\ pc' \in {"write", "sync"} /\ retries' \in {retries, retries + 1}
    /\ UNCHANGED <<job, unit, mode, saved, place, todo, status, history>>

\* "IN PROCESS OF BECOMING READY" at the first sector: signals are let through
\* unless the unit reports an event.
BecomingReady ==
    /\ Postponed /\ lba = 0
    /\ \/ UNCHANGED <<blocked, retries, impatient>>
       \/ /\ blocked' = FALSE /\ retries' = IF retries + 1 > 3 THEN 0 ELSE retries + 1
          /\ impatient' = (impatient \/ ~written)
    /\ UNCHANGED <<job, unit, written, nextWr, firstWr, quickgrown, doReload, saved, pc,
                   place, todo, status, how, run, refused, flushFailed>>

\* "FORMAT" or "OPERATION IN PROGRESS", "COMMAND SEQUENCE ERROR"
Busy ==
    /\ Postponed /\ pc' = "sync"
    /\ UNCHANGED <<job, unit, mode, saved, retries, place, todo, status, history>>

\* SYNC CACHE; the second time signals are let through.
SyncCache ==
    /\ pc = "sync" /\ pc' = "write"
    /\ safe' = nwa /\ dirty' = FALSE
    /\ IF retries + 1 > 1
       THEN retries' = 0 /\ blocked' = FALSE /\ impatient' = (impatient \/ ~written)
       ELSE retries' = retries + 1 /\ UNCHANGED <<blocked, impatient>>
    /\ UNCHANGED <<job, disc, nwa, trackClosed, closed, written, nextWr, firstWr, quickgrown,
                   doReload, errno, saved, busy, place, todo, status, how, run, refused,
                   flushFailed>>

\* Any other error: a double layer disc is left as it is, to be resumed.
WriteFails ==
    /\ pc \in {"write", "sync"}
    /\ written' \in IF job.kind = "+R" /\ job.dl THEN {FALSE, written} ELSE {written}
    /\ errno' = EIO /\ refused' = TRUE
    /\ pc' = "exiting" /\ how' = "failed"
    /\ UNCHANGED <<job, unit, nextWr, blocked, firstWr, quickgrown, doReload, saved, count,
                   place, todo, status, run, flushFailed, impatient>>

\* The size returned, compared with DVD_BLOCK, is shorter by what was cut off.
Short == cut # 0

Account ==
    /\ pc = "wrote"
    /\ nextWr' = lba + nbl /\ written' = TRUE
    /\ IF Short
       THEN pc' = "exiting" /\ how' = "failed" /\ errno' = EIO /\ UNCHANGED blk
       ELSE pc' = "idle" /\ blk' = blk + 1 /\ UNCHANGED <<errno, how>>
    /\ UNCHANGED <<job, unit, blocked, firstWr, quickgrown, doReload, saved, count, cut, nbl,
                   todo, status, run, refused, flushFailed, impatient>>

----------------------------------------------------------------------------
(* main() and poor_man_rewritable                                          *)

LeavesMain(why, e) ==
    /\ pc' = "exiting" /\ how' = why /\ errno' = e
    /\ UNCHANGED <<job, blocked, firstWr, quickgrown, saved, count, place, todo, status, run,
                   flushFailed, impatient>>

\* The input or mkisofs fails.
InputFails ==
    /\ pc = "idle" /\ blk <= Chunks
    /\ LeavesMain("input", EIO)
    /\ UNCHANGED <<unit, written, nextWr, doReload, refused>>

\* set_errno(0), exit(0)
Done ==
    /\ pc = "idle" /\ ~NextBlock /\ (Relocates => blk > Descriptors)
    /\ LeavesMain("done", 0)
    /\ UNCHANGED <<unit, written, nextWr, doReload, refused>>

\* The cache is flushed before the old descriptors are read; a restricted
\* overwrite disc by minus_rw_finalize() with do_reload = 0.
Relocate ==
    /\ pc = "idle" /\ blk = Chunks /\ Relocates
    /\ pc' = IF job.kind = "-RW" THEN "inner" ELSE IF job.kind = "RAM" THEN "read" ELSE "flush"
    /\ doReload' = (job.kind # "-RW")
    /\ UNCHANGED <<job, unit, written, nextWr, blocked, firstWr, quickgrown, errno, saved,
                   count, place, todo, status, history>>

RelocateFlush ==
    /\ pc = "flush"
    /\ \/ /\ safe' = nwa /\ dirty' = FALSE /\ pc' = "read"
          /\ UNCHANGED <<job, blocked, firstWr, quickgrown, saved, count, place, todo, status,
                         errno, history>>
       \/ /\ LeavesMain("failed", EIO) /\ refused' = TRUE /\ UNCHANGED <<safe, dirty>>
    /\ UNCHANGED <<disc, nwa, trackClosed, closed, written, nextWr, doReload>>

\* READ(10) of the descriptors, which may not be those of a volume.
ReadBack ==
    /\ pc = "read" /\ doReload' = TRUE
    /\ \/ /\ pc' = "idle" /\ blk' = Descriptors
          /\ UNCHANGED <<job, blocked, firstWr, quickgrown, saved, count, cut, nbl, todo, status,
                         errno, history>>
       \/ LeavesMain("failed", EIO) /\ refused' = TRUE
    /\ UNCHANGED <<unit, written, nextWr>>

----------------------------------------------------------------------------
(* The handlers: what is left to do once the disc was written to.          *)
Finalize ==
    CASE job.kind = "RAM" -> <<"reload">>
      [] job.kind = "+RW" /\ job.compat -> <<"flush", "leadout", "wait", "reload">>
      [] job.kind = "+RW" /\ ~job.compat -> <<"flush", "deice", "wait", "leadout", "wait", "reload">>
      [] job.kind = "-RW" /\ quickgrown -> <<"flush", "session", "wait", "reload">>
      [] (job.kind = "-RW" /\ ~quickgrown) \/ (job.kind = "-R" /\ job.dao) \/ job.kind = "BD-RE" ->
            <<"flush", "reload">>
      [] job.kind = "BD-R" /\ job.pow -> <<"flush", "track", "wait", "reload">>
      [] OTHER -> <<"flush", "track", "wait", "session", "wait", "reload">>

\* Mutant: write-once discs get the handler that closes them.
SignalClosing == Finalize

\* atsignals: no_r_finalize() for write-once discs
OnSignal == IF WriteOnce THEN <<"flush", "stop">> ELSE Finalize

\* atexit, or the call in poor_man_rewritable
Enter ==
    /\ pc \in {"exiting", "inner"}
    /\ blocked' = TRUE /\ saved' = errno
    /\ IF written THEN pc' = "final" /\ todo' = Finalize /\ UNCHANGED status
                  ELSE pc' = "end" /\ status' = errno /\ UNCHANGED todo
    /\ UNCHANGED <<job, unit, written, nextWr, firstWr, quickgrown, doReload, errno, count,
                   place, history>>

\* A signal that is not held back.
Interrupt ==
    /\ ~blocked
    /\ pc \in {"idle", "write", "wrote", "sync", "flush", "read", "exiting", "inner"}
    /\ blocked' = TRUE /\ saved' = errno /\ how' = "signal"
    /\ IF written THEN pc' = "final" /\ todo' = OnSignal /\ UNCHANGED status
                  ELSE pc' = "end" /\ status' = errno /\ UNCHANGED todo
    /\ UNCHANGED <<job, unit, written, nextWr, firstWr, quickgrown, doReload, errno, count,
                   place, run, refused, flushFailed, impatient>>

Step(what) == pc = "final" /\ todo # <<>> /\ Head(todo) = what
NextStep == todo' = Tail(todo) /\ UNCHANGED <<pc, status>>
Leave(e) == pc' = "end" /\ status' = e /\ todo' = <<>>
StepKeeps == UNCHANGED <<job, disc, nwa, blocked, firstWr, count, place, run, impatient>>

\* flush_cache(cmd, !is_dao)
Immediately == job.kind = "-R" /\ job.dao /\ how # "signal"

\* flush_cache: without the second, synchronous command an error is not noticed.
FlushStep ==
    /\ Step("flush")
    /\ \/ /\ safe' = nwa /\ dirty' = FALSE /\ errno' \in {errno, EIO} /\ NextStep
          /\ UNCHANGED flushFailed
       \/ /\ errno' = EIO /\ flushFailed' = TRUE
          /\ IF Immediately THEN NextStep ELSE Leave(EIO)
          /\ UNCHANGED <<safe, dirty>>
    /\ StepKeeps
    /\ UNCHANGED <<trackClosed, closed, written, nextWr, quickgrown, doReload, saved, how, refused>>

\* "Stop De-Icing", the lead-out of DVD+RW: errors are only printed.
PrintedStep ==
    /\ Step("deice") \/ Step("leadout")
    /\ NextStep
    /\ \/ /\ closed' = (Head(todo) = "leadout") /\ UNCHANGED errno
       \/ errno' = EIO /\ UNCHANGED closed
    /\ StepKeeps
    /\ UNCHANGED <<safe, dirty, trackClosed, written, nextWr, quickgrown, doReload, saved,
                   how, refused, flushFailed>>

\* Mutant: the error of CLOSE TRACK or CLOSE SESSION is only printed.
CloseErrorPrinted == errno' = EIO /\ refused' = TRUE /\ UNCHANGED <<saved, trackClosed, closed>>

CloseError == errno' = EIO /\ saved' = EIO /\ refused' = TRUE /\ UNCHANGED <<trackClosed, closed>>

\* CLOSE TRACK and CLOSE SESSION; "OP IN PROGRESS" repeats the command.
CloseStep ==
    /\ Step("track") \/ Step("session")
    /\ NextStep
    /\ \/ /\ trackClosed' = TRUE /\ closed' = (Head(todo) = "session")
          /\ UNCHANGED <<errno, saved, refused>>
       \/ CloseError
    /\ quickgrown' = (quickgrown /\ Head(todo) # "session")
    /\ StepKeeps
    /\ UNCHANGED <<safe, dirty, written, nextWr, doReload, how, flushFailed>>

\* wait_for_unit
WaitStep ==
    /\ Step("wait")
    /\ \/ NextStep /\ UNCHANGED <<errno, refused>>
       \/ Leave(EIO) /\ errno' = EIO /\ refused' = TRUE
    /\ StepKeeps
    /\ UNCHANGED <<safe, dirty, trackClosed, closed, written, nextWr, quickgrown, doReload,
                   saved, how, flushFailed>>

\* The rest of no_r_finalize.
StopStep ==
    /\ Step("stop")
    /\ written' = FALSE /\ errno' = EINTR /\ Leave(EINTR)
    /\ StepKeeps
    /\ UNCHANGED <<safe, dirty, trackClosed, closed, nextWr, quickgrown, doReload, saved,
                   how, refused, flushFailed>>

\* The end of a handler.  media_reload() becomes another program, which knows
\* nothing of what happened.  minus_rw_finalize() with do_reload = 0 returns:
\* to poor_man_rewritable(), if that called it, or else the program ends.
ReloadStep ==
    /\ Step("reload")
    /\ written' = (written /\ job.kind = "RAM")
    /\ nextWr' = IF WriteOnce \/ job.kind = "RAM" THEN nextWr ELSE 0
    /\ IF doReload THEN \E s \in (IF job.reload THEN {0, 1, saved} ELSE {saved}) : Leave(s)
       ELSE IF how = "none" THEN pc' = "read" /\ todo' = <<>> /\ UNCHANGED status
       ELSE Leave(errno)
    /\ StepKeeps
    /\ UNCHANGED <<safe, dirty, trackClosed, closed, quickgrown, doReload, errno, saved, how,
                   refused, flushFailed>>

----------------------------------------------------------------------------
\* The unit loses its power or the program is killed: what was in the cache is
\* recorded in part.
Crash ==
    /\ WriteOnce /\ pc \notin {"setup", "end"}
    /\ nwa' \in safe .. nwa /\ safe' = nwa' /\ dirty' = FALSE
    /\ disc' = [a \in Sectors |-> IF a >= nwa' THEN 0 ELSE disc[a]]
    /\ pc' = "end" /\ how' = "crash" /\ status' = 1 /\ todo' = <<>>
    /\ UNCHANGED <<job, trackClosed, closed, mode, errno, saved, count, place, run, refused,
                   flushFailed, impatient>>

\* The program is started again on a write-once disc that is still open.  One
\* that can be overwritten in part gets a new session where the data end.
Resume ==
    /\ pc = "end" /\ run < MaxRuns
    /\ WriteOnce /\ ~Relocates /\ ~trackClosed /\ ~closed /\ (how = "crash" \/ ~dirty)
    /\ run' = run + 1 /\ pc' = "setup" /\ how' = "none"
    /\ written' = FALSE /\ nextWr' = 1 /\ blocked' = FALSE /\ firstWr' = 0
    /\ quickgrown' = FALSE /\ doReload' = TRUE
    /\ errno' = 0 /\ saved' = 0 /\ retries' = 0 /\ busy' = 0
    /\ blk' = 0 /\ cut' = 0 /\ nbl' = 0 /\ todo' = <<>> /\ status' = 0
    /\ refused' = FALSE /\ flushFailed' = FALSE /\ impatient' = FALSE
    /\ UNCHANGED <<job, unit>>

Init ==
    /\ job \in Jobs
    /\ disc = [a \in Sectors |-> 0] /\ nwa = Start /\ safe = Start
    /\ dirty = FALSE /\ trackClosed = FALSE /\ closed = FALSE
    /\ written = FALSE /\ nextWr = 1 /\ blocked = FALSE /\ firstWr = 0
    /\ quickgrown = FALSE /\ doReload = TRUE
    /\ errno = 0 /\ saved = 0 /\ retries = 0 /\ busy = 0
    /\ pc = "setup" /\ blk = 0 /\ cut = 0 /\ nbl = 0 /\ todo = <<>> /\ status = 0
    /\ how = "none" /\ run = 1
    /\ refused = FALSE /\ flushFailed = FALSE /\ impatient = FALSE

Write == Pwrite \/ WriteOk \/ LongWrite \/ BecomingReady \/ Busy \/ SyncCache \/ WriteFails \/ Account
Main == InputFails \/ Done \/ Relocate \/ RelocateFlush \/ ReadBack
Handler == Enter \/ FlushStep \/ PrintedStep \/ CloseStep \/ WaitStep \/ StopStep \/ ReloadStep
Program == Setup \/ Write \/ Main \/ Handler

Next == Program \/ Interrupt \/ Crash \/ Resume

Spec == Init /\ [][Next]_vars

----------------------------------------------------------------------------
(* Properties.                                                             *)

\* Every variable holds what its declaration in the code allows.
TypeOK ==
    /\ job \in Jobs
    /\ disc \in [Sectors -> Int] /\ {nwa, safe, nextWr, firstWr, cut, nbl, blk} \subseteq Nat
    /\ {dirty, trackClosed, closed, written, blocked, quickgrown, doReload, refused,
        flushFailed, impatient} \subseteq BOOLEAN
    /\ {errno, saved} \subseteq {0, EINTR, EIO} /\ status \in {0, 1, EINTR, EIO, 128 + EIO}
    /\ pc \in {"setup", "idle", "write", "wrote", "sync", "flush", "read", "inner", "exiting",
               "final", "end"}
    /\ how \in {"none", "done", "failed", "input", "signal", "crash", "start"}
    /\ {retries, busy, run} \subseteq Nat

Meant(a) == IF a >= Start THEN a - Start + 1 ELSE Content(Descriptors, a - Chunk)
Ended == pc = "end"

\* Whatever was interrupted, postponed, lost or resumed: a sector holds nothing
\* or what belongs there, and on a write-once disc those before the next
\* writable address are the image's (growisofs_mmc.cpp:480).
ImageInPlace ==
    /\ \A a \in Sectors : disc[a] \in {0, Meant(a)}
    /\ WriteOnce => \A a \in Start .. nwa - 1 : disc[a] # 0

\* The program never ends leaving data in the unit's cache, unless the unit
\* could not flush them or postponed the very first write so that a signal was
\* let through before media_written was set (growisofs_mmc.cpp:494), or the
\* session is left to be resumed on purpose.  DVD-RAM is exempt: ram_reload()
\* flushes nothing (growisofs_mmc.cpp:1997).
NothingLeftInCache ==
    Ended /\ dirty => flushFailed \/ impatient \/ job.kind = "RAM" \/ (job.dl /\ refused)

\* Without a reload, exit status 0 after the last block means that all of the
\* image is on the disc, its descriptors too, and that the disc is closed,
\* unless a resumed run found nothing left to write (growisofs_mmc.cpp:1780).
SuccessMeansComplete ==
    Ended /\ how = "done" /\ status = 0 /\ ~job.reload =>
        /\ \A a \in Start .. Start + job.length - 1 : disc[a] = Meant(a)
        /\ Relocates => \A a \in Chunk .. 2 * Chunk - 1 : disc[a] = Meant(a)
        /\ ~job.dao => ~dirty \/ job.kind = "RAM"
        /\ WriteOnce /\ ~job.dao /\ nbl # 0 => trackClosed /\ (~job.pow => closed)

\* Without a reload, a recording that failed ends with an exit status that
\* says so.
FailureIsReported ==
    Ended /\ how \in {"failed", "input", "start"} /\ ~job.reload => status # 0

\* "if recording to write-once media is terminated by external event, leave
\* the session opened, so that the recording can be resumed"
InterruptedStaysOpen == how = "signal" /\ WriteOnce => ~trackClosed /\ ~closed

\* A write fails only if the unit refused a command or the session was
\* resumed within a block of 32 KB (growisofs_mmc.cpp:483).
FailsForCause == how = "failed" => refused \/ cut > 0

\* How a recording ends: it fails for a cause, says so, and is left to be
\* resumed if it was interrupted (growisofs_mmc.cpp:2064).
EndsRightly == TypeOK /\ FailureIsReported /\ InterruptedStaysOpen /\ FailsForCause
==============================================================================
