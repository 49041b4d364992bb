------------------------------- MODULE RingBuff -------------------------------
(***************************************************************************)
(* cdda2wav: the parent reads audio sectors into a ring of buffers in      *)
(* shared memory (forked_read, do_read), the child takes them out and      *)
(* writes the sound files (forked_write, do_write).                        *)
(*                                                                         *)
(* Two counters say how many buffers were defined and dropped.  The side   *)
(* that finds none sets a flag and reads a byte from a pipe; the other     *)
(* side, if it sees the flag, clears it and writes the byte.  Built with   *)
(* USE_SEMAPHORES the same calls are operations on two semaphores.         *)
(***************************************************************************)
EXTENDS Integers, Sequences

CONSTANTS
    Buffers,     \* global.buffers
    NSectors,    \* global.nsectors, sectors in a buffer
    F,           \* CD_FRAMESAMPLES, samples in a sector
    Jobs,        \* what may be recorded
    MaxRetry,    \* MAX_READRETRY
    ReadErrors,  \* may libparanoia give up on a sector?
    Signals      \* may the user interrupt the program?

ASSUME SizeAssumption ==
    Buffers \in Nat \ {0} /\ NSectors \in Nat \ {0} /\ F \in Nat \ {0} /\ MaxRetry \in Nat \ {0}

\* todo: samples wanted; end: lSector_p2; bound: where the second of the two
\* tracks starts; bulk: a file for each track; real: where the medium really
\* ends, if that is not known from the TOC, or 0; overlap: global.overlap;
\* pipes: the synchronisation that is built in, pipes or semaphores.
Job == [todo : Nat \ {0}, end : Nat, bound : Nat, bulk : BOOLEAN, real : Nat, overlap : Nat,
        pipes : BOOLEAN]

\* main() computes the samples from the sectors up to the end, or cuts the
\* time that is wanted to them.
ASSUME JobAssumption == Jobs \subseteq Job /\ \A j \in Jobs : j.todo <= j.end * F
ASSUME FlagAssumption == {ReadErrors, Signals} \subseteq BOOLEAN

\* main() raises buffers and nsectors until these hold.
ASSUME OverlapAssumption ==
    \A j \in Jobs : j.overlap > 0 => NSectors > j.overlap /\ Buffers > 1

Slots == 0 .. Buffers - 1
NULL == -1

VARIABLES
    job,
    \* shared memory
    data, offset, fill, last, read, written, childWaits, parentWaits, eor, todo,
    \* the bytes in the two pipes, or the two semaphores
    def, free,
    \* the reader: iloop, lSector, SectorBurst, overlap, previous_read_buffer
    rpc, iloop, lsec, burst, overlap, prev, retries,
    \* the writer: nSamplesDone, the buffer it has, current_offset,
    \* InSamples, current_track, and the files: <<number of the file, sample>>
    wpc, sDone, slot, woff, ins, track, file, out,
    \* signals on their way, and how the two ended
    rsig, wsig, rexit, wexit,
    \* history: was the reader woken while no buffer was free, or the writer
    \* while none was defined?
    early

ring == <<data, offset, fill, last, read, written>>
sync == <<childWaits, parentWaits, def, free>>
ends == <<eor, todo>>
reader == <<iloop, lsec, burst, overlap, prev, retries>>
writer == <<sDone, slot, woff, ins, track, file, out>>
signals == <<rsig, wsig>>
exits == <<rexit, wexit>>
vars == <<job, early, ring, sync, ends, rpc, reader, wpc, writer, signals, exits>>

\* Without USE_SEMAPHORES.
Pipes == job.pipes

Min2(a, b) == IF a <= b THEN a ELSE b
Size == NSectors * F

\* The slot after s.
INC(s) == (s + 1) % Buffers

Full == read - written >= Buffers
Empty == read = written

\* Mutant of InitialFree: one buffer too many.
InitialFreeWrong == IF Pipes THEN 0 ELSE Buffers + 1

\* The semaphore begins with all buffers, the pipe empty.
InitialFree == IF Pipes THEN 0 ELSE Buffers

Init ==
    /\ job \in Jobs
    /\ data = [s \in Slots |-> [i \in 1 .. Size |-> 0]]
    /\ offset = [s \in Slots |-> 0]
    /\ fill = NULL /\ last = NULL /\ prev = NULL
    /\ read = 0 /\ written = 0
    /\ childWaits = FALSE /\ parentWaits = FALSE
    /\ eor = FALSE /\ todo = job.todo
    /\ def = 0 /\ free = InitialFree
    /\ rpc = "loop" /\ iloop = job.todo /\ lsec = 0 /\ burst = 0
    /\ overlap = job.overlap /\ retries = 0
    /\ wpc = "loop" /\ sDone = 0 /\ slot = NULL /\ woff = 0 /\ ins = 0
    /\ track = 1 /\ file = 1 /\ out = <<>>
    /\ rsig = FALSE /\ wsig = FALSE /\ rexit = "none" /\ wexit = "none"
    /\ early = FALSE

------------------------------------------------------------------------------
(* The reader: get_next_buffer()                                           *)

ReaderEnds(how) == rpc' = "closing" /\ rexit' = how

ReadLoop ==
    /\ rpc = "loop"
    /\ IF iloop = 0 THEN ReaderEnds("ok") ELSE rpc' = "request" /\ UNCHANGED rexit
    /\ UNCHANGED <<job, early, ring, sync, ends, reader, wpc, writer, signals, wexit>>

\* semrequest(FREE_SEM)
RequestFree ==
    /\ rpc = "request"
    /\ IF Pipes THEN rpc' = (IF Full THEN "flag" ELSE "occupy") /\ UNCHANGED free
                ELSE free > 0 /\ free' = free - 1 /\ rpc' = "occupy"
    /\ UNCHANGED <<job, early, ring, childWaits, parentWaits, def, ends, reader, wpc, writer, signals, exits>>

\* *parent_waits = 1, a step after the test.
ParentWaits ==
    /\ rpc = "flag"
    /\ parentWaits' = TRUE
    /\ rpc' = "blocked"
    /\ UNCHANGED <<job, early, ring, childWaits, def, free, ends, reader, wpc, writer, signals, exits>>

\* The read() from the pipe: a byte, or the end of file if the child is gone.
ParentWakes ==
    /\ rpc = "blocked"
    /\ \/ free > 0 /\ free' = free - 1 /\ rpc' = "occupy" /\ UNCHANGED rexit
       \/ free = 0 /\ wpc = "gone" /\ ReaderEnds("semaphore") /\ UNCHANGED free
    /\ early' = (early \/ (rpc' = "occupy" /\ Full))
    /\ UNCHANGED <<job, ring, childWaits, parentWaits, def, ends, reader, wpc, writer, signals, wexit>>

\* How many sectors to read next: no more than are wanted, and none beyond
\* the end; `old' is what SectorBurst was before.
CalcSectorBurst(ls, old) ==
    IF ls + old - 1 >= job.end THEN job.end - ls
    ELSE Min2(NSectors, (iloop + F - 1) \div F)

OccupyBuffer ==
    /\ rpc = "occupy"
    /\ prev' = fill
    /\ fill' = IF fill = NULL THEN 0 ELSE INC(fill)
    /\ burst' = CalcSectorBurst(lsec, burst)
    /\ retries' = 0
    /\ rpc' = "read"
    /\ UNCHANGED <<job, early, data, offset, last, read, written, sync, ends, iloop, lsec, overlap,
                   wpc, writer, signals, exits>>

------------------------------------------------------------------------------
(* The reader: do_read()                                                   *)

\* The last track, whose end is not known, is read sector by sector.
Singly == job.real > 0 /\ lsec > job.bound

\* What the first n sectors from lSector on leave in the buffer.
Sectors(n) == [i \in 1 .. Size |-> IF i <= n * F THEN lsec * F + i ELSE data[fill][i]]

ReadSectors ==
    /\ rpc = "read" /\ ~Singly
    /\ data' = [data EXCEPT ![fill] = Sectors(burst)]
    /\ rpc' = "sync"
    /\ UNCHANGED <<job, early, offset, fill, last, read, written, sync, ends, reader,
                   wpc, writer, signals, exits>>

\* *eorecording is stored as soon as a sector is past the end.
ReadSingles ==
    /\ rpc = "read" /\ Singly
    /\ LET singles == IF job.real > lsec THEN Min2(burst, job.real - lsec) ELSE 0
       IN  /\ data' = [data EXCEPT ![fill] = Sectors(singles)]
           /\ eor' = (singles < burst)
           /\ burst' = singles
    /\ rpc' = IF eor' THEN "shrink" ELSE "sync"
    /\ UNCHANGED <<job, early, offset, fill, last, read, written, sync, todo, iloop, lsec, overlap,
                   prev, retries, wpc, writer, signals, exits>>

\* *nSamplesToDo -= ..., a step later.
ShrinkJob ==
    /\ rpc = "shrink"
    /\ todo' = todo - (iloop - burst * F)
    /\ iloop' = burst * F
    /\ rpc' = "sync"
    /\ UNCHANGED <<job, early, ring, sync, eor, lsec, burst, overlap, prev, retries, wpc, writer, signals, exits>>

\* libparanoia cannot read a sector: exit(READ_ERROR).
UnrecoverableError ==
    /\ ReadErrors /\ rpc = "read"
    /\ ReaderEnds("read")
    /\ UNCHANGED <<job, early, ring, sync, ends, reader, wpc, writer, signals, wexit>>

Unsynchronised == todo = iloop \/ overlap = 0 \/ burst * F <= F

\* Mutant of Continues: at the sample that is the last of the previous buffer.
ContinuesAtLast == {i \in 0 .. Size - 1 : data[prev][Size] # 0 /\ data[fill][i + 1] = data[prev][Size]}

\* Where in the new buffer the previous one goes on: behind the samples that
\* are the last of it.  What a short read left in that one counts as well.
Continues == {i \in 1 .. Size : data[prev][Size] # 0 /\ data[fill][i] = data[prev][Size]}

\* The rest of do_read(), with what was found: the offset in samples, whether
\* there was a match, overlap, lSector and SectorBurst.
Advance(off, match, ov, ls, bu) ==
    LET added == bu * F - off
        less == match /\ todo # iloop /\ off > F /\ ov > 1
        ov2 == IF less THEN ov - 1 ELSE ov
        bu2 == IF less THEN CalcSectorBurst(ls, bu) ELSE bu
    IN  /\ offset' = [offset EXCEPT ![fill] = off]
        \* added_size is unsigned
        /\ iloop' = IF added >= 0 /\ iloop >= added THEN iloop - added ELSE 0
        /\ overlap' = ov2 /\ burst' = bu2 /\ lsec' = ls + bu2 - ov2
        /\ rpc' = "define"
        /\ UNCHANGED retries

\* No match: a larger overlap, if possible, and a new try.
Retry(ov, ls) ==
    LET bu == CalcSectorBurst(ls, burst)
    IN  IF retries + 1 < MaxRetry
          THEN /\ retries' = retries + 1 /\ rpc' = "read"
               /\ overlap' = ov /\ lsec' = ls /\ burst' = bu
               /\ UNCHANGED <<offset, iloop>>
          ELSE Advance(ov * F, FALSE, ov, ls, bu)

CanGrow == overlap < NSectors - 1

Synchronize ==
    /\ rpc = "sync"
    /\ IF Unsynchronised THEN Advance(0, TRUE, overlap, lsec, burst)
       ELSE IF Continues # {} THEN \E off \in Continues : Advance(off, TRUE, overlap, lsec, burst)
       ELSE IF CanGrow THEN Retry(overlap + 1, lsec - 1)
       ELSE Retry(1, lsec + overlap - 1)
    /\ UNCHANGED <<job, early, data, fill, last, read, written, sync, ends, prev, wpc, writer,
                   signals, exits>>

------------------------------------------------------------------------------
(* The reader: define_buffer(), and the end of the process                 *)

\* assert(defined_buffers() < total_buffers): abort() ends the process without
\* CloseAll().
FirstDefined ==
    /\ rpc = "define"
    /\ IF read - written < Buffers
         THEN rpc' = "count" /\ last' = (IF last = NULL THEN fill ELSE last) /\ UNCHANGED rexit
         ELSE rpc' = "gone" /\ rexit' = "abort" /\ UNCHANGED last
    /\ UNCHANGED <<job, early, data, offset, fill, read, written, sync, ends, reader,
                   wpc, writer, signals, wexit>>

CountDefined ==
    /\ rpc = "count"
    /\ read' = read + 1
    /\ rpc' = "release"
    /\ UNCHANGED <<job, early, data, offset, fill, last, written, sync, ends, reader,
                   wpc, writer, signals, exits>>

\* semrelease(DEF_SEM): the flag is tested, cleared and answered.
ReleaseDefined ==
    /\ rpc = "release"
    /\ IF Pipes THEN rpc' = (IF childWaits THEN "unflag" ELSE "loop") /\ UNCHANGED def
                ELSE def' = def + 1 /\ rpc' = "loop"
    /\ UNCHANGED <<job, early, ring, childWaits, parentWaits, free, ends, reader, wpc, writer, signals, exits>>

UnflagChild ==
    /\ rpc = "unflag"
    /\ childWaits' = FALSE
    /\ rpc' = "post"
    /\ UNCHANGED <<job, early, ring, parentWaits, def, free, ends, reader, wpc, writer, signals, exits>>

\* The byte for the child.  If it is gone: SIGPIPE, and set_nonforked().
WakeChild ==
    /\ rpc = "post"
    /\ IF wpc = "gone" THEN ReaderEnds("sigpipe") /\ UNCHANGED def
                       ELSE def' = def + 1 /\ rpc' = "loop" /\ UNCHANGED rexit
    /\ UNCHANGED <<job, early, ring, childWaits, parentWaits, free, ends, reader, wpc, writer, signals, wexit>>

\* CloseAll(), called by exit(): wait for the child.
AwaitChild ==
    /\ rpc = "closing" /\ wpc = "gone"
    /\ rpc' = "gone"
    /\ UNCHANGED <<job, early, ring, sync, ends, reader, wpc, writer, signals, exits>>

ReaderSignal ==
    /\ rsig /\ rpc \notin {"closing", "gone"}
    /\ ReaderEnds("interrupted")
    /\ UNCHANGED <<job, early, ring, sync, ends, reader, wpc, writer, signals, wexit>>

Reader ==
    \/ ReadLoop \/ RequestFree \/ ParentWaits \/ ParentWakes \/ OccupyBuffer
    \/ ReadSectors \/ ReadSingles \/ ShrinkJob \/ Synchronize
    \/ FirstDefined \/ CountDefined \/ ReleaseDefined \/ UnflagChild \/ WakeChild
    \/ AwaitChild \/ ReaderSignal

------------------------------------------------------------------------------
(* The writer: forked_write() and get_oldest_buffer()                      *)

WriterEnds(how) == wpc' = "gone" /\ wexit' = how

WriteLoop ==
    /\ wpc = "loop"
    /\ IF sDone < todo THEN wpc' = "eor" /\ UNCHANGED wexit ELSE WriterEnds("ok")
    /\ UNCHANGED <<job, early, ring, sync, ends, rpc, reader, writer, signals, rexit>>

\* *eorecording == 1 && read == written: two loads.
TestEnd ==
    /\ wpc = "eor"
    /\ wpc' = IF eor THEN "drained" ELSE "request"
    /\ UNCHANGED <<job, early, ring, sync, ends, rpc, reader, writer, signals, exits>>

TestDrained ==
    /\ wpc = "drained"
    /\ IF read = written THEN WriterEnds("ok") ELSE wpc' = "request" /\ UNCHANGED wexit
    /\ UNCHANGED <<job, early, ring, sync, ends, rpc, reader, writer, signals, rexit>>

\* semrequest(DEF_SEM)
RequestDefined ==
    /\ wpc = "request"
    /\ IF Pipes THEN wpc' = (IF Empty THEN "flag" ELSE "take") /\ UNCHANGED def
                ELSE def > 0 /\ def' = def - 1 /\ wpc' = "take"
    /\ UNCHANGED <<job, early, ring, childWaits, parentWaits, free, ends, rpc, reader, writer, signals, exits>>

ChildWaits ==
    /\ wpc = "flag"
    /\ childWaits' = TRUE
    /\ wpc' = "blocked"
    /\ UNCHANGED <<job, early, ring, parentWaits, def, free, ends, rpc, reader, writer, signals, exits>>

\* The read() from the pipe.  If the parent is gone it fails, which is only
\* reported.
ChildWakes ==
    /\ wpc = "blocked"
    /\ \/ def > 0 /\ def' = def - 1
       \/ def = 0 /\ rpc = "gone" /\ UNCHANGED def
    /\ wpc' = "take"
    /\ early' = (early \/ Empty)
    /\ UNCHANGED <<job, ring, childWaits, parentWaits, free, ends, rpc, reader, writer, signals, exits>>

\* "how many samples are wanted" of those that the buffer is taken to hold:
\* nsectors sectors, from the offset on.  The difference is unsigned: if the
\* job has shrunk below what is done it is larger than any buffer.
Available(s) == IF todo < sDone THEN Size - offset[s] ELSE Min2(todo - sDone, Size - offset[s])

TakeBuffer ==
    /\ wpc = "take"
    /\ slot' = last
    /\ woff' = offset[last]
    /\ ins' = Available(last)
    /\ wpc' = "save"
    /\ UNCHANGED <<job, early, ring, sync, ends, rpc, reader, sDone, track, file, out, signals, exits>>

------------------------------------------------------------------------------
(* The writer: do_write() and drop_buffer()                                *)

\* Get_StartSector(t); the lead-out is "track" 3.
StartSector(t) == IF t = 2 THEN job.bound ELSE IF t = 3 THEN job.end ELSE -1

\* left_in_track, and the exception for an end that the TOC does not know.
Left == IF eor /\ track = 3 /\ read = written + 1 THEN ins ELSE StartSector(track + 1) * F - sDone

\* Mutant of HowMuch: a file takes what the buffer has.
AllOfIt == ins

\* The part of the buffer that belongs to this file; left_in_track is taken
\* as unsigned here.
HowMuch == IF job.bulk /\ Left >= 0 THEN Min2(ins, Left) ELSE ins

TrackEnds == (Left >= 0 /\ Left <= ins) \/ job.todo - sDone - HowMuch = 0

\* One round of the loop: the samples go to the file, the rest of them move
\* up, and at the end of a track the next file is opened.
SaveBuffer ==
    /\ wpc = "save" /\ sDone < todo /\ ins # 0
    /\ LET how == HowMuch
       IN  /\ out' = out \o [i \in 1 .. how |-> <<file, data[slot][woff + i]>>]
           /\ data' = [data EXCEPT ![slot] =
                         [i \in 1 .. Size |-> IF woff < i /\ i <= woff + ins - how THEN @[i + how] ELSE @[i]]]
           /\ sDone' = sDone + how
           /\ ins' = ins - how
           /\ track' = IF TrackEnds THEN track + 1 ELSE track
           /\ file' = IF TrackEnds /\ job.bulk /\ job.todo - sDone - how > 0 THEN file + 1 ELSE file
    /\ UNCHANGED <<job, early, offset, fill, last, read, written, sync, ends, rpc, reader, wpc,
                   slot, woff, signals, exits>>

\* The disk is full: kill(getppid(), SIGINT), exit(WRITE_ERROR).
SaveFails ==
    /\ Signals /\ wpc = "save" /\ sDone < todo /\ ins # 0
    /\ rsig' = TRUE
    /\ WriterEnds("write")
    /\ UNCHANGED <<job, early, ring, sync, ends, rpc, reader, writer, wsig, rexit>>

Saved ==
    /\ wpc = "save" /\ ~(sDone < todo /\ ins # 0)
    /\ wpc' = "drop"
    /\ UNCHANGED <<job, early, ring, sync, ends, rpc, reader, writer, signals, exits>>

\* assert(occupied_buffers() > 0), and on to the next buffer.
DropBuffer ==
    /\ wpc = "drop"
    /\ IF read - written > 0
         THEN wpc' = "written" /\ last' = (IF last = NULL THEN fill ELSE INC(last)) /\ UNCHANGED wexit
         ELSE WriterEnds("abort") /\ UNCHANGED last
    /\ UNCHANGED <<job, early, data, offset, fill, read, written, sync, ends, rpc, reader, writer,
                   signals, rexit>>

CountDropped ==
    /\ wpc = "written"
    /\ written' = written + 1
    /\ wpc' = "release"
    /\ UNCHANGED <<job, early, data, offset, fill, last, read, sync, ends, rpc, reader, writer,
                   signals, exits>>

\* Mutant of ReleaseFree: a buffer is dropped, but not given back.
ReleaseNothing ==
    /\ wpc = "release"
    /\ wpc' = "loop"
    /\ UNCHANGED <<job, early, ring, sync, ends, rpc, reader, writer, signals, exits>>

\* semrelease(FREE_SEM)
ReleaseFree ==
    /\ wpc = "release"
    /\ IF Pipes THEN wpc' = (IF parentWaits THEN "unflag" ELSE "loop") /\ UNCHANGED free
                ELSE free' = free + 1 /\ wpc' = "loop"
    /\ UNCHANGED <<job, early, ring, childWaits, parentWaits, def, ends, rpc, reader, writer, signals, exits>>

UnflagParent ==
    /\ wpc = "unflag"
    /\ parentWaits' = FALSE
    /\ wpc' = "post"
    /\ UNCHANGED <<job, early, ring, childWaits, def, free, ends, rpc, reader, writer, signals, exits>>

\* The byte for the parent, which keeps its end of the pipe until it is gone.
WakeParent ==
    /\ wpc = "post"
    /\ IF rpc = "gone" THEN WriterEnds("sigpipe") /\ UNCHANGED free
                       ELSE free' = free + 1 /\ wpc' = "loop" /\ UNCHANGED wexit
    /\ UNCHANGED <<job, early, ring, childWaits, parentWaits, def, ends, rpc, reader, writer, signals, rexit>>

WriterSignal ==
    /\ wsig /\ wpc # "gone"
    /\ WriterEnds("interrupted")
    /\ UNCHANGED <<job, early, ring, sync, ends, rpc, reader, writer, signals, rexit>>

Writer ==
    \/ WriteLoop \/ TestEnd \/ TestDrained \/ RequestDefined \/ ChildWaits \/ ChildWakes
    \/ TakeBuffer \/ SaveBuffer \/ Saved \/ DropBuffer \/ CountDropped
    \/ ReleaseFree \/ UnflagParent \/ WakeParent \/ WriterSignal

------------------------------------------------------------------------------
\* ^C at the terminal: a signal to both.
Interrupt ==
    /\ Signals /\ ~wsig /\ rpc # "gone"
    /\ rsig' = TRUE /\ wsig' = TRUE
    /\ UNCHANGED <<job, early, ring, sync, ends, rpc, reader, wpc, writer, exits>>

Gone == rpc = "gone" /\ wpc = "gone" /\ UNCHANGED vars

Next == Reader \/ UnrecoverableError \/ Writer \/ SaveFails \/ Interrupt \/ Gone

Spec == Init /\ [][Next]_vars

\* Both processes run, and the drive and the files answer.
FairSpec == Spec /\ WF_vars(Reader) /\ WF_vars(Writer)

------------------------------------------------------------------------------
(* Properties                                                              *)

ReaderPC == {"loop", "request", "flag", "blocked", "occupy", "read", "shrink", "sync",
             "define", "count", "release", "unflag", "post", "closing", "gone"}
WriterPC == {"loop", "eor", "drained", "request", "flag", "blocked", "take", "save",
             "drop", "written", "release", "unflag", "post", "gone"}

\* The values every variable ranges over, in the program and in the model.
TypeOK ==
    /\ job \in Jobs
    /\ data \in [Slots -> [1 .. Size -> Int]] /\ offset \in [Slots -> 0 .. Size]
    /\ {fill, last, prev, slot} \subseteq Slots \cup {NULL}
    /\ {read, written, def, free, sDone, woff, ins, iloop, todo} \subseteq Nat
    /\ {childWaits, parentWaits, eor, rsig, wsig, early} \subseteq BOOLEAN
    /\ rpc \in ReaderPC /\ wpc \in WriterPC
    /\ {lsec, burst} \subseteq Int /\ overlap \in 0 .. NSectors - 1 /\ retries \in 0 .. MaxRetry - 1
    /\ track \in Nat /\ file \in 1 .. 2 /\ out \in Seq((1 .. 2) \X Int)
    /\ rexit \in {"none", "ok", "read", "semaphore", "sigpipe", "interrupted", "abort"}
    /\ wexit \in {"none", "ok", "write", "sigpipe", "interrupted", "abort"}

\* "assert(occupied_buffers() > 0)": the assertions of ringbuff.c, each where
\* it is evaluated, hold for any interleaving of the two processes.
AssertsHold ==
    /\ rpc = "occupy" => read - written <= Buffers
    /\ rpc = "sync" /\ ~Unsynchronised => prev # NULL /\ prev # fill
    /\ rpc = "define" => read - written < Buffers
    /\ wpc = "drop" => read - written > 0

\* The file that the i-th sample belongs to.
FileOf(i) == IF job.bulk /\ i > job.bound * F THEN 2 ELSE 1

\* The files hold the samples of the medium in order, each track's in its
\* own: across buffers, residues moved up and the end of a track in the
\* middle of a buffer (cdda2wav.c:1597).  Two guards: no sectors are read
\* twice (see Joined), and no process was woken early.  With semaphores none
\* ever is; with flags and pipes the byte for an earlier buffer may answer a
\* later request (semshm.c:251), and then a buffer is saved that was not read,
\* or read into before it is saved.
InOrder == job.overlap = 0 /\ ~early => \A i \in 1 .. Len(out) : out[i] = <<FileOf(i), i>>

\* In either build, with any overlap and however a process was woken, the
\* n-th sample goes to the file of its track.  Buffers that overlap are joined
\* at the right sample, whichever way the overlap grew or shrank: all but the
\* last sectors, as many as overlap, are right if the end is known and no
\* process was woken early.  Those last ones are not: the last burst of a
\* single sector is not synchronised (resample.c:626), and a buffer that is
\* not full is saved as if it were.
Joined ==
    /\ \A i \in 1 .. Len(out) : out[i][1] = FileOf(i)
    /\ job.real = 0 /\ ~early =>
          \A i \in 1 .. Len(out) : i <= job.todo - job.overlap * F => out[i][2] = i

\* A byte in a pipe, or about to be sent, is for a process that asked for it
\* and still waits: no wake-up is left over for a later request.
WakeupsMatch ==
    /\ def + (IF rpc = "post" THEN 1 ELSE 0) <= IF wpc \in {"blocked", "gone"} /\ ~childWaits THEN 1 ELSE 0
    /\ free + (IF wpc = "post" THEN 1 ELSE 0) <=
          IF rpc \in {"blocked", "closing", "gone"} /\ ~parentWaits THEN 1 ELSE 0

\* The reader never reads into the buffer that the writer is saving.
Apart ==
    rpc \in {"read", "shrink", "sync", "define"} /\ wpc \in {"take", "save"} =>
        fill # IF wpc = "take" THEN last ELSE slot

\* *nSamplesToDo shrinks while the writer works, and never below what it has
\* written: the unsigned differences do not wrap.  This is not so where sectors
\* are overlapped and the end is not known: a short buffer that is not the
\* last is taken for a full one, before the job shrinks to what it held.
NeverWraps ==
    job.real = 0 \/ job.overlap = 0 => sDone <= todo /\ (wpc = "save" => sDone + ins <= todo)

\* The ring, whatever the two processes do in which order.  As long as no
\* process was woken early, which with semaphores none is, the assertions of
\* ringbuff.c hold, no unsigned difference wraps (cdda2wav.c:1415) and no buffer
\* is read into while it is saved (cdda2wav.c:1423).  With flags and pipes no
\* byte is left in a pipe (semshm.c:226, semshm.c:251), and even after a process
\* was woken early the assertions end it before the counters cross or are more
\* than the ring apart.
RingInv ==
    /\ TypeOK
    /\ read - written \in 0 .. Buffers
    /\ IF Pipes THEN WakeupsMatch ELSE ~early
    /\ ~early => AssertsHold /\ NeverWraps /\ Apart

\* The child has no byte to wait for any more: the parent waits for its end.
WriterWaits == wpc = (IF Pipes THEN "blocked" ELSE "request") /\ def = 0 /\ ~wsig
Stranded == rpc = "closing" /\ WriterWaits

\* "child/writer waits for defined buffers": it is not left waiting for ever
\* while there are some.
WaitsForDefined == Stranded => Empty

\* With semaphores both processes end, however they are interrupted.  It says
\* nothing of flags and pipes (see WaitsForDefined), nor of a reader that gives
\* up on a sector and waits for a child that nobody tells (cdda2wav.c:1359).
Terminates == <>(Pipes \/ rexit = "read" \/ (rpc = "gone" /\ wpc = "gone"))
==============================================================================
