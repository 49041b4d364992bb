------------------------------ MODULE Growisofs ------------------------------
(***************************************************************************)
(* growisofs (dvd+rw-tools): main() copies an image, or what mkisofs sends *)
(* down a pipe, to the medium through a ring of 32 KB blocks that a        *)
(* reader() thread fills.                                                  *)
(*                                                                         *)
(* The two threads share the ring, a semaphore that counts free blocks,    *)
(* highest_ecc_block, written by the reader alone, and reader_exit.  No    *)
(* lock protects these; each step below makes one access to them.          *)
(***************************************************************************)
EXTENDS Integers, Sequences

CONSTANTS
    NB,     \* blocks in the_buffer, a power of two
    BS,     \* bytes in a block (DVD_BLOCK)
    Jobs    \* the sessions that may be recorded

ASSUME RingAssumption == NB \in Nat /\ NB > 2 /\ BS \in Nat \ {0}

\* size: bytes the input delivers; ends: how it ends; pipe: it is mkisofs, and
\* status says how that ends; next: next_session; iso: the second block of the
\* input holds volume descriptors; poor: poor_man; rewritable: the medium is.
Job == [size : Nat, ends : {"eof", "error"}, pipe : BOOLEAN, status : BOOLEAN,
        next : Nat, iso : BOOLEAN, poor : BOOLEAN, rewritable : BOOLEAN]
ASSUME JobAssumption == Jobs \subseteq Job

Slots == 0 .. NB - 1

VARIABLES
    job,
    \* shared by the threads
    ring, sem, highest, readerExit,
    \* the input: bytes delivered so far
    got,
    \* reader()
    rpc, roff, rcode,
    \* main() and builtin_dd(): position, off, blocks written, n,
    \* errno and saved_descriptors
    pc, off, outoff, n, err, saved,
    \* the medium, its volume descriptors, and how the program ended
    medium, relocated, exit

shared == <<ring, sem, highest, readerExit>>
reading == <<got, rpc, roff, rcode>>
writing == <<pc, off, outoff, n, err, saved>>
result == <<medium, relocated, exit>>
vars == <<job, shared, reading, writing, result>>

\* What reader() leaves in reader_exit: (unsigned int)-1, or an errno.
Finished == -1
Failed == 5

\* (b & mask), with mask = the_buffer_size/DVD_BLOCK - 1
Slot(b) == b % NB

Min2(a, b) == IF a <= b THEN a ELSE b

\* What block b of the image holds, filled up with zeros.
Block(b) == [j \in 1 .. BS |-> IF b * BS + j <= job.size THEN b * BS + j ELSE 0]
Blocks == (job.size + BS - 1) \div BS

\* block + from, as read() leaves it after k bytes.
Received(block, from, k) ==
    [j \in 1 .. BS |-> IF j > from /\ j <= from + k THEN got + j - from ELSE block[j]]

\* memset(block + from, 0, DVD_BLOCK - from)
Zeroed(block, from) == [j \in 1 .. BS |-> IF j > from THEN 0 ELSE block[j]]

\* How many bytes one read() of at most `want' may return: a part, 0 at the
\* end, or an error.
ReadResults(want) ==
    IF got < job.size THEN 1 .. Min2(want, job.size - got)
    ELSE IF job.ends = "eof" THEN {0} ELSE {-1}

\* Mutant of SavedAtStart: the descriptors that main() read to find the next
\* session stay there.
PreviousSaved == IF job.next > 0 THEN "previous" ELSE "none"

\* saved_descriptors[0].type = 0
SavedAtStart == "none"

ErrorOf(k) == IF k < 0 THEN "error" ELSE err

Init ==
    /\ job \in Jobs
    /\ ring = [s \in Slots |-> [j \in 1 .. BS |-> 0]]
    /\ sem = 0 /\ highest = 0 /\ readerExit = 0
    /\ got = 0 /\ rpc = "none" /\ roff = 0 /\ rcode = 0
    /\ pc = "head" /\ off = 0 /\ outoff = 0 /\ n = 0 /\ err = "none" /\ saved = SavedAtStart
    /\ medium = <<>> /\ relocated = "no" /\ exit = "running"

------------------------------------------------------------------------------
(* builtin_dd(), before the reader runs: off counts bytes                  *)

\* Bytes arrive in the slot that off points into.
Receive(k) ==
    LET s == off \div BS
    IN  /\ ring' = [ring EXCEPT ![s] = Received(ring[s], off - s * BS, k)]
        /\ got' = got + k
        /\ off' = off + k

\* The first 64 KB, read slot by slot; what read() returns beyond a slot
\* comes with the next one.
ReadHead ==
    /\ pc = "head"
    /\ \E k \in ReadResults(BS - (off % BS)) :
         /\ n' = k /\ err' = ErrorOf(k)
         /\ IF k > 0
              THEN /\ Receive(k)
                   /\ IF off' = 2 * BS
                        THEN pc' = "prefill" /\ highest' = 2 /\ saved' = IF job.iso THEN "this" ELSE saved
                        ELSE UNCHANGED <<pc, highest, saved>>
              ELSE pc' = "out" /\ UNCHANGED <<ring, got, off, highest, saved>>
    /\ UNCHANGED <<job, outoff, sem, readerExit, rpc, roff, rcode, result>>

\* The head says that the image does not fit, or an insane layer break.
HeadRefused ==
    /\ pc = "prefill" /\ off = 2 * BS /\ job.iso
    /\ n' = -1 /\ err' = "startup" /\ pc' = "out"
    /\ UNCHANGED <<job, outoff, shared, reading, off, saved, result>>

\* "Fill the_buffer up to the_buffer_size", then publish all of it at once.
Prefill ==
    /\ pc = "prefill"
    /\ \E k \in ReadResults(BS - (off % BS)) :
         /\ n' = k /\ err' = ErrorOf(k)
         /\ IF k > 0
              THEN /\ Receive(k)
                   /\ IF off' = NB * BS
                        THEN pc' = "thread" /\ highest' = NB
                        ELSE UNCHANGED <<pc, highest>>
              ELSE /\ IF k = 0
                        THEN pc' = "nothread" /\ highest' = (off + BS - 1) \div BS
                        ELSE pc' = "out" /\ UNCHANGED highest
                   /\ UNCHANGED <<ring, got, off>>
    /\ UNCHANGED <<job, outoff, sem, readerExit, rpc, roff, rcode, saved, result>>

\* Mutant of InitialSem: counts the blocks of the buffer instead of the free ones.
AllBlocks == NB

\* sem_init(h,0,0)
InitialSem == 0

\* A full buffer: create the semaphore, at zero, and start reader().  Either
\* may fail.
StartReader ==
    /\ pc = "thread"
    /\ \/ /\ sem' = InitialSem
          /\ rpc' = "wait"
          /\ pc' = "clear" /\ UNCHANGED exit
       \/ /\ exit' = "startup" /\ UNCHANGED <<sem, rpc, pc>>
    /\ UNCHANGED <<job, outoff, ring, highest, readerExit, got, roff, rcode,
                   off, n, err, saved, medium, relocated>>

\* reader_exit = 0, when the reader runs already.
ClearExit ==
    /\ pc = "clear"
    /\ readerExit' = 0
    /\ pc' = "umount"
    /\ UNCHANGED <<job, outoff, ring, sem, highest, reading, off, n, err, saved,
                   result>>

\* The input ended before the buffer was full: pad it, and the reader
\* "exited" already.
NoReader ==
    /\ pc = "nothread"
    /\ ring' = [s \in Slots |-> IF s * BS >= off THEN [j \in 1 .. BS |-> 0]
                                ELSE IF (s + 1) * BS <= off THEN ring[s]
                                ELSE Zeroed(ring[s], off - s * BS)]
    /\ readerExit' = Finished
    /\ pc' = "umount"
    /\ UNCHANGED <<job, outoff, sem, highest, reading, off, n, err, saved,
                   result>>

\* Unmount the medium, open it exclusively and set the unit up; all of these
\* end the program if they fail.  From then on off counts blocks.
Unmount ==
    /\ pc = "umount"
    /\ \/ /\ pc' = "spin" /\ off' = 0
          /\ UNCHANGED exit
       \/ /\ job.poor \/ job.next = 0
          /\ exit' = "startup" /\ UNCHANGED <<pc, off>>
    /\ UNCHANGED <<job, outoff, shared, reading, n, err, saved, medium, relocated>>

------------------------------------------------------------------------------
(* builtin_dd(): the loop that writes                                      *)

\* while (!reader_exit && (off == highest_ecc_block)): two loads.
SpinExit ==
    /\ pc = "spin"
    /\ pc' = IF readerExit # 0 THEN "more" ELSE "spin2"
    /\ UNCHANGED <<job, outoff, shared, reading, off, n, err, saved, result>>

SpinHighest ==
    /\ pc = "spin2"
    /\ pc' = IF off = highest THEN "spin" ELSE "more"
    /\ UNCHANGED <<job, outoff, shared, reading, off, n, err, saved, result>>

\* if (off == highest_ecc_block) break: a load of its own.
MoreData ==
    /\ pc = "more"
    /\ pc' = IF off = highest THEN "drained" ELSE "write"
    /\ UNCHANGED <<job, outoff, shared, reading, off, n, err, saved, result>>

\* The block goes to the unit from where it lies in the ring; a short or a
\* failed write ends the copy.
WriteBlock ==
    /\ pc = "write"
    /\ \/ /\ medium' = Append(medium, ring[Slot(off)])
          /\ pc' = "post" /\ UNCHANGED <<n, err>>
       \/ /\ n' = -1 /\ err' = "error" /\ pc' = "out" /\ UNCHANGED medium
    /\ UNCHANGED <<job, outoff, shared, reading, off, saved, relocated, exit>>

\* Mutant of Post: does not give the block back.
NoPost ==
    /\ pc = "post"
    /\ pc' = "count"
    /\ UNCHANGED <<job, outoff, shared, reading, off, n, err, saved, result>>

\* if (the_ring_semaphore) __semaphore_post(the_ring_semaphore)
Post ==
    /\ pc = "post"
    /\ sem' = IF rpc # "none" THEN sem + 1 ELSE sem
    /\ pc' = "count"
    /\ UNCHANGED <<job, outoff, ring, highest, readerExit, reading, off, n, err,
                   saved, result>>

Count ==
    /\ pc = "count"
    /\ off' = off + 1
    /\ outoff' = outoff + 1
    /\ pc' = "spin"
    /\ UNCHANGED <<job, ring, sem, highest, readerExit, reading, n, err, saved,
                   result>>

\* Mutant of Drained: takes every end of the reader for the end of the input.
DrainedOk ==
    /\ pc = "drained"
    /\ n' = 0
    /\ pc' = "out"
    /\ UNCHANGED <<job, outoff, shared, reading, off, err, saved, result>>

Drained ==
    /\ pc = "drained"
    /\ IF readerExit = Finished THEN n' = 0 /\ UNCHANGED err
                                 ELSE n' = -1 /\ err' = "error"
    /\ pc' = "out"
    /\ UNCHANGED <<job, outoff, shared, reading, off, saved, result>>

\* out: nothing at all written to a new medium is an error as well.
Nothing == job.next + outoff = 0
Out ==
    /\ pc = "out"
    /\ IF Nothing /\ n = 0 THEN n' = -1 /\ err' = "startup" ELSE UNCHANGED <<n, err>>
    /\ pc' = IF job.pipe THEN "reap" ELSE "copied"
    /\ UNCHANGED <<job, outoff, shared, reading, off, saved, result>>

------------------------------------------------------------------------------
(* reader()                                                                *)

SemWait ==
    /\ rpc = "wait" /\ sem > 0
    /\ sem' = sem - 1
    /\ roff' = 0
    /\ rpc' = "read"
    /\ UNCHANGED <<job, ring, highest, readerExit, got, rcode, writing,
                   result>>

\* One read() into the block that highest_ecc_block points to.
ReadBlock ==
    /\ rpc = "read"
    /\ \E k \in ReadResults(BS - roff) :
         \/ /\ k > 0
            /\ ring' = [ring EXCEPT ![Slot(highest)] = Received(@, roff, k)]
            /\ got' = got + k /\ roff' = roff + k
            /\ rpc' = IF roff' = BS THEN "publish" ELSE "read"
            /\ UNCHANGED rcode
         \/ /\ k = 0
            /\ rcode' = Finished
            /\ rpc' = IF roff > 0 THEN "pad" ELSE "exit"
            /\ UNCHANGED <<ring, got, roff>>
         \/ /\ k < 0
            /\ rcode' = Failed
            /\ rpc' = "exit"
            /\ UNCHANGED <<ring, got, roff>>
    /\ UNCHANGED <<job, sem, highest, readerExit, writing, result>>

Publish ==
    /\ rpc = "publish"
    /\ highest' = highest + 1
    /\ rpc' = "wait"
    /\ UNCHANGED <<job, ring, sem, readerExit, got, roff, rcode, writing,
                   result>>

\* The last block of the input, if it is a part of one.
PadBlock ==
    /\ rpc = "pad"
    /\ ring' = [ring EXCEPT ![Slot(highest)] = Zeroed(@, roff)]
    /\ rpc' = "last"
    /\ UNCHANGED <<job, sem, highest, readerExit, got, roff, rcode, writing,
                   result>>

PublishLast ==
    /\ rpc = "last"
    /\ highest' = highest + 1
    /\ rpc' = "exit"
    /\ UNCHANGED <<job, ring, sem, readerExit, got, roff, rcode, writing,
                   result>>

ReaderExit ==
    /\ rpc = "exit"
    /\ readerExit' = rcode
    /\ rpc' = "gone"
    /\ UNCHANGED <<job, ring, sem, highest, got, roff, rcode, writing,
                   result>>

Reader == SemWait \/ ReadBlock \/ Publish \/ PadBlock \/ PublishLast \/ ReaderExit

------------------------------------------------------------------------------
(* pipe_mkisofs_up() and main() after builtin_dd()                         *)

Ends(status) == exit' = status /\ UNCHANGED pc
GoesTo(label) == pc' = label /\ UNCHANGED exit

\* mkisofs must have finished: its exit status decides.
Reap ==
    /\ pc = "reap"
    /\ IF n < 0 THEN Ends(err)
       ELSE IF ~job.status THEN Ends("mkisofs")
       ELSE GoesTo("check")
    /\ UNCHANGED <<job, shared, reading, off, outoff, n, err, saved, medium, relocated>>

\* An image: without a session before it there is nothing left to do.
Copied ==
    /\ pc = "copied"
    /\ IF n < 0 THEN Ends(err)
       ELSE IF job.next = 0 THEN Ends("ok")
       ELSE GoesTo("check")
    /\ UNCHANGED <<job, shared, reading, off, outoff, n, err, saved, medium, relocated>>

Relocates == job.next # 0 /\ (~job.poor \/ job.rewritable)

\* The session begins after another one on a medium that can be overwritten:
\* flush the cache, read the old descriptors, which may fail, and insist on
\* new ones.
CheckDescriptors ==
    /\ pc = "check"
    /\ IF ~Relocates THEN Ends("ok")
       ELSE \/ saved = "none" /\ Ends("error")
            \/ Ends("error")
            \/ saved # "none" /\ GoesTo("update")
    /\ UNCHANGED <<job, shared, reading, off, outoff, n, err, saved, medium, relocated>>

UpdateDescriptors ==
    /\ pc = "update"
    /\ \/ relocated' = saved /\ GoesTo("done")
       \/ UNCHANGED relocated /\ Ends("error")
    /\ UNCHANGED <<job, shared, reading, off, outoff, n, err, saved, medium>>

Done ==
    /\ pc = "done"
    /\ Ends("ok")
    /\ UNCHANGED <<job, shared, reading, off, outoff, n, err, saved, medium, relocated>>

Main ==
    \/ ReadHead \/ HeadRefused \/ Prefill \/ StartReader \/ ClearExit \/ NoReader
    \/ Unmount \/ SpinExit \/ SpinHighest \/ MoreData \/ WriteBlock \/ Post \/ Count
    \/ Drained \/ Out \/ Reap \/ Copied \/ CheckDescriptors \/ UpdateDescriptors \/ Done

\* main() returned or called exit(): the reader is gone with it.
Exited == exit # "running" /\ UNCHANGED vars

MainStep == exit = "running" /\ Main
ReaderStep == exit = "running" /\ Reader

Next == MainStep \/ ReaderStep \/ Exited

Spec == Init /\ [][Next]_vars

\* Both threads run, sched_yield() in the spin lets the reader run, reads and
\* writes return.
FairSpec == Spec /\ WF_vars(MainStep) /\ WF_vars(ReaderStep)

------------------------------------------------------------------------------
(* Properties                                                              *)

MainPC == {"head", "prefill", "thread", "nothread", "clear", "umount", "spin",
           "spin2", "more", "write", "post", "count", "drained", "out", "reap",
           "copied", "check", "update", "done"}

\* What a block may hold.
Content == [1 .. BS -> Nat]

\* The values every variable ranges over, in the program and in the model.
TypeOK ==
    /\ job \in Jobs
    /\ ring \in [Slots -> Content]
    /\ sem \in Nat /\ highest \in Nat /\ readerExit \in {0, Finished, Failed}
    /\ got \in Nat /\ roff \in 0 .. BS /\ rcode \in {0, Finished, Failed}
    /\ rpc \in {"none", "wait", "read", "publish", "pad", "last", "exit", "gone"}
    /\ pc \in MainPC /\ off \in Nat /\ outoff \in Nat /\ n \in Int
    /\ err \in {"none", "startup", "error"} /\ saved \in {"none", "this"}
    /\ medium \in Seq(Content) /\ relocated \in {"no", "this"}
    /\ exit \in {"running", "ok", "startup", "error", "mkisofs"}

\* The block that is being written is not the one the reader reads into.
NoTornBlock ==
    pc = "write" => ~(rpc \in {"read", "pad"} /\ Slot(highest) = Slot(off))

\* The medium holds the blocks of the image in order, the last one filled up
\* with zeros: no block is lost, repeated, stale or half read.
InOrder == \A b \in 1 .. Len(medium) : medium[b] = Block(b - 1)

Whole == Len(medium) = Blocks
Short == job.size < 2 * BS

\* Once builtin_dd() has ended without an error, all of the input was written:
\* seeing reader_exit, it has seen every block published before.
After == {"out", "reap", "copied", "check", "update", "done"}
Complete == job.ends = "eof" /\ (Whole \/ (Short /\ medium = <<>>))
NothingLost == pc \in After /\ n = 0 => Complete

\* The descriptors of the volume are replaced only by those of this session,
\* and only if all of it is there and mkisofs did not fail.
DescriptorsLast ==
    relocated # "no" => relocated = "this" /\ Whole /\ (job.pipe => job.status)

\* "exit value of 128|errno denotes a fatal error upon program startup": the
\* medium was not written to.
StartupMeansUntouched == exit = "startup" => medium = <<>>

\* The copy always ends: the spin cannot miss the reader's last block nor the
\* reader the last free one.
Terminates == <>(exit # "running")

------------------------------------------------------------------------------
(* Why the ring is safe: an inductive invariant                            *)

Before == {"head", "prefill", "thread", "nothread"}
Waiting == {"clear", "umount"}
Copying == {"spin", "spin2", "more", "write", "post", "count", "drained"}
Started == rpc # "none"

\* How many blocks main() has given back to the reader.
Posted == IF pc = "count" THEN outoff + 1 ELSE outoff

\* Where main() is: what off means, and what it knows of the reader.
MainPart ==
    /\ pc \in Before => /\ ~Started /\ sem = 0 /\ readerExit = 0 /\ outoff = 0
                        /\ off = got /\ off <= NB * BS /\ highest <= NB
    /\ pc = "head" => off < 2 * BS /\ highest = 0
    /\ pc = "prefill" => off >= 2 * BS /\ off < NB * BS /\ highest = 2
    /\ pc = "thread" => off = NB * BS /\ highest = NB
    /\ pc = "nothread" => /\ off < NB * BS /\ off = job.size /\ job.ends = "eof"
                         /\ highest = Blocks
    /\ pc = "clear" => rpc = "wait" /\ highest = NB
    /\ pc \in Waiting => outoff = 0
    /\ pc \in Copying => off = outoff
    /\ outoff <= highest
    /\ pc \in {"write", "post", "count"} => off < highest
    /\ pc = "more" => off < highest \/ readerExit # 0
    /\ pc = "drained" => off = highest /\ readerExit # 0
    /\ Len(medium) = outoff + IF pc \in {"post", "count"} THEN 1 ELSE 0

\* Where reader() is, and that the semaphore counts the blocks that are
\* neither filled, nor being filled, nor being written.
ReaderPart ==
    /\ got <= job.size /\ highest <= Blocks
    /\ ~Started => sem = 0 /\ readerExit \in {0, Finished}
    /\ ~Started /\ pc \in Waiting \cup Copying =>
          readerExit = Finished /\ job.ends = "eof" /\ highest = Blocks
    /\ rpc = "wait" => highest + sem = NB + Posted
    /\ rpc \in {"read", "publish", "pad", "last"} => highest + sem + 1 = NB + Posted
    /\ rpc = "wait" => got = highest * BS
    /\ rpc \in {"read", "publish", "pad"} => got = highest * BS + roff
    /\ rpc = "read" => roff < BS
    /\ rpc = "publish" => roff = BS
    /\ rpc \in {"pad", "last"} => roff > 0 /\ roff < BS /\ rcode = Finished
    /\ rpc \in {"pad", "last", "exit", "gone"} => got = job.size
    /\ rpc = "last" => highest + 1 = Blocks
    /\ rpc \in {"pad", "last", "exit", "gone"} =>
          rcode = IF job.ends = "eof" THEN Finished ELSE Failed
    /\ rpc \in {"exit", "gone"} /\ job.ends = "eof" => highest = Blocks
    /\ rpc = "gone" => readerExit = rcode
    /\ Started /\ rpc # "gone" => readerExit = 0

\* Before the reader runs: the bytes delivered so far, each at its place.
AsRead ==
    \A s \in Slots : \A j \in 1 .. BS : ring[s][j] = IF s * BS + j <= got THEN s * BS + j ELSE 0

\* What the ring holds: the blocks that are published and not given back,
\* and the part of the next one that has been read.
RingPart ==
    /\ pc \in Before => AsRead
    /\ pc \notin Before =>
          \A b \in Posted .. highest - 1 : ring[Slot(b)] = Block(b)
    /\ rpc \in {"read", "publish", "pad"} =>
          \A j \in 1 .. roff : ring[Slot(highest)][j] = highest * BS + j
    /\ rpc = "last" => ring[Slot(highest)] = Block(highest)

\* What is on the medium, and what the rest of main() knows of it.
EndPart ==
    /\ InOrder /\ NothingLost /\ DescriptorsLast /\ StartupMeansUntouched
    /\ pc \in After => n <= 0 /\ (n < 0 => err # "none")
    /\ err # "none" => pc \in After
    /\ err = "startup" => medium = <<>>
    /\ pc = "copied" => ~job.pipe
    /\ pc \in {"check", "update", "done"} => n = 0 /\ (job.pipe => job.status)
    /\ saved = "this" => ~Short
    /\ pc = "update" => saved = "this"
    /\ relocated # "no" => pc = "done"

IndInv == TypeOK /\ MainPart /\ ReaderPart /\ RingPart /\ EndPart

------------------------------------------------------------------------------
(* The two threads as one copy                                             *)

Copy == INSTANCE ImageCopy WITH
    image <- [b \in 1 .. Blocks |-> Block(b - 1)],
    short <- Short,
    relocated <- (relocated # "no"),
    status <- IF exit = "running" THEN "running" ELSE IF exit = "ok" THEN "ok" ELSE "failed"

\* The two threads together do what ImageCopy promises.
CopiesImage == Copy!Spec
==============================================================================
