-------------------------------- MODULE Fifo --------------------------------
(***************************************************************************)
(* The ring buffer of cdrecord (cdrecord/fifo.c) and the two processes     *)
(* that share it: the filler, a forked child that reads the track files    *)
(* into the slots (faio_reader), and the burner, the parent, that runs the *)
(* burning sequence of main() and takes the slots out again                *)
(* (faio_get_buf, called by write_track_data).                             *)
(*                                                                         *)
(* Nothing but plain loads and stores to the shared slot headers           *)
(* synchronises the two: every step below makes at most one access that    *)
(* the other process can see.                                              *)
(***************************************************************************)
EXTENDS Integers, Sequences

CONSTANTS
    NBuf,         \* faio_buffers
    TrackLists,   \* the track lists a session may be started with
    Options,      \* the blank= / -force flags a session may be started with
    InputCap,     \* bound: bytes an input of unknown size delivers
    Growing,      \* may an input deliver data again after it hit its end?
    FillerMayDie, \* may something else kill the filler?
    SlowPhases    \* where the burner may be for more than WRITER_MAXWAIT

ASSUME NBufAssumption == NBuf \in Nat /\ NBuf >= 1
ASSUME TrackAssumption ==
    TrackLists \subseteq
        Seq([fd : Int, size : Int, sec : Nat \ {0}, spt : Nat \ {0}]) \ {<<>>}
ASSUME OptionAssumption == Options \subseteq [blank : BOOLEAN, force : BOOLEAN]
ASSUME CapAssumption == InputCap \in Nat
ASSUME FlagAssumption == Growing \in BOOLEAN /\ FillerMayDie \in BOOLEAN

Slots == 0 .. NBuf - 1
Last  == NBuf - 1
STDIN == 0
ReadError == -1

VARIABLES
    \* shared memory: the slot headers and what the slots hold
    owner, users, fd, len, data,
    \* shared memory: struct faio_stats
    puts, gets, done,
    \* the filler
    fpc, fi, fTrack, fPos, fEof,
    \* the burner
    bpc, bi, bTrack, bPos, bChunk, bUsers,
    \* the session: its command line, the medium, who ran the drive cleanup
    tracks, flags, modified, cleaned

slots   == <<owner, users, fd, len, data>>
stats   == <<puts, gets, done>>
filler  == <<fpc, fi, fTrack, fPos, fEof>>
burner  == <<bpc, bi, bTrack, bPos, bChunk, bUsers>>
session == <<tracks, flags, modified, cleaned>>
vars    == <<slots, stats, filler, burner, session>>

FillerActive == {"wait", "fill", "publish", "users", "puts", "done", "force?", "force"}
FillerStopped == {"exited", "timedout", "killed", "cut"}
BurnerPC == {"start", "await", "blank", "open", "release", "getwait", "check",
             "load", "store", "hand", "write", "written", "pad",
             "abort", "fatal", "finish", "exited"}

\* Where SIGKILL leaves the filler; "cut" if a slot is published but not counted.
Killed(pc) == IF pc \in {"users", "puts"} THEN "cut"
              ELSE IF pc \in FillerActive THEN "killed" ELSE pc

\* The content of a slot, for the properties: which bytes of which track.
Nothing == [track |-> 0, pos |-> 0]
At(track, pos) == [track |-> track, pos |-> pos]

Chunk(t) == t.sec * t.spt

NextSlot(i) == IF i + 1 >= NBuf THEN 0 ELSE i + 1
RoundUp(n, m) == ((n + m - 1) \div m) * m

\* bytes_to_read: both loops cut the last transfer of a track of known size.
BytesToRead(size, pos, chunk) ==
    IF size > 0 /\ size - pos <= chunk THEN size - pos ELSE chunk

\* do ... while (tracksize < 0 || bytes_read < tracksize)
MoreToRead(size, pos) == size < 0 \/ pos < size

Init ==
    /\ tracks \in TrackLists
    /\ flags \in Options
    /\ owner = [i \in Slots |-> "writer"]
    /\ users = [i \in Slots |-> 0]
    /\ fd = [i \in Slots |-> -1]
    /\ len = [i \in Slots |-> 0]
    /\ data = [i \in Slots |-> Nothing]
    /\ puts = 0 /\ gets = 0 /\ done = 0
    /\ fpc = "wait" /\ fi = 0 /\ fTrack = 1 /\ fPos = 0 /\ fEof = FALSE
    /\ bpc = "start" /\ bi = 0 /\ bTrack = 0 /\ bPos = 0 /\ bChunk = 0
    /\ bUsers = 0
    /\ modified = FALSE /\ cleaned = {}

------------------------------------------------------------------------------
(* The filler: faio_reader, faio_read_track, faio_read_segment             *)

\* Mutant of Free: takes a slot in the intermediate state for a free one.
NotFull(i) == owner[i] # "reader"

Free(i) == owner[i] = "writer"

\* The slot at fi is the writer's: go on and read into it.
Claim ==
    /\ fpc = "wait" /\ Free(fi)
    /\ fpc' = "fill"
    /\ fd' = [fd EXCEPT ![fi] = tracks[fTrack].fd]
    /\ data' = [data EXCEPT ![fi] = Nothing]
    /\ UNCHANGED <<owner, users, len, stats, fi, fTrack, fPos, fEof, burner, session>>

\* comerrno() in faio_wait_on_buffer: the child inherited main()'s
\* on_comerr(exscsi), so it cleans the drive up before it exits.
FillerTimeout ==
    /\ fpc = "wait" /\ ~Free(fi)
    /\ bpc \in SlowPhases
    /\ fpc' = "timedout"
    /\ cleaned' = cleaned \cup {"filler"}
    /\ UNCHANGED <<slots, stats, fi, fTrack, fPos, fEof, burner, tracks, flags, modified>>

\* How many bytes fill_buf may return: an error, or anything up to what was
\* asked for; nothing more once the input has ended, unless it grows.
FillResults(t) ==
    LET want == BytesToRead(t.size, fPos, Chunk(t))
    IN  {ReadError} \cup
        {n \in 0 .. want : /\ t.size >= 0 \/ fPos + n <= InputCap
                           /\ (fEof /\ ~Growing) => n = 0}

Fill ==
    /\ fpc = "fill"
    /\ \E n \in FillResults(tracks[fTrack]) :
         /\ len' = [len EXCEPT ![fi] = n]
         /\ fEof' = (fEof \/ (n >= 0 /\ n < BytesToRead(tracks[fTrack].size, fPos, Chunk(tracks[fTrack]))))
    /\ data' = [data EXCEPT ![fi] = At(fTrack, fPos)]
    /\ fpc' = "publish"
    /\ UNCHANGED <<owner, users, fd, stats, fi, fTrack, fPos, burner, session>>

\* f->owner = owner_reader, before f->users and sp->puts are set.
Publish ==
    /\ fpc = "publish"
    /\ owner' = [owner EXCEPT ![fi] = "reader"]
    /\ fpc' = "users"
    /\ UNCHANGED <<users, fd, len, data, stats, fi, fTrack, fPos, fEof, burner, session>>

\* Mutant of Readers: the filler counts as well.
TwoReaders == 2

\* sp->users, set once in init_faio.
Readers == 1

SetUsers ==
    /\ fpc = "users"
    /\ users' = [users EXCEPT ![fi] = Readers]
    /\ fpc' = "puts"
    /\ UNCHANGED <<owner, fd, len, data, stats, fi, fTrack, fPos, fEof, burner, session>>

\* Mutant of TrackGoesOn: an empty segment does not end the track.
TrackGoesOnPastEnd(n, size, pos) == n >= 0 /\ MoreToRead(size, pos + n)

\* if (l <= 0) break; ... while (tracksize < 0 || bytes_read < tracksize)
TrackGoesOn(n, size, pos) == n > 0 /\ MoreToRead(size, pos + n)

MoreTracks(t) == t < Len(tracks)

\* sp->puts++, then the rest of the loop body of faio_read_track: the next
\* slot, and the next segment, the next track or the end of all tracks.
\* len[fi] stands for the filler's own l: the burner does not change it.
CountPut ==
    LET n == len[fi]
    IN  /\ fpc = "puts"
        /\ puts' = puts + 1
        /\ fi' = NextSlot(fi)
        /\ IF TrackGoesOn(n, tracks[fTrack].size, fPos)
             THEN fpc' = "wait" /\ fPos' = fPos + n /\ UNCHANGED <<fTrack, fEof>>
             ELSE /\ fPos' = 0 /\ fEof' = FALSE
                  /\ IF MoreTracks(fTrack)
                       THEN fpc' = "wait" /\ fTrack' = fTrack + 1
                       ELSE fpc' = "done" /\ UNCHANGED fTrack
        /\ UNCHANGED <<slots, gets, done, burner, session>>

AllRead ==
    /\ fpc = "done"
    /\ done' = done + 1
    /\ fpc' = "force?"
    /\ UNCHANGED <<slots, puts, gets, fi, fTrack, fPos, fEof, burner, session>>

\* Mutant of NothingTaken: never "prevents the hang".
AlwaysTaken == FALSE

NothingTaken == gets = 0

\* "Prevent hang if buffer is larger than all the tracks combined": the test
\* and the store it guards are two steps.
TestGets ==
    /\ fpc = "force?"
    /\ fpc' = IF NothingTaken THEN "force" ELSE "exited"
    /\ UNCHANGED <<slots, stats, fi, fTrack, fPos, fEof, burner, session>>

ForceLast ==
    /\ fpc = "force"
    /\ owner' = [owner EXCEPT ![Last] = "reader"]
    /\ fpc' = "exited"
    /\ UNCHANGED <<users, fd, len, data, stats, fi, fTrack, fPos, fEof, burner, session>>

FillerDies ==
    /\ FillerMayDie /\ fpc \in FillerActive
    /\ fpc' = Killed(fpc)
    /\ UNCHANGED <<slots, stats, fi, fTrack, fPos, fEof, burner, session>>

FillerStep ==
    Claim \/ Fill \/ Publish \/ SetUsers \/ CountPut \/ AllRead \/ TestGets \/ ForceLast

------------------------------------------------------------------------------
(* The burner: main(), await_faio, faio_get_buf, write_track_data          *)

BlankFirst == flags.blank /\ flags.force

\* main() up to await_faio: with blank= and -force the medium is blanked
\* before anything is known about the input.
Start ==
    /\ bpc = "start"
    /\ bpc' = "await"
    /\ modified' = BlankFirst
    /\ UNCHANGED <<slots, stats, filler, bi, bTrack, bPos, bChunk, bUsers,
                   tracks, flags, cleaned>>

\* The test of await_faio on every slot: the first segment of a track that
\* comes from stdin is empty.
PrematureEOF ==
    \E i \in Slots : /\ fd[i] = STDIN /\ len[i] = 0
                     /\ i = 0 \/ fd[i - 1] # STDIN

\* await_faio waits without a timeout for the last slot.  If stdin ended
\* before it began, the filler is killed and main() gives up.
Await ==
    /\ bpc = "await" /\ owner[Last] = "reader"
    /\ IF PrematureEOF
         THEN bpc' = "abort" /\ fpc' = Killed(fpc)
         ELSE bpc' = "blank" /\ UNCHANGED fpc
    /\ UNCHANGED <<slots, stats, fi, fTrack, fPos, fEof,
                   bi, bTrack, bPos, bChunk, bUsers, session>>

\* The blanking that main() asks for after the FIFO is full, the session
\* and the lead-in; any of them may fail.
Blank ==
    /\ bpc = "blank"
    /\ bpc' \in {"open", "finish"}
    /\ modified' = (modified \/ flags.blank \/ bpc' = "open")
    /\ UNCHANGED <<slots, stats, filler, bi, bTrack, bPos, bChunk, bUsers,
                   tracks, flags, cleaned>>

\* The next round of main()'s track loop, or its end.
OpenTrack ==
    /\ bpc = "open"
    /\ \/ /\ bTrack < Len(tracks)
          /\ bTrack' = bTrack + 1
          /\ bPos' = 0
          /\ bChunk' = Chunk(tracks[bTrack + 1])
          /\ bpc' = "release"
       \/ /\ bpc' = "finish"           \* no track left, or cdr_open_track failed
          /\ UNCHANGED <<bTrack, bPos, bChunk>>
    /\ UNCHANGED <<slots, stats, filler, bi, bUsers, session>>

\* faio_get_buf gives the slot of the last call back before it looks at the
\* next one.
Release ==
    /\ bpc = "release"
    /\ IF owner[bi] = "faio"
         THEN /\ owner' = [owner EXCEPT ![bi] = "writer"]
              /\ bi' = NextSlot(bi)
         ELSE UNCHANGED <<owner, bi>>
    /\ bpc' = "getwait"
    /\ UNCHANGED <<users, fd, len, data, stats, filler, bTrack, bPos, bChunk,
                   bUsers, session>>

GetReady ==
    /\ bpc = "getwait" /\ owner[bi] = "reader"
    /\ bpc' = "check"
    /\ UNCHANGED <<slots, stats, filler, bi, bTrack, bPos, bChunk, bUsers, session>>

\* No data for READER_MAXWAIT: comerrno().
BurnerTimeout ==
    /\ bpc = "getwait" /\ owner[bi] # "reader"
    /\ bpc' = "finish"
    /\ UNCHANGED <<slots, stats, filler, bi, bTrack, bPos, bChunk, bUsers, session>>

BurnerWants == BytesToRead(tracks[bTrack].size, bPos, bChunk)

\* The slot must be for the file that is being written, and not longer than
\* what write_track_data asked for.
Check ==
    /\ bpc = "check"
    /\ IF fd[bi] # tracks[bTrack].fd
         THEN /\ bpc' = IF len[bi] = 0 THEN "release" ELSE "fatal"
              /\ UNCHANGED gets
         ELSE IF BurnerWants < len[bi]
         THEN bpc' = "fatal" /\ UNCHANGED gets
         ELSE bpc' = "load" /\ gets' = gets + 1
    /\ UNCHANGED <<slots, puts, done, filler, bi, bTrack, bPos, bChunk, bUsers, session>>

\* if (--f->users <= 0) f->owner = owner_faio, as the load, the store and the
\* hand-over that they are.
LoadUsers ==
    /\ bpc = "load"
    /\ bUsers' = users[bi] - 1
    /\ bpc' = "store"
    /\ UNCHANGED <<slots, stats, filler, bi, bTrack, bPos, bChunk, session>>

StoreUsers ==
    /\ bpc = "store"
    /\ users' = [users EXCEPT ![bi] = bUsers]
    /\ bpc' = "hand"
    /\ UNCHANGED <<owner, fd, len, data, stats, filler, bi, bTrack, bPos, bChunk,
                   bUsers, session>>

\* Mutant of NoUsers: waits for the count to fall below zero.
BelowZero(n) == n < 0

NoUsers(n) == n <= 0

Hand ==
    /\ bpc = "hand"
    /\ owner' = IF NoUsers(bUsers) THEN [owner EXCEPT ![bi] = "faio"] ELSE owner
    /\ bpc' = "write"
    /\ UNCHANGED <<users, fd, len, data, stats, filler, bi, bTrack, bPos, bChunk,
                   bUsers, session>>

\* What write_track_data does with the segment: give up on a read error, end
\* the track on an empty one, and else hand it to the drive, which may fail.
\* The last record is padded to whole sectors and shortens bytespt for good.
Write ==
    /\ bpc = "write"
    /\ LET size == tracks[bTrack].size
           pos == bPos + len[bi]
           count == IF size >= 0 /\ pos >= size THEN len[bi] - (pos - size) ELSE len[bi]
       IN \/ /\ len[bi] < 0
             /\ bpc' = "finish" /\ UNCHANGED <<bPos, bChunk, modified>>
          \/ /\ len[bi] = 0
             /\ bpc' = "pad" /\ UNCHANGED <<bPos, bChunk, modified>>
          \/ /\ len[bi] > 0
             /\ bPos' = pos
             /\ bChunk' = IF count < bChunk THEN RoundUp(count, tracks[bTrack].sec)
                          ELSE bChunk
             /\ modified' = TRUE
             /\ bpc' \in {"written", "finish"}
    /\ UNCHANGED <<slots, stats, filler, bi, bTrack, bUsers, tracks, flags, cleaned>>

Continue ==
    /\ bpc = "written"
    /\ bpc' = IF MoreToRead(tracks[bTrack].size, bPos) THEN "release" ELSE "pad"
    /\ UNCHANGED <<slots, stats, filler, bi, bTrack, bPos, bChunk, bUsers, session>>

\* pad_track (its result is ignored) and cdr_close_track, which may fail.
Pad ==
    /\ bpc = "pad"
    /\ bpc' \in {"open", "finish"}
    /\ UNCHANGED <<slots, stats, filler, bi, bTrack, bPos, bChunk, bUsers, session>>

\* comexit(): exscsi cleans the drive up, excdr kills the filler and reaps it.
Exit ==
    /\ bpc \in {"abort", "fatal", "finish"}
    /\ bpc' = "exited"
    /\ cleaned' = cleaned \cup {"burner"}
    /\ fpc' = Killed(fpc)
    /\ UNCHANGED <<slots, stats, fi, fTrack, fPos, fEof, bi, bTrack, bPos, bChunk,
                   bUsers, tracks, flags, modified>>

\* SIGINT.  The burner's handler ends in comexit(), at once or when the
\* running SCSI command is back; the filler has the default action, if the
\* signal reaches it at all.  A signal during the three steps that hand a slot
\* over is taken to arrive after them: the burner looks at no slot again.
Interrupt ==
    /\ bpc \notin {"load", "store", "hand", "abort", "fatal", "finish", "exited"}
    /\ bpc' = "finish"
    /\ fpc' \in {fpc, Killed(fpc)}
    /\ UNCHANGED <<slots, stats, fi, fTrack, fPos, fEof, bi, bTrack, bPos, bChunk,
                   bUsers, session>>

BurnerStep ==
    \/ Start \/ Await \/ Blank \/ OpenTrack \/ Release \/ GetReady
    \/ Check \/ LoadUsers \/ StoreUsers \/ Hand \/ Write \/ Continue \/ Pad \/ Exit

\* Both processes are gone.
Gone ==
    /\ bpc = "exited" /\ fpc \in FillerStopped
    /\ UNCHANGED vars

Next ==
    \/ FillerStep \/ FillerTimeout \/ FillerDies
    \/ BurnerStep \/ BurnerTimeout \/ Interrupt
    \/ Gone

Spec == Init /\ [][Next]_vars

\* Each process runs on when it can; the burner's wait for a segment ends after
\* READER_MAXWAIT at the latest.
Fairness == /\ WF_vars(FillerStep)
            /\ WF_vars(BurnerStep \/ BurnerTimeout)

FairSpec == Spec /\ Fairness

------------------------------------------------------------------------------
(* Properties                                                              *)

\* The values every variable ranges over, in the program and in the model.
TypeOK ==
    /\ owner \in [Slots -> {"writer", "faio", "reader"}]
    /\ users \in [Slots -> Int]
    /\ fd \in [Slots -> Int]
    /\ len \in [Slots -> Int]
    /\ data \in [Slots -> [track : Nat, pos : Nat]]
    /\ puts \in Nat /\ gets \in Nat /\ done \in Nat
    /\ fpc \in FillerActive \cup FillerStopped
    /\ fi \in Slots /\ fTrack \in 1 .. Len(tracks) /\ fPos \in Nat
    /\ fEof \in BOOLEAN
    /\ bpc \in BurnerPC
    /\ bi \in Slots /\ bTrack \in 0 .. Len(tracks) /\ bPos \in Nat
    /\ bChunk \in Int /\ bUsers \in Int
    /\ tracks \in TrackLists /\ flags \in Options
    /\ modified \in BOOLEAN /\ cleaned \subseteq {"filler", "burner"}

\* The burner is inside the slot at bi: it checks it, takes it or writes it.
InUse == bpc \in {"check", "load", "store", "hand", "write"}

\* The filler never reads into the slot the burner is looking at: between
\* faio_wait_on_buffer(owner_reader) and the end of write_secs() its bytes
\* stay what they were.
NoTornRead == InUse => ~(fpc \in {"fill", "publish"} /\ fi = bi)

\* faio_reader and write_track_data run the same loop in two processes: the
\* segment the burner gets is the one at its own position of its own track,
\* none lost, repeated, reordered or taken from the forced slot.
InStep == InUse => data[bi] = At(bTrack, bPos)

\* Neither of the two fatal comerrno() calls of faio_get_buf can be reached as
\* long as an input that has ended stays ended.
NeverFatal == ~Growing => bpc # "fatal"

\* The users count is shared by two read-modify-write sequences, one of them
\* unsynchronised; still every segment taken is handed back.
AlwaysHandedBack == bpc = "hand" => bUsers <= 0

\* The filler waits for a free slot and the burner for a full one: never both.
NoMutualWait ==
    ~ /\ fpc = "wait" /\ owner[fi] # "writer"
      /\ bpc = "getwait" /\ owner[bi] # "reader"

\* A filler that read everything left nothing for the burner to wait for: the
\* next segment the burner asks for is there.
NothingMissing ==
    (fpc = "exited" /\ bpc = "getwait") => owner[bi] = "reader"

\* fifo_percent(), called after each write: sp->puts runs behind the slots
\* already published, the "+ 1" makes up for it.
FifoPercent ==
    IF done > 0 THEN 100
    ELSE LET percent == (100 * (puts + 1 - gets)) \div NBuf
         IN  IF percent > 100 THEN 100 ELSE percent
PercentInRange == bpc = "written" => FifoPercent \in 0 .. 100

\* "will abort prior to do any modifications on the disk if mkisofs dies before
\* it starts writing": giving up in await_faio leaves the medium as it was, but
\* for blank= with -force, which does not wait for the input.
PrematureEOFSafe == bpc = "abort" => (modified => BlankFirst)

\* A track is padded and closed at its whole size, or at the filler's own mark
\* that its input ended where the burner stands: never at the empty segment of
\* another track, nor at one that is not yet there.
TrackWhole ==
    bpc = "pad" =>
        \/ ~MoreToRead(tracks[bTrack].size, bPos)
        \/ len[bi] = 0 /\ data[bi] = At(bTrack, bPos)

\* The burner never takes a segment for a fatal mismatch, never waits for one
\* when the filler is through, closes no track early, shows no percentage that
\* is none, and gives up before the medium is touched.  (That the segments come
\* in order is InStep; short last records are padded in Write.)
Delivered ==
    NeverFatal /\ NothingMissing /\ TrackWhole /\ PercentInRange /\ PrematureEOFSafe

\* A slot changes hands in one direction only: writer, reader, faio, writer.
\* The filler's store in "Prevent hang" is the exception, and it may hit any
\* state of the last slot; after it the burner takes that slot no more.
OwnerCycle ==
    [][\A i \in Slots :
          \/ owner'[i] = owner[i]
          \/ owner[i] = "writer" /\ owner'[i] = "reader"
          \/ owner[i] = "reader" /\ owner'[i] = "faio"
          \/ owner[i] = "faio" /\ owner'[i] = "writer"
          \/ fpc = "force" /\ i = Last]_vars

\* The burner terminates; the one wait that has no timeout, for the FIFO to
\* fill, outlives a filler that was killed.
Terminates ==
    <>(bpc = "exited") \/ <>[](bpc = "await" /\ fpc \in {"killed", "cut"})

------------------------------------------------------------------------------
(* Why the ring is safe: an inductive invariant                            *)

\* While the burner works on a track it has one.
OnTrack ==
    bpc \in {"release", "getwait", "check", "load", "store", "hand", "write",
             "written", "pad"} => bTrack >= 1

\* Whose slot is whose, as the two program counters imply it.
Ownership ==
    /\ fpc \in {"fill", "publish"} => owner[fi] = "writer"
    /\ bpc \in {"check", "load", "store", "hand"} => owner[bi] = "reader"
    /\ bpc = "write" => owner[bi] # "writer"
    /\ \A i \in Slots : owner[i] = "faio" =>
          i = bi /\ bpc \notin {"start", "await", "blank", "getwait",
                                "check", "load", "store", "hand"}

\* No slot ever counts more than the one reader there is.
UserCounts ==
    /\ \A i \in Slots : users[i] <= 1
    /\ bpc \in {"store", "hand"} => bUsers <= 0

\* How far slot i is ahead of the burner, going round the ring.
Ahead(i) == IF i >= bi THEN i - bi ELSE i - bi + NBuf

\* The k slots from the burner's on are published and not given back, the
\* others are free.  The filler stands right behind the k, or on the last of
\* them as long as it has not counted it; the burner may be past that one.
RingOf(k) ==
    /\ \A i \in Slots : (owner[i] = "writer") <=> (Ahead(i) >= k)
    /\ fpc \in {"wait", "fill", "publish"} => Ahead(fi) = IF k = NBuf THEN 0 ELSE k
    /\ fpc \in {"users", "puts"} => Ahead(fi) = IF k = 0 THEN NBuf - 1 ELSE k - 1

Reading == {"wait", "fill", "publish", "users", "puts"}

Ring == fpc \in Reading => \E k \in 0 .. NBuf : RingOf(k)

\* What the filler asked for to fill slot i, and whether the input ended in it.
Wanted(i) ==
    LET t == tracks[data[i].track]
    IN  BytesToRead(t.size, data[i].pos, Chunk(t))
Short(i) == 0 <= len[i] /\ len[i] < Wanted(i)

\* What the filler has in the slot it works on; no track is read beyond its size.
Filling ==
    /\ fpc \in {"fill", "publish", "users", "puts"} => fd[fi] = tracks[fTrack].fd
    /\ fpc \in {"publish", "users", "puts"} =>
          /\ data[fi] = At(fTrack, fPos)
          /\ len[fi] \in {ReadError} \cup 0 .. Wanted(fi)
          /\ Short(fi) => fEof
    /\ fPos = 0 \/ MoreToRead(tracks[fTrack].size, fPos)

\* The place that follows a segment of n bytes at p, for both processes; End
\* follows the last.
After(p, n) ==
    IF TrackGoesOn(n, tracks[p.track].size, p.pos) THEN At(p.track, p.pos + n)
    ELSE At(p.track + 1, 0)
End == At(Len(tracks) + 1, 0)

\* What the filler publishes next, unless it was stopped.
FillerNext ==
    IF fpc \in {"users", "puts"} THEN After(At(fTrack, fPos), len[fi])
    ELSE IF fpc \in {"wait", "fill", "publish"} THEN At(fTrack, fPos) ELSE End
FillerKnows == fpc \notin {"timedout", "killed", "cut"}

\* What the burner has at hand or asks for next.
BurnerNext ==
    IF \/ bpc \in {"start", "await", "blank", "open", "pad"}
       \/ bpc = "written" /\ ~MoreToRead(tracks[bTrack].size, bPos)
    THEN At(bTrack + 1, 0) ELSE At(bTrack, bPos)
Going == bpc \notin {"abort", "fatal", "finish", "exited"} /\ BurnerNext # End

\* The slot at bi is the one before that.
Behind == bpc \in {"written", "pad"} \/ (bpc \in {"open", "release"} /\ owner[bi] = "faio")

Published == puts + IF fpc \in {"users", "puts", "cut"} THEN 1 ELSE 0

\* The burner has a slot it did not give back yet.
Holding == bpc \in {"load", "store", "hand"} \/ owner[bi] = "faio"

\* Slot i holds a segment of the tracks.
Sound(i) ==
    LET t == data[i].track
    IN  /\ owner[i] # "writer" /\ t \in 1 .. Len(tracks) /\ fd[i] = tracks[t].fd
        /\ data[i].pos = 0 \/ MoreToRead(tracks[t].size, data[i].pos)
        /\ len[i] \in {ReadError} \cup 0 .. Wanted(i)

\* The k slots from the burner's on hold segments that follow each other up to
\* what the filler is at; the forced slot is none of them, but it was the
\* burner's turn to stop before it.
Chain(k) ==
    /\ \A i \in Slots : Ahead(i) < k => Sound(i)
    /\ \A i \in Slots : Ahead(i) >= k => owner[i] = "writer" \/ (fpc = "exited" /\ i = Last)
    /\ \A i, j \in Slots : Ahead(j) = Ahead(i) + 1 /\ Ahead(j) < k =>
          data[j] = After(data[i], len[i])
    /\ FillerKnows => \A i \in Slots : Ahead(i) = k - 1 => FillerNext = After(data[i], len[i])
    /\ fpc = "force" => bi + k <= NBuf
    /\ Published - gets = k - IF Holding \/ bpc = "write" THEN 1 ELSE 0

\* The burner stands at the first of them.
Meets(k) ==
    /\ Behind => k > 0 /\ owner[bi] = "faio" /\ BurnerNext = After(data[bi], len[bi])
    /\ ~Behind /\ k > 0 => data[bi] = BurnerNext
    /\ ~Behind /\ k = 0 /\ FillerKnows => FillerNext = BurnerNext
    /\ bpc = "write" =>
          \/ owner[bi] = "faio"
          \/ fpc = "exited" /\ After(data[bi], len[bi]) = End

\* An input that has ended stays ended: what follows a short segment in its
\* track is empty or an error, and the burner may ask for less.
EndSeen == fpc \in Reading => fEof /\ (fpc = "publish" => len[fi] <= 0)
Stays(k) ==
    /\ \A i, j \in Slots : Ahead(j) = Ahead(i) + 1 /\ Ahead(j) < k =>
          (data[j].track = data[i].track /\ Short(i) => len[j] <= 0)
    /\ \A i \in Slots :
          (Ahead(i) = k - 1 /\ FillerNext.track = data[i].track /\ Short(i)) => EndSeen
AsksLess(k) ==
    (Going /\ BurnerNext.track = bTrack /\ bChunk # Chunk(tracks[bTrack])) =>
       /\ bPos > 0 /\ bChunk \in Nat
       /\ IF Behind THEN Short(bi) ELSE IF k > 0 THEN len[bi] <= 0 ELSE EndSeen

\* Once the filler is through and its store was forced, this says something
\* only as long as the burner has something to take.
OrderOf(k) ==
    /\ Chain(k)
    /\ Going => Meets(k)
    /\ ~Growing => Stays(k) /\ AsksLess(k)
Order == fpc # "exited" \/ Going => \E k \in 0 .. NBuf : OrderOf(k)

\* As long as nothing was taken the burner stands at the first slot; fatal()
\* is never called; what was blanked before the input was known was to be.
Begun ==
    /\ gets = 0 => bi = 0 /\ ~Holding
    /\ bpc \in {"start", "await", "blank"} => bTrack = 0 /\ gets = 0
    /\ bpc = "fatal" => Growing
    /\ bpc \in {"start", "await", "abort"} => (modified => BlankFirst)
    /\ fpc \in {"force?", "force", "exited"} => done > 0

\* The inductive invariant the proofs use; the ring structure ends when the
\* filler is through, for the forced store may destroy it.
IndInv ==
    /\ TypeOK /\ OnTrack /\ Ownership /\ UserCounts /\ Ring
    /\ Filling /\ Order /\ Begun

------------------------------------------------------------------------------
(* The ring as a bounded queue                                             *)

TheSegment(i) == [at |-> data[i], len |-> len[i]]

\* Filled buffers the burner did not take yet, in ring order.
Waiting ==
    [k \in 1 .. Published - gets |->
        TheSegment((bi + k - (IF Holding THEN 0 ELSE 1)) % NBuf)]

Queue == INSTANCE FifoQueue WITH
    Capacity <- NBuf,
    Segment <- [at : [track : Nat, pos : Nat], len : Int],
    queue <- Waiting,
    held <- IF Holding THEN <<TheSegment(bi)>> ELSE <<>>

\* Slot headers, counters and indices together implement the bounded queue,
\* until the filler's forced store at the end of its life.
RingIsQueue == Queue!Spec
==============================================================================
