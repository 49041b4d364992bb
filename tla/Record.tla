-------------------------------- MODULE Record --------------------------------
(***************************************************************************)
(* cdrecord writes a CD: what main() does from the set up of the drive to  *)
(* the exit handlers, with the loops that write and pad a track            *)
(* (cdrecord.c, wm_packet.c) and the functions of the MMC driver           *)
(* (drv_mmc.c).                                                            *)
(*                                                                         *)
(* A step is one or two SCSI commands; every command may fail, a write may *)
(* be put off, and a signal may arrive at any time.  The FIFO hands over   *)
(* what it has read (module Fifo); here it matters that its process has    *)
(* copied the table of tracks when it was forked.                          *)
(*                                                                         *)
(* Input is counted in half sectors, to have some that end within one.     *)
(***************************************************************************)
EXTENDS Integers, Sequences

CONSTANTS
    Jobs,      \* what is asked of the program, see Job: the size is known in SAO and RAW mode
    Min,       \* sectors of the shortest track the Red Book allows: 300
    Secspt,    \* sectors of a transfer, or of a packet
    Pregap,    \* sectors before the first address: 150
    MaxBusy,   \* how often in a row the drive puts off a write
    MaxIntr    \* signals

Modes == {"tao", "sao", "raw", "variable", "fixed"}
\* itracksize, padsecs, pregapsize, and TI_PREGAP, TI_SHORT_TRACK; size: what
\* the input has; audio: the type of the sectors.
Track == [its : {-1} \cup Nat, size : Nat, pad : Nat, pregap : Nat,
          inpre : BOOLEAN, short : BOOLEAN, audio : BOOLEAN]
\* secsize: of the drive before; fifo: a process fills a FIFO.
Job == [mode : Modes, dummy : BOOLEAN, multi : BOOLEAN, nofix : BOOLEAN,
        fifo : BOOLEAN, secsize : {0, 512, 2048}, tracks : Seq(Track)]
ASSUME JobAssumption ==
    /\ Jobs \subseteq Job
    /\ \A j \in Jobs : /\ j.tracks # <<>>
                       /\ j.mode \in {"sao", "raw"} => \A i \in DOMAIN j.tracks : j.tracks[i].its >= 0
\* set_trsizes() limits a transfer to 255 sectors, less than the shortest track.
ASSUME SizeAssumption ==
    /\ {Min, Secspt, Pregap} \subseteq Nat \ {0} /\ Secspt < Min
    /\ MaxBusy \in Nat /\ MaxIntr \in Nat

VARIABLES
    job, pc,
    page,       \* write parameter page of the drive: test_write, write_type,
                \* dbtype, multi_session
    secsize,    \* of the drive; 0: not known
    track,      \* the number of the track
    trackstart, \* of the tracks and the lead-out
    startsec, bytes_read, bytes, bytespt, islast, padsecs, amt, retried, busy,
    from,       \* bytes_read before the last read
    errs, status, intrs,
    \* history
    out,        \* sectors written of each track: the n-th of the input is n
    pos,        \* the end of the last write, None: a new start
    gap,        \* a write began elsewhere
    last,       \* a write of this track was said to be its last
    scrambled,  \* the user data in the buffer of pad_track() is scrambled zeros
    misplaced,  \* a sector was encoded for another address
    lossy,      \* padding failed, or a write was short: not noticed
    cached,     \* something written may still be in the cache of the drive
    refused     \* the sector size could not be set

drive == <<page, secsize, refused>>
loop == <<startsec, bytes_read, from, bytes, bytespt, islast, padsecs, amt, retried, busy>>
media == <<out, pos, gap, last, scrambled, misplaced, lossy>>
over == <<errs, status>>
vars == <<job, pc, drive, track, trackstart, loop, over, intrs, media, cached>>

None == -1000
Tracks == job.tracks
N == Len(Tracks)
T == Tracks[track]
Whole == job.mode \in {"sao", "raw"}         \* not TAO and not packets
Secs(units) == (units + 1) \div 2

----------------------------------------------------------------------------
(* opentracks() and checktsize(): the plan                                 *)

\* A track that is too short is padded, as far as its size is known.
Padded(t) ==
    IF ~t.short /\ t.its > 0 /\ t.its \div 2 < Min /\ t.pad + Secs(t.its) < Min
    THEN Min - Secs(t.its) ELSE t.pad

RunOut(t) == IF job.mode = "tao" /\ ~t.audio THEN 2 ELSE 0
Longer(t, n) == IF ~t.short /\ n < Min THEN Min ELSE n
Current(t) ==
    IF t.its < 0 THEN 0 ELSE Longer(t, Secs(t.its) + Padded(t)) + RunOut(t)

Gap(t) == IF t.inpre THEN 0 ELSE t.pregap

\* trackstart of track i, and of the lead-out if i = N + 1
Plan ==
    LET start[i \in 1 .. N + 1] ==
            IF i = 1 THEN Gap(Tracks[1]) - Pregap
            ELSE start[i - 1] + Current(Tracks[i - 1])
                 + IF i <= N THEN Gap(Tracks[i]) ELSE 0
    IN  start

----------------------------------------------------------------------------
(* The drive                                                               *)

Default(p) == [p EXCEPT !.type = "tao", !.db = "data"]

\* deflt_writemodes_mmc(FALSE): get, set, and set another if that is refused
deflt_writemodes(p) == {p, Default(p), [p EXCEPT !.type = "sao", !.db = "data", !.multi = FALSE]}

WithTest(p) == [p EXCEPT !.test = job.dummy]

SessionPage(p) ==
    [p EXCEPT !.type = IF Whole THEN job.mode ELSE "tao",
              !.db = IF Whole THEN "raw" ELSE IF Tracks[1].audio THEN "audio" ELSE "data",
              !.multi = job.multi]

TrackPage(p) == [p EXCEPT !.type = job.mode, !.db = IF T.audio THEN "audio" ELSE "data"]

Leave(st) == pc' = "flush" /\ status' = st

----------------------------------------------------------------------------
(* main(): up to the first track                                           *)

Begin == UNCHANGED <<job, track, loop, errs, intrs, media, cached>>

\* The sector size of the drive becomes 2048.
Setup ==
    /\ pc = "setup" /\ pc' = "init"
    /\ secsize' \in IF job.secsize = 0 THEN {0} ELSE {secsize, 2048}
    /\ Begin /\ UNCHANGED <<page, refused, trackstart, status>>

\* speed_select_mmc(): init_mmc() and later set_speed_dummy(), whose setting of
\* the speed may fail, too
SpeedSelect ==
    /\ pc \in {"init", "speed"}
    /\ \E p \in deflt_writemodes(page) :
          \/ page' = WithTest(p) /\ UNCHANGED status
             /\ pc' = IF pc = "init" THEN "speed" ELSE "session"
          \/ page' \in {p} \cup {WithTest(q) : q \in {x \in {p} : pc = "speed"}}
             /\ Leave("fatal")
    /\ Begin /\ UNCHANGED <<secsize, refused, trackstart>>

\* open_session_mmc() and do_opc(); opt2_mmc() before them changes BURN-Free only.
open_session ==
    /\ pc = "session"
    /\ page' \in {page, SessionPage(page)}
    /\ \/ page' = SessionPage(page) /\ pc' = "leadin" /\ UNCHANGED status
       \/ Leave("fatal")
    /\ Begin /\ UNCHANGED <<secsize, refused, trackstart>>

Shift(n) ==
    IF job.mode = "sao"
    THEN [i \in 1 .. N + 1 |-> IF i <= N THEN trackstart[i] + n + Pregap ELSE trackstart[i]]
    ELSE trackstart

\* write_leadin_mmc(): the CUE sheet, or the lead-in in RAW mode.  An address
\* up to 0 that is not -Pregap is not believed.
write_leadin ==
    /\ pc = "leadin"
    /\ \/ \E n \in {-Pregap, Pregap} : trackstart' = Shift(n)
          /\ pc' = "open" /\ UNCHANGED status
       \/ Whole /\ Leave("fatal") /\ UNCHANGED trackstart
    /\ track' = 1 /\ pos' = None
    /\ UNCHANGED <<job, drive, loop, errs, intrs, out, gap, last, scrambled, misplaced,
                   lossy, cached>>

----------------------------------------------------------------------------
(* main(): a track                                                         *)

\* "Cannot ...": the rest of the tracks is left out.
GiveUp == errs' = errs + 1 /\ pc' = "leadout" /\ UNCHANGED status

\* open_track_mmc()
NewTrack == bytes_read' = 0 /\ from' = 0 /\ bytes' = 0 /\ bytespt' = 2 * Secspt /\ islast' = FALSE
            /\ retried' = FALSE /\ busy' = 0 /\ padsecs' = Padded(T) /\ last' = FALSE /\ scrambled' = FALSE

\* Mutant: the pregap is written even if it is in the track before.
AnyPregap == T.pregap > 0

HasPregap == T.pregap > 0 /\ ~T.inpre

OpenWhole ==
    /\ pc = "open" /\ Whole
    /\ IF HasPregap
       THEN pc' = "pregap" /\ startsec' = trackstart[track] - T.pregap /\ amt' = 2 * T.pregap
       ELSE pc' = "data" /\ startsec' = trackstart[track] /\ amt' = 0
    /\ NewTrack
    /\ UNCHANGED <<job, drive, track, trackstart, over, intrs, out, pos, gap, misplaced,
                   lossy, cached>>

OpenTrack ==
    /\ pc = "open" /\ ~Whole
    /\ \/ page' = TrackPage(page) /\ secsize' = (IF T.audio THEN 2352 ELSE 2048) /\ pc' = "addr"
          /\ UNCHANGED over
       \/ GiveUp /\ UNCHANGED <<page, secsize>>
    /\ startsec' = 0 /\ amt' = 0 /\ NewTrack
    /\ UNCHANGED <<job, refused, track, trackstart, intrs, out, pos, gap, misplaced, lossy, cached>>

\* next_wr_addr_mmc(): the drive leaves some blocks between two tracks
NextAddress ==
    /\ pc = "addr"
    /\ \/ \E n \in {0, 2} : startsec' = (IF pos = None THEN 0 ELSE pos) + n
          /\ trackstart' = [trackstart EXCEPT ![track] = startsec']
          /\ pos' = None /\ pc' = "data" /\ UNCHANGED over
       \/ GiveUp /\ UNCHANGED <<startsec, trackstart, pos>>
    /\ UNCHANGED <<job, drive, track, bytes_read, from, bytes, bytespt, islast, padsecs, amt,
                   retried, busy, intrs, out, gap, last, scrambled, misplaced, lossy, cached>>

----------------------------------------------------------------------------
(* write_track_data() and write_packet_data()                              *)

Smaller(a, b) == IF a < b THEN a ELSE b

Wanted == IF T.its > 0 THEN Smaller(bytespt, T.its - bytes_read) ELSE bytespt

\* What is left of the input; a read waits until it has all it was asked for.
Read == Smaller(Wanted, T.size - bytes_read)
AtEnd == T.its >= 0 /\ bytes_read' >= T.its
Data == IF AtEnd THEN Read - (bytes_read' - T.its) ELSE Read

\* trackp->padsecs, islast: the last write of the track
MaybeLast ==
    \/ padsecs = 0 /\ job.mode \notin {"variable", "fixed"} /\ (T.short \/ bytes_read' \div 2 >= Min)
    \/ job.mode \in {"variable", "fixed"} /\ (padsecs = 0 \/ bytes_read' \div 2 >= Min)

\* A fixed packet is filled up, else a sector.
Rounded(n) == IF job.mode = "fixed" THEN bytespt ELSE 2 * Secs(n)

GetBuf ==
    /\ pc = "data"
    /\ from' = bytes_read
    /\ \/ /\ Read > 0 /\ bytes_read' = bytes_read + Read
          /\ islast' = (islast \/ ((AtEnd \/ Data < bytespt) /\ MaybeLast))
          /\ bytespt' = IF Data < bytespt THEN Rounded(Data) ELSE bytespt
          /\ retried' = FALSE /\ pc' = "write" /\ UNCHANGED status
       \/ /\ Read <= 0 /\ pc' = "tail" /\ UNCHANGED <<bytes_read, islast, bytespt, retried, status>>
       \/ /\ Leave("fatal") /\ UNCHANGED <<bytes_read, islast, bytespt, retried>>  \* read error
    /\ UNCHANGED <<job, drive, track, trackstart, startsec, bytes, padsecs, amt, busy,
                   errs, intrs, media, cached>>

\* A write at s of a buffer of which n sectors were taken; the pregap is not
\* counted as part of the track.
Burn(s, buffer, n) ==
    /\ out' = IF pc = "pregap" THEN out ELSE [out EXCEPT ![track] = @ \o SubSeq(buffer, 1, n)]
    /\ pos' = s + n /\ gap' = (gap \/ (pos # None /\ s # pos))
    /\ last' = (last \/ islast') /\ cached' = TRUE /\ lossy' = (lossy \/ n < Len(buffer))

\* The sectors of the buffer: numbers of the input, and zeros
Chunk ==
    LET end == Secs(IF T.its >= 0 THEN Smaller(T.its, bytes_read) ELSE bytes_read)
    IN  [k \in 1 .. bytespt \div 2 |-> IF from \div 2 + k <= end THEN from \div 2 + k ELSE 0]

\* The address a sector is encoded for: the process of the FIFO counts from the
\* trackstart it knows.
Encoded == IF job.fifo THEN Plan[track] + from \div 2 ELSE startsec

\* Mutant: a write that was put off is taken for done.
TakenForDone == "data"

Again == pc

\* write_secs()
Busy ==
    /\ pc \in {"write", "pad", "pregap"} /\ busy < MaxBusy
    /\ busy' = busy + 1 /\ pc' = Again
    /\ UNCHANGED <<job, drive, track, trackstart, startsec, bytes_read, from, bytes, bytespt,
                   islast, padsecs, amt, retried, over, intrs, media, cached>>

\* Before a packet of variable size the drive is asked where it goes.
Addresses ==
    LET asked == {IF retried /\ a = startsec THEN startsec + 7 ELSE a :
                     a \in {startsec, startsec + 7}}
    IN  IF job.mode = "variable" THEN asked \cup {startsec} ELSE {startsec}

\* Mutant: it is not remembered that the packet is tried a second time.
RetryForgotten == UNCHANGED retried

Retried == retried' = TRUE

WriteFails ==
    IF job.mode = "variable" /\ ~retried THEN Retried /\ UNCHANGED <<pc, over>>
    ELSE GiveUp /\ UNCHANGED retried

More == T.its < 0 \/ bytes_read < T.its

WriteData ==
    /\ pc = "write" /\ busy' = 0
    /\ UNCHANGED <<job, drive, track, trackstart, bytes_read, from, bytespt, islast, padsecs,
                   amt, intrs, scrambled>>
    /\ \/ \E n \in {bytespt \div 2, bytespt \div 2 - 1} \cap Nat, s \in Addresses :
             /\ Burn(s, Chunk, n)
             /\ startsec' = s + n /\ bytes' = bytes + 2 * n
             /\ misplaced' = (misplaced \/ (job.mode = "raw" /\ Encoded # s))
             /\ pc' = IF More THEN "data" ELSE "tail"
             /\ UNCHANGED <<retried, over>>
       \/ WriteFails /\ UNCHANGED <<startsec, bytes, out, pos, gap, last, misplaced, lossy, cached>>

\* Mutant: a track whose size was not known is not made longer.
PadAsPlanned == padsecs

\* The length of the track was not known, or the input was shorter.
PadMore ==
    IF (~T.short \/ job.mode \in {"variable", "fixed"}) /\ padsecs + bytes \div 2 < Min
    THEN Min - bytes \div 2 ELSE padsecs

EndOfTrack ==
    /\ pc = "tail"
    /\ padsecs' = PadMore
    /\ amt' = 2 * padsecs' /\ bytespt' = 2 * Secspt /\ scrambled' = FALSE /\ islast' = FALSE
    /\ pc' = IF padsecs' > 0 THEN "pad" ELSE "close"
    /\ UNCHANGED <<job, drive, track, trackstart, startsec, bytes_read, from, bytes, retried, busy,
                   over, intrs, out, pos, gap, last, misplaced, lossy, cached>>

----------------------------------------------------------------------------
(* pad_track()                                                             *)

\* encsectors() scrambles the buffer in place and works on what the transfer
\* before has left in it.
Zeros(n) == [k \in 1 .. n |-> IF scrambled /\ job.mode = "raw" /\ ~T.audio THEN -1 ELSE 0]

PadSize == Smaller(amt, 2 * Secspt) \div 2

\* write_track_data() starts at trackstart whatever open_track() wrote.
PadNext ==
    IF pc = "pregap" THEN pc' = "data" /\ startsec' = trackstart[track]
    ELSE pc' = "close" /\ UNCHANGED startsec

\* The callers do not look at the result.
PadTrack ==
    /\ pc \in {"pad", "pregap"} /\ busy' = 0
    /\ \/ \E n \in {PadSize, PadSize - 1} \ {0} :
             /\ islast' = (pc = "pad" /\ amt <= 2 * PadSize)
             /\ Burn(startsec, Zeros(PadSize), n)
             /\ amt' = amt - 2 * n /\ scrambled' = ~scrambled
             /\ IF amt' > 0 THEN startsec' = startsec + n /\ UNCHANGED pc ELSE PadNext
       \/ PadNext /\ lossy' = TRUE /\ UNCHANGED <<islast, amt, scrambled, out, pos, gap, last, cached>>
    /\ UNCHANGED <<job, drive, track, trackstart, bytes_read, from, bytes, bytespt, padsecs,
                   retried, over, intrs, misplaced>>

----------------------------------------------------------------------------
(* main(): the end                                                         *)

End == UNCHANGED <<job, loop, intrs, out, gap, last, scrambled, misplaced, lossy>>

\* close_track_mmc() flushes the cache of the drive.
CloseTrack ==
    /\ pc = "close"
    /\ \/ /\ track' = track + 1 /\ pc' = (IF track < N THEN "open" ELSE "leadout")
          /\ cached' = (Whole /\ cached) /\ UNCHANGED over
       \/ ~Whole /\ GiveUp /\ UNCHANGED <<track, cached>>
    /\ UNCHANGED <<drive, trackstart, pos>> /\ End

\* write_leadout() in RAW mode, whatever happened before
Leadout ==
    /\ pc = "leadout" /\ pc' = IF job.nofix THEN "exit" ELSE "fixate"
    /\ gap' = (gap \/ (job.mode = "raw" /\ errs = 0 /\ pos \notin {None, trackstart[N + 1]}))
    /\ UNCHANGED <<job, drive, track, trackstart, loop, over, intrs, out, pos, last, scrambled,
                   misplaced, lossy, cached>>

\* fixate_mmc(): without a session to close the cache is flushed, and that this
\* failed is not told.
Fixate ==
    /\ pc = "fixate" /\ pc' = "exit"
    /\ IF Whole THEN cached' \in {cached, FALSE} /\ UNCHANGED errs
       ELSE UNCHANGED cached /\ errs' \in (IF job.dummy THEN {errs} ELSE {errs, errs + 1})
    /\ UNCHANGED <<drive, track, trackstart, status, pos>> /\ End

Exit ==
    /\ pc = "exit" /\ Leave(IF errs = 0 THEN "ok" ELSE "errors")
    /\ UNCHANGED <<drive, track, trackstart, errs, pos, cached>> /\ End

\* exscsi(): a flush and the old sector size
Flush ==
    /\ pc = "flush" /\ pc' = "restore"
    /\ cached' \in {cached, FALSE}
    /\ UNCHANGED <<drive, track, trackstart, over, pos>> /\ End

\* Mutant: the size that was set at the start is set again.
DataSize == 2048

OldSize == job.secsize

Restore ==
    /\ pc = "restore" /\ pc' = "ended"
    /\ \/ secsize' = (IF job.secsize > 0 THEN OldSize ELSE secsize) /\ UNCHANGED refused
       \/ UNCHANGED secsize /\ refused' = TRUE
    /\ UNCHANGED <<page, track, trackstart, over, pos, cached>> /\ End

\* intfifo(): the handlers of comexit() run, at once or when the command is done;
\* the second signal during one command ends the program, and so does a signal
\* before gracewait().
Signal ==
    /\ pc # "ended" /\ intrs < MaxIntr
    /\ IF pc \in {"setup", "init", "speed"}
       THEN pc' = "ended" /\ status' = "killed" /\ intrs' = intrs + 1
       ELSE \/ pc' = "flush" /\ status' = (IF status = "running" THEN "signal" ELSE status)
               /\ intrs' = intrs + 1
            \/ intrs + 2 <= MaxIntr /\ pc' = "ended" /\ status' = "killed" /\ intrs' = intrs + 2
    /\ UNCHANGED <<job, drive, track, trackstart, loop, errs, media, cached>>

Init ==
    /\ job \in Jobs /\ pc = "setup"
    /\ page \in [test : BOOLEAN, type : {"tao"}, db : {"data"}, multi : {FALSE}]
    /\ secsize = job.secsize /\ refused = FALSE
    /\ track = 0 /\ trackstart = Plan
    /\ startsec = 0 /\ bytes_read = 0 /\ from = 0 /\ bytes = 0 /\ bytespt = 0
    /\ islast = FALSE /\ padsecs = 0 /\ amt = 0 /\ retried = FALSE /\ busy = 0
    /\ errs = 0 /\ status = "running" /\ intrs = 0
    /\ out = [i \in 1 .. N |-> <<>>] /\ pos = None /\ gap = FALSE
    /\ last = FALSE /\ scrambled = FALSE /\ misplaced = FALSE /\ lossy = FALSE /\ cached = FALSE

WriteTrack == GetBuf \/ Busy \/ WriteData \/ EndOfTrack \/ PadTrack
Program == Setup \/ SpeedSelect \/ open_session \/ write_leadin \/ OpenWhole \/ OpenTrack
           \/ NextAddress \/ WriteTrack \/ CloseTrack \/ Leadout \/ Fixate \/ Exit
           \/ Flush \/ Restore
Next == Program \/ Signal

Spec == Init /\ [][Next]_vars
FairSpec == Spec /\ WF_vars(Program)

----------------------------------------------------------------------------
(* Properties.                                                             *)

Ended == pc = "ended"
ShortInput == \E i \in 1 .. N : Tracks[i].size < Tracks[i].its
Packets == job.mode \in {"variable", "fixed"}

\* Every variable holds what its declaration allows; what is to be padded is
\* never negative.
TypeOK ==
    /\ job \in Jobs
    /\ page \in [test : BOOLEAN, type : Modes, db : {"data", "audio", "raw"}, multi : BOOLEAN]
    /\ secsize \in {0, 512, 2048, 2352} /\ track \in 0 .. N + 1
    /\ trackstart \in [1 .. N + 1 -> Int] /\ startsec \in Int
    /\ {bytes_read, from, bytes, padsecs, amt} \subseteq Nat /\ bytespt \in 0 .. 2 * Secspt
    /\ busy \in 0 .. MaxBusy /\ errs \in 0 .. 2 /\ intrs \in 0 .. MaxIntr
    /\ status \in {"running", "ok", "errors", "fatal", "signal", "killed"}

\* Nothing is written before the drive is in the mode that was asked for: the
\* laser is off if and only if it is to be, the write type and the session are
\* the right ones.  Five functions read, change and set this page, every
\* one may fail, and the drive may keep test_write from the run before.
RightMode ==
    [][out' # out \/ (pc = "pregap" /\ pos' # pos) =>
          /\ page.test = job.dummy /\ page.type = job.mode /\ page.multi = job.multi
          /\ page.db = IF Whole THEN "raw" ELSE IF T.audio THEN "audio" ELSE "data"]_vars

\* In SAO and RAW mode the tracks, their pregaps and padding and the lead-out
\* follow each other without a gap, as they were planned: checktsize() computes
\* from the sizes of the files what write_track_data() and pad_track() find out
\* on their own.  Not so if an input is shorter than it was said to be, or
\* padding failed, which is not looked at (cdrecord.c:2188).
Contiguous == Whole /\ ~lossy /\ ~ShortInput => ~gap

\* Exit status 0 means that all of the input is on the disc, sector by sector
\* in order, and (but not in SAO and RAW mode, drv_mmc.c:2140) out of the cache
\* of the drive.
OkMeansWritten ==
    Ended /\ status = "ok" /\ ~lossy =>
        /\ \A i \in 1 .. N :
              LET n == IF Tracks[i].its >= 0 THEN Smaller(Tracks[i].its, Tracks[i].size)
                       ELSE Tracks[i].size
              IN  Len(out[i]) >= Secs(n) /\ \A k \in 1 .. Secs(n) : out[i][k] = k
        /\ ~Whole => ~cached

\* A track is at least 300 sectors long, whatever was known of its size.
LongEnough ==
    pc = "close" /\ ~lossy /\ (~T.short \/ Packets) => Len(out[track]) >= Min

\* "last write for track": nothing is written to a track after it.  The code
\* for packets says it and then pads.
LastIsLast == [][out' # out /\ ~Packets /\ ~lossy => ~last]_vars

\* A sector in RAW mode is encoded for the address it is written to, though the
\* process of the FIFO encodes it with a copy of the table of tracks made before
\* the session was opened (cdrecord.c:1278, cdrecord.c:1307).
EncodedInPlace == ~lossy => ~misplaced

\* The sector size of the drive is restored, however the program ends, unless
\* it is killed or the drive refuses.
SectorSizeRestored ==
    Ended /\ status # "killed" /\ ~refused /\ job.secsize > 0 => secsize = job.secsize

\* "15 sectors of zeroed data will be added to the end", cdrecord.1:1657.  Not so
\* in RAW mode, where pad_track() scrambles its buffer anew for every transfer.
PadIsZero ==
    ~lossy /\ job.mode # "raw" => \A i \in 1 .. N : \A k \in DOMAIN out[i] : out[i][k] >= 0

\* What is written to the disc, with every write: in the right mode, encoded for
\* its address, not behind the last write of a track, padded with zeros, and no
\* track too short.
WritesKept ==
    [](TypeOK /\ LongEnough /\ EncodedInPlace /\ PadIsZero) /\ RightMode /\ LastIsLast

\* The program ends: a packet is written anew only once.
Ends == <>Ended

==============================================================================
