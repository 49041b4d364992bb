-------------------------------- MODULE Readcd --------------------------------
(***************************************************************************)
(* readcd (readcd.c): copies a disc to a file, chunk by chunk, and repeats *)
(* a chunk that cannot be read sector by sector; or a file to a disc.  For *)
(* clone and C2 reads it changes the sector size and the error recovery    *)
(* mode of the drive, which an exit handler is to restore.  It does one    *)
(* operation, or asks for them in a menu.                                  *)
(*                                                                         *)
(* A step is a SCSI command, a transfer of the file, or a test of didintr. *)
(***************************************************************************)
EXTENDS Integers, Sequences

CONSTANTS
    Jobs,      \* what is asked of the program, see Job
    Chunk,     \* sectors in Sbuf
    Sectors    \* sectors of the medium

Ops == {"read", "clone", "c2", "write", "readda"}
\* ops: the operations; menu: they are asked for by doit(); start, end: the
\* range of sectors; retries, noerror: the options; size, mode: the sector size
\* and the error recovery byte of the drive; input: pieces, in half sectors, in
\* which read() returns what is to be written.
Job == [ops : Seq(Ops), menu : BOOLEAN, start : Nat, end : Nat, retries : Nat,
        noerror : BOOLEAN, size : {512, 2048}, mode : 0 .. 255, input : Seq(Nat)]
ASSUME JobAssumption == Jobs \subseteq Job /\ \A j \in Jobs : j.end <= Sectors
ASSUME SizeAssumption == Chunk \in Nat \ {0} /\ Sectors \in Nat

VARIABLES
    job, pc,
    ops,        \* the operations still to do
    size, mode, \* of the drive: the sector size, the error recovery byte
    osecsize, oerr,           \* of an operation: what it restores
    exoerr,                   \* exargs.oerr: None, or a signed char
    didintr, status,
    addr, cnt, sec, try, Sbuf, badsecs,
    file,                     \* what was written of the output file
    input, disc, half,        \* write_disk: what is left of the input, the
                              \* medium, half sectors of the input read so far
    \* history: how often each sector failed in a row; did the drive refuse to
    \* tell or change its mode; was a write to the file short; was half a sector
    \* read from the input; was anything complained about
    fails, refused, short, torn, warned

drive == <<size, mode>>
saved == <<osecsize, oerr, exoerr>>
retry == <<sec, try>>
out == <<input, disc, half, torn>>
vars == <<job, pc, ops, drive, saved, didintr, status, addr, cnt, retry, Sbuf, badsecs, file, out, fails, refused, short, warned>>

None == 1000
Op == Head(ops)
Changes == Op \in {"clone", "c2"}   \* this operation changes the drive

\* dorw() sets noerror for them, the menu does not.
Noerror == job.noerror \/ (Changes /\ ~job.menu)

\* A sector in a buffer or a file: a + 1 if it is sector a, 0 if it was filled
\* with zeros, -1 if only a part of it was transferred.
Good(a) == a + 1

\* exargs.oerr is an array of char.
Char(x) == IF x > 127 THEN x - 256 ELSE x

----------------------------------------------------------------------------
(* The mode of the drive                                                   *)

\* domode(err, retr), where -1 asks the user
domode(err) ==
    \/ mode' = err % 256 /\ err # -1 /\ UNCHANGED refused
    \/ mode' \in {mode, 7} /\ err = -1 /\ UNCHANGED refused
    \/ UNCHANGED mode /\ refused' = TRUE

select_secsize(n) ==
    \/ size' = n /\ UNCHANGED refused
    \/ UNCHANGED size /\ refused' = TRUE

\* comexit(): the handler exscsi() and exit
Leave(code) ==
    /\ status' = code
    /\ pc' = IF exoerr = None THEN "ended" ELSE "exscsi"

exscsi ==
    /\ pc = "exscsi" /\ pc' = "ended"
    /\ domode(exoerr)
    /\ UNCHANGED <<job, ops, size, saved, didintr, status, addr, cnt, retry, Sbuf, badsecs, file, out, fails, short, warned>>

\* SIGINT or SIGTERM only sets a flag, which is tested at some places.
intr ==
    /\ pc # "ended" /\ ~didintr /\ didintr' = TRUE
    /\ UNCHANGED <<job, pc, ops, drive, saved, status, addr, cnt, retry, Sbuf, badsecs, file, out, fails, refused, short, warned>>

----------------------------------------------------------------------------
(* dorw() and doit(): the next operation                                   *)

Idle == UNCHANGED <<job, drive, saved, didintr, retry, Sbuf, badsecs, fails,
                    refused, short>>

\* dorw() returns after its operation, doit() when it was interrupted.
Returns == IF job.menu THEN didintr ELSE ops = <<>>

\* The unit may not get ready.  Every operation opens its file anew; getint()
\* at the end of the input calls exit(), which does not run the handlers of
\* comexit().
Select ==
    /\ pc = "select"
    /\ Idle
    /\ \/ /\ ops # <<>> /\ ~Returns /\ pc' = "setup"
          /\ file' = <<>> /\ addr' = job.start /\ cnt' = Chunk /\ warned' = FALSE
          /\ input' = job.input /\ half' = 0 /\ UNCHANGED <<ops, status, disc, torn>>
       \/ /\ \/ Returns /\ Leave("ok")
             \/ (ops # <<>> \/ job.menu) /\ Leave("fatal")
             \/ ops = <<>> /\ job.menu /\ pc' = "ended" /\ status' = "eof"
          /\ UNCHANGED <<ops, addr, cnt, file, out, warned>>

\* read_disk() leaves the drive as it is; ra() leaves it with 2352 byte sectors.
Setup ==
    /\ pc = "setup" /\ ~Changes
    /\ pc' = CASE Op = "read" -> "ask" [] Op = "write" -> "wloop" [] OTHER -> "select"
    /\ ops' = IF Op = "readda" THEN Tail(ops) ELSE ops
    /\ size' = IF Op = "readda" THEN 2352 ELSE size
    /\ UNCHANGED <<job, mode, saved, didintr, status, addr, cnt, retry, Sbuf, badsecs, file, out, fails, refused, short, warned>>

\* readcd_disk(), readc2_disk(): what read_capacity() says, if it says anything
SelectSize ==
    /\ pc = "setup" /\ Changes /\ pc' = "oldmode"
    /\ osecsize' \in {size, 2048}
    /\ IF osecsize' # 2048 THEN select_secsize(2048) ELSE UNCHANGED <<size, refused>>
    /\ UNCHANGED <<job, ops, mode, oerr, exoerr, didintr, status, addr, cnt, retry, Sbuf,
                   badsecs, file, out, fails, short, warned>>

\* Mutant: the mode is remembered for the operation only.
RememberLocally(e) == oerr' = e /\ UNCHANGED exoerr

Remember(e) == oerr' = e /\ exoerr' = Char(e)

oldmode ==
    /\ pc = "oldmode" /\ pc' = "domode"
    /\ \/ Remember(mode) /\ UNCHANGED refused
       \/ Remember(0) /\ refused' = TRUE
    /\ UNCHANGED <<job, ops, drive, osecsize, didintr, status, addr, cnt, retry, Sbuf, badsecs, file, out, fails, short, warned>>

\* With -nocorr the byte is 33; nothing here tells the two apart.
SetMode ==
    /\ pc = "domode" /\ pc' = "ask"
    /\ domode(32)
    /\ UNCHANGED <<job, ops, size, saved, didintr, status, addr, cnt, retry, Sbuf, badsecs, file, out, fails, short, warned>>

\* The questions of read_generic(): the end of the input calls exit().  The
\* file may not open.
Ask ==
    /\ pc = "ask"
    /\ \/ pc' = "loop" /\ UNCHANGED status
       \/ job.menu /\ pc' = "ended" /\ status' = "eof"
       \/ Leave("fatal")
    /\ UNCHANGED <<ops, addr, cnt, file, out, warned>> /\ Idle

----------------------------------------------------------------------------
(* read_generic                                                            *)

\* Mutant: only whole chunks are copied.
MoreWhole == addr + Chunk <= job.end

More == addr < job.end

Loop ==
    /\ pc = "loop"
    /\ IF ~More THEN pc' = "out" /\ UNCHANGED <<status, cnt>>
       ELSE IF didintr THEN Leave("signal") /\ UNCHANGED cnt
       ELSE /\ cnt' = IF addr + Chunk > job.end THEN job.end - addr ELSE Chunk
            /\ pc' = "chunk" /\ UNCHANGED status
    /\ UNCHANGED <<job, ops, drive, saved, didintr, addr, retry, Sbuf, badsecs, file,
                   out, fails, refused, short, warned>>

ReadKeeps == UNCHANGED <<job, ops, drive, saved, didintr, status, addr, cnt, badsecs,
                         file, out, refused, short>>

\* A command that fails may have transferred a part of the data.
ReadChunk ==
    /\ pc = "chunk"
    /\ \/ /\ pc' = "write" /\ Sbuf' = [k \in 0 .. cnt - 1 |-> Good(addr + k)]
          /\ UNCHANGED <<retry, fails, warned>>
       \/ /\ pc' = "out" /\ warned' = TRUE         \* resid
          /\ UNCHANGED <<retry, Sbuf, fails>>
       \/ /\ pc' = "retry" /\ sec' = 0 /\ try' = 0 /\ fails' = 0 /\ warned' = TRUE
          /\ Sbuf' = [k \in 0 .. cnt - 1 |-> -1]
    /\ ReadKeeps

\* Mutant: bp does not move on with addr.
BufferFixed == 0

Place == sec

\* Mutant: the attempts are not counted.
NotCounted == try

Counted == try + 1

\* One attempt of read_retry.
ReadAgain ==
    /\ pc = "retry"
    /\ IF didintr THEN Leave("signal") /\ UNCHANGED <<retry, Sbuf, fails, warned>>
       ELSE /\ UNCHANGED <<status, sec, warned>>
            /\ \/ /\ Sbuf' = [Sbuf EXCEPT ![Place] = Good(addr + sec)]
                  /\ pc' = "judge" /\ UNCHANGED <<try, fails>>
               \/ pc' = "out" /\ UNCHANGED <<try, Sbuf, fails>>      \* resid
               \/ /\ \E x \in {0, -1} : Sbuf' = [Sbuf EXCEPT ![Place] = x]
                  /\ try' = Counted /\ fails' = IF fails < job.retries THEN fails + 1 ELSE fails
                  /\ pc' = IF try' < job.retries THEN "retry" ELSE "judge"
    /\ UNCHANGED <<job, ops, drive, saved, didintr, addr, cnt, badsecs, file, out,
                   refused, short>>

NextTries == try' = 0

NotCorrected == try >= job.retries

\* The end of the loop over a sector.
Judge ==
    /\ pc = "judge"
    /\ badsecs' = IF NotCorrected THEN Append(badsecs, addr + sec) ELSE badsecs
    /\ IF NotCorrected /\ ~Noerror THEN pc' = "out" /\ UNCHANGED <<retry, fails>>
       ELSE /\ NextTries /\ sec' = sec + 1 /\ fails' = 0
            /\ pc' = IF sec + 1 = cnt THEN "write" ELSE "retry"
    /\ UNCHANGED <<job, ops, drive, saved, didintr, status, addr, cnt, Sbuf, file, out,
                   refused, short, warned>>

\* filewrite() of an unbuffered file: only a negative result is an error.
WriteFile ==
    /\ pc = "write"
    /\ \E n \in 0 .. cnt :
          /\ file' = file \o [k \in 1 .. n |-> Sbuf[k - 1]]
          /\ \/ pc' = "loop" /\ addr' = addr + cnt /\ short' = (short \/ n < cnt)
                /\ UNCHANGED warned
             \/ n = 0 /\ pc' = "out" /\ warned' = TRUE /\ UNCHANGED <<addr, short>>
    /\ UNCHANGED <<job, ops, drive, saved, didintr, status, cnt, retry, Sbuf, badsecs,
                   out, fails, refused>>

\* print_bad(); read_disk() is done, the others restore the drive.
Out ==
    /\ pc = "out"
    /\ warned' = (warned \/ badsecs # <<>>)
    /\ IF Changes THEN pc' = "resize" /\ UNCHANGED ops ELSE pc' = "select" /\ ops' = Tail(ops)
    /\ UNCHANGED <<job, drive, saved, didintr, status, addr, cnt, retry, Sbuf, badsecs,
                   file, out, fails, refused, short>>

OldSize == IF osecsize # 2048 THEN select_secsize(osecsize) ELSE UNCHANGED <<size, refused>>

RestoreSize ==
    /\ pc = "resize" /\ pc' = "restore"
    /\ OldSize
    /\ UNCHANGED <<job, ops, mode, saved, didintr, status, addr, cnt, retry, Sbuf, badsecs, file, out, fails, short, warned>>

RestoreMode ==
    /\ pc = "restore" /\ pc' = "select" /\ ops' = Tail(ops)
    /\ domode(oerr)
    /\ UNCHANGED <<job, size, saved, didintr, status, addr, cnt, retry, Sbuf, badsecs, file, out, fails, short, warned>>

----------------------------------------------------------------------------
(* write_disk                                                              *)

\* cnt shrinks with a short read, and does not grow again.
Count(want, n) == IF n \div 2 < want THEN n \div 2 ELSE want

Wanted == IF addr + cnt > job.end THEN job.end - addr ELSE cnt

\* fileread() of an unbuffered file returns what one read() does.
Available == IF Wanted = 0 \/ input = <<>> THEN 0
             ELSE IF Head(input) > 2 * Wanted THEN 2 * Wanted ELSE Head(input)
InputAfter(n) == IF n = Head(input) THEN Tail(input) ELSE <<Head(input) - n>> \o Tail(input)

\* The second half of a sector that was read in part is left out.
Transfer(n, w) ==
    /\ input' = InputAfter(n) /\ half' = half + n /\ torn' = (torn \/ n % 2 = 1)
    /\ cnt' = w /\ UNCHANGED ops
    /\ \/ /\ disc' = [a \in DOMAIN disc |-> IF a \in addr .. addr + w - 1
                                             THEN half + 2 * (a - addr) ELSE disc[a]]
          /\ addr' = addr + w /\ UNCHANGED <<pc, status>>
       \/ Leave("fatal") /\ UNCHANGED <<addr, disc>>

WriteDisk ==
    /\ pc = "wloop"
    /\ IF addr < job.end /\ didintr THEN Leave("signal") /\ UNCHANGED <<ops, addr, cnt, out>>
       ELSE IF addr >= job.end \/ Available = 0
       THEN pc' = "select" /\ ops' = Tail(ops) /\ UNCHANGED <<status, addr, cnt, out>>
       ELSE Transfer(Available, Count(Wanted, Available))
    /\ UNCHANGED <<job, drive, saved, didintr, retry, Sbuf, badsecs, file, fails,
                   refused, short, warned>>

Init ==
    /\ job \in Jobs /\ pc = "select" /\ ops = job.ops
    /\ size = job.size /\ mode = job.mode
    /\ osecsize = 2048 /\ oerr = 0 /\ exoerr = None
    /\ didintr = FALSE /\ status = "running"
    /\ addr = 0 /\ cnt = 0 /\ sec = 0 /\ try = 0
    /\ Sbuf = [k \in 0 .. Chunk - 1 |-> 0]
    /\ badsecs = <<>> /\ file = <<>>
    /\ input = job.input /\ disc = [a \in 0 .. Sectors - 1 |-> -1] /\ half = 0 /\ torn = FALSE
    /\ fails = 0 /\ refused = FALSE /\ short = FALSE /\ warned = FALSE

Generic == Loop \/ ReadChunk \/ ReadAgain \/ Judge \/ WriteFile \/ Out
Step == Select \/ Setup \/ SelectSize \/ oldmode \/ SetMode \/ Ask \/ Generic
        \/ RestoreSize \/ RestoreMode \/ WriteDisk \/ exscsi
Next == Step \/ intr

Spec == Init /\ [][Next]_vars
FairSpec == Spec /\ WF_vars(Step)

----------------------------------------------------------------------------
(* Properties.                                                             *)

Bad == {badsecs[k] : k \in DOMAIN badsecs}
Ended == pc = "ended"

\* Every variable holds what its declaration allows; at most one try more is
\* counted than the option says.
TypeOK ==
    /\ job \in Jobs /\ size \in {512, 2048, 2352} /\ osecsize \in {512, 2048, 2352}
    /\ {mode, oerr} \subseteq 0 .. 255 /\ exoerr \in {None} \cup -128 .. 127
    /\ status \in {"running", "ok", "signal", "fatal", "eof"}
    /\ addr \in Nat /\ (addr <= Sectors \/ addr = job.start)
    /\ cnt \in 0 .. Chunk /\ sec \in 0 .. Chunk
    /\ try \in 0 .. IF job.retries = 0 THEN 1 ELSE job.retries
    /\ DOMAIN disc = 0 .. Sectors - 1

\* The k-th sector of the file is the k-th of the range, or is in the list of
\* bad sectors, whatever failed before it, unless a short write to the file
\* went unnoticed (readcd.c:1756).
InPlace ==
    ~short =>
        \A k \in DOMAIN file : LET a == job.start + k - 1 IN
            file[k] = Good(a) \/ a \in Bad

\* A sector is listed as bad only after all the tries failed on it: those of
\* one sector do not count for the next (readcd.c:1578).  With retries=0 a
\* sector is listed even if it was read.
ListedWhenBad ==
    [][badsecs' # badsecs /\ job.retries # 0 => fails = job.retries]_vars

\* A copy that is not the whole range is never passed over in silence, unless
\* a short write was.
LossIsReported ==
    pc = "out" /\ ~short /\ ~warned =>
         \A a \in job.start .. job.end - 1 : a - job.start + 1 \in DOMAIN file

\* "If readcd completes, the error recovery mode of the drive is switched back
\* to the remembered old mode", also if it is interrupted or fails: not when
\* the drive refused, the old mode is asked for because it is -1 as a char, or
\* exit() was called.
ModeSwitchedBack ==
    Ended /\ ~refused /\ job.mode # 255 /\ status # "eof" => mode = job.mode

\* The sector size is restored if the program was neither interrupted nor
\* failed: exargs.old_secsize, which is meant for that, is never set.
SizeSwitchedBack ==
    pc = "select" /\ ~refused /\ (\A k \in DOMAIN job.ops : job.ops[k] # "readda") =>
        size = job.size

\* What write_disk() wrote is the input in order, sector by sector, as long as
\* no read() ended within a sector.
WrittenInOrder ==
    ~torn => \A a \in DOMAIN disc : disc[a] \in {-1, 2 * (a - job.start)}

\* The copy as a whole: what is in the file, in the list of bad sectors and on
\* the disc belongs there, in whichever order sectors and chunks failed.
CopyKept == [](TypeOK /\ InPlace /\ WrittenInOrder) /\ ListedWhenBad

\* The drive is left as it was found (readcd.c:478).
DriveRestored == ModeSwitchedBack /\ SizeSwitchedBack

\* The program ends: the retries are counted.
Ends == <>Ended
==============================================================================
