----------------------------- MODULE ReadcdProofs -----------------------------
(***************************************************************************)
(* Proofs about readcd, for every disc, every list of operations, every    *)
(* number of retries and every way in which commands fail.                 *)
(***************************************************************************)
EXTENDS Readcd, SequenceTheorems, TLAPS

Reading == {"loop", "chunk", "retry", "judge", "write"}
Changing == {"ask", "out", "resize", "restore"} \cup Reading
PCs == {"select", "setup", "oldmode", "domode", "wloop", "exscsi", "ended"} \cup Changing

Types ==
    /\ job \in Jobs /\ pc \in PCs /\ ops \in Seq(Ops)
    /\ size \in {512, 2048, 2352} /\ osecsize \in {512, 2048, 2352}
    /\ mode \in 0 .. 255 /\ oerr \in 0 .. 255 /\ exoerr \in {None} \cup -128 .. 127
    /\ status \in {"running", "ok", "signal", "fatal", "eof"}
    /\ addr \in Nat /\ cnt \in 0 .. Chunk /\ sec \in 0 .. Chunk
    /\ try \in Nat /\ fails \in Nat /\ half \in Nat
    /\ badsecs \in Seq(Nat) /\ file \in Seq(Int) /\ input \in Seq(Nat)
    /\ disc \in [0 .. Sectors - 1 -> Int]

\* An operation is going on; only the last steps have none.
Working == pc \notin {"select", "exscsi", "ended"} => ops # <<>>

\* Where an operation is allowed to be.
Where ==
    /\ addr <= Sectors \/ addr = job.start
    /\ pc \in {"oldmode", "domode", "resize", "restore"} => Changes
    /\ pc \in {"chunk", "retry", "judge", "write"} => cnt > 0 /\ addr + cnt <= job.end
    /\ pc \in {"retry", "judge"} => sec < cnt

\* What is in the buffer of the chunk: all of it has been transferred, or the
\* sectors before the one that is tried.
Transferred == IF pc = "write" THEN cnt ELSE sec
Buffered ==
    /\ pc \in {"retry", "judge", "write"} => Sbuf \in [0 .. cnt - 1 -> Int]
    /\ pc \in {"retry", "judge", "write"} =>
          \A k \in 0 .. Transferred - 1 : Sbuf[k] = Good(addr + k) \/ addr + k \in Bad
    /\ pc = "judge" => Sbuf[sec] = Good(addr + sec) \/ try >= job.retries

\* The tries of this sector, and how often it failed.
Tries ==
    /\ try <= IF job.retries = 0 THEN 1 ELSE job.retries
    /\ pc = "retry" => try = 0 \/ try < job.retries
    /\ pc \in {"retry", "judge"} => fails = IF try < job.retries THEN try ELSE job.retries

\* What is in the file, and how far it has come.
Copied ==
    /\ InPlace
    /\ pc \in {"setup", "oldmode", "domode", "ask"} => file = <<>> /\ addr = job.start
    /\ pc \in Reading /\ ~short => Len(file) = addr - job.start
    /\ pc \in Reading => addr >= job.start
    /\ pc \in {"retry", "judge"} => warned
    /\ pc = "out" /\ ~short /\ ~warned => addr >= job.end /\ Len(file) = addr - job.start

\* What the program remembers of the mode of the drive, as long as that does
\* not refuse: the mode is the old one, or it is known what that was.
Known == exoerr = Char(job.mode)
Remembered ==
    ~refused /\ job.mode # 255 =>
        /\ exoerr = None \/ Known
        /\ pc \in {"select", "setup", "oldmode", "wloop"} \/ (pc \in Changing /\ ~Changes) => mode = job.mode
        /\ (pc = "domode" \/ (pc \in Changing /\ Changes)) => Known /\ oerr = job.mode
        /\ exoerr = None => mode = job.mode
        /\ pc = "ended" /\ status # "eof" => mode = job.mode
HandlerIsSet == pc = "exscsi" => exoerr # None

\* The same of the size of its sectors, if there is no operation that leaves it
\* changed.
NoReadda(s) == \A k \in DOMAIN s : s[k] # "readda"
SizeKnown ==
    NoReadda(job.ops) =>
        /\ NoReadda(ops)
        /\ ~refused =>
              /\ pc \in {"select", "setup", "wloop"} \/ (pc \in Changing /\ ~Changes) => size = job.size
              /\ pc \in {"oldmode", "domode"} \/ (pc \in Changing \ {"restore"} /\ Changes) =>
                    IF osecsize = 2048 THEN size = job.size ELSE osecsize = job.size
              /\ pc = "restore" => size = job.size

\* What was written, and how far in the input it is.
Written ==
    /\ WrittenInOrder
    /\ pc = "setup" => addr = job.start /\ half = 0
    /\ pc = "wloop" /\ ~torn => half = 2 * (addr - job.start)
    /\ pc = "wloop" => addr >= job.start

IndInv == /\ Types /\ Working /\ Where /\ Buffered /\ Tries /\ Copied
          /\ Remembered /\ HandlerIsSet /\ SizeKnown /\ Written

------------------------------------------------------------------------------
(* Types                                                                   *)

LEMMA JobType ==
    ASSUME NEW j \in Jobs
    PROVE  /\ j.ops \in Seq(Ops) /\ j.menu \in BOOLEAN /\ j.start \in Nat
           /\ j.end \in Nat /\ j.end <= Sectors /\ j.retries \in Nat /\ j.noerror \in BOOLEAN
           /\ j.size \in {512, 2048} /\ j.mode \in 0 .. 255 /\ j.input \in Seq(Nat)
<1>1. j \in Job /\ j.end <= Sectors
  BY JobAssumption
<1> QED
  BY <1>1 DEF Job

\* The drive takes a byte, or says no.
LEMMA DomodeType ==
    ASSUME mode \in 0 .. 255, NEW e \in Int, domode(e)
    PROVE  mode' \in 0 .. 255
BY DEF domode

LEMMA SecsizeType ==
    ASSUME size \in {512, 2048, 2352},
           NEW n \in {512, 2048, 2352}, select_secsize(n)
    PROVE  size' \in {512, 2048, 2352}
BY DEF select_secsize

\* The first of the operations, and what is left behind it.
LEMMA FirstOp ==
    ASSUME ops \in Seq(Ops), ops # <<>>
    PROVE  Op \in Ops /\ Tail(ops) \in Seq(Ops)
BY HeadTailProperties DEF Op

LEMMA InitTypes == Init => Types
<1> SUFFICES ASSUME Init PROVE Types
  OBVIOUS
<1>1. job \in Jobs
  BY DEF Init
<1>2. <<>> \in Seq(Nat) /\ <<>> \in Seq(Int)
  BY EmptySeq
<1> QED
  BY <1>1, <1>2, JobType, SizeAssumption DEF Init, Types, PCs, None

LEMMA StepTypes == Types /\ Working /\ Where /\ Buffered /\ [Next]_vars => Types'
<1> SUFFICES ASSUME Types, Working, Where, Buffered, [Next]_vars PROVE Types'
  OBVIOUS
<1>0. job \in Jobs /\ ops \in Seq(Ops) /\ Chunk \in Nat /\ Chunk > 0 /\ Sectors \in Nat
  BY SizeAssumption DEF Types
<1>n. /\ addr \in Nat /\ cnt \in 0 .. Chunk /\ sec \in 0 .. Chunk
      /\ try \in Nat /\ fails \in Nat /\ half \in Nat
  BY DEF Types
<1>s. <<>> \in Seq(Nat) /\ <<>> \in Seq(Int)
  BY EmptySeq
<1>j. /\ job.start \in Nat /\ job.end \in Nat /\ job.end <= Sectors /\ job.input \in Seq(Nat)
  BY <1>0, JobType
<1>1. CASE Select
  <2>1. pc' \in PCs /\ status' \in {"running", "ok", "signal", "fatal", "eof"}
    <3>1. pc' \in {"setup", "ended", "exscsi"} /\ status' \in {status, "ok", "fatal", "eof"}
      BY <1>1 DEF Select, Leave
    <3> QED
      BY <3>1 DEF Types, PCs
  <2>2. addr' \in Nat /\ cnt' \in 0 .. Chunk /\ half' \in Nat
    <3>1. (addr' = addr \/ addr' = job.start) /\ (cnt' = cnt \/ cnt' = Chunk) /\ (half' = half \/ half' = 0)
      BY <1>1, Zenon DEF Select, out
    <3> QED
      BY <1>0, <1>n, <1>j, <3>1
  <2>3. file' \in Seq(Int) /\ input' \in Seq(Nat)
    <3>1. (file' = file \/ file' = <<>>) /\ (input' = input \/ input' = job.input)
      BY <1>1, Zenon DEF Select, out
    <3>2. file \in Seq(Int) /\ input \in Seq(Nat)
      BY DEF Types
    <3> QED
      BY <1>s, <1>j, <3>1, <3>2, Zenon
  <2>4. disc' = disc /\ ops' = ops
    BY <1>1, Zenon DEF Select, out
  <2> QED
    BY <1>1, <2>1, <2>2, <2>3, <2>4 DEF Select, Idle, drive, saved, retry, Types
<1>2. CASE Setup
  <2>1. Op \in Ops /\ Tail(ops) \in Seq(Ops)
    BY <1>0, <1>2, FirstOp DEF Setup, Working
  <2>2. pc' \in PCs
    BY <1>2 DEF Setup, PCs, Changing, Reading
  <2>3. ops' \in Seq(Ops) /\ size' \in {512, 2048, 2352}
    BY <1>2, <2>1 DEF Setup, Types
  <2> QED
    BY <1>2, <2>2, <2>3 DEF Setup, saved, retry, out, Types
<1>3. CASE SelectSize
  <2>1. size' \in {512, 2048, 2352} /\ osecsize' \in {512, 2048, 2352}
    BY <1>3, SecsizeType DEF SelectSize, Types
  <2>2. pc' \in PCs
    BY <1>3 DEF SelectSize, PCs
  <2> QED
    BY <1>3, <2>1, <2>2 DEF SelectSize, retry, out, Types
<1>4. CASE oldmode
  <2>1. PICK e \in {mode, 0} : oerr' = e /\ exoerr' = Char(e)
    BY <1>4, Zenon DEF oldmode, Remember
  <2>2. oerr' \in 0 .. 255 /\ exoerr' \in -128 .. 127
    <3>1. e \in 0 .. 255
      BY DEF Types
    <3> QED
      BY <2>1, <3>1 DEF Char
  <2>3. pc' \in PCs
    BY <1>4 DEF oldmode, PCs
  <2>4. /\ UNCHANGED <<job, ops, size, mode, osecsize, status, addr, cnt, sec, try>>
        /\ UNCHANGED <<badsecs, file, input, disc, half, fails>>
    BY <1>4 DEF oldmode, drive, retry, out
  <2> QED
    BY <2>2, <2>3, <2>4 DEF Types
<1>5. CASE SetMode
  BY <1>5, DomodeType DEF SetMode, saved, retry, out, Types, PCs, Changing
<1>6. CASE Ask
  BY <1>0, <1>6 DEF Ask, Idle, Leave, drive, saved, retry, out, Types, PCs, Changing, Reading
<1>7. CASE Loop
  <2>1. cnt' \in 0 .. Chunk
    <3>1. cnt' = cnt \/ (addr < job.end /\ cnt' = IF addr + Chunk > job.end THEN job.end - addr ELSE Chunk)
      BY <1>7, Zenon DEF Loop, More
    <3> QED
      BY <1>0, <1>n, <1>j, <3>1
  <2> QED
    <3>1. pc' \in PCs
      BY <1>7 DEF Loop, Leave, PCs, Changing, Reading
    <3>2. status' \in {"running", "ok", "signal", "fatal", "eof"}
      BY <1>7 DEF Loop, Leave, Types
    <3> QED
      BY <1>7, <2>1, <3>1, <3>2 DEF Loop, drive, saved, retry, out, Types
<1>8. CASE ReadChunk
  <2>1. pc' \in PCs /\ sec' \in 0 .. Chunk /\ try' \in Nat /\ fails' \in Nat
    <3>1. pc' \in {"write", "out", "retry"}
      BY <1>8, Zenon DEF ReadChunk
    <3>2. UNCHANGED <<sec, try, fails>> \/ (sec' = 0 /\ try' = 0 /\ fails' = 0)
      BY <1>8, Zenon DEF ReadChunk, retry
    <3> QED
      BY <1>0, <1>n, <3>1, <3>2 DEF PCs, Changing, Reading
  <2> QED
    BY <1>8, <2>1 DEF ReadChunk, ReadKeeps, drive, saved, retry, out, Types
<1>9. CASE ReadAgain
  <2>1. try' \in Nat /\ fails' \in Nat /\ sec' = sec
    BY <1>9 DEF ReadAgain, retry, Counted, Types
  <2> QED
    BY <1>9, <2>1 DEF ReadAgain, Leave, drive, saved, retry, out, Types, PCs, Changing, Reading
<1>10. CASE Judge
  <2>1. badsecs' \in Seq(Nat)
    BY <1>10, AppendProperties DEF Judge, Types
  <2>2. pc' \in PCs /\ sec' \in 0 .. Chunk /\ try' \in Nat /\ fails' \in Nat
    <3>1. pc' \in {"out", "write", "retry"}
      BY <1>10, Zenon DEF Judge
    <3>2. \/ sec' = sec /\ try' = try /\ fails' = fails
          \/ sec' = sec + 1 /\ try' = 0 /\ fails' = 0
      BY <1>10, Zenon DEF Judge, NextTries, retry
    <3>3. sec < cnt
      BY <1>10 DEF Judge, Where
    <3> QED
      BY <1>0, <1>n, <3>1, <3>2, <3>3 DEF PCs, Changing, Reading
  <2> QED
    BY <1>10, <2>1, <2>2 DEF Judge, drive, saved, out, Types
<1>11. CASE WriteFile
  <2>1. PICK n \in 0 .. cnt : file' = file \o [k \in 1 .. n |-> Sbuf[k - 1]]
    BY <1>11 DEF WriteFile
  <2>2. n \in Nat /\ \A k \in 1 .. n : Sbuf[k - 1] \in Int
    BY <1>11, <2>1 DEF WriteFile, Buffered, Types
  <2>3. [k \in 1 .. n |-> Sbuf[k - 1]] \in Seq(Int)
    BY <2>2, SeqDef
  <2>4. file' \in Seq(Int)
    BY <2>1, <2>3, ConcatProperties DEF Types
  <2>5. addr' \in Nat
    <3>1. addr' = addr \/ addr' = addr + cnt
      BY <1>11, Zenon DEF WriteFile
    <3> QED
      BY <3>1 DEF Types
  <2>6. pc' \in PCs
    BY <1>11, Zenon DEF WriteFile, PCs, Changing, Reading
  <2> QED
    BY <1>11, <2>4, <2>5, <2>6 DEF WriteFile, drive, saved, retry, out, Types
<1>12. CASE Out
  <2>1. pc' \in PCs /\ ops' \in Seq(Ops)
    BY <1>0, <1>12, FirstOp DEF Out, Working, PCs, Changing
  <2> QED
    BY <1>12, <2>1 DEF Out, drive, saved, retry, out, Types
<1>13. CASE RestoreSize
  BY <1>13, SecsizeType DEF RestoreSize, OldSize, saved, retry, out, Types, PCs, Changing
<1>14. CASE RestoreMode
  <2>1. mode' \in 0 .. 255
    BY <1>14, DomodeType DEF RestoreMode, Types
  <2> QED
    BY <1>0, <1>14, <2>1, FirstOp DEF RestoreMode, Working, saved, retry, out, Types, PCs, Changing
<1>15. CASE WriteDisk
  <2>1. CASE UNCHANGED <<addr, cnt, out>>
    <3>1. pc' \in PCs /\ status' \in {"running", "ok", "signal", "fatal", "eof"}
      BY <1>15 DEF WriteDisk, Transfer, Leave, Types, PCs
    <3>2. ops' = ops \/ ops' = Tail(ops)
      BY <1>15, Zenon DEF WriteDisk, Transfer
    <3>3. ops' \in Seq(Ops)
      BY <1>0, <1>15, <3>2, FirstOp DEF WriteDisk, Working
    <3> QED
      BY <1>15, <2>1, <3>1, <3>3 DEF WriteDisk, drive, saved, retry, out, Types
  <2>2. CASE Transfer(Available, Count(Wanted, Available)) /\ addr < job.end /\ Available # 0
    <3>1. Wanted \in 0 .. cnt /\ Wanted # 0 /\ input # <<>>
      <4>1. Wanted \in 0 .. cnt
        BY <1>0, <1>n, <1>j, <2>2 DEF Wanted
      <4>2. Wanted # 0 /\ input # <<>>
        BY <2>2, Zenon DEF Available
      <4> QED
        BY <4>1, <4>2
    <3>2. Head(input) \in Nat /\ Tail(input) \in Seq(Nat)
      BY <3>1, HeadTailProperties DEF Types
    <3>3. Available \in Nat /\ Available <= Head(input)
      BY <3>1, <3>2 DEF Available, Types
    <3>4. InputAfter(Available) \in Seq(Nat)
      <4>1. Head(input) - Available \in Nat
        BY <3>2, <3>3
      <4>2. <<Head(input) - Available>> \in Seq(Nat)
        BY <4>1
      <4> QED
        BY <3>2, <4>2, ConcatProperties DEF InputAfter
    <3>5. Count(Wanted, Available) \in 0 .. cnt
      BY <3>1, <3>3 DEF Count, Types
    <3>6. addr' \in Nat /\ half' \in Nat
      <4>1. (addr' = addr \/ addr' = addr + Count(Wanted, Available)) /\ half' = half + Available
        BY <2>2, Zenon DEF Transfer
      <4> QED
        BY <1>0, <1>n, <3>3, <3>5, <4>1
    <3>7. disc' \in [0 .. Sectors - 1 -> Int]
      <4>1. CASE UNCHANGED disc
        BY <4>1 DEF Types
      <4>2. CASE disc' = [a \in DOMAIN disc |-> IF a \in addr .. addr + Count(Wanted, Available) - 1
                                             THEN half + 2 * (a - addr) ELSE disc[a]]
        BY <4>2 DEF Types
      <4> QED
        BY <2>2, <4>1, <4>2 DEF Transfer
    <3>8. pc' \in PCs /\ status' \in {"running", "ok", "signal", "fatal", "eof"}
      <4>1. (pc' = pc /\ status' = status) \/ (pc' \in {"ended", "exscsi"} /\ status' = "fatal")
        BY <2>2 DEF Transfer, Leave
      <4> QED
        BY <4>1 DEF Types, PCs
    <3>9. cnt' \in 0 .. Chunk /\ input' \in Seq(Nat) /\ ops' = ops
      <4>1. cnt' = Count(Wanted, Available) /\ input' = InputAfter(Available) /\ ops' = ops
        BY <2>2, Zenon DEF Transfer
      <4> QED
        BY <1>0, <3>4, <3>5, <4>1 DEF Types
    <3> QED
      BY <1>15, <3>6, <3>7, <3>8, <3>9 DEF WriteDisk, drive, saved, retry, Types
  <2> QED
    BY <1>0, <1>n, <1>j, <1>15, <2>1, <2>2 DEF WriteDisk, out
<1>16. CASE exscsi
  <2>1. mode' \in 0 .. 255
    BY <1>16, DomodeType DEF exscsi, Types, None
  <2> QED
    BY <1>16, <2>1 DEF exscsi, saved, retry, out, Types, PCs
<1>17. CASE intr
  BY <1>17 DEF intr, drive, saved, retry, out, Types
<1>18. CASE UNCHANGED vars
  BY <1>18 DEF vars, drive, saved, retry, out, Types
<1> QED
  BY <1>1, <1>2, <1>3, <1>4, <1>5, <1>6, <1>7, <1>8, <1>9, <1>10, <1>11, <1>12, <1>13,
     <1>14, <1>15, <1>16, <1>17, <1>18 DEF Next, Step, Generic

------------------------------------------------------------------------------
(* Where the program is                                                    *)

\* The job is never another one; only read_retry lists a sector; the place on
\* the medium changes where something is transferred.
LEMMA Changed ==
    ASSUME [Next]_vars
    PROVE  /\ job' = job
           /\ badsecs' = badsecs \/ (Judge /\ NotCorrected)
           /\ addr' = addr \/ addr' = job.start \/ WriteFile \/ WriteDisk
<1>1. CASE Select
  BY <1>1, Zenon DEF Select, Idle
<1>2. CASE Setup \/ SelectSize \/ oldmode \/ SetMode
  BY <1>2 DEF Setup, SelectSize, oldmode, SetMode
<1>3. CASE Ask \/ Loop
  BY <1>3, Zenon DEF Ask, Idle, Loop
<1>4. CASE ReadChunk \/ ReadAgain
  BY <1>4, Zenon DEF ReadChunk, ReadKeeps, ReadAgain
<1>5. CASE Judge
  BY <1>5, Zenon DEF Judge
<1>6. CASE WriteFile \/ Out
  BY <1>6, Zenon DEF WriteFile, Out
<1>7. CASE RestoreSize \/ RestoreMode \/ exscsi \/ intr
  BY <1>7, Zenon DEF RestoreSize, RestoreMode, exscsi, intr
<1>8. CASE WriteDisk
  BY <1>8, Zenon DEF WriteDisk
<1>9. CASE UNCHANGED vars
  BY <1>9 DEF vars
<1> QED
  BY <1>1, <1>2, <1>3, <1>4, <1>5, <1>6, <1>7, <1>8, <1>9 DEF Next, Step, Generic

\* Only the end of an operation, and only its start, change the list.
LEMMA StepWorking == Working /\ [Next]_vars => Working'
<1> SUFFICES ASSUME Working, [Next]_vars PROVE Working'
  OBVIOUS
<1>1. CASE Select \/ Setup
  BY <1>1 DEF Select, Setup, Leave, Working
<1>2. CASE SelectSize \/ oldmode \/ SetMode \/ Ask
  BY <1>2 DEF SelectSize, oldmode, SetMode, Ask, Leave, Working
<1>3. CASE Generic
  BY <1>3 DEF Generic, Loop, ReadChunk, ReadKeeps, ReadAgain, Judge, WriteFile, Out, Leave, Working
<1>4. CASE RestoreSize \/ RestoreMode \/ exscsi \/ intr
  BY <1>4 DEF RestoreSize, RestoreMode, exscsi, intr, Working
<1>5. CASE WriteDisk
  BY <1>5 DEF WriteDisk, Transfer, Leave, Working
<1>6. CASE UNCHANGED vars
  BY <1>6 DEF vars, Working
<1> QED
  BY <1>1, <1>2, <1>3, <1>4, <1>5, <1>6 DEF Next, Step

\* What is asked of the program, of the types that arithmetic needs.
LEMMA Numbers ==
    ASSUME Types
    PROVE  /\ job \in Jobs /\ Chunk \in Nat /\ Chunk > 0 /\ Sectors \in Nat
           /\ job.start \in Nat /\ job.end \in Nat /\ job.end <= Sectors /\ job.retries \in Nat
           /\ addr \in Nat /\ cnt \in 0 .. Chunk /\ sec \in 0 .. Chunk
           /\ try \in Nat /\ fails \in Nat /\ half \in Nat
<1>1. /\ job \in Jobs /\ addr \in Nat /\ cnt \in 0 .. Chunk /\ sec \in 0 .. Chunk
      /\ try \in Nat /\ fails \in Nat /\ half \in Nat
  BY DEF Types
<1>2. job.start \in Nat /\ job.end \in Nat /\ job.end <= Sectors /\ job.retries \in Nat
  BY <1>1, JobType
<1> QED
  BY <1>1, <1>2, SizeAssumption

\* A transfer to the disc stays in the range.
LEMMA TransferBounds ==
    ASSUME Types, addr < job.end, Available # 0
    PROVE  /\ Count(Wanted, Available) \in 0 .. cnt
           /\ addr + Count(Wanted, Available) <= job.end
           /\ Available \in Nat /\ Available <= 2 * Wanted /\ Wanted \in Nat
<1>1. Wanted \in 0 .. cnt /\ addr + Wanted <= job.end
  BY Numbers DEF Wanted
<1>2. Wanted # 0 /\ input # <<>>
  BY Zenon DEF Available
<1>3. Head(input) \in Nat
  BY <1>2, HeadTailProperties DEF Types
<1>4. Available \in Nat /\ Available <= 2 * Wanted
  BY <1>1, <1>2, <1>3 DEF Available
<1> QED
  BY <1>1, <1>4, Numbers DEF Count

LEMMA StepWhere == Types /\ Where /\ [Next]_vars => Where'
<1> SUFFICES ASSUME Types, Where, [Next]_vars PROVE Where'
  OBVIOUS
<1>0. job' = job
  BY Changed
<1>1. (addr <= Sectors \/ addr = job.start)'
  <2>1. CASE WriteFile
    <3>1. addr + cnt <= job.end
      BY <2>1 DEF WriteFile, Where
    <3>2. addr' = addr \/ addr' = addr + cnt
      BY <2>1, Zenon DEF WriteFile
    <3> QED
      BY <1>0, <3>1, <3>2, Numbers DEF Where
  <2>2. CASE WriteDisk
    <3>1. \/ addr' = addr
          \/ addr < job.end /\ Available # 0 /\ addr' = addr + Count(Wanted, Available)
      <4>1. CASE addr < job.end /\ Available # 0
        BY <2>2, <4>1, Zenon DEF WriteDisk, Transfer
      <4>2. CASE ~(addr < job.end) \/ Available = 0
        BY <2>2, <4>2, Numbers DEF WriteDisk
      <4> QED
        BY <4>1, <4>2
    <3> QED
      BY <1>0, <3>1, TransferBounds, Numbers DEF Where
  <2>3. addr' = addr \/ addr' = job.start \/ WriteFile \/ WriteDisk
    BY Changed
  <2> QED
    BY <1>0, <2>1, <2>2, <2>3, Zenon DEF Where
<1>2. (pc \in {"oldmode", "domode", "resize", "restore"} => Changes)'
  <2>1. pc' \in {"oldmode", "domode", "resize", "restore"} =>
          ops' = ops /\ (Changes \/ pc = pc')
    BY DEF Where, Next, Step, Generic, Select, Setup, SelectSize, oldmode, SetMode, Ask, Loop, ReadChunk,
      ReadKeeps, ReadAgain, Judge, WriteFile, Out, RestoreSize, RestoreMode, WriteDisk, Transfer, exscsi, intr, Leave, vars
  <2> QED
    BY <2>1 DEF Where, Changes, Op
<1>3. (pc \in {"chunk", "retry", "judge", "write"} => cnt > 0 /\ addr + cnt <= job.end)'
  <2>1. CASE Loop
    <3>1. addr' = addr /\ (pc' = "chunk" => addr < job.end /\
             cnt' = IF addr + Chunk > job.end THEN job.end - addr ELSE Chunk)
      BY <2>1 DEF Loop, More, Leave
    <3>2. pc' \in {"out", "exscsi", "ended", "chunk"}
      BY <2>1 DEF Loop, Leave
    <3> QED
      BY <1>0, <3>1, <3>2, Numbers
  <2>2. \/ Loop \/ pc' \notin {"chunk", "retry", "judge", "write"}
        \/ pc \in {"chunk", "retry", "judge", "write"} /\ addr' = addr /\ cnt' = cnt
    BY DEF Next, Step, Generic, Select, Setup, SelectSize, oldmode, SetMode, Ask, Loop, ReadChunk,
      ReadKeeps, ReadAgain, Judge, WriteFile, Out, RestoreSize, RestoreMode, WriteDisk, Transfer, exscsi, intr, Leave, vars
  <2> QED
    BY <1>0, <2>1, <2>2 DEF Where
<1>4. (pc \in {"retry", "judge"} => sec < cnt)'
  <2>1. CASE ReadChunk
    <3>1. pc' \in {"write", "out", "retry"} /\ cnt' = cnt /\ (pc' = "retry" => sec' = 0) /\ pc = "chunk"
      BY <2>1 DEF ReadChunk, ReadKeeps
    <3> QED
      BY <3>1, Numbers DEF Where
  <2>2. CASE Judge
    <3>1. cnt' = cnt /\ pc = "judge" /\ pc' # "judge" /\ (pc' = "retry" => sec + 1 # cnt /\ sec' = sec + 1)
      BY <2>2 DEF Judge
    <3> QED
      BY <3>1, Numbers DEF Where
  <2>3. \/ ReadChunk \/ Judge \/ pc' \notin {"retry", "judge"}
        \/ pc \in {"retry", "judge"} /\ sec' = sec /\ cnt' = cnt
    BY DEF Next, Step, Generic, Select, Setup, SelectSize, oldmode, SetMode, Ask, Loop,
      ReadAgain, WriteFile, Out, RestoreSize, RestoreMode, WriteDisk, Transfer, exscsi, intr, Leave, retry, vars
  <2> QED
    BY <2>1, <2>2, <2>3 DEF Where
<1> QED
  BY <1>1, <1>2, <1>3, <1>4 DEF Where

------------------------------------------------------------------------------
(* The buffer and the tries                                                *)

\* A sector that is listed stays listed.
LEMMA ListGrows ==
    ASSUME Types, [Next]_vars
    PROVE  /\ Bad \subseteq Bad'
           /\ badsecs' # badsecs => Judge /\ NotCorrected
           /\ Judge /\ NotCorrected => Bad' = Bad \cup {addr + sec}
<1>1. badsecs' = badsecs \/ (Judge /\ NotCorrected)
  BY Changed
<1>2. ASSUME Judge, NotCorrected PROVE Bad' = Bad \cup {addr + sec}
  <2>1. badsecs' = Append(badsecs, addr + sec) /\ badsecs \in Seq(Nat) /\ addr + sec \in Nat
    BY <1>2, Numbers DEF Judge, Types
  <2>2. /\ Len(badsecs') = Len(badsecs) + 1
        /\ \A i \in 1 .. Len(badsecs) : badsecs'[i] = badsecs[i]
        /\ badsecs'[Len(badsecs) + 1] = addr + sec
        /\ DOMAIN badsecs' = 1 .. Len(badsecs')
    BY <2>1, AppendProperties
  <2>3. Len(badsecs) \in Nat /\ DOMAIN badsecs = 1 .. Len(badsecs)
    BY <2>1
  <2> QED
    BY <2>2, <2>3 DEF Bad
<1>3. badsecs' = badsecs => Bad' = Bad
  BY DEF Bad
<1> QED
  BY <1>1, <1>2, <1>3

\* One sector more, or one more listed: what is in the buffer belongs there.
LEMMA StepBuffered ==
    Types /\ Where /\ Buffered /\ [Next]_vars => Buffered'
<1> SUFFICES ASSUME Types, Where, Buffered, [Next]_vars PROVE Buffered'
  OBVIOUS
<1>1. CASE ReadChunk
  <2>1. CASE pc' = "write" /\ Sbuf' = [k \in 0 .. cnt - 1 |-> Good(addr + k)]
    <3>1. cnt' = cnt /\ addr' = addr
      BY <1>1 DEF ReadChunk, ReadKeeps
    <3>2. \A k \in 0 .. cnt - 1 : Good(addr + k) \in Int
      BY Numbers DEF Good
    <3> QED
      BY <2>1, <3>1, <3>2 DEF Buffered, Transferred
  <2>2. CASE pc' = "out"
    BY <2>2 DEF Buffered
  <2>3. CASE pc' = "retry" /\ sec' = 0 /\ Sbuf' = [k \in 0 .. cnt - 1 |-> -1]
    <3>1. cnt' = cnt
      BY <1>1 DEF ReadChunk, ReadKeeps
    <3> QED
      BY <2>3, <3>1, Numbers DEF Buffered, Transferred
  <2> QED
    BY <1>1, <2>1, <2>2, <2>3 DEF ReadChunk
<1>2. CASE ReadAgain
  <2>1. pc' \in {"out", "exscsi", "ended", "retry", "judge"}
    BY <1>2 DEF ReadAgain, Leave
  <2>2. CASE pc' \in {"retry", "judge"}
    <3>1. /\ pc = "retry" /\ cnt' = cnt /\ addr' = addr /\ badsecs' = badsecs /\ sec' = sec /\ job' = job
          /\ \E x : /\ Sbuf' = [Sbuf EXCEPT ![sec] = x]
                    /\ x = Good(addr + sec) \/ x \in {0, -1}
                    /\ pc' = "judge" => x = Good(addr + sec) \/ ~(try' < job.retries)
      BY <1>2, <2>2, Changed DEF ReadAgain, Place, Leave
    <3>2. /\ Sbuf \in [0 .. cnt - 1 -> Int] /\ sec \in 0 .. cnt - 1
          /\ \A k \in 0 .. sec - 1 : Sbuf[k] = Good(addr + k) \/ addr + k \in Bad
      BY <3>1, Numbers DEF Buffered, Where, Transferred
    <3>3. try' \in Int
      <4>1. try' = try \/ try' = try + 1
        BY <1>2 DEF ReadAgain, Counted, retry
      <4> QED
        BY <4>1, Numbers
    <3>4. PICK x \in Int : /\ Sbuf' = [Sbuf EXCEPT ![sec] = x]
                           /\ pc' = "judge" => x = Good(addr + sec) \/ try' >= job.retries
      <4>1. Good(addr + sec) \in Int
        BY Numbers DEF Good
      <4> QED
        <5>1. PICK x : /\ Sbuf' = [Sbuf EXCEPT ![sec] = x]
                       /\ x = Good(addr + sec) \/ x \in {0, -1}
                       /\ pc' = "judge" => x = Good(addr + sec) \/ ~(try' < job.retries)
          BY <3>1, Zenon
        <5>2. x \in Int
          BY <4>1, <5>1
        <5>3. ~(try' < job.retries) => try' >= job.retries
          BY <3>3, Numbers
        <5> QED
          BY <5>1, <5>2, <5>3, Zenon
    <3>5. Sbuf' \in [0 .. cnt - 1 -> Int] /\ Sbuf'[sec] = x /\ \A k \in 0 .. sec - 1 : Sbuf'[k] = Sbuf[k]
      BY <3>2, <3>4, Numbers
    <3>6. Bad' = Bad
      BY <3>1 DEF Bad
    <3>7. Transferred' = sec
      BY <2>2, <3>1 DEF Transferred
    <3> QED
      BY <3>1, <3>2, <3>4, <3>5, <3>6, <3>7 DEF Buffered
  <2> QED
    BY <2>1, <2>2 DEF Buffered
<1>3. CASE Judge
  <2>1. /\ pc = "judge" /\ cnt' = cnt /\ addr' = addr /\ Sbuf' = Sbuf /\ pc' \in {"out", "write", "retry"}
        /\ pc' # "out" => sec' = sec + 1 /\ (pc' = "write" => sec + 1 = cnt)
    BY <1>3 DEF Judge
  <2>2. /\ Sbuf \in [0 .. cnt - 1 -> Int]
        /\ \A k \in 0 .. sec - 1 : Sbuf[k] = Good(addr + k) \/ addr + k \in Bad
        /\ Sbuf[sec] = Good(addr + sec) \/ NotCorrected
    BY <2>1 DEF Buffered, Transferred, NotCorrected
  <2>3. Bad \subseteq Bad' /\ (NotCorrected => addr + sec \in Bad')
    BY <1>3, ListGrows
  <2>4. \A k \in 0 .. sec : Sbuf[k] = Good(addr + k) \/ addr + k \in Bad'
    BY <2>2, <2>3, Numbers
  <2>5. pc' # "out" => Transferred' = sec + 1
    BY <2>1 DEF Transferred
  <2> QED
    BY <2>1, <2>2, <2>4, <2>5, Numbers DEF Buffered
<1>4. CASE \/ pc' \notin {"retry", "judge", "write"}
           \/ UNCHANGED <<pc, cnt, sec, addr, try, job, Sbuf, badsecs>>
  BY <1>4 DEF Buffered, Transferred, Bad
<1>5. \/ ReadChunk \/ ReadAgain \/ Judge \/ pc' \notin {"retry", "judge", "write"}
      \/ UNCHANGED <<pc, cnt, sec, addr, try, job, Sbuf, badsecs>>
  BY DEF Next, Step, Generic, Select, Setup, SelectSize, oldmode, SetMode, Ask, Loop,
    WriteFile, Out, RestoreSize, RestoreMode, WriteDisk, Transfer, exscsi, intr, Leave, retry, vars
<1> QED
  BY <1>1, <1>2, <1>3, <1>4, <1>5

\* A failure is counted as a try, and each sector starts with none.
LEMMA StepTries == Types /\ Tries /\ [Next]_vars => Tries'
<1> SUFFICES ASSUME Types, Tries, [Next]_vars PROVE Tries'
  OBVIOUS
<1>0. job' = job
  BY Changed
<1>1. CASE ReadChunk
  <2>1. \/ pc' \in {"write", "out"} /\ try' = try /\ fails' = fails
        \/ pc' = "retry" /\ try' = 0 /\ fails' = 0
    BY <1>1 DEF ReadChunk, retry
  <2> QED
    BY <1>0, <2>1, Numbers DEF Tries
<1>2. CASE ReadAgain
  <2>1. /\ pc = "retry"
        /\ \/ try' = try /\ fails' = fails /\ pc' \in {"out", "exscsi", "ended", "judge"}
           \/ /\ try' = try + 1 /\ fails' = IF fails < job.retries THEN fails + 1 ELSE fails
              /\ pc' = IF try' < job.retries THEN "retry" ELSE "judge"
    BY <1>2 DEF ReadAgain, Leave, Counted, retry
  <2>2. /\ try = 0 \/ try < job.retries
        /\ fails = IF try < job.retries THEN try ELSE job.retries
    BY <2>1 DEF Tries
  <2> QED
    BY <1>0, <2>1, <2>2, Numbers DEF Tries
<1>3. CASE Judge
  <2>1. \/ pc' = "out" /\ try' = try /\ fails' = fails
        \/ try' = 0 /\ fails' = 0 /\ pc' \in {"write", "retry"}
    BY <1>3 DEF Judge, NextTries, retry
  <2> QED
    BY <1>0, <2>1, Numbers DEF Tries
<1>4. \/ ReadChunk \/ ReadAgain \/ Judge
      \/ UNCHANGED <<try, fails>> /\ (pc' = pc \/ pc' \notin {"retry", "judge"})
  BY DEF Next, Step, Generic, Select, Idle, Setup, SelectSize, oldmode, SetMode, Ask, Loop,
    WriteFile, Out, RestoreSize, RestoreMode, WriteDisk, Transfer, exscsi, intr, Leave, retry, vars
<1> QED
  BY <1>0, <1>1, <1>2, <1>3, <1>4 DEF Tries

------------------------------------------------------------------------------
(* The file                                                                *)

\* What is appended to the file is the chunk that follows it.
LEMMA ChunkInPlace ==
    ASSUME Types, Where, Buffered, Copied, WriteFile, ~short'
    PROVE  /\ InPlace'
           /\ pc' = "loop" => Len(file') = addr' - job.start
<1>1. /\ pc = "write" /\ job' = job /\ badsecs' = badsecs /\ cnt \in Nat
      /\ pc' = "loop" => addr' = addr + cnt
  BY Numbers DEF WriteFile
<1>2. PICK n \in 0 .. cnt : /\ file' = file \o [k \in 1 .. n |-> Sbuf[k - 1]]
                            /\ ~short
                            /\ (pc' = "loop" /\ ~(n < cnt)) \/ pc' = "out"
  <2>1. PICK n \in 0 .. cnt : /\ file' = file \o [k \in 1 .. n |-> Sbuf[k - 1]]
                              /\ \/ pc' = "loop" /\ short' = (short \/ n < cnt)
                                 \/ pc' = "out" /\ short' = short
    BY Zenon DEF WriteFile
  <2>2. ~short
    BY <2>1
  <2>3. pc' = "loop" => ~(n < cnt)
    BY <2>1
  <2> QED
    BY <2>1, <2>2, <2>3, Zenon
<1>3. Bad' = Bad
  BY <1>1 DEF Bad
<1>4. ~short
  BY <1>2
<1>5. /\ file \in Seq(Int) /\ Len(file) \in Nat /\ Len(file) = addr - job.start /\ n \in Nat
      /\ \A k \in 0 .. cnt - 1 : Sbuf[k] \in Int /\ (Sbuf[k] = Good(addr + k) \/ addr + k \in Bad)
      /\ \A k \in DOMAIN file : file[k] = Good(job.start + k - 1) \/ job.start + k - 1 \in Bad
  <2>1. file \in Seq(Int)
    BY DEF Types
  <2>2. Len(file) = addr - job.start /\ InPlace
    BY <1>1, <1>4 DEF Copied, Reading
  <2>3. \A k \in 0 .. cnt - 1 : Sbuf[k] \in Int /\ (Sbuf[k] = Good(addr + k) \/ addr + k \in Bad)
    BY <1>1 DEF Buffered, Transferred
  <2> QED
    BY <1>1, <1>4, <2>1, <2>2, <2>3 DEF InPlace
<1> DEFINE piece == [k \in 1 .. n |-> Sbuf[k - 1]]
<1>6. piece \in Seq(Int) /\ Len(piece) = n
  <2>1. piece \in [1 .. n -> Int]
    BY <1>1, <1>5
  <2> QED
    BY <1>5, <2>1, SeqDef
<1>11. file' = file \o piece /\ \A k \in 1 .. n : piece[k] = Sbuf[k - 1]
  BY <1>2
<1> HIDE DEF piece
<1>7. PICK l \in Nat :
         /\ l = Len(file) /\ DOMAIN file = 1 .. l /\ Len(file') = l + n /\ DOMAIN file' = 1 .. l + n
         /\ \A k \in 1 .. l + n : file'[k] = IF k <= l THEN file[k] ELSE piece[k - l]
  <2>1. /\ file \o piece \in Seq(Int) /\ Len(file \o piece) = Len(file) + Len(piece)
        /\ \A k \in 1 .. Len(file) + Len(piece) :
              (file \o piece)[k] = IF k <= Len(file) THEN file[k] ELSE piece[k - Len(file)]
    BY <1>5, <1>6, ConcatProperties, Zenon
  <2>2. DOMAIN (file \o piece) = 1 .. Len(file \o piece) /\ DOMAIN file = 1 .. Len(file)
    BY <1>5, <2>1
  <2> QED
    BY <1>5, <1>6, <1>11, <2>1, <2>2, Zenon
<1>8. ASSUME NEW k \in 1 .. l + n
      PROVE  file'[k] = Good(job.start + k - 1) \/ job.start + k - 1 \in Bad
  <2>1. CASE k <= l
    <3>1. k \in 1 .. l
      BY <1>5, <2>1
    <3>2. file'[k] = file[k]
      BY <1>7, <2>1, Zenon
    <3> QED
      BY <1>5, <1>7, <3>1, <3>2, Zenon
  <2>2. CASE k > l
    <3>1. k - l \in 1 .. n /\ k - l - 1 \in 0 .. cnt - 1 /\ ~(k <= l)
      BY <1>1, <1>5, <2>2
    <3>2. file'[k] = piece[k - l] /\ piece[k - l] = Sbuf[k - l - 1]
      BY <1>7, <1>11, <3>1, Zenon
    <3>3. addr + (k - l - 1) = job.start + k - 1
      <4>1. l = addr - job.start
        BY <1>5, <1>7, Zenon
      <4> QED
        BY <4>1, Numbers
    <3> QED
      BY <1>5, <3>1, <3>2, <3>3, Zenon
  <2> QED
    BY <1>5, <2>1, <2>2
<1>9. InPlace'
  BY <1>1, <1>3, <1>7, <1>8 DEF InPlace
<1>10. pc' = "loop" => n = cnt
  BY <1>1, <1>2
<1>12. pc' = "loop" => l + n = addr' - job'.start
  <2>1. l = addr - job.start /\ (pc' = "loop" => addr' = addr + cnt) /\ job' = job
    BY <1>1, <1>5, <1>7, Zenon
  <2> QED
    BY <1>10, <2>1, Numbers
<1> QED
  BY <1>1, <1>7, <1>9, <1>12, Zenon

LEMMA StepCopied ==
    Types /\ Where /\ Buffered /\ Copied /\ [Next]_vars => Copied'
<1> SUFFICES ASSUME Types, Where, Buffered, Copied, [Next]_vars PROVE Copied'
  OBVIOUS
<1>0. job' = job
  BY Changed
<1>1. CASE Select
  <2>1. /\ UNCHANGED <<short, badsecs>>
        /\ \/ UNCHANGED <<file, addr>> /\ pc' \in {"ended", "exscsi"}
           \/ file' = <<>> /\ addr' = job.start /\ pc' \in {"setup", "ended", "exscsi"}
    BY <1>1 DEF Select, Idle, Leave
  <2>2. InPlace'
    BY <1>0, <2>1 DEF Copied, InPlace, Bad
  <2> QED
    BY <1>0, <2>1, <2>2 DEF Copied, Reading
<1>2. CASE WriteFile
  <2>1. InPlace'
    BY <1>2, ChunkInPlace DEF InPlace
  <2>2. /\ pc' \in {"loop", "out"} /\ pc = "write" /\ (addr' = addr \/ addr' = addr + cnt)
        /\ pc' = "out" => warned' = TRUE
    BY <1>2 DEF WriteFile
  <2>3. addr' >= job.start
    BY <2>2, Numbers DEF Copied, Reading
  <2>4. pc' = "loop" /\ ~short' => Len(file') = addr' - job.start
    BY <1>2, ChunkInPlace
  <2> QED
    BY <1>0, <2>1, <2>2, <2>3, <2>4 DEF Copied, Reading
<1>3. CASE Judge
  <2>1. /\ UNCHANGED <<file, addr, short, warned>> /\ pc = "judge" /\ pc' \in {"write", "retry", "out"}
    BY <1>3 DEF Judge
  <2>2. InPlace'
    BY <1>0, <2>1, ListGrows DEF Copied, InPlace
  <2> QED
    BY <1>0, <2>1, <2>2 DEF Copied, Reading
<1>4. CASE ~Judge /\ ~Select /\ ~WriteFile /\ UNCHANGED <<file, addr, short>>
  <2>1. InPlace'
    BY <1>0, <1>4, ListGrows DEF Copied, InPlace
  <2>2. CASE Loop
    <3>1. pc = "loop" /\ warned' = warned /\ pc' \in {"out", "chunk", "exscsi", "ended"} /\ (pc' = "out" => ~(addr < job.end))
      BY <2>2 DEF Loop, More, Leave
    <3> QED
      BY <1>0, <1>4, <2>1, <3>1, Numbers DEF Copied, Reading
  <2>3. CASE ReadChunk \/ ReadAgain
    <3>1. /\ pc \in {"chunk", "retry"} /\ pc' \in {"write", "out", "retry", "judge", "exscsi", "ended"}
          /\ pc' \in {"retry", "judge", "out"} => warned'
      <4>1. CASE ReadChunk
        <5>1. pc = "chunk" /\ (pc' = "write" \/ (pc' \in {"out", "retry"} /\ warned'))
          BY <4>1 DEF ReadChunk
        <5> QED
          BY <5>1
      <4>2. CASE ReadAgain
        <5>1. pc = "retry" /\ warned' = warned
          BY <4>2 DEF ReadAgain
        <5>2. pc' \in {"out", "exscsi", "ended", "retry", "judge"}
          BY <4>2 DEF ReadAgain, Leave
        <5> QED
          BY <5>1, <5>2 DEF Copied
      <4> QED
        BY <2>3, <4>1, <4>2
    <3> QED
      BY <1>0, <1>4, <2>1, <3>1 DEF Copied, Reading
  <2>4. \/ Loop \/ ReadChunk \/ ReadAgain
        \/ pc' \notin {"setup", "oldmode", "domode", "ask", "out"} \cup Reading
        \/ pc \in {"setup", "oldmode", "domode", "ask"} /\ pc' # "out"
              /\ (pc' \in Reading => pc' = "loop")
        \/ UNCHANGED <<pc, warned>>
    <3>1. CASE Setup \/ SelectSize \/ oldmode \/ SetMode \/ Ask
      <4>1. pc \in {"setup", "oldmode", "domode", "ask"}
        BY <3>1 DEF Setup, SelectSize, oldmode, SetMode, Ask
      <4>2. pc' \in {"oldmode", "domode", "ask", "wloop", "select", "loop", "ended", "exscsi"}
        BY <3>1 DEF Setup, SelectSize, oldmode, SetMode, Ask, Leave
      <4> QED
        BY <4>1, <4>2 DEF Reading
    <3>2. CASE WriteDisk \/ exscsi
      <4>1. pc' \in {"ended", "exscsi", "wloop", "select"}
        BY <3>2 DEF WriteDisk, Transfer, exscsi, Leave
      <4> QED
        BY <4>1 DEF Reading
    <3>3. CASE Out \/ RestoreSize \/ RestoreMode
      <4>1. pc' \in {"resize", "restore", "select"}
        BY <3>3 DEF Out, RestoreSize, RestoreMode
      <4> QED
        BY <4>1 DEF Reading
    <3>4. CASE intr \/ UNCHANGED vars
      BY <3>4 DEF intr, vars
    <3> QED
      BY <1>4, <3>1, <3>2, <3>3, <3>4 DEF Next, Step, Generic
  <2>5. CASE pc' \notin {"setup", "oldmode", "domode", "ask", "out"} \cup Reading
    BY <1>0, <1>4, <2>1, <2>5 DEF Copied, Reading
  <2>6. CASE pc \in {"setup", "oldmode", "domode", "ask"} /\ pc' # "out" /\ (pc' \in Reading => pc' = "loop")
    <3>1. file' = <<>> /\ addr' = job.start
      BY <1>4, <2>6 DEF Copied
    <3> QED
      BY <1>0, <2>1, <2>6, <3>1, Numbers DEF Copied, Reading
  <2>7. CASE UNCHANGED <<pc, warned>>
    BY <1>0, <1>4, <2>1, <2>7 DEF Copied
  <2> QED
    BY <2>2, <2>3, <2>4, <2>5, <2>6, <2>7
<1>5. \/ Select \/ WriteFile \/ Judge \/ UNCHANGED <<file, addr, short>>
      \/ WriteDisk /\ UNCHANGED <<file, short, badsecs>>
  BY DEF Next, Step, Generic, Setup, SelectSize, oldmode, SetMode, Ask, Loop, ReadChunk, ReadKeeps, ReadAgain,
    Idle, Out, RestoreSize, RestoreMode, WriteDisk, exscsi, intr, vars
<1>6. CASE WriteDisk /\ UNCHANGED <<file, short, badsecs>>
  <2>1. InPlace'
    BY <1>0, <1>6 DEF Copied, InPlace, Bad
  <2>2. pc' \in {"wloop", "select", "exscsi", "ended"}
    BY <1>6 DEF WriteDisk, Transfer, Leave
  <2> QED
    BY <1>0, <2>1, <2>2 DEF Copied, Reading
<1> QED
  BY <1>1, <1>2, <1>3, <1>4, <1>5, <1>6

------------------------------------------------------------------------------
(* The drive                                                               *)

\* The handler is called only if it is set.
LEMMA StepHandlerIsSet == HandlerIsSet /\ [Next]_vars => HandlerIsSet'
<1> SUFFICES ASSUME HandlerIsSet, [Next]_vars PROVE HandlerIsSet'
  OBVIOUS
<1>1. CASE Select \/ Ask
  BY <1>1 DEF Select, Ask, Idle, Leave, saved, HandlerIsSet
<1>2. CASE Setup \/ SelectSize \/ oldmode \/ SetMode
  BY <1>2 DEF Setup, SelectSize, oldmode, SetMode, HandlerIsSet
<1>3. CASE Loop \/ ReadAgain \/ WriteDisk
  BY <1>3 DEF Loop, ReadAgain, WriteDisk, Transfer, Leave, saved, HandlerIsSet
<1>4. CASE ReadChunk \/ Judge \/ WriteFile \/ Out
  BY <1>4 DEF ReadChunk, Judge, WriteFile, Out, HandlerIsSet
<1>5. CASE RestoreSize \/ RestoreMode \/ exscsi
  BY <1>5 DEF RestoreSize, RestoreMode, exscsi, HandlerIsSet
<1>6. CASE intr \/ UNCHANGED vars
  BY <1>6 DEF intr, vars, saved, HandlerIsSet
<1> QED
  BY <1>1, <1>2, <1>3, <1>4, <1>5, <1>6 DEF Next, Step, Generic

\* The signed char and the byte are the same for the drive.
LEMMA CharOfMode ==
    ASSUME NEW m \in 0 .. 255
    PROVE  /\ Char(m) \in -128 .. 127 /\ Char(m) # None /\ Char(m) % 256 = m
           /\ m # 255 => Char(m) # -1
BY DEF Char, None

\* What the steps of an operation that do not touch the drive leave alone: they
\* go on with the operation or leave the program.
Onward ==
    /\ pc \in Changing
    /\ \/ pc' \in Changing
       \/ pc' = IF exoerr = None THEN "ended" ELSE "exscsi"
       \/ pc' = "ended" /\ status' = "eof"
    /\ UNCHANGED <<ops, osecsize, oerr, exoerr, mode>>

LEMMA GenericGoesOn ==
    ASSUME Ask \/ Loop \/ ReadChunk \/ ReadAgain \/ Judge \/ WriteFile \/ (Out /\ Changes)
    PROVE  Onward /\ UNCHANGED <<size, refused>>
<1>1. CASE Ask
  BY <1>1 DEF Ask, Idle, Leave, Onward, Changing, Reading, drive, saved
<1>2. CASE Loop
  BY <1>2 DEF Loop, Leave, Onward, Changing, Reading, drive, saved
<1>3. CASE ReadChunk
  BY <1>3 DEF ReadChunk, ReadKeeps, Onward, Changing, Reading, drive, saved
<1>4. CASE ReadAgain
  BY <1>4 DEF ReadAgain, Leave, Onward, Changing, Reading, drive, saved
<1>5. CASE Judge \/ WriteFile \/ (Out /\ Changes)
  BY <1>5 DEF Judge, WriteFile, Out, Onward, Changing, Reading, drive, saved
<1> QED
  BY <1>1, <1>2, <1>3, <1>4, <1>5

\* The mode is set back by the operation, or by the handler.
LEMMA StepRemembered ==
    Types /\ Where /\ HandlerIsSet /\ Remembered /\ [Next]_vars => Remembered'
<1> SUFFICES ASSUME Types, Where, HandlerIsSet, Remembered, [Next]_vars,
                    ~refused', job'.mode # 255
             PROVE  /\ (exoerr = None \/ Known)'
                    /\ (pc \in {"select", "setup", "oldmode", "wloop"} \/ (pc \in Changing /\ ~Changes) => mode = job.mode)'
                    /\ (pc = "domode" \/ (pc \in Changing /\ Changes) => Known /\ oerr = job.mode)'
                    /\ (exoerr = None => mode = job.mode)'
                    /\ (pc = "ended" /\ status # "eof" => mode = job.mode)'
  BY DEF Remembered
<1>0. job' = job /\ job.mode \in 0 .. 255 /\ job.mode # 255
  <2>1. job \in Jobs
    BY DEF Types
  <2> QED
    BY <2>1, Changed, JobType
<1>c. Char(job.mode) # None /\ Char(job.mode) % 256 = job.mode /\ Char(job.mode) # -1
  BY <1>0, CharOfMode
<1>r. ASSUME ~refused
      PROVE  /\ exoerr = None \/ exoerr = Char(job.mode)
             /\ pc \in {"select", "setup", "oldmode", "wloop"} \/ (pc \in Changing /\ ~Changes) => mode = job.mode
             /\ pc = "domode" \/ (pc \in Changing /\ Changes) => exoerr = Char(job.mode) /\ oerr = job.mode
             /\ exoerr = None => mode = job.mode
             /\ pc = "ended" /\ status # "eof" => mode = job.mode
  BY <1>0, <1>r DEF Remembered, Known
<1>1. CASE Select \/ WriteDisk
  <2>1. /\ pc \in {"select", "wloop"} /\ UNCHANGED <<mode, exoerr>> /\ ~refused
        /\ pc' \in {"setup", "ended", "exscsi", "select", "wloop"}
    BY <1>1 DEF Select, WriteDisk, Transfer, Idle, Leave, drive, saved
  <2> QED
    BY <1>0, <1>r, <2>1 DEF Known, Changing, Reading
<1>2. CASE Setup
  <2>1. /\ pc = "setup" /\ UNCHANGED <<mode, exoerr>> /\ ~refused /\ ~Changes
        /\ pc' \in {"ask", "wloop", "select"} /\ (pc' = "ask" => ops' = ops)
    BY <1>2 DEF Setup, saved
  <2> QED
    BY <1>0, <1>r, <2>1 DEF Known, Changing, Reading, Changes, Op
<1>3. CASE SelectSize
  <2>1. pc = "setup" /\ pc' = "oldmode" /\ UNCHANGED <<mode, exoerr>> /\ ~refused
    BY <1>3 DEF SelectSize, select_secsize
  <2> QED
    BY <1>0, <1>r, <2>1 DEF Known, Changing, Reading
<1>4. CASE oldmode
  <2>1. pc = "oldmode" /\ pc' = "domode" /\ mode' = mode /\ oerr' = mode /\ exoerr' = Char(mode) /\ ~refused
    BY <1>4 DEF oldmode, Remember, drive
  <2> QED
    BY <1>0, <1>c, <1>r, <2>1 DEF Known, Changing, Reading
<1>5. CASE SetMode
  <2>1. pc = "domode" /\ pc' = "ask" /\ UNCHANGED <<ops, oerr, exoerr>> /\ ~refused /\ Changes
    BY <1>5 DEF SetMode, domode, saved, Where
  <2> QED
    BY <1>0, <1>c, <1>r, <2>1 DEF Known, Changing, Reading, Changes, Op
<1>6. CASE Onward /\ ~refused
  <2>1. Changes' = Changes
    BY <1>6 DEF Onward, Changes, Op
  <2>2. pc' = "ended" /\ status' # "eof" => exoerr = None
    BY <1>6 DEF Onward, Changing, Reading
  <2>3. pc' \in Changing \cup {"ended", "exscsi"}
    BY <1>6 DEF Onward
  <2> QED
    BY <1>0, <1>6, <1>r, <2>1, <2>2, <2>3 DEF Onward, Known, Changing, Reading
<1>7. CASE Out /\ ~Changes
  <2>1. pc = "out" /\ pc' = "select" /\ UNCHANGED <<mode, exoerr>> /\ ~refused
    BY <1>7 DEF Out, drive, saved
  <2> QED
    BY <1>0, <1>7, <1>r, <2>1 DEF Known, Changing, Reading
<1>8. CASE RestoreMode
  <2>1. pc = "restore" /\ pc' = "select" /\ exoerr' = exoerr /\ Changes
    BY <1>8 DEF RestoreMode, saved, Where
  <2>2. ~refused /\ (mode' = oerr % 256 \/ oerr = -1)
    BY <1>8 DEF RestoreMode, domode
  <2>3. exoerr = Char(job.mode) /\ oerr = job.mode
    BY <1>r, <2>1, <2>2 DEF Changing
  <2>4. mode' = job.mode
    BY <1>0, <2>2, <2>3
  <2> QED
    BY <1>0, <2>1, <2>3, <2>4 DEF Known, Changing, Reading
<1>9. CASE exscsi
  <2>1. pc = "exscsi" /\ pc' = "ended" /\ exoerr' = exoerr /\ exoerr # None
    BY <1>9 DEF exscsi, saved, HandlerIsSet
  <2>2. ~refused /\ (mode' = exoerr % 256 \/ exoerr = -1)
    BY <1>9 DEF exscsi, domode
  <2>3. mode' = job.mode
    BY <1>c, <1>r, <2>1, <2>2
  <2> QED
    BY <1>0, <1>r, <2>1, <2>2, <2>3 DEF Known, Changing, Reading
<1>10. CASE intr \/ UNCHANGED vars
  <2>1. UNCHANGED <<job, pc, ops, mode, oerr, exoerr, status, refused>>
    BY <1>10 DEF intr, vars, drive, saved
  <2> QED
    BY <1>0, <1>r, <2>1 DEF Known, Changes, Op
<1>11. RestoreSize => Onward /\ ~refused
  BY DEF RestoreSize, OldSize, select_secsize, Onward, Changing, saved
<1> QED
  BY <1>1, <1>2, <1>3, <1>4, <1>5, <1>6, <1>7, <1>8, <1>9, <1>10, <1>11, GenericGoesOn DEF Next, Step, Generic

LEMMA TailNoReadda ==
    ASSUME ops \in Seq(Ops), ops # <<>>, NoReadda(ops)
    PROVE  NoReadda(Tail(ops)) /\ Op # "readda"
<1>1. /\ Len(ops) \in Nat /\ Len(ops) # 0 /\ DOMAIN ops = 1 .. Len(ops) /\ Head(ops) = ops[1]
      /\ Tail(ops) \in Seq(Ops) /\ Len(Tail(ops)) = Len(ops) - 1
      /\ \A i \in 1 .. Len(Tail(ops)) : Tail(ops)[i] = ops[i + 1]
  BY HeadTailProperties, EmptySeq
<1>2. DOMAIN Tail(ops) = 1 .. Len(ops) - 1
  BY <1>1
<1> QED
  BY <1>1, <1>2 DEF NoReadda, Op

LEMMA StepSizeKnown ==
    Types /\ Working /\ Where /\ SizeKnown /\ [Next]_vars => SizeKnown'
<1> SUFFICES ASSUME Types, Working, Where, SizeKnown, [Next]_vars, NoReadda(job'.ops)
             PROVE  /\ NoReadda(ops')
                    /\ ~refused' =>
                         /\ (pc \in {"select", "setup", "wloop"} \/ (pc \in Changing /\ ~Changes) => size = job.size)'
                         /\ (pc \in {"oldmode", "domode"} \/ (pc \in Changing \ {"restore"} /\ Changes) =>
                              IF osecsize = 2048 THEN size = job.size ELSE osecsize = job.size)'
                         /\ (pc = "restore" => size = job.size)'
  BY DEF SizeKnown, NoReadda
<1>0. job' = job /\ NoReadda(job.ops) /\ NoReadda(ops)
  <2>1. job' = job
    BY Changed
  <2> QED
    BY <2>1 DEF SizeKnown
<1>t. NoReadda(ops')
  <2>1. ops' = ops \/ (ops' = Tail(ops) /\ pc \notin {"select", "exscsi", "ended"})
    <3>1. CASE Select \/ Setup \/ SelectSize \/ oldmode \/ SetMode \/ Ask
      BY <3>1 DEF Select, Setup, SelectSize, oldmode, SetMode, Ask
    <3>2. CASE Generic
      BY <3>2 DEF Generic, Loop, ReadChunk, ReadKeeps, ReadAgain, Judge, WriteFile, Out
    <3>3. CASE RestoreSize \/ RestoreMode \/ exscsi \/ intr \/ UNCHANGED vars
      BY <3>3 DEF RestoreSize, RestoreMode, exscsi, intr, vars
    <3>4. CASE WriteDisk
      BY <3>4 DEF WriteDisk, Transfer
    <3> QED
      BY <3>1, <3>2, <3>3, <3>4 DEF Next, Step
  <2>2. ops \in Seq(Ops)
    BY DEF Types
  <2> QED
    BY <1>0, <2>1, <2>2, TailNoReadda DEF Working
<1> SUFFICES ASSUME ~refused'
             PROVE  /\ (pc \in {"select", "setup", "wloop"} \/ (pc \in Changing /\ ~Changes) => size = job.size)'
                    /\ (pc \in {"oldmode", "domode"} \/ (pc \in Changing \ {"restore"} /\ Changes) =>
                              IF osecsize = 2048 THEN size = job.size ELSE osecsize = job.size)'
                    /\ (pc = "restore" => size = job.size)'
  BY <1>t
<1>r. ASSUME ~refused
      PROVE  /\ pc \in {"select", "setup", "wloop"} \/ (pc \in Changing /\ ~Changes) => size = job.size
             /\ pc \in {"oldmode", "domode"} \/ (pc \in Changing \ {"restore"} /\ Changes) =>
                    IF osecsize = 2048 THEN size = job.size ELSE osecsize = job.size
             /\ pc = "restore" => size = job.size
  BY <1>0, <1>r DEF SizeKnown
<1>1. CASE Select \/ WriteDisk
  <2>1. /\ pc \in {"select", "wloop"} /\ size' = size /\ ~refused
        /\ pc' \in {"setup", "ended", "exscsi", "select", "wloop"}
    BY <1>1 DEF Select, WriteDisk, Transfer, Idle, Leave, drive
  <2> QED
    BY <1>0, <1>r, <2>1 DEF Changing, Reading
<1>2. CASE Setup
  <2>1. Op # "readda"
    BY <1>0, <1>2, TailNoReadda DEF Setup, Types, Working
  <2>2. /\ pc = "setup" /\ size' = size /\ ~refused /\ ~Changes
        /\ pc' \in {"ask", "wloop", "select"} /\ ops' = ops
    BY <1>2, <2>1 DEF Setup
  <2> QED
    BY <1>0, <1>r, <2>2 DEF Changing, Reading, Changes, Op
<1>3. CASE SelectSize
  <2>1. /\ pc = "setup" /\ pc' = "oldmode" /\ ~refused /\ osecsize' \in {size, 2048}
        /\ osecsize' = 2048 => size' = size
    BY <1>3 DEF SelectSize, select_secsize
  <2> QED
    BY <1>0, <1>r, <2>1 DEF Changing, Reading
<1>4. CASE oldmode \/ SetMode
  <2>1. /\ pc \in {"oldmode", "domode"} /\ pc' \in {"domode", "ask"} /\ UNCHANGED <<ops, size, osecsize>>
        /\ ~refused /\ Changes
    BY <1>4 DEF oldmode, SetMode, domode, drive, saved, Where
  <2> QED
    BY <1>0, <1>r, <2>1 DEF Changing, Reading, Changes, Op
<1>5. CASE Onward /\ UNCHANGED <<size, refused>> /\ pc # "restore" /\ pc' # "restore"
  <2>1. Changes' = Changes /\ osecsize' = osecsize /\ pc \in Changing /\ pc' \in Changing \cup {"ended", "exscsi"}
    BY <1>5 DEF Onward, Changes, Op
  <2> QED
    BY <1>0, <1>5, <1>r, <2>1 DEF Changing, Reading
<1>6. CASE Out /\ ~Changes
  <2>1. pc = "out" /\ pc' = "select" /\ size' = size /\ ~refused
    BY <1>6 DEF Out, drive
  <2> QED
    BY <1>0, <1>6, <1>r, <2>1 DEF Changing, Reading
<1>7. CASE RestoreSize
  <2>1. /\ pc = "resize" /\ pc' = "restore" /\ ops' = ops /\ ~refused /\ Changes
        /\ IF osecsize = 2048 THEN size' = size ELSE size' = osecsize
    BY <1>7 DEF RestoreSize, OldSize, select_secsize, Where
  <2> QED
    BY <1>0, <1>r, <2>1 DEF Changing, Reading, Changes, Op
<1>8. CASE RestoreMode
  <2>1. pc = "restore" /\ pc' = "select" /\ size' = size /\ ~refused
    BY <1>8 DEF RestoreMode, domode
  <2> QED
    BY <1>0, <1>r, <2>1 DEF Changing, Reading
<1>9. CASE exscsi
  BY <1>9 DEF exscsi, Changing, Reading
<1>10. CASE intr \/ UNCHANGED vars
  <2>1. UNCHANGED <<job, pc, ops, size, osecsize, refused>>
    BY <1>10 DEF intr, vars, drive, saved
  <2> QED
    BY <1>0, <1>r, <2>1 DEF Changes, Op
<1>11. Ask \/ Loop \/ ReadChunk \/ ReadAgain \/ Judge \/ WriteFile \/ (Out /\ Changes) =>
           Onward /\ UNCHANGED <<size, refused>> /\ pc # "restore" /\ pc' # "restore"
  <2>1. Ask \/ Loop \/ ReadChunk \/ ReadAgain \/ Judge \/ WriteFile \/ (Out /\ Changes) => pc # "restore" /\ pc' # "restore"
    BY DEF Ask, Loop, ReadChunk, ReadAgain, Judge, WriteFile, Out, Leave
  <2> QED
    BY <2>1, GenericGoesOn
<1> QED
  BY <1>1, <1>2, <1>3, <1>4, <1>5, <1>6, <1>7, <1>8, <1>9, <1>10, <1>11 DEF Next, Step, Generic

------------------------------------------------------------------------------
(* Writing                                                                 *)

LEMMA StepWritten == Types /\ Written /\ [Next]_vars => Written'
<1> SUFFICES ASSUME Types, Written, [Next]_vars PROVE Written'
  OBVIOUS
<1>0. job' = job
  BY Changed
<1>1. CASE Select
  <2>1. /\ disc' = disc /\ torn' = torn
        /\ pc' \in {"setup", "ended", "exscsi"} /\ (pc' = "setup" => addr' = job.start /\ half' = 0)
    BY <1>1 DEF Select, Leave, out
  <2> QED
    BY <1>0, <2>1 DEF Written, WrittenInOrder
<1>2. CASE Setup
  <2>1. UNCHANGED <<disc, torn, half, addr>> /\ pc = "setup" /\ pc' # "setup"
    BY <1>2 DEF Setup, out
  <2> QED
    BY <1>0, <2>1, Numbers DEF Written, WrittenInOrder
<1>3. CASE WriteDisk /\ UNCHANGED <<addr, disc, half, torn>>
  <2>1. pc = "wloop" /\ pc' # "setup"
    BY <1>3 DEF WriteDisk, Transfer, Leave
  <2> QED
    BY <1>0, <1>3, <2>1 DEF Written, WrittenInOrder
<1>4. CASE WriteDisk /\ addr < job.end /\ Available # 0 /\ Transfer(Available, Count(Wanted, Available))
  <2> DEFINE n == Available
             w == Count(Wanted, Available)
  <2>1. n \in Nat /\ n <= 2 * Wanted /\ Wanted \in Nat /\ w \in Nat
    BY <1>4, TransferBounds, Numbers
  <2>2. n % 2 # 1 => n = 2 * w
    BY <2>1 DEF Count
  <2>3. pc = "wloop" /\ addr >= job.start /\ (~torn => half = 2 * (addr - job.start))
    BY <1>4 DEF WriteDisk, Written
  <2> HIDE DEF n, w
  <2>4. /\ half' = half + n /\ torn' = (torn \/ n % 2 = 1)
        /\ \/ disc' = disc /\ pc' \in {"exscsi", "ended"}
           \/ /\ disc' = [a \in DOMAIN disc |-> IF a \in addr .. addr + w - 1 THEN half + 2 * (a - addr) ELSE disc[a]]
              /\ addr' = addr + w /\ pc' = pc
    BY <1>4 DEF Transfer, Leave, n, w
  <2>5. ~torn' => ~torn /\ n = 2 * w
    BY <2>2, <2>4
  <2>6. WrittenInOrder'
    <3> SUFFICES ASSUME ~torn', NEW a \in DOMAIN disc' PROVE disc'[a] \in {-1, 2 * (a - job.start)}
      BY <1>0 DEF WrittenInOrder
    <3>1. disc \in [0 .. Sectors - 1 -> Int] /\ DOMAIN disc = 0 .. Sectors - 1
      BY DEF Types
    <3>2. DOMAIN disc' = DOMAIN disc
      BY <2>4
    <3>3. a \in DOMAIN disc /\ a \in Int /\ disc[a] \in {-1, 2 * (a - job.start)}
      <4>1. a \in 0 .. Sectors - 1
        BY <3>1, <3>2
      <4>2. a \in Int
        BY <4>1
      <4> QED
        BY <2>5, <3>1, <4>1, <4>2 DEF Written, WrittenInOrder
    <3>4. half = 2 * (addr - job.start)
      BY <2>3, <2>5
    <3>5. half + 2 * (a - addr) = 2 * (a - job.start)
      BY <3>3, <3>4, Numbers
    <3> QED
      BY <2>4, <3>2, <3>3, <3>5
  <2>7. pc' = "wloop" => addr' = addr + w
    BY <2>4
  <2>8. pc' = "wloop" => addr' >= job.start
    BY <2>1, <2>3, <2>7, Numbers DEF w
  <2>9. pc' = "wloop" /\ ~torn' => half' = 2 * (addr' - job.start)
    <3> SUFFICES ASSUME pc' = "wloop", ~torn' PROVE half' = 2 * (addr' - job.start)
      OBVIOUS
    <3>1. w \in Nat /\ n = 2 * w /\ half' = half + n /\ addr' = addr + w /\ half = 2 * (addr - job.start)
      BY <2>1, <2>3, <2>4, <2>5, <2>7 DEF w
    <3> QED
      BY <3>1, Numbers
  <2>10. pc' # "setup"
    BY <2>3, <2>4
  <2> QED
    BY <1>0, <2>6, <2>8, <2>9, <2>10 DEF Written
<1>5. CASE WriteDisk
  <2>1. CASE addr < job.end /\ Available # 0 /\ ~didintr
    BY <1>4, <1>5, <2>1, Numbers DEF WriteDisk
  <2>2. CASE ~(addr < job.end) \/ Available = 0 \/ didintr
    <3>1. UNCHANGED <<addr, disc, half, torn>>
      BY <1>5, <2>2, Numbers DEF WriteDisk, out
    <3> QED
      BY <1>3, <1>5, <3>1
  <2> QED
    BY <2>1, <2>2
<1>6. CASE UNCHANGED <<disc, torn>> /\ pc' \notin {"setup", "wloop"}
  BY <1>0, <1>6 DEF Written, WrittenInOrder
<1>7. CASE UNCHANGED <<pc, addr, disc, half, torn>>
  BY <1>0, <1>7 DEF Written, WrittenInOrder
<1>8. CASE SelectSize \/ oldmode \/ SetMode \/ Ask
  BY <1>6, <1>8 DEF SelectSize, oldmode, SetMode, Ask, Leave, out
<1>9. CASE Generic
  BY <1>6, <1>9 DEF Generic, Loop, ReadChunk, ReadKeeps, ReadAgain, Judge, WriteFile, Out, Leave, out
<1>10. CASE RestoreSize \/ RestoreMode \/ exscsi
  BY <1>6, <1>10 DEF RestoreSize, RestoreMode, exscsi, out
<1>11. CASE intr \/ UNCHANGED vars
  BY <1>7, <1>11 DEF intr, vars, out
<1> QED
  BY <1>1, <1>2, <1>5, <1>8, <1>9, <1>10, <1>11 DEF Next, Step

------------------------------------------------------------------------------
(* The theorems                                                            *)

LEMMA InitIndInv == Init => IndInv
<1> SUFFICES ASSUME Init PROVE IndInv
  OBVIOUS
<1>1. Types
  BY InitTypes
<1>2. job.size \in {512, 2048} /\ job.retries \in Nat
  BY <1>1, JobType DEF Types
<1>3. Working /\ Where /\ Buffered /\ HandlerIsSet
  BY SizeAssumption DEF Init, Working, Where, Buffered, HandlerIsSet
<1>4. Tries /\ Copied
  BY <1>2 DEF Init, Tries, Copied, InPlace, Bad, Reading
<1>5. Remembered /\ SizeKnown
  BY DEF Init, Remembered, SizeKnown, Changing, Reading
<1>6. Written
  BY DEF Init, Written, WrittenInOrder
<1> QED
  BY <1>1, <1>3, <1>4, <1>5, <1>6 DEF IndInv

\* Every part of the invariant holds in every state.
THEOREM Invariance == Spec => []IndInv
<1>1. Init => IndInv
  BY InitIndInv
<1>2. IndInv /\ [Next]_vars => IndInv'
  BY StepTypes, StepWorking, StepWhere, StepBuffered, StepTries, StepCopied, StepRemembered,
     StepHandlerIsSet, StepSizeKnown, StepWritten DEF IndInv
<1> QED
  BY <1>1, <1>2, PTL DEF Spec

LEMMA IndInvTypeOK == IndInv => TypeOK
<1> SUFFICES ASSUME Types, Where, Tries PROVE TypeOK
  BY DEF IndInv
<1>1. mode \in 0 .. 255 /\ oerr \in 0 .. 255 /\ DOMAIN disc = 0 .. Sectors - 1
  BY DEF Types
<1>2. try \in 0 .. IF job.retries = 0 THEN 1 ELSE job.retries
  BY Numbers DEF Tries
<1> QED
  BY <1>1, <1>2 DEF Types, Where, TypeOK

\* A copy that is not the whole range is never passed over in silence
\* (readcd.c:1518).
THEOREM NothingLostSilently == Spec => []LossIsReported
<1>1. IndInv => LossIsReported
  <2> SUFFICES ASSUME IndInv, pc = "out", ~short, ~warned, NEW a \in job.start .. job.end - 1
               PROVE  a - job.start + 1 \in DOMAIN file
    BY DEF LossIsReported
  <2>1. addr >= job.end /\ Len(file) = addr - job.start
    BY DEF IndInv, Copied
  <2>2. DOMAIN file = 1 .. Len(file)
    BY DEF IndInv, Types
  <2>3. Types
    BY DEF IndInv
  <2>4. a - job.start + 1 \in 1 .. addr - job.start
    <3>1. job.start \in Nat /\ job.end \in Nat /\ addr \in Nat /\ addr >= job.end
      BY <2>1, <2>3, Numbers
    <3> QED
      BY <3>1
  <2> QED
    BY <2>1, <2>2, <2>4
<1> QED
  BY <1>1, Invariance, PTL

\* The drive is left with the mode and the sector size it was found with
\* (readcd.c:478, 862).
THEOREM DriveAsFound == Spec => []DriveRestored
<1>1. IndInv => DriveRestored
  <2> SUFFICES ASSUME IndInv PROVE ModeSwitchedBack /\ SizeSwitchedBack
    BY DEF DriveRestored
  <2>1. ModeSwitchedBack
    BY DEF IndInv, Remembered, ModeSwitchedBack, Ended
  <2>2. SizeSwitchedBack
    BY DEF IndInv, SizeKnown, NoReadda, SizeSwitchedBack
  <2> QED
    BY <2>1, <2>2
<1> QED
  BY <1>1, Invariance, PTL

\* A sector is listed only after all its tries (readcd.c:1578).
LEMMA ListStep == IndInv /\ [Next]_vars => [badsecs' # badsecs /\ job.retries # 0 => fails = job.retries]_vars
<1> SUFFICES ASSUME IndInv, [Next]_vars, badsecs' # badsecs PROVE fails = job.retries
  OBVIOUS
<1>1. pc = "judge" /\ try >= job.retries
  BY Changed DEF Judge, NotCorrected
<1> QED
  BY <1>1, Numbers DEF IndInv, Tries

\* What is in the file, in the list of bad sectors and on the disc belongs there,
\* whichever commands fail.
THEOREM CopyIsKept == Spec => CopyKept
<1>1. IndInv => TypeOK /\ InPlace /\ WrittenInOrder
  BY IndInvTypeOK DEF IndInv, Copied, Written
<1>2. IndInv /\ [Next]_vars => [badsecs' # badsecs /\ job.retries # 0 => fails = job.retries]_vars
  BY ListStep
<1> QED
  BY <1>1, <1>2, Invariance, PTL DEF CopyKept, ListedWhenBad, Spec
==============================================================================
