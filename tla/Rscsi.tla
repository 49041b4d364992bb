-------------------------------- MODULE Rscsi --------------------------------
(***************************************************************************)
(* Remote SCSI: a program calls the transport of librscg (scsi-remote.c),  *)
(* which sends requests to the server rscsi over a byte stream and waits   *)
(* for the answers.  A request is a letter, some lines and, for a SCSI     *)
(* command, its bytes; an answer is a status line, some lines and bytes.   *)
(* Nothing else marks where one request or answer ends.                    *)
(*                                                                         *)
(* A handler of the server and a call of the client take what they read    *)
(* off the stream in one step: only they read it, the other side only      *)
(* appends.  The connection may be lost at any time with what is on it.    *)
(***************************************************************************)
EXTENDS Integers, Sequences

CONSTANTS
    Targets,    \* bus, target and lun of the drives of the server's machine
    Allowed,    \* those an ACCESS= line of /etc/default/rscsi admits
    High,       \* those with a target number above 7
    NoTarget,   \* a negative or impossible address, and a file number < 0
    MaxDma,     \* what the server's transport moves at once
    Amounts,    \* sizes of buffers and of the data of a command
    CdbSize,    \* cdb_len, at most SCG_MAX_CMD
    MaxSense,   \* SCG_MAX_SENSE
    MaxLost,    \* bound of the model: calls over a lost connection
    Names       \* device names: "plain", "cut" (longer than a line), "REMOTE"

ASSUME TargetAssumption ==
    NoTarget \notin Targets /\ Allowed \subseteq Targets /\ High \subseteq Targets
ASSUME SizeAssumption ==
    MaxDma \in Nat \ {0} /\ Amounts \subseteq Nat /\ CdbSize \in Nat \ {0} /\ MaxSense \in Nat /\ MaxLost \in Nat
ASSUME NameAssumption == Names \subseteq {"plain", "cut", "REMOTE"}

\* errno
EIO == 5
ENXIO == 6
EBADF == 9
ENOMEM == 12
EINVAL == 22

Nothing == [ret |-> -1, errno |-> 0, extra |-> <<>>]

VARIABLES
    link, toServer, toClient,
    \* the client: the call it is in or makes next, scg_local.isopen, scgp->fd
    \* (a target or NoTarget), scgp->addr, scgp->bufbase
    pc, call, isopen, fd, addr, bufbase,
    \* the server: scsi_ptr is there, its file number, Sbuf is there, Sbufsize
    srv, scsi, target, sbuf, sbufsize,
    \* history: was the last call served, what it came to, what it returned, the
    \* SCSI command carried out for it, and is the request on the stream one
    \* that the client has given up?  How many calls got no answer?
    served, answer, taken, exec, late, lost

stream == <<link, toServer, toClient>>
client == <<pc, call, isopen, fd, addr, bufbase>>
server == <<srv, scsi, target, sbuf, sbufsize>>
history == <<served, answer, taken, exec, late, lost>>
vars == <<stream, client, server, history>>

Addresses == Targets \cup {NoTarget}
NoCommand == [target |-> NoTarget, size |-> 0, bytes |-> <<>>]
NotExecuted == [got |-> NoCommand, meant |-> NoCommand]

Connected == link = "up" /\ srv = "run" /\ pc # "gone"
\* A read beyond what was sent returns 0 or -1.
ServerEOF == link = "cut" \/ pc = "gone"
ClientEOF == link = "cut" \/ srv # "run"

----------------------------------------------------------------------------
(* What goes over the stream: a letter, a line, a line whose end was cut   *)
(* off, a byte.  A letter also carries, for the history, the drive the     *)
(* program means.                                                          *)
Line(v) == [k |-> "line", v |-> v]
Device(c) == [k |-> "line", v |-> c.target, name |-> c.name]
CDB == 1
DATA == 2
SENSE == 3
TEXT == 4
Bytes(n, what) == [i \in 1 .. n |-> [k |-> "byte", v |-> what]]
Letter(op) == [k |-> "letter", v |-> op, on |-> addr]

Ops == {"V", "O", "C", "D", "M", "F", "B", "T", "I", "A", "R", "S"}
Args(op) == CASE op = "S" -> 5 [] op = "T" -> 4 [] op = "B" -> 2 [] OTHER -> 1

Call(op, t, n) == [op |-> op, target |-> t, amount |-> n, recv |-> FALSE, name |-> "plain", buf |-> FALSE]
NoCall == Call("-", NoTarget, 0)

Arguments(c) ==
    CASE c.op = "O" -> IF c.name = "cut" THEN <<[k |-> "part", v |-> 0]>> ELSE <<Device(c)>>
      [] c.op = "T" -> <<Line(c.target), Line(0), Line(c.target), Line(c.target)>>
      [] c.op = "B" -> <<Line(0), Line(0)>>
      [] c.op \in {"D", "M"} -> <<Line(c.amount)>>
      [] c.op = "S" -> <<Line(c.amount), Line(IF c.recv THEN 1 ELSE 0), Line(CdbSize), Line(MaxSense), Line(0)>>
                       \o Bytes(CdbSize, CDB)
                       \o Bytes(IF c.recv THEN 0 ELSE c.amount, DATA)
      [] OTHER -> <<Line(0)>>

Request(c) == <<Letter(c.op)>> \o Arguments(c)

----------------------------------------------------------------------------
(* The client.                                                             *)

\* rscsicmd, rscsiscmd: a write to a lost connection only reports so.
Ask(c) ==
    /\ toServer' = IF Connected THEN toServer \o Request(c) ELSE toServer
    /\ pc' = "wait" /\ call' = c
    /\ UNCHANGED <<link, toClient, server, addr, fd, history>>

MayCall == pc = "idle" /\ lost < MaxLost

\* scg_open, scgo_ropen, rscsiopen
Open(t, name) ==
    /\ pc = "start"
    /\ Ask([Call("O", t, 0) EXCEPT !.name = name])
    /\ UNCHANGED <<isopen, bufbase>>

\* scgo_rclose: isopen is set back whatever the answer is.
Close ==
    /\ MayCall
    /\ IF isopen THEN Ask(Call("C", NoTarget, 0))
                 ELSE /\ pc' = "gone"
                      /\ UNCHANGED <<stream, call, fd, addr, server, history>>
    /\ isopen' = FALSE
    /\ UNCHANGED bufbase

\* scg_settarget, scgo_rfileno: an impossible address is not sent.
SetTarget(t) ==
    /\ MayCall
    /\ IF isopen /\ t # NoTarget
       THEN Ask(Call("T", t, 0))
       ELSE /\ fd' = NoTarget /\ addr' = t
            /\ UNCHANGED <<stream, pc, call, server, history>>
    /\ UNCHANGED <<isopen, bufbase>>

\* scgo_rversion, which keeps each of the three answers,
\* scgo_rmaxdma, scgo_rhavebus, scgo_rinitiator_id, scgo_risatapi, scgo_rreset
Simple(op, n) == /\ MayCall
                 /\ Ask(Call(op, NoTarget, n))
                 /\ UNCHANGED <<isopen, bufbase>>

\* scg_getbuf asks for the size first, see GetbufGoesOn
Getbuf(n) == /\ MayCall /\ n > 0
             /\ Ask([Call("D", NoTarget, n) EXCEPT !.buf = TRUE])
             /\ UNCHANGED <<isopen, bufbase>>

\* scgo_rfreebuf
Freebuf == /\ MayCall
           /\ bufbase' = "given back"
           /\ IF isopen THEN Ask(Call("F", NoTarget, 0))
                        ELSE UNCHANGED <<stream, pc, call, fd, addr, server, history>>
           /\ UNCHANGED isopen

\* scgo_rsend; no program of this repository sends data after it gave its
\* buffer back
Send(n, recv) ==
    /\ MayCall
    /\ n = 0 \/ bufbase # "given back"
    /\ fd # NoTarget
    /\ Ask([Call("S", NoTarget, n) EXCEPT !.recv = recv])
    /\ UNCHANGED <<isopen, bufbase>>

----------------------------------------------------------------------------
(* The client takes an answer.                                             *)

\* What rscsigetstatus and its caller read after the status line s[1].
ErrorText(s) == 2 + (IF Len(s) < 3 THEN 0 ELSE s[3].v)
DataLength(s) == IF call.recv /\ s[1].v > 0 THEN s[1].v ELSE 0
Kept(n) == IF n > MaxSense THEN MaxSense ELSE n
Skipped(n) == n - Kept(n)

\* Mutant: the sense data are left on the stream.
SenseLengthNone(s) == 0

SenseLength(s) == IF Len(s) < 5 \/ s[5].v <= 0 THEN 0 ELSE Kept(s[5].v) + Skipped(s[5].v)
Answered(s) ==
    CASE call.op = "O" -> 4
      [] call.op = "V" -> s[1].v
      [] call.op = "S" -> 4 + SenseLength(s) + DataLength(s)
      [] OTHER -> 0
Wanted(s) == CASE s = <<>> -> 1
               [] s # <<>> /\ s[1].k = "E" -> 1 + ErrorText(s)
               [] s # <<>> /\ s[1].k = "A" -> 1 + Answered(s)
               [] OTHER -> 1

\* What the call returns for a whole answer s.
Values(s) == [i \in 1 .. Len(s) |-> s[i].v]
Result(s) ==
    CASE s[1].k = "E" -> [ret |-> -1, errno |-> s[1].v, extra |-> <<>>]
      [] s[1].k = "A" -> [ret |-> s[1].v, errno |-> 0,
            extra |-> IF call.op = "S"
                      THEN <<s[2].v, Kept(s[5].v)>> \o
                           Values(SubSeq(s, 6 + SenseLength(s), Wanted(s)))
                      ELSE Values(SubSeq(s, 2, Wanted(s)))]
      [] OTHER -> [ret |-> -1, errno |-> EIO, extra |-> <<>>]

Take ==
    /\ pc = "wait" /\ Len(toClient) >= Wanted(toClient)
    /\ pc' = "took" /\ taken' = Result(toClient)
    /\ toClient' = SubSeq(toClient, Wanted(toClient) + 1, Len(toClient))
    /\ UNCHANGED <<link, toServer, call, isopen, fd, addr, bufbase, server,
                   served, answer, exec, late, lost>>

\* The connection ends before the answer does.  rscsigetline() fails, nobody
\* looks at that, and what is read from the line is what the buffer on the
\* stack holds: any status, any numbers.  A status line that has arrived counts.
Junk == IF call.op = "O" THEN {<<t>> : t \in Addresses} ELSE {<<>>}
LostResults ==
    IF toClient = <<>>
    THEN [ret : {-1} \cup 0 .. MaxDma, errno : {EIO, EINVAL}, extra : Junk]
    ELSE LET s == Head(toClient) IN
         [ret : {IF s.k = "A" THEN s.v ELSE -1}, errno : {IF s.k = "E" THEN s.v ELSE EIO}, extra : Junk]

Lose ==
    /\ pc = "wait" /\ ClientEOF /\ Len(toClient) < Wanted(toClient)
    /\ pc' = "took" /\ taken' \in LostResults
    /\ toClient' = <<>>
    /\ late' = (late \/ toServer # <<>>) /\ lost' = lost + 1
    /\ UNCHANGED <<link, toServer, call, isopen, fd, addr, bufbase, server,
                   served, answer, exec>>

----------------------------------------------------------------------------
(* What a call does with what was returned to it.                          *)
Idle == pc' = "idle" /\ call' = NoCall
Gone == pc' = "gone" /\ call' = NoCall
Then(c) == pc' = "next" /\ call' = c

\* scg_open, scg__open, rscsiopen
OpenGoesOn ==
    /\ IF taken.ret < 0
       THEN Gone /\ UNCHANGED <<isopen, addr>>
       ELSE /\ isopen' = TRUE /\ addr' = taken.extra[1]
            /\ IF taken.extra[1] = NoTarget THEN Idle ELSE Then(Call("T", taken.extra[1], 0))
    /\ fd' = NoTarget
    /\ UNCHANGED <<bufbase>>

\* scg_settarget
TargetGoesOn ==
    /\ fd' = IF taken.ret < 0 THEN NoTarget ELSE call.target
    /\ addr' = call.target
    /\ Idle
    /\ UNCHANGED <<isopen, bufbase>>

\* scg_bufsize cuts the amount to what is possible; scg_getbuf wants all of it.
GetbufGoesOn ==
    /\ IF call.amount > taken.ret THEN Idle ELSE Then(Call("M", NoTarget, call.amount))
    /\ UNCHANGED <<isopen, fd, addr, bufbase>>

\* scgo_rgetbuf: if there is no memory the server gives its buffer back.
BufferGoesOn ==
    /\ \/ taken.ret < 0 /\ Idle /\ UNCHANGED bufbase
       \/ taken.ret >= 0 /\ Idle /\ bufbase' = "held"
       \/ /\ taken.ret >= 0 /\ bufbase' = "given back"
          /\ IF isopen THEN Then(Call("F", NoTarget, 0)) ELSE Idle
    /\ UNCHANGED <<isopen, fd, addr>>

\* scg_cmd: the program exits, but for the targets an old driver did not know.
SendGoesOn ==
    /\ IF taken.ret < 0 /\ (addr \notin High \/ taken.errno # EINVAL) THEN Gone ELSE Idle
    /\ UNCHANGED <<isopen, fd, addr, bufbase>>

OthersGoOn ==
    /\ IF call.op = "C" THEN Gone ELSE Idle
    /\ UNCHANGED <<isopen, fd, addr, bufbase>>

GoesOn ==
    /\ pc = "took"
    /\ CASE call.op = "O" -> OpenGoesOn
         [] call.op = "T" -> TargetGoesOn
         [] call.op = "D" /\ call.buf -> GetbufGoesOn
         [] call.op = "M" -> BufferGoesOn
         [] call.op = "S" -> SendGoesOn
         [] OTHER -> OthersGoOn
    /\ served' = FALSE /\ answer' = Nothing /\ taken' = Nothing /\ exec' = NotExecuted
    /\ UNCHANGED <<stream, server, late, lost>>

\* A call that makes several requests sends the next one.
Continue == pc = "next" /\ Ask(call) /\ UNCHANGED <<isopen, bufbase>>

----------------------------------------------------------------------------
(* The server: one action for each letter.                                 *)

Arg(i) == toServer[1 + i].v
HasArgs == /\ srv = "run"
           /\ toServer # <<>> /\ Head(toServer).k = "letter"
           /\ Len(toServer) > Args(Head(toServer).v)
           /\ \A i \in 1 .. Args(Head(toServer).v) : toServer[1 + i].k = "line"
Request_(op) == HasArgs /\ Head(toServer).v = op

\* The answers: rscsireply, rscsierror and what handlers write themselves.
Answer(s, r) ==
    /\ toClient' = IF ServerEOF THEN toClient ELSE toClient \o s
    /\ IF late THEN late' = FALSE /\ UNCHANGED <<served, answer>>
               ELSE served' = TRUE /\ answer' = r /\ UNCHANGED late
    /\ UNCHANGED <<link, client, taken, lost>>
Reply(n, more) ==
    Answer(<<[k |-> "A", v |-> n]>> \o more, [ret |-> n, errno |-> 0, extra |-> Values(more)])
ErrorReply(e, text) ==
    Answer(<<[k |-> "E", v |-> e], Line(0), Line(text)>> \o Bytes(text, TEXT),
           [ret |-> -1, errno |-> e, extra |-> <<>>])
Respond(n, e) == IF n < 0 THEN ErrorReply(e, 0) ELSE Reply(n, <<>>)

\* The server ends, and with it everything it had.
Exit(how) ==
    /\ srv' = how
    /\ scsi' = FALSE /\ target' = NoTarget /\ sbuf' = FALSE /\ sbufsize' = 0
    /\ UNCHANGED <<link, toClient, client, history>>

Read(n) == toServer' = SubSeq(toServer, n + 1, Len(toServer))
ReadArgs == Read(1 + Args(Head(toServer).v))
\* rscsirespond(-1, EBADF) if no drive is open
IfOpen(A, keep) == IF scsi THEN A ELSE ErrorReply(EBADF, 0) /\ keep

scsiversion ==
    /\ Request_("V") /\ ReadArgs
    /\ IfOpen(\E n \in 1 .. 2 : Reply(n, Bytes(n, TEXT)), TRUE)
    /\ UNCHANGED <<server, exec>>

\* A handle that is open is closed first.  A name that leads to yet another
\* machine sets scsi_ptr to NULL and falls through to the answer.
OpenOk(c) ==
    /\ scsi' = TRUE /\ target' = c.v
    /\ Reply(0, <<Line(c.v), Line(0), Line(c.v), Line(c.v)>>)
OpenFails ==
    /\ scsi' = FALSE /\ target' = NoTarget
    /\ \E text \in 1 .. 2 : ErrorReply(ENXIO, text)
openscsi ==
    /\ Request_("O") /\ ReadArgs
    /\ IF toServer[2].name = "REMOTE"
       THEN Exit("crashed")
       ELSE /\ OpenOk(toServer[2]) \/ OpenFails
            /\ UNCHANGED <<srv, sbuf, sbufsize, exec>>

\* scg_close of no handle reads through a null pointer.
closescsi ==
    /\ Request_("C") /\ ReadArgs
    /\ IF scsi
       THEN /\ Reply(0, <<>>) /\ scsi' = FALSE /\ target' = NoTarget
            /\ UNCHANGED <<srv, sbuf, sbufsize, exec>>
       ELSE Exit("crashed")

\* scg_bufsize of libscg
Bufsize(n) == IF n <= 0 \/ n > MaxDma THEN MaxDma ELSE n

maxdma ==
    /\ Request_("D") /\ ReadArgs
    /\ IfOpen(Reply(Bufsize(Arg(1)), <<>>), TRUE)
    /\ UNCHANGED <<server, exec>>

\* preparebuffer
PrepareOk == sbuf' = TRUE /\ sbufsize' = Bufsize(Arg(1))

PrepareFails == sbuf' = FALSE /\ sbufsize' = 0

getbuf ==
    /\ Request_("M") /\ ReadArgs
    /\ IfOpen(\/ PrepareOk /\ Reply(Bufsize(Arg(1)), <<>>)
              \/ PrepareFails /\ Respond(-1, ENOMEM),
              UNCHANGED <<sbuf, sbufsize>>)
    /\ UNCHANGED <<srv, scsi, target, exec>>

\* Sbufsize keeps its value
freebuf ==
    /\ Request_("F") /\ ReadArgs
    /\ IfOpen(sbuf' = FALSE /\ Reply(0, <<>>), UNCHANGED sbuf)
    /\ UNCHANGED <<srv, scsi, target, sbufsize, exec>>

\* havebus, initiator_id, isatapi, scsireset: what the transport says
Ask_(op) ==
    /\ Request_(op) /\ ReadArgs
    /\ IfOpen(\E n \in {-1, 1} : Respond(n, EIO), TRUE)
    /\ UNCHANGED <<server, exec>>
havebus == Ask_("B")
initiator_id == Ask_("I")
isatapi == Ask_("A")
scsireset == Ask_("R")

\* scsifileno with checktarget: the target is set first and set back if access
\* is denied; errno tells whether -1 is an error or a reply.
scsifileno ==
    /\ Request_("T") /\ ReadArgs
    /\ IfOpen(\/ Arg(1) \in Allowed /\ target' = Arg(1) /\ Reply(1, <<>>)
              \/ /\ target' = NoTarget   \* also if there is no such drive
                 /\ Respond(-1, EIO) \/ Reply(-1, <<>>),
              UNCHANGED target)
    /\ UNCHANGED <<srv, scsi, sbuf, sbufsize, exec>>

----------------------------------------------------------------------------
(* sendcmd                                                                 *)
csize == Arg(1)
Recv == Arg(2) = 1

\* Mutant: data are expected with every command.
PayloadAlwaysData == Arg(3) + csize

Payload == Arg(3) + (IF ~Recv /\ csize > 0 THEN csize ELSE 0)

\* Mutant: only the command block is skipped.
VoidedCommandOnly == Arg(3)

\* voidarg: what is skipped when the command is refused
Voided == Payload
Refused == ~scsi \/ csize > sbufsize

\* Mutant: a command is carried out with what has arrived.
HasPayloadPartly(n) == Len(toServer) >= 6

HasPayload(n) == Len(toServer) >= 6 + n

\* The drive's answer: bytes moved, error, sense bytes, or the transport fails
\* and scg_cmd() ends the server.  Without a file number nothing is sent.
Outcomes == IF target = NoTarget THEN {[n |-> csize, error |-> 2, sense |-> 0]}
            ELSE [n : {0, csize}, error : {0, 1}, sense : {0, MaxSense}]

Executed == [target |-> target, size |-> csize, bytes |-> Values(SubSeq(toServer, 7, Len(toServer)))]
Meant(size, recv) ==
    [target |-> Head(toServer).on, size |-> size,
     bytes |-> Values(Bytes(CdbSize, CDB) \o Bytes(IF recv THEN 0 ELSE size, DATA))]

Refuse ==
    /\ Request_("S") /\ Refused /\ HasPayload(Voided)
    /\ Read(6 + Voided)
    /\ ErrorReply(IF scsi THEN EINVAL ELSE EBADF, 0)
    /\ UNCHANGED <<server, exec>>

Overrun == csize > 0 /\ ~sbuf

CommandAnswer(o) ==
    LET data == Bytes(IF Recv THEN o.n ELSE 0, DATA) IN
    Answer(<<[k |-> "A", v |-> o.n], Line(o.error), Line(0), Line(0), Line(o.sense)>>
             \o Bytes(o.sense, SENSE) \o data,
           [ret |-> o.n, errno |-> 0, extra |-> <<o.error, o.sense>> \o Values(data)])

Execute ==
    /\ Request_("S") /\ ~Refused /\ HasPayload(Payload) /\ ~Overrun
    /\ Read(6 + Payload)
    /\ \E o \in Outcomes : CommandAnswer(o)
    /\ exec' = IF target = NoTarget \/ late THEN exec
               ELSE [got |-> Executed, meant |-> Meant(csize, Recv)]
    /\ UNCHANGED server

\* The transport fails, or the data go through a null pointer.
ExecuteFails ==
    /\ Request_("S") /\ ~Refused /\ HasPayload(Payload)
    /\ Read(6 + Payload)
    /\ Overrun \/ target # NoTarget
    /\ Exit(IF Overrun THEN "crashed" ELSE "comerr")

\* dorscsi, readarg, readbuf: the input ends, at the end of a request or within
\* it, or it goes on with what is no request ("Garbage command").
MissingPayload == Request_("S") /\ ~HasPayload(IF Refused THEN Voided ELSE Payload)
MissingArgs == ~HasArgs /\ \A i \in 1 .. Len(toServer) :
                               toServer[i].k \in IF i = 1 THEN {"letter"} ELSE {"line", "part"}
Garbage == ~HasArgs /\ ~MissingArgs
EndOfInput ==
    /\ srv = "run"
    /\ Garbage \/ (ServerEOF /\ (MissingArgs \/ MissingPayload))
    /\ toServer' = <<>>
    /\ Exit(IF Garbage THEN "garbage" ELSE IF MissingPayload THEN "bad" ELSE "done")

----------------------------------------------------------------------------
\* The connection is lost; of what is on it a part still arrives.
Break ==
    /\ link = "up" /\ pc # "gone"
    /\ link' = "cut"
    /\ \E n \in 0 .. Len(toServer) : toServer' = SubSeq(toServer, 1, n)
    /\ \E n \in 0 .. Len(toClient) : toClient' = SubSeq(toClient, 1, n)
    /\ UNCHANGED <<client, server, history>>

Init ==
    /\ link = "up" /\ toServer = <<>> /\ toClient = <<>>
    /\ pc = "start" /\ call = NoCall
    /\ isopen = FALSE /\ fd = NoTarget /\ addr = NoTarget /\ bufbase = "none"
    /\ srv = "run" /\ scsi = FALSE /\ target = NoTarget /\ sbuf = FALSE /\ sbufsize = 0
    /\ served = FALSE /\ late = FALSE /\ lost = 0
    /\ answer = Nothing /\ taken = Nothing /\ exec = NotExecuted

Program ==
    \/ \E t \in Addresses, name \in Names : Open(t, name)
    \/ Close \/ Freebuf
    \/ \E t \in Addresses : SetTarget(t)
    \/ \E op \in {"V", "B", "I", "A", "R"} : Simple(op, 0)
    \/ \E n \in Amounts : Simple("D", n) \/ Getbuf(n) \/ Send(n, TRUE) \/ Send(n, FALSE)

Client == Take \/ Lose \/ GoesOn \/ Continue

Server == \/ scsiversion \/ openscsi \/ closescsi \/ maxdma \/ getbuf \/ freebuf
          \/ havebus \/ scsifileno \/ initiator_id \/ isatapi \/ scsireset
          \/ Refuse \/ Execute \/ ExecuteFails \/ EndOfInput

Next == Program \/ Client \/ Server \/ Break

Spec == Init /\ [][Next]_vars
FairSpec == Spec /\ WF_vars(Client) /\ WF_vars(Server)

----------------------------------------------------------------------------
(* Properties.                                                             *)

\* Every variable holds what its declaration in the code allows.
TypeOK ==
    /\ link \in {"up", "cut"} /\ pc \in {"start", "idle", "wait", "took", "next", "gone"}
    /\ bufbase \in {"none", "held", "given back"}
    /\ srv \in {"run", "done", "bad", "garbage", "crashed", "comerr"}
    /\ {isopen, scsi, sbuf, served, late} \subseteq BOOLEAN
    /\ {fd, addr, target} \subseteq Addresses
    /\ sbufsize \in 0 .. MaxDma /\ lost \in Nat

\* Client and server never lose the place in the stream: between two calls it
\* is empty in both directions, whatever the calls before were, also refused
\* ones (rscsi.c:759, scsi-remote.c:797); the server sees no garbage.
InStep == /\ pc \in {"idle", "next"} /\ Connected => toServer = <<>> /\ toClient = <<>>
          /\ srv # "garbage"

\* A command reaches the drive that the program has selected, with all its
\* bytes and no others, and not at all if the connection ends within it
\* (rscsi.c:707, readbuf).
ExecutedAsMeant == exec.got = exec.meant

\* Between two calls the program and the server have the same drive selected,
\* or the program knows that it has none (scsi-remote.c:391, rscsi.c:624).
TargetsAgree == pc = "idle" /\ Connected /\ fd # NoTarget => scsi /\ target = fd /\ addr = fd

\* Client and server wait for each other only after an open with a device name
\* that is longer than a line of the protocol (scsi-remote.c:589).
HangsOnlyOnLongName ==
    pc = "wait" /\ Connected /\ toClient = <<>> /\ (MissingArgs \/ MissingPayload)
        => call.name = "cut"

\* The server follows a null pointer only for a device of a third machine
\* (rscsi.c:497).
CrashOnlyOnRemoteName ==
    [][srv' = "crashed" /\ srv # "crashed" => Request_("O") /\ toServer[2].name = "REMOTE"]_vars

\* The protocol as a whole: variables, the place in the stream, the selected
\* drive, and the two ways to lose the server, of which there are no others.
ProtocolKept ==
    [](TypeOK /\ InStep /\ TargetsAgree /\ HangsOnlyOnLongName) /\ CrashOnlyOnRemoteName

\* Every call returns, also if the connection is lost meanwhile.
CallsReturn == (pc = "wait" /\ call.name # "cut") ~> (pc = "took")

\* Remote SCSI is a remote call.
Phase == CASE pc = "wait" -> "asked" [] pc = "took" -> "returned" [] OTHER -> "none"
IsRemoteCall == INSTANCE RemoteCall WITH phase <- Phase, broken <- ClientEOF
ImplementsCall == IsRemoteCall!Spec
==============================================================================
