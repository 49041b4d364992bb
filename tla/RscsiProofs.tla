----------------------------- MODULE RscsiProofs -----------------------------
(***************************************************************************)
(* Proofs about remote SCSI, for any set of drives, any size of a command  *)
(* and of its data, any sequence of calls and a connection that is lost    *)
(* anywhere.                                                               *)
(***************************************************************************)
EXTENDS Rscsi, SequenceTheorems, TLAPS

\* What goes over the stream.
Item ==
    [k : {"letter"}, v : Ops, on : Addresses]
        \cup [k : {"line", "part", "byte", "A", "E"}, v : Int \cup Addresses]
        \cup [k : {"line"}, v : Addresses, name : Names \cup {"plain"}]

Calls ==
    {c \in [op : Ops, target : Addresses, amount : Amounts \cup {0}, recv : BOOLEAN,
            name : Names \cup {"plain"}, buf : BOOLEAN] : c.name # "plain" => c.op = "O"}

\* The bytes that follow the lines of a request.
DataBytes(c) == IF c.op = "S" THEN CdbSize + (IF c.recv THEN 0 ELSE c.amount) ELSE 0

\* The request that is made for the call c while drive a is selected.
Full(c, a) == <<[k |-> "letter", v |-> c.op, on |-> a]>> \o Arguments(c)

Prefix(p, s) == Len(p) <= Len(s) /\ \A i \in 1 .. Len(p) : p[i] = s[i]

\* An answer that the client takes as a whole, for what the server means by it.
Whole(s) == s # <<>> /\ s[1].v \in Int /\ Wanted(s) = Len(s) /\ Result(s) = answer

Types ==
    /\ TypeOK
    /\ toServer \in Seq(Item) /\ toClient \in Seq(Item)
    /\ call \in Calls \/ call = NoCall
    /\ pc \in {"wait", "took", "next"} => call \in Calls

\* What is on its way to the server: one request, or the beginning of one.
Pending(c, a) ==
    /\ Prefix(toServer, Full(c, a))
    /\ ~late => pc = "wait" /\ ~served /\ c = call /\ a = addr
    /\ Connected => Len(toServer) = Len(Full(c, a))
    /\ c.op = "C" => scsi
    /\ c.op = "S" /\ c.amount > 0 => sbuf \/ sbufsize = 0
    /\ c.op = "S" /\ ~late => target = a

OneRequest == toServer # <<>> => \E c \in Calls, a \in Addresses : Pending(c, a)

\* What is on its way to the client: its answer, or the beginning of it.
OneAnswer ==
    /\ pc # "wait" \/ ~served => toClient = <<>>
    /\ toClient # <<>> =>
          \E s \in Seq(Item) : Whole(s) /\ Prefix(toClient, s) /\ (Connected => toClient = s)

\* Whose turn it is, while the connection holds.
Turns ==
    Connected =>
        /\ ~late
        /\ pc # "wait" => toServer = <<>>
        /\ pc = "wait" /\ ~served => toServer # <<>>
        /\ pc = "wait" /\ served => toServer = <<>> /\ toClient # <<>>
        /\ pc = "took" => served /\ taken = answer

\* What a connection that was lost leaves behind.
Lost ==
    /\ late => link = "cut"
    /\ srv # "run" => toServer = <<>>
    /\ srv # "garbage"

History ==
    /\ pc \notin {"wait", "took"} => ~served /\ answer = Nothing /\ taken = Nothing
    /\ pc = "wait" => taken = Nothing
    /\ ~served => answer = Nothing

\* What the program knows itself, also if the connection is lost.
Known ==
    /\ pc = "start" => fd = NoTarget /\ ~isopen
    /\ call.op = "O" => fd = NoTarget /\ ~isopen
    /\ call.op = "C" => ~isopen
    /\ call.op = "F" => bufbase = "given back"
    /\ answer.ret \in Int /\ taken.ret \in Int
    /\ call.op = "O" /\ served /\ answer.ret >= 0 => answer.extra[1] \in Addresses
    /\ call.op = "O" /\ pc = "took" /\ taken.ret >= 0 => taken.extra[1] \in Addresses

\* What the program and the server both know, while the connection holds.
Agreed ==
    Connected =>
        /\ isopen => scsi
        /\ sbuf \/ sbufsize = 0 \/ bufbase = "given back"
        /\ fd # NoTarget /\ ~(served /\ call.op \in {"T", "C"}) => scsi /\ target = fd /\ addr = fd
        /\ served /\ call.op = "O" /\ answer.ret >= 0 => scsi
        /\ served /\ call.op = "T" /\ answer.ret >= 0 => scsi /\ target = call.target
        /\ served /\ call.op = "M" /\ answer.ret >= 0 => sbuf
        /\ pc = "next" => call.op \in {"T", "M", "F"} /\ (call.op = "T" => fd = NoTarget)

IndInv ==
    /\ Types /\ OneRequest /\ OneAnswer /\ Turns
    /\ Lost /\ History /\ Known /\ Agreed /\ ExecutedAsMeant

-----------------------------------------------------------------------------
(* Sequences.                                                              *)

\* What is behind the first of two sequences is the second.
LEMMA Behind ==
    ASSUME NEW S, NEW x \in Seq(S), NEW y \in Seq(S)
    PROVE  SubSeq(x \o y, Len(x) + 1, Len(x \o y)) = y
<1> DEFINE z == x \o y
           w == SubSeq(z, Len(x) + 1, Len(z))
<1>1. /\ z \in Seq(S) /\ Len(z) = Len(x) + Len(y) /\ Len(x) \in Nat /\ Len(y) \in Nat
      /\ \A i \in 1 .. Len(x) + Len(y) : z[i] = IF i <= Len(x) THEN x[i] ELSE y[i - Len(x)]
  BY ConcatProperties, LenProperties
<1> HIDE DEF z
<1>2. /\ w \in Seq(S) /\ Len(w) = Len(y)
      /\ \A i \in 1 .. Len(y) : w[i] = z[Len(x) + 1 + i - 1]
  <2>1. Len(x) + 1 \in 1 .. Len(z) + 1 /\ Len(z) \in Len(x) + 1 - 1 .. Len(z)
    BY <1>1
  <2> QED
    BY <1>1, <2>1, SubSeqProperties
<1> HIDE DEF w
<1>3. \A i \in 1 .. Len(y) : w[i] = y[i]
  <2> SUFFICES ASSUME NEW i \in 1 .. Len(y)
               PROVE  w[i] = y[i]
    OBVIOUS
  <2> DEFINE j == Len(x) + i
  <2>1. j \in 1 .. Len(x) + Len(y) /\ ~(j <= Len(x)) /\ j - Len(x) = i /\ Len(x) + 1 + i - 1 = j
    BY <1>1
  <2>2. w[i] = z[j]
    BY <1>2, <2>1
  <2> HIDE DEF j
  <2>3. z[j] = y[j - Len(x)]
    BY <1>1, <2>1
  <2> QED
    BY <2>1, <2>2, <2>3
<1>4. w = y
  BY <1>2, <1>3, SeqEqual
<1> QED
  BY <1>4 DEF w, z

\* Two sequences in a row.
LEMMA Joined ==
    ASSUME NEW S, NEW x \in Seq(S), NEW y \in Seq(S), NEW m, NEW n, Len(x) = m, Len(y) = n
    PROVE  /\ x \o y \in Seq(S) /\ Len(x \o y) = m + n
           /\ \A i \in 1 .. m + n : (x \o y)[i] = IF i <= m THEN x[i] ELSE y[i - m]
<1>1. /\ x \o y \in Seq(S) /\ Len(x \o y) = Len(x) + Len(y)
      /\ \A i \in 1 .. Len(x) + Len(y) : (x \o y)[i] = IF i <= Len(x) THEN x[i] ELSE y[i - Len(x)]
  BY ConcatProperties
<1> QED
  BY <1>1

\* Nothing is left behind the end.
LEMMA NothingLeft ==
    ASSUME NEW S, NEW s \in Seq(S)
    PROVE  SubSeq(s, Len(s) + 1, Len(s)) = <<>>
<1>1. Len(s) \in Nat
  BY LenProperties
<1>2. SubSeq(s, Len(s) + 1, Len(s)) \in Seq(S) /\ Len(SubSeq(s, Len(s) + 1, Len(s))) = 0
  BY <1>1, SubSeqProperties
<1> QED
  BY <1>2, EmptySeq

LEMMA PrefixOfItself ==
    ASSUME NEW S, NEW s \in Seq(S)
    PROVE  Prefix(s, s)
<1>1. \A n \in Nat : n <= n
  OBVIOUS
<1>2. Len(s) \in Nat
  BY LenProperties
<1>3. Len(s) <= Len(s)
  BY <1>1, <1>2
<1> QED
  BY <1>3 DEF Prefix

LEMMA BytesIs ==
    ASSUME NEW n \in Nat, NEW what \in Int
    PROVE  /\ Bytes(n, what) \in Seq(Item) /\ Len(Bytes(n, what)) = n
           /\ \A i \in 1 .. n : Bytes(n, what)[i] = [k |-> "byte", v |-> what]
<1> DEFINE b == [k |-> "byte", v |-> what]
           f == [i \in 1 .. n |-> b]
<1>1. b \in Item
  BY DEF Item
<1> HIDE DEF b
<1>2. f \in [1 .. n -> Item]
  BY <1>1
<1>3. \A i \in 1 .. n : f[i] = b
  OBVIOUS
<1> HIDE DEF f
<1>4. f \in Seq(Item)
  BY <1>2, SeqDef
<1>5. Len(f) = n
  BY <1>2, <1>4, LenProperties
<1>6. Bytes(n, what) = f
  BY DEF Bytes, f, b
<1> QED
  BY <1>3, <1>4, <1>5, <1>6 DEF b

-----------------------------------------------------------------------------
(* Requests.                                                               *)

\* The constants.
LEMMA Constants ==
    /\ MaxDma \in Nat /\ MaxDma >= 1 /\ CdbSize \in Nat /\ CdbSize >= 1 /\ MaxSense \in Nat /\ MaxLost \in Nat
    /\ Amounts \subseteq Nat /\ NoTarget \in Addresses /\ Targets \subseteq Addresses
    /\ NoTarget \notin Allowed /\ Allowed \subseteq Addresses
BY TargetAssumption, SizeAssumption DEF Addresses

LEMMA CallsAre ==
    ASSUME NEW c \in Calls
    PROVE  /\ c.op \in Ops /\ c.target \in Addresses /\ c.amount \in Nat /\ c.recv \in BOOLEAN
           /\ c.name \in Names \cup {"plain"} /\ c.buf \in BOOLEAN
           /\ c.name # "plain" => c.op = "O"
           /\ DataBytes(c) \in Nat
<1>1. /\ c \in [op : Ops, target : Addresses, amount : Amounts \cup {0}, recv : BOOLEAN,
                name : Names \cup {"plain"}, buf : BOOLEAN]
      /\ c.name # "plain" => c.op = "O"
  BY DEF Calls
<1>2. /\ c.op \in Ops /\ c.target \in Addresses /\ c.amount \in Amounts \cup {0} /\ c.recv \in BOOLEAN
      /\ c.name \in Names \cup {"plain"} /\ c.buf \in BOOLEAN
  BY <1>1
<1>3. c.amount \in Nat
  <2>1. c.amount \in Amounts \/ c.amount = 0
    BY <1>2
  <2>2. \A n \in Amounts : n \in Nat
    BY Constants
  <2>3. CASE c.amount = 0
    BY <2>3
  <2> QED
    BY <2>1, <2>2, <2>3, Zenon
<1>4. DataBytes(c) \in Nat
  BY <1>3, Constants DEF DataBytes
<1> QED
  BY <1>1, <1>2, <1>3, <1>4

\* What the lines of a request are, and how long it is.
LEMMA ArgumentsIs ==
    ASSUME NEW c \in Calls
    PROVE  /\ Arguments(c) \in Seq(Item)
           /\ Len(Arguments(c)) = Args(c.op) + DataBytes(c) /\ Args(c.op) \in 1 .. 5
           /\ \A i \in 1 .. Args(c.op) :
                 Arguments(c)[i].k = "line"
                    \/ (c.op = "O" /\ c.name = "cut" /\ Arguments(c)[i].k = "part")
           /\ c.op = "O" /\ c.name # "cut" => Arguments(c)[1] = Device(c)
           /\ c.op = "O" /\ c.name = "cut" => Arguments(c)[1].k = "part"
           /\ c.op = "T" => Arguments(c)[1].v = c.target
           /\ c.op \in {"D", "M", "S"} => Arguments(c)[1].v = c.amount
           /\ c.op = "S" => /\ Arguments(c)[2].v = IF c.recv THEN 1 ELSE 0
                            /\ Arguments(c)[3].v = CdbSize
           /\ c.op = "S" => \A i \in 1 .. DataBytes(c) :
                               Arguments(c)[5 + i].v = IF i <= CdbSize THEN CDB ELSE DATA
<1>1. /\ c.op \in Ops /\ c.target \in Addresses /\ c.amount \in Nat /\ c.recv \in BOOLEAN
      /\ c.name \in Names \cup {"plain"}
  BY CallsAre
<1>2. ASSUME NEW v \in Int \cup Addresses
      PROVE  Line(v) \in Item /\ Line(v).k = "line" /\ Line(v).v = v
  BY DEF Line, Item
<1>3. Device(c) \in Item /\ Device(c).k = "line"
  BY <1>1 DEF Device, Item
<1>4. [k |-> "part", v |-> 0] \in Item
  BY DEF Item
<1>5. CASE c.op = "O"
  <2>1. CASE c.name = "cut"
    <3>1. Arguments(c) = <<[k |-> "part", v |-> 0]>>
      BY <1>5, <2>1 DEF Arguments
    <3> QED
      BY <1>4, <1>5, <2>1, <3>1 DEF Args, DataBytes
  <2>2. CASE c.name # "cut"
    <3>1. Arguments(c) = <<Device(c)>>
      BY <1>5, <2>2 DEF Arguments
    <3> QED
      BY <1>3, <1>5, <2>2, <3>1 DEF Args, DataBytes
  <2> QED
    BY <2>1, <2>2
<1>6. CASE c.op = "T"
  <2>1. Arguments(c) = <<Line(c.target), Line(0), Line(c.target), Line(c.target)>>
    BY <1>6 DEF Arguments
  <2>2. Line(c.target) \in Item /\ Line(c.target).k = "line" /\ Line(c.target).v = c.target
    <3>1. c.target \in Int \cup Addresses
      BY <1>1
    <3> QED
      BY <1>2, <3>1
  <2>3. Line(0) \in Item /\ Line(0).k = "line"
    BY <1>2
  <2> DEFINE a == Line(c.target)
             z == Line(0)
  <2>4. /\ a \in Item /\ a.k = "line" /\ a.v = c.target /\ z \in Item /\ z.k = "line"
        /\ Arguments(c) = <<a, z, a, a>>
    BY <2>1, <2>2, <2>3
  <2> HIDE DEF a, z
  <2> QED
    BY <1>6, <2>4 DEF Args, DataBytes
<1>7. CASE c.op = "B"
  <2>1. Arguments(c) = <<Line(0), Line(0)>>
    BY <1>7 DEF Arguments
  <2> QED
    BY <1>2, <1>7, <2>1 DEF Args, DataBytes
<1>8. CASE c.op \in {"D", "M"}
  <2>1. Arguments(c) = <<Line(c.amount)>>
    BY <1>8 DEF Arguments
  <2> QED
    BY <1>1, <1>2, <1>8, <2>1 DEF Args, DataBytes
<1>9. CASE c.op = "S"
  <2> DEFINE r == IF c.recv THEN 1 ELSE 0
             n == IF c.recv THEN 0 ELSE c.amount
             head == <<Line(c.amount), Line(r), Line(CdbSize), Line(MaxSense), Line(0)>>
             cdb == Bytes(CdbSize, CDB)
             d == Bytes(n, DATA)
  <2>1. Arguments(c) = head \o cdb \o d
    BY <1>9 DEF Arguments
  <2>2. n \in Nat /\ r \in Int /\ CdbSize \in Nat /\ MaxSense \in Nat /\ DataBytes(c) = CdbSize + n
    BY <1>1, <1>9, Constants DEF DataBytes
  <2> HIDE DEF r, n
  <2>3. /\ head \in Seq(Item) /\ Len(head) = 5
        /\ \A i \in 1 .. 5 : head[i].k = "line"
        /\ head[1].v = c.amount /\ head[2].v = r /\ head[3].v = CdbSize
    <3>1. /\ Line(c.amount) \in Item /\ Line(r) \in Item /\ Line(CdbSize) \in Item
          /\ Line(MaxSense) \in Item /\ Line(0) \in Item
      BY <1>1, <1>2, <2>2
    <3>2. /\ Line(c.amount).k = "line" /\ Line(r).k = "line" /\ Line(CdbSize).k = "line"
          /\ Line(MaxSense).k = "line" /\ Line(0).k = "line"
          /\ Line(c.amount).v = c.amount /\ Line(r).v = r /\ Line(CdbSize).v = CdbSize
      BY <1>1, <1>2, <2>2
    <3> QED
      BY <3>1, <3>2
  <2>4. /\ cdb \in Seq(Item) /\ Len(cdb) = CdbSize /\ \A i \in 1 .. CdbSize : cdb[i].v = CDB
        /\ d \in Seq(Item) /\ Len(d) = n /\ \A i \in 1 .. n : d[i].v = DATA
    <3>1. CDB \in Int /\ DATA \in Int
      BY DEF CDB, DATA
    <3>2. /\ cdb \in Seq(Item) /\ Len(cdb) = CdbSize
          /\ \A i \in 1 .. CdbSize : cdb[i] = [k |-> "byte", v |-> CDB]
      BY <2>2, <3>1, BytesIs
    <3>3. /\ d \in Seq(Item) /\ Len(d) = n
          /\ \A i \in 1 .. n : d[i] = [k |-> "byte", v |-> DATA]
      BY <2>2, <3>1, BytesIs
    <3> HIDE DEF cdb, d
    <3> QED
      BY <3>2, <3>3
  <2> HIDE DEF head, cdb, d
  <2>5. /\ head \o cdb \in Seq(Item) /\ Len(head \o cdb) = 5 + CdbSize
        /\ \A i \in 1 .. 5 + CdbSize : (head \o cdb)[i] = IF i <= 5 THEN head[i] ELSE cdb[i - 5]
    <3> DEFINE five == 5
    <3>1. head \in Seq(Item) /\ cdb \in Seq(Item) /\ Len(head) = five /\ Len(cdb) = CdbSize
      BY <2>3, <2>4
    <3> HIDE DEF five
    <3>2. /\ head \o cdb \in Seq(Item) /\ Len(head \o cdb) = five + CdbSize
          /\ \A i \in 1 .. five + CdbSize : (head \o cdb)[i] = IF i <= five THEN head[i] ELSE cdb[i - five]
      BY <3>1, Joined
    <3> QED
      BY <3>2 DEF five
  <2> DEFINE front == head \o cdb
  <2> HIDE DEF front
  <2>6. /\ front \o d \in Seq(Item) /\ Len(front \o d) = 5 + CdbSize + n
        /\ \A i \in 1 .. 5 + CdbSize + n :
              (front \o d)[i] = IF i <= 5 + CdbSize THEN front[i] ELSE d[i - (5 + CdbSize)]
    <3>1. front \in Seq(Item) /\ d \in Seq(Item) /\ Len(front) = 5 + CdbSize /\ Len(d) = n
      BY <2>4, <2>5 DEF front
    <3> QED
      BY <3>1, Joined
  <2> DEFINE all == front \o d
  <2>7. Arguments(c) = all
    BY <2>1 DEF front
  <2> HIDE DEF all
  <2>8. /\ all \in Seq(Item) /\ Len(all) = 5 + CdbSize + n
        /\ \A i \in 1 .. 5 : all[i] = head[i]
        /\ \A i \in 1 .. CdbSize : all[5 + i] = cdb[i]
        /\ \A i \in CdbSize + 1 .. CdbSize + n : all[5 + i] = d[i - CdbSize]
    <3>1. all \in Seq(Item) /\ Len(all) = 5 + CdbSize + n
      BY <2>6 DEF all
    <3>2. \A i \in 1 .. 5 : all[i] = head[i]
      BY <2>2, <2>5, <2>6 DEF all, front
    <3>3. ASSUME NEW i \in 1 .. CdbSize
          PROVE  all[5 + i] = cdb[i]
      <4> DEFINE j == 5 + i
      <4>1. j \in 1 .. 5 + CdbSize + n /\ j <= 5 + CdbSize /\ ~(j <= 5) /\ j - 5 = i /\ j \in 1 .. 5 + CdbSize
        BY <2>2
      <4> HIDE DEF j
      <4>2. all[j] = front[j] /\ front[j] = cdb[j - 5]
        BY <2>5, <2>6, <4>1 DEF all, front
      <4> QED
        BY <4>1, <4>2 DEF j
    <3>4. ASSUME NEW i \in CdbSize + 1 .. CdbSize + n
          PROVE  all[5 + i] = d[i - CdbSize]
      <4> DEFINE j == 5 + i
      <4>1. j \in 1 .. 5 + CdbSize + n /\ ~(j <= 5 + CdbSize) /\ j - (5 + CdbSize) = i - CdbSize
        BY <2>2
      <4> HIDE DEF j
      <4>2. all[j] = d[j - (5 + CdbSize)]
        BY <2>6, <4>1 DEF all
      <4> QED
        BY <4>1, <4>2 DEF j
    <3> QED
      BY <3>1, <3>2, <3>3, <3>4
  <2>9. \A i \in 1 .. CdbSize + n : all[5 + i].v = IF i <= CdbSize THEN CDB ELSE DATA
    <3>1. \A i \in 1 .. CdbSize : all[5 + i].v = CDB
      BY <2>4, <2>8
    <3>2. \A i \in CdbSize + 1 .. CdbSize + n : i - CdbSize \in 1 .. n
      BY <2>2
    <3>3. ASSUME NEW i \in CdbSize + 1 .. CdbSize + n
          PROVE  all[5 + i].v = DATA
      <4>1. i - CdbSize \in 1 .. n
        BY <3>2
      <4>2. d[i - CdbSize].v = DATA
        BY <2>4, <4>1
      <4>3. all[5 + i] = d[i - CdbSize]
        BY <2>8
      <4> QED
        BY <4>2, <4>3
    <3> SUFFICES ASSUME NEW i \in 1 .. CdbSize + n
                 PROVE  all[5 + i].v = IF i <= CdbSize THEN CDB ELSE DATA
      OBVIOUS
    <3>4. CASE i <= CdbSize
      <4>1. i \in 1 .. CdbSize
        BY <2>2, <3>4
      <4> QED
        BY <3>1, <3>4, <4>1
    <3>5. CASE ~(i <= CdbSize)
      <4>1. i \in CdbSize + 1 .. CdbSize + n
        BY <2>2, <3>5
      <4> QED
        BY <3>3, <3>5, <4>1
    <3> QED
      BY <3>4, <3>5
  <2>10. Args(c.op) = 5
    BY <1>9 DEF Args
  <2>11. \A i \in 1 .. 5 : Arguments(c)[i].k = "line"
    BY <2>3, <2>7, <2>8
  <2>12. Arguments(c)[1].v = c.amount /\ Arguments(c)[2].v = r /\ Arguments(c)[3].v = CdbSize
    BY <2>3, <2>7, <2>8
  <2>13. Arguments(c) \in Seq(Item) /\ Len(Arguments(c)) = Args(c.op) + DataBytes(c) /\ Args(c.op) \in 1 .. 5
    BY <2>2, <2>7, <2>8, <2>10
  <2>14. \A i \in 1 .. DataBytes(c) : Arguments(c)[5 + i].v = IF i <= CdbSize THEN CDB ELSE DATA
    BY <2>2, <2>7, <2>9
  <2> QED
    BY <1>9, <2>10, <2>11, <2>12, <2>13, <2>14 DEF r
<1>10. CASE c.op \notin {"O", "T", "B", "D", "M", "S"}
  <2>1. Arguments(c) = <<Line(0)>>
    BY <1>10 DEF Arguments
  <2> QED
    BY <1>2, <1>10, <2>1 DEF Args, DataBytes
<1> QED
  BY <1>5, <1>6, <1>7, <1>8, <1>9, <1>10

\* A request is a letter, its lines and, for a command, its bytes.
LEMMA FullIs ==
    ASSUME NEW c \in Calls, NEW a \in Addresses
    PROVE  /\ Full(c, a) \in Seq(Item) /\ Len(Full(c, a)) = 1 + Args(c.op) + DataBytes(c)
           /\ Full(c, a)[1] = [k |-> "letter", v |-> c.op, on |-> a]
           /\ \A i \in 1 .. Args(c.op) + DataBytes(c) : Full(c, a)[1 + i] = Arguments(c)[i]
<1> DEFINE l == [k |-> "letter", v |-> c.op, on |-> a]
           g == Arguments(c)
           n == Args(c.op) + DataBytes(c)
<1>1. l \in Item
  BY CallsAre DEF Item
<1>2. g \in Seq(Item) /\ Len(g) = n /\ n \in Nat
  BY ArgumentsIs, CallsAre
<1>3. Full(c, a) = <<l>> \o g
  BY DEF Full
<1> HIDE DEF l, g
<1>4. <<l>> \in Seq(Item) /\ Len(<<l>>) = 1 /\ <<l>>[1] = l
  BY <1>1
<1> DEFINE h == <<l>>
<1> HIDE DEF h, n
<1>5. /\ h \o g \in Seq(Item) /\ Len(h \o g) = 1 + n
      /\ \A i \in 1 .. 1 + n : (h \o g)[i] = IF i <= 1 THEN h[i] ELSE g[i - 1]
  <2> DEFINE one == 1
  <2>1. h \in Seq(Item) /\ g \in Seq(Item) /\ Len(h) = one /\ Len(g) = n
    BY <1>2, <1>4 DEF h
  <2> HIDE DEF one
  <2>2. /\ h \o g \in Seq(Item) /\ Len(h \o g) = one + n
        /\ \A i \in 1 .. one + n : (h \o g)[i] = IF i <= one THEN h[i] ELSE g[i - one]
    BY <2>1, Joined
  <2> QED
    BY <2>2 DEF one
<1> DEFINE f == h \o g
<1> HIDE DEF f
<1>6. f \in Seq(Item) /\ Len(f) = 1 + n /\ f[1] = l
  BY <1>2, <1>4, <1>5 DEF f, h
<1>7. \A i \in 1 .. n : f[1 + i] = g[i]
  <2> SUFFICES ASSUME NEW i \in 1 .. n
               PROVE  f[1 + i] = g[i]
    OBVIOUS
  <2> DEFINE j == 1 + i
  <2>1. j \in 1 .. 1 + n /\ ~(j <= 1) /\ j - 1 = i
    BY <1>2
  <2> HIDE DEF j
  <2>2. f[j] = g[j - 1]
    BY <1>5, <2>1 DEF f
  <2> QED
    BY <2>1, <2>2 DEF j
<1>8. Full(c, a) = f /\ Len(f) = 1 + Args(c.op) + DataBytes(c)
  <2>1. Args(c.op) \in Nat /\ DataBytes(c) \in Nat
    BY ArgumentsIs, CallsAre
  <2> QED
    BY <1>3, <1>6, <2>1 DEF f, h, n
<1> QED
  BY <1>6, <1>7, <1>8 DEF l, g, n

\* What is known of a request that has begun to arrive.
LEMMA PendingIs ==
    ASSUME Types, NEW c \in Calls, NEW a \in Addresses, Pending(c, a), toServer # <<>>
    PROVE  /\ Len(toServer) \in 1 .. 1 + Args(c.op) + DataBytes(c)
           /\ Head(toServer) = [k |-> "letter", v |-> c.op, on |-> a]
           /\ Head(toServer) = toServer[1]
           /\ \A i \in 1 .. Args(c.op) + DataBytes(c) : i < Len(toServer) => toServer[1 + i] = Arguments(c)[i]
           /\ Connected => Len(toServer) = 1 + Args(c.op) + DataBytes(c)
<1> DEFINE f == Full(c, a)
           n == Args(c.op) + DataBytes(c)
           t == toServer
<1>1. t \in Seq(Item) /\ Len(t) \in Nat /\ Len(t) >= 1 /\ Head(t) = t[1]
  <2>1. t \in Seq(Item) /\ t # <<>>
    BY DEF Types
  <2> QED
    BY <2>1, LenProperties, EmptySeq, HeadTailProperties
<1>2. n \in Nat /\ Args(c.op) \in Nat /\ DataBytes(c) \in Nat
  BY ArgumentsIs, CallsAre
<1>3. /\ Len(f) = 1 + Args(c.op) + DataBytes(c) /\ f[1] = [k |-> "letter", v |-> c.op, on |-> a]
      /\ \A i \in 1 .. n : f[1 + i] = Arguments(c)[i]
  BY FullIs
<1>4. /\ Len(t) <= Len(f) /\ \A i \in 1 .. Len(t) : t[i] = f[i]
      /\ Connected => Len(t) = Len(f)
  BY DEF Pending, Prefix
<1> HIDE DEF f, t, n
<1>5. t[1] = f[1]
  BY <1>1, <1>4
<1>6. ASSUME NEW i \in 1 .. n, i < Len(t)
      PROVE  t[1 + i] = Arguments(c)[i]
  <2>1. 1 + i \in 1 .. Len(t)
    BY <1>1, <1>2, <1>6
  <2> QED
    BY <1>3, <1>4, <2>1
<1>7. Len(t) \in 1 .. 1 + Args(c.op) + DataBytes(c)
  BY <1>1, <1>2, <1>3, <1>4
<1> QED
  BY <1>1, <1>3, <1>4, <1>5, <1>6, <1>7 DEF t, n

\* The request that a handler of the server finds is the one that is pending.
LEMMA RequestIs ==
    ASSUME Types, OneRequest, NEW op \in Ops, Request_(op)
    PROVE  \E c \in Calls, a \in Addresses :
              /\ Pending(c, a) /\ c.op = op
              /\ op = "O" => c.name # "cut"
              /\ Head(toServer).on = a
              /\ Len(toServer) \in Args(op) + 1 .. 1 + Args(op) + DataBytes(c)
              /\ \A i \in 1 .. Args(op) : toServer[1 + i] = Arguments(c)[i]
<1>1. /\ toServer # <<>> /\ Head(toServer).v = op /\ Len(toServer) > Args(op)
      /\ \A i \in 1 .. Args(op) : toServer[1 + i].k = "line"
  BY DEF Request_, HasArgs
<1>2. PICK c \in Calls, a \in Addresses : Pending(c, a)
  BY <1>1 DEF OneRequest
<1>3. /\ Len(toServer) \in 1 .. 1 + Args(c.op) + DataBytes(c)
      /\ Head(toServer) = [k |-> "letter", v |-> c.op, on |-> a]
      /\ \A i \in 1 .. Args(c.op) + DataBytes(c) : i < Len(toServer) => toServer[1 + i] = Arguments(c)[i]
  BY <1>1, <1>2, PendingIs
<1>4. c.op = op /\ Head(toServer).on = a
  BY <1>1, <1>3
<1>5. Args(op) \in 1 .. 5 /\ DataBytes(c) \in Nat
  BY <1>4, ArgumentsIs, CallsAre
<1>6. Len(toServer) \in Args(op) + 1 .. 1 + Args(op) + DataBytes(c)
  BY <1>1, <1>3, <1>4, <1>5
<1>7. ASSUME NEW i \in 1 .. Args(op)
      PROVE  toServer[1 + i] = Arguments(c)[i]
  <2>1. i \in 1 .. Args(c.op) + DataBytes(c) /\ i < Len(toServer)
    BY <1>4, <1>5, <1>6
  <2> QED
    BY <1>3, <2>1
<1>8. ASSUME op = "O"
      PROVE  c.name # "cut"
  <2>1. 1 \in 1 .. Args(op)
    BY <1>5
  <2>2. toServer[1 + 1].k = "line" /\ toServer[1 + 1] = Arguments(c)[1]
    BY <1>1, <1>7, <2>1
  <2>3. c.name = "cut" => Arguments(c)[1].k = "part"
    BY <1>4, <1>8, ArgumentsIs
  <2> QED
    BY <2>2, <2>3
<1> QED
  BY <1>2, <1>4, <1>6, <1>7, <1>8

\* A handler that reads its lines has read the whole request.
LEMMA ArgsRead ==
    ASSUME Types, OneRequest, NEW op \in Ops \ {"S"}, Request_(op), ReadArgs
    PROVE  toServer' = <<>>
<1>1. PICK c \in Calls, a \in Addresses :
          c.op = op /\ Len(toServer) \in Args(op) + 1 .. 1 + Args(op) + DataBytes(c)
  BY RequestIs
<1>2. DataBytes(c) = 0 /\ Args(op) \in 1 .. 5
  BY <1>1, ArgumentsIs DEF DataBytes
<1>3. Len(toServer) = 1 + Args(op)
  BY <1>1, <1>2
<1>4. Head(toServer).v = op
  BY DEF Request_
<1>5. toServer' = SubSeq(toServer, Len(toServer) + 1, Len(toServer))
  BY <1>3, <1>4 DEF ReadArgs, Read
<1>6. toServer \in Seq(Item)
  BY DEF Types
<1> QED
  BY <1>5, <1>6, NothingLeft

\* What the server makes of the lines of a command, and that it reads all of
\* its bytes.
LEMMA PayloadIs ==
    ASSUME Types, OneRequest, Request_("S")
    PROVE  \E c \in Calls, a \in Addresses :
              /\ Pending(c, a) /\ c.op = "S" /\ Head(toServer).on = a
              /\ csize = c.amount /\ csize \in Nat /\ (Recv <=> c.recv)
              /\ Payload = DataBytes(c) /\ Payload \in Nat /\ Voided = Payload
              /\ Len(toServer) \in 6 .. 6 + Payload
              /\ \A i \in 1 .. 5 : toServer[1 + i] = Arguments(c)[i]
              /\ HasPayload(Payload) => Len(toServer) = 6 + Payload
              /\ HasPayload(Payload) /\ Read(6 + Payload) => toServer' = <<>>
<1>1. Args("S") = 5 /\ "S" \in Ops
  BY DEF Args, Ops
<1>0. PICK c \in Calls, a \in Addresses :
          /\ Pending(c, a) /\ c.op = "S" /\ Head(toServer).on = a
          /\ Len(toServer) \in Args("S") + 1 .. 1 + Args("S") + DataBytes(c)
          /\ \A i \in 1 .. Args("S") : toServer[1 + i] = Arguments(c)[i]
  BY <1>1, RequestIs, Zenon
<1>2. /\ Pending(c, a) /\ c.op = "S" /\ Head(toServer).on = a
      /\ Len(toServer) \in 5 + 1 .. 1 + 5 + DataBytes(c)
      /\ \A i \in 1 .. 5 : toServer[1 + i] = Arguments(c)[i]
  BY <1>0, <1>1
<1>3. /\ Arguments(c)[1].v = c.amount /\ Arguments(c)[2].v = (IF c.recv THEN 1 ELSE 0)
      /\ Arguments(c)[3].v = CdbSize
      /\ c.amount \in Nat /\ c.recv \in BOOLEAN /\ CdbSize \in Nat /\ DataBytes(c) \in Nat
  BY <1>2, ArgumentsIs, CallsAre, Constants
<1>4. /\ toServer[1 + 1] = Arguments(c)[1] /\ toServer[1 + 2] = Arguments(c)[2]
      /\ toServer[1 + 3] = Arguments(c)[3]
  BY <1>2
<1>5. csize = c.amount /\ (Recv <=> c.recv) /\ Arg(3) = CdbSize
  BY <1>3, <1>4 DEF csize, Recv, Arg
<1>6. Payload = DataBytes(c) /\ Voided = Payload
  BY <1>2, <1>3, <1>5 DEF Payload, Voided, DataBytes
<1>7. HasPayload(Payload) => Len(toServer) = 6 + Payload
  BY <1>2, <1>3, <1>6 DEF HasPayload
<1>8. ASSUME HasPayload(Payload), Read(6 + Payload)
      PROVE  toServer' = <<>>
  <2>1. toServer' = SubSeq(toServer, Len(toServer) + 1, Len(toServer))
    BY <1>7, <1>8 DEF Read
  <2>2. toServer \in Seq(Item)
    BY DEF Types
  <2> QED
    BY <2>1, <2>2, NothingLeft
<1>9. Len(toServer) \in 6 .. 6 + Payload
  BY <1>2, <1>3, <1>6
<1> QED
  BY <1>2, <1>3, <1>5, <1>6, <1>7, <1>8, <1>9

-----------------------------------------------------------------------------
(* Answers: what the client makes of them, as a whole.                     *)

\* The client takes all of s for what the server means by it.
Understood(s, r) ==
    /\ s \in Seq(Item) /\ s # <<>> /\ s[1].v \in Int
    /\ Wanted(s) = Len(s) /\ Result(s) = r

\* rscsierror and rscsigetstatus
LEMMA ErrorIs ==
    ASSUME NEW e \in Int, NEW text \in Nat
    PROVE  Understood(<<[k |-> "E", v |-> e], Line(0), Line(text)>> \o Bytes(text, TEXT),
                      [ret |-> -1, errno |-> e, extra |-> <<>>])
<1> DEFINE h == <<[k |-> "E", v |-> e], Line(0), Line(text)>>
           b == Bytes(text, TEXT)
           three == 3
           s == h \o b
<1>1. h \in Seq(Item) /\ Len(h) = three /\ h[1].k = "E" /\ h[1].v = e /\ h[3].v = text
  <2>1. [k |-> "E", v |-> e] \in Item /\ Line(0) \in Item /\ Line(text) \in Item
    BY DEF Item, Line
  <2>2. Line(text).v = text
    BY DEF Line
  <2> QED
    BY <2>1, <2>2
<1>2. b \in Seq(Item) /\ Len(b) = text
  <2>1. TEXT \in Int
    BY DEF TEXT
  <2> QED
    BY <2>1, BytesIs
<1> HIDE DEF h, b, three
<1>3. /\ s \in Seq(Item) /\ Len(s) = three + text
      /\ \A i \in 1 .. three + text : s[i] = IF i <= three THEN h[i] ELSE b[i - three]
  <2>1. h \in Seq(Item) /\ b \in Seq(Item) /\ Len(h) = three /\ Len(b) = text
    BY <1>1, <1>2
  <2> QED
    BY ONLY <2>1, Joined, SMTT(20)
<1> HIDE DEF s
<1>4. s \in Seq(Item) /\ Len(s) = 3 + text /\ s[1] = h[1] /\ s[3] = h[3]
  BY <1>3 DEF three
<1>5. s # <<>> /\ s[1].k = "E" /\ s[1].v = e /\ s[3].v = text
  BY <1>1, <1>4
<1>6. Wanted(s) = Len(s)
  BY <1>4, <1>5 DEF Wanted, ErrorText
<1>7. Result(s) = [ret |-> -1, errno |-> e, extra |-> <<>>]
  BY <1>5 DEF Result
<1> QED
  BY <1>4, <1>5, <1>6, <1>7 DEF Understood, s, h, b

\* rscsireply and rscsigetstatus, with what a call reads after the status
LEMMA ReplyIs ==
    ASSUME NEW n \in Int, NEW more \in Seq(Item), call.op # "S",
           Len(more) = IF call.op = "O" THEN 4 ELSE IF call.op = "V" THEN n ELSE 0
    PROVE  Understood(<<[k |-> "A", v |-> n]>> \o more,
                      [ret |-> n, errno |-> 0, extra |-> Values(more)])
<1> DEFINE h == <<[k |-> "A", v |-> n]>>
           m == Len(more)
           one == 1
           s == h \o more
<1>1. h \in Seq(Item) /\ Len(h) = one /\ h[1].k = "A" /\ h[1].v = n
  <2>1. [k |-> "A", v |-> n] \in Item
    BY DEF Item
  <2> QED
    BY <2>1
<1>2. m \in Nat /\ Len(more) = m
  BY LenProperties
<1> HIDE DEF h, one, m
<1>3. /\ s \in Seq(Item) /\ Len(s) = one + m
      /\ \A i \in 1 .. one + m : s[i] = IF i <= one THEN h[i] ELSE more[i - one]
  <2>1. h \in Seq(Item) /\ more \in Seq(Item) /\ Len(h) = one /\ Len(more) = m
    BY <1>1, <1>2
  <2> QED
    BY ONLY <2>1, Joined, SMTT(20)
<1>4. SubSeq(s, Len(h) + 1, Len(s)) = more
  BY <1>1, Behind
<1> HIDE DEF s
<1>5. s \in Seq(Item) /\ Len(s) = 1 + m /\ s[1] = h[1] /\ SubSeq(s, 2, Len(s)) = more
  BY <1>1, <1>2, <1>3, <1>4 DEF one
<1>6. s # <<>> /\ s[1].k = "A" /\ s[1].v = n
  BY <1>1, <1>2, <1>5
<1>7. Answered(s) = m
  BY <1>6 DEF Answered, m
<1>8. Wanted(s) = Len(s)
  BY <1>5, <1>6, <1>7 DEF Wanted
<1>9. Result(s) = [ret |-> n, errno |-> 0, extra |-> Values(more)]
  BY <1>5, <1>6, <1>8 DEF Result
<1> QED
  BY <1>5, <1>6, <1>8, <1>9 DEF Understood, s, h

\* sendcmd and scgo_rsend: sense data and data after the status
LEMMA CommandIs ==
    ASSUME NEW o, o.n \in Nat, o.error \in Int, o.sense \in 0 .. MaxSense,
           call.op = "S", call.recv \in BOOLEAN, NEW m \in Nat, m = (IF call.recv THEN o.n ELSE 0)
    PROVE  Understood(<<[k |-> "A", v |-> o.n], Line(o.error), Line(0), Line(0), Line(o.sense)>>
                         \o Bytes(o.sense, SENSE) \o Bytes(m, DATA),
                      [ret |-> o.n, errno |-> 0, extra |-> <<o.error, o.sense>> \o Values(Bytes(m, DATA))])
<1> DEFINE h == <<[k |-> "A", v |-> o.n], Line(o.error), Line(0), Line(0), Line(o.sense)>>
           b == Bytes(o.sense, SENSE)
           d == Bytes(m, DATA)
           five == 5
           ns == o.sense
           x == h \o b
           s == x \o d
<1>0. ns \in Nat /\ ns <= MaxSense /\ MaxSense \in Nat
  BY Constants
<1>1. /\ h \in Seq(Item) /\ Len(h) = five /\ h[1].k = "A" /\ h[1].v = o.n
      /\ h[2].v = o.error /\ h[5].v = ns
  <2>1. /\ [k |-> "A", v |-> o.n] \in Item /\ Line(0) \in Item
        /\ Line(o.error) \in Item /\ Line(o.sense) \in Item
    BY <1>0 DEF Item, Line
  <2>2. Line(o.error).v = o.error /\ Line(o.sense).v = ns
    BY DEF Line
  <2> QED
    BY <2>1, <2>2
<1>2. b \in Seq(Item) /\ Len(b) = ns
  <2>1. SENSE \in Int
    BY DEF SENSE
  <2> QED
    BY <1>0, <2>1, BytesIs
<1>3. d \in Seq(Item) /\ Len(d) = m
  <2>1. DATA \in Int
    BY DEF DATA
  <2> QED
    BY <2>1, BytesIs
<1> HIDE DEF h, b, d, five, ns
<1>4. /\ x \in Seq(Item) /\ Len(x) = five + ns
      /\ \A i \in 1 .. five + ns : x[i] = IF i <= five THEN h[i] ELSE b[i - five]
  BY <1>1, <1>2, Joined
<1> HIDE DEF x
<1> DEFINE nx == five + ns
<1>5. nx = 5 + ns /\ nx \in Nat /\ nx >= 5
  BY <1>0 DEF five
<1> HIDE DEF nx
<1>6. x \in Seq(Item) /\ Len(x) = nx /\ x[1] = h[1] /\ x[2] = h[2] /\ x[5] = h[5]
  BY <1>0, <1>4 DEF nx, five
<1>7. /\ s \in Seq(Item) /\ Len(s) = nx + m
      /\ \A i \in 1 .. nx + m : s[i] = IF i <= nx THEN x[i] ELSE d[i - nx]
  BY <1>3, <1>6, Joined
<1>8. SubSeq(s, Len(x) + 1, Len(s)) = d
  BY <1>3, <1>6, Behind
<1> HIDE DEF s
<1>9. s \in Seq(Item) /\ Len(s) = 5 + ns + m /\ SubSeq(s, 6 + ns, Len(s)) = d
  <2>1. Len(x) + 1 = 6 + ns
    BY <1>0, <1>5, <1>6
  <2> QED
    BY <1>5, <1>7, <1>8, <2>1
<1>10. s[1].k = "A" /\ s[1].v = o.n /\ s[2].v = o.error /\ s[5].v = ns
  <2>1. s[1] = x[1] /\ s[2] = x[2] /\ s[5] = x[5]
    BY <1>5, <1>7
  <2> QED
    BY <1>1, <1>6, <2>1
<1>11. s # <<>>
  BY <1>0, <1>9
<1>12. SenseLength(s) = ns /\ Kept(ns) = ns
  <2>1. Kept(ns) = ns
    BY <1>0 DEF Kept
  <2>2. Skipped(ns) = 0
    BY <1>0, <2>1 DEF Skipped
  <2>3. ~(Len(s) < 5)
    BY <1>0, <1>9
  <2>4. SenseLength(s) = IF ns <= 0 THEN 0 ELSE Kept(ns) + Skipped(ns)
    BY <1>10, <2>3 DEF SenseLength
  <2> QED
    BY <1>0, <2>1, <2>2, <2>4
<1>13. DataLength(s) = m
  BY <1>10 DEF DataLength
<1>14. Answered(s) = 4 + ns + m
  BY <1>0, <1>12, <1>13 DEF Answered
<1>15. Wanted(s) = Len(s)
  <2>1. Wanted(s) = 1 + Answered(s)
    BY <1>10, <1>11 DEF Wanted
  <2>2. m \in Nat
    OBVIOUS
  <2> QED
    BY ONLY <1>0, <1>9, <1>14, <2>1, <2>2
<1>16. Result(s) = [ret |-> o.n, errno |-> 0, extra |-> <<o.error, ns>> \o Values(d)]
  BY <1>9, <1>10, <1>12, <1>15 DEF Result
<1> QED
  BY <1>9, <1>10, <1>11, <1>15, <1>16 DEF Understood, s, x, h, b, d, ns

\* A command that has arrived as a whole is the one that was sent.
LEMMA CommandArrives ==
    ASSUME Types, OneRequest, Request_("S"), ~late, HasPayload(Payload)
    PROVE  Executed = Meant(csize, Recv)
<1>1. PICK c \in Calls, a \in Addresses :
          /\ Pending(c, a) /\ c.op = "S" /\ Head(toServer).on = a
          /\ csize = c.amount /\ csize \in Nat /\ (Recv <=> c.recv)
          /\ Payload = DataBytes(c) /\ Payload \in Nat
          /\ Len(toServer) = 6 + Payload
  BY PayloadIs
<1> DEFINE t == toServer
           n == IF Recv THEN 0 ELSE csize
           w == SubSeq(t, 7, Len(t))
           b == Bytes(CdbSize, CDB)
           d == Bytes(n, DATA)
           z == b \o d
<1>2. t \in Seq(Item) /\ t # <<>>
  BY DEF Types, Request_, HasArgs
<1>3. n \in Nat /\ CdbSize \in Nat /\ Payload = CdbSize + n
  BY <1>1, Constants DEF DataBytes
<1>4. Args("S") = 5
  BY DEF Args
<1>5. \A i \in 1 .. Payload : t[6 + i] = Arguments(c)[5 + i]
  <2>1. \A i \in 1 .. Args(c.op) + DataBytes(c) : i < Len(t) => t[1 + i] = Arguments(c)[i]
    BY <1>1, <1>2, PendingIs
  <2> SUFFICES ASSUME NEW i \in 1 .. Payload
               PROVE  t[6 + i] = Arguments(c)[5 + i]
    OBVIOUS
  <2> DEFINE j == 5 + i
  <2>2. j \in 1 .. Args(c.op) + DataBytes(c) /\ j < Len(t) /\ 1 + j = 6 + i
    BY <1>1, <1>4
  <2> HIDE DEF j, t
  <2>3. t[1 + j] = Arguments(c)[j]
    BY <2>1, <2>2
  <2> QED
    BY <2>2, <2>3 DEF j
<1>6. \A i \in 1 .. Payload : Arguments(c)[5 + i].v = IF i <= CdbSize THEN CDB ELSE DATA
  BY <1>1, ArgumentsIs
<1>7. w \in Seq(Item) /\ Len(w) = Payload /\ \A i \in 1 .. Payload : w[i] = t[6 + i]
  <2>1. 7 \in 1 .. Len(t) + 1 /\ Len(t) \in 7 - 1 .. Len(t)
    BY <1>1
  <2> DEFINE seven == 7
             l == Len(t)
  <2>0. /\ \A i \in seven .. l : t[i] \in Item
        /\ seven \in Int /\ l \in Int
    BY <1>1, <1>2, ElementOfSeq
  <2> HIDE DEF seven, l
  <2>5. /\ SubSeq(t, seven, l) \in Seq(Item)
        /\ Len(SubSeq(t, seven, l)) = IF seven <= l THEN l - seven + 1 ELSE 0
        /\ \A i \in 1 .. l - seven + 1 : SubSeq(t, seven, l)[i] = t[seven + i - 1]
    BY <2>0, SubSeqProperties
  <2>2. /\ w \in Seq(Item) /\ Len(w) = Len(t) - 7 + 1
        /\ \A i \in 1 .. Len(t) - 7 + 1 : w[i] = t[7 + i - 1]
    <3>1. w = SubSeq(t, seven, l)
      BY DEF seven, l
    <3> HIDE DEF w
    <3>2. /\ w \in Seq(Item) /\ Len(w) = IF seven <= l THEN l - seven + 1 ELSE 0
          /\ \A i \in 1 .. l - seven + 1 : w[i] = t[seven + i - 1]
      BY <2>5, <3>1
    <3>3. l = Len(t) /\ seven = 7
      BY DEF l, seven
    <3>4. (IF seven <= l THEN l - seven + 1 ELSE 0) = Len(t) - 7 + 1
      BY <2>0, <2>1, <3>3
    <3> QED
      BY <3>2, <3>3, <3>4
  <2>3. Len(t) - 7 + 1 = Payload
    BY <1>1
  <2>4. \A i \in 1 .. Payload : 7 + i - 1 = 6 + i
    BY <1>1
  <2> HIDE DEF w
  <2> QED
    BY <2>2, <2>3, <2>4
<1>8. /\ b \in Seq(Item) /\ Len(b) = CdbSize /\ \A i \in 1 .. CdbSize : b[i].v = CDB
      /\ d \in Seq(Item) /\ Len(d) = n /\ \A i \in 1 .. n : d[i].v = DATA
  <2>1. CDB \in Int /\ DATA \in Int
    BY DEF CDB, DATA
  <2>2. /\ b \in Seq(Item) /\ Len(b) = CdbSize
        /\ \A i \in 1 .. CdbSize : b[i] = [k |-> "byte", v |-> CDB]
    BY <1>3, <2>1, BytesIs
  <2>3. /\ d \in Seq(Item) /\ Len(d) = n
        /\ \A i \in 1 .. n : d[i] = [k |-> "byte", v |-> DATA]
    BY <1>3, <2>1, BytesIs
  <2> HIDE DEF b, d
  <2> QED
    BY <2>2, <2>3
<1> HIDE DEF t, n, w, b, d
<1>9. /\ z \in Seq(Item) /\ Len(z) = CdbSize + n
      /\ \A i \in 1 .. CdbSize + n : z[i] = IF i <= CdbSize THEN b[i] ELSE d[i - CdbSize]
  BY <1>8, Joined
<1> HIDE DEF z
<1>10. \A i \in 1 .. Payload : z[i].v = IF i <= CdbSize THEN CDB ELSE DATA
  <2> SUFFICES ASSUME NEW i \in 1 .. Payload
               PROVE  z[i].v = IF i <= CdbSize THEN CDB ELSE DATA
    OBVIOUS
  <2>1. CASE i <= CdbSize
    BY <1>3, <1>8, <1>9, <2>1
  <2>2. CASE ~(i <= CdbSize)
    <3>1. i - CdbSize \in 1 .. n /\ i \in 1 .. CdbSize + n
      BY <1>3, <2>2
    <3> QED
      BY <1>8, <1>9, <2>2, <3>1
  <2> QED
    BY <2>1, <2>2
<1>11. Values(w) = Values(z)
  <2>1. \A i \in 1 .. Payload : w[i].v = z[i].v
    BY <1>5, <1>6, <1>7, <1>10
  <2>2. Len(w) = Payload /\ Len(z) = Payload
    BY <1>3, <1>7, <1>9
  <2> QED
    BY <2>1, <2>2 DEF Values
<1>12. target = Head(toServer).on
  BY <1>1 DEF Pending
<1>13. Executed = [target |-> target, size |-> csize, bytes |-> Values(w)]
  BY DEF Executed, w, t
<1>14. Meant(csize, Recv) = [target |-> Head(toServer).on, size |-> csize, bytes |-> Values(z)]
  BY DEF Meant, z, b, d, n
<1> QED
  BY <1>11, <1>12, <1>13, <1>14

-----------------------------------------------------------------------------
(* The steps of the server.                                                *)

\* Types, variable by variable.
Each ==
    /\ link \in {"up", "cut"} /\ pc \in {"start", "idle", "wait", "took", "next", "gone"}
    /\ bufbase \in {"none", "held", "given back"}
    /\ srv \in {"run", "done", "bad", "garbage", "crashed", "comerr"}
    /\ isopen \in BOOLEAN /\ scsi \in BOOLEAN /\ sbuf \in BOOLEAN /\ served \in BOOLEAN /\ late \in BOOLEAN
    /\ fd \in Addresses /\ addr \in Addresses /\ target \in Addresses
    /\ sbufsize \in 0 .. MaxDma /\ lost \in Nat
    /\ toServer \in Seq(Item) /\ toClient \in Seq(Item)
    /\ call \in Calls \/ call = NoCall
    /\ pc \in {"wait", "took", "next"} => call \in Calls

LEMMA TypesEach ==
    ASSUME Types
    PROVE  Each
<1>1. /\ isopen \in BOOLEAN /\ scsi \in BOOLEAN /\ sbuf \in BOOLEAN /\ served \in BOOLEAN /\ late \in BOOLEAN
      /\ fd \in Addresses /\ addr \in Addresses /\ target \in Addresses
  BY DEF Types, TypeOK
<1> QED
  BY <1>1 DEF Types, TypeOK, Each

LEMMA EachTypes ==
    ASSUME Each'
    PROVE  Types'
<1>1. ({isopen, scsi, sbuf, served, late} \subseteq BOOLEAN)' /\ ({fd, addr, target} \subseteq Addresses)'
  BY DEF Each
<1> QED
  BY <1>1 DEF Types, TypeOK, Each

\* What a client makes of an answer depends on the call alone.
LEMMA WholeIs ==
    ASSUME call' = call, NEW s, NEW r, Understood(s, r), answer' = r
    PROVE  Whole(s)'
<1>1. Wanted(s)' = Wanted(s)
  BY DEF Wanted, ErrorText, Answered, SenseLength, DataLength, Kept, Skipped
<1>2. Result(s)' = Result(s)
  BY <1>1 DEF Result, SenseLength, Kept, Skipped, Values
<1> QED
  BY <1>1, <1>2 DEF Understood, Whole

LEMMA NothingIs == Nothing.ret = -1 /\ Nothing.ret \in Int
BY DEF Nothing

LEMMA UnderstoodIs ==
    ASSUME NEW s, NEW r, Understood(s, r)
    PROVE  r.ret \in Int
<1>1. s[1].v \in Int /\ Result(s) = r
  BY DEF Understood
<1>2. CASE s[1].k = "E"
  BY <1>1, <1>2 DEF Result
<1>3. CASE s[1].k = "A"
  <2>1. Result(s).ret = s[1].v
    BY <1>3 DEF Result
  <2> QED
    BY <1>1, <2>1
<1>4. CASE s[1].k \notin {"E", "A"}
  BY <1>1, <1>4 DEF Result
<1> QED
  BY <1>2, <1>3, <1>4

LEMMA WholeStays ==
    ASSUME call' = call, answer' = answer, NEW s, Whole(s)
    PROVE  Whole(s)'
<1>1. Wanted(s)' = Wanted(s)
  BY DEF Wanted, ErrorText, Answered, SenseLength, DataLength, Kept, Skipped
<1>2. Result(s)' = Result(s)
  BY <1>1 DEF Result, SenseLength, Kept, Skipped, Values
<1> QED
  BY <1>1, <1>2 DEF Whole

\* A handler that has read its request and answers it keeps the invariant, if
\* what it leaves agrees with its answer.
LEMMA AnswerKeeps ==
    ASSUME IndInv, toServer # <<>>, toServer' = <<>>,
           srv' = srv, scsi' \in BOOLEAN, sbuf' \in BOOLEAN, target' \in Addresses, sbufsize' \in 0 .. MaxDma,
           exec'.got = exec'.meant,
           NEW s, NEW r, Answer(s, r),
           ~late => Understood(s, r),
           ~late /\ call.op = "O" /\ r.ret >= 0 => r.extra[1] \in Addresses,
           Connected =>
               /\ isopen => scsi'
               /\ sbuf' \/ sbufsize' = 0 \/ bufbase = "given back"
               /\ fd # NoTarget /\ call.op \notin {"T", "C"} => scsi' /\ target' = fd /\ addr = fd
               /\ call.op = "O" /\ r.ret >= 0 => scsi'
               /\ call.op = "T" /\ r.ret >= 0 => scsi' /\ target' = call.target
               /\ call.op = "M" /\ r.ret >= 0 => sbuf'
    PROVE  IndInv'
<1> USE DEF IndInv
<1>1. PICK c \in Calls, a \in Addresses : Pending(c, a)
  BY DEF OneRequest
<1>2. /\ link' = link /\ pc' = pc /\ call' = call /\ isopen' = isopen /\ fd' = fd /\ addr' = addr
      /\ bufbase' = bufbase /\ taken' = taken /\ lost' = lost
  BY DEF Answer, client
<1>3. srv = "run" /\ (Connected' <=> Connected)
  BY <1>2 DEF Lost, Connected
<1>4. OneRequest' /\ ExecutedAsMeant'
  BY DEF OneRequest, ExecutedAsMeant
<1>5. CASE late
  <2>1. late' = FALSE /\ served' = served /\ answer' = answer
    BY <1>5 DEF Answer
  <2>2. link = "cut" /\ ~Connected' /\ toClient' = toClient
    BY <1>3, <1>5 DEF Lost, Connected, Answer, ServerEOF
  <2>3. Types'
    <3>1. <<>> \in Seq(Item)
      BY EmptySeq
    <3>2. Each'
      BY <1>2, <1>3, <2>1, <2>2, <3>1, TypesEach DEF Each
    <3> QED
      BY <3>2, EachTypes
  <2>4. OneAnswer'
    <3>1. toClient' # <<>> =>
             \E x \in Seq(Item) : Whole(x) /\ Prefix(toClient, x) /\ (Connected => toClient = x)
      BY <2>2 DEF OneAnswer
    <3>2. ASSUME NEW x \in Seq(Item), Whole(x)
          PROVE  Whole(x)'
      BY <1>2, <2>1, <3>2, WholeStays
    <3>3. \A x : Prefix(toClient, x) => Prefix(toClient, x)'
      BY <2>2 DEF Prefix
    <3>4. toClient' # <<>> =>
             \E x \in Seq(Item) : Whole(x)' /\ Prefix(toClient, x)' /\ (Connected' => toClient' = x)
      BY <2>2, <3>1, <3>2, <3>3
    <3> QED
      BY <1>2, <2>1, <2>2, <3>4 DEF OneAnswer
  <2>5. Turns' /\ Lost' /\ Agreed'
    BY <1>2, <1>3, <2>1, <2>2 DEF Turns, Lost, Agreed
  <2>6. History' /\ Known'
    BY <1>2, <2>1 DEF History, Known
  <2> QED
    BY <1>4, <2>3, <2>4, <2>5, <2>6
<1>6. CASE ~late
  <2>1. pc = "wait" /\ ~served /\ c = call /\ toClient = <<>>
    BY <1>1, <1>6 DEF Pending, OneAnswer
  <2>2. ~late' /\ late' = late /\ served' = TRUE /\ answer' = r
    BY <1>6 DEF Answer
  <2>3. s \in Seq(Item) /\ s # <<>> /\ Whole(s)'
    BY <1>2, <1>6, <2>2, WholeIs DEF Understood
  <2>4. toClient' = IF Connected THEN s ELSE <<>>
    <3>1. <<>> \o s = s
      BY <2>3, ConcatEmptySeq
    <3> QED
      BY <1>3, <2>1, <3>1, TypesEach DEF Answer, ServerEOF, Connected, Each
  <2>5. Types'
    <3>1. <<>> \in Seq(Item)
      BY EmptySeq
    <3>2. Each'
      BY <1>2, <1>3, <2>2, <2>3, <2>4, <3>1, TypesEach DEF Each
    <3> QED
      BY <3>2, EachTypes
  <2>6. OneAnswer'
    <3>1. Prefix(s, s)
      BY <2>3, PrefixOfItself
    <3>2. toClient' # <<>> => Whole(s)' /\ Prefix(toClient, s)' /\ (Connected' => toClient' = s)
      BY <1>3, <2>3, <2>4, <3>1 DEF Prefix
    <3> QED
      BY <1>2, <2>1, <2>2, <2>3, <3>2 DEF OneAnswer
  <2>7. Turns' /\ Lost'
    BY <1>2, <1>3, <2>1, <2>2, <2>3, <2>4 DEF Turns, Lost
  <2>8. History' /\ Known'
    <3>1. answer'.ret \in Int
      BY <1>6, <2>2, UnderstoodIs
    <3> QED
      BY <1>2, <1>6, <2>1, <2>2, <3>1 DEF History, Known
  <2>9. Agreed'
    BY <1>2, <1>3, <2>1, <2>2 DEF Agreed
  <2> QED
    BY <1>4, <2>5, <2>6, <2>7, <2>8, <2>9
<1> QED
  BY <1>5, <1>6

\* The size that a handler of buffers answers.
LEMMA SizeIs ==
    ASSUME Types, OneRequest, NEW op \in {"D", "M"}, Request_(op)
    PROVE  Bufsize(Arg(1)) \in 1 .. MaxDma
<1>1. op \in Ops /\ Args(op) = 1
  BY DEF Ops, Args
<1>2. PICK c \in Calls, a \in Addresses :
          c.op = op /\ \A i \in 1 .. Args(op) : toServer[1 + i] = Arguments(c)[i]
  BY <1>1, RequestIs
<1>3. toServer[1 + 1] = Arguments(c)[1]
  BY <1>1, <1>2
<1>4. Arguments(c)[1].v = c.amount /\ c.amount \in Nat
  BY <1>2, ArgumentsIs, CallsAre
<1> QED
  BY <1>3, <1>4, Constants DEF Bufsize, Arg

\* Whom a handler answers: the call that waits, or one that was given up.
LEMMA HandlerIs ==
    ASSUME IndInv, NEW op \in Ops, Request_(op)
    PROVE  /\ toServer # <<>> /\ srv = "run"
           /\ ~late => call \in Calls /\ call.op = op /\ pc = "wait" /\ ~served
           /\ Connected => ~late
<1>1. toServer # <<>> /\ srv = "run"
  BY DEF Request_, HasArgs
<1>2. PICK c \in Calls, a \in Addresses : Pending(c, a) /\ c.op = op
  BY RequestIs DEF IndInv
<1> QED
  BY <1>1, <1>2 DEF Pending, IndInv, Turns

\* The answer of a handler that leaves the server as it is.
LEMMA AskedKeeps ==
    ASSUME IndInv, toServer # <<>>, toServer' = <<>>, UNCHANGED server, exec'.got = exec'.meant,
           NEW s, NEW r, Answer(s, r),
           ~late => Understood(s, r),
           ~late /\ r.ret >= 0 => call.op \notin {"O", "T", "M"}
    PROVE  IndInv'
<1>1. /\ srv' = srv /\ scsi' = scsi /\ sbuf' = sbuf /\ target' = target /\ sbufsize' = sbufsize
      /\ scsi' \in BOOLEAN /\ sbuf' \in BOOLEAN /\ target' \in Addresses /\ sbufsize' \in 0 .. MaxDma
  BY TypesEach DEF server, Each, IndInv
<1>2. PICK c \in Calls, a \in Addresses : Pending(c, a)
  BY DEF IndInv, OneRequest
<1>3. ASSUME Connected
      PROVE  /\ isopen => scsi'
             /\ sbuf' \/ sbufsize' = 0 \/ bufbase = "given back"
             /\ fd # NoTarget /\ call.op \notin {"T", "C"} => scsi' /\ target' = fd /\ addr = fd
             /\ call.op = "O" /\ r.ret >= 0 => scsi'
             /\ call.op = "T" /\ r.ret >= 0 => scsi' /\ target' = call.target
             /\ call.op = "M" /\ r.ret >= 0 => sbuf'
  BY <1>1, <1>3 DEF IndInv, Agreed, Turns
<1> QED
  BY <1>1, <1>3, AnswerKeeps

\* An error leaves the server as it is.
LEMMA ErrorKeeps ==
    ASSUME IndInv, toServer # <<>>, toServer' = <<>>, UNCHANGED <<server, exec>>,
           NEW e \in Int, ErrorReply(e, 0)
    PROVE  IndInv'
<1> DEFINE s == <<[k |-> "E", v |-> e], Line(0), Line(0)>> \o Bytes(0, TEXT)
           r == [ret |-> -1, errno |-> e, extra |-> <<>>]
<1>1. Understood(s, r)
  BY ErrorIs
<1>2. Answer(s, r)
  BY DEF ErrorReply
<1>3. exec'.got = exec'.meant
  BY DEF IndInv, ExecutedAsMeant
<1>4. ~(r.ret >= 0)
  OBVIOUS
<1> HIDE DEF s, r
<1> QED
  BY <1>1, <1>2, <1>3, <1>4, AskedKeeps

\* So does an answer, but to an open, to the choice of a drive and to the
\* request for the buffer.
LEMMA ReplyKeeps ==
    ASSUME IndInv, toServer # <<>>, toServer' = <<>>, UNCHANGED <<server, exec>>,
           NEW n \in Int, NEW more \in Seq(Item), Reply(n, more),
           ~late => /\ call.op \notin {"O", "S"} /\ (n >= 0 => call.op \notin {"T", "M"})
                    /\ Len(more) = IF call.op = "V" THEN n ELSE 0
    PROVE  IndInv'
<1> DEFINE s == <<[k |-> "A", v |-> n]>> \o more
           r == [ret |-> n, errno |-> 0, extra |-> Values(more)]
<1>1. ~late => Understood(s, r)
  BY ReplyIs
<1>2. Answer(s, r)
  BY DEF Reply
<1>3. exec'.got = exec'.meant
  BY DEF IndInv, ExecutedAsMeant
<1>4. r.ret = n
  OBVIOUS
<1> HIDE DEF s, r
<1> QED
  BY <1>1, <1>2, <1>3, <1>4, AskedKeeps

LEMMA NumberKeeps ==
    ASSUME IndInv, toServer # <<>>, toServer' = <<>>, UNCHANGED <<server, exec>>,
           NEW n \in Int, Reply(n, <<>>),
           ~late => call.op \notin {"O", "S", "V"} /\ (n >= 0 => call.op \notin {"T", "M"})
    PROVE  IndInv'
<1> DEFINE e == <<>>
<1>1. e \in Seq(Item) /\ Len(e) = 0 /\ Reply(n, e)
  BY EmptySeq
<1>2. ~late => /\ call.op \notin {"O", "S"} /\ (n >= 0 => call.op \notin {"T", "M"})
               /\ Len(e) = IF call.op = "V" THEN n ELSE 0
  BY <1>1
<1> HIDE DEF e
<1> QED
  BY <1>1, <1>2, ReplyKeeps

LEMMA VersionKeeps ==
    ASSUME IndInv, scsiversion
    PROVE  IndInv'
<1>1. "V" \in Ops \ {"S"} /\ EBADF \in Int
  BY DEF Ops, EBADF
<1>2. toServer # <<>> /\ toServer' = <<>> /\ (~late => call.op = "V") /\ UNCHANGED <<server, exec>>
  BY <1>1, HandlerIs, ArgsRead DEF scsiversion, IndInv
<1>3. CASE scsi
  <2>1. PICK n \in 1 .. 2 : Reply(n, Bytes(n, TEXT))
    BY <1>3 DEF scsiversion, IfOpen
  <2>2. n \in Int /\ n \in Nat /\ TEXT \in Int
    BY DEF TEXT
  <2>3. Bytes(n, TEXT) \in Seq(Item) /\ Len(Bytes(n, TEXT)) = n
    BY <2>2, BytesIs
  <2> QED
    BY <1>2, <2>1, <2>2, <2>3, ReplyKeeps
<1>4. CASE ~scsi
  BY <1>1, <1>2, <1>4, ErrorKeeps DEF scsiversion, IfOpen
<1> QED
  BY <1>3, <1>4

LEMMA AskKeeps ==
    ASSUME IndInv, NEW op \in {"B", "I", "A", "R"}, Ask_(op)
    PROVE  IndInv'
<1>1. op \in Ops \ {"S"} /\ EBADF \in Int /\ EIO \in Int
  BY DEF Ops, EBADF, EIO
<1>2. toServer # <<>> /\ toServer' = <<>> /\ (~late => call.op = op) /\ UNCHANGED <<server, exec>>
  BY <1>1, HandlerIs, ArgsRead DEF Ask_, IndInv
<1>3. CASE scsi
  <2>1. PICK n \in {-1, 1} : Respond(n, EIO)
    BY <1>3 DEF Ask_, IfOpen
  <2>2. CASE n < 0
    BY <1>1, <1>2, <2>1, <2>2, ErrorKeeps DEF Respond
  <2>3. CASE ~(n < 0)
    <3>1. Reply(n, <<>>) /\ n \in Int
      BY <2>1, <2>3 DEF Respond
    <3>2. ~late => call.op \notin {"O", "S", "V", "T", "M"}
      BY <1>2
    <3> QED
      BY <1>2, <3>1, <3>2, NumberKeeps
  <2> QED
    BY <2>2, <2>3
<1>4. CASE ~scsi
  BY <1>1, <1>2, <1>4, ErrorKeeps DEF Ask_, IfOpen
<1> QED
  BY <1>3, <1>4

LEMMA MaxdmaKeeps ==
    ASSUME IndInv, maxdma
    PROVE  IndInv'
<1>1. "D" \in Ops \ {"S"} /\ EBADF \in Int /\ Args("D") = 1
  BY DEF Ops, EBADF, Args
<1>2. toServer # <<>> /\ toServer' = <<>> /\ (~late => call.op = "D") /\ UNCHANGED <<server, exec>>
  BY <1>1, HandlerIs, ArgsRead DEF maxdma, IndInv
<1>3. CASE scsi
  <2>1. Reply(Bufsize(Arg(1)), <<>>)
    BY <1>3 DEF maxdma, IfOpen
  <2>2. Bufsize(Arg(1)) \in Int
    BY <1>1, SizeIs DEF maxdma, IndInv
  <2>3. ~late => call.op \notin {"O", "S", "V", "T", "M"}
    BY <1>2
  <2> QED
    BY <1>2, <2>1, <2>2, <2>3, NumberKeeps
<1>4. CASE ~scsi
  BY <1>1, <1>2, <1>4, ErrorKeeps DEF maxdma, IfOpen
<1> QED
  BY <1>3, <1>4

\* The variables of the server have their types.
LEMMA ServerTypes ==
    ASSUME IndInv
    PROVE  /\ scsi \in BOOLEAN /\ sbuf \in BOOLEAN /\ target \in Addresses /\ sbufsize \in 0 .. MaxDma
           /\ exec.got = exec.meant
BY TypesEach DEF IndInv, Each, ExecutedAsMeant

\* What the program and the server agreed on when the call was made.
LEMMA WasAgreed ==
    ASSUME IndInv, Connected, ~served, toServer # <<>>
    PROVE  /\ ~late /\ pc = "wait"
           /\ isopen => scsi
           /\ sbuf \/ sbufsize = 0 \/ bufbase = "given back"
           /\ fd # NoTarget => scsi /\ target = fd /\ addr = fd
BY DEF IndInv, Agreed, Turns

\* The server ends.
LEMMA ExitKeeps ==
    ASSUME IndInv, toServer' = <<>>, NEW how \in {"done", "bad", "crashed", "comerr"}, Exit(how)
    PROVE  IndInv'
<1>1. /\ srv' = how /\ scsi' = FALSE /\ target' = NoTarget /\ sbuf' = FALSE /\ sbufsize' = 0
      /\ link' = link /\ toClient' = toClient
      /\ pc' = pc /\ call' = call /\ isopen' = isopen /\ fd' = fd /\ addr' = addr /\ bufbase' = bufbase
      /\ served' = served /\ answer' = answer /\ taken' = taken /\ exec' = exec /\ late' = late /\ lost' = lost
  BY DEF Exit, client, history
<1>2. ~Connected'
  BY <1>1 DEF Connected
<1>3. Types'
  <2>1. <<>> \in Seq(Item)
    BY EmptySeq
  <2>2. Each'
    <3>1. Each
      BY TypesEach DEF IndInv
    <3>2. /\ srv' \in {"run", "done", "bad", "garbage", "crashed", "comerr"}
          /\ scsi' \in BOOLEAN /\ sbuf' \in BOOLEAN /\ target' \in Addresses
      BY <1>1, Constants
    <3>3. sbufsize' \in 0 .. MaxDma
      BY <1>1, Constants
    <3> QED
      BY <1>1, <2>1, <3>1, <3>2, <3>3 DEF Each
  <2> QED
    BY <2>2, EachTypes
<1>4. OneRequest' /\ Turns' /\ Agreed'
  BY <1>2 DEF OneRequest, Turns, Agreed
<1>5. OneAnswer'
  <2>1. toClient # <<>> => \E x \in Seq(Item) : Whole(x) /\ Prefix(toClient, x)
    BY DEF OneAnswer, IndInv
  <2>2. ASSUME NEW x \in Seq(Item), Whole(x)
        PROVE  Whole(x)'
    BY <1>1, <2>2, WholeStays
  <2>3. \A x : Prefix(toClient, x) => Prefix(toClient, x)'
    BY <1>1 DEF Prefix
  <2>4. toClient' # <<>> => \E x \in Seq(Item) : Whole(x)' /\ Prefix(toClient, x)'
    BY <1>1, <2>1, <2>2, <2>3
  <2> QED
    BY <1>1, <1>2, <2>4 DEF OneAnswer, IndInv
<1>6. Lost' /\ History' /\ Known' /\ ExecutedAsMeant'
  BY <1>1 DEF Lost, History, Known, ExecutedAsMeant, IndInv
<1> QED
  BY <1>3, <1>4, <1>5, <1>6 DEF IndInv

LEMMA OpenKeeps ==
    ASSUME IndInv, openscsi
    PROVE  IndInv'
<1>1. "O" \in Ops /\ "O" \in Ops \ {"S"} /\ Args("O") = 1 /\ ENXIO \in Int
  BY DEF Ops, Args, ENXIO
<1>2. toServer # <<>> /\ toServer' = <<>> /\ srv = "run" /\ (~late => call.op = "O" /\ ~served)
  BY <1>1, HandlerIs, ArgsRead DEF openscsi, IndInv
<1>3. toServer[2].v \in Addresses
  <2>1. PICK c \in Calls, a \in Addresses :
            /\ c.op = "O" /\ c.name # "cut"
            /\ \A i \in 1 .. Args("O") : toServer[1 + i] = Arguments(c)[i]
    BY <1>1, RequestIs DEF openscsi, IndInv
  <2>2. toServer[1 + 1] = Arguments(c)[1]
    BY <1>1, <2>1
  <2>3. Arguments(c)[1] = Device(c) /\ c.target \in Addresses
    BY <2>1, ArgumentsIs, CallsAre
  <2> QED
    BY <2>2, <2>3 DEF Device
<1>4. CASE toServer[2].name = "REMOTE"
  BY <1>2, <1>4, ExitKeeps DEF openscsi
<1>5. CASE toServer[2].name # "REMOTE"
  <2>1. srv' = srv /\ sbuf' = sbuf /\ sbufsize' = sbufsize /\ exec' = exec
    BY <1>5 DEF openscsi
  <2>2. Connected => fd = NoTarget /\ ~isopen /\ (sbuf \/ sbufsize = 0 \/ bufbase = "given back") /\ call.op = "O"
    BY <1>2, WasAgreed, HandlerIs DEF IndInv, Turns, Known
  <2> DEFINE v == toServer[2].v
  <2>3. CASE OpenOk(toServer[2])
    <3> DEFINE more == <<Line(v), Line(0), Line(v), Line(v)>>
               s == <<[k |-> "A", v |-> 0]>> \o more
               r == [ret |-> 0, errno |-> 0, extra |-> Values(more)]
    <3>1. scsi' = TRUE /\ target' = v /\ Answer(s, r)
      BY <2>3 DEF OpenOk, Reply
    <3>2. more \in Seq(Item) /\ Len(more) = 4 /\ more[1].v = v
      <4> DEFINE lv == Line(v)
                 lz == Line(0)
      <4>1. lv \in Item /\ lz \in Item /\ lv.v = v
        BY <1>3 DEF Line, Item
      <4>2. more = <<lv, lz, lv, lv>>
        OBVIOUS
      <4> HIDE DEF lv, lz, more
      <4> QED
        BY <4>1, <4>2
    <3>3. r.ret = 0 /\ r.extra = Values(more)
      OBVIOUS
    <3> HIDE DEF more
    <3>4. Values(more)[1] = v
      BY <3>2 DEF Values
    <3>5. ~late => Understood(s, r)
      <4>1. ASSUME ~late
            PROVE  /\ call.op # "S"
                   /\ Len(more) = IF call.op = "O" THEN 4 ELSE IF call.op = "V" THEN 0 ELSE 0
        BY <1>2, <3>2, <4>1
      <4> QED
        BY <3>2, <4>1, ReplyIs
    <3> HIDE DEF s, r, v
    <3>6. v \in Addresses
      BY <1>3 DEF v
    <3>7. r.extra[1] \in Addresses
      BY <3>3, <3>4, <3>6
    <3> QED
      BY <1>2, <2>1, <2>2, <3>1, <3>3, <3>5, <3>6, <3>7, ServerTypes, AnswerKeeps
  <2>4. CASE OpenFails
    <3>1. PICK text \in 1 .. 2 : ErrorReply(ENXIO, text)
      BY <2>4 DEF OpenFails
    <3> DEFINE s == <<[k |-> "E", v |-> ENXIO], Line(0), Line(text)>> \o Bytes(text, TEXT)
               r == [ret |-> -1, errno |-> ENXIO, extra |-> <<>>]
    <3>2. Answer(s, r) /\ ~(r.ret >= 0)
      BY <3>1 DEF ErrorReply
    <3>3. Understood(s, r)
      <4>1. text \in Nat
        OBVIOUS
      <4> QED
        BY <1>1, <4>1, ErrorIs
    <3>4. scsi' = FALSE /\ target' = NoTarget
      BY <2>4 DEF OpenFails
    <3> HIDE DEF s, r
    <3> QED
      BY <1>2, <2>1, <2>2, <3>2, <3>3, <3>4, ServerTypes, Constants, AnswerKeeps
  <2> QED
    BY <1>5, <2>3, <2>4 DEF openscsi
<1> QED
  BY <1>4, <1>5

LEMMA CloseKeeps ==
    ASSUME IndInv, closescsi
    PROVE  IndInv'
<1>1. "C" \in Ops \ {"S"} /\ "C" \in Ops
  BY DEF Ops
<1>2. /\ toServer # <<>> /\ toServer' = <<>> /\ srv = "run"
      /\ (~late => call.op = "C" /\ ~served) /\ (Connected => ~late)
  BY <1>1, HandlerIs, ArgsRead DEF closescsi, IndInv
<1>3. CASE scsi
  <2>1. /\ scsi' = FALSE /\ target' = NoTarget /\ srv' = srv /\ sbuf' = sbuf /\ sbufsize' = sbufsize
        /\ exec' = exec /\ Reply(0, <<>>)
    BY <1>3 DEF closescsi
  <2>2. Connected => ~isopen /\ (sbuf \/ sbufsize = 0 \/ bufbase = "given back") /\ call.op = "C"
    BY <1>2, WasAgreed DEF IndInv, Known
  <2> DEFINE more == <<>>
             n == 0
             s == <<[k |-> "A", v |-> n]>> \o more
             r == [ret |-> n, errno |-> 0, extra |-> Values(more)]
  <2>3. Answer(s, r)
    BY <2>1 DEF Reply
  <2>4. more \in Seq(Item) /\ Len(more) = 0 /\ n \in Int
    BY EmptySeq
  <2> HIDE DEF more, n
  <2>5. ASSUME ~late
        PROVE  /\ call.op # "S"
               /\ Len(more) = IF call.op = "O" THEN 4 ELSE IF call.op = "V" THEN n ELSE 0
    BY <1>2, <2>4, <2>5
  <2>6. ~late => Understood(s, r)
    BY <2>4, <2>5, ReplyIs
  <2> HIDE DEF s, r
  <2> QED
    BY <1>2, <2>1, <2>2, <2>3, <2>6, ServerTypes, Constants, AnswerKeeps
<1>4. CASE ~scsi
  BY <1>2, <1>4, ExitKeeps DEF closescsi
<1> QED
  BY <1>3, <1>4

\* A number, and a handler that changes what the server has.
LEMMA NumberChanges ==
    ASSUME IndInv, toServer # <<>>, toServer' = <<>>, UNCHANGED <<srv, exec>>,
           scsi' \in BOOLEAN, sbuf' \in BOOLEAN, target' \in Addresses, sbufsize' \in 0 .. MaxDma,
           NEW n \in Int, Reply(n, <<>>), ~late => call.op \notin {"O", "S", "V"},
           Connected =>
               /\ isopen => scsi'
               /\ sbuf' \/ sbufsize' = 0 \/ bufbase = "given back"
               /\ fd # NoTarget /\ call.op \notin {"T", "C"} => scsi' /\ target' = fd /\ addr = fd
               /\ call.op = "T" /\ n >= 0 => scsi' /\ target' = call.target
               /\ call.op = "M" /\ n >= 0 => sbuf'
    PROVE  IndInv'
<1> DEFINE more == <<>>
           s == <<[k |-> "A", v |-> n]>> \o more
           r == [ret |-> n, errno |-> 0, extra |-> Values(more)]
<1>1. Answer(s, r)
  BY DEF Reply
<1>2. more \in Seq(Item) /\ Len(more) = 0
  BY EmptySeq
<1> HIDE DEF more
<1>3. ASSUME ~late
      PROVE  /\ call.op # "S"
             /\ Len(more) = IF call.op = "O" THEN 4 ELSE IF call.op = "V" THEN n ELSE 0
  BY <1>2, <1>3
<1>4. ~late => Understood(s, r)
  BY <1>2, <1>3, ReplyIs
<1>5. r.ret = n /\ exec'.got = exec'.meant /\ (Connected => ~late)
  BY ServerTypes DEF IndInv, Turns
<1> HIDE DEF s, r
<1> QED
  BY <1>1, <1>4, <1>5, AnswerKeeps

\* An error, and a handler that changes what the server has.
LEMMA ErrorChanges ==
    ASSUME IndInv, toServer # <<>>, toServer' = <<>>, UNCHANGED <<srv, exec>>,
           scsi' \in BOOLEAN, sbuf' \in BOOLEAN, target' \in Addresses, sbufsize' \in 0 .. MaxDma,
           NEW e \in Int, ErrorReply(e, 0),
           Connected =>
               /\ isopen => scsi'
               /\ sbuf' \/ sbufsize' = 0 \/ bufbase = "given back"
               /\ fd # NoTarget /\ call.op \notin {"T", "C"} => scsi' /\ target' = fd /\ addr = fd
    PROVE  IndInv'
<1> DEFINE s == <<[k |-> "E", v |-> e], Line(0), Line(0)>> \o Bytes(0, TEXT)
           r == [ret |-> -1, errno |-> e, extra |-> <<>>]
<1>1. Understood(s, r)
  BY ErrorIs
<1>2. Answer(s, r)
  BY DEF ErrorReply
<1>3. exec'.got = exec'.meant
  <2>1. exec' = exec
    OBVIOUS
  <2> QED
    BY <2>1, ServerTypes
<1>4. ~(r.ret >= 0)
  <2>1. r.ret = -1
    OBVIOUS
  <2> HIDE DEF r
  <2> QED
    BY ONLY <2>1
<1> HIDE DEF s, r
<1> QED
  BY <1>1, <1>2, <1>3, <1>4, AnswerKeeps

LEMMA GetbufKeeps ==
    ASSUME IndInv, getbuf
    PROVE  IndInv'
<1>1. "M" \in Ops \ {"S"} /\ "M" \in Ops /\ EBADF \in Int /\ ENOMEM \in Int
  BY DEF Ops, EBADF, ENOMEM
<1>2. /\ toServer # <<>> /\ toServer' = <<>> /\ UNCHANGED <<srv, scsi, target, exec>>
      /\ (~late => call.op = "M" /\ ~served) /\ (Connected => ~late)
  BY <1>1, HandlerIs, ArgsRead DEF getbuf, IndInv
<1>3. Connected => /\ isopen => scsi
                   /\ sbuf \/ sbufsize = 0 \/ bufbase = "given back"
                   /\ fd # NoTarget => scsi /\ target = fd /\ addr = fd
                   /\ call.op = "M"
  BY <1>2, WasAgreed
<1>4. Bufsize(Arg(1)) \in 1 .. MaxDma
  BY SizeIs DEF getbuf, IndInv
<1> DEFINE n == Bufsize(Arg(1))
<1>5. CASE scsi /\ PrepareOk /\ Reply(n, <<>>)
  <2>1. sbuf' = TRUE /\ sbufsize' = n
    BY <1>5 DEF PrepareOk
  <2>2. n \in Int /\ n \in 0 .. MaxDma
    BY <1>4, Constants
  <2>3. Reply(n, <<>>)
    BY <1>5
  <2> HIDE DEF n
  <2> QED
    BY <1>2, <1>3, <2>1, <2>2, <2>3, ServerTypes, NumberChanges
<1>6. CASE scsi /\ PrepareFails /\ Respond(-1, ENOMEM)
  <2>1. sbuf' = FALSE /\ sbufsize' = 0 /\ ErrorReply(ENOMEM, 0) /\ 0 \in 0 .. MaxDma
    BY <1>6, Constants DEF PrepareFails, Respond
  <2> QED
    BY <1>1, <1>2, <1>3, <2>1, ServerTypes, ErrorChanges
<1>7. CASE ~scsi
  <2>1. ErrorReply(EBADF, 0) /\ UNCHANGED <<server, exec>>
    BY <1>7, <1>2 DEF getbuf, IfOpen, server
  <2> QED
    BY <1>1, <1>2, <2>1, ErrorKeeps
<1> QED
  BY <1>5, <1>6, <1>7 DEF getbuf, IfOpen

LEMMA FreebufKeeps ==
    ASSUME IndInv, freebuf
    PROVE  IndInv'
<1>1. "F" \in Ops \ {"S"} /\ "F" \in Ops /\ EBADF \in Int
  BY DEF Ops, EBADF
<1>2. /\ toServer # <<>> /\ toServer' = <<>> /\ UNCHANGED <<srv, scsi, target, sbufsize, exec>>
      /\ (~late => call.op = "F" /\ ~served) /\ (Connected => ~late)
  BY <1>1, HandlerIs, ArgsRead DEF freebuf, IndInv
<1>3. Connected => /\ isopen => scsi
                   /\ bufbase = "given back"
                   /\ fd # NoTarget => scsi /\ target = fd /\ addr = fd
                   /\ call.op = "F"
  BY <1>2, WasAgreed DEF IndInv, Known
<1>4. CASE scsi
  <2>1. sbuf' = FALSE /\ Reply(0, <<>>)
    BY <1>4 DEF freebuf, IfOpen
  <2>2. ~late => call.op \notin {"O", "S", "V"}
    BY <1>2
  <2> DEFINE n == 0
  <2>3. n \in Int /\ Reply(n, <<>>)
    BY <2>1
  <2> HIDE DEF n
  <2> QED
    BY <1>2, <1>3, <2>1, <2>2, <2>3, ServerTypes, NumberChanges
<1>5. CASE ~scsi
  <2>1. ErrorReply(EBADF, 0) /\ UNCHANGED <<server, exec>>
    BY <1>5, <1>2 DEF freebuf, IfOpen, server
  <2> QED
    BY <1>1, <1>2, <2>1, ErrorKeeps
<1> QED
  BY <1>4, <1>5

LEMMA FilenoKeeps ==
    ASSUME IndInv, scsifileno
    PROVE  IndInv'
<1>1. "T" \in Ops \ {"S"} /\ "T" \in Ops /\ EBADF \in Int /\ EIO \in Int /\ Args("T") = 4
  BY DEF Ops, EBADF, EIO, Args
<1>2. /\ toServer # <<>> /\ toServer' = <<>> /\ UNCHANGED <<srv, scsi, sbuf, sbufsize, exec>>
      /\ (~late => call.op = "T" /\ ~served) /\ (Connected => ~late)
  BY <1>1, HandlerIs, ArgsRead DEF scsifileno, IndInv
<1>3. Connected => /\ isopen => scsi
                   /\ sbuf \/ sbufsize = 0 \/ bufbase = "given back"
                   /\ call.op = "T"
  BY <1>2, WasAgreed
<1>4. ~late => call.op \notin {"O", "S", "V"}
  BY <1>2
<1>5. ~late => Arg(1) = call.target
  <2>1. PICK c \in Calls, a \in Addresses :
            /\ Pending(c, a) /\ c.op = "T"
            /\ \A i \in 1 .. Args("T") : toServer[1 + i] = Arguments(c)[i]
    BY <1>1, RequestIs DEF scsifileno, IndInv
  <2>2. toServer[1 + 1] = Arguments(c)[1]
    BY <1>1, <2>1
  <2>3. Arguments(c)[1].v = c.target
    BY <2>1, ArgumentsIs
  <2>4. ~late => c = call
    BY <2>1 DEF Pending
  <2> QED
    BY <2>2, <2>3, <2>4 DEF Arg
<1>6. CASE scsi /\ Arg(1) \in Allowed /\ target' = Arg(1) /\ Reply(1, <<>>)
  <2> DEFINE n == 1
  <2>1. n \in Int /\ Reply(n, <<>>)
    BY <1>6
  <2> HIDE DEF n
  <2>2. target' \in Addresses
    BY <1>6, Constants
  <2>3. Connected => target' = call.target
    BY <1>2, <1>5, <1>6
  <2> QED
    BY <1>2, <1>3, <1>4, <1>6, <2>1, <2>2, <2>3, ServerTypes, NumberChanges
<1>7. CASE scsi /\ target' = NoTarget /\ Respond(-1, EIO)
  <2>1. ErrorReply(EIO, 0) /\ target' \in Addresses
    BY <1>7, Constants DEF Respond
  <2> QED
    BY <1>1, <1>2, <1>3, <2>1, ServerTypes, ErrorChanges
<1>8. CASE scsi /\ target' = NoTarget /\ Reply(-1, <<>>)
  <2> DEFINE n == -1
  <2>1. n \in Int /\ Reply(n, <<>>) /\ ~(n >= 0)
    BY <1>8
  <2> HIDE DEF n
  <2>2. target' \in Addresses
    BY <1>8, Constants
  <2> QED
    BY <1>2, <1>3, <1>4, <2>1, <2>2, ServerTypes, NumberChanges
<1>9. CASE ~scsi
  <2>1. ErrorReply(EBADF, 0) /\ UNCHANGED <<server, exec>>
    BY <1>9, <1>2 DEF scsifileno, IfOpen, server
  <2> QED
    BY <1>1, <1>2, <2>1, ErrorKeeps
<1> QED
  BY <1>6, <1>7, <1>8, <1>9 DEF scsifileno, IfOpen

LEMMA RefuseKeeps ==
    ASSUME IndInv, Refuse
    PROVE  IndInv'
<1>1. "S" \in Ops /\ EINVAL \in Int /\ EBADF \in Int
  BY DEF Ops, EINVAL, EBADF
<1>2. toServer # <<>>
  BY <1>1, HandlerIs DEF Refuse
<1>3. toServer' = <<>>
  BY PayloadIs DEF Refuse, IndInv
<1> DEFINE e == IF scsi THEN EINVAL ELSE EBADF
<1>4. e \in Int /\ ErrorReply(e, 0) /\ UNCHANGED <<server, exec>>
  BY <1>1 DEF Refuse
<1> HIDE DEF e
<1> QED
  BY <1>2, <1>3, <1>4, ErrorKeeps

LEMMA ExecuteKeeps ==
    ASSUME IndInv, Execute
    PROVE  IndInv'
<1>1. "S" \in Ops
  BY DEF Ops
<1>2. toServer # <<>> /\ (~late => call \in Calls /\ call.op = "S")
  BY <1>1, HandlerIs DEF Execute
<1>3. toServer' = <<>> /\ UNCHANGED server
  BY PayloadIs DEF Execute, IndInv
<1>4. exec'.got = exec'.meant
  <2>1. CASE target = NoTarget \/ late
    <3>1. exec' = exec
      BY <2>1 DEF Execute
    <3> QED
      BY <3>1 DEF IndInv, ExecutedAsMeant
  <2>2. CASE ~(target = NoTarget \/ late)
    <3>1. exec' = [got |-> Executed, meant |-> Meant(csize, Recv)]
      BY <2>2 DEF Execute
    <3>2. Executed = Meant(csize, Recv)
      BY <2>2, CommandArrives DEF Execute, IndInv
    <3> QED
      BY <3>1, <3>2
  <2> QED
    BY <2>1, <2>2
<1>5. PICK o \in Outcomes : CommandAnswer(o)
  BY DEF Execute
<1>6. PICK c \in Calls, a \in Addresses :
          Pending(c, a) /\ csize = c.amount /\ csize \in Nat /\ (Recv <=> c.recv)
  BY PayloadIs DEF Execute, IndInv
<1>7. o.n \in Nat /\ o.error \in Int /\ o.sense \in 0 .. MaxSense
  <2>1. CASE target = NoTarget
    <3>1. o = [n |-> csize, error |-> 2, sense |-> 0]
      BY <1>5, <2>1 DEF Outcomes
    <3> QED
      BY <1>6, <3>1, Constants
  <2>2. CASE target # NoTarget
    <3>1. o \in [n : {0, csize}, error : {0, 1}, sense : {0, MaxSense}]
      BY <1>5, <2>2 DEF Outcomes
    <3>2. o.n \in {0, csize} /\ o.error \in {0, 1} /\ o.sense \in {0, MaxSense}
      BY <3>1
    <3> QED
      BY <1>6, <3>2, Constants
  <2> QED
    BY <2>1, <2>2
<1> DEFINE m == IF Recv THEN o.n ELSE 0
           s == <<[k |-> "A", v |-> o.n], Line(o.error), Line(0), Line(0), Line(o.sense)>>
                   \o Bytes(o.sense, SENSE) \o Bytes(m, DATA)
           r == [ret |-> o.n, errno |-> 0, extra |-> <<o.error, o.sense>> \o Values(Bytes(m, DATA))]
<1>8. Answer(s, r)
  BY <1>5 DEF CommandAnswer
<1>9. ~late => Understood(s, r)
  <2> SUFFICES ASSUME ~late
               PROVE  Understood(s, r)
    OBVIOUS
  <2>1. c = call
    BY <1>6 DEF Pending
  <2>2. call.op = "S" /\ call.recv \in BOOLEAN
    BY <1>2, CallsAre
  <2>3. m \in Nat /\ m = IF call.recv THEN o.n ELSE 0
    BY <1>6, <1>7, <2>1
  <2> HIDE DEF m
  <2> QED
    BY <1>7, <2>2, <2>3, CommandIs
<1>10. ~late => call.op \notin {"O", "T", "M"}
  BY <1>2
<1> HIDE DEF s, r
<1> QED
  BY <1>2, <1>3, <1>4, <1>8, <1>9, <1>10, AskedKeeps

\* What the server does not get to do: follow a null pointer.
LEMMA BufferIsThere ==
    ASSUME IndInv, Request_("S"), ~Refused
    PROVE  ~Overrun
<1>1. PICK c \in Calls, a \in Addresses :
          Pending(c, a) /\ c.op = "S" /\ csize = c.amount /\ csize \in Nat
  BY PayloadIs DEF IndInv
<1>2. csize > 0 => sbuf \/ sbufsize = 0
  BY <1>1 DEF Pending
<1>3. ~(csize > sbufsize)
  BY DEF Refused
<1> QED
  BY <1>1, <1>2, <1>3 DEF Overrun

LEMMA ExecuteFailsKeeps ==
    ASSUME IndInv, ExecuteFails
    PROVE  IndInv'
<1>1. toServer' = <<>>
  BY PayloadIs DEF ExecuteFails, IndInv
<1> DEFINE how == IF Overrun THEN "crashed" ELSE "comerr"
<1>2. Exit(how) /\ how \in {"done", "bad", "crashed", "comerr"}
  BY DEF ExecuteFails
<1> HIDE DEF how
<1> QED
  BY <1>1, <1>2, ExitKeeps

\* What comes to the server is a request or the beginning of one.
LEMMA NoGarbage ==
    ASSUME Types, OneRequest, srv = "run"
    PROVE  ~Garbage
<1> SUFFICES ASSUME ~HasArgs
             PROVE  MissingArgs
  BY DEF Garbage
<1>1. CASE toServer = <<>>
  BY <1>1 DEF MissingArgs
<1>2. CASE toServer # <<>>
  <2> DEFINE n == Len(toServer)
  <2>1. PICK c \in Calls, a \in Addresses : Pending(c, a)
    BY <1>2 DEF OneRequest
  <2>2. /\ n \in 1 .. 1 + Args(c.op) + DataBytes(c)
        /\ Head(toServer) = [k |-> "letter", v |-> c.op, on |-> a] /\ Head(toServer) = toServer[1]
        /\ \A i \in 1 .. Args(c.op) + DataBytes(c) : i < n => toServer[1 + i] = Arguments(c)[i]
    BY <1>2, <2>1, PendingIs
  <2>3. /\ Args(c.op) \in 1 .. 5 /\ DataBytes(c) \in Nat
        /\ \A i \in 1 .. Args(c.op) : Arguments(c)[i].k \in {"line", "part"}
    BY ArgumentsIs, CallsAre
  <2>4. n <= 1 + Args(c.op)
    <3> SUFFICES ASSUME n > 1 + Args(c.op)
                 PROVE  FALSE
      BY <2>2, <2>3
    <3>1. c.op = "S"
      BY <2>2, <2>3 DEF DataBytes
    <3>2. ASSUME NEW i \in 1 .. Args(c.op)
          PROVE  toServer[1 + i].k = "line"
      <4>1. i \in 1 .. Args(c.op) + DataBytes(c) /\ i < n
        BY <2>3
      <4>2. toServer[1 + i] = Arguments(c)[i]
        BY <2>2, <4>1
      <4>3. Arguments(c)[i].k = "line"
        BY <3>1, ArgumentsIs
      <4> QED
        BY <4>2, <4>3
    <3>3. Head(toServer).k = "letter" /\ Head(toServer).v = c.op
      BY <2>2
    <3>4. n > Args(c.op)
      BY <2>2, <2>3
    <3> QED
      BY <1>2, <3>2, <3>3, <3>4 DEF HasArgs
  <2>5. toServer[1].k = "letter"
    BY <2>2
  <2>6. ASSUME NEW i \in 1 .. n, i # 1
        PROVE  toServer[i].k \in {"line", "part"}
    <3> DEFINE j == i - 1
    <3>1. j \in 1 .. Args(c.op) + DataBytes(c) /\ j < n /\ 1 + j = i /\ j \in 1 .. Args(c.op)
      BY <2>2, <2>3, <2>4, <2>6
    <3> HIDE DEF j
    <3>2. toServer[1 + j] = Arguments(c)[j]
      BY <2>2, <3>1
    <3> QED
      BY <2>3, <3>1, <3>2
  <2> QED
    BY <2>5, <2>6 DEF MissingArgs
<1> QED
  BY <1>1, <1>2

LEMMA EndKeeps ==
    ASSUME IndInv, EndOfInput
    PROVE  IndInv'
<1> DEFINE how == IF Garbage THEN "garbage" ELSE IF MissingPayload THEN "bad" ELSE "done"
<1>1. ~Garbage
  BY NoGarbage DEF EndOfInput, IndInv
<1>2. Exit(how) /\ toServer' = <<>>
  BY DEF EndOfInput
<1>3. how \in {"done", "bad", "crashed", "comerr"}
  BY <1>1
<1> HIDE DEF how
<1> QED
  BY <1>2, <1>3, ExitKeeps

LEMMA ServerKeeps ==
    ASSUME IndInv, Server
    PROVE  IndInv'
<1>1. CASE scsiversion
  BY <1>1, VersionKeeps
<1>2. CASE openscsi
  BY <1>2, OpenKeeps
<1>3. CASE closescsi
  BY <1>3, CloseKeeps
<1>4. CASE maxdma
  BY <1>4, MaxdmaKeeps
<1>5. CASE getbuf
  BY <1>5, GetbufKeeps
<1>6. CASE freebuf
  BY <1>6, FreebufKeeps
<1>7. CASE havebus \/ initiator_id \/ isatapi \/ scsireset
  BY <1>7, AskKeeps DEF havebus, initiator_id, isatapi, scsireset
<1>8. CASE scsifileno
  BY <1>8, FilenoKeeps
<1>9. CASE Refuse
  BY <1>9, RefuseKeeps
<1>10. CASE Execute
  BY <1>10, ExecuteKeeps
<1>11. CASE ExecuteFails
  BY <1>11, ExecuteFailsKeeps
<1>12. CASE EndOfInput
  BY <1>12, EndKeeps
<1> QED
  BY <1>1, <1>2, <1>3, <1>4, <1>5, <1>6, <1>7, <1>8, <1>9, <1>10, <1>11, <1>12 DEF Server

-----------------------------------------------------------------------------
(* The steps of the program and of its transport.                          *)

LEMMA FullHasLength ==
    ASSUME NEW c \in Calls, NEW a \in Addresses
    PROVE  /\ Full(c, a) \in Seq(Item) /\ Len(Full(c, a)) \in Nat /\ Len(Full(c, a)) >= 1
           /\ Full(c, a) # <<>> /\ <<>> \o Full(c, a) = Full(c, a)
           /\ Prefix(Full(c, a), Full(c, a))
<1> DEFINE f == Full(c, a)
<1>1. f \in Seq(Item) /\ Len(f) = 1 + Args(c.op) + DataBytes(c)
  BY FullIs
<1>2. Args(c.op) \in Nat /\ DataBytes(c) \in Nat
  BY ArgumentsIs, CallsAre
<1> HIDE DEF f
<1>3. Len(f) \in Nat /\ Len(f) >= 1
  BY <1>1, <1>2
<1>4. f # <<>> /\ <<>> \o f = f /\ Prefix(f, f)
  BY <1>1, <1>3, EmptySeq, ConcatEmptySeq, PrefixOfItself
<1> QED
  BY <1>1, <1>3, <1>4 DEF f

LEMMA LengthsAre ==
    ASSUME IndInv
    PROVE  /\ Len(toServer) \in Nat /\ Len(toServer) <= Len(toServer)
           /\ Len(toClient) \in Nat /\ Len(toClient) <= Len(toClient)
<1>1. toServer \in Seq(Item) /\ toClient \in Seq(Item)
  BY DEF IndInv, Types
<1>2. Len(toServer) \in Nat /\ Len(toClient) \in Nat
  BY <1>1, LenProperties
<1> QED
  BY <1>2

\* A request that was given up stays what it is.
LEMMA RequestStays ==
    ASSUME OneRequest, UNCHANGED server, Len(toServer') <= Len(toServer),
           \A i \in 1 .. Len(toServer') : toServer'[i] = toServer[i],
           Len(toServer) \in Nat, Len(toServer') \in Nat,
           toServer' # <<>> => toServer # <<>> /\ late' /\ ~Connected'
    PROVE  OneRequest'
<1> SUFFICES ASSUME toServer' # <<>>
             PROVE  \E c \in Calls, a \in Addresses : Pending(c, a)'
  BY DEF OneRequest
<1>1. PICK c \in Calls, a \in Addresses : Pending(c, a)
  BY DEF OneRequest
<1>2. Prefix(toServer, Full(c, a)) /\ Len(Full(c, a)) \in Nat
  BY <1>1, FullIs, LenProperties DEF Pending
<1>3. Full(c, a)' = Full(c, a)
  BY DEF Full, Arguments, Device, Line, Bytes
<1>4. Prefix(toServer, Full(c, a))'
  BY <1>2, <1>3 DEF Prefix
<1>5. Pending(c, a)'
  BY <1>1, <1>4 DEF Pending, server
<1> QED
  BY <1>5

\* A call sends its request.
LEMMA SendKeeps ==
    ASSUME IndInv, NEW c \in Calls, Ask(c), pc \in {"start", "idle", "next"},
           isopen' \in BOOLEAN, isopen' => isopen, bufbase' = bufbase \/ bufbase' = "given back",
           c.op = "O" => fd = NoTarget /\ ~isopen',
           c.op = "C" => ~isopen' /\ (Connected => scsi),
           c.op = "F" => bufbase' = "given back",
           Connected /\ c.op = "S" => (c.amount > 0 => sbuf \/ sbufsize = 0) /\ target = addr
    PROVE  IndInv'
<1>1. /\ pc' = "wait" /\ call' = c /\ link' = link /\ toClient' = toClient
      /\ srv' = srv /\ scsi' = scsi /\ target' = target /\ sbuf' = sbuf /\ sbufsize' = sbufsize
      /\ addr' = addr /\ fd' = fd
      /\ served' = served /\ answer' = answer /\ taken' = taken /\ exec' = exec /\ late' = late /\ lost' = lost
      /\ UNCHANGED server
  BY DEF Ask, server, history
<1>2. (Connected' => Connected) /\ (Connected <=> Connected')
  BY <1>1 DEF Connected
<1>3. /\ Each /\ toClient = <<>> /\ ~served /\ answer = Nothing /\ taken = Nothing
  BY TypesEach DEF IndInv, OneAnswer, History
<1> DEFINE f == Full(c, addr)
<1>4. addr \in Addresses /\ toServer \in Seq(Item)
  BY <1>3 DEF Each
<1>5. f \in Seq(Item) /\ f # <<>> /\ <<>> \o f = f /\ Prefix(f, f)
  BY <1>4, FullHasLength
<1>6. Connected => toServer' = f
  <2> SUFFICES ASSUME Connected
               PROVE  toServer' = f
    OBVIOUS
  <2>1. toServer = <<>>
    BY DEF IndInv, Turns
  <2>2. Request(c) = f
    BY DEF Request, Full, Letter
  <2> HIDE DEF f
  <2>3. toServer' = <<>> \o f
    BY <2>1, <2>2 DEF Ask
  <2> QED
    BY <1>5, <2>3
<1>7. ~Connected => toServer' = toServer
  BY DEF Ask
<1>8. OneRequest'
  <2>1. CASE Connected
    <3>0. PICK a \in Addresses : a = addr
      BY <1>4
    <3>1. Full(c, a)' = Full(c, a)
      BY DEF Full, Arguments, Device, Line, Bytes
    <3>2. Full(c, a) = f
      BY <3>0
    <3> HIDE DEF f
    <3>3. Prefix(toServer, Full(c, a))'
      BY <1>5, <1>6, <2>1, <3>1, <3>2 DEF Prefix
    <3>4. Len(toServer') = Len(Full(c, a)')
      BY <1>6, <2>1, <3>1, <3>2
    <3>5. ~late
      BY <2>1 DEF IndInv, Turns
    <3>6. Pending(c, a)'
      BY <1>1, <1>3, <2>1, <3>0, <3>3, <3>4, <3>5 DEF Pending
    <3> QED
      BY <3>0, <3>6 DEF OneRequest
  <2>2. CASE ~Connected
    <3>1. toServer # <<>> => late
      BY DEF IndInv, OneRequest, Pending
    <3>2. Len(toServer) \in Nat /\ Len(toServer) <= Len(toServer)
      BY LengthsAre
    <3>3. toServer' = toServer
      BY <1>7, <2>2
    <3> QED
      BY <1>1, <1>2, <2>2, <3>1, <3>2, <3>3, RequestStays DEF IndInv
  <2> QED
    BY <2>1, <2>2
<1> HIDE DEF f
<1>9. Types'
  <2>1. toServer' \in Seq(Item)
    BY <1>4, <1>5, <1>6, <1>7
  <2>2. Each'
    BY <1>1, <1>3, <2>1 DEF Each
  <2> QED
    BY <2>2, EachTypes
<1>10. OneAnswer' /\ Lost' /\ History' /\ ExecutedAsMeant'
  <2>1. srv # "run" => toServer' = <<>>
    BY <1>7 DEF IndInv, Lost, Connected
  <2> QED
    BY <1>1, <1>3, <2>1 DEF IndInv, OneAnswer, Lost, History, ExecutedAsMeant
<1>11. Turns'
  BY <1>1, <1>2, <1>3, <1>5, <1>6 DEF IndInv, Turns
<1>12. Known' /\ Agreed'
  BY <1>1, <1>2, <1>3 DEF IndInv, Known, Agreed
<1> QED
  BY <1>8, <1>9, <1>10, <1>11, <1>12 DEF IndInv

\* A call goes on without sending anything, or a step that needs no server.
LEMMA LocalKeeps ==
    ASSUME IndInv, pc \in {"idle", "took"}, pc' \in {"idle", "gone", "next"},
           UNCHANGED stream, UNCHANGED server, late' = late, lost' = lost,
           served' = FALSE, answer' = Nothing, taken' = Nothing, exec'.got = exec'.meant,
           call' \in Calls \/ call' = NoCall, pc' = "next" => call' \in Calls,
           isopen' \in BOOLEAN, fd' \in Addresses, addr' \in Addresses,
           bufbase' \in {"none", "held", "given back"},
           call'.op = "O" => fd' = NoTarget /\ ~isopen',
           call'.op = "C" => ~isopen',
           call'.op = "F" => bufbase' = "given back",
           Connected /\ pc' # "gone" =>
               /\ isopen' => scsi
               /\ sbuf \/ sbufsize = 0 \/ bufbase' = "given back"
               /\ fd' # NoTarget => scsi /\ target = fd' /\ addr' = fd'
               /\ pc' = "next" => call'.op \in {"T", "M", "F"} /\ (call'.op = "T" => fd' = NoTarget)
    PROVE  IndInv'
<1>1. /\ link' = link /\ toServer' = toServer /\ toClient' = toClient
      /\ srv' = srv /\ scsi' = scsi /\ target' = target /\ sbuf' = sbuf /\ sbufsize' = sbufsize
      /\ late' = late /\ lost' = lost /\ UNCHANGED server
  BY DEF stream, server
<1>0. (late' => late) /\ (late => late')
  OBVIOUS
<1>2. Connected' => Connected /\ pc' # "gone"
  BY <1>1 DEF Connected
<1>3. Each /\ toClient = <<>>
  BY TypesEach DEF IndInv, OneAnswer
<1>4. toServer # <<>> => late
  BY DEF IndInv, OneRequest, Pending
<1>5. late => link = "cut"
  BY DEF IndInv, Lost
<1>6. OneRequest'
  <2>1. Len(toServer) \in Nat /\ Len(toServer) <= Len(toServer)
    BY LengthsAre
  <2>2. late => ~Connected'
    BY <1>1, <1>5 DEF Connected
  <2>3. toServer' # <<>> => toServer # <<>> /\ late' /\ ~Connected'
    BY <1>0, <1>1, <1>4, <2>2
  <2>4. /\ Len(toServer') <= Len(toServer) /\ Len(toServer') \in Nat
        /\ \A i \in 1 .. Len(toServer') : toServer'[i] = toServer[i]
    BY <1>1, <2>1
  <2> QED
    BY <1>1, <2>1, <2>3, <2>4, RequestStays DEF IndInv
<1>7. Types'
  <2>1. Each'
    BY <1>1, <1>3 DEF Each
  <2> QED
    BY <2>1, EachTypes
<1>8. OneAnswer'
  BY <1>1, <1>3 DEF OneAnswer
<1>11. Turns'
  <2>1. Connected' => link' = "up" /\ pc' \notin {"wait", "took"}
    BY DEF Connected
  <2>2. link' = "up" => ~late' /\ toServer' = <<>>
    BY <1>0, <1>1, <1>4, <1>5
  <2> QED
    BY <2>1, <2>2 DEF Turns
<1>9. Lost' /\ History' /\ ExecutedAsMeant'
  <2>1. Lost'
    BY <1>0, <1>1 DEF IndInv, Lost
  <2>2. pc' \notin {"wait", "took"}
    OBVIOUS
  <2>3. History'
    BY <2>2 DEF History
  <2>4. ExecutedAsMeant'
    BY DEF ExecutedAsMeant
  <2> QED
    BY <2>1, <2>3, <2>4
<1>10. Known' /\ Agreed'
  <2>1. Nothing.ret \in Int
    BY NothingIs
  <2> QED
    BY <1>1, <1>2, <2>1 DEF Known, Agreed
<1> QED
  BY <1>6, <1>7, <1>8, <1>9, <1>10, <1>11 DEF IndInv

\* An answer of which so much has arrived that the client would take it has
\* arrived as a whole.
LEMMA TakenWhole ==
    ASSUME NEW s \in Seq(Item), NEW p \in Seq(Item), Whole(s), Prefix(p, s), p # <<>>, Len(p) >= Wanted(p)
    PROVE  p = s
<1>1. Len(s) \in Nat /\ Len(p) \in Nat /\ Len(p) >= 1 /\ s # <<>> /\ s[1].v \in Int /\ Wanted(s) = Len(s)
  BY EmptySeq, LenProperties DEF Whole
<1>2. Len(p) <= Len(s) /\ \A i \in 1 .. Len(p) : p[i] = s[i]
  BY DEF Prefix
<1>3. p[1] = s[1]
  BY <1>1, <1>2
<1>4. Len(p) = Len(s)
  <2>1. CASE s[1].k = "E"
    <3>1. Wanted(p) = 1 + ErrorText(p) /\ Wanted(s) = 1 + ErrorText(s)
      BY <1>1, <1>3, <2>1 DEF Wanted
    <3>2. Len(p) >= 3
      <4>1. CASE Len(p) < 3
        <5>1. ErrorText(p) = 2
          BY <4>1 DEF ErrorText
        <5> QED
          BY <1>1, <3>1, <5>1
      <4> QED
        BY <1>1, <4>1
    <3>3. p[3] = s[3]
      BY <1>1, <1>2, <3>2
    <3>4. ~(Len(p) < 3) /\ ~(Len(s) < 3)
      BY <1>1, <1>2, <3>2
    <3>5. ErrorText(p) = 2 + p[3].v /\ ErrorText(s) = 2 + s[3].v
      BY <3>4 DEF ErrorText
    <3>6. Wanted(p) = Len(s)
      BY <1>1, <3>1, <3>3, <3>5
    <3> QED
      BY <1>1, <1>2, <3>6
  <2>2. CASE s[1].k = "A"
    <3>1. Wanted(p) = 1 + Answered(p) /\ Wanted(s) = 1 + Answered(s)
      BY <1>1, <1>3, <2>2 DEF Wanted
    <3>2. Answered(p) = Answered(s)
      <4>1. CASE call.op = "S"
        <5>1. DataLength(p) = DataLength(s) /\ DataLength(s) \in Nat
          BY <1>1, <1>3 DEF DataLength
        <5>2. Answered(p) = 4 + SenseLength(p) + DataLength(p) /\ Answered(s) = 4 + SenseLength(s) + DataLength(s)
          BY <4>1 DEF Answered
        <5>3. Len(p) >= 5
          <6>1. CASE Len(p) < 5
            <7>1. SenseLength(p) = 0
              BY <6>1 DEF SenseLength
            <7> QED
              BY <1>1, <3>1, <5>1, <5>2, <7>1
          <6> QED
            BY <1>1, <6>1
        <5>4. p[5] = s[5] /\ ~(Len(p) < 5) /\ ~(Len(s) < 5)
          BY <1>1, <1>2, <5>3
        <5>5. SenseLength(p) = SenseLength(s)
          BY <5>4 DEF SenseLength
        <5> QED
          BY <5>1, <5>2, <5>5
      <4>2. CASE call.op # "S"
        BY <1>3, <4>2 DEF Answered
      <4> QED
        BY <4>1, <4>2
    <3>3. Wanted(p) = Len(s)
      BY <1>1, <3>1, <3>2
    <3> QED
      BY <1>1, <1>2, <3>3
  <2>3. CASE s[1].k \notin {"E", "A"}
    <3>1. Wanted(s) = 1
      BY <1>1, <2>3 DEF Wanted
    <3>2. Len(s) = 1
      BY <1>1, <3>1
    <3> QED
      BY <1>1, <1>2, <3>2
  <2> QED
    BY <2>1, <2>2, <2>3
<1> QED
  BY <1>2, <1>4, SeqEqual

\* What the client takes is the answer to its call.
LEMMA TakeIs ==
    ASSUME IndInv, Take
    PROVE  served /\ taken' = answer /\ toClient' = <<>> /\ (toServer # <<>> => late)
<1>1. toClient \in Seq(Item) /\ pc = "wait" /\ Len(toClient) >= Wanted(toClient)
  BY DEF IndInv, Types, Take
<1>2. toClient # <<>>
  <2>1. ASSUME toClient = <<>>
        PROVE  FALSE
    <3>1. Wanted(toClient) = 1 /\ Len(toClient) = 0
      BY <2>1 DEF Wanted
    <3> QED
      BY <1>1, <3>1
  <2> QED
    BY <2>1
<1>3. PICK s \in Seq(Item) : Whole(s) /\ Prefix(toClient, s)
  BY <1>2 DEF IndInv, OneAnswer
<1>4. toClient = s
  BY <1>1, <1>2, <1>3, TakenWhole
<1>5. Wanted(toClient) = Len(toClient) /\ Result(toClient) = answer
  BY <1>3, <1>4 DEF Whole
<1>6. toClient' = SubSeq(toClient, Len(toClient) + 1, Len(toClient)) /\ taken' = answer
  BY <1>5 DEF Take
<1>7. toClient' = <<>>
  BY <1>1, <1>6, NothingLeft
<1>8. served
  BY <1>2 DEF IndInv, OneAnswer
<1>9. toServer # <<>> => late
  BY <1>8 DEF IndInv, OneRequest, Pending
<1> QED
  BY <1>6, <1>7, <1>8, <1>9

LEMMA TakeKeeps ==
    ASSUME IndInv, Take
    PROVE  IndInv'
<1>1. /\ served /\ taken' = answer /\ toClient' = <<>> /\ (toServer # <<>> => late)
  BY TakeIs
<1>2. /\ pc = "wait" /\ pc' = "took"
      /\ link' = link /\ toServer' = toServer /\ call' = call /\ isopen' = isopen /\ fd' = fd /\ addr' = addr
      /\ bufbase' = bufbase /\ srv' = srv /\ scsi' = scsi /\ target' = target /\ sbuf' = sbuf
      /\ sbufsize' = sbufsize /\ served' = served /\ answer' = answer /\ exec' = exec /\ late' = late
      /\ lost' = lost /\ UNCHANGED server
  BY DEF Take, server
<1>3. (late' => late) /\ (late => late') /\ (served' => served) /\ (served => served')
  BY <1>2
<1>4. Connected' <=> Connected
  BY <1>2 DEF Connected
<1>5. Types'
  <2>1. <<>> \in Seq(Item)
    BY EmptySeq
  <2>2. Each'
    BY <1>1, <1>2, <2>1, TypesEach DEF Each, IndInv
  <2> QED
    BY <2>2, EachTypes
<1>6. OneRequest'
  <2>1. Len(toServer) \in Nat /\ Len(toServer) <= Len(toServer)
    BY LengthsAre
  <2>2. toServer' # <<>> => toServer # <<>> /\ late' /\ ~Connected'
    BY <1>1, <1>2, <1>3, <1>4 DEF IndInv, Lost, Connected
  <2>3. /\ Len(toServer') <= Len(toServer) /\ Len(toServer') \in Nat
        /\ \A i \in 1 .. Len(toServer') : toServer'[i] = toServer[i]
    BY <1>2, <2>1
  <2> QED
    BY <1>2, <2>1, <2>2, <2>3, RequestStays DEF IndInv
<1>7. OneAnswer'
  BY <1>1, <1>2 DEF OneAnswer
<1>8. Turns'
  BY <1>1, <1>2, <1>3, <1>4 DEF IndInv, Turns
<1>9. Lost' /\ History' /\ ExecutedAsMeant'
  BY <1>1, <1>2, <1>3 DEF IndInv, Lost, History, ExecutedAsMeant
<1>10. Known'
  BY <1>1, <1>2, <1>3 DEF IndInv, Known
<1>11. Agreed'
  BY <1>1, <1>2, <1>3, <1>4 DEF IndInv, Agreed
<1> QED
  BY <1>5, <1>6, <1>7, <1>8, <1>9, <1>10, <1>11 DEF IndInv

LEMMA LoseKeeps ==
    ASSUME IndInv, Lose
    PROVE  IndInv'
<1>1. /\ pc = "wait" /\ pc' = "took" /\ toClient' = <<>> /\ taken' \in LostResults /\ ClientEOF
      /\ link' = link /\ toServer' = toServer /\ call' = call /\ isopen' = isopen /\ fd' = fd /\ addr' = addr
      /\ bufbase' = bufbase /\ srv' = srv /\ scsi' = scsi /\ target' = target /\ sbuf' = sbuf
      /\ sbufsize' = sbufsize /\ served' = served /\ answer' = answer /\ exec' = exec
      /\ lost' = lost + 1 /\ UNCHANGED server
  BY DEF Lose, server
<1>2. (served' => served) /\ (served => served') /\ late' = (late \/ toServer # <<>>)
  BY DEF Lose
<1>3. ~Connected'
  BY <1>1 DEF Connected, ClientEOF
<1>4. Types'
  <2>1. <<>> \in Seq(Item)
    BY EmptySeq
  <2>2. late' \in BOOLEAN
    BY <1>2
  <2>3. lost' \in Nat
    <3>1. lost \in Nat
      BY TypesEach DEF IndInv, Each
    <3>2. \A n \in Nat : n + 1 \in Nat
      OBVIOUS
    <3> QED
      BY <1>1, <3>1, <3>2
  <2>4. Each'
    BY <1>1, <2>1, <2>2, <2>3, TypesEach DEF Each, IndInv
  <2> QED
    BY <2>4, EachTypes
<1>5. OneRequest'
  <2>1. Len(toServer) \in Nat /\ Len(toServer) <= Len(toServer)
    BY LengthsAre
  <2>2. toServer' # <<>> => toServer # <<>> /\ late' /\ ~Connected'
    BY <1>1, <1>2, <1>3
  <2>3. /\ Len(toServer') <= Len(toServer) /\ Len(toServer') \in Nat
        /\ \A i \in 1 .. Len(toServer') : toServer'[i] = toServer[i]
    BY <1>1, <2>1
  <2> QED
    BY <1>1, <2>1, <2>2, <2>3, RequestStays DEF IndInv
<1>6. OneAnswer' /\ Turns' /\ Agreed'
  BY <1>1, <1>3 DEF OneAnswer, Turns, Agreed
<1>7. Lost'
  <2>1. late' => link = "cut"
    <3>1. toServer # <<>> => link = "cut"
      BY <1>1 DEF IndInv, Lost, ClientEOF
    <3>2. late => link = "cut"
      BY DEF IndInv, Lost
    <3> QED
      BY <1>2, <3>1, <3>2
  <2> QED
    BY <1>1, <2>1 DEF IndInv, Lost
<1>8. History' /\ ExecutedAsMeant'
  BY <1>1, <1>2 DEF IndInv, History, ExecutedAsMeant
<1>9. Known'
  <2>1. call.op = "O" => taken'.extra[1] \in Addresses
    <3> SUFFICES ASSUME call.op = "O"
                 PROVE  taken'.extra[1] \in Addresses
      OBVIOUS
    <3>1. taken'.extra \in Junk
      BY <1>1 DEF LostResults
    <3>2. PICK t \in Addresses : taken'.extra = <<t>>
      BY <3>1 DEF Junk
    <3> QED
      BY <3>2
  <2>2. taken'.ret \in Int
    <3>1. CASE toClient = <<>>
      <4>1. taken'.ret \in {-1} \cup 0 .. MaxDma
        BY <1>1, <3>1 DEF LostResults
      <4> QED
        BY <4>1
    <3>2. CASE toClient # <<>>
      <4>1. PICK s \in Seq(Item) : Whole(s) /\ Prefix(toClient, s)
        BY <3>2 DEF IndInv, OneAnswer
      <4>2. toClient \in Seq(Item)
        BY DEF IndInv, Types
      <4>3. Len(toClient) \in Nat /\ Len(toClient) >= 1 /\ Head(toClient) = toClient[1]
        BY <3>2, <4>2, EmptySeq, LenProperties, HeadTailProperties
      <4>4. Head(toClient).v \in Int
        BY <4>1, <4>3 DEF Prefix, Whole
      <4> DEFINE h == Head(toClient)
      <4>5. taken'.ret = IF h.k = "A" THEN h.v ELSE -1
        BY <1>1, <3>2 DEF LostResults
      <4> HIDE DEF h
      <4> QED
        BY <4>4, <4>5 DEF h
    <3> QED
      BY <3>1, <3>2
  <2> QED
    BY <1>1, <1>2, <2>1, <2>2 DEF IndInv, Known
<1> QED
  BY <1>4, <1>5, <1>6, <1>7, <1>8, <1>9 DEF IndInv

\* What is left of a sequence that is cut off.
LEMMA CutOff ==
    ASSUME NEW S, NEW s \in Seq(S), NEW n \in 0 .. Len(s)
    PROVE  /\ SubSeq(s, 1, n) \in Seq(S) /\ Len(SubSeq(s, 1, n)) = n /\ n \in Nat
           /\ Len(s) \in Nat /\ Prefix(SubSeq(s, 1, n), s)
<1> DEFINE one == 1
           w == SubSeq(s, one, n)
<1>1. Len(s) \in Nat /\ n \in Nat /\ n <= Len(s)
  BY LenProperties
<1>2. one \in Int /\ n \in Int /\ \A i \in one .. n : s[i] \in S
  BY <1>1, ElementOfSeq
<1>3. one = 1
  OBVIOUS
<1> HIDE DEF one
<1>4. /\ SubSeq(s, one, n) \in Seq(S)
      /\ Len(SubSeq(s, one, n)) = IF one <= n THEN n - one + 1 ELSE 0
      /\ \A i \in 1 .. n - one + 1 : SubSeq(s, one, n)[i] = s[one + i - 1]
  BY <1>2, SubSeqProperties
<1>5. w \in Seq(S) /\ Len(w) = n /\ \A i \in 1 .. n : w[i] = s[i]
  <2>1. /\ w \in Seq(S) /\ Len(w) = IF one <= n THEN n - one + 1 ELSE 0
        /\ \A i \in 1 .. n - one + 1 : w[i] = s[one + i - 1]
    BY <1>4
  <2> HIDE DEF w
  <2>2. (IF one <= n THEN n - one + 1 ELSE 0) = n /\ n - one + 1 = n
    BY <1>1, <1>3
  <2>3. \A i \in 1 .. n : one + i - 1 = i
    BY <1>1, <1>3
  <2> QED
    BY <2>1, <2>2, <2>3
<1>6. Prefix(w, s)
  <2> HIDE DEF w
  <2> QED
    BY <1>1, <1>5 DEF Prefix
<1> QED
  BY <1>1, <1>3, <1>5, <1>6 DEF w

\* The beginning of a beginning.
LEMMA PrefixOfPrefix ==
    ASSUME NEW p, NEW q, NEW s, Prefix(p, q), Prefix(q, s), Len(p) \in Nat, Len(q) \in Nat, Len(s) \in Nat
    PROVE  Prefix(p, s)
BY DEF Prefix

LEMMA BreakKeeps ==
    ASSUME IndInv, Break
    PROVE  IndInv'
<1>1. /\ link = "up" /\ link' = "cut" /\ pc' = pc /\ call' = call /\ isopen' = isopen /\ fd' = fd
      /\ addr' = addr /\ bufbase' = bufbase /\ srv' = srv /\ scsi' = scsi /\ target' = target /\ sbuf' = sbuf
      /\ sbufsize' = sbufsize /\ served' = served /\ answer' = answer /\ taken' = taken /\ exec' = exec
      /\ late' = late /\ lost' = lost
  BY DEF Break, client, server, history
<1>2. (late' => late) /\ (late => late') /\ (served' => served) /\ (served => served') /\ UNCHANGED server
  BY <1>1 DEF Break
<1>3. ~Connected'
  BY <1>1 DEF Connected
<1>4. toServer \in Seq(Item) /\ toClient \in Seq(Item)
  BY DEF IndInv, Types
<1>5. PICK m \in 0 .. Len(toServer) : toServer' = SubSeq(toServer, 1, m)
  BY DEF Break
<1>6. PICK n \in 0 .. Len(toClient) : toClient' = SubSeq(toClient, 1, n)
  BY DEF Break
<1>7. /\ toServer' \in Seq(Item) /\ Len(toServer') = m /\ m \in Nat /\ Len(toServer) \in Nat
      /\ Prefix(SubSeq(toServer, 1, m), toServer)
  BY <1>4, <1>5, CutOff
<1>8. /\ toClient' \in Seq(Item) /\ Len(toClient') = n /\ n \in Nat /\ Len(toClient) \in Nat
      /\ Prefix(SubSeq(toClient, 1, n), toClient)
  BY <1>4, <1>6, CutOff
<1>9. /\ Len(toServer') <= Len(toServer) /\ \A i \in 1 .. Len(toServer') : toServer'[i] = toServer[i]
      /\ Len(toClient') <= Len(toClient) /\ \A i \in 1 .. Len(toClient') : toClient'[i] = toClient[i]
  BY <1>5, <1>6, <1>7, <1>8 DEF Prefix
<1>10. (toServer = <<>> => toServer' = <<>>) /\ (toClient = <<>> => toClient' = <<>>)
  <2>1. toServer = <<>> => Len(toServer') = 0
    BY <1>7, <1>9
  <2>2. toClient = <<>> => Len(toClient') = 0
    BY <1>8, <1>9
  <2> QED
    BY <1>7, <1>8, <2>1, <2>2, EmptySeq
<1>11. Types'
  <2>1. Each'
    <3>1. Each
      BY TypesEach DEF IndInv
    <3>2. isopen' \in BOOLEAN /\ scsi' \in BOOLEAN /\ sbuf' \in BOOLEAN /\ served' \in BOOLEAN /\ late' \in BOOLEAN
      BY <1>1, <3>1 DEF Each
    <3>3. /\ link' \in {"up", "cut"} /\ toServer' \in Seq(Item) /\ toClient' \in Seq(Item)
      BY <1>1, <1>7, <1>8
    <3>4. sbufsize' \in 0 .. MaxDma /\ lost' \in Nat
      BY <1>1, <3>1 DEF Each
    <3> QED
      BY <1>1, <3>1, <3>2, <3>3, <3>4 DEF Each
  <2> QED
    BY <2>1, EachTypes
<1>12. OneRequest'
  <2> SUFFICES ASSUME toServer' # <<>>
               PROVE  \E c \in Calls, a \in Addresses : Pending(c, a)'
    BY DEF OneRequest
  <2>1. PICK c \in Calls, a \in Addresses : Pending(c, a)
    BY <1>10 DEF IndInv, OneRequest
  <2>2. Full(c, a)' = Full(c, a)
    BY DEF Full, Arguments, Device, Line, Bytes
  <2>3. Prefix(toServer, Full(c, a)) /\ Len(Full(c, a)) \in Nat
    BY <2>1, FullIs, LenProperties DEF Pending
  <2>4. Prefix(toServer, Full(c, a))'
    <3>1. Len(toServer') <= Len(Full(c, a))
      BY <1>7, <1>9, <2>3 DEF Prefix
    <3>2. \A i \in 1 .. Len(toServer') : toServer'[i] = Full(c, a)[i]
      BY <1>7, <1>9, <2>3 DEF Prefix
    <3> QED
      BY <2>2, <3>1, <3>2 DEF Prefix
  <2>5. Pending(c, a)'
    BY <1>1, <1>2, <1>3, <2>1, <2>4 DEF Pending
  <2> QED
    BY <2>5
<1>13. OneAnswer'
  <2>1. pc' # "wait" \/ ~served' => toClient' = <<>>
    BY <1>1, <1>2, <1>10 DEF IndInv, OneAnswer
  <2>2. ASSUME toClient' # <<>>
        PROVE  \E s \in Seq(Item) : Whole(s)' /\ Prefix(toClient, s)'
    <3>1. PICK s \in Seq(Item) : Whole(s) /\ Prefix(toClient, s)
      BY <1>10, <2>2 DEF IndInv, OneAnswer
    <3>2. Whole(s)'
      BY <1>1, <3>1, WholeStays
    <3>3. Len(s) \in Nat
      BY LenProperties
    <3>4. Len(toClient') <= Len(s)
      BY <1>8, <1>9, <3>1, <3>3 DEF Prefix
    <3>5. \A i \in 1 .. Len(toClient') : toClient'[i] = s[i]
      BY <1>8, <1>9, <3>1 DEF Prefix
    <3>6. Prefix(toClient, s)'
      BY <3>4, <3>5 DEF Prefix
    <3> QED
      BY <3>2, <3>6
  <2> QED
    BY <1>3, <2>1, <2>2 DEF OneAnswer
<1>14. Turns' /\ Agreed'
  BY <1>3 DEF Turns, Agreed
<1>15. Lost' /\ History' /\ ExecutedAsMeant'
  BY <1>1, <1>2, <1>10 DEF IndInv, Lost, History, ExecutedAsMeant
<1>16. Known'
  BY <1>1, <1>2 DEF IndInv, Known
<1> QED
  BY <1>11, <1>12, <1>13, <1>14, <1>15, <1>16 DEF IndInv

\* What a call that has returned may rely on.
LEMMA TookIs ==
    ASSUME IndInv, pc = "took"
    PROVE  /\ Connected =>
                 /\ served /\ taken = answer
                 /\ isopen => scsi
                 /\ sbuf \/ sbufsize = 0 \/ bufbase = "given back"
                 /\ fd # NoTarget /\ call.op \notin {"T", "C"} => scsi /\ target = fd /\ addr = fd
                 /\ call.op = "O" /\ taken.ret >= 0 => scsi
                 /\ call.op = "T" /\ taken.ret >= 0 => scsi /\ target = call.target
                 /\ call.op = "M" /\ taken.ret >= 0 => sbuf
           /\ call \in Calls /\ taken.ret \in Int
           /\ isopen \in BOOLEAN /\ fd \in Addresses /\ addr \in Addresses
           /\ bufbase \in {"none", "held", "given back"}
           /\ call.op = "O" /\ taken.ret >= 0 => taken.extra[1] \in Addresses
<1>1. call \in Calls
  BY DEF IndInv, Types
<1>2. /\ isopen \in BOOLEAN /\ fd \in Addresses /\ addr \in Addresses
      /\ bufbase \in {"none", "held", "given back"}
  BY TypesEach DEF IndInv, Each
<1>3. /\ call.op = "O" /\ taken.ret >= 0 => taken.extra[1] \in Addresses
      /\ taken.ret \in Int
  BY DEF IndInv, Known
<1>4. Connected => served /\ taken = answer
  BY DEF IndInv, Turns
<1> QED
  BY <1>1, <1>2, <1>3, <1>4 DEF IndInv, Agreed

\* The calls that are made one after the other.
LEMMA NextCalls ==
    /\ \A t \in Addresses : Call("T", t, 0) \in Calls
    /\ \A n \in Amounts \cup {0} : Call("M", NoTarget, n) \in Calls
    /\ Call("F", NoTarget, 0) \in Calls
    /\ NoCall.op = "-"
    /\ \A op, t, n : Call(op, t, n).op = op /\ Call(op, t, n).target = t /\ Call(op, t, n).amount = n
<1>1. NoTarget \in Addresses
  BY Constants
<1> QED
  BY <1>1 DEF Call, NoCall, Calls, Ops

\* What every call that goes on does with the history.
LEMMA GoesOnIs ==
    ASSUME IndInv, GoesOn
    PROVE  /\ pc = "took" /\ pc \in {"idle", "took"} /\ UNCHANGED stream /\ UNCHANGED server
           /\ late' = late /\ lost' = lost /\ served' = FALSE /\ answer' = Nothing /\ taken' = Nothing
           /\ exec'.got = exec'.meant
<1>1. exec' = NotExecuted /\ NotExecuted.got = NotExecuted.meant
  BY DEF GoesOn, NotExecuted
<1> QED
  BY <1>1 DEF GoesOn

LEMMA OpenGoesOnKeeps ==
    ASSUME IndInv, GoesOn, call.op = "O", OpenGoesOn
    PROVE  IndInv'
<1>0. pc = "took" /\ taken.ret \in Int
  BY GoesOnIs, TookIs
<1>1. fd' = NoTarget /\ bufbase' = bufbase /\ NoTarget \in Addresses
  BY Constants DEF OpenGoesOn
<1>2. CASE taken.ret < 0
  <2>1. pc' = "gone" /\ call' = NoCall /\ isopen' = isopen /\ addr' = addr
    BY <1>2 DEF OpenGoesOn, Gone
  <2>2. call'.op = "-"
    BY <2>1, NextCalls
  <2> QED
    BY <1>0, <1>1, <2>1, <2>2, GoesOnIs, TookIs, LocalKeeps
<1>3. CASE ~(taken.ret < 0)
  <2> DEFINE t == taken.extra[1]
  <2>1. isopen' = TRUE /\ addr' = t /\ (IF t = NoTarget THEN Idle ELSE Then(Call("T", t, 0)))
    BY <1>3 DEF OpenGoesOn
  <2>2. taken.ret >= 0
    BY <1>0, <1>3
  <2>3. t \in Addresses /\ (Connected => scsi)
    BY <1>0, <2>2, TookIs
  <2>4. \/ pc' = "idle" /\ call' = NoCall /\ call'.op = "-"
        \/ pc' = "next" /\ call' \in Calls /\ call'.op = "T"
    BY <2>1, <2>3, NextCalls DEF Idle, Then
  <2> HIDE DEF t
  <2> QED
    BY <1>0, <1>1, <2>1, <2>3, <2>4, GoesOnIs, TookIs, LocalKeeps
<1> QED
  BY <1>2, <1>3

LEMMA TargetGoesOnKeeps ==
    ASSUME IndInv, GoesOn, call.op = "T", TargetGoesOn
    PROVE  IndInv'
<1>0. pc = "took" /\ taken.ret \in Int /\ call.target \in Addresses /\ NoTarget \in Addresses
  BY GoesOnIs, TookIs, CallsAre, Constants
<1>1. /\ fd' = (IF taken.ret < 0 THEN NoTarget ELSE call.target) /\ addr' = call.target
      /\ pc' = "idle" /\ call' = NoCall /\ isopen' = isopen /\ bufbase' = bufbase
  BY DEF TargetGoesOn, Idle
<1>2. call'.op = "-"
  BY <1>1, NextCalls
<1>3. fd' \in Addresses
  BY <1>0, <1>1
<1>4. Connected /\ fd' # NoTarget => scsi /\ target = fd' /\ addr' = fd'
  <2>1. CASE taken.ret < 0
    BY <1>1, <2>1
  <2>2. CASE ~(taken.ret < 0)
    <3>1. taken.ret >= 0 /\ fd' = call.target /\ addr' = call.target
      BY <1>0, <1>1, <2>2
    <3>2. Connected => scsi /\ target = call.target
      BY <1>0, <3>1, TookIs
    <3> QED
      BY <3>1, <3>2
  <2> QED
    BY <2>1, <2>2
<1> QED
  BY <1>0, <1>1, <1>2, <1>3, <1>4, GoesOnIs, TookIs, LocalKeeps

LEMMA GetbufGoesOnKeeps ==
    ASSUME IndInv, GoesOn, call.op = "D", GetbufGoesOn
    PROVE  IndInv'
<1>0. pc = "took" /\ call \in Calls
  BY GoesOnIs, TookIs
<1>1. call.amount \in Amounts \cup {0}
  BY <1>0 DEF Calls
<1>2. isopen' = isopen /\ fd' = fd /\ addr' = addr /\ bufbase' = bufbase
  BY DEF GetbufGoesOn
<1>3. \/ pc' = "idle" /\ call' = NoCall /\ call'.op = "-"
      \/ pc' = "next" /\ call' \in Calls /\ call'.op = "M"
  BY <1>1, NextCalls DEF GetbufGoesOn, Idle, Then
<1> QED
  BY <1>0, <1>2, <1>3, GoesOnIs, TookIs, LocalKeeps

LEMMA BufferGoesOnKeeps ==
    ASSUME IndInv, GoesOn, call.op = "M", BufferGoesOn
    PROVE  IndInv'
<1>0. pc = "took"
  BY GoesOnIs
<1>1. isopen' = isopen /\ fd' = fd /\ addr' = addr
  BY DEF BufferGoesOn
<1>2. \/ pc' = "idle" /\ call' = NoCall /\ call'.op = "-" /\ bufbase' = bufbase
      \/ pc' = "idle" /\ call' = NoCall /\ call'.op = "-" /\ bufbase' = "held" /\ taken.ret >= 0
      \/ pc' = "idle" /\ call' = NoCall /\ call'.op = "-" /\ bufbase' = "given back"
      \/ pc' = "next" /\ call' \in Calls /\ call'.op = "F" /\ bufbase' = "given back"
  <2>1. NoCall.op = "-" /\ Call("F", NoTarget, 0) \in Calls /\ Call("F", NoTarget, 0).op = "F"
    BY NextCalls
  <2> DEFINE f == Call("F", NoTarget, 0)
  <2>2. Then(f) => pc' = "next" /\ call' = f
    BY DEF Then
  <2>3. Idle => pc' = "idle" /\ call' = NoCall
    BY DEF Idle
  <2>4. \/ Idle /\ bufbase' = bufbase
        \/ Idle /\ bufbase' = "held" /\ taken.ret >= 0
        \/ Idle /\ bufbase' = "given back"
        \/ Then(f) /\ bufbase' = "given back"
    BY DEF BufferGoesOn
  <2>5. f \in Calls /\ f.op = "F"
    BY <2>1
  <2> HIDE DEF f
  <2> QED
    BY <2>1, <2>2, <2>3, <2>4, <2>5
<1>3. bufbase' \in {"none", "held", "given back"}
  BY <1>0, <1>2, TookIs
<1>4. Connected => sbuf \/ sbufsize = 0 \/ bufbase' = "given back"
  BY <1>0, <1>2, TookIs
<1>5. \/ pc' = "idle" /\ call' = NoCall /\ call'.op = "-"
      \/ pc' = "next" /\ call' \in Calls /\ call'.op = "F" /\ bufbase' = "given back"
  BY <1>2
<1> QED
  BY <1>0, <1>1, <1>3, <1>4, <1>5, GoesOnIs, TookIs, LocalKeeps

LEMMA EndOfCallKeeps ==
    ASSUME IndInv, GoesOn, call.op \notin {"O", "T"}, Idle \/ Gone, call.op = "C" => Gone,
           isopen' = isopen, fd' = fd, addr' = addr, bufbase' = bufbase
    PROVE  IndInv'
<1>0. pc = "took"
  BY GoesOnIs
<1>1. isopen' = isopen /\ fd' = fd /\ addr' = addr /\ bufbase' = bufbase
  OBVIOUS
<1>2. (pc' = "idle" /\ call.op # "C") \/ pc' = "gone"
  BY DEF Idle, Gone
<1>3. call' = NoCall /\ call'.op = "-"
  <2>1. NoCall.op = "-"
    BY NextCalls
  <2> QED
    BY <2>1 DEF Idle, Gone
<1>4. Connected /\ pc' # "gone" =>
          /\ isopen' => scsi
          /\ sbuf \/ sbufsize = 0 \/ bufbase' = "given back"
          /\ fd' # NoTarget => scsi /\ target = fd' /\ addr' = fd'
  <2> SUFFICES ASSUME Connected, pc' # "gone"
               PROVE  /\ isopen => scsi
                      /\ sbuf \/ sbufsize = 0 \/ bufbase = "given back"
                      /\ fd # NoTarget => scsi /\ target = fd /\ addr = fd
    <3>1. isopen' => isopen
      OBVIOUS
    <3> QED
      BY <1>1, <3>1
  <2>1. call.op \notin {"T", "C"}
    BY <1>2
  <2> QED
    BY <1>0, <2>1, TookIs
<1>5. pc' # "next" /\ pc' \in {"idle", "gone", "next"}
  BY <1>2
<1> QED
  BY <1>0, <1>1, <1>3, <1>4, <1>5, GoesOnIs, TookIs, LocalKeeps

LEMMA GoesOnKeeps ==
    ASSUME IndInv, GoesOn
    PROVE  IndInv'
<1>1. CASE call.op = "O"
  BY <1>1, OpenGoesOnKeeps DEF GoesOn
<1>2. CASE call.op = "T"
  BY <1>2, TargetGoesOnKeeps DEF GoesOn
<1>3. CASE call.op = "D" /\ call.buf
  BY <1>3, GetbufGoesOnKeeps DEF GoesOn
<1>4. CASE call.op = "M"
  BY <1>4, BufferGoesOnKeeps DEF GoesOn
<1>5. CASE call.op = "S"
  <2>1. SendGoesOn
    BY <1>5 DEF GoesOn
  <2> QED
    BY <1>5, <2>1, EndOfCallKeeps DEF SendGoesOn
<1>6. CASE call.op \notin {"O", "T", "M", "S"} /\ ~(call.op = "D" /\ call.buf)
  <2>1. OthersGoOn
    BY <1>6 DEF GoesOn
  <2> QED
    BY <1>6, <2>1, EndOfCallKeeps DEF OthersGoOn
<1> QED
  BY <1>1, <1>2, <1>3, <1>4, <1>5, <1>6

\* A call between two others finds the connection idle.
LEMMA IdleIs ==
    ASSUME IndInv, pc = "idle"
    PROVE  /\ pc \in {"start", "idle", "next"} /\ pc \in {"idle", "took"}
           /\ served = FALSE /\ answer = Nothing /\ taken = Nothing /\ exec.got = exec.meant
           /\ isopen \in BOOLEAN /\ fd \in Addresses /\ addr \in Addresses
           /\ bufbase \in {"none", "held", "given back"}
           /\ call \in Calls \/ call = NoCall
           /\ call.op = "O" => fd = NoTarget /\ ~isopen
           /\ call.op = "C" => ~isopen
           /\ call.op = "F" => bufbase = "given back"
           /\ Connected =>
                 /\ isopen => scsi
                 /\ sbuf \/ sbufsize = 0 \/ bufbase = "given back"
                 /\ fd # NoTarget => scsi /\ target = fd /\ addr = fd
<1>1. ~served /\ answer = Nothing /\ taken = Nothing
  BY DEF IndInv, History
<1>2. /\ isopen \in BOOLEAN /\ fd \in Addresses /\ addr \in Addresses /\ served \in BOOLEAN
      /\ bufbase \in {"none", "held", "given back"}
      /\ call \in Calls \/ call = NoCall
  BY TypesEach DEF IndInv, Each
<1>3. served = FALSE
  BY <1>1, <1>2
<1>4. /\ call.op = "O" => fd = NoTarget /\ ~isopen
      /\ call.op = "C" => ~isopen
      /\ call.op = "F" => bufbase = "given back"
  BY DEF IndInv, Known
<1>5. Connected =>
         /\ isopen => scsi
         /\ sbuf \/ sbufsize = 0 \/ bufbase = "given back"
         /\ fd # NoTarget => scsi /\ target = fd /\ addr = fd
  BY <1>1 DEF IndInv, Agreed
<1> QED
  BY <1>1, <1>2, <1>3, <1>4, <1>5 DEF IndInv, ExecutedAsMeant

\* The calls of a program.
LEMMA CallIs ==
    ASSUME NEW op \in Ops, NEW t \in Addresses, NEW n \in Amounts \cup {0}, NEW recv \in BOOLEAN,
           NEW name \in Names \cup {"plain"}, NEW buf \in BOOLEAN, name # "plain" => op = "O"
    PROVE  [op |-> op, target |-> t, amount |-> n, recv |-> recv, name |-> name, buf |-> buf] \in Calls
BY DEF Calls

LEMMA CallWith ==
    ASSUME NEW r \in Calls
    PROVE  /\ \A name \in Names : r.op = "O" =>
                 [r EXCEPT !.name = name] \in Calls /\ [r EXCEPT !.name = name].op = "O"
           /\ [r EXCEPT !.buf = TRUE] \in Calls /\ [r EXCEPT !.buf = TRUE].op = r.op
           /\ \A recv \in BOOLEAN : /\ [r EXCEPT !.recv = recv] \in Calls /\ [r EXCEPT !.recv = recv].op = r.op
                                   /\ [r EXCEPT !.recv = recv].amount = r.amount
<1> DEFINE R == [op : Ops, target : Addresses, amount : Amounts \cup {0}, recv : BOOLEAN,
                 name : Names \cup {"plain"}, buf : BOOLEAN]
<1>1. r \in R /\ (r.name # "plain" => r.op = "O")
  BY DEF Calls
<1>2. ASSUME NEW name \in Names, r.op = "O"
      PROVE  [r EXCEPT !.name = name] \in Calls /\ [r EXCEPT !.name = name].op = "O"
  <2>1. [r EXCEPT !.name = name] \in R /\ [r EXCEPT !.name = name].op = r.op
    BY <1>1
  <2> QED
    BY <1>2, <2>1 DEF Calls
<1>3. [r EXCEPT !.buf = TRUE] \in Calls /\ [r EXCEPT !.buf = TRUE].op = r.op
  <2>1. /\ [r EXCEPT !.buf = TRUE] \in R /\ [r EXCEPT !.buf = TRUE].op = r.op
        /\ [r EXCEPT !.buf = TRUE].name = r.name
    BY <1>1
  <2> QED
    BY <1>1, <2>1 DEF Calls
<1>4. ASSUME NEW recv \in BOOLEAN
      PROVE  /\ [r EXCEPT !.recv = recv] \in Calls /\ [r EXCEPT !.recv = recv].op = r.op
             /\ [r EXCEPT !.recv = recv].amount = r.amount
  <2>1. /\ [r EXCEPT !.recv = recv] \in R /\ [r EXCEPT !.recv = recv].op = r.op
        /\ [r EXCEPT !.recv = recv].name = r.name /\ [r EXCEPT !.recv = recv].amount = r.amount
    BY <1>1
  <2> QED
    BY <1>1, <2>1 DEF Calls
<1> QED
  BY <1>2, <1>3, <1>4

LEMMA OpenStepKeeps ==
    ASSUME IndInv, NEW t \in Addresses, NEW name \in Names, Open(t, name)
    PROVE  IndInv'
<1> DEFINE c == [Call("O", t, 0) EXCEPT !.name = name]
<1>1. Call("O", t, 0) \in Calls /\ Call("O", t, 0).op = "O"
  BY CallIs DEF Call, Ops
<1>2. c \in Calls /\ c.op = "O"
  BY <1>1, CallWith
<1>3. pc = "start" /\ Ask(c) /\ isopen' = isopen /\ bufbase' = bufbase
  BY DEF Open
<1>4. fd = NoTarget /\ ~isopen /\ isopen' = FALSE
  BY <1>3, TypesEach DEF IndInv, Known, Each
<1> HIDE DEF c
<1> QED
  BY <1>2, <1>3, <1>4, SendKeeps

LEMMA CloseStepKeeps ==
    ASSUME IndInv, Close
    PROVE  IndInv'
<1>1. pc = "idle" /\ isopen' = FALSE /\ bufbase' = bufbase
  BY DEF Close, MayCall
<1>2. CASE isopen
  <2> DEFINE c == Call("C", NoTarget, 0)
  <2>1. c \in Calls /\ c.op = "C"
    BY CallIs, Constants DEF Call, Ops
  <2>2. Ask(c)
    BY <1>2 DEF Close
  <2> HIDE DEF c
  <2>3. Connected => scsi
    BY <1>1, <1>2, IdleIs
  <2> QED
    BY <1>1, <1>2, <2>1, <2>2, <2>3, IdleIs, SendKeeps
<1>3. CASE ~isopen
  <2>1. /\ pc' = "gone" /\ call' = call /\ fd' = fd /\ addr' = addr
        /\ UNCHANGED stream /\ UNCHANGED server /\ served' = served /\ answer' = answer /\ taken' = taken
        /\ exec' = exec /\ late' = late /\ lost' = lost
    BY <1>3 DEF Close, history
  <2>2. /\ served' = FALSE /\ answer' = Nothing /\ taken' = Nothing /\ exec'.got = exec'.meant
    BY <1>1, <2>1, IdleIs
  <2> QED
    BY <1>1, <2>1, <2>2, IdleIs, LocalKeeps
<1> QED
  BY <1>2, <1>3

LEMMA FreebufStepKeeps ==
    ASSUME IndInv, Freebuf
    PROVE  IndInv'
<1>1. pc = "idle" /\ isopen' = isopen /\ bufbase' = "given back"
  BY DEF Freebuf, MayCall
<1>0. isopen' \in BOOLEAN /\ (isopen' => isopen)
  <2>1. isopen' = isopen
    BY <1>1
  <2>2. isopen \in BOOLEAN
    BY <1>1, IdleIs
  <2> QED
    BY ONLY <2>1, <2>2
<1>2. CASE isopen
  <2> DEFINE c == Call("F", NoTarget, 0)
  <2>1. c \in Calls /\ c.op = "F"
    BY CallIs, Constants DEF Call, Ops
  <2>2. Ask(c)
    BY <1>2 DEF Freebuf
  <2> HIDE DEF c
  <2> QED
    BY <1>0, <1>1, <2>1, <2>2, IdleIs, SendKeeps
<1>3. CASE ~isopen
  <2>1. /\ pc' = pc /\ call' = call /\ fd' = fd /\ addr' = addr
        /\ UNCHANGED stream /\ UNCHANGED server /\ served' = served /\ answer' = answer /\ taken' = taken
        /\ exec' = exec /\ late' = late /\ lost' = lost
    BY <1>3 DEF Freebuf, history
  <2>2. /\ served' = FALSE /\ answer' = Nothing /\ taken' = Nothing /\ exec'.got = exec'.meant
    BY <1>1, <2>1, IdleIs
  <2>3. isopen' = FALSE
    BY <1>0, <1>3
  <2>4. pc' = "idle"
    BY <1>1, <2>1
  <2> QED
    BY <1>1, <2>1, <2>2, <2>3, <2>4, IdleIs, LocalKeeps
<1> QED
  BY <1>2, <1>3

LEMMA SetTargetKeeps ==
    ASSUME IndInv, NEW t \in Addresses, SetTarget(t)
    PROVE  IndInv'
<1>1. pc = "idle" /\ isopen' = isopen /\ bufbase' = bufbase
  BY DEF SetTarget, MayCall
<1>0. isopen' \in BOOLEAN /\ (isopen' => isopen)
  <2>1. isopen' = isopen
    BY <1>1
  <2>2. isopen \in BOOLEAN
    BY <1>1, IdleIs
  <2> QED
    BY ONLY <2>1, <2>2
<1>2. CASE isopen /\ t # NoTarget
  <2> DEFINE c == Call("T", t, 0)
  <2>1. c \in Calls /\ c.op = "T"
    BY CallIs, Constants DEF Call, Ops
  <2>2. Ask(c)
    BY <1>2 DEF SetTarget
  <2> HIDE DEF c
  <2> QED
    BY <1>0, <1>1, <2>1, <2>2, IdleIs, SendKeeps
<1>3. CASE ~(isopen /\ t # NoTarget)
  <2>1. /\ pc' = pc /\ call' = call /\ fd' = NoTarget /\ addr' = t
        /\ UNCHANGED stream /\ UNCHANGED server /\ served' = served /\ answer' = answer /\ taken' = taken
        /\ exec' = exec /\ late' = late /\ lost' = lost
    BY <1>3 DEF SetTarget, history
  <2>2. /\ served' = FALSE /\ answer' = Nothing /\ taken' = Nothing /\ exec'.got = exec'.meant
    BY <1>1, <2>1, IdleIs
  <2>3. pc' = "idle" /\ NoTarget \in Addresses
    BY <1>1, <2>1, Constants
  <2>4. /\ call'.op = "O" => fd' = NoTarget /\ ~isopen'
        /\ call'.op = "C" => ~isopen'
        /\ call'.op = "F" => bufbase' = "given back"
        /\ call' \in Calls \/ call' = NoCall
    BY <1>0, <1>1, <2>1, IdleIs
  <2>5. Connected => (isopen' => scsi) /\ (sbuf \/ sbufsize = 0 \/ bufbase' = "given back")
    BY <1>0, <1>1, IdleIs
  <2>6. bufbase' \in {"none", "held", "given back"}
    BY <1>1, IdleIs
  <2> QED
    BY <1>0, <1>1, <2>1, <2>2, <2>3, <2>4, <2>5, <2>6, LocalKeeps
<1> QED
  BY <1>2, <1>3

LEMMA AmountIsNone ==
    ASSUME NEW c \in Calls
    PROVE  c.amount > 0 => c.amount # 0
<1>1. \A n \in Nat : n > 0 => n # 0
  OBVIOUS
<1>2. c.amount \in Nat
  BY CallsAre
<1> QED
  BY <1>1, <1>2

\* A call that changes nothing of the program until it returns.
LEMMA PlainKeeps ==
    ASSUME IndInv, NEW c \in Calls, Ask(c), pc = "idle", isopen' = isopen, bufbase' = bufbase,
           c.op \notin {"O", "C", "F"},
           c.op = "S" => fd # NoTarget /\ (c.amount = 0 \/ bufbase # "given back")
    PROVE  IndInv'
<1>1. isopen' => isopen
  OBVIOUS
<1>2. isopen' \in BOOLEAN
  BY IdleIs
<1>3. ASSUME Connected, c.op = "S"
      PROVE  (c.amount > 0 => sbuf \/ sbufsize = 0) /\ target = addr
  <2>1. sbuf \/ sbufsize = 0 \/ bufbase = "given back"
    BY <1>3, IdleIs
  <2>2. fd # NoTarget => target = fd /\ addr = fd
    BY <1>3, IdleIs
  <2>3. fd # NoTarget /\ (c.amount = 0 \/ bufbase # "given back")
    BY <1>3
  <2>4. c.amount > 0 => c.amount # 0
    BY AmountIsNone
  <2> QED
    BY <2>1, <2>2, <2>3, <2>4
<1>4. pc \in {"start", "idle", "next"}
  OBVIOUS
<1> QED
  BY <1>1, <1>2, <1>3, <1>4, SendKeeps

LEMMA CallsKeep ==
    ASSUME IndInv,
           \/ \E op \in {"V", "B", "I", "A", "R"} : Simple(op, 0)
           \/ \E n \in Amounts : Simple("D", n) \/ Getbuf(n) \/ Send(n, TRUE) \/ Send(n, FALSE)
    PROVE  IndInv'
<1>0. NoTarget \in Addresses /\ TRUE \in BOOLEAN /\ FALSE \in BOOLEAN
  BY Constants
<1>1. CASE \E op \in {"V", "B", "I", "A", "R"} : Simple(op, 0)
  <2>1. PICK op \in {"V", "B", "I", "A", "R"} : Simple(op, 0)
    BY <1>1
  <2> DEFINE c == Call(op, NoTarget, 0)
  <2>2. c \in Calls /\ c.op = op
    BY <1>0, CallIs DEF Call, Ops
  <2>3. pc = "idle" /\ Ask(c) /\ isopen' = isopen /\ bufbase' = bufbase
    BY <2>1 DEF Simple, MayCall
  <2> HIDE DEF c
  <2> QED
    BY <2>2, <2>3, PlainKeeps
<1>2. ASSUME NEW n \in Amounts, Simple("D", n)
      PROVE  IndInv'
  <2> DEFINE c == Call("D", NoTarget, n)
  <2>2. c \in Calls /\ c.op = "D"
    BY <1>0, CallIs DEF Call, Ops
  <2>3. pc = "idle" /\ Ask(c) /\ isopen' = isopen /\ bufbase' = bufbase
    BY <1>2 DEF Simple, MayCall
  <2> HIDE DEF c
  <2> QED
    BY <2>2, <2>3, PlainKeeps
<1>3. ASSUME NEW n \in Amounts, Getbuf(n)
      PROVE  IndInv'
  <2> DEFINE c == [Call("D", NoTarget, n) EXCEPT !.buf = TRUE]
  <2>1. Call("D", NoTarget, n) \in Calls /\ Call("D", NoTarget, n).op = "D"
    BY <1>0, CallIs DEF Call, Ops
  <2>2. c \in Calls /\ c.op = "D"
    BY <2>1, CallWith
  <2>3. pc = "idle" /\ Ask(c) /\ isopen' = isopen /\ bufbase' = bufbase
    BY <1>3 DEF Getbuf, MayCall
  <2> HIDE DEF c
  <2> QED
    BY <2>2, <2>3, PlainKeeps
<1>4. ASSUME NEW n \in Amounts, NEW recv \in BOOLEAN, Send(n, recv)
      PROVE  IndInv'
  <2> DEFINE c == [Call("S", NoTarget, n) EXCEPT !.recv = recv]
  <2>1. /\ Call("S", NoTarget, n) \in Calls /\ Call("S", NoTarget, n).op = "S"
        /\ Call("S", NoTarget, n).amount = n
    BY <1>0, CallIs DEF Call, Ops
  <2>2. c \in Calls /\ c.op = "S" /\ c.amount = n
    BY <2>1, CallWith
  <2>3. /\ pc = "idle" /\ Ask(c) /\ isopen' = isopen /\ bufbase' = bufbase
        /\ fd # NoTarget /\ (n = 0 \/ bufbase # "given back")
    BY <1>4 DEF Send, MayCall
  <2> HIDE DEF c
  <2> QED
    BY <2>2, <2>3, PlainKeeps
<1> QED
  BY <1>0, <1>1, <1>2, <1>3, <1>4

LEMMA ContinueKeeps ==
    ASSUME IndInv, Continue
    PROVE  IndInv'
<1>1. pc = "next" /\ Ask(call) /\ isopen' = isopen /\ bufbase' = bufbase /\ call \in Calls
  BY DEF Continue, IndInv, Types
<1>2. /\ call.op = "O" => fd = NoTarget /\ ~isopen
      /\ call.op = "C" => ~isopen
      /\ call.op = "F" => bufbase = "given back"
  BY DEF IndInv, Known
<1>3. Connected => call.op \notin {"C", "S"}
  BY <1>1 DEF IndInv, Agreed
<1>4. isopen \in BOOLEAN
  BY TypesEach DEF IndInv, Each
<1>5. isopen' \in BOOLEAN /\ (isopen' => isopen)
  <2>1. isopen' = isopen
    BY <1>1
  <2> QED
    BY ONLY <1>4, <2>1
<1>6. PICK c \in Calls : c = call
  BY <1>1
<1> QED
  BY <1>1, <1>2, <1>3, <1>5, <1>6, SendKeeps

LEMMA StepKeeps ==
    ASSUME IndInv, Next
    PROVE  IndInv'
<1>1. CASE \E t \in Addresses, name \in Names : Open(t, name)
  BY <1>1, OpenStepKeeps
<1>2. CASE Close
  BY <1>2, CloseStepKeeps
<1>3. CASE Freebuf
  BY <1>3, FreebufStepKeeps
<1>4. CASE \E t \in Addresses : SetTarget(t)
  BY <1>4, SetTargetKeeps
<1>5. CASE \/ \E op \in {"V", "B", "I", "A", "R"} : Simple(op, 0)
           \/ \E n \in Amounts : Simple("D", n) \/ Getbuf(n) \/ Send(n, TRUE) \/ Send(n, FALSE)
  BY <1>5, CallsKeep
<1>6. CASE Take
  BY <1>6, TakeKeeps
<1>7. CASE Lose
  BY <1>7, LoseKeeps
<1>8. CASE GoesOn
  BY <1>8, GoesOnKeeps
<1>9. CASE Continue
  BY <1>9, ContinueKeeps
<1>10. CASE Server
  BY <1>10, ServerKeeps
<1>11. CASE Break
  BY <1>11, BreakKeeps
<1> QED
  BY <1>1, <1>2, <1>3, <1>4, <1>5, <1>6, <1>7, <1>8, <1>9, <1>10, <1>11 DEF Next, Program, Client

LEMMA InitKeeps ==
    ASSUME Init
    PROVE  IndInv
<1>1. NoTarget \in Addresses /\ 0 \in 0 .. MaxDma /\ 0 \in Nat /\ NoCall.op = "-" /\ <<>> \in Seq(Item)
  BY Constants, NextCalls, EmptySeq
<1>2. Types
  <2>1. {isopen, scsi, sbuf, served, late} \subseteq BOOLEAN /\ {fd, addr, target} \subseteq Addresses
    BY <1>1 DEF Init
  <2>2. TypeOK
    BY <1>1, <2>1 DEF Init, TypeOK
  <2> QED
    BY <1>1, <2>2 DEF Init, Types
<1>3. OneRequest /\ OneAnswer /\ Lost
  BY DEF Init, OneRequest, OneAnswer, Lost
<1>4. Turns /\ History
  BY DEF Init, Turns, History
<1>5. Known
  BY <1>1, NothingIs DEF Init, Known
<1>6. Agreed
  BY <1>1 DEF Init, Agreed
<1>7. ExecutedAsMeant
  BY DEF Init, ExecutedAsMeant, NotExecuted
<1> QED
  BY <1>2, <1>3, <1>4, <1>5, <1>6, <1>7 DEF IndInv

\* Nothing happens.
LEMMA StutterKeeps ==
    ASSUME IndInv, UNCHANGED vars
    PROVE  IndInv'
<1>1. /\ link' = link /\ toServer' = toServer /\ toClient' = toClient
      /\ pc' = pc /\ call' = call /\ isopen' = isopen /\ fd' = fd /\ addr' = addr /\ bufbase' = bufbase
      /\ srv' = srv /\ scsi' = scsi /\ target' = target /\ sbuf' = sbuf /\ sbufsize' = sbufsize
      /\ served' = served /\ answer' = answer /\ taken' = taken /\ exec' = exec /\ late' = late /\ lost' = lost
  BY DEF vars, stream, client, server, history
<1>2. Types' /\ OneRequest' /\ OneAnswer' /\ Turns'
  <2>1. Types'
    BY <1>1 DEF IndInv, Types, TypeOK
  <2>2. OneRequest'
    <3>1. ASSUME NEW c \in Calls, NEW a \in Addresses, Pending(c, a)
          PROVE  Pending(c, a)'
      <4>1. Full(c, a)' = Full(c, a)
        BY DEF Full, Arguments, Device, Line, Bytes
      <4>2. Connected' => Connected
        BY <1>1 DEF Connected
      <4>3. Prefix(toServer, Full(c, a))'
        BY <1>1, <3>1, <4>1 DEF Pending, Prefix
      <4> QED
        BY <1>1, <3>1, <4>1, <4>2, <4>3 DEF Pending
    <3> QED
      BY <1>1, <3>1 DEF IndInv, OneRequest
  <2>3. OneAnswer'
    <3>1. ASSUME NEW s, Whole(s)
          PROVE  Whole(s)'
      BY <1>1, <3>1, WholeStays
    <3>2. \A s : Prefix(toClient, s) => Prefix(toClient, s)'
      BY <1>1 DEF Prefix
    <3>3. (Connected' => Connected) /\ (pc' # "wait" \/ ~served' => pc # "wait" \/ ~served)
      BY <1>1 DEF Connected
    <3> QED
      BY <1>1, <3>1, <3>2, <3>3 DEF IndInv, OneAnswer
  <2>4. Turns'
    BY <1>1 DEF IndInv, Turns, Connected
  <2> QED
    BY <2>1, <2>2, <2>3, <2>4
<1>3. Lost' /\ History' /\ Known' /\ ExecutedAsMeant'
  BY <1>1 DEF IndInv, Lost, History, Known, ExecutedAsMeant
<1>4. Agreed'
  BY <1>1 DEF IndInv, Agreed, Connected
<1> QED
  BY <1>2, <1>3, <1>4 DEF IndInv

\* The inductive invariant of remote SCSI: what is on the stream in each
\* direction, whose turn it is, and what both sides know of each other.
THEOREM Invariance == Spec => []IndInv
<1>1. Init => IndInv
  BY InitKeeps
<1>2. IndInv /\ [Next]_vars => IndInv'
  BY StepKeeps, StutterKeeps
<1> QED
  BY <1>1, <1>2, PTL DEF Spec

-----------------------------------------------------------------------------
(* What follows.                                                           *)

\* A command reaches the drive that the program has selected, with all its
\* bytes and no others, and not at all if the connection ends within it
\* (sendcmd, readbuf).
THEOREM CommandsAsMeant == Spec => []ExecutedAsMeant
<1>1. IndInv => ExecutedAsMeant
  BY DEF IndInv
<1> QED
  BY <1>1, Invariance, PTL

\* Only an open with a name that is longer than a line leaves both sides
\* waiting.
LEMMA OnlyLongNameHangs ==
    ASSUME IndInv
    PROVE  HangsOnlyOnLongName
<1> SUFFICES ASSUME pc = "wait", Connected, toClient = <<>>, MissingArgs \/ MissingPayload
             PROVE  call.name = "cut"
  BY DEF HangsOnlyOnLongName
<1>1. toServer # <<>> /\ ~late
  BY DEF IndInv, Turns
<1>2. PICK c \in Calls, a \in Addresses : Pending(c, a) /\ c = call
  BY <1>1 DEF IndInv, OneRequest, Pending
<1>3. /\ Head(toServer) = [k |-> "letter", v |-> c.op, on |-> a]
      /\ \A i \in 1 .. Args(c.op) + DataBytes(c) : i < Len(toServer) => toServer[1 + i] = Arguments(c)[i]
      /\ Len(toServer) = 1 + Args(c.op) + DataBytes(c)
  BY <1>1, <1>2, PendingIs DEF IndInv
<1>4. /\ Args(c.op) \in 1 .. 5 /\ DataBytes(c) \in Nat
      /\ \A i \in 1 .. Args(c.op) :
            Arguments(c)[i].k = "line" \/ (c.op = "O" /\ c.name = "cut" /\ Arguments(c)[i].k = "part")
  BY ArgumentsIs, CallsAre
<1>5. CASE MissingArgs
  <2> SUFFICES ASSUME c.name # "cut"
               PROVE  HasArgs
    BY <1>2, <1>5 DEF MissingArgs
  <2>1. ASSUME NEW i \in 1 .. Args(c.op)
        PROVE  toServer[1 + i].k = "line"
    <3>1. i \in 1 .. Args(c.op) + DataBytes(c) /\ i < Len(toServer)
      BY <1>3, <1>4
    <3> QED
      BY <1>3, <1>4, <3>1
  <2>2. srv = "run"
    BY DEF Connected
  <2>3. Len(toServer) > Args(c.op) /\ Head(toServer).k = "letter" /\ Head(toServer).v = c.op
    BY <1>3, <1>4
  <2> QED
    BY <1>1, <2>1, <2>2, <2>3 DEF HasArgs
<1>6. CASE MissingPayload
  <2>1. Request_("S") /\ ~HasPayload(IF Refused THEN Voided ELSE Payload)
    BY <1>6 DEF MissingPayload
  <2>2. PICK c2 \in Calls, a2 \in Addresses :
            /\ Pending(c2, a2) /\ c2.op = "S"
            /\ Payload = DataBytes(c2) /\ Payload \in Nat /\ Voided = Payload
    BY <2>1, PayloadIs DEF IndInv
  <2>3. c2 = c
    BY <1>1, <1>2, <2>2 DEF Pending
  <2>4. Args(c.op) = 5
    BY <2>2, <2>3 DEF Args
  <2>5. Len(toServer) = 6 + Payload
    BY <1>3, <2>2, <2>3, <2>4
  <2>6. HasPayload(Payload)
    BY <2>2, <2>5 DEF HasPayload
  <2> QED
    BY <2>1, <2>2, <2>6
<1> QED
  BY <1>5, <1>6

\* The server follows a null pointer only for a device of a third machine.
LEMMA OnlyRemoteNameCrashes ==
    ASSUME IndInv, Next, srv' = "crashed", srv # "crashed"
    PROVE  Request_("O") /\ toServer[2].name = "REMOTE"
<1>1. srv' # srv
  OBVIOUS
<1>2. CASE Program
  BY <1>1, <1>2
     DEF Program, Open, Close, SetTarget, Simple, Getbuf, Freebuf, Send, Ask, server
<1>3. CASE Client \/ Break
  BY <1>1, <1>3 DEF Client, Take, Lose, GoesOn, Continue, Ask, Break, server
<1>4. CASE scsiversion \/ maxdma \/ getbuf \/ freebuf \/ scsifileno \/ Refuse \/ Execute
  BY <1>1, <1>4 DEF scsiversion, maxdma, getbuf, freebuf, scsifileno, Refuse, Execute, server
<1>5. CASE havebus \/ initiator_id \/ isatapi \/ scsireset
  BY <1>1, <1>5 DEF havebus, initiator_id, isatapi, scsireset, Ask_, server
<1>6. CASE openscsi
  BY <1>1, <1>6 DEF openscsi
<1>7. CASE closescsi
  <2>1. PICK c \in Calls, a \in Addresses : Pending(c, a) /\ c.op = "C"
    <3>1. "C" \in Ops
      BY DEF Ops
    <3> QED
      BY <1>7, <3>1, RequestIs DEF closescsi, IndInv
  <2>2. scsi
    BY <2>1 DEF Pending
  <2> QED
    BY <1>1, <1>7, <2>2 DEF closescsi
<1>8. CASE ExecuteFails
  <2>1. ~Overrun
    BY <1>8, BufferIsThere DEF ExecuteFails
  <2> QED
    BY <1>8, <2>1 DEF ExecuteFails, Exit
<1>9. CASE EndOfInput
  BY <1>9 DEF EndOfInput, Exit
<1> QED
  BY <1>2, <1>3, <1>4, <1>5, <1>6, <1>7, <1>8, <1>9 DEF Next, Server

\* Client and server never lose their place in the stream, have the same drive
\* selected between two calls, wait for each other only after a name that is
\* too long, and the server crashes only for a name of a third machine
\* (rscsicmd, rscsigetstatus, dorscsi, voidarg).
THEOREM ProtocolIsKept == Spec => ProtocolKept
<1>1. IndInv => TypeOK /\ InStep /\ TargetsAgree /\ HangsOnlyOnLongName
  <2> SUFFICES ASSUME IndInv
               PROVE  TypeOK /\ InStep /\ TargetsAgree /\ HangsOnlyOnLongName
    OBVIOUS
  <2>1. TypeOK
    BY DEF IndInv, Types
  <2>2. InStep
    BY DEF IndInv, InStep, Turns, OneAnswer, Lost
  <2>3. TargetsAgree
    BY DEF IndInv, TargetsAgree, Agreed, History
  <2> QED
    BY <2>1, <2>2, <2>3, OnlyLongNameHangs
<1>2. IndInv /\ [Next]_vars =>
          [srv' = "crashed" /\ srv # "crashed" => Request_("O") /\ toServer[2].name = "REMOTE"]_vars
  BY OnlyRemoteNameCrashes
<1> QED
  BY <1>1, <1>2, Invariance, PTL DEF Spec, ProtocolKept, CrashOnlyOnRemoteName

-----------------------------------------------------------------------------
(* Remote SCSI implements a remote call.                                   *)

\* What a step of the server is for the call.
LEMMA ServerStep ==
    ASSUME Server
    PROVE  \/ toServer # <<>> /\ UNCHANGED srv /\ \E s, r : Answer(s, r)
           \/ \E how \in {"done", "bad", "garbage", "crashed", "comerr"} : Exit(how)
<1> DEFINE A == \E s, r : Answer(s, r)
<1>1. ASSUME NEW e, NEW text, ErrorReply(e, text)
      PROVE  A
  BY <1>1 DEF ErrorReply
<1>2. ASSUME NEW n, NEW more, Reply(n, more)
      PROVE  A
  BY <1>2 DEF Reply
<1>3. ASSUME NEW n, NEW e, Respond(n, e)
      PROVE  A
  BY <1>1, <1>2, <1>3 DEF Respond
<1>4. ASSUME NEW o, CommandAnswer(o)
      PROVE  A
  BY <1>4 DEF CommandAnswer
<1> HIDE DEF A
<1>5. CASE scsiversion
  BY <1>1, <1>2, <1>5 DEF scsiversion, IfOpen, Request_, HasArgs, server, A
<1>6. CASE openscsi
  BY <1>1, <1>2, <1>6 DEF openscsi, OpenOk, OpenFails, Request_, HasArgs, A
<1>7. CASE closescsi
  BY <1>2, <1>7 DEF closescsi, Request_, HasArgs, A
<1>8. CASE maxdma
  BY <1>1, <1>2, <1>8 DEF maxdma, IfOpen, Request_, HasArgs, server, A
<1>9. CASE getbuf
  BY <1>1, <1>2, <1>3, <1>9 DEF getbuf, IfOpen, Request_, HasArgs, A
<1>10. CASE freebuf
  BY <1>1, <1>2, <1>10 DEF freebuf, IfOpen, Request_, HasArgs, A
<1>11. CASE havebus \/ initiator_id \/ isatapi \/ scsireset
  BY <1>1, <1>3, <1>11 DEF havebus, initiator_id, isatapi, scsireset, Ask_, IfOpen, Request_, HasArgs, server, A
<1>12. CASE scsifileno
  BY <1>1, <1>2, <1>3, <1>12 DEF scsifileno, IfOpen, Request_, HasArgs, A
<1>13. CASE Refuse
  BY <1>1, <1>13 DEF Refuse, Request_, HasArgs, server, A
<1>14. CASE Execute
  BY <1>4, <1>14 DEF Execute, Request_, HasArgs, server, A
<1>15. CASE ExecuteFails
  BY <1>15 DEF ExecuteFails
<1>16. CASE EndOfInput
  BY <1>16 DEF EndOfInput
<1> QED
  BY <1>5, <1>6, <1>7, <1>8, <1>9, <1>10, <1>11, <1>12, <1>13, <1>14, <1>15, <1>16 DEF Server, A

\* Every step is one of the abstract call, or none that it sees.
LEMMA RemoteStep ==
    ASSUME IndInv, Next
    PROVE  \/ IsRemoteCall!Next
           \/ UNCHANGED <<Phase, served, answer, taken, late, ClientEOF>>
<1> DEFINE Same == UNCHANGED <<Phase, served, answer, taken, late, ClientEOF>>
<1>1. ASSUME NEW c, Ask(c), pc \in {"start", "idle", "next"}
      PROVE  IsRemoteCall!Ask
  <2>1. Phase = "none" /\ Phase' = "asked"
    BY <1>1 DEF Ask, Phase
  <2>2. ClientEOF' = ClientEOF
    BY <1>1 DEF Ask, server, ClientEOF
  <2>3. UNCHANGED <<served, answer, taken, late>>
    BY <1>1 DEF Ask, history
  <2> QED
    BY <2>1, <2>2, <2>3 DEF IsRemoteCall!Ask
<1>2. CASE Program
  <2>1. ASSUME UNCHANGED <<stream, server, history>>, pc = "idle", pc' \in {"idle", "gone"}
        PROVE  Same
    <3>1. Phase = "none" /\ Phase' = "none"
      BY <2>1 DEF Phase
    <3>2. ClientEOF' = ClientEOF
      BY <2>1 DEF stream, server, ClientEOF
    <3> QED
      BY <2>1, <3>1, <3>2 DEF history
  <2>2. CASE \E t \in Addresses, name \in Names : Open(t, name)
    BY <1>1, <2>2 DEF Open, IsRemoteCall!Next
  <2>3. CASE Close
    BY <1>1, <2>1, <2>3 DEF Close, MayCall, IsRemoteCall!Next
  <2>4. CASE Freebuf
    BY <1>1, <2>1, <2>4 DEF Freebuf, MayCall, IsRemoteCall!Next
  <2>5. CASE \E t \in Addresses : SetTarget(t)
    BY <1>1, <2>1, <2>5 DEF SetTarget, MayCall, IsRemoteCall!Next
  <2>6. CASE \/ \E op \in {"V", "B", "I", "A", "R"} : Simple(op, 0)
             \/ \E n \in Amounts : Simple("D", n) \/ Getbuf(n) \/ Send(n, TRUE) \/ Send(n, FALSE)
    BY <1>1, <2>6 DEF Simple, Getbuf, Send, MayCall, IsRemoteCall!Next
  <2> QED
    BY <1>2, <2>2, <2>3, <2>4, <2>5, <2>6 DEF Program
<1>3. CASE Take
  <2>1. served /\ taken' = answer
    BY <1>3, TakeIs
  <2>2. Phase = "asked" /\ Phase' = "returned"
    BY <1>3 DEF Take, Phase
  <2>3. ClientEOF' = ClientEOF /\ UNCHANGED <<served, answer, late>>
    BY <1>3 DEF Take, server, ClientEOF
  <2> QED
    BY <2>1, <2>2, <2>3 DEF IsRemoteCall!Return, IsRemoteCall!Next
<1>4. CASE Lose
  <2>1. Phase = "asked" /\ Phase' = "returned"
    BY <1>4 DEF Lose, Phase
  <2>2. ClientEOF /\ ClientEOF' = ClientEOF /\ UNCHANGED <<served, answer>>
    BY <1>4 DEF Lose, server, ClientEOF
  <2>3. late' => late \/ ~served
    <3>1. late' => late \/ toServer # <<>>
      BY <1>4 DEF Lose
    <3>2. toServer # <<>> => late \/ ~served
      BY DEF IndInv, OneRequest, Pending
    <3> QED
      BY <3>1, <3>2
  <2> QED
    BY <2>1, <2>2, <2>3 DEF IsRemoteCall!GiveUp, IsRemoteCall!Next
<1>5. CASE GoesOn
  <2>1. /\ pc = "took" /\ UNCHANGED stream /\ UNCHANGED server
        /\ late' = late /\ served' = FALSE /\ answer' = Nothing /\ taken' = Nothing
    BY <1>5, GoesOnIs
  <2>2. pc' \in {"idle", "gone", "next"}
    BY <1>5 DEF GoesOn, OpenGoesOn, TargetGoesOn, GetbufGoesOn, BufferGoesOn, SendGoesOn, OthersGoOn,
                Idle, Gone, Then
  <2>3. Phase = "returned" /\ Phase' = "none"
    BY <2>1, <2>2 DEF Phase
  <2>4. ClientEOF' = ClientEOF
    BY <2>1 DEF stream, server, ClientEOF
  <2> QED
    BY <2>1, <2>3, <2>4 DEF IsRemoteCall!Done, IsRemoteCall!NoCall, IsRemoteCall!Next
<1>6. CASE Continue
  BY <1>1, <1>6 DEF Continue, IsRemoteCall!Next
<1>7. ASSUME UNCHANGED <<pc, served, answer, taken, late>>, ClientEOF'
      PROVE  IsRemoteCall!Next \/ Same
  <2>1. Phase' = Phase
    BY <1>7 DEF Phase
  <2>2. CASE ClientEOF
    BY <1>7, <2>1, <2>2
  <2>3. CASE ~ClientEOF
    BY <1>7, <2>1, <2>3 DEF IsRemoteCall!Break, IsRemoteCall!Next
  <2> QED
    BY <2>2, <2>3
<1>8. CASE Server
  <2>1. ASSUME NEW s, NEW r, Answer(s, r), toServer # <<>>, srv' = srv
        PROVE  IsRemoteCall!Next
    <3>1. ClientEOF' = ClientEOF /\ Phase' = Phase /\ taken' = taken
      BY <2>1 DEF Answer, client, ClientEOF, Phase
    <3>2. CASE late
      BY <2>1, <3>1, <3>2 DEF Answer, IsRemoteCall!ServeLate, IsRemoteCall!Next
    <3>3. CASE ~late
      <4>1. pc = "wait" /\ ~served
        BY <2>1, <3>3 DEF IndInv, OneRequest, Pending
      <4> QED
        BY <2>1, <3>1, <3>3, <4>1 DEF Answer, Phase, IsRemoteCall!Serve, IsRemoteCall!Next
    <3> QED
      BY <3>2, <3>3
  <2>2. ASSUME NEW how \in {"done", "bad", "garbage", "crashed", "comerr"}, Exit(how)
        PROVE  IsRemoteCall!Next \/ Same
    <3>1. UNCHANGED <<pc, served, answer, taken, late>> /\ ClientEOF'
      BY <2>2 DEF Exit, client, history, ClientEOF
    <3> QED
      BY <1>7, <3>1
  <2> QED
    BY <1>8, <2>1, <2>2, ServerStep
<1>9. CASE Break
  <2>1. UNCHANGED <<pc, served, answer, taken, late>> /\ ClientEOF'
    BY <1>9 DEF Break, client, history, ClientEOF
  <2> QED
    BY <1>7, <2>1
<1> QED
  BY <1>2, <1>3, <1>4, <1>5, <1>6, <1>8, <1>9 DEF Next, Client

\* Remote SCSI is a remote call: a call is carried out at most once, returns
\* what was answered to it as long as the connection holds, and one that was
\* given up is carried out at most once more, late (rscsicmd, rscsigetstatus,
\* sendcmd).
THEOREM RemoteCallImplemented == Spec => ImplementsCall
<1>1. Init => IsRemoteCall!Init
  BY DEF Init, IsRemoteCall!Init, IsRemoteCall!NoCall, Phase, ClientEOF
<1>2. IndInv /\ [Next]_vars => [IsRemoteCall!Next]_IsRemoteCall!vars
  <2> SUFFICES ASSUME IndInv, [Next]_vars
               PROVE  IsRemoteCall!Next \/ UNCHANGED IsRemoteCall!vars
    OBVIOUS
  <2>1. CASE Next
    BY <2>1, RemoteStep DEF IsRemoteCall!vars
  <2>2. CASE UNCHANGED vars
    <3>1. Phase' = Phase /\ ClientEOF' = ClientEOF
      BY <2>2 DEF vars, stream, client, server, Phase, ClientEOF
    <3>2. UNCHANGED <<served, answer, taken, late>>
      BY <2>2 DEF vars, history
    <3> QED
      BY <3>1, <3>2 DEF IsRemoteCall!vars
  <2> QED
    BY <2>1, <2>2
<1> QED
  BY <1>1, <1>2, Invariance, PTL DEF Spec, ImplementsCall, IsRemoteCall!Spec
=============================================================================
