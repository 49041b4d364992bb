--------------------------- MODULE GrowisofsProofs ---------------------------
(* Theorems about Growisofs, for any ring, any block size and any session. *)
EXTENDS Growisofs, TLAPS

------------------------------------------------------------------------------
(* Arithmetic of blocks and slots                                          *)

LEMMA DivMod ==
    ASSUME NEW a \in Nat, NEW b \in Nat \ {0}
    PROVE  \E q \in Nat, r \in 0 .. b - 1 : q = a \div b /\ r = a % b /\ a = q * b + r
<1>1. \A q, r : q = a \div b /\ r = a % b => q \in Nat /\ r \in 0 .. b - 1 /\ a = q * b + r
  <2> SUFFICES ASSUME NEW q, NEW r, q = a \div b, r = a % b
               PROVE  q \in Nat /\ r \in 0 .. b - 1 /\ a = q * b + r
    OBVIOUS
  <2>1. q \in Int /\ q >= 0
    OBVIOUS
  <2>2. r \in Int /\ r >= 0 /\ r < b
    OBVIOUS
  <2>3. a = q * b + r
    BY SMTT(30)
  <2> QED
    BY <2>1, <2>2, <2>3
<1> QED
  BY <1>1, Zenon

\* The blocks before the b-th one, in bytes.
LEMMA TimesMono ==
    ASSUME NEW a \in Nat, NEW b \in Nat, a < b
    PROVE  a * BS \in Nat /\ a * BS + BS <= b * BS
BY RingAssumption

LEMMA TimesNext ==
    ASSUME NEW a \in Nat
    PROVE  a * BS \in Nat /\ (a + 1) * BS \in Nat /\ (a + 1) * BS = a * BS + BS
BY RingAssumption

\* The number of blocks that s bytes fill, the last of them perhaps in part.
LEMMA RoundUpBounds ==
    ASSUME NEW s \in Nat, NEW q, q = (s + BS - 1) \div BS
    PROVE  q \in Nat /\ q * BS \in Nat /\ s <= q * BS /\ q * BS < s + BS
<1>1. s + BS - 1 \in Nat /\ BS \in Nat \ {0}
  BY RingAssumption
<1>2. PICK p \in Nat, r \in 0 .. BS - 1 :
            p = (s + BS - 1) \div BS /\ r = (s + BS - 1) % BS /\ s + BS - 1 = p * BS + r
  BY <1>1, DivMod
<1>3. q \in Nat /\ s + BS - 1 = q * BS + r
  BY <1>2
<1>4. q * BS \in Nat
  BY <1>1, <1>3
<1> QED
  BY <1>1, <1>3, <1>4

\* The first blocks lie where they would in an array.
LEMMA SlotSmall ==
    ASSUME NEW b \in 0 .. NB - 1
    PROVE  Slot(b) = b
BY RingAssumption DEF Slot

LEMMA SlotType ==
    ASSUME NEW b \in Nat
    PROVE  Slot(b) \in Slots
BY RingAssumption DEF Slot, Slots

\* Two blocks that are in the ring at the same time have different slots.
LEMMA SlotInjective ==
    ASSUME NEW a \in Nat, NEW b \in Nat, a < b, b - a < NB
    PROVE  Slot(a) # Slot(b)
<1>1. NB \in Nat \ {0}
  BY RingAssumption
<1>2. PICK p \in Nat, r \in 0 .. NB - 1 : p = a \div NB /\ r = a % NB /\ a = p * NB + r
  BY <1>1, DivMod
<1>3. PICK q \in Nat, t \in 0 .. NB - 1 : q = b \div NB /\ t = b % NB /\ b = q * NB + t
  BY <1>1, DivMod
<1> SUFFICES ASSUME r = t PROVE FALSE
  BY <1>2, <1>3 DEF Slot
<1>4. b - a = (q - p) * NB
  BY <1>1, <1>2, <1>3
<1>5. q - p >= 1 => (q - p) * NB >= NB
  BY <1>1
<1>6. q - p <= 0 => (q - p) * NB <= 0
  BY <1>1
<1> QED
  BY <1>1, <1>4, <1>5, <1>6

------------------------------------------------------------------------------
(* What the helpers of the model return                                    *)

LEMMA JobTypes ==
    ASSUME job \in Jobs
    PROVE  /\ job.size \in Nat /\ job.ends \in {"eof", "error"} /\ job.next \in Nat
           /\ job.pipe \in BOOLEAN /\ job.status \in BOOLEAN
BY JobAssumption DEF Job

\* A read() delivers bytes that are there, or finds that there are none.
LEMMA ReadResult ==
    ASSUME job \in Jobs, got \in Nat, NEW want \in Nat \ {0}, NEW k \in ReadResults(want)
    PROVE  /\ k \in Int /\ k <= want
           /\ k > 0 => got + k <= job.size
           /\ k <= 0 => got >= job.size
           /\ k = 0 => job.ends = "eof"
           /\ k < 0 => job.ends # "eof"
<1>1. job.size \in Nat
  BY JobTypes
<1> QED
  BY <1>1 DEF ReadResults, Min2

LEMMA ReceivedType ==
    ASSUME got \in Nat, NEW block \in Content, NEW from \in Nat, NEW k \in Nat
    PROVE  /\ Received(block, from, k) \in Content
           /\ \A j \in 1 .. BS : Received(block, from, k)[j] =
                 IF j > from /\ j <= from + k THEN got + j - from ELSE block[j]
BY RingAssumption DEF Received, Content

LEMMA ZeroedType ==
    ASSUME NEW block \in Content, NEW from \in Int
    PROVE  /\ Zeroed(block, from) \in Content
           /\ \A j \in 1 .. BS : Zeroed(block, from)[j] = IF j > from THEN 0 ELSE block[j]
BY RingAssumption DEF Zeroed, Content

LEMMA BlockType ==
    ASSUME job \in Jobs, NEW b \in Nat
    PROVE  /\ Block(b) \in Content
           /\ \A j \in 1 .. BS : Block(b)[j] = IF b * BS + j <= job.size THEN b * BS + j ELSE 0
<1>1. b * BS \in Nat
  BY TimesNext
<1> QED
  BY <1>1, JobTypes, RingAssumption DEF Block, Content

LEMMA BlocksBounds ==
    ASSUME job \in Jobs
    PROVE  /\ Blocks \in Nat /\ Blocks * BS \in Nat
           /\ job.size <= Blocks * BS /\ Blocks * BS < job.size + BS
<1>1. job.size \in Nat
  BY JobTypes
<1>2. Blocks = (job.size + BS - 1) \div BS
  BY DEF Blocks
<1> HIDE DEF Blocks
<1> QED
  BY <1>1, <1>2, RoundUpBounds

\* Where off points into before the reader runs.
LEMMA HeadSlot ==
    ASSUME off \in Nat, off < NB * BS
    PROVE  \E s \in Slots, r \in 0 .. BS - 1 :
              s = off \div BS /\ r = off % BS /\ off = s * BS + r
<1>1. BS \in Nat \ {0} /\ NB \in Nat
  BY RingAssumption
<1>2. PICK s \in Nat, r \in 0 .. BS - 1 : s = off \div BS /\ r = off % BS /\ off = s * BS + r
  BY <1>1, DivMod
<1>3. s < NB
  <2> SUFFICES ASSUME s >= NB PROVE FALSE
    BY <1>1
  <2>1. s * BS >= NB * BS
    BY <1>1
  <2>2. s * BS \in Nat /\ NB * BS \in Nat
    BY <1>1
  <2> QED
    BY <1>2, <2>1, <2>2
<1>4. s \in Slots
  BY <1>1, <1>3 DEF Slots
<1> QED
  BY <1>2, <1>4, Zenon

------------------------------------------------------------------------------
(* Before the reader runs                                                  *)

LEMMA HeadResult ==
    ASSUME TypeOK, off < NB * BS, NEW k \in ReadResults(BS - (off % BS))
    PROVE  /\ k \in Int
           /\ k > 0 => got + k <= job.size
           /\ k <= 0 => got >= job.size
           /\ k = 0 => job.ends = "eof"
           /\ k < 0 => job.ends # "eof"
<1>1. job \in Jobs /\ got \in Nat /\ off \in Nat
  BY DEF TypeOK
<1>2. PICK s \in Slots, r \in 0 .. BS - 1 : s = off \div BS /\ r = off % BS /\ off = s * BS + r
  BY <1>1, HeadSlot
<1>3. k \in ReadResults(BS - r) /\ BS - r \in Nat \ {0}
  BY <1>2, RingAssumption
<1> QED
  BY <1>1, <1>3, ReadResult

\* Bytes that arrive in the first blocks come to their place, and do not go
\* beyond the block that off points into.
LEMMA HeadReceive ==
    ASSUME TypeOK, off = got, off < NB * BS, AsRead,
           NEW k \in ReadResults(BS - (off % BS)), k > 0, Receive(k)
    PROVE  /\ ring' \in [Slots -> Content] /\ got' \in Nat /\ off' = got' /\ got' <= job.size
           /\ \A m \in Nat : off < m * BS => off' <= m * BS
           /\ AsRead'
<1>1. /\ job \in Jobs /\ ring \in [Slots -> Content] /\ got \in Nat /\ off \in Nat
  BY DEF TypeOK
<1>2. BS \in Nat \ {0} /\ NB \in Nat
  BY RingAssumption
<1>3. PICK s \in Slots, r \in 0 .. BS - 1 : s = off \div BS /\ r = off % BS /\ off = s * BS + r
  BY <1>1, HeadSlot
<1>4. k \in ReadResults(BS - r) /\ BS - r \in Nat \ {0}
  BY <1>2, <1>3
<1>5. k \in Nat /\ k > 0 /\ r + k <= BS /\ got + k <= job.size
  BY <1>1, <1>2, <1>4, ReadResult
<1>6. s \in Nat /\ s * BS \in Nat /\ off - s * BS = r
  BY <1>1, <1>2, <1>3 DEF Slots
<1>7. /\ ring' = [ring EXCEPT ![s] = Received(ring[s], r, k)]
      /\ got' = got + k /\ off' = off + k
  BY <1>3, <1>6 DEF Receive
<1>8. /\ ring[s] \in Content /\ Received(ring[s], r, k) \in Content
      /\ \A j \in 1 .. BS : Received(ring[s], r, k)[j] =
            IF j > r /\ j <= r + k THEN got + j - r ELSE ring[s][j]
  <2>1. ring[s] \in Content /\ r \in Nat
    BY <1>1, <1>2
  <2> QED
    BY <1>1, <1>5, <2>1, ReceivedType
<1>9. ring' \in [Slots -> Content]
  BY <1>1, <1>7, <1>8
<1>10. \A m \in Nat : off < m * BS => off' <= m * BS
  <2> SUFFICES ASSUME NEW m \in Nat, off < m * BS PROVE off + k <= m * BS
    BY <1>7
  <2>1. s < m
    <3> SUFFICES ASSUME s >= m PROVE FALSE
      BY <1>6
    <3>1. s * BS >= m * BS /\ m * BS \in Nat
      BY <1>2, <1>6
    <3> QED
      BY <1>3, <1>6, <3>1
  <2>2. s * BS + BS <= m * BS
    BY <1>6, <2>1, TimesMono
  <2>3. m * BS \in Nat
    BY <1>2
  <2> QED
    BY <1>2, <1>3, <1>5, <1>6, <2>2, <2>3
<1>11. AsRead'
  <2> SUFFICES ASSUME NEW t \in Slots, NEW j \in 1 .. BS
               PROVE  ring'[t][j] = IF t * BS + j <= got + k THEN t * BS + j ELSE 0
    BY <1>7 DEF AsRead
  <2>1. t \in Nat /\ t * BS \in Nat
    BY <1>2 DEF Slots
  <2>2. ring[t][j] = IF t * BS + j <= got THEN t * BS + j ELSE 0
    BY DEF AsRead
  <2>3. CASE t = s
    <3>1. ring'[t][j] = IF j > r /\ j <= r + k THEN got + j - r ELSE ring[t][j]
      BY <1>1, <1>7, <1>8, <2>3
    <3>2. got = t * BS + r
      BY <1>3, <2>3
    <3> QED
      BY <1>2, <1>5, <2>1, <2>2, <3>1, <3>2
  <2>4. CASE t < s
    <3>1. ring'[t] = ring[t]
      BY <1>1, <1>7, <2>1, <2>4
    <3>2. t * BS + BS <= s * BS
      BY <1>6, <2>1, <2>4, TimesMono
    <3> QED
      BY <1>1, <1>2, <1>3, <1>5, <1>6, <2>1, <2>2, <3>1, <3>2
  <2>5. CASE t > s
    <3>1. ring'[t] = ring[t]
      BY <1>1, <1>6, <1>7, <2>1, <2>5
    <3>2. s * BS + BS <= t * BS
      BY <1>6, <2>1, <2>5, TimesMono
    <3> QED
      BY <1>1, <1>2, <1>3, <1>5, <1>6, <2>1, <2>2, <3>1, <3>2
  <2> QED
    BY <1>6, <2>1, <2>3, <2>4, <2>5
<1> QED
  BY <1>1, <1>5, <1>7, <1>9, <1>10, <1>11

\* What a step of each of the three handlers that read can do.
LEMMA HeadStep ==
    ASSUME IndInv, ReadHead
    PROVE  /\ pc = "head" /\ n' \in Int
           /\ \/ /\ ring' \in [Slots -> Content] /\ got' \in Nat /\ got' <= job.size
                 /\ off' = got' /\ AsRead' /\ err' = err
                 /\ \/ pc' = "head" /\ off' < 2 * BS /\ highest' = highest /\ saved' = saved
                    \/ /\ pc' = "prefill" /\ off' = 2 * BS /\ highest' = 2
                       /\ saved' \in {saved, "this"}
              \/ /\ pc' = "out" /\ UNCHANGED <<ring, got, off, highest, saved>>
                 /\ got = job.size
                 /\ \/ n' = 0 /\ err' = err /\ job.ends = "eof"
                    \/ n' < 0 /\ err' = "error"
<1>0. TypeOK /\ MainPart /\ ReaderPart /\ RingPart
  BY DEF IndInv
<1>1. PICK k \in ReadResults(BS - (off % BS)) :
           /\ n' = k /\ err' = ErrorOf(k)
           /\ IF k > 0
                THEN /\ Receive(k)
                     /\ IF off' = 2 * BS
                          THEN pc' = "prefill" /\ highest' = 2 /\ saved' = IF job.iso THEN "this" ELSE saved
                          ELSE UNCHANGED <<pc, highest, saved>>
                ELSE pc' = "out" /\ UNCHANGED <<ring, got, off, highest, saved>>
  BY DEF ReadHead
<1>2. /\ pc = "head" /\ off = got /\ off < 2 * BS /\ off < NB * BS /\ AsRead
      /\ got \in Nat /\ job.size \in Nat /\ got <= job.size
  BY <1>0, RingAssumption, JobTypes
     DEF ReadHead, MainPart, RingPart, ReaderPart, Before, TypeOK
<1>3. /\ k \in Int
      /\ k <= 0 => got >= job.size
      /\ k = 0 => job.ends = "eof"
  BY <1>0, <1>2, HeadResult
<1>4. CASE k > 0
  <2>1. /\ ring' \in [Slots -> Content] /\ got' \in Nat /\ off' = got' /\ got' <= job.size
        /\ off' <= 2 * BS /\ AsRead'
    BY <1>0, <1>1, <1>2, <1>4, HeadReceive
  <2>2. err' = err
    BY <1>1, <1>3, <1>4 DEF ErrorOf
  <2>3. \/ pc' = "head" /\ off' < 2 * BS /\ highest' = highest /\ saved' = saved
        \/ /\ pc' = "prefill" /\ off' = 2 * BS /\ highest' = 2
           /\ saved' \in {saved, "this"}
    BY <1>1, <1>2, <1>4, <2>1, RingAssumption
  <2> QED
    BY <1>1, <1>2, <1>3, <2>1, <2>2, <2>3
<1>5. CASE ~(k > 0)
  BY <1>1, <1>2, <1>3, <1>5 DEF ErrorOf
<1> QED
  BY <1>4, <1>5

LEMMA PrefillStep ==
    ASSUME IndInv, Prefill
    PROVE  /\ pc = "prefill" /\ n' \in Int
           /\ \/ /\ ring' \in [Slots -> Content] /\ got' \in Nat /\ got' <= job.size
                 /\ off' = got' /\ AsRead' /\ err' = err /\ off <= off'
                 /\ \/ pc' = "prefill" /\ off' < NB * BS /\ highest' = highest
                    \/ pc' = "thread" /\ off' = NB * BS /\ highest' = NB
              \/ /\ UNCHANGED <<ring, got, off>> /\ got = job.size
                 /\ \/ n' = 0 /\ err' = err /\ job.ends = "eof" /\ pc' = "nothread" /\ highest' = Blocks
                    \/ n' < 0 /\ err' = "error" /\ pc' = "out" /\ highest' = highest
<1>0. TypeOK /\ MainPart /\ ReaderPart /\ RingPart
  BY DEF IndInv
<1>1. PICK k \in ReadResults(BS - (off % BS)) :
           /\ n' = k /\ err' = ErrorOf(k)
           /\ IF k > 0
                THEN /\ Receive(k)
                     /\ IF off' = NB * BS
                          THEN pc' = "thread" /\ highest' = NB
                          ELSE UNCHANGED <<pc, highest>>
                ELSE /\ IF k = 0
                          THEN pc' = "nothread" /\ highest' = (off + BS - 1) \div BS
                          ELSE pc' = "out" /\ UNCHANGED highest
                     /\ UNCHANGED <<ring, got, off>>
  BY DEF Prefill
<1>2. /\ pc = "prefill" /\ off = got /\ off < NB * BS /\ AsRead
      /\ got \in Nat /\ job.size \in Nat /\ got <= job.size
  BY <1>0, JobTypes DEF Prefill, MainPart, RingPart, ReaderPart, Before, TypeOK
<1>3. /\ k \in Int
      /\ k <= 0 => got >= job.size
      /\ k = 0 => job.ends = "eof"
  BY <1>0, <1>2, HeadResult
<1>4. CASE k > 0
  <2>1. /\ ring' \in [Slots -> Content] /\ got' \in Nat /\ off' = got' /\ got' <= job.size
        /\ off' <= NB * BS /\ AsRead'
    BY <1>0, <1>1, <1>2, <1>4, RingAssumption, HeadReceive
  <2>2. err' = err /\ off <= off'
    BY <1>1, <1>2, <1>3, <1>4 DEF ErrorOf, Receive
  <2>3. off' # NB * BS => off' < NB * BS
    BY <2>1, RingAssumption
  <2>4. \/ pc' = "prefill" /\ off' < NB * BS /\ highest' = highest
        \/ pc' = "thread" /\ off' = NB * BS /\ highest' = NB
    BY <1>1, <1>2, <1>4, <2>3
  <2> QED
    BY <1>1, <1>2, <1>3, <2>1, <2>2, <2>4
<1>5. CASE k = 0
  <2>1. got = job.size /\ highest' = (job.size + BS - 1) \div BS
    BY <1>1, <1>2, <1>3, <1>5
  <2>2. highest' = Blocks
    BY <2>1 DEF Blocks
  <2> HIDE DEF Blocks
  <2> QED
    BY <1>1, <1>2, <1>3, <1>5, <2>1, <2>2 DEF ErrorOf
<1>6. CASE k < 0
  BY <1>1, <1>2, <1>3, <1>6 DEF ErrorOf
<1> QED
  BY <1>3, <1>4, <1>5, <1>6

LEMMA ReadStep ==
    ASSUME IndInv, ReadBlock
    PROVE  /\ rpc = "read" /\ Slot(highest) \in Slots /\ roff < BS /\ ring' \in [Slots -> Content]
           /\ \/ \E k \in Nat \ {0} :
                    /\ roff + k <= BS /\ got + k <= job.size
                    /\ ring' = [ring EXCEPT ![Slot(highest)] = Received(@, roff, k)]
                    /\ got' = got + k /\ roff' = roff + k /\ rcode' = rcode
                    /\ rpc' = IF roff' = BS THEN "publish" ELSE "read"
              \/ /\ UNCHANGED <<ring, got, roff>> /\ got = job.size
                 /\ \/ /\ rcode' = Finished /\ job.ends = "eof"
                       /\ rpc' = IF roff > 0 THEN "pad" ELSE "exit"
                    \/ rcode' = Failed /\ job.ends # "eof" /\ rpc' = "exit"
<1>0. TypeOK /\ ReaderPart
  BY DEF IndInv
<1>1. /\ rpc = "read" /\ roff \in Nat /\ roff < BS /\ got \in Nat /\ job \in Jobs
      /\ highest \in Nat /\ ring \in [Slots -> Content] /\ BS \in Nat /\ job.size \in Nat
      /\ got <= job.size
  BY <1>0, RingAssumption, JobTypes DEF ReadBlock, ReaderPart, TypeOK
<1>2. PICK k \in ReadResults(BS - roff) :
           \/ /\ k > 0
              /\ ring' = [ring EXCEPT ![Slot(highest)] = Received(@, roff, k)]
              /\ got' = got + k /\ roff' = roff + k
              /\ rpc' = IF roff' = BS THEN "publish" ELSE "read"
              /\ UNCHANGED rcode
           \/ /\ k = 0
              /\ rcode' = Finished
              /\ rpc' = IF roff > 0 THEN "pad" ELSE "exit"
              /\ UNCHANGED <<ring, got, roff>>
           \/ /\ k < 0
              /\ rcode' = Failed
              /\ rpc' = "exit"
              /\ UNCHANGED <<ring, got, roff>>
  BY DEF ReadBlock
<1>3. BS - roff \in Nat \ {0}
  BY <1>1
<1>4. /\ k \in Int /\ k <= BS - roff
      /\ k > 0 => got + k <= job.size
      /\ k <= 0 => got >= job.size
      /\ k = 0 => job.ends = "eof"
      /\ k < 0 => job.ends # "eof"
  BY <1>1, <1>3, ReadResult
<1>5. Slot(highest) \in Slots
  BY <1>1, SlotType
<1>6. CASE k > 0
  <2>1. Received(ring[Slot(highest)], roff, k) \in Content
    BY <1>1, <1>4, <1>5, <1>6, ReceivedType
  <2>2. ring' \in [Slots -> Content]
    BY <1>1, <1>2, <1>4, <1>5, <1>6, <2>1
  <2>3. k \in Nat \ {0} /\ roff + k <= BS /\ got + k <= job.size
    BY <1>1, <1>4, <1>6
  <2> QED
    BY <1>1, <1>2, <1>4, <1>5, <1>6, <2>2, <2>3
<1>7. CASE k <= 0
  BY <1>1, <1>2, <1>4, <1>5, <1>7
<1> QED
  BY <1>4, <1>6, <1>7

------------------------------------------------------------------------------
(* Type correctness                                                        *)

LEMMA InitType == Init => TypeOK
<1> SUFFICES ASSUME Init PROVE TypeOK
  OBVIOUS
<1>1. ring \in [Slots -> Content]
  BY RingAssumption DEF Init, Content
<1>2. medium \in Seq(Content)
  BY DEF Init
<1>3. roff \in 0 .. BS
  BY RingAssumption DEF Init
<1>4. /\ job \in Jobs /\ sem = 0 /\ highest = 0 /\ readerExit = 0 /\ got = 0 /\ rcode = 0
      /\ rpc = "none" /\ pc = "head" /\ off = 0 /\ outoff = 0 /\ n = 0 /\ err = "none"
      /\ saved = "none" /\ relocated = "no" /\ exit = "running"
  BY DEF Init, SavedAtStart
<1> QED
  BY <1>1, <1>2, <1>3, <1>4 DEF TypeOK, MainPC

LEMMA StepType == IndInv /\ [Next]_vars => TypeOK'
<1> SUFFICES ASSUME IndInv, [Next]_vars PROVE TypeOK'
  OBVIOUS
<1>0. TypeOK /\ MainPart /\ ReaderPart /\ RingPart /\ EndPart
  BY DEF IndInv
<1> USE DEF MainPC, Finished, Failed
<1>1. CASE UNCHANGED vars
  BY <1>0, <1>1 DEF TypeOK, vars, shared, reading, writing, result
<1>2. CASE ReadHead
  <2>1. /\ ring' \in [Slots -> Content] /\ got' \in Nat /\ off' \in Nat /\ highest' \in Nat
        /\ n' \in Int /\ pc' \in MainPC /\ err' \in {"none", "startup", "error"}
        /\ saved' \in {"none", "this"}
    BY <1>0, <1>2, HeadStep DEF TypeOK
  <2> QED
    BY <1>0, <1>2, <2>1 DEF ReadHead, TypeOK, result
<1>3. CASE HeadRefused
  BY <1>0, <1>3 DEF TypeOK, HeadRefused, shared, reading, result
<1>4. CASE Prefill
  <2>1. Blocks \in Nat /\ NB \in Nat
    BY <1>0, BlocksBounds, RingAssumption DEF TypeOK
  <2>2. /\ ring' \in [Slots -> Content] /\ got' \in Nat /\ off' \in Nat /\ highest' \in Nat
        /\ n' \in Int /\ pc' \in MainPC /\ err' \in {"none", "startup", "error"}
    BY <1>0, <1>4, <2>1, PrefillStep DEF TypeOK
  <2> QED
    BY <1>0, <1>4, <2>2 DEF Prefill, TypeOK, result
<1>5. CASE StartReader
  BY <1>0, <1>5 DEF TypeOK, StartReader, InitialSem
<1>6. CASE ClearExit
  BY <1>0, <1>6 DEF TypeOK, ClearExit, reading, result
<1>7. CASE NoReader
  <2>1. \A s \in Slots : Zeroed(ring[s], off - s * BS) \in Content
    <3> SUFFICES ASSUME NEW s \in Slots PROVE Zeroed(ring[s], off - s * BS) \in Content
      OBVIOUS
    <3>1. ring[s] \in Content /\ off - s * BS \in Int
      BY <1>0, RingAssumption DEF TypeOK, Slots
    <3> QED
      BY <3>1, ZeroedType
  <2>2. [j \in 1 .. BS |-> 0] \in Content
    BY DEF Content
  <2>3. ring' \in [Slots -> Content]
    BY <1>0, <1>7, <2>1, <2>2 DEF NoReader, TypeOK
  <2> QED
    BY <1>0, <1>7, <2>3 DEF NoReader, TypeOK, reading, result
<1>8. CASE Unmount
  BY <1>0, <1>8 DEF TypeOK, Unmount, shared, reading
<1>9. CASE SpinExit \/ SpinHighest \/ MoreData
  BY <1>0, <1>9 DEF TypeOK, SpinExit, SpinHighest, MoreData, shared, reading, result
<1>10. CASE WriteBlock
  <2>1. ring[Slot(off)] \in Content
    BY <1>0, SlotType DEF TypeOK
  <2>2. medium' \in Seq(Content)
    BY <1>0, <1>10, <2>1 DEF WriteBlock, TypeOK
  <2>3. n' \in Int /\ err' \in {"none", "startup", "error"} /\ pc' \in {"post", "out"}
    BY <1>0, <1>10 DEF WriteBlock, TypeOK
  <2> QED
    BY <1>0, <1>10, <2>2, <2>3 DEF WriteBlock, TypeOK, shared, reading
<1>11. CASE Post
  BY <1>0, <1>11 DEF TypeOK, Post, reading, result
<1>12. CASE Count
  BY <1>0, <1>12 DEF TypeOK, Count, reading, result
<1>13. CASE Drained \/ Out
  BY <1>0, <1>13 DEF TypeOK, Drained, Out, shared, reading, result
<1>14. CASE Reap \/ Copied \/ CheckDescriptors \/ UpdateDescriptors \/ Done
  <2>1. pc' \in MainPC /\ exit' \in {"running", "ok", "startup", "error", "mkisofs"}
    BY <1>0, <1>14 DEF Reap, Copied, CheckDescriptors, UpdateDescriptors, Done, Ends, GoesTo,
                       TypeOK, EndPart, After
  <2>2. relocated' \in {"no", "this"}
    BY <1>0, <1>14 DEF Reap, Copied, CheckDescriptors, UpdateDescriptors, Done, TypeOK, EndPart
  <2> QED
    BY <1>0, <1>14, <2>1, <2>2
       DEF Reap, Copied, CheckDescriptors, UpdateDescriptors, Done, TypeOK, shared, reading
<1>15. CASE SemWait
  BY <1>0, <1>15, RingAssumption DEF TypeOK, SemWait, writing, result
<1>16. CASE ReadBlock
  <2>1. /\ ring' \in [Slots -> Content] /\ got' \in Nat /\ roff' \in 0 .. BS
        /\ rcode' \in {0, Finished, Failed} /\ rpc' \in {"read", "publish", "pad", "exit"}
    BY <1>0, <1>16, ReadStep, RingAssumption DEF TypeOK
  <2> QED
    BY <1>0, <1>16, <2>1 DEF ReadBlock, TypeOK, writing, result
<1>17. CASE Publish \/ PublishLast
  BY <1>0, <1>17 DEF TypeOK, Publish, PublishLast, writing, result
<1>18. CASE PadBlock
  <2>1. Slot(highest) \in Slots
    BY <1>0, SlotType DEF TypeOK
  <2>2. Zeroed(ring[Slot(highest)], roff) \in Content
    BY <1>0, <2>1, ZeroedType DEF TypeOK
  <2>3. ring' \in [Slots -> Content]
    BY <1>0, <1>18, <2>1, <2>2 DEF PadBlock, TypeOK
  <2> QED
    BY <1>0, <1>18, <2>3 DEF PadBlock, TypeOK, writing, result
<1>19. CASE ReaderExit
  BY <1>0, <1>19 DEF TypeOK, ReaderExit, writing, result
<1> QED
  BY <1>1, <1>2, <1>3, <1>4, <1>5, <1>6, <1>7, <1>8, <1>9, <1>10, <1>11, <1>12, <1>13,
     <1>14, <1>15, <1>16, <1>17, <1>18, <1>19
     DEF Next, MainStep, ReaderStep, Main, Reader, Exited

------------------------------------------------------------------------------
(* The parts of the invariant: main()                                      *)

LEMMA HeadFits == 2 * BS \in Nat /\ NB * BS \in Nat /\ 2 * BS < NB * BS
BY RingAssumption

\* Nothing but main() itself moves it.
LEMMA StepMain == IndInv /\ [Next]_vars => MainPart'
<1> SUFFICES ASSUME IndInv, [Next]_vars PROVE MainPart'
  OBVIOUS
<1>0. TypeOK /\ MainPart /\ ReaderPart
  BY DEF IndInv
<1>t. /\ off \in Nat /\ outoff \in Nat /\ highest \in Nat /\ got \in Nat /\ sem \in Nat
      /\ medium \in Seq(Content) /\ NB \in Nat /\ NB > 2
  BY <1>0, RingAssumption DEF TypeOK
<1> USE DEF Before, Waiting, Copying, Started, MainPart
<1>1. CASE UNCHANGED vars
  <2>1. UNCHANGED <<job, pc, off, outoff, highest, got, sem, readerExit, rpc, medium>>
    BY <1>1 DEF vars, shared, reading, writing, result
  <2> QED
    BY <1>0, <2>1 DEF Blocks
<1>2. CASE ReadHead
  <2>1. /\ pc = "head" /\ UNCHANGED <<outoff, sem, readerExit, rpc, medium>>
    BY <1>2 DEF ReadHead, result
  <2>2. \/ /\ off' = got' /\ off' \in Nat
           /\ \/ pc' = "head" /\ off' < 2 * BS /\ highest' = highest
              \/ pc' = "prefill" /\ off' = 2 * BS /\ highest' = 2
        \/ pc' = "out" /\ UNCHANGED <<got, off, highest>>
    BY <1>2, HeadStep
  <2>3. off <= NB * BS /\ (pc' \in {"head", "prefill"} => off' <= NB * BS)
    BY <1>0, <1>t, <2>1, <2>2, HeadFits
  <2> QED
    BY <1>0, <1>t, <2>1, <2>2, <2>3, HeadFits
<1>3. CASE HeadRefused
  BY <1>0, <1>t, <1>3 DEF HeadRefused, shared, reading, result
<1>4. CASE Prefill
  <2>1. Blocks \in Nat /\ (job.size < NB * BS => Blocks <= NB)
    <3>1. /\ Blocks \in Nat /\ Blocks * BS \in Nat
          /\ job.size <= Blocks * BS /\ Blocks * BS < job.size + BS
      BY <1>0, BlocksBounds DEF TypeOK
    <3>2. Blocks > NB => NB * BS + BS <= Blocks * BS
      BY <1>t, <3>1, TimesMono
    <3> QED
      BY <1>0, <1>t, <3>1, <3>2, JobTypes, RingAssumption, HeadFits DEF TypeOK
  <2> HIDE DEF Blocks
  <2>2. /\ pc = "prefill" /\ UNCHANGED <<outoff, sem, readerExit, rpc, medium>>
    BY <1>4 DEF Prefill, result
  <2>3. \/ /\ off' = got' /\ off' \in Nat /\ off <= off'
           /\ \/ pc' = "prefill" /\ off' < NB * BS /\ highest' = highest
              \/ pc' = "thread" /\ off' = NB * BS /\ highest' = NB
        \/ /\ UNCHANGED <<got, off>> /\ got = job.size
           /\ \/ job.ends = "eof" /\ pc' = "nothread" /\ highest' = Blocks
              \/ pc' = "out" /\ highest' = highest
    BY <1>4, PrefillStep
  <2>4. CASE pc' = "prefill"
    BY <1>0, <1>t, <2>2, <2>3, <2>4, HeadFits
  <2>5. CASE pc' = "thread"
    BY <1>0, <1>t, <2>2, <2>3, <2>5, HeadFits
  <2>6. CASE pc' = "nothread"
    <3>1. job' = job /\ off < NB * BS /\ off = got /\ Blocks' = Blocks
      BY <1>0, <1>4, <2>2 DEF Prefill, Blocks
    <3> QED
      BY <1>0, <1>t, <2>1, <2>2, <2>3, <2>6, <3>1, HeadFits
  <2>7. CASE pc' = "out"
    BY <1>0, <1>t, <2>2, <2>3, <2>7
  <2> QED
    BY <2>3, <2>4, <2>5, <2>6, <2>7
<1>5. CASE StartReader
  BY <1>0, <1>t, <1>5 DEF StartReader
<1>6. CASE ClearExit
  BY <1>0, <1>t, <1>6 DEF ClearExit, reading, result
<1>7. CASE NoReader
  BY <1>0, <1>t, <1>7 DEF NoReader, reading, result
<1>8. CASE Unmount
  BY <1>0, <1>t, <1>8 DEF Unmount, shared, reading
<1>9. CASE SpinExit \/ SpinHighest \/ MoreData
  BY <1>0, <1>t, <1>9 DEF SpinExit, SpinHighest, MoreData, shared, reading, result
<1>10. CASE WriteBlock
  BY <1>0, <1>t, <1>10 DEF WriteBlock, shared, reading
<1>11. CASE Post
  BY <1>0, <1>t, <1>11 DEF Post, reading, result
<1>12. CASE Count
  BY <1>0, <1>t, <1>12 DEF Count, reading, result
<1>13. CASE Drained \/ Out
  BY <1>0, <1>t, <1>13 DEF Drained, Out, shared, reading, result
<1>14. CASE Reap \/ Copied \/ CheckDescriptors \/ UpdateDescriptors \/ Done
  BY <1>0, <1>t, <1>14 DEF Reap, Copied, CheckDescriptors, UpdateDescriptors, Done, Ends, GoesTo,
                       shared, reading
<1>15. CASE SemWait
  BY <1>0, <1>t, <1>15 DEF SemWait, ReaderPart, Posted, writing, result
<1>16. CASE ReadBlock
  BY <1>0, <1>t, <1>16, ReadStep DEF ReadBlock, writing, result
<1>17. CASE Publish \/ PublishLast
  BY <1>0, <1>t, <1>17 DEF Publish, PublishLast, ReaderPart, writing, result
<1>18. CASE PadBlock
  BY <1>0, <1>t, <1>18 DEF PadBlock, writing, result
<1>19. CASE ReaderExit
  BY <1>0, <1>t, <1>19 DEF ReaderExit, ReaderPart, writing, result
<1> QED
  BY <1>1, <1>2, <1>3, <1>4, <1>5, <1>6, <1>7, <1>8, <1>9, <1>10, <1>11, <1>12, <1>13,
     <1>14, <1>15, <1>16, <1>17, <1>18, <1>19
     DEF Next, MainStep, ReaderStep, Main, Reader, Exited

------------------------------------------------------------------------------
(* reader(), and the count of the free blocks                              *)

\* What the size of the image says of the block that is being read.
LEMMA InBlock ==
    ASSUME job \in Jobs, NEW b \in Nat, NEW r \in 0 .. BS, b * BS + r <= job.size
    PROVE  /\ r = BS => b + 1 <= Blocks
           /\ b <= Blocks
           /\ b * BS + r = job.size /\ 0 < r => Blocks = b + 1
           /\ b * BS = job.size => Blocks = b
<1>1. /\ Blocks \in Nat /\ Blocks * BS \in Nat
      /\ job.size <= Blocks * BS /\ Blocks * BS < job.size + BS
  BY BlocksBounds
<1>2. job.size \in Nat /\ BS \in Nat \ {0}
  BY JobTypes, RingAssumption
<1>3. b * BS \in Nat /\ (b + 1) * BS = b * BS + BS
  BY TimesNext
<1>4. Blocks < b => Blocks * BS + BS <= b * BS
  BY <1>1, TimesMono
<1>5. Blocks > b => b * BS + BS <= Blocks * BS
  BY <1>1, TimesMono
<1>6. Blocks > b + 1 => (b + 1) * BS + BS <= Blocks * BS
  BY <1>1, TimesMono
<1>7. Blocks = b => Blocks * BS = b * BS
  BY <1>1
<1> HIDE DEF Blocks
<1> QED
  BY <1>1, <1>2, <1>3, <1>4, <1>5, <1>6, <1>7

LEMMA StepReader == IndInv /\ [Next]_vars => ReaderPart'
<1> SUFFICES ASSUME IndInv, [Next]_vars PROVE ReaderPart'
  OBVIOUS
<1>0. TypeOK /\ MainPart /\ ReaderPart
  BY DEF IndInv
<1>t. /\ off \in Nat /\ outoff \in Nat /\ highest \in Nat /\ got \in Nat /\ sem \in Nat
      /\ roff \in 0 .. BS /\ NB \in Nat /\ NB > 2 /\ BS \in Nat /\ BS > 0
      /\ job \in Jobs /\ job.size \in Nat
  BY <1>0, JobTypes, RingAssumption DEF TypeOK
<1>b. highest * BS \in Nat /\ (highest + 1) * BS = highest * BS + BS
  BY <1>t, TimesNext
<1>j. job' = job /\ Blocks' = Blocks
  BY DEF Next, MainStep, ReaderStep, Main, Reader, Exited, vars, shared, reading, writing, result,
         ReadHead, HeadRefused, Prefill, StartReader, ClearExit, NoReader, Unmount, SpinExit,
         SpinHighest, MoreData, WriteBlock, Post, Count, Drained, Out, Reap, Copied,
         CheckDescriptors, UpdateDescriptors, Done, SemWait, ReadBlock, Publish, PadBlock,
         PublishLast, ReaderExit, Blocks
<1>n. Blocks \in Nat
  BY <1>t, BlocksBounds
<1> HIDE DEF Blocks
<1> USE DEF Before, Waiting, Copying, Started, Posted, ReaderPart, Finished, Failed
<1>1. CASE UNCHANGED vars
  BY <1>0, <1>1, <1>j DEF vars, shared, reading, writing, result
<1>2. CASE ReadHead
  <2>1. 2 * BS <= job.size => 2 <= Blocks
    BY <1>t, InBlock
  <2>2. /\ pc = "head" /\ UNCHANGED <<outoff, sem, readerExit, rpc, rcode, roff>>
        /\ pc' \in {"head", "prefill", "out"} /\ got' <= job.size
        /\ highest' = highest \/ (highest' = 2 /\ 2 * BS <= job.size)
    BY <1>0, <1>2, HeadStep DEF ReadHead
  <2> QED
    BY <1>0, <1>t, <1>j, <2>1, <2>2 DEF MainPart
<1>3. CASE HeadRefused
  BY <1>0, <1>3, <1>j DEF MainPart, HeadRefused, shared, reading
<1>4. CASE Prefill
  <2>1. NB * BS <= job.size => NB <= Blocks
    BY <1>t, InBlock
  <2>2. /\ pc = "prefill" /\ UNCHANGED <<outoff, sem, readerExit, rpc, rcode, roff>>
        /\ pc' \in {"prefill", "thread", "nothread", "out"} /\ got' <= job.size
        /\ highest' \in {highest, Blocks} \/ (highest' = NB /\ NB * BS <= job.size)
    BY <1>0, <1>4, PrefillStep DEF Prefill
  <2> QED
    BY <1>0, <1>t, <1>n, <1>j, <2>1, <2>2 DEF MainPart
<1>5. CASE StartReader
  BY <1>0, <1>t, <1>j, <1>5 DEF MainPart, StartReader, InitialSem
<1>6. CASE ClearExit
  BY <1>0, <1>t, <1>j, <1>6 DEF MainPart, ClearExit, reading
<1>7. CASE NoReader
  BY <1>0, <1>t, <1>j, <1>7 DEF MainPart, NoReader, reading
<1>8. CASE Unmount
  BY <1>0, <1>t, <1>j, <1>8 DEF Unmount, shared, reading
<1>9. CASE SpinExit \/ SpinHighest \/ MoreData
  BY <1>0, <1>t, <1>j, <1>9 DEF SpinExit, SpinHighest, MoreData, shared, reading
<1>10. CASE WriteBlock
  BY <1>0, <1>t, <1>j, <1>10 DEF WriteBlock, shared, reading
<1>11. CASE Post
  BY <1>0, <1>t, <1>j, <1>11 DEF Post, reading
<1>12. CASE Count
  BY <1>0, <1>t, <1>j, <1>12 DEF Count, reading
<1>13. CASE Drained \/ Out
  BY <1>0, <1>t, <1>j, <1>13 DEF Drained, Out, shared, reading
<1>14. CASE Reap \/ Copied \/ CheckDescriptors \/ UpdateDescriptors \/ Done
  BY <1>0, <1>t, <1>j, <1>14 DEF Reap, Copied, CheckDescriptors, UpdateDescriptors, Done,
                                 Ends, GoesTo, shared, reading
<1>15. CASE SemWait
  BY <1>0, <1>t, <1>b, <1>j, <1>15 DEF SemWait, writing
<1>16. CASE ReadBlock
  <2>1. /\ rpc = "read" /\ UNCHANGED <<pc, outoff, sem, highest, readerExit>>
    BY <1>16 DEF ReadBlock, writing
  <2>2. CASE \E k \in Nat \ {0} :
                /\ roff + k <= BS /\ got + k <= job.size
                /\ got' = got + k /\ roff' = roff + k /\ rcode' = rcode
                /\ rpc' = IF roff' = BS THEN "publish" ELSE "read"
    BY <1>0, <1>t, <1>b, <1>j, <2>1, <2>2
  <2>3. CASE /\ UNCHANGED <<got, roff>> /\ got = job.size
             /\ \/ /\ rcode' = Finished /\ job.ends = "eof"
                   /\ rpc' = IF roff > 0 THEN "pad" ELSE "exit"
                \/ rcode' = Failed /\ job.ends # "eof" /\ rpc' = "exit"
    <3>1. roff = 0 => Blocks = highest
      BY <1>0, <1>t, <1>b, <2>1, <2>3, InBlock
    <3> QED
      BY <1>0, <1>t, <1>b, <1>j, <2>1, <2>3, <3>1
  <2> QED
    BY <1>16, <2>2, <2>3, ReadStep
<1>17. CASE Publish
  <2>1. highest + 1 <= Blocks
    BY <1>0, <1>t, <1>b, <1>17, InBlock DEF Publish
  <2> QED
    BY <1>0, <1>t, <1>b, <1>n, <1>j, <1>17, <2>1 DEF Publish, writing
<1>18. CASE PadBlock
  <2>1. highest + 1 = Blocks
    BY <1>0, <1>t, <1>b, <1>18, InBlock DEF PadBlock
  <2> QED
    BY <1>0, <1>t, <1>j, <1>18, <2>1 DEF PadBlock, writing
<1>19. CASE PublishLast
  BY <1>0, <1>t, <1>n, <1>j, <1>19 DEF PublishLast, writing
<1>20. CASE ReaderExit
  BY <1>0, <1>t, <1>j, <1>20 DEF ReaderExit, writing
<1> QED
  BY <1>1, <1>2, <1>3, <1>4, <1>5, <1>6, <1>7, <1>8, <1>9, <1>10, <1>11, <1>12, <1>13,
     <1>14, <1>15, <1>16, <1>17, <1>18, <1>19, <1>20
     DEF Next, MainStep, ReaderStep, Main, Reader, Exited

------------------------------------------------------------------------------
(* What the ring holds                                                     *)

LEMMA SameContent ==
    ASSUME NEW f \in Content, NEW g \in Content, \A j \in 1 .. BS : f[j] = g[j]
    PROVE  f = g
<1>1. f = [j \in 1 .. BS |-> f[j]] /\ g = [j \in 1 .. BS |-> g[j]]
  BY DEF Content
<1>2. [j \in 1 .. BS |-> f[j]] = [j \in 1 .. BS |-> g[j]]
  BY Zenon
<1> QED
  BY <1>1, <1>2, Zenon

\* A block of which all bytes were read is the block of the image.
LEMMA FullBlock ==
    ASSUME TypeOK, AsRead, got <= job.size, NEW b \in Slots, b * BS + BS <= got \/ got = job.size
    PROVE  ring[b] = Block(b)
<1>1. /\ b \in Nat /\ b * BS \in Nat /\ ring[b] \in Content /\ got \in Nat
      /\ job \in Jobs /\ job.size \in Nat /\ BS \in Nat
  BY JobTypes, RingAssumption, TimesNext DEF TypeOK, Slots
<1>2. /\ Block(b) \in Content
      /\ \A j \in 1 .. BS : Block(b)[j] = IF b * BS + j <= job.size THEN b * BS + j ELSE 0
  BY <1>1, BlockType
<1>3. ASSUME NEW j \in 1 .. BS PROVE ring[b][j] = Block(b)[j]
  <2>1. ring[b][j] = IF b * BS + j <= got THEN b * BS + j ELSE 0
    BY DEF AsRead
  <2> QED
    BY <1>1, <1>2, <2>1
<1> QED
  BY <1>1, <1>2, <1>3, SameContent

\* ... and so are the blocks that are published when main() leaves the head.
LEMMA FullBlocks ==
    ASSUME TypeOK, AsRead, got <= job.size, NEW m \in 0 .. NB, m * BS <= got
    PROVE  \A b \in 0 .. m - 1 : ring[Slot(b)] = Block(b)
<1> SUFFICES ASSUME NEW b \in 0 .. m - 1 PROVE ring[Slot(b)] = Block(b)
  OBVIOUS
<1>1. b \in Slots /\ Slot(b) = b /\ b \in Nat /\ m \in Nat
  BY RingAssumption, SlotSmall DEF Slots
<1>2. b * BS + BS <= m * BS /\ b * BS \in Nat
  BY <1>1, TimesMono
<1>3. b * BS + BS <= got
  BY <1>1, <1>2, RingAssumption DEF TypeOK
<1> QED
  BY <1>1, <1>3, FullBlock

LEMMA StepRing == IndInv /\ [Next]_vars => RingPart'
<1> SUFFICES ASSUME IndInv, [Next]_vars PROVE RingPart'
  OBVIOUS
<1>0. TypeOK /\ MainPart /\ ReaderPart /\ RingPart
  BY DEF IndInv
<1>t. /\ off \in Nat /\ outoff \in Nat /\ highest \in Nat /\ got \in Nat /\ sem \in Nat
      /\ roff \in Nat /\ roff <= BS /\ NB \in Nat /\ NB > 2 /\ BS \in Nat /\ BS > 0
      /\ job \in Jobs /\ job.size \in Nat /\ ring \in [Slots -> Content]
      /\ got <= job.size
  BY <1>0, JobTypes, RingAssumption DEF TypeOK, ReaderPart
<1>b. highest * BS \in Nat /\ (highest + 1) * BS = highest * BS + BS
  BY <1>t, TimesNext
<1>j. job' = job /\ \A b : Block(b)' = Block(b)
  BY DEF Next, MainStep, ReaderStep, Main, Reader, Exited, vars, shared, reading, writing, result,
         ReadHead, HeadRefused, Prefill, StartReader, ClearExit, NoReader, Unmount, SpinExit,
         SpinHighest, MoreData, WriteBlock, Post, Count, Drained, Out, Reap, Copied,
         CheckDescriptors, UpdateDescriptors, Done, SemWait, ReadBlock, Publish, PadBlock,
         PublishLast, ReaderExit, Block
<1>u. Posted \in Nat /\ Posted' \in Nat
  <2>1. TypeOK'
    BY StepType
  <2>2. outoff \in Nat /\ outoff' \in Nat
    BY <1>0, <2>1 DEF TypeOK
  <2>3. Posted = outoff \/ Posted = outoff + 1
    BY DEF Posted
  <2>4. Posted' = outoff' \/ Posted' = outoff' + 1
    BY DEF Posted
  <2> QED
    BY <2>2, <2>3, <2>4
<1>r. pc \in Before => rpc = "none" /\ outoff = 0
  BY <1>0 DEF MainPart, Started
\* A step that leaves the ring and the reader alone.
<1>s. ASSUME UNCHANGED <<ring, highest, rpc, roff, got>>, pc \notin Before, pc' \notin Before,
             Posted' >= Posted
      PROVE  RingPart'
  <2>1. \A b \in Posted' .. highest - 1 : b \in Posted .. highest - 1
    BY <1>t, <1>u, <1>s
  <2> QED
    BY <1>0, <1>j, <1>s, <2>1 DEF RingPart, Slot
\* The published blocks are not in the slot that is being read into.
<1>p. rpc \in {"read", "publish", "pad", "last"} =>
          \A b \in Posted .. highest - 1 : Slot(b) # Slot(highest)
  <2> SUFFICES ASSUME rpc \in {"read", "publish", "pad", "last"}, NEW b \in Posted .. highest - 1
               PROVE  Slot(b) # Slot(highest)
    OBVIOUS
  <2>1. b \in Nat /\ b < highest /\ highest - b < NB
    BY <1>0, <1>t DEF ReaderPart, Posted
  <2> QED
    BY <1>t, <2>1, SlotInjective
<1>1. CASE UNCHANGED vars
  BY <1>0, <1>1, <1>j
     DEF vars, shared, reading, writing, result, RingPart, AsRead, Posted, Slot
\* main() leaves the head: what it published is what it has read.
<1>f. ASSUME UNCHANGED <<ring, rpc>>, pc \in Before, pc' \notin Before,
             highest' \in Nat, highest' <= NB, highest' * BS <= got
      PROVE  RingPart'
  <2>1. \A b \in 0 .. highest' - 1 : ring[Slot(b)] = Block(b)
    <3>1. highest' \in 0 .. NB
      BY <1>t, <1>f
    <3> QED
      BY <1>0, <1>t, <1>f, <3>1, FullBlocks DEF RingPart
  <2>2. \A p, h \in Nat : \A b \in p .. h - 1 : b \in 0 .. h - 1
    OBVIOUS
  <2>3. rpc' = "none"
    BY <1>r, <1>f
  <2> QED
    BY <1>j, <1>u, <1>f, <2>1, <2>2, <2>3 DEF RingPart, Slot
\* main() stays there.
<1>h. ASSUME AsRead', UNCHANGED rpc, pc \in Before, pc' \in Before
      PROVE  RingPart'
  BY <1>r, <1>h DEF RingPart
<1>2. CASE ReadHead
  <2>1. pc = "head" /\ UNCHANGED rpc
    BY <1>2 DEF ReadHead
  <2>2. CASE AsRead' /\ pc' \in {"head", "prefill"}
    BY <1>h, <2>1, <2>2 DEF Before
  <2>3. CASE pc' = "out" /\ UNCHANGED <<ring, highest>>
    <3>1. highest' = 0 /\ highest' * BS <= got
      BY <1>0, <1>t, <2>1, <2>3 DEF MainPart
    <3> QED
      BY <1>f, <1>t, <2>1, <2>3, <3>1 DEF Before
  <2> QED
    BY <1>2, <2>2, <2>3, HeadStep
<1>3. CASE HeadRefused
  <2>1. pc = "prefill" /\ pc' = "out" /\ UNCHANGED <<ring, rpc, highest>>
    BY <1>3 DEF HeadRefused, shared, reading
  <2>2. highest' = 2 /\ 2 * BS <= got
    BY <1>0, <1>t, <2>1 DEF MainPart, Before
  <2> QED
    BY <1>f, <1>t, <2>1, <2>2 DEF Before
<1>4. CASE Prefill
  <2>1. pc = "prefill" /\ UNCHANGED rpc
    BY <1>4 DEF Prefill
  <2>2. CASE AsRead' /\ pc' \in {"prefill", "thread"}
    BY <1>h, <2>1, <2>2 DEF Before
  <2>3. CASE UNCHANGED <<ring, got>> /\ pc' = "nothread"
    <3>1. AsRead'
      BY <1>0, <2>1, <2>3 DEF RingPart, AsRead, Before
    <3> QED
      BY <1>h, <2>1, <2>3, <3>1 DEF Before
  <2>4. CASE UNCHANGED <<ring, got, highest>> /\ pc' = "out"
    <3>1. highest' = 2 /\ 2 * BS <= got
      BY <1>0, <1>t, <2>1, <2>4 DEF MainPart, Before
    <3> QED
      BY <1>f, <1>t, <2>1, <2>4, <3>1 DEF Before
  <2> QED
    BY <1>4, <2>2, <2>3, <2>4, PrefillStep
<1>5. CASE StartReader
  <2>1. CASE UNCHANGED <<pc, rpc>>
    <3>1. AsRead'
      BY <1>0, <1>5 DEF StartReader, RingPart, AsRead, Before
    <3> QED
      BY <1>h, <1>5, <2>1, <3>1 DEF StartReader, Before
  <2>2. CASE pc' = "clear" /\ rpc' = "wait"
    <3>1. pc = "thread" /\ highest = NB /\ highest * BS <= got /\ UNCHANGED <<ring, highest>>
      BY <1>0, <1>t, <1>5, HeadFits DEF StartReader, MainPart, Before
    <3>2. \A b \in 0 .. highest - 1 : ring[Slot(b)] = Block(b)
      BY <1>0, <1>t, <3>1, FullBlocks DEF RingPart, Before
    <3>3. \A b \in Posted' .. highest - 1 : b \in 0 .. highest - 1
      BY <1>t, <1>u
    <3> QED
      BY <1>j, <2>2, <3>1, <3>2, <3>3 DEF RingPart, Before, Slot
  <2> QED
    BY <1>5, <2>1, <2>2 DEF StartReader
<1>6. CASE ClearExit
  BY <1>s, <1>6, <1>t DEF ClearExit, reading, Before, Posted
<1>7. CASE NoReader
  <2>1. /\ pc = "nothread" /\ off = got /\ got = job.size /\ off < NB * BS /\ rpc' = "none"
        /\ highest = Blocks /\ highest <= NB /\ highest' = highest /\ pc' = "umount"
    BY <1>0, <1>7, <1>r DEF NoReader, MainPart, Before, reading
  <2>2. ASSUME NEW b \in 0 .. highest - 1 PROVE ring'[Slot(b)] = Block(b)
    <3>1. b \in Slots /\ Slot(b) = b /\ b \in Nat
      BY <1>t, <2>1, SlotSmall DEF Slots
    <3>2. b * BS \in Nat /\ (b + 1) * BS = b * BS + BS /\ b * BS + BS <= highest * BS
      BY <1>t, <3>1, TimesNext, TimesMono
    <3>3. b * BS < off
      BY <1>t, <1>b, <2>1, <3>2, BlocksBounds
    <3>4. ring[b] = Block(b)
      BY <1>0, <1>t, <2>1, <3>1, FullBlock DEF RingPart, Before
    <3>5. CASE (b + 1) * BS <= off
      BY <1>t, <1>7, <3>1, <3>2, <3>3, <3>4, <3>5 DEF NoReader
    <3>6. CASE ~((b + 1) * BS <= off)
      <4>1. ring'[b] = Zeroed(ring[b], off - b * BS)
        BY <1>t, <1>7, <3>1, <3>2, <3>3, <3>6 DEF NoReader
      <4>2. /\ Zeroed(ring[b], off - b * BS) \in Content
            /\ \A j \in 1 .. BS : Zeroed(ring[b], off - b * BS)[j]
                                    = IF j > off - b * BS THEN 0 ELSE ring[b][j]
        BY <1>t, <3>1, <3>2, ZeroedType
      <4>3. /\ Block(b) \in Content
            /\ \A j \in 1 .. BS :
                  Block(b)[j] = IF b * BS + j <= job.size THEN b * BS + j ELSE 0
        BY <1>t, <3>1, BlockType
      <4>4. \A j \in 1 .. BS : Zeroed(ring[b], off - b * BS)[j] = Block(b)[j]
        BY <1>t, <2>1, <3>2, <3>4, <4>2, <4>3
      <4> QED
        BY <3>1, <4>1, <4>2, <4>3, <4>4, SameContent
    <3> QED
      BY <3>5, <3>6
  <2>3. \A b \in Posted' .. highest - 1 : b \in 0 .. highest - 1
    BY <1>t, <1>u
  <2> QED
    BY <1>j, <2>1, <2>2, <2>3 DEF RingPart, Before, Slot
<1>8. CASE Unmount
  BY <1>s, <1>8, <1>t DEF Unmount, shared, reading, Before, Posted
<1>9. CASE SpinExit \/ SpinHighest \/ MoreData
  BY <1>s, <1>9, <1>t DEF SpinExit, SpinHighest, MoreData, shared, reading, Before, Posted
<1>10. CASE WriteBlock
  BY <1>s, <1>10, <1>t DEF WriteBlock, shared, reading, Before, Posted
<1>11. CASE Post
  BY <1>s, <1>11, <1>t DEF Post, reading, Before, Posted
<1>12. CASE Count
  BY <1>s, <1>12, <1>t DEF Count, reading, Before, Posted
<1>13. CASE Drained \/ Out
  BY <1>s, <1>13, <1>t DEF Drained, Out, shared, reading, Before, Posted
<1>14. CASE Reap \/ Copied \/ CheckDescriptors \/ UpdateDescriptors \/ Done
  BY <1>s, <1>14, <1>t DEF Reap, Copied, CheckDescriptors, UpdateDescriptors, Done, Ends, GoesTo,
                           shared, reading, Before, Posted
<1>v. rpc # "none" => pc \notin Before
  BY <1>r
<1>15. CASE SemWait
  <2>1. rpc' = "read" /\ roff' = 0 /\ pc \notin Before /\ UNCHANGED <<ring, highest, pc, Posted>>
    BY <1>15, <1>v DEF SemWait, writing, Posted
  <2>2. \A j \in 1 .. roff' : FALSE
    BY <2>1
  <2> QED
    BY <1>0, <1>j, <2>1, <2>2 DEF RingPart, Slot
<1>16. CASE ReadBlock
  <2>1. /\ rpc = "read" /\ pc \notin Before /\ UNCHANGED <<pc, highest, Posted>>
        /\ got = highest * BS + roff
    BY <1>0, <1>16, <1>v DEF ReadBlock, writing, Posted, ReaderPart
  <2>2. CASE UNCHANGED <<ring, got, roff>> /\ rpc' \in {"pad", "exit"}
    BY <1>0, <1>j, <2>1, <2>2 DEF RingPart, Slot
  <2>3. CASE \E k \in Nat \ {0} :
                /\ roff + k <= BS /\ got + k <= job.size
                /\ ring' = [ring EXCEPT ![Slot(highest)] = Received(@, roff, k)]
                /\ got' = got + k /\ roff' = roff + k /\ rcode' = rcode
                /\ rpc' = IF roff' = BS THEN "publish" ELSE "read"
    <3>1. PICK k \in Nat \ {0} :
                /\ roff + k <= BS
                /\ ring' = [ring EXCEPT ![Slot(highest)] = Received(@, roff, k)]
                /\ roff' = roff + k
                /\ rpc' \in {"publish", "read"}
      BY <2>3
    <3>2. Slot(highest) \in Slots /\ ring[Slot(highest)] \in Content
      BY <1>t, SlotType
    <3>3. \A j \in 1 .. BS : ring'[Slot(highest)][j] =
             IF j > roff /\ j <= roff + k THEN got + j - roff ELSE ring[Slot(highest)][j]
      <4>1. ring'[Slot(highest)] = Received(ring[Slot(highest)], roff, k)
        BY <1>t, <3>1, <3>2
      <4>2. got \in Nat /\ roff \in Nat /\ k \in Nat
        BY <1>t, <3>1
      <4>3. \A j \in 1 .. BS : Received(ring[Slot(highest)], roff, k)[j] =
               IF j > roff /\ j <= roff + k THEN got + j - roff ELSE ring[Slot(highest)][j]
        BY <3>2, <4>2, ReceivedType
      <4> QED
        BY <4>1, <4>3, Zenon
    <3>4. \A j \in 1 .. roff + k : ring'[Slot(highest)][j] = highest * BS + j
      BY <1>0, <1>t, <1>b, <2>1, <3>1, <3>3 DEF RingPart
    <3>5. \A b \in Posted .. highest - 1 : ring'[Slot(b)] = ring[Slot(b)]
      <4> SUFFICES ASSUME NEW b \in Posted .. highest - 1 PROVE ring'[Slot(b)] = ring[Slot(b)]
        OBVIOUS
      <4>1. Slot(b) \in Slots /\ Slot(b) # Slot(highest)
        BY <1>p, <1>t, <1>u, <2>1, SlotType
      <4> QED
        BY <1>t, <3>1, <4>1
    <3> QED
      BY <1>0, <1>j, <2>1, <3>1, <3>4, <3>5 DEF RingPart, Slot
  <2> QED
    BY <1>16, <2>2, <2>3, ReadStep
<1>17. CASE Publish
  <2>1. /\ rpc = "publish" /\ rpc' = "wait" /\ pc \notin Before /\ UNCHANGED <<ring, pc, Posted>>
        /\ highest' = highest + 1 /\ roff = BS /\ got = highest * BS + BS
    BY <1>0, <1>17, <1>v DEF Publish, writing, Posted, ReaderPart
  <2>2. ring[Slot(highest)] = Block(highest)
    <3>1. /\ Block(highest) \in Content
          /\ \A j \in 1 .. BS : Block(highest)[j] =
                IF highest * BS + j <= job.size THEN highest * BS + j ELSE 0
      BY <1>t, BlockType
    <3>2. \A j \in 1 .. BS : ring[Slot(highest)][j] = highest * BS + j
      BY <1>0, <2>1 DEF RingPart
    <3>3. \A j \in 1 .. BS : ring[Slot(highest)][j] = Block(highest)[j]
      BY <1>t, <1>b, <2>1, <3>1, <3>2
    <3>4. ring[Slot(highest)] \in Content
      BY <1>t, SlotType
    <3> QED
      BY <3>1, <3>3, <3>4, SameContent
  <2>3. \A b \in Posted .. highest' - 1 : b = highest \/ b \in Posted .. highest - 1
    BY <1>t, <1>u, <2>1
  <2> QED
    BY <1>0, <1>j, <2>1, <2>2, <2>3 DEF RingPart, Slot
<1>18. CASE PadBlock
  <2>1. /\ rpc = "pad" /\ rpc' = "last" /\ pc \notin Before /\ UNCHANGED <<highest, pc, Posted>>
        /\ ring' = [ring EXCEPT ![Slot(highest)] = Zeroed(@, roff)]
        /\ got = highest * BS + roff /\ got = job.size
    BY <1>0, <1>18, <1>v DEF PadBlock, writing, Posted, ReaderPart
  <2>2. Slot(highest) \in Slots /\ ring[Slot(highest)] \in Content
    BY <1>t, SlotType
  <2>3. /\ Zeroed(ring[Slot(highest)], roff) \in Content
        /\ \A j \in 1 .. BS : Zeroed(ring[Slot(highest)], roff)[j]
                                = IF j > roff THEN 0 ELSE ring[Slot(highest)][j]
    BY <1>t, <2>2, ZeroedType
  <2>4. /\ Block(highest) \in Content
        /\ \A j \in 1 .. BS : Block(highest)[j] =
              IF highest * BS + j <= job.size THEN highest * BS + j ELSE 0
    BY <1>t, BlockType
  <2>5. \A j \in 1 .. roff : ring[Slot(highest)][j] = highest * BS + j
    BY <1>0, <2>1 DEF RingPart
  <2>6. \A j \in 1 .. BS : Zeroed(ring[Slot(highest)], roff)[j] = Block(highest)[j]
    BY <1>t, <1>b, <2>1, <2>3, <2>4, <2>5
  <2>7. ring'[Slot(highest)] = Block(highest)
    BY <1>t, <2>1, <2>2, <2>3, <2>4, <2>6, SameContent
  <2>8. \A b \in Posted .. highest - 1 : ring'[Slot(b)] = ring[Slot(b)]
    <3> SUFFICES ASSUME NEW b \in Posted .. highest - 1 PROVE ring'[Slot(b)] = ring[Slot(b)]
      OBVIOUS
    <3>1. Slot(b) \in Slots /\ Slot(b) # Slot(highest)
      BY <1>p, <1>t, <1>u, <2>1, SlotType
    <3> QED
      BY <1>t, <2>1, <3>1
  <2> QED
    BY <1>0, <1>j, <2>1, <2>7, <2>8 DEF RingPart, Slot
<1>19. CASE PublishLast
  <2>1. /\ rpc = "last" /\ rpc' = "exit" /\ pc \notin Before /\ UNCHANGED <<ring, pc, Posted>>
        /\ highest' = highest + 1 /\ ring[Slot(highest)] = Block(highest)
    BY <1>0, <1>19, <1>v DEF PublishLast, writing, Posted, RingPart
  <2>2. \A b \in Posted .. highest' - 1 : b = highest \/ b \in Posted .. highest - 1
    BY <1>t, <1>u, <2>1
  <2> QED
    BY <1>0, <1>j, <2>1, <2>2 DEF RingPart, Slot
<1>20. CASE ReaderExit
  <2>1. rpc' = "gone" /\ pc \notin Before /\ UNCHANGED <<ring, highest, pc, Posted>>
    BY <1>20, <1>v DEF ReaderExit, writing, Posted
  <2> QED
    BY <1>0, <1>j, <2>1 DEF RingPart, Slot
<1> QED
  BY <1>1, <1>2, <1>3, <1>4, <1>5, <1>6, <1>7, <1>8, <1>9, <1>10, <1>11, <1>12, <1>13,
     <1>14, <1>15, <1>16, <1>17, <1>18, <1>19, <1>20
     DEF Next, MainStep, ReaderStep, Main, Reader, Exited

------------------------------------------------------------------------------
(* What is on the medium                                                   *)

LEMMA StepEnd == IndInv /\ [Next]_vars => EndPart'
<1> SUFFICES ASSUME IndInv, [Next]_vars PROVE EndPart'
  OBVIOUS
<1>0. TypeOK /\ MainPart /\ ReaderPart /\ RingPart /\ EndPart
  BY DEF IndInv
<1>t. /\ off \in Nat /\ outoff \in Nat /\ highest \in Nat /\ got \in Nat /\ n \in Int
      /\ NB \in Nat /\ NB > 2 /\ BS \in Nat /\ BS > 0 /\ job \in Jobs /\ job.size \in Nat
      /\ job.next \in Nat /\ got <= job.size /\ medium \in Seq(Content)
      /\ ring \in [Slots -> Content] /\ saved \in {"none", "this"}
  BY <1>0, JobTypes, RingAssumption DEF TypeOK, ReaderPart
<1>j. job' = job /\ Blocks' = Blocks /\ Short' = Short /\ \A b : Block(b)' = Block(b)
  BY DEF Next, MainStep, ReaderStep, Main, Reader, Exited, vars, shared, reading, writing, result,
         ReadHead, HeadRefused, Prefill, StartReader, ClearExit, NoReader, Unmount, SpinExit,
         SpinHighest, MoreData, WriteBlock, Post, Count, Drained, Out, Reap, Copied,
         CheckDescriptors, UpdateDescriptors, Done, SemWait, ReadBlock, Publish, PadBlock,
         PublishLast, ReaderExit, Blocks, Block, Short
<1>n. Blocks \in Nat /\ 2 * BS \in Nat
  BY <1>t, BlocksBounds
<1>m. outoff = 0 /\ pc \notin {"post", "count"} => medium = <<>>
  BY <1>0, <1>t DEF MainPart
<1>i. medium' = medium => InOrder'
  BY <1>0, <1>j DEF InOrder, EndPart
<1>w. medium' = medium => (Whole <=> Whole')
  BY <1>j DEF Whole
<1>e. saved = "this" => ~Short
  BY <1>0 DEF EndPart
<1>x. exit = "running" \/ UNCHANGED vars
  BY DEF Next, MainStep, ReaderStep, Exited
<1> HIDE DEF Blocks, Short
<1> USE DEF After
\* A step of a loop that keeps the medium and how main() ends.
<1>k. ASSUME UNCHANGED <<n, err, saved, medium, relocated, exit>>,
             pc' = pc \/ (pc \notin After /\ pc' \notin After)
      PROVE  EndPart'
  BY <1>0, <1>i, <1>j, <1>k, <1>w
     DEF EndPart, NothingLost, Complete, DescriptorsLast, StartupMeansUntouched
<1>1. CASE UNCHANGED vars
  BY <1>k, <1>1 DEF vars, shared, reading, writing, result
<1>2. CASE ReadHead
  <2>1. pc = "head" /\ outoff = 0 /\ off = got /\ off < 2 * BS /\ err = "none" /\ relocated = "no"
    BY <1>0, <1>2 DEF ReadHead, MainPart, EndPart, Before
  <2>2. medium = <<>> /\ UNCHANGED <<medium, relocated, exit>>
    BY <1>2, <1>m, <2>1 DEF ReadHead, result
  <2>3. CASE /\ off' = got' /\ got' <= job.size /\ got' \in Nat /\ err' = err
             /\ \/ pc' = "head" /\ saved' = saved
                \/ /\ pc' = "prefill" /\ off' = 2 * BS
                   /\ saved' \in {saved, "this"}
    <3>1. off' = 2 * BS => ~Short
      BY <1>t, <2>3 DEF Short
    <3> QED
      BY <1>0, <1>e, <1>i, <1>j, <2>1, <2>2, <2>3, <3>1
         DEF EndPart, NothingLost, DescriptorsLast, StartupMeansUntouched
  <2>4. CASE /\ pc' = "out" /\ UNCHANGED saved /\ got = job.size
             /\ \/ n' = 0 /\ err' = err /\ job.ends = "eof"
                \/ n' \in Int /\ n' < 0 /\ err' = "error"
    <3>1. n' = 0 => Complete'
      BY <1>t, <1>j, <2>1, <2>2, <2>4 DEF Complete, Short
    <3> QED
      BY <1>0, <1>i, <1>j, <2>1, <2>2, <2>4, <3>1
         DEF EndPart, NothingLost, DescriptorsLast, StartupMeansUntouched
  <2> QED
    BY <1>2, <2>3, <2>4, HeadStep
<1>3. CASE HeadRefused
  <2>1. pc = "prefill" /\ medium = <<>> /\ relocated = "no"
    BY <1>0, <1>3, <1>m DEF HeadRefused, MainPart, EndPart, Before
  <2> QED
    BY <1>0, <1>i, <1>j, <1>3, <2>1
       DEF HeadRefused, result, EndPart, NothingLost, DescriptorsLast, StartupMeansUntouched
<1>4. CASE Prefill
  <2>1. pc = "prefill" /\ err = "none" /\ relocated = "no" /\ UNCHANGED <<medium, relocated, exit, saved>>
    BY <1>0, <1>4 DEF Prefill, EndPart, result
  <2>2. \/ pc' \in {"prefill", "thread", "nothread"} /\ err' = err
        \/ pc' = "out" /\ n' < 0 /\ err' = "error"
    BY <1>4, PrefillStep
  <2>3. n' \in Int
    BY <1>4, PrefillStep
  <2> QED
    BY <1>0, <1>i, <1>j, <2>1, <2>2, <2>3
       DEF EndPart, NothingLost, DescriptorsLast, StartupMeansUntouched
<1>5. CASE StartReader
  <2>1. pc = "thread" /\ medium = <<>> /\ err = "none" /\ relocated = "no"
    BY <1>0, <1>5, <1>m DEF StartReader, MainPart, EndPart, Before
  <2> QED
    BY <1>0, <1>i, <1>j, <1>5, <2>1
       DEF StartReader, EndPart, NothingLost, DescriptorsLast, StartupMeansUntouched
<1>6. CASE ClearExit
  BY <1>k, <1>6 DEF ClearExit, reading, result
<1>7. CASE NoReader
  BY <1>k, <1>7 DEF NoReader, reading, result
<1>8. CASE Unmount
  <2>1. pc = "umount" /\ medium = <<>> /\ err = "none" /\ relocated = "no"
    BY <1>0, <1>8, <1>m DEF Unmount, MainPart, EndPart, Waiting
  <2> QED
    BY <1>0, <1>i, <1>j, <1>8, <2>1
       DEF Unmount, EndPart, NothingLost, DescriptorsLast, StartupMeansUntouched
<1>9. CASE SpinExit \/ SpinHighest \/ MoreData
  BY <1>k, <1>9 DEF SpinExit, SpinHighest, MoreData, shared, reading, result
<1>10. CASE WriteBlock
  <2>1. /\ pc = "write" /\ off = outoff /\ off < highest
        /\ Len(medium) = off /\ UNCHANGED <<saved, relocated, exit>>
    BY <1>0, <1>t, <1>10 DEF WriteBlock, MainPart, Copying
  <2>2. err = "none" /\ relocated = "no" /\ exit = "running"
    BY <1>0, <1>x, <1>10 DEF WriteBlock, EndPart, vars, writing
  <2>3. CASE medium' = Append(medium, ring[Slot(off)]) /\ pc' = "post" /\ UNCHANGED <<n, err>>
    <3>1. ring[Slot(off)] = Block(off)
      BY <1>0, <1>t, <2>1 DEF RingPart, Posted, Before
    <3>2. ring[Slot(off)] \in Content
      BY <1>t, SlotType
    <3>3. /\ Len(medium') = off + 1 /\ medium'[off + 1] = Block(off)
          /\ \A b \in 1 .. off : medium'[b] = medium[b]
      BY <1>t, <2>1, <2>3, <3>1, <3>2
    <3>4. InOrder'
      <4> SUFFICES ASSUME NEW b \in 1 .. off + 1 PROVE medium'[b] = Block(b - 1)
        BY <1>j, <3>3 DEF InOrder
      <4>1. CASE b = off + 1
        <5>1. b - 1 = off
          BY <1>t, <4>1
        <5> QED
          BY <3>3, <4>1, <5>1
      <4>2. CASE b \in 1 .. off
        BY <1>0, <2>1, <3>3, <4>2 DEF EndPart, InOrder
      <4> QED
        BY <1>t, <4>1, <4>2
    <3> QED
      BY <1>0, <1>j, <2>1, <2>2, <2>3, <3>4
         DEF EndPart, NothingLost, DescriptorsLast, StartupMeansUntouched
  <2>4. CASE n' = -1 /\ err' = "error" /\ pc' = "out" /\ UNCHANGED medium
    BY <1>0, <1>i, <1>j, <2>1, <2>2, <2>4
       DEF EndPart, NothingLost, DescriptorsLast, StartupMeansUntouched
  <2> QED
    BY <1>10, <2>3, <2>4 DEF WriteBlock
<1>11. CASE Post
  BY <1>k, <1>11 DEF Post, reading, result
<1>12. CASE Count
  BY <1>k, <1>12 DEF Count, reading, result
<1>13. CASE Drained
  <2>1. pc = "drained" /\ pc' = "out" /\ UNCHANGED <<saved, medium, relocated, exit>>
    BY <1>13 DEF Drained, result
  <2>2. err = "none" /\ relocated = "no"
    BY <1>0, <2>1 DEF EndPart
  <2>3. off = outoff /\ off = highest /\ readerExit # 0 /\ Len(medium) = off
    BY <1>0, <1>t, <2>1 DEF MainPart, Copying
  <2>4. CASE readerExit = Finished /\ n' = 0 /\ UNCHANGED err
    <3>1. job.ends = "eof" /\ highest = Blocks
      BY <1>0, <2>1, <2>3, <2>4 DEF ReaderPart, Started, Waiting, Copying, Finished, Failed, TypeOK
    <3>2. Complete'
      BY <1>j, <2>1, <2>3, <3>1 DEF Complete, Whole
    <3> QED
      BY <1>0, <1>i, <1>j, <2>1, <2>2, <2>4, <3>2
         DEF EndPart, NothingLost, DescriptorsLast, StartupMeansUntouched
  <2>5. CASE n' = -1 /\ err' = "error"
    BY <1>0, <1>i, <1>j, <2>1, <2>2, <2>5
       DEF EndPart, NothingLost, DescriptorsLast, StartupMeansUntouched
  <2> QED
    BY <1>13, <2>4, <2>5 DEF Drained
<1>14. CASE Out
  <2>1. /\ pc = "out" /\ relocated = "no" /\ UNCHANGED <<saved, medium, relocated, exit>>
        /\ pc' = (IF job.pipe THEN "reap" ELSE "copied") /\ n <= 0 /\ (n < 0 => err # "none")
    BY <1>0, <1>14 DEF Out, EndPart, result
  <2>2. CASE Nothing /\ n' = -1 /\ err' = "startup"
    <3>1. medium = <<>>
      BY <1>t, <1>m, <2>1, <2>2 DEF Nothing
    <3> QED
      BY <1>0, <1>i, <1>j, <2>1, <2>2, <3>1
         DEF EndPart, NothingLost, DescriptorsLast, StartupMeansUntouched
  <2>3. CASE UNCHANGED <<n, err>>
    BY <1>0, <1>i, <1>j, <1>w, <2>1, <2>3
       DEF EndPart, NothingLost, Complete, DescriptorsLast, StartupMeansUntouched
  <2> QED
    BY <1>14, <2>2, <2>3 DEF Out
<1>15. CASE Reap \/ Copied
  <2>1. /\ pc \in {"reap", "copied"} /\ UNCHANGED <<n, err, saved, medium, relocated>>
        /\ relocated = "no" /\ n <= 0 /\ (n < 0 => err # "none")
        /\ n < 0 => pc' = pc /\ exit' = err
        /\ n = 0 => \/ pc' = pc /\ exit' \in {"ok", "mkisofs"}
                    \/ pc' = "check" /\ exit' = exit /\ (job.pipe => job.status)
    <3>1. pc = "copied" => ~job.pipe
      BY <1>0 DEF EndPart
    <3> QED
      BY <1>0, <1>t, <1>15, <3>1 DEF Reap, Copied, Ends, GoesTo, EndPart
  <2> QED
    BY <1>0, <1>t, <1>i, <1>j, <1>w, <2>1
       DEF EndPart, NothingLost, Complete, DescriptorsLast, StartupMeansUntouched
<1>16. CASE CheckDescriptors
  <2>1. /\ pc = "check" /\ UNCHANGED <<n, err, saved, medium, relocated>> /\ relocated = "no"
        /\ \/ pc' = pc /\ exit' \in {"ok", "error"}
           \/ pc' = "update" /\ exit' = exit /\ saved = "this"
    BY <1>0, <1>t, <1>16 DEF CheckDescriptors, Ends, GoesTo, EndPart
  <2> QED
    BY <1>0, <1>i, <1>j, <1>w, <2>1
       DEF EndPart, NothingLost, Complete, DescriptorsLast, StartupMeansUntouched
<1>17. CASE UpdateDescriptors
  <2>1. /\ pc = "update" /\ UNCHANGED <<n, err, saved, medium>> /\ relocated = "no"
        /\ saved = "this" /\ n = 0 /\ (job.pipe => job.status)
        /\ \/ pc' = "done" /\ exit' = exit /\ relocated' = "this"
           \/ pc' = pc /\ exit' = "error" /\ relocated' = relocated
    BY <1>0, <1>17 DEF UpdateDescriptors, Ends, GoesTo, EndPart
  <2>2. Complete /\ ~Short
    BY <1>0, <2>1 DEF EndPart, NothingLost
  <2>3. Whole
    BY <2>2 DEF Complete
  <2> QED
    BY <1>0, <1>i, <1>j, <1>w, <2>1, <2>2, <2>3
       DEF EndPart, NothingLost, Complete, DescriptorsLast, StartupMeansUntouched
<1>18. CASE Done
  BY <1>0, <1>i, <1>j, <1>w, <1>18
     DEF Done, Ends, EndPart, NothingLost, Complete, DescriptorsLast, StartupMeansUntouched
<1>19. CASE SemWait \/ ReadBlock \/ Publish \/ PadBlock \/ PublishLast \/ ReaderExit
  BY <1>k, <1>19
     DEF SemWait, ReadBlock, Publish, PadBlock, PublishLast, ReaderExit, writing, result
<1> QED
  BY <1>1, <1>2, <1>3, <1>4, <1>5, <1>6, <1>7, <1>8, <1>9, <1>10, <1>11, <1>12, <1>13,
     <1>14, <1>15, <1>16, <1>17, <1>18, <1>19
     DEF Next, MainStep, ReaderStep, Main, Reader, Exited

------------------------------------------------------------------------------
(* The invariant, and what follows from it                                 *)

LEMMA InitInv == Init => IndInv
<1> SUFFICES ASSUME Init PROVE IndInv
  OBVIOUS
<1>1. TypeOK
  BY InitType
<1>2. /\ sem = 0 /\ highest = 0 /\ readerExit = 0 /\ got = 0 /\ rpc = "none" /\ pc = "head"
      /\ off = 0 /\ outoff = 0 /\ err = "none" /\ saved = "none" /\ medium = <<>>
      /\ relocated = "no" /\ exit = "running" /\ job \in Jobs
  BY DEF Init, SavedAtStart
<1>3. Blocks \in Nat /\ job.size \in Nat /\ 2 * BS \in Nat /\ 0 < 2 * BS /\ NB * BS \in Nat
  BY <1>2, BlocksBounds, JobTypes, RingAssumption
<1> HIDE DEF Blocks
<1>4. MainPart
  BY <1>2, <1>3, RingAssumption DEF MainPart, Before, Waiting, Copying, Started
<1>5. ReaderPart
  BY <1>2, <1>3 DEF ReaderPart, Before, Waiting, Copying, Started
<1>6. AsRead
  <2> SUFFICES ASSUME NEW s \in Slots, NEW j \in 1 .. BS
               PROVE  ring[s][j] = 0 /\ ~(s * BS + j <= got)
    BY DEF AsRead
  <2>1. s * BS \in Nat
    BY TimesNext DEF Slots
  <2> QED
    BY <1>2, <2>1 DEF Init
<1>7. RingPart
  BY <1>2, <1>6 DEF RingPart, Before
<1>8. InOrder
  BY <1>2 DEF InOrder
<1>9. EndPart
  BY <1>2, <1>8 DEF EndPart, After, NothingLost, DescriptorsLast, StartupMeansUntouched
<1> QED
  BY <1>1, <1>4, <1>5, <1>7, <1>9 DEF IndInv

\* The invariant that says where the two threads are, what the semaphore
\* counts, and what the ring and the medium hold: builtin_dd() and reader()
\* keep it with any ring, any size of a block and any session.
THEOREM Invariance == Spec => []IndInv
<1>1. IndInv /\ [Next]_vars => IndInv'
  BY StepType, StepMain, StepReader, StepRing, StepEnd DEF IndInv
<1> QED
  BY InitInv, <1>1, PTL DEF Spec

\* Every variable of growisofs keeps its type.
THEOREM TypeCorrect == Spec => []TypeOK
<1>1. IndInv => TypeOK
  BY DEF IndInv
<1> QED
  BY Invariance, <1>1, PTL

\* main() never hands the unit a block that reader() is reading into.
THEOREM NoBlockIsTorn == Spec => []NoTornBlock
<1>1. IndInv => NoTornBlock
  <2> SUFFICES ASSUME IndInv, pc = "write", rpc \in {"read", "pad"}
               PROVE  Slot(highest) # Slot(off)
    BY DEF NoTornBlock
  <2>1. /\ off \in Nat /\ highest \in Nat /\ sem \in Nat /\ off = outoff /\ off < highest
        /\ highest + sem + 1 = NB + outoff /\ NB \in Nat
    BY RingAssumption DEF IndInv, TypeOK, MainPart, ReaderPart, Copying, Posted
  <2> QED
    BY <2>1, SlotInjective
<1> QED
  BY Invariance, <1>1, PTL

\* The blocks reach the medium in order, whole and unmixed.
THEOREM BlocksInOrder == Spec => []InOrder
<1>1. IndInv => InOrder
  BY DEF IndInv, EndPart
<1> QED
  BY Invariance, <1>1, PTL

\* builtin_dd() ends without an error only when it has written all of the
\* input, although it reads reader_exit and highest_ecc_block without a lock.
THEOREM NoBlockIsLost == Spec => []NothingLost
<1>1. IndInv => NothingLost
  BY DEF IndInv, EndPart
<1> QED
  BY Invariance, <1>1, PTL

\* The descriptors of the volume are replaced last, and by those of this
\* session.
THEOREM DescriptorsComeLast == Spec => []DescriptorsLast
<1>1. IndInv => DescriptorsLast
  BY DEF IndInv, EndPart
<1> QED
  BY Invariance, <1>1, PTL

\* A fatal error at startup leaves the medium untouched.
THEOREM StartupIsHarmless == Spec => []StartupMeansUntouched
<1>1. IndInv => StartupMeansUntouched
  BY DEF IndInv, EndPart
<1> QED
  BY Invariance, <1>1, PTL

------------------------------------------------------------------------------
(* growisofs does what ImageCopy promises                                  *)

LEMMA SameImage ==
    ASSUME job' = job
    PROVE  [b \in 1 .. Blocks |-> Block(b - 1)]' = [b \in 1 .. Blocks |-> Block(b - 1)]
           /\ Short' = Short
BY DEF Blocks, Block, Short

\* Every step of the two threads is one of the copy, or changes nothing that
\* the copy shows.
LEMMA StepCopy == IndInv /\ [Next]_vars => [Copy!Next]_(Copy!vars)
<1> SUFFICES ASSUME IndInv, [Next]_vars PROVE [Copy!Next]_(Copy!vars)
  OBVIOUS
<1>0. TypeOK /\ MainPart /\ ReaderPart /\ RingPart /\ EndPart
  BY DEF IndInv
<1>t. /\ off \in Nat /\ outoff \in Nat /\ highest \in Nat /\ medium \in Seq(Content)
      /\ job \in Jobs /\ ring \in [Slots -> Content] /\ saved \in {"none", "this"}
      /\ exit \in {"running", "ok", "startup", "error", "mkisofs"}
  BY <1>0 DEF TypeOK
<1>n. Blocks \in Nat
  BY <1>t, BlocksBounds
<1>j. job' = job
  BY DEF Next, MainStep, ReaderStep, Main, Reader, Exited, vars, shared, reading, writing, result,
         ReadHead, HeadRefused, Prefill, StartReader, ClearExit, NoReader, Unmount, SpinExit,
         SpinHighest, MoreData, WriteBlock, Post, Count, Drained, Out, Reap, Copied,
         CheckDescriptors, UpdateDescriptors, Done, SemWait, ReadBlock, Publish, PadBlock,
         PublishLast, ReaderExit
<1>i. [b \in 1 .. Blocks |-> Block(b - 1)]' = [b \in 1 .. Blocks |-> Block(b - 1)] /\ Short' = Short
  BY <1>j, SameImage
<1>x. exit = "running" \/ UNCHANGED vars
  BY DEF Next, MainStep, ReaderStep, Exited
<1>w. Len(medium) = Blocks <=> Copy!Whole
  BY <1>n DEF Copy!Whole
\* What a step can do: nothing that shows, fail, succeed, write or relocate.
<1>1. ASSUME UNCHANGED <<medium, relocated, exit>> PROVE UNCHANGED Copy!vars
  BY <1>1, <1>i DEF Copy!vars
<1>2. ASSUME exit = "running", exit' \in {"startup", "error", "mkisofs"},
             UNCHANGED <<medium, relocated>>
      PROVE  Copy!Next
  BY <1>2, <1>i DEF Copy!Next, Copy!Fail
<1>3. ASSUME exit = "running", exit' = "ok", UNCHANGED <<medium, relocated>>, Complete
      PROVE  Copy!Next
  BY <1>3, <1>i, <1>w DEF Copy!Next, Copy!Succeed, Complete, Whole
<1>4. CASE UNCHANGED vars
  BY <1>1, <1>4 DEF vars, result
<1>5. CASE StartReader \/ Unmount
  <2>1. UNCHANGED <<medium, relocated>> /\ exit' \in {exit, "startup"}
    BY <1>5 DEF StartReader, Unmount
  <2> QED
    BY <1>1, <1>2, <1>x, <2>1 DEF vars, result
<1>6. CASE WriteBlock
  <2>1. pc = "write" /\ relocated = "no" /\ UNCHANGED <<relocated, exit>>
    BY <1>0, <1>6 DEF WriteBlock, EndPart
  <2>2. off < highest /\ highest <= Blocks /\ Len(medium) = off
    BY <1>0, <1>t, <2>1 DEF MainPart, ReaderPart, Copying
  <2>3. CASE UNCHANGED medium
    BY <1>1, <2>1, <2>3
  <2>4. CASE medium' = Append(medium, ring[Slot(off)]) /\ pc' = "post"
    <3>1. exit = "running"
      BY <1>x, <2>1, <2>4 DEF vars, writing
    <3>2. ring[Slot(off)] = Block(off)
      BY <1>0, <1>t, <2>1, <2>2 DEF RingPart, Posted, Before, MainPart, Copying
    <3>3. Len(medium) + 1 \in 1 .. Blocks /\ (Len(medium) + 1) - 1 = off
      BY <1>t, <1>n, <2>2
    <3>4. [b \in 1 .. Blocks |-> Block(b - 1)][Len(medium) + 1] = Block(off)
      BY <3>3
    <3>5. ~Copy!Whole
      BY <1>t, <1>n, <1>w, <2>2
    <3>6. Copy!WriteBlock
      BY <2>1, <2>4, <3>1, <3>2, <3>4, <3>5 DEF Copy!WriteBlock
    <3> QED
      BY <1>i, <3>6 DEF Copy!Next
  <2> QED
    BY <1>6, <2>3, <2>4 DEF WriteBlock
<1>7. CASE UpdateDescriptors
  <2>1. /\ pc = "update" /\ n = 0 /\ saved = "this" /\ UNCHANGED medium
        /\ \/ relocated' = "this" /\ exit' = exit /\ pc' = "done"
           \/ relocated' = relocated /\ exit' = "error"
    BY <1>0, <1>7 DEF UpdateDescriptors, Ends, GoesTo, EndPart
  <2>2. Len(medium) = Blocks
    BY <1>0, <2>1 DEF EndPart, NothingLost, Complete, After, Whole
  <2>3. CASE relocated' = "this" /\ exit' = exit /\ pc' = "done"
    <3>1. exit = "running"
      BY <1>x, <2>1, <2>3 DEF vars, writing
    <3>2. Copy!Relocate
      BY <1>w, <2>1, <2>2, <2>3, <3>1 DEF Copy!Relocate
    <3> QED
      BY <1>i, <3>2 DEF Copy!Next
  <2>4. CASE relocated' = relocated /\ exit' = "error"
    BY <1>1, <1>2, <1>x, <2>1, <2>4 DEF vars, result
  <2> QED
    BY <2>1, <2>3, <2>4
<1>8. CASE Reap \/ Copied \/ CheckDescriptors \/ Done
  <2>1. /\ pc \in {"reap", "copied", "check", "done"} /\ UNCHANGED <<n, medium, relocated>>
        /\ \/ UNCHANGED exit
           \/ exit' \in {"startup", "error", "mkisofs"}
           \/ exit' = "ok" /\ n = 0
    <3>1. n \in Int /\ (pc \in After => n <= 0 /\ (n < 0 => err \in {"startup", "error"}))
      BY <1>0 DEF EndPart, TypeOK
    <3>2. pc \in {"check", "done"} => n = 0
      BY <1>0 DEF EndPart
    <3> QED
      BY <1>8, <3>1, <3>2 DEF Reap, Copied, CheckDescriptors, Done, Ends, GoesTo, After
  <2>2. n = 0 => Complete
    BY <1>0, <2>1 DEF EndPart, NothingLost, After
  <2> QED
    BY <1>1, <1>2, <1>3, <1>x, <2>1, <2>2 DEF vars, result
<1>9. CASE \/ ReadHead \/ HeadRefused \/ Prefill \/ ClearExit \/ NoReader \/ SpinExit
           \/ SpinHighest \/ MoreData \/ Post \/ Count \/ Drained \/ Out \/ Reader
  <2>1. UNCHANGED <<medium, relocated, exit>>
    BY <1>9 DEF ReadHead, HeadRefused, Prefill, ClearExit, NoReader, SpinExit, SpinHighest,
         MoreData, Post, Count, Drained, Out, Reader, SemWait, ReadBlock, Publish, PadBlock,
         PublishLast, ReaderExit, result
  <2> QED
    BY <1>1, <2>1
<1> QED
  BY <1>4, <1>5, <1>6, <1>7, <1>8, <1>9 DEF Next, MainStep, ReaderStep, Main, Exited

\* growisofs implements the copy: with two threads and a ring, what the medium
\* holds and how the program ends is what the sequential copy allows.
THEOREM ImplementsCopy == Spec => CopiesImage
<1>1. Init => Copy!Init
  BY DEF Init, Copy!Init
<1> QED
  BY <1>1, Invariance, StepCopy, PTL DEF Spec, CopiesImage, Copy!Spec
==============================================================================
