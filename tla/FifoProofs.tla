----------------------------- MODULE FifoProofs -----------------------------
(***************************************************************************)
(* Proofs about the ring of cdrecord, for every number of slots, every set *)
(* of track lists and every bound of the model.                            *)
(***************************************************************************)
EXTENDS Fifo, SequenceTheorems, TLAPS

\* Track lists are non-empty and every entry is a track.
LEMMA TrackTypes ==
    ASSUME NEW ts \in TrackLists
    PROVE  /\ Len(ts) \in Nat /\ Len(ts) >= 1
           /\ \A t \in 1 .. Len(ts) :
                /\ ts[t].fd \in Int /\ ts[t].size \in Int
                /\ ts[t].sec \in Nat \ {0} /\ ts[t].spt \in Nat \ {0}
                /\ Chunk(ts[t]) \in Int
<1> DEFINE Track == [fd : Int, size : Int, sec : Nat \ {0}, spt : Nat \ {0}]
<1>1. ts \in Seq(Track) /\ ts # <<>>
  BY TrackAssumption
<1>2. Len(ts) \in Nat /\ Len(ts) >= 1
  <2> HIDE DEF Track
  <2> QED
    BY <1>1
<1>3. \A t \in 1 .. Len(ts) : ts[t] \in Track
  <2> HIDE DEF Track
  <2> QED
    BY <1>1
<1>4. ASSUME NEW x \in Track
      PROVE  /\ x.fd \in Int /\ x.size \in Int
             /\ x.sec \in Nat \ {0} /\ x.spt \in Nat \ {0}
             /\ Chunk(x) \in Int
  BY <1>4 DEF Chunk
<1> QED
  BY <1>2, <1>3, <1>4

LEMMA ChunkNat ==
    ASSUME NEW ts \in TrackLists, NEW t \in 1 .. Len(ts)
    PROVE  Chunk(ts[t]) \in Nat
<1>1. ts[t].sec \in Nat /\ ts[t].spt \in Nat
  BY TrackTypes
<1>2. \A x, y \in Nat : x * y \in Nat
  OBVIOUS
<1> QED
  BY <1>1, <1>2 DEF Chunk

\* A quotient of natural numbers is one.
LEMMA QuotientNat ==
    ASSUME NEW n \in Nat, NEW d \in Nat \ {0}
    PROVE  (100 * n) \div d \in Nat
<1> DEFINE x == 100 * n
<1>1. x \in Nat
  OBVIOUS
<1> HIDE DEF x
<1>2. x \div d \in Nat
  BY <1>1
<1> QED
  BY <1>2 DEF x

\* Rounding up to whole sectors gives an integer.
LEMMA RoundUpType ==
    ASSUME NEW n \in Int, NEW k \in Nat \ {0}
    PROVE  RoundUp(n, k) \in Int
BY DEF RoundUp

LEMMA RoundUpNat ==
    ASSUME NEW n \in Nat, NEW k \in Nat \ {0}
    PROVE  RoundUp(n, k) \in Nat
<1> DEFINE q == (n + k - 1) \div k
<1>1. q \in Nat
  OBVIOUS
<1>2. q * k \in Nat
  <2> HIDE DEF q
  <2> QED
    BY <1>1
<1> QED
  BY <1>2 DEF RoundUp

\* The ring indices stay inside the ring.
LEMMA NextSlotType ==
    ASSUME NEW i \in Slots
    PROVE  NextSlot(i) \in Slots
BY NBufAssumption DEF Slots, NextSlot

LEMMA InitType == Init => TypeOK
<1> SUFFICES ASSUME Init PROVE TypeOK
  OBVIOUS
<1>1. 0 \in Slots
  BY NBufAssumption DEF Slots
<1>2. 1 \in 1 .. Len(tracks) /\ 0 \in 0 .. Len(tracks)
  BY TrackTypes DEF Init
<1> QED
  BY <1>1, <1>2 DEF Init, TypeOK, Nothing, FillerActive, BurnerPC

\* Every step keeps the types.
LEMMA StepType == TypeOK /\ OnTrack /\ [Next]_vars => TypeOK'
<1> SUFFICES ASSUME TypeOK, OnTrack, [Next]_vars PROVE TypeOK'
  OBVIOUS
<1> DEFINE T == tracks[fTrack]
<1>0. /\ Len(tracks) \in Nat /\ fTrack \in 1 .. Len(tracks)
      /\ T.fd \in Int /\ T.size \in Int /\ Chunk(T) \in Int
      /\ bTrack \in 0 .. Len(tracks) /\ bPos \in Nat
      /\ fTrack \in Nat /\ fPos \in Nat /\ len[bi] \in Int /\ len[fi] \in Int
      /\ puts \in Nat
  BY TrackTypes DEF TypeOK
<1>1. CASE Claim
  <2>1. data' \in [Slots -> [track : Nat, pos : Nat]]
    BY <1>1 DEF TypeOK, Claim, Nothing
  <2>2. fd' \in [Slots -> Int]
    BY <1>0, <1>1 DEF TypeOK, Claim
  <2> QED
    BY <1>1, <2>1, <2>2
       DEF TypeOK, Claim, stats, burner, session, FillerActive
<1>2. CASE Fill
  <2>1. PICK n \in FillResults(T) : len' = [len EXCEPT ![fi] = n]
    BY <1>2 DEF Fill
  <2>2. n \in Int
    BY <2>1 DEF FillResults, ReadError
  <2>3. fEof' \in BOOLEAN
    BY <1>2 DEF TypeOK, Fill
  <2>4. At(fTrack, fPos) \in [track : Nat, pos : Nat]
    BY <1>0 DEF At
  <2>5. data' \in [Slots -> [track : Nat, pos : Nat]]
    BY <1>2, <2>4 DEF TypeOK, Fill
  <2> QED
    BY <1>2, <2>1, <2>2, <2>3, <2>5 DEF TypeOK, Fill, stats, burner, session, FillerActive
<1>3. CASE Publish
  BY <1>3 DEF TypeOK, Publish, stats, burner, session, FillerActive
<1>4. CASE SetUsers
  BY <1>4 DEF TypeOK, SetUsers, Readers, stats, burner, session, FillerActive
<1>5. CASE CountPut
  <2>1. fi' \in Slots
    BY <1>5, NextSlotType DEF TypeOK, CountPut
  <2>3. puts' \in Nat
    BY <1>0, <1>5 DEF CountPut
  <2>4. fPos' \in Nat
    BY <1>0, <1>5 DEF CountPut, TrackGoesOn
  <2>5. fEof' \in BOOLEAN
    BY <1>5 DEF TypeOK, CountPut
  <2>6. fTrack' \in 1 .. Len(tracks)
    BY <1>0, <1>5 DEF CountPut, MoreTracks
  <2>7. fpc' \in FillerActive
    BY <1>5 DEF CountPut, FillerActive
  <2>8. UNCHANGED <<slots, gets, done, burner, session>>
    BY <1>5 DEF CountPut
  <2> QED
    BY <2>1, <2>3, <2>4, <2>5, <2>6, <2>7, <2>8 DEF TypeOK, slots, burner, session
<1>6. CASE AllRead
  BY <1>6, SMTT(20) DEF TypeOK, AllRead, slots, burner, session, FillerActive
<1>7. CASE TestGets
  BY <1>7 DEF TypeOK, TestGets, slots, stats, burner, session, FillerActive, FillerStopped
<1>8. CASE ForceLast
  BY <1>8 DEF TypeOK, ForceLast, stats, burner, session, FillerStopped
<1>9. CASE FillerTimeout
  BY <1>9 DEF TypeOK, FillerTimeout, slots, stats, burner, FillerStopped
<1>10. CASE FillerDies
  BY <1>10 DEF TypeOK, FillerDies, Killed, slots, stats, burner, session, FillerStopped
<1>11. CASE Start
  BY <1>11, OptionAssumption DEF TypeOK, Start, BlankFirst, slots, stats, filler, BurnerPC
<1>12. CASE Await
  BY <1>12 DEF TypeOK, Await, Killed, slots, stats, session, FillerStopped, BurnerPC
<1>13. CASE Blank
  BY <1>13, OptionAssumption DEF TypeOK, Blank, slots, stats, filler, BurnerPC
<1>14. CASE OpenTrack
  <2>1. CASE bpc' = "finish" /\ UNCHANGED <<bTrack, bPos, bChunk>>
    BY <1>14, <2>1, SMTT(20) DEF TypeOK, OpenTrack, slots, stats, filler, session, BurnerPC
  <2>2. CASE /\ bTrack < Len(tracks)
             /\ bTrack' = bTrack + 1
             /\ bPos' = 0
             /\ bChunk' = Chunk(tracks[bTrack + 1])
             /\ bpc' = "release"
    <3>1. bTrack + 1 \in 1 .. Len(tracks)
      BY <1>0, <2>2
    <3>2. Chunk(tracks[bTrack + 1]) \in Int
      BY <3>1, TrackTypes DEF TypeOK
    <3> QED
      BY <1>14, <2>2, <3>1, <3>2, SMTT(20) DEF TypeOK, OpenTrack, slots, stats, filler, session, BurnerPC
  <2> QED
    BY <1>14, <2>1, <2>2 DEF OpenTrack
<1>15. CASE Release
  <2>1. owner' \in [Slots -> {"writer", "faio", "reader"}] /\ bi' \in Slots
    BY <1>15, NextSlotType DEF TypeOK, Release
  <2>2. bpc' \in BurnerPC
    BY <1>15 DEF Release, BurnerPC
  <2>3. UNCHANGED <<users, fd, len, data, stats, filler, bTrack, bPos, bChunk, bUsers, session>>
    BY <1>15 DEF Release
  <2> QED
    BY <2>1, <2>2, <2>3 DEF TypeOK, stats, filler, session
<1>16. CASE GetReady
  BY <1>16 DEF TypeOK, GetReady, slots, stats, filler, session, BurnerPC
<1>17. CASE BurnerTimeout
  BY <1>17, SMTT(20) DEF TypeOK, BurnerTimeout, slots, stats, filler, session, BurnerPC
<1>18. CASE Check
  <2>a. gets \in Nat
    BY DEF TypeOK
  <2>1. gets' \in Nat
    BY <1>18, <2>a DEF Check
  <2>2. bpc' \in BurnerPC
    BY <1>18 DEF Check, BurnerPC
  <2>3. UNCHANGED <<slots, puts, done, filler, bi, bTrack, bPos, bChunk, bUsers, session>>
    BY <1>18 DEF Check
  <2> QED
    BY <2>1, <2>2, <2>3 DEF TypeOK, slots, filler, session
<1>19. CASE LoadUsers
  BY <1>19, SMTT(20) DEF TypeOK, LoadUsers, slots, stats, filler, session, BurnerPC
<1>20. CASE StoreUsers
  BY <1>20 DEF TypeOK, StoreUsers, stats, filler, session, BurnerPC
<1>21. CASE Hand
  BY <1>21 DEF TypeOK, Hand, stats, filler, session, BurnerPC
<1>22. CASE Write
  <2> DEFINE B == tracks[bTrack]
             pos == bPos + len[bi]
             count == IF B.size >= 0 /\ pos >= B.size
                      THEN len[bi] - (pos - B.size) ELSE len[bi]
  <2>1. bTrack \in 1 .. Len(tracks)
    BY <1>0, <1>22 DEF Write, OnTrack
  <2>2. B.size \in Int /\ B.sec \in Nat \ {0}
    BY <2>1, TrackTypes DEF TypeOK
  <2>4. pos \in Int /\ count \in Int
    BY <1>0, <2>2
  <2>5. RoundUp(count, B.sec) \in Int
    BY <2>2, <2>4, RoundUpType
  <2>6. /\ bPos' = bPos \/ bPos' = pos
        /\ bChunk' = bChunk \/ bChunk' = RoundUp(count, B.sec)
    BY <1>22 DEF Write
  <2>a. bPos' = bPos \/ bPos' \in Nat
    BY <1>0, <1>22 DEF Write
  <2>7. bPos' \in Nat /\ bChunk' \in Int
    BY <1>0, <2>4, <2>5, <2>6, <2>a DEF TypeOK
  <2>8. bpc' \in BurnerPC /\ modified' \in BOOLEAN
    BY <1>22 DEF TypeOK, Write, BurnerPC
  <2>9. UNCHANGED <<slots, stats, filler, bi, bTrack, bUsers, tracks, flags, cleaned>>
    BY <1>22 DEF Write
  <2> QED
    BY <2>7, <2>8, <2>9 DEF TypeOK, slots, stats, filler
<1>23. CASE Continue
  BY <1>23 DEF TypeOK, Continue, slots, stats, filler, session, BurnerPC
<1>24. CASE Pad
  BY <1>24 DEF TypeOK, Pad, slots, stats, filler, session, BurnerPC
<1>25. CASE Exit
  BY <1>25 DEF TypeOK, Exit, Killed, slots, stats, FillerStopped, BurnerPC
<1>26. CASE Interrupt
  BY <1>26 DEF TypeOK, Interrupt, Killed, slots, stats, session, FillerStopped, BurnerPC
<1>27. CASE UNCHANGED vars
  BY <1>27 DEF TypeOK, vars, slots, stats, filler, burner, session
<1> QED
  BY <1>1, <1>2, <1>3, <1>4, <1>5, <1>6, <1>7, <1>8, <1>9, <1>10, <1>11, <1>12,
     <1>13, <1>14, <1>15, <1>16, <1>17, <1>18, <1>19, <1>20, <1>21, <1>22, <1>23,
     <1>24, <1>25, <1>26, <1>27
     DEF Next, FillerStep, BurnerStep, Gone

\* The burner has a track whenever it works on one.
LEMMA StepOnTrack == TypeOK /\ OnTrack /\ [Next]_vars => OnTrack'
<1> SUFFICES ASSUME TypeOK, OnTrack, [Next]_vars PROVE OnTrack'
  OBVIOUS
<1> USE DEF OnTrack
<1>1. CASE OpenTrack
  BY <1>1, TrackTypes DEF OpenTrack, TypeOK
<1>2. CASE UNCHANGED <<bpc, bTrack>>
  BY <1>2
<1>3. CASE Start \/ Await \/ Blank \/ Exit \/ Interrupt \/ BurnerTimeout \/ Pad
  BY <1>3 DEF Start, Await, Blank, Exit, Interrupt, BurnerTimeout, Pad
<1>4. CASE Release \/ GetReady \/ Check \/ LoadUsers \/ StoreUsers \/ Hand
  BY <1>4 DEF Release, GetReady, Check, LoadUsers, StoreUsers, Hand
<1>5. CASE Write \/ Continue
  BY <1>5 DEF Write, Continue
<1>6. CASE FillerStep \/ FillerTimeout \/ FillerDies \/ UNCHANGED vars
  BY <1>2, <1>6 DEF FillerStep, Claim, Fill, Publish, SetUsers, CountPut, AllRead,
     TestGets, ForceLast, FillerTimeout, FillerDies, vars, burner
<1> QED
  BY <1>1, <1>3, <1>4, <1>5, <1>6 DEF Next, BurnerStep, Gone

------------------------------------------------------------------------------
(* Ownership                                                               *)

\* Each slot header belongs to the process whose program counter says so.
LEMMA StepOwnership == TypeOK /\ Ownership /\ UserCounts /\ [Next]_vars => Ownership'
<1> SUFFICES ASSUME TypeOK, Ownership, UserCounts, [Next]_vars PROVE Ownership'
  OBVIOUS
<1>0. /\ owner \in [Slots -> {"writer", "faio", "reader"}]
      /\ fi \in Slots /\ bi \in Slots
  BY DEF TypeOK
<1> USE DEF Ownership
<1>1. CASE UNCHANGED <<owner, bi>> /\ UNCHANGED <<fi, fpc>> /\ bpc' = bpc
  BY <1>1
<1>2. CASE Claim
  BY <1>2 DEF Claim, Free, stats, burner, session
<1>3. CASE Fill
  BY <1>3 DEF Fill, stats, burner, session
<1>4. CASE Publish
  BY <1>0, <1>4 DEF Publish, stats, burner, session
<1>5. CASE SetUsers
  BY <1>5 DEF SetUsers, stats, burner, session
<1>6. CASE CountPut
  BY <1>6 DEF CountPut, slots, burner, session
<1>7. CASE AllRead \/ TestGets
  BY <1>7 DEF AllRead, TestGets, slots, stats, burner, session
<1>8. CASE ForceLast
  <2>1. \A i \in Slots : owner'[i] = owner[i] \/ owner'[i] = "reader"
    BY <1>0, <1>8 DEF ForceLast
  <2> QED
    BY <1>0, <1>8, <2>1 DEF ForceLast, stats, burner, session
<1>9. CASE FillerTimeout \/ FillerDies
  BY <1>9 DEF FillerTimeout, FillerDies, Killed, slots, stats, burner, FillerActive
<1>10. CASE Start
  BY <1>10 DEF Start, slots, stats, filler
<1>11. CASE Await
  BY <1>11 DEF Await, Killed, slots, stats, session, FillerActive
<1>12. CASE Blank
  BY <1>12 DEF Blank, slots, stats, filler
<1>13. CASE OpenTrack
  BY <1>13 DEF OpenTrack, slots, stats, filler, session
<1>14. CASE Release
  <2>1. CASE owner[bi] = "faio"
    <3>1. \A i \in Slots : owner'[i] = IF i = bi THEN "writer" ELSE owner[i]
      BY <1>0, <1>14, <2>1 DEF Release
    <3>2. \A i \in Slots : owner'[i] # "faio"
      BY <3>1
    <3>3. fpc' = fpc /\ fi' = fi /\ bpc' = "getwait"
      BY <1>14 DEF Release, filler
    <3> QED
      BY <1>0, <3>1, <3>2, <3>3
  <2>2. CASE owner[bi] # "faio"
    BY <1>14, <2>2 DEF Release, stats, filler, session
  <2> QED
    BY <2>1, <2>2
<1>15. CASE GetReady
  BY <1>15 DEF GetReady, slots, stats, filler, session
<1>16. CASE BurnerTimeout
  BY <1>16 DEF BurnerTimeout, slots, stats, filler, session
<1>17. CASE Check
  BY <1>17 DEF Check, slots, filler, session
<1>18. CASE LoadUsers \/ StoreUsers
  BY <1>18 DEF LoadUsers, StoreUsers, slots, stats, filler, session
<1>19. CASE Hand
  <2>1. \A i \in Slots : owner'[i] = IF i = bi THEN "faio" ELSE owner[i]
    BY <1>0, <1>19 DEF Hand, UserCounts, NoUsers
  <2>2. fpc' = fpc /\ fi' = fi /\ bi' = bi /\ bpc' = "write"
    BY <1>19 DEF Hand, filler
  <2>3. owner[bi] = "reader"
    BY <1>19 DEF Hand
  <2> QED
    BY <1>0, <2>1, <2>2, <2>3
<1>20. CASE Write \/ Continue \/ Pad
  BY <1>20 DEF Write, Continue, Pad, slots, stats, filler, session
<1>21. CASE Exit
  BY <1>21 DEF Exit, Killed, slots, stats, FillerActive
<1>22. CASE Interrupt
  BY <1>22 DEF Interrupt, Killed, slots, stats, session, FillerActive
<1>23. CASE UNCHANGED vars
  BY <1>1, <1>23 DEF vars, slots, filler, burner
<1> QED
  BY <1>2, <1>3, <1>4, <1>5, <1>6, <1>7, <1>8, <1>9, <1>10, <1>11, <1>12,
     <1>13, <1>14, <1>15, <1>16, <1>17, <1>18, <1>19, <1>20, <1>21, <1>22, <1>23
     DEF Next, FillerStep, BurnerStep, Gone

\* The count of a slot never exceeds the one reader, whichever of the filler's
\* and the burner's stores comes last.
LEMMA StepUsers == TypeOK /\ UserCounts /\ [Next]_vars => UserCounts'
<1> SUFFICES ASSUME TypeOK, UserCounts, [Next]_vars PROVE UserCounts'
  OBVIOUS
<1>0. /\ users \in [Slots -> Int] /\ fi \in Slots /\ bi \in Slots /\ bUsers \in Int
  BY DEF TypeOK
<1> USE DEF UserCounts
<1>1. CASE SetUsers
  BY <1>0, <1>1 DEF SetUsers, Readers, burner
<1>2. CASE LoadUsers
  BY <1>0, <1>2 DEF LoadUsers, slots
<1>3. CASE StoreUsers
  BY <1>0, <1>3 DEF StoreUsers
<1>4. CASE Hand
  BY <1>4 DEF Hand
<1>5. CASE UNCHANGED users /\ bpc' \notin {"store", "hand"}
  BY <1>5
<1>6. CASE UNCHANGED <<users, bpc, bUsers>>
  BY <1>6
<1>7. CASE Claim \/ Fill \/ Publish \/ CountPut \/ AllRead \/ TestGets \/ ForceLast
  BY <1>6, <1>7 DEF Claim, Fill, Publish, CountPut, AllRead, TestGets, ForceLast,
     slots, burner
<1>8. CASE FillerTimeout \/ FillerDies \/ UNCHANGED vars
  BY <1>6, <1>8 DEF FillerTimeout, FillerDies, vars, slots, burner
<1>9. CASE Start \/ Await \/ Blank \/ OpenTrack \/ Release \/ GetReady \/ BurnerTimeout
  BY <1>5, <1>9 DEF Start, Await, Blank, OpenTrack, Release, GetReady, BurnerTimeout,
     slots
<1>10. CASE Check \/ Write \/ Continue \/ Pad \/ Exit \/ Interrupt
  BY <1>5, <1>10 DEF Check, Write, Continue, Pad, Exit, Interrupt, slots
<1> QED
  BY <1>1, <1>2, <1>3, <1>4, <1>7, <1>8, <1>9, <1>10
     DEF Next, FillerStep, BurnerStep, Gone

------------------------------------------------------------------------------
(* The ring                                                                *)

\* Distances from the burner lie inside the ring, and tell slots apart.
LEMMA AheadType ==
    ASSUME bi \in Slots, NEW i \in Slots
    PROVE  Ahead(i) \in 0 .. NBuf - 1 /\ (Ahead(i) = 0 <=> i = bi)
BY NBufAssumption DEF Ahead, Slots

LEMMA AheadInjective ==
    ASSUME bi \in Slots, NEW i \in Slots, NEW j \in Slots, Ahead(i) = Ahead(j)
    PROVE  i = j
BY NBufAssumption DEF Ahead, Slots

\* The next slot is one further ahead, or the burner's own again.
LEMMA AheadNext ==
    ASSUME bi \in Slots, NEW i \in Slots
    PROVE  Ahead(NextSlot(i)) = IF Ahead(i) = NBuf - 1 THEN 0 ELSE Ahead(i) + 1
BY NBufAssumption DEF Ahead, Slots, NextSlot

\* When the burner steps on, every slot comes one closer and the one it left
\* becomes the farthest.
LEMMA AheadRelease ==
    ASSUME bi \in Slots, NEW i \in Slots, bi' = NextSlot(bi)
    PROVE  Ahead(i)' = IF Ahead(i) = 0 THEN NBuf - 1 ELSE Ahead(i) - 1
BY NBufAssumption DEF Ahead, Slots, NextSlot

\* Every step keeps the published slots contiguous, from the burner's on up to
\* the filler.
LEMMA StepRing == TypeOK /\ Ownership /\ UserCounts /\ Ring /\ [Next]_vars => Ring'
<1> SUFFICES ASSUME TypeOK, Ownership, UserCounts, Ring, [Next]_vars,
                    fpc' \in {"wait", "fill", "publish", "users", "puts"}
             PROVE  \E k \in 0 .. NBuf : RingOf(k)'
  BY DEF Ring, Reading
<1>0. /\ owner \in [Slots -> {"writer", "faio", "reader"}]
      /\ fi \in Slots /\ bi \in Slots /\ NBuf \in Nat /\ NBuf >= 1
  BY NBufAssumption DEF TypeOK
<1>1. fpc \in {"wait", "fill", "publish", "users", "puts"}
  BY DEF Next, FillerStep, BurnerStep, Gone, Claim, Fill, Publish, SetUsers, CountPut,
     AllRead, TestGets, ForceLast, FillerTimeout, FillerDies, Start, Await, Blank,
     OpenTrack, Release, GetReady, BurnerTimeout, Check, LoadUsers, StoreUsers, Hand,
     Write, Continue, Pad, Exit, Interrupt, Killed, FillerActive, vars, filler
<1>2. PICK k \in 0 .. NBuf : RingOf(k)
  BY <1>1 DEF Ring, Reading
<1>3. \A i \in Slots : Ahead(i) \in 0 .. NBuf - 1
  BY <1>0, AheadType
<1>a. CASE UNCHANGED <<owner, bi, fi, fpc>>
  <2>1. RingOf(k)'
    BY <1>2, <1>a DEF RingOf, Ahead
  <2> QED
    BY <2>1
<1>b. CASE Claim \/ Fill \/ SetUsers
  <2>1. UNCHANGED <<owner, bi, fi>>
    BY <1>b DEF Claim, Fill, SetUsers, burner
  <2>2. \/ fpc \in {"wait", "fill"} /\ fpc' \in {"fill", "publish"}
        \/ fpc = "users" /\ fpc' = "puts"
    BY <1>b DEF Claim, Fill, SetUsers
  <2>3. RingOf(k)'
    BY <1>2, <2>1, <2>2 DEF RingOf, Ahead
  <2> QED
    BY <2>3
<1>c. CASE Publish
  <2>1. owner[fi] = "writer"
    BY <1>c DEF Publish, Ownership
  <2>2. UNCHANGED <<bi, fi>> /\ fpc = "publish" /\ fpc' = "users"
    BY <1>c DEF Publish, burner
  <2>3. Ahead(fi) = k /\ k < NBuf
    BY <1>0, <1>2, <1>3, <2>1, <2>2 DEF RingOf
  <2>4. \A i \in Slots : owner'[i] = IF i = fi THEN "reader" ELSE owner[i]
    BY <1>0, <1>c DEF Publish
  <2>5. \A i \in Slots : Ahead(i)' = Ahead(i)
    BY <2>2 DEF Ahead
  <2>6. ASSUME NEW i \in Slots
        PROVE  (owner'[i] = "writer") <=> (Ahead(i) >= k + 1)
    <3>1. (owner[i] = "writer") <=> (Ahead(i) >= k)
      BY <1>2 DEF RingOf
    <3>2. Ahead(i) = k <=> i = fi
      BY <1>0, <2>3, AheadInjective
    <3> QED
      BY <1>3, <2>4, <3>1, <3>2
  <2>7. RingOf(k + 1)'
    BY <1>0, <2>2, <2>3, <2>5, <2>6 DEF RingOf
  <2>8. k + 1 \in 0 .. NBuf
    BY <1>0, <2>3
  <2> QED
    BY <2>7, <2>8 DEF RingOf
<1>d. CASE CountPut
  <2>1. UNCHANGED <<owner, bi>> /\ fi' = NextSlot(fi) /\ fpc = "puts" /\ fpc' = "wait"
    BY <1>d DEF CountPut, slots, burner
  <2>2. Ahead(fi)' = IF Ahead(fi) = NBuf - 1 THEN 0 ELSE Ahead(fi) + 1
    <3>1. Ahead(fi)' = Ahead(NextSlot(fi))
      BY <2>1 DEF Ahead
    <3> QED
      BY <1>0, <3>1, AheadNext
  <2>3. Ahead(fi)' = IF k = NBuf THEN 0 ELSE k
    BY <1>0, <1>2, <1>3, <2>1, <2>2 DEF RingOf
  <2>4. RingOf(k)'
    BY <1>2, <2>1, <2>3 DEF RingOf, Ahead
  <2> QED
    BY <2>4
<1>e. CASE Release
  <2>1. CASE owner[bi] = "faio"
    <3>1. UNCHANGED <<fi, fpc>> /\ bi' = NextSlot(bi)
      BY <1>e, <2>1 DEF Release, filler
    <3>2. \A i \in Slots : owner'[i] = IF i = bi THEN "writer" ELSE owner[i]
      BY <1>0, <1>e, <2>1 DEF Release
    <3>3. \A i \in Slots : Ahead(i)' = IF Ahead(i) = 0 THEN NBuf - 1 ELSE Ahead(i) - 1
      BY <1>0, <3>1, AheadRelease
    <3>4. \A i \in Slots : Ahead(i) = 0 <=> i = bi
      BY <1>0, AheadType
    <3>5. k >= 1
      BY <1>0, <1>2, <1>3, <2>1 DEF RingOf
    <3>6. ASSUME NEW i \in Slots
          PROVE  (owner'[i] = "writer") <=> (Ahead(i)' >= k - 1)
      <4>1. (owner[i] = "writer") <=> (Ahead(i) >= k)
        BY <1>2 DEF RingOf
      <4>2. Ahead(i) \in 0 .. NBuf - 1
        BY <1>3
      <4>3. CASE i = bi
        BY <1>0, <3>2, <3>3, <3>4, <4>3
      <4>4. CASE i # bi
        BY <1>0, <3>2, <3>3, <3>4, <4>1, <4>2, <4>4
      <4> QED
        BY <4>3, <4>4
    <3>a. /\ Ahead(fi) \in 0 .. NBuf - 1
          /\ Ahead(fi)' = IF Ahead(fi) = 0 THEN NBuf - 1 ELSE Ahead(fi) - 1
      <4>1. Ahead(fi)' = IF fi >= bi' THEN fi - bi' ELSE fi - bi' + NBuf
        BY <3>1 DEF Ahead
      <4> QED
        BY <1>0, <1>3, <3>1, <4>1, NBufAssumption DEF Ahead, NextSlot, Slots
    <3>7. fpc \in {"wait", "fill", "publish"} => Ahead(fi)' = k - 1
      BY <1>0, <1>2, <3>5, <3>a DEF RingOf
    <3>8. fpc \in {"users", "puts"} =>
             Ahead(fi)' = IF k - 1 = 0 THEN NBuf - 1 ELSE k - 2
      BY <1>0, <1>2, <3>5, <3>a DEF RingOf
    <3>9. RingOf(k - 1)'
      BY <1>0, <3>1, <3>5, <3>6, <3>7, <3>8 DEF RingOf
    <3>10. k - 1 \in 0 .. NBuf
      BY <1>0, <3>5
    <3> QED
      BY <3>9, <3>10 DEF RingOf
  <2>2. CASE owner[bi] # "faio"
    BY <1>a, <1>e, <2>2 DEF Release, filler
  <2> QED
    BY <2>1, <2>2
<1>f. CASE Hand
  <2>1. \A i \in Slots : owner'[i] = IF i = bi THEN "faio" ELSE owner[i]
    BY <1>0, <1>f DEF Hand, UserCounts, NoUsers
  <2>2. owner[bi] = "reader"
    BY <1>f DEF Hand, Ownership
  <2>3. UNCHANGED <<fi, bi, fpc>>
    BY <1>f DEF Hand, filler
  <2>4. \A i \in Slots : (owner'[i] = "writer") <=> (owner[i] = "writer")
    BY <2>1, <2>2
  <2>5. RingOf(k)'
    BY <1>2, <2>3, <2>4 DEF RingOf, Ahead
  <2> QED
    BY <2>5
<1>g. CASE AllRead \/ TestGets \/ ForceLast \/ FillerTimeout \/ FillerDies
  BY <1>g DEF AllRead, TestGets, ForceLast, FillerTimeout, FillerDies, Killed,
     FillerActive
<1>h. CASE Start \/ Blank \/ OpenTrack \/ GetReady \/ BurnerTimeout \/ UNCHANGED vars
  BY <1>a, <1>h DEF Start, Blank, OpenTrack, GetReady, BurnerTimeout, vars, slots,
     filler, burner
<1>i. CASE Check \/ LoadUsers \/ StoreUsers \/ Write \/ Continue \/ Pad
  BY <1>a, <1>i DEF Check, LoadUsers, StoreUsers, Write, Continue, Pad, slots, filler
<1>j. CASE Await \/ Exit \/ Interrupt
  <2>1. UNCHANGED <<owner, bi, fi>>
    BY <1>j DEF Await, Exit, Interrupt, slots
  <2>2. fpc' \in {fpc, Killed(fpc)}
    BY <1>j DEF Await, Exit, Interrupt
  <2>3. fpc' = fpc
    BY <1>1, <2>2 DEF Killed, FillerActive
  <2> QED
    BY <1>a, <2>1, <2>3
<1> QED
  BY <1>b, <1>c, <1>d, <1>e, <1>f, <1>g, <1>h, <1>i, <1>j
     DEF Next, FillerStep, BurnerStep, Gone

------------------------------------------------------------------------------
(* The segments                                                            *)

\* What the filler has read so far lies within its track, and the slot it works
\* on says so; nobody else writes to that slot.
LEMMA StepFilling == TypeOK /\ Filling /\ [Next]_vars => Filling'
<1> SUFFICES ASSUME TypeOK, Filling, [Next]_vars PROVE Filling'
  OBVIOUS
<1> DEFINE T == tracks[fTrack]
           W == BytesToRead(T.size, fPos, Chunk(T))
<1>0. /\ fi \in Slots /\ Len(tracks) \in Nat /\ fTrack \in 1 .. Len(tracks) /\ fPos \in Nat
      /\ fd \in [Slots -> Int] /\ len \in [Slots -> Int]
      /\ data \in [Slots -> [track : Nat, pos : Nat]]
      /\ T.size \in Int /\ Chunk(T) \in Int
  BY TrackTypes DEF TypeOK
<1>w. W \in Int
  BY <1>0 DEF BytesToRead
<1>a. data[fi] = At(fTrack, fPos) => Wanted(fi) = W
  BY DEF Wanted, At
<1>1. CASE Claim
  BY <1>0, <1>1 DEF Claim, Filling, session
<1>2. CASE Fill
  <2>1. PICK n \in FillResults(T) :
           /\ len' = [len EXCEPT ![fi] = n]
           /\ fEof' = (fEof \/ (n >= 0 /\ n < W))
    BY <1>2 DEF Fill
  <2>2. n \in {ReadError} \cup 0 .. W
    BY <2>1 DEF FillResults
  <2>3. len'[fi] = n /\ data'[fi] = At(fTrack, fPos)
    BY <1>0, <1>2, <2>1 DEF Fill
  <2>4. UNCHANGED <<fd, fi, fTrack, fPos, tracks>> /\ fpc = "fill" /\ fpc' = "publish"
    BY <1>2 DEF Fill, session
  <2>5. Wanted(fi)' = W
    BY <2>3, <2>4 DEF Wanted, At
  <2>6. Short(fi)' => fEof'
    BY <2>1, <2>3, <2>4, <2>5 DEF Short
  <2> QED
    BY <2>2, <2>3, <2>4, <2>5, <2>6 DEF Filling
<1>3. CASE Publish \/ SetUsers
  <2>1. UNCHANGED <<fd, len, data, fi, fTrack, fPos, fEof, tracks>>
    BY <1>3 DEF Publish, SetUsers, session
  <2>2. fpc \in {"publish", "users"} /\ fpc' \in {"users", "puts"}
    BY <1>3 DEF Publish, SetUsers
  <2> QED
    BY <2>1, <2>2 DEF Filling, Wanted, Short
<1>4. CASE CountPut
  <2>1. tracks' = tracks /\ fpc' \in {"wait", "done"}
    BY <1>4 DEF CountPut, session
  <2>2. CASE TrackGoesOn(len[fi], T.size, fPos)
    <3>1. fPos' = fPos + len[fi] /\ fTrack' = fTrack
      BY <1>4, <2>2 DEF CountPut
    <3> QED
      BY <2>1, <2>2, <3>1 DEF Filling, TrackGoesOn
  <2>3. CASE ~TrackGoesOn(len[fi], T.size, fPos)
    BY <1>4, <2>1, <2>3 DEF Filling, CountPut
  <2> QED
    BY <2>2, <2>3
<1>5. CASE UNCHANGED <<fd, len, data, fi, fTrack, fPos, fEof, tracks, fpc>>
  BY <1>5 DEF Filling, Wanted, Short
<1>6. CASE /\ UNCHANGED <<fTrack, fPos, tracks>>
           /\ fpc' \notin {"fill", "publish", "users", "puts"}
  BY <1>6 DEF Filling
<1>7. CASE AllRead \/ TestGets \/ ForceLast \/ FillerTimeout \/ FillerDies
  BY <1>6, <1>7 DEF AllRead, TestGets, ForceLast, FillerTimeout, FillerDies, Killed,
     FillerActive, session
<1>8. CASE Start \/ Blank \/ OpenTrack \/ GetReady \/ BurnerTimeout
  BY <1>5, <1>8 DEF Start, Blank, OpenTrack, GetReady, BurnerTimeout, slots, filler,
     session
<1>9. CASE Check \/ LoadUsers \/ StoreUsers \/ Write \/ Continue \/ Pad
  BY <1>5, <1>9 DEF Check, LoadUsers, StoreUsers, Write, Continue, Pad, slots, filler,
     session
<1>10. CASE Release \/ Hand \/ UNCHANGED vars
  BY <1>5, <1>10 DEF Release, Hand, vars, slots, filler, session
<1>11. CASE Await \/ Exit \/ Interrupt
  <2>1. UNCHANGED <<fd, len, data, fi, fTrack, fPos, fEof, tracks>>
    BY <1>11 DEF Await, Exit, Interrupt, slots, session
  <2>2. fpc' \in {fpc, Killed(fpc)}
    BY <1>11 DEF Await, Exit, Interrupt
  <2>3. fpc' = fpc \/ fpc' \in {"cut", "killed"}
    BY <2>2 DEF Killed
  <2>4. CASE fpc' = fpc
    BY <1>5, <2>1, <2>4
  <2>5. CASE fpc' \in {"cut", "killed"}
    BY <1>6, <2>1, <2>5
  <2> QED
    BY <2>3, <2>4, <2>5
<1> QED
  BY <1>1, <1>2, <1>3, <1>4, <1>7, <1>8, <1>9, <1>10, <1>11
     DEF Next, FillerStep, BurnerStep, Gone

\* While the burner works on a track there is something for it to take.
LEMMA GoingOnTrack ==
    ASSUME TypeOK, OnTrack, bpc \in {"release", "getwait", "check", "load", "store", "hand", "write"}
    PROVE  Going /\ BurnerNext = At(bTrack, bPos)
<1>1. BurnerNext = At(bTrack, bPos)
  BY DEF BurnerNext
<1>2. bTrack \in 1 .. Len(tracks) /\ Len(tracks) \in Nat
  BY TrackTypes DEF TypeOK, OnTrack
<1>3. At(bTrack, bPos).track = bTrack /\ End.track = Len(tracks) + 1
  BY DEF At, End
<1>4. BurnerNext # End
  BY <1>1, <1>2, <1>3
<1> QED
  BY <1>1, <1>4 DEF Going

\* If the burner holds a slot there are segments from there on: the forced slot
\* is not among them.
LEMMA SegmentsAhead ==
    ASSUME TypeOK, NEW k \in 0 .. NBuf, Chain(k), Going, Meets(k), ~Behind, owner[bi] # "writer"
    PROVE  k > 0
<1> SUFFICES ASSUME k = 0 PROVE FALSE
  BY NBufAssumption
<1>1. bi \in Slots /\ Ahead(bi) = 0
  BY AheadType DEF TypeOK
<1>2. fpc = "exited"
  BY <1>1, NBufAssumption DEF Chain
<1>3. FillerKnows /\ FillerNext = End
  BY <1>2 DEF FillerKnows, FillerNext
<1> QED
  BY <1>3 DEF Meets, Going

\* The slot the burner is in is the next one it is to write.
LEMMA SegmentAtHand ==
    ASSUME TypeOK, OnTrack, Ownership, NEW k \in 0 .. NBuf, OrderOf(k),
           bpc \in {"check", "load", "store", "hand", "write"}
    PROVE  /\ Going /\ ~Behind /\ Meets(k) /\ k > 0 /\ Sound(bi) /\ data[bi] = At(bTrack, bPos)
           /\ BurnerNext = At(bTrack, bPos)
<1>1. Going /\ BurnerNext = At(bTrack, bPos)
  BY GoingOnTrack
<1>2. Chain(k) /\ Meets(k)
  BY <1>1 DEF OrderOf
<1>3. ~Behind
  BY DEF Behind
<1>4. owner[bi] # "writer"
  BY DEF Ownership
<1>5. k > 0
  BY <1>1, <1>2, <1>3, <1>4, SegmentsAhead
<1>6. bi \in Slots /\ Ahead(bi) = 0
  BY AheadType DEF TypeOK
<1> QED
  BY <1>1, <1>2, <1>3, <1>5, <1>6 DEF Chain, Meets

\* A step that leaves the owners, the segments and what comes next alone keeps
\* the chain.
LEMMA ChainQuiet ==
    ASSUME TypeOK, NEW k \in 0 .. NBuf, Chain(k), UNCHANGED <<owner, bi, tracks>>,
           \A i \in Slots : Ahead(i) < k =>
               fd'[i] = fd[i] /\ len'[i] = len[i] /\ data'[i] = data[i],
           FillerKnows' => FillerKnows /\ FillerNext' = FillerNext,
           fpc = "exited" => fpc' = "exited",
           fpc' = "force" => bi + k <= NBuf,
           Published' - gets' = k - IF Holding' \/ bpc' = "write" THEN 1 ELSE 0
    PROVE  Chain(k)'
<1>1. \A i \in Slots : Ahead(i)' = Ahead(i) /\ Ahead(i) \in 0 .. NBuf - 1
  BY AheadType DEF Ahead, TypeOK
<1>2. \A i \in Slots : Ahead(i) < k => Sound(i)'
  <2> SUFFICES ASSUME NEW i \in Slots, Ahead(i) < k PROVE Sound(i)'
    OBVIOUS
  <2>1. Sound(i)
    BY DEF Chain
  <2> QED
    BY <2>1 DEF Sound, Wanted
<1>3. \A i, j \in Slots : Ahead(j) = Ahead(i) + 1 /\ Ahead(j) < k =>
          data'[j] = After(data[i], len[i])' /\ Ahead(i) < k
  <2> SUFFICES ASSUME NEW i \in Slots, NEW j \in Slots, Ahead(j) = Ahead(i) + 1, Ahead(j) < k
               PROVE  data'[j] = After(data[i], len[i])' /\ Ahead(i) < k
    OBVIOUS
  <2>1. Ahead(i) < k
    BY <1>1
  <2>2. data[j] = After(data[i], len[i])
    BY DEF Chain
  <2> QED
    BY <2>1, <2>2 DEF After
<1>4. FillerKnows' => \A i \in Slots : Ahead(i) = k - 1 => FillerNext' = After(data[i], len[i])'
  <2> SUFFICES ASSUME FillerKnows', NEW i \in Slots, Ahead(i) = k - 1
               PROVE  FillerNext' = After(data[i], len[i])'
    OBVIOUS
  <2>1. Ahead(i) < k
    BY <1>1
  <2>2. FillerNext = After(data[i], len[i])
    BY DEF Chain
  <2> QED
    BY <2>1, <2>2 DEF After
<1>5. \A i \in Slots : Ahead(i) >= k => owner'[i] = "writer" \/ (fpc' = "exited" /\ i = Last)
  BY DEF Chain
<1>6. \A i \in Slots : Ahead(i)' < k => Sound(i)'
  BY <1>1, <1>2
<1>7. \A i \in Slots : Ahead(i)' >= k => owner'[i] = "writer" \/ (fpc' = "exited" /\ i = Last)
  BY <1>1, <1>5
<1>8. \A i, j \in Slots : Ahead(j)' = Ahead(i)' + 1 /\ Ahead(j)' < k => data'[j] = After(data[i], len[i])'
  BY <1>1, <1>3
<1>9. FillerKnows' => \A i \in Slots : Ahead(i)' = k - 1 => FillerNext' = After(data[i], len[i])'
  BY <1>1, <1>4
<1>10. fpc' = "force" => bi' + k <= NBuf
  OBVIOUS
<1> QED
  BY <1>6, <1>7, <1>8, <1>9, <1>10 DEF Chain

\* Inside a track the next place is not its start.
LEMMA AfterInside ==
    ASSUME NEW p \in [track : Nat, pos : Nat], NEW n \in Int, After(p, n).track = p.track
    PROVE  After(p, n) = At(p.track, p.pos + n) /\ n > 0 /\ After(p, n).pos > 0
<1>1. At(p.track + 1, 0).track # p.track
  BY DEF At
<1>2. TrackGoesOn(n, tracks[p.track].size, p.pos)
  BY <1>1 DEF After
<1> QED
  BY <1>2 DEF After, TrackGoesOn, At

LEMMA StaysQuiet ==
    ASSUME TypeOK, NEW k \in 0 .. NBuf, Chain(k), Stays(k), UNCHANGED <<bi, tracks>>,
           \A i \in Slots : Ahead(i) < k => len'[i] = len[i] /\ data'[i] = data[i],
           fpc' \in Reading => FillerKnows /\ FillerNext' = FillerNext,
           fpc' \in Reading /\ FillerNext.pos > 0 /\ EndSeen => EndSeen'
    PROVE  Stays(k)'
<1>1. \A i \in Slots : Ahead(i)' = Ahead(i) /\ Ahead(i) \in 0 .. NBuf - 1
  BY AheadType DEF Ahead, TypeOK
<1>2. \A i \in Slots : Ahead(i) < k => (Short(i)' <=> Short(i))
  BY DEF Short, Wanted
<1>3. \A i, j \in Slots : Ahead(j)' = Ahead(i)' + 1 /\ Ahead(j)' < k =>
          (data'[j].track = data'[i].track /\ Short(i)' => len'[j] <= 0)
  <2> SUFFICES ASSUME NEW i \in Slots, NEW j \in Slots, Ahead(j) = Ahead(i) + 1, Ahead(j) < k,
                      data'[j].track = data'[i].track, Short(i)'
               PROVE  len'[j] <= 0
    BY <1>1
  <2>1. Ahead(i) < k
    BY <1>1
  <2>2. data[j].track = data[i].track /\ Short(i) /\ len'[j] = len[j]
    BY <1>2, <2>1
  <2> QED
    BY <2>2 DEF Stays
<1>4. \A i \in Slots :
          Ahead(i)' = k - 1 /\ FillerNext'.track = data'[i].track /\ Short(i)' => EndSeen'
  <2> SUFFICES ASSUME NEW i \in Slots, Ahead(i) = k - 1, FillerNext'.track = data'[i].track,
                      Short(i)'
               PROVE  EndSeen'
    BY <1>1
  <2>1. CASE fpc' \notin Reading
    BY <2>1 DEF EndSeen
  <2>2. CASE fpc' \in Reading
    <3>1. Ahead(i) < k
      BY <1>1
    <3>2. FillerNext.track = data[i].track /\ Short(i)
      BY <1>2, <2>2, <3>1
    <3>3. EndSeen
      BY <3>2 DEF Stays
    <3>4. FillerNext = After(data[i], len[i])
      BY <2>2 DEF Chain
    <3>5. data[i] \in [track : Nat, pos : Nat] /\ len[i] \in Int
      BY DEF TypeOK
    <3>6. FillerNext.pos > 0
      BY <3>2, <3>4, <3>5, AfterInside
    <3> QED
      BY <2>2, <3>3, <3>6
  <2> QED
    BY <2>1, <2>2
<1> QED
  BY <1>3, <1>4 DEF Stays

\* The same for what the burner expects, in a step of the filler.
LEMMA BurnerQuiet ==
    ASSUME TypeOK, NEW k \in 0 .. NBuf, Going => Meets(k),
           UNCHANGED <<owner, tracks, bpc, bi, bTrack, bPos, bChunk>>,
           \A i \in Slots : Ahead(i) < k => len'[i] = len[i] /\ data'[i] = data[i],
           FillerKnows' => FillerKnows /\ FillerNext' = FillerNext,
           fpc = "exited" => fpc' = "exited"
    PROVE  /\ (Going => Meets(k))'
           /\ (FillerNext.pos > 0 /\ EndSeen => EndSeen') /\ AsksLess(k) => AsksLess(k)'
<1>1. /\ Going' <=> Going
      /\ BurnerNext' = BurnerNext
      /\ Behind' <=> Behind
      /\ End' = End
  BY DEF Going, BurnerNext, Behind, End
<1>2. Ahead(bi) = 0
  BY AheadType DEF TypeOK
<1>3. k > 0 =>
        /\ data'[bi] = data[bi] /\ len'[bi] = len[bi]
        /\ After(data[bi], len[bi])' = After(data[bi], len[bi])
        /\ Short(bi)' <=> Short(bi)
  BY <1>2 DEF TypeOK, After, Short, Wanted
<1>4. ASSUME Going PROVE Meets(k)'
  <2>1. Meets(k)
    BY <1>4
  <2>2. bpc = "write" => ~Behind
    BY DEF Behind
  <2>3. Behind => k > 0 /\ owner'[bi] = "faio" /\ BurnerNext' = After(data[bi], len[bi])'
    BY <1>1, <1>3, <2>1 DEF Meets
  <2>4. ~Behind /\ k > 0 => data'[bi] = BurnerNext'
    BY <1>1, <1>3, <2>1 DEF Meets
  <2>5. ~Behind /\ k = 0 /\ FillerKnows' => FillerNext' = BurnerNext'
    BY <1>1, <2>1 DEF Meets
  <2>6. k = 0 /\ bpc = "write" => owner[bi] = "faio" \/ (fpc = "exited" /\ FillerNext = BurnerNext)
    BY <2>1, <2>2 DEF Meets, FillerKnows
  <2>7. bpc = "write" /\ k = 0 => owner[bi] = "faio"
    <3>1. fpc = "exited" => FillerNext = End
      BY DEF FillerNext
    <3> QED
      BY <1>4, <2>6, <3>1 DEF Going
  <2>8. bpc = "write" => owner[bi] = "faio" \/ (fpc' = "exited" /\ After(data[bi], len[bi])' = End')
    <3>1. CASE k = 0
      BY <2>7, <3>1
    <3>2. CASE k # 0
      BY <1>1, <1>3, <2>1, <3>2 DEF Meets
    <3> QED
      BY <3>1, <3>2
  <2> QED
    BY <1>1, <2>3, <2>4, <2>5, <2>8 DEF Meets
<1>5. ASSUME FillerNext.pos > 0 /\ EndSeen => EndSeen', AsksLess(k), Going, BurnerNext.track = bTrack, bChunk # Chunk(tracks[bTrack])
      PROVE  /\ bPos > 0 /\ bChunk \in Nat
             /\ IF Behind THEN Short(bi)' ELSE IF k > 0 THEN len'[bi] <= 0 ELSE EndSeen'
  <2>1. /\ bPos > 0 /\ bChunk \in Nat
        /\ IF Behind THEN Short(bi) ELSE IF k > 0 THEN len[bi] <= 0 ELSE EndSeen
    BY <1>5 DEF AsksLess
  <2>2. Behind => k > 0
    BY <1>5 DEF Meets
  <2>3. CASE Behind
    BY <1>3, <2>1, <2>2, <2>3
  <2>4. CASE ~Behind /\ k > 0
    BY <1>3, <2>1, <2>4
  <2>5. CASE ~Behind /\ ~(k > 0)
    <3>1. EndSeen
      BY <2>1, <2>5
    <3>2. CASE fpc' \notin Reading
      BY <2>1, <2>5, <3>2 DEF EndSeen
    <3>3. CASE fpc' \in Reading
      <4>1. FillerNext = BurnerNext
        BY <1>5, <2>5, <3>3, NBufAssumption DEF Meets, FillerKnows, Reading
      <4>2. BurnerNext = At(bTrack, bPos)
        BY <1>5 DEF BurnerNext, At, TypeOK
      <4>3. FillerNext.pos > 0
        BY <2>1, <4>1, <4>2 DEF At
      <4> QED
        BY <1>5, <2>1, <2>5, <3>1, <4>3
    <3> QED
      BY <3>2, <3>3
  <2> QED
    BY <2>3, <2>4, <2>5
<1> QED
  BY <1>1, <1>4, <1>5 DEF AsksLess

\* Both descriptions of the ring speak of the same slots.
LEMMA SameRing ==
    ASSUME TypeOK, Ring, NEW k \in 0 .. NBuf, Chain(k), fpc \in Reading
    PROVE  RingOf(k)
<1>1. PICK n \in 0 .. NBuf : RingOf(n)
  BY DEF Ring
<1>2. /\ NBuf \in Nat /\ NBuf >= 1 /\ bi \in Slots
      /\ \A i \in Slots : Ahead(i) \in 0 .. NBuf - 1
  BY NBufAssumption, AheadType DEF TypeOK
<1>3. \A i \in Slots : (owner[i] = "writer") <=> (Ahead(i) >= k)
  <2> SUFFICES ASSUME NEW i \in Slots PROVE (owner[i] = "writer") <=> (Ahead(i) >= k)
    OBVIOUS
  <2>1. CASE Ahead(i) >= k
    BY <2>1 DEF Chain, Reading
  <2>2. CASE Ahead(i) < k
    BY <1>2, <2>2 DEF Chain, Sound
  <2> QED
    BY <1>2, <2>1, <2>2
<1>4. ASSUME NEW x \in 0 .. NBuf - 1
      PROVE  \E i \in Slots : Ahead(i) = x
  <2>1. CASE bi + x < NBuf
    <3>1. bi + x \in Slots /\ Ahead(bi + x) = x
      BY <1>2, <2>1 DEF Slots, Ahead
    <3> QED
      BY <3>1
  <2>2. CASE bi + x >= NBuf
    <3>1. bi + x - NBuf \in Slots /\ Ahead(bi + x - NBuf) = x
      BY <1>2, <2>2 DEF Slots, Ahead
    <3> QED
      BY <3>1
  <2> QED
    BY <1>2, <2>1, <2>2 DEF Slots
<1>5. ~(n < k)
  <2> SUFFICES ASSUME n < k PROVE FALSE
    OBVIOUS
  <2>1. PICK i \in Slots : Ahead(i) = n
    BY <1>2, <1>4
  <2> QED
    BY <1>1, <1>2, <1>3, <2>1 DEF RingOf
<1>6. ~(k < n)
  <2> SUFFICES ASSUME k < n PROVE FALSE
    OBVIOUS
  <2>1. PICK i \in Slots : Ahead(i) = k
    BY <1>2, <1>4
  <2> QED
    BY <1>1, <1>2, <1>3, <2>1 DEF RingOf
<1>7. n = k
  BY <1>2, <1>5, <1>6
<1> QED
  BY <1>1, <1>7

\* A step of the filler that publishes nothing and forces nothing.
LEMMA OrderFillerQuiet ==
    ASSUME TypeOK, NEW k \in 0 .. NBuf, OrderOf(k),
           UNCHANGED <<owner, tracks, bpc, bi, bTrack, bPos, bChunk, gets>>,
           \A i \in Slots : Ahead(i) < k =>
               fd'[i] = fd[i] /\ len'[i] = len[i] /\ data'[i] = data[i],
           FillerKnows' => FillerKnows /\ FillerNext' = FillerNext,
           fpc = "exited" => fpc' = "exited",
           fpc' = "force" => bi + k <= NBuf,
           Published' = Published,
           fpc' \in Reading => (~Growing /\ FillerNext.pos > 0 /\ EndSeen => EndSeen')
    PROVE  OrderOf(k)'
<1>1. Chain(k) /\ (Going => Meets(k)) /\ (~Growing => Stays(k) /\ AsksLess(k))
  BY DEF OrderOf
<1>2. Holding' <=> Holding
  BY DEF Holding
<1>3. Published' - gets' = k - IF Holding' \/ bpc' = "write" THEN 1 ELSE 0
  <2>1. Published - gets = k - IF Holding \/ bpc = "write" THEN 1 ELSE 0
    BY <1>1 DEF Chain
  <2> QED
    BY <1>2, <2>1
<1>4. Chain(k)'
  BY <1>1, <1>3, ChainQuiet
<1>5. ~Growing => (FillerNext.pos > 0 /\ EndSeen => EndSeen')
  BY DEF EndSeen
<1>6. fpc' \in Reading => FillerKnows /\ FillerNext' = FillerNext
  BY DEF FillerKnows, Reading
<1>7. ~Growing => Stays(k)'
  BY <1>1, <1>5, <1>6, StaysQuiet
<1>8. (Going => Meets(k))' /\ (~Growing => AsksLess(k)')
  BY <1>1, <1>5, BurnerQuiet
<1> QED
  BY <1>4, <1>7, <1>8 DEF OrderOf

\* The steps of the filler that leave the owners alone.
LEMMA OrderFiller ==
    ASSUME IndInv, NEW k \in 0 .. NBuf, OrderOf(k),
           Claim \/ Fill \/ SetUsers \/ CountPut \/ AllRead \/ TestGets
    PROVE  OrderOf(k)'
<1>0. /\ TypeOK /\ Ownership /\ Ring /\ Filling /\ Begun
      /\ fi \in Slots /\ bi \in Slots /\ NBuf \in Nat /\ NBuf >= 1
      /\ fd \in [Slots -> Int] /\ len \in [Slots -> Int] /\ puts \in Nat /\ gets \in Nat
      /\ data \in [Slots -> [track : Nat, pos : Nat]]
  BY NBufAssumption DEF IndInv, TypeOK
<1>a. UNCHANGED <<owner, tracks, bpc, bi, bTrack, bPos, bChunk, gets>>
  BY DEF Claim, Fill, SetUsers, CountPut, AllRead, TestGets, slots, stats, burner, session
<1>1. CASE Claim \/ Fill
  <2>1. /\ fpc \in {"wait", "fill"} /\ fpc' \in {"fill", "publish"}
        /\ UNCHANGED <<puts, fi, fTrack, fPos>>
    BY <1>1 DEF Claim, Fill, stats
  <2>2. owner[fi] = "writer"
    BY <1>0, <1>1 DEF Claim, Fill, Free, Ownership
  <2>3. Ahead(fi) >= k
    BY <1>0, <2>2, AheadType DEF OrderOf, Chain, Sound
  <2>4. \A i \in Slots : i # fi => fd'[i] = fd[i] /\ len'[i] = len[i] /\ data'[i] = data[i]
    BY <1>0, <1>1 DEF Claim, Fill
  <2>5. \A i \in Slots : Ahead(i) < k => fd'[i] = fd[i] /\ len'[i] = len[i] /\ data'[i] = data[i]
    BY <1>0, <2>3, <2>4, AheadType
  <2>6. FillerNext' = FillerNext /\ FillerKnows
    BY <2>1 DEF FillerNext, FillerKnows
  <2>7. Published' = Published
    BY <2>1 DEF Published
  <2>8. ~Growing /\ EndSeen => EndSeen'
    <3>1. CASE Claim
      BY <3>1 DEF Claim, EndSeen, Reading
    <3>2. CASE Fill
      <4> DEFINE T == tracks[fTrack]
      <4>1. PICK n \in FillResults(T) :
               /\ len' = [len EXCEPT ![fi] = n]
               /\ fEof' = (fEof \/ (n >= 0 /\ n < BytesToRead(T.size, fPos, Chunk(T))))
        BY <3>2 DEF Fill
      <4>2. fpc = "fill" /\ fi' = fi
        BY <3>2 DEF Fill
      <4>3. ~Growing /\ fEof => n <= 0
        BY <4>1 DEF FillResults, ReadError
      <4>4. len'[fi] = n
        BY <1>0, <4>1
      <4> QED
        BY <4>1, <4>2, <4>3, <4>4 DEF EndSeen, Reading
    <3> QED
      BY <1>1, <3>1, <3>2
  <2> QED
    BY <1>0, <1>a, <2>1, <2>5, <2>6, <2>7, <2>8, OrderFillerQuiet
<1>2. CASE SetUsers
  <2>1. /\ fpc = "users" /\ fpc' = "puts"
        /\ UNCHANGED <<fd, len, data, puts, fi, fTrack, fPos, fEof>>
    BY <1>2 DEF SetUsers, stats
  <2>2. FillerNext' = FillerNext /\ FillerKnows /\ Published' = Published
    BY <1>a, <2>1 DEF FillerNext, FillerKnows, After, Published
  <2>3. EndSeen => EndSeen'
    BY <2>1 DEF EndSeen, Reading
  <2> QED
    BY <1>0, <1>a, <2>1, <2>2, <2>3, OrderFillerQuiet
<1>3. CASE CountPut
  <2> DEFINE T == tracks[fTrack]
  <2>1. /\ fpc = "puts" /\ fpc' \in {"wait", "done"} /\ puts' = puts + 1
        /\ UNCHANGED <<fd, len, data>>
    BY <1>3 DEF CountPut, slots
  <2>2. Published' = Published /\ FillerKnows
    BY <1>0, <2>1 DEF Published, FillerKnows
  <2>3. CASE TrackGoesOn(len[fi], T.size, fPos)
    <3>1. /\ fpc' = "wait" /\ fPos' = fPos + len[fi] /\ UNCHANGED <<fTrack, fEof>>
      BY <1>3, <2>3 DEF CountPut
    <3>2. FillerNext' = FillerNext
      BY <2>1, <2>3, <3>1 DEF FillerNext, After, At
    <3>3. EndSeen => EndSeen'
      BY <2>1, <3>1 DEF EndSeen, Reading
    <3> QED
      BY <1>0, <1>a, <2>1, <2>2, <3>1, <3>2, <3>3, OrderFillerQuiet
  <2>4. CASE ~TrackGoesOn(len[fi], T.size, fPos)
    <3>1. FillerNext = At(fTrack + 1, 0)
      BY <2>1, <2>4 DEF FillerNext, After, At
    <3>2. FillerNext' = FillerNext
      <4>1. CASE MoreTracks(fTrack)
        <5>1. fpc' = "wait" /\ fTrack' = fTrack + 1 /\ fPos' = 0
          BY <1>3, <2>4, <4>1 DEF CountPut
        <5> QED
          BY <3>1, <5>1 DEF FillerNext
      <4>2. CASE ~MoreTracks(fTrack)
        <5>1. fpc' = "done"
          BY <1>3, <2>4, <4>2 DEF CountPut
        <5>2. fTrack = Len(tracks)
          BY <1>0, <4>2, TrackTypes DEF TypeOK, MoreTracks
        <5> QED
          BY <1>a, <3>1, <5>1, <5>2 DEF FillerNext, End
      <4> QED
        BY <4>1, <4>2
    <3>3. FillerNext.pos = 0
      BY <3>1 DEF At
    <3>4. fpc' # "force" /\ fpc # "exited"
      BY <2>1
    <3> QED
      BY <1>0, <1>a, <2>1, <2>2, <3>2, <3>3, <3>4, OrderFillerQuiet
  <2> QED
    BY <2>3, <2>4
<1>4. CASE AllRead
  <2>1. /\ fpc = "done" /\ fpc' = "force?"
        /\ UNCHANGED <<fd, len, data, puts>>
    BY <1>4 DEF AllRead, slots
  <2>2. FillerNext' = FillerNext /\ FillerKnows /\ Published' = Published
    BY <1>a, <2>1 DEF FillerNext, FillerKnows, End, Published
  <2> QED
    BY <1>0, <1>a, <2>1, <2>2, OrderFillerQuiet DEF Reading
<1>5. CASE TestGets
  <2>1. /\ fpc = "force?" /\ fpc' \in {"force", "exited"}
        /\ UNCHANGED <<fd, len, data, puts>>
        /\ fpc' = "force" => gets = 0
    BY <1>5 DEF TestGets, slots, stats, NothingTaken
  <2>2. FillerNext' = FillerNext /\ FillerKnows /\ Published' = Published
    BY <1>a, <2>1 DEF FillerNext, FillerKnows, End, Published
  <2>3. fpc' = "force" => bi + k <= NBuf
    BY <1>0, <2>1 DEF Begun
  <2> QED
    BY <1>0, <1>a, <2>1, <2>2, <2>3, OrderFillerQuiet DEF Reading
<1> QED
  BY <1>1, <1>2, <1>3, <1>4, <1>5

\* Publishing makes the chain one longer.
LEMMA OrderPublish ==
    ASSUME IndInv, NEW k \in 0 .. NBuf, OrderOf(k), Publish
    PROVE  k + 1 \in 0 .. NBuf /\ OrderOf(k + 1)'
<1>i. TypeOK /\ Ownership /\ Ring /\ Filling /\ OnTrack
  BY DEF IndInv
<1>n. NBuf \in Nat /\ k \in Nat
  BY NBufAssumption
<1>0. /\ TypeOK /\ Ownership /\ Ring /\ Filling /\ OnTrack
      /\ fi \in Slots /\ bi \in Slots /\ NBuf \in Nat /\ NBuf >= 1 /\ k \in Nat
      /\ owner \in [Slots -> {"writer", "faio", "reader"}] /\ len \in [Slots -> Int]
      /\ data \in [Slots -> [track : Nat, pos : Nat]]
      /\ fTrack \in 1 .. Len(tracks) /\ puts \in Nat /\ gets \in Nat
  BY <1>i, <1>n, NBufAssumption DEF TypeOK
<1>1. /\ fpc = "publish" /\ fpc' = "users"
      /\ UNCHANGED <<users, fd, len, data, puts, gets, fi, fTrack, fPos, fEof>>
      /\ UNCHANGED <<bpc, bi, bTrack, bPos, bChunk, tracks>>
  BY DEF Publish, stats, burner, session
<1>2. Chain(k) /\ (Going => Meets(k)) /\ (~Growing => Stays(k) /\ AsksLess(k))
  BY DEF OrderOf
<1>3. RingOf(k) /\ owner[fi] = "writer"
  BY <1>0, <1>1, <1>2, SameRing DEF Reading, Ownership
<1>4. /\ \A i \in Slots : Ahead(i) \in 0 .. NBuf - 1 /\ Ahead(i)' = Ahead(i)
      /\ Ahead(bi) = 0
  BY <1>0, <1>1, AheadType DEF Ahead
<1>5. Ahead(fi) = k /\ k < NBuf
  BY <1>0, <1>1, <1>3, <1>4 DEF RingOf
<1>6. \A i \in Slots : owner'[i] = IF i = fi THEN "reader" ELSE owner[i]
  BY <1>0 DEF Publish
<1>7. \A i \in Slots : Ahead(i) = k => i = fi
  BY <1>0, <1>5, AheadInjective
<1>8. /\ data[fi] = At(fTrack, fPos) /\ fd[fi] = tracks[fTrack].fd
      /\ len[fi] \in {ReadError} \cup 0 .. Wanted(fi)
      /\ Short(fi) => fEof
      /\ fPos = 0 \/ MoreToRead(tracks[fTrack].size, fPos)
  BY <1>0, <1>1 DEF Filling
<1>9. \A i \in Slots : /\ After(data[i], len[i])' = After(data[i], len[i])
                       /\ Wanted(i)' = Wanted(i)
                       /\ Short(i)' <=> Short(i)
  BY <1>1 DEF After, Wanted, Short
<1>10. /\ FillerNext = data[fi] /\ FillerKnows
       /\ FillerNext' = After(data[fi], len[fi])
  BY <1>1, <1>8, <1>9 DEF FillerNext, FillerKnows, After
<1>11. /\ Going' <=> Going
       /\ BurnerNext' = BurnerNext
       /\ End' = End
  BY <1>1 DEF Going, BurnerNext, End
<1>12. /\ owner'[bi] = "faio" <=> owner[bi] = "faio"
       /\ Behind' <=> Behind
       /\ Holding' <=> Holding
  BY <1>0, <1>1, <1>3, <1>6 DEF Behind, Holding
<1>13. Chain(k + 1)'
  <2>1. \A i \in Slots : Ahead(i)' < k + 1 => Sound(i)'
    <3> SUFFICES ASSUME NEW i \in Slots, Ahead(i) < k + 1 PROVE Sound(i)'
      BY <1>4
    <3>1. CASE i = fi
      <4>1. data[fi].track = fTrack /\ data[fi].pos = fPos
        BY <1>8 DEF At
      <4> QED
        BY <1>0, <1>1, <1>6, <1>8, <1>9, <3>1, <4>1 DEF Sound
    <3>2. CASE i # fi
      <4>1. Sound(i)
        BY <1>0, <1>2, <1>4, <1>7, <3>2 DEF Chain
      <4> QED
        BY <1>1, <1>6, <1>9, <3>2, <4>1 DEF Sound
    <3> QED
      BY <3>1, <3>2
  <2>2. \A i \in Slots : Ahead(i)' >= k + 1 => owner'[i] = "writer" \/ (fpc' = "exited" /\ i = Last)
    <3> SUFFICES ASSUME NEW i \in Slots, Ahead(i) >= k + 1 PROVE owner'[i] = "writer"
      BY <1>4
    <3>1. Ahead(i) >= k /\ i # fi
      BY <1>n, <1>4, <1>5
    <3>2. owner[i] = "writer"
      BY <1>1, <1>2, <3>1 DEF Chain
    <3> QED
      BY <1>6, <3>1, <3>2
  <2>3. \A i, j \in Slots : Ahead(j)' = Ahead(i)' + 1 /\ Ahead(j)' < k + 1 =>
            data'[j] = After(data[i], len[i])'
    <3> SUFFICES ASSUME NEW i \in Slots, NEW j \in Slots, Ahead(j) = Ahead(i) + 1,
                        Ahead(j) < k + 1
                 PROVE  data[j] = After(data[i], len[i])
      BY <1>1, <1>4, <1>9
    <3>1. CASE j = fi
      <4>1. Ahead(i) = k - 1
        BY <1>4, <1>5, <3>1
      <4> QED
        BY <1>2, <1>10, <3>1, <4>1 DEF Chain
    <3>2. CASE j # fi
      <4>1. Ahead(j) # k /\ Ahead(j) \in Nat
        BY <1>n, <1>4, <1>7, <3>2
      <4>2. Ahead(j) < k
        BY <1>n, <4>1
      <4> QED
        BY <1>2, <4>2 DEF Chain
    <3> QED
      BY <3>1, <3>2
  <2>4. \A i \in Slots : Ahead(i)' = (k + 1) - 1 => FillerNext' = After(data[i], len[i])'
    BY <1>0, <1>4, <1>7, <1>9, <1>10
  <2>5. Published' - gets' = (k + 1) - IF Holding' \/ bpc' = "write" THEN 1 ELSE 0
    <3>1. Published = puts /\ Published' = puts + 1
      BY <1>0, <1>1 DEF Published
    <3>2. Published - gets = k - IF Holding \/ bpc = "write" THEN 1 ELSE 0
      BY <1>2 DEF Chain
    <3> QED
      BY <1>0, <1>1, <1>12, <3>1, <3>2
  <2> QED
    BY <1>1, <2>1, <2>2, <2>3, <2>4, <2>5 DEF Chain
<1>14. ASSUME Going PROVE Meets(k + 1)'
  <2>1. Meets(k)
    BY <1>2, <1>14
  <2>2. Behind => k + 1 > 0 /\ owner'[bi] = "faio" /\ BurnerNext = After(data[bi], len[bi])
    BY <1>0, <1>12, <2>1 DEF Meets
  <2>3. ~Behind => data[bi] = BurnerNext
    <3>1. CASE k > 0
      BY <2>1, <3>1 DEF Meets
    <3>2. CASE k = 0
      BY <1>0, <1>4, <1>5, <1>7, <1>10, <2>1, <3>2 DEF Meets
    <3> QED
      BY <1>0, <3>1, <3>2
  <2>4. bpc = "write" => owner'[bi] = "faio"
    BY <1>1, <1>12, <2>1 DEF Meets
  <2> QED
    BY <1>0, <1>1, <1>9, <1>11, <1>12, <2>2, <2>3, <2>4 DEF Meets
<1>15. ASSUME ~Growing PROVE Stays(k + 1)'
  <2>1. Stays(k)
    BY <1>2, <1>15
  <2>2. ASSUME NEW i \in Slots, NEW j \in Slots, Ahead(j) = Ahead(i) + 1, Ahead(j) < k + 1,
               data[j].track = data[i].track, Short(i)
        PROVE  len[j] <= 0
    <3>1. CASE j = fi
      <4>1. Ahead(i) = k - 1
        BY <1>4, <1>5, <2>2, <3>1
      <4>2. EndSeen
        BY <1>10, <2>1, <2>2, <3>1, <4>1 DEF Stays
      <4> QED
        BY <1>1, <3>1, <4>2 DEF EndSeen, Reading
    <3>2. CASE j # fi
      <4>1. Ahead(j) # k /\ Ahead(j) \in Nat
        BY <1>n, <1>4, <1>7, <3>2
      <4>2. Ahead(j) < k
        BY <1>n, <2>2, <4>1
      <4> QED
        BY <2>1, <2>2, <4>2 DEF Stays
    <3> QED
      BY <3>1, <3>2
  <2>3. ASSUME NEW i \in Slots, Ahead(i) = (k + 1) - 1, Short(i)
        PROVE  EndSeen'
    <3>1. i = fi
      BY <1>0, <1>4, <1>7, <2>3
    <3> QED
      BY <1>1, <1>8, <2>3, <3>1 DEF EndSeen, Reading
  <2> QED
    BY <1>1, <1>4, <1>9, <2>2, <2>3 DEF Stays
<1>16. ASSUME ~Growing, Going, BurnerNext.track = bTrack, bChunk # Chunk(tracks[bTrack])
       PROVE  /\ bPos > 0 /\ bChunk \in Nat
              /\ IF Behind THEN Short(bi) ELSE len[bi] <= 0
  <2>1. /\ bPos > 0 /\ bChunk \in Nat
        /\ IF Behind THEN Short(bi) ELSE IF k > 0 THEN len[bi] <= 0 ELSE EndSeen
    BY <1>2, <1>16 DEF AsksLess
  <2>2. CASE ~Behind /\ ~(k > 0)
    <3>1. bi = fi
      BY <1>0, <1>4, <1>7, <2>2
    <3> QED
      BY <1>1, <2>1, <2>2, <3>1 DEF EndSeen, Reading
  <2>3. CASE Behind
    BY <2>1, <2>3
  <2>4. CASE ~Behind /\ k > 0
    BY <2>1, <2>4
  <2> QED
    BY <2>2, <2>3, <2>4
<1>17. ASSUME ~Growing PROVE AsksLess(k + 1)'
  BY <1>0, <1>1, <1>9, <1>11, <1>12, <1>16, <1>17 DEF AsksLess
<1>18. OrderOf(k + 1)'
  BY <1>11, <1>13, <1>14, <1>15, <1>17 DEF OrderOf
<1> QED
  BY <1>0, <1>5, <1>18

\* The forced store hits no slot the burner still has to take.
LEMMA OrderForce ==
    ASSUME IndInv, NEW k \in 0 .. NBuf, OrderOf(k), ForceLast, Going'
    PROVE  OrderOf(k)'
<1>0. /\ TypeOK /\ Ownership /\ OnTrack /\ Last \in Slots
      /\ fi \in Slots /\ bi \in Slots /\ NBuf \in Nat /\ NBuf >= 1 /\ k \in Nat
      /\ owner \in [Slots -> {"writer", "faio", "reader"}]
  BY NBufAssumption DEF IndInv, TypeOK, Last, Slots
<1>1. /\ fpc = "force" /\ fpc' = "exited"
      /\ UNCHANGED <<fd, len, data, puts, gets, fi, fTrack, fPos, fEof>>
      /\ UNCHANGED <<bpc, bi, bTrack, bPos, bChunk, tracks>>
  BY DEF ForceLast, stats, burner, session
<1>2. \A i \in Slots : owner'[i] = IF i = Last THEN "reader" ELSE owner[i]
  BY <1>0 DEF ForceLast
<1>3. /\ Going
      /\ BurnerNext' = BurnerNext
      /\ End' = End
      /\ FillerNext' = End /\ FillerNext = End
      /\ FillerKnows
  BY <1>1 DEF Going, BurnerNext, End, FillerNext, FillerKnows
<1>4. Chain(k) /\ Meets(k) /\ (~Growing => Stays(k) /\ AsksLess(k))
  BY <1>3 DEF OrderOf
<1>5. /\ \A i \in Slots : Ahead(i) \in 0 .. NBuf - 1 /\ Ahead(i)' = Ahead(i)
      /\ Ahead(bi) = 0
  BY <1>0, <1>1, AheadType DEF Ahead
<1>6. ~Behind => k > 0
  BY <1>0, <1>3, <1>4 DEF Meets, Going
<1>7. k > 0
  BY <1>4, <1>6 DEF Meets
<1>8. bi = Last => k = 1 /\ After(data[bi], len[bi]) = End
  <2> SUFFICES ASSUME bi = Last PROVE k = 1 /\ After(data[bi], len[bi]) = End
    OBVIOUS
  <2>1. k = 1
    BY <1>0, <1>1, <1>4, <1>7 DEF Chain, Last
  <2> QED
    BY <1>0, <1>3, <1>4, <1>5, <2>1 DEF Chain
<1>9. bi = Last => ~Behind
  BY <1>3, <1>4, <1>8 DEF Meets, Going
<1>10. \A i \in Slots : owner[i] = "faio" => i = bi
  BY <1>0 DEF Ownership
<1>11. \A i \in Slots : /\ After(data[i], len[i])' = After(data[i], len[i])
                        /\ Wanted(i)' = Wanted(i)
                        /\ Short(i)' <=> Short(i)
  BY <1>1 DEF After, Wanted, Short
<1>12. Behind' <=> Behind
  <2>1. CASE bi = Last
    <3>1. owner'[bi] # "faio"
      BY <1>0, <1>2, <2>1
    <3> QED
      BY <1>1, <1>9, <2>1, <3>1 DEF Behind
  <2>2. CASE bi # Last
    BY <1>0, <1>1, <1>2, <2>2 DEF Behind
  <2> QED
    BY <2>1, <2>2
<1>13. (Holding' \/ bpc' = "write") <=> (Holding \/ bpc = "write")
  <2>1. CASE bi = Last
    <3>1. owner[bi] = "faio" => bpc = "write"
      <4> SUFFICES ASSUME owner[bi] = "faio" PROVE bpc = "write"
        OBVIOUS
      <4>1. bpc \notin {"start", "await", "blank", "getwait", "check", "load", "store", "hand"}
        BY <1>0 DEF Ownership
      <4>2. bpc \notin {"written", "pad", "open", "release"}
        BY <1>9, <2>1 DEF Behind
      <4> QED
        BY <1>0, <1>3, <4>1, <4>2 DEF Going, TypeOK, BurnerPC
    <3>2. owner'[bi] = "reader"
      BY <1>0, <1>2, <2>1
    <3> QED
      BY <1>1, <3>1, <3>2 DEF Holding
  <2>2. CASE bi # Last
    BY <1>0, <1>1, <1>2, <2>2 DEF Holding
  <2> QED
    BY <2>1, <2>2
<1>14. Chain(k)'
  <2>1. \A i \in Slots : Ahead(i)' < k => Sound(i)'
    BY <1>1, <1>2, <1>4, <1>5, <1>11 DEF Chain, Sound
  <2>2. \A i \in Slots : Ahead(i)' >= k => owner'[i] = "writer" \/ (fpc' = "exited" /\ i = Last)
    BY <1>1, <1>2, <1>4, <1>5 DEF Chain
  <2>3. \A i, j \in Slots : Ahead(j)' = Ahead(i)' + 1 /\ Ahead(j)' < k =>
            data'[j] = After(data[i], len[i])'
    BY <1>1, <1>4, <1>5, <1>11 DEF Chain
  <2>4. \A i \in Slots : Ahead(i)' = k - 1 => FillerNext' = After(data[i], len[i])'
    BY <1>3, <1>4, <1>5, <1>11 DEF Chain
  <2>5. Published' - gets' = k - IF Holding' \/ bpc' = "write" THEN 1 ELSE 0
    <3>1. Published' = Published /\ gets' = gets
      BY <1>1 DEF Published
    <3>2. Published - gets = k - IF Holding \/ bpc = "write" THEN 1 ELSE 0
      BY <1>4 DEF Chain
    <3> QED
      BY <1>13, <3>1, <3>2
  <2> QED
    BY <1>1, <2>1, <2>2, <2>3, <2>4, <2>5 DEF Chain
<1>15. Meets(k)'
  <2>1. Behind => owner'[bi] = "faio"
    BY <1>0, <1>2, <1>4, <1>9 DEF Meets
  <2>2. bpc = "write" => owner'[bi] = "faio" \/ After(data[bi], len[bi]) = End
    BY <1>0, <1>1, <1>2, <1>4, <1>8 DEF Meets
  <2>3. Behind => k > 0 /\ BurnerNext = After(data[bi], len[bi])
    BY <1>4 DEF Meets
  <2>4. ~Behind /\ k > 0 => data[bi] = BurnerNext
    BY <1>4 DEF Meets
  <2> QED
    BY <1>0, <1>1, <1>3, <1>7, <1>11, <1>12, <2>1, <2>2, <2>3, <2>4 DEF Meets
<1>16. EndSeen'
  BY <1>1 DEF EndSeen, Reading
<1>17. ASSUME ~Growing PROVE Stays(k)' /\ AsksLess(k)'
  <2>1. Stays(k)'
    BY <1>1, <1>4, <1>5, <1>11, <1>16, <1>17 DEF Stays
  <2>2. AsksLess(k)
    BY <1>4, <1>17
  <2>3. ASSUME BurnerNext.track = bTrack, bChunk # Chunk(tracks[bTrack])
        PROVE  /\ bPos > 0 /\ bChunk \in Nat
               /\ Behind => Short(bi)
               /\ ~Behind => len[bi] <= 0
    BY <1>3, <1>7, <2>2, <2>3 DEF AsksLess
  <2>4. AsksLess(k)'
    BY <1>0, <1>1, <1>3, <1>7, <1>11, <1>12, <2>3 DEF AsksLess
  <2> QED
    BY <2>1, <2>4
<1> QED
  BY <1>14, <1>15, <1>17 DEF OrderOf

\* The steps of the burner that leave the slots alone, but for the users.
LEMMA ChainBurner ==
    ASSUME TypeOK, NEW k \in 0 .. NBuf, OrderOf(k),
           UNCHANGED <<owner, fd, len, data, puts, fi, fTrack, fPos, fEof, bi, tracks>>,
           fpc' \in {fpc, Killed(fpc)},
           Published - gets' = k - IF Holding' \/ bpc' = "write" THEN 1 ELSE 0
    PROVE  Chain(k)' /\ (~Growing => Stays(k)')
<1>1. Chain(k) /\ (~Growing => Stays(k))
  BY DEF OrderOf
<1>2. \/ fpc' = fpc
      \/ fpc' = "killed" /\ fpc \in FillerActive \ {"users", "puts"}
      \/ fpc' = "cut" /\ fpc \in {"users", "puts"}
  BY DEF Killed
<1>3. Published' = Published
  BY <1>2 DEF Published, FillerActive
<1>4. fpc' = fpc => FillerNext' = FillerNext /\ (EndSeen => EndSeen')
  BY DEF FillerNext, After, End, EndSeen
<1>5. FillerKnows' => fpc' = fpc /\ FillerKnows
  BY <1>2 DEF FillerKnows
<1>6. fpc = "exited" => fpc' = "exited"
  BY <1>2 DEF FillerActive
<1>7. fpc' = "force" => bi + k <= NBuf
  BY <1>1, <1>2 DEF Chain
<1>8. Chain(k)'
  BY <1>1, <1>3, <1>4, <1>5, <1>6, <1>7, ChainQuiet
<1>9. fpc' \in Reading => FillerKnows'
  BY DEF FillerKnows, Reading
<1>10. ~Growing => Stays(k)'
  BY <1>1, <1>4, <1>5, <1>9, StaysQuiet
<1> QED
  BY <1>8, <1>10

\* What comes next stays what it is.
LEMMA MeetsBurner ==
    ASSUME TypeOK, NEW k \in 0 .. NBuf, OrderOf(k),
           UNCHANGED <<owner, fd, len, data, puts, fi, fTrack, fPos, fEof, bi, tracks>>,
           fpc' \in {fpc, Killed(fpc)}, BurnerNext' = BurnerNext, bpc' # "write",
           Going' => Going, Going => (Behind' <=> Behind),
           \/ UNCHANGED <<bTrack, bPos, bChunk>>
           \/ bChunk' = Chunk(tracks[bTrack'])
    PROVE  (Going => Meets(k))' /\ (~Growing => AsksLess(k)')
<1>1. \/ fpc' = fpc
      \/ fpc' \in {"killed", "cut"}
  BY DEF Killed
<1>2. fpc' = fpc => FillerNext' = FillerNext /\ (EndSeen => EndSeen')
  BY DEF FillerNext, After, End, EndSeen
<1>3. FillerKnows' => fpc' = fpc /\ FillerKnows
  BY <1>1 DEF FillerKnows
<1>4. EndSeen => EndSeen'
  BY <1>1, <1>2 DEF EndSeen, Reading
<1>5. /\ End' = End
      /\ After(data[bi], len[bi])' = After(data[bi], len[bi])
      /\ Short(bi)' <=> Short(bi)
  BY DEF End, After, Short, Wanted
<1>6. ASSUME Going' PROVE Meets(k)'
  <2>1. Meets(k) /\ Going /\ (Behind' <=> Behind)
    BY <1>6 DEF OrderOf
  <2>2. Behind => k > 0 /\ owner[bi] = "faio" /\ BurnerNext = After(data[bi], len[bi])
    BY <2>1 DEF Meets
  <2>3. ~Behind /\ k > 0 => data[bi] = BurnerNext
    BY <2>1 DEF Meets
  <2>4. ~Behind /\ k = 0 /\ FillerKnows' => FillerNext' = BurnerNext
    BY <1>2, <1>3, <2>1 DEF Meets
  <2> QED
    BY <1>5, <2>1, <2>2, <2>3, <2>4 DEF Meets
<1>7. ASSUME ~Growing PROVE AsksLess(k)'
  <2>1. AsksLess(k)
    BY <1>7 DEF OrderOf
  <2>2. CASE UNCHANGED <<bTrack, bPos, bChunk>>
    <3>1. ASSUME Going', BurnerNext.track = bTrack, bChunk # Chunk(tracks[bTrack])
          PROVE  /\ bPos > 0 /\ bChunk \in Nat
                 /\ IF Behind THEN Short(bi) ELSE IF k > 0 THEN len[bi] <= 0 ELSE EndSeen
      BY <2>1, <3>1 DEF AsksLess
    <3>2. ASSUME Going', BurnerNext.track = bTrack, bChunk # Chunk(tracks[bTrack])
          PROVE  IF Behind' THEN Short(bi) ELSE IF k > 0 THEN len[bi] <= 0 ELSE EndSeen'
      <4>1. Behind' <=> Behind
        BY <3>2
      <4>2. CASE Behind
        BY <3>1, <3>2, <4>1, <4>2
      <4>3. CASE ~Behind
        BY <1>4, <3>1, <3>2, <4>1, <4>3
      <4> QED
        BY <4>2, <4>3
    <3> QED
      BY <1>5, <2>2, <3>1, <3>2 DEF AsksLess
  <2>3. CASE bChunk' = Chunk(tracks[bTrack'])
    <3>1. bChunk' = Chunk(tracks'[bTrack'])
      BY <2>3
    <3> QED
      BY <3>1 DEF AsksLess
  <2> QED
    BY <2>2, <2>3
<1> QED
  BY <1>6, <1>7

\* The steps that end the burning: nothing is asked for any more.
LEMMA OrderEnds ==
    ASSUME IndInv, NEW k \in 0 .. NBuf, OrderOf(k), fpc' # "exited",
           UNCHANGED <<owner, fd, len, data, puts, gets, fi, fTrack, fPos, fEof, bi, tracks>>,
           fpc' \in {fpc, Killed(fpc)}, bpc \notin {"load", "store", "hand"},
           bpc' \in {"abort", "fatal", "finish", "exited"}
    PROVE  OrderOf(k)'
<1>1. TypeOK /\ OnTrack /\ Ownership
  BY DEF IndInv
<1>2. fpc # "exited"
  BY DEF Killed, FillerActive
<1>3. bpc = "write" => owner[bi] = "faio"
  BY <1>1, <1>2, SegmentAtHand DEF Meets
<1>4. (Holding' \/ bpc' = "write") <=> (Holding \/ bpc = "write")
  BY <1>3 DEF Holding
<1>5. Published - gets = k - IF Holding \/ bpc = "write" THEN 1 ELSE 0
  BY DEF OrderOf, Chain
<1>6. Chain(k)' /\ (~Growing => Stays(k)')
  BY <1>1, <1>4, <1>5, ChainBurner
<1>7. ~Going'
  BY DEF Going
<1>8. AsksLess(k)'
  BY <1>7 DEF AsksLess
<1> QED
  BY <1>6, <1>7, <1>8 DEF OrderOf

\* The steps of the burner between two segments and inside one.
LEMMA OrderBurner ==
    ASSUME IndInv, NEW k \in 0 .. NBuf, OrderOf(k), fpc' # "exited" \/ Going',
           \/ Start \/ Await \/ Blank \/ OpenTrack \/ GetReady \/ BurnerTimeout \/ Check
           \/ LoadUsers \/ StoreUsers \/ Continue \/ Pad \/ Exit \/ Interrupt
    PROVE  OrderOf(k)'
<1>1. TypeOK /\ OnTrack /\ Ownership /\ bi \in Slots /\ gets \in Nat /\ bTrack \in Nat
  BY DEF IndInv, TypeOK
<1>2. UNCHANGED <<owner, fd, len, data, puts, fi, fTrack, fPos, fEof, bi, tracks>>
  BY DEF Start, Await, Blank, OpenTrack, GetReady, BurnerTimeout, Check, LoadUsers,
     StoreUsers, Continue, Pad, Exit, Interrupt, slots, stats, filler, session
<1>3. fpc' \in {fpc, Killed(fpc)}
  BY DEF Start, Await, Blank, OpenTrack, GetReady, BurnerTimeout, Check, LoadUsers,
     StoreUsers, Continue, Pad, Exit, Interrupt, filler
<1>4. CASE bpc' \in {"abort", "fatal", "finish", "exited"}
  <2>1. gets' = gets /\ bpc \notin {"load", "store", "hand"}
    BY <1>4 DEF Start, Await, Blank, OpenTrack, GetReady, BurnerTimeout, Check, LoadUsers,
       StoreUsers, Continue, Pad, Exit, Interrupt, stats
  <2>2. ~Going'
    BY <1>4 DEF Going
  <2> QED
    BY <1>2, <1>3, <1>4, <2>1, <2>2, OrderEnds
<1>5. CASE bpc' \notin {"abort", "fatal", "finish", "exited"}
  <2>1. Published - gets = k - IF Holding \/ bpc = "write" THEN 1 ELSE 0
    BY DEF OrderOf, Chain
  <2>2. bpc = "check" => /\ Going /\ ~Behind /\ Meets(k) /\ k > 0 /\ Sound(bi)
                         /\ data[bi] = At(bTrack, bPos)
    BY <1>1, SegmentAtHand
  <2>3. bpc = "check" => fd[bi] = tracks[bTrack].fd
    BY <2>2 DEF Sound, At
  <2>4. /\ bpc \notin {"abort", "fatal", "finish", "exited", "write", "hand"}
        /\ bpc' # "write"
        /\ \/ bpc \notin {"load", "store"} /\ bpc' \notin {"load", "store", "hand"} /\ gets' = gets
           \/ bpc = "check" /\ bpc' = "load" /\ gets' = gets + 1
           \/ bpc \in {"load", "store"} /\ bpc' \in {"store", "hand"} /\ gets' = gets
    BY <1>5, <2>3 DEF Start, Await, Blank, OpenTrack, GetReady, BurnerTimeout, Check,
       LoadUsers, StoreUsers, Continue, Pad, Exit, Interrupt, stats
  <2>5. bpc = "check" => owner[bi] = "reader"
    BY <1>1 DEF Ownership
  <2>6. Published - gets' = k - IF Holding' \/ bpc' = "write" THEN 1 ELSE 0
    <3>1. Published \in Int
      <4>1. puts \in Nat
        BY <1>1 DEF TypeOK
      <4> QED
        BY <4>1 DEF Published
    <3>2. CASE gets' = gets + 1 /\ bpc = "check" /\ bpc' = "load"
      BY <1>1, <1>2, <2>1, <2>5, <3>1, <3>2 DEF Holding
    <3>3. CASE gets' = gets /\ bpc' \notin {"load", "store", "hand"} /\ bpc \notin {"load", "store"}
      BY <1>2, <2>1, <2>4, <3>3 DEF Holding
    <3>4. CASE gets' = gets /\ bpc \in {"load", "store"} /\ bpc' \in {"store", "hand"}
      BY <1>2, <2>1, <2>4, <3>4 DEF Holding
    <3> QED
      BY <2>4, <3>2, <3>3, <3>4
  <2>7. Chain(k)' /\ (~Growing => Stays(k)')
    BY <1>1, <1>2, <1>3, <2>6, ChainBurner
  <2>8. \/ UNCHANGED <<bTrack, bPos, bChunk>>
        \/ /\ bpc = "open" /\ bpc' = "release" /\ bTrack' = bTrack + 1 /\ bPos' = 0
           /\ bChunk' = Chunk(tracks[bTrack'])
    BY <1>5 DEF Start, Await, Blank, OpenTrack, GetReady, BurnerTimeout, Check,
       LoadUsers, StoreUsers, Continue, Pad, Exit, Interrupt
  <2>9. \/ bpc \in {"start", "await", "blank"} /\ bpc' \in {"await", "blank", "open"}
        \/ bpc = "open" /\ bpc' = "release" /\ bTrack' = bTrack + 1 /\ bPos' = 0
        \/ bpc \in {"getwait", "check", "load", "store"} /\ bpc' \in {"check", "load", "store", "hand"}
        \/ /\ bpc = "written"
           /\ bpc' = IF MoreToRead(tracks[bTrack].size, bPos) THEN "release" ELSE "pad"
        \/ bpc = "pad" /\ bpc' = "open"
    BY <1>5, <2>3 DEF Start, Await, Blank, OpenTrack, GetReady, BurnerTimeout, Check,
       LoadUsers, StoreUsers, Continue, Pad, Exit, Interrupt
  <2>10. bpc' # "release" \/ bpc # "open" => UNCHANGED <<bTrack, bPos, bChunk>>
    BY <2>8
  <2>11. BurnerNext' = BurnerNext
    <3>1. CASE bpc = "written"
      BY <1>2, <2>9, <2>10, <3>1 DEF BurnerNext
    <3>2. CASE bpc = "open"
      BY <1>2, <2>9, <3>2 DEF BurnerNext
    <3>3. CASE bpc \notin {"open", "written"}
      BY <1>2, <2>9, <2>10, <3>3 DEF BurnerNext
    <3> QED
      BY <3>1, <3>2, <3>3
  <2>12. Going' <=> Going
    BY <1>2, <1>5, <2>4, <2>11 DEF Going, End
  <2>13. Going => (Behind' <=> Behind)
    <3> SUFFICES ASSUME Going PROVE Behind' <=> Behind
      OBVIOUS
    <3>1. Meets(k)
      BY DEF OrderOf
    <3>2. bpc \in {"written", "pad"} => owner[bi] = "faio"
      BY <3>1 DEF Meets, Behind
    <3>3. bpc \in {"start", "await", "blank"} => owner[bi] # "faio"
      BY <1>1 DEF Ownership
    <3> QED
      BY <1>2, <2>9, <3>2, <3>3 DEF Behind
  <2>14. (Going => Meets(k))' /\ (~Growing => AsksLess(k)')
    BY <1>1, <1>2, <1>3, <2>4, <2>8, <2>11, <2>12, <2>13, MeetsBurner
  <2> QED
    BY <2>7, <2>14 DEF OrderOf
<1> QED
  BY <1>4, <1>5

\* The burner moves on over the segment it has written.
LEMMA OrderWrite ==
    ASSUME IndInv, NEW k \in 0 .. NBuf, OrderOf(k), fpc' # "exited" \/ Going', Write
    PROVE  OrderOf(k)'
<1> DEFINE B == tracks[bTrack]
           pos == bPos + len[bi]
           count == IF B.size >= 0 /\ pos >= B.size THEN len[bi] - (pos - B.size) ELSE len[bi]
<1>1. TypeOK /\ OnTrack /\ Ownership
  BY DEF IndInv
<1>2. /\ bpc = "write"
      /\ UNCHANGED <<owner, fd, len, data, puts, gets, fi, fTrack, fPos, fEof, bi, tracks>>
      /\ UNCHANGED <<fpc, bTrack>>
  BY DEF Write, slots, stats, filler
<1>3. \/ bpc' = "finish"
      \/ len[bi] = 0 /\ bpc' = "pad" /\ UNCHANGED <<bPos, bChunk>>
      \/ /\ len[bi] > 0 /\ bpc' = "written" /\ bPos' = bPos + len[bi]
         /\ bChunk' = IF count < bChunk THEN RoundUp(count, B.sec) ELSE bChunk
  <2>1. \/ bpc' = "finish"
        \/ len[bi] = 0 /\ bpc' = "pad" /\ UNCHANGED <<bPos, bChunk>>
        \/ len[bi] > 0 /\ bpc' = "written" /\ bPos' = bPos + len[bi]
    BY DEF Write
  <2>2. len[bi] \in Int
    BY <1>1 DEF TypeOK
  <2>3. len[bi] > 0 => bChunk' = IF count < bChunk THEN RoundUp(count, B.sec) ELSE bChunk
    BY <2>2 DEF Write
  <2> QED
    BY <2>1, <2>3
<1>4. CASE bpc' = "finish"
  <2>1. ~Going'
    BY <1>4 DEF Going
  <2> QED
    BY <1>2, <1>4, <2>1, OrderEnds
<1>5. CASE bpc' \in {"pad", "written"}
  <2>1. /\ Going /\ ~Behind /\ Meets(k) /\ k > 0 /\ Sound(bi) /\ data[bi] = At(bTrack, bPos)
        /\ BurnerNext = At(bTrack, bPos)
    BY <1>1, <1>2, SegmentAtHand
  <2>2. /\ bTrack \in 1 .. Len(tracks) /\ Len(tracks) \in Nat /\ bPos \in Nat /\ len[bi] \in Int
        /\ bi \in Slots /\ B.size \in Int /\ B.sec \in Nat \ {0} /\ bChunk \in Int
        /\ Chunk(B) \in Int
    <3>1. /\ bTrack \in 0 .. Len(tracks) /\ bTrack >= 1 /\ tracks \in TrackLists /\ bPos \in Nat
          /\ len \in [Slots -> Int] /\ bi \in Slots /\ bChunk \in Int
      BY <1>1, <1>2 DEF TypeOK, OnTrack
    <3>2. bTrack \in 1 .. Len(tracks) /\ Len(tracks) \in Nat
      BY <3>1, TrackTypes
    <3>3. B.size \in Int /\ B.sec \in Nat \ {0} /\ Chunk(B) \in Int
      BY <3>1, <3>2, TrackTypes
    <3> QED
      BY <3>1, <3>2, <3>3
  <2>3. BurnerNext' = After(data[bi], len[bi])
    <3>1. CASE bpc' = "pad"
      <4>1. len[bi] = 0
        BY <1>3, <3>1
      <4> QED
        BY <1>2, <2>1, <2>2, <3>1, <4>1 DEF BurnerNext, After, At, TrackGoesOn
    <3>2. CASE bpc' = "written"
      <4>1. len[bi] > 0 /\ bPos' = bPos + len[bi]
        BY <1>3, <3>2
      <4>2. TrackGoesOn(len[bi], B.size, bPos) <=> MoreToRead(B.size, bPos')
        BY <4>1 DEF TrackGoesOn
      <4> QED
        BY <1>2, <2>1, <3>2, <4>1, <4>2 DEF BurnerNext, After, At
    <3> QED
      BY <1>5, <3>1, <3>2
  <2>4. /\ After(data[bi], len[bi])' = After(data[bi], len[bi])
        /\ End' = End
        /\ Short(bi)' <=> Short(bi)
    BY <1>2 DEF After, End, Short, Wanted
  <2>5. Behind' /\ (Going' => owner[bi] = "faio") /\ (fpc # "exited" => owner[bi] = "faio")
    <3>1. Behind'
      BY <1>5 DEF Behind
    <3>2. owner[bi] = "faio" \/ (fpc = "exited" /\ After(data[bi], len[bi]) = End)
      BY <1>2, <2>1 DEF Meets
    <3>3. Going' => BurnerNext' # End'
      BY DEF Going
    <3> QED
      BY <2>3, <2>4, <3>1, <3>2, <3>3
  <2>6. owner[bi] = "faio"
    BY <1>2, <2>5
  <2>7. Published - gets = k - IF Holding \/ bpc = "write" THEN 1 ELSE 0
    BY DEF OrderOf, Chain
  <2>8. Chain(k)' /\ (~Growing => Stays(k)')
    BY <1>1, <1>2, <2>6, <2>7, ChainBurner DEF Holding
  <2>9. Going' => Meets(k)'
    BY <1>2, <1>5, <2>1, <2>3, <2>4, <2>5 DEF Meets
  <2>10. ASSUME ~Growing, Going', BurnerNext'.track = bTrack, bChunk' # Chunk(B)
         PROVE  bPos' > 0 /\ bChunk' \in Nat /\ Short(bi)
    <3>1. AsksLess(k) /\ At(bTrack, bPos).track = bTrack
      BY <2>10 DEF OrderOf, At
    <3>2. bChunk # Chunk(B) => len[bi] <= 0
      BY <2>1, <3>1 DEF AsksLess
    <3>3. data[bi] \in [track : Nat, pos : Nat] /\ data[bi].track = bTrack /\ data[bi].pos = bPos
      BY <1>1, <2>1, <2>2 DEF TypeOK, At
    <3>4. len[bi] > 0 /\ BurnerNext' = At(bTrack, bPos + len[bi])
      BY <2>2, <2>3, <2>10, <3>3, AfterInside
    <3>5. /\ bpc' = "written" /\ bPos' = bPos + len[bi] /\ bChunk = Chunk(B)
          /\ bChunk' = IF count < bChunk THEN RoundUp(count, B.sec) ELSE bChunk
      BY <1>3, <1>5, <2>2, <3>2, <3>4
    <3>6. MoreToRead(B.size, bPos')
      <4>1. At(bTrack + 1, 0).track # bTrack
        BY <2>2 DEF At
      <4> QED
        BY <1>2, <2>10, <3>5, <4>1 DEF BurnerNext
    <3>7. count = len[bi]
      BY <2>2, <3>5, <3>6 DEF MoreToRead
    <3>8. count < Chunk(B) /\ bChunk' = RoundUp(len[bi], B.sec)
      BY <2>10, <3>5, <3>7
    <3>9. bChunk' \in Nat
      <4>1. len[bi] \in Nat
        BY <2>2, <3>4
      <4> QED
        BY <2>2, <3>8, <4>1, RoundUpNat
    <3>10. len[bi] < BytesToRead(B.size, bPos, Chunk(B))
      BY <2>2, <3>5, <3>6, <3>7, <3>8 DEF BytesToRead, MoreToRead
    <3>11. Short(bi)
      BY <2>2, <3>3, <3>4, <3>10 DEF Short, Wanted
    <3> QED
      BY <2>2, <3>4, <3>5, <3>9, <3>11
  <2>11. ~Growing => AsksLess(k)'
    <3> SUFFICES ASSUME ~Growing PROVE AsksLess(k)'
      OBVIOUS
    <3>1. Behind'
      BY <2>5
    <3> QED
      BY <1>2, <2>4, <2>10, <3>1 DEF AsksLess
  <2> QED
    BY <2>8, <2>9, <2>11 DEF OrderOf
<1> QED
  BY <1>3, <1>4, <1>5

\* The burner hands its slot over.
LEMMA OrderHand ==
    ASSUME IndInv, NEW k \in 0 .. NBuf, OrderOf(k), Hand
    PROVE  OrderOf(k)'
<1>1. /\ TypeOK /\ OnTrack /\ Ownership /\ UserCounts /\ bi \in Slots
      /\ owner \in [Slots -> {"writer", "faio", "reader"}]
      /\ \A i \in Slots : Ahead(i) \in 0 .. NBuf - 1
      /\ Ahead(bi) = 0
  BY AheadType DEF IndInv, TypeOK
<1>2. /\ bpc = "hand" /\ bpc' = "write"
      /\ UNCHANGED <<fd, len, data, puts, gets, fpc, fi, fTrack, fPos, fEof, bi, tracks>>
      /\ UNCHANGED <<bTrack, bPos, bChunk>>
  BY DEF Hand, stats, filler, session
<1>3. \A i \in Slots : owner'[i] = IF i = bi THEN "faio" ELSE owner[i]
  BY <1>1 DEF Hand, UserCounts, NoUsers
<1>4. /\ Going /\ ~Behind /\ Meets(k) /\ k > 0 /\ data[bi] = BurnerNext
      /\ Chain(k) /\ (~Growing => Stays(k) /\ AsksLess(k))
  BY <1>1, <1>2, SegmentAtHand DEF OrderOf
<1>5. /\ \A i \in Slots : /\ Ahead(i)' = Ahead(i)
                          /\ Wanted(i)' = Wanted(i)
                          /\ After(data[i], len[i])' = After(data[i], len[i])
                          /\ Short(i)' <=> Short(i)
      /\ FillerNext' = FillerNext
      /\ FillerKnows' <=> FillerKnows
      /\ Published' = Published
      /\ EndSeen' <=> EndSeen
  BY <1>2 DEF Ahead, Wanted, After, Short, FillerNext, End, FillerKnows, Published, EndSeen
<1>6. /\ BurnerNext' = BurnerNext
      /\ Going' <=> Going
      /\ ~Behind'
  BY <1>2 DEF BurnerNext, Going, End, Behind
<1>7. Chain(k)'
  <2>1. \A i \in Slots : Ahead(i) < k => Sound(i)'
    BY <1>2, <1>3, <1>4, <1>5 DEF Chain, Sound
  <2>2. \A i \in Slots : Ahead(i) >= k => owner'[i] = "writer" \/ (fpc' = "exited" /\ i = Last)
    BY <1>1, <1>2, <1>3, <1>4, NBufAssumption DEF Chain
  <2>3. \A i, j \in Slots : Ahead(j) = Ahead(i) + 1 /\ Ahead(j) < k => data'[j] = After(data[i], len[i])'
    BY <1>2, <1>4, <1>5 DEF Chain
  <2>4. FillerKnows' => \A i \in Slots : Ahead(i) = k - 1 => FillerNext' = After(data[i], len[i])'
    BY <1>4, <1>5 DEF Chain
  <2>5. fpc' = "force" => bi' + k <= NBuf
    BY <1>2, <1>4 DEF Chain
  <2>6. Published' - gets' = k - IF Holding' \/ bpc' = "write" THEN 1 ELSE 0
    <3>1. Published - gets = k - IF Holding \/ bpc = "write" THEN 1 ELSE 0
      BY <1>4 DEF Chain
    <3>2. Holding
      BY <1>2 DEF Holding
    <3> QED
      BY <1>2, <1>5, <3>1, <3>2
  <2> QED
    BY <1>5, <2>1, <2>2, <2>3, <2>4, <2>5, <2>6 DEF Chain
<1>8. Meets(k)'
  BY <1>1, <1>2, <1>3, <1>4, <1>6 DEF Meets
<1>9. ASSUME ~Growing PROVE Stays(k)' /\ AsksLess(k)'
  <2>1. Stays(k) /\ AsksLess(k)
    BY <1>4, <1>9
  <2>2. Stays(k)'
    BY <1>2, <1>5, <2>1 DEF Stays
  <2>3. AsksLess(k)'
    BY <1>2, <1>4, <1>6, <2>1, NBufAssumption DEF AsksLess
  <2> QED
    BY <2>2, <2>3
<1> QED
  BY <1>7, <1>8, <1>9 DEF OrderOf

\* Giving the slot back makes the chain one shorter.
LEMMA OrderRelease ==
    ASSUME IndInv, NEW k \in 0 .. NBuf, OrderOf(k), Release
    PROVE  \E n \in 0 .. NBuf : OrderOf(n)'
<1>n. NBuf \in Nat /\ NBuf >= 1 /\ k \in Nat
  BY NBufAssumption
<1>1. /\ TypeOK /\ OnTrack /\ Ownership /\ bi \in Slots
      /\ owner \in [Slots -> {"writer", "faio", "reader"}]
      /\ len \in [Slots -> Int] /\ data \in [Slots -> [track : Nat, pos : Nat]]
      /\ \A i \in Slots : Ahead(i) \in 0 .. NBuf - 1
      /\ Ahead(bi) = 0
  BY AheadType DEF IndInv, TypeOK
<1>2. /\ bpc = "release" /\ bpc' = "getwait"
      /\ UNCHANGED <<fd, len, data, puts, gets, fpc, fi, fTrack, fPos, fEof, tracks>>
      /\ UNCHANGED <<bTrack, bPos, bChunk>>
  BY DEF Release, stats, filler, session
<1>3. /\ Going /\ BurnerNext = At(bTrack, bPos)
      /\ Chain(k) /\ Meets(k) /\ (~Growing => Stays(k) /\ AsksLess(k))
  BY <1>1, <1>2, GoingOnTrack DEF OrderOf
<1>4. BurnerNext' = BurnerNext /\ End' = End /\ ~Behind'
  BY <1>2 DEF BurnerNext, End, Behind
<1>5. Published - gets = k - IF Holding \/ bpc = "write" THEN 1 ELSE 0
  BY <1>3 DEF Chain
<1>6. CASE owner[bi] # "faio"
  <2>1. UNCHANGED <<owner, bi>>
    BY <1>6 DEF Release
  <2>2. (Holding' \/ bpc' = "write") <=> (Holding \/ bpc = "write")
    BY <1>2, <2>1 DEF Holding
  <2>3. Chain(k)' /\ (~Growing => Stays(k)')
    BY <1>1, <1>2, <1>5, <2>1, <2>2, ChainBurner
  <2>4. ~Behind
    BY <1>2, <1>6 DEF Behind
  <2>5. (Going => Meets(k))' /\ (~Growing => AsksLess(k)')
    BY <1>1, <1>2, <1>3, <1>4, <2>1, <2>4, MeetsBurner
  <2>6. OrderOf(k)'
    BY <2>3, <2>5 DEF OrderOf
  <2> QED
    BY <2>6
<1>7. CASE owner[bi] = "faio"
  <2>1. bi' = NextSlot(bi) /\ \A i \in Slots : owner'[i] = IF i = bi THEN "writer" ELSE owner[i]
    BY <1>1, <1>7 DEF Release
  <2>2. \A i \in Slots : Ahead(i)' = IF i = bi THEN NBuf - 1 ELSE Ahead(i) - 1
    BY <1>1, <2>1, AheadRelease, AheadType
  <2>3. Behind /\ k > 0 /\ BurnerNext = After(data[bi], len[bi])
    BY <1>2, <1>3, <1>7 DEF Behind, Meets
  <2>4. bi' \in Slots
    BY <1>1, <2>1, NextSlotType
  <2>5. k - 1 \in 0 .. NBuf
    BY <1>n, <2>3
  <2>6. /\ \A i \in Slots : /\ Wanted(i)' = Wanted(i)
                            /\ After(data[i], len[i])' = After(data[i], len[i])
                            /\ Short(i)' <=> Short(i)
        /\ FillerNext' = FillerNext
        /\ FillerKnows' <=> FillerKnows
        /\ Published' = Published
        /\ EndSeen' <=> EndSeen
    BY <1>2 DEF Wanted, After, Short, FillerNext, End, FillerKnows, Published, EndSeen
  <2>7. \A i \in Slots : i # bi => Ahead(i) \in 1 .. NBuf - 1
    BY <1>n, <1>1, AheadType
  <2>8. \A i \in Slots : Ahead(i)' < k - 1 => i # bi /\ Ahead(i) < k
    BY <1>n, <1>1, <2>2
  <2>9. Chain(k - 1)'
    <3>1. \A i \in Slots : Ahead(i)' < k - 1 => Sound(i)'
      <4> SUFFICES ASSUME NEW i \in Slots, Ahead(i)' < k - 1 PROVE Sound(i)'
        OBVIOUS
      <4>1. i # bi /\ Sound(i)
        BY <1>3, <2>8 DEF Chain
      <4> QED
        BY <1>2, <2>1, <2>6, <4>1 DEF Sound
    <3>2. \A i \in Slots : Ahead(i)' >= k - 1 => owner'[i] = "writer" \/ (fpc' = "exited" /\ i = Last)
      <4> SUFFICES ASSUME NEW i \in Slots, Ahead(i)' >= k - 1, i # bi
                   PROVE  owner[i] = "writer" \/ (fpc = "exited" /\ i = Last)
        BY <1>2, <2>1
      <4>1. Ahead(i) >= k
        BY <1>n, <1>1, <2>2
      <4> QED
        BY <1>3, <4>1 DEF Chain
    <3>3. \A i, j \in Slots : Ahead(j)' = Ahead(i)' + 1 /\ Ahead(j)' < k - 1 =>
              data'[j] = After(data[i], len[i])'
      <4> SUFFICES ASSUME NEW i \in Slots, NEW j \in Slots, Ahead(j)' = Ahead(i)' + 1,
                          Ahead(j)' < k - 1
                   PROVE  data[j] = After(data[i], len[i])
        BY <1>2, <2>6
      <4>1. j # bi /\ i # bi
        BY <1>n, <1>1, <2>2, <2>8
      <4>2. Ahead(j) = Ahead(i) + 1 /\ Ahead(j) < k
        BY <1>n, <1>1, <2>2, <4>1
      <4> QED
        BY <1>3, <4>2 DEF Chain
    <3>4. FillerKnows' => \A i \in Slots : Ahead(i)' = (k - 1) - 1 => FillerNext' = After(data[i], len[i])'
      <4> SUFFICES ASSUME FillerKnows', NEW i \in Slots, Ahead(i)' = (k - 1) - 1
                   PROVE  FillerNext = After(data[i], len[i])
        BY <2>6
      <4>1. Ahead(i) = k - 1
        BY <1>n, <1>1, <2>2
      <4> QED
        BY <1>3, <2>6, <4>1 DEF Chain
    <3>5. fpc' = "force" => bi' + (k - 1) <= NBuf
      <4> SUFFICES ASSUME fpc = "force" PROVE bi' + (k - 1) <= NBuf
        BY <1>2
      <4>1. bi + k <= NBuf /\ FillerKnows /\ FillerNext = End
        BY <1>3 DEF Chain, FillerKnows, FillerNext
      <4>2. k # 1
        BY <1>1, <1>3, <2>3, <4>1 DEF Chain, Going
      <4>3. bi' = bi + 1
        <5>1. k >= 2 /\ bi \in Nat
          BY <1>n, <1>1, <2>3, <4>2 DEF Slots
        <5>2. bi + k <= NBuf
          BY <4>1
        <5>3. bi + 1 < NBuf /\ k \in Nat
          BY <1>n, <5>1, <5>2
        <5> QED
          BY <1>n, <2>1, <5>1, <5>3 DEF NextSlot
      <4>4. bi + k <= NBuf /\ bi \in Nat
        BY <1>1, <4>1 DEF Slots
      <4> QED
        BY <1>n, <4>3, <4>4
    <3>6. Published' - gets' = (k - 1) - IF Holding' \/ bpc' = "write" THEN 1 ELSE 0
      <4>1. owner'[bi'] # "faio"
        <5>1. CASE bi' = bi
          BY <1>1, <2>1, <5>1
        <5>2. CASE bi' # bi
          BY <1>1, <2>1, <2>4, <5>2 DEF Ownership
        <5> QED
          BY <5>1, <5>2
      <4>2. ~Holding' /\ Holding
        BY <1>2, <1>7, <4>1 DEF Holding
      <4> QED
        BY <1>n, <1>2, <1>5, <2>6, <4>2
    <3> QED
      BY <2>6, <3>1, <3>2, <3>3, <3>4, <3>5, <3>6 DEF Chain
  <2>10. k - 1 > 0 => Ahead(bi') = 1 /\ Ahead(bi') < k /\ bi' # bi
    BY <1>n, <1>1, <2>1, <2>4 DEF Ahead, NextSlot, Slots
  <2>11. Meets(k - 1)'
    <3>1. k - 1 > 0 => data[bi'] = BurnerNext
      BY <1>1, <1>3, <2>3, <2>4, <2>10 DEF Chain
    <3>2. k - 1 = 0 /\ FillerKnows => FillerNext = BurnerNext
      BY <1>1, <1>3, <2>3 DEF Chain
    <3> QED
      BY <1>2, <1>4, <2>6, <3>1, <3>2 DEF Meets
  <2>12. ASSUME ~Growing PROVE Stays(k - 1)'
    <3>1. Stays(k)
      BY <1>3, <2>12
    <3>2. ASSUME NEW i \in Slots, NEW j \in Slots, Ahead(j)' = Ahead(i)' + 1,
                 Ahead(j)' < k - 1, data[j].track = data[i].track, Short(i)
          PROVE  len[j] <= 0
      <4>1. j # bi /\ i # bi
        BY <1>n, <1>1, <2>2, <2>8, <3>2
      <4>2. Ahead(j) = Ahead(i) + 1 /\ Ahead(j) < k
        BY <1>n, <1>1, <2>2, <3>2, <4>1
      <4> QED
        BY <3>1, <3>2, <4>2 DEF Stays
    <3>3. ASSUME NEW i \in Slots, Ahead(i)' = (k - 1) - 1, FillerNext.track = data[i].track, Short(i)
          PROVE  EndSeen
      <4>1. Ahead(i) = k - 1
        BY <1>n, <1>1, <2>2, <3>3
      <4> QED
        BY <3>1, <3>3, <4>1 DEF Stays
    <3> QED
      BY <1>2, <2>6, <3>2, <3>3 DEF Stays
  <2>13. ASSUME ~Growing PROVE AsksLess(k - 1)'
    <3>1. Stays(k) /\ AsksLess(k)
      BY <1>3, <2>13
    <3>2. ASSUME BurnerNext.track = bTrack, bChunk # Chunk(tracks[bTrack])
          PROVE  /\ bPos > 0 /\ bChunk \in Nat
                 /\ IF k - 1 > 0 THEN len[bi'] <= 0 ELSE EndSeen
      <4>1. bPos > 0 /\ bChunk \in Nat /\ Short(bi)
        BY <1>3, <2>3, <3>1, <3>2 DEF AsksLess
      <4>2. After(data[bi], len[bi]).pos > 0 /\ After(data[bi], len[bi]).track = bTrack
        BY <1>3, <2>3, <4>1 DEF At
      <4>3. data[bi].track = bTrack
        BY <1>1, <4>2 DEF After, At
      <4>4. CASE k - 1 > 0
        <5>1. data[bi'] = After(data[bi], len[bi])
          BY <1>1, <1>3, <2>4, <2>10, <4>4 DEF Chain
        <5> QED
          BY <1>1, <2>4, <2>10, <3>1, <4>1, <4>2, <4>3, <4>4, <5>1 DEF Stays
      <4>5. CASE ~(k - 1 > 0)
        <5>1. k = 1
          BY <1>n, <2>3, <4>5
        <5>2. CASE fpc \notin Reading
          BY <4>1, <4>5, <5>2 DEF EndSeen
        <5>3. CASE fpc \in Reading
          <6>1. FillerNext = After(data[bi], len[bi])
            BY <1>1, <1>3, <5>1, <5>3 DEF Chain, FillerKnows, Reading
          <6>2. EndSeen
            BY <1>1, <3>1, <4>1, <4>2, <4>3, <5>1, <6>1 DEF Stays
          <6> QED
            BY <4>1, <4>5, <6>2
        <5> QED
          BY <5>2, <5>3
      <4> QED
        BY <4>4, <4>5
    <3> QED
      BY <1>2, <1>4, <2>6, <3>2 DEF AsksLess
  <2>14. OrderOf(k - 1)'
    BY <2>9, <2>11, <2>12, <2>13 DEF OrderOf
  <2> QED
    BY <2>5, <2>14
<1> QED
  BY <1>6, <1>7

------------------------------------------------------------------------------
(* The theorems                                                            *)

LEMMA InitInv == Init => IndInv
<1> SUFFICES ASSUME Init PROVE IndInv
  OBVIOUS
<1>1. TypeOK
  BY InitType
<1>2. OnTrack /\ Ownership /\ UserCounts
  BY <1>1 DEF Init, OnTrack, Ownership, UserCounts, TypeOK
<1>a. /\ NBuf \in Nat /\ NBuf >= 1 /\ 0 \in 0 .. NBuf
      /\ \A i \in Slots : Ahead(i) \in 0 .. NBuf - 1 /\ owner[i] = "writer"
      /\ bi \in Slots /\ owner[bi] = "writer"
  BY <1>1, NBufAssumption, AheadType DEF Init, TypeOK
<1>3. RingOf(0)
  <2>1. Ahead(fi) = 0 /\ NBuf # 0
    BY NBufAssumption DEF Ahead, Init
  <2> QED
    BY <1>a, <2>1 DEF RingOf, Init
<1>4. Ring
  BY <1>3, NBufAssumption DEF Ring
<1>5. Filling
  BY DEF Init, Filling
<1>6. ~Holding /\ ~Behind
  BY <1>a DEF Init, Holding, Behind
<1>7. Begun
  BY <1>6 DEF Init, Begun
<1>8. Chain(0)
  <2>1. \A i \in Slots : ~(Ahead(i) < 0) /\ ~(Ahead(i) = 0 - 1)
    BY <1>a
  <2>a. puts = 0 /\ gets = 0 /\ fpc = "wait" /\ bpc = "start"
    BY DEF Init
  <2>b. Published = 0 /\ ~(Holding \/ bpc = "write")
    BY <1>6, <2>a DEF Published
  <2>2. Published - gets = 0 - IF Holding \/ bpc = "write" THEN 1 ELSE 0
    BY <2>a, <2>b
  <2>3. fpc # "force"
    BY DEF Init
  <2> QED
    BY <1>a, <2>1, <2>2, <2>3 DEF Chain
<1>9. Meets(0)
  BY <1>6 DEF Init, Meets, FillerNext, BurnerNext
<1>10. Stays(0)
  <2>1. \A i \in Slots : ~(Ahead(i) < 0) /\ ~(Ahead(i) = 0 - 1)
    BY <1>a
  <2> QED
    BY <2>1 DEF Stays
<1>11. AsksLess(0)
  BY DEF Init, AsksLess, BurnerNext, At
<1>12. Order
  <2>1. OrderOf(0)
    BY <1>8, <1>9, <1>10, <1>11 DEF OrderOf
  <2> QED
    BY <1>a, <2>1 DEF Order
<1> QED
  BY <1>1, <1>2, <1>4, <1>5, <1>7, <1>12 DEF IndInv

\* The segments stay in order, whatever process moves.
LEMMA StepOrder == IndInv /\ [Next]_vars => Order'
<1> SUFFICES ASSUME IndInv, [Next]_vars, fpc' # "exited" \/ Going'
             PROVE  \E k \in 0 .. NBuf : OrderOf(k)'
  BY DEF Order
<1>1. TypeOK /\ OnTrack /\ Order
  BY DEF IndInv
<1>2. fpc # "exited" \/ Going
  <2>1. CASE fpc' # "exited"
    <3>1. fpc # "exited"
      BY <2>1 DEF Next, FillerStep, BurnerStep, Gone, Claim, Fill, Publish, SetUsers, CountPut,
         AllRead, TestGets, ForceLast, FillerTimeout, FillerDies, Start, Await, Blank,
         OpenTrack, Release, GetReady, BurnerTimeout, Check, LoadUsers, StoreUsers, Hand,
         Write, Continue, Pad, Exit, Interrupt, Killed, FillerActive, vars, filler
    <3> QED
      BY <3>1
  <2>2. CASE Going' /\ (FillerStep \/ FillerTimeout \/ FillerDies \/ UNCHANGED vars)
    <3>1. UNCHANGED <<bpc, bTrack, bPos, tracks>>
      BY <2>2 DEF FillerStep, Claim, Fill, Publish, SetUsers, CountPut, AllRead, TestGets,
         ForceLast, FillerTimeout, FillerDies, vars, burner, session
    <3> QED
      BY <2>2, <3>1 DEF Going, BurnerNext, End
  <2>3. CASE bpc \in {"release", "getwait", "check", "load", "store", "hand", "write"}
    BY <1>1, <2>3, GoingOnTrack
  <2>4. CASE Going' /\ (Start \/ Await \/ Blank \/ OpenTrack \/ Continue \/ Pad)
    <3>1. tracks' = tracks
      BY <2>4 DEF Start, Await, Blank, OpenTrack, Continue, Pad, session
    <3>2. bpc' \notin {"abort", "fatal", "finish", "exited"}
      BY <2>4 DEF Going
    <3>3. \/ bpc \in {"start", "await", "blank"} /\ bpc' \in {"await", "blank", "open"} /\ bTrack' = bTrack
          \/ bpc = "open" /\ bpc' = "release" /\ bTrack' = bTrack + 1 /\ bPos' = 0
          \/ /\ bpc = "written" /\ bTrack' = bTrack /\ bPos' = bPos
             /\ bpc' = IF MoreToRead(tracks[bTrack].size, bPos) THEN "release" ELSE "pad"
          \/ bpc = "pad" /\ bpc' = "open" /\ bTrack' = bTrack
      BY <2>4, <3>2 DEF Start, Await, Blank, OpenTrack, Continue, Pad
    <3>4. BurnerNext' = BurnerNext
      BY <3>1, <3>3 DEF BurnerNext
    <3> QED
      BY <2>4, <3>1, <3>3, <3>4 DEF Going, End
  <2>5. CASE Going' /\ (Exit \/ Interrupt \/ BurnerTimeout)
    BY <2>5 DEF Going, Exit, Interrupt, BurnerTimeout
  <2> QED
    BY <2>1, <2>2, <2>3, <2>4, <2>5
       DEF Next, FillerStep, BurnerStep, Gone, Release, GetReady, Check, LoadUsers, StoreUsers,
           Hand, Write
<1>3. PICK k \in 0 .. NBuf : OrderOf(k)
  BY <1>1, <1>2 DEF Order
<1>4. CASE Claim \/ Fill \/ SetUsers \/ CountPut \/ AllRead \/ TestGets
  <2>1. OrderOf(k)'
    BY <1>3, <1>4, OrderFiller
  <2> QED
    BY <2>1
<1>5. CASE Publish
  <2>1. k + 1 \in 0 .. NBuf /\ OrderOf(k + 1)'
    BY <1>3, <1>5, OrderPublish
  <2> QED
    BY <2>1
<1>6. CASE ForceLast
  <2>1. OrderOf(k)'
    BY <1>3, <1>6, OrderForce DEF ForceLast
  <2> QED
    BY <2>1
<1>7. CASE FillerTimeout \/ FillerDies
  <2>1. /\ UNCHANGED <<owner, tracks, bpc, bi, bTrack, bPos, bChunk, gets, puts, fd, len, data>>
        /\ fpc \in FillerActive
        /\ fpc' = IF fpc \in {"users", "puts"} THEN "cut" ELSE fpc'
        /\ fpc \notin {"users", "puts"} => fpc' \in {"killed", "timedout"}
    BY <1>7 DEF FillerTimeout, FillerDies, Killed, FillerActive, slots, stats, burner, session
  <2>2. ~FillerKnows' /\ Published' = Published
    BY <2>1 DEF FillerKnows, Published, FillerActive
  <2>3. fpc # "exited" /\ fpc' # "force" /\ fpc' \notin Reading
    BY <2>1 DEF FillerActive, Reading
  <2>4. OrderOf(k)'
    BY <1>1, <1>3, <2>1, <2>2, <2>3, OrderFillerQuiet
  <2> QED
    BY <2>4
<1>8. CASE \/ Start \/ Await \/ Blank \/ OpenTrack \/ GetReady \/ BurnerTimeout \/ Check
           \/ LoadUsers \/ StoreUsers \/ Continue \/ Pad \/ Exit \/ Interrupt
  <2>1. OrderOf(k)'
    BY <1>3, <1>8, OrderBurner
  <2> QED
    BY <2>1
<1>9. CASE Write
  <2>1. OrderOf(k)'
    BY <1>3, <1>9, OrderWrite
  <2> QED
    BY <2>1
<1>10. CASE Hand
  <2>1. OrderOf(k)'
    BY <1>3, <1>10, OrderHand
  <2> QED
    BY <2>1
<1>11. CASE Release
  BY <1>3, <1>11, OrderRelease
<1>12. CASE UNCHANGED vars
  <2>1. OrderOf(k)'
    BY <1>3, <1>12, SMTT(20) DEF vars, slots, stats, filler, burner, session, OrderOf, Chain, Sound,
       Ahead, Wanted, After, FillerKnows, FillerNext, End, Published, Holding, Going, Meets,
       Behind, BurnerNext, Stays, Short, EndSeen, AsksLess
  <2> QED
    BY <2>1
<1> QED
  BY <1>4, <1>5, <1>6, <1>7, <1>8, <1>9, <1>10, <1>11, <1>12
     DEF Next, FillerStep, BurnerStep, Gone

\* The medium is not touched before the FIFO is full, and no slot is left
\* before one was taken.
LEMMA StepBegun == IndInv /\ [Next]_vars => Begun'
<1> SUFFICES ASSUME IndInv, [Next]_vars PROVE Begun'
  OBVIOUS
<1>1. /\ TypeOK /\ OnTrack /\ Ownership /\ Order /\ Begun
      /\ owner \in [Slots -> {"writer", "faio", "reader"}] /\ bi \in Slots
      /\ gets \in Nat /\ done \in Nat
  BY DEF IndInv, TypeOK
<1>a. CASE Claim \/ Fill \/ SetUsers \/ CountPut \/ FillerTimeout \/ FillerDies
  <2>1. UNCHANGED <<owner, gets, done, bpc, bi, bTrack, modified, flags>>
    BY <1>a DEF Claim, Fill, SetUsers, CountPut, FillerTimeout, FillerDies, slots, stats, burner, session
  <2>2. fpc' \notin {"force?", "force", "exited"}
    BY <1>a DEF Claim, Fill, SetUsers, CountPut, FillerTimeout, FillerDies, Killed, FillerActive
  <2> QED
    BY <1>1, <2>1, <2>2 DEF Begun, Holding, BlankFirst
<1>b. CASE Publish \/ AllRead \/ TestGets \/ ForceLast
  <2>1. UNCHANGED <<gets, bpc, bi, bTrack, modified, flags>>
    BY <1>b DEF Publish, AllRead, TestGets, ForceLast, stats, burner, session
  <2>2. \/ fpc' = "users" /\ done' = done
        \/ done' = done + 1
        \/ fpc \in {"force?", "force"} /\ done' = done
    BY <1>b DEF Publish, AllRead, TestGets, ForceLast, stats
  <2>3. owner'[bi] = owner[bi] \/ owner'[bi] = "reader"
    BY <1>1, <1>b DEF Publish, AllRead, TestGets, ForceLast, slots
  <2> QED
    BY <1>1, <2>1, <2>2, <2>3 DEF Begun, Holding, BlankFirst
<1>c. CASE Start \/ Await \/ Blank \/ OpenTrack \/ GetReady \/ BurnerTimeout
  <2>1. UNCHANGED <<owner, gets, done, bi, flags>>
    BY <1>c DEF Start, Await, Blank, OpenTrack, GetReady, BurnerTimeout, slots, stats, session
  <2>2. bpc \notin {"load", "store", "hand"} /\ bpc' \notin {"load", "store", "hand", "fatal"}
    BY <1>c DEF Start, Await, Blank, OpenTrack, GetReady, BurnerTimeout
  <2>3. fpc' \in {"force?", "force", "exited"} => fpc' = fpc
    BY <1>c DEF Start, Await, Blank, OpenTrack, GetReady, BurnerTimeout, Killed, filler
  <2>4. bpc' \in {"start", "await", "blank"} => bpc \in {"start", "await"} /\ bTrack' = bTrack
    BY <1>c DEF Start, Await, Blank, OpenTrack, GetReady, BurnerTimeout
  <2>5. bpc' \in {"start", "await", "abort"} =>
           \/ modified' = BlankFirst
           \/ bpc = "await" /\ modified' = modified
    BY <1>c DEF Start, Await, Blank, OpenTrack, GetReady, BurnerTimeout, session
  <2>6. Holding' <=> Holding
    BY <2>1, <2>2 DEF Holding
  <2>7. modified' => BlankFirst' \/ bpc' \notin {"start", "await", "abort"}
    BY <1>1, <2>1, <2>5 DEF Begun, BlankFirst
  <2> QED
    BY <1>1, <2>1, <2>2, <2>3, <2>4, <2>6, <2>7 DEF Begun
<1>d. CASE Release \/ LoadUsers \/ StoreUsers \/ Write \/ Continue \/ Pad \/ Exit \/ Interrupt
  <2>1. UNCHANGED <<gets, done>>
    BY <1>d DEF Release, LoadUsers, StoreUsers, Write, Continue, Pad, Exit, Interrupt, stats
  <2>2. bpc' \notin {"start", "await", "blank", "abort", "fatal"}
    BY <1>d DEF Release, LoadUsers, StoreUsers, Write, Continue, Pad, Exit, Interrupt
  <2>3. fpc' \in {"force?", "force", "exited"} => fpc' = fpc
    BY <1>d DEF Release, LoadUsers, StoreUsers, Write, Continue, Pad, Exit, Interrupt, Killed, filler
  <2>4. gets = 0 => bi' = bi /\ ~Holding'
    <3> SUFFICES ASSUME gets = 0 PROVE bi' = bi /\ ~Holding'
      OBVIOUS
    <3>1. ~Holding
      BY <1>1 DEF Begun
    <3>2. owner' = owner /\ bi' = bi
      BY <1>d, <3>1 DEF Release, LoadUsers, StoreUsers, Write, Continue, Pad, Exit, Interrupt, slots, Holding
    <3>3. bpc' \in {"load", "store", "hand"} => bpc \in {"load", "store"}
      BY <1>d DEF Release, LoadUsers, StoreUsers, Write, Continue, Pad, Exit, Interrupt
    <3> QED
      BY <3>1, <3>2, <3>3 DEF Holding
  <2> QED
    BY <1>1, <2>1, <2>2, <2>3, <2>4 DEF Begun
<1>e. CASE Check
  <2>1. UNCHANGED <<owner, done, bi, fpc, fi>> /\ bpc = "check"
    BY <1>e DEF Check, slots, filler
  <2>2. \/ gets' = gets + 1 /\ bpc' = "load"
        \/ gets' = gets /\ bpc' \in {"release", "fatal"}
    <3>1. CASE fd[bi] # tracks[bTrack].fd
      BY <1>e, <3>1 DEF Check
    <3>2. CASE fd[bi] = tracks[bTrack].fd /\ BurnerWants < len[bi]
      BY <1>e, <3>2 DEF Check
    <3>3. CASE fd[bi] = tracks[bTrack].fd /\ ~(BurnerWants < len[bi])
      <4>1. bpc' = "load" /\ gets' = gets + 1
        BY <1>e, <3>3, Zenon DEF Check
      <4> QED
        BY <4>1
    <3> QED
      BY <3>1, <3>2, <3>3
  <2>3. Going
    BY <1>1, <2>1, GoingOnTrack
  <2>4. PICK k \in 0 .. NBuf : OrderOf(k)
    BY <1>1, <2>3 DEF Order
  <2>5. /\ ~Behind /\ Meets(k) /\ k > 0 /\ Sound(bi) /\ data[bi] = At(bTrack, bPos)
        /\ BurnerNext = At(bTrack, bPos)
    BY <1>1, <2>1, <2>4, SegmentAtHand
  <2>6. fd[bi] = tracks[bTrack].fd /\ data[bi].track = bTrack /\ data[bi].pos = bPos
    BY <2>5 DEF Sound, At
  <2>7. ~Growing => ~(BurnerWants < len[bi])
    <3> SUFFICES ASSUME ~Growing PROVE ~(BurnerWants < len[bi])
      OBVIOUS
    <3>1. AsksLess(k)
      BY <2>4 DEF OrderOf
    <3> DEFINE B == tracks[bTrack]
    <3>2. /\ B.size \in Int /\ bPos \in Nat /\ bChunk \in Int /\ Chunk(B) \in Int
          /\ len[bi] \in Int
      <4>1. bTrack \in 1 .. Len(tracks)
        BY <2>5, <2>6 DEF Sound
      <4> QED
        BY <1>1, <4>1, TrackTypes DEF TypeOK
    <3>3. len[bi] = ReadError \/ len[bi] \in 0 .. BytesToRead(B.size, bPos, Chunk(B))
      BY <2>5, <2>6 DEF Sound, Wanted
    <3>4. bPos = 0 \/ MoreToRead(B.size, bPos)
      BY <2>5, <2>6 DEF Sound
    <3>5. CASE bChunk = Chunk(B)
      <4>1. Chunk(B) >= 0
        BY <2>1, <3>2, ChunkNat, <2>5, <2>6, <1>1 DEF TypeOK, Sound
      <4> QED
        BY <3>2, <3>3, <3>4, <3>5, <4>1 DEF BurnerWants, BytesToRead, MoreToRead, ReadError
    <3>6. CASE bChunk # Chunk(B)
      <4>1. len[bi] <= 0 /\ bChunk \in Nat
        BY <2>3, <2>5, <3>1, <3>6 DEF AsksLess, At
      <4>2. BurnerWants >= 0
        BY <3>2, <3>4, <4>1 DEF BurnerWants, BytesToRead, MoreToRead
      <4>3. BurnerWants \in Int
        BY <3>2 DEF BurnerWants, BytesToRead
      <4> QED
        BY <3>2, <4>1, <4>2, <4>3
    <3> QED
      BY <3>5, <3>6
  <2>8. bpc' = "fatal" => Growing
    BY <1>e, <2>6, <2>7, FlagAssumption DEF Check
  <2>9. gets' = 0 => bi' = 0 /\ ~Holding'
    BY <1>1, <2>1, <2>2 DEF Begun, Holding
  <2> QED
    BY <1>1, <2>1, <2>2, <2>8, <2>9 DEF Begun
<1>f. CASE Hand
  <2>1. bpc = "hand" /\ bpc' = "write" /\ UNCHANGED <<gets, done, bi, fpc>>
    BY <1>f DEF Hand, stats, filler
  <2>2. gets # 0
    BY <1>1, <2>1 DEF Begun, Holding
  <2> QED
    BY <1>1, <2>1, <2>2 DEF Begun
<1>g. CASE UNCHANGED vars
  BY <1>1, <1>g DEF vars, slots, stats, filler, burner, session, Begun, Holding, BlankFirst
<1> QED
  BY <1>a, <1>b, <1>c, <1>d, <1>e, <1>f, <1>g DEF Next, FillerStep, BurnerStep, Gone

\* IndInv holds in every state, for every ring size.
THEOREM Invariance == Spec => []IndInv
<1>1. Init => IndInv
  BY InitInv
<1>2. IndInv /\ [Next]_vars => IndInv'
  BY StepType, StepOnTrack, StepOwnership, StepUsers, StepRing, StepFilling, StepOrder,
     StepBegun DEF IndInv
<1> QED
  BY <1>1, <1>2, PTL DEF Spec

\* The segment the burner gets is the one at its own position of its own track.
LEMMA SegmentIsAt == IndInv => InStep
<1> SUFFICES ASSUME IndInv, InUse PROVE data[bi] = At(bTrack, bPos)
  BY DEF InStep
<1>1. TypeOK /\ OnTrack /\ Ownership /\ Order
  BY DEF IndInv
<1>2. bpc \in {"check", "load", "store", "hand", "write"}
  BY DEF InUse
<1>3. Going
  BY <1>1, <1>2, GoingOnTrack
<1>4. PICK k \in 0 .. NBuf : OrderOf(k)
  BY <1>1, <1>3 DEF Order
<1> QED
  BY <1>1, <1>2, <1>4, SegmentAtHand

THEOREM SegmentsInOrder == Spec => []InStep
BY SegmentIsAt, Invariance, PTL

\* The slot of the segment a track ended with is not given back before the
\* track is closed, so the filler does not touch it.
Kept == bpc \in {"written", "pad"} => owner[bi] # "writer"

LEMMA StepWhole ==
    IndInv /\ Kept /\ TrackWhole /\ [Next]_vars => Kept' /\ TrackWhole'
<1> SUFFICES ASSUME IndInv, Kept, TrackWhole, [Next]_vars
             PROVE  Kept' /\ TrackWhole'
  OBVIOUS
<1>0. TypeOK /\ Ownership /\ InStep
  BY SegmentIsAt DEF IndInv
<1> USE DEF Kept, TrackWhole
<1>1. CASE Claim
  BY <1>0, <1>1 DEF TypeOK, Claim, Free, stats, burner, session
<1>2. CASE Fill
  <2>1. owner[fi] = "writer"
    BY <1>0, <1>2 DEF Fill, Ownership
  <2> QED
    BY <1>0, <1>2, <2>1 DEF TypeOK, Fill, stats, burner, session
<1>3. CASE Publish
  BY <1>0, <1>3 DEF TypeOK, Publish, stats, burner, session
<1>4. CASE SetUsers \/ AllRead \/ TestGets \/ FillerDies \/ FillerTimeout
  BY <1>4 DEF SetUsers, AllRead, TestGets, FillerDies, FillerTimeout,
              slots, stats, burner, session
<1>5. CASE CountPut
  BY <1>5 DEF CountPut, slots, stats, burner, session
<1>6. CASE ForceLast
  BY <1>0, <1>6 DEF TypeOK, ForceLast, stats, burner, session
<1>7. CASE Write
  <2>1. CASE len[bi] = 0 /\ bpc' = "pad" /\ UNCHANGED <<bPos, bChunk, modified>>
    BY <1>0, <1>7, <2>1 DEF Write, Ownership, InStep, InUse, slots
  <2>2. CASE bpc' \in {"written", "finish"}
    BY <1>0, <1>7, <2>2 DEF Write, Ownership, slots
  <2> QED
    BY <1>7, <2>1, <2>2 DEF Write
<1>8. CASE Continue
  BY <1>8 DEF Continue, slots, session
<1>9. CASE Pad \/ Exit \/ Interrupt \/ BurnerTimeout \/ Gone \/ UNCHANGED vars
  BY <1>9 DEF Pad, Exit, Interrupt, BurnerTimeout, Gone, vars, slots, burner, session
<1>10. CASE Start \/ Await \/ Blank \/ OpenTrack \/ Release \/ GetReady
  BY <1>10 DEF Start, Await, Blank, OpenTrack, Release, GetReady
<1>11. CASE Check \/ LoadUsers \/ StoreUsers \/ Hand
  BY <1>11 DEF Check, LoadUsers, StoreUsers, Hand
<1> QED
  BY <1>1, <1>2, <1>3, <1>4, <1>5, <1>6, <1>7, <1>8, <1>9, <1>10, <1>11
     DEF Next, FillerStep, BurnerStep

\* A track is closed at its whole size or where its input ended.
LEMMA TracksWhole == Spec => []TrackWhole
<1>1. Init => Kept /\ TrackWhole
  BY DEF Init, Kept, TrackWhole
<1> QED
  BY <1>1, StepWhole, Invariance, PTL DEF Spec

\* fatal() is out of reach, no segment is missing when the filler is through,
\* no track is closed before its size or the end of its input, the percentage is
\* one, and giving up for want of input leaves the medium untouched.
THEOREM AllDelivered == Spec => []Delivered
<1>1. IndInv /\ TrackWhole => Delivered
  <2> SUFFICES ASSUME IndInv, TrackWhole PROVE Delivered
    OBVIOUS
  <2>1. /\ TypeOK /\ OnTrack /\ Ownership /\ Order /\ Begun /\ bi \in Slots
        /\ Ahead(bi) = 0
    BY AheadType DEF IndInv, TypeOK
  <2>2. NeverFatal /\ PrematureEOFSafe
    BY <2>1 DEF Begun, NeverFatal, PrematureEOFSafe
  <2>3. NothingMissing
    <3> SUFFICES ASSUME fpc = "exited", bpc = "getwait" PROVE owner[bi] = "reader"
      BY DEF NothingMissing
    <3>1. Going /\ ~Behind
      BY <2>1, GoingOnTrack DEF Behind
    <3>2. PICK k \in 0 .. NBuf : OrderOf(k)
      BY <2>1, <3>1 DEF Order
    <3>3. k # 0
      BY <3>1, <3>2 DEF OrderOf, Meets, FillerKnows, FillerNext, Going
    <3>4. Sound(bi)
      BY <2>1, <3>2, <3>3, NBufAssumption DEF OrderOf, Chain
    <3> QED
      BY <2>1, <3>4 DEF Sound, Ownership, TypeOK
  <2>4. PercentInRange
    <3> SUFFICES ASSUME done = 0, bpc = "written" PROVE FifoPercent \in 0 .. 100
      BY <2>1 DEF PercentInRange, FifoPercent, TypeOK
    <3>1. fpc # "exited"
      BY <2>1 DEF Begun
    <3>2. PICK k \in 0 .. NBuf : OrderOf(k)
      BY <2>1, <3>1 DEF Order
    <3>3. Holding => k > 0
      BY <2>1, <3>1, <3>2, NBufAssumption DEF OrderOf, Chain, Holding
    <3>4. Published - gets >= 0 /\ puts \in Nat /\ gets \in Nat
      BY <2>1, <3>2, <3>3, NBufAssumption DEF OrderOf, Chain, TypeOK
    <3>5. puts + 1 - gets \in Nat
      BY <3>4 DEF Published
    <3>6. (100 * (puts + 1 - gets)) \div NBuf \in Nat
      BY <3>5, NBufAssumption, QuotientNat
    <3> QED
      BY <3>6 DEF FifoPercent
  <2> QED
    BY <2>2, <2>3, <2>4 DEF Delivered
<1> QED
  BY <1>1, Invariance, TracksWhole, PTL

\* Every variable keeps its type.
THEOREM TypeCorrect == Spec => []TypeOK
<1>1. IndInv => TypeOK
  BY DEF IndInv
<1> QED
  BY <1>1, Invariance, PTL

\* The filler never reads into the slot the burner looks at.
THEOREM NoTornReads == Spec => []NoTornRead
<1>1. IndInv => NoTornRead
  BY DEF IndInv, TypeOK, Ownership, NoTornRead, InUse
<1> QED
  BY <1>1, Invariance, PTL

\* Every slot the burner takes goes back to the filler.
THEOREM SlotsComeBack == Spec => []AlwaysHandedBack
<1>1. IndInv => AlwaysHandedBack
  BY DEF IndInv, UserCounts, AlwaysHandedBack
<1> QED
  BY <1>1, Invariance, PTL

\* Filler and burner never wait for each other.
THEOREM NoDeadlock == Spec => []NoMutualWait
<1>1. IndInv => NoMutualWait
  <2> SUFFICES ASSUME IndInv, fpc = "wait", owner[fi] # "writer",
                      bpc = "getwait", owner[bi] # "reader"
               PROVE  FALSE
    BY DEF NoMutualWait
  <2>1. TypeOK /\ Ownership /\ Ring
    BY DEF IndInv
  <2>2. PICK k \in 0 .. NBuf : RingOf(k)
    BY <2>1 DEF Ring, Reading
  <2>3. fi \in Slots /\ bi \in Slots /\ Ahead(bi) = 0 /\ Ahead(fi) \in 0 .. NBuf - 1
    BY <2>1, AheadType DEF TypeOK
  <2>4. k = NBuf
    BY <2>2, <2>3, NBufAssumption DEF RingOf
  <2>5. owner[bi] # "writer"
    BY <2>2, <2>3, <2>4, NBufAssumption DEF RingOf
  <2>6. owner[bi] = "faio"
    BY <2>1, <2>3, <2>5 DEF TypeOK
  <2> QED
    BY <2>1, <2>3, <2>6 DEF Ownership
<1> QED
  BY <1>1, Invariance, PTL
------------------------------------------------------------------------------
(* The ring implements the bounded queue                                   *)

\* A sequence with one element more, and one with one element less.
LEMMA AppendView ==
    ASSUME NEW S, NEW n \in Nat, NEW f \in [1 .. n -> S], NEW e \in S,
           NEW g \in [1 .. n + 1 -> S], \A j \in 1 .. n : g[j] = f[j], g[n + 1] = e
    PROVE  g = Append(f, e) /\ g # <<>> /\ Len(g) = n + 1 /\ Len(f) = n
<1>1. f \in Seq(S) /\ Len(f) = n
  BY SeqDef
<1>2. n + 1 \in Nat
  OBVIOUS
<1>3. g \in Seq(S) /\ Len(g) = n + 1
  BY <1>2, SeqDef
<1>4. /\ Append(f, e) \in Seq(S) /\ Append(f, e) # <<>>
      /\ Len(Append(f, e)) = n + 1
      /\ \A j \in 1 .. n : Append(f, e)[j] = f[j]
      /\ Append(f, e)[n + 1] = e
  BY <1>1, AppendProperties
<1>5. \A j \in 1 .. Len(g) : g[j] = Append(f, e)[j]
  BY <1>3, <1>4
<1>6. g = Append(f, e)
  BY <1>3, <1>4, <1>5, SeqEqual
<1> QED
  BY <1>1, <1>3, <1>4, <1>6

LEMMA TailView ==
    ASSUME NEW S, NEW n \in Nat \ {0}, NEW f \in [1 .. n -> S],
           NEW g \in [1 .. n - 1 -> S], \A j \in 1 .. n - 1 : g[j] = f[j + 1]
    PROVE  g = Tail(f) /\ Head(f) = f[1] /\ f # <<>>
<1>1. f \in Seq(S) /\ Len(f) = n
  BY SeqDef
<1>2. f # <<>>
  BY <1>1
<1>3. n - 1 \in Nat
  OBVIOUS
<1>4. g \in Seq(S) /\ Len(g) = n - 1
  BY <1>3, SeqDef
<1>5. /\ Tail(f) \in Seq(S) /\ Len(Tail(f)) = n - 1
      /\ \A j \in 1 .. n - 1 : Tail(f)[j] = f[j + 1]
      /\ Head(f) = f[1]
  BY <1>1, <1>2, HeadTailProperties
<1>6. g = Tail(f)
  BY <1>4, <1>5, SeqEqual
<1> QED
  BY <1>2, <1>5, <1>6

\* The slot n places further round the ring.
Onward(b, n) == IF b + n < NBuf THEN b + n ELSE (b + n) - NBuf

LEMMA OnwardMod ==
    ASSUME NEW b \in Slots, NEW n \in 0 .. NBuf - 1
    PROVE  (b + n) % NBuf = Onward(b, n) /\ Onward(b, n) \in Slots
<1>1. NBuf \in Nat \ {0} /\ b \in Nat /\ n \in Nat /\ b < NBuf /\ n < NBuf
  BY NBufAssumption DEF Slots
<1> DEFINE x == b + n
<1>2. x \in Nat /\ x < NBuf + NBuf
  BY <1>1
<1>3. CASE x < NBuf
  <2>1. x % NBuf = x
    <3> HIDE DEF x
    <3> QED
      BY <1>1, <1>2, <1>3
  <2> QED
    BY <1>1, <1>3, <2>1 DEF Onward, Slots
<1>4. CASE ~(x < NBuf)
  <2>1. x % NBuf = x - NBuf
    <3> HIDE DEF x
    <3> QED
      BY <1>1, <1>2, <1>4
  <2> QED
    BY <1>1, <1>4, <2>1 DEF Onward, Slots
<1> QED
  BY <1>3, <1>4

LEMMA OnwardAhead ==
    ASSUME bi \in Slots, NEW n \in 0 .. NBuf - 1
    PROVE  Ahead(Onward(bi, n)) = n
BY NBufAssumption DEF Onward, Ahead, Slots

\* The burner's own step round the ring.
LEMMA OnwardNext ==
    ASSUME NEW b \in Slots, NEW n \in 0 .. NBuf - 2
    PROVE  Onward(NextSlot(b), n) = Onward(b, n + 1)
BY NBufAssumption DEF Onward, NextSlot, Slots

Segments == [at : [track : Nat, pos : Nat], len : Int]

LEMMA SegmentType ==
    ASSUME TypeOK, NEW i \in Slots
    PROVE  TheSegment(i) \in Segments
BY DEF TypeOK, TheSegment, Segments

\* The slot the j-th waiting buffer is in.
Place(j) == (bi + j - (IF Holding THEN 0 ELSE 1)) % NBuf
Held == IF Holding THEN <<TheSegment(bi)>> ELSE <<>>

LEMMA PlaceInChain ==
    ASSUME TypeOK, NEW k \in 0 .. NBuf, Chain(k), NEW j \in 1 .. Published - gets,
           NEW n \in Int, n = j - (IF Holding THEN 0 ELSE 1)
    PROVE  /\ n \in 0 .. NBuf - 1 /\ n < k
           /\ Place(j) = Onward(bi, n) /\ Place(j) \in Slots /\ Ahead(Place(j)) = n
<1>1. NBuf \in Nat /\ k \in Nat /\ k <= NBuf /\ bi \in Slots
  BY NBufAssumption DEF TypeOK
<1>2. Published - gets = k - IF Holding \/ bpc = "write" THEN 1 ELSE 0
  BY DEF Chain
<1>3. n \in 0 .. NBuf - 1 /\ n < k
  <2>1. CASE Holding
    <3>1. Published - gets = k - 1 /\ n = j
      BY <1>2, <2>1
    <3> QED
      BY <1>1, <3>1
  <2>2. CASE ~Holding
    <3>1. Published - gets \in {k, k - 1} /\ n = j - 1
      BY <1>2, <2>2
    <3> QED
      BY <1>1, <3>1
  <2> QED
    BY <2>1, <2>2
<1>4. Place(j) = (bi + n) % NBuf
  BY DEF Place
<1> QED
  BY <1>1, <1>3, <1>4, OnwardMod, OnwardAhead

\* What is not published does not show.
LEMMA QueueQuiet ==
    ASSUME UNCHANGED <<bi, data, len>>, Published' = Published, gets' = gets,
           Holding' <=> Holding
    PROVE  Waiting' = Waiting /\ Held' = Held
BY DEF Waiting, Held, TheSegment

LEMMA QueueFilling ==
    ASSUME IndInv, NEW k \in 0 .. NBuf, Chain(k), Claim \/ Fill
    PROVE  Waiting' = Waiting /\ Held' = Held
<1>1. TypeOK /\ fi \in Slots /\ bi \in Slots /\ Ownership
  BY DEF IndInv, TypeOK
<1>2. /\ owner[fi] = "writer"
      /\ UNCHANGED <<owner, bi, bpc, puts, gets>> /\ Published' = Published
  BY <1>1 DEF Claim, Fill, Free, Ownership, stats, burner, Published
<1>3. \A i \in Slots \ {fi} : data'[i] = data[i] /\ len'[i] = len[i]
  BY <1>1 DEF Claim, Fill, TypeOK
<1>4. Holding' <=> Holding
  BY <1>2 DEF Holding
<1>5. Holding => bi # fi
  BY <1>1, <1>2 DEF Holding, Ownership
<1>6. \A j \in 1 .. Published - gets : Place(j) \in Slots \ {fi}
  <2> SUFFICES ASSUME NEW j \in 1 .. Published - gets PROVE Place(j) \in Slots \ {fi}
    OBVIOUS
  <2> DEFINE n == j - (IF Holding THEN 0 ELSE 1)
  <2>1. n \in Int
    OBVIOUS
  <2>2. Place(j) \in Slots /\ Ahead(Place(j)) < k
    BY <1>1, <2>1, PlaceInChain
  <2> QED
    BY <1>2, <2>2 DEF Chain, Sound
<1>7. Waiting' = [j \in 1 .. Published - gets |-> TheSegment(Place(j))']
  BY <1>2, <1>4 DEF Waiting, Place
<1>8. \A j \in 1 .. Published - gets : TheSegment(Place(j))' = TheSegment(Place(j))
  <2> SUFFICES ASSUME NEW j \in 1 .. Published - gets
               PROVE  TheSegment(Place(j))' = TheSegment(Place(j))
    OBVIOUS
  <2>1. Place(j)' = Place(j)
    BY <1>2, <1>4 DEF Place
  <2> QED
    BY <1>3, <1>6, <2>1 DEF TheSegment
<1>9. Waiting = [j \in 1 .. Published - gets |-> TheSegment(Place(j))]
  BY DEF Waiting, Place
<1> QED
  BY <1>1, <1>2, <1>3, <1>4, <1>5, <1>7, <1>8, <1>9 DEF Held, TheSegment

\* Waiting, as a sequence of as many segments as are published and not taken.
LEMMA WaitingType ==
    ASSUME TypeOK, Ownership, NEW k \in 0 .. NBuf, Chain(k), k > 0 \/ fpc # "exited"
    PROVE  /\ Published - gets \in Nat
           /\ Waiting \in [1 .. Published - gets -> Segments]
           /\ \A j \in 1 .. Published - gets : Waiting[j] = TheSegment(Place(j))
<1>1. Waiting = [j \in 1 .. Published - gets |-> TheSegment(Place(j))]
  BY DEF Waiting, Place
<1>2. \A j \in 1 .. Published - gets : TheSegment(Place(j)) \in Segments
  <2> SUFFICES ASSUME NEW j \in 1 .. Published - gets
               PROVE  TheSegment(Place(j)) \in Segments
    OBVIOUS
  <2> DEFINE n == j - (IF Holding THEN 0 ELSE 1)
  <2>1. n \in Int
    OBVIOUS
  <2>2. Place(j) \in Slots
    BY <2>1, PlaceInChain
  <2> QED
    BY <2>2, SegmentType
<1>3. Published - gets \in Nat
  <2>1. Published - gets = k - IF Holding \/ bpc = "write" THEN 1 ELSE 0
    BY DEF Chain
  <2>2. k > 0 \/ ~(Holding \/ bpc = "write")
    <3> SUFFICES ASSUME k = 0, fpc # "exited" PROVE ~(Holding \/ bpc = "write")
      BY NBufAssumption
    <3>1. bi \in Slots /\ Ahead(bi) >= 0
      BY AheadType DEF TypeOK
    <3>2. owner[bi] = "writer"
      BY <3>1 DEF Chain
    <3> QED
      BY <3>2 DEF Ownership, Holding
  <2> QED
    BY <2>1, <2>2, NBufAssumption
<1> QED
  BY <1>1, <1>2, <1>3

\* A slot is published behind the ones that wait.
LEMMA QueuePut ==
    ASSUME IndInv, NEW k \in 0 .. NBuf, OrderOf(k), Publish
    PROVE  Queue!Put
<1> DEFINE N == Published - gets
<1>1. /\ TypeOK /\ Ownership /\ Ring /\ OnTrack /\ fi \in Slots /\ bi \in Slots
      /\ NBuf \in Nat /\ NBuf >= 1 /\ k \in Nat /\ puts \in Nat /\ gets \in Nat
      /\ owner \in [Slots -> {"writer", "faio", "reader"}] /\ Chain(k)
  BY NBufAssumption DEF IndInv, TypeOK, OrderOf
<1>2. /\ fpc = "publish" /\ fpc' = "users" /\ UNCHANGED <<len, data, puts, gets, bpc, bi>>
      /\ owner' = [owner EXCEPT ![fi] = "reader"]
  BY DEF Publish, stats, burner
<1>3. RingOf(k) /\ owner[fi] = "writer"
  BY <1>1, <1>2, SameRing DEF Reading, Ownership
<1>4. Ahead(fi) = k /\ k < NBuf
  BY <1>1, <1>2, <1>3, AheadType DEF RingOf
<1>5. Holding' <=> Holding
  BY <1>1, <1>2, <1>3 DEF Holding
<1>6. Published' = Published + 1 /\ Published \in Nat
  BY <1>1, <1>2 DEF Published
<1>7. bpc = "write" => Holding
  <2> SUFFICES ASSUME bpc = "write" PROVE Holding
    OBVIOUS
  <2>1. Meets(k)
    BY <1>1, SegmentAtHand
  <2> QED
    BY <1>2, <2>1 DEF Meets, Holding
<1>8. N = k - (IF Holding THEN 1 ELSE 0)
  BY <1>1, <1>7 DEF Chain
<1>9. N \in Nat /\ Waiting \in [1 .. N -> Segments]
      /\ \A j \in 1 .. N : Waiting[j] = TheSegment(Place(j))
  BY <1>1, <1>2, WaitingType
<1>10. Place(N + 1) = fi
  <2>1. (N + 1) - (IF Holding THEN 0 ELSE 1) = k
    BY <1>1, <1>8
  <2>2. Place(N + 1) = (bi + k) % NBuf
    BY <2>1 DEF Place
  <2>3. k \in 0 .. NBuf - 1
    BY <1>1, <1>4
  <2>4. Place(N + 1) \in Slots /\ Ahead(Place(N + 1)) = k
    BY <1>1, <2>2, <2>3, OnwardMod, OnwardAhead
  <2> QED
    BY <1>1, <1>4, <2>4, AheadInjective
<1>11. Waiting' = [j \in 1 .. N + 1 |-> IF j = N + 1 THEN TheSegment(fi) ELSE Waiting[j]]
  <2>1. Published' - gets' = N + 1
    BY <1>1, <1>2, <1>6
  <2>2. \A j : Place(j)' = Place(j)
    BY <1>2, <1>5 DEF Place
  <2>3. \A i : TheSegment(i)' = TheSegment(i)
    BY <1>2 DEF TheSegment
  <2>4. Waiting' = [j \in 1 .. Published' - gets' |-> TheSegment(Place(j))']
    BY <1>2, <1>5 DEF Waiting, Place
  <2>5. \A j : TheSegment(Place(j))' = TheSegment(Place(j))
    BY <1>2, <2>2 DEF TheSegment
  <2>6. Waiting' = [j \in 1 .. N + 1 |-> TheSegment(Place(j))]
    BY <2>1, <2>4, <2>5
  <2>7. \A j \in 1 .. N + 1 : j # N + 1 => j \in 1 .. N
    BY <1>9
  <2>8. \A j \in 1 .. N + 1 : TheSegment(Place(j))
                            = IF j = N + 1 THEN TheSegment(fi) ELSE Waiting[j]
    BY <1>9, <1>10, <2>7
  <2> QED
    BY <2>6, <2>8
<1>12. TheSegment(fi) \in Segments
  BY <1>1, SegmentType
<1>13. /\ Waiting' = Append(Waiting, TheSegment(fi)) /\ Waiting' # <<>>
       /\ Waiting'[Len(Waiting')] = TheSegment(fi) /\ Len(Waiting) = N
  <2> HIDE DEF N
  <2> DEFINE W == Waiting'
  <2>1. /\ W \in [1 .. N + 1 -> Segments]
        /\ \A j \in 1 .. N : W[j] = Waiting[j]
        /\ W[N + 1] = TheSegment(fi)
    BY <1>9, <1>11, <1>12
  <2> HIDE DEF W
  <2>2. W = Append(Waiting, TheSegment(fi)) /\ W # <<>> /\ Len(W) = N + 1 /\ Len(Waiting) = N
    BY <1>9, <1>12, <2>1, AppendView
  <2>3. W[Len(W)] = TheSegment(fi)
    BY <2>1, <2>2
  <2> QED
    BY <2>2, <2>3 DEF W
<1>14. Held' = Held
  BY <1>2, <1>5 DEF Held, TheSegment
<1>15. Len(Waiting) + Len(Held) < NBuf
  <2>1. CASE Holding
    <3>1. Len(Held) = 1
      BY <2>1 DEF Held
    <3> QED
      BY <1>1, <1>4, <1>8, <1>13, <2>1, <3>1
  <2>2. CASE ~Holding
    <3>1. Len(Held) = 0
      BY <2>2 DEF Held
    <3> QED
      BY <1>1, <1>4, <1>8, <1>13, <2>2, <3>1
  <2> QED
    BY <2>1, <2>2
<1> QED
  BY <1>12, <1>13, <1>14, <1>15 DEF Queue!Put, Held, Segments

\* The burner takes the oldest one.
LEMMA QueueTake ==
    ASSUME IndInv, NEW k \in 0 .. NBuf, OrderOf(k), Check
    PROVE  Queue!Take \/ (Waiting' = Waiting /\ Held' = Held)
<1> DEFINE N == Published - gets
<1>1. /\ TypeOK /\ Ownership /\ OnTrack /\ bi \in Slots
      /\ NBuf \in Nat /\ NBuf >= 1 /\ k \in Nat /\ puts \in Nat /\ gets \in Nat /\ Chain(k)
  BY NBufAssumption DEF IndInv, TypeOK, OrderOf
<1>2. bpc = "check" /\ UNCHANGED <<owner, len, data, puts, fpc, bi>>
  BY DEF Check, slots, filler
<1>3. ~Holding
  BY <1>1, <1>2 DEF Holding, Ownership
<1>4. \/ gets' = gets + 1 /\ bpc' = "load"
      \/ gets' = gets /\ bpc' \in {"release", "fatal"}
  <2>1. CASE fd[bi] # tracks[bTrack].fd
    BY <2>1 DEF Check
  <2>2. CASE fd[bi] = tracks[bTrack].fd /\ BurnerWants < len[bi]
    BY <2>2 DEF Check
  <2>3. CASE fd[bi] = tracks[bTrack].fd /\ ~(BurnerWants < len[bi])
    <3>1. bpc' = "load" /\ gets' = gets + 1
      BY <2>3, Zenon DEF Check
    <3> QED
      BY <3>1
  <2> QED
    BY <2>1, <2>2, <2>3
<1>5. Published' = Published /\ Published \in Nat
  BY <1>1, <1>2 DEF Published
<1>6. CASE gets' = gets /\ bpc' \in {"release", "fatal"}
  <2>1. Holding' <=> Holding
    BY <1>2, <1>3, <1>6 DEF Holding
  <2> QED
    BY <1>2, <1>5, <1>6, <2>1, QueueQuiet
<1>7. CASE gets' = gets + 1 /\ bpc' = "load"
  <2>1. Holding'
    BY <1>7 DEF Holding
  <2>2. k > 0
    BY <1>1, <1>2, SegmentAtHand
  <2>3. N = k /\ N \in Nat \ {0}
    BY <1>1, <1>2, <1>3, <2>2 DEF Chain
  <2>4. /\ Waiting \in [1 .. N -> Segments]
        /\ \A j \in 1 .. N : Waiting[j] = TheSegment(Place(j))
    BY <1>1, <2>2, WaitingType
  <2>6. Place(1) = bi
    <3>1. 1 - (IF Holding THEN 0 ELSE 1) = 0
      BY <1>3
    <3>2. Place(1) = (bi + 0) % NBuf
      BY <3>1 DEF Place
    <3>3. (bi + 0) % NBuf = Onward(bi, 0)
      BY <1>1, OnwardMod
    <3> QED
      BY <1>1, <3>2, <3>3 DEF Onward, Slots
  <2>8. Waiting' = [j \in 1 .. N - 1 |-> Waiting[j + 1]]
    <3>1. Published' - gets' = N - 1
      BY <1>1, <1>5, <1>7
    <3>2. \A j \in 1 .. N - 1 : (bi + j) % NBuf = Place(j + 1)
      <4> SUFFICES ASSUME NEW j \in 1 .. N - 1 PROVE (bi + j) % NBuf = Place(j + 1)
        OBVIOUS
      <4>1. (j + 1) - (IF Holding THEN 0 ELSE 1) = j
        BY <1>3, <2>3
      <4> QED
        BY <4>1 DEF Place
    <3>3. \A j \in 1 .. N - 1 : bi + j - 0 = bi + j
      BY <1>1, <2>3 DEF Slots
    <3>4. Waiting' = [j \in 1 .. N - 1 |-> TheSegment((bi + j - 0) % NBuf)]
      BY <1>2, <2>1, <3>1 DEF Waiting, TheSegment
    <3>5. \A j \in 1 .. N - 1 : TheSegment((bi + j - 0) % NBuf) = TheSegment(Place(j + 1))
      BY <3>2, <3>3
    <3>6. \A j \in 1 .. N - 1 : TheSegment(Place(j + 1)) = Waiting[j + 1]
      BY <2>3, <2>4
    <3> QED
      BY <3>4, <3>5, <3>6
  <2>5. Waiting' = Tail(Waiting) /\ Head(Waiting) = Waiting[1] /\ Waiting # <<>>
    <3> HIDE DEF N
    <3> DEFINE W == Waiting'
    <3>1. W \in [1 .. N - 1 -> Segments] /\ \A j \in 1 .. N - 1 : W[j] = Waiting[j + 1]
      BY <2>3, <2>4, <2>8
    <3> HIDE DEF W
    <3>2. W = Tail(Waiting) /\ Head(Waiting) = Waiting[1] /\ Waiting # <<>>
      BY <2>3, <2>4, <3>1, TailView
    <3> QED
      BY <3>2 DEF W
  <2>7. Head(Waiting) = TheSegment(bi)
    <3>1. 1 \in 1 .. N
      BY <2>3
    <3> QED
      BY <2>4, <2>5, <2>6, <3>1
  <2>9. Held = <<>> /\ Held' = <<TheSegment(bi)>>
    BY <1>2, <1>3, <2>1 DEF Held, TheSegment
  <2> QED
    BY <2>5, <2>7, <2>9 DEF Queue!Take, Held
<1> QED
  BY <1>4, <1>6, <1>7

\* The burner gives the slot up and goes on to the next.
LEMMA QueueDrop ==
    ASSUME IndInv, NEW k \in 0 .. NBuf, OrderOf(k), Release, owner[bi] = "faio"
    PROVE  Queue!Drop
<1> DEFINE N == Published - gets
<1>1. /\ TypeOK /\ Ownership /\ OnTrack /\ bi \in Slots
      /\ NBuf \in Nat /\ NBuf >= 1 /\ k \in Nat /\ k <= NBuf /\ Chain(k)
      /\ owner \in [Slots -> {"writer", "faio", "reader"}]
  BY NBufAssumption DEF IndInv, TypeOK, OrderOf
<1>2. /\ bpc = "release" /\ bpc' = "getwait" /\ UNCHANGED <<len, data, puts, gets, fpc>>
      /\ owner' = [owner EXCEPT ![bi] = "writer"] /\ bi' = NextSlot(bi)
  BY DEF Release, stats, filler
<1>3. Holding /\ ~Holding'
  <2>1. owner'[bi'] # "faio"
    <3>1. bi' \in Slots
      BY <1>1, <1>2, NextSlotType
    <3>2. CASE bi' = bi
      BY <1>1, <1>2, <3>2
    <3>3. CASE bi' # bi
      BY <1>1, <1>2, <3>1, <3>3 DEF Ownership
    <3> QED
      BY <3>2, <3>3
  <2> QED
    BY <1>2, <2>1 DEF Holding
<1>4. k > 0
  <2>1. Going /\ Behind
    BY <1>1, <1>2, GoingOnTrack DEF Behind
  <2> QED
    BY <2>1 DEF OrderOf, Meets
<1>5. Published' = Published /\ N = k - 1
  BY <1>1, <1>2, <1>3 DEF Published, Chain
<1>6. \A j \in 1 .. N : (bi' + (j - 1)) % NBuf = (bi + (j - 0)) % NBuf
  <2> SUFFICES ASSUME NEW j \in 1 .. N
               PROVE  (bi' + (j - 1)) % NBuf = (bi + (j - 0)) % NBuf
    OBVIOUS
  <2>1. /\ j \in Int /\ j - 1 \in 0 .. NBuf - 1 /\ j - 1 \in 0 .. NBuf - 2
        /\ j \in 0 .. NBuf - 1 /\ (j - 1) + 1 = j /\ j - 0 = j
    BY <1>1, <1>4, <1>5
  <2>2. NextSlot(bi) \in Slots
    BY <1>1, NextSlotType
  <2>3. (NextSlot(bi) + (j - 1)) % NBuf = Onward(NextSlot(bi), j - 1)
    BY <2>1, <2>2, OnwardMod
  <2>4. (bi + j) % NBuf = Onward(bi, j)
    BY <1>1, <2>1, OnwardMod
  <2>5. Onward(NextSlot(bi), j - 1) = Onward(bi, (j - 1) + 1)
    BY <1>1, <2>1, OnwardNext
  <2> QED
    BY <1>2, <2>1, <2>3, <2>4, <2>5
<1>7. Waiting' = Waiting
  <2>1. Waiting = [j \in 1 .. N |-> TheSegment((bi + (j - 0)) % NBuf)]
    BY <1>3 DEF Waiting
  <2>2. Waiting' = [j \in 1 .. N |-> TheSegment((bi' + (j - 1)) % NBuf)]
    BY <1>2, <1>3, <1>5 DEF Waiting, TheSegment
  <2>3. \A j \in 1 .. N : TheSegment((bi' + (j - 1)) % NBuf)
                        = TheSegment((bi + (j - 0)) % NBuf)
    BY <1>6
  <2> QED
    BY <2>1, <2>2, <2>3
<1>8. Held # <<>> /\ Held' = <<>>
  BY <1>3 DEF Held
<1> QED
  BY <1>7, <1>8 DEF Queue!Drop, Held

\* The forced store can only take the last segment of all from the burner, and
\* that when it was taken already.
LEMMA QueueForce ==
    ASSUME IndInv, NEW k \in 0 .. NBuf, OrderOf(k), ForceLast
    PROVE  Queue!Drop \/ (Waiting' = Waiting /\ Held' = Held)
<1>1. /\ TypeOK /\ bi \in Slots /\ NBuf \in Nat /\ NBuf >= 1 /\ k \in Nat /\ Chain(k)
      /\ owner \in [Slots -> {"writer", "faio", "reader"}] /\ Last \in Slots
  BY NBufAssumption DEF IndInv, TypeOK, OrderOf, Last, Slots
<1>2. /\ fpc = "force" /\ fpc' = "exited" /\ UNCHANGED <<len, data, puts, gets, bpc, bi>>
      /\ owner' = [owner EXCEPT ![Last] = "reader"]
  BY DEF ForceLast, stats, burner
<1>3. Published' = Published
  BY <1>2 DEF Published
<1>4. CASE Holding' <=> Holding
  BY <1>2, <1>3, <1>4, QueueQuiet
<1>5. CASE ~(Holding' <=> Holding)
  <2>1. bi = Last /\ Holding /\ ~Holding'
    BY <1>1, <1>2, <1>5 DEF Holding
  <2>2. Published - gets = k - 1
    BY <1>1, <2>1 DEF Chain
  <2>3. k <= 1
    <3>1. bi + k <= NBuf
      BY <1>1, <1>2 DEF Chain
    <3> QED
      BY <1>1, <2>1, <3>1 DEF Last
  <2>4. 1 .. Published - gets = {}
    BY <1>1, <2>2, <2>3
  <2>5. Waiting' = Waiting
    <3>1. Published' - gets' = Published - gets
      BY <1>2, <1>3
    <3> QED
      BY <2>4, <3>1 DEF Waiting
  <2>6. Held # <<>> /\ Held' = <<>>
    BY <2>1 DEF Held
  <2> QED
    BY <2>5, <2>6 DEF Queue!Drop, Held
<1> QED
  BY <1>4, <1>5

\* Every step is one of the queue or none.
LEMMA QueueStep ==
    ASSUME IndInv, [Next]_vars
    PROVE  Queue!Next \/ (Waiting' = Waiting /\ Held' = Held)
<1>1. TypeOK /\ Ownership /\ UserCounts /\ OnTrack
  BY DEF IndInv
<1>2. CASE Claim \/ Fill
  <2>1. fpc # "exited"
    BY <1>2 DEF Claim, Fill
  <2>2. PICK k \in 0 .. NBuf : OrderOf(k)
    BY <2>1 DEF IndInv, Order
  <2> QED
    BY <1>2, <2>2, QueueFilling DEF OrderOf
<1>3. CASE Publish
  <2>1. fpc # "exited"
    BY <1>3 DEF Publish
  <2>2. PICK k \in 0 .. NBuf : OrderOf(k)
    BY <2>1 DEF IndInv, Order
  <2> QED
    BY <1>3, <2>2, QueuePut DEF Queue!Next
<1>4. CASE Check
  <2>1. Going
    BY <1>1, <1>4, GoingOnTrack DEF Check
  <2>2. PICK k \in 0 .. NBuf : OrderOf(k)
    BY <2>1 DEF IndInv, Order
  <2> QED
    BY <1>4, <2>2, QueueTake DEF Queue!Next
<1>5. CASE Release /\ owner[bi] = "faio"
  <2>1. Going
    BY <1>1, <1>5, GoingOnTrack DEF Release
  <2>2. PICK k \in 0 .. NBuf : OrderOf(k)
    BY <2>1 DEF IndInv, Order
  <2> QED
    BY <1>5, <2>2, QueueDrop DEF Queue!Next
<1>6. CASE ForceLast
  <2>1. fpc # "exited"
    BY <1>6 DEF ForceLast
  <2>2. PICK k \in 0 .. NBuf : OrderOf(k)
    BY <2>1 DEF IndInv, Order
  <2> QED
    BY <1>6, <2>2, QueueForce DEF Queue!Next
<1>7. CASE SetUsers \/ CountPut \/ AllRead \/ TestGets \/ FillerTimeout \/ FillerDies
  <2>1. UNCHANGED <<owner, bi, bpc, data, len, gets>>
    BY <1>7 DEF SetUsers, CountPut, AllRead, TestGets, FillerTimeout, FillerDies,
                slots, stats, burner
  <2>2. Published' = Published
    <3>1. CASE SetUsers
      BY <3>1 DEF SetUsers, stats, Published
    <3>2. CASE CountPut
      <4>1. puts \in Nat /\ fpc = "puts" /\ puts' = puts + 1 /\ fpc' \in {"wait", "done"}
        BY <1>1, <3>2 DEF CountPut, TypeOK
      <4> QED
        BY <4>1 DEF Published
    <3>3. CASE AllRead \/ TestGets \/ FillerTimeout
      BY <3>3 DEF AllRead, TestGets, FillerTimeout, stats, Published
    <3>4. CASE FillerDies
      BY <3>4 DEF FillerDies, Killed, FillerActive, stats, Published
    <3> QED
      BY <1>7, <3>1, <3>2, <3>3, <3>4
  <2>3. Holding' <=> Holding
    BY <2>1 DEF Holding
  <2> QED
    BY <2>1, <2>2, <2>3, QueueQuiet
<1>8. CASE Hand
  <2>1. UNCHANGED <<bi, data, len, gets, puts, fpc>> /\ bpc = "hand" /\ bUsers <= 0
    BY <1>1, <1>8 DEF Hand, UserCounts, stats, filler
  <2>2. owner' = [owner EXCEPT ![bi] = "faio"]
    BY <1>8, <2>1 DEF Hand, NoUsers
  <2>3. owner'[bi] = "faio"
    BY <1>1, <2>2 DEF TypeOK
  <2>4. Holding' /\ Holding
    BY <2>1, <2>3 DEF Holding
  <2>5. Published' = Published
    BY <2>1 DEF Published
  <2> QED
    BY <2>1, <2>4, <2>5, QueueQuiet
<1>9. CASE \/ Start \/ Await \/ Blank \/ OpenTrack \/ (Release /\ owner[bi] # "faio")
           \/ GetReady \/ BurnerTimeout \/ LoadUsers \/ StoreUsers
  <2>1. UNCHANGED <<owner, bi, data, len, gets, puts>> /\ fpc' \in {fpc, Killed(fpc)}
    BY <1>9 DEF Start, Await, Blank, OpenTrack, Release, GetReady, BurnerTimeout, LoadUsers,
                StoreUsers, slots, stats, filler
  <2>2. bpc \in {"load", "store", "hand"} <=> bpc' \in {"load", "store", "hand"}
    BY <1>9 DEF Start, Await, Blank, OpenTrack, Release, GetReady, BurnerTimeout, LoadUsers,
                StoreUsers
  <2>3. Holding' <=> Holding
    BY <2>1, <2>2 DEF Holding
  <2>4. Published' = Published
    BY <2>1 DEF Published, Killed, FillerActive
  <2> QED
    BY <2>1, <2>3, <2>4, QueueQuiet
<1>10. CASE Write \/ Continue \/ Pad \/ Exit \/ Interrupt
  <2>1. UNCHANGED <<owner, bi, data, len, gets, puts>> /\ fpc' \in {fpc, Killed(fpc)}
    BY <1>10 DEF Write, Continue, Pad, Exit, Interrupt, slots, stats, filler
  <2>2. bpc \notin {"load", "store", "hand"} /\ bpc' \notin {"load", "store", "hand"}
    BY <1>10 DEF Write, Continue, Pad, Exit, Interrupt
  <2>3. Holding' <=> Holding
    BY <2>1, <2>2 DEF Holding
  <2>4. Published' = Published
    BY <2>1 DEF Published, Killed, FillerActive
  <2> QED
    BY <2>1, <2>3, <2>4, QueueQuiet
<1>11. CASE UNCHANGED vars
  <2>1. UNCHANGED <<bi, data, len, gets, puts, owner, bpc, fpc>>
    BY <1>11 DEF vars, slots, stats, filler, burner
  <2> QED
    BY <2>1, QueueQuiet DEF Published, Holding
<1> QED
  BY <1>2, <1>3, <1>4, <1>5, <1>6, <1>7, <1>8, <1>9, <1>10, <1>11
     DEF Next, FillerStep, BurnerStep, Gone

\* Slot headers, counters and indices, changed one at a time by two processes,
\* implement the bounded queue: what faio_reader publishes is what faio_get_buf
\* takes, in that order and never more than there are slots.
THEOREM QueueImplemented == Spec => RingIsQueue
<1>1. Init => Queue!Init
  <2> SUFFICES ASSUME Init PROVE Waiting = <<>> /\ Held = <<>>
    BY DEF Queue!Init, Held
  <2>1. /\ puts = 0 /\ gets = 0 /\ fpc = "wait" /\ bpc = "start"
        /\ bi \in Slots /\ owner[bi] # "faio"
    BY NBufAssumption DEF Init, Slots
  <2>2. Published - gets = 0 /\ ~Holding
    BY <2>1 DEF Published, Holding
  <2>3. Waiting = <<>>
    BY <2>2 DEF Waiting
  <2> QED
    BY <2>2, <2>3 DEF Held
<1>2. IndInv /\ [Next]_vars => [Queue!Next]_(Queue!vars)
  BY QueueStep DEF Queue!vars, Held
<1> QED
  BY <1>1, <1>2, Invariance, PTL DEF Spec, RingIsQueue, Queue!Spec

\* A slot changes hands one way round; only the filler's last store does not ask.
THEOREM OwnersCycle == Spec => OwnerCycle
<1> DEFINE Moves == \A i \in Slots :
                      \/ owner'[i] = owner[i]
                      \/ owner[i] = "writer" /\ owner'[i] = "reader"
                      \/ owner[i] = "reader" /\ owner'[i] = "faio"
                      \/ owner[i] = "faio" /\ owner'[i] = "writer"
                      \/ fpc = "force" /\ i = Last
<1>1. IndInv /\ [Next]_vars => [Moves]_vars
  <2> SUFFICES ASSUME IndInv, Next PROVE Moves
    OBVIOUS
  <2>1. TypeOK /\ Ownership
    BY DEF IndInv
  <2>2. CASE Publish
    BY <2>1, <2>2 DEF Publish, Ownership, TypeOK
  <2>3. CASE ForceLast
    BY <2>1, <2>3 DEF ForceLast, TypeOK
  <2>4. CASE Release
    BY <2>1, <2>4 DEF Release, TypeOK
  <2>5. CASE Hand
    BY <2>1, <2>5 DEF Hand, Ownership, TypeOK
  <2>6. CASE \/ Claim \/ Fill \/ SetUsers \/ CountPut \/ AllRead \/ TestGets
             \/ FillerTimeout \/ FillerDies \/ Gone
    <3>1. owner' = owner
      BY <2>6 DEF Claim, Fill, SetUsers, CountPut, AllRead, TestGets, FillerTimeout,
                  FillerDies, Gone, vars, slots
    <3> QED
      BY <3>1
  <2>7. CASE \/ Start \/ Await \/ Blank \/ OpenTrack \/ GetReady \/ Check \/ LoadUsers
             \/ StoreUsers \/ Write \/ Continue \/ Pad \/ Exit \/ BurnerTimeout \/ Interrupt
    <3>1. owner' = owner
      BY <2>7 DEF Start, Await, Blank, OpenTrack, GetReady, Check, LoadUsers, StoreUsers,
                  Write, Continue, Pad, Exit, BurnerTimeout, Interrupt, slots
    <3> QED
      BY <3>1
  <2> QED
    BY <2>2, <2>3, <2>4, <2>5, <2>6, <2>7 DEF Next, FillerStep, BurnerStep
<1> QED
  BY <1>1, Invariance, PTL DEF Spec, OwnerCycle

==============================================================================
