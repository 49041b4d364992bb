------------------------------ MODULE RemoteCall ------------------------------
(***************************************************************************)
(* What remote SCSI promises a program: each call is carried out at most   *)
(* once on the remote machine, and as long as the connection holds the     *)
(* call returns what was answered to it.  After the connection is lost a   *)
(* call may return anything.                                               *)
(***************************************************************************)
CONSTANT Nothing

VARIABLES
    phase,     \* of the program's call: "none", "asked" or "returned"
    served,    \* was the call carried out?
    answer,    \* what it came to
    taken,     \* what it returned
    late,      \* may a call that was given up still be carried out?
    broken     \* is the connection lost?

vars == <<phase, served, answer, taken, late, broken>>

NoCall == ~served /\ answer = Nothing /\ taken = Nothing

Init == phase = "none" /\ NoCall /\ ~late /\ ~broken

Ask == /\ phase = "none" /\ phase' = "asked"
       /\ UNCHANGED <<served, answer, taken, late, broken>>

\* answer' is what the remote machine says
Serve == /\ phase = "asked" /\ ~served /\ ~late
         /\ served' = TRUE
         /\ UNCHANGED <<phase, taken, late, broken>>

ServeLate == /\ late /\ late' = FALSE
             /\ UNCHANGED <<phase, served, answer, taken, broken>>

Return == /\ phase = "asked" /\ served
          /\ phase' = "returned" /\ taken' = answer
          /\ UNCHANGED <<served, answer, late, broken>>

GiveUp == /\ phase = "asked" /\ broken
          /\ phase' = "returned"
          /\ late' => late \/ ~served
          /\ UNCHANGED <<served, answer, broken>>

Done == /\ phase = "returned" /\ phase' = "none" /\ NoCall'
        /\ UNCHANGED <<late, broken>>

Break == ~broken /\ broken' = TRUE /\ UNCHANGED <<phase, served, answer, taken, late>>

Next == Ask \/ Serve \/ ServeLate \/ Return \/ GiveUp \/ Done \/ Break

Spec == Init /\ [][Next]_vars
===============================================================================
