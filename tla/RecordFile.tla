----------------------------- MODULE RecordFile -----------------------------
(***************************************************************************)
(* What the catalog of an HFS volume promises to its user: a set of        *)
(* records.  A call inserts and deletes some of them one by one and says   *)
(* that all is done, or that there is no room: then nothing was done.      *)
(* Only hfs_rename(), which does not ask for room, may end half way.       *)
(***************************************************************************)
EXTENDS Naturals, Sequences

CONSTANT Calls   \* [name, steps : sequence of [do : "insert" or "delete", key]]

VARIABLES
  records,  \* keys of the records
  call,     \* the call that runs, or the last one
  todo,     \* what is left of its steps
  answer    \* "busy", or what it returned

vars == <<records, call, todo, answer>>

Possible(steps) ==
  \A i \in DOMAIN steps : (steps[i].do = "delete") <=> steps[i].key \in records

Call ==
  /\ answer # "busy"
  /\ call' \in Calls /\ Possible(call'.steps)
  /\ todo' = call'.steps /\ answer' = "busy"
  /\ UNCHANGED records

Step ==
  /\ answer = "busy" /\ todo # <<>>
  /\ records' = IF Head(todo).do = "insert" THEN records \cup {Head(todo).key}
                ELSE records \ {Head(todo).key}
  /\ todo' = Tail(todo)
  /\ UNCHANGED <<call, answer>>

Done == answer = "busy" /\ todo = <<>> /\ answer' = "ok" /\ UNCHANGED <<records, call, todo>>

NoRoom ==
  /\ answer = "busy" /\ todo = call.steps /\ call.name \in {"create", "mkdir"}
  /\ answer' = "no room" /\ todo' = <<>>
  /\ UNCHANGED <<records, call>>

Lost ==
  /\ answer = "busy" /\ call.name = "rename" /\ Len(todo) < 2
  /\ answer' = "full" /\ todo' = <<>>
  /\ UNCHANGED <<records, call>>

Init == records = {} /\ call \in Calls /\ todo = <<>> /\ answer = "none"
Next == Call \/ Step \/ Done \/ NoRoom \/ Lost
Spec == Init /\ [][Next]_vars
=============================================================================
