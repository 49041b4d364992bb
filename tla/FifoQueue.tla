------------------------------ MODULE FifoQueue ------------------------------
(***************************************************************************)
(* What the cdrecord FIFO promises: a bounded queue of transfer buffers    *)
(* between one process that fills them and one that burns them.  The       *)
(* burner looks at one buffer at a time, in the order they were filled,    *)
(* and a buffer counts against the capacity until the burner gives it up.  *)
(***************************************************************************)
EXTENDS Naturals, Sequences

CONSTANTS
    Capacity,   \* how many buffers there are
    Segment     \* what a buffer can hold

VARIABLES
    queue,      \* filled buffers nobody has looked at, oldest first
    held        \* the buffer the burner is looking at: <<>> or <<segment>>

vars == <<queue, held>>

Init == queue = <<>> /\ held = <<>>

Put == /\ Len(queue) + Len(held) < Capacity
       /\ queue' # <<>>
       /\ LET s == queue'[Len(queue')]    \* some s in Segment, named by its place
          IN  s \in Segment /\ queue' = Append(queue, s)
       /\ UNCHANGED held

Take == /\ held = <<>> /\ queue # <<>>
        /\ held' = <<Head(queue)>>
        /\ queue' = Tail(queue)

Drop == /\ held # <<>>
        /\ held' = <<>>
        /\ UNCHANGED queue

Next == Put \/ Take \/ Drop

Spec == Init /\ [][Next]_vars
==============================================================================
