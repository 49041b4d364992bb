----------------------------- MODULE MCGrowisofs -----------------------------
(* Small images and sessions for TLC.                                      *)
EXTENDS Growisofs, TLC

Image(size, ends, next, iso, poor, rewritable) ==
    [size |-> size, ends |-> ends, pipe |-> FALSE, status |-> TRUE, next |-> next,
     iso |-> iso, poor |-> poor, rewritable |-> rewritable]
Pipe(size, status, next, iso, poor, rewritable) ==
    [size |-> size, ends |-> "eof", pipe |-> TRUE, status |-> status, next |-> next,
     iso |-> iso, poor |-> poor, rewritable |-> rewritable]

\* With four blocks of two bytes: nothing, less than the head, the head, less
\* than the ring, the ring exactly, and once and twice around it.
Sizes == {0, 3, 4, 5, 8, 9, 11, 14, 17}

MCJobs ==
    {Image(size, ends, next, TRUE, TRUE, rewritable) :
        size \in Sizes, ends \in {"eof", "error"}, next \in {0, 9}, rewritable \in BOOLEAN}
    \cup {Pipe(size, status, 9, iso, poor, TRUE) :
        size \in Sizes, status \in BOOLEAN, iso \in BOOLEAN, poor \in BOOLEAN}
==============================================================================
