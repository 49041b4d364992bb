------------------------------- MODULE MCFifo -------------------------------
(* Small track lists, options and bounds for TLC.                          *)
EXTENDS Fifo, TLC

\* A track of `size' bytes (-1: not known) read from descriptor f, in sectors
\* of 1 byte, `spt' of them per transfer; and one with sectors of 2 bytes.
T(f, size, spt) == [fd |-> f, size |-> size, sec |-> 1, spt |-> spt]
Wide(f, size, spt) == [fd |-> f, size |-> size, sec |-> 2, spt |-> spt]

MCTracks == {
    <<T(3, 2, 2)>>,                       \* fits into one slot of three
    <<T(3, 5, 2)>>,                       \* fills the ring exactly
    <<T(3, 4, 1), T(4, 2, 2)>>,           \* wraps, then a second file
    <<T(0, -1, 2), T(3, 3, 2)>>,          \* unknown size from stdin first
    <<T(3, 0, 1), T(0, -1, 1)>>,          \* empty size, stdin second
    <<Wide(3, 5, 2), Wide(3, -1, 1)>> }   \* partial sectors, one file twice

AllOptions == [blank : BOOLEAN, force : BOOLEAN]
AnyPhase == BurnerPC
==============================================================================
