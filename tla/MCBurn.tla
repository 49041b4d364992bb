-------------------------------- MODULE MCBurn --------------------------------
(* Three blocks of two sectors for TLC.                                      *)
EXTENDS Burn, TLC
Plain == [kind |-> "+RW", dl |-> FALSE, pow |-> FALSE, compat |-> FALSE, dao |-> FALSE,
          next |-> 0, length |-> 6, reload |-> FALSE]
MCJobs ==
    {[Plain EXCEPT !.kind = k, !.next = s, !.compat = (s = 0)] : k \in Kinds, s \in {0, 2}}
    \cup {[Plain EXCEPT !.kind = "-R", !.dao = TRUE, !.length = 5],
          [Plain EXCEPT !.kind = "+R", !.dl = TRUE],
          [Plain EXCEPT !.kind = "BD-R", !.pow = TRUE, !.next = 2],
          [Plain EXCEPT !.reload = TRUE]}
===============================================================================
