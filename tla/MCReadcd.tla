------------------------------- MODULE MCReadcd -------------------------------
(* A disc of five sectors for TLC, read and written two at a time.           *)
EXTENDS Readcd, TLC
Plain == [ops |-> <<"read">>, menu |-> FALSE, start |-> 1, end |-> 4, retries |-> 2,
          noerror |-> FALSE, size |-> 2048, mode |-> 0, input |-> <<>>]
MCJobs ==
    {[Plain EXCEPT !.retries = r, !.noerror = b] : r \in {0, 2}, b \in BOOLEAN}
    \cup {[Plain EXCEPT !.ops = <<o>>, !.mode = x, !.size = s, !.end = 3] :
            o \in {"clone", "c2"}, x \in {0, 200, 255}, s \in {512, 2048}}
    \cup {[Plain EXCEPT !.ops = o, !.menu = TRUE, !.end = 2, !.retries = 1, !.input = <<9>>] :
            o \in {<<"c2", "read">>, <<"readda", "clone">>, <<"clone", "write">>}}
    \cup {[Plain EXCEPT !.ops = <<"write">>, !.end = 5, !.input = i] :
            i \in {<<12>>, <<2, 4, 2>>, <<3, 5>>, <<4, 1>>}}
===============================================================================
