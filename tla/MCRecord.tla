------------------------------- MODULE MCRecord -------------------------------
(* One or two tracks of a few sectors for TLC.                               *)
EXTENDS Record, TLC
DataTrack == [its |-> 5, size |-> 5, pad |-> 0, pregap |-> 1, inpre |-> FALSE, short |-> FALSE, audio |-> FALSE]
Plain == [mode |-> "tao", dummy |-> FALSE, multi |-> FALSE, nofix |-> FALSE, fifo |-> TRUE,
          secsize |-> 2048, tracks |-> <<DataTrack>>]
Stream == [DataTrack EXCEPT !.its = -1]
Lists ==
    {<<DataTrack, [DataTrack EXCEPT !.its = 2, !.size = 2, !.audio = TRUE]>>,
     <<[DataTrack EXCEPT !.its = 8, !.size = 8, !.pad = 1], [DataTrack EXCEPT !.inpre = TRUE, !.short = TRUE, !.its = 2, !.size = 2]>>,
     <<[DataTrack EXCEPT !.its = 8, !.size = 5], [DataTrack EXCEPT !.pregap = 0, !.its = 6, !.size = 7]>>,
     <<[DataTrack EXCEPT !.its = 0, !.size = 0]>>,
     <<[DataTrack EXCEPT !.its = 0, !.size = 3, !.short = TRUE], DataTrack>>}
Streams == {<<Stream>>, <<[Stream EXCEPT !.size = 8], [Stream EXCEPT !.size = 2, !.pad = 1, !.audio = TRUE]>>}
MCJobs ==
    {[Plain EXCEPT !.mode = m, !.tracks = l, !.fifo = f] : m \in {"tao", "sao", "raw", "fixed"}, l \in Lists, f \in BOOLEAN}
    \cup {[Plain EXCEPT !.mode = m, !.tracks = l] : m \in {"tao", "variable", "fixed"}, l \in Streams}
    \cup {[Plain EXCEPT !.mode = m, !.dummy = d, !.multi = u, !.nofix = u, !.secsize = n] :
            m \in Modes, d \in BOOLEAN, u \in BOOLEAN, n \in {0, 512}}
===============================================================================
