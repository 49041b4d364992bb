------------------------------ MODULE MCRingBuff ------------------------------
(* Small recordings for TLC.                                               *)
EXTENDS RingBuff, TLC

Record(samples, end, bound, bulk, real, over) ==
    [todo |-> samples, end |-> end, bound |-> bound, bulk |-> bulk, real |-> real,
     overlap |-> over, pipes |-> FALSE]

\* With buffers of three sectors of two samples: one buffer, a part of one,
\* three and a half of them, the end of a track within and between buffers,
\* a recording that ends before the track does.
Plain == {Record(6, 3, 3, FALSE, 0, 0), Record(3, 2, 1, TRUE, 0, 0),
          Record(20, 10, 4, TRUE, 0, 0), Record(18, 9, 6, TRUE, 0, 0),
          Record(9, 10, 4, FALSE, 0, 0)}

\* The medium ends before the TOC says so: within a buffer, between two.
Unknown == {Record(20, 10, 1, TRUE, real, 0) : real \in 4 .. 6}

\* Sectors are read twice to correct jitter: one or two of them, up to the end
\* of the medium or not, and with an end that is not known.
Overlapped == {Record(10, 5, 5, FALSE, 0, 1), Record(14, 7, 3, TRUE, 0, 1), Record(12, 9, 2, TRUE, 0, 2),
               Record(16, 8, 5, TRUE, 0, 2),
               Record(12, 6, 1, TRUE, 4, 1), Record(12, 6, 1, TRUE, 5, 1)}

\* The same with flags and pipes.
WithPipes(jobs) == {[j EXCEPT !.pipes = TRUE] : j \in jobs}
PipeJobs == WithPipes(Plain)

MCJobs == Plain \cup Unknown \cup Overlapped \cup WithPipes(Plain \cup Unknown \cup Overlapped)
==============================================================================
