----------------------------- MODULE MCIsoLayout -----------------------------
(* IsoLayout with small trees and the combinations of options that move   *)
(* their files.                                                            *)
EXTENDS IsoLayout

File(f, size, w) == [file |-> f, cached |-> TRUE, mac |-> FALSE, size |-> size,
                     weight |-> w, pad |-> 0, old |-> 0]

Job(opts, session, files) ==
  [opts |-> opts, session |-> session, files |-> files, media |-> 0, input |-> 0]

\* two files and a heavy link to the second, an empty file between them
Tree == <<File(1, 3, 1), File(2, 5, 0), File(3, 0, 9), File(2, 5, 2)>>

\* no inodes (-no-cache-inodes); the link grew since it was empty
Uncached == [i \in DOMAIN Tree |-> [Tree[i] EXCEPT !.cached = FALSE]]
Grown == <<File(1, 0, 3), File(2, 1, 2), File(1, 4, 0), File(1, 5, 7)>>

\* files of a video title, padded to where the next one has to be
Video == <<[File(1, 1, 0) EXCEPT !.pad = 2], [File(2, 2, 5) EXCEPT !.pad = 1], File(3, 3, 7)>>

\* Macintosh files, which are never cached, beside a file with two names
Mac(f, size, w) == [File(f, size, w) EXCEPT !.cached = FALSE, !.mac = TRUE]
Hybrid == <<Mac(1, 3, 0), File(2, 1, 3), Mac(3, 5, 2), File(2, 1, 0)>>

\* the same, given in the order that sorting would make
InOrder == <<Hybrid[2], Hybrid[3], Hybrid[4], Hybrid[1]>>

\* the second file is already in an earlier session
Later == <<File(1, 3, 0), [File(2, 2, 7) EXCEPT !.old = 5], File(2, 4, 2), File(3, 1, 3)>>

Plain == {Job(o \cup p \cup s, 0, t) :
            o \in {{}, {"rr", "joliet"}, {"udf"}, {"udf", "joliet", "torito", "xvol"},
                   {"sparc"}, {"sunx86", "genboot"}, {"genboot"}, {"udf", "sparc"}},
            p \in {{}, {"pad"}}, s \in {{}, {"sort"}}, t \in {Tree, Grown}}

Dvd == {Job({"udf", "dvd", "pad"} \cup s, 0, Video) : s \in {{}, {"sort"}}}

Hfs == {Job({"hfs"} \cup o \cup s, 0, t) :
          o \in {{}, {"boot"}, {"udf", "pad"}, {"udf", "dvd"}, {"joliet", "rr", "torito", "xvol"}},
          s \in {{}, {"sort"}}, t \in {Hybrid, InOrder}}

LaterSessions == {Job(o, n, Later) : o \in {{}, {"rr", "pad"}, {"udf"}, {"sort"}}, n \in {20, 27}}

Streams == {[opts |-> p, session |-> 0, files |-> <<>>, media |-> m, input |-> n] :
              p \in {{}, {"pad"}}, m \in {17, 20, 60}, n \in {0, 1, 4, 5, 9, 70}}

HfsLater == {Job({"hfs"}, 20, Hybrid)}

AllJobs == Plain \cup Dvd \cup Hfs \cup LaterSessions \cup Streams \cup HfsLater
             \cup {Job({"pad"}, 0, Uncached), Job({"sort"}, 0, Uncached), Job({"hfs", "sort"}, 0, <<>>)}
=============================================================================
