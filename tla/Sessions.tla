------------------------------ MODULE Sessions ------------------------------
(***************************************************************************)
(* mkisofs -M: the directory tree of a new session is the local tree,      *)
(* merged with the one of the session before (multi.c), so that files that *)
(* did not change keep their data.  The names of ISO 9660 are given anew   *)
(* with each session (sort_n_finish of tree.c); the true names are in the  *)
(* Rock Ridge attributes, and with -T in a file TRANS.TBL.                 *)
(*                                                                         *)
(* A name is a pair of what is left of it in ISO 9660 (the stem) and a     *)
(* number: below 0 for names that are no ISO 9660 names; <<s, 0>> is the   *)
(* ISO 9660 name of a stem that has to share it with no other and          *)
(* <<s, k>> the one with the number k - 1 at its end.  Stems have five      *)
(* characters or more: a shorter one would grow with each number that its   *)
(* name is given (tree.c:379).                                              *)
(***************************************************************************)
EXTENDS Integers, Sequences, FiniteSets, TLC, SequencesExt, FiniteSetsExt

CONSTANTS
  Jobs,     \* options: [rr, tables : BOOLEAN, roots, olds : one path for each session]
  Trees,    \* local trees: [path -> size and date, below 0 for a directory]
  Orders,   \* orders in which readdir() may name the entries: sequences of names
  NoName,   \* no name
  TransTbl  \* the name TRANS.TBL

VARIABLES job, session, pc, local, tree, work, old, disc

vars == <<job, session, pc, local, tree, work, old, disc>>

Stem(name) == name[1]
IsoName(name) == <<Stem(name), 0>>

\* directories of the image, and what of the session before is read for each
Root == <<>>
NewRoot == job.roots[session]
OldRoot == job.olds[session]
NoTree == [d \in {} |-> {}]

\* what the data of a file are: written by which session, for which file
NoExtent == [session |-> 0, path |-> <<>>, ver |-> 0, lines |-> {}]
NewExtent(path, ver, lines) ==
  [session |-> session, path |-> path, ver |-> ver, lines |-> lines]

-----------------------------------------------------------------------------
(* What the session before says: read_merging_directory(). *)

\* the lines of the file TRANS.TBL of directory d of the image
Lines(image, d) == UNION {r.ext.lines : r \in {q \in image[d] : q.iso = TransTbl}}
LineOf(image, d, r) ==
  LET lines == {l \in Lines(image, d) : l.iso = r.iso}
  IN IF lines = {} THEN NoName ELSE (CHOOSE l \in lines : TRUE).name

\* the name from Rock Ridge, or from TRANS.TBL, or else the one of ISO 9660
NameOf(image, d, r) ==
  IF r.rr # NoName THEN r.rr
  ELSE IF r.iso # TransTbl /\ LineOf(image, d, r) # NoName THEN LineOf(image, d, r)
  ELSE r.iso

Read(d) ==
  {[name |-> NameOf(disc, d, r), kind |-> r.kind, iso |-> r.iso, prio |-> 0, safe |-> TRUE,
    line |-> LineOf(disc, d, r), ver |-> r.ver, ext |-> r.ext, was |-> Append(d, r.iso)]
   : r \in disc[d]}

\* the names along the path p of ISO 9660 names
NamePath(image, p) ==
  [i \in DOMAIN p |->
     NameOf(image, SubSeq(p, 1, i - 1), CHOOSE r \in image[SubSeq(p, 1, i - 1)] : r.iso = p[i])]

-----------------------------------------------------------------------------
(* The local tree: scan_directory_tree(), insert_file_entry(). *)

\* A directory that is made has no line in TRANS.TBL.
TableLine(name, prio) == IF prio = 1 /\ job.tables THEN name ELSE NoName

Entry(name, kind, prio, ver) ==
  [name |-> name, kind |-> kind, iso |-> IsoName(name), prio |-> prio, safe |-> FALSE,
   line |-> TableLine(name, prio), ver |-> ver, ext |-> NoExtent, was |-> <<>>]

Scanned(l, order, d) ==
  LET here == SelectSeq(order, LAMBDA name : Append(d, name) \in DOMAIN l)
  IN [i \in DOMAIN here |->
        LET v == l[Append(d, here[i])]
        IN Entry(here[i], IF v < 0 THEN "dir" ELSE "file", 1, v)]

\* The directories of -root are made on the way, the local tree is put below.
ScannedTree(l, order, root) ==
  LET above == {SubSeq(root, 1, i - 1) : i \in DOMAIN root}
      below == {root} \cup {root \o p : p \in {q \in DOMAIN l : l[q] < 0}}
  IN [d \in above \cup below |->
        IF d \in above THEN <<Entry(root[Len(d) + 1], "dir", 2, 0)>>
        ELSE Scanned(l, order, SubSeq(d, Len(root) + 1, Len(d)))]

Scan ==
  /\ pc = "idle" /\ session < Len(job.roots)
  /\ session' = session + 1
  /\ \E l \in Trees, order \in Orders :
       /\ local' = l
       /\ tree' = ScannedTree(l, order, job.roots[session'])
  /\ pc' = IF session = 0 THEN "sort" ELSE IF job.olds[session'] # <<>> THEN "preserve" ELSE "merge"
  /\ work' = {<<Root, Root>>}
  /\ old' = NoTree
  /\ UNCHANGED <<job, disc>>

-----------------------------------------------------------------------------
(* Merging: check_prev_session(), merge_remaining_entries(). *)

\* check_rr_dates()
SameKind(s, o) == s.kind = o.kind

\* Mutant: size and date are not compared.
SameName(s, o) == SameKind(s, o)

\* Without Rock Ridge only size and date are compared, also those of a file
\* and a directory.
SizeAndDate(e) == IF e.ver < 0 THEN -e.ver ELSE e.ver
SameFile(s, o) == (job.rr => SameKind(s, o)) /\ SizeAndDate(s) = SizeAndDate(o)

\* A file that did not change gets the extent of the old one.
Matched(s, o) ==
  IF s.kind = "dir" THEN s
  ELSE [s EXCEPT !.ext = IF SameFile(s, o) THEN o.ext ELSE @,
                 !.safe = @ \/ SameFile(s, o) \/ (job.rr /\ SameKind(s, o))]

Equals(s, entries) == {o \in entries : o.name = s.name}
Checked(contents, entries) ==
  [i \in DOMAIN contents |->
     LET s == contents[i]
     IN IF Equals(s, entries) = {} THEN s ELSE Matched(s, CHOOSE o \in Equals(s, entries) : TRUE)]
LeftOver(contents, entries) ==
  {o \in entries : \A i \in DOMAIN contents : contents[i].name # o.name}

\* Mutant: what is in directories of the old directory is lost.
OldDirectory(d, o) == (Append(d, o.name) :> SetToSeq(Read(o.was)))

\* merge_old_directory_into_tree(): the directory of the old entry o and all
\* that is below it, with the names it has there, becomes a part of d.
OldDirectories(d, o) ==
  LET below == {p \in DOMAIN disc : IsPrefix(o.was, p)}
      place(p) == d \o SubSeq(NamePath(disc, p), Len(o.was), Len(p))
  IN [q \in {place(p) : p \in below} |->
        SetToSeq(Read(CHOOSE p \in below : place(p) = q))]

\* Old entries come in front of the others.  The old TRANS.TBL is kept if all
\* that is in the directory is known to be in it.
Remaining(t, d, left) ==
  LET kept == {o \in left : o.name # TransTbl}
      all == SetToSeq(kept) \o t[d]
      table == {o \in left : o.name = TransTbl /\ \A i \in DOMAIN all : all[i].safe}
      dirs == {OldDirectories(d, o) : o \in {k \in kept : k.kind = "dir"}}
  IN FoldSet(LAMBDA a, b : a @@ b, [t EXCEPT ![d] = SetToSeq(table) \o all], dirs)

-----------------------------------------------------------------------------
(* merge_previous_session() *)

\* Mutant: the new root is not entered.
NewTopIsRoot == Root

\* find_or_create_directory(): a directory of the root with the last part of
\* the name of the new root
NewTop == IF NewRoot = <<>> THEN Root ELSE <<Last(NewRoot)>>

\* -old-root: all of the old session is kept at its place, except what the
\* root directory has under the same name.  The directory of the new root is
\* made if it is not found.
Preserve ==
  /\ pc = "preserve"
  /\ \E top \in DOMAIN disc :
       /\ NamePath(disc, top) = OldRoot
       /\ LET entries == Read(Root)
              checked == [tree EXCEPT ![Root] = Checked(@, entries)]
              merged == Remaining(checked, Root, LeftOver(tree[Root], entries))
          IN /\ tree' = IF NewTop \in DOMAIN tree THEN merged
                        ELSE (NewTop :> <<>>) @@
                             [merged EXCEPT ![Root] = <<Entry(Last(NewRoot), "dir", 2, 0)>> \o @]
             /\ work' = {<<NewTop, top>>}
  /\ pc' = "merge"
  /\ UNCHANGED <<job, session, local, old, disc>>

\* what the session before has at the old root or above it
OnTheWay(kind) ==
  UNION {{p \in {Append(NamePath(disc, d), NameOf(disc, d, r)) :
                 r \in {q \in disc[d] : q.kind = kind}} : IsPrefix(p, OldRoot)}
         : d \in DOMAIN disc}

\* "-old-root (sub)directory %s not found in old session."
NoOldRoot ==
  /\ pc = "preserve" /\ OldRoot \notin OnTheWay("dir") /\ OnTheWay("file") = {}
  /\ pc' = "fatal"
  /\ UNCHANGED <<job, session, local, tree, work, old, disc>>

\* A file is there: its data are read as if they were a directory.  What
\* follows is anything, or no end.
OldRootIsFile ==
  /\ pc = "preserve" /\ OnTheWay("file") # {}
  /\ pc' = "garbage"
  /\ UNCHANGED <<job, session, local, tree, work, old, disc>>

\* A directory of the new tree and what the old one has under its name.
Pairs(d, entries) ==
  {<<i, o>> \in (DOMAIN tree[d]) \X entries :
     tree[d][i].kind = "dir" /\ o.name = tree[d][i].name}

MergeDirectory ==
  /\ pc = "merge"
  /\ \E w \in work :
       LET d == w[1]
           entries == Read(w[2])
           checked == [tree EXCEPT ![d] = Checked(@, entries)]
       IN /\ \A p \in Pairs(d, entries) : p[2].kind = "dir"
          /\ tree' = IF OldRoot # <<>> THEN checked
                     ELSE Remaining(checked, d, LeftOver(tree[d], entries))
          /\ work' = (work \ {w}) \cup
                     {<<Append(d, p[2].name), p[2].was>> : p \in Pairs(d, entries)}
  /\ UNCHANGED <<job, session, pc, local, old, disc>>

\* A directory has taken the place of a file: the data of the old file are
\* read as if they were a directory.
MergeFile ==
  /\ pc = "merge"
  /\ \E w \in work : \E p \in Pairs(w[1], Read(w[2])) : p[2].kind = "file"
  /\ pc' = "garbage"
  /\ UNCHANGED <<job, session, local, tree, work, old, disc>>

Merged ==
  /\ pc = "merge" /\ work = {}
  /\ pc' = "sort"
  /\ UNCHANGED <<job, session, local, tree, work, old, disc>>

-----------------------------------------------------------------------------
(* sort_tree(), sort_n_finish() *)

\* Mutant: the hash table is not looked at.
FirstName(names, iso) == <<Stem(iso), 1>>

\* the first number that no name in the hash table has: there are 36^3, more
\* than the entries of a directory
FreeName(names, iso) ==
  <<Stem(iso), CHOOSE k \in 1..Cardinality(names) + 1 :
                 /\ <<Stem(iso), k>> \notin names
                 /\ \A j \in 1..k - 1 : <<Stem(iso), j>> \in names>>

\* Of two entries with the same name the one with the lower priority is given
\* a number, or else the one that was there before.
Numbered(contents) ==
  FoldLeft(
    LAMBDA list, i :
      LET before == 1..i - 1
          same == {j \in before : list[j].iso = list[i].iso}
          free == FreeName({list[j].iso : j \in before}, list[i].iso)
          first == CHOOSE j \in same : TRUE
      IN IF same = {} THEN list
         ELSE IF list[i].prio < list[first].prio THEN [list EXCEPT ![i].iso = free]
         ELSE [list EXCEPT ![first].iso = free],
    contents, [i \in DOMAIN contents |-> i])

WithTable(d, list) ==
  LET lines == {[iso |-> list[i].iso, name |-> list[i].line]
                : i \in {j \in DOMAIN list : list[j].line # NoName}}
      table == [Entry(TransTbl, "file", 2, 0) EXCEPT
                  !.ext = NewExtent(Append(d, TransTbl), 0, lines)]
  IN IF /\ job.tables /\ lines # {}
        /\ \A i \in DOMAIN list : list[i].iso # TransTbl
     THEN <<table>> \o list ELSE list

SortTree ==
  /\ pc = "sort"
  /\ tree' = [d \in DOMAIN tree |-> WithTable(d, Numbered(tree[d]))]
  /\ pc' = "write"
  /\ UNCHANGED <<job, session, local, work, old, disc>>

-----------------------------------------------------------------------------
(* The new session: directories, and files that have no extent yet, are written. *)

IsoPath(d) ==
  [i \in DOMAIN d |->
     LET list == tree[SubSeq(d, 1, i - 1)]
     IN list[CHOOSE k \in DOMAIN list : list[k].name = d[i]].iso]

Record(d, e) ==
  [kind |-> e.kind, iso |-> e.iso, rr |-> IF job.rr THEN e.name ELSE NoName, ver |-> e.ver,
   ext |-> IF e.kind = "dir" \/ e.ext = NoExtent
           THEN NewExtent(SubSeq(Append(d, e.name), Len(NewRoot) + 1, Len(d) + 1), e.ver, {})
           ELSE e.ext]

Write ==
  /\ pc = "write"
  /\ old' = disc
  /\ disc' = [p \in {IsoPath(d) : d \in DOMAIN tree} |->
                LET d == CHOOSE q \in DOMAIN tree : IsoPath(q) = p
                IN {Record(d, tree[d][i]) : i \in DOMAIN tree[d]}]
  /\ pc' = "written" /\ tree' = NoTree
  /\ UNCHANGED <<job, session, local, work>>

\* The disc is in the drive again.
Again ==
  /\ pc = "written" /\ session < Len(job.roots)
  /\ pc' = "idle" /\ local' = NoTree /\ work' = {} /\ old' = NoTree
  /\ UNCHANGED <<job, session, tree, disc>>

Init ==
  /\ job \in Jobs /\ session = 0 /\ pc = "idle"
  /\ local = NoTree /\ tree = NoTree /\ work = {} /\ old = NoTree
  /\ disc = NoTree

Next == Scan \/ Preserve \/ NoOldRoot \/ OldRootIsFile \/ MergeDirectory \/ MergeFile \/ Merged
        \/ SortTree \/ Write \/ Again

Spec == Init /\ [][Next]_vars

-----------------------------------------------------------------------------
(* Properties. *)

\* what a reader of the image sees: the files with their names
Seen(image) ==
  UNION {{[path |-> Append(NamePath(image, d), NameOf(image, d, r)), ext |-> r.ext]
          : r \in {q \in image[d] : q.kind = "file" /\ q.iso # TransTbl}} : d \in DOMAIN image}
AtPath(image, path) == {e.ext : e \in {s \in Seen(image) : s.path = path}}

\* The names can be trusted: they are those of Rock Ridge, or of TRANS.TBL and
\* no number was ever given.
Trusted ==
  job.rr \/ /\ job.tables
            /\ \A image \in {old, disc} : \A d \in DOMAIN image : \A r \in image[d] : r.iso[2] = 0

Written == pc = "written"
TopNames == {p[1] : p \in {NewRoot \o q : q \in {<<>>} \cup DOMAIN local} \ {<<>>}}
LocalFiles == {p \in DOMAIN local : local[p] > 0}

(***************************************************************************)
(* SessionKept: every variable holds what its declaration allows; in no    *)
(* directory do two entries have the same ISO 9660 name, whatever names    *)
(* and numbers came from the session before (tree.c:300); every directory  *)
(* of the image has a record in the one above.                             *)
(***************************************************************************)
SessionKept ==
  /\ job \in Jobs /\ session \in 0..Len(job.roots)
  /\ pc \in {"idle", "preserve", "merge", "sort", "write", "written", "fatal", "garbage"}
  /\ \A d \in DOMAIN disc :
       /\ \A r, q \in disc[d] : r.iso = q.iso => r = q
       /\ \A r \in disc[d] : r.kind = "dir" <=> Append(d, r.iso) \in DOMAIN disc
       /\ d # Root => Front(d) \in DOMAIN disc

(***************************************************************************)
(* CurrentWins: each local file is on the disc under its name, once, with  *)
(* the data it has now, and not those of an earlier session or of another  *)
(* file (multi.c:1086).  Without Rock Ridge it may be given the records of  *)
(* the directory it replaces, if that had its size and date (multi.c:1105); *)
(* with -old-root the file may be one that was found there.                 *)
(***************************************************************************)
CurrentWins ==
  Written /\ Trusted =>
    \A p \in LocalFiles : \E ext \in AtPath(disc, NewRoot \o p) :
       /\ AtPath(disc, NewRoot \o p) = {ext}
       /\ ext.ver = local[p] \/ (~job.rr /\ ext.ver = -local[p])
       /\ ext.path \in {p, OldRoot \o p}

(***************************************************************************)
(* OldKept: what was on the disc is there after the next session, unless   *)
(* the local tree has a file at its place or above it; with -old-root at   *)
(* its old place, unless the root of the new session has a directory of    *)
(* the name it begins with: all below that is lost, also if it is just the *)
(* one that old and new root have in common (multi.c:1690).                *)
(***************************************************************************)
OldKept ==
  Written /\ Trusted =>
    \A e \in Seen(old) :
      \/ e \in Seen(disc)
      \/ \E p \in LocalFiles : IsPrefix(NewRoot \o p, e.path)
      \/ OldRoot # <<>> /\ Head(e.path) \in TopNames

(***************************************************************************)
(* NotWrittenAgain: a file that did not change since the session before is *)
(* not written again, also if the root of the tree has moved, but only if  *)
(* the new one has one level (multi.c:1706).                               *)
(***************************************************************************)
NotWrittenAgain ==
  Written /\ Trusted /\ Len(NewRoot) < 2 =>
    \A p \in LocalFiles : \A ext \in AtPath(old, (IF OldRoot = <<>> THEN NewRoot ELSE OldRoot) \o p) :
      ext.ver = local[p] => AtPath(disc, NewRoot \o p) = {ext}

(***************************************************************************)
(* NamesTrue: the names of TRANS.TBL, where there are no others, are those *)
(* of the files: "-T Generate a file TRANS.TBL in each directory on the    *)
(* CDROM, which can be used on non-Rock Ridge capable systems to help      *)
(* establish the correct file names" (mkisofs.8:1143).                     *)
(***************************************************************************)
NamesTrue ==
  Written => \A e \in Seen(disc) : Last(e.path) = Last(e.ext.path)

=============================================================================
