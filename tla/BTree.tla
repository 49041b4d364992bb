-------------------------------- MODULE BTree -------------------------------
(***************************************************************************)
(* libhfs_iso: the catalog of an HFS volume is a B*-tree in the nodes of a *)
(* file (btree.c, node.c).  Records are inserted at a leaf; a node that is *)
(* full is split, and the first key of its right half goes to the parent;  *)
(* a node from which a record is deleted is merged with its left neighbour *)
(* if both fit into one.  Nodes are read into a stack of copies on the way *)
(* down, and the copies are changed and written on the way up.             *)
(*                                                                         *)
(* Keys are numbers in the order of r_comparecatkeys(); lengths are in     *)
(* bytes, as in the file.                                                  *)
(***************************************************************************)
EXTENDS Integers, Sequences, FiniteSets, TLC, SequencesExt, FiniteSetsExt

CONSTANTS
  Jobs,      \* [len : key -> length of the record, script : calls, more : set of calls,
             \*  clumps : how often the file can be extended]
  Clump,     \* nodes that are gained each time
  MapFirst, MapNext,  \* nodes that the bitmap of the header and of a map node stand for
  MaxCalls   \* bound on the calls after the script

ASSUME ClumpAssumption == Clump \in Nat \ {0, 1} /\ Clump <= MapFirst /\ Clump <= MapNext

Block == 512      \* HFS_BLOCKSZ
Header == 14      \* node descriptor
MaxRecs == 35     \* HFS_MAXRECS
IndexLen == 42    \* key of 0x25 bytes and node number
NoKey == 0        \* the key that is made of an empty node

VARIABLES
  job, calls,
  hdr,     \* header record, and the link of the header node
  map,     \* nodes in use
  mapsz,   \* nodes that the bitmap has bits for
  nodes,   \* the file
  saved,   \* what the header node in the file says
  pc, call, todo, answer,
  path,    \* copies of the nodes from the root down: [num, node, rnum]
  up       \* what the node at the end of the path changes in its parent

vars == <<job, calls, hdr, map, mapsz, nodes, saved, pc, call, todo, answer, path, up>>
space == <<hdr, map, mapsz>>

-----------------------------------------------------------------------------
(* Nodes: n_init(), n_search(), n_index(), n_compact(). *)

Rec(key, len, ptr) == [key |-> key, len |-> len, ptr |-> ptr]
Node(type, height) ==
  [type |-> type, height |-> height, flink |-> 0, blink |-> 0, recs |-> <<>>, bits |-> {}]

Lens(recs) == FoldLeft(LAMBDA sum, r : sum + r.len, 0, recs)
NodeSpace(recs) == Block - (Header + Lens(recs)) - 2 * (Len(recs) + 1)

\* the record with the key, or the one that it should follow
Search(recs, key) == Max({0} \cup {i \in DOMAIN recs : recs[i].key <= key})

FirstKey(node) == IF node.recs = <<>> THEN NoKey ELSE node.recs[1].key
IndexRec(num, node) == Rec(FirstKey(node), IndexLen, num)

InsertAfter(recs, rnum, r) == SubSeq(recs, 1, rnum) \o <<r>> \o SubSeq(recs, rnum + 1, Len(recs))

Fits(recs, len) == Len(recs) < MaxRecs /\ len + 2 <= NodeSpace(recs)

\* n_new(): the first free node
FreeNode(m) == CHOOSE n \in 0..Cardinality(m) : n \notin m /\ \A k \in 0..n - 1 : k \in m

Put(num, node) == (num :> node) @@ nodes

-----------------------------------------------------------------------------
(* bt_space(): nodes for a split on every level, or more of the file. *)

\* Mutant: the new root is not counted.
NeededBelow == Len(call.steps) * hdr.depth

Needed == Len(call.steps) * (hdr.depth + 1)

LastMapNode == CHOOSE n \in map : nodes[n].type = "map" /\ nodes[n].flink = 0

Extend ==
  LET h == [hdr EXCEPT !.nnodes = @ + Clump, !.free = @ + Clump]
      num == FreeNode(map)
      new == Node("map", 0)
  IN IF h.nnodes <= mapsz
     THEN hdr' = h /\ UNCHANGED <<map, mapsz, nodes>>
     ELSE /\ mapsz' = mapsz + MapNext /\ map' = map \cup {num}
          /\ IF hdr.flink = 0
             THEN /\ hdr' = [h EXCEPT !.free = @ - 1, !.flink = num]
                  /\ nodes' = Put(num, new)
             ELSE /\ hdr' = [h EXCEPT !.free = @ - 1]
                  /\ nodes' = [Put(num, [new EXCEPT !.blink = LastMapNode])
                                 EXCEPT ![LastMapNode].flink = num]

Space ==
  /\ pc = "space"
  /\ \/ Needed <= hdr.free /\ UNCHANGED <<job, hdr, map, mapsz, nodes>>
     \/ /\ Needed > hdr.free /\ job.clumps > 0
        /\ job' = [job EXCEPT !.clumps = @ - 1]
        /\ Extend
  /\ pc' = "begin"
  /\ UNCHANGED <<calls, saved, call, todo, answer, path, up>>

\* The volume is full.
NoRoom ==
  /\ pc = "space" /\ Needed > hdr.free /\ job.clumps = 0
  /\ pc' = "idle" /\ answer' = "no room" /\ todo' = <<>>
  /\ UNCHANGED <<job, calls, space, nodes, saved, call, path, up>>

-----------------------------------------------------------------------------
(* bt_insert(), bt_delete(): from the root to a leaf. *)

Nothing == [how |-> "nothing", rec |-> Rec(NoKey, 0, 0)]
Key == Head(todo).key
Top == path[Len(path)]
Frame(num, node) == [num |-> num, node |-> node, rnum |-> Search(node.recs, Key)]

NewTree ==
  /\ pc = "begin" /\ todo # <<>> /\ hdr.root = 0
  /\ LET num == FreeNode(map)
     IN /\ hdr' = [hdr EXCEPT !.depth = 1, !.root = num, !.fnode = num, !.lnode = num, !.free = @ - 1]
        /\ map' = map \cup {num}
        /\ nodes' = Put(num, Node("leaf", 1))
        /\ path' = <<Frame(num, Node("leaf", 1))>>
  /\ pc' = "down"
  /\ UNCHANGED <<job, calls, mapsz, saved, call, todo, answer, up>>

ReadRoot ==
  /\ pc = "begin" /\ todo # <<>> /\ hdr.root # 0
  /\ path' = <<Frame(hdr.root, nodes[hdr.root])>>
  /\ pc' = "down"
  /\ UNCHANGED <<job, calls, space, nodes, saved, call, todo, answer, up>>

\* The child under the key, or the first one if the key is less than all.
Child == Top.node.recs[Max({1, Top.rnum})].ptr

Down ==
  /\ pc = "down" /\ Top.node.type = "index"
  /\ path' = Append(path, Frame(Child, nodes[Child]))
  /\ UNCHANGED <<job, calls, space, nodes, saved, pc, call, todo, answer, up>>

AtLeaf ==
  /\ pc = "down" /\ Top.node.type = "leaf"
  /\ IF Head(todo).do = "insert"
     THEN pc' = "add" /\ up' = [how |-> "new", rec |-> Rec(Key, job.len[Key], 0)]
     ELSE pc' = "remove" /\ up' = Nothing
  /\ UNCHANGED <<job, calls, space, nodes, saved, call, todo, answer, path>>

-----------------------------------------------------------------------------
(* n_insert(), n_split() *)

PathWith(node) == [path EXCEPT ![Len(path)].node = node]

Add ==
  /\ pc = "add" /\ Fits(Top.node.recs, up.rec.len)
  /\ LET node == [Top.node EXCEPT !.recs = InsertAfter(@, Top.rnum, up.rec)]
     IN nodes' = Put(Top.num, node) /\ path' = PathWith(node)
  /\ up' = Nothing /\ pc' = "added"
  /\ UNCHANGED <<job, calls, space, saved, call, todo, answer>>

\* The records before mid stay in the left node, and mid moves until there is
\* room for the new one where it will go, or no record on one side.
Mid(recs, rnum, len) ==
  LET n == Len(recs)
      moved(m) ==
        IF rnum <= m \/ (m = 0 /\ n > 1)
        THEN IF m > 0 /\ Header + Lens(SubSeq(recs, 1, m)) + len + 2 > Block - 2 * (m + 1)
             THEN m - 1 ELSE m
        ELSE IF m < n /\ Lens(SubSeq(recs, m + 1, n)) + Header + len + 2 > Block - 2 * (m + 1)
             THEN m + 1 ELSE m
  IN FoldLeft(LAMBDA m, i : moved(m), n \div 2, recs)

\* The two halves, with the record in one of them.
Halves(recs, r) ==
  LET mid == Mid(recs, Search(recs, r.key), r.len)
      left == SubSeq(recs, 1, mid)
      right == SubSeq(recs, mid + 1, Len(recs))
  IN IF Search(right, r.key) > 0
     THEN <<left, InsertAfter(right, Search(right, r.key), r)>>
     ELSE <<InsertAfter(left, Search(left, r.key), r), right>>

\* Mutant: the right neighbour still points to the left half.
NotLinked(ns, num, left) == ns

Linked(ns, num, left) == IF num = 0 THEN ns ELSE [ns EXCEPT ![num].blink = left]

Split ==
  /\ pc = "add" /\ ~Fits(Top.node.recs, up.rec.len) /\ hdr.free > 0
  /\ LET num == FreeNode(map)
         halves == Halves(Top.node.recs, up.rec)
         left == [Top.node EXCEPT !.flink = num, !.recs = halves[1]]
         right == [Top.node EXCEPT !.blink = Top.num, !.recs = halves[2]]
     IN /\ nodes' = Linked((num :> right) @@ Put(Top.num, left), right.flink, num)
        /\ path' = PathWith(left)
        /\ up' = [how |-> "new", rec |-> IndexRec(num, right)]
        /\ map' = map \cup {num}
        /\ hdr' = [hdr EXCEPT !.free = @ - 1, !.lnode = IF @ = Top.num THEN num ELSE @]
  /\ pc' = "added"
  /\ UNCHANGED <<job, calls, mapsz, saved, call, todo, answer>>

\* The parent gets the new first key of its first child, and the new record.
Above(node) == [path[Len(path) - 1].node EXCEPT !.recs = [@ EXCEPT ![1].key = FirstKey(node)]]

Added ==
  /\ pc = "added" /\ Len(path) > 1
  /\ LET parent == path[Len(path) - 1]
         node == IF parent.rnum = 0 THEN Above(Top.node) ELSE parent.node
     IN /\ path' = [Front(path) EXCEPT ![Len(path) - 1].node = node]
        /\ nodes' = IF parent.rnum = 0 /\ up = Nothing THEN Put(parent.num, node) ELSE nodes
  /\ pc' = IF up = Nothing THEN "added" ELSE "add"
  /\ UNCHANGED <<job, calls, space, saved, call, todo, answer, up>>

Finished(h, adj) ==
  /\ hdr' = [h EXCEPT !.nrecs = @ + adj]
  /\ todo' = Tail(todo) /\ path' = <<>> /\ up' = Nothing /\ pc' = "begin"

Inserted ==
  /\ pc = "added" /\ Len(path) = 1 /\ up = Nothing
  /\ Finished(hdr, 1)
  /\ UNCHANGED <<job, calls, map, mapsz, nodes, saved, call, answer>>

NewRoot ==
  /\ pc = "added" /\ Len(path) = 1 /\ up # Nothing /\ hdr.free > 0
  /\ LET num == FreeNode(map)
         root == [Node("index", Top.node.height + 1) EXCEPT
                    !.recs = <<IndexRec(Top.num, Top.node), up.rec>>]
     IN /\ nodes' = Put(num, root)
        /\ map' = map \cup {num}
        /\ Finished([hdr EXCEPT !.depth = @ + 1, !.root = num, !.free = @ - 1], 1)
  /\ UNCHANGED <<job, calls, mapsz, saved, call, answer>>

NeedsNode ==
  IF pc = "add" THEN ~Fits(Top.node.recs, up.rec.len)
  ELSE pc = "added" /\ Len(path) = 1 /\ up # Nothing

\* "b*-tree full": what was written remains as it is.  The model ends here: it
\* happens in hfs_rename(), which has no caller in mkisofs.
Full ==
  /\ hdr.free = 0 /\ NeedsNode
  /\ answer' = "full" /\ pc' = "broken" /\ todo' = <<>> /\ path' = <<>> /\ up' = Nothing
  /\ UNCHANGED <<job, calls, space, nodes, saved, call>>

-----------------------------------------------------------------------------
(* n_delete(), n_merge() *)

Left == nodes[Top.node.blink].recs
Without == RemoveAt(Top.node.recs, Top.rnum)
Merges ==
  /\ Top.node.blink > 0
  /\ Len(Without) + Len(Left) <= MaxRecs
  /\ Lens(Without) + 2 * Len(Without) <= NodeSpace(Left)

RemoveRec ==
  /\ pc = "remove" /\ ~Merges
  /\ LET node == [Top.node EXCEPT !.recs = Without]
     IN nodes' = Put(Top.num, node) /\ path' = PathWith(node)
  /\ up' = IF Top.rnum = 1 THEN [Nothing EXCEPT !.how = "changed"] ELSE Nothing
  /\ pc' = "removed"
  /\ UNCHANGED <<job, calls, space, saved, call, todo, answer>>

Merge ==
  /\ pc = "remove" /\ Merges
  /\ LET left == Top.node.blink
     IN /\ nodes' = Linked([nodes EXCEPT ![left].recs = @ \o Without, ![left].flink = Top.node.flink],
                           Top.node.flink, left)
        /\ hdr' = [hdr EXCEPT !.free = @ + 1, !.lnode = IF @ = Top.num THEN left ELSE @]
        /\ map' = map \ {Top.num}
        /\ path' = PathWith([Top.node EXCEPT !.recs = Without])
  /\ up' = [Nothing EXCEPT !.how = "gone"]
  /\ pc' = "removed"
  /\ UNCHANGED <<job, calls, mapsz, saved, call, todo, answer>>

\* The parent loses its record of the child, or changes the key of it; that
\* goes on if it was the first one.
Removed ==
  /\ pc = "removed" /\ Len(path) > 1
  /\ LET parent == path[Len(path) - 1]
         node == IF up.how = "changed"
                 THEN [parent.node EXCEPT !.recs = [@ EXCEPT ![parent.rnum].key = FirstKey(Top.node)]]
                 ELSE parent.node
     IN /\ path' = [Front(path) EXCEPT ![Len(path) - 1].node = node]
        /\ nodes' = Put(parent.num, node)
        /\ up' = IF up.how = "changed" /\ parent.rnum = 1 THEN up ELSE Nothing
  /\ pc' = IF up.how = "gone" THEN "remove" ELSE "removed"
  /\ UNCHANGED <<job, calls, space, saved, call, todo, answer>>

\* A root with one child is cut off, a leaf without records is no tree.
Cut ==
  IF hdr.depth > 1 /\ Len(Top.node.recs) = 1
  THEN [hdr EXCEPT !.depth = @ - 1, !.root = Top.node.recs[1].ptr, !.free = @ + 1]
  ELSE IF hdr.depth = 1 /\ Top.node.recs = <<>>
  THEN [hdr EXCEPT !.depth = 0, !.root = 0, !.fnode = 0, !.lnode = 0, !.free = @ + 1]
  ELSE hdr

Deleted ==
  /\ pc = "removed" /\ Len(path) = 1
  /\ Finished(Cut, -1)
  /\ map' = IF hdr'.root # hdr.root THEN map \ {Top.num} ELSE map
  /\ UNCHANGED <<job, calls, mapsz, nodes, saved, call, answer>>

-----------------------------------------------------------------------------
(* The calls: hfs_mkdir(), hfs_create(), hfs_rmdir(), hfs_delete(), hfs_rename(). *)

\* bt_search(): the node on level d that the key leads to, or the header node
At(key) ==
  FoldLeft(LAMBDA n, d :
             LET recs == nodes[n].recs
             IN IF n = 0 \/ Search(recs, key) = 0 THEN 0 ELSE recs[Search(recs, key)].ptr,
           hdr.root, [d \in 1..hdr.depth - 1 |-> d])

Found(key) ==
  /\ At(key) # 0
  /\ \E i \in DOMAIN nodes[At(key)].recs : nodes[At(key)].recs[i].key = key

Possible(steps) == \A i \in DOMAIN steps : (steps[i].do = "delete") <=> Found(steps[i].key)

NextCalls ==
  IF calls < Len(job.script) THEN {job.script[calls + 1]}
  ELSE IF calls < Len(job.script) + MaxCalls THEN job.more ELSE {}

\* What a call does to the records of the catalog, in its order.  A file has
\* no thread record, or hfs_delete() deletes that too (hfs.c:1899); how many
\* entries its directory has is changed in place (v_adjvalence()).
Call ==
  /\ pc = "idle"
  /\ call' \in NextCalls /\ Possible(call'.steps)
  /\ todo' = call'.steps /\ calls' = calls + 1 /\ answer' = "busy"
  /\ pc' = IF call'.name \in {"mkdir", "create"} THEN "space" ELSE "begin"
  /\ UNCHANGED <<job, space, nodes, saved, path, up>>

Return ==
  /\ pc = "begin" /\ todo = <<>>
  /\ pc' = "idle" /\ answer' = "ok"
  /\ UNCHANGED <<job, calls, space, nodes, saved, call, todo, path, up>>

\* bt_writehdr(): the header, its part of the bitmap and the one of each map
\* node, in the order in which they are linked.
MapNodes(first) ==
  FoldLeft(LAMBDA chain, i :
             LET next == IF chain = <<>> THEN first ELSE nodes[Last(chain)].flink
             IN IF next = 0 THEN chain ELSE Append(chain, next),
           <<>>, [i \in 1..Cardinality(DOMAIN nodes) |-> i])

Piece(i) == {n \in map : MapFirst + (i - 1) * MapNext <= n /\ n < MapFirst + i * MapNext}

Umount ==
  /\ pc = "idle"
  /\ saved' = [hdr |-> hdr, bits |-> {n \in map : n < MapFirst}]
  /\ LET chain == MapNodes(hdr.flink)
     IN nodes' = [n \in DOMAIN nodes |->
                    IF n \in ToSet(chain)
                    THEN [nodes[n] EXCEPT !.bits = Piece(CHOOSE i \in DOMAIN chain : chain[i] = n)]
                    ELSE nodes[n]]
  /\ pc' = "closed"
  /\ UNCHANGED <<job, calls, space, call, todo, answer, path, up>>

\* hfs_format() has made room once and taken a node for the header.
Init ==
  /\ job \in Jobs /\ calls = 0
  /\ hdr = [depth |-> 0, root |-> 0, nrecs |-> 0, fnode |-> 0, lnode |-> 0,
            nnodes |-> Clump, free |-> Clump - 1, flink |-> 0]
  /\ map = {0} /\ mapsz = MapFirst /\ nodes = (0 :> Node("header", 0))
  /\ saved = [hdr |-> hdr, bits |-> {}]
  /\ pc = "idle" /\ todo = <<>> /\ answer = "none"
  /\ call = job.script[1] /\ path = <<>> /\ up = Nothing

Next ==
  \/ Call \/ Space \/ NoRoom \/ NewTree \/ ReadRoot \/ Down \/ AtLeaf
  \/ Add \/ Split \/ Added \/ Inserted \/ NewRoot \/ Full
  \/ RemoveRec \/ Merge \/ Removed \/ Deleted \/ Return \/ Umount

Spec == Init /\ [][Next]_vars

-----------------------------------------------------------------------------
(* Properties. *)

Leaves == {n \in map : nodes[n].type = "leaf"}
Records == UNION {{nodes[n].recs[i].key : i \in DOMAIN nodes[n].recs} : n \in Leaves}

Level(d) == {n \in map : nodes[n].type \in {"leaf", "index"} /\ nodes[n].height = hdr.depth + 1 - d}
\* The next node of the row, or 0.
NextOf(row, n) ==
  LET after == {m \in row : FirstKey(nodes[m]) > FirstKey(nodes[n])}
  IN IF after = {} THEN 0
     ELSE CHOOSE m \in after : \A k \in after : FirstKey(nodes[m]) <= FirstKey(nodes[k])

\* Keys rise in each node and along the links of each level; every node but the
\* root is the child of one record, which has its first key.
Ordered ==
  \A d \in 1..hdr.depth :
    LET row == Level(d)
    IN /\ \A n \in row :
            LET next == NextOf(row, n)
            IN /\ nodes[n].recs # <<>> /\ nodes[n].flink = next
               /\ \A i \in 1..Len(nodes[n].recs) - 1 : nodes[n].recs[i].key < nodes[n].recs[i + 1].key
               /\ next # 0 => nodes[next].blink = n /\ Last(nodes[n].recs).key < FirstKey(nodes[next])
               /\ nodes[n].type = IF d = hdr.depth THEN "leaf" ELSE "index"
       /\ Cardinality({n \in row : nodes[n].blink = 0}) = 1
       /\ Cardinality({n \in row : nodes[n].flink = 0}) = 1
       /\ IF d = 1 THEN row = {hdr.root}
          ELSE {IndexRec(n, nodes[n]) : n \in row} = UNION {ToSet(nodes[n].recs) : n \in Level(d - 1)}
       /\ d = hdr.depth =>
            \A n \in row : /\ nodes[n].blink = 0 <=> hdr.fnode = n
                           /\ nodes[n].flink = 0 <=> hdr.lnode = n

Counted ==
  /\ hdr.nrecs = Cardinality(Records)
  /\ hdr.free = hdr.nnodes - Cardinality(map) /\ map \subseteq 0..hdr.nnodes - 1 /\ hdr.nnodes <= mapsz
  /\ map = {0} \cup ToSet(MapNodes(hdr.flink)) \cup UNION {Level(d) : d \in 1..hdr.depth}

\* what bt_readhdr() makes of the file
ReadBack ==
  LET chain == MapNodes(saved.hdr.flink)
  IN [hdr |-> saved.hdr, map |-> saved.bits \cup UNION {nodes[n].bits : n \in ToSet(chain)}]

(***************************************************************************)
(* TreeKept: between two calls the tree is one: sorted, linked in both     *)
(* directions on each level, every key of an index the first one below it, *)
(* nothing lost or left over in the bitmap and the counters; every record  *)
(* is found (btree.c:705); the records of a node end where their offsets   *)
(* begin, but for two bytes: n_split() counts the offsets of the left half *)
(* also for the right one (node.c:260).  A volume that is mounted again    *)
(* has the same header and bitmap.                                         *)
(***************************************************************************)
TreeKept ==
  /\ pc \in {"idle", "closed"} =>
       /\ Ordered /\ Counted
       /\ \A key \in DOMAIN job.len : Found(key) <=> key \in Records
       /\ \A d \in 1..hdr.depth : \A n \in Level(d) : NodeSpace(nodes[n].recs) >= -2
  /\ pc = "closed" => ReadBack = [hdr |-> hdr, map |-> map]

\* The calls do what a set of records does, and find no room only before they
\* begin: bt_space() asks for enough (btree.c:361).
AtLeafDone == pc \in {"added", "removed"} \/ (pc \in {"add", "remove"} /\ Top.node.type = "index")
File == INSTANCE RecordFile WITH
  Calls <- UNION {j.more \cup ToSet(j.script) : j \in Jobs}, records <- Records,
  todo <- IF AtLeafDone THEN Tail(todo) ELSE todo
ImplementsRecords == File!Spec
=============================================================================
