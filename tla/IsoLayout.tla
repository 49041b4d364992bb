------------------------------ MODULE IsoLayout ------------------------------
(***************************************************************************)
(* How mkisofs lays out an image: a list of fragments is gone through      *)
(* three times, to give each fragment its first block, to fill in what     *)
(* refers to other blocks (here the files get theirs, are sorted, and are  *)
(* moved again for an HFS volume), and to write.  Nothing is ever seeked:  *)
(* a directory record is right only if the writing pass arrives where the  *)
(* other two said it would.                                                *)
(*                                                                         *)
(* Sizes of files are in units of which Sector make a block.  The image is *)
(* a sequence of units: <<f, k>> is unit k of the file f, <<0, j>> belongs *)
(* to fragment j, Zero is padding and Junk is memory nobody has set.       *)
(***************************************************************************)
EXTENDS Integers, Sequences, SequencesExt

CONSTANTS
  Jobs,         \* what mkisofs is asked for
  Sector,       \* units in a block (SECTOR_SIZE)
  NSect,        \* blocks that write_one_file() copies at a time (NSECT)
  SystemArea,   \* blocks in front of the volume descriptors (16)
  EndPad,       \* blocks behind the file system (150)
  Align,        \* what the intermediate padding rounds up to (16)
  Cylinder,     \* blocks of a cylinder of a Sun label
  BootBlocks,   \* blocks of the boot partitions of a Sun label
  PathBlocks, DirBlocks, MainSeq,    \* blocks of these fragments
  Udf32, Udf256,\* the blocks that the UDF paddings reach (32, 256)
  MinVolume,    \* blocks an HFS volume has at least (HFS_MIN_SIZE)
  Clumps,       \* the allocation sizes of an HFS volume, in blocks
  MaxTries,     \* how often a volume is tried again (CTC_LOOP)
  StreamMin,    \* blocks the stream file leaves to the rest at least (50)
  Word,         \* what an unsigned int wraps at
  MaxSize, MaxChanges   \* bounds: units of a file, files that change

VARIABLES
  job, frags, at, pc, how,
  last_extent, last_extent_written,
  extent,       \* of the directory record of each entry
  isosize,      \* its size field
  weight,       \* s_entry->sort
  hash,         \* hash.c: the first entry of each file, its extent and size
  dw, tail,     \* the list of deferred writes; where dw_tail points in it
  vol,          \* what make_mac_volume() and hfs_file_gen() remember
  image, item,  \* what is written; the next deferred write
  now           \* the size each file has when it is copied

vars == <<job, frags, at, pc, how, last_extent, last_extent_written, extent,
          isosize, weight, hash, dw, tail, vol, image, item, now>>

Opts == {"hfs", "boot", "sparc", "sunx86", "genboot", "torito", "xvol",
         "joliet", "udf", "rr", "dvd", "pad", "sort"}

Entry == [file : Nat \ {0}, cached : BOOLEAN, mac : BOOLEAN, size : 0..MaxSize,
          weight : Nat, pad : Nat, old : Nat]

(***************************************************************************)
(* What main() accepts: hybrids with a Sun label or generic boot code and  *)
(* streams with any of these are refused, a Macintosh file is never        *)
(* cached, and what an earlier session holds lies in front of this one.    *)
(* A stream is given a medium that has room for the rest.                  *)
(***************************************************************************)
ASSUME JobAssumption ==
  \A j \in Jobs :
    /\ j.opts \subseteq Opts /\ j.session \in Nat /\ j.media \in Nat /\ j.input \in Nat
    /\ j.files \in Seq(Entry)
    /\ "hfs" \in j.opts => j.opts \cap {"sparc", "sunx86", "genboot"} = {}
    /\ ~ {"sparc", "sunx86"} \subseteq j.opts
    /\ "boot" \in j.opts => "hfs" \in j.opts
    /\ "dvd" \in j.opts => "udf" \in j.opts
    /\ j.media # 0 => /\ j.opts \subseteq {"pad", "xvol"} /\ j.session = 0 /\ j.files = <<>>
                      /\ j.media > StreamMin + EndPad
    /\ \A i \in DOMAIN j.files :
         LET e == j.files[i] IN
         /\ e.mac => "hfs" \in j.opts /\ ~ e.cached
         /\ e.old < j.session \/ e.old = 0

ASSUME ParameterAssumption ==
  /\ {Sector, NSect, SystemArea, EndPad, Align, Cylinder, MinVolume, Word} \subseteq Nat \ {0}
  /\ {PathBlocks, DirBlocks, MainSeq, BootBlocks, Udf32, Udf256, MaxTries, StreamMin,
      MaxSize, MaxChanges} \subseteq Nat
  /\ BootBlocks % Cylinder = 0
  /\ Max({SystemArea + 9, Udf32}) + 2 * MainSeq + 2 <= Udf256
  /\ \A c \in Clumps : c \in 1..SystemArea

Zero == <<0, 0>>
Junk == <<-1, 0>>
NotSorted == -1
Unknown == [de |-> 0, start |-> 0, size |-> 0]

Has(o) == o \in job.opts
Sun == Has("sparc") \/ Has("sunx86")
Streaming == job.media # 0
Files == job.files
session_start == job.session

RoundUp(x, y) == ((x + y - 1) \div y) * y
Blocks(size) == RoundUp(size, Sector) \div Sector
Only(b, s) == IF b THEN s ELSE <<>>

-----------------------------------------------------------------------------
(* The list of fragments. *)

\* what they are called here
Names ==
  {"hfs", "sunlabel", "genboot", "startpad", "voldesc", "torito", "xvoldesc", "joliet",
   "end_vol", "recognition", "version", "pad32", "main_seq", "integ_seq", "pad256", "anchor",
   "file_set", "udf_dirtree", "udf_entries", "pathtable", "strpath", "jpathtable", "dirtree",
   "jdirtree", "extension", "strfile", "strdir", "files", "end_anchor", "padend_avdp",
   "endpad", "interpad", "sunboot"}

\* main(): outputlist_insert() of what is there before the sizes are known:
\* the system area, the volume descriptors, UDF, path tables and directories
SystemUse ==
  Only(Has("hfs"), <<"hfs">>) \o Only(Sun, <<"sunlabel">>)
  \o Only(Has("genboot"), <<"genboot">>) \o <<"startpad">>

Descriptors ==
  <<"voldesc">> \o Only(Has("torito"), <<"torito">>) \o Only(Has("xvol"), <<"xvoldesc">>)
  \o Only(Has("joliet"), <<"joliet">>) \o <<"end_vol">>
  \o Only(Has("udf"), <<"recognition">>) \o <<"version">>

Udf == Only(Has("udf"), <<"pad32", "main_seq", "main_seq", "integ_seq", "pad256",
                          "anchor", "file_set", "udf_dirtree", "udf_entries">>)

Directories ==
  <<IF Streaming THEN "strpath" ELSE "pathtable">>
  \o Only(Has("joliet"), <<"jpathtable">>) \o Only(~ Streaming, <<"dirtree">>)
  \o Only(Has("joliet"), <<"jdirtree">>) \o Only(Has("rr"), <<"extension">>)

Contents == IF Streaming THEN <<"strfile", "strdir">> ELSE <<"files">>

Fragments == SystemUse \o Descriptors \o Udf \o Directories \o Contents

\* main(): what is inserted when the files have their blocks
Trailer ==
  IF Has("udf")
  THEN <<"end_anchor">> \o Only(Has("pad"), <<"padend_avdp">>)
  ELSE Only(Has("pad") /\ ~ Sun, <<"endpad">>)

SunTrailer ==
  Only(Sun, Only(Has("pad"), <<"interpad">>) \o <<"sunboot">>
            \o Only(Has("pad"), <<"endpad">>))

StreamPad(n) == Max({StreamMin - (n + 1), 0})

\* size_str_file(): avail_extent
Avail(n) == (job.media - (n + 1 + StreamPad(n)) - (IF Has("pad") THEN EndPad ELSE 0)) % Word

(***************************************************************************)
(* The of_size functions: the block behind a fragment that begins at n.    *)
(***************************************************************************)
SizeAfter(name, n) ==
  CASE name \in {"hfs", "files"} -> n
    [] name \in {"startpad", "genboot"} -> session_start + SystemArea
    [] name = "pad32" -> Max({n, session_start + Udf32})
    [] name = "pad256" -> Max({n, session_start + Udf256})
    [] name = "recognition" -> n + 3
    [] name = "main_seq" -> n + MainSeq
    [] name \in {"integ_seq", "file_set", "strpath"} -> n + 2
    [] name \in {"pathtable", "jpathtable"} -> n + 2 * PathBlocks
    [] name \in {"dirtree", "jdirtree"} -> n + DirBlocks
    [] name = "udf_dirtree" -> n + 1 + DirBlocks
    [] name = "udf_entries" -> n + Len(Files)
    [] name = "strfile" -> n + Avail(n) + StreamPad(n)
    [] name = "interpad" -> RoundUp(n, Align)
    [] name = "endpad" -> n + EndPad
    [] name = "padend_avdp" ->
         IF Has("sparc") THEN ((n + 2 * Align - 1) \div Align) * Align ELSE n + EndPad
    [] name = "sunboot" -> RoundUp(n, Cylinder) + BootBlocks
    [] OTHER -> n + 1

\* hfs_format(): the sectors of the map and the header are whole clumps
Header(c) == c

\* Mutant: generic boot code that does not leave room for a Sun label.
BlocksWrittenOverLabel(name, n) ==
  CASE name = "hfs" -> Min({Header(vol.csize), SystemArea})
    [] name = "startpad" -> session_start + SystemArea - n
    [] name = "genboot" -> SystemArea
    [] name = "pad32" -> Max({session_start + Udf32 - n, 0})
    [] name = "pad256" -> Max({session_start + Udf256 - n, 0})
    [] name = "interpad" -> IF n % Align = 0 THEN 0 ELSE Align - (n % Align)
    [] name = "sunboot" -> RoundUp(n, Cylinder) - n + BootBlocks
    [] OTHER -> SizeAfter(name, n) - n

(***************************************************************************)
(* The of_write functions, but for the files and the stream: the blocks a  *)
(* fragment that begins at n really writes.                                *)
(***************************************************************************)
BlocksWritten(name, n) ==
  CASE name = "hfs" -> Min({Header(vol.csize), SystemArea})
    [] name = "startpad" -> session_start + SystemArea - n
    [] name = "genboot" -> SystemArea - (IF n = session_start THEN 0 ELSE 1)
    [] name = "pad32" -> Max({session_start + Udf32 - n, 0})
    [] name = "pad256" -> Max({session_start + Udf256 - n, 0})
    [] name = "interpad" -> IF n % Align = 0 THEN 0 ELSE Align - (n % Align)
    [] name = "sunboot" -> RoundUp(n, Cylinder) - n + BootBlocks
    [] OTHER -> SizeAfter(name, n) - n

\* the blocks behind the first k of some fragments, and behind all of them
Borders(names, n) ==
  LET behind[k \in 0..Len(names)] ==
        IF k = 0 THEN n ELSE SizeAfter(names[k], behind[k - 1])
  IN behind
SizesAfter(names, n) == Borders(names, n)[Len(names)]

-----------------------------------------------------------------------------
Init ==
  /\ job \in Jobs
  /\ frags = [i \in DOMAIN Fragments |-> [name |-> Fragments[i], start |-> 0]]
  /\ at = 1 /\ pc = "size" /\ how = "running"
  /\ last_extent = session_start /\ last_extent_written = session_start
  /\ extent = [i \in DOMAIN Files |-> Files[i].old]
  /\ isosize = [i \in DOMAIN Files |-> Files[i].size]
  /\ weight = [i \in DOMAIN Files |-> Files[i].weight]
  /\ hash = [f \in {Files[i].file : i \in DOMAIN Files} |-> Unknown]
  /\ dw = <<>> /\ tail = 0
  /\ vol = [first |-> 0, save |-> 0, tries |-> MaxTries, csize |-> 1, pad |-> 0,
            extra |-> 0, catalog |-> 0, padded |-> FALSE]
  /\ image = <<>> /\ item = 0
  /\ now = [f \in DOMAIN hash |-> -1]

planned == <<extent, isosize, weight, hash, dw, tail, vol>>

End(result) == pc' = "ended" /\ how' = result

\* main(), the first pass
SizeFragment ==
  /\ pc = "size"
  /\ IF at <= Len(frags)
     THEN /\ frags' = [frags EXCEPT ![at].start = last_extent]
          /\ last_extent' = SizeAfter(frags[at].name, last_extent)
          /\ at' = at + 1
          /\ UNCHANGED pc
     ELSE /\ pc' = "assign" /\ at' = 1
          /\ UNCHANGED <<frags, last_extent>>
  /\ UNCHANGED <<job, how, last_extent_written, planned, image, item, now>>

-----------------------------------------------------------------------------
(* The files get their blocks: file_gen(). *)

\* find_hash() and add_hash()
Known(i, h) == Files[i].cached /\ h[Files[i].file].de # 0
Remember(h, i, start) ==
  IF Files[i].cached
  THEN [h EXCEPT ![Files[i].file] = [de |-> i, start |-> start, size |-> Files[i].size]]
  ELSE h
Forget(h) == [f \in DOMAIN h |-> Unknown]

\* the blocks of a deferred write and what pads it
Length(node) == Blocks(node.size) + (IF Has("dvd") THEN node.pad ELSE 0)

\* where dw_tail points when a node was appended
BehindAppend == Len(dw) + 1

\* Mutant: the weight of a link is not given to the file.
WeighedAlone(i, de) == [weight EXCEPT ![i] = NotSorted]

\* a link is not sorted itself but raises the weight of the file it is one of
Weighed(i, de) == [weight EXCEPT ![de] = Max({@, weight[i]}), ![i] = NotSorted]

(***************************************************************************)
(* assign_file_addresses(), one entry: those of an earlier session stay, a *)
(* file that is known under another name is not stored again, a file that  *)
(* holds something is put on the list, an empty one gets some block.       *)
(***************************************************************************)
AssignEntry ==
  /\ pc = "assign" /\ at <= Len(Files)
  /\ at' = at + 1
  /\ LET e == Files[at]
         h == hash[e.file]
         node == [entry |-> at, size |-> e.size, extent |-> last_extent,
                  pad |-> IF Has("dvd") THEN e.pad ELSE 0]
     IN \/ /\ e.old # 0
           /\ UNCHANGED <<extent, isosize, weight, hash, dw, tail, last_extent>>
        \/ /\ e.old = 0 /\ Known(at, hash)
           /\ extent' = [extent EXCEPT ![at] = h.start]
           /\ isosize' = [isosize EXCEPT ![at] = h.size]
           /\ weight' = IF Has("sort") THEN Weighed(at, h.de) ELSE weight
           /\ UNCHANGED <<hash, dw, tail, last_extent>>
        \/ /\ e.old = 0 /\ ~ Known(at, hash)
           /\ extent' = [extent EXCEPT ![at] = last_extent]
           /\ IF e.size = 0
              THEN UNCHANGED <<hash, dw, tail, last_extent>>
              ELSE /\ dw' = Append(dw, node) /\ tail' = BehindAppend
                   /\ hash' = Remember(hash, at, last_extent)
                   /\ last_extent' = last_extent + Length(node)
           /\ UNCHANGED <<isosize, weight>>
  /\ UNCHANGED <<job, frags, pc, how, last_extent_written, vol, image, item, now>>

\* compare_sort()
Before(a, b) == \/ weight[a.entry] > weight[b.entry]
                \/ weight[a.entry] = weight[b.entry] /\ a.extent < b.extent

\* how long the first k are together, and all of them
Sums(lengths) ==
  LET sum[k \in 0..Len(lengths)] == IF k = 0 THEN 0 ELSE sum[k - 1] + lengths[k]
  IN sum
Total(lengths) == Sums(lengths)[Len(lengths)]

\* the list with new extents, one behind the other
Placed(list, lengths, start) ==
  [k \in DOMAIN list |-> [list[k] EXCEPT !.extent = start + Sums(lengths)[k - 1]]]

\* set_733() of the records that stand for a deferred write
Recorded(ext, list) ==
  [i \in DOMAIN ext |->
     IF \E k \in DOMAIN list : list[k].entry = i
     THEN list[CHOOSE k \in DOMAIN list : list[k].entry = i].extent
     ELSE ext[i]]

\* the hash table filled anew, in the order of the list: what was added last is
\* found first
Hashed(list) ==
  [f \in DOMAIN hash |->
     LET names == {k \in DOMAIN list :
                     Files[list[k].entry].cached /\ Files[list[k].entry].file = f}
         node == list[Max(names)]
     IN IF names = {} THEN Unknown
        ELSE [de |-> node.entry, start |-> node.extent, size |-> Files[node.entry].size]]

\* qsort(): the numbers of the nodes in their new order
Orders(list) ==
  {order \in Bijection(DOMAIN list, DOMAIN list) :
     \A j, k \in DOMAIN list : j < k => Before(list[order[j]], list[order[k]])}

(***************************************************************************)
(* sort_file_addresses() and reassign_link_addresses().  dw_head is set to *)
(* the first of the new order; dw_tail stays where it was.                 *)
(***************************************************************************)
SortFiles ==
  IF dw = <<>>
  THEN hash' = Forget(hash) /\ UNCHANGED <<dw, tail, extent>>
  ELSE \E order \in Orders(dw) :
         LET sorted == [k \in DOMAIN dw |-> dw[order[k]]]
             new == Placed(sorted, [k \in DOMAIN sorted |-> Length(sorted[k])], dw[1].extent)
             direct == Recorded(extent, new)
         IN /\ dw' = new
            /\ tail' = CHOOSE k \in DOMAIN new : new[k].entry = dw[tail].entry
            /\ hash' = Hashed(new)
            /\ extent' = [i \in DOMAIN extent |->
                            IF weight[i] = NotSorted /\ Known(i, hash')
                            THEN hash'[Files[i].file].start ELSE direct[i]]

\* file_gen() behind assign_file_addresses(), as far as hfs_file_gen()
FilesAssigned ==
  /\ pc = "assign" /\ at > Len(Files)
  /\ IF Has("sort") /\ ~ Streaming THEN SortFiles ELSE UNCHANGED <<hash, dw, tail, extent>>
  /\ pc' = IF Has("hfs") THEN "hfs" ELSE "trailer"
  /\ vol' = [vol EXCEPT !.first = frags[Len(frags)].start, !.save = last_extent]
  /\ UNCHANGED <<job, frags, at, how, last_extent, last_extent_written, isosize, weight,
                 image, item, now>>

-----------------------------------------------------------------------------
(* The HFS volume: hfs_file_gen() and make_mac_volume(). *)

\* insert_padding_file(): the list is continued behind dw_tail
WithPadding ==
  SubSeq(dw, 1, tail) \o
    <<[entry |-> 0, size |-> (MinVolume - (last_extent - session_start)) * Sector,
       extent |-> last_extent, pad |-> 0]>>

\* where the files begin so that they lie on clumps of the volume
Aligned(c) == RoundUp(vol.first - session_start + Header(c), c) - Header(c) + session_start

InClumps(node, c) == RoundUp(Blocks(node.size), c)

\* adj_size() with the list it leaves and the extent behind it
Clumped(list, c) ==
  LET lengths == [k \in DOMAIN list |-> InClumps(list[k], c)]
      new == Placed(list, lengths, Aligned(c))
  IN [dw |-> [k \in DOMAIN new |->
                 [new[k] EXCEPT !.pad = lengths[k] - Blocks(new[k].size)]],
      last |-> Aligned(c) + Total(lengths),
      extent |-> Recorded(extent, new)]

\* Mutant: no adj_size_other().
AdjustedWithoutLinks(list, c) == Clumped(list, c)

\* adj_size() and adj_size_other(), which run when a clump is not a block; both
\* pass over Macintosh files, which the hash would not have anyway
Adjusted(list, c) ==
  LET new == Clumped(list, c)
      h == Hashed(new.dw)
  IN [new EXCEPT !.extent =
        [i \in DOMAIN extent |->
           IF ~ Files[i].mac /\ Known(i, h) THEN h[Files[i].file].start ELSE @[i]]]

\* what the volume adds behind the files: catalog, extents, desktop, a header
Extra(c) == c * (MaxTries - vol.tries + 2)

\* Mutant: the count of rounds starts again.
LeftAgain(loop) == IF loop = 1 THEN MaxTries ELSE loop - 1

\* while (loop--)
Left(loop) == loop - 1

(***************************************************************************)
(* One round of the loop of hfs_file_gen().  A volume that is too small    *)
(* gets a padding file; a clump is a block then, and else the least size   *)
(* that fits, which no later round makes smaller.  A catalog that turns    *)
(* out too small is tried again with a larger one and the blocks counted   *)
(* from where they were; but the list of deferred writes is kept.          *)
(***************************************************************************)
MakeVolume ==
  /\ pc = "hfs"
  /\ LET small == last_extent - session_start < MinVolume
         list == IF small THEN WithPadding ELSE dw
         end == IF small THEN session_start + MinVolume ELSE last_extent
     IN \E c \in IF small THEN {1} ELSE {k \in Clumps : k >= vol.csize},
           result \in {"made", "full", "error"} :
          LET moved == c # 1
              last == IF moved THEN Adjusted(list, c).last ELSE end
              skip == RoundUp(vol.first - session_start + Header(c), c)
                      - (vol.first - session_start + Header(c))
          IN /\ dw' = IF moved THEN Adjusted(list, c).dw ELSE list
             /\ tail' = IF small THEN tail + 1 ELSE tail
             /\ extent' = IF moved THEN Adjusted(list, c).extent ELSE extent
             /\ hash' = IF moved THEN Forget(hash) ELSE hash
             /\ \/ /\ result = "made"
                   /\ last_extent' = last + Extra(c) + (IF Has("boot") THEN 1 ELSE 0)
                   /\ vol' = [vol EXCEPT !.csize = c, !.pad = skip, !.extra = Extra(c),
                                        !.catalog = last, !.padded = @ \/ small]
                   /\ pc' = "trailer" /\ UNCHANGED how
                \/ /\ result = "full" /\ vol.tries # 0
                   /\ last_extent' = vol.save
                   /\ vol' = [vol EXCEPT !.csize = c, !.tries = Left(@), !.padded = @ \/ small]
                   /\ UNCHANGED <<pc, how>>
                \/ /\ result = "error" \/ (result = "full" /\ vol.tries = 0)
                   /\ End("no volume")
                   /\ UNCHANGED <<last_extent, vol>>
  /\ UNCHANGED <<job, frags, at, last_extent_written, isosize, weight, image, item, now>>

\* main(): the fragments that are inserted late, which nothing checks
InsertTrailer ==
  /\ pc = "trailer"
  /\ LET names == Trailer \o SunTrailer
     IN /\ frags' = frags \o [i \in DOMAIN names |-> [name |-> names[i], start |-> 0]]
        /\ last_extent' = SizesAfter(names, last_extent)
  /\ pc' = "write" /\ at' = 1
  /\ UNCHANGED <<job, how, last_extent_written, planned, image, item, now>>

-----------------------------------------------------------------------------
(* The writing pass. *)

Fill(cell, n) == [k \in 1..n |-> cell]

\* xfwrite() of whole blocks
Put(cells) ==
  /\ image' = image \o cells
  /\ last_extent_written' = last_extent_written + Len(cells) \div Sector

(***************************************************************************)
(* write_str_file(): blocks are read as long as one more fits, by unsigned *)
(* arithmetic; what is left is filled.                                     *)
(***************************************************************************)
StreamRoom(n) == Max({((Avail(n) * Sector) % Word) - 1, 0}) \div Sector
StreamSize(n) == Min({job.input, StreamRoom(n) * Sector})

StreamCells(n) ==
  LET size == StreamSize(n)
  IN [k \in 1..size |-> <<1, k - 1>>]
     \o Fill(Zero, (Avail(n) + StreamPad(n)) * Sector - size)

WriteFragment ==
  /\ pc = "write"
  /\ IF at > Len(frags)
     THEN /\ End(IF last_extent = last_extent_written THEN "written" ELSE "botch")
          /\ UNCHANGED <<at, item, image, last_extent_written>>
     ELSE LET f == frags[at] IN
          IF f.start \notin {0, last_extent_written}
          THEN End("botch") /\ UNCHANGED <<at, item, image, last_extent_written>>
          ELSE IF f.name = "files"
          THEN /\ pc' = "files" /\ item' = 1
               /\ Put(Fill(Zero, vol.pad * Sector))
               /\ UNCHANGED <<at, how>>
          ELSE /\ Put(IF f.name = "strfile" THEN StreamCells(last_extent_written)
                      ELSE Fill(<<0, at>>, BlocksWritten(f.name, last_extent_written) * Sector))
               /\ at' = at + 1
               /\ UNCHANGED <<pc, how, item>>
  /\ UNCHANGED <<job, frags, last_extent, planned, now>>

\* how many files are of another size than when they were put on the list
Changed == {f \in DOMAIN now : now[f] # -1 /\ \A k \in DOMAIN dw :
              dw[k].entry # 0 /\ Files[dw[k].entry].file = f => dw[k].size # now[f]}

\* write_one_file(): chunks of NSect blocks, each cleared before it is read
Copied(file, size, held) ==
  [k \in 1..(Blocks(size) * Sector) |-> IF k <= held THEN <<file, k - 1>> ELSE Zero]

\* a chunk of which nothing can be read is fatal
ReadFails(size, held) ==
  \E k \in 0..(size - 1) : k % (NSect * Sector) = 0 /\ held <= k

\* write_files(), one deferred write; the file may have changed by now
WriteDeferred ==
  /\ pc = "files" /\ item <= Len(dw)
  /\ LET node == dw[item]
         pad == Fill(Junk, IF Has("hfs") \/ Has("dvd") THEN node.pad * Sector ELSE 0)
     IN IF node.entry = 0
        THEN /\ Put(Fill(Junk, Blocks(node.size) * Sector) \o pad)
             /\ item' = item + 1
             /\ UNCHANGED <<pc, how, now>>
        ELSE \E held \in 0..MaxSize :
               LET file == Files[node.entry].file IN
               /\ IF now[file] # -1 THEN held = now[file]
                  ELSE held # node.size => Cardinality(Changed) < MaxChanges
               /\ now' = [now EXCEPT ![file] = held]
               /\ IF ReadFails(node.size, held)
                  THEN End("cannot read") /\ UNCHANGED <<item, image, last_extent_written>>
                  ELSE /\ Put(Copied(file, node.size, held) \o pad)
                       /\ item' = item + 1
                       /\ UNCHANGED <<pc, how>>
  /\ UNCHANGED <<job, frags, at, last_extent, planned>>

\* file_write() behind write_files(): catalog and boot file of the HFS volume
FilesWritten ==
  /\ pc = "files" /\ item > Len(dw)
  /\ Put(IF Has("hfs")
         THEN Fill(<<0, at>>, (vol.extra + (IF Has("boot") THEN 1 ELSE 0)) * Sector)
         ELSE <<>>)
  /\ pc' = "write" /\ at' = at + 1
  /\ UNCHANGED <<job, frags, how, last_extent, planned, item, now>>

\* xfwrite() can write no more
WriteFails ==
  /\ pc \in {"write", "files"} /\ End("cannot write")
  /\ UNCHANGED <<job, frags, at, last_extent, last_extent_written, planned, image, item, now>>

Step == \/ SizeFragment \/ AssignEntry \/ FilesAssigned \/ MakeVolume \/ InsertTrailer
        \/ WriteFragment \/ WriteDeferred \/ FilesWritten

Next == Step \/ WriteFails

Spec == Init /\ [][Next]_vars /\ WF_vars(Step)

-----------------------------------------------------------------------------
(* Properties. *)

Outcomes == {"running", "written", "botch", "cannot read", "cannot write", "no volume"}

\* TypeOK: every variable stays in its type; dw_tail points into the list of
\* deferred writes or, when the list is empty, to nothing.
TypeOK ==
  /\ job \in Jobs /\ how \in Outcomes
  /\ pc \in {"size", "assign", "hfs", "trailer", "write", "files", "ended"}
  /\ \A i \in DOMAIN frags : frags[i].name \in Names /\ frags[i].start \in Nat
  /\ {at, item, last_extent, last_extent_written} \subseteq Nat
  /\ extent \in [DOMAIN Files -> Nat] /\ isosize \in [DOMAIN Files -> 0..MaxSize]
  /\ weight \in [DOMAIN Files -> Nat \cup {NotSorted}]
  /\ \A f \in DOMAIN hash : hash[f].de \in {0} \cup DOMAIN Files
  /\ \A k \in DOMAIN dw : dw[k].entry \in {0} \cup DOMAIN Files /\ {dw[k].size, dw[k].pad} \subseteq Nat
  /\ tail \in 0..Len(dw) /\ (tail = 0 <=> dw = <<>>)
  /\ \A k \in DOMAIN image : image[k] \in Int \X Nat
  /\ \A f \in DOMAIN now : now[f] \in -1..MaxSize

(***************************************************************************)
(* What breaks hybrids of small trees: the padding file is put behind      *)
(* dw_tail, which the sort has left in the middle of the list, so that the *)
(* files behind it are lost; and each round for a larger catalog adds      *)
(* another one.  When both happen the blocks lost may be as many as the    *)
(* blocks added, and the check of the end has nothing to say.              *)
(***************************************************************************)
CutOff == vol.padded /\ Has("sort")
PaddedAgain == vol.padded /\ vol.tries < MaxTries
Misled == CutOff /\ PaddedAgain

\* where block b of the file system begins in the image, and unit k of it
Unit(b, k) == image[(b - session_start) * Sector + k + 1]
Stored(i) == Files[i].old = 0 /\ isosize[i] > 0

(***************************************************************************)
(* DataInPlace: in an image that was written to its end every directory    *)
(* record of a file leads to the data of that file, whichever way they     *)
(* were moved: links, sorting (write.c:930), the clumps of an HFS volume   *)
(* (write.c:2645), the paddings of a DVD, fragments of all kinds in front. *)
(* A file that has shrunk since it was looked at (write.c:500) has zeros   *)
(* at its end.  The exception is a sorted hybrid that was padded twice.    *)
(***************************************************************************)
DataInPlace ==
  how = "written" /\ ~ Misled =>
    \A i \in DOMAIN Files : Stored(i) =>
      \A k \in 0..(isosize[i] - 1) :
        LET f == Files[i].file
        IN Unit(extent[i], k) = IF k < now[f] THEN <<f, k>> ELSE Zero

(***************************************************************************)
(* StoredOnce: two names of one file share its blocks, and it is written   *)
(* once: write.c:1062 "This saves some space if there are symlinks         *)
(* present".  Both hold again after sorting and moving.  A name under      *)
(* which a file is not looked up has data of its own.                      *)
(***************************************************************************)
StoredOnce ==
  how = "written" /\ ~ Misled =>
    \A i \in DOMAIN Files : Stored(i) /\ Files[i].cached /\ now[Files[i].file] > 0 =>
      LET others == {j \in DOMAIN Files : Stored(j) /\ Files[j].file = Files[i].file}
      IN /\ \A j \in others : Files[j].cached => extent[j] = extent[i]
         /\ (\A j \in others : Files[j].cached) =>
              Cardinality({k \in DOMAIN image : image[k] = <<Files[i].file, 0>>}) = 1

\* the largest weight given to a name of the file that entry i names
Heaviest(i) ==
  Max({Files[j].weight : j \in {k \in DOMAIN Files :
         \/ k = i
         \/ /\ Stored(k) /\ Files[k].cached /\ Files[i].cached
            /\ Files[k].file = Files[i].file}})

(***************************************************************************)
(* SortedByWeight: with -sort the data lie in descending order of weight,  *)
(* a file that has several names by the heaviest of them (README.sort:80   *)
(* "The file will be sorted according to the highest weighting given to    *)
(* any of the linked files").                                              *)
(***************************************************************************)
SortedByWeight ==
  how = "written" /\ Has("sort") =>
    \A i, j \in DOMAIN Files :
      Stored(i) /\ Stored(j) /\ Heaviest(i) > Heaviest(j) => extent[i] < extent[j]

(***************************************************************************)
(* BotchOnlyForHfs: the three passes agree: the checks of main() that a    *)
(* fragment starts where it should (mkisofs.c:3398) and that the end is    *)
(* where it should be (mkisofs.c:3418) never fail, but for hybrids of      *)
(* three kinds: in a later session; sorted and so small that a padding     *)
(* file is added; and so small and with a catalog that was tried again.    *)
(***************************************************************************)
BotchOnlyForHfs ==
  how = "botch" =>
    Has("hfs") /\ (session_start # 0 \/ CutOff \/ PaddedAgain)

(***************************************************************************)
(* AnchorsFound: a UDF reader looks for an anchor in block 256 and in the  *)
(* last block.  Both are there, whatever lies in front, but for an image   *)
(* that Sun boot partitions follow.                                        *)
(***************************************************************************)
AnchorsFound ==
  how = "written" /\ Has("udf") =>
    LET anchors == {j \in DOMAIN frags : frags[j].name \in {"anchor", "end_anchor", "padend_avdp"}}
    IN /\ Unit(session_start + Udf256, 0)[2] \in anchors
       /\ ~ Sun => Last(image)[2] \in anchors

(***************************************************************************)
(* HfsInPlace: a Macintosh file begins on a clump of the HFS volume, since *)
(* the volume can only name clumps, and the catalog lies where the header  *)
(* of the volume was told it would (volume.c:323).                         *)
(***************************************************************************)
HfsInPlace ==
  how = "written" /\ Has("hfs") /\ ~ Misled =>
    /\ \A i \in DOMAIN Files : Stored(i) /\ Files[i].mac =>
         (extent[i] - session_start) % vol.csize = 0
    /\ \A k \in 0..(vol.extra * Sector - 1) : Unit(vol.catalog, k)[1] = 0
                                           /\ frags[Unit(vol.catalog, k)[2]].name = "files"

(***************************************************************************)
(* StreamKept: what comes from the standard input is kept up to one block  *)
(* less than there is room for (stream.c:152), as long as the room can be  *)
(* counted in bytes by an unsigned int.                                    *)
(***************************************************************************)
StreamKept ==
  how = "written" /\ Streaming =>
    LET start == (CHOOSE f \in Range(frags) : f.name = "strfile").start
        room == Avail(start) - 1
    IN (room + 1) * Sector < Word =>
         \A k \in 0..(Min({job.input, room * Sector}) - 1) : Unit(start, k) = <<1, k>>

(***************************************************************************)
(* ReadFailsForCause: mkisofs gives up on a file only if it has become     *)
(* shorter since its size was taken; a file that grew, and any rounding of *)
(* a size to the chunk that is copied (write.c:489), is no cause.          *)
(***************************************************************************)
ReadFailsForCause ==
  how = "cannot read" => \E k \in DOMAIN dw :
    dw[k].entry # 0 /\ now[Files[dw[k].entry].file] \in 0..(dw[k].size - 1)

(***************************************************************************)
(* LayoutKept: what the readers of the other structures rely on, and that  *)
(* mkisofs gives up only for a cause: files stored once and by weight,     *)
(* anchors, clumps of HFS and the stream where they are looked for.        *)
(***************************************************************************)
LayoutKept ==
  /\ TypeOK /\ StoredOnce /\ SortedByWeight
  /\ AnchorsFound /\ HfsInPlace /\ StreamKept /\ ReadFailsForCause

\* Ends: every run ends, also the loop that tries a volume again.
Ends == <>(pc = "ended")

=============================================================================
