--------------------------- MODULE IsoLayoutProofs ---------------------------
(***************************************************************************)
(* Proofs about how mkisofs lays out an image, for every tree of files,    *)
(* every set of options that main() accepts and sizes of every kind.       *)
(***************************************************************************)
EXTENDS IsoLayout, FiniteSetTheorems, SequenceTheorems, TLAPS

----------------------------------------------------------------------------
(* The inductive invariant                                                 *)

\* The fragments that are known before the sizes are, and the late ones.
Early == Len(Fragments)
Late == Trailer \o SunTrailer
Boot == IF Has("boot") THEN 1 ELSE 0

\* The first block of the files, and the one behind what is known of them first.
Start == frags[Early].start
Behind == SizeAfter(frags[Early].name, Start)

\* Blocks that are written for a deferred write.
Width(node) == Blocks(node.size) + (IF Has("hfs") \/ Has("dvd") THEN node.pad ELSE 0)
Widths(list) == [k \in DOMAIN list |-> Width(list[k])]

\* Deferred writes: what they are, that they stand for files and no two for one.
Nodes == Seq([entry : 0 .. Len(Files), size : Nat, extent : Nat, pad : Nat])
OfFiles(list) ==
    \A k \in DOMAIN list : list[k].entry # 0 =>
      LET e == Files[list[k].entry]
      IN e.old = 0 /\ e.size > 0 /\ list[k].size = e.size /\ isosize[list[k].entry] = e.size
Same(i, j) == i = j \/ (Files[i].cached /\ Files[j].cached /\ Files[i].file = Files[j].file)
Distinct(list) ==
    \A j, k \in DOMAIN list :
      list[j].entry # 0 /\ list[k].entry # 0 /\ Same(list[j].entry, list[k].entry) => j = k
Whole(list) == \A k \in DOMAIN list : list[k].entry # 0

\* An entry is stored by a node, and its record names the block of the node.
Holds(node, i) == node.entry # 0 /\ Same(i, node.entry) /\ node.size = isosize[i]
Recorded1(list, i) ==
    Stored(i) => \E k \in DOMAIN list : Holds(list[k], i) /\ list[k].extent = extent[i]
AllRecorded(list) == \A i \in DOMAIN Files : Recorded1(list, i)

\* The nodes lie one behind the other.
InRow(list, from) ==
    \A k \in DOMAIN list : list[k].extent = from + Sums(Widths(list))[k - 1]

\* Paddings are those of a DVD.
NoClumps(list) == Has("dvd") \/ \A k \in DOMAIN list : list[k].pad = 0

Types ==
    /\ TypeOK
    /\ DOMAIN extent = DOMAIN Files
    /\ dw \in Nodes /\ OfFiles(dw)
    /\ hash \in [{Files[i].file : i \in DOMAIN Files} -> [de : {0} \cup DOMAIN Files, start : Nat, size : Nat]]
    /\ now \in [{Files[i].file : i \in DOMAIN Files} -> -1 .. MaxSize]
    /\ image \in Seq(Int \X Nat)
    /\ vol \in [first : Nat, save : Nat, tries : 0 .. MaxTries, csize : {1} \cup Clumps,
                pad : Nat, extra : Nat, catalog : Nat, padded : BOOLEAN]
    /\ frags \in Seq([name : Names, start : Nat])
    /\ pc = "ended" <=> how # "running"

\* The sizing pass: each fragment begins where the one in front of it ends.
Sized(n) ==
    \A k \in 1 .. n :
      frags[k].start = IF k = 1 THEN session_start
                       ELSE SizeAfter(frags[k - 1].name, frags[k - 1].start)

Sizing ==
    /\ Early <= Len(frags) /\ \A k \in 1 .. Early : frags[k].name = Fragments[k]
    /\ pc \in {"size", "assign", "hfs", "trailer"} => Len(frags) = Early
    /\ IF pc = "size"
       THEN /\ at \in 1 .. Early + 1 /\ Sized(at - 1)
            /\ last_extent = IF at = 1 THEN session_start
                             ELSE SizeAfter(frags[at - 1].name, frags[at - 1].start)
       ELSE Sized(Early)

\* Before the files have their blocks nothing is known of them.
Untouched ==
    pc = "size" =>
      /\ extent = [i \in DOMAIN Files |-> Files[i].old]
      /\ isosize = [i \in DOMAIN Files |-> Files[i].size]
      /\ weight = [i \in DOMAIN Files |-> Files[i].weight]
      /\ \A f \in DOMAIN hash : hash[f] = Unknown
      /\ dw = <<>> /\ tail = 0

\* Before an HFS volume is made nothing is known of one.
NoVolume ==
    /\ vol.csize = 1 /\ vol.pad = 0 /\ vol.extra = 0 /\ ~ vol.padded /\ vol.tries = MaxTries

\* Nothing is written before all is planned.
Unwritten ==
    pc \in {"size", "assign", "hfs", "trailer"} =>
      /\ last_extent_written = session_start /\ image = <<>> /\ item = 0
      /\ now = [f \in DOMAIN now |-> -1]

\* The hash finds the node of a file, if it has one.
Hash ==
    \A f \in DOMAIN hash :
      LET nodes == {k \in DOMAIN dw : Files[dw[k].entry].cached /\ Files[dw[k].entry].file = f}
      IN IF nodes = {} THEN hash[f] = Unknown
         ELSE \E k \in nodes : hash[f] = [de |-> dw[k].entry, start |-> dw[k].extent, size |-> dw[k].size]

\* Of the entries up to n, those that share the data of entry i; and that a
\* weight is the largest of theirs.
Sharers(i, n) == {j \in 1 .. n : Stored(j) /\ Same(i, j)}
Largest(w, i, n) ==
    /\ \A j \in Sharers(i, n) : Files[j].weight <= w
    /\ \E j \in Sharers(i, n) : Files[j].weight = w

\* The files get their blocks.
Assigning ==
    pc = "assign" =>
      /\ at \in 1 .. Len(Files) + 1
      /\ NoVolume /\ Whole(dw) /\ Distinct(dw) /\ NoClumps(dw) /\ InRow(dw, Behind)
      /\ \A k \in DOMAIN dw : dw[k].entry < at
      /\ last_extent = Behind + Total(Widths(dw)) /\ tail = Len(dw)
      /\ Hash
      /\ \A i \in DOMAIN Files :
           IF i < at THEN Recorded1(dw, i)
           ELSE isosize[i] = Files[i].size /\ weight[i] = Files[i].weight
      /\ Has("sort") =>
           /\ \A k \in DOMAIN dw : Largest(weight[dw[k].entry], dw[k].entry, at - 1)
           /\ \A i \in 1 .. at - 1 :
                Stored(i) => weight[i] = NotSorted \/ \E k \in DOMAIN dw : dw[k].entry = i

\* The heavier, the earlier.
HeavyFirst ==
    Has("sort") =>
      \A i, j \in DOMAIN Files :
        Stored(i) /\ Stored(j) /\ Heaviest(i) > Heaviest(j) => extent[i] < extent[j]
Descending ==
    Has("sort") =>
      /\ \A j, k \in DOMAIN dw : j < k => weight[dw[j].entry] >= weight[dw[k].entry]
      /\ \A k \in DOMAIN dw : Largest(weight[dw[k].entry], dw[k].entry, Len(Files))

\* A volume is tried.
Small == vol.save - session_start < MinVolume
Rounds ==
    pc = "hfs" =>
      /\ Has("hfs") /\ (Has("sort") \/ tail = Len(dw))
      /\ vol.first = Start /\ vol.pad = 0 /\ vol.extra = 0
      /\ last_extent = vol.save /\ vol.save >= Start
      /\ Small => vol.csize = 1
      /\ IF vol.padded
         THEN /\ Small /\ vol.tries < MaxTries
              /\ Has("sort") \/ Start + Total(Widths(dw)) >= session_start + MinVolume
         ELSE /\ Whole(dw) /\ Distinct(dw) /\ AllRecorded(dw) /\ Descending
              /\ vol.csize = 1 =>
                   /\ NoClumps(dw) /\ InRow(dw, Start)
                   /\ vol.save = Start + Total(Widths(dw))

\* What the plan makes of the files: all are in the list in their places, and b,
\* the block behind them, is where the writing pass will arrive.
Arrival == Behind + vol.pad + Total(Widths(dw)) + vol.extra + Boot
Complete(b) ==
    /\ b = Arrival
    /\ Distinct(dw) /\ AllRecorded(dw) /\ InRow(dw, Behind + vol.pad)
    /\ Has("hfs") =>
         /\ vol.catalog = Behind + vol.pad + Total(Widths(dw))
         /\ \A k \in DOMAIN dw : dw[k].entry # 0 => (dw[k].extent - session_start) % vol.csize = 0

\* Or files are lost or too many blocks planned, and it will arrive elsewhere.
Incomplete(b) ==
    /\ Has("hfs") /\ (CutOff \/ PaddedAgain)
    /\ b # Arrival \/ Misled

Plan(b) == Complete(b) \/ Incomplete(b)

\* It is the writing pass that runs, or has ended well.
Writes == pc \in {"write", "files"} \/ how = "written"

Planned ==
    /\ pc = "trailer" => Plan(last_extent)
    /\ Writes =>
         /\ Len(frags) = Early + Len(Late)
         /\ \A k \in 1 .. Len(Late) : frags[Early + k] = [name |-> Late[k], start |-> 0]
         /\ \E b \in Nat : Plan(b) /\ last_extent = SizesAfter(Late, b)
    /\ pc \in {"hfs", "trailer", "write", "files"} \/ how = "written" =>
         /\ HeavyFirst
         /\ Has("hfs") \/ (NoVolume /\ Whole(dw))

\* Where the writing pass is.
Position ==
    Writes =>
      /\ IF at <= Early
         THEN IF pc = "files"
              THEN /\ at = Early /\ ~ Streaming /\ item \in 1 .. Len(dw) + 1
                   /\ last_extent_written = Start + vol.pad + Sums(Widths(dw))[item - 1]
              ELSE /\ at >= 1 /\ item = 0
                   /\ IF at = 2 /\ Has("hfs")
                      THEN last_extent_written = session_start + vol.csize
                      ELSE last_extent_written = frags[at].start
         ELSE /\ pc # "files" /\ at - Early \in 1 .. Len(Late) + 1
              /\ last_extent_written = Borders(Late, Arrival)[at - Early - 1]
              /\ item = IF Streaming THEN 0 ELSE Len(dw) + 1
      /\ Has("hfs") /\ session_start # 0 => at <= 2 /\ pc = "write"
      /\ last_extent_written >= session_start
      /\ Len(image) = (last_extent_written - session_start) * Sector

\* Where in the image the data of a node begin.
Place(k) == (Start + vol.pad + Sums(Widths(dw))[k - 1] - session_start) * Sector

\* What has been written: the data of the nodes up to the one that is next, at
\* their places, and no other data of files.
Data ==
    Writes =>
      /\ \A k \in 1 .. item - 1 : dw[k].entry # 0 =>
           LET f == Files[dw[k].entry].file
           IN /\ now[f] # -1 /\ Place(k) + dw[k].size <= Len(image)
              /\ \A u \in 0 .. dw[k].size - 1 :
                   image[Place(k) + u + 1] = IF u < now[f] THEN <<f, u>> ELSE Zero
      /\ ~ Streaming => \A p \in DOMAIN image : image[p][1] > 0 =>
           \E k \in 1 .. item - 1 : /\ dw[k].entry # 0 /\ Files[dw[k].entry].file = image[p][1]
                                    /\ p = Place(k) + image[p][2] + 1

\* The other structures.
Anchor == Len(SystemUse) + Len(Descriptors) + 6
Structures ==
    Writes =>
      /\ Has("udf") /\ at > Anchor =>
           Udf256 * Sector < Len(image) /\ image[Udf256 * Sector + 1] = <<0, Anchor>>
      /\ at > Early + 1 /\ frags[at - 1].name \in {"end_anchor", "padend_avdp"} =>
           image # <<>> /\ Last(image) = <<0, at - 1>>
      /\ Has("hfs") /\ at > Early =>
           LET first == (Start + vol.pad + Total(Widths(dw)) - session_start) * Sector
           IN /\ first + vol.extra * Sector <= Len(image)
              /\ \A k \in 0 .. vol.extra * Sector - 1 : image[first + k + 1] = <<0, Early>>
      /\ Streaming /\ at > Early - 1 =>
           LET first == (frags[Early - 1].start - session_start) * Sector
               size == StreamSize(frags[Early - 1].start)
           IN /\ first + size <= Len(image)
              /\ \A k \in 0 .. size - 1 : image[first + k + 1] = <<1, k>>

\* How it ended.
Outcome ==
    /\ how = "written" => at = Len(frags) + 1 /\ last_extent = last_extent_written
    /\ BotchOnlyForHfs /\ ReadFailsForCause

IInv ==
    /\ Types /\ Sizing /\ Untouched /\ Unwritten /\ Assigning /\ Rounds /\ Planned
    /\ pc \in {"size", "assign"} => NoVolume
    /\ Position /\ Data /\ Structures /\ Outcome

----------------------------------------------------------------------------
(* Numbers                                                                 *)

\* Induction over the natural numbers, for a set of them.
LEMMA Inductive ==
    ASSUME NEW S, 0 \in S, \A n \in Nat : n \in S => n + 1 \in S
    PROVE  \A n \in Nat : n \in S
<1> SUFFICES ASSUME NEW n \in Nat, n \notin S PROVE FALSE
  OBVIOUS
<1> DEFINE R == {ss \in Nat \X Nat : ss[1] < ss[2]}
           B == {x \in Nat : x \notin S}
<1>1. IsWellFoundedOn(R, Nat)
  BY NatLessThanWellFounded DEF OpToRel
<1>3. B # {} /\ B \subseteq Nat
  OBVIOUS
<1>4. PICK m \in B : \A x \in B : ~(<<x, m>> \in R)
  <2> HIDE DEF B, R
  <2> QED
    BY <1>1, <1>3, WFMin
<1>5. m \in Nat /\ m \notin S
  OBVIOUS
<1>6. m # 0 /\ m - 1 \in Nat /\ m - 1 < m
  BY <1>5
<1>7. m - 1 \in S
  BY <1>4, <1>5, <1>6
<1>8. (m - 1) + 1 \in S

  BY <1>6, <1>7
<1> QED
  BY <1>5, <1>8
\* The larger and the smaller one of two numbers.
LEMMA MaxIs ==
    ASSUME NEW a \in Int, NEW b \in Int
    PROVE  Max({a, b}) = IF a >= b THEN a ELSE b
<1> DEFINE M == IF a >= b THEN a ELSE b
<1>2. ASSUME NEW x \in {a, b}, \A y \in {a, b} : x >= y PROVE x = M
  BY <1>2
<1> HIDE DEF M
<1>3. (CHOOSE x \in {a, b} : \A y \in {a, b} : x >= y) = M
  BY <1>2
<1> QED
  BY <1>3 DEF Max, M

LEMMA MinIs ==
    ASSUME NEW a \in Int, NEW b \in Int
    PROVE  Min({a, b}) = IF a <= b THEN a ELSE b
<1> DEFINE M == IF a <= b THEN a ELSE b
<1>2. ASSUME NEW x \in {a, b}, \A y \in {a, b} : x <= y PROVE x = M
  BY <1>2
<1> HIDE DEF M
<1>3. (CHOOSE x \in {a, b} : \A y \in {a, b} : x <= y) = M
  BY <1>2
<1> QED
  BY <1>3 DEF Min, M

\* Products of natural numbers.
LEMMA Product ==
    ASSUME NEW a \in Nat, NEW b \in Nat
    PROVE  a * b \in Nat
  OBVIOUS

LEMMA ProductGrows ==
    ASSUME NEW a \in Nat, NEW c \in Nat, NEW b \in Nat, a <= c
    PROVE  /\ a * b \in Nat /\ c * b \in Nat /\ a * b <= c * b
           /\ c * b - a * b = (c - a) * b /\ (c + 1) * b = c * b + b
<1>1. PICK d \in Nat : c = a + d
  OBVIOUS
<1>5. (c + 1) * b = c * b + b
  OBVIOUS
<1> QED
  BY <1>1, <1>5, Product

\* Quotient and remainder.
LEMMA Division ==
    ASSUME NEW a \in Nat, NEW b \in Nat \ {0}
    PROVE  \E q \in Nat, r \in 0 .. b - 1 : q = a \div b /\ r = a % b /\ a = q * b + r
<1>1. \A q, r : q = a \div b /\ r = a % b => q \in Nat /\ r \in 0 .. b - 1 /\ a = q * b + r
  <2> SUFFICES ASSUME NEW q, NEW r, q = a \div b, r = a % b
               PROVE  q \in Nat /\ r \in 0 .. b - 1 /\ a = q * b + r
    OBVIOUS
  <2> QED
    BY SMTT(30)
<1> QED
  BY <1>1, Zenon

LEMMA DivisionIs ==
    ASSUME NEW q \in Nat, NEW b \in Nat \ {0}, NEW r \in 0 .. b - 1,
           NEW a, a = q * b + r
    PROVE  a \in Nat /\ a \div b = q /\ a % b = r
<1>1. q * b \in Nat /\ a \in Nat
  BY Product
<1>2. PICK p \in Nat, t \in 0 .. b - 1 : p = a \div b /\ t = a % b /\ a = p * b + t
  BY <1>1, Division
<1>3. p * b \in Nat
  BY Product
<1>4. ASSUME p + 1 <= q PROVE FALSE
  BY <1>1, <1>2, <1>3, <1>4, ProductGrows
<1>5. ASSUME q + 1 <= p PROVE FALSE
  BY <1>1, <1>2, <1>3, <1>5, ProductGrows
<1>6. p = q
  BY <1>4, <1>5
<1> QED
  BY <1>1, <1>2, <1>3, <1>6

\* Rounding up goes to the next multiple.
LEMMA RoundedUp ==
    ASSUME NEW x \in Nat, NEW y \in Nat \ {0}
    PROVE  \E q \in Nat : /\ RoundUp(x, y) = q * y /\ q = RoundUp(x, y) \div y
                          /\ x <= q * y /\ q * y < x + y
                          /\ RoundUp(x, y) \in Nat /\ RoundUp(x, y) % y = 0
<1>2. PICK q \in Nat, r \in 0 .. y - 1 :
            q = (x + y - 1) \div y /\ r = (x + y - 1) % y /\ x + y - 1 = q * y + r
  BY Division
<1>3. q * y \in Nat
  BY <1>2, Product
<1>5. RoundUp(x, y) = q * y
  BY <1>2 DEF RoundUp
<1>6. PICK z \in 0 .. y - 1 : z = 0
  OBVIOUS
<1>7. PICK m \in Nat : m = q * y
  BY <1>3
<1>8. m \div y = q /\ m % y = z
  <2>1. m = q * y + z
    BY <1>6, <1>7
  <2> QED
    BY ONLY <2>1, y \in Nat \ {0}, q \in Nat, z \in 0 .. y - 1, DivisionIs
<1> QED
  BY <1>2, <1>3, <1>5, <1>6, <1>7, <1>8


----------------------------------------------------------------------------
(* Sums                                                                    *)

\* A recursive function of the numbers up to n exists.
LEMMA Recursion ==
    ASSUME NEW n \in Nat, NEW a \in Nat, NEW F \in [(1 .. n) \X Nat -> Nat]
    PROVE  \E f \in [0 .. n -> Nat] :
              \A k \in 0 .. n : f[k] = IF k = 0 THEN a ELSE F[<<k, f[k - 1]>>]
<1> DEFINE Obeys(f, m) == \A k \in 0 .. m : f[k] = IF k = 0 THEN a ELSE F[<<k, f[k - 1]>>]
           S == {m \in Nat : m <= n => \E f \in [0 .. m -> Nat] : Obeys(f, m)}
<1>1. 0 \in S
  <2> DEFINE f == [k \in 0 .. 0 |-> a]
  <2>1. f \in [0 .. 0 -> Nat] /\ Obeys(f, 0)
    OBVIOUS
  <2> QED
    BY <2>1
<1>2. \A m \in Nat : m \in S => m + 1 \in S
  <2> SUFFICES ASSUME NEW m \in Nat, m \in S PROVE m + 1 \in S
    OBVIOUS
  <2>a. m + 1 \in Nat /\ (m + 1 <= n => m <= n)
    OBVIOUS
  <2> SUFFICES ASSUME m + 1 <= n
               PROVE  \E f \in [0 .. m + 1 -> Nat] : Obeys(f, m + 1)
    <3> HIDE DEF Obeys
    <3> QED
      BY <2>a
  <2>1. PICK f \in [0 .. m -> Nat] : Obeys(f, m)
    <3> HIDE DEF Obeys
    <3> QED
      OBVIOUS
  <2> DEFINE e == F[<<m + 1, f[m]>>]
             g == [k \in 0 .. m + 1 |-> IF k = m + 1 THEN e ELSE f[k]]
  <2>3. e \in Nat
    BY <2>1
  <2>4. g \in [0 .. m + 1 -> Nat]
    <3> HIDE DEF e
    <3> QED
      BY <2>1, <2>3
  <2>5. Obeys(g, m + 1)
    <3> SUFFICES ASSUME NEW k \in 0 .. m + 1
                 PROVE  g[k] = IF k = 0 THEN a ELSE F[<<k, g[k - 1]>>]
      OBVIOUS
    <3>1. CASE k = m + 1
      <4>1. k # 0 /\ k - 1 = m /\ k - 1 \in 0 .. m + 1 /\ m # m + 1
        BY <3>1
      <4> QED
        BY <3>1, <4>1
    <3>2. CASE k # m + 1
      <4>1. k \in 0 .. m /\ g[k] = f[k]
        BY <3>2
      <4>2. k # 0 => k - 1 \in 0 .. m /\ k - 1 # m + 1 /\ g[k - 1] = f[k - 1]
        BY <4>1
      <4> QED
        BY <2>1, <4>1, <4>2
    <3> QED
      BY <3>1, <3>2
  <2> QED
    BY <2>4, <2>5
<1>3. n \in S
  <2> HIDE DEF S
  <2> QED
    BY <1>1, <1>2, Inductive
<1>4. \E f \in [0 .. n -> Nat] : Obeys(f, n)
  <2> HIDE DEF Obeys
  <2> QED
    BY <1>3
<1>5. PICK f \in [0 .. n -> Nat] : Obeys(f, n)
  <2> HIDE DEF Obeys
  <2> QED
    BY <1>4
<1> QED
  BY <1>5

\* The sums of a sequence of natural numbers.
LEMMA SumsAre ==
    ASSUME NEW s \in Seq(Nat)
    PROVE  /\ Sums(s) \in [0 .. Len(s) -> Nat] /\ Sums(s)[0] = 0
           /\ \A k \in 1 .. Len(s) : Sums(s)[k] = Sums(s)[k - 1] + s[k]
           /\ Total(s) = Sums(s)[Len(s)] /\ Total(s) \in Nat
<1> DEFINE n == Len(s)
           F == [p \in (1 .. n) \X Nat |-> p[2] + s[p[1]]]
           Def(h) == [k \in 0 .. n |-> IF k = 0 THEN 0 ELSE h[k - 1] + s[k]]
<1>1. n \in Nat /\ \A k \in 1 .. n : s[k] \in Nat
  OBVIOUS
<1>2. F \in [(1 .. n) \X Nat -> Nat]
  BY <1>1
<1>3. \A k \in 1 .. n, x \in Nat : F[<<k, x>>] = x + s[k]
  OBVIOUS
<1>4. PICK f \in [0 .. n -> Nat] :
           \A k \in 0 .. n : f[k] = IF k = 0 THEN 0 ELSE F[<<k, f[k - 1]>>]
  <2> HIDE DEF F, n
  <2>1. PICK z \in Nat : z = 0
    OBVIOUS
  <2>2. \E f \in [0 .. n -> Nat] :
           \A k \in 0 .. n : f[k] = IF k = 0 THEN z ELSE F[<<k, f[k - 1]>>]
    BY <1>1, <1>2, Recursion
  <2> QED
    BY <2>1, <2>2
<1> HIDE DEF F, n
<1>5. \A k \in 0 .. n : k # 0 => k - 1 \in 0 .. n /\ k \in 1 .. n
  BY <1>1
<1>6. f = Def(f)
  BY <1>3, <1>4, <1>5
<1>7. Sums(s) = CHOOSE h : h = Def(h)
  BY Zenon DEF Sums, n
<1>8. Sums(s) = Def(Sums(s))
  <2> HIDE DEF Def
  <2> QED
    BY <1>6, <1>7
<1> DEFINE g == Sums(s)
<1> HIDE DEF g
<1>9. g = Def(g)
  BY <1>8 DEF g
<1>10. g = f
  <2> DEFINE S == {m \in Nat : m <= n => g[m] = f[m]}
  <2>1. g[0] = 0 /\ f[0] = 0
    <3>1. 0 \in 0 .. n
      BY <1>1
    <3> QED
      BY <1>4, <1>9, <3>1
  <2>2. \A m \in Nat : m \in S => m + 1 \in S
    <3> SUFFICES ASSUME NEW m \in Nat, m \in S, m + 1 <= n PROVE g[m + 1] = f[m + 1]
      OBVIOUS
    <3>1. m + 1 \in 0 .. n /\ m + 1 # 0 /\ m + 1 - 1 = m /\ m \in 0 .. n
      BY <1>1
    <3>3. f[m + 1] = f[m] + s[m + 1]
      BY <1>6, <3>1
    <3> QED
      BY <1>9, <3>1, <3>3
  <2>3. \A m \in Nat : m \in S
    <3> HIDE DEF S
    <3> QED
      BY <2>1, <2>2, Inductive DEF S
  <2>5. g = [k \in 0 .. n |-> g[k]]
    BY <1>9
  <2> QED
    BY <1>1, <1>4, <2>3, <2>5
<1>11. /\ g \in [0 .. n -> Nat] /\ g[0] = 0
       /\ \A k \in 1 .. n : g[k] = g[k - 1] + s[k]
  <2>1. \A k \in 1 .. n : k \in 0 .. n /\ k # 0
    BY <1>1
  <2> QED
    BY <1>1, <1>4, <1>6, <1>10, <2>1
<1>12. Total(s) = g[n] /\ g[n] \in Nat
  BY <1>1, <1>11 DEF Total, g, n
<1> QED
  BY <1>11, <1>12 DEF g, n

\* The sums of two sequences agree as far as the sequences do.
LEMMA SumsAgree ==
    ASSUME NEW s \in Seq(Nat), NEW t \in Seq(Nat), NEW n \in Nat, n <= Len(s), n <= Len(t),
           \A k \in 1 .. n : s[k] = t[k]
    PROVE  \A k \in 0 .. n : Sums(s)[k] = Sums(t)[k]
<1> DEFINE S == {m \in Nat : m <= n => Sums(s)[m] = Sums(t)[m]}
<1>1. 0 \in S
  BY SumsAre
<1>2. \A m \in Nat : m \in S => m + 1 \in S
  <2> SUFFICES ASSUME NEW m \in Nat, m \in S, m + 1 <= n
               PROVE  Sums(s)[m + 1] = Sums(t)[m + 1]
    OBVIOUS
  <2>1. m + 1 \in 1 .. Len(s) /\ m + 1 \in 1 .. Len(t) /\ m + 1 - 1 = m /\ m + 1 \in 1 .. n
    OBVIOUS
  <2> QED
    BY <2>1, SumsAre
<1> HIDE DEF S
<1>3. \A m \in Nat : m \in S
  BY <1>1, <1>2, Inductive
<1> QED
  BY <1>3 DEF S

\* Sums grow, by no less than each number.
LEMMA SumsGrow ==
    ASSUME NEW s \in Seq(Nat), NEW j \in 0 .. Len(s), NEW k \in 0 .. Len(s), j < k
    PROVE  Sums(s)[j] + s[j + 1] <= Sums(s)[k]
<1> DEFINE S == {m \in Nat : m <= Len(s) /\ j < m => Sums(s)[j] + s[j + 1] <= Sums(s)[m]}
<1>1. 0 \in S
  OBVIOUS
<1>2. \A m \in Nat : m \in S => m + 1 \in S
  <2> SUFFICES ASSUME NEW m \in Nat, m \in S, m + 1 <= Len(s), j < m + 1
               PROVE  Sums(s)[j] + s[j + 1] <= Sums(s)[m + 1]
    OBVIOUS
  <2>1. m + 1 \in 1 .. Len(s) /\ m + 1 - 1 = m /\ m \in 0 .. Len(s) /\ j + 1 \in 1 .. Len(s)
    OBVIOUS
  <2>2. Sums(s)[m + 1] = Sums(s)[m] + s[m + 1]
    BY <2>1, SumsAre
  <2>3. Sums(s)[j] \in Nat /\ Sums(s)[m] \in Nat
    BY <2>1, SumsAre
  <2>4. s[j + 1] \in Nat /\ s[m + 1] \in Nat
    BY <2>1
  <2>5. CASE j = m
    BY <2>2, <2>3, <2>4, <2>5
  <2>6. CASE j < m
    <3>1. Sums(s)[j] + s[j + 1] <= Sums(s)[m]
      BY <2>1, <2>6
    <3> QED
      BY <2>2, <2>3, <2>4, <3>1
  <2> QED
    BY <2>5, <2>6
<1> HIDE DEF S
<1>3. \A m \in Nat : m \in S
  BY <1>1, <1>2, Inductive
<1> QED
  BY <1>3 DEF S

\* The sum of a sequence counts the cells of its columns.
LEMMA SumCounts ==
    ASSUME NEW s \in Seq(Nat), NEW n \in Nat, n <= Len(s), NEW cells,
           \A c : c \in cells <=> c \in (1 .. n) \X Nat /\ c[2] < s[c[1]]
    PROVE  IsFiniteSet(cells) /\ Cardinality(cells) = Sums(s)[n]
<1> DEFINE C(m) == {c \in (1 .. m) \X Nat : c[2] < s[c[1]]}
           S == {m \in Nat : m <= Len(s) => IsFiniteSet(C(m)) /\ Cardinality(C(m)) = Sums(s)[m]}
<1>1. 0 \in S
  BY FS_EmptySet, SumsAre
<1>2. \A m \in Nat : m \in S => m + 1 \in S
  <2> SUFFICES ASSUME NEW m \in Nat, m \in S PROVE m + 1 \in S
    OBVIOUS
  <2>a. m + 1 \in Nat /\ (m + 1 <= Len(s) => m <= Len(s))
    OBVIOUS
  <2> SUFFICES ASSUME m + 1 <= Len(s)
               PROVE  IsFiniteSet(C(m + 1)) /\ Cardinality(C(m + 1)) = Sums(s)[m + 1]
    <3> HIDE DEF C
    <3> QED
      BY <2>a
  <2>1. m + 1 \in 1 .. Len(s) /\ m + 1 - 1 = m /\ m \in 0 .. Len(s)
    OBVIOUS
  <2>2. IsFiniteSet(C(m)) /\ Cardinality(C(m)) = Sums(s)[m]
    <3> HIDE DEF C
    <3> QED
      BY <2>a
  <2>3. PICK h \in Nat : h = s[m + 1]
    BY <2>1
  <2> DEFINE D == {m + 1} \X (0 .. h - 1)
             f == [u \in 0 .. h - 1 |-> <<m + 1, u>>]
  <2>4. f \in Bijection(0 .. h - 1, D)
    <3>2. IsInjective(f)
      BY DEF IsInjective
    <3>3. \A t \in D : \E u \in 0 .. h - 1 : f[u] = t
      OBVIOUS
    <3> QED
      BY <3>2, <3>3 DEF Bijection, Injection, Surjection
  <2>5. IsFiniteSet(0 .. h - 1) /\ Cardinality(0 .. h - 1) = h
    <3>1. 0 \in Int /\ h - 1 \in Int
      OBVIOUS
    <3>2. IsFiniteSet(0 .. h - 1) /\ Cardinality(0 .. h - 1) = IF 0 > h - 1 THEN 0 ELSE h - 1 - 0 + 1
      BY <3>1, FS_Interval
    <3> QED
      BY <3>2
  <2>6. IsFiniteSet(D) /\ Cardinality(D) = h
    <3> HIDE DEF D
    <3> QED
      BY <2>4, <2>5, FS_Bijection DEF ExistsBijection
  <2>7. C(m + 1) = C(m) \cup D
    <3>1. \A c : c \in C(m + 1) => c \in C(m) \cup D
      BY <2>3
    <3>2. \A c : c \in C(m) => c \in C(m + 1)
      OBVIOUS
    <3>3. \A c : c \in D => c \in C(m + 1)
      BY <2>3
    <3> QED
      BY <3>1, <3>2, <3>3
  <2>8. C(m) \cap D = {}
    OBVIOUS
  <2>9. IsFiniteSet(C(m + 1)) /\ Cardinality(C(m + 1)) = Sums(s)[m] + h - 0
    <3> HIDE DEF C, D
    <3>1. Cardinality({}) = 0
      BY FS_EmptySet
    <3>2. /\ IsFiniteSet(C(m) \cup D)
          /\ Cardinality(C(m) \cup D) = Cardinality(C(m)) + Cardinality(D) - Cardinality(C(m) \cap D)
      BY <2>2, <2>6, FS_Union
    <3> QED
      BY <2>2, <2>6, <2>7, <2>8, <3>1, <3>2
  <2> QED
    <3> HIDE DEF C
    <3> QED
      BY <2>1, <2>3, <2>9, SumsAre
<1>3. \A m \in Nat : m \in S
  <2> HIDE DEF S
  <2> QED
    BY <1>1, <1>2, Inductive
<1>4. cells = C(n)
  OBVIOUS
<1>5. n \in S
  BY <1>3
<1> HIDE DEF C
<1> QED
  BY <1>4, <1>5

\* A sum does not depend on the order.
LEMMA SumPermuted ==
    ASSUME NEW s \in Seq(Nat), NEW p \in Bijection(1 .. Len(s), 1 .. Len(s)),
           NEW t \in Seq(Nat), Len(t) = Len(s), \A k \in 1 .. Len(s) : t[k] = s[p[k]]
    PROVE  Total(t) = Total(s)
<1>0. PICK n \in Nat : n = Len(s)
  OBVIOUS
<1> DEFINE C == {c \in (1 .. n) \X Nat : c[2] < s[c[1]]}
           D == {c \in (1 .. n) \X Nat : c[2] < t[c[1]]}
           f == [d \in D |-> <<p[d[1]], d[2]>>]
<1>1. IsFiniteSet(C) /\ Cardinality(C) = Total(s)
  <2>1. \A c : c \in C <=> c \in (1 .. n) \X Nat /\ c[2] < s[c[1]]
    OBVIOUS
  <2> HIDE DEF C
  <2>2. IsFiniteSet(C) /\ Cardinality(C) = Sums(s)[n]
    <3>1. n <= Len(s)
      BY <1>0
    <3> QED
      BY ONLY <2>1, <3>1, s \in Seq(Nat), n \in Nat, SumCounts
  <2> QED
    BY <1>0, <2>2, SumsAre
<1>2. IsFiniteSet(D) /\ Cardinality(D) = Total(t)
  <2>1. \A c : c \in D <=> c \in (1 .. n) \X Nat /\ c[2] < t[c[1]]
    OBVIOUS
  <2> HIDE DEF D
  <2>2. IsFiniteSet(D) /\ Cardinality(D) = Sums(t)[n]
    <3>1. n <= Len(t)
      BY <1>0
    <3> QED
      BY ONLY <2>1, <3>1, t \in Seq(Nat), n \in Nat, SumCounts
  <2> QED
    BY <1>0, <2>2, SumsAre
<1>3. /\ p \in [1 .. n -> 1 .. n]
      /\ \A j, k \in 1 .. n : p[j] = p[k] => j = k
      /\ \A k \in 1 .. n : \E j \in 1 .. n : p[j] = k
  BY <1>0 DEF Bijection, Injection, Surjection, IsInjective
<1>4. f \in Bijection(D, C)
  <2>1. f \in [D -> C]
    <3> SUFFICES ASSUME NEW d \in D PROVE <<p[d[1]], d[2]>> \in C
      OBVIOUS
    <3>1. d[1] \in 1 .. n /\ d[2] \in Nat /\ p[d[1]] \in 1 .. n
      BY <1>3
    <3> QED
      BY <1>0, <3>1
  <2>2. IsInjective(f)
    <3> SUFFICES ASSUME NEW a \in D, NEW b \in D, f[a] = f[b] PROVE a = b
      BY DEF IsInjective
    <3>1. p[a[1]] = p[b[1]] /\ a[2] = b[2]
      OBVIOUS
    <3>2. a[1] \in 1 .. n /\ b[1] \in 1 .. n /\ a = <<a[1], a[2]>> /\ b = <<b[1], b[2]>>
      OBVIOUS
    <3> QED
      BY <1>3, <3>1, <3>2
  <2>3. \A c \in C : \E d \in D : f[d] = c
    <3> SUFFICES ASSUME NEW c \in C PROVE \E d \in D : f[d] = c
      OBVIOUS
    <3>1. PICK j \in 1 .. n : p[j] = c[1]
      BY <1>3
    <3>3. <<j, c[2]>> \in D
      BY <1>0, <3>1
    <3>4. f[<<j, c[2]>>] = c
      BY <3>1, <3>3
    <3> QED
      BY <3>3, <3>4
  <2> HIDE DEF f, C, D
  <2> QED
    BY <2>1, <2>2, <2>3 DEF Bijection, Injection, Surjection
<1> HIDE DEF C, D
<1>6. Cardinality(C) = Cardinality(D)
  BY <1>2, <1>4, FS_Bijection DEF ExistsBijection
<1> QED
  BY <1>1, <1>2, <1>6

----------------------------------------------------------------------------
(* What the assumptions say of a run                                       *)

LEMMA Parameters ==
    /\ Sector \in Nat \ {0} /\ NSect \in Nat \ {0} /\ SystemArea \in Nat \ {0}
    /\ EndPad \in Nat \ {0} /\ Align \in Nat \ {0} /\ Cylinder \in Nat \ {0}
    /\ MinVolume \in Nat \ {0} /\ Word \in Nat \ {0}
    /\ PathBlocks \in Nat /\ DirBlocks \in Nat /\ MainSeq \in Nat /\ BootBlocks \in Nat
    /\ Udf32 \in Nat /\ Udf256 \in Nat /\ MaxTries \in Nat /\ StreamMin \in Nat
    /\ MaxSize \in Nat /\ MaxChanges \in Nat
    /\ \A c \in Clumps : c \in 1 .. SystemArea
    /\ SystemArea + 9 + 2 * MainSeq + 2 <= Udf256 /\ Udf32 + 2 * MainSeq + 2 <= Udf256
<1>1. Max({SystemArea + 9, Udf32}) = IF SystemArea + 9 >= Udf32 THEN SystemArea + 9 ELSE Udf32
  <2>2. PICK x \in Int, y \in Int : x = SystemArea + 9 /\ y = Udf32
    BY ParameterAssumption
  <2> QED
    BY <2>2, MaxIs
<1>2. /\ Sector \in Nat \ {0} /\ NSect \in Nat \ {0} /\ SystemArea \in Nat \ {0}
      /\ EndPad \in Nat \ {0} /\ Align \in Nat \ {0} /\ Cylinder \in Nat \ {0}
      /\ MinVolume \in Nat \ {0} /\ Word \in Nat \ {0}
  BY ParameterAssumption
<1>3. /\ PathBlocks \in Nat /\ DirBlocks \in Nat /\ MainSeq \in Nat /\ BootBlocks \in Nat
      /\ Udf32 \in Nat /\ Udf256 \in Nat /\ MaxTries \in Nat /\ StreamMin \in Nat
      /\ MaxSize \in Nat /\ MaxChanges \in Nat
  BY ParameterAssumption
<1>6. SystemArea + 9 + 2 * MainSeq + 2 <= Udf256 /\ Udf32 + 2 * MainSeq + 2 <= Udf256
  BY <1>1, <1>2, <1>3, ParameterAssumption
<1> QED
  BY <1>2, <1>3, <1>6, ParameterAssumption

LEMMA JobFacts ==
    ASSUME job \in Jobs
    PROVE  /\ session_start \in Nat /\ job.media \in Nat /\ job.input \in Nat
           /\ Files \in Seq(Entry) /\ Len(Files) \in Nat /\ DOMAIN Files = 1 .. Len(Files)
           /\ Has("hfs") => ~ Sun /\ ~ Has("sparc") /\ ~ Has("genboot")
           /\ ~ (Has("sparc") /\ Has("sunx86"))
           /\ Has("boot") => Has("hfs")
           /\ Has("dvd") => Has("udf")
           /\ Streaming => /\ session_start = 0 /\ Files = <<>> /\ ~ Has("hfs") /\ ~ Has("sort")
                           /\ ~ Has("udf") /\ ~ Has("dvd") /\ ~ Sun /\ ~ Has("genboot")
                           /\ ~ Has("joliet") /\ ~ Has("rr")
           /\ \A i \in DOMAIN Files :
                /\ Files[i].file \in Nat \ {0} /\ Files[i].size \in 0 .. MaxSize
                /\ Files[i].cached \in BOOLEAN /\ Files[i].mac \in BOOLEAN
                /\ Files[i].weight \in Nat /\ Files[i].pad \in Nat /\ Files[i].old \in Nat
                /\ Files[i].mac => Has("hfs") /\ ~ Files[i].cached
<1> USE DEF Files, Has, session_start, Sun, Streaming
<1>2. job.files \in Seq(Entry)
  BY JobAssumption
<1>3. Len(Files) \in Nat /\ DOMAIN Files = 1 .. Len(Files)
  BY <1>2
<1>4. \A i \in DOMAIN Files : Files[i] \in Entry
  BY <1>2, <1>3
<1>5. \A i \in DOMAIN Files :
                /\ Files[i].file \in Nat \ {0} /\ Files[i].size \in 0 .. MaxSize
                /\ Files[i].cached \in BOOLEAN /\ Files[i].mac \in BOOLEAN
                /\ Files[i].weight \in Nat /\ Files[i].pad \in Nat /\ Files[i].old \in Nat
  <2> HIDE DEF Files
  <2> QED
    BY <1>4 DEF Entry
<1>8. Streaming => /\ session_start = 0 /\ Files = <<>> /\ job.opts \subseteq {"pad", "xvol"}
  BY JobAssumption
<1>9. Streaming => /\ ~ Has("hfs") /\ ~ Has("sort")
                   /\ ~ Has("udf") /\ ~ Has("dvd") /\ ~ Sun /\ ~ Has("genboot")
                   /\ ~ Has("joliet") /\ ~ Has("rr")
  BY <1>8
<1> QED
  BY <1>2, <1>3, <1>5, <1>8, <1>9, JobAssumption

\* Sizes in blocks.
LEMMA BlocksAre ==
    ASSUME NEW s \in Nat
    PROVE  /\ Blocks(s) \in Nat /\ s <= Blocks(s) * Sector /\ Blocks(s) * Sector \in Nat
           /\ s > 0 => Blocks(s) > 0
           /\ Blocks(s) * Sector < s + Sector
<1>1. Sector \in Nat \ {0}
  BY Parameters
<1>2. PICK q \in Nat : /\ RoundUp(s, Sector) = q * Sector /\ q = RoundUp(s, Sector) \div Sector
                       /\ s <= q * Sector /\ q * Sector < s + Sector
  BY <1>1, RoundedUp
<1> QED
  BY <1>1, <1>2, Product DEF Blocks

LEMMA WholeBlocks ==
    ASSUME NEW n \in Nat
    PROVE  n * Sector \in Nat /\ Blocks(n * Sector) = n
<1>1. Sector \in Nat \ {0}
  BY Parameters
<1>2. n * Sector \in Nat
  BY <1>1, Product
<1>3. PICK s \in Nat : s = n * Sector
  BY <1>2
<1>4. PICK q \in Nat : /\ q = Blocks(s) /\ s <= q * Sector /\ q * Sector < s + Sector
                       /\ q * Sector \in Nat
  BY BlocksAre
<1>5. ASSUME q < n PROVE FALSE
  BY <1>1, <1>2, <1>3, <1>4, <1>5, ProductGrows
<1>6. ASSUME n < q PROVE FALSE
  BY <1>1, <1>3, <1>4, <1>6, ProductGrows
<1> QED
  BY <1>2, <1>3, <1>4, <1>5, <1>6

\* A larger and a smaller number; their difference, or nothing.
LEMMA Beyond ==
    ASSUME NEW m \in Int, NEW n \in Int
    PROVE  /\ Max({m - n, 0}) \in Nat
           /\ n + Max({m - n, 0}) = Max({n, m})
           /\ Max({n, m}) = IF n >= m THEN n ELSE m
<1>1. PICK d \in Int, z \in Int : d = m - n /\ z = 0
  OBVIOUS
<1>3. Max({m - n, 0}) = IF m - n >= 0 THEN m - n ELSE 0
  BY <1>1, MaxIs
<1> QED
  BY <1>3, MaxIs

----------------------------------------------------------------------------
(* The sizes of fragments                                                  *)

\* The cases of the sizes and of what is written.
LEMMA SizeAfterOf ==
    ASSUME NEW n \in Nat
    PROVE  /\ SizeAfter("hfs", n) = n
           /\ SizeAfter("files", n) = n
           /\ SizeAfter("startpad", n) = session_start + SystemArea
           /\ SizeAfter("genboot", n) = session_start + SystemArea
           /\ SizeAfter("pad32", n) = Max({n, session_start + Udf32})
           /\ SizeAfter("pad256", n) = Max({n, session_start + Udf256})
           /\ SizeAfter("recognition", n) = n + 3
           /\ SizeAfter("main_seq", n) = n + MainSeq
           /\ SizeAfter("integ_seq", n) = n + 2
           /\ SizeAfter("file_set", n) = n + 2
           /\ SizeAfter("strpath", n) = n + 2
           /\ SizeAfter("pathtable", n) = n + 2 * PathBlocks
           /\ SizeAfter("jpathtable", n) = n + 2 * PathBlocks
           /\ SizeAfter("dirtree", n) = n + DirBlocks
           /\ SizeAfter("jdirtree", n) = n + DirBlocks
           /\ SizeAfter("udf_dirtree", n) = n + 1 + DirBlocks
           /\ SizeAfter("udf_entries", n) = n + Len(Files)
           /\ SizeAfter("strfile", n) = n + Avail(n) + StreamPad(n)
           /\ SizeAfter("interpad", n) = RoundUp(n, Align)
           /\ SizeAfter("endpad", n) = n + EndPad
           /\ SizeAfter("padend_avdp", n) = (IF Has("sparc") THEN ((n + 2 * Align - 1) \div Align) * Align ELSE n + EndPad)
           /\ SizeAfter("sunboot", n) = RoundUp(n, Cylinder) + BootBlocks
<1>4. SizeAfter("genboot", n) = session_start + SystemArea
  BY Zenon DEF SizeAfter
<1>5. SizeAfter("pad32", n) = Max({n, session_start + Udf32})
  BY Zenon DEF SizeAfter
<1>6. SizeAfter("pad256", n) = Max({n, session_start + Udf256})
  BY Zenon DEF SizeAfter
<1>7. SizeAfter("recognition", n) = n + 3
  BY Zenon DEF SizeAfter
<1>8. SizeAfter("main_seq", n) = n + MainSeq
  BY Zenon DEF SizeAfter
<1>9. SizeAfter("integ_seq", n) = n + 2
  BY Zenon DEF SizeAfter
<1>10. SizeAfter("file_set", n) = n + 2
  BY Zenon DEF SizeAfter
<1>11. SizeAfter("strpath", n) = n + 2
  BY Zenon DEF SizeAfter
<1>12. SizeAfter("pathtable", n) = n + 2 * PathBlocks
  BY Zenon DEF SizeAfter
<1>13. SizeAfter("jpathtable", n) = n + 2 * PathBlocks
  BY Zenon DEF SizeAfter
<1>14. SizeAfter("dirtree", n) = n + DirBlocks
  BY Zenon DEF SizeAfter
<1>15. SizeAfter("jdirtree", n) = n + DirBlocks
  BY Zenon DEF SizeAfter
<1>16. SizeAfter("udf_dirtree", n) = n + 1 + DirBlocks
  BY Zenon DEF SizeAfter
<1>17. SizeAfter("udf_entries", n) = n + Len(Files)
  BY Zenon DEF SizeAfter
<1>18. SizeAfter("strfile", n) = n + Avail(n) + StreamPad(n)
  BY Zenon DEF SizeAfter
<1>19. SizeAfter("interpad", n) = RoundUp(n, Align)
  BY Zenon DEF SizeAfter
<1>20. SizeAfter("endpad", n) = n + EndPad
  BY Zenon DEF SizeAfter
<1>21. SizeAfter("padend_avdp", n) = (IF Has("sparc") THEN ((n + 2 * Align - 1) \div Align) * Align ELSE n + EndPad)
  BY Zenon DEF SizeAfter
<1>22. SizeAfter("sunboot", n) = RoundUp(n, Cylinder) + BootBlocks
  BY Zenon DEF SizeAfter
<1> QED
  BY <1>4, <1>5, <1>6, <1>7, <1>8, <1>9, <1>10, <1>11, <1>12, <1>13, <1>14, <1>15, <1>16,
     <1>17, <1>18, <1>19, <1>20, <1>21, <1>22 DEF SizeAfter

LEMMA OtherSizes ==
    ASSUME NEW n, NEW name,
           name \notin {"hfs", "files", "startpad", "genboot", "pad32", "pad256", "recognition",
                   "main_seq", "integ_seq", "file_set", "strpath", "pathtable",
                   "jpathtable", "dirtree", "jdirtree", "udf_dirtree", "udf_entries",
                   "strfile", "interpad", "endpad", "padend_avdp", "sunboot"}
    PROVE  SizeAfter(name, n) = n + 1
  BY DEF SizeAfter

LEMMA BlocksWrittenOf ==
    ASSUME NEW n \in Nat
    PROVE  /\ BlocksWritten("hfs", n) = Min({Header(vol.csize), SystemArea})
           /\ BlocksWritten("startpad", n) = session_start + SystemArea - n
           /\ BlocksWritten("genboot", n) = SystemArea - (IF n = session_start THEN 0 ELSE 1)
           /\ BlocksWritten("pad32", n) = Max({session_start + Udf32 - n, 0})
           /\ BlocksWritten("pad256", n) = Max({session_start + Udf256 - n, 0})
           /\ BlocksWritten("interpad", n) = (IF n % Align = 0 THEN 0 ELSE Align - (n % Align))
           /\ BlocksWritten("sunboot", n) = RoundUp(n, Cylinder) - n + BootBlocks
           /\ \A name : name \notin {"hfs", "startpad", "genboot", "pad32", "pad256", "interpad", "sunboot"}
                => BlocksWritten(name, n) = SizeAfter(name, n) - n
<1>4. BlocksWritten("pad32", n) = Max({session_start + Udf32 - n, 0})
  BY Zenon DEF BlocksWritten
<1>5. BlocksWritten("pad256", n) = Max({session_start + Udf256 - n, 0})
  BY Zenon DEF BlocksWritten
<1>6. BlocksWritten("interpad", n) = (IF n % Align = 0 THEN 0 ELSE Align - (n % Align))
  BY Zenon DEF BlocksWritten
<1>7. BlocksWritten("sunboot", n) = RoundUp(n, Cylinder) - n + BootBlocks
  BY Zenon DEF BlocksWritten
<1>8. \A name : name \notin {"hfs", "startpad", "genboot", "pad32", "pad256", "interpad", "sunboot"}
                => BlocksWritten(name, n) = SizeAfter(name, n) - n
  BY Zenon DEF BlocksWritten
<1> QED
  BY <1>4, <1>5, <1>6, <1>7, <1>8 DEF BlocksWritten

LEMMA RoundingGrows ==
    ASSUME NEW n \in Nat
    PROVE  /\ RoundUp(n, Align) \in Nat /\ RoundUp(n, Align) >= n
           /\ RoundUp(n, Cylinder) \in Nat /\ RoundUp(n, Cylinder) >= n
           /\ ((n + 2 * Align - 1) \div Align) * Align \in Nat
           /\ ((n + 2 * Align - 1) \div Align) * Align >= n
<1>1. Align \in Nat \ {0} /\ Cylinder \in Nat \ {0}
  BY Parameters
<1>2. RoundUp(n, Align) \in Nat /\ RoundUp(n, Align) >= n
  <2>1. PICK q \in Nat : RoundUp(n, Align) = q * Align /\ n <= q * Align /\ RoundUp(n, Align) \in Nat
    BY <1>1, RoundedUp
  <2> QED
    BY <2>1
<1>3. RoundUp(n, Cylinder) \in Nat /\ RoundUp(n, Cylinder) >= n
  <2>1. PICK q \in Nat : /\ RoundUp(n, Cylinder) = q * Cylinder /\ n <= q * Cylinder
                         /\ RoundUp(n, Cylinder) \in Nat
    BY <1>1, RoundedUp
  <2> QED
    BY <2>1
<1>4. PICK m \in Nat : m = n + Align
  BY <1>1
<1>5. PICK q \in Nat : RoundUp(m, Align) = q * Align /\ m <= q * Align /\ RoundUp(m, Align) \in Nat
  BY <1>1, RoundedUp
<1>7. RoundUp(m, Align) \in Nat /\ RoundUp(m, Align) >= n
  BY <1>1, <1>4, <1>5
<1> QED
  BY <1>1, <1>2, <1>3, <1>4, <1>7 DEF RoundUp

LEMMA StreamNumbers ==
    ASSUME job \in Jobs, NEW n \in Nat
    PROVE  StreamPad(n) \in Nat /\ Avail(n) \in Nat
<1>1. /\ StreamMin \in Nat /\ EndPad \in Nat \ {0} /\ Word \in Nat \ {0} /\ job.media \in Nat
  BY Parameters, JobFacts
<1>2. StreamPad(n) \in Nat
  <2>1. PICK m \in Int, k \in Int : m = StreamMin /\ k = n + 1
    BY <1>1
  <2> QED
    BY <2>1, Beyond DEF StreamPad
<1>3. Avail(n) \in Nat
  <2>1. PICK x \in Int :
          x = job.media - (n + 1 + StreamPad(n)) - (IF Has("pad") THEN EndPad ELSE 0)
    BY <1>1, <1>2
  <2> QED
    BY <1>1, <2>1 DEF Avail
<1> QED
  BY <1>2, <1>3

\* No fragment is put in front of the session, and none but those of the system
\* area ends before it begins.
LEMMA Sizes ==
    ASSUME job \in Jobs, NEW name, NEW n \in Nat
    PROVE  /\ SizeAfter(name, n) \in Nat
           /\ n >= session_start => SizeAfter(name, n) >= session_start
           /\ name \notin {"startpad", "genboot"} => SizeAfter(name, n) >= n
<1>1. /\ session_start \in Nat /\ Len(Files) \in Nat
  BY JobFacts
<1>2. /\ SystemArea \in Nat /\ EndPad \in Nat /\ PathBlocks \in Nat /\ DirBlocks \in Nat
      /\ MainSeq \in Nat /\ BootBlocks \in Nat /\ Udf32 \in Nat /\ Udf256 \in Nat
  BY Parameters
<1>3. /\ RoundUp(n, Align) \in Nat /\ RoundUp(n, Align) >= n
      /\ RoundUp(n, Cylinder) \in Nat /\ RoundUp(n, Cylinder) >= n
      /\ ((n + 2 * Align - 1) \div Align) * Align \in Nat
      /\ ((n + 2 * Align - 1) \div Align) * Align >= n
  BY RoundingGrows
<1>4. StreamPad(n) \in Nat /\ Avail(n) \in Nat
  BY StreamNumbers
<1>5. Max({n, session_start + Udf32}) = IF n >= session_start + Udf32 THEN n ELSE session_start + Udf32
  <2>1. PICK m \in Int : m = session_start + Udf32
    BY <1>1, <1>2
  <2> QED
    BY <2>1, MaxIs
<1>6. Max({n, session_start + Udf256}) = IF n >= session_start + Udf256 THEN n ELSE session_start + Udf256
  <2>1. PICK m \in Int : m = session_start + Udf256
    BY <1>1, <1>2
  <2> QED
    BY <2>1, MaxIs
<1> HIDE DEF session_start, Files
<1>7. CASE name \in {"hfs", "files"}
  <2>1. SizeAfter(name, n) = n
    BY <1>7, SizeAfterOf, Zenon
  <2> QED
    BY <1>1, <1>7, <2>1
<1>8. CASE name \in {"startpad", "genboot"}
  <2>1. SizeAfter(name, n) = session_start + SystemArea
    BY <1>8, SizeAfterOf, Zenon
  <2> QED
    BY <1>1, <1>8, <2>1, <1>2
<1>9. CASE name = "pad32"
  <2>1. SizeAfter(name, n) = Max({n, session_start + Udf32})
    BY <1>9, SizeAfterOf, Zenon
  <2> QED
    BY <1>1, <1>9, <2>1, <1>2, <1>5
<1>10. CASE name = "pad256"
  <2>1. SizeAfter(name, n) = Max({n, session_start + Udf256})
    BY <1>10, SizeAfterOf, Zenon
  <2> QED
    BY <1>1, <1>10, <2>1, <1>2, <1>6
<1>11. CASE name = "recognition"
  <2>1. SizeAfter(name, n) = n + 3
    BY <1>11, SizeAfterOf, Zenon
  <2> QED
    BY <1>1, <1>11, <2>1
<1>12. CASE name = "main_seq"
  <2>1. SizeAfter(name, n) = n + MainSeq
    BY <1>12, SizeAfterOf, Zenon
  <2> QED
    BY <1>1, <1>12, <2>1, <1>2
<1>13. CASE name \in {"integ_seq", "file_set", "strpath"}
  <2>1. SizeAfter(name, n) = n + 2
    BY <1>13, SizeAfterOf, Zenon
  <2> QED
    BY <1>1, <1>13, <2>1
<1>14. CASE name \in {"pathtable", "jpathtable"}
  <2>1. SizeAfter(name, n) = n + 2 * PathBlocks
    BY <1>14, SizeAfterOf, Zenon
  <2> QED
    BY <1>1, <1>14, <2>1, <1>2
<1>15. CASE name \in {"dirtree", "jdirtree"}
  <2>1. SizeAfter(name, n) = n + DirBlocks
    BY <1>15, SizeAfterOf, Zenon
  <2> QED
    BY <1>1, <1>15, <2>1, <1>2
<1>16. CASE name = "udf_dirtree"
  <2>1. SizeAfter(name, n) = n + 1 + DirBlocks
    BY <1>16, SizeAfterOf, Zenon
  <2> QED
    BY <1>1, <1>16, <2>1, <1>2
<1>17. CASE name = "udf_entries"
  <2>1. SizeAfter(name, n) = n + Len(Files)
    BY <1>17, SizeAfterOf, Zenon
  <2> QED
    BY <1>1, <1>17, <2>1
<1>18. CASE name = "strfile"
  <2>1. SizeAfter(name, n) = n + Avail(n) + StreamPad(n)
    BY <1>18, SizeAfterOf, Zenon
  <2> QED
    BY <1>1, <1>18, <2>1, <1>4
<1>19. CASE name = "interpad"
  <2>1. SizeAfter(name, n) = RoundUp(n, Align)
    BY <1>19, SizeAfterOf, Zenon
  <2> QED
    BY <1>1, <1>19, <2>1, <1>3
<1>20. CASE name = "endpad"
  <2>1. SizeAfter(name, n) = n + EndPad
    BY <1>20, SizeAfterOf, Zenon
  <2> QED
    BY <1>1, <1>20, <2>1, <1>2
<1>21. CASE name = "padend_avdp"
  <2>1. SizeAfter(name, n) = (IF Has("sparc") THEN ((n + 2 * Align - 1) \div Align) * Align ELSE n + EndPad)
    BY <1>21, SizeAfterOf, Zenon
  <2> QED
    BY <1>1, <1>21, <2>1, <1>2, <1>3
<1>22. CASE name = "sunboot"
  <2>1. SizeAfter(name, n) = RoundUp(n, Cylinder) + BootBlocks
    BY <1>22, SizeAfterOf, Zenon
  <2> QED
    BY <1>1, <1>22, <2>1, <1>2, <1>3
<1>23. CASE name \notin {"hfs", "files", "startpad", "genboot", "pad32", "pad256", "recognition",
                   "main_seq", "integ_seq", "file_set", "strpath", "pathtable",
                   "jpathtable", "dirtree", "jdirtree", "udf_dirtree", "udf_entries",
                   "strfile", "interpad", "endpad", "padend_avdp", "sunboot"}
  BY <1>1, <1>23, OtherSizes
<1> QED
  BY <1>7, <1>8, <1>9, <1>10, <1>11, <1>12, <1>13, <1>14, <1>15, <1>16, <1>17, <1>18, <1>19, <1>20, <1>21, <1>22, <1>23

\* Padding up to a multiple is what rounding up adds.
LEMMA PaddingRounds ==
    ASSUME NEW n \in Nat, NEW y \in Nat \ {0}
    PROVE  /\ (IF n % y = 0 THEN 0 ELSE y - (n % y)) \in Nat
           /\ n + (IF n % y = 0 THEN 0 ELSE y - (n % y)) = RoundUp(n, y)
<1>1. PICK q \in Nat, r \in 0 .. y - 1 : q = n \div y /\ r = n % y /\ n = q * y + r
  BY Division
<1>2. q * y \in Nat /\ q + 1 \in Nat /\ (q + 1) * y = q * y + y /\ (q + 1) * y \in Nat
  BY <1>1, ProductGrows
<1>3. CASE r = 0
  <2>1. PICK t \in 0 .. y - 1 : t = y - 1
    OBVIOUS
  <2>2. PICK a \in Nat : a = n + y - 1
    OBVIOUS
  <2>3. a = q * y + t
    BY <1>1, <1>2, <1>3, <2>1, <2>2
  <2>4. a \div y = q
    BY ONLY <2>3, q \in Nat, y \in Nat \ {0}, t \in 0 .. y - 1, DivisionIs
  <2> QED
    BY <1>1, <1>2, <1>3, <2>2, <2>4 DEF RoundUp
<1>4. CASE r # 0
  <2>1. PICK t \in 0 .. y - 1 : t = r - 1
    BY <1>4
  <2>2. PICK a \in Nat : a = n + y - 1
    OBVIOUS
  <2>4. PICK p \in Nat : p = q + 1
    BY <1>2
  <2>5. a \div y = p
    <3>1. a = p * y + t
      BY <1>1, <1>2, <1>4, <2>1, <2>2, <2>4
    <3> QED
      BY ONLY <3>1, p \in Nat, y \in Nat \ {0}, t \in 0 .. y - 1, DivisionIs
  <2>7. (q + 1) * y = n + (y - r) /\ y - r \in Nat
    BY <1>1, <1>2
  <2> QED
    BY <1>1, <1>4, <2>2, <2>4, <2>5, <2>7 DEF RoundUp
<1> QED
  BY <1>3, <1>4

\* What a fragment writes is what it was planned to take.
LEMMA Writings ==
    ASSUME job \in Jobs, NEW name, NEW n \in Nat,
           name \notin {"hfs", "files", "strfile"},
           name = "startpad" => n <= session_start + SystemArea,
           name = "genboot" => n \in {session_start, session_start + 1}
    PROVE  /\ BlocksWritten(name, n) \in Nat
           /\ n + BlocksWritten(name, n) = SizeAfter(name, n)
<1>1. /\ session_start \in Nat /\ Len(Files) \in Nat
  BY JobFacts
<1>2. /\ SystemArea \in Nat \ {0} /\ Udf32 \in Nat /\ Udf256 \in Nat /\ Align \in Nat \ {0} /\ BootBlocks \in Nat
  BY Parameters
<1> HIDE DEF session_start, Files
<1>4. CASE name \in {"startpad", "genboot"}
  <2>1. SizeAfter(name, n) = session_start + SystemArea
    BY <1>4, SizeAfterOf, Zenon
  <2>2. CASE name = "startpad"
    <3>1. BlocksWritten(name, n) = session_start + SystemArea - n
      BY <2>2, BlocksWrittenOf, Zenon
    <3> QED
      BY <1>1, <1>2, <2>1, <2>2, <3>1
  <2>3. CASE name = "genboot"
    <3>1. BlocksWritten(name, n) = SystemArea - (IF n = session_start THEN 0 ELSE 1)
      BY <2>3, BlocksWrittenOf, Zenon
    <3> QED
      BY <1>1, <1>2, <2>1, <2>3, <3>1
  <2> QED
    BY <1>4, <2>2, <2>3
<1>5. CASE name \in {"pad32", "pad256"}
  <2>1. PICK m \in Int : m = session_start + (IF name = "pad32" THEN Udf32 ELSE Udf256)
    BY <1>1, <1>2
  <2>3. BlocksWritten(name, n) = Max({m - n, 0})
    <3>1. CASE name = "pad32"
      <4>1. BlocksWritten(name, n) = Max({session_start + Udf32 - n, 0})
        BY <3>1, BlocksWrittenOf
      <4> QED
        BY <1>1, <1>2, <2>1, <3>1, <4>1
    <3>2. CASE name = "pad256"
      <4>1. BlocksWritten(name, n) = Max({session_start + Udf256 - n, 0})
        BY <3>2, BlocksWrittenOf
      <4> QED
        BY <1>1, <1>2, <2>1, <3>2, <4>1
    <3> QED
      BY <1>5, <3>1, <3>2
  <2>4. SizeAfter(name, n) = Max({n, m})
    <3>1. CASE name = "pad32"
      BY <2>1, <3>1, SizeAfterOf
    <3>2. CASE name = "pad256"
      BY <2>1, <3>2, SizeAfterOf
    <3> QED
      BY <1>5, <3>1, <3>2
  <2> QED
    BY <2>3, <2>4, Beyond
<1>6. CASE name = "interpad"
  <2>2. BlocksWritten(name, n) = (IF n % Align = 0 THEN 0 ELSE Align - (n % Align))
    BY <1>6, BlocksWrittenOf, Zenon
  <2>3. SizeAfter(name, n) = RoundUp(n, Align)
    BY <1>6, SizeAfterOf, Zenon
  <2> QED
    BY <1>2, <2>2, <2>3, PaddingRounds
<1>7. CASE name = "sunboot"
  <2>2. BlocksWritten(name, n) = RoundUp(n, Cylinder) - n + BootBlocks
    BY <1>7, BlocksWrittenOf, Zenon
  <2>3. SizeAfter(name, n) = RoundUp(n, Cylinder) + BootBlocks
    BY <1>7, SizeAfterOf, Zenon
  <2> QED
    BY <1>2, <2>2, <2>3, RoundingGrows
<1>8. CASE name \notin {"startpad", "genboot", "pad32", "pad256", "interpad", "sunboot"}
  <2>1. BlocksWritten(name, n) = SizeAfter(name, n) - n
    BY <1>8, BlocksWrittenOf, Zenon
  <2> QED
    BY <1>8, <2>1, Sizes
<1> QED
  BY <1>4, <1>5, <1>6, <1>7, <1>8

\* The blocks behind the first k of some fragments.
LEMMA BordersAre ==
    ASSUME job \in Jobs, NEW names \in Seq(Names), NEW a \in Nat
    PROVE  /\ Borders(names, a) \in [0 .. Len(names) -> Nat] /\ Borders(names, a)[0] = a
           /\ \A k \in 1 .. Len(names) :
                Borders(names, a)[k] = SizeAfter(names[k], Borders(names, a)[k - 1])
           /\ SizesAfter(names, a) = Borders(names, a)[Len(names)] /\ SizesAfter(names, a) \in Nat
<1> DEFINE n == Len(names)
           F == [p \in (1 .. n) \X Nat |-> SizeAfter(names[p[1]], p[2])]
           Def(h) == [k \in 0 .. n |-> IF k = 0 THEN a ELSE SizeAfter(names[k], h[k - 1])]
<1>1. n \in Nat
  OBVIOUS
<1>a. \A name, x : x \in Nat => SizeAfter(name, x) \in Nat
  BY Sizes
<1>2. F \in [(1 .. n) \X Nat -> Nat]
  BY <1>a
<1>3. \A k \in 1 .. n, x \in Nat : F[<<k, x>>] = SizeAfter(names[k], x)
  OBVIOUS
<1>4. PICK f \in [0 .. n -> Nat] :
           \A k \in 0 .. n : f[k] = IF k = 0 THEN a ELSE F[<<k, f[k - 1]>>]
  <2> HIDE DEF F, n
  <2> QED
    BY <1>1, <1>2, Recursion
<1> HIDE DEF F, n
<1>5. \A k \in 0 .. n : k # 0 => k - 1 \in 0 .. n /\ k \in 1 .. n
  BY <1>1
<1>6. f = Def(f)
  <2>1. \A k \in 0 .. n : f[k] = Def(f)[k]
    <3> SUFFICES ASSUME NEW k \in 0 .. n PROVE f[k] = Def(f)[k]
      OBVIOUS
    <3>1. CASE k = 0
      BY <1>4, <3>1
    <3>2. CASE k # 0
      BY <1>3, <1>4, <1>5, <3>2
    <3> QED
      BY <3>1, <3>2
  <2> QED
    BY <2>1
<1>7. Borders(names, a) = CHOOSE h : h = Def(h)
  BY Zenon DEF Borders, n
<1>8. Borders(names, a) = Def(Borders(names, a))
  <2> HIDE DEF Def
  <2> QED
    BY <1>6, <1>7
<1> DEFINE g == Borders(names, a)
<1> HIDE DEF g
<1>9. g = Def(g)
  BY <1>8 DEF g
<1>b. \A k \in 0 .. n : k # 0 => g[k] = SizeAfter(names[k], g[k - 1])
  BY <1>9
<1>c. \A k \in 0 .. n : k # 0 => f[k] = SizeAfter(names[k], f[k - 1])
  BY <1>6
<1>10. g = f
  <2> DEFINE S == {m \in Nat : m <= n => g[m] = f[m]}
  <2>2. \A m \in Nat : m \in S => m + 1 \in S
    <3> SUFFICES ASSUME NEW m \in Nat, m \in S, m + 1 <= n PROVE g[m + 1] = f[m + 1]
      OBVIOUS
    <3>1. m + 1 \in 0 .. n /\ m + 1 # 0 /\ m + 1 - 1 = m /\ m \in 0 .. n
      BY <1>1
    <3> QED
      BY <3>1, <1>c, <1>b
  <2>3. \A m \in Nat : m \in S
    <3> HIDE DEF S
    <3>1. 0 \in S
      BY <1>1, <1>6, <1>9 DEF S
    <3> QED
      BY <2>2, <3>1, Inductive
  <2>5. g = [k \in 0 .. n |-> g[k]]
    BY <1>9
  <2> QED
    BY <1>1, <1>4, <2>3, <2>5
<1>11. /\ g \in [0 .. n -> Nat] /\ g[0] = a
       /\ \A k \in 1 .. n : g[k] = SizeAfter(names[k], g[k - 1])
  <2>1. \A k \in 1 .. n : k \in 0 .. n /\ k # 0
    BY <1>1
  <2>2. f[0] = a
    BY <1>1, <1>6
  <2> QED
    BY <1>4, <1>b, <1>10, <2>1, <2>2
<1> QED
  BY <1>1, <1>11 DEF SizesAfter, g, n

----------------------------------------------------------------------------
(* The list of fragments                                                   *)

\* Fragments that are not treated in ways of their own, and those of one block
\* in front of the recognition area of UDF.
Ordinary == Names \ {"hfs", "startpad", "genboot", "files", "strfile"}
OneBlock == {"voldesc", "torito", "xvoldesc", "joliet", "end_vol"}
Preface ==
    <<"voldesc">> \o Only(Has("torito"), <<"torito">>) \o Only(Has("xvol"), <<"xvoldesc">>)
    \o Only(Has("joliet"), <<"joliet">>) \o <<"end_vol">>

\* Sequences of names.
LEMMA One ==
    ASSUME NEW N, NEW a \in N
    PROVE  <<a>> \in Seq(N) /\ Len(<<a>>) = 1 /\ <<a>>[1] = a
  OBVIOUS

LEMMA Optional ==
    ASSUME NEW N, NEW s \in Seq(N), NEW t, t \in {s, <<>>}
    PROVE  t \in Seq(N) /\ Len(t) \in {0, Len(s)} /\ Len(t) \in Nat
<1>2. CASE t = s
  BY <1>2
<1>3. CASE t = <<>>
  BY <1>3, EmptySeq
<1> QED
  BY <1>2, <1>3

LEMMA Joined ==
    ASSUME NEW N, NEW s \in Seq(N), NEW t \in Seq(N)
    PROVE  /\ s \o t \in Seq(N) /\ Len(s \o t) = Len(s) + Len(t)
           /\ Len(s) \in Nat /\ Len(t) \in Nat
           /\ \A i \in 1 .. Len(s) : (s \o t)[i] = s[i]
           /\ \A i \in 1 .. Len(t) : (s \o t)[Len(s) + i] = t[i]
           /\ s = <<>> => s \o t = t
           /\ t = <<>> => s \o t = s
<1>1. /\ s \o t \in Seq(N) /\ Len(s \o t) = Len(s) + Len(t)
      /\ \A i \in 1 .. Len(s) + Len(t) : (s \o t)[i] = IF i <= Len(s) THEN s[i] ELSE t[i - Len(s)]
  BY ConcatProperties
<1>2. Len(s) \in Nat /\ Len(t) \in Nat
  OBVIOUS
<1>3. \A i \in 1 .. Len(s) : (s \o t)[i] = s[i]
  BY <1>1, <1>2
<1>4. \A i \in 1 .. Len(t) : (s \o t)[Len(s) + i] = t[i]
  <2> SUFFICES ASSUME NEW i \in 1 .. Len(t) PROVE (s \o t)[Len(s) + i] = t[i]
    OBVIOUS
  <2> QED
    BY <1>1, <1>2
<1>5. s \o <<>> = s /\ <<>> \o t = t
  BY ConcatEmptySeq
<1> QED
  BY <1>1, <1>2, <1>3, <1>4, <1>5

LEMMA Two ==
    ASSUME NEW N, NEW a \in N, NEW b \in N
    PROVE  <<a>> \o <<b>> = <<a, b>>
<1> DEFINE s == <<a>>
           t == <<b>>
           r == <<a, b>>
<1>1. s \in Seq(N) /\ Len(s) = 1 /\ s[1] = a /\ t \in Seq(N) /\ Len(t) = 1 /\ t[1] = b
  BY One
<1>2. r \in Seq(N) /\ Len(r) = 2 /\ r[1] = a /\ r[2] = b
  OBVIOUS
<1> HIDE DEF s, t, r
<1>3. /\ s \o t \in Seq(N) /\ Len(s \o t) = 2
      /\ (s \o t)[1] = a /\ (s \o t)[2] = b
  BY <1>1, Joined
<1>4. Len(s \o t) = Len(r) /\ \A i \in 1 .. Len(s \o t) : (s \o t)[i] = r[i]
  BY <1>2, <1>3
<1>5. s \o t = r
  BY <1>2, <1>3, <1>4, SeqEqual
<1> QED
  BY <1>5 DEF s, t, r

LEMMA Three ==
    ASSUME NEW N, NEW a \in N, NEW b \in N, NEW c \in N
    PROVE  <<a, b>> \o <<c>> = <<a, b, c>>
<1> DEFINE s == <<a, b>>
           t == <<c>>
           r == <<a, b, c>>
<1>1. /\ s \in Seq(N) /\ Len(s) = 2 /\ s[1] = a /\ s[2] = b
      /\ t \in Seq(N) /\ Len(t) = 1 /\ t[1] = c
  BY One
<1>2. r \in Seq(N) /\ Len(r) = 3 /\ r[1] = a /\ r[2] = b /\ r[3] = c
  OBVIOUS
<1> HIDE DEF s, t, r
<1>3. /\ s \o t \in Seq(N) /\ Len(s \o t) = 3
      /\ (s \o t)[1] = a /\ (s \o t)[2] = b /\ (s \o t)[3] = c
  <2>1. /\ s \o t \in Seq(N) /\ Len(s \o t) = Len(s) + Len(t)
        /\ \A i \in 1 .. Len(s) : (s \o t)[i] = s[i]
        /\ \A i \in 1 .. Len(t) : (s \o t)[Len(s) + i] = t[i]
    <3>1. s \in Seq(N) /\ t \in Seq(N)
      BY <1>1
    <3> QED
      BY ONLY <3>1, Joined
  <2> QED
    BY <1>1, <2>1
<1>4. Len(s \o t) = Len(r) /\ \A i \in 1 .. Len(s \o t) : (s \o t)[i] = r[i]
  BY <1>2, <1>3
<1>5. s \o t = r
  BY <1>2, <1>3, <1>4, SeqEqual
<1> QED
  BY <1>5 DEF s, t, r

\* The system area: the pad fragment ends it.
LEMMA SystemUseIs ==
    ASSUME job \in Jobs
    PROVE  SystemUse = IF Has("hfs") THEN <<"hfs", "startpad">>
                       ELSE IF Sun /\ Has("genboot") THEN <<"sunlabel", "genboot", "startpad">>
                       ELSE IF Sun THEN <<"sunlabel", "startpad">>
                       ELSE IF Has("genboot") THEN <<"genboot", "startpad">>
                       ELSE <<"startpad">>
<1>1. PICK h \in Names, l \in Names, g \in Names, p \in Names :
        h = "hfs" /\ l = "sunlabel" /\ g = "genboot" /\ p = "startpad"
  BY DEF Names
<1> DEFINE H == <<h>>
           L == <<l>>
           G == <<g>>
           P == <<p>>
           Z == <<>>
<1>2. SystemUse = Only(Has("hfs"), H) \o Only(Sun, L) \o Only(Has("genboot"), G) \o P
  BY <1>1, Zenon DEF SystemUse
<1>3. /\ H \in Seq(Names) /\ L \in Seq(Names) /\ G \in Seq(Names) /\ P \in Seq(Names)
      /\ Z \in Seq(Names)
  BY One, EmptySeq
<1>4. H \o P = <<h, p>> /\ L \o P = <<l, p>> /\ G \o P = <<g, p>> /\ L \o G = <<l, g>>
      /\ <<l, g>> \o P = <<l, g, p>>
  BY Two, Three
<1>5. \A s \in Seq(Names) : Z \o s = s /\ s \o Z = s
  BY ConcatEmptySeq
<1>6. /\ Only(Has("hfs"), H) = IF Has("hfs") THEN H ELSE Z
      /\ Only(Sun, L) = IF Sun THEN L ELSE Z
      /\ Only(Has("genboot"), G) = IF Has("genboot") THEN G ELSE Z
  BY DEF Only
<1> HIDE DEF H, L, G, P, Z
<1>8. CASE Has("hfs")
  <2>1. SystemUse = ((H \o Z) \o Z) \o P
    BY <1>2, <1>6, <1>8, JobFacts
  <2> QED
    BY <1>1, <1>3, <1>4, <1>5, <1>8, <2>1
<1>9. CASE ~ Has("hfs") /\ Sun /\ Has("genboot")
  BY <1>1, <1>2, <1>3, <1>4, <1>5, <1>6, <1>9
<1>10. CASE ~ Has("hfs") /\ Sun /\ ~ Has("genboot")
  BY <1>1, <1>2, <1>3, <1>4, <1>5, <1>6, <1>10
<1>11. CASE ~ Has("hfs") /\ ~ Sun /\ Has("genboot")
  BY <1>1, <1>2, <1>3, <1>4, <1>5, <1>6, <1>11
<1>12. CASE ~ Has("hfs") /\ ~ Sun /\ ~ Has("genboot")
  <2>2. SystemUse = P
    BY <1>2, <1>3, <1>5, <1>6, <1>12
  <2> QED
    BY <1>1, <1>12, <2>2 DEF P
<1> QED
  BY <1>8, <1>9, <1>10, <1>11, <1>12

\* The volume descriptors.
LEMMA PrefaceIs == Preface \in Seq(OneBlock) /\ Len(Preface) \in 2 .. 5
<1>1. PICK v \in OneBlock, t \in OneBlock, x \in OneBlock, j \in OneBlock, e \in OneBlock :
        v = "voldesc" /\ t = "torito" /\ x = "xvoldesc" /\ j = "joliet" /\ e = "end_vol"
  BY DEF OneBlock
<1> HIDE DEF OneBlock
<1> DEFINE V == <<v>>
           T == <<t>>
           X == <<x>>
           J == <<j>>
           E == <<e>>
           tt == Only(Has("torito"), T)
           xx == Only(Has("xvol"), X)
           jj == Only(Has("joliet"), J)
<1>2. Preface = V \o tt \o xx \o jj \o E
  BY <1>1, Zenon DEF Preface
<1>3. /\ V \in Seq(OneBlock) /\ Len(V) = 1 /\ E \in Seq(OneBlock) /\ Len(E) = 1
      /\ T \in Seq(OneBlock) /\ Len(T) = 1 /\ X \in Seq(OneBlock) /\ Len(X) = 1
      /\ J \in Seq(OneBlock) /\ Len(J) = 1
  BY One
<1>4. tt \in {T, <<>>} /\ xx \in {X, <<>>} /\ jj \in {J, <<>>}
  BY DEF Only
<1> HIDE DEF V, T, X, J, E, tt, xx, jj
<1>5. /\ tt \in Seq(OneBlock) /\ Len(tt) \in {0, 1}
      /\ xx \in Seq(OneBlock) /\ Len(xx) \in {0, 1}
      /\ jj \in Seq(OneBlock) /\ Len(jj) \in {0, 1}
  BY <1>3, <1>4, Optional
<1>a. /\ V \in Seq(OneBlock) /\ E \in Seq(OneBlock) /\ tt \in Seq(OneBlock)
      /\ xx \in Seq(OneBlock) /\ jj \in Seq(OneBlock)
  BY <1>3, <1>5
<1>6. V \o tt \in Seq(OneBlock) /\ Len(V \o tt) = Len(V) + Len(tt)
  BY <1>a, Joined
<1>7. V \o tt \o xx \in Seq(OneBlock) /\ Len(V \o tt \o xx) = Len(V \o tt) + Len(xx)
  BY <1>a, <1>6, Joined
<1>8. V \o tt \o xx \o jj \in Seq(OneBlock) /\ Len(V \o tt \o xx \o jj) = Len(V \o tt \o xx) + Len(jj)
  BY <1>a, <1>7, Joined
<1>9. /\ V \o tt \o xx \o jj \o E \in Seq(OneBlock)
      /\ Len(V \o tt \o xx \o jj \o E) = Len(V \o tt \o xx \o jj) + Len(E)
  BY <1>a, <1>8, Joined
<1>12. Len(Preface) \in 2 .. 5
  <2>1. PICK a \in 0 .. 1, b \in 0 .. 1, c \in 0 .. 1 : a = Len(tt) /\ b = Len(xx) /\ c = Len(jj)
    BY <1>5
  <2>2. Len(Preface) = 2 + a + b + c
    BY <1>2, <1>3, <1>5, <1>6, <1>7, <1>8, <1>9, <2>1
  <2> QED
    BY <2>2
<1> QED
  BY <1>2, <1>9, <1>12

LEMMA DescriptorsAre ==
    /\ Descriptors \in Seq(Ordinary) /\ Len(Descriptors) \in Nat
    /\ Has("udf") => /\ Len(Descriptors) = Len(Preface) + 2
                     /\ \A i \in 1 .. Len(Preface) : Descriptors[i] = Preface[i]
                     /\ Descriptors[Len(Preface) + 1] = "recognition"
                     /\ Descriptors[Len(Preface) + 2] = "version"
<1>1. PICK r \in Ordinary, v \in Ordinary : r = "recognition" /\ v = "version"
  BY DEF Ordinary, Names
<1>2. Preface \in Seq(Ordinary)
  <2> HIDE DEF OneBlock, Ordinary
  <2>2. Preface \in Seq(OneBlock)
    BY PrefaceIs
  <2> QED
    BY <2>2, SeqMonotonic DEF OneBlock, Ordinary, Names
<1> HIDE DEF Ordinary
<1> DEFINE R == <<r>>
           V == <<v>>
           rr == Only(Has("udf"), R)
<1>3. Descriptors = Preface \o rr \o V
  BY <1>1, Zenon DEF Descriptors, Preface
<1>4. /\ R \in Seq(Ordinary) /\ Len(R) = 1 /\ R[1] = "recognition"
      /\ V \in Seq(Ordinary) /\ Len(V) = 1 /\ V[1] = "version"
  BY <1>1, One
<1>5. rr \in {R, <<>>} /\ (Has("udf") => rr = R)
  BY DEF Only
<1> HIDE DEF R, V, rr, Preface
<1>7. Preface \o rr \in Seq(Ordinary)
  BY <1>2, <1>4, <1>5, Optional, Joined
<1>9. ASSUME Has("udf")
      PROVE  /\ Len(Descriptors) = Len(Preface) + 2
             /\ \A i \in 1 .. Len(Preface) : Descriptors[i] = Preface[i]
             /\ Descriptors[Len(Preface) + 1] = "recognition"
             /\ Descriptors[Len(Preface) + 2] = "version"
  <2> DEFINE FR == Preface \o R
  <2>2. /\ FR \in Seq(Ordinary) /\ Len(FR) = Len(Preface) + 1 /\ Len(Preface) \in Nat
        /\ \A i \in 1 .. Len(Preface) : FR[i] = Preface[i]
        /\ FR[Len(Preface) + 1] = "recognition"
    BY <1>2, <1>4, Joined
  <2> HIDE DEF FR
  <2>3. /\ Len(FR \o V) = Len(FR) + Len(V)
        /\ \A i \in 1 .. Len(FR) : (FR \o V)[i] = FR[i]
        /\ \A i \in 1 .. Len(V) : (FR \o V)[Len(FR) + i] = V[i]
    BY <1>4, <2>2, Joined
  <2>4. Len(Preface) + 2 = Len(FR) + 1 /\ Len(Preface) + 1 \in 1 .. Len(FR)
        /\ \A i \in 1 .. Len(Preface) : i \in 1 .. Len(FR)
    BY <2>2
  <2>5. 1 \in 1 .. Len(V)
    BY <1>4
  <2> QED
    BY <1>3, <1>4, <1>5, <1>9, <2>2, <2>3, <2>4, <2>5
<1> QED
  BY <1>3, <1>4, <1>7, <1>9, Joined

\* The fragments of UDF.
LEMMA UdfIs ==
    /\ Udf \in Seq(Ordinary) /\ Len(Udf) \in Nat
    /\ Has("udf") => /\ Len(Udf) = 9
                     /\ Udf[1] = "pad32" /\ Udf[2] = "main_seq" /\ Udf[3] = "main_seq"
                     /\ Udf[4] = "integ_seq" /\ Udf[5] = "pad256" /\ Udf[6] = "anchor"
<1>1. PICK p \in Ordinary, m \in Ordinary, i \in Ordinary, q \in Ordinary :
        p = "pad32" /\ m = "main_seq" /\ i = "integ_seq" /\ q = "pad256"
  BY DEF Ordinary, Names
<1>2. PICK a \in Ordinary, f \in Ordinary, d \in Ordinary, e \in Ordinary :
        a = "anchor" /\ f = "file_set" /\ d = "udf_dirtree" /\ e = "udf_entries"
  BY DEF Ordinary, Names
<1> HIDE DEF Ordinary
<1> DEFINE U == <<p, m, m, i, q, a, f, d, e>>
<1>3. U \in Seq(Ordinary)
  OBVIOUS
<1>4. Len(U) = 9 /\ U[1] = p /\ U[2] = m /\ U[3] = m /\ U[4] = i /\ U[5] = q /\ U[6] = a
  OBVIOUS
<1>6. Udf \in {U, <<>>} /\ (Has("udf") => Udf = U)
  BY <1>1, <1>2 DEF Udf, Only
<1> HIDE DEF U
<1>7. Udf \in Seq(Ordinary) /\ Len(Udf) \in Nat
  BY <1>3, <1>6, Optional
<1> QED
  BY <1>1, <1>2, <1>4, <1>6, <1>7

\* Path tables and directories.
LEMMA DirectoriesAre == Directories \in Seq(Ordinary) /\ Len(Directories) \in Nat \ {0}
<1>1. PICK s \in Ordinary, p \in Ordinary, j \in Ordinary, d \in Ordinary, k \in Ordinary,
           r \in Ordinary :
        /\ s = "strpath" /\ p = "pathtable" /\ j = "jpathtable" /\ d = "dirtree"
        /\ k = "jdirtree" /\ r = "extension"
  BY DEF Ordinary, Names
<1> HIDE DEF Ordinary
<1> DEFINE P == <<IF Streaming THEN s ELSE p>>
           J == <<j>>
           D == <<d>>
           K == <<k>>
           R == <<r>>
           jj == Only(Has("joliet"), J)
           dd == Only(~ Streaming, D)
           kk == Only(Has("joliet"), K)
           rr == Only(Has("rr"), R)
<1>2. Directories = P \o jj \o dd \o kk \o rr
  BY <1>1, Zenon DEF Directories
<1>3. /\ P \in Seq(Ordinary) /\ Len(P) = 1 /\ J \in Seq(Ordinary) /\ D \in Seq(Ordinary)
      /\ K \in Seq(Ordinary) /\ R \in Seq(Ordinary)
  BY One
<1>4. jj \in {J, <<>>} /\ dd \in {D, <<>>} /\ kk \in {K, <<>>} /\ rr \in {R, <<>>}
  BY DEF Only
<1> HIDE DEF P, J, D, K, R, jj, dd, kk, rr
<1>5. /\ jj \in Seq(Ordinary) /\ dd \in Seq(Ordinary) /\ kk \in Seq(Ordinary)
      /\ rr \in Seq(Ordinary)
  BY <1>3, <1>4, Optional
<1>6. P \o jj \in Seq(Ordinary) /\ Len(P \o jj) = Len(P) + Len(jj) /\ Len(jj) \in Nat
  BY <1>3, <1>5, Joined
<1>7. P \o jj \o dd \in Seq(Ordinary) /\ Len(P \o jj \o dd) = Len(P \o jj) + Len(dd) /\ Len(dd) \in Nat
  BY <1>5, <1>6, Joined
<1>8. /\ P \o jj \o dd \o kk \in Seq(Ordinary)
      /\ Len(P \o jj \o dd \o kk) = Len(P \o jj \o dd) + Len(kk) /\ Len(kk) \in Nat
  BY <1>5, <1>7, Joined
<1>9. /\ P \o jj \o dd \o kk \o rr \in Seq(Ordinary)
      /\ Len(P \o jj \o dd \o kk \o rr) = Len(P \o jj \o dd \o kk) + Len(rr) /\ Len(rr) \in Nat
  BY <1>5, <1>8, Joined
<1> QED
  BY <1>2, <1>3, <1>6, <1>7, <1>8, <1>9

\* The whole list of the first fragments.
LEMMA FragmentsAre ==
    ASSUME job \in Jobs
    PROVE  /\ Fragments \in Seq(Names) /\ Early \in Nat
           /\ Len(SystemUse) \in 1 .. 3 /\ Len(Descriptors) \in Nat /\ Len(Udf) \in Nat
           /\ \A i \in 1 .. Len(SystemUse) : Fragments[i] = SystemUse[i]
           /\ \A i \in 1 .. Len(Descriptors) : Fragments[Len(SystemUse) + i] = Descriptors[i]
           /\ \A i \in 1 .. Len(Udf) :
                Fragments[Len(SystemUse) + Len(Descriptors) + i] = Udf[i]
           /\ Len(SystemUse) + Len(Descriptors) + Len(Udf) < Early - (IF Streaming THEN 2 ELSE 1)
           /\ \A i \in Len(SystemUse) + 1 .. Early - (IF Streaming THEN 2 ELSE 1) :
                Fragments[i] \in Ordinary
           /\ IF Streaming THEN Fragments[Early - 1] = "strfile" /\ Fragments[Early] = "strdir"
              ELSE Fragments[Early] = "files"
<1> DEFINE SD == SystemUse \o Descriptors
           SDU == SD \o Udf
           SDUD == SDU \o Directories
<1>1. SystemUse \in Seq(Names) /\ Len(SystemUse) \in 1 .. 3
  <2>1. PICK h \in Names, l \in Names, g \in Names, p \in Names :
          h = "hfs" /\ l = "sunlabel" /\ g = "genboot" /\ p = "startpad"
    BY DEF Names
  <2> HIDE DEF Names
  <2> DEFINE A == <<h, p>>
             B == <<l, g, p>>
             C == <<l, p>>
             D == <<g, p>>
             E == <<p>>
  <2>3. /\ A \in Seq(Names) /\ Len(A) = 2 /\ B \in Seq(Names) /\ Len(B) = 3
        /\ C \in Seq(Names) /\ Len(C) = 2 /\ D \in Seq(Names) /\ Len(D) = 2
        /\ E \in Seq(Names) /\ Len(E) = 1
    OBVIOUS
  <2>4. SystemUse \in {A, B, C, D, E}
    BY <2>1, SystemUseIs
  <2> HIDE DEF A, B, C, D, E
  <2>5. CASE SystemUse \in {A, C, D}
    BY <2>3, <2>5
  <2>6. CASE SystemUse = B
    BY <2>3, <2>6
  <2>7. CASE SystemUse = E
    BY <2>3, <2>7
  <2> QED
    BY <2>4, <2>5, <2>6, <2>7
<1>2. /\ Descriptors \in Seq(Ordinary) /\ Udf \in Seq(Ordinary) /\ Directories \in Seq(Ordinary)
      /\ Len(Descriptors) \in Nat /\ Len(Udf) \in Nat /\ Len(Directories) \in Nat \ {0}
  BY DescriptorsAre, UdfIs, DirectoriesAre
<1>4. /\ Contents \in Seq(Names)
      /\ IF Streaming THEN Len(Contents) = 2 /\ Contents[1] = "strfile" /\ Contents[2] = "strdir"
         ELSE Len(Contents) = 1 /\ Contents[1] = "files"
  <2>1. PICK f \in Names, d \in Names, s \in Names : f = "strfile" /\ d = "strdir" /\ s = "files"
    BY DEF Names
  <2> HIDE DEF Names
  <2>3. /\ <<f, d>> \in Seq(Names) /\ Len(<<f, d>>) = 2 /\ <<f, d>>[1] = f /\ <<f, d>>[2] = d
        /\ <<s>> \in Seq(Names) /\ Len(<<s>>) = 1 /\ <<s>>[1] = s
    OBVIOUS
  <2> QED
    BY <2>1, <2>3 DEF Contents
<1> HIDE DEF Names, Ordinary
<1>5. Descriptors \in Seq(Names) /\ Udf \in Seq(Names) /\ Directories \in Seq(Names)
  BY <1>2, SeqMonotonic DEF Ordinary
<1>6. /\ \A i \in 1 .. Len(Descriptors) : Descriptors[i] \in Ordinary
      /\ \A i \in 1 .. Len(Udf) : Udf[i] \in Ordinary
      /\ \A i \in 1 .. Len(Directories) : Directories[i] \in Ordinary
  BY <1>2
<1>7. /\ SD \in Seq(Names) /\ Len(SD) = Len(SystemUse) + Len(Descriptors)
      /\ \A i \in 1 .. Len(SystemUse) : SD[i] = SystemUse[i]
      /\ \A i \in 1 .. Len(Descriptors) : SD[Len(SystemUse) + i] = Descriptors[i]
  <2>1. SystemUse \in Seq(Names) /\ Descriptors \in Seq(Names)
    BY <1>1, <1>5
  <2> QED
    BY ONLY <2>1, Joined DEF SD
<1> HIDE DEF SD
<1>8. /\ SDU \in Seq(Names) /\ Len(SDU) = Len(SD) + Len(Udf)
      /\ \A i \in 1 .. Len(SD) : SDU[i] = SD[i]
      /\ \A i \in 1 .. Len(Udf) : SDU[Len(SD) + i] = Udf[i]
  <2>1. SD \in Seq(Names) /\ Udf \in Seq(Names)
    BY <1>5, <1>7
  <2> QED
    BY ONLY <2>1, Joined DEF SDU
<1> HIDE DEF SDU
<1>9. /\ SDUD \in Seq(Names) /\ Len(SDUD) = Len(SDU) + Len(Directories)
      /\ \A i \in 1 .. Len(SDU) : SDUD[i] = SDU[i]
      /\ \A i \in 1 .. Len(Directories) : SDUD[Len(SDU) + i] = Directories[i]
  <2>1. SDU \in Seq(Names) /\ Directories \in Seq(Names)
    BY <1>5, <1>8
  <2> QED
    BY ONLY <2>1, Joined DEF SDUD
<1> HIDE DEF SDUD
<1>10. /\ Fragments \in Seq(Names) /\ Len(Fragments) = Len(SDUD) + Len(Contents)
       /\ \A i \in 1 .. Len(SDUD) : Fragments[i] = SDUD[i]
       /\ \A i \in 1 .. Len(Contents) : Fragments[Len(SDUD) + i] = Contents[i]
  <2>1. SDUD \in Seq(Names) /\ Contents \in Seq(Names)
    BY <1>4, <1>9
  <2>2. Fragments = SDUD \o Contents
    BY Zenon DEF Fragments, SDUD, SDU, SD
  <2> QED
    BY ONLY <2>1, <2>2, Joined
<1>11. PICK a \in 1 .. 3, d \in Nat, u \in Nat, p \in Nat \ {0}, c \in 1 .. 2 :
         /\ a = Len(SystemUse) /\ d = Len(Descriptors) /\ u = Len(Udf) /\ p = Len(Directories)
         /\ c = Len(Contents) /\ c = IF Streaming THEN 2 ELSE 1
  BY <1>1, <1>2, <1>4
<1>12. Len(SD) = a + d /\ Len(SDU) = a + d + u /\ Len(SDUD) = a + d + u + p /\ Early = a + d + u + p + c
  BY <1>7, <1>8, <1>9, <1>10, <1>11 DEF Early
<1>13. \A i \in 1 .. a : Fragments[i] = SystemUse[i]
  BY <1>7, <1>8, <1>9, <1>10, <1>11, <1>12
<1>14. \A i \in 1 .. d : Fragments[a + i] = Descriptors[i]
  <2> SUFFICES ASSUME NEW i \in 1 .. d PROVE Fragments[a + i] = Descriptors[i]
    OBVIOUS
  <2>1. PICK k \in 1 .. a + d : k = a + i
    OBVIOUS
  <2>a. k \in 1 .. Len(SD) /\ k \in 1 .. Len(SDU) /\ k \in 1 .. Len(SDUD)
    BY <1>12
  <2>3. SDU[k] = SD[k] /\ SDUD[k] = SDU[k] /\ Fragments[k] = SDUD[k]
    BY <1>8, <1>9, <1>10, <2>a
  <2> QED
    BY <1>7, <1>11, <2>1, <2>3
<1>15. \A i \in 1 .. u : Fragments[a + d + i] = Udf[i]
  <2> SUFFICES ASSUME NEW i \in 1 .. u PROVE Fragments[a + d + i] = Udf[i]
    OBVIOUS
  <2>1. PICK k \in 1 .. a + d + u : k = a + d + i
    OBVIOUS
  <2>2. k \in 1 .. Len(SDU) /\ k \in 1 .. Len(SDUD)
    BY <1>12
  <2>3. SDUD[k] = SDU[k] /\ Fragments[k] = SDUD[k]
    BY ONLY <1>9, <1>10, <2>2
  <2> QED
    BY <1>8, <1>11, <1>12, <2>1, <2>3
<1>16. \A i \in 1 .. p : Fragments[a + d + u + i] = Directories[i]
  <2> SUFFICES ASSUME NEW i \in 1 .. p PROVE Fragments[a + d + u + i] = Directories[i]
    OBVIOUS
  <2>1. PICK k \in 1 .. a + d + u + p : k = a + d + u + i
    OBVIOUS
  <2>2. SDUD[k] = Directories[i]
    BY <1>9, <1>11, <1>12, <2>1
  <2>3. Fragments[k] = SDUD[k]
    BY <1>10, <1>12
  <2> QED
    BY <2>1, <2>2, <2>3
<1>17. \A i \in a + 1 .. a + d + u + p : Fragments[i] \in Ordinary
  <2> SUFFICES ASSUME NEW i \in a + 1 .. a + d + u + p PROVE Fragments[i] \in Ordinary
    OBVIOUS
  <2>1. CASE i <= a + d
    <3>1. PICK k \in 1 .. d : i = a + k
      BY <2>1
    <3> QED
      BY <1>6, <1>11, <1>14, <3>1
  <2>2. CASE a + d < i /\ i <= a + d + u
    <3>1. PICK k \in 1 .. u : i = a + d + k
      BY <2>2
    <3> QED
      BY <1>6, <1>11, <1>15, <3>1
  <2>3. CASE a + d + u < i
    <3>1. PICK k \in 1 .. p : i = a + d + u + k
      BY <2>3
    <3> QED
      BY <1>6, <1>11, <1>16, <3>1
  <2> QED
    BY <2>1, <2>2, <2>3
<1>18. IF Streaming THEN Fragments[Early - 1] = "strfile" /\ Fragments[Early] = "strdir"
       ELSE Fragments[Early] = "files"
  <2>1. PICK m \in Nat : m = Len(SDUD)
    BY <1>12
  <2>2. Early = m + c
    BY <1>12, <2>1
  <2>3. CASE Streaming
    <3>0. 1 \in 1 .. Len(Contents) /\ 2 \in 1 .. Len(Contents)
      <4>1. Len(Contents) = 2
        BY <1>4, <2>3, Zenon
      <4> QED
        BY <4>1
    <3>2. Early - 1 = m + 1 /\ Early = m + 2
      BY <1>11, <2>2, <2>3
    <3> QED
      BY <1>4, <1>10, <2>1, <2>3, <3>0, <3>2
  <2>4. CASE ~ Streaming
    BY <1>4, <1>10, <1>11, <2>1, <2>2, <2>4
  <2> QED
    BY <2>3, <2>4
<1>19. PICK e \in Nat : e = Early
  BY <1>11, <1>12
<1>21. /\ a + d + u < e - (IF Streaming THEN 2 ELSE 1)
       /\ \A i \in a + 1 .. e - (IF Streaming THEN 2 ELSE 1) : Fragments[i] \in Ordinary
  BY <1>11, <1>12, <1>17, <1>19
<1>22. /\ \A i \in 1 .. Len(SystemUse) : Fragments[i] = SystemUse[i]
       /\ \A i \in 1 .. Len(Descriptors) : Fragments[Len(SystemUse) + i] = Descriptors[i]
       /\ \A i \in 1 .. Len(Udf) : Fragments[Len(SystemUse) + Len(Descriptors) + i] = Udf[i]
  BY <1>11, <1>13, <1>14, <1>15
<1> QED
  BY <1>1, <1>2, <1>10, <1>11, <1>18, <1>19, <1>21, <1>22

\* Where the fragments are that are treated in ways of their own.
LEMMA Shape ==
    ASSUME job \in Jobs
    PROVE  /\ Early \in Nat /\ Early >= 3
           /\ Has("hfs") => Fragments[1] = "hfs" /\ Fragments[2] = "startpad"
           /\ \A k \in 1 .. Early :
                /\ Fragments[k] \in Names
                /\ Fragments[k] = "hfs" => k = 1 /\ Has("hfs")
                /\ Fragments[k] = "genboot" => k = 1 \/ (k = 2 /\ Fragments[1] = "sunlabel")
                /\ Fragments[k] = "startpad" =>
                     \/ k = 1
                     \/ k = 2 /\ Fragments[1] \in {"hfs", "sunlabel", "genboot"}
                     \/ k = 3 /\ Fragments[2] = "genboot"
                /\ Fragments[k] = "files" <=> k = Early /\ ~ Streaming
                /\ Fragments[k] = "strfile" <=> k = Early - 1 /\ Streaming
<1>1. PICK a \in 1 .. 3, e \in Nat, c \in 1 .. 2 :
        a = Len(SystemUse) /\ e = Early /\ c = IF Streaming THEN 2 ELSE 1
  BY FragmentsAre
<1>2. /\ Fragments \in Seq(Names)
      /\ \A i \in 1 .. a : Fragments[i] = SystemUse[i]
      /\ a < e - c
      /\ \A i \in a + 1 .. e - c : Fragments[i] \in Ordinary
      /\ IF Streaming THEN Fragments[e - 1] = "strfile" /\ Fragments[e] = "strdir"
         ELSE Fragments[e] = "files"
  BY <1>1, FragmentsAre
<1>4. e >= 3
  BY <1>1, <1>2
<1>5. /\ Has("hfs") => a = 2 /\ Fragments[1] = "hfs" /\ Fragments[2] = "startpad"
      /\ \A k \in 1 .. a :
           /\ Fragments[k] = "hfs" => k = 1 /\ Has("hfs")
           /\ Fragments[k] = "genboot" => k = 1 \/ (k = 2 /\ Fragments[1] = "sunlabel")
           /\ Fragments[k] = "startpad" =>
                \/ k = 1
                \/ k = 2 /\ Fragments[1] \in {"hfs", "sunlabel", "genboot"}
                \/ k = 3 /\ Fragments[2] = "genboot"
           /\ Fragments[k] \notin {"files", "strfile"}
  <2>1. CASE Has("hfs")
    <3>1. SystemUse = <<"hfs", "startpad">>
      BY <2>1, SystemUseIs
    <3>2. a = 2 /\ SystemUse[1] = "hfs" /\ SystemUse[2] = "startpad"
      BY <1>1, <3>1
    <3>4. \A k \in 1 .. a : k = 1 \/ k = 2
      BY <3>2
    <3> QED
      BY <1>2, <2>1, <3>2, <3>4
  <2>2. CASE ~ Has("hfs") /\ Sun /\ Has("genboot")
    <3>1. SystemUse = <<"sunlabel", "genboot", "startpad">>
      BY <2>2, SystemUseIs
    <3>2. a = 3 /\ SystemUse[1] = "sunlabel" /\ SystemUse[2] = "genboot" /\ SystemUse[3] = "startpad"
      BY <1>1, <3>1
    <3>4. \A k \in 1 .. a : k = 1 \/ k = 2 \/ k = 3
      BY <3>2
    <3> QED
      BY <1>2, <2>2, <3>2, <3>4
  <2>3. CASE ~ Has("hfs") /\ Sun /\ ~ Has("genboot")
    <3>1. SystemUse = <<"sunlabel", "startpad">>
      BY <2>3, SystemUseIs
    <3>2. a = 2 /\ SystemUse[1] = "sunlabel" /\ SystemUse[2] = "startpad"
      BY <1>1, <3>1
    <3>4. \A k \in 1 .. a : k = 1 \/ k = 2
      BY <3>2
    <3> QED
      BY <1>2, <2>3, <3>2, <3>4
  <2>4. CASE ~ Has("hfs") /\ ~ Sun /\ Has("genboot")
    <3>1. SystemUse = <<"genboot", "startpad">>
      BY <2>4, SystemUseIs
    <3>2. a = 2 /\ SystemUse[1] = "genboot" /\ SystemUse[2] = "startpad"
      BY <1>1, <3>1
    <3>4. \A k \in 1 .. a : k = 1 \/ k = 2
      BY <3>2
    <3> QED
      BY <1>2, <2>4, <3>2, <3>4
  <2>5. CASE ~ Has("hfs") /\ ~ Sun /\ ~ Has("genboot")
    <3>1. SystemUse = <<"startpad">>
      BY <2>5, SystemUseIs
    <3>2. a = 1 /\ SystemUse[1] = "startpad"
      BY <1>1, <3>1
    <3>4. \A k \in 1 .. a : k = 1
      BY <3>2
    <3> QED
      BY <1>2, <2>5, <3>2, <3>4
  <2> QED
    BY <2>1, <2>2, <2>3, <2>4, <2>5
<1>6. \A k \in 1 .. e :
        /\ Fragments[k] = "hfs" => k = 1 /\ Has("hfs")
        /\ Fragments[k] = "genboot" => k = 1 \/ (k = 2 /\ Fragments[1] = "sunlabel")
        /\ Fragments[k] = "startpad" =>
             \/ k = 1
             \/ k = 2 /\ Fragments[1] \in {"hfs", "sunlabel", "genboot"}
             \/ k = 3 /\ Fragments[2] = "genboot"
        /\ Fragments[k] = "files" <=> k = e /\ ~ Streaming
        /\ Fragments[k] = "strfile" <=> k = e - 1 /\ Streaming
  <2> SUFFICES ASSUME NEW k \in 1 .. e
               PROVE  /\ Fragments[k] = "hfs" => k = 1 /\ Has("hfs")
                      /\ Fragments[k] = "genboot" => k = 1 \/ (k = 2 /\ Fragments[1] = "sunlabel")
                      /\ Fragments[k] = "startpad" =>
                           \/ k = 1
                           \/ k = 2 /\ Fragments[1] \in {"hfs", "sunlabel", "genboot"}
                           \/ k = 3 /\ Fragments[2] = "genboot"
                      /\ Fragments[k] = "files" <=> k = e /\ ~ Streaming
                      /\ Fragments[k] = "strfile" <=> k = e - 1 /\ Streaming
    OBVIOUS
  <2>1. CASE k <= a
    BY <1>1, <1>2, <1>5, <2>1
  <2>2. CASE a < k /\ k <= e - c
    BY <1>1, <1>2, <2>2 DEF Ordinary
  <2>3. CASE e - c < k
    <3>1. CASE Streaming
      BY <1>1, <1>2, <1>4, <2>3, <3>1
    <3>2. CASE ~ Streaming
      BY <1>1, <1>2, <1>4, <2>3, <3>2
    <3> QED
      BY <3>1, <3>2
  <2> QED
    BY <1>1, <2>1, <2>2, <2>3
<1> QED
  BY <1>1, <1>2, <1>4, <1>5, <1>6 DEF Early

\* Where the fragments begin.
LEMMA Starts ==
    ASSUME job \in Jobs, NEW n \in 0 .. Early, Sized(n),
           \A k \in 1 .. Early : frags[k].name = Fragments[k]
    PROVE  \A k \in 1 .. n :
             /\ frags[k].start \in Nat /\ frags[k].start >= session_start
             /\ frags[k].name = "hfs" => frags[k].start = session_start
             /\ k = 2 /\ Has("hfs") => frags[k].start = session_start
             /\ frags[k].name = "startpad" => frags[k].start <= session_start + SystemArea
             /\ frags[k].name = "genboot" => frags[k].start \in {session_start, session_start + 1}
<1>1. session_start \in Nat /\ SystemArea \in Nat \ {0} /\ Early \in Nat
  BY JobFacts, Parameters, Shape
<1>2. \A k \in 1 .. n :
        frags[k].start = IF k = 1 THEN session_start
                         ELSE SizeAfter(frags[k - 1].name, frags[k - 1].start)
  BY DEF Sized
<1> DEFINE S == {m \in Nat : m \in 1 .. n => frags[m].start \in Nat /\ frags[m].start >= session_start}
<1>3. 0 \in S
  OBVIOUS
<1>4. \A m \in Nat : m \in S => m + 1 \in S
  <2> SUFFICES ASSUME NEW m \in Nat, m \in S, m + 1 \in 1 .. n
               PROVE  frags[m + 1].start \in Nat /\ frags[m + 1].start >= session_start
    OBVIOUS
  <2>1. CASE m = 0
    BY <1>1, <1>2, <2>1
  <2>2. CASE m # 0
    <3>1. m \in 1 .. n /\ m + 1 # 1 /\ m + 1 - 1 = m
      BY <1>1, <2>2
    <3>2. PICK x \in Nat : x = frags[m].start /\ x >= session_start
      BY <3>1
    <3>4. SizeAfter(frags[m].name, x) \in Nat /\ SizeAfter(frags[m].name, x) >= session_start
      BY <3>2, Sizes
    <3> QED
      BY <1>2, <3>1, <3>2, <3>4
  <2> QED
    BY <2>1, <2>2
<1>5. \A m \in 1 .. n : frags[m].start \in Nat /\ frags[m].start >= session_start
  <2>1. \A m \in Nat : m \in S
    <3> HIDE DEF S
    <3> QED
      BY <1>3, <1>4, Inductive
  <2> QED
    BY <2>1
<1> SUFFICES ASSUME NEW k \in 1 .. n
             PROVE  /\ frags[k].name = "hfs" => frags[k].start = session_start
                    /\ k = 2 /\ Has("hfs") => frags[k].start = session_start
                    /\ frags[k].name = "startpad" => frags[k].start <= session_start + SystemArea
                    /\ frags[k].name = "genboot" => frags[k].start \in {session_start, session_start + 1}
  BY <1>5
<1>6. k \in 1 .. Early /\ frags[k].name = Fragments[k]
  BY <1>1
<1>7. frags[1].start = session_start
  BY <1>1, <1>2
<1>9. k = 2 => frags[2].start = SizeAfter(frags[1].name, session_start) /\ frags[1].name = Fragments[1]
  BY <1>1, <1>2, <1>7
<1>10. k = 3 => \E x \in Nat : frags[3].start = SizeAfter(frags[2].name, x) /\ frags[2].name = Fragments[2]
  <2> SUFFICES ASSUME k = 3
               PROVE  \E x \in Nat : frags[3].start = SizeAfter(frags[2].name, x) /\ frags[2].name = Fragments[2]
    OBVIOUS
  <2>1. 2 \in 1 .. n /\ 3 \in 1 .. n /\ 2 \in 1 .. Early
    BY <1>1
  <2> QED
    BY <1>2, <1>5, <2>1
<1>11. k = 2 /\ Has("hfs") => frags[k].start = session_start
  <2> SUFFICES ASSUME k = 2, Has("hfs") PROVE frags[2].start = session_start
    OBVIOUS
  <2>2. SizeAfter("hfs", session_start) = session_start
    BY <1>1, SizeAfterOf, Zenon
  <2> QED
    BY <1>9, <2>2, Shape
<1>12. ASSUME frags[k].name = "genboot"
       PROVE  frags[k].start \in {session_start, session_start + 1}
  BY <1>6, <1>7, <1>9, <1>12, Shape, OtherSizes
<1>13. ASSUME frags[k].name = "startpad"
       PROVE  frags[k].start <= session_start + SystemArea
  <2>2. /\ SizeAfter("sunlabel", session_start) = session_start + 1
        /\ SizeAfter("hfs", session_start) = session_start
        /\ \A x \in Nat : SizeAfter("genboot", x) = session_start + SystemArea
    <3>2. SizeAfter("hfs", session_start) = session_start
      BY <1>1, SizeAfterOf, Zenon
    <3> QED
      BY <3>2, SizeAfterOf, OtherSizes
  <2> QED
    BY <1>1, <1>6, <1>7, <1>9, <1>10, <1>13, <2>2, Shape
<1> QED
  BY <1>6, <1>7, <1>11, <1>12, <1>13, Shape

----------------------------------------------------------------------------
(* The initial states, and what no step changes                            *)

\* What depends on the job alone stays.
LEMMA SameJob ==
    ASSUME job' = job
    PROVE  /\ Files' = Files /\ session_start' = session_start /\ Streaming' = Streaming /\ Sun' = Sun
           /\ \A o : Has(o)' = Has(o)
           /\ Fragments' = Fragments /\ Early' = Early /\ Late' = Late /\ Boot' = Boot
           /\ \A name, n : SizeAfter(name, n)' = SizeAfter(name, n)
           /\ \A names, n : Borders(names, n)' = Borders(names, n)
           /\ \A names, n : SizesAfter(names, n)' = SizesAfter(names, n)
           /\ \A node : Width(node)' = Width(node)
           /\ \A i, j : Same(i, j)' = Same(i, j)
<1>4. Late' = Late /\ Boot' = Boot
  BY DEF Late, Trailer, SunTrailer, Boot, Only, Has, Sun
<1>5. \A name, n : SizeAfter(name, n)' = SizeAfter(name, n)
  BY DEF SizeAfter, Avail, StreamPad, Has, Files, session_start
<1>6. \A names, n : Borders(names, n)' = Borders(names, n)
  BY DEF Borders, SizeAfter, Avail, StreamPad, Has, Files, session_start
<1>7. \A names, n : SizesAfter(names, n)' = SizesAfter(names, n)
  BY DEF SizesAfter, Borders, SizeAfter, Avail, StreamPad, Has, Files, session_start
<1>8. \A node : Width(node)' = Width(node)
  BY DEF Width, Has
<1>9. \A i, j : Same(i, j)' = Same(i, j)
  BY DEF Same, Files
<1> QED
  BY <1>4, <1>5, <1>6, <1>7, <1>8, <1>9
     DEF Has, Early, Fragments, SystemUse, Descriptors, Udf, Directories, Contents, Only, Sun,
     Streaming, Files, session_start

LEMMA IsSeq ==
    ASSUME NEW S, NEW n \in Nat, NEW s \in [1 .. n -> S]
    PROVE  s \in Seq(S) /\ Len(s) = n /\ DOMAIN s = 1 .. n
<1>2. s \in Seq(S)
  BY SeqDef
<1>4. Len(s) = n
  BY <1>2, LenProperties
<1> QED
  BY <1>2, <1>4

LEMMA Initially == Init => IInv
<1> SUFFICES ASSUME Init PROVE IInv
  OBVIOUS
<1>1. /\ job \in Jobs /\ at = 1 /\ pc = "size" /\ how = "running"
      /\ frags = [i \in DOMAIN Fragments |-> [name |-> Fragments[i], start |-> 0]]
      /\ last_extent = session_start /\ last_extent_written = session_start
      /\ extent = [i \in DOMAIN Files |-> Files[i].old]
      /\ isosize = [i \in DOMAIN Files |-> Files[i].size]
      /\ weight = [i \in DOMAIN Files |-> Files[i].weight]
      /\ hash = [f \in {Files[i].file : i \in DOMAIN Files} |-> Unknown]
      /\ dw = <<>> /\ tail = 0
      /\ vol = [first |-> 0, save |-> 0, tries |-> MaxTries, csize |-> 1, pad |-> 0,
                extra |-> 0, catalog |-> 0, padded |-> FALSE]
      /\ image = <<>> /\ item = 0
      /\ now = [f \in DOMAIN hash |-> -1]
  BY DEF Init
<1>3. MaxTries \in Nat /\ MaxSize \in Nat
  BY Parameters
<1>4. Fragments \in Seq(Names) /\ Early \in Nat /\ Early >= 3
  BY <1>1, FragmentsAre, Shape
<1>5. /\ DOMAIN Fragments = 1 .. Early
      /\ \A k \in 1 .. Early : Fragments[k] \in Names
  BY <1>4 DEF Early
<1>6. /\ frags \in Seq([name : Names, start : Nat]) /\ Len(frags) = Early
      /\ \A k \in 1 .. Early : frags[k].name = Fragments[k] /\ frags[k].start = 0
  BY <1>1, <1>4, <1>5, IsSeq
<1>10. Untouched
  BY <1>1 DEF Untouched
<1>11. Unwritten
  BY <1>1 DEF Unwritten
<1>12. Assigning /\ Rounds /\ Planned
  BY <1>1 DEF Assigning, Rounds, Planned, Writes
<1>13. NoVolume
  BY <1>1 DEF NoVolume
<1>14. Position /\ Data /\ Structures
  BY <1>1 DEF Position, Data, Structures, Writes
<1>15. Outcome
  BY <1>1 DEF Outcome, BotchOnlyForHfs, ReadFailsForCause
<1> QED
  BY <1>1, <1>3, <1>4, <1>5, <1>6, <1>10, <1>11, <1>12, <1>13, <1>14, <1>15, JobFacts,
     EmptySeq DEF Outcomes, Unknown, TypeOK, Sized, Sizing, Nodes, OfFiles, Types, IInv

----------------------------------------------------------------------------
(* Deferred writes                                                         *)

LEMMA Nodes1 ==
    ASSUME NEW list \in Nodes
    PROVE  /\ Len(list) \in Nat /\ DOMAIN list = 1 .. Len(list)
           /\ \A k \in 1 .. Len(list) :
                /\ list[k] \in [entry : 0 .. Len(Files), size : Nat, extent : Nat, pad : Nat]
                /\ list[k].entry \in 0 .. Len(Files) /\ list[k].size \in Nat
                /\ list[k].extent \in Nat /\ list[k].pad \in Nat
<1>1. Len(list) \in Nat /\ DOMAIN list = 1 .. Len(list)
  BY DEF Nodes
<1>2. \A k \in 1 .. Len(list) :
         list[k] \in [entry : 0 .. Len(Files), size : Nat, extent : Nat, pad : Nat]
  <2> DEFINE S == [entry : 0 .. Len(Files), size : Nat, extent : Nat, pad : Nat]
  <2>1. list \in Seq(S)
    BY DEF Nodes
  <2> HIDE DEF S
  <2>2. \A k \in 1 .. Len(list) : list[k] \in S
    BY <2>1
  <2> QED
    BY <2>2 DEF S
<1> QED
  BY <1>1, <1>2

LEMMA WidthIs ==
    ASSUME NEW node \in [entry : 0 .. Len(Files), size : Nat, extent : Nat, pad : Nat]
    PROVE  /\ Width(node) \in Nat /\ Blocks(node.size) \in Nat
           /\ Blocks(node.size) <= Width(node) /\ node.size <= Blocks(node.size) * Sector
           /\ node.size > 0 => Width(node) > 0
<1>1. node.size \in Nat /\ node.pad \in Nat
  OBVIOUS
<1>2. PICK s \in Nat : s = node.size
  BY <1>1
<1>3. Blocks(s) \in Nat /\ s <= Blocks(s) * Sector /\ (s > 0 => Blocks(s) > 0)
  BY BlocksAre
<1>4. PICK b \in Nat, p \in Nat :
        b = Blocks(s) /\ p = IF Has("hfs") \/ Has("dvd") THEN node.pad ELSE 0
  BY <1>1, <1>3
<1>5. Width(node) = b + p
  BY <1>2, <1>4 DEF Width
<1> QED
  BY <1>2, <1>3, <1>4, <1>5

LEMMA WidthsAre ==
    ASSUME NEW list \in Nodes
    PROVE  /\ Widths(list) \in Seq(Nat) /\ Len(Widths(list)) = Len(list)
           /\ \A k \in 1 .. Len(list) : Widths(list)[k] = Width(list[k])
           /\ Total(Widths(list)) \in Nat
           /\ Total(Widths(list)) = Sums(Widths(list))[Len(list)]
           /\ \A k \in 0 .. Len(list) : Sums(Widths(list))[k] \in Nat
           /\ Sums(Widths(list))[0] = 0
           /\ \A k \in 1 .. Len(list) :
                Sums(Widths(list))[k] = Sums(Widths(list))[k - 1] + Width(list[k])
           /\ \A k \in 1 .. Len(list) : Sums(Widths(list))[k] <= Total(Widths(list))
<1>1. /\ Len(list) \in Nat /\ DOMAIN list = 1 .. Len(list)
      /\ \A k \in 1 .. Len(list) :
           list[k] \in [entry : 0 .. Len(Files), size : Nat, extent : Nat, pad : Nat]
  BY Nodes1
<1>3. Widths(list) \in [1 .. Len(list) -> Nat]
  BY <1>1, WidthIs DEF Widths
<1>4. Widths(list) \in Seq(Nat) /\ Len(Widths(list)) = Len(list)
  BY <1>1, <1>3, IsSeq
<1>6. PICK s \in Seq(Nat) : s = Widths(list)
  BY <1>4
<1>7. /\ Sums(s) \in [0 .. Len(s) -> Nat] /\ Sums(s)[0] = 0
      /\ \A k \in 1 .. Len(s) : Sums(s)[k] = Sums(s)[k - 1] + s[k]
      /\ Total(s) = Sums(s)[Len(s)] /\ Total(s) \in Nat
  BY SumsAre
<1>8. \A k \in 1 .. Len(s) : Sums(s)[k] <= Total(s)
  <2> SUFFICES ASSUME NEW k \in 1 .. Len(s) PROVE Sums(s)[k] <= Total(s)
    OBVIOUS
  <2>1. CASE k = Len(s)
    BY <1>7, <2>1
  <2>2. CASE k < Len(s)
    <3>1. k \in 0 .. Len(s) /\ Len(s) \in 0 .. Len(s) /\ k + 1 \in 1 .. Len(s)
      BY <2>2
    <3>2. PICK n \in 0 .. Len(s) : n = Len(s)
      BY <3>1
    <3>3. Sums(s)[k] + s[k + 1] <= Sums(s)[n]
      BY <2>2, <3>1, <3>2, SumsGrow
    <3>4. s[k + 1] \in Nat
      BY <3>1
    <3>5. Sums(s)[k] \in Nat
      <4> DEFINE g == Sums(s)
      <4> HIDE DEF g
      <4> QED
        BY <1>7, <3>1 DEF g
    <3> QED
      BY <1>7, <3>2, <3>3, <3>4, <3>5
  <2> QED
    BY <2>1, <2>2
<1> QED
  BY <1>1, <1>4, <1>6, <1>7, <1>8 DEF Widths

\* Nothing is in an empty list.
LEMMA NoNodes ==
    /\ <<>> \in Nodes /\ Len(<<>>) = 0 /\ Total(Widths(<<>>)) = 0
    /\ Whole(<<>>) /\ Distinct(<<>>) /\ NoClumps(<<>>) /\ OfFiles(<<>>)
    /\ \A from : InRow(<<>>, from)
<1>1. <<>> \in Nodes /\ Len(<<>>) = 0
  BY EmptySeq DEF Nodes
<1>2. PICK e \in Nodes : e = <<>> /\ Len(e) = 0
  BY <1>1
<1>4. DOMAIN <<>> = {}
  OBVIOUS
<1> QED
  BY <1>1, <1>2, <1>4, WidthsAre DEF Whole, Distinct, NoClumps, OfFiles, InRow

----------------------------------------------------------------------------
(* The sizing pass                                                         *)

\* What the list of the fragments is as long as the sizing pass has not ended.
LEMMA Behinds ==
    ASSUME Types, Sizing, pc # "size"
    PROVE  /\ Early \in Nat /\ Early >= 3 /\ Early <= Len(frags) /\ Len(frags) \in Nat
           /\ Start \in Nat /\ Behind \in Nat /\ Start >= session_start /\ session_start \in Nat
           /\ ~ Streaming => Behind = Start
           /\ \A k \in 1 .. Early : frags[k].start \in Nat /\ frags[k].start >= session_start
<1>1. job \in Jobs
  BY DEF Types, TypeOK
<1>2. Early \in Nat /\ Early >= 3 /\ session_start \in Nat
  BY <1>1, Shape, JobFacts
<1>3. /\ Early <= Len(frags) /\ \A k \in 1 .. Early : frags[k].name = Fragments[k]
      /\ Sized(Early)
  BY DEF Sizing
<1>5. \A k \in 1 .. Early : frags[k].start \in Nat /\ frags[k].start >= session_start
  <2>1. PICK n \in 0 .. Early : n = Early
    BY <1>2
  <2> QED
    BY <1>1, <1>3, <2>1, Starts
<1>6. Start \in Nat /\ Start >= session_start
  BY <1>2, <1>5 DEF Start
<1>7. Behind \in Nat
  BY <1>1, <1>6, Sizes DEF Behind
<1>8. ~ Streaming => Behind = Start
  <2> SUFFICES ASSUME ~ Streaming PROVE Behind = Start
    OBVIOUS
  <2>2. SizeAfter("files", Start) = Start
    BY <1>6, SizeAfterOf, Zenon
  <2> QED
    BY <1>1, <1>2, <1>3, <2>2, Shape DEF Behind
<1> QED
  BY <1>2, <1>3, <1>5, <1>6, <1>7, <1>8 DEF Types

LEMMA SizingKept ==
    ASSUME IInv, SizeFragment
    PROVE  IInv'
<1>1. Types /\ Sizing /\ Untouched /\ Unwritten /\ NoVolume /\ Outcome /\ pc = "size"
  BY DEF IInv, SizeFragment
<1>2. /\ job' = job /\ how' = how /\ last_extent_written' = last_extent_written
      /\ extent' = extent /\ isosize' = isosize /\ weight' = weight /\ hash' = hash /\ dw' = dw
      /\ tail' = tail /\ vol' = vol /\ image' = image /\ item' = item /\ now' = now
  BY DEF SizeFragment, planned
<1>3. job \in Jobs /\ frags \in Seq([name : Names, start : Nat]) /\ last_extent \in Nat /\ at \in Nat
      /\ DOMAIN frags = 1 .. Len(frags)
  BY <1>1 DEF Types, TypeOK
<1>4. Early \in Nat /\ Early >= 3 /\ session_start \in Nat
  BY <1>3, Shape, JobFacts
<1>5. /\ Len(frags) = Early /\ at \in 1 .. Early + 1 /\ Sized(at - 1)
      /\ \A k \in 1 .. Early : frags[k].name = Fragments[k]
      /\ last_extent = IF at = 1 THEN session_start
                       ELSE SizeAfter(frags[at - 1].name, frags[at - 1].start)
  BY <1>1 DEF Sizing
<1>6. \A k \in 1 .. Early : frags[k] \in [name : Names, start : Nat]
  <2> DEFINE S == [name : Names, start : Nat]
  <2>1. frags \in Seq(S)
    BY <1>3
  <2> HIDE DEF S
  <2>2. \A k \in 1 .. Len(frags) : frags[k] \in S
    BY <2>1
  <2> QED
    BY <1>5, <2>2 DEF S
<1>7. /\ frags' \in Seq([name : Names, start : Nat]) /\ Len(frags') = Early
      /\ DOMAIN frags' = 1 .. Early
      /\ \A k \in 1 .. Early : frags'[k].name = Fragments[k] /\ frags'[k].start \in Nat
                               /\ frags'[k].name \in Names
      /\ at' \in Nat /\ last_extent' \in Nat
      /\ pc' \in {"size", "assign"}
      /\ pc' = "size" => at <= Early /\ at' = at + 1 /\ last_extent' = SizeAfter(frags[at].name, last_extent)
                         /\ \A k \in 1 .. Early :
                              frags'[k].start = IF k = at THEN last_extent ELSE frags[k].start
      /\ pc' = "assign" => at = Early + 1 /\ at' = 1 /\ last_extent' = last_extent /\ frags' = frags
  <2>1. CASE at <= Len(frags)
    <3>1. /\ frags' = [frags EXCEPT ![at].start = last_extent]
          /\ last_extent' = SizeAfter(frags[at].name, last_extent)
          /\ at' = at + 1 /\ pc' = pc
      BY <2>1 DEF SizeFragment
    <3>2. at \in 1 .. Len(frags)
      BY <1>5, <2>1
    <3>3. PICK e : e = [frags[at] EXCEPT !.start = last_extent]
      OBVIOUS
    <3>4. e \in [name : Names, start : Nat] /\ e.name = frags[at].name /\ e.start = last_extent
      BY <1>3, <1>5, <1>6, <3>2, <3>3
    <3>6. /\ frags' \in Seq([name : Names, start : Nat]) /\ Len(frags') = Len(frags)
          /\ \A j \in 1 .. Len(frags) : frags'[j] = IF j = at THEN e ELSE frags[j]
      <4> DEFINE S == [name : Names, start : Nat]
      <4>1. frags \in Seq(S) /\ e \in S
        BY <1>3, <3>4
      <4> HIDE DEF S
      <4>2. /\ frags' \in Seq(S) /\ Len(frags') = Len(frags)
            /\ \A j \in 1 .. Len(frags) : frags'[j] = IF j = at THEN e ELSE frags[j]
        BY <3>1, <3>2, <3>3, <4>1, ExceptSeq
      <4> QED
        BY <4>2 DEF S
    <3>8. last_extent' \in Nat
      BY <1>3, <3>1, Sizes
    <3>9. \A k \in 1 .. Early : /\ frags'[k].name = Fragments[k] /\ frags'[k].start \in Nat
                                /\ frags'[k].name \in Names
                                /\ frags'[k].start = IF k = at THEN last_extent ELSE frags[k].start
      <4> SUFFICES ASSUME NEW k \in 1 .. Early
                   PROVE  /\ frags'[k].name = Fragments[k] /\ frags'[k].start \in Nat
                          /\ frags'[k].name \in Names
                          /\ frags'[k].start = IF k = at THEN last_extent ELSE frags[k].start
        OBVIOUS
      <4>1. frags[k] \in [name : Names, start : Nat] /\ frags[k].name = Fragments[k]
        BY <1>5, <1>6
      <4>2. CASE k = at
        BY <1>3, <1>5, <3>4, <3>6, <4>1, <4>2
      <4>3. CASE k # at
        BY <1>5, <3>6, <4>1, <4>3
      <4> QED
        BY <4>2, <4>3
    <3> QED
      BY <1>1, <1>3, <1>5, <2>1, <3>1, <3>6, <3>8, <3>9
  <2>2. CASE ~(at <= Len(frags))
    BY <1>3, <1>4, <1>5, <1>6, <2>2 DEF SizeFragment
  <2> QED
    BY <2>1, <2>2
<1>8. Types'
  <2>1. TypeOK'
    BY <1>1, <1>2, <1>7 DEF Types, TypeOK, Files, Outcomes
  <2>2. OfFiles(dw)'
    BY <1>1, <1>2 DEF Types, OfFiles, Files
  <2>3. Nodes' = Nodes
    BY <1>2 DEF Nodes, Files
  <2> QED
    BY <1>1, <1>2, <1>7, <2>1, <2>2, <2>3 DEF Types, Files
<1>9. /\ Files' = Files /\ session_start' = session_start /\ Early' = Early
      /\ Fragments' = Fragments
      /\ \A name, n : SizeAfter(name, n)' = SizeAfter(name, n)
  BY <1>2, SameJob
<1>10. Sizing'
  <2>1. CASE pc' = "size"
    <3>1. at <= Early /\ at' = at + 1 /\ at' - 1 = at /\ at' \in 1 .. Early + 1 /\ at' # 1
      BY <1>4, <1>5, <1>7, <2>1
    <3>2. \A k \in 1 .. at :
            frags'[k].start = IF k = 1 THEN session_start
                              ELSE SizeAfter(frags'[k - 1].name, frags'[k - 1].start)
      <4> SUFFICES ASSUME NEW k \in 1 .. at
                   PROVE  frags'[k].start = IF k = 1 THEN session_start
                                            ELSE SizeAfter(frags'[k - 1].name, frags'[k - 1].start)
        OBVIOUS
      <4>1. k \in 1 .. Early
        BY <1>5, <3>1
      <4>2. frags'[k].start = IF k = at THEN last_extent ELSE frags[k].start
        BY <1>7, <2>1, <4>1
      <4>3. k # 1 => /\ k - 1 \in 1 .. Early /\ k - 1 # at
                     /\ frags'[k - 1].start = frags[k - 1].start
                     /\ frags'[k - 1].name = frags[k - 1].name
        BY <1>5, <1>7, <2>1, <4>1
      <4>4. CASE k = at
        BY <1>5, <4>2, <4>3, <4>4
      <4>5. CASE k # at
        BY <1>5, <4>2, <4>3, <4>5 DEF Sized
      <4> QED
        BY <4>4, <4>5
    <3>3. Sized(at - 1)'
      BY <1>9, <3>1, <3>2 DEF Sized
    <3>4. (last_extent = SizeAfter(frags[at - 1].name, frags[at - 1].start))'
      BY <1>5, <1>7, <1>9, <2>1, <3>1
    <3> QED
      BY <1>4, <1>7, <1>9, <2>1, <3>1, <3>3, <3>4 DEF Sizing
  <2>2. CASE pc' = "assign"
    BY <1>4, <1>5, <1>7, <1>9, <2>2 DEF Sized, Sizing
  <2> QED
    BY <1>7, <2>1, <2>2
<1>12. Unwritten'
  BY <1>1, <1>2, <1>9 DEF Unwritten
<1>13. NoVolume'
  BY <1>1, <1>2 DEF NoVolume
<1>14. Assigning'
  <2> SUFFICES ASSUME pc' = "assign" PROVE Assigning'
    BY DEF Assigning
  <2>1. at = Early + 1 /\ at' = 1 /\ last_extent' = last_extent /\ frags' = frags
    BY <1>7
  <2>2. dw' = <<>> /\ tail' = 0
    BY <1>1, <1>2 DEF Untouched
  <2>3. Behind' = last_extent /\ last_extent \in Nat
    <3>1. Behind = last_extent
      <4>1. at # 1 /\ at - 1 = Early
        BY <1>4, <2>1
      <4> QED
        BY <1>5, <4>1 DEF Behind, Start
    <3>2. Start' = Start
      BY <1>9, <2>1 DEF Start
    <3>3. Behind' = Behind
      BY <1>9, <2>1, <3>2 DEF Behind
    <3> QED
      BY <1>3, <3>1, <3>3
  <2>4. Total(Widths(dw))' = 0
    <3>1. Widths(dw)' = Widths(<<>>)
      BY <1>2, <2>2 DEF Widths, Width, Has
    <3>2. Total(Widths(dw))' = Total(Widths(<<>>))
      BY <3>1
    <3> QED
      BY <3>2, NoNodes
  <2>5. /\ Whole(dw)' /\ Distinct(dw)' /\ NoClumps(dw)' /\ InRow(dw, Behind)'
        /\ Len(dw') = 0
    BY <2>2 DEF Whole, Distinct, NoClumps, InRow
  <2>6. Hash'
    BY <1>1, <1>2, <2>2 DEF Hash, Untouched
  <2>7. \A i \in DOMAIN Files :
          /\ isosize[i] = Files[i].size /\ weight[i] = Files[i].weight /\ i >= 1
    BY <1>1, <1>3, JobFacts DEF Untouched
  <2>8. /\ at' \in 1 .. Len(Files') + 1
        /\ \A k \in DOMAIN dw' : dw'[k].entry < at'
        /\ last_extent' = Behind' + Total(Widths(dw))' /\ tail' = Len(dw')
        /\ \A i \in DOMAIN Files' :
             IF i < at' THEN Recorded1(dw, i)'
             ELSE isosize'[i] = Files'[i].size /\ weight'[i] = Files'[i].weight
        /\ (Has("sort") =>
             /\ \A k \in DOMAIN dw : Largest(weight[dw[k].entry], dw[k].entry, at - 1)
             /\ \A i \in 1 .. at - 1 :
                  Stored(i) => weight[i] = NotSorted \/ \E k \in DOMAIN dw : dw[k].entry = i)'
    <3>1. Len(Files) \in Nat
      BY <1>3, JobFacts
    <3>2. \A i \in DOMAIN Files : i \in Nat /\ ~(i < 1)
      BY <1>3, JobFacts
    <3>3. DOMAIN dw' = {} /\ 1 .. at' - 1 = {}
      BY <2>1, <2>2
    <3>4. last_extent' = Behind' + Total(Widths(dw))'
      BY <2>1, <2>3, <2>4
    <3> QED
      BY <1>2, <1>9, <2>1, <2>2, <2>7, <3>1, <3>2, <3>3, <3>4
  <2>9. NoVolume'
    BY <1>13
  <2> QED
    BY <2>5, <2>6, <2>8, <2>9 DEF Assigning
<1>16. Position' /\ Data' /\ Structures'
  BY <1>1, <1>2, <1>7 DEF Position, Data, Structures, Writes, Types
<1>17. Outcome'
  BY <1>1, <1>2, <1>7 DEF Outcome, BotchOnlyForHfs, ReadFailsForCause, Types
<1> QED
  BY <1>1, <1>2, <1>7, <1>8, <1>9, <1>10, <1>12, <1>13, <1>14, <1>16, <1>17
     DEF Rounds, Planned, Writes, Types, Untouched, IInv

\* A step behind the sizing pass that leaves the fragments alone.
LEMMA FragmentsStand ==
    ASSUME IInv, job' = job, frags' = frags, pc # "size", pc' # "size",
           pc' \in {"assign", "hfs", "trailer"} => pc \in {"assign", "hfs", "trailer"}
    PROVE  /\ Sizing' /\ Untouched' /\ Start' = Start /\ Behind' = Behind
<1>2. /\ Early' = Early /\ Fragments' = Fragments /\ session_start' = session_start
      /\ \A name, n : SizeAfter(name, n)' = SizeAfter(name, n)
  BY SameJob
<1>5. Start' = Start
  BY <1>2 DEF Start
<1>7. Untouched'
  BY DEF Untouched
<1> QED
  BY <1>2, <1>5, <1>7 DEF IInv, Sizing, Sized, Behind

\* When a run has ended, but not well, nothing is said of what it was to write.
LEMMA Failed ==
    ASSUME pc' = "ended", how' # "written", Types', Sizing', Outcome'
    PROVE  IInv'
BY DEF IInv, Untouched, Unwritten, Assigning, Rounds, Planned, Writes, Position, Data, Structures

LEMMA FailsKept ==
    ASSUME IInv, WriteFails
    PROVE  IInv'
<1>1. Types /\ Outcome /\ pc \in {"write", "files"}
  BY Zenon DEF IInv, WriteFails
<1>2. /\ job' = job /\ frags' = frags /\ at' = at /\ last_extent' = last_extent
      /\ last_extent_written' = last_extent_written
      /\ extent' = extent /\ isosize' = isosize /\ weight' = weight /\ hash' = hash /\ dw' = dw
      /\ tail' = tail /\ vol' = vol /\ image' = image /\ item' = item /\ now' = now
      /\ pc' = "ended" /\ how' = "cannot write"
  BY Zenon DEF WriteFails, planned, End
<1>3. TypeOK'
  BY Zenon, <1>1, <1>2 DEF Types, TypeOK, Files, Outcomes
<1>4. OfFiles(dw)' /\ Nodes' = Nodes
  BY Zenon, <1>1, <1>2 DEF Types, OfFiles, Files, Nodes
<1>5. Types'
  <2>1. Types
    BY <1>1
  <2> QED
    BY ONLY ZenonT(30), <1>2, <1>3, <1>4, <2>1 DEF Types, Files
<1>6. Sizing'
  BY Zenon, <1>1, <1>2, FragmentsStand
<1>7. Outcome'
  BY Zenon, <1>2 DEF Outcome, BotchOnlyForHfs, ReadFailsForCause
<1> QED
  BY Zenon, <1>2, <1>5, <1>6, <1>7, Failed

----------------------------------------------------------------------------
(* Lists that are continued                                                *)

Node == [entry : 0 .. Len(Files), size : Nat, extent : Nat, pad : Nat]

\* As far as lists have the same widths the sums of them are the same.
LEMMA WidthsAgree ==
    ASSUME NEW list \in Nodes, NEW longer \in Nodes, NEW n \in Nat,
           n <= Len(list), n <= Len(longer),
           \A k \in 1 .. n : Width(longer[k]) = Width(list[k])
    PROVE  \A k \in 0 .. n : Sums(Widths(longer))[k] = Sums(Widths(list))[k]
<1>1. PICK s \in Seq(Nat) : s = Widths(list) /\ Len(s) = Len(list)
  BY WidthsAre
<1>2. PICK t \in Seq(Nat) : t = Widths(longer) /\ Len(t) = Len(longer)
  BY WidthsAre
<1>3. ASSUME NEW k \in 1 .. n PROVE s[k] = t[k]
  <2>2. k \in 1 .. Len(list) /\ k \in 1 .. Len(longer)
    BY Nodes1
  <2>4. t[k] = Width(longer[k])
    BY <1>2, <2>2, WidthsAre
  <2> QED
    BY <1>1, <2>2, <2>4, WidthsAre
<1> QED
  BY <1>1, <1>2, <1>3, SumsAgree

\* A list with one more node.
LEMMA Continued ==
    ASSUME NEW list \in Nodes, NEW node \in Node
    PROVE  /\ Append(list, node) \in Nodes /\ Len(Append(list, node)) = Len(list) + 1
           /\ DOMAIN Append(list, node) = 1 .. Len(list) + 1
           /\ \A k \in 1 .. Len(list) : Append(list, node)[k] = list[k]
           /\ Append(list, node)[Len(list) + 1] = node
           /\ \A k \in 0 .. Len(list) :
                Sums(Widths(Append(list, node)))[k] = Sums(Widths(list))[k]
           /\ Total(Widths(Append(list, node))) = Total(Widths(list)) + Width(node)
<1>2. /\ Append(list, node) \in Nodes /\ Len(Append(list, node)) = Len(list) + 1
      /\ DOMAIN Append(list, node) = 1 .. Len(list) + 1
      /\ \A k \in 1 .. Len(list) : Append(list, node)[k] = list[k]
      /\ Append(list, node)[Len(list) + 1] = node
  <2> DEFINE S == Node
  <2>1. list \in Seq(S) /\ node \in S
    BY DEF Nodes, Node
  <2> HIDE DEF S
  <2>2. /\ Append(list, node) \in Seq(S) /\ Len(Append(list, node)) = Len(list) + 1
        /\ \A k \in 1 .. Len(list) : Append(list, node)[k] = list[k]
        /\ Append(list, node)[Len(list) + 1] = node
    BY <2>1, AppendProperties
  <2> QED
    BY <2>2 DEF S, Nodes, Node
<1>3. PICK l \in Nodes : l = Append(list, node)
  BY <1>2
<1>4. PICK n \in Nat : n = Len(list)
  BY Nodes1
<1>5. Len(l) = n + 1 /\ \A k \in 1 .. n : l[k] = list[k]
  BY <1>2, <1>3, <1>4
<1>6. \A k \in 0 .. n : Sums(Widths(l))[k] = Sums(Widths(list))[k]
  BY <1>4, <1>5, WidthsAgree
<1>7. Total(Widths(l)) = Sums(Widths(l))[n + 1]
  BY <1>5, WidthsAre
<1>8. Sums(Widths(l))[n + 1] = Sums(Widths(l))[n + 1 - 1] + Width(l[n + 1])
  <2>1. n + 1 \in 1 .. Len(l)
    BY <1>5
  <2> QED
    BY <2>1, WidthsAre
<1>9. Total(Widths(list)) = Sums(Widths(list))[n]
  BY <1>4, WidthsAre
<1>11. n + 1 - 1 = n /\ n \in 0 .. n
  OBVIOUS
<1> QED
  BY <1>2, <1>3, <1>4, <1>6, <1>7, <1>8, <1>9, <1>11

\* Of lists the same can be said before and after a step.
LEMMA SameLists ==
    ASSUME job' = job
    PROVE  /\ Nodes' = Nodes /\ Widths(dw)' = Widths(dw') /\ Whole(dw)' = Whole(dw')
           /\ Distinct(dw)' = Distinct(dw') /\ NoClumps(dw)' = NoClumps(dw')
           /\ \A from : InRow(dw, from)' = InRow(dw', from)
<1>1. /\ Files' = Files /\ \A o : Has(o)' = Has(o)
      /\ \A node : Width(node)' = Width(node)
      /\ \A i, j : Same(i, j)' = Same(i, j)
  BY SameJob
<1>3. Widths(dw)' = Widths(dw')
  BY <1>1 DEF Widths
<1>4. Whole(dw)' = Whole(dw')
  BY DEF Whole
<1>5. Distinct(dw)' = Distinct(dw')
  BY <1>1 DEF Distinct
<1>7. \A from : InRow(dw, from)' = InRow(dw', from)
  BY <1>3 DEF InRow
<1> QED
  BY <1>1, <1>3, <1>4, <1>5, <1>7 DEF NoClumps, Nodes

\* Names of one file are those of what shares its data.
LEMMA Sharing ==
    ASSUME NEW i, NEW j, NEW k
    PROVE  Same(i, i) /\ (Same(i, j) => Same(j, i)) /\ (Same(i, j) /\ Same(j, k) => Same(i, k))
BY DEF Same

----------------------------------------------------------------------------
(* The files get their blocks                                              *)

\* What can be relied on while they do.
LEMMA AssigningFacts ==
    ASSUME IInv, pc = "assign"
    PROVE  /\ job \in Jobs /\ Types /\ Assigning /\ Sizing /\ NoVolume /\ Unwritten
           /\ Len(Files) \in Nat /\ DOMAIN Files = 1 .. Len(Files)
           /\ Behind \in Nat /\ Start \in Nat /\ session_start \in Nat
           /\ ~ Streaming => Behind = Start
           /\ dw \in Nodes /\ Len(dw) \in Nat /\ DOMAIN dw = 1 .. Len(dw)
           /\ how = "running"
           /\ at \in 1 .. Len(Files) + 1 /\ last_extent \in Nat
           /\ \A k \in 1 .. Len(dw) :
                /\ dw[k] \in Node /\ dw[k].entry \in 1 .. at - 1 /\ dw[k].entry \in 1 .. Len(Files)
                /\ dw[k].size \in Nat \ {0} /\ dw[k].extent \in Nat
                /\ Files[dw[k].entry].old = 0
                /\ dw[k].size = Files[dw[k].entry].size /\ dw[k].size = isosize[dw[k].entry]
           /\ extent \in [1 .. Len(Files) -> Nat]
           /\ isosize \in [1 .. Len(Files) -> 0 .. MaxSize]
           /\ weight \in [1 .. Len(Files) -> Nat \cup {NotSorted}]
           /\ hash \in [{Files[i].file : i \in DOMAIN Files} -> [de : {0} \cup DOMAIN Files, start : Nat, size : Nat]]
<1>1. job \in Jobs /\ Types /\ Assigning /\ Sizing /\ NoVolume /\ Unwritten
  BY DEF IInv, Types, TypeOK
<1>2. Len(Files) \in Nat /\ DOMAIN Files = 1 .. Len(Files)
  BY <1>1, JobFacts
<1>4. dw \in Nodes /\ Len(dw) \in Nat /\ DOMAIN dw = 1 .. Len(dw)
  BY <1>1, Nodes1 DEF Types
<1>5. how = "running"
  BY <1>1 DEF Types
<1>6. at \in 1 .. Len(Files) + 1 /\ last_extent \in Nat
  BY <1>1 DEF Assigning, Types, TypeOK
<1>7. \A k \in 1 .. Len(dw) :
        /\ dw[k] \in Node /\ dw[k].entry \in 1 .. at - 1 /\ dw[k].entry \in 1 .. Len(Files)
        /\ dw[k].size \in Nat \ {0} /\ dw[k].extent \in Nat
        /\ Files[dw[k].entry].old = 0
        /\ dw[k].size = Files[dw[k].entry].size /\ dw[k].size = isosize[dw[k].entry]
  <2> SUFFICES ASSUME NEW k \in 1 .. Len(dw)
               PROVE  /\ dw[k] \in Node /\ dw[k].entry \in 1 .. at - 1 /\ dw[k].entry \in 1 .. Len(Files)
                      /\ dw[k].size \in Nat \ {0} /\ dw[k].extent \in Nat
                      /\ Files[dw[k].entry].old = 0
                      /\ dw[k].size = Files[dw[k].entry].size /\ dw[k].size = isosize[dw[k].entry]
    OBVIOUS
  <2>2. dw[k].entry # 0 /\ dw[k].entry < at
    BY <1>1, <1>4 DEF Assigning, Whole
  <2>3. LET e == Files[dw[k].entry]
        IN e.old = 0 /\ e.size > 0 /\ dw[k].size = e.size /\ isosize[dw[k].entry] = e.size
    BY <1>1, <1>4, <2>2 DEF Types, OfFiles
  <2> QED
    BY <1>2, <1>4, <1>6, <2>2, <2>3, Nodes1 DEF Node
<1>8. /\ extent \in [1 .. Len(Files) -> Nat]
      /\ isosize \in [1 .. Len(Files) -> 0 .. MaxSize]
      /\ weight \in [1 .. Len(Files) -> Nat \cup {NotSorted}]
      /\ hash \in [{Files[i].file : i \in DOMAIN Files} -> [de : {0} \cup DOMAIN Files, start : Nat, size : Nat]]
  BY <1>1, <1>2 DEF Types, TypeOK
<1> QED
  BY <1>1, <1>2, <1>4, <1>5, <1>6, <1>7, <1>8, Behinds

\* Only what is said of the files is to be shown of a step of this pass.
LEMMA AssigningSuffices ==
    ASSUME IInv, AssignEntry, Types', Assigning'
    PROVE  IInv'
<1>1. pc = "assign" /\ how = "running"
  BY AssigningFacts DEF AssignEntry
<1>2. /\ job' = job /\ frags' = frags /\ pc' = "assign" /\ how' = how /\ vol' = vol /\ image' = image
      /\ item' = item /\ now' = now /\ last_extent_written' = last_extent_written
  BY <1>1 DEF AssignEntry
<1> QED
  BY <1>1, <1>2, SameJob, AssigningFacts, FragmentsStand
     DEF Unwritten, NoVolume, Rounds, Planned, Writes, Position, Data, Structures, Outcome,
     BotchOnlyForHfs, ReadFailsForCause, IInv

\* The hash knows an entry exactly if what it shares has a node.
LEMMA KnownNode ==
    ASSUME IInv, pc = "assign", at <= Len(Files)
    PROVE  /\ Known(at, hash) =>
                \E k \in 1 .. Len(dw) :
                  /\ hash[Files[at].file] = [de |-> dw[k].entry, start |-> dw[k].extent, size |-> dw[k].size]
                  /\ Same(at, dw[k].entry) /\ Files[at].cached
           /\ ~ Known(at, hash) =>
                /\ \A k \in 1 .. Len(dw) : ~ Same(at, dw[k].entry)
                /\ \A j \in 1 .. at - 1 : Stored(j) => ~ Same(at, j)
<1>1. /\ Assigning /\ DOMAIN Files = 1 .. Len(Files) /\ DOMAIN dw = 1 .. Len(dw)
      /\ at \in 1 .. Len(Files) /\ Len(Files) \in Nat
      /\ \A k \in 1 .. Len(dw) : dw[k].entry \in 1 .. at - 1
  BY AssigningFacts
<1>2. Files[at].file \in DOMAIN hash
  <2>2. DOMAIN hash = {Files[i].file : i \in DOMAIN Files}
    BY DEF IInv, Types
  <2>3. at \in DOMAIN Files
    BY <1>1
  <2> QED
    BY ONLY <2>2, <2>3
<1> DEFINE f == Files[at].file
           nodes == {k \in DOMAIN dw : Files[dw[k].entry].cached /\ Files[dw[k].entry].file = f}
<1>3. IF nodes = {} THEN hash[f] = Unknown
      ELSE \E k \in nodes : hash[f] = [de |-> dw[k].entry, start |-> dw[k].extent, size |-> dw[k].size]
  BY <1>1, <1>2 DEF Assigning, Hash
<1>4. Known(at, hash) <=> Files[at].cached /\ nodes # {}
  <2>1. CASE nodes = {}
    BY <1>3, <2>1 DEF Known, Unknown
  <2>2. CASE nodes # {}
    <3>1. PICK k \in nodes : hash[f] = [de |-> dw[k].entry, start |-> dw[k].extent, size |-> dw[k].size]
      BY <1>3, <2>2
    <3>3. hash[f].de # 0
      BY <1>1, <3>1
    <3> QED
      BY <2>2, <3>3 DEF Known
  <2> QED
    BY <2>1, <2>2
<1>5. ASSUME Known(at, hash)
      PROVE  \E k \in 1 .. Len(dw) :
                  /\ hash[f] = [de |-> dw[k].entry, start |-> dw[k].extent, size |-> dw[k].size]
                  /\ Same(at, dw[k].entry) /\ Files[at].cached
  <2>1. PICK k \in nodes : hash[f] = [de |-> dw[k].entry, start |-> dw[k].extent, size |-> dw[k].size]
    BY <1>3, <1>4, <1>5
  <2>2. k \in 1 .. Len(dw) /\ Files[dw[k].entry].cached /\ Files[dw[k].entry].file = f
    BY <1>1
  <2> QED
    BY <1>4, <1>5, <2>1, <2>2 DEF Same
<1>6. ASSUME ~ Known(at, hash)
      PROVE  \A k \in 1 .. Len(dw) : ~ Same(at, dw[k].entry)
  <2> SUFFICES ASSUME NEW k \in 1 .. Len(dw), Same(at, dw[k].entry) PROVE FALSE
    OBVIOUS
  <2>2. Files[at].cached /\ Files[dw[k].entry].cached /\ Files[dw[k].entry].file = f
    BY <1>1 DEF Same
  <2> QED
    BY <1>1, <1>4, <1>6, <2>2
<1>7. ASSUME ~ Known(at, hash), NEW j \in 1 .. at - 1, Stored(j), Same(at, j)
      PROVE  FALSE
  <2>1. Recorded1(dw, j)
    BY <1>1, <1>7 DEF Assigning
  <2>2. PICK k \in DOMAIN dw : Holds(dw[k], j)
    BY <1>7, <2>1 DEF Recorded1
  <2>4. Same(at, dw[k].entry)
    BY <1>7, <2>2, Sharing DEF Holds
  <2> QED
    BY <1>1, <1>6, <1>7, <2>4
<1> QED
  BY <1>5, <1>6, <1>7

\* What a step of this pass leaves alone.
LEMMA AssignLeaves ==
    ASSUME IInv, AssignEntry
    PROVE  /\ pc = "assign" /\ at \in 1 .. Len(Files) /\ at' = at + 1
           /\ job' = job /\ frags' = frags /\ pc' = pc /\ how' = how /\ vol' = vol
           /\ image' = image /\ item' = item /\ now' = now
           /\ last_extent_written' = last_extent_written
           /\ Files' = Files /\ \A o : Has(o)' = Has(o)
           /\ \A i, j : Same(i, j)' = Same(i, j)
           /\ Behind' = Behind /\ Nodes' = Nodes /\ Widths(dw)' = Widths(dw')
           /\ Whole(dw)' = Whole(dw') /\ Distinct(dw)' = Distinct(dw') /\ NoClumps(dw)' = NoClumps(dw')
           /\ InRow(dw, Behind)' = InRow(dw', Behind)
           /\ NoVolume'
<1>1. pc = "assign" /\ at \in 1 .. Len(Files) /\ NoVolume
  BY AssigningFacts DEF AssignEntry
<1>2. /\ at' = at + 1
      /\ job' = job /\ frags' = frags /\ pc' = pc /\ how' = how /\ vol' = vol /\ image' = image
      /\ item' = item /\ now' = now /\ last_extent_written' = last_extent_written
  BY DEF AssignEntry
<1>4. /\ Nodes' = Nodes /\ Widths(dw)' = Widths(dw') /\ Whole(dw)' = Whole(dw')
      /\ Distinct(dw)' = Distinct(dw') /\ NoClumps(dw)' = NoClumps(dw')
  BY <1>2, SameLists
<1>5. Behind' = Behind
  BY <1>1, <1>2, FragmentsStand
<1> QED
  BY <1>1, <1>2, <1>4, <1>5, SameJob DEF InRow, NoVolume

\* The types, when the list and what refers to it have theirs.
LEMMA AssignTypes ==
    ASSUME IInv, AssignEntry, dw' \in Nodes, OfFiles(dw)', last_extent' \in Nat, tail' = Len(dw'),
           extent' \in [1 .. Len(Files) -> Nat], isosize' \in [1 .. Len(Files) -> 0 .. MaxSize],
           weight' \in [1 .. Len(Files) -> Nat \cup {NotSorted}],
           hash' \in [{Files[i].file : i \in DOMAIN Files} -> [de : {0} \cup DOMAIN Files, start : Nat, size : Nat]]
    PROVE  Types'
<1>1. /\ pc = "assign" /\ at \in 1 .. Len(Files) /\ at' = at + 1
      /\ job' = job /\ frags' = frags /\ pc' = pc /\ how' = how /\ vol' = vol
      /\ image' = image /\ item' = item /\ now' = now
      /\ last_extent_written' = last_extent_written /\ Files' = Files /\ Nodes' = Nodes
  BY AssignLeaves
<1>2. Types /\ Len(Files) \in Nat /\ DOMAIN Files = 1 .. Len(Files)
  BY <1>1, AssigningFacts
<1>3. /\ Len(dw') \in Nat /\ DOMAIN dw' = 1 .. Len(dw')
      /\ \A k \in 1 .. Len(dw') : /\ dw'[k].entry \in {0} \cup DOMAIN Files
                                  /\ dw'[k].size \in Nat /\ dw'[k].pad \in Nat
  <2>1. PICK l \in Nodes : l = dw'
    OBVIOUS
  <2> QED
    BY <1>2, <2>1, Nodes1
<1>4. \A f \in DOMAIN hash' : hash'[f].de \in {0} \cup DOMAIN Files
  OBVIOUS
<1>5. tail' \in 0 .. Len(dw') /\ (tail' = 0 <=> dw' = <<>>)
  <2>1. PICK l \in Nodes : l = dw'
    OBVIOUS
  <2>2. l = <<>> <=> Len(l) = 0
    <3> DEFINE S == Node
    <3> HIDE DEF S
    <3> QED
      BY EmptySeq DEF Nodes, Node
  <2> QED
    BY <1>3, <2>1, <2>2
<1>6. TypeOK'
  <2>1. {at', item', last_extent', last_extent_written'} \subseteq Nat
    BY <1>1, <1>2 DEF Types, TypeOK
  <2>2. /\ job' \in Jobs /\ how' \in Outcomes
        /\ pc' \in {"size", "assign", "hfs", "trailer", "write", "files", "ended"}
        /\ \A i \in DOMAIN frags' : frags'[i].name \in Names /\ frags'[i].start \in Nat
        /\ \A k \in DOMAIN image' : image'[k] \in Int \X Nat
        /\ \A f \in DOMAIN now' : now'[f] \in -1..MaxSize
    BY <1>1, <1>2 DEF Types, TypeOK
  <2>3. /\ extent' \in [DOMAIN Files -> Nat] /\ isosize' \in [DOMAIN Files -> 0..MaxSize]
        /\ weight' \in [DOMAIN Files -> Nat \cup {NotSorted}]
    BY <1>2
  <2>4. \A k \in DOMAIN dw' : dw'[k].entry \in {0} \cup DOMAIN Files /\ {dw'[k].size, dw'[k].pad} \subseteq Nat
    BY <1>3
  <2> QED
    BY Zenon, <1>1, <1>4, <1>5, <2>1, <2>2, <2>3, <2>4 DEF TypeOK, Outcomes
<1>9. /\ now' \in [{Files'[i].file : i \in DOMAIN Files'} -> -1 .. MaxSize]
      /\ image' \in Seq(Int \X Nat)
      /\ vol' \in [first : Nat, save : Nat, tries : 0 .. MaxTries, csize : {1} \cup Clumps,
                pad : Nat, extra : Nat, catalog : Nat, padded : BOOLEAN]
      /\ frags' \in Seq([name : Names, start : Nat])
      /\ pc' = "ended" <=> how' # "running"
  BY <1>1, <1>2 DEF Types
<1> QED
  BY <1>1, <1>2, <1>6, <1>9 DEF Types

\* What an entry adds to those that share the data of another one.
LEMMA SharersAre ==
    ASSUME IInv, pc = "assign", AssignEntry,
           \A i \in 1 .. at - 1 : isosize'[i] = isosize[i],
           NEW i
    PROVE  Sharers(i, at - 1)' = Sharers(i, at - 1) \cup
             (IF Files[at].old = 0 /\ isosize'[at] > 0 /\ Same(i, at) THEN {at} ELSE {})
<1>1. /\ at \in 1 .. Len(Files) /\ at' = at + 1 /\ Files' = Files
      /\ \A k, j : Same(k, j)' = Same(k, j)
  BY AssignLeaves
<1>2. Len(Files) \in Nat
  BY AssigningFacts
<1>3. 1 .. at' - 1 = (1 .. at - 1) \cup {at}
  BY <1>1, <1>2
<1>5. Sharers(i, at - 1)' = {j \in 1 .. at' - 1 : Stored(j)' /\ Same(i, j)}
  BY <1>1 DEF Sharers
<1>6. Sharers(i, at - 1) = {j \in 1 .. at - 1 : Stored(j) /\ Same(i, j)}
  BY DEF Sharers
<1>7. ASSUME NEW j
      PROVE  j \in Sharers(i, at - 1)' <=>
               \/ j \in Sharers(i, at - 1)
               \/ j = at /\ Files[at].old = 0 /\ isosize'[at] > 0 /\ Same(i, at)
  <2>1. CASE j \in 1 .. at - 1
    BY <1>1, <1>2, <1>3, <1>5, <1>6, <2>1 DEF Stored
  <2>2. CASE j = at
    BY <1>1, <1>2, <1>3, <1>5, <1>6, <2>2 DEF Stored
  <2>3. CASE j # at /\ j \notin 1 .. at - 1
    BY <1>3, <1>5, <1>6, <2>3
  <2> QED
    BY <2>1, <2>2, <2>3
<1> QED
  BY <1>7

LEMMA LargestKept ==
    ASSUME IInv, pc = "assign", AssignEntry,
           \A i \in 1 .. at - 1 : isosize'[i] = isosize[i],
           NEW i, NEW w, Largest(w, i, at - 1),
           ~ (Files[at].old = 0 /\ isosize'[at] > 0 /\ Same(i, at))
    PROVE  Largest(w, i, at - 1)'
<1>2. Files' = Files
  BY AssignLeaves
<1> QED
  BY <1>2, SharersAre DEF Largest

\* An entry that is not stored.
LEMMA NotStored ==
    ASSUME IInv, AssignEntry, dw' = dw, tail' = tail, hash' = hash, last_extent' = last_extent,
           isosize' = isosize, weight' = weight, ~ Stored(at),
           extent' \in [1 .. Len(Files) -> Nat],
           \A i \in 1 .. Len(Files) : i # at => extent'[i] = extent[i]
    PROVE  IInv'
<1>1. /\ pc = "assign" /\ at \in 1 .. Len(Files) /\ at' = at + 1 /\ pc' = pc
      /\ Files' = Files /\ (\A o : Has(o)' = Has(o))
      /\ (\A i, j : Same(i, j)' = Same(i, j))
      /\ Behind' = Behind /\ Nodes' = Nodes /\ Widths(dw)' = Widths(dw')
      /\ Whole(dw)' = Whole(dw') /\ Distinct(dw)' = Distinct(dw') /\ NoClumps(dw)' = NoClumps(dw')
      /\ InRow(dw, Behind)' = InRow(dw', Behind)
      /\ NoVolume'
  BY AssignLeaves
<1>2. /\ Types /\ Assigning /\ Len(Files) \in Nat /\ DOMAIN Files = 1 .. Len(Files)
      /\ dw \in Nodes /\ DOMAIN dw = 1 .. Len(dw) /\ Len(dw) \in Nat /\ last_extent \in Nat
      /\ isosize \in [1 .. Len(Files) -> 0 .. MaxSize]
      /\ weight \in [1 .. Len(Files) -> Nat \cup {NotSorted}]
      /\ hash \in [{Files[i].file : i \in DOMAIN Files} -> [de : {0} \cup DOMAIN Files, start : Nat, size : Nat]]
      /\ \A k \in 1 .. Len(dw) : dw[k].entry \in 1 .. at - 1
  BY <1>1, AssigningFacts
<1>3. Hash
  BY <1>1, <1>2 DEF Assigning
<1>4. Has("sort") =>
        /\ \A k \in DOMAIN dw : Largest(weight[dw[k].entry], dw[k].entry, at - 1)
        /\ \A i \in 1 .. at - 1 :
             Stored(i) => weight[i] = NotSorted \/ \E k \in DOMAIN dw : dw[k].entry = i
  BY <1>1, <1>2 DEF Assigning
<1>5. Types'
  <2>1. OfFiles(dw)'
    BY <1>1, <1>2 DEF Types, OfFiles
  <2>2. tail = Len(dw)
    BY <1>1, <1>2 DEF Assigning
  <2> QED
    BY <1>2, <2>1, <2>2, AssignTypes
<1>6. Assigning'
  <2>1. at' \in 1 .. Len(Files') + 1
    BY <1>1, <1>2
  <2>2. /\ Whole(dw)' /\ Distinct(dw)' /\ NoClumps(dw)' /\ InRow(dw, Behind)'
        /\ (last_extent = Behind + Total(Widths(dw)) /\ tail = Len(dw))'
    BY <1>1, <1>2 DEF Assigning
  <2>3. \A k \in DOMAIN dw' : dw'[k].entry < at'
    BY <1>1, <1>2
  <2>4. Hash'
    BY <1>1, <1>3 DEF Hash
  <2>5. ASSUME NEW i \in DOMAIN Files
        PROVE  IF i < at' THEN Recorded1(dw, i)'
               ELSE isosize'[i] = Files[i].size /\ weight'[i] = Files[i].weight
    <3>1. CASE i < at
      <4>2. Recorded1(dw, i)
        BY <1>1, <1>2, <3>1 DEF Assigning
      <4>3. Recorded1(dw, i)'
        BY <1>1, <1>2, <3>1, <4>2 DEF Recorded1, Stored, Holds
      <4> QED
        BY <1>1, <1>2, <3>1, <4>3
    <3>2. CASE i = at
      BY <1>1, <1>2, <3>2 DEF Stored, Recorded1
    <3>3. CASE i > at
      BY <1>1, <1>2, <3>3 DEF Assigning
    <3> QED
      BY <1>1, <1>2, <3>1, <3>2, <3>3
  <2>6. ASSUME Has("sort")
        PROVE  /\ \A k \in DOMAIN dw' : Largest(weight[dw[k].entry], dw[k].entry, at - 1)'
               /\ \A i \in 1 .. at' - 1 :
                    Stored(i)' => weight'[i] = NotSorted \/ \E k \in DOMAIN dw' : dw'[k].entry = i
    <3>1. ASSUME NEW k \in DOMAIN dw PROVE Largest(weight[dw[k].entry], dw[k].entry, at - 1)'
      <4>1. PICK e \in 1 .. at - 1 : e = dw[k].entry
        BY <1>2
      <4>2. PICK w : w = weight[e]
        OBVIOUS
      <4>4. Largest(w, e, at - 1)'
        BY <1>1, <1>2, <1>4, <2>6, <4>1, <4>2, LargestKept DEF Stored
      <4> QED
        BY <4>1, <4>2, <4>4 DEF Largest
    <3>2. ASSUME NEW i \in 1 .. at' - 1, Stored(i)'
          PROVE  weight'[i] = NotSorted \/ \E k \in DOMAIN dw' : dw'[k].entry = i
      <4>1. Stored(i)
        BY <1>1, <3>2 DEF Stored
      <4>2. i \in 1 .. at - 1
        BY <1>1, <1>2, <4>1
      <4> QED
        BY <1>4, <2>6, <4>1, <4>2
    <3> QED
      BY <3>1, <3>2
  <2> QED
    BY <1>1, <2>1, <2>2, <2>3, <2>4, <2>5, <2>6 DEF Assigning
<1> QED
  BY <1>5, <1>6, AssigningSuffices

\* What is to be shown of the pass after a step.
LEMMA AssigningIs ==
    ASSUME job' = job, NoVolume', at' \in 1 .. Len(Files) + 1,
           Whole(dw)', Distinct(dw)', NoClumps(dw)', InRow(dw, Behind)',
           (last_extent = Behind + Total(Widths(dw)) /\ tail = Len(dw))',
           \A k \in DOMAIN dw' : dw'[k].entry < at', Hash',
           \A i \in DOMAIN Files :
             IF i < at' THEN Recorded1(dw, i)'
             ELSE isosize'[i] = Files[i].size /\ weight'[i] = Files[i].weight,
           Has("sort") =>
             /\ \A k \in DOMAIN dw' : Largest(weight[dw[k].entry], dw[k].entry, at - 1)'
             /\ \A i \in 1 .. at' - 1 :
                  Stored(i)' => weight'[i] = NotSorted \/ \E k \in DOMAIN dw' : dw'[k].entry = i
    PROVE  Assigning'
<1> QED
  BY SameJob DEF Assigning

\* An entry whose file is known under another name.
LEMMA LinkKept ==
    ASSUME IInv, AssignEntry, Files[at].old = 0, Known(at, hash),
           extent' = [extent EXCEPT ![at] = hash[Files[at].file].start],
           isosize' = [isosize EXCEPT ![at] = hash[Files[at].file].size],
           weight' = IF Has("sort") THEN Weighed(at, hash[Files[at].file].de) ELSE weight,
           dw' = dw, tail' = tail, hash' = hash, last_extent' = last_extent
    PROVE  IInv'
<1>1. /\ pc = "assign" /\ at \in 1 .. Len(Files) /\ at' = at + 1 /\ pc' = pc
      /\ job' = job /\ Files' = Files /\ (\A o : Has(o)' = Has(o))
      /\ (\A i, j : Same(i, j)' = Same(i, j))
      /\ Behind' = Behind /\ Nodes' = Nodes /\ Widths(dw)' = Widths(dw')
      /\ Whole(dw)' = Whole(dw') /\ Distinct(dw)' = Distinct(dw') /\ NoClumps(dw)' = NoClumps(dw')
      /\ InRow(dw, Behind)' = InRow(dw', Behind)
      /\ NoVolume'
  BY AssignLeaves
<1>2. /\ Types /\ Assigning /\ Len(Files) \in Nat /\ DOMAIN Files = 1 .. Len(Files)
      /\ dw \in Nodes /\ DOMAIN dw = 1 .. Len(dw) /\ Len(dw) \in Nat /\ last_extent \in Nat
      /\ extent \in [1 .. Len(Files) -> Nat]
      /\ isosize \in [1 .. Len(Files) -> 0 .. MaxSize]
      /\ weight \in [1 .. Len(Files) -> Nat \cup {NotSorted}]
      /\ hash \in [{Files[i].file : i \in DOMAIN Files} -> [de : {0} \cup DOMAIN Files, start : Nat, size : Nat]]
      /\ \A k \in 1 .. Len(dw) :
           /\ dw[k].entry \in 1 .. at - 1 /\ dw[k].size \in Nat \ {0} /\ dw[k].extent \in Nat
           /\ dw[k].size = isosize[dw[k].entry] /\ dw[k].entry \in 1 .. Len(Files)
           /\ Files[dw[k].entry].old = 0 /\ dw[k].size = Files[dw[k].entry].size
  BY <1>1, AssigningFacts
<1>3. Hash /\ Distinct(dw)
  BY <1>1, <1>2 DEF Assigning
<1>4. Has("sort") =>
        /\ \A k \in DOMAIN dw : Largest(weight[dw[k].entry], dw[k].entry, at - 1)
        /\ \A i \in 1 .. at - 1 :
             Stored(i) => weight[i] = NotSorted \/ \E k \in DOMAIN dw : dw[k].entry = i
  BY <1>1, <1>2 DEF Assigning
<1>5. PICK n \in 1 .. Len(dw) :
        /\ hash[Files[at].file] = [de |-> dw[n].entry, start |-> dw[n].extent, size |-> dw[n].size]
        /\ Same(at, dw[n].entry)
  BY <1>1, KnownNode
<1>6. PICK de \in 1 .. at - 1 : de = dw[n].entry /\ de \in 1 .. Len(Files) /\ de # at
  BY <1>1, <1>2, <1>5
<1>7. /\ hash[Files[at].file].de = de /\ hash[Files[at].file].start = dw[n].extent
      /\ hash[Files[at].file].size = dw[n].size
  BY <1>5, <1>6
<1>8. /\ extent' \in [1 .. Len(Files) -> Nat]
      /\ \A i \in 1 .. Len(Files) : extent'[i] = IF i = at THEN dw[n].extent ELSE extent[i]
  BY <1>1, <1>2, <1>7
<1>9. dw[n].size \in 0 .. MaxSize /\ dw[n].size > 0
  <2>1. PICK e \in 1 .. Len(Files) : e = dw[n].entry /\ dw[n].size = isosize[e] /\ dw[n].size \in Nat \ {0}
    BY <1>2
  <2> QED
    BY <1>2, <2>1
<1>10. /\ isosize' \in [1 .. Len(Files) -> 0 .. MaxSize]
       /\ \A i \in 1 .. Len(Files) : isosize'[i] = IF i = at THEN dw[n].size ELSE isosize[i]
  BY <1>1, <1>2, <1>7, <1>9
<1>11. PICK heavy : heavy = Max({weight[de], weight[at]})
  OBVIOUS
<1>12. weight[at] = Files[at].weight /\ weight[at] \in Nat
  <2>1. weight[at] = Files[at].weight
    BY <1>1, <1>2 DEF Assigning
  <2> QED
    BY <1>1, <1>2, <2>1, JobFacts DEF Types, TypeOK
<1>13. heavy \in Nat /\ heavy >= weight[at] /\ heavy >= weight[de] /\ heavy \in {weight[at], weight[de]}
  <2>1. weight[de] \in Int
    BY <1>2, <1>6 DEF NotSorted
  <2>2. heavy = IF weight[de] >= weight[at] THEN weight[de] ELSE weight[at]
    BY <1>11, <1>12, <2>1, MaxIs
  <2> QED
    BY <1>12, <2>1, <2>2
<1>15. /\ weight' \in [1 .. Len(Files) -> Nat \cup {NotSorted}]
       /\ Has("sort") => \A i \in 1 .. Len(Files) :
            weight'[i] = IF i = at THEN NotSorted ELSE IF i = de THEN heavy ELSE weight[i]
       /\ \A i \in 1 .. Len(Files) : i > at => weight'[i] = weight[i]
  <2>1. CASE Has("sort")
    <3>1. /\ weight' \in [1 .. Len(Files) -> Nat \cup {NotSorted}]
          /\ \A i \in 1 .. Len(Files) :
               weight'[i] = IF i = at THEN NotSorted ELSE IF i = de THEN heavy ELSE weight[i]
      <4>1. PICK w \in [1 .. Len(Files) -> Nat \cup {NotSorted}] : w = [weight EXCEPT ![de] = heavy]
        BY <1>2, <1>13
      <4>2. \A i \in 1 .. Len(Files) : w[i] = IF i = de THEN heavy ELSE weight[i]
        BY <1>2, <1>6, <4>1
      <4>3. weight' = [w EXCEPT ![at] = NotSorted]
        BY <1>1, <1>2, <1>6, <1>7, <1>11, <2>1, <4>1 DEF Weighed
      <4>4. /\ weight' \in [1 .. Len(Files) -> Nat \cup {NotSorted}]
            /\ \A i \in 1 .. Len(Files) : weight'[i] = IF i = at THEN NotSorted ELSE w[i]
        BY <1>1, <4>1, <4>3
      <4> QED
        BY <4>2, <4>4
    <3> QED
      BY <1>1, <1>6, <3>1
  <2>2. CASE ~ Has("sort")
    BY <1>2, <2>2
  <2> QED
    BY <2>1, <2>2
<1>16. \A k \in 1 .. Len(dw) : isosize'[dw[k].entry] = isosize[dw[k].entry]
  <2> SUFFICES ASSUME NEW k \in 1 .. Len(dw) PROVE isosize'[dw[k].entry] = isosize[dw[k].entry]
    OBVIOUS
  <2>1. dw[k].entry # at
    BY <1>1, <1>2
  <2> QED
    BY <1>2, <1>10, <2>1
<1>17. Types'
  <2>1. OfFiles(dw)'
    <3>1. OfFiles(dw)
      BY <1>2 DEF Types
    <3> QED
      <4>1. /\ dw' = dw /\ Files' = Files /\ DOMAIN dw = 1 .. Len(dw)
            /\ \A k \in 1 .. Len(dw) : isosize'[dw[k].entry] = isosize[dw[k].entry]
        BY <1>1, <1>2, <1>16
      <4> QED
        BY ONLY <3>1, <4>1 DEF OfFiles
  <2>2. tail = Len(dw)
    BY <1>1, <1>2 DEF Assigning
  <2> QED
    BY <1>2, <1>8, <1>10, <1>15, <2>1, <2>2, AssignTypes
<1>18. \A i \in 1 .. at - 1 : isosize'[i] = isosize[i] /\ extent'[i] = extent[i]
  <2> SUFFICES ASSUME NEW i \in 1 .. at - 1 PROVE isosize'[i] = isosize[i] /\ extent'[i] = extent[i]
    OBVIOUS
  <2>1. i \in 1 .. Len(Files) /\ i # at
    BY <1>1, <1>2
  <2> QED
    BY <1>8, <1>10, <2>1
<1>19. Assigning'
  <2>1. at' \in 1 .. Len(Files) + 1
    BY <1>1, <1>2
  <2>2. /\ Whole(dw)' /\ Distinct(dw)' /\ NoClumps(dw)' /\ InRow(dw, Behind)'
        /\ (last_extent = Behind + Total(Widths(dw)) /\ tail = Len(dw))'
    BY <1>1, <1>2 DEF Assigning
  <2>3. \A k \in DOMAIN dw' : dw'[k].entry < at'
    <3>1. dw' = dw /\ DOMAIN dw = 1 .. Len(dw) /\ \A k \in 1 .. Len(dw) : dw[k].entry \in 1 .. at - 1
      BY <1>2
    <3>2. at \in Nat /\ at' = at + 1
      BY <1>1, <1>2
    <3> QED
      BY ONLY <3>1, <3>2
  <2>4. Hash'
    BY <1>1, <1>3 DEF Hash
  <2>5. ASSUME NEW i \in DOMAIN Files
        PROVE  IF i < at' THEN Recorded1(dw, i)'
               ELSE isosize'[i] = Files[i].size /\ weight'[i] = Files[i].weight
    <3>1. CASE i < at
      <4>1. Recorded1(dw, i)
        BY <1>1, <1>2, <3>1 DEF Assigning
      <4>2. Recorded1(dw, i)'
        <5>1. isosize'[i] = isosize[i] /\ extent'[i] = extent[i]
          BY <1>1, <1>2, <1>18, <3>1
        <5> QED
          BY <1>1, <4>1, <5>1 DEF Recorded1, Stored, Holds
      <4> QED
        BY <1>1, <1>2, <3>1, <4>2
    <3>2. CASE i = at
      <4>1. /\ dw'[n].entry # 0 /\ Same(i, dw'[n].entry) /\ dw'[n].size = isosize'[i]
            /\ dw'[n].extent = extent'[i]
        BY <1>1, <1>5, <1>6, <1>8, <1>10, <3>2
      <4>2. Recorded1(dw, i)'
        BY <1>1, <1>2, <4>1 DEF Recorded1, Holds
      <4> QED
        BY <1>1, <1>2, <3>2, <4>2
    <3>3. CASE i > at
      <4>1. isosize[i] = Files[i].size /\ weight[i] = Files[i].weight
        BY <1>1, <1>2, <3>3 DEF Assigning
      <4>2. isosize'[i] = isosize[i] /\ weight'[i] = weight[i] /\ ~(i < at')
        <5>1. i \in 1 .. Len(Files) /\ i # at
          BY <1>1, <1>2, <3>3
        <5>2. ~(i < at')
          BY <1>1, <3>3, <5>1
        <5> QED
          BY <1>10, <1>15, <3>3, <5>1, <5>2
      <4> QED
        BY <4>1, <4>2
    <3> QED
      BY <1>1, <1>2, <3>1, <3>2, <3>3
  <2>6. ASSUME Has("sort")
        PROVE  /\ \A k \in DOMAIN dw' : Largest(weight[dw[k].entry], dw[k].entry, at - 1)'
               /\ \A i \in 1 .. at' - 1 :
                    Stored(i)' => weight'[i] = NotSorted \/ \E k \in DOMAIN dw' : dw'[k].entry = i
    <3>1. ASSUME NEW k \in DOMAIN dw PROVE Largest(weight[dw[k].entry], dw[k].entry, at - 1)'
      <4>1. PICK e \in 1 .. at - 1 : e = dw[k].entry /\ e \in 1 .. Len(Files) /\ e # at
        BY <1>1, <1>2
      <4>2. Largest(weight[e], e, at - 1)
        BY <1>2, <1>4, <2>6, <4>1
      <4>3. CASE e = de
        <5>1. weight'[e] = heavy
          BY <1>15, <2>6, <4>1, <4>3
        <5>2. Sharers(e, at - 1)' = Sharers(e, at - 1) \cup {at}
          <6>1. Files[at].old = 0 /\ isosize'[at] > 0 /\ Same(e, at)
            BY <1>1, <1>2, <1>5, <1>6, <1>9, <1>10, <4>3, Sharing
          <6> QED
            BY <1>1, <1>18, <6>1, SharersAre
        <5>3. \A j \in Sharers(e, at - 1) : Files[j].weight \in Nat
          <6> SUFFICES ASSUME NEW j \in Sharers(e, at - 1) PROVE Files[j].weight \in Nat
            OBVIOUS
          <6>1. j \in 1 .. at - 1
            BY DEF Sharers
          <6>2. j \in DOMAIN Files
            BY <1>1, <1>2, <6>1
          <6> QED
            BY <1>2, <6>2, JobFacts DEF Types, TypeOK
        <5>4. PICK wd : wd = weight[de]
          OBVIOUS
        <5>5. Largest(wd, de, at - 1) /\ wd \in Int /\ wd <= heavy /\ (heavy = wd \/ heavy = weight[at])
          BY <1>2, <1>6, <1>13, <4>2, <4>3, <5>4 DEF NotSorted
        <5>6. Largest(heavy, e, at - 1)'
          <6>1. \A j \in Sharers(e, at - 1) : Files[j].weight <= heavy
            BY <1>13, <4>3, <5>3, <5>5 DEF Largest
          <6>2. \E j \in Sharers(e, at - 1) \cup {at} : Files[j].weight = heavy
            BY <1>12, <4>3, <5>5 DEF Largest
          <6> QED
            BY <1>1, <1>12, <1>13, <5>2, <6>1, <6>2 DEF Largest
        <5> QED
          BY <4>1, <5>1, <5>6 DEF Largest
      <4>4. CASE e # de
        <5>1. PICK w : w = weight[e] /\ w = weight'[e]
          BY <1>15, <2>6, <4>1, <4>4
        <5>2. ~ Same(e, at)
          <6> SUFFICES ASSUME Same(e, at) PROVE FALSE
            OBVIOUS
          <6>2. k = n
            <7>1. dw[k].entry # 0 /\ dw[n].entry # 0 /\ n \in DOMAIN dw
              BY <1>1, <1>2, <1>5, <1>6, <4>1
            <7> QED
              BY <1>3, <1>5, <4>1, <7>1, Sharing DEF Distinct
          <6> QED
            BY <1>6, <4>1, <4>4, <6>2
        <5>3. Largest(w, e, at - 1)'
          BY <1>1, <1>18, <4>2, <5>1, <5>2, LargestKept
        <5> QED
          BY <4>1, <5>1, <5>3 DEF Largest
      <4> QED
        BY <4>3, <4>4
    <3>2. ASSUME NEW i \in 1 .. at' - 1, Stored(i)'
          PROVE  weight'[i] = NotSorted \/ \E k \in DOMAIN dw' : dw'[k].entry = i
      <4>1. i \in 1 .. Len(Files) /\ (i # at => i \in 1 .. at - 1)
        BY <1>1, <1>2
      <4>2. CASE i = at
        BY <1>15, <2>6, <4>1, <4>2
      <4>3. CASE i = de
        BY <1>2, <1>6, <4>3
      <4>4. CASE i # at /\ i # de
        BY <1>1, <1>4, <1>15, <1>18, <2>6, <3>2, <4>1, <4>4 DEF Stored
      <4> QED
        BY <4>2, <4>3, <4>4
    <3> QED
      BY <3>1, <3>2
  <2> QED
    BY <1>1, <2>1, <2>2, <2>3, <2>4, <2>5, <2>6, AssigningIs
<1> QED
  BY <1>17, <1>19, AssigningSuffices

\* A file that is put on the list.
LEMMA NodeKept ==
    ASSUME IInv, AssignEntry, Files[at].old = 0, ~ Known(at, hash), Files[at].size # 0,
           NEW node, node = [entry |-> at, size |-> Files[at].size, extent |-> last_extent,
                             pad |-> IF Has("dvd") THEN Files[at].pad ELSE 0],
           dw' = Append(dw, node), tail' = BehindAppend,
           hash' = Remember(hash, at, last_extent),
           last_extent' = last_extent + Length(node),
           extent' = [extent EXCEPT ![at] = last_extent],
           isosize' = isosize, weight' = weight
    PROVE  IInv'
<1>1. /\ pc = "assign" /\ at \in 1 .. Len(Files) /\ at' = at + 1 /\ pc' = pc
      /\ job' = job /\ Files' = Files /\ (\A o : Has(o)' = Has(o))
      /\ (\A i, j : Same(i, j)' = Same(i, j))
      /\ Behind' = Behind /\ Nodes' = Nodes /\ Widths(dw)' = Widths(dw')
      /\ Whole(dw)' = Whole(dw') /\ Distinct(dw)' = Distinct(dw') /\ NoClumps(dw)' = NoClumps(dw')
      /\ InRow(dw, Behind)' = InRow(dw', Behind)
      /\ NoVolume'
  BY AssignLeaves
<1>2. /\ job \in Jobs /\ Types /\ Assigning /\ Len(Files) \in Nat /\ DOMAIN Files = 1 .. Len(Files)
      /\ dw \in Nodes /\ DOMAIN dw = 1 .. Len(dw) /\ Len(dw) \in Nat /\ last_extent \in Nat
      /\ Behind \in Nat
      /\ extent \in [1 .. Len(Files) -> Nat]
      /\ isosize \in [1 .. Len(Files) -> 0 .. MaxSize]
      /\ weight \in [1 .. Len(Files) -> Nat \cup {NotSorted}]
      /\ hash \in [{Files[i].file : i \in DOMAIN Files} -> [de : {0} \cup DOMAIN Files, start : Nat, size : Nat]]
      /\ \A k \in 1 .. Len(dw) : dw[k].entry \in 1 .. at - 1
  BY <1>1, AssigningFacts
<1>3. /\ Hash /\ Distinct(dw) /\ Whole(dw) /\ NoClumps(dw) /\ InRow(dw, Behind)
      /\ last_extent = Behind + Total(Widths(dw)) /\ tail = Len(dw)
  BY <1>1, <1>2 DEF Assigning
<1>4. Has("sort") =>
        /\ \A k \in DOMAIN dw : Largest(weight[dw[k].entry], dw[k].entry, at - 1)
        /\ \A i \in 1 .. at - 1 :
             Stored(i) => weight[i] = NotSorted \/ \E k \in DOMAIN dw : dw[k].entry = i
  BY <1>1, <1>2 DEF Assigning
<1>5. /\ \A k \in 1 .. Len(dw) : ~ Same(at, dw[k].entry)
      /\ \A j \in 1 .. at - 1 : Stored(j) => ~ Same(at, j)
  BY <1>1, KnownNode
<1>6. /\ Files[at].size \in Nat \ {0} /\ Files[at].pad \in Nat /\ Files[at].weight \in Nat
      /\ Files[at].file \in DOMAIN hash /\ Files[at].cached \in BOOLEAN
  <2>1. PICK i \in DOMAIN Files : i = at
    BY <1>1, <1>2
  <2>2. /\ Files[i].size \in 0 .. MaxSize /\ Files[i].pad \in Nat /\ Files[i].weight \in Nat
        /\ Files[i].cached \in BOOLEAN
    BY <1>2, JobFacts
  <2>3. Files[i].file \in DOMAIN hash
    BY <1>2
  <2> QED
    BY <2>1, <2>2, <2>3
<1>7. /\ node.entry = at /\ node.size = Files[at].size /\ node.extent = last_extent
      /\ node.pad = IF Has("dvd") THEN Files[at].pad ELSE 0
  OBVIOUS
<1>8. node \in Node
  <2>1. PICK p \in Nat : p = IF Has("dvd") THEN Files[at].pad ELSE 0
    BY <1>6
  <2>2. at \in 0 .. Len(Files)
    BY <1>1, <1>2
  <2> QED
    BY <1>2, <1>6, <2>1, <2>2 DEF Node
<1>9. PICK n \in Nat : n = Len(dw)
  BY Zenon, <1>2
<1>10. /\ dw' \in Nodes /\ Len(dw') = n + 1 /\ DOMAIN dw' = 1 .. n + 1
       /\ \A k \in 1 .. n : dw'[k] = dw[k]
       /\ dw'[n + 1] = node
       /\ \A k \in 0 .. n : Sums(Widths(dw'))[k] = Sums(Widths(dw))[k]
       /\ Total(Widths(dw')) = Total(Widths(dw)) + Width(node)
  BY <1>2, <1>8, <1>9, Continued
<1>11. Width(node) = Length(node) /\ Width(node) \in Nat
  BY <1>7, <1>8, WidthIs DEF Node, Width, Length
<1>12. last_extent' = Behind + Total(Widths(dw')) /\ last_extent' \in Nat
  <2>1. Total(Widths(dw)) \in Nat
    BY <1>2, WidthsAre
  <2>2. Width(node) \in Nat /\ last_extent' = last_extent + Width(node)
    BY <1>11 DEF Width, Length
  <2>3. last_extent = Behind + Total(Widths(dw)) /\ last_extent \in Nat
    BY <1>2, <1>3
  <2>4. Total(Widths(dw')) = Total(Widths(dw)) + Width(node) /\ Behind \in Nat
    BY <1>2, <1>10
  <2> QED
    BY ONLY <2>1, <2>2, <2>3, <2>4
<1>13. /\ extent' \in [1 .. Len(Files) -> Nat]
       /\ \A i \in 1 .. Len(Files) : extent'[i] = IF i = at THEN last_extent ELSE extent[i]
  BY <1>1, <1>2
<1>14. isosize[at] = Files[at].size /\ weight[at] = Files[at].weight
  <2>1. \A i \in DOMAIN Files : ~ (i < at) => isosize[i] = Files[i].size /\ weight[i] = Files[i].weight
    BY <1>1, <1>2 DEF Assigning
  <2>2. at \in DOMAIN Files /\ ~ (at < at)
    BY <1>1, <1>2
  <2> QED
    BY <2>1, <2>2
<1> DEFINE file == Files[at].file
           h == [de |-> at, start |-> last_extent, size |-> Files[at].size]
<1>15. /\ Files[at].cached => hash' = [hash EXCEPT ![file] = h]
       /\ ~ Files[at].cached => hash' = hash
  BY DEF Remember
<1>16. h \in [de : {0} \cup DOMAIN Files, start : Nat, size : Nat]
  BY <1>1, <1>2, <1>6
<1> HIDE DEF h
<1>17. /\ hash' \in [{Files[i].file : i \in DOMAIN Files} -> [de : {0} \cup DOMAIN Files, start : Nat, size : Nat]]
       /\ DOMAIN hash' = DOMAIN hash
       /\ \A f \in DOMAIN hash : hash'[f] = IF Files[at].cached /\ f = file THEN h ELSE hash[f]
  <2> DEFINE D == {Files[i].file : i \in DOMAIN Files}
             R == [de : {0} \cup DOMAIN Files, start : Nat, size : Nat]
  <2>1. hash \in [D -> R] /\ h \in R
    BY <1>2, <1>16
  <2> HIDE DEF D, R
  <2>2. CASE Files[at].cached
    <3>2. hash' \in [D -> R] /\ DOMAIN hash' = DOMAIN hash
          /\ \A f \in DOMAIN hash : hash'[f] = IF f = file THEN h ELSE hash[f]
      BY <1>15, <2>1, <2>2
    <3> QED
      BY <2>2, <3>2 DEF D, R
  <2>3. CASE ~ Files[at].cached
    BY <1>15, <2>1, <2>3 DEF D, R
  <2> QED
    BY <2>2, <2>3
<1>18. \A k \in 1 .. n + 1 : k \in 1 .. n \/ k = n + 1
  OBVIOUS
<1>19. Types'
  <2>1. OfFiles(dw)'
    <3>1. ASSUME NEW k \in 1 .. n + 1, dw'[k].entry # 0
          PROVE  LET e == Files[dw'[k].entry]
                 IN /\ e.old = 0 /\ e.size > 0 /\ dw'[k].size = e.size
                    /\ isosize[dw'[k].entry] = e.size
      <4>1. CASE k \in 1 .. n
        <5>1. k \in DOMAIN dw /\ dw'[k] = dw[k]
          BY <1>2, <1>9, <1>10, <4>1
        <5>2. OfFiles(dw)
          BY <1>2 DEF Types
        <5> QED
          BY <3>1, <5>1, <5>2 DEF OfFiles
      <4>2. CASE k = n + 1
        BY <1>6, <1>7, <1>10, <1>14, <4>2
      <4> QED
        BY <1>18, <4>1, <4>2
    <3> QED
      BY <1>1, <1>10, <3>1 DEF OfFiles
  <2> QED
    BY <1>2, <1>9, <1>10, <1>12, <1>13, <1>17, <2>1, AssignTypes DEF BehindAppend
<1>20. Whole(dw') /\ NoClumps(dw')
  <2>1. Whole(dw')
    BY <1>1, <1>2, <1>3, <1>7, <1>9, <1>10, <1>18 DEF Whole
  <2>2. NoClumps(dw')
    <3> SUFFICES ASSUME ~ Has("dvd") PROVE \A k \in 1 .. n + 1 : dw'[k].pad = 0
      BY <1>10 DEF NoClumps
    <3>1. \A k \in 1 .. n : dw[k].pad = 0
      BY <1>2, <1>3, <1>9 DEF NoClumps
    <3> QED
      BY <1>7, <1>10, <1>18, <3>1
  <2> QED
    BY <2>1, <2>2
<1>21. Distinct(dw')
  <2> SUFFICES ASSUME NEW j \in 1 .. n + 1, NEW k \in 1 .. n + 1,
                      dw'[j].entry # 0, dw'[k].entry # 0, Same(dw'[j].entry, dw'[k].entry)
               PROVE  j = k
    BY <1>10 DEF Distinct
  <2>1. CASE j \in 1 .. n /\ k \in 1 .. n
    <3>1. dw'[j] = dw[j] /\ dw'[k] = dw[k] /\ j \in DOMAIN dw /\ k \in DOMAIN dw
      BY <1>2, <1>9, <1>10, <2>1
    <3> QED
      BY <1>3, <3>1 DEF Distinct
  <2>2. CASE j \in 1 .. n /\ k = n + 1
    BY <1>5, <1>7, <1>9, <1>10, <2>2, Sharing
  <2>3. CASE j = n + 1 /\ k \in 1 .. n
    BY <1>5, <1>7, <1>9, <1>10, <2>3
  <2> QED
    BY <1>18, <2>1, <2>2, <2>3
<1>22. InRow(dw', Behind)
  <2> SUFFICES ASSUME NEW k \in 1 .. n + 1
               PROVE  dw'[k].extent = Behind + Sums(Widths(dw'))[k - 1]
    BY <1>10 DEF InRow
  <2>2. Sums(Widths(dw'))[k - 1] = Sums(Widths(dw))[k - 1]
    BY <1>10
  <2>3. CASE k \in 1 .. n
    <3>1. k \in DOMAIN dw /\ dw'[k] = dw[k]
      BY <1>2, <1>9, <1>10, <2>3
    <3> QED
      BY <1>3, <2>2, <3>1 DEF InRow
  <2>4. CASE k = n + 1
    BY <1>2, <1>3, <1>7, <1>9, <1>10, <2>2, <2>4, WidthsAre
  <2> QED
    BY <1>18, <2>3, <2>4
<1>23. Hash'
  <2> SUFFICES ASSUME NEW f \in DOMAIN hash'
               PROVE  LET nodes == {k \in DOMAIN dw' : Files'[dw'[k].entry].cached /\ Files'[dw'[k].entry].file = f}
                      IN IF nodes = {} THEN hash'[f] = Unknown
                         ELSE \E k \in nodes : hash'[f] = [de |-> dw'[k].entry, start |-> dw'[k].extent, size |-> dw'[k].size]
    BY DEF Hash
  <2>3. f \in DOMAIN hash
    BY <1>17
  <2> DEFINE nodes == {k \in DOMAIN dw : Files[dw[k].entry].cached /\ Files[dw[k].entry].file = f}
             more == {k \in DOMAIN dw' : Files'[dw'[k].entry].cached /\ Files'[dw'[k].entry].file = f}
  <2>1. CASE Files[at].cached /\ f = file
    <3>1. n + 1 \in more
      BY <1>1, <1>7, <1>9, <1>10, <2>1
    <3>3. hash'[f] = [de |-> dw'[n + 1].entry, start |-> dw'[n + 1].extent, size |-> dw'[n + 1].size]
      BY <1>7, <1>10, <1>17, <2>1, <2>3 DEF h
    <3> QED
      BY <3>1, <3>3
  <2>2. CASE ~ (Files[at].cached /\ f = file)
    <3>1. hash'[f] = hash[f]
      BY <1>17, <2>2, <2>3
    <3>2. ASSUME NEW k PROVE k \in more <=> k \in nodes
      <4>1. CASE k \in 1 .. n
        BY <1>1, <1>2, <1>9, <1>10, <4>1
      <4>2. CASE k = n + 1
        BY <1>1, <1>2, <1>7, <1>9, <1>10, <2>2, <4>2
      <4>3. CASE k \notin 1 .. n + 1
        BY <1>2, <1>9, <1>10, <4>3
      <4> QED
        BY <1>18, <4>1, <4>2, <4>3
    <3>3. more = nodes
      BY <3>2
    <3>4. IF nodes = {} THEN hash[f] = Unknown
          ELSE \E k \in nodes : hash[f] = [de |-> dw[k].entry, start |-> dw[k].extent, size |-> dw[k].size]
      BY <1>3, <2>3 DEF Hash
    <3>5. \A k \in nodes : dw'[k] = dw[k]
      BY <1>2, <1>9, <1>10
    <3> HIDE DEF nodes, more
    <3>6. IF more = {} THEN hash'[f] = Unknown
          ELSE \E k \in more : hash'[f] = [de |-> dw'[k].entry, start |-> dw'[k].extent, size |-> dw'[k].size]
      BY <3>1, <3>3, <3>4, <3>5
    <3> QED
      BY <3>6 DEF more
  <2> QED
    BY <2>1, <2>2
<1>24. ASSUME NEW i \in DOMAIN Files
       PROVE  IF i < at' THEN Recorded1(dw, i)'
              ELSE isosize'[i] = Files[i].size /\ weight'[i] = Files[i].weight
  <2>1. CASE i < at
    <3>1. Recorded1(dw, i) /\ extent'[i] = extent[i]
      BY <1>1, <1>2, <1>13, <2>1 DEF Assigning
    <3>2. \A k \in DOMAIN dw : k \in DOMAIN dw' /\ dw'[k] = dw[k]
      BY <1>2, <1>9, <1>10
    <3>3. Recorded1(dw, i)'
      BY <1>1, <3>1, <3>2 DEF Recorded1, Stored, Holds
    <3> QED
      BY <1>1, <1>2, <2>1, <3>3
  <2>2. CASE i = at
    <3>1. n + 1 \in DOMAIN dw' /\ dw'[n + 1] = node
      BY <1>10
    <3>2. /\ dw'[n + 1].entry # 0 /\ Same(i, dw'[n + 1].entry) /\ dw'[n + 1].size = isosize'[i]
          /\ dw'[n + 1].extent = extent'[i]
      BY <1>1, <1>2, <1>7, <1>13, <1>14, <2>2, <3>1, Sharing
    <3>3. Recorded1(dw, i)'
      BY <1>1, <3>1, <3>2 DEF Recorded1, Holds
    <3> QED
      BY <1>1, <1>2, <2>2, <3>3
  <2>3. CASE i > at
    BY <1>1, <1>2, <2>3 DEF Assigning
  <2> QED
    BY <1>1, <1>2, <2>1, <2>2, <2>3
<1>25. ASSUME Has("sort")
       PROVE  /\ \A k \in DOMAIN dw' : Largest(weight[dw[k].entry], dw[k].entry, at - 1)'
              /\ \A i \in 1 .. at' - 1 :
                   Stored(i)' => weight'[i] = NotSorted \/ \E k \in DOMAIN dw' : dw'[k].entry = i
  <2>1. ASSUME NEW k \in DOMAIN dw' PROVE Largest(weight[dw[k].entry], dw[k].entry, at - 1)'
    <3>1. CASE k \in 1 .. n
      <4>1. PICK e \in 1 .. at - 1 : e = dw[k].entry /\ ~ Same(at, e)
        BY <1>2, <1>5, <1>9, <3>1
      <4>2. PICK w : w = weight[e]
        OBVIOUS
      <4>3. Largest(w, e, at - 1)
        BY <1>2, <1>4, <1>9, <1>25, <3>1, <4>1, <4>2
      <4>4. Largest(w, e, at - 1)'
        BY <1>1, <4>1, <4>3, LargestKept, Sharing
      <4> QED
        BY <1>10, <3>1, <4>1, <4>2, <4>4 DEF Largest
    <3>2. CASE k = n + 1
      <4>1. PICK e \in 1 .. Len(Files) : e = at
        BY <1>1
      <4>2. PICK w \in Nat : w = weight[e] /\ w = Files[e].weight
        BY <1>6, <1>14, <4>1
      <4>4. Sharers(e, at - 1)' = {e}
        <5>1. Files[at].old = 0 /\ isosize'[at] > 0 /\ Same(e, at)
          BY <1>6, <1>14, <4>1, Sharing
        <5> QED
          BY <1>1, <1>5, <4>1, <5>1, SharersAre DEF Sharers
      <4>5. Largest(w, e, at - 1)'
        <5>1. Files'[e].weight = w /\ w <= w
          BY <1>1, <4>2
        <5> QED
          BY ONLY Zenon, <4>4, <5>1 DEF Largest
      <4>6. dw'[k].entry = e /\ weight'[dw'[k].entry] = w
        <5>1. dw'[k] = node
          BY <1>10, <3>2
        <5>2. node.entry = e
          BY <1>7, <4>1
        <5> QED
          BY ONLY <4>2, <5>1, <5>2, weight' = weight
      <4> QED
        BY ONLY Zenon, <4>5, <4>6 DEF Largest
    <3> QED
      BY <1>10, <1>18, <3>1, <3>2
  <2>2. ASSUME NEW i \in 1 .. at' - 1, Stored(i)'
        PROVE  weight'[i] = NotSorted \/ \E k \in DOMAIN dw' : dw'[k].entry = i
    <3>1. CASE i = at
      BY <1>7, <1>9, <1>10, <3>1
    <3>2. CASE i # at
      <4>1. Stored(i) /\ i \in 1 .. at - 1
        BY <1>1, <1>2, <2>2, <3>2 DEF Stored
      <4>2. weight[i] = NotSorted \/ \E k \in DOMAIN dw : dw[k].entry = i
        BY <1>4, <1>25, <4>1
      <4> QED
        BY <1>2, <1>9, <1>10, <4>2
    <3> QED
      BY <3>1, <3>2
  <2> QED
    BY <2>1, <2>2
<1>26. (last_extent = Behind + Total(Widths(dw)) /\ tail = Len(dw))'
  BY <1>1, <1>9, <1>10, <1>12 DEF BehindAppend
<1>27. \A k \in DOMAIN dw' : dw'[k].entry < at'
  <2> SUFFICES ASSUME NEW k \in 1 .. n + 1 PROVE dw'[k].entry < at'
    BY <1>10
  <2>1. CASE k \in 1 .. n
    BY <1>1, <1>2, <1>9, <1>10, <2>1
  <2>2. CASE k = n + 1
    BY <1>1, <1>2, <1>7, <1>10, <2>2
  <2> QED
    BY <1>18, <2>1, <2>2
<1>28. Assigning'
  <2>1. at' \in 1 .. Len(Files) + 1
    BY <1>1, <1>2
  <2>2. Whole(dw)' /\ Distinct(dw)' /\ NoClumps(dw)' /\ InRow(dw, Behind)'
    BY <1>1, <1>20, <1>21, <1>22
  <2> QED
    BY <1>1, <1>23, <1>24, <1>25, <1>26, <1>27, <2>1, <2>2, AssigningIs
<1> QED
  BY <1>19, <1>28, AssigningSuffices

LEMMA AssignKept ==
    ASSUME IInv, AssignEntry
    PROVE  IInv'
<1> DEFINE e == Files[at]
           node == [entry |-> at, size |-> e.size, extent |-> last_extent,
                    pad |-> IF Has("dvd") THEN e.pad ELSE 0]
<1>1. /\ pc = "assign" /\ at \in 1 .. Len(Files)
  BY AssignLeaves
<1>2. /\ extent \in [1 .. Len(Files) -> Nat] /\ last_extent \in Nat /\ Len(Files) \in Nat
      /\ DOMAIN Files = 1 .. Len(Files) /\ Assigning
  BY <1>1, AssigningFacts
<1>3. CASE e.old # 0 /\ UNCHANGED <<extent, isosize, weight, hash, dw, tail, last_extent>>
  BY <1>2, <1>3, NotStored DEF Stored
<1>4. CASE /\ e.old = 0 /\ Known(at, hash)
           /\ extent' = [extent EXCEPT ![at] = hash[e.file].start]
           /\ isosize' = [isosize EXCEPT ![at] = hash[e.file].size]
           /\ weight' = IF Has("sort") THEN Weighed(at, hash[e.file].de) ELSE weight
           /\ UNCHANGED <<hash, dw, tail, last_extent>>
  BY <1>4, LinkKept
<1>5. CASE /\ e.old = 0 /\ ~ Known(at, hash)
           /\ extent' = [extent EXCEPT ![at] = last_extent]
           /\ e.size = 0 /\ UNCHANGED <<hash, dw, tail, last_extent>>
           /\ UNCHANGED <<isosize, weight>>
  BY <1>1, <1>2, <1>5, NotStored DEF Assigning, Stored
<1>6. CASE /\ e.old = 0 /\ ~ Known(at, hash)
           /\ extent' = [extent EXCEPT ![at] = last_extent]
           /\ e.size # 0
           /\ dw' = Append(dw, node) /\ tail' = BehindAppend
           /\ hash' = Remember(hash, at, last_extent)
           /\ last_extent' = last_extent + Length(node)
           /\ UNCHANGED <<isosize, weight>>
  <2>1. PICK n : n = node
    OBVIOUS
  <2> QED
    BY <1>6, <2>1, NodeKept
<1> QED
  BY <1>3, <1>4, <1>5, <1>6 DEF AssignEntry

----------------------------------------------------------------------------
(* Files that are moved                                                    *)

\* Every record leads to the node that stores its entry; the nodes come by weight.
Leads(list, ext) ==
    \A i \in DOMAIN Files : Stored(i) =>
      \E k \in DOMAIN list : Holds(list[k], i) /\ list[k].extent = ext[i]
Ranked(list) ==
    Has("sort") =>
      /\ \A j, k \in DOMAIN list : j < k => weight[list[j].entry] >= weight[list[k].entry]
      /\ \A k \in DOMAIN list : Largest(weight[list[k].entry], list[k].entry, Len(Files))

\* Placing the nodes changes where they are and nothing else.
LEMMA Placement ==
    ASSUME NEW list \in Nodes, NEW lengths \in Seq(Nat), Len(lengths) = Len(list), NEW start \in Nat
    PROVE  /\ Placed(list, lengths, start) \in Nodes
           /\ Len(Placed(list, lengths, start)) = Len(list)
           /\ DOMAIN Placed(list, lengths, start) = 1 .. Len(list)
           /\ \A k \in 1 .. Len(list) :
                /\ Placed(list, lengths, start)[k].entry = list[k].entry
                /\ Placed(list, lengths, start)[k].size = list[k].size
                /\ Placed(list, lengths, start)[k].pad = list[k].pad
                /\ Placed(list, lengths, start)[k].extent = start + Sums(lengths)[k - 1]
<1> DEFINE new == Placed(list, lengths, start)
           S == [entry : 0 .. Len(Files), size : Nat, extent : Nat, pad : Nat]
<1>1. Len(list) \in Nat /\ DOMAIN list = 1 .. Len(list) /\ \A k \in 1 .. Len(list) : list[k] \in S
  BY Nodes1
<1>2. ASSUME NEW k \in 1 .. Len(list)
      PROVE  /\ new[k] \in S
             /\ new[k].entry = list[k].entry /\ new[k].size = list[k].size /\ new[k].pad = list[k].pad
             /\ new[k].extent = start + Sums(lengths)[k - 1]
  <2>1. PICK b \in Nat : b = start + Sums(lengths)[k - 1]
    <3>2. k - 1 \in 0 .. Len(lengths)
      BY <1>1
    <3>3. Sums(lengths)[k - 1] \in Nat
      <4> DEFINE g == Sums(lengths)
      <4> HIDE DEF g
      <4>1. g \in [0 .. Len(lengths) -> Nat]
        BY SumsAre DEF g
      <4> QED
        BY <3>2, <4>1 DEF g
    <3> QED
      BY <3>3
  <2>3. list[k] \in S
    BY <1>1
  <2> QED
    BY <1>1, <2>1, <2>3 DEF Placed
<1>3. new \in [1 .. Len(list) -> S]
  <2>1. DOMAIN new = 1 .. Len(list)
    BY <1>1 DEF Placed
  <2>2. new = [k \in 1 .. Len(list) |-> new[k]]
    BY <1>1 DEF Placed
  <2> HIDE DEF new
  <2> QED
    BY <1>2, <2>2
<1>4. new \in Seq(S) /\ Len(new) = Len(list) /\ DOMAIN new = 1 .. Len(list)
  <2> HIDE DEF new, S
  <2> QED
    BY <1>1, <1>3, IsSeq
<1> QED
  BY <1>2, <1>4 DEF Nodes

\* Nodes that hold something lie at rising blocks.
LEMMA Rising ==
    ASSUME NEW list \in Nodes, NEW from \in Nat, InRow(list, from),
           \A k \in 1 .. Len(list) : list[k].size > 0,
           NEW j \in 1 .. Len(list), NEW k \in 1 .. Len(list), j < k
    PROVE  list[j].extent < list[k].extent
<1>1. /\ Len(list) \in Nat /\ DOMAIN list = 1 .. Len(list)
      /\ list[j] \in [entry : 0 .. Len(Files), size : Nat, extent : Nat, pad : Nat]
  BY Nodes1
<1>2. PICK s \in Seq(Nat) : s = Widths(list) /\ Len(s) = Len(list)
  BY WidthsAre
<1>3. PICK a \in 0 .. Len(s), b \in 0 .. Len(s) : a = j - 1 /\ b = k - 1 /\ a < b
  BY <1>1, <1>2
<1>4. Sums(s)[a] + s[a + 1] <= Sums(s)[b]
  BY <1>3, SumsGrow
<1>5. s[a + 1] = Width(list[j]) /\ Width(list[j]) \in Nat /\ Width(list[j]) > 0
  <2>1. a + 1 = j
    BY <1>1, <1>3
  <2> QED
    BY <1>1, <1>2, <2>1, WidthIs, WidthsAre
<1>6. /\ list[j].extent = from + Sums(s)[a] /\ list[k].extent = from + Sums(s)[b]
      /\ Sums(s)[a] \in Nat /\ Sums(s)[b] \in Nat
  BY <1>1, <1>2, <1>3, WidthsAre DEF InRow
<1> QED
  BY <1>4, <1>5, <1>6

\* The record of an entry that has a node names the block of it; the others stay.
LEMMA RecordedIs ==
    ASSUME NEW list \in Nodes, Distinct(list), NEW ext, NEW i \in DOMAIN ext, i # 0
    PROVE  /\ \A k \in 1 .. Len(list) : list[k].entry = i => Recorded(ext, list)[i] = list[k].extent
           /\ (\A k \in 1 .. Len(list) : list[k].entry # i) => Recorded(ext, list)[i] = ext[i]
<1>1. DOMAIN list = 1 .. Len(list)
  BY Nodes1
<1>2. ASSUME NEW k \in 1 .. Len(list), list[k].entry = i
      PROVE  Recorded(ext, list)[i] = list[k].extent
  <2>1. PICK c : c = CHOOSE m \in DOMAIN list : list[m].entry = i
    OBVIOUS
  <2>3. c = k
    BY <1>1, <1>2, <2>1, Sharing DEF Distinct
  <2> QED
    BY <1>1, <1>2, <2>1, <2>3 DEF Recorded
<1>3. ASSUME \A k \in 1 .. Len(list) : list[k].entry # i
      PROVE  Recorded(ext, list)[i] = ext[i]
  BY <1>1, <1>3 DEF Recorded
<1> QED
  BY <1>2, <1>3

LEMMA RecordedTyped ==
    ASSUME NEW list \in Nodes, NEW n, NEW ext \in [n -> Nat]
    PROVE  Recorded(ext, list) \in [n -> Nat]
<1>2. ASSUME NEW i \in n PROVE Recorded(ext, list)[i] \in Nat
  <2>1. CASE \E k \in DOMAIN list : list[k].entry = i
    <3>1. PICK c : c = CHOOSE m \in DOMAIN list : list[m].entry = i
      OBVIOUS
    <3>2. c \in DOMAIN list
      BY <2>1, <3>1
    <3>3. Recorded(ext, list)[i] = list[c].extent
      BY <2>1, <3>1 DEF Recorded
    <3> QED
      BY <3>2, <3>3, Nodes1
  <2>2. CASE ~ \E k \in DOMAIN list : list[k].entry = i
    BY <2>2 DEF Recorded
  <2> QED
    BY <2>1, <2>2
<1> QED
  BY <1>2 DEF Recorded

\* The hash that is filled from a list finds the node of each file.
LEMMA HashedIs ==
    ASSUME NEW list \in Nodes, Whole(list), Distinct(list), NEW f \in DOMAIN hash
    PROVE  /\ \A k \in 1 .. Len(list) :
                Files[list[k].entry].cached /\ Files[list[k].entry].file = f =>
                  Hashed(list)[f] = [de |-> list[k].entry, start |-> list[k].extent,
                                     size |-> Files[list[k].entry].size]
           /\ (\A k \in 1 .. Len(list) :
                 ~ (Files[list[k].entry].cached /\ Files[list[k].entry].file = f)) =>
                   Hashed(list)[f] = Unknown
<1>1. Len(list) \in Nat /\ DOMAIN list = 1 .. Len(list)
  BY Nodes1
<1> DEFINE names == {k \in DOMAIN list : Files[list[k].entry].cached /\ Files[list[k].entry].file = f}
<1>2. Hashed(list)[f] =
        IF names = {} THEN Unknown
        ELSE [de |-> list[Max(names)].entry, start |-> list[Max(names)].extent,
              size |-> Files[list[Max(names)].entry].size]
  BY Zenon DEF Hashed
<1>3. ASSUME NEW k \in 1 .. Len(list),
             Files[list[k].entry].cached, Files[list[k].entry].file = f
      PROVE  names = {k} /\ Max(names) = k
  <2>1. \A j \in names : j = k
    <3> SUFFICES ASSUME NEW j \in names PROVE j = k
      OBVIOUS
    <3> QED
      BY <1>1, <1>3 DEF Whole, Same, Distinct
  <2>2. names = {k}
    BY <1>1, <1>3, <2>1
  <2>4. {k, k} = names
    BY <2>2
  <2> QED
    BY <1>1, <2>2, <2>4, MaxIs
<1> HIDE DEF names
<1>4. ASSUME NEW k \in 1 .. Len(list),
             Files[list[k].entry].cached, Files[list[k].entry].file = f
      PROVE  Hashed(list)[f] = [de |-> list[k].entry, start |-> list[k].extent,
                                size |-> Files[list[k].entry].size]
  BY <1>2, <1>3, <1>4
<1>5. ASSUME \A k \in 1 .. Len(list) : ~ (Files[list[k].entry].cached /\ Files[list[k].entry].file = f)
      PROVE  Hashed(list)[f] = Unknown
  BY Zenon, <1>1, <1>2, <1>5 DEF names
<1> QED
  BY <1>4, <1>5

\* What the records of an entry are set to leads to the node that stores it.
LEMMA Relinked ==
    ASSUME NEW new \in Nodes, Whole(new), Distinct(new), NEW ext, NEW i \in DOMAIN ext, i # 0,
           Files[i].file \in DOMAIN hash,
           NEW k \in 1 .. Len(new), Holds(new[k], i)
    PROVE  /\ new[k].entry = i => Recorded(ext, new)[i] = new[k].extent
           /\ new[k].entry # i => Files[i].cached /\ Known(i, Hashed(new))
           /\ Known(i, Hashed(new)) => Hashed(new)[Files[i].file].start = new[k].extent
<1>1. DOMAIN new = 1 .. Len(new)
  BY Nodes1
<1>2. Same(i, new[k].entry) /\ new[k].entry # 0
  BY DEF Holds
<1>4. Files[i].cached =>
        /\ Hashed(new)[Files[i].file].de = new[k].entry
        /\ Hashed(new)[Files[i].file].start = new[k].extent
  <2> SUFFICES ASSUME Files[i].cached
               PROVE  /\ Hashed(new)[Files[i].file].de = new[k].entry
                      /\ Hashed(new)[Files[i].file].start = new[k].extent
    OBVIOUS
  <2>1. PICK f \in DOMAIN hash : f = Files[i].file
    OBVIOUS
  <2>3. Hashed(new)[f] = [de |-> new[k].entry, start |-> new[k].extent, size |-> Files[new[k].entry].size]
    BY <1>2, <2>1, HashedIs DEF Same
  <2> QED
    BY <2>1, <2>3
<1>5. new[k].entry # i => Files[i].cached
  BY <1>2 DEF Same
<1>6. Known(i, Hashed(new)) => Files[i].cached
  BY DEF Known
<1> QED
  BY <1>2, <1>4, <1>5, <1>6, RecordedIs DEF Known

\* The weight of a node is the heaviest of what it stores.
LEMMA HeaviestIs ==
    ASSUME job \in Jobs, NEW i \in DOMAIN Files, Stored(i), NEW e, Same(i, e),
           NEW w, Largest(w, e, Len(Files))
    PROVE  Heaviest(i) = w /\ w \in Nat
<1> DEFINE names == {k \in DOMAIN Files : \/ k = i
                                          \/ /\ Stored(k) /\ Files[k].cached /\ Files[i].cached
                                             /\ Files[k].file = Files[i].file}
           weights == {Files[j].weight : j \in names}
<1>1. DOMAIN Files = 1 .. Len(Files) /\ \A k \in DOMAIN Files : Files[k].weight \in Nat
  BY JobFacts
<1>2. ASSUME NEW k PROVE k \in names <=> k \in Sharers(e, Len(Files))
  BY <1>1, Sharing DEF Same, Sharers
<1>3. names = Sharers(e, Len(Files)) /\ \A k \in names : Files[k].weight \in Nat
  BY <1>1, <1>2
<1> HIDE DEF names
<1>4. /\ \A y \in weights : y \in Nat /\ y <= w
      /\ w \in weights
  BY <1>3 DEF Largest
<1> HIDE DEF weights
<1>5. (CHOOSE x \in weights : \A y \in weights : x >= y) = w
  <2>2. ASSUME NEW x \in weights, \A y \in weights : x >= y PROVE x = w
    BY <1>4, <2>2
  <2> QED
    BY <1>4, <2>2
<1> QED
  BY <1>4, <1>5 DEF Heaviest, weights, names, Max

\* When nodes come by weight and lie at rising blocks the heavier entry is earlier.
LEMMA HeavierEarlier ==
    ASSUME job \in Jobs, NEW list \in Nodes, NEW ext, Leads(list, ext), Ranked(list), Has("sort"),
           \A j, k \in 1 .. Len(list) : j < k => list[j].extent < list[k].extent,
           NEW i \in DOMAIN Files, NEW j \in DOMAIN Files, Stored(i), Stored(j), Heaviest(i) > Heaviest(j)
    PROVE  ext[i] < ext[j]
<1>1. Len(list) \in Nat /\ DOMAIN list = 1 .. Len(list)
  BY Nodes1
<1>2. PICK m \in 1 .. Len(list) : Same(i, list[m].entry) /\ list[m].extent = ext[i]
  BY <1>1 DEF Leads, Holds
<1>3. PICK n \in 1 .. Len(list) : Same(j, list[n].entry) /\ list[n].extent = ext[j]
  BY <1>1 DEF Leads, Holds
<1>4. PICK a : a = weight[list[m].entry]
  OBVIOUS
<1>5. PICK b : b = weight[list[n].entry]
  OBVIOUS
<1>6. Largest(a, list[m].entry, Len(Files)) /\ Largest(b, list[n].entry, Len(Files))
  BY <1>1, <1>4, <1>5 DEF Ranked
<1>7. Heaviest(i) = a /\ a \in Nat
  BY <1>2, <1>6, HeaviestIs
<1>8. Heaviest(j) = b /\ b \in Nat
  BY <1>3, <1>6, HeaviestIs
<1>9. m < n
  <2> SUFFICES ASSUME ~ (m < n) PROVE FALSE
    OBVIOUS
  <2>1. CASE m = n
    BY <1>4, <1>5, <1>7, <1>8, <2>1
  <2>2. CASE n < m
    <3>1. b >= a
      BY <1>1, <1>4, <1>5, <2>2 DEF Ranked
    <3> QED
      BY <1>7, <1>8, <3>1
  <2> QED
    BY <2>1, <2>2
<1> QED
  BY <1>2, <1>3, <1>9

\* What is said of the records and weights of a list before and after a step.
LEMMA SameRecords ==
    ASSUME job' = job, isosize' = isosize, weight' = weight
    PROVE  /\ AllRecorded(dw)' <=> Leads(dw', extent')
           /\ Descending' <=> Ranked(dw')
           /\ \A i : Heaviest(i)' = Heaviest(i) /\ (Stored(i)' <=> Stored(i))
           /\ AllRecorded(dw) <=> Leads(dw, extent)
           /\ Descending <=> Ranked(dw)
<1>1. Files' = Files /\ (\A o : Has(o)' = Has(o)) /\ \A i, j : Same(i, j)' = Same(i, j)
  BY SameJob
<1>2. \A i : Stored(i)' <=> Stored(i)
  BY <1>1 DEF Stored
<1>5. AllRecorded(dw)' <=> Leads(dw', extent')
  BY <1>1, <1>2 DEF Holds, AllRecorded, Recorded1, Leads
<1>7. \A w, i, n : Largest(w, i, n)' <=> Largest(w, i, n)
  BY <1>1, <1>2 DEF Sharers, Largest
<1>9. (AllRecorded(dw) <=> Leads(dw, extent)) /\ (Descending <=> Ranked(dw))
  BY DEF AllRecorded, Recorded1, Leads, Descending, Ranked
<1> QED
  BY <1>1, <1>2, <1>5, <1>7, <1>9 DEF Descending, Ranked, Heaviest

\* What the list is when all files have their blocks.
Arranged ==
    /\ dw' \in Nodes /\ OfFiles(dw)' /\ tail' \in 0 .. Len(dw') /\ (tail' = 0 <=> dw' = <<>>)
    /\ hash' \in [{Files[i].file : i \in DOMAIN Files} -> [de : {0} \cup DOMAIN Files, start : Nat, size : Nat]]
    /\ extent' \in [1 .. Len(Files) -> Nat]
    /\ Whole(dw') /\ Distinct(dw') /\ NoClumps(dw') /\ InRow(dw', Behind)
    /\ Total(Widths(dw')) = Total(Widths(dw))
    /\ Leads(dw', extent') /\ Ranked(dw')

\* What the hash holds has its types.
LEMMA HashedTyped ==
    ASSUME NEW list \in Nodes, Whole(list), Distinct(list), DOMAIN Files = 1 .. Len(Files),
           \A k \in 1 .. Len(list) : list[k].size = Files[list[k].entry].size,
           hash \in [{Files[i].file : i \in DOMAIN Files} -> [de : {0} \cup DOMAIN Files, start : Nat, size : Nat]]
    PROVE  Hashed(list) \in [{Files[i].file : i \in DOMAIN Files} -> [de : {0} \cup DOMAIN Files, start : Nat, size : Nat]]
<1> DEFINE D == {Files[i].file : i \in DOMAIN Files}
           R == [de : {0} \cup DOMAIN Files, start : Nat, size : Nat]
<1>1. DOMAIN hash = D
  OBVIOUS
<1>2. Hashed(list) = [f \in D |-> Hashed(list)[f]]
  <2> HIDE DEF D
  <2> QED
    BY Zenon, <1>1 DEF Hashed
<1>3. ASSUME NEW f \in D PROVE Hashed(list)[f] \in R
  <2>1. PICK g \in DOMAIN hash : g = f
    BY <1>1
  <2>2. CASE \E k \in 1 .. Len(list) : Files[list[k].entry].cached /\ Files[list[k].entry].file = g
    <3>1. PICK k \in 1 .. Len(list) : Files[list[k].entry].cached /\ Files[list[k].entry].file = g
      BY <2>2
    <3>2. Hashed(list)[g] = [de |-> list[k].entry, start |-> list[k].extent, size |-> Files[list[k].entry].size]
      BY <3>1, HashedIs
    <3>3. /\ list[k].entry \in 0 .. Len(Files) /\ list[k].extent \in Nat /\ list[k].size \in Nat
          /\ list[k].size = Files[list[k].entry].size
      BY Nodes1
    <3>4. list[k].entry \in {0} \cup DOMAIN Files
      BY <3>3
    <3> QED
      BY <2>1, <3>2, <3>3, <3>4
  <2>3. CASE ~ \E k \in 1 .. Len(list) : Files[list[k].entry].cached /\ Files[list[k].entry].file = g
    BY <2>1, <2>3, HashedIs DEF Unknown
  <2> QED
    BY <2>2, <2>3
<1> HIDE DEF D, R
<1>4. Hashed(list) \in [D -> R]
  BY <1>2, <1>3
<1> QED
  BY <1>4 DEF D, R

LEMMA Sorting ==
    ASSUME IInv, pc = "assign", at > Len(Files), SortFiles, Has("sort"), dw # <<>>,
           job' = job, isosize' = isosize, weight' = weight
    PROVE  Arranged
<1>1. /\ job \in Jobs /\ Types /\ Assigning /\ Len(Files) \in Nat /\ DOMAIN Files = 1 .. Len(Files)
      /\ dw \in Nodes /\ DOMAIN dw = 1 .. Len(dw) /\ Len(dw) \in Nat
      /\ Behind \in Nat /\ at = Len(Files) + 1
      /\ extent \in [1 .. Len(Files) -> Nat]
      /\ isosize \in [1 .. Len(Files) -> 0 .. MaxSize]
      /\ weight \in [1 .. Len(Files) -> Nat \cup {NotSorted}]
      /\ hash \in [{Files[i].file : i \in DOMAIN Files} -> [de : {0} \cup DOMAIN Files, start : Nat, size : Nat]]
      /\ \A k \in 1 .. Len(dw) : /\ dw[k] \in Node /\ dw[k].entry \in 1 .. Len(Files)
                                 /\ dw[k].size \in Nat \ {0} /\ dw[k].extent \in Nat
                                 /\ dw[k].size = Files[dw[k].entry].size
  BY AssigningFacts
<1>2. /\ Distinct(dw) /\ Whole(dw) /\ NoClumps(dw) /\ InRow(dw, Behind) /\ tail = Len(dw)
      /\ \A k \in 1 .. Len(dw) : Largest(weight[dw[k].entry], dw[k].entry, Len(Files))
      /\ \A i \in 1 .. Len(Files) :
           /\ Recorded1(dw, i)
           /\ Stored(i) => weight[i] = NotSorted \/ \E k \in 1 .. Len(dw) : dw[k].entry = i
  <2>1. at - 1 = Len(Files) /\ \A i \in 1 .. Len(Files) : i < at
    BY <1>1
  <2>3. /\ \A k \in DOMAIN dw : Largest(weight[dw[k].entry], dw[k].entry, at - 1)
        /\ \A i \in 1 .. at - 1 :
             Stored(i) => weight[i] = NotSorted \/ \E k \in DOMAIN dw : dw[k].entry = i
    BY <1>1 DEF Assigning
  <2>4. \A k \in 1 .. Len(dw) : Largest(weight[dw[k].entry], dw[k].entry, Len(Files))
    BY <1>1, <2>1, <2>3
  <2>5. \A i \in 1 .. Len(Files) :
          Stored(i) => weight[i] = NotSorted \/ \E k \in 1 .. Len(dw) : dw[k].entry = i
    BY <1>1, <2>1, <2>3
  <2> QED
    BY <1>1, <2>1, <2>4, <2>5 DEF Assigning
<1>3. PICK n \in Nat : n = Len(dw) /\ n > 0 /\ 1 \in 1 .. n
  <2>1. Len(dw) # 0
    <3> DEFINE S == Node
    <3> HIDE DEF S
    <3> QED
      BY <1>1, EmptySeq DEF Nodes, Node
  <2>2. PICK m \in Nat : m = Len(dw)
    BY Zenon, <1>1
  <2> QED
    BY <2>1, <2>2
<1>4. PICK order \in Orders(dw) :
        LET sorted == [k \in DOMAIN dw |-> dw[order[k]]]
            new == Placed(sorted, [k \in DOMAIN sorted |-> Length(sorted[k])], dw[1].extent)
            direct == Recorded(extent, new)
        IN /\ dw' = new
           /\ tail' = CHOOSE k \in DOMAIN new : new[k].entry = dw[tail].entry
           /\ hash' = Hashed(new)
           /\ extent' = [i \in DOMAIN extent |->
                           IF weight[i] = NotSorted /\ Known(i, hash')
                           THEN hash'[Files[i].file].start ELSE direct[i]]
  BY Zenon DEF SortFiles
<1> DEFINE sorted == [k \in DOMAIN dw |-> dw[order[k]]]
           lengths == [k \in DOMAIN sorted |-> Length(sorted[k])]
<1>5. /\ dw' = Placed(sorted, lengths, dw[1].extent)
      /\ tail' = CHOOSE k \in DOMAIN dw' : dw'[k].entry = dw[tail].entry
      /\ hash' = Hashed(dw')
      /\ extent' = [i \in DOMAIN extent |->
                           IF weight[i] = NotSorted /\ Known(i, hash')
                           THEN hash'[Files[i].file].start ELSE Recorded(extent, dw')[i]]
  BY <1>4
<1>6. /\ order \in Bijection(1 .. n, 1 .. n)
      /\ \A j, k \in 1 .. n : j < k => Before(dw[order[j]], dw[order[k]])
  BY <1>1, <1>3, <1>4 DEF Orders
<1>7. /\ order \in [1 .. n -> 1 .. n]
      /\ \A j, k \in 1 .. n : order[j] = order[k] => j = k
      /\ \A k \in 1 .. n : \E j \in 1 .. n : order[j] = k
  BY <1>6 DEF Bijection, Injection, Surjection, IsInjective
<1>8. sorted \in Nodes /\ Len(sorted) = n /\ DOMAIN sorted = 1 .. n
      /\ \A k \in 1 .. n : sorted[k] = dw[order[k]]
  <2>1. \A k \in 1 .. n : sorted[k] = dw[order[k]] /\ dw[order[k]] \in Node
    BY <1>1, <1>3, <1>7
  <2>2. sorted \in [1 .. n -> Node]
    <3> DEFINE S == Node
    <3>1. \A k \in 1 .. n : dw[order[k]] \in S
      BY <2>1
    <3> HIDE DEF S
    <3>2. sorted \in [1 .. n -> S]
      BY <1>1, <1>3, <3>1
    <3> QED
      BY <3>2 DEF S
  <2> HIDE DEF sorted
  <2> QED
    BY <2>1, <2>2, IsSeq DEF Nodes, Node
<1> HIDE DEF sorted
<1>9. \A k \in 1 .. n : lengths[k] = Width(sorted[k]) /\ lengths[k] \in Nat
  <2> SUFFICES ASSUME NEW k \in 1 .. n PROVE lengths[k] = Width(sorted[k]) /\ lengths[k] \in Nat
    OBVIOUS
  <2>1. order[k] \in 1 .. Len(dw) /\ order[k] \in DOMAIN dw
    BY <1>1, <1>3, <1>7
  <2>2. PICK node \in Node : node = sorted[k] /\ (Has("dvd") \/ node.pad = 0)
    BY <1>1, <1>2, <1>8, <2>1 DEF NoClumps
  <2>4. Width(node) \in Nat
    BY WidthIs DEF Node
  <2> QED
    BY <1>8, <2>2, <2>4 DEF Width, Length, Node
<1>10. lengths \in Seq(Nat) /\ Len(lengths) = n /\ DOMAIN lengths = 1 .. n
  <2>1. lengths \in [1 .. n -> Nat]
    BY <1>8, <1>9
  <2> HIDE DEF lengths
  <2> QED
    BY <2>1, IsSeq
<1> HIDE DEF lengths
<1>11. dw[1].extent = Behind
  <2>2. dw[1].extent = Behind + Sums(Widths(dw))[1 - 1]
    BY <1>1, <1>2, <1>3 DEF InRow
  <2> QED
    BY <1>1, <2>2, WidthsAre
<1>12. /\ dw' \in Nodes /\ Len(dw') = n /\ DOMAIN dw' = 1 .. n
       /\ \A k \in 1 .. n : /\ dw'[k].entry = dw[order[k]].entry /\ dw'[k].size = dw[order[k]].size
                            /\ dw'[k].pad = dw[order[k]].pad
                            /\ dw'[k].extent = Behind + Sums(lengths)[k - 1]
  <2>1. PICK start \in Nat : start = Behind
    BY <1>1
  <2>2. /\ Placed(sorted, lengths, start) \in Nodes
        /\ Len(Placed(sorted, lengths, start)) = Len(sorted)
        /\ DOMAIN Placed(sorted, lengths, start) = 1 .. Len(sorted)
        /\ \A k \in 1 .. Len(sorted) :
             /\ Placed(sorted, lengths, start)[k].entry = sorted[k].entry
             /\ Placed(sorted, lengths, start)[k].size = sorted[k].size
             /\ Placed(sorted, lengths, start)[k].pad = sorted[k].pad
             /\ Placed(sorted, lengths, start)[k].extent = start + Sums(lengths)[k - 1]
    <3>1. sorted \in Nodes /\ lengths \in Seq(Nat) /\ Len(lengths) = Len(sorted) /\ start \in Nat
      BY <1>8, <1>10
    <3> QED
      BY ONLY <3>1, Placement
  <2> QED
    BY <1>5, <1>8, <1>11, <2>1, <2>2
<1>13. PICK new \in Nodes : new = dw'
  BY <1>12
<1>14. Widths(new) = lengths
  <2>1. \A k \in 1 .. n : Width(new[k]) = Width(sorted[k])
    BY <1>8, <1>12, <1>13 DEF Width
  <2>2. DOMAIN Widths(new) = DOMAIN lengths /\ \A k \in DOMAIN lengths : Widths(new)[k] = lengths[k]
    BY <1>9, <1>10, <1>12, <1>13, <2>1 DEF Widths
  <2>3. Widths(new) \in Seq(Nat) /\ Len(Widths(new)) = n
    BY <1>12, <1>13, WidthsAre
  <2>4. PICK s \in Seq(Nat) : s = Widths(new) /\ Len(s) = n
    BY <2>3
  <2>5. \A k \in 1 .. n : s[k] = lengths[k]
    BY <1>10, <2>2, <2>4
  <2>6. s = lengths
    BY <1>10, <2>4, <2>5, SeqEqual
  <2> QED
    BY <2>4, <2>6
<1>16. Total(Widths(new)) = Total(Widths(dw))
  <2>1. PICK s \in Seq(Nat) : s = Widths(dw) /\ Len(s) = n
    BY <1>1, <1>3, WidthsAre
  <2>2. \A k \in 1 .. Len(s) : lengths[k] = s[order[k]]
    <3> SUFFICES ASSUME NEW k \in 1 .. n PROVE lengths[k] = s[order[k]]
      BY <2>1
    <3>1. order[k] \in 1 .. Len(dw)
      BY <1>3, <1>7
    <3>2. s[order[k]] = Width(dw[order[k]])
      BY <1>1, <2>1, <3>1, WidthsAre
    <3> QED
      BY <1>8, <1>9, <3>2
  <2>3. order \in Bijection(1 .. Len(s), 1 .. Len(s))
    BY <1>6, <2>1
  <2>4. Total(lengths) = Total(s)
    BY <1>10, <2>1, <2>2, <2>3, SumPermuted
  <2> QED
    BY <1>14, <2>1, <2>4
<1>17. \A k \in 1 .. n : /\ order[k] \in 1 .. n /\ new[k].entry = dw[order[k]].entry
                         /\ new[k].size = dw[order[k]].size
                         /\ new[k].entry \in 1 .. Len(Files)
                         /\ new[k].size = Files[new[k].entry].size /\ new[k].size > 0
  <2> SUFFICES ASSUME NEW k \in 1 .. n
               PROVE  /\ order[k] \in 1 .. n /\ new[k].entry = dw[order[k]].entry
                      /\ new[k].size = dw[order[k]].size
                      /\ new[k].entry \in 1 .. Len(Files)
                      /\ new[k].size = Files[new[k].entry].size /\ new[k].size > 0
    OBVIOUS
  <2>1. PICK m \in 1 .. Len(dw) : m = order[k]
    BY <1>3, <1>7
  <2>2. /\ dw[m].entry \in 1 .. Len(Files) /\ dw[m].size \in Nat \ {0}
        /\ dw[m].size = Files[dw[m].entry].size
    BY <1>1
  <2> QED
    BY <1>3, <1>12, <1>13, <2>1, <2>2
<1>18. Whole(new) /\ Distinct(new) /\ NoClumps(new)
  <2>2. Distinct(new)
    <3> SUFFICES ASSUME NEW j \in 1 .. n, NEW k \in 1 .. n,
                        new[j].entry # 0, new[k].entry # 0, Same(new[j].entry, new[k].entry)
                 PROVE  j = k
      BY <1>12, <1>13 DEF Distinct
    <3>1. order[j] = order[k]
      <4>1. /\ order[j] \in DOMAIN dw /\ order[k] \in DOMAIN dw
            /\ new[j].entry = dw[order[j]].entry /\ new[k].entry = dw[order[k]].entry
        BY <1>1, <1>3, <1>17
      <4>2. PICK a \in DOMAIN dw, b \in DOMAIN dw : a = order[j] /\ b = order[k]
        BY <4>1
      <4> QED
        BY <1>2, <4>1, <4>2 DEF Distinct
    <3> QED
      BY <1>7, <3>1
  <2>3. NoClumps(new)
    <3> SUFFICES ASSUME ~ Has("dvd"), NEW k \in 1 .. n PROVE new[k].pad = 0
      BY <1>12, <1>13 DEF NoClumps
    <3>1. PICK m \in DOMAIN dw : m = order[k]
      BY <1>1, <1>3, <1>17
    <3> QED
      BY <1>2, <1>12, <1>13, <3>1 DEF NoClumps
  <2> QED
    BY <1>1, <1>12, <1>13, <1>17, <2>2, <2>3 DEF Whole
<1>19. OfFiles(dw)'
  <2>1. Files' = Files
    BY SameJob
  <2>2. OfFiles(dw)
    BY <1>1 DEF Types
  <2>3. \A k \in 1 .. n : order[k] \in DOMAIN dw
    BY <1>1, <1>3, <1>17
  <2> QED
    BY <1>12, <1>13, <1>17, <2>1, <2>2, <2>3 DEF OfFiles
<1>20. hash' \in [{Files[i].file : i \in DOMAIN Files} -> [de : {0} \cup DOMAIN Files, start : Nat, size : Nat]]
  <2>1. Hashed(new) \in [{Files[i].file : i \in DOMAIN Files} -> [de : {0} \cup DOMAIN Files, start : Nat, size : Nat]]
    BY <1>1, <1>12, <1>13, <1>17, <1>18, HashedTyped
  <2> QED
    BY <1>5, <1>13, <2>1
<1>21. extent' \in [1 .. Len(Files) -> Nat]
  <2>1. Recorded(extent, new) \in [1 .. Len(Files) -> Nat]
    BY <1>1, RecordedTyped
  <2>2. \A i \in 1 .. Len(Files) : hash'[Files[i].file].start \in Nat
    BY <1>1, <1>20
  <2> QED
    BY <1>1, <1>5, <1>13, <2>1, <2>2
<1>22. Leads(dw', extent')
  <2> SUFFICES ASSUME NEW i \in DOMAIN Files, Stored(i)
               PROVE  \E k \in DOMAIN new : Holds(new[k], i) /\ new[k].extent = extent'[i]
    BY <1>13 DEF Leads
  <2>1. PICK m \in 1 .. n : Holds(dw[m], i)
    BY <1>1, <1>2, <1>3 DEF Recorded1
  <2>2. PICK k \in 1 .. n : order[k] = m
    BY <1>7
  <2>3. Holds(new[k], i)
    BY <1>17, <2>1, <2>2 DEF Holds
  <2>4. i \in DOMAIN extent /\ i # 0 /\ Files[i].file \in DOMAIN hash
    BY <1>1
  <2>5. /\ new[k].entry = i => Recorded(extent, new)[i] = new[k].extent
        /\ new[k].entry # i => Files[i].cached /\ Known(i, Hashed(new))
        /\ Known(i, Hashed(new)) => Hashed(new)[Files[i].file].start = new[k].extent
    <3>1. PICK ext : ext = extent
      OBVIOUS
    <3>2. k \in 1 .. Len(new) /\ i \in DOMAIN ext
      BY <1>12, <1>13, <2>4, <3>1
    <3>3. /\ new[k].entry = i => Recorded(ext, new)[i] = new[k].extent
          /\ new[k].entry # i => Files[i].cached /\ Known(i, Hashed(new))
          /\ Known(i, Hashed(new)) => Hashed(new)[Files[i].file].start = new[k].extent
      <4>1. new \in Nodes
        OBVIOUS
      <4> QED
        BY ONLY <4>1, <1>18, <2>3, <2>4, <3>2, Relinked
    <3> QED
      BY <3>1, <3>3
  <2>7. new[k].entry # i => weight[i] = NotSorted
    <3> SUFFICES ASSUME new[k].entry # i, weight[i] # NotSorted PROVE FALSE
      OBVIOUS
    <3>1. PICK l \in 1 .. n : dw[l].entry = i
      BY <1>1, <1>2, <1>3
    <3>3. l \in DOMAIN dw /\ m \in DOMAIN dw /\ dw[l].entry # 0 /\ dw[m].entry # 0
      BY <1>1, <1>3, <2>1, <2>4, <3>1 DEF Holds
    <3> QED
      BY <1>2, <1>17, <2>1, <2>2, <3>1, <3>3 DEF Holds, Distinct
  <2>8. new[k].extent = extent'[i]
    BY <1>5, <1>13, <2>4, <2>5, <2>7
  <2> QED
    BY <1>12, <1>13, <2>3, <2>8
<1>23. Ranked(dw')
  <2>1. ASSUME NEW j \in 1 .. n, NEW k \in 1 .. n, j < k
        PROVE  weight[new[j].entry] >= weight[new[k].entry]
    <3>1. Before(dw[order[j]], dw[order[k]])
      BY <1>6, <2>1
    <3>2. weight[new[j].entry] \in Int /\ weight[new[k].entry] \in Int
      BY <1>1, <1>17 DEF NotSorted
    <3>3. new[j].entry = dw[order[j]].entry /\ new[k].entry = dw[order[k]].entry
      BY <1>17
    <3> QED
      BY ONLY <3>1, <3>2, <3>3 DEF Before
  <2>2. \A k \in 1 .. n : Largest(weight[new[k].entry], new[k].entry, Len(Files))
    BY <1>2, <1>3, <1>17
  <2> QED
    BY <1>12, <1>13, <2>1, <2>2 DEF Ranked
<1>24. tail' \in 0 .. Len(dw') /\ (tail' = 0 <=> dw' = <<>>)
  <2>1. tail \in 1 .. n
    BY <1>2, <1>3
  <2>2. PICK k \in 1 .. n : order[k] = tail
    BY <1>7, <2>1
  <2>4. tail' \in DOMAIN dw'
    BY <1>5, <1>12, <2>2
  <2> QED
    BY <1>3, <1>12, <2>4
<1> QED
  BY <1>12, <1>13, <1>14, <1>16, <1>18, <1>19, <1>20, <1>21, <1>22, <1>23, <1>24
     DEF InRow, Arranged

LEMMA Arranging ==
    ASSUME IInv, FilesAssigned
    PROVE  /\ Arranged /\ pc = "assign" /\ at = Len(Files) + 1 /\ (Has("sort") \/ tail' = Len(dw'))
           /\ job' = job /\ frags' = frags /\ at' = at /\ how' = how /\ last_extent' = last_extent
           /\ last_extent_written' = last_extent_written /\ isosize' = isosize /\ weight' = weight
           /\ image' = image /\ item' = item /\ now' = now
           /\ pc' = IF Has("hfs") THEN "hfs" ELSE "trailer"
           /\ vol' = [vol EXCEPT !.first = frags[Len(frags)].start, !.save = last_extent]
<1>1. /\ pc = "assign" /\ at > Len(Files)
      /\ job' = job /\ frags' = frags /\ at' = at /\ how' = how /\ last_extent' = last_extent
      /\ last_extent_written' = last_extent_written /\ isosize' = isosize /\ weight' = weight
      /\ image' = image /\ item' = item /\ now' = now
      /\ pc' = IF Has("hfs") THEN "hfs" ELSE "trailer"
      /\ vol' = [vol EXCEPT !.first = frags[Len(frags)].start, !.save = last_extent]
      /\ IF Has("sort") /\ ~ Streaming THEN SortFiles ELSE UNCHANGED <<hash, dw, tail, extent>>
  BY DEF FilesAssigned
<1>2. /\ job \in Jobs /\ Types /\ Assigning /\ Len(Files) \in Nat /\ DOMAIN Files = 1 .. Len(Files)
      /\ dw \in Nodes /\ DOMAIN dw = 1 .. Len(dw) /\ Len(dw) \in Nat
      /\ at = Len(Files) + 1
      /\ extent \in [1 .. Len(Files) -> Nat]
      /\ hash \in [{Files[i].file : i \in DOMAIN Files} -> [de : {0} \cup DOMAIN Files, start : Nat, size : Nat]]
  BY <1>1, AssigningFacts
<1>3. Files' = Files /\ (Streaming => ~ Has("sort"))
  BY <1>1, <1>2, SameJob, JobFacts
<1>4. /\ Distinct(dw) /\ Whole(dw) /\ NoClumps(dw) /\ InRow(dw, Behind) /\ tail = Len(dw)
      /\ OfFiles(dw) /\ tail \in 0 .. Len(dw) /\ (tail = 0 <=> dw = <<>>)
  BY <1>1, <1>2 DEF Assigning, Types, TypeOK
<1>5. Leads(dw, extent)
  BY <1>1, <1>2 DEF Assigning, Leads, Recorded1
<1>6. Has("sort") => SortFiles
  BY <1>3 DEF FilesAssigned
<1>7. CASE ~ Has("sort")
  BY <1>1, <1>2, <1>3, <1>4, <1>5, <1>7 DEF OfFiles, Ranked, Arranged
<1>8. CASE Has("sort") /\ dw = <<>>
  BY <1>1, <1>2, <1>3, <1>4, <1>5, <1>6, <1>8
     DEF SortFiles, OfFiles, Ranked, Forget, Unknown, Arranged
<1>9. CASE Has("sort") /\ dw # <<>>
  BY <1>1, <1>2, <1>6, <1>9, Sorting
<1> QED
  BY <1>7, <1>8, <1>9

\* The types, when the list and what refers to it have theirs.
LEMMA ArrangedTypes ==
    ASSUME IInv, FilesAssigned
    PROVE  Types'
<1>1. /\ Arranged /\ pc = "assign" /\ job' = job /\ frags' = frags /\ at' = at /\ how' = how
      /\ last_extent' = last_extent
      /\ last_extent_written' = last_extent_written /\ isosize' = isosize /\ weight' = weight
      /\ image' = image /\ item' = item /\ now' = now
      /\ pc' = IF Has("hfs") THEN "hfs" ELSE "trailer"
      /\ vol' = [vol EXCEPT !.first = frags[Len(frags)].start, !.save = last_extent]
  BY Arranging
<1>2. /\ Types /\ Len(Files) \in Nat /\ DOMAIN Files = 1 .. Len(Files) /\ last_extent \in Nat
      /\ how = "running" /\ Sizing
  BY <1>1, AssigningFacts
<1>3. Files' = Files /\ Nodes' = Nodes
  BY <1>1, SameJob, SameLists
<1>4. frags[Len(frags)].start \in Nat
  <2>2. Start \in Nat
    BY <1>1, AssigningFacts
  <2> QED
    BY <1>1, <1>2, <2>2, Behinds DEF Sizing, Start
<1>5. vol' \in [first : Nat, save : Nat, tries : 0 .. MaxTries, csize : {1} \cup Clumps,
                pad : Nat, extra : Nat, catalog : Nat, padded : BOOLEAN]
  <2>1. PICK f \in Nat : f = frags[Len(frags)].start
    BY <1>4
  <2> DEFINE cs == {1} \cup Clumps
  <2> HIDE DEF cs
  <2>3. vol' = [vol EXCEPT !.first = f, !.save = last_extent]
    BY <1>1, <2>1
  <2> QED
    BY <1>2, <2>3 DEF Types, cs
<1>6. /\ Len(dw') \in Nat /\ DOMAIN dw' = 1 .. Len(dw')
      /\ \A k \in 1 .. Len(dw') : /\ dw'[k].entry \in {0} \cup DOMAIN Files
                                  /\ dw'[k].size \in Nat /\ dw'[k].pad \in Nat
  <2>1. PICK l \in Nodes : l = dw'
    BY <1>1 DEF Arranged
  <2> QED
    BY <1>2, <2>1, Nodes1
<1>7. \A f \in DOMAIN hash' : hash'[f].de \in {0} \cup DOMAIN Files
  <2> DEFINE D == {Files[i].file : i \in DOMAIN Files}
             R == [de : {0} \cup DOMAIN Files, start : Nat, size : Nat]
  <2>2. \A r \in R : r.de \in {0} \cup DOMAIN Files
    OBVIOUS
  <2> HIDE DEF D, R
  <2> QED
    BY <1>1, <2>2 DEF Arranged
<1>8. TypeOK'
  <2>2. /\ job' \in Jobs /\ how' \in Outcomes
        /\ pc' \in {"size", "assign", "hfs", "trailer", "write", "files", "ended"}
        /\ \A i \in DOMAIN frags' : frags'[i].name \in Names /\ frags'[i].start \in Nat
        /\ \A k \in DOMAIN image' : image'[k] \in Int \X Nat
        /\ \A f \in DOMAIN now' : now'[f] \in -1..MaxSize
    BY <1>1, <1>2 DEF Types, TypeOK
  <2>3. /\ extent' \in [DOMAIN Files -> Nat] /\ isosize' \in [DOMAIN Files -> 0..MaxSize]
        /\ weight' \in [DOMAIN Files -> Nat \cup {NotSorted}]
    BY <1>1, <1>2 DEF Types, TypeOK, Arranged
  <2>4. \A k \in DOMAIN dw' : dw'[k].entry \in {0} \cup DOMAIN Files /\ {dw'[k].size, dw'[k].pad} \subseteq Nat
    BY <1>6
  <2>5. tail' \in 0 .. Len(dw') /\ (tail' = 0 <=> dw' = <<>>)
    BY <1>1 DEF Arranged
  <2> QED
    BY <1>1, <1>2, <1>3, <1>7, <2>2, <2>3, <2>4, <2>5 DEF Types, TypeOK, Outcomes
<1>10. /\ now' \in [{Files'[i].file : i \in DOMAIN Files'} -> -1 .. MaxSize]
       /\ image' \in Seq(Int \X Nat)
       /\ frags' \in Seq([name : Names, start : Nat])
       /\ pc' = "ended" <=> how' # "running"
  BY <1>1, <1>2, <1>3 DEF Types
<1> QED
  BY <1>1, <1>2, <1>3, <1>5, <1>8, <1>10 DEF Arranged, Types

LEMMA ArrangedKept ==
    ASSUME IInv, FilesAssigned
    PROVE  IInv'
<1>1. /\ Arranged /\ pc = "assign" /\ at = Len(Files) + 1 /\ (Has("sort") \/ tail' = Len(dw'))
      /\ job' = job /\ frags' = frags /\ how' = how /\ last_extent' = last_extent
      /\ last_extent_written' = last_extent_written /\ isosize' = isosize /\ weight' = weight
      /\ image' = image /\ item' = item /\ now' = now
      /\ pc' = IF Has("hfs") THEN "hfs" ELSE "trailer"
      /\ vol' = [vol EXCEPT !.first = frags[Len(frags)].start, !.save = last_extent]
  BY Arranging
<1>2. /\ job \in Jobs /\ Types /\ Assigning /\ Sizing /\ NoVolume /\ Unwritten
      /\ Len(Files) \in Nat /\ DOMAIN Files = 1 .. Len(Files)
      /\ Behind \in Nat /\ Start \in Nat /\ session_start \in Nat
      /\ how = "running" /\ last_extent \in Nat
      /\ dw \in Nodes
      /\ ~ Streaming => Behind = Start
  BY <1>1, AssigningFacts
<1>4. Sizing' /\ Untouched' /\ Start' = Start /\ Behind' = Behind
  BY <1>1, FragmentsStand
<1>5. /\ Files' = Files /\ session_start' = session_start /\ (\A o : Has(o)' = Has(o))
      /\ Boot' = Boot
  BY <1>1, SameJob
<1>6. /\ vol'.first = frags[Len(frags)].start /\ vol'.save = last_extent /\ vol'.tries = MaxTries
      /\ vol'.csize = 1 /\ vol'.pad = 0 /\ vol'.extra = 0 /\ vol'.padded = vol.padded /\ ~ vol'.padded
  BY <1>1, <1>2 DEF NoVolume, Types
<1>8. last_extent = Behind + Total(Widths(dw)) /\ Total(Widths(dw)) \in Nat
  BY <1>1, <1>2, WidthsAre DEF Assigning
<1>9. /\ Widths(dw)' = Widths(dw') /\ Total(Widths(dw))' = Total(Widths(dw'))
      /\ Total(Widths(dw')) = Total(Widths(dw))
      /\ Whole(dw)' /\ Distinct(dw)' /\ NoClumps(dw)'
  BY <1>1, SameLists DEF Arranged
<1>10. \A b : b = Behind => InRow(dw, b)'
  BY <1>1, SameLists DEF Arranged
<1>11. AllRecorded(dw)' /\ Descending'
  BY <1>1, SameRecords DEF Arranged
<1>12. HeavyFirst'
  <2> SUFFICES ASSUME Has("sort"), NEW i \in DOMAIN Files, NEW j \in DOMAIN Files,
                      Stored(i), Stored(j), Heaviest(i) > Heaviest(j)
               PROVE  extent'[i] < extent'[j]
    BY <1>1, <1>5, SameRecords DEF HeavyFirst
  <2>1. PICK new \in Nodes : new = dw'
    BY <1>1 DEF Arranged
  <2>2. PICK ext : ext = extent'
    OBVIOUS
  <2>3. /\ Leads(new, ext) /\ Ranked(new) /\ InRow(new, Behind) /\ Whole(new)
    BY <1>1, <2>1, <2>2 DEF Arranged
  <2>4. \A k \in 1 .. Len(new) : new[k].size > 0
    BY <1>1, <1>5, <2>1, <2>3, Nodes1 DEF Arranged, OfFiles, Whole
  <2>6. ext[i] < ext[j]
    BY <1>2, <2>3, <2>4, Rising, HeavierEarlier
  <2> QED
    BY <2>2, <2>6
<1>14. Rounds'
  <2> SUFFICES ASSUME pc' = "hfs" PROVE Rounds'
    BY DEF Rounds
  <2>1. Has("hfs") /\ ~ Streaming
    BY <1>1, <1>2, JobFacts
  <2>2. Behind = Start
    BY <1>2, <2>1
  <2>5. vol'.save >= Start' /\ vol'.save = Start' + Total(Widths(dw))'
    BY <1>2, <1>4, <1>6, <1>8, <1>9, <2>2
  <2> QED
    BY <1>1, <1>2, <1>4, <1>5, <1>6, <1>9, <1>10, <1>11, <2>1, <2>2, <2>5
       DEF Sizing, Start, Rounds
<1>15. Planned'
  <2>2. ASSUME ~ Has("hfs") PROVE NoVolume' /\ Whole(dw)'
    BY <1>6, <1>9 DEF NoVolume
  <2>3. ASSUME pc' = "trailer" PROVE Plan(last_extent)'
    BY <1>1, <1>2, <1>4, <1>5, <1>6, <1>8, <1>9, <1>10, <1>11, <2>3, JobFacts
       DEF Boot, InRow, Arrival, Complete, Plan
  <2> QED
    BY <1>1, <1>2, <1>5, <1>12, <2>2, <2>3 DEF Writes, Planned
<1>17. Outcome'
  BY <1>1, <1>2 DEF Outcome, BotchOnlyForHfs, ReadFailsForCause
<1>18. pc' \notin {"size", "assign"}
  BY <1>1
<1> QED
  BY <1>1, <1>2, <1>4, <1>5, <1>14, <1>15, <1>17, <1>18, ArrangedTypes
     DEF Unwritten, Assigning, Position, Data, Structures, Writes, IInv

----------------------------------------------------------------------------
(* The HFS volume                                                          *)

\* A round of the loop, taken apart: how the list changes and how it ends.
Skip(c) == RoundUp(vol.first - session_start + Header(c), c) - (vol.first - session_start + Header(c))
Listed(c) ==
    /\ dw' = IF Small THEN WithPadding ELSE IF c # 1 THEN Adjusted(dw, c).dw ELSE dw
    /\ tail' = IF Small THEN tail + 1 ELSE tail
    /\ extent' = IF ~ Small /\ c # 1 THEN Adjusted(dw, c).extent ELSE extent
    /\ hash' = IF ~ Small /\ c # 1 THEN Forget(hash) ELSE hash
EndOf(c) == IF Small THEN session_start + MinVolume
            ELSE IF c # 1 THEN Adjusted(dw, c).last ELSE last_extent
Made(c) ==
    /\ pc' = "trailer" /\ how' = how /\ last_extent' = EndOf(c) + Extra(c) + Boot
    /\ vol' = [vol EXCEPT !.csize = c, !.pad = Skip(c), !.extra = Extra(c),
                          !.catalog = EndOf(c), !.padded = @ \/ Small]
Full(c) ==
    /\ pc' = pc /\ how' = how /\ last_extent' = vol.save /\ vol.tries # 0
    /\ vol' = [vol EXCEPT !.csize = c, !.tries = @ - 1, !.padded = @ \/ Small]
Error == pc' = "ended" /\ how' = "no volume" /\ last_extent' = last_extent /\ vol' = vol

\* What can be relied on while volumes are tried.
LEMMA RoundFacts ==
    ASSUME IInv, pc = "hfs"
    PROVE  /\ job \in Jobs /\ Types /\ Sizing /\ Rounds /\ Unwritten /\ HeavyFirst
           /\ Has("hfs") /\ ~ Streaming /\ how = "running"
           /\ Len(Files) \in Nat /\ DOMAIN Files = 1 .. Len(Files)
           /\ Start \in Nat /\ session_start \in Nat /\ Start >= session_start /\ Behind = Start
           /\ dw \in Nodes /\ Len(dw) \in Nat /\ DOMAIN dw = 1 .. Len(dw) /\ tail \in 0 .. Len(dw)
           /\ vol.first = Start /\ vol.pad = 0 /\ vol.extra = 0 /\ last_extent = vol.save
           /\ vol.save \in Nat /\ vol.save >= Start /\ vol.tries \in 0 .. MaxTries
           /\ vol.csize \in {1} \cup Clumps /\ vol.padded \in BOOLEAN
           /\ extent \in [1 .. Len(Files) -> Nat]
           /\ hash \in [{Files[i].file : i \in DOMAIN Files} -> [de : {0} \cup DOMAIN Files, start : Nat, size : Nat]]
<1>1. job \in Jobs /\ Types /\ Sizing /\ Rounds /\ Unwritten /\ HeavyFirst
  BY DEF IInv, Types, TypeOK, Planned
<1>2. /\ Has("hfs") /\ vol.first = Start /\ vol.pad = 0 /\ vol.extra = 0
      /\ last_extent = vol.save /\ vol.save >= Start
  BY <1>1 DEF Rounds
<1>3. Len(Files) \in Nat /\ DOMAIN Files = 1 .. Len(Files) /\ ~ Streaming
  BY <1>1, <1>2, JobFacts
<1>5. dw \in Nodes /\ Len(dw) \in Nat /\ DOMAIN dw = 1 .. Len(dw) /\ tail \in 0 .. Len(dw)
  BY <1>1, Nodes1 DEF Types, TypeOK
<1>6. /\ vol.save \in Nat /\ vol.tries \in 0 .. MaxTries
      /\ vol.csize \in {1} \cup Clumps /\ vol.padded \in BOOLEAN
  <2> DEFINE cs == {1} \cup Clumps
  <2>1. vol \in [first : Nat, save : Nat, tries : 0 .. MaxTries, csize : cs,
                 pad : Nat, extra : Nat, catalog : Nat, padded : BOOLEAN]
    BY <1>1 DEF Types
  <2> HIDE DEF cs
  <2>2. /\ vol.save \in Nat /\ vol.tries \in 0 .. MaxTries
        /\ vol.csize \in cs /\ vol.padded \in BOOLEAN
    BY <2>1
  <2> QED
    BY <2>2 DEF cs
<1>7. /\ how = "running" /\ extent \in [1 .. Len(Files) -> Nat]
      /\ hash \in [{Files[i].file : i \in DOMAIN Files} -> [de : {0} \cup DOMAIN Files, start : Nat, size : Nat]]
  BY <1>1, <1>3 DEF Types, TypeOK
<1> QED
  BY <1>1, <1>2, <1>3, <1>5, <1>6, <1>7, Behinds

LEMMA Round ==
    ASSUME IInv, MakeVolume
    PROVE  /\ pc = "hfs" /\ job' = job /\ frags' = frags /\ at' = at
           /\ last_extent_written' = last_extent_written /\ isosize' = isosize /\ weight' = weight
           /\ image' = image /\ item' = item /\ now' = now
           /\ \E c \in IF Small THEN {1} ELSE {k \in Clumps : k >= vol.csize} :
                Listed(c) /\ (Made(c) \/ Full(c) \/ Error)
<1>1. /\ pc = "hfs" /\ job' = job /\ frags' = frags /\ at' = at
      /\ last_extent_written' = last_extent_written /\ isosize' = isosize /\ weight' = weight
      /\ image' = image /\ item' = item /\ now' = now
  BY Zenon DEF MakeVolume
<1>2. (last_extent - session_start < MinVolume) <=> Small
  BY <1>1, RoundFacts DEF Small
<1>3. PICK c \in IF Small THEN {1} ELSE {k \in Clumps : k >= vol.csize},
           result \in {"made", "full", "error"} :
        LET list == IF Small THEN WithPadding ELSE dw
            end == IF Small THEN session_start + MinVolume ELSE last_extent
            moved == c # 1
            last == IF moved THEN Adjusted(list, c).last ELSE end
            skip == RoundUp(vol.first - session_start + Header(c), c)
                      - (vol.first - session_start + Header(c))
          IN /\ dw' = IF moved THEN Adjusted(list, c).dw ELSE list
             /\ tail' = IF Small THEN tail + 1 ELSE tail
             /\ extent' = IF moved THEN Adjusted(list, c).extent ELSE extent
             /\ hash' = IF moved THEN Forget(hash) ELSE hash
             /\ \/ /\ result = "made"
                   /\ last_extent' = last + Extra(c) + (IF Has("boot") THEN 1 ELSE 0)
                   /\ vol' = [vol EXCEPT !.csize = c, !.pad = skip, !.extra = Extra(c),
                                        !.catalog = last, !.padded = @ \/ Small]
                   /\ pc' = "trailer" /\ UNCHANGED how
                \/ /\ result = "full" /\ vol.tries # 0
                   /\ last_extent' = vol.save
                   /\ vol' = [vol EXCEPT !.csize = c, !.tries = Left(@), !.padded = @ \/ Small]
                   /\ UNCHANGED <<pc, how>>
                \/ /\ result = "error" \/ (result = "full" /\ vol.tries = 0)
                   /\ End("no volume")
                   /\ UNCHANGED <<last_extent, vol>>
  BY ZenonT(30), <1>2 DEF MakeVolume
<1>4. Listed(c) /\ (Made(c) \/ Full(c) \/ Error)
  <2>1. CASE Small
    <3>1. c = 1
      BY <2>1
    <3>2. Listed(c)
      BY Zenon, <1>3, <2>1, <3>1 DEF Listed
    <3>3. Made(c) \/ Full(c) \/ Error
      BY Zenon, <1>3, <2>1, <3>1 DEF Made, Full, Error, EndOf, Skip, End, Left, Boot
    <3> QED
      BY <3>2, <3>3
  <2>2. CASE ~ Small
    <3>1. Listed(c)
      BY Zenon, <1>3, <2>2 DEF Listed
    <3>2. Made(c) \/ Full(c) \/ Error
      BY Zenon, <1>3, <2>2 DEF Made, Full, Error, EndOf, Skip, End, Left, Boot
    <3> QED
      BY <3>1, <3>2
  <2> QED
    BY <2>1, <2>2
<1> QED
  BY <1>1, <1>4

\* The files of a volume begin behind the header, on a clump.
LEMMA RoundNumbers ==
    ASSUME IInv, pc = "hfs", NEW c \in {1} \cup Clumps
    PROVE  /\ c \in Nat \ {0} /\ Skip(c) \in Nat /\ Extra(c) \in Nat
           /\ Aligned(c) = Start + Skip(c) /\ Aligned(c) \in Nat
           /\ c = 1 => Skip(c) = 0
           /\ \E q \in Nat : Start + Skip(c) - session_start = q * c
<1>1. /\ Start \in Nat /\ session_start \in Nat /\ Start >= session_start
      /\ vol.first = Start /\ vol.tries \in 0 .. MaxTries
  BY RoundFacts
<1>2. c \in Nat \ {0}
  BY Parameters
<1>3. PICK x \in Nat : x = Start - session_start + c /\ x >= c
  BY <1>1, <1>2
<1>4. PICK q \in Nat : RoundUp(x, c) = q * c /\ x <= q * c /\ q * c < x + c /\ RoundUp(x, c) \in Nat
  BY <1>2, RoundedUp
<1>5. PICK m \in Nat : m = q * c
  BY <1>2, <1>4
<1>6. Skip(c) = m - x /\ Aligned(c) = m - c + session_start
  BY <1>1, <1>3, <1>4, <1>5 DEF Skip, Aligned, Header
<1>8. Extra(c) \in Nat
  <2>1. PICK t \in Nat : t = MaxTries - vol.tries + 2
    BY <1>1, Parameters
  <2> QED
    BY <1>2, <2>1, Product DEF Extra
<1>9. c = 1 => Skip(c) = 0
  BY <1>3, <1>4, <1>6, <1>5
<1>10. \E p \in Nat : Start + Skip(c) - session_start = p * c
  <2>2. PICK p \in Nat : q = p + 1
    BY <1>2, <1>3, <1>4
  <2>3. (p + 1) * c = p * c + c /\ p * c \in Nat
    BY <1>2, ProductGrows
  <2> QED
    BY <1>1, <1>2, <1>3, <1>5, <1>6, <2>2, <2>3
<1> QED
  BY <1>1, <1>2, <1>3, <1>4, <1>5, <1>6, <1>8, <1>9, <1>10

\* Sums of multiples are multiples.
LEMMA SumsOfMultiples ==
    ASSUME NEW s \in Seq(Nat), NEW c \in Nat \ {0},
           \A k \in 1 .. Len(s) : \E q \in Nat : s[k] = q * c
    PROVE  \A k \in 0 .. Len(s) : \E q \in Nat : Sums(s)[k] = q * c
<1>1. /\ Sums(s) \in [0 .. Len(s) -> Nat] /\ Sums(s)[0] = 0
      /\ \A k \in 1 .. Len(s) : Sums(s)[k] = Sums(s)[k - 1] + s[k]
  BY SumsAre
<1> DEFINE S == {k \in Nat : k <= Len(s) => \E q \in Nat : Sums(s)[k] = q * c}
<1>2. 0 \in S
  <2>2. \E q \in Nat : Sums(s)[0] = q * c
    BY <1>1
  <2> QED
    BY <2>2
<1>3. ASSUME NEW n \in Nat, n \in S PROVE n + 1 \in S
  <2> SUFFICES ASSUME n + 1 <= Len(s) PROVE \E q \in Nat : Sums(s)[n + 1] = q * c
    OBVIOUS
  <2>1. n <= Len(s) /\ n + 1 \in 1 .. Len(s) /\ n + 1 - 1 = n
    OBVIOUS
  <2>2. PICK a \in Nat : Sums(s)[n] = a * c
    BY <1>3, <2>1
  <2>3. PICK b \in Nat : s[n + 1] = b * c
    BY <2>1
  <2>5. (a + b) * c = a * c + b * c
    OBVIOUS
  <2>6. PICK d \in Nat : d = a + b
    OBVIOUS
  <2>7. Sums(s)[n + 1] = d * c
    BY <1>1, <2>1, <2>2, <2>3, <2>5, <2>6
  <2> QED
    BY <2>7
<1> HIDE DEF S
<1>4. \A n \in Nat : n \in S
  BY <1>2, <1>3, Inductive
<1> SUFFICES ASSUME NEW k \in 0 .. Len(s) PROVE \E q \in Nat : Sums(s)[k] = q * c
  OBVIOUS
<1>5. k \in Nat /\ k <= Len(s)
  OBVIOUS
<1>6. k \in S
  BY <1>4, <1>5
<1> QED
  BY <1>5, <1>6 DEF S

\* Nothing is left when a multiple is divided.
LEMMA MultipleIs ==
    ASSUME NEW q \in Nat, NEW b \in Nat \ {0}
    PROVE  (q * b) % b = 0
<1>1. PICK a \in Nat : a = q * b
  BY Product
<1>2. PICK r \in 0 .. b - 1 : r = 0
  OBVIOUS
<1>3. a = q * b + r
  BY <1>1, <1>2
<1>4. a % b = r
  BY ONLY <1>3, q \in Nat, b \in Nat \ {0}, r \in 0 .. b - 1, DivisionIs
<1> QED
  BY <1>1, <1>2, <1>4

\* The list with its nodes on clumps, when there are nodes of files only.
LEMMA Clumping ==
    ASSUME IInv, pc = "hfs", ~ Small, NEW c \in Clumps, c # 1
    PROVE  /\ Whole(dw) /\ Distinct(dw) /\ AllRecorded(dw) /\ Descending /\ OfFiles(dw) /\ ~ vol.padded
           /\ Adjusted(dw, c).dw \in Nodes /\ Len(Adjusted(dw, c).dw) = Len(dw)
           /\ DOMAIN Adjusted(dw, c).dw = 1 .. Len(dw)
           /\ \A k \in 1 .. Len(dw) : /\ Adjusted(dw, c).dw[k].entry = dw[k].entry
                                      /\ Adjusted(dw, c).dw[k].size = dw[k].size
                                      /\ dw[k].entry \in 1 .. Len(Files) /\ dw[k].size > 0
                                      /\ dw[k].size = Files[dw[k].entry].size
           /\ InRow(Adjusted(dw, c).dw, Start + Skip(c))
           /\ Adjusted(dw, c).last = Start + Skip(c) + Total(Widths(Adjusted(dw, c).dw))
           /\ \A k \in 1 .. Len(dw) :
                /\ (Adjusted(dw, c).dw[k].extent - session_start) % c = 0
                /\ \A i \in 1 .. Len(Files) :
                     dw[k].entry = i => Recorded(extent, Placed(dw, [m \in DOMAIN dw |-> InClumps(dw[m], c)], Aligned(c)))[i] = Adjusted(dw, c).dw[k].extent
           /\ Recorded(extent, Placed(dw, [m \in DOMAIN dw |-> InClumps(dw[m], c)], Aligned(c))) \in [1 .. Len(Files) -> Nat]
<1>1. /\ Types /\ Rounds /\ Has("hfs") /\ Len(Files) \in Nat /\ DOMAIN Files = 1 .. Len(Files)
      /\ Start \in Nat /\ session_start \in Nat /\ Start >= session_start
      /\ dw \in Nodes /\ Len(dw) \in Nat /\ DOMAIN dw = 1 .. Len(dw)
      /\ extent \in [1 .. Len(Files) -> Nat]
  BY RoundFacts
<1>2. ~ vol.padded /\ Whole(dw) /\ Distinct(dw) /\ AllRecorded(dw) /\ Descending
  BY <1>1 DEF Rounds
<1>3. OfFiles(dw)
  BY <1>1 DEF Types
<1>4. /\ c \in Nat \ {0} /\ Skip(c) \in Nat /\ Aligned(c) = Start + Skip(c) /\ Aligned(c) \in Nat
      /\ \E q \in Nat : Start + Skip(c) - session_start = q * c
  BY RoundNumbers
<1>5. PICK start \in Nat : start = Aligned(c)
  BY <1>4
<1> DEFINE lengths == [k \in DOMAIN dw |-> InClumps(dw[k], c)]
           new == Placed(dw, lengths, start)
           list == [k \in DOMAIN new |-> [new[k] EXCEPT !.pad = lengths[k] - Blocks(new[k].size)]]
<1>6. /\ Adjusted(dw, c).dw = list /\ Adjusted(dw, c).last = start + Total(lengths)
  BY <1>5 DEF Adjusted, Clumped
<1>7. ASSUME NEW k \in 1 .. Len(dw)
      PROVE  /\ dw[k] \in Node /\ dw[k].entry \in 1 .. Len(Files) /\ dw[k].size > 0
             /\ dw[k].size \in Nat /\ dw[k].size = Files[dw[k].entry].size
  BY <1>1, <1>2, <1>3, Nodes1 DEF Whole, OfFiles, Node
<1>8. ASSUME NEW k \in 1 .. Len(dw)
      PROVE  /\ lengths[k] \in Nat /\ lengths[k] = InClumps(dw[k], c)
             /\ lengths[k] - Blocks(dw[k].size) \in Nat /\ Blocks(dw[k].size) \in Nat
             /\ \E q \in Nat : lengths[k] = q * c
  <2>1. PICK size \in Nat : size = dw[k].size
    BY <1>7
  <2>2. PICK b \in Nat : b = Blocks(size)
    BY BlocksAre
  <2>3. PICK q \in Nat : RoundUp(b, c) = q * c /\ b <= q * c /\ RoundUp(b, c) \in Nat
    BY <1>4, RoundedUp
  <2> QED
    BY <1>1, <2>1, <2>2, <2>3 DEF InClumps
<1>9. lengths \in Seq(Nat) /\ Len(lengths) = Len(dw) /\ DOMAIN lengths = 1 .. Len(dw)
  <2>1. lengths \in [1 .. Len(dw) -> Nat]
    BY <1>1, <1>8
  <2> HIDE DEF lengths
  <2> QED
    BY <1>1, <2>1, IsSeq
<1> HIDE DEF lengths
<1>10. /\ new \in Nodes /\ Len(new) = Len(dw) /\ DOMAIN new = 1 .. Len(dw)
       /\ \A k \in 1 .. Len(dw) : /\ new[k].entry = dw[k].entry /\ new[k].size = dw[k].size
                                  /\ new[k].pad = dw[k].pad
                                  /\ new[k].extent = start + Sums(lengths)[k - 1]
  <2>1. dw \in Nodes /\ lengths \in Seq(Nat) /\ Len(lengths) = Len(dw) /\ start \in Nat
    BY <1>1, <1>9
  <2> QED
    BY ONLY <2>1, Placement
<1> HIDE DEF new
<1>11. ASSUME NEW k \in 1 .. Len(dw)
       PROVE  /\ list[k] \in Node /\ list[k].entry = dw[k].entry /\ list[k].size = dw[k].size
              /\ list[k].extent = start + Sums(lengths)[k - 1]
              /\ list[k].pad = lengths[k] - Blocks(dw[k].size)
  <2>1. PICK p \in Nat : p = lengths[k] - Blocks(new[k].size)
    BY <1>8, <1>10
  <2>3. new[k] \in [entry : 0 .. Len(Files), size : Nat, extent : Nat, pad : Nat]
    BY <1>10, Nodes1
  <2> QED
    BY <1>10, <2>1, <2>3 DEF Node
<1>12. list \in Nodes /\ Len(list) = Len(dw) /\ DOMAIN list = 1 .. Len(dw)
  <2>1. DOMAIN list = 1 .. Len(dw) /\ list = [k \in 1 .. Len(dw) |-> list[k]]
    BY <1>10
  <2> HIDE DEF list
  <2>2. list \in [1 .. Len(dw) -> Node]
    <3> DEFINE S == Node
    <3> HIDE DEF S
    <3> QED
      BY <1>11, <2>1 DEF S
  <2>3. list \in Seq(Node) /\ Len(list) = Len(dw)
    BY <1>1, <2>2, IsSeq
  <2> QED
    BY <2>1, <2>3 DEF Nodes, Node
<1> HIDE DEF list
<1>13. Widths(list) = lengths
  <2>1. PICK s \in Seq(Nat) : s = Widths(list) /\ Len(s) = Len(dw)
    BY <1>12, WidthsAre
  <2>2. ASSUME NEW k \in 1 .. Len(dw) PROVE s[k] = lengths[k]
    <3>1. s[k] = Width(list[k])
      BY <1>12, <2>1, WidthsAre
    <3>2. Width(list[k]) = Blocks(dw[k].size) + (lengths[k] - Blocks(dw[k].size))
      BY <1>1, <1>11 DEF Width
    <3>3. lengths[k] \in Nat /\ Blocks(dw[k].size) \in Nat
      BY <1>8
    <3> QED
      BY <3>1, <3>2, <3>3
  <2> QED
    BY <1>9, <2>1, <2>2, SeqEqual
<1>15. ASSUME NEW k \in 1 .. Len(dw) PROVE (list[k].extent - session_start) % c = 0
  <2>1. PICK a \in Nat : start - session_start = a * c
    <3>1. PICK q \in Nat : Start + Skip(c) - session_start = q * c
      BY <1>4
    <3>2. start = Start + Skip(c)
      BY <1>4, <1>5
    <3>3. start - session_start = q * c
      BY <1>1, <1>4, <3>1, <3>2
    <3> QED
      BY <3>3
  <2>2. PICK m \in 0 .. Len(lengths) : m = k - 1
    BY <1>1, <1>9
  <2>3. PICK b \in Nat : Sums(lengths)[m] = b * c
    BY <1>4, <1>8, <1>9, SumsOfMultiples
  <2>4. PICK d \in Nat : d = a + b
    OBVIOUS
  <2>6. list[k].extent = start + b * c
    BY <1>11, <2>2, <2>3
  <2>7. PICK x : x = list[k].extent - session_start
    OBVIOUS
  <2>5. d * c = a * c + b * c /\ a * c \in Nat /\ b * c \in Nat
    BY <1>4, <2>4
  <2>8. x = d * c
    BY <1>1, <2>1, <2>5, <2>6, <2>7
  <2> QED
    BY <1>4, <2>7, <2>8, MultipleIs
<1>16. Distinct(new)
  BY <1>1, <1>2, <1>10 DEF Distinct
<1>17. ASSUME NEW k \in 1 .. Len(dw), NEW i \in 1 .. Len(Files), dw[k].entry = i
       PROVE  Recorded(extent, new)[i] = list[k].extent
  <2>1. PICK ext : ext = extent
    OBVIOUS
  <2>2. i \in DOMAIN ext /\ i # 0
    BY <1>1, <2>1
  <2> QED
    BY <1>10, <1>11, <1>16, <1>17, <2>1, <2>2, RecordedIs
<1>19. new = Placed(dw, [m \in DOMAIN dw |-> InClumps(dw[m], c)], Aligned(c))
  BY <1>5 DEF new, lengths
<1>20. PICK l : l = Adjusted(dw, c).dw
  OBVIOUS
<1>21. l = list
  BY <1>6, <1>20
<1>22. Adjusted(dw, c).last = Start + Skip(c) + Total(Widths(l))
  BY <1>4, <1>5, <1>6, <1>13, <1>21
<1>23. /\ l \in Nodes /\ Len(l) = Len(dw) /\ DOMAIN l = 1 .. Len(dw)
       /\ InRow(l, Start + Skip(c))
  BY <1>4, <1>5, <1>11, <1>12, <1>13, <1>21 DEF InRow
<1>24. \A k \in 1 .. Len(dw) : /\ l[k].entry = dw[k].entry /\ l[k].size = dw[k].size
                               /\ dw[k].entry \in 1 .. Len(Files) /\ dw[k].size > 0
                               /\ dw[k].size = Files[dw[k].entry].size
  BY <1>7, <1>11, <1>21
<1>25. \A k \in 1 .. Len(dw) :
         /\ (l[k].extent - session_start) % c = 0
         /\ \A i \in 1 .. Len(Files) : dw[k].entry = i => Recorded(extent, new)[i] = l[k].extent
  BY <1>15, <1>17, <1>21
<1> QED
  BY <1>1, <1>2, <1>3, <1>10, <1>19, <1>20, <1>22, <1>23, <1>24, <1>25, RecordedTyped

\* The list with a padding file behind the node that dw_tail points to.
LEMMA Padding ==
    ASSUME IInv, pc = "hfs", Small
    PROVE  /\ WithPadding \in Nodes /\ Len(WithPadding) = tail + 1 /\ DOMAIN WithPadding = 1 .. tail + 1
           /\ \A k \in 1 .. tail : WithPadding[k] = dw[k]
           /\ WithPadding[tail + 1].entry = 0 /\ WithPadding[tail + 1].extent = vol.save
           /\ WithPadding[tail + 1].pad = 0 /\ WithPadding[tail + 1].size \in Nat
           /\ \A k \in 0 .. tail : Sums(Widths(WithPadding))[k] = Sums(Widths(dw))[k]
           /\ Sums(Widths(dw))[tail] \in Nat
           /\ Total(Widths(WithPadding)) =
                Sums(Widths(dw))[tail] + (session_start + MinVolume - vol.save)
           /\ session_start + MinVolume - vol.save \in Nat \ {0}
<1>1. /\ Len(Files) \in Nat /\ session_start \in Nat
      /\ dw \in Nodes /\ Len(dw) \in Nat /\ DOMAIN dw = 1 .. Len(dw) /\ tail \in 0 .. Len(dw)
      /\ last_extent = vol.save /\ vol.save \in Nat
  BY RoundFacts
<1>2. PICK n \in Nat : n = MinVolume - (vol.save - session_start) /\ n # 0
  BY <1>1, Parameters DEF Small
<1>3. n * Sector \in Nat /\ Blocks(n * Sector) = n
  BY WholeBlocks
<1>4. PICK s \in Nat : s = n * Sector
  BY <1>3
<1> DEFINE node == [entry |-> 0, size |-> s, extent |-> vol.save, pad |-> 0]
           front == SubSeq(dw, 1, tail)
<1>5. WithPadding = front \o <<node>>
  BY <1>1, <1>2, <1>4 DEF WithPadding
<1>6. node \in Node /\ Width(node) = n
  BY <1>1, <1>3, <1>4 DEF Node, Width
<1>7. /\ front \in Nodes /\ Len(front) = tail /\ \A k \in 1 .. tail : front[k] = dw[k]
  <2> DEFINE S == Node
  <2>1. dw \in Seq(S)
    BY <1>1 DEF Nodes, Node
  <2> HIDE DEF S
  <2>2. \A i \in 1 .. tail : i \in 1 .. Len(dw)
    BY <1>1
  <2>3. front \in Seq(S) /\ Len(front) = tail /\ \A k \in 1 .. tail : front[k] = dw[k]
    BY <1>1, <2>1, <2>2, SubSeqProperties
  <2> QED
    BY <2>3 DEF S, Node, Nodes
<1> HIDE DEF front
<1>8. WithPadding = Append(front, node)
  <2> DEFINE S == Node
  <2> HIDE DEF S, node
  <2>2. front \o <<node>> = Append(front, node)
    BY <1>6, <1>7 DEF Nodes, Node
  <2> QED
    BY <1>5, <2>2
<1> HIDE DEF node
<1>10. PICK list : list = WithPadding
  OBVIOUS
<1>11. /\ list \in Nodes /\ Len(list) = tail + 1 /\ DOMAIN list = 1 .. tail + 1
       /\ \A k \in 1 .. tail : list[k] = dw[k]
       /\ list[tail + 1] = node
       /\ \A k \in 0 .. tail : Sums(Widths(list))[k] = Sums(Widths(front))[k]
       /\ Total(Widths(list)) = Total(Widths(front)) + n
  BY <1>6, <1>7, <1>8, <1>10, Continued
<1>12. \A k \in 0 .. tail : Sums(Widths(front))[k] = Sums(Widths(dw))[k]
  BY <1>1, <1>7, WidthsAgree
<1>13. Total(Widths(front)) = Sums(Widths(dw))[tail] /\ Sums(Widths(dw))[tail] \in Nat
  <2>2. Total(Widths(front)) = Sums(Widths(front))[tail]
    BY <1>7, WidthsAre
  <2> QED
    BY <1>1, <1>12, <2>2, WidthsAre
<1>15. session_start + MinVolume - vol.save = n
  BY <1>1, <1>2, Parameters
<1> QED
  BY <1>2, <1>10, <1>11, <1>12, <1>13, <1>15 DEF node

\* The types, when the list and what refers to it have theirs.
LEMMA VolumeTypes ==
    ASSUME IInv, MakeVolume, NEW c \in {1} \cup Clumps, Made(c) \/ Full(c) \/ Error, EndOf(c) \in Nat,
           dw' \in Nodes, OfFiles(dw)', tail' \in 0 .. Len(dw'), tail' = 0 <=> dw' = <<>>,
           extent' \in [1 .. Len(Files) -> Nat],
           hash' \in [{Files[i].file : i \in DOMAIN Files} -> [de : {0} \cup DOMAIN Files, start : Nat, size : Nat]]
    PROVE  Types'
<1>1. /\ pc = "hfs" /\ job' = job /\ frags' = frags /\ at' = at
      /\ last_extent_written' = last_extent_written /\ isosize' = isosize /\ weight' = weight
      /\ image' = image /\ item' = item /\ now' = now
  BY Round
<1>2. /\ Types /\ Len(Files) \in Nat /\ DOMAIN Files = 1 .. Len(Files) /\ how = "running"
      /\ vol.save \in Nat /\ vol.tries \in 0 .. MaxTries /\ vol.padded \in BOOLEAN /\ last_extent \in Nat
  BY <1>1, RoundFacts
<1>3. Files' = Files /\ Nodes' = Nodes
  BY <1>1, SameJob, SameLists
<1>4. last_extent' \in Nat
  <2>1. PICK e \in Nat, x \in Nat, b \in Nat : e = EndOf(c) /\ x = Extra(c) /\ b = Boot
    BY <1>1, RoundNumbers DEF Boot
  <2>2. CASE Made(c)
    BY <2>1, <2>2 DEF Made
  <2>3. CASE Full(c)
    BY <1>2, <2>3 DEF Full
  <2>4. CASE Error
    BY Zenon, <1>2, <2>4 DEF Error
  <2> QED
    BY <2>2, <2>3, <2>4
<1>5. vol' \in [first : Nat, save : Nat, tries : 0 .. MaxTries, csize : {1} \cup Clumps,
                pad : Nat, extra : Nat, catalog : Nat, padded : BOOLEAN]
  <2>1. PICK e \in Nat, x \in Nat, s \in Nat : e = EndOf(c) /\ x = Extra(c) /\ s = Skip(c)
    BY <1>1, RoundNumbers
  <2>2. PICK p \in BOOLEAN : p <=> (vol.padded \/ Small)
    OBVIOUS
  <2>3. vol.padded = TRUE \/ vol.padded = FALSE
    BY <1>2
  <2> DEFINE cs == {1} \cup Clumps
  <2>4. vol \in [first : Nat, save : Nat, tries : 0 .. MaxTries, csize : cs,
                 pad : Nat, extra : Nat, catalog : Nat, padded : BOOLEAN] /\ c \in cs
    BY <1>2 DEF Types
  <2> HIDE DEF cs
  <2>5. CASE Made(c)
    BY <2>1, <2>4, <2>5 DEF Made, cs
  <2>6. CASE Full(c)
    <3>0. vol.tries # 0 /\ MaxTries \in Nat
      BY <2>6, Parameters DEF Full
    <3>1. PICK t \in 0 .. MaxTries : t = vol.tries - 1
      BY <1>2, <3>0
    <3>3. (vol.padded \/ Small) \in BOOLEAN
      OBVIOUS
    <3>4. vol' \in [first : Nat, save : Nat, tries : 0 .. MaxTries, csize : cs,
                    pad : Nat, extra : Nat, catalog : Nat, padded : BOOLEAN]
      BY <2>4, <2>6, <3>1, <3>3 DEF Full
    <3> QED
      BY <3>4 DEF cs
  <2>7. CASE Error
    BY Zenon, <2>4, <2>7 DEF Error, cs
  <2> QED
    BY <2>5, <2>6, <2>7
<1>6. /\ Len(dw') \in Nat /\ DOMAIN dw' = 1 .. Len(dw')
      /\ \A k \in 1 .. Len(dw') : /\ dw'[k].entry \in {0} \cup DOMAIN Files
                                  /\ dw'[k].size \in Nat /\ dw'[k].pad \in Nat
  <2>1. PICK l \in Nodes : l = dw'
    OBVIOUS
  <2>2. /\ Len(l) \in Nat /\ DOMAIN l = 1 .. Len(l)
        /\ \A k \in 1 .. Len(l) : l[k].entry \in 0 .. Len(Files) /\ l[k].size \in Nat /\ l[k].pad \in Nat
    BY Nodes1
  <2> QED
    BY <1>2, <2>1, <2>2
<1>7. \A f \in DOMAIN hash' : hash'[f].de \in {0} \cup DOMAIN Files
  <2> DEFINE D == {Files[i].file : i \in DOMAIN Files}
             R == [de : {0} \cup DOMAIN Files, start : Nat, size : Nat]
  <2>2. \A r \in R : r.de \in {0} \cup DOMAIN Files
    OBVIOUS
  <2> HIDE DEF D, R
  <2> QED
    BY <2>2
<1>8. /\ pc' \in {"trailer", "hfs", "ended"} /\ how' \in {"running", "no volume"}
      /\ pc' = "ended" <=> how' # "running"
  BY Zenon, <1>1, <1>2 DEF Made, Full, Error
<1>9. TypeOK'
  <2>1. {at', item', last_extent', last_extent_written'} \subseteq Nat
    BY <1>1, <1>2, <1>4 DEF Types, TypeOK
  <2>2. /\ job' \in Jobs /\ how' \in Outcomes
        /\ pc' \in {"size", "assign", "hfs", "trailer", "write", "files", "ended"}
        /\ \A i \in DOMAIN frags' : frags'[i].name \in Names /\ frags'[i].start \in Nat
        /\ \A k \in DOMAIN image' : image'[k] \in Int \X Nat
        /\ \A f \in DOMAIN now' : now'[f] \in -1..MaxSize
    BY Zenon, <1>1, <1>2, <1>8 DEF Types, TypeOK, Outcomes
  <2>3. /\ extent' \in [DOMAIN Files -> Nat] /\ isosize' \in [DOMAIN Files -> 0..MaxSize]
        /\ weight' \in [DOMAIN Files -> Nat \cup {NotSorted}]
    BY <1>1, <1>2 DEF Types, TypeOK
  <2>4. \A k \in DOMAIN dw' : dw'[k].entry \in {0} \cup DOMAIN Files /\ {dw'[k].size, dw'[k].pad} \subseteq Nat
    BY <1>6
  <2> QED
    BY Zenon, <1>3, <1>7, <2>1, <2>2, <2>3, <2>4 DEF TypeOK, Outcomes
<1>10. /\ dw' \in Nodes' /\ OfFiles(dw)' /\ DOMAIN extent' = DOMAIN Files'
       /\ hash' \in [{Files'[i].file : i \in DOMAIN Files'} -> [de : {0} \cup DOMAIN Files', start : Nat, size : Nat]]
  BY <1>2, <1>3
<1>11. /\ now' \in [{Files'[i].file : i \in DOMAIN Files'} -> -1 .. MaxSize]
       /\ image' \in Seq(Int \X Nat)
       /\ frags' \in Seq([name : Names, start : Nat])
  <2>1. /\ now \in [{Files[i].file : i \in DOMAIN Files} -> -1 .. MaxSize]
        /\ image \in Seq(Int \X Nat)
        /\ frags \in Seq([name : Names, start : Nat])
    BY Zenon, <1>2 DEF Types
  <2> QED
    BY Zenon, <1>1, <1>3, <2>1
<1> QED
  BY Zenon, <1>5, <1>8, <1>9, <1>10, <1>11 DEF Types

\* What is left to be shown of each way in which a round ends.
LEMMA RoundEnds ==
    ASSUME IInv, MakeVolume, NEW c, Types'
    PROVE  /\ Made(c) /\ Plan(last_extent)' /\ HeavyFirst' => IInv'
           /\ Full(c) /\ Rounds' /\ HeavyFirst' => IInv'
           /\ Error => IInv'
<1>1. /\ pc = "hfs" /\ job' = job /\ frags' = frags /\ at' = at
      /\ last_extent_written' = last_extent_written /\ isosize' = isosize /\ weight' = weight
      /\ image' = image /\ item' = item /\ now' = now
  BY Round
<1>2. how = "running" /\ Has("hfs") /\ Unwritten
  BY <1>1, RoundFacts
<1>3. Has("hfs")' /\ session_start' = session_start
  BY <1>1, <1>2, SameJob
<1>4. ASSUME pc' \in {"hfs", "trailer", "ended"}
      PROVE  Sizing' /\ Untouched' /\ Unwritten' /\ Assigning'
  BY <1>1, <1>2, <1>3, <1>4, FragmentsStand DEF Unwritten, Assigning
<1>5. ASSUME how' = how, pc' # "ended" PROVE Position' /\ Data' /\ Structures' /\ Outcome'
  <2>2. Outcome'
    BY <1>2, <1>5 DEF Outcome, BotchOnlyForHfs, ReadFailsForCause
  <2>3. pc' \in {"hfs", "trailer"}
    BY Zenon, <1>1, <1>5, Round DEF Made, Full, Error
  <2> QED
    BY <1>2, <1>5, <2>2, <2>3 DEF Position, Data, Structures, Writes
<1>6. ASSUME Made(c), Plan(last_extent)', HeavyFirst' PROVE IInv'
  BY <1>2, <1>3, <1>4, <1>5, <1>6 DEF Made, Planned, Writes, Rounds, IInv
<1>7. ASSUME Full(c), Rounds', HeavyFirst' PROVE IInv'
  BY <1>1, <1>2, <1>3, <1>4, <1>5, <1>7 DEF Full, Planned, Writes, IInv
<1>8. ASSUME Error PROVE IInv'
  <2>1. pc' = "ended" /\ how' = "no volume"
    BY Zenon, <1>8 DEF Error
  <2>2. Outcome'
    BY Zenon, <2>1 DEF Outcome, BotchOnlyForHfs, ReadFailsForCause
  <2> QED
    BY Zenon, <1>4, <2>1, <2>2, Failed
<1> QED
  BY <1>6, <1>7, <1>8

\* A volume that is too small is padded.
LEMMA SmallKept ==
    ASSUME IInv, MakeVolume, Small
    PROVE  IInv'
<1>1. /\ pc = "hfs" /\ job' = job /\ frags' = frags /\ at' = at
      /\ last_extent_written' = last_extent_written /\ isosize' = isosize /\ weight' = weight
      /\ image' = image /\ item' = item /\ now' = now
      /\ Listed(1) /\ (Made(1) \/ Full(1) \/ Error)
  BY Round
<1>2. /\ job \in Jobs /\ Types /\ Rounds /\ HeavyFirst /\ how = "running" /\ Has("hfs")
      /\ Len(Files) \in Nat /\ DOMAIN Files = 1 .. Len(Files)
      /\ Start \in Nat /\ session_start \in Nat /\ Start >= session_start /\ Behind = Start
      /\ dw \in Nodes /\ Len(dw) \in Nat /\ DOMAIN dw = 1 .. Len(dw) /\ tail \in 0 .. Len(dw)
      /\ vol.pad = 0 /\ vol.save \in Nat /\ vol.save >= Start
      /\ vol.tries \in 0 .. MaxTries /\ vol.padded \in BOOLEAN
      /\ extent \in [1 .. Len(Files) -> Nat]
  BY <1>1, RoundFacts
<1>3. /\ WithPadding \in Nodes /\ Len(WithPadding) = tail + 1 /\ DOMAIN WithPadding = 1 .. tail + 1
      /\ \A k \in 1 .. tail : WithPadding[k] = dw[k]
      /\ WithPadding[tail + 1].entry = 0 /\ WithPadding[tail + 1].extent = vol.save
      /\ \A k \in 0 .. tail : Sums(Widths(WithPadding))[k] = Sums(Widths(dw))[k]
      /\ Sums(Widths(dw))[tail] \in Nat
      /\ Total(Widths(WithPadding)) =
           Sums(Widths(dw))[tail] + (session_start + MinVolume - vol.save)
      /\ session_start + MinVolume - vol.save \in Nat \ {0}
  BY <1>1, Padding
<1>4. PICK list \in Nodes : list = WithPadding
  BY <1>3
<1>5. PICK P \in Nat \ {0}, before \in Nat :
        P = session_start + MinVolume - vol.save /\ before = Sums(Widths(dw))[tail]
  BY <1>3
<1>0. MinVolume \in Nat /\ MaxTries \in Nat
  BY Parameters
<1>6. dw' = list /\ tail' = tail + 1 /\ extent' = extent /\ hash' = hash
  BY <1>1, <1>4 DEF Listed
<1>7. /\ Len(list) = tail + 1 /\ DOMAIN list = 1 .. tail + 1 /\ \A k \in 1 .. tail : list[k] = dw[k]
      /\ list[tail + 1].entry = 0 /\ list[tail + 1].extent = vol.save
      /\ \A k \in 0 .. tail : Sums(Widths(list))[k] = Sums(Widths(dw))[k]
      /\ Total(Widths(list)) = before + P
  BY <1>3, <1>4, <1>5
<1>8. /\ Files' = Files /\ session_start' = session_start /\ (\A o : Has(o)' = Has(o)) /\ Boot' = Boot
  BY <1>1, SameJob
<1>9. OfFiles(dw)'
  <2>1. OfFiles(dw)
    BY <1>2 DEF Types
  <2>2. ASSUME NEW k \in DOMAIN list, list[k].entry # 0
        PROVE  LET e == Files[list[k].entry]
               IN e.old = 0 /\ e.size > 0 /\ list[k].size = e.size /\ isosize[list[k].entry] = e.size
    BY <1>2, <1>7, <2>1, <2>2 DEF OfFiles
  <2> QED
    BY <1>1, <1>6, <1>8, <2>2 DEF OfFiles
<1>10. EndOf(1) = session_start + MinVolume /\ EndOf(1) \in Nat
  BY <1>2, Parameters DEF EndOf
<1>11. Types'
  <2>1. tail' \in 0 .. Len(dw') /\ (tail' = 0 <=> dw' = <<>>)
    BY <1>2, <1>6, <1>7
  <2>2. hash' \in [{Files[i].file : i \in DOMAIN Files} -> [de : {0} \cup DOMAIN Files, start : Nat, size : Nat]]
    BY <1>1, <1>6, RoundFacts
  <2>3. dw' \in Nodes /\ extent' \in [1 .. Len(Files) -> Nat] /\ 1 \in {1} \cup Clumps
    BY <1>2, <1>6
  <2>4. PICK c \in {1} \cup Clumps : c = 1
    BY <2>3
  <2> QED
    BY <1>1, <1>9, <1>10, <2>1, <2>2, <2>3, <2>4, VolumeTypes
<1>12. HeavyFirst'
  BY <1>1, <1>2, <1>6, <1>8, SameRecords DEF HeavyFirst
<1>24. PICK a \in Nat, s \in Nat, v \in Nat, m \in Nat, old \in Nat :
         a = Start /\ s = session_start /\ v = vol.save /\ m = MinVolume /\ old = vol.tries
  <2>1. vol.tries \in Nat
    BY <1>0, <1>2
  <2> QED
    BY <1>0, <1>2, <2>1
<1>25. P = s + m - v
  BY <1>5, <1>24
<1>13. Start' = Start /\ Behind' = Behind
  <2>1. pc' # "size"
    BY Zenon, <1>1 DEF Made, Full, Error
  <2>2. pc' \in {"assign", "hfs", "trailer"} => pc \in {"assign", "hfs", "trailer"}
    BY <1>1
  <2> QED
    BY <1>1, <2>1, <2>2, FragmentsStand
<1>14. /\ Widths(dw)' = Widths(list) /\ Total(Widths(dw))' = before + P
  BY <1>1, <1>6, <1>7, SameLists
<1>31. Rounds /\ pc = "hfs" /\ Small
  BY <1>1, <1>2
<1>16. Has("sort") \/ tail = Len(dw)
  BY ONLY <1>31 DEF Rounds
<1>17. ASSUME tail = Len(dw) PROVE before = Total(Widths(dw))
  BY <1>2, <1>5, <1>17, WidthsAre
<1>18. vol.padded => /\ vol.tries < MaxTries
                     /\ Has("sort") \/ Start + Total(Widths(dw)) >= session_start + MinVolume
  BY ONLY <1>31 DEF Rounds
<1>19. ~ vol.padded => /\ Whole(dw) /\ Distinct(dw) /\ AllRecorded(dw) /\ Descending
                       /\ NoClumps(dw) /\ InRow(dw, Start)
                       /\ vol.save = Start + Total(Widths(dw))
  BY ONLY <1>31 DEF Rounds
<1>20. Total(Widths(dw)) \in Nat
  BY <1>2, WidthsAre
<1>21. ASSUME Full(1) PROVE IInv'
  <2>1. pc' = "hfs" /\ last_extent' = vol.save /\ vol.tries # 0 /\ vol' = [vol EXCEPT !.csize = 1, !.tries = @ - 1, !.padded = @ \/ Small]
    BY <1>1, <1>21 DEF Full
  <2>2. /\ vol'.first = vol.first /\ vol'.save = vol.save /\ vol'.pad = 0 /\ vol'.extra = vol.extra
        /\ vol'.csize = 1 /\ vol'.tries = vol.tries - 1 /\ vol'.padded
    BY <1>2, <2>1 DEF Types
  <2>3. vol.first = Start /\ vol.extra = 0
    BY <1>1, RoundFacts
  <2>4. Has("sort") \/ Start + (before + P) >= session_start + MinVolume
    <3>1. PICK T \in Nat : T = Total(Widths(dw))
      BY <1>20
    <3>2. CASE vol.padded
      BY <1>16, <1>17, <1>18, <1>24, <3>1, <3>2
    <3>3. CASE ~ vol.padded
      <4>3. a + (T + P) >= s + m
        BY <1>19, <1>24, <1>25, <3>1, <3>3
      <4> QED
        BY <1>16, <1>17, <1>24, <3>1, <4>3
    <3> QED
      BY <3>2, <3>3
  <2>5. (Start + Total(Widths(dw)))' = Start + (before + P)
    BY <1>13, <1>14
  <2>6. vol'.tries < MaxTries
    BY <1>0, <1>2, <1>24, <2>1, <2>2
  <2>7. Small'
    BY <1>8, <2>2 DEF Small
  <2>8. tail' = Len(dw')
    BY <1>6, <1>7
  <2>9. Rounds'
    BY <1>2, <1>8, <1>13, <2>1, <2>2, <2>3, <2>4, <2>5, <2>6, <2>7, <2>8 DEF Rounds
  <2> QED
    BY <1>11, <1>12, <1>21, <2>9, RoundEnds
<1>22. ASSUME Made(1) PROVE IInv'
  <2>1. PICK x \in Nat : x = Extra(1)
    <3>1. PICK c \in {1} \cup Clumps : c = 1
      OBVIOUS
    <3> QED
      BY <1>1, <3>1, RoundNumbers
  <2>2. Skip(1) = 0
    <3>1. PICK c \in {1} \cup Clumps : c = 1
      OBVIOUS
    <3> QED
      BY <1>1, <3>1, RoundNumbers
  <2>3. /\ last_extent' = session_start + MinVolume + x + Boot
        /\ vol' = [vol EXCEPT !.csize = 1, !.pad = Skip(1), !.extra = Extra(1),
                              !.catalog = EndOf(1), !.padded = @ \/ Small]
    BY <1>10, <1>22, <2>1 DEF Made
  <2>4. /\ vol'.save = vol.save /\ vol'.pad = 0 /\ vol'.extra = x /\ vol'.csize = 1
        /\ vol'.catalog = session_start + MinVolume /\ vol'.tries = vol.tries /\ vol'.padded
    BY <1>2, <1>10, <2>1, <2>2, <2>3 DEF Types
  <2>5. Boot \in Nat
    BY DEF Boot
  <2>6. Arrival' = Start + (before + P) + x + Boot
    BY <1>2, <1>8, <1>13, <1>14, <2>4 DEF Arrival
  <2>7. CASE ~ vol.padded /\ tail = Len(dw)
    <3>1. Start + (before + P) = session_start + MinVolume
      <4>1. PICK T \in Nat : T = Total(Widths(dw))
        BY <1>20
      <4>2. v = a + T /\ before = T
        BY <1>17, <1>19, <1>24, <2>7, <4>1
      <4>3. a + (before + P) = s + m
        BY <1>25, <4>2
      <4> QED
        BY <1>24, <4>3
    <3>3. Distinct(list)
      BY <1>2, <1>7, <1>19, <2>7 DEF Distinct
    <3>4. AllRecorded(dw)'
      <4>1. Leads(dw, extent)
        BY <1>19, <2>7 DEF AllRecorded, Recorded1, Leads
      <4>2. Leads(list, extent)
        BY <1>2, <1>7, <2>7, <4>1 DEF Leads, Holds
      <4> QED
        BY <1>1, <1>6, <4>2, SameRecords
    <3>5. InRow(list, Start)
      <4>2. ASSUME NEW k \in 1 .. tail + 1
            PROVE  list[k].extent = Start + Sums(Widths(list))[k - 1]
        <5>2. Sums(Widths(list))[k - 1] = Sums(Widths(dw))[k - 1]
          BY <1>2, <1>7
        <5>3. CASE k = tail + 1
          BY <1>2, <1>5, <1>7, <1>17, <1>19, <2>7, <5>2, <5>3
        <5>4. CASE k # tail + 1
          <6>1. k \in 1 .. tail
            BY <1>2, <5>4
          <6> QED
            BY <1>2, <1>7, <1>19, <2>7, <5>2, <6>1 DEF InRow
        <5> QED
          BY <5>3, <5>4
      <4> QED
        BY <1>7, <4>2 DEF InRow
    <3>6. Distinct(dw)'
      BY <1>1, <1>6, <3>3, SameLists
    <3>7. InRow(dw, Behind + vol.pad)'
      BY <1>2, <1>6, <1>13, <1>14, <2>4, <3>5 DEF InRow, Sums
    <3>8. vol'.catalog = (Behind + vol.pad + Total(Widths(dw)))'
      BY <1>2, <1>13, <1>14, <2>4, <3>1
    <3>9. ASSUME NEW k \in DOMAIN dw' PROVE (dw'[k].extent - session_start') % vol'.csize = 0
      <4>3. PICK n \in 0 .. Len(list) : n = k - 1
        BY <1>2, <1>6, <1>7, <3>9
      <4>4. PICK z \in Nat : z = Sums(Widths(list))[n]
        BY <1>4, WidthsAre
      <4>5. PICK q \in Nat : q = Start + z - session_start
        BY <1>2, <4>4
      <4>6. q = dw'[k].extent - session_start'
        <5>2. dw'[k].extent = Start + z
          BY <1>6, <1>7, <3>5, <3>9, <4>3, <4>4 DEF InRow
        <5> QED
          BY <1>8, <1>24, <4>4, <4>5, <5>2
      <4> QED
        BY <2>4, <4>6
    <3>10. Complete(last_extent)'
      BY <1>2, <2>3, <2>6, <3>1, <3>4, <3>6, <3>7, <3>8, <3>9 DEF Complete
    <3> QED
      BY <1>11, <1>12, <1>22, <3>10, RoundEnds DEF Plan
  <2>8. CASE ~ vol.padded /\ tail # Len(dw)
    <3>1. CutOff'
      BY <1>8, <1>16, <2>4, <2>8 DEF CutOff
    <3>2. before < Total(Widths(dw))
      <4>1. PICK w \in Seq(Nat) : w = Widths(dw) /\ Len(w) = Len(dw)
        BY <1>2, WidthsAre
      <4>2. tail \in 0 .. Len(w) /\ Len(dw) \in 0 .. Len(w) /\ tail < Len(dw) /\ tail + 1 \in 1 .. Len(dw)
        <5>3. Len(dw) \in Nat /\ tail \in 0 .. Len(dw)
          BY Zenon, <1>2
        <5>1. PICK n \in Nat : n = Len(dw)
          BY ONLY <5>3
        <5>2. tail \in 0 .. n /\ tail # n
          BY ONLY <2>8, <5>1, <5>3
        <5> QED
          BY <4>1, <5>1, <5>2
      <4>3. Sums(w)[tail] + w[tail + 1] <= Sums(w)[Len(dw)]
        BY <4>2, SumsGrow
      <4>4. w[tail + 1] > 0 /\ w[tail + 1] \in Nat
        <5>1. w[tail + 1] = Width(dw[tail + 1])
          BY <1>2, <4>1, <4>2, WidthsAre
        <5>3. dw[tail + 1].size > 0
          BY Zenon, <1>2, <1>19, <2>8, <4>2 DEF Whole, Types, OfFiles
        <5>4. dw[tail + 1] \in [entry : 0 .. Len(Files), size : Nat, extent : Nat, pad : Nat]
          BY <1>2, <4>2, Nodes1
        <5> QED
          BY <5>1, <5>3, <5>4, WidthIs
      <4>5. Total(Widths(dw)) = Sums(w)[Len(dw)]
        BY <1>2, <4>1, WidthsAre
      <4> QED
        BY <1>5, <1>20, <4>1, <4>3, <4>4, <4>5
    <3>3. last_extent' # Arrival'
      <4>1. PICK T \in Nat, b \in Nat : T = Total(Widths(dw)) /\ b = Boot
        BY <1>20, <2>5
      <4>2. v = a + T /\ before < T
        BY <1>19, <1>24, <2>8, <3>2, <4>1
      <4>3. Arrival' = a + (before + P) + x + b /\ last_extent' = s + m + x + b
        BY <1>24, <2>3, <2>6, <4>1
      <4> QED
        BY <1>25, <4>2, <4>3
    <3>4. Incomplete(last_extent)'
      BY <1>2, <1>8, <3>1, <3>3 DEF Incomplete
    <3> QED
      BY <1>11, <1>12, <1>22, <3>4, RoundEnds DEF Plan
  <2>9. CASE vol.padded
    <3>1. PaddedAgain'
      BY <1>18, <2>4, <2>9 DEF PaddedAgain
    <3>2. Has("sort") => Misled'
      BY <1>8, <2>4, <3>1 DEF Misled, CutOff
    <3>3. ASSUME ~ Has("sort") PROVE last_extent' # Arrival'
      <4>1. PICK T \in Nat, b \in Nat : T = Total(Widths(dw)) /\ b = Boot
        BY <1>20, <2>5
      <4>3. Arrival' = a + (before + P) + x + b /\ last_extent' = s + m + x + b
        BY <1>24, <2>3, <2>6, <4>1
      <4> QED
        BY <1>16, <1>17, <1>18, <1>24, <2>9, <3>3, <4>1, <4>3
    <3>4. Incomplete(last_extent)'
      BY <1>2, <1>8, <3>1, <3>2, <3>3 DEF Incomplete
    <3> QED
      BY <1>11, <1>12, <1>22, <3>4, RoundEnds DEF Plan
  <2> QED
    BY Zenon, <1>2, <2>7, <2>8, <2>9
<1>23. ASSUME Error PROVE IInv'
  BY <1>11, <1>23, RoundEnds
<1> QED
  BY <1>1, <1>21, <1>22, <1>23

\* When the nodes are moved to clumps, what refers to them follows.
LEMMA Moved ==
    ASSUME IInv, MakeVolume, ~ Small, NEW c \in Clumps, c # 1, Listed(c)
    PROVE  /\ dw' = Adjusted(dw, c).dw /\ dw' \in Nodes /\ OfFiles(dw)' /\ tail' = tail
           /\ tail' \in 0 .. Len(dw') /\ (tail' = 0 <=> dw' = <<>>) /\ Len(dw') = Len(dw)
           /\ extent' \in [1 .. Len(Files) -> Nat]
           /\ hash' \in [{Files[i].file : i \in DOMAIN Files} -> [de : {0} \cup DOMAIN Files, start : Nat, size : Nat]]
           /\ Whole(dw') /\ Distinct(dw') /\ Leads(dw', extent') /\ Ranked(dw') /\ HeavyFirst'
<1>1. /\ pc = "hfs" /\ job' = job /\ frags' = frags /\ isosize' = isosize /\ weight' = weight
  BY Round
<1>2. /\ job \in Jobs /\ Types /\ Rounds /\ Has("hfs")
      /\ Len(Files) \in Nat /\ DOMAIN Files = 1 .. Len(Files)
      /\ Start \in Nat /\ session_start \in Nat /\ dw \in Nodes /\ Len(dw) \in Nat /\ DOMAIN dw = 1 .. Len(dw)
      /\ tail \in 0 .. Len(dw) /\ extent \in [1 .. Len(Files) -> Nat]
      /\ hash \in [{Files[i].file : i \in DOMAIN Files} -> [de : {0} \cup DOMAIN Files, start : Nat, size : Nat]]
  BY <1>1, RoundFacts
<1> DEFINE placed == Recorded(extent, Placed(dw, [m \in DOMAIN dw |-> InClumps(dw[m], c)], Aligned(c)))
<1>3. /\ Whole(dw) /\ Distinct(dw) /\ AllRecorded(dw) /\ Descending /\ OfFiles(dw) /\ ~ vol.padded
      /\ Adjusted(dw, c).dw \in Nodes /\ Len(Adjusted(dw, c).dw) = Len(dw)
      /\ DOMAIN Adjusted(dw, c).dw = 1 .. Len(dw)
      /\ \A k \in 1 .. Len(dw) : /\ Adjusted(dw, c).dw[k].entry = dw[k].entry
                                 /\ Adjusted(dw, c).dw[k].size = dw[k].size
                                 /\ dw[k].entry \in 1 .. Len(Files) /\ dw[k].size > 0
                                 /\ dw[k].size = Files[dw[k].entry].size
      /\ InRow(Adjusted(dw, c).dw, Start + Skip(c))
      /\ \A k \in 1 .. Len(dw) :
           /\ \A i \in 1 .. Len(Files) :
                dw[k].entry = i => placed[i] = Adjusted(dw, c).dw[k].extent
      /\ placed \in [1 .. Len(Files) -> Nat]
  BY <1>1, Clumping
<1>4. PICK l \in Nodes : l = Adjusted(dw, c).dw
  BY <1>3
<1>5. /\ dw' = l /\ tail' = tail /\ extent' = Adjusted(dw, c).extent /\ hash' = Forget(hash)
  BY <1>4 DEF Listed
<1>6. extent' = [i \in DOMAIN extent |->
                   IF ~ Files[i].mac /\ Known(i, Hashed(l)) THEN Hashed(l)[Files[i].file].start ELSE placed[i]]
  <2>1. Adjusted(dw, c).dw = Clumped(dw, c).dw
    BY DEF Adjusted, Clumped
  <2>2. Clumped(dw, c).extent = placed
    BY DEF Clumped
  <2>3. Adjusted(dw, c).extent =
          [i \in DOMAIN extent |->
             IF ~ Files[i].mac /\ Known(i, Hashed(Clumped(dw, c).dw))
             THEN Hashed(Clumped(dw, c).dw)[Files[i].file].start ELSE Clumped(dw, c).extent[i]]
    BY DEF Adjusted, Clumped
  <2> QED
    BY <1>4, <1>5, <2>1, <2>2, <2>3
<1>7. /\ Len(l) = Len(dw) /\ DOMAIN l = 1 .. Len(dw) /\ InRow(l, Start + Skip(c))
      /\ \A k \in 1 .. Len(dw) :
           /\ l[k].entry = dw[k].entry /\ l[k].size = dw[k].size
           /\ dw[k].entry \in 1 .. Len(Files) /\ dw[k].size > 0
           /\ dw[k].size = Files[dw[k].entry].size
           /\ \A i \in 1 .. Len(Files) : dw[k].entry = i => placed[i] = l[k].extent
  BY <1>3, <1>4
<1> HIDE DEF placed
<1>9. Whole(l) /\ Distinct(l)
  BY <1>2, <1>3, <1>7 DEF Whole, Distinct
<1>10. Files' = Files /\ \A o : Has(o)' = Has(o)
  BY <1>1, SameJob
<1>11. OfFiles(dw)'
  BY <1>1, <1>2, <1>3, <1>5, <1>7, <1>10 DEF OfFiles
<1>12. tail' \in 0 .. Len(l) /\ (tail' = 0 <=> l = <<>>)
  <2>2. dw = <<>> <=> Len(dw) = 0
    <3> DEFINE S == Node
    <3> HIDE DEF S
    <3> QED
      BY <1>2, EmptySeq DEF Nodes, Node
  <2>3. l = <<>> <=> Len(l) = 0
    <3> DEFINE S == Node
    <3> HIDE DEF S
    <3> QED
      BY <1>4, EmptySeq DEF Nodes, Node
  <2> QED
    BY <1>2, <1>5, <1>7, <2>2, <2>3 DEF Types, TypeOK
<1>13. PICK h : h = Hashed(l)
  OBVIOUS
<1>14. h \in [{Files[i].file : i \in DOMAIN Files} -> [de : {0} \cup DOMAIN Files, start : Nat, size : Nat]]
  BY <1>2, <1>7, <1>9, <1>13, HashedTyped
<1>15. extent' \in [1 .. Len(Files) -> Nat]
  <2>1. ASSUME NEW i \in 1 .. Len(Files) PROVE h[Files[i].file].start \in Nat
    <3> DEFINE D == {Files[j].file : j \in DOMAIN Files}
               R == [de : {0} \cup DOMAIN Files, start : Nat, size : Nat]
    <3>2. \A r \in R : r.start \in Nat
      OBVIOUS
    <3> HIDE DEF D, R
    <3> QED
      BY <1>2, <1>14, <3>2
  <2>2. DOMAIN extent = 1 .. Len(Files)
    BY <1>2
  <2> QED
    BY <1>3, <1>6, <1>13, <2>1, <2>2
<1>16. hash' \in [{Files[i].file : i \in DOMAIN Files} -> [de : {0} \cup DOMAIN Files, start : Nat, size : Nat]]
  <2> DEFINE D == {Files[i].file : i \in DOMAIN Files}
             R == [de : {0} \cup DOMAIN Files, start : Nat, size : Nat]
  <2>1. Unknown \in R /\ DOMAIN hash = D
    BY <1>2 DEF Unknown
  <2> HIDE DEF D, R
  <2>2. hash' \in [D -> R]
    BY <1>5, <2>1 DEF Forget
  <2> QED
    BY <2>2 DEF D, R
<1>17. Leads(l, extent')
  <2> SUFFICES ASSUME NEW i \in DOMAIN Files, Stored(i)
               PROVE  \E k \in DOMAIN l : Holds(l[k], i) /\ l[k].extent = extent'[i]
    BY DEF Leads
  <2>1. PICK k \in DOMAIN dw : Holds(dw[k], i)
    BY <1>3 DEF AllRecorded, Recorded1
  <2>2. k \in 1 .. Len(l) /\ k \in 1 .. Len(dw) /\ Holds(l[k], i)
    BY <1>2, <1>7, <2>1 DEF Holds
  <2>3. i \in DOMAIN extent /\ i # 0 /\ i \in 1 .. Len(Files)
    BY <1>2
  <2>4. Files[i].file \in DOMAIN hash
    BY <1>2
  <2>5. PICK ext : ext = extent
    OBVIOUS
  <2>6. /\ l[k].entry # i => Files[i].cached /\ Known(i, h)
        /\ Known(i, h) => h[Files[i].file].start = l[k].extent
    <3>1. i \in DOMAIN ext
      BY <2>3, <2>5
    <3>2. /\ l[k].entry # i => Files[i].cached /\ Known(i, Hashed(l))
          /\ Known(i, Hashed(l)) => Hashed(l)[Files[i].file].start = l[k].extent
      BY <1>9, <2>2, <2>3, <2>4, <3>1, Relinked
    <3> QED
      BY <1>13, <3>2
  <2>8. extent'[i] = IF ~ Files[i].mac /\ Known(i, h) THEN h[Files[i].file].start ELSE placed[i]
    BY <1>6, <1>13, <2>3
  <2>9. extent'[i] = l[k].extent
    <3>1. CASE ~ Files[i].mac /\ Known(i, h)
      BY <2>6, <2>8, <3>1
    <3>2. CASE ~ (~ Files[i].mac /\ Known(i, h))
      BY <1>2, <1>7, <2>2, <2>3, <2>6, <2>8, <3>2, JobFacts
    <3> QED
      BY <3>1, <3>2
  <2> QED
    BY <1>7, <2>2, <2>9
<1>18. Ranked(l)
  BY <1>1, <1>2, <1>3, <1>7, SameRecords DEF Ranked
<1>19. HeavyFirst'
  <2> SUFFICES ASSUME Has("sort"), NEW i \in DOMAIN Files, NEW j \in DOMAIN Files,
                      Stored(i), Stored(j), Heaviest(i) > Heaviest(j)
               PROVE  extent'[i] < extent'[j]
    BY <1>1, <1>10, SameRecords DEF HeavyFirst
  <2>1. PICK ext : ext = extent'
    OBVIOUS
  <2>3. PICK from \in Nat : from = Start + Skip(c)
    BY <1>1, <1>2, RoundNumbers
  <2>5. \A a, b \in 1 .. Len(l) : a < b => l[a].extent < l[b].extent
    BY <1>7, <2>3, Rising
  <2>6. ext[i] < ext[j]
    BY <1>2, <1>17, <1>18, <2>1, <2>5, HeavierEarlier
  <2> QED
    BY <2>1, <2>6
<1> QED
  BY <1>4, <1>5, <1>7, <1>9, <1>11, <1>12, <1>15, <1>16, <1>17, <1>18, <1>19

\* A volume that is large enough is made of the files as they are.
LEMMA Unmoved ==
    ASSUME IInv, MakeVolume, ~ Small, Listed(1), vol.csize = 1
    PROVE  /\ dw' = dw /\ tail' = tail /\ extent' = extent /\ hash' = hash
           /\ OfFiles(dw)' /\ HeavyFirst' /\ Whole(dw') /\ Distinct(dw')
           /\ Leads(dw', extent') /\ Ranked(dw')
           /\ NoClumps(dw') /\ InRow(dw', Start) /\ vol.save = Start + Total(Widths(dw'))
<1>1. /\ pc = "hfs" /\ job' = job /\ isosize' = isosize /\ weight' = weight
  BY Round
<1>2. /\ Types /\ Rounds /\ HeavyFirst
  BY <1>1, RoundFacts
<1>3. dw' = dw /\ tail' = tail /\ extent' = extent /\ hash' = hash
  BY DEF Listed
<1>4. Files' = Files /\ \A o : Has(o)' = Has(o)
  BY <1>1, SameJob
<1>7. HeavyFirst'
  BY <1>1, <1>2, <1>3, <1>4, SameRecords DEF HeavyFirst
<1> QED
  BY <1>1, <1>2, <1>3, <1>4, <1>7, SameRecords DEF Rounds, OfFiles, Types

LEMMA LargeKept ==
    ASSUME IInv, MakeVolume, ~ Small
    PROVE  IInv'
<1>1. /\ pc = "hfs" /\ job' = job /\ frags' = frags /\ at' = at
      /\ isosize' = isosize /\ weight' = weight
  BY Round
<1>2. PICK c \in {k \in Clumps : k >= vol.csize} : Listed(c) /\ (Made(c) \/ Full(c) \/ Error)
  BY Round
<1>3. /\ job \in Jobs /\ Types /\ Rounds /\ how = "running" /\ Has("hfs")
      /\ Start \in Nat /\ session_start \in Nat /\ Start >= session_start /\ Behind = Start
      /\ dw \in Nodes /\ Len(dw) \in Nat
      /\ vol.first = Start /\ vol.pad = 0 /\ vol.extra = 0 /\ last_extent = vol.save
      /\ vol.save \in Nat /\ vol.save >= Start /\ vol.padded \in BOOLEAN
      /\ vol.csize \in {1} \cup Clumps /\ tail \in 0 .. Len(dw)
      /\ extent \in [1 .. Len(Files) -> Nat]
      /\ hash \in [{Files[i].file : i \in DOMAIN Files} -> [de : {0} \cup DOMAIN Files, start : Nat, size : Nat]]
  BY <1>1, RoundFacts
<1>4. c \in Clumps /\ c \in {1} \cup Clumps /\ c >= vol.csize
  BY <1>2
<1>5. ~ vol.padded /\ (Has("sort") \/ tail = Len(dw))
  BY <1>1, <1>3 DEF Rounds
<1>6. /\ c \in Nat \ {0} /\ Skip(c) \in Nat /\ Extra(c) \in Nat /\ (c = 1 => Skip(c) = 0)
  BY <1>1, <1>4, RoundNumbers
<1>7. c = 1 => vol.csize = 1
  <2>1. vol.csize \in Nat \ {0}
    BY <1>3, Parameters
  <2> QED
    BY <1>4, <2>1
<1>8. /\ dw' \in Nodes /\ OfFiles(dw)' /\ tail' = tail /\ Len(dw') = Len(dw)
      /\ tail' \in 0 .. Len(dw') /\ (tail' = 0 <=> dw' = <<>>)
      /\ extent' \in [1 .. Len(Files) -> Nat]
      /\ hash' \in [{Files[i].file : i \in DOMAIN Files} -> [de : {0} \cup DOMAIN Files, start : Nat, size : Nat]]
      /\ Whole(dw') /\ Distinct(dw') /\ Leads(dw', extent') /\ Ranked(dw') /\ HeavyFirst'
  <2>1. CASE c = 1
    BY <1>2, <1>3, <1>7, <2>1, Unmoved DEF Types, TypeOK
  <2>2. CASE c # 1
    BY <1>2, <1>4, <2>2, Moved
  <2> QED
    BY <2>1, <2>2
<1>9. InRow(dw', Start + Skip(c)) /\ EndOf(c) = Start + Skip(c) + Total(Widths(dw'))
  <2>1. CASE c = 1
    BY <1>2, <1>3, <1>6, <1>7, <2>1, Unmoved DEF EndOf
  <2>2. CASE c # 1
    BY <1>1, <1>2, <1>4, <2>2, Moved, Clumping DEF EndOf
  <2> QED
    BY <2>1, <2>2
<1>10. PICK list \in Nodes : list = dw'
  BY <1>8
<1>11. PICK total \in Nat : total = Total(Widths(list))
  BY WidthsAre
<1>12. EndOf(c) = Start + Skip(c) + total /\ EndOf(c) \in Nat
  BY <1>3, <1>6, <1>9, <1>10, <1>11
<1>13. Types'
  BY <1>2, <1>4, <1>8, <1>12, VolumeTypes
<1>14. /\ Files' = Files /\ session_start' = session_start /\ (\A o : Has(o)' = Has(o)) /\ Boot' = Boot
  BY <1>1, SameJob
<1>15. Start' = Start /\ Behind' = Behind
  <2>1. pc' # "size"
    BY Zenon, <1>1, <1>2 DEF Made, Full, Error
  <2>2. pc' \in {"assign", "hfs", "trailer"} => pc \in {"assign", "hfs", "trailer"}
    BY <1>1
  <2> QED
    BY <1>1, <2>1, <2>2, FragmentsStand
<1>16. /\ Widths(dw)' = Widths(list) /\ Total(Widths(dw))' = total
       /\ Whole(dw)' /\ Distinct(dw)' /\ AllRecorded(dw)' /\ Descending'
       /\ NoClumps(dw)' = NoClumps(dw') /\ \A from : InRow(dw, from)' = InRow(dw', from)
  BY <1>1, <1>8, <1>10, <1>11, SameLists, SameRecords
<1>17. ASSUME Full(c) PROVE IInv'
  <2>1. pc' = "hfs" /\ last_extent' = vol.save /\ vol' = [vol EXCEPT !.csize = c, !.tries = @ - 1, !.padded = @ \/ Small]
    BY <1>1, <1>17 DEF Full
  <2>2. /\ vol'.first = Start /\ vol'.save = vol.save /\ vol'.pad = 0 /\ vol'.extra = 0
        /\ vol'.csize = c /\ ~ vol'.padded
    BY <1>3, <1>5, <2>1 DEF Types
  <2>5. ASSUME c = 1 PROVE NoClumps(dw)' /\ InRow(dw, Start)' /\ vol'.save = Start' + Total(Widths(dw))'
    BY <1>2, <1>7, <1>10, <1>11, <1>15, <1>16, <2>2, <2>5, Unmoved DEF InRow
  <2> QED
    BY <1>3, <1>5, <1>8, <1>13, <1>14, <1>15, <1>16, <1>17, <2>1, <2>2, <2>5, RoundEnds
       DEF Small, Rounds
<1>18. ASSUME Made(c) PROVE IInv'
  <2>1. PICK x \in Nat, p \in Nat, b \in Nat : x = Extra(c) /\ p = Skip(c) /\ b = Boot
    BY <1>6 DEF Boot
  <2>2. /\ last_extent' = EndOf(c) + Extra(c) + Boot
        /\ vol' = [vol EXCEPT !.csize = c, !.pad = Skip(c), !.extra = Extra(c),
                              !.catalog = EndOf(c), !.padded = @ \/ Small]
    BY <1>18 DEF Made
  <2>3. vol'.pad = p /\ vol'.extra = x /\ vol'.csize = c /\ vol'.catalog = EndOf(c)
    BY <1>3, <2>1, <2>2 DEF Types
  <2>5. InRow(dw, Behind + vol.pad)'
    <3>1. Behind' + vol'.pad = Start + p
      BY <1>3, <1>15, <2>3
    <3>2. InRow(dw, Behind + vol.pad)' <=> InRow(dw', Start + p)
      BY <1>16, <3>1 DEF InRow
    <3> QED
      BY <1>9, <2>1, <3>2
  <2>7. ASSUME NEW k \in DOMAIN dw' PROVE (dw'[k].extent - session_start') % vol'.csize = 0
    <3>1. CASE c = 1
      <4>1. dw'[k].extent \in Nat /\ dw'[k].extent >= session_start
        <5>2. PICK m \in 0 .. Len(list) : m = k - 1
          BY <1>10, <2>7, Nodes1
        <5>3. PICK s \in Nat : s = Sums(Widths(list))[m]
          BY WidthsAre
        <5> QED
          <6>1. PICK a \in Nat, z \in Nat : a = Start /\ z = session_start /\ a >= z
            BY <1>3
          <6>2. dw'[k].extent = a + p + s
            BY <1>9, <1>10, <2>1, <2>7, <5>2, <5>3, <6>1 DEF InRow
          <6> QED
            BY <6>1, <6>2
      <4>2. PICK q \in Nat : q = dw'[k].extent - session_start
        BY <1>3, <4>1
      <4> QED
        BY <1>14, <2>3, <3>1, <4>2
    <3>2. CASE c # 1
      <4>2. \A m \in 1 .. Len(dw) : (Adjusted(dw, c).dw[m].extent - session_start) % c = 0
        BY <1>1, <1>4, <3>2, Clumping
      <4>3. k \in 1 .. Len(dw)
        BY <1>8, <1>10, <2>7, Nodes1
      <4> QED
        BY <1>2, <1>4, <1>14, <2>3, <3>2, <4>2, <4>3, Moved
    <3> QED
      BY <3>1, <3>2
  <2> QED
    BY <1>3, <1>8, <1>12, <1>13, <1>14, <1>15, <1>16, <1>18, <2>1, <2>2, <2>3, <2>5, <2>7,
       RoundEnds DEF Arrival, Complete, Plan
<1>19. ASSUME Error PROVE IInv'
  BY <1>13, <1>19, RoundEnds
<1> QED
  BY <1>2, <1>17, <1>18, <1>19

LEMMA VolumeKept ==
    ASSUME IInv, MakeVolume
    PROVE  IInv'
BY SmallKept, LargeKept

----------------------------------------------------------------------------
(* The fragments that are inserted late                                    *)

LEMMA LateIs ==
    ASSUME NEW N, "end_anchor" \in N, "padend_avdp" \in N,
           Has("udf") \/ "endpad" \in N,
           ~ Sun \/ ("interpad" \in N /\ "sunboot" \in N /\ "endpad" \in N)
    PROVE  Late \in Seq(N) /\ Len(Late) \in Nat /\ (Has("udf") => Len(Late) >= 1)
<1>1. PICK a \in N, p \in N : a = "end_anchor" /\ p = "padend_avdp"
  OBVIOUS
<1>2. PICK z : z = "endpad"
  OBVIOUS
<1> DEFINE A == <<a>>
           P == <<p>>
           Z == <<z>>
           pp == Only(Has("pad"), P)
           zz == Only(Has("pad") /\ ~ Sun, Z)
<1>3. Trailer = IF Has("udf") THEN A \o pp ELSE zz
  BY <1>1, <1>2 DEF Trailer
<1>4. A \in Seq(N) /\ Len(A) = 1 /\ P \in Seq(N)
  BY One
<1>5. pp \in {P, <<>>} /\ zz \in {Z, <<>>}
  BY DEF Only
<1>6. ~ Has("udf") => Z \in Seq(N)
  BY <1>2, One
<1> HIDE DEF A, P, Z, pp, zz
<1>7. Trailer \in Seq(N) /\ Len(Trailer) \in Nat /\ (Has("udf") => Len(Trailer) >= 1)
  <2>1. CASE Has("udf")
    <3>1. pp \in Seq(N) /\ Len(pp) \in Nat
      BY <1>4, <1>5, Optional
    <3>2. A \o pp \in Seq(N) /\ Len(A \o pp) = Len(A) + Len(pp)
      BY <1>4, <3>1, Joined
    <3> QED
      BY <1>3, <1>4, <2>1, <3>1, <3>2
  <2>2. CASE ~ Has("udf")
    BY <1>3, <1>5, <1>6, <2>2, Optional
  <2> QED
    BY <2>1, <2>2
<1>8. SunTrailer \in Seq(N) /\ Len(SunTrailer) \in Nat
  <2>1. CASE Sun
    <3>1. PICK i \in N, s \in N, e \in N : i = "interpad" /\ s = "sunboot" /\ e = "endpad"
      BY <2>1
    <3> DEFINE I == <<i>>
               S == <<s>>
               E == <<e>>
               ii == Only(Has("pad"), I)
               ee == Only(Has("pad"), E)
    <3>2. SunTrailer = ii \o S \o ee
      <4>1. SunTrailer = Only(Sun, ii \o S \o ee)
        BY <3>1, Zenon DEF SunTrailer
      <4> HIDE DEF S, ii, ee
      <4> QED
        BY <2>1, <4>1 DEF Only
    <3>3. I \in Seq(N) /\ S \in Seq(N) /\ E \in Seq(N)
      BY One
    <3>4. ii \in {I, <<>>} /\ ee \in {E, <<>>}
      BY DEF Only
    <3> HIDE DEF I, S, E, ii, ee
    <3> QED
      BY <3>2, <3>3, <3>4, Optional, Joined, LenProperties
  <2>2. CASE ~ Sun
    BY <2>2, EmptySeq DEF SunTrailer, Only
  <2> QED
    BY <2>1, <2>2
<1>9. PICK t \in Seq(N), u \in Seq(N) : t = Trailer /\ u = SunTrailer
  BY <1>7, <1>8
<1> QED
  BY <1>7, <1>8, <1>9, Joined DEF Late

\* What the plan says depends on nothing that the writing pass changes.
LEMMA PlanStands ==
    ASSUME job' = job, dw' = dw, vol' = vol, isosize' = isosize, extent' = extent, weight' = weight,
           Start' = Start, Behind' = Behind
    PROVE  /\ \A b : Plan(b)' <=> Plan(b)
           /\ \A b : Complete(b)' <=> Complete(b)
           /\ Arrival' = Arrival /\ (HeavyFirst' <=> HeavyFirst)
           /\ \A k : Place(k)' = Place(k)
           /\ Widths(dw)' = Widths(dw) /\ Total(Widths(dw))' = Total(Widths(dw))
           /\ (CutOff' <=> CutOff) /\ (PaddedAgain' <=> PaddedAgain) /\ (Misled' <=> Misled)
           /\ (NoVolume' <=> NoVolume) /\ (Whole(dw)' <=> Whole(dw)) /\ (OfFiles(dw)' <=> OfFiles(dw))
           /\ Nodes' = Nodes
<1>1. /\ Files' = Files /\ session_start' = session_start /\ (\A o : Has(o)' = Has(o))
      /\ Boot' = Boot /\ (\A i, j : Same(i, j)' = Same(i, j))
  BY SameJob
<1>2. /\ Nodes' = Nodes /\ Widths(dw)' = Widths(dw) /\ (Whole(dw)' <=> Whole(dw))
      /\ (Distinct(dw)' <=> Distinct(dw)) /\ \A from : InRow(dw, from)' <=> InRow(dw, from)
  BY SameLists
<1>3. /\ (\A i : Heaviest(i)' = Heaviest(i) /\ (Stored(i)' <=> Stored(i)))
      /\ AllRecorded(dw)' <=> AllRecorded(dw)
  BY SameRecords
<1>4. Total(Widths(dw))' = Total(Widths(dw))
  BY <1>2
<1>5. Arrival' = Arrival
  BY <1>1, <1>4 DEF Arrival
<1>10. HeavyFirst' <=> HeavyFirst
  BY <1>1, <1>3 DEF HeavyFirst
<1>11. \A k : Place(k)' = Place(k)
  BY <1>1, <1>2 DEF Place
<1>12. NoVolume' <=> NoVolume
  BY DEF NoVolume
<1>13. OfFiles(dw)' <=> OfFiles(dw)
  BY <1>1 DEF OfFiles
<1> QED
  BY <1>1, <1>2, <1>3, <1>4, <1>5, <1>10, <1>11, <1>12, <1>13
     DEF InRow, Complete, CutOff, PaddedAgain, Misled, Plan, Incomplete

LEMMA LateNames == Late \in Seq(Ordinary) /\ Late \in Seq(Names) /\ Len(Late) \in Nat
<1> QED
  BY LateIs DEF Ordinary, Names

LEMMA TrailerKept ==
    ASSUME IInv, InsertTrailer
    PROVE  IInv'
<1>1. /\ Types /\ Sizing /\ Unwritten /\ Planned /\ Outcome /\ pc = "trailer"
  BY DEF IInv, InsertTrailer
<1>2. /\ job \in Jobs /\ how = "running"
      /\ last_extent_written = session_start /\ image = <<>> /\ item = 0
      /\ Plan(last_extent) /\ HeavyFirst /\ (Has("hfs") \/ (NoVolume /\ Whole(dw)))
      /\ last_extent \in Nat /\ frags \in Seq([name : Names, start : Nat])
      /\ Len(frags) = Early
  BY <1>1 DEF Types, TypeOK, Unwritten, Planned, Sizing
<1>3. /\ Early \in Nat /\ Early >= 3 /\ Start \in Nat /\ session_start \in Nat
  BY <1>1, Behinds
<1>4. Late \in Seq(Names) /\ Len(Late) \in Nat
  BY LateNames
<1> DEFINE more == [i \in DOMAIN Late |-> [name |-> Late[i], start |-> 0]]
<1>5. /\ frags' = frags \o more /\ last_extent' = SizesAfter(Late, last_extent)
      /\ pc' = "write" /\ at' = 1 /\ job' = job /\ how' = how
      /\ last_extent_written' = last_extent_written /\ image' = image /\ item' = item /\ now' = now
      /\ extent' = extent /\ isosize' = isosize /\ weight' = weight /\ hash' = hash /\ dw' = dw
      /\ tail' = tail /\ vol' = vol
  BY DEF InsertTrailer, planned, Late
<1>6. /\ more \in Seq([name : Names, start : Nat]) /\ Len(more) = Len(Late)
      /\ \A k \in 1 .. Len(Late) : more[k] = [name |-> Late[k], start |-> 0]
  <2> DEFINE N == Names
             R == [name : N, start : Nat]
  <2>1. Late \in Seq(N) /\ DOMAIN Late = 1 .. Len(Late)
    BY <1>4
  <2> HIDE DEF N
  <2>3. more \in [1 .. Len(Late) -> R]
    BY <2>1
  <2> HIDE DEF R
  <2> QED
    BY <1>4, <2>1, <2>3, IsSeq DEF N, R
<1> HIDE DEF more
<1>7. /\ frags' \in Seq([name : Names, start : Nat]) /\ Len(frags') = Early + Len(Late)
      /\ \A k \in 1 .. Early : frags'[k] = frags[k]
      /\ \A k \in 1 .. Len(Late) : frags'[Early + k] = [name |-> Late[k], start |-> 0]
  <2> DEFINE R == [name : Names, start : Nat]
  <2>1. frags \in Seq(R) /\ more \in Seq(R)
    BY <1>2, <1>6
  <2> HIDE DEF R
  <2>2. /\ frags \o more \in Seq(R) /\ Len(frags \o more) = Len(frags) + Len(more)
        /\ \A i \in 1 .. Len(frags) : (frags \o more)[i] = frags[i]
        /\ \A i \in 1 .. Len(more) : (frags \o more)[Len(frags) + i] = more[i]
    BY <2>1, Joined
  <2> QED
    BY <1>2, <1>5, <1>6, <2>2 DEF R
<1>8. /\ Files' = Files /\ session_start' = session_start /\ (\A o : Has(o)' = Has(o))
      /\ Boot' = Boot /\ Early' = Early /\ Late' = Late /\ Fragments' = Fragments
      /\ \A name, n : SizeAfter(name, n)' = SizeAfter(name, n)
      /\ \A names, n : SizesAfter(names, n)' = SizesAfter(names, n)
  BY <1>5, SameJob
<1>9. Start' = Start /\ Behind' = Behind
  BY <1>3, <1>7, <1>8 DEF Start, Behind
<1>10. /\ \A b : Plan(b)' <=> Plan(b)
       /\ (HeavyFirst' <=> HeavyFirst) /\ (NoVolume' <=> NoVolume) /\ (Whole(dw)' <=> Whole(dw))
       /\ (OfFiles(dw)' <=> OfFiles(dw)) /\ Nodes' = Nodes
  BY <1>5, <1>9, PlanStands
<1>12. TypeOK'
  <2>1. \A i \in DOMAIN frags' : frags'[i].name \in Names /\ frags'[i].start \in Nat
    <3> DEFINE R == [name : Names, start : Nat]
    <3>1. frags' \in Seq(R)
      BY <1>7
    <3>2. \A r \in R : r.name \in Names /\ r.start \in Nat
      OBVIOUS
    <3> HIDE DEF R
    <3> QED
      BY <3>1, <3>2
  <2>2. TypeOK
    BY <1>1 DEF Types
  <2>3. job' \in Jobs /\ how' \in Outcomes /\ {at', item', last_extent', last_extent_written'} \subseteq Nat
    BY <1>2, <1>4, <1>5, <2>2, BordersAre DEF TypeOK, Outcomes
  <2>5. /\ tail' \in 0..Len(dw') /\ (tail' = 0 <=> dw' = <<>>)
        /\ \A k \in DOMAIN image' : image'[k] \in Int \X Nat
        /\ \A f \in DOMAIN now' : now'[f] \in -1..MaxSize
    BY <1>5, <2>2 DEF TypeOK
  <2> QED
    BY <1>5, <1>8, <2>1, <2>2, <2>3, <2>5 DEF TypeOK
<1>13. Types'
  BY <1>1, <1>2, <1>5, <1>7, <1>8, <1>10, <1>12 DEF Types
<1>14. Sizing'
  <2>1. Sized(Early)'
    <3>1. \A k \in 1 .. Early :
            frags[k].start = IF k = 1 THEN session_start
                             ELSE SizeAfter(frags[k - 1].name, frags[k - 1].start)
      BY <1>1 DEF Sizing, Sized
    <3>2. ASSUME NEW k \in 1 .. Early
          PROVE  frags'[k].start = IF k = 1 THEN session_start'
                                   ELSE SizeAfter(frags[k - 1].name, frags[k - 1].start)'
      <4>1. CASE k = 1
        BY <1>7, <1>8, <3>1, <4>1
      <4>2. CASE k # 1
        <5>1. k - 1 \in 1 .. Early
          BY <1>3, <4>2
        <5>2. frags'[k] = frags[k] /\ frags'[k - 1] = frags[k - 1]
          BY <1>7, <5>1
        <5> QED
          BY <1>8, <3>1, <4>2, <5>2
      <4> QED
        BY <4>1, <4>2
    <3> QED
      BY <1>8, <3>2 DEF Sized
  <2> QED
    BY <1>1, <1>3, <1>4, <1>5, <1>7, <1>8, <2>1 DEF Sizing
<1>15. Untouched' /\ Unwritten' /\ Assigning' /\ Rounds' /\ pc' \notin {"size", "assign"}
  BY <1>5 DEF Untouched, Unwritten, Assigning, Rounds
<1>16. Planned'
  BY <1>2, <1>5, <1>7, <1>8, <1>10 DEF Planned
<1>17. Position'
  <2>1. frags'[1].start = session_start
    <3>1. frags[1].start = session_start
      BY <1>1, <1>3 DEF Sizing, Sized
    <3> QED
      BY <1>3, <1>7, <3>1
  <2>2. Len(image') = 0
    BY <1>2, <1>5, EmptySeq
  <2>3. session_start - session_start = 0 /\ 0 * Sector = 0
    BY <1>3, Parameters
  <2> QED
    BY <1>2, <1>3, <1>5, <1>8, <2>1, <2>2, <2>3 DEF Position
<1>19. Structures'
  <2>1. Anchor' = Anchor
    BY <1>5 DEF Anchor, SystemUse, Descriptors, Only, Has, Sun
  <2>2. Anchor >= 6 /\ Anchor \in Nat
    <3>1. Len(SystemUse) \in 1 .. 3 /\ Len(Descriptors) \in Nat
      BY <1>2, FragmentsAre
    <3> QED
      BY ONLY <3>1 DEF Anchor
  <2> QED
    BY <1>3, <1>5, <1>8, <2>1, <2>2 DEF Structures
<1>20. Outcome'
  BY <1>1, <1>2, <1>5 DEF Outcome, BotchOnlyForHfs, ReadFailsForCause
<1> QED
  BY <1>2, <1>5, <1>13, <1>14, <1>15, <1>16, <1>17, <1>19, <1>20 DEF Data, IInv

----------------------------------------------------------------------------
(* The writing pass                                                        *)

\* What can be relied on while it runs.
LEMMA WritingFacts ==
    ASSUME IInv, pc \in {"write", "files"}
    PROVE  /\ job \in Jobs /\ Types /\ Sizing /\ how = "running" /\ Writes
           /\ Planned /\ Position /\ Data /\ Structures
           /\ Len(Files) \in Nat /\ DOMAIN Files = 1 .. Len(Files)
           /\ Early \in Nat /\ Early >= 3 /\ Len(Late) \in Nat /\ Len(frags) = Early + Len(Late)
           /\ DOMAIN frags = 1 .. Len(frags)
           /\ Start \in Nat /\ session_start \in Nat /\ Start >= session_start /\ Behind \in Nat
           /\ dw \in Nodes /\ Len(dw) \in Nat /\ DOMAIN dw = 1 .. Len(dw) /\ OfFiles(dw)
           /\ vol.pad \in Nat /\ vol.extra \in Nat /\ vol.csize \in Nat \ {0} /\ vol.csize <= SystemArea
           /\ Total(Widths(dw)) \in Nat /\ Boot \in Nat /\ Arrival \in Nat
           /\ ~ Has("hfs") => vol.pad = 0 /\ vol.extra = 0 /\ Boot = 0 /\ Whole(dw)
           /\ at \in Nat /\ last_extent \in Nat /\ last_extent_written \in Nat /\ item \in Nat
           /\ last_extent_written >= session_start
           /\ image \in Seq(Int \X Nat) /\ Len(image) \in Nat
           /\ Len(image) = (last_extent_written - session_start) * Sector
           /\ frags \in Seq([name : Names, start : Nat])
<1>1. job \in Jobs /\ Types /\ Sizing /\ Planned /\ Position /\ Data /\ Structures /\ Writes
  BY DEF IInv, Types, TypeOK, Writes
<1>2. /\ how = "running" /\ dw \in Nodes /\ OfFiles(dw) /\ image \in Seq(Int \X Nat)
      /\ frags \in Seq([name : Names, start : Nat])
  BY <1>1 DEF Types
<1>4. /\ Early \in Nat /\ Early >= 3 /\ Start \in Nat /\ session_start \in Nat
      /\ Start >= session_start /\ Behind \in Nat
  BY <1>1, Behinds
<1>5. Len(frags) = Early + Len(Late) /\ Len(Late) \in Nat
  BY <1>1, LateNames DEF Planned
<1>7. Len(dw) \in Nat /\ DOMAIN dw = 1 .. Len(dw) /\ Total(Widths(dw)) \in Nat
  BY <1>2, Nodes1, WidthsAre
<1>8. vol.pad \in Nat /\ vol.extra \in Nat /\ vol.csize \in {1} \cup Clumps
  <2> DEFINE cs == {1} \cup Clumps
  <2>1. vol \in [first : Nat, save : Nat, tries : 0 .. MaxTries, csize : cs,
                 pad : Nat, extra : Nat, catalog : Nat, padded : BOOLEAN]
    BY <1>1 DEF Types
  <2> HIDE DEF cs
  <2>2. vol.pad \in Nat /\ vol.extra \in Nat /\ vol.csize \in cs
    BY <2>1
  <2> QED
    BY <2>2 DEF cs
<1>9. vol.csize \in Nat \ {0} /\ vol.csize <= SystemArea
  BY <1>8, Parameters
<1>10. Boot \in Nat
  BY DEF Boot
<1>11. Arrival \in Nat
  <2>1. PICK b \in Nat, t \in Nat, o \in Nat, p \in Nat, x \in Nat :
          b = Behind /\ t = Total(Widths(dw)) /\ o = Boot /\ p = vol.pad /\ x = vol.extra
    BY <1>4, <1>7, <1>8, <1>10
  <2> QED
    BY <2>1 DEF Arrival
<1>12. ASSUME ~ Has("hfs") PROVE vol.pad = 0 /\ vol.extra = 0 /\ Boot = 0 /\ Whole(dw)
  BY <1>1, <1>12, JobFacts DEF Planned, NoVolume, Boot
<1>13. at \in Nat /\ last_extent \in Nat /\ last_extent_written \in Nat /\ item \in Nat
  BY <1>1 DEF Types, TypeOK
<1>14. /\ last_extent_written >= session_start
       /\ Len(image) = (last_extent_written - session_start) * Sector
  BY <1>1 DEF Position
<1>15. Len(image) \in Nat
  BY <1>2
<1> QED
  BY <1>1, <1>2, <1>4, <1>5, <1>7, <1>8, <1>9, <1>10, <1>11, <1>12, <1>13, <1>14, <1>15,
     JobFacts

\* What a step of the writing pass leaves as it is.
Fixed ==
    /\ job' = job /\ frags' = frags /\ last_extent' = last_extent /\ extent' = extent
    /\ isosize' = isosize /\ weight' = weight /\ hash' = hash /\ dw' = dw /\ tail' = tail /\ vol' = vol

LEMMA FixedStands ==
    ASSUME IInv, pc \in {"write", "files"}, Fixed
    PROVE  /\ Files' = Files /\ session_start' = session_start /\ (\A o : Has(o)' = Has(o))
           /\ Boot' = Boot /\ Early' = Early /\ Late' = Late /\ Streaming' = Streaming
           /\ Anchor' = Anchor
           /\ (\A name, n : SizeAfter(name, n)' = SizeAfter(name, n))
           /\ (\A names, n : Borders(names, n)' = Borders(names, n))
           /\ (\A names, n : SizesAfter(names, n)' = SizesAfter(names, n))
           /\ Start' = Start /\ Behind' = Behind /\ Arrival' = Arrival
           /\ Widths(dw)' = Widths(dw)
           /\ \A k : Place(k)' = Place(k)
           /\ \A n : StreamSize(n)' = StreamSize(n)
           /\ (Has("hfs") /\ (session_start # 0 \/ CutOff \/ PaddedAgain))' <=> (Has("hfs") /\ (session_start # 0 \/ CutOff \/ PaddedAgain))
<1>1. /\ Files' = Files /\ session_start' = session_start /\ (\A o : Has(o)' = Has(o))
      /\ Boot' = Boot /\ Early' = Early /\ Late' = Late /\ Streaming' = Streaming
      /\ (\A name, n : SizeAfter(name, n)' = SizeAfter(name, n))
      /\ (\A names, n : Borders(names, n)' = Borders(names, n))
      /\ (\A names, n : SizesAfter(names, n)' = SizesAfter(names, n))
  BY SameJob DEF Fixed
<1>3. Start' = Start /\ Behind' = Behind
  BY <1>1 DEF Fixed, Start, Behind
<1>4. /\ Arrival' = Arrival /\ Widths(dw)' = Widths(dw) /\ \A k : Place(k)' = Place(k)
      /\ (CutOff' <=> CutOff) /\ (PaddedAgain' <=> PaddedAgain)
  BY <1>3, PlanStands DEF Fixed
<1>5. \A n : StreamSize(n)' = StreamSize(n)
  BY DEF Fixed, StreamSize, StreamRoom, Avail, StreamPad, Has
<1> QED
  BY <1>1, <1>3, <1>4, <1>5 DEF Fixed, Anchor, SystemUse, Descriptors, Only, Has, Sun

\* The rest is kept when what the pass changes keeps its type.
LEMMA WritingKept ==
    ASSUME IInv, pc \in {"write", "files"}, Fixed, pc' \in {"write", "files", "ended"},
           how' \in Outcomes, pc' = "ended" <=> how' # "running",
           at' \in Nat, item' \in Nat, last_extent_written' \in Nat, image' \in Seq(Int \X Nat),
           now' \in [{Files[i].file : i \in DOMAIN Files} -> -1 .. MaxSize]
    PROVE  /\ Types' /\ Sizing' /\ Untouched' /\ Unwritten' /\ Assigning' /\ Rounds' /\ Planned'
           /\ Position' /\ Data' /\ Structures' /\ Outcome' => IInv'
<1>1. Types /\ Planned /\ Writes /\ TypeOK /\ Sizing
  BY WritingFacts DEF Types
<1>2. /\ Files' = Files /\ session_start' = session_start /\ (\A o : Has(o)' = Has(o))
      /\ Early' = Early /\ Late' = Late
      /\ (\A names, n : SizesAfter(names, n)' = SizesAfter(names, n))
      /\ Start' = Start /\ Behind' = Behind
  BY FixedStands
<1>3. /\ \A b : Plan(b)' <=> Plan(b)
      /\ (HeavyFirst' <=> HeavyFirst) /\ (NoVolume' <=> NoVolume) /\ (Whole(dw)' <=> Whole(dw))
      /\ (OfFiles(dw)' <=> OfFiles(dw)) /\ Nodes' = Nodes
  BY <1>2, PlanStands DEF Fixed
<1>4. TypeOK'
  <2>2. \A i \in DOMAIN frags' : frags'[i].name \in Names /\ frags'[i].start \in Nat
    BY <1>1 DEF TypeOK, Fixed
  <2>3. /\ extent' \in [DOMAIN Files' -> Nat] /\ isosize' \in [DOMAIN Files' -> 0..MaxSize]
        /\ weight' \in [DOMAIN Files' -> Nat \cup {NotSorted}]
        /\ \A f \in DOMAIN hash' : hash'[f].de \in {0} \cup DOMAIN Files'
        /\ \A k \in DOMAIN dw' : dw'[k].entry \in {0} \cup DOMAIN Files' /\ {dw'[k].size, dw'[k].pad} \subseteq Nat
    BY <1>1, <1>2 DEF TypeOK, Fixed
  <2>5. \A k \in DOMAIN image' : image'[k] \in Int \X Nat
    <3> DEFINE C == Int \X Nat
    <3>1. image' \in Seq(C)
      OBVIOUS
    <3> HIDE DEF C
    <3>2. \A k \in DOMAIN image' : image'[k] \in C
      BY <3>1
    <3> QED
      BY <3>2 DEF C
  <2>6. \A f \in DOMAIN now' : now'[f] \in -1..MaxSize
    <3> DEFINE D == {Files[i].file : i \in DOMAIN Files}
    <3> HIDE DEF D
    <3> QED
      BY DEF D
  <2> QED
    BY <1>1, <2>2, <2>3, <2>5, <2>6 DEF TypeOK, Fixed
<1>5. Types'
  BY <1>1, <1>2, <1>3, <1>4 DEF Types, Fixed
<1>6. Sizing' /\ Untouched'
  BY FragmentsStand DEF Fixed
<1>8. Planned'
  <2>1. /\ Len(frags) = Early + Len(Late)
        /\ \A k \in 1 .. Len(Late) : frags[Early + k] = [name |-> Late[k], start |-> 0]
        /\ \E b \in Nat : Plan(b) /\ last_extent = SizesAfter(Late, b)
        /\ HeavyFirst /\ (Has("hfs") \/ (NoVolume /\ Whole(dw)))
    BY <1>1 DEF Planned
  <2>2. \E b \in Nat : Plan(b)' /\ (last_extent = SizesAfter(Late, b))'
    <3>1. PICK b \in Nat : Plan(b) /\ last_extent = SizesAfter(Late, b)
      BY <2>1
    <3> QED
      BY <1>2, <1>3, <3>1 DEF Fixed
  <2>4. HeavyFirst' /\ (Has("hfs")' \/ (NoVolume' /\ Whole(dw)'))
    BY <1>2, <1>3, <2>1
  <2> QED
    BY <1>2, <2>1, <2>2, <2>4 DEF Fixed, Planned
<1> QED
  BY <1>5, <1>6, <1>8 DEF Unwritten, Assigning, Rounds, IInv

\* What is written: pairs of numbers, whole blocks of them.
Cell == Int \X Nat

LEMMA FillIs ==
    ASSUME NEW cell \in Cell, NEW n \in Nat
    PROVE  /\ Fill(cell, n) \in Seq(Cell) /\ Len(Fill(cell, n)) = n
           /\ \A k \in 1 .. n : Fill(cell, n)[k] = cell
<1> DEFINE f == Fill(cell, n)
<1>1. f = [k \in 1 .. n |-> cell]
  BY DEF Fill
<1> HIDE DEF f, Cell
<1>4. f \in Seq(Cell) /\ Len(f) = n
  BY <1>1, IsSeq
<1> QED
  BY <1>1, <1>4 DEF f

LEMMA CellsAre == Zero \in Cell /\ Junk \in Cell /\ \A a \in Nat, b \in Nat : <<a, b>> \in Cell
BY DEF Zero, Junk, Cell

LEMMA PutIs ==
    ASSUME NEW cells \in Seq(Cell), NEW n \in Nat, Len(cells) = n * Sector, Put(cells),
           image \in Seq(Cell), last_extent_written \in Nat, session_start \in Nat,
           last_extent_written >= session_start,
           Len(image) = (last_extent_written - session_start) * Sector,
           session_start' = session_start
    PROVE  /\ image' \in Seq(Cell) /\ last_extent_written' = last_extent_written + n
           /\ last_extent_written' \in Nat /\ last_extent_written' >= session_start
           /\ n * Sector \in Nat /\ Len(image) \in Nat /\ Len(image') = Len(image) + n * Sector
           /\ DOMAIN image' = 1 .. Len(image) + n * Sector /\ DOMAIN image = 1 .. Len(image)
           /\ Len(image') = (last_extent_written' - session_start') * Sector
           /\ \A k \in 1 .. Len(image) : image'[k] = image[k]
           /\ \A k \in 1 .. n * Sector : image'[Len(image) + k] = cells[k]
<1> HIDE DEF Cell
<1>1. Sector \in Nat \ {0}
  BY Parameters
<1>2. PICK m \in Nat : m = n * Sector
  BY <1>1, Product
<1>3. m \div Sector = n
  <2>1. PICK r \in 0 .. Sector - 1 : r = 0
    BY <1>1
  <2>2. m = n * Sector + r
    BY <1>2, <2>1
  <2> QED
    BY ONLY <1>1, <2>2, n \in Nat, r \in 0 .. Sector - 1, DivisionIs
<1>4. image' = image \o cells /\ last_extent_written' = last_extent_written + n
  BY <1>2, <1>3 DEF Put
<1>5. /\ image \o cells \in Seq(Cell) /\ Len(image \o cells) = Len(image) + Len(cells)
      /\ Len(image) \in Nat
      /\ \A i \in 1 .. Len(image) : (image \o cells)[i] = image[i]
      /\ \A i \in 1 .. Len(cells) : (image \o cells)[Len(image) + i] = cells[i]
  <2>1. image \in Seq(Cell) /\ cells \in Seq(Cell)
    OBVIOUS
  <2> QED
    BY ONLY <2>1, Joined
<1>6. PICK a \in Nat : a = last_extent_written - session_start
  OBVIOUS
<1>7. last_extent_written' - session_start' = a + n
  BY <1>4, <1>6
<1>8. (a + n) * Sector = a * Sector + n * Sector
  BY <1>1
<1>9. Len(image') = (last_extent_written' - session_start') * Sector
  BY <1>4, <1>5, <1>6, <1>7, <1>8
<1>10. DOMAIN image' = 1 .. Len(image) + m /\ DOMAIN image = 1 .. Len(image)
  BY <1>2, <1>4, <1>5
<1>11. /\ image' \in Seq(Cell) /\ Len(image) \in Nat /\ Len(image') = Len(image) + m
       /\ \A k \in 1 .. Len(image) : image'[k] = image[k]
       /\ \A k \in 1 .. m : image'[Len(image) + k] = cells[k]
  BY ONLY <1>2, <1>4, <1>5, Len(cells) = n * Sector
<1>12. last_extent_written' \in Nat /\ last_extent_written' >= session_start
  BY <1>4
<1> QED
  BY ONLY <1>2, <1>4, <1>9, <1>10, <1>11, <1>12

\* Nothing is written: what has been said of the image is still so.
LEMMA DataStands ==
    ASSUME IInv, pc \in {"write", "files"}, Fixed, image' = image, item' = item, now' = now
    PROVE  Data' /\ (at' = at => Structures')
<1>1. Data /\ Structures /\ Writes
  BY WritingFacts
<1>2. /\ Files' = Files /\ session_start' = session_start /\ (\A o : Has(o)' = Has(o))
      /\ Early' = Early /\ Streaming' = Streaming /\ Anchor' = Anchor /\ Start' = Start
      /\ Widths(dw)' = Widths(dw) /\ (\A k : Place(k)' = Place(k))
      /\ \A n : StreamSize(n)' = StreamSize(n)
  BY FixedStands
<1>3. Data'
  BY <1>1, <1>2 DEF Data, Fixed, Zero
<1>4. ASSUME at' = at PROVE Structures'
  BY <1>1, <1>2, <1>4 DEF Structures, Fixed
<1> QED
  BY <1>3, <1>4

\* At the end the blocks are counted.
LEMMA CountKept ==
    ASSUME IInv, pc = "write", at > Len(frags), Fixed, pc' = "ended",
           how' = (IF last_extent = last_extent_written THEN "written" ELSE "botch"),
           image' = image, item' = item, now' = now, at' = at, last_extent_written' = last_extent_written
    PROVE  IInv'
<1>1. /\ job \in Jobs /\ Types /\ Planned /\ Position /\ Writes
      /\ Early \in Nat /\ Early >= 3 /\ Len(Late) \in Nat /\ Len(frags) = Early + Len(Late)
      /\ Arrival \in Nat /\ at \in Nat /\ last_extent \in Nat /\ last_extent_written \in Nat /\ item \in Nat
      /\ image \in Seq(Int \X Nat) /\ session_start \in Nat
  BY WritingFacts
<1>2. /\ at - Early \in 1 .. Len(Late) + 1
      /\ last_extent_written = Borders(Late, Arrival)[at - Early - 1]
      /\ item = IF Streaming THEN 0 ELSE Len(dw) + 1
      /\ ~ (Has("hfs") /\ session_start # 0)
      /\ last_extent_written >= session_start
      /\ Len(image) = (last_extent_written - session_start) * Sector
  BY <1>1 DEF Position
<1>3. at = Len(frags) + 1 /\ at - Early - 1 = Len(Late)
  <2>1. PICK e \in Nat, l \in Nat, a \in Nat : e = Early /\ l = Len(Late) /\ a = at
    BY <1>1
  <2>2. a > e + l /\ a - e \in 1 .. l + 1
    BY <1>1, <1>2, <2>1
  <2>3. a = e + l + 1 /\ a - e - 1 = l
    BY <2>2
  <2> QED
    BY <1>1, <2>1, <2>3
<1>6. /\ how' \in Outcomes /\ how' # "running"
  BY DEF Outcomes
<1>7. Data' /\ Structures'
  BY DataStands
<1>8. /\ session_start' = session_start /\ (\A o : Has(o)' = Has(o))
      /\ Early' = Early /\ Late' = Late /\ Streaming' = Streaming
      /\ (\A names, n : Borders(names, n)' = Borders(names, n)) /\ Arrival' = Arrival
      /\ (Has("hfs") /\ (session_start # 0 \/ CutOff \/ PaddedAgain))' <=> (Has("hfs") /\ (session_start # 0 \/ CutOff \/ PaddedAgain))
  BY FixedStands
<1>10. Outcome'
  <2>1. CASE last_extent = last_extent_written
    BY <1>3, <2>1 DEF Outcome, BotchOnlyForHfs, ReadFailsForCause, Fixed
  <2>2. CASE last_extent # last_extent_written
    <3>1. PICK b \in Nat : Plan(b) /\ last_extent = SizesAfter(Late, b)
      BY <1>1 DEF Planned
    <3> QED
      BY <1>2, <1>3, <1>8, <2>2, <3>1
         DEF SizesAfter, Complete, Plan, Incomplete, BotchOnlyForHfs, Outcome, ReadFailsForCause
  <2> QED
    BY <2>1, <2>2
<1> QED
  BY <1>1, <1>2, <1>6, <1>7, <1>8, <1>10, WritingKept DEF Position, Fixed, Types

\* What can be relied on of the fragment that is to be written next.
LEMMA NextFragment ==
    ASSUME IInv, pc = "write", at <= Len(frags)
    PROVE  /\ at \in 1 .. Len(frags)
           /\ at <= Early =>
                /\ frags[at].name = Fragments[at] /\ frags[at].start \in Nat
                /\ frags[at].start >= session_start /\ item = 0
                /\ at = 2 /\ Has("hfs") =>
                     /\ frags[at].start = session_start /\ last_extent_written = session_start + vol.csize
                     /\ frags[at].name = "startpad"
                /\ ~ (at = 2 /\ Has("hfs")) => last_extent_written = frags[at].start
                /\ frags[at].name = "startpad" => frags[at].start <= session_start + SystemArea
                /\ frags[at].name = "genboot" => frags[at].start \in {session_start, session_start + 1}
                /\ (frags[at].name = "hfs" <=> at = 1 /\ Has("hfs"))
                /\ frags[at].name = "hfs" => frags[at].start = session_start
                /\ (frags[at].name = "files" <=> at = Early /\ ~ Streaming)
                /\ (frags[at].name = "strfile" <=> at = Early - 1 /\ Streaming)
                /\ at < Early => frags[at + 1].start = SizeAfter(frags[at].name, frags[at].start)
           /\ at > Early =>
                /\ at - Early \in 1 .. Len(Late) /\ frags[at].name = Late[at - Early]
                /\ frags[at].name \in Ordinary /\ frags[at].start = 0
                /\ last_extent_written = Borders(Late, Arrival)[at - Early - 1]
                /\ item = (IF Streaming THEN 0 ELSE Len(dw) + 1)
           /\ Has("hfs") /\ session_start # 0 => at <= 2
<1>1. /\ job \in Jobs /\ Sizing /\ Planned /\ Position /\ Writes
      /\ Early \in Nat /\ Early >= 3 /\ Len(Late) \in Nat /\ Len(frags) = Early + Len(Late)
      /\ at \in Nat /\ session_start \in Nat
  BY WritingFacts
<1>3. ASSUME at > Early
      PROVE  /\ at - Early \in 1 .. Len(Late) /\ frags[at].name = Late[at - Early]
             /\ frags[at].name \in Ordinary /\ frags[at].start = 0
             /\ last_extent_written = Borders(Late, Arrival)[at - Early - 1]
             /\ item = (IF Streaming THEN 0 ELSE Len(dw) + 1)
  <2>1. PICK j \in 1 .. Len(Late) : j = at - Early /\ at = Early + j
    BY <1>1, <1>3
  <2>2. frags[at] = [name |-> Late[j], start |-> 0]
    BY <1>1, <2>1 DEF Planned
  <2>3. Late[j] \in Ordinary
    <3> HIDE DEF Ordinary
    <3> QED
      BY <2>1, LateNames
  <2>5. frags[at].name = Late[j] /\ frags[at].start = 0
    BY <2>2
  <2>6. at - Early = j /\ at - Early \in 1 .. Len(Late)
    BY <2>1
  <2> QED
    BY <1>1, <1>3, <2>3, <2>5, <2>6 DEF Position
<1>4. at >= 1
  BY <1>1, <1>3 DEF Position
<1>5. ASSUME at <= Early
      PROVE  /\ frags[at].name = Fragments[at] /\ frags[at].start \in Nat
             /\ frags[at].start >= session_start /\ item = 0
             /\ at = 2 /\ Has("hfs") =>
                  /\ frags[at].start = session_start /\ last_extent_written = session_start + vol.csize
                  /\ frags[at].name = "startpad"
             /\ ~ (at = 2 /\ Has("hfs")) => last_extent_written = frags[at].start
             /\ frags[at].name = "startpad" => frags[at].start <= session_start + SystemArea
             /\ frags[at].name = "genboot" => frags[at].start \in {session_start, session_start + 1}
             /\ (frags[at].name = "hfs" <=> at = 1 /\ Has("hfs"))
             /\ frags[at].name = "hfs" => frags[at].start = session_start
             /\ (frags[at].name = "files" <=> at = Early /\ ~ Streaming)
             /\ (frags[at].name = "strfile" <=> at = Early - 1 /\ Streaming)
             /\ at < Early => frags[at + 1].start = SizeAfter(frags[at].name, frags[at].start)
  <2>1. at \in 1 .. Early
    BY <1>1, <1>4, <1>5
  <2>2. Sized(Early) /\ \A k \in 1 .. Early : frags[k].name = Fragments[k]
    BY <1>1 DEF Sizing
  <2>3. /\ frags[at].start \in Nat /\ frags[at].start >= session_start
        /\ frags[at].name = "hfs" => frags[at].start = session_start
        /\ at = 2 /\ Has("hfs") => frags[at].start = session_start
        /\ frags[at].name = "startpad" => frags[at].start <= session_start + SystemArea
        /\ frags[at].name = "genboot" => frags[at].start \in {session_start, session_start + 1}
    <3>1. PICK n \in 0 .. Early : n = Early
      BY <1>1
    <3> QED
      BY <1>1, <2>1, <2>2, <3>1, Starts
  <2>4. /\ Has("hfs") => Fragments[1] = "hfs" /\ Fragments[2] = "startpad"
        /\ Fragments[at] = "hfs" => at = 1 /\ Has("hfs")
        /\ Fragments[at] = "files" <=> at = Early /\ ~ Streaming
        /\ Fragments[at] = "strfile" <=> at = Early - 1 /\ Streaming
    BY <1>1, <2>1, Shape
  <2>6. ASSUME at < Early PROVE frags[at + 1].start = SizeAfter(frags[at].name, frags[at].start)
    <3>3. PICK k \in 1 .. Early : k = at + 1
      BY <1>1, <2>1, <2>6
    <3>5. k # 1 /\ k - 1 = at
      BY <1>1, <3>3, <2>1
    <3>4. frags[k].start = SizeAfter(frags[k - 1].name, frags[k - 1].start)
      BY <2>2, <3>5 DEF Sized
    <3> QED
      BY <3>3, <3>4, <3>5
  <2>7. at < Early => frags[at + 1].start = SizeAfter(frags[at].name, frags[at].start)
    BY <2>6
  <2>8. frags[at].name = Fragments[at]
    BY <2>1, <2>2
  <2> QED
    BY <1>1, <1>5, <2>1, <2>3, <2>4, <2>7, <2>8 DEF Position
<1> QED
  BY <1>1, <1>3, <1>4, <1>5 DEF Position

\* A fragment that does not start where it should.
LEMMA BotchKept ==
    ASSUME IInv, pc = "write", at <= Len(frags), frags[at].start \notin {0, last_extent_written}, Fixed,
           pc' = "ended", how' = "botch",
           image' = image, item' = item, now' = now, at' = at, last_extent_written' = last_extent_written
    PROVE  IInv'
<1>1. /\ job \in Jobs /\ Types /\ at \in Nat /\ last_extent_written \in Nat /\ item \in Nat
      /\ image \in Seq(Int \X Nat) /\ session_start \in Nat
  BY WritingFacts
<1>2. at <= Early /\ at = 2 /\ Has("hfs") /\ frags[at].start = session_start
  <2>1. Early \in Nat
    BY WritingFacts
  <2>2. ~ (at > Early)
    BY NextFragment
  <2> QED
    BY <1>1, <2>1, <2>2, NextFragment
<1>7. how' \in Outcomes
  BY DEF Outcomes
<1> QED
  BY <1>1, <1>2, <1>7, FixedStands, WritingKept, Failed
     DEF Types, Outcome, BotchOnlyForHfs, ReadFailsForCause

\* The image gets longer.
Longer ==
    /\ image' \in Seq(Int \X Nat) /\ Len(image) <= Len(image')
    /\ \A p \in 1 .. Len(image) : image'[p] = image[p]

\* The data are kept then.
LEMMA DataKept ==
    ASSUME IInv, pc \in {"write", "files"}, Fixed, Longer, item' \in Nat, item <= item',
           \A f \in DOMAIN now : now[f] # -1 => now'[f] = now[f],
           \A k \in 1 .. item' - 1 : k >= item /\ dw[k].entry # 0 =>
             LET f == Files[dw[k].entry].file
             IN /\ now'[f] # -1 /\ Place(k) + dw[k].size <= Len(image')
                /\ \A u \in 0 .. dw[k].size - 1 :
                     image'[Place(k) + u + 1] = IF u < now'[f] THEN <<f, u>> ELSE Zero,
           ~ Streaming => \A p \in 1 .. Len(image') : p > Len(image) /\ image'[p][1] > 0 =>
             \E k \in 1 .. item' - 1 : /\ dw[k].entry # 0 /\ Files[dw[k].entry].file = image'[p][1]
                                       /\ p = Place(k) + image'[p][2] + 1
    PROVE  Data'
<1>1. /\ Data /\ Writes /\ item \in Nat /\ Len(image) \in Nat /\ job \in Jobs
      /\ image \in Seq(Int \X Nat)
      /\ dw \in Nodes /\ DOMAIN Files = 1 .. Len(Files) /\ DOMAIN dw = 1 .. Len(dw)
      /\ Types /\ Len(Files) \in Nat /\ Position
  BY WritingFacts
<1>2. /\ Files' = Files /\ Streaming' = Streaming /\ Widths(dw)' = Widths(dw)
      /\ (\A k : Place(k)' = Place(k))
  BY FixedStands
<1>3. Len(image') \in Nat /\ DOMAIN image' = 1 .. Len(image') /\ DOMAIN image = 1 .. Len(image)
  BY <1>1 DEF Longer
<1>4. item <= Len(dw) + 1
  <2>1. Len(dw) \in Nat /\ Early \in Nat
    BY WritingFacts
  <2> QED
    BY <1>1, <2>1 DEF Position
<1>5. ASSUME NEW k \in 1 .. item' - 1, dw[k].entry # 0
      PROVE  LET f == Files[dw[k].entry].file
             IN /\ now'[f] # -1 /\ Place(k) + dw[k].size <= Len(image')
                /\ \A u \in 0 .. dw[k].size - 1 :
                     image'[Place(k) + u + 1] = IF u < now'[f] THEN <<f, u>> ELSE Zero
  <2>1. CASE k >= item
    BY <1>5, <2>1
  <2>2. CASE k < item
    <3>1. k \in 1 .. item - 1 /\ k \in 1 .. Len(dw)
      <4>1. Len(dw) \in Nat
        BY WritingFacts
      <4> QED
        BY <1>1, <1>4, <2>2, <4>1
    <3>2. dw[k].entry \in 1 .. Len(Files) /\ dw[k].size \in Nat
      BY <1>1, <1>5, <3>1, Nodes1
    <3>3. PICK f : f = Files[dw[k].entry].file
      OBVIOUS
    <3>4. f \in DOMAIN now
      BY <1>1, <3>2, <3>3 DEF Types
    <3>5. /\ now[f] # -1 /\ Place(k) + dw[k].size <= Len(image)
          /\ \A u \in 0 .. dw[k].size - 1 :
               image[Place(k) + u + 1] = IF u < now[f] THEN <<f, u>> ELSE Zero
      BY <1>1, <1>5, <3>1, <3>3 DEF Data
    <3>6. now'[f] = now[f]
      BY <3>4, <3>5
    <3>7. Place(k) \in Nat
      <4>1. /\ Start \in Nat /\ session_start \in Nat /\ Start >= session_start /\ vol.pad \in Nat
        BY WritingFacts
      <4>2. k - 1 \in 0 .. Len(dw) /\ Sums(Widths(dw))[k - 1] \in Nat
        BY <1>1, <3>1, WidthsAre
      <4>3. PICK a \in Nat : a = Start + vol.pad + Sums(Widths(dw))[k - 1] - session_start
        BY <4>1, <4>2
      <4> QED
        BY <4>3, Parameters, Product DEF Place
    <3>8. PICK q \in Nat, s \in Nat : q = Place(k) /\ s = dw[k].size
      BY <3>2, <3>7
    <3>9. q + s <= Len(image')
      BY <1>1, <1>3, <3>5, <3>8 DEF Longer
    <3>10. ASSUME NEW u \in 0 .. s - 1
           PROVE  image'[q + u + 1] = IF u < now'[f] THEN <<f, u>> ELSE Zero
      <4>0. PICK l \in Nat : l = Len(image)
        BY <1>1
      <4>3. q + s <= l
        BY <3>5, <3>8, <4>0
      <4>1. q + u + 1 \in 1 .. Len(image)
        BY <4>0, <4>3
      <4> QED
        BY <3>5, <3>6, <3>8, <4>1 DEF Longer
    <3> QED
      BY <3>3, <3>5, <3>6, <3>8, <3>9, <3>10
  <2> QED
    BY <1>1, <2>1, <2>2
<1>6. ASSUME ~ Streaming, NEW p \in 1 .. Len(image'), image'[p][1] > 0
      PROVE  \E k \in 1 .. item' - 1 : /\ dw[k].entry # 0 /\ Files[dw[k].entry].file = image'[p][1]
                                       /\ p = Place(k) + image'[p][2] + 1
  <2>1. CASE p > Len(image)
    BY <1>6, <2>1
  <2>2. CASE p <= Len(image)
    <3>1. p \in DOMAIN image /\ image'[p] = image[p]
      BY <1>1, <1>3, <2>2 DEF Longer
    <3>2. \E k \in 1 .. item - 1 : /\ dw[k].entry # 0 /\ Files[dw[k].entry].file = image[p][1]
                                   /\ p = Place(k) + image[p][2] + 1
      BY <1>1, <1>6, <3>1 DEF Data
    <3>3. 1 .. item - 1 \subseteq 1 .. item' - 1
      <4>1. PICK i \in Nat, j \in Nat : i = item /\ j = item' /\ i <= j
        BY <1>1
      <4>2. i <= j
        BY <4>1
      <4>3. \A x \in 1 .. i - 1 : x \in 1 .. j - 1
        BY ONLY <4>2, i \in Nat, j \in Nat
      <4> QED
        BY <4>1, <4>3
    <3> QED
      BY <3>1, <3>2, <3>3
  <2>3. p > Len(image) \/ p <= Len(image)
    <3>1. PICK l \in Nat : l = Len(image)
      BY <1>1
    <3>3. p > l \/ p <= l
      BY <1>3
    <3> QED
      BY <3>1, <3>3
  <2> QED
    BY <2>1, <2>2, <2>3
<1>7. \A k \in 1 .. item' - 1 : dw'[k].entry # 0 =>
           LET f == Files'[dw'[k].entry].file
           IN /\ now'[f] # -1 /\ Place(k)' + dw'[k].size <= Len(image')
              /\ \A u \in 0 .. dw'[k].size - 1 :
                   image'[Place(k)' + u + 1] = IF u < now'[f] THEN <<f, u>> ELSE Zero
  BY <1>2, <1>5 DEF Fixed
<1>8. ~ Streaming' => \A p \in DOMAIN image' : image'[p][1] > 0 =>
           \E k \in 1 .. item' - 1 : /\ dw'[k].entry # 0 /\ Files'[dw'[k].entry].file = image'[p][1]
                                     /\ p = Place(k)' + image'[p][2] + 1
  BY <1>2, <1>3, <1>6 DEF Fixed
<1> QED
  BY <1>2, <1>7, <1>8 DEF Data, Zero

\* The stream: what there is room for.
LEMMA StreamIs ==
    ASSUME job \in Jobs, NEW n \in Nat
    PROVE  /\ StreamSize(n) \in Nat /\ StreamSize(n) <= job.input
           /\ Avail(n) \in Nat /\ StreamPad(n) \in Nat
           /\ StreamSize(n) <= (Avail(n) + StreamPad(n)) * Sector
           /\ (Avail(n) + StreamPad(n)) * Sector \in Nat
<1>1. /\ Avail(n) \in Nat /\ StreamPad(n) \in Nat /\ Sector \in Nat \ {0} /\ Word \in Nat \ {0}
      /\ job.input \in Nat
  BY StreamNumbers, Parameters, JobFacts
<1>2. PICK a \in Nat : a = Avail(n) * Sector
  BY <1>1, Product
<1>3. a % Word \in Nat /\ a % Word <= a
  <2>1. PICK q \in Nat, r \in 0 .. Word - 1 : q = a \div Word /\ r = a % Word /\ a = q * Word + r
    BY <1>1, Division
  <2> QED
    BY <1>1, <2>1, Product
<1>4. PICK w \in Nat : w = a % Word /\ w <= a
  BY <1>3
<1>5. PICK v \in Nat : v = Max({w - 1, 0}) /\ v <= w
  BY MaxIs
<1>6. v \div Sector \in Nat /\ (v \div Sector) * Sector \in Nat /\ (v \div Sector) * Sector <= v
  <2>1. PICK q \in Nat, r \in 0 .. Sector - 1 : q = v \div Sector /\ r = v % Sector /\ v = q * Sector + r
    BY <1>1, Division
  <2> QED
    BY <1>1, <2>1, Product
<1>7. PICK r \in Nat : r = (v \div Sector) * Sector /\ r <= a
  BY <1>4, <1>5, <1>6
<1>8. StreamSize(n) = Min({job.input, r})
  BY <1>2, <1>4, <1>5, <1>7 DEF StreamSize, StreamRoom
<1> QED
  BY <1>1, <1>2, <1>7, <1>8, MinIs, Product

\* The other structures are kept as far as they were there, and follow from
\* what of them comes now.
LEMMA StructuresKept ==
    ASSUME IInv, pc \in {"write", "files"}, Fixed, Longer, at' \in Nat,
           Has("udf") /\ at' > Anchor /\ ~ (at > Anchor) =>
             Udf256 * Sector < Len(image') /\ image'[Udf256 * Sector + 1] = <<0, Anchor>>,
           at' > Early + 1 /\ frags[at' - 1].name \in {"end_anchor", "padend_avdp"} =>
             image' # <<>> /\ Last(image') = <<0, at' - 1>>,
           Has("hfs") /\ at' > Early /\ ~ (at > Early) =>
             LET first == (Start + vol.pad + Total(Widths(dw)) - session_start) * Sector
             IN /\ first + vol.extra * Sector <= Len(image')
                /\ \A k \in 0 .. vol.extra * Sector - 1 : image'[first + k + 1] = <<0, Early>>,
           Streaming /\ at' > Early - 1 /\ ~ (at > Early - 1) =>
             LET first == (frags[Early - 1].start - session_start) * Sector
                 size == StreamSize(frags[Early - 1].start)
             IN /\ first + size <= Len(image')
                /\ \A k \in 0 .. size - 1 : image'[first + k + 1] = <<1, k>>
    PROVE  Structures'
<1>1. /\ Structures /\ Writes /\ Len(image) \in Nat /\ job \in Jobs /\ image \in Seq(Int \X Nat)
      /\ Types /\ Early \in Nat /\ Early >= 3 /\ session_start \in Nat
  BY WritingFacts
<1>2. /\ session_start' = session_start /\ (\A o : Has(o)' = Has(o))
      /\ Early' = Early /\ Streaming' = Streaming /\ Anchor' = Anchor /\ Start' = Start
      /\ Widths(dw)' = Widths(dw)
      /\ \A n : StreamSize(n)' = StreamSize(n)
  BY FixedStands
<1>3. PICK l \in Nat, m \in Nat : l = Len(image) /\ m = Len(image') /\ l <= m
  BY <1>1 DEF Longer
<1>4. ASSUME Has("udf"), at' > Anchor
      PROVE  Udf256 * Sector < Len(image') /\ image'[Udf256 * Sector + 1] = <<0, Anchor>>
  <2>1. CASE at > Anchor
    <3>1. Udf256 * Sector < Len(image) /\ image[Udf256 * Sector + 1] = <<0, Anchor>>
      BY <1>1, <1>4, <2>1 DEF Structures
    <3>2. PICK q \in Nat : q = Udf256 * Sector
      BY Parameters, Product
    <3>3. q < l /\ q < m /\ q + 1 \in 1 .. l
      BY <1>3, <3>1, <3>2
    <3> QED
      BY <1>3, <3>1, <3>2, <3>3 DEF Longer
  <2> QED
    BY <1>4, <2>1
<1>5. ASSUME Has("hfs"), at' > Early
      PROVE  LET first == (Start + vol.pad + Total(Widths(dw)) - session_start) * Sector
             IN /\ first + vol.extra * Sector <= Len(image')
                /\ \A k \in 0 .. vol.extra * Sector - 1 : image'[first + k + 1] = <<0, Early>>
  <2>1. CASE at > Early
    <3>1. PICK first \in Nat, size \in Nat :
            /\ first = (Start + vol.pad + Total(Widths(dw)) - session_start) * Sector
            /\ size = vol.extra * Sector
      <4>1. /\ Start \in Nat /\ Start >= session_start /\ vol.pad \in Nat /\ vol.extra \in Nat
            /\ Total(Widths(dw)) \in Nat
        BY WritingFacts
      <4>2. PICK a \in Nat : a = Start + vol.pad + Total(Widths(dw)) - session_start
        BY <1>1, <4>1
      <4> QED
        BY <4>1, <4>2, Parameters, Product
    <3>2. /\ first + size <= l
          /\ \A k \in 0 .. size - 1 : image[first + k + 1] = <<0, Early>>
      BY <1>1, <1>3, <1>5, <2>1, <3>1 DEF Structures
    <3>3. first + size <= m
      BY <1>3, <3>2
    <3>4. ASSUME NEW k \in 0 .. size - 1 PROVE image'[first + k + 1] = <<0, Early>>
      <4>1. first + k + 1 \in 1 .. l
        BY <3>2
      <4> QED
        BY <1>3, <3>2, <4>1 DEF Longer
    <3> QED
      BY <1>3, <3>1, <3>3, <3>4
  <2> QED
    BY <1>5, <2>1
<1>6. ASSUME Streaming, at' > Early - 1
      PROVE  LET first == (frags[Early - 1].start - session_start) * Sector
                 size == StreamSize(frags[Early - 1].start)
             IN /\ first + size <= Len(image')
                /\ \A k \in 0 .. size - 1 : image'[first + k + 1] = <<1, k>>
  <2>1. CASE at > Early - 1
    <3>1. frags[Early - 1].start \in Nat /\ frags[Early - 1].start >= session_start
      <4>2. \A k \in 1 .. Early : frags[k].start \in Nat /\ frags[k].start >= session_start
        BY <1>1, WritingFacts, Behinds
      <4>3. Early - 1 \in 1 .. Early
        BY <1>1
      <4> QED
        BY <4>2, <4>3
    <3>2. PICK start \in Nat : start = frags[Early - 1].start
      BY <3>1
    <3>3. PICK first \in Nat : first = (start - session_start) * Sector
      <4>1. PICK a \in Nat : a = start - session_start
        BY <1>1, <3>1, <3>2
      <4> QED
        BY <4>1, Parameters, Product
    <3>4. PICK size \in Nat : size = StreamSize(start)
      BY <1>1, StreamIs
    <3>5. /\ first + size <= l
          /\ \A k \in 0 .. size - 1 : image[first + k + 1] = <<1, k>>
      BY <1>1, <1>3, <1>6, <2>1, <3>2, <3>3, <3>4 DEF Structures
    <3>6. first + size <= m
      BY <1>3, <3>5
    <3>7. ASSUME NEW k \in 0 .. size - 1 PROVE image'[first + k + 1] = <<1, k>>
      <4>1. first + k + 1 \in 1 .. l
        BY <3>5
      <4> QED
        BY <1>3, <3>5, <4>1 DEF Longer
    <3> QED
      BY <1>3, <3>2, <3>3, <3>4, <3>6, <3>7
  <2> QED
    BY <1>6, <2>1
<1>7. frags' = frags /\ vol' = vol /\ Total(Widths(dw))' = Total(Widths(dw))
      /\ StreamSize(frags[Early - 1].start)' = StreamSize(frags[Early - 1].start)
  BY <1>2 DEF Fixed
<1>11. Streaming' /\ at' > Early' - 1 =>
           LET first == (frags'[Early' - 1].start - session_start') * Sector
               size == StreamSize(frags[Early - 1].start)'
           IN /\ first + size <= Len(image')
              /\ \A k \in 0 .. size - 1 : image'[first + k + 1] = <<1, k>>
  BY <1>2, <1>6, <1>7
<1> QED
  BY <1>2, <1>4, <1>5, <1>7, <1>11 DEF Structures

\* The fragment of the files begins with what is left free in front of them.
LEMMA FilesBegin ==
    ASSUME IInv, pc = "write", at <= Len(frags), frags[at].start \in {0, last_extent_written}, Fixed,
           frags[at].name = "files", pc' = "files", item' = 1,
           Put(Fill(Zero, vol.pad * Sector)), at' = at, how' = how, now' = now
    PROVE  IInv'
<1>1. /\ job \in Jobs /\ Types /\ Position /\ Data /\ Writes /\ how = "running"
      /\ Early \in Nat /\ Early >= 3 /\ Start \in Nat /\ session_start \in Nat /\ Start >= session_start
      /\ dw \in Nodes /\ Len(dw) \in Nat /\ vol.pad \in Nat
      /\ at \in Nat /\ last_extent_written \in Nat /\ last_extent_written >= session_start
      /\ image \in Seq(Int \X Nat) /\ Len(image) \in Nat
      /\ Len(image) = (last_extent_written - session_start) * Sector
  BY WritingFacts
<1>2. at = Early /\ ~ Streaming /\ item = 0 /\ last_extent_written = frags[at].start
  BY <1>1, NextFragment DEF Ordinary
<1>3. ~ (Has("hfs") /\ session_start # 0)
  BY <1>1, <1>2, NextFragment
<1>4. PICK n \in Nat : n = vol.pad
  BY <1>1
<1>5. /\ session_start' = session_start /\ (\A o : Has(o)' = Has(o))
      /\ Early' = Early /\ Late' = Late /\ Streaming' = Streaming /\ Start' = Start
      /\ Widths(dw)' = Widths(dw) /\ Anchor' = Anchor
  BY FixedStands
<1>6. /\ image' \in Seq(Cell) /\ last_extent_written' = last_extent_written + n
      /\ last_extent_written' \in Nat /\ last_extent_written' >= session_start
      /\ n * Sector \in Nat /\ Len(image') = Len(image) + n * Sector
      /\ DOMAIN image' = 1 .. Len(image) + n * Sector
      /\ Len(image') = (last_extent_written' - session_start') * Sector
      /\ \A k \in 1 .. Len(image) : image'[k] = image[k]
      /\ \A k \in 1 .. n * Sector : image'[Len(image) + k] = Zero
  <2> DEFINE cells == Fill(Zero, n * Sector)
  <2>2. PICK m \in Nat : m = n * Sector
    BY Parameters, Product
  <2>4. cells \in Seq(Cell) /\ Len(cells) = n * Sector /\ \A k \in 1 .. n * Sector : cells[k] = Zero
    BY <2>2, CellsAre, FillIs
  <2>5. Put(cells)
    BY <1>4
  <2>6. image \in Seq(Cell)
    BY <1>1 DEF Cell
  <2> HIDE DEF cells
  <2>7. /\ image' \in Seq(Cell) /\ last_extent_written' = last_extent_written + n
        /\ last_extent_written' \in Nat /\ last_extent_written' >= session_start
        /\ n * Sector \in Nat /\ Len(image') = Len(image) + n * Sector
        /\ DOMAIN image' = 1 .. Len(image) + n * Sector
        /\ Len(image') = (last_extent_written' - session_start') * Sector
        /\ \A k \in 1 .. Len(image) : image'[k] = image[k]
        /\ \A k \in 1 .. n * Sector : image'[Len(image) + k] = cells[k]
    BY <1>1, <1>5, <2>4, <2>5, <2>6, PutIs
  <2> QED
    BY <2>4, <2>7
<1>7. Longer
  <2>2. Len(image) <= Len(image')
    BY <1>1, <1>6
  <2> QED
    BY <1>6, <2>2 DEF Cell, Longer
<1>8. Data'
  <2>2. \A p \in 1 .. Len(image') : ~ (p > Len(image) /\ image'[p][1] > 0)
    <3> SUFFICES ASSUME NEW p \in 1 .. Len(image'), p > Len(image) PROVE ~ (image'[p][1] > 0)
      OBVIOUS
    <3>1. PICK l \in Nat, m \in Nat : l = Len(image) /\ m = n * Sector
      BY <1>1, <1>6
    <3>2. p \in 1 .. l + m /\ p > l
      BY <1>6, <3>1
    <3>3. PICK k \in 1 .. m : p = l + k
      <4>1. p - l \in 1 .. m /\ p = l + (p - l)
        BY <3>2
      <4> QED
        BY <4>1
    <3>4. image'[p] = Zero
      BY <1>6, <3>1, <3>3
    <3> QED
      BY <3>4 DEF Zero
  <2> QED
    BY <1>2, <1>7, <2>2, DataKept
<1>9. Structures'
  BY <1>1, <1>2, <1>7, StructuresKept
<1>10. Position'
  <2>1. Sums(Widths(dw))[0] = 0
    BY <1>1, WidthsAre
  <2>2. last_extent_written' = Start + vol.pad + Sums(Widths(dw))[item' - 1]
    <3>1. last_extent_written = Start
      BY <1>2 DEF Start
    <3>2. item' - 1 = 0
      OBVIOUS
    <3> QED
      BY <1>1, <1>4, <1>6, <2>1, <3>1, <3>2
  <2>3. item' \in 1 .. Len(dw') + 1 /\ at' <= Early' /\ at' = Early'
    BY <1>1, <1>2, <1>5 DEF Fixed
  <2> QED
    BY <1>1, <1>2, <1>3, <1>5, <1>6, <2>2, <2>3 DEF Fixed, Position
<1>11. Outcome'
  BY <1>1 DEF Outcome, BotchOnlyForHfs, ReadFailsForCause
<1>12. now \in [{Files[i].file : i \in DOMAIN Files} -> -1 .. MaxSize]
  BY <1>1 DEF Types
<1>13. image' \in Seq(Int \X Nat)
  BY <1>7 DEF Longer
<1>14. how' \in Outcomes /\ how' = "running"
  BY <1>1 DEF Outcomes
<1> QED
  BY <1>1, <1>6, <1>8, <1>9, <1>10, <1>11, <1>12, <1>13, <1>14, WritingKept

\* The blocks that the next fragment writes, and where they end.
Next1 == IF frags[at].name = "strfile"
         THEN Avail(last_extent_written) + StreamPad(last_extent_written)
         ELSE BlocksWritten(frags[at].name, last_extent_written)

LEMMA NextBlocks ==
    ASSUME IInv, pc = "write", at <= Len(frags), frags[at].start \in {0, last_extent_written},
           frags[at].name # "files"
    PROVE  /\ Next1 \in Nat
           /\ at = 1 /\ Has("hfs") => last_extent_written + Next1 = session_start + vol.csize
           /\ ~ (at = 1 /\ Has("hfs")) =>
                /\ at < Early => last_extent_written + Next1 = frags[at + 1].start
                /\ at = Early => Streaming /\ last_extent_written + Next1 = Behind
                /\ at > Early => last_extent_written + Next1 = Borders(Late, Arrival)[at - Early]
           /\ Has("hfs") /\ session_start # 0 => at = 1
           /\ at <= Early /\ ~ (at <= 2 /\ Has("hfs")) => last_extent_written = frags[at].start
<1>1. /\ job \in Jobs /\ Early \in Nat /\ Early >= 3 /\ session_start \in Nat /\ at \in Nat
      /\ vol.csize \in Nat \ {0} /\ vol.csize <= SystemArea /\ Len(Late) \in Nat
      /\ last_extent_written \in Nat /\ Arrival \in Nat
  BY WritingFacts
<1>3. PICK n \in Nat : n = last_extent_written
  BY <1>1
<1>4. SystemArea \in Nat \ {0}
  BY Parameters
<1>5. CASE at = 1 /\ Has("hfs")
  <2>2. BlocksWritten("hfs", n) = Min({Header(vol.csize), SystemArea})
    BY BlocksWrittenOf
  <2>3. PICK c \in Nat : c = vol.csize /\ c <= SystemArea
    BY <1>1
  <2>4. Min({c, SystemArea}) = c
    BY <1>4, <2>3, MinIs
  <2> QED
    BY <1>1, <1>3, <1>5, <2>2, <2>3, <2>4, NextFragment DEF Next1, Header
<1>6. CASE at = 2 /\ Has("hfs")
  <2>1. /\ at <= Early /\ frags[at].name = "startpad" /\ frags[at].start = session_start
        /\ last_extent_written = session_start + vol.csize
    BY <1>1, <1>6, NextFragment
  <2>2. session_start = 0
    BY <1>1, <2>1
  <2>3. BlocksWritten("startpad", n) = session_start + SystemArea - n
    BY BlocksWrittenOf
  <2>4. SizeAfter("startpad", session_start) = session_start + SystemArea
    BY <1>1, SizeAfterOf
  <2>5. Next1 = session_start + SystemArea - n
    BY <1>3, <2>1, <2>3 DEF Next1
  <2>6. PICK c \in Nat : c = vol.csize /\ c <= SystemArea
    BY <1>1
  <2>7. Next1 \in Nat /\ n + Next1 = session_start + SystemArea
    <3>1. PICK s \in Nat : s = session_start
      BY <1>1
    <3>2. n = s + c /\ Next1 = s + SystemArea - n
      BY <1>3, <2>1, <2>5, <2>6, <3>1
    <3>3. Next1 = SystemArea - c /\ n + Next1 = s + SystemArea
      BY <1>4, <3>2
    <3> QED
      BY <1>4, <2>6, <3>1, <3>3
  <2>8. at < Early
    BY <1>1, <1>6
  <2>9. frags[at + 1].start = SizeAfter(frags[at].name, frags[at].start)
    BY <2>1, <2>8, NextFragment
  <2>11. ~ (at = 1) /\ ~ (at = Early) /\ ~ (at > Early)
    BY <1>1, <1>6, <2>8
  <2> QED
    BY <1>3, <1>6, <2>1, <2>2, <2>4, <2>7, <2>9, <2>11
<1>7. CASE ~ (at <= 2 /\ Has("hfs"))
  <2>1. ~ (at = 1 /\ Has("hfs")) /\ ~ (at = 2 /\ Has("hfs"))
    BY <1>7
  <2>3. at <= Early => frags[at].name = Fragments[at] /\ last_extent_written = frags[at].start
    BY <2>1, NextFragment
  <2>4. frags[at].name \notin {"hfs", "files"}
    <3>1. CASE at <= Early
      BY <2>1, <3>1, NextFragment
    <3>2. CASE at > Early
      BY <3>2, NextFragment DEF Ordinary
    <3> QED
      BY <1>1, <3>1, <3>2
  <2>5. Next1 \in Nat /\ n + Next1 = SizeAfter(frags[at].name, n)
    <3>1. CASE frags[at].name = "strfile"
      <4>2. SizeAfter("strfile", n) = n + Avail(n) + StreamPad(n)
        BY SizeAfterOf
      <4>3. Avail(n) \in Nat /\ StreamPad(n) \in Nat
        BY <1>1, StreamNumbers
      <4> QED
        BY <1>3, <3>1, <4>2, <4>3 DEF Next1
    <3>2. CASE frags[at].name # "strfile"
      <4>2. /\ frags[at].name = "startpad" => n <= session_start + SystemArea
            /\ frags[at].name = "genboot" => n \in {session_start, session_start + 1}
        <5>1. CASE at <= Early
          BY <1>3, <2>3, <5>1, NextFragment
        <5>2. CASE at > Early
          BY <5>2, NextFragment DEF Ordinary
        <5> QED
          BY <1>1, <5>1, <5>2
      <4>3. PICK name : name = frags[at].name
        OBVIOUS
      <4>5. BlocksWritten(name, n) \in Nat /\ n + BlocksWritten(name, n) = SizeAfter(name, n)
        BY <1>1, <2>4, <3>2, <4>2, <4>3, Writings
      <4> QED
        BY <1>3, <3>2, <4>3, <4>5 DEF Next1
    <3> QED
      BY <3>1, <3>2
  <2>6. at < Early => last_extent_written + Next1 = frags[at + 1].start
    <3>1. ASSUME at < Early PROVE frags[at + 1].start = SizeAfter(frags[at].name, n)
      BY <1>1, <1>3, <2>3, <3>1, NextFragment
    <3> QED
      BY <1>3, <2>5, <3>1
  <2>7. at = Early => Streaming /\ last_extent_written + Next1 = Behind
    <3>1. ASSUME at = Early PROVE Streaming /\ Behind = SizeAfter(frags[at].name, n)
      BY <1>1, <1>3, <2>3, <3>1, NextFragment DEF Behind, Start
    <3> QED
      BY <1>3, <2>5, <3>1
  <2>8. at > Early => last_extent_written + Next1 = Borders(Late, Arrival)[at - Early]
    <3>1. ASSUME at > Early PROVE Borders(Late, Arrival)[at - Early] = SizeAfter(frags[at].name, n)
      <4>1. /\ at - Early \in 1 .. Len(Late) /\ frags[at].name = Late[at - Early]
            /\ last_extent_written = Borders(Late, Arrival)[at - Early - 1]
        BY <3>1, NextFragment
      <4>2. PICK k \in 1 .. Len(Late) : k = at - Early
        BY <4>1
      <4>4. Borders(Late, Arrival)[k] = SizeAfter(Late[k], Borders(Late, Arrival)[k - 1])
        <5>1. PICK names \in Seq(Names), b \in Nat : names = Late /\ b = Arrival
          BY <1>1, LateNames
        <5>2. job \in Jobs
          BY <1>1
        <5>3. \A i \in 1 .. Len(names) :
                Borders(names, b)[i] = SizeAfter(names[i], Borders(names, b)[i - 1])
          BY ONLY names \in Seq(Names), b \in Nat, <5>2, BordersAre
        <5> QED
          BY <5>1, <5>3
      <4> QED
        BY <1>3, <4>1, <4>2, <4>4
    <3> QED
      BY <1>3, <2>5, <3>1
  <2> QED
    BY <1>3, <1>7, <2>1, <2>3, <2>5, <2>6, <2>7, <2>8, NextFragment
<1>8. at <= 2 => at = 1 \/ at = 2
  BY NextFragment
<1> QED
  BY <1>5, <1>6, <1>7, <1>8

\* The anchor of a UDF volume lies where it is looked for.
LEMMA AnchorPlace ==
    ASSUME job \in Jobs, Has("udf"), Sized(Early), \A k \in 1 .. Early : frags[k].name = Fragments[k]
    PROVE  /\ Anchor \in Nat /\ Anchor > 3 /\ Anchor < Early /\ frags[Anchor].name = "anchor"
           /\ frags[Anchor].start = session_start + Udf256
<1>1. session_start \in Nat /\ ~ Streaming
  BY JobFacts
<1>22. \A n \in Nat :
         /\ SizeAfter("startpad", n) = session_start + SystemArea
         /\ SizeAfter("pad32", n) = Max({n, session_start + Udf32})
         /\ SizeAfter("pad256", n) = Max({n, session_start + Udf256})
         /\ SizeAfter("recognition", n) = n + 3
         /\ SizeAfter("main_seq", n) = n + MainSeq
         /\ SizeAfter("integ_seq", n) = n + 2
  BY SizeAfterOf
<1>2. PICK s \in 1 .. 3, p \in 2 .. 5 : s = Len(SystemUse) /\ p = Len(Preface)
  BY FragmentsAre, PrefaceIs
<1>3. Len(Descriptors) = p + 2 /\ Len(Udf) = 9
  BY <1>2, DescriptorsAre, UdfIs
<1>4. Early \in Nat /\ s + p + 11 < Early - 1 /\ Anchor = s + p + 8
  <2>1. Early \in Nat /\ Len(SystemUse) + Len(Descriptors) + Len(Udf) < Early - 1
    BY <1>1, FragmentsAre
  <2>2. PICK e \in Nat : e = Early
    BY <2>1
  <2>4. s + p + 11 < e - 1 /\ s + (p + 2) + 6 = s + p + 8
    BY <1>2, <1>3, <2>1, <2>2
  <2> QED
    BY <1>2, <1>3, <2>1, <2>2, <2>4 DEF Anchor
<1>5. /\ \A i \in 1 .. s : Fragments[i] = SystemUse[i]
      /\ \A i \in 1 .. p + 2 : Fragments[s + i] = Descriptors[i]
      /\ \A i \in 1 .. 9 : Fragments[s + (p + 2) + i] = Udf[i]
  BY <1>2, <1>3, FragmentsAre
<1>6. ASSUME NEW k \in 1 .. Early, k < Early
      PROVE  frags[k + 1].start = SizeAfter(Fragments[k], frags[k].start)
  <2>2. PICK i \in 1 .. Early : i = k + 1
    BY <1>4, <1>6
  <2>3. i # 1 /\ i - 1 = k
    BY <1>4, <2>2
  <2> QED
    BY <2>2, <2>3 DEF Sized
<1>7. \A k \in 1 .. Early : frags[k].start \in Nat
  <2>1. PICK n \in 0 .. Early : n = Early
    BY <1>4
  <2> QED
    BY <2>1, Starts
<1>8. PICK base \in Nat : base = session_start + SystemArea
  BY <1>1, Parameters
<1>9. frags[s + 1].start = base
  <2>1. Fragments[s] = "startpad"
    <3>1. SystemUse[Len(SystemUse)] = "startpad"
      <4>2. CASE SystemUse = <<"hfs", "startpad">>
        <5>1. PICK q : q = SystemUse
          OBVIOUS
        <5>3. Len(q) = 2 /\ q[2] = "startpad"
          BY <4>2, <5>1
        <5> QED
          BY <5>1, <5>3
      <4>3. CASE SystemUse = <<"sunlabel", "genboot", "startpad">>
        <5>1. PICK q : q = SystemUse
          OBVIOUS
        <5>3. Len(q) = 3 /\ q[3] = "startpad"
          BY <4>3, <5>1
        <5> QED
          BY <5>1, <5>3
      <4>4. CASE SystemUse = <<"sunlabel", "startpad">>
        <5>1. PICK q : q = SystemUse
          OBVIOUS
        <5>3. Len(q) = 2 /\ q[2] = "startpad"
          BY <4>4, <5>1
        <5> QED
          BY <5>1, <5>3
      <4>5. CASE SystemUse = <<"genboot", "startpad">>
        <5>1. PICK q : q = SystemUse
          OBVIOUS
        <5>3. Len(q) = 2 /\ q[2] = "startpad"
          BY <4>5, <5>1
        <5> QED
          BY <5>1, <5>3
      <4>6. CASE SystemUse = <<"startpad">>
        <5>1. PICK q : q = SystemUse
          OBVIOUS
        <5>3. Len(q) = 1 /\ q[1] = "startpad"
          BY <4>6, <5>1
        <5> QED
          BY <5>1, <5>3
      <4> QED
        BY <4>2, <4>3, <4>4, <4>5, <4>6, SystemUseIs
    <3>2. s \in 1 .. s
      OBVIOUS
    <3> QED
      BY <1>2, <1>5, <3>1, <3>2
  <2>2. s \in 1 .. Early /\ s < Early
    BY <1>4
  <2> QED
    <3>1. PICK n \in Nat : n = frags[s].start
      BY <1>7, <2>2
    <3>2. frags[s + 1].start = SizeAfter("startpad", n)
      BY <1>6, <2>1, <2>2, <3>1
    <3> QED
      BY <1>8, <1>22, <3>2
<1>10. ASSUME NEW i \in 1 .. p PROVE \A n \in Nat : SizeAfter(Fragments[s + i], n) = n + 1
  <2>1. Fragments[s + i] = Preface[i]
    <3>1. i \in 1 .. Len(Preface) /\ i \in 1 .. p + 2
      BY <1>2
    <3> QED
      BY <1>5, <3>1, DescriptorsAre
  <2>2. Preface[i] \in OneBlock
    <3> HIDE DEF OneBlock
    <3> QED
      BY <1>2, PrefaceIs
  <2> QED
    BY <2>1, <2>2, OtherSizes DEF OneBlock
<1>11. frags[s + p + 1].start = base + p
  <2> DEFINE S == {i \in Nat : i <= p => frags[s + i + 1].start = base + i}
  <2>1. 0 \in S
    BY <1>9
  <2>2. ASSUME NEW i \in Nat, i \in S PROVE i + 1 \in S
    <3> SUFFICES ASSUME i + 1 <= p PROVE frags[s + (i + 1) + 1].start = base + (i + 1)
      OBVIOUS
    <3>2. PICK j \in 1 .. p : j = i + 1
      OBVIOUS
    <3>5. SizeAfter(Fragments[s + j], base + i) = base + i + 1
      BY <1>10
    <3> QED
      BY <1>4, <1>6, <2>2, <3>2, <3>5
  <2> HIDE DEF S
  <2>3. \A n \in Nat : n \in S
    BY <2>1, <2>2, Inductive
  <2> QED
    BY <2>3 DEF S
<1>12. frags[s + p + 3].start = base + p + 4
  <2>1. Fragments[s + p + 1] = "recognition" /\ Fragments[s + p + 2] = "version"
    <3>2. Fragments[s + (p + 1)] = Descriptors[p + 1] /\ Fragments[s + (p + 2)] = Descriptors[p + 2]
      BY <1>5
    <3> QED
      BY <1>2, <3>2, DescriptorsAre
  <2>2. PICK k \in 1 .. Early : k = s + p + 1 /\ k < Early
    BY <1>4
  <2>4. SizeAfter("recognition", base + p) = base + p + 3
    <3>1. base + p \in Nat
      OBVIOUS
    <3> QED
      BY <1>22, <3>1
  <2>5. PICK j \in 1 .. Early : j = s + p + 2 /\ j < Early /\ j = k + 1
    BY <1>4, <2>2
  <2>6. frags[j + 1].start = SizeAfter("version", base + p + 3)
    BY <1>6, <1>11, <2>1, <2>2, <2>4, <2>5
  <2> QED
    BY <2>5, <2>6, OtherSizes
<1>13. /\ Fragments[s + p + 3] = "pad32" /\ Fragments[s + p + 4] = "main_seq"
       /\ Fragments[s + p + 5] = "main_seq" /\ Fragments[s + p + 6] = "integ_seq"
       /\ Fragments[s + p + 7] = "pad256" /\ Fragments[s + p + 8] = "anchor"
  BY <1>5, UdfIs
<1>14. ASSUME NEW i \in 3 .. 7
       PROVE  frags[s + p + (i + 1)].start = SizeAfter(Fragments[s + p + i], frags[s + p + i].start)
  <2>1. PICK k \in 1 .. Early : k = s + p + i /\ k < Early
    BY <1>4
  <2>2. k + 1 = s + p + (i + 1)
    BY <2>1
  <2> QED
    BY <1>6, <2>1, <2>2
<1>15. PICK m \in Nat, u \in Nat, v \in Nat, t \in Nat, a \in Nat :
         /\ m = MainSeq /\ u = Udf32 /\ v = Udf256 /\ t = session_start /\ a = SystemArea
         /\ a + 9 + 2 * m + 2 <= v /\ u + 2 * m + 2 <= v /\ base = t + a
  BY <1>1, <1>8, Parameters
<1>16. PICK x \in Nat : x = frags[s + p + 4].start /\ x + 2 * m + 2 <= t + v
  <2>2. PICK y \in Nat : y = base + p + 4
    OBVIOUS
  <2>3. SizeAfter("pad32", y) = Max({y, t + u})
    BY <1>15, SizeAfterOf
  <2>5. y <= t + a + 9
    BY <1>15, <2>2
  <2>6. PICK x \in Nat : x = Max({y, t + u}) /\ x + 2 * m + 2 <= t + v
    BY <1>15, <2>5, MaxIs
  <2> QED
    BY <1>12, <1>13, <1>14, <2>2, <2>3, <2>6
<1>17. frags[s + p + 5].start = x + m
  <2>1. frags[s + p + (4 + 1)].start = SizeAfter("main_seq", x)
    BY <1>13, <1>14, <1>16
  <2>2. 4 + 1 = 5 /\ x \in Nat
    OBVIOUS
  <2> QED
    BY <1>15, <1>22, <2>1, <2>2
<1>18. frags[s + p + 6].start = x + m + m
  <2>2. SizeAfter("main_seq", x + m) = x + m + m
    <3>1. x + m \in Nat
      OBVIOUS
    <3> QED
      BY <1>15, <1>22, <3>1
  <2>3. 5 + 1 = 6
    OBVIOUS
  <2> QED
    BY <1>13, <1>14, <1>17, <2>2, <2>3
<1>19. frags[s + p + 7].start = x + m + m + 2
  <2>2. SizeAfter("integ_seq", x + m + m) = x + m + m + 2
    <3>1. x + m + m \in Nat
      OBVIOUS
    <3> QED
      BY <1>22, <3>1
  <2>3. 6 + 1 = 7
    OBVIOUS
  <2> QED
    BY <1>13, <1>14, <1>18, <2>2, <2>3
<1>20. frags[s + p + 8].start = t + v
  <2>2. SizeAfter("pad256", x + m + m + 2) = Max({x + m + m + 2, t + v})
    <3>1. x + m + m + 2 \in Nat
      OBVIOUS
    <3> QED
      BY <1>15, <1>22, <3>1
  <2>4. 7 + 1 = 8
    OBVIOUS
  <2> QED
    BY <1>13, <1>14, <1>16, <1>19, <2>2, <2>4, MaxIs
<1> QED
  BY <1>4, <1>13, <1>15, <1>20

\* No files are written when a stream is.
LEMMA StreamArrival ==
    ASSUME IInv, pc \in {"write", "files"}, Streaming
    PROVE  Arrival = Behind
<1>1. /\ job \in Jobs /\ dw \in Nodes /\ Len(dw) \in Nat /\ Behind \in Nat
      /\ ~ Has("hfs") => vol.pad = 0 /\ vol.extra = 0 /\ Boot = 0 /\ Whole(dw)
      /\ DOMAIN dw = 1 .. Len(dw)
  BY WritingFacts
<1>2. ~ Has("hfs") /\ Files = <<>>
  BY <1>1, JobFacts
<1>3. Len(dw) = 0
  <2> SUFFICES ASSUME Len(dw) # 0 PROVE FALSE
    OBVIOUS
  <2>1. 1 \in 1 .. Len(dw)
    BY <1>1
  <2> QED
    BY <1>1, <1>2, <2>1, Nodes1 DEF Whole
<1>5. PICK b \in Nat, t \in Nat, o \in Nat, p \in Nat, x \in Nat :
        /\ b = Behind /\ t = Total(Widths(dw)) /\ o = Boot /\ p = vol.pad /\ x = vol.extra
        /\ t = 0 /\ o = 0 /\ p = 0 /\ x = 0
  BY <1>1, <1>2, <1>3, WidthsAre
<1> QED
  BY <1>5 DEF Arrival

\* A fragment is written: where the pass is then.
LEMMA FragmentPosition ==
    ASSUME IInv, pc = "write", at <= Len(frags), frags[at].start \in {0, last_extent_written},
           frags[at].name # "files", Fixed, pc' = "write", at' = at + 1, item' = item,
           last_extent_written' = last_extent_written + Next1,
           Len(image') = (last_extent_written' - session_start) * Sector
    PROVE  Position'
<1>1. /\ job \in Jobs /\ Early \in Nat /\ Early >= 3 /\ session_start \in Nat /\ at \in Nat
      /\ Len(Late) \in Nat /\ Len(frags) = Early + Len(Late)
      /\ last_extent_written \in Nat /\ Arrival \in Nat /\ last_extent_written >= session_start
  BY WritingFacts
<1>3. /\ session_start' = session_start /\ (\A o : Has(o)' = Has(o))
      /\ Early' = Early /\ Late' = Late /\ Streaming' = Streaming /\ Start' = Start
      /\ (\A names, n : Borders(names, n)' = Borders(names, n)) /\ Arrival' = Arrival
      /\ Widths(dw)' = Widths(dw)
  BY FixedStands
<1>4. /\ Next1 \in Nat
      /\ at = 1 /\ Has("hfs") => last_extent_written + Next1 = session_start + vol.csize
      /\ ~ (at = 1 /\ Has("hfs")) =>
           /\ at < Early => last_extent_written + Next1 = frags[at + 1].start
           /\ at = Early => Streaming /\ last_extent_written + Next1 = Behind
           /\ at > Early => last_extent_written + Next1 = Borders(Late, Arrival)[at - Early]
      /\ Has("hfs") /\ session_start # 0 => at = 1
  BY NextBlocks
<1>5. PICK e \in Nat, i \in Nat, l \in Nat :
        e = Early /\ i = at /\ l = Len(Late) /\ e >= 3 /\ i >= 1 /\ i <= e + l
  <2>1. PICK e \in Nat, l \in Nat : e = Early /\ l = Len(Late) /\ e >= 3
    BY <1>1
  <2>2. Len(frags) = e + l
    BY <1>1, <2>1
  <2>3. PICK i \in 1 .. e + l : i = at
    BY <2>2, NextFragment
  <2>4. i \in Nat /\ i >= 1 /\ i <= e + l
    OBVIOUS
  <2> QED
    BY <2>1, <2>3, <2>4
<1>7. (Has("hfs") /\ session_start # 0)' => at' <= 2 /\ pc' = "write"
  BY <1>3, <1>4
<1>8. ASSUME at' <= Early'
      PROVE  /\ at' >= 1 /\ item' = 0
             /\ IF at' = 2 /\ Has("hfs")'
                THEN last_extent_written' = session_start' + vol'.csize
                ELSE last_extent_written' = frags'[at'].start
  BY <1>3, <1>4, <1>5, <1>8, NextFragment DEF Fixed
<1>9. ASSUME ~ (at' <= Early')
      PROVE  /\ (at - Early \in 1 .. Len(Late) + 1)'
             /\ last_extent_written' = Borders(Late, Arrival)'[at' - Early' - 1]
             /\ item' = IF Streaming' THEN 0 ELSE Len(dw') + 1
  <2>1. at' - Early' \in 1 .. Len(Late') + 1
    BY <1>3, <1>5, <1>9
  <2>2. CASE at = Early
    <3>2. Streaming /\ last_extent_written + Next1 = Behind /\ item = 0
      BY <1>1, <1>4, <2>2, NextFragment
    <3>4. Borders(Late, Arrival)[0] = Arrival
      <4>1. PICK names \in Seq(Names), b \in Nat : names = Late /\ b = Arrival
        BY <1>1, LateNames
      <4>2. job \in Jobs
        BY <1>1
      <4>3. Borders(names, b)[0] = b
        BY ONLY names \in Seq(Names), b \in Nat, <4>2, BordersAre
      <4> QED
        BY <4>1, <4>3
    <3>5. at' - Early' - 1 = 0
      BY <1>3, <1>5, <2>2
    <3> QED
      BY <1>3, <2>1, <3>2, <3>4, <3>5, StreamArrival
  <2>3. CASE at > Early
    BY <1>1, <1>3, <1>4, <1>5, <2>1, <2>3, NextFragment DEF Fixed
  <2> QED
    BY <1>3, <1>5, <1>9, <2>2, <2>3
<1> QED
  BY <1>1, <1>3, <1>4, <1>7, <1>8, <1>9 DEF Position

\* What the next fragment writes.
Cells1 == IF frags[at].name = "strfile" THEN StreamCells(last_extent_written)
          ELSE Fill(<<0, at>>, BlocksWritten(frags[at].name, last_extent_written) * Sector)

\* The stream, and what fills the room that is left.
LEMMA StreamCellsAre ==
    ASSUME job \in Jobs, NEW n \in Nat
    PROVE  /\ StreamCells(n) \in Seq(Cell)
           /\ Len(StreamCells(n)) = (Avail(n) + StreamPad(n)) * Sector
           /\ StreamSize(n) <= Len(StreamCells(n))
           /\ \A k \in 1 .. StreamSize(n) : StreamCells(n)[k] = <<1, k - 1>>
<1>1. PICK size \in Nat, room \in Nat :
        size = StreamSize(n) /\ room = (Avail(n) + StreamPad(n)) * Sector /\ size <= room
  BY StreamIs
<1>2. PICK rest \in Nat : rest = room - size
  BY <1>1
<1> DEFINE data == [k \in 1 .. size |-> <<1, k - 1>>]
<1>3. data \in Seq(Cell) /\ Len(data) = size /\ \A k \in 1 .. size : data[k] = <<1, k - 1>>
  <2>2. \A k \in 1 .. size : data[k] = <<1, k - 1>>
    OBVIOUS
  <2>3. data \in [1 .. size -> Cell]
    BY DEF Cell
  <2> HIDE DEF data, Cell
  <2> QED
    BY <2>2, <2>3, IsSeq
<1>4. Fill(Zero, rest) \in Seq(Cell) /\ Len(Fill(Zero, rest)) = rest
  BY CellsAre, FillIs
<1>5. StreamCells(n) = data \o Fill(Zero, rest)
  BY <1>1, <1>2 DEF StreamCells
<1> HIDE DEF data, Cell
<1>6. /\ data \o Fill(Zero, rest) \in Seq(Cell)
      /\ Len(data \o Fill(Zero, rest)) = Len(data) + Len(Fill(Zero, rest))
      /\ \A i \in 1 .. Len(data) : (data \o Fill(Zero, rest))[i] = data[i]
  BY ONLY <1>3, <1>4, Joined
<1>7. size + rest = room
  BY <1>1, <1>2
<1> QED
  BY <1>1, <1>3, <1>4, <1>5, <1>6, <1>7

\* A fragment is written: the image then.
LEMMA FragmentImage ==
    ASSUME IInv, pc = "write", at <= Len(frags), frags[at].start \in {0, last_extent_written},
           frags[at].name # "files", Fixed, Put(Cells1)
    PROVE  /\ Longer /\ image' \in Seq(Cell) /\ Len(image) \in Nat
           /\ last_extent_written' = last_extent_written + Next1
           /\ last_extent_written' \in Nat
           /\ Len(image') = (last_extent_written' - session_start) * Sector
           /\ Next1 \in Nat /\ Next1 * Sector \in Nat /\ Len(image') = Len(image) + Next1 * Sector
           /\ frags[at].name # "strfile" =>
                \A k \in 1 .. Next1 * Sector : image'[Len(image) + k] = <<0, at>>
           /\ frags[at].name = "strfile" =>
                /\ StreamSize(last_extent_written) <= Next1 * Sector
                /\ \A k \in 1 .. StreamSize(last_extent_written) : image'[Len(image) + k] = <<1, k - 1>>
<1>1. /\ job \in Jobs /\ session_start \in Nat /\ at \in Nat
      /\ last_extent_written \in Nat /\ last_extent_written >= session_start
      /\ image \in Seq(Int \X Nat) /\ Len(image) \in Nat
      /\ Len(image) = (last_extent_written - session_start) * Sector
  BY WritingFacts
<1>3. PICK n \in Nat : n = Next1
  BY NextBlocks
<1>4. PICK m \in Nat : m = n * Sector
  BY Parameters, Product
<1>5. /\ Cells1 \in Seq(Cell) /\ Len(Cells1) = m
      /\ frags[at].name # "strfile" => \A k \in 1 .. m : Cells1[k] = <<0, at>>
      /\ frags[at].name = "strfile" =>
           /\ StreamSize(last_extent_written) \in Nat /\ StreamSize(last_extent_written) <= m
           /\ \A k \in 1 .. StreamSize(last_extent_written) : Cells1[k] = <<1, k - 1>>
  <2>1. CASE frags[at].name = "strfile"
    <3>1. PICK x \in Nat : x = last_extent_written
      BY <1>1
    <3>2. n = Avail(x) + StreamPad(x) /\ Cells1 = StreamCells(x)
      BY <1>3, <2>1, <3>1 DEF Next1, Cells1
    <3>3. StreamSize(x) \in Nat
      BY <1>1, StreamIs
    <3>4. /\ StreamCells(x) \in Seq(Cell)
          /\ Len(StreamCells(x)) = (Avail(x) + StreamPad(x)) * Sector
          /\ StreamSize(x) <= Len(StreamCells(x))
          /\ \A k \in 1 .. StreamSize(x) : StreamCells(x)[k] = <<1, k - 1>>
      BY <1>1, StreamCellsAre
    <3> QED
      BY <1>4, <2>1, <3>1, <3>2, <3>3, <3>4
  <2>2. CASE frags[at].name # "strfile"
    <3>2. PICK c \in Cell : c = <<0, at>>
      BY <1>1, CellsAre
    <3>3. Fill(c, m) \in Seq(Cell) /\ Len(Fill(c, m)) = m /\ \A k \in 1 .. m : Fill(c, m)[k] = c
      BY FillIs
    <3> QED
      BY <1>3, <1>4, <2>2, <3>2, <3>3 DEF Next1, Cells1
  <2> QED
    BY <2>1, <2>2
<1>6. PICK cells \in Seq(Cell) : cells = Cells1
  BY <1>5
<1>7. session_start' = session_start
  BY FixedStands
<1>8. image \in Seq(Cell)
  BY <1>1 DEF Cell
<1>9. Len(cells) = n * Sector /\ Put(cells)
  BY <1>4, <1>5, <1>6
<1>10. /\ image' \in Seq(Cell) /\ last_extent_written' = last_extent_written + n
       /\ last_extent_written' \in Nat /\ last_extent_written' >= session_start
       /\ Len(image') = Len(image) + n * Sector
       /\ Len(image') = (last_extent_written' - session_start') * Sector
       /\ \A k \in 1 .. Len(image) : image'[k] = image[k]
       /\ \A k \in 1 .. n * Sector : image'[Len(image) + k] = cells[k]
  <2> HIDE DEF Cell
  <2> QED
    BY <1>1, <1>7, <1>8, <1>9, PutIs
<1>11. Longer
  <2>1. Len(image) <= Len(image')
    BY <1>1, <1>4, <1>10
  <2>2. image' \in Seq(Int \X Nat)
    BY <1>10 DEF Cell
  <2> QED
    BY <1>10, <2>1, <2>2 DEF Longer
<1>12. ASSUME frags[at].name = "strfile"
       PROVE  /\ StreamSize(last_extent_written) <= Next1 * Sector
              /\ \A k \in 1 .. StreamSize(last_extent_written) : image'[Len(image) + k] = <<1, k - 1>>
  <2>1. PICK z \in Nat : z = StreamSize(last_extent_written) /\ z <= m
    BY <1>5, <1>12
  <2>2. \A k \in 1 .. z : k \in 1 .. m
    BY <2>1
  <2> QED
    BY <1>3, <1>4, <1>5, <1>6, <1>10, <1>12, <2>1, <2>2
<1> QED
  BY <1>1, <1>3, <1>4, <1>5, <1>6, <1>7, <1>10, <1>11, <1>12

\* A fragment at the end of a UDF volume holds a block.
LEMMA LastAnchor ==
    ASSUME job \in Jobs, NEW name \in {"end_anchor", "padend_avdp"}, NEW n \in Nat
    PROVE  BlocksWritten(name, n) \in Nat /\ BlocksWritten(name, n) >= 1
<1>1. /\ EndPad \in Nat \ {0} /\ Align \in Nat \ {0}
  BY Parameters
<1>2. BlocksWritten(name, n) = SizeAfter(name, n) - n
  BY BlocksWrittenOf
<1>3. CASE name = "end_anchor"
  BY <1>2, <1>3, OtherSizes
<1>4. CASE name = "padend_avdp"
  <2>1. SizeAfter("padend_avdp", n) = (IF Has("sparc") THEN ((n + 2 * Align - 1) \div Align) * Align ELSE n + EndPad)
    BY SizeAfterOf
  <2>2. CASE Has("sparc")
    <3>1. PICK a \in Nat \ {0} : a = Align
      BY <1>1
    <3>2. PICK x \in Nat : x = n + 2 * a - 1
      OBVIOUS
    <3>3. PICK q \in Nat, r \in 0 .. a - 1 : q = x \div a /\ r = x % a /\ x = q * a + r
      BY Division
    <3>4. PICK p \in Nat : p = q * a
      BY Product
    <3>6. SizeAfter("padend_avdp", n) = p
      BY <2>1, <2>2, <3>1, <3>2, <3>3, <3>4
    <3> QED
      BY <1>2, <1>4, <3>2, <3>3, <3>4, <3>6
  <2>3. CASE ~ Has("sparc")
    BY <1>1, <1>2, <1>4, <2>1, <2>3
  <2> QED
    BY <2>2, <2>3
<1> QED
  BY <1>3, <1>4

\* A fragment is written: anchors and the stream are where they should be.
LEMMA FragmentStructures ==
    ASSUME IInv, pc = "write", at <= Len(frags), frags[at].start \in {0, last_extent_written},
           frags[at].name # "files", Fixed, Put(Cells1), at' = at + 1
    PROVE  Structures'
<1>1. /\ job \in Jobs /\ Early \in Nat /\ Early >= 3 /\ session_start \in Nat /\ at \in Nat
      /\ last_extent_written \in Nat /\ last_extent_written >= session_start
      /\ Len(image) = (last_extent_written - session_start) * Sector /\ Sizing
      /\ Sector \in Nat \ {0}
  BY WritingFacts, Parameters
<1>2. /\ Longer /\ Len(image) \in Nat /\ image' \in Seq(Cell)
      /\ Next1 \in Nat /\ Next1 * Sector \in Nat /\ Len(image') = Len(image) + Next1 * Sector
      /\ frags[at].name # "strfile" =>
           \A k \in 1 .. Next1 * Sector : image'[Len(image) + k] = <<0, at>>
      /\ frags[at].name = "strfile" =>
           /\ StreamSize(last_extent_written) <= Next1 * Sector
           /\ \A k \in 1 .. StreamSize(last_extent_written) : image'[Len(image) + k] = <<1, k - 1>>
  BY FragmentImage
<1>3. PICK l \in Nat, m \in Nat : l = Len(image) /\ m = Next1 * Sector
  BY <1>2
<1>4. Len(image') = l + m
  BY <1>2, <1>3
<1>6. ASSUME Has("udf"), at' > Anchor, ~ (at > Anchor)
      PROVE  Udf256 * Sector < Len(image') /\ image'[Udf256 * Sector + 1] = <<0, Anchor>>
  <2>1. /\ Anchor \in Nat /\ Anchor > 3 /\ Anchor < Early /\ frags[Anchor].name = "anchor"
        /\ frags[Anchor].start = session_start + Udf256
    <3>1. Sized(Early) /\ \A k \in 1 .. Early : frags[k].name = Fragments[k]
      BY <1>1 DEF Sizing
    <3> QED
      BY <1>1, <1>6, <3>1, AnchorPlace
  <2>2. at = Anchor /\ at < Early /\ at <= Early /\ ~ (at <= 2 /\ Has("hfs"))
    BY <1>1, <1>6, <2>1
  <2>4. PICK x \in Nat : x = last_extent_written
    BY <1>1
  <2>5. BlocksWritten("anchor", x) = SizeAfter("anchor", x) - x /\ SizeAfter("anchor", x) = x + 1
    BY BlocksWrittenOf, OtherSizes
  <2>6. Next1 = 1
    BY <2>1, <2>2, <2>4, <2>5 DEF Next1
  <2>7. m >= 1
    <3>1. PICK one \in Nat : one = Next1 /\ one = 1
      BY <2>6
    <3> QED
      BY <1>1, <1>3, <3>1
  <2>8. last_extent_written - session_start = Udf256
    BY <1>1, <2>1, <2>2, NextBlocks, Parameters
  <2>9. 1 \in 1 .. m
    BY <2>7
  <2>10. image'[l + 1] = <<0, at>>
    BY <1>2, <1>3, <2>1, <2>2, <2>9
  <2>11. l < Len(image')
    BY <1>4, <2>7
  <2> QED
    BY <1>1, <1>3, <2>2, <2>8, <2>10, <2>11
<1>7. ASSUME at' > Early + 1, frags[at' - 1].name \in {"end_anchor", "padend_avdp"}
      PROVE  image' # <<>> /\ Last(image') = <<0, at' - 1>>
  <2>1. at' - 1 = at /\ at > Early
    BY <1>1, <1>7
  <2>2. PICK x \in Nat, name \in {"end_anchor", "padend_avdp"} : x = last_extent_written /\ name = frags[at].name
    BY <1>1, <1>7, <2>1
  <2>4. m >= 1
    <3>1. PICK n \in Nat : n = Next1 /\ n >= 1
      BY <1>1, <1>2, <2>2, LastAnchor DEF Next1
    <3> QED
      BY <1>1, <1>3, <3>1, ProductGrows
  <2>5. image'[l + m] = <<0, at>>
    <3>1. m \in 1 .. m
      BY <2>4
    <3> QED
      BY <1>2, <1>3, <2>2, <3>1
  <2>7. Last(image') = image'[l + m]
    BY <1>4 DEF Last
  <2> QED
    BY <1>4, <2>1, <2>4, <2>5, <2>7
<1>8. ~ (Has("hfs") /\ at' > Early /\ ~ (at > Early))
  <2> SUFFICES ASSUME Has("hfs"), at' > Early, ~ (at > Early) PROVE FALSE
    OBVIOUS
  <2>1. at = Early /\ ~ (at = 1 /\ Has("hfs"))
    BY <1>1
  <2>2. Streaming
    BY <2>1, NextBlocks
  <2> QED
    BY <1>1, <2>2, JobFacts
<1>9. ASSUME Streaming, at' > Early - 1, ~ (at > Early - 1)
      PROVE  LET first == (frags[Early - 1].start - session_start) * Sector
                 size == StreamSize(frags[Early - 1].start)
             IN /\ first + size <= Len(image')
                /\ \A k \in 0 .. size - 1 : image'[first + k + 1] = <<1, k>>
  <2>1. at = Early - 1 /\ at <= Early
    BY <1>1, <1>9
  <2>2. frags[at].name = "strfile"
    BY <1>9, <2>1, NextFragment
  <2>4. last_extent_written = frags[at].start
    BY <1>1, <1>9, <2>1, JobFacts, NextBlocks
  <2>5. PICK size \in Nat : size = StreamSize(last_extent_written)
    BY <1>1, StreamIs
  <2>8. l + size <= Len(image')
    BY <1>2, <1>3, <1>4, <2>2, <2>5
  <2>9. ASSUME NEW k \in 0 .. size - 1 PROVE image'[l + k + 1] = <<1, k>>
    <3>1. PICK j \in 1 .. size : j = k + 1
      OBVIOUS
    <3>3. l + j = l + k + 1 /\ j - 1 = k
      BY <3>1
    <3> QED
      BY <1>2, <1>3, <2>2, <2>5, <3>1, <3>3
  <2> QED
    BY <1>1, <1>3, <2>1, <2>4, <2>5, <2>8, <2>9
<1>10. at' \in Nat
  BY <1>1
<1> QED
  BY <1>2, <1>6, <1>7, <1>8, <1>9, <1>10, StructuresKept

\* A fragment that is not the files.
LEMMA FragmentKept ==
    ASSUME IInv, pc = "write", at <= Len(frags), frags[at].start \in {0, last_extent_written},
           frags[at].name # "files", Fixed, Put(Cells1), at' = at + 1,
           pc' = pc, how' = how, item' = item, now' = now
    PROVE  IInv'
<1>1. /\ job \in Jobs /\ Types /\ how = "running" /\ at \in Nat /\ item \in Nat
  BY WritingFacts
<1>2. /\ Longer /\ Len(image) \in Nat
      /\ last_extent_written' = last_extent_written + Next1
      /\ last_extent_written' \in Nat
      /\ Len(image') = (last_extent_written' - session_start) * Sector
      /\ Next1 * Sector \in Nat /\ Len(image') = Len(image) + Next1 * Sector
      /\ frags[at].name # "strfile" =>
           \A k \in 1 .. Next1 * Sector : image'[Len(image) + k] = <<0, at>>
  BY FragmentImage
<1>4. Structures'
  BY FragmentStructures
<1>5. Data'
  <2>2. \A k \in 1 .. item' - 1 : ~ (k >= item)
    BY <1>1
  <2>3. ASSUME ~ Streaming, NEW p \in 1 .. Len(image'), p > Len(image) PROVE ~ (image'[p][1] > 0)
    <3>1. frags[at].name # "strfile"
      <4>1. CASE at <= Early
        BY <2>3, <4>1, NextFragment
      <4>2. CASE at > Early
        BY <4>2, NextFragment DEF Ordinary
      <4>3. Early \in Nat
        BY WritingFacts
      <4> QED
        BY <1>1, <4>1, <4>2, <4>3
    <3>2. PICK l \in Nat, m \in Nat : l = Len(image) /\ m = Next1 * Sector
      BY <1>2
    <3>3. p \in 1 .. l + m /\ p > l
      BY <1>2, <2>3, <3>2
    <3>4. PICK k \in 1 .. m : p = l + k
      BY <3>3
    <3>5. image'[p] = <<0, at>>
      BY <1>2, <3>1, <3>2, <3>4
    <3> QED
      BY <3>5
  <2>4. \A f \in DOMAIN now : now[f] # -1 => now'[f] = now[f]
    OBVIOUS
  <2> QED
    BY <1>1, <1>2, <2>2, <2>3, <2>4, DataKept
<1>7. now \in [{Files[i].file : i \in DOMAIN Files} -> -1 .. MaxSize]
  BY <1>1 DEF Types
<1>8. image' \in Seq(Int \X Nat) /\ how' \in Outcomes /\ at' \in Nat
  BY <1>1, <1>2 DEF Longer, Outcomes
<1> QED
  BY <1>1, <1>2, <1>4, <1>5, <1>7, <1>8, FragmentPosition, WritingKept
     DEF Outcome, BotchOnlyForHfs, ReadFailsForCause

\* One fragment of the writing pass.
LEMMA WriteKept ==
    ASSUME IInv, WriteFragment
    PROVE  IInv'
<1>1. pc = "write" /\ Fixed /\ now' = now
  BY DEF WriteFragment, Fixed, planned
<1>2. CASE at > Len(frags)
  BY <1>1, <1>2, CountKept DEF WriteFragment, End
<1>3. CASE at <= Len(frags)
  <2>1. ~ (at > Len(frags))
    BY <1>1, <1>3, NextFragment
  <2>2. CASE frags[at].start \notin {0, last_extent_written}
    BY <1>1, <1>3, <2>1, <2>2, BotchKept DEF WriteFragment, End
  <2>3. CASE frags[at].start \in {0, last_extent_written} /\ frags[at].name = "files"
    BY <1>1, <1>3, <2>1, <2>3, FilesBegin DEF WriteFragment
  <2>4. CASE frags[at].start \in {0, last_extent_written} /\ frags[at].name # "files"
    BY <1>1, <1>3, <2>1, <2>4, FragmentKept DEF WriteFragment, Cells1
  <2> QED
    BY <2>2, <2>3, <2>4
<1>4. at > Len(frags) \/ at <= Len(frags)
  <2>1. at \in Nat /\ Len(frags) \in Nat
    BY <1>1, WritingFacts
  <2> QED
    BY <2>1
<1> QED
  BY <1>2, <1>3, <1>4

\* What can be relied on while the files are written.
LEMMA FilesFacts ==
    ASSUME IInv, pc = "files"
    PROVE  /\ at = Early /\ ~ Streaming /\ item \in 1 .. Len(dw) + 1 /\ Len(dw) \in Nat
           /\ last_extent_written = Start + vol.pad + Sums(Widths(dw))[item - 1]
           /\ ~ (Has("hfs") /\ session_start # 0)
           /\ Len(image) = (Start + vol.pad + Sums(Widths(dw))[item - 1] - session_start) * Sector
           /\ Sums(Widths(dw))[item - 1] \in Nat
<1>1. /\ Position /\ Writes /\ Early \in Nat /\ Early >= 3 /\ dw \in Nodes /\ Len(dw) \in Nat
      /\ Len(image) = (last_extent_written - session_start) * Sector /\ at \in Nat
  BY WritingFacts
<1>3. /\ at = Early /\ ~ Streaming /\ item \in 1 .. Len(dw) + 1
      /\ last_extent_written = Start + vol.pad + Sums(Widths(dw))[item - 1]
  BY <1>1 DEF Position
<1>5. Sums(Widths(dw))[item - 1] \in Nat
  BY <1>1, <1>3, WidthsAre
<1>6. Len(image) = (Start + vol.pad + Sums(Widths(dw))[item - 1] - session_start) * Sector
  <2>2. last_extent_written = Start + vol.pad + Sums(Widths(dw))[item - 1]
    BY <1>3
  <2>3. PICK a \in Nat, v \in Nat, n \in Nat, t \in Nat :
          a = Start /\ v = vol.pad /\ n = Sums(Widths(dw))[item - 1] /\ t = session_start
    BY <1>5, WritingFacts
  <2>4. last_extent_written - session_start = Start + vol.pad + Sums(Widths(dw))[item - 1] - session_start
    BY <2>2, <2>3
  <2> QED
    BY <1>1, <2>4
<1>7. Len(dw) \in Nat
  BY <1>1
<1> QED
  BY <1>1, <1>3, <1>5, <1>6, <1>7 DEF Position

\* A file is copied, or what there is of it.
LEMMA CopiedIs ==
    ASSUME NEW file \in Nat, NEW size \in Nat, NEW held \in Nat
    PROVE  /\ Copied(file, size, held) \in Seq(Cell)
           /\ Len(Copied(file, size, held)) = Blocks(size) * Sector
           /\ \A k \in 1 .. Blocks(size) * Sector :
                Copied(file, size, held)[k] = IF k <= held THEN <<file, k - 1>> ELSE Zero
<1>1. PICK m \in Nat : m = Blocks(size) * Sector
  BY BlocksAre
<1> DEFINE c == Copied(file, size, held)
<1>2. c = [k \in 1 .. m |-> IF k <= held THEN <<file, k - 1>> ELSE Zero]
  BY <1>1 DEF Copied
<1>3. \A k \in 1 .. m : c[k] = IF k <= held THEN <<file, k - 1>> ELSE Zero
  BY <1>2
<1>4. ASSUME NEW k \in 1 .. m PROVE c[k] \in Cell
  <2>2. <<file, k - 1>> \in Cell /\ Zero \in Cell
    BY CellsAre
  <2> QED
    BY <1>3, <2>2
<1>5. DOMAIN c = 1 .. m /\ c = [k \in DOMAIN c |-> c[k]]
  BY <1>2
<1> HIDE DEF c, Cell
<1>6. c \in [1 .. m -> Cell]
  BY <1>4, <1>5
<1> QED
  BY <1>1, <1>3, <1>6, IsSeq DEF c

\* Whatever stands for a deferred write and is as long: the files go on.
LEMMA DeferredKept ==
    ASSUME IInv, pc = "files", item <= Len(dw), Fixed,
           NEW data \in Seq(Cell), NEW rest \in Seq(Cell),
           Len(data) = Blocks(dw[item].size) * Sector,
           Len(rest) = (IF Has("hfs") \/ Has("dvd") THEN dw[item].pad ELSE 0) * Sector,
           Put(data \o rest), at' = at, pc' = pc, how' = how, item' = item + 1,
           now' \in [{Files[i].file : i \in DOMAIN Files} -> -1 .. MaxSize],
           \A f \in DOMAIN now : now[f] # -1 => now'[f] = now[f],
           \A k \in 1 .. Len(rest) : rest[k] = Junk,
           dw[item].entry = 0 => \A k \in 1 .. Len(data) : ~ (data[k][1] > 0),
           dw[item].entry # 0 =>
             LET f == Files[dw[item].entry].file
             IN /\ now'[f] \in Nat
                /\ \A k \in 1 .. Len(data) : data[k] = IF k <= now'[f] THEN <<f, k - 1>> ELSE Zero
    PROVE  IInv'
<1>1. /\ job \in Jobs /\ Types /\ how = "running" /\ at \in Nat /\ Writes
      /\ Early \in Nat /\ Early >= 3 /\ Start \in Nat /\ session_start \in Nat /\ Start >= session_start
      /\ dw \in Nodes /\ vol.pad \in Nat /\ DOMAIN dw = 1 .. Len(dw)
      /\ last_extent_written \in Nat /\ last_extent_written >= session_start
      /\ image \in Seq(Int \X Nat) /\ Len(image) \in Nat
      /\ Len(image) = (last_extent_written - session_start) * Sector
  BY WritingFacts
<1>2. /\ at = Early /\ ~ Streaming /\ item \in 1 .. Len(dw) + 1 /\ Len(dw) \in Nat
      /\ last_extent_written = Start + vol.pad + Sums(Widths(dw))[item - 1]
      /\ ~ (Has("hfs") /\ session_start # 0)
      /\ Len(image) = (Start + vol.pad + Sums(Widths(dw))[item - 1] - session_start) * Sector
      /\ Sums(Widths(dw))[item - 1] \in Nat
  BY FilesFacts
<1>3. item \in 1 .. Len(dw) /\ item \in Nat
  BY <1>2
<1>4. dw[item] \in [entry : 0 .. Len(Files), size : Nat, extent : Nat, pad : Nat]
  BY <1>1, <1>3, Nodes1
<1>5. PICK b \in Nat, p \in Nat, w \in Nat, z \in Nat :
        /\ b = Blocks(dw[item].size) /\ z = dw[item].size /\ z <= b * Sector
        /\ p = (IF Has("hfs") \/ Has("dvd") THEN dw[item].pad ELSE 0)
        /\ w = Width(dw[item]) /\ w = b + p
  <2>1. PICK node \in [entry : 0 .. Len(Files), size : Nat, extent : Nat, pad : Nat] : node = dw[item]
    BY <1>4
  <2>3. node.pad \in Nat /\ node.size \in Nat
    OBVIOUS
  <2>4. PICK p \in Nat : p = IF Has("hfs") \/ Has("dvd") THEN node.pad ELSE 0
    BY <2>3
  <2>5. Width(node) = Blocks(node.size) + p
    BY <2>4 DEF Width
  <2> QED
    BY <2>1, <2>3, <2>4, <2>5, WidthIs
<1>6. PICK d \in Nat, r \in Nat : d = b * Sector /\ r = p * Sector /\ d + r = w * Sector
  <2>1. b * Sector \in Nat /\ p * Sector \in Nat
    BY Parameters, Product
  <2>2. (b + p) * Sector = b * Sector + p * Sector
    BY Parameters
  <2> QED
    BY <1>5, <2>1, <2>2
<1>7. Len(data) = d /\ Len(rest) = r
  BY <1>5, <1>6
<1>8. /\ data \o rest \in Seq(Cell) /\ Len(data \o rest) = d + r
      /\ \A k \in 1 .. d : (data \o rest)[k] = data[k]
      /\ \A k \in 1 .. r : (data \o rest)[d + k] = rest[k]
  <2> HIDE DEF Cell
  <2>1. /\ data \o rest \in Seq(Cell) /\ Len(data \o rest) = Len(data) + Len(rest)
        /\ \A i \in 1 .. Len(data) : (data \o rest)[i] = data[i]
        /\ \A i \in 1 .. Len(rest) : (data \o rest)[Len(data) + i] = rest[i]
    BY ONLY data \in Seq(Cell), rest \in Seq(Cell), Joined
  <2> QED
    BY <1>7, <2>1
<1>9. /\ session_start' = session_start /\ (\A o : Has(o)' = Has(o))
      /\ Early' = Early /\ Late' = Late /\ Streaming' = Streaming /\ Start' = Start
      /\ Widths(dw)' = Widths(dw) /\ Anchor' = Anchor
  BY FixedStands
<1>10. PICK l \in Nat : l = Len(image)
  BY <1>1
<1>11. /\ image' \in Seq(Cell) /\ last_extent_written' = last_extent_written + w
       /\ last_extent_written' \in Nat /\ last_extent_written' >= session_start
       /\ Len(image') = l + (d + r)
       /\ Len(image') = (last_extent_written' - session_start') * Sector
       /\ \A k \in 1 .. l : image'[k] = image[k]
       /\ \A k \in 1 .. d + r : image'[l + k] = (data \o rest)[k]
  <2>1. image \in Seq(Cell)
    BY <1>1 DEF Cell
  <2>2. Len(data \o rest) = w * Sector
    BY <1>6, <1>8
  <2> HIDE DEF Cell
  <2>3. PICK cells \in Seq(Cell) : cells = data \o rest
    BY <1>8
  <2>4. Put(cells) /\ Len(cells) = w * Sector
    BY <2>2, <2>3
  <2>5. /\ image' \in Seq(Cell) /\ last_extent_written' = last_extent_written + w
        /\ last_extent_written' \in Nat /\ last_extent_written' >= session_start
        /\ Len(image') = Len(image) + w * Sector
        /\ Len(image') = (last_extent_written' - session_start') * Sector
        /\ \A k \in 1 .. Len(image) : image'[k] = image[k]
        /\ \A k \in 1 .. w * Sector : image'[Len(image) + k] = cells[k]
    BY <1>1, <1>9, <2>1, <2>4, PutIs
  <2> QED
    BY <1>6, <1>10, <2>3, <2>5
<1>12. Longer
  <2>1. Len(image) <= Len(image')
    BY <1>10, <1>11
  <2>2. image' \in Seq(Int \X Nat)
    BY <1>11 DEF Cell
  <2> QED
    BY <1>10, <1>11, <2>1, <2>2 DEF Longer
<1>13. Place(item) = l
  BY <1>2, <1>10 DEF Place
<1>14. /\ \A k \in 1 .. d : image'[l + k] = data[k]
       /\ \A k \in 1 .. r : image'[l + d + k] = Junk
  <2>1. ASSUME NEW k \in 1 .. d PROVE image'[l + k] = data[k]
    <3>1. k \in 1 .. d + r
      OBVIOUS
    <3> QED
      BY <1>8, <1>11, <3>1
  <2>2. ASSUME NEW k \in 1 .. r PROVE image'[l + d + k] = Junk
    <3>1. PICK j \in 1 .. d + r : j = d + k
      OBVIOUS
    <3>2. image'[l + j] = (data \o rest)[d + k]
      BY <1>11, <3>1
    <3>3. (data \o rest)[d + k] = Junk
      BY <1>7, <1>8
    <3> QED
      BY <3>1, <3>2, <3>3
  <2> QED
    BY <2>1, <2>2
<1>15. ASSUME dw[item].entry # 0
       PROVE  LET f == Files[dw[item].entry].file
              IN /\ now'[f] # -1 /\ Place(item) + dw[item].size <= Len(image')
                 /\ \A u \in 0 .. dw[item].size - 1 :
                      image'[Place(item) + u + 1] = IF u < now'[f] THEN <<f, u>> ELSE Zero
  <2>1. PICK f : f = Files[dw[item].entry].file
    OBVIOUS
  <2>2. PICK h \in Nat : h = now'[f]
    BY <1>15, <2>1
  <2>3. z <= b * Sector /\ d = b * Sector
    BY <1>5, <1>6
  <2>4. z <= d
    BY ONLY <2>3
  <2>5. l + z <= Len(image')
    <3>1. Len(image') = l + (d + r)
      BY <1>11
    <3> QED
      BY ONLY <2>4, <3>1, l \in Nat, d \in Nat, r \in Nat, z \in Nat
  <2>6. ASSUME NEW u \in 0 .. z - 1
        PROVE  image'[l + u + 1] = IF u < h THEN <<f, u>> ELSE Zero
    <3>1. PICK k \in 1 .. d : k = u + 1
      BY <2>4
    <3>2. image'[l + k] = IF k <= h THEN <<f, k - 1>> ELSE Zero
      BY <1>7, <1>14, <1>15, <2>1, <2>2
    <3>3. l + k = l + u + 1 /\ k - 1 = u /\ (k <= h <=> u < h)
      BY ONLY <3>1, l \in Nat, h \in Nat, u \in 0 .. z - 1, z \in Nat
    <3> QED
      BY <3>2, <3>3
  <2>7. h # -1
    OBVIOUS
  <2> QED
    BY <1>5, <1>13, <2>1, <2>2, <2>5, <2>6, <2>7
<1>16. ASSUME NEW q \in 1 .. Len(image'), q > Len(image), image'[q][1] > 0
       PROVE  \E k \in 1 .. item' - 1 : /\ dw[k].entry # 0 /\ Files[dw[k].entry].file = image'[q][1]
                                        /\ q = Place(k) + image'[q][2] + 1
  <2>1. PICK k \in 1 .. d + r : q = l + k
    <3>1. q - l \in 1 .. d + r /\ q = l + (q - l)
      BY <1>10, <1>11, <1>16
    <3> QED
      BY <3>1
  <2>2. k <= d
    <3> SUFFICES ASSUME ~ (k <= d) PROVE FALSE
      OBVIOUS
    <3>1. PICK j \in 1 .. r : k = d + j
      OBVIOUS
    <3>2. q = l + d + j
      BY <2>1, <3>1
    <3>3. image'[q] = Junk
      BY <1>14, <3>2
    <3> QED
      BY <1>16, <3>3 DEF Junk
  <2>3. k \in 1 .. d /\ image'[q] = data[k]
    BY <1>14, <2>1, <2>2
  <2>4. dw[item].entry # 0
    BY <1>7, <1>16, <2>3
  <2>5. PICK f : f = Files[dw[item].entry].file
    OBVIOUS
  <2>6. data[k] = IF k <= now'[f] THEN <<f, k - 1>> ELSE Zero
    BY <1>7, <2>3, <2>4, <2>5
  <2>7. image'[q] = <<f, k - 1>>
    BY <1>16, <2>3, <2>6 DEF Zero
  <2>8. q = Place(item) + image'[q][2] + 1
    BY <1>13, <2>1, <2>7
  <2>9. item \in 1 .. item' - 1
    BY <1>3
  <2> QED
    BY <2>4, <2>5, <2>7, <2>8, <2>9
<1>17. Data'
  <2>1. item' \in Nat /\ item <= item'
    BY <1>3
  <2>2. ASSUME NEW k \in 1 .. item' - 1, k >= item PROVE k = item
    BY <1>3, <2>2
  <2> QED
    BY <1>12, <1>15, <1>16, <2>1, <2>2, DataKept
<1>18. Structures'
  <2>1. ~ (at' > Early) /\ ~ (at' > Early + 1) /\ ~ Streaming /\ at' \in Nat
    <3>1. PICK e \in Nat : e = Early /\ at = e /\ at' = e
      BY <1>1, <1>2
    <3> QED
      BY <1>2, <3>1
  <2> QED
    BY <1>12, <2>1, StructuresKept
<1>19. Position'
  <2>1. item' \in 1 .. Len(dw') + 1
    <3>1. PICK i \in Nat, n \in Nat : i = item /\ n = Len(dw) /\ i \in 1 .. n
      BY <1>2, <1>3
    <3>2. i + 1 \in 1 .. n + 1
      BY <3>1
    <3> QED
      BY <3>1, <3>2 DEF Fixed
  <2>3. item' - 1 = item
    BY <1>3
  <2>4. PICK s \in Nat : s = Sums(Widths(dw))[item - 1]
    BY <1>2
  <2>5. last_extent_written' = Start + vol.pad + (s + w)
    <3>1. PICK x \in Nat, v \in Nat, n \in Nat : x = Start /\ v = vol.pad /\ n = last_extent_written
      BY <1>1
    <3>2. n = x + v + s
      BY <1>2, <2>4, <3>1
    <3>3. last_extent_written' = n + w
      BY <1>11, <3>1
    <3>4. n + w = x + v + (s + w)
      BY <3>2
    <3> QED
      BY <3>1, <3>3, <3>4
  <2>6. last_extent_written' = Start + vol.pad + Sums(Widths(dw))[item' - 1]
    BY <1>1, <1>3, <1>5, <2>3, <2>4, <2>5, WidthsAre
  <2>8. at' <= Early' /\ at' = Early'
    BY <1>1, <1>2, <1>9
  <2> QED
    BY <1>1, <1>2, <1>9, <1>11, <2>1, <2>6, <2>8 DEF Fixed, Position
<1>20. Outcome'
  BY <1>1 DEF Outcome, BotchOnlyForHfs, ReadFailsForCause
<1>21. image' \in Seq(Int \X Nat) /\ how' \in Outcomes /\ item' \in Nat
  BY <1>1, <1>3, <1>12 DEF Longer, Outcomes
<1> QED
  BY <1>1, <1>11, <1>17, <1>18, <1>19, <1>20, <1>21, WritingKept

\* The deferred write that is next.
LEMMA ItemFacts ==
    ASSUME IInv, pc = "files", item <= Len(dw)
    PROVE  /\ item \in 1 .. Len(dw) /\ item \in Nat
           /\ dw[item].entry \in 0 .. Len(Files) /\ dw[item].size \in Nat /\ dw[item].pad \in Nat
           /\ dw[item].entry # 0 => dw[item].entry \in DOMAIN Files
<1>1. /\ dw \in Nodes /\ DOMAIN Files = 1 .. Len(Files) /\ Len(Files) \in Nat
  BY WritingFacts
<1>2. item \in 1 .. Len(dw)
  BY FilesFacts
<1> QED
  BY <1>1, <1>2, Nodes1

\* A file of which nothing more can be read has become shorter.
LEMMA CannotRead ==
    ASSUME IInv, pc = "files", item <= Len(dw), dw[item].entry # 0, Fixed,
           NEW held \in 0 .. MaxSize, ReadFails(dw[item].size, held),
           now' = [now EXCEPT ![Files[dw[item].entry].file] = held],
           pc' = "ended", how' = "cannot read", at' = at,
           item' = item, image' = image, last_extent_written' = last_extent_written
    PROVE  IInv'
<1>1. /\ job \in Jobs /\ Types /\ at \in Nat /\ item \in Nat /\ last_extent_written \in Nat
      /\ image \in Seq(Int \X Nat) /\ dw \in Nodes /\ DOMAIN dw = 1 .. Len(dw)
      /\ Len(Files) \in Nat /\ DOMAIN Files = 1 .. Len(Files)
  BY Zenon, WritingFacts
<1>2. item \in 1 .. Len(dw) /\ dw[item].entry \in DOMAIN Files /\ dw[item].size \in Nat
  BY Zenon, ItemFacts
<1>3. MaxSize \in Nat
  BY Zenon, Parameters
<1> DEFINE D == {Files[i].file : i \in DOMAIN Files}
<1>4. PICK f \in D : f = Files[dw[item].entry].file
  BY Zenon, <1>2
<1>5. now \in [D -> -1 .. MaxSize]
  BY Zenon, <1>1 DEF Types
<1>6. held \in -1 .. MaxSize /\ held \in Nat
  BY ONLY <1>3, held \in 0 .. MaxSize
<1> HIDE DEF D
<1>7. now' \in [D -> -1 .. MaxSize] /\ now'[f] = held
  BY Zenon, <1>4, <1>5, <1>6
<1>8. held \in 0 .. dw[item].size - 1
  <2>1. PICK k \in 0 .. dw[item].size - 1 : held <= k
    BY Zenon DEF ReadFails
  <2>2. PICK z \in Nat, h \in Nat : z = dw[item].size /\ h = held
    BY Zenon, <1>2, <1>6
  <2>3. k \in 0 .. z - 1 /\ h <= k
    BY Zenon, <2>1, <2>2
  <2>4. h \in 0 .. z - 1
    BY ONLY <2>3, h \in Nat, z \in Nat
  <2> QED
    BY Zenon, <2>2, <2>4
<1>9. Files' = Files
  BY Zenon, FixedStands
<1>10. ReadFailsForCause'
  <2>1. item \in DOMAIN dw' /\ dw'[item].entry # 0 /\ now'[Files'[dw'[item].entry].file] \in 0 .. dw'[item].size - 1
    BY Zenon, <1>1, <1>2, <1>4, <1>7, <1>8, <1>9 DEF Fixed
  <2> QED
    BY Zenon, <2>1 DEF ReadFailsForCause
<1>11. Outcome'
  BY Zenon, <1>10 DEF Outcome, BotchOnlyForHfs
<1>12. now' \in [{Files[i].file : i \in DOMAIN Files} -> -1 .. MaxSize]
  BY Zenon, <1>7 DEF D
<1>13. how' \in Outcomes
  BY Zenon DEF Outcomes
<1>14. Types' /\ Sizing'
  BY Zenon, <1>1, <1>12, <1>13, WritingKept
<1> QED
  BY Zenon, <1>11, <1>14, Failed

\* One deferred write.
LEMMA DeferredStepKept ==
    ASSUME IInv, WriteDeferred
    PROVE  IInv'
<1>1. pc = "files" /\ item <= Len(dw) /\ Fixed /\ at' = at
  BY Zenon DEF WriteDeferred, Fixed, planned
<1>2. /\ Types /\ item \in Nat /\ dw \in Nodes /\ DOMAIN dw = 1 .. Len(dw) /\ OfFiles(dw)
      /\ Len(Files) \in Nat /\ DOMAIN Files = 1 .. Len(Files) /\ job \in Jobs
  BY <1>1, WritingFacts
<1>4. /\ dw[item].entry \in 0 .. Len(Files) /\ dw[item].size \in Nat /\ dw[item].pad \in Nat
  BY <1>1, ItemFacts
<1>5. PICK p \in Nat, z \in Nat :
        z = dw[item].size /\ p = (IF Has("hfs") \/ Has("dvd") THEN dw[item].pad ELSE 0) * Sector
  <2>1. PICK n \in Nat : n = IF Has("hfs") \/ Has("dvd") THEN dw[item].pad ELSE 0
    BY <1>4
  <2> QED
    BY <1>4, <2>1, Parameters, Product
<1>6. PICK m \in Nat : m = Blocks(z) * Sector
  BY BlocksAre
<1> DEFINE rest == Fill(Junk, IF Has("hfs") \/ Has("dvd") THEN dw[item].pad * Sector ELSE 0)
<1>7. /\ rest \in Seq(Cell) /\ Len(rest) = p /\ \A k \in 1 .. Len(rest) : rest[k] = Junk
  <2>2. rest = Fill(Junk, p)
    BY <1>5, Parameters
  <2> HIDE DEF rest
  <2>3. Fill(Junk, p) \in Seq(Cell) /\ Len(Fill(Junk, p)) = p /\ \A k \in 1 .. p : Fill(Junk, p)[k] = Junk
    BY CellsAre, FillIs
  <2> QED
    BY <2>2, <2>3
<1> DEFINE D == {Files[i].file : i \in DOMAIN Files}
<1>8. now \in [D -> -1 .. MaxSize]
  BY <1>2 DEF Types
<1>9. CASE dw[item].entry = 0
  <2>1. /\ Put(Fill(Junk, Blocks(dw[item].size) * Sector) \o rest)
        /\ item' = item + 1 /\ pc' = pc /\ how' = how /\ now' = now
    BY <1>9 DEF WriteDeferred
  <2>2. Fill(Junk, m) \in Seq(Cell) /\ Len(Fill(Junk, m)) = m /\ \A k \in 1 .. m : Fill(Junk, m)[k] = Junk
    BY CellsAre, FillIs
  <2> HIDE DEF rest, D
  <2>3. PICK data \in Seq(Cell), r \in Seq(Cell) : data = Fill(Junk, m) /\ r = rest
    BY <1>7, <2>2
  <2>4. Put(data \o r)
    BY <1>5, <1>6, <2>1, <2>3
  <2>5. Len(data) = Blocks(dw[item].size) * Sector /\ \A k \in 1 .. Len(data) : ~ (data[k][1] > 0)
    BY <1>5, <1>6, <2>2, <2>3 DEF Junk
  <2>6. Len(r) = (IF Has("hfs") \/ Has("dvd") THEN dw[item].pad ELSE 0) * Sector /\ \A k \in 1 .. Len(r) : r[k] = Junk
    BY <1>5, <1>7, <2>3
  <2>7. now' \in [{Files[i].file : i \in DOMAIN Files} -> -1 .. MaxSize]
    BY <1>8, <2>1 DEF D
  <2> QED
    BY <1>1, <1>9, <2>1, <2>4, <2>5, <2>6, <2>7, DeferredKept
<1>10. CASE dw[item].entry # 0
  <2>1. PICK held \in 0 .. MaxSize :
          LET file == Files[dw[item].entry].file IN
          /\ now[file] # -1 => held = now[file]
          /\ now' = [now EXCEPT ![file] = held]
          /\ IF ReadFails(dw[item].size, held)
             THEN /\ pc' = "ended" /\ how' = "cannot read" /\ item' = item /\ image' = image
                  /\ last_extent_written' = last_extent_written
             ELSE /\ Put(Copied(file, dw[item].size, held) \o rest)
                  /\ item' = item + 1 /\ pc' = pc /\ how' = how
    BY Zenon, <1>10 DEF WriteDeferred, End
  <2>2. dw[item].entry \in DOMAIN Files
    BY <1>1, <1>10, ItemFacts
  <2>3. PICK file \in D : file = Files[dw[item].entry].file
    BY <2>2
  <2>4. file \in Nat
    BY <1>2, <2>2, <2>3, JobFacts
  <2>5. CASE ReadFails(dw[item].size, held)
    BY Zenon, <1>1, <1>10, <2>1, <2>5, CannotRead
  <2>6. CASE ~ ReadFails(dw[item].size, held)
    <3> HIDE DEF rest, D
    <3>1. held \in -1 .. MaxSize /\ held \in Nat
      BY Parameters
    <3>2. now' \in [D -> -1 .. MaxSize] /\ now'[file] = held
      BY Zenon, <1>8, <2>1, <2>3, <3>1
    <3>3. \A f \in DOMAIN now : now[f] # -1 => now'[f] = now[f]
      BY Zenon, <1>8, <2>1, <2>3
    <3>4. /\ Copied(file, z, held) \in Seq(Cell) /\ Len(Copied(file, z, held)) = Blocks(z) * Sector
          /\ \A k \in 1 .. Blocks(z) * Sector :
               Copied(file, z, held)[k] = IF k <= held THEN <<file, k - 1>> ELSE Zero
      BY <2>4, <3>1, CopiedIs
    <3>5. PICK data \in Seq(Cell), r \in Seq(Cell) : data = Copied(file, z, held) /\ r = rest
      BY <1>7, <3>4
    <3>6. Put(data \o r) /\ item' = item + 1 /\ pc' = pc /\ how' = how
      BY <1>5, <2>1, <2>3, <2>6, <3>5
    <3>7. /\ Len(data) = Blocks(dw[item].size) * Sector
          /\ \A k \in 1 .. Len(data) : data[k] = IF k <= now'[file] THEN <<file, k - 1>> ELSE Zero
      BY <1>5, <3>2, <3>4, <3>5
    <3>8. Len(r) = (IF Has("hfs") \/ Has("dvd") THEN dw[item].pad ELSE 0) * Sector /\ \A k \in 1 .. Len(r) : r[k] = Junk
      BY <1>5, <1>7, <3>5
    <3>9. now' \in [{Files[i].file : i \in DOMAIN Files} -> -1 .. MaxSize]
      BY <3>2 DEF D
    <3>10. now'[file] \in Nat
      BY <3>1, <3>2
    <3> QED
      BY <1>1, <1>10, <2>3, <3>3, <3>6, <3>7, <3>8, <3>9, <3>10, DeferredKept
  <2> QED
    BY <2>5, <2>6
<1> QED
  BY <1>9, <1>10

\* Behind the files: the rest of an HFS volume.
LEMMA FilesEnd ==
    ASSUME IInv, FilesWritten
    PROVE  IInv'
<1>1. /\ pc = "files" /\ item > Len(dw) /\ Fixed /\ at' = at + 1 /\ pc' = "write" /\ how' = how
      /\ item' = item /\ now' = now
      /\ Put(IF Has("hfs") THEN Fill(<<0, at>>, (vol.extra + (IF Has("boot") THEN 1 ELSE 0)) * Sector)
             ELSE <<>>)
  BY DEF FilesWritten, Fixed, planned
<1>2. /\ job \in Jobs /\ Types /\ how = "running" /\ at \in Nat /\ Writes /\ Sizing
      /\ Early \in Nat /\ Early >= 3 /\ Start \in Nat /\ session_start \in Nat /\ Start >= session_start
      /\ dw \in Nodes /\ vol.pad \in Nat /\ vol.extra \in Nat /\ Boot \in Nat
      /\ last_extent_written \in Nat /\ last_extent_written >= session_start
      /\ image \in Seq(Int \X Nat) /\ Len(image) \in Nat /\ Arrival \in Nat
      /\ Len(image) = (last_extent_written - session_start) * Sector
      /\ Total(Widths(dw)) \in Nat /\ Len(Late) \in Nat
      /\ ~ Has("hfs") => vol.pad = 0 /\ vol.extra = 0 /\ Boot = 0
  BY <1>1, WritingFacts
<1>3. /\ at = Early /\ ~ Streaming /\ item \in 1 .. Len(dw) + 1 /\ Len(dw) \in Nat
      /\ last_extent_written = Start + vol.pad + Sums(Widths(dw))[item - 1]
      /\ ~ (Has("hfs") /\ session_start # 0)
  BY <1>1, FilesFacts
<1>4. item = Len(dw) + 1 /\ item - 1 = Len(dw)
  <2>1. PICK n \in Nat, i \in Nat : n = Len(dw) /\ i = item
    BY <1>3
  <2>3. i = n + 1 /\ i - 1 = n
    BY <1>1, <1>3, <2>1
  <2> QED
    BY <2>1, <2>3
<1>5. PICK t \in Nat, x \in Nat, o \in Nat, v \in Nat, a \in Nat, s \in Nat, l \in Nat :
        /\ t = Total(Widths(dw)) /\ x = vol.extra /\ o = Boot /\ v = vol.pad /\ a = Start
        /\ s = session_start /\ a >= s /\ l = Len(image)
  BY <1>2
<1>6. last_extent_written = a + v + t
  BY <1>2, <1>3, <1>4, <1>5, WidthsAre
<1>8. PICK n \in Nat : n = x + o
  OBVIOUS
<1>9. last_extent_written + n = Arrival
  <2>1. Arrival = a + v + t + x + o
    BY <1>1, <1>2, <1>3, <1>5, Behinds DEF Arrival
  <2> QED
    BY <1>6, <1>8, <2>1
<1>10. PICK m \in Nat, y \in Nat : m = n * Sector /\ y = x * Sector /\ y <= m
  BY <1>8, Parameters, ProductGrows
<1> DEFINE cells == IF Has("hfs") THEN Fill(<<0, at>>, (vol.extra + (IF Has("boot") THEN 1 ELSE 0)) * Sector)
                    ELSE <<>>
<1>11. cells \in Seq(Cell) /\ Len(cells) = m /\ \A k \in 1 .. m : cells[k] = <<0, at>>
  <2>1. CASE Has("hfs")
    <3>1. cells = Fill(<<0, at>>, m)
      BY <1>5, <1>8, <1>10, <2>1 DEF Boot
    <3>2. PICK c \in Cell : c = <<0, at>>
      BY <1>2, CellsAre
    <3>3. Fill(c, m) \in Seq(Cell) /\ Len(Fill(c, m)) = m /\ \A k \in 1 .. m : Fill(c, m)[k] = c
      BY FillIs
    <3> HIDE DEF cells
    <3> QED
      BY <3>1, <3>2, <3>3
  <2>2. CASE ~ Has("hfs")
    <3>1. cells = <<>>
      BY <2>2
    <3>3. m = 0
      BY <1>2, <1>5, <1>8, <1>10, <2>2, Parameters
    <3> HIDE DEF cells
    <3> QED
      BY <3>1, <3>3
  <2> QED
    BY <2>1, <2>2
<1>12. Put(cells)
  BY <1>1
<1> HIDE DEF cells
<1>13. /\ session_start' = session_start /\ (\A ol : Has(ol)' = Has(ol))
       /\ Early' = Early /\ Late' = Late /\ Streaming' = Streaming /\ Start' = Start
       /\ (\A names, k : Borders(names, k)' = Borders(names, k)) /\ Arrival' = Arrival
       /\ Widths(dw)' = Widths(dw) /\ Anchor' = Anchor
  BY <1>1, FixedStands
<1>14. /\ image' \in Seq(Cell) /\ last_extent_written' = last_extent_written + n
       /\ last_extent_written' \in Nat /\ last_extent_written' >= session_start
       /\ Len(image') = l + m
       /\ Len(image') = (last_extent_written' - session_start') * Sector
       /\ \A k \in 1 .. l : image'[k] = image[k]
       /\ \A k \in 1 .. m : image'[l + k] = <<0, at>>
  <2>1. image \in Seq(Cell)
    BY <1>2 DEF Cell
  <2> HIDE DEF Cell
  <2>2. PICK c \in Seq(Cell) : c = cells
    BY <1>11
  <2>3. Len(c) = n * Sector /\ Put(c)
    BY <1>10, <1>11, <1>12, <2>2
  <2>4. /\ image' \in Seq(Cell) /\ last_extent_written' = last_extent_written + n
        /\ last_extent_written' \in Nat /\ last_extent_written' >= session_start
        /\ Len(image') = Len(image) + n * Sector
        /\ Len(image') = (last_extent_written' - session_start') * Sector
        /\ \A k \in 1 .. Len(image) : image'[k] = image[k]
        /\ \A k \in 1 .. n * Sector : image'[Len(image) + k] = c[k]
    BY <1>2, <1>13, <2>1, <2>3, PutIs
  <2> QED
    BY <1>5, <1>10, <1>11, <2>2, <2>4
<1>15. Longer
  <2>1. Len(image) <= Len(image')
    BY <1>5, <1>14
  <2>2. image' \in Seq(Int \X Nat)
    BY <1>14 DEF Cell
  <2> QED
    BY <1>5, <1>14, <2>1, <2>2 DEF Longer
<1>16. Data'
  <2>1. item' \in Nat /\ item <= item'
    BY <1>1, <1>3
  <2>2. \A k \in 1 .. item' - 1 : ~ (k >= item)
    <3>1. PICK i \in Nat : i = item
      BY <1>3
    <3> QED
      BY <1>1, <3>1
  <2>3. ASSUME NEW p \in 1 .. Len(image'), p > Len(image) PROVE ~ (image'[p][1] > 0)
    <3>1. p \in 1 .. l + m /\ p > l
      BY <1>5, <1>14, <2>3
    <3>2. PICK k \in 1 .. m : p = l + k
      BY <3>1
    <3>3. image'[p] = <<0, at>>
      BY <1>14, <3>2
    <3> QED
      BY <3>3
  <2>4. \A f \in DOMAIN now : now[f] # -1 => now'[f] = now[f]
    BY <1>1
  <2> QED
    BY <1>1, <1>15, <2>1, <2>2, <2>3, <2>4, DataKept
<1>17. Structures'
  <2>1. PICK e \in Nat : e = Early /\ at = e /\ at' = e + 1
    BY <1>1, <1>2, <1>3
  <2>2. ~ (at' > Early + 1) /\ ~ Streaming /\ at' \in Nat
    BY <1>3, <2>1
  <2>3. Has("udf") => at > Anchor
    <3> SUFFICES ASSUME Has("udf") PROVE at > Anchor
      OBVIOUS
    <3>2. Anchor \in Nat /\ Anchor < Early
      BY <1>1, <1>2, AnchorPlace DEF Sizing
    <3> QED
      BY <1>2, <1>3, <3>2
  <2>4. ASSUME Has("hfs")
        PROVE  LET first == (Start + vol.pad + Total(Widths(dw)) - session_start) * Sector
               IN /\ first + vol.extra * Sector <= Len(image')
                  /\ \A k \in 0 .. vol.extra * Sector - 1 : image'[first + k + 1] = <<0, Early>>
    <3>1. (Start + vol.pad + Total(Widths(dw)) - session_start) * Sector = l
      <4>1. last_extent_written - session_start = Start + vol.pad + Total(Widths(dw)) - session_start
        BY <1>5, <1>6
      <4> QED
        BY <1>2, <1>5, <4>1
    <3>2. l + y <= Len(image')
      BY <1>10, <1>14
    <3>3. ASSUME NEW k \in 0 .. y - 1 PROVE image'[l + k + 1] = <<0, Early>>
      <4>1. PICK j \in 1 .. m : j = k + 1
        BY <1>10
      <4>2. image'[l + j] = <<0, Early>> /\ l + j = l + k + 1
        BY <1>3, <1>14, <4>1
      <4> QED
        BY <4>2
    <3> QED
      BY <1>5, <1>10, <3>1, <3>2, <3>3
  <2> QED
    BY <1>1, <1>15, <2>2, <2>3, <2>4, StructuresKept
<1>18. Position'
  <2>1. PICK e \in Nat, i \in Nat : e = Early /\ at = e /\ at' = e + 1 /\ i = Len(Late)
    BY <1>1, <1>2, <1>3
  <2>2. ~ (at' <= Early') /\ (at - Early \in 1 .. Len(Late) + 1)' /\ at' - Early' - 1 = 0
    BY <1>13, <2>1
  <2>3. Borders(Late, Arrival)[0] = Arrival
    <3>1. PICK names \in Seq(Names), b \in Nat : names = Late /\ b = Arrival
      BY <1>2, LateNames
    <3>2. job \in Jobs
      BY <1>2
    <3>3. Borders(names, b)[0] = b
      BY ONLY names \in Seq(Names), b \in Nat, <3>2, BordersAre
    <3> QED
      BY <3>1, <3>3
  <2>5. item' = IF Streaming' THEN 0 ELSE Len(dw') + 1
    BY <1>1, <1>3, <1>4, <1>13 DEF Fixed
  <2> QED
    BY <1>1, <1>3, <1>9, <1>13, <1>14, <2>2, <2>3, <2>5 DEF Position
<1>20. now' \in [{Files[i].file : i \in DOMAIN Files} -> -1 .. MaxSize]
  BY <1>1, <1>2 DEF Types
<1>21. image' \in Seq(Int \X Nat) /\ how' \in Outcomes /\ item' \in Nat /\ at' \in Nat
  <2>1. image' \in Seq(Int \X Nat)
    BY <1>15 DEF Longer
  <2>2. how' = "running" /\ item' = item /\ item \in Nat /\ at' = at + 1 /\ at \in Nat
    BY <1>1, <1>2, <1>3
  <2> QED
    BY ONLY <2>1, <2>2 DEF Outcomes
<1> QED
  BY <1>1, <1>2, <1>14, <1>16, <1>17, <1>18, <1>20, <1>21, WritingKept
     DEF Outcome, BotchOnlyForHfs, ReadFailsForCause

\* Nothing happens.
LEMMA Stutter ==
    ASSUME IInv, UNCHANGED vars
    PROVE  IInv'
<1>1. /\ job' = job /\ frags' = frags /\ at' = at /\ pc' = pc /\ how' = how
      /\ last_extent' = last_extent /\ last_extent_written' = last_extent_written
      /\ extent' = extent /\ isosize' = isosize /\ weight' = weight /\ hash' = hash
      /\ dw' = dw /\ tail' = tail /\ vol' = vol /\ image' = image /\ item' = item /\ now' = now
  BY DEF vars
<1>2. /\ Files' = Files /\ session_start' = session_start /\ Streaming' = Streaming
      /\ (\A o : Has(o)' = Has(o))
      /\ Early' = Early /\ Late' = Late /\ Boot' = Boot /\ Fragments' = Fragments
      /\ (\A name, n : SizeAfter(name, n)' = SizeAfter(name, n))
      /\ (\A names, n : Borders(names, n)' = Borders(names, n))
      /\ (\A names, n : SizesAfter(names, n)' = SizesAfter(names, n))
      /\ (\A i, j : Same(i, j)' = Same(i, j))
  BY <1>1, SameJob
<1>3. Start' = Start /\ Behind' = Behind
  BY <1>1, <1>2 DEF Start, Behind
<1>4. /\ \A b : Plan(b)' <=> Plan(b)
      /\ Arrival' = Arrival /\ (HeavyFirst' <=> HeavyFirst)
      /\ \A k : Place(k)' = Place(k)
      /\ Widths(dw)' = Widths(dw) /\ Total(Widths(dw))' = Total(Widths(dw))
      /\ (CutOff' <=> CutOff) /\ (PaddedAgain' <=> PaddedAgain)
      /\ (NoVolume' <=> NoVolume) /\ (Whole(dw)' <=> Whole(dw)) /\ (OfFiles(dw)' <=> OfFiles(dw))
      /\ Nodes' = Nodes
  BY <1>1, <1>3, PlanStands
<1>5. /\ (Distinct(dw)' <=> Distinct(dw)) /\ \A from : InRow(dw, from)' <=> InRow(dw, from)
  BY <1>1, SameLists
<1>7. Types' /\ Unwritten'
  <2>1. Types /\ Unwritten
    BY DEF IInv
  <2>2. TypeOK'
    <3>1. TypeOK
      BY <2>1 DEF Types
    <3>2. job' \in Jobs /\ how' \in Outcomes' /\ {at', item', last_extent', last_extent_written'} \subseteq Nat
      BY Zenon, <1>1, <3>1 DEF TypeOK, Outcomes
    <3>3. /\ pc' \in {"size", "assign", "hfs", "trailer", "write", "files", "ended"}
          /\ \A i \in DOMAIN frags' : frags'[i].name \in Names /\ frags'[i].start \in Nat
      BY <1>1, <3>1 DEF TypeOK
    <3>5. /\ \A k \in DOMAIN dw' : dw'[k].entry \in {0} \cup DOMAIN Files' /\ {dw'[k].size, dw'[k].pad} \subseteq Nat
          /\ tail' \in 0..Len(dw') /\ (tail' = 0 <=> dw' = <<>>)
      BY <1>1, <1>2, <3>1 DEF TypeOK
    <3>6. /\ \A k \in DOMAIN image' : image'[k] \in Int \X Nat
          /\ \A f \in DOMAIN now' : now'[f] \in -1..MaxSize
      BY <1>1, <3>1 DEF TypeOK
    <3> QED
      BY <1>1, <1>2, <3>1, <3>2, <3>3, <3>5, <3>6 DEF TypeOK
  <2>3. Types'
    BY <1>1, <1>2, <1>4, <2>1, <2>2 DEF Types
  <2>4. Unwritten'
    BY <1>1, <1>2, <2>1 DEF Unwritten
  <2> QED
    BY <2>3, <2>4
<1>9. Assigning' /\ Rounds'
  <2>1. Assigning /\ Rounds
    BY DEF IInv
  <2>2. (NoClumps(dw)' <=> NoClumps(dw)) /\ (Hash' <=> Hash) /\ (Small' <=> Small)
    BY <1>1, <1>2 DEF NoClumps, Hash, Small
  <2>3. /\ \A i, n : Sharers(i, n)' = Sharers(i, n)
        /\ \A i : Recorded1(dw, i)' <=> Recorded1(dw, i)
    BY <1>1, <1>2 DEF Sharers, Recorded1, Holds, Stored
  <2>6. Assigning'
    <3> SUFFICES ASSUME pc' = "assign" PROVE Assigning'
      BY DEF Assigning
    <3>2. \A i \in DOMAIN Files' :
            IF i < at' THEN Recorded1(dw, i)'
            ELSE isosize'[i] = Files'[i].size /\ weight'[i] = Files'[i].weight
      BY <1>1, <1>2, <2>1, <2>3 DEF Assigning
    <3> QED
      BY <1>1, <1>2, <1>3, <1>4, <1>5, <2>1, <2>2, <2>3, <3>2
         DEF Largest, Stored, Assigning, InRow
  <2> QED
    BY <1>1, <1>2, <1>3, <1>4, <1>5, <2>1, <2>2, <2>3, <2>6, SameRecords
       DEF Largest, Descending, Rounds
<1>10. Planned'
  BY <1>1, <1>2, <1>4 DEF IInv, Planned, Writes
<1>12. Data'
  BY <1>1, <1>2, <1>4 DEF IInv, Data, Writes, Zero
<1>13. Structures'
  <2>1. Structures
    BY DEF IInv
  <2>2. Anchor' = Anchor /\ \A n : StreamSize(n)' = StreamSize(n)
    BY <1>1 DEF Anchor, SystemUse, Descriptors, Only, Has, Sun, StreamSize, StreamRoom, Avail, StreamPad
  <2> QED
    BY <1>1, <1>2, <1>3, <1>4, <2>1, <2>2 DEF Structures, Writes
<1>14. Outcome'
  <2>1. Outcome
    BY DEF IInv
  <2> QED
    BY Zenon, <1>1, <1>2, <1>4, <2>1 DEF Outcome, BotchOnlyForHfs, ReadFailsForCause
<1>15. pc' \in {"size", "assign"} => NoVolume'
  BY <1>1, <1>4 DEF IInv
<1> QED
  BY <1>1, <1>2, <1>3, <1>4, <1>7, <1>9, <1>10, <1>12, <1>13, <1>14, <1>15
     DEF IInv, Position, Writes, Sized, Sizing, Untouched

----------------------------------------------------------------------------
(* What is kept                                                            *)

\* All that the plan and what is written have to do with each other holds at
\* any time.
THEOREM Invariance == Spec => []IInv
<1>1. ASSUME IInv, [Next]_vars PROVE IInv'
  <2>1. CASE SizeFragment
    BY <1>1, <2>1, SizingKept
  <2>2. CASE AssignEntry
    BY <1>1, <2>2, AssignKept
  <2>3. CASE FilesAssigned
    BY <1>1, <2>3, ArrangedKept
  <2>4. CASE MakeVolume
    BY <1>1, <2>4, VolumeKept
  <2>5. CASE InsertTrailer
    BY <1>1, <2>5, TrailerKept
  <2>6. CASE WriteFragment
    BY <1>1, <2>6, WriteKept
  <2>7. CASE WriteDeferred
    BY <1>1, <2>7, DeferredStepKept
  <2>8. CASE FilesWritten
    BY <1>1, <2>8, FilesEnd
  <2>9. CASE WriteFails
    BY <1>1, <2>9, FailsKept
  <2>10. CASE UNCHANGED vars
    BY <1>1, <2>10, Stutter
  <2> QED
    BY <1>1, <2>1, <2>2, <2>3, <2>4, <2>5, <2>6, <2>7, <2>8, <2>9, <2>10 DEF Next, Step
<1> QED
  BY Initially, <1>1, PTL DEF Spec

\* The passes agree, but for hybrids of three kinds.
THEOREM PassesAgree == Spec => []BotchOnlyForHfs
<1> QED
  BY Invariance, PTL DEF IInv, Outcome

\* What lies behind the files of a hybrid is as long wherever it begins.
LEMMA LateMoves ==
    ASSUME job \in Jobs, Has("hfs"), NEW a \in Nat, NEW b \in Nat, SizesAfter(Late, a) = SizesAfter(Late, b)
    PROVE  a = b
<1> DEFINE N == {"end_anchor", "padend_avdp", "endpad"}
<1>2. Late \in Seq(N) /\ Len(Late) \in Nat
  <2>2. "end_anchor" \in N /\ "padend_avdp" \in N /\ "endpad" \in N
    OBVIOUS
  <2> HIDE DEF N
  <2> QED
    BY <2>2, JobFacts, LateIs
<1>3. PICK names \in Seq(Names), l \in Nat : names = Late /\ l = Len(names)
  BY <1>2, LateNames
<1>4. \A k \in 1 .. l : names[k] \in N
  <2> HIDE DEF N
  <2> QED
    BY <1>2, <1>3
<1>5. /\ Borders(names, a) \in [0 .. l -> Nat] /\ Borders(names, a)[0] = a
      /\ \A k \in 1 .. l : Borders(names, a)[k] = SizeAfter(names[k], Borders(names, a)[k - 1])
      /\ SizesAfter(names, a) = Borders(names, a)[l]
  BY ONLY ZenonT(20), <1>3, job \in Jobs, a \in Nat, BordersAre
<1>6. /\ Borders(names, b) \in [0 .. l -> Nat] /\ Borders(names, b)[0] = b
      /\ \A k \in 1 .. l : Borders(names, b)[k] = SizeAfter(names[k], Borders(names, b)[k - 1])
      /\ SizesAfter(names, b) = Borders(names, b)[l]
  BY ONLY ZenonT(20), <1>3, job \in Jobs, b \in Nat, BordersAre
<1>7. ASSUME NEW name \in N, NEW m \in Nat, NEW n \in Nat
      PROVE  SizeAfter(name, m) - m = SizeAfter(name, n) - n
  <2>1. ~ Has("sparc") /\ EndPad \in Nat
    BY JobFacts, Parameters
  <2>3. /\ SizeAfter("endpad", m) = m + EndPad /\ SizeAfter("endpad", n) = n + EndPad
    BY SizeAfterOf
  <2>4. /\ SizeAfter("padend_avdp", m) = m + EndPad /\ SizeAfter("padend_avdp", n) = n + EndPad
    BY <2>1, SizeAfterOf
  <2>5. CASE name = "end_anchor"
    BY <2>5, OtherSizes
  <2>6. CASE name = "endpad"
    BY <2>1, <2>3, <2>6
  <2>7. CASE name = "padend_avdp"
    BY <2>1, <2>4, <2>7
  <2> QED
    BY <2>5, <2>6, <2>7
<1> HIDE DEF N
<1> DEFINE x(k) == Borders(names, a)[k]
           y(k) == Borders(names, b)[k]
           S == {k \in Nat : k <= l => x(k) - a = y(k) - b}
<1>8. 0 \in S
  BY <1>5, <1>6
<1>9. ASSUME NEW k \in Nat, k \in S PROVE k + 1 \in S
  <2> SUFFICES ASSUME k + 1 <= l PROVE x(k + 1) - a = y(k + 1) - b
    OBVIOUS
  <2>2. k \in 0 .. l /\ k + 1 \in 1 .. l /\ k + 1 - 1 = k
    OBVIOUS
  <2>4. PICK j \in 1 .. l : j = k + 1 /\ j - 1 = k
    BY <2>2
  <2>5. x(j) = SizeAfter(names[j], x(j - 1)) /\ y(j) = SizeAfter(names[j], y(j - 1))
    BY <1>5, <1>6
  <2>6. PICK p \in Nat, q \in Nat : p = x(k) /\ q = y(k)
    BY <1>5, <1>6, <2>2
  <2>7. x(j) = SizeAfter(names[j], p) /\ y(j) = SizeAfter(names[j], q)
    BY <2>4, <2>5, <2>6
  <2>9. SizeAfter(names[j], p) - p = SizeAfter(names[j], q) - q
    BY <1>4, <1>7
  <2>10. j \in 0 .. l /\ x(j) \in Nat /\ y(j) \in Nat
    BY <1>5, <1>6
  <2>11. PICK u \in Nat, v \in Nat : u = x(j) /\ v = y(j)
    BY <2>10
  <2> HIDE DEF x, y
  <2>12. u - p = v - q /\ p - a = q - b
    BY <1>9, <2>6, <2>7, <2>9, <2>11
  <2>13. u - a = v - b
    BY <2>12
  <2> QED
    BY <2>4, <2>11, <2>13
<1> HIDE DEF S
<1>10. \A k \in Nat : k \in S
  BY <1>8, <1>9, Inductive
<1>12. x(l) = y(l) /\ x(l) \in Nat
  <2>1. l \in 0 .. l
    OBVIOUS
  <2> QED
    BY <1>3, <1>5, <1>6, <2>1
<1> QED
  BY <1>10, <1>12 DEF S

\* An image that was written to its end is as it was planned.
LEMMA Finished ==
    ASSUME IInv, how = "written"
    PROVE  /\ job \in Jobs /\ Types /\ Sizing /\ Writes /\ Structures /\ Data /\ HeavyFirst
           /\ Early \in Nat /\ Early >= 3 /\ Len(Late) \in Nat /\ Len(frags) = Early + Len(Late)
           /\ DOMAIN frags = 1 .. Len(frags)
           /\ \A k \in 1 .. Len(Late) : frags[Early + k] = [name |-> Late[k], start |-> 0]
           /\ at = Early + Len(Late) + 1 /\ item = (IF Streaming THEN 0 ELSE Len(dw) + 1)
           /\ dw \in Nodes /\ DOMAIN dw = 1 .. Len(dw) /\ Len(dw) \in Nat /\ OfFiles(dw)
           /\ Start \in Nat /\ Behind \in Nat /\ session_start \in Nat /\ Start >= session_start
           /\ (~ Streaming => Behind = Start) /\ vol.pad \in Nat /\ vol.extra \in Nat
           /\ Len(Files) \in Nat /\ DOMAIN Files = 1 .. Len(Files)
           /\ image \in Seq(Int \X Nat)
           /\ ~ Misled => Complete(Arrival)
<1>1. /\ Types /\ Sizing /\ Writes /\ Structures /\ Data /\ Planned /\ Position /\ Outcome /\ job \in Jobs
  BY DEF IInv, Writes, Types, TypeOK
<1>3. /\ Early \in Nat /\ Early >= 3 /\ Start \in Nat /\ Behind \in Nat /\ session_start \in Nat
      /\ Start >= session_start /\ (~ Streaming => Behind = Start)
  BY <1>1, Behinds DEF Types
<1>4. /\ HeavyFirst /\ Len(frags) = Early + Len(Late)
      /\ \A k \in 1 .. Len(Late) : frags[Early + k] = [name |-> Late[k], start |-> 0]
  BY <1>1 DEF Planned
<1>5. at = Len(frags) + 1 /\ last_extent = last_extent_written
  BY <1>1 DEF Outcome
<1>6. Late \in Seq(Names) /\ Len(Late) \in Nat
  BY LateNames
<1>7. at = Early + Len(Late) + 1 /\ ~ (at <= Early) /\ at - Early - 1 = Len(Late)
  <2>1. PICK e \in Nat, l \in Nat : e = Early /\ l = Len(Late)
    BY <1>3, <1>6
  <2> QED
    BY <1>4, <1>5, <2>1
<1>8. /\ last_extent_written = Borders(Late, Arrival)[at - Early - 1]
      /\ item = (IF Streaming THEN 0 ELSE Len(dw) + 1)
  BY <1>1, <1>7 DEF Position
<1>9. dw \in Nodes /\ OfFiles(dw) /\ image \in Seq(Int \X Nat)
  BY <1>1 DEF Types
<1>10. DOMAIN dw = 1 .. Len(dw) /\ Len(dw) \in Nat /\ Total(Widths(dw)) \in Nat
  BY <1>9, Nodes1, WidthsAre
<1>11. vol.pad \in Nat /\ vol.extra \in Nat
  <2> DEFINE cs == {1} \cup Clumps
  <2> HIDE DEF cs
  <2> QED
    BY <1>1 DEF Types
<1>12. DOMAIN frags = 1 .. Len(frags)
  BY <1>1 DEF Types
<1>13. Len(Files) \in Nat /\ DOMAIN Files = 1 .. Len(Files)
  BY <1>1, JobFacts
<1>14. Arrival \in Nat
  <2>1. PICK b \in Nat, t \in Nat, o \in Nat, p \in Nat, x \in Nat :
          b = Behind /\ t = Total(Widths(dw)) /\ o = Boot /\ p = vol.pad /\ x = vol.extra
    BY <1>3, <1>10, <1>11 DEF Boot
  <2> QED
    BY <2>1 DEF Arrival
<1>15. ASSUME ~ Misled PROVE Complete(Arrival)
  <2>1. PICK b \in Nat : Plan(b) /\ last_extent = SizesAfter(Late, b)
    BY <1>1 DEF Planned
  <2>3. CASE Complete(b)
    BY <2>3 DEF Complete
  <2>4. CASE Incomplete(b)
    BY <1>1, <1>5, <1>7, <1>8, <1>14, <1>15, <2>1, <2>4, LateMoves DEF SizesAfter, Incomplete
  <2> QED
    BY <2>1, <2>3, <2>4 DEF Plan
<1> QED
  BY <1>1, <1>3, <1>4, <1>6, <1>7, <1>8, <1>9, <1>10, <1>11, <1>12, <1>13, <1>15

\* The node of an entry is where the record of the entry says.
LEMMA NodeOf ==
    ASSUME IInv, how = "written", ~ Misled, NEW i \in DOMAIN Files, Stored(i)
    PROVE  \E k \in 1 .. Len(dw) :
             /\ Holds(dw[k], i) /\ dw[k].extent = extent[i] /\ dw[k].size = isosize[i]
             /\ dw[k].entry \in DOMAIN Files /\ Files[dw[k].entry].file = Files[i].file
             /\ Place(k) \in Nat /\ Place(k) = (extent[i] - session_start) * Sector
             /\ k \in 1 .. item - 1 /\ ~ Streaming
<1>1. /\ job \in Jobs /\ dw \in Nodes /\ DOMAIN dw = 1 .. Len(dw) /\ Len(dw) \in Nat
      /\ item = (IF Streaming THEN 0 ELSE Len(dw) + 1)
      /\ Start \in Nat /\ session_start \in Nat /\ Start >= session_start
      /\ (~ Streaming => Behind = Start) /\ vol.pad \in Nat
      /\ Len(Files) \in Nat /\ DOMAIN Files = 1 .. Len(Files)
      /\ Complete(Arrival)
  BY Finished
<1>2. ~ Streaming
  <2> SUFFICES ASSUME Streaming PROVE FALSE
    OBVIOUS
  <2> QED
    BY <1>1, JobFacts
<1>3. AllRecorded(dw) /\ InRow(dw, Behind + vol.pad)
  BY <1>1 DEF Complete
<1>4. PICK k \in DOMAIN dw : Holds(dw[k], i) /\ dw[k].extent = extent[i]
  BY <1>3 DEF AllRecorded, Recorded1
<1>5. /\ dw[k].entry # 0 /\ Same(i, dw[k].entry) /\ dw[k].size = isosize[i]
  BY <1>4 DEF Holds
<1>7. dw[k].entry \in DOMAIN Files
  BY <1>1, <1>4, <1>5, Nodes1
<1>9. dw[k].extent = Behind + vol.pad + Sums(Widths(dw))[k - 1]
  BY <1>3, <1>4 DEF InRow
<1>10. PICK a \in Nat, v \in Nat, s \in Nat, t \in Nat :
         a = Start /\ v = vol.pad /\ s = Sums(Widths(dw))[k - 1] /\ t = session_start /\ a >= t
  <2>1. k - 1 \in 0 .. Len(dw)
    BY <1>1, <1>4
  <2>2. Sums(Widths(dw))[k - 1] \in Nat
    BY <1>1, <2>1, WidthsAre
  <2>3. Start \in Nat /\ session_start \in Nat /\ Start >= session_start /\ vol.pad \in Nat
    BY <1>1
  <2> QED
    BY ONLY <2>2, <2>3
<1>11. Start + vol.pad + Sums(Widths(dw))[k - 1] - session_start = extent[i] - session_start
  <2>1. extent[i] = Behind + vol.pad + Sums(Widths(dw))[k - 1] /\ Behind = Start
    BY <1>1, <1>2, <1>4, <1>9
  <2>2. Start \in Nat /\ vol.pad \in Nat /\ Sums(Widths(dw))[k - 1] \in Nat /\ session_start \in Nat
    BY <1>10
  <2> QED
    BY ONLY <2>1, <2>2
<1>12. Place(k) = (extent[i] - session_start) * Sector
  BY <1>11 DEF Place
<1>13. Place(k) \in Nat
  <2>1. PICK n \in Nat : n = extent[i] - session_start
    BY <1>10, <1>11
  <2> QED
    BY <1>12, <2>1, Parameters, Product
<1>14. k \in 1 .. Len(dw) /\ k \in 1 .. item - 1
  <2>1. PICK n \in Nat : n = Len(dw)
    BY Zenon, <1>1
  <2> QED
    BY <1>1, <1>2, <1>4, <2>1
<1> QED
  BY <1>2, <1>4, <1>5, <1>7, <1>12, <1>13, <1>14 DEF Same

\* Data are where the records say.
LEMMA DataAreInPlace == ASSUME IInv PROVE DataInPlace
<1> SUFFICES ASSUME how = "written", ~ Misled, NEW i \in DOMAIN Files, Stored(i)
             PROVE  \A k \in 0 .. isosize[i] - 1 :
                      LET f == Files[i].file
                      IN Unit(extent[i], k) = IF k < now[f] THEN <<f, k>> ELSE Zero
  BY DEF DataInPlace
<1>1. PICK k \in 1 .. Len(dw) :
        /\ Holds(dw[k], i) /\ dw[k].size = isosize[i]
        /\ Files[dw[k].entry].file = Files[i].file
        /\ Place(k) \in Nat /\ Place(k) = (extent[i] - session_start) * Sector
        /\ k \in 1 .. item - 1
  BY NodeOf
<1>2. Data /\ Writes
  BY Finished
<1>3. dw[k].entry # 0
  BY <1>1 DEF Holds
<1>4. \A u \in 0 .. dw[k].size - 1 :
        LET f == Files[dw[k].entry].file
        IN image[Place(k) + u + 1] = IF u < now[f] THEN <<f, u>> ELSE Zero
  BY <1>1, <1>2, <1>3 DEF Data
<1>5. ASSUME NEW u \in 0 .. isosize[i] - 1
      PROVE  Unit(extent[i], u) = image[Place(k) + u + 1]
  BY <1>1 DEF Unit
<1> QED
  BY <1>1, <1>4, <1>5

\* A file is stored once.
LEMMA IsStoredOnce == ASSUME IInv PROVE StoredOnce
<1> SUFFICES ASSUME how = "written", ~ Misled, NEW i \in DOMAIN Files, Stored(i),
                    Files[i].cached, now[Files[i].file] > 0
             PROVE  LET others == {j \in DOMAIN Files : Stored(j) /\ Files[j].file = Files[i].file}
                    IN /\ \A j \in others : Files[j].cached => extent[j] = extent[i]
                       /\ (\A j \in others : Files[j].cached) =>
                            Cardinality({k \in DOMAIN image : image[k] = <<Files[i].file, 0>>}) = 1
  BY DEF StoredOnce
<1>1. /\ job \in Jobs /\ Data /\ Writes /\ OfFiles(dw) /\ Complete(Arrival)
      /\ DOMAIN dw = 1 .. Len(dw) /\ dw \in Nodes /\ DOMAIN Files = 1 .. Len(Files) /\ Len(Files) \in Nat
      /\ Len(dw) \in Nat /\ image \in Seq(Int \X Nat) /\ Types
      /\ item = (IF Streaming THEN 0 ELSE Len(dw) + 1)
  BY Finished
<1>2. Distinct(dw)
  BY <1>1 DEF Complete
<1>3. PICK f : f = Files[i].file /\ f \in Nat \ {0}
  BY <1>1, JobFacts
<1>4. PICK k \in 1 .. Len(dw) :
        /\ Holds(dw[k], i) /\ dw[k].extent = extent[i] /\ dw[k].size = isosize[i]
        /\ dw[k].entry \in DOMAIN Files /\ Files[dw[k].entry].file = f
        /\ Place(k) \in Nat /\ k \in 1 .. item - 1 /\ ~ Streaming
  BY <1>3, NodeOf
<1>5. dw[k].entry # 0 /\ Files[dw[k].entry].cached
  BY <1>4 DEF Holds, Same
<1>6. ASSUME NEW j \in DOMAIN Files, Stored(j), Files[j].file = f, Files[j].cached
      PROVE  extent[j] = extent[i]
  <2>1. PICK n \in 1 .. Len(dw) :
          /\ Holds(dw[n], j) /\ dw[n].extent = extent[j]
          /\ dw[n].entry \in DOMAIN Files /\ Files[dw[n].entry].file = Files[j].file
    BY <1>6, NodeOf
  <2>2. dw[n].entry # 0 /\ Files[dw[n].entry].cached
    BY <1>6, <2>1 DEF Holds, Same
  <2>4. k = n
    BY <1>1, <1>2, <1>4, <1>5, <1>6, <2>1, <2>2 DEF Same, Distinct
  <2> QED
    BY <1>4, <2>1, <2>4
<1>7. ASSUME \A j \in DOMAIN Files : Stored(j) /\ Files[j].file = f => Files[j].cached
      PROVE  Cardinality({p \in DOMAIN image : image[p] = <<f, 0>>}) = 1
  <2>0. \A p \in DOMAIN image : image[p][1] > 0 =>
          \E n \in 1 .. item - 1 : /\ dw[n].entry # 0 /\ Files[dw[n].entry].file = image[p][1]
                                  /\ p = Place(n) + image[p][2] + 1
    BY <1>1, <1>4 DEF Data
  <2>1. PICK q \in Nat : q = Place(k) + 1 /\ q >= 1
    BY <1>4
  <2>2. /\ Place(k) + dw[k].size <= Len(image)
        /\ \A u \in 0 .. dw[k].size - 1 :
             image[Place(k) + u + 1] = IF u < now[f] THEN <<f, u>> ELSE Zero
    BY <1>1, <1>4, <1>5 DEF Data
  <2>3. PICK z \in Nat \ {0} : z = dw[k].size
    <3>2. dw[k].size > 0
      BY <1>4 DEF Stored
    <3> QED
      BY <1>1, <3>2, Nodes1
  <2>4. image[q] = <<f, 0>>
    <3>1. PICK u \in 0 .. z - 1 : u = 0
      BY <2>3
    <3>3. u < now[f]
      BY <1>3, <3>1
    <3>4. Place(k) + u + 1 = q
      BY <1>4, <2>1, <3>1
    <3> QED
      BY <2>2, <2>3, <3>1, <3>3, <3>4
  <2>5. q \in DOMAIN image
    <3>1. PICK l \in Nat, s \in Nat : l = Len(image) /\ s = Place(k)
      BY <1>1, <1>4
    <3>2. s + z <= l /\ q = s + 1
      BY <2>1, <2>2, <2>3, <3>1
    <3>3. q \in 1 .. l
      BY <3>2
    <3> QED
      BY <1>1, <3>1, <3>3
  <2>6. ASSUME NEW p \in DOMAIN image, image[p] = <<f, 0>> PROVE p = q
    <3>1. image[p][1] = f /\ image[p][2] = 0 /\ image[p][1] > 0
      BY <1>3, <2>6
    <3>2. PICK n \in 1 .. item - 1 : /\ dw[n].entry # 0 /\ Files[dw[n].entry].file = f
                                     /\ p = Place(n) + image[p][2] + 1
      BY <2>0, <3>1
    <3>3. n \in DOMAIN dw
      BY <1>1, <1>4, <3>2
    <3>4. dw[n].entry \in 0 .. Len(Files)
      BY <1>1, <3>3, Nodes1
    <3>5. dw[n].entry \in DOMAIN Files
      <4>1. DOMAIN Files = 1 .. Len(Files) /\ Len(Files) \in Nat
        BY <1>1
      <4> QED
        BY ONLY <3>2, <3>4, <4>1
    <3>7. Files[dw[n].entry].cached
      BY <1>1, <1>7, <3>2, <3>3, <3>5 DEF OfFiles, Stored
    <3>9. k = n
      BY <1>1, <1>2, <1>4, <1>5, <3>2, <3>3, <3>7 DEF Same, Distinct
    <3> QED
      BY <1>4, <2>1, <3>1, <3>2, <3>9
  <2>7. {p \in DOMAIN image : image[p] = <<f, 0>>} = {q}
    BY <2>4, <2>5, <2>6
  <2> QED
    BY <2>7, FS_Singleton
<1> QED
  BY <1>3, <1>6, <1>7

\* The files lie in descending order of weight.
LEMMA LiesByWeight == ASSUME IInv PROVE SortedByWeight
<1> SUFFICES ASSUME how = "written" PROVE SortedByWeight
  BY DEF SortedByWeight
<1> QED
  BY Finished DEF HeavyFirst, SortedByWeight

\* The anchors are where a reader looks for them.
LEMMA AnchorsAreFound == ASSUME IInv PROVE AnchorsFound
<1> DEFINE anchors == {j \in DOMAIN frags : frags[j].name \in {"anchor", "end_anchor", "padend_avdp"}}
<1> SUFFICES ASSUME how = "written", Has("udf")
             PROVE  /\ Unit(session_start + Udf256, 0)[2] \in anchors
                    /\ ~ Sun => Last(image)[2] \in anchors
  BY DEF AnchorsFound
<1> HIDE DEF anchors
<1>1. /\ job \in Jobs /\ Sizing /\ Writes /\ Structures
      /\ Early \in Nat /\ Early >= 3 /\ Len(Late) \in Nat /\ Len(frags) = Early + Len(Late)
      /\ DOMAIN frags = 1 .. Len(frags)
      /\ \A k \in 1 .. Len(Late) : frags[Early + k] = [name |-> Late[k], start |-> 0]
      /\ at = Early + Len(Late) + 1 /\ session_start \in Nat
  BY Finished
<1>2. PICK e \in Nat, l \in Nat : e = Early /\ l = Len(Late) /\ e >= 3
  BY <1>1
<1>3. at = e + l + 1 /\ DOMAIN frags = 1 .. e + l /\ at - 1 = e + l
  BY <1>1, <1>2
<1>5. PICK a \in Nat : a = Anchor /\ a > 3 /\ a < e /\ frags[a].name = "anchor"
  BY <1>1, <1>2, AnchorPlace DEF Writes, IInv, Types, Sizing
<1>6. Unit(session_start + Udf256, 0)[2] \in anchors
  <2>1. PICK s \in Nat, u \in Nat, c \in Nat : s = session_start /\ u = Udf256 /\ c = Sector
    BY <1>1, Parameters
  <2>3. (s + u) - s = u /\ u * c + 0 + 1 = u * c + 1
    BY <2>1, Product
  <2>6. image[u * c + 1] = <<0, a>>
    BY <1>1, <1>2, <1>3, <1>5, <2>1 DEF Structures
  <2>8. a \in anchors
    BY <1>2, <1>3, <1>5 DEF anchors
  <2> QED
    BY <2>1, <2>3, <2>6, <2>8 DEF Unit
<1>7. ASSUME ~ Sun PROVE Last(image)[2] \in anchors
  <2> DEFINE N == {"end_anchor", "padend_avdp"}
  <2>1. "end_anchor" \in N /\ "padend_avdp" \in N
    OBVIOUS
  <2> HIDE DEF N
  <2>2. Late \in Seq(N) /\ l >= 1
    BY <1>2, <1>7, <2>1, LateIs
  <2>3. l \in 1 .. Len(Late)
    BY <1>2, <2>2
  <2>4. Late[l] \in N
    BY <2>2, <2>3
  <2>5. frags[at - 1].name = Late[l]
    <3>1. \A k \in 1 .. Len(Late) : frags[Early + k] = [name |-> Late[k], start |-> 0]
      BY <1>1
    <3>2. frags[Early + l] = [name |-> Late[l], start |-> 0]
      BY ONLY <2>3, <3>1
    <3> QED
      BY <1>2, <1>3, <3>2
  <2> QED
    BY <1>1, <1>2, <1>3, <2>2, <2>4, <2>5 DEF Structures, N, anchors
<1> QED
  BY <1>6, <1>7

\* What the readers of an HFS volume rely on.
LEMMA HfsIsInPlace == ASSUME IInv PROVE HfsInPlace
<1> SUFFICES ASSUME how = "written", Has("hfs"), ~ Misled
             PROVE  /\ \A i \in DOMAIN Files : Stored(i) /\ Files[i].mac =>
                         (extent[i] - session_start) % vol.csize = 0
                    /\ \A k \in 0 .. vol.extra * Sector - 1 :
                         /\ Unit(vol.catalog, k)[1] = 0
                         /\ frags[Unit(vol.catalog, k)[2]].name = "files"
  BY DEF HfsInPlace
<1>1. /\ job \in Jobs /\ Sizing /\ Writes /\ Structures /\ Complete(Arrival)
      /\ Early \in Nat /\ Len(Late) \in Nat
      /\ at = Early + Len(Late) + 1 /\ dw \in Nodes /\ DOMAIN dw = 1 .. Len(dw)
      /\ (~ Streaming => Behind = Start) /\ Start \in Nat
  BY Finished
<1>2. ~ Streaming
  BY <1>1, JobFacts
<1>3. /\ vol.catalog = Behind + vol.pad + Total(Widths(dw))
      /\ \A k \in DOMAIN dw : dw[k].entry # 0 => (dw[k].extent - session_start) % vol.csize = 0
  BY <1>1 DEF Complete
<1>4. ASSUME NEW i \in DOMAIN Files, Stored(i) PROVE (extent[i] - session_start) % vol.csize = 0
  <2>1. PICK k \in 1 .. Len(dw) : Holds(dw[k], i) /\ dw[k].extent = extent[i]
    BY <1>4, NodeOf
  <2> QED
    BY <1>1, <1>3, <2>1 DEF Holds
<1>5. ASSUME NEW k \in 0 .. vol.extra * Sector - 1
      PROVE  Unit(vol.catalog, k) = <<0, Early>>
  <2>1. at > Early
    <3>1. PICK e \in Nat, l \in Nat : e = Early /\ l = Len(Late)
      BY <1>1
    <3> QED
      BY <1>1, <3>1
  <2> DEFINE first == (Start + vol.pad + Total(Widths(dw)) - session_start) * Sector
  <2>2. \A j \in 0 .. vol.extra * Sector - 1 : image[first + j + 1] = <<0, Early>>
    BY <1>1, <2>1 DEF Structures
  <2>3. Unit(vol.catalog, k) = image[(vol.catalog - session_start) * Sector + k + 1]
    BY DEF Unit
  <2>4. (vol.catalog - session_start) * Sector = first
    <3>1. vol.catalog = Start + vol.pad + Total(Widths(dw))
      BY <1>1, <1>2, <1>3
    <3>2. PICK a \in Nat, p \in Nat, t \in Nat, s \in Nat :
            a = Start /\ p = vol.pad /\ t = Total(Widths(dw)) /\ s = session_start
      BY <1>1, Finished, WidthsAre
    <3>3. vol.catalog - session_start = Start + vol.pad + Total(Widths(dw)) - session_start
      BY <3>1, <3>2
    <3> QED
      BY <3>3
  <2> HIDE DEF first
  <2> QED
    BY <2>2, <2>3, <2>4
<1>6. frags[Early].name = "files"
  BY <1>1, <1>2, Shape DEF Sizing
<1> QED
  BY <1>4, <1>5, <1>6

\* The room for the stream is one block less than what is left, if that can be
\* counted.
LEMMA RoomIs ==
    ASSUME job \in Jobs, NEW n \in Nat, Avail(n) * Sector < Word
    PROVE  /\ Avail(n) = 0 => StreamSize(n) = 0
           /\ Avail(n) # 0 => StreamRoom(n) = Avail(n) - 1
<1>1. PICK a \in Nat, c \in Nat \ {0}, w \in Nat \ {0}, i \in Nat :
        a = Avail(n) /\ c = Sector /\ w = Word /\ i = job.input
  BY StreamNumbers, Parameters, JobFacts
<1>2. PICK p \in Nat : p = a * c
  BY <1>1, Product
<1>3. p % w = p
  BY <1>1, <1>2, DivisionIs
<1>4. StreamRoom(n) = Max({p - 1, 0}) \div c
  BY <1>1, <1>2, <1>3 DEF StreamRoom
<1>5. ASSUME a = 0 PROVE StreamSize(n) = 0
  <2>2. Max({p - 1, 0}) = 0
    BY <1>2, <1>5, MaxIs
  <2>5. StreamRoom(n) * Sector = 0
    BY <1>1, <1>4, <2>2, DivisionIs
  <2>6. StreamSize(n) = Min({i, 0})
    BY <1>1, <2>5 DEF StreamSize
  <2> QED
    BY <2>6, MinIs
<1>6. ASSUME a # 0 PROVE StreamRoom(n) = a - 1
  <2>1. PICK b \in Nat : b = a - 1 /\ a = b + 1
    BY <1>6
  <2>2. b * c \in Nat /\ p = b * c + c
    BY <1>2, <2>1
  <2>3. PICK q \in Nat : q = b * c
    BY <2>2
  <2>5. c - 1 \in 0 .. c - 1 /\ p - 1 = b * c + (c - 1)
    BY <1>1, <2>2, <2>3
  <2>6. (p - 1) \div c = b
    BY <2>5, DivisionIs
  <2> QED
    BY <1>4, <2>1, <2>2, <2>3, <2>6, MaxIs
<1> QED
  BY <1>1, <1>5, <1>6

\* The stream lies in the fragment that was made for it.
LEMMA StreamIsKept == ASSUME IInv PROVE StreamKept
<1> DEFINE s == (CHOOSE f \in Range(frags) : f.name = "strfile").start
<1> SUFFICES ASSUME how = "written", Streaming
             PROVE  LET room == Avail(s) - 1
                    IN (room + 1) * Sector < Word =>
                         \A k \in 0 .. Min({job.input, room * Sector}) - 1 : Unit(s, k) = <<1, k>>
  BY DEF StreamKept
<1> HIDE DEF s
<1>1. /\ job \in Jobs /\ Sizing /\ Writes /\ Structures
      /\ Early \in Nat /\ Early >= 3 /\ Len(Late) \in Nat /\ Len(frags) = Early + Len(Late)
      /\ DOMAIN frags = 1 .. Len(frags)
      /\ \A k \in 1 .. Len(Late) : frags[Early + k] = [name |-> Late[k], start |-> 0]
      /\ at = Early + Len(Late) + 1 /\ session_start \in Nat
  BY Finished
<1>2. PICK e \in Nat, l \in Nat : e = Early /\ l = Len(Late) /\ e >= 3
  BY <1>1
<1>3. at = e + l + 1 /\ DOMAIN frags = 1 .. e + l
  BY <1>1, <1>2
<1>4. \A k \in 1 .. e : frags[k].name = Fragments[k]
  BY <1>1, <1>2 DEF Sizing
<1>5. \A k \in 1 .. e + l : frags[k].name = "strfile" <=> k = e - 1
  <2>2. ASSUME NEW k \in e + 1 .. e + l PROVE frags[k].name # "strfile" /\ k # e - 1
    <3>1. PICK j \in 1 .. l : k = e + j
      BY <1>2
    <3>2. frags[e + j].name = Late[j]
      <4>1. \A n \in 1 .. Len(Late) : frags[Early + n] = [name |-> Late[n], start |-> 0]
        BY <1>1
      <4>2. \A n \in 1 .. l : frags[e + n] = [name |-> Late[n], start |-> 0]
        BY ONLY <4>1, <1>2
      <4>3. frags[e + j] = [name |-> Late[j], start |-> 0]
        BY ONLY <4>2, j \in 1 .. l
      <4> QED
        BY <4>3
    <3>4. Late[j] \in Ordinary
      BY <1>2, LateNames
    <3> QED
      BY <1>2, <3>1, <3>2, <3>4 DEF Ordinary
  <2> QED
    BY <1>1, <1>2, <1>4, <2>2, Shape
<1>6. PICK m \in 1 .. e + l : m = e - 1
  BY <1>2
<1>7. s = frags[m].start
  BY <1>3, <1>5, <1>6 DEF Range, s
<1>8. s \in Nat
  <2>3. Early \in 0 .. Early
    BY <1>2
  <2>4. \A k \in 1 .. Early : frags[k].start \in Nat
    BY <1>1, <1>2, <1>4, <2>3, Starts DEF Writes, IInv, Types, Sizing
  <2> QED
    BY <1>2, <1>6, <1>7, <2>4
<1>9. \A k \in 0 .. StreamSize(s) - 1 : Unit(s, k) = <<1, k>>
  <2>1. at > Early - 1
    BY <1>2, <1>3
  <2> DEFINE first == (s - session_start) * Sector
  <2>2. \A k \in 0 .. StreamSize(s) - 1 : image[first + k + 1] = <<1, k>>
    <3>1. frags[Early - 1].start = s
      BY <1>2, <1>6, <1>7
    <3> QED
      BY <1>1, <2>1, <3>1 DEF Structures
  <2> HIDE DEF first
  <2> QED
    BY <2>2 DEF Unit, first
<1>10. PICK a \in Nat, c \in Nat \ {0}, i \in Nat : a = Avail(s) /\ c = Sector /\ i = job.input
  BY <1>1, <1>8, StreamNumbers, Parameters, JobFacts
<1>11. ASSUME (a - 1 + 1) * c < Word
       PROVE  \A k \in 0 .. Min({i, (a - 1) * c}) - 1 : Unit(s, k) = <<1, k>>
  <2>1. Avail(s) * Sector < Word
    BY <1>10, <1>11
  <2>2. CASE a = 0
    <3>2. PICK b \in Int : b = (a - 1) * c /\ b < 0
      BY <2>2
    <3>4. 0 .. b - 1 = {}
      BY <3>2
    <3> QED
      BY <3>2, <3>4, MinIs
  <2>3. CASE a # 0
    BY <1>1, <1>8, <1>9, <1>10, <2>1, <2>3, RoomIs DEF StreamSize
  <2> QED
    BY <2>2, <2>3
<1> QED
  BY <1>10, <1>11

\* A file that was shrunk is the only cause to give up.
LEMMA TypesKept == ASSUME IInv PROVE TypeOK /\ ReadFailsForCause
  BY DEF IInv, Types, Outcome

\* DataInPlace: in an image written to its end every directory record of a file
\* leads to the data of that file.
THEOREM DataReached == Spec => []DataInPlace
<1> QED
  BY DataAreInPlace, Invariance, PTL

\* LayoutKept: types, files stored once and by weight, anchors, clumps of HFS,
\* the stream, and giving up only for a cause.
THEOREM LayoutStands == Spec => []LayoutKept
<1>1. IInv => LayoutKept
  BY IsStoredOnce, LiesByWeight, AnchorsAreFound, HfsIsInPlace, StreamIsKept, TypesKept
     DEF LayoutKept
<1> QED
  BY <1>1, Invariance, PTL
=============================================================================
