------------------------------ MODULE MCBTree -------------------------------
EXTENDS BTree

Ins(key) == [do |-> "insert", key |-> key]
Del(key) == [do |-> "delete", key |-> key]
Create(key) == [name |-> "create", steps |-> <<Ins(key)>>]
Mkdir(dir, thread) == [name |-> "mkdir", steps |-> <<Ins(dir), Ins(thread)>>]
Delete(key) == [name |-> "delete", steps |-> <<Del(key)>>]
Rmdir(dir, thread) == [name |-> "rmdir", steps |-> <<Del(dir), Del(thread)>>]
Rename(from, to) == [name |-> "rename", steps |-> <<Del(from), Ins(to)>>]

Job(len, script, more, clumps) == [len |-> len, script |-> script, more |-> more, clumps |-> clumps]

\* The root directory is always the first record, and its thread the second.
Root == Mkdir(1, 2)
Rest(n, len) == <<78, 54>> \o [i \in 1..n |-> len]

\* Files with names of several lengths and a directory, which fill a node to the
\* last byte, and a volume that may get full.
Mixed == <<78, 54, 118, 140, 86, 54, 118, 118, 136>>
Files == {3, 4, 7, 8, 9}
Small(clumps) ==
  Job(Mixed, <<Root>>,
      {Create(k) : k \in Files} \cup {Delete(k) : k \in Files} \cup {Mkdir(5, 6), Rmdir(5, 6)}, clumps)

\* Ascending keys leave leaves with one long record each: the script makes
\* three levels.  Calls then come to the first, the middle and the last leaves.
CreateAll(from, to) == [i \in 1..to - from + 1 |-> Create(from + i - 1)]
Deep(files) ==
  Job(Rest(18, 140), <<Root>> \o CreateAll(3, 16),
      {Delete(k) : k \in files} \cup {Create(k) : k \in {17, 18} \cup files}, 9)

\* The script fills some leaves and uses the nodes up but for two: then records
\* are renamed to the last leaf, each time with a split.
CreateEach(keys) == [i \in DOMAIN keys |-> Create(keys[i])]
Tight ==
  Job(Rest(25, 140), <<Root>> \o CreateEach(<<3, 6, 9, 12, 15, 18, 4, 5, 7, 8, 10, 11, 21, 24>>),
      {Rename(8, 25), Rename(11, 26), Rename(7, 27)}, 1)

MCJobs == {Small(3), Small(0), Deep({3, 4, 8, 9}), Deep({10, 14, 15, 16}), Tight}
=============================================================================
