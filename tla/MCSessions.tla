---------------------------- MODULE MCSessions -----------------------------
(* Three sessions of two files whose names are alike in ISO 9660. *)
EXTENDS Sessions

A == <<1, -1>>    \* longname1
B == <<1, -2>>    \* longname2
K == <<2, 0>>     \* BACKUP
R(n) == <<2 + n, 0>>

MCNoName == <<-1, -1>>
MCTransTbl == <<0, 0>>

\* A is absent, a file or a directory that may hold A and B, B is absent or a
\* file.  The directory has the size and date of the first version of A.
Choice(p, versions) == {NoTree} \cup {p :> v : v \in versions}
Directory == {(<<A>> :> -1) @@ a @@ b : a \in Choice(<<A, A>>, {1}), b \in Choice(<<A, B>>, {1})}
MCTrees == {a @@ b : a \in Choice(<<A>>, {1, 2}) \cup Directory, b \in Choice(<<B>>, {1, 2})}

MCOrders == {<<A, B>>, <<B, A>>}

Options(rr, tables, roots, olds) == [rr |-> rr, tables |-> tables, roots |-> roots, olds |-> olds]
No == <<>>
MCJobs ==
  {Options(rr, tables, <<No, No, No>>, <<No, No, No>>) : rr, tables \in BOOLEAN} \cup
  {Options(TRUE, FALSE, <<<<R(1)>>, <<R(2)>>>>, <<No, <<R(1)>>>>),
   Options(TRUE, FALSE, <<No, <<R(2)>>>>, <<No, No>>),
   Options(TRUE, TRUE, <<<<R(1)>>, No>>, <<No, <<R(1)>>>>),
   Options(TRUE, FALSE, <<<<R(1)>>, <<R(2)>>>>, <<No, <<K>>>>),
   Options(TRUE, FALSE, <<No, <<R(2)>>>>, <<No, <<A>>>>),
   Options(TRUE, FALSE, <<<<K, R(1)>>, <<K, R(2)>>>>, <<No, <<K, R(1)>>>>)}

TableJobs == {Options(FALSE, TRUE, <<No, No, No>>, <<No, No, No>>)}
=============================================================================
