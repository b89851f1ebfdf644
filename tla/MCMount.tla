------------------------------ MODULE MCMount ------------------------------
(***************************************************************************)
(* Mount for TLC: a root disk with a directory in a directory and the      *)
(* nodes of three disks, a second disk with a directory and a node of the  *)
(* third, a third disk, and a fourth without file system.                  *)
(***************************************************************************)
EXTENDS Mount, TLC

CONSTANTS p1, p2, o1

MCProcs == {p1, p2}
MCOfts == {o1}
MCNodes == {0} \X (1 .. 7) \cup {1} \X (1 .. 3) \cup {2} \X (1 .. 2)

MCEntries ==
  <<0, 1>> :> (".." :> <<0, 1>> @@ "." :> <<0, 1>> @@ "a" :> <<0, 2>> @@ "s" :> <<0, 4>> @@ "t" :> <<0, 5>> @@ "u" :> <<0, 6>>)
  @@ <<0, 2>> :> (".." :> <<0, 1>> @@ "a" :> <<0, 3>> @@ "x.c" :> <<0, 7>>)
  @@ <<0, 3>> :> (".." :> <<0, 2>>)
  @@ <<1, 1>> :> (".." :> <<1, 1>> @@ "." :> <<1, 1>> @@ "a" :> <<1, 2>> @@ "t" :> <<1, 3>>)
  @@ <<1, 2>> :> (".." :> <<1, 1>>)
  @@ <<2, 1>> :> (".." :> <<2, 1>> @@ "a" :> <<2, 2>>)
  @@ <<2, 2>> :> (".." :> <<2, 1>>)
MCSpecials == <<0, 4>> :> 1 @@ <<0, 5>> :> 2 @@ <<0, 6>> :> 3 @@ <<1, 3>> :> 2

MCPaths ==
  {<<"/", "s">>, <<"/", "t">>, <<"/", "u">>, <<"/", "a">>, <<"/", "a", "a">>, <<"/", "a", "t">>,
   <<"..">>, <<"x.c">>}
MCSymmetry == Permutations(MCProcs)

=============================================================================
