------------------------------ MODULE MCTaskTree ------------------------------
(***************************************************************************)
(* A file of five lines and two leaves.  The first leaf's coder replaces a *)
(* line, with context, in one or two hunks the first of which grows; the   *)
(* second leaf's works below, above, in the same place, or makes no sense. *)
(***************************************************************************)
EXTENDS TaskTree

CONSTANTS n1, n2

Hunk(start, remove, add) == [start |-> start, remove |-> remove, add |-> add]

MCLeaves == <<n1, n2>>
MCText == {"a", "b", "c", "d", "e", "w", "x", "y", "z"}
MCBase == <<"a", "b", "c", "d", "e">>

MCDiffs ==
  [n \in {n1, n2} |->
     IF n = n1
     THEN {<<Hunk(4, <<"d">>, <<"x">>)>>,
           <<Hunk(3, <<"c">>, <<"c", "x">>), Hunk(5, <<"e">>, <<"y">>)>>}
     ELSE {<<Hunk(1, <<"a", "b">>, <<"a", "z", "b">>)>>,
           <<Hunk(5, <<"e">>, <<>>)>>,
           <<Hunk(4, <<"d">>, <<"w">>)>>,
           <<Hunk(Unparsable, <<>>, <<"z">>)>>}]
=============================================================================
