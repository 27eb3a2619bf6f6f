---------------------------- MODULE MCMicroCommit ----------------------------
(***************************************************************************)
(* Two or three agents with two proposals each.  The first proposals of    *)
(* the agents overlap critically, each second one steps aside.             *)
(***************************************************************************)
EXTENDS MicroCommit

CONSTANTS a1, a2, p1, p2, q1, q2

OneFile(s, e) == <<[path |-> "a.py", symbols |-> <<[name |-> "f", start |-> s, end |-> e]>>]>>

MCAuthor == [p \in Proposals |-> IF p \in {p1, p2} THEN a1 ELSE a2]

MCContent ==
  [p \in Proposals |->
     CASE p = p1 -> OneFile(1, 4)
       [] p = p2 -> OneFile(20, 22)
       [] p = q1 -> OneFile(3, 6)
       [] p = q2 -> OneFile(10, 12)]
=============================================================================
