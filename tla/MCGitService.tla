---------------------------- MODULE MCGitService ----------------------------
(***************************************************************************)
(* Two files, two users.  p1 of u changes both files; p3 of v changes one  *)
(* of them to something else, from another base, and fails at the other.   *)
(* If p3's base of f counts, m1 decides on what f already is.              *)
(***************************************************************************)
EXTENDS GitService

CONSTANTS f, g, u, v, p1, p3, m1, m2, m3, c1

Change1(file, base, new) == [file |-> file, base |-> base, new |-> new]

MCPushUser == [p \in Pushes |-> IF p = p1 THEN u ELSE v]

MCPushFiles ==
  [p \in Pushes |->
     IF p = p1 THEN <<Change1(f, "base", "x"), Change1(g, "base", "x")>>
     ELSE <<Change1(f, "d", "y"), Change1(g, "base", "base")>>]

MCMergeFile == [m \in Merges |-> IF m = m3 THEN g ELSE f]
MCDecided == [m \in Merges |-> IF m = m1 THEN "d" ELSE "e"]
MCCommitPush == [c \in Commits |-> p1]
=============================================================================
