----------------------------- MODULE MCWorkingTree -----------------------------
(***************************************************************************)
(* Three pushes to two branches: the first two of one file each, the third *)
(* to the branch of the first and of both files, one of them unchanged.    *)
(***************************************************************************)
EXTENDS WorkingTree, TLC

CONSTANTS f, g, k1, k2, k3, b1, b2

MCBranchOf == (k1 :> b1) @@ (k2 :> b2) @@ (k3 :> b1)
MCChanges == (k1 :> (f :> "x")) @@ (k2 :> (g :> "y")) @@ (k3 :> (f :> "x") @@ (g :> "y"))
=============================================================================
