------------------------------ MODULE MCAnalysis ------------------------------
(***************************************************************************)
(* Submissions for TLC: one function f at lines 1-4 and at every           *)
(* interesting distance from it (sharing a line, 3 and 4 lines away), a    *)
(* second symbol in the same file, a file named twice in one submission,   *)
(* a file whose parser found nothing; and the sample of the backend panel. *)
(***************************************************************************)
EXTENDS Analysis

Sym(n, s, e) == [name |-> n, start |-> s, end |-> e]
File(p, syms) == [path |-> p, symbols |-> syms]

MCSubmissions == SamplePayload \cup
  {<<File("a.py", <<Sym("f", 1, 4)>>)>>,
   <<File("a.py", <<Sym("f", 4, 6)>>)>>,
   <<File("a.py", <<Sym("f", 7, 9)>>)>>,
   <<File("a.py", <<Sym("f", 8, 9)>>)>>,
   <<File("a.py", <<Sym("f", 2, 3), Sym("g", 5, 9)>>)>>,
   <<File("a.py", <<Sym("f", 1, 1), Sym("g", 2, 5), Sym("g", 8, 8)>>), File("b.py", <<>>)>>,
   <<File("b.py", <<Sym("f", 3, 3)>>), File("a.py", <<Sym("f", 3, 3)>>),
     File("a.py", <<Sym("f", 3, 3)>>)>>}
=============================================================================
