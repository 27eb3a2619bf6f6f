------------------------------- MODULE MergeDiffs -------------------------------
(***************************************************************************)
(* The merge service: unified diffs of one base, applied one after the     *)
(* other.  A line is a value; a hunk is its start in the original, the     *)
(* lines it expects there (context and removed ones), and the lines it     *)
(* puts in their place (context and added ones); a diff is a sequence of   *)
(* hunks.  Lines are placed by number and not compared with the file.      *)
(***************************************************************************)
EXTENDS Integers, Sequences, FiniteSets, SequencesExt, Functions

Smaller(a, b) == IF a < b THEN a ELSE b
Larger(a, b) == IF a < b THEN b ELSE a

\* A Python slice bound: negative ones count from the end, others are clipped.
Bound(i, n) == IF i < 0 THEN Larger(0, n + i) ELSE Smaller(i, n)

\* lines[from:to] = add
AssignSlice(lines, from, to, add) ==
  LET lo == Bound(from, Len(lines))
      hi == Larger(lo, Bound(to, Len(lines)))
  IN SubSeq(lines, 1, lo) \o add \o SubSeq(lines, hi + 1, Len(lines))

\* Stands for the start of a hunk whose header cannot be parsed.
Unparsable == -1

Growth(hunk) == Len(hunk.add) - Len(hunk.remove)

\* Mutant of ApplyHunk: the offset of the hunks before is forgotten.
ApplyHunkNoOffset(patch, hunk) ==
  LET pos == hunk.start - 1
      endPos == pos + Len(hunk.remove)
  IN IF patch.failed \/ hunk.start = Unparsable \/ endPos > Len(patch.lines)
     THEN [patch EXCEPT !.failed = TRUE]
     ELSE [patch EXCEPT !.lines = AssignSlice(@, pos, endPos, hunk.add),
                        !.offset = @ + Growth(hunk)]

ApplyHunk(patch, hunk) ==
  LET pos == hunk.start - 1 + patch.offset
      endPos == pos + Len(hunk.remove)
  IN IF patch.failed \/ hunk.start = Unparsable \/ endPos > Len(patch.lines)
     THEN [patch EXCEPT !.failed = TRUE]
     ELSE [patch EXCEPT !.lines = AssignSlice(@, pos, endPos, hunk.add),
                        !.offset = @ + Growth(hunk)]

ApplyUnifiedDiff(base, diff) ==
  FoldLeft(ApplyHunk, [lines |-> base, offset |-> 0, failed |-> FALSE], diff)

\* One diff more: an empty one is skipped, one that cannot be placed is a conflict.
ApplyNext(merge, diff) ==
  LET patched == ApplyUnifiedDiff(merge.content, diff)
  IN CASE diff = <<>> -> [merge EXCEPT !.index = @ + 1]
       [] diff # <<>> /\ patched.failed ->
            [merge EXCEPT !.index = @ + 1, !.conflicts = Append(@, merge.index)]
       [] OTHER -> [merge EXCEPT !.index = @ + 1, !.content = patched.lines]

MergeAll(base, diffs) ==
  FoldLeft(ApplyNext, [content |-> base, index |-> 1, conflicts |-> <<>>], diffs)
-----------------------------------------------------------------------------
(***************************************************************************)
(* The reference: all hunks replace their lines of the base at once.       *)
(***************************************************************************)

Lines(hunk) == hunk.start..(hunk.start + Len(hunk.remove) - 1)

Hunks(diffs) == UNION {{<<i, h>> : h \in ToSet(diffs[i])} : i \in DOMAIN diffs}

\* Every hunk expects lines of the base, and no two the same line.
Disjoint(base, diffs) ==
  /\ \A x \in Hunks(diffs) :
       /\ Lines(x[2]) # {} /\ Lines(x[2]) \subseteq DOMAIN base
       /\ x[2].remove = SubSeq(base, x[2].start, x[2].start + Len(x[2].remove) - 1)
  /\ \A x, y \in Hunks(diffs) : x # y => Lines(x[2]) \cap Lines(y[2]) = {}

\* As in every unified diff, the hunks of a diff follow each other in the file.
Ascending(diff) == \A j, k \in DOMAIN diff : j < k => diff[j].start < diff[k].start

\* A hunk that changes the number of lines is below all the hunks of later diffs.
Orderly(base, diffs) ==
  /\ Disjoint(base, diffs)
  /\ \A i \in DOMAIN diffs : Ascending(diffs[i])
  /\ \A x, y \in Hunks(diffs) :
       x[1] < y[1] /\ Growth(x[2]) # 0 => y[2].start < x[2].start

\* What stands in place of line i of the base.
Piece(base, hunks, i) ==
  IF \E h \in hunks : i = h.start THEN (CHOOSE h \in hunks : i = h.start).add
  ELSE IF \E h \in hunks : i \in Lines(h) THEN <<>>
  ELSE <<base[i]>>

Replaced(base, hunks) == FlattenSeq([i \in DOMAIN base |-> Piece(base, hunks, i)])

Intended(base, diffs) == Replaced(base, {x[2] : x \in Hunks(diffs)})
=============================================================================
