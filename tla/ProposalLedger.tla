---------------------------- MODULE ProposalLedger ----------------------------
(***************************************************************************)
(* What the virtual file system and the micro-commit promise together,     *)
(* seen from the agents: a ledger of proposals.  A proposal is open from   *)
(* the moment its author submits it; an author has at most one open        *)
(* proposal; an open proposal leaves the ledger in exactly one way, by     *)
(* being committed or by being withdrawn (replaced by its author's next    *)
(* one, or discarded by a clear command).                                  *)
(***************************************************************************)
CONSTANTS
  Proposals,  \* the proposals of the ledger
  Authors,    \* who submits them
  Author      \* the author of each proposal

VARIABLE status

Init == status = [p \in Proposals |-> "new"]

OpenOf(S) == {p \in Proposals : Author[p] \in S /\ status[p] = "open"}

Submit(p) ==
  /\ status[p] = "new"
  /\ status' = [q \in Proposals |->
                  IF q = p THEN "open"
                  ELSE IF q \in OpenOf({Author[p]}) THEN "withdrawn" ELSE status[q]]

Withdraw(S) ==
  status' = [q \in Proposals |-> IF q \in OpenOf(S) THEN "withdrawn" ELSE status[q]]

Commit(p) ==
  /\ status[p] = "open"
  /\ status' = [status EXCEPT ![p] = "committed"]

Next ==
  \/ \E p \in Proposals : Submit(p) \/ Commit(p)
  \/ \E S \in SUBSET Authors : Withdraw(S)

Spec == Init /\ [][Next]_status
=============================================================================
