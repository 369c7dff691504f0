------------------------------ MODULE PostOnce ------------------------------
(***************************************************************************)
(* What the review of a client's entries promises the ledger, without the  *)
(* review: an entry waits, and then either it is withdrawn and nothing is  *)
(* ever posted for it, or it is posted, once.  What was posted can be      *)
(* removed from the ledger, and does not come back.                        *)
(***************************************************************************)
EXTENDS Naturals

CONSTANT Drafts
VARIABLES state,  \* of each entry
          posted  \* how often something was posted for it

vars == <<state, posted>>

TypeOK ==
  /\ state \in [Drafts -> {"absent", "waiting", "withdrawn", "posted", "removed"}]
  /\ posted \in [Drafts -> {0, 1}]

Init ==
  /\ state = [d \in Drafts |-> "absent"]
  /\ posted = [d \in Drafts |-> 0]

Submit(d) ==
  /\ state[d] = "absent"
  /\ state' = [state EXCEPT ![d] = "waiting"]
  /\ UNCHANGED posted

Withdraw(d) ==
  /\ state[d] = "waiting"
  /\ state' = [state EXCEPT ![d] = "withdrawn"]
  /\ UNCHANGED posted

Post(d) ==
  /\ state[d] = "waiting"
  /\ state' = [state EXCEPT ![d] = "posted"]
  /\ posted' = [posted EXCEPT ![d] = 1]

Remove(d) ==
  /\ state[d] = "posted"
  /\ state' = [state EXCEPT ![d] = "removed"]
  /\ UNCHANGED posted

Next == \E d \in Drafts : Submit(d) \/ Withdraw(d) \/ Post(d) \/ Remove(d)

Spec == Init /\ [][Next]_vars
=============================================================================
