---------------------------- MODULE PeriodBilling ----------------------------
(***************************************************************************)
(* What recurring billing promises the client of a schedule: for each date *)
(* of the schedule at most one invoice stands, and a date is invoiced      *)
(* again only after its invoice was canceled (the re-check of              *)
(* source_record_id under the advisory lock, billing.routes.ts).           *)
(***************************************************************************)
EXTENDS Integers

CONSTANTS Schedules, Dates
VARIABLE standing   \* invoices standing for a date of a schedule

Init == standing = [s \in Schedules |-> [d \in Dates |-> 0]]
Invoice(s, d) ==
  /\ standing[s][d] = 0
  /\ standing' = [standing EXCEPT ![s][d] = 1]
Cancel(s, d) ==
  /\ standing[s][d] = 1
  /\ standing' = [standing EXCEPT ![s][d] = 0]

Next == \E s \in Schedules, d \in Dates : Invoice(s, d) \/ Cancel(s, d)
Spec == Init /\ [][Next]_standing
=============================================================================
