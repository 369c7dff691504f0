----------------------------- MODULE PlannedDates -----------------------------
(***************************************************************************)
(* The dates a schedule stands for once staff have saved it: the date they *)
(* entered and every step days after it, up to a horizon.  What the        *)
(* invoicing and the payroll schedules are measured against.               *)
(***************************************************************************)
EXTENDS Integers

PlanFrom(first, step, last) == {d \in first..last : (d - first) % step = 0}
=============================================================================
