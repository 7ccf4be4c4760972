-------------------------- MODULE MonthlyAllowance --------------------------
(***************************************************************************)
(* What the billing system promises a subscribed salon (contract sections  *)
(* 6.3 to 6.5): each month that is paid to its end brings one allowance,   *)
(* granted during that month and never after it; a change to a bigger plan *)
(* tops the month up to the bigger allowance; nothing is ever taken back.  *)
(***************************************************************************)
EXTENDS Integers

CONSTANTS
  Month,        \* months of the calendar, 0..n
  Allowance,    \* the allowances the plans carry
  Lag           \* how late within the next month a grant may be entered

VARIABLES
  month,        \* the present
  paid,         \* months before this one are paid for
  granted       \* credits granted per month

allowanceVars == <<month, paid, granted>>

Init == month = 0 /\ paid = 0 /\ granted = [m \in Month |-> 0]

Pass ==
  /\ month' = month + 1
  /\ UNCHANGED <<paid, granted>>

Pay ==
  /\ paid' > paid
  /\ UNCHANGED <<month, granted>>

\* The first grant of a month, or the top-up to a bigger allowance.
Grant(m) ==
  /\ m <= month /\ month - m <= Lag
  /\ m < paid
  /\ \E a \in Allowance : a > granted[m] /\ granted' = [granted EXCEPT ![m] = a]
  /\ UNCHANGED <<month, paid>>

Next == Pass \/ Pay \/ \E m \in Month : Grant(m)

Spec == Init /\ [][Next]_allowanceVars
=============================================================================
