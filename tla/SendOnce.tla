----------------------------- MODULE SendOnce -----------------------------
(***************************************************************************)
(* What the communication pipeline promises the salon for each message it  *)
(* is asked to deliver (contract sections 7.4 and 18): the provider is     *)
(* asked at most once, the message is paid for once and only after the     *)
(* provider accepted it, and the payment comes back at most once and only  *)
(* for a message that terminally failed.                                   *)
(***************************************************************************)
EXTENDS Naturals

CONSTANT Message

VARIABLES
  asked,     \* "no", or what the provider made of the request
  paid,      \* charges made for the message
  returned   \* charges given back

sendVars == <<asked, paid, returned>>

Accepted(m) == asked[m] \in {"accepted", "delivered", "failed"}

Init ==
  /\ asked = [m \in Message |-> "no"]
  /\ paid = [m \in Message |-> 0]
  /\ returned = [m \in Message |-> 0]

Ask(m) ==
  /\ asked[m] = "no"
  /\ \E answer \in {"accepted", "refused", "lost"} : asked' = [asked EXCEPT ![m] = answer]
  /\ UNCHANGED <<paid, returned>>

Report(m) ==
  /\ asked[m] = "accepted"
  /\ \E final \in {"delivered", "failed"} : asked' = [asked EXCEPT ![m] = final]
  /\ UNCHANGED <<paid, returned>>

Charge(m) ==
  /\ Accepted(m)
  /\ paid[m] = 0
  /\ paid' = [paid EXCEPT ![m] = 1]
  /\ UNCHANGED <<asked, returned>>

Return(m) ==
  /\ asked[m] = "failed"
  /\ paid[m] = 1 /\ returned[m] = 0
  /\ returned' = [returned EXCEPT ![m] = 1]
  /\ UNCHANGED <<asked, paid>>

Next == \E m \in Message : Ask(m) \/ Report(m) \/ Charge(m) \/ Return(m)

Spec == Init /\ [][Next]_sendVars
=============================================================================
