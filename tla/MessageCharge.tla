--------------------------- MODULE MessageCharge ---------------------------
(***************************************************************************)
(* What the credit account promises the sender of a message (contract      *)
(* 7.4, "Accepted by Twilio consumes the credit; a later terminal delivery *)
(* failure returns it"): a message is first held at its price, then either *)
(* charged that price exactly once or let go for nothing, and a charged    *)
(* message gets back at most what it paid.                                 *)
(***************************************************************************)
EXTENDS Naturals

CONSTANT Reservation

VARIABLES
  phase,     \* "none", "held", "charged" or "free" per reservation
  price,     \* segments held
  paid,      \* credits consumed
  returned   \* credits given back

chargeVars == <<phase, price, paid, returned>>

Init ==
  /\ phase = [r \in Reservation |-> "none"]
  /\ price = [r \in Reservation |-> 0]
  /\ paid = [r \in Reservation |-> 0]
  /\ returned = [r \in Reservation |-> 0]

Hold(r) ==
  /\ phase[r] = "none"
  /\ phase' = [phase EXCEPT ![r] = "held"]
  /\ price'[r] \in Nat \ {0}
  /\ price' = [price EXCEPT ![r] = price'[r]]
  /\ UNCHANGED <<paid, returned>>

Charge(r) ==
  /\ phase[r] = "held"
  /\ phase' = [phase EXCEPT ![r] = "charged"]
  /\ paid' = [paid EXCEPT ![r] = price[r]]
  /\ UNCHANGED <<price, returned>>

LetGo(r) ==
  /\ phase[r] = "held"
  /\ phase' = [phase EXCEPT ![r] = "free"]
  /\ UNCHANGED <<price, paid, returned>>

GiveBack(r) ==
  /\ phase[r] = "charged"
  /\ \E n \in (returned[r] + 1)..paid[r] : returned' = [returned EXCEPT ![r] = n]
  /\ UNCHANGED <<phase, price, paid>>

Next == \E r \in Reservation : Hold(r) \/ Charge(r) \/ LetGo(r) \/ GiveBack(r)

Spec == Init /\ [][Next]_chargeVars
=============================================================================
