--------------------------- MODULE MCCreditLedger ---------------------------
(***************************************************************************)
(* Small accounts for TLC.                                                 *)
(***************************************************************************)
EXTENDS CreditLedger, TLC

MCGrant ==
  {[name |-> "monthly0", bucket |-> "monthly", amount |-> 2, expiresAt |-> 1],
   [name |-> "starter", bucket |-> "starter", amount |-> 1, expiresAt |-> NoExpiry]}

\* Two messages against one top-up and a grant that does not expire.
MCTopupGrant ==
  {[name |-> "starter", bucket |-> "starter", amount |-> 1, expiresAt |-> NoExpiry]}

MCSymmetry == Permutations(Reservation)
=============================================================================
