----------------------- MODULE MCSubscriptionCheckout -----------------------
(***************************************************************************)
(* A small promotion for TLC: two salons of two businesses want its only   *)
(* place.                                                                  *)
(***************************************************************************)
EXTENDS SubscriptionCheckout, TLC

MCOwnBusiness == [s \in Salon |-> s]

MCSymmetry == Permutations(Salon) \cup Permutations(Request)
=============================================================================
