----------------------- MODULE MCSubscriptionBilling -----------------------
(***************************************************************************)
(* Small subscriptions for TLC.                                            *)
(***************************************************************************)
EXTENDS SubscriptionBilling

\* A subscription on one plan, between two plans, or three; the offer `retired'
\* is unknown to the code.
MCOnePlan == {"starter"}
MCTwoPlans == {"starter", "pro"}
MCThreePlans == {"starter", "pro", "elite"}
MCOffers == {"starter", "pro", "elite", "retired"}
MCPlanOf == [offer \in Catalogue |-> offer]
MCCredits == [plan \in Plan |-> CASE plan = "starter" -> 1 [] plan = "pro" -> 2 [] plan = "elite" -> 4]

\* The subscription events alone, and those of a subscription that is paid.
MCSubscription == {"subscription.created", "subscription.updated", "subscription.deleted"}
MCPaid == {"subscription.created", "subscription.updated", "invoice.payment_succeeded"}
=============================================================================
