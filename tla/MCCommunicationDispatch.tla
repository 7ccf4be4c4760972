---------------------- MODULE MCCommunicationDispatch ----------------------
(***************************************************************************)
(* Small pipelines for TLC: one SMS intent under two overlapping           *)
(* invocations, and an email in one batch with a message that is given up. *)
(***************************************************************************)
EXTENDS CommunicationDispatch, TLC

MCSalonOf == [i \in Intent |-> CHOOSE s \in Salon : TRUE]
MCSms == [i \in Intent |-> "sms"]
MCScheduled == [i \in Intent |-> 0]
MCNotAfter == [i \in Intent |-> 2]
MCId == CHOOSE f \in [Intent -> 1..Cardinality(Intent)] : \A i, j \in Intent : f[i] = f[j] => i = j

\* One salon per intent; the first intent is an email, the second an SMS whose
\* template is unknown.
MCOwnSalon == CHOOSE f \in [Intent -> Salon] : \A i, j \in Intent : f[i] = f[j] => i = j
MCEmailFirst == [i \in Intent |-> IF MCId[i] = 1 THEN "email" ELSE "sms"]
MCKnown == {i \in Intent : MCId[i] # 2}

MCSymmetry == Permutations(Worker)
=============================================================================
