--------------------------- MODULE DeliveryLedger ---------------------------
(***************************************************************************)
(* What the event bus promises of deliveries, with the queues left out: a  *)
(* publication owes each subscription it matches one delivery, and that    *)
(* delivery has one fate.                                                  *)
(***************************************************************************)
CONSTANTS Pubs, Subs
VARIABLE fate

Fates == {"none", "waiting", "acked", "dead"}

Init == fate = [p \in Pubs |-> [s \in Subs |-> "none"]]

\* Publication p opens its deliveries, waiting or dead at once.  To let one wait,
\* at most one delivery that waits for the same subscription may be evicted.
Publish(p) ==
    /\ fate' \in [Pubs -> [Subs -> Fates]]
    /\ \A s \in Subs : fate[p][s] = "none" /\ fate'[p][s] \in {"none", "waiting", "dead"}
    /\ \A q \in Pubs \ {p}, s \in Subs :
          fate'[q][s] # fate[q][s] =>
              /\ fate[q][s] = "waiting" /\ fate'[q][s] = "dead"
              /\ fate'[p][s] = "waiting"
              /\ \A r \in Pubs \ {p, q} : fate'[r][s] = fate[r][s]

\* The subscriber, or the exhausted retries, settle one waiting delivery.
Settle(p, s) ==
    /\ fate[p][s] = "waiting"
    /\ \E f \in {"acked", "dead"} : fate' = [fate EXCEPT ![p][s] = f]

Next == \E p \in Pubs : Publish(p) \/ \E s \in Subs : Settle(p, s)

Spec == Init /\ [][Next]_fate

=============================================================================
