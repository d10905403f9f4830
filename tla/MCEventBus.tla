----------------------------- MODULE MCEventBus -----------------------------
(***************************************************************************)
(* Small instances of EventBus for TLC.                                    *)
(***************************************************************************)
EXTENDS EventBus

CONSTANTS t1, s1, s2, e1, e2

\* A P1 topic is protected (Topic::new); a definition that replaces it is not.
MCTopicConfigs == {[default |-> 1, protected |-> TRUE, major |-> 1],
                   [default |-> 2, protected |-> FALSE, major |-> 1]}

\* A one-slot queue with the default three attempts, and a two-slot queue that
\* accepts the lanes P1 and P4 and does not retry.
MCSubConfigs == {[topic |-> t1, accepted |-> {}, maxAttempts |-> 3, capacity |-> 1, active |-> TRUE],
                 [topic |-> t1, accepted |-> {1, 4}, maxAttempts |-> 1, capacity |-> 2, active |-> TRUE]}
MCPublishLanes == {FromTopic, 4}
MCSymmetry == Permutations(Subs)

=============================================================================
