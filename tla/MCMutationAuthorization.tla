---------------------- MODULE MCMutationAuthorization ----------------------
(***************************************************************************)
(* Small instances of MutationAuthorization for TLC.                       *)
(***************************************************************************)
EXTENDS MutationAuthorization, TLC

CONSTANTS sample, mode, r1, r2, r3, k1, k2, k3, p1, p2

\* sample_ip_helper_once is executable and single use; change_network_provider_mode
\* is reviewed only, with an optional idempotency reference.
MCIdempotencyOf == [c \in Commands |-> IF c = sample THEN "SingleUse" ELSE "Optional"]
MCOutcomeOf == [c \in Commands |-> IF c = sample THEN "ApprovedForExecution" ELSE "ApprovedDryRun"]

\* Intent and idempotency references are opaque to the evaluator.
RefSymmetry == Permutations(Refs) \cup Permutations(Idems)

\* Two instances in one run: all commands and time in one session and epoch, or
\* several sessions and epochs of one command at one time.
OneSession == sessions <= 1 /\ epoch = 1
OneCommand == /\ now = 0
              /\ \A k \in DOMAIN idem : k.command = sample
              /\ \A k \in DOMAIN seen : seen[k].hash.command = sample
OneInstance == AuthorizationNext /\ (OneSession \/ OneCommand)'

=============================================================================
