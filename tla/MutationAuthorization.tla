------------------------ MODULE MutationAuthorization ------------------------
(***************************************************************************)
(* How the elevated service authorises a mutation and lets it be executed  *)
(* once (src/crates/app_core/src/mutation_authorization.rs), driven by the *)
(* IPC sessions of src/service/elevated/src/runtime_ipc.rs: a client has   *)
(* an intent evaluated, is given a decision, and presents the decision     *)
(* with the intent again to have the command executed.                     *)
(*                                                                         *)
(* The evaluator keeps three bounded maps; when one is full an arbitrary   *)
(* entry goes (the first of a hash map).  The properties are about what    *)
(* survives that, the clock, a change of the ownership epoch and the end   *)
(* of a session.  The counters behind the status read model (denied,       *)
(* expired, replay, attempts) are reported only and are left out; a call   *)
(* that only counts is a stuttering step.                                  *)
(***************************************************************************)
EXTENDS Integers, FiniteSets, Sequences, Functions

CONSTANTS
    Refs,            \* intent references
    Idems,           \* idempotency references
    Commands,        \* mutation commands
    Payloads,        \* what else the request hash covers
    IdempotencyOf,   \* the idempotency policy of each command
    OutcomeOf,       \* what the policy decides of an unobjectionable intent
    TTL,             \* request_ttl_bucket, in clock ticks
    MaxRecords,      \* MAX_SESSION_AUTHORIZATION_RECORDS
    MaxSessions, MaxEpoch, MaxTime, MaxApprovals, MaxUses   \* bounds of a run

NoIdem == "no idempotency reference"
Outcomes == {"ApprovedForExecution", "ApprovedDryRun", "Denied", "NotImplemented",
             "ResponseCapabilityBlocked"}
Denials == {"SessionMismatch", "Refused", "OwnershipEpochMismatch", "Expired", "ReplayRejected"}

ASSUME PolicyAssumption ==
    /\ IdempotencyOf \in [Commands -> {"Required", "Optional", "Forbidden", "SingleUse"}]
    /\ OutcomeOf \in [Commands -> Outcomes]
    \* MutationCommandPolicy::validate: what may be executed is single use.
    /\ \A c \in Commands : OutcomeOf[c] = "ApprovedForExecution" => IdempotencyOf[c] = "SingleUse"
ASSUME IdemAssumption == NoIdem \notin Idems
ASSUME LimitAssumption == TTL \in Nat \ {0} /\ MaxRecords \in Nat \ {0}
ASSUME BoundAssumption ==
    /\ MaxSessions \in Nat /\ MaxEpoch \in Nat /\ MaxTime \in Nat
    /\ MaxApprovals \in Nat /\ MaxUses \in Nat

VARIABLES
    active,      \* active_session_reference; 0 when no client is connected
    sessions,    \* number of sessions opened so far: their references are 1 .. sessions
    epoch,       \* ownership_epoch of the runtime summary
    now,         \* milliseconds since clock_origin
    idem,        \* idempotency_records
    seen,        \* seen_intents
    exec,        \* execution_records
    approvals    \* history: the approvals given; the position is the decision_ref

authorizationVars == <<active, sessions, epoch, now, idem, seen, exec, approvals>>
maps == <<idem, seen, exec, approvals>>

Intent == [session : Nat, ref : Refs, idem : Idems \cup {NoIdem}, command : Commands,
           payload : Payloads, epoch : Nat]

\* bounded_request_hash: neither intent_ref nor idempotency_ref is hashed.
RequestHash(i) == [session |-> i.session, command |-> i.command, payload |-> i.payload,
                   epoch |-> i.epoch]
Hash == [session : Nat, command : Commands, payload : Payloads, epoch : Nat]

IdempotencyKey(i) == [session |-> i.session, command |-> i.command, idem |-> i.idem]
IntentKey(i) == [session |-> i.session, ref |-> i.ref]
IdemKeys == [session : Nat, command : Commands, idem : Idems]
IntentKeys == [session : Nat, ref : Refs]

\* A decision: its result, and its decision_ref when it approves an execution.
Decision == [result : Outcomes \cup Denials, ref : Nat]
Deny(result) == [result |-> result, ref |-> 0]
NoDecision == Deny("undecided")

-----------------------------------------------------------------------------

SameRequest(record, i) == record.hash = RequestHash(i)

Expired(record) == record.expires <= now

\* evaluate_idempotency: the decision that earlier requests force on this one.
EvaluateIdempotency(i) ==
    LET policy == IdempotencyOf[i.command] IN
    CASE policy \in {"Required", "SingleUse"} /\ i.idem = NoIdem -> Deny("Denied")
      [] policy = "Forbidden" /\ i.idem # NoIdem -> Deny("Denied")
      [] OTHER ->
           IF i.idem # NoIdem /\ IdempotencyKey(i) \in DOMAIN idem
             THEN LET record == idem[IdempotencyKey(i)] IN
                  IF Expired(record) THEN Deny("Expired")
                  ELSE IF SameRequest(record, i) THEN record.decision
                  ELSE Deny("ReplayRejected")
           ELSE IF IntentKey(i) \in DOMAIN seen
             THEN IF Expired(seen[IntentKey(i)]) THEN Deny("Expired") ELSE Deny("ReplayRejected")
           ELSE NoDecision

\* The policy's own decision; an approval for execution is a new decision_ref.
PolicyDecision(i) ==
    [result |-> OutcomeOf[i.command],
     ref |-> IF OutcomeOf[i.command] = "ApprovedForExecution" THEN Len(approvals) + 1 ELSE 0]

StaleEpoch(i) == i.epoch # epoch

\* evaluate_at, the chain of checks.  `refused` stands for the checks of caller,
\* protocol, policy reference and version, command class, explicit user action,
\* runtime, capability and time bucket: they look at the request and at the
\* environment only, and each ends in a recorded denial.
Decide(i, refused) ==
    IF i.session # active THEN Deny("SessionMismatch")
    ELSE IF refused THEN Deny("Refused")
    ELSE IF StaleEpoch(i) THEN Deny("OwnershipEpochMismatch")
    ELSE IF EvaluateIdempotency(i) # NoDecision THEN EvaluateIdempotency(i)
    ELSE PolicyDecision(i)

\* HashMap::entry(k).or_insert(v)
OrInsert(f, k, v) ==
    IF k \in DOMAIN f THEN f ELSE [x \in DOMAIN f \cup {k} |-> IF x = k THEN v ELSE f[x]]

\* enforce_record_bound: any entry may go.  One insertion precedes it, so one
\* removal is enough.
Bounded(f) ==
    IF Cardinality(DOMAIN f) <= MaxRecords THEN {f}
    ELSE {Restrict(f, DOMAIN f \ {k}) : k \in DOMAIN f}

\* record_terminal, execution_records
ExecAfter(i, d) ==
    IF d.result # "ApprovedForExecution" THEN exec
    ELSE OrInsert(exec, d.ref, [hash |-> RequestHash(i), session |-> i.session,
                                expires |-> now + TTL, consumed |-> FALSE])

\* record_terminal, idempotency_records
IdemAfter(i, d) ==
    IF i.idem = NoIdem THEN idem
    ELSE OrInsert(idem, IdempotencyKey(i),
                  [hash |-> RequestHash(i), decision |-> d, expires |-> now + TTL])

\* record_terminal, seen_intents
SeenAfter(i) ==
    OrInsert(seen, IntentKey(i), [hash |-> RequestHash(i), expires |-> now + TTL])

\* What the history notes of approval r: the record of it that the bound removed.
Forgets(a, r, execMap, idemMap, seenMap) ==
    a.forgotten
      \cup (IF r \in DOMAIN execMap \ DOMAIN exec' THEN {"exec"} ELSE {})
      \cup (IF a.idemKey \in DOMAIN idemMap \ DOMAIN idem' THEN {"idem"} ELSE {})
      \cup (IF a.intentKey \in DOMAIN seenMap \ DOMAIN seen' THEN {"seen"} ELSE {})

\* evaluate_at: decide, record_terminal (denials are recorded too), bound.
Evaluate(i, refused) ==
    LET d == Decide(i, refused)
        fresh == d.ref = Len(approvals) + 1
        given == IF fresh
                   THEN Append(approvals, [hash |-> RequestHash(i), intentKey |-> IntentKey(i),
                                           idemKey |-> IdempotencyKey(i), at |-> now,
                                           uses |-> <<>>, forgotten |-> {}])
                   ELSE approvals
    IN
    /\ active # 0
    /\ fresh => Len(approvals) < MaxApprovals
    /\ seen' \in Bounded(SeenAfter(i))
    /\ idem' \in Bounded(IdemAfter(i, d))
    /\ exec' \in Bounded(ExecAfter(i, d))
    /\ approvals' = [r \in DOMAIN given |->
                        [given[r] EXCEPT !.forgotten =
                            Forgets(given[r], r, ExecAfter(i, d), IdemAfter(i, d), SeenAfter(i))]]
    /\ UNCHANGED <<active, sessions, epoch, now>>

\* Mutant: the execution record is checked but not marked.
MarkConsumedNot(record) == record

MarkConsumed(record) == [record EXCEPT !.consumed = TRUE]

\* Mutant: an authorisation may still be used in the tick in which it expires.
UsableLate(record) == ~record.consumed /\ record.expires >= now

Usable(record) == ~record.consumed /\ ~Expired(record)

\* consume_execution_authorization_at, when it answers Ok: the request repeats the
\* intent, and the epoch is compared with the runtime's current one.
Consume(r, i) ==
    /\ active # 0
    /\ i.session = active
    /\ r \in DOMAIN exec
    /\ Usable(exec[r])
    /\ exec[r].session = active
    /\ exec[r].hash.epoch = epoch
    /\ exec[r].hash = RequestHash(i)
    /\ Len(approvals[r].uses) < MaxUses
    /\ exec' = [exec EXCEPT ![r] = MarkConsumed(exec[r])]
    /\ approvals' = [approvals EXCEPT ![r].uses =
                        Append(@, [at |-> now, hash |-> RequestHash(i), session |-> active,
                                   epoch |-> epoch])]
    /\ UNCHANGED <<active, sessions, epoch, now, idem, seen>>

\* complete_session: a client is connected under a session reference never used before.
Connect ==
    /\ active = 0
    /\ sessions < MaxSessions
    /\ sessions' = sessions + 1
    /\ active' = sessions + 1
    /\ UNCHANGED <<epoch, now, maps>>

\* Mutant: the end of a session forgets the intents but not the authorisations.
ExecOfOthersAll(s) == exec

ExecOfOthers(s) == Restrict(exec, {r \in DOMAIN exec : exec[r].session # s})

\* connection_closed, with invalidate_session.
Close ==
    /\ active # 0
    /\ idem' = Restrict(idem, {k \in DOMAIN idem : k.session # active})
    /\ seen' = Restrict(seen, {k \in DOMAIN seen : k.session # active})
    /\ exec' = ExecOfOthers(active)
    /\ active' = 0
    /\ UNCHANGED <<sessions, epoch, now, approvals>>

\* The runtime is taken over by a new owner: the summary carries a new epoch.
TakeOver ==
    /\ epoch < MaxEpoch
    /\ epoch' = epoch + 1
    /\ UNCHANGED <<active, sessions, now, maps>>

Tick ==
    /\ now < MaxTime
    /\ now' = now + 1
    /\ UNCHANGED <<active, sessions, epoch, maps>>

AuthorizationInit ==
    /\ active = 0 /\ sessions = 0 /\ epoch = 1 /\ now = 0
    /\ idem = <<>> /\ seen = <<>> /\ exec = <<>> /\ approvals = <<>>

\* The intents a client can send: session references it has seen, epochs up to now.
Intents == [session : 1 .. sessions, ref : Refs, idem : Idems \cup {NoIdem},
            command : Commands, payload : Payloads, epoch : 1 .. epoch]

AuthorizationNext ==
    \/ \E i \in Intents, refused \in BOOLEAN : Evaluate(i, refused)
    \/ \E i \in Intents : \E r \in DOMAIN exec : Consume(r, i)
    \/ Connect \/ Close \/ TakeOver \/ Tick

AuthorizationSpec == AuthorizationInit /\ [][AuthorizationNext]_authorizationVars

-----------------------------------------------------------------------------

Use == [at : Nat, hash : Hash, session : Nat, epoch : Nat]
Approval == [hash : Hash, intentKey : IntentKeys, idemKey : IdemKeys, at : Nat,
             uses : Seq(Use), forgotten : SUBSET {"exec", "idem", "seen"}]
IsMap(f, keys, records) == DOMAIN f \subseteq keys /\ \A k \in DOMAIN f : f[k] \in records

\* Type correctness of the evaluator's maps and of the history.
AuthorizationTypeOK ==
    /\ active \in 0 .. sessions /\ sessions \in Nat /\ epoch \in Nat /\ now \in Nat
    /\ IsMap(idem, IdemKeys, [hash : Hash, decision : Decision, expires : Nat])
    /\ IsMap(seen, IntentKeys, [hash : Hash, expires : Nat])
    /\ IsMap(exec, DOMAIN approvals,
             [hash : Hash, session : Nat, expires : Nat, consumed : BOOLEAN])
    /\ approvals \in Seq(Approval)

\* A decision is executed at most once (consume_execution_authorization_at marks
\* its record) unless enforce_record_bound removed that record in between: the
\* idempotency record then returns the decision and record_terminal inserts its
\* authorisation anew.
SingleUseUnlessForgotten ==
    \A r \in DOMAIN approvals :
        Len(approvals[r].uses) > 1 => "exec" \in approvals[r].forgotten

\* A decision is executed within its time to live, counted from the approval; one
\* whose execution record was removed and inserted anew within twice that time,
\* since a repeated intent does not restart the clock of its idempotency record.
UsedWithinTtl ==
    \A r \in DOMAIN approvals : \A u \in DOMAIN approvals[r].uses :
        \/ approvals[r].uses[u].at < approvals[r].at + TTL
        \/ /\ "exec" \in approvals[r].forgotten
           /\ approvals[r].uses[u].at < approvals[r].at + 2 * TTL

\* What is executed is what was approved: the same command and payload, in the
\* session and in the ownership epoch of the approval, also when the decision
\* was returned to another request for the same idempotency key in between.
ExecutedAsApproved ==
    \A r \in DOMAIN approvals : \A u \in DOMAIN approvals[r].uses :
        LET use == approvals[r].uses[u] IN
        /\ use.hash = approvals[r].hash
        /\ use.session = approvals[r].hash.session
        /\ use.epoch = approvals[r].hash.epoch

\* An intent reference is approved once, and so is an idempotency key, unless the
\* bound removed the record of the first approval: neither time nor a denial in
\* between makes the evaluator forget.
ApprovedOnceUnlessForgotten ==
    \A r1, r2 \in DOMAIN approvals : r1 < r2 =>
        /\ approvals[r1].intentKey = approvals[r2].intentKey => "seen" \in approvals[r1].forgotten
        /\ approvals[r1].idemKey = approvals[r2].idemKey => "idem" \in approvals[r1].forgotten

\* Approval and execution are single use, each as long as enforce_record_bound has
\* kept the record that remembers it, whatever is repeated, renamed, denied or
\* expires in between.
OnceUnlessForgotten == SingleUseUnlessForgotten /\ ApprovedOnceUnlessForgotten

\* Whatever is executed is covered by its approval: in time, and the same request in
\* the same session and ownership epoch, through repeated intents, reconnections and
\* changes of the owner.
UsesAsGranted == UsedWithinTtl /\ ExecutedAsApproved

\* Authorisations die with their session: every execution record, and every
\* approval an idempotency record can still return, is of the connected session.
OnlyLiveAuthorizations ==
    /\ \A r \in DOMAIN exec : exec[r].session = active
    /\ \A k \in DOMAIN idem :
          idem[k].decision.result = "ApprovedForExecution" => k.session = active

\* What the audit trail and the test of the evaluator say of an execution
\* authorisation: it is single use.
SingleUse == \A r \in DOMAIN approvals : Len(approvals[r].uses) <= 1

=============================================================================
