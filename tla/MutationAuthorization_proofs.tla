-------------------- MODULE MutationAuthorization_proofs --------------------
(***************************************************************************)
(* Proofs about the authorisation of mutations.                            *)
(*                                                                         *)
(* That an execution is single use, in time and of what was approved is    *)
(* not inductive: evaluate_at can make an execution record from nothing    *)
(* but an idempotency record.  AuthInv therefore also says what the three  *)
(* maps know of an approval: an idempotency record returns the approval of *)
(* its own key, request and time (RecordsMatch), an execution record is of *)
(* its approval (AuthorizationsMatch), and whatever an approval of the     *)
(* connected session left in a map is still there unless the bound took it *)
(* out (Remembered), so that a second record, or a second approval of a    *)
(* key, is made only after the first was forgotten.                        *)
(***************************************************************************)
EXTENDS MutationAuthorization, SequenceTheorems, TLAPS

-----------------------------------------------------------------------------
(* The inductive invariant.                                                *)

\* An approval is of one session, and a session reference is never active again once
\* its client is gone: what its session's records remember need not be remembered longer.
SessionsMatch ==
    /\ active \in {0, sessions}
    /\ \A r \in DOMAIN approvals :
          /\ approvals[r].hash.session \in 1 .. sessions
          /\ approvals[r].intentKey.session = approvals[r].hash.session
          /\ approvals[r].idemKey.session = approvals[r].hash.session

Approves(d) == d.result = "ApprovedForExecution"

\* An idempotency record returns the approval that was given to its own key and request,
\* and expires with it; every other decision it may return has no reference.
RecordsMatch ==
    \A k \in DOMAIN idem :
        /\ ~Approves(idem[k].decision) => idem[k].decision.ref = 0
        /\ Approves(idem[k].decision) =>
              /\ k.session = active
              /\ idem[k].decision.ref \in DOMAIN approvals
              /\ approvals[idem[k].decision.ref].idemKey = k
              /\ approvals[idem[k].decision.ref].hash = idem[k].hash
              /\ idem[k].expires = approvals[idem[k].decision.ref].at + TTL

\* An execution record is of its approval's request and of the connected session.  It
\* expires with the approval, or it is a second one.
AuthorizationsMatch ==
    \A r \in DOMAIN exec :
        /\ exec[r].hash = approvals[r].hash
        /\ exec[r].session = approvals[r].hash.session
        /\ exec[r].session = active
        /\ \/ exec[r].expires = approvals[r].at + TTL
           \/ "exec" \in approvals[r].forgotten /\ exec[r].expires < approvals[r].at + 2 * TTL

\* As long as the session lasts, what an approval left in the three maps is there or was
\* removed by the bound.
Remembered ==
    \A r \in DOMAIN approvals :
        approvals[r].hash.session = active =>
            /\ "exec" \in approvals[r].forgotten \/ r \in DOMAIN exec
            /\ "idem" \in approvals[r].forgotten \/ approvals[r].idemKey \in DOMAIN idem
            /\ "seen" \in approvals[r].forgotten \/ approvals[r].intentKey \in DOMAIN seen

\* What was executed is marked, in the record that has been there since the approval.
Marked ==
    \A r \in DOMAIN approvals :
        \/ "exec" \in approvals[r].forgotten
        \/ approvals[r].uses = <<>>
        \/ Len(approvals[r].uses) = 1 /\ (r \in DOMAIN exec => exec[r].consumed)

AuthInv ==
    /\ AuthorizationTypeOK
    /\ SessionsMatch
    /\ RecordsMatch
    /\ AuthorizationsMatch
    /\ Remembered
    /\ Marked
    /\ ApprovedOnceUnlessForgotten
    /\ UsedWithinTtl
    /\ ExecutedAsApproved

-----------------------------------------------------------------------------
(* The maps and the decision.                                              *)

\* enforce_record_bound removes entries and changes none.
LEMMA BoundedFacts ==
    ASSUME NEW f, NEW g \in Bounded(f)
    PROVE  DOMAIN g \subseteq DOMAIN f /\ \A k \in DOMAIN g : g[k] = f[k]
BY DEF Bounded, Restrict

\* entry(k).or_insert(v) keeps what is there.
LEMMA OrInsertFacts ==
    ASSUME NEW f, NEW k, NEW v
    PROVE  /\ DOMAIN OrInsert(f, k, v) = DOMAIN f \cup {k}
           /\ \A x \in DOMAIN f : OrInsert(f, k, v)[x] = f[x]
           /\ k \notin DOMAIN f => OrInsert(f, k, v)[k] = v
BY DEF OrInsert

\* The keys and the hash of a request have their types.
LEMMA IntentTypes ==
    ASSUME AuthorizationTypeOK, NEW i \in Intents
    PROVE  /\ RequestHash(i) \in Hash /\ IntentKey(i) \in IntentKeys
           /\ RequestHash(i).session = i.session /\ IntentKey(i).session = i.session
           /\ IdempotencyKey(i).session = i.session
           /\ i.idem # NoIdem => IdempotencyKey(i) \in IdemKeys
           /\ i.session \in 1 .. sessions /\ i.command \in Commands
<1>1. /\ i.session \in 1 .. sessions /\ i.ref \in Refs /\ i.idem \in Idems \cup {NoIdem}
      /\ i.command \in Commands /\ i.payload \in Payloads /\ i.epoch \in 1 .. epoch
  BY DEF Intents
<1>2. i.session \in Nat /\ i.epoch \in Nat
  BY <1>1 DEF AuthorizationTypeOK
<1> QED
  BY <1>1, <1>2 DEF RequestHash, Hash, IntentKey, IntentKeys, IdempotencyKey, IdemKeys

\* The three kinds of decision: a fresh approval, for a request no record remembers; the
\* approval an earlier intent was given for the same key and request; anything else.
FreshApproval(i, d) ==
    /\ Approves(d) /\ d.ref = Len(approvals) + 1 /\ i.session = active
    /\ i.idem # NoIdem /\ IdempotencyKey(i) \notin DOMAIN idem
    /\ IntentKey(i) \notin DOMAIN seen

ReturnedApproval(i, d) ==
    /\ Approves(d) /\ i.session = active
    /\ i.idem # NoIdem /\ IdempotencyKey(i) \in DOMAIN idem
    /\ d = idem[IdempotencyKey(i)].decision
    /\ idem[IdempotencyKey(i)].hash = RequestHash(i)
    /\ now < idem[IdempotencyKey(i)].expires

\* evaluate_at decides in one of these ways.
LEMMA DecideFacts ==
    ASSUME AuthInv, NEW i \in Intents, NEW refused \in BOOLEAN, NEW d, d = Decide(i, refused)
    PROVE  /\ d \in Decision
           /\ \/ FreshApproval(i, d)
              \/ ReturnedApproval(i, d)
              \/ ~Approves(d) /\ d.ref = 0
<1> DEFINE k == IdempotencyKey(i)
           e == EvaluateIdempotency(i)
<1>1. AuthorizationTypeOK /\ RecordsMatch
  BY DEF AuthInv
<1>2. i.command \in Commands /\ (i.idem # NoIdem => k \in IdemKeys)
  BY <1>1, IntentTypes
<1>3. now \in Nat /\ Len(approvals) \in Nat
  BY <1>1, LenProperties DEF AuthorizationTypeOK
<1>4. \A x \in Outcomes \cup Denials :
          x # "ApprovedForExecution" => Deny(x) \in Decision /\ ~Approves(Deny(x)) /\ Deny(x).ref = 0
  BY DEF Deny, Decision, Approves
<1>5. {"SessionMismatch", "Refused", "OwnershipEpochMismatch", "Denied", "Expired", "ReplayRejected"}
          \subseteq (Outcomes \cup Denials) \ {"ApprovedForExecution"}
  BY DEF Outcomes, Denials
<1>6. ASSUME k \in DOMAIN idem
      PROVE  /\ idem[k].decision \in Decision /\ idem[k].decision # NoDecision
             /\ ~Approves(idem[k].decision) => idem[k].decision.ref = 0
             /\ idem[k].expires \in Nat
  <2>1. idem[k] \in [hash : Hash, decision : Decision, expires : Nat]
    BY <1>1, <1>6 DEF AuthorizationTypeOK, IsMap
  <2>2. idem[k].decision \in Decision /\ idem[k].expires \in Nat
    BY <2>1
  <2>3. NoDecision \notin Decision
    BY DEF NoDecision, Deny, Decision, Outcomes, Denials
  <2> QED BY <1>1, <1>6, <2>2, <2>3 DEF RecordsMatch
<1>7. \/ /\ e = NoDecision
         /\ i.idem # NoIdem => k \notin DOMAIN idem
         /\ IntentKey(i) \notin DOMAIN seen
         /\ IdempotencyOf[i.command] = "SingleUse" => i.idem # NoIdem
      \/ \E x \in {"Denied", "Expired", "ReplayRejected"} : e = Deny(x)
      \/ /\ i.idem # NoIdem /\ k \in DOMAIN idem /\ ~Expired(idem[k]) /\ SameRequest(idem[k], i)
         /\ e = idem[k].decision
  <2>1. CASE /\ IdempotencyOf[i.command] \in {"Required", "SingleUse"} /\ i.idem = NoIdem
    BY <2>1 DEF EvaluateIdempotency
  <2>2. CASE /\ IdempotencyOf[i.command] = "Forbidden" /\ i.idem # NoIdem
    BY <2>2 DEF EvaluateIdempotency
  <2>3. CASE /\ ~(IdempotencyOf[i.command] \in {"Required", "SingleUse"} /\ i.idem = NoIdem)
             /\ ~(IdempotencyOf[i.command] = "Forbidden" /\ i.idem # NoIdem)
    BY <2>3 DEF EvaluateIdempotency
  <2> QED BY <2>1, <2>2, <2>3
<1> HIDE DEF e, k
<1>8. CASE i.session # active \/ refused \/ StaleEpoch(i)
  BY <1>4, <1>5, <1>8 DEF Decide
<1>9. CASE ~(i.session # active \/ refused \/ StaleEpoch(i)) /\ e # NoDecision
  <2>1. d = e
    BY <1>9 DEF Decide, e
  <2>2. CASE \E x \in {"Denied", "Expired", "ReplayRejected"} : e = Deny(x)
    BY <1>4, <1>5, <2>1, <2>2
  <2>3. CASE /\ i.idem # NoIdem /\ k \in DOMAIN idem /\ ~Expired(idem[k]) /\ SameRequest(idem[k], i)
             /\ e = idem[k].decision
    BY <1>3, <1>6, <1>9, <2>1, <2>3 DEF ReturnedApproval, Expired, SameRequest, k
  <2> QED BY <1>7, <1>9, <2>2, <2>3
<1>10. CASE ~(i.session # active \/ refused \/ StaleEpoch(i)) /\ e = NoDecision
  <2>1. d = PolicyDecision(i)
    BY <1>10 DEF Decide, e
  <2>2. OutcomeOf[i.command] \in Outcomes
        /\ (OutcomeOf[i.command] = "ApprovedForExecution" => IdempotencyOf[i.command] = "SingleUse")
    BY <1>2, PolicyAssumption
  <2>3. d \in Decision
    BY <1>3, <2>1, <2>2 DEF PolicyDecision, Decision
  <2>4. CASE OutcomeOf[i.command] = "ApprovedForExecution"
    <3>1. ~ \E x \in {"Denied", "Expired", "ReplayRejected"} : e = Deny(x)
      BY <1>10 DEF NoDecision, Deny
    <3>2. i.idem # NoIdem /\ k \notin DOMAIN idem /\ IntentKey(i) \notin DOMAIN seen
      BY <1>6, <1>7, <1>10, <2>2, <2>4, <3>1
    <3> QED BY <1>10, <2>1, <2>3, <2>4, <3>2 DEF FreshApproval, Approves, PolicyDecision, k
  <2>5. CASE OutcomeOf[i.command] # "ApprovedForExecution"
    BY <2>1, <2>3, <2>5 DEF PolicyDecision, Approves
  <2> QED BY <2>4, <2>5
<1> QED
  BY <1>8, <1>9, <1>10

-----------------------------------------------------------------------------
(* evaluate_at.                                                            *)

\* b is a later state of the approval a: only what was forgotten may have grown.
LaterOf(a, b) ==
    /\ b.hash = a.hash /\ b.intentKey = a.intentKey /\ b.idemKey = a.idemKey
    /\ b.at = a.at /\ b.uses = a.uses /\ a.forgotten \subseteq b.forgotten

\* What record_terminal inserts, and the history notes when the bound removes it.
Noted(b, r, execMap, idemMap, seenMap) ==
    /\ r \in DOMAIN execMap => r \in DOMAIN exec' \/ "exec" \in b.forgotten
    /\ b.idemKey \in DOMAIN idemMap => b.idemKey \in DOMAIN idem' \/ "idem" \in b.forgotten
    /\ b.intentKey \in DOMAIN seenMap => b.intentKey \in DOMAIN seen' \/ "seen" \in b.forgotten

\* A note of the history changes nothing of an approval but what was forgotten.
LEMMA NoteFacts ==
    ASSUME NEW a \in Approval, NEW r, NEW execMap, NEW idemMap, NEW seenMap, NEW b,
           b = [a EXCEPT !.forgotten = Forgets(a, r, execMap, idemMap, seenMap)]
    PROVE  b \in Approval /\ LaterOf(a, b) /\ Noted(b, r, execMap, idemMap, seenMap)
<1> DEFINE f == Forgets(a, r, execMap, idemMap, seenMap)
<1>1. a.forgotten \in SUBSET {"exec", "idem", "seen"}
  BY DEF Approval
<1>2. /\ f \in SUBSET {"exec", "idem", "seen"} /\ a.forgotten \subseteq f
      /\ r \in DOMAIN execMap \ DOMAIN exec' => "exec" \in f
      /\ a.idemKey \in DOMAIN idemMap \ DOMAIN idem' => "idem" \in f
      /\ a.intentKey \in DOMAIN seenMap \ DOMAIN seen' => "seen" \in f
  BY <1>1 DEF Forgets
<1> HIDE DEF f
<1>3. b = [a EXCEPT !.forgotten = f]
  BY DEF f
<1>4. b = [hash |-> a.hash, intentKey |-> a.intentKey, idemKey |-> a.idemKey, at |-> a.at,
           uses |-> a.uses, forgotten |-> f]
  BY <1>3 DEF Approval
<1>5. b \in Approval
  BY <1>2, <1>4 DEF Approval
<1> QED
  BY <1>2, <1>4, <1>5 DEF LaterOf, Noted

\* The history of evaluate_at: the approvals given so far, and maybe a fresh one.
LEMMA EvaluateHistory ==
    ASSUME AuthInv, NEW i \in Intents, NEW refused \in BOOLEAN, Evaluate(i, refused),
           NEW d, d = Decide(i, refused)
    PROVE  /\ approvals' \in Seq(Approval)
           /\ \A r \in DOMAIN approvals :
                 /\ r \in DOMAIN approvals' /\ LaterOf(approvals[r], approvals'[r])
                 /\ Noted(approvals'[r], r, ExecAfter(i, d), IdemAfter(i, d), SeenAfter(i))
           /\ \A r \in DOMAIN approvals' \ DOMAIN approvals :
                 /\ r = Len(approvals) + 1 /\ d.ref = r
                 /\ approvals'[r].hash = RequestHash(i) /\ approvals'[r].at = now
                 /\ approvals'[r].intentKey = IntentKey(i)
                 /\ approvals'[r].idemKey = IdempotencyKey(i) /\ approvals'[r].uses = <<>>
                 /\ Noted(approvals'[r], r, ExecAfter(i, d), IdemAfter(i, d), SeenAfter(i))
           /\ d.ref = Len(approvals) + 1 => d.ref \in DOMAIN approvals'
<1> DEFINE new == [hash |-> RequestHash(i), intentKey |-> IntentKey(i),
                   idemKey |-> IdempotencyKey(i), at |-> now, uses |-> <<>>, forgotten |-> {}]
           fresh == d.ref = Len(approvals) + 1
           given == IF fresh THEN Append(approvals, new) ELSE approvals
           E == ExecAfter(i, d)
           I == IdemAfter(i, d)
           S == SeenAfter(i)
<1>1. /\ AuthorizationTypeOK /\ approvals \in Seq(Approval) /\ Len(approvals) \in Nat
      /\ now \in Nat /\ DOMAIN approvals = 1 .. Len(approvals)
  BY LenProperties DEF AuthInv, AuthorizationTypeOK
<1>2. approvals' = [r \in DOMAIN given |->
                        [given[r] EXCEPT !.forgotten = Forgets(given[r], r, E, I, S)]]
  BY DEF Evaluate
<1>3. fresh => new \in Approval
  <2> SUFFICES ASSUME fresh PROVE new \in Approval
    OBVIOUS
  <2>1. i.idem # NoIdem
    <3>1. d.ref # 0
      BY <1>1
    <3> QED BY <3>1, DecideFacts DEF FreshApproval, ReturnedApproval
  <2>2. RequestHash(i) \in Hash /\ IntentKey(i) \in IntentKeys /\ IdempotencyKey(i) \in IdemKeys
    BY <1>1, <2>1, IntentTypes
  <2>3. <<>> \in Seq(Use)
    BY EmptySeq
  <2> QED BY <1>1, <2>2, <2>3 DEF Approval
<1>4. /\ new.hash = RequestHash(i) /\ new.intentKey = IntentKey(i)
      /\ new.idemKey = IdempotencyKey(i) /\ new.at = now /\ new.uses = <<>>
  OBVIOUS
<1> HIDE DEF new, E, I, S
<1>5. /\ given \in Seq(Approval)
      /\ \A r \in DOMAIN approvals : r \in DOMAIN given /\ given[r] = approvals[r]
      /\ \A r \in DOMAIN given \ DOMAIN approvals : r = Len(approvals) + 1 /\ fresh /\ given[r] = new
      /\ fresh => d.ref \in DOMAIN given
      /\ DOMAIN given = 1 .. Len(given) /\ Len(given) \in Nat
  <2>1. CASE fresh
    <3> DEFINE g == Append(approvals, new)
    <3>1. /\ g \in Seq(Approval) /\ Len(g) = Len(approvals) + 1
          /\ \A r \in 1 .. Len(approvals) : g[r] = approvals[r]
          /\ g[Len(approvals) + 1] = new
      BY <1>1, <1>3, <2>1, AppendProperties
    <3>2. DOMAIN g = 1 .. Len(approvals) + 1
      BY <3>1, LenProperties
    <3>3. given = g
      BY <2>1
    <3> HIDE DEF g, given
    <3> QED BY <1>1, <2>1, <3>1, <3>2, <3>3
  <2>2. CASE ~fresh
    BY <1>1, <2>2
  <2> QED BY <2>1, <2>2
<1> HIDE DEF given
<1>6. \A r \in DOMAIN given : given[r] \in Approval
  BY <1>5, ElementOfSeq
<1>7. ASSUME NEW r \in DOMAIN given
      PROVE  /\ approvals'[r] \in Approval /\ LaterOf(given[r], approvals'[r])
             /\ Noted(approvals'[r], r, E, I, S)
  <2>1. given[r] \in Approval
    BY <1>6
  <2>2. approvals'[r] = [given[r] EXCEPT !.forgotten = Forgets(given[r], r, E, I, S)]
    BY <1>2
  <2> QED BY <2>1, <2>2, NoteFacts
<1>8. DOMAIN approvals' = DOMAIN given
  BY <1>2
<1>9. approvals' \in Seq(Approval)
  <2>1. approvals' \in [1 .. Len(given) -> Approval]
    BY <1>2, <1>5, <1>7
  <2> HIDE DEF given
  <2> QED BY <1>5, <2>1, SeqDef
<1> QED
  BY <1>4, <1>5, <1>7, <1>8, <1>9 DEF LaterOf, E, I, S

\* What evaluate_at leaves in the three maps: nothing but what was there and what
\* record_terminal inserts for this intent.
LEMMA EvaluateMaps ==
    ASSUME AuthInv, NEW i \in Intents, NEW refused \in BOOLEAN, Evaluate(i, refused),
           NEW d, d = Decide(i, refused)
    PROVE  /\ \A k \in DOMAIN seen' :
                 \/ k \in DOMAIN seen /\ seen'[k] = seen[k]
                 \/ k = IntentKey(i) /\ seen'[k] = [hash |-> RequestHash(i), expires |-> now + TTL]
           /\ \A k \in DOMAIN idem' :
                 \/ k \in DOMAIN idem /\ idem'[k] = idem[k]
                 \/ /\ k = IdempotencyKey(i) /\ i.idem # NoIdem /\ k \notin DOMAIN idem
                    /\ idem'[k] = [hash |-> RequestHash(i), decision |-> d, expires |-> now + TTL]
           /\ \A r \in DOMAIN exec' :
                 \/ r \in DOMAIN exec /\ exec'[r] = exec[r]
                 \/ /\ r = d.ref /\ Approves(d) /\ r \notin DOMAIN exec
                    /\ exec'[r] = [hash |-> RequestHash(i), session |-> i.session,
                                   expires |-> now + TTL, consumed |-> FALSE]
           /\ DOMAIN exec \subseteq DOMAIN ExecAfter(i, d)
           /\ DOMAIN idem \subseteq DOMAIN IdemAfter(i, d)
           /\ DOMAIN seen \subseteq DOMAIN SeenAfter(i)
           /\ Approves(d) => d.ref \in DOMAIN ExecAfter(i, d)
           /\ i.idem # NoIdem => IdempotencyKey(i) \in DOMAIN IdemAfter(i, d)
           /\ IntentKey(i) \in DOMAIN SeenAfter(i)
<1>1. /\ seen' \in Bounded(SeenAfter(i)) /\ idem' \in Bounded(IdemAfter(i, d))
      /\ exec' \in Bounded(ExecAfter(i, d))
  BY DEF Evaluate
<1>2. /\ DOMAIN seen' \subseteq DOMAIN SeenAfter(i)
      /\ \A k \in DOMAIN seen' : seen'[k] = SeenAfter(i)[k]
  BY <1>1, BoundedFacts
<1>3. /\ DOMAIN idem' \subseteq DOMAIN IdemAfter(i, d)
      /\ \A k \in DOMAIN idem' : idem'[k] = IdemAfter(i, d)[k]
  BY <1>1, BoundedFacts
<1>4. /\ DOMAIN exec' \subseteq DOMAIN ExecAfter(i, d)
      /\ \A k \in DOMAIN exec' : exec'[k] = ExecAfter(i, d)[k]
  BY <1>1, BoundedFacts
<1>5. /\ DOMAIN SeenAfter(i) = DOMAIN seen \cup {IntentKey(i)}
      /\ \A k \in DOMAIN seen : SeenAfter(i)[k] = seen[k]
      /\ IntentKey(i) \notin DOMAIN seen =>
             SeenAfter(i)[IntentKey(i)] = [hash |-> RequestHash(i), expires |-> now + TTL]
  BY OrInsertFacts DEF SeenAfter
<1>6. /\ i.idem = NoIdem => IdemAfter(i, d) = idem
      /\ i.idem # NoIdem =>
           /\ DOMAIN IdemAfter(i, d) = DOMAIN idem \cup {IdempotencyKey(i)}
           /\ \A k \in DOMAIN idem : IdemAfter(i, d)[k] = idem[k]
           /\ IdempotencyKey(i) \notin DOMAIN idem =>
                  IdemAfter(i, d)[IdempotencyKey(i)]
                      = [hash |-> RequestHash(i), decision |-> d, expires |-> now + TTL]
  <2> DEFINE v == [hash |-> RequestHash(i), decision |-> d, expires |-> now + TTL]
             f == OrInsert(idem, IdempotencyKey(i), v)
  <2>1. IdemAfter(i, d) = IF i.idem = NoIdem THEN idem ELSE f
    BY DEF IdemAfter
  <2> HIDE DEF v
  <2>2. /\ DOMAIN f = DOMAIN idem \cup {IdempotencyKey(i)}
        /\ \A k \in DOMAIN idem : f[k] = idem[k]
        /\ IdempotencyKey(i) \notin DOMAIN idem => f[IdempotencyKey(i)] = v
    BY OrInsertFacts
  <2> HIDE DEF f
  <2>3. IdempotencyKey(i) \notin DOMAIN idem =>
            f[IdempotencyKey(i)] = [hash |-> RequestHash(i), decision |-> d, expires |-> now + TTL]
    BY <2>2 DEF v
  <2> QED BY <2>1, <2>2, <2>3
<1>7. /\ ~Approves(d) => ExecAfter(i, d) = exec
      /\ Approves(d) =>
           /\ DOMAIN ExecAfter(i, d) = DOMAIN exec \cup {d.ref}
           /\ \A r \in DOMAIN exec : ExecAfter(i, d)[r] = exec[r]
           /\ d.ref \notin DOMAIN exec =>
                  ExecAfter(i, d)[d.ref] = [hash |-> RequestHash(i), session |-> i.session,
                                            expires |-> now + TTL, consumed |-> FALSE]
  <2> DEFINE v == [hash |-> RequestHash(i), session |-> i.session, expires |-> now + TTL,
                   consumed |-> FALSE]
             f == OrInsert(exec, d.ref, v)
  <2>1. ExecAfter(i, d) = IF Approves(d) THEN f ELSE exec
    BY DEF ExecAfter, Approves
  <2> HIDE DEF v
  <2>2. /\ DOMAIN f = DOMAIN exec \cup {d.ref}
        /\ \A r \in DOMAIN exec : f[r] = exec[r]
        /\ d.ref \notin DOMAIN exec => f[d.ref] = v
    BY OrInsertFacts
  <2> HIDE DEF f
  <2>3. d.ref \notin DOMAIN exec =>
            f[d.ref] = [hash |-> RequestHash(i), session |-> i.session, expires |-> now + TTL,
                        consumed |-> FALSE]
    BY <2>2 DEF v
  <2> QED BY <2>1, <2>2, <2>3
<1>8. /\ DOMAIN exec \subseteq DOMAIN ExecAfter(i, d)
      /\ DOMAIN idem \subseteq DOMAIN IdemAfter(i, d)
      /\ DOMAIN seen \subseteq DOMAIN SeenAfter(i)
      /\ Approves(d) => d.ref \in DOMAIN ExecAfter(i, d)
      /\ i.idem # NoIdem => IdempotencyKey(i) \in DOMAIN IdemAfter(i, d)
      /\ IntentKey(i) \in DOMAIN SeenAfter(i)
  BY <1>5, <1>6, <1>7
<1>9. \A k \in DOMAIN seen' :
                 \/ k \in DOMAIN seen /\ seen'[k] = seen[k]
                 \/ k = IntentKey(i) /\ seen'[k] = [hash |-> RequestHash(i), expires |-> now + TTL]
  BY <1>2, <1>5
<1>10. \A k \in DOMAIN idem' :
                 \/ k \in DOMAIN idem /\ idem'[k] = idem[k]
                 \/ /\ k = IdempotencyKey(i) /\ i.idem # NoIdem /\ k \notin DOMAIN idem
                    /\ idem'[k] = [hash |-> RequestHash(i), decision |-> d, expires |-> now + TTL]
  BY <1>3, <1>6
<1>11. \A r \in DOMAIN exec' :
                 \/ r \in DOMAIN exec /\ exec'[r] = exec[r]
                 \/ /\ r = d.ref /\ Approves(d) /\ r \notin DOMAIN exec
                    /\ exec'[r] = [hash |-> RequestHash(i), session |-> i.session,
                                   expires |-> now + TTL, consumed |-> FALSE]
  BY <1>4, <1>7
<1> QED
  BY <1>8, <1>9, <1>10, <1>11

\* An approval that is returned a second time gets a second execution record only when the
\* first one was removed by the bound, and soon enough for twice the time to live.
LEMMA ReturnedFacts ==
    ASSUME AuthInv, NEW i \in Intents, NEW d, ReturnedApproval(i, d)
    PROVE  /\ d.ref \in DOMAIN approvals /\ d.ref # Len(approvals) + 1
           /\ approvals[d.ref].hash = RequestHash(i) /\ i.session = active
           /\ d.ref \in DOMAIN exec \/ "exec" \in approvals[d.ref].forgotten
           /\ now + TTL < approvals[d.ref].at + 2 * TTL
<1> DEFINE k == IdempotencyKey(i)
<1>1. AuthorizationTypeOK /\ RecordsMatch /\ Remembered
  BY DEF AuthInv
<1>2. /\ Approves(d) /\ k \in DOMAIN idem /\ d = idem[k].decision /\ i.session = active
      /\ idem[k].hash = RequestHash(i) /\ now < idem[k].expires
  BY DEF ReturnedApproval
<1> HIDE DEF k
<1>3. /\ d.ref \in DOMAIN approvals /\ approvals[d.ref].hash = RequestHash(i)
      /\ idem[k].expires = approvals[d.ref].at + TTL
  BY <1>1, <1>2 DEF RecordsMatch
<1>4. approvals \in Seq(Approval) /\ DOMAIN approvals = 1 .. Len(approvals)
      /\ Len(approvals) \in Nat /\ now \in Nat /\ TTL \in Nat
  BY <1>1, LimitAssumption, LenProperties DEF AuthorizationTypeOK
<1>5. approvals[d.ref].at \in Nat
  <2>1. approvals[d.ref] \in Approval
    BY <1>3, <1>4, ElementOfSeq
  <2> QED BY <2>1 DEF Approval
<1>6. d.ref # Len(approvals) + 1
  BY <1>3, <1>4
<1>7. approvals[d.ref].hash.session = active
  BY <1>1, <1>2, <1>3, IntentTypes
<1>8. d.ref \in DOMAIN exec \/ "exec" \in approvals[d.ref].forgotten
  BY <1>1, <1>3, <1>7 DEF Remembered
<1>9. now + TTL < approvals[d.ref].at + 2 * TTL
  BY <1>2, <1>3, <1>4, <1>5
<1> QED
  BY <1>2, <1>3, <1>6, <1>8, <1>9

\* evaluate_at keeps the invariant, whatever it decides and the bound removes.
LEMMA EvaluateStep ==
    ASSUME AuthInv, NEW i \in Intents, NEW refused \in BOOLEAN, Evaluate(i, refused)
    PROVE  AuthInv'
<1> DEFINE d == Decide(i, refused)
           E == ExecAfter(i, d)
           I == IdemAfter(i, d)
           S == SeenAfter(i)
           n == Len(approvals) + 1
<1>1. /\ AuthorizationTypeOK /\ SessionsMatch /\ RecordsMatch /\ AuthorizationsMatch
      /\ Remembered /\ Marked /\ ApprovedOnceUnlessForgotten /\ UsedWithinTtl
      /\ ExecutedAsApproved
  BY DEF AuthInv
<1>2. UNCHANGED <<active, sessions, epoch, now>>
  BY DEF Evaluate
<1>3. /\ d \in Decision
      /\ \/ FreshApproval(i, d)
         \/ ReturnedApproval(i, d)
         \/ ~Approves(d) /\ d.ref = 0
  BY DecideFacts
<1>4. /\ approvals' \in Seq(Approval)
      /\ \A r \in DOMAIN approvals :
            /\ r \in DOMAIN approvals' /\ LaterOf(approvals[r], approvals'[r])
            /\ Noted(approvals'[r], r, E, I, S)
      /\ \A r \in DOMAIN approvals' \ DOMAIN approvals :
            /\ r = n /\ d.ref = r
            /\ approvals'[r].hash = RequestHash(i) /\ approvals'[r].at = now
            /\ approvals'[r].intentKey = IntentKey(i)
            /\ approvals'[r].idemKey = IdempotencyKey(i) /\ approvals'[r].uses = <<>>
            /\ Noted(approvals'[r], r, E, I, S)
      /\ d.ref = n => d.ref \in DOMAIN approvals'
  BY EvaluateHistory
<1>5. /\ \A k \in DOMAIN seen' :
            \/ k \in DOMAIN seen /\ seen'[k] = seen[k]
            \/ k = IntentKey(i) /\ seen'[k] = [hash |-> RequestHash(i), expires |-> now + TTL]
      /\ \A k \in DOMAIN idem' :
            \/ k \in DOMAIN idem /\ idem'[k] = idem[k]
            \/ /\ k = IdempotencyKey(i) /\ i.idem # NoIdem /\ k \notin DOMAIN idem
               /\ idem'[k] = [hash |-> RequestHash(i), decision |-> d, expires |-> now + TTL]
      /\ \A r \in DOMAIN exec' :
            \/ r \in DOMAIN exec /\ exec'[r] = exec[r]
            \/ /\ r = d.ref /\ Approves(d) /\ r \notin DOMAIN exec
               /\ exec'[r] = [hash |-> RequestHash(i), session |-> i.session,
                              expires |-> now + TTL, consumed |-> FALSE]
      /\ DOMAIN exec \subseteq DOMAIN E /\ DOMAIN idem \subseteq DOMAIN I
      /\ DOMAIN seen \subseteq DOMAIN S
      /\ Approves(d) => d.ref \in DOMAIN E
      /\ i.idem # NoIdem => IdempotencyKey(i) \in DOMAIN I
      /\ IntentKey(i) \in DOMAIN S
  BY EvaluateMaps
<1>6. /\ RequestHash(i) \in Hash /\ IntentKey(i) \in IntentKeys
      /\ RequestHash(i).session = i.session /\ IntentKey(i).session = i.session
      /\ IdempotencyKey(i).session = i.session
      /\ i.idem # NoIdem => IdempotencyKey(i) \in IdemKeys
      /\ i.session \in 1 .. sessions
  BY <1>1, IntentTypes
<1>7. /\ now \in Nat /\ TTL \in Nat /\ now + TTL \in Nat /\ n \in Nat /\ n # 0
      /\ DOMAIN approvals = 1 .. n - 1 /\ n \notin DOMAIN approvals
      /\ sessions \in Nat /\ i.session \in Nat
  BY <1>1, <1>6, LimitAssumption, LenProperties DEF AuthorizationTypeOK
<1> HIDE DEF d, E, I, S
<1>8. ReturnedApproval(i, d) =>
        /\ d.ref \in DOMAIN approvals /\ d.ref # n
        /\ approvals[d.ref].hash = RequestHash(i) /\ i.session = active
        /\ d.ref \in DOMAIN exec \/ "exec" \in approvals[d.ref].forgotten
        /\ now + TTL < approvals[d.ref].at + 2 * TTL
  BY ReturnedFacts
<1>9. FreshApproval(i, d) => /\ Approves(d) /\ d.ref = n /\ i.session = active
                             /\ i.idem # NoIdem /\ IdempotencyKey(i) \notin DOMAIN idem
                             /\ IntentKey(i) \notin DOMAIN seen
  BY DEF FreshApproval
<1>10. ReturnedApproval(i, d) => IdempotencyKey(i) \in DOMAIN idem
  BY DEF ReturnedApproval
<1> HIDE DEF n
<1>11. Approves(d) => d.ref \in DOMAIN approvals'
  BY <1>3, <1>4, <1>8, <1>9
<1>12. d.ref = n => FreshApproval(i, d)
  BY <1>3, <1>7, <1>8
<1>13. AuthorizationTypeOK'
  <2>1. IsMap(idem', IdemKeys, [hash : Hash, decision : Decision, expires : Nat])
    BY <1>1, <1>3, <1>5, <1>6, <1>7 DEF AuthorizationTypeOK, IsMap
  <2>2. IsMap(seen', IntentKeys, [hash : Hash, expires : Nat])
    BY <1>1, <1>5, <1>6, <1>7 DEF AuthorizationTypeOK, IsMap
  <2>3. IsMap(exec', DOMAIN approvals',
              [hash : Hash, session : Nat, expires : Nat, consumed : BOOLEAN])
    <3>1. ASSUME NEW r \in DOMAIN exec'
          PROVE  /\ r \in DOMAIN approvals'
                 /\ exec'[r] \in [hash : Hash, session : Nat, expires : Nat, consumed : BOOLEAN]
      <4>1. CASE r \in DOMAIN exec /\ exec'[r] = exec[r]
        BY <1>1, <1>4, <4>1 DEF AuthorizationTypeOK, IsMap
      <4>2. CASE /\ r = d.ref /\ Approves(d)
                 /\ exec'[r] = [hash |-> RequestHash(i), session |-> i.session,
                                expires |-> now + TTL, consumed |-> FALSE]
        BY <1>6, <1>7, <1>11, <4>2
      <4> QED BY <1>5, <4>1, <4>2
    <3> QED BY <3>1 DEF IsMap
  <2> QED BY <1>1, <1>2, <1>4, <2>1, <2>2, <2>3 DEF AuthorizationTypeOK
<1>14. SessionsMatch'
  BY <1>1, <1>2, <1>4, <1>6 DEF SessionsMatch, LaterOf
<1>15. RecordsMatch'
  <2> SUFFICES ASSUME NEW k \in DOMAIN idem'
               PROVE  /\ ~Approves(idem'[k].decision) => idem'[k].decision.ref = 0
                      /\ Approves(idem'[k].decision) =>
                            /\ k.session = active
                            /\ idem'[k].decision.ref \in DOMAIN approvals'
                            /\ approvals'[idem'[k].decision.ref].idemKey = k
                            /\ approvals'[idem'[k].decision.ref].hash = idem'[k].hash
                            /\ idem'[k].expires = approvals'[idem'[k].decision.ref].at + TTL
    BY <1>2 DEF RecordsMatch, Approves
  <2>1. CASE k \in DOMAIN idem /\ idem'[k] = idem[k]
    BY <1>1, <1>4, <2>1 DEF RecordsMatch, LaterOf
  <2>2. CASE /\ k = IdempotencyKey(i) /\ i.idem # NoIdem /\ k \notin DOMAIN idem
             /\ idem'[k] = [hash |-> RequestHash(i), decision |-> d, expires |-> now + TTL]
    <3>1. CASE Approves(d)
      <4>1. FreshApproval(i, d)
        BY <1>3, <1>10, <2>2, <3>1
      <4>2. n \in DOMAIN approvals' \ DOMAIN approvals /\ d.ref = n
        BY <1>4, <1>7, <1>9, <4>1
      <4> QED BY <1>4, <1>6, <1>9, <2>2, <4>1, <4>2
    <3>2. CASE ~Approves(d)
      <4>1. d.ref = 0
        BY <1>3, <3>2 DEF FreshApproval, ReturnedApproval
      <4> QED BY <2>2, <3>2, <4>1
    <3> QED BY <3>1, <3>2
  <2> QED BY <1>5, <2>1, <2>2
<1>16. AuthorizationsMatch'
  <2> SUFFICES ASSUME NEW r \in DOMAIN exec'
               PROVE  /\ exec'[r].hash = approvals'[r].hash
                      /\ exec'[r].session = approvals'[r].hash.session
                      /\ exec'[r].session = active
                      /\ \/ exec'[r].expires = approvals'[r].at + TTL
                         \/ /\ "exec" \in approvals'[r].forgotten
                            /\ exec'[r].expires < approvals'[r].at + 2 * TTL
    BY <1>2 DEF AuthorizationsMatch
  <2>1. CASE r \in DOMAIN exec /\ exec'[r] = exec[r]
    <3>1. r \in DOMAIN approvals
      BY <1>1, <2>1 DEF AuthorizationTypeOK, IsMap
    <3> QED BY <1>1, <1>4, <2>1, <3>1 DEF AuthorizationsMatch, LaterOf
  <2>2. CASE /\ r = d.ref /\ Approves(d) /\ r \notin DOMAIN exec
             /\ exec'[r] = [hash |-> RequestHash(i), session |-> i.session,
                            expires |-> now + TTL, consumed |-> FALSE]
    <3>1. CASE FreshApproval(i, d)
      <4>1. r \in DOMAIN approvals' \ DOMAIN approvals
        BY <1>4, <1>7, <1>9, <2>2, <3>1
      <4> QED BY <1>4, <1>6, <1>9, <2>2, <3>1, <4>1
    <3>2. CASE ReturnedApproval(i, d)
      <4>1. r \in DOMAIN approvals /\ "exec" \in approvals[r].forgotten
        BY <1>8, <2>2, <3>2
      <4>2. "exec" \in approvals'[r].forgotten /\ approvals'[r].at = approvals[r].at
            /\ approvals'[r].hash = RequestHash(i)
        BY <1>4, <1>8, <2>2, <3>2, <4>1 DEF LaterOf
      <4> QED BY <1>6, <1>8, <2>2, <3>2, <4>2
    <3> QED BY <1>3, <2>2, <3>1, <3>2
  <2> QED BY <1>5, <2>1, <2>2
<1>17. Remembered'
  <2> SUFFICES ASSUME NEW r \in DOMAIN approvals', approvals'[r].hash.session = active
               PROVE  /\ "exec" \in approvals'[r].forgotten \/ r \in DOMAIN exec'
                      /\ "idem" \in approvals'[r].forgotten \/ approvals'[r].idemKey \in DOMAIN idem'
                      /\ "seen" \in approvals'[r].forgotten \/ approvals'[r].intentKey \in DOMAIN seen'
    BY <1>2 DEF Remembered
  <2>1. CASE r \in DOMAIN approvals
    BY <1>1, <1>4, <1>5, <2>1 DEF Remembered, LaterOf, Noted
  <2>2. CASE r \notin DOMAIN approvals
    <3>1. r = n /\ d.ref = n /\ FreshApproval(i, d)
      BY <1>4, <1>12, <2>2
    <3> QED BY <1>4, <1>5, <1>9, <2>2, <3>1 DEF Noted
  <2> QED BY <2>1, <2>2
<1>18. Marked'
  <2> SUFFICES ASSUME NEW r \in DOMAIN approvals'
               PROVE  \/ "exec" \in approvals'[r].forgotten
                      \/ approvals'[r].uses = <<>>
                      \/ Len(approvals'[r].uses) = 1 /\ (r \in DOMAIN exec' => exec'[r].consumed)
    BY DEF Marked
  <2>1. CASE r \in DOMAIN approvals
    <3>1. LaterOf(approvals[r], approvals'[r])
      BY <1>4, <2>1
    <3>2. CASE r \in DOMAIN exec' /\ ~(r \in DOMAIN exec /\ exec'[r] = exec[r])
      <4>1. r = d.ref /\ Approves(d) /\ r \notin DOMAIN exec
        BY <1>5, <3>2
      <4>2. ReturnedApproval(i, d)
        BY <1>3, <1>7, <1>9, <2>1, <4>1
      <4> QED BY <1>8, <3>1, <4>1, <4>2 DEF LaterOf
    <3>3. CASE r \in DOMAIN exec' => (r \in DOMAIN exec /\ exec'[r] = exec[r])
      BY <1>1, <2>1, <3>1, <3>3 DEF Marked, LaterOf
    <3> QED BY <3>2, <3>3
  <2>2. CASE r \notin DOMAIN approvals
    BY <1>4, <2>2
  <2> QED BY <2>1, <2>2
<1>19. ApprovedOnceUnlessForgotten'
  <2> SUFFICES ASSUME NEW r1 \in DOMAIN approvals', NEW r2 \in DOMAIN approvals', r1 < r2
               PROVE  /\ approvals'[r1].intentKey = approvals'[r2].intentKey
                             => "seen" \in approvals'[r1].forgotten
                      /\ approvals'[r1].idemKey = approvals'[r2].idemKey
                             => "idem" \in approvals'[r1].forgotten
    BY DEF ApprovedOnceUnlessForgotten
  <2>1. r1 \in DOMAIN approvals
    <3>1. r1 \notin DOMAIN approvals => r1 = n
      BY <1>4
    <3>2. r2 = n \/ r2 \in 1 .. n - 1
      BY <1>4, <1>7
    <3> QED BY <1>7, <3>1, <3>2
  <2>2. LaterOf(approvals[r1], approvals'[r1])
    BY <1>4, <2>1
  <2>3. CASE r2 \in DOMAIN approvals
    BY <1>1, <1>4, <2>1, <2>2, <2>3 DEF ApprovedOnceUnlessForgotten, LaterOf
  <2>4. CASE r2 \notin DOMAIN approvals
    <3>1. r2 = n /\ d.ref = n /\ FreshApproval(i, d)
      BY <1>4, <1>12, <2>4
    <3>2. /\ approvals'[r2].intentKey = IntentKey(i) /\ approvals'[r2].idemKey = IdempotencyKey(i)
          /\ IntentKey(i).session = active /\ IdempotencyKey(i).session = active
      BY <1>4, <1>6, <1>9, <2>4, <3>1
    <3>3. /\ approvals[r1].intentKey.session = approvals[r1].hash.session
          /\ approvals[r1].idemKey.session = approvals[r1].hash.session
          /\ approvals[r1].hash.session = active =>
                /\ "idem" \in approvals[r1].forgotten \/ approvals[r1].idemKey \in DOMAIN idem
                /\ "seen" \in approvals[r1].forgotten \/ approvals[r1].intentKey \in DOMAIN seen
      BY <1>1, <2>1 DEF SessionsMatch, Remembered
    <3> QED BY <1>9, <2>2, <3>1, <3>2, <3>3 DEF LaterOf
  <2> QED BY <2>3, <2>4
<1>20. UsedWithinTtl' /\ ExecutedAsApproved'
  <2>1. \A r \in DOMAIN approvals' :
            \/ r \in DOMAIN approvals /\ LaterOf(approvals[r], approvals'[r])
            \/ DOMAIN approvals'[r].uses = {}
    BY <1>4
  <2> QED BY <1>1, <2>1 DEF UsedWithinTtl, ExecutedAsApproved, LaterOf
<1> QED
  BY <1>13, <1>14, <1>15, <1>16, <1>17, <1>18, <1>19, <1>20 DEF AuthInv

-----------------------------------------------------------------------------
(* The other steps.                                                        *)

\* consume_execution_authorization_at notes one use of an approval, of the approved request
\* in its session and epoch and in time, and marks the record that it used.
LEMMA ConsumeFacts ==
    ASSUME AuthInv, NEW i \in Intents, NEW r \in DOMAIN exec, Consume(r, i)
    PROVE  \E u \in Use :
             /\ r \in DOMAIN approvals /\ ~exec[r].consumed
             /\ u.hash = approvals[r].hash /\ u.session = approvals[r].hash.session
             /\ u.epoch = approvals[r].hash.epoch
             /\ \/ u.at < approvals[r].at + TTL
                \/ "exec" \in approvals[r].forgotten /\ u.at < approvals[r].at + 2 * TTL
             /\ DOMAIN exec' = DOMAIN exec
             /\ \A x \in DOMAIN exec : x # r => exec'[x] = exec[x]
             /\ exec'[r] = [exec[r] EXCEPT !.consumed = TRUE]
             /\ DOMAIN approvals' = DOMAIN approvals
             /\ \A x \in DOMAIN approvals : x # r => approvals'[x] = approvals[x]
             /\ approvals'[r] = [approvals[r] EXCEPT !.uses = Append(approvals[r].uses, u)]
<1> DEFINE u == [at |-> now, hash |-> RequestHash(i), session |-> active, epoch |-> epoch]
<1>1. AuthorizationTypeOK /\ AuthorizationsMatch
  BY DEF AuthInv
<1>2. r \in DOMAIN approvals /\ approvals \in Seq(Approval)
      /\ exec[r] \in [hash : Hash, session : Nat, expires : Nat, consumed : BOOLEAN]
      /\ active \in Nat /\ epoch \in Nat /\ now \in Nat
  BY <1>1 DEF AuthorizationTypeOK, IsMap
<1>3. /\ Usable(exec[r]) /\ exec[r].session = active /\ exec[r].hash.epoch = epoch
      /\ exec[r].hash = RequestHash(i)
      /\ exec' = [exec EXCEPT ![r] = MarkConsumed(exec[r])]
      /\ approvals' = [approvals EXCEPT ![r].uses = Append(@, u)]
  BY DEF Consume
<1>4. u \in Use /\ u.hash = RequestHash(i) /\ u.session = active /\ u.epoch = epoch /\ u.at = now
  BY <1>1, <1>2, IntentTypes DEF Use
<1> HIDE DEF u
<1>5. ~exec[r].consumed /\ now < exec[r].expires
  BY <1>2, <1>3 DEF Usable, Expired
<1>6. /\ u.hash = approvals[r].hash /\ u.session = approvals[r].hash.session
      /\ u.epoch = approvals[r].hash.epoch
  BY <1>1, <1>3, <1>4 DEF AuthorizationsMatch
<1>7. approvals[r].at \in Nat
  <2>1. approvals[r] \in Approval
    BY <1>2, ElementOfSeq, LenProperties
  <2> QED BY <2>1 DEF Approval
<1>8. \/ u.at < approvals[r].at + TTL
      \/ "exec" \in approvals[r].forgotten /\ u.at < approvals[r].at + 2 * TTL
  BY <1>1, <1>2, <1>4, <1>5, <1>7, LimitAssumption DEF AuthorizationsMatch
<1>9. /\ DOMAIN exec' = DOMAIN exec
      /\ \A x \in DOMAIN exec : x # r => exec'[x] = exec[x]
      /\ exec'[r] = [exec[r] EXCEPT !.consumed = TRUE]
  BY <1>3 DEF MarkConsumed
<1>10. /\ DOMAIN approvals' = DOMAIN approvals
       /\ \A x \in DOMAIN approvals : x # r => approvals'[x] = approvals[x]
       /\ approvals'[r] = [approvals[r] EXCEPT !.uses = Append(approvals[r].uses, u)]
  BY <1>2, <1>3
<1> QED
  BY <1>2, <1>4, <1>5, <1>6, <1>8, <1>9, <1>10

\* An execution keeps the invariant: the record it marks is the one that is looked at again.
LEMMA ConsumeStep ==
    ASSUME AuthInv, NEW i \in Intents, NEW r \in DOMAIN exec, Consume(r, i)
    PROVE  AuthInv'
<1>1. /\ AuthorizationTypeOK /\ SessionsMatch /\ RecordsMatch /\ AuthorizationsMatch
      /\ Remembered /\ Marked /\ ApprovedOnceUnlessForgotten /\ UsedWithinTtl
      /\ ExecutedAsApproved
  BY DEF AuthInv
<1>2. UNCHANGED <<active, sessions, epoch, now, idem, seen>>
  BY DEF Consume
<1>3. PICK u \in Use :
             /\ r \in DOMAIN approvals /\ ~exec[r].consumed
             /\ u.hash = approvals[r].hash /\ u.session = approvals[r].hash.session
             /\ u.epoch = approvals[r].hash.epoch
             /\ \/ u.at < approvals[r].at + TTL
                \/ "exec" \in approvals[r].forgotten /\ u.at < approvals[r].at + 2 * TTL
             /\ DOMAIN exec' = DOMAIN exec
             /\ \A x \in DOMAIN exec : x # r => exec'[x] = exec[x]
             /\ exec'[r] = [exec[r] EXCEPT !.consumed = TRUE]
             /\ DOMAIN approvals' = DOMAIN approvals
             /\ \A x \in DOMAIN approvals : x # r => approvals'[x] = approvals[x]
             /\ approvals'[r] = [approvals[r] EXCEPT !.uses = Append(approvals[r].uses, u)]
  BY ConsumeFacts
<1> DEFINE a == approvals[r]
           b == approvals'[r]
<1>4. /\ approvals \in Seq(Approval) /\ DOMAIN approvals = 1 .. Len(approvals)
      /\ Len(approvals) \in Nat /\ \A x \in DOMAIN approvals : approvals[x] \in Approval
  BY <1>1, LenProperties, ElementOfSeq DEF AuthorizationTypeOK
<1>5. a \in Approval /\ a.uses \in Seq(Use) /\ Append(a.uses, u) \in Seq(Use)
  BY <1>3, <1>4, AppendProperties DEF Approval
<1>6. b = [hash |-> a.hash, intentKey |-> a.intentKey, idemKey |-> a.idemKey, at |-> a.at,
           uses |-> Append(a.uses, u), forgotten |-> a.forgotten]
  BY <1>3, <1>5 DEF Approval
<1>7. /\ b \in Approval /\ b.hash = a.hash /\ b.intentKey = a.intentKey /\ b.idemKey = a.idemKey
      /\ b.at = a.at /\ b.uses = Append(a.uses, u) /\ b.forgotten = a.forgotten
  BY <1>5, <1>6 DEF Approval
<1> HIDE DEF a, b
<1>8. \A x \in DOMAIN approvals :
          /\ approvals'[x] \in Approval
          /\ approvals'[x].hash = approvals[x].hash /\ approvals'[x].at = approvals[x].at
          /\ approvals'[x].intentKey = approvals[x].intentKey
          /\ approvals'[x].idemKey = approvals[x].idemKey
          /\ approvals'[x].forgotten = approvals[x].forgotten
  BY <1>3, <1>4, <1>7 DEF a, b
<1>9. exec[r] \in [hash : Hash, session : Nat, expires : Nat, consumed : BOOLEAN]
  BY <1>1 DEF AuthorizationTypeOK, IsMap
<1>10. \A x \in DOMAIN exec :
          /\ exec'[x].hash = exec[x].hash /\ exec'[x].session = exec[x].session
          /\ exec'[x].expires = exec[x].expires
          /\ exec'[x] \in [hash : Hash, session : Nat, expires : Nat, consumed : BOOLEAN]
  <2>1. \A x \in DOMAIN exec :
            exec[x] \in [hash : Hash, session : Nat, expires : Nat, consumed : BOOLEAN]
    BY <1>1 DEF AuthorizationTypeOK, IsMap
  <2>2. exec'[r] = [hash |-> exec[r].hash, session |-> exec[r].session,
                    expires |-> exec[r].expires, consumed |-> TRUE]
    BY <1>3, <1>9
  <2>3. /\ exec'[r].hash = exec[r].hash /\ exec'[r].session = exec[r].session
        /\ exec'[r].expires = exec[r].expires
        /\ exec'[r] \in [hash : Hash, session : Nat, expires : Nat, consumed : BOOLEAN]
    BY <1>9, <2>2
  <2> QED BY <1>3, <2>1, <2>3
<1>11. exec'[r].consumed
  BY <1>3, <1>9
<1>12. AuthorizationTypeOK'
  <2>1. approvals' \in Seq(Approval)
    <3>1. approvals' \in [1 .. Len(approvals) -> Approval]
      <4>1. approvals' = [x \in DOMAIN approvals |-> approvals'[x]]
        BY DEF Consume
      <4> QED BY <1>4, <1>8, <4>1
    <3> QED BY <1>4, <3>1, SeqDef
  <2>2. IsMap(exec', DOMAIN approvals',
              [hash : Hash, session : Nat, expires : Nat, consumed : BOOLEAN])
    BY <1>1, <1>3, <1>10 DEF AuthorizationTypeOK, IsMap
  <2> QED BY <1>1, <1>2, <2>1, <2>2 DEF AuthorizationTypeOK
<1>13. SessionsMatch' /\ Remembered' /\ ApprovedOnceUnlessForgotten'
  BY <1>1, <1>2, <1>3, <1>8 DEF SessionsMatch, Remembered, ApprovedOnceUnlessForgotten
<1>14. RecordsMatch'
  BY <1>1, <1>2, <1>3, <1>8 DEF RecordsMatch, Approves
<1>15. AuthorizationsMatch'
  <2>1. DOMAIN exec \subseteq DOMAIN approvals
    BY <1>1 DEF AuthorizationTypeOK, IsMap
  <2> QED BY <1>1, <1>2, <1>3, <1>8, <1>10, <2>1 DEF AuthorizationsMatch
<1>16. Marked'
  <2> SUFFICES ASSUME NEW x \in DOMAIN approvals
               PROVE  \/ "exec" \in approvals'[x].forgotten
                      \/ approvals'[x].uses = <<>>
                      \/ Len(approvals'[x].uses) = 1 /\ (x \in DOMAIN exec' => exec'[x].consumed)
    BY <1>3 DEF Marked
  <2>1. CASE x # r
    BY <1>1, <1>3, <2>1 DEF Marked
  <2>2. CASE x = r
    <3>1. "exec" \in a.forgotten \/ a.uses = <<>>
      BY <1>1, <1>3 DEF Marked, a
    <3>2. a.uses = <<>> => Len(b.uses) = 1
      BY <1>5, <1>7, AppendProperties, EmptySeq
    <3> QED BY <1>7, <1>11, <2>2, <3>1, <3>2 DEF b
  <2> QED BY <2>1, <2>2
<1>17. \A x \in DOMAIN b.uses : (x \in DOMAIN a.uses /\ b.uses[x] = a.uses[x]) \/ b.uses[x] = u
  <2>1. /\ DOMAIN a.uses = 1 .. Len(a.uses) /\ Len(a.uses) \in Nat
        /\ Len(b.uses) = Len(a.uses) + 1 /\ DOMAIN b.uses = 1 .. Len(b.uses)
        /\ \A x \in 1 .. Len(a.uses) : b.uses[x] = a.uses[x]
        /\ b.uses[Len(a.uses) + 1] = u
    BY <1>5, <1>7, LenProperties, AppendProperties
  <2> QED BY <2>1
<1>18. UsedWithinTtl'
  <2> SUFFICES ASSUME NEW x \in DOMAIN approvals, NEW y \in DOMAIN approvals'[x].uses
               PROVE  \/ approvals'[x].uses[y].at < approvals'[x].at + TTL
                      \/ /\ "exec" \in approvals'[x].forgotten
                         /\ approvals'[x].uses[y].at < approvals'[x].at + 2 * TTL
    BY <1>3 DEF UsedWithinTtl
  <2>1. CASE x # r
    BY <1>1, <1>3, <2>1 DEF UsedWithinTtl
  <2>2. CASE x = r
    BY <1>1, <1>3, <1>7, <1>17, <2>2 DEF UsedWithinTtl, a, b
  <2> QED BY <2>1, <2>2
<1>19. ExecutedAsApproved'
  <2> SUFFICES ASSUME NEW x \in DOMAIN approvals, NEW y \in DOMAIN approvals'[x].uses
               PROVE  /\ approvals'[x].uses[y].hash = approvals'[x].hash
                      /\ approvals'[x].uses[y].session = approvals'[x].hash.session
                      /\ approvals'[x].uses[y].epoch = approvals'[x].hash.epoch
    BY <1>3 DEF ExecutedAsApproved
  <2>1. CASE x # r
    BY <1>1, <1>3, <2>1 DEF ExecutedAsApproved
  <2>2. CASE x = r
    <3>1. \A z \in DOMAIN a.uses : /\ a.uses[z].hash = a.hash
                                   /\ a.uses[z].session = a.hash.session
                                   /\ a.uses[z].epoch = a.hash.epoch
      BY <1>1, <1>3 DEF ExecutedAsApproved, a
    <3>2. u.hash = a.hash /\ u.session = a.hash.session /\ u.epoch = a.hash.epoch
      BY <1>3 DEF a
    <3>3. approvals'[x] = b /\ y \in DOMAIN b.uses
      BY <2>2 DEF b
    <3> QED BY <1>7, <1>17, <3>1, <3>2, <3>3
  <2> QED BY <2>1, <2>2
<1> QED
  BY <1>12, <1>13, <1>14, <1>15, <1>16, <1>18, <1>19 DEF AuthInv

\* connection_closed leaves no authorisation behind: all of them are of the session it ends.
LEMMA CloseStep ==
    ASSUME AuthInv, Close
    PROVE  AuthInv'
<1>1. /\ AuthorizationTypeOK /\ SessionsMatch /\ RecordsMatch /\ AuthorizationsMatch
      /\ Remembered /\ Marked /\ ApprovedOnceUnlessForgotten /\ UsedWithinTtl
      /\ ExecutedAsApproved
  BY DEF AuthInv
<1>2. active' = 0 /\ UNCHANGED <<sessions, epoch, now, approvals>>
  BY DEF Close
<1>3. DOMAIN exec' = {}
  BY <1>1 DEF Close, ExecOfOthers, Restrict, AuthorizationsMatch
<1>4. /\ \A k \in DOMAIN idem' : k \in DOMAIN idem /\ idem'[k] = idem[k] /\ k.session # active
      /\ \A k \in DOMAIN seen' : k \in DOMAIN seen /\ seen'[k] = seen[k]
  BY DEF Close, Restrict
<1>5. AuthorizationTypeOK'
  BY <1>1, <1>2, <1>3, <1>4 DEF AuthorizationTypeOK, IsMap
<1>6. SessionsMatch' /\ Remembered'
  BY <1>1, <1>2 DEF SessionsMatch, Remembered
<1>7. RecordsMatch'
  BY <1>1, <1>2, <1>4 DEF RecordsMatch, Approves
<1>8. AuthorizationsMatch' /\ Marked'
  BY <1>1, <1>2, <1>3 DEF AuthorizationsMatch, Marked
<1>9. ApprovedOnceUnlessForgotten' /\ UsedWithinTtl' /\ ExecutedAsApproved'
  BY <1>1, <1>2 DEF ApprovedOnceUnlessForgotten, UsedWithinTtl, ExecutedAsApproved
<1> QED
  BY <1>5, <1>6, <1>7, <1>8, <1>9 DEF AuthInv

\* complete_session opens a session that no approval is of.
LEMMA ConnectStep ==
    ASSUME AuthInv, Connect
    PROVE  AuthInv'
<1>1. /\ AuthorizationTypeOK /\ SessionsMatch /\ RecordsMatch /\ AuthorizationsMatch
      /\ Remembered /\ Marked /\ ApprovedOnceUnlessForgotten /\ UsedWithinTtl
      /\ ExecutedAsApproved
  BY DEF AuthInv
<1>2. /\ active = 0 /\ sessions' = sessions + 1 /\ active' = sessions + 1
      /\ UNCHANGED <<epoch, now, idem, seen, exec, approvals>> /\ sessions \in Nat
  BY <1>1 DEF Connect, maps, AuthorizationTypeOK
<1>3. DOMAIN exec = {}
  <2>1. DOMAIN exec \subseteq DOMAIN approvals
    BY <1>1 DEF AuthorizationTypeOK, IsMap
  <2>2. ASSUME NEW r \in DOMAIN exec PROVE FALSE
    <3>1. approvals[r].hash.session = 0
      BY <1>1, <1>2 DEF AuthorizationsMatch
    <3>2. approvals[r].hash.session \in 1 .. sessions
      BY <1>1, <2>1 DEF SessionsMatch
    <3> QED BY <1>2, <3>1, <3>2
  <2> QED BY <2>2
<1>4. \A k \in DOMAIN idem : ~Approves(idem[k].decision)
  BY <1>1, <1>2 DEF RecordsMatch, SessionsMatch
<1>5. AuthorizationTypeOK'
  BY <1>1, <1>2 DEF AuthorizationTypeOK
<1>6. SessionsMatch' /\ Remembered'
  BY <1>1, <1>2 DEF SessionsMatch, Remembered
<1>7. RecordsMatch'
  BY <1>1, <1>2, <1>4 DEF RecordsMatch, Approves
<1>8. AuthorizationsMatch' /\ Marked'
  BY <1>1, <1>2, <1>3 DEF AuthorizationsMatch, Marked
<1>9. ApprovedOnceUnlessForgotten' /\ UsedWithinTtl' /\ ExecutedAsApproved'
  BY <1>1, <1>2 DEF ApprovedOnceUnlessForgotten, UsedWithinTtl, ExecutedAsApproved
<1> QED
  BY <1>5, <1>6, <1>7, <1>8, <1>9 DEF AuthInv

\* Neither the clock nor a new ownership epoch touches what was given.
LEMMA ClockStep ==
    ASSUME AuthInv, UNCHANGED <<active, sessions, maps>>, epoch' \in Nat, now' \in Nat
    PROVE  AuthInv'
BY DEF AuthInv, maps, AuthorizationTypeOK, SessionsMatch, RecordsMatch, AuthorizationsMatch,
       Remembered, Marked, ApprovedOnceUnlessForgotten, UsedWithinTtl, ExecutedAsApproved,
       Approves, IsMap

\* The invariant holds of a service that was just started and is kept by every intent,
\* execution, session and tick.
THEOREM AuthorizationInvariant == AuthorizationSpec => []AuthInv
<1>1. AuthorizationInit => AuthInv
  <2> SUFFICES ASSUME AuthorizationInit PROVE AuthInv
    OBVIOUS
  <2>1. /\ active = 0 /\ sessions = 0 /\ epoch = 1 /\ now = 0
        /\ DOMAIN idem = {} /\ DOMAIN seen = {} /\ DOMAIN exec = {} /\ DOMAIN approvals = {}
        /\ approvals \in Seq(Approval)
    BY EmptySeq DEF AuthorizationInit
  <2>2. AuthorizationTypeOK
    BY <2>1 DEF AuthorizationTypeOK, IsMap
  <2> QED BY <2>1, <2>2 DEF AuthInv, SessionsMatch, RecordsMatch, AuthorizationsMatch, Remembered,
                            Marked, ApprovedOnceUnlessForgotten, UsedWithinTtl, ExecutedAsApproved
<1>2. AuthInv /\ [AuthorizationNext]_authorizationVars => AuthInv'
  <2> SUFFICES ASSUME AuthInv, [AuthorizationNext]_authorizationVars PROVE AuthInv'
    OBVIOUS
  <2>1. ASSUME NEW i \in Intents, NEW refused \in BOOLEAN, Evaluate(i, refused) PROVE AuthInv'
    BY <2>1, EvaluateStep
  <2>2. ASSUME NEW i \in Intents, NEW r \in DOMAIN exec, Consume(r, i) PROVE AuthInv'
    BY <2>2, ConsumeStep
  <2>3. epoch \in Nat /\ now \in Nat
    BY DEF AuthInv, AuthorizationTypeOK
  <2>4. CASE TakeOver
    BY <2>3, <2>4, ClockStep DEF TakeOver, maps
  <2>5. CASE Tick
    BY <2>3, <2>5, ClockStep DEF Tick, maps
  <2>6. CASE UNCHANGED authorizationVars
    BY <2>3, <2>6, ClockStep DEF authorizationVars, maps
  <2> QED BY <2>1, <2>2, <2>4, <2>5, <2>6, ConnectStep, CloseStep DEF AuthorizationNext
<1> QED
  BY <1>1, <1>2, PTL DEF AuthorizationSpec

-----------------------------------------------------------------------------
(* What the runs check, for every value of the constants.                  *)

\* The evaluator's maps and the history keep their types, for any commands and policies.
THEOREM AuthorizationTypes == AuthorizationSpec => []AuthorizationTypeOK
<1>1. AuthInv => AuthorizationTypeOK
  BY DEF AuthInv
<1> QED
  BY <1>1, AuthorizationInvariant, PTL

\* invalidate_session leaves no authorisation of a session that ended, and record_terminal
\* makes none for a session that is not connected.
THEOREM AuthorizationsDieWithSession == AuthorizationSpec => []OnlyLiveAuthorizations
<1>1. AuthInv => OnlyLiveAuthorizations
  BY DEF AuthInv, OnlyLiveAuthorizations, AuthorizationsMatch, RecordsMatch, Approves
<1> QED
  BY <1>1, AuthorizationInvariant, PTL

\* Approvals and executions are single use as long as enforce_record_bound keeps the record
\* that remembers them, for every bound, policy and time to live.
THEOREM SingleUseWhileRemembered == AuthorizationSpec => []OnceUnlessForgotten
<1>1. AuthInv => OnceUnlessForgotten
  <2> SUFFICES ASSUME AuthInv, NEW r \in DOMAIN approvals, Len(approvals[r].uses) > 1
               PROVE  "exec" \in approvals[r].forgotten
    BY DEF OnceUnlessForgotten, SingleUseUnlessForgotten, AuthInv
  <2>1. approvals[r].uses # <<>> /\ Len(approvals[r].uses) # 1
    <3>1. approvals \in Seq(Approval)
      BY DEF AuthInv, AuthorizationTypeOK
    <3>2. approvals[r] \in Approval
      BY <3>1, ElementOfSeq, LenProperties
    <3>3. approvals[r].uses \in Seq(Use)
      BY <3>2 DEF Approval
    <3>4. Len(approvals[r].uses) \in Nat /\ (approvals[r].uses = <<>> => Len(approvals[r].uses) = 0)
      BY <3>3, EmptySeq
    <3>5. \A n \in Nat : n > 1 => n # 0 /\ n # 1
      OBVIOUS
    <3>6. Len(approvals[r].uses) # 0 /\ Len(approvals[r].uses) # 1
      BY <3>4, <3>5
    <3> QED BY <3>4, <3>6, Zenon
  <2> QED BY <2>1 DEF AuthInv, Marked
<1> QED
  BY <1>1, AuthorizationInvariant, PTL

\* consume_execution_authorization_at executes what was approved, in the approval's session
\* and epoch, and within its time to live or twice that.
THEOREM UsesAreGranted == AuthorizationSpec => []UsesAsGranted
<1>1. AuthInv => UsesAsGranted
  BY DEF AuthInv, UsesAsGranted
<1> QED
  BY <1>1, AuthorizationInvariant, PTL

=============================================================================
