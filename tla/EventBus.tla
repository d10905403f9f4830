------------------------------ MODULE EventBus ------------------------------
(***************************************************************************)
(* The in-process event bus of the platform crate                          *)
(* (src/crates/platform/src/event_bus): topics, subscriptions with a       *)
(* bounded queue each, publication with overflow handling, polled and      *)
(* dispatched delivery, retry, and the dead-letter list.                   *)
(*                                                                         *)
(* Every method of EventBus runs under one lock (RuntimeEventBusHandle     *)
(* holds the bus in a Mutex), so a method is one action.  Between a poll   *)
(* and the ack or fail_delivery that answers it other callers may run:     *)
(* that is the interleaving this module is about.  Calls that return an    *)
(* error or find nothing to do leave the bus as it is and are stuttering   *)
(* steps.                                                                  *)
(***************************************************************************)
EXTENDS Integers, FiniteSets, Sequences, FiniteSetsExt, SequencesExt

CONSTANTS
    Topics,           \* topic names
    Subs,             \* subscription identifiers
    Events,           \* event identifiers (EventEnvelope.event_id)
    PublishLanes,     \* values of PublishOptions.priority_lane that occur
    Majors,           \* schema major versions that occur
    TopicConfigs,     \* topic definitions that register_topic may install
    SubConfigs,       \* subscription definitions that subscribe may install
    MaxPublications   \* bound on the publications of a run

Lanes == 0 .. 5       \* P0Critical .. P5UiRefresh, by PriorityLane::rank
U16Max == 65535

NoTopic == [default |-> 0, protected |-> FALSE, major |-> -1]
NoConfig == [topic |-> "none", accepted |-> {}, maxAttempts |-> 0,
             capacity |-> 0, active |-> FALSE]
NoSub == "no subscription"
FromTopic == -1       \* PublishOptions.priority_lane = None

TopicConfig == [default : Lanes, protected : BOOLEAN, major : Majors]
SubConfig == [topic : Topics, accepted : SUBSET Lanes, maxAttempts : 0 .. U16Max,
              capacity : Nat \ {0}, active : BOOLEAN]

\* with_queue_capacity clamps the capacity to at least 1.
ASSUME TopicAssumption == TopicConfigs \subseteq TopicConfig
ASSUME SubAssumption == SubConfigs \subseteq SubConfig /\ NoSub \notin Subs
ASSUME LaneAssumption == PublishLanes \subseteq Lanes \cup {FromTopic}
ASSUME MajorAssumption == Majors \subseteq Nat
ASSUME BoundAssumption == MaxPublications \in Nat

VARIABLES
    topics,           \* EventBus.topics
    subscriptions,    \* EventBus.subscriptions
    queues,           \* EventBus.queues
    deadLetters,      \* EventBus.dead_letters, as a set: see DeadLetter
    \* The rest is what the callers know: no field of the bus holds it.
    publications,     \* the accepted calls of publish, in order
    handled,          \* the event ids each subscriber was handed
    acked             \* the deliveries an ack removed

busVars == <<topics, subscriptions, queues, deadLetters>>
callerVars == <<publications, handled, acked>>
vars == <<topics, subscriptions, queues, deadLetters, publications, handled, acked>>

-----------------------------------------------------------------------------

Reasons == {"UnsupportedContractVersion", "NoSubscription", "QueueOverflow", "HandlerError"}

\* A QueuedDelivery.  `pub` numbers the call of publish it comes from, so that
\* two publications of one event id can be told apart.
Delivery == [pub : Nat, event : Events, lane : Lanes, attempt : 0 .. U16Max]

\* A DeadLetterRecord.  Every record has an id of its own; a publication and a
\* subscription have at most one record, so the pair stands for the id.
DeadLetterRecord == [pub : Nat, event : Events, lane : Lanes, attempt : 0 .. U16Max,
                     sub : Subs \cup {NoSub}, reason : Reasons]

Publication == [event : Events, topic : Topics, lane : Lanes, matched : SUBSET Subs,
                result : {"ok", "rejected"}]

Queued(d, attempt) == [d EXCEPT !.attempt = attempt]

DeadLetter(d, s, reason) ==
    [pub |-> d.pub, event |-> d.event, lane |-> d.lane, attempt |-> d.attempt,
     sub |-> s, reason |-> reason]

\* PriorityLane::can_drop_under_pressure
CanDropUnderPressure(lane) == lane >= 3

\* Mutant: under pressure the oldest event goes, whatever its lane.
DroppableAtAnyLane(q) == DOMAIN q

DroppableAt(q) == {i \in DOMAIN q : CanDropUnderPressure(q[i].lane)}

SaturatingInc(n) == IF n < U16Max THEN n + 1 ELSE U16Max

Subscribed(s) == subscriptions[s] # NoConfig

\* EventRoute::accepts
Accepts(cfg, lane) == cfg.accepted = {} \/ lane \in cfg.accepted

Matching(t, lane) ==
    {s \in Subs : /\ Subscribed(s)
                  /\ subscriptions[s].active
                  /\ subscriptions[s].topic = t
                  /\ Accepts(subscriptions[s], lane)}

-----------------------------------------------------------------------------

HasRoom(s) == Len(queues[s]) < subscriptions[s].capacity

\* The queue when delivery d displaces the one at position victim.
Displace(q, victim, d) == Append(RemoveAt(q, victim), d)

\* Mutant: the evicted event leaves no dead letter.
OverflowLetterForgotten(d, s) == {}

OverflowLetter(d, s) == {DeadLetter(d, s, "QueueOverflow")}

\* What enqueue does to the queue of subscription s, the dead letter it
\* records and the EnqueueOutcome it reports.
Enqueue(s, d) ==
    LET q == queues[s]
        victim == Min(DroppableAt(q))
    IN  IF HasRoom(s)
          THEN [queue |-> Append(q, d), dead |-> {}, outcome |-> "enqueued"]
        ELSE IF DroppableAt(q) # {}
          THEN [queue |-> Displace(q, victim, d), dead |-> OverflowLetter(q[victim], s),
                outcome |-> "dropped"]
        ELSE [queue |-> q, dead |-> OverflowLetter(d, s),
              outcome |-> IF CanDropUnderPressure(d.lane) THEN "dropped" ELSE "rejected"]

Init ==
    /\ topics = [t \in Topics |-> NoTopic]
    /\ subscriptions = [s \in Subs |-> NoConfig]
    /\ queues = [s \in Subs |-> <<>>]
    /\ deadLetters = {}
    /\ publications = <<>>
    /\ handled = [s \in Subs |-> {}]
    /\ acked = {}

\* register_topic: installs or replaces a topic.
RegisterTopic(t, cfg) ==
    /\ topics' = [topics EXCEPT ![t] = cfg]
    /\ UNCHANGED <<subscriptions, queues, deadLetters, callerVars>>

\* subscribe: installs or replaces a subscription; its queue survives.
Subscribe(s, cfg) ==
    /\ topics[cfg.topic] # NoTopic
    /\ subscriptions' = [subscriptions EXCEPT ![s] = cfg]
    /\ UNCHANGED <<topics, queues, deadLetters, callerVars>>

\* The lane of an event: the caller's choice, or the topic's default.
LaneOf(t, option) == IF option = FromTopic THEN topics[t].default ELSE option

NewDelivery(e, lane) ==
    [pub |-> Len(publications) + 1, event |-> e, lane |-> lane, attempt |-> 1]

Record(e, t, lane, matched, result) ==
    publications' = Append(publications, [event |-> e, topic |-> t, lane |-> lane,
                                          matched |-> matched, result |-> result])

\* publish, the schema check fails: one dead letter, nothing is queued.
PublishIncompatible(e, t, option, major) ==
    /\ Len(publications) < MaxPublications
    /\ topics[t] # NoTopic
    /\ topics[t].major # major
    /\ deadLetters' = deadLetters \cup
          {DeadLetter(Queued(NewDelivery(e, LaneOf(t, option)), 0), NoSub,
                      "UnsupportedContractVersion")}
    /\ Record(e, t, LaneOf(t, option), {}, "ok")
    /\ UNCHANGED <<topics, subscriptions, queues, handled, acked>>

\* publish, no active subscription accepts the event.
PublishUnrouted(e, t, option, major, validate) ==
    LET lane == LaneOf(t, option) IN
    /\ Len(publications) < MaxPublications
    /\ topics[t] # NoTopic
    /\ validate => topics[t].major = major
    /\ Matching(t, lane) = {}
    /\ deadLetters' = deadLetters \cup
          {DeadLetter(Queued(NewDelivery(e, lane), 0), NoSub, "NoSubscription")}
    /\ Record(e, t, lane, {}, "ok")
    /\ UNCHANGED <<topics, subscriptions, queues, handled, acked>>

\* Mutant: only a publication rejected by every subscription is an error.
RejectedByAll(served) == \A s \in DOMAIN served : served[s].outcome = "rejected"

Rejected(served) == \E s \in DOMAIN served : served[s].outcome = "rejected"

\* publish, at least one subscription matches.  The matching subscriptions are
\* served in hash-map order; each enqueue touches its own queue only.  A
\* rejection on a protected topic is reported after every one of them is served.
PublishRouted(e, t, option, major, validate) ==
    LET lane == LaneOf(t, option)
        matched == Matching(t, lane)
        served == [s \in matched |-> Enqueue(s, NewDelivery(e, lane))]
    IN
    /\ Len(publications) < MaxPublications
    /\ topics[t] # NoTopic
    /\ validate => topics[t].major = major
    /\ matched # {}
    /\ queues' = [s \in Subs |-> IF s \in matched THEN served[s].queue ELSE queues[s]]
    /\ deadLetters' = deadLetters \cup UNION {served[s].dead : s \in matched}
    /\ Record(e, t, lane, matched,
              IF Rejected(served) /\ topics[t].protected THEN "rejected" ELSE "ok")
    /\ UNCHANGED <<topics, subscriptions, handled, acked>>

\* poll: hands out a copy of the front delivery and leaves it queued.
Poll(s) ==
    /\ Subscribed(s)
    /\ queues[s] # <<>>
    /\ handled' = [handled EXCEPT ![s] = @ \cup {Head(queues[s]).event}]
    /\ UNCHANGED <<busVars, publications, acked>>

\* Mutant: ack trusts its caller and pops whatever is in front.
AckFrontUnchecked(s, e) ==
    /\ queues[s] # <<>>
    /\ queues' = [queues EXCEPT ![s] = Tail(@)]
    /\ acked' = acked \cup {[pub |-> Head(queues[s]).pub, sub |-> s,
                             event |-> Head(queues[s]).event]}
    /\ UNCHANGED deadLetters

\* Mutant: ack searches the queue for the id instead of looking at the front.
AckAnywhere(s, e) ==
    \E i \in DOMAIN queues[s] :
        /\ queues[s][i].event = e
        /\ queues' = [queues EXCEPT ![s] = RemoveAt(@, i)]
        /\ acked' = acked \cup {[pub |-> queues[s][i].pub, sub |-> s, event |-> e]}
        /\ UNCHANGED deadLetters

\* ack pops the front only when it carries the acknowledged id.
AckFront(s, e) ==
    /\ queues[s] # <<>>
    /\ Head(queues[s]).event = e
    /\ queues' = [queues EXCEPT ![s] = Tail(@)]
    /\ acked' = acked \cup {[pub |-> Head(queues[s]).pub, sub |-> s,
                             event |-> Head(queues[s]).event]}
    /\ UNCHANGED deadLetters

\* Mutant: an exhausted delivery gets one attempt more.
MayRetryOffByOne(s, attempt) == attempt <= subscriptions[s].maxAttempts

MayRetry(s, attempt) == attempt < subscriptions[s].maxAttempts

\* Mutant: the count of attempts starts anew instead of growing.
CountAttemptAnew(d) == Queued(d, IF d.attempt = 1 THEN 2 ELSE 1)

CountAttempt(d) == Queued(d, SaturatingInc(d.attempt))

\* fail_delivery: counts an attempt of the front delivery and moves it to the
\* dead letters when the subscription's attempts are used up.
FailFront(s, e, reason) ==
    LET failed == CountAttempt(Head(queues[s])) IN
    /\ queues[s] # <<>>
    /\ Head(queues[s]).event = e
    /\ IF MayRetry(s, failed.attempt)
         THEN /\ queues' = [queues EXCEPT ![s][1] = failed]
              /\ UNCHANGED deadLetters
         ELSE /\ queues' = [queues EXCEPT ![s] = Tail(@)]
              /\ deadLetters' = deadLetters \cup {DeadLetter(failed, s, reason)}
    /\ UNCHANGED acked

\* A subscriber acknowledges an event it was handed, maybe late, maybe again.
Ack(s, e) ==
    /\ Subscribed(s)
    /\ e \in handled[s]
    /\ AckFront(s, e)
    /\ UNCHANGED <<topics, subscriptions, publications, handled>>

\* A subscriber reports that it could not handle an event it was handed.
FailDelivery(s, e) ==
    /\ Subscribed(s)
    /\ e \in handled[s]
    /\ FailFront(s, e, "HandlerError")
    /\ UNCHANGED <<topics, subscriptions, publications, handled>>

\* Mutant: the handler's dead letter is popped and forgotten.
DispatchedDeadLetterForgotten(s) ==
    /\ queues' = [queues EXCEPT ![s] = Tail(@)]
    /\ UNCHANGED <<deadLetters, acked>>

DispatchedDeadLetter(s) ==
    /\ queues' = [queues EXCEPT ![s] = Tail(@)]
    /\ deadLetters' = deadLetters \cup {DeadLetter(Head(queues[s]), s, "HandlerError")}
    /\ UNCHANGED acked

\* dispatch_next: polls, runs the handler and applies its answer in one call.
DispatchNext(s, answer) ==
    /\ Subscribed(s)
    /\ queues[s] # <<>>
    /\ handled' = [handled EXCEPT ![s] = @ \cup {Head(queues[s]).event}]
    /\ CASE answer = "Ack" -> AckFront(s, Head(queues[s]).event)
         [] answer = "Retry" -> FailFront(s, Head(queues[s]).event, "HandlerError")
         [] answer = "DeadLetter" -> DispatchedDeadLetter(s)
    /\ UNCHANGED <<topics, subscriptions, publications>>

Publish ==
    \E e \in Events, t \in Topics, option \in PublishLanes, major \in Majors :
        \/ PublishIncompatible(e, t, option, major)
        \/ \E validate \in BOOLEAN :
              \/ PublishUnrouted(e, t, option, major, validate)
              \/ PublishRouted(e, t, option, major, validate)

Configure ==
    \/ \E t \in Topics, cfg \in TopicConfigs : RegisterTopic(t, cfg)
    \/ \E s \in Subs, cfg \in SubConfigs : Subscribe(s, cfg)

Answers == {"Ack", "Retry", "DeadLetter"}

Dispatch(s) == \E answer \in Answers : DispatchNext(s, answer)

Consume ==
    \E s \in Subs :
        \/ Poll(s)
        \/ Dispatch(s)
        \/ \E e \in Events : Ack(s, e) \/ FailDelivery(s, e)

Next == Publish \/ Configure \/ Consume

Spec == Init /\ [][Next]_vars

\* The bus runs no thread of its own: whoever owns a subscription dispatches it.
\* Settled deliveries are promised only to subscriptions whose owner keeps
\* calling dispatch_next.
FairSpec == Spec /\ \A s \in Subs : WF_vars(Dispatch(s))

-----------------------------------------------------------------------------

\* What can have become of the delivery that publication n owes subscription s.
Waits(n, s) == \E i \in DOMAIN queues[s] : queues[s][i].pub = n
IsAcked(n, s) == \E a \in acked : a.pub = n /\ a.sub = s
IsBuried(n, s) == \E d \in deadLetters : d.pub = n /\ d.sub = s

\* Type correctness of the bus and of the callers' records.
TypeOK ==
    /\ topics \in [Topics -> TopicConfigs \cup {NoTopic}]
    /\ subscriptions \in [Subs -> SubConfigs \cup {NoConfig}]
    /\ queues \in [Subs -> Seq(Delivery)]
    /\ deadLetters \subseteq DeadLetterRecord
    /\ publications \in Seq(Publication)
    /\ handled \in [Subs -> SUBSET Events]
    /\ acked \subseteq [pub : Nat, sub : Subs, event : Events]

\* Nothing is lost and nothing is settled twice: a delivery that publish matched
\* (publish, enqueue) is at any moment either waiting in the queue of its
\* subscription, or acknowledged, or in the dead letters, and never two of them;
\* a delivery that publish did not match is none of them.
EveryDeliveryAccounted ==
    \A n \in DOMAIN publications, s \in Subs :
        /\ s \in publications[n].matched <=> Waits(n, s) \/ IsAcked(n, s) \/ IsBuried(n, s)
        /\ ~(Waits(n, s) /\ IsAcked(n, s))
        /\ ~(Waits(n, s) /\ IsBuried(n, s))
        /\ ~(IsAcked(n, s) /\ IsBuried(n, s))

\* Each queue is in publication order, whatever enqueue evicted from its middle
\* and however often the front was retried.
QueueInPublicationOrder ==
    \A s \in Subs : \A i, j \in DOMAIN queues[s] :
        i < j => queues[s][i].pub < queues[s][j].pub

\* Deliveries of one subscription are acknowledged in publication order: what is
\* still waiting was published after everything already acknowledged, although
\* acks come late, repeated, or for an event that was evicted since its poll.
NoOvertaking ==
    \A a \in acked : \A i \in DOMAIN queues[a.sub] : a.pub < queues[a.sub][i].pub

\* Publication order is kept from the queue to the acknowledgement: no eviction from
\* the middle, retry of the front or late acknowledgement lets one event pass another.
InPublicationOrder == QueueInPublicationOrder /\ NoOvertaking

\* ack compares the id with the front of the queue: an acknowledgement that comes
\* after the event it is about was evicted never removes an event that its
\* subscriber was not handed.
AckedWasHandled ==
    \A a \in acked : a.event \in handled[a.sub]

\* A queue holds at most as many deliveries as some subscription definition
\* allows; an eviction makes room for exactly one delivery, and a queue inherited
\* by a new definition with a smaller capacity does not grow.
QueueBounded ==
    \A s \in Subs : queues[s] # <<>> => \E cfg \in SubConfigs : Len(queues[s]) <= cfg.capacity

\* A waiting delivery is on its first attempt or below the attempts some
\* definition allows: fail_delivery never leaves an exhausted delivery queued.
RetriesBounded ==
    \A s \in Subs : \A i \in DOMAIN queues[s] :
        queues[s][i].attempt = 1 \/ \E cfg \in SubConfigs : queues[s][i].attempt < cfg.maxAttempts

\* What a subscription definition bounds stays bounded although a new definition
\* inherits the queue and the attempts of the one before (subscribe, enqueue,
\* fail_delivery).
WithinDefinitions == QueueBounded /\ RetriesBounded

\* A queued P0..P2 delivery leaves its queue only from the front and after its
\* subscriber was handed it: no publication, retry or late ack of another event
\* removes it (enqueue evicts droppable events only).
CriticalLeavesOnlyHandled ==
    [][\A s \in Subs : \A i \in DOMAIN queues[s] :
           LET d == queues[s][i] IN
           ~CanDropUnderPressure(d.lane) /\ (\A j \in DOMAIN queues'[s] : queues'[s][j].pub # d.pub)
               => i = 1 /\ d.event \in handled'[s]]_vars

\* What publish answers on a protected topic is true of a P0..P2 event: Ok means
\* that every matched subscription has it queued, an error that some one has not.
ProtectedAnswerIsTrue ==
    [][\A n \in DOMAIN publications' \ DOMAIN publications :
           LET p == publications'[n]
           IN  topics[p.topic].protected /\ ~CanDropUnderPressure(p.lane)
                   => (p.result = "ok" <=> \A s \in p.matched : Waits(n, s)')]_vars

\* The bus implements the delivery ledger: read through FateOf, every call is one
\* ledger entry (or none).
FateOf(n, s) ==
    CASE Waits(n, s) -> "waiting"
      [] IsAcked(n, s) -> "acked"
      [] IsBuried(n, s) -> "dead"
      [] OTHER -> "none"

Ledger == INSTANCE DeliveryLedger WITH
              Pubs <- 1 .. MaxPublications,
              fate <- [n \in 1 .. MaxPublications |-> [s \in Subs |-> FateOf(n, s)]]

\* EventBus implements DeliveryLedger: a delivery goes from none to waiting or
\* dead, from waiting to acked or dead, and nowhere else; a publication evicts at
\* most one delivery of a subscription, and only to make room for its own.
ImplementsLedger == Ledger!Spec

\* Whatever is queued is settled in the end, if its subscription is dispatched:
\* no answer of the handler keeps a delivery at the front for ever.
EveryDeliverySettled ==
    \A n \in 1 .. MaxPublications, s \in Subs : Waits(n, s) ~> ~Waits(n, s)

=============================================================================
