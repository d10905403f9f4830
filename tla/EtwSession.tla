----------------------------- MODULE EtwSession -----------------------------
(***************************************************************************)
(* One real-time ETW trace session of the network provider                 *)
(* (src/crates/infrastructure/src/windows/etw_session.rs): the control     *)
(* thread that starts, drains and stops it, the consumer thread on which   *)
(* Windows calls the event callback, and the normalizer thread between     *)
(* the two bounded channels.  The DNS session of the same file has the     *)
(* same threads and the same steps.                                        *)
(*                                                                         *)
(* A step is one access to what the threads share: a counter, a flag, a    *)
(* channel.  Windows is external: it may refuse a call, end the trace by   *)
(* itself (another process may claim the session name), and it makes       *)
(* ProcessTrace return once its handle is closed or its trace is stopped.  *)
(***************************************************************************)
EXTENDS Integers, Sequences

CONSTANTS
    RawCapacity,      \* ETW_RAW_QUEUE_CAPACITY
    BatchCapacity,    \* ETW_BATCH_QUEUE_CAPACITY
    BatchSize,        \* ETW_NORMALIZER_BATCH_SIZE
    MaxRate,          \* ETW_MAX_EVENTS_PER_SECOND
    MaxDrain,         \* batches one drain may take, at most ETW_MAX_DRAIN_BATCHES
    MaxEvents,        \* bound on the callbacks of a run
    MaxDrains         \* bound on the drains of a run

ASSUME CapacityAssumption ==
    /\ RawCapacity \in Nat \ {0} /\ BatchCapacity \in Nat \ {0}
    /\ BatchSize \in Nat \ {0} /\ MaxRate \in Nat \ {0} /\ MaxDrain \in Nat
ASSUME BoundAssumption == MaxEvents \in Nat /\ MaxDrains \in Nat

VARIABLES
    control,       \* where the control thread is
    consumer,      \* where the consumer thread, with the callback on it, is
    normalizer,    \* where the normalizer thread is
    afterFlush,    \* where flush_normalized_batch returns to
    cancellation,  \* the shared cancellation flag
    trace,         \* whether Windows runs the trace session
    handle,        \* whether the processing handle is open
    workers,       \* consumer_worker_active and normalizer_worker_active
    rawQueue,      \* events in the raw channel
    pending,       \* events the normalizer holds
    offered,       \* events of the batch that is being offered
    batchQueue,    \* the batch channel: the events accepted in each batch
    metrics,       \* EtwLiveMetrics, the five counters of the read model
    window,        \* the rate limiter's window: its count, and whether its second is over
    snapshot,      \* the outcome that live_outcome reads counter by counter
    reading,       \* the counter that live_outcome reads next
    stopError,     \* whether ControlTrace refused to stop the trace
    tally          \* history: what became of events, and how many there were

vars == <<control, consumer, normalizer, afterFlush, cancellation, trace, handle, workers,
          rawQueue, pending, offered, batchQueue, metrics, window, snapshot, reading, stopError,
          tally>>

Tallies == {"events", "drains", "rejected", "queueFull", "merged", "batchFull", "lost"}
Counters == {"raw", "normalized", "dropped", "rateLimited", "schemaRejected"}

Bump(c, n) == metrics' = [metrics EXCEPT ![c] = @ + n]
Note(t, n) == tally' = [tally EXCEPT ![t] = @ + n]

\* The receiving end of the raw channel lives as long as the normalizer, the
\* sending end as long as the consumer.
ReceiverAlive == normalizer # "ended"
SenderAlive == consumer # "ended"

Init ==
    /\ control = "idle" /\ consumer = "none" /\ normalizer = "none" /\ afterFlush = "recv"
    /\ cancellation = FALSE /\ trace = FALSE /\ handle = FALSE
    /\ workers = [w \in {"consumer", "normalizer"} |-> FALSE]
    /\ rawQueue = 0 /\ pending = 0 /\ offered = 0 /\ batchQueue = <<>>
    /\ metrics = [c \in Counters |-> 0]
    /\ window = [count |-> 0, over |-> TRUE, allowed |-> 0]
    /\ snapshot = [c \in Counters |-> 0] /\ reading = "raw"
    /\ stopError = FALSE
    /\ tally = [t \in Tallies |-> 0]

shared == <<cancellation, trace, handle, stopError>>
outcome == <<snapshot, reading>>
channels == <<rawQueue, pending, offered, batchQueue>>

-----------------------------------------------------------------------------
(* The control thread *)

\* start: StartTrace and EnableTraceEx2 succeed (when they do not, nothing was
\* spawned), the two threads are spawned; start_consumer_thread waits for the
\* consumer's ready message.
Start ==
    /\ control = "idle"
    /\ control' = "opening" /\ trace' = TRUE
    /\ consumer' = "opening" /\ normalizer' = "spawned"
    /\ UNCHANGED <<afterFlush, cancellation, handle, workers, channels, metrics, window,
                   outcome, stopError, tally>>

\* The ready message: Ok leaves a running session, whose outcome is read at once;
\* an error has the half-started session stopped.
Ready ==
    /\ control = "opening"
    /\ consumer # "opening"
    /\ control' = IF handle THEN "reading" ELSE "cancel"
    /\ UNCHANGED <<consumer, normalizer, afterFlush, shared, workers, channels, metrics, window,
                   outcome, tally>>

\* drain_normalized_batches: takes batches until the limit or until there is none,
\* then reads the outcome.
Drain ==
    /\ control = "active"
    /\ tally.drains < MaxDrains
    /\ Note("drains", 1)
    /\ \E n \in 0 .. MaxDrain :
          /\ n <= Len(batchQueue)
          /\ n = MaxDrain \/ n = Len(batchQueue)
          /\ batchQueue' = SubSeq(batchQueue, n + 1, Len(batchQueue))
    /\ control' = "reading"
    /\ UNCHANGED <<consumer, normalizer, afterFlush, shared, workers, rawQueue, pending, offered,
                   metrics, window, outcome>>

\* live_outcome loads the counters one after the other, in this order.
NextCounter == [raw |-> "normalized", normalized |-> "dropped", dropped |-> "rateLimited",
                rateLimited |-> "schemaRejected", schemaRejected |-> "raw"]

ReadCounter ==
    /\ control = "reading"
    /\ snapshot' = [snapshot EXCEPT ![reading] = metrics[reading]]
    /\ reading' = NextCounter[reading]
    /\ control' = IF reading = "schemaRejected" THEN "report" ELSE "reading"
    /\ UNCHANGED <<consumer, normalizer, afterFlush, shared, workers, channels, metrics, window, tally>>

\* The outcome goes to the caller.
Report ==
    /\ control = "report"
    /\ control' = "active"
    /\ snapshot' = [c \in Counters |-> 0]
    /\ UNCHANGED <<consumer, normalizer, afterFlush, shared, workers, channels, metrics, window,
                   reading, tally>>

\* stop, step by step: the flag, the provider, the processing handle, the trace.
RequestStop ==
    /\ control = "active"
    /\ control' = "cancel"
    /\ UNCHANGED <<consumer, normalizer, afterFlush, shared, workers, channels, metrics, window,
                   outcome, tally>>

Cancel ==
    /\ control = "cancel"
    /\ cancellation' = TRUE
    /\ control' = "close"
    /\ UNCHANGED <<consumer, normalizer, afterFlush, trace, handle, stopError, workers, channels,
                   metrics, window, outcome, tally>>

CloseTrace ==
    /\ control = "close"
    /\ handle' = FALSE
    /\ control' = "stop"
    /\ UNCHANGED <<consumer, normalizer, afterFlush, cancellation, trace, stopError, workers,
                   channels, metrics, window, outcome, tally>>

StopTrace ==
    /\ control = "stop"
    /\ \/ trace' = FALSE /\ stopError' = ~trace
       \/ trace' = trace /\ stopError' = TRUE
    /\ control' = "join consumer"
    /\ UNCHANGED <<consumer, normalizer, afterFlush, cancellation, handle, workers, channels,
                   metrics, window, outcome, tally>>

\* Mutant: stop does not wait for the consumer.
JoinConsumerNot ==
    /\ control = "join consumer"
    /\ control' = "join normalizer"
    /\ UNCHANGED <<consumer, normalizer, afterFlush, shared, workers, channels, metrics, window,
                   outcome, tally>>

JoinConsumer ==
    /\ control = "join consumer"
    /\ consumer = "ended"
    /\ control' = "join normalizer"
    /\ UNCHANGED <<consumer, normalizer, afterFlush, shared, workers, channels, metrics, window,
                   outcome, tally>>

\* Mutant: stop does not wait for the normalizer.
JoinNormalizerNot ==
    /\ control = "join normalizer"
    /\ control' = "stopped"
    /\ UNCHANGED <<consumer, normalizer, afterFlush, shared, workers, channels, metrics, window,
                   outcome, tally>>

JoinNormalizer ==
    /\ control = "join normalizer"
    /\ normalizer = "ended"
    /\ control' = "stopped"
    /\ UNCHANGED <<consumer, normalizer, afterFlush, shared, workers, channels, metrics, window,
                   outcome, tally>>

Control ==
    \/ Ready \/ Report \/ ReadCounter
    \/ Cancel \/ CloseTrace \/ StopTrace \/ JoinConsumer \/ JoinNormalizer

-----------------------------------------------------------------------------
(* The consumer thread and the callback on it *)

\* OpenTrace, and the ready message.
OpenTrace ==
    /\ consumer = "opening"
    /\ \/ /\ handle' = TRUE /\ consumer' = "ready"
          /\ workers' = [workers EXCEPT !.consumer = TRUE]
       \/ /\ consumer' = "ended"
          /\ UNCHANGED <<handle, workers>>
    /\ UNCHANGED <<control, normalizer, afterFlush, cancellation, trace, stopError, channels,
                   metrics, window, outcome, tally>>

\* ProcessTrace is entered unless the session was cancelled meanwhile.
ProcessTrace ==
    /\ consumer = "ready"
    /\ consumer' = IF cancellation THEN "leaving" ELSE "trace"
    /\ UNCHANGED <<control, normalizer, afterFlush, shared, workers, channels, metrics, window,
                   outcome, tally>>

\* etw_event_record_callback, an event of another provider: it is not observed,
\* only rejected.
ForeignEvent ==
    /\ consumer = "trace"
    /\ tally.events < MaxEvents
    /\ Note("events", 1)
    /\ Bump("schemaRejected", 1)
    /\ consumer' = "drop"
    /\ UNCHANGED <<control, normalizer, afterFlush, shared, workers, channels, window, outcome>>

Event ==
    /\ consumer = "trace"
    /\ tally.events < MaxEvents
    /\ Note("events", 1)
    /\ Bump("raw", 1)
    /\ consumer' = "observed"
    /\ UNCHANGED <<control, normalizer, afterFlush, shared, workers, channels, window, outcome>>

\* Mutant: the first event of a second is not counted in its window.
RateLimitUncounted(w) ==
    IF w.over THEN [count |-> 0, over |-> FALSE, allowed |-> 1]
    ELSE [count |-> w.count + 1, over |-> FALSE,
          allowed |-> w.allowed + (IF w.count < MaxRate THEN 1 ELSE 0)]

\* rate_limit_allows: the first event of a second opens the window.  `allowed`
\* is history: the events let through in this window.
RateLimit(w) ==
    IF w.over THEN [count |-> 1, over |-> FALSE, allowed |-> 1]
    ELSE [count |-> w.count + 1, over |-> FALSE,
          allowed |-> w.allowed + (IF w.count < MaxRate THEN 1 ELSE 0)]

RateCheck ==
    /\ consumer = "observed"
    /\ window' = RateLimit(window)
    /\ IF window.over \/ window.count < MaxRate
         THEN consumer' = "classify" /\ UNCHANGED metrics
         ELSE consumer' = "drop" /\ Bump("rateLimited", 1)
    /\ UNCHANGED <<control, normalizer, afterFlush, shared, workers, channels, outcome, tally>>

\* The next second begins.
NextSecond ==
    /\ ~window.over
    /\ window' = [window EXCEPT !.over = TRUE]
    /\ UNCHANGED <<control, consumer, normalizer, afterFlush, shared, workers, channels, metrics,
                   outcome, tally>>

\* classify_provider_descriptor
Classify ==
    /\ consumer = "classify"
    /\ \/ consumer' = "send" /\ UNCHANGED <<metrics, tally>>
       \/ consumer' = "drop" /\ Bump("schemaRejected", 1) /\ Note("rejected", 1)
    /\ UNCHANGED <<control, normalizer, afterFlush, shared, workers, channels, window, outcome>>

\* try_send to the normalizer never waits.
Send ==
    /\ consumer = "send"
    /\ IF ReceiverAlive /\ rawQueue < RawCapacity
         THEN consumer' = "trace" /\ rawQueue' = rawQueue + 1 /\ UNCHANGED tally
         ELSE consumer' = "drop" /\ UNCHANGED rawQueue /\ Note("queueFull", 1)
    /\ UNCHANGED <<control, normalizer, afterFlush, shared, workers, pending, offered, batchQueue,
                   metrics, window, outcome>>

CountDrop ==
    /\ consumer = "drop"
    /\ Bump("dropped", 1)
    /\ consumer' = "trace"
    /\ UNCHANGED <<control, normalizer, afterFlush, shared, workers, channels, window, outcome, tally>>

ProcessTraceReturns ==
    /\ consumer = "trace"
    /\ ~handle \/ ~trace
    /\ consumer' = "leaving"
    /\ UNCHANGED <<control, normalizer, afterFlush, shared, workers, channels, metrics, window,
                   outcome, tally>>

\* The flag is cleared, the context and with it the sender are dropped.
ConsumerEnds ==
    /\ consumer = "leaving"
    /\ workers' = [workers EXCEPT !.consumer = FALSE]
    /\ consumer' = "ended"
    /\ UNCHANGED <<control, normalizer, afterFlush, shared, channels, metrics, window, outcome, tally>>

Consumer ==
    \/ OpenTrace \/ ProcessTrace \/ RateCheck \/ Classify \/ Send \/ CountDrop
    \/ ProcessTraceReturns \/ ConsumerEnds

-----------------------------------------------------------------------------
(* The normalizer thread *)

NormalizerBegins ==
    /\ normalizer = "spawned"
    /\ workers' = [workers EXCEPT !.normalizer = TRUE]
    /\ normalizer' = "recv"
    /\ UNCHANGED <<control, consumer, afterFlush, shared, channels, metrics, window, outcome, tally>>

\* recv_timeout returns an event.
Receive ==
    /\ normalizer = "recv"
    /\ rawQueue > 0
    /\ rawQueue' = rawQueue - 1
    /\ pending' = pending + 1
    /\ normalizer' = IF pending + 1 >= BatchSize THEN "flush" ELSE "recv"
    /\ afterFlush' = "recv"
    /\ UNCHANGED <<control, consumer, shared, workers, offered, batchQueue, metrics, window,
                   outcome, tally>>

\* recv_timeout finds the channel empty: nothing came in time, or the sender is gone.
ReceiveNothing ==
    /\ normalizer = "recv"
    /\ rawQueue = 0
    /\ normalizer' = "flush"
    /\ afterFlush' = IF SenderAlive THEN "check" ELSE "leaving"
    /\ UNCHANGED <<control, consumer, shared, workers, channels, metrics, window, outcome, tally>>

\* flush_normalized_batch: the batch may merge events, and what it accepted is counted.
Flush ==
    /\ normalizer = "flush"
    /\ IF pending = 0
         THEN normalizer' = afterFlush /\ UNCHANGED <<pending, offered, metrics, tally>>
         ELSE \E accepted \in 0 .. pending :
                 /\ Bump("normalized", accepted)
                 /\ Note("merged", pending - accepted)
                 /\ offered' = accepted
                 /\ pending' = 0
                 /\ normalizer' = "offer"
    /\ UNCHANGED <<control, consumer, afterFlush, shared, workers, rawQueue, batchQueue, window, outcome>>

\* Mutant: the batch is sent with a call that waits for room.
OfferBlocking ==
    /\ normalizer = "offer"
    /\ IF Len(batchQueue) < BatchCapacity
         THEN /\ batchQueue' = Append(batchQueue, offered)
              /\ normalizer' = afterFlush /\ offered' = 0
         ELSE UNCHANGED <<batchQueue, normalizer, offered>>
    /\ UNCHANGED <<control, consumer, afterFlush, shared, workers, rawQueue, pending, metrics, window,
                   outcome, tally>>

\* try_send of the batch: a batch that finds no room is dropped.
Offer ==
    /\ normalizer = "offer"
    /\ IF Len(batchQueue) < BatchCapacity
         THEN /\ batchQueue' = Append(batchQueue, offered)
              /\ normalizer' = afterFlush /\ offered' = 0
              /\ UNCHANGED tally
         ELSE /\ normalizer' = "drop"
              /\ Note("batchFull", offered)
              /\ UNCHANGED <<batchQueue, offered>>
    /\ UNCHANGED <<control, consumer, afterFlush, shared, workers, rawQueue, pending, metrics, window,
                   outcome>>

DropBatch ==
    /\ normalizer = "drop"
    /\ Bump("dropped", offered)
    /\ offered' = 0
    /\ normalizer' = afterFlush
    /\ UNCHANGED <<control, consumer, afterFlush, shared, workers, rawQueue, pending, batchQueue,
                   window, outcome, tally>>

\* Mutant: an idle interval ends the normalizer, cancelled or not.
LeaveWhenIdle ==
    /\ normalizer = "check"
    /\ normalizer' = "leaving"
    /\ UNCHANGED <<control, consumer, afterFlush, shared, workers, channels, metrics, window,
                   outcome, tally>>

CheckCancellation ==
    /\ normalizer = "check"
    /\ normalizer' = IF cancellation THEN "leaving" ELSE "recv"
    /\ UNCHANGED <<control, consumer, afterFlush, shared, workers, channels, metrics, window,
                   outcome, tally>>

\* The flag is cleared and the receiver dropped, with what arrived since the last
\* recv_timeout: those events are in no counter but raw.
NormalizerEnds ==
    /\ normalizer = "leaving"
    /\ workers' = [workers EXCEPT !.normalizer = FALSE]
    /\ rawQueue' = 0
    /\ Note("lost", rawQueue)
    /\ normalizer' = "ended"
    /\ UNCHANGED <<control, consumer, afterFlush, shared, pending, offered, batchQueue, metrics,
                   window, outcome>>

Normalizer ==
    \/ NormalizerBegins \/ Receive \/ ReceiveNothing \/ Flush \/ Offer \/ DropBatch
    \/ CheckCancellation \/ NormalizerEnds

-----------------------------------------------------------------------------

\* Windows ends the trace: another process stopped the session of this name.
TraceEnds ==
    /\ trace
    /\ trace' = FALSE
    /\ UNCHANGED <<control, consumer, normalizer, afterFlush, cancellation, handle, stopError,
                   workers, channels, metrics, window, outcome, tally>>

Stopped == control = "stopped" /\ UNCHANGED vars

Next ==
    \/ Start \/ Drain \/ RequestStop \/ Control
    \/ Consumer \/ ForeignEvent \/ Event \/ NextSecond
    \/ Normalizer
    \/ TraceEnds
    \/ Stopped

Spec == Init /\ [][Next]_vars

\* The operating system schedules the three threads, and ProcessTrace returns once
\* its handle is closed.  Nothing forces a start, a drain, a stop or an event.
FairSpec == Spec /\ WF_vars(Control) /\ WF_vars(Consumer) /\ WF_vars(Normalizer)

-----------------------------------------------------------------------------

ControlStates == {"idle", "opening", "reading", "report", "active", "cancel", "close", "stop",
                  "join consumer", "join normalizer", "stopped"}
ConsumerStates == {"none", "opening", "ready", "trace", "observed", "classify", "send", "drop",
                   "leaving", "ended"}
NormalizerStates == {"none", "spawned", "recv", "flush", "offer", "drop", "check", "leaving", "ended"}

PlacesOK ==
    /\ control \in ControlStates /\ consumer \in ConsumerStates
    /\ normalizer \in NormalizerStates /\ afterFlush \in {"recv", "check", "leaving"}
FlagsOK ==
    /\ cancellation \in BOOLEAN /\ trace \in BOOLEAN /\ handle \in BOOLEAN /\ stopError \in BOOLEAN
    /\ workers \in [{"consumer", "normalizer"} -> BOOLEAN]
ChannelsOK ==
    /\ rawQueue \in 0 .. RawCapacity /\ pending \in 0 .. BatchSize /\ offered \in 0 .. BatchSize
    /\ batchQueue \in Seq(0 .. BatchSize) /\ Len(batchQueue) <= BatchCapacity
CountersOK ==
    /\ metrics \in [Counters -> Nat] /\ snapshot \in [Counters -> Nat] /\ reading \in Counters
    /\ window \in [count : Nat, over : BOOLEAN, allowed : Nat]
    /\ tally \in [Tallies -> Nat]

\* Type correctness; the channels and the pending batch keep within their capacities.
TypeOK == PlacesOK /\ FlagsOK /\ ChannelsOK /\ CountersOK

One(b) == IF b THEN 1 ELSE 0

\* Every event the callback observed is somewhere: refused for its rate or its
\* descriptor, dropped at the full channel, on its way, normalized or merged by the
\* normalizer, or left in the channel when the normalizer ended; and the dropped
\* counter is the sum of the reasons, but for the one step between the two counters.
EventsAccounted ==
    /\ metrics["raw"] = One(consumer \in {"observed", "classify", "send"})
          + metrics["rateLimited"] + tally.rejected + tally.queueFull
          + rawQueue + pending + metrics["normalized"] + tally.merged + tally.lost
    /\ metrics["dropped"] + One(consumer = "drop") + (IF normalizer = "drop" THEN offered ELSE 0)
          = metrics["rateLimited"] + metrics["schemaRejected"] + tally.queueFull + tally.batchFull

\* Events are lost without being counted as dropped only when the session was
\* cancelled: a normalizer that ends because its sender is gone has emptied the channel.
LostOnlyWhenCancelled == tally.lost > 0 => cancellation

\* Every event has an explanation in every interleaving of callback, normalizer and
\* control thread: a counter, a channel, a thread's hands or a cancelled session.
LossesExplained == EventsAccounted /\ LostOnlyWhenCancelled

\* rate_limit_allows lets at most ETW_MAX_EVENTS_PER_SECOND events of a second through.
RateBounded == window.allowed <= MaxRate

\* The contract's rules for counters (EtwLifecycleRuntimeStatus::validate).
ValidCounters(m) ==
    /\ m["normalized"] <= m["raw"]
    /\ m["rateLimited"] <= m["dropped"]
    /\ m["schemaRejected"] <= m["dropped"]

\* The outcome of a stopped session is read after both threads were joined, so it
\* satisfies the rules.
StoppedCountersValid == control = "stopped" => ValidCounters(metrics)

\* When stop has returned, the handle is closed and nothing moves any more: no
\* callback and no flush touches a counter or a channel.
NothingAfterStop ==
    [][control = "stopped" => /\ ~handle
                              /\ UNCHANGED <<metrics, rawQueue, pending, batchQueue, workers>>]_vars

\* stop returns, whatever the channels hold: neither thread waits for a reader that
\* has stopped reading.
StopCompletes == control = "cancel" ~> control = "stopped"

\* The rules hold of every outcome that is reported: drain hands live_outcome's
\* reading to a status that is validated.
SnapshotValid == control = "report" => ValidCounters(snapshot)

=============================================================================
