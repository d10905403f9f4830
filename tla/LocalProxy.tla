----------------------------- MODULE LocalProxy -----------------------------
(***************************************************************************)
(* The localhost metadata proxy                                            *)
(* (capabilities/src/local_proxy_metadata_provider.rs) under the commands  *)
(* of app_core/src/portable_proxy_metadata_provider.rs.                    *)
(*                                                                         *)
(* A worker thread answers one connection after the other: it sends the    *)
(* batch it made of a request into a bounded channel and then, under the   *)
(* lock of the statistics, counts it.  Commands run one after the other on *)
(* the main thread: they take batches out of the channel, and then, under  *)
(* the same lock, uncount them.  A batch is its number in the order it was *)
(* sent; every batch is a flow, a session and a request, so that events    *)
(* are counted in batches.  Left out: a failed bind or a second start,     *)
(* which change nothing, and requests_captured, which only counts.         *)
(***************************************************************************)
EXTENDS Integers, Sequences, SequencesExt

CONSTANTS
    Capacity,        \* MAX_LOCAL_PROXY_PENDING_BATCHES
    MaxProxied,      \* bound: connections accepted
    MaxProxyCalls    \* bound: commands

ASSUME ProxyAssumption ==
    Capacity \in Nat \ {0} /\ MaxProxied \in Nat /\ MaxProxyCalls \in Nat

VARIABLES
    runtime,    \* LocalProxyMetadataProvider.runtime is there
    shutdown,   \* the flag the worker looks at between two connections
    worker,     \* where the worker thread stands
    channel,    \* completed_tx .. completed_rx
    stats,      \* LocalProxyMetadataProviderStats
    command,    \* where the main thread stands
    inHand,     \* batches a drain has taken and not yet counted
    statsRead,   \* the statistics stop() read
    last,       \* last_status
    available,  \* service_status.capture_available
    handed,     \* ghost: batches handed to the capture pipeline, in order
    lost,       \* ghost: batches dropped with the channel
    sent,       \* ghost: batches sent so far
    accepted,   \* ghost: connections so far
    proxyCalls  \* ghost: commands so far

mainVars == <<runtime, shutdown, command, inHand, statsRead, last, available, handed, lost, proxyCalls>>
workerVars == <<worker, sent, accepted>>
proxyVars == <<mainVars, workerVars, channel, stats>>

WorkerPoints == {"none", "check", "accept", "request", "prepared", "sent", "full", "panicked", "ended"}
ProxyCommands == {"idle", "drain", "report", "signalled", "joining"}

NoStats == [pending |-> 0, drained |-> 0, faulty |-> FALSE]
StoppedStatus(s, batches) == [state |-> "Stopped", batches |-> batches, stats |-> s]

ProxyInit ==
    /\ runtime = FALSE /\ shutdown = FALSE /\ worker = "none" /\ channel = << >>
    /\ stats = NoStats /\ statsRead = NoStats /\ last = StoppedStatus(NoStats, 0)
    /\ command = "idle" /\ inHand = << >> /\ available = FALSE
    /\ handed = << >> /\ lost = {} /\ sent = 0 /\ accepted = 0 /\ proxyCalls = 0

(***************************************************************************)
(* The worker thread.                                                      *)
(***************************************************************************)
WorkerAt(from, to) == worker = from /\ worker' = to

\* The loop reads the flag and only then accepts.
CheckShutdown ==
    /\ WorkerAt("check", IF shutdown THEN "ended" ELSE "accept")
    /\ UNCHANGED <<mainVars, sent, accepted, channel, stats>>

NoConnection ==
    /\ WorkerAt("accept", "check")
    /\ UNCHANGED <<mainVars, sent, accepted, channel, stats>>

AcceptConnection ==
    /\ accepted < MaxProxied
    /\ accepted' = accepted + 1
    /\ WorkerAt("accept", "request")
    /\ UNCHANGED <<mainVars, sent, channel, stats>>

\* record_rejection: accept failed, the head is too long, incomplete or malformed, the
\* target is not supported, or no batch can be made; reads and writes time out.
RejectRequest ==
    /\ WorkerAt("request", "check")
    /\ stats' = [stats EXCEPT !.faulty = TRUE]
    /\ UNCHANGED <<mainVars, sent, accepted, channel>>

\* The head is read and parsed and its metadata make a batch.
PrepareBatch ==
    /\ WorkerAt("request", "prepared")
    /\ UNCHANGED <<mainVars, sent, accepted, channel, stats>>

\* Mutant: the worker waits for room in the channel (send for try_send).
TrySendBlocking ==
    /\ Len(channel) < Capacity
    /\ WorkerAt("prepared", "sent")
    /\ channel' = Append(channel, sent + 1) /\ sent' = sent + 1
    /\ UNCHANGED <<mainVars, accepted, stats>>

TrySend ==
    /\ \/ /\ Len(channel) < Capacity
          /\ WorkerAt("prepared", "sent")
          /\ channel' = Append(channel, sent + 1) /\ sent' = sent + 1
       \/ /\ Len(channel) = Capacity
          /\ WorkerAt("prepared", "full")
          /\ UNCHANGED <<channel, sent>>
    /\ UNCHANGED <<mainVars, accepted, stats>>

RecordCapture ==
    /\ WorkerAt("sent", "check")
    /\ stats' = [stats EXCEPT !.pending = @ + 1]
    /\ UNCHANGED <<mainVars, sent, accepted, channel>>

RecordDrop ==
    /\ WorkerAt("full", "check")
    /\ stats' = [stats EXCEPT !.faulty = TRUE]
    /\ UNCHANGED <<mainVars, sent, accepted, channel>>

WorkerPanics ==
    /\ WorkerAt("request", "panicked")
    /\ UNCHANGED <<mainVars, sent, accepted, channel, stats>>

(***************************************************************************)
(* The commands.                                                           *)
(***************************************************************************)
Call == command = "idle" /\ proxyCalls < MaxProxyCalls /\ proxyCalls' = proxyCalls + 1

\* No batch is left of an earlier run: stop() is followed by a drain.
Carryover == [NoStats EXCEPT !.drained = last.stats.drained]

StartProxy ==
    /\ Call /\ ~runtime
    /\ runtime' = TRUE /\ shutdown' = FALSE /\ worker' = "check" /\ channel' = << >>
    /\ stats' = Carryover
    /\ command' = "report"
    /\ UNCHANGED <<inHand, statsRead, last, available, handed, lost, sent, accepted>>

\* running_status: Degraded after a rejection, a drop or the end of the worker.
Running == [state |-> IF stats.faulty \/ worker \in {"panicked", "ended"}
                      THEN "Degraded" ELSE "Running",
            batches |-> stats.pending, stats |-> stats]

\* The status a start or a drain ends with.
ReportStatus ==
    /\ command = "report" /\ command' = "idle"
    /\ last' = IF runtime THEN Running ELSE last
    /\ available' = (last'.state # "Stopped")
    /\ UNCHANGED <<runtime, shutdown, inHand, statsRead, handed, lost, proxyCalls,
                   workerVars, channel, stats>>

QueryStatus ==
    /\ Call /\ runtime
    /\ last' = Running
    /\ UNCHANGED <<runtime, shutdown, command, inHand, statsRead, available, handed, lost,
                   workerVars, channel, stats>>

BeginDrain ==
    /\ Call
    /\ command' = IF runtime THEN "drain" ELSE "report"
    /\ UNCHANGED <<runtime, shutdown, inHand, statsRead, last, available, handed, lost,
                   workerVars, channel, stats>>

\* try_iter: one batch at a time, the worker sends on meanwhile.
TakeBatch ==
    /\ command = "drain" /\ channel # << >>
    /\ inHand' = Append(inHand, Head(channel)) /\ channel' = Tail(channel)
    /\ UNCHANGED <<runtime, shutdown, command, statsRead, last, available, handed, lost,
                   proxyCalls, workerVars, stats>>

\* Mutant: a drain uncounts one batch, however many it took.
DrainedOne(s, n) == [s EXCEPT !.pending = IF @ = 0 THEN 0 ELSE @ - 1, !.drained = @ + n]

\* Both subtractions saturate.
Drained(s, n) == [s EXCEPT !.pending = IF @ < n THEN 0 ELSE @ - n, !.drained = @ + n]

FinishDrain ==
    /\ command = "drain" /\ channel = << >>
    /\ stats' = Drained(stats, Len(inHand))
    /\ handed' = handed \o inHand /\ inHand' = << >>
    /\ command' = "report"
    /\ UNCHANGED <<runtime, shutdown, statsRead, last, available, lost, proxyCalls,
                   workerVars, channel>>

\* stop() of a stopped provider, and the drain after it, find nothing to do.
StopStopped ==
    /\ Call /\ ~runtime
    /\ available' = FALSE
    /\ UNCHANGED <<runtime, shutdown, command, inHand, statsRead, last, handed, lost,
                   workerVars, channel, stats>>

SignalShutdown ==
    /\ Call /\ runtime
    /\ runtime' = FALSE /\ shutdown' = TRUE
    /\ command' = "signalled"
    /\ UNCHANGED <<inHand, statsRead, last, available, handed, lost, workerVars, channel, stats>>

TakeSnapshot ==
    /\ command = "signalled" /\ command' = "joining"
    /\ statsRead' = stats
    /\ UNCHANGED <<runtime, shutdown, inHand, last, available, handed, lost, proxyCalls,
                   workerVars, channel, stats>>

\* The worker is gone: what it left is collected, and the drain that follows
\* hands it on and settles last_status (finish_stopped_drain).
AfterJoin ==
    /\ handed' = handed \o channel /\ channel' = << >>
    /\ last' = StoppedStatus(Drained(statsRead, Len(channel)), 0)
    /\ available' = FALSE
    /\ command' = "idle"
    /\ UNCHANGED <<runtime, shutdown, inHand, statsRead, lost, proxyCalls, workerVars, stats>>

\* Mutant: stop() does not wait for the worker.
JoinDetached == command = "joining" /\ worker # "panicked" /\ AfterJoin

JoinWorker == command = "joining" /\ worker = "ended" /\ AfterJoin

\* The error returns before the drain and before capture_available is set; the
\* receiver is dropped with what it holds.
JoinPanicked ==
    /\ command = "joining" /\ worker = "panicked"
    /\ lost' = lost \cup ToSet(channel) /\ channel' = << >>
    /\ last' = StoppedStatus([statsRead EXCEPT !.faulty = TRUE], statsRead.pending)
    /\ command' = "idle"
    /\ UNCHANGED <<runtime, shutdown, inHand, statsRead, available, handed, proxyCalls,
                   workerVars, stats>>

(***************************************************************************)
(* The specification.  The worker is a thread that never waits for the     *)
(* main thread, and its reads and writes time out; a command that has      *)
(* begun goes on.  Commands and connections come or do not.                *)
(***************************************************************************)
WorkerStep == \/ CheckShutdown \/ NoConnection \/ AcceptConnection \/ RejectRequest
              \/ PrepareBatch \/ TrySend \/ RecordCapture \/ RecordDrop \/ WorkerPanics
CommandStep == ReportStatus \/ TakeBatch \/ FinishDrain \/ TakeSnapshot \/ JoinWorker \/ JoinPanicked
CommandBegins == StartProxy \/ QueryStatus \/ BeginDrain \/ StopStopped \/ SignalShutdown

ProxyNext == WorkerStep \/ CommandStep \/ CommandBegins
ProxySpec == ProxyInit /\ [][ProxyNext]_proxyVars
             /\ WF_proxyVars(WorkerStep) /\ WF_proxyVars(CommandStep)

(***************************************************************************)
(* Properties.                                                             *)
(***************************************************************************)
\* Every batch the worker sent is handed on once and in the order it was sent,
\* however its sends and the drains and stops interleave (TakeBatch, JoinWorker);
\* only the channel of a worker that panicked is dropped, and no batch waits in
\* a channel once the proxy is stopped.
BatchesHandedOnce ==
    LET known == handed \o inHand \o channel IN
    /\ \A i, j \in 1..Len(known) : i < j => known[i] < known[j]
    /\ ToSet(known) \cup lost = 1..sent
    /\ ToSet(known) \cap lost = {}
    /\ ~runtime /\ command = "idle" => channel = << >>

\* drained_event_count is what was handed on since the process began, over every
\* restart, and although a stop settles it from statistics read before the worker
\* ended (TakeSnapshot).
DrainedIsExact ==
    command = "idle" => Len(handed) = IF runtime THEN stats.drained ELSE last.stats.drained

\* A drain may uncount a batch before the worker has counted it, and the saturating
\* subtraction then leaves one too many.  The error never adds up: between two
\* connections and two commands the pending count is the batches in the channel or
\* one more, and after an orderly stop it is at most one.
PendingOffByOne ==
    command = "idle" =>
        /\ runtime /\ worker \in {"check", "accept", "request", "prepared", "full"}
               => stats.pending - Len(channel) \in {0, 1}
        /\ ~runtime /\ worker # "panicked" => last.stats.pending \in {0, 1}

\* The counters of the status follow the batches: what was drained exactly, what is
\* pending with an error of one that does not add up, over drains that overtake the
\* worker, stops that settle from an old reading, and restarts.
CountersFollowBatches == DrainedIsExact /\ PendingOffByOne

\* A stop ends, whatever the channel holds: the worker never waits for room while
\* the main thread waits for the worker.
StopJoins == (command \in {"signalled", "joining"}) ~> (command = "idle")

=============================================================================
