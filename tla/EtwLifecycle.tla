---------------------------- MODULE EtwLifecycle ----------------------------
(***************************************************************************)
(* The lifecycle of the ETW network provider in the elevated service: the  *)
(* gate of the runtime container, the lifecycle runtime and its control    *)
(* thread (src/crates/app_core/src/etw_lifecycle.rs), the session adapter  *)
(* behind it, the pump that publishes what was collected, and the copy of  *)
(* the status that the provider controller shows to clients.               *)
(*                                                                         *)
(* Every operation runs under the container's lock and waits for the       *)
(* control thread's answer, so an operation is one action.  What happens   *)
(* on its own is the session: it normalizes events, and Windows may end    *)
(* its trace.  Any call to Windows may be refused.  trace_session_created, *)
(* provider_enabled, collection_started and consumer_started change        *)
(* together and are the one field `collecting`.                            *)
(***************************************************************************)
EXTENDS Integers, FiniteSets

CONSTANTS
    MaxWaiting,      \* ETW_BATCH_QUEUE_CAPACITY
    MaxNormalized,   \* bound on the events a session normalizes
    MaxPublished     \* bound on the batches that are published

ASSUME LifecycleAssumption ==
    MaxWaiting \in Nat \ {0} /\ MaxNormalized \in Nat /\ MaxPublished \in Nat

VARIABLES
    status,    \* ServiceOwnedEtwLifecycleRuntime.status
    thread,    \* the control thread behind handle and sender: none, running or dead
    threads,   \* number of control threads that run
    adapter,   \* EtwControlSessionAdapter, with the session it holds
    recorded,  \* the lifecycle state in the provider controller's copy
    down,      \* whether the container has shut the runtime down
    answer     \* what the last operation answered, and whether it started a session

vars == <<status, thread, threads, adapter, recorded, down, answer>>

Transient == {"Activating", "Pausing", "Resuming", "Stopping"}
LifecycleStates == Transient \cup {"Inactive", "Active", "Paused", "Degraded", "Stopped", "Failed"}
SessionStates == {"NotCreated", "ControlSessionActive", "ControlSessionPaused",
                  "ControlSessionStopped", "Unavailable"}

\* EtwLifecycleStatus::validate
Valid(st) ==
    /\ st.published <= st.normalized
    /\ CASE st.lifecycle = "Inactive" ->
              /\ st.authorization = "Required" /\ st.session = "NotCreated"
              /\ ~st.threadActive /\ ~st.collecting /\ ~st.workerActive
         [] st.lifecycle \in Transient -> st.authorization = "Authorized"
         [] st.lifecycle = "Active" ->
              /\ st.authorization = "Authorized" /\ st.session = "ControlSessionActive"
              /\ st.threadActive /\ st.collecting /\ st.workerActive /\ ~st.workerJoined
         [] st.lifecycle = "Paused" ->
              /\ st.authorization = "Authorized" /\ st.session = "ControlSessionPaused"
              /\ st.threadActive /\ ~st.collecting /\ ~st.workerActive /\ st.workerJoined
         [] st.lifecycle \in {"Degraded", "Failed"} -> ~st.collecting /\ ~st.workerActive
         [] st.lifecycle = "Stopped" ->
              /\ st.session = "ControlSessionStopped" /\ ~st.threadActive /\ st.threadJoined
              /\ ~st.collecting /\ ~st.workerActive /\ st.workerJoined

-----------------------------------------------------------------------------
(* The adapter: what a command may do to it and answer.  Each operator is   *)
(* the set of possible results; outcome is meant only when ok is TRUE.      *)

Ok(a, outcome) == [adapter |-> a, ok |-> TRUE, outcome |-> outcome]
Err(a) == [adapter |-> a, ok |-> FALSE, outcome |-> "none"]

\* inactive_outcome: its counters are zero.
InactiveOutcome(state) ==
    [state |-> state, collecting |-> FALSE, workerActive |-> FALSE,
     workerJoined |-> state \in {"Paused", "Stopped"}, normalized |-> 0]

\* live_outcome; the workers of a session whose trace has ended are gone.
LiveOutcome(a) ==
    [state |-> "Active", collecting |-> TRUE, workerActive |-> a.session = "live",
     workerJoined |-> a.session = "ended", normalized |-> a.normalized]

\* stopped_outcome keeps the counters of the session.
StoppedOutcome(a, state) ==
    [InactiveOutcome(state) EXCEPT !.workerJoined = TRUE, !.normalized = a.normalized]

NewAdapter == [state |-> "Inactive", session |-> "none", normalized |-> 0, waiting |-> 0]

Started == [state |-> "Active", session |-> "live", normalized |-> 0, waiting |-> 0]
WithoutSession(a) == [state |-> a.state, session |-> "none", normalized |-> 0, waiting |-> 0]

\* The session is taken out of the adapter before it is stopped; when Windows
\* does not stop its trace (always when the trace has ended by itself), the
\* adapter keeps its state and has lost the session.
StopSession(a, state) ==
    {Err(WithoutSession(a))}
      \cup (IF a.session = "live"
              THEN {Ok([WithoutSession(a) EXCEPT !.state = state], StoppedOutcome(a, state))}
              ELSE {})

AdapterStart(a) ==
    IF a.state = "Active"
      THEN {Ok(a, IF a.session = "none" THEN InactiveOutcome("Active") ELSE LiveOutcome(a))}
      ELSE {Err(a), Ok(Started, LiveOutcome(Started))}

Halt(a, state) ==
    IF a.state = state THEN {Ok(a, InactiveOutcome(state))}
    ELSE IF a.session # "none" THEN StopSession(a, state)
    ELSE {Ok([a EXCEPT !.state = state], InactiveOutcome(state))}

AdapterPause(a) == Halt(a, "Paused")
AdapterStop(a) == Halt(a, "Stopped")

-----------------------------------------------------------------------------
(* The runtime *)

SessionStateOf == [Active |-> "ControlSessionActive", Paused |-> "ControlSessionPaused",
                   Stopped |-> "ControlSessionStopped", Inactive |-> "NotCreated"]

\* apply_runtime_outcome
ApplyRuntimeOutcome(st, o) ==
    [st EXCEPT !.collecting = o.collecting, !.workerActive = o.workerActive,
               !.workerJoined = o.workerJoined, !.normalized = o.normalized]

\* apply_outcome, Ok
ApplyOutcome(st, o, success) ==
    ApplyRuntimeOutcome([st EXCEPT !.lifecycle = success, !.session = SessionStateOf[o.state]], o)

\* apply_outcome, Err
ApplyError(st) ==
    [st EXCEPT !.lifecycle = "Degraded", !.session = "Unavailable", !.collecting = FALSE,
               !.workerActive = FALSE, !.workerJoined = TRUE]

\* Mutant: a pause that failed may be followed by a resume.
AllowedRetry(op) ==
    CASE op = "activate" -> status.lifecycle \in {"Inactive", "Stopped", "Degraded", "Failed"}
      [] op = "pause" -> status.lifecycle = "Active"
      [] op = "resume" -> status.lifecycle \in {"Paused", "Pausing"}
      [] op = "stop" -> status.lifecycle \notin Transient

\* Mutant: a paused provider may be activated.
AllowedActivate(op) ==
    CASE op = "activate" -> status.lifecycle # "Active"
      [] op = "pause" -> status.lifecycle = "Active"
      [] op = "resume" -> status.lifecycle = "Paused"
      [] op = "stop" -> status.lifecycle \notin Transient

\* validate_etw_lifecycle_gate
Allowed(op) ==
    CASE op = "activate" -> status.lifecycle \in {"Inactive", "Stopped", "Degraded", "Failed"}
      [] op = "pause" -> status.lifecycle = "Active"
      [] op = "resume" -> status.lifecycle = "Paused"
      [] op = "stop" -> status.lifecycle \notin Transient

\* The end of an operation: its status is validated, and a valid one is recorded
\* with the provider controller; an invalid one is an error and is not recorded.
Finish(op, st, started) ==
    /\ status' = st
    /\ answer' = [op |-> op, ok |-> Valid(st), started |-> started]
    /\ recorded' = IF Valid(st) THEN st.lifecycle ELSE recorded

\* An operation that returns before that.
Fail(op, st) ==
    /\ status' = st
    /\ answer' = [op |-> op, ok |-> FALSE, started |-> FALSE]
    /\ UNCHANGED recorded

Called(op) == ~down /\ Allowed(op)

\* activate when it spawns a control thread, which starts the adapter at once.
\* A thread that was there before is let go: it stops its adapter and ends.
Activate ==
    /\ Called("activate")
    /\ ~(thread # "none" /\ status.lifecycle \in {"Active", "Degraded"})
    /\ \E r \in AdapterStart(NewAdapter) :
          LET begun == [status EXCEPT !.authorization = "Authorized", !.threadJoined = FALSE,
                                      !.threadActive = TRUE]
          IN  /\ adapter' = r.adapter
              /\ Finish("activate",
                        IF r.ok THEN ApplyOutcome(begun, r.outcome, "Active") ELSE ApplyError(begun),
                        r.ok)
    /\ thread' = "running"
    /\ threads' = threads + 1
    /\ UNCHANGED down

\* activate of a degraded provider that still has its thread changes nothing.
ActivateAgain ==
    /\ Called("activate")
    /\ thread # "none" /\ status.lifecycle \in {"Active", "Degraded"}
    /\ answer' = [op |-> "activate", ok |-> Valid(status), started |-> FALSE]
    /\ recorded' = IF Valid(status) THEN status.lifecycle ELSE recorded
    /\ UNCHANGED <<status, thread, threads, adapter, down>>

\* pause: an error of the control thread returns early, with the state Pausing.
Pause ==
    /\ Called("pause")
    /\ thread = "running"
    /\ \E r \in AdapterPause(adapter) :
          /\ adapter' = r.adapter
          /\ IF r.ok THEN Finish("pause", ApplyOutcome(status, r.outcome, "Paused"), FALSE)
                     ELSE Fail("pause", [status EXCEPT !.lifecycle = "Pausing"])
    /\ UNCHANGED <<thread, threads, down>>

\* resume: an error of the control thread returns early, with the state Resuming.
Resume ==
    /\ Called("resume")
    /\ thread = "running"
    /\ \E r \in AdapterStart(adapter) :
          /\ adapter' = r.adapter
          /\ IF r.ok THEN Finish("resume", ApplyOutcome(status, r.outcome, "Active"), adapter' # adapter)
                     ELSE Fail("resume", [status EXCEPT !.lifecycle = "Resuming"])
    /\ UNCHANGED <<thread, threads, down>>

StoppedStatus(st) ==
    [st EXCEPT !.lifecycle = "Stopped", !.session = "ControlSessionStopped",
               !.authorization = "Invalidated", !.threadActive = FALSE, !.threadJoined = TRUE,
               !.collecting = FALSE, !.workerActive = FALSE, !.workerJoined = TRUE]

\* The control thread ends after a Stop, whatever it answered, and stops its
\* adapter once more on its way out.
EndOfThread(a) == [WithoutSession(a) EXCEPT !.state = "Stopped"]

\* The thread panicked on its way out and cannot be joined.
JoinFailedStatus(st) ==
    [st EXCEPT !.lifecycle = "Failed", !.session = "Unavailable", !.threadActive = FALSE,
               !.threadJoined = FALSE, !.collecting = FALSE, !.workerActive = FALSE]

\* stop_internal with a control thread that runs; its answer may be an error, and
\* then the handle and the sender of the dead thread stay.
StopRunning(op) ==
    /\ thread = "running"
    /\ \E r \in AdapterStop(adapter) :
          /\ adapter' = EndOfThread(r.adapter)
          /\ IF r.ok
               THEN /\ thread' = "none"
                    /\ LET st == ApplyRuntimeOutcome(status, r.outcome) IN
                       \/ Finish(op, StoppedStatus(st), FALSE)
                       \/ Fail(op, JoinFailedStatus(st))
               ELSE /\ thread' = "dead"
                    /\ Fail(op, [status EXCEPT !.lifecycle = "Stopping"])
    /\ threads' = threads - 1

\* stop_internal with a thread that is gone: the command is rejected.
StopDead(op) ==
    /\ thread = "dead"
    /\ Fail(op, [status EXCEPT !.lifecycle = "Stopping"])
    /\ UNCHANGED <<thread, threads, adapter>>

\* stop_internal without a thread.
StopNothing(op) ==
    /\ thread = "none"
    /\ Finish(op, StoppedStatus(status), FALSE)
    /\ UNCHANGED <<thread, threads, adapter>>

\* A dead thread is left behind in the state Stopping only, which the gate shuts.
Stop ==
    /\ Called("stop")
    /\ StopRunning("stop") \/ StopNothing("stop")
    /\ UNCHANGED down

\* Mutant: the shutdown stops a runtime that collects and lets others go.
ShutdownIfCollecting ==
    /\ ~down
    /\ down' = TRUE
    /\ \/ status.collecting /\ (StopRunning("shutdown") \/ StopDead("shutdown"))
       \/ ~status.collecting /\ UNCHANGED <<status, thread, threads, adapter, recorded, answer>>

\* The shutdown of the container takes the runtime and stops it if its thread is
\* active, whatever its state; without a thread there is nothing to stop.
Shutdown ==
    /\ ~down
    /\ down' = TRUE
    /\ \/ status.threadActive /\ (StopRunning("shutdown") \/ StopDead("shutdown"))
       \/ ~status.threadActive /\ UNCHANGED <<status, thread, threads, adapter, recorded, answer>>

\* pump_etw_live_batches: drains the waiting batches when Active, hands each over
\* to the event bus and the controller, and counts them.  An invalid status after
\* the drain loses them, an error in a hand-over loses the count; without a batch
\* nothing is recorded.
Pump ==
    /\ ~down
    /\ thread = "running"
    /\ status.lifecycle = "Active"
    /\ LET o == IF adapter.session = "none" THEN InactiveOutcome(adapter.state)
                                            ELSE LiveOutcome(adapter)
           drained == ApplyOutcome(status, o, "Active")
           counted == [drained EXCEPT !.published = @ + adapter.waiting]
       IN  /\ adapter' = [adapter EXCEPT !.waiting = 0]
           /\ counted.published <= MaxPublished
           /\ \/ ~Valid(drained) /\ Fail("pump", drained)
              \/ Valid(drained) /\ adapter.waiting > 0 /\ Fail("pump", drained)
              \/ Valid(drained) /\ adapter.waiting > 0 /\ Finish("pump", counted, FALSE)
              \/ /\ Valid(drained) /\ adapter.waiting = 0
                 /\ status' = drained /\ answer' = [op |-> "pump", ok |-> TRUE, started |-> FALSE]
                 /\ UNCHANGED recorded
    /\ UNCHANGED <<thread, threads, down>>

\* The session normalizes an event and queues its batch; a full queue drops it.
Normalize ==
    /\ adapter.session = "live"
    /\ adapter.normalized < MaxNormalized
    /\ adapter' = [adapter EXCEPT !.normalized = @ + 1,
                                  !.waiting = IF @ < MaxWaiting THEN @ + 1 ELSE @]
    /\ UNCHANGED <<status, thread, threads, recorded, down, answer>>

\* Windows ends the trace of the session: its workers end too.
TraceEnds ==
    /\ adapter.session = "live"
    /\ adapter' = [adapter EXCEPT !.session = "ended"]
    /\ UNCHANGED <<status, thread, threads, recorded, down, answer>>

Init ==
    /\ status = [lifecycle |-> "Inactive", session |-> "NotCreated", authorization |-> "Required",
                 threadActive |-> FALSE, threadJoined |-> FALSE, collecting |-> FALSE,
                 workerActive |-> FALSE, workerJoined |-> FALSE, normalized |-> 0, published |-> 0]
    /\ thread = "none" /\ threads = 0 /\ adapter = NewAdapter
    /\ recorded = "Inactive" /\ down = FALSE
    /\ answer = [op |-> "none", ok |-> TRUE, started |-> FALSE]

Next == Activate \/ ActivateAgain \/ Pause \/ Resume \/ Stop \/ Shutdown \/ Pump
          \/ Normalize \/ TraceEnds

Spec == Init /\ [][Next]_vars

-----------------------------------------------------------------------------

Status == [lifecycle : LifecycleStates, session : SessionStates,
           authorization : {"Required", "Authorized", "Invalidated"},
           threadActive : BOOLEAN, threadJoined : BOOLEAN, collecting : BOOLEAN,
           workerActive : BOOLEAN, workerJoined : BOOLEAN, normalized : Nat, published : Nat]
Adapter == [state : {"Inactive", "Active", "Paused", "Stopped"},
            session : {"none", "live", "ended"}, normalized : Nat, waiting : 0 .. MaxWaiting]

\* Type correctness.
TypeOK ==
    /\ status \in Status
    /\ thread \in {"none", "running", "dead"} /\ threads \in Nat
    /\ adapter \in Adapter
    /\ recorded \in LifecycleStates /\ down \in BOOLEAN
    /\ answer \in [op : {"none", "activate", "pause", "resume", "stop", "shutdown", "pump"},
                   ok : BOOLEAN, started : BOOLEAN]

\* Nothing is collected behind the status: while a session runs, the runtime says
\* Active and Authorized, and has the one control thread that can stop it.  No
\* refused call leaves a session running in another state.
NoHiddenCollection ==
    adapter.session = "live" =>
        status.lifecycle = "Active" /\ status.authorization = "Authorized" /\ thread = "running"

\* At most one control thread runs: a second one would stop the first one's trace,
\* which has the same name.
OneControlThread == threads <= 1 /\ (threads = 1 <=> thread = "running")

\* Active means that there is a session, although its trace may have ended: the
\* adapter answers a start after a failed pause as if it still had one, and only
\* the gate keeps that start from being called.
ActiveHasSession == status.lifecycle = "Active" => adapter.session # "none"

\* The status and the session agree in both directions, through refused calls, ended
\* traces and operations that return early: nothing collects unless the lifecycle is
\* Active, and Active is not said of nothing.
StatusIsTrue == NoHiddenCollection /\ ActiveHasSession

\* Whatever state the runtime was left in, a shutdown leaves no session behind.
ShutdownStops == down => adapter.session = "none" /\ thread # "running"

\* What the lifecycle test says: a resume that gets its session answers with an
\* active lifecycle.
ResumeAnswers == answer.op = "resume" /\ answer.started => answer.ok

\* What the test of an unavailable provider says: when Windows refuses a session
\* the lifecycle is Degraded.  (From a transient state the gate lets no operation
\* out, so a provider left there cannot be used again.)
UnavailableDegrades ==
    answer.op \in {"activate", "resume"} /\ ~answer.started => status.lifecycle = "Degraded"

=============================================================================
