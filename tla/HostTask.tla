------------------------------ MODULE HostTask ------------------------------
(***************************************************************************)
(* The timer task of the native scheduler host in the desktop application  *)
(* (apps/desktop/src/lib.rs) over NativeSchedulerHostController            *)
(* (native_scheduler_host.rs).                                             *)
(*                                                                         *)
(* Commands run one after the other on the main thread; the host task is a *)
(* thread of its own.  They share the command state behind one lock, a     *)
(* copy of it that is read by the frontend and by the task behind another, *)
(* and the wake signal of the task behind a third.  A change of the        *)
(* command state and its publication in the copy are two steps of either   *)
(* thread, so an older snapshot can overwrite a newer one.                 *)
(*                                                                         *)
(* The controller changes its status and then validates it: one that is    *)
(* refused stays, and only the caller's copies are not brought up to date. *)
(*                                                                         *)
(* Of the status the model keeps what control depends on; of the schedule  *)
(* only whether a sampler is eligible, none is, or none is and one was     *)
(* revoked (NativeScheduler has the rest).  A panic of the task, which     *)
(* poisons the locks, is left out.                                         *)
(***************************************************************************)
EXTENDS Integers, FiniteSets

CONSTANTS
    PlansMayFail,  \* whether a plan is ever refused although the status is valid
    MaxTasks,      \* bound: tasks ever spawned (session_ordinal)
    MaxCalls       \* bound: commands of the frontend

ASSUME HostTaskAssumption ==
    PlansMayFail \in BOOLEAN /\ MaxTasks \in Nat /\ MaxCalls \in Nat

Tasks == 1 .. MaxTasks
NoTask == 0

VARIABLES
    host,      \* status of the host controller, in the command state
    kept,      \* the status as the command state last had it from the controller
    sched,     \* what the schedule offers the host
    shown,     \* lifecycle_state as the read copy has it
    slot,      \* NativeSchedulerHostTaskSlot: handle, and whose signal it has
    signal,    \* NativeSchedulerHostTaskSignalState of each task
    task,      \* where each task stands
    main,      \* where the command on the main thread stands; idle, the last it did
    calls      \* commands so far

core == <<host, kept, sched>>
hostVars == <<core, shown, slot, signal, task, main, calls>>

Lives == {"Disabled", "Running", "Paused", "Stopped", "Revoked", "Degraded", "Failed"}
Timers == {"active", "inactive", "wake_only"}
HostStatus == [life : Lives, owned : BOOLEAN, timer : Timers]
Schedules == {"eligible", "none", "revoked"}

NoSnapshot == "Disabled"
Unborn == [at |-> "unborn", next |-> "unborn", snap |-> NoSnapshot, plan |-> "idle"]

HostInit ==
    /\ host = [life |-> "Disabled", owned |-> FALSE, timer |-> "inactive"]
    /\ kept = host /\ shown = host.life
    /\ sched = "eligible"     \* samplers are set up before the host is started
    /\ slot = [handle |-> NoTask, signal |-> NoTask]
    /\ signal = [t \in Tasks |-> [cancelled |-> FALSE, pending |-> FALSE]]
    /\ task = [t \in Tasks |-> Unborn]
    /\ main = [at |-> "idle", next |-> "idle", call |-> "none", snap |-> NoSnapshot,
               joining |-> NoTask]
    /\ calls = 0

Alive(t) == task[t].at \notin {"unborn", "finished"}

-----------------------------------------------------------------------------
(* The host controller: what happens to the status under the lock.         *)

\* NativeSchedulerHostStatus::validate.  A pending wake of a timer that is not
\* active is the timer "wake_only"; that of an active one makes no difference.
Valid(h) ==
    /\ h.life = "Running" => h.owned
    /\ h.timer = "active" => h.owned
    /\ h.timer # "wake_only"

\* refresh_status_from_read, which precedes every use of the status
Refreshed(h, sc) ==
    IF sc = "revoked" /\ h.owned
      THEN [life |-> "Revoked", owned |-> FALSE, timer |-> "inactive"] ELSE h

Current == Refreshed(host, sched)

\* record_timer_runtime_update, with the timer_task_active that it is given.
Updated(h, active) ==
    [h EXCEPT !.owned = @ /\ (active \/ h.life \in {"Running", "Paused"}),
              !.timer = IF active THEN "active" ELSE "inactive"]

\* Pause and Resume set pending_wake.
PendingWake(timer) == IF timer = "active" THEN "active" ELSE "wake_only"

\* A tick can use up the last eligible sampler.
AfterTick == {sched} \cup (IF sched = "eligible" THEN {"none", "revoked"} ELSE {})

\* apply_action, WakeNow: the scheduler's tick may fail, and a failed one degrades
\* the host.
AfterWake(life, sc) == Refreshed([Current EXCEPT !.life = life], sc)
WakeLives == {"Running", "Degraded"}

-----------------------------------------------------------------------------
(* Commands, on the main thread.                                           *)

Called == main.at = "idle" /\ calls < MaxCalls /\ calls' = calls + 1

Proceed(call) ==
    main' = [main EXCEPT !.at = "snapshot", !.call = call,
                         !.next = IF call = "tick" THEN "idle"
                                  ELSE IF call = "start" THEN "ensure" ELSE "notify"]

\* A command changes the command state and goes on to publish it, unless the
\* status that it leaves the controller with is refused.
Command(call, h, sc) ==
    /\ Called
    /\ host' = h /\ sched' = sc
    /\ \/ Valid(h) /\ kept' = h /\ Proceed(call)
       \/ ~Valid(h) /\ kept' = kept /\ main' = [main EXCEPT !.call = "none"]
    /\ UNCHANGED <<shown, slot, signal, task>>

StartHost ==
    /\ \E t \in Tasks : task[t] = Unborn     \* bound: a task is left to be spawned
    /\ \/ Current.life = "Running" /\ Command("start", Current, sched)
       \/ /\ Current.life # "Running" /\ sched = "eligible"
          /\ Command("start", [life |-> "Running", owned |-> TRUE, timer |-> "active"], sched)

PauseHost ==
    /\ Current.life \in {"Running", "Paused"}
    /\ Command("pause", [Current EXCEPT !.life = "Paused", !.timer = PendingWake(@)], sched)

ResumeHost ==
    /\ Current.life = "Paused"
    /\ Command("resume", [Current EXCEPT !.life = "Running", !.timer = PendingWake(@)], sched)

WakeHost ==
    /\ Current.life = "Running"
    /\ \E sc \in AfterTick, life \in WakeLives : Command("wake", AfterWake(life, sc), sc)

\* A command that the lifecycle does not allow has refreshed the status before it
\* says so.
RefusedCommand ==
    /\ Called
    /\ Current # host /\ host' = Current
    /\ main' = [main EXCEPT !.call = "none"]
    /\ UNCHANGED <<kept, sched, shown, slot, signal, task>>

\* update_native_permission, apply_native_sampler_runtime_action and
\* apply_native_scheduler_action, each with its refresh of the host.
ChangeSchedule == \E sc \in Schedules : Command("schedule", Refreshed(host, sc), sc)

\* tick_native_scheduler does not ask the host, and wakes nobody.
TickByHand ==
    /\ Called
    /\ sched' \in AfterTick
    /\ Proceed("tick")
    /\ UNCHANGED <<host, kept, shown, slot, signal, task>>

\* What a reader of a snapshot of the command state is told: it is refreshed again.
Published == Refreshed(kept, sched).life

\* sync_read_state_from_mutation: the snapshot, and its publication.
MainSnapshot ==
    /\ main.at = "snapshot"
    /\ main' = [main EXCEPT !.at = "publish", !.snap = Published]
    /\ UNCHANGED <<core, shown, slot, signal, task, calls>>

MainPublish ==
    /\ main.at = "publish"
    /\ shown' = main.snap
    /\ main' = [main EXCEPT !.at = main.next, !.next = "idle", !.snap = NoSnapshot]
    /\ UNCHANGED <<core, slot, signal, task, calls>>

Notified(s) == IF s.cancelled THEN s ELSE [s EXCEPT !.pending = TRUE]

\* Mutant: a task that was told to stop is taken for finished.
HasTaskUncancelled ==
    slot.handle # NoTask /\ task[slot.handle].at # "finished" /\ ~signal[slot.handle].cancelled

HasTask == slot.handle # NoTask /\ task[slot.handle].at # "finished"

\* ensure_started: a task that has not finished is notified, any other is joined
\* and followed by a new one.
EnsureStarted ==
    /\ main.at = "ensure"
    /\ main' = [main EXCEPT !.at = "notify"]
    /\ IF HasTask
         THEN /\ signal' = [signal EXCEPT ![slot.signal] = Notified(@)]
              /\ UNCHANGED <<slot, task>>
         ELSE \E t \in Tasks :
              /\ task[t] = Unborn /\ \A u \in 1 .. t - 1 : task[u] # Unborn
              /\ slot' = [handle |-> t, signal |-> t]
              /\ task' = [task EXCEPT ![t].at = "starting"]
              /\ UNCHANGED signal
    /\ UNCHANGED <<core, shown, calls>>

\* notify; a start publishes once more after it.
NotifyTask ==
    /\ main.at = "notify"
    /\ signal' = [t \in Tasks |-> IF t = slot.signal THEN Notified(signal[t]) ELSE signal[t]]
    /\ main' = IF main.call = "start"
                 THEN [main EXCEPT !.at = "snapshot", !.next = "idle"]
                 ELSE [main EXCEPT !.at = "idle"]
    /\ UNCHANGED <<core, shown, slot, task, calls>>

\* stop_native_scheduler_host, shutdown_app and the closing of the window begin
\* with stop_and_join: take the handle, cancel the signal.
StopHost ==
    /\ main.at = "idle" /\ calls < MaxCalls
    /\ calls' = calls + 1
    /\ signal' = [t \in Tasks |-> IF t = slot.signal THEN [cancelled |-> TRUE, pending |-> TRUE]
                                  ELSE signal[t]]
    /\ slot' = [slot EXCEPT !.handle = NoTask]
    /\ main' = [main EXCEPT !.at = "joining", !.call = "stop", !.joining = slot.handle]
    /\ UNCHANGED <<core, shown, task>>

StopJoins ==
    /\ main.at = "joining"
    /\ main.joining # NoTask => task[main.joining].at = "finished"
    /\ slot' = [slot EXCEPT !.signal = NoTask]
    /\ main' = [main EXCEPT !.at = "stopping", !.joining = NoTask]
    /\ UNCHANGED <<core, shown, signal, task, calls>>

\* The command ends with the error of stop_and_join.
AfterTimeout == "idle"

\* NATIVE_SCHEDULER_HOST_JOIN_TIMEOUT_MILLIS have passed.
StopTimesOut ==
    /\ main.at = "joining"
    /\ main.joining # NoTask /\ task[main.joining].at # "finished"
    /\ slot' = [slot EXCEPT !.handle = main.joining]
    /\ main' = [main EXCEPT !.at = AfterTimeout, !.call = "none",
                            !.joining = NoTask]
    /\ UNCHANGED <<core, shown, signal, task, calls>>

StopStatus ==
    /\ main.at = "stopping"
    /\ host' = [life |-> "Stopped", owned |-> FALSE, timer |-> "inactive"]
    /\ kept' = host'
    /\ main' = [main EXCEPT !.at = "snapshot", !.next = "idle"]
    /\ UNCHANGED <<sched, shown, slot, signal, task, calls>>

-----------------------------------------------------------------------------
(* run_native_scheduler_host_task                                          *)

\* with_native_scheduler_host_mutation: change the status, take a snapshot under
\* the same lock, and publish it after the lock is released; when the change is
\* refused there is no snapshot, and the task goes on.
Mutate(t, at, h, next) ==
    /\ task[t].at = at
    /\ host' = h
    /\ \/ /\ Valid(h) /\ kept' = h
          /\ task' = [task EXCEPT ![t].at = "publish", ![t].snap = h.life, ![t].next = next]
       \/ /\ ~Valid(h) /\ kept' = kept
          /\ task' = [task EXCEPT ![t].at = next]
    /\ UNCHANGED <<shown, slot, main, calls>>

Record(t, at, active, next) ==
    /\ Mutate(t, at, Updated(Current, active), next)
    /\ UNCHANGED <<sched, signal>>

\* Mutant: only the snapshots of a running host are published.
PublishRunning(t) ==
    /\ task[t].at = "publish"
    /\ shown' = IF task[t].snap = "Running" THEN task[t].snap ELSE shown
    /\ task' = [task EXCEPT ![t].at = task[t].next, ![t].next = "unborn",
                            ![t].snap = NoSnapshot]
    /\ UNCHANGED <<core, slot, signal, main, calls>>

Publish(t) ==
    /\ task[t].at = "publish"
    /\ shown' = task[t].snap
    /\ task' = [task EXCEPT ![t].at = task[t].next, ![t].next = "unborn",
                            ![t].snap = NoSnapshot]
    /\ UNCHANGED <<core, slot, signal, main, calls>>

Move(t, at, next) ==
    /\ task[t].at = at
    /\ task' = [task EXCEPT ![t].at = next]
    /\ UNCHANGED <<core, shown, slot, signal, main, calls>>

Starting(t) == Record(t, "starting", TRUE, "plan")

\* native_scheduler_host_wait_plan.  Whether a sampler is due, and whether the
\* controller of the schedule runs, is left open.
Plan(t) ==
    /\ task[t].at = "plan"
    /\ Valid(Current)
    /\ \E plan \in {"idle"} \cup
             (IF Current.life = "Running" /\ sched = "eligible" THEN {"due", "sleep"} ELSE {}) :
          task' = [task EXCEPT ![t].at = "publish", ![t].snap = Published, ![t].next = "check",
                               ![t].plan = plan]
    /\ UNCHANGED <<core, shown, slot, signal, main, calls>>

\* timer_reconciliation_failed: the status is not valid, or the wait is too long, or
\* the command state takes no changes; in the last case it refuses the record too.
PlanFails(t) ==
    \/ /\ PlansMayFail \/ ~Valid(Current)
       /\ Mutate(t, "plan", Updated([Current EXCEPT !.life = "Failed"], FALSE), "leaving")
       /\ UNCHANGED <<sched, signal>>
    \/ PlansMayFail /\ Move(t, "plan", "leaving")

EndsTask(life) == life \in {"Stopped", "Disabled", "Revoked", "Failed"}

\* The status is read from the copy.  A due plan ticks without a look at the signal.
Check(t) ==
    Move(t, "check", IF EndsTask(shown) THEN "leaving"
                     ELSE IF task[t].plan = "due" THEN "ticking" ELSE "arming")

\* invoke_native_scheduler_host_timer_tick: the record, then WakeNow.
Ticking(t) == Record(t, "ticking", TRUE, "waking")

Waking(t) ==
    \/ /\ Current.life = "Running"
       /\ \E sc \in AfterTick, life \in WakeLives :
             sched' = sc /\ Mutate(t, "waking", AfterWake(life, sc), "plan")
       /\ UNCHANGED signal
    \/ /\ Current.life # "Running"
       /\ task[t].at = "waking" /\ task' = [task EXCEPT ![t].at = "plan"]
       /\ host' = Current
       /\ UNCHANGED <<kept, sched, shown, slot, signal, main, calls>>

Arming(t) == Record(t, "arming", TRUE, "waiting")

TakesWake(t) ==
    /\ signal[t].pending
    /\ task[t].at = "waiting"
    /\ signal' = [signal EXCEPT ![t].pending = FALSE]
    /\ task' = [task EXCEPT ![t].at = "woken"]
    /\ UNCHANGED <<core, shown, slot, main, calls>>

Sleeps(t) ==
    /\ ~signal[t].pending
    /\ \/ Move(t, "waiting", IF task[t].plan = "sleep" THEN "ticking" ELSE "plan")
       \/ Move(t, "waiting", "woken")

\* Mutant: the wait looks at the pending wake only.
WaitsForWakes(t) == TakesWake(t) \/ Sleeps(t)

\* wait: cancelled first, then a pending wake, else it sleeps until it is notified,
\* the time is over or it wakes for no reason.
Waits(t) ==
    \/ signal[t].cancelled /\ Move(t, "waiting", "cancelling")
    \/ ~signal[t].cancelled /\ (TakesWake(t) \/ Sleeps(t))

TaskWoken(t) == Record(t, "woken", TRUE, "plan")

Cancelling(t) == Record(t, "cancelling", TRUE, "leaving")

Leaving(t) == Record(t, "leaving", FALSE, "finished")

-----------------------------------------------------------------------------

MainStep ==
    \/ MainSnapshot \/ MainPublish \/ EnsureStarted \/ NotifyTask
    \/ StopJoins \/ StopTimesOut \/ StopStatus

TaskStep(t) ==
    \/ Publish(t) \/ Starting(t) \/ Plan(t) \/ PlanFails(t) \/ Check(t) \/ Ticking(t)
    \/ Waking(t) \/ Arming(t) \/ Waits(t) \/ TaskWoken(t) \/ Cancelling(t) \/ Leaving(t)

HostNext ==
    \/ StartHost \/ PauseHost \/ ResumeHost \/ WakeHost \/ ChangeSchedule \/ TickByHand
    \/ RefusedCommand \/ StopHost
    \/ MainStep
    \/ \E t \in Tasks : TaskStep(t)

\* Both threads run, and a wait ends at the latest when its time is over.
HostFairness == WF_hostVars(MainStep) /\ \A t \in Tasks : WF_hostVars(TaskStep(t))

HostSpec == HostInit /\ [][HostNext]_hostVars /\ HostFairness

-----------------------------------------------------------------------------

\* There is one host task at most, although a stop may give up on a task that is
\* still running and a start may follow it at once.
OneHostTask == \A t, u \in Tasks : Alive(t) /\ Alive(u) => t = u

\* A host that says Stopped has no task: a stop that timed out does not claim it,
\* and no task that was given up on outlives the next stop.
StoppedHasNoTask == host.life = "Stopped" => \A t \in Tasks : ~Alive(t)

\* Tasks and state agree, through stops that give up, starts that follow at once and
\* tasks that leave by themselves: one task at most, and none when the host is stopped.
TasksMatchState == OneHostTask /\ StoppedHasNoTask

\* A task ends that was told to stop, or whose host was revoked, has failed or is
\* stopped, whatever plans, wakes and notifications are under way and although the
\* task learns of the state from a copy that older snapshots overwrite; unless its
\* plans are due for ever: then it never looks at the signal.
UnwantedTaskEnds ==
    LET unwanted == \E t \in Tasks :
            Alive(t) /\ (signal[t].cancelled \/ host.life \in {"Stopped", "Revoked", "Failed"})
        alwaysDue == \E t \in Tasks : Alive(t) /\ task[t].plan = "due"
    IN (<>[]alwaysDue) \/ (unwanted ~> ~unwanted)

\* While a task runs, the copy that the frontend reads catches up with the state of
\* the host, whichever snapshot was published last.
CopyCatchesUp == []<>(shown = host.life \/ \A t \in Tasks : ~Alive(t))

\* What the test of the task expects of a start: the host's timer then runs.
StartHasTask ==
    LET started == main.at = "idle" /\ main.call = "start" /\ host.life = "Running"
    IN started ~> (~started \/ \E t \in Tasks : Alive(t) /\ ~signal[t].cancelled)

=============================================================================
