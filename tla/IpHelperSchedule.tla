-------------------------- MODULE IpHelperSchedule --------------------------
(***************************************************************************)
(* The IP-helper sampling schedule kept by the runtime container           *)
(* (crates/app_core/src/runtime_container.rs): a record and the operations *)
(* on it. Every operation runs under the container's mutex; the module of  *)
(* the service host decides who calls it and when.                         *)
(*                                                                         *)
(*   state  schedule_state; lease_state and schedule_lease_valid follow it *)
(*          (update_schedule_status writes the three together)             *)
(*   lease  the IPC session whose command created the schedule lease, 0    *)
(*          when there is none                                             *)
(*   timer  timer_runtime_active                                           *)
(*   wake   ip_helper_schedule_wake_pending                                *)
(*   due    ip_helper_next_due_monotonic_millis; NoDue stands for None and *)
(*          is read as 0 (unwrap_or(0))                                    *)
(*                                                                         *)
(* Operations that publish a status before they are done take the          *)
(* parameter published: when the bus refuses that message the rest of the  *)
(* operation is left out and its caller sees an error. A refused message   *)
(* at the end of an operation is an error that undoes nothing.             *)
(***************************************************************************)
EXTENDS Integers

CONSTANT Interval   \* ip_helper_schedule_interval_millis, in clock ticks

ASSUME IntervalAssumption == Interval \in Nat \ {0}

ScheduleStates == {"NotConfigured", "ConfiguredDisabled", "ConfiguredEnabled",
                   "Paused", "Invalidated"}
NoDue == -1

NewSchedule == [state |-> "NotConfigured", lease |-> 0, timer |-> FALSE,
                wake |-> FALSE, due |-> NoDue]

\* update_schedule_status: a schedule without a valid lease has no timer.
Recorded(s, state, lease) ==
    [s EXCEPT !.state = state, !.lease = lease,
              !.timer = @ /\ state = "ConfiguredEnabled"]

\* The three fields that pause, disable, invalidate and stop reset.
Unscheduled(s) == [s EXCEPT !.wake = FALSE, !.due = NoDue]

ConfigureSchedule(s) == Recorded(s, "ConfiguredDisabled", 0)

MayEnable(s, active) == active /\ s.state \in {"ConfiguredDisabled", "Paused"}
MayResume(s, active) == active /\ s.state = "Paused"

\* enable_ip_helper_schedule and resume_ip_helper_schedule past their guards:
\* the lease is recorded before the status is published, the timer after.
StartSchedule(s, session, published) ==
    LET r == Recorded(s, "ConfiguredEnabled", session) IN
    IF published THEN [r EXCEPT !.timer = TRUE, !.due = 0, !.wake = TRUE] ELSE r

\* pause resets the due time before it publishes.
PauseSchedule(s) == Unscheduled(Recorded(s, "Paused", 0))

\* disable publishes first.
DisableSchedule(s, published) ==
    LET r == Recorded(s, "ConfiguredDisabled", 0) IN
    IF published THEN Unscheduled(r) ELSE r

Leased(s) == s.state \in {"ConfiguredEnabled", "Paused"}

\* Mutant: a running schedule outlives its session.
InvalidatePausedOnly(s, published) ==
    IF s.state = "Paused" THEN Unscheduled(Recorded(s, "Invalidated", 0)) ELSE s

InvalidateForSessionEnd(s, published) ==
    LET r == IF Leased(s) THEN Recorded(s, "Invalidated", 0) ELSE s IN
    IF published \/ ~Leased(s) THEN Unscheduled(r) ELSE r

\* stop_ip_helper_provider on the schedule.
StopProvider(s) ==
    Unscheduled(IF Leased(s) THEN Recorded(s, "Invalidated", 0) ELSE s)

\* ip_helper_scheduler_wait_millis(elapsed) = Some(0).
IsDue(s, elapsed) == /\ s.timer /\ s.state = "ConfiguredEnabled"
                     /\ s.wake \/ s.due <= elapsed

\* run_ip_helper_schedule_cycle_for_ref on a schedule that is due. An
\* unpublished "cycle due" leaves before anything changed; a failed execution
\* is recorded as a skip, which clears the wake mark and keeps the due time.
CycleOutcomes == {"completed", "failed", "unpublished"}

AfterCycle(s, elapsed, outcome) ==
    CASE outcome = "completed"   -> [s EXCEPT !.wake = FALSE, !.due = elapsed + Interval]
      [] outcome = "failed"      -> [s EXCEPT !.wake = FALSE]
      [] outcome = "unpublished" -> s

=============================================================================
