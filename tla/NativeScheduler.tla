--------------------------- MODULE NativeScheduler ---------------------------
(***************************************************************************)
(* The native sampling schedule of app_core: NativeSchedulerController     *)
(* (native_scheduler.rs), the sampler runtime and the capability           *)
(* permissions it depends on (native_sampler_runtime.rs,                   *)
(* authorized_native_permissions.rs), the commands that change them        *)
(* (mutation_commands.rs) and the ticks of the scheduler host              *)
(* (native_scheduler_host.rs).                                             *)
(*                                                                         *)
(* A command runs under the lock of the command state, so each is one      *)
(* step.  What makes it hard is that eligibility is a cached copy: the     *)
(* sampler runtime keeps a status with the permission it saw, schedules    *)
(* are switched off by a reconciliation that every command runs, and the   *)
(* due times and retry counters of a schedule survive it.                  *)
(*                                                                         *)
(* Times are kept relative to last_tick_monotonic_millis, in units of the  *)
(* shortest tick: the code only compares and adds them.  An overdue entry  *)
(* is 0.  Behaviours are therefore unbounded although states are finite.   *)
(* This clock is set by the ticks; the host task waits by its own time.    *)
(* Every publication of a tick may fail; validations of what the code has  *)
(* itself put together are taken to succeed.                               *)
(***************************************************************************)
EXTENDS Integers, FiniteSets, Sequences

CONSTANTS
    Samplers,        \* SUPPORTED_SAMPLERS, numbered in the order of their ids
    Priority,        \* sampler_pressure_priority of each sampler
    Interval,        \* interval_millis
    RetryDelay,      \* retry_delay_millis of a tick request
    MaxWait,         \* longest wait a plan of the host may ask for (3600000 ms)
    Budgets,         \* retry budgets a schedule can be given
    RateWindow,      \* cycles scheduler_rate_bucket looks back (8)
    RateFloor,       \* results below which a rate is at most "low" (4)
    MaxCommands,     \* bound on the commands to samplers and permissions
    NoStatus

ASSUME SchedulerConstants ==
    /\ Samplers \subseteq Nat
    /\ Priority \in [Samplers -> 0 .. 2]
    /\ Interval \in Nat \ {0}
    /\ RetryDelay \in 1 .. Interval
    /\ MaxWait \in Nat /\ Interval <= MaxWait
    /\ Budgets \subseteq Nat /\ Budgets # {}
    /\ RateWindow \in Nat \ {0} /\ RateFloor \in Nat /\ MaxCommands \in Nat

VARIABLES
    cap,        \* permission_state of the capability of each sampler
    status,     \* stored NativeSamplerRuntimeStatus of each sampler, or NoStatus
    ctl,        \* controller_state
    graceful,   \* graceful_shutdown_requested
    enabled,    \* samplers whose contract.schedule_enabled is set
    budget,     \* contract.retry_budget_bucket
    ticked,     \* last_tick_monotonic_millis is set
    dueIn,      \* next_due_monotonic_millis, from the last tick
    retry,      \* retry_attempts
    cycles,     \* the sampler results of the latest cycles, newest first
    commands,   \* commands to samplers and permissions so far
    quiet,      \* no client sends commands, ticks or wakes any more
    hostLife,   \* lifecycle_state of the host from then on, until then "Stopped"
    ahead,      \* how far last_tick is ahead of the host task's own time, up to MaxWait
    ran,        \* history: samplers the latest step handed to the runtime
    since,      \* history: time since each sampler ran, Interval if longer ago
    quick       \* history: consecutive runs less than an interval apart

controller == <<ctl, graceful, enabled, budget, ticked, dueIn, retry, cycles>>
timer == <<hostLife, ahead>>
history == <<ran, since, quick>>
vars == <<cap, status, controller, commands, quiet, timer, history>>

Permissions == {"Other", "Granted", "Revoked"}
RunStates == {"Inactive", "Active", "Paused", "Degraded", "Revoked"}
Status == [perm : Permissions, run : RunStates]
Controls == {"Disabled", "Ready", "Running", "Paused", "Stopping", "Stopped",
             "Revoked", "Degraded"}

Least(S) == CHOOSE x \in S : \A y \in S : x <= y
Most(S) == CHOOSE x \in S : \A y \in S : x >= y
Drop(f, S) == [x \in DOMAIN f \ S |-> f[x]]
SumOver(seq, f(_)) ==
    LET sum[i \in 0 .. Len(seq)] == IF i = 0 THEN 0 ELSE sum[i - 1] + f(seq[i])
    IN sum[Len(seq)]

-----------------------------------------------------------------------------
(* Eligibility and reconciliation.                                         *)

\* status_for_detail_from_statuses: the stored status, or one made from the capability.
StatusOf(st, cp, s) ==
    IF st[s] = NoStatus THEN [perm |-> cp[s], run |-> "Inactive"] ELSE st[s]

\* schedule_status_from_parts: schedule_eligible.
Eligible(st, cp) ==
    {s \in Samplers : StatusOf(st, cp, s) = [perm |-> "Granted", run |-> "Active"]}

\* state_after_schedule_change
AfterChange(en, eligible) ==
    IF en # {} THEN "Running" ELSE IF eligible # {} THEN "Ready" ELSE "Disabled"

\* reconcile: schedules lose what is no longer eligible, then the state follows.
Reconcile(en, c, st, cp) ==
    LET eligible == Eligible(st, cp)
        left == en \cap eligible
    IN [enabled |-> left,
        ctl |-> IF \A s \in Samplers : StatusOf(st, cp, s).perm = "Revoked" THEN "Revoked"
                ELSE IF en # {} /\ left = {} THEN "Degraded"
                ELSE IF c \notin {"Disabled", "Paused", "Stopping", "Stopped"}
                  THEN AfterChange(left, eligible)
                ELSE IF c = "Disabled" /\ eligible # {} THEN "Ready"
                ELSE c]

\* Every command ends with refresh_native_scheduler_host, which reconciles again.
Settle(r, st, cp) ==
    LET final == Reconcile(r.enabled, r.ctl, st, cp)
    IN enabled' = final.enabled /\ ctl' = final.ctl

Now == Reconcile(enabled, ctl, status, cap)

-----------------------------------------------------------------------------
(* Permissions and the sampler runtime.                                    *)

\* A change of the permissions or of a sampler: reconcile, then the host refresh.
Follow(cp, st) ==
    /\ commands < MaxCommands
    /\ commands' = commands + 1
    /\ cap' = cp
    /\ status' = st
    /\ Settle(Reconcile(enabled, ctl, st, cp), st, cp)
    /\ ran' = {}
    /\ UNCHANGED <<graceful, budget, ticked, dueIn, retry, cycles, since, quick>>

Revoked == [perm |-> "Revoked", run |-> "Revoked"]

\* update_native_permission: only a revocation reaches the stored statuses.
UpdatePermission(s, perm) ==
    Follow([cap EXCEPT ![s] = perm],
           IF perm = "Revoked" /\ status[s] # NoStatus
             THEN [status EXCEPT ![s] = Revoked] ELSE status)

Store(s, run) ==
    [status EXCEPT ![s] = [StatusOf(status, cap, s) EXCEPT !.run = run]]

\* ensure_activation_allowed: the capability itself is asked, not the stored copy.
ActivationAllowed(s) == cap[s] = "Granted" /\ StatusOf(status, cap, s).run # "Revoked"

\* apply_action of the sampler runtime: Activate and Resume.
Activate(s) == ActivationAllowed(s) /\ Follow(cap, Store(s, "Active"))

PauseSampler(s) ==
    StatusOf(status, cap, s).run # "Revoked" /\ Follow(cap, Store(s, "Paused"))

StopSampler(s) == Follow(cap, Store(s, "Inactive"))

\* Revoke takes the capability along.
RevokeSampler(s) ==
    Follow([cap EXCEPT ![s] = "Revoked"], [status EXCEPT ![s] = Revoked])

\* RefreshStatus and ReadLatestBoundedBatch store the status they computed.
RefreshSampler(s) == Follow(cap, Store(s, StatusOf(status, cap, s).run))

\* "Active" stands for Idle too, which is cleared: only a sampler that is Active
\* or Paused is left as it is.
ClearSampler(s) ==
    \/ /\ StatusOf(status, cap, s).run # "Paused"
       /\ Follow(cap, [status EXCEPT ![s] = [perm |-> cap[s], run |-> "Inactive"]])
    \/ /\ StatusOf(status, cap, s).run \in {"Active", "Paused"}
       /\ RefreshSampler(s)

\* SampleNow, with what status_after_batch makes of the batch.
SampleNow(s, degraded) ==
    /\ ActivationAllowed(s)
    /\ StatusOf(status, cap, s).run = "Active"
    /\ Follow(cap, Store(s, IF degraded THEN "Degraded" ELSE "Active"))

-----------------------------------------------------------------------------
(* apply_action of the controller.  A refused action leaves what its first *)
(* reconciliation did, as RefreshStatus does and as the wait plan of the   *)
(* host does.                                                              *)

Act(en, c, g, due, tries) ==
    /\ Settle([enabled |-> en, ctl |-> c], status, cap)
    /\ graceful' = g
    /\ dueIn' = due
    /\ retry' = tries
    /\ ran' = {}
    /\ UNCHANGED <<cap, status, ticked, cycles, commands>>

NewSchedule(s) ==
    since' = [since EXCEPT ![s] = Interval] /\ quick' = [quick EXCEPT ![s] = 0]

\* Mutant: enabling a sampler does not withdraw the stop that was asked for.
EnableSamplerWhileStopping(s, b) ==
    /\ s \in Eligible(status, cap)
    /\ budget' = [budget EXCEPT ![s] = b]
    /\ Act(Now.enabled \cup {s}, "Running", graceful, Drop(dueIn, {s}), Drop(retry, {s}))
    /\ NewSchedule(s)

EnableSampler(s, b) ==
    /\ s \in Eligible(status, cap)
    /\ budget' = [budget EXCEPT ![s] = b]
    /\ Act(Now.enabled \cup {s}, "Running", FALSE, Drop(dueIn, {s}), Drop(retry, {s}))
    /\ NewSchedule(s)

DisableSampler(s) ==
    LET left == Now.enabled \ {s} IN
    /\ Act(left, AfterChange(left, Eligible(status, cap)), graceful,
           Drop(dueIn, {s}), Drop(retry, {s}))
    /\ NewSchedule(s)
    /\ UNCHANGED budget

DisableScheduler ==
    /\ Act({}, "Disabled", FALSE, <<>>, <<>>)
    /\ UNCHANGED <<budget, since, quick>>

Pause ==
    /\ Now.ctl = "Running"
    /\ Act(Now.enabled, "Paused", graceful, dueIn, retry)
    /\ UNCHANGED <<budget, since, quick>>

Resume ==
    /\ Now.ctl = "Paused"
    /\ Act(Now.enabled, IF Now.enabled # {} THEN "Running" ELSE "Ready", FALSE, dueIn, retry)
    /\ UNCHANGED <<budget, since, quick>>

BeginStop ==
    /\ Now.ctl \notin {"Stopped", "Revoked"}
    /\ Act({}, "Stopping", TRUE, <<>>, <<>>)
    /\ UNCHANGED <<budget, since, quick>>

CompleteStop ==
    /\ Now.ctl = "Stopping"
    /\ Act(Now.enabled, "Stopped", TRUE, dueIn, retry)
    /\ UNCHANGED <<budget, since, quick>>

RefreshStatus ==
    /\ enabled' = Now.enabled /\ ctl' = Now.ctl
    /\ ran' = {}
    /\ UNCHANGED <<cap, status, graceful, budget, ticked, dueIn, retry, cycles, commands,
                   since, quick>>

-----------------------------------------------------------------------------
(* Ticks.                                                                  *)

\* scheduler_rate_bucket, as the rank of its bucket: the results of the latest cycles.
RateRank(field) ==
    LET latest == SubSeq(cycles, 1, Least({RateWindow, Len(cycles)}))
        total == SumOver(latest, LAMBDA c : c.total)
        matched == SumOver(latest, LAMBDA c : c[field])
        percent == (matched * 100) \div total
    IN IF total = 0 \/ matched = 0 THEN 0
       ELSE IF total < RateFloor \/ percent <= 20 THEN 1
       ELSE IF percent <= 45 THEN 2
       ELSE IF percent <= 75 THEN 3
       ELSE 4

RatePressure ==
    Most({RateRank("timeouts"), RateRank("overlaps")})

\* classify_backpressure: None, Low, Moderate, High and Saturated are 0 .. 4.  The
\* backlog counts of a request have the same thresholds and can only raise it.
Pressure(due, limit) == Most({RatePressure, IF Cardinality(due) > limit THEN 1 ELSE 0})

\* deferred_sampler_ids
Deferred(due, level) ==
    {s \in due : \/ level = 2 /\ Priority[s] >= 2
                 \/ level = 3 /\ Priority[s] >= 1}

\* store_cycle; cycles older than the window are never looked at again.
StoreCycle(c) == <<c>> \o SubSeq(cycles, 1, Least({RateWindow - 1, Len(cycles)}))

NoResults == [total |-> 0, timeouts |-> 0, overlaps |-> 0]

Later(x, d) == IF x > d THEN x - d ELSE 0
Elapse(f, d) == [s \in DOMAIN f |-> Later(f[s], d)]
TimePasses(d) == since' = [s \in Samplers |-> Least({Interval, since[s] + d})]

\* finish_skipped_cycle; its cycle is not stored when a publication fails before
\* store_cycle.  pause_degraded_schedules, which it also calls, has no
\* work: the reconciliation has switched off every degraded sampler.
SkipCycle(d, due, tries, stored) ==
    /\ enabled' = Now.enabled /\ ctl' = Now.ctl
    /\ cycles' = IF stored THEN StoreCycle(NoResults) ELSE cycles
    /\ dueIn' = due
    /\ retry' = tries
    /\ ran' = {}
    /\ TimePasses(d)
    /\ UNCHANGED <<cap, status, graceful, budget, commands, quick>>

\* monotonic_clock_regressed, tick_frequency_bounded
TickTooSoon(stored) ==
    /\ ticked
    /\ SkipCycle(0, dueIn, retry, stored)
    /\ UNCHANGED ticked

DueAfter(d) == {s \in Now.enabled : s \in DOMAIN dueIn => dueIn[s] <= d}

Active(cancelled) == ~cancelled /\ Now.ctl = "Running" /\ ~graceful

\* cancellation_requested, scheduler_not_running, no_due_samplers
TickIdle(d, cancelled, stored) ==
    /\ d >= 1
    /\ ~Active(cancelled) \/ DueAfter(d) = {}
    /\ SkipCycle(d, Elapse(dueIn, d), retry, stored)
    /\ ticked' = TRUE

\* The publication of the started cycle fails: the time counts, and nothing has run.
TickBreaksOff(d) ==
    /\ Active(FALSE) /\ DueAfter(d) # {}
    /\ SkipCycle(d, Elapse(dueIn, d), retry, FALSE)
    /\ ticked' = TRUE

\* advance_due_without_catch_up
Advance(due, d) ==
    [s \in DOMAIN dueIn \cup due |-> IF s \in due THEN Interval ELSE Later(dueIn[s], d)]

TickSaturated(d, due, stored) ==
    /\ Active(FALSE) /\ due # {}
    /\ SkipCycle(d, Advance(due, d), Drop(retry, due), stored)
    /\ ticked' = TRUE

\* Mutant: the cached eligibility is taken for the permission.
RevalidatedFromCache(s) == s \in Eligible(status, cap)

\* The revalidation before a run: the schedule again, and the capability itself.
Revalidated(s) == s \in Eligible(status, cap) /\ cap[s] = "Granted"

\* What the loop of a tick does with each due sampler, in the order of the ids:
\* late is where the time of the cycle runs out, limit how many may run.
Admitted(due, deferred, late, limit) ==
    LET candidates == {s \in due \ deferred : s < late /\ Revalidated(s)}
    IN {s \in candidates : Cardinality({x \in candidates : x < s}) < limit}

Limited(due, deferred, late, limit) ==
    {s \in due \ deferred :
        Cardinality({x \in Admitted(due, deferred, late, limit) : x < s}) >= limit}

\* Mutant: the retry that exceeds the budget is granted too.
MayRetryLate(s, tries) == tries <= budget[s] + 1

MayRetry(s, tries) == tries <= budget[s]

Attempts(s) == IF s \in DOMAIN retry THEN retry[s] ELSE 0

\* tick, when it runs its cycle.  Of the samplers it runs, failing are those the
\* runtime refuses or finds unavailable, degraded those it leaves degraded.
TickRun(d, due, level, limit, late, stored) ==
    \E deferred \in {Deferred(due, level)} :
    \E admitted \in {Admitted(due, deferred, late, limit)},
       limited \in {Limited(due, deferred, late, limit)} :
    \E failing \in SUBSET admitted : \E degraded \in SUBSET admitted :
    LET timedOut == {s \in due \ (deferred \cup limited) : s >= late}
        invalid == due \ (deferred \cup limited \cup timedOut \cup admitted)
        tried == limited \cup timedOut \cup failing
        again == {s \in tried : MayRetry(s, Attempts(s) + 1)}
        settled == invalid \cup (admitted \ tried) \cup (tried \ again)
        after == [s \in Samplers |->
                    IF s \in degraded
                      THEN [status[s] EXCEPT !.run = "Degraded"] ELSE status[s]]
    IN
    /\ Active(FALSE) /\ due # {}
    /\ dueIn' = [s \in DOMAIN dueIn \cup due |->
                    IF s \in again THEN RetryDelay
                    ELSE IF s \in due THEN Interval ELSE Later(dueIn[s], d)]
    /\ retry' = [s \in (DOMAIN retry \ settled) \cup again |->
                    IF s \in again THEN Attempts(s) + 1 ELSE retry[s]]
    /\ status' = after
    /\ Settle(Now, after, cap)
    /\ cycles' = IF stored
                   THEN StoreCycle([total |-> Cardinality(due), timeouts |-> Cardinality(timedOut),
                                    overlaps |-> Cardinality(limited)])
                   ELSE cycles
    /\ ticked' = TRUE
    /\ ran' = admitted
    /\ since' = [s \in Samplers |->
                    IF s \in admitted THEN 0 ELSE Least({Interval, since[s] + d})]
    /\ quick' = [s \in Samplers |->
                    IF s \notin admitted THEN quick[s]
                    ELSE IF since[s] + d < Interval THEN quick[s] + 1 ELSE 0]
    /\ UNCHANGED <<cap, graceful, budget, commands>>

NoneLate == 1 + Most(Samplers \cup {0})

\* tick_native_scheduler: a tick the frontend asks for, with its own clock and limits.
ManualTick(stored) ==
    \/ TickTooSoon(stored)
    \/ \E d \in 1 .. Interval :
        \/ \E cancelled \in BOOLEAN : TickIdle(d, cancelled, stored)
        \/ RatePressure < 4 /\ ~stored /\ TickBreaksOff(d)
        \/ TickSaturated(d, DueAfter(d), stored)
        \/ LET due == DueAfter(d) IN
           \E limit \in 1 .. Cardinality(Samplers), late \in due \cup {NoneLate} :
              \E level \in Pressure(due, limit) .. 3 : TickRun(d, due, level, limit, late, stored)

\* Mutant: the clock of the host is the earliest due time even when it has passed.
HostElapsedStuck == IF DOMAIN dueIn = {} THEN 1 ELSE Least({dueIn[s] : s \in DOMAIN dueIn})

\* host_tick_request: the clock of the host is not the time that passed but the
\* earliest due time, of switched-off schedules too, and at least a tick later.
HostElapsed ==
    Most({1} \cup (IF DOMAIN dueIn = {} THEN {} ELSE {Least({dueIn[s] : s \in DOMAIN dueIn})}))

\* invoke_one_scheduler_tick.  The first sampler of a cycle is never late.
HostCycle(stored) ==
    LET all == Cardinality(Samplers) IN
    \E d \in {HostElapsed} : \E due \in {DueAfter(d)} :
    \/ TickIdle(d, FALSE, stored)
    \/ \E level \in {Pressure(due, all)} :
       \/ level = 4 /\ TickSaturated(d, due, stored)
       \/ level < 4 /\ ~stored /\ TickBreaksOff(d)
       \/ /\ level < 4
          /\ \E late \in due \cup {NoneLate} :
               (\E s \in due : s < late) /\ TickRun(d, due, level, all, late, stored)

\* WakeNow, which any client may ask for while the host runs.
WakeNow(stored) == HostCycle(stored)

\* native_scheduler_host_wait_plan: the earliest due time of what is enabled, 0 on
\* the clock if it never ran, and at least a tick after the last.
PlanDue ==
    Most({IF ticked THEN 1 ELSE 0,
          Least({IF s \in DOMAIN dueIn THEN dueIn[s] ELSE 0 : s \in Now.enabled})})

\* wait_millis: the due time is on the clock of the schedule, the time it is
\* compared with is what has passed since the task started.
PlanWait == ahead + PlanDue

HostPlans == hostLife = "Running" /\ Now.ctl = "Running" /\ ~graceful /\ Now.enabled # {}

\* How far the clock is ahead after a tick that came when the wait was over.
AheadAfter == IF ticked THEN Later(HostElapsed, PlanDue) ELSE 0

\* The timer of the host task: when the wait is over, or later, it ticks.  A tick
\* that fails, which one that has stored its cycle still may, degrades the host,
\* whose plans are idle from then on.
TimerTick ==
    /\ HostPlans
    /\ PlanWait <= MaxWait
    /\ \E stored \in BOOLEAN :
          /\ HostCycle(stored)
          /\ hostLife' \in {"Degraded"} \cup (IF stored THEN {"Running"} ELSE {})
    /\ ahead' \in 0 .. AheadAfter

\* The plan does not pass its validation: the task records the failure and ends.
PlanRefused ==
    /\ HostPlans
    /\ PlanWait > MaxWait
    /\ hostLife' = "Failed"
    /\ enabled' = Now.enabled /\ ctl' = Now.ctl
    /\ ran' = {}
    /\ UNCHANGED <<cap, status, graceful, budget, ticked, dueIn, retry, cycles, commands,
                   ahead, since, quick>>

-----------------------------------------------------------------------------

Init ==
    /\ cap = [s \in Samplers |-> "Other"]
    /\ status = [s \in Samplers |-> NoStatus]
    /\ ctl = "Disabled" /\ graceful = FALSE
    /\ enabled = {} /\ budget \in [Samplers -> {Least(Budgets)}]
    /\ ticked = FALSE /\ dueIn = <<>> /\ retry = <<>> /\ cycles = <<>>
    /\ commands = 0 /\ quiet = FALSE /\ ran = {}
    /\ hostLife = "Stopped" /\ ahead = 0
    /\ since = [s \in Samplers |-> Interval]
    /\ quick = [s \in Samplers |-> 0]

SamplerCommand ==
    \E s \in Samplers :
        \/ \E perm \in Permissions : UpdatePermission(s, perm)
        \/ Activate(s) \/ PauseSampler(s) \/ StopSampler(s) \/ RevokeSampler(s)
        \/ RefreshSampler(s) \/ ClearSampler(s)
        \/ \E degraded \in BOOLEAN : SampleNow(s, degraded)

SchedulerCommand ==
    \/ \E s \in Samplers : DisableSampler(s) \/ \E b \in Budgets : EnableSampler(s, b)
    \/ DisableScheduler \/ Pause \/ Resume \/ BeginStop \/ CompleteStop \/ RefreshStatus

ClientStep ==
    \/ SamplerCommand \/ SchedulerCommand
    \/ \E stored \in BOOLEAN : ManualTick(stored) \/ WakeNow(stored)

\* The clients leave a host that runs over a running schedule to its timer (over any
\* other its plans are idle).  When its task was started is open, and so is where the
\* clock stands once there was a tick: a tick by hand sets it to any time, a wake
\* moves it on to the next due time.  The bound and the history start anew.
Quiet ==
    /\ ~quiet /\ quiet' = TRUE /\ ran' = {}
    /\ ctl = "Running" /\ hostLife' = "Running"
    /\ ahead' \in IF ticked THEN 0 .. MaxWait ELSE {0}
    /\ commands' = 0
    /\ since' = [s \in Samplers |-> Interval] /\ quick' = [s \in Samplers |-> 0]
    /\ UNCHANGED <<cap, status, controller>>

TimerStep == quiet /\ UNCHANGED quiet /\ (TimerTick \/ PlanRefused)

Next ==
    \/ ~quiet /\ UNCHANGED <<quiet, timer>> /\ ClientStep
    \/ TimerStep
    \/ Quiet

Spec == Init /\ [][Next]_vars

\* The host task runs, and time passes: a wait ends, and the next plan is made.
FairSpec == Spec /\ WF_vars(TimerStep)

-----------------------------------------------------------------------------

\* Types of the state of the schedule.
TypeOK ==
    /\ cap \in [Samplers -> Permissions]
    /\ status \in [Samplers -> Status \cup {NoStatus}]
    /\ ctl \in Controls /\ graceful \in BOOLEAN
    /\ enabled \subseteq Samplers /\ budget \in [Samplers -> Nat]
    /\ ticked \in BOOLEAN
    /\ DOMAIN dueIn \subseteq Samplers /\ \A s \in DOMAIN dueIn : dueIn[s] \in 0 .. Interval
    /\ DOMAIN retry \subseteq Samplers /\ \A s \in DOMAIN retry : retry[s] \in Nat
    /\ cycles \in Seq([total : Nat, timeouts : Nat, overlaps : Nat])
    /\ commands \in 0 .. MaxCommands /\ quiet \in BOOLEAN
    /\ hostLife \in {"Stopped", "Running", "Degraded", "Failed"} /\ ahead \in 0 .. MaxWait
    /\ ran \subseteq Samplers /\ since \in [Samplers -> 0 .. Interval]
    /\ quick \in [Samplers -> Nat]

\* What a tick may rely on: a running controller has an enabled schedule and was
\* not asked to stop, a stop leaves no schedule enabled until one is enabled anew,
\* and an enabled schedule is eligible, so that no degraded sampler is left for
\* pause_degraded_schedules.
RunningHasWork ==
    /\ ctl = "Running" => enabled # {} /\ ~graceful
    /\ graceful => enabled = {}
    /\ enabled \subseteq Eligible(status, cap)

\* A sampler is handed to the runtime only while its capability itself is granted,
\* its schedule enabled and the controller running, although the schedule trusts a
\* copy of the permission that only a revocation updates.
RunsOnlyPermitted ==
    [][\A s \in ran' : cap[s] = "Granted" /\ s \in enabled /\ ctl = "Running"]_vars

\* A failing sampler runs at most its retry budget times in a row without a whole
\* interval of the schedule's clock in between, whatever limits, timeouts, failed
\* ticks, backpressure and earlier schedules of the same sampler left behind.
RetriesWithinBudget == \A s \in Samplers : quick[s] <= budget[s]

\* Once the clients are quiet and cycles no longer time out, the timer alone runs
\* every enabled and permitted sampler again and again: the host's clock is not
\* stuck behind a schedule that was switched off, and neither the retry counters
\* nor the backpressure that earlier cycles left behind keep it out for good.  Two
\* ways lead out: a tick that fails degrades the host, and a clock that is ahead of
\* the task's time can make its plan one that is refused.  While the clock is not
\* ahead, every plan is accepted.
DueSamplerRuns ==
    \A s \in Samplers :
        (<>[](cycles # <<>> => cycles[1].timeouts = 0)) =>
            ((/\ quiet /\ hostLife = "Running"
              /\ ctl = "Running" /\ s \in enabled /\ cap[s] = "Granted")
                ~> (\/ s \in ran \/ s \notin enabled
                    \/ hostLife = "Degraded"
                    \/ hostLife = "Failed" /\ ahead > 0))

=============================================================================
