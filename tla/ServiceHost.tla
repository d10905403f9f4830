---------------------------- MODULE ServiceHost ----------------------------
(***************************************************************************)
(* The elevated service host: the thread of ServiceHostRuntime::run        *)
(* (service/elevated/src/service_host.rs) that serves one pipe connection  *)
(* after another and then shuts the runtime container down, the thread of  *)
(* ServiceHostIpHelperSchedulerRuntime that shares the container with it,  *)
(* the stop requester (the SCM handler or the foreground watcher), and the *)
(* clients. The container sits behind one mutex: what a thread does under  *)
(* it is one step. Fields only the serving thread reads change with it.    *)
(***************************************************************************)
EXTENDS IpHelperSchedule, Sequences, FiniteSets

CONSTANTS
    MaxConnections,  \* bound on client connections
    MaxRequests,     \* MAX_REQUESTS_PER_SESSION
    MaxTime          \* bound on the clock

ASSUME HostAssumption ==
    MaxConnections \in Nat \ {0} /\ MaxRequests \in Nat \ {0} /\ MaxTime \in Nat

VARIABLES
    stop,       \* ServiceHostShutdown.stop_requested
    requester,  \* the caller of ServiceHostShutdown::request
    pipe,       \* the single pipe instance and its peer
    host,       \* where the serving thread stands in run
    failed,     \* the session or the shutdown returned an error
    lifecycle,  \* ServiceHostLifecycleState
    connection, \* number of the client connection
    session,    \* active_session_reference: its connection, 0 when None
    handled,    \* requests read in the loop of handle_pipe_session
    schedule,   \* the container's IP-helper schedule
    helper,     \* the IP-helper provider is active
    kickedAt,   \* when kick_due_ip_helper_scheduler_cycle was entered
    timer,      \* the scheduler thread
    readAt,     \* elapsed_millis it read before it asked for the lock
    timerStop,  \* its own stop flag
    poisoned,   \* the container's mutex is poisoned
    stages,     \* completed shutdown stages
    writer,     \* the storage writer lease is held
    ownership,  \* the runtime ownership lease is held
    clock,      \* monotonic time
    ran         \* history: lease and time of the lease's last completed cycle

ipc == <<connection, session, handled>>
container == <<schedule, helper, ran, poisoned, stages, writer, ownership>>
thread == <<timer, readAt, timerStop>>
request == <<stop, requester>>
vars == <<request, pipe, host, failed, lifecycle, ipc, container, kickedAt,
          thread, clock>>

\* The shutdown stages in their order (RuntimeShutdownStage).
Stages == <<"RejectMutations", "ShutdownInProgress", "InvalidateMutationLeases",
            "SignalSchedulerHostCancellation", "JoinSchedulerHost",
            "DisableScheduler", "StopSamplers", "StopPortableReaders",
            "CancelAnalysisWork", "DrainEventBus", "StopPluginRuntime",
            "StopDag", "CloseEventBus", "FinalizeCanonicalReadModels",
            "CloseStorageWriter", "ClearServiceSessionState",
            "ReleaseOwnershipGuard", "CloseIpc", "Stopped">>

HostPoints == {"loop", "create", "connect", "hello", "verify", "serving", "kick",
               "stuck", "close", "join", "take", "stage", "drop", "ended"}
NeverRan == [lease |-> 0, at |-> 0]
\* The serving thread holds the container's lock and never gives it back.
Held == host = "stuck"
\* A thread that ended, by itself or by a panic.
TimerGone == timer \in {"exited", "panicked"}

Init ==
    /\ stop = FALSE /\ requester = "idle" /\ pipe = "absent"
    /\ host = "loop" /\ failed = FALSE /\ lifecycle = "Running"
    /\ connection = 0 /\ session = 0 /\ handled = 0
    /\ schedule = NewSchedule /\ helper = FALSE /\ kickedAt = 0
    /\ ran = NeverRan
    /\ timer = "idle" /\ readAt = 0 /\ timerStop = FALSE /\ poisoned = FALSE
    /\ stages = 0 /\ writer = TRUE /\ ownership = TRUE /\ clock = 0

-----------------------------------------------------------------------------
(* The stop requester, the clients and time. *)

\* ServiceHostShutdown::request, its store.
RequestStop ==
    /\ requester = "idle" /\ host # "ended"
    /\ stop' = TRUE /\ requester' = "waking"
    /\ UNCHANGED <<pipe, host, failed, lifecycle, ipc, container, kickedAt, thread, clock>>

\* Mutant: the request sets the flag and nothing else.
WakeNobody ==
    /\ requester = "waking" /\ requester' = "done"
    /\ UNCHANGED <<stop, pipe, host, failed, lifecycle, ipc, container, kickedAt, thread, clock>>

\* wake_local_pipe: opens the pipe and drops it at once; an instance that does
\* not exist or is taken makes the open fail, which is ignored. "early" records
\* that the serving thread had read the flag and not yet created the pipe.
WakePipe ==
    /\ requester = "waking"
    /\ requester' = IF host = "create" THEN "early" ELSE "done"
    /\ pipe' = IF pipe = "listening" THEN "gone" ELSE pipe
    /\ UNCHANGED <<stop, host, failed, lifecycle, ipc, container, kickedAt, thread, clock>>

ClientConnects ==
    /\ pipe = "listening" /\ connection < MaxConnections
    /\ pipe' = "client" /\ connection' = connection + 1
    /\ UNCHANGED <<request, host, failed, lifecycle, session, handled, container,
                   kickedAt, thread, clock>>

ClientLeaves ==
    /\ pipe = "client"
    /\ pipe' = "gone"
    /\ UNCHANGED <<request, host, failed, lifecycle, ipc, container, kickedAt, thread, clock>>

\* Time matters while requests are served and cycles run.
Tick ==
    /\ clock < MaxTime /\ host \notin {"stuck", "take", "stage", "drop", "ended"}
    /\ clock' = clock + 1
    /\ UNCHANGED <<request, pipe, host, failed, lifecycle, ipc, container, kickedAt, thread>>

-----------------------------------------------------------------------------
(* The serving thread: the connection loop. *)

\* while !is_requested(), and the same test at the head of
\* run_one_pipe_connection_until_stop.
CheckStop ==
    /\ host = "loop"
    /\ host' = IF stop THEN "join" ELSE "create"
    /\ UNCHANGED <<request, pipe, failed, lifecycle, ipc, container, kickedAt, thread, clock>>

CreatePipe ==
    /\ host = "create"
    /\ host' = "connect" /\ pipe' = "listening"
    /\ UNCHANGED <<request, failed, lifecycle, ipc, container, kickedAt, thread, clock>>

\* CreateNamedPipeW or ConnectNamedPipe fails: run returns the error. A peer that
\* closed before ConnectNamedPipe was called is such a failure (ERROR_NO_DATA), one
\* that is still there is not (ERROR_PIPE_CONNECTED).
PipeFails ==
    /\ host \in {"create", "connect"} /\ pipe # "client"
    /\ host' = "drop" /\ pipe' = "absent" /\ failed' = TRUE
    /\ UNCHANGED <<request, lifecycle, ipc, container, kickedAt, thread, clock>>

\* ConnectNamedPipe returns with a peer: connection_accepted.
Accept ==
    /\ host = "connect" /\ pipe \in {"client", "gone"}
    /\ host' = "hello"
    /\ UNCHANGED <<request, pipe, failed, lifecycle, ipc, container, kickedAt, thread, clock>>

\* The session ends before it is bound: a frame that is missing or refused, a
\* caller that is not verified. Writing the refusal may fail as well.
RefuseSession ==
    /\ host \in {"hello", "verify"}
    /\ host' = "close"
    /\ failed' \in (IF pipe = "client" THEN BOOLEAN ELSE {FALSE})
    /\ UNCHANGED <<request, pipe, lifecycle, ipc, container, kickedAt, thread, clock>>

\* begin_session: hello and answer; the nonces are those of IpcLimits.
BeginSession ==
    /\ host = "hello" /\ pipe = "client"
    /\ host' = "verify"
    /\ UNCHANGED <<request, pipe, failed, lifecycle, ipc, container, kickedAt, thread, clock>>

\* verify_connected_pipe_caller and complete_session.
CompleteSession ==
    /\ host = "verify" /\ pipe = "client"
    /\ host' = "serving" /\ session' = connection /\ handled' = 0
    /\ UNCHANGED <<request, pipe, failed, lifecycle, connection, container, kickedAt,
                   thread, clock>>

-----------------------------------------------------------------------------
(* The serving thread: requests. *)

\* A frame of the loop of handle_pipe_session. The checks of
\* dispatch_envelope on it have no state the threads share: a wrong sequence
\* number, a replayed id, a command of another class, a read over the rate and
\* an authorization that cannot be consumed are all answered with a refusal.
TakeRequest ==
    /\ host = "serving" /\ handled < MaxRequests
    /\ handled' = handled + 1
    /\ UNCHANGED <<connection, session>>

\* A refused request, and a read command: both are answered and change nothing.
AnswerOnly ==
    /\ TakeRequest
    /\ UNCHANGED <<request, pipe, host, failed, lifecycle, container, kickedAt, thread, clock>>

\* The commands of a session, once their authorization is consumed
\* (MutationAuthorization): those on the IP-helper provider and its schedule,
\* and "live" for the twelve of the ETW, DNS and remote-logon providers.
Commands == {"activate", "stop", "sample", "configure", "enable", "pause", "resume",
             "disable", "live"}

\* What a command does to the schedule, also when it ends in an error: published
\* says whether its first message was accepted.
Executed(s, command, published) ==
    CASE command \in {"activate", "sample", "live"} -> s
      [] command = "stop"      -> StopProvider(s)
      [] command = "configure" -> ConfigureSchedule(s)
      [] command = "enable"    -> IF MayEnable(s, helper)
                                  THEN StartSchedule(s, session, published) ELSE s
      [] command = "pause"     -> IF s.state = "ConfiguredEnabled" THEN PauseSchedule(s) ELSE s
      [] command = "resume"    -> IF MayResume(s, helper)
                                  THEN StartSchedule(s, session, published) ELSE s
      [] command = "disable"   -> DisableSchedule(s, published)

\* The commands that return an error: the bus refused one of their messages, or the
\* provider refused, or the provider or the schedule is not in the state the command
\* needs.
Fails(s, command, published) ==
    \/ ~published
    \/ command = "sample" /\ ~helper
    \/ command = "enable" /\ ~MayEnable(s, helper)
    \/ command = "resume" /\ ~MayResume(s, helper)
    \/ command = "pause" /\ s.state # "ConfiguredEnabled"

\* execute_ip_helper_mutation, execute_ip_helper_schedule_mutation and
\* execute_etw_mutation: without the lock nothing happens; enable and resume end
\* in the wake assist. On an error the handler asks for the provider's lifecycle
\* category, which takes the container's lock, and it holds that lock itself:
\* the thread waits for ever.
MutationCommand ==
    \E command \in Commands, first, published \in BOOLEAN :
        /\ TakeRequest /\ ~poisoned /\ (published => first)
        /\ schedule' = Executed(schedule, command, first)
        /\ helper' = IF command \in {"activate", "stop"} THEN command = "activate" ELSE helper
        /\ host' = IF Fails(schedule, command, published) THEN "stuck"
                   ELSE IF command \in {"enable", "resume"} THEN "kick" ELSE host
        /\ kickedAt' = IF host' = "kick" THEN clock ELSE 0
        /\ ran' = IF schedule'.lease # 0 /\ schedule.lease = 0 THEN NeverRan ELSE ran
        /\ UNCHANGED <<request, pipe, failed, lifecycle, poisoned, stages, writer,
                       ownership, thread, clock>>

\* A due cycle, run with the time the caller read before it had the lock.
Cycle(elapsed) ==
    IF ~poisoned /\ IsDue(schedule, elapsed)
    THEN \E outcome \in CycleOutcomes :
            /\ helper \/ outcome = "failed"
            /\ schedule' = AfterCycle(schedule, elapsed, outcome)
            /\ ran' = IF outcome = "completed"
                      THEN [lease |-> schedule.lease, at |-> elapsed] ELSE ran
    ELSE UNCHANGED <<schedule, ran>>

\* kick_due_ip_helper_scheduler_cycle: reads the time, then takes the lock.
KickCycle ==
    \E elapsed \in kickedAt..clock :
        /\ host = "kick" /\ Cycle(elapsed)
        /\ host' = "serving" /\ kickedAt' = 0
        /\ UNCHANGED <<request, pipe, failed, lifecycle, ipc, helper, poisoned, stages,
                       writer, ownership, thread, clock>>

\* The peer is gone, or MAX_REQUESTS_PER_SESSION frames have been read.
EndSession ==
    /\ host = "serving" /\ (pipe = "gone" \/ handled = MaxRequests)
    /\ host' = "close"
    /\ UNCHANGED <<request, pipe, failed, lifecycle, ipc, container, kickedAt, thread, clock>>

\* A frame that cannot be read, or a response that cannot be written: the
\* second makes run return the error after the connection is closed.
BreakSession ==
    /\ host = "serving" /\ pipe = "client"
    /\ host' = "close" /\ failed' \in BOOLEAN
    /\ UNCHANGED <<request, pipe, lifecycle, ipc, container, kickedAt, thread, clock>>

\* DisconnectNamedPipe, connection_closed, session_result?: the schedule's
\* lease ends with the session, unless the lock is unavailable.
CloseConnection ==
    /\ host = "close"
    /\ pipe' = "absent" /\ session' = 0 /\ handled' = 0
    /\ \E published \in BOOLEAN :
          schedule' = IF poisoned THEN schedule ELSE InvalidateForSessionEnd(schedule, published)
    /\ host' = IF failed THEN "drop" ELSE "loop"
    /\ UNCHANGED <<request, failed, lifecycle, connection, helper, ran, poisoned, stages,
                   writer, ownership, kickedAt, thread, clock>>

-----------------------------------------------------------------------------
(* The scheduler thread. *)

\* The end of a wait (a notification or the bounded timeout) and the loop test.
TimerChecks ==
    /\ timer = "idle"
    /\ timer' = IF timerStop \/ stop THEN "exited" ELSE "pass"
    /\ readAt' = IF timer' = "pass" THEN clock ELSE 0
    /\ UNCHANGED <<request, pipe, host, failed, lifecycle, ipc, container, kickedAt,
                   timerStop, clock>>

\* A pass under the container's lock; a poisoned lock is an idle pass.
TimerPass ==
    /\ timer = "pass" /\ ~Held /\ Cycle(readAt)
    /\ timer' = "idle" /\ readAt' = 0
    /\ UNCHANGED <<request, pipe, host, failed, lifecycle, ipc, helper, poisoned, stages,
                   writer, ownership, kickedAt, timerStop, clock>>

\* A panic under the lock poisons it.
TimerPanics ==
    /\ timer = "pass" /\ ~Held /\ ~poisoned
    /\ timer' = "panicked" /\ poisoned' = TRUE /\ readAt' = 0
    /\ UNCHANGED <<request, pipe, host, failed, lifecycle, ipc, schedule, helper, ran,
                   stages, writer, ownership, kickedAt, timerStop, clock>>

-----------------------------------------------------------------------------
(* The serving thread: the end of run. *)

\* stop_and_join: the flag and the notification; by run, or by Drop when run
\* left with an error.
SignalTimer ==
    /\ host \in {"join", "drop"} /\ ~timerStop
    /\ timerStop' = TRUE
    /\ UNCHANGED <<request, pipe, host, failed, lifecycle, ipc, container, kickedAt, timer,
                   readAt, clock>>

\* Mutant: the thread is told to stop and not joined.
DetachTimer ==
    /\ host = "join" /\ timerStop
    /\ host' = "take"
    /\ UNCHANGED <<request, pipe, failed, lifecycle, ipc, container, kickedAt, thread, clock>>

JoinTimer ==
    /\ host = "join" /\ timerStop /\ TimerGone
    /\ host' = "take"
    /\ UNCHANGED <<request, pipe, failed, lifecycle, ipc, container, kickedAt, thread, clock>>

\* take_runtime_container: the joined thread held the only other reference; the
\* container behind a poisoned lock is dropped and the shutdown fails.
TakeContainer ==
    /\ host = "take"
    /\ host' = IF poisoned THEN "drop" ELSE "stage"
    /\ failed' = poisoned /\ lifecycle' = IF poisoned THEN "Failed" ELSE "Stopping"
    /\ UNCHANGED <<request, pipe, ipc, container, kickedAt, thread, clock>>

\* The effect of a stage of shutdown_before_ipc_close and
\* complete_shutdown_after_ipc_close.
StageEffect(stage) ==
    /\ schedule' = IF stage = "RejectMutations"
                   THEN InvalidateForSessionEnd(schedule, TRUE) ELSE schedule
    /\ writer' = (writer /\ stage # "CloseStorageWriter")
    /\ ownership' = (ownership /\ stage # "ReleaseOwnershipGuard")

\* complete_shutdown_stage within its timeout; the last one ends run.
CompleteStage ==
    /\ host = "stage" /\ StageEffect(Stages[stages + 1])
    /\ stages' = stages + 1
    /\ host' = IF stages' = Len(Stages) THEN "drop" ELSE "stage"
    /\ lifecycle' = IF stages' = Len(Stages) THEN "Stopped" ELSE lifecycle
    /\ UNCHANGED <<request, pipe, failed, ipc, helper, ran, poisoned, kickedAt, thread, clock>>

\* A stage that timed out after its effect, or a provider runtime that could
\* not be joined before it (StopSamplers): the shutdown leaves with an error.
FailStage ==
    /\ host = "stage"
    /\ StageEffect(Stages[stages + 1])
    /\ host' = "drop" /\ failed' = TRUE /\ lifecycle' = "Failed"
    /\ UNCHANGED <<request, pipe, ipc, helper, ran, poisoned, stages, kickedAt, thread, clock>>

\* The values of run and of its caller are dropped: the scheduler thread is
\* joined, the container's leases release themselves.
DropRuntime ==
    /\ host = "drop" /\ timerStop /\ TimerGone
    /\ host' = "ended" /\ writer' = FALSE /\ ownership' = FALSE
    /\ UNCHANGED <<request, pipe, failed, lifecycle, ipc, schedule, helper, ran, poisoned,
                   stages, kickedAt, thread, clock>>

-----------------------------------------------------------------------------
Serve == \/ CheckStop \/ CreatePipe \/ Accept \/ KickCycle \/ EndSession
         \/ CloseConnection
Finish == SignalTimer \/ JoinTimer \/ TakeContainer \/ CompleteStage \/ DropRuntime
Converse == \/ BeginSession \/ CompleteSession \/ RefuseSession
            \/ AnswerOnly \/ MutationCommand
Faults == PipeFails \/ BreakSession \/ TimerPanics \/ FailStage
Environment == RequestStop \/ WakePipe \/ ClientConnects \/ ClientLeaves \/ Tick

Next == Serve \/ Finish \/ Converse \/ Faults \/ Environment \/ TimerChecks \/ TimerPass

Spec == Init /\ [][Next]_vars

\* The threads run, the requester does not stop half way, and a client does not
\* keep its connection for ever: ElevatedServiceIpcClient opens one for every
\* request and drops it with the answer. Nobody has to connect.
LosePeer == pipe = "gone" /\ RefuseSession
Fairness == /\ WF_vars(Serve) /\ WF_vars(Finish) /\ WF_vars(LosePeer)
            /\ WF_vars(TimerChecks) /\ WF_vars(TimerPass)
            /\ WF_vars(WakePipe) /\ WF_vars(ClientLeaves)
FairSpec == Spec /\ Fairness

-----------------------------------------------------------------------------
(* Properties. *)

\* The values every variable may take.
TypeOK ==
    /\ stop \in BOOLEAN /\ requester \in {"idle", "waking", "early", "done"}
    /\ pipe \in {"absent", "listening", "client", "gone"} /\ host \in HostPoints
    /\ failed \in BOOLEAN /\ lifecycle \in {"Running", "Stopping", "Stopped", "Failed"}
    /\ connection \in 0..MaxConnections /\ session \in 0..MaxConnections
    /\ handled \in 0..MaxRequests
    /\ schedule \in [state : ScheduleStates, lease : 0..MaxConnections, timer : BOOLEAN,
                     wake : BOOLEAN, due : NoDue..(MaxTime + Interval)]
    /\ ran \in [lease : 0..MaxConnections, at : 0..MaxTime]
    /\ helper \in BOOLEAN /\ kickedAt \in 0..MaxTime /\ readAt \in 0..MaxTime
    /\ timer \in {"idle", "pass", "exited", "panicked"}
    /\ timerStop \in BOOLEAN /\ poisoned \in BOOLEAN
    /\ stages \in 0..Len(Stages) /\ writer \in BOOLEAN /\ ownership \in BOOLEAN
    /\ clock \in 0..MaxTime

\* A host that reports Stopped ran every shutdown stage, with the scheduler
\* thread gone, no connection left, no schedule under a lease, and its storage
\* writer and ownership leases released; a host that is gone, however run
\* ended, has left no thread and no lease behind.
StoppedIsClean ==
    /\ lifecycle = "Stopped" =>
          /\ stages = Len(Stages) /\ ~failed
          /\ pipe = "absent" /\ session = 0 /\ ~Leased(schedule)
    /\ lifecycle = "Stopped" \/ host = "ended" => TimerGone /\ ~writer /\ ~ownership
    /\ host = "stage" => TimerGone

\* A cycle completes only in the IPC session whose command created the
\* schedule's lease, with the provider active and before the shutdown has begun,
\* and an interval after the last one of that lease, though the wake assist and
\* the scheduler thread both run cycles, each with a time it read before it had
\* the lock.
CyclesKeepLease ==
    [][ran' # ran /\ ran'.lease # 0 =>
          /\ ran'.lease = session /\ helper /\ stages = 0 /\ ownership
          /\ ran.lease # 0 => ran'.at >= ran.at + Interval]_vars

\* A stop request ends the host, with two exceptions: it came after the serving
\* thread read the flag and before it created the pipe, and the wake finds no
\* pipe and the host waits for the next client; or a command failed, and the
\* serving thread waits for a lock it holds.
StopEnds ==
    stop ~> \/ host = "ended" \/ Held
            \/ requester = "early" /\ host = "connect" /\ pipe = "listening"

\* The lease of a schedule ends when its client disconnects, while the
\* container's lock is not poisoned (connection_closed).
DisconnectEndsLease ==
    pipe = "gone" /\ Leased(schedule) ~> ~Leased(schedule) \/ poisoned

=============================================================================
