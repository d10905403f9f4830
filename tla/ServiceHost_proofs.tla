-------------------------- MODULE ServiceHost_proofs --------------------------
(***************************************************************************)
(* Proofs about the elevated service host, and below about the rate        *)
(* limiter and the replay cache of its dispatcher.                         *)
(*                                                                         *)
(* That a stopped host is clean and that cycles keep the lease of their    *)
(* session are facts about the ends of long chains of steps.  HostInv says *)
(* what links them: where the serving thread may stand with a connection   *)
(* and with a session (Connections), what the stages of a shutdown have    *)
(* done so far and that the scheduler thread is gone before the first of   *)
(* them (Shutdown), and that a schedule under a lease is the one of the    *)
(* session that is served, next due an interval after it last ran          *)
(* (Leases).  A poisoned lock freezes the schedule, lease and all, which   *)
(* is why the lease and the session are tied only while it is not.         *)
(***************************************************************************)
EXTENDS ServiceHost, IpcLimits, SequenceTheorems, FiniteSetTheorems, WellFoundedInduction, TLAPS

-----------------------------------------------------------------------------
(* The inductive invariant.                                                *)

\* Where the serving thread stands with a connection and with a session.
Connections ==
    /\ host \in {"loop", "create", "join", "take", "stage", "drop", "ended"} => pipe = "absent"
    /\ host \notin {"serving", "kick", "stuck", "close"} => session = 0
    /\ host \in {"serving", "kick", "stuck"} => session # 0
    /\ pipe = "client" => connection # 0

\* What the end of run has done so far.
Shutdown ==
    /\ host \notin {"stage", "drop", "ended"} => lifecycle = "Running" /\ stages = 0 /\ ownership
    /\ host = "stage" => lifecycle = "Stopping" /\ stages < Len(Stages) /\ ~failed /\ ~poisoned
    /\ lifecycle = "Stopped" =>
          host \in {"drop", "ended"} /\ stages = Len(Stages) /\ ~failed /\ ~poisoned
    /\ host \in {"take", "stage", "ended"} \/ lifecycle = "Stopped" => TimerGone
    /\ host = "ended" => ~writer /\ ~ownership
    /\ host = "stage" \/ lifecycle = "Stopped" =>
          (stages >= 15 => ~writer) /\ (stages >= 17 => ~ownership)

\* A lease is the one of the session that is served, and its next cycle is due an interval
\* after its last one.
Leases ==
    /\ schedule.state # "ConfiguredEnabled" => schedule.lease = 0
    /\ ~poisoned /\ Leased(schedule) => session # 0
    /\ ~poisoned /\ schedule.state = "ConfiguredEnabled" => schedule.lease = session
    /\ schedule.state = "ConfiguredEnabled" /\ ran.lease # 0 =>
          ~schedule.wake /\ schedule.due >= ran.at + Interval

HostInv == TypeOK /\ Connections /\ Shutdown /\ Leases

-----------------------------------------------------------------------------
(* The operations on the schedule.                                         *)

Schedules == [state : ScheduleStates, lease : 0..MaxConnections, timer : BOOLEAN,
              wake : BOOLEAN, due : NoDue..(MaxTime + Interval)]

\* update_schedule_status writes the state and the lease together.
LEMMA RecordedFacts ==
    ASSUME NEW s \in Schedules, NEW state \in ScheduleStates, NEW lease \in 0..MaxConnections
    PROVE  /\ Recorded(s, state, lease) \in Schedules
           /\ Recorded(s, state, lease).state = state /\ Recorded(s, state, lease).lease = lease
<1> DEFINE t == s.timer /\ state = "ConfiguredEnabled"
<1>1. Recorded(s, state, lease) = [s EXCEPT !.state = state, !.lease = lease, !.timer = t]
  BY DEF Recorded
<1>2. t \in BOOLEAN
  OBVIOUS
<1> HIDE DEF t
<1>3. /\ [s EXCEPT !.state = state, !.lease = lease, !.timer = t] \in Schedules
      /\ [s EXCEPT !.state = state, !.lease = lease, !.timer = t].state = state
      /\ [s EXCEPT !.state = state, !.lease = lease, !.timer = t].lease = lease
  BY <1>2 DEF Schedules
<1> QED
  BY <1>1, <1>3

\* The reset of the due time and the wake mark.
LEMMA UnscheduledFacts ==
    ASSUME NEW s \in Schedules
    PROVE  /\ Unscheduled(s) \in Schedules
           /\ Unscheduled(s).state = s.state /\ Unscheduled(s).lease = s.lease
<1>1. NoDue \in NoDue..(MaxTime + Interval)
  BY HostAssumption, IntervalAssumption DEF NoDue
<1> QED
  BY <1>1 DEF Unscheduled, Schedules

\* A schedule that is started has the lease of the session.
LEMMA StartFacts ==
    ASSUME NEW s \in Schedules, NEW c \in 0..MaxConnections, NEW published \in BOOLEAN
    PROVE  /\ StartSchedule(s, c, published) \in Schedules
           /\ StartSchedule(s, c, published).state = "ConfiguredEnabled"
           /\ StartSchedule(s, c, published).lease = c
<1> DEFINE r == Recorded(s, "ConfiguredEnabled", c)
<1>1. r \in Schedules /\ r.state = "ConfiguredEnabled" /\ r.lease = c
  BY RecordedFacts DEF ScheduleStates
<1> HIDE DEF r
<1>2. 0 \in NoDue..(MaxTime + Interval)
  BY HostAssumption, IntervalAssumption DEF NoDue
<1>3. /\ [r EXCEPT !.timer = TRUE, !.due = 0, !.wake = TRUE] \in Schedules
      /\ [r EXCEPT !.timer = TRUE, !.due = 0, !.wake = TRUE].state = r.state
      /\ [r EXCEPT !.timer = TRUE, !.due = 0, !.wake = TRUE].lease = r.lease
  BY <1>1, <1>2 DEF Schedules
<1>4. StartSchedule(s, c, published) =
        IF published THEN [r EXCEPT !.timer = TRUE, !.due = 0, !.wake = TRUE] ELSE r
  BY DEF StartSchedule, r
<1> QED
  BY <1>1, <1>3, <1>4

\* The other operations leave a schedule without a lease.
LEMMA EndFacts ==
    ASSUME NEW s \in Schedules, NEW published \in BOOLEAN,
           s.state # "ConfiguredEnabled" => s.lease = 0
    PROVE  \A r \in {ConfigureSchedule(s), DisableSchedule(s, published),
                     InvalidateForSessionEnd(s, published), StopProvider(s)} :
              r \in Schedules /\ r.lease = 0 /\ ~Leased(r)
<1>1. 0 \in 0..MaxConnections
  BY HostAssumption
<1> DEFINE cd == Recorded(s, "ConfiguredDisabled", 0)
           iv == Recorded(s, "Invalidated", 0)
<1>2. cd \in Schedules /\ cd.state = "ConfiguredDisabled" /\ cd.lease = 0
  BY <1>1, RecordedFacts DEF ScheduleStates
<1>3. iv \in Schedules /\ iv.state = "Invalidated" /\ iv.lease = 0
  BY <1>1, RecordedFacts DEF ScheduleStates
<1> HIDE DEF cd, iv
<1>4. /\ Unscheduled(cd) \in Schedules /\ Unscheduled(cd).state = "ConfiguredDisabled"
      /\ Unscheduled(cd).lease = 0
  BY <1>2, UnscheduledFacts
<1>5. /\ Unscheduled(iv) \in Schedules /\ Unscheduled(iv).state = "Invalidated"
      /\ Unscheduled(iv).lease = 0
  BY <1>3, UnscheduledFacts
<1>6. /\ Unscheduled(s) \in Schedules /\ Unscheduled(s).state = s.state
      /\ Unscheduled(s).lease = s.lease
  BY UnscheduledFacts
<1>7. /\ ConfigureSchedule(s) = cd
      /\ DisableSchedule(s, published) \in {cd, Unscheduled(cd)}
      /\ Leased(s) => InvalidateForSessionEnd(s, published) \in {iv, Unscheduled(iv)}
      /\ ~Leased(s) => InvalidateForSessionEnd(s, published) = Unscheduled(s)
      /\ Leased(s) => StopProvider(s) = Unscheduled(iv)
      /\ ~Leased(s) => StopProvider(s) = Unscheduled(s)
  BY DEF ConfigureSchedule, DisableSchedule, InvalidateForSessionEnd, StopProvider, cd, iv
<1>8. ~Leased(cd) /\ ~Leased(iv) /\ ~Leased(Unscheduled(cd)) /\ ~Leased(Unscheduled(iv))
  BY <1>2, <1>3, <1>4, <1>5 DEF Leased
<1>9. ~Leased(s) => ~Leased(Unscheduled(s)) /\ s.lease = 0
  BY <1>6 DEF Leased
<1> QED
  BY <1>2, <1>3, <1>4, <1>5, <1>6, <1>7, <1>8, <1>9

\* A paused schedule waits for its session without a lease.
LEMMA PauseFacts ==
    ASSUME NEW s \in Schedules
    PROVE  /\ PauseSchedule(s) \in Schedules /\ PauseSchedule(s).lease = 0
           /\ PauseSchedule(s).state = "Paused"
<1>1. 0 \in 0..MaxConnections
  BY HostAssumption
<1> DEFINE r == Recorded(s, "Paused", 0)
<1>2. r \in Schedules /\ r.state = "Paused" /\ r.lease = 0
  BY <1>1, RecordedFacts DEF ScheduleStates
<1> HIDE DEF r
<1>3. PauseSchedule(s) = Unscheduled(r)
  BY DEF PauseSchedule, r
<1> QED
  BY <1>2, <1>3, UnscheduledFacts

\* A cycle keeps the state and the lease; a completed one moves the due time.
LEMMA CycleFacts ==
    ASSUME NEW s \in Schedules, NEW elapsed \in 0..MaxTime, NEW outcome \in CycleOutcomes
    PROVE  LET r == AfterCycle(s, elapsed, outcome) IN
           /\ r \in Schedules /\ r.state = s.state /\ r.lease = s.lease
           /\ outcome = "completed" => ~r.wake /\ r.due = elapsed + Interval
           /\ outcome # "completed" => r.due = s.due /\ (r.wake => s.wake)
<1>1. elapsed + Interval \in NoDue..(MaxTime + Interval) /\ FALSE \in BOOLEAN
  BY HostAssumption, IntervalAssumption DEF NoDue
<1> DEFINE d == elapsed + Interval
<1>2. CASE outcome = "completed"
  <2>1. AfterCycle(s, elapsed, outcome) = [s EXCEPT !.wake = FALSE, !.due = d]
    BY <1>2 DEF AfterCycle
  <2> HIDE DEF d
  <2>2. d \in NoDue..(MaxTime + Interval)
    BY <1>1 DEF d
  <2>3. LET r == [s EXCEPT !.wake = FALSE, !.due = d] IN
        r \in Schedules /\ r.state = s.state /\ r.lease = s.lease /\ r.wake = FALSE /\ r.due = d
    BY <2>2 DEF Schedules
  <2> QED BY <1>2, <2>1, <2>3 DEF d
<1>3. CASE outcome = "failed"
  <2>1. AfterCycle(s, elapsed, outcome) = [s EXCEPT !.wake = FALSE]
    BY <1>3 DEF AfterCycle
  <2>2. LET r == [s EXCEPT !.wake = FALSE] IN
        r \in Schedules /\ r.state = s.state /\ r.lease = s.lease /\ r.wake = FALSE /\ r.due = s.due
    BY DEF Schedules
  <2> QED BY <1>3, <2>1, <2>2
<1>4. CASE outcome = "unpublished"
  BY <1>4 DEF AfterCycle
<1> QED
  BY <1>2, <1>3, <1>4 DEF CycleOutcomes

-----------------------------------------------------------------------------
(* The steps.                                                              *)

\* The stages that release a lease.
LEMMA StageFacts ==
    /\ Len(Stages) = 19
    /\ Stages[15] = "CloseStorageWriter" /\ Stages[17] = "ReleaseOwnershipGuard"
    /\ \A i \in 1..19 : Stages[i] = "RejectMutations" => i = 1
BY DEF Stages

\* The requester, the clients and the clock.
LEMMA EnvironmentKeepsInv ==
    ASSUME HostInv, Environment
    PROVE  HostInv'
<1>0. TypeOK /\ Connections /\ Shutdown /\ Leases
  BY DEF HostInv
<1>1. CASE RequestStop
  <2>1. TypeOK'
    BY <1>0, <1>1, StageFacts, HostAssumption DEF RequestStop, TypeOK, HostPoints, request, ipc, container, thread
  <2>2. Connections'
    BY <1>0, <1>1, HostAssumption DEF RequestStop, TypeOK, Connections, request, ipc, container, thread
  <2>3. Shutdown'
    BY <1>0, <1>1 DEF RequestStop, Shutdown, TimerGone, request, ipc, container, thread
  <2>4. Leases'
    BY <1>0, <1>1 DEF RequestStop, Connections, Leases, request, ipc, container, thread
  <2> QED BY <2>1, <2>2, <2>3, <2>4 DEF HostInv
<1>2. CASE WakePipe
  <2>1. TypeOK'
    BY <1>0, <1>2, StageFacts, HostAssumption DEF WakePipe, TypeOK, HostPoints, request, ipc, container, thread
  <2>2. Connections'
    BY <1>0, <1>2, HostAssumption DEF WakePipe, TypeOK, Connections, request, ipc, container, thread
  <2>3. Shutdown'
    BY <1>0, <1>2 DEF WakePipe, Shutdown, TimerGone, request, ipc, container, thread
  <2>4. Leases'
    BY <1>0, <1>2 DEF WakePipe, Connections, Leases, request, ipc, container, thread
  <2> QED BY <2>1, <2>2, <2>3, <2>4 DEF HostInv
<1>3. CASE ClientConnects
  <2>1. TypeOK'
    BY <1>0, <1>3, StageFacts, HostAssumption DEF ClientConnects, TypeOK, HostPoints, request, ipc, container, thread
  <2>2. Connections'
    BY <1>0, <1>3, HostAssumption DEF ClientConnects, TypeOK, Connections, request, ipc, container, thread
  <2>3. Shutdown'
    BY <1>0, <1>3 DEF ClientConnects, Shutdown, TimerGone, request, ipc, container, thread
  <2>4. Leases'
    BY <1>0, <1>3 DEF ClientConnects, Connections, Leases, request, ipc, container, thread
  <2> QED BY <2>1, <2>2, <2>3, <2>4 DEF HostInv
<1>4. CASE ClientLeaves
  <2>1. TypeOK'
    BY <1>0, <1>4, StageFacts, HostAssumption DEF ClientLeaves, TypeOK, HostPoints, request, ipc, container, thread
  <2>2. Connections'
    BY <1>0, <1>4, HostAssumption DEF ClientLeaves, TypeOK, Connections, request, ipc, container, thread
  <2>3. Shutdown'
    BY <1>0, <1>4 DEF ClientLeaves, Shutdown, TimerGone, request, ipc, container, thread
  <2>4. Leases'
    BY <1>0, <1>4 DEF ClientLeaves, Connections, Leases, request, ipc, container, thread
  <2> QED BY <2>1, <2>2, <2>3, <2>4 DEF HostInv
<1>5. CASE Tick
  <2>1. TypeOK'
    BY <1>0, <1>5, StageFacts, HostAssumption DEF Tick, TypeOK, HostPoints, request, ipc, container, thread
  <2>2. Connections'
    BY <1>0, <1>5, HostAssumption DEF Tick, TypeOK, Connections, request, ipc, container, thread
  <2>3. Shutdown'
    BY <1>0, <1>5 DEF Tick, Shutdown, TimerGone, request, ipc, container, thread
  <2>4. Leases'
    BY <1>0, <1>5 DEF Tick, Connections, Leases, request, ipc, container, thread
  <2> QED BY <2>1, <2>2, <2>3, <2>4 DEF HostInv
<1> QED
  BY <1>1, <1>2, <1>3, <1>4, <1>5 DEF Environment

\* The serving thread, where it leaves the container alone.
LEMMA ServingKeepsInv ==
    ASSUME HostInv, 
           CheckStop \/ CreatePipe \/ Accept \/ EndSession \/ BeginSession \/ CompleteSession
           \/ RefuseSession \/ AnswerOnly \/ PipeFails \/ BreakSession
    PROVE  HostInv'
<1>0. TypeOK /\ Connections /\ Shutdown /\ Leases
  BY DEF HostInv
<1>1. CASE CheckStop
  <2>1. TypeOK'
    BY <1>0, <1>1, StageFacts, HostAssumption DEF CheckStop, TypeOK, HostPoints, request, ipc, container, thread
  <2>2. Connections'
    BY <1>0, <1>1, HostAssumption DEF CheckStop, TypeOK, Connections, request, ipc, container, thread
  <2>3. Shutdown'
    BY <1>0, <1>1 DEF CheckStop, Shutdown, TimerGone, request, ipc, container, thread
  <2>4. Leases'
    BY <1>0, <1>1 DEF CheckStop, Connections, Leases, request, ipc, container, thread
  <2> QED BY <2>1, <2>2, <2>3, <2>4 DEF HostInv
<1>2. CASE CreatePipe
  <2>1. TypeOK'
    BY <1>0, <1>2, StageFacts, HostAssumption DEF CreatePipe, TypeOK, HostPoints, request, ipc, container, thread
  <2>2. Connections'
    BY <1>0, <1>2, HostAssumption DEF CreatePipe, TypeOK, Connections, request, ipc, container, thread
  <2>3. Shutdown'
    BY <1>0, <1>2 DEF CreatePipe, Shutdown, TimerGone, request, ipc, container, thread
  <2>4. Leases'
    BY <1>0, <1>2 DEF CreatePipe, Connections, Leases, request, ipc, container, thread
  <2> QED BY <2>1, <2>2, <2>3, <2>4 DEF HostInv
<1>3. CASE Accept
  <2>1. TypeOK'
    BY <1>0, <1>3, StageFacts, HostAssumption DEF Accept, TypeOK, HostPoints, request, ipc, container, thread
  <2>2. Connections'
    BY <1>0, <1>3, HostAssumption DEF Accept, TypeOK, Connections, request, ipc, container, thread
  <2>3. Shutdown'
    BY <1>0, <1>3 DEF Accept, Shutdown, TimerGone, request, ipc, container, thread
  <2>4. Leases'
    BY <1>0, <1>3 DEF Accept, Connections, Leases, request, ipc, container, thread
  <2> QED BY <2>1, <2>2, <2>3, <2>4 DEF HostInv
<1>4. CASE EndSession
  <2>1. TypeOK'
    BY <1>0, <1>4, StageFacts, HostAssumption DEF EndSession, TypeOK, HostPoints, request, ipc, container, thread
  <2>2. Connections'
    BY <1>0, <1>4, HostAssumption DEF EndSession, TypeOK, Connections, request, ipc, container, thread
  <2>3. Shutdown'
    BY <1>0, <1>4 DEF EndSession, Shutdown, TimerGone, request, ipc, container, thread
  <2>4. Leases'
    BY <1>0, <1>4 DEF EndSession, Connections, Leases, request, ipc, container, thread
  <2> QED BY <2>1, <2>2, <2>3, <2>4 DEF HostInv
<1>5. CASE BeginSession
  <2>1. TypeOK'
    BY <1>0, <1>5, StageFacts, HostAssumption DEF BeginSession, TypeOK, HostPoints, request, ipc, container, thread
  <2>2. Connections'
    BY <1>0, <1>5, HostAssumption DEF BeginSession, TypeOK, Connections, request, ipc, container, thread
  <2>3. Shutdown'
    BY <1>0, <1>5 DEF BeginSession, Shutdown, TimerGone, request, ipc, container, thread
  <2>4. Leases'
    BY <1>0, <1>5 DEF BeginSession, Connections, Leases, request, ipc, container, thread
  <2> QED BY <2>1, <2>2, <2>3, <2>4 DEF HostInv
<1>6. CASE CompleteSession
  <2>1. TypeOK'
    BY <1>0, <1>6, StageFacts, HostAssumption DEF CompleteSession, TypeOK, HostPoints, request, ipc, container, thread
  <2>2. Connections'
    BY <1>0, <1>6, HostAssumption DEF CompleteSession, TypeOK, Connections, request, ipc, container, thread
  <2>3. Shutdown'
    BY <1>0, <1>6 DEF CompleteSession, Shutdown, TimerGone, request, ipc, container, thread
  <2>4. Leases'
    BY <1>0, <1>6 DEF CompleteSession, Connections, Leases, Leased, request, ipc, container, thread
  <2> QED BY <2>1, <2>2, <2>3, <2>4 DEF HostInv
<1>7. CASE RefuseSession
  <2>1. TypeOK'
    <3>1. failed' \in BOOLEAN
      BY <1>7 DEF RefuseSession
    <3> QED BY <1>0, <1>7, <3>1 DEF RefuseSession, TypeOK, HostPoints, request, ipc, container, thread
  <2>2. Connections'
    BY <1>0, <1>7, HostAssumption DEF RefuseSession, TypeOK, Connections, request, ipc, container, thread
  <2>3. Shutdown'
    BY <1>0, <1>7 DEF RefuseSession, Shutdown, TimerGone, request, ipc, container, thread
  <2>4. Leases'
    BY <1>0, <1>7 DEF RefuseSession, Connections, Leases, request, ipc, container, thread
  <2> QED BY <2>1, <2>2, <2>3, <2>4 DEF HostInv
<1>8. CASE AnswerOnly
  <2>1. TypeOK'
    BY <1>0, <1>8, StageFacts, HostAssumption DEF AnswerOnly, TakeRequest, TypeOK, HostPoints, request, ipc, container, thread
  <2>2. Connections'
    BY <1>0, <1>8, HostAssumption DEF AnswerOnly, TakeRequest, TypeOK, Connections, request, ipc, container, thread
  <2>3. Shutdown'
    BY <1>0, <1>8 DEF AnswerOnly, TakeRequest, Shutdown, TimerGone, request, ipc, container, thread
  <2>4. Leases'
    BY <1>0, <1>8 DEF AnswerOnly, TakeRequest, Connections, Leases, request, ipc, container, thread
  <2> QED BY <2>1, <2>2, <2>3, <2>4 DEF HostInv
<1>9. CASE PipeFails
  <2>1. TypeOK'
    BY <1>0, <1>9, StageFacts, HostAssumption DEF PipeFails, TypeOK, HostPoints, request, ipc, container, thread
  <2>2. Connections'
    BY <1>0, <1>9, HostAssumption DEF PipeFails, TypeOK, Connections, request, ipc, container, thread
  <2>3. Shutdown'
    BY <1>0, <1>9 DEF PipeFails, Shutdown, TimerGone, request, ipc, container, thread
  <2>4. Leases'
    BY <1>0, <1>9 DEF PipeFails, Connections, Leases, request, ipc, container, thread
  <2> QED BY <2>1, <2>2, <2>3, <2>4 DEF HostInv
<1>10. CASE BreakSession
  <2>1. TypeOK'
    BY <1>0, <1>10, StageFacts, HostAssumption DEF BreakSession, TypeOK, HostPoints, request, ipc, container, thread
  <2>2. Connections'
    BY <1>0, <1>10, HostAssumption DEF BreakSession, TypeOK, Connections, request, ipc, container, thread
  <2>3. Shutdown'
    BY <1>0, <1>10 DEF BreakSession, Shutdown, TimerGone, request, ipc, container, thread
  <2>4. Leases'
    BY <1>0, <1>10 DEF BreakSession, Connections, Leases, request, ipc, container, thread
  <2> QED BY <2>1, <2>2, <2>3, <2>4 DEF HostInv
<1> QED
  BY <1>1, <1>2, <1>3, <1>4, <1>5, <1>6, <1>7, <1>8, <1>9, <1>10

\* The scheduler thread between two passes, and the end of run around the stages.
LEMMA ThreadsKeepInv ==
    ASSUME HostInv, 
           TimerChecks \/ TimerPanics \/ SignalTimer \/ JoinTimer \/ TakeContainer \/ DropRuntime
    PROVE  HostInv'
<1>0. TypeOK /\ Connections /\ Shutdown /\ Leases
  BY DEF HostInv
<1>1. CASE TimerChecks
  <2>1. TypeOK'
    BY <1>0, <1>1, StageFacts, HostAssumption DEF TimerChecks, TypeOK, HostPoints, request, ipc, container, thread
  <2>2. Connections'
    BY <1>0, <1>1, HostAssumption DEF TimerChecks, TypeOK, Connections, request, ipc, container, thread
  <2>3. Shutdown'
    BY <1>0, <1>1 DEF TimerChecks, Shutdown, TimerGone, request, ipc, container, thread
  <2>4. Leases'
    BY <1>0, <1>1 DEF TimerChecks, Connections, Leases, request, ipc, container, thread
  <2> QED BY <2>1, <2>2, <2>3, <2>4 DEF HostInv
<1>2. CASE TimerPanics
  <2>1. TypeOK'
    BY <1>0, <1>2, StageFacts, HostAssumption DEF TimerPanics, TypeOK, HostPoints, request, ipc, container, thread
  <2>2. Connections'
    BY <1>0, <1>2, HostAssumption DEF TimerPanics, TypeOK, Connections, request, ipc, container, thread
  <2>3. Shutdown'
    BY <1>0, <1>2 DEF TimerPanics, Shutdown, TimerGone, request, ipc, container, thread
  <2>4. Leases'
    BY <1>0, <1>2 DEF TimerPanics, Connections, Leases, request, ipc, container, thread
  <2> QED BY <2>1, <2>2, <2>3, <2>4 DEF HostInv
<1>3. CASE SignalTimer
  <2>1. TypeOK'
    BY <1>0, <1>3, StageFacts, HostAssumption DEF SignalTimer, TypeOK, HostPoints, request, ipc, container, thread
  <2>2. Connections'
    BY <1>0, <1>3, HostAssumption DEF SignalTimer, TypeOK, Connections, request, ipc, container, thread
  <2>3. Shutdown'
    BY <1>0, <1>3 DEF SignalTimer, Shutdown, TimerGone, request, ipc, container, thread
  <2>4. Leases'
    BY <1>0, <1>3 DEF SignalTimer, Connections, Leases, request, ipc, container, thread
  <2> QED BY <2>1, <2>2, <2>3, <2>4 DEF HostInv
<1>4. CASE JoinTimer
  <2>1. TypeOK'
    BY <1>0, <1>4, StageFacts, HostAssumption DEF JoinTimer, TypeOK, HostPoints, request, ipc, container, thread
  <2>2. Connections'
    BY <1>0, <1>4, HostAssumption DEF JoinTimer, TypeOK, Connections, request, ipc, container, thread
  <2>3. Shutdown'
    BY <1>0, <1>4 DEF JoinTimer, Shutdown, TimerGone, request, ipc, container, thread
  <2>4. Leases'
    BY <1>0, <1>4 DEF JoinTimer, Connections, Leases, request, ipc, container, thread
  <2> QED BY <2>1, <2>2, <2>3, <2>4 DEF HostInv
<1>5. CASE TakeContainer
  <2>1. TypeOK'
    BY <1>0, <1>5, StageFacts, HostAssumption DEF TakeContainer, TypeOK, HostPoints, request, ipc, container, thread
  <2>2. Connections'
    BY <1>0, <1>5, HostAssumption DEF TakeContainer, TypeOK, Connections, request, ipc, container, thread
  <2>3. Shutdown'
    BY <1>0, <1>5, StageFacts DEF TakeContainer, TypeOK, Shutdown, TimerGone, request, ipc, container, thread
  <2>4. Leases'
    BY <1>0, <1>5 DEF TakeContainer, Connections, Leases, request, ipc, container, thread
  <2> QED BY <2>1, <2>2, <2>3, <2>4 DEF HostInv
<1>6. CASE DropRuntime
  <2>1. TypeOK'
    <3>1. writer' \in BOOLEAN /\ ownership' \in BOOLEAN /\ host' \in HostPoints
      BY <1>6 DEF DropRuntime, HostPoints
    <3> QED BY <1>0, <1>6, <3>1 DEF DropRuntime, TypeOK, request, ipc, thread
  <2>2. Connections'
    BY <1>0, <1>6, HostAssumption DEF DropRuntime, TypeOK, Connections, request, ipc, container, thread
  <2>3. Shutdown'
    BY <1>0, <1>6 DEF DropRuntime, Shutdown, TimerGone, request, ipc, container, thread
  <2>4. Leases'
    BY <1>0, <1>6 DEF DropRuntime, Connections, Leases, request, ipc, container, thread
  <2> QED BY <2>1, <2>2, <2>3, <2>4 DEF HostInv
<1> QED
  BY <1>1, <1>2, <1>3, <1>4, <1>5, <1>6

\* What a command makes of the schedule: nothing, a schedule without a lease, or one that
\* starts under the lease of the session.
LEMMA ExecutedFacts ==
    ASSUME NEW s \in Schedules, NEW command \in Commands, NEW published \in BOOLEAN,
           session \in 0..MaxConnections, s.state # "ConfiguredEnabled" => s.lease = 0
    PROVE  LET r == Executed(s, command, published) IN
           /\ r \in Schedules
           /\ \/ r = s
              \/ r.lease = 0 /\ r.state # "ConfiguredEnabled"
              \/ r.lease = session /\ r.state = "ConfiguredEnabled" /\ s.lease = 0
<1> DEFINE r == Executed(s, command, published)
<1>1. CASE command \in {"activate", "sample", "live"}
  BY <1>1 DEF Executed
<1>2. CASE command \in {"stop", "configure", "disable"}
  <2>1. r \in {ConfigureSchedule(s), DisableSchedule(s, published),
               InvalidateForSessionEnd(s, published), StopProvider(s)}
    BY <1>2 DEF Executed
  <2>2. r \in Schedules /\ r.lease = 0 /\ ~Leased(r)
    BY <2>1, EndFacts
  <2> QED BY <2>2 DEF Leased
<1>3. CASE command = "pause"
  <2>1. r = IF s.state = "ConfiguredEnabled" THEN PauseSchedule(s) ELSE s
    BY <1>3 DEF Executed
  <2> QED BY <2>1, PauseFacts
<1>4. CASE command \in {"enable", "resume"}
  <2>1. \/ r = s
        \/ /\ r = StartSchedule(s, session, published)
           /\ s.state \in {"ConfiguredDisabled", "Paused"}
    BY <1>4 DEF Executed, MayEnable, MayResume
  <2>2. /\ StartSchedule(s, session, published) \in Schedules
        /\ StartSchedule(s, session, published).state = "ConfiguredEnabled"
        /\ StartSchedule(s, session, published).lease = session
    BY StartFacts
  <2> QED BY <2>1, <2>2
<1> QED
  BY <1>1, <1>2, <1>3, <1>4 DEF Commands

\* A command on the provider or its schedule, its wake assist and its error path.
LEMMA MutationKeepsInv ==
    ASSUME HostInv, MutationCommand
    PROVE  HostInv'
<1>0. TypeOK /\ Connections /\ Shutdown /\ Leases
  BY DEF HostInv
<1>1. PICK command \in Commands, first \in BOOLEAN, published \in BOOLEAN :
        /\ TakeRequest /\ ~poisoned /\ (published => first)
        /\ schedule' = Executed(schedule, command, first)
        /\ helper' = IF command \in {"activate", "stop"} THEN command = "activate" ELSE helper
        /\ host' = IF Fails(schedule, command, published) THEN "stuck"
                   ELSE IF command \in {"enable", "resume"} THEN "kick" ELSE host
        /\ kickedAt' = IF host' = "kick" THEN clock ELSE 0
        /\ ran' = IF schedule'.lease # 0 /\ schedule.lease = 0 THEN NeverRan ELSE ran
        /\ UNCHANGED <<request, pipe, failed, lifecycle, poisoned, stages, writer,
                       ownership, thread, clock>>
  BY Zenon DEF MutationCommand
<1>2. /\ host = "serving" /\ ~poisoned /\ host' \in {"serving", "kick", "stuck"}
      /\ handled < MaxRequests /\ handled' = handled + 1
      /\ UNCHANGED <<stop, requester, pipe, failed, lifecycle, connection, session, poisoned, stages,
                     writer, ownership, timer, readAt, timerStop, clock>>
  BY <1>1 DEF TakeRequest, request, thread
<1>3. schedule \in Schedules /\ session \in 0..MaxConnections /\ session # 0
  BY <1>0, <1>2 DEF TypeOK, Schedules, Connections
<1>4. schedule.state # "ConfiguredEnabled" => schedule.lease = 0
  BY <1>0 DEF Leases
<1>5. /\ schedule' \in Schedules
      /\ \/ schedule' = schedule
         \/ schedule'.lease = 0 /\ schedule'.state # "ConfiguredEnabled"
         \/ schedule'.lease = session /\ schedule'.state = "ConfiguredEnabled" /\ schedule.lease = 0
  BY <1>1, <1>3, <1>4, ExecutedFacts
<1>6. ran' = IF schedule'.lease # 0 /\ schedule.lease = 0 THEN NeverRan ELSE ran
  BY <1>1
<1>7. TypeOK'
  <2>1. helper' \in BOOLEAN /\ kickedAt' \in 0..MaxTime
    <3>1. helper' \in BOOLEAN
      BY <1>0, <1>1 DEF TypeOK
    <3>2. clock \in 0..MaxTime /\ 0 \in 0..MaxTime
      BY <1>0, HostAssumption DEF TypeOK
    <3> QED BY <1>1, <3>1, <3>2
  <2>2. ran' \in [lease : 0..MaxConnections, at : 0..MaxTime]
    BY <1>0, <1>6, HostAssumption DEF TypeOK, NeverRan
  <2>3. handled' \in 0..MaxRequests
    BY <1>0, <1>2, HostAssumption DEF TypeOK
  <2> QED BY <1>0, <1>2, <1>5, <2>1, <2>2, <2>3 DEF TypeOK, Schedules, HostPoints
<1>8. Connections'
  BY <1>0, <1>2 DEF Connections
<1>9. Shutdown'
  BY <1>0, <1>2 DEF Shutdown, TimerGone
<1>10. Leases'
  <2>1. NeverRan.lease = 0
    BY DEF NeverRan
  <2>2. CASE schedule' = schedule
    <3>1. ran' = ran
      BY <1>6, <2>2
    <3> QED BY <1>0, <1>2, <2>2, <3>1 DEF Leases
  <2>3. CASE schedule'.lease = 0 /\ schedule'.state # "ConfiguredEnabled"
    BY <1>2, <1>3, <2>3 DEF Leases
  <2>4. CASE schedule'.lease = session /\ schedule'.state = "ConfiguredEnabled" /\ schedule.lease = 0
    <3>1. ran'.lease = 0
      BY <1>3, <1>6, <2>1, <2>4
    <3> QED BY <1>2, <1>3, <2>4, <3>1 DEF Leases
  <2> QED BY <1>5, <2>2, <2>3, <2>4
<1> QED
  BY <1>7, <1>8, <1>9, <1>10 DEF HostInv

\* A cycle of either thread, with the time that thread has read.
LEMMA CycleStep ==
    ASSUME HostInv, NEW elapsed \in 0..MaxTime, Cycle(elapsed), UNCHANGED <<session, poisoned>>
    PROVE  /\ schedule' \in Schedules
           /\ ran' \in [lease : 0..MaxConnections, at : 0..MaxTime]
           /\ Leases'
           /\ ran' # ran => /\ ran'.lease = session /\ session # 0 /\ helper
                            /\ ran.lease # 0 => ran'.at >= ran.at + Interval
<1>0. TypeOK /\ Leases
  BY DEF HostInv
<1>1. /\ schedule \in Schedules /\ schedule.due \in Int /\ Interval \in Nat /\ elapsed \in Nat
      /\ ran \in [lease : 0..MaxConnections, at : 0..MaxTime] /\ ran.at \in Nat
  BY <1>0, IntervalAssumption, HostAssumption DEF TypeOK, Schedules, NoDue
<1>2. CASE ~(~poisoned /\ IsDue(schedule, elapsed))
  <2>1. UNCHANGED <<schedule, ran>>
    BY <1>2 DEF Cycle
  <2> QED BY <1>0, <1>1, <2>1 DEF Leases
<1>3. CASE ~poisoned /\ IsDue(schedule, elapsed)
  <2>1. PICK outcome \in CycleOutcomes :
          /\ helper \/ outcome = "failed"
          /\ schedule' = AfterCycle(schedule, elapsed, outcome)
          /\ ran' = IF outcome = "completed"
                    THEN [lease |-> schedule.lease, at |-> elapsed] ELSE ran
    BY <1>3 DEF Cycle
  <2>2. /\ schedule.state = "ConfiguredEnabled" /\ (schedule.wake \/ schedule.due <= elapsed)
        /\ schedule.lease = session /\ session # 0
    BY <1>0, <1>3 DEF IsDue, Leases, Leased
  <2>3. /\ schedule' \in Schedules /\ schedule'.state = schedule.state
        /\ schedule'.lease = schedule.lease
        /\ outcome = "completed" => ~schedule'.wake /\ schedule'.due = elapsed + Interval
        /\ outcome # "completed" => schedule'.due = schedule.due /\ (schedule'.wake => schedule.wake)
    BY <1>1, <2>1, CycleFacts
  <2>4. ran.lease # 0 => ~schedule.wake /\ schedule.due >= ran.at + Interval
    BY <1>0, <2>2 DEF Leases
  <2>5. CASE outcome = "completed"
    <3>1. /\ ran' = [lease |-> schedule.lease, at |-> elapsed] /\ helper
          /\ ran'.lease = session /\ ran'.at = elapsed
      BY <2>1, <2>2, <2>5
    <3>2. ran' \in [lease : 0..MaxConnections, at : 0..MaxTime]
      BY <1>1, <3>1 DEF Schedules
    <3>3. ran.lease # 0 => elapsed >= ran.at + Interval
      BY <1>1, <2>2, <2>4
    <3>4. schedule'.due >= ran'.at + Interval /\ ~schedule'.wake
      BY <1>1, <2>3, <2>5, <3>1
    <3>5. Leases'
      BY <2>2, <2>3, <3>4 DEF Leases
    <3> QED BY <2>2, <2>3, <3>1, <3>2, <3>3, <3>5
  <2>6. CASE outcome # "completed"
    <3>1. ran' = ran
      BY <2>1, <2>6
    <3>2. Leases'
      BY <2>2, <2>3, <2>4, <2>6, <3>1 DEF Leases
    <3> QED BY <1>1, <2>3, <3>1, <3>2
  <2> QED BY <2>5, <2>6
<1> QED
  BY <1>2, <1>3

\* The wake assist of the serving thread and the pass of the scheduler thread.
LEMMA CyclesKeepInv ==
    ASSUME HostInv, KickCycle \/ TimerPass
    PROVE  /\ HostInv'
           /\ ran' # ran => /\ ran'.lease = session /\ session # 0 /\ helper
                            /\ ran.lease # 0 => ran'.at >= ran.at + Interval
<1>0. TypeOK /\ Connections /\ Shutdown /\ Leases
  BY DEF HostInv
<1>1. CASE KickCycle
  <2>1. PICK elapsed \in kickedAt..clock :
          /\ host = "kick" /\ Cycle(elapsed)
          /\ host' = "serving" /\ kickedAt' = 0
          /\ UNCHANGED <<request, pipe, failed, lifecycle, ipc, helper, poisoned, stages,
                         writer, ownership, thread, clock>>
    BY <1>1 DEF KickCycle
  <2>2. /\ host = "kick" /\ host' = "serving" /\ kickedAt' = 0
        /\ UNCHANGED <<stop, requester, pipe, failed, lifecycle, connection, session, handled, helper,
                       poisoned, stages, writer, ownership, timer, readAt, timerStop, clock>>
    BY <2>1 DEF request, ipc, thread
  <2>3. elapsed \in 0..MaxTime
    BY <1>0, <2>1, HostAssumption DEF TypeOK
  <2>4. Cycle(elapsed) /\ UNCHANGED <<session, poisoned>>
    BY <2>1, <2>2
  <2>5. /\ schedule' \in Schedules
        /\ ran' \in [lease : 0..MaxConnections, at : 0..MaxTime]
        /\ Leases'
        /\ ran' # ran => /\ ran'.lease = session /\ session # 0 /\ helper
                         /\ ran.lease # 0 => ran'.at >= ran.at + Interval
    BY <2>3, <2>4, CycleStep
  <2>6. TypeOK'
    BY <1>0, <2>2, <2>5, HostAssumption DEF TypeOK, Schedules, HostPoints
  <2>7. Connections' /\ Shutdown'
    BY <1>0, <2>2 DEF Connections, Shutdown, TimerGone
  <2> QED BY <2>5, <2>6, <2>7 DEF HostInv
<1>2. CASE TimerPass
  <2>1. /\ timer = "pass" /\ Cycle(readAt) /\ timer' = "idle" /\ readAt' = 0
        /\ UNCHANGED <<stop, requester, pipe, host, failed, lifecycle, connection, session, handled,
                       helper, poisoned, stages, writer, ownership, kickedAt, timerStop, clock>>
    BY <1>2 DEF TimerPass, request, ipc
  <2>2. readAt \in 0..MaxTime
    BY <1>0 DEF TypeOK
  <2>3. /\ schedule' \in Schedules
        /\ ran' \in [lease : 0..MaxConnections, at : 0..MaxTime]
        /\ Leases'
        /\ ran' # ran => /\ ran'.lease = session /\ session # 0 /\ helper
                         /\ ran.lease # 0 => ran'.at >= ran.at + Interval
    BY <2>1, <2>2, CycleStep
  <2>4. TypeOK'
    BY <1>0, <2>1, <2>3, HostAssumption DEF TypeOK, Schedules
  <2>5. Connections' /\ Shutdown'
    BY <1>0, <2>1 DEF Connections, Shutdown, TimerGone
  <2> QED BY <2>3, <2>4, <2>5 DEF HostInv
<1> QED
  BY <1>1, <1>2

\* connection_closed ends the lease with the session, unless the lock is poisoned.
LEMMA CloseKeepsInv ==
    ASSUME HostInv, CloseConnection
    PROVE  HostInv'
<1>0. TypeOK /\ Connections /\ Shutdown /\ Leases
  BY DEF HostInv
<1>1. /\ host = "close" /\ pipe' = "absent" /\ session' = 0 /\ handled' = 0
      /\ host' \in {"loop", "drop"} /\ (host' = "drop" => failed)
      /\ UNCHANGED <<stop, requester, failed, lifecycle, connection, helper, ran, poisoned, stages,
                     writer, ownership, kickedAt, timer, readAt, timerStop, clock>>
  BY DEF CloseConnection, request, thread
<1>2. PICK published \in BOOLEAN :
        schedule' = IF poisoned THEN schedule ELSE InvalidateForSessionEnd(schedule, published)
  BY DEF CloseConnection
<1>3. schedule \in Schedules /\ (schedule.state # "ConfiguredEnabled" => schedule.lease = 0)
  BY <1>0 DEF TypeOK, Schedules, Leases
<1>4. LET r == InvalidateForSessionEnd(schedule, published) IN
      r \in Schedules /\ r.lease = 0 /\ ~Leased(r)
  BY <1>3, EndFacts
<1>5. TypeOK'
  BY <1>0, <1>1, <1>2, <1>3, <1>4, HostAssumption DEF TypeOK, Schedules, HostPoints
<1>6. Connections' /\ Shutdown'
  BY <1>0, <1>1 DEF Connections, Shutdown, TimerGone
<1>7. Leases'
  <2>1. CASE poisoned
    BY <1>0, <1>1, <1>2, <2>1 DEF Leases
  <2>2. CASE ~poisoned
    <3>1. schedule'.lease = 0 /\ ~Leased(schedule') /\ schedule'.state # "ConfiguredEnabled"
      BY <1>2, <1>4, <2>2 DEF Leased
    <3> QED BY <3>1 DEF Leases
  <2> QED BY <2>1, <2>2
<1> QED
  BY <1>5, <1>6, <1>7 DEF HostInv

\* A shutdown stage, completed or timed out.
LEMMA StagesKeepInv ==
    ASSUME HostInv, CompleteStage \/ FailStage
    PROVE  HostInv'
<1>0. TypeOK /\ Connections /\ Shutdown /\ Leases
  BY DEF HostInv
<1> DEFINE stage == Stages[stages + 1]
<1>1. /\ host = "stage" /\ StageEffect(stage)
      /\ UNCHANGED <<stop, requester, pipe, connection, session, handled, helper, ran, poisoned,
                     kickedAt, timer, readAt, timerStop, clock>>
  BY DEF CompleteStage, FailStage, request, ipc, thread
<1>2. /\ lifecycle = "Stopping" /\ stages \in 0..18 /\ ~failed /\ ~poisoned /\ TimerGone
      /\ pipe = "absent" /\ session = 0
      /\ (stages >= 15 => ~writer) /\ (stages >= 17 => ~ownership)
      /\ writer \in BOOLEAN /\ ownership \in BOOLEAN
  BY <1>0, <1>1, StageFacts DEF TypeOK, Connections, Shutdown
<1>3. schedule \in Schedules /\ schedule.lease = 0 /\ ~Leased(schedule)
  BY <1>0, <1>2 DEF TypeOK, Schedules, Leases, Leased
<1>4. schedule' \in Schedules /\ schedule'.lease = 0 /\ ~Leased(schedule')
  <2>1. LET r == InvalidateForSessionEnd(schedule, TRUE) IN
        r \in Schedules /\ r.lease = 0 /\ ~Leased(r)
    BY <1>3, EndFacts
  <2>2. schedule' \in {schedule, InvalidateForSessionEnd(schedule, TRUE)}
    BY <1>1 DEF StageEffect
  <2> QED BY <1>3, <2>1, <2>2
<1>5. /\ writer' = (writer /\ stage # "CloseStorageWriter")
      /\ ownership' = (ownership /\ stage # "ReleaseOwnershipGuard")
  BY <1>1 DEF StageEffect
<1>6. writer' \in BOOLEAN /\ ownership' \in BOOLEAN
  BY <1>5
<1>7. stages + 1 >= 15 => ~writer'
  <2>1. stages = 14 => stage = "CloseStorageWriter"
    BY StageFacts
  <2>2. stages + 1 >= 15 => stages = 14 \/ stages >= 15
    BY <1>2
  <2> QED BY <1>2, <1>5, <2>1, <2>2
<1>8. stages + 1 >= 17 => ~ownership'
  <2>1. stages = 16 => stage = "ReleaseOwnershipGuard"
    BY StageFacts
  <2>2. stages + 1 >= 17 => stages = 16 \/ stages >= 17
    BY <1>2
  <2> QED BY <1>2, <1>5, <2>1, <2>2
<1> HIDE DEF stage
<1>9. Leases'
  BY <1>0, <1>1, <1>4 DEF Leases, Leased
<1>10. CASE CompleteStage
  <2>1. /\ stages' = stages + 1 /\ failed' = failed
        /\ host' = IF stages' = 19 THEN "drop" ELSE "stage"
        /\ lifecycle' = IF stages' = 19 THEN "Stopped" ELSE lifecycle
    BY <1>10, StageFacts DEF CompleteStage
  <2>2. stages' \in 0..19
    BY <1>2, <2>1
  <2>3. TypeOK'
    BY <1>0, <1>1, <1>2, <1>4, <1>6, <2>1, <2>2, StageFacts DEF TypeOK, Schedules, HostPoints
  <2>4. Connections'
    BY <1>1, <1>2, <2>1 DEF Connections
  <2>5. Shutdown'
    BY <1>1, <1>2, <1>7, <1>8, <2>1, <2>2, StageFacts DEF Shutdown, TimerGone
  <2> QED BY <1>9, <2>3, <2>4, <2>5 DEF HostInv
<1>11. CASE FailStage
  <2>1. host' = "drop" /\ failed' = TRUE /\ lifecycle' = "Failed" /\ stages' = stages
    BY <1>11 DEF FailStage
  <2>2. TypeOK'
    BY <1>0, <1>1, <1>2, <1>4, <1>6, <2>1, StageFacts DEF TypeOK, Schedules, HostPoints
  <2>3. Connections' /\ Shutdown'
    BY <1>1, <1>2, <2>1 DEF Connections, Shutdown
  <2> QED BY <1>9, <2>2, <2>3 DEF HostInv
<1> QED
  BY <1>10, <1>11

\* Every step keeps the invariant, and only cycles and commands touch the history of cycles.
LEMMA HostStep ==
    ASSUME HostInv, [Next]_vars
    PROVE  /\ HostInv'
           /\ ran' # ran /\ ran'.lease # 0 =>
                 /\ ran'.lease = session /\ session # 0 /\ helper
                 /\ ran.lease # 0 => ran'.at >= ran.at + Interval
<1>1. CASE Environment
  <2>1. UNCHANGED ran
    BY <1>1 DEF Environment, RequestStop, WakePipe, ClientConnects, ClientLeaves, Tick, container
  <2> QED BY <1>1, <2>1, EnvironmentKeepsInv
<1>2. CASE CheckStop \/ CreatePipe \/ Accept \/ EndSession \/ BeginSession \/ CompleteSession
           \/ RefuseSession \/ AnswerOnly \/ PipeFails \/ BreakSession
  <2>1. UNCHANGED ran
    BY <1>2 DEF CheckStop, CreatePipe, Accept, EndSession, BeginSession, CompleteSession,
                RefuseSession, AnswerOnly, PipeFails, BreakSession, container
  <2> QED BY <1>2, <2>1, ServingKeepsInv
<1>3. CASE TimerChecks \/ TimerPanics \/ SignalTimer \/ JoinTimer \/ TakeContainer \/ DropRuntime
  <2>1. UNCHANGED ran
    BY <1>3 DEF TimerChecks, TimerPanics, SignalTimer, JoinTimer, TakeContainer, DropRuntime, container
  <2> QED BY <1>3, <2>1, ThreadsKeepInv
<1>4. CASE MutationCommand
  <2>1. ran' = ran \/ ran' = NeverRan
    BY <1>4 DEF MutationCommand
  <2>2. ran' # ran => ran'.lease = 0
    BY <2>1 DEF NeverRan
  <2> QED BY <1>4, <2>2, MutationKeepsInv
<1>5. CASE KickCycle \/ TimerPass
  BY <1>5, CyclesKeepInv
<1>6. CASE CloseConnection
  <2>1. UNCHANGED ran
    BY <1>6 DEF CloseConnection
  <2> QED BY <1>6, <2>1, CloseKeepsInv
<1>7. CASE CompleteStage \/ FailStage
  <2>1. UNCHANGED ran
    BY <1>7 DEF CompleteStage, FailStage
  <2> QED BY <1>7, <2>1, StagesKeepInv
<1>8. CASE UNCHANGED vars
  <2>1. UNCHANGED <<stop, requester, pipe, host, failed, lifecycle, connection, session, handled,
                    schedule, helper, ran, poisoned, stages, writer, ownership, kickedAt, timer,
                    readAt, timerStop, clock>>
    BY <1>8 DEF vars, request, ipc, container, thread
  <2>2. TypeOK'
    BY <2>1 DEF HostInv, TypeOK
  <2>3. Connections' /\ Shutdown'
    BY <2>1 DEF HostInv, Connections, Shutdown, TimerGone
  <2>4. Leases'
    BY <2>1 DEF HostInv, Leases
  <2> QED BY <2>1, <2>2, <2>3, <2>4 DEF HostInv
<1> QED
  BY <1>1, <1>2, <1>3, <1>4, <1>5, <1>6, <1>7, <1>8
  DEF Next, Serve, Finish, Converse, Faults, Environment

-----------------------------------------------------------------------------
(* The theorems.                                                           *)

\* What the threads of the host rely on, for any number of connections, requests and ticks.
THEOREM HostInvariant == Spec => []HostInv
<1>1. Init => HostInv
  <2> SUFFICES ASSUME Init PROVE HostInv
    OBVIOUS
  <2>1. /\ NewSchedule.state = "NotConfigured" /\ NewSchedule.lease = 0
        /\ NewSchedule \in [state : ScheduleStates, lease : 0..MaxConnections, timer : BOOLEAN,
                            wake : BOOLEAN, due : NoDue..(MaxTime + Interval)]
    BY HostAssumption, IntervalAssumption DEF NewSchedule, ScheduleStates, NoDue
  <2>2. NeverRan \in [lease : 0..MaxConnections, at : 0..MaxTime] /\ NeverRan.lease = 0
    BY HostAssumption DEF NeverRan
  <2>3. TypeOK
    <3>1. 0 \in 0..MaxConnections /\ 0 \in 0..MaxRequests /\ 0 \in 0..MaxTime /\ 0 \in 0..Len(Stages)
      BY HostAssumption, StageFacts
    <3>2. /\ schedule \in [state : ScheduleStates, lease : 0..MaxConnections, timer : BOOLEAN,
                           wake : BOOLEAN, due : NoDue..(MaxTime + Interval)]
          /\ ran \in [lease : 0..MaxConnections, at : 0..MaxTime]
      BY <2>1, <2>2 DEF Init
    <3>3. /\ requester = "idle" /\ pipe = "absent" /\ host = "loop" /\ lifecycle = "Running"
          /\ connection = 0 /\ session = 0 /\ handled = 0 /\ kickedAt = 0 /\ readAt = 0
          /\ timer = "idle" /\ stages = 0 /\ clock = 0
          /\ stop \in BOOLEAN /\ failed \in BOOLEAN /\ helper \in BOOLEAN /\ timerStop \in BOOLEAN
          /\ poisoned \in BOOLEAN /\ writer \in BOOLEAN /\ ownership \in BOOLEAN
      BY DEF Init
    <3> QED BY <3>1, <3>2, <3>3, Zenon DEF TypeOK, HostPoints
  <2>4. Connections /\ Shutdown
    BY DEF Init, Connections, Shutdown
  <2>5. Leases
    BY <2>1, <2>2 DEF Init, Leases, Leased
  <2> QED BY <2>3, <2>4, <2>5 DEF HostInv
<1>2. HostInv /\ [Next]_vars => HostInv'
  BY HostStep
<1> QED
  BY <1>1, <1>2, PTL DEF Spec

\* Every variable of the host keeps its type.
THEOREM HostTypesKept == Spec => []TypeOK
<1>1. HostInv => TypeOK
  BY DEF HostInv
<1> QED
  BY <1>1, HostInvariant, PTL

\* A host that reports Stopped has run every stage with the scheduler thread gone and has left
\* no connection and no lease; a host that is gone has left no thread and no lease, however run
\* ended (run, shutdown_before_ipc_close, Drop).
THEOREM HostStopsClean == Spec => []StoppedIsClean
<1>1. HostInv => StoppedIsClean
  <2> SUFFICES ASSUME HostInv PROVE StoppedIsClean
    OBVIOUS
  <2>1. Connections /\ Shutdown /\ Leases
    BY DEF HostInv
  <2>2. ASSUME lifecycle = "Stopped"
        PROVE  /\ stages = Len(Stages) /\ ~failed /\ TimerGone /\ ~writer /\ ~ownership
               /\ pipe = "absent" /\ session = 0 /\ ~Leased(schedule)
    <3>1. /\ host \in {"drop", "ended"} /\ stages = 19 /\ ~failed /\ ~poisoned /\ TimerGone
          /\ stages = Len(Stages)
      BY <2>1, <2>2, StageFacts DEF Shutdown
    <3>2. ~writer /\ ~ownership
      BY <2>1, <2>2, <3>1 DEF Shutdown
    <3>3. pipe = "absent" /\ session = 0
      BY <2>1, <3>1 DEF Connections
    <3>4. ~Leased(schedule)
      BY <2>1, <3>1, <3>3 DEF Leases
    <3> QED BY <3>1, <3>2, <3>3, <3>4
  <2>3. /\ host = "ended" => TimerGone /\ ~writer /\ ~ownership
        /\ host = "stage" => TimerGone
    BY <2>1 DEF Shutdown
  <2> QED BY <2>2, <2>3 DEF StoppedIsClean
<1> QED
  BY <1>1, HostInvariant, PTL

\* A cycle completes only under the lease of the session that is served, with the provider
\* active, before the shutdown, and an interval after the last one of that lease, whichever of
\* the two threads runs it (kick_due_ip_helper_scheduler_cycle, the scheduler thread).
THEOREM CyclesStayInLease == Spec => CyclesKeepLease
<1>1. HostInv /\ [Next]_vars =>
        [ran' # ran /\ ran'.lease # 0 =>
            /\ ran'.lease = session /\ helper /\ stages = 0 /\ ownership
            /\ ran.lease # 0 => ran'.at >= ran.at + Interval]_vars
  <2> SUFFICES ASSUME HostInv, [Next]_vars, ran' # ran, ran'.lease # 0
               PROVE  /\ ran'.lease = session /\ helper /\ stages = 0 /\ ownership
                      /\ ran.lease # 0 => ran'.at >= ran.at + Interval
    OBVIOUS
  <2>1. /\ ran'.lease = session /\ session # 0 /\ helper
        /\ ran.lease # 0 => ran'.at >= ran.at + Interval
    BY HostStep
  <2>2. stages = 0 /\ ownership
    BY <2>1 DEF HostInv, TypeOK, HostPoints, Connections, Shutdown
  <2> QED BY <2>1, <2>2
<1> QED
  BY <1>1, HostInvariant, PTL DEF Spec, CyclesKeepLease

-----------------------------------------------------------------------------
(* The replay cache of the dispatcher (IpcLimits).  The cache is compared  *)
(* with the history index by index: its order holds the latest nonces      *)
(* taken, each once, and its set holds what its order holds.               *)

\* Cache c of a dispatcher that took the nonces t.
CacheOf(c, t) ==
    /\ t \in Seq(Nonces) /\ c.order \in Seq(Nonces)
    /\ Len(c.order) = IF Len(t) < ReplayLimit THEN Len(t) ELSE ReplayLimit
    /\ \A i \in 1..Len(c.order) : c.order[i] = t[Len(t) - Len(c.order) + i]
    /\ \A i, j \in 1..Len(c.order) : c.order[i] = c.order[j] => i = j
    /\ c.seen = {c.order[i] : i \in 1..Len(c.order)}

\* remember_nonce takes a nonce that is new to it and forgets the oldest one when it is full.
LEMMA RememberFacts ==
    ASSUME NEW c, NEW t, CacheOf(c, t), NEW n \in Nonces, n \notin c.seen
    PROVE  /\ CacheOf(Remember(c, n), Append(t, n))
           /\ Remember(c, n).seen \subseteq c.seen \cup {n}
<1> DEFINE o == c.order
           p == Append(o, n)
           u == Append(t, n)
           m == Len(o)
           k == Len(t)
<1>1. o \in Seq(Nonces) /\ t \in Seq(Nonces) /\ m \in Nat /\ k \in Nat /\ ReplayLimit \in Nat \ {0}
  BY LenProperties, LimitsAssumption DEF CacheOf
<1>2. /\ p \in Seq(Nonces) /\ Len(p) = m + 1 /\ p[m + 1] = n
      /\ \A i \in 1..m : p[i] = o[i]
  BY <1>1, AppendProperties
<1>3. /\ u \in Seq(Nonces) /\ Len(u) = k + 1 /\ u[k + 1] = n
      /\ \A i \in 1..k : u[i] = t[i]
  BY <1>1, AppendProperties
<1>4. /\ m = IF k < ReplayLimit THEN k ELSE ReplayLimit
      /\ \A i \in 1..m : o[i] = t[k - m + i]
      /\ \A i, j \in 1..m : o[i] = o[j] => i = j
      /\ c.seen = {o[i] : i \in 1..m}
  BY DEF CacheOf
<1>5. /\ 1..(m + 1) = (1..m) \cup {m + 1} /\ m + 1 \notin 1..m /\ m <= k /\ m <= ReplayLimit
      /\ \A i \in 1..m : k - m + i \in 1..k
  BY <1>1, <1>4
<1> DEFINE c1 == [seen |-> c.seen \cup {n}, order |-> p]
<1>6. /\ \A i \in 1..(m + 1) : p[i] = u[k - m + i]
      /\ \A i, j \in 1..(m + 1) : p[i] = p[j] => i = j
      /\ c.seen \cup {n} = {p[i] : i \in 1..(m + 1)}
  <2> HIDE DEF o, p, u, m, k
  <2>1. \A i \in 1..m : p[i] = u[k - m + i] /\ p[i] # n /\ p[i] = o[i]
    BY <1>2, <1>3, <1>4, <1>5
  <2>2. k - m + (m + 1) = k + 1
    BY <1>1
  <2>3. \A i \in 1..(m + 1) : p[i] = u[k - m + i]
    BY <1>2, <1>3, <1>5, <2>1, <2>2
  <2>4. \A i, j \in 1..(m + 1) : p[i] = p[j] => i = j
    <3> SUFFICES ASSUME NEW i \in 1..(m + 1), NEW j \in 1..(m + 1), p[i] = p[j] PROVE i = j
      OBVIOUS
    <3>1. CASE i \in 1..m /\ j \in 1..m
      <4>1. o[i] = o[j]
        BY <2>1, <3>1
      <4> QED BY <1>4, <3>1, <4>1
    <3>2. CASE i = m + 1 /\ j \in 1..m
      BY <1>2, <2>1, <3>2
    <3>3. CASE i \in 1..m /\ j = m + 1
      BY <1>2, <2>1, <3>3
    <3>4. CASE i = m + 1 /\ j = m + 1
      BY <3>4
    <3> QED BY <1>5, <3>1, <3>2, <3>3, <3>4
  <2>5. c.seen \cup {n} = {p[i] : i \in 1..(m + 1)}
    BY <1>2, <1>4, <1>5, <2>1
  <2> QED BY <2>3, <2>4, <2>5
<1>7. Remember(c, n) = IF m + 1 > ReplayLimit
                       THEN [seen |-> (c.seen \cup {n}) \ {Head(p)}, order |-> Tail(p)] ELSE c1
  BY <1>2 DEF Remember, Trimmed
<1>8. CASE ~(m + 1 > ReplayLimit)
  <2>1. Remember(c, n) = c1 /\ c1.order = p /\ c1.seen = c.seen \cup {n}
    BY <1>7, <1>8
  <2>2. m = k /\ Len(p) = IF Len(u) < ReplayLimit THEN Len(u) ELSE ReplayLimit
    BY <1>1, <1>2, <1>3, <1>4, <1>8
  <2>3. \A i \in 1..(m + 1) : (k + 1) - (m + 1) + i = k - m + i
    BY <1>1
  <2>4. CacheOf(c1, u)
    <3> HIDE DEF o, p, u, m, k
    <3>1. c1.order \in Seq(Nonces) /\ c1.seen = {c1.order[i] : i \in 1..Len(c1.order)}
      BY <1>2, <1>6, <2>1
    <3>2. \A i \in 1..Len(c1.order) : c1.order[i] = u[Len(u) - Len(c1.order) + i]
      BY <1>2, <1>3, <1>6, <2>1, <2>3
    <3>3. \A i, j \in 1..Len(c1.order) : c1.order[i] = c1.order[j] => i = j
      BY <1>2, <1>6, <2>1
    <3> QED BY <1>2, <1>3, <2>1, <2>2, <3>1, <3>2, <3>3 DEF CacheOf
  <2> QED BY <2>1, <2>4
<1>9. CASE m + 1 > ReplayLimit
  <2> DEFINE q == Tail(p)
             c2 == [seen |-> (c.seen \cup {n}) \ {Head(p)}, order |-> q]
  <2>1. m = ReplayLimit /\ m >= 1 /\ p # << >>
    BY <1>1, <1>2, <1>5, <1>9, EmptySeq
  <2>2. /\ q \in Seq(Nonces) /\ Len(q) = m /\ Head(p) = p[1]
        /\ \A i \in 1..m : q[i] = p[i + 1]
    <3>1. Tail(p) \in Seq(Nonces) /\ Len(Tail(p)) = Len(p) - 1
          /\ \A i \in 1..Len(Tail(p)) : Tail(p)[i] = p[i + 1]
      BY <1>2, <2>1, HeadTailProperties
    <3>2. Head(p) = p[1]
      BY <1>2, <2>1
    <3> QED BY <1>1, <1>2, <3>1, <3>2
  <2>3. Remember(c, n) = c2 /\ c2.order = q /\ c2.seen = (c.seen \cup {n}) \ {p[1]}
    BY <1>7, <1>9, <2>2
  <2> HIDE DEF o, p, u, m, k, q
  <2>4. \A i \in 1..m : i + 1 \in 1..(m + 1) /\ i + 1 # 1 /\ k - m + (i + 1) = (k + 1) - m + i
    BY <1>1
  <2>5. \A i \in 1..(m + 1) : i = 1 \/ (i - 1 \in 1..m /\ (i - 1) + 1 = i)
    BY <1>1
  <2>6. \A i \in 1..m : q[i] = u[(k + 1) - m + i]
    BY <1>6, <2>2, <2>4
  <2>7. \A i, j \in 1..m : q[i] = q[j] => i = j
    <3> SUFFICES ASSUME NEW i \in 1..m, NEW j \in 1..m, q[i] = q[j] PROVE i = j
      OBVIOUS
    <3>1. i + 1 = j + 1
      BY <1>6, <2>2, <2>4
    <3> QED BY <3>1
  <2>8. (c.seen \cup {n}) \ {p[1]} = {q[i] : i \in 1..m}
    <3>1. 1 \in 1..(m + 1)
      BY <1>1
    <3>2. \A i \in 1..m : q[i] \in {p[j] : j \in 1..(m + 1)} /\ q[i] # p[1]
      BY <1>6, <2>2, <2>4, <3>1
    <3>3. \A j \in 1..(m + 1) : p[j] # p[1] => p[j] \in {q[i] : i \in 1..m}
      BY <2>2, <2>5
    <3> QED BY <1>6, <3>2, <3>3
  <2>9. m = IF k + 1 < ReplayLimit THEN k + 1 ELSE ReplayLimit
    BY <1>1, <1>5, <2>1
  <2>10. CacheOf(c2, u)
    <3>1. c2.order \in Seq(Nonces) /\ Len(c2.order) = m /\ Len(u) = k + 1 /\ u \in Seq(Nonces)
      BY <1>3, <2>2, <2>3
    <3>2. \A i \in 1..m : c2.order[i] = u[(k + 1) - m + i]
      BY <2>3, <2>6
    <3>3. \A i, j \in 1..m : c2.order[i] = c2.order[j] => i = j
      BY <2>3, <2>7
    <3>4. c2.seen = {c2.order[i] : i \in 1..m}
      BY <2>3, <2>8
    <3> HIDE DEF c2
    <3> QED BY <2>9, <3>1, <3>2, <3>3, <3>4 DEF CacheOf
  <2> QED BY <2>3, <2>10 DEF u
<1> QED
  BY <1>8, <1>9

\* The replay cache knows exactly the last ReplayLimit nonces it took, of requests and of hellos
\* in whatever order (remember_nonce), for any limit and any nonces.
THEOREM ReplayCacheExact == LimitsInit /\ [][LimitsNext]_limitVars => []ReplayWindowExact
<1>1. LimitsInit => CacheOf(cache, taken)
  <2> SUFFICES ASSUME LimitsInit PROVE CacheOf(cache, taken)
    OBVIOUS
  <2>1. cache.seen = {} /\ cache.order = << >> /\ taken = << >>
    BY DEF LimitsInit, EmptyCache
  <2>2. << >> \in Seq(Nonces) /\ Len(<< >>) = 0 /\ 1..0 = {} /\ ReplayLimit \in Nat \ {0}
    BY LimitsAssumption
  <2> QED BY <2>1, <2>2 DEF CacheOf
<1>2. CacheOf(cache, taken) /\ [LimitsNext]_limitVars => CacheOf(cache, taken)'
  <2> SUFFICES ASSUME CacheOf(cache, taken), [LimitsNext]_limitVars PROVE CacheOf(cache, taken)'
    OBVIOUS
  <2>1. CASE ReadCommand \/ TimePasses \/ UNCHANGED limitVars
    <3>1. cache' = cache /\ taken' = taken
      BY <2>1 DEF ReadCommand, TimePasses, limitVars
    <3>2. CacheOf(cache', taken')
      BY <3>1, Zenon
    <3> QED BY <3>2 DEF CacheOf
  <2>2. CASE RequestId
    <3>1. PICK n \in Nonces : /\ n \notin cache.seen
                              /\ cache' = Remember(cache, n) /\ taken' = Append(taken, n)
      BY <2>2 DEF RequestId, Known
    <3>2. CacheOf(Remember(cache, n), Append(taken, n))
      BY <3>1, RememberFacts
    <3> QED BY <3>1, <3>2 DEF CacheOf
  <2>3. CASE HelloNonces
    <3>1. PICK c \in Nonces, s \in Nonces, h \in Nonces :
            /\ Cardinality({c, s, h}) = 3 /\ {c, s, h} \cap cache.seen = {}
            /\ cache' = Remember(Remember(Remember(cache, c), s), h)
            /\ taken' = taken \o <<c, s, h>>
      BY <2>3 DEF HelloNonces
    <3>2. c # s /\ c # h /\ s # h
      <4>1. \A x, y \in Nonces : Cardinality({x, y}) <= 2
        <5> SUFFICES ASSUME NEW x \in Nonces, NEW y \in Nonces PROVE Cardinality({x, y}) <= 2
          OBVIOUS
        <5>1. IsFiniteSet({x}) /\ Cardinality({x}) = 1
          BY FS_Singleton
        <5>2. Cardinality({x} \cup {y}) = IF y \in {x} THEN Cardinality({x}) ELSE Cardinality({x}) + 1
          BY <5>1, FS_AddElement
        <5>3. {x, y} = {x} \cup {y}
          OBVIOUS
        <5> QED BY <5>1, <5>2, <5>3
      <4>2. /\ c = s => {c, s, h} = {c, h}
            /\ c = h => {c, s, h} = {c, s}
            /\ s = h => {c, s, h} = {c, s}
        OBVIOUS
      <4> QED BY <3>1, <4>1, <4>2
    <3> DEFINE c1 == Remember(cache, c)
               c2 == Remember(c1, s)
               c3 == Remember(c2, h)
               t1 == Append(taken, c)
               t2 == Append(t1, s)
               t3 == Append(t2, h)
    <3>3. CacheOf(c1, t1) /\ c1.seen \subseteq cache.seen \cup {c}
      BY <3>1, RememberFacts
    <3> HIDE DEF c1, t1
    <3>4. CacheOf(c2, t2) /\ c2.seen \subseteq c1.seen \cup {s}
      BY <3>1, <3>2, <3>3, RememberFacts
    <3> HIDE DEF c2, t2
    <3>5. CacheOf(c3, t3)
      BY <3>1, <3>2, <3>3, <3>4, RememberFacts
    <3>6. cache' = c3
      BY <3>1 DEF c1, c2
    <3>7. taken' = t3
      <4>1. taken \in Seq(Nonces)
        BY DEF CacheOf
      <4> QED BY <3>1, <4>1 DEF t1, t2
    <3> HIDE DEF c3, t3
    <3>8. CacheOf(cache', taken')
      BY <3>5, <3>6, <3>7, Zenon
    <3> QED BY <3>8 DEF CacheOf
  <2> QED BY <2>1, <2>2, <2>3 DEF LimitsNext
<1>3. CacheOf(cache, taken) => ReplayWindowExact
  <2> SUFFICES ASSUME CacheOf(cache, taken), NEW n \in Nonces
               PROVE  Known(cache, n) <=>
                        \E i \in 1..Len(taken) : taken[i] = n /\ i > Len(taken) - ReplayLimit
    BY DEF ReplayWindowExact
  <2> DEFINE m == Len(cache.order)
             k == Len(taken)
  <2>1. m \in Nat /\ k \in Nat /\ ReplayLimit \in Nat
    BY LenProperties, LimitsAssumption DEF CacheOf
  <2>2. /\ m = IF k < ReplayLimit THEN k ELSE ReplayLimit
        /\ \A i \in 1..m : cache.order[i] = taken[k - m + i]
        /\ cache.seen = {cache.order[i] : i \in 1..m}
    BY DEF CacheOf
  <2> HIDE DEF m, k
  <2>3. \A i \in 1..m : k - m + i \in 1..k /\ k - m + i > k - ReplayLimit
    BY <2>1, <2>2
  <2>4. \A i \in 1..k : i > k - ReplayLimit => i - (k - m) \in 1..m /\ k - m + (i - (k - m)) = i
    BY <2>1, <2>2
  <2>5. n \in cache.seen => \E i \in 1..k : taken[i] = n /\ i > k - ReplayLimit
    BY <2>2, <2>3
  <2>6. ASSUME NEW i \in 1..k, taken[i] = n, i > k - ReplayLimit PROVE n \in cache.seen
    <3>1. i - (k - m) \in 1..m /\ k - m + (i - (k - m)) = i
      BY <2>4, <2>6
    <3>2. cache.order[i - (k - m)] = n
      BY <2>2, <2>6, <3>1
    <3> QED BY <2>2, <3>1, <3>2
  <2> QED BY <2>5, <2>6 DEF Known, k
<1> QED
  BY <1>1, <1>2, <1>3, PTL

-----------------------------------------------------------------------------
(* The rate limiter of the dispatcher (IpcLimits).  A read that its window *)
(* counts is never older than the window, so the loop that pops old reads  *)
(* finds none (PoppedFacts): reads are forgotten only when a window runs   *)
(* out, and then all at once.  The reads of the window are therefore the   *)
(* last ones let through (LimiterOf), those before them are older than its   *)
(* start, and all but RateLimit of these older by more than a window.      *)

\* The limiter l, at time t, of a dispatcher that let the reads r through; e is the number of
\* reads of earlier windows.
LimiterOf(l, r, t) ==
    LET e == Len(r) - Len(l.recent)
    IN  /\ t \in Nat /\ l \in [started : Nat, recent : Seq(Nat)] /\ r \in Seq(Nat)
        /\ Len(l.recent) <= RateLimit /\ Len(l.recent) <= Len(r)
        /\ l.started <= t
        /\ \A i \in 1..Len(r) : r[i] <= t
        /\ \A i, j \in 1..Len(r) : i <= j => r[i] <= r[j]
        /\ \A i \in 1..Len(l.recent) : l.recent[i] = r[e + i]
        /\ \A i \in 1..Len(r) : i > e => l.started <= r[i] /\ r[i] <= l.started + Window
        /\ \A i \in 1..Len(r) : i <= e => r[i] < l.started
        /\ \A i \in 1..Len(r) : i <= e - RateLimit => r[i] + Window < l.started
        /\ \A i, j \in 1..Len(r) : i + 2 * RateLimit <= j => r[i] + Window < r[j]

\* Nothing is popped from reads that are all younger than the window.
LEMMA PoppedFacts ==
    ASSUME NEW s \in Seq(Nat), NEW t \in Nat, \A i \in 1..Len(s) : t - s[i] <= Window
    PROVE  Popped(s, t) = s
<1> DEFINE F(k) == /\ \A j \in 1 .. k - 1 : t - s[j] > Window
                   /\ k <= Len(s) => t - s[k] <= Window
<1>1. Len(s) \in Nat /\ Window \in Nat /\ \A i \in 1..Len(s) : s[i] \in Nat
  BY LenProperties, ElementOfSeq, LimitsAssumption
<1>2. 1 \in 1 .. Len(s) + 1 /\ F(1)
  BY <1>1
<1>3. \A k \in 1 .. Len(s) + 1 : F(k) => k = 1
  <2> SUFFICES ASSUME NEW k \in 1 .. Len(s) + 1, F(k), k # 1 PROVE FALSE
    OBVIOUS
  <2>1. 1 \in 1 .. k - 1 /\ 1 \in 1..Len(s)
    BY <1>1
  <2>2. t - s[1] > Window /\ t - s[1] <= Window
    BY <2>1
  <2> QED BY <1>1, <2>1, <2>2
<1>4. (CHOOSE k \in 1 .. Len(s) + 1 : F(k)) = 1
  <2> HIDE DEF F
  <2> QED BY <1>2, <1>3
<1>5. Popped(s, t) = SubSeq(s, 1, Len(s))
  BY <1>4 DEF Popped
<1>6. SubSeq(s, 1, Len(s)) = s
  BY SubSeqFull
<1> QED BY <1>5, <1>6

\* check refreshes the limiter by doing nothing while its window lasts, and by beginning a
\* window of no reads when it has run out.
LEMMA RefreshedFacts ==
    ASSUME NEW l, NEW r, NEW t, LimiterOf(l, r, t)
    PROVE  /\ Refreshed(l, t) = IF t - l.started > Window
                                THEN [started |-> t, recent |-> << >>] ELSE l
           /\ LimiterOf(Refreshed(l, t), r, t)
           /\ t - Refreshed(l, t).started <= Window
<1> DEFINE e == Len(r) - Len(l.recent)
<1>0. /\ l.recent \in Seq(Nat) /\ l.started \in Nat /\ t \in Nat /\ Window \in Nat
      /\ Len(l.recent) \in Nat /\ r \in Seq(Nat) /\ Len(r) \in Nat /\ e \in Nat
      /\ RateLimit \in Nat /\ \A i \in 1..Len(r) : r[i] \in Nat
  BY LenProperties, ElementOfSeq, LimitsAssumption DEF LimiterOf
<1>1. CASE t - l.started > Window
  <2> DEFINE n == [started |-> t, recent |-> << >>]
  <2>1. Refreshed(l, t) = n /\ n.started = t /\ n.recent = << >> /\ Len(<< >>) = 0
    BY <1>1 DEF Refreshed
  <2>2. n \in [started : Nat, recent : Seq(Nat)]
    BY <1>0
  <2>3. \A i \in 1..Len(r) : r[i] < t
    <3> SUFFICES ASSUME NEW i \in 1..Len(r) PROVE r[i] < t
      OBVIOUS
    <3>1. i <= e \/ i > e
      BY <1>0
    <3>2. r[i] < l.started \/ r[i] <= l.started + Window
      BY <3>1 DEF LimiterOf
    <3>3. r[i] \in Nat
      BY <1>0
    <3> QED BY <1>0, <1>1, <3>2, <3>3
  <2>4. \A i \in 1..Len(r) : i <= Len(r) - RateLimit => r[i] + Window < t
    <3> SUFFICES ASSUME NEW i \in 1..Len(r), i <= Len(r) - RateLimit PROVE r[i] + Window < t
      OBVIOUS
    <3>1. i <= e
      BY <1>0 DEF LimiterOf
    <3>2. r[i] < l.started
      BY <3>1 DEF LimiterOf
    <3> QED BY <1>0, <1>1, <3>2
  <2>5. LimiterOf(n, r, t)
    <3>1. /\ r \in Seq(Nat)
          /\ \A i \in 1..Len(r) : r[i] <= t
          /\ \A i, j \in 1..Len(r) : i <= j => r[i] <= r[j]
          /\ \A i, j \in 1..Len(r) : i + 2 * RateLimit <= j => r[i] + Window < r[j]
      BY DEF LimiterOf
    <3>2. Len(r) - Len(n.recent) = Len(r) /\ Len(n.recent) = 0 /\ n.started = t
      BY <1>0, <2>1
    <3>3. \A i \in 1..Len(r) : ~(i > Len(r))
      BY <1>0
    <3>4. 0 <= RateLimit /\ 0 <= Len(r) /\ t <= t /\ 1..0 = {}
      BY <1>0
    <3> HIDE DEF n
    <3> QED BY <1>0, <2>2, <2>3, <2>4, <3>1, <3>2, <3>3, <3>4 DEF LimiterOf
  <2> QED BY <1>0, <1>1, <2>1, <2>5
<1>2. CASE ~(t - l.started > Window)
  <2>1. ASSUME NEW i \in 1..Len(l.recent) PROVE t - l.recent[i] <= Window
    <3>1. /\ e + i \in 1..Len(r) /\ e + i > e
      <4> DEFINE m == Len(l.recent)
                 k == Len(r)
      <4>1. m \in Nat /\ k \in Nat /\ e \in Nat /\ e = k - m /\ i \in 1..m
        BY <1>0
      <4>2. e + i \in 1..k /\ e + i > e
        <5> HIDE DEF m, k, e
        <5> QED BY <4>1
      <4> QED BY <4>2
    <3>2. l.recent[i] = r[e + i] /\ l.started <= r[e + i]
      BY <3>1 DEF LimiterOf
    <3>3. r[e + i] \in Nat
      BY <1>0, <3>1
    <3>4. t \in Nat /\ l.started \in Nat /\ Window \in Nat /\ t - l.started <= Window
      BY <1>0, <1>2
    <3> HIDE DEF e
    <3> QED BY <3>2, <3>3, <3>4
  <2>2. Popped(l.recent, t) = l.recent
    BY <1>0, <2>1, PoppedFacts
  <2>3. l = [started |-> l.started, recent |-> l.recent]
    BY DEF LimiterOf
  <2>4. Refreshed(l, t) = l
    BY <1>2, <2>2, <2>3 DEF Refreshed
  <2> QED BY <1>0, <1>2, <2>4
<1> QED BY <1>1, <1>2

\* A read that the refreshed limiter lets through.
LEMMA CountedFacts ==
    ASSUME NEW l, NEW r, NEW t, LimiterOf(l, r, t), t - l.started <= Window,
           Len(l.recent) < RateLimit
    PROVE  LimiterOf([started |-> l.started, recent |-> Append(l.recent, t)], Append(r, t), t)
<1> DEFINE m == Len(l.recent)
           k == Len(r)
           e == k - m
           q == Append(l.recent, t)
           u == Append(r, t)
           n == [started |-> l.started, recent |-> q]
<1>0. /\ l.recent \in Seq(Nat) /\ l.started \in Nat /\ t \in Nat /\ Window \in Nat
      /\ m \in Nat /\ r \in Seq(Nat) /\ k \in Nat /\ e \in Nat
      /\ RateLimit \in Nat /\ \A i \in 1..k : r[i] \in Nat
      /\ e + m = k /\ l.started <= t /\ t <= l.started + Window /\ m + 1 <= RateLimit
  BY LenProperties, ElementOfSeq, LimitsAssumption DEF LimiterOf
<1>1. /\ q \in Seq(Nat) /\ Len(q) = m + 1 /\ q[m + 1] = t
      /\ \A i \in 1..m : q[i] = l.recent[i]
  BY <1>0, AppendProperties
<1>2. /\ u \in Seq(Nat) /\ Len(u) = k + 1 /\ u[k + 1] = t
      /\ \A i \in 1..k : u[i] = r[i]
  BY <1>0, AppendProperties
<1>3. /\ \A i \in 1..k : r[i] <= t
      /\ \A i, j \in 1..k : i <= j => r[i] <= r[j]
      /\ \A i \in 1..m : l.recent[i] = r[e + i]
      /\ \A i \in 1..k : i > e => l.started <= r[i] /\ r[i] <= l.started + Window
      /\ \A i \in 1..k : i <= e => r[i] < l.started
      /\ \A i \in 1..k : i <= e - RateLimit => r[i] + Window < l.started
      /\ \A i, j \in 1..k : i + 2 * RateLimit <= j => r[i] + Window < r[j]
  BY DEF LimiterOf
<1>4. n.started = l.started /\ n.recent = q /\ n \in [started : Nat, recent : Seq(Nat)]
  BY <1>0, <1>1
<1> HIDE DEF m, k, e, q, u, n
<1>5. /\ \A i \in 1..(k + 1) : i \in 1..k \/ i = k + 1
      /\ \A i \in 1..k : i \in 1..(k + 1) /\ i # k + 1 /\ ~(k + 1 <= i)
      /\ \A i \in 1..m : e + i \in 1..k
      /\ \A i \in 1..(m + 1) : i \in 1..m \/ i = m + 1
      /\ e + (m + 1) = k + 1 /\ (k + 1) - (m + 1) = e /\ k + 1 > e
      /\ ~(k + 1 <= e)
  BY <1>0
<1>6. \A i \in 1..(k + 1) : u[i] <= t
  <2>1. \A i \in 1..k : u[i] <= t
    BY <1>2, <1>3
  <2>2. u[k + 1] <= t
    BY <1>0, <1>2
  <2> QED BY <1>5, <2>1, <2>2
<1>7. \A i, j \in 1..(k + 1) : i <= j => u[i] <= u[j]
  <2> SUFFICES ASSUME NEW i \in 1..(k + 1), NEW j \in 1..(k + 1), i <= j PROVE u[i] <= u[j]
    OBVIOUS
  <2>1. CASE j = k + 1
    BY <1>2, <1>6, <2>1
  <2>2. CASE j \in 1..k
    <3>1. i \in 1..k
      BY <1>5, <2>2
    <3> QED BY <1>2, <1>3, <2>2, <3>1
  <2> QED BY <1>5, <2>1, <2>2
<1>8. \A i \in 1..(m + 1) : q[i] = u[e + i]
  BY <1>1, <1>2, <1>3, <1>5
<1>9. \A i \in 1..(k + 1) : i > e => l.started <= u[i] /\ u[i] <= l.started + Window
  BY <1>0, <1>2, <1>3, <1>5
<1>10. \A i \in 1..(k + 1) : i <= e => u[i] < l.started
  BY <1>2, <1>3, <1>5
<1>11. \A i \in 1..(k + 1) : i <= e - RateLimit => u[i] + Window < l.started
  <2>1. ~(k + 1 <= e - RateLimit)
    BY <1>0
  <2> QED BY <1>2, <1>3, <1>5, <2>1
<1>12. \A i, j \in 1..(k + 1) : i + 2 * RateLimit <= j => u[i] + Window < u[j]
  <2> SUFFICES ASSUME NEW i \in 1..(k + 1), NEW j \in 1..(k + 1), i + 2 * RateLimit <= j
               PROVE  u[i] + Window < u[j]
    OBVIOUS
  <2>1. CASE j = k + 1
    <3>1. i <= e - RateLimit
      BY <1>0, <2>1
    <3>2. u[i] + Window < l.started /\ u[j] = t
      BY <1>2, <1>11, <2>1, <3>1
    <3>3. i \in 1..k /\ u[i] \in Nat
      BY <1>0, <1>2, <3>1
    <3> QED BY <1>0, <3>2, <3>3
  <2>2. CASE j \in 1..k
    <3>1. i \in 1..k
      BY <1>0, <2>2
    <3> QED BY <1>2, <1>3, <2>2, <3>1
  <2> QED BY <1>5, <2>1, <2>2
<1>13. m + 1 <= k + 1 /\ m + 1 <= RateLimit
  BY <1>0
<1>14. LimiterOf(n, u, t)
  BY <1>0, <1>1, <1>2, <1>4, <1>5, <1>6, <1>7, <1>8, <1>9, <1>10, <1>11, <1>12, <1>13 DEF LimiterOf
<1> QED BY <1>14 DEF n, q, u

\* Indices that are never far apart are few.
LEMMA NarrowSets ==
    ASSUME NEW n \in Nat, NEW S \in SUBSET (1..n), NEW w \in Nat,
           \A i, j \in S : ~(i + w <= j)
    PROVE  Cardinality(S) <= w
<1>1. CASE S = {}
  BY <1>1, FS_EmptySet
<1>2. CASE S # {}
  <2> DEFINE R == OpToRel(<, Nat)
  <2>1. \A x, y \in Nat : <<x, y>> \in R <=> x < y
    BY DEF OpToRel
  <2>2. IsWellFoundedOn(R, Nat)
    BY NatLessThanWellFounded
  <2> HIDE DEF R
  <2>3. S \in SUBSET Nat
    OBVIOUS
  <2>4. PICK a \in S : \A y \in S : <<y, a>> \notin R
    BY <1>2, <2>2, <2>3, WFMin
  <2>5. S \subseteq a .. a + w - 1
    <3> SUFFICES ASSUME NEW y \in S PROVE y \in a .. a + w - 1
      OBVIOUS
    <3>1. y \in Nat /\ a \in Nat
      BY <2>3
    <3>2. ~(y < a) /\ ~(a + w <= y)
      BY <2>1, <2>4, <3>1
    <3> QED BY <3>1, <3>2
  <2>6. /\ IsFiniteSet(a .. a + w - 1)
        /\ Cardinality(a .. a + w - 1) = IF a > a + w - 1 THEN 0 ELSE (a + w - 1) - a + 1
    BY <2>3, FS_Interval
  <2>7. Cardinality(S) <= Cardinality(a .. a + w - 1) /\ Cardinality(S) \in Nat
    BY <2>5, <2>6, FS_Subset, FS_CardinalityType
  <2>8. a \in Nat /\ (a + w - 1) - a + 1 = w
    BY <2>3
  <2> QED BY <2>6, <2>7, <2>8
<1> QED BY <1>1, <1>2

\* Every step of the dispatcher keeps the limiter as described.
LEMMA LimiterStep ==
    ASSUME LimiterOf(limiter, reads, now), [LimitsNext]_limitVars
    PROVE  LimiterOf(limiter, reads, now)'
<1>0. now \in Nat /\ limiter.started \in Nat /\ Len(reads) \in Nat /\ \A i \in 1..Len(reads) : reads[i] \in Nat
  BY LenProperties, ElementOfSeq DEF LimiterOf
<1>1. CASE RequestId \/ HelloNonces \/ UNCHANGED limitVars
  <2>1. limiter' = limiter /\ reads' = reads /\ now' = now
    BY <1>1 DEF RequestId, HelloNonces, limitVars
  <2> QED BY <2>1 DEF LimiterOf
<1>2. CASE TimePasses
  <2>1. limiter' = limiter /\ reads' = reads /\ now' = now + 1
    BY <1>2 DEF TimePasses
  <2>2. now' \in Nat /\ limiter.started <= now' /\ \A i \in 1..Len(reads) : reads[i] <= now'
    BY <1>0, <2>1 DEF LimiterOf
  <2> QED BY <2>1, <2>2 DEF LimiterOf
<1>3. CASE ReadCommand
  <2> DEFINE l == Refreshed(limiter, now)
  <2>1. LimiterOf(l, reads, now) /\ now - l.started <= Window
    BY RefreshedFacts
  <2>2. CASE RateAllows(limiter, now)
    <3>1. /\ limiter' = [started |-> l.started, recent |-> Append(l.recent, now)]
          /\ reads' = Append(reads, now) /\ now' = now
      BY <1>3, <2>2 DEF ReadCommand
    <3>2. Len(l.recent) < RateLimit
      BY <2>2 DEF RateAllows
    <3> HIDE DEF l
    <3>3. LimiterOf([started |-> l.started, recent |-> Append(l.recent, now)], Append(reads, now), now)
      BY <2>1, <3>2, CountedFacts
    <3>4. LimiterOf(limiter', reads', now')
      BY <3>1, <3>3, Zenon
    <3> QED BY <3>4 DEF LimiterOf
  <2>3. CASE ~RateAllows(limiter, now)
    <3>1. limiter' = l /\ reads' = reads /\ now' = now
      BY <1>3, <2>3 DEF ReadCommand
    <3> HIDE DEF l
    <3>2. LimiterOf(limiter', reads', now')
      BY <2>1, <3>1, Zenon
    <3> QED BY <3>2 DEF LimiterOf
  <2> QED BY <2>2, <2>3
<1> QED BY <1>1, <1>2, <1>3 DEF LimitsNext

\* RateLimiter::check refuses a read only after RateLimit of them in one window, and lets at
\* most twice the limit through in any stretch of a window's length, for any limit and window.
THEOREM LimiterIsSound == LimitsInit /\ [][LimitsNext]_limitVars => []RateLimiterSound
<1>1. LimitsInit => LimiterOf(limiter, reads, now)
  <2> SUFFICES ASSUME LimitsInit PROVE LimiterOf(limiter, reads, now)
    OBVIOUS
  <2>1. limiter = [started |-> 0, recent |-> << >>] /\ reads = << >> /\ now = 0
    BY DEF LimitsInit, NewLimiter
  <2>2. limiter.started = 0 /\ limiter.recent = << >>
    BY <2>1
  <2>3. << >> \in Seq(Nat) /\ Len(<< >>) = 0 /\ 1..0 = {} /\ RateLimit \in Nat /\ 0 <= RateLimit
    BY LimitsAssumption
  <2>4. limiter \in [started : Nat, recent : Seq(Nat)]
    BY <2>1, <2>3
  <2> QED BY <2>1, <2>2, <2>3, <2>4 DEF LimiterOf
<1>2. LimiterOf(limiter, reads, now) /\ [LimitsNext]_limitVars => LimiterOf(limiter, reads, now)'
  BY LimiterStep
<1>3. LimiterOf(limiter, reads, now) => RateLimiterSound
  <2> SUFFICES ASSUME LimiterOf(limiter, reads, now) PROVE RateLimiterSound
    OBVIOUS
  <2> DEFINE m == Len(limiter.recent)
             k == Len(reads)
             e == k - m
  <2>0. /\ m \in Nat /\ k \in Nat /\ e \in Nat /\ e = k - m /\ m <= k /\ RateLimit \in Nat \ {0}
        /\ Window \in Nat /\ now \in Nat /\ limiter.started \in Nat
        /\ \A i \in 1..k : reads[i] \in Nat
    BY LenProperties, ElementOfSeq, LimitsAssumption DEF LimiterOf
  <2>1. ASSUME ~RateAllows(limiter, now) PROVE Cardinality(ReadsIn(now - Window, now)) >= RateLimit
    <3> DEFINE T == (e + 1) .. k
    <3>1. Refreshed(limiter, now) = IF now - limiter.started > Window
                                    THEN [started |-> now, recent |-> << >>] ELSE limiter
      BY RefreshedFacts
    <3>2. ~(Len(Refreshed(limiter, now).recent) < RateLimit)
      BY <2>1 DEF RateAllows
    <3>3. ~(now - limiter.started > Window)
      <4> SUFFICES ASSUME now - limiter.started > Window PROVE FALSE
        OBVIOUS
      <4>1. Len(Refreshed(limiter, now).recent) = 0
        BY <3>1
      <4> QED BY <2>0, <3>2, <4>1
    <3>4. ~(m < RateLimit)
      BY <3>1, <3>2, <3>3
    <3>5. \A i \in T : i \in 1..k /\ i > e
      <4> HIDE DEF m, k, e
      <4> QED BY <2>0
    <3>6. \A i \in T : limiter.started <= reads[i] /\ reads[i] <= now
      BY <3>5 DEF LimiterOf
    <3>7. T \subseteq ReadsIn(now - Window, now)
      <4> SUFFICES ASSUME NEW i \in T PROVE i \in 1..k /\ reads[i] \in (now - Window) .. now
        BY DEF ReadsIn
      <4>1. reads[i] \in Nat /\ limiter.started <= reads[i] /\ reads[i] <= now /\ i \in 1..k
        BY <2>0, <3>5, <3>6
      <4> QED BY <2>0, <3>3, <4>1
    <3>8. IsFiniteSet(ReadsIn(now - Window, now))
      <4>1. ReadsIn(now - Window, now) \in SUBSET (1..k) /\ IsFiniteSet(1..k)
        BY <2>0, FS_Interval DEF ReadsIn
      <4> QED BY <4>1, FS_Subset
    <3>9. Cardinality(T) = m
      <4>1. Cardinality((e + 1) .. k) = IF e + 1 > k THEN 0 ELSE k - (e + 1) + 1
        <5>1. e + 1 \in Int /\ k \in Int
          BY <2>0
        <5> HIDE DEF e, k
        <5> QED BY <5>1, FS_Interval
      <4> HIDE DEF m, k, e
      <4> QED BY <2>0, <4>1
    <3>10. /\ Cardinality(T) <= Cardinality(ReadsIn(now - Window, now))
           /\ Cardinality(ReadsIn(now - Window, now)) \in Nat
      BY <3>7, <3>8, FS_Subset, FS_CardinalityType
    <3> HIDE DEF m, k, e, T
    <3> DEFINE c == Cardinality(ReadsIn(now - Window, now))
    <3>11. m <= c /\ c \in Nat
      BY <3>9, <3>10
    <3> HIDE DEF c
    <3>12. c >= RateLimit
      BY <2>0, <3>4, <3>11
    <3> QED BY <3>12 DEF c
  <2>2. ASSUME NEW i \in 1..k
        PROVE  Cardinality(ReadsIn(reads[i], reads[i] + Window)) <= 2 * RateLimit
    <3> DEFINE S == ReadsIn(reads[i], reads[i] + Window)
    <3>1. S \in SUBSET (1..k)
      BY DEF ReadsIn
    <3>2. ASSUME NEW a \in S, NEW b \in S PROVE ~(a + 2 * RateLimit <= b)
      <4>1. a \in 1..k /\ b \in 1..k /\ reads[a] >= reads[i] /\ reads[b] <= reads[i] + Window
        BY <2>0 DEF ReadsIn
      <4>2. a + 2 * RateLimit <= b => reads[a] + Window < reads[b]
        BY <4>1 DEF LimiterOf
      <4>3. reads[a] \in Nat /\ reads[b] \in Nat /\ reads[i] \in Nat
        BY <2>0, <4>1
      <4> QED BY <2>0, <4>1, <4>2, <4>3
    <3>3. 2 * RateLimit \in Nat
      BY <2>0
    <3> HIDE DEF S
    <3>4. Cardinality(S) <= 2 * RateLimit
      BY <2>0, <3>1, <3>2, <3>3, NarrowSets
    <3> QED BY <3>4 DEF S
  <2> QED BY <2>1, <2>2 DEF RateLimiterSound
<1> QED
  BY <1>1, <1>2, <1>3, PTL

-----------------------------------------------------------------------------
\* What the limiter and the replay cache of the dispatcher forget is no more than they may, for
\* any limits, window and nonces.
THEOREM LimitsAreExact == LimitsInit /\ [][LimitsNext]_limitVars => []LimitsExact
BY ReplayCacheExact, LimiterIsSound, PTL DEF LimitsExact

=============================================================================
