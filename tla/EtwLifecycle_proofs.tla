------------------------ MODULE EtwLifecycle_proofs ------------------------
(***************************************************************************)
(* The safety properties of EtwLifecycle, proved for every capacity of the *)
(* batch queue and every bound.  The gate reads only the lifecycle state,  *)
(* so the argument is what each lifecycle state says of the control thread *)
(* and of the adapter (StatesAgree): that is what makes the gate's table   *)
(* enough to keep a second thread and a start without a session away.      *)
(***************************************************************************)
EXTENDS EtwLifecycle, TLAPS

\* The control thread and what the status says of it.
ThreadAgrees ==
    /\ threads = IF thread = "running" THEN 1 ELSE 0
    /\ status.threadActive <=> thread # "none"
    /\ thread = "dead" => status.lifecycle = "Stopping"

\* What each lifecycle state that the gate lets an operation out of says.
StatesAgree ==
    /\ status.lifecycle = "Active" =>
          /\ thread = "running" /\ adapter.state = "Active" /\ adapter.session # "none"
          /\ status.authorization = "Authorized"
    /\ status.lifecycle = "Paused" =>
          thread = "running" /\ adapter.state = "Paused" /\ status.authorization = "Authorized"
    /\ status.lifecycle \in {"Inactive", "Stopped", "Failed"} => thread = "none"
    /\ adapter.session # "none" => status.lifecycle = "Active"

IInv == TypeOK /\ ThreadAgrees /\ StatesAgree /\ ShutdownStops

-----------------------------------------------------------------------------
(* What the adapter may answer *)

Outcome == [state : {"Inactive", "Active", "Paused", "Stopped"}, collecting : BOOLEAN,
            workerActive : BOOLEAN, workerJoined : BOOLEAN, normalized : Nat]

\* inactive_outcome, live_outcome and stopped_outcome are outcomes of the state they name.
LEMMA OutcomeType ==
    ASSUME NEW a \in Adapter, NEW state \in {"Inactive", "Active", "Paused", "Stopped"}
    PROVE  /\ InactiveOutcome(state) \in Outcome /\ InactiveOutcome(state).state = state
           /\ LiveOutcome(a) \in Outcome /\ LiveOutcome(a).state = "Active"
           /\ StoppedOutcome(a, state) \in Outcome /\ StoppedOutcome(a, state).state = state
<1>1. InactiveOutcome(state) \in Outcome /\ InactiveOutcome(state).state = state
  BY DEF InactiveOutcome, Outcome
<1>2. LiveOutcome(a) \in Outcome /\ LiveOutcome(a).state = "Active"
  BY DEF LiveOutcome, Outcome, Adapter
<1>3. StoppedOutcome(a, state) \in Outcome /\ StoppedOutcome(a, state).state = state
  BY <1>1 DEF StoppedOutcome, Outcome, Adapter
<1> QED BY <1>1, <1>2, <1>3

\* start answers Active, with a new session unless the adapter said Active before;
\* a refused start leaves the adapter as it was.
LEMMA StartResult ==
    ASSUME NEW a \in Adapter, NEW r \in AdapterStart(a)
    PROVE  /\ r.adapter \in Adapter /\ r.ok \in BOOLEAN
           /\ r.ok => /\ r.outcome \in Outcome /\ r.outcome.state = "Active"
                      /\ r.adapter.state = "Active"
                      /\ a.state # "Active" => r.adapter.session = "live"
           /\ ~r.ok => r.adapter = a /\ a.state # "Active"
<1>1. Started \in Adapter /\ Started.state = "Active" /\ Started.session = "live"
  BY LifecycleAssumption DEF Started, Adapter
<1>2. CASE a.state = "Active"
  <2>1. r = Ok(a, IF a.session = "none" THEN InactiveOutcome("Active") ELSE LiveOutcome(a))
    BY <1>2 DEF AdapterStart
  <2> QED BY <1>2, <2>1, OutcomeType DEF Ok
<1>3. CASE a.state # "Active"
  <2>1. r = Err(a) \/ r = Ok(Started, LiveOutcome(Started))
    BY <1>3 DEF AdapterStart
  <2>2. LiveOutcome(Started) \in Outcome /\ LiveOutcome(Started).state = "Active"
    BY <1>1, OutcomeType
  <2>3. CASE r = Err(a)
    BY <1>3, <2>3 DEF Err
  <2>4. CASE r = Ok(Started, LiveOutcome(Started))
    BY <1>1, <2>2, <2>4 DEF Ok
  <2> QED BY <2>1, <2>3, <2>4
<1> QED BY <1>2, <1>3

\* pause and stop leave no session in the adapter, whether they succeed or not,
\* unless the adapter had already the state it was asked for.
LEMMA HaltResult ==
    ASSUME NEW a \in Adapter, NEW state \in {"Paused", "Stopped"}, NEW r \in Halt(a, state)
    PROVE  /\ r.adapter \in Adapter /\ r.ok \in BOOLEAN
           /\ r.ok => /\ r.outcome \in Outcome /\ r.outcome.state = state
                      /\ r.adapter.state = state
           /\ a.state # state => r.adapter.session = "none"
<1>1. WithoutSession(a) \in Adapter /\ WithoutSession(a).session = "none"
  BY LifecycleAssumption DEF WithoutSession, Adapter
<1>2. CASE a.state = state
  <2>1. r = Ok(a, InactiveOutcome(state))
    BY <1>2 DEF Halt
  <2> QED BY <1>2, <2>1, OutcomeType DEF Ok
<1>3. CASE a.state # state /\ a.session # "none"
  <2>1. \/ r = Err(WithoutSession(a))
        \/ r = Ok([WithoutSession(a) EXCEPT !.state = state], StoppedOutcome(a, state))
    BY <1>3 DEF Halt, StopSession
  <2>2. /\ [WithoutSession(a) EXCEPT !.state = state] \in Adapter
        /\ [WithoutSession(a) EXCEPT !.state = state].state = state
        /\ [WithoutSession(a) EXCEPT !.state = state].session = "none"
    BY <1>1 DEF Adapter
  <2>3. StoppedOutcome(a, state) \in Outcome /\ StoppedOutcome(a, state).state = state
    BY OutcomeType
  <2>4. CASE r = Err(WithoutSession(a))
    BY <1>1, <2>4 DEF Err
  <2>5. CASE r = Ok([WithoutSession(a) EXCEPT !.state = state], StoppedOutcome(a, state))
    BY <2>2, <2>3, <2>5 DEF Ok
  <2> QED BY <2>1, <2>4, <2>5
<1>4. CASE a.state # state /\ a.session = "none"
  <2>1. r = Ok([a EXCEPT !.state = state], InactiveOutcome(state))
    BY <1>4 DEF Halt
  <2>2. /\ [a EXCEPT !.state = state] \in Adapter
        /\ [a EXCEPT !.state = state].state = state
        /\ [a EXCEPT !.state = state].session = "none"
    BY <1>4 DEF Adapter
  <2> QED BY <2>1, <2>2, OutcomeType DEF Ok
<1> QED BY <1>2, <1>3, <1>4

\* An outcome changes neither the thread nor the authorization in the status.
LEMMA ApplyType ==
    ASSUME NEW st \in Status, NEW o \in Outcome, NEW success \in LifecycleStates
    PROVE  /\ ApplyRuntimeOutcome(st, o) \in Status
           /\ ApplyOutcome(st, o, success) \in Status
           /\ ApplyOutcome(st, o, success).lifecycle = success
           /\ ApplyOutcome(st, o, success).threadActive = st.threadActive
           /\ ApplyOutcome(st, o, success).authorization = st.authorization
<1>1. ASSUME NEW s \in Status
      PROVE  /\ ApplyRuntimeOutcome(s, o) \in Status
             /\ ApplyRuntimeOutcome(s, o).lifecycle = s.lifecycle
             /\ ApplyRuntimeOutcome(s, o).threadActive = s.threadActive
             /\ ApplyRuntimeOutcome(s, o).authorization = s.authorization
  BY DEF ApplyRuntimeOutcome, Status, Outcome
<1>2. SessionStateOf[o.state] \in SessionStates
  BY DEF SessionStateOf, SessionStates, Outcome
<1> DEFINE s == [st EXCEPT !.lifecycle = success, !.session = SessionStateOf[o.state]]
<1>3. /\ s \in Status /\ s.lifecycle = success /\ s.threadActive = st.threadActive
      /\ s.authorization = st.authorization
  BY <1>2 DEF Status
<1> QED BY <1>1, <1>3 DEF ApplyOutcome

\* A failed start keeps the thread and the authorization, and the state is Degraded.
LEMMA ErrorType ==
    ASSUME NEW st \in Status
    PROVE  /\ ApplyError(st) \in Status
           /\ ApplyError(st).lifecycle = "Degraded"
           /\ ApplyError(st).threadActive = st.threadActive
           /\ ApplyError(st).authorization = st.authorization
BY DEF ApplyError, Status, LifecycleStates, SessionStates

-----------------------------------------------------------------------------
(* The end of an operation *)

Operations == {"none", "activate", "pause", "resume", "stop", "shutdown", "pump"}
Answers == [op : Operations, ok : BOOLEAN, started : BOOLEAN]

\* The answer and the recorded copy keep their types however an operation ends.
LEMMA FinishType ==
    ASSUME TypeOK, NEW op \in Operations, NEW st \in Status, NEW started \in BOOLEAN,
           Finish(op, st, started) \/ Fail(op, st)
    PROVE  status' = st /\ answer' \in Answers /\ recorded' \in LifecycleStates
<1>1. Valid(st) \in BOOLEAN
  BY DEF Valid
<1>2. st.lifecycle \in LifecycleStates /\ recorded \in LifecycleStates
  BY DEF Status, TypeOK
<1>3. CASE Finish(op, st, started)
  BY <1>1, <1>2, <1>3 DEF Finish, Answers
<1>4. CASE Fail(op, st)
  BY <1>2, <1>4 DEF Fail, Answers
<1> QED BY <1>3, <1>4

-----------------------------------------------------------------------------
(* Every action preserves the invariant *)

\* The runtime begins with the invariant: EtwLifecycleStatus::inactive, no thread, no session.
LEMMA InitIInv == Init => IInv
<1> SUFFICES ASSUME Init PROVE IInv
  OBVIOUS
<1>1. TypeOK
  <2>1. status \in Status
    BY DEF Init, Status, LifecycleStates, SessionStates
  <2>2. adapter \in Adapter
    BY LifecycleAssumption DEF Init, NewAdapter, Adapter
  <2> QED BY <2>1, <2>2 DEF Init, TypeOK, LifecycleStates
<1>2. ThreadAgrees /\ StatesAgree /\ ShutdownStops
  BY DEF Init, ThreadAgrees, StatesAgree, ShutdownStops, NewAdapter
<1> QED BY <1>1, <1>2 DEF IInv

\* activate with a new control thread: the gate lets it in only where no thread is left.
LEMMA ActivateStep == IInv /\ Activate => IInv'
<1> SUFFICES ASSUME IInv, Activate PROVE IInv'
  OBVIOUS
<1> USE DEF IInv
<1> DEFINE begun == [status EXCEPT !.authorization = "Authorized", !.threadJoined = FALSE,
                                   !.threadActive = TRUE]
<1>1. begun \in Status /\ begun.authorization = "Authorized" /\ begun.threadActive = TRUE
  BY DEF TypeOK, Status
<1>2. PICK r \in AdapterStart(NewAdapter) :
          /\ adapter' = r.adapter
          /\ Finish("activate",
                    IF r.ok THEN ApplyOutcome(begun, r.outcome, "Active") ELSE ApplyError(begun),
                    r.ok)
  BY DEF Activate
<1>3. NewAdapter \in Adapter /\ NewAdapter.state = "Inactive" /\ NewAdapter.session = "none"
  BY LifecycleAssumption DEF NewAdapter, Adapter
<1>4. /\ r.adapter \in Adapter /\ r.ok \in BOOLEAN
      /\ r.ok => /\ r.outcome \in Outcome /\ r.adapter.state = "Active"
                 /\ r.adapter.session = "live"
      /\ ~r.ok => r.adapter.session = "none"
  BY <1>3, StartResult
<1> DEFINE st == IF r.ok THEN ApplyOutcome(begun, r.outcome, "Active") ELSE ApplyError(begun)
<1>5. /\ st \in Status /\ st.threadActive = TRUE /\ st.authorization = "Authorized"
      /\ st.lifecycle = IF r.ok THEN "Active" ELSE "Degraded"
  <2>1. "Active" \in LifecycleStates
    BY DEF LifecycleStates
  <2>2. CASE r.ok
    BY <1>1, <1>4, <2>1, <2>2, ApplyType
  <2>3. CASE ~r.ok
    BY <1>1, <2>3, ErrorType
  <2> QED BY <1>4, <2>2, <2>3
<1> HIDE DEF begun
<1>6. status' = st /\ answer' \in Answers /\ recorded' \in LifecycleStates
  BY <1>2, <1>4, <1>5, FinishType DEF Operations
<1>7. /\ thread' = "running" /\ threads' = threads + 1 /\ down' = down /\ down = FALSE
      /\ thread = "none" /\ threads = 0
  BY DEF Activate, Called, Allowed, ThreadAgrees, StatesAgree, TypeOK
<1> HIDE DEF st
<1>8. TypeOK'
  BY <1>2, <1>4, <1>5, <1>6, <1>7 DEF TypeOK, Answers, Operations
<1>9. ThreadAgrees' /\ StatesAgree' /\ ShutdownStops'
  BY <1>2, <1>4, <1>5, <1>6, <1>7 DEF ThreadAgrees, StatesAgree, ShutdownStops
<1> QED BY <1>8, <1>9

\* activate of a degraded provider changes the answer and the recorded copy only.
LEMMA ActivateAgainStep == IInv /\ ActivateAgain => IInv'
<1> SUFFICES ASSUME IInv, ActivateAgain PROVE IInv'
  OBVIOUS
<1> USE DEF IInv
<1>1. Valid(status) \in BOOLEAN
  BY DEF Valid
<1>2. TypeOK'
  <2>1. recorded' \in LifecycleStates
    BY DEF ActivateAgain, TypeOK, Status
  <2>2. answer' \in Answers
    BY <1>1 DEF ActivateAgain, Answers, Operations
  <2> QED BY <2>1, <2>2 DEF ActivateAgain, TypeOK, Answers, Operations
<1>3. ThreadAgrees' /\ StatesAgree' /\ ShutdownStops'
  BY DEF ActivateAgain, ThreadAgrees, StatesAgree, ShutdownStops
<1> QED BY <1>2, <1>3

\* pause, when Windows stops the trace and when it refuses: no session is left either way.
LEMMA PauseStep == IInv /\ Pause => IInv'
<1> SUFFICES ASSUME IInv, Pause PROVE IInv'
  OBVIOUS
<1> USE DEF IInv
<1> DEFINE failed == [status EXCEPT !.lifecycle = "Pausing"]
<1>1. PICK r \in AdapterPause(adapter) :
          /\ adapter' = r.adapter
          /\ IF r.ok THEN Finish("pause", ApplyOutcome(status, r.outcome, "Paused"), FALSE)
                     ELSE Fail("pause", failed)
  BY DEF Pause
<1>2. /\ thread = "running" /\ thread' = thread /\ threads' = threads /\ down' = down
      /\ down = FALSE /\ status.lifecycle = "Active" /\ adapter.state = "Active"
      /\ status \in Status /\ adapter \in Adapter /\ status.authorization = "Authorized"
  BY DEF Pause, Called, Allowed, StatesAgree, TypeOK
<1>3. /\ r.adapter \in Adapter /\ r.ok \in BOOLEAN /\ r.adapter.session = "none"
      /\ r.ok => r.outcome \in Outcome /\ r.adapter.state = "Paused"
  BY <1>2, HaltResult DEF AdapterPause
<1>4. CASE r.ok
  <2> DEFINE st == ApplyOutcome(status, r.outcome, "Paused")
  <2>1. /\ st \in Status /\ st.lifecycle = "Paused" /\ st.threadActive = status.threadActive
        /\ st.authorization = "Authorized"
    BY <1>2, <1>3, <1>4, ApplyType DEF LifecycleStates
  <2>2. status' = st /\ answer' \in Answers /\ recorded' \in LifecycleStates
    BY <1>1, <1>4, <2>1, FinishType DEF Operations
  <2> HIDE DEF st
  <2>3. TypeOK'
    BY <1>1, <1>2, <1>3, <2>1, <2>2 DEF TypeOK, Answers, Operations
  <2>4. ThreadAgrees' /\ StatesAgree' /\ ShutdownStops'
    BY <1>1, <1>2, <1>3, <1>4, <2>1, <2>2 DEF ThreadAgrees, StatesAgree, ShutdownStops
  <2> QED BY <2>3, <2>4
<1>5. CASE ~r.ok
  <2>1. /\ failed \in Status /\ failed.lifecycle = "Pausing"
        /\ failed.threadActive = status.threadActive
    BY <1>2 DEF Status, LifecycleStates, Transient
  <2>2. status' = failed /\ answer' \in Answers /\ recorded' \in LifecycleStates
    BY <1>1, <1>5, <2>1, FinishType DEF Operations
  <2> HIDE DEF failed
  <2>3. TypeOK'
    BY <1>1, <1>2, <1>3, <2>1, <2>2 DEF TypeOK, Answers, Operations
  <2>4. ThreadAgrees' /\ StatesAgree' /\ ShutdownStops'
    BY <1>1, <1>2, <1>3, <2>1, <2>2 DEF ThreadAgrees, StatesAgree, ShutdownStops
  <2> QED BY <2>3, <2>4
<1> QED BY <1>3, <1>4, <1>5

\* resume, when Windows starts the trace and when it refuses: the gate lets it in only
\* from Paused, where the adapter has no session and cannot answer for one.
LEMMA ResumeStep == IInv /\ Resume => IInv'
<1> SUFFICES ASSUME IInv, Resume PROVE IInv'
  OBVIOUS
<1> USE DEF IInv
<1> DEFINE failed == [status EXCEPT !.lifecycle = "Resuming"]
<1>1. PICK r \in AdapterStart(adapter) :
          /\ adapter' = r.adapter
          /\ IF r.ok THEN Finish("resume", ApplyOutcome(status, r.outcome, "Active"), adapter' # adapter)
                     ELSE Fail("resume", failed)
  BY DEF Resume
<1>2. /\ thread = "running" /\ thread' = thread /\ threads' = threads /\ down' = down
      /\ down = FALSE /\ status.lifecycle = "Paused" /\ adapter.state = "Paused"
      /\ adapter.session = "none" /\ status \in Status /\ adapter \in Adapter
      /\ status.authorization = "Authorized"
  BY DEF Resume, Called, Allowed, StatesAgree, TypeOK
<1>3. /\ r.adapter \in Adapter /\ r.ok \in BOOLEAN
      /\ r.ok => /\ r.outcome \in Outcome /\ r.adapter.state = "Active"
                 /\ r.adapter.session = "live"
      /\ ~r.ok => r.adapter.session = "none"
  BY <1>2, StartResult
<1>4. CASE r.ok
  <2> DEFINE st == ApplyOutcome(status, r.outcome, "Active")
  <2>1. /\ st \in Status /\ st.lifecycle = "Active" /\ st.threadActive = status.threadActive
        /\ st.authorization = "Authorized"
    BY <1>2, <1>3, <1>4, ApplyType DEF LifecycleStates
  <2>2. status' = st /\ answer' \in Answers /\ recorded' \in LifecycleStates
    BY <1>1, <1>4, <2>1, FinishType DEF Operations
  <2> HIDE DEF st
  <2>3. TypeOK'
    BY <1>1, <1>2, <1>3, <2>1, <2>2 DEF TypeOK, Answers, Operations
  <2>4. ThreadAgrees' /\ StatesAgree' /\ ShutdownStops'
    BY <1>1, <1>2, <1>3, <1>4, <2>1, <2>2 DEF ThreadAgrees, StatesAgree, ShutdownStops
  <2> QED BY <2>3, <2>4
<1>5. CASE ~r.ok
  <2>1. /\ failed \in Status /\ failed.lifecycle = "Resuming"
        /\ failed.threadActive = status.threadActive
    BY <1>2 DEF Status, LifecycleStates, Transient
  <2>2. status' = failed /\ answer' \in Answers /\ recorded' \in LifecycleStates
    BY <1>1, <1>5, <2>1, FinishType DEF Operations
  <2> HIDE DEF failed
  <2>3. TypeOK'
    BY <1>1, <1>2, <1>3, <2>1, <2>2 DEF TypeOK, Answers, Operations
  <2>4. ThreadAgrees' /\ StatesAgree' /\ ShutdownStops'
    BY <1>1, <1>2, <1>3, <1>5, <2>1, <2>2 DEF ThreadAgrees, StatesAgree, ShutdownStops
  <2> QED BY <2>3, <2>4
<1> QED BY <1>3, <1>4, <1>5

\* What stop_internal leaves of a running thread, for stop and for shutdown: no
\* session, no running thread, and a lifecycle that says which.
LEMMA StopRunningStep ==
    ASSUME IInv, NEW op \in {"stop", "shutdown"}, StopRunning(op), down' \in BOOLEAN
    PROVE  IInv'
<1> USE DEF IInv
<1>1. PICK r \in AdapterStop(adapter) :
          /\ adapter' = EndOfThread(r.adapter)
          /\ IF r.ok
               THEN /\ thread' = "none"
                    /\ \/ Finish(op, StoppedStatus(ApplyRuntimeOutcome(status, r.outcome)), FALSE)
                       \/ Fail(op, JoinFailedStatus(ApplyRuntimeOutcome(status, r.outcome)))
               ELSE /\ thread' = "dead"
                    /\ Fail(op, [status EXCEPT !.lifecycle = "Stopping"])
  BY DEF StopRunning
<1>2. /\ threads = 1 /\ threads' = 0 /\ status.threadActive = TRUE
      /\ status \in Status /\ adapter \in Adapter /\ op \in Operations
  BY DEF StopRunning, ThreadAgrees, TypeOK, Status, Operations
<1>3. /\ r.adapter \in Adapter /\ r.ok \in BOOLEAN
      /\ r.ok => r.outcome \in Outcome
  BY <1>2, HaltResult DEF AdapterStop
<1>4. adapter' \in Adapter /\ adapter'.session = "none"
  BY <1>1, <1>3, LifecycleAssumption DEF EndOfThread, WithoutSession, Adapter
<1>5. ASSUME NEW st \in Status, status' = st, answer' \in Answers, recorded' \in LifecycleStates,
             \/ /\ thread' = "none" /\ st.threadActive = FALSE
                /\ st.lifecycle \in {"Stopped", "Failed"}
             \/ thread' = "dead" /\ st.threadActive = TRUE /\ st.lifecycle = "Stopping"
      PROVE  IInv'
  <2>1. TypeOK'
    BY <1>2, <1>4, <1>5 DEF TypeOK, Answers, Operations
  <2>2. ThreadAgrees' /\ StatesAgree' /\ ShutdownStops'
    BY <1>2, <1>4, <1>5 DEF ThreadAgrees, StatesAgree, ShutdownStops
  <2> QED BY <2>1, <2>2
<1>6. CASE r.ok
  <2> DEFINE st == ApplyRuntimeOutcome(status, r.outcome)
  <2>1. st \in Status
    BY <1>2, <1>3, <1>6, ApplyType DEF LifecycleStates
  <2> HIDE DEF st
  <2>2. /\ StoppedStatus(st) \in Status /\ StoppedStatus(st).threadActive = FALSE
        /\ StoppedStatus(st).lifecycle = "Stopped"
    BY <2>1 DEF StoppedStatus, Status, LifecycleStates, SessionStates
  <2>3. /\ JoinFailedStatus(st) \in Status /\ JoinFailedStatus(st).threadActive = FALSE
        /\ JoinFailedStatus(st).lifecycle = "Failed"
    BY <2>1 DEF JoinFailedStatus, Status, LifecycleStates, SessionStates
  <2>4. CASE Finish(op, StoppedStatus(st), FALSE)
    <3>1. status' = StoppedStatus(st) /\ answer' \in Answers /\ recorded' \in LifecycleStates
      BY <1>2, <2>2, <2>4, FinishType
    <3> QED BY <1>1, <1>5, <1>6, <2>2, <3>1
  <2>5. CASE Fail(op, JoinFailedStatus(st))
    <3>1. /\ status' = JoinFailedStatus(st) /\ answer' \in Answers
          /\ recorded' \in LifecycleStates
      BY <1>2, <2>3, <2>5, FinishType
    <3> QED BY <1>1, <1>5, <1>6, <2>3, <3>1
  <2> QED BY <1>1, <1>6, <2>4, <2>5 DEF st
<1>7. CASE ~r.ok
  <2> DEFINE st == [status EXCEPT !.lifecycle = "Stopping"]
  <2>1. st \in Status /\ st.threadActive = TRUE /\ st.lifecycle = "Stopping"
    BY <1>2 DEF Status, LifecycleStates, Transient
  <2>2. status' = st /\ answer' \in Answers /\ recorded' \in LifecycleStates
    BY <1>1, <1>2, <1>7, <2>1, FinishType
  <2> QED BY <1>1, <1>5, <1>7, <2>1, <2>2
<1> QED BY <1>3, <1>6, <1>7

\* stop_internal with a thread that is gone, at a shutdown: the state stays Stopping.
LEMMA StopDeadStep ==
    ASSUME IInv, StopDead("shutdown"), down' \in BOOLEAN
    PROVE  IInv'
<1> USE DEF IInv
<1> DEFINE st == [status EXCEPT !.lifecycle = "Stopping"]
<1>1. /\ status.lifecycle = "Stopping" /\ status.threadActive = TRUE /\ thread = "dead"
      /\ adapter.session = "none" /\ status \in Status
  BY DEF StopDead, ThreadAgrees, StatesAgree, TypeOK, Status, Adapter
<1>2. st \in Status /\ st.threadActive = TRUE /\ st.lifecycle = "Stopping"
  BY <1>1 DEF Status
<1>3. status' = st /\ answer' \in Answers /\ recorded' \in LifecycleStates
  BY <1>2, FinishType DEF StopDead, Operations
<1> HIDE DEF st
<1>4. TypeOK'
  BY <1>2, <1>3 DEF StopDead, TypeOK, Answers, Operations
<1>5. ThreadAgrees' /\ StatesAgree' /\ ShutdownStops'
  BY <1>1, <1>2, <1>3 DEF StopDead, ThreadAgrees, StatesAgree, ShutdownStops
<1> QED BY <1>4, <1>5

\* stop: with a running thread and with none; in a dead one's state the gate is shut.
LEMMA StopStep == IInv /\ Stop => IInv'
<1> SUFFICES ASSUME IInv, Stop PROVE IInv'
  OBVIOUS
<1>1. down' = down /\ down = FALSE /\ down' \in BOOLEAN
  BY DEF Stop, Called, IInv, TypeOK
<1>2. CASE StopRunning("stop")
  BY <1>1, <1>2, StopRunningStep
<1>3. CASE StopNothing("stop")
  <2> USE DEF IInv
  <2> DEFINE st == StoppedStatus(status)
  <2>1. st \in Status /\ st.threadActive = FALSE /\ st.lifecycle = "Stopped"
    BY DEF StoppedStatus, Status, TypeOK, LifecycleStates, SessionStates
  <2>2. status' = st /\ answer' \in Answers /\ recorded' \in LifecycleStates
    BY <1>3, <2>1, FinishType DEF StopNothing, Operations
  <2>3. thread = "none" /\ thread' = "none" /\ adapter' = adapter /\ adapter.session = "none"
    BY <1>3 DEF StopNothing, StatesAgree
  <2> HIDE DEF st
  <2>4. TypeOK'
    BY <1>1, <1>3, <2>1, <2>2, <2>3 DEF StopNothing, TypeOK, Answers, Operations
  <2>5. ThreadAgrees' /\ StatesAgree' /\ ShutdownStops'
    BY <1>1, <1>3, <2>1, <2>2, <2>3 DEF StopNothing, ThreadAgrees, StatesAgree, ShutdownStops
  <2> QED BY <2>4, <2>5
<1> QED BY <1>2, <1>3 DEF Stop

\* The shutdown of the container, in every state the runtime may be in.
LEMMA ShutdownStep == IInv /\ Shutdown => IInv'
<1> SUFFICES ASSUME IInv, Shutdown PROVE IInv'
  OBVIOUS
<1>1. down' \in BOOLEAN
  BY DEF Shutdown
<1>2. CASE StopRunning("shutdown")
  BY <1>1, <1>2, StopRunningStep
<1>3. CASE StopDead("shutdown")
  BY <1>1, <1>3, StopDeadStep
<1>4. CASE ~status.threadActive /\ UNCHANGED <<status, thread, threads, adapter, recorded, answer>>
  <2>1. thread = "none" /\ adapter.session = "none"
    BY <1>4 DEF IInv, ThreadAgrees, StatesAgree
  <2> QED BY <1>1, <1>4, <2>1 DEF IInv, TypeOK, ThreadAgrees, StatesAgree, ShutdownStops
<1> QED BY <1>2, <1>3, <1>4 DEF Shutdown

\* pump_etw_live_batches: an active provider has a session, so the drained status is
\* that of a live session and stays Active, however the hand-over ends.
LEMMA PumpStep == IInv /\ Pump => IInv'
<1> SUFFICES ASSUME IInv, Pump PROVE IInv'
  OBVIOUS
<1> USE DEF IInv
<1> DEFINE o == IF adapter.session = "none" THEN InactiveOutcome(adapter.state)
                                            ELSE LiveOutcome(adapter)
           drained == ApplyOutcome(status, o, "Active")
           counted == [drained EXCEPT !.published = @ + adapter.waiting]
<1>1. /\ thread = "running" /\ thread' = thread /\ threads' = threads /\ down' = down
      /\ adapter.state = "Active" /\ adapter.session # "none" /\ adapter \in Adapter
      /\ status \in Status /\ status.authorization = "Authorized" /\ down = FALSE
      /\ status.lifecycle = "Active" /\ adapter' = [adapter EXCEPT !.waiting = 0]
  BY DEF Pump, StatesAgree, TypeOK
<1>2. /\ adapter' \in Adapter /\ adapter'.state = "Active" /\ adapter'.session # "none"
  BY <1>1, LifecycleAssumption DEF Adapter
<1>3. o \in Outcome
  BY <1>1, OutcomeType
<1> HIDE DEF o
<1>4. /\ drained \in Status /\ drained.lifecycle = "Active"
      /\ drained.threadActive = status.threadActive /\ drained.authorization = "Authorized"
  BY <1>1, <1>3, ApplyType DEF LifecycleStates
<1> HIDE DEF drained
<1>5. /\ counted \in Status /\ counted.lifecycle = "Active"
      /\ counted.threadActive = status.threadActive /\ counted.authorization = "Authorized"
  <2>1. drained.published + adapter.waiting \in Nat
    BY <1>1, <1>4, LifecycleAssumption DEF Status, Adapter
  <2> QED BY <1>4, <2>1 DEF Status
<1> HIDE DEF counted
<1>6. /\ status' = drained \/ status' = counted
      /\ answer' \in Answers /\ recorded' \in LifecycleStates
  <2>1. \/ Fail("pump", drained)
        \/ Finish("pump", counted, FALSE)
        \/ /\ status' = drained /\ answer' = [op |-> "pump", ok |-> TRUE, started |-> FALSE]
           /\ UNCHANGED recorded
    BY DEF Pump, o, drained, counted
  <2>2. CASE Fail("pump", drained)
    BY <1>4, <2>2, FinishType DEF Operations
  <2>3. CASE Finish("pump", counted, FALSE)
    BY <1>5, <2>3, FinishType DEF Operations
  <2>4. CASE /\ status' = drained /\ answer' = [op |-> "pump", ok |-> TRUE, started |-> FALSE]
             /\ UNCHANGED recorded
    BY <2>4 DEF TypeOK, Answers, Operations
  <2> QED BY <2>1, <2>2, <2>3, <2>4
<1>7. TypeOK'
  BY <1>1, <1>2, <1>4, <1>5, <1>6 DEF TypeOK, Answers, Operations
<1>8. ThreadAgrees' /\ StatesAgree' /\ ShutdownStops'
  BY <1>1, <1>2, <1>4, <1>5, <1>6 DEF ThreadAgrees, StatesAgree, ShutdownStops
<1> QED BY <1>7, <1>8

\* The steps of the session and of Windows leave the adapter's state alone and never
\* take its session away.
LEMMA SessionStep == IInv /\ (Normalize \/ TraceEnds) => IInv'
<1> SUFFICES ASSUME IInv, Normalize \/ TraceEnds PROVE IInv'
  OBVIOUS
<1> USE DEF IInv
<1>1. /\ adapter' \in Adapter /\ adapter'.state = adapter.state /\ adapter'.session # "none"
      /\ adapter.session # "none"
  <2>1. CASE Normalize
    <3>1. /\ adapter.normalized + 1 \in Nat
          /\ (IF adapter.waiting < MaxWaiting THEN adapter.waiting + 1 ELSE adapter.waiting)
                \in 0 .. MaxWaiting
      BY LifecycleAssumption DEF TypeOK, Adapter
    <3> QED BY <2>1, <3>1 DEF Normalize, TypeOK, Adapter
  <2>2. CASE TraceEnds
    BY <2>2 DEF TraceEnds, TypeOK, Adapter
  <2> QED BY <2>1, <2>2
<1>2. UNCHANGED <<status, thread, threads, recorded, down, answer>>
  BY DEF Normalize, TraceEnds
<1> QED BY <1>1, <1>2 DEF TypeOK, ThreadAgrees, StatesAgree, ShutdownStops

-----------------------------------------------------------------------------

\* The inductive invariant holds in every reachable state.
THEOREM Invariance == Spec => []IInv
<1>1. IInv /\ [Next]_vars => IInv'
  <2> SUFFICES ASSUME IInv, [Next]_vars PROVE IInv'
    OBVIOUS
  <2>1. CASE Next
    BY <2>1, ActivateStep, ActivateAgainStep, PauseStep, ResumeStep, StopStep, ShutdownStep,
       PumpStep, SessionStep DEF Next
  <2>2. CASE UNCHANGED vars
    BY <2>2 DEF vars, IInv, TypeOK, ThreadAgrees, StatesAgree, ShutdownStops
  <2> QED BY <2>1, <2>2
<1> QED BY <1>1, InitIInv, PTL DEF Spec

\* Status, thread, adapter, recorded copy and answer keep their types, and the batch
\* queue its capacity.
THEOREM TypeCorrect == Spec => []TypeOK
<1>1. IInv => TypeOK
  BY DEF IInv
<1> QED BY <1>1, Invariance, PTL

\* A session that collects is one that the status calls Active and Authorized and whose
\* control thread can be told to stop it: no refused call, in any order of operations,
\* leaves one running behind another state.
THEOREM NoHidden == Spec => []NoHiddenCollection
<1>1. IInv => NoHiddenCollection
  BY DEF IInv, StatesAgree, NoHiddenCollection
<1> QED BY <1>1, Invariance, PTL

\* The gate's table is enough to keep a second control thread away.
THEOREM SingleThread == Spec => []OneControlThread
<1>1. IInv => OneControlThread
  BY DEF IInv, ThreadAgrees, OneControlThread
<1> QED BY <1>1, Invariance, PTL

\* Active is never said of an adapter without a session.
THEOREM ActiveIsBacked == Spec => []ActiveHasSession
<1>1. IInv => ActiveHasSession
  BY DEF IInv, StatesAgree, ActiveHasSession
<1> QED BY <1>1, Invariance, PTL

\* Status and session agree in both directions (pause, resume, stop and their error
\* paths, TraceEnds): collecting implies Active, and Active implies a session.
THEOREM StatusTrue == Spec => []StatusIsTrue
BY NoHidden, ActiveIsBacked, PTL DEF StatusIsTrue

\* A shutdown leaves no session and no control thread, whatever state it found.
THEOREM ShutdownComplete == Spec => []ShutdownStops
<1>1. IInv => ShutdownStops
  BY DEF IInv
<1> QED BY <1>1, Invariance, PTL

=============================================================================
