------------------------ MODULE NativeScheduler_proofs ------------------------
(***************************************************************************)
(* Proofs about the desktop's timer task (HostTask) and, below, about the  *)
(* native schedule that its ticks drive (NativeScheduler), for any number  *)
(* of tasks, commands and samplers.                                        *)
(*                                                                         *)
(* That there is one host task at most and that a stopped host has none is *)
(* not inductive. A task that is alive is the one that the slot has, or,   *)
(* while a stop waits for it, the one that the stop took from the slot     *)
(* (OwnedTask); when the stop goes on, none is (QuietStop); and a start    *)
(* that is on its way to spawn a task has left Stopped behind              *)
(* (StartedFirst).                                                         *)
(***************************************************************************)
EXTENDS NativeScheduler, HostTask, WellFoundedInduction, TLAPS

MainPoints == {"idle", "snapshot", "publish", "ensure", "notify", "joining", "stopping"}
NextPoints == {"idle", "ensure", "notify"}
CallNames == {"none", "start", "pause", "resume", "wake", "schedule", "tick", "stop"}
TaskPoints == {"unborn", "finished", "starting", "plan", "publish", "check", "ticking", "waking",
               "arming", "waiting", "woken", "cancelling", "leaving"}
TaskRecord == [at : TaskPoints, next : TaskPoints, snap : Lives, plan : {"idle", "due", "sleep"}]
MainRecord == [at : MainPoints, next : NextPoints, call : CallNames, snap : Lives,
               joining : Tasks \cup {NoTask}]

\* The types that the proofs need.
HostTypes ==
    /\ host \in HostStatus /\ kept \in HostStatus
    /\ slot \in [handle : Tasks \cup {NoTask}, signal : Tasks \cup {NoTask}]
    /\ task \in [Tasks -> TaskRecord]
    /\ main \in MainRecord

OwnedTask ==
    \A t \in Tasks : Alive(t) => t = IF main.at = "joining" THEN main.joining ELSE slot.handle
QuietStop == main.at = "stopping" => \A t \in Tasks : ~Alive(t)
StartedFirst ==
    main.at = "ensure" \/ (main.at \in {"snapshot", "publish"} /\ main.next = "ensure")
        => host.life # "Stopped"

HostInv == HostTypes /\ OwnedTask /\ QuietStop /\ StartedFirst /\ StoppedHasNoTask

-----------------------------------------------------------------------------
(* The status of the host.                                                 *)

\* No update of the status by a task or a refresh says Stopped.
LEMMA StatusKept ==
    ASSUME NEW h \in HostStatus, NEW sc, NEW active \in BOOLEAN
    PROVE  /\ Refreshed(h, sc) \in HostStatus /\ (Refreshed(h, sc).life = "Stopped" => h.life = "Stopped")
           /\ Updated(h, active) \in HostStatus /\ Updated(h, active).life = h.life
  BY DEF Refreshed, Updated, HostStatus, Lives, Timers

\* The status as it is used is one, and is Stopped only if the host is; so is what
\* a snapshot tells.
LEMMA CurrentStatus ==
    ASSUME HostTypes
    PROVE  /\ Current \in HostStatus /\ (Current.life = "Stopped" => host.life = "Stopped")
           /\ Published \in Lives
<1>1. host \in HostStatus /\ Refreshed(kept, sched) \in HostStatus
  BY StatusKept DEF HostTypes
<1>2. Published \in Lives
  BY <1>1 DEF Published, HostStatus
<1> QED BY <1>1, <1>2, StatusKept DEF Current

\* A life written into the status is the one read from it, also when a wake is
\* noted with it.
LEMMA LifeSet ==
    ASSUME NEW h \in HostStatus, NEW life \in Lives
    PROVE  /\ [h EXCEPT !.life = life] \in HostStatus /\ [h EXCEPT !.life = life].life = life
           /\ [h EXCEPT !.life = life, !.timer = PendingWake(@)] \in HostStatus
           /\ [h EXCEPT !.life = life, !.timer = PendingWake(@)].life = life
  BY DEF HostStatus, PendingWake, Timers

\* A wake leaves the host Running, Degraded or Revoked.
LEMMA WakeNeverStops ==
    ASSUME HostTypes, NEW sc, NEW life \in WakeLives
    PROVE  AfterWake(life, sc) \in HostStatus /\ AfterWake(life, sc).life # "Stopped"
<1>1. Current \in HostStatus /\ life \in Lives /\ life # "Stopped"
  BY CurrentStatus DEF WakeLives, Lives
<1> DEFINE g == [Current EXCEPT !.life = life]
<1>2. g \in HostStatus /\ g.life # "Stopped"
  BY <1>1, LifeSet
<1> HIDE DEF g
<1>3. Refreshed(g, sc) \in HostStatus /\ Refreshed(g, sc).life # "Stopped"
  BY <1>2, StatusKept
<1> QED BY <1>3 DEF g, AfterWake

-----------------------------------------------------------------------------
(* The steps of a task.                                                    *)

\* A step of a task that is alive: it moves that task, the main thread and the
\* slot stay, and the host is not stopped by it.
Lively(t) ==
    /\ task' \in [Tasks -> TaskRecord] /\ Alive(t)
    /\ \A u \in Tasks : u # t => task'[u] = task[u]
    /\ UNCHANGED <<main, slot>>
    /\ host' \in HostStatus /\ kept' \in HostStatus
    /\ host'.life = "Stopped" => host.life = "Stopped"

\* A step that only moves the task.
LEMMA MoveFacts ==
    ASSUME NEW t \in Tasks, HostTypes, NEW at \in TaskPoints \ {"unborn", "finished"}, NEW next \in TaskPoints,
           Move(t, at, next)
    PROVE  Lively(t)
<1>1. [task[t] EXCEPT !.at = next] \in TaskRecord
  BY DEF HostTypes, TaskRecord
<1>2. task' = [task EXCEPT ![t] = [task[t] EXCEPT !.at = next]] /\ UNCHANGED <<main, slot, host, kept>>
  BY DEF Move, core
<1>3. Alive(t)
  BY DEF Move, Alive
<1> QED BY <1>1, <1>2, <1>3 DEF Lively, HostTypes

\* A step that changes the status under the lock, to one that is not newly Stopped.
LEMMA MutateFacts ==
    ASSUME NEW t \in Tasks, HostTypes, NEW at \in TaskPoints \ {"unborn", "finished"}, NEW next \in TaskPoints,
           NEW h \in HostStatus, h.life = "Stopped" => host.life = "Stopped",
           Mutate(t, at, h, next)
    PROVE  Lively(t)
<1>1. Alive(t) /\ host' = h /\ kept' \in {h, kept} /\ UNCHANGED <<main, slot>>
  BY DEF Mutate, Alive
<1>2. CASE task' = [task EXCEPT ![t].at = next]
  <2>1. [task[t] EXCEPT !.at = next] \in TaskRecord
    BY DEF HostTypes, TaskRecord
  <2>2. task' = [task EXCEPT ![t] = [task[t] EXCEPT !.at = next]]
    BY <1>2
  <2> QED BY <1>1, <2>1, <2>2 DEF Lively, HostTypes
<1>3. CASE task' = [task EXCEPT ![t].at = "publish", ![t].snap = h.life, ![t].next = next]
  <2> DEFINE r0 == [task[t] EXCEPT !.at = "publish"]
             r1 == [r0 EXCEPT !.snap = h.life]
             r == [r1 EXCEPT !.next = next]
  <2>1. task' = [task EXCEPT ![t] = r]
    BY <1>3 DEF HostTypes
  <2>2. r \in TaskRecord
    <3>1. r0 \in TaskRecord /\ h.life \in Lives
      BY DEF HostTypes, TaskRecord, TaskPoints, HostStatus
    <3> HIDE DEF r0
    <3>2. r1 \in TaskRecord
      BY <3>1 DEF TaskRecord
    <3> HIDE DEF r1
    <3> QED BY <3>2 DEF TaskRecord
  <2> HIDE DEF r
  <2> QED BY <1>1, <2>1, <2>2 DEF Lively, HostTypes
<1> QED BY <1>2, <1>3 DEF Mutate

\* record_timer_runtime_update is such a change.
LEMMA RecordFacts ==
    ASSUME NEW t \in Tasks, HostTypes, NEW at \in TaskPoints \ {"unborn", "finished"}, NEW next \in TaskPoints,
           NEW active \in BOOLEAN, Record(t, at, active, next)
    PROVE  Lively(t)
<1> DEFINE h == Updated(Current, active)
<1>1. h \in HostStatus /\ (h.life = "Stopped" => host.life = "Stopped")
  BY CurrentStatus, StatusKept
<1>2. Mutate(t, at, h, next)
  BY DEF Record
<1> HIDE DEF h
<1> QED BY <1>1, <1>2, MutateFacts

\* Every step of a task is of that kind.
LEMMA TaskStepFacts ==
    ASSUME NEW t \in Tasks, HostTypes, TaskStep(t)
    PROVE  Lively(t)
<1> USE DEF TaskPoints
<1>1. CASE Publish(t)
  <2> DEFINE r0 == [task[t] EXCEPT !.at = task[t].next]
             r1 == [r0 EXCEPT !.next = "unborn"]
             r == [r1 EXCEPT !.snap = NoSnapshot]
  <2>1. task' = [task EXCEPT ![t] = r] /\ UNCHANGED <<host, kept, main, slot>> /\ task[t].at = "publish"
    BY <1>1 DEF Publish, HostTypes, core
  <2>2. r \in TaskRecord
    <3>1. r0 \in TaskRecord
      BY DEF HostTypes, TaskRecord
    <3> HIDE DEF r0
    <3>2. r1 \in TaskRecord
      BY <3>1 DEF TaskRecord
    <3>3. NoSnapshot \in Lives
      BY DEF NoSnapshot, Lives
    <3> HIDE DEF r1
    <3> QED BY <3>2, <3>3 DEF TaskRecord
  <2> HIDE DEF r
  <2> QED BY <2>1, <2>2 DEF Lively, HostTypes, Alive
<1>2. CASE Plan(t)
  <2>1. PICK plan \in {"idle", "due", "sleep"} :
          task' = [task EXCEPT ![t].at = "publish", ![t].snap = Published, ![t].next = "check", ![t].plan = plan]
    BY <1>2 DEF Plan
  <2> DEFINE r0 == [task[t] EXCEPT !.at = "publish"]
             r1 == [r0 EXCEPT !.snap = Published]
             r2 == [r1 EXCEPT !.next = "check"]
             r == [r2 EXCEPT !.plan = plan]
  <2>2. task' = [task EXCEPT ![t] = r] /\ UNCHANGED <<host, kept, main, slot>> /\ task[t].at = "plan"
    BY <1>2, <2>1 DEF Plan, HostTypes, core
  <2>3. r \in TaskRecord
    <3>1. r0 \in TaskRecord
      BY DEF HostTypes, TaskRecord
    <3> HIDE DEF r0
    <3>2. r1 \in TaskRecord
      BY <3>1, CurrentStatus DEF TaskRecord
    <3> HIDE DEF r1
    <3>3. r2 \in TaskRecord
      BY <3>2 DEF TaskRecord
    <3> HIDE DEF r2
    <3> QED BY <3>3 DEF TaskRecord
  <2> HIDE DEF r
  <2> QED BY <2>2, <2>3 DEF Lively, HostTypes, Alive
<1>3. CASE PlanFails(t)
  <2> DEFINE h0 == [Current EXCEPT !.life = "Failed"]
             h == Updated(h0, FALSE)
  <2>1. h \in HostStatus /\ h.life # "Stopped"
    <3>1. h0 \in HostStatus /\ h0.life = "Failed"
      BY LifeSet, CurrentStatus DEF Lives
    <3> HIDE DEF h0
    <3> QED BY <3>1, StatusKept
  <2>2. Mutate(t, "plan", h, "leaving") \/ Move(t, "plan", "leaving")
    BY <1>3 DEF PlanFails
  <2> HIDE DEF h
  <2> QED BY <2>1, <2>2, MutateFacts, MoveFacts
<1>4. CASE Check(t)
  BY <1>4, MoveFacts DEF Check
<1>5. CASE Waking(t)
  <2>1. CASE task[t].at = "waking" /\ task' = [task EXCEPT ![t].at = "plan"] /\ host' = Current
             /\ UNCHANGED <<kept, sched, shown, slot, signal, main, calls>>
    <3>1. [task[t] EXCEPT !.at = "plan"] \in TaskRecord
      BY DEF HostTypes, TaskRecord
    <3>2. task' = [task EXCEPT ![t] = [task[t] EXCEPT !.at = "plan"]]
      BY <2>1
    <3>3. host' \in HostStatus /\ (host'.life = "Stopped" => host.life = "Stopped")
      BY <2>1, CurrentStatus
    <3> QED BY <2>1, <3>1, <3>2, <3>3 DEF Lively, HostTypes, Alive
  <2>2. ASSUME NEW sc, NEW life \in WakeLives, Mutate(t, "waking", AfterWake(life, sc), "plan")
        PROVE  Lively(t)
    <3> DEFINE h == AfterWake(life, sc)
    <3>1. h \in HostStatus /\ h.life # "Stopped" /\ Mutate(t, "waking", h, "plan")
      BY <2>2, WakeNeverStops
    <3> HIDE DEF h
    <3> QED BY <3>1, MutateFacts
  <2> QED BY <1>5, <2>1, <2>2 DEF Waking
<1>6. CASE Waits(t)
  <2>1. CASE Move(t, "waiting", "cancelling")
    BY <2>1, MoveFacts
  <2>2. CASE TakesWake(t)
    <3>1. [task[t] EXCEPT !.at = "woken"] \in TaskRecord
      BY DEF HostTypes, TaskRecord
    <3>2. task' = [task EXCEPT ![t] = [task[t] EXCEPT !.at = "woken"]] /\ task[t].at = "waiting"
          /\ UNCHANGED <<host, kept, slot, main>>
      BY <2>2 DEF TakesWake, core
    <3> QED BY <3>1, <3>2 DEF Lively, HostTypes, Alive
  <2>3. CASE Sleeps(t)
    BY <2>3, MoveFacts DEF Sleeps
  <2> QED BY <1>6, <2>1, <2>2, <2>3 DEF Waits
<1>7. CASE Starting(t) \/ Ticking(t) \/ Arming(t) \/ TaskWoken(t) \/ Cancelling(t) \/ Leaving(t)
  BY <1>7, RecordFacts DEF Starting, Ticking, Arming, TaskWoken, Cancelling, Leaving
<1> QED
  BY <1>1, <1>2, <1>3, <1>4, <1>5, <1>6, <1>7 DEF TaskStep

-----------------------------------------------------------------------------
(* The steps of the main thread.                                           *)

\* A command that goes on takes a snapshot, and only a start spawns after it.
LEMMA MainProceeds ==
    ASSUME main \in MainRecord, NEW call \in CallNames, Proceed(call)
    PROVE  /\ main' \in MainRecord /\ main'.at = "snapshot"
           /\ main'.next = "ensure" => call = "start"
<1> DEFINE nx == IF call = "tick" THEN "idle" ELSE IF call = "start" THEN "ensure" ELSE "notify"
<1>1. /\ main' = [main EXCEPT !.at = "snapshot", !.call = call, !.next = nx]
      /\ nx \in NextPoints /\ (nx = "ensure" => call = "start")
  BY DEF Proceed, NextPoints
<1> HIDE DEF nx
<1>2. main' \in MainRecord
  BY <1>1 DEF MainRecord, MainPoints
<1> QED BY <1>1, <1>2 DEF MainRecord

\* One that is refused leaves the main thread where it was.
LEMMA MainStays ==
    ASSUME main \in MainRecord, main' = [main EXCEPT !.call = "none"]
    PROVE  main' \in MainRecord /\ main'.at = main.at
<1>1. main' \in MainRecord
  BY DEF MainRecord, CallNames
<1> QED BY <1>1 DEF MainRecord

\* A command keeps the invariant: it does not stop the host, and a start leaves
\* Stopped before it goes on to spawn.
LEMMA CommandKeeps ==
    ASSUME HostInv, NEW h \in HostStatus, NEW sc, NEW call \in CallNames,
           h.life = "Stopped" => host.life = "Stopped",
           call = "start" => h.life # "Stopped",
           Command(call, h, sc)
    PROVE  HostInv'
<1> USE DEF HostInv
<1>0. main \in MainRecord /\ main.at = "idle"
  BY DEF Command, Called, HostTypes
<1>1. main' \in MainRecord /\ main'.at \in {"idle", "snapshot"}
      /\ (main'.at = "snapshot" /\ main'.next = "ensure" => call = "start")
  BY <1>0, MainProceeds, MainStays DEF Command
<1>2. host' = h /\ kept' \in {h, kept} /\ UNCHANGED <<slot, task>>
  BY DEF Command
<1>5. HostTypes'
  BY <1>1, <1>2 DEF HostTypes
<1>6. OwnedTask' /\ QuietStop'
  BY <1>0, <1>1, <1>2 DEF OwnedTask, QuietStop, Alive
<1>7. StartedFirst'
  BY <1>1, <1>2 DEF StartedFirst
<1>8. StoppedHasNoTask'
  BY <1>2 DEF StoppedHasNoTask, Alive
<1> QED BY <1>5, <1>6, <1>7, <1>8

\* The commands of the frontend keep the invariant.
LEMMA CommandsKeep ==
    ASSUME HostInv,
           \/ StartHost \/ PauseHost \/ ResumeHost \/ WakeHost \/ ChangeSchedule \/ TickByHand
           \/ RefusedCommand
    PROVE  HostInv'
<1>0. /\ HostTypes /\ host \in HostStatus
      /\ Current \in HostStatus /\ (Current.life = "Stopped" => host.life = "Stopped")
  BY CurrentStatus DEF HostInv, HostTypes
<1> USE DEF CallNames
<1>1. CASE StartHost
  <2> DEFINE h == [life |-> "Running", owned |-> TRUE, timer |-> "active"]
  <2>1. h \in HostStatus /\ h.life = "Running"
    BY DEF HostStatus, Lives, Timers
  <2>2. (Command("start", Current, sched) /\ Current.life = "Running") \/ Command("start", h, sched)
    BY <1>1 DEF StartHost
  <2> HIDE DEF h
  <2> QED BY <1>0, <2>1, <2>2, CommandKeeps
<1>2. CASE PauseHost
  <2> DEFINE h == [Current EXCEPT !.life = "Paused", !.timer = PendingWake(@)]
  <2>1. h \in HostStatus /\ h.life = "Paused"
    BY <1>0, LifeSet DEF Lives
  <2>2. Command("pause", h, sched)
    BY <1>2 DEF PauseHost
  <2> HIDE DEF h
  <2> QED BY <2>1, <2>2, CommandKeeps
<1>3. CASE ResumeHost
  <2> DEFINE h == [Current EXCEPT !.life = "Running", !.timer = PendingWake(@)]
  <2>1. h \in HostStatus /\ h.life = "Running"
    BY <1>0, LifeSet DEF Lives
  <2>2. Command("resume", h, sched)
    BY <1>3 DEF ResumeHost
  <2> HIDE DEF h
  <2> QED BY <2>1, <2>2, CommandKeeps
<1>4. CASE WakeHost
  <2>1. PICK sc \in AfterTick, life \in WakeLives : Command("wake", AfterWake(life, sc), sc)
    BY <1>4 DEF WakeHost
  <2> DEFINE h == AfterWake(life, sc)
  <2>2. h \in HostStatus /\ h.life # "Stopped" /\ Command("wake", h, sc)
    BY <1>0, <2>1, WakeNeverStops
  <2> HIDE DEF h
  <2> QED BY <2>2, CommandKeeps
<1>5. CASE ChangeSchedule
  <2>1. PICK sc \in Schedules : Command("schedule", Refreshed(host, sc), sc)
    BY <1>5 DEF ChangeSchedule
  <2> DEFINE h == Refreshed(host, sc)
  <2>2. h \in HostStatus /\ (h.life = "Stopped" => host.life = "Stopped") /\ Command("schedule", h, sc)
    BY <1>0, <2>1, StatusKept
  <2> HIDE DEF h
  <2> QED BY <2>2, CommandKeeps
<1>6. CASE TickByHand
  <2>1. main.at = "idle" /\ main \in MainRecord /\ UNCHANGED <<host, kept, slot, task>>
    BY <1>0, <1>6 DEF TickByHand, Called, HostTypes
  <2>2. main' \in MainRecord /\ main'.at = "snapshot" /\ main'.next # "ensure"
    BY <1>6, <2>1, MainProceeds DEF TickByHand
  <2> QED
    BY <2>1, <2>2 DEF HostInv, HostTypes, OwnedTask, QuietStop, StartedFirst, StoppedHasNoTask, Alive
<1>7. CASE RefusedCommand
  <2>1. main.at = "idle" /\ main \in MainRecord /\ host' = Current /\ UNCHANGED <<kept, slot, task>>
    BY <1>0, <1>7 DEF RefusedCommand, Called, HostTypes
  <2>2. main' \in MainRecord /\ main'.at = "idle"
    BY <1>7, <2>1, MainStays DEF RefusedCommand
  <2> QED
    BY <1>0, <2>1, <2>2 DEF HostInv, HostTypes, OwnedTask, QuietStop, StartedFirst, StoppedHasNoTask, Alive
<1> QED BY <1>1, <1>2, <1>3, <1>4, <1>5, <1>6, <1>7

\* So do the steps that follow a command on the main thread, and those of a stop.
LEMMA MainStepsKeep ==
    ASSUME HostInv, MainStep \/ StopHost
    PROVE  HostInv'
<1> USE DEF HostInv
<1>0. main \in MainRecord /\ host \in HostStatus /\ kept \in HostStatus /\ slot \in [handle : Tasks \cup {NoTask}, signal : Tasks \cup {NoTask}]
  BY DEF HostTypes
<1>1. CASE MainSnapshot
  <2>1. /\ main' = [main EXCEPT !.at = "publish", !.snap = Published] /\ main.at = "snapshot"
        /\ UNCHANGED <<host, kept, slot, task>>
    BY <1>1 DEF MainSnapshot, core
  <2>2. main' \in MainRecord
    BY <1>0, <2>1, CurrentStatus DEF MainRecord, MainPoints
  <2>3. main'.at = "publish" /\ main'.next = main.next
    BY <1>0, <2>1 DEF MainRecord
  <2> QED
    BY <2>1, <2>2, <2>3 DEF HostTypes, OwnedTask, QuietStop, StartedFirst, StoppedHasNoTask, Alive
<1>2. CASE MainPublish
  <2>1. /\ main' = [main EXCEPT !.at = main.next, !.next = "idle", !.snap = NoSnapshot]
        /\ main.at = "publish" /\ UNCHANGED <<host, kept, slot, task>>
    BY <1>2 DEF MainPublish, core
  <2>2. main.next \in NextPoints /\ main.next \in MainPoints /\ NoSnapshot \in Lives
    BY <1>0 DEF MainRecord, NextPoints, MainPoints, NoSnapshot, Lives
  <2>3. main' \in MainRecord
    BY <1>0, <2>1, <2>2 DEF MainRecord, NextPoints
  <2>4. main'.at = main.next
    BY <1>0, <2>1 DEF MainRecord
  <2> QED
    BY <2>1, <2>2, <2>3, <2>4
    DEF HostTypes, OwnedTask, QuietStop, StartedFirst, StoppedHasNoTask, Alive, NextPoints
<1>3. CASE EnsureStarted
  <2>1. /\ main' = [main EXCEPT !.at = "notify"] /\ main.at = "ensure" /\ UNCHANGED <<host, kept>>
    BY <1>3 DEF EnsureStarted, core
  <2>2. main' \in MainRecord
    BY <1>0, <2>1 DEF MainRecord, MainPoints
  <2>3. main'.at = "notify"
    BY <1>0, <2>1 DEF MainRecord
  <2>4. host.life # "Stopped"
    BY <2>1 DEF StartedFirst
  <2>5. QuietStop' /\ StartedFirst' /\ StoppedHasNoTask'
    BY <2>1, <2>3, <2>4 DEF QuietStop, StartedFirst, StoppedHasNoTask
  <2>6. CASE HasTask
    <3>1. UNCHANGED <<slot, task>>
      BY <1>3, <2>6 DEF EnsureStarted
    <3> QED BY <2>1, <2>2, <2>3, <2>5, <3>1 DEF HostTypes, OwnedTask, Alive
  <2>7. CASE ~HasTask
    <3>1. PICK t \in Tasks : slot' = [handle |-> t, signal |-> t]
                           /\ task' = [task EXCEPT ![t].at = "starting"]
      BY <1>3, <2>7 DEF EnsureStarted
    <3>2. \A u \in Tasks : ~Alive(u)
      BY <2>1, <2>7 DEF OwnedTask, HasTask, Alive, Tasks, NoTask
    <3>3. task' = [task EXCEPT ![t] = [task[t] EXCEPT !.at = "starting"]]
      BY <3>1
    <3>4. [task[t] EXCEPT !.at = "starting"] \in TaskRecord
      BY DEF HostTypes, TaskRecord, TaskPoints
    <3>5. task' \in [Tasks -> TaskRecord] /\ \A u \in Tasks : u # t => task'[u] = task[u]
      BY <3>3, <3>4 DEF HostTypes
    <3>6. HostTypes'
      BY <1>0, <2>1, <2>2, <3>1, <3>5 DEF HostTypes
    <3>7. OwnedTask'
      BY <2>3, <3>1, <3>2, <3>5 DEF OwnedTask, Alive
    <3> QED BY <2>5, <3>6, <3>7
  <2> QED BY <2>6, <2>7
<1>4. CASE NotifyTask
  <2>1. main.at = "notify" /\ UNCHANGED <<host, kept, slot, task>>
    BY <1>4 DEF NotifyTask, core
  <2>2. main' \in MainRecord /\ (main'.at = "idle" \/ (main'.at = "snapshot" /\ main'.next = "idle"))
    <3>1. CASE main' = [main EXCEPT !.at = "snapshot", !.next = "idle"]
      <4>1. main' \in MainRecord
        BY <1>0, <3>1 DEF MainRecord, MainPoints, NextPoints
      <4> QED BY <1>0, <3>1, <4>1 DEF MainRecord
    <3>2. CASE main' = [main EXCEPT !.at = "idle"]
      <4>1. main' \in MainRecord
        BY <1>0, <3>2 DEF MainRecord, MainPoints
      <4> QED BY <1>0, <3>2, <4>1 DEF MainRecord
    <3> QED BY <1>4, <3>1, <3>2 DEF NotifyTask
  <2> QED
    BY <2>1, <2>2 DEF HostTypes, OwnedTask, QuietStop, StartedFirst, StoppedHasNoTask, Alive
<1>5. CASE StopHost
  <2>1. /\ main' = [main EXCEPT !.at = "joining", !.call = "stop", !.joining = slot.handle]
        /\ slot' = [slot EXCEPT !.handle = NoTask] /\ main.at = "idle" /\ UNCHANGED <<host, kept, task>>
    BY <1>5 DEF StopHost, core
  <2>2. main' \in MainRecord
    <3>1. slot.handle \in Tasks \cup {NoTask}
      BY <1>0
    <3> QED BY <1>0, <2>1, <3>1 DEF MainRecord, MainPoints, CallNames
  <2>3. main'.at = "joining" /\ main'.joining = slot.handle
    BY <1>0, <2>1 DEF MainRecord
  <2>4. slot' \in [handle : Tasks \cup {NoTask}, signal : Tasks \cup {NoTask}]
    BY <1>0, <2>1
  <2> QED
    BY <2>1, <2>2, <2>3, <2>4 DEF HostTypes, OwnedTask, QuietStop, StartedFirst, StoppedHasNoTask, Alive
<1>6. CASE StopJoins
  <2>1. /\ main' = [main EXCEPT !.at = "stopping", !.joining = NoTask]
        /\ slot' = [slot EXCEPT !.signal = NoTask] /\ main.at = "joining" /\ UNCHANGED <<host, kept, task>>
        /\ (main.joining # NoTask => task[main.joining].at = "finished")
    BY <1>6 DEF StopJoins, core
  <2>2. main' \in MainRecord
    BY <1>0, <2>1 DEF MainRecord, MainPoints
  <2>3. main'.at = "stopping"
    BY <1>0, <2>1 DEF MainRecord
  <2>4. slot' \in [handle : Tasks \cup {NoTask}, signal : Tasks \cup {NoTask}]
    BY <1>0, <2>1
  <2>5. \A t \in Tasks : ~Alive(t)
    BY <2>1 DEF OwnedTask, Alive, Tasks, NoTask
  <2> QED
    BY <2>1, <2>2, <2>3, <2>4, <2>5 DEF HostTypes, OwnedTask, QuietStop, StartedFirst, StoppedHasNoTask, Alive
<1>7. CASE StopTimesOut
  <2>1. /\ main' = [main EXCEPT !.at = "idle", !.call = "none", !.joining = NoTask]
        /\ slot' = [slot EXCEPT !.handle = main.joining] /\ main.at = "joining"
        /\ UNCHANGED <<host, kept, task>>
    BY <1>7 DEF StopTimesOut, AfterTimeout, core
  <2>2. main' \in MainRecord
    BY <1>0, <2>1 DEF MainRecord, MainPoints, CallNames
  <2>3. main'.at = "idle"
    BY <1>0, <2>1 DEF MainRecord
  <2>4. main.joining \in Tasks \cup {NoTask}
    BY <1>0 DEF MainRecord
  <2>5. slot' \in [handle : Tasks \cup {NoTask}, signal : Tasks \cup {NoTask}] /\ slot'.handle = main.joining
    BY <1>0, <2>1, <2>4
  <2> QED
    BY <2>1, <2>2, <2>3, <2>5 DEF HostTypes, OwnedTask, QuietStop, StartedFirst, StoppedHasNoTask, Alive
<1>8. CASE StopStatus
  <2>1. /\ main' = [main EXCEPT !.at = "snapshot", !.next = "idle"] /\ main.at = "stopping"
        /\ host' = [life |-> "Stopped", owned |-> FALSE, timer |-> "inactive"] /\ kept' = host'
        /\ UNCHANGED <<slot, task>>
    BY <1>8 DEF StopStatus
  <2>2. main' \in MainRecord
    BY <1>0, <2>1 DEF MainRecord, MainPoints, NextPoints
  <2>3. main'.at = "snapshot" /\ main'.next = "idle"
    BY <1>0, <2>1 DEF MainRecord
  <2>4. host' \in HostStatus
    BY <2>1 DEF HostStatus, Lives, Timers
  <2> QED
    BY <2>1, <2>2, <2>3, <2>4 DEF HostTypes, OwnedTask, QuietStop, StartedFirst, StoppedHasNoTask, Alive
<1> QED
  BY <1>1, <1>2, <1>3, <1>4, <1>5, <1>6, <1>7, <1>8 DEF MainStep

-----------------------------------------------------------------------------

\* The steps of a task keep the invariant: the one that moves was alive before,
\* and no other is moved.
LEMMA TaskStepsKeep ==
    ASSUME HostInv, NEW t \in Tasks, TaskStep(t)
    PROVE  HostInv'
<1>1. Lively(t)
  BY TaskStepFacts DEF HostInv
<1>2. HostTypes'
  BY <1>1 DEF Lively, HostInv, HostTypes
<1>3. \A u \in Tasks : Alive(u)' => Alive(u)
  BY <1>1 DEF Lively, Alive
<1>4. UNCHANGED <<main, slot>> /\ (host'.life = "Stopped" => host.life = "Stopped")
  BY <1>1 DEF Lively
<1> QED
  BY <1>2, <1>3, <1>4 DEF HostInv, OwnedTask, QuietStop, StartedFirst, StoppedHasNoTask

\* The invariant of the host task holds in every state, for any number of tasks
\* that are ever spawned and commands that are ever given.
THEOREM HostInvariant == HostSpec => []HostInv
<1>1. HostInit => HostInv
  <2> SUFFICES ASSUME HostInit PROVE HostInv
    OBVIOUS
  <2>1. NoSnapshot \in Lives /\ host \in HostStatus /\ host.life = "Disabled"
    BY DEF NoSnapshot, HostInit, HostStatus, Lives, Timers
  <2>2. Unborn \in TaskRecord /\ Unborn.at = "unborn"
    BY <2>1 DEF Unborn, TaskRecord, TaskPoints
  <2>3. HostTypes
    BY <2>1, <2>2 DEF HostInit, HostTypes, MainRecord, MainPoints, NextPoints, CallNames
  <2>4. \A t \in Tasks : ~Alive(t)
    BY <2>2 DEF HostInit, Alive
  <2>5. main.at = "idle"
    BY DEF HostInit
  <2> QED
    BY <2>3, <2>4, <2>5 DEF HostInv, OwnedTask, QuietStop, StartedFirst, StoppedHasNoTask
<1>2. HostInv /\ [HostNext]_hostVars => HostInv'
  <2> SUFFICES ASSUME HostInv, [HostNext]_hostVars PROVE HostInv'
    OBVIOUS
  <2>1. CASE UNCHANGED hostVars
    BY <2>1 DEF hostVars, core, HostInv, HostTypes, OwnedTask, QuietStop, StartedFirst, StoppedHasNoTask, Alive
  <2>2. CASE HostNext
    BY <2>2, CommandsKeep, MainStepsKeep, TaskStepsKeep DEF HostNext
  <2> QED BY <2>1, <2>2
<1> QED BY <1>1, <1>2, PTL DEF HostSpec

\* There is one host task at most (NativeSchedulerHostTask): ensure_started looks
\* only at the handle in the slot, and no task that is alive is missing from it but
\* the one a stop is waiting for, during which no command runs.
THEOREM SingleHostTask == HostSpec => []OneHostTask
<1>1. HostInv => OneHostTask
  BY DEF HostInv, OwnedTask, OneHostTask
<1> QED BY <1>1, HostInvariant, PTL

\* A host that says Stopped has no task: stop_native_scheduler_host writes the state
\* only after the join, and nothing spawns a task before a start has left it.
THEOREM StoppedIsQuiet == HostSpec => []StoppedHasNoTask
<1>1. HostInv => StoppedHasNoTask
  BY DEF HostInv
<1> QED BY <1>1, HostInvariant, PTL

\* Tasks and state agree: start, stop with its timeout, and a task's own leave never
\* have two tasks, nor one behind a host that says Stopped.
THEOREM TasksMatch == HostSpec => []TasksMatchState
BY SingleHostTask, StoppedIsQuiet, PTL DEF TasksMatchState

-----------------------------------------------------------------------------
(* The schedule (NativeScheduler).  RunningHasWork becomes inductive with  *)
(* WorkState: schedules are enabled only under a controller that runs or   *)
(* is paused.  RetriesWithinBudget needs the reason why a sampler that ran *)
(* less than an interval ago cannot be run for free (Spaced): its due time *)
(* still lies ahead, or every quick run so far has used up a retry.  It is *)
(* said of enabled schedules only, since what a switched-off one left      *)
(* behind is reset when it is enabled again.                               *)

\* The types of the state that the proofs need.
ScheduleTypes ==
    /\ budget \in [Samplers -> Nat]
    /\ DOMAIN dueIn \subseteq Samplers /\ \A s \in DOMAIN dueIn : dueIn[s] \in 0 .. Interval
    /\ DOMAIN retry \subseteq Samplers /\ \A s \in DOMAIN retry : retry[s] \in Nat
    /\ since \in [Samplers -> 0 .. Interval] /\ quick \in [Samplers -> Nat]

WorkState == enabled # {} => ctl \in {"Running", "Paused"}

Spaced(s) ==
    \/ since[s] = Interval
    \/ s \in DOMAIN dueIn /\ dueIn[s] + since[s] >= Interval
    \/ s \in DOMAIN retry /\ quick[s] + 1 <= retry[s]

RetriesUsed ==
    /\ \A s \in DOMAIN retry : retry[s] <= budget[s]
    /\ \A s \in enabled : Spaced(s)

WorkInv == RunningHasWork /\ WorkState
RetryInv == ScheduleTypes /\ RetriesUsed /\ RetriesWithinBudget
ScheduleInv == WorkInv /\ RetryInv

\* The smaller and the larger of two times, and the least of a set of times.
LEMMA LeastFacts ==
    /\ \A a, b \in Int : Least({a, b}) = IF a <= b THEN a ELSE b
    /\ \A a, b \in Int : Most({a, b}) = IF a >= b THEN a ELSE b
    /\ \A S \in SUBSET Nat : S # {} => Least(S) \in S
<1>1. ASSUME NEW a \in Int, NEW b \in Int PROVE Least({a, b}) = IF a <= b THEN a ELSE b
  <2>1. \E x \in {a, b} : \A y \in {a, b} : x <= y
    OBVIOUS
  <2>2. Least({a, b}) \in {a, b} /\ \A y \in {a, b} : Least({a, b}) <= y
    BY <2>1 DEF Least
  <2> QED BY <2>2
<1>2. ASSUME NEW a \in Int, NEW b \in Int PROVE Most({a, b}) = IF a >= b THEN a ELSE b
  <2>1. \E x \in {a, b} : \A y \in {a, b} : x >= y
    OBVIOUS
  <2>2. Most({a, b}) \in {a, b} /\ \A y \in {a, b} : Most({a, b}) >= y
    BY <2>1 DEF Most
  <2> QED BY <2>2
<1>3. ASSUME NEW S \in SUBSET Nat, S # {} PROVE Least(S) \in S
  <2> DEFINE R == OpToRel(<, Nat)
  <2>1. \A x, y \in Nat : <<x, y>> \in R <=> x < y
    BY DEF OpToRel
  <2>2. IsWellFoundedOn(R, Nat)
    BY NatLessThanWellFounded
  <2> HIDE DEF R
  <2>3. \E x \in S : \A y \in S : <<y, x>> \notin R
    BY <1>3, <2>2, WFMin
  <2>4. \E x \in S : \A y \in S : x <= y
    <3>1. PICK x \in S : \A y \in S : <<y, x>> \notin R
      BY <2>3
    <3>2. ASSUME NEW y \in S PROVE x <= y
      <4>1. x \in Nat /\ y \in Nat /\ <<y, x>> \notin R
        BY <3>1
      <4>2. ~(y < x)
        BY <2>1, <4>1
      <4> QED BY <4>1, <4>2
    <3> QED BY <3>2
  <2> QED BY <2>4 DEF Least
<1> QED
  BY <1>1, <1>2, <1>3

-----------------------------------------------------------------------------
(* Reconciliation.                                                         *)

\* A reconciliation only takes schedules away, and its state follows what is left.
LEMMA ReconcileFacts ==
    ASSUME NEW en, NEW c, NEW st, NEW cp, en # {} => c \in {"Running", "Paused"}
    PROVE  LET r == Reconcile(en, c, st, cp) IN
           /\ r.enabled = en \cap Eligible(st, cp)
           /\ r.ctl = "Running" => r.enabled # {} /\ c = "Running"
           /\ r.enabled # {} => r.ctl = c
           /\ r.ctl = "Stopping" => c = "Stopping"
           /\ r.ctl = "Paused" => c = "Paused"
<1> DEFINE eligible == Eligible(st, cp)
           left == en \cap eligible
           revoked == \A s \in Samplers : StatusOf(st, cp, s).perm = "Revoked"
           k == IF revoked THEN "Revoked"
                ELSE IF en # {} /\ left = {} THEN "Degraded"
                ELSE IF c \notin {"Disabled", "Paused", "Stopping", "Stopped"}
                  THEN AfterChange(left, eligible)
                ELSE IF c = "Disabled" /\ eligible # {} THEN "Ready"
                ELSE c
<1>1. Reconcile(en, c, st, cp) = [enabled |-> left, ctl |-> k]
  BY DEF Reconcile
<1>2. left # {} => ~revoked
  <2> SUFFICES ASSUME NEW s \in left PROVE ~revoked
    OBVIOUS
  <2>1. s \in Samplers /\ StatusOf(st, cp, s) = [perm |-> "Granted", run |-> "Active"]
    BY DEF Eligible
  <2>2. StatusOf(st, cp, s).perm = "Granted"
    BY <2>1
  <2> QED BY <2>1, <2>2
<1>3. AfterChange(left, eligible) = IF left # {} THEN "Running"
                                    ELSE IF eligible # {} THEN "Ready" ELSE "Disabled"
  BY DEF AfterChange
<1> HIDE DEF revoked, eligible
<1>4. /\ k = "Running" => left # {} /\ c = "Running"
      /\ left # {} => k = c
      /\ k = "Stopping" => c = "Stopping"
      /\ k = "Paused" => c = "Paused"
  BY <1>2, <1>3
<1>5. LET r == [enabled |-> left, ctl |-> k] IN r.enabled = left /\ r.ctl = k
  OBVIOUS
<1> HIDE DEF left, k
<1> QED
  BY <1>1, <1>4, <1>5 DEF left, eligible

\* The same of the last step of a command.
LEMMA SettleFacts ==
    ASSUME NEW r, NEW st, NEW cp, Settle(r, st, cp), r.enabled # {} => r.ctl \in {"Running", "Paused"}
    PROVE  /\ enabled' = r.enabled \cap Eligible(st, cp)
           /\ ctl' = "Running" => enabled' # {}
           /\ enabled' # {} => ctl' \in {"Running", "Paused"}
<1>1. LET f == Reconcile(r.enabled, r.ctl, st, cp) IN enabled' = f.enabled /\ ctl' = f.ctl
  BY DEF Settle
<1>2. LET f == Reconcile(r.enabled, r.ctl, st, cp) IN
      /\ f.enabled = r.enabled \cap Eligible(st, cp)
      /\ f.ctl = "Running" => f.enabled # {} /\ r.ctl = "Running"
      /\ f.enabled # {} => f.ctl = r.ctl
  <2> DEFINE en == r.enabled
             c == r.ctl
  <2>1. en # {} => c \in {"Running", "Paused"}
    OBVIOUS
  <2> HIDE DEF en, c
  <2>2. LET f == Reconcile(en, c, st, cp) IN
        /\ f.enabled = en \cap Eligible(st, cp)
        /\ f.ctl = "Running" => f.enabled # {} /\ c = "Running"
        /\ f.enabled # {} => f.ctl = c
    BY <2>1, ReconcileFacts
  <2> QED BY <2>2 DEF en, c
<1>3. r.enabled \cap Eligible(st, cp) # {} => r.enabled # {}
  OBVIOUS
<1> QED
  BY <1>1, <1>2, <1>3

\* What a command finds after its first reconciliation.
LEMMA NowFacts ==
    ASSUME WorkInv
    PROVE  /\ Now.enabled = enabled
           /\ Now.ctl = "Running" => enabled # {} /\ ctl = "Running"
           /\ enabled # {} => Now.ctl = ctl
           /\ Now.ctl = "Stopping" => ctl = "Stopping"
           /\ Now.ctl = "Paused" => ctl = "Paused"
<1>1. enabled # {} => ctl \in {"Running", "Paused"}
  BY DEF WorkInv, WorkState
<1>2. enabled \cap Eligible(status, cap) = enabled
  BY DEF WorkInv, RunningHasWork
<1>3. LET r == Reconcile(enabled, ctl, status, cap) IN
      /\ r.enabled = enabled \cap Eligible(status, cap)
      /\ r.ctl = "Running" => r.enabled # {} /\ ctl = "Running"
      /\ r.enabled # {} => r.ctl = ctl
      /\ r.ctl = "Stopping" => ctl = "Stopping"
      /\ r.ctl = "Paused" => ctl = "Paused"
  BY <1>1, ReconcileFacts
<1> QED
  BY <1>2, <1>3 DEF Now

-----------------------------------------------------------------------------
(* The commands.                                                           *)

\* A step that enables nothing and leaves the times and counters alone.
LEMMA RetryStays ==
    ASSUME RetryInv, enabled' \subseteq enabled, UNCHANGED <<budget, dueIn, retry, since, quick>>
    PROVE  RetryInv'
BY DEF RetryInv, ScheduleTypes, RetriesUsed, Spaced, RetriesWithinBudget

\* A command to a sampler or a permission: the schedules follow what is left eligible.
LEMMA FollowKeepsInv ==
    ASSUME ScheduleInv, NEW cp, NEW st, Follow(cp, st)
    PROVE  ScheduleInv'
<1>1. /\ cap' = cp /\ status' = st /\ UNCHANGED <<graceful, budget, dueIn, retry, since, quick>>
      /\ Settle(Reconcile(enabled, ctl, st, cp), st, cp)
  BY DEF Follow
<1>2. /\ enabled # {} => ctl \in {"Running", "Paused"} /\ ~graceful
      /\ graceful => enabled = {}
  BY DEF ScheduleInv, WorkInv, WorkState, RunningHasWork
<1> DEFINE r == Reconcile(enabled, ctl, st, cp)
<1>3. /\ r.enabled = enabled \cap Eligible(st, cp)
      /\ r.enabled # {} => r.ctl = ctl
  BY <1>2, ReconcileFacts
<1> HIDE DEF r
<1>4. r.enabled # {} => r.ctl \in {"Running", "Paused"}
  BY <1>2, <1>3
<1>5. Settle(r, st, cp)
  BY <1>1 DEF r
<1>6. /\ enabled' = r.enabled \cap Eligible(st, cp)
      /\ ctl' = "Running" => enabled' # {}
      /\ enabled' # {} => ctl' \in {"Running", "Paused"}
  BY <1>4, <1>5, SettleFacts
<1>7. enabled' \subseteq enabled /\ enabled' \subseteq Eligible(st, cp)
  BY <1>3, <1>6
<1>8. WorkInv'
  BY <1>1, <1>2, <1>6, <1>7 DEF WorkInv, WorkState, RunningHasWork
<1>9. RetryInv'
  BY <1>1, <1>7, RetryStays DEF ScheduleInv
<1> QED
  BY <1>8, <1>9 DEF ScheduleInv

\* The samplers and the permissions.
LEMMA SamplerCommandKeepsInv ==
    ASSUME ScheduleInv, SamplerCommand
    PROVE  ScheduleInv'
<1>1. PICK s \in Samplers :
        \/ \E perm \in Permissions : UpdatePermission(s, perm)
        \/ Activate(s) \/ PauseSampler(s) \/ StopSampler(s) \/ RevokeSampler(s)
        \/ RefreshSampler(s) \/ ClearSampler(s)
        \/ \E degraded \in BOOLEAN : SampleNow(s, degraded)
  BY DEF SamplerCommand
<1>2. \E cp, st : Follow(cp, st)
  <2>1. CASE \E perm \in Permissions : UpdatePermission(s, perm)
    BY <2>1, Zenon DEF UpdatePermission
  <2>2. CASE Activate(s)
    BY <2>2, Zenon DEF Activate
  <2>3. CASE PauseSampler(s)
    BY <2>3, Zenon DEF PauseSampler
  <2>4. CASE StopSampler(s)
    BY <2>4, Zenon DEF StopSampler
  <2>5. CASE RevokeSampler(s)
    BY <2>5, Zenon DEF RevokeSampler
  <2>6. CASE RefreshSampler(s)
    BY <2>6, Zenon DEF RefreshSampler
  <2>7. CASE ClearSampler(s)
    BY <2>7, Zenon DEF ClearSampler, RefreshSampler
  <2>8. CASE \E degraded \in BOOLEAN : SampleNow(s, degraded)
    BY <2>8, Zenon DEF SampleNow
  <2> QED BY <1>1, <2>1, <2>2, <2>3, <2>4, <2>5, <2>6, <2>7, <2>8
<1> QED
  BY <1>2, FollowKeepsInv

\* What every action of the controller does to its state and its schedules.
LEMMA ActFacts ==
    ASSUME WorkInv, NEW en, NEW c, NEW g, NEW due, NEW tries, Act(en, c, g, due, tries),
           en # {} => c \in {"Running", "Paused"}, g => en = {}
    PROVE  /\ WorkInv' /\ enabled' \subseteq en
           /\ dueIn' = due /\ retry' = tries
<1>1. /\ Settle([enabled |-> en, ctl |-> c], status, cap)
      /\ graceful' = g /\ dueIn' = due /\ retry' = tries /\ UNCHANGED <<status, cap>>
  BY DEF Act
<1> DEFINE r == [enabled |-> en, ctl |-> c]
<1>2. r.enabled = en /\ r.ctl = c
  OBVIOUS
<1> HIDE DEF r
<1>3. r.enabled # {} => r.ctl \in {"Running", "Paused"}
  BY <1>2
<1>4. Settle(r, status, cap)
  BY <1>1 DEF r
<1>5. /\ enabled' = r.enabled \cap Eligible(status, cap)
      /\ ctl' = "Running" => enabled' # {}
      /\ enabled' # {} => ctl' \in {"Running", "Paused"}
  BY <1>3, <1>4, SettleFacts
<1>6. enabled' = en \cap Eligible(status, cap)
  BY <1>2, <1>5, Zenon
<1> QED
  BY <1>1, <1>5, <1>6 DEF WorkInv, WorkState, RunningHasWork

\* A schedule that is made anew or taken away starts from nothing.
LEMMA NewScheduleFacts ==
    ASSUME RetryInv, enabled \subseteq Samplers, NEW s \in Samplers, NewSchedule(s),
           enabled' \subseteq enabled \cup {s},
           dueIn' = Drop(dueIn, {s}), retry' = Drop(retry, {s}),
           \E b \in Nat : budget' = [budget EXCEPT ![s] = b]
    PROVE  RetryInv'
<1>0. ScheduleTypes /\ RetriesUsed /\ RetriesWithinBudget
  BY DEF RetryInv
<1>1. PICK b \in Nat : budget' = [budget EXCEPT ![s] = b]
  OBVIOUS
<1>2. /\ budget' \in [Samplers -> Nat] /\ budget'[s] = b
      /\ \A x \in Samplers \ {s} : budget'[x] = budget[x]
  BY <1>0, <1>1 DEF ScheduleTypes
<1>3. /\ since' \in [Samplers -> 0 .. Interval] /\ since'[s] = Interval
      /\ \A x \in Samplers \ {s} : since'[x] = since[x]
  BY <1>0, SchedulerConstants DEF ScheduleTypes, NewSchedule
<1>4. /\ quick' \in [Samplers -> Nat] /\ quick'[s] = 0
      /\ \A x \in Samplers \ {s} : quick'[x] = quick[x]
  BY <1>0 DEF ScheduleTypes, NewSchedule
<1>5. /\ DOMAIN dueIn' = DOMAIN dueIn \ {s} /\ \A x \in DOMAIN dueIn' : dueIn'[x] = dueIn[x]
      /\ DOMAIN retry' = DOMAIN retry \ {s} /\ \A x \in DOMAIN retry' : retry'[x] = retry[x]
  BY DEF Drop
<1>6. ScheduleTypes'
  BY <1>0, <1>2, <1>3, <1>4, <1>5 DEF ScheduleTypes
<1>7. RetriesWithinBudget'
  <2>1. 0 <= b
    OBVIOUS
  <2> QED BY <1>0, <1>2, <1>4, <2>1 DEF RetriesWithinBudget
<1>8. \A x \in DOMAIN retry' : retry'[x] <= budget'[x]
  BY <1>0, <1>2, <1>5 DEF RetriesUsed, ScheduleTypes
<1>9. \A x \in enabled' : Spaced(x)'
  <2> SUFFICES ASSUME NEW x \in enabled' PROVE Spaced(x)'
    OBVIOUS
  <2>1. CASE x = s
    BY <1>3, <2>1 DEF Spaced
  <2>2. CASE x # s
    <3>1. x \in enabled /\ Spaced(x)
      BY <1>0, <2>2 DEF RetriesUsed
    <3>2. CASE since[x] = Interval
      <4>1. x \in Samplers /\ since'[x] = Interval
        BY <1>3, <2>2, <3>1, <3>2
      <4> QED BY <4>1 DEF Spaced
    <3>3. CASE x \in DOMAIN dueIn /\ dueIn[x] + since[x] >= Interval
      <4>1. x \in Samplers /\ x \in DOMAIN dueIn' /\ dueIn'[x] = dueIn[x] /\ since'[x] = since[x]
        BY <1>0, <1>3, <1>5, <2>2, <3>3 DEF ScheduleTypes
      <4> QED BY <3>3, <4>1 DEF Spaced
    <3>4. CASE x \in DOMAIN retry /\ quick[x] + 1 <= retry[x]
      <4>1. x \in Samplers /\ x \in DOMAIN retry' /\ retry'[x] = retry[x] /\ quick'[x] = quick[x]
        BY <1>0, <1>4, <1>5, <2>2, <3>4 DEF ScheduleTypes
      <4> QED BY <3>4, <4>1 DEF Spaced
    <3> QED BY <3>1, <3>2, <3>3, <3>4 DEF Spaced
  <2> QED BY <2>1, <2>2
<1> QED
  BY <1>6, <1>7, <1>8, <1>9 DEF RetryInv, RetriesUsed

\* The commands to the controller.
LEMMA SchedulerCommandKeepsInv ==
    ASSUME ScheduleInv, SchedulerCommand
    PROVE  ScheduleInv'
<1>0. WorkInv /\ RetryInv
  BY DEF ScheduleInv
<1>1. /\ Now.enabled = enabled
      /\ Now.ctl = "Running" => enabled # {} /\ ctl = "Running"
      /\ enabled # {} => Now.ctl = ctl
      /\ Now.ctl = "Stopping" => ctl = "Stopping"
      /\ Now.ctl = "Paused" => ctl = "Paused"
  BY <1>0, NowFacts
<1>2. /\ enabled # {} => ctl \in {"Running", "Paused"}
      /\ graceful => enabled = {}
      /\ enabled \subseteq Eligible(status, cap) /\ enabled \subseteq Samplers
  BY <1>0 DEF WorkInv, WorkState, RunningHasWork, Eligible
<1>3. ASSUME NEW s \in Samplers, DisableSampler(s) PROVE ScheduleInv'
  <2> DEFINE left == Now.enabled \ {s}
             c == AfterChange(left, Eligible(status, cap))
             due == Drop(dueIn, {s})
             tries == Drop(retry, {s})
  <2>1. Act(left, c, graceful, due, tries) /\ NewSchedule(s) /\ UNCHANGED budget
    BY <1>3 DEF DisableSampler
  <2>2. left # {} => c \in {"Running", "Paused"}
    BY DEF AfterChange
  <2>3. (graceful => left = {}) /\ left \subseteq enabled
    BY <1>1, <1>2
  <2> HIDE DEF left, c, due, tries
  <2>4. WorkInv' /\ enabled' \subseteq left /\ dueIn' = due /\ retry' = tries
    BY <1>0, <2>1, <2>2, <2>3, ActFacts
  <2>5. \E b \in Nat : budget' = [budget EXCEPT ![s] = b]
    <3>1. budget \in [Samplers -> Nat]
      BY <1>0 DEF RetryInv, ScheduleTypes
    <3>2. budget[s] \in Nat /\ budget' = [budget EXCEPT ![s] = budget[s]]
      BY <2>1, <3>1
    <3> QED BY <3>2
  <2>6. RetryInv'
    BY <1>0, <1>2, <2>1, <2>3, <2>4, <2>5, NewScheduleFacts DEF due, tries
  <2> QED BY <2>4, <2>6 DEF ScheduleInv
<1>4. ASSUME NEW s \in Samplers, NEW b \in Budgets, EnableSampler(s, b) PROVE ScheduleInv'
  <2> DEFINE en == Now.enabled \cup {s}
             due == Drop(dueIn, {s})
             tries == Drop(retry, {s})
  <2>1. /\ Act(en, "Running", FALSE, due, tries) /\ NewSchedule(s)
        /\ budget' = [budget EXCEPT ![s] = b] /\ b \in Nat
    BY <1>4, SchedulerConstants DEF EnableSampler
  <2>2. en = enabled \cup {s}
    BY <1>1
  <2> HIDE DEF en, due, tries
  <2>3. WorkInv' /\ enabled' \subseteq en /\ dueIn' = due /\ retry' = tries
    <3> DEFINE c == "Running"
               g == FALSE
    <3>1. Act(en, c, g, due, tries) /\ (en # {} => c \in {"Running", "Paused"}) /\ (g => en = {})
      BY <2>1
    <3> HIDE DEF c, g
    <3> QED BY <1>0, <3>1, ActFacts
  <2>4. RetryInv'
    BY <1>0, <1>2, <2>1, <2>2, <2>3, NewScheduleFacts DEF due, tries
  <2> QED BY <2>3, <2>4 DEF ScheduleInv
<1>5. CASE DisableScheduler \/ BeginStop
  <2>1. PICK en, c, g, none :
          en = {} /\ none = << >> /\ Act(en, c, g, none, none) /\ UNCHANGED <<budget, since, quick>>
    BY <1>5, Zenon DEF DisableScheduler, BeginStop
  <2>2. WorkInv' /\ enabled' \subseteq en /\ dueIn' = none /\ retry' = none
    <3>1. (en # {} => c \in {"Running", "Paused"}) /\ (g => en = {})
      BY <2>1
    <3> QED BY <1>0, <2>1, <3>1, ActFacts
  <2>3. enabled' = {} /\ DOMAIN dueIn' = {} /\ DOMAIN retry' = {}
    BY <2>1, <2>2
  <2>4. RetryInv'
    BY <1>0, <2>1, <2>3 DEF RetryInv, ScheduleTypes, RetriesUsed, RetriesWithinBudget
  <2> QED BY <2>2, <2>4 DEF ScheduleInv
<1>6. CASE Pause \/ Resume \/ CompleteStop
  <2>1. PICK en, c, g :
          /\ en = enabled /\ (en # {} => c \in {"Running", "Paused"}) /\ (g => en = {})
          /\ Act(en, c, g, dueIn, retry) /\ UNCHANGED <<budget, since, quick>>
    <3>1. CASE Pause
      <4>1. Act(enabled, "Paused", graceful, dueIn, retry) /\ UNCHANGED <<budget, since, quick>>
        BY <1>1, <3>1 DEF Pause
      <4> QED BY <1>2, <4>1
    <3>2. CASE Resume
      <4>1. /\ Act(enabled, IF enabled # {} THEN "Running" ELSE "Ready", FALSE, dueIn, retry)
            /\ UNCHANGED <<budget, since, quick>>
        BY <1>1, <3>2 DEF Resume
      <4>2. enabled # {} => (IF enabled # {} THEN "Running" ELSE "Ready") \in {"Running", "Paused"}
        OBVIOUS
      <4> QED BY <4>1, <4>2
    <3>3. CASE CompleteStop
      <4>1. /\ Act(enabled, "Stopped", TRUE, dueIn, retry) /\ UNCHANGED <<budget, since, quick>>
            /\ Now.ctl = "Stopping"
        BY <1>1, <3>3 DEF CompleteStop
      <4>2. enabled = {}
        BY <1>1, <1>2, <4>1
      <4> QED BY <4>1, <4>2
    <3> QED BY <1>6, <3>1, <3>2, <3>3
  <2>2. WorkInv' /\ enabled' \subseteq en /\ dueIn' = dueIn /\ retry' = retry
    BY <1>0, <2>1, ActFacts
  <2>3. RetryInv'
    BY <1>0, <2>1, <2>2, RetryStays
  <2> QED BY <2>2, <2>3 DEF ScheduleInv
<1>7. CASE RefreshStatus
  <2>1. /\ enabled' = Now.enabled /\ ctl' = Now.ctl
        /\ UNCHANGED <<cap, status, graceful, budget, dueIn, retry, since, quick>>
    BY <1>7 DEF RefreshStatus
  <2>2. WorkInv'
    BY <1>0, <1>1, <1>2, <2>1 DEF WorkInv, WorkState, RunningHasWork
  <2>3. RetryInv'
    BY <1>0, <1>1, <2>1, RetryStays
  <2> QED BY <2>2, <2>3 DEF ScheduleInv
<1> QED
  BY <1>3, <1>4, <1>5, <1>6, <1>7 DEF SchedulerCommand

-----------------------------------------------------------------------------
(* Ticks.                                                                  *)

\* Time that passes brings a due time nearer as fast as the last run recedes.
LEMMA TimeFacts ==
    ASSUME NEW d \in Nat, NEW x \in 0 .. Interval, NEW y \in 0 .. Interval
    PROVE  /\ Later(x, d) \in 0 .. Interval /\ Least({Interval, y + d}) \in 0 .. Interval
           /\ y + d >= Interval => Least({Interval, y + d}) = Interval
           /\ x + y >= Interval => Later(x, d) + Least({Interval, y + d}) >= Interval
<1>1. Interval \in Nat
  BY SchedulerConstants
<1>2. Least({Interval, y + d}) = IF Interval <= y + d THEN Interval ELSE y + d
  BY <1>1, LeastFacts
<1>3. Later(x, d) = IF x > d THEN x - d ELSE 0
  BY DEF Later
<1> QED
  BY <1>1, <1>2, <1>3

\* The times and the counters after a tick: of the samplers that are due, those in admitted
\* run and those in again are granted a retry.
TickAccount(d, due, again, admitted) ==
    /\ due \subseteq enabled /\ \A s \in due \cap DOMAIN dueIn : dueIn[s] <= d
    /\ again \subseteq due /\ admitted \subseteq due
    /\ enabled' \subseteq enabled /\ budget' = budget
    /\ DOMAIN dueIn' = DOMAIN dueIn \cup due
    /\ \A s \in DOMAIN dueIn' :
          dueIn'[s] = IF s \in again THEN RetryDelay
                      ELSE IF s \in due THEN Interval ELSE Later(dueIn[s], d)
    /\ again \subseteq DOMAIN retry' /\ DOMAIN retry' \subseteq DOMAIN retry \cup again
    /\ DOMAIN retry \ due \subseteq DOMAIN retry'
    /\ \A s \in DOMAIN retry' : retry'[s] = IF s \in again THEN Attempts(s) + 1 ELSE retry[s]
    /\ \A s \in again : Attempts(s) + 1 <= budget[s]
    /\ since' = [s \in Samplers |->
                    IF s \in admitted THEN 0 ELSE Least({Interval, since[s] + d})]
    /\ quick' = [s \in Samplers |->
                    IF s \notin admitted THEN quick[s]
                    ELSE IF since[s] + d < Interval THEN quick[s] + 1 ELSE 0]

\* A tick keeps the runs of a sampler an interval apart or takes them from its budget.
LEMMA TickKeepsRetries ==
    ASSUME RetryInv, enabled \subseteq Samplers, NEW d \in Nat, NEW due, NEW again, NEW admitted,
           TickAccount(d, due, again, admitted)
    PROVE  RetryInv'
<1>0. ScheduleTypes /\ RetriesUsed /\ RetriesWithinBudget
  BY DEF RetryInv
<1>1. /\ due \subseteq enabled /\ \A s \in due \cap DOMAIN dueIn : dueIn[s] <= d
      /\ again \subseteq due /\ admitted \subseteq due
      /\ enabled' \subseteq enabled /\ budget' = budget
  BY DEF TickAccount
<1>2. /\ DOMAIN dueIn' = DOMAIN dueIn \cup due
      /\ \A s \in DOMAIN dueIn' :
            dueIn'[s] = IF s \in again THEN RetryDelay
                        ELSE IF s \in due THEN Interval ELSE Later(dueIn[s], d)
  BY DEF TickAccount
<1>3. /\ again \subseteq DOMAIN retry' /\ DOMAIN retry' \subseteq DOMAIN retry \cup again
      /\ DOMAIN retry \ due \subseteq DOMAIN retry'
      /\ \A s \in DOMAIN retry' : retry'[s] = IF s \in again THEN Attempts(s) + 1 ELSE retry[s]
      /\ \A s \in again : Attempts(s) + 1 <= budget[s]
  BY DEF TickAccount
<1>4. /\ since' = [s \in Samplers |->
                     IF s \in admitted THEN 0 ELSE Least({Interval, since[s] + d})]
      /\ quick' = [s \in Samplers |->
                     IF s \notin admitted THEN quick[s]
                     ELSE IF since[s] + d < Interval THEN quick[s] + 1 ELSE 0]
  BY DEF TickAccount
<1>5. Interval \in Nat \ {0} /\ RetryDelay \in 0 .. Interval
  BY SchedulerConstants
<1>6. /\ budget \in [Samplers -> Nat]
      /\ DOMAIN dueIn \subseteq Samplers /\ \A s \in DOMAIN dueIn : dueIn[s] \in 0 .. Interval
      /\ DOMAIN retry \subseteq Samplers /\ \A s \in DOMAIN retry : retry[s] \in Nat
      /\ since \in [Samplers -> 0 .. Interval] /\ quick \in [Samplers -> Nat]
  BY <1>0 DEF ScheduleTypes
<1>7. \A s \in Samplers : Attempts(s) \in Nat /\ (s \in DOMAIN retry => Attempts(s) = retry[s])
  BY <1>6 DEF Attempts
<1>8. \A s \in Samplers : Least({Interval, since[s] + d}) \in 0 .. Interval
  <2> SUFFICES ASSUME NEW s \in Samplers PROVE Least({Interval, since[s] + d}) \in 0 .. Interval
    OBVIOUS
  <2>1. since[s] \in 0 .. Interval
    BY <1>6
  <2> QED BY <2>1, TimeFacts
<1>9. \A s \in DOMAIN dueIn : Later(dueIn[s], d) \in 0 .. Interval
  <2> SUFFICES ASSUME NEW s \in DOMAIN dueIn PROVE Later(dueIn[s], d) \in 0 .. Interval
    OBVIOUS
  <2>1. dueIn[s] \in 0 .. Interval
    BY <1>6
  <2> QED BY <2>1, TimeFacts
<1>10. ScheduleTypes'
  <2>1. since' \in [Samplers -> 0 .. Interval]
    BY <1>4, <1>5, <1>8
  <2>2. quick' \in [Samplers -> Nat]
    BY <1>4, <1>6
  <2>3. DOMAIN dueIn' \subseteq Samplers /\ \A s \in DOMAIN dueIn' : dueIn'[s] \in 0 .. Interval
    BY <1>1, <1>2, <1>5, <1>6, <1>9
  <2>4. DOMAIN retry' \subseteq Samplers /\ \A s \in DOMAIN retry' : retry'[s] \in Nat
    BY <1>1, <1>3, <1>6, <1>7
  <2> QED BY <1>1, <1>6, <2>1, <2>2, <2>3, <2>4 DEF ScheduleTypes
<1>11. \A s \in DOMAIN retry' : retry'[s] <= budget'[s]
  BY <1>0, <1>1, <1>3 DEF RetriesUsed
\* A sampler that is due less than an interval after its last run has paid for it.
<1>12. \A s \in due : since[s] + d < Interval => s \in DOMAIN retry /\ quick[s] + 1 <= retry[s]
  <2> SUFFICES ASSUME NEW s \in due, since[s] + d < Interval
               PROVE  s \in DOMAIN retry /\ quick[s] + 1 <= retry[s]
    OBVIOUS
  <2>1. s \in enabled /\ s \in Samplers /\ since[s] \in 0 .. Interval
    BY <1>1, <1>6
  <2>2. Spaced(s)
    BY <1>0, <2>1 DEF RetriesUsed
  <2>3. since[s] # Interval
    BY <1>5, <2>1
  <2>4. ~(s \in DOMAIN dueIn /\ dueIn[s] + since[s] >= Interval)
    <3> SUFFICES ASSUME s \in DOMAIN dueIn PROVE ~(dueIn[s] + since[s] >= Interval)
      OBVIOUS
    <3>1. dueIn[s] <= d /\ dueIn[s] \in 0 .. Interval
      BY <1>1, <1>6
    <3> QED BY <1>5, <2>1, <3>1
  <2> QED BY <2>2, <2>3, <2>4 DEF Spaced
<1>13. RetriesWithinBudget'
  <2> SUFFICES ASSUME NEW s \in Samplers PROVE quick'[s] <= budget[s]
    BY <1>1 DEF RetriesWithinBudget
  <2>1. quick[s] \in Nat /\ budget[s] \in Nat /\ quick[s] <= budget[s]
    BY <1>0, <1>6 DEF RetriesWithinBudget
  <2>2. CASE s \in admitted /\ since[s] + d < Interval
    <3>1. s \in DOMAIN retry /\ quick[s] + 1 <= retry[s] /\ retry[s] <= budget[s] /\ retry[s] \in Nat
      BY <1>0, <1>1, <1>6, <1>12, <2>2 DEF RetriesUsed
    <3>2. quick'[s] = quick[s] + 1
      BY <1>4, <2>2
    <3> QED BY <2>1, <3>1, <3>2
  <2>3. CASE ~(s \in admitted /\ since[s] + d < Interval)
    <3>1. quick'[s] \in {quick[s], 0}
      BY <1>4, <2>3
    <3> QED BY <2>1, <3>1
  <2> QED BY <2>2, <2>3
<1>14. \A s \in enabled' : Spaced(s)'
  <2> SUFFICES ASSUME NEW s \in enabled' PROVE Spaced(s)'
    OBVIOUS
  <2>1. s \in enabled /\ s \in Samplers /\ Spaced(s)
    BY <1>0, <1>1 DEF RetriesUsed
  <2>2. since[s] \in 0 .. Interval /\ quick[s] \in Nat /\ since'[s] \in 0 .. Interval
    BY <1>6, <1>10, <2>1 DEF ScheduleTypes
  <2>3. s \notin admitted => since'[s] = Least({Interval, since[s] + d}) /\ quick'[s] = quick[s]
    BY <1>4, <2>1
  <2>4. since[s] + d >= Interval => Least({Interval, since[s] + d}) = Interval
    BY <1>5, <2>2, TimeFacts
  <2>5. CASE s \in due \ again
    <3>1. s \in DOMAIN dueIn' /\ dueIn'[s] = Interval
      BY <1>2, <2>5
    <3>2. dueIn'[s] + since'[s] >= Interval
      BY <1>5, <2>2, <3>1
    <3> QED BY <3>1, <3>2 DEF Spaced
  <2>6. CASE s \in again
    <3>1. s \in due /\ s \in DOMAIN retry' /\ retry'[s] = Attempts(s) + 1 /\ Attempts(s) \in Nat
      BY <1>1, <1>3, <1>7, <2>1, <2>6
    <3>2. CASE since[s] + d < Interval
      <4>1. quick[s] + 1 <= Attempts(s)
        BY <1>7, <1>12, <2>1, <3>1, <3>2
      <4>2. quick'[s] \in {quick[s], quick[s] + 1}
        BY <1>4, <2>1, <3>2
      <4>3. quick'[s] + 1 <= retry'[s]
        BY <2>2, <3>1, <4>1, <4>2
      <4> QED BY <3>1, <4>3 DEF Spaced
    <3>3. CASE since[s] + d >= Interval
      <4>1. CASE s \in admitted
        <5>1. quick'[s] = 0
          <6>1. ~(since[s] + d < Interval)
            BY <1>5, <2>2, <3>3
          <6> QED BY <1>4, <2>1, <4>1, <6>1
        <5>2. quick'[s] + 1 <= retry'[s]
          BY <3>1, <5>1
        <5> QED BY <3>1, <5>2 DEF Spaced
      <4>2. CASE s \notin admitted
        BY <2>3, <2>4, <3>3, <4>2 DEF Spaced
      <4> QED BY <4>1, <4>2
    <3> QED BY <1>5, <2>2, <3>2, <3>3
  <2>7. CASE s \notin due
    <3>1. s \notin admitted /\ s \notin again
      BY <1>1, <2>7
    <3>2. CASE since[s] = Interval
      <4>1. since[s] + d >= Interval
        BY <1>5, <3>2
      <4> QED BY <2>3, <2>4, <3>1, <4>1 DEF Spaced
    <3>3. CASE s \in DOMAIN dueIn /\ dueIn[s] + since[s] >= Interval
      <4>1. s \in DOMAIN dueIn' /\ dueIn'[s] = Later(dueIn[s], d) /\ dueIn[s] \in 0 .. Interval
        BY <1>2, <1>6, <2>7, <3>1, <3>3
      <4>2. Later(dueIn[s], d) + Least({Interval, since[s] + d}) >= Interval
        BY <2>2, <3>3, <4>1, TimeFacts
      <4> QED BY <2>3, <3>1, <4>1, <4>2 DEF Spaced
    <3>4. CASE s \in DOMAIN retry /\ quick[s] + 1 <= retry[s]
      <4>1. s \in DOMAIN retry' /\ retry'[s] = retry[s] /\ quick'[s] = quick[s]
        BY <1>3, <2>3, <2>7, <3>1, <3>4
      <4> QED BY <3>4, <4>1 DEF Spaced
    <3> QED BY <2>1, <3>2, <3>3, <3>4 DEF Spaced
  <2> QED BY <1>1, <2>5, <2>6, <2>7
<1> QED
  BY <1>1, <1>10, <1>11, <1>13, <1>14 DEF RetryInv, RetriesUsed

\* Ticks that run nothing: too soon, idle, broken off, or saturated.
LEMMA SkipKeepsInv ==
    ASSUME ScheduleInv, NEW d \in Nat, NEW stored,
           \/ TickTooSoon(stored) \/ (\E cancelled \in BOOLEAN : TickIdle(d, cancelled, stored))
           \/ TickBreaksOff(d) \/ TickSaturated(d, DueAfter(d), stored)
    PROVE  ScheduleInv' /\ ran' = {}
<1>0. WorkInv /\ RetryInv
  BY DEF ScheduleInv
<1>1. /\ Now.enabled = enabled
      /\ Now.ctl = "Running" => enabled # {} /\ ctl = "Running"
      /\ enabled # {} => Now.ctl = ctl
  BY <1>0, NowFacts
<1>2. /\ enabled # {} => ctl \in {"Running", "Paused"}
      /\ graceful => enabled = {}
      /\ enabled \subseteq Eligible(status, cap) /\ enabled \subseteq Samplers
  BY <1>0 DEF WorkInv, WorkState, RunningHasWork, Eligible
<1>3. /\ budget \in [Samplers -> Nat]
      /\ DOMAIN dueIn \subseteq Samplers /\ \A s \in DOMAIN dueIn : dueIn[s] \in 0 .. Interval
      /\ DOMAIN retry \subseteq Samplers /\ \A s \in DOMAIN retry : retry[s] \in Nat
      /\ since \in [Samplers -> 0 .. Interval] /\ quick \in [Samplers -> Nat]
  BY <1>0 DEF RetryInv, ScheduleTypes
<1>4. ASSUME NEW e, NEW f, NEW g, NEW st, SkipCycle(e, f, g, st)
      PROVE  /\ WorkInv' /\ enabled' = enabled /\ ran' = {} /\ dueIn' = f /\ retry' = g
             /\ budget' = budget /\ quick' = quick
             /\ since' = [s \in Samplers |-> Least({Interval, since[s] + e})]
  <2>1. /\ enabled' = Now.enabled /\ ctl' = Now.ctl /\ dueIn' = f /\ retry' = g /\ ran' = {}
        /\ UNCHANGED <<cap, status, graceful, budget, quick>>
        /\ since' = [s \in Samplers |-> Least({Interval, since[s] + e})]
    BY <1>4 DEF SkipCycle, TimePasses
  <2>2. WorkInv'
    BY <1>0, <1>1, <1>2, <2>1 DEF WorkInv, WorkState, RunningHasWork
  <2> QED BY <1>1, <2>1, <2>2
<1>5. quick = [s \in Samplers |-> quick[s]]
  BY <1>3
\* What the account needs when nothing runs and nothing is retried.
<1>6. ASSUME NEW e \in Nat, NEW due, due \subseteq enabled,
             \A s \in due \cap DOMAIN dueIn : dueIn[s] <= e,
             WorkInv', enabled' = enabled, ran' = {}, budget' = budget, quick' = quick,
             since' = [s \in Samplers |-> Least({Interval, since[s] + e})],
             DOMAIN dueIn' = DOMAIN dueIn \cup due,
             \A s \in DOMAIN dueIn' : dueIn'[s] = IF s \in due THEN Interval ELSE Later(dueIn[s], e),
             DOMAIN retry' = DOMAIN retry \ due, \A s \in DOMAIN retry' : retry'[s] = retry[s]
      PROVE  ScheduleInv' /\ ran' = {}
  <2>1. PICK none : none = {}
    OBVIOUS
  <2>2. /\ since' = [s \in Samplers |->
                       IF s \in none THEN 0 ELSE Least({Interval, since[s] + e})]
        /\ quick' = [s \in Samplers |->
                       IF s \notin none THEN quick[s]
                       ELSE IF since[s] + e < Interval THEN quick[s] + 1 ELSE 0]
    BY <1>5, <1>6, <2>1
  <2>3. TickAccount(e, due, none, none)
    BY <1>6, <2>1, <2>2 DEF TickAccount
  <2>4. RetryInv'
    BY <1>0, <1>2, <2>3, TickKeepsRetries
  <2> QED BY <1>6, <2>4 DEF ScheduleInv
<1>7. CASE TickTooSoon(stored)
  <2>1. SkipCycle(0, dueIn, retry, stored)
    BY <1>7 DEF TickTooSoon
  <2>2. PICK none, e : none = {} /\ e = 0 /\ e \in Nat
    OBVIOUS
  <2>3. SkipCycle(e, dueIn, retry, stored)
    BY <2>1, <2>2
  <2>4. \A s \in DOMAIN dueIn : dueIn[s] = Later(dueIn[s], e)
    BY <1>3, <2>2, SchedulerConstants DEF Later
  <2>5. /\ WorkInv' /\ enabled' = enabled /\ ran' = {} /\ dueIn' = dueIn /\ retry' = retry
        /\ budget' = budget /\ quick' = quick
        /\ since' = [s \in Samplers |-> Least({Interval, since[s] + e})]
    BY <1>4, <2>3
  <2>6. /\ none \subseteq enabled /\ \A s \in none \cap DOMAIN dueIn : dueIn[s] <= e
        /\ DOMAIN dueIn' = DOMAIN dueIn \cup none
        /\ \A s \in DOMAIN dueIn' : dueIn'[s] = IF s \in none THEN Interval ELSE Later(dueIn[s], e)
        /\ DOMAIN retry' = DOMAIN retry \ none /\ \A s \in DOMAIN retry' : retry'[s] = retry[s]
    BY <2>2, <2>4, <2>5
  <2> QED BY <1>6, <2>2, <2>5, <2>6
<1>8. CASE (\E cancelled \in BOOLEAN : TickIdle(d, cancelled, stored)) \/ TickBreaksOff(d)
  <2>1. PICK st : SkipCycle(d, Elapse(dueIn, d), retry, st)
    BY <1>8 DEF TickIdle, TickBreaksOff
  <2>2. PICK none, f : none = {} /\ f = Elapse(dueIn, d)
    OBVIOUS
  <2>3. DOMAIN f = DOMAIN dueIn /\ \A s \in DOMAIN dueIn : f[s] = Later(dueIn[s], d)
    BY <2>2 DEF Elapse
  <2>4. /\ WorkInv' /\ enabled' = enabled /\ ran' = {} /\ dueIn' = f /\ retry' = retry
        /\ budget' = budget /\ quick' = quick
        /\ since' = [s \in Samplers |-> Least({Interval, since[s] + d})]
    BY <1>4, <2>1, <2>2
  <2>5. /\ none \subseteq enabled /\ \A s \in none \cap DOMAIN dueIn : dueIn[s] <= d
        /\ DOMAIN dueIn' = DOMAIN dueIn \cup none
        /\ \A s \in DOMAIN dueIn' : dueIn'[s] = IF s \in none THEN Interval ELSE Later(dueIn[s], d)
        /\ DOMAIN retry' = DOMAIN retry \ none /\ \A s \in DOMAIN retry' : retry'[s] = retry[s]
    BY <2>2, <2>3, <2>4
  <2> QED BY <1>6, <2>4, <2>5
<1>9. CASE TickSaturated(d, DueAfter(d), stored)
  <2> DEFINE due == DueAfter(d)
             f == Advance(due, d)
             g == Drop(retry, due)
  <2>1. SkipCycle(d, f, g, stored)
    BY <1>9 DEF TickSaturated
  <2>2. due \subseteq enabled /\ \A s \in due \cap DOMAIN dueIn : dueIn[s] <= d
    BY <1>1 DEF DueAfter
  <2> HIDE DEF due
  <2>3. /\ DOMAIN f = DOMAIN dueIn \cup due
        /\ \A s \in DOMAIN f : f[s] = IF s \in due THEN Interval ELSE Later(dueIn[s], d)
    BY DEF Advance
  <2>4. DOMAIN g = DOMAIN retry \ due /\ \A s \in DOMAIN g : g[s] = retry[s]
    BY DEF Drop
  <2> HIDE DEF f, g
  <2>5. /\ WorkInv' /\ enabled' = enabled /\ ran' = {} /\ dueIn' = f /\ retry' = g
        /\ budget' = budget /\ quick' = quick
        /\ since' = [s \in Samplers |-> Least({Interval, since[s] + d})]
    BY <1>4, <2>1
  <2> QED BY <1>6, <2>2, <2>3, <2>4, <2>5
<1> QED
  BY <1>7, <1>8, <1>9

\* A tick that runs its cycle, whatever it defers, limits or times out.
LEMMA RunKeepsInv ==
    ASSUME ScheduleInv, NEW d \in Nat, NEW level, NEW limit, NEW late, NEW stored,
           TickRun(d, DueAfter(d), level, limit, late, stored)
    PROVE  /\ ScheduleInv'
           /\ \A s \in ran' : cap[s] = "Granted" /\ s \in enabled /\ ctl = "Running"
<1>0. WorkInv /\ RetryInv
  BY DEF ScheduleInv
<1>1. /\ Now.enabled = enabled
      /\ Now.ctl = "Running" => enabled # {} /\ ctl = "Running"
      /\ enabled # {} => Now.ctl = ctl
  BY <1>0, NowFacts
<1>2. /\ enabled # {} => ctl \in {"Running", "Paused"}
      /\ graceful => enabled = {}
      /\ enabled \subseteq Eligible(status, cap) /\ enabled \subseteq Samplers
  BY <1>0 DEF WorkInv, WorkState, RunningHasWork, Eligible
<1> DEFINE due == DueAfter(d)
           deferred == Deferred(due, level)
           admitted == Admitted(due, deferred, late, limit)
           limited == Limited(due, deferred, late, limit)
           timedOut == {s \in due \ (deferred \cup limited) : s >= late}
           invalid == due \ (deferred \cup limited \cup timedOut \cup admitted)
<1>3. due \subseteq enabled /\ \A s \in due \cap DOMAIN dueIn : dueIn[s] <= d
  BY <1>1 DEF DueAfter
<1> DEFINE Body(df, ad, li, failing, degraded) ==
             LET out == {s \in due \ (df \cup li) : s >= late}
                 inv == due \ (df \cup li \cup out \cup ad)
                 trd == li \cup out \cup failing
                 agn == {s \in trd : MayRetry(s, Attempts(s) + 1)}
                 stl == inv \cup (ad \ trd) \cup (trd \ agn)
                 aft == [s \in Samplers |->
                           IF s \in degraded
                             THEN [status[s] EXCEPT !.run = "Degraded"] ELSE status[s]]
             IN
             /\ Active(FALSE) /\ due # {}
             /\ dueIn' = [s \in DOMAIN dueIn \cup due |->
                             IF s \in agn THEN RetryDelay
                             ELSE IF s \in due THEN Interval ELSE Later(dueIn[s], d)]
             /\ retry' = [s \in (DOMAIN retry \ stl) \cup agn |->
                             IF s \in agn THEN Attempts(s) + 1 ELSE retry[s]]
             /\ status' = aft
             /\ Settle(Now, aft, cap)
             /\ cycles' = IF stored
                            THEN StoreCycle([total |-> Cardinality(due), timeouts |-> Cardinality(out),
                                             overlaps |-> Cardinality(li)])
                            ELSE cycles
             /\ ticked' = TRUE
             /\ ran' = ad
             /\ since' = [s \in Samplers |->
                             IF s \in ad THEN 0 ELSE Least({Interval, since[s] + d})]
             /\ quick' = [s \in Samplers |->
                             IF s \notin ad THEN quick[s]
                             ELSE IF since[s] + d < Interval THEN quick[s] + 1 ELSE 0]
             /\ UNCHANGED <<cap, graceful, budget, commands>>
<1>4. PICK failing \in SUBSET admitted, degraded \in SUBSET admitted :
        Body(deferred, admitted, limited, failing, degraded)
  <2>1. \E df \in {Deferred(due, level)} :
        \E ad \in {Admitted(due, df, late, limit)}, li \in {Limited(due, df, late, limit)} :
        \E fa \in SUBSET ad : \E de \in SUBSET ad : Body(df, ad, li, fa, de)
    BY Zenon DEF TickRun
  <2> HIDE DEF Body
  <2> QED BY <2>1
<1> DEFINE tried == limited \cup timedOut \cup failing
           again == {s \in tried : MayRetry(s, Attempts(s) + 1)}
           settled == invalid \cup (admitted \ tried) \cup (tried \ again)
           after == [s \in Samplers |->
                       IF s \in degraded
                         THEN [status[s] EXCEPT !.run = "Degraded"] ELSE status[s]]
<1>5. /\ Active(FALSE) /\ due # {} /\ status' = after /\ Settle(Now, after, cap) /\ ran' = admitted
      /\ UNCHANGED <<cap, graceful, budget>>
  BY <1>4, Zenon
<1>6. /\ dueIn' = [s \in DOMAIN dueIn \cup due |->
                     IF s \in again THEN RetryDelay
                     ELSE IF s \in due THEN Interval ELSE Later(dueIn[s], d)]
      /\ retry' = [s \in (DOMAIN retry \ settled) \cup again |->
                     IF s \in again THEN Attempts(s) + 1 ELSE retry[s]]
  BY <1>4, Zenon
<1>7. /\ since' = [s \in Samplers |->
                     IF s \in admitted THEN 0 ELSE Least({Interval, since[s] + d})]
      /\ quick' = [s \in Samplers |->
                     IF s \notin admitted THEN quick[s]
                     ELSE IF since[s] + d < Interval THEN quick[s] + 1 ELSE 0]
  BY <1>4, Zenon
<1>8. /\ admitted \subseteq due
      /\ \A s \in admitted : cap[s] = "Granted"
  BY DEF Admitted, Revalidated
<1>9. limited \subseteq due /\ timedOut \subseteq due /\ invalid \subseteq due
  BY DEF Limited
<1> HIDE DEF due, admitted, limited, timedOut, invalid, after
<1>10. again \subseteq due /\ settled \subseteq due /\ \A s \in again : Attempts(s) + 1 <= budget[s]
  BY <1>8, <1>9 DEF MayRetry
<1> HIDE DEF again, settled
<1>11. ctl = "Running" /\ Now.ctl = "Running"
  BY <1>1, <1>5 DEF Active
<1>12. /\ enabled' = enabled \cap Eligible(after, cap)
       /\ ctl' = "Running" => enabled' # {}
       /\ enabled' # {} => ctl' \in {"Running", "Paused"}
  <2>1. Now.enabled # {} => Now.ctl \in {"Running", "Paused"}
    BY <1>11
  <2>2. /\ enabled' = Now.enabled \cap Eligible(after, cap)
        /\ ctl' = "Running" => enabled' # {}
        /\ enabled' # {} => ctl' \in {"Running", "Paused"}
    BY <1>5, <2>1, SettleFacts
  <2> QED BY <1>1, <2>2, Zenon
<1>13. WorkInv'
  BY <1>2, <1>5, <1>12 DEF WorkInv, WorkState, RunningHasWork
<1>14. TickAccount(d, due, again, admitted)
  <2>1. /\ DOMAIN dueIn' = DOMAIN dueIn \cup due
        /\ \A s \in DOMAIN dueIn' :
              dueIn'[s] = IF s \in again THEN RetryDelay
                          ELSE IF s \in due THEN Interval ELSE Later(dueIn[s], d)
    BY <1>6
  <2>2. /\ again \subseteq DOMAIN retry' /\ DOMAIN retry' \subseteq DOMAIN retry \cup again
        /\ DOMAIN retry \ due \subseteq DOMAIN retry'
        /\ \A s \in DOMAIN retry' : retry'[s] = IF s \in again THEN Attempts(s) + 1 ELSE retry[s]
    BY <1>6, <1>10
  <2>3. enabled' \subseteq enabled /\ budget' = budget
    BY <1>5, <1>12
  <2> QED BY <1>3, <1>7, <1>8, <1>10, <2>1, <2>2, <2>3, Zenon DEF TickAccount
<1>15. RetryInv'
  BY <1>0, <1>2, <1>14, TickKeepsRetries
<1>16. \A s \in ran' : cap[s] = "Granted" /\ s \in enabled /\ ctl = "Running"
  BY <1>3, <1>5, <1>8, <1>11
<1> QED
  BY <1>13, <1>15, <1>16 DEF ScheduleInv

\* The clock of the host is a time: the earliest due time, and at least a tick.
LEMMA HostElapsedIsTime ==
    ASSUME ScheduleInv
    PROVE  HostElapsed \in Nat
<1> DEFINE times == {dueIn[s] : s \in DOMAIN dueIn}
<1>1. times \in SUBSET Nat
  <2>1. \A s \in DOMAIN dueIn : dueIn[s] \in 0 .. Interval
    BY DEF ScheduleInv, RetryInv, ScheduleTypes
  <2>2. \A x \in 0 .. Interval : x \in Nat
    BY SchedulerConstants
  <2> QED BY <2>1, <2>2
<1>2. CASE DOMAIN dueIn # {}
  <2>1. times # {}
    BY <1>2
  <2>2. HostElapsed = Most({1} \cup {Least(times)})
    BY <1>2 DEF HostElapsed
  <2> HIDE DEF times
  <2>3. Least(times) \in Nat
    BY <1>1, <2>1, LeastFacts
  <2>4. {1} \cup {Least(times)} = {1, Least(times)}
    OBVIOUS
  <2>5. Most({1, Least(times)}) \in Nat
    BY <2>3, LeastFacts
  <2> QED BY <2>2, <2>4, <2>5
<1>3. CASE DOMAIN dueIn = {}
  <2>1. HostElapsed = Most({1} \cup {}) /\ {1} \cup {} = {1, 1}
    BY <1>3 DEF HostElapsed
  <2> QED BY <2>1, LeastFacts
<1> QED
  BY <1>2, <1>3

\* Every tick, of a client or of the host.
LEMMA TicksKeepInv ==
    ASSUME ScheduleInv, NEW stored, ManualTick(stored) \/ HostCycle(stored)
    PROVE  /\ ScheduleInv'
           /\ \A s \in ran' : cap[s] = "Granted" /\ s \in enabled /\ ctl = "Running"
<1>1. \/ TickTooSoon(stored)
      \/ \E d \in Nat :
            \/ \E cancelled \in BOOLEAN : TickIdle(d, cancelled, stored)
            \/ TickBreaksOff(d)
            \/ TickSaturated(d, DueAfter(d), stored)
            \/ \E level, limit, late : TickRun(d, DueAfter(d), level, limit, late, stored)
  <2>1. CASE ManualTick(stored)
    <3>1. 1 .. Interval \subseteq Nat
      BY SchedulerConstants
    <3> QED BY <2>1, <3>1, Zenon DEF ManualTick
  <2>2. CASE HostCycle(stored)
    <3>1. HostElapsed \in Nat
      BY HostElapsedIsTime
    <3> DEFINE all == Cardinality(Samplers)
    <3>2. PICK d \in {HostElapsed} :
            \E due \in {DueAfter(d)} :
              \/ TickIdle(d, FALSE, stored)
              \/ \E level \in {Pressure(due, all)} :
                 \/ level = 4 /\ TickSaturated(d, due, stored)
                 \/ level < 4 /\ ~stored /\ TickBreaksOff(d)
                 \/ /\ level < 4
                    /\ \E late \in due \cup {NoneLate} :
                         (\E s \in due : s < late) /\ TickRun(d, due, level, all, late, stored)
      BY <2>2, Zenon DEF HostCycle
    <3>3. d \in Nat
      BY <3>1
    <3>4. \/ TickIdle(d, FALSE, stored)
          \/ TickBreaksOff(d)
          \/ TickSaturated(d, DueAfter(d), stored)
          \/ \E level, late : TickRun(d, DueAfter(d), level, all, late, stored)
      BY <3>2, Zenon
    <3>5. FALSE \in BOOLEAN
      OBVIOUS
    <3> QED BY <3>3, <3>4, <3>5, Zenon
  <2> QED BY <2>1, <2>2
<1>2. CASE TickTooSoon(stored)
  <2>1. PICK d : d \in Nat
    OBVIOUS
  <2>2. ScheduleInv' /\ ran' = {}
    BY <1>2, <2>1, SkipKeepsInv
  <2> QED BY <2>2
<1>3. ASSUME NEW d \in Nat,
             \/ \E cancelled \in BOOLEAN : TickIdle(d, cancelled, stored)
             \/ TickBreaksOff(d) \/ TickSaturated(d, DueAfter(d), stored)
      PROVE  /\ ScheduleInv'
             /\ \A s \in ran' : cap[s] = "Granted" /\ s \in enabled /\ ctl = "Running"
  <2>1. ScheduleInv' /\ ran' = {}
    BY <1>3, SkipKeepsInv, Zenon
  <2> QED BY <2>1
<1>4. ASSUME NEW d \in Nat, NEW level, NEW limit, NEW late,
             TickRun(d, DueAfter(d), level, limit, late, stored)
      PROVE  /\ ScheduleInv'
             /\ \A s \in ran' : cap[s] = "Granted" /\ s \in enabled /\ ctl = "Running"
  BY <1>4, RunKeepsInv, Zenon
<1> QED
  BY <1>1, <1>2, <1>3, <1>4, Zenon

-----------------------------------------------------------------------------
(* The theorems about the schedule.                                        *)

\* Every step keeps the invariant and runs only what is permitted.
LEMMA ScheduleStep ==
    ASSUME ScheduleInv, [Next]_vars
    PROVE  /\ ScheduleInv'
           /\ UNCHANGED vars
              \/ \A s \in ran' : cap[s] = "Granted" /\ s \in enabled /\ ctl = "Running"
<1>1. CASE SamplerCommand
  <2>1. ran' = {}
    <3>1. PICK s \in Samplers :
            \/ \E perm \in Permissions : UpdatePermission(s, perm)
            \/ Activate(s) \/ PauseSampler(s) \/ StopSampler(s) \/ RevokeSampler(s)
            \/ RefreshSampler(s) \/ ClearSampler(s)
            \/ \E degraded \in BOOLEAN : SampleNow(s, degraded)
      BY <1>1 DEF SamplerCommand
    <3> QED BY <3>1 DEF UpdatePermission, Activate, PauseSampler, StopSampler, RevokeSampler,
                        RefreshSampler, ClearSampler, SampleNow, Follow
  <2> QED BY <1>1, <2>1, SamplerCommandKeepsInv
<1>2. CASE SchedulerCommand
  <2>1. ran' = {}
    BY <1>2 DEF SchedulerCommand, DisableSampler, EnableSampler, DisableScheduler, Pause, Resume,
                BeginStop, CompleteStop, RefreshStatus, Act
  <2> QED BY <1>2, <2>1, SchedulerCommandKeepsInv
<1>3. CASE \E stored \in BOOLEAN : ManualTick(stored) \/ WakeNow(stored)
  BY <1>3, TicksKeepInv DEF WakeNow
<1>4. CASE TimerTick
  BY <1>4, TicksKeepInv DEF TimerTick
<1>5. CASE PlanRefused
  <2>1. /\ enabled' = Now.enabled /\ ctl' = Now.ctl /\ ran' = {}
        /\ UNCHANGED <<cap, status, graceful, budget, dueIn, retry, since, quick>>
    BY <1>5 DEF PlanRefused
  <2>2. /\ Now.enabled = enabled
        /\ Now.ctl = "Running" => enabled # {} /\ ctl = "Running"
        /\ enabled # {} => Now.ctl = ctl
    BY NowFacts DEF ScheduleInv
  <2>3. WorkInv'
    BY <2>1, <2>2 DEF ScheduleInv, WorkInv, WorkState, RunningHasWork
  <2>4. RetryInv'
    BY <2>1, <2>2, RetryStays DEF ScheduleInv
  <2> QED BY <2>1, <2>3, <2>4 DEF ScheduleInv
<1>6. CASE Quiet
  <2>1. /\ UNCHANGED <<cap, status, ctl, graceful, enabled, budget, dueIn, retry>> /\ ran' = {}
        /\ since' = [s \in Samplers |-> Interval] /\ quick' = [s \in Samplers |-> 0]
    BY <1>6 DEF Quiet, controller
  <2>2. WorkInv'
    BY <2>1 DEF ScheduleInv, WorkInv, WorkState, RunningHasWork
  <2>3. ScheduleTypes'
    BY <2>1, SchedulerConstants DEF ScheduleInv, RetryInv, ScheduleTypes
  <2>4. enabled \subseteq Samplers
    BY DEF ScheduleInv, WorkInv, RunningHasWork, Eligible
  <2>5. RetriesUsed'
    BY <2>1, <2>4 DEF ScheduleInv, RetryInv, RetriesUsed, Spaced
  <2>6. RetriesWithinBudget'
    BY <2>1, <2>3 DEF ScheduleTypes, RetriesWithinBudget
  <2> QED BY <2>1, <2>2, <2>3, <2>5, <2>6 DEF ScheduleInv, RetryInv
<1>7. CASE UNCHANGED vars
  <2>1. UNCHANGED <<cap, status, ctl, graceful, enabled, budget, dueIn, retry, since, quick>>
    BY <1>7 DEF vars, controller, history
  <2>2. WorkInv'
    BY <2>1 DEF ScheduleInv, WorkInv, WorkState, RunningHasWork
  <2>3. RetryInv'
    BY <2>1, RetryStays DEF ScheduleInv
  <2> QED BY <1>7, <2>2, <2>3 DEF ScheduleInv
<1> QED
  BY <1>1, <1>2, <1>3, <1>4, <1>5, <1>6, <1>7 DEF Next, ClientStep, TimerStep

\* The invariant of the schedule, for any samplers, budgets and intervals.
THEOREM ScheduleInvariant == Spec => []ScheduleInv
<1>1. Init => ScheduleInv
  <2> SUFFICES ASSUME Init PROVE ScheduleInv
    OBVIOUS
  <2>1. /\ ctl = "Disabled" /\ graceful = FALSE /\ enabled = {} /\ budget \in [Samplers -> {Least(Budgets)}]
        /\ DOMAIN dueIn = {} /\ DOMAIN retry = {}
        /\ since = [s \in Samplers |-> Interval] /\ quick = [s \in Samplers |-> 0]
    BY DEF Init
  <2>2. Least(Budgets) \in Nat
    BY SchedulerConstants, LeastFacts
  <2>3. WorkInv
    BY <2>1 DEF WorkInv, WorkState, RunningHasWork
  <2>4. ScheduleTypes
    BY <2>1, <2>2, SchedulerConstants DEF ScheduleTypes
  <2>5. RetriesUsed /\ RetriesWithinBudget
    BY <2>1, <2>2 DEF RetriesUsed, RetriesWithinBudget
  <2> QED BY <2>3, <2>4, <2>5 DEF ScheduleInv, RetryInv
<1>2. ScheduleInv /\ [Next]_vars => ScheduleInv'
  BY ScheduleStep
<1> QED
  BY <1>1, <1>2, PTL DEF Spec

\* A running controller has an enabled and eligible schedule and was not asked to stop, though
\* permissions and samplers change under it (reconcile, apply_action).
THEOREM RunningControllerHasWork == Spec => []RunningHasWork
<1>1. ScheduleInv => RunningHasWork
  BY DEF ScheduleInv, WorkInv
<1> QED
  BY <1>1, ScheduleInvariant, PTL

\* A failing sampler runs at most its retry budget times without a whole interval in between
\* (tick, advance_due_without_catch_up), for any pressure, limit and timeout.
THEOREM RetriesStayInBudget == Spec => []RetriesWithinBudget
<1>1. ScheduleInv => RetriesWithinBudget
  BY DEF ScheduleInv, RetryInv
<1> QED
  BY <1>1, ScheduleInvariant, PTL

\* A tick hands a sampler to the runtime only while its capability itself is granted, its
\* schedule enabled and the controller running (the revalidation in tick).
THEOREM OnlyPermittedRun == Spec => RunsOnlyPermitted
<1>1. ScheduleInv /\ [Next]_vars =>
        [\A s \in ran' : cap[s] = "Granted" /\ s \in enabled /\ ctl = "Running"]_vars
  BY ScheduleStep
<1> QED
  BY <1>1, ScheduleInvariant, PTL DEF Spec, RunsOnlyPermitted

=============================================================================
