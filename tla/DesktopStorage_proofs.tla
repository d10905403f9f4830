------------------------ MODULE DesktopStorage_proofs ------------------------
(***************************************************************************)
(* Proofs about DesktopStorage, for any number of processes, launches and  *)
(* migrations.                                                             *)
(*                                                                         *)
(* WriterLockExact is not inductive by itself: that only an installed      *)
(* launch ever tries for the lock, and only a discarding one opens a       *)
(* database without it, is a fact about the modes (ModesFit). In the same  *)
(* way LeftoversReclaimable needs the sessions that have passed WriteMarker*)
(* (MarkedSessions), and MigrationsOnce the agreement of the record of     *)
(* migrations with what was executed (RecordsAgree).                       *)
(***************************************************************************)
EXTENDS DesktopStorage, TLAPS

Points == {"down", "cleaning", "marking", "auditing", "opening", "acquiring", "migrating", "up", "degraded"}
Modes == {"none", "ephemeral", "portable", "installed"}
ProcRecord == [pc : Points, mode : Modes, sid : 0..MaxLaunches, todo : SUBSET SessionIds]

\* The types that the proofs need.
ProcTypes == proc \in [Procs -> ProcRecord]
DiskTypes ==
    /\ folder \in [SessionIds -> SUBSET {"dir", "marker", "data"}]
    /\ lockFile \in BOOLEAN /\ stranded \in BOOLEAN
    /\ applied \in SUBSET (1..Migrations)
    /\ executions \in [1..Migrations -> Nat]
    /\ used \in Seq(Modes) /\ Len(used) <= MaxLaunches
    /\ disturbed \in SUBSET SessionIds

\* Which mode a process at each point is of.
ModesFit ==
    \A p \in Procs :
        /\ At(p, {"acquiring", "migrating"}) => proc[p].mode = "installed"
        /\ At(p, {"cleaning", "marking", "auditing", "opening"}) => proc[p].mode \in Discarding

\* A process past MakeSessionDir has a session of its own; past WriteMarker the
\* marker is there or somebody began to remove the directory.
MarkedSessions ==
    \A p \in Procs : proc[p].mode \in Discarding =>
        /\ At(p, {"marking", "auditing", "opening", "up"}) => proc[p].sid \in 1..Len(used)
        /\ At(p, {"auditing", "opening", "up"}) =>
              "marker" \in folder[proc[p].sid] \/ proc[p].sid \in disturbed

\* A migration is recorded exactly when its statements took effect, and the
\* recorded ones are the first ones.
RecordsAgree ==
    /\ \A m \in 1..Migrations : executions[m] = IF m \in applied THEN 1 ELSE 0
    /\ \A m \in applied : \A k \in 1..Migrations : k < m => k \in applied

-----------------------------------------------------------------------------
(* What the steps do to a process.                                         *)

\* Goto moves one process and leaves its mode, session and list alone.
LEMMA GotoFacts ==
    ASSUME NEW p \in Procs, NEW where \in Points, ProcTypes, Goto(p, where)
    PROVE  /\ ProcTypes'
           /\ proc'[p].pc = where /\ proc'[p].mode = proc[p].mode /\ proc'[p].sid = proc[p].sid
           /\ \A q \in Procs : q # p => proc'[q] = proc[q]
<1>1. [proc[p] EXCEPT !.pc = where] \in ProcRecord
  BY DEF ProcTypes, ProcRecord
<1>2. proc' = [proc EXCEPT ![p] = [proc[p] EXCEPT !.pc = where]]
  BY DEF Goto
<1>3. ProcTypes'
  BY <1>1, <1>2 DEF ProcTypes
<1> QED
  BY <1>2, <1>3 DEF ProcTypes, ProcRecord

\* Ends leaves nothing of a process.
LEMMA EndsFacts ==
    ASSUME NEW p \in Procs, ProcTypes, Ends(p)
    PROVE  /\ ProcTypes'
           /\ proc'[p].pc = "down" /\ proc'[p].mode = "none"
           /\ \A q \in Procs : q # p => proc'[q] = proc[q]
<1>1. NoProcess \in ProcRecord
  BY DesktopStorageAssumption DEF NoProcess, ProcRecord, SessionIds, Points, Modes
<1> QED
  BY <1>1 DEF Ends, ProcTypes, NoProcess

\* A launch begins with the mode it was given.
LEMMA LaunchFacts ==
    ASSUME NEW p \in Procs, NEW mode \in SessionModes, ProcTypes, LaunchDesktop(p, mode), DiskTypes
    PROVE  /\ ProcTypes'
           /\ proc'[p].pc = IF mode \in Discarding THEN "cleaning" ELSE "acquiring"
           /\ proc'[p].mode = mode
           /\ \A q \in Procs : q # p => proc'[q] = proc[q]
<1> DEFINE first == IF mode \in Discarding THEN "cleaning" ELSE "acquiring"
           found == IF mode \in Discarding
                    THEN {d \in DOMAIN used : used[d] = mode /\ folder[d] # {}} ELSE {}
           r == [pc |-> first, mode |-> mode, sid |-> 0, todo |-> found]
<1>1. found \in SUBSET SessionIds
  <2>1. DOMAIN used \subseteq SessionIds
    BY DesktopStorageAssumption DEF DiskTypes, SessionIds
  <2> QED BY <2>1
<1>2. mode \in Modes
  BY DEF SessionModes, Discarding, Modes
<1>4. proc' = [proc EXCEPT ![p] = r]
  BY DEF LaunchDesktop
<1>5. first \in Points /\ 0 \in 0..MaxLaunches
  BY DesktopStorageAssumption DEF Points
<1> HIDE DEF first, found
<1>3. r \in ProcRecord
  BY <1>1, <1>2, <1>5 DEF ProcRecord
<1> USE DEF first
<1> QED
  BY <1>3, <1>4 DEF ProcTypes

\* CleanEntry shortens the list and changes nothing else of the process.
LEMMA CleanFacts ==
    ASSUME NEW p \in Procs, NEW d \in SessionIds, ProcTypes, CleanEntry(p, d)
    PROVE  /\ ProcTypes'
           /\ \A q \in Procs : /\ proc'[q].pc = proc[q].pc /\ proc'[q].mode = proc[q].mode
                               /\ proc'[q].sid = proc[q].sid
<1>1. [proc[p] EXCEPT !.todo = @ \ {d}] \in ProcRecord
  BY DEF ProcTypes, ProcRecord
<1>2. proc' = [proc EXCEPT ![p] = [proc[p] EXCEPT !.todo = @ \ {d}]]
  BY DEF CleanEntry
<1>3. ProcTypes'
  BY <1>1, <1>2 DEF ProcTypes
<1> QED
  BY <1>2, <1>3 DEF ProcTypes, ProcRecord

\* MakeSessionDir gives the process a session that no process had.
LEMMA MakeFacts ==
    ASSUME NEW p \in Procs, ProcTypes, DiskTypes, MakeSessionDir(p)
    PROVE  /\ ProcTypes' /\ DiskTypes'
           /\ Len(used') = Len(used) + 1
           /\ proc'[p].pc = "marking" /\ proc'[p].mode = proc[p].mode /\ proc'[p].sid = Len(used')
           /\ \A q \in Procs : q # p => proc'[q] = proc[q]
<1>1. used' \in Seq(Modes) /\ Len(used') = Len(used) + 1 /\ Len(used') \in SessionIds
  BY DesktopStorageAssumption DEF MakeSessionDir, DiskTypes, ProcTypes, ProcRecord, SessionIds
<1> DEFINE r0 == [proc[p] EXCEPT !.pc = "marking"]
           r == [r0 EXCEPT !.sid = Len(used')]
<1>2. proc' = [proc EXCEPT ![p] = r]
  BY DEF MakeSessionDir, ProcTypes
<1>3. r \in ProcRecord
  <2>1. r0 \in ProcRecord
    BY DEF ProcTypes, ProcRecord, Points
  <2>2. Len(used') \in 0..MaxLaunches
    BY <1>1, DesktopStorageAssumption DEF SessionIds
  <2> HIDE DEF r0
  <2> QED BY <2>1, <2>2 DEF ProcRecord
<1>4. ProcTypes'
  BY <1>2, <1>3 DEF ProcTypes
<1>5. DiskTypes'
  BY <1>1, DesktopStorageAssumption DEF MakeSessionDir, DiskTypes, historyVars, SessionIds
<1>6. r.pc = "marking" /\ r.mode = proc[p].mode /\ r.sid = Len(used')
  BY DEF ProcTypes, ProcRecord
<1> QED
  BY <1>1, <1>2, <1>4, <1>5, <1>6 DEF ProcTypes

-----------------------------------------------------------------------------
(* Types and modes.                                                        *)

\* The operations that move one process by Goto, with the point they go to.
GotoStep(p, where) ==
    \/ where = "auditing" /\ WriteMarker(p)
    \/ where = "opening" /\ AuditStart(p)
    \/ where = "degraded" /\ (StartFails(p) \/ OpenInMemoryFails(p) \/ AcquireWriterFails(p)
                              \/ WriterConflict(p) \/ BootstrapFails(p))
    \/ where = "up" /\ (OpenInMemory(p) \/ BootstrapEnds(p))
    \/ where = "migrating" /\ AcquireWriter(p)

\* The operations with which a process ends.
EndStep(p) == ExitDiscarding(p) \/ ShutdownInstalled(p) \/ CloseInstalled(p) \/ ExitDegraded(p) \/ CrashDesktop(p)

\* Every step is one of seven kinds.
LEMMA StepKinds ==
    ASSUME [StorageNext]_storageVars
    PROVE  \/ UNCHANGED storageVars
           \/ \E p \in Procs :
                \/ \E mode \in SessionModes : LaunchDesktop(p, mode)
                \/ \E d \in SessionIds : CleanEntry(p, d)
                \/ MakeSessionDir(p)
                \/ \E where \in Points : GotoStep(p, where)
                \/ ApplyMigration(p) \/ AppendAudit(p)
                \/ EndStep(p)
<1>1. CASE UNCHANGED storageVars
  BY <1>1
<1>2. CASE StorageNext
  <2>1. PICK p \in Procs :
        \/ \E mode \in SessionModes : LaunchDesktop(p, mode)
        \/ \E d \in SessionIds : CleanEntry(p, d)
        \/ MakeSessionDir(p) \/ WriteMarker(p) \/ AuditStart(p) \/ StartFails(p)
        \/ OpenInMemory(p) \/ OpenInMemoryFails(p)
        \/ AcquireWriter(p) \/ AcquireWriterFails(p) \/ WriterConflict(p)
        \/ ApplyMigration(p) \/ BootstrapEnds(p) \/ BootstrapFails(p)
        \/ AppendAudit(p) \/ ExitDiscarding(p) \/ ShutdownInstalled(p) \/ CloseInstalled(p)
        \/ ExitDegraded(p) \/ CrashDesktop(p)
    BY <1>2, Zenon DEF StorageNext
  <2>2. "auditing" \in Points /\ "opening" \in Points /\ "degraded" \in Points /\ "up" \in Points
        /\ "migrating" \in Points
    BY DEF Points
  <2>3. CASE WriteMarker(p)
    BY <2>2, <2>3, Zenon DEF GotoStep
  <2>4. CASE AuditStart(p)
    BY <2>2, <2>4, Zenon DEF GotoStep
  <2>5. CASE StartFails(p) \/ OpenInMemoryFails(p) \/ AcquireWriterFails(p) \/ WriterConflict(p) \/ BootstrapFails(p)
    BY <2>2, <2>5, Zenon DEF GotoStep
  <2>6. CASE OpenInMemory(p) \/ BootstrapEnds(p)
    BY <2>2, <2>6, Zenon DEF GotoStep
  <2>7. CASE AcquireWriter(p)
    BY <2>2, <2>7, Zenon DEF GotoStep
  <2>8. CASE ExitDiscarding(p) \/ ShutdownInstalled(p) \/ CloseInstalled(p) \/ ExitDegraded(p) \/ CrashDesktop(p)
    BY <2>8, Zenon DEF EndStep
  <2> QED
    BY <2>1, <2>3, <2>4, <2>5, <2>6, <2>7, <2>8, Zenon
<1> QED
  BY <1>1, <1>2

\* What a step of the two large kinds does to the process.
LEMMA GotoStepFacts ==
    ASSUME NEW p \in Procs, NEW where \in Points, ProcTypes, GotoStep(p, where)
    PROVE  /\ ProcTypes'
           /\ proc'[p].pc = where /\ proc'[p].mode = proc[p].mode /\ proc'[p].sid = proc[p].sid
           /\ \A q \in Procs : q # p => proc'[q] = proc[q]
<1>1. Goto(p, where)
  BY DEF GotoStep, WriteMarker, AuditStart, StartFails, OpenInMemoryFails, AcquireWriterFails,
         WriterConflict, BootstrapFails, OpenInMemory, BootstrapEnds, AcquireWriter
<1> QED BY <1>1, GotoFacts

\* The process is gone after it.
LEMMA EndStepFacts ==
    ASSUME NEW p \in Procs, ProcTypes, EndStep(p)
    PROVE  /\ ProcTypes'
           /\ proc'[p].pc = "down" /\ proc'[p].mode = "none"
           /\ \A q \in Procs : q # p => proc'[q] = proc[q]
<1>1. Ends(p)
  BY DEF EndStep, ExitDiscarding, ShutdownInstalled, CloseInstalled, ExitDegraded, CrashDesktop
<1> QED BY <1>1, EndsFacts

\* The removal at the end of a session stays within the session's directory.
LEMMA FinishTypes ==
    ASSUME NEW p \in Procs, DiskTypes, proc[p].sid \in SessionIds, FinishSession(p)
    PROVE  /\ folder' \in [SessionIds -> SUBSET {"dir", "marker", "data"}]
           /\ disturbed' \in SUBSET SessionIds
  BY DEF FinishSession, Leavings, Audited, DiskTypes

\* No step leaves the types.
LEMMA TypesKept == ProcTypes /\ DiskTypes /\ MarkedSessions /\ ModesFit /\ [StorageNext]_storageVars
                   => ProcTypes' /\ DiskTypes'
<1> SUFFICES ASSUME ProcTypes, DiskTypes, MarkedSessions, ModesFit, [StorageNext]_storageVars
             PROVE  ProcTypes' /\ DiskTypes'
  OBVIOUS
<1>1. CASE UNCHANGED storageVars
  BY <1>1 DEF storageVars, diskVars, historyVars, ProcTypes, DiskTypes
<1>2. ASSUME NEW p \in Procs, NEW mode \in SessionModes, LaunchDesktop(p, mode) PROVE ProcTypes' /\ DiskTypes'
  BY <1>2, LaunchFacts DEF LaunchDesktop, DiskTypes, diskVars, historyVars
<1>3. ASSUME NEW p \in Procs, NEW d \in SessionIds, CleanEntry(p, d) PROVE ProcTypes' /\ DiskTypes'
  <2>1. DiskTypes'
    BY <1>3 DEF CleanEntry, DiskTypes, Leavings
  <2> QED BY <1>3, <2>1, CleanFacts
<1>4. ASSUME NEW p \in Procs, MakeSessionDir(p) PROVE ProcTypes' /\ DiskTypes'
  BY <1>4, MakeFacts
<1>5. ASSUME NEW p \in Procs, NEW where \in Points, GotoStep(p, where) PROVE ProcTypes' /\ DiskTypes'
  <2>1. CASE WriteMarker(p)
    BY <1>5, <2>1, GotoStepFacts DEF WriteMarker, DiskTypes, historyVars
  <2>2. CASE AuditStart(p)
    BY <1>5, <2>2, GotoStepFacts DEF AuditStart, Audited, DiskTypes, historyVars
  <2>3. CASE StartFails(p) \/ WriterConflict(p) \/ OpenInMemory(p) \/ BootstrapEnds(p)
    BY <1>5, <2>3, GotoStepFacts DEF StartFails, WriterConflict, OpenInMemory, BootstrapEnds, DiskTypes, diskVars, historyVars
  <2>4. CASE OpenInMemoryFails(p)
    <3>1. proc[p].sid \in SessionIds
      BY <2>4, DesktopStorageAssumption DEF OpenInMemoryFails, At, ModesFit, MarkedSessions, DiskTypes, SessionIds
    <3>2. DiskTypes'
      BY <2>4, <3>1, FinishTypes DEF OpenInMemoryFails, DiskTypes
    <3> QED BY <1>5, <3>2, GotoStepFacts
  <2>5. CASE AcquireWriterFails(p) \/ BootstrapFails(p) \/ AcquireWriter(p)
    BY <1>5, <2>5, GotoStepFacts DEF AcquireWriterFails, BootstrapFails, ReleaseWriter, AcquireWriter, DiskTypes, historyVars
  <2> QED BY <1>5, <2>1, <2>2, <2>3, <2>4, <2>5, GotoStepFacts DEF GotoStep
<1>6. ASSUME NEW p \in Procs, ApplyMigration(p) PROVE ProcTypes' /\ DiskTypes'
  BY <1>6 DEF ApplyMigration, Recorded, Pending, ProcTypes, DiskTypes
<1>7. ASSUME NEW p \in Procs, AppendAudit(p) PROVE ProcTypes' /\ DiskTypes'
  BY <1>7 DEF AppendAudit, Audited, historyVars, ProcTypes, DiskTypes
<1>8. ASSUME NEW p \in Procs, EndStep(p) PROVE ProcTypes' /\ DiskTypes'
  <2>1. CASE ExitDiscarding(p)
    <3>1. proc[p].sid \in SessionIds
      BY <2>1, DesktopStorageAssumption DEF ExitDiscarding, At, MarkedSessions, DiskTypes, SessionIds
    <3>2. DiskTypes'
      BY <2>1, <3>1, FinishTypes DEF ExitDiscarding, DiskTypes
    <3> QED BY <1>8, <3>2, EndStepFacts
  <2>2. CASE ShutdownInstalled(p) \/ CloseInstalled(p) \/ ExitDegraded(p)
    BY <1>8, <2>2, EndStepFacts DEF ShutdownInstalled, CloseInstalled, ReleaseWriter, ExitDegraded, DiskTypes, diskVars, historyVars
  <2>3. CASE CrashDesktop(p)
    BY <1>8, <2>3, EndStepFacts DEF CrashDesktop, HoldsWriter, DiskTypes, diskVars
  <2> QED BY <1>8, <2>1, <2>2, <2>3 DEF EndStep
<1> QED BY <1>1, <1>2, <1>3, <1>4, <1>5, <1>6, <1>7, <1>8, StepKinds

\* Which mode a process at each point is of does not change.
LEMMA ModesKept == ProcTypes /\ DiskTypes /\ ModesFit /\ [StorageNext]_storageVars => ModesFit'
<1> SUFFICES ASSUME ProcTypes, DiskTypes, ModesFit, [StorageNext]_storageVars PROVE ModesFit'
  OBVIOUS
<1> USE DEF ModesFit, At, Discarding
<1>1. CASE UNCHANGED storageVars
  BY <1>1 DEF storageVars
<1>2. ASSUME NEW p \in Procs, NEW mode \in SessionModes, LaunchDesktop(p, mode) PROVE ModesFit'
  BY <1>2, LaunchFacts DEF SessionModes
<1>3. ASSUME NEW p \in Procs, NEW d \in SessionIds, CleanEntry(p, d) PROVE ModesFit'
  BY <1>3, CleanFacts
<1>4. ASSUME NEW p \in Procs, MakeSessionDir(p) PROVE ModesFit'
  <2>1. /\ proc'[p].pc = "marking" /\ proc'[p].mode = proc[p].mode
        /\ \A q \in Procs : q # p => proc'[q] = proc[q]
    BY <1>4, MakeFacts
  <2>2. proc[p].pc = "cleaning"
    BY <1>4 DEF MakeSessionDir
  <2> QED BY <2>1, <2>2
<1>5. ASSUME NEW p \in Procs, NEW where \in Points, GotoStep(p, where) PROVE ModesFit'
  <2>1. where \in {"auditing", "opening"} => proc[p].pc \in {"marking", "auditing"}
    BY <1>5 DEF GotoStep, WriteMarker, AuditStart
  <2>2. where = "migrating" => proc[p].pc = "acquiring"
    BY <1>5 DEF GotoStep, AcquireWriter
  <2>3. where \in {"auditing", "opening", "migrating", "degraded", "up"}
    BY <1>5 DEF GotoStep
  <2> QED BY <1>5, <2>1, <2>2, <2>3, GotoStepFacts
<1>6. ASSUME NEW p \in Procs, ApplyMigration(p) \/ AppendAudit(p) PROVE ModesFit'
  BY <1>6 DEF ApplyMigration, AppendAudit
<1>7. ASSUME NEW p \in Procs, EndStep(p) PROVE ModesFit'
  BY <1>7, EndStepFacts
<1> QED BY <1>1, <1>2, <1>3, <1>4, <1>5, <1>6, <1>7, StepKinds

-----------------------------------------------------------------------------
(* The writer lock.                                                        *)

\* Steps that move neither the holders nor the file keep the lock exact.
LEMMA LockSame ==
    ASSUME WriterLockExact, \A q \in Procs : HoldsWriter(q)' <=> HoldsWriter(q),
           lockFile' = lockFile, stranded' = stranded
    PROVE  WriterLockExact'
  BY DEF WriterLockExact

\* The one holder gives the lease up: the file goes with it, or is stranded.
LEMMA ReleaseExact ==
    ASSUME NEW p \in Procs, DiskTypes, WriterLockExact, HoldsWriter(p), ReleaseWriter,
           \A q \in Procs : ~HoldsWriter(q)'
    PROVE  WriterLockExact'
<1>1. lockFile /\ ~stranded
  BY DEF WriterLockExact
<1>2. (lockFile' = FALSE /\ stranded' = FALSE) \/ (lockFile' = TRUE /\ stranded' = TRUE)
  BY <1>1 DEF ReleaseWriter, DiskTypes
<1> QED BY <1>2, Zenon DEF WriterLockExact

\* Only a process that creates the lock file comes to hold the writer, and only
\* the process that holds it removes the file.
LEMMA LockKept ==
    ProcTypes /\ DiskTypes /\ ModesFit /\ WriterLockExact /\ [StorageNext]_storageVars => WriterLockExact'
<1> SUFFICES ASSUME ProcTypes, DiskTypes, ModesFit, WriterLockExact, [StorageNext]_storageVars
             PROVE  WriterLockExact'
  OBVIOUS
<1> USE DEF HoldsWriter, At
<1>1. CASE UNCHANGED storageVars
  BY <1>1 DEF storageVars, diskVars, historyVars, WriterLockExact
<1>2. ASSUME NEW p \in Procs, NEW mode \in SessionModes, LaunchDesktop(p, mode) PROVE WriterLockExact'
  <2>1. \A q \in Procs : HoldsWriter(q)' <=> HoldsWriter(q)
    BY <1>2, LaunchFacts DEF LaunchDesktop, Discarding
  <2> QED BY <1>2, <2>1, LockSame DEF LaunchDesktop, diskVars, historyVars
<1>3. ASSUME NEW p \in Procs, NEW d \in SessionIds, CleanEntry(p, d) PROVE WriterLockExact'
  <2>1. \A q \in Procs : HoldsWriter(q)' <=> HoldsWriter(q)
    BY <1>3, CleanFacts
  <2> QED BY <1>3, <2>1, LockSame DEF CleanEntry
<1>4. ASSUME NEW p \in Procs, MakeSessionDir(p) PROVE WriterLockExact'
  <2>1. \A q \in Procs : HoldsWriter(q)' <=> HoldsWriter(q)
    BY <1>4, MakeFacts DEF MakeSessionDir
  <2> QED BY <1>4, <2>1, LockSame DEF MakeSessionDir, historyVars
<1>5. ASSUME NEW p \in Procs, NEW where \in Points, GotoStep(p, where) PROVE WriterLockExact'
  <2>1. CASE \/ where = "auditing" /\ WriteMarker(p)
             \/ where = "opening" /\ AuditStart(p)
             \/ where = "degraded" /\ (StartFails(p) \/ WriterConflict(p))
    <3>1. where \in {"auditing", "opening", "degraded"} /\ proc[p].pc \notin {"migrating", "up"}
      BY <2>1 DEF WriteMarker, AuditStart, StartFails, WriterConflict
    <3>2. \A q \in Procs : HoldsWriter(q)' <=> HoldsWriter(q)
      BY <1>5, <3>1, GotoStepFacts
    <3> QED BY <2>1, <3>2, LockSame DEF WriteMarker, AuditStart, StartFails, WriterConflict, diskVars, historyVars
  <2>2. CASE OpenInMemory(p) \/ OpenInMemoryFails(p)
    <3>1. proc[p].pc = "opening" /\ proc[p].mode # "installed"
      BY <2>2 DEF OpenInMemory, OpenInMemoryFails, ModesFit, Discarding
    <3>2. \A q \in Procs : HoldsWriter(q)' <=> HoldsWriter(q)
      BY <1>5, <3>1, GotoStepFacts
    <3> QED BY <2>2, <3>2, LockSame DEF OpenInMemory, OpenInMemoryFails, diskVars, historyVars
  <2>3. CASE where = "up" /\ BootstrapEnds(p)
    <3>1. \A q \in Procs : HoldsWriter(q)' <=> HoldsWriter(q)
      BY <1>5, <2>3, GotoStepFacts DEF BootstrapEnds
    <3> QED BY <2>3, <3>1, LockSame DEF BootstrapEnds, diskVars, historyVars
  <2>4. CASE where = "migrating" /\ AcquireWriter(p)
    <3>1. ~lockFile /\ lockFile' /\ HoldsWriter(p)' /\ stranded' = stranded
      BY <1>5, <2>4, GotoStepFacts DEF AcquireWriter, LockIsFree, ModesFit, historyVars
    <3>2. ~stranded /\ \A q \in Procs : ~HoldsWriter(q)
      BY <3>1 DEF WriterLockExact
    <3>3. \A q \in Procs : q # p => ~HoldsWriter(q)'
      BY <1>5, <3>2, GotoStepFacts
    <3> QED BY <3>1, <3>2, <3>3 DEF WriterLockExact
  <2>5. CASE where = "degraded" /\ AcquireWriterFails(p)
    <3>1. ~lockFile /\ lockFile' /\ stranded'
      BY <2>5 DEF AcquireWriterFails, LockIsFree
    <3>2. \A q \in Procs : ~HoldsWriter(q)
      BY <3>1 DEF WriterLockExact
    <3>3. \A q \in Procs : ~HoldsWriter(q)'
      BY <1>5, <2>5, <3>2, GotoStepFacts
    <3> QED BY <3>1, <3>3 DEF WriterLockExact
  <2>6. CASE where = "degraded" /\ BootstrapFails(p)
    <3>1. HoldsWriter(p) /\ ReleaseWriter
      BY <2>6 DEF BootstrapFails, ModesFit
    <3>2. \A q \in Procs : ~HoldsWriter(q)'
      BY <1>5, <2>6, <3>1, GotoStepFacts DEF WriterLockExact
    <3> QED BY <3>1, <3>2, ReleaseExact
  <2> QED BY <1>5, <2>1, <2>2, <2>3, <2>4, <2>5, <2>6 DEF GotoStep
<1>6. ASSUME NEW p \in Procs, ApplyMigration(p) \/ AppendAudit(p) PROVE WriterLockExact'
  <2>1. \A q \in Procs : HoldsWriter(q)' <=> HoldsWriter(q)
    BY <1>6 DEF ApplyMigration, AppendAudit
  <2> QED BY <1>6, <2>1, LockSame DEF ApplyMigration, AppendAudit, historyVars
<1>7. ASSUME NEW p \in Procs, EndStep(p) PROVE WriterLockExact'
  <2>1. ~HoldsWriter(p)' /\ \A q \in Procs : q # p => (HoldsWriter(q)' <=> HoldsWriter(q))
    BY <1>7, EndStepFacts
  <2>2. CASE ExitDiscarding(p) \/ ExitDegraded(p)
    <3>1. ~HoldsWriter(p)
      BY <2>2 DEF ExitDiscarding, ExitDegraded, Discarding
    <3> QED BY <2>1, <2>2, <3>1, LockSame DEF ExitDiscarding, ExitDegraded, diskVars, historyVars
  <2>3. CASE ShutdownInstalled(p)
    <3>1. HoldsWriter(p) /\ stranded' /\ lockFile' = lockFile
      BY <2>3 DEF ShutdownInstalled, diskVars
    <3>2. \A q \in Procs : ~HoldsWriter(q)'
      BY <2>1, <3>1 DEF WriterLockExact
    <3> QED BY <3>1, <3>2 DEF WriterLockExact
  <2>4. CASE CloseInstalled(p)
    <3>1. HoldsWriter(p) /\ ReleaseWriter
      BY <2>4 DEF CloseInstalled
    <3>2. \A q \in Procs : ~HoldsWriter(q)'
      BY <2>1, <3>1 DEF WriterLockExact
    <3> QED BY <3>1, <3>2, ReleaseExact
  <2>5. CASE CrashDesktop(p)
    <3>1. stranded' = (stranded \/ HoldsWriter(p)) /\ lockFile' = lockFile
      BY <2>5 DEF CrashDesktop, diskVars
    <3> QED BY <2>1, <3>1 DEF WriterLockExact
  <2> QED BY <1>7, <2>2, <2>3, <2>4, <2>5 DEF EndStep
<1> QED BY <1>1, <1>2, <1>3, <1>4, <1>5, <1>6, <1>7, StepKinds

-----------------------------------------------------------------------------
(* What sessions leave on disk.                                            *)

Marked(d) == "marker" \in folder[d] \/ d \in disturbed
\* LeftoversReclaimable of one directory
Reclaimable(d) == "data" \in folder[d] => Marked(d)

\* The removal at the end of a session disturbs that session's directory only.
LEMMA FinishMarks ==
    ASSUME NEW p \in Procs, DiskTypes, proc[p].sid \in SessionIds, FinishSession(p),
           \A d \in SessionIds : Reclaimable(d)
    PROVE  \A d \in SessionIds : (Marked(d) => Marked(d)') /\ Reclaimable(d)'
<1>1. \E rest : folder' = [folder EXCEPT ![proc[p].sid] = rest]
  BY DEF FinishSession
<1>2. disturbed' = disturbed \cup {proc[p].sid}
  BY DEF FinishSession
<1> QED BY <1>1, <1>2 DEF Marked, Reclaimable, DiskTypes

\* A removal is the only step that takes a marker away, and what it touches
\* counts as disturbed; data is written to marked directories only.
LEMMA MarksKept ==
    ProcTypes /\ DiskTypes /\ ModesFit /\ MarkedSessions /\ LeftoversReclaimable
        /\ [StorageNext]_storageVars
    => MarkedSessions' /\ LeftoversReclaimable'
<1> SUFFICES ASSUME ProcTypes, DiskTypes, ModesFit, MarkedSessions, LeftoversReclaimable,
                    [StorageNext]_storageVars
             PROVE  MarkedSessions' /\ LeftoversReclaimable'
  OBVIOUS
<1> USE DEF At
<1>a. ASSUME \A d \in SessionIds : (Marked(d) => Marked(d)') /\ Reclaimable(d)',
             NEW p \in Procs, \A q \in Procs : q # p => proc'[q] = proc[q],
             \A q \in Procs : proc[q].mode \in Discarding
                 /\ proc[q].pc \in {"marking", "auditing", "opening", "up"} => proc[q].sid \in SessionIds,
             Len(used') >= Len(used), Len(used') \in Nat, Len(used) \in Nat,
             proc'[p].mode \in Discarding /\ proc'[p].pc \in {"marking", "auditing", "opening", "up"}
                 => proc'[p].sid \in 1..Len(used'),
             proc'[p].mode \in Discarding /\ proc'[p].pc \in {"auditing", "opening", "up"}
                 => Marked(proc[p].sid)'
      PROVE  MarkedSessions' /\ LeftoversReclaimable'
  BY <1>a DEF MarkedSessions, LeftoversReclaimable, Marked, Reclaimable
<1>b. /\ \A q \in Procs : proc[q].mode \in Discarding
            /\ proc[q].pc \in {"marking", "auditing", "opening", "up"} => proc[q].sid \in SessionIds
      /\ Len(used) \in Nat
      /\ \A d \in SessionIds : Reclaimable(d)
  BY DesktopStorageAssumption DEF MarkedSessions, DiskTypes, SessionIds, LeftoversReclaimable, Reclaimable, Marked
<1>1. CASE UNCHANGED storageVars
  BY <1>1 DEF storageVars, diskVars, historyVars, MarkedSessions, LeftoversReclaimable
<1>2. ASSUME NEW p \in Procs, NEW mode \in SessionModes, LaunchDesktop(p, mode)
      PROVE  MarkedSessions' /\ LeftoversReclaimable'
  <2>1. \A d \in SessionIds : (Marked(d) => Marked(d)') /\ Reclaimable(d)'
    BY <1>2, <1>b DEF LaunchDesktop, diskVars, historyVars, Marked, Reclaimable
  <2>2. used' = used
    BY <1>2 DEF LaunchDesktop
  <2> QED BY <1>2, <1>a, <1>b, <2>1, <2>2, LaunchFacts
<1>3. ASSUME NEW p \in Procs, NEW d \in SessionIds, CleanEntry(p, d)
      PROVE  MarkedSessions' /\ LeftoversReclaimable'
  <2>1. \A e \in SessionIds : (Marked(e) => Marked(e)') /\ Reclaimable(e)'
    BY <1>3, <1>b DEF CleanEntry, Leavings, Marked, Reclaimable, DiskTypes
  <2>2. used' = used
    BY <1>3 DEF CleanEntry
  <2> QED BY <1>3, <1>b, <2>1, <2>2, CleanFacts DEF MarkedSessions, LeftoversReclaimable, Marked, Reclaimable
<1>4. ASSUME NEW p \in Procs, MakeSessionDir(p)
      PROVE  MarkedSessions' /\ LeftoversReclaimable'
  <2>1. /\ folder' = [folder EXCEPT ![Len(used')] = {"dir"}] /\ disturbed' = disturbed
        /\ Len(used') \in SessionIds
    BY <1>4, MakeFacts, DesktopStorageAssumption DEF MakeSessionDir, historyVars, SessionIds, DiskTypes
  <2>2. \A d \in SessionIds : Reclaimable(d)' /\ (d # Len(used') /\ Marked(d) => Marked(d)')
    BY <1>b, <2>1 DEF Marked, Reclaimable, DiskTypes
  <2>3. \A q \in Procs : q # p /\ proc[q].mode \in Discarding
            /\ proc[q].pc \in {"marking", "auditing", "opening", "up"} => proc[q].sid # Len(used')
    BY <1>4, <1>b, MakeFacts DEF MarkedSessions
  <2> QED BY <1>4, <1>b, <2>1, <2>2, <2>3, MakeFacts
          DEF MarkedSessions, LeftoversReclaimable, Marked, Reclaimable, SessionIds
<1>5. ASSUME NEW p \in Procs, NEW where \in Points, GotoStep(p, where)
      PROVE  MarkedSessions' /\ LeftoversReclaimable'
  <2>1. used' = used
    BY <1>5 DEF GotoStep, WriteMarker, AuditStart, StartFails, OpenInMemoryFails, AcquireWriterFails,
                WriterConflict, BootstrapFails, OpenInMemory, BootstrapEnds, AcquireWriter
  <2>2. CASE where = "auditing" /\ WriteMarker(p)
    <3>1. proc[p].sid \in 1..Len(used) /\ proc[p].sid \in SessionIds
      BY <1>b, <2>2 DEF WriteMarker, ModesFit, MarkedSessions
    <3>2. /\ folder' = [folder EXCEPT ![proc[p].sid] = @ \cup {"dir", "marker"}] /\ disturbed' = disturbed
      BY <2>2 DEF WriteMarker, historyVars
    <3>3. \A d \in SessionIds : (Marked(d) => Marked(d)') /\ Reclaimable(d)'
      BY <1>b, <3>1, <3>2 DEF Marked, Reclaimable, DiskTypes
    <3>4. Marked(proc[p].sid)'
      BY <1>5, <3>1, <3>2, GotoStepFacts DEF Marked, DiskTypes
    <3> QED BY <1>5, <1>a, <1>b, <2>1, <3>1, <3>3, <3>4, GotoStepFacts DEF Marked
  <2>3. CASE where = "opening" /\ AuditStart(p)
    <3>1. proc[p].sid \in 1..Len(used) /\ proc[p].sid \in SessionIds /\ Marked(proc[p].sid)
      BY <1>b, <2>3 DEF AuditStart, ModesFit, MarkedSessions, Marked
    <3>2. /\ folder' \in {folder, [folder EXCEPT ![proc[p].sid] = @ \cup {"dir", "data"}]}
          /\ disturbed' = disturbed
      BY <2>3 DEF AuditStart, historyVars, Audited
    <3>3. \A d \in SessionIds : (Marked(d) => Marked(d)') /\ Reclaimable(d)'
      BY <1>b, <3>1, <3>2 DEF Marked, Reclaimable, DiskTypes
    <3> QED BY <1>5, <1>a, <1>b, <2>1, <3>1, <3>3, GotoStepFacts DEF Marked
  <2>4. CASE where = "degraded" /\ (StartFails(p) \/ AcquireWriterFails(p) \/ WriterConflict(p) \/ BootstrapFails(p))
    <3>1. \A d \in SessionIds : (Marked(d) => Marked(d)') /\ Reclaimable(d)'
      BY <1>b, <2>4 DEF StartFails, AcquireWriterFails, WriterConflict, BootstrapFails, diskVars, historyVars,
                        Marked, Reclaimable
    <3> QED BY <1>5, <1>a, <1>b, <2>1, <2>4, <3>1, GotoStepFacts
  <2>5. CASE where = "degraded" /\ OpenInMemoryFails(p)
    <3>1. proc[p].sid \in SessionIds
      BY <1>b, <2>5 DEF OpenInMemoryFails, ModesFit
    <3>2. \A d \in SessionIds : (Marked(d) => Marked(d)') /\ Reclaimable(d)'
      BY <1>b, <2>5, <3>1, FinishMarks DEF OpenInMemoryFails
    <3> QED BY <1>5, <1>a, <1>b, <2>1, <2>5, <3>2, GotoStepFacts
  <2>6. CASE where = "up" /\ OpenInMemory(p)
    <3>1. proc[p].sid \in 1..Len(used) /\ proc[p].sid \in SessionIds /\ Marked(proc[p].sid)
      BY <1>b, <2>6 DEF OpenInMemory, ModesFit, MarkedSessions, Marked
    <3>2. folder' = folder /\ disturbed' = disturbed
      BY <2>6 DEF OpenInMemory, diskVars, historyVars
    <3>3. \A d \in SessionIds : (Marked(d) => Marked(d)') /\ Reclaimable(d)'
      BY <1>b, <3>2 DEF Marked, Reclaimable
    <3> QED BY <1>5, <1>a, <1>b, <2>1, <3>1, <3>3, GotoStepFacts DEF Marked
  <2>7. CASE where \in {"up", "migrating"} /\ (BootstrapEnds(p) \/ AcquireWriter(p))
    <3>1. proc[p].mode = "installed"
      BY <2>7 DEF BootstrapEnds, AcquireWriter, ModesFit
    <3>2. \A d \in SessionIds : (Marked(d) => Marked(d)') /\ Reclaimable(d)'
      BY <1>b, <2>7 DEF BootstrapEnds, AcquireWriter, diskVars, historyVars, Marked, Reclaimable
    <3> QED BY <1>5, <1>a, <1>b, <2>1, <3>1, <3>2, GotoStepFacts DEF Discarding
  <2> QED BY <1>5, <2>2, <2>3, <2>4, <2>5, <2>6, <2>7 DEF GotoStep
<1>6. ASSUME NEW p \in Procs, ApplyMigration(p)
      PROVE  MarkedSessions' /\ LeftoversReclaimable'
  BY <1>6 DEF ApplyMigration, MarkedSessions, LeftoversReclaimable
<1>7. ASSUME NEW p \in Procs, AppendAudit(p)
      PROVE  MarkedSessions' /\ LeftoversReclaimable'
  <2>1. proc[p].sid \in SessionIds /\ Marked(proc[p].sid)
    BY <1>b, <1>7 DEF AppendAudit, MarkedSessions, Marked, Discarding
  <2>2. /\ folder' = [folder EXCEPT ![proc[p].sid] = @ \cup {"dir", "data"}] /\ disturbed' = disturbed
        /\ proc' = proc /\ used' = used
    BY <1>7 DEF AppendAudit, Audited, historyVars
  <2>3. \A d \in SessionIds : (Marked(d) => Marked(d)') /\ Reclaimable(d)'
    BY <1>b, <2>1, <2>2 DEF Marked, Reclaimable, DiskTypes
  <2> QED BY <1>b, <2>2, <2>3 DEF MarkedSessions, LeftoversReclaimable, Marked, Reclaimable
<1>8. ASSUME NEW p \in Procs, EndStep(p)
      PROVE  MarkedSessions' /\ LeftoversReclaimable'
  <2>1. used' = used
    BY <1>8 DEF EndStep, ExitDiscarding, ShutdownInstalled, CloseInstalled, ExitDegraded, CrashDesktop
  <2>2. CASE ExitDiscarding(p)
    <3>1. proc[p].sid \in SessionIds
      BY <1>b, <2>2 DEF ExitDiscarding
    <3>2. \A d \in SessionIds : (Marked(d) => Marked(d)') /\ Reclaimable(d)'
      BY <1>b, <2>2, <3>1, FinishMarks DEF ExitDiscarding
    <3> QED BY <1>8, <1>a, <1>b, <2>1, <3>2, EndStepFacts
  <2>3. CASE ShutdownInstalled(p) \/ CloseInstalled(p) \/ ExitDegraded(p) \/ CrashDesktop(p)
    <3>1. \A d \in SessionIds : (Marked(d) => Marked(d)') /\ Reclaimable(d)'
      BY <1>b, <2>3 DEF ShutdownInstalled, CloseInstalled, ExitDegraded, CrashDesktop, diskVars, historyVars,
                        Marked, Reclaimable
    <3> QED BY <1>8, <1>a, <1>b, <2>1, <3>1, EndStepFacts
  <2> QED BY <1>8, <2>2, <2>3 DEF EndStep
<1> QED BY <1>1, <1>2, <1>3, <1>4, <1>5, <1>6, <1>7, <1>8, StepKinds

-----------------------------------------------------------------------------
(* Migrations.                                                             *)

\* The record and the statements of a migration take effect together, and the
\* first pending one is taken.
LEMMA RecordsKept == DiskTypes /\ RecordsAgree /\ [StorageNext]_storageVars => RecordsAgree'
<1> SUFFICES ASSUME DiskTypes, RecordsAgree, [StorageNext]_storageVars PROVE RecordsAgree'
  OBVIOUS
<1>1. ASSUME UNCHANGED <<applied, executions>> PROVE RecordsAgree'
  BY <1>1 DEF RecordsAgree
<1>2. ASSUME NEW p \in Procs, ApplyMigration(p) PROVE RecordsAgree'
  <2>1. PICK m \in Pending : /\ \A k \in Pending : m <= k
                             /\ executions' = [executions EXCEPT ![m] = @ + 1]
                             /\ applied' = applied \cup {m}
    BY <1>2 DEF ApplyMigration, Recorded
  <2>2. m \in 1..Migrations /\ m \notin applied
    BY <2>1 DEF Pending
  <2>3. \A k \in 1..Migrations : k < m => k \in applied
    BY <2>1, <2>2, DesktopStorageAssumption DEF Pending
  <2>4. \A k \in 1..Migrations : executions'[k] = IF k \in applied' THEN 1 ELSE 0
    BY <2>1, <2>2 DEF RecordsAgree, DiskTypes
  <2>5. \A j \in applied' : \A k \in 1..Migrations : k < j => k \in applied'
    BY <2>1, <2>3 DEF RecordsAgree
  <2> QED BY <2>4, <2>5 DEF RecordsAgree
<1>3. (UNCHANGED <<applied, executions>>) \/ \E p \in Procs : ApplyMigration(p)
  <2>1. CASE UNCHANGED storageVars
    BY <2>1 DEF storageVars, diskVars, historyVars
  <2>2. ASSUME NEW p \in Procs, NEW mode \in SessionModes, LaunchDesktop(p, mode)
        PROVE  UNCHANGED <<applied, executions>>
    BY <2>2 DEF LaunchDesktop, diskVars, historyVars
  <2>3. ASSUME NEW p \in Procs, NEW d \in SessionIds, CleanEntry(p, d) PROVE UNCHANGED <<applied, executions>>
    BY <2>3 DEF CleanEntry
  <2>4. ASSUME NEW p \in Procs, MakeSessionDir(p) \/ AppendAudit(p) PROVE UNCHANGED <<applied, executions>>
    BY <2>4 DEF MakeSessionDir, AppendAudit, historyVars
  <2>5. ASSUME NEW p \in Procs, NEW where \in Points, GotoStep(p, where) PROVE UNCHANGED <<applied, executions>>
    BY <2>5 DEF GotoStep, WriteMarker, AuditStart, StartFails, OpenInMemoryFails, AcquireWriterFails,
                WriterConflict, BootstrapFails, OpenInMemory, BootstrapEnds, AcquireWriter, diskVars, historyVars
  <2>6. ASSUME NEW p \in Procs, EndStep(p) PROVE UNCHANGED <<applied, executions>>
    BY <2>6 DEF EndStep, ExitDiscarding, ShutdownInstalled, CloseInstalled, ExitDegraded, CrashDesktop,
                diskVars, historyVars
  <2> QED BY <2>1, <2>2, <2>3, <2>4, <2>5, <2>6, StepKinds
<1> QED BY <1>1, <1>2, <1>3

-----------------------------------------------------------------------------
(* The theorems.                                                           *)

StorageInv ==
    ProcTypes /\ DiskTypes /\ ModesFit /\ MarkedSessions /\ RecordsAgree
    /\ WriterLockExact /\ LeftoversReclaimable

\* The initial state has the invariant: nothing is on disk, no process is up.
LEMMA InitHolds == StorageInit => StorageInv
<1> SUFFICES ASSUME StorageInit PROVE StorageInv
  OBVIOUS
<1>1. NoProcess \in ProcRecord
  BY DesktopStorageAssumption DEF NoProcess, ProcRecord, SessionIds, Points, Modes
<1>2. ProcTypes
  BY <1>1 DEF StorageInit, ProcTypes
<1>3. DiskTypes
  <2>1. folder \in [SessionIds -> SUBSET {"dir", "marker", "data"}] /\ executions \in [1..Migrations -> Nat]
    BY DEF StorageInit
  <2>2. used \in Seq(Modes) /\ Len(used) <= MaxLaunches
    BY DesktopStorageAssumption DEF StorageInit
  <2> QED BY <2>1, <2>2 DEF StorageInit, DiskTypes
<1>4. \A p \in Procs : proc[p].pc = "down" /\ proc[p].mode = "none"
  BY DEF StorageInit, NoProcess
<1>5. ModesFit /\ MarkedSessions /\ WriterLockExact
  BY <1>4 DEF StorageInit, ModesFit, MarkedSessions, WriterLockExact, HoldsWriter, At, Discarding
<1>6. RecordsAgree /\ LeftoversReclaimable
  BY DEF StorageInit, RecordsAgree, LeftoversReclaimable, SessionIds
<1> QED BY <1>2, <1>3, <1>5, <1>6 DEF StorageInv

\* The invariant holds in every reachable state.
THEOREM StorageInvariant == StorageSpec => []StorageInv
<1>1. StorageInv /\ [StorageNext]_storageVars => StorageInv'
  BY TypesKept, ModesKept, LockKept, MarksKept, RecordsKept DEF StorageInv
<1> QED BY InitHolds, <1>1, PTL DEF StorageSpec

\* storage::runtime: create_new on the lock file keeps any number of processes
\* from having the kept database open at the same time, and the file is there
\* exactly while one has it open or after one was left behind: by an end without
\* release, a failed write or a failed removal, after which nobody opens it again.
THEOREM WriterIsExclusive == StorageSpec => []WriterLockExact
<1>1. StorageInv => WriterLockExact
  BY DEF StorageInv
<1> QED BY StorageInvariant, <1>1, PTL

\* storage::migration: through any number of crashes and failed bootstraps, of any
\* number of processes, no migration takes effect twice or out of order.
THEOREM MigrationsAreOnce == StorageSpec => []MigrationsOnce
<1>1. StorageInv => MigrationsOnce
  <2> SUFFICES ASSUME StorageInv PROVE MigrationsOnce
    OBVIOUS
  <2>1. \A m \in 1..Migrations : executions[m] = IF m \in applied THEN 1 ELSE 0
    BY DEF StorageInv, RecordsAgree
  <2>2. \A m \in 1..Migrations, k \in 1..Migrations : m \in applied /\ k < m => k \in applied
    BY DEF StorageInv, RecordsAgree
  <2> QED BY <2>1, <2>2 DEF MigrationsOnce
<1> QED BY StorageInvariant, <1>1, PTL

\* storage::session: wherever a crash, a failed start or another launch's cleanup
\* falls, data on disk can be found by its marker unless a removal had begun.
THEOREM DataIsReclaimable == StorageSpec => []LeftoversReclaimable
<1>1. StorageInv => LeftoversReclaimable
  BY DEF StorageInv
<1> QED BY StorageInvariant, <1>1, PTL

=============================================================================
