--------------------------- MODULE DesktopStorage ---------------------------
(***************************************************************************)
(* What launches, exits and crashes of the desktop application leave on    *)
(* disk: the session directories of the ephemeral and portable modes       *)
(* (storage::session), and the writer lock and the migrations of the       *)
(* database that the installed mode keeps (storage::runtime, migration).   *)
(*                                                                         *)
(* Processes share nothing but the disk. A process may die between any two *)
(* of its file operations. Every file operation may fail; remove_dir_all   *)
(* removes a directory's entries in no particular order and leaves what it *)
(* had not reached when it fails. A migration is a transaction of SQLite,  *)
(* which is external: it is committed with its record or not at all.       *)
(***************************************************************************)
EXTENDS Naturals, Sequences, FiniteSets

CONSTANTS
    Procs,        \* processes that may run at the same time
    MaxLaunches,  \* bound: session directories ever created
    Migrations    \* number of schema migrations

ASSUME DesktopStorageAssumption == MaxLaunches \in Nat /\ Migrations \in Nat

Discarding == {"ephemeral", "portable"}
SessionModes == Discarding \cup {"installed"}
SessionIds == 1..MaxLaunches

VARIABLES
    proc,        \* of each process: where it is, its mode, session and cleanup list
    folder,      \* what is in the directory of each session: "dir", "marker", "data"
    lockFile,    \* whether the writer lock file exists
    applied,     \* the migrations recorded as applied in the database
    used,        \* sessions created so far, with the mode that created them
    \* History, read by no action:
    executions,  \* how often the statements of each migration took effect
    stranded,    \* a process left the lock file behind when it ended or gave the lease up
    disturbed    \* sessions whose directory somebody began to remove

diskVars == <<folder, lockFile, applied>>
historyVars == <<executions, stranded, disturbed>>
storageVars == <<proc, diskVars, used, historyVars>>

NoProcess == [pc |-> "down", mode |-> "none", sid |-> 0, todo |-> {}]
At(p, where) == proc[p].pc \in where
Goto(p, where) == proc' = [proc EXCEPT ![p].pc = where]
Ends(p) == proc' = [proc EXCEPT ![p] = NoProcess]

StorageInit ==
    /\ proc = [p \in Procs |-> NoProcess]
    /\ folder = [d \in SessionIds |-> {}]
    /\ lockFile = FALSE
    /\ applied = {}
    /\ used = <<>>
    /\ executions = [m \in 1..Migrations |-> 0]
    /\ stranded = FALSE
    /\ disturbed = {}

\* What remove_dir_all may leave of a directory: nothing when it succeeds.
Leavings(content) == {{}} \cup {rest \in SUBSET content : "dir" \in rest}

\* append_session_audit creates the directory it writes to, not its marker.
Audited(content) == content \cup {"dir", "data"}

-----------------------------------------------------------------------------
(* SessionLifecycle::start                                                 *)

\* The modes have different roots; the entries of the root are read here.
LaunchDesktop(p, mode) ==
    /\ At(p, {"down"})
    /\ proc' = [proc EXCEPT ![p] =
                 [pc |-> IF mode \in Discarding THEN "cleaning" ELSE "acquiring", mode |-> mode, sid |-> 0,
                  todo |-> IF mode \in Discarding
                           THEN {d \in DOMAIN used : used[d] = mode /\ folder[d] # {}} ELSE {}]]
    /\ UNCHANGED <<diskVars, used, historyVars>>

\* validate_session_directory_with_root admits what has a marker; an unknown
\* directory is skipped, an error of the removal only reported.
CleanEntry(p, d) ==
    /\ At(p, {"cleaning"})
    /\ d \in proc[p].todo
    /\ proc' = [proc EXCEPT ![p].todo = @ \ {d}]
    /\ \/ /\ "marker" \in folder[d]
          /\ \E rest \in Leavings(folder[d]) : folder' = [folder EXCEPT ![d] = rest]
          /\ disturbed' = disturbed \cup {d}
       \/ /\ "marker" \notin folder[d]
          /\ UNCHANGED <<folder, disturbed>>
    /\ UNCHANGED <<lockFile, applied, used, executions, stranded>>

MakeSessionDir(p) ==
    /\ At(p, {"cleaning"})
    /\ proc[p].todo = {}
    /\ Len(used) < MaxLaunches
    /\ used' = Append(used, proc[p].mode)
    /\ folder' = [folder EXCEPT ![Len(used')] = {"dir"}]
    /\ proc' = [proc EXCEPT ![p].pc = "marking", ![p].sid = Len(used')]
    /\ UNCHANGED <<lockFile, applied, historyVars>>

\* Mutant: the started event is appended before the marker is written.
AuditComesFirst(p) ==
    /\ At(p, {"marking"})
    /\ folder' = [folder EXCEPT ![proc[p].sid] =
                    IF "data" \in @ \/ proc[p].mode # "portable" THEN @ \cup {"dir", "marker"} ELSE Audited(@)]
    /\ Goto(p, IF "marker" \in folder'[proc[p].sid] THEN "auditing" ELSE "marking")
    /\ UNCHANGED <<lockFile, applied, used, historyVars>>

\* write_to_dir creates the directory again if somebody removed it.
WriteMarker(p) ==
    /\ At(p, {"marking"})
    /\ folder' = [folder EXCEPT ![proc[p].sid] = @ \cup {"dir", "marker"}]
    /\ Goto(p, "auditing")
    /\ UNCHANGED <<lockFile, applied, used, historyVars>>

\* The portable mode appends to the session's own directory.
AuditStart(p) ==
    /\ At(p, {"auditing"})
    /\ folder' = IF proc[p].mode = "portable" THEN [folder EXCEPT ![proc[p].sid] = Audited(@)] ELSE folder
    /\ Goto(p, "opening")
    /\ UNCHANGED <<lockFile, applied, used, historyVars>>

\* start returns an error, or the lock file cannot be created: what is there
\* stays, and storage is degraded.
StartFails(p) ==
    /\ At(p, {"cleaning", "marking", "auditing", "acquiring"})
    /\ Goto(p, "degraded")
    /\ UNCHANGED <<diskVars, used, historyVars>>

-----------------------------------------------------------------------------
(* bootstrap_with_session                                                  *)

\* finish: append the end of the session, then remove its directory.
FinishSession(p) ==
    LET d == proc[p].sid
        before == IF proc[p].mode = "portable" THEN Audited(folder[d]) ELSE folder[d]
    IN  /\ \E rest \in Leavings(before) : folder' = [folder EXCEPT ![d] = rest]
        /\ disturbed' = disturbed \cup {d}

\* A database in memory has neither a lock file nor earlier migrations.
OpenInMemory(p) ==
    /\ At(p, {"opening"})
    /\ Goto(p, "up")
    /\ UNCHANGED <<diskVars, used, historyVars>>

\* The lifecycle that bootstrap_inner was given is dropped with its error.
OpenInMemoryFails(p) ==
    /\ At(p, {"opening"})
    /\ FinishSession(p)
    /\ Goto(p, "degraded")
    /\ UNCHANGED <<lockFile, applied, used, executions, stranded>>

\* Mutant: the lock file is opened with create, not with create_new.
LockIsFreeAlways == TRUE
\* create_new succeeds.
LockIsFree == ~lockFile

AcquireWriter(p) ==
    /\ At(p, {"acquiring"})
    /\ LockIsFree
    /\ lockFile' = TRUE
    /\ Goto(p, "migrating")
    /\ UNCHANGED <<folder, applied, used, historyVars>>

\* The file is created and writing the owner to it fails: nobody removes it.
AcquireWriterFails(p) ==
    /\ At(p, {"acquiring"})
    /\ LockIsFree
    /\ lockFile' = TRUE
    /\ stranded' = TRUE
    /\ Goto(p, "degraded")
    /\ UNCHANGED <<folder, applied, used, executions, disturbed>>

WriterConflict(p) ==
    /\ At(p, {"acquiring"})
    /\ ~LockIsFree
    /\ Goto(p, "degraded")
    /\ UNCHANGED <<diskVars, used, historyVars>>

\* Mutant: the record is written after the transaction and may be lost.
RecordedLater(m) == {applied, applied \cup {m}}
\* insert_migration_record in the transaction of the statements.
Recorded(m) == {applied \cup {m}}

Pending == {m \in 1..Migrations : m \notin applied}

\* The loop of run, from the first migration that is_applied does not know.
ApplyMigration(p) ==
    /\ At(p, {"migrating"})
    /\ \E m \in Pending :
         /\ \A k \in Pending : m <= k
         /\ executions' = [executions EXCEPT ![m] = @ + 1]
         /\ \E now \in Recorded(m) : applied' = now
    /\ UNCHANGED <<proc, folder, lockFile, used, stranded, disturbed>>

\* The rest of bootstrap_inner: stores, demo data and the started record.
BootstrapEnds(p) ==
    /\ At(p, {"migrating"})
    /\ Pending = {}
    /\ Goto(p, "up")
    /\ UNCHANGED <<diskVars, used, historyVars>>

\* release_storage_writer_inner marks the lease released, whatever becomes of the
\* file: the error of remove_file is dropped.
ReleaseWriter ==
    \/ lockFile' = FALSE /\ UNCHANGED stranded
    \/ stranded' = TRUE /\ UNCHANGED lockFile

\* Opening, a migration or a later step fails; the lease is dropped on the way out.
BootstrapFails(p) ==
    /\ At(p, {"migrating"})
    /\ ReleaseWriter
    /\ Goto(p, "degraded")
    /\ UNCHANGED <<folder, applied, used, executions, disturbed>>

-----------------------------------------------------------------------------
(* A running application                                                   *)

\* append_session_audit_event; only the portable mode writes to the session.
AppendAudit(p) ==
    /\ At(p, {"up"})
    /\ proc[p].mode = "portable"
    /\ folder' = [folder EXCEPT ![proc[p].sid] = Audited(@)]
    /\ UNCHANGED <<proc, lockFile, applied, used, historyVars>>

\* shutdown_app and the close of the main window: end_session, then
\* process::exit, which runs no destructor.
ExitDiscarding(p) ==
    /\ At(p, {"up"})
    /\ proc[p].mode \in Discarding
    /\ FinishSession(p)
    /\ Ends(p)
    /\ UNCHANGED <<lockFile, applied, used, executions, stranded>>

\* end_session does nothing for a database that is kept, and no exit path
\* calls release_storage_writer.
ShutdownInstalled(p) ==
    /\ At(p, {"up"})
    /\ proc[p].mode = "installed"
    /\ stranded' = TRUE
    /\ Ends(p)
    /\ UNCHANGED <<diskVars, used, executions, disturbed>>

\* When the event loop of tauri ends by itself, the library may still drop the
\* managed state, and the lease with it, before process::exit.
CloseInstalled(p) ==
    /\ At(p, {"up"})
    /\ proc[p].mode = "installed"
    /\ ReleaseWriter
    /\ Ends(p)
    /\ UNCHANGED <<folder, applied, used, executions, disturbed>>

ExitDegraded(p) ==
    /\ At(p, {"degraded"})
    /\ Ends(p)
    /\ UNCHANGED <<diskVars, used, historyVars>>

HoldsWriter(p) == proc[p].mode = "installed" /\ At(p, {"migrating", "up"})

\* The process dies.
CrashDesktop(p) ==
    /\ ~At(p, {"down", "degraded"})
    /\ stranded' = (stranded \/ HoldsWriter(p))
    /\ Ends(p)
    /\ UNCHANGED <<diskVars, used, executions, disturbed>>

StorageNext ==
    \E p \in Procs :
        \/ \E mode \in SessionModes : LaunchDesktop(p, mode)
        \/ \E d \in SessionIds : CleanEntry(p, d)
        \/ MakeSessionDir(p) \/ WriteMarker(p) \/ AuditStart(p) \/ StartFails(p)
        \/ OpenInMemory(p) \/ OpenInMemoryFails(p)
        \/ AcquireWriter(p) \/ AcquireWriterFails(p) \/ WriterConflict(p)
        \/ ApplyMigration(p) \/ BootstrapEnds(p) \/ BootstrapFails(p)
        \/ AppendAudit(p) \/ ExitDiscarding(p) \/ ShutdownInstalled(p) \/ CloseInstalled(p)
        \/ ExitDegraded(p) \/ CrashDesktop(p)

StorageSpec == StorageInit /\ [][StorageNext]_storageVars

-----------------------------------------------------------------------------
(* Properties                                                              *)

\* The lock file does its work across processes, failed bootstraps and exits: at
\* most one process has the kept database open, and the file is there exactly while
\* one has it or after one was left behind. Four ways leave it: a process ends
\* without the release (ShutdownInstalled, a crash), fails to write the file it
\* created, or fails to remove it at the release. A file left behind is final: no
\* launch and no process already running ever has the kept database open after it.
WriterLockExact ==
    /\ \A p, q \in Procs : HoldsWriter(p) /\ HoldsWriter(q) => p = q
    /\ lockFile <=> stranded \/ \E p \in Procs : HoldsWriter(p)
    /\ stranded => \A p \in Procs : ~HoldsWriter(p)

\* However often bootstraps crash or fail in between, the statements of every
\* migration take effect at most once, and in their order.
MigrationsOnce ==
    /\ \A m \in 1..Migrations : executions[m] <= 1
    /\ \A m \in 1..Migrations, k \in 1..Migrations : executions[m] = 1 /\ k < m => executions[k] = 1

\* The portable mode keeps nothing: at whatever point a session ends, what it has
\* left on disk carries the marker by which a later start finds it, unless a
\* removal of that directory was begun before and did not end; and a directory
\* whose marker was never written holds no data. The exception is real: remove_dir_all may take
\* the marker first, and an audit event re-creates a directory without one.
LeftoversReclaimable ==
    \A d \in SessionIds :
        "data" \in folder[d] => "marker" \in folder[d] \/ d \in disturbed

=============================================================================
