------------------------- MODULE MCNativeScheduler -------------------------
(***************************************************************************)
(* Small instances of NativeScheduler and of HostTask for TLC.  The two    *)
(* share no state: a behaviour is one of either, the other one stays where *)
(* it began, and TLC explores the sum of the two state spaces.             *)
(***************************************************************************)
EXTENDS NativeScheduler, HostTask

\* The process sampler and the service sampler, in the order of their ids:
\* priorities 2 and 1.
MCPriority == [s \in Samplers |-> 3 - s]

\* The first step of the host task's module is a command, and counts as one.
HostTaskUnused == calls = 0
SchedulerAlone == HostTaskUnused /\ Next /\ UNCHANGED hostVars
HostTaskAlone == Init /\ HostNext /\ UNCHANGED vars

\* The obligations of each are those of its own module; where it began it has none.
MCInit == Init /\ HostInit
MCSpec == /\ MCInit
          /\ [][SchedulerAlone \/ HostTaskAlone]_<<vars, hostVars>>
          /\ WF_vars(HostTaskUnused /\ TimerStep)
          /\ WF_hostVars(Init /\ MainStep)
          /\ \A t \in Tasks : WF_hostVars(Init /\ TaskStep(t))

=============================================================================
