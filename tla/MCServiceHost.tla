--------------------------- MODULE MCServiceHost ---------------------------
(***************************************************************************)
(* A small instance of ServiceHost and of IpcLimits for TLC. The two share *)
(* no state: a behaviour is one of either, the other one stays where it    *)
(* began, and TLC explores the sum of the two state spaces.                *)
(***************************************************************************)
EXTENDS ServiceHost, IpcLimits

HostAlone == Next /\ LimitsInit /\ UNCHANGED limitVars
LimitsAlone == LimitsNext /\ Init /\ UNCHANGED vars

MCInit == Init /\ LimitsInit
MCSpec == /\ MCInit
          /\ [][HostAlone \/ LimitsAlone]_<<vars, limitVars>>
\* The obligations are those of the host; a behaviour of the limits has none
\* that a liveness property speaks of.
MCFairSpec == MCSpec /\ Fairness

=============================================================================
