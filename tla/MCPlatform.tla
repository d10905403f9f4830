----------------------------- MODULE MCPlatform -----------------------------
(***************************************************************************)
(* The two-subscription instance of EventBus and small instances of        *)
(* Pipeline and of TailReader for TLC. The three share no state: a         *)
(* behaviour is one of any of them, the others stay where they began, and  *)
(* TLC explores the sum of the three state spaces.                         *)
(***************************************************************************)
EXTENDS MCEventBus, Pipeline, TailReader

BusAlone ==
    /\ PipeInit /\ TailInit /\ UNCHANGED <<pipeVars, tailVars>>
    /\ Next
PipelineAlone ==
    /\ Init /\ TailInit /\ UNCHANGED <<vars, tailVars>>
    /\ PipeNext
TailAlone ==
    /\ Init /\ PipeInit /\ UNCHANGED <<vars, pipeVars>>
    /\ TailNext

MCInit == Init /\ PipeInit /\ TailInit
MCSpec == /\ MCInit
          /\ [][BusAlone \/ PipelineAlone \/ TailAlone]_<<vars, pipeVars, tailVars>>

=============================================================================
