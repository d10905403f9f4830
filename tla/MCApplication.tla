--------------------------- MODULE MCApplication ---------------------------
(***************************************************************************)
(* Small instances of EtwLifecycle, DesktopStorage and of                  *)
(* MutationAuthorization for TLC.  The three share no state: a behaviour   *)
(* is one of any of them, the others stay where they began, and TLC        *)
(* explores the sum of the three state spaces.                             *)
(***************************************************************************)
EXTENDS MCEtwLifecycle, DesktopStorage, MCMutationAuthorization

LifecycleAlone ==
    /\ StorageInit /\ UNCHANGED storageVars
    /\ AuthorizationInit /\ UNCHANGED authorizationVars
    /\ Next

\* The modes that discard and the one that keeps touch different files: a
\* behaviour has launches of the first or of the second.
OneKind == \/ \A p \in Procs : proc'[p].mode # "installed" /\ ~lockFile' /\ applied' = {}
           \/ \A p \in Procs : proc'[p].mode \notin Discarding /\ used' = <<>>
StorageAlone ==
    /\ Init /\ UNCHANGED vars
    /\ AuthorizationInit /\ UNCHANGED authorizationVars
    /\ StorageNext /\ OneKind

AuthorizationAlone ==
    /\ Init /\ UNCHANGED vars
    /\ StorageInit /\ UNCHANGED storageVars
    /\ OneInstance

MCInit == Init /\ StorageInit /\ AuthorizationInit
MCSpec == /\ MCInit
          /\ [][LifecycleAlone \/ StorageAlone \/ AuthorizationAlone]_
                 <<vars, storageVars, authorizationVars>>

\* The processes run the same program; references are opaque to the evaluator.
MCSymmetry == Permutations(Procs) \cup RefSymmetry

=============================================================================
