---------------------------- MODULE MCEtwSession ----------------------------
(***************************************************************************)
(* Small instances of the two metadata sources with threads of their own,  *)
(* EtwSession and LocalProxy, for TLC.  They share no state: a behaviour   *)
(* is one of either, the other one stays where it began, and TLC explores  *)
(* the sum of the two state spaces.                                        *)
(***************************************************************************)
EXTENDS EtwSession, LocalProxy

\* The first step of either leaves its beginning for good: Start, and any command.
EtwUnused == control = "idle"
ProxyUnused == proxyCalls = 0

EtwAlone == ProxyUnused /\ Next /\ UNCHANGED proxyVars
ProxyAlone == EtwUnused /\ ProxyNext /\ UNCHANGED vars

\* The proxy may rest, where its fairness lets it: deadlock is a question about the
\* trace session here, of the proxy StopJoins asks more.
ProxyRests == EtwUnused /\ ~ProxyUnused /\ UNCHANGED <<vars, proxyVars>>

MCInit == Init /\ ProxyInit
MCSpec == MCInit /\ [][EtwAlone \/ ProxyAlone \/ ProxyRests]_<<vars, proxyVars>>

\* The obligations of each are those of its own module; where it began it has none.
MCFairSpec ==
    /\ MCSpec
    /\ WF_vars(ProxyUnused /\ Control) /\ WF_vars(ProxyUnused /\ Consumer)
    /\ WF_vars(ProxyUnused /\ Normalizer)
    /\ WF_proxyVars(EtwUnused /\ WorkerStep) /\ WF_proxyVars(EtwUnused /\ CommandStep)

=============================================================================
