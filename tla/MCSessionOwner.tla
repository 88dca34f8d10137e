--------------------------- MODULE MCSessionOwner ---------------------------
(***************************************************************************)
(* SessionOwner for TLC: a host that is being replaced by a new one, and   *)
(* two callers that mix shared leases, a connection without a key and      *)
(* pairing attempts, in two instances.  Routes are interchangeable: r1     *)
(* stands for the one of every call and plan that has only one.            *)
(***************************************************************************)
EXTENDS SessionOwner

VARIABLE focus

MCCalls ==
    {<<"a", "old", op>> : op \in {"AcquirePlanned", "AcquireRoute"}} \cup
    {<<"b", "old", op>> : op \in {"EnsurePlanned", "ConnectPlanned"}} \cup
    {<<"b", "new", "BeginRouteAttempts">>}

OneRoute(c) == caller'[c].route # "r2" /\ caller'[c].plan # {"r2"}

\* Every entry point, with plans of one route.
CallStep ==
    /\ Next
    /\ \A c \in Callers : OneRoute(c) /\ caller'[c].plan # Routes

\* A plan may race both routes; the planned calls are the ones without a key.
RaceStep ==
    /\ Next
    /\ \A c \in Callers :
          OneRoute(c) /\ caller'[c].op \notin {"AcquirePlanned", "EnsurePlanned"}

SessionNext ==
    /\ \/ focus = "calls" /\ CallStep
       \/ focus = "race" /\ RaceStep
    /\ UNCHANGED focus

SessionInit == Init /\ focus \in {"calls", "race"}

SessionSpec == SessionInit /\ [][SessionNext]_<<vars, focus>> /\ Fairness
=============================================================================
