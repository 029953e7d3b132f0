-------------------------------- MODULE MCParts --------------------------------
(* Instances of Traffic (with Watchdog), Identity and Codec for TLC.  A        *)
(* behaviour is one of the scenarios; the others' variables rest.              *)
EXTENDS Traffic, Identity, Codec

CONSTANTS
    Scenarios,       \* those to check
    RestartRevision  \* bound: captures and clears in a session of the restart scenario

VARIABLE scenario

others == <<identity, sample, scenario>>
mcVars == <<vars, others>>

\* The page and its clears against captures and clears elsewhere, after one poll,
\* the server up.
LogStep ==
    /\ server' = "online"
    /\ IF watch.state = "online" THEN UNCHANGED watch ELSE UNCHANGED <<traffic, faults>>

\* The same over restarts, every poll answered in time, few revisions.
RestartStep ==
    /\ server' \in {"online", "down"}
    /\ Revision' <= RestartRevision
    /\ UNCHANGED faults

\* The watchdog and a stream with nothing to tell.
WatchdogStep == UNCHANGED <<contents, request, page.paused>>

PageStep ==
    CASE scenario = "log" -> LogStep
      [] scenario = "restart" -> RestartStep
      [] scenario = "watchdog" -> WatchdogStep
      [] OTHER -> FALSE

\* A page is left alone while its save is under way.
SettingsStep ==
    /\ scenario = "settings"
    /\ \A p \in Page : save[p].stage = "none" \/ save'[p].stage = "none" \/ form'[p] = form[p]
    /\ UNCHANGED <<vars, sample, scenario>>

MCInit ==
    /\ scenario \in Scenarios
    /\ Init /\ IdentityInit
    /\ scenario \in {"log", "restart"} => server = "online"
    /\ scenario \in {"settings", "wire"} => server = "degraded"
    /\ IF scenario = "wire" THEN CodecInit ELSE sample = [is |-> "received", frame |-> <<>>]

Paged(A) == A /\ PageStep /\ UNCHANGED others

MCNext ==
    \/ Paged(WatchStep) \/ Paged(Capture) \/ Paged(ClearElsewhere) \/ Paged(Live) \/ Paged(Cut)
    \/ Paged(TogglePause) \/ Paged(Select) \/ Paged(Clearing)
    \/ IdentityNext /\ SettingsStep

MCSpec ==
    /\ MCInit
    /\ [][MCNext]_mcVars
    /\ WF_mcVars(Paged(WatchStep /\ Polling))
    /\ WF_mcVars(Paged(Live))
==============================================================================
