------------------------------- MODULE Watchdog -------------------------------
(* The web application's process and the watchdog of a page that polls it:     *)
(* useApplicationStatus and the dialog of ApplicationStatusBar.                *)
EXTENDS Naturals

CONSTANTS
    MaxSession,  \* bound: starts of the web application
    MaxFaults    \* bound: slow, malformed or cut answers, cut streams and failed requests

ASSUME WatchBounds == MaxSession \in Nat \ {0} /\ MaxFaults \in Nat

VARIABLES
    server,   \* "down", or what the readiness check finds
    session,  \* the starts of the web application so far
    watch,    \* the variables of the status effect and the state it renders
    owed,     \* history: the page has shown an outage that no recovery followed
    faults

watchVars == <<server, session, watch, owed>>

Health == {"online", "degraded"}

Fault == faults < MaxFaults /\ faults' = faults + 1
Soundly == UNCHANGED faults

Offline == watch.state = "offline"
ModalOpen == Offline /\ watch.dismissed # watch.outage

------------------------------------------------------------------------------
ServerStops ==
    /\ server # "down"
    /\ server' = "down"
    /\ Soundly
    /\ UNCHANGED <<session, watch, owed>>

ServerStarts ==
    /\ server = "down"
    /\ session < MaxSession
    /\ server' \in Health
    /\ session' = session + 1
    /\ Soundly
    /\ UNCHANGED <<watch, owed>>

\* The database, the migrations or the assets break, or are repaired.
HealthChanges ==
    /\ server # "down"
    /\ server' \in Health \ {server}
    /\ Soundly
    /\ UNCHANGED <<session, watch, owed>>

------------------------------------------------------------------------------
Sends ==
    /\ watch.poll = "waiting"
    /\ watch' = [watch EXCEPT !.poll = "sent"]
    /\ Soundly
    /\ UNCHANGED <<server, session, owed>>

Answers ==
    /\ watch.poll = "sent"
    /\ server # "down"
    /\ \/ watch' = [watch EXCEPT !.poll = server] /\ Soundly
       \/ watch' = [watch EXCEPT !.poll = "unusable"] /\ Fault
    /\ UNCHANGED <<server, session, owed>>

\* Mutant of Recovers: an answer after an outage is one like any other.
RecoversNever(state) == FALSE

Recovers(state) == state = "online" /\ watch.pending

\* An answer that is not ok or not a summary is one of a degraded application.
Receives ==
    /\ watch.poll \in Health \cup {"unusable"}
    /\ LET state == IF watch.poll = "online" THEN "online" ELSE "degraded"
       IN  /\ watch' = [watch EXCEPT !.poll = "waiting", !.state = state, !.failures = 0,
                                     !.pending = @ /\ ~Recovers(state)]
           /\ owed' = (owed /\ ~Recovers(state))
    /\ Soundly
    /\ UNCHANGED <<server, session>>

\* The headers came, the body did not: reachable.
Breaks ==
    /\ watch.poll \in Health
    /\ Fault
    /\ watch' = [watch EXCEPT !.poll = "waiting", !.state = "degraded", !.failures = 0]
    /\ UNCHANGED <<server, session, owed>>

\* The updater of the state counts an outage where it begins.
NextOutage == IF Offline THEN watch.outage ELSE watch.outage + 1

\* Failures beyond the second make no difference.
Unreachable ==
    IF watch.failures = 0
    THEN /\ watch' = [watch EXCEPT !.poll = "waiting", !.failures = 1]
         /\ UNCHANGED owed
    ELSE /\ watch' = [watch EXCEPT !.poll = "waiting", !.failures = 2, !.pending = TRUE,
                                   !.state = "offline", !.outage = NextOutage]
         /\ owed' = TRUE

Refused ==
    /\ watch.poll = "sent"
    /\ server = "down"
    /\ Unreachable
    /\ Soundly
    /\ UNCHANGED <<server, session>>

\* The abort after STATUS_TIMEOUT, whether or not the headers have come.
TimesOut ==
    /\ watch.poll # "waiting"
    /\ Fault
    /\ Unreachable
    /\ UNCHANGED <<server, session>>

Dismiss ==
    /\ ModalOpen
    /\ watch' = [watch EXCEPT !.dismissed = watch.outage]
    /\ Soundly
    /\ UNCHANGED <<server, session, owed>>

------------------------------------------------------------------------------
(* Outages are counted from 1 here, so that 0 stands for none dismissed.       *)
WatchInit ==
    /\ server \in Health
    /\ session = 1
    /\ watch = [poll |-> "waiting", failures |-> 0, pending |-> FALSE, state |-> "checking",
                outage |-> 1, dismissed |-> 0]
    /\ owed = FALSE

Polling == Sends \/ Answers \/ Receives \/ Refused

WatchNext == ServerStops \/ ServerStarts \/ HealthChanges \/ Polling \/ Breaks \/ TimesOut \/ Dismiss

------------------------------------------------------------------------------
WatchTypeOK ==
    /\ server \in Health \cup {"down"}
    /\ session \in 1 .. MaxSession
    /\ watch \in [poll : {"waiting", "sent", "unusable"} \cup Health, failures : 0 .. 2,
                  pending : BOOLEAN, state : {"checking", "online", "degraded", "offline"},
                  outage : Nat, dismissed : Nat]
    /\ owed \in BOOLEAN
    /\ faults \in 0 .. MaxFaults

\* When the application stays down the page goes offline for good and has told
\* of it anew, a dismissal of an earlier outage notwithstanding; when it stays up
\* and ready the page comes online without a reload, and has re-read its views if
\* it ever showed an outage, even one that ended in a degraded answer.
PageFollowsServer ==
    /\ <>[](server = "down") => <>[]Offline
    /\ <>[](server = "online") => <>[](watch.state = "online" /\ ~owed)
    /\ [][~Offline /\ Offline' => ModalOpen']_watch
==============================================================================
