-------------------------------- MODULE Runtime --------------------------------
(* The processes that share a data profile: the desktop window with its        *)
(* ServerController and the server it starts as a child, a headless server,    *)
(* and the configure command. They meet in two lock files and in runtime.json. *)
(*                                                                             *)
(* The controller's calls (start, stop, restart, apply) run in one worker      *)
(* thread; work.todo is what is left of the call in progress. The child's      *)
(* status lines pass through a pipe and the queue that its reader thread fills. *)
EXTENDS Naturals, Sequences

CONSTANTS
    Config,     \* valid contents of runtime.json
    Invalid,    \* contents that RuntimeConfig rejects
    NoConfig,
    Child,      \* process slots for the servers a desktop starts
    NoChild,
    PipeSlots,  \* bound: status lines of a child not yet read
    MaxFaults   \* bound: crashes, hangs, failed reads and saves in a behaviour

ASSUME Values ==
    /\ NoConfig \notin Config \cup {Invalid}
    /\ Invalid \notin Config
    /\ NoChild \notin Child
ASSUME Bounds == PipeSlots \in Nat \ {0} /\ MaxFaults \in Nat

VARIABLES
    file,         \* runtime.json; a missing file stands for the default
    desktopLock,  \* who holds desktop.lock
    serverLock,   \* who holds server.lock
    child,        \* child[s]: a server started by a desktop
    controller,   \* the attributes of ServerController
    window,       \* open; a call pending, quitting, the timer of tick set
    work,         \* the worker thread's call
    headless,     \* where the headless server is
    configure,    \* where the configure command is
    faults

locks == <<desktopLock, serverLock>>
desktop == <<controller, window, work>>
vars == <<file, locks, child, desktop, headless, configure, faults>>

Free == "free"
Exited == [stage |-> "exited", config |-> NoConfig, eof |-> FALSE, term |-> FALSE, out |-> <<>>]
NoController == [process |-> NoChild, queue |-> {}, state |-> "stopped", active |-> NoConfig,
                 notice |-> FALSE, shown |-> FALSE]
NoWork == [todo |-> <<>>, desired |-> NoConfig, previous |-> NoConfig]
NoWindow == [open |-> FALSE, pending |-> FALSE, quitting |-> FALSE, ticking |-> FALSE]

Released(lock, owner) == IF lock = owner THEN Free ELSE lock

Alive(s) == child[s].stage # "exited"

Running == controller.process # NoChild /\ Alive(controller.process)

Fault == faults < MaxFaults /\ faults' = faults + 1

------------------------------------------------------------------------------
(* The server as a child: serve(managed=True).                                 *)

Lines == {"running", "unhealthy", "failed"}

\* Nobody reads what a server writes after EOF on its stdin: stop drops the queue.
Written(s, lines) == IF child[s].eof THEN child[s].out ELSE child[s].out \o lines

\* The lock is released by the system when the process ends.
Exit(s, lines) ==
    /\ child' = [child EXCEPT ![s] = [Exited EXCEPT !.out = Written(s, lines)]]
    /\ serverLock' = Released(serverLock, s)

Becomes(s, stage) == child' = [child EXCEPT ![s].stage = stage]

ChildLocks(s) ==
    /\ child[s].stage = "boot"
    /\ IF serverLock = Free
       THEN Becomes(s, "locked") /\ serverLock' = s
       ELSE Exit(s, <<"failed">>)
    /\ UNCHANGED <<file, desktopLock, desktop, headless, configure, faults>>

ChildBinds(s) ==
    /\ child[s].stage = "locked"
    /\ file # Invalid
    /\ child' = [child EXCEPT ![s].stage = "bound", ![s].config = file]
    /\ UNCHANGED <<file, locks, desktop, headless, configure, faults>>

\* The configuration, the socket, the assets or the migrations raise.
ChildGivesUp(s) ==
    /\ child[s].stage \in {"locked", "bound"}
    /\ Exit(s, <<"failed">>)
    /\ UNCHANGED <<file, desktopLock, desktop, headless, configure, faults>>

ChildServes(s) ==
    /\ child[s].stage = "bound"
    /\ Becomes(s, "serving")
    /\ UNCHANGED <<file, locks, desktop, headless, configure, faults>>

ChildReports(s) ==
    /\ child[s].stage = "serving"
    /\ Len(child[s].out) < PipeSlots
    /\ \E line \in {"running", "unhealthy"} :
           child' = [child EXCEPT ![s].out = Written(s, <<line>>)]
    /\ UNCHANGED <<file, locks, desktop, headless, configure, faults>>

\* Mutant of Ending: a server does not watch its parent.
EndingWhenTold(s) == child[s].term

\* EOF on stdin (stop, or the parent's death) ends a server once it serves;
\* SIGTERM ends it at once before that.
Ending(s) == child[s].term \/ (child[s].eof /\ child[s].stage = "serving")

ChildEnds(s) ==
    /\ child[s].stage \notin {"hung", "exited"}
    /\ Ending(s)
    /\ Exit(s, <<>>)
    /\ UNCHANGED <<file, desktopLock, desktop, headless, configure, faults>>

ChildCrashes(s) ==
    /\ Alive(s)
    /\ Fault
    /\ Exit(s, <<>>)
    /\ UNCHANGED <<file, desktopLock, desktop, headless, configure>>

ChildHangs(s) ==
    /\ Alive(s)
    /\ Fault
    /\ Becomes(s, "hung")
    /\ UNCHANGED <<file, locks, desktop, headless, configure>>

------------------------------------------------------------------------------
(* ServerController.refresh.                                                   *)

\* A status line without an error of its own shows the notice.
Reported(line) ==
    [controller EXCEPT !.state = IF line = "running" THEN "running" ELSE "error",
                       !.shown = controller.notice /\ line # "failed"]

\* Mutant of Polled: the process is not polled.
PolledNever(c) == c

Polled(c) ==
    IF c.process # NoChild /\ ~Alive(c.process) THEN [c EXCEPT !.state = "error"] ELSE c

\* The reader thread has put some of the lines into the controller's queue.
ReadsLines ==
    \E s \in controller.queue : \E i \in 1 .. Len(child[s].out) :
        /\ child' = [child EXCEPT ![s].out = SubSeq(@, i + 1, Len(@))]
        /\ controller' = Polled(Reported(child[s].out[i]))

ReadsNothing(c) == UNCHANGED child /\ controller' = Polled(c)

\* Nothing came for ten seconds.
ReadsStale ==
    /\ controller.state = "running"
    /\ Alive(controller.process)
    /\ \A s \in controller.queue : child[s].out = <<>>
    /\ UNCHANGED child
    /\ controller' = [controller EXCEPT !.state = "error", !.shown = FALSE]

------------------------------------------------------------------------------
(* The worker's calls.                                                         *)

Does(call) == work.todo # <<>> /\ Head(work.todo) = call
Goes(calls) == work' = [work EXCEPT !.todo = calls]
Rest == Tail(work.todo)

StopAsks ==
    /\ Does("stop")
    /\ Running
    /\ ~child[controller.process].eof
    /\ child' = [child EXCEPT ![controller.process].eof = TRUE]
    /\ UNCHANGED <<file, locks, desktop, headless, configure, faults>>

StopTerminates ==
    /\ Does("stop")
    /\ Running
    /\ child[controller.process].eof /\ ~child[controller.process].term
    /\ child' = [child EXCEPT ![controller.process].term = TRUE]
    /\ UNCHANGED <<file, locks, desktop, headless, configure, faults>>

\* Mutant of Overdue: a server that ignores SIGTERM is waited for.
OverdueNever == FALSE

Overdue == child[controller.process].term

StopKills ==
    /\ Does("stop")
    /\ Running
    /\ Overdue
    /\ Exit(controller.process, <<>>)
    /\ UNCHANGED <<file, desktopLock, desktop, headless, configure, faults>>

\* Mutant of Stopped: the queue of events is kept.
StoppedKeepingQueue == [controller EXCEPT !.process = NoChild, !.active = NoConfig,
                                          !.state = "stopped", !.shown = FALSE]

Stopped == [controller EXCEPT !.process = NoChild, !.queue = {}, !.active = NoConfig,
                              !.state = "stopped", !.shown = FALSE]

StopEnds ==
    /\ Does("stop")
    /\ ~Running
    /\ controller' = Stopped
    /\ child' = [s \in Child |-> IF s = controller.process /\ s \notin Stopped.queue
                                THEN Exited ELSE child[s]]
    /\ Goes(Rest)
    /\ UNCHANGED <<file, locks, window, headless, configure, faults>>

Starting == [controller EXCEPT !.state = "starting", !.shown = FALSE, !.notice = FALSE]

\* The new queue is read by the reader of the new process only.
Launch ==
    /\ Does("start")
    /\ controller.process = NoChild
    /\ file # Invalid
    /\ \E s \in Child :
           /\ ~Alive(s)
           /\ child' = [child EXCEPT ![s] = [Exited EXCEPT !.stage = "boot"]]
           /\ controller' = [Starting EXCEPT !.process = s, !.queue = Stopped.queue \cup {s},
                                             !.active = file]
    /\ Goes(<<"await">> \o Rest)
    /\ UNCHANGED <<file, locks, window, headless, configure, faults>>

LaunchFails ==
    /\ Does("start")
    /\ controller.process = NoChild
    /\ IF file = Invalid THEN UNCHANGED faults ELSE Fault
    /\ controller' = [Starting EXCEPT !.state = "error"]
    /\ Goes(Rest)
    /\ UNCHANGED <<file, locks, child, window, headless, configure>>

AwaitPolls ==
    /\ Does("await")
    /\ ReadsLines \/ ReadsNothing(controller)
    /\ controller'.state # "starting"
    /\ Goes(Rest)
    /\ UNCHANGED <<file, locks, window, headless, configure, faults>>

AwaitTimesOut ==
    /\ Does("await")
    /\ Goes(<<"stop", "timeout">> \o Rest)
    /\ UNCHANGED <<file, locks, child, controller, window, headless, configure, faults>>

TimedOut ==
    /\ Does("timeout")
    /\ controller' = [controller EXCEPT !.state = "error"]
    /\ Goes(Rest)
    /\ UNCHANGED <<file, locks, child, window, headless, configure, faults>>

\* Mutant of Saved: the rollback saves the new settings again.
SavedDesired == work.desired

\* Mutant of Saved: the settings read before are saved.
SavedPrevious == work.previous

Saved == IF Does("save") THEN work.desired ELSE work.previous

\* ConfigStore.save replaces the file at once, or raises and leaves it.
Save ==
    /\ Does("save") \/ Does("restore")
    /\ \/ file' = Saved /\ Goes(Rest) /\ UNCHANGED faults
       \/ Fault /\ Goes(<<"raised">>) /\ UNCHANGED file
    /\ UNCHANGED <<locks, child, controller, window, headless, configure>>

\* apply after its first start.
Check ==
    /\ Does("check")
    /\ Goes(IF controller.state = "error" /\ work.previous # NoConfig
            THEN <<"stop", "restore", "start", "notify">> ELSE <<>>)
    /\ UNCHANGED <<file, locks, child, controller, window, headless, configure, faults>>

Notify ==
    /\ Does("notify")
    /\ controller' = [controller EXCEPT !.notice = TRUE, !.shown = TRUE]
    /\ Goes(Rest)
    /\ UNCHANGED <<file, locks, child, window, headless, configure, faults>>

Work ==
    \/ StopAsks \/ StopTerminates \/ StopKills \/ StopEnds
    \/ Launch \/ LaunchFails \/ AwaitPolls \/ AwaitTimesOut \/ TimedOut
    \/ Save \/ Check \/ Notify

------------------------------------------------------------------------------
(* ControlWindow, in Tk's thread.                                              *)

Ended == work.todo = <<>> \/ Does("raised")
Idle == window.open /\ ~window.pending

Submitted(calls, desired, previous) ==
    work' = [todo |-> calls, desired |-> desired, previous |-> previous]

OpenDesktop ==
    /\ ~window.open
    /\ desktopLock = Free
    /\ desktopLock' = "desktop"
    /\ window' = [window EXCEPT !.open = TRUE, !.pending = TRUE, !.ticking = TRUE]
    /\ Submitted(<<"start">>, NoConfig, NoConfig)
    /\ UNCHANGED <<file, serverLock, child, controller, headless, configure, faults>>

\* The buttons: restart, stop, apply. They are disabled while a call is pending,
\* until a tick has taken its result and read the settings.
Submit(calls, desired, previous) ==
    /\ Idle
    /\ window.ticking
    /\ window' = [window EXCEPT !.pending = TRUE]
    /\ Submitted(calls, desired, previous)
    /\ UNCHANGED <<file, locks, child, controller, headless, configure, faults>>

Apply(desired) ==
    Submit(<<"stop", "save", "start", "check">>, desired,
           IF file = Invalid THEN NoConfig ELSE file)

Press ==
    \/ Submit(<<"stop", "start">>, NoConfig, NoConfig)
    \/ Submit(<<"stop">>, NoConfig, NoConfig)
    \/ \E desired \in Config : Apply(desired)

\* apply cannot read the present settings.
ApplyFails ==
    /\ Idle
    /\ window.ticking
    /\ Fault
    /\ window' = [window EXCEPT !.pending = TRUE]
    /\ Submitted(<<"raised">>, NoConfig, NoConfig)
    /\ UNCHANGED <<file, locks, child, controller, headless, configure>>

Quit ==
    /\ window.open
    /\ window.quitting => ~window.pending
    /\ window' = [window EXCEPT !.quitting = TRUE, !.pending = TRUE]
    /\ IF Idle THEN Submitted(<<"stop">>, NoConfig, NoConfig) ELSE UNCHANGED work
    /\ UNCHANGED <<file, locks, child, controller, headless, configure, faults>>

\* tick takes the result of the call; what the call raised becomes the status.
TickRefreshes(reads) ==
    /\ window.ticking
    /\ ~window.quitting
    /\ window.pending => Ended
    /\ reads
    /\ window' = [window EXCEPT !.pending = FALSE]
    /\ work' = NoWork
    /\ UNCHANGED <<file, locks, headless, configure, faults>>

Raised == IF Does("raised") THEN [controller EXCEPT !.state = "error", !.shown = FALSE] ELSE controller

TickReads == TickRefreshes(ReadsLines)
TickPolls == TickRefreshes(ReadsNothing(Raised))
TickStale == TickRefreshes(ReadsStale)

\* load_fields cannot read the settings: tick raises and does not set the timer.
TickDies ==
    /\ window.ticking
    /\ window.pending
    /\ Ended
    /\ Fault
    /\ controller' = Raised
    /\ window' = [window EXCEPT !.pending = FALSE, !.ticking = FALSE]
    /\ work' = NoWork
    /\ UNCHANGED <<file, locks, child, headless, configure>>

TickStops ==
    /\ window.ticking
    /\ window.quitting
    /\ Ended
    /\ controller.process # NoChild
    /\ Submitted(<<"stop">>, NoConfig, NoConfig)
    /\ UNCHANGED <<file, locks, child, controller, window, headless, configure, faults>>

TickCloses ==
    /\ window.ticking
    /\ window.quitting
    /\ Ended
    /\ controller.process = NoChild
    /\ desktopLock' = Free
    /\ controller' = NoController
    /\ window' = NoWindow
    /\ work' = NoWork
    /\ UNCHANGED <<file, serverLock, child, headless, configure, faults>>

\* The system closes the pipes and releases the lock.
DesktopCrashes ==
    /\ window.open
    /\ Fault
    /\ desktopLock' = Free
    /\ controller' = NoController
    /\ window' = NoWindow
    /\ work' = NoWork
    /\ child' = IF controller.process = NoChild THEN child
                ELSE [child EXCEPT ![controller.process].eof = TRUE, ![controller.process].out = <<>>]
    /\ UNCHANGED <<file, serverLock, headless, configure>>

------------------------------------------------------------------------------
(* The headless server: serve(managed=False). It holds the desktop lock only   *)
(* to see that it is free.                                                     *)

Headless(from, to) == headless = from /\ headless' = to

Probe ==
    /\ Headless("off", "probing")
    /\ desktopLock = Free
    /\ desktopLock' = "headless"
    /\ UNCHANGED <<file, serverLock, child, desktop, configure, faults>>

ProbeEnds ==
    /\ Headless("probing", "probed")
    /\ desktopLock' = Free
    /\ UNCHANGED <<file, serverLock, child, desktop, configure, faults>>

HeadlessLocks ==
    /\ Headless("probed", "serving")
    /\ serverLock = Free
    /\ serverLock' = "headless"
    /\ UNCHANGED <<file, desktopLock, child, desktop, configure, faults>>

HeadlessRefused ==
    /\ Headless("probed", "off")
    /\ serverLock # Free
    /\ UNCHANGED <<file, locks, child, desktop, configure, faults>>

HeadlessEnds ==
    /\ Headless("serving", "off")
    /\ serverLock' = Free
    /\ UNCHANGED <<file, desktopLock, child, desktop, configure, faults>>

------------------------------------------------------------------------------
(* The configure command.                                                      *)

ConfigureLocks ==
    /\ configure = "off"
    /\ desktopLock = Free
    /\ desktopLock' = "configure"
    /\ configure' = "locking"
    /\ UNCHANGED <<file, serverLock, child, desktop, headless, faults>>

ConfigureRefused ==
    /\ configure = "locking"
    /\ serverLock # Free
    /\ desktopLock' = Released(desktopLock, "configure")
    /\ configure' = "off"
    /\ UNCHANGED <<file, serverLock, child, desktop, headless, faults>>

ConfigureOwns ==
    /\ configure = "locking"
    /\ serverLock = Free
    /\ serverLock' = "configure"
    /\ configure' = "owning"
    /\ UNCHANGED <<file, desktopLock, child, desktop, headless, faults>>

\* Its settings may be refused, or their saving fail.
ConfigureSaves ==
    /\ configure = "owning"
    /\ file' \in Config \cup {file}
    /\ desktopLock' = Released(desktopLock, "configure")
    /\ serverLock' = Free
    /\ configure' = "off"
    /\ UNCHANGED <<child, desktop, headless, faults>>

------------------------------------------------------------------------------
Init ==
    /\ file \in Config \cup {Invalid}
    /\ desktopLock = Free
    /\ serverLock = Free
    /\ child = [s \in Child |-> Exited]
    /\ controller = NoController
    /\ window = NoWindow
    /\ work = NoWork
    /\ headless = "off"
    /\ configure = "off"
    /\ faults = 0

\* What a server does unless it is stuck.
ChildGoesOn(s) ==
    ChildLocks(s) \/ ChildBinds(s) \/ ChildGivesUp(s) \/ ChildServes(s) \/ ChildEnds(s)

Server == \E s \in Child : ChildGoesOn(s) \/ ChildReports(s) \/ ChildCrashes(s) \/ ChildHangs(s)

Tick == TickReads \/ TickPolls \/ TickStale \/ TickDies \/ TickStops \/ TickCloses

Desktop == OpenDesktop \/ Press \/ ApplyFails \/ Quit \/ Tick \/ Work \/ DesktopCrashes

Others ==
    \/ Probe \/ ProbeEnds \/ HeadlessLocks \/ HeadlessRefused \/ HeadlessEnds
    \/ ConfigureLocks \/ ConfigureRefused \/ ConfigureOwns \/ ConfigureSaves

Next == Server \/ Desktop \/ Others

Spec == Init /\ [][Next]_vars

(* Servers that do not hang go on; the worker does, and its waits time out;    *)
(* the window's timer goes on, and each kind of refresh has its turn.          *)
Fairness ==
    /\ \A s \in Child : WF_vars(ChildGoesOn(s))
    /\ WF_vars(Work)
    /\ WF_vars(TickReads) /\ WF_vars(TickPolls) /\ WF_vars(TickStale)
    /\ WF_vars(TickStops \/ TickCloses)

FairSpec == Spec /\ Fairness

------------------------------------------------------------------------------
Calls == {"stop", "start", "await", "timeout", "save", "check", "restore", "notify", "raised"}

TypeOK ==
    /\ file \in Config \cup {Invalid}
    /\ desktopLock \in {Free, "desktop", "headless", "configure"}
    /\ serverLock \in {Free, "headless", "configure"} \cup Child
    /\ child \in [Child -> [stage : {"boot", "locked", "bound", "serving", "hung", "exited"},
                            config : Config \cup {NoConfig}, eof : BOOLEAN, term : BOOLEAN,
                            out : Seq(Lines)]]
    /\ controller \in [process : Child \cup {NoChild}, queue : SUBSET Child,
                       state : {"stopped", "starting", "running", "error"},
                       active : Config \cup {NoConfig}, notice : BOOLEAN, shown : BOOLEAN]
    /\ window \in [open : BOOLEAN, pending : BOOLEAN, quitting : BOOLEAN, ticking : BOOLEAN]
    /\ work \in [todo : Seq(Calls), desired : Config \cup {NoConfig},
                 previous : Config \cup {NoConfig}]
    /\ headless \in {"off", "probing", "probed", "serving"}
    /\ configure \in {"off", "locking", "owning"}
    /\ faults \in 0 .. MaxFaults

\* Open SOLoRa shows the address of the server that runs: what the controller
\* read before it started the child is what the child read later, no line of an
\* earlier child is taken for this one's, and between calls it is what is saved
\* (start, stop, _read_events, the locks of configure and serve).
ShownIsServed ==
    controller.state = "running" =>
        /\ controller.process # NoChild
        /\ Running => child[controller.process].config = controller.active
        /\ Idle => file = controller.active

\* An apply that ends leaves the settings a server has started with, or the
\* previous ones and says so; whatever failed, timed out or hung in between
\* (apply). When saving itself fails apply raises.
ApplyRestores ==
    (window.open /\ work.todo = <<>> /\ work.desired # NoConfig) =>
        IF controller.notice
        THEN file = work.previous /\ controller.shown
        ELSE file = work.desired /\ (controller.state = "error" => work.previous = NoConfig)

\* A server whose parent has closed its stdin, by a stop or by dying at any
\* moment, ends unless it hangs (watch_parent in serve).
OrphansExit ==
    \A s \in Child : (Alive(s) /\ child[s].eof) ~> child[s].stage \in {"exited", "hung"}

\* Quit ends the program, even with a call pending or a server that hangs (quit,
\* tick, and the terminate and kill of stop), as long as ticks go on.
QuitEnds == window.quitting ~> ~window.open \/ ~window.ticking

\* A server that has died or hangs is not shown as running for ever (the poll
\* and the staleness of refresh), as long as ticks go on.
DeathIsNoticed ==
    (controller.state = "running" /\ child[controller.process].stage \in {"exited", "hung"})
        ~> controller.state # "running" \/ ~window.ticking

\* "A headless service cannot start over a desktop owner" (PHASE3A_RUNTIME.md):
\* it never takes the server lock while a desktop holds the profile.
HeadlessNotOverDesktop ==
    [][serverLock # "headless" /\ serverLock' = "headless" => desktopLock # "desktop"]_vars
==============================================================================
