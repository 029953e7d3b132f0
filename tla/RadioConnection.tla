---------------------------- MODULE RadioConnection ----------------------------
(* The radio a node is attached to: MeshtasticConnectionGateway and            *)
(* MeshtasticSettingsController, the settings they save, and the SDK's thread, *)
(* which reports a lost connection between any two steps of a request.         *)
(*                                                                             *)
(* Requests run in threads of their own; the controller's lock lets one of     *)
(* them work at a time. The SDK's thread takes no lock.                        *)
EXTENDS Naturals, Sequences, FiniteSets

CONSTANTS
    Config,    \* connection configurations: an endpoint and its type
    Node,      \* the radios that may be behind an endpoint
    Channel,   \* channels, an index and a name each
    Request,   \* threads that may serve a refresh
    MaxOpens,  \* bound: interfaces opened in a behaviour
    NoConfig, NoNode

ASSUME Absent == NoConfig \notin Config /\ NoNode \notin Node
ASSUME OpensBound == MaxOpens \in Nat

VARIABLES
    opened,      \* the SDK interfaces opened so far, by number
    losses,      \* interfaces whose loss the SDK has published and not delivered
    gateway,     \* _interface (0: None), _connected, and the subscription to losses
    passive,     \* _traffic_transport, the passive observer, or NoObserver
    snapshot,    \* _snapshot, what the last discovery found, or NoSnapshot
    saved,       \* the saved connection, or NoSaved
    selection,   \* the saved channel selection, or NoSelection
    refreshing,  \* refreshing[r]: the configuration r read before the lock
    work,        \* the request that holds the lock and where it is
    step,        \* where "request" and "sdk" are in observe_channel's detaching
    forgotten,   \* history: interfaces left open because their close() raised
    unsaved      \* history: interfaces whose discovery the database did not take

database == <<saved, selection>>
history == <<forgotten, unsaved>>
vars == <<opened, losses, gateway, passive, snapshot, saved, selection, refreshing, work, step,
          forgotten, unsaved>>

Thread == {"request", "sdk"}
NoSelection == [node |-> NoNode]
Selections == [node : Node, channel : Channel]
NoSaved == [config |-> NoConfig, node |-> NoNode]
NoSnapshot == [node |-> NoNode, channels |-> {}]
NoObserver == [iface |-> 0, listening |-> FALSE]
NoGateway == [iface |-> 0, connected |-> FALSE, subscribed |-> FALSE]
NoWork == [op |-> "none", config |-> NoConfig, target |-> NoSelection]

Newest == Len(opened)

Closed(i) == [opened EXCEPT ![i].open = FALSE, ![i].up = FALSE]

\* Closing an interface may make the SDK publish its loss.
MayPublish(i) == losses' \in {losses, losses \cup {i}}

\* close() on an interface of the SDK may raise, too late or too early to close it.
CloseMayRaise(i) ==
    /\ \/ opened' = Closed(i) /\ UNCHANGED forgotten
       \/ UNCHANGED opened /\ forgotten' = forgotten \cup {i}
    /\ MayPublish(i)

Step(thread, next) == step' = [step EXCEPT ![thread] = next]

------------------------------------------------------------------------------
(* observe_channel first detaches the present observer, in a request or in the *)
(* SDK's thread; it reads _traffic_transport twice.                            *)

Finished(thread) == step[thread] \in {"done", "raised"}

\* Mutant of Look: the old observer is kept until a new one is attached.
LookUnlessBinding(thread) ==
    /\ step[thread] = "look"
    /\ Step(thread, IF passive = NoObserver \/ (thread = "request" /\ work.op = "bind")
                    THEN "done" ELSE "shut")
    /\ UNCHANGED <<opened, losses, gateway, passive, snapshot, database, refreshing, work, history>>

\* Mutant of Look: observe_channel returns on None before it detaches.
LookForSelection(thread) ==
    /\ step[thread] = "look"
    /\ Step(thread, IF passive = NoObserver \/ thread = "sdk" \/ work.target = NoSelection
                    THEN "done" ELSE "shut")
    /\ UNCHANGED <<opened, losses, gateway, passive, snapshot, database, refreshing, work, history>>

Look(thread) ==
    /\ step[thread] = "look"
    /\ Step(thread, IF passive = NoObserver THEN "done" ELSE "shut")
    /\ UNCHANGED <<opened, losses, gateway, passive, snapshot, database, refreshing, work, history>>

\* The other thread may have set it to None: None.close() raises.
Shut(thread) ==
    /\ step[thread] = "shut"
    /\ IF passive = NoObserver
       THEN Step(thread, "raised") /\ UNCHANGED passive
       ELSE Step(thread, "drop") /\ passive' = [passive EXCEPT !.listening = FALSE]
    /\ UNCHANGED <<opened, losses, gateway, snapshot, database, refreshing, work, history>>

Drop(thread) ==
    /\ step[thread] = "drop"
    /\ passive' = NoObserver
    /\ Step(thread, "done")
    /\ UNCHANGED <<opened, losses, gateway, snapshot, database, refreshing, work, history>>

------------------------------------------------------------------------------
(* test_connection and refresh.                                                *)

\* The lock is taken, on_binding(None) is called.
Begin(config) ==
    /\ work = NoWork
    /\ Newest < MaxOpens
    /\ work' = [NoWork EXCEPT !.op = "unbind", !.config = config]
    /\ Step("request", "look")

TestConnection(config) ==
    /\ Begin(config)
    /\ UNCHANGED <<opened, losses, gateway, passive, snapshot, database, refreshing, history>>

\* refresh reads the saved connection before it calls test_connection.
RefreshRead(r) ==
    /\ refreshing[r] = NoConfig
    /\ saved # NoSaved
    /\ refreshing' = [refreshing EXCEPT ![r] = saved.config]
    /\ UNCHANGED <<opened, losses, gateway, passive, snapshot, database, work, step, history>>

Refresh(r) ==
    /\ refreshing[r] # NoConfig
    /\ Begin(refreshing[r])
    /\ refreshing' = [refreshing EXCEPT ![r] = NoConfig]
    /\ UNCHANGED <<opened, losses, gateway, passive, snapshot, database, history>>

\* The request ends in an error of the database: nothing is bound again.
EndRequest == work' = NoWork /\ UNCHANGED step

\* _notify_binding suppresses what observe_channel raises. The saved connection
\* is read before discover.
Unbound ==
    /\ work.op = "unbind"
    /\ Finished("request")
    /\ \/ work' = [work EXCEPT !.op = "close"] /\ Step("request", "look")
       \/ EndRequest
    /\ UNCHANGED <<opened, losses, gateway, passive, snapshot, database, refreshing, history>>

\* Mutant of AfterClose: the interface is forgotten, not closed.
AfterCloseForgotten == gateway' = NoGateway /\ UNCHANGED <<opened, losses>>

\* Mutant of AfterClose: the old connection stays until a new one is open.
AfterCloseNot == UNCHANGED <<opened, losses, gateway>>

\* close() after the observer is detached.
AfterClose ==
    /\ IF gateway.iface = 0
       THEN UNCHANGED <<opened, losses>>
       ELSE opened' = Closed(gateway.iface) /\ MayPublish(gateway.iface)
    /\ gateway' = NoGateway

CloseGateway ==
    /\ work.op = "close"
    /\ step["request"] = "done"
    /\ AfterClose
    /\ work' = [work EXCEPT !.op = "open"]
    /\ UNCHANGED <<passive, snapshot, database, refreshing, step, history>>

\* The gateway has let go of the interface when unsubscribe or close() raises.
CloseFails ==
    /\ work.op = "close"
    /\ step["request"] = "done"
    /\ gateway.iface # 0
    /\ CloseMayRaise(gateway.iface)
    /\ gateway' = NoGateway

Open ==
    /\ work.op = "open"
    /\ \E node \in Node, channels \in SUBSET Channel :
           opened' = Append(opened, [config |-> work.config, node |-> node,
                                     channels |-> channels, open |-> TRUE, up |-> TRUE])
    /\ work' = [work EXCEPT !.op = "inspect"]
    /\ UNCHANGED <<losses, gateway, passive, snapshot, database, refreshing, step, history>>

\* The metadata is read and the listener of lost connections subscribed.
Inspect ==
    /\ work.op = "inspect"
    /\ gateway' = [gateway EXCEPT !.subscribed = TRUE]
    /\ work' = [work EXCEPT !.op = "store"]
    /\ UNCHANGED <<opened, losses, passive, snapshot, database, refreshing, step, history>>

StoreInterface ==
    /\ work.op = "store"
    /\ gateway' = [gateway EXCEPT !.iface = Newest]
    /\ work' = [work EXCEPT !.op = "connect"]
    /\ UNCHANGED <<opened, losses, passive, snapshot, database, refreshing, step, history>>

SetConnected ==
    /\ work.op = "connect"
    /\ gateway' = [gateway EXCEPT !.connected = TRUE]
    /\ work' = [work EXCEPT !.op = "save"]
    /\ UNCHANGED <<opened, losses, passive, snapshot, database, refreshing, step, history>>

Bind(target) ==
    /\ work' = [work EXCEPT !.op = "bind", !.target = target]
    /\ Step("request", "look")

\* _status: the selection is one of a channel the connected node has.
Valid(s, found) == s # NoSelection /\ s.node = found.node /\ s.channel \in found.channels

\* The commit may fail, or what _status reads after it: either ends the request.
SaveDiscovery ==
    /\ work.op = "save"
    /\ snapshot' = [node |-> opened[Newest].node, channels |-> opened[Newest].channels]
    /\ \/ /\ saved' = [config |-> work.config, node |-> opened[Newest].node]
          /\ \/ Bind(IF Valid(selection, snapshot') /\ gateway.connected
                    THEN selection ELSE NoSelection)
             \/ EndRequest
          /\ UNCHANGED unsaved
       \/ /\ unsaved' = unsaved \cup {Newest}
          /\ EndRequest
          /\ UNCHANGED saved
    /\ UNCHANGED <<opened, losses, gateway, passive, selection, refreshing, forgotten>>

\* discover raises: close() did, the endpoint does not open, or its metadata
\* cannot be read and the new interface is closed.
CloseRaised ==
    /\ work.op = "close"
    /\ step["request"] = "raised"
    /\ UNCHANGED <<opened, losses, gateway, forgotten>>

OpenFails == work.op = "open" /\ UNCHANGED <<opened, losses, gateway, forgotten>>

InspectFails == work.op = "inspect" /\ CloseMayRaise(Newest) /\ UNCHANGED gateway

DiscoverFails ==
    /\ CloseFails \/ CloseRaised \/ OpenFails \/ InspectFails
    /\ work' = [work EXCEPT !.op = "failed"]
    /\ UNCHANGED <<passive, snapshot, database, refreshing, step, unsaved>>

\* A failed connection is saved too; the node stays that of the same configuration.
SaveFailure ==
    /\ work.op = "failed"
    /\ snapshot' = NoSnapshot
    /\ \/ /\ saved' = [config |-> work.config,
                       node |-> IF saved.config = work.config THEN saved.node ELSE NoNode]
          /\ Bind(NoSelection) \/ EndRequest
       \/ EndRequest /\ UNCHANGED saved
    /\ UNCHANGED <<opened, losses, gateway, passive, selection, refreshing, history>>

\* observe_channel, past its detaching: nothing to attach or to attach to.
Bound ==
    /\ work.op = "bind"
    /\ Finished("request")
    /\ work' = IF step["request"] = "done" /\ work.target # NoSelection /\ gateway.connected
               THEN [work EXCEPT !.op = "attach"] ELSE NoWork
    /\ UNCHANGED <<opened, losses, gateway, passive, snapshot, database, refreshing, step, history>>

\* The device's channels may have changed since they were discovered.
Attach ==
    /\ work.op = "attach"
    /\ \/ /\ Valid(work.target, opened[gateway.iface])
          /\ passive' = [iface |-> gateway.iface, listening |-> TRUE, binding |-> work.target]
       \/ UNCHANGED passive
    /\ work' = NoWork
    /\ UNCHANGED <<opened, losses, gateway, snapshot, database, refreshing, step, history>>

------------------------------------------------------------------------------
\* Mutant of Selectable: a channel needs no discovery.
SelectableAlways(channel) == TRUE

Selectable(channel) == snapshot # NoSnapshot /\ channel \in snapshot.channels

\* A save that fails changes nothing.
Select(channel) ==
    /\ work = NoWork
    /\ Selectable(channel)
    /\ selection' = [node |-> snapshot.node, channel |-> channel]
    /\ Bind(IF gateway.connected THEN selection' ELSE NoSelection)
    /\ UNCHANGED <<opened, losses, gateway, passive, snapshot, saved, refreshing, history>>

------------------------------------------------------------------------------
(* The SDK's thread.                                                           *)

LoseLink(i) ==
    /\ opened[i].up
    /\ opened' = [opened EXCEPT ![i].up = FALSE]
    /\ losses' = losses \cup {i}
    /\ UNCHANGED <<gateway, passive, snapshot, database, refreshing, work, step, history>>

\* _on_connection_lost, if it is subscribed, minds its own interface only.
DeliverLoss(i) ==
    /\ Finished("sdk")
    /\ i \in losses
    /\ losses' = losses \ {i}
    /\ IF gateway.subscribed /\ gateway.iface = i THEN Step("sdk", "lost") ELSE UNCHANGED step
    /\ UNCHANGED <<opened, gateway, passive, snapshot, database, refreshing, work, history>>

Disconnect ==
    /\ step["sdk"] = "lost"
    /\ gateway' = [gateway EXCEPT !.connected = FALSE]
    /\ Step("sdk", "look")
    /\ UNCHANGED <<opened, losses, passive, snapshot, database, refreshing, work, history>>

------------------------------------------------------------------------------
Init ==
    /\ opened = <<>>
    /\ losses = {}
    /\ gateway = NoGateway
    /\ passive = NoObserver
    /\ snapshot = NoSnapshot
    /\ saved = NoSaved
    /\ selection = NoSelection
    /\ refreshing = [r \in Request |-> NoConfig]
    /\ work = NoWork
    /\ step = [thread \in Thread |-> "done"]
    /\ forgotten = {}
    /\ unsaved = {}

\* The server is stopped or dies; what is saved stays.
Restart ==
    /\ Newest > 0
    /\ opened' = [i \in 1 .. Newest |-> Closed(i)[i]]
    /\ losses' = {}
    /\ gateway' = NoGateway
    /\ passive' = NoObserver
    /\ snapshot' = NoSnapshot
    /\ refreshing' = [r \in Request |-> NoConfig]
    /\ work' = NoWork
    /\ step' = [thread \in Thread |-> "done"]
    /\ forgotten' = {}
    /\ unsaved' = {}
    /\ UNCHANGED database

Detaching == \E thread \in Thread : Look(thread) \/ Shut(thread) \/ Drop(thread)

Discovering ==
    \/ Unbound \/ CloseGateway \/ Open \/ Inspect \/ StoreInterface \/ SetConnected
    \/ SaveDiscovery \/ DiscoverFails \/ SaveFailure \/ Bound \/ Attach

Sdk == Disconnect \/ \E i \in 1 .. Newest : LoseLink(i) \/ DeliverLoss(i)

Next ==
    \/ \E config \in Config : TestConnection(config)
    \/ \E r \in Request : RefreshRead(r) \/ Refresh(r)
    \/ \E channel \in Channel : Select(channel)
    \/ Discovering
    \/ Detaching
    \/ Sdk
    \/ Restart

Spec == Init /\ [][Next]_vars

------------------------------------------------------------------------------
Interfaces == [config : Config, node : Node, channels : SUBSET Channel,
               open : BOOLEAN, up : BOOLEAN]

TypeOK ==
    /\ opened \in Seq(Interfaces)
    /\ losses \subseteq 1 .. Newest
    /\ gateway \in [iface : 0 .. Newest, connected : BOOLEAN, subscribed : BOOLEAN]
    /\ passive = NoObserver
         \/ passive \in [iface : 1 .. Newest, listening : BOOLEAN, binding : Selections]
    /\ snapshot = NoSnapshot \/ snapshot \in [node : Node, channels : SUBSET Channel]
    /\ saved \in [config : Config \cup {NoConfig}, node : Node \cup {NoNode}]
    /\ selection = NoSelection \/ selection \in Selections
    /\ refreshing \in [Request -> Config \cup {NoConfig}]
    /\ work \in [op : {"none", "unbind", "close", "open", "inspect", "store", "connect",
                       "save", "failed", "bind", "attach"},
                 config : Config \cup {NoConfig}, target : {NoSelection} \cup Selections]
    /\ step \in [Thread -> {"lost", "look", "shut", "drop", "done", "raised"}]
    /\ forgotten \subseteq 1 .. Newest
    /\ unsaved \subseteq 1 .. Newest

\* No second connection is ever opened, whatever fails on the way, unless the SDK
\* itself did not close the first (discover and close; TRAFFIC_LOG.md says so of
\* the observer's connection).
OneConnection == Cardinality({i \in 1 .. Newest : opened[i].open} \ forgotten) <= 1

\* An observer listens on the gateway's own open interface, never on one that
\* close() has let go (observe_channel and close, against the SDK's thread).
ObserverIsCurrent ==
    passive.listening => passive.iface = gateway.iface /\ opened[passive.iface].open

\* Between requests, what is observed is the saved selection, on its own node,
\* though lost connections interrupt the rebinding anywhere (select and
\* test_connection through observe_channel).
ObserverIsBound ==
    work = NoWork /\ passive.listening
        => passive.binding = selection /\ selection.node = opened[passive.iface].node

\* Between requests, a connection reported as live is the one that is saved,
\* with the node behind it, unless the database did not take it; and what the
\* page is shown of the node is what is behind it in any case. A failed test never
\* leaves the old connection live under the new configuration, whichever of its
\* steps fails (test_connection, discover and close).
SavedIsLive ==
    work = NoWork /\ gateway.connected
        => /\ snapshot.node = opened[gateway.iface].node
           /\ gateway.iface \notin unsaved
                  => /\ saved.config = opened[gateway.iface].config
                     /\ saved.node = opened[gateway.iface].node

------------------------------------------------------------------------------
\* When nothing is under way and the loss of the connection has been delivered,
\* it is not reported as live and nothing is observed on it (TRAFFIC_LOG.md:
\* "disconnect removes it"; the status error of a lost connection).
LossEndsService ==
    (/\ work = NoWork
     /\ Finished("sdk")
     /\ gateway.iface # 0
     /\ ~opened[gateway.iface].up
     /\ gateway.iface \notin losses)
        => ~gateway.connected /\ ~passive.listening
==============================================================================
