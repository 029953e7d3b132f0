------------------------------ MODULE RadioProofs ------------------------------
(* The radio connection, for every set of configurations, nodes, channels and  *)
(* requests and any number of interfaces opened.                               *)
EXTENDS RadioConnection, TLAPS, SequenceTheorems, FiniteSetTheorems

------------------------------------------------------------------------------
(* The inductive invariant.                                                    *)

\* What the request that holds the lock knows at each of its steps.
WorkOK ==
    /\ work.op = "none" => work = NoWork
    /\ work.op \in {"unbind", "close", "open"} => work.config \in Config
    /\ work.op \in {"open", "inspect", "store", "failed"} => gateway.iface = 0
    /\ work.op \in {"inspect", "store", "connect", "save"} =>
           Newest > 0 /\ opened[Newest].config = work.config
    /\ work.op \in {"inspect", "store"} => opened[Newest].open
    /\ work.op \in {"connect", "save"} => gateway.iface = Newest
    /\ work.op \in {"bind", "attach"} => work.target \in {NoSelection, selection}
    /\ work.op = "attach" => gateway.iface # 0 /\ work.target # NoSelection

\* The gateway's interface is open, and no other is but one that the SDK failed to
\* close and the one that discover has not stored yet.
GatewayOK ==
    /\ gateway.iface = 0 => ~gateway.connected
    /\ gateway.iface # 0 => opened[gateway.iface].open
    /\ \A i \in 1 .. Newest : opened[i].open =>
           i = gateway.iface \/ i \in forgotten \/ (i = Newest /\ work.op \in {"inspect", "store"})

\* From the end of a request's first detaching on nothing is attached: the
\* SDK's thread only ever detaches.  So detaching does not raise in close().
Detached ==
    /\ work.op # "none" /\ (work.op \notin {"unbind", "bind"} \/ Finished("request"))
           => passive = NoObserver
    /\ work.op = "close" => step["request"] \in {"look", "done"}

LiveIsSaved ==
    gateway.connected /\ work.op \in {"none", "unbind", "bind", "attach"}
        => /\ snapshot.node = opened[gateway.iface].node
           /\ gateway.iface \notin unsaved
                  => /\ saved.config = opened[gateway.iface].config
                     /\ saved.node = opened[gateway.iface].node

BoundIsSelected ==
    work.op = "none" /\ passive.listening
        => passive.binding = selection /\ selection.node = opened[passive.iface].node

Inv ==
    /\ TypeOK
    /\ WorkOK
    /\ GatewayOK
    /\ Detached
    /\ LiveIsSaved
    /\ BoundIsSelected
    /\ ObserverIsCurrent

------------------------------------------------------------------------------
(* The interfaces.                                                             *)

(* Every interface opened so far is a record of the SDK's.                     *)
LEMMA InterfaceType ==
    ASSUME TypeOK, NEW i \in 1 .. Newest
    PROVE  /\ opened[i] \in Interfaces
           /\ opened[i].config \in Config /\ opened[i].node \in Node
           /\ opened[i].channels \subseteq Channel
<1>1. opened[i] \in Interfaces
  BY ElementOfSeq DEF TypeOK, history, Newest
<1> QED
  BY <1>1 DEF Interfaces

(* Closing an interface changes nothing but that it is open and up.            *)
LEMMA ClosedType ==
    ASSUME TypeOK, NEW i \in 1 .. Newest
    PROVE  /\ Closed(i) \in Seq(Interfaces)
           /\ Len(Closed(i)) = Newest
           /\ \A j \in 1 .. Newest : j # i => Closed(i)[j] = opened[j]
           /\ ~Closed(i)[i].open
           /\ Closed(i)[i].config = opened[i].config
           /\ Closed(i)[i].node = opened[i].node
           /\ Closed(i)[i].channels = opened[i].channels
<1> DEFINE x == [opened[i] EXCEPT !.open = FALSE, !.up = FALSE]
<1>1. opened[i] \in Interfaces
  BY InterfaceType
<1>2. x \in Interfaces
  BY <1>1 DEF Interfaces
<1>3. Closed(i) = [opened EXCEPT ![i] = x]
  BY DEF Closed
<1>o. opened \in Seq(Interfaces)
  BY DEF TypeOK
<1> HIDE DEF x
<1>4. Closed(i) \in Seq(Interfaces) /\ Len(Closed(i)) = Newest
  BY <1>o, <1>2, <1>3, ExceptSeq DEF Newest
<1>5. \A j \in 1 .. Newest : Closed(i)[j] = IF j = i THEN x ELSE opened[j]
  BY <1>o, <1>2, <1>3, ExceptSeq DEF Newest
<1> QED
  BY <1>1, <1>4, <1>5 DEF x, Newest, Interfaces

(* Interfaces are numbered by naturals.                                        *)
LEMMA NewestType == TypeOK => Newest \in Nat
BY LenProperties DEF TypeOK, history, Newest

\* The interfaces afterwards: the same ones, perhaps down or closed.
Kept(after) ==
    /\ after \in Seq(Interfaces)
    /\ Len(after) = Newest
    /\ \A i \in 1 .. Newest :
           /\ after[i].config = opened[i].config /\ after[i].node = opened[i].node
           /\ after[i].channels = opened[i].channels

(* A lost link leaves every interface as it is but one that is down.           *)
LEMMA LoseLinkOpened ==
    ASSUME TypeOK, NEW i \in 1 .. Newest, LoseLink(i)
    PROVE  /\ Kept(opened')
           /\ \A j \in 1 .. Newest : opened'[j].open = opened[j].open
<1> DEFINE x == [opened[i] EXCEPT !.up = FALSE]
<1>1. opened[i] \in Interfaces /\ \A j \in 1 .. Newest : opened[j] \in Interfaces
  BY InterfaceType
<1>2. x \in Interfaces
  BY <1>1 DEF Interfaces
<1>3. opened' = [opened EXCEPT ![i] = x] /\ opened \in Seq(Interfaces)
  BY DEF LoseLink, TypeOK
<1> HIDE DEF x
<1>4. /\ opened' \in Seq(Interfaces) /\ Len(opened') = Newest
      /\ \A j \in 1 .. Newest : opened'[j] = IF j = i THEN x ELSE opened[j]
  BY <1>2, <1>3, ExceptSeq DEF Newest
<1> QED
  BY <1>1, <1>4 DEF x, Interfaces, Kept

(* A restart leaves no interface open.                                         *)
LEMMA RestartOpened ==
    ASSUME TypeOK, Restart
    PROVE  Kept(opened') /\ \A j \in 1 .. Newest : ~opened'[j].open
<1>1. \A i \in 1 .. Newest : Closed(i)[i] \in Interfaces
  BY ClosedType, ElementOfSeq, NewestType
<1>2. opened' = [i \in 1 .. Newest |-> Closed(i)[i]]
  BY DEF Restart
<1>3. opened' \in Seq(Interfaces) /\ Len(opened') = Newest
  BY <1>1, <1>2, NewestType
<1> QED
  BY <1>2, <1>3, ClosedType DEF Kept

(* What Open appends is open, under the configuration that is tested.          *)
LEMMA OpenOpened ==
    ASSUME TypeOK, Open, work.config \in Config
    PROVE  /\ opened' \in Seq(Interfaces)
           /\ Newest' = Newest + 1
           /\ \A j \in 1 .. Newest : opened'[j] = opened[j]
           /\ opened'[Newest'].config = work.config
           /\ opened'[Newest'].open
<1>1. PICK node \in Node, channels \in SUBSET Channel :
          opened' = Append(opened, [config |-> work.config, node |-> node,
                                    channels |-> channels, open |-> TRUE, up |-> TRUE])
  BY DEF Open
<1> DEFINE x == [config |-> work.config, node |-> node,
                 channels |-> channels, open |-> TRUE, up |-> TRUE]
<1>2. x \in Interfaces /\ x.config = work.config /\ x.open
  BY DEF Interfaces
<1>3. opened \in Seq(Interfaces) /\ opened' = Append(opened, x)
  BY <1>1 DEF TypeOK
<1> HIDE DEF x
<1> QED
  BY <1>2, <1>3, NewestType DEF Newest

(* Closing the gateway's interface, or the newest one.                         *)
LEMMA ClosedOpened ==
    ASSUME TypeOK, NEW i \in 1 .. Newest, opened' = Closed(i)
    PROVE  Kept(opened') /\ ~opened'[i].open /\ \A j \in 1 .. Newest : j # i => opened'[j] = opened[j]
BY ClosedType DEF Kept

(* An interface whose closing may raise is closed or forgotten afterwards.     *)
LEMMA CloseMayRaiseOpened ==
    ASSUME TypeOK, NEW i \in 1 .. Newest, CloseMayRaise(i)
    PROVE  /\ Kept(opened')
           /\ Newest' = Newest
           /\ losses' \subseteq 1 .. Newest
           /\ forgotten \subseteq forgotten' /\ forgotten' \subseteq 1 .. Newest
           /\ opened'[i].open => i \in forgotten'
           /\ \A j \in 1 .. Newest : j # i => opened'[j] = opened[j]
<1>1. losses' \subseteq 1 .. Newest
  BY DEF CloseMayRaise, MayPublish, TypeOK
<1>2. CASE opened' = Closed(i) /\ UNCHANGED forgotten
  <2>1. Newest' = Newest
    BY <1>2, ClosedOpened DEF Kept, Newest
  <2> QED
    BY <1>1, <1>2, <2>1, ClosedOpened DEF TypeOK
<1>3. CASE UNCHANGED opened /\ forgotten' = forgotten \cup {i}
  BY <1>1, <1>3 DEF Kept, TypeOK, Newest
<1> QED
  BY <1>2, <1>3 DEF CloseMayRaise

------------------------------------------------------------------------------
(* Types.                                                                      *)

(* Every step keeps the types.                                                 *)
LEMMA TypeStep == Inv /\ [Next]_vars => TypeOK'
<1> SUFFICES ASSUME Inv, [Next]_vars PROVE TypeOK'
  OBVIOUS
<1>t. TypeOK /\ WorkOK
  BY DEF Inv
<1>n. Newest \in Nat
  BY <1>t, NewestType
<1>1. ASSUME NEW config \in Config \cup {NoConfig}, Begin(config), UNCHANGED <<opened, losses, gateway, passive, snapshot, database, history>>,
             refreshing' \in [Request -> Config \cup {NoConfig}]
      PROVE  TypeOK'
  BY <1>t, <1>1 DEF Begin, Step, Thread, NoWork, TypeOK, database, history, Newest
<1>2. ASSUME NEW config \in Config, TestConnection(config) PROVE TypeOK'
  BY <1>t, <1>1, <1>2 DEF TestConnection, TypeOK
<1>3. ASSUME NEW r \in Request, RefreshRead(r) PROVE TypeOK'
  BY <1>t, <1>3 DEF RefreshRead, TypeOK, database, history, Newest
<1>4. ASSUME NEW r \in Request, Refresh(r) PROVE TypeOK'
  BY <1>t, <1>1, <1>4 DEF Refresh, TypeOK
<1>5. ASSUME NEW channel \in Channel, Select(channel) PROVE TypeOK'
  <2>1. snapshot.node \in Node
    BY <1>t, <1>5 DEF Select, Selectable, TypeOK
  <2>2. selection' \in Selections
    BY <1>5, <2>1 DEF Select, Selections
  <2> QED
    BY <1>t, <1>5, <2>2 DEF Select, Bind, Step, Thread, TypeOK, history, Newest
<1>6. CASE Unbound
  BY <1>t, <1>6 DEF Unbound, EndRequest, NoWork, Step, Thread, TypeOK, database, history, Newest
<1>7. CASE CloseGateway
  <2>1. CASE gateway.iface = 0
    BY <1>t, <1>7, <2>1 DEF CloseGateway, AfterClose, NoGateway, TypeOK, database, history, Newest
  <2>2. CASE gateway.iface # 0
    <3>1. gateway.iface \in 1 .. Newest /\ opened' = Closed(gateway.iface)
      BY <1>t, <1>n, <1>7, <2>2 DEF CloseGateway, AfterClose, TypeOK
    <3>2. opened' \in Seq(Interfaces) /\ Newest' = Newest
      BY <1>t, <3>1, ClosedOpened DEF Kept, Newest
    <3>3. losses' \subseteq 1 .. Newest
      BY <1>t, <1>7, <2>2, <3>1 DEF CloseGateway, AfterClose, MayPublish, TypeOK
    <3>4. gateway' \in [iface : 0 .. Newest, connected : BOOLEAN, subscribed : BOOLEAN]
      BY <1>n, <1>7 DEF CloseGateway, AfterClose, NoGateway
    <3> QED
      BY <1>t, <1>7, <3>2, <3>3, <3>4 DEF CloseGateway, TypeOK, database, history
  <2> QED
    BY <2>1, <2>2
<1>8. CASE Open
  <2>1. opened' \in Seq(Interfaces) /\ Newest' = Newest + 1
    BY <1>t, <1>8, OpenOpened DEF Open, WorkOK
  <2>2. 1 .. Newest \subseteq 1 .. Newest' /\ 0 .. Newest \subseteq 0 .. Newest'
    BY <1>n, <2>1
  <2> QED
    BY <1>t, <1>8, <2>1, <2>2 DEF Open, TypeOK, database, history
<1>9. CASE Inspect
  BY <1>t, <1>9 DEF Inspect, TypeOK, database, history, Newest
<1>10. CASE StoreInterface
  <2>1. gateway' = [gateway EXCEPT !.iface = Newest] /\ Newest' = Newest
    BY <1>10 DEF StoreInterface, Newest
  <2>2. gateway' \in [iface : 0 .. Newest, connected : BOOLEAN, subscribed : BOOLEAN]
    BY <1>t, <1>n, <2>1 DEF TypeOK
  <2> QED
    BY <1>t, <1>10, <2>1, <2>2 DEF StoreInterface, TypeOK, database, history
<1>11. CASE SetConnected
  BY <1>t, <1>11 DEF SetConnected, TypeOK, database, history, Newest
<1>12. CASE SaveDiscovery
  <2>1. Newest \in 1 .. Newest
    BY <1>t, <1>n, <1>12 DEF SaveDiscovery, WorkOK
  <2>2. opened[Newest].node \in Node /\ opened[Newest].channels \subseteq Channel
    BY <1>t, <2>1, InterfaceType
  <2>3. snapshot' \in [node : Node, channels : SUBSET Channel]
    BY <1>12, <2>2 DEF SaveDiscovery
  <2>4. saved' \in [config : Config \cup {NoConfig}, node : Node \cup {NoNode}]
    BY <1>t, <1>12, <2>2 DEF SaveDiscovery, TypeOK
  <2>5. \/ work' = NoWork
        \/ work' \in [op : {"bind"}, config : Config \cup {NoConfig}, target : {NoSelection} \cup Selections]
    BY <1>t, <1>12 DEF SaveDiscovery, Bind, EndRequest, TypeOK
  <2>6. step' \in [Thread -> {"lost", "look", "shut", "drop", "done", "raised"}]
    <3>1. step' = step \/ step' = [step EXCEPT !["request"] = "look"]
      BY <1>12 DEF SaveDiscovery, Bind, EndRequest, Step
    <3> QED
      BY <1>t, <3>1 DEF Thread, TypeOK
  <2>7. unsaved' \subseteq 1 .. Newest
    <3>1. unsaved' = unsaved \/ unsaved' = unsaved \cup {Newest}
      BY <1>12 DEF SaveDiscovery
    <3>2. unsaved \subseteq 1 .. Newest
      BY <1>t DEF TypeOK
    <3> QED
      BY <2>1, <3>1, <3>2
  <2> QED
    BY <1>t, <1>12, <2>3, <2>4, <2>5, <2>6, <2>7 DEF SaveDiscovery, NoWork, TypeOK, Newest
<1>13. CASE DiscoverFails
  <2>1. opened' \in Seq(Interfaces) /\ Newest' = Newest /\ losses' \subseteq 1 .. Newest
        /\ forgotten' \subseteq 1 .. Newest /\ (gateway' = gateway \/ gateway' = NoGateway)
    <3>1. CASE CloseRaised \/ OpenFails
      BY <1>t, <3>1 DEF CloseRaised, OpenFails, TypeOK, Newest
    <3>2. CASE InspectFails
      <4>1. Newest \in 1 .. Newest
        BY <1>t, <1>n, <3>2 DEF InspectFails, WorkOK
      <4> QED
        BY <1>t, <3>2, <4>1, CloseMayRaiseOpened DEF InspectFails, Kept
    <3>3. CASE CloseFails
      <4>1. gateway.iface \in 1 .. Newest
        BY <1>t, <1>n, <3>3 DEF CloseFails, TypeOK
      <4> QED
        BY <1>t, <3>3, <4>1, CloseMayRaiseOpened DEF CloseFails, Kept
    <3> QED
      BY <1>13, <3>1, <3>2, <3>3 DEF DiscoverFails
  <2>2. gateway' \in [iface : 0 .. Newest, connected : BOOLEAN, subscribed : BOOLEAN]
    <3>1. NoGateway \in [iface : 0 .. Newest, connected : BOOLEAN, subscribed : BOOLEAN]
      BY <1>n DEF NoGateway
    <3>2. gateway \in [iface : 0 .. Newest, connected : BOOLEAN, subscribed : BOOLEAN]
      BY <1>t DEF TypeOK
    <3> QED
      BY <2>1, <3>1, <3>2
  <2>3. work'.op = "failed" /\ work' \in [op : {"failed"}, config : Config \cup {NoConfig},
                                         target : {NoSelection} \cup Selections]
    BY <1>t, <1>13 DEF DiscoverFails, TypeOK
  <2>4. UNCHANGED <<passive, snapshot, saved, selection, refreshing, step, unsaved>>
    BY <1>13 DEF DiscoverFails, database
  <2> QED
    BY <1>t, <2>1, <2>2, <2>3, <2>4 DEF TypeOK
<1>24. CASE SaveFailure
  <2>1. \/ work' = NoWork
        \/ work' \in [op : {"bind"}, config : Config \cup {NoConfig}, target : {NoSelection} \cup Selections]
    BY <1>t, <1>24 DEF SaveFailure, Bind, EndRequest, TypeOK
  <2>2. step' \in [Thread -> {"lost", "look", "shut", "drop", "done", "raised"}]
    BY <1>t, <1>24 DEF SaveFailure, Bind, EndRequest, Step, Thread, TypeOK
  <2>3. saved' \in [config : Config \cup {NoConfig}, node : Node \cup {NoNode}]
    BY <1>t, <1>24 DEF SaveFailure, TypeOK
  <2> QED
    BY <1>t, <1>24, <2>1, <2>2, <2>3 DEF SaveFailure, NoWork, TypeOK, history, Newest
<1>14. CASE Bound
  BY <1>t, <1>14 DEF Bound, NoWork, TypeOK, database, history, Newest
<1>15. CASE Attach
  <2>1. gateway.iface \in 1 .. Newest /\ work.target \in Selections
    BY <1>t, <1>n, <1>15 DEF Attach, WorkOK, TypeOK
  <2>2. \/ passive' = passive
        \/ passive' \in [iface : 1 .. Newest, listening : BOOLEAN, binding : Selections]
    <3>1. \/ passive' = passive
          \/ passive' = [iface |-> gateway.iface, listening |-> TRUE, binding |-> work.target]
      BY <1>15 DEF Attach
    <3>2. \A i \in 1 .. Newest, b \in Selections :
              [iface |-> i, listening |-> TRUE, binding |-> b]
                  \in [iface : 1 .. Newest, listening : BOOLEAN, binding : Selections]
      OBVIOUS
    <3> QED
      BY <2>1, <3>1, <3>2
  <2> QED
    BY <1>t, <1>15, <2>2 DEF Attach, NoWork, TypeOK, database, history, Newest
<1>16. ASSUME NEW thread \in Thread, Look(thread) PROVE TypeOK'
  BY <1>t, <1>16 DEF Look, Step, TypeOK, database, history, Newest
<1>17. ASSUME NEW thread \in Thread, Shut(thread) PROVE TypeOK'
  <2>1. CASE passive = NoObserver
    BY <1>t, <1>17, <2>1 DEF Shut, Step, TypeOK, database, history, Newest
  <2>2. CASE passive # NoObserver
    <3>1. passive' \in [iface : 1 .. Newest, listening : BOOLEAN, binding : Selections]
      BY <1>t, <1>17, <2>2 DEF Shut, TypeOK
    <3> QED
      BY <1>t, <1>17, <2>2, <3>1 DEF Shut, Step, TypeOK, database, history, Newest
  <2> QED
    BY <2>1, <2>2
<1>18. ASSUME NEW thread \in Thread, Drop(thread) PROVE TypeOK'
  BY <1>t, <1>18 DEF Drop, Step, TypeOK, database, history, Newest
<1>19. CASE Disconnect
  BY <1>t, <1>19 DEF Disconnect, Step, TypeOK, database, history, Newest
<1>20. ASSUME NEW i \in 1 .. Newest, LoseLink(i) PROVE TypeOK'
  <2>1. opened' \in Seq(Interfaces) /\ Newest' = Newest
    BY <1>t, <1>20, LoseLinkOpened DEF Kept, Newest
  <2> QED
    BY <1>t, <1>20, <2>1 DEF LoseLink, TypeOK, database, history
<1>21. ASSUME NEW i \in 1 .. Newest, DeliverLoss(i) PROVE TypeOK'
  BY <1>t, <1>21 DEF DeliverLoss, Step, TypeOK, database, history, Newest
<1>22. CASE Restart
  <2>1. opened' \in Seq(Interfaces) /\ Newest' = Newest
    BY <1>t, <1>22, RestartOpened DEF Kept, Newest
  <2> QED
    BY <1>t, <1>n, <1>22, <2>1 DEF Restart, NoGateway, NoWork, TypeOK, database, history
<1>23. CASE UNCHANGED vars
  BY <1>t, <1>23 DEF vars, TypeOK, database, history, Newest
<1> QED
  BY <1>2, <1>3, <1>4, <1>5, <1>6, <1>7, <1>8, <1>9, <1>10, <1>11, <1>12, <1>13, <1>14, <1>15, <1>16, <1>17, <1>18, <1>19, <1>20, <1>21, <1>22, <1>23, <1>24
  DEF Next, Discovering, Detaching, Sdk

------------------------------------------------------------------------------
(* Safety.                                                                     *)

\* The parts of the invariant beside the types.
Rest == WorkOK /\ GatewayOK /\ Detached /\ LiveIsSaved /\ BoundIsSelected /\ ObserverIsCurrent

(* Every step keeps the rest of the invariant.                                 *)
LEMMA SafetyStep == Inv /\ [Next]_vars => Rest'
<1> SUFFICES ASSUME Inv, [Next]_vars PROVE Rest'
  OBVIOUS
<1>t. TypeOK /\ TypeOK' /\ WorkOK /\ GatewayOK /\ Detached /\ LiveIsSaved /\ BoundIsSelected /\ ObserverIsCurrent
  BY TypeStep DEF Inv
<1>n. Newest \in Nat
  BY <1>t, NewestType
<1> USE DEF Rest, WorkOK, GatewayOK, Detached, LiveIsSaved, BoundIsSelected, ObserverIsCurrent, Finished
<1>1. ASSUME NEW config \in Config, Begin(config), UNCHANGED <<opened, losses, gateway, passive, snapshot, database, history>>
      PROVE  Rest'
  BY <1>t, <1>1 DEF Begin, Step, Thread, NoWork, TypeOK, database, history, Newest
<1>2. ASSUME NEW config \in Config, TestConnection(config) PROVE Rest'
  BY <1>1, <1>2 DEF TestConnection
<1>3. ASSUME NEW r \in Request, RefreshRead(r) PROVE Rest'
  BY <1>t, <1>3 DEF RefreshRead, database, history, Newest
<1>4. ASSUME NEW r \in Request, Refresh(r) PROVE Rest'
  BY <1>t, <1>1, <1>4 DEF Refresh, TypeOK
<1>5. ASSUME NEW channel \in Channel, Select(channel) PROVE Rest'
  BY <1>t, <1>5 DEF Select, Bind, Step, Thread, NoWork, TypeOK, history, Newest
<1>6. CASE Unbound
  <2>1. CASE EndRequest
    BY <1>t, <1>6, <2>1 DEF Unbound, EndRequest, NoWork, NoObserver, TypeOK, database, history, Newest
  <2>2. CASE ~EndRequest
    BY <1>t, <1>6, <2>2 DEF Unbound, Step, Thread, TypeOK, database, history, Newest
  <2> QED
    BY <2>1, <2>2
<1>7. CASE CloseGateway
  <2>1. CASE gateway.iface = 0
    BY <1>t, <1>7, <2>1 DEF CloseGateway, AfterClose, NoGateway, NoObserver, TypeOK, database, history, Newest
  <2>2. CASE gateway.iface # 0
    <3>1. gateway.iface \in 1 .. Newest /\ opened' = Closed(gateway.iface)
      BY <1>t, <1>n, <1>7, <2>2 DEF CloseGateway, AfterClose, TypeOK
    <3>2. /\ Newest' = Newest /\ ~opened'[gateway.iface].open
          /\ \A j \in 1 .. Newest : j # gateway.iface => opened'[j] = opened[j]
      BY <1>t, <3>1, ClosedOpened DEF Kept, Newest
    <3>3. /\ gateway'.iface = 0 /\ ~gateway'.connected /\ work'.op = "open" /\ work'.config = work.config
          /\ UNCHANGED <<passive, step, forgotten>> /\ passive = NoObserver /\ ~passive.listening
      BY <1>t, <1>7 DEF CloseGateway, AfterClose, NoGateway, NoObserver, TypeOK, history
    <3>4. \A j \in 1 .. Newest : opened'[j].open => j \in forgotten
      BY <1>t, <1>7, <3>2 DEF CloseGateway
    <3> QED
      BY <1>t, <1>7, <3>2, <3>3, <3>4 DEF CloseGateway
  <2> QED
    BY <2>1, <2>2
<1>8. CASE Open
  <2>1. /\ Newest' = Newest + 1 /\ opened'[Newest'].config = work.config /\ opened'[Newest'].open
        /\ \A j \in 1 .. Newest : opened'[j] = opened[j]
    BY <1>t, <1>8, OpenOpened DEF Open
  <2>2. /\ gateway' = gateway /\ gateway.iface = 0 /\ ~gateway.connected
        /\ passive' = passive /\ passive = NoObserver
        /\ work' = [work EXCEPT !.op = "inspect"] /\ work.op = "open"
    BY <1>t, <1>8 DEF Open
  <2>3. work'.op = "inspect" /\ work'.config = work.config /\ ~passive.listening
    BY <1>t, <2>2 DEF NoObserver, TypeOK
  <2>4. WorkOK'
    BY <1>n, <2>1, <2>2, <2>3
  <2>5. GatewayOK'
    <3> SUFFICES ASSUME NEW i \in 1 .. Newest', opened'[i].open PROVE i = Newest' \/ i \in forgotten'
      BY <2>2, <2>3
    <3>1. CASE i = Newest'
      BY <3>1
    <3>2. CASE i # Newest'
      <4>1. i \in 1 .. Newest /\ opened[i].open
        BY <1>n, <2>1, <3>2
      <4> QED
        BY <1>t, <1>8, <2>2, <4>1 DEF Open, history
    <3> QED
      BY <3>1, <3>2
  <2>6. Detached' /\ LiveIsSaved' /\ BoundIsSelected' /\ ObserverIsCurrent'
    BY <2>2, <2>3
  <2> QED
    BY <2>4, <2>5, <2>6
<1>9. CASE Inspect
  BY <1>t, <1>9 DEF Inspect, NoObserver, TypeOK, database, history, Newest
<1>10. CASE StoreInterface
  <2>1. /\ gateway' = [gateway EXCEPT !.iface = Newest] /\ gateway.iface = 0 /\ ~gateway.connected
        /\ passive' = passive /\ passive = NoObserver /\ opened' = opened
        /\ work' = [work EXCEPT !.op = "connect"] /\ work.op = "store"
    BY <1>t, <1>10 DEF StoreInterface
  <2>2. /\ work'.op = "connect" /\ work'.config = work.config /\ ~passive.listening
        /\ gateway'.iface = Newest /\ ~gateway'.connected /\ Newest' = Newest
    BY <1>t, <2>1 DEF NoObserver, TypeOK, history, Newest
  <2>3. Newest > 0 /\ opened[Newest].config = work.config
    BY <1>t, <2>1
  <2>4. WorkOK'
    BY <2>1, <2>2, <2>3
  <2>5. GatewayOK'
    <3>1. \A i \in 1 .. Newest : opened[i].open => i = Newest \/ i \in forgotten
      BY <1>n, <1>t, <2>1
    <3>2. opened[Newest].open
      BY <1>t, <2>1
    <3> QED
      BY <1>10, <2>1, <2>2, <3>1, <3>2 DEF StoreInterface, history
  <2>6. Detached' /\ LiveIsSaved' /\ BoundIsSelected' /\ ObserverIsCurrent'
    BY <2>1, <2>2
  <2> QED
    BY <2>4, <2>5, <2>6
<1>11. CASE SetConnected
  BY <1>t, <1>11 DEF SetConnected, NoObserver, TypeOK, database, history, Newest
<1>12. CASE SaveDiscovery
  <2>1. /\ gateway.iface = Newest /\ opened[Newest].config = work.config /\ Newest > 0
        /\ passive = NoObserver /\ ~passive.listening
        /\ UNCHANGED <<opened, gateway, passive, selection, forgotten>> /\ Newest' = Newest
    BY <1>t, <1>12 DEF SaveDiscovery, NoObserver, Newest
  <2>2. /\ snapshot'.node = opened[Newest].node
        /\ \/ saved' = [config |-> work.config, node |-> opened[Newest].node]
           \/ Newest \in unsaved'
    BY <1>12 DEF SaveDiscovery
  <2>3. \/ work' = NoWork
        \/ /\ work'.op = "bind" /\ work'.target \in {NoSelection, selection}
           /\ step'["request"] = "look"
    BY <1>t, <1>12 DEF SaveDiscovery, Bind, EndRequest, Step, Thread, TypeOK
  <2>4. LiveIsSaved'
    BY <2>1, <2>2
  <2>5. WorkOK' /\ GatewayOK'
    BY <1>t, <2>1, <2>3, <1>12 DEF NoWork, SaveDiscovery
  <2> QED
    BY <1>t, <2>1, <2>3, <2>4, <2>5 DEF NoWork
<1>13. CASE DiscoverFails
  <2>1. /\ work' = [work EXCEPT !.op = "failed"] /\ UNCHANGED <<passive, step, selection, saved, snapshot>>
        /\ work.op \in {"close", "open", "inspect"} /\ work'.op = "failed"
    BY <1>t, <1>13 DEF DiscoverFails, CloseFails, CloseRaised, OpenFails, InspectFails, database, TypeOK
  <2>2. passive = NoObserver /\ ~passive.listening
    BY <1>t, <2>1 DEF NoObserver
  <2>3. gateway'.iface = 0 /\ ~gateway'.connected
    <3>1. CASE CloseFails
      BY <3>1 DEF CloseFails, NoGateway
    <3>2. CASE OpenFails \/ InspectFails
      BY <1>t, <3>2 DEF OpenFails, InspectFails
    <3> QED
      BY <1>t, <1>13, <3>1, <3>2 DEF DiscoverFails, CloseRaised
  <2>4. Newest' = Newest /\ \A j \in 1 .. Newest : opened'[j].open => j \in forgotten'
    <3>1. CASE CloseFails
      <4>1. gateway.iface \in 1 .. Newest
        BY <1>t, <1>n, <3>1 DEF CloseFails, TypeOK
      <4> QED
        BY <1>t, <2>1, <3>1, <4>1, CloseMayRaiseOpened DEF CloseFails
    <3>2. CASE InspectFails
      <4>1. Newest \in 1 .. Newest
        BY <1>t, <1>n, <3>2 DEF InspectFails
      <4> QED
        BY <1>t, <1>n, <3>2, <4>1, CloseMayRaiseOpened DEF InspectFails
    <3>3. CASE OpenFails
      BY <1>t, <1>n, <3>3 DEF OpenFails, Newest
    <3> QED
      BY <1>t, <1>13, <3>1, <3>2, <3>3 DEF DiscoverFails, CloseRaised
  <2> QED
    BY <2>1, <2>2, <2>3, <2>4
<1>24. CASE SaveFailure
  <2>1. /\ gateway.iface = 0 /\ ~gateway.connected /\ work.op = "failed"
        /\ passive = NoObserver /\ ~passive.listening
        /\ UNCHANGED <<opened, gateway, passive, selection, forgotten>> /\ Newest' = Newest
    BY <1>t, <1>24 DEF SaveFailure, NoObserver, history, Newest
  <2>2. \/ work' = NoWork
        \/ /\ work'.op = "bind" /\ work'.target = NoSelection
           /\ step'["request"] = "look"
    BY <1>t, <1>24 DEF SaveFailure, Bind, EndRequest, Step, Thread, TypeOK
  <2> QED
    BY <1>t, <2>1, <2>2 DEF NoWork
<1>14. CASE Bound
  BY <1>t, <1>14 DEF Bound, NoWork, NoObserver, TypeOK, database, history, Newest
<1>15. CASE Attach
  BY <1>t, <1>15 DEF Attach, Valid, NoWork, NoObserver, TypeOK, database, history, Newest
<1>16. ASSUME NEW thread \in Thread, Look(thread) PROVE Rest'
  BY <1>t, <1>16 DEF Look, Step, Thread, NoObserver, TypeOK, database, history, Newest
<1>17. ASSUME NEW thread \in Thread, Shut(thread) PROVE Rest'
  BY <1>t, <1>17 DEF Shut, Step, Thread, NoObserver, TypeOK, database, history, Newest
<1>18. ASSUME NEW thread \in Thread, Drop(thread) PROVE Rest'
  BY <1>t, <1>18 DEF Drop, Step, Thread, NoObserver, TypeOK, database, history, Newest
<1>19. CASE Disconnect
  BY <1>t, <1>19 DEF Disconnect, Step, Thread, TypeOK, database, history, Newest
<1>20. ASSUME NEW i \in 1 .. Newest, LoseLink(i) PROVE Rest'
  <2>1. /\ Newest' = Newest
        /\ \A j \in 1 .. Newest : /\ opened'[j].open = opened[j].open
                                  /\ opened'[j].config = opened[j].config /\ opened'[j].node = opened[j].node
    BY <1>t, <1>20, LoseLinkOpened DEF Kept, Newest
  <2> QED
    BY <1>t, <1>n, <1>20, <2>1 DEF LoseLink, NoObserver, TypeOK, database, history
<1>21. ASSUME NEW i \in 1 .. Newest, DeliverLoss(i) PROVE Rest'
  BY <1>t, <1>21 DEF DeliverLoss, Step, Thread, TypeOK, database, history, Newest
<1>22. CASE Restart
  <2>1. Newest' = Newest /\ \A j \in 1 .. Newest : ~opened'[j].open
    BY <1>t, <1>22, RestartOpened DEF Kept, Newest
  <2> QED
    BY <1>t, <1>22, <2>1 DEF Restart, NoGateway, NoWork, NoObserver, Thread, database
<1>23. CASE UNCHANGED vars
  BY <1>t, <1>23 DEF vars, database, history, Newest
<1> QED
  BY <1>2, <1>3, <1>4, <1>5, <1>6, <1>7, <1>8, <1>9, <1>10, <1>11, <1>12, <1>13, <1>14, <1>15, <1>16, <1>17, <1>18, <1>19, <1>20, <1>21, <1>22, <1>23, <1>24
  DEF Next, Discovering, Detaching, Sdk

(* The invariant holds before the first request.                               *)
LEMMA InitInv == Init => Inv
<1> SUFFICES ASSUME Init PROVE Inv
  OBVIOUS
<1>1. Newest = 0 /\ opened \in Seq(Interfaces)
  BY DEF Init, Newest
<1> QED
  BY <1>1 DEF Init, Inv, TypeOK, WorkOK, GatewayOK, Detached, LiveIsSaved, BoundIsSelected,
     ObserverIsCurrent, NoGateway, NoObserver, NoSaved, NoWork, NoSelection, Thread, Finished

(* The invariant is inductive.                                                 *)
LEMMA NextInv == Inv /\ [Next]_vars => Inv'
BY TypeStep, SafetyStep DEF Inv, Rest

(* What the gateway, the observer and the settings are to each other at every  *)
(* step of every request, whenever the SDK's thread interrupts it.             *)
THEOREM Invariance == Spec => []Inv
BY InitInv, NextInv, PTL DEF Spec

(* The attributes hold what the code's types say.                              *)
THEOREM TypeCorrect == Spec => []TypeOK
<1>1. Inv => TypeOK
  BY DEF Inv
<1> QED
  BY <1>1, Invariance, PTL

(* At most one SDK interface is open at a time, whatever fails on the way, but *)
(* for those whose own close() raised (discover closes before it opens, and    *)
(* closes what it cannot inspect).                                             *)
THEOREM AtMostOneOpen == Spec => []OneConnection
<1>1. Inv => OneConnection
  <2> SUFFICES ASSUME Inv PROVE OneConnection
    OBVIOUS
  <2> DEFINE S == {i \in 1 .. Newest : opened[i].open} \ forgotten
  <2>1. PICK x : \A i \in S : i = x
    BY DEF Inv, GatewayOK, WorkOK
  <2>2. S \subseteq {x}
    BY <2>1
  <2>3. IsFiniteSet({x}) /\ Cardinality({x}) = 1
    BY FS_Singleton
  <2>4. Cardinality(S) <= Cardinality({x})
    BY <2>2, <2>3, FS_Subset
  <2> QED
    BY <2>3, <2>4 DEF OneConnection
<1> QED
  BY <1>1, Invariance, PTL

(* The observer listens on the gateway's own open interface, never on one that *)
(* close has let go (observe_channel and close against the SDK's thread).      *)
THEOREM ObserverOnCurrent == Spec => []ObserverIsCurrent
<1>1. Inv => ObserverIsCurrent
  BY DEF Inv
<1> QED
  BY <1>1, Invariance, PTL

(* Between requests what is observed is the saved selection on its own node,   *)
(* though a lost connection may interrupt the rebinding anywhere.              *)
THEOREM ObserverOnSelection == Spec => []ObserverIsBound
<1>1. Inv => ObserverIsBound
  BY DEF Inv, BoundIsSelected, ObserverIsBound, NoWork
<1> QED
  BY <1>1, Invariance, PTL

(* Between requests a connection reported as live is the saved one with the    *)
(* node behind it, unless the database did not take its discovery; the node    *)
(* shown is the one behind it even then (test_connection: any of its writes    *)
(* and reads may fail, and so may discover and close).                         *)
THEOREM LiveConnectionIsSaved == Spec => []SavedIsLive
<1>1. Inv => SavedIsLive
  BY DEF Inv, LiveIsSaved, SavedIsLive, NoWork
<1> QED
  BY <1>1, Invariance, PTL

(* In discover's close, observe_channel never raises: its detaching, the second *)
(* of a request, finds nothing left to detach, whatever the loss handler does   *)
(* meanwhile (close against the handler's None.close()). What the SDK's own     *)
(* close() raises is CloseFails.                                                *)
THEOREM DetachingInCloseEnds == Spec => [](work.op = "close" => step["request"] # "raised")
<1>1. Inv => (work.op = "close" => step["request"] # "raised")
  BY DEF Inv, Detached
<1> QED
  BY <1>1, Invariance, PTL
==============================================================================
