---------------------------- MODULE RepairProofs ----------------------------
(* The bookkeeping of requests in SyncNodes: what a WANT in an outbox and a    *)
(* row of repair_requests stand for.                                           *)
EXTENDS SyncNodesProofs

------------------------------------------------------------------------------
(* Frames that some part of the system still has.                              *)

InUse(f) ==
    \/ f \in net
    \/ \E n \in Node :
           \/ f \in outbox[n] \cup Due(n)
           \/ handler[n] # Idle /\ f = handler[n].frame

\* The frames that the actions make.
InventoryFrame(n) ==
    Frame("SYNC", FreshId(n), n, app[n].peer, Page(app[n].refs, SyncPage, app[n].page),
          app[n].page = 0)

WantFrame(n) ==
    Frame("WANT", FreshId(n), n, handler[n].frame.src, Page(handler[n].todo, WantPage, 0), FALSE)

ReplyFrame(n) ==
    Frame("SYNC", ResponseId(handler[n].frame.id, handler[n].page), n, handler[n].frame.src,
          Page(handler[n].todo, SyncPage, handler[n].page), FALSE)

Born(f) ==
    \E n \in Node :
        \/ \E p \in Post, peer \in Node \ {n} : PublishPost(n, p, peer) /\ f = ObjectFrame(p, n, peer)
        \/ QueueInventoryPage(n) /\ f = InventoryFrame(n)
        \/ QueueWantPage(n) /\ f = WantFrame(n)
        \/ QueueReplyPage(n) /\ f = ReplyFrame(n)
        \/ \E o \in Object : QueueObject(n, o) /\ f = ObjectFrame(o, n, handler[n].frame.src)
        \/ Acknowledge(n) /\ f = AckOf(handler[n].frame)

------------------------------------------------------------------------------
(* The invariant, for any number of nodes.                                     *)

\* Inventories name what their sender holds: in frames, in calls and in replies.
InventoriesHeld ==
    /\ \A f : InUse(f) /\ f.type = "SYNC" => f.refs \subseteq store[f.src]
    /\ \A n \in Node : app[n].op = "inventory" => app[n].refs \subseteq store[n]
    /\ \A n \in Node : handler[n].stage = "reply" => handler[n].todo \subseteq store[n]

\* What a callback is about to ask for is at the peer, is not here, and has not
\* been asked for.
WantsPending ==
    \A n \in Node : handler[n].stage = "wants" =>
        \A o \in handler[n].todo :
            /\ o \in store[handler[n].frame.src]
            /\ o \notin store[n]
            /\ <<handler[n].frame.src, o>> \notin repair[n]

\* While a WANT is queued its objects are here, or their requests are on record.
WantsRecorded ==
    \A n \in Node : \A w \in outbox[n] : w.type = "WANT" =>
        \A o \in w.refs : o \in store[n] \/ <<w.dst, o>> \in repair[n]

BookInv == Inv /\ InventoriesHeld /\ WantsPending /\ WantsRecorded /\ RequestsNotDuplicated

------------------------------------------------------------------------------
(* The invariant for two nodes.                                                *)

TwoNodes == \A l, m, n \in Node : l = m \/ m = n \/ l = n

Settled(n, o) == o \in store[n] /\ \A r \in repair[n] : r[2] # o

\* What n asked m for is settled, or m has queued it for n.
Served(n, m, o) == Settled(n, o) \/ ObjectFrame(o, m, n) \in outbox[m]

\* Frames go to others; serial numbers have been drawn; the identifier of a WANT
\* is a fresh one of its sender; the frame of an object has nothing else in it.
Numbered(f) ==
    /\ f.src # f.dst
    /\ f.type \in {"SYNC", "WANT"} => f.id.serial < mint[f.id.origin]
    /\ f.type = "WANT" => f.id.page = 0
    /\ f.type \in {"THREAD", "SYNC_POST"} => f = ObjectFrame(f.id, f.src, f.dst)

FramesNumbered ==
    /\ \A f : InUse(f) => Numbered(f)
    /\ \A n \in Node : app[n].op = "inventory" => app[n].peer # n
    /\ \A n \in Node : \A id \in received[n] \cap ControlId : id.serial < mint[id.origin]

\* No two frames share the identifier of a WANT.
WantsUnique ==
    \A f, g : InUse(f) /\ InUse(g) /\ f.type = "WANT" /\ g.type \in {"SYNC", "WANT"} /\ f.id = g.id
        => f = g

\* An object that is acknowledged, or about to be, is settled.
AcksSettled ==
    /\ \A f \in net : f.type = "COMMIT_ACK" /\ f.id \in Object => Settled(f.src, f.id)
    /\ \A n \in Node : handler[n].stage = "ack" /\ handler[n].frame.id \in Object
           => Settled(n, handler[n].frame.id)

\* The references of a WANT that its callback has passed are served.
PassedServed ==
    \A n \in Node : handler[n] # Idle /\ handler[n].frame.type = "WANT" =>
        /\ handler[n].stage = "objects" =>
               \A o \in handler[n].frame.refs \ handler[n].todo : Served(handler[n].frame.src, n, o)
        /\ handler[n].stage = "record" =>
               \A o \in handler[n].frame.refs : Served(handler[n].frame.src, n, o)

WantsServed ==
    \A n \in Node : \A w \in outbox[n] :
        (w.type = "WANT" /\ w.id \in received[w.dst]) => \A o \in w.refs : Served(n, w.dst, o)

RepairInv ==
    BookInv /\ FramesNumbered /\ WantsUnique /\ AcksSettled /\ PassedServed /\ WantsServed
        /\ RepairIsCarried

------------------------------------------------------------------------------
(* Which actions write a table of n, or its callback.                          *)

WritesStore(n) ==
    \/ \E t \in Thread : CreateThread(n, t)
    \/ \E p \in Post : CreatePost(n, p)
    \/ \E p \in Post, peer \in Node \ {n} : PublishPost(n, p, peer)
    \/ \E f \in net : ReceiveThread(n, f) \/ ReceiveSyncPost(n, f)

WritesOutbox(n) ==
    \/ \E p \in Post, peer \in Node \ {n} : PublishPost(n, p, peer)
    \/ QueueInventoryPage(n)
    \/ \E f \in net : ReceiveAck(n, f)
    \/ QueueWantPage(n)
    \/ QueueReplyPage(n)
    \/ \E o \in Object : QueueObject(n, o)

WritesReceived(n) == (\E f \in net : ReceiveThread(n, f) \/ ReceiveSyncPost(n, f)) \/ RecordControl(n)

WritesRepair(n) == QueueWantPage(n) \/ ResolveRepair(n)

WritesHandler(n) ==
    \/ \E f \in net : \/ ReceiveThread(n, f) \/ ReceiveSyncPost(n, f) \/ ReceiveEarlyPost(n, f)
                      \/ ReceiveInventory(n, f) \/ ReceiveWant(n, f)
    \/ QueueWantPage(n) \/ QueueReplyPage(n) \/ \E o \in Object : QueueObject(n, o)
    \/ RecordControl(n) \/ ResolveRepair(n)
    \/ handler'[n] = Idle

WritesApp(n) ==
    \/ \E peer \in Node \ {n} : RequestSync(n, peer)
    \/ QueueInventoryPage(n)
    \/ FlushBegin(n)
    \/ \E e \in Due(n) : FlushEntry(n, e)
    \/ app'[n] = Free

WritesMint(n) == QueueInventoryPage(n) \/ QueueWantPage(n)

WritesNet ==
    \/ net' \subseteq net
    \/ \E m \in Node : (\E e \in Due(m) : FlushEntry(m, e)) \/ Acknowledge(m)

(* A table of n, and n's callback and call, is as it was unless one of the   *)
(* actions that write it took the step.                                      *)
LEMMA Writers ==
    ASSUME TypeOK, [Next]_vars, NEW n \in Node
    PROVE  /\ store'[n] = store[n] \/ WritesStore(n)
           /\ outbox'[n] = outbox[n] \/ WritesOutbox(n)
           /\ received'[n] = received[n] \/ WritesReceived(n)
           /\ repair'[n] = repair[n] \/ WritesRepair(n)
           /\ handler'[n] = handler[n] \/ WritesHandler(n)
           /\ app'[n] = app[n] \/ WritesApp(n)
           /\ mint'[n] = mint[n] \/ WritesMint(n)
           /\ WritesNet
<1> DEFINE Goal == /\ store'[n] = store[n] \/ WritesStore(n)
                   /\ outbox'[n] = outbox[n] \/ WritesOutbox(n)
                   /\ received'[n] = received[n] \/ WritesReceived(n)
                   /\ repair'[n] = repair[n] \/ WritesRepair(n)
                   /\ handler'[n] = handler[n] \/ WritesHandler(n)
                   /\ app'[n] = app[n] \/ WritesApp(n)
                   /\ mint'[n] = mint[n] \/ WritesMint(n)
                   /\ WritesNet
<1>1. ASSUME NEW m \in Node, NEW t \in Thread, CreateThread(m, t) PROVE Goal
  <2>1. UNCHANGED <<outbox, received, repair, handler, app, mint, net>>
    BY <1>1 DEF CreateThread
  <2>2. m # n => store'[n] = store[n]
    BY <1>1 DEF CreateThread, TypeOK
  <2>3. m = n => WritesStore(n)
    BY <1>1, Zenon DEF WritesStore
  <2> QED
    BY <2>1, <2>2, <2>3 DEF WritesNet
<1>2. ASSUME NEW m \in Node, NEW p \in Post, CreatePost(m, p) PROVE Goal
  <2>1. UNCHANGED <<outbox, received, repair, handler, app, mint, net>>
    BY <1>2 DEF CreatePost
  <2>2. m # n => store'[n] = store[n]
    BY <1>2 DEF CreatePost, TypeOK
  <2>3. m = n => WritesStore(n)
    BY <1>2, Zenon DEF WritesStore
  <2> QED
    BY <2>1, <2>2, <2>3 DEF WritesNet
<1>3. ASSUME NEW m \in Node, NEW p \in Post, NEW peer \in Node \ {m}, PublishPost(m, p, peer) PROVE Goal
  <2>1. UNCHANGED <<received, repair, handler, app, mint, net>>
    BY <1>3 DEF PublishPost
  <2>2. m # n => store'[n] = store[n] /\ outbox'[n] = outbox[n]
    BY <1>3 DEF PublishPost, TypeOK
  <2>3. m = n => WritesStore(n) /\ WritesOutbox(n)
    BY <1>3, Zenon DEF WritesStore, WritesOutbox
  <2> QED
    BY <2>1, <2>2, <2>3 DEF WritesNet
<1>4. ASSUME NEW m \in Node, NEW peer \in Node \ {m}, RequestSync(m, peer) PROVE Goal
  <2>1. UNCHANGED <<store, outbox, received, repair, handler, mint, net>>
    BY <1>4 DEF RequestSync, durable
  <2>2. m # n => app'[n] = app[n]
    BY <1>4 DEF RequestSync, TypeOK
  <2>3. m = n => WritesApp(n)
    BY <1>4, Zenon DEF WritesApp
  <2> QED
    BY <2>1, <2>2, <2>3 DEF WritesNet
<1>5. ASSUME NEW m \in Node, QueueInventoryPage(m) PROVE Goal
  <2>1. UNCHANGED <<store, received, repair, handler, net>>
    BY <1>5 DEF QueueInventoryPage
  <2>2. m # n => outbox'[n] = outbox[n] /\ app'[n] = app[n] /\ mint'[n] = mint[n]
    BY <1>5 DEF QueueInventoryPage, TypeOK
  <2>3. m = n => WritesOutbox(n) /\ WritesApp(n) /\ WritesMint(n)
    BY <1>5, Zenon DEF WritesOutbox, WritesApp, WritesMint
  <2> QED
    BY <2>1, <2>2, <2>3 DEF WritesNet
<1>6. ASSUME NEW m \in Node, FlushBegin(m) PROVE Goal
  <2>1. UNCHANGED <<store, outbox, received, repair, handler, mint, net>>
    BY <1>6 DEF FlushBegin, durable
  <2>2. m # n => app'[n] = app[n]
    BY <1>6 DEF FlushBegin, TypeOK
  <2>3. m = n => WritesApp(n)
    BY <1>6, Zenon DEF WritesApp
  <2> QED
    BY <2>1, <2>2, <2>3 DEF WritesNet
<1>7. ASSUME NEW m \in Node, NEW e \in Due(m), FlushEntry(m, e) PROVE Goal
  <2>1. UNCHANGED <<store, outbox, received, repair, handler, mint>>
    BY <1>7 DEF FlushEntry, durable
  <2>2. m # n => app'[n] = app[n]
    BY <1>7 DEF FlushEntry, TypeOK
  <2>3. m = n => WritesApp(n)
    BY <1>7, Zenon DEF WritesApp
  <2>4. WritesNet
    BY <1>7, Zenon DEF WritesNet
  <2> QED
    BY <2>1, <2>2, <2>3, <2>4
<1>8. ASSUME NEW m \in Node, NEW f \in net, ReceiveAck(m, f) PROVE Goal
  <2>1. UNCHANGED <<store, received, repair, handler, app, mint>>
    BY <1>8 DEF ReceiveAck, Deliver
  <2>2. m # n => outbox'[n] = outbox[n]
    BY <1>8 DEF ReceiveAck, TypeOK
  <2>3. m = n => WritesOutbox(n)
    BY <1>8, Zenon DEF WritesOutbox
  <2>4. WritesNet
    BY <1>8 DEF WritesNet, ReceiveAck, Deliver
  <2> QED
    BY <2>1, <2>2, <2>3, <2>4
<1>9. ASSUME NEW m \in Node, NEW f \in net, ReceiveThread(m, f) PROVE Goal
  <2>1. UNCHANGED <<outbox, repair, app, mint>>
    BY <1>9 DEF ReceiveThread, Deliver
  <2>2. m # n => store'[n] = store[n] /\ received'[n] = received[n] /\ handler'[n] = handler[n]
    BY <1>9 DEF ReceiveThread, TypeOK, Commit
  <2>3. m = n => WritesStore(n) /\ WritesReceived(n) /\ WritesHandler(n)
    BY <1>9, Zenon DEF WritesStore, WritesReceived, WritesHandler
  <2>4. WritesNet
    BY <1>9 DEF WritesNet, ReceiveThread, Deliver
  <2> QED
    BY <2>1, <2>2, <2>3, <2>4
<1>10. ASSUME NEW m \in Node, NEW f \in net, ReceiveSyncPost(m, f) PROVE Goal
  <2>1. UNCHANGED <<outbox, repair, app, mint>>
    BY <1>10 DEF ReceiveSyncPost, Deliver
  <2>2. m # n => store'[n] = store[n] /\ received'[n] = received[n] /\ handler'[n] = handler[n]
    BY <1>10 DEF ReceiveSyncPost, TypeOK, Commit
  <2>3. m = n => WritesStore(n) /\ WritesReceived(n) /\ WritesHandler(n)
    BY <1>10, Zenon DEF WritesStore, WritesReceived, WritesHandler
  <2>4. WritesNet
    BY <1>10 DEF WritesNet, ReceiveSyncPost, Deliver
  <2> QED
    BY <2>1, <2>2, <2>3, <2>4
<1>11. ASSUME NEW m \in Node, NEW f \in net, ReceiveEarlyPost(m, f) PROVE Goal
  <2>1. UNCHANGED <<store, outbox, received, repair, app, mint>>
    BY <1>11 DEF ReceiveEarlyPost, Deliver, durable
  <2>2. m # n => handler'[n] = handler[n]
    BY <1>11 DEF ReceiveEarlyPost, TypeOK
  <2>3. m = n => WritesHandler(n)
    BY <1>11, Zenon DEF WritesHandler
  <2>4. WritesNet
    BY <1>11 DEF WritesNet, ReceiveEarlyPost, Deliver
  <2> QED
    BY <2>1, <2>2, <2>3, <2>4
<1>12. ASSUME NEW m \in Node, NEW f \in net, ReceiveInventory(m, f) PROVE Goal
  <2>1. UNCHANGED <<store, outbox, received, repair, app, mint>>
    BY <1>12 DEF ReceiveInventory, Deliver, durable
  <2>2. m # n => handler'[n] = handler[n]
    BY <1>12 DEF ReceiveInventory, TypeOK
  <2>3. m = n => WritesHandler(n)
    BY <1>12, Zenon DEF WritesHandler
  <2>4. WritesNet
    BY <1>12 DEF WritesNet, ReceiveInventory, Deliver
  <2> QED
    BY <2>1, <2>2, <2>3, <2>4
<1>13. ASSUME NEW m \in Node, NEW f \in net, ReceiveWant(m, f) PROVE Goal
  <2>1. UNCHANGED <<store, outbox, received, repair, app, mint>>
    BY <1>13 DEF ReceiveWant, Deliver, durable
  <2>2. m # n => handler'[n] = handler[n]
    BY <1>13 DEF ReceiveWant, TypeOK
  <2>3. m = n => WritesHandler(n)
    BY <1>13, Zenon DEF WritesHandler
  <2>4. WritesNet
    BY <1>13 DEF WritesNet, ReceiveWant, Deliver
  <2> QED
    BY <2>1, <2>2, <2>3, <2>4
<1>14. ASSUME NEW m \in Node, QueueWantPage(m) PROVE Goal
  <2>1. UNCHANGED <<store, received, app, net>>
    BY <1>14 DEF QueueWantPage
  <2>2. m # n => outbox'[n] = outbox[n] /\ repair'[n] = repair[n] /\ handler'[n] = handler[n] /\ mint'[n] = mint[n]
    BY <1>14 DEF QueueWantPage, TypeOK
  <2>3. m = n => WritesOutbox(n) /\ WritesRepair(n) /\ WritesHandler(n) /\ WritesMint(n)
    BY <1>14, Zenon DEF WritesOutbox, WritesRepair, WritesHandler, WritesMint
  <2> QED
    BY <2>1, <2>2, <2>3 DEF WritesNet
<1>15. ASSUME NEW m \in Node, QueueReplyPage(m) PROVE Goal
  <2>1. UNCHANGED <<store, received, repair, app, mint, net>>
    BY <1>15 DEF QueueReplyPage
  <2>2. m # n => outbox'[n] = outbox[n] /\ handler'[n] = handler[n]
    BY <1>15 DEF QueueReplyPage, TypeOK
  <2>3. m = n => WritesOutbox(n) /\ WritesHandler(n)
    BY <1>15, Zenon DEF WritesOutbox, WritesHandler
  <2> QED
    BY <2>1, <2>2, <2>3 DEF WritesNet
<1>16. ASSUME NEW m \in Node, NEW o \in Object, QueueObject(m, o) PROVE Goal
  <2>1. UNCHANGED <<store, received, repair, app, mint, net>>
    BY <1>16 DEF QueueObject
  <2>2. m # n => outbox'[n] = outbox[n] /\ handler'[n] = handler[n]
    BY <1>16 DEF QueueObject, TypeOK
  <2>3. m = n => WritesOutbox(n) /\ WritesHandler(n)
    BY <1>16, Zenon DEF WritesOutbox, WritesHandler
  <2> QED
    BY <2>1, <2>2, <2>3 DEF WritesNet
<1>17. ASSUME NEW m \in Node, NEW o \in Object, AbandonWant(m, o) PROVE Goal
  <2>1. UNCHANGED <<store, outbox, received, repair, app, mint, net>>
    BY <1>17 DEF AbandonWant, durable
  <2>2. m # n => handler'[n] = handler[n]
    BY <1>17 DEF AbandonWant, TypeOK
  <2>3. m = n => handler'[n] = Idle
    BY <1>17 DEF AbandonWant, TypeOK
  <2> QED
    BY <2>1, <2>2, <2>3 DEF WritesHandler, WritesNet
<1>18. ASSUME NEW m \in Node, RecordControl(m) PROVE Goal
  <2>1. UNCHANGED <<store, outbox, repair, app, mint, net>>
    BY <1>18 DEF RecordControl
  <2>2. m # n => received'[n] = received[n] /\ handler'[n] = handler[n]
    BY <1>18 DEF RecordControl, TypeOK
  <2>3. m = n => WritesReceived(n) /\ WritesHandler(n)
    BY <1>18, Zenon DEF WritesReceived, WritesHandler
  <2> QED
    BY <2>1, <2>2, <2>3 DEF WritesNet
<1>19. ASSUME NEW m \in Node, ResolveRepair(m) PROVE Goal
  <2>1. UNCHANGED <<store, outbox, received, app, mint, net>>
    BY <1>19 DEF ResolveRepair
  <2>2. m # n => repair'[n] = repair[n] /\ handler'[n] = handler[n]
    BY <1>19 DEF ResolveRepair, TypeOK
  <2>3. m = n => WritesRepair(n) /\ WritesHandler(n)
    BY <1>19, Zenon DEF WritesRepair, WritesHandler
  <2> QED
    BY <2>1, <2>2, <2>3 DEF WritesNet
<1>20. ASSUME NEW m \in Node, Acknowledge(m) PROVE Goal
  <2>1. UNCHANGED <<store, outbox, received, repair, app, mint>>
    BY <1>20 DEF Acknowledge, durable
  <2>2. m # n => handler'[n] = handler[n]
    BY <1>20 DEF Acknowledge, TypeOK
  <2>3. m = n => handler'[n] = Idle
    BY <1>20 DEF Acknowledge, TypeOK
  <2>4. WritesNet
    BY <1>20, Zenon DEF WritesNet
  <2> QED
    BY <2>1, <2>2, <2>3, <2>4 DEF WritesHandler
<1>21. ASSUME NEW f \in net, Lose(f) PROVE Goal
  <2>1. UNCHANGED <<store, outbox, received, repair, handler, app, mint>>
    BY <1>21 DEF Lose, durable
  <2>4. WritesNet
    BY <1>21 DEF WritesNet, Lose
  <2> QED
    BY <2>1, <2>4
<1>22. ASSUME NEW m \in Node, Crash(m) PROVE Goal
  <2>1. UNCHANGED <<store, outbox, received, repair, mint, net>>
    BY <1>22 DEF Crash, durable
  <2>2. m # n => handler'[n] = handler[n] /\ app'[n] = app[n]
    BY <1>22 DEF Crash, TypeOK
  <2>3. m = n => handler'[n] = Idle /\ app'[n] = Free
    BY <1>22 DEF Crash, TypeOK
  <2> QED
    BY <2>1, <2>2, <2>3 DEF WritesHandler, WritesApp, WritesNet
<1>23. CASE UNCHANGED vars
  BY <1>23 DEF vars, WritesNet
<1> QED
  BY <1>1, <1>2, <1>3, <1>4, <1>5, <1>6, <1>7, <1>8, <1>9, <1>10, <1>11, <1>12, <1>13, <1>14, <1>15, <1>16, <1>17, <1>18, <1>19, <1>20, <1>21, <1>22, <1>23 DEF Next, User, Flush, Receive, Handle

------------------------------------------------------------------------------
(* Where the frames of the next state come from.                               *)

(* The types of the frames that actions make.                                *)
LEMMA BornShape ==
    ASSUME Inv, NEW n \in Node
    PROVE  /\ QueueInventoryPage(n) => InventoryFrame(n).type = "SYNC"
           /\ QueueWantPage(n) => WantFrame(n).type = "WANT"
           /\ QueueReplyPage(n) => ReplyFrame(n).type = "SYNC"
           /\ \A o, m : ObjectFrame(o, n, m).type \in {"THREAD", "SYNC_POST"}
           /\ AckOf(handler[n].frame).type = "COMMIT_ACK"
BY DEF InventoryFrame, WantFrame, ReplyFrame, ObjectFrame, AckOf, Frame

(* A new row of an outbox is the frame of the action that queued it.         *)
LEMMA OutboxSources ==
    ASSUME Inv, [Next]_vars, NEW n \in Node, NEW f \in outbox'[n], f \notin outbox[n]
    PROVE  \/ \E p \in Post, peer \in Node \ {n} :
                  PublishPost(n, p, peer) /\ f = ObjectFrame(p, n, peer)
           \/ QueueInventoryPage(n) /\ f = InventoryFrame(n)
           \/ QueueWantPage(n) /\ f = WantFrame(n)
           \/ QueueReplyPage(n) /\ f = ReplyFrame(n)
           \/ \E o \in Object : QueueObject(n, o) /\ f = ObjectFrame(o, n, handler[n].frame.src)
<1>t. TypeOK
  BY DEF Inv
<1>w. WritesOutbox(n)
  BY <1>t, Writers
<1>1. ASSUME NEW p \in Post, NEW peer \in Node \ {n}, PublishPost(n, p, peer)
      PROVE  f = ObjectFrame(p, n, peer)
  BY <1>t, <1>1 DEF PublishPost, TypeOK
<1>2. CASE QueueInventoryPage(n)
  BY <1>t, <1>2 DEF QueueInventoryPage, QueueFrame, InventoryFrame, TypeOK
<1>3. ASSUME NEW g \in net, ReceiveAck(n, g) PROVE FALSE
  BY <1>t, <1>3 DEF ReceiveAck, TypeOK
<1>4. CASE QueueWantPage(n)
  BY <1>t, <1>4 DEF QueueWantPage, WantFrame, TypeOK
<1>5. CASE QueueReplyPage(n)
  BY <1>t, <1>5 DEF QueueReplyPage, QueueFrame, ReplyFrame, TypeOK
<1>6. ASSUME NEW o \in Object, QueueObject(n, o)
      PROVE  f = ObjectFrame(o, n, handler[n].frame.src)
  BY <1>t, <1>6 DEF QueueObject, QueueFrame, TypeOK
<1> QED
  BY <1>w, <1>1, <1>2, <1>3, <1>4, <1>5, <1>6 DEF WritesOutbox

(* A flush works from the outbox it read.                                    *)
LEMMA DueSources ==
    ASSUME Inv, [Next]_vars, NEW n \in Node
    PROVE  Due(n)' \subseteq Due(n) \cup outbox[n]
<1>t. TypeOK
  BY DEF Inv
<1>1. CASE app'[n] = app[n]
  BY <1>1 DEF Due
<1>2. ASSUME NEW peer \in Node \ {n}, RequestSync(n, peer) PROVE Due(n)' = {}
  BY <1>t, <1>2 DEF RequestSync, TypeOK, Due
<1>3. CASE QueueInventoryPage(n)
  BY <1>t, <1>3 DEF QueueInventoryPage, TypeOK, Due, Free
<1>4. CASE FlushBegin(n)
  BY <1>t, <1>4 DEF FlushBegin, TypeOK, Due, Flushing
<1>5. ASSUME NEW e \in Due(n), FlushEntry(n, e) PROVE Due(n)' \subseteq Due(n)
  BY <1>t, <1>5 DEF FlushEntry, TypeOK, Due, Flushing, Free
<1>6. CASE app'[n] = Free
  BY <1>6 DEF Due, Free
<1> QED
  BY <1>t, Writers, <1>1, <1>2, <1>3, <1>4, <1>5, <1>6 DEF WritesApp

(* A callback handles the frame it began with, which the air delivered.      *)
LEMMA HandlerSources ==
    ASSUME Inv, [Next]_vars, NEW n \in Node, handler'[n] # Idle
    PROVE  \/ handler'[n].frame \in net
           \/ handler[n] # Idle /\ handler'[n].frame = handler[n].frame
<1>t. TypeOK
  BY DEF Inv
<1>1. CASE handler'[n] = handler[n]
  BY <1>1
<1>2. ASSUME NEW f \in net,
             \/ ReceiveThread(n, f) \/ ReceiveSyncPost(n, f) \/ ReceiveEarlyPost(n, f)
             \/ ReceiveInventory(n, f) \/ ReceiveWant(n, f)
      PROVE  handler'[n].frame \in net
  <2>1. CASE ReceiveThread(n, f) \/ ReceiveSyncPost(n, f)
    BY <1>t, <2>1 DEF ReceiveThread, ReceiveSyncPost, TypeOK, Handling
  <2>2. CASE ReceiveEarlyPost(n, f)
    BY <1>t, <2>2 DEF ReceiveEarlyPost, QueueWants, AfterWants, TypeOK, Handling
  <2>3. CASE ReceiveInventory(n, f)
    BY <1>t, <2>3 DEF ReceiveInventory, FirstSight, QueueWants, AfterWants, TypeOK, Handling
  <2>4. CASE ReceiveWant(n, f)
    BY <1>t, <2>4 DEF ReceiveWant, FirstSight, TypeOK, Handling
  <2> QED
    BY <1>2, <2>1, <2>2, <2>3, <2>4
<1>3. CASE QueueWantPage(n)
  <2>1. handler[n] \in Jobs /\ handler[n] # Idle
    BY <1>t, <1>3, BusyType DEF QueueWantPage, Stages
  <2> QED
    BY <1>t, <1>3, <2>1 DEF QueueWantPage, AfterWants, TypeOK, Handling, Jobs
<1>4. CASE QueueReplyPage(n)
  <2>1. handler[n] \in Jobs /\ handler[n] # Idle
    BY <1>t, <1>4, BusyType DEF QueueReplyPage, Stages
  <2> QED
    BY <1>t, <1>4, <2>1 DEF QueueReplyPage, TypeOK, Handling, Jobs
<1>5. ASSUME NEW o \in Object, QueueObject(n, o)
      PROVE  handler[n] # Idle /\ handler'[n].frame = handler[n].frame
  <2>1. handler[n] \in Jobs /\ handler[n] # Idle
    BY <1>t, <1>5, BusyType DEF QueueObject, Stages
  <2> QED
    BY <1>t, <1>5, <2>1 DEF QueueObject, TypeOK, Handling, Jobs
<1>6. CASE RecordControl(n) \/ ResolveRepair(n)
  <2>1. handler[n] \in Jobs /\ handler[n] # Idle
    BY <1>t, <1>6, BusyType DEF RecordControl, ResolveRepair, Stages
  <2> QED
    BY <1>t, <1>6, <2>1 DEF RecordControl, ResolveRepair, TypeOK, Handling, Jobs
<1> QED
  BY <1>t, Writers, <1>1, <1>2, <1>3, <1>4, <1>5, <1>6 DEF WritesHandler

(* Every frame in use was in use before, or an action has just made it.      *)
LEMMA FrameSources ==
    ASSUME Inv, [Next]_vars, NEW f, InUse(f)'
    PROVE  InUse(f) \/ Born(f)
<1>t. TypeOK
  BY DEF Inv
<1>1. CASE f \in net'
  <2>1. PICK n \in Node : TRUE
    BY <1>1 DEF Next, Inv, FramesOK, FrameOK, Frames, vars
  <2>2. WritesNet
    BY <1>t, <2>1, Writers
  <2>3. ASSUME NEW m \in Node, NEW e \in Due(m), FlushEntry(m, e), f \notin net PROVE f \in Due(m)
    BY <1>1, <2>3 DEF FlushEntry, Sent
  <2>4. ASSUME NEW m \in Node, Acknowledge(m), f \notin net PROVE f = AckOf(handler[m].frame)
    BY <1>1, <2>4 DEF Acknowledge, Sent
  <2> QED
    BY <1>1, <2>2, <2>3, <2>4 DEF WritesNet, InUse, Born
<1>2. ASSUME NEW n \in Node, f \in outbox'[n] PROVE InUse(f) \/ Born(f)
  BY <1>2, OutboxSources DEF InUse, Born
<1>3. ASSUME NEW n \in Node, f \in Due(n)' PROVE InUse(f)
  BY <1>3, DueSources DEF InUse
<1>4. ASSUME NEW n \in Node, handler'[n] # Idle, f = handler'[n].frame PROVE InUse(f)
  BY <1>4, HandlerSources DEF InUse
<1> QED
  BY <1>1, <1>2, <1>3, <1>4 DEF InUse

------------------------------------------------------------------------------
(* Requests are not duplicated.                                                *)

(* Frames in use are well formed, wherever they are.                         *)
LEMMA InUseOK ==
    ASSUME Inv, NEW f, InUse(f)
    PROVE  FrameOK(f) /\ f \in Frames /\ f.src \in Node /\ f.dst \in Node
<1>1. FrameOK(f)
  BY DEF Inv, FramesOK, HandlerOK, JobOK, InUse
<1> QED
  BY <1>1 DEF FrameOK, Frames

(* The types of a callback's parts.                                          *)
LEMMA BusyFrame ==
    ASSUME Inv, NEW n \in Node, handler[n].stage \in Stages
    PROVE  /\ handler[n] \in Jobs /\ handler[n] # Idle /\ JobOK(n, handler[n])
           /\ handler[n].frame \in Frames /\ handler[n].frame.src \in Node
           /\ handler[n].todo \subseteq Object /\ handler[n].page \in Nat
BY BusyType DEF Inv, HandlerOK, Jobs, Frames

(* The two stages that carry objects of a database or of an inventory.         *)
LEMMA ReplySources ==
    ASSUME Inv, [Next]_vars, NEW n \in Node, handler'[n].stage = "reply"
    PROVE  \/ handler'[n].todo = store[n]
           \/ handler[n].stage = "reply" /\ handler'[n].todo = handler[n].todo
<1>t. TypeOK
  BY DEF Inv
<1>1. CASE handler'[n] = handler[n]
  BY <1>1
<1>2. ASSUME NEW f \in net,
             \/ ReceiveThread(n, f) \/ ReceiveSyncPost(n, f) \/ ReceiveEarlyPost(n, f)
             \/ ReceiveInventory(n, f) \/ ReceiveWant(n, f)
      PROVE  handler'[n].todo = store[n]
  <2>1. CASE ReceiveThread(n, f) \/ ReceiveSyncPost(n, f)
    BY <1>t, <2>1 DEF ReceiveThread, ReceiveSyncPost, TypeOK, Handling
  <2>2. CASE ReceiveEarlyPost(n, f)
    BY <1>t, <2>2 DEF ReceiveEarlyPost, QueueWants, AfterWants, TypeOK, Handling, Idle
  <2>3. CASE ReceiveInventory(n, f)
    BY <1>t, <2>3 DEF ReceiveInventory, FirstSight, QueueWants, AfterWants, TypeOK, Handling, Idle
  <2>4. CASE ReceiveWant(n, f)
    BY <1>t, <2>4 DEF ReceiveWant, FirstSight, TypeOK, Handling
  <2> QED
    BY <1>2, <2>1, <2>2, <2>3, <2>4
<1>3. CASE QueueWantPage(n)
  <2>1. handler[n] \in Jobs /\ handler[n].stage = "wants"
    BY <1>t, <1>3, BusyType DEF QueueWantPage, Stages
  <2> QED
    BY <1>t, <1>3, <2>1 DEF QueueWantPage, AfterWants, TypeOK, Handling, Jobs, Idle
<1>4. CASE QueueReplyPage(n)
  <2>1. handler[n] \in Jobs /\ handler[n].stage = "reply"
    BY <1>t, <1>4, BusyType DEF QueueReplyPage, Stages
  <2> QED
    BY <1>t, <1>4, <2>1 DEF QueueReplyPage, TypeOK, Handling, Jobs
<1>5. ASSUME NEW o \in Object, QueueObject(n, o) PROVE FALSE
  <2>1. handler[n] \in Jobs /\ handler[n].stage = "objects"
    BY <1>t, <1>5, BusyType DEF QueueObject, Stages
  <2> QED
    BY <1>t, <1>5, <2>1 DEF QueueObject, TypeOK, Handling, Jobs
<1>6. CASE RecordControl(n) \/ ResolveRepair(n)
  BY <1>t, <1>6 DEF RecordControl, ResolveRepair, TypeOK, Handling
<1>7. CASE handler'[n] = Idle
  BY <1>7 DEF Idle
<1> QED
  BY <1>t, Writers, <1>1, <1>2, <1>3, <1>4, <1>5, <1>6, <1>7 DEF WritesHandler

(* A callback that is to ask began with an inventory or an early post.       *)
LEMMA WantsSources ==
    ASSUME Inv, [Next]_vars, NEW n \in Node, handler'[n].stage = "wants"
    PROVE  \/ handler'[n] = handler[n] /\ ~QueueWantPage(n)
           \/ /\ QueueWantPage(n)
              /\ handler'[n].frame = handler[n].frame
              /\ handler'[n].todo = handler[n].todo \ Page(handler[n].todo, WantPage, 0)
           \/ \E f \in net :
                  /\ handler'[n].frame = f
                  /\ \/ ReceiveEarlyPost(n, f) /\ handler'[n].todo = Unrequested(n, f.src, {ThreadOf[f.id]})
                     \/ ReceiveInventory(n, f) /\ handler'[n].todo = Unrequested(n, f.src, f.refs \ store[n])
<1>t. TypeOK
  BY DEF Inv
<1>3. CASE QueueWantPage(n)
  <2>1. handler[n] \in Jobs /\ handler[n].stage = "wants"
    BY <1>t, <1>3, BusyType DEF QueueWantPage, Stages
  <2> QED
    BY <1>t, <1>3, <2>1 DEF QueueWantPage, AfterWants, TypeOK, Handling, Jobs, Idle
<1>2. ASSUME NEW f \in net,
             \/ ReceiveThread(n, f) \/ ReceiveSyncPost(n, f) \/ ReceiveEarlyPost(n, f)
             \/ ReceiveInventory(n, f) \/ ReceiveWant(n, f)
      PROVE  /\ handler'[n].frame = f
             /\ \/ ReceiveEarlyPost(n, f) /\ handler'[n].todo = Unrequested(n, f.src, {ThreadOf[f.id]})
                \/ ReceiveInventory(n, f) /\ handler'[n].todo = Unrequested(n, f.src, f.refs \ store[n])
  <2>1. ~ReceiveThread(n, f) /\ ~ReceiveSyncPost(n, f)
    BY <1>t DEF ReceiveThread, ReceiveSyncPost, TypeOK, Handling
  <2>2. CASE ReceiveEarlyPost(n, f)
    BY <1>t, <2>2 DEF ReceiveEarlyPost, QueueWants, AfterWants, TypeOK, Handling, Idle
  <2>3. CASE ReceiveInventory(n, f)
    BY <1>t, <2>3 DEF ReceiveInventory, FirstSight, QueueWants, AfterWants, TypeOK, Handling, Idle
  <2>4. ~ReceiveWant(n, f)
    BY <1>t DEF ReceiveWant, FirstSight, TypeOK, Handling
  <2> QED
    BY <1>2, <2>1, <2>2, <2>3, <2>4
<1>4. ~QueueReplyPage(n)
  <2> SUFFICES ASSUME QueueReplyPage(n) PROVE FALSE
    OBVIOUS
  <2>1. handler[n] \in Jobs /\ handler[n].stage = "reply"
    BY <1>t, BusyType DEF QueueReplyPage, Stages
  <2> QED
    BY <1>t, <2>1 DEF QueueReplyPage, TypeOK, Handling, Jobs
<1>5. ASSUME NEW o \in Object, QueueObject(n, o) PROVE FALSE
  <2>1. handler[n] \in Jobs /\ handler[n].stage = "objects"
    BY <1>t, <1>5, BusyType DEF QueueObject, Stages
  <2> QED
    BY <1>t, <1>5, <2>1 DEF QueueObject, TypeOK, Handling, Jobs
<1>6. ~RecordControl(n) /\ ~ResolveRepair(n) /\ handler'[n] # Idle
  BY <1>t DEF RecordControl, ResolveRepair, TypeOK, Handling, Idle
<1> QED
  BY <1>t, Writers, <1>2, <1>3, <1>4, <1>5, <1>6 DEF WritesHandler

(* What the steps that build inventories start from.                           *)
LEMMA CallSources ==
    ASSUME Inv, [Next]_vars, NEW n \in Node, app'[n].op = "inventory"
    PROVE  \/ app[n].op = "inventory" /\ app'[n].refs = app[n].refs /\ app'[n].peer = app[n].peer
           \/ app'[n].refs = store[n] /\ app'[n].peer # n
<1>t. TypeOK
  BY DEF Inv
<1>1. CASE app'[n] = app[n]
  BY <1>1
<1>2. ASSUME NEW peer \in Node \ {n}, RequestSync(n, peer)
      PROVE  app'[n].refs = store[n] /\ app'[n].peer # n
  BY <1>t, <1>2 DEF RequestSync, TypeOK
<1>3. CASE QueueInventoryPage(n)
  <2>1. app[n] \in [op : {"inventory"}, peer : Node, refs : SUBSET Object, page : Nat]
    BY <1>t, <1>3 DEF QueueInventoryPage, TypeOK, Calls, Free
  <2> QED
    BY <1>t, <1>3, <2>1 DEF QueueInventoryPage, TypeOK, Free
<1>4. ~FlushBegin(n)
  BY <1>t DEF FlushBegin, TypeOK, Flushing
<1>5. ASSUME NEW e \in Due(n), FlushEntry(n, e) PROVE FALSE
  BY <1>t, <1>5 DEF FlushEntry, TypeOK, Flushing, Free
<1>6. app'[n] # Free
  BY DEF Free
<1> QED
  BY <1>t, Writers, <1>1, <1>2, <1>3, <1>4, <1>5, <1>6 DEF WritesApp

(* Inventories keep naming what their senders hold: databases only grow.     *)
LEMMA InventoriesStep == Inv /\ InventoriesHeld /\ [Next]_vars => InventoriesHeld'
<1> SUFFICES ASSUME Inv, InventoriesHeld, [Next]_vars PROVE InventoriesHeld'
  OBVIOUS
<1>t. TypeOK
  BY DEF Inv
<1>g. \A n \in Node : store[n] \subseteq store'[n]
  BY <1>t, Grows
<1>1. ASSUME NEW f, InUse(f)', f.type = "SYNC" PROVE f.refs \subseteq store'[f.src]
  <2>1. CASE InUse(f)
    BY <1>g, <1>1, <2>1, InUseOK DEF InventoriesHeld
  <2>2. ASSUME NEW n \in Node, QueueInventoryPage(n), f = InventoryFrame(n)
        PROVE  f.refs \subseteq store'[f.src]
    <3>1. f.src = n /\ f.refs \subseteq app[n].refs
      BY <2>2, PageType DEF InventoryFrame, Frame
    <3> QED
      BY <1>g, <2>2, <3>1 DEF QueueInventoryPage, InventoriesHeld
  <2>3. ASSUME NEW n \in Node, QueueReplyPage(n), f = ReplyFrame(n)
        PROVE  f.refs \subseteq store'[f.src]
    <3>1. f.src = n /\ f.refs \subseteq handler[n].todo
      BY <2>3, PageType DEF ReplyFrame, Frame
    <3> QED
      BY <1>g, <2>3, <3>1 DEF QueueReplyPage, InventoriesHeld
  <2> QED
    BY <1>1, <2>1, <2>2, <2>3, FrameSources, BornShape DEF Born
<1>2. ASSUME NEW n \in Node, app'[n].op = "inventory" PROVE app'[n].refs \subseteq store'[n]
  BY <1>g, <1>2, CallSources DEF InventoriesHeld
<1>3. ASSUME NEW n \in Node, handler'[n].stage = "reply" PROVE handler'[n].todo \subseteq store'[n]
  BY <1>g, <1>3, ReplySources DEF InventoriesHeld
<1> QED
  BY <1>1, <1>2, <1>3 DEF InventoriesHeld

(* A callback that is to ask for objects stores none, and what the user        *)
(* creates is nobody's yet.                                                    *)
LEMMA PendingStays ==
    ASSUME BookInv, [Next]_vars, NEW n \in Node, NEW o,
           handler[n].stage = "wants", o \in handler[n].todo
    PROVE  /\ o \in store'[handler[n].frame.src]
           /\ o \notin store'[n]
<1>t. TypeOK /\ Inv
  BY DEF BookInv, Inv
<1>f. handler[n] # Idle /\ handler[n].frame.src \in Node
  BY <1>t, BusyFrame DEF Stages
<1>o. o \in store[handler[n].frame.src] /\ o \notin store[n]
  BY DEF BookInv, WantsPending
<1>1. ASSUME NEW t \in Thread, CreateThread(n, t) PROVE o \notin store'[n]
  BY <1>t, <1>f, <1>o, <1>1 DEF CreateThread, New, TypeOK
<1>2. ASSUME NEW p \in Post, CreatePost(n, p) PROVE o \notin store'[n]
  BY <1>t, <1>f, <1>o, <1>2 DEF CreatePost, New, TypeOK
<1>3. ASSUME NEW p \in Post, NEW peer \in Node \ {n}, PublishPost(n, p, peer) PROVE o \notin store'[n]
  BY <1>t, <1>f, <1>o, <1>3 DEF PublishPost, New, TypeOK
<1>4. ASSUME NEW f \in net, ReceiveThread(n, f) \/ ReceiveSyncPost(n, f) PROVE FALSE
  BY <1>f, <1>4 DEF ReceiveThread, ReceiveSyncPost, Deliver
<1> QED
  BY <1>t, <1>f, <1>o, <1>1, <1>2, <1>3, <1>4, Writers, Grows DEF WritesStore

(* Rows of repair_requests go only with their object's arrival.                *)
LEMMA RepairStays ==
    ASSUME Inv, [Next]_vars, NEW n \in Node, NEW peer \in Node, NEW o \in Object,
           <<peer, o>> \in repair[n]
    PROVE  <<peer, o>> \in repair'[n] \/ (ResolveRepair(n) /\ o = handler[n].frame.id /\ o \in store[n])
<1>t. TypeOK
  BY DEF Inv
<1>1. CASE QueueWantPage(n)
  BY <1>t, <1>1 DEF QueueWantPage, TypeOK
<1>2. ASSUME ResolveRepair(n), o # handler[n].frame.id PROVE <<peer, o>> \in repair'[n]
  BY <1>t, <1>2 DEF ResolveRepair, TypeOK
<1>3. ASSUME ResolveRepair(n), o = handler[n].frame.id PROVE o \in store[n]
  <2>1. JobOK(n, handler[n]) /\ handler[n].stage = "resolve"
    BY <1>3, BusyFrame DEF ResolveRepair, Stages
  <2> QED
    BY <1>3, <2>1 DEF JobOK, Inv, ReceivedIsStored
<1> QED
  BY <1>t, <1>1, <1>2, <1>3, Writers DEF WritesRepair

(* New rows of repair_requests are those of the WANT queued with them.       *)
LEMMA RepairSources ==
    ASSUME Inv, [Next]_vars, NEW n \in Node
    PROVE  \/ repair'[n] \subseteq repair[n]
           \/ /\ QueueWantPage(n)
              /\ repair'[n] = repair[n] \cup RepairRows(handler[n].frame.src, WantFrame(n).refs)
<1>t. TypeOK
  BY DEF Inv
<1>1. CASE QueueWantPage(n)
  BY <1>t, <1>1 DEF QueueWantPage, TypeOK, WantFrame, Frame
<1>2. CASE ResolveRepair(n)
  BY <1>t, <1>2 DEF ResolveRepair, TypeOK
<1> QED
  BY <1>t, <1>1, <1>2, Writers DEF WritesRepair

(* What callbacks are about to ask for stays missing here and unasked.       *)
LEMMA PendingStep == BookInv /\ [Next]_vars => WantsPending'
<1> SUFFICES ASSUME BookInv, [Next]_vars, NEW n \in Node, handler'[n].stage = "wants",
                    NEW o \in handler'[n].todo
             PROVE  /\ o \in store'[handler'[n].frame.src]
                    /\ o \notin store'[n]
                    /\ <<handler'[n].frame.src, o>> \notin repair'[n]
  BY DEF WantsPending
<1>t. TypeOK /\ Inv
  BY DEF BookInv, Inv
<1>1. CASE handler'[n] = handler[n] /\ ~QueueWantPage(n)
  <2>1. repair'[n] \subseteq repair[n]
    BY <1>t, <1>1, RepairSources
  <2> QED
    BY <1>1, <2>1, PendingStays DEF BookInv, WantsPending
<1>2. ASSUME QueueWantPage(n), handler'[n].frame = handler[n].frame,
             handler'[n].todo = handler[n].todo \ Page(handler[n].todo, WantPage, 0)
      PROVE  /\ o \in store'[handler'[n].frame.src]
             /\ o \notin store'[n]
             /\ <<handler'[n].frame.src, o>> \notin repair'[n]
  <2>1. handler[n].stage = "wants" /\ o \in handler[n].todo
    BY <1>2 DEF QueueWantPage
  <2>2. repair'[n] \subseteq repair[n] \cup RepairRows(handler[n].frame.src, WantFrame(n).refs)
    BY <1>t, RepairSources
  <2>3. o \notin WantFrame(n).refs
    BY <1>2 DEF WantFrame, Frame
  <2>4. <<handler[n].frame.src, o>> \notin RepairRows(handler[n].frame.src, WantFrame(n).refs)
    BY <2>3 DEF RepairRows
  <2>5. <<handler[n].frame.src, o>> \notin repair[n]
    BY <2>1 DEF BookInv, WantsPending
  <2> QED
    BY <1>2, <2>1, <2>2, <2>4, <2>5, PendingStays
<1>3. ASSUME NEW f \in net, handler'[n].frame = f,
             \/ ReceiveEarlyPost(n, f) /\ handler'[n].todo = Unrequested(n, f.src, {ThreadOf[f.id]})
             \/ ReceiveInventory(n, f) /\ handler'[n].todo = Unrequested(n, f.src, f.refs \ store[n])
      PROVE  /\ o \in store'[handler'[n].frame.src]
             /\ o \notin store'[n]
             /\ <<handler'[n].frame.src, o>> \notin repair'[n]
  <2>1. UNCHANGED <<store, repair>>
    BY <1>3 DEF ReceiveEarlyPost, ReceiveInventory, durable
  <2>2. <<f.src, o>> \notin repair[n]
    BY <1>3 DEF Unrequested
  <2>3. f.src \in Node /\ FrameOK(f) /\ InUse(f)
    BY <1>t, InUseOK DEF InUse
  <2>4. CASE ReceiveEarlyPost(n, f) /\ handler'[n].todo = Unrequested(n, f.src, {ThreadOf[f.id]})
    <3>1. o = ThreadOf[f.id] /\ o \notin store[n]
      BY <2>4 DEF Unrequested, ReceiveEarlyPost, MissingThread
    <3>2. f.id \in store[f.src] \cap Post
      BY <2>3, <2>4 DEF ReceiveEarlyPost, FrameOK
    <3>3. o \in store[f.src]
      BY <1>t, <2>3, <3>1, <3>2 DEF Inv, PostAfterThread
    <3> QED
      BY <1>3, <2>1, <2>2, <3>1, <3>3
  <2>5. CASE ReceiveInventory(n, f) /\ handler'[n].todo = Unrequested(n, f.src, f.refs \ store[n])
    <3>1. o \in f.refs /\ o \notin store[n] /\ f.type = "SYNC"
      BY <2>5 DEF Unrequested, ReceiveInventory
    <3>2. o \in store[f.src]
      BY <2>3, <3>1 DEF BookInv, InventoriesHeld
    <3> QED
      BY <1>3, <2>1, <2>2, <3>1, <3>2
  <2> QED
    BY <1>3, <2>4, <2>5
<1> QED
  BY <1>t, <1>1, <1>2, <1>3, WantsSources

(* The one WANT a step may add to an outbox.                                   *)
LEMMA WantSources ==
    ASSUME Inv, [Next]_vars, NEW n \in Node, NEW w \in outbox'[n], w.type = "WANT",
           w \notin outbox[n]
    PROVE  /\ QueueWantPage(n) /\ w = WantFrame(n)
           /\ w.dst = handler[n].frame.src
           /\ w.refs \subseteq handler[n].todo
<1>1. QueueWantPage(n) /\ w = WantFrame(n)
  <2>1. ASSUME NEW p \in Post, NEW peer \in Node \ {n}, PublishPost(n, p, peer) PROVE w # ObjectFrame(p, n, peer)
    BY ObjectFrameType DEF Object
  <2>2. ASSUME NEW o \in Object, QueueObject(n, o) PROVE w # ObjectFrame(o, n, handler[n].frame.src)
    BY DEF ObjectFrame, Frame
  <2> QED
    BY <2>1, <2>2, OutboxSources, BornShape
<1> QED
  BY <1>1, PageType DEF WantFrame, Frame

(* Objects of a queued WANT stay on record until they are here.              *)
LEMMA RecordedStep == BookInv /\ [Next]_vars => WantsRecorded'
<1> SUFFICES ASSUME BookInv, [Next]_vars, NEW n \in Node, NEW w \in outbox'[n], w.type = "WANT",
                    NEW o \in w.refs
             PROVE  o \in store'[n] \/ <<w.dst, o>> \in repair'[n]
  BY DEF WantsRecorded
<1>t. TypeOK /\ Inv
  BY DEF BookInv, Inv
<1>1. CASE w \in outbox[n]
  <2>1. w.dst \in Node /\ o \in Object
    BY <1>t, <1>1 DEF TypeOK, Frames
  <2> QED
    BY <1>t, <1>1, <2>1, RepairStays, Grows DEF BookInv, WantsRecorded
<1>2. CASE w \notin outbox[n]
  <2>1. QueueWantPage(n) /\ w = WantFrame(n) /\ w.dst = handler[n].frame.src
    BY <1>t, <1>2, WantSources
  <2>2. repair'[n] = repair[n] \cup RepairRows(w.dst, w.refs)
    BY <1>t, <2>1 DEF QueueWantPage, TypeOK, WantFrame, Frame
  <2> QED
    BY <2>2 DEF RepairRows
<1> QED
  BY <1>1, <1>2

(* A new WANT asks for nothing an older one asks for.                        *)
LEMMA NotDuplicatedStep == BookInv /\ [Next]_vars => RequestsNotDuplicated'
<1> SUFFICES ASSUME BookInv, [Next]_vars, NEW n \in Node, NEW v \in outbox'[n], NEW w \in outbox'[n],
                    v.type = "WANT", w.type = "WANT", v.dst = w.dst, v # w,
                    NEW o, o \in v.refs, o \in w.refs
             PROVE  FALSE
  BY DEF RequestsNotDuplicated
<1>t. TypeOK /\ Inv
  BY DEF BookInv, Inv
<1>1. ASSUME NEW x \in outbox[n], NEW y \in outbox'[n], y \notin outbox[n],
             x.type = "WANT", y.type = "WANT", x.dst = y.dst, o \in x.refs, o \in y.refs
      PROVE  FALSE
  <2>1. QueueWantPage(n) /\ y.dst = handler[n].frame.src /\ o \in handler[n].todo
    BY <1>t, <1>1, WantSources
  <2>2. o \notin store[n] /\ <<y.dst, o>> \notin repair[n]
    BY <2>1 DEF BookInv, WantsPending, QueueWantPage
  <2> QED
    BY <1>1, <2>2 DEF BookInv, WantsRecorded
<1>2. CASE v \in outbox[n] /\ w \in outbox[n]
  BY <1>2 DEF BookInv, RequestsNotDuplicated
<1>3. CASE v \notin outbox[n] /\ w \notin outbox[n]
  BY <1>t, <1>3, WantSources
<1> QED
  BY <1>1, <1>2, <1>3

(* At the start nothing is queued, asked for or in progress.                 *)
LEMMA InitBook == Init => BookInv
<1> SUFFICES ASSUME Init PROVE BookInv
  OBVIOUS
<1>1. Inv
  BY InitInv
<1>2. \A f : ~InUse(f)
  BY DEF Init, InUse, Due, Free, Idle
<1> QED
  BY <1>1, <1>2 DEF Init, BookInv, InventoriesHeld, WantsPending, WantsRecorded,
                    RequestsNotDuplicated, Free, Idle

(* The four bookkeeping invariants together are inductive.                   *)
LEMMA BookStep == BookInv /\ [Next]_vars => BookInv'
BY NextInv, InventoriesStep, PendingStep, RecordedStep, NotDuplicatedStep DEF BookInv

(* Two WANT frames queued for one peer never ask for the same object, however  *)
(* many nodes answer one another and whatever is lost, replayed or restarted   *)
(* (unrequested_objects and queue_want of sync_repository.py).                 *)
THEOREM RequestsAreNotDuplicated == Spec => []RequestsNotDuplicated
<1>1. Spec => []BookInv
  BY InitBook, BookStep, PTL DEF Spec
<1>2. BookInv => RequestsNotDuplicated
  BY DEF BookInv
<1> QED
  BY <1>1, <1>2, PTL

------------------------------------------------------------------------------
(* Serial numbers: a frame that is made now has an identifier no frame had.    *)

(* Serial numbers are drawn upwards.                                         *)
LEMMA MintGrows ==
    ASSUME Inv, [Next]_vars, NEW n \in Node
    PROVE  /\ mint[n] \in Nat /\ mint'[n] \in Nat /\ mint[n] <= mint'[n]
           /\ QueueInventoryPage(n) \/ QueueWantPage(n) => mint'[n] = mint[n] + 1
<1>t. TypeOK /\ TypeOK'
  BY NextInv DEF Inv
<1>1. mint[n] \in Nat /\ mint'[n] \in Nat
  BY <1>t DEF TypeOK
<1>2. QueueInventoryPage(n) \/ QueueWantPage(n) => mint'[n] = mint[n] + 1
  BY <1>t DEF QueueInventoryPage, QueueWantPage, TypeOK
<1> QED
  BY <1>t, <1>1, <1>2, Writers DEF WritesMint

(* Inventories and WANTs have identifiers of their own kind.                 *)
LEMMA ControlIdOf ==
    ASSUME Inv, NEW f, InUse(f), f.type \in {"SYNC", "WANT"}
    PROVE  /\ f.id \in ControlId /\ f.id \notin Object
           /\ f.id.origin \in Node /\ f.id.serial \in Nat /\ f.id.page \in Nat
BY InUseOK, ObjectIds DEF FrameOK, ControlId

\* The peer of a callback is another node.
LEMMA PeerOf ==
    ASSUME Inv, FramesNumbered, NEW n \in Node, handler[n].stage \in Stages
    PROVE  /\ InUse(handler[n].frame) /\ Numbered(handler[n].frame)
           /\ handler[n].frame.dst = n /\ handler[n].frame.src # n
<1>1. InUse(handler[n].frame) /\ handler[n].frame.dst = n
  BY BusyFrame DEF InUse, JobOK
<1> QED
  BY <1>1 DEF FramesNumbered, Numbered

(* A drawn number stays drawn.                                               *)
LEMMA NumberedStays ==
    ASSUME Inv, [Next]_vars, NEW f, InUse(f), Numbered(f)
    PROVE  Numbered(f)'
BY ControlIdOf, MintGrows DEF Numbered

(* New frames have numbers just drawn, or those of what they answer.         *)
LEMMA BornNumbered ==
    ASSUME Inv, FramesNumbered, [Next]_vars, NEW f, Born(f)
    PROVE  Numbered(f)'
<1>1. ASSUME NEW n \in Node, NEW p \in Post, NEW peer \in Node \ {n}, f = ObjectFrame(p, n, peer)
      PROVE  Numbered(f)'
  BY <1>1 DEF Numbered, ObjectFrame, Frame
<1>2. ASSUME NEW n \in Node, QueueInventoryPage(n), f = InventoryFrame(n) PROVE Numbered(f)'
  <2>1. app[n].peer # n
    BY <1>2 DEF FramesNumbered, QueueInventoryPage
  <2>2. f.src = n /\ f.dst = app[n].peer /\ f.type = "SYNC" /\ f.id.origin = n /\ f.id.serial = mint[n]
    BY <1>2 DEF InventoryFrame, Frame, FreshId
  <2> QED
    BY <1>2, <2>1, <2>2, MintGrows DEF Numbered
<1>3. ASSUME NEW n \in Node, QueueWantPage(n), f = WantFrame(n) PROVE Numbered(f)'
  <2>1. handler[n].frame.src # n
    BY <1>3, PeerOf DEF QueueWantPage, Stages
  <2>2. /\ f.src = n /\ f.dst = handler[n].frame.src /\ f.type = "WANT"
        /\ f.id.origin = n /\ f.id.serial = mint[n] /\ f.id.page = 0
    BY <1>3 DEF WantFrame, Frame, FreshId
  <2> QED
    BY <1>3, <2>1, <2>2, MintGrows DEF Numbered
<1>4. ASSUME NEW n \in Node, QueueReplyPage(n), f = ReplyFrame(n) PROVE Numbered(f)'
  <2> PICK g : g = handler[n].frame
    OBVIOUS
  <2>1. /\ handler[n].stage = "reply" /\ InUse(g) /\ Numbered(g) /\ g.src # n /\ g.type = "SYNC"
    BY <1>4, PeerOf, BusyFrame DEF QueueReplyPage, Stages, JobOK
  <2>2. g.id \in ControlId
    BY <2>1, ControlIdOf
  <2>3. f.src = n /\ f.dst = g.src /\ f.type = "SYNC" /\ f.id = ResponseId(g.id, handler[n].page)
    BY <1>4 DEF ReplyFrame, Frame
  <2>4. f.id.origin = g.id.origin /\ f.id.serial = g.id.serial
    BY <2>2, <2>3 DEF ResponseId, ControlId
  <2>5. Numbered(g)'
    BY <2>1, NumberedStays
  <2> QED
    BY <2>1, <2>3, <2>4, <2>5 DEF Numbered
<1>5. ASSUME NEW n \in Node, NEW o \in Object, QueueObject(n, o), f = ObjectFrame(o, n, handler[n].frame.src)
      PROVE  Numbered(f)'
  <2>1. handler[n].frame.src # n
    BY <1>5, PeerOf DEF QueueObject, Stages
  <2> QED
    BY <1>5, <2>1 DEF Numbered, ObjectFrame, Frame
<1>6. ASSUME NEW n \in Node, Acknowledge(n), f = AckOf(handler[n].frame) PROVE Numbered(f)'
  <2>1. handler[n].frame.dst = n /\ handler[n].frame.src # n
    BY <1>6, PeerOf DEF Acknowledge, Stages
  <2> QED
    BY <1>6, <2>1 DEF Numbered, AckOf, Frame
<1> QED
  BY <1>1, <1>2, <1>3, <1>4, <1>5, <1>6 DEF Born

(* A control identifier is recorded by RecordControl alone.                  *)
LEMMA ReceivedSources ==
    ASSUME Inv, [Next]_vars, NEW n \in Node, NEW id \in received'[n], id \in ControlId
    PROVE  \/ id \in received[n]
           \/ /\ handler[n].stage = "record" /\ id = handler[n].frame.id
              /\ handler[n].frame.type \in {"SYNC", "WANT"}
<1>t. TypeOK
  BY DEF Inv
<1>1. ASSUME NEW f \in net, ReceiveThread(n, f) \/ ReceiveSyncPost(n, f) PROVE id \in received[n]
  <2>1. f.id \in Object
    BY <1>1 DEF ReceiveThread, ReceiveSyncPost, Inv, FramesOK, FrameOK, Object
  <2> QED
    BY <1>t, <1>1, <2>1, ObjectIds DEF ReceiveThread, ReceiveSyncPost, Commit, TypeOK
<1>2. CASE RecordControl(n)
  <2>1. handler[n].stage = "record" /\ handler[n].frame.type \in {"SYNC", "WANT"}
    BY <1>2, BusyFrame DEF RecordControl, Stages, JobOK
  <2> QED
    BY <1>t, <1>2, <2>1 DEF RecordControl, TypeOK
<1> QED
  BY <1>t, <1>1, <1>2, Writers DEF WritesReceived

(* FramesNumbered is inductive.                                              *)
LEMMA NumberedStep == Inv /\ FramesNumbered /\ [Next]_vars => FramesNumbered'
<1> SUFFICES ASSUME Inv, FramesNumbered, [Next]_vars PROVE FramesNumbered'
  OBVIOUS
<1>1. ASSUME NEW f, InUse(f)' PROVE Numbered(f)'
  BY <1>1, FrameSources, NumberedStays, BornNumbered DEF FramesNumbered
<1>2. ASSUME NEW n \in Node, app'[n].op = "inventory" PROVE app'[n].peer # n
  BY <1>2, CallSources DEF FramesNumbered
<1>3. ASSUME NEW n \in Node, NEW id \in received'[n] \cap ControlId PROVE id.serial < mint'[id.origin]
  <2>0. id.origin \in Node /\ id.serial \in Nat
    BY <1>3 DEF ControlId
  <2>1. CASE id \in received[n]
    BY <2>0, <2>1, MintGrows DEF FramesNumbered
  <2>2. CASE /\ handler[n].stage = "record" /\ id = handler[n].frame.id
             /\ handler[n].frame.type \in {"SYNC", "WANT"}
    <3>1. Numbered(handler[n].frame)
      BY <2>2, PeerOf DEF Stages
    <3> QED
      BY <2>0, <2>2, <3>1, MintGrows DEF Numbered
  <2> QED
    BY <1>3, <2>1, <2>2, ReceivedSources
<1> QED
  BY <1>1, <1>2, <1>3 DEF FramesNumbered

\* The identifier of an inventory or a WANT that is made now is new; that of a
\* reply is no identifier of a WANT.
LEMMA BornControl ==
    ASSUME Inv, FramesNumbered, NEW g, Born(g), g.type \in {"SYNC", "WANT"}
    PROVE  \/ \E n \in Node : /\ \/ QueueInventoryPage(n) /\ g = InventoryFrame(n)
                                 \/ QueueWantPage(n) /\ g = WantFrame(n)
                              /\ g.id = FreshId(n)
           \/ g.type = "SYNC" /\ g.id.page # 0
<1>1. ASSUME NEW n \in Node, QueueReplyPage(n), g = ReplyFrame(n) PROVE g.type = "SYNC" /\ g.id.page # 0
  <2>1. handler[n].frame.id \in ControlId /\ handler[n].page \in Nat
    BY <1>1, PeerOf, BusyFrame, ControlIdOf DEF QueueReplyPage, Stages, JobOK
  <2> QED
    BY <1>1, <2>1 DEF ReplyFrame, Frame, ResponseId, ControlId
<1>2. ASSUME NEW n \in Node PROVE InventoryFrame(n).id = FreshId(n) /\ WantFrame(n).id = FreshId(n)
  BY DEF InventoryFrame, WantFrame, Frame
<1>3. ASSUME NEW n \in Node, NEW o, NEW m PROVE g # ObjectFrame(o, n, m) /\ g # AckOf(handler[n].frame)
  BY BornShape
<1>4. PICK n \in Node : \/ QueueInventoryPage(n) /\ g = InventoryFrame(n)
                        \/ QueueWantPage(n) /\ g = WantFrame(n)
                        \/ QueueReplyPage(n) /\ g = ReplyFrame(n)
  BY <1>3 DEF Born
<1> QED
  BY <1>1, <1>2, <1>4

(* No frame in use has the identifier that would be drawn next.              *)
LEMMA FreshIsNew ==
    ASSUME Inv, FramesNumbered, NEW n \in Node, NEW f, InUse(f), f.type \in {"SYNC", "WANT"}
    PROVE  f.id # FreshId(n)
BY ControlIdOf DEF FramesNumbered, Numbered, FreshId, Inv, TypeOK

(* No two frames come to share the identifier of a WANT.                     *)
LEMMA UniqueStep == Inv /\ FramesNumbered /\ WantsUnique /\ [Next]_vars => WantsUnique'
<1> SUFFICES ASSUME Inv, FramesNumbered, WantsUnique, [Next]_vars,
                    NEW f, NEW g, InUse(f)', InUse(g)', f.type = "WANT",
                    g.type \in {"SYNC", "WANT"}, f.id = g.id
             PROVE  f = g
  BY DEF WantsUnique
<1>1. CASE InUse(f) /\ InUse(g)
  BY <1>1 DEF WantsUnique
<1>2. CASE InUse(f) /\ Born(g)
  <2>1. f.id.page = 0
    BY <1>2 DEF FramesNumbered, Numbered
  <2> QED
    BY <1>2, <2>1, BornControl, FreshIsNew
<1>3. ASSUME Born(f) PROVE \E n \in Node : QueueWantPage(n) /\ f = WantFrame(n) /\ f.id = FreshId(n)
  BY <1>3, BornControl, BornShape
<1>4. CASE Born(f) /\ InUse(g)
  BY <1>3, <1>4, FreshIsNew
<1>5. CASE Born(f) /\ Born(g)
  <2>1. PICK n \in Node : QueueWantPage(n) /\ f = WantFrame(n) /\ f.id = FreshId(n)
    BY <1>3, <1>5
  <2>2. f.id.page = 0 /\ f.id.origin = n
    BY <2>1 DEF FreshId
  <2>3. PICK m \in Node : /\ \/ QueueInventoryPage(m) /\ g = InventoryFrame(m)
                             \/ QueueWantPage(m) /\ g = WantFrame(m)
                          /\ g.id = FreshId(m)
    BY <1>5, <2>2, BornControl
  <2>4. m = n
    BY <2>2, <2>3 DEF FreshId
  <2>5. f \in outbox'[n]
    BY <2>1 DEF QueueWantPage, WantFrame, Inv, TypeOK
  <2>6. f \notin outbox[n]
    BY <2>1, FreshIsNew DEF InUse
  <2>7. QueueInventoryPage(n) => f = InventoryFrame(n)
    BY <2>5, <2>6 DEF QueueInventoryPage, QueueFrame, InventoryFrame, Inv, TypeOK
  <2> QED
    BY <2>1, <2>3, <2>4, <2>7, BornShape
<1> QED
  BY <1>1, <1>2, <1>4, <1>5, FrameSources

------------------------------------------------------------------------------
(* What is settled or served stays so.                                         *)

(* An object that is here and on no record is never asked for again.         *)
LEMMA SettledStays ==
    ASSUME BookInv, [Next]_vars, NEW n \in Node, NEW o, Settled(n, o)
    PROVE  Settled(n, o)'
<1>t. TypeOK /\ Inv
  BY DEF BookInv, Inv
<1>1. o \in store'[n]
  BY <1>t, Grows DEF Settled
<1>2. ASSUME QueueWantPage(n) PROVE o \notin WantFrame(n).refs
  <2>1. WantFrame(n).refs \subseteq handler[n].todo
    BY PageType DEF WantFrame, Frame
  <2> QED
    BY <1>2, <2>1 DEF BookInv, WantsPending, QueueWantPage, Settled
<1>3. ASSUME NEW r \in repair'[n] PROVE r[2] # o
  <2>1. CASE r \in repair[n]
    BY <2>1 DEF Settled
  <2>2. CASE QueueWantPage(n) /\ r \in RepairRows(handler[n].frame.src, WantFrame(n).refs)
    BY <1>2, <2>2 DEF RepairRows
  <2> QED
    BY <1>t, <1>3, <2>1, <2>2, RepairSources
<1> QED
  BY <1>1, <1>3 DEF Settled

\* A row that leaves an outbox was acknowledged by a frame in the air.
LEMMA RowsLeave ==
    ASSUME Inv, [Next]_vars, NEW m \in Node, NEW e \in outbox[m], e \notin outbox'[m]
    PROVE  \E f \in net : f.type = "COMMIT_ACK" /\ f.id = e.id /\ f.src = e.dst
<1>t. TypeOK
  BY DEF Inv
<1>1. ASSUME NEW f \in net, ReceiveAck(m, f) PROVE f.type = "COMMIT_ACK" /\ f.id = e.id /\ f.src = e.dst
  BY <1>t, <1>1 DEF ReceiveAck, Acknowledged, TypeOK
<1>2. ASSUME NEW p \in Post, NEW peer \in Node \ {m}, PublishPost(m, p, peer) PROVE FALSE
  BY <1>t, <1>2 DEF PublishPost, TypeOK
<1>3. ASSUME NEW f, outbox' = [outbox EXCEPT ![m] = QueueFrame(@, f)] PROVE FALSE
  BY <1>t, <1>3 DEF QueueFrame, TypeOK
<1>4. ASSUME NEW f, outbox' = [outbox EXCEPT ![m] = @ \cup {f}] PROVE FALSE
  BY <1>t, <1>4 DEF TypeOK
<1>6. ~QueueInventoryPage(m) /\ ~QueueReplyPage(m)
  BY <1>3, Zenon DEF QueueInventoryPage, QueueReplyPage
<1>7. ~QueueWantPage(m)
  BY <1>4, Zenon DEF QueueWantPage
<1>5. ASSUME NEW o \in Object, QueueObject(m, o) PROVE FALSE
  BY <1>t, <1>5 DEF QueueObject, QueueFrame, TypeOK
<1> QED
  BY <1>t, <1>1, <1>2, <1>5, <1>6, <1>7, Writers DEF WritesOutbox

(* A row for an object leaves an outbox after the object is settled.         *)
LEMMA ServedStays ==
    ASSUME BookInv, AcksSettled, [Next]_vars, NEW n \in Node, NEW m \in Node, NEW o \in Object,
           Served(n, m, o)
    PROVE  Served(n, m, o)'
<1>1. CASE Settled(n, o)
  BY <1>1, SettledStays DEF Served
<1>2. CASE ObjectFrame(o, m, n) \in outbox[m] /\ ObjectFrame(o, m, n) \notin outbox'[m]
  <2>1. PICK f \in net : f.type = "COMMIT_ACK" /\ f.id = o /\ f.src = n
    BY <1>2, RowsLeave, ObjectFrameType DEF BookInv
  <2>2. Settled(n, o)
    BY <2>1 DEF AcksSettled
  <2> QED
    BY <2>2, SettledStays DEF Served
<1> QED
  BY <1>1, <1>2 DEF Served

------------------------------------------------------------------------------
(* Acknowledged objects are settled.                                           *)

(* An object's callback comes to acknowledge it through ResolveRepair.       *)
LEMMA AckSources ==
    ASSUME Inv, [Next]_vars, NEW n \in Node, handler'[n].stage = "ack", handler'[n].frame.id \in Object
    PROVE  \/ handler'[n] = handler[n]
           \/ ResolveRepair(n) /\ handler'[n].frame = handler[n].frame
<1>t. TypeOK
  BY DEF Inv
<1>1. ASSUME NEW f \in net, ReceiveThread(n, f) \/ ReceiveSyncPost(n, f) \/ ReceiveEarlyPost(n, f)
      PROVE  FALSE
  BY <1>t, <1>1 DEF ReceiveThread, ReceiveSyncPost, ReceiveEarlyPost, QueueWants, AfterWants,
                    TypeOK, Handling, Idle
<1>2. ASSUME NEW f \in net, ReceiveInventory(n, f) \/ ReceiveWant(n, f) PROVE FALSE
  <2>1. f.id \notin Object
    BY <1>2, ControlIdOf DEF ReceiveInventory, ReceiveWant, InUse
  <2>2. handler'[n].frame = f
    BY <1>t, <1>2 DEF ReceiveInventory, ReceiveWant, FirstSight, QueueWants, AfterWants, TypeOK,
                      Handling, Idle
  <2> QED
    BY <2>1, <2>2
<1>3. ~QueueWantPage(n)
  <2> SUFFICES ASSUME QueueWantPage(n) PROVE FALSE
    OBVIOUS
  <2>1. handler[n] \in Jobs /\ handler[n].stage = "wants"
    BY BusyFrame DEF QueueWantPage, Stages
  <2> QED
    BY <1>t, <2>1 DEF QueueWantPage, AfterWants, TypeOK, Handling, Jobs, Idle
<1>4. ~QueueReplyPage(n)
  <2> SUFFICES ASSUME QueueReplyPage(n) PROVE FALSE
    OBVIOUS
  <2>1. handler[n] \in Jobs /\ handler[n].stage = "reply"
    BY BusyFrame DEF QueueReplyPage, Stages
  <2> QED
    BY <1>t, <2>1 DEF QueueReplyPage, TypeOK, Handling, Jobs
<1>5. ASSUME NEW o \in Object, QueueObject(n, o) PROVE FALSE
  <2>1. handler[n] \in Jobs /\ handler[n].stage = "objects"
    BY <1>5, BusyFrame DEF QueueObject, Stages
  <2> QED
    BY <1>t, <1>5, <2>1 DEF QueueObject, TypeOK, Handling, Jobs
<1>6. ~RecordControl(n)
  <2> SUFFICES ASSUME RecordControl(n) PROVE FALSE
    OBVIOUS
  <2>1. handler'[n].frame = handler[n].frame
    BY <1>t DEF RecordControl, TypeOK, Handling
  <2>2. handler[n].frame.id \notin Object
    BY BusyFrame, ControlIdOf DEF RecordControl, Stages, JobOK, InUse
  <2> QED
    BY <2>1, <2>2
<1>7. ResolveRepair(n) => handler'[n].frame = handler[n].frame
  BY <1>t DEF ResolveRepair, TypeOK, Handling
<1>8. handler'[n] # Idle
  BY DEF Idle
<1> QED
  BY <1>t, Writers, <1>1, <1>2, <1>3, <1>4, <1>5, <1>6, <1>7, <1>8 DEF WritesHandler

(* Acknowledgements of objects stay backed by settled objects.               *)
LEMMA AcksSettledStep == BookInv /\ AcksSettled /\ [Next]_vars => AcksSettled'
<1> SUFFICES ASSUME BookInv, AcksSettled, [Next]_vars PROVE AcksSettled'
  OBVIOUS
<1>t. TypeOK /\ Inv
  BY DEF BookInv, Inv
<1>1. ASSUME NEW f \in net', f.type = "COMMIT_ACK", f.id \in Object PROVE Settled(f.src, f.id)'
  <2>1. CASE f \in net
    <3>1. f.src \in Node
      BY <1>t, <2>1 DEF TypeOK, Frames
    <3> QED
      BY <1>1, <2>1, <3>1, SettledStays DEF AcksSettled
  <2>2. ASSUME f \notin net PROVE \E m \in Node : Acknowledge(m) /\ f = AckOf(handler[m].frame)
    <3>1. ASSUME NEW m \in Node, NEW e \in Due(m), FlushEntry(m, e) PROVE FALSE
      BY <1>t, <1>1, <2>2, <3>1 DEF FlushEntry, Sent, Inv, FramesOK
    <3>2. PICK m \in Node : TRUE
      BY <1>1, <2>2, <1>t, NextInv DEF Inv, TypeOK, Frames
    <3>3. WritesNet
      BY <1>t, <3>2, Writers
    <3> QED
      BY <1>1, <2>2, <3>1, <3>3 DEF WritesNet, Acknowledge, Sent
  <2>3. ASSUME NEW m \in Node, Acknowledge(m), f = AckOf(handler[m].frame) PROVE Settled(f.src, f.id)'
    <3>1. f.src = m /\ f.id = handler[m].frame.id
      BY <1>t, <2>3, BusyFrame DEF Acknowledge, Stages, JobOK, AckOf, Frame
    <3>2. Settled(m, f.id)
      BY <1>1, <2>3, <3>1 DEF AcksSettled, Acknowledge
    <3> QED
      BY <3>1, <3>2, SettledStays
  <2> QED
    BY <2>1, <2>2, <2>3
<1>2. ASSUME NEW n \in Node, NEW o \in Object, handler'[n].stage = "ack", handler'[n].frame.id = o
      PROVE  Settled(n, o)'
  <2>1. CASE handler'[n] = handler[n]
    <3>1. Settled(n, o)
      BY <1>2, <2>1 DEF AcksSettled
    <3> QED
      BY <3>1, SettledStays
  <2>2. CASE ResolveRepair(n) /\ handler'[n].frame = handler[n].frame
    <3>1. o \in store[n]
      BY <1>t, <1>2, <2>2, BusyFrame DEF ResolveRepair, Stages, JobOK, Inv, ReceivedIsStored
    <3>2. \A r \in repair'[n] : r[2] # o
      BY <1>t, <1>2, <2>2 DEF ResolveRepair, TypeOK
    <3>3. o \in store'[n]
      BY <1>t, <3>1, Grows
    <3> QED
      BY <3>2, <3>3 DEF Settled
  <2> QED
    BY <1>t, <1>2, <2>1, <2>2, AckSources
<1>3. \A n \in Node : handler'[n].stage = "ack" /\ handler'[n].frame.id \in Object =>
          /\ handler'[n].frame.id \in store'[n]
          /\ \A r \in repair'[n] : r[2] # handler'[n].frame.id
  BY <1>2 DEF Settled
<1>4. \A f \in net' : f.type = "COMMIT_ACK" /\ f.id \in Object =>
          f.id \in store'[f.src] /\ \A r \in repair'[f.src] : r[2] # f.id
  BY <1>1 DEF Settled
<1> QED
  BY <1>3, <1>4 DEF AcksSettled, Settled

------------------------------------------------------------------------------
(* A WANT is recorded when its last object is served.                          *)

(* A WANT's callback records it after its last object, or passes one object. *)
LEMMA ObjectsSources ==
    ASSUME Inv, [Next]_vars, NEW n \in Node, handler'[n] # Idle,
           handler'[n].frame.type = "WANT", handler'[n].stage \in {"objects", "record"}
    PROVE  \/ handler'[n] = handler[n]
           \/ handler'[n].stage = "objects" /\ handler'[n].todo = handler'[n].frame.refs
           \/ \E o \in Object :
                  /\ QueueObject(n, o)
                  /\ handler'[n].frame = handler[n].frame
                  /\ \/ handler'[n].stage = "record" /\ handler[n].todo = {o}
                     \/ handler'[n].stage = "objects" /\ handler'[n].todo = handler[n].todo \ {o}
<1>t. TypeOK
  BY DEF Inv
<1>1. ASSUME NEW f \in net, ReceiveThread(n, f) \/ ReceiveSyncPost(n, f) \/ ReceiveEarlyPost(n, f)
      PROVE  FALSE
  BY <1>t, <1>1 DEF ReceiveThread, ReceiveSyncPost, ReceiveEarlyPost, QueueWants, AfterWants,
                    TypeOK, Handling, Idle
<1>2. ASSUME NEW f \in net, ReceiveInventory(n, f) PROVE FALSE
  BY <1>t, <1>2 DEF ReceiveInventory, FirstSight, QueueWants, AfterWants, TypeOK, Handling, Idle
<1>3. ASSUME NEW f \in net, ReceiveWant(n, f)
      PROVE  handler'[n].stage = "objects" /\ handler'[n].todo = handler'[n].frame.refs
  BY <1>t, <1>3 DEF ReceiveWant, FirstSight, TypeOK, Handling, Idle
<1>4. ~QueueWantPage(n)
  <2> SUFFICES ASSUME QueueWantPage(n) PROVE FALSE
    OBVIOUS
  <2>1. handler[n] \in Jobs /\ handler[n].stage = "wants" /\ handler[n].frame.type \in {"SYNC", "SYNC_POST"}
    BY BusyFrame DEF QueueWantPage, Stages, JobOK
  <2> QED
    BY <1>t, <2>1 DEF QueueWantPage, AfterWants, TypeOK, Handling, Jobs, Idle
<1>5. ~QueueReplyPage(n)
  <2> SUFFICES ASSUME QueueReplyPage(n) PROVE FALSE
    OBVIOUS
  <2>1. handler[n] \in Jobs /\ handler[n].stage = "reply" /\ handler[n].frame.type = "SYNC"
    BY BusyFrame DEF QueueReplyPage, Stages, JobOK
  <2> QED
    BY <1>t, <2>1 DEF QueueReplyPage, TypeOK, Handling, Jobs
<1>6. ASSUME NEW o \in Object, QueueObject(n, o)
      PROVE  /\ handler'[n].frame = handler[n].frame
             /\ \/ handler'[n].stage = "record" /\ handler[n].todo = {o}
                \/ handler'[n].stage = "objects" /\ handler'[n].todo = handler[n].todo \ {o}
  <2>1. handler[n] \in Jobs /\ handler[n].stage = "objects"
    BY <1>6, BusyFrame DEF QueueObject, Stages
  <2> QED
    BY <1>t, <1>6, <2>1 DEF QueueObject, TypeOK, Handling, Jobs
<1>7. ~RecordControl(n) /\ ~ResolveRepair(n)
  BY <1>t DEF RecordControl, ResolveRepair, TypeOK, Handling
<1> QED
  BY <1>t, Writers, <1>1, <1>2, <1>3, <1>4, <1>5, <1>6, <1>7 DEF WritesHandler

\* With two nodes a row for an object is a row for that object to the peer, so
\* queue_frame's refusal of a second one does no harm.
LEMMA QueueObjectServes ==
    ASSUME TwoNodes, Inv, FramesNumbered, [Next]_vars, NEW n \in Node, NEW o \in Object, QueueObject(n, o)
    PROVE  ObjectFrame(o, n, handler[n].frame.src) \in outbox'[n]
<1>t. TypeOK
  BY DEF Inv
<1>1. handler[n].frame.src \in Node /\ handler[n].frame.src # n
  BY PeerOf, BusyFrame DEF QueueObject, Stages
<1>2. CASE Queued(outbox[n], o)
  <2>1. PICK e \in outbox[n] : e.id = o
    BY <1>2 DEF Queued
  <2>2. FrameOK(e) /\ e.src = n /\ e.type # "COMMIT_ACK" /\ InUse(e) /\ e.dst \in Node /\ e.type \in Types
    BY <2>1 DEF Inv, FramesOK, FrameOK, Frames, InUse
  <2>3. e.type \in {"THREAD", "SYNC_POST"}
    BY <2>1, <2>2, ObjectIds DEF FrameOK, Types
  <2>4. e = ObjectFrame(o, n, e.dst) /\ e.dst # n
    BY <2>1, <2>2, <2>3 DEF FramesNumbered, Numbered
  <2>5. e.dst = handler[n].frame.src
    BY <1>1, <2>2, <2>4 DEF TwoNodes
  <2> QED
    BY <1>t, <2>1, <2>4, <2>5 DEF QueueObject, QueueFrame, TypeOK
<1>3. CASE ~Queued(outbox[n], o)
  BY <1>t, <1>1, <1>3, ObjectFrameType DEF QueueObject, QueueFrame, TypeOK
<1> QED
  BY <1>2, <1>3

(* Each object a WANT's callback passes is served.                           *)
LEMMA PassedStep ==
    ASSUME TwoNodes, BookInv, FramesNumbered, AcksSettled, PassedServed, [Next]_vars
    PROVE  PassedServed'
<1>t. TypeOK /\ Inv
  BY DEF BookInv, Inv
<1> SUFFICES ASSUME NEW n \in Node, NEW f, handler'[n] # Idle, handler'[n].frame = f,
                    f.type = "WANT", handler'[n].stage \in {"objects", "record"},
                    NEW o \in f.refs, handler'[n].stage = "objects" => o \notin handler'[n].todo
             PROVE  Served(f.src, n, o)'
  BY DEF PassedServed, Served, Settled
<1>d. f.src \in Node /\ o \in Object
  BY <1>t, NextInv DEF Inv, TypeOK, Jobs, Frames
<1>1. CASE handler'[n] = handler[n]
  BY <1>1, <1>d, ServedStays DEF PassedServed
<1>2. CASE handler'[n].stage = "objects" /\ handler'[n].todo = handler'[n].frame.refs
  BY <1>2
<1>3. ASSUME NEW x \in Object, QueueObject(n, x), handler'[n].frame = handler[n].frame,
             \/ handler'[n].stage = "record" /\ handler[n].todo = {x}
             \/ handler'[n].stage = "objects" /\ handler'[n].todo = handler[n].todo \ {x}
      PROVE  Served(f.src, n, o)'
  <2>1. CASE o = x
    BY <1>t, <1>3, <2>1, QueueObjectServes DEF Served
  <2>2. CASE o # x
    <3>1. handler[n] # Idle /\ handler[n].stage = "objects" /\ o \notin handler[n].todo
      BY <1>t, <1>3, <2>2, BusyFrame DEF QueueObject, Stages
    <3> QED
      BY <1>3, <1>d, <3>1, ServedStays DEF PassedServed
  <2> QED
    BY <2>1, <2>2
<1> QED
  BY <1>t, <1>1, <1>2, <1>3, ObjectsSources

(* A WANT is applied when its callback has passed every object.              *)
LEMMA WantsServedStep ==
    ASSUME BookInv, FramesNumbered, WantsUnique, AcksSettled, PassedServed, WantsServed, [Next]_vars
    PROVE  WantsServed'
<1>t. TypeOK /\ Inv
  BY DEF BookInv, Inv
<1> SUFFICES ASSUME NEW n \in Node, NEW w \in outbox'[n], w.type = "WANT",
                    w.id \in received'[w.dst], NEW o \in w.refs
             PROVE  Served(n, w.dst, o)'
  BY DEF WantsServed
<1>w. w \in Frames /\ w.dst \in Node /\ o \in Object /\ w.src = n
  BY <1>t, NextInv DEF Inv, TypeOK, Frames, FramesOK
<1>1. CASE w \in outbox[n]
  <2>1. InUse(w) /\ w.id \in ControlId
    BY <1>t, <1>1, ControlIdOf DEF InUse
  <2>2. CASE w.id \in received[w.dst]
    BY <1>1, <1>w, <2>2, ServedStays DEF WantsServed
  <2>3. CASE /\ handler[w.dst].stage = "record" /\ w.id = handler[w.dst].frame.id
             /\ handler[w.dst].frame.type \in {"SYNC", "WANT"}
    <3>1. InUse(handler[w.dst].frame) /\ handler[w.dst] # Idle
      BY <1>t, <1>w, <2>3, PeerOf, BusyFrame DEF Stages
    <3>2. handler[w.dst].frame = w
      BY <2>1, <2>3, <3>1 DEF WantsUnique
    <3> QED
      BY <1>w, <2>3, <3>1, <3>2, ServedStays DEF PassedServed
  <2> QED
    BY <1>t, <1>w, <2>1, <2>2, <2>3, ReceivedSources
<1>2. CASE w \notin outbox[n]
  <2>1. QueueWantPage(n) /\ w.id = FreshId(n)
    BY <1>t, <1>2, WantSources DEF WantFrame, Frame
  <2>2. w.id \in received[w.dst] /\ w.id \in ControlId
    BY <1>t, <2>1, FreshIdType DEF QueueWantPage
  <2>3. w.id.serial < mint[w.id.origin]
    BY <1>w, <2>2 DEF FramesNumbered
  <2> QED
    BY <1>t, <2>1, <2>3 DEF FreshId, TypeOK
<1> QED
  BY <1>1, <1>2

(* A repair row loses its WANT to an acknowledgement, which follows service. *)
LEMMA CarriedStep ==
    ASSUME BookInv, AcksSettled, WantsServed, RepairIsCarried, [Next]_vars
    PROVE  RepairIsCarried'
<1>t. TypeOK /\ Inv
  BY DEF BookInv, Inv
<1> DEFINE Carried(n, r) ==
             \/ \E w \in outbox'[n] : w.type = "WANT" /\ w.dst = r[1] /\ r[2] \in w.refs
             \/ ObjectFrame(r[2], r[1], n) \in outbox'[r[1]]
<1> SUFFICES ASSUME NEW n \in Node, NEW r \in repair'[n] PROVE Carried(n, r)
  BY DEF RepairIsCarried
<1>r. r[1] \in Node /\ r[2] \in Object
  BY <1>t, NextInv DEF Inv, TypeOK
<1>s. ASSUME Served(n, r[1], r[2]) PROVE Carried(n, r)
  <2>1. Served(n, r[1], r[2])'
    BY <1>r, <1>s, ServedStays
  <2> QED
    BY <2>1 DEF Served, Settled
<1>1. CASE r \in repair[n]
  <2>1. CASE ObjectFrame(r[2], r[1], n) \in outbox[r[1]]
    BY <1>s, <2>1 DEF Served
  <2>2. ASSUME NEW w \in outbox[n], w.type = "WANT", w.dst = r[1], r[2] \in w.refs PROVE Carried(n, r)
    <3>1. CASE w \in outbox'[n]
      BY <2>2, <3>1
    <3>2. CASE w \notin outbox'[n]
      <4>1. w.id \in received[w.dst]
        BY <1>t, <3>2, KeepStep DEF Committed
      <4> QED
        BY <1>s, <2>2, <4>1 DEF WantsServed
    <3> QED
      BY <3>1, <3>2
  <2> QED
    BY <1>1, <2>1, <2>2 DEF RepairIsCarried
<1>2. CASE r \notin repair[n]
  <2>1. QueueWantPage(n) /\ r \in RepairRows(handler[n].frame.src, WantFrame(n).refs)
    BY <1>t, <1>2, RepairSources
  <2>2. WantFrame(n) \in outbox'[n]
    BY <1>t, <2>1 DEF QueueWantPage, WantFrame, TypeOK
  <2>3. WantFrame(n).type = "WANT" /\ WantFrame(n).dst = r[1] /\ r[2] \in WantFrame(n).refs
    BY <2>1 DEF RepairRows, WantFrame, Frame
  <2> QED
    BY <2>2, <2>3
<1> QED
  BY <1>1, <1>2

------------------------------------------------------------------------------
(* The theorems for two nodes.                                                 *)

(* The invariant for two nodes holds at the start.                           *)
LEMMA InitRepair == Init => RepairInv
<1> SUFFICES ASSUME Init PROVE RepairInv
  OBVIOUS
<1>1. \A f : ~InUse(f)
  BY DEF Init, InUse, Due, Free, Idle
<1> QED
  BY <1>1, InitBook DEF Init, RepairInv, FramesNumbered, WantsUnique, AcksSettled, PassedServed,
     WantsServed, RepairIsCarried, Free, Idle

(* The invariant for two nodes is inductive.                                 *)
LEMMA RepairStep ==
    ASSUME TwoNodes
    PROVE  RepairInv /\ [Next]_vars => RepairInv'
<1> SUFFICES ASSUME RepairInv, [Next]_vars PROVE RepairInv'
  OBVIOUS
<1>1. Inv /\ BookInv
  BY DEF RepairInv, BookInv
<1>2. BookInv' /\ FramesNumbered' /\ WantsUnique'
  BY <1>1, BookStep, NumberedStep, UniqueStep DEF RepairInv
<1>4. AcksSettled'
  BY <1>1, AcksSettledStep DEF RepairInv
<1>3. PassedServed' /\ WantsServed' /\ RepairIsCarried'
  BY PassedStep, WantsServedStep, CarriedStep DEF RepairInv
<1> QED
  BY <1>2, <1>3, <1>4 DEF RepairInv

(* What stands behind WANT frames and repair rows in every reachable state of*)
(* two nodes.                                                                *)
THEOREM RepairInvariance ==
    ASSUME TwoNodes
    PROVE  Spec => []RepairInv
BY InitRepair, RepairStep, PTL DEF Spec

(* A WANT that its receiver has applied was served: every object it names is   *)
(* queued for the requester or in the requester's database, wherever a crash   *)
(* or a replay falls (_receive_want records the WANT last).                    *)
THEOREM WantsAreServed ==
    ASSUME TwoNodes
    PROVE  Spec => []WantServed
<1>1. RepairInv => WantServed
  BY DEF RepairInv, WantsServed, WantServed, Served, Settled
<1> QED
  BY <1>1, RepairInvariance, PTL

(* A row of repair_requests is always carried, by the WANT here or the object  *)
(* at the peer: no request is suppressed for ever on behalf of one that is     *)
(* gone (queue_want, resolve_repair).                                          *)
THEOREM RepairsAreCarried ==
    ASSUME TwoNodes
    PROVE  Spec => []RepairIsCarried
<1>1. RepairInv => RepairIsCarried
  BY DEF RepairInv
<1> QED
  BY <1>1, RepairInvariance, PTL
==============================================================================
