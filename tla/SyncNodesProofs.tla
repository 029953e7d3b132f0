--------------------------- MODULE SyncNodesProofs ---------------------------
(* What SyncNodes guarantees for every set of nodes, every content and every   *)
(* value of the bounds.                                                        *)
EXTENDS SyncNodes, TLAPS

------------------------------------------------------------------------------
(* The inductive invariant.                                                    *)

\* The identifier of a frame is of the kind its type says, and the sender of an
\* object's frame holds the object.
FrameOK(f) ==
    /\ f \in Frames
    /\ f.type = "THREAD" => f.id \in Thread
    /\ f.type = "SYNC_POST" => f.id \in Post
    /\ f.type \in {"SYNC", "WANT"} => f.id \in ControlId
    /\ f.type \in {"THREAD", "SYNC_POST"} => f.id \in store[f.src]

FramesOK ==
    /\ \A f \in net : FrameOK(f)
    /\ \A n \in Node : \A e \in outbox[n] \cup Due(n) :
           FrameOK(e) /\ e.src = n /\ e.type # "COMMIT_ACK"

\* What a callback knows of its frame at each stage; from "resolve" on, and at
\* "ack", the frame is durable.
JobOK(n, h) ==
    /\ FrameOK(h.frame)
    /\ h.frame.dst = n
    /\ h.stage = "wants" => h.frame.type \in {"SYNC", "SYNC_POST"}
    /\ h.stage = "reply" => h.frame.type = "SYNC"
    /\ h.stage = "objects" => h.frame.type = "WANT"
    /\ h.stage = "record" => h.frame.type \in {"SYNC", "WANT"}
    /\ h.stage = "resolve" => h.frame.type \in {"THREAD", "SYNC_POST"}
    /\ h.stage \in {"resolve", "ack"} => h.frame.id \in received[n]

HandlerOK == \A n \in Node : handler[n] # Idle => JobOK(n, handler[n])

ReceivedIsStored == \A n \in Node : received[n] \cap Object \subseteq store[n]

AcksOK == \A f \in net : f.type = "COMMIT_ACK" => f.id \in received[f.src]

Inv == TypeOK /\ FramesOK /\ HandlerOK /\ ReceivedIsStored /\ AcksOK /\ PostAfterThread

------------------------------------------------------------------------------
(* Frames and stages have the types they should.                               *)

LEMMA FrameType ==
    ASSUME NEW type \in Types, NEW id \in Ids, NEW src \in Node, NEW dst \in Node,
           NEW refs \in SUBSET Object, NEW reply \in BOOLEAN
    PROVE  Frame(type, id, src, dst, refs, reply) \in Frames
BY DEF Frame, Frames

LEMMA ObjectFrameType ==
    ASSUME NEW o \in Object, NEW src \in Node, NEW dst \in Node
    PROVE  /\ ObjectFrame(o, src, dst) \in Frames
           /\ ObjectFrame(o, src, dst).id = o
           /\ ObjectFrame(o, src, dst).src = src
           /\ ObjectFrame(o, src, dst).dst = dst
           /\ ObjectFrame(o, src, dst).type = IF o \in Thread THEN "THREAD" ELSE "SYNC_POST"
BY DEF ObjectFrame, Frame, Frames, Types, Ids

LEMMA FreshIdType ==
    ASSUME TypeOK, NEW n \in Node
    PROVE  FreshId(n) \in ControlId
BY DEF TypeOK, FreshId, ControlId

LEMMA ResponseIdType ==
    ASSUME NEW id \in ControlId, NEW page \in Nat
    PROVE  ResponseId(id, page) \in ControlId
BY DEF ResponseId, ControlId

LEMMA PageType ==
    ASSUME NEW refs, NEW size, NEW i
    PROVE  Page(refs, size, i) \subseteq refs
BY DEF Page

LEMMA JobType ==
    ASSUME NEW stage \in Stages, NEW f \in Frames, NEW todo \in SUBSET Object, NEW page \in Nat
    PROVE  Handling(stage, f, todo, page) \in Jobs
BY DEF Handling, Jobs

LEMMA AfterWantsType ==
    ASSUME TypeOK, NEW n \in Node, NEW f \in Frames
    PROVE  AfterWants(n, f) \in {Idle} \cup Jobs
BY DEF TypeOK, AfterWants, Handling, Jobs, Stages

LEMMA QueueWantsType ==
    ASSUME TypeOK, NEW n \in Node, NEW f \in Frames, NEW refs \in SUBSET Object
    PROVE  QueueWants(n, f, refs) \in {Idle} \cup Jobs
<1>1. Unrequested(n, f.src, refs) \in SUBSET Object
  BY DEF Unrequested
<1> QED BY <1>1, AfterWantsType, JobType DEF QueueWants, Stages

LEMMA DueType ==
    ASSUME TypeOK, NEW n \in Node
    PROVE  Due(n) \subseteq Frames
BY DEF TypeOK, Due, Calls, Free

LEMMA BusyType ==
    ASSUME TypeOK, NEW n \in Node, handler[n].stage \in Stages
    PROVE  handler[n] \in Jobs /\ handler[n] # Idle
BY DEF TypeOK, Idle, Stages, Jobs

LEMMA FrameIdType ==
    ASSUME NEW f, FrameOK(f), f.type \in {"SYNC", "WANT"}
    PROVE  f.id \in ControlId
BY DEF FrameOK

(* Every step keeps the types.                                                 *)
LEMMA TypeStep == Inv /\ [Next]_vars => TypeOK'
<1> SUFFICES ASSUME Inv, [Next]_vars PROVE TypeOK'
  OBVIOUS
<1> USE DEF Inv
<1>a. \A f \in net : f \in Frames /\ FrameOK(f)
  BY DEF TypeOK, FramesOK
<1>b. \A n \in Node : Due(n) \subseteq Frames
  BY DueType
<1>1. ASSUME NEW n \in Node, NEW t \in Thread, CreateThread(n, t) PROVE TypeOK'
  BY <1>1 DEF CreateThread, TypeOK, Object
<1>2. ASSUME NEW n \in Node, NEW p \in Post, CreatePost(n, p) PROVE TypeOK'
  BY <1>2 DEF CreatePost, TypeOK, Object
<1>3. ASSUME NEW n \in Node, NEW p \in Post, NEW peer \in Node, PublishPost(n, p, peer) PROVE TypeOK'
  <2>1. p \in Object /\ ObjectFrame(p, n, peer) \in Frames
    BY ObjectFrameType DEF Object
  <2> QED
    BY <1>3, <2>1 DEF PublishPost, TypeOK
<1>4. ASSUME NEW n \in Node, NEW peer \in Node, RequestSync(n, peer) PROVE TypeOK'
  BY <1>4 DEF RequestSync, TypeOK, durable, Calls, Free, Object
<1>5. ASSUME NEW n \in Node, QueueInventoryPage(n) PROVE TypeOK'
  <2> DEFINE call == app[n]
  <2>1. /\ call \in [op : {"inventory"}, peer : Node, refs : SUBSET Object, page : Nat]
        /\ call.peer \in Node /\ call.refs \in SUBSET Object /\ call.page \in Nat
    BY <1>5 DEF QueueInventoryPage, TypeOK, Calls, Free
  <2>2. Page(call.refs, SyncPage, call.page) \in SUBSET Object
    BY <2>1, PageType
  <2>3. Frame("SYNC", FreshId(n), n, call.peer, Page(call.refs, SyncPage, call.page),
              call.page = 0) \in Frames
    BY <2>1, <2>2, FreshIdType, FrameType DEF Types, Ids
  <2>4. [call EXCEPT !.page = @ + 1] \in Calls
    BY <2>1 DEF Calls
  <2> QED
    BY <1>5, <2>3, <2>4 DEF QueueInventoryPage, QueueFrame, TypeOK
<1>6. ASSUME NEW n \in Node, FlushBegin(n) PROVE TypeOK'
  BY <1>6 DEF FlushBegin, TypeOK, durable, Calls, Flushing
<1>7. ASSUME NEW n \in Node, NEW e \in Due(n), FlushEntry(n, e) PROVE TypeOK'
  BY <1>7, <1>b DEF FlushEntry, TypeOK, durable, Sent, Calls, Flushing
<1>8. ASSUME NEW n \in Node, NEW f \in net, ReceiveAck(n, f) PROVE TypeOK'
  BY <1>8, Bounds DEF ReceiveAck, TypeOK, Deliver
<1>9. ASSUME NEW n \in Node, NEW f \in net, ReceiveThread(n, f) PROVE TypeOK'
  <2>1. f.id \in Object /\ f.id \in Ids
    BY <1>9, <1>a DEF ReceiveThread, FrameOK, Object, Ids
  <2>2. Handling("resolve", f, {}, 0) \in Jobs
    BY <1>a, JobType DEF Stages
  <2> QED
    BY <1>9, <2>1, <2>2, Bounds DEF ReceiveThread, Deliver, Commit, TypeOK
<1>10. ASSUME NEW n \in Node, NEW f \in net, ReceiveSyncPost(n, f) PROVE TypeOK'
  <2>1. f.id \in Object /\ f.id \in Ids
    BY <1>10, <1>a DEF ReceiveSyncPost, FrameOK, Object, Ids
  <2>2. Handling("resolve", f, {}, 0) \in Jobs
    BY <1>a, JobType DEF Stages
  <2> QED
    BY <1>10, <2>1, <2>2, Bounds DEF ReceiveSyncPost, Deliver, Commit, TypeOK
<1>11. ASSUME NEW n \in Node, NEW f \in net, ReceiveEarlyPost(n, f) PROVE TypeOK'
  <2>1. f.id \in Post
    BY <1>11, <1>a DEF ReceiveEarlyPost, FrameOK
  <2>2. {ThreadOf[f.id]} \in SUBSET Object
    BY <2>1, ObjectIds DEF Object
  <2>3. QueueWants(n, f, {ThreadOf[f.id]}) \in {Idle} \cup Jobs
    BY <1>a, <2>2, QueueWantsType
  <2> QED
    BY <1>11, <2>3, Bounds DEF ReceiveEarlyPost, Deliver, durable, TypeOK
<1>12. ASSUME NEW n \in Node, NEW f \in net, ReceiveInventory(n, f) PROVE TypeOK'
  <2>1. f.refs \ store[n] \in SUBSET Object
    BY <1>a DEF Frames
  <2>2. Handling("ack", f, {}, 0) \in Jobs
    BY <1>a, JobType DEF Stages
  <2>3. QueueWants(n, f, f.refs \ store[n]) \in {Idle} \cup Jobs
    BY <1>a, <2>1, QueueWantsType
  <2> QED
    BY <1>12, <2>2, <2>3, Bounds DEF ReceiveInventory, FirstSight, Deliver, durable, TypeOK
<1>13. ASSUME NEW n \in Node, NEW f \in net, ReceiveWant(n, f) PROVE TypeOK'
  <2>1. f.refs \in SUBSET Object
    BY <1>a DEF Frames
  <2>2. Handling("ack", f, {}, 0) \in Jobs /\ Handling("objects", f, f.refs, 0) \in Jobs
    BY <1>a, <2>1, JobType DEF Stages
  <2> QED
    BY <1>13, <2>2, Bounds DEF ReceiveWant, FirstSight, Deliver, durable, TypeOK
<1>14. ASSUME NEW n \in Node, QueueWantPage(n) PROVE TypeOK'
  <2> DEFINE h == handler[n]
             refs == Page(h.todo, WantPage, 0)
  <2>1. h \in Jobs
    BY <1>14, BusyType DEF QueueWantPage, Stages
  <2>2. h.frame \in Frames /\ h.frame.src \in Node /\ h.todo \in SUBSET Object
    BY <2>1 DEF Jobs, Frames
  <2>3. refs \in SUBSET Object
    BY <2>2, PageType
  <2>4. Frame("WANT", FreshId(n), n, h.frame.src, refs, FALSE) \in Frames
    BY <2>2, <2>3, FreshIdType, FrameType DEF Types, Ids
  <2>5. AfterWants(n, h.frame) \in {Idle} \cup Jobs
    BY <2>2, AfterWantsType
  <2>6. [h EXCEPT !.todo = h.todo \ refs] \in Jobs
    BY <2>1, <2>2 DEF Jobs
  <2>7. RepairRows(h.frame.src, refs) \subseteq Node \X Object
    BY <2>2, <2>3 DEF RepairRows
  <2>8. repair' = [repair EXCEPT ![n] = @ \cup RepairRows(h.frame.src, refs)]
    BY <1>14 DEF QueueWantPage
  <2>9. repair' \in [Node -> SUBSET (Node \X Object)]
    BY <2>7, <2>8 DEF TypeOK
  <2> QED
    <3>1. handler' \in [Node -> {Idle} \cup Jobs]
      BY <1>14, <2>5, <2>6 DEF QueueWantPage, TypeOK
    <3>2. outbox' \in [Node -> SUBSET Frames]
      BY <1>14, <2>4 DEF QueueWantPage, TypeOK
    <3>3. mint' = [mint EXCEPT ![n] = @ + 1] /\ UNCHANGED <<store, received, app, net, faults>>
      BY <1>14 DEF QueueWantPage
    <3> QED
      BY <2>9, <3>1, <3>2, <3>3 DEF TypeOK
<1>15. ASSUME NEW n \in Node, QueueReplyPage(n) PROVE TypeOK'
  <2> DEFINE h == handler[n]
  <2>1. h \in Jobs /\ h # Idle
    BY <1>15, BusyType DEF QueueReplyPage, Stages
  <2>2. h.frame \in Frames /\ h.page \in Nat /\ h.todo \in SUBSET Object
    BY <2>1 DEF Jobs
  <2>3. ResponseId(h.frame.id, h.page) \in Ids
    BY <1>15, <2>1, <2>2, ResponseIdType, FrameIdType DEF QueueReplyPage, HandlerOK, JobOK, Ids
  <2>4. Page(h.todo, SyncPage, h.page) \in SUBSET Object
    BY <2>2, PageType
  <2>5. Frame("SYNC", ResponseId(h.frame.id, h.page), n, h.frame.src,
              Page(h.todo, SyncPage, h.page), FALSE) \in Frames
    BY <2>2, <2>3, <2>4, FrameType DEF Types, Frames
  <2>6. Handling("record", h.frame, {}, 0) \in Jobs
    BY <2>2, JobType DEF Stages
  <2>7. [h EXCEPT !.page = @ + 1] \in Jobs
    BY <2>1, <2>2 DEF Jobs
  <2> QED
    BY <1>15, <2>5, <2>6, <2>7 DEF QueueReplyPage, QueueFrame, TypeOK
<1>16. ASSUME NEW n \in Node, NEW o \in Object, QueueObject(n, o) PROVE TypeOK'
  <2>1. handler[n] \in Jobs
    BY <1>16, BusyType DEF QueueObject, Stages
  <2>2. handler[n].frame \in Frames /\ handler[n].frame.src \in Node
    BY <2>1 DEF Jobs, Frames
  <2>3. ObjectFrame(o, n, handler[n].frame.src) \in Frames
    BY <2>2, ObjectFrameType
  <2>4. Handling("record", handler[n].frame, {}, 0) \in Jobs
    BY <2>2, JobType DEF Stages
  <2>5. [handler[n] EXCEPT !.todo = @ \ {o}] \in Jobs
    BY <2>1 DEF Jobs
  <2> QED
    BY <1>16, <2>3, <2>4, <2>5 DEF QueueObject, QueueFrame, TypeOK
<1>17. ASSUME NEW n \in Node, NEW o \in Object, AbandonWant(n, o) PROVE TypeOK'
  BY <1>17 DEF AbandonWant, TypeOK, durable
<1>18. ASSUME NEW n \in Node, RecordControl(n) PROVE TypeOK'
  <2>1. handler[n].frame \in Frames
    BY <1>18, BusyType DEF RecordControl, Stages, Jobs
  <2>2. Handling("ack", handler[n].frame, {}, 0) \in Jobs
    BY <2>1, JobType DEF Stages
  <2>3. handler[n].frame.id \in Ids
    BY <2>1 DEF Frames
  <2> QED
    BY <1>18, <2>2, <2>3 DEF RecordControl, TypeOK
<1>19. ASSUME NEW n \in Node, ResolveRepair(n) PROVE TypeOK'
  <2>1. handler[n].frame \in Frames
    BY <1>19, BusyType DEF ResolveRepair, Stages, Jobs
  <2>2. Handling("ack", handler[n].frame, {}, 0) \in Jobs
    BY <2>1, JobType DEF Stages
  <2> QED
    BY <1>19, <2>2 DEF ResolveRepair, TypeOK
<1>20. ASSUME NEW n \in Node, Acknowledge(n) PROVE TypeOK'
  <2>1. handler[n].frame \in Frames
    BY <1>20, BusyType DEF Acknowledge, Stages, Jobs
  <2>2. AckOf(handler[n].frame) \in Frames
    BY <2>1 DEF AckOf, Frame, Frames, Types
  <2> QED
    BY <1>20, <2>2 DEF Acknowledge, TypeOK, durable, Sent
<1>21. ASSUME NEW f \in net, Lose(f) PROVE TypeOK'
  BY <1>21, Bounds DEF Lose, TypeOK, durable
<1>22. ASSUME NEW n \in Node, Crash(n) PROVE TypeOK'
  BY <1>22, Bounds DEF Crash, TypeOK, durable
<1>23. CASE UNCHANGED vars
  BY <1>23 DEF vars, TypeOK
<1> QED
  BY <1>1, <1>2, <1>3, <1>4, <1>5, <1>6, <1>7, <1>8, <1>9, <1>10, <1>11, <1>12, <1>13, <1>14, <1>15, <1>16, <1>17, <1>18, <1>19, <1>20, <1>21, <1>22, <1>23 DEF Next, User, Flush, Receive, Handle
------------------------------------------------------------------------------
(* A node forgets neither objects nor identifiers.                             *)
LEMMA Grows ==
    ASSUME TypeOK, [Next]_vars, NEW m \in Node
    PROVE  store[m] \subseteq store'[m] /\ received[m] \subseteq received'[m]
<1> DEFINE Goal == store[m] \subseteq store'[m] /\ received[m] \subseteq received'[m]
<1>1. ASSUME NEW n \in Node, NEW t \in Thread, CreateThread(n, t) PROVE Goal
  BY <1>1 DEF CreateThread, TypeOK
<1>2. ASSUME NEW n \in Node, NEW p \in Post, CreatePost(n, p) PROVE Goal
  BY <1>2 DEF CreatePost, TypeOK
<1>3. ASSUME NEW n \in Node, NEW p \in Post, NEW peer \in Node, PublishPost(n, p, peer) PROVE Goal
  BY <1>3 DEF PublishPost, TypeOK
<1>4. ASSUME NEW n \in Node, NEW peer \in Node, RequestSync(n, peer) PROVE Goal
  BY <1>4 DEF RequestSync, durable, TypeOK
<1>5. ASSUME NEW n \in Node, QueueInventoryPage(n) PROVE Goal
  BY <1>5 DEF QueueInventoryPage, TypeOK
<1>6. ASSUME NEW n \in Node, FlushBegin(n) PROVE Goal
  BY <1>6 DEF FlushBegin, durable, TypeOK
<1>7. ASSUME NEW n \in Node, NEW e \in Due(n), FlushEntry(n, e) PROVE Goal
  BY <1>7 DEF FlushEntry, durable, TypeOK
<1>8. ASSUME NEW n \in Node, NEW f \in net, ReceiveAck(n, f) PROVE Goal
  BY <1>8 DEF ReceiveAck, Deliver, TypeOK
<1>9. ASSUME NEW n \in Node, NEW f \in net, ReceiveThread(n, f) PROVE Goal
  BY <1>9 DEF ReceiveThread, Deliver, Commit, TypeOK
<1>10. ASSUME NEW n \in Node, NEW f \in net, ReceiveSyncPost(n, f) PROVE Goal
  BY <1>10 DEF ReceiveSyncPost, Deliver, Commit, TypeOK
<1>11. ASSUME NEW n \in Node, NEW f \in net, ReceiveEarlyPost(n, f) PROVE Goal
  BY <1>11 DEF ReceiveEarlyPost, Deliver, durable, TypeOK
<1>12. ASSUME NEW n \in Node, NEW f \in net, ReceiveInventory(n, f) PROVE Goal
  BY <1>12 DEF ReceiveInventory, FirstSight, Deliver, durable, TypeOK
<1>13. ASSUME NEW n \in Node, NEW f \in net, ReceiveWant(n, f) PROVE Goal
  BY <1>13 DEF ReceiveWant, Deliver, durable, TypeOK
<1>14. ASSUME NEW n \in Node, QueueWantPage(n) PROVE Goal
  BY <1>14 DEF QueueWantPage, TypeOK
<1>15. ASSUME NEW n \in Node, QueueReplyPage(n) PROVE Goal
  BY <1>15 DEF QueueReplyPage, TypeOK
<1>16. ASSUME NEW n \in Node, NEW o \in Object, QueueObject(n, o) PROVE Goal
  BY <1>16 DEF QueueObject, TypeOK
<1>17. ASSUME NEW n \in Node, NEW o \in Object, AbandonWant(n, o) PROVE Goal
  BY <1>17 DEF AbandonWant, durable, TypeOK
<1>18. ASSUME NEW n \in Node, RecordControl(n) PROVE Goal
  BY <1>18 DEF RecordControl, TypeOK
<1>19. ASSUME NEW n \in Node, ResolveRepair(n) PROVE Goal
  BY <1>19 DEF ResolveRepair, TypeOK
<1>20. ASSUME NEW n \in Node, Acknowledge(n) PROVE Goal
  BY <1>20 DEF Acknowledge, durable, TypeOK
<1>21. ASSUME NEW f \in net, Lose(f) PROVE Goal
  BY <1>21 DEF Lose, durable, TypeOK
<1>22. ASSUME NEW n \in Node, Crash(n) PROVE Goal
  BY <1>22 DEF Crash, durable, TypeOK
<1>23. CASE UNCHANGED vars
  BY <1>23 DEF vars, TypeOK
<1> QED
  BY <1>1, <1>2, <1>3, <1>4, <1>5, <1>6, <1>7, <1>8, <1>9, <1>10, <1>11, <1>12, <1>13, <1>14, <1>15, <1>16, <1>17, <1>18, <1>19, <1>20, <1>21, <1>22, <1>23 DEF Next, User, Flush, Receive, Handle
------------------------------------------------------------------------------
(* Consequences of growth for what Inv says of frames and jobs.                *)
LEMMA FrameStays ==
    ASSUME TypeOK, [Next]_vars, NEW f, FrameOK(f)
    PROVE  FrameOK(f)'
<1>1. f \in Frames /\ f.src \in Node
  BY DEF FrameOK, Frames
<1> QED
  BY <1>1, Grows DEF FrameOK

LEMMA JobStays ==
    ASSUME TypeOK, [Next]_vars, NEW n \in Node, NEW h, JobOK(n, h)
    PROVE  JobOK(n, h)'
<1>1. FrameOK(h.frame)'
  BY FrameStays DEF JobOK
<1> QED
  BY <1>1, Grows DEF JobOK

LEMMA ObjectFrameOK ==
    ASSUME NEW o \in Object, NEW src \in Node, NEW dst \in Node, o \in store[src]
    PROVE  FrameOK(ObjectFrame(o, src, dst))
BY ObjectFrameType DEF FrameOK, Object

LEMMA AckOfOK ==
    ASSUME NEW f \in Frames
    PROVE  /\ FrameOK(AckOf(f))
           /\ AckOf(f).type = "COMMIT_ACK" /\ AckOf(f).id = f.id /\ AckOf(f).src = f.dst
BY DEF FrameOK, AckOf, Frame, Frames, Types

LEMMA FramesStep == Inv /\ [Next]_vars => FramesOK'
<1> SUFFICES ASSUME Inv, [Next]_vars PROVE FramesOK'
  OBVIOUS
<1>t. TypeOK
  BY DEF Inv
<1>net. \A f \in net : FrameOK(f)'
  BY <1>t, FrameStays DEF Inv, FramesOK
<1>box. \A n \in Node : \A e \in outbox[n] \cup Due(n) :
            FrameOK(e)' /\ e.src = n /\ e.type # "COMMIT_ACK"
  BY <1>t, FrameStays DEF Inv, FramesOK
<1>1. ASSUME NEW n \in Node, NEW t \in Thread, CreateThread(n, t) PROVE FramesOK'
  BY <1>1, <1>net, <1>box, <1>t DEF CreateThread, FramesOK, Due
<1>2. ASSUME NEW n \in Node, NEW p \in Post, CreatePost(n, p) PROVE FramesOK'
  BY <1>2, <1>net, <1>box, <1>t DEF CreatePost, FramesOK, Due
<1>3. ASSUME NEW n \in Node, NEW p \in Post, NEW peer \in Node, PublishPost(n, p, peer) PROVE FramesOK'
  <2> DEFINE x == ObjectFrame(p, n, peer)
  <2>1. p \in Object /\ x \in Frames /\ x.id = p /\ x.src = n /\ x.type = "SYNC_POST"
    BY ObjectFrameType, ObjectIds DEF Object
  <2>2. p \in store'[n]
    BY <1>3, <1>t DEF PublishPost, TypeOK
  <2>3. FrameOK(x)'
    BY <2>1, <2>2 DEF FrameOK
  <2>4. \A m \in Node : \A e \in outbox'[m] : e \in outbox[m] \/ (m = n /\ e = x)
    BY <1>3, <1>t DEF PublishPost, TypeOK
  <2> QED
    BY <1>3, <1>net, <1>box, <2>1, <2>3, <2>4 DEF PublishPost, FramesOK, Due
<1>4. ASSUME NEW n \in Node, NEW peer \in Node, RequestSync(n, peer) PROVE FramesOK'
  BY <1>4, <1>net, <1>box, <1>t DEF RequestSync, durable, FramesOK, Due
<1>5. ASSUME NEW n \in Node, QueueInventoryPage(n) PROVE FramesOK'
  <2> DEFINE call == app[n]
  <2>1. call.peer \in Node /\ call.refs \in SUBSET Object
    BY <1>5, <1>t DEF QueueInventoryPage, TypeOK, Calls, Free
  <2>2. Page(call.refs, SyncPage, call.page) \in SUBSET Object
    BY <2>1, PageType
  <2>x. PICK x : x = Frame("SYNC", FreshId(n), n, call.peer,
                          Page(call.refs, SyncPage, call.page), call.page = 0)
    OBVIOUS
  <2>a. FreshId(n) \in ControlId /\ (call.page = 0) \in BOOLEAN
    BY <1>t, FreshIdType
  <2>3. FrameOK(x) /\ x.src = n /\ x.type # "COMMIT_ACK"
    BY <2>1, <2>2, <2>a, <2>x DEF FrameOK, Frame, Frames, Types, Ids
  <2>4. FrameOK(x)'
    BY <1>t, <2>3, FrameStays
  <2>5. \A m \in Node : \A e \in outbox'[m] : e \in outbox[m] \/ (m = n /\ e = x)
    BY <1>5, <1>t, <2>x DEF QueueInventoryPage, QueueFrame, TypeOK
  <2>6. \A m \in Node : Due(m)' \subseteq Due(m)
    BY <1>5, <1>t DEF QueueInventoryPage, TypeOK, Due, Free
  <2> QED
    BY <1>5, <1>net, <1>box, <2>3, <2>4, <2>5, <2>6 DEF QueueInventoryPage, FramesOK
<1>6. ASSUME NEW n \in Node, FlushBegin(n) PROVE FramesOK'
  <2>1. \A m \in Node : Due(m)' \subseteq Due(m) \cup outbox[m]
    BY <1>6, <1>t DEF FlushBegin, TypeOK, Due, Flushing
  <2> QED
    BY <1>6, <1>net, <1>box, <2>1 DEF FlushBegin, durable, FramesOK
<1>7. ASSUME NEW n \in Node, NEW e \in Due(n), FlushEntry(n, e) PROVE FramesOK'
  <2>1. \A m \in Node : Due(m)' \subseteq Due(m)
    BY <1>7, <1>t DEF FlushEntry, TypeOK, Due, Flushing, Free
  <2>2. \A f \in net' : f \in net \/ f = e
    BY <1>7 DEF FlushEntry, Sent
  <2> QED
    BY <1>7, <1>net, <1>box, <2>1, <2>2 DEF FlushEntry, durable, FramesOK
<1>8. ASSUME NEW n \in Node, NEW f \in net, ReceiveAck(n, f) PROVE FramesOK'
  BY <1>8, <1>net, <1>box, <1>t DEF ReceiveAck, Deliver, FramesOK, Due
<1>9. ASSUME NEW n \in Node, NEW f \in net, ReceiveThread(n, f) PROVE FramesOK'
  BY <1>9, <1>net, <1>box, <1>t DEF ReceiveThread, Deliver, Commit, FramesOK, Due
<1>10. ASSUME NEW n \in Node, NEW f \in net, ReceiveSyncPost(n, f) PROVE FramesOK'
  BY <1>10, <1>net, <1>box, <1>t DEF ReceiveSyncPost, Deliver, Commit, FramesOK, Due
<1>11. ASSUME NEW n \in Node, NEW f \in net, ReceiveEarlyPost(n, f) PROVE FramesOK'
  BY <1>11, <1>net, <1>box, <1>t DEF ReceiveEarlyPost, Deliver, durable, FramesOK, Due
<1>12. ASSUME NEW n \in Node, NEW f \in net, ReceiveInventory(n, f) PROVE FramesOK'
  BY <1>12, <1>net, <1>box, <1>t DEF ReceiveInventory, Deliver, durable, FramesOK, Due
<1>13. ASSUME NEW n \in Node, NEW f \in net, ReceiveWant(n, f) PROVE FramesOK'
  BY <1>13, <1>net, <1>box, <1>t DEF ReceiveWant, Deliver, durable, FramesOK, Due
<1>14. ASSUME NEW n \in Node, QueueWantPage(n) PROVE FramesOK'
  <2> DEFINE h == handler[n]
             refs == Page(h.todo, WantPage, 0)
  <2>1. h \in Jobs
    BY <1>14, <1>t, BusyType DEF QueueWantPage, Stages
  <2>2. h.frame.src \in Node /\ refs \in SUBSET Object
    BY <2>1, PageType DEF Jobs, Frames
  <2>x. PICK x : x = Frame("WANT", FreshId(n), n, h.frame.src, refs, FALSE)
    OBVIOUS
  <2>a. FreshId(n) \in ControlId
    BY <1>t, FreshIdType
  <2>3. FrameOK(x) /\ x.src = n /\ x.type # "COMMIT_ACK"
    BY <2>2, <2>a, <2>x DEF FrameOK, Frame, Frames, Types, Ids
  <2>4. FrameOK(x)'
    BY <1>t, <2>3, FrameStays
  <2>5. \A m \in Node : \A e \in outbox'[m] : e \in outbox[m] \/ (m = n /\ e = x)
    BY <1>14, <1>t, <2>x DEF QueueWantPage, TypeOK
  <2> QED
    BY <1>14, <1>net, <1>box, <2>3, <2>4, <2>5 DEF QueueWantPage, FramesOK, Due
<1>15. ASSUME NEW n \in Node, QueueReplyPage(n) PROVE FramesOK'
  <2> DEFINE h == handler[n]
  <2>1. h \in Jobs /\ h # Idle
    BY <1>15, <1>t, BusyType DEF QueueReplyPage, Stages
  <2>2. /\ h.frame.src \in Node /\ h.page \in Nat
        /\ Page(h.todo, SyncPage, h.page) \in SUBSET Object
    BY <2>1, PageType DEF Jobs, Frames
  <2>3. ResponseId(h.frame.id, h.page) \in ControlId
    BY <1>15, <2>1, <2>2, ResponseIdType, FrameIdType DEF QueueReplyPage, Inv, HandlerOK, JobOK
  <2>x. PICK x : x = Frame("SYNC", ResponseId(h.frame.id, h.page), n, h.frame.src,
                          Page(h.todo, SyncPage, h.page), FALSE)
    OBVIOUS
  <2>4. FrameOK(x) /\ x.src = n /\ x.type # "COMMIT_ACK"
    BY <2>2, <2>3, <2>x DEF FrameOK, Frame, Frames, Types, Ids
  <2>5. FrameOK(x)'
    BY <1>t, <2>4, FrameStays
  <2>6. \A m \in Node : \A e \in outbox'[m] : e \in outbox[m] \/ (m = n /\ e = x)
    BY <1>15, <1>t, <2>x DEF QueueReplyPage, QueueFrame, TypeOK
  <2> QED
    BY <1>15, <1>net, <1>box, <2>4, <2>5, <2>6 DEF QueueReplyPage, FramesOK, Due
<1>16. ASSUME NEW n \in Node, NEW o \in Object, QueueObject(n, o) PROVE FramesOK'
  <2>x. PICK x : x = ObjectFrame(o, n, handler[n].frame.src)
    OBVIOUS
  <2>1. handler[n].frame.src \in Node
    BY <1>16, <1>t, BusyType DEF QueueObject, Stages, Jobs, Frames
  <2>2. FrameOK(x) /\ x.src = n /\ x.type # "COMMIT_ACK"
    BY <1>16, <2>1, <2>x, ObjectFrameOK, ObjectFrameType DEF QueueObject, Sendable
  <2>3. FrameOK(x)'
    BY <1>t, <2>2, FrameStays
  <2>4. \A m \in Node : \A e \in outbox'[m] : e \in outbox[m] \/ (m = n /\ e = x)
    BY <1>16, <1>t, <2>x DEF QueueObject, QueueFrame, TypeOK
  <2> QED
    BY <1>16, <1>net, <1>box, <2>2, <2>3, <2>4 DEF QueueObject, FramesOK, Due
<1>17. ASSUME NEW n \in Node, NEW o \in Object, AbandonWant(n, o) PROVE FramesOK'
  BY <1>17, <1>net, <1>box, <1>t DEF AbandonWant, durable, FramesOK, Due
<1>18. ASSUME NEW n \in Node, RecordControl(n) PROVE FramesOK'
  BY <1>18, <1>net, <1>box, <1>t DEF RecordControl, FramesOK, Due
<1>19. ASSUME NEW n \in Node, ResolveRepair(n) PROVE FramesOK'
  BY <1>19, <1>net, <1>box, <1>t DEF ResolveRepair, FramesOK, Due
<1>20. ASSUME NEW n \in Node, Acknowledge(n) PROVE FramesOK'
  <2>x. PICK x : x = AckOf(handler[n].frame)
    OBVIOUS
  <2>1. handler[n].frame \in Frames
    BY <1>20, <1>t, BusyType DEF Acknowledge, Stages, Jobs
  <2>2. FrameOK(x)'
    BY <1>t, <2>1, <2>x, AckOfOK, FrameStays
  <2>3. \A f \in net' : f \in net \/ f = x
    BY <1>20, <2>x DEF Acknowledge, Sent
  <2> QED
    BY <1>20, <1>net, <1>box, <2>2, <2>3 DEF Acknowledge, durable, FramesOK, Due
<1>21. ASSUME NEW f \in net, Lose(f) PROVE FramesOK'
  BY <1>21, <1>net, <1>box, <1>t DEF Lose, durable, FramesOK, Due
<1>22. ASSUME NEW n \in Node, Crash(n) PROVE FramesOK'
  <2>1. \A m \in Node : Due(m)' \subseteq Due(m)
    BY <1>22, <1>t DEF Crash, TypeOK, Due, Free
  <2> QED
    BY <1>22, <1>net, <1>box, <2>1 DEF Crash, durable, FramesOK
<1>23. CASE UNCHANGED vars
  BY <1>23, <1>net, <1>box, <1>t DEF vars, FramesOK, Due
<1> QED
  BY <1>1, <1>2, <1>3, <1>4, <1>5, <1>6, <1>7, <1>8, <1>9, <1>10, <1>11, <1>12, <1>13, <1>14, <1>15, <1>16, <1>17, <1>18, <1>19, <1>20, <1>21, <1>22, <1>23 DEF Next, User, Flush, Receive, Handle

(* Every step keeps what callbacks know of their frames.                       *)
LEMMA HandlerStep == Inv /\ [Next]_vars => HandlerOK'
<1> SUFFICES ASSUME Inv, [Next]_vars PROVE HandlerOK'
  OBVIOUS
<1>t. TypeOK
  BY DEF Inv
<1>net. \A f \in net : FrameOK(f) /\ FrameOK(f)'
  BY <1>t, FrameStays DEF Inv, FramesOK
<1>h. \A n \in Node : \A h : h = handler[n] /\ h # Idle => JobOK(n, h)'
  BY <1>t, JobStays DEF Inv, HandlerOK
<1>1. ASSUME NEW n \in Node, NEW t \in Thread, CreateThread(n, t) PROVE HandlerOK'
  BY <1>1, <1>t, <1>h DEF CreateThread, HandlerOK, TypeOK
<1>2. ASSUME NEW n \in Node, NEW p \in Post, CreatePost(n, p) PROVE HandlerOK'
  BY <1>2, <1>t, <1>h DEF CreatePost, HandlerOK, TypeOK
<1>3. ASSUME NEW n \in Node, NEW p \in Post, NEW peer \in Node, PublishPost(n, p, peer) PROVE HandlerOK'
  BY <1>3, <1>t, <1>h DEF PublishPost, HandlerOK, TypeOK
<1>4. ASSUME NEW n \in Node, NEW peer \in Node, RequestSync(n, peer) PROVE HandlerOK'
  BY <1>4, <1>t, <1>h DEF RequestSync, durable, HandlerOK, TypeOK
<1>5. ASSUME NEW n \in Node, QueueInventoryPage(n) PROVE HandlerOK'
  BY <1>5, <1>t, <1>h DEF QueueInventoryPage, HandlerOK, TypeOK
<1>6. ASSUME NEW n \in Node, FlushBegin(n) PROVE HandlerOK'
  BY <1>6, <1>t, <1>h DEF FlushBegin, durable, HandlerOK, TypeOK
<1>7. ASSUME NEW n \in Node, NEW e \in Due(n), FlushEntry(n, e) PROVE HandlerOK'
  BY <1>7, <1>t, <1>h DEF FlushEntry, durable, HandlerOK, TypeOK
<1>8. ASSUME NEW n \in Node, NEW f \in net, ReceiveAck(n, f) PROVE HandlerOK'
  BY <1>8, <1>t, <1>h DEF ReceiveAck, Deliver, HandlerOK, TypeOK
<1>9. ASSUME NEW n \in Node, NEW f \in net, ReceiveThread(n, f) PROVE HandlerOK'
  <2>1. FrameOK(f)' /\ f.dst = n
    BY <1>9, <1>net DEF ReceiveThread, Deliver
  <2>2. \A m \in Node : m # n => handler'[m] = handler[m]
    BY <1>9, <1>t DEF ReceiveThread, TypeOK
  <2>g. PICK g : g = handler'[n]
    OBVIOUS
  <2>3. g # Idle => JobOK(n, g)'
    BY <1>9, <1>t, <2>1, <2>g DEF ReceiveThread, Commit, TypeOK, JobOK, Handling
  <2> QED
    BY <1>h, <2>2, <2>3, <2>g DEF HandlerOK
<1>10. ASSUME NEW n \in Node, NEW f \in net, ReceiveSyncPost(n, f) PROVE HandlerOK'
  <2>1. FrameOK(f)' /\ f.dst = n
    BY <1>10, <1>net DEF ReceiveSyncPost, Deliver
  <2>2. \A m \in Node : m # n => handler'[m] = handler[m]
    BY <1>10, <1>t DEF ReceiveSyncPost, TypeOK
  <2>g. PICK g : g = handler'[n]
    OBVIOUS
  <2>3. g # Idle => JobOK(n, g)'
    BY <1>10, <1>t, <2>1, <2>g DEF ReceiveSyncPost, Commit, TypeOK, JobOK, Handling
  <2> QED
    BY <1>h, <2>2, <2>3, <2>g DEF HandlerOK
<1>11. ASSUME NEW n \in Node, NEW f \in net, ReceiveEarlyPost(n, f) PROVE HandlerOK'
  <2>1. FrameOK(f)' /\ f.dst = n
    BY <1>11, <1>net DEF ReceiveEarlyPost, Deliver
  <2>2. \A m \in Node : m # n => handler'[m] = handler[m]
    BY <1>11, <1>t DEF ReceiveEarlyPost, TypeOK
  <2>g. PICK g : g = handler'[n]
    OBVIOUS
  <2>3. g # Idle => JobOK(n, g)'
    BY <1>11, <1>t, <2>1, <2>g DEF ReceiveEarlyPost, QueueWants, AfterWants, TypeOK, JobOK, Handling
  <2> QED
    BY <1>h, <2>2, <2>3, <2>g DEF HandlerOK
<1>12. ASSUME NEW n \in Node, NEW f \in net, ReceiveInventory(n, f) PROVE HandlerOK'
  <2>1. FrameOK(f)' /\ f.dst = n
    BY <1>12, <1>net DEF ReceiveInventory, Deliver
  <2>2. \A m \in Node : m # n => handler'[m] = handler[m]
    BY <1>12, <1>t DEF ReceiveInventory, TypeOK
  <2>g. PICK g : g = handler'[n]
    OBVIOUS
  <2>3. g # Idle => JobOK(n, g)'
    BY <1>12, <1>t, <2>1, <2>g DEF ReceiveInventory, FirstSight, durable, QueueWants, AfterWants, TypeOK, JobOK, Handling
  <2> QED
    BY <1>h, <2>2, <2>3, <2>g DEF HandlerOK
<1>13. ASSUME NEW n \in Node, NEW f \in net, ReceiveWant(n, f) PROVE HandlerOK'
  <2>1. FrameOK(f)' /\ f.dst = n
    BY <1>13, <1>net DEF ReceiveWant, Deliver
  <2>2. \A m \in Node : m # n => handler'[m] = handler[m]
    BY <1>13, <1>t DEF ReceiveWant, TypeOK
  <2>g. PICK g : g = handler'[n]
    OBVIOUS
  <2>3. g # Idle => JobOK(n, g)'
    BY <1>13, <1>t, <2>1, <2>g DEF ReceiveWant, FirstSight, durable, TypeOK, JobOK, Handling
  <2> QED
    BY <1>h, <2>2, <2>3, <2>g DEF HandlerOK
<1>14. ASSUME NEW n \in Node, QueueWantPage(n) PROVE HandlerOK'
  <2>h. PICK h : h = handler[n]
    OBVIOUS
  <2>1. JobOK(n, h) /\ JobOK(n, h)'
    BY <1>14, <1>t, <1>h, <2>h, BusyType DEF QueueWantPage, Stages, Inv, HandlerOK
  <2>2. \A m \in Node : m # n => handler'[m] = handler[m]
    BY <1>14, <1>t DEF QueueWantPage, TypeOK
  <2>g. PICK g : g = handler'[n]
    OBVIOUS
  <2>3. g # Idle => JobOK(n, g)'
    BY <1>14, <1>t, <2>1, <2>g, <2>h DEF QueueWantPage, AfterWants, TypeOK, JobOK, Handling
  <2> QED
    BY <1>h, <2>2, <2>3, <2>g DEF HandlerOK
<1>15. ASSUME NEW n \in Node, QueueReplyPage(n) PROVE HandlerOK'
  <2>h. PICK h : h = handler[n]
    OBVIOUS
  <2>1. JobOK(n, h) /\ JobOK(n, h)'
    BY <1>15, <1>t, <1>h, <2>h, BusyType DEF QueueReplyPage, Stages, Inv, HandlerOK
  <2>2. \A m \in Node : m # n => handler'[m] = handler[m]
    BY <1>15, <1>t DEF QueueReplyPage, TypeOK
  <2>g. PICK g : g = handler'[n]
    OBVIOUS
  <2>3. g # Idle => JobOK(n, g)'
    BY <1>15, <1>t, <2>1, <2>g, <2>h DEF QueueReplyPage, TypeOK, JobOK, Handling
  <2> QED
    BY <1>h, <2>2, <2>3, <2>g DEF HandlerOK
<1>16. ASSUME NEW n \in Node, NEW o \in Object, QueueObject(n, o) PROVE HandlerOK'
  <2>h. PICK h : h = handler[n]
    OBVIOUS
  <2>1. JobOK(n, h) /\ JobOK(n, h)'
    BY <1>16, <1>t, <1>h, <2>h, BusyType DEF QueueObject, Stages, Inv, HandlerOK
  <2>2. \A m \in Node : m # n => handler'[m] = handler[m]
    BY <1>16, <1>t DEF QueueObject, TypeOK
  <2>g. PICK g : g = handler'[n]
    OBVIOUS
  <2>3. g # Idle => JobOK(n, g)'
    BY <1>16, <1>t, <2>1, <2>g, <2>h DEF QueueObject, TypeOK, JobOK, Handling
  <2> QED
    BY <1>h, <2>2, <2>3, <2>g DEF HandlerOK
<1>17. ASSUME NEW n \in Node, NEW o \in Object, AbandonWant(n, o) PROVE HandlerOK'
  BY <1>17, <1>t, <1>h DEF AbandonWant, durable, HandlerOK, TypeOK
<1>18. ASSUME NEW n \in Node, RecordControl(n) PROVE HandlerOK'
  <2>h. PICK h : h = handler[n]
    OBVIOUS
  <2>1. JobOK(n, h) /\ JobOK(n, h)'
    BY <1>18, <1>t, <1>h, <2>h, BusyType DEF RecordControl, Stages, Inv, HandlerOK
  <2>2. \A m \in Node : m # n => handler'[m] = handler[m]
    BY <1>18, <1>t DEF RecordControl, TypeOK
  <2>g. PICK g : g = handler'[n]
    OBVIOUS
  <2>3. g # Idle => JobOK(n, g)'
    BY <1>18, <1>t, <2>1, <2>g, <2>h DEF RecordControl, TypeOK, JobOK, Handling
  <2> QED
    BY <1>h, <2>2, <2>3, <2>g DEF HandlerOK
<1>19. ASSUME NEW n \in Node, ResolveRepair(n) PROVE HandlerOK'
  <2>h. PICK h : h = handler[n]
    OBVIOUS
  <2>1. JobOK(n, h) /\ JobOK(n, h)'
    BY <1>19, <1>t, <1>h, <2>h, BusyType DEF ResolveRepair, Stages, Inv, HandlerOK
  <2>2. \A m \in Node : m # n => handler'[m] = handler[m]
    BY <1>19, <1>t DEF ResolveRepair, TypeOK
  <2>g. PICK g : g = handler'[n]
    OBVIOUS
  <2>3. g # Idle => JobOK(n, g)'
    BY <1>19, <1>t, <2>1, <2>g, <2>h DEF ResolveRepair, TypeOK, JobOK, Handling
  <2> QED
    BY <1>h, <2>2, <2>3, <2>g DEF HandlerOK
<1>20. ASSUME NEW n \in Node, Acknowledge(n) PROVE HandlerOK'
  BY <1>20, <1>t, <1>h DEF Acknowledge, durable, HandlerOK, TypeOK
<1>21. ASSUME NEW f \in net, Lose(f) PROVE HandlerOK'
  BY <1>21, <1>t, <1>h DEF Lose, durable, HandlerOK, TypeOK
<1>22. ASSUME NEW n \in Node, Crash(n) PROVE HandlerOK'
  BY <1>22, <1>t, <1>h DEF Crash, durable, HandlerOK, TypeOK
<1>23. CASE UNCHANGED vars
  BY <1>23, <1>t, <1>h DEF vars, HandlerOK, TypeOK
<1> QED
  BY <1>1, <1>2, <1>3, <1>4, <1>5, <1>6, <1>7, <1>8, <1>9, <1>10, <1>11, <1>12, <1>13, <1>14, <1>15, <1>16, <1>17, <1>18, <1>19, <1>20, <1>21, <1>22, <1>23 DEF Next, User, Flush, Receive, Handle

(* Every step keeps what acknowledgements promise.                             *)
LEMMA AcksStep == Inv /\ [Next]_vars => AcksOK'
<1> SUFFICES ASSUME Inv, [Next]_vars PROVE AcksOK'
  OBVIOUS
<1>t. TypeOK
  BY DEF Inv
<1>net. \A f \in net : f.type = "COMMIT_ACK" => f.id \in received'[f.src]
  <2>1. \A f \in net : f.src \in Node
    BY DEF Inv, FramesOK, FrameOK, Frames
  <2> QED
    BY <1>t, <2>1, Grows DEF Inv, AcksOK
<1>1. ASSUME NEW n \in Node, NEW t \in Thread, CreateThread(n, t) PROVE AcksOK'
  BY <1>1, <1>net DEF CreateThread, AcksOK
<1>2. ASSUME NEW n \in Node, NEW p \in Post, CreatePost(n, p) PROVE AcksOK'
  BY <1>2, <1>net DEF CreatePost, AcksOK
<1>3. ASSUME NEW n \in Node, NEW p \in Post, NEW peer \in Node, PublishPost(n, p, peer) PROVE AcksOK'
  BY <1>3, <1>net DEF PublishPost, AcksOK
<1>4. ASSUME NEW n \in Node, NEW peer \in Node, RequestSync(n, peer) PROVE AcksOK'
  BY <1>4, <1>net DEF RequestSync, durable, AcksOK
<1>5. ASSUME NEW n \in Node, QueueInventoryPage(n) PROVE AcksOK'
  BY <1>5, <1>net DEF QueueInventoryPage, AcksOK
<1>6. ASSUME NEW n \in Node, FlushBegin(n) PROVE AcksOK'
  BY <1>6, <1>net DEF FlushBegin, durable, AcksOK
<1>7. ASSUME NEW n \in Node, NEW e \in Due(n), FlushEntry(n, e) PROVE AcksOK'
  BY <1>7, <1>net DEF Inv, FramesOK, FlushEntry, Sent, durable, AcksOK
<1>8. ASSUME NEW n \in Node, NEW f \in net, ReceiveAck(n, f) PROVE AcksOK'
  BY <1>8, <1>net DEF ReceiveAck, Deliver, AcksOK
<1>9. ASSUME NEW n \in Node, NEW f \in net, ReceiveThread(n, f) PROVE AcksOK'
  BY <1>9, <1>net DEF ReceiveThread, Deliver, Commit, AcksOK
<1>10. ASSUME NEW n \in Node, NEW f \in net, ReceiveSyncPost(n, f) PROVE AcksOK'
  BY <1>10, <1>net DEF ReceiveSyncPost, Deliver, Commit, AcksOK
<1>11. ASSUME NEW n \in Node, NEW f \in net, ReceiveEarlyPost(n, f) PROVE AcksOK'
  BY <1>11, <1>net DEF ReceiveEarlyPost, Deliver, durable, AcksOK
<1>12. ASSUME NEW n \in Node, NEW f \in net, ReceiveInventory(n, f) PROVE AcksOK'
  BY <1>12, <1>net DEF ReceiveInventory, Deliver, durable, AcksOK
<1>13. ASSUME NEW n \in Node, NEW f \in net, ReceiveWant(n, f) PROVE AcksOK'
  BY <1>13, <1>net DEF ReceiveWant, Deliver, durable, AcksOK
<1>14. ASSUME NEW n \in Node, QueueWantPage(n) PROVE AcksOK'
  BY <1>14, <1>net DEF QueueWantPage, AcksOK
<1>15. ASSUME NEW n \in Node, QueueReplyPage(n) PROVE AcksOK'
  BY <1>15, <1>net DEF QueueReplyPage, AcksOK
<1>16. ASSUME NEW n \in Node, NEW o \in Object, QueueObject(n, o) PROVE AcksOK'
  BY <1>16, <1>net DEF QueueObject, AcksOK
<1>17. ASSUME NEW n \in Node, NEW o \in Object, AbandonWant(n, o) PROVE AcksOK'
  BY <1>17, <1>net DEF AbandonWant, durable, AcksOK
<1>18. ASSUME NEW n \in Node, RecordControl(n) PROVE AcksOK'
  BY <1>18, <1>net DEF RecordControl, AcksOK
<1>19. ASSUME NEW n \in Node, ResolveRepair(n) PROVE AcksOK'
  BY <1>19, <1>net DEF ResolveRepair, AcksOK
<1>20. ASSUME NEW n \in Node, Acknowledge(n) PROVE AcksOK'
  <2>1. handler[n].frame \in Frames /\ handler[n] # Idle
    BY <1>20, <1>t, BusyType DEF Acknowledge, Stages, Jobs
  <2>2. handler[n].frame.dst = n /\ handler[n].frame.id \in received[n]
    BY <1>20, <2>1 DEF Acknowledge, Inv, HandlerOK, JobOK
  <2> QED
    BY <1>20, <1>net, <2>1, <2>2, AckOfOK DEF Acknowledge, Sent, durable, AcksOK
<1>21. ASSUME NEW f \in net, Lose(f) PROVE AcksOK'
  BY <1>21, <1>net DEF Lose, durable, AcksOK
<1>22. ASSUME NEW n \in Node, Crash(n) PROVE AcksOK'
  BY <1>22, <1>net DEF Crash, durable, AcksOK
<1>23. CASE UNCHANGED vars
  BY <1>23, <1>net DEF vars, AcksOK
<1> QED
  BY <1>1, <1>2, <1>3, <1>4, <1>5, <1>6, <1>7, <1>8, <1>9, <1>10, <1>11, <1>12, <1>13, <1>14, <1>15, <1>16, <1>17, <1>18, <1>19, <1>20, <1>21, <1>22, <1>23 DEF Next, User, Flush, Receive, Handle

(* An identifier of an object is recorded together with the object.            *)
LEMMA ReceivedStep == Inv /\ [Next]_vars => ReceivedIsStored'
<1> SUFFICES ASSUME Inv, [Next]_vars PROVE ReceivedIsStored'
  OBVIOUS
<1>t. TypeOK
  BY DEF Inv
<1>r. ReceivedIsStored
  BY DEF Inv
<1>1. ASSUME NEW n \in Node, NEW t \in Thread, CreateThread(n, t) PROVE ReceivedIsStored'
  BY <1>1, <1>t, <1>r DEF CreateThread, ReceivedIsStored, TypeOK
<1>2. ASSUME NEW n \in Node, NEW p \in Post, CreatePost(n, p) PROVE ReceivedIsStored'
  BY <1>2, <1>t, <1>r DEF CreatePost, ReceivedIsStored, TypeOK
<1>3. ASSUME NEW n \in Node, NEW p \in Post, NEW peer \in Node, PublishPost(n, p, peer) PROVE ReceivedIsStored'
  BY <1>3, <1>t, <1>r DEF PublishPost, ReceivedIsStored, TypeOK
<1>4. ASSUME NEW n \in Node, NEW peer \in Node, RequestSync(n, peer) PROVE ReceivedIsStored'
  BY <1>4, <1>t, <1>r DEF RequestSync, durable, ReceivedIsStored, TypeOK
<1>5. ASSUME NEW n \in Node, QueueInventoryPage(n) PROVE ReceivedIsStored'
  BY <1>5, <1>t, <1>r DEF QueueInventoryPage, ReceivedIsStored, TypeOK
<1>6. ASSUME NEW n \in Node, FlushBegin(n) PROVE ReceivedIsStored'
  BY <1>6, <1>t, <1>r DEF FlushBegin, durable, ReceivedIsStored, TypeOK
<1>7. ASSUME NEW n \in Node, NEW e \in Due(n), FlushEntry(n, e) PROVE ReceivedIsStored'
  BY <1>7, <1>t, <1>r DEF FlushEntry, durable, ReceivedIsStored, TypeOK
<1>8. ASSUME NEW n \in Node, NEW f \in net, ReceiveAck(n, f) PROVE ReceivedIsStored'
  BY <1>8, <1>t, <1>r DEF ReceiveAck, Deliver, ReceivedIsStored, TypeOK
<1>9. ASSUME NEW n \in Node, NEW f \in net, ReceiveThread(n, f) PROVE ReceivedIsStored'
  BY <1>9, <1>t, <1>r DEF ReceiveThread, Deliver, Commit, ReceivedIsStored, TypeOK
<1>10. ASSUME NEW n \in Node, NEW f \in net, ReceiveSyncPost(n, f) PROVE ReceivedIsStored'
  BY <1>10, <1>t, <1>r DEF ReceiveSyncPost, Deliver, Commit, ReceivedIsStored, TypeOK
<1>11. ASSUME NEW n \in Node, NEW f \in net, ReceiveEarlyPost(n, f) PROVE ReceivedIsStored'
  BY <1>11, <1>t, <1>r DEF ReceiveEarlyPost, Deliver, durable, ReceivedIsStored, TypeOK
<1>12. ASSUME NEW n \in Node, NEW f \in net, ReceiveInventory(n, f) PROVE ReceivedIsStored'
  BY <1>12, <1>t, <1>r DEF ReceiveInventory, Deliver, durable, ReceivedIsStored, TypeOK
<1>13. ASSUME NEW n \in Node, NEW f \in net, ReceiveWant(n, f) PROVE ReceivedIsStored'
  BY <1>13, <1>t, <1>r DEF ReceiveWant, Deliver, durable, ReceivedIsStored, TypeOK
<1>14. ASSUME NEW n \in Node, QueueWantPage(n) PROVE ReceivedIsStored'
  BY <1>14, <1>t, <1>r DEF QueueWantPage, ReceivedIsStored, TypeOK
<1>15. ASSUME NEW n \in Node, QueueReplyPage(n) PROVE ReceivedIsStored'
  BY <1>15, <1>t, <1>r DEF QueueReplyPage, ReceivedIsStored, TypeOK
<1>16. ASSUME NEW n \in Node, NEW o \in Object, QueueObject(n, o) PROVE ReceivedIsStored'
  BY <1>16, <1>t, <1>r DEF QueueObject, ReceivedIsStored, TypeOK
<1>17. ASSUME NEW n \in Node, NEW o \in Object, AbandonWant(n, o) PROVE ReceivedIsStored'
  BY <1>17, <1>t, <1>r DEF AbandonWant, durable, ReceivedIsStored, TypeOK
<1>18. ASSUME NEW n \in Node, RecordControl(n) PROVE ReceivedIsStored'
  <2>1. handler[n] # Idle
    BY <1>18, <1>t, BusyType DEF RecordControl, Stages
  <2>2. handler[n].frame.id \notin Object
    BY <1>18, <2>1, ObjectIds DEF RecordControl, Inv, HandlerOK, JobOK, FrameOK
  <2> QED
    BY <1>18, <1>t, <1>r, <2>2 DEF RecordControl, ReceivedIsStored, TypeOK
<1>19. ASSUME NEW n \in Node, ResolveRepair(n) PROVE ReceivedIsStored'
  BY <1>19, <1>t, <1>r DEF ResolveRepair, ReceivedIsStored, TypeOK
<1>20. ASSUME NEW n \in Node, Acknowledge(n) PROVE ReceivedIsStored'
  BY <1>20, <1>t, <1>r DEF Acknowledge, durable, ReceivedIsStored, TypeOK
<1>21. ASSUME NEW f \in net, Lose(f) PROVE ReceivedIsStored'
  BY <1>21, <1>t, <1>r DEF Lose, durable, ReceivedIsStored, TypeOK
<1>22. ASSUME NEW n \in Node, Crash(n) PROVE ReceivedIsStored'
  BY <1>22, <1>t, <1>r DEF Crash, durable, ReceivedIsStored, TypeOK
<1>23. CASE UNCHANGED vars
  BY <1>23, <1>t, <1>r DEF vars, ReceivedIsStored, TypeOK
<1> QED
  BY <1>1, <1>2, <1>3, <1>4, <1>5, <1>6, <1>7, <1>8, <1>9, <1>10, <1>11, <1>12, <1>13, <1>14, <1>15, <1>16, <1>17, <1>18, <1>19, <1>20, <1>21, <1>22, <1>23 DEF Next, User, Flush, Receive, Handle

(* Every step that stores a post finds its thread.                             *)
LEMMA PostStep == Inv /\ [Next]_vars => PostAfterThread'
<1> SUFFICES ASSUME Inv, [Next]_vars PROVE PostAfterThread'
  OBVIOUS
<1>t. TypeOK
  BY DEF Inv
<1>p. PostAfterThread
  BY DEF Inv
<1>1. ASSUME NEW n \in Node, NEW t \in Thread, CreateThread(n, t) PROVE PostAfterThread'
  BY <1>1, <1>t, <1>p, ObjectIds DEF CreateThread, PostAfterThread, TypeOK
<1>2. ASSUME NEW n \in Node, NEW p \in Post, CreatePost(n, p) PROVE PostAfterThread'
  BY <1>2, <1>t, <1>p DEF CreatePost, PostAfterThread, TypeOK
<1>3. ASSUME NEW n \in Node, NEW p \in Post, NEW peer \in Node, PublishPost(n, p, peer) PROVE PostAfterThread'
  BY <1>3, <1>t, <1>p DEF PublishPost, PostAfterThread, TypeOK
<1>4. ASSUME NEW n \in Node, NEW peer \in Node, RequestSync(n, peer) PROVE PostAfterThread'
  BY <1>4, <1>t, <1>p DEF RequestSync, durable, PostAfterThread, TypeOK
<1>5. ASSUME NEW n \in Node, QueueInventoryPage(n) PROVE PostAfterThread'
  BY <1>5, <1>t, <1>p DEF QueueInventoryPage, PostAfterThread, TypeOK
<1>6. ASSUME NEW n \in Node, FlushBegin(n) PROVE PostAfterThread'
  BY <1>6, <1>t, <1>p DEF FlushBegin, durable, PostAfterThread, TypeOK
<1>7. ASSUME NEW n \in Node, NEW e \in Due(n), FlushEntry(n, e) PROVE PostAfterThread'
  BY <1>7, <1>t, <1>p DEF FlushEntry, durable, PostAfterThread, TypeOK
<1>8. ASSUME NEW n \in Node, NEW f \in net, ReceiveAck(n, f) PROVE PostAfterThread'
  BY <1>8, <1>t, <1>p DEF ReceiveAck, Deliver, PostAfterThread, TypeOK
<1>9. ASSUME NEW n \in Node, NEW f \in net, ReceiveThread(n, f) PROVE PostAfterThread'
  <2>1. f.id \in Thread
    BY <1>9 DEF ReceiveThread, Inv, FramesOK, FrameOK
  <2> QED
    BY <1>9, <1>t, <1>p, <2>1, ObjectIds DEF ReceiveThread, Commit, Deliver, PostAfterThread, TypeOK
<1>10. ASSUME NEW n \in Node, NEW f \in net, ReceiveSyncPost(n, f) PROVE PostAfterThread'
  BY <1>10, <1>t, <1>p DEF ReceiveSyncPost, MissingThread, Commit, Deliver, PostAfterThread, TypeOK
<1>11. ASSUME NEW n \in Node, NEW f \in net, ReceiveEarlyPost(n, f) PROVE PostAfterThread'
  BY <1>11, <1>t, <1>p DEF ReceiveEarlyPost, Deliver, durable, PostAfterThread, TypeOK
<1>12. ASSUME NEW n \in Node, NEW f \in net, ReceiveInventory(n, f) PROVE PostAfterThread'
  BY <1>12, <1>t, <1>p DEF ReceiveInventory, Deliver, durable, PostAfterThread, TypeOK
<1>13. ASSUME NEW n \in Node, NEW f \in net, ReceiveWant(n, f) PROVE PostAfterThread'
  BY <1>13, <1>t, <1>p DEF ReceiveWant, Deliver, durable, PostAfterThread, TypeOK
<1>14. ASSUME NEW n \in Node, QueueWantPage(n) PROVE PostAfterThread'
  BY <1>14, <1>t, <1>p DEF QueueWantPage, PostAfterThread, TypeOK
<1>15. ASSUME NEW n \in Node, QueueReplyPage(n) PROVE PostAfterThread'
  BY <1>15, <1>t, <1>p DEF QueueReplyPage, PostAfterThread, TypeOK
<1>16. ASSUME NEW n \in Node, NEW o \in Object, QueueObject(n, o) PROVE PostAfterThread'
  BY <1>16, <1>t, <1>p DEF QueueObject, PostAfterThread, TypeOK
<1>17. ASSUME NEW n \in Node, NEW o \in Object, AbandonWant(n, o) PROVE PostAfterThread'
  BY <1>17, <1>t, <1>p DEF AbandonWant, durable, PostAfterThread, TypeOK
<1>18. ASSUME NEW n \in Node, RecordControl(n) PROVE PostAfterThread'
  BY <1>18, <1>t, <1>p DEF RecordControl, PostAfterThread, TypeOK
<1>19. ASSUME NEW n \in Node, ResolveRepair(n) PROVE PostAfterThread'
  BY <1>19, <1>t, <1>p DEF ResolveRepair, PostAfterThread, TypeOK
<1>20. ASSUME NEW n \in Node, Acknowledge(n) PROVE PostAfterThread'
  BY <1>20, <1>t, <1>p DEF Acknowledge, durable, PostAfterThread, TypeOK
<1>21. ASSUME NEW f \in net, Lose(f) PROVE PostAfterThread'
  BY <1>21, <1>t, <1>p DEF Lose, durable, PostAfterThread, TypeOK
<1>22. ASSUME NEW n \in Node, Crash(n) PROVE PostAfterThread'
  BY <1>22, <1>t, <1>p DEF Crash, durable, PostAfterThread, TypeOK
<1>23. CASE UNCHANGED vars
  BY <1>23, <1>t, <1>p DEF vars, PostAfterThread, TypeOK
<1> QED
  BY <1>1, <1>2, <1>3, <1>4, <1>5, <1>6, <1>7, <1>8, <1>9, <1>10, <1>11, <1>12, <1>13, <1>14, <1>15, <1>16, <1>17, <1>18, <1>19, <1>20, <1>21, <1>22, <1>23 DEF Next, User, Flush, Receive, Handle

------------------------------------------------------------------------------
(* The theorems.                                                               *)

LEMMA InitInv == Init => Inv
BY Bounds DEF Init, Inv, TypeOK, FramesOK, HandlerOK, ReceivedIsStored, AcksOK,
   PostAfterThread, Due, Free

LEMMA NextInv == Inv /\ [Next]_vars => Inv'
BY TypeStep, FramesStep, HandlerStep, AcksStep, ReceivedStep, PostStep DEF Inv

(* The strengthened invariant: what every frame, callback, acknowledgement and *)
(* database satisfies in every reachable state.                                *)
THEOREM Invariance == Spec => []Inv
BY InitInv, NextInv, PTL DEF Spec

(* The tables, the handlers and the air hold what the code's types say: in     *)
(* particular no control identifier is ever mistaken for an object's.          *)
THEOREM TypeCorrect == Spec => []TypeOK
<1>1. Inv => TypeOK
  BY DEF Inv
<1> QED
  BY <1>1, Invariance, PTL

(* Nothing is acknowledged before it is durable, whatever is lost, duplicated, *)
(* reordered or crashes (the callbacks of sync.py acknowledge last).           *)
THEOREM AcksAreDurable == Spec => []AckMeansCommitted
<1>1. Inv => AckMeansCommitted
  <2> SUFFICES ASSUME Inv, NEW f \in net, f.type = "COMMIT_ACK"
               PROVE  Committed(f.src, f.id)
    BY DEF AckMeansCommitted
  <2>1. f.src \in Node
    BY DEF Inv, FramesOK, FrameOK, Frames
  <2> QED
    BY <2>1 DEF Inv, AcksOK, ReceivedIsStored, Committed
<1> QED
  BY <1>1, Invariance, PTL

(* No database ever holds a post without its thread (receive_sync_post).       *)
THEOREM PostsHaveThreads == Spec => []PostAfterThread
<1>1. Inv => PostAfterThread
  BY DEF Inv
<1> QED
  BY <1>1, Invariance, PTL

(* A row leaves an outbox only when its destination has committed it: the one  *)
(* step that deletes rows, acknowledge, follows a COMMIT_ACK that AcksOK backs. *)
LEMMA KeepStep ==
    Inv /\ [Next]_vars =>
        \A m \in Node : \A e \in outbox[m] \ outbox'[m] : Committed(e.dst, e.id)
<1> DEFINE Goal == \A m \in Node : \A e \in outbox[m] \ outbox'[m] : Committed(e.dst, e.id)
<1> SUFFICES ASSUME Inv, [Next]_vars PROVE Goal
  OBVIOUS
<1>t. TypeOK
  BY DEF Inv
<1>1. ASSUME NEW n \in Node, NEW t \in Thread, CreateThread(n, t) PROVE Goal
  BY <1>1, <1>t DEF CreateThread, TypeOK
<1>2. ASSUME NEW n \in Node, NEW p \in Post, CreatePost(n, p) PROVE Goal
  BY <1>2, <1>t DEF CreatePost, TypeOK
<1>3. ASSUME NEW n \in Node, NEW p \in Post, NEW peer \in Node, PublishPost(n, p, peer) PROVE Goal
  BY <1>3, <1>t DEF PublishPost, TypeOK
<1>4. ASSUME NEW n \in Node, NEW peer \in Node, RequestSync(n, peer) PROVE Goal
  BY <1>4, <1>t DEF RequestSync, durable, TypeOK
<1>5. ASSUME NEW n \in Node, QueueInventoryPage(n) PROVE Goal
  BY <1>5, <1>t DEF QueueInventoryPage, QueueFrame, TypeOK
<1>6. ASSUME NEW n \in Node, FlushBegin(n) PROVE Goal
  BY <1>6, <1>t DEF FlushBegin, durable, TypeOK
<1>7. ASSUME NEW n \in Node, NEW e \in Due(n), FlushEntry(n, e) PROVE Goal
  BY <1>7, <1>t DEF FlushEntry, durable, TypeOK
<1>8. ASSUME NEW n \in Node, NEW f \in net, ReceiveAck(n, f) PROVE Goal
  <2>1. \A m \in Node : m # n => outbox'[m] = outbox[m]
    BY <1>8, <1>t DEF ReceiveAck, Acknowledged, TypeOK
  <2>2. \A e \in outbox[n] \ outbox'[n] : e.id = f.id /\ e.dst = f.src
    BY <1>8, <1>t DEF ReceiveAck, Acknowledged, TypeOK
  <2>3. Committed(f.src, f.id)
    <3>1. f.src \in Node
      BY DEF Inv, FramesOK, FrameOK, Frames
    <3> QED
      BY <1>8, <3>1 DEF ReceiveAck, Inv, AcksOK, ReceivedIsStored, Committed
  <2> QED
    BY <2>1, <2>2, <2>3
<1>9. ASSUME NEW n \in Node, NEW f \in net, ReceiveThread(n, f) PROVE Goal
  BY <1>9, <1>t DEF ReceiveThread, Deliver, Commit, TypeOK
<1>10. ASSUME NEW n \in Node, NEW f \in net, ReceiveSyncPost(n, f) PROVE Goal
  BY <1>10, <1>t DEF ReceiveSyncPost, Deliver, Commit, TypeOK
<1>11. ASSUME NEW n \in Node, NEW f \in net, ReceiveEarlyPost(n, f) PROVE Goal
  BY <1>11, <1>t DEF ReceiveEarlyPost, Deliver, durable, TypeOK
<1>12. ASSUME NEW n \in Node, NEW f \in net, ReceiveInventory(n, f) PROVE Goal
  BY <1>12, <1>t DEF ReceiveInventory, FirstSight, Deliver, durable, TypeOK
<1>13. ASSUME NEW n \in Node, NEW f \in net, ReceiveWant(n, f) PROVE Goal
  BY <1>13, <1>t DEF ReceiveWant, Deliver, durable, TypeOK
<1>14. ASSUME NEW n \in Node, QueueWantPage(n) PROVE Goal
  BY <1>14, <1>t DEF QueueWantPage, TypeOK
<1>15. ASSUME NEW n \in Node, QueueReplyPage(n) PROVE Goal
  BY <1>15, <1>t DEF QueueReplyPage, QueueFrame, TypeOK
<1>16. ASSUME NEW n \in Node, NEW o \in Object, QueueObject(n, o) PROVE Goal
  BY <1>16, <1>t DEF QueueObject, QueueFrame, TypeOK
<1>17. ASSUME NEW n \in Node, NEW o \in Object, AbandonWant(n, o) PROVE Goal
  BY <1>17, <1>t DEF AbandonWant, durable, TypeOK
<1>18. ASSUME NEW n \in Node, RecordControl(n) PROVE Goal
  BY <1>18, <1>t DEF RecordControl, TypeOK
<1>19. ASSUME NEW n \in Node, ResolveRepair(n) PROVE Goal
  BY <1>19, <1>t DEF ResolveRepair, TypeOK
<1>20. ASSUME NEW n \in Node, Acknowledge(n) PROVE Goal
  BY <1>20, <1>t DEF Acknowledge, durable, TypeOK
<1>21. ASSUME NEW f \in net, Lose(f) PROVE Goal
  BY <1>21, <1>t DEF Lose, durable, TypeOK
<1>22. ASSUME NEW n \in Node, Crash(n) PROVE Goal
  BY <1>22, <1>t DEF Crash, durable, TypeOK
<1>23. CASE UNCHANGED vars
  BY <1>23, <1>t DEF vars, TypeOK
<1> QED
  BY <1>1, <1>2, <1>3, <1>4, <1>5, <1>6, <1>7, <1>8, <1>9, <1>10, <1>11, <1>12, <1>13, <1>14, <1>15, <1>16, <1>17, <1>18, <1>19, <1>20, <1>21, <1>22, <1>23 DEF Next, User, Flush, Receive, Handle

(* Every page and object stays queued until its destination has committed it   *)
(* (acknowledge, sync_repository.py), however many nodes there are.            *)
THEOREM OutboxIsKept == Spec => OutboxKeepsUncommitted
<1>1. Inv /\ [Next]_vars =>
          [\A n \in Node : \A e \in outbox[n] \ outbox'[n] : Committed(e.dst, e.id)]_vars
  BY KeepStep
<1> QED
  BY <1>1, Invariance, PTL DEF Spec, OutboxKeepsUncommitted

(* Every step is a step of Forum or leaves the databases as they are: users    *)
(* create objects, and an object received is one its sender holds.             *)
LEMMA ReplicationStep == Inv /\ [Next]_vars => [Replication!Next]_store
<1> SUFFICES ASSUME Inv, [Next]_vars PROVE [Replication!Next]_store
  OBVIOUS
<1>t. TypeOK
  BY DEF Inv
<1>1. ASSUME NEW n \in Node, NEW t \in Thread, CreateThread(n, t) PROVE [Replication!Next]_store
  <2>1. t \in Object /\ Replication!Create(n, t)
    BY <1>1, ObjectIds DEF CreateThread, New, Object, Replication!Create, Replication!HasItsThread
  <2> QED
    BY <2>1 DEF Replication!Next, Replication!Object, Object
<1>2. ASSUME NEW n \in Node, NEW p \in Post, CreatePost(n, p) PROVE [Replication!Next]_store
  <2>1. p \in Object /\ Replication!Create(n, p)
    BY <1>2 DEF CreatePost, New, Object, Replication!Create, Replication!HasItsThread
  <2> QED
    BY <2>1 DEF Replication!Next, Replication!Object, Object
<1>3. ASSUME NEW n \in Node, NEW p \in Post, NEW peer \in Node, PublishPost(n, p, peer) PROVE [Replication!Next]_store
  <2>1. p \in Object /\ Replication!Create(n, p)
    BY <1>3 DEF PublishPost, New, Object, Replication!Create, Replication!HasItsThread
  <2> QED
    BY <2>1 DEF Replication!Next, Replication!Object, Object
<1>4. ASSUME NEW n \in Node, NEW peer \in Node, RequestSync(n, peer) PROVE [Replication!Next]_store
  BY <1>4 DEF RequestSync, durable
<1>5. ASSUME NEW n \in Node, QueueInventoryPage(n) PROVE [Replication!Next]_store
  BY <1>5 DEF QueueInventoryPage
<1>6. ASSUME NEW n \in Node, FlushBegin(n) PROVE [Replication!Next]_store
  BY <1>6 DEF FlushBegin, durable
<1>7. ASSUME NEW n \in Node, NEW e \in Due(n), FlushEntry(n, e) PROVE [Replication!Next]_store
  BY <1>7 DEF FlushEntry, durable
<1>8. ASSUME NEW n \in Node, NEW f \in net, ReceiveAck(n, f) PROVE [Replication!Next]_store
  BY <1>8 DEF ReceiveAck, Deliver
<1>9. ASSUME NEW n \in Node, NEW f \in net, ReceiveThread(n, f) PROVE [Replication!Next]_store
  <2>1. f.src \in Node /\ f.id \in Object /\ f.id \in store[f.src] /\ f.id \in Thread
    BY <1>9 DEF ReceiveThread, Inv, FramesOK, FrameOK, Frames, Object
  <2>2. CASE f.id \in store[n]
    <3>1. store'[n] = store[n]
      BY <1>9, <2>2, <1>t DEF ReceiveThread, Deliver, Commit, TypeOK
    <3> QED
      BY <1>9, <3>1, <1>t DEF ReceiveThread, Deliver, Commit, TypeOK
  <2>3. CASE f.id \notin store[n]
    <3>1. f.id \notin received[n]
      BY <2>1, <2>3 DEF Inv, ReceivedIsStored
    <3>2. store' = [store EXCEPT ![n] = @ \cup {f.id}]
      BY <1>9, <3>1 DEF ReceiveThread, Commit
    <3>3. Replication!HasItsThread(n, f.id)
      BY <1>9, <2>1, <3>1, ObjectIds DEF ReceiveThread, MissingThread, Replication!HasItsThread
    <3>4. Replication!Copy(n, f.id)
      BY <2>1, <2>3, <3>2, <3>3 DEF Replication!Copy
    <3> QED
      BY <2>1, <3>4 DEF Replication!Next, Replication!Object, Object
  <2> QED
    BY <2>2, <2>3
<1>10. ASSUME NEW n \in Node, NEW f \in net, ReceiveSyncPost(n, f) PROVE [Replication!Next]_store
  <2>1. f.src \in Node /\ f.id \in Object /\ f.id \in store[f.src]
    BY <1>10 DEF ReceiveSyncPost, Inv, FramesOK, FrameOK, Frames, Object
  <2>2. CASE f.id \in store[n]
    <3>1. store'[n] = store[n]
      BY <1>10, <2>2, <1>t DEF ReceiveSyncPost, Deliver, Commit, TypeOK
    <3> QED
      BY <1>10, <3>1, <1>t DEF ReceiveSyncPost, Deliver, Commit, TypeOK
  <2>3. CASE f.id \notin store[n]
    <3>1. f.id \notin received[n]
      BY <2>1, <2>3 DEF Inv, ReceivedIsStored
    <3>2. store' = [store EXCEPT ![n] = @ \cup {f.id}]
      BY <1>10, <3>1 DEF ReceiveSyncPost, Commit
    <3>3. Replication!HasItsThread(n, f.id)
      BY <1>10, <2>1, <3>1 DEF ReceiveSyncPost, MissingThread, Replication!HasItsThread
    <3>4. Replication!Copy(n, f.id)
      BY <2>1, <2>3, <3>2, <3>3 DEF Replication!Copy
    <3> QED
      BY <2>1, <3>4 DEF Replication!Next, Replication!Object, Object
  <2> QED
    BY <2>2, <2>3
<1>11. ASSUME NEW n \in Node, NEW f \in net, ReceiveEarlyPost(n, f) PROVE [Replication!Next]_store
  BY <1>11 DEF ReceiveEarlyPost, Deliver, durable
<1>12. ASSUME NEW n \in Node, NEW f \in net, ReceiveInventory(n, f) PROVE [Replication!Next]_store
  BY <1>12 DEF ReceiveInventory, Deliver, durable
<1>13. ASSUME NEW n \in Node, NEW f \in net, ReceiveWant(n, f) PROVE [Replication!Next]_store
  BY <1>13 DEF ReceiveWant, Deliver, durable
<1>14. ASSUME NEW n \in Node, QueueWantPage(n) PROVE [Replication!Next]_store
  BY <1>14 DEF QueueWantPage
<1>15. ASSUME NEW n \in Node, QueueReplyPage(n) PROVE [Replication!Next]_store
  BY <1>15 DEF QueueReplyPage
<1>16. ASSUME NEW n \in Node, NEW o \in Object, QueueObject(n, o) PROVE [Replication!Next]_store
  BY <1>16 DEF QueueObject
<1>17. ASSUME NEW n \in Node, NEW o \in Object, AbandonWant(n, o) PROVE [Replication!Next]_store
  BY <1>17 DEF AbandonWant, durable
<1>18. ASSUME NEW n \in Node, RecordControl(n) PROVE [Replication!Next]_store
  BY <1>18 DEF RecordControl
<1>19. ASSUME NEW n \in Node, ResolveRepair(n) PROVE [Replication!Next]_store
  BY <1>19 DEF ResolveRepair
<1>20. ASSUME NEW n \in Node, Acknowledge(n) PROVE [Replication!Next]_store
  BY <1>20 DEF Acknowledge, durable
<1>21. ASSUME NEW f \in net, Lose(f) PROVE [Replication!Next]_store
  BY <1>21 DEF Lose, durable
<1>22. ASSUME NEW n \in Node, Crash(n) PROVE [Replication!Next]_store
  BY <1>22 DEF Crash, durable
<1>23. CASE UNCHANGED vars
  BY <1>23 DEF vars
<1> QED
  BY <1>1, <1>2, <1>3, <1>4, <1>5, <1>6, <1>7, <1>8, <1>9, <1>10, <1>11, <1>12, <1>13, <1>14, <1>15, <1>16, <1>17, <1>18, <1>19, <1>20, <1>21, <1>22, <1>23 DEF Next, User, Flush, Receive, Handle

(* The nodes replicate the forum: objects only ever spread from a node that    *)
(* holds them, a post after its thread, and none is lost or made up.           *)
THEOREM ImplementsReplication == Spec => ReplicationSpec
<1>1. Init => Replication!Init
  BY DEF Init, Replication!Init
<1> QED
  BY <1>1, ReplicationStep, Invariance, PTL DEF Spec, ReplicationSpec, Replication!Spec

=============================================================================
