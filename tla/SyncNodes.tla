------------------------------ MODULE SyncNodes ------------------------------
(* The synchronization nodes of application/sync.py over the durable tables of *)
(* adapters/persistence/sync_repository.py and an unreliable radio.            *)
(*                                                                             *)
(* A step is one committed transaction, one transport call or one fault: the   *)
(* receive handler and the application's calls (flush, request_sync) of a node *)
(* interleave at those points, and a crash may fall between any two of them.   *)
(* Retry times, attempts and priorities are abstracted here: any entry of the  *)
(* outbox may be due.                                                          *)
EXTENDS Naturals, FiniteSets

CONSTANTS
    Node,        \* peers, each with its own database
    Thread,      \* identifiers (sync_id) of the threads that may be authored
    Post,        \* identifiers (message_id) of the posts
    ThreadOf,    \* ThreadOf[p]: the thread of post p
    IdOrder,     \* IdOrder[o]: the identifier as a number, for ORDER BY
    Oversize,    \* objects whose content does not fit one frame
    SyncPage,    \* MAX_SYNC_REFS
    WantPage,    \* MAX_WANT_REFS
    SyncLimit,   \* bound: n calls request_sync below SyncLimit[n] fresh ids
    FlushBatch,  \* bound: entries one flush finds due, or all when there are fewer
    MaxBusy,     \* bound: callbacks, flushes and request_syncs in progress at once
    AirSlots,    \* frames the radios carry at once; another is lost
    MaxFaults    \* bound: frames lost or duplicated, and crashes, in a behaviour

Object == Thread \cup Post

(* Identifiers of control messages: the origin's serial-th fresh identifier    *)
(* with page 0, or the hash of a fresh identifier and a page number plus one.  *)
ControlId == [origin : Node, serial : Nat, page : Nat]

ASSUME ObjectIds ==
    /\ Thread \cap Post = {}
    /\ Object \cap ControlId = {}
    /\ ThreadOf \in [Post -> Thread]
    /\ IdOrder \in [Object -> Nat]
    /\ \A o, p \in Object : IdOrder[o] = IdOrder[p] => o = p
    /\ Oversize \subseteq Object

ASSUME Bounds ==
    /\ SyncPage \in Nat \ {0}
    /\ WantPage \in Nat \ {0}
    /\ SyncLimit \in [Node -> Nat]
    /\ FlushBatch \in Nat
    /\ MaxBusy \in Nat
    /\ AirSlots \in Nat
    /\ MaxFaults \in Nat

VARIABLES
    \* durable, one database per node
    store,       \* store[n]: threads and posts
    outbox,      \* outbox[n]: frames awaiting their COMMIT_ACK
    received,    \* received[n]: message ids already applied
    repair,      \* repair[n]: <<peer, object>> already asked for
    \* volatile
    handler,     \* handler[n]: the frame n's receive callback is handling
    app,         \* app[n]: the flush or request_sync in progress at n
    \* the environment
    net,         \* frames in the air
    mint,        \* mint[n]: fresh identifiers n has drawn so far
    faults       \* frames lost or duplicated and crashes so far

vars == <<store, outbox, received, repair, handler, app, net, mint, faults>>
durable == <<store, outbox, received, repair>>

------------------------------------------------------------------------------
(* Frames.  The identifier of an object's frame is the object's own, so a copy *)
(* is the same message whoever sends it.                                       *)

Types == {"THREAD", "SYNC_POST", "SYNC", "WANT", "COMMIT_ACK"}

Frame(type, id, src, dst, refs, reply) ==
    [type |-> type, id |-> id, src |-> src, dst |-> dst, refs |-> refs, reply |-> reply]

ObjectFrame(o, src, dst) ==
    Frame(IF o \in Thread THEN "THREAD" ELSE "SYNC_POST", o, src, dst, {}, FALSE)

\* The id of a COMMIT_ACK here is its correlation_id; nothing reads its own id.
AckOf(f) == Frame("COMMIT_ACK", f.id, f.dst, f.src, {}, FALSE)

FreshId(n) == [origin |-> n, serial |-> mint[n], page |-> 0]

\* Mutant of ResponseId: the pages of an answer share one identifier.
ResponseIdShared(request, page) == [request EXCEPT !.page = 1]

\* Response page ids are a function of the request, so a replay repeats them.
ResponseId(request, page) == [request EXCEPT !.page = page + 1]

------------------------------------------------------------------------------
(* Pages of reference lists: threads before posts, each by identifier.         *)

Before(o, p) ==
    IF (o \in Thread) = (p \in Thread) THEN IdOrder[o] < IdOrder[p] ELSE o \in Thread

Index(o, refs) == Cardinality({p \in refs : Before(p, o)})

Page(refs, size, i) ==
    {o \in refs : i * size <= Index(o, refs) /\ Index(o, refs) < (i + 1) * size}

LastPage(refs, i) == Cardinality(refs) <= (i + 1) * SyncPage

------------------------------------------------------------------------------
(* Tables.  The primary key of the outbox is the message id alone.             *)

Queued(box, id) == \E e \in box : e.id = id

\* Transport.send: accepted, or lost to a TransportError (its queue is full).
\* Neither flush nor _send_ack does anything about the latter.
Sent(f) == IF Cardinality(net) < AirSlots THEN net \cup {f} ELSE net

QueueFrame(box, f) == IF Queued(box, f.id) THEN box ELSE box \cup {f}

\* Mutant of Acknowledged: the peer alone is matched.
AcknowledgedByPeer(box, f) == {e \in box : e.dst = f.src}

\* acknowledge: the COMMIT_ACK must name the row and come from its destination.
Acknowledged(box, f) == {e \in box : e.id = f.id /\ e.dst = f.src}

\* Mutant of RepairRows: the columns are swapped.
RepairRowsSwapped(peer, refs) == {<<o, peer>> : o \in refs}

\* queue_want's rows of the repair table.
RepairRows(peer, refs) == {<<peer, o>> : o \in refs}

\* Mutant of Unrequested: everything offered is asked for again.
UnrequestedAll(n, peer, refs) == refs

Unrequested(n, peer, refs) == {o \in refs : <<peer, o>> \notin repair[n]}

\* get_sync_object and the codec: can n build the frame of o?
Sendable(n, o) ==
    /\ o \in store[n]
    /\ o \in Post => ThreadOf[o] \in store[n]
    /\ o \notin Oversize

------------------------------------------------------------------------------
(* The stages of a receive callback, between its transactions.                 *)

Idle == [stage |-> "idle"]

Handling(stage, f, todo, page) ==
    [stage |-> stage, frame |-> f, todo |-> todo, page |-> page]

\* Mutant of FirstSight: a replay is dropped, since its effects are there.
FirstSightSilent(n, f, job) == IF f.id \in received[n] THEN Idle ELSE job

\* has_received: a page or WANT applied before is only acknowledged again.
FirstSight(n, f, job) == IF f.id \in received[n] THEN Handling("ack", f, {}, 0) ELSE job

Free == [op |-> "none"]

Flushing(entries) == [op |-> "flush", due |-> entries]

Due(n) == IF app[n].op = "flush" THEN app[n].due ELSE {}

\* Mutants of AfterWants: an early post is acknowledged; an inventory is not
\* recorded; the initiator's wish for a reply is ignored.
AfterWantsAckEarly(n, f) ==
    CASE f.type = "SYNC_POST"           -> Handling("ack", f, {}, 0)
      [] f.type = "SYNC" /\ f.reply     -> Handling("reply", f, store[n], 0)
      [] OTHER                          -> Handling("record", f, {}, 0)
AfterWantsUnrecorded(n, f) ==
    CASE f.type = "SYNC_POST"           -> Idle
      [] f.type = "SYNC" /\ f.reply     -> Handling("reply", f, store[n], 0)
      [] OTHER                          -> Handling("ack", f, {}, 0)
AfterWantsNoReply(n, f) ==
    IF f.type = "SYNC_POST" THEN Idle ELSE Handling("record", f, {}, 0)

\* What follows the WANT frames: the callback of a post whose thread is missing
\* returns without acknowledging; that of an inventory replies if asked to.
AfterWants(n, f) ==
    CASE f.type = "SYNC_POST"           -> Idle
      [] f.type = "SYNC" /\ f.reply     -> Handling("reply", f, store[n], 0)
      [] OTHER                          -> Handling("record", f, {}, 0)

QueueWants(n, f, refs) ==
    LET new == Unrequested(n, f.src, refs)
    IN  IF new = {} THEN AfterWants(n, f) ELSE Handling("wants", f, new, 0)

\* Another callback, flush or request_sync may begin.
MayBegin ==
    Cardinality({n \in Node : handler[n] # Idle}) + Cardinality({n \in Node : app[n] # Free})
        < MaxBusy

------------------------------------------------------------------------------
(* The user and the application.                                               *)

New(o) == \A m \in Node : o \notin store[m]

CreateThread(n, t) ==
    /\ New(t)
    /\ store' = [store EXCEPT ![n] = @ \cup {t}]
    /\ UNCHANGED <<outbox, received, repair, handler, app, net, mint, faults>>

\* The web forum stores a post and queues nothing.
CreatePost(n, p) ==
    /\ New(p)
    /\ ThreadOf[p] \in store[n]
    /\ store' = [store EXCEPT ![n] = @ \cup {p}]
    /\ UNCHANGED <<outbox, received, repair, handler, app, net, mint, faults>>

\* SyncNode.publish_post: the post and its frame in one transaction.
PublishPost(n, p, peer) ==
    /\ New(p)
    /\ ThreadOf[p] \in store[n]
    /\ p \notin Oversize
    /\ store' = [store EXCEPT ![n] = @ \cup {p}]
    /\ outbox' = [outbox EXCEPT ![n] = @ \cup {ObjectFrame(p, n, peer)}]
    /\ UNCHANGED <<received, repair, handler, app, net, mint, faults>>

\* known_objects is read once; the pages follow, a transaction each.
RequestSync(n, peer) ==
    /\ app[n] = Free
    /\ MayBegin
    /\ mint[n] < SyncLimit[n]
    /\ app' = [app EXCEPT ![n] =
                 [op |-> "inventory", peer |-> peer, refs |-> store[n], page |-> 0]]
    /\ UNCHANGED <<durable, handler, net, mint, faults>>

QueueInventoryPage(n) ==
    LET call == app[n]
        f == Frame("SYNC", FreshId(n), n, call.peer,
                   Page(call.refs, SyncPage, call.page), call.page = 0)
    IN  /\ call.op = "inventory"
        /\ outbox' = [outbox EXCEPT ![n] = QueueFrame(@, f)]
        /\ mint' = [mint EXCEPT ![n] = @ + 1]
        /\ app' = [app EXCEPT ![n] =
                     IF LastPage(call.refs, call.page) THEN Free
                     ELSE [call EXCEPT !.page = @ + 1]]
        /\ UNCHANGED <<store, received, repair, handler, net, faults>>

\* flush reads the due entries once and works through that list.
FlushBegin(n) ==
    /\ app[n] = Free
    /\ MayBegin
    /\ \E due \in SUBSET outbox[n] :
          /\ due # {}
          /\ Cardinality(due) = FlushBatch \/ (due = outbox[n] /\ Cardinality(due) < FlushBatch)
          /\ app' = [app EXCEPT ![n] = Flushing(due)]
    /\ UNCHANGED <<durable, handler, net, mint, faults>>

\* The next entry of the list goes on the air.  A TransportError, which flush
\* swallows, is the same as the loss of the frame at once (Lose).
FlushEntry(n, e) ==
    /\ e \in Due(n)
    /\ net' = Sent(e)
    /\ app' = [app EXCEPT ![n] =
                 IF Due(n) = {e} THEN Free ELSE Flushing(Due(n) \ {e})]
    /\ UNCHANGED <<durable, handler, mint, faults>>

------------------------------------------------------------------------------
(* The receive callback.  Deliver hands it a frame, of which the air may keep  *)
(* another copy; the transaction the callback opens with is in the same step.  *)

Deliver(n, f) ==
    /\ f \in net
    /\ f.dst = n
    /\ handler[n] = Idle
    /\ \/ net' = net \ {f} /\ UNCHANGED faults
       \/ faults < MaxFaults /\ faults' = faults + 1 /\ UNCHANGED net

ReceiveAck(n, f) ==
    /\ f.type = "COMMIT_ACK"
    /\ Deliver(n, f)
    /\ outbox' = [outbox EXCEPT ![n] = @ \ Acknowledged(@, f)]
    /\ UNCHANGED <<store, received, repair, handler, app, mint>>

\* Store an object and its id in one transaction, unless the id is known.
Commit(n, o) ==
    /\ store' = [store EXCEPT ![n] = IF o \in received[n] THEN @ ELSE @ \cup {o}]
    /\ received' = [received EXCEPT ![n] = @ \cup {o}]

ReceiveThread(n, f) ==
    /\ f.type = "THREAD"
    /\ MayBegin
    /\ Deliver(n, f)
    /\ Commit(n, f.id)
    /\ handler' = [handler EXCEPT ![n] = Handling("resolve", f, {}, 0)]
    /\ UNCHANGED <<outbox, repair, app, mint>>

\* Mutant of MissingThread: a post is stored without looking for its thread.
MissingThreadNever(n, p) == FALSE

MissingThread(n, p) == p \notin received[n] /\ ThreadOf[p] \notin store[n]

ReceiveSyncPost(n, f) ==
    /\ f.type = "SYNC_POST"
    /\ MayBegin
    /\ Deliver(n, f)
    /\ ~MissingThread(n, f.id)
    /\ Commit(n, f.id)
    /\ handler' = [handler EXCEPT ![n] = Handling("resolve", f, {}, 0)]
    /\ UNCHANGED <<outbox, repair, app, mint>>

\* A post before its thread: ask for the thread, do not acknowledge the post.
ReceiveEarlyPost(n, f) ==
    /\ f.type = "SYNC_POST"
    /\ MayBegin
    /\ Deliver(n, f)
    /\ MissingThread(n, f.id)
    /\ handler' = [handler EXCEPT ![n] = QueueWants(n, f, {ThreadOf[f.id]})]
    /\ UNCHANGED <<durable, app, mint>>

ReceiveInventory(n, f) ==
    /\ f.type = "SYNC"
    /\ MayBegin
    /\ Deliver(n, f)
    /\ handler' = [handler EXCEPT ![n] =
                     FirstSight(n, f, QueueWants(n, f, f.refs \ store[n]))]
    /\ UNCHANGED <<durable, app, mint>>

\* Mutant of ReceiveWant: recorded and acknowledged before it is served.
ReceiveWantUnserved(n, f) ==
    /\ f.type = "WANT"
    /\ MayBegin
    /\ Deliver(n, f)
    /\ handler' = [handler EXCEPT ![n] = Handling("record", f, {}, 0)]
    /\ UNCHANGED <<durable, app, mint>>

ReceiveWant(n, f) ==
    /\ f.type = "WANT"
    /\ MayBegin
    /\ Deliver(n, f)
    /\ handler' = [handler EXCEPT ![n] =
                     FirstSight(n, f, Handling("objects", f, f.refs, 0))]
    /\ UNCHANGED <<durable, app, mint>>

------------------------------------------------------------------------------
(* The callback's later transactions.                                          *)

\* Repair rows and the WANT that asks for them, together.
QueueWantPage(n) ==
    LET h == handler[n]
        peer == h.frame.src
        refs == Page(h.todo, WantPage, 0)
        rest == h.todo \ refs
    IN  /\ h.stage = "wants"
        /\ repair' = [repair EXCEPT ![n] = @ \cup RepairRows(peer, refs)]
        /\ outbox' = [outbox EXCEPT ![n] =
                        @ \cup {Frame("WANT", FreshId(n), n, peer, refs, FALSE)}]
        /\ mint' = [mint EXCEPT ![n] = @ + 1]
        /\ handler' = [handler EXCEPT ![n] =
                         IF rest = {} THEN AfterWants(n, h.frame) ELSE [h EXCEPT !.todo = rest]]
        /\ UNCHANGED <<store, received, app, net, faults>>

QueueReplyPage(n) ==
    LET h == handler[n]
        f == h.frame
        reply == Frame("SYNC", ResponseId(f.id, h.page), n, f.src,
                       Page(h.todo, SyncPage, h.page), FALSE)
    IN  /\ h.stage = "reply"
        /\ outbox' = [outbox EXCEPT ![n] = QueueFrame(@, reply)]
        /\ handler' = [handler EXCEPT ![n] =
                         IF LastPage(h.todo, h.page) THEN Handling("record", f, {}, 0)
                         ELSE [h EXCEPT !.page = @ + 1]]
        /\ UNCHANGED <<store, received, repair, app, net, mint, faults>>

\* The next reference of a WANT.  queue_frame's answer is not looked at.
QueueObject(n, o) ==
    LET h == handler[n]
    IN  /\ h.stage = "objects"
        /\ o \in h.todo
        /\ \A p \in h.todo \ {o} : Before(o, p)
        /\ Sendable(n, o)
        /\ outbox' = [outbox EXCEPT ![n] = QueueFrame(@, ObjectFrame(o, n, h.frame.src))]
        /\ handler' = [handler EXCEPT ![n] =
                         IF h.todo = {o} THEN Handling("record", h.frame, {}, 0)
                         ELSE [h EXCEPT !.todo = @ \ {o}]]
        /\ UNCHANGED <<store, received, repair, app, net, mint, faults>>

\* Mutant of AbandonWant: the WANT counts as applied all the same.
AbandonWantRecorded(n, o) ==
    /\ handler[n].stage = "objects"
    /\ o \in handler[n].todo
    /\ \A p \in handler[n].todo \ {o} : Before(o, p)
    /\ ~Sendable(n, o)
    /\ handler' = [handler EXCEPT ![n] = Handling("record", @.frame, {}, 0)]
    /\ UNCHANGED <<durable, app, net, mint, faults>>

\* A reference n cannot serve ends the callback: no record, no COMMIT_ACK.
AbandonWant(n, o) ==
    /\ handler[n].stage = "objects"
    /\ o \in handler[n].todo
    /\ \A p \in handler[n].todo \ {o} : Before(o, p)
    /\ ~Sendable(n, o)
    /\ handler' = [handler EXCEPT ![n] = Idle]
    /\ UNCHANGED <<durable, app, net, mint, faults>>

RecordControl(n) ==
    LET f == handler[n].frame
    IN  /\ handler[n].stage = "record"
        /\ received' = [received EXCEPT ![n] = @ \cup {f.id}]
        /\ handler' = [handler EXCEPT ![n] = Handling("ack", f, {}, 0)]
        /\ UNCHANGED <<store, outbox, repair, app, net, mint, faults>>

\* Mutant of ResolveRepair: the rows stay.
ResolveRepairNot(n) ==
    /\ handler[n].stage = "resolve"
    /\ handler' = [handler EXCEPT ![n] = Handling("ack", handler[n].frame, {}, 0)]
    /\ UNCHANGED <<durable, app, net, mint, faults>>

\* Forget the requests for the object, whichever peer they went to.
ResolveRepair(n) ==
    LET f == handler[n].frame
    IN  /\ handler[n].stage = "resolve"
        /\ repair' = [repair EXCEPT ![n] = {r \in @ : r[2] # f.id}]
        /\ handler' = [handler EXCEPT ![n] = Handling("ack", f, {}, 0)]
        /\ UNCHANGED <<store, outbox, received, app, net, mint, faults>>

\* The COMMIT_ACK is sent once and kept nowhere; a TransportError loses it.
Acknowledge(n) ==
    /\ handler[n].stage = "ack"
    /\ net' = Sent(AckOf(handler[n].frame))
    /\ handler' = [handler EXCEPT ![n] = Idle]
    /\ UNCHANGED <<durable, app, mint, faults>>

------------------------------------------------------------------------------
(* Faults.                                                                     *)

Lose(f) ==
    /\ f \in net
    /\ faults < MaxFaults
    /\ faults' = faults + 1
    /\ net' = net \ {f}
    /\ UNCHANGED <<durable, handler, app, mint>>

\* The process dies and starts again on its database.
Crash(n) ==
    /\ faults < MaxFaults
    /\ faults' = faults + 1
    /\ handler' = [handler EXCEPT ![n] = Idle]
    /\ app' = [app EXCEPT ![n] = Free]
    /\ UNCHANGED <<durable, net, mint>>

------------------------------------------------------------------------------
Init ==
    /\ store = [n \in Node |-> {}]
    /\ outbox = [n \in Node |-> {}]
    /\ received = [n \in Node |-> {}]
    /\ repair = [n \in Node |-> {}]
    /\ handler = [n \in Node |-> Idle]
    /\ app = [n \in Node |-> Free]
    /\ net = {}
    /\ mint = [n \in Node |-> 0]
    /\ faults = 0

User(n) ==
    \/ \E t \in Thread : CreateThread(n, t)
    \/ \E p \in Post : CreatePost(n, p)
    \/ \E p \in Post, peer \in Node \ {n} : PublishPost(n, p, peer)
    \/ \E peer \in Node \ {n} : RequestSync(n, peer)

Flush(n) ==
    \/ FlushBegin(n)
    \/ \E e \in Due(n) : FlushEntry(n, e)

Receive(n, f) ==
    \/ ReceiveAck(n, f)
    \/ ReceiveThread(n, f)
    \/ ReceiveSyncPost(n, f)
    \/ ReceiveEarlyPost(n, f)
    \/ ReceiveInventory(n, f)
    \/ ReceiveWant(n, f)

Handle(n) ==
    \/ QueueWantPage(n)
    \/ QueueReplyPage(n)
    \/ \E o \in Object : QueueObject(n, o) \/ AbandonWant(n, o)
    \/ RecordControl(n)
    \/ ResolveRepair(n)
    \/ Acknowledge(n)

Next ==
    \/ \E n \in Node : User(n) \/ QueueInventoryPage(n) \/ Flush(n) \/ Handle(n) \/ Crash(n)
    \/ \E n \in Node, f \in net : Receive(n, f)
    \/ \E f \in net : Lose(f)

Spec == Init /\ [][Next]_vars

------------------------------------------------------------------------------
(* Types.                                                                      *)

Ids == Object \cup ControlId

Frames == [type : Types, id : Ids, src : Node, dst : Node,
           refs : SUBSET Object, reply : BOOLEAN]

Stages == {"wants", "reply", "objects", "record", "resolve", "ack"}

Jobs == [stage : Stages, frame : Frames, todo : SUBSET Object, page : Nat]

Calls == [op : {"flush"}, due : SUBSET Frames]
    \cup [op : {"inventory"}, peer : Node, refs : SUBSET Object, page : Nat]

TypeOK ==
    /\ store \in [Node -> SUBSET Object]
    /\ outbox \in [Node -> SUBSET Frames]
    /\ received \in [Node -> SUBSET Ids]
    /\ repair \in [Node -> SUBSET (Node \X Object)]
    /\ handler \in [Node -> {Idle} \cup Jobs]
    /\ app \in [Node -> {Free} \cup Calls]
    /\ net \subseteq Frames
    /\ mint \in [Node -> Nat]
    /\ faults \in 0 .. MaxFaults

------------------------------------------------------------------------------
(* Safety.                                                                     *)

\* A message that is applied leaves a trace the node keeps: its id and, for an
\* object, the object itself.
Committed(n, id) == id \in received[n] /\ (id \in Object => id \in store[n])

\* A COMMIT_ACK in the air is backed by its sender's database: whatever crash,
\* replay or reordering came between, no frame is acknowledged before it is
\* durable (_receive_thread, _receive_sync_post, _receive_inventory and
\* _receive_want acknowledge last).
AckMeansCommitted ==
    \A f \in net : f.type = "COMMIT_ACK" => Committed(f.src, f.id)

\* Every page and object stays queued until its destination has committed it:
\* an outbox row disappears in no other way (acknowledge, sync_repository.py).
OutboxKeepsUncommitted ==
    [][\A n \in Node : \A e \in outbox[n] \ outbox'[n] : Committed(e.dst, e.id)]_vars

\* A post is never in a database that lacks its thread (receive_sync_post).
PostAfterThread ==
    \A n \in Node : \A p \in store[n] \cap Post : ThreadOf[p] \in store[n]

\* Two WANT frames queued for one peer never ask for the same object: replayed
\* inventories and early posts do not duplicate requests (unrequested_objects).
RequestsNotDuplicated ==
    \A n \in Node : \A v, w \in outbox[n] :
        (v.type = "WANT" /\ w.type = "WANT" /\ v.dst = w.dst /\ v # w) => v.refs \cap w.refs = {}

\* A WANT that its receiver has applied was served: every object it names is
\* queued for the requester or already in the requester's database
\* (_receive_want records the WANT after its last _queue_object).
WantServed ==
    \A n \in Node : \A w \in outbox[n] :
        (w.type = "WANT" /\ w.id \in received[w.dst]) =>
            \A o \in w.refs : o \in store[n] \/ ObjectFrame(o, w.dst, n) \in outbox[w.dst]

\* A repair row never outlives its purpose: while one suppresses further
\* requests for an object, the WANT is still queued here or the object is still
\* queued at the peer (queue_want writes both together; resolve_repair runs
\* before the COMMIT_ACK that lets the peer forget the object).
RepairIsCarried ==
    \A n \in Node : \A r \in repair[n] :
        \/ \E w \in outbox[n] : w.type = "WANT" /\ w.dst = r[1] /\ r[2] \in w.refs
        \/ ObjectFrame(r[2], r[1], n) \in outbox[r[1]]

------------------------------------------------------------------------------
(* Liveness, for two nodes.                                                    *)

EarlyPost(n, f) == f.type = "SYNC_POST" /\ MissingThread(n, f.id)

(* The process keeps running its callbacks and calling flush, and the radio    *)
(* goes on delivering: of the acknowledgements, of the posts that come before  *)
(* their thread and of the other frames, none are passed over for ever in      *)
(* favour of the rest.                                                         *)
Fairness ==
    \A n \in Node :
        /\ WF_vars(QueueInventoryPage(n))
        /\ WF_vars(Handle(n))
        /\ SF_vars(Flush(n))
        /\ SF_vars(\E f \in net : ReceiveAck(n, f))
        /\ \A p \in Post : SF_vars(\E f \in net : f.id = p /\ ReceiveEarlyPost(n, f))
        /\ SF_vars(\E f \in net : f.type # "COMMIT_ACK" /\ ~EarlyPost(n, f) /\ Receive(n, f))

FairSpec == Spec /\ Fairness

\* A published post reaches the peer it was published to, after its thread if
\* need be (flush retries it; _receive_sync_post asks for the thread).
PublishedPostArrives ==
    \A n \in Node : \A m \in Node \ {n}, p \in Post :
        (ObjectFrame(p, n, m) \in outbox[n]) ~> (p \in store[m])

\* The peer asked by f has not begun to answer it: no callback, and no page of
\* a reply left from one that a crash cut short.
Unanswered(f) ==
    /\ f.id \notin received[f.dst]
    /\ handler[f.dst] = Idle \/ handler[f.dst].frame # f
    /\ ~Queued(outbox[f.dst], ResponseId(f.id, 0))
    /\ ResponseId(f.id, 0) \notin received[f.src]

\* An object a node can send, once the thread it belongs to is there.
Fits(o) == o \notin Oversize /\ (o \in Post => ThreadOf[o] \notin Oversize)

\* request_sync is bidirectional: every object on the initiator's pages (their
\* ids are fresh) reaches the peer, and what the peer holds when it comes to
\* answer reaches the initiator, although a crash may cut the answer short.
\* Objects too large for a frame are not asked for, the others are.
SyncRepairsBoth ==
    \A n \in {k \in Node : SyncLimit[k] > 0} :
    \A m \in Node \ {n}, o \in {x \in Object : Fits(x)} :
        /\ (\E f \in outbox[n] : f.type = "SYNC" /\ f.id.page = 0 /\ f.dst = m /\ o \in f.refs)
             ~> (o \in store[m])
        /\ (\E f \in outbox[n] : f.reply /\ f.dst = m /\ Unanswered(f) /\ o \in store[m])
             ~> (o \in store[n])

\* Normal state is silent: every outbox empties and stays empty.
Silence == <>[](\A n \in Node : outbox[n] = {})

------------------------------------------------------------------------------
(* The nodes implement the replication of Forum.                               *)

Replication == INSTANCE Forum WITH held <- store

ReplicationSpec == Replication!Spec
==============================================================================
