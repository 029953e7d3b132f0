# A formal model of SOLoRa

SOLoRa is a local forum whose nodes exchange threads and posts over a LoRa radio. These
modules model its core, check it with TLC on small instances and prove its main safety
properties with TLAPS for every instance. Source paths below are relative to
`src/backend/src/solora/` unless they start with `src/`.

## The system

| part | source | state | operations |
|---|---|---|---|
| SyncNode | `application/sync.py` | none of its own but counters | `publish_post`, `request_sync`, `flush`, `receive` and one handler per message type |
| Sync repository | `adapters/persistence/sync_repository.py`, `records.py` | tables `threads`, `posts`, `outbox`, `received_messages`, `repair_requests` | one transaction per method |
| Forum | `application/forum.py`, `adapters/persistence/repository.py` | `threads`, `posts` | `create_thread`, `create_post` |
| Codec | `domain/protocol.py` | none | encode and decode each message, 233 bytes at most |
| In-memory radio | `adapters/transport/in_memory.py` | endpoints, drop budget | `send`, `transmit`, `drop_next`, `replay` |
| Meshtastic radio | `adapters/transport/meshtastic.py` | SDK interface, subscription, `_connected`, passive transport | `discover`, `close`, `observe_channel`, `_on_connection_lost`, `send` |
| Radio settings | `application/meshtastic_settings.py` | last snapshot, saved connection and selection | `refresh`, `test_connection`, `select`, under a lock |
| System settings | `application/system_settings.py` | name and role | `update_identity` |
| Traffic log | `application/traffic.py`, `web/traffic.py`, `src/frontend/src/traffic.ts` | bounded buffer, revision; the browser's copy | `capture`, `clear`, `snapshot`, stream, merge |
| Runtime | `runtime/` | configuration file, child process, events, locks | `start`, `stop`, `apply` with rollback, `refresh`, `serve` |
| Desktop | `desktop/window.py` | widgets | calls of the runtime |
| Web | `web/` | none | request handlers |
| Frontend | `src/frontend/src/` | the browser's state | views, status watchdog |

How they interact: the web forum writes objects to the database and queues nothing.
`publish_post` writes an object and its outbox row in one transaction. `flush`, called by
the application, sends the due rows through the transport port. The radio calls `receive`
with each frame that arrives; a handler is a series of transactions that ends with one
`COMMIT_ACK`, and a `COMMIT_ACK` deletes the row it answers. `request_sync` starts an
exchange of inventories (`SYNC`), of requests (`WANT`) and of the objects asked for. The
radio adapter, its settings, the traffic log, the runtime and the frontend surround this
core and do not share state with it, but for the frames the traffic log observes.

The desktop window holds `desktop.lock` and starts the server as a child process, which holds
`server.lock`, reads `runtime.json` and reports by lines on its stdout; the headless server and
the configure command meet them in the same locks and file. A page polls the status, opens the
traffic log's event stream while the application is reachable, and re-reads its views after an
outage.

What is hard, and what makes each part correct:

* **Nodes and repository.** Frames are lost, duplicated and reordered; a process dies
  between two transactions of a handler; a flush works from a list that handlers make
  stale. Correct means: nothing is acknowledged before it is durable, nothing leaves an
  outbox before its destination has it, a post never precedes its thread, bookkeeping of
  requests never blocks a repair, an exchange repairs both sides and then falls silent.
* **Outbox schedule.** Backoff without overflow, user traffic first, no starvation.
* **Radio and settings.** Connection loss comes on the SDK's thread, between any two steps
  of discovery; the reported status and the attached transport must follow the connection.
* **System settings.** Two requests may interleave around the check of a role change, forms are
  stale: no system gets an authority that nobody confirmed.
* **Codec.** Paging and text limits are computed from the frame: what fits is exactly what is
  sent, what is sent is what is read, and the log shows what the protocol reads.
* **Traffic log.** Eviction, clears and restarts against an incremental stream that is cut and
  resumed: the page's rows are rows the buffer held, all of them, and catch up.
* **Status watchdog.** Outages that end in a degraded answer, answers that are cut or late: the
  page ends up showing the truth, tells each outage, and re-reads its views.
* **Runtime.** A failed change of settings must end on the old ones, the window must show the
  address that is served, one instance at a time, orphans must end.

## Modules

| module | what it is |
|---|---|
| `Forum` | the abstract specification: nodes hold immutable objects, created once, copied from nodes that hold them, a post after its thread |
| `SyncNodes` | the nodes, their tables, the radio and the faults; properties and fairness |
| `Outbox` | the schedule of the outbox that `SyncNodes` abstracts from: due times, backoff, priorities |
| `RadioConnection` | the radio gateway, its settings and the SDK's thread |
| `MCRadioConnection` | an instance of `RadioConnection` for TLC, with its symmetry |
| `MCSyncNodes`, `MCScenarios` | instances of `SyncNodes` for TLC, by scenario |
| `Runtime` | desktop, child servers, headless server and configure over their locks and `runtime.json` |
| `Watchdog` | the web application's life and the status watchdog of a page |
| `Traffic` | the traffic buffer, its event stream and the log view of that page; extends `Watchdog` |
| `Identity` | the system's role: the forms of the pages, `update_identity`, the settings row |
| `Codec` | the frames of the protocol, and what the traffic log presents of a frame |
| `MCParts` | one instance of `Traffic`, `Identity` and `Codec` for TLC, by scenario |
| `SyncNodesProofs` | the inductive invariant and the theorems about `SyncNodes` |
| `RepairProofs` | the bookkeeping of requests in `SyncNodes`; extends `SyncNodesProofs` |
| `CodecProofs` | what encoding and decoding compute, for every message and frame |
| `OutboxProofs`, `RadioProofs`, `RuntimeProofs`, `TrafficProofs`, `IdentityProofs` | the inductive invariant and the theorems about `Outbox`, `RadioConnection`, `Runtime`, `Traffic` and `Identity` |

### SyncNodes and the code

State: `store` is `threads` and `posts` (identifiers only; content is immutable), `outbox`,
`received` and `repair` are the three other tables, without the scheduling columns. `handler[n]`
is the receive callback in progress at `n`, `app[n]` the `flush` or `request_sync`
in progress, `net` the frames in the air.

Granularity: one step is one committed transaction or one transport call, since these
are the points at which another thread, another process or a crash can come between.
Reads stay with the step whose outcome they decide, except where the code keeps what it
read across later transactions; those reads are kept in the state: the list of a flush (`app[n].due`), the
inventory being paged (`app[n].refs`, `handler[n].todo` at stage "reply"), the objects
still to be requested or queued (`todo`). The stages of a callback:

    SYNC       (opening read) -> wants* -> reply* -> record -> ack
    WANT       (opening read) -> objects* -> record -> ack
    THREAD     store and record -> resolve -> ack
    SYNC_POST  store and record -> resolve -> ack, or wants* and no ack without the thread
    COMMIT_ACK delete the row

Messages: a frame is its type, identifier, ends, reference list and reply flag. The
identifier of an object's frame is the object's own, which is what makes the frame
idempotent and also what the outbox is keyed by. Fresh identifiers are numbered per node;
the identifiers of reply pages are functions of the request and the page number, as in `_response_id`.

The radio: `AirSlots` frames are carried at once, one more is lost (also the case of a
transport that refuses a frame, which `flush` and `_send_ack` ignore); any frame may be
lost or delivered twice while faults remain; frames overtake each other freely. In the
repository `SyncNode` runs over the in-memory network (tests, `demo_two_nodes.py`), which
delivers synchronously; the Meshtastic adapter delivers on an SDK thread. The model has
every interleaving that the transport port allows.

Left out: the legacy `POST` message (no code sends it), counters, retry times and
priorities (any row of the outbox may be due; see `Outbox`), bytes.

### Outbox and the code

One node's outbox against a clock. `row[m]` is a row with its priority, its attempts and what is
left of `next_attempt_at`; `created_at`, which only orders the rows, is the set `after` of the queued rows
that were there before it. `flush` is a flush in progress: the entry it is at (`entry`), those it has still
to attempt (`todo`) and the time since it read them. A list is a set of entries, each with the ids that the query's
ORDER BY puts `ahead` of it (`Precedes`), and the loop takes the `First`. `FlushRecord` is `record_attempt` and
`FlushSend` the call of the transport, two steps for each entry, between which rows are
acknowledged, published and queued again, time passes and the process may die. The rest of
the node is what it does to the outbox: `Publish`, `Queue` (inventories, requests, repaired
objects) and `Acknowledge`, for any frame that has been on the air, late duplicates included.
`since`, `quiet` and `sent` are history for the properties. Times are relative and saturate at
`MaxDelay`, attempts at `AttemptCap`, where the delay no longer changes (`CapSaturates`).

### RadioConnection and the code

`opened` are the SDK's interfaces, `losses` the losses the SDK has published and not delivered,
`gateway`, `passive` and `snapshot` the attributes of the two classes, `saved` and `selection` the
two settings rows. `work` is the request that holds the controller's lock and `step` says
where each thread is in the detaching half of `observe_channel`, which requests and the SDK's
callback both run without a lock of their own. One step is one access of a shared attribute, one
call of the SDK or one saved row; accesses that no other thread can tell apart share a step.

A test is `unbind` (`_notify_binding(None)`) -> `close` -> `open` -> `inspect` -> `store` ->
`connect` -> `save` -> `bind` -> `attach`, and goes from `close`, `open` or `inspect` to `failed`, which saves the
failed connection, and on to `bind` when `discover` raises; `select` enters at `bind`. The database may refuse each
read and write: `get_connection` before `discover`, `save_connection` after it (with the new interface already
live), and what `_status` reads. Each ends the request where it is (`EndRequest`), without binding again. The
SDK's `close()`, or the `unsubscribe` before it, may raise once the gateway has let go of the interface, closed or
not (`CloseMayRaise`). Two history variables say what that left behind: `forgotten`, the interfaces that nobody
holds and nobody closed, and `unsaved`, those whose discovery the database did not take. A refresh keeps the configuration it read
before the lock (`refreshing`). The SDK is external: any interface may lose its link at any time,
closing one may publish its loss too, and one thread delivers losses in any order. A radio behind an
endpoint may be exchanged and its channels changed. A transport whose last reference is
dropped no longer listens, since the SDK's publisher holds listeners weakly.

Left out: listing devices, names and firmware, error texts, decoding of packets. The passive transport's own
unsubscribing (`meshtastic.py:447`) is taken not to raise.

### Runtime and the code

One profile: `file` is `runtime.json`, `desktopLock` and `serverLock` are the two lock files, `child[s]` a
server the desktop has started, with the stage of its start, the settings it read, the EOF and SIGTERM it
was sent, and `out`, its lines still in the pipe or in the queue its reader fills. `controller` are the
attributes of `ServerController` (`queue` names the children whose readers still fill its queue), `window`
those of `ControlWindow` and `work` what is left of the call in the worker thread:

    start    start -> await
    stop     stop (EOF, SIGTERM, SIGKILL, then the end)
    apply    stop -> save -> start -> await -> check [-> stop -> restore -> start -> await -> notify]
    await    may time out: stop -> timeout, then the rest

One step is one system call or file access of one process, or one round of `refresh`. `refresh` reads
some of the lines there are, polls the process, or finds that nothing has come for ten seconds
(`ReadsLines`, `ReadsNothing`, `ReadsStale`). The timer calls it between calls, the worker inside `await`. `tick` arms the next
tick in its last line: when `load_fields` raises what it does not catch, there is none (`TickDies`, `window.ticking`);
the window then keeps what it shows, and a call that has ended is not taken for done. Reads and writes of `runtime.json` may fail, in the window, in
the worker (`ApplyFails`, `Saved`) and in configure, which then ends with the old file. A child
may find the lock taken, the settings invalid or the port in use, report, crash or hang at any
stage; it watches its parent only once it serves. The desktop may crash at any step: the system then closes
the pipes and releases the lock. Headless and configure are one process each; the headless server's
look at `desktop.lock` is two steps, as in `serve`.

Left out: the texts of settings and status, `mode`, port numbers, the listing of networks,
opening a browser, restoring the window of a running instance (`restore.request`), `start` on a process that already runs.

### Watchdog, Traffic and the code

`server` is the web application as its readiness check finds it, `session` counts its starts, `watch` holds the
variables of the status effect: the poll in progress, consecutive failures, the pending
recovery, the state shown, the outage and the one dismissed. An answer is received
in two parts, headers and body: a body that does not come is a degraded application (`Breaks`),
a timeout is a failure at either part (`TimesOut`). `owed` is history.

`contents[s]` is the buffer of session `s` at each of its revisions, so that a property can compare a page
with the buffer at the revision the page shows; a row is its sequence number, which is the revision it was
captured at. `stream` is the EventSource and the generator that feeds it: its cursor
and the messages on their way. `page` are the refs and states of `TrafficLog` (`latest`, `shown`,
`paused`, `selected`, `fence`), `request` its DELETE request, in steps: sent, cleared on the server, the
snapshot of the answer taken, answered. `Merged` is `mergeTraffic`, `Stale` the clear fence. A
server that ends takes its buffer, streams and open requests along; going offline closes the
stream and keeps the rows. Left out: a re-read after an outage that fails in `App.tsx`, filters, export, hex views, the wording of rows.

### Identity and the code

`row` is the only row of `system_settings`, `form[p]` the form of each page (the role last read, the
role chosen, the confirmation), `save[p]` its PUT request: sent, checked, loaded, stored or
refused. `update_identity` is three steps because it reads the role in one transaction and
`save_system_identity` reads the row again and commits in another; the commit writes only a
changed column, and a second INSERT of the row fails. A request may fail at each step, and its
answer be lost. `ticked` and `raced` are history. Left out: the name.

### Codec and the code

Pure operators: an error is the empty set, a result a set of one. Frames are sequences of bytes
with the sizes as constants; text is a sequence of characters of one byte, of two bytes, and white
space, with UTF-8 and `strip` as functions of it. `sample` is either a message a node may send or any
frame that may arrive, and the properties compare encoders, decoders, the limits (`MaxSyncRefs`, `MaxWantRefs`) and the
log's presentation on it. `Contents` is the choice of a parser by the handlers of a node, `Fields` that of the log
(`present`), and `Presented` says what the log shows of a frame. `encode_post_payload`, which no caller uses, is left out.

### Properties

Each is stated in words above its definition.

* Nodes: `AckMeansCommitted`, `OutboxKeepsUncommitted`, `PostAfterThread`, `RequestsNotDuplicated`,
  `WantServed`, `RepairIsCarried` are safety; `ReplicationSpec` is the refinement of `Forum`
  with `held <- store`; `PublishedPostArrives`, `SyncRepairsBoth`, `Silence` are liveness.
* Schedule: `BacksOff` (a wait is never shorter than the backoff of the row's attempts, nor longer than `retry_max`,
  whatever came between), `UserFirst`, and the liveness `NoneStarves`.
* Radio: `OneConnection` (of the interfaces that are not forgotten), `ObserverIsCurrent`, `ObserverIsBound` and
  `SavedIsLive` (of those whose save did not fail); these survive every interleaving with lost connections.
* Runtime: `ShownIsServed` (the address shown is that of the server that runs, and, between calls, the one
  saved), `ApplyRestores` (an apply ends on settings that started, or on the old ones and says so), and the
  liveness `OrphansExit`, `QuitEnds`, `DeathIsNoticed`, the last two for as long as the timer lives.
* Traffic and watchdog: `NoForeignRows`, `NoMissingRows`, `SelectedIsShown`, the action property
  `OnlyAnswersTakeBack`, and the liveness
  `LogCatchesUp` and `PageFollowsServer`.
* Identity: `RoleWasTicked`, `OnlyRacesChangeRole`. Codec: `SentIsRead`, `ReadIsCanonical`, `ReadIsPresented`.

`SyncRepairsBoth` has two halves. What the initiator advertised reaches the peer: page
identifiers are fresh, so no replay can spoil it. What the peer holds reaches the
initiator if the peer has not begun to answer (`Unanswered`): a crash in the
middle of an answer is followed by a second answer under the same identifiers, and pages the
initiator already applied are not read again. Objects authored in between wait for the
next `request_sync`.

## Runs

| run | instance | result |
|---|---|---|
| `repair` | 2 nodes, one `request_sync`, one fault, flushes of one row, a thread and a post: three scenarios, see below | 8 properties hold, 2.8 million states |
| `publish` | a post published to a peer that lacks its thread, nobody calls `request_sync`; 2 frames in the air, two faults, fair | `PublishedPostArrives` and `Silence` hold, 9 thousand states |
| `exchange` | one `request_sync` with pages of 1 over 2 threads: one at each node, both at the peer, both at the caller; 1 frame in the air, one fault, fair | `SyncRepairsBoth` and `Silence` hold, 59 thousand states |
| `oversize_ref` | 2 threads, the first too large for a frame, fair | `SyncRepairsBoth` fails |
| `outbox` | 2 ids, delays of 1, 2, 3, 3... ticks, one crash, fair | 4 properties hold, 475 thousand states |
| `radio` | 2 configurations, 2 radios, 2 channels (symmetric), one thread that refreshes, 2 interfaces, restarts, failing closes and saves | 5 properties hold, 2.4 million states |
| `loss_race` | 1 of each | `LossEndsService` fails |
| `runtime` | 2 settings and an invalid one, 2 child processes, 2 faults, fair | 6 properties hold, 245 thousand states |
| `headless_race` | the same without faults | `HeadlessNotOverDesktop` fails |
| `parts` | five scenarios, see below | 11 properties hold, 326 thousand states |
| `late_clear` | the `log` scenario | `OnlyEvictedAreMissed` fails |
| `role_race` | 2 pages, 3 roles | `RoleChangeConfirmed` fails |

The scenarios of `repair` (`MCScenarios`): `post` has inventory pages of 1, two frames in the air and one callback or
call at a time between crashes; `large` is the same with a post that is too large for a frame; `overlap` has two
callbacks or calls in progress at a node, one frame in the air and pages of 2. In `overlap` the caller of `request_sync` is one node
and the publisher the other. Without that restriction the scenario alone has 2.7 million
states, in which the 8 properties were found to hold too; that run is too long to keep beside the others.

The scenarios of `exchange` are the cases of an exchange of several pages: `each` has a thread at
either node, so that both need repair in one exchange (and the answer has a second page when a crash lets the
first thread arrive before the request is handled again); `answers` has two threads at the peer, so that the answer
has two pages, and `pages` two threads at the caller, whose inventory has two. The fault falls anywhere, also between
two pages. With one frame in the air a flush of several rows loses all but one of them, which one is open, and
frames overtake each other in the outbox and not in the air; in the air they do in `publish` and `repair`. With two slots
the scenario `each` alone has 62 thousand states, for which `SyncRepairsBoth` and `Silence` were found to hold too; that run is
too long to keep.

The scenarios of `parts` (`MCParts`), a behaviour each:

* `log`: a buffer of 2 rows, 3 captures or clears, 2 faults, the application up after one poll; everything
  the page and the stream may do.
* `restart`: the same over an application that stops and starts again, one capture or clear a session.
* `watchdog`: the watchdog with 2 faults and a stream that has nothing to tell; the page keeps its pause.
* `settings`: 2 pages and 3 roles; a page is left alone while its save is under way.
* `wire`: every message and every frame over `Alphabet`, with ids of 1 byte, thread numbers of 1 byte in a `POST` and frames of 7, so that a
  payload holds 1 or 2 references and 4 bytes of text; there are no steps.

Bounds of `SyncNodes`, in guards: `SyncLimit` (fresh identifiers below which `request_sync` may be
called, so the number of exchanges), `FlushBatch` (rows a flush finds due, fewer only
when the outbox holds fewer), `MaxBusy` (callbacks and calls in progress), `AirSlots`,
`MaxFaults`. One thread and one post are enough for every order between a post and its
thread; pages of one reference make an inventory of two pages of two objects; one fault is a loss, a
duplicate or a crash at every point of the exchange, and each property speaks of the
traces of one message. `MaxBusy = 1` still interleaves the nodes, since frames wait in the
air between callbacks; the scenario `overlap` lets callbacks, a flush and a `request_sync` overlap at each of their steps. Deadlock is not
checked: nodes with nothing to send and users with nothing to write do stop.

Fairness (`Fairness` in `SyncNodes`): a callback that has begun goes on (WF); the
application calls `flush` again and again (SF: with a bound on calls in progress it is enabled only
intermittently); the radio does not pass over one kind of frame for ever. The last needs
strong fairness, since frames can be overtaken, and separates acknowledgements, each post whose
thread is missing and the rest: the code retries every row with a capped delay, and losses
are finite in the runs. Users are not fair.

In `Outbox` time passes, the application calls `flush` and a call goes on to its end (WF of
`Tick` and of `Flush`); nothing else is fair. Two ids suffice for a row that overtakes another, is
overtaken, or is queued again under an id that a stale list still names; delays 1, 2, 3 reach the
cap in three attempts.

In `Runtime` a child that does not hang goes on (WF of its steps; a hung one is owed nothing), the
worker goes on and its waits time out (WF of `Work`: every wait of the code has a timeout), the window's timer goes on and each kind
of refresh has its turn until `TickDies` (WF of `TickReads`, `TickPolls`, `TickStale`, and of the steps that end a quit). Users, the
headless server and configure are not fair. Two children are a server and its successor, or an orphan and its successor; two
faults let a start fail and its rollback fail too, or a desktop crash over a child that hangs. One line in the pipe
suffices, as a line may be read at any later refresh.

In `Traffic` the poll and its answers, and the stream's connecting, sending and delivery, go on (WF each): timers
and the browser's reconnecting EventSource in the code. Captures, clears, starts and stops of the
application are not fair; `LogCatchesUp` and `PageFollowsServer` are conditional on its staying up or
down. Three revisions over two rows give an eviction, a clear between captures, and a cursor that is behind
by more than the buffer holds; two sessions give sequence numbers that start again. `overtaken` marks the pages
that `late_clear` is about: the other properties hold of these up to what it shows.

Deadlock is not checked in `runtime` and `parts` either: users may stop, and sessions and revisions are bounded.

In `RadioConnection` two interfaces give an old and a new connection, which is what stale callbacks,
failed tests and rebinding are about; two configurations, radios and channels give each
a wrong choice. Deadlock is not checked: users may stop, and interfaces are bounded.

### What the failing runs show

* `oversize_ref`: inventories advertise objects that do not fit a frame. The `ProtocolError`
  of the first such reference ends the `WANT` callback (`application/sync.py:193`), so
  references behind it starve although they fit (`src/ARCHITECTURE.md:79`).
* `loss_race`: `discover` subscribes to losses before it stores the interface and sets `_connected` last
  (`adapters/transport/meshtastic.py:181-187`). A loss in between is ignored or overwritten, and a
  dead connection is shown as connected until the next test (`src/docs/MESHTASTIC_HARDWARE_TEST.md:42`). The same
  property fails when the loss comes between the check of `observe_channel` (line 98) and the attaching.
* `headless_race`: the headless server looks at `desktop.lock`, drops it and takes `server.lock`
  (`runtime/server.py:51`); a desktop that opens in between owns the profile and the headless server starts
  over it (`src/docs/PHASE3A_RUNTIME.md:78` says it cannot). The desktop's own child then reports that
  the profile is in use; nothing is corrupted.
* `late_clear`: `clear` on the page takes the answer of its DELETE without comparing revisions
  (`src/frontend/src/TrafficLog.tsx:59`). Captures that the stream delivered before the answer disappear from the page, and
  the stream, whose cursor is past them, does not send them again (`src/docs/TRAFFIC_LOG.md:86`: slow
  clients may miss *evicted* rows).
* `role_race`: `update_identity` checks and saves in separate transactions (`application/system_settings.py:48`). A
  save of the name only, checked before a confirmed change of the role commits and stored after
  it, changes the role back without a confirmation (`src/ARCHITECTURE.md:43`).

Seen while modelling, and not run:

* With three nodes, two that ask the third for the same object: `queue_frame` returns false when the
  message id is in the outbox, whatever its destination, and `_queue_object` ignores the answer (`application/sync.py:307`), so
  the second `WANT` is acknowledged and not served. The port is for two nodes; the properties `WantServed` and
  `RepairIsCarried` are checked for two.
* `retry_at` is counted from the start of the flush (`application/sync.py:111`), so a row whose turn in a
  long flush comes later than its delay is due again when the flush ends (`src/PROTOCOL.md:61`). `BacksOff` therefore counts from
  the start of the flush.
* `flush` sends a row with its stored priority (`application/sync.py:118`), so a published post that is
  retransmitted is user traffic still (`src/PROTOCOL.md:51`).
* When `save_connection` fails after `discover` (`application/meshtastic_settings.py:152`), the new connection is live and shown,
  not bound, and the old one is the saved one, until the next test. `SavedIsLive` excepts these interfaces (`unsaved`).
* When `close()` raises in the SDK, or `unsubscribe` before it (`adapters/transport/meshtastic.py:198-200`, and line 183 for a new interface), the
  gateway has already forgotten the interface: it may stay open for good beside the next one. `OneConnection` excepts these (`forgotten`).
* After `load_fields` raises an `OSError` (it catches `ValueError`; `desktop/window.py:161`) no tick follows.
  A quit submits `controller.stop`, the server stops, and nothing takes the result: the window stays, with its buttons
  disabled if a call was under way, and so do the process and its lock (`src/docs/PHASE3_DESKTOP_DELIVERY.md:18`: quit stops the service before
  *exiting*). The model has the step (`TickDies`), and `QuitEnds` and `DeathIsNoticed` are claimed for as long as the timer
  lives: without that condition TLC refutes `QuitEnds` in `Runtime` with one fault.
* `decode_post_payload` accepts thread id 0 and `encode_post_payload` does not; no code sends `POST`, and
  `ReadIsCanonical` leaves it out.

## Proofs

### SyncNodesProofs

It proves for every set of nodes, objects and bounds, from `ObjectIds` (threads,
posts and control messages have distinct identifiers; 96 random bits in the code) and `Bounds`:

| theorem | statement |
|---|---|
| `Invariance` | `Spec => []Inv` |
| `TypeCorrect` | `Spec => []TypeOK` |
| `AcksAreDurable` | `Spec => []AckMeansCommitted` |
| `PostsHaveThreads` | `Spec => []PostAfterThread` |
| `OutboxIsKept` | `Spec => OutboxKeepsUncommitted` |
| `ImplementsReplication` | `Spec => ReplicationSpec` |

`AckMeansCommitted` is not inductive: the step that sends a `COMMIT_ACK` needs to know that the
callback at stage "ack" has recorded its frame. `Inv` therefore adds `HandlerOK` (at each stage
the frame has the right type, is addressed to the node and, from "resolve" on, is recorded),
`FramesOK` (identifiers are of the kind the type says, and the sender of an object's frame
holds the object, which the refinement needs: a received object is one some node
holds), `ReceivedIsStored` and `AcksOK`. `Grows` (databases and received ids only grow) carries
most of it across a step. TLC checked `Inv` on the `repair` instance before it was proved.

### RepairProofs

What a `WANT` in an outbox and a row of `repair_requests` stand for.

| theorem | statement |
|---|---|
| `RequestsAreNotDuplicated` | `Spec => []RequestsNotDuplicated` |
| `RepairInvariance` | `Spec => []RepairInv`, assuming `TwoNodes` |
| `WantsAreServed` | `Spec => []WantServed`, assuming `TwoNodes` |
| `RepairsAreCarried` | `Spec => []RepairIsCarried`, assuming `TwoNodes` |

The first holds for any number of nodes. Its invariant `BookInv` adds to `Inv` that inventories, in frames, in calls and
in replies, name what their sender holds (`InventoriesHeld`), that what a callback is about to ask for is at the
peer, not here and not on record as requested (`WantsPending`), and that the objects of a queued `WANT` are here or
on record (`WantsRecorded`).

The others need `TwoNodes`, the number the port is for; with three they are false (see above). `RepairInv`
follows a request through crash, loss and replay: frames go to another node and their serial numbers have been drawn
(`FramesNumbered`), no two frames share the identifier of a `WANT` (`WantsUnique`; a `WANT` that was received was this
one), an object that is acknowledged, or about to be, is stored and no longer on record as requested (`AcksSettled`; else a
late acknowledgement would remove the only row that serves the request), and each reference that a `WANT`'s callback has
passed is settled at the requester or queued for it (`PassedServed`, which becomes `WantsServed` when the callback records
the frame). TLC checked these invariants on the `repair` and `overlap` instances before they were proved.

### OutboxProofs

For any set of ids, any number of crashes and any delays, from `Delays` (the constants are numbers, the first delay is not 0) and `CapSaturates`
(delays have stopped growing where attempts stop being counted):

| theorem | statement |
|---|---|
| `Invariance` | `Spec => []Inv` |
| `TypeCorrect` | `Spec => []TypeOK` |
| `RowsBackOff` | `Spec => []BacksOff` |
| `UsersAreFirst` | `Spec => UserFirst` |

`BacksOff` speaks of the row, while the wait is written from the attempts that the flush has listed; rows are acknowledged, and
objects queued again under an id, between the two. `ListOK` says what a list may still be relied on for: ids are listed once, a
row that is still queued under a listed id is a user's only if it was listed as one and has no more attempts than it was listed with,
and users are ahead of the rest. That delays do not get shorter (`DelayGrows`) carries the step; the powers of
two it needs, up to the sixteenth, are computed by the prover (`Powers`).

### RadioProofs

For any set of configurations, nodes, channels and requests and any number of interfaces (`MaxOpens`), from
`Absent` (no configuration or node is the absent one) and `OpensBound`:

| theorem | statement |
|---|---|
| `Invariance` | `Spec => []Inv` |
| `TypeCorrect` | `Spec => []TypeOK` |
| `AtMostOneOpen` | `Spec => []OneConnection` |
| `ObserverOnCurrent` | `Spec => []ObserverIsCurrent` |
| `ObserverOnSelection` | `Spec => []ObserverIsBound` |
| `LiveConnectionIsSaved` | `Spec => []SavedIsLive` |
| `DetachingInCloseEnds` | `Spec => [](work.op = "close" => step["request"] # "raised")` |

The invariant has what a request knows at each step (`WorkOK`: whose interface is the newest, whether it is the gateway's
yet) and that no other interface is open than the gateway's, the newest while `discover` has not stored it, and those
whose `close()` raised (`GatewayOK`), from which `OneConnection` follows. `Detached` says that nothing is attached from the end
of a request's first detaching to its binding, although the SDK's thread runs the same code without the
lock: that thread only ever detaches. Hence `DetachingInCloseEnds`: the branch on which `observe_channel(None)` raises
inside `close`, before the interface is let go, is not reached. `LiveIsSaved` and `BoundIsSelected` are `SavedIsLive` and
`ObserverIsBound` with the steps at which they are not yet broken; `LiveIsSaved` has to hold through the requests that end
early, on whichever read or write the database refuses, and names the one write whose failure it cannot survive. TLC checked the invariant on the `radio` instance, and
with a third interface on an instance with one configuration and one channel.

### RuntimeProofs

For any settings, any set of server processes, any number of faults and any length of the pipe, from `Values` (the values that
stand for none are no others) and `Bounds`:

| theorem | statement |
|---|---|
| `Invariance` | `Spec => []Inv` |
| `TypeCorrect` | `Spec => []TypeOK` |
| `ShownAddressIsServed` | `Spec => []ShownIsServed` |
| `ApplyEndsWell` | `Spec => []ApplyRestores` |

The argument is about who may write `runtime.json`: configure and the desktop only under `desktop.lock` (`LocksOK`), and the desktop only
while its controller has no server (`WorkOK`). So the controller's server has read what the controller read (`ServedOK`), and reports
nothing else (`ReportsOK`); what the reader of an earlier server may still queue is not looked at, since a
new server has a new queue. For `ApplyRestores` the calls are sorted by what is left of them: saving,
trying the new settings, going back, starting the old ones again (`ApplyOK` has what is in the file in each). TLC checked the
invariant on the `runtime` instance.

### TrafficProofs

For any capacity, number of captures, clears, restarts, faults and messages in the stream, from `WatchBounds` and `TrafficBounds`:

| theorem | statement |
|---|---|
| `Invariance` | `Spec => []Inv` |
| `TypeCorrect` | `Spec => []TypeOK` |
| `ShowsOnlyHeldRows` | `Spec => []NoForeignRows` |
| `MissesNoRows` | `Spec => []NoMissingRows` |
| `InspectsShownRow` | `Spec => []SelectedIsShown` |
| `MessagesGoForward` | `Spec => OnlyAnswersTakeBack` |

`NoMissingRows` is an argument over the whole path of a row: the page can merge a message only if it already has all rows
up to where the message begins. `BufferOK` says that the buffer holds an interval of rows at each revision and that a row held now
has been held since its capture; `MailOf` that each message on its way tells the buffer at its revision, either as a whole or from the
message before it, and that the first one begins where the page has come to (`Followed`) unless the page was taken back by the answer
to a clear, which is the case that `late_clear` shows and `overtaken` marks. `Ahead` says that what is on its way is behind
neither the page nor its fence, which is why `Stale` drops nothing that is needed. TLC
checked the invariant on the scenarios of `parts` that run the log, and on `Traffic` by itself with the same bounds.

### IdentityProofs

It proves for any number of pages and roles, from `ClientIsRole` (the default role is a role):

| theorem | statement |
|---|---|
| `IdentityInvariance` | `IdentitySpec => []IInv` |
| `IdentityTypeCorrect` | `IdentitySpec => []IdentityTypeOK` |
| `RolesAreTicked` | `IdentitySpec => []RoleWasTicked` |
| `OnlyRaces` | `IdentitySpec => OnlyRacesChangeRole` |

`RoleWasTicked` speaks of the row alone, and a save writes the row from what its request carries. `IInv` adds
that a ticked form is for a role in `ticked` (`FormsTicked`: choosing another role clears the tick), that a request sent with a
confirmation, and one let through, carries such a role or the default (`SavesTicked`), and that a request let
through without a confirmation carries the current role until a commit marks it as raced (`UnracedSaves`), which is what
`OnlyRaces` needs.

### CodecProofs

For all sizes of identifiers and frames, from `Sizes` (a frame has room for its header), all identifiers and reference lists of any bytes, and
all texts over the three kinds of characters of the model. `AnySample` is any message of those that nodes send, or any sequence of bytes as a frame;
`SamplesAreSome` shows that what TLC checks (`CodecInit`) is some of it.

| theorem | statement |
|---|---|
| `SentAreRead` | `AnySample => SentIsRead` |
| `ReadAreCanonical` | `AnySample => ReadIsCanonical` |
| `ReadArePresented` | `ReadIsPresented` |

What a list of references or a text is in bytes is a concatenation of as many parts as it has members, and the lemmas about it are
inductions over them. They are done with a set of the positions for which the claim holds: by `LeastMember`,
the numbers being well-founded, a set with 0 and with every successor has all of them (`Induction`). `FlattenIs`
shows that `FlattenSeq`, which the codec is written with, is the last of a sequence of concatenations. From it follow
where each reference stands in its list (`EncodeRefsIs`), that lists are read back (`DecodeRefsEncoded`) and that
no two byte sequences are the same list (`DecodedRefs`, by quotient and remainder); that no two texts have the same bytes
(`Utf8Injective`: the last byte tells the last character), and that a text without the white space around it has
no more of them (`Utf8Part`), which is why a text that was read always fits a frame again. `FrameBuilt` and `FrameTaken` are the two
directions for the envelope. `Room` is the arithmetic of the page sizes: `MAX_SYNC_REFS` and `MAX_WANT_REFS` are exactly
what fits.

### Only model-checked

* Liveness under fairness, which is out of the prover's reach: `PublishedPostArrives`, `SyncRepairsBoth`, `Silence`, `NoneStarves`,
  `OrphansExit`, `QuitEnds`, `DeathIsNoticed`, `LogCatchesUp`, `PageFollowsServer`.

The other way round, the type invariants of `Traffic` and of `Identity` are proved and no run repeats them.

Constants that stand for bounds of TLC (`MaxFaults`, `MaxOpens`, `MaxRevision`, ...) are arbitrary in the theorems. Two nodes, for two of
them, are the only size that is assumed.

## Plan

Every module of the first plan is written, and every safety and action property that a run checks is proved. Left:

1. That `SyncNodes` behaves as `Outbox` says, one node at a time: `Queue`, `Acknowledge`, `FlushRecord` and `FlushSend` of `SyncNodes` are
   steps of `Outbox` up to what `SyncNodes` abstracts from, and a proof would tie the two models together.
2. The refinement of an abstract log by `Traffic`: a page that follows a server, as `Forum` is one for the nodes.
3. The hazards without a property, where a document says what should happen: a crash between a reply page and the record of its request
   in particular.

## Not modelled

* HTTP: validation of requests, status codes and rendering, which keep no state; the routes themselves are the
  steps of `Identity`, `Traffic`, `Watchdog` and `SyncNodes` they call.
* Migrations, scripts, test tools and the hardware demo: run once, or by hand.
* Widgets and texts of the desktop window, the browser it opens and the file by which a second
  instance raises the first: no property depends on them.
* The parts of the frontend that only show what the API answers: forum, radio and history views, filters, export. The order in
  which the answers to two opened threads arrive is one of them: no document states which one is to be shown.
* The legacy `POST` handler and `receive_post`: no code sends `POST` any more.
* Listing of serial and network devices, names, firmware, error texts: pure input and output.
* Counters of `SyncStats` and of the traffic log's drops: nothing reads them but the display. A capture
  that the buffer's lock drops changes nothing.
