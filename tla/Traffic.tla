-------------------------------- MODULE Traffic --------------------------------
(* TrafficBuffer, its event stream, and the TrafficLog view of a page whose    *)
(* watchdog opens and closes that stream.  A row is its sequence number, the   *)
(* buffer's revision when it was captured; rows of different sessions are      *)
(* different rows.  A capture that the lock drops changes nothing.             *)
EXTENDS Watchdog, Sequences, FiniteSets, FiniteSetsExt, SequencesExt

CONSTANTS
    Capacity,     \* of the buffer
    MaxRevision,  \* bound: captures and clears in a session
    MailSlots     \* bound: stream messages on their way to a page

ASSUME TrafficBounds ==
    /\ Capacity \in Nat \ {0}
    /\ MaxRevision \in Nat
    /\ MailSlots \in Nat \ {0}

VARIABLES
    contents,   \* contents[s]: the rows of session s at its revisions 0, 1, ...
    stream,     \* the EventSource and the generator that feeds it
    request,    \* the page's DELETE request
    page,       \* the refs and states of TrafficLog
    overtaken   \* history: the page took an update older than the one it had

traffic == <<contents, stream, request, page, overtaken>>
vars == <<watchVars, faults, traffic>>

Nothing == [session |-> 0, revision |-> 0, rows |-> {}]
NoRow == <<0, 0>>
Closed == [live |-> FALSE, cursor |-> 0, mail |-> <<>>]
NoRequest == [stage |-> "none", update |-> Nothing]

------------------------------------------------------------------------------
(* TrafficBuffer.                                                              *)

Rows(s, revision) == contents[s][revision + 1]
Revision == Len(contents[session]) - 1
Buffer == Rows(session, Revision)

Becomes(rows) == contents' = [contents EXCEPT ![session] = Append(@, rows)]

Retained(rows) == IF Cardinality(rows) > Capacity THEN rows \ {Min(rows)} ELSE rows

Changes == server # "down" /\ Revision < MaxRevision

Capture ==
    /\ Changes
    /\ Becomes(Retained(Buffer \cup {Revision + 1}))
    /\ UNCHANGED <<watchVars, faults, stream, request, page, overtaken>>

\* Another page clears the buffer.
ClearElsewhere ==
    /\ Changes
    /\ Becomes({})
    /\ UNCHANGED <<watchVars, faults, stream, request, page, overtaken>>

Oldest == IF Buffer = {} THEN Revision + 1 ELSE Min(Buffer)

Snapshot(after) ==
    [session |-> session, revision |-> Revision, oldest |-> Oldest,
     rows |-> {row \in Buffer : row > after}]

------------------------------------------------------------------------------
(* events: the generator of a connection. Its cursor is one more than in the   *)
(* code, 0 before the first message.                                           *)

\* Mutant of FirstCursor: revision 0 counts as sent.
FirstCursorSent == 1

FirstCursor == 0

\* The EventSource connects, at first and after every error.
Connects ==
    /\ ~Offline
    /\ server # "down"
    /\ ~stream.live
    /\ stream' = [live |-> TRUE, cursor |-> FirstCursor, mail |-> <<>>]
    /\ UNCHANGED <<watchVars, faults, contents, request, page, overtaken>>

Streams ==
    /\ stream.live
    /\ stream.cursor # Revision + 1
    /\ Len(stream.mail) < MailSlots
    /\ LET after == IF stream.cursor = 0 THEN 0 ELSE stream.cursor - 1
       IN  stream' = [stream EXCEPT !.cursor = Revision + 1,
                                    !.mail = Append(@, [update |-> Snapshot(after),
                                                        full |-> stream.cursor = 0])]
    /\ UNCHANGED <<watchVars, faults, contents, request, page, overtaken>>

Cut ==
    /\ stream.live
    /\ Fault
    /\ stream' = [stream EXCEPT !.live = FALSE]
    /\ UNCHANGED <<watchVars, contents, request, page, overtaken>>

------------------------------------------------------------------------------
(* The page.                                                                   *)

\* Mutant of Merged: an update is taken for a whole snapshot.
MergedWhole(previous, update) ==
    [session |-> update.session, revision |-> update.revision, rows |-> update.rows]

\* mergeTraffic
Merged(previous, update) ==
    [session |-> update.session, revision |-> update.revision,
     rows |-> {row \in update.rows
                       \cup (IF previous.session = update.session THEN previous.rows ELSE {}) :
                   row >= update.oldest}]

Older(update) ==
    \/ update.session < page.latest.session
    \/ update.session = page.latest.session /\ update.revision < page.latest.revision

\* Mutant of Stale: every message is merged.
StaleNever(update) == FALSE

\* Before the clear that the page has seen.
Stale(update) == update.session = page.latest.session /\ update.revision < page.fence

Kept(selected, view) ==
    IF selected[1] = view.session /\ selected[2] \in view.rows THEN selected ELSE NoRow

Delivered ==
    /\ stream.mail # <<>>
    /\ ~Offline
    /\ stream' = [stream EXCEPT !.mail = Tail(@)]

Take(message) ==
    LET update == message.update
        latest == Merged(page.latest, update)
    IN  /\ page' = [page EXCEPT
              !.latest = latest,
              !.fence = IF update.session # page.latest.session THEN 0 ELSE @,
              !.shown = IF page.paused THEN @ ELSE latest,
              !.selected = IF page.paused THEN @ ELSE Kept(@, latest)]
        /\ overtaken' = IF Older(update) THEN TRUE ELSE overtaken /\ ~message.full

Message ==
    /\ Delivered
    /\ LET message == Head(stream.mail)
       IN  IF Stale(message.update) THEN UNCHANGED <<page, overtaken>> ELSE Take(message)
    /\ UNCHANGED <<watchVars, faults, contents, request>>

\* Mutant of Resumed: the selected row is looked up by its number alone.
ResumedByNumber ==
    IF page.selected[2] \in page.latest.rows THEN page.selected ELSE NoRow

Resumed == Kept(page.selected, page.latest)

TogglePause ==
    /\ page' = IF page.paused
               THEN [page EXCEPT !.paused = FALSE, !.shown = page.latest, !.selected = Resumed]
               ELSE [page EXCEPT !.paused = TRUE]
    /\ UNCHANGED <<watchVars, faults, contents, stream, request, overtaken>>

Select ==
    /\ \E row \in page.shown.rows : page' = [page EXCEPT !.selected = <<page.shown.session, row>>]
    /\ UNCHANGED <<watchVars, faults, contents, stream, request, overtaken>>

(* clear: the DELETE request, TrafficBuffer.clear, the snapshot that answers   *)
(* it, and the answer.                                                         *)

ClearSends ==
    /\ ~Offline
    /\ request.stage = "none"
    /\ request' = [request EXCEPT !.stage = "sent"]
    /\ UNCHANGED <<watchVars, faults, contents, stream, page, overtaken>>

ClearClears ==
    /\ request.stage = "sent"
    /\ Changes
    /\ Becomes({})
    /\ request' = [request EXCEPT !.stage = "cleared"]
    /\ UNCHANGED <<watchVars, faults, stream, page, overtaken>>

ClearAnswers ==
    /\ request.stage = "cleared"
    /\ request' = [stage |-> "answered", update |-> Snapshot(0)]
    /\ UNCHANGED <<watchVars, faults, contents, stream, page, overtaken>>

ClearTaken ==
    /\ request.stage = "answered"
    /\ LET update == request.update
           latest == [session |-> update.session, revision |-> update.revision, rows |-> update.rows]
       IN  page' = [page EXCEPT !.latest = latest, !.shown = latest, !.selected = NoRow,
                                !.fence = update.revision]
    /\ overtaken' = Older(request.update)
    /\ request' = NoRequest
    /\ UNCHANGED <<watchVars, faults, contents, stream>>

ClearFails ==
    /\ request.stage # "none"
    /\ Fault
    /\ request' = NoRequest
    /\ UNCHANGED <<watchVars, contents, stream, page, overtaken>>

------------------------------------------------------------------------------
(* A step of the server or of the watchdog. The process that ends takes its    *)
(* buffer, its streams and the requests in it along; going offline closes the  *)
(* EventSource, and the page keeps its rows.                                   *)
WatchStep ==
    /\ WatchNext
    /\ stream' = IF Offline' /\ ~Offline THEN Closed
                 ELSE [stream EXCEPT !.live = @ /\ server' # "down"]
    /\ request' = IF server' = "down" /\ request.stage \in {"sent", "cleared"}
                  THEN NoRequest ELSE request
    /\ UNCHANGED <<contents, page, overtaken>>

Init ==
    /\ WatchInit
    /\ faults = 0
    /\ contents = [s \in 1 .. MaxSession |-> <<{}>>]
    /\ stream = Closed
    /\ request = NoRequest
    /\ page = [latest |-> Nothing, shown |-> Nothing, paused |-> FALSE, selected |-> NoRow,
               fence |-> 0]
    /\ overtaken = FALSE

Live == Connects \/ Streams \/ Message

Clearing == ClearSends \/ ClearClears \/ ClearAnswers \/ ClearTaken \/ ClearFails

Next == WatchStep \/ Capture \/ ClearElsewhere \/ Live \/ Cut \/ TogglePause \/ Select \/ Clearing

Spec == Init /\ [][Next]_vars

(* The poll and its answers, the stream's turns and its delivery go on.        *)
Fairness ==
    /\ WF_vars(WatchStep /\ Polling)
    /\ WF_vars(Live)

FairSpec == Spec /\ Fairness

------------------------------------------------------------------------------
Views == {page.latest, page.shown}

TypeOK ==
    /\ WatchTypeOK
    /\ contents \in [1 .. MaxSession -> Seq(SUBSET (1 .. MaxRevision))]
    /\ \A s \in 1 .. MaxSession : Len(contents[s]) \in 1 .. MaxRevision + 1
    /\ stream.live \in BOOLEAN /\ stream.cursor \in 0 .. MaxRevision + 1
    /\ Len(stream.mail) <= MailSlots
    /\ request.stage \in {"none", "sent", "cleared", "answered"}
    /\ \A view \in Views : view.session \in 0 .. MaxSession /\ view.revision \in 0 .. MaxRevision
    /\ page.paused \in BOOLEAN
    /\ overtaken \in BOOLEAN

Held(view) == IF view.session = 0 THEN {} ELSE Rows(view.session, view.revision)

\* A page never shows a row that the buffer did not hold at the revision it
\* shows: none cleared, evicted or of an earlier process, whatever order streams,
\* clears and their answers arrive in (mergeTraffic, clearFence, oldest).
NoForeignRows == \A view \in Views : view.rows \subseteq Held(view)

\* Apart from a page that took an update older than its own, a page has every
\* row that the buffer held at the revision it has reached (events, mergeTraffic).
NoMissingRows == ~overtaken => page.latest.rows = Held(page.latest)

\* The packet under inspection is one of the rows shown (setSelected).
SelectedIsShown ==
    page.selected # NoRow => Kept(page.selected, page.shown) = page.selected

\* Messages never take a page back in its session, however late they are: what
\* was cleared or evicted does not come up again.  Only the answer to a clear,
\* which the page takes as it is, may be older than the page (clearFence).
OnlyAnswersTakeBack ==
    [][(page'.latest.session = page.latest.session /\ page'.latest.revision < page.latest.revision)
        => ClearTaken]_vars

\* A page whose application stays up reaches the buffer's last revision, without
\* a reload, unless it took an update older than its own.
LogCatchesUp ==
    <>[](server = "online") =>
        <>[](overtaken \/ (page.latest.session = session /\ page.latest.revision = Revision))

\* "Slow clients may miss evicted diagnostics" (TRAFFIC_LOG.md), and only those.
OnlyEvictedAreMissed == page.latest.rows = Held(page.latest)
==============================================================================
