-------------------------------- MODULE Outbox --------------------------------
(* When a node sends what is in its outbox: the due times, the backoff and the *)
(* priorities that SyncNodes abstracts from (SyncNode.flush over due_outbox    *)
(* and record_attempt), against a clock that goes on while a flush works.      *)
(*                                                                             *)
(* Times are relative: a row carries what is left of its wait, a flush what    *)
(* has passed since it read the clock; all of them saturate at MaxDelay.       *)
EXTENDS Naturals

CONSTANTS
    Message,     \* message ids
    Base,        \* retry_base, in ticks
    MaxDelay,    \* retry_max, in ticks
    AttemptCap,  \* bound: attempts are not told apart from here on
    MaxFaults    \* bound: crashes in a behaviour

Least(x, y) == IF x < y THEN x ELSE y

\* Mutant of Delay: retry_max is not applied.
DelayUncapped(previous) == Base * 2 ^ Least(previous, 16)

Delay(previous) == Least(Base * 2 ^ Least(previous, 16), MaxDelay)

ASSUME Delays ==
    /\ Base \in Nat \ {0}
    /\ MaxDelay \in Nat
    /\ AttemptCap \in Nat
    /\ MaxFaults \in Nat

\* Attempts from AttemptCap on have the same delay.
ASSUME CapSaturates == AttemptCap > 0 /\ Delay(AttemptCap - 1) >= MaxDelay

VARIABLES
    row,     \* row[m]: the outbox row of m, or NoRow
    flush,   \* the flush in progress, or NoFlush
    aired,   \* aired[m]: m's frame has been on the air, so that it may be acknowledged
    since,   \* since[m]: time from the start of the flush that last attempted the row
    quiet,   \* quiet[m]: time from the last call of send for the row
    sent,    \* sent[m]: send was called for the row
    faults

vars == <<row, flush, aired, since, quiet, sent, faults>>
history == <<since, quiet, sent>>

NoRow == [queued |-> FALSE]
NoFlush == [on |-> FALSE]

\* created_at is the set of the rows that were there before.
Rows == [queued : {TRUE}, user : BOOLEAN, attempts : 0 .. AttemptCap, wait : 0 .. MaxDelay,
         after : SUBSET Message]

\* An entry of a flush's list: the row as read, and the ids listed before it.
Entries == [id : Message, user : BOOLEAN, attempts : 0 .. AttemptCap, ahead : SUBSET Message]

Later(time) == Least(time + 1, MaxDelay)

------------------------------------------------------------------------------
(* Rows.                                                                       *)

Insert(m, user) ==
    /\ ~row[m].queued
    /\ row' = [row EXCEPT ![m] = [queued |-> TRUE, user |-> user, attempts |-> 0, wait |-> 0,
                                  after |-> {n \in Message : row[n].queued}]]
    /\ since' = [since EXCEPT ![m] = MaxDelay]
    /\ quiet' = [quiet EXCEPT ![m] = MaxDelay]
    /\ sent' = [sent EXCEPT ![m] = FALSE]
    /\ UNCHANGED <<flush, faults>>

Listed(m) == flush.on /\ \E entry \in flush.todo \cup {flush.entry} : entry.id = m

\* publish_post: a fresh id, here that of a message that is over and done with.
Publish(m) ==
    /\ ~Listed(m)
    /\ Insert(m, TRUE)
    /\ aired' = [aired EXCEPT ![m] = FALSE]

\* queue_frame and queue_want: repair traffic; an object may be queued again.
Queue(m) ==
    /\ Insert(m, FALSE)
    /\ UNCHANGED aired

\* acknowledge: any COMMIT_ACK of m's frame, a late or duplicated one too.
Acknowledge(m) ==
    /\ aired[m]
    /\ row[m].queued
    /\ row' = [n \in Message |-> IF n = m \/ ~row[n].queued THEN NoRow
                                 ELSE [row[n] EXCEPT !.after = @ \ {m}]]
    /\ UNCHANGED <<flush, aired, history, faults>>

------------------------------------------------------------------------------
(* flush.                                                                      *)

\* Mutant of Due: background traffic waits for a flush with no user row due.
DueUserFirst ==
    LET due == {m \in Message : row[m].queued /\ row[m].wait = 0}
        users == {m \in due : row[m].user}
    IN  IF users # {} THEN users ELSE due

Due == {m \in Message : row[m].queued /\ row[m].wait = 0}

\* Mutant of Precedes: the order is by age alone.
PrecedesByAge(m, n) == m \in row[n].after

\* ORDER BY priority DESC, created_at.
Precedes(m, n) ==
    \/ row[m].user /\ ~row[n].user
    \/ row[m].user = row[n].user /\ m \in row[n].after

DueEntries ==
    {[id |-> m, user |-> row[m].user, attempts |-> row[m].attempts,
      ahead |-> {n \in Due : Precedes(n, m)}] : m \in Due}

First(entry, list) == entry \in list /\ \A other \in list : other.id \notin entry.ahead

\* Nothing due is a flush that does nothing.
FlushBegin ==
    /\ ~flush.on
    /\ \E entry \in DueEntries :
           /\ First(entry, DueEntries)
           /\ flush' = [on |-> TRUE, elapsed |-> 0, recorded |-> FALSE, entry |-> entry,
                        todo |-> DueEntries \ {entry}]
    /\ UNCHANGED <<row, aired, history, faults>>

\* Mutant of Attempted: the wait is not updated, so the row stays due.
AttemptedAtOnce(r, entry, elapsed) == [r EXCEPT !.attempts = Least(@ + 1, AttemptCap)]

\* The row counts an attempt; its wait is that of the listed attempts, from the
\* start of the flush.
Attempted(r, entry, elapsed) ==
    LET delay == Delay(entry.attempts)
    IN  [r EXCEPT !.attempts = Least(@ + 1, AttemptCap),
                  !.wait = IF elapsed < delay THEN delay - elapsed ELSE 0]

\* record_attempt, a transaction; an acknowledged row is no longer there.
FlushRecord ==
    /\ flush.on
    /\ ~flush.recorded
    /\ LET entry == flush.entry
       IN  IF row[entry.id].queued
           THEN /\ row' = [row EXCEPT ![entry.id] = Attempted(@, entry, flush.elapsed)]
                /\ since' = [since EXCEPT ![entry.id] = flush.elapsed]
           ELSE UNCHANGED <<row, since>>
    /\ flush' = [flush EXCEPT !.recorded = TRUE]
    /\ UNCHANGED <<aired, quiet, sent, faults>>

\* Transport.send, which may refuse; the frame of a row that is gone is sent too.
FlushSend ==
    /\ flush.on
    /\ flush.recorded
    /\ LET m == flush.entry.id
       IN  /\ \/ aired' = [aired EXCEPT ![m] = TRUE]
              \/ UNCHANGED aired
           /\ quiet' = [quiet EXCEPT ![m] = 0]
           /\ sent' = [sent EXCEPT ![m] = TRUE]
    /\ \/ flush.todo = {} /\ flush' = NoFlush
       \/ \E entry \in flush.todo :
              /\ First(entry, flush.todo)
              /\ flush' = [flush EXCEPT !.recorded = FALSE, !.entry = entry, !.todo = @ \ {entry}]
    /\ UNCHANGED <<row, since, faults>>

------------------------------------------------------------------------------
(* Time and crashes.                                                           *)

Tick ==
    /\ row' = [m \in Message |->
                 IF row[m].queued /\ row[m].wait > 0 THEN [row[m] EXCEPT !.wait = @ - 1]
                 ELSE row[m]]
    /\ flush' = IF flush.on THEN [flush EXCEPT !.elapsed = Later(@)] ELSE flush
    /\ since' = [m \in Message |-> Later(since[m])]
    /\ quiet' = [m \in Message |-> Later(quiet[m])]
    /\ UNCHANGED <<aired, sent, faults>>

Crash ==
    /\ flush.on
    /\ faults < MaxFaults
    /\ faults' = faults + 1
    /\ flush' = NoFlush
    /\ UNCHANGED <<row, aired, history>>

------------------------------------------------------------------------------
Init ==
    /\ row = [m \in Message |-> NoRow]
    /\ flush = NoFlush
    /\ aired = [m \in Message |-> FALSE]
    /\ since = [m \in Message |-> MaxDelay]
    /\ quiet = [m \in Message |-> MaxDelay]
    /\ sent = [m \in Message |-> FALSE]
    /\ faults = 0

Flush == FlushBegin \/ FlushRecord \/ FlushSend

Next ==
    \/ \E m \in Message : Publish(m) \/ Queue(m) \/ Acknowledge(m)
    \/ Flush
    \/ Tick
    \/ Crash

Spec == Init /\ [][Next]_vars

\* Time passes; the application calls flush and each call goes on to its end.
FairSpec == Spec /\ WF_vars(Tick) /\ WF_vars(Flush)

------------------------------------------------------------------------------
TypeOK ==
    /\ row \in [Message -> {NoRow} \cup Rows]
    /\ flush = NoFlush \/ flush \in [on : {TRUE}, elapsed : 0 .. MaxDelay, recorded : BOOLEAN,
                                     entry : Entries, todo : SUBSET Entries]
    /\ aired \in [Message -> BOOLEAN]
    /\ since \in [Message -> 0 .. MaxDelay]
    /\ quiet \in [Message -> 0 .. MaxDelay]
    /\ sent \in [Message -> BOOLEAN]
    /\ faults \in 0 .. MaxFaults

NotTooSoon ==
    \A m \in Message :
        row[m].queued /\ row[m].attempts > 0
            => since[m] + row[m].wait >= Delay(row[m].attempts - 1)

NotTooLate ==
    \A m \in Message : row[m].queued /\ row[m].wait > 0 => since[m] + row[m].wait <= MaxDelay

\* Backoff: a row attempted k times is due no sooner than the k-th delay after
\* the flush that attempted it last began, and no later than retry_max after it,
\* whatever acknowledgements, re-queued objects and crashes came between (flush,
\* _retry_delay and record_attempt).
BacksOff == NotTooSoon /\ NotTooLate

\* When a flush sends what it listed as background traffic, no row it has still
\* to attempt is a user's, though rows were acknowledged and ids queued again
\* since the list was read.
UserFirst ==
    [][FlushSend /\ ~flush.entry.user
        => \A entry \in flush.todo \cup {flush.entry} :
               row[entry.id].queued => ~row[entry.id].user]_vars

\* However much user traffic there is, however late each flush and whatever it
\* was doing when the process died, a row is sent again and again until it is
\* acknowledged: none starves behind others or behind its own backoff.
NoneStarves == \A m \in Message : row[m].queued ~> (~row[m].queued \/ (sent[m] /\ quiet[m] = 0))
==============================================================================
