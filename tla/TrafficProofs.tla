------------------------------ MODULE TrafficProofs ------------------------------
(* The traffic log of a page, for buffers of any capacity and any number of    *)
(* captures, clears, restarts, faults and messages on their way.               *)
EXTENDS Traffic, TLAPS, SequenceTheorems, FiniteSetTheorems

------------------------------------------------------------------------------
(* The inductive invariant.                                                    *)

Row == 1 .. MaxRevision
View == [session : 0 .. MaxSession, revision : 0 .. MaxRevision, rows : SUBSET Row]
Update == [session : 1 .. MaxSession, revision : 0 .. MaxRevision, oldest : 1 .. MaxRevision + 1,
           rows : SUBSET Row]
Mail == [update : Update, full : BOOLEAN]

TrafficTypeOK ==
    /\ contents \in [1 .. MaxSession -> Seq(SUBSET Row)]
    /\ \A s \in 1 .. MaxSession : Len(contents[s]) \in 1 .. MaxRevision + 1
    /\ stream \in [live : BOOLEAN, cursor : 0 .. MaxRevision + 1, mail : Seq(Mail)]
    /\ Len(stream.mail) <= MailSlots
    /\ request \in [stage : {"none", "sent", "cleared", "answered"}, update : Update \cup {Nothing}]
    /\ request.stage = "answered" => request.update \in Update
    /\ page \in [latest : View, shown : View, paused : BOOLEAN,
                 selected : (0 .. MaxSession) \X (0 .. MaxRevision), fence : 0 .. MaxRevision]
    /\ overtaken \in BOOLEAN

\* The buffer has held rows without a gap, up to its revision, and each of them
\* since it was captured.
BufferOK ==
    \A s \in 1 .. MaxSession : \A i \in 1 .. Len(contents[s]) :
        /\ \E oldest \in 1 .. i : contents[s][i] = oldest .. (i - 1)
        /\ \A j \in 1 .. i : contents[s][i] \cap (1 .. (j - 1)) \subseteq contents[s][j]

\* The buffer of a session has been at a revision.
Reached(s, revision) == s \in 1 .. session /\ revision \in 0 .. Len(contents[s]) - 1

\* What a snapshot says of the buffer at its revision, from a row on.
Told(update, after) ==
    /\ Reached(update.session, update.revision)
    /\ Rows(update.session, update.revision) = update.oldest .. update.revision
    /\ update.rows = {r \in Rows(update.session, update.revision) : r > after}

RequestOK == request.stage = "answered" => Told(request.update, 0)

ViewOK(view) ==
    /\ view.session = 0 \/ Reached(view.session, view.revision)
    /\ view.rows \subseteq Held(view)

PageOK ==
    /\ ViewOK(page.latest) /\ ViewOK(page.shown)
    /\ page.fence <= page.latest.revision
    /\ ~overtaken => page.latest.rows = Held(page.latest)

\* One position in the sessions and their revisions is not before another.
NotBefore(s, revision, t, earlier) == s > t \/ (s = t /\ revision >= earlier)

\* A page that has taken or dropped what a stream sent up to a revision has
\* reached it, or was taken back by the answer to a clear sent long before.
Followed(s, revision) ==
    \/ NotBefore(page.latest.session, page.latest.revision, s, revision)
    \/ overtaken /\ (request.stage = "answered" =>
                         NotBefore(request.update.session, request.update.revision, s, revision))

\* The revision before which a message tells nothing.
After(i, delivered) == IF i = 1 THEN delivered ELSE stream.mail[i - 1].update.revision

\* The messages of a stream of session s that has delivered up to a revision.
MailOf(s, delivered) ==
    LET n == Len(stream.mail)
    IN  /\ Reached(s, delivered)
        /\ \A i \in 1 .. n :
               LET message == stream.mail[i]
               IN  /\ message.update.session = s
                   /\ Told(message.update, IF message.full THEN 0 ELSE After(i, delivered))
                   /\ i > 1 => ~message.full
        /\ \A i, j \in 1 .. n : i < j => stream.mail[i].update.revision < stream.mail[j].update.revision
        /\ n > 0 => stream.mail[1].full \/ (stream.mail[1].update.revision > delivered /\ Followed(s, delivered))
        /\ stream.live /\ n > 0 => s = session /\ stream.cursor = stream.mail[n].update.revision + 1
        /\ stream.live /\ n = 0 /\ stream.cursor # 0 =>
               s = session /\ stream.cursor = delivered + 1 /\ Followed(s, delivered)

StreamOK ==
    /\ \E s \in 1 .. session, delivered \in 0 .. MaxRevision : MailOf(s, delivered)
    /\ stream.live => server # "down"

\* What is on its way is not behind the page, or behind its fence.
Ahead ==
    \A i \in 1 .. Len(stream.mail) :
        stream.mail[i].update.session = page.latest.session =>
            \/ stream.mail[i].update.revision >= page.latest.revision
            \/ stream.mail[i].update.revision < page.fence

Inv ==
    /\ WatchTypeOK
    /\ TrafficTypeOK
    /\ BufferOK
    /\ RequestOK
    /\ PageOK
    /\ StreamOK
    /\ Ahead
    /\ SelectedIsShown

------------------------------------------------------------------------------
(* The buffer.                                                                 *)

(* The smallest number of an interval is its first.                            *)
LEMMA MinInterval ==
    ASSUME NEW low \in Nat, NEW high \in Nat, low <= high
    PROVE  Min(low .. high) = low
<1>1. low \in low .. high /\ \A y \in low .. high : low =< y
  OBVIOUS
<1>2. \A x \in low .. high : (\A y \in low .. high : x =< y) => x = low
  OBVIOUS
<1> QED
  BY <1>1, <1>2 DEF Min

(* The buffer of the session that runs, and how far it has come.               *)
LEMMA BufferType ==
    ASSUME WatchTypeOK, TrafficTypeOK, BufferOK
    PROVE  /\ session \in 1 .. MaxSession /\ contents[session] \in Seq(SUBSET Row)
           /\ Revision \in 0 .. MaxRevision /\ Len(contents[session]) = Revision + 1
           /\ Buffer \subseteq Row
           /\ \E oldest \in 1 .. Revision + 1 : Buffer = oldest .. Revision
           /\ Reached(session, Revision)
<1>r. MaxRevision \in Nat
  BY TrafficBounds
<1>1. session \in 1 .. MaxSession /\ contents[session] \in Seq(SUBSET Row)
  BY DEF WatchTypeOK, TrafficTypeOK
<1>2. Len(contents[session]) \in 1 .. MaxRevision + 1
  BY <1>1 DEF TrafficTypeOK
<1>3. Revision \in 0 .. MaxRevision /\ Len(contents[session]) = Revision + 1
  BY <1>2, <1>r DEF Revision
<1>4. Buffer = contents[session][Revision + 1] /\ Revision + 1 \in 1 .. Len(contents[session])
  BY <1>3 DEF Buffer, Rows
<1>5. Buffer \in SUBSET Row
  BY <1>1, <1>4, ElementOfSeq
<1>6. PICK oldest \in 1 .. Revision + 1 : Buffer = oldest .. (Revision + 1 - 1)
  <2>1. PICK i \in 1 .. Len(contents[session]) : i = Revision + 1
    BY <1>4
  <2>2. \E oldest \in 1 .. i : contents[session][i] = oldest .. (i - 1)
    BY <1>1 DEF BufferOK
  <2>3. PICK oldest \in 1 .. i : contents[session][i] = oldest .. (i - 1)
    BY <2>2
  <2>4. oldest \in 1 .. Revision + 1 /\ contents[session][i] = Buffer
    BY <1>4, <2>1, <2>3
  <2>5. Buffer = oldest .. (Revision + 1 - 1)
    BY <1>3, <2>1, <2>3, <2>4
  <2> QED
    BY <2>4, <2>5
<1>7. Buffer = oldest .. Revision
  BY <1>3, <1>6
<1>8. session \in 1 .. session
  BY <1>1
<1> QED
  BY <1>1, <1>3, <1>4, <1>5, <1>6, <1>7, <1>8 DEF Reached

(* What a snapshot tells is what the buffer holds.                             *)
LEMMA SnapshotTold ==
    ASSUME WatchTypeOK, TrafficTypeOK, BufferOK, NEW after \in 0 .. MaxRevision
    PROVE  /\ Snapshot(after) \in Update
           /\ Told(Snapshot(after), after)
           /\ Snapshot(after).session = session /\ Snapshot(after).revision = Revision
<1>1. PICK oldest \in 1 .. Revision + 1 : Buffer = oldest .. Revision
  BY BufferType
<1>2. Revision \in 0 .. MaxRevision /\ MaxRevision \in Nat
  BY BufferType, TrafficBounds
<1>3. Oldest = oldest
  <2>1. CASE Buffer = {}
    BY <1>1, <1>2, <2>1 DEF Oldest
  <2>2. CASE Buffer # {}
    BY <1>1, <1>2, <2>2, MinInterval DEF Oldest
  <2> QED
    BY <2>1, <2>2
<1> DEFINE rows == {r \in Buffer : r > after}
<1>4. Snapshot(after) = [session |-> session, revision |-> Revision, oldest |-> oldest, rows |-> rows]
  BY <1>3 DEF Snapshot
<1>5. rows \in SUBSET Row
  BY BufferType
<1>6. oldest \in 1 .. MaxRevision + 1
  BY <1>1, <1>2
<1>7. session \in 1 .. MaxSession
  BY BufferType
<1>8. Snapshot(after) \in Update
  <2> HIDE DEF rows
  <2> QED
    BY <1>2, <1>4, <1>5, <1>6, <1>7 DEF Update
<1>9. Told(Snapshot(after), after)
  BY <1>1, <1>4, BufferType DEF Told, Buffer
<1> QED
  BY <1>4, <1>8, <1>9

(* A capture adds a row at its end and may take one from its front.            *)
LEMMA RetainedInterval ==
    ASSUME NEW low \in Nat, NEW high \in Nat, low <= high, low >= 1
    PROVE  Retained(low .. high) \in {low .. high, (low + 1) .. high}
<1>1. Min(low .. high) = low
  BY MinInterval
<1>2. (low .. high) \ {low} = (low + 1) .. high
  OBVIOUS
<1> QED
  BY <1>1, <1>2 DEF Retained

\* The session's buffer comes to hold these rows.
Grows(rows) == Changes /\ Becomes(rows) /\ rows \in {{}, Retained(Buffer \cup {Revision + 1})}

(* What the buffer comes to hold is an interval of rows it was to hold.        *)
LEMMA GrowsTo ==
    ASSUME WatchTypeOK, TrafficTypeOK, BufferOK, NEW rows, Grows(rows)
    PROVE  /\ Revision + 1 \in 1 .. MaxRevision
           /\ rows \subseteq Row
           /\ \E oldest \in 1 .. Revision + 2 : rows = oldest .. Revision + 1
           /\ rows \subseteq Buffer \cup {Revision + 1}
<1>1. PICK oldest \in 1 .. Revision + 1 : Buffer = oldest .. Revision
  BY BufferType
<1>2. Revision + 1 \in 1 .. MaxRevision /\ MaxRevision \in Nat /\ Revision \in Nat
  BY BufferType, TrafficBounds DEF Grows, Changes
<1>3. CASE rows = {}
  <2>1. rows = Revision + 2 .. Revision + 1
    BY <1>2, <1>3
  <2> QED
    BY <1>2, <1>3, <2>1
<1>4. CASE rows = Retained(Buffer \cup {Revision + 1})
  <2>1. Buffer \cup {Revision + 1} = oldest .. Revision + 1
    BY <1>1, <1>2
  <2>2. rows \in {oldest .. Revision + 1, (oldest + 1) .. Revision + 1}
    <3>1. oldest \in Nat /\ Revision + 1 \in Nat /\ oldest <= Revision + 1 /\ oldest >= 1
      BY <1>2
    <3>2. Retained(oldest .. (Revision + 1)) \in {oldest .. (Revision + 1), (oldest + 1) .. (Revision + 1)}
      BY <3>1, RetainedInterval
    <3> QED
      BY <1>4, <2>1, <3>2
  <2>3. oldest + 1 \in 1 .. Revision + 2 /\ oldest \in 1 .. Revision + 2
    BY <1>2
  <2>4. oldest .. Revision + 1 \subseteq Row /\ (oldest + 1) .. Revision + 1 \subseteq oldest .. Revision + 1
    BY <1>2 DEF Row
  <2> QED
    BY <1>2, <2>1, <2>2, <2>3, <2>4
<1> QED
  BY <1>3, <1>4 DEF Grows

(* What the buffer of each session has held stays.                             *)
LEMMA GrowsKeeps ==
    ASSUME WatchTypeOK, TrafficTypeOK, BufferOK, NEW rows, Grows(rows)
    PROVE  /\ contents' \in [1 .. MaxSession -> Seq(SUBSET Row)]
           /\ \A s \in 1 .. MaxSession :
                  /\ Len(contents'[s]) = IF s = session THEN Len(contents[s]) + 1 ELSE Len(contents[s])
                  /\ \A i \in 1 .. Len(contents[s]) : contents'[s][i] = contents[s][i]
           /\ contents'[session][Revision + 2] = rows
<1>1. session \in 1 .. MaxSession /\ contents[session] \in Seq(SUBSET Row) /\ Len(contents[session]) = Revision + 1
      /\ Revision \in 0 .. MaxRevision
  BY BufferType
<1>2. rows \in SUBSET Row
  BY GrowsTo
<1>3. PICK old \in Seq(SUBSET Row) : old = contents[session]
  BY <1>1
<1>4. contents' = [contents EXCEPT ![session] = Append(old, rows)]
  BY <1>3 DEF Grows, Becomes
<1>5. Append(old, rows) \in Seq(SUBSET Row) /\ Len(Append(old, rows)) = Len(old) + 1
      /\ (\A i \in 1 .. Len(old) : Append(old, rows)[i] = old[i]) /\ Append(old, rows)[Len(old) + 1] = rows
  BY <1>2, AppendProperties
<1>6. contents \in [1 .. MaxSession -> Seq(SUBSET Row)]
  BY DEF TrafficTypeOK
<1>7. contents'[session] = Append(old, rows) /\ \A s \in 1 .. MaxSession : s # session => contents'[s] = contents[s]
  BY <1>1, <1>4, <1>6
<1>8. contents' \in [1 .. MaxSession -> Seq(SUBSET Row)]
  BY <1>4, <1>5, <1>6
<1>9. Len(old) + 1 = Revision + 2
  BY <1>1, <1>3
<1> QED
  BY <1>1, <1>3, <1>5, <1>7, <1>8, <1>9

\* What the watchdog's record may be, and what may be on its way to it.
Polls == {"waiting", "sent", "unusable"} \cup Health
States == {"checking", "online", "degraded", "offline"}
Watch == [poll : Polls, failures : 0 .. 2, pending : BOOLEAN, state : States, outage : Nat, dismissed : Nat]

(* The watchdog's record with some of its fields set anew.                     *)
LEMMA WatchSet ==
    ASSUME NEW w \in Watch, NEW poll \in Polls, NEW failures \in 0 .. 2, NEW pending \in BOOLEAN,
           NEW state \in States, NEW outage \in Nat
    PROVE  /\ [w EXCEPT !.poll = poll, !.failures = failures] \in Watch
           /\ [w EXCEPT !.poll = poll, !.state = state, !.failures = failures] \in Watch
           /\ [w EXCEPT !.poll = poll, !.state = state, !.failures = failures, !.pending = pending] \in Watch
           /\ [w EXCEPT !.poll = poll, !.failures = failures, !.pending = pending, !.state = state,
                        !.outage = outage] \in Watch
<1>1. [w EXCEPT !.poll = poll, !.failures = failures] \in Watch
  BY DEF Watch
<1>2. [w EXCEPT !.poll = poll, !.state = state, !.failures = failures] \in Watch
  BY DEF Watch
<1>3. [w EXCEPT !.poll = poll, !.state = state, !.failures = failures, !.pending = pending] \in Watch
  BY DEF Watch
<1>4. [w EXCEPT !.poll = poll, !.failures = failures, !.pending = pending, !.state = state,
                !.outage = outage] \in Watch
  BY DEF Watch
<1> QED
  BY <1>1, <1>2, <1>3, <1>4

(* A step of the server or the watchdog starts at most a session, when the     *)
(* server was down.                                                            *)
LEMMA WatchFrame ==
    ASSUME WatchTypeOK, WatchNext
    PROVE  /\ session' \in {session, session + 1}
           /\ session' # session => server = "down"
           /\ WatchTypeOK'
<1>b. MaxFaults \in Nat /\ MaxSession \in Nat \ {0}
  BY WatchBounds
<1>f. Fault => faults' \in 0 .. MaxFaults
  BY <1>b DEF Fault, WatchTypeOK
<1>w. WatchTypeOK <=> /\ server \in Health \cup {"down"} /\ session \in 1 .. MaxSession
                      /\ watch \in Watch /\ owed \in BOOLEAN /\ faults \in 0 .. MaxFaults
  BY DEF WatchTypeOK, Watch, Polls, States
<1>v. WatchTypeOK' <=> /\ server' \in Health \cup {"down"} /\ session' \in 1 .. MaxSession
                       /\ watch' \in Watch /\ owed' \in BOOLEAN /\ faults' \in 0 .. MaxFaults
  BY DEF WatchTypeOK, Watch, Polls, States
<1>p. /\ "waiting" \in Polls /\ 0 \in 0 .. 2 /\ 1 \in 0 .. 2 /\ 2 \in 0 .. 2 /\ TRUE \in BOOLEAN
      /\ {"online", "degraded", "offline"} \subseteq States
  BY DEF Polls, States
<1>1. CASE ServerStops \/ HealthChanges
  BY <1>1, <1>w, <1>v DEF ServerStops, HealthChanges, Soundly
<1>2. CASE ServerStarts
  BY <1>2, <1>b, <1>w, <1>v DEF ServerStarts, Soundly
<1>3. CASE Sends
  BY <1>3 DEF Sends, Soundly, WatchTypeOK, Health
<1>4. CASE Answers
  BY <1>4, <1>f DEF Answers, Soundly, WatchTypeOK, Health
<1>5. CASE Receives
  <2>1. PICK state \in {"online", "degraded"} :
            /\ watch' = [watch EXCEPT !.poll = "waiting", !.state = state, !.failures = 0,
                                      !.pending = @ /\ ~Recovers(state)]
            /\ owed' = (owed /\ ~Recovers(state))
    BY <1>5 DEF Receives
  <2>2. PICK pending \in BOOLEAN : pending = (watch.pending /\ ~Recovers(state))
    OBVIOUS
  <2>3. watch' = [watch EXCEPT !.poll = "waiting", !.state = state, !.failures = 0, !.pending = pending]
    BY <2>1, <2>2
  <2>5. watch' \in Watch
    BY <2>3, <1>p, <1>w, WatchSet
  <2>6. owed' \in BOOLEAN
    BY <2>1
  <2> QED
    BY <1>5, <2>5, <2>6, <1>w, <1>v DEF Receives, Soundly
<1>6. CASE Breaks
  <2>1. watch' \in Watch
    BY <1>6, <1>p, <1>w, WatchSet DEF Breaks
  <2> QED
    BY <1>6, <1>f, <2>1, <1>w, <1>v DEF Breaks
<1>7. ASSUME Unreachable PROVE watch' \in Watch /\ owed' \in BOOLEAN
  <2>1. NextOutage \in Nat
    BY <1>w DEF NextOutage, Watch
  <2>3. CASE watch.failures = 0
    <3>1. watch' = [watch EXCEPT !.poll = "waiting", !.failures = 1] /\ owed' = owed
      BY <1>7, <2>3 DEF Unreachable
    <3> QED
      BY <3>1, <1>p, <1>w, WatchSet
  <2>4. CASE watch.failures # 0
    <3>1. owed' = TRUE /\ watch' = [watch EXCEPT !.poll = "waiting", !.failures = 2, !.pending = TRUE,
                                                 !.state = "offline", !.outage = NextOutage]
      BY <1>7, <2>4 DEF Unreachable
    <3> QED
      BY <2>1, <3>1, <1>p, <1>w, WatchSet
  <2> QED
    BY <2>3, <2>4
<1>8. CASE Refused \/ TimesOut
  BY <1>8, <1>7, <1>f, <1>w, <1>v DEF Refused, TimesOut, Soundly
<1>9. CASE Dismiss
  BY <1>9 DEF Dismiss, Soundly, WatchTypeOK, Health
<1> QED
  BY <1>1, <1>2, <1>3, <1>4, <1>5, <1>6, <1>8, <1>9 DEF WatchNext, Polling

\* The steps that leave the buffer and the server alone.
PageSteps == Connects \/ Streams \/ Cut \/ Message \/ TogglePause \/ Select
             \/ ClearSends \/ ClearAnswers \/ ClearTaken \/ ClearFails

(* A step is one of the server or its watchdog, one of the buffer, or leaves   *)
(* both alone.                                                                 *)
LEMMA StepKinds ==
    ASSUME Next
    PROVE  \/ WatchStep
           \/ /\ \E rows : Grows(rows)
              /\ Capture \/ ClearElsewhere \/ ClearClears
              /\ UNCHANGED <<watchVars, faults, stream, page, overtaken>>
           \/ /\ PageSteps
              /\ UNCHANGED <<watchVars, contents>>
<1>1. CASE Capture
  BY <1>1 DEF Capture, Grows
<1>2. CASE ClearElsewhere
  BY <1>2 DEF ClearElsewhere, Grows
<1>3. CASE ClearClears
  BY <1>3 DEF ClearClears, Grows
<1>4. CASE PageSteps
  BY <1>4 DEF PageSteps, Connects, Streams, Cut, Message, TogglePause, Select, ClearSends, ClearAnswers,
     ClearTaken, ClearFails
<1> QED
  BY <1>1, <1>2, <1>3, <1>4 DEF Next, Live, Clearing, PageSteps

(* No step takes back what a buffer has held, or a session.                    *)
LEMMA HistoryStep ==
    ASSUME WatchTypeOK, TrafficTypeOK, BufferOK, [Next]_vars
    PROVE  /\ session' \in Nat /\ session \in Nat /\ session <= session'
           /\ \A s \in 1 .. MaxSession :
                  /\ Len(contents[s]) \in Nat /\ Len(contents'[s]) \in Nat
                  /\ Len(contents[s]) <= Len(contents'[s])
                  /\ \A i \in 1 .. Len(contents[s]) : contents'[s][i] = contents[s][i]
<1>1. session \in Nat /\ \A s \in 1 .. MaxSession : Len(contents[s]) \in Nat
  BY TrafficBounds DEF WatchTypeOK, TrafficTypeOK
<1>2. CASE WatchStep
  BY <1>1, <1>2, WatchFrame DEF WatchStep
<1>3. ASSUME NEW rows, Grows(rows), UNCHANGED watchVars
      PROVE  /\ session' = session
             /\ \A s \in 1 .. MaxSession :
                  /\ Len(contents'[s]) \in Nat
                  /\ Len(contents[s]) <= Len(contents'[s])
                  /\ \A i \in 1 .. Len(contents[s]) : contents'[s][i] = contents[s][i]
  BY <1>1, <1>3, GrowsKeeps DEF watchVars
<1>4. CASE UNCHANGED <<watchVars, contents>>
  BY <1>1, <1>4 DEF watchVars
<1> QED
  BY <1>1, <1>2, <1>3, <1>4, StepKinds DEF vars, traffic, watchVars

(* A position once reached stays so, with the rows held there.                 *)
LEMMA ReachedStays ==
    ASSUME WatchTypeOK, TrafficTypeOK, BufferOK, [Next]_vars, NEW s \in 1 .. MaxSession, NEW revision, Reached(s, revision)
    PROVE  /\ s \in 1 .. session' /\ revision \in 0 .. Len(contents'[s]) - 1
           /\ contents'[s][revision + 1] = contents[s][revision + 1]
           /\ revision \in 0 .. Len(contents[s]) - 1 /\ s \in 1 .. session
<1>1. s \in 1 .. session /\ revision \in 0 .. Len(contents[s]) - 1
  BY DEF Reached
<1>2. Len(contents[s]) \in Nat
  BY HistoryStep
<1>3. revision + 1 \in 1 .. Len(contents[s])
  BY <1>1, <1>2
<1> QED
  BY <1>1, <1>2, <1>3, HistoryStep

(* What a snapshot told stays true.                                            *)
LEMMA ToldStays ==
    ASSUME WatchTypeOK, TrafficTypeOK, BufferOK, [Next]_vars, NEW update \in Update, NEW after, Told(update, after)
    PROVE  Told(update, after)'
<1>1. update.session \in 1 .. MaxSession /\ Reached(update.session, update.revision)
  BY DEF Update, Told
<1> QED
  BY <1>1, ReachedStays DEF Told, Reached, Rows

(* The buffer goes on without a gap.                                           *)
LEMMA BufferStep ==
    ASSUME WatchTypeOK, TrafficTypeOK, BufferOK, [Next]_vars
    PROVE  BufferOK'
<1>1. CASE UNCHANGED contents
  BY <1>1 DEF BufferOK
<1>2. ASSUME NEW rows, Grows(rows) PROVE BufferOK'
  <2>1. Revision \in 0 .. MaxRevision /\ Len(contents[session]) = Revision + 1 /\ session \in 1 .. MaxSession
    BY BufferType
  <2>2. /\ \A s \in 1 .. MaxSession :
                  /\ Len(contents'[s]) = IF s = session THEN Len(contents[s]) + 1 ELSE Len(contents[s])
                  /\ \A i \in 1 .. Len(contents[s]) : contents'[s][i] = contents[s][i]
        /\ contents'[session][Revision + 2] = rows
    BY <1>2, GrowsKeeps
  <2>3. \A s \in 1 .. MaxSession : Len(contents[s]) \in Nat
    BY HistoryStep
  <2>4. ASSUME NEW s \in 1 .. MaxSession, NEW i \in 1 .. Len(contents[s])
        PROVE  /\ \E oldest \in 1 .. i : contents'[s][i] = oldest .. (i - 1)
               /\ \A j \in 1 .. i : contents'[s][i] \cap (1 .. (j - 1)) \subseteq contents'[s][j]
    <3>1. \A j \in 1 .. i : j \in 1 .. Len(contents[s])
      BY <2>3
    <3>2. contents'[s][i] = contents[s][i] /\ \A j \in 1 .. i : contents'[s][j] = contents[s][j]
      BY <2>2, <3>1
    <3>3. /\ \E oldest \in 1 .. i : contents[s][i] = oldest .. (i - 1)
          /\ \A j \in 1 .. i : contents[s][i] \cap (1 .. (j - 1)) \subseteq contents[s][j]
      BY DEF BufferOK
    <3> QED
      BY <3>2, <3>3
  <2>5. PICK n \in Nat : n = Revision + 2
    BY <2>1
  <2>6. \E oldest \in 1 .. n : rows = oldest .. (n - 1)
    BY <1>2, <2>1, <2>5, GrowsTo
  <2>7. ASSUME NEW j \in 1 .. n PROVE rows \cap (1 .. (j - 1)) \subseteq contents'[session][j]
    <3>1. CASE j = n
      BY <2>2, <2>5, <3>1
    <3>2. CASE j # n
      <4>1. j \in 1 .. Len(contents[session]) /\ j <= Revision + 1
        BY <2>1, <2>5, <3>2
      <4>2. contents'[session][j] = contents[session][j]
        BY <2>1, <2>2, <4>1
      <4>3. PICK r \in 1 .. Len(contents[session]) : r = Revision + 1
        BY <2>1
      <4>4. contents[session][r] \cap (1 .. (j - 1)) \subseteq contents[session][j]
        BY <2>1, <4>1, <4>3 DEF BufferOK
      <4>5. rows \cap (1 .. (j - 1)) \subseteq Buffer
        BY <1>2, <2>1, <4>1, GrowsTo
      <4>6. contents[session][r] = Buffer
        BY <4>3 DEF Buffer, Rows
      <4> QED
        BY <4>2, <4>4, <4>5, <4>6
    <3> QED
      BY <3>1, <3>2
  <2>8. ASSUME NEW s \in 1 .. MaxSession, NEW i \in 1 .. Len(contents'[s]), i \notin 1 .. Len(contents[s])
        PROVE  s = session /\ i = n
    BY <2>1, <2>2, <2>3, <2>5, <2>8
  <2>9. ASSUME NEW s \in 1 .. MaxSession, NEW i \in 1 .. Len(contents'[s])
        PROVE  /\ \E oldest \in 1 .. i : contents'[s][i] = oldest .. (i - 1)
               /\ \A j \in 1 .. i : contents'[s][i] \cap (1 .. (j - 1)) \subseteq contents'[s][j]
    <3>1. CASE i \in 1 .. Len(contents[s])
      BY <2>4, <3>1
    <3>2. CASE i \notin 1 .. Len(contents[s])
      BY <2>2, <2>5, <2>6, <2>7, <2>8, <3>2
    <3> QED
      BY <3>1, <3>2
  <2> QED
    BY <2>9 DEF BufferOK
<1>3. CASE WatchStep
  BY <1>1, <1>3 DEF WatchStep
<1> QED
  BY <1>1, <1>2, <1>3, StepKinds DEF vars, traffic

------------------------------------------------------------------------------
(* The types.                                                                  *)

\* The record of a stream, and of a page.
StreamSet == [live : BOOLEAN, cursor : 0 .. MaxRevision + 1, mail : Seq(Mail)]
PageSet == [latest : View, shown : View, paused : BOOLEAN,
            selected : (0 .. MaxSession) \X (0 .. MaxRevision), fence : 0 .. MaxRevision]

(* The watchdog's types, whatever the step.                                    *)
LEMMA WatchTypeStep ==
    ASSUME WatchTypeOK, [Next]_vars
    PROVE  WatchTypeOK'
<1>1. CASE WatchStep
  BY <1>1, WatchFrame DEF WatchStep
<1>2. CASE UNCHANGED <<watchVars, faults>>
  BY <1>2 DEF WatchTypeOK, watchVars
<1>3. ASSUME UNCHANGED watchVars, Fault PROVE WatchTypeOK'
  <2>1. faults' \in 0 .. MaxFaults
    BY <1>3, WatchBounds DEF Fault, WatchTypeOK
  <2> QED
    BY <1>3, <2>1 DEF WatchTypeOK, watchVars
<1>4. CASE Cut \/ ClearFails
  BY <1>4, <1>3 DEF Cut, ClearFails
<1>5. CASE Capture \/ ClearElsewhere \/ Connects \/ Streams \/ Message
  BY <1>5, <1>2 DEF Capture, ClearElsewhere, Connects, Streams, Message
<1>6. CASE TogglePause \/ Select \/ ClearSends \/ ClearClears \/ ClearAnswers \/ ClearTaken
  BY <1>6, <1>2 DEF TogglePause, Select, ClearSends, ClearClears, ClearAnswers, ClearTaken
<1>7. CASE UNCHANGED vars
  BY <1>7, <1>2 DEF vars
<1> QED
  BY <1>1, <1>4, <1>5, <1>6, <1>7 DEF Next, Live, Clearing

(* The buffers' types.                                                         *)
LEMMA ContentsType ==
    ASSUME WatchTypeOK, TrafficTypeOK, BufferOK, [Next]_vars
    PROVE  /\ contents' \in [1 .. MaxSession -> Seq(SUBSET Row)]
           /\ \A s \in 1 .. MaxSession : Len(contents'[s]) \in 1 .. MaxRevision + 1
<1>1. CASE UNCHANGED contents
  BY <1>1 DEF TrafficTypeOK
<1>2. ASSUME NEW rows, Grows(rows)
      PROVE  /\ contents' \in [1 .. MaxSession -> Seq(SUBSET Row)]
             /\ \A s \in 1 .. MaxSession : Len(contents'[s]) \in 1 .. MaxRevision + 1
  <2>1. Revision + 1 \in 1 .. MaxRevision /\ Len(contents[session]) = Revision + 1
    BY <1>2, GrowsTo, BufferType
  <2>2. \A s \in 1 .. MaxSession : Len(contents[s]) \in 1 .. MaxRevision + 1
    BY DEF TrafficTypeOK
  <2> QED
    BY <1>2, <2>1, <2>2, GrowsKeeps, TrafficBounds
<1>3. CASE WatchStep
  BY <1>1, <1>3 DEF WatchStep
<1> QED
  BY <1>1, <1>2, <1>3, StepKinds DEF vars, traffic

(* What the stream sends, and where its cursor is then.                        *)
LEMMA StreamsSends ==
    ASSUME WatchTypeOK, TrafficTypeOK, BufferOK, Streams
    PROVE  \E after \in 0 .. MaxRevision, full \in BOOLEAN :
               /\ full <=> stream.cursor = 0
               /\ after = IF stream.cursor = 0 THEN 0 ELSE stream.cursor - 1
               /\ stream.live /\ stream.cursor # Revision + 1 /\ Len(stream.mail) < MailSlots
               /\ [update |-> Snapshot(after), full |-> full] \in Mail
               /\ stream' = [stream EXCEPT !.cursor = Revision + 1,
                                           !.mail = Append(@, [update |-> Snapshot(after), full |-> full])]
<1>1. MaxRevision \in Nat /\ stream.cursor \in 0 .. MaxRevision + 1
  BY TrafficBounds DEF TrafficTypeOK
<1>2. PICK after \in 0 .. MaxRevision : after = IF stream.cursor = 0 THEN 0 ELSE stream.cursor - 1
  <2>1. (IF stream.cursor = 0 THEN 0 ELSE stream.cursor - 1) \in 0 .. MaxRevision
    BY <1>1
  <2> QED
    BY <2>1
<1>3. PICK full \in BOOLEAN : full <=> stream.cursor = 0
  OBVIOUS
<1>4. Snapshot(after) \in Update
  BY SnapshotTold
<1>5. [update |-> Snapshot(after), full |-> full] \in Mail
  BY <1>4 DEF Mail
<1>6. stream' = [stream EXCEPT !.cursor = Revision + 1,
                               !.mail = Append(@, [update |-> Snapshot(after), full |-> full])]
  <2>1. full = (stream.cursor = 0)
    BY <1>3
  <2> QED
    BY <1>2, <2>1 DEF Streams
<1> QED
  BY <1>2, <1>3, <1>5, <1>6 DEF Streams

(* What becomes of the page's stream and its messages.                         *)
LEMMA StreamType ==
    ASSUME WatchTypeOK, TrafficTypeOK, BufferOK, [Next]_vars
    PROVE  stream' \in StreamSet /\ Len(stream'.mail) <= MailSlots
<1>1. /\ stream \in StreamSet /\ stream.mail \in Seq(Mail) /\ stream.cursor \in 0 .. MaxRevision + 1
      /\ stream.live \in BOOLEAN /\ Len(stream.mail) <= MailSlots /\ Len(stream.mail) \in Nat
  BY LenProperties DEF TrafficTypeOK, StreamSet
<1>2. MaxRevision \in Nat /\ MailSlots \in Nat \ {0}
  BY TrafficBounds
<1>3. <<>> \in Seq(Mail) /\ Len(<<>>) = 0
  OBVIOUS
<1>4. CASE stream' = [live |-> TRUE, cursor |-> 0, mail |-> <<>>] \/ stream' = Closed
  <2>0. 0 \in 0 .. MaxRevision + 1
    BY <1>2
  <2>3. PICK empty \in Seq(Mail) : empty = <<>>
    BY <1>3
  <2>4. PICK live \in BOOLEAN : stream' = [live |-> live, cursor |-> 0, mail |-> empty]
    BY <1>4, <2>3 DEF Closed
  <2>1. stream' \in StreamSet
    BY <2>0, <2>4 DEF StreamSet
  <2>2. stream'.mail = <<>>
    BY <1>4 DEF Closed
  <2> QED
    BY <1>2, <1>3, <2>1, <2>2
<1>5. ASSUME NEW live \in BOOLEAN, stream' = [stream EXCEPT !.live = live]
      PROVE  stream' \in StreamSet /\ Len(stream'.mail) <= MailSlots
  BY <1>1, <1>5 DEF StreamSet
<1>6. CASE WatchStep
  <2>1. PICK live \in BOOLEAN : live = (stream.live /\ server' # "down")
    OBVIOUS
  <2>2. stream' = Closed \/ stream' = [stream EXCEPT !.live = live]
    BY <1>6, <2>1 DEF WatchStep
  <2> QED
    BY <1>4, <1>5, <2>2
<1>7. CASE Connects
  BY <1>4, <1>7 DEF Connects, FirstCursor
<1>8. CASE Streams
  <2>1. PICK after \in 0 .. MaxRevision, full \in BOOLEAN :
               /\ Len(stream.mail) < MailSlots
               /\ [update |-> Snapshot(after), full |-> full] \in Mail
               /\ stream' = [stream EXCEPT !.cursor = Revision + 1,
                                           !.mail = Append(@, [update |-> Snapshot(after), full |-> full])]
    BY <1>8, StreamsSends
  <2>2. PICK mail \in Seq(Mail) : mail = Append(stream.mail, [update |-> Snapshot(after), full |-> full])
    BY <1>1, <2>1, AppendProperties
  <2>3. Len(mail) = Len(stream.mail) + 1
    BY <1>1, <2>1, <2>2, AppendProperties
  <2>4. Revision + 1 \in 0 .. MaxRevision + 1
    BY <1>2, BufferType
  <2>5. stream' = [stream EXCEPT !.cursor = Revision + 1, !.mail = mail]
    BY <2>1, <2>2
  <2>6. stream' \in StreamSet /\ stream'.mail = mail
    BY <1>1, <2>4, <2>5 DEF StreamSet
  <2> QED
    BY <1>1, <1>2, <2>1, <2>3, <2>6
<1>9. CASE Cut
  BY <1>5, <1>9 DEF Cut
<1>10. CASE Message
  <2>1. stream.mail # <<>> /\ stream' = [stream EXCEPT !.mail = Tail(stream.mail)]
    BY <1>10 DEF Message, Delivered
  <2>2. Tail(stream.mail) \in Seq(Mail) /\ Len(Tail(stream.mail)) = Len(stream.mail) - 1
    BY <1>1, <2>1, HeadTailProperties
  <2>3. stream' \in StreamSet /\ stream'.mail = Tail(stream.mail)
    BY <1>1, <2>1, <2>2 DEF StreamSet
  <2> QED
    BY <1>1, <1>2, <2>2, <2>3
<1>11. CASE UNCHANGED stream
  BY <1>1, <1>11
<1>12. CASE Capture \/ ClearElsewhere \/ TogglePause \/ Select
  BY <1>11, <1>12 DEF Capture, ClearElsewhere, TogglePause, Select
<1>13. CASE Clearing
  BY <1>11, <1>13 DEF Clearing, ClearSends, ClearClears, ClearAnswers, ClearTaken, ClearFails
<1> QED
  BY <1>6, <1>7, <1>8, <1>9, <1>10, <1>11, <1>12, <1>13 DEF Next, Live, vars, traffic

(* The request of the page, and what its answer tells.                         *)
LEMMA RequestStep ==
    ASSUME WatchTypeOK, TrafficTypeOK, BufferOK, RequestOK, [Next]_vars
    PROVE  /\ request' \in [stage : {"none", "sent", "cleared", "answered"}, update : Update \cup {Nothing}]
           /\ request'.stage = "answered" => request'.update \in Update
           /\ RequestOK'
           /\ request'.stage = "answered" =>
                  \/ request' = request
                  \/ /\ ClearAnswers
                     /\ request'.update.session = session /\ request'.update.revision = Revision
<1> DEFINE Requests == [stage : {"none", "sent", "cleared", "answered"}, update : Update \cup {Nothing}]
<1>1. request \in Requests /\ (request.stage = "answered" => request.update \in Update)
  BY DEF TrafficTypeOK
<1>2. CASE request' = request
  <2>1. ASSUME request'.stage = "answered" PROVE Told(request.update, 0)'
    <3>1. PICK update \in Update : update = request.update /\ update = request'.update
      BY <1>1, <1>2, <2>1
    <3>2. Told(update, 0)'
      BY <1>2, <2>1, <3>1, ToldStays DEF RequestOK
    <3> QED
      BY <3>1, <3>2
  <2>2. RequestOK'
    BY <2>1 DEF RequestOK
  <2> QED
    BY <1>1, <1>2, <2>2
<1>3. CASE request' = NoRequest
  BY <1>3 DEF NoRequest, RequestOK
<1>4. ASSUME NEW stage \in {"sent", "cleared"}, request' = [request EXCEPT !.stage = stage]
      PROVE  request' \in Requests /\ request'.stage # "answered" /\ RequestOK'
  BY <1>1, <1>4 DEF RequestOK
<1>5. CASE ClearAnswers
  <2>1. MaxRevision \in Nat /\ 0 \in 0 .. MaxRevision
    BY TrafficBounds
  <2>2. PICK update \in Update :
            update = Snapshot(0) /\ Told(update, 0) /\ update.session = session /\ update.revision = Revision
    BY <2>1, SnapshotTold
  <2>3. request' = [stage |-> "answered", update |-> update]
    BY <1>5, <2>2 DEF ClearAnswers
  <2>4. request' \in Requests /\ request'.update = update
    BY <2>3
  <2>5. Told(update, 0)'
    BY <2>2, ToldStays
  <2>6. RequestOK'
    BY <2>4, <2>5 DEF RequestOK
  <2> QED
    BY <1>5, <2>2, <2>4, <2>6
<1>6. CASE WatchStep
  BY <1>2, <1>3, <1>6 DEF WatchStep
<1>7. CASE ClearSends \/ ClearClears
  BY <1>4, <1>7 DEF ClearSends, ClearClears
<1>8. CASE ClearTaken \/ ClearFails
  BY <1>3, <1>8 DEF ClearTaken, ClearFails
<1>9. CASE Capture \/ ClearElsewhere \/ Live \/ Cut \/ TogglePause \/ Select
  BY <1>2, <1>9 DEF Capture, ClearElsewhere, Live, Connects, Streams, Message, Cut, TogglePause, Select
<1>10. CASE UNCHANGED vars
  BY <1>2, <1>10 DEF vars, traffic
<1> QED
  BY <1>5, <1>6, <1>7, <1>8, <1>9, <1>10 DEF Next, Clearing

(* A merged view is a view.                                                    *)
LEMMA MergedIs ==
    ASSUME NEW previous \in View, NEW update \in Update
    PROVE  /\ Merged(previous, update) \in View
           /\ Merged(previous, update).session = update.session
           /\ Merged(previous, update).revision = update.revision
           /\ \A row : row \in Merged(previous, update).rows <=>
                  /\ row \in update.rows \/ (previous.session = update.session /\ row \in previous.rows)
                  /\ row >= update.oldest
<1> DEFINE rows == {row \in update.rows
                              \cup (IF previous.session = update.session THEN previous.rows ELSE {}) :
                          row >= update.oldest}
<1>1. Merged(previous, update) = [session |-> update.session, revision |-> update.revision, rows |-> rows]
  BY DEF Merged
<1>2. previous.rows \in SUBSET Row /\ update.rows \in SUBSET Row
  BY DEF View, Update
<1>3. rows \in SUBSET Row
  BY <1>2
<1>4. update.session \in 0 .. MaxSession /\ update.revision \in 0 .. MaxRevision
  BY WatchBounds DEF Update
<1>5. Merged(previous, update) \in View
  <2> HIDE DEF rows
  <2> QED
    BY <1>1, <1>3, <1>4 DEF View
<1> QED
  BY <1>1, <1>5

(* The row that stays selected is in the view.                                 *)
LEMMA KeptIs ==
    ASSUME NEW selected \in (0 .. MaxSession) \X (0 .. MaxRevision), NEW view
    PROVE  /\ Kept(selected, view) \in (0 .. MaxSession) \X (0 .. MaxRevision)
           /\ Kept(selected, view) # NoRow =>
                  Kept(Kept(selected, view), view) = Kept(selected, view)
<1>1. NoRow \in (0 .. MaxSession) \X (0 .. MaxRevision)
  BY TrafficBounds, WatchBounds DEF NoRow
<1> QED
  BY <1>1 DEF Kept

(* What the page has after a message that it takes.                            *)
LEMMA TakeIs ==
    ASSUME page \in PageSet, NEW message \in Mail, Take(message)
    PROVE  /\ page' \in PageSet
           /\ page'.latest = Merged(page.latest, message.update)
           /\ page'.fence = IF message.update.session # page.latest.session THEN 0 ELSE page.fence
           /\ page'.shown = IF page.paused THEN page.shown ELSE page'.latest
           /\ page'.selected = IF page.paused THEN page.selected ELSE Kept(page.selected, page'.latest)
           /\ overtaken' = IF Older(message.update) THEN TRUE ELSE overtaken /\ ~message.full
<1>1. message.update \in Update
  BY DEF Mail
<1>2. page.latest \in View /\ page.shown \in View /\ page.fence \in 0 .. MaxRevision
      /\ page.selected \in (0 .. MaxSession) \X (0 .. MaxRevision) /\ page.paused \in BOOLEAN
  BY DEF PageSet
<1>3. PICK latest \in View : latest = Merged(page.latest, message.update)
  BY <1>1, <1>2, MergedIs
<1>4. PICK fence \in 0 .. MaxRevision :
          fence = IF message.update.session # page.latest.session THEN 0 ELSE page.fence
  <2>1. 0 \in 0 .. MaxRevision
    BY TrafficBounds
  <2> QED
    BY <1>2, <2>1
<1>5. PICK shown \in View : shown = IF page.paused THEN page.shown ELSE latest
  BY <1>2
<1>6. PICK selected \in (0 .. MaxSession) \X (0 .. MaxRevision) :
          selected = IF page.paused THEN page.selected ELSE Kept(page.selected, latest)
  BY <1>2, KeptIs
<1>7. page' = [page EXCEPT !.latest = latest, !.fence = fence, !.shown = shown, !.selected = selected]
  BY <1>3, <1>4, <1>5, <1>6 DEF Take
<1>8. /\ page' \in PageSet /\ page'.latest = latest /\ page'.fence = fence /\ page'.shown = shown
      /\ page'.selected = selected
  BY <1>7 DEF PageSet
<1>9. overtaken' = IF Older(message.update) THEN TRUE ELSE overtaken /\ ~message.full
  BY DEF Take
<1> QED
  BY <1>3, <1>4, <1>5, <1>6, <1>8, <1>9

(* What the page has after the answer to its clear.                            *)
LEMMA ClearTakenIs ==
    ASSUME page \in PageSet, request.update \in Update, ClearTaken
    PROVE  /\ page' \in PageSet
           /\ page'.latest.session = request.update.session
           /\ page'.latest.revision = request.update.revision
           /\ page'.latest.rows = request.update.rows
           /\ page'.fence = request.update.revision
           /\ page'.shown = page'.latest
           /\ page'.selected = NoRow
           /\ overtaken' = Older(request.update)
           /\ request' = NoRequest
           /\ request.stage = "answered"
<1>1. PICK latest : latest = [session |-> request.update.session, revision |-> request.update.revision,
                              rows |-> request.update.rows]
  OBVIOUS
<1>2. /\ request.update.session \in 0 .. MaxSession /\ request.update.revision \in 0 .. MaxRevision
      /\ request.update.rows \in SUBSET Row
  BY WatchBounds DEF Update
<1>3. latest \in View
  BY <1>1, <1>2 DEF View
<1>4. NoRow \in (0 .. MaxSession) \X (0 .. MaxRevision)
  BY TrafficBounds, WatchBounds DEF NoRow
<1>5. PICK fence \in 0 .. MaxRevision : fence = request.update.revision
  BY <1>2
<1>6. PICK none \in (0 .. MaxSession) \X (0 .. MaxRevision) : none = NoRow
  BY <1>4
<1>7. page' = [page EXCEPT !.latest = latest, !.shown = latest, !.selected = none, !.fence = fence]
  BY <1>1, <1>5, <1>6 DEF ClearTaken
<1>8. /\ page' \in PageSet /\ page'.latest = latest /\ page'.shown = latest /\ page'.selected = none
      /\ page'.fence = fence
  BY <1>3, <1>7 DEF PageSet
<1> QED
  BY <1>1, <1>5, <1>6, <1>8 DEF ClearTaken

(* What pausing, resuming and selecting change on the page.                    *)
LEMMA HandIs ==
    ASSUME page \in PageSet, TogglePause \/ Select
    PROVE  /\ page' \in PageSet
           /\ page'.latest = page.latest /\ page'.fence = page.fence
           /\ page'.shown \in {page.shown, page.latest}
           /\ \/ page'.shown = page.shown /\ page'.selected = page.selected
              \/ page'.shown = page.latest /\ page'.selected = Kept(page.selected, page.latest)
              \/ /\ page'.shown = page.shown
                 /\ \E row \in page.shown.rows : page'.selected = <<page.shown.session, row>>
           /\ UNCHANGED <<overtaken, request, contents, stream, session>>
<1>1. page.latest \in View /\ page.shown \in View /\ page.fence \in 0 .. MaxRevision
      /\ page.selected \in (0 .. MaxSession) \X (0 .. MaxRevision) /\ page.paused \in BOOLEAN
  BY DEF PageSet
<1>2. CASE TogglePause /\ page.paused
  <2>1. PICK selected \in (0 .. MaxSession) \X (0 .. MaxRevision) : selected = Kept(page.selected, page.latest)
    BY <1>1, KeptIs
  <2>2. page' = [page EXCEPT !.paused = FALSE, !.shown = page.latest, !.selected = selected]
    BY <1>2, <2>1 DEF TogglePause, Resumed
  <2>3. /\ page' \in PageSet /\ page'.latest = page.latest /\ page'.fence = page.fence
        /\ page'.shown = page.latest /\ page'.selected = selected
    BY <1>1, <2>2 DEF PageSet
  <2> QED
    BY <1>2, <2>1, <2>3 DEF TogglePause, watchVars
<1>3. CASE TogglePause /\ ~page.paused
  <2>1. page' = [page EXCEPT !.paused = TRUE]
    BY <1>3 DEF TogglePause
  <2>2. /\ page' \in PageSet /\ page'.latest = page.latest /\ page'.fence = page.fence
        /\ page'.shown = page.shown /\ page'.selected = page.selected
    BY <1>1, <2>1 DEF PageSet
  <2> QED
    BY <1>3, <2>2 DEF TogglePause, watchVars
<1>4. CASE Select
  <2>1. PICK row \in page.shown.rows : page' = [page EXCEPT !.selected = <<page.shown.session, row>>]
    BY <1>4 DEF Select
  <2>2. page.shown.session \in 0 .. MaxSession /\ row \in 0 .. MaxRevision
    BY <1>1, <2>1, TrafficBounds DEF View, Row
  <2>3. PICK selected \in (0 .. MaxSession) \X (0 .. MaxRevision) : selected = <<page.shown.session, row>>
    BY <2>2
  <2>4. page' = [page EXCEPT !.selected = selected]
    BY <2>1, <2>3
  <2>5. /\ page' \in PageSet /\ page'.latest = page.latest /\ page'.fence = page.fence
        /\ page'.shown = page.shown /\ page'.selected = selected
    BY <1>1, <2>4 DEF PageSet
  <2> QED
    BY <1>4, <2>1, <2>3, <2>5 DEF Select, watchVars
<1> QED
  BY <1>2, <1>3, <1>4

(* The first message on its way, and what remains when it is delivered.        *)
LEMMA DeliveredIs ==
    ASSUME TrafficTypeOK, Message
    PROVE  /\ stream.mail # <<>> /\ Len(stream.mail) \in Nat \ {0}
           /\ Head(stream.mail) = stream.mail[1] /\ stream.mail[1] \in Mail
           /\ stream'.mail = Tail(stream.mail) /\ stream'.live = stream.live /\ stream'.cursor = stream.cursor
           /\ Len(stream'.mail) = Len(stream.mail) - 1
           /\ \A i \in 1 .. Len(stream'.mail) : stream'.mail[i] = stream.mail[i + 1]
           /\ UNCHANGED <<request, contents, session, server>>
           /\ \/ Stale(stream.mail[1].update) /\ UNCHANGED <<page, overtaken>>
              \/ ~Stale(stream.mail[1].update) /\ Take(stream.mail[1])
<1>1. stream \in StreamSet
  BY DEF TrafficTypeOK, StreamSet
<1>2. stream.mail # <<>> /\ stream' = [stream EXCEPT !.mail = Tail(stream.mail)]
  BY DEF Message, Delivered
<1>3. stream.mail \in Seq(Mail)
  BY <1>1 DEF StreamSet
<1>4. /\ Tail(stream.mail) \in Seq(Mail) /\ Len(Tail(stream.mail)) = Len(stream.mail) - 1
      /\ \A i \in 1 .. Len(Tail(stream.mail)) : Tail(stream.mail)[i] = stream.mail[i + 1]
  BY <1>2, <1>3, HeadTailProperties
<1>5. Len(stream.mail) \in Nat \ {0}
  BY <1>2, <1>3, EmptySeq, LenProperties
<1>6. Head(stream.mail) = stream.mail[1]
  BY <1>2, <1>3, HeadTailProperties
<1>7. stream.mail[1] \in Mail
  BY <1>3, <1>5, ElementOfSeq
<1>8. stream'.mail = Tail(stream.mail) /\ stream'.live = stream.live /\ stream'.cursor = stream.cursor
  BY <1>1, <1>2 DEF StreamSet
<1>9. \/ Stale(stream.mail[1].update) /\ UNCHANGED <<page, overtaken>>
      \/ ~Stale(stream.mail[1].update) /\ Take(stream.mail[1])
  BY <1>6 DEF Message
<1> QED
  BY <1>2, <1>4, <1>5, <1>6, <1>7, <1>8, <1>9 DEF Message, watchVars

------------------------------------------------------------------------------
(* The page.                                                                   *)

(* A position that has been reached, and the rows held there.                  *)
LEMMA ReachedIs ==
    ASSUME WatchTypeOK, TrafficTypeOK, BufferOK, NEW s, NEW revision, Reached(s, revision)
    PROVE  /\ s \in 1 .. MaxSession /\ s \in Nat /\ revision \in Nat /\ session \in Nat /\ s <= session
           /\ revision \in 0 .. MaxRevision
           /\ s = session => revision <= Revision
           /\ \E oldest \in 1 .. revision + 1 : Rows(s, revision) = oldest .. revision
           /\ \A earlier \in 0 .. revision : Rows(s, revision) \cap (1 .. earlier) \subseteq Rows(s, earlier)
<1>1. session \in 1 .. MaxSession /\ MaxSession \in Nat /\ MaxRevision \in Nat
  BY WatchBounds, TrafficBounds DEF WatchTypeOK
<1>2. s \in 1 .. session /\ revision \in 0 .. Len(contents[s]) - 1
  BY DEF Reached
<1>3. s \in 1 .. MaxSession /\ s \in Nat /\ session \in Nat /\ s <= session
  BY <1>1, <1>2
<1>4. Len(contents[s]) \in 1 .. MaxRevision + 1
  BY <1>3 DEF TrafficTypeOK
<1>5. revision \in Nat /\ revision \in 0 .. MaxRevision /\ revision + 1 \in 1 .. Len(contents[s])
  BY <1>1, <1>2, <1>4
<1>6. s = session => revision <= Revision
  BY <1>2, <1>4, <1>1 DEF Revision
<1>7. PICK i \in 1 .. Len(contents[s]) : i = revision + 1
  BY <1>5
<1>8. /\ \E oldest \in 1 .. i : contents[s][i] = oldest .. (i - 1)
      /\ \A j \in 1 .. i : contents[s][i] \cap (1 .. (j - 1)) \subseteq contents[s][j]
  BY <1>3 DEF BufferOK
<1>9. \E oldest \in 1 .. revision + 1 : Rows(s, revision) = oldest .. revision
  <2>1. PICK oldest \in 1 .. i : contents[s][i] = oldest .. (i - 1)
    BY <1>8
  <2>2. i - 1 = revision
    BY <1>5, <1>7
  <2> QED
    BY <1>7, <2>1, <2>2 DEF Rows
<1>10. ASSUME NEW earlier \in 0 .. revision
       PROVE  Rows(s, revision) \cap (1 .. earlier) \subseteq Rows(s, earlier)
  <2>1. PICK j \in 1 .. i : j = earlier + 1
    BY <1>5, <1>7
  <2>2. j - 1 = earlier
    BY <1>5, <2>1
  <2>3. contents[s][i] \cap (1 .. (j - 1)) \subseteq contents[s][j]
    BY <1>8
  <2> QED
    BY <1>7, <2>1, <2>2, <2>3 DEF Rows
<1> QED
  BY <1>3, <1>5, <1>6, <1>9, <1>10

(* A message that is not behind the page brings it to what the buffer held; to *)
(* all of it, when the page had all that the message leaves out.               *)
LEMMA MergedHeld ==
    ASSUME WatchTypeOK, TrafficTypeOK, BufferOK, PageOK,
           NEW update \in Update, NEW after \in Nat, Told(update, after),
           update.session = page.latest.session => update.revision >= page.latest.revision
    PROVE  /\ Merged(page.latest, update).rows \subseteq Rows(update.session, update.revision)
           /\ \/ after = 0
              \/ /\ page.latest.rows = Held(page.latest)
                 /\ page.latest.session = update.session
                 /\ page.latest.revision >= after
              => Merged(page.latest, update).rows = Rows(update.session, update.revision)
<1> DEFINE rows == Merged(page.latest, update).rows
           held == Rows(update.session, update.revision)
<1>1. page.latest \in View
  BY DEF TrafficTypeOK
<1>2. \A row : row \in rows <=>
                  /\ row \in update.rows \/ (page.latest.session = update.session /\ row \in page.latest.rows)
                  /\ row >= update.oldest
  BY <1>1, MergedIs
<1>3. /\ Reached(update.session, update.revision) /\ held = update.oldest .. update.revision
      /\ update.rows = {r \in held : r > after}
  BY DEF Told
<1>4. update.revision \in Nat /\ update.session \in 1 .. MaxSession /\ update.oldest \in Nat \ {0}
  BY WatchBounds, TrafficBounds DEF Update
<1>5. page.latest.session = update.session =>
          /\ Reached(page.latest.session, page.latest.revision)
          /\ page.latest.rows \subseteq Rows(page.latest.session, page.latest.revision)
          /\ Held(page.latest) = Rows(page.latest.session, page.latest.revision)
  BY <1>4 DEF PageOK, ViewOK, Held
<1>6. ASSUME NEW row \in rows PROVE row \in held
  <2>1. CASE row \in update.rows
    BY <1>3, <2>1
  <2>2. CASE page.latest.session = update.session /\ row \in page.latest.rows
    <3>1. PICK oldest \in 1 .. page.latest.revision + 1 :
              Rows(page.latest.session, page.latest.revision) = oldest .. page.latest.revision
      BY <1>5, <2>2, ReachedIs
    <3>2. page.latest.revision \in Nat
      BY <1>5, <2>2, ReachedIs
    <3>3. row \in oldest .. page.latest.revision /\ row >= update.oldest
      BY <1>2, <1>5, <2>2, <3>1
    <3> QED
      BY <1>3, <1>4, <2>2, <3>2, <3>3
  <2> QED
    BY <1>2, <2>1, <2>2
<1>7. CASE after = 0
  <2>1. update.rows = held
    BY <1>3, <1>4, <1>7
  <2>2. \A row \in held : row >= update.oldest
    BY <1>3, <1>4
  <2>3. \A row \in held : row \in rows
    BY <1>2, <2>1, <2>2
  <2>4. rows = held
    BY <1>6, <2>3
  <2> QED
    BY <1>6, <2>4
<1>8. ASSUME page.latest.rows = Held(page.latest), page.latest.session = update.session,
             page.latest.revision >= after
      PROVE  rows = held
  <2>1. ASSUME NEW row \in held PROVE row \in rows
    <3>1. row \in update.oldest .. update.revision
      BY <1>3
    <3>2. CASE row > after
      BY <1>2, <1>3, <1>4, <3>1, <3>2
    <3>3. CASE ~(row > after)
      <4>1. page.latest.revision \in 0 .. update.revision /\ row \in 1 .. page.latest.revision
        BY <1>4, <1>5, <1>8, <3>1, <3>3, ReachedIs
      <4>2. held \cap (1 .. page.latest.revision) \subseteq Rows(update.session, page.latest.revision)
        BY <1>3, <4>1, ReachedIs
      <4>3. row \in page.latest.rows
        BY <1>5, <1>8, <4>1, <4>2
      <4> QED
        BY <1>2, <1>4, <1>8, <3>1, <4>3
    <3> QED
      BY <3>2, <3>3
  <2> QED
    BY <1>6, <2>1
<1> QED
  BY <1>6, <1>7, <1>8

(* What a page shows stays what the buffer held.                               *)
LEMMA ViewStays ==
    ASSUME WatchTypeOK, TrafficTypeOK, BufferOK, [Next]_vars, NEW view \in View, ViewOK(view)
    PROVE  ViewOK(view)' /\ Held(view)' = Held(view)
<1>1. CASE view.session = 0
  BY <1>1 DEF ViewOK, Held
<1>2. CASE view.session # 0
  <2>1. Reached(view.session, view.revision) /\ view.session \in 1 .. MaxSession
    BY <1>2, ReachedIs DEF ViewOK
  <2>2. /\ view.session \in 1 .. session' /\ view.revision \in 0 .. Len(contents'[view.session]) - 1
        /\ contents'[view.session][view.revision + 1] = contents[view.session][view.revision + 1]
    BY <2>1, ReachedStays
  <2> QED
    BY <1>2, <2>2 DEF ViewOK, Held, Reached, Rows
<1> QED
  BY <1>1, <1>2

(* Whatever else happens, a page that is not touched stays in order.           *)
LEMMA PageKept ==
    ASSUME WatchTypeOK, TrafficTypeOK, BufferOK, PageOK, [Next]_vars,
           page'.latest = page.latest, page'.fence = page.fence, page'.shown \in {page.latest, page.shown},
           overtaken' = overtaken
    PROVE  PageOK'
<1>1. PICK latest \in View, shown \in View :
          /\ page.latest = latest /\ page'.latest = latest
          /\ page'.shown = shown /\ ViewOK(shown)
  BY DEF TrafficTypeOK, PageOK
<1>2. ViewOK(latest)' /\ Held(latest)' = Held(latest) /\ ViewOK(shown)'
  BY <1>1, ViewStays DEF PageOK
<1>3. page'.fence <= page'.latest.revision
  BY DEF PageOK
<1>4. ViewOK(page.latest)' /\ Held(page.latest)' = Held(latest)
  BY <1>1, <1>2
<1>5. ViewOK(page.shown)'
  BY <1>1, <1>2
<1>6. ~overtaken => latest.rows = Held(latest)
  BY <1>1 DEF PageOK
<1> QED
  BY <1>1, <1>2, <1>3, <1>4, <1>5, <1>6 DEF PageOK

(* What is known of the first message on its way.                              *)
LEMMA FirstMail ==
    ASSUME WatchTypeOK, TrafficTypeOK, BufferOK, PageOK, Ahead, NEW s, NEW delivered, MailOf(s, delivered),
           stream.mail # <<>>, ~Stale(stream.mail[1].update)
    PROVE  \E update \in Update, full \in BOOLEAN, after \in Nat :
               /\ stream.mail[1].update = update /\ stream.mail[1].full = full
               /\ update.session = s /\ Told(update, after)
               /\ full => after = 0
               /\ ~full => after = delivered /\ Followed(s, delivered)
               /\ update.session = page.latest.session => update.revision >= page.latest.revision
<1>1. stream.mail \in Seq(Mail)
  BY DEF TrafficTypeOK
<1>2. Len(stream.mail) \in Nat \ {0}
  BY <1>1, EmptySeq
<1>3. 1 \in 1 .. Len(stream.mail)
  BY <1>2
<1>4. stream.mail[1] \in Mail
  BY <1>1, <1>3, ElementOfSeq
<1>5. PICK update \in Update, full \in BOOLEAN : stream.mail[1].update = update /\ stream.mail[1].full = full
  BY <1>4 DEF Mail
<1>6. /\ Reached(s, delivered)
      /\ update.session = s /\ Told(update, IF full THEN 0 ELSE delivered)
      /\ ~full => Followed(s, delivered)
  BY <1>2, <1>3, <1>5 DEF MailOf, After
<1>7. delivered \in Nat
  BY <1>6, ReachedIs
<1>8. PICK after \in Nat : after = IF full THEN 0 ELSE delivered
  BY <1>7
<1>9. update.session = page.latest.session => update.revision >= page.latest.revision
  BY <1>3, <1>5 DEF Ahead, Stale
<1> QED
  BY <1>5, <1>6, <1>8, <1>9

(* A page never comes to show what the buffer did not hold, nor, unless it is  *)
(* taken back, less than it held.                                              *)
LEMMA PageStep ==
    ASSUME Inv, [Next]_vars
    PROVE  page' \in PageSet /\ overtaken' \in BOOLEAN /\ PageOK'
<1> USE DEF Inv
<1>1. page \in PageSet /\ overtaken \in BOOLEAN
  BY DEF TrafficTypeOK, PageSet
<1>2. CASE UNCHANGED <<page, overtaken>>
  BY <1>1, <1>2, PageKept
<1>3. CASE TogglePause \/ Select
  BY <1>1, <1>3, HandIs, PageKept
<1>4. CASE ClearTaken
  <2>1. request.update \in Update /\ Told(request.update, 0)
    BY <1>4 DEF ClearTaken, RequestOK, TrafficTypeOK
  <2>2. /\ page' \in PageSet
        /\ page'.latest.session = request.update.session
        /\ page'.latest.revision = request.update.revision
        /\ page'.latest.rows = request.update.rows
        /\ page'.fence = request.update.revision
        /\ page'.shown = page'.latest
        /\ overtaken' = Older(request.update)
    BY <1>1, <1>4, <2>1, ClearTakenIs
  <2>3. PICK update \in Update : update = request.update
    BY <2>1
  <2>4. /\ Reached(update.session, update.revision)
        /\ Rows(update.session, update.revision) = update.oldest .. update.revision
        /\ update.rows = {r \in Rows(update.session, update.revision) : r > 0}
    BY <2>1, <2>3 DEF Told
  <2>5. update.session \in Nat \ {0} /\ update.revision \in Nat /\ update.oldest \in Nat \ {0}
    BY WatchBounds, TrafficBounds DEF Update
  <2>6. update.rows = Rows(update.session, update.revision)
    BY <2>4, <2>5
  <2>7. UNCHANGED <<session, contents>>
    BY <1>4 DEF ClearTaken, watchVars
  <2>8. PICK latest \in View : page'.latest = latest
    BY <2>2 DEF PageSet
  <2>9. latest.session = update.session /\ latest.revision = update.revision /\ latest.rows = update.rows
    BY <2>2, <2>3, <2>8
  <2>10. Held(latest) = latest.rows /\ ViewOK(latest)
    BY <2>4, <2>5, <2>6, <2>9 DEF Held, ViewOK
  <2>11. Held(latest)' = latest.rows /\ ViewOK(latest)'
    BY <1>4, <2>10, ViewStays
  <2>12. ViewOK(page.latest)' /\ ViewOK(page.shown)' /\ Held(page.latest)' = page'.latest.rows
    BY <2>2, <2>8, <2>11
  <2>13. page'.fence <= page'.latest.revision
    BY <2>2, <2>3, <2>5
  <2>14. overtaken' \in BOOLEAN
    BY <2>2 DEF Older
  <2> QED
    BY <2>2, <2>12, <2>13, <2>14 DEF PageOK
<1>5. CASE Message
  <2>1. CASE Stale(stream.mail[1].update) /\ UNCHANGED <<page, overtaken>>
    BY <1>2, <2>1
  <2>2. CASE ~Stale(stream.mail[1].update) /\ Take(stream.mail[1])
    <3>1. stream.mail # <<>> /\ stream.mail[1] \in Mail
      BY <1>5, DeliveredIs
    <3>2. PICK s \in 1 .. session, delivered \in 0 .. MaxRevision : MailOf(s, delivered)
      BY DEF StreamOK
    <3>3. PICK update \in Update, full \in BOOLEAN, after \in Nat :
               /\ stream.mail[1].update = update /\ stream.mail[1].full = full
               /\ update.session = s /\ Told(update, after)
               /\ full => after = 0
               /\ ~full => after = delivered /\ Followed(s, delivered)
               /\ update.session = page.latest.session => update.revision >= page.latest.revision
      BY <2>2, <3>1, <3>2, FirstMail
    <3>4. PICK latest : latest = Merged(page.latest, update)
      OBVIOUS
    <3>5. /\ page' \in PageSet /\ page'.latest = latest
          /\ page'.fence = IF update.session # page.latest.session THEN 0 ELSE page.fence
          /\ page'.shown = IF page.paused THEN page.shown ELSE latest
          /\ overtaken' = IF Older(update) THEN TRUE ELSE overtaken /\ ~full
      BY <1>1, <2>2, <3>1, <3>3, <3>4, TakeIs
    <3>6. page.latest \in View /\ page.shown \in View /\ page.fence \in Nat
      BY <1>1, TrafficBounds DEF PageSet
    <3>7. latest \in View /\ latest.session = update.session /\ latest.revision = update.revision
      BY <3>4, <3>6, MergedIs
    <3>8. latest.rows \subseteq Rows(update.session, update.revision)
      BY <3>3, <3>4, MergedHeld
    <3>9. update.session \in Nat \ {0} /\ update.revision \in Nat /\ page.latest.revision \in Nat
          /\ page.latest.session \in Nat
      BY <3>6, WatchBounds, TrafficBounds DEF Update, View
    <3>10. ASSUME ~overtaken' PROVE latest.rows = Rows(update.session, update.revision)
      <4>1. ~Older(update) /\ (full \/ ~overtaken)
        BY <3>5, <3>10
      <4>2. CASE full
        BY <3>3, <3>4, <4>2, MergedHeld
      <4>3. CASE ~full
        <5>1. ~overtaken /\ after = delivered /\ Followed(s, delivered)
          BY <3>3, <4>1, <4>3
        <5>2. page.latest.session > s \/ (page.latest.session = s /\ page.latest.revision >= delivered)
          BY <5>1 DEF Followed, NotBefore
        <5>3. ~(update.session < page.latest.session)
          BY <4>1 DEF Older
        <5>4. page.latest.session = update.session /\ page.latest.revision >= after
          BY <3>3, <3>9, <5>1, <5>2, <5>3
        <5>5. page.latest.rows = Held(page.latest)
          BY <5>1 DEF PageOK
        <5> QED
          BY <3>3, <3>4, <5>4, <5>5, MergedHeld
      <4> QED
        BY <4>2, <4>3
    <3>11. Held(latest) = Rows(update.session, update.revision)
      BY <3>7, <3>9 DEF Held
    <3>12. ViewOK(latest)
      BY <3>3, <3>7, <3>8, <3>11 DEF ViewOK, Told
    <3>13. Held(latest)' = Held(latest) /\ ViewOK(latest)'
      BY <3>7, <3>12, ViewStays
    <3>14. PICK shown \in View : shown = page'.shown
      BY <3>5 DEF PageSet
    <3>15. ViewOK(shown)
      BY <3>5, <3>12, <3>14 DEF PageOK
    <3>16. ViewOK(shown)'
      BY <3>15, ViewStays
    <3>17. page'.fence <= page'.latest.revision
      <4>1. CASE update.session # page.latest.session
        BY <3>5, <3>7, <3>9, <4>1
      <4>2. CASE update.session = page.latest.session
        <5>1. page.fence <= page.latest.revision
          BY DEF PageOK
        <5> QED
          BY <3>3, <3>5, <3>6, <3>7, <3>9, <4>2, <5>1
      <4> QED
        BY <4>1, <4>2
    <3>18. overtaken' \in BOOLEAN
      BY <1>1, <3>5
    <3>19. ViewOK(page.latest)' /\ Held(page.latest)' = Held(latest) /\ ViewOK(page.shown)'
      BY <3>5, <3>13, <3>14, <3>16
    <3> QED
      BY <3>5, <3>10, <3>11, <3>17, <3>18, <3>19 DEF PageOK
  <2> QED
    BY <1>5, <2>1, <2>2, DeliveredIs
<1>6. CASE WatchStep \/ Capture \/ ClearElsewhere \/ Connects \/ Streams \/ Cut
  BY <1>2, <1>6 DEF WatchStep, Capture, ClearElsewhere, Connects, Streams, Cut
<1>7. CASE ClearSends \/ ClearClears \/ ClearAnswers \/ ClearFails
  BY <1>2, <1>7 DEF ClearSends, ClearClears, ClearAnswers, ClearFails
<1>8. CASE UNCHANGED vars
  BY <1>2, <1>8 DEF vars, traffic
<1> QED
  BY <1>3, <1>4, <1>5, <1>6, <1>7, <1>8 DEF Next, Live, Clearing

(* The selected packet stays among the rows shown.                             *)
LEMMA SelectedStep ==
    ASSUME TrafficTypeOK, SelectedIsShown, RequestOK, [Next]_vars
    PROVE  SelectedIsShown'
<1>1. page \in PageSet
  BY DEF TrafficTypeOK, PageSet
<1>2. CASE UNCHANGED page
  BY <1>2 DEF SelectedIsShown, Kept
<1>3. CASE TogglePause \/ Select
  <2>1. page.selected \in (0 .. MaxSession) \X (0 .. MaxRevision)
    BY <1>1 DEF PageSet
  <2>2. \/ page'.shown = page.shown /\ page'.selected = page.selected
        \/ page'.shown = page.latest /\ page'.selected = Kept(page.selected, page.latest)
        \/ /\ page'.shown = page.shown
           /\ \E row \in page.shown.rows : page'.selected = <<page.shown.session, row>>
    BY <1>1, <1>3, HandIs
  <2>3. CASE page'.shown = page.shown /\ page'.selected = page.selected
    BY <2>3 DEF SelectedIsShown, Kept
  <2>4. CASE page'.shown = page.latest /\ page'.selected = Kept(page.selected, page.latest)
    BY <2>1, <2>4, KeptIs DEF SelectedIsShown
  <2>5. CASE /\ page'.shown = page.shown
             /\ \E row \in page.shown.rows : page'.selected = <<page.shown.session, row>>
    BY <2>5 DEF SelectedIsShown, Kept
  <2> QED
    BY <2>2, <2>3, <2>4, <2>5
<1>4. CASE ClearTaken
  <2>1. request.update \in Update
    BY <1>4 DEF ClearTaken, TrafficTypeOK
  <2> QED
    BY <1>1, <1>4, <2>1, ClearTakenIs DEF SelectedIsShown
<1>5. CASE Message
  <2>1. CASE Take(stream.mail[1])
    <3>1. /\ page'.shown = IF page.paused THEN page.shown ELSE page'.latest
          /\ page'.selected = IF page.paused THEN page.selected ELSE Kept(page.selected, page'.latest)
      BY <1>1, <1>5, <2>1, DeliveredIs, TakeIs
    <3>2. page.selected \in (0 .. MaxSession) \X (0 .. MaxRevision)
      BY <1>1 DEF PageSet
    <3>3. CASE page.paused
      BY <3>1, <3>3 DEF SelectedIsShown, Kept
    <3>4. CASE ~page.paused
      <4>1. PICK latest : latest = page'.latest
        OBVIOUS
      <4> QED
        BY <3>1, <3>2, <3>4, <4>1, KeptIs DEF SelectedIsShown
    <3> QED
      BY <3>3, <3>4
  <2> QED
    BY <1>2, <1>5, <2>1, DeliveredIs
<1>6. CASE WatchStep \/ Capture \/ ClearElsewhere \/ Connects \/ Streams \/ Cut
  BY <1>2, <1>6 DEF WatchStep, Capture, ClearElsewhere, Connects, Streams, Cut
<1>7. CASE ClearSends \/ ClearClears \/ ClearAnswers \/ ClearFails
  BY <1>2, <1>7 DEF ClearSends, ClearClears, ClearAnswers, ClearFails
<1>8. CASE UNCHANGED vars
  BY <1>2, <1>8 DEF vars, traffic
<1> QED
  BY <1>3, <1>4, <1>5, <1>6, <1>7, <1>8 DEF Next, Live, Clearing

------------------------------------------------------------------------------
(* The messages on their way.                                                  *)

(* A page that has followed its stream still does, or is owed the answer that  *)
(* took it back.                                                               *)
LEMMA FollowedStays ==
    ASSUME Inv, [Next]_vars, ~Message, NEW s, NEW revision, Reached(s, revision), Followed(s, revision)
    PROVE  Followed(s, revision)'
<1> USE DEF Inv
<1>1. s \in Nat /\ revision \in Nat /\ s <= session /\ session \in Nat /\ (s = session => revision <= Revision)
  BY ReachedIs
<1>2. page \in PageSet
  BY DEF TrafficTypeOK, PageSet
<1>3. page.latest.session \in Nat /\ page.latest.revision \in Nat
  BY <1>2, WatchBounds, TrafficBounds DEF PageSet, View
<1>4. request'.stage = "answered" =>
          \/ request' = request
          \/ request'.update.session = session /\ request'.update.revision = Revision
  BY RequestStep
<1>5. ASSUME page'.latest = page.latest, overtaken' = overtaken PROVE Followed(s, revision)'
  <2>1. CASE NotBefore(page.latest.session, page.latest.revision, s, revision)
    BY <1>5, <2>1 DEF Followed, NotBefore
  <2>2. CASE ~NotBefore(page.latest.session, page.latest.revision, s, revision)
    <3>1. /\ overtaken
          /\ request.stage = "answered" =>
                 NotBefore(request.update.session, request.update.revision, s, revision)
      BY <2>2 DEF Followed
    <3>2. CASE request' = request
      BY <1>5, <3>1, <3>2 DEF Followed, NotBefore
    <3>3. CASE request'.stage # "answered"
      BY <1>5, <3>1, <3>3 DEF Followed
    <3>4. CASE request'.update.session = session /\ request'.update.revision = Revision
      <4>1. Revision \in Nat
        BY BufferType
      <4>2. session > s \/ (session = s /\ Revision >= revision)
        BY <1>1, <4>1
      <4> QED
        BY <1>5, <3>1, <3>4, <4>2 DEF Followed, NotBefore
    <3> QED
      BY <1>4, <3>2, <3>3, <3>4
  <2> QED
    BY <2>1, <2>2
<1>6. CASE ClearTaken
  <2>1. PICK update \in Update : update = request.update
    BY <1>6 DEF ClearTaken, TrafficTypeOK
  <2>2. /\ page'.latest.session = update.session
        /\ page'.latest.revision = update.revision
        /\ overtaken' = Older(update)
        /\ request'.stage # "answered"
        /\ request.stage = "answered"
    BY <1>2, <1>6, <2>1, ClearTakenIs DEF NoRequest
  <2>3. update.session \in Nat /\ update.revision \in Nat
    BY WatchBounds, TrafficBounds DEF Update
  <2>4. CASE Older(update)
    BY <2>2, <2>4 DEF Followed
  <2>5. CASE ~Older(update)
    <3>1. NotBefore(update.session, update.revision, s, revision)
      <4>1. CASE NotBefore(page.latest.session, page.latest.revision, s, revision)
        BY <1>1, <1>3, <2>3, <2>5, <4>1 DEF NotBefore, Older
      <4>2. CASE ~NotBefore(page.latest.session, page.latest.revision, s, revision)
        BY <2>1, <2>2, <4>2 DEF Followed
      <4> QED
        BY <4>1, <4>2
    <3> QED
      BY <2>2, <3>1 DEF Followed, NotBefore
  <2> QED
    BY <2>4, <2>5
<1>7. CASE TogglePause \/ Select
  BY <1>2, <1>5, <1>7, HandIs
<1>8. CASE WatchStep \/ Capture \/ ClearElsewhere \/ Connects \/ Streams \/ Cut
  BY <1>5, <1>8 DEF WatchStep, Capture, ClearElsewhere, Connects, Streams, Cut
<1>9. CASE ClearSends \/ ClearClears \/ ClearAnswers \/ ClearFails
  BY <1>5, <1>9 DEF ClearSends, ClearClears, ClearAnswers, ClearFails
<1>10. CASE UNCHANGED vars
  BY <1>5, <1>10 DEF vars, traffic
<1> QED
  BY <1>6, <1>7, <1>8, <1>9, <1>10 DEF Next, Live, Clearing

(* A message on its way is a message.                                          *)
LEMMA MailIs ==
    ASSUME TrafficTypeOK
    PROVE  /\ stream.mail \in Seq(Mail) /\ Len(stream.mail) \in Nat
           /\ \A i \in 1 .. Len(stream.mail) :
                  /\ stream.mail[i].update \in Update
                  /\ stream.mail[i].update.revision \in Nat
                  /\ stream.mail[i].full \in BOOLEAN
<1>1. stream.mail \in Seq(Mail)
  BY DEF TrafficTypeOK
<1>2. ASSUME NEW i \in 1 .. Len(stream.mail)
      PROVE  /\ stream.mail[i].update \in Update
             /\ stream.mail[i].update.revision \in Nat
             /\ stream.mail[i].full \in BOOLEAN
  <2>1. stream.mail[i] \in Mail
    BY <1>1, ElementOfSeq
  <2>2. stream.mail[i].update \in Update /\ stream.mail[i].full \in BOOLEAN
    BY <2>1 DEF Mail
  <2>3. stream.mail[i].update.revision \in 0 .. MaxRevision
    BY <2>2 DEF Update
  <2> QED
    BY <2>2, <2>3, TrafficBounds
<1> QED
  BY <1>1, <1>2, LenProperties

(* Where nothing is delivered and nothing is sent, the messages keep telling   *)
(* what they told.                                                             *)
LEMMA MailKept ==
    ASSUME Inv, [Next]_vars, ~Message, NEW s \in 1 .. session, NEW delivered \in 0 .. MaxRevision, MailOf(s, delivered),
           stream'.mail = stream.mail, stream'.live => stream.live, stream'.cursor = stream.cursor,
           stream'.live => session' = session
    PROVE  MailOf(s, delivered)'
<1> USE DEF Inv
<1>1. PICK n \in Nat : n = Len(stream.mail)
  BY MailIs
<1>2. Reached(s, delivered) /\ Reached(s, delivered)'
  <2>1. Reached(s, delivered)
    BY DEF MailOf
  <2>2. s \in 1 .. MaxSession
    BY <2>1, ReachedIs
  <2> QED
    BY <2>1, <2>2, ReachedStays DEF Reached
<1>3. ASSUME NEW i \in 1 .. n
      PROVE  /\ stream'.mail[i].update.session = s
             /\ Told(stream.mail[i].update, IF stream.mail[i].full THEN 0 ELSE After(i, delivered))'
             /\ i > 1 => ~stream'.mail[i].full
  <2>1. PICK update \in Update : update = stream.mail[i].update
    BY <1>1, MailIs
  <2>2. PICK after : after = IF stream.mail[i].full THEN 0 ELSE After(i, delivered)
    OBVIOUS
  <2>3. Told(update, after) /\ update.session = s /\ (i > 1 => ~stream.mail[i].full)
    BY <1>1, <2>1, <2>2 DEF MailOf
  <2>4. Told(update, after)'
    BY <2>3, ToldStays
  <2>5. stream'.mail[i].update = update /\ stream'.mail[i].full = stream.mail[i].full
    BY <2>1
  <2>6. (IF stream.mail[i].full THEN 0 ELSE After(i, delivered))' = after
    BY <2>2 DEF After
  <2> QED
    BY <2>3, <2>4, <2>5, <2>6
<1>4. \A i, j \in 1 .. n : i < j => stream'.mail[i].update.revision < stream'.mail[j].update.revision
  BY <1>1 DEF MailOf
<1>5. Followed(s, delivered) => Followed(s, delivered)'
  BY <1>2, FollowedStays
<1>6. n > 0 => stream'.mail[1].full
               \/ (stream'.mail[1].update.revision > delivered /\ Followed(s, delivered)')
  BY <1>1, <1>5 DEF MailOf
<1>7. stream'.live /\ n > 0 => s = session' /\ stream'.cursor = stream'.mail[n].update.revision + 1
  BY <1>1 DEF MailOf
<1>8. stream'.live /\ n = 0 /\ stream'.cursor # 0 =>
          s = session' /\ stream'.cursor = delivered + 1 /\ Followed(s, delivered)'
  BY <1>1, <1>5 DEF MailOf
<1> QED
  BY <1>1, <1>2, <1>3, <1>4, <1>6, <1>7, <1>8 DEF MailOf

(* The generator sends what comes after what it has sent.                      *)
LEMMA StreamsStep ==
    ASSUME Inv, Streams
    PROVE  \E s \in 1 .. session', delivered \in 0 .. MaxRevision : MailOf(s, delivered)'
<1> USE DEF Inv
<1>1. PICK after \in 0 .. MaxRevision, full \in BOOLEAN :
               /\ full <=> stream.cursor = 0
               /\ after = IF stream.cursor = 0 THEN 0 ELSE stream.cursor - 1
               /\ stream.live /\ stream.cursor # Revision + 1
               /\ stream' = [stream EXCEPT !.cursor = Revision + 1,
                                           !.mail = Append(@, [update |-> Snapshot(after), full |-> full])]
  BY StreamsSends
<1>2. PICK update \in Update : update = Snapshot(after)
  BY SnapshotTold
<1>3. Told(update, after) /\ update.session = session /\ update.revision = Revision
  BY <1>2, SnapshotTold
<1>4. PICK message \in Mail : message = [update |-> update, full |-> full]
  BY DEF Mail
<1>5. message.update = update /\ message.full = full
  BY <1>4
<1>6. PICK n \in Nat : n = Len(stream.mail)
  BY MailIs
<1>7. stream \in StreamSet /\ stream.mail \in Seq(Mail) /\ stream.cursor \in Nat
  BY TrafficBounds DEF TrafficTypeOK, StreamSet
<1>8. PICK mail \in Seq(Mail) : mail = Append(stream.mail, message)
  BY <1>7, AppendProperties
<1>9. Len(mail) = n + 1 /\ (\A i \in 1 .. n : mail[i] = stream.mail[i]) /\ mail[n + 1] = message
  BY <1>6, <1>7, <1>8, AppendProperties
<1>10. stream' = [stream EXCEPT !.cursor = Revision + 1, !.mail = mail]
  BY <1>1, <1>2, <1>4, <1>8
<1>11. stream'.live = stream.live /\ stream'.cursor = Revision + 1 /\ stream'.mail = mail
  BY <1>7, <1>10 DEF StreamSet
<1>12. UNCHANGED <<session, contents, page, overtaken, request>>
  BY DEF Streams, watchVars
<1>13. session \in 1 .. MaxSession /\ session \in Nat /\ Revision \in Nat /\ Reached(session, Revision)
       /\ MaxRevision \in Nat /\ Revision \in 0 .. MaxRevision
  BY BufferType, WatchBounds, TrafficBounds
<1>14. PICK s \in 1 .. session, delivered \in 0 .. MaxRevision : MailOf(s, delivered)
  BY DEF StreamOK
<1>15. \A i \in 1 .. n : stream.mail[i].update \in Update /\ stream.mail[i].update.revision \in Nat
  BY <1>6, MailIs
<1>16. CASE n = 0 /\ stream.cursor = 0
  <2>1. Reached(session, 0)
    BY <1>13 DEF Reached
  <2>2. full /\ after = 0
    BY <1>1, <1>16
  <2>3. Reached(session, 0)'
    BY <1>12, <2>1 DEF Reached
  <2>4. mail[1] = message /\ Len(mail) = 1
    BY <1>9, <1>16
  <2>5. Told(update, 0)'
    BY <1>3, <1>12, <2>2 DEF Told, Reached, Rows
  <2>6. MailOf(session, 0)'
    <3>1. PICK mine \in Nat : mine = session /\ session' = mine
      BY <1>12, <1>13
    <3>2. Len(stream'.mail) = 1 /\ stream'.mail[1] = message
      BY <1>11, <2>4
    <3>3. stream'.mail[1].update = update /\ stream'.mail[1].full /\ stream.mail[1].update' = update
      BY <1>5, <2>2, <3>2
    <3>4. \A i \in 1 .. 1 : i = 1
      OBVIOUS
    <3>5. Told(stream.mail[1].update, IF stream.mail[1].full THEN 0 ELSE After(1, 0))'
      <4>1. (IF stream.mail[1].full THEN 0 ELSE After(1, 0))' = 0
        BY <3>3
      <4> QED
        BY <2>5, <3>3, <4>1
    <3>6. stream'.mail[1].update.session = session' /\ stream'.cursor = stream'.mail[1].update.revision + 1
      BY <1>3, <1>11, <1>12, <3>3
    <3>7. \A i, j \in 1 .. 1 : ~(i < j)
      OBVIOUS
    <3> QED
      BY <2>3, <3>2, <3>3, <3>4, <3>5, <3>6, <3>7 DEF MailOf
  <2>7. PICK t \in 1 .. session, zero \in 0 .. MaxRevision : t = session /\ zero = 0 /\ session' = t
    BY <1>12, <1>13
  <2>8. MailOf(t, zero)'
    BY <1>12, <2>6, <2>7
  <2> QED
    BY <1>12, <2>8
<1>17. CASE n # 0 \/ stream.cursor # 0
  <2>1. s = session
    BY <1>1, <1>6, <1>14, <1>17 DEF MailOf
  <2>2. Reached(s, delivered) /\ delivered <= Revision /\ delivered \in Nat
    <3>1. Reached(s, delivered)
      BY <1>14 DEF MailOf
    <3> QED
      BY <2>1, <3>1, ReachedIs
  <2>3. ~full /\ after = IF n = 0 THEN delivered ELSE stream.mail[n].update.revision
    <3>1. CASE n = 0
      <4>1. stream.cursor = delivered + 1
        BY <1>1, <1>6, <1>14, <1>17, <3>1 DEF MailOf
      <4>2. stream.cursor # 0 /\ stream.cursor - 1 = delivered
        BY <2>2, <4>1
      <4> QED
        BY <1>1, <3>1, <4>2
    <3>2. CASE n # 0
      <4>1. stream.cursor = stream.mail[n].update.revision + 1
        BY <1>1, <1>6, <1>14, <3>2 DEF MailOf
      <4>2. stream.mail[n].update.revision \in Nat
        BY <1>15, <3>2
      <4>3. stream.cursor # 0 /\ stream.cursor - 1 = stream.mail[n].update.revision
        BY <4>1, <4>2
      <4> QED
        BY <1>1, <3>2, <4>3
    <3> QED
      BY <3>1, <3>2
  <2>4. \A i \in 1 .. n : stream.mail[i].update.session = s /\ Reached(s, stream.mail[i].update.revision)
    BY <1>6, <1>14 DEF MailOf, Told
  <2>5. Revision > after /\ after \in Nat
    <3>1. after <= Revision
      <4>1. CASE n = 0
        BY <2>2, <2>3, <4>1
      <4>2. CASE n # 0
        BY <2>1, <2>3, <2>4, <4>2, ReachedIs
      <4> QED
        BY <4>1, <4>2
    <3>2. after # Revision
      <4>1. stream.cursor # 0 /\ after = stream.cursor - 1
        BY <1>1, <2>3
      <4> QED
        BY <1>1, <1>7, <1>13, <4>1
    <3> QED
      BY <1>13, <3>1, <3>2
  <2>6. ASSUME NEW i \in 1 .. n PROVE stream.mail[i].update.revision < Revision
    <3>1. stream.mail[i].update.revision <= stream.mail[n].update.revision
      <4>1. CASE i = n
        BY <1>15, <4>1
      <4>2. CASE i # n
        BY <1>6, <1>14, <1>15, <4>2 DEF MailOf
      <4> QED
        BY <4>1, <4>2
    <3>2. stream.mail[n].update.revision = after /\ stream.mail[n].update.revision \in Nat
      BY <1>15, <2>3
    <3>3. stream.mail[i].update.revision \in Nat
      BY <1>15
    <3> QED
      BY <1>13, <2>5, <3>1, <3>2, <3>3
  <2>7. Reached(s, delivered)'
    BY <1>12, <2>2 DEF Reached
  <2>8. ASSUME NEW i \in 1 .. n + 1
        PROVE  /\ mail[i].update.session = s
               /\ Told(mail[i].update, IF mail[i].full THEN 0
                                       ELSE IF i = 1 THEN delivered ELSE mail[i - 1].update.revision)
               /\ i > 1 => ~mail[i].full
    <3>1. CASE i = n + 1
      <4>1. mail[i] = message /\ (n # 0 => mail[i - 1] = stream.mail[n])
        BY <1>9, <3>1
      <4>2. after = IF i = 1 THEN delivered ELSE mail[i - 1].update.revision
        BY <2>3, <3>1, <4>1
      <4> QED
        BY <1>3, <1>5, <2>1, <2>3, <4>1, <4>2
    <3>2. CASE i # n + 1
      <4>1. i \in 1 .. n /\ (i # 1 => i - 1 \in 1 .. n)
        BY <3>2
      <4>2. mail[i] = stream.mail[i] /\ (i # 1 => mail[i - 1] = stream.mail[i - 1])
        BY <1>9, <4>1
      <4>3. /\ stream.mail[i].update.session = s
            /\ Told(stream.mail[i].update, IF stream.mail[i].full THEN 0 ELSE After(i, delivered))
            /\ i > 1 => ~stream.mail[i].full
        BY <1>6, <1>14, <4>1 DEF MailOf
      <4> QED
        BY <4>2, <4>3 DEF After
    <3> QED
      BY <3>1, <3>2
  <2>9. ASSUME NEW i \in 1 .. n + 1
        PROVE  Told(stream.mail[i].update, IF stream.mail[i].full THEN 0 ELSE After(i, delivered))'
    <3>1. PICK told, past : told = mail[i].update
                            /\ past = IF mail[i].full THEN 0
                                      ELSE IF i = 1 THEN delivered ELSE mail[i - 1].update.revision
      OBVIOUS
    <3>2. Told(told, past)
      BY <2>8, <3>1
    <3>3. Told(told, past)'
      BY <1>12, <3>2 DEF Told, Reached, Rows
    <3>4. stream.mail[i].update' = told /\ (IF stream.mail[i].full THEN 0 ELSE After(i, delivered))' = past
      BY <1>11, <3>1 DEF After
    <3> QED
      BY <3>3, <3>4
  <2>10. ASSUME NEW i \in 1 .. n + 1, NEW j \in 1 .. n + 1, i < j
         PROVE  mail[i].update.revision < mail[j].update.revision
    <3>1. i \in 1 .. n /\ mail[i] = stream.mail[i]
      BY <1>9, <2>10
    <3>2. CASE j = n + 1
      BY <1>3, <1>5, <1>9, <2>6, <3>1, <3>2
    <3>3. CASE j # n + 1
      <4>1. j \in 1 .. n /\ mail[j] = stream.mail[j]
        BY <1>9, <3>3
      <4> QED
        BY <1>6, <1>14, <2>10, <3>1, <4>1 DEF MailOf
    <3> QED
      BY <3>2, <3>3
  <2>11. Followed(s, delivered)' <=> Followed(s, delivered)
    BY <1>12 DEF Followed, NotBefore
  <2>12. mail[1].full \/ (mail[1].update.revision > delivered /\ Followed(s, delivered))
    <3>1. CASE n = 0
      <4>1. Followed(s, delivered)
        BY <1>1, <1>6, <1>14, <1>17, <3>1 DEF MailOf
      <4> QED
        BY <1>3, <1>5, <1>9, <2>3, <2>5, <3>1, <4>1
    <3>2. CASE n # 0
      <4>1. mail[1] = stream.mail[1]
        BY <1>9, <3>2
      <4> QED
        BY <1>6, <1>14, <3>2, <4>1 DEF MailOf
    <3> QED
      BY <3>1, <3>2
  <2>13. mail[n + 1].update.revision = Revision
    BY <1>3, <1>5, <1>9
  <2>14. MailOf(s, delivered)'
    <3>1. Len(stream'.mail) = n + 1 /\ n + 1 > 0 /\ n + 1 # 0
      BY <1>9, <1>11
    <3>2. \A i \in 1 .. n + 1 :
              /\ stream'.mail[i].update.session = s
              /\ Told(stream.mail[i].update, IF stream.mail[i].full THEN 0 ELSE After(i, delivered))'
              /\ i > 1 => ~stream'.mail[i].full
      BY <1>11, <2>8, <2>9
    <3>3. \A i, j \in 1 .. n + 1 : i < j => stream'.mail[i].update.revision < stream'.mail[j].update.revision
      BY <1>11, <2>10
    <3>4. stream'.mail[1].full \/ (stream'.mail[1].update.revision > delivered /\ Followed(s, delivered)')
      BY <1>11, <2>11, <2>12
    <3>5. s = session' /\ stream'.cursor = stream'.mail[n + 1].update.revision + 1
      BY <1>11, <1>12, <2>1, <2>13
    <3> QED
      BY <2>7, <3>1, <3>2, <3>3, <3>4, <3>5 DEF MailOf
  <2> QED
    BY <1>12, <2>14
<1> QED
  BY <1>7, <1>16, <1>17

(* A message that is delivered leaves those behind it on their way, to a page  *)
(* that has taken it or was past it.                                           *)
LEMMA MessageStep ==
    ASSUME Inv, Message
    PROVE  \E s \in 1 .. session', delivered \in 0 .. MaxRevision : MailOf(s, delivered)'
<1> USE DEF Inv
<1>1. PICK s \in 1 .. session, delivered \in 0 .. MaxRevision : MailOf(s, delivered)
  BY DEF StreamOK
<1>2. PICK n \in Nat \ {0} : n = Len(stream.mail)
  BY DeliveredIs
<1>3. /\ stream.mail[1] \in Mail
      /\ stream'.live = stream.live /\ stream'.cursor = stream.cursor
      /\ Len(stream'.mail) = n - 1
      /\ \A i \in 1 .. n - 1 : stream'.mail[i] = stream.mail[i + 1]
      /\ UNCHANGED <<request, contents, session>>
  BY <1>2, DeliveredIs
<1>4. PICK first \in Update : first = stream.mail[1].update
  BY <1>3 DEF Mail
<1>5. 1 \in 1 .. n /\ n - 1 \in Nat
  BY <1>2
<1>6. first.session = s /\ Reached(s, first.revision) /\ first.revision \in 0 .. MaxRevision
  BY <1>1, <1>2, <1>4, <1>5 DEF MailOf, Told, Update
<1>7. Reached(s, first.revision)'
  BY <1>3, <1>6 DEF Reached
<1>8. Followed(s, first.revision)'
  <2>1. page.latest.revision \in Nat /\ page.fence \in Nat /\ first.revision \in Nat /\ page \in PageSet
        /\ first.session \in Nat
    <3>1. page \in PageSet
      BY DEF TrafficTypeOK, PageSet
    <3>2. page.latest.revision \in 0 .. MaxRevision /\ page.fence \in 0 .. MaxRevision
      BY <3>1 DEF PageSet, View
    <3>3. first.session \in 1 .. MaxSession
      BY DEF Update
    <3> QED
      BY <1>6, <3>1, <3>2, <3>3, WatchBounds, TrafficBounds
  <2>2. CASE Stale(first) /\ UNCHANGED <<page, overtaken>>
    <3>1. first.session = page.latest.session /\ first.revision < page.fence
      BY <2>2 DEF Stale
    <3>2. page.fence <= page.latest.revision
      BY DEF PageOK
    <3>3. page.latest.revision >= first.revision
      BY <2>1, <3>1, <3>2
    <3>4. page'.latest.session = s /\ page'.latest.revision >= first.revision
      BY <1>6, <2>2, <3>1, <3>3
    <3> QED
      BY <3>4 DEF Followed, NotBefore
  <2>3. CASE Take(stream.mail[1])
    <3>1. page'.latest = Merged(page.latest, first)
      BY <1>3, <1>4, <2>1, <2>3, TakeIs
    <3>2. page.latest \in View
      BY <2>1 DEF PageSet
    <3>3. page'.latest.session = s /\ page'.latest.revision = first.revision
      BY <1>6, <3>1, <3>2, MergedIs
    <3>4. page'.latest.revision >= first.revision
      BY <2>1, <3>3
    <3> QED
      BY <3>3, <3>4 DEF Followed, NotBefore
  <2> QED
    BY <1>4, <2>2, <2>3, DeliveredIs
<1>9. ASSUME NEW i \in 1 .. n - 1
      PROVE  /\ i + 1 \in 1 .. n /\ i + 1 > 1 /\ i \in 1 .. n
             /\ stream'.mail[i] = stream.mail[i + 1]
             /\ stream'.mail[i].update.session = s
             /\ ~stream'.mail[i].full
             /\ Told(stream.mail[i].update, IF stream.mail[i].full THEN 0 ELSE After(i, first.revision))'
  <2>1. i + 1 \in 1 .. n /\ i + 1 > 1 /\ i \in 1 .. n /\ i + 1 # 1 /\ (i + 1) - 1 = i
    BY <1>2
  <2>2. PICK k \in 1 .. n : k = i + 1
    BY <2>1
  <2>3. PICK told, past : told = stream.mail[k].update /\ past = stream.mail[i].update.revision
    OBVIOUS
  <2>4. stream.mail[k].update.session = s /\ ~stream.mail[k].full /\ Told(told, past)
    <3>1. k > 1 /\ k # 1 /\ k - 1 = i
      BY <2>1, <2>2
    <3>2. /\ stream.mail[k].update.session = s
          /\ Told(stream.mail[k].update, IF stream.mail[k].full THEN 0 ELSE After(k, delivered))
          /\ k > 1 => ~stream.mail[k].full
      BY <1>1, <1>2 DEF MailOf
    <3> QED
      BY <2>3, <3>1, <3>2 DEF After
  <2>5. Told(told, past)'
    BY <1>3, <2>4 DEF Told, Reached, Rows
  <2>6. stream'.mail[i] = stream.mail[k]
    BY <1>3, <2>2
  <2>7. (IF stream.mail[i].full THEN 0 ELSE After(i, first.revision))' = past
    <3>1. ~stream'.mail[i].full
      BY <2>4, <2>6
    <3>2. CASE i = 1
      BY <1>4, <2>3, <3>1, <3>2 DEF After
    <3>3. CASE i # 1
      <4>1. i - 1 \in 1 .. n - 1 /\ (i - 1) + 1 = i
        BY <1>2, <3>3
      <4>2. stream'.mail[i - 1] = stream.mail[i]
        BY <1>3, <4>1
      <4> QED
        BY <2>3, <3>1, <3>3, <4>2 DEF After
    <3> QED
      BY <3>2, <3>3
  <2>8. stream'.mail[i].update = told
    BY <2>3, <2>6
  <2> QED
    BY <2>1, <2>2, <2>4, <2>5, <2>6, <2>7, <2>8
<1>10. \A i, j \in 1 .. n : i < j => stream.mail[i].update.revision < stream.mail[j].update.revision
  BY <1>1, <1>2 DEF MailOf
<1>11. \A i, j \in 1 .. n - 1 : i < j => stream'.mail[i].update.revision < stream'.mail[j].update.revision
  <2>1. ASSUME NEW i \in 1 .. n - 1, NEW j \in 1 .. n - 1, i < j
        PROVE  stream'.mail[i].update.revision < stream'.mail[j].update.revision
    <3>1. i + 1 \in 1 .. n /\ j + 1 \in 1 .. n /\ i + 1 < j + 1
      BY <1>9, <2>1
    <3>2. stream.mail[i + 1].update.revision < stream.mail[j + 1].update.revision
      BY <1>10, <3>1
    <3> QED
      BY <1>9, <3>2
  <2> QED
    BY <2>1
<1>12. n - 1 > 0 => stream'.mail[1].update.revision > first.revision
  <2>1. ASSUME n - 1 > 0 PROVE stream'.mail[1].update.revision > first.revision
    <3>1. 1 \in 1 .. n - 1 /\ 1 \in 1 .. n /\ 2 \in 1 .. n /\ 1 < 2 /\ 1 + 1 = 2
      BY <1>2, <2>1
    <3>2. first.revision < stream.mail[2].update.revision
      BY <1>4, <1>10, <3>1
    <3>3. stream'.mail[1] = stream.mail[2]
      BY <1>3, <3>1
    <3>4. stream.mail[2].update.revision \in Nat /\ first.revision \in Nat
      BY <1>2, <1>6, <3>1, MailIs, TrafficBounds
    <3> QED
      BY <3>2, <3>3, <3>4
  <2> QED
    BY <2>1
<1>13. stream'.live =>
           /\ s = session'
           /\ n - 1 > 0 => stream'.cursor = stream'.mail[n - 1].update.revision + 1
           /\ n - 1 = 0 => stream'.cursor = first.revision + 1
  <2>1. stream.live => s = session /\ stream.cursor = stream.mail[n].update.revision + 1
    BY <1>1, <1>2 DEF MailOf
  <2>2. n - 1 > 0 => n - 1 \in 1 .. n - 1 /\ (n - 1) + 1 = n
    BY <1>2
  <2>3. n - 1 = 0 => n = 1
    BY <1>2
  <2> QED
    BY <1>3, <1>4, <2>1, <2>2, <2>3
<1>14. MailOf(s, first.revision)'
  BY <1>3, <1>7, <1>8, <1>9, <1>11, <1>12, <1>13 DEF MailOf
<1> QED
  BY <1>3, <1>6, <1>14

(* The stream stays in order.                                                  *)
LEMMA StreamStep ==
    ASSUME Inv, [Next]_vars
    PROVE  StreamOK'
<1> USE DEF Inv
<1>1. PICK s \in 1 .. session, delivered \in 0 .. MaxRevision : MailOf(s, delivered)
  BY DEF StreamOK
<1>2. stream.live => server # "down"
  BY DEF StreamOK
<1>3. s \in 1 .. session'
  <2>1. Reached(s, delivered)
    BY <1>1 DEF MailOf
  <2> QED
    BY <2>1, ReachedIs, ReachedStays
<1>4. ASSUME stream'.mail = stream.mail, stream'.cursor = stream.cursor,
             stream'.live => stream.live /\ session' = session /\ server' # "down",
             ~Message
      PROVE  StreamOK'
  <2>1. MailOf(s, delivered)'
    BY <1>1, <1>4, MailKept
  <2> QED
    BY <1>3, <1>4, <2>1 DEF StreamOK
<1>5. stream \in StreamSet
  BY DEF TrafficTypeOK, StreamSet
<1>6. CASE WatchStep
  <2>1. CASE stream' = Closed
    <3>1. stream'.mail = <<>> /\ ~stream'.live /\ Len(<<>>) = 0
      BY <2>1 DEF Closed
    <3>2. \A i \in 1 .. 0 : FALSE
      OBVIOUS
    <3>3. Reached(s, delivered)'
      <4>1. Reached(s, delivered)
        BY <1>1 DEF MailOf
      <4> QED
        BY <4>1, ReachedIs, ReachedStays DEF Reached
    <3>4. MailOf(s, delivered)'
      BY <3>1, <3>2, <3>3 DEF MailOf
    <3> QED
      BY <1>3, <3>1, <3>4 DEF StreamOK
  <2>2. CASE stream' # Closed
    <3>1. PICK live \in BOOLEAN : live = (stream.live /\ server' # "down")
      OBVIOUS
    <3>2. stream' = [stream EXCEPT !.live = live]
      BY <1>6, <2>2, <3>1 DEF WatchStep
    <3>3. stream'.mail = stream.mail /\ stream'.cursor = stream.cursor /\ stream'.live = live
      BY <1>5, <3>2 DEF StreamSet
    <3>4. live => stream.live /\ session' = session /\ server' # "down"
      BY <1>2, <1>6, <3>1, WatchFrame DEF WatchStep
    <3>5. CASE Message
      BY <1>2, <3>5, MessageStep, DeliveredIs DEF StreamOK
    <3> QED
      BY <1>4, <3>3, <3>4, <3>5
  <2> QED
    BY <2>1, <2>2
<1>7. CASE Connects
  <2>1. stream'.live /\ stream'.cursor = 0 /\ stream'.mail = <<>> /\ Len(<<>>) = 0
    BY <1>7 DEF Connects, FirstCursor
  <2>2. UNCHANGED <<session, server, contents>> /\ server # "down"
    BY <1>7 DEF Connects, watchVars
  <2>3. Reached(session, 0) /\ session \in 1 .. session /\ 0 \in 0 .. MaxRevision
    BY BufferType, TrafficBounds DEF Reached
  <2>4. \A i \in 1 .. 0 : FALSE
    OBVIOUS
  <2>5. PICK t \in 1 .. session, zero \in 0 .. MaxRevision : t = session /\ zero = 0
    BY <2>3
  <2>6. Reached(t, zero)'
    BY <2>2, <2>3, <2>5 DEF Reached
  <2>7. MailOf(t, zero)'
    BY <2>1, <2>4, <2>6 DEF MailOf
  <2> QED
    BY <2>2, <2>7 DEF StreamOK
<1>8. CASE Streams
  <2>1. stream.live /\ server' = server
    BY <1>8 DEF Streams, watchVars
  <2> QED
    BY <1>2, <1>8, <2>1, StreamsStep DEF StreamOK
<1>9. CASE Message
  BY <1>2, <1>9, MessageStep, DeliveredIs DEF StreamOK
<1>10. CASE Cut
  <2>1. stream' = [stream EXCEPT !.live = FALSE]
    BY <1>10 DEF Cut
  <2>2. stream'.mail = stream.mail /\ stream'.cursor = stream.cursor /\ ~stream'.live
    BY <1>5, <2>1 DEF StreamSet
  <2> QED
    BY <1>4, <1>9, <2>2
<1>11. CASE UNCHANGED <<stream, session, server>>
  BY <1>2, <1>4, <1>9, <1>11
<1>12. CASE Capture \/ ClearElsewhere \/ TogglePause \/ Select
  BY <1>11, <1>12 DEF Capture, ClearElsewhere, TogglePause, Select, watchVars
<1>13. CASE Clearing
  BY <1>11, <1>13 DEF Clearing, ClearSends, ClearClears, ClearAnswers, ClearTaken, ClearFails, watchVars
<1> QED
  BY <1>6, <1>7, <1>8, <1>9, <1>10, <1>11, <1>12, <1>13 DEF Next, Live, vars, traffic, watchVars

(* What is on its way does not take a page back.                               *)
LEMMA AheadStep ==
    ASSUME Inv, [Next]_vars
    PROVE  Ahead'
<1> USE DEF Inv
<1>1. page \in PageSet /\ stream \in StreamSet
  BY DEF TrafficTypeOK, PageSet, StreamSet
<1>2. ASSUME page'.latest = page.latest, page'.fence = page.fence, stream'.mail = stream.mail PROVE Ahead'
  BY <1>2 DEF Ahead
<1>3. ASSUME stream'.mail = <<>> PROVE Ahead'
  <2>1. Len(<<>>) = 0 /\ \A i \in 1 .. 0 : FALSE
    OBVIOUS
  <2> QED
    BY <1>3, <2>1 DEF Ahead
<1>4. CASE Message
  <2>1. PICK n \in Nat \ {0} : n = Len(stream.mail)
    BY <1>4, DeliveredIs
  <2>2. /\ stream.mail[1] \in Mail
        /\ Len(stream'.mail) = n - 1
        /\ \A i \in 1 .. n - 1 : stream'.mail[i] = stream.mail[i + 1]
    BY <1>4, <2>1, DeliveredIs
  <2>3. \A i \in 1 .. n - 1 : i + 1 \in 1 .. n /\ 1 \in 1 .. n /\ 1 < i + 1
    BY <2>1
  <2>4. CASE UNCHANGED page
    BY <2>1, <2>2, <2>3, <2>4 DEF Ahead
  <2>5. CASE Take(stream.mail[1])
    <3>1. PICK first \in Update : first = stream.mail[1].update
      BY <2>2 DEF Mail
    <3>2. page'.latest = Merged(page.latest, first) /\ page.latest \in View
      BY <1>1, <2>2, <2>5, <3>1, TakeIs DEF PageSet
    <3>3. page'.latest.revision = first.revision
      BY <3>2, MergedIs
    <3>4. PICK s \in 1 .. session, delivered \in 0 .. MaxRevision : MailOf(s, delivered)
      BY DEF StreamOK
    <3>5. \A i, j \in 1 .. n : i < j => stream.mail[i].update.revision < stream.mail[j].update.revision
      BY <2>1, <3>4 DEF MailOf
    <3>6. ASSUME NEW i \in 1 .. n - 1 PROVE stream'.mail[i].update.revision >= page'.latest.revision
      <4>1. stream.mail[1].update.revision < stream.mail[i + 1].update.revision
        BY <2>3, <3>5
      <4>2. stream.mail[1].update.revision \in Nat /\ stream.mail[i + 1].update.revision \in Nat
        BY <2>1, <2>3, MailIs
      <4>3. PICK early \in Nat, late \in Nat :
                early = stream.mail[1].update.revision /\ late = stream.mail[i + 1].update.revision
        BY <4>2
      <4>4. stream'.mail[i].update.revision = late /\ page'.latest.revision = early
        BY <2>2, <3>1, <3>3, <4>3
      <4> QED
        BY <4>1, <4>3, <4>4
    <3> QED
      BY <2>2, <3>6 DEF Ahead
  <2> QED
    BY <1>4, <2>4, <2>5, DeliveredIs
<1>5. CASE Streams
  <2>1. PICK after \in 0 .. MaxRevision, full \in BOOLEAN :
               /\ [update |-> Snapshot(after), full |-> full] \in Mail
               /\ stream' = [stream EXCEPT !.cursor = Revision + 1,
                                           !.mail = Append(@, [update |-> Snapshot(after), full |-> full])]
    BY <1>5, StreamsSends
  <2>2. PICK message \in Mail : message = [update |-> Snapshot(after), full |-> full]
    BY <2>1
  <2>3. message.update.session = session /\ message.update.revision = Revision
    BY <2>2, SnapshotTold
  <2>4. PICK n \in Nat : n = Len(stream.mail)
    BY MailIs
  <2>5. stream.mail \in Seq(Mail)
    BY MailIs
  <2>6. PICK mail \in Seq(Mail) : mail = Append(stream.mail, message)
    BY <2>5, AppendProperties
  <2>7. Len(mail) = n + 1 /\ (\A i \in 1 .. n : mail[i] = stream.mail[i]) /\ mail[n + 1] = message
    BY <2>4, <2>5, <2>6, AppendProperties
  <2>8. stream'.mail = mail
    <3>1. stream' = [stream EXCEPT !.cursor = Revision + 1, !.mail = mail]
      BY <2>1, <2>2, <2>6
    <3> QED
      BY <1>1, <3>1 DEF StreamSet
  <2>9. page' = page
    BY <1>5 DEF Streams
  <2>10. session = page.latest.session => Revision >= page.latest.revision
    <3>1. session = page.latest.session => Reached(page.latest.session, page.latest.revision)
      BY BufferType DEF PageOK, ViewOK
    <3>2. Revision \in Nat
      BY BufferType
    <3> QED
      BY <3>1, <3>2, ReachedIs
  <2>11. ASSUME NEW i \in 1 .. n + 1, mail[i].update.session = page.latest.session
         PROVE  \/ mail[i].update.revision >= page.latest.revision
                \/ mail[i].update.revision < page.fence
    <3>1. CASE i = n + 1
      BY <2>3, <2>7, <2>10, <2>11, <3>1
    <3>2. CASE i # n + 1
      <4>1. i \in 1 .. n
        BY <3>2
      <4> QED
        BY <2>4, <2>7, <2>11, <4>1 DEF Ahead
    <3> QED
      BY <3>1, <3>2
  <2> QED
    BY <2>7, <2>8, <2>9, <2>11 DEF Ahead
<1>6. CASE ClearTaken
  <2>1. request.update \in Update
    BY <1>6 DEF ClearTaken, TrafficTypeOK
  <2>2. page'.latest.revision = request.update.revision /\ page'.fence = request.update.revision
    BY <1>1, <1>6, <2>1, ClearTakenIs
  <2>3. request.update.revision \in Nat
    BY <2>1, TrafficBounds DEF Update
  <2>4. stream' = stream
    BY <1>6 DEF ClearTaken
  <2>5. \A i \in 1 .. Len(stream'.mail) : stream'.mail[i].update.revision \in Nat
    BY <2>4, MailIs
  <2> QED
    BY <2>2, <2>3, <2>5 DEF Ahead
<1>7. CASE TogglePause \/ Select
  BY <1>1, <1>2, <1>7, HandIs
<1>8. CASE WatchStep
  <2>1. PICK live \in BOOLEAN : live = (stream.live /\ server' # "down")
    OBVIOUS
  <2>2. stream' = Closed \/ stream' = [stream EXCEPT !.live = live]
    BY <1>8, <2>1 DEF WatchStep
  <2>3. stream'.mail = <<>> \/ stream'.mail = stream.mail
    BY <1>1, <2>2 DEF Closed, StreamSet
  <2> QED
    BY <1>2, <1>3, <1>8, <2>3 DEF WatchStep
<1>9. CASE Connects
  BY <1>3, <1>9 DEF Connects
<1>10. CASE Cut
  <2>1. stream' = [stream EXCEPT !.live = FALSE]
    BY <1>10 DEF Cut
  <2> QED
    BY <1>1, <1>2, <1>10, <2>1 DEF Cut, StreamSet
<1>11. CASE Capture \/ ClearElsewhere \/ ClearSends \/ ClearClears \/ ClearAnswers \/ ClearFails
  BY <1>2, <1>11 DEF Capture, ClearElsewhere, ClearSends, ClearClears, ClearAnswers, ClearFails
<1>12. CASE UNCHANGED vars
  BY <1>2, <1>12 DEF vars, traffic
<1> QED
  BY <1>4, <1>5, <1>6, <1>7, <1>8, <1>9, <1>10, <1>11, <1>12 DEF Next, Live, Clearing

------------------------------------------------------------------------------
(* The theorems.                                                               *)

(* The page starts empty, before every message.                                *)
LEMMA InitInv == Init => Inv
<1> SUFFICES ASSUME Init PROVE Inv
  OBVIOUS
<1>1. MaxRevision \in Nat /\ MailSlots \in Nat \ {0} /\ MaxSession \in Nat \ {0} /\ MaxFaults \in Nat
  BY TrafficBounds, WatchBounds
<1>2. WatchTypeOK
  <2>1. server \in Health /\ session = 1 /\ owed = FALSE /\ faults = 0
    BY DEF Init, WatchInit
  <2>2. watch = [poll |-> "waiting", failures |-> 0, pending |-> FALSE, state |-> "checking",
                 outage |-> 1, dismissed |-> 0]
    BY DEF Init, WatchInit
  <2>3. "waiting" \in Polls /\ "checking" \in States /\ 0 \in 0 .. 2 /\ 1 \in Nat /\ 0 \in Nat
    BY DEF Polls, States
  <2>4. watch \in Watch
    BY <2>2, <2>3 DEF Watch
  <2>5. session \in 1 .. MaxSession /\ faults \in 0 .. MaxFaults
    BY <1>1, <2>1
  <2> QED
    BY <2>1, <2>4, <2>5 DEF WatchTypeOK, Watch, Polls, States
<1>3. PICK empty \in Seq(SUBSET Row) : empty = <<{}>> /\ Len(empty) = 1 /\ empty[1] = {}
  <2>1. {} \in SUBSET Row
    OBVIOUS
  <2>2. <<{}>> \in Seq(SUBSET Row) /\ Len(<<{}>>) = 1 /\ <<{}>>[1] = {}
    BY <2>1
  <2> QED
    BY <2>2
<1>4. contents = [s \in 1 .. MaxSession |-> empty]
  BY <1>3 DEF Init
<1>5. session = 1 /\ stream = Closed /\ request = NoRequest /\ overtaken = FALSE
      /\ page = [latest |-> Nothing, shown |-> Nothing, paused |-> FALSE, selected |-> NoRow, fence |-> 0]
  BY DEF Init, WatchInit
<1>6. PICK none \in Seq(Mail) : none = <<>> /\ Len(none) = 0
  BY EmptySeq
<1>7. stream.mail = none /\ ~stream.live /\ stream.cursor = 0
  BY <1>5, <1>6 DEF Closed
<1>8. stream \in StreamSet
  <2>1. stream = [live |-> FALSE, cursor |-> 0, mail |-> none]
    BY <1>5, <1>6 DEF Closed
  <2>2. 0 \in 0 .. MaxRevision + 1
    BY <1>1
  <2> QED
    BY <2>1, <2>2 DEF StreamSet
<1>9. PICK nothing \in View : nothing = Nothing /\ nothing.session = 0 /\ nothing.rows = {} /\ nothing.revision = 0
  <2>1. {} \in SUBSET Row /\ 0 \in 0 .. MaxSession /\ 0 \in 0 .. MaxRevision
    BY <1>1
  <2>2. Nothing \in View
    BY <2>1 DEF View, Nothing
  <2>3. Nothing.session = 0 /\ Nothing.rows = {} /\ Nothing.revision = 0
    BY DEF Nothing
  <2> QED
    BY <2>2, <2>3
<1>10. NoRow \in (0 .. MaxSession) \X (0 .. MaxRevision)
  BY <1>1 DEF NoRow
<1>11. page \in PageSet
  <2>1. PICK row \in (0 .. MaxSession) \X (0 .. MaxRevision) : row = NoRow
    BY <1>10
  <2>2. page = [latest |-> nothing, shown |-> nothing, paused |-> FALSE, selected |-> row, fence |-> 0]
    BY <1>5, <1>9, <2>1
  <2>3. 0 \in 0 .. MaxRevision
    BY <1>1
  <2> QED
    BY <2>2, <2>3 DEF PageSet
<1>12. request.stage = "none" /\ request \in [stage : {"none", "sent", "cleared", "answered"}, update : Update \cup {Nothing}]
  BY <1>5 DEF NoRequest
<1>13. contents \in [1 .. MaxSession -> Seq(SUBSET Row)]
       /\ \A s \in 1 .. MaxSession : contents[s] = empty /\ Len(contents[s]) = 1
  BY <1>3, <1>4
<1>14. TrafficTypeOK
  <2>1. \A s \in 1 .. MaxSession : Len(contents[s]) \in 1 .. MaxRevision + 1
    <3>1. 1 \in 1 .. MaxRevision + 1
      BY <1>1
    <3> QED
      BY <1>13, <3>1
  <2>2. Len(stream.mail) <= MailSlots
    BY <1>1, <1>6, <1>7
  <2>3. stream \in [live : BOOLEAN, cursor : 0 .. MaxRevision + 1, mail : Seq(Mail)]
    BY <1>8 DEF StreamSet
  <2>4. page \in [latest : View, shown : View, paused : BOOLEAN,
                  selected : (0 .. MaxSession) \X (0 .. MaxRevision), fence : 0 .. MaxRevision]
    BY <1>11 DEF PageSet
  <2>5. overtaken \in BOOLEAN /\ (request.stage = "answered" => request.update \in Update)
    BY <1>5, <1>12
  <2> QED
    BY <1>12, <1>13, <2>1, <2>2, <2>3, <2>4, <2>5 DEF TrafficTypeOK
<1>15. BufferOK
  <2>1. ASSUME NEW s \in 1 .. MaxSession, NEW i \in 1 .. Len(contents[s])
        PROVE  /\ \E oldest \in 1 .. i : contents[s][i] = oldest .. (i - 1)
               /\ \A j \in 1 .. i : contents[s][i] \cap (1 .. (j - 1)) \subseteq contents[s][j]
    <3>1. i = 1 /\ contents[s][i] = {}
      <4>1. contents[s] = empty /\ Len(contents[s]) = 1
        BY <1>13
      <4>2. i \in 1 .. 1
        BY <4>1
      <4> QED
        BY <1>3, <4>1, <4>2
    <3>2. {} = 1 .. (1 - 1)
      OBVIOUS
    <3> QED
      BY <3>1, <3>2
  <2> QED
    BY <2>1 DEF BufferOK
<1>16. RequestOK
  BY <1>12 DEF RequestOK
<1>17. page.latest = nothing /\ page.shown = nothing /\ page.fence = 0 /\ page.selected = NoRow
  BY <1>5, <1>9
<1>18. PageOK
  BY <1>9, <1>17 DEF PageOK, ViewOK, Held
<1>19. StreamOK
  <2>1. PICK one \in 1 .. session, zero \in 0 .. MaxRevision : one = 1 /\ zero = 0
    BY <1>1, <1>5
  <2>2. Reached(one, zero)
    <3>1. one \in 1 .. MaxSession /\ one \in 1 .. session
      BY <1>1, <2>1
    <3>2. zero \in 0 .. Len(contents[one]) - 1
      <4>1. Len(contents[one]) = 1
        BY <1>13, <3>1
      <4>2. 0 \in 0 .. 1 - 1
        OBVIOUS
      <4> QED
        BY <2>1, <4>1, <4>2
    <3> QED
      BY <3>1, <3>2 DEF Reached
  <2>3. \A i \in 1 .. 0 : FALSE
    OBVIOUS
  <2>4. MailOf(one, zero)
    BY <1>6, <1>7, <2>2, <2>3 DEF MailOf
  <2> QED
    BY <1>7, <2>4 DEF StreamOK
<1>20. Ahead
  BY <1>6, <1>7 DEF Ahead
<1>21. SelectedIsShown
  BY <1>17 DEF SelectedIsShown
<1> QED
  BY <1>2, <1>14, <1>15, <1>16, <1>18, <1>19, <1>20, <1>21 DEF Inv

(* The invariant of a page, its stream and the buffer behind it is inductive.  *)
THEOREM Invariance == Spec => []Inv
<1>1. Inv /\ [Next]_vars => Inv'
  <2> SUFFICES ASSUME Inv, [Next]_vars PROVE Inv'
    OBVIOUS
  <2>1. WatchTypeOK' /\ BufferOK' /\ RequestOK' /\ SelectedIsShown'
    BY WatchTypeStep, BufferStep, RequestStep, SelectedStep DEF Inv
  <2>2. PageOK' /\ StreamOK' /\ Ahead'
    BY PageStep, StreamStep, AheadStep
  <2>3. TrafficTypeOK'
    BY ContentsType, StreamType, RequestStep, PageStep DEF Inv, TrafficTypeOK, StreamSet, PageSet
  <2> QED
    BY <2>1, <2>2, <2>3 DEF Inv
<1> QED
  BY <1>1, InitInv, PTL DEF Spec

(* Whatever is captured, cleared, cut or restarted, buffer, stream, request    *)
(* and page keep their types and bounds.                                       *)
THEOREM TypeCorrect == Spec => []TypeOK
<1>1. Inv => TypeOK
  <2> SUFFICES ASSUME Inv PROVE TypeOK
    OBVIOUS
  <2>1. page \in PageSet /\ stream \in StreamSet
    BY DEF Inv, TrafficTypeOK, PageSet, StreamSet
  <2>2. page.latest \in View /\ page.shown \in View /\ page.paused \in BOOLEAN
    BY <2>1 DEF PageSet
  <2>3. stream.live \in BOOLEAN /\ stream.cursor \in 0 .. MaxRevision + 1
    BY <2>1 DEF StreamSet
  <2>4. \A view \in Views : view.session \in 0 .. MaxSession /\ view.revision \in 0 .. MaxRevision
    BY <2>2 DEF Views, View
  <2>5. request.stage \in {"none", "sent", "cleared", "answered"}
    BY DEF Inv, TrafficTypeOK
  <2> QED
    BY <2>2, <2>3, <2>4, <2>5 DEF Inv, TrafficTypeOK, TypeOK, Row
<1> QED
  BY <1>1, Invariance, PTL

(* A page shows no row that the buffer did not hold at the revision shown.     *)
THEOREM ShowsOnlyHeldRows == Spec => []NoForeignRows
<1>1. Inv => NoForeignRows
  BY DEF Inv, PageOK, ViewOK, NoForeignRows, Views
<1> QED
  BY <1>1, Invariance, PTL

(* A page that no update took back has every row of the revision it reached.   *)
THEOREM MissesNoRows == Spec => []NoMissingRows
<1>1. Inv => NoMissingRows
  BY DEF Inv, PageOK, NoMissingRows
<1> QED
  BY <1>1, Invariance, PTL

(* The packet under inspection is one of the rows shown.                       *)
THEOREM InspectsShownRow == Spec => []SelectedIsShown
<1>1. Inv => SelectedIsShown
  BY DEF Inv
<1> QED
  BY <1>1, Invariance, PTL

(* Within a session only the answer to a clear takes a page back.              *)
THEOREM MessagesGoForward == Spec => OnlyAnswersTakeBack
<1>1. Inv /\ [Next]_vars =>
          [(page'.latest.session = page.latest.session /\ page'.latest.revision < page.latest.revision)
              => ClearTaken]_vars
  <2> SUFFICES ASSUME Inv, Next, page'.latest.session = page.latest.session,
                      page'.latest.revision < page.latest.revision, ~ClearTaken
               PROVE  FALSE
    OBVIOUS
  <2> USE DEF Inv
  <2>1. page \in PageSet
    BY DEF TrafficTypeOK, PageSet
  <2>2. page.latest.revision \in Nat
    BY <2>1, TrafficBounds DEF PageSet, View
  <2>3. CASE page'.latest = page.latest
    BY <2>2, <2>3
  <2>4. CASE TogglePause \/ Select
    BY <2>1, <2>3, <2>4, HandIs
  <2>5. CASE Message /\ page'.latest # page.latest
    <3>1. /\ Len(stream.mail) \in Nat \ {0} /\ stream.mail[1] \in Mail
          /\ ~Stale(stream.mail[1].update) /\ Take(stream.mail[1])
      BY <2>5, DeliveredIs
    <3>2. PICK message \in Mail : message = stream.mail[1]
      BY <3>1
    <3>3. message.update \in Update
      BY DEF Mail
    <3>4. page'.latest = Merged(page.latest, message.update) /\ page.latest \in View
      BY <2>1, <3>1, <3>2, TakeIs DEF PageSet
    <3>5. page'.latest.session = message.update.session /\ page'.latest.revision = message.update.revision
      BY <3>3, <3>4, MergedIs
    <3>6. 1 \in 1 .. Len(stream.mail)
      BY <3>1
    <3>7. \/ message.update.revision >= page.latest.revision
          \/ message.update.revision < page.fence
      BY <3>2, <3>5, <3>6 DEF Ahead
    <3>8. ~(message.update.revision < page.fence)
      BY <3>1, <3>2, <3>5 DEF Stale
    <3>9. message.update.revision \in Nat
      BY <3>3, TrafficBounds DEF Update
    <3> QED
      BY <2>2, <3>5, <3>7, <3>8, <3>9
  <2>6. UNCHANGED page \/ TogglePause \/ Select \/ Message
    BY StepKinds DEF PageSteps, WatchStep, Connects, Streams, Cut, ClearSends, ClearAnswers, ClearFails
  <2> QED
    BY <2>3, <2>4, <2>5, <2>6
<1> QED
  BY <1>1, Invariance, PTL DEF Spec, OnlyAnswersTakeBack
==============================================================================
