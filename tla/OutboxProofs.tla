----------------------------- MODULE OutboxProofs -----------------------------
(* The schedule of the outbox, for any set of messages, any delays and any     *)
(* number of crashes.                                                          *)
EXTENDS Outbox, TLAPS

------------------------------------------------------------------------------
(* The inductive invariant.                                                    *)

\* The entries whose sends the flush still owes.
Owed == flush.todo \cup {flush.entry}

\* What a list still says of the rows: each id is listed once, a row queued
\* again is background traffic and has no more attempts than it was listed with,
\* and users are listed first.
ListOK ==
    flush.on =>
        /\ flush.entry \notin flush.todo
        /\ \A x, y \in Owed : x.id = y.id => x = y
        /\ \A x \in Owed : row[x.id].queued =>
               /\ row[x.id].user => x.user
               /\ x \in flush.todo \/ ~flush.recorded => row[x.id].attempts <= x.attempts
        /\ \A x, y \in flush.todo : x.user /\ ~y.user => x.id \in y.ahead
        /\ ~flush.entry.user => \A x \in flush.todo : ~x.user

Inv == TypeOK /\ ListOK /\ NotTooSoon /\ NotTooLate

------------------------------------------------------------------------------
(* The delays.                                                                 *)

(* The powers of two that a delay may have grow.                               *)
LEMMA Powers == \A j, k \in 0 .. 16 : 2 ^ j \in Nat /\ (j <= k => 2 ^ j <= 2 ^ k)
<1> DEFINE f == [k \in 0 .. 16 |-> 2 ^ k]
<1>1. \A k \in 0 .. 16 : f[k] = 2 ^ k
  OBVIOUS
<1>2. 2 ^ 0 = 1 /\ 2 ^ 1 = 2 /\ 2 ^ 2 = 4 /\ 2 ^ 3 = 8 /\ 2 ^ 4 = 16 /\ 2 ^ 5 = 32
  OBVIOUS
<1>3. 2 ^ 6 = 64 /\ 2 ^ 7 = 128 /\ 2 ^ 8 = 256 /\ 2 ^ 9 = 512 /\ 2 ^ 10 = 1024 /\ 2 ^ 11 = 2048
  OBVIOUS
<1>4. 2 ^ 12 = 4096 /\ 2 ^ 13 = 8192 /\ 2 ^ 14 = 16384 /\ 2 ^ 15 = 32768 /\ 2 ^ 16 = 65536
  OBVIOUS
<1>5. f[0] = 1 /\ f[1] = 2 /\ f[2] = 4 /\ f[3] = 8 /\ f[4] = 16 /\ f[5] = 32
  BY <1>2
<1>6. f[6] = 64 /\ f[7] = 128 /\ f[8] = 256 /\ f[9] = 512 /\ f[10] = 1024 /\ f[11] = 2048
  BY <1>3
<1>7. f[12] = 4096 /\ f[13] = 8192 /\ f[14] = 16384 /\ f[15] = 32768 /\ f[16] = 65536
  BY <1>4
<1> HIDE DEF f
<1>8. \A j \in 0 .. 16 :
          \/ j = 0 \/ j = 1 \/ j = 2 \/ j = 3 \/ j = 4 \/ j = 5 \/ j = 6 \/ j = 7 \/ j = 8
          \/ j = 9 \/ j = 10 \/ j = 11 \/ j = 12 \/ j = 13 \/ j = 14 \/ j = 15 \/ j = 16
  OBVIOUS
<1>9. ASSUME NEW j \in 0 .. 16, NEW k \in 0 .. 16 PROVE f[j] \in Nat /\ (j <= k => f[j] <= f[k])
  BY <1>5, <1>6, <1>7, <1>8
<1>10. ASSUME NEW j \in 0 .. 16, NEW k \in 0 .. 16 PROVE 2 ^ j \in Nat /\ (j <= k => 2 ^ j <= 2 ^ k)
  BY <1>1, <1>9, Zenon
<1> QED
  BY <1>10

(* The lesser of two numbers.                                                  *)
LEMMA LeastIs ==
    ASSUME NEW x \in Nat, NEW y \in Nat
    PROVE  Least(x, y) \in Nat /\ Least(x, y) <= x /\ Least(x, y) <= y /\ Least(x, y) \in {x, y}
BY DEF Least

(* A delay is at most retry_max.                                               *)
LEMMA DelayType ==
    ASSUME NEW k \in Nat
    PROVE  Delay(k) \in Nat /\ Delay(k) <= MaxDelay
<1>1. Least(k, 16) \in 0 .. 16
  BY DEF Least
<1>2. 2 ^ Least(k, 16) \in Nat
  BY <1>1, Powers
<1>3. Base * 2 ^ Least(k, 16) \in Nat
  BY <1>2, Delays
<1> QED
  BY <1>3, LeastIs, Delays DEF Delay

(* Delays do not get shorter.                                                  *)
LEMMA DelayGrows ==
    ASSUME NEW j \in Nat, NEW k \in Nat, j <= k
    PROVE  Delay(j) <= Delay(k)
<1>1. PICK a \in 0 .. 16, b \in 0 .. 16 : a = Least(j, 16) /\ b = Least(k, 16) /\ a <= b
  BY DEF Least
<1>2. PICK p \in Nat, q \in Nat : p = 2 ^ a /\ q = 2 ^ b /\ p <= q
  BY <1>1, Powers
<1>3. Base \in Nat /\ MaxDelay \in Nat
  BY Delays
<1>4. PICK c \in Nat, d \in Nat : c = Base * p /\ d = Base * q /\ c <= d
  BY <1>2, <1>3
<1>5. Delay(j) = Least(c, MaxDelay) /\ Delay(k) = Least(d, MaxDelay)
  BY <1>1, <1>2, <1>4 DEF Delay
<1> QED
  BY <1>3, <1>4, <1>5 DEF Least
------------------------------------------------------------------------------
(* Rows and lists.                                                             *)

FlushSet == [on : {TRUE}, elapsed : 0 .. MaxDelay, recorded : BOOLEAN,
             entry : Entries, todo : SUBSET Entries]

(* A row that is queued has all of its columns.                                *)
LEMMA RowIs ==
    ASSUME TypeOK, NEW m \in Message, row[m].queued
    PROVE  /\ row[m] \in Rows /\ row[m].user \in BOOLEAN
           /\ row[m].attempts \in 0 .. AttemptCap /\ row[m].attempts \in Nat
           /\ row[m].wait \in 0 .. MaxDelay /\ row[m].wait \in Nat
<1>1. row[m] \in {NoRow} \cup Rows
  BY DEF TypeOK
<1>2. row[m] \in Rows
  BY <1>1 DEF NoRow
<1>3. row[m].user \in BOOLEAN /\ row[m].attempts \in 0 .. AttemptCap /\ row[m].wait \in 0 .. MaxDelay
  BY <1>2 DEF Rows
<1> QED
  BY <1>2, <1>3, Delays

(* The history of a row is in bounds.                                          *)
LEMMA SinceIs ==
    ASSUME TypeOK, NEW m \in Message
    PROVE  since[m] \in Nat /\ since[m] <= MaxDelay /\ quiet[m] \in 0 .. MaxDelay
BY Delays DEF TypeOK

(* A flush in progress has a list of entries.                                  *)
LEMMA FlushIs ==
    ASSUME TypeOK
    PROVE  /\ flush = NoFlush \/ flush \in FlushSet
           /\ flush = NoFlush <=> ~flush.on
           /\ flush.on =>
                  /\ flush \in FlushSet
                  /\ flush.elapsed \in Nat /\ flush.elapsed <= MaxDelay
                  /\ flush.recorded \in BOOLEAN
                  /\ Owed \subseteq Entries
<1>1. flush = NoFlush \/ flush \in FlushSet
  BY DEF TypeOK, FlushSet
<1>2. flush \in FlushSet => flush.on
  BY DEF FlushSet
<1>3. ~NoFlush.on
  BY DEF NoFlush
<1>4. flush \in FlushSet =>
          /\ flush.elapsed \in 0 .. MaxDelay /\ flush.recorded \in BOOLEAN
          /\ flush.entry \in Entries /\ flush.todo \subseteq Entries
  BY DEF FlushSet
<1> QED
  BY <1>1, <1>2, <1>3, <1>4, Delays DEF Owed

(* Entries name messages and have attempts.                                    *)
LEMMA EntryIs ==
    ASSUME NEW x \in Entries
    PROVE  x.id \in Message /\ x.user \in BOOLEAN /\ x.attempts \in 0 .. AttemptCap /\ x.attempts \in Nat
BY Delays DEF Entries

(* Rows with fewer attempts, less of a user or gone leave a list in order.     *)
LEMMA ListKept ==
    ASSUME TypeOK, ListOK, flush' = flush,
           \A x \in Entries : flush.on /\ x \in Owed /\ row'[x.id].queued =>
               \/ row[x.id].queued /\ row'[x.id].user = row[x.id].user
                                   /\ row'[x.id].attempts = row[x.id].attempts
               \/ ~row'[x.id].user /\ row'[x.id].attempts = 0
    PROVE  ListOK'
<1>1. Owed' = Owed
  BY DEF Owed
<1>2. ASSUME flush.on, NEW x \in Owed, row'[x.id].queued
      PROVE  /\ row'[x.id].user => x.user
             /\ x \in flush.todo \/ ~flush.recorded => row'[x.id].attempts <= x.attempts
  <2>1. x \in Entries
    BY <1>2, FlushIs
  <2>2. x.attempts \in Nat
    BY <2>1, EntryIs
  <2>3. CASE row[x.id].queued /\ row'[x.id].user = row[x.id].user
                              /\ row'[x.id].attempts = row[x.id].attempts
    BY <1>2, <2>3 DEF ListOK
  <2>4. CASE ~row'[x.id].user /\ row'[x.id].attempts = 0
    BY <2>2, <2>4
  <2> QED
    BY <1>2, <2>1, <2>3, <2>4
<1> QED
  BY <1>1, <1>2 DEF ListOK

------------------------------------------------------------------------------
(* The steps.                                                                  *)

(* A row that is queued is due, and owes nothing to the past.                  *)
LEMMA InsertStep ==
    ASSUME Inv, NEW m \in Message, NEW user \in BOOLEAN, Insert(m, user), user => ~Listed(m),
           aired' \in [Message -> BOOLEAN]
    PROVE  Inv'
<1> USE DEF Inv
<1> DEFINE queued == {n \in Message : row[n].queued}
           new == [queued |-> TRUE, user |-> user, attempts |-> 0, wait |-> 0, after |-> queued]
<1>1. /\ row' = [row EXCEPT ![m] = new] /\ since' = [since EXCEPT ![m] = MaxDelay]
      /\ quiet' = [quiet EXCEPT ![m] = MaxDelay] /\ sent' = [sent EXCEPT ![m] = FALSE]
      /\ flush' = flush /\ faults' = faults
  BY DEF Insert
<1>2. MaxDelay \in 0 .. MaxDelay /\ MaxDelay \in Nat /\ AttemptCap \in Nat /\ 0 \in 0 .. MaxDelay
      /\ 0 \in 0 .. AttemptCap
  BY Delays
<1>3. new \in Rows
  <2>1. queued \in SUBSET Message
    OBVIOUS
  <2> HIDE DEF queued
  <2> QED
    BY <1>2, <2>1 DEF Rows
<1>4. new.queued /\ new.user = user /\ new.attempts = 0 /\ new.wait = 0
  OBVIOUS
<1> HIDE DEF new
<1>5. row'[m] = new /\ \A n \in Message : n # m => row'[n] = row[n] /\ since'[n] = since[n]
  BY <1>1 DEF TypeOK
<1>6. since'[m] = MaxDelay
  BY <1>1 DEF TypeOK
<1>7. row' \in [Message -> {NoRow} \cup Rows]
  BY <1>1, <1>3 DEF TypeOK
<1>8. TypeOK'
  BY <1>1, <1>2, <1>7 DEF TypeOK
<1>9. ListOK'
  <2>1. ASSUME NEW x \in Entries, flush.on, x \in Owed, row'[x.id].queued
        PROVE  \/ row[x.id].queued /\ row'[x.id].user = row[x.id].user
                                   /\ row'[x.id].attempts = row[x.id].attempts
               \/ ~row'[x.id].user /\ row'[x.id].attempts = 0
    <3>1. x.id \in Message
      BY EntryIs
    <3>2. CASE x.id = m
      <4>1. Listed(m)
        BY <2>1, <3>2 DEF Listed, Owed
      <4> QED
        BY <1>4, <1>5, <3>2, <4>1
    <3>3. CASE x.id # m
      BY <1>5, <2>1, <3>1, <3>3
    <3> QED
      BY <3>2, <3>3
  <2> QED
    BY <1>1, <2>1, ListKept
<1>10. NotTooSoon'
  BY <1>4, <1>5 DEF NotTooSoon
<1>11. NotTooLate'
  BY <1>4, <1>5 DEF NotTooLate
<1> QED
  BY <1>8, <1>9, <1>10, <1>11

(* An acknowledged row is gone; the others are as they were.                   *)
LEMMA AcknowledgeStep ==
    ASSUME Inv, NEW m \in Message, Acknowledge(m)
    PROVE  Inv'
<1> USE DEF Inv
<1>1. /\ row' = [n \in Message |-> IF n = m \/ ~row[n].queued THEN NoRow
                                    ELSE [row[n] EXCEPT !.after = @ \ {m}]]
      /\ UNCHANGED <<flush, aired, since, quiet, sent, faults>>
  BY DEF Acknowledge, history
<1>2. ASSUME NEW n \in Message
      PROVE  /\ row'[n] \in {NoRow} \cup Rows
             /\ row'[n].queued =>
                    /\ row[n].queued /\ row'[n].user = row[n].user
                    /\ row'[n].attempts = row[n].attempts /\ row'[n].wait = row[n].wait
  <2>1. CASE n = m \/ ~row[n].queued
    BY <1>1, <2>1 DEF NoRow
  <2>2. CASE ~(n = m \/ ~row[n].queued)
    <3>1. row[n] \in Rows
      BY <2>2, RowIs
    <3>2. PICK after \in SUBSET Message : after = row[n].after \ {m}
      BY <3>1 DEF Rows
    <3>3. row'[n] = [row[n] EXCEPT !.after = after]
      BY <1>1, <2>2, <3>2
    <3>4. row'[n] \in Rows
      BY <3>1, <3>3 DEF Rows
    <3> QED
      BY <2>2, <3>1, <3>3, <3>4 DEF Rows
  <2> QED
    BY <2>1, <2>2
<1>3. row' \in [Message -> {NoRow} \cup Rows]
  BY <1>1, <1>2
<1>4. TypeOK'
  BY <1>1, <1>3 DEF TypeOK
<1>5. ListOK'
  <2>1. \A x \in Entries : x.id \in Message
    BY EntryIs
  <2> QED
    BY <1>1, <1>2, <2>1, ListKept
<1>6. NotTooSoon'
  BY <1>1, <1>2 DEF NotTooSoon
<1>7. NotTooLate'
  BY <1>1, <1>2 DEF NotTooLate
<1> QED
  BY <1>4, <1>5, <1>6, <1>7

(* A flush lists the due rows, users first.                                    *)
LEMMA FlushBeginStep ==
    ASSUME Inv, FlushBegin
    PROVE  Inv'
<1> USE DEF Inv
<1>1. PICK entry \in DueEntries :
          /\ First(entry, DueEntries)
          /\ flush' = [on |-> TRUE, elapsed |-> 0, recorded |-> FALSE, entry |-> entry,
                       todo |-> DueEntries \ {entry}]
  BY DEF FlushBegin
<1>2. UNCHANGED <<row, aired, since, quiet, sent, faults>>
  BY DEF FlushBegin, history
<1>3. ASSUME NEW x \in DueEntries
      PROVE  /\ x \in Entries /\ x.id \in Due
             /\ x.user = row[x.id].user /\ x.attempts = row[x.id].attempts
             /\ x.ahead = {n \in Due : Precedes(n, x.id)}
             /\ x = [id |-> x.id, user |-> x.user, attempts |-> x.attempts, ahead |-> x.ahead]
  <2>1. PICK m \in Due : x = [id |-> m, user |-> row[m].user, attempts |-> row[m].attempts,
                              ahead |-> {n \in Due : Precedes(n, m)}]
    BY DEF DueEntries
  <2>2. m \in Message /\ row[m].queued
    BY DEF Due
  <2>3. row[m].user \in BOOLEAN /\ row[m].attempts \in 0 .. AttemptCap
    BY <2>2, RowIs
  <2>4. PICK ahead \in SUBSET Message : ahead = {n \in Due : Precedes(n, m)}
    BY DEF Due
  <2>5. x = [id |-> m, user |-> row[m].user, attempts |-> row[m].attempts, ahead |-> ahead]
    BY <2>1, <2>4
  <2>6. x \in Entries
    BY <2>2, <2>3, <2>5 DEF Entries
  <2> QED
    BY <2>4, <2>5, <2>6
<1>4. ASSUME NEW x \in DueEntries, NEW y \in DueEntries, x.id = y.id PROVE x = y
  <2>1. x.user = y.user /\ x.attempts = y.attempts /\ x.ahead = y.ahead
    BY <1>3, <1>4
  <2> QED
    BY <1>3, <1>4, <2>1
<1>5. ASSUME NEW x \in DueEntries, NEW y \in DueEntries, x.user, ~y.user PROVE x.id \in y.ahead
  BY <1>3, <1>5 DEF Precedes
<1>6. PICK todo \in SUBSET Entries : todo = DueEntries \ {entry}
  BY <1>3
<1>7. flush' = [on |-> TRUE, elapsed |-> 0, recorded |-> FALSE, entry |-> entry, todo |-> todo]
  BY <1>1, <1>6
<1>8. flush' \in FlushSet
  BY <1>3, <1>7, Delays DEF FlushSet
<1>9. TypeOK'
  BY <1>2, <1>8 DEF TypeOK, FlushSet
<1>10. Owed' = DueEntries /\ flush'.todo = DueEntries \ {entry} /\ flush'.entry = entry /\ ~flush'.recorded
  BY <1>6, <1>7 DEF Owed
<1>11. ASSUME NEW x \in DueEntries, row[x.id].queued
       PROVE  /\ row[x.id].user => x.user
              /\ row[x.id].attempts <= x.attempts
  <2>1. x.attempts \in Nat
    BY <1>3, EntryIs
  <2> QED
    BY <1>3, <2>1
<1>12. ~entry.user => \A x \in DueEntries \ {entry} : ~x.user
  BY <1>1, <1>5 DEF First
<1>13. ListOK'
  BY <1>2, <1>4, <1>5, <1>10, <1>11, <1>12 DEF ListOK
<1>14. NotTooSoon' /\ NotTooLate'
  BY <1>2 DEF NotTooSoon, NotTooLate
<1> QED
  BY <1>9, <1>13, <1>14

(* An attempt sets the wait of its row, as the list says, from the start.      *)
LEMMA FlushRecordStep ==
    ASSUME Inv, FlushRecord
    PROVE  Inv'
<1> USE DEF Inv
<1>1. flush.on /\ ~flush.recorded /\ flush' = [flush EXCEPT !.recorded = TRUE]
      /\ UNCHANGED <<aired, quiet, sent, faults>>
  BY DEF FlushRecord
<1>2. PICK entry \in Entries : entry = flush.entry /\ entry \in Owed
  BY <1>1, FlushIs DEF Owed
<1>3. PICK m \in Message : m = entry.id
  BY EntryIs
<1>4. entry.attempts \in Nat
  BY EntryIs
<1>5. PICK elapsed \in Nat : elapsed = flush.elapsed /\ elapsed <= MaxDelay
  BY <1>1, FlushIs
<1>6. /\ flush' \in FlushSet /\ flush'.on /\ flush'.recorded /\ flush'.entry = flush.entry
      /\ flush'.todo = flush.todo
  BY <1>1, FlushIs DEF FlushSet
<1>7. Owed' = Owed
  BY <1>6 DEF Owed
<1>8. CASE ~row[m].queued
  <2>1. UNCHANGED <<row, since>>
    BY <1>2, <1>3, <1>8 DEF FlushRecord
  <2>2. TypeOK'
    BY <1>1, <1>6, <2>1 DEF TypeOK, FlushSet
  <2>3. ListOK'
    BY <1>1, <1>6, <1>7, <2>1 DEF ListOK
  <2>4. NotTooSoon' /\ NotTooLate'
    BY <2>1 DEF NotTooSoon, NotTooLate
  <2> QED
    BY <2>2, <2>3, <2>4
<1>9. CASE row[m].queued
  <2>1. row' = [row EXCEPT ![m] = Attempted(row[m], entry, elapsed)] /\ since' = [since EXCEPT ![m] = elapsed]
    BY <1>2, <1>3, <1>5, <1>9 DEF FlushRecord
  <2>2. PICK delay \in Nat : delay = Delay(entry.attempts) /\ delay <= MaxDelay
    BY <1>4, DelayType
  <2>3. MaxDelay \in Nat /\ AttemptCap \in Nat
    BY Delays
  <2>4. PICK wait \in 0 .. MaxDelay : wait = IF elapsed < delay THEN delay - elapsed ELSE 0
    <3>1. (IF elapsed < delay THEN delay - elapsed ELSE 0) \in 0 .. MaxDelay
      BY <2>2, <2>3
    <3> QED
      BY <3>1
  <2>5. row[m] \in Rows /\ row[m].attempts \in Nat /\ row[m].attempts <= AttemptCap
    BY <1>9, <2>3, RowIs
  <2>6. PICK attempts \in 0 .. AttemptCap : attempts = Least(row[m].attempts + 1, AttemptCap)
    <3>1. Least(row[m].attempts + 1, AttemptCap) \in 0 .. AttemptCap
      BY <2>3, <2>5 DEF Least
    <3> QED
      BY <3>1
  <2>7. Attempted(row[m], entry, elapsed) = [row[m] EXCEPT !.attempts = attempts, !.wait = wait]
    BY <2>2, <2>4, <2>6 DEF Attempted
  <2>8. PICK r \in Rows : r = Attempted(row[m], entry, elapsed)
                          /\ r.attempts = attempts /\ r.wait = wait /\ r.user = row[m].user
    BY <2>5, <2>7 DEF Rows
  <2>9. row'[m] = r /\ since'[m] = elapsed
        /\ \A n \in Message : n # m => row'[n] = row[n] /\ since'[n] = since[n]
    BY <2>1, <2>8 DEF TypeOK
  <2>10. row' \in [Message -> {NoRow} \cup Rows]
    BY <2>1, <2>8 DEF TypeOK
  <2>11. since' \in [Message -> 0 .. MaxDelay]
    <3>1. elapsed \in 0 .. MaxDelay
      BY <1>5, <2>3
    <3> QED
      BY <2>1, <3>1 DEF TypeOK
  <2>12. TypeOK'
    BY <1>1, <1>6, <2>10, <2>11 DEF TypeOK, FlushSet
  <2>13. row[m].attempts <= entry.attempts
    BY <1>1, <1>2, <1>3, <1>9 DEF ListOK
  <2>14. ListOK'
    <3>1. ASSUME NEW x \in Owed, row'[x.id].queued
          PROVE  /\ row'[x.id].user => x.user
                 /\ x \in flush.todo => row'[x.id].attempts <= x.attempts
      <4>0. x.id \in Message
        BY <1>1, FlushIs, EntryIs
      <4>1. CASE x.id = m
        <5>1. x = entry
          BY <1>1, <1>2, <1>3, <4>1 DEF ListOK
        <5>2. x \notin flush.todo
          BY <1>1, <1>2, <5>1 DEF ListOK
        <5>3. row[m].user => x.user
          BY <1>1, <1>9, <4>1 DEF ListOK
        <5> QED
          BY <2>8, <2>9, <4>1, <5>2, <5>3
      <4>2. CASE x.id # m
        BY <1>1, <2>9, <3>1, <4>0, <4>2 DEF ListOK
      <4> QED
        BY <4>1, <4>2
    <3> QED
      BY <1>1, <1>6, <1>7, <3>1 DEF ListOK
  <2>15. attempts > 0 => Delay(attempts - 1) <= elapsed + wait
    <3>1. ASSUME attempts > 0 PROVE Delay(attempts - 1) <= elapsed + wait
      <4>1. attempts - 1 \in Nat /\ attempts - 1 <= row[m].attempts
        BY <2>3, <2>5, <2>6, <3>1 DEF Least
      <4>2. attempts - 1 <= entry.attempts
        BY <1>4, <2>5, <2>13, <4>1
      <4>3. Delay(attempts - 1) <= delay /\ Delay(attempts - 1) \in Nat
        BY <1>4, <2>2, <4>1, <4>2, DelayGrows, DelayType
      <4>4. delay <= elapsed + wait
        BY <2>2, <2>4
      <4> QED
        BY <1>5, <2>3, <4>3, <4>4
    <3> QED
      BY <3>1
  <2>16. NotTooSoon'
    <3>1. ASSUME NEW n \in Message, row'[n].queued, row'[n].attempts > 0
          PROVE  since'[n] + row'[n].wait >= Delay(row'[n].attempts - 1)
      <4>1. CASE n = m
        <5>1. Delay(attempts - 1) <= elapsed + wait
          BY <2>8, <2>9, <2>15, <3>1, <4>1
        <5>2. attempts - 1 \in Nat
          BY <2>3, <2>6, <2>8, <2>9, <3>1, <4>1
        <5> QED
          BY <1>5, <2>3, <2>8, <2>9, <4>1, <5>1, <5>2, DelayType
      <4>2. CASE n # m
        BY <2>9, <3>1, <4>2 DEF NotTooSoon
      <4> QED
        BY <4>1, <4>2
    <3> QED
      BY <3>1 DEF NotTooSoon, Delay
  <2>17. NotTooLate'
    <3>1. ASSUME NEW n \in Message, row'[n].queued, row'[n].wait > 0
          PROVE  since'[n] + row'[n].wait <= MaxDelay
      <4>1. CASE n = m
        BY <1>5, <2>2, <2>3, <2>4, <2>8, <2>9, <3>1, <4>1
      <4>2. CASE n # m
        BY <2>9, <3>1, <4>2 DEF NotTooLate
      <4> QED
        BY <4>1, <4>2
    <3> QED
      BY <3>1 DEF NotTooLate
  <2> QED
    BY <2>12, <2>14, <2>16, <2>17
<1> QED
  BY <1>8, <1>9

(* A send is of the entry whose attempt was recorded; the next in the list has *)
(* its turn.                                                                   *)
LEMMA FlushSendStep ==
    ASSUME Inv, FlushSend
    PROVE  Inv'
<1> USE DEF Inv
<1>1. flush.on /\ flush \in FlushSet /\ UNCHANGED <<row, since, faults>>
  BY FlushIs DEF FlushSend
<1>2. NotTooSoon' /\ NotTooLate'
  BY <1>1 DEF NotTooSoon, NotTooLate
<1>3. aired' \in [Message -> BOOLEAN] /\ quiet' \in [Message -> 0 .. MaxDelay] /\ sent' \in [Message -> BOOLEAN]
  <2>1. 0 \in 0 .. MaxDelay
    BY Delays
  <2> QED
    BY <2>1 DEF FlushSend, TypeOK
<1>4. CASE flush' = NoFlush
  <2>1. TypeOK'
    BY <1>1, <1>3, <1>4 DEF TypeOK
  <2>2. ListOK'
    BY <1>4 DEF ListOK, NoFlush
  <2> QED
    BY <1>2, <2>1, <2>2
<1>5. ASSUME NEW next \in flush.todo, First(next, flush.todo),
             flush' = [flush EXCEPT !.recorded = FALSE, !.entry = next, !.todo = @ \ {next}]
      PROVE  Inv'
  <2>1. next \in Entries /\ next \in Owed
    BY <1>1, FlushIs DEF Owed
  <2>2. PICK todo \in SUBSET Entries : todo = flush.todo \ {next}
    BY <1>1 DEF FlushSet
  <2>3. flush' = [flush EXCEPT !.recorded = FALSE, !.entry = next, !.todo = todo]
    BY <1>5, <2>2
  <2>4. /\ flush' \in FlushSet /\ flush'.entry = next /\ flush'.todo = flush.todo \ {next}
        /\ ~flush'.recorded /\ flush'.on
    BY <1>1, <2>1, <2>2, <2>3 DEF FlushSet
  <2>5. TypeOK'
    BY <1>1, <1>3, <2>4 DEF TypeOK, FlushSet
  <2>6. Owed' = flush.todo /\ flush.todo \subseteq Owed
    BY <2>4 DEF Owed
  <2>7. ASSUME NEW x \in flush.todo, row[x.id].queued
        PROVE  (row[x.id].user => x.user) /\ row[x.id].attempts <= x.attempts
    BY <1>1, <2>6, <2>7 DEF ListOK
  <2>8. ~next.user => \A x \in flush.todo \ {next} : ~x.user
    BY <1>1, <1>5 DEF ListOK, First
  <2>9. ListOK'
    BY <1>1, <2>4, <2>6, <2>7, <2>8 DEF ListOK
  <2> QED
    BY <1>2, <2>5, <2>9
<1>6. flush' = NoFlush \/ \E next \in flush.todo :
          /\ First(next, flush.todo)
          /\ flush' = [flush EXCEPT !.recorded = FALSE, !.entry = next, !.todo = @ \ {next}]
  BY DEF FlushSend
<1> QED
  BY <1>4, <1>5, <1>6

(* Waits run down while the time since the last attempt runs up.               *)
LEMMA TickStep ==
    ASSUME Inv, Tick
    PROVE  Inv'
<1> USE DEF Inv
<1>1. /\ row' = [m \in Message |->
                    IF row[m].queued /\ row[m].wait > 0 THEN [row[m] EXCEPT !.wait = @ - 1] ELSE row[m]]
      /\ flush' = IF flush.on THEN [flush EXCEPT !.elapsed = Later(@)] ELSE flush
      /\ since' = [m \in Message |-> Later(since[m])] /\ quiet' = [m \in Message |-> Later(quiet[m])]
      /\ UNCHANGED <<aired, sent, faults>>
  BY DEF Tick
<1>2. MaxDelay \in Nat
  BY Delays
<1>3. \A t \in 0 .. MaxDelay : Later(t) \in 0 .. MaxDelay /\ Later(t) = IF t = MaxDelay THEN t ELSE t + 1
  BY <1>2 DEF Later, Least
<1>4. ASSUME NEW m \in Message
      PROVE  /\ row'[m] \in {NoRow} \cup Rows
             /\ row'[m].queued = row[m].queued
             /\ row[m].queued =>
                    /\ row'[m].user = row[m].user /\ row'[m].attempts = row[m].attempts
                    /\ row'[m].wait = IF row[m].wait > 0 THEN row[m].wait - 1 ELSE row[m].wait
  <2>1. CASE row[m].queued /\ row[m].wait > 0
    <3>1. row[m] \in Rows /\ row[m].wait \in 0 .. MaxDelay
      BY <2>1, RowIs
    <3>2. PICK wait \in 0 .. MaxDelay : wait = row[m].wait - 1
      BY <1>2, <2>1, <3>1
    <3>3. row'[m] = [row[m] EXCEPT !.wait = wait]
      BY <1>1, <2>1, <3>2
    <3>4. row'[m] \in Rows /\ row'[m].wait = wait /\ row'[m].user = row[m].user
          /\ row'[m].attempts = row[m].attempts /\ row'[m].queued = row[m].queued
      BY <3>1, <3>3 DEF Rows
    <3> QED
      BY <2>1, <3>2, <3>4
  <2>2. CASE ~(row[m].queued /\ row[m].wait > 0)
    <3>1. row'[m] = row[m]
      BY <1>1, <2>2
    <3>2. row[m] \in {NoRow} \cup Rows
      BY DEF TypeOK
    <3> QED
      BY <2>2, <3>1, <3>2
  <2> QED
    BY <2>1, <2>2
<1>5. \A m \in Message : since'[m] = IF since[m] = MaxDelay THEN since[m] ELSE since[m] + 1
  BY <1>1, <1>3 DEF TypeOK
<1>6. row' \in [Message -> {NoRow} \cup Rows]
  BY <1>1, <1>4
<1>7. since' \in [Message -> 0 .. MaxDelay] /\ quiet' \in [Message -> 0 .. MaxDelay]
  BY <1>1, <1>3 DEF TypeOK
<1>8. flush.on => /\ flush' \in FlushSet /\ flush'.entry = flush.entry /\ flush'.todo = flush.todo
                  /\ flush'.recorded = flush.recorded /\ flush'.on
  <2>1. ASSUME flush.on
        PROVE  /\ flush' \in FlushSet /\ flush'.entry = flush.entry /\ flush'.todo = flush.todo
               /\ flush'.recorded = flush.recorded /\ flush'.on
    <3>1. flush \in FlushSet /\ flush.elapsed \in 0 .. MaxDelay
      BY <2>1, FlushIs DEF FlushSet
    <3>2. PICK elapsed \in 0 .. MaxDelay : elapsed = Later(flush.elapsed)
      BY <1>3, <3>1
    <3>3. flush' = [flush EXCEPT !.elapsed = elapsed]
      BY <1>1, <2>1, <3>2
    <3> QED
      BY <3>1, <3>3 DEF FlushSet
  <2> QED
    BY <2>1
<1>9. ~flush.on => flush' = NoFlush
  BY <1>1, FlushIs
<1>10. TypeOK'
  BY <1>1, <1>6, <1>7, <1>8, <1>9 DEF TypeOK, FlushSet
<1>11. ListOK'
  <2>1. CASE ~flush.on
    BY <1>9, <2>1 DEF ListOK, NoFlush
  <2>2. CASE flush.on
    <3>1. Owed' = Owed
      BY <1>8, <2>2 DEF Owed
    <3>2. \A x \in Owed : x.id \in Message
      BY <2>2, FlushIs, EntryIs
    <3> QED
      BY <1>4, <1>8, <2>2, <3>1, <3>2 DEF ListOK
  <2> QED
    BY <2>1, <2>2
<1>12. NotTooSoon'
  <2>1. ASSUME NEW m \in Message, row'[m].queued, row'[m].attempts > 0
        PROVE  since'[m] + row'[m].wait >= Delay(row'[m].attempts - 1)
    <3>1. row[m].queued /\ row[m].wait \in Nat /\ row[m].attempts \in Nat /\ since[m] \in Nat /\ since[m] <= MaxDelay
      BY <1>4, <2>1, RowIs, SinceIs
    <3>2. row'[m].attempts = row[m].attempts /\ row[m].attempts > 0
      BY <1>4, <2>1, <3>1
    <3>3. PICK delay \in Nat : delay = Delay(row[m].attempts - 1) /\ delay <= MaxDelay
      <4>1. row[m].attempts - 1 \in Nat
        BY <3>1, <3>2
      <4> QED
        BY <4>1, DelayType
    <3>4. since[m] + row[m].wait >= delay
      BY <3>1, <3>2, <3>3 DEF NotTooSoon
    <3>5. since'[m] + row'[m].wait >= delay
      BY <1>2, <1>4, <1>5, <3>1, <3>3, <3>4
    <3> QED
      BY <3>2, <3>3, <3>5
  <2> QED
    BY <2>1 DEF NotTooSoon, Delay
<1>13. NotTooLate'
  <2>1. ASSUME NEW m \in Message, row'[m].queued, row'[m].wait > 0
        PROVE  since'[m] + row'[m].wait <= MaxDelay
    <3>1. row[m].queued /\ row[m].wait \in Nat /\ since[m] \in Nat /\ since[m] <= MaxDelay
      BY <1>4, <2>1, RowIs, SinceIs
    <3>2. row[m].wait > 0 /\ row'[m].wait = row[m].wait - 1
      BY <1>4, <2>1, <3>1
    <3>3. since[m] + row[m].wait <= MaxDelay
      BY <3>1, <3>2 DEF NotTooLate
    <3> QED
      BY <1>2, <1>5, <3>1, <3>2, <3>3
  <2> QED
    BY <2>1 DEF NotTooLate
<1> QED
  BY <1>10, <1>11, <1>12, <1>13

------------------------------------------------------------------------------
(* The theorems.                                                               *)

(* An empty outbox is in order.                                                *)
LEMMA InitInv == Init => Inv
<1> SUFFICES ASSUME Init PROVE Inv
  OBVIOUS
<1>1. MaxDelay \in 0 .. MaxDelay /\ 0 \in 0 .. MaxFaults
  BY Delays
<1>2. TypeOK
  BY <1>1 DEF Init, TypeOK
<1>3. ~flush.on /\ \A m \in Message : ~row[m].queued
  BY DEF Init, NoFlush, NoRow
<1> QED
  BY <1>2, <1>3 DEF Inv, ListOK, NotTooSoon, NotTooLate

(* The invariant of the schedule is inductive.                                 *)
THEOREM Invariance == Spec => []Inv
<1>1. Inv /\ [Next]_vars => Inv'
  <2> SUFFICES ASSUME Inv, [Next]_vars PROVE Inv'
    OBVIOUS
  <2>1. ASSUME NEW m \in Message, Publish(m) PROVE Inv'
    <3>1. aired' \in [Message -> BOOLEAN]
      BY <2>1 DEF Publish, Inv, TypeOK
    <3> QED
      BY <2>1, <3>1, InsertStep DEF Publish
  <2>2. ASSUME NEW m \in Message, Queue(m) PROVE Inv'
    <3>1. aired' \in [Message -> BOOLEAN]
      BY <2>2 DEF Queue, Inv, TypeOK
    <3> QED
      BY <2>2, <3>1, InsertStep DEF Queue
  <2>3. CASE Crash
    <3>1. faults' \in 0 .. MaxFaults
      BY <2>3, Delays DEF Crash, Inv, TypeOK
    <3>2. flush' = NoFlush /\ ~NoFlush.on /\ UNCHANGED <<row, aired, since, quiet, sent>>
      BY <2>3 DEF Crash, NoFlush, history
    <3>3. TypeOK'
      BY <3>1, <3>2 DEF Inv, TypeOK
    <3> QED
      BY <3>2, <3>3 DEF Inv, ListOK, NotTooSoon, NotTooLate
  <2>4. CASE UNCHANGED vars
    BY <2>4 DEF vars, Inv, TypeOK, ListOK, Owed, NotTooSoon, NotTooLate
  <2> QED
    BY <2>1, <2>2, <2>3, <2>4, AcknowledgeStep, FlushBeginStep, FlushRecordStep, FlushSendStep, TickStep
    DEF Next, Flush
<1> QED
  BY <1>1, InitInv, PTL DEF Spec

(* Rows, lists and histories keep their types: no wait is longer than          *)
(* retry_max.                                                                  *)
THEOREM TypeCorrect == Spec => []TypeOK
<1>1. Inv => TypeOK
  BY DEF Inv
<1> QED
  BY <1>1, Invariance, PTL

(* A row attempted k times waits the k-th delay, or longer, from the start of  *)
(* the flush that attempted it last, but no longer than retry_max              *)
(* (_retry_delay, record_attempt).                                             *)
THEOREM RowsBackOff == Spec => []BacksOff
<1>1. Inv => BacksOff
  BY DEF Inv, BacksOff
<1> QED
  BY <1>1, Invariance, PTL

(* A flush that sends background traffic has no user's row left to attempt     *)
(* (due_outbox, flush).                                                        *)
THEOREM UsersAreFirst == Spec => UserFirst
<1>1. Inv /\ [Next]_vars =>
          [FlushSend /\ ~flush.entry.user
              => \A entry \in flush.todo \cup {flush.entry} :
                     row[entry.id].queued => ~row[entry.id].user]_vars
  <2> SUFFICES ASSUME Inv, FlushSend, ~flush.entry.user,
                      NEW entry \in flush.todo \cup {flush.entry}, row[entry.id].queued
               PROVE  ~row[entry.id].user
    OBVIOUS
  <2>1. flush.on
    BY DEF FlushSend
  <2>2. ~entry.user
    BY <2>1 DEF Inv, ListOK
  <2> QED
    BY <2>1, <2>2 DEF Inv, ListOK, Owed
<1> QED
  BY <1>1, Invariance, PTL DEF Spec, UserFirst
==============================================================================
