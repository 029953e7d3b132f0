----------------------------- MODULE MCSyncNodes -----------------------------
(* Instances of SyncNodes for TLC.  Every post belongs to thread t; identifiers *)
(* are ordered t, p, u.                                                        *)
EXTENDS SyncNodes

CONSTANTS a, b, c, t, u, p

MCThreadOf == [x \in Post |-> t]
MCIdOrder == [x \in Object |-> CASE x = t -> 1 [] x = p -> 2 [] OTHER -> 3]

\* Who calls request_sync, once each.
MCSyncByA == [n \in Node |-> IF n = a THEN 1 ELSE 0]
MCSyncByNone == [n \in Node |-> 0]
==============================================================================
