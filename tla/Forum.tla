-------------------------------- MODULE Forum --------------------------------
(* What the synchronization of forums promises, with no message in sight: each *)
(* node holds a set of immutable objects; an object appears at one node (its   *)
(* author's), is copied from nodes that hold it, never disappears, and a post  *)
(* is never at a node that lacks its thread.  SyncNodes implements this.       *)

CONSTANTS Node, Thread, Post, ThreadOf

VARIABLE held     \* held[n]: the threads and posts in node n's database

Object == Thread \cup Post

\* A post needs its thread in the same database; a thread needs nothing.
HasItsThread(n, o) == o \in Post => ThreadOf[o] \in held[n]

Init == held = [n \in Node |-> {}]

\* A user authors o at n: 96-bit random identifiers make o new everywhere.
Create(n, o) ==
    /\ \A m \in Node : o \notin held[m]
    /\ HasItsThread(n, o)
    /\ held' = [held EXCEPT ![n] = @ \cup {o}]

\* n obtains o, which some other node holds.
Copy(n, o) ==
    /\ o \notin held[n]
    /\ \E m \in Node : o \in held[m]
    /\ HasItsThread(n, o)
    /\ held' = [held EXCEPT ![n] = @ \cup {o}]

Next == \E n \in Node, o \in Object : Create(n, o) \/ Copy(n, o)

Spec == Init /\ [][Next]_held
==============================================================================
