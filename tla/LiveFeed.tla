------------------------------ MODULE LiveFeed ------------------------------
(***************************************************************************)
(* What the relay promises a viewer, without its store, sessions, channels *)
(* and replays: a stream is a growing run of durable objects, and a viewer *)
(* that opens it at some position is sent the objects from there on, one   *)
(* by one, none skipped, none repeated and none that is not durable yet,   *)
(* until its feed is closed.  (docs/architecture.md, "Native stream        *)
(* protocol" and "Retention and durability".)                              *)
(***************************************************************************)
EXTENDS Integers

CONSTANTS Streams, Viewers, None

VARIABLES
    mark,   \* mark[s]: every object of s through this sequence is durable
    feed,   \* feed[v]: the stream viewer v is fed, None before it is anchored
    due,    \* due[v]: the sequence viewer v is sent next
    done    \* done[v]: viewer v's feed is closed

feedVars == <<mark, feed, due, done>>

Init ==
    /\ mark = [s \in Streams |-> 0]
    /\ feed = [v \in Viewers |-> None]
    /\ due = [v \in Viewers |-> 0]
    /\ done = [v \in Viewers |-> FALSE]

Commit(s) ==
    /\ mark' = [mark EXCEPT ![s] = @ + 1]
    /\ UNCHANGED <<feed, due, done>>

\* A feed opens at a durable object or at the one that is committed next.
Open(v, s, anchor) ==
    /\ feed[v] = None /\ ~ done[v]
    /\ feed' = [feed EXCEPT ![v] = s]
    /\ due' = [due EXCEPT ![v] = anchor]
    /\ UNCHANGED <<mark, done>>

Deliver(v) ==
    /\ feed[v] # None /\ ~ done[v]
    /\ due[v] <= mark[feed[v]]
    /\ due' = [due EXCEPT ![v] = @ + 1]
    /\ UNCHANGED <<mark, feed, done>>

\* One feed ends, or all of them when the relay stops.
Close(V) ==
    /\ done' = [v \in Viewers |-> done[v] \/ v \in V]
    /\ UNCHANGED <<mark, feed, due>>

Next ==
    \/ \E s \in Streams : Commit(s)
    \/ \E v \in Viewers, s \in Streams :
            \E anchor \in 1 .. mark[s] + 1 : Open(v, s, anchor)
    \/ \E v \in Viewers : Deliver(v)
    \/ \E V \in SUBSET Viewers : Close(V)

Spec == Init /\ [][Next]_feedVars
=============================================================================
