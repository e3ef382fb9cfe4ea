----------------------------- MODULE SlotQueue -----------------------------
(***************************************************************************)
(* What the kernel command CCB promises, without its ring, its counters    *)
(* and its lock: a queue of at most Capacity commands that the firmware    *)
(* executes in the order they were sent, places in it that are reserved    *)
(* beforehand, and clients without a place served in the order they came.  *)
(* Kccb implements it.                                                     *)
(***************************************************************************)
EXTENDS Naturals, Sequences, FiniteSets

CONSTANTS
    Clients,   \* whoever sends commands
    Capacity   \* how many commands and reservations there can be at once

VARIABLES
    queue,     \* the commands not yet executed, named by their sender
    reserved,  \* the clients that hold a place
    waiting    \* the clients that wait for one, oldest first

svars == <<queue, reserved, waiting>>

SlotQueueInit ==
    /\ queue = <<>>
    /\ reserved = {}
    /\ waiting = <<>>

HasRoom == Len(queue) + Cardinality(reserved) < Capacity

IsWaiting(c) == \E i \in DOMAIN waiting : waiting[i] = c

\* A client takes a place, possibly past those that wait.
Reserve(c) ==
    /\ HasRoom
    /\ c \notin reserved
    /\ ~IsWaiting(c)
    /\ reserved' = reserved \cup {c}
    /\ UNCHANGED <<queue, waiting>>

\* A client waits, only when there is no room.
Wait(c) ==
    /\ ~HasRoom
    /\ c \notin reserved
    /\ ~IsWaiting(c)
    /\ waiting' = Append(waiting, c)
    /\ UNCHANGED <<queue, reserved>>

\* The oldest waiter takes a place.
Grant ==
    /\ HasRoom
    /\ waiting # <<>>
    /\ reserved' = reserved \cup {Head(waiting)}
    /\ waiting' = Tail(waiting)
    /\ UNCHANGED queue

Release(c) ==
    /\ c \in reserved
    /\ reserved' = reserved \ {c}
    /\ UNCHANGED <<queue, waiting>>

\* A command takes the place its client reserved.
Enqueue(c) ==
    /\ c \in reserved
    /\ queue' = Append(queue, c)
    /\ reserved' = reserved \ {c}
    /\ UNCHANGED waiting

Execute ==
    /\ queue # <<>>
    /\ queue' = Tail(queue)
    /\ UNCHANGED <<reserved, waiting>>

SlotQueueNext ==
    \/ \E c \in Clients : Reserve(c) \/ Wait(c) \/ Release(c) \/ Enqueue(c)
    \/ Grant
    \/ Execute

SlotQueueSpec == SlotQueueInit /\ [][SlotQueueNext]_svars
=============================================================================
