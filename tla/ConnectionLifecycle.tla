------------------------ MODULE ConnectionLifecycle ------------------------
(***************************************************************************)
(* What the keep-alive pool promises of each connection, without vectors,   *)
(* keys, sockets or locks: a connection is opened for one user, may be      *)
(* parked and taken again by one user at a time, is closed for good, and    *)
(* may be parked only in the epoch in which it was opened.  A flush closes  *)
(* every parked connection and starts a new epoch.                          *)
(***************************************************************************)
EXTENDS Integers

CONSTANT Conns

VARIABLES
    status,   \* by connection
    epoch,    \* by connection, the epoch in which it was opened
    current   \* the present epoch

lifecycle == <<status, epoch, current>>

LifecycleInit ==
    /\ status = [c \in Conns |-> "unused"]
    /\ epoch = [c \in Conns |-> 0]
    /\ current = 0

Open(c) ==
    /\ status[c] = "unused"
    /\ status' = [status EXCEPT ![c] = "leased"]
    /\ epoch' = [epoch EXCEPT ![c] = current]
    /\ UNCHANGED current

Parked(c) ==
    /\ status[c] = "leased"
    /\ epoch[c] = current
    /\ status' = [status EXCEPT ![c] = "idle"]
    /\ UNCHANGED <<epoch, current>>

Taken(c) ==
    /\ status[c] = "idle"
    /\ status' = [status EXCEPT ![c] = "leased"]
    /\ UNCHANGED <<epoch, current>>

Closed(c) ==
    /\ status[c] = "leased"
    /\ status' = [status EXCEPT ![c] = "closed"]
    /\ UNCHANGED <<epoch, current>>

Flush ==
    /\ current' = current + 1
    /\ status' = [c \in Conns |-> IF status[c] = "idle" THEN "closed" ELSE status[c]]
    /\ UNCHANGED epoch

LifecycleNext ==
    \/ \E c \in Conns : Open(c) \/ Parked(c) \/ Taken(c) \/ Closed(c)
    \/ Flush

LifecycleSpec == LifecycleInit /\ [][LifecycleNext]_lifecycle
=============================================================================
