----------------------------- MODULE ClientPool -----------------------------
(***************************************************************************)
(* What an AiegisClient promises while enter and close are alone on it: a  *)
(* pool of one shared httpx client, made by enter and gone after close,    *)
(* and a client of its own for each request that finds no shared one.  A   *)
(* request borrows its client and gives it back in one step each; what it  *)
(* borrowed stays open until then, and only its own is closed by it.       *)
(* AiegisClient: "safe to construct fresh per request or share across an   *)
(* SDK consumer's lifetime.  Underlying httpx.Client is created on demand  *)
(* and closed via context-manager or .close()".                            *)
(***************************************************************************)
CONSTANTS Threads, Clients, None

VARIABLES
    shared,     \* the client that enter made, or None
    alive,      \* the clients that are open
    lease       \* the client each thread's request has borrowed, or None

pvars == <<shared, alive, lease>>

Init ==
    /\ shared = None
    /\ alive = {}
    /\ lease = [t \in Threads |-> None]

NoLease == \A t \in Threads : lease[t] = None

Open ==
    /\ shared = None
    /\ NoLease
    /\ \E c \in Clients \ alive :
          /\ shared' = c
          /\ alive' = alive \cup {c}
    /\ UNCHANGED lease

Close ==
    /\ shared # None
    /\ NoLease
    /\ shared' = None
    /\ alive' = alive \ {shared}
    /\ UNCHANGED lease

BorrowShared(t) ==
    /\ lease[t] = None
    /\ shared # None
    /\ lease' = [lease EXCEPT ![t] = shared]
    /\ UNCHANGED <<shared, alive>>

BorrowOwn(t) ==
    /\ lease[t] = None
    /\ shared = None
    /\ \E c \in Clients \ alive :
          /\ lease' = [lease EXCEPT ![t] = c]
          /\ alive' = alive \cup {c}
    /\ UNCHANGED shared

GiveBack(t) ==
    /\ lease[t] # None
    /\ lease' = [lease EXCEPT ![t] = None]
    /\ alive' = alive \ ({lease[t]} \ {shared})
    /\ UNCHANGED shared

Next == Open \/ Close \/ \E t \in Threads : BorrowShared(t) \/ BorrowOwn(t) \/ GiveBack(t)
=============================================================================
