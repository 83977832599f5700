-------------------------- MODULE IdentityRegistry --------------------------
(***************************************************************************)
(* What the identity store promises its callers, with both stores, every   *)
(* step of a call and every caller left out: a directory of agents in      *)
(* which an entry appears whole, never changes while it is there, and may  *)
(* lose its private key once and for all.  README.md of the SDK:           *)
(* "Idempotent: creates on first call, loads on subsequent calls".         *)
(***************************************************************************)
CONSTANTS Names, Paths, PathOf, Keys, Ops, None

VARIABLES
    entry,      \* the agent registered at each path, or None
    usable,     \* whether the private key of that agent can be used
    issued      \* the keys (hence DIDs) ever registered

rvars == <<entry, usable, issued>>

Agents == [name : Names, key : Keys, op : Ops \cup {None}]

Init ==
    /\ entry = [q \in Paths |-> None]
    /\ usable = [q \in Paths |-> FALSE]
    /\ issued = {}

\* A new agent gets a DID that nobody ever had.  Its key may be gone already:
\* a keychain can be wiped while create() is writing the sidecar.
Enrol(a) ==
    /\ PathOf[a.name] \in Paths
    /\ entry[PathOf[a.name]] = None
    /\ a.key \notin issued
    /\ entry' = [entry EXCEPT ![PathOf[a.name]] = a]
    /\ \E b \in BOOLEAN : usable' = [usable EXCEPT ![PathOf[a.name]] = b]
    /\ issued' = issued \cup {a.key}

LoseKey(q) ==
    /\ usable[q]
    /\ usable' = [usable EXCEPT ![q] = FALSE]
    /\ UNCHANGED <<entry, issued>>

Forget(q) ==
    /\ entry[q] # None
    /\ entry' = [entry EXCEPT ![q] = None]
    /\ usable' = [usable EXCEPT ![q] = FALSE]
    /\ UNCHANGED issued

Next ==
    \/ \E a \in Agents : Enrol(a)
    \/ \E q \in Paths : LoseKey(q) \/ Forget(q)

Spec == Init /\ [][Next]_rvars
=============================================================================
