-------------------------- MODULE AcceptanceLedger --------------------------
(***************************************************************************)
(* What the verifiers promise an operator that handles one answer of a     *)
(* host at a time: a ledger in which an answer to one of its challenges is *)
(* held against the counter of the host and entered in one step.           *)
(* apple_se_assertion_verifier_reference.py: "OPERATOR provides ...        *)
(* last_known_counter: int -- monotonic counter from previous assertion".  *)
(***************************************************************************)
EXTENDS Integers

CONSTANTS Nonces, Hosts, Counts, FirstCounters, None

VARIABLES
    given,      \* the host each challenge went to
    last,       \* the counter entered last for each host
    taken       \* the answers entered, with their counters where they have one

lvars == <<given, last, taken>>

Entry(n, c) == [host |-> given[n], nonce |-> n, count |-> c]

Init ==
    /\ given = [n \in Nonces |-> None]
    /\ \E c \in FirstCounters : last = [h \in Hosts |-> c]
    /\ taken = {}

\* A challenge goes to one host, once.
Give(n, h) ==
    /\ given[n] = None
    /\ given' = [given EXCEPT ![n] = h]
    /\ UNCHANGED <<last, taken>>

TakeCounted(n, c) ==
    /\ given[n] # None
    /\ c > last[given[n]]
    /\ last' = [last EXCEPT ![given[n]] = c]
    /\ taken' = taken \cup {Entry(n, c)}
    /\ UNCHANGED given

\* A quote or a report has no counter: it may be entered again.
TakeUncounted(n) ==
    /\ given[n] # None
    /\ taken' = taken \cup {Entry(n, None)}
    /\ UNCHANGED <<given, last>>

Next ==
    \/ \E n \in Nonces, h \in Hosts : Give(n, h)
    \/ \E n \in Nonces : \E c \in Counts : TakeCounted(n, c)
    \/ \E n \in Nonces : TakeUncounted(n)
=============================================================================
