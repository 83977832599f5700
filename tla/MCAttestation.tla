--------------------------- MODULE MCAttestation ---------------------------
(***************************************************************************)
(* An instance of Attestation for TLC: a host of each kind, and other      *)
(* hosts that answer in the place of the one that was asked.               *)
(***************************************************************************)
EXTENDS Attestation, TLC

CONSTANTS phone, twin, tablet, server, rack, vm, bare, n1, short, w1, w2

AllSystems ==
    [h \in Hosts |-> CASE h \in {phone, twin, tablet} -> "Darwin arm64"
                       [] h = server                  -> "Windows"
                       [] h = bare                    -> "Darwin x86_64"
                       [] OTHER                       -> "Linux"]

AllNodes ==
    [h \in Hosts |-> CASE h = rack -> {"tpm0", "tdx_guest"}
                       [] h = vm   -> {"sev-guest"}
                       [] OTHER    -> {}]

\* The server's challenge reaches a host of its own kind and one of another.
Neighbours ==
    [h \in Enrolled |-> CASE h = phone  -> {phone, twin, tablet}
                          [] h = server -> {server, rack, phone}
                          [] OTHER      -> {h}]

Images == [h \in Hosts |-> "image"]

\* The rack's key is certified by an authority that the operator does not know.
Issuers == [c \in Hosts \cup Certs |-> IF c \in {rack, "EK"} THEN "EK" ELSE "root"]

\* The same, and the root has certified that authority.
IssuersOfTwo == [c \in Hosts \cup Certs |-> IF c = rack THEN "EK" ELSE "root"]

Roots == [h \in Hosts |-> "root"]

Lengths == n1 :> 32 @@ short :> 16

\* The twin's counter wraps with its second assertion.
Counts == [h \in Hosts |-> IF h = twin THEN 1 ELSE 0]

MinusOne == {-1}

Alike == Permutations(Workers) \cup Permutations(Agents)
=============================================================================
