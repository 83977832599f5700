---------------------------- MODULE BindingProof ----------------------------
(***************************************************************************)
(* substrate-pack/binding_proof_reference.py: the operator signs that a    *)
(* logical agent runs on an attested host; whoever has the proof and the   *)
(* operator's public key can check it.                                     *)
(*                                                                         *)
(* A DID of a host is its tier and its name.  A text field is well formed  *)
(* or Malformed.  hash_attestation_blob has no collisions: a hash is what  *)
(* was hashed.  An Ed25519 signature is the key and the message.           *)
(***************************************************************************)
EXTENDS Integers

CONSTANTS
    Window,         \* freshness_window_seconds
    NoDid,          \* a DID the caller does not pass
    Malformed,      \* a field that the constructors refuse
    NoDate          \* a time that looks like one to them and does not parse

ASSUME WindowAssumption == Window \in Nat

\* The tiers the constructor accepts in host_substrate_did.
SubstrateTiers == {"tpm", "apple-se", "tee"}

\* BindingProofInput.__post_init__
WellFormedInput(i) ==
    /\ i.agent # Malformed
    /\ i.substrate.tier \in SubstrateTiers
    /\ i.blob # Malformed
    /\ i.nonce # Malformed
    /\ i.time # Malformed

\* BindingProof.__post_init__: the same fields, the operator's DID, and a
\* signature as long as the cryptosuite says; only Ed25519's is ever made.
WellFormedProof(p) ==
    /\ WellFormedInput(p.input)
    /\ p.operator # Malformed
    /\ p.suite = "eddsa-rdfc-2022"

\* Mutant: the message leaves the time of the binding out.
MessageWithoutTime(i, operator) == [input |-> [i EXCEPT !.time = 0], operator |-> operator]

\* _canonical_message
CanonicalMessage(i, operator) == [input |-> i, operator |-> operator]

\* generate_binding_proof
GenerateBindingProof(i, key, operator) ==
    [input |-> i, operator |-> operator, suite |-> "eddsa-rdfc-2022",
     signature |-> [key |-> key, message |-> CanonicalMessage(i, operator)]]

SignatureValid(p, key) ==
    p.signature = [key |-> key, message |-> CanonicalMessage(p.input, p.operator)]

TimestampFresh(t, now) == t \notin {Malformed, NoDate} /\ now - t \in 0 .. Window

\* A DID the caller does not pass is not compared.
Matches(given, did) == given = NoDid \/ given = did

\* verify_binding_proof.  The attestation's hash is signed and not compared.
VerifyBindingProof(p, key, substrate, operator, now) ==
    /\ SignatureValid(p, key)
    /\ TimestampFresh(p.input.time, now)
    /\ Matches(operator, p.operator)
    /\ Matches(substrate, p.input.substrate)
=============================================================================
