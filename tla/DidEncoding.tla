---------------------------- MODULE DidEncoding ----------------------------
(***************************************************************************)
(* derive_did and the base58 encoder below it                              *)
(* (sdk/aiegis_agent/_crypto.py), one step per turn of the encoder's loop. *)
(*                                                                         *)
(* Data kept abstract: 256 and 58 are constants, a digit stands for its    *)
(* character, and a DID is its tier and the digits after "z".              *)
(***************************************************************************)
EXTENDS Integers, Sequences

CONSTANTS
    Base,           \* 256
    Radix,          \* 58
    Multicodec,     \* <<237, 1>>
    KeyLength,      \* 32
    MaxPayload,     \* longest payload of other calls of the encoder
    Nothing

Byte == 0 .. Base - 1

PayloadOf(length) == [1 .. length -> Byte]

ASSUME EncodingAssumption ==
    /\ Base \in Nat /\ Radix \in Nat /\ Radix > 1
    /\ KeyLength \in Nat /\ MaxPayload \in Nat
    /\ Multicodec \in Seq(Byte) /\ Multicodec # <<>> /\ Multicodec[1] # 0

VARIABLES
    call,       \* what the encoder was called for
    at,         \* where it is
    n,          \* the number that is left
    out,        \* the digits so far
    done,       \* what the call returned; Nothing if it raised IdentityError
    before      \* history: a call that derived a DID before, and what it returned

encVars == <<call, at, n, out, done, before>>

Tiers == {"agent", "operator", "registry"}

NoCall == [tier |-> Nothing, payload |-> <<>>]

EncInit ==
    /\ call = NoCall
    /\ at = "idle"
    /\ n = 0
    /\ out = <<>>
    /\ done = Nothing
    /\ before = Nothing

\* int.from_bytes(payload, "big"), and the same for digits.
Number(s, b) ==
    LET upTo[i \in 0 .. Len(s)] == IF i = 0 THEN 0 ELSE upTo[i - 1] * b + s[i]
    IN  upTo[Len(s)]

Start(tier, payload) ==
    /\ call' = [tier |-> tier, payload |-> payload]
    /\ at' = "divide"
    /\ n' = Number(payload, Base)
    /\ out' = <<>>
    /\ done' = Nothing
    /\ before' = IF done # Nothing /\ call.tier # Nothing THEN [call |-> call, done |-> done] ELSE before

\* _base58btc_encode, for anybody.
Encode(payload) == at = "idle" /\ Start(Nothing, payload)

DeriveDid(key, tier) ==
    /\ at = "idle"
    /\ IF tier \in Tiers /\ Len(key) = KeyLength
       THEN Start(tier, Multicodec \o key)
       ELSE done' = Nothing /\ UNCHANGED <<call, at, n, out, before>>

\* Mutant: a number of one digit ends the loop.
TwoDigitsLeft(k) == k >= Radix

DigitsLeft(k) == k > 0

Divide ==
    /\ at = "divide"
    /\ DigitsLeft(n)
    /\ n' = n \div Radix
    /\ out' = <<n % Radix>> \o out
    /\ UNCHANGED <<call, at, done, before>>

\* Bytes before the first that is not zero.
LeadingZeros(s) == CHOOSE k \in 0 .. Len(s) :
    /\ \A i \in 1 .. k : s[i] = 0
    /\ k < Len(s) => s[k + 1] # 0

Ones(k) == [i \in 1 .. k |-> 0]

\* Mutant: the tier is left out.
DidOfKey(tier, text) == [tier |-> "agent", text |-> text]

\* "did:aiegis:<tier>:z<text>"; the encoder alone returns the text.
Did(tier, text) == [tier |-> tier, text |-> text]

\* "1" is the digit 0: one for each leading zero byte.
Finish ==
    LET text == Ones(LeadingZeros(call.payload)) \o out IN
    /\ at = "divide"
    /\ ~ DigitsLeft(n)
    /\ at' = "idle"
    /\ done' = Did(call.tier, text)
    /\ UNCHANGED <<call, n, out, before>>

EncNext ==
    \/ \E length \in 0 .. MaxPayload : \E payload \in PayloadOf(length) : Encode(payload)
    \/ \E length \in {KeyLength - 1, KeyLength, KeyLength + 1} :
          \E key \in PayloadOf(length), tier \in Tiers \cup {"auditor"} : DeriveDid(key, tier)
    \/ Divide
    \/ Finish

EncSpec == EncInit /\ [][EncNext]_encVars
-----------------------------------------------------------------------------
(***************************************************************************)
(* A decoder for reference: the payload of a text is the one with as many  *)
(* zero bytes in front as the text has digits 0, and the same number.      *)
(***************************************************************************)
Decodes(text, payload) ==
    /\ LeadingZeros(payload) = LeadingZeros(text)
    /\ Number(payload, Base) = Number(text, Radix)

(***************************************************************************)
(* The encoder loses nothing: what it returns decodes to the payload, the  *)
(* empty one and those that begin with zero bytes included.                *)
(***************************************************************************)
DecodesBack ==
    at = "idle" /\ done # Nothing =>
        /\ \A i \in DOMAIN done.text : done.text[i] \in 0 .. Radix - 1
        /\ Decodes(done.text, call.payload)

(***************************************************************************)
(* Two keys never have one DID, nor has one key one DID in two tiers: what *)
(* a bundle's issuer and a binding's operator are told apart by.           *)
(***************************************************************************)
DidsTellApart ==
    at = "idle" /\ done # Nothing /\ call.tier # Nothing /\ before # Nothing /\ before.done = done =>
        before.call = call
=============================================================================
