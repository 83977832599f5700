-------------------------- MODULE ComplianceBundle --------------------------
(***************************************************************************)
(* Compliance bundles (compliance-bundle/generator.py) and their wrapper   *)
(* in the SDK (sdk/aiegis_agent/compliance.py).                            *)
(*                                                                         *)
(* An office makes beacon events, builds signed bundles from them and      *)
(* sends each as JSON to a regulator, who verifies it under an operator's  *)
(* public key.  A built bundle refers to the caller's own policy dict,     *)
(* classifier_hits lists and attestation: build_bundle copies none of      *)
(* them, so an edit after the signature is an edit of the bundle.          *)
(*                                                                         *)
(* Data kept abstract: a policy dict is the four hashes build_bundle asks  *)
(* for, of which some may be missing, and the rest, of which it asks       *)
(* nothing; a key pair, its public half and what identifies it in a DID    *)
(* are one member of Keys; an Ed25519 signature is the key and the text    *)
(* that was signed.  Fields whose checks look at nothing else (lengths,    *)
(* control characters, "did:", time zones) are well formed or not, all of  *)
(* an event's or of a call's together.                                     *)
(***************************************************************************)
EXTENDS Integers, Sequences, FiniteSets

CONSTANTS
    Keys,           \* key pairs
    Dids,           \* the operator_did arguments: [tier, key]
    HitLists,       \* the classifier_hits lists the office holds
    HitValues,      \* what it puts into them
    Policies,       \* the policy_bundle dicts the office holds
    PolicyValues,   \* what it puts into them: [hashes, rest]
    Drafts,         \* the sequences of event arguments it reports
    Windows,        \* the pairs valid_from, valid_until
    BundleIds,      \* bundle ids: every build draws a new uuid
    MaxEvents,      \* MAX_EVENTS_PER_BUNDLE
    Absent          \* what is not there: a bundle, a proof, an id, a key

HashNames == {"rulesRsSha256", "libRsSha256", "policyJsonSha256", "binarySha256"}

Hashes == {"sha", "not a sha"}

VALID_DECISIONS == {"block", "warn", "allow"}

\* Data without number keys; with some; and what json.dumps refuses.
Contents == {"text keys", "number keys", "not JSON"}

ASSUME HitsAssumption == HitValues \subseteq Contents /\ HitValues # {}

ASSUME PolicyAssumption ==
    \A v \in PolicyValues :
        /\ v = [hashes |-> v.hashes, rest |-> v.rest]
        /\ v.hashes \in UNION {[H -> Hashes] : H \in SUBSET HashNames}
        /\ v.rest \in Contents

ASSUME DraftsAssumption ==
    \A s \in Drafts : s \in Seq({s[i] : i \in DOMAIN s}) /\ \A i \in DOMAIN s : s[i].hits \in HitLists

ASSUME BoundsAssumption == MaxEvents \in Nat

VARIABLES
    hits,       \* content of each classifier_hits list
    policy,     \* content of each policy_bundle dict
    bundles,    \* the bundles the office has built, by id
    edited,     \* history: bundles that refer to an object edited since
    received,   \* what the regulator parsed, by id
    last        \* the last call of the office and how it ended

bundleVars == <<hits, policy, bundles, edited, received, last>>

Outcomes == {"none", "ok", "ValueError", "TypeError", "ImportError", "IdentityError"}

-----------------------------------------------------------------------------
(* JSON *)

\* json.dumps(sort_keys=True) orders number keys as numbers and writes them as
\* text; they are read back as text, which is ordered otherwise.
Parsed == [v \in Contents |-> IF v = "number keys" THEN "keys once numbers" ELSE v]

DataText ==
    [v \in Contents \cup {"keys once numbers"} |->
        CASE v = "number keys"       -> "keys in numeric order"
          [] v = "keys once numbers" -> "keys in text order"
          [] OTHER                   -> v]

WithHits(f, e) == [e EXCEPT !.hits = f[@]]

MapHits(f, payload) ==
    [payload EXCEPT !.entries = [i \in DOMAIN @ |-> WithHits(f, @[i])]]

MapRest(f, v) == [v EXCEPT !.rest = f[@]]

MapData(f, payload) == [MapHits(f, payload) EXCEPT !.policy = MapRest(f, @)]

\* Mutant: the attestation's link in @context is not part of what is signed.
WithoutContext(payload) == MapData(DataText, [payload EXCEPT !.substrate = FALSE])

Canonicalize(payload) == MapData(DataText, payload)

Serialisable(payload) ==
    /\ payload.policy.rest # "not JSON"
    /\ \A i \in DOMAIN payload.entries : payload.entries[i].hits # "not JSON"

\* What a payload says now: the references to the office's objects followed.
Content(payload) == [MapHits(hits, payload) EXCEPT !.policy = policy[@]]

-----------------------------------------------------------------------------
(* build_bundle *)

\* Mutant: any text will do as a decision.
AnyDecision(e) == e.wellFormed

\* BeaconEvent.__post_init__
ValidEvent(e) == e.wellFormed /\ e.decision \in VALID_DECISIONS

DuplicateIds(s) == \E i, j \in DOMAIN s : i # j /\ s[i].id = s[j].id

\* Mutant: the tier is checked, the link to the private key is not.
TierOnly(a) == a.did.tier = "operator" /\ a.priv \in Keys

\* The DID is one of the operator tier and derives from the private key.
Linked(a) == a.did.tier = "operator" /\ a.priv \in Keys /\ a.did.key = a.priv

\* The four hashes are there and look like hashes; other keys are let in.
FourHashes(v) == HashNames \subseteq DOMAIN v.hashes /\ \A h \in HashNames : v.hashes[h] # "not a sha"

\* The checks in their order; each raises ValueError.
Buildable(a) ==
    /\ Len(a.events) <= MaxEvents
    /\ a.wellFormed
    /\ ~ DuplicateIds(a.events)
    /\ Linked(a)
    /\ a.window[1] < a.window[2]
    /\ FourHashes(policy[a.policy])

Count(s, d) == Cardinality({i \in DOMAIN s : s[i].decision = d})

\* The vocabulary of the attestation is linked from @context, which is signed;
\* the attestation itself goes into the proof, which is not.
Payload(a, b) ==
    [id |-> b, issuer |-> a.did, window |-> a.window, substrate |-> a.attested,
     entries |-> [i \in DOMAIN a.events |->
                    [id |-> a.events[i].id, decision |-> a.events[i].decision,
                     hits |-> a.events[i].hits]],
     policy |-> a.policy,
     count |-> Len(a.events),
     breakdown |-> [d \in VALID_DECISIONS |-> Count(a.events, d)]]

\* Mutant: the attestation's vocabulary is linked after the signature.
ProofBeforeContext(a, b) ==
    [value |-> "signature", key |-> a.priv, attested |-> a.attested,
     text |-> Canonicalize([Content(Payload(a, b)) EXCEPT !.substrate = FALSE])]

Proof(a, b) ==
    [value |-> "signature", key |-> a.priv, attested |-> a.attested,
     text |-> Canonicalize(Content(Payload(a, b)))]

-----------------------------------------------------------------------------
(* verify_bundle *)

\* A signature that is not 64 bytes long makes _crypto.verify raise the same
\* IdentityError as a public key that is not 32 bytes long.
VerifyRaises(r, k) == k \notin Keys \/ r.proof.value = "short"

\* VerifyFailReason, in the order of the checks.
Verify(r, k) ==
    IF r.proof = Absent THEN "missing_proof"
    ELSE CASE r.proof.value = "missing"     -> "missing_proof_value"
           [] r.proof.value = "not hex"     -> "invalid_proof_hex"
           [] r.proof.value \in {"signature", "short"} ->
                IF ~ Serialisable(r.payload) THEN "canonicalization_failed"
                ELSE IF VerifyRaises(r, k)   THEN "invalid_key_format"
                ELSE IF r.proof.key = k /\ r.proof.text = Canonicalize(r.payload)
                     THEN "ok" ELSE "signature_invalid"
-----------------------------------------------------------------------------
(* The office. *)

BundleInit ==
    /\ hits \in [HitLists -> HitValues]
    /\ policy \in [Policies -> PolicyValues]
    /\ bundles = [b \in BundleIds |-> Absent]
    /\ edited = {}
    /\ received = [b \in BundleIds |-> Absent]
    /\ last = [call |-> "none", good |-> FALSE, result |-> "none"]

Returns(c, good, r) == last' = [call |-> c, good |-> good, result |-> r]

\* The events are made first; then the checks of build_bundle, then the
\* signature, for which everything must be JSON.
BuildResult(a) ==
    IF (\E i \in DOMAIN a.events : ~ ValidEvent(a.events[i])) \/ ~ Buildable(a) THEN "ValueError"
    ELSE IF ~ Serialisable(Content(Payload(a, Absent))) THEN "TypeError"
    ELSE "ok"

\* Bound: the office calls build_bundle while an id is left.
IdLeft == \E b \in BundleIds : bundles[b] = Absent

Build(a) ==
    /\ IdLeft
    /\ \/ /\ BuildResult(a) = "ok"
          /\ \E b \in {c \in BundleIds : bundles[c] = Absent} :
                bundles' = [bundles EXCEPT ![b] = [payload |-> Payload(a, b),
                                                   proof |-> Proof(a, b)]]
          /\ Returns("build_bundle", TRUE, "ok")
       \/ /\ BuildResult(a) # "ok"
          /\ Returns("build_bundle", FALSE, BuildResult(a))
          /\ UNCHANGED bundles
    /\ UNCHANGED <<hits, policy, edited, received>>

\* AIEGIS_COMPLIANCE_PATH, if it is set, must exist, or the module cannot be
\* imported; a generator that is not found anywhere is reported by the call.
HasCompliance(env, found) == env # "missing" /\ found

\* The wrapper signs with the key in the agent's slot, k, for the agent's DID;
\* load_private_key raises IdentityError if there is none.
ForAgent(a, tier, k) == [a EXCEPT !.did = [tier |-> tier, key |-> k], !.priv = k]

\* All that the caller of the wrapper answers for is as build_bundle wants it.
GoodArguments(a, k) == BuildResult(ForAgent(a, "operator", k)) = "ok"

BuildForAgent(a, k, env, found) ==
    /\ IdLeft
    /\ \/ /\ ~ HasCompliance(env, found)
          /\ Returns("build_compliance_bundle", FALSE, "ImportError")
       \/ /\ HasCompliance(env, found) /\ k = Absent
          /\ Returns("build_compliance_bundle", FALSE, "IdentityError")
       \/ /\ HasCompliance(env, found) /\ k # Absent
          /\ Returns("build_compliance_bundle", GoodArguments(a, k),
                     BuildResult(ForAgent(a, "agent", k)))
    /\ UNCHANGED <<hits, policy, bundles, edited, received>>

\* The office goes on to use its objects, for the next report.
EditHits(h, v) ==
    /\ hits[h] # v
    /\ hits' = [hits EXCEPT ![h] = v]
    /\ edited' = edited \cup
          {b \in BundleIds : bundles[b] # Absent /\
              \E i \in DOMAIN bundles[b].payload.entries :
                  bundles[b].payload.entries[i].hits = h}
    /\ Returns("none", FALSE, "none")
    /\ UNCHANGED <<policy, bundles, received>>

EditPolicy(q, v) ==
    /\ policy[q] # v
    /\ policy' = [policy EXCEPT ![q] = v]
    /\ edited' = edited \cup
          {b \in BundleIds : bundles[b] # Absent /\ bundles[b].payload.policy = q}
    /\ Returns("none", FALSE, "none")
    /\ UNCHANGED <<hits, bundles, received>>

\* A bundle as the office's own verify_bundle sees it.
AtHand(b) == [payload |-> Content(bundles[b].payload), proof |-> bundles[b].proof]

\* json.dumps and json.loads, and what may happen to the document between
\* them: nothing, a correction by hand, a proof that is cut, an attestation that
\* is lost or added, with or without its link in @context.
Handled(doc) ==
    LET Attested(proof) == [proof EXCEPT !.attested = ~ @] IN
    {doc} \cup [payload : {[doc.payload EXCEPT !.entries = <<>>, !.count = 0]}, proof : {doc.proof}]
          \cup [payload : {doc.payload},
                proof : {Absent} \cup {[doc.proof EXCEPT !.value = v] : v \in {"missing", "not hex", "short"}}
                               \cup {Attested(doc.proof)}]
          \cup [payload : {[doc.payload EXCEPT !.substrate = ~ @]}, proof : {Attested(doc.proof)}]

Send(b) ==
    /\ bundles[b] # Absent
    /\ received[b] = Absent
    /\ Serialisable(AtHand(b).payload)
    /\ \E doc \in Handled([payload |-> MapData(Parsed, AtHand(b).payload),
                           proof |-> bundles[b].proof]) :
          received' = [received EXCEPT ![b] = [payload |-> doc.payload, proof |-> doc.proof,
                          fresh |-> b \notin edited /\ doc.payload = MapData(Parsed, AtHand(b).payload)
                                        /\ doc.proof = bundles[b].proof]]
    /\ Returns("none", FALSE, "none")
    /\ UNCHANGED <<hits, policy, bundles, edited>>

Arguments(keys, dids) ==
    [events : Drafts, priv : keys, did : dids, window : Windows,
     wellFormed : BOOLEAN, policy : Policies, attested : BOOLEAN]

BundleNext ==
    \/ \E a \in Arguments(Keys \cup {"short"}, Dids) : Build(a)
    \/ \E a \in Arguments({Absent}, {Absent}), k \in Keys \cup {Absent} :
          \E env \in {"unset", "exists", "missing"}, found \in BOOLEAN :
             BuildForAgent(a, k, env, found)
    \/ \E h \in HitLists, v \in HitValues : EditHits(h, v)
    \/ \E q \in Policies, v \in PolicyValues : EditPolicy(q, v)
    \/ \E b \in BundleIds : Send(b)

BundleSpec == BundleInit /\ [][BundleNext]_bundleVars
-----------------------------------------------------------------------------
EventIds == UNION {{s[i].id : i \in DOMAIN s} : s \in Drafts}

Entries(H) == [id : EventIds, decision : VALID_DECISIONS, hits : H]

\* Payloads with hits of H: lists, what is in lists, or texts; and policies of P.
Payloads(H, P) ==
    [id : BundleIds \cup {Absent}, issuer : Dids, window : Windows, substrate : BOOLEAN,
     entries : Seq(Entries(H)), policy : P,
     count : Nat, breakdown : [VALID_DECISIONS -> Nat]]

PoliciesWith(D) == [hashes : {v.hashes : v \in PolicyValues}, rest : D]

CanonicalTexts == {DataText[v] : v \in DOMAIN DataText}

Proofs == [value : {"signature"}, key : Keys, attested : BOOLEAN,
           text : Payloads(CanonicalTexts, PoliciesWith(CanonicalTexts))]

Bundles == [payload : Payloads(HitLists, Policies), proof : Proofs]

ASSUME AbsentAssumption == Absent \notin Proofs /\ Absent \notin Keys

(***************************************************************************)
(* The type invariant: among others, that only events made by BeaconEvent  *)
(* and DIDs of the operator tier get into a bundle.                        *)
(***************************************************************************)
BundleTypeOK ==
    /\ hits \in [HitLists -> HitValues]
    /\ policy \in [Policies -> PolicyValues]
    /\ bundles \in [BundleIds -> Bundles \cup {Absent}]
    /\ edited \subseteq {b \in BundleIds : bundles[b] # Absent}
    /\ \A b \in BundleIds : bundles[b] # Absent =>
          bundles[b].payload.id = b /\ bundles[b].payload.issuer.tier = "operator"
    /\ \A b \in BundleIds : received[b] # Absent => bundles[b] # Absent
    /\ last.result \in Outcomes

Complete(payload) ==
    /\ payload.issuer.tier = "operator"
    /\ FourHashes(payload.policy)
    /\ \A i, j \in DOMAIN payload.entries :
          payload.entries[i].id = payload.entries[j].id => i = j
    /\ payload.window[1] < payload.window[2]
    /\ payload.count = Len(payload.entries)
    /\ payload.count = payload.breakdown["block"] + payload.breakdown["warn"]
                          + payload.breakdown["allow"]

(***************************************************************************)
(* What the regulator accepts can be relied on: whatever was edited or     *)
(* lost after the signature, a bundle that verifies under a key has that   *)
(* key's operator DID as issuer, four policy hashes that are hashes, no    *)
(* event twice, a window of some length, and counts that add up.           *)
(***************************************************************************)
AcceptedIsComplete ==
    \A b \in BundleIds, k \in Keys :
        received[b] # Absent /\ Verify(received[b], k) = "ok" =>
            Complete(received[b].payload) /\ received[b].payload.issuer.key = k

NumberKeys(b) ==
    \/ policy[bundles[b].payload.policy].rest = "number keys"
    \/ \E i \in DOMAIN bundles[b].payload.entries :
          hits[bundles[b].payload.entries[i].hits] = "number keys"

(***************************************************************************)
(* No false alarm: a bundle none of whose objects the office has edited    *)
(* since the build verifies under the key of its issuer, at hand and after *)
(* it went through JSON, unless the hits, or the policy under a key that   *)
(* build_bundle does not ask for, have number keys.                        *)
(***************************************************************************)
UneditedVerifies ==
    \A b \in BundleIds : bundles[b] # Absent /\ b \notin edited =>
        /\ Verify(AtHand(b), bundles[b].payload.issuer.key) = "ok"
        /\ received[b] # Absent /\ received[b].fresh /\ ~ NumberKeys(b) =>
              Verify(received[b], bundles[b].payload.issuer.key) = "ok"

(***************************************************************************)
(* The attestation is in the proof, which nothing signs, but its link in   *)
(* @context is signed: in a bundle that verifies the two agree exactly if  *)
(* the attestation was neither lost nor added on the way.                  *)
(***************************************************************************)
AttestationAccountedFor ==
    \A b \in BundleIds, k \in Keys :
        received[b] # Absent /\ Verify(received[b], k) = "ok" =>
            (received[b].proof.attested = received[b].payload.substrate
                <=> received[b].proof.attested = bundles[b].proof.attested)

(***************************************************************************)
(* The docstring of build_compliance_bundle: "Build a signed Article 50    *)
(* Compliance Bundle on behalf of an Agent.  The Agent's keypair is used   *)
(* to sign".  With arguments that build_bundle accepts it returns one.     *)
(***************************************************************************)
AgentsCanBuild ==
    last.call = "build_compliance_bundle" /\ last.good => last.result = "ok"
=============================================================================
