---------------------------- MODULE Attestation ----------------------------
(***************************************************************************)
(* The substrate pack at work: an operator challenges hosts, its workers   *)
(* map and verify the answers, it binds agents to the hosts it accepted,   *)
(* and a regulator verifies the bindings.                                  *)
(*                                                                         *)
(* The functions of SubstratePack and BindingProof keep no state.  The     *)
(* challenges, the counter of the last assertion, the operator's key and   *)
(* the way of the answers are the callers'; they follow what the verifiers *)
(* ask of them: OPERATOR provides expected_nonce and last_known_counter.   *)
(* A worker reads the counter, verifies, and stores the new one: between   *)
(* the first and the last, other workers do the same.                      *)
(***************************************************************************)
EXTENDS SubstratePack, BindingProof, FiniteSets

CONSTANTS
    Enrolled,       \* the hosts whose keys and certificates the operator has on file
    Reaches,        \* for each of them, the hosts to which its challenge may come
    Workers,        \* the operator's threads
    Agents,         \* logical agents, by DID
    OperatorKeys,           \* operator keys, in the order 1, 2, ... they are used
    StartCount,     \* how often each enclave has signed before the first challenge
    FirstCounters,  \* what operators pass as last_known_counter of a host never seen
    MaxTime, AnswerBudget, ProofBudget,     \* bounds of the instance
    BindLast        \* a bound as well: all answers are handled before the first proof

ASSUME AttestationAssumption ==
    /\ Enrolled \subseteq Hosts
    /\ Reaches \in [Enrolled -> SUBSET Hosts]
    /\ StartCount \in [Hosts -> 0 .. SignCountMax]
    /\ FirstCounters \subseteq Int
    /\ OperatorKeys \subseteq Nat \ {0} /\ 1 \in OperatorKeys
    /\ {MaxTime, AnswerBudget, ProofBudget} \subseteq Nat
    /\ BindLast \in BOOLEAN
    /\ Malformed # "operator"

VARIABLES
    now,        \* hours of the common clock
    asked,      \* the host each nonce went to
    count,      \* each host's signature counter
    answers,    \* attestations on their way: they may arrive late, twice, never
    first,      \* what this operator passes for a host never seen
    known,      \* the counter the operator has stored for each host
    worker,     \* what each worker is about
    accepted,   \* history: the answers accepted, with their nonce
    replayed,   \* history: answers accepted that had been accepted before
    serial,     \* history: no two workers have handled one host at a time
    opKey,      \* the key the operator's DID resolves to
    proofs,     \* history: the binding proofs the operator signed
    verdict     \* the binding proof a regulator has just found valid

operatorVars == <<first, known, worker, accepted, replayed, serial>>
bindingVars  == <<opKey, proofs>>
vars == <<now, asked, count, answers, operatorVars, bindingVars, verdict>>

Operator == "operator"

Idle == [pc |-> "idle", nonce |-> None, answer |-> None, known |-> 0]

\* The operator has seen no host; a secure enclave may have signed for others.
Init ==
    /\ now = 0
    /\ asked = [n \in Nonces |-> None]
    /\ count = StartCount
    /\ answers = {}
    /\ first \in FirstCounters
    /\ known = [h \in Hosts |-> first]
    /\ worker = [w \in Workers |-> Idle]
    /\ accepted = {}
    /\ replayed = {}
    /\ serial = TRUE
    /\ opKey = 1
    /\ proofs = {}
    /\ verdict = None

-----------------------------------------------------------------------------
(* Challenges and answers *)

Open == BindLast => proofs = {}

Challenge(n, h) ==
    /\ Open
    /\ asked[n] = None
    /\ asked' = [asked EXCEPT ![n] = h]
    /\ verdict' = None
    /\ UNCHANGED <<now, count, answers, operatorVars, bindingVars>>

\* The host that was asked, or another that has heard of the challenge, runs the
\* acquirer of the repository.
Acquire(n, h, allowNone) ==
    LET got == Acquired(h, n, allowNone)
    IN  /\ Open
        /\ asked[n] # None
        /\ h \in Reaches[asked[n]]
        /\ Cardinality(answers) < AnswerBudget
        /\ answers' = answers \cup ({got} \ {None, SubstrateError, RuntimeError})
        /\ verdict' = None
        /\ UNCHANGED <<now, asked, count, operatorVars, bindingVars>>

\* It runs its vendor's tool; a secure enclave counts its assertions.
Attest(n, h) ==
    LET c == (count[h] + 1) % (SignCountMax + 1)
    IN  /\ Open
        /\ asked[n] # None
        /\ h \in Reaches[asked[n]]
        /\ Kind(h) # "None"
        /\ Cardinality(answers) < AnswerBudget
        /\ count' = [count EXCEPT ![h] = c]
        /\ answers' = answers \cup {Genuine(h, n, c)}
        /\ verdict' = None
        /\ UNCHANGED <<now, asked, operatorVars, bindingVars>>

\* An answer arrives as it was sent, without a field its mapper looks for,
\* or in bytes that do not parse.
Arriving(a) ==
    {a, [a EXCEPT !.quote.whole = FALSE],
     IF a.substrate = "AppleSeSubstrate" THEN [a EXCEPT !.signature = None]
                                         ELSE [a EXCEPT !.claimed = None]}

-----------------------------------------------------------------------------
(* The operator's workers *)

Load(w, n, a) ==
    /\ Open
    /\ worker[w] = Idle
    /\ asked[n] # None
    /\ worker' = [worker EXCEPT ![w] = [pc |-> "loaded", nonce |-> n, answer |-> a,
                                        known |-> known[asked[n]]]]
    /\ serial' = (serial /\ \A v \in Workers :
                     worker[v] # Idle => asked[worker[v].nonce] # asked[n])
    /\ verdict' = None
    /\ UNCHANGED <<now, asked, count, answers, first, known, accepted, replayed, bindingVars>>

\* The mapper and the verifier, in one expression of the worker's.
Decide(w) ==
    LET at == worker[w]
        h  == asked[at.nonce]
        r  == CheckAttestation(at.answer, h, at.nonce, at.known)
        ok == r # SubstrateError /\ r.valid
        it == [nonce |-> at.nonce, answer |-> at.answer]
    IN  /\ at.pc = "loaded"
        /\ accepted' = IF ok THEN accepted \cup {it} ELSE accepted
        /\ replayed' = IF ok /\ it \in accepted THEN replayed \cup {it} ELSE replayed
        /\ worker' = [worker EXCEPT ![w] = IF ok /\ r.counter >= 0
                                           THEN [at EXCEPT !.pc = "verified", !.known = r.counter]
                                           ELSE Idle]
        /\ verdict' = None
        /\ UNCHANGED <<now, asked, count, answers, first, known, serial, bindingVars>>

Store(w) ==
    /\ worker[w].pc = "verified"
    /\ known' = [known EXCEPT ![asked[worker[w].nonce]] = worker[w].known]
    /\ worker' = [worker EXCEPT ![w] = Idle]
    /\ verdict' = None
    /\ UNCHANGED <<now, asked, count, answers, first, accepted, replayed, serial, bindingVars>>

-----------------------------------------------------------------------------
(* Binding proofs *)

Tier(h) ==
    CASE Kind(h) = "TpmSubstrate"     -> "tpm"
      [] Kind(h) = "AppleSeSubstrate" -> "apple-se"
      [] OTHER                        -> "tee"

SubstrateDid(h) == [tier |-> Tier(h), host |-> h]

Bind(it, agent) ==
    LET i == [agent |-> agent, substrate |-> SubstrateDid(asked[it.nonce]),
              blob |-> it.answer, time |-> now, nonce |-> it.nonce]
    IN  /\ Cardinality(proofs) < ProofBudget
        /\ BindLast => \A w \in Workers : worker[w] = Idle
        /\ WellFormedInput(i)
        /\ proofs' = proofs \cup {GenerateBindingProof(i, opKey, Operator)}
        /\ verdict' = None
        /\ UNCHANGED <<now, asked, count, answers, operatorVars, opKey>>

RotateKey ==
    /\ proofs # {}
    /\ opKey + 1 \in OperatorKeys
    /\ opKey' = opKey + 1
    /\ verdict' = None
    /\ UNCHANGED <<now, asked, count, answers, operatorVars, proofs>>

\* Bound: the DIDs that come up are those of hosts the operator has asked.
HostDids == {SubstrateDid(h) : h \in {asked[n] : n \in Nonces} \ {None}}

\* A proof as the regulator reads it: as it was signed, or with one field set by
\* hand.  The hash is of another answer the operator had accepted.
Presented(p) ==
    {p} \cup {[p EXCEPT !.input.time = t] : t \in 0 .. MaxTime \cup {Malformed, NoDate}}
        \cup {[p EXCEPT !.input.agent = g] : g \in Agents \cup {Malformed}}
        \cup {[p EXCEPT !.input.blob = b] : b \in {it.answer : it \in accepted} \cup {Malformed}}
        \cup {[p EXCEPT !.input.nonce = n] : n \in Nonces \cup {Malformed}}
        \cup {[p EXCEPT !.input.substrate = d] : d \in HostDids}
        \cup {[p EXCEPT !.input.substrate.tier = "none"], [p EXCEPT !.operator = "other operator"],
              [p EXCEPT !.suite = "eddsa-ml-dsa-65-hybrid-2026"]}

\* Mutant: the proof is read from the bundle without its constructor.
CheckAsParsed(p, substrate, operator) ==
    /\ verdict' = IF VerifyBindingProof(p, opKey, substrate, operator, now) THEN p ELSE None
    /\ UNCHANGED <<now, asked, count, answers, operatorVars, bindingVars>>

\* The regulator resolves the operator's DID and names the bundle's DIDs or not.
CheckBinding(p, substrate, operator) ==
    /\ verdict' = IF /\ WellFormedProof(p)
                     /\ VerifyBindingProof(p, opKey, substrate, operator, now)
                  THEN p ELSE None
    /\ UNCHANGED <<now, asked, count, answers, operatorVars, bindingVars>>

Tick ==
    /\ proofs # {}
    /\ now < MaxTime
    /\ now' = now + 1
    /\ verdict' = None
    /\ UNCHANGED <<asked, count, answers, operatorVars, bindingVars>>

Next ==
    \/ \E n \in Nonces, h \in Enrolled : Challenge(n, h)
    \/ \E n \in Nonces, h \in Hosts, none \in BOOLEAN : Acquire(n, h, none)
    \/ \E n \in Nonces, h \in Hosts : Attest(n, h)
    \/ \E w \in Workers, n \in Nonces, a \in UNION {Arriving(b) : b \in answers} : Load(w, n, a)
    \/ \E w \in Workers : Decide(w)
    \/ \E w \in Workers : Store(w)
    \/ \E it \in accepted, agent \in Agents : Bind(it, agent)
    \/ RotateKey
    \/ \E p \in UNION {Presented(q) : q \in proofs}, o \in {NoDid, Operator},
          s \in {NoDid} \cup HostDids : CheckBinding(p, s, o)
    \/ Tick

Spec == Init /\ [][Next]_vars
-----------------------------------------------------------------------------
WorkerStates ==
    [pc : {"loaded", "verified"}, nonce : Nonces, answer : Attestations, known : Int]

Accepts == [nonce : Nonces, answer : Attestations]

(***************************************************************************)
(* Every variable has its type, and a proof that was signed or found valid *)
(* has passed its constructor.                                             *)
(***************************************************************************)
TypeOK ==
    /\ now \in Nat
    /\ asked \in [Nonces -> Enrolled \cup {None}]
    /\ count \in [Hosts -> 0 .. SignCountMax]
    /\ answers \subseteq Attestations
    /\ first \in FirstCounters
    /\ known \in [Hosts -> Int]
    /\ worker \in [Workers -> {Idle} \cup WorkerStates]
    /\ accepted \subseteq Accepts
    /\ replayed \subseteq accepted
    /\ serial \in BOOLEAN
    /\ opKey \in OperatorKeys
    /\ \A p \in proofs : WellFormedProof(p)
    /\ verdict # None => WellFormedProof(verdict)

\* The hardware of the host that was asked, or of some device, has signed an
\* answer to the challenge.
Vouched(a, n, h) ==
    /\ a.quote.nonce = n
    /\ \/ /\ a.substrate = "TpmSubstrate"
          /\ a.signature = [key |-> h, quote |-> a.quote]
          /\ a.quote.measured = Image[h] /\ a.claimed = Image[h]
       \/ /\ a.substrate = "AppleSeSubstrate"
          /\ a.signature = [key |-> a.key, quote |-> a.quote]
          /\ a.key \in Registered /\ Kind(a.key) = "AppleSeSubstrate"

(***************************************************************************)
(* What the operator accepts answers the challenge it is held against, and *)
(* hardware has signed it.  A TPM quote comes from the host that was asked,*)
(* although others answer its challenge, and is over what that host's      *)
(* hardware measured.  An App Attest assertion comes from a device of the  *)
(* registered app: from which one is not said, for the key it is verified  *)
(* with is the one it brings.  Nothing else is accepted, no stub of the    *)
(* acquirer and no report of a confidential VM.                            *)
(***************************************************************************)
AcceptedAnswersItsChallenge ==
    \A it \in accepted :
        asked[it.nonce] # None /\ Vouched(it.answer, it.nonce, asked[it.nonce])

(***************************************************************************)
(* As long as the operator handles one answer of a host at a time, it      *)
(* accepts no App Attest assertion twice, though answers arrive twice and  *)
(* a nonce stays good.                                                     *)
(***************************************************************************)
AssertionsCountOnce ==
    serial => \A it \in replayed : it.answer.substrate # "AppleSeSubstrate"

(***************************************************************************)
(* As long as the operator handles one answer of a host at a time, the     *)
(* counter it stores only rises, although answers arrive out of order and  *)
(* the hardware's counter is 32 bits wide and wraps.                       *)
(***************************************************************************)
StoredCountersRise ==
    [][serial' => \A h \in Hosts : known'[h] >= known[h]]_vars

\* The ledger's view of a host and of what was accepted: a counter that a worker
\* has still to store is entered already.
PendingCounts(h) ==
    {worker[w].known : w \in {v \in Workers : worker[v].pc = "verified" /\ asked[worker[v].nonce] = h}}

LastCounts ==
    [h \in Hosts |-> IF PendingCounts(h) = {} THEN known[h] ELSE CHOOSE c \in PendingCounts(h) : TRUE]

CountOf(a) == IF a.substrate = "AppleSeSubstrate" THEN a.quote.count ELSE None

Taken ==
    {[host |-> asked[it.nonce], nonce |-> it.nonce, count |-> CountOf(it.answer)] : it \in accepted}

Ledger == INSTANCE AcceptanceLedger WITH
    Counts <- 0 .. SignCountMax, given <- asked, last <- LastCounts, taken <- Taken

(***************************************************************************)
(* As long as the operator handles one answer of a host at a time, its     *)
(* load, verify and store come to one step of AcceptanceLedger: whatever   *)
(* other workers do for other hosts between them, each accepted assertion  *)
(* was compared with the counter that it then replaces, and no acceptance  *)
(* is lost or entered under another host.                                  *)
(***************************************************************************)
IsLedger == Ledger!Init /\ [][serial' => Ledger!Next]_(Ledger!lvars)

\* An answer as some host's hardware made it, for the challenge it is held against.
AsMade(it) == \E h \in Hosts, c \in 0 .. SignCountMax : it.answer = Genuine(h, it.nonce, c)

\* The host's certificate is issued by an EK's, and that by the vendor root.
ChainOfTwo(h) == Issuer[h] # VendorRoot[h] /\ Issuer[Issuer[h]] = VendorRoot[h]

\* What the code refuses and its comments do not: see the two properties below.
Disputed(it) ==
    \/ it.answer.substrate = "AppleSeSubstrate" /\ first < 0
    \/ it.answer.substrate = "TpmSubstrate" /\ ChainOfTwo(asked[it.nonce])

Eligible(it) ==
    LET h == asked[it.nonce]
        a == it.answer
    IN  CASE a.substrate = "AppleSeSubstrate" ->
                /\ a.key \in Registered
                /\ NonceBytes[it.nonce] >= 16
                /\ first < a.quote.count
                /\ \A old \in accepted :
                      asked[old.nonce] = h /\ old.answer.substrate = "AppleSeSubstrate"
                         => old.answer.quote.count < a.quote.count
          [] a.substrate = "TpmSubstrate" ->
                /\ a.key = h
                /\ Issuer[h] = VendorRoot[h] /\ Issuer[VendorRoot[h]] = VendorRoot[h]
                /\ NonceBytes[it.nonce] = 32
          [] OTHER -> FALSE

(***************************************************************************)
(* Nothing genuine is refused without a cause.  As long as the operator    *)
(* handles one answer of a host at a time, an answer that arrives as some  *)
(* host's hardware made it, for the challenge it is held against, is       *)
(* accepted exactly                                                        *)
(*   - if it is an assertion of the registered app, the challenge has 16   *)
(*     bytes at least, and for the host that was asked no assertion with   *)
(*     this count or a later one has been accepted, so that one lost or    *)
(*     refused answer stops no later one;                                  *)
(*   - if it is the asked host's TPM quote, its key is certified by the    *)
(*     root the operator passes, which certifies itself, and the challenge *)
(*     has 32 bytes;                                                       *)
(*   - never, if it is the report of a confidential VM, whose chain the    *)
(*     reference refuses until a vendor's library takes its place.         *)
(* Left to the two properties below are the answers that the repository    *)
(* speaks of otherwise: those to an operator that starts hosts from -1,    *)
(* and those whose key an EK certifies.                                    *)
(***************************************************************************)
RefusedForCause ==
    [][\A w \in Workers :
         LET it == [nonce |-> worker[w].nonce, answer |-> worker[w].answer]
         IN  /\ serial /\ worker[w].pc = "loaded" /\ worker'[w].pc # "loaded"
             /\ AsMade(it) /\ ~ Disputed(it) /\ it \notin accepted
             => (it \in accepted' <=> Eligible(it))]_vars

(***************************************************************************)
(* "validates the chain: TPM_QUOTE_INFO (signed by AIK) -> AIK cert        *)
(* (signed by EK) -> EK cert (signed by TPM vendor root)"                  *)
(* (tpm_quote_verifier_reference.py:8-9): the asked host's own quote for a *)
(* challenge of 32 bytes passes, where such a chain leads to the root that *)
(* the operator passes.                                                    *)
(***************************************************************************)
KeyChainsAreFollowed ==
    \A w \in Workers :
        LET at == worker[w]
            h  == asked[at.nonce]
        IN  /\ at.pc = "loaded" /\ AsMade(at)
            /\ at.answer.substrate = "TpmSubstrate" /\ at.answer.key = h
            /\ ChainOfTwo(h) /\ NonceBytes[at.nonce] = 32
            => Passes(at.answer, h, at.nonce, at.known)

(***************************************************************************)
(* "monotonic counter from previous assertion (or -1)"                     *)
(* (apple_se_assertion_verifier_reference.py:30): the first assertion of a *)
(* device passes, held against -1, for a challenge of 16 bytes at least.   *)
(***************************************************************************)
MinusOneStartsAHost ==
    \A w \in Workers :
        LET at == worker[w]
        IN  /\ at.pc = "loaded" /\ AsMade(at)
            /\ at.answer.substrate = "AppleSeSubstrate" /\ at.answer.key \in Registered
            /\ at.known = -1 /\ NonceBytes[at.nonce] >= 16
            => Passes(at.answer, asked[at.nonce], at.nonce, at.known)

(***************************************************************************)
(* A binding the regulator finds valid was signed by the operator with the *)
(* key its DID resolves to now, as it is presented, no longer ago than the *)
(* window, for a host whose answer it had accepted and whose DID it names. *)
(***************************************************************************)
ValidBindingTracesBack ==
    verdict # None =>
        /\ \E p \in proofs :
              /\ p.input = verdict.input
              /\ p.operator = verdict.operator
              /\ p.signature.key = opKey
              /\ now - p.input.time \in 0 .. Window
        /\ \E it \in accepted :
              /\ it.answer = verdict.input.blob
              /\ it.nonce = verdict.input.nonce
              /\ SubstrateDid(asked[it.nonce]) = verdict.input.substrate
=============================================================================
