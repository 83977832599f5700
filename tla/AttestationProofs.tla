------------------------- MODULE AttestationProofs -------------------------
(***************************************************************************)
(* Proofs about Attestation, for any number of hosts, workers, challenges  *)
(* and answers: what is accepted answers its challenge, counters only rise,*)
(* no assertion counts twice and no genuine answer is refused without a    *)
(* cause while answers of a host are handled one at a time, and a valid    *)
(* binding traces back to an accepted answer.                              *)
(***************************************************************************)
EXTENDS Attestation, TLAPS

-----------------------------------------------------------------------------
(* The inductive invariant *)

\* If there is a signature, the hardware of the host whose key an answer brings
\* made it.
Made(a) ==
    /\ a \in Attestations
    /\ a.signature \notin {None, Zeros} =>
          \E h \in Hosts, n \in Nonces, c \in 0 .. SignCountMax :
              /\ a.signature = Genuine(h, n, c).signature
              /\ a.key = h /\ a.substrate = Kind(h)

AnswersInv ==
    /\ \A a \in answers : Made(a)
    /\ \A w \in Workers : worker[w] # Idle =>
           Made(worker[w].answer) /\ asked[worker[w].nonce] # None

\* The host a worker is busy with.
At(w) == asked[worker[w].nonce]

\* What the strict comparison of counters gives while workers keep apart.
SerialInv ==
    serial =>
        /\ \A v, w \in Workers : v # w /\ worker[v] # Idle /\ worker[w] # Idle => At(v) # At(w)
        /\ \A w \in Workers : worker[w].pc = "loaded" => worker[w].known = known[At(w)]
        /\ \A w \in Workers : worker[w].pc = "verified" => worker[w].known >= known[At(w)]
        /\ \A it \in accepted : it.answer.substrate = "AppleSeSubstrate" =>
              \/ it.answer.quote.count <= known[asked[it.nonce]]
              \/ \E w \in Workers : /\ worker[w].pc = "verified"
                                    /\ At(w) = asked[it.nonce]
                                    /\ it.answer.quote.count <= worker[w].known

\* A proof is what the operator signed about an answer it had accepted.
Traced(i) ==
    \E it \in accepted : /\ it.answer = i.blob
                         /\ it.nonce = i.nonce
                         /\ SubstrateDid(asked[it.nonce]) = i.substrate

ProofsInv ==
    \A p \in proofs : \E i, k : p = GenerateBindingProof(i, k, Operator) /\ Traced(i)

AttestationInv ==
    /\ TypeOK
    /\ AnswersInv
    /\ AcceptedAnswersItsChallenge
    /\ SerialInv
    /\ AssertionsCountOnce
    /\ ProofsInv
    /\ ValidBindingTracesBack

-----------------------------------------------------------------------------
(* The functions of the pack *)

\* Fields of the right types make an attestation.
LEMMA AttestationRecord ==
    ASSUME NEW u \in Substrates, NEW m \in Measurements, NEW h \in Hosts, NEW q \in Quotes,
           NEW v \in {None, "intel-tdx", "amd-sev-snp", "IntelTdx", "AmdSevSnp"},
           NEW g \in {None, Zeros} \cup [key : Hosts, quote : Quotes]
    PROVE  LET a == [substrate |-> u, vendor |-> v, quote |-> q, claimed |-> m, key |-> h,
                     signature |-> g]
           IN  a \in Attestations /\ a.quote = q /\ a.key = h /\ a.signature = g
<1> DEFINE a == [substrate |-> u, vendor |-> v, quote |-> q, claimed |-> m, key |-> h,
                 signature |-> g]
<1>1. a.quote = q /\ a.key = h /\ a.signature = g
  OBVIOUS
<1>2. m \in Measurements \cup {None}
  OBVIOUS
<1>3. a \in Attestations
  BY <1>2 DEF Attestations
<1> QED BY <1>1, <1>3

\* The acquirer's answer is an attestation that nobody signed.
LEMMA StubMade ==
    ASSUME NEW h \in Hosts, NEW n \in Nonces, Kind(h) # "None"
    PROVE  Made(Stub(h, n))
<1>1. DetectSubstrate(h) \in
          {Detected("AppleSeSubstrate", None), Detected("TpmSubstrate", None), Detected("None", None),
           Detected("TeeSubstrate", "intel-tdx"), Detected("TeeSubstrate", "amd-sev-snp")}
  BY DEF DetectSubstrate, OnLinux
<1>2. Kind(h) \in Substrates
  BY <1>1 DEF Kind, Detected, Substrates
<1>3. DetectSubstrate(h).vendor \in {None, "intel-tdx", "amd-sev-snp"}
  BY <1>1 DEF Detected
<1>4. StubVendor(DetectSubstrate(h).vendor) \in {None, "intel-tdx", "amd-sev-snp", "IntelTdx", "AmdSevSnp"}
  BY <1>3 DEF StubVendor
<1>5. Quote(n, "placeholder", 1, "aiegis.ie", h) \in Quotes
  <2>1. "placeholder" \in Measurements
    BY HostsAssumption
  <2>2. 1 \in 0 .. SignCountMax
    BY NumbersAssumption
  <2> QED BY <2>1, <2>2 DEF Quote, Quotes
<1> DEFINE q == Quote(n, "placeholder", 1, "aiegis.ie", h)
<1>6. q \in Quotes
  BY <1>5
<1>7. Stub(h, n) =
        [substrate |-> Kind(h), vendor |-> StubVendor(DetectSubstrate(h).vendor), quote |-> q,
         claimed |-> "placeholder", key |-> h, signature |-> Zeros]
  BY DEF Stub
<1> HIDE DEF q
<1>8. "placeholder" \in Measurements /\ Zeros \in {None, Zeros} \cup [key : Hosts, quote : Quotes]
  BY HostsAssumption
<1>9. Stub(h, n) \in Attestations /\ Stub(h, n).signature = Zeros
  BY <1>2, <1>4, <1>6, <1>7, <1>8, AttestationRecord
<1> QED BY <1>9 DEF Made

\* The vendor's tool's is one that the host's hardware signed.
LEMMA GenuineMade ==
    ASSUME NEW h \in Hosts, NEW n \in Nonces, NEW c \in 0 .. SignCountMax, Kind(h) # "None"
    PROVE  /\ Genuine(h, n, c) \in Attestations
           /\ Genuine(h, n, c).quote.nonce = n
           /\ Genuine(h, n, c).quote.agent = h
           /\ Genuine(h, n, c).key = h
           /\ Made(Genuine(h, n, c))
<1>1. DetectSubstrate(h) \in
          {Detected("AppleSeSubstrate", None), Detected("TpmSubstrate", None), Detected("None", None),
           Detected("TeeSubstrate", "intel-tdx"), Detected("TeeSubstrate", "amd-sev-snp")}
  BY DEF DetectSubstrate, OnLinux
<1>2. Kind(h) \in Substrates
  BY <1>1 DEF Kind, Detected, Substrates
<1>3. DetectSubstrate(h).vendor \in {None, "intel-tdx", "amd-sev-snp"}
  BY <1>1 DEF Detected
<1> DEFINE q == Quote(n, Image[h], c, IF h \in Registered THEN "aiegis.ie" ELSE "other app", h)
<1>5. q \in Quotes /\ q.nonce = n /\ q.agent = h
  BY HostsAssumption DEF Quote, Quotes
<1>6. Genuine(h, n, c) =
        [substrate |-> Kind(h), vendor |-> DetectSubstrate(h).vendor, quote |-> q,
         claimed |-> Image[h], key |-> h, signature |-> [key |-> h, quote |-> q]]
  BY DEF Genuine
<1> HIDE DEF q
<1>7. Image[h] \in Measurements
  BY HostsAssumption
<1>8. [key |-> h, quote |-> q] \in {None, Zeros} \cup [key : Hosts, quote : Quotes]
  BY <1>5
<1>9. /\ Kind(h) \in Substrates
      /\ DetectSubstrate(h).vendor \in {None, "intel-tdx", "amd-sev-snp", "IntelTdx", "AmdSevSnp"}
  BY <1>2, <1>3
<1>10. /\ Genuine(h, n, c) \in Attestations
       /\ Genuine(h, n, c).quote = q /\ Genuine(h, n, c).key = h
  BY <1>5, <1>6, <1>7, <1>8, <1>9, AttestationRecord
<1>11. Genuine(h, n, c).substrate = Kind(h)
  BY <1>6
<1>12. Made(Genuine(h, n, c))
  BY <1>10, <1>11 DEF Made
<1> QED BY <1>5, <1>10, <1>12

\* What arrives has the signature of what was sent, or none.
LEMMA HandledMade ==
    ASSUME NEW b, NEW a \in Arriving(b), Made(b)
    PROVE  Made(a)
<1>1. b \in Attestations /\ b.quote \in Quotes
  BY DEF Made, Attestations
<1>2. CASE a = b
  BY <1>2
<1>3. CASE a = [b EXCEPT !.signature = None]
  <2>1. a \in Attestations /\ a.signature = None
    BY <1>1, <1>3 DEF Attestations
  <2> QED BY <2>1 DEF Made
<1>4. CASE a = [b EXCEPT !.claimed = None]
  <2>1. a \in Attestations /\ a.signature = b.signature /\ a.key = b.key /\ a.substrate = b.substrate
    BY <1>1, <1>4 DEF Attestations
  <2> QED BY <2>1 DEF Made
<1>5. CASE a = [b EXCEPT !.quote.whole = FALSE]
  <2> DEFINE q == [b.quote EXCEPT !.whole = FALSE]
  <2>1. q \in Quotes
    BY <1>1 DEF Quotes
  <2>2. a = [b EXCEPT !.quote = q]
    BY <1>1, <1>5 DEF Attestations
  <2> HIDE DEF q
  <2>3. a \in Attestations /\ a.signature = b.signature /\ a.key = b.key /\ a.substrate = b.substrate
    BY <1>1, <2>1, <2>2 DEF Attestations
  <2> QED BY <2>3 DEF Made
<1> QED BY <1>2, <1>3, <1>4, <1>5 DEF Arriving

\* What a signature that fits says of the host that made it.
LEMMA SignedByHardware ==
    ASSUME NEW a, Made(a), NEW k \in Hosts, Signed(k, a)
    PROVE  /\ a.key = k /\ a.substrate = Kind(k)
           /\ a.quote.measured = Image[k]
           /\ a.quote.rp = "aiegis.ie" => k \in Registered
<1>1. a.signature = [key |-> k, quote |-> a.quote]
  BY DEF Signed
<1>2. a.signature \in [key : Hosts, quote : Quotes]
  BY <1>1 DEF Made, Attestations
<1>3. a.signature \notin {None, Zeros}
  BY <1>2, SentinelAssumption
<1>4. PICK h \in Hosts, n \in Nonces, c \in 0 .. SignCountMax :
          a.signature = Genuine(h, n, c).signature /\ a.key = h /\ a.substrate = Kind(h)
  BY <1>3 DEF Made
<1> PICK q : q = Quote(n, Image[h], c, IF h \in Registered THEN "aiegis.ie" ELSE "other app", h)
  OBVIOUS
<1>5. a.signature = [key |-> h, quote |-> q]
  BY <1>4 DEF Genuine
<1>6. h = k /\ a.quote = q
  <2>1. [key |-> k, quote |-> a.quote] = [key |-> h, quote |-> q]
    BY <1>1, <1>5
  <2> QED BY ONLY <2>1
<1>7. q.measured = Image[h] /\ (q.rp = "aiegis.ie" => h \in Registered)
  BY DEF Quote
<1> QED BY <1>4, <1>6, <1>7

\* What a verifier accepts was signed by the hardware it has to be from.
LEMMA AcceptanceSound ==
    ASSUME NEW a, Made(a), NEW n \in Nonces, NEW h \in Hosts, NEW k,
           NEW r, r = CheckAttestation(a, h, n, k), r # SubstrateError, r.valid
    PROVE  /\ Vouched(a, n, h)
           /\ \/ r.counter = -1 /\ a.substrate # "AppleSeSubstrate"
              \/ /\ r.counter = a.quote.count /\ a.quote.count > k
                 /\ a.substrate = "AppleSeSubstrate"
<1>1. a \in Attestations /\ a.quote \in Quotes /\ a.key \in Hosts /\ a.substrate \in Substrates
  BY DEF Made, Attestations
<1>2. CASE a.substrate = "TpmSubstrate"
  <2> DEFINE in == TpmInput(a, h, n)
  <2>1. in # SubstrateError /\ r = VerifyTpmQuote(in)
    BY <1>2 DEF CheckAttestation, Verdict
  <2>2. in = [att |-> a, host |-> h, nonce |-> n, ek |-> VendorRoot[h], root |-> VendorRoot[h],
              expected |-> IF a.claimed = None THEN "zeros" ELSE a.claimed]
    BY <2>1 DEF TpmInput
  <2> HIDE DEF in
  <2>3. /\ a.quote.nonce = n
        /\ a.quote.measured = IF a.claimed = None THEN "zeros" ELSE a.claimed
        /\ Signed(h, a)
        /\ r.counter = -1
    BY <2>1, <2>2 DEF VerifyTpmQuote, Result, FieldHolds
  <2>4. a.quote.measured \in Measurements
    BY <1>1 DEF Quotes
  <2>5. a.quote.measured = Image[h] /\ a.claimed = Image[h]
    BY <2>3, <2>4, SignedByHardware, HostsAssumption
  <2> QED BY <1>2, <2>3, <2>5 DEF Vouched, Signed
<1>3. CASE a.substrate = "AppleSeSubstrate"
  <2> DEFINE in == AppleInput(a, n, k)
  <2>1. in # SubstrateError /\ r = VerifyAppleAssertion(in)
    BY <1>3 DEF CheckAttestation, Verdict
  <2>2. in = [att |-> a, nonce |-> n, known |-> k]
    BY <2>1 DEF AppleInput
  <2> HIDE DEF in
  <2>3. /\ a.quote.nonce = n /\ a.quote.rp = "aiegis.ie"
        /\ a.quote.count > k
        /\ Signed(a.key, a)
        /\ r.counter = a.quote.count
    BY <2>1, <2>2 DEF VerifyAppleAssertion, Result, Monotonic
  <2>4. a.key \in Registered /\ Kind(a.key) = "AppleSeSubstrate"
    BY <1>1, <1>3, <2>3, SignedByHardware
  <2> QED BY <1>3, <2>3, <2>4 DEF Vouched, Signed
<1>4. CASE a.substrate = "TeeSubstrate"
  <2> DEFINE in == TeeInput(a, h, n)
  <2>1. r = VerifyTeeReport(in)
    BY <1>4 DEF CheckAttestation, Verdict
  <2> HIDE DEF in
  <2>2. ~ r.valid
    BY <2>1 DEF VerifyTeeReport, Result, ReportChainValid
  <2> QED BY <2>2
<1> QED BY <1>1, <1>2, <1>3, <1>4 DEF Substrates
-----------------------------------------------------------------------------
(* Facts about single steps *)

\* A challenge stays with its host.
LEMMA AskedKept ==
    ASSUME TypeOK, [Next]_vars, NEW n \in Nonces, asked[n] # None
    PROVE  asked'[n] = asked[n]
BY DEF TypeOK, Next, vars, Challenge, Acquire, Attest, Load, Decide, Store, Bind, RotateKey,
       CheckBinding, Tick

\* The history of acceptances loses nothing.
LEMMA AcceptedGrows ==
    ASSUME [Next]_vars
    PROVE  accepted \subseteq accepted'
BY DEF Next, vars, Challenge, Acquire, Attest, Load, Decide, Store, Bind, RotateKey,
       CheckBinding, Tick, operatorVars, bindingVars

\* What joins the answers was made by a host.
LEMMA NewAnswers ==
    ASSUME TypeOK, [Next]_vars, NEW a \in answers', a \notin answers
    PROVE  Made(a)
<1>1. CASE \E n \in Nonces, h \in Hosts, none \in BOOLEAN : Acquire(n, h, none)
  <2> PICK n \in Nonces, h \in Hosts, none \in BOOLEAN : Acquire(n, h, none)
    BY <1>1
  <2>1. a = Acquired(h, n, none) /\ a \notin {None, SubstrateError, RuntimeError}
    BY DEF Acquire
  <2>2. a = Stub(h, n) /\ Kind(h) # "None"
    BY <2>1 DEF Acquired
  <2> QED BY <2>2, StubMade
<1>2. CASE \E n \in Nonces, h \in Hosts : Attest(n, h)
  <2> PICK n \in Nonces, h \in Hosts : Attest(n, h)
    BY <1>2
  <2> DEFINE c == (count[h] + 1) % (SignCountMax + 1)
  <2>1. Kind(h) # "None" /\ a = Genuine(h, n, c)
    BY DEF Attest
  <2>2. c \in 0 .. SignCountMax
    BY NumbersAssumption DEF TypeOK
  <2> HIDE DEF c
  <2> QED BY <2>1, <2>2, GenuineMade
<1> QED BY <1>1, <1>2 DEF Next, vars, Challenge, Load, Decide, Store, Bind, RotateKey, CheckBinding,
                           Tick

\* What a worker takes up is what was made for its nonce, or a damaged copy.
LEMMA Loaded ==
    ASSUME AnswersInv, NEW a \in UNION {Arriving(b) : b \in answers}
    PROVE  Made(a)
<1>1. PICK b \in answers : a \in Arriving(b)
  OBVIOUS
<1> QED BY <1>1, HandledMade DEF AnswersInv

\* A worker that is past Idle holds a well-typed record.
LEMMA BusyWorker ==
    ASSUME TypeOK, NEW w \in Workers, worker[w].pc \in {"loaded", "verified"}
    PROVE  worker[w] \in WorkerStates /\ worker[w] # Idle
BY DEF TypeOK, Idle

\* How the workers look after a verdict.
LEMMA TakenRecord ==
    ASSUME NEW s \in WorkerStates, NEW c, NEW t, t = [s EXCEPT !.pc = "verified", !.known = c]
    PROVE  t = [pc |-> "verified", nonce |-> s.nonce, answer |-> s.answer, known |-> c]
<1>1. s = [pc |-> s.pc, nonce |-> s.nonce, answer |-> s.answer, known |-> s.known]
  BY DEF WorkerStates
<1>2. t = [pc |-> t.pc, nonce |-> t.nonce, answer |-> t.answer, known |-> t.known]
  BY <1>1
<1> QED BY <1>1, <1>2

\* The outcomes of a verification.
LEMMA VerifyFacts ==
    ASSUME TypeOK, AnswersInv, NEW w \in Workers, Decide(w)
    PROVE  LET at == worker[w]
               it == [nonce |-> at.nonce, answer |-> at.answer]
               a  == at.answer
           IN  /\ at \in WorkerStates /\ at.pc = "loaded" /\ it \in Accepts /\ Made(a)
               /\ asked[at.nonce] \in Hosts
               /\ \/ UNCHANGED <<accepted, replayed>> /\ worker' = [worker EXCEPT ![w] = Idle]
                  \/ /\ accepted' = accepted \cup {it}
                     /\ replayed' = IF it \in accepted THEN replayed \cup {it} ELSE replayed
                     /\ Vouched(a, at.nonce, asked[at.nonce])
                     /\ \/ /\ worker' = [worker EXCEPT ![w] =
                                     [at EXCEPT !.pc = "verified", !.known = a.quote.count]]
                           /\ a.quote.count > at.known
                           /\ a.substrate = "AppleSeSubstrate"
                        \/ /\ worker' = [worker EXCEPT ![w] = Idle]
                           /\ a.substrate # "AppleSeSubstrate"
<1> DEFINE at == worker[w]
           it == [nonce |-> at.nonce, answer |-> at.answer]
           a  == at.answer
           r  == CheckAttestation(a, asked[at.nonce], at.nonce, at.known)
           ok == r # SubstrateError /\ r.valid
<1>1. at \in WorkerStates /\ at.pc = "loaded" /\ at # Idle
  BY BusyWorker DEF Decide
<1>2. at.nonce \in Nonces /\ a \in Attestations /\ a.quote.count \in Nat
  <2>1. at.nonce \in Nonces /\ a \in Attestations
    BY <1>1 DEF WorkerStates
  <2>2. a.quote \in Quotes
    BY <2>1 DEF Attestations
  <2>3. a.quote.count \in 0 .. SignCountMax
    BY <2>2 DEF Quotes
  <2> QED BY <2>1, <2>3
<1>3. it \in Accepts
  BY <1>2 DEF Accepts
<1>4. Made(a) /\ asked[at.nonce] \in Hosts
  BY <1>1, <1>2, AttestationAssumption DEF AnswersInv, TypeOK
<1>5. /\ accepted' = IF ok THEN accepted \cup {it} ELSE accepted
      /\ replayed' = IF ok /\ it \in accepted THEN replayed \cup {it} ELSE replayed
      /\ worker' = [worker EXCEPT ![w] = IF ok /\ r.counter >= 0
                       THEN [at EXCEPT !.pc = "verified", !.known = r.counter] ELSE Idle]
  BY DEF Decide
<1>6. CASE ~ ok
  BY <1>1, <1>3, <1>4, <1>5, <1>6
<1>7. CASE ok
  <2>1. /\ Vouched(a, at.nonce, asked[at.nonce])
        /\ \/ r.counter = -1 /\ a.substrate # "AppleSeSubstrate"
           \/ /\ r.counter = a.quote.count /\ a.quote.count > at.known
              /\ a.substrate = "AppleSeSubstrate"
    <3>1. r = CheckAttestation(a, asked[at.nonce], at.nonce, at.known) /\ r # SubstrateError /\ r.valid
      BY <1>7
    <3> HIDE DEF a, r, at
    <3> QED BY ONLY <1>2, <1>4, <3>1, AcceptanceSound
  <2> HIDE DEF at, it, a, r
  <2>2. CASE r.counter = -1 /\ a.substrate # "AppleSeSubstrate"
    <3>1. ~ (r.counter >= 0) /\ a.substrate # "AppleSeSubstrate"
      BY <2>2
    <3> QED BY <1>1, <1>3, <1>4, <1>5, <1>7, <2>1, <3>1 DEF at, it, a
  <2>3. CASE r.counter = a.quote.count /\ a.quote.count > at.known /\ a.substrate = "AppleSeSubstrate"
    <3>1. r.counter >= 0
      BY <1>2, <2>3
    <3>2. worker' = [worker EXCEPT ![w] = [at EXCEPT !.pc = "verified", !.known = a.quote.count]]
      BY <1>5, <1>7, <2>3, <3>1
    <3> QED BY <1>1, <1>3, <1>4, <1>5, <1>7, <2>1, <2>3, <3>2 DEF at, it, a
  <2> QED BY <2>1, <2>2, <2>3
<1> QED BY <1>6, <1>7

-----------------------------------------------------------------------------
(* Every step keeps the invariant, part by part *)

\* Types, action by action.
LEMMA TypeStep ==
    ASSUME TypeOK, AnswersInv, ProofsInv, [Next]_vars
    PROVE  TypeOK'
<1>1. CASE UNCHANGED vars
  BY <1>1 DEF vars, operatorVars, bindingVars, TypeOK
<1>2. ASSUME NEW n \in Nonces, NEW h \in Enrolled, Challenge(n, h) PROVE TypeOK'
  BY <1>2 DEF Challenge, operatorVars, bindingVars, TypeOK
<1>3. CASE \E n \in Nonces, h \in Hosts :
            (\E none \in BOOLEAN : Acquire(n, h, none)) \/ Attest(n, h)
  <2>1. answers' \subseteq Attestations
    BY NewAnswers DEF TypeOK, Made
  <2>2. count' \in [Hosts -> 0 .. SignCountMax]
    <3>1. CASE \E n \in Nonces, h \in Hosts : Attest(n, h)
      <4> PICK n \in Nonces, h \in Hosts : Attest(n, h)
        BY <3>1
      <4> DEFINE c == (count[h] + 1) % (SignCountMax + 1)
      <4>1. count' = [count EXCEPT ![h] = c]
        BY DEF Attest
      <4>2. c \in 0 .. SignCountMax
        BY NumbersAssumption DEF TypeOK
      <4> HIDE DEF c
      <4> QED BY <4>1, <4>2 DEF TypeOK
    <3> QED BY <1>3, <3>1 DEF Acquire, TypeOK
  <2> QED BY <1>3, <2>1, <2>2 DEF Acquire, Attest, operatorVars, bindingVars, TypeOK
<1>4. ASSUME NEW w \in Workers, NEW n \in Nonces, NEW a \in UNION {Arriving(b) : b \in answers},
             Load(w, n, a)
      PROVE  TypeOK'
  <2>1. a \in Attestations /\ asked[n] \in Hosts
    BY <1>4, Loaded, AttestationAssumption DEF Made, Load, TypeOK
  <2>2. [pc |-> "loaded", nonce |-> n, answer |-> a, known |-> known[asked[n]]] \in WorkerStates
    BY <2>1 DEF WorkerStates, TypeOK
  <2>3. worker' \in [Workers -> {Idle} \cup WorkerStates]
    BY <1>4, <2>2 DEF Load, TypeOK
  <2>4. serial' \in BOOLEAN
    BY <1>4 DEF Load
  <2> QED BY <1>4, <2>3, <2>4 DEF Load, bindingVars, TypeOK
<1>5. ASSUME NEW w \in Workers, Decide(w) PROVE TypeOK'
  <2> DEFINE at == worker[w]
             it == [nonce |-> at.nonce, answer |-> at.answer]
             next == [at EXCEPT !.pc = "verified", !.known = at.answer.quote.count]
  <2>1. /\ at \in WorkerStates /\ it \in Accepts /\ at.answer \in Attestations
        /\ accepted' \in {accepted, accepted \cup {it}}
        /\ replayed' \in {replayed, replayed \cup {it}}
        /\ replayed' = replayed \/ accepted' = accepted \cup {it}
        /\ worker' \in {[worker EXCEPT ![w] = Idle], [worker EXCEPT ![w] = next]}
    BY <1>5, VerifyFacts DEF Made
  <2>2. at.answer.quote.count \in Int
    <3>1. at.answer.quote \in Quotes
      BY <2>1 DEF Attestations
    <3>2. at.answer.quote.count \in 0 .. SignCountMax
      BY <3>1 DEF Quotes
    <3> QED BY <3>2
  <2>3. next \in WorkerStates
    BY <2>1, <2>2 DEF WorkerStates
  <2> HIDE DEF at, it, next
  <2>4. worker' \in [Workers -> {Idle} \cup WorkerStates]
    BY <2>1, <2>3 DEF TypeOK
  <2>5. accepted' \subseteq Accepts /\ replayed' \subseteq accepted'
    BY <1>5, <2>1, AcceptedGrows DEF TypeOK
  <2> QED BY <1>5, <2>4, <2>5 DEF Decide, bindingVars, TypeOK
<1>6. ASSUME NEW w \in Workers, Store(w) PROVE TypeOK'
  <2>1. worker[w] \in WorkerStates
    BY <1>6, BusyWorker DEF Store
  <2>2. worker[w].known \in Int
    BY <2>1 DEF WorkerStates
  <2> QED BY <1>6, <2>2 DEF Store, bindingVars, TypeOK
<1>7. ASSUME NEW it \in accepted, NEW agent \in Agents, Bind(it, agent) PROVE TypeOK'
  <2> DEFINE i == [agent |-> agent, substrate |-> SubstrateDid(asked[it.nonce]),
                   blob |-> it.answer, time |-> now, nonce |-> it.nonce]
  <2>1. WellFormedInput(i) /\ proofs' = proofs \cup {GenerateBindingProof(i, opKey, Operator)}
    BY <1>7 DEF Bind
  <2> HIDE DEF i
  <2>2. WellFormedProof(GenerateBindingProof(i, opKey, Operator))
    BY <2>1, AttestationAssumption DEF WellFormedProof, GenerateBindingProof, Operator
  <2> QED BY <1>7, <2>1, <2>2 DEF Bind, operatorVars, TypeOK
<1>8. CASE RotateKey
  BY <1>8 DEF RotateKey, operatorVars, TypeOK
<1>9. ASSUME NEW p, NEW s, NEW o, CheckBinding(p, s, o) PROVE TypeOK'
  BY <1>9 DEF CheckBinding, operatorVars, bindingVars, TypeOK
<1>10. CASE Tick
  BY <1>10 DEF Tick, operatorVars, bindingVars, TypeOK
<1> QED BY <1>1, <1>2, <1>3, <1>4, <1>5, <1>6, <1>7, <1>8, <1>9, <1>10 DEF Next

\* Answers under way and in hand have the signatures they were made with.
LEMMA AnswersStep ==
    ASSUME TypeOK, AnswersInv, [Next]_vars
    PROVE  AnswersInv'
<1>1. \A a \in answers' : Made(a)'
  BY NewAnswers DEF AnswersInv, Made
<1>2. ASSUME NEW w \in Workers, (worker[w] # Idle)'
      PROVE  (Made(worker[w].answer) /\ asked[worker[w].nonce] # None)'
  <2> SUFFICES \E a, n : /\ Made(a) /\ n \in Nonces /\ asked[n] # None
                         /\ worker'[w].answer = a /\ worker'[w].nonce = n
    <3> PICK a, n : /\ Made(a) /\ n \in Nonces /\ asked[n] # None
                    /\ worker'[w].answer = a /\ worker'[w].nonce = n
      OBVIOUS
    <3>1. asked'[n] # None
      BY AskedKept
    <3> QED BY <3>1 DEF Made
  <2>1. ASSUME NEW v \in Workers, NEW n \in Nonces, NEW a \in UNION {Arriving(b) : b \in answers},
               Load(v, n, a), v = w
        PROVE  \E b, m : /\ Made(b) /\ m \in Nonces /\ asked[m] # None
                         /\ worker'[w].answer = b /\ worker'[w].nonce = m
    <3>1. worker'[w].answer = a /\ worker'[w].nonce = n /\ asked[n] # None
      BY <2>1 DEF Load, TypeOK
    <3> QED BY <3>1, Loaded
  <2>2. ASSUME worker[w] # Idle, worker'[w].answer = worker[w].answer,
               worker'[w].nonce = worker[w].nonce
        PROVE  \E b, m : /\ Made(b) /\ m \in Nonces /\ asked[m] # None
                         /\ worker'[w].answer = b /\ worker'[w].nonce = m
    BY <2>2 DEF AnswersInv, TypeOK, WorkerStates
  <2>3. CASE \E v \in Workers, n \in Nonces, a \in UNION {Arriving(b) : b \in answers} : Load(v, n, a)
    <3> PICK v \in Workers, n \in Nonces, a \in UNION {Arriving(b) : b \in answers} : Load(v, n, a)
      BY <2>3
    <3>1. CASE v = w
      BY <2>1, <3>1
    <3>2. CASE v # w
      <4>1. worker'[w] = worker[w]
        BY <3>2 DEF Load, TypeOK
      <4> QED BY <1>2, <2>2, <4>1
    <3> QED BY <3>1, <3>2
  <2>4. ASSUME NEW v \in Workers, Decide(v)
        PROVE  /\ worker[w] # Idle
               /\ worker'[w].answer = worker[w].answer
               /\ worker'[w].nonce = worker[w].nonce
    <3> DEFINE next == [worker[v] EXCEPT !.pc = "verified", !.known = worker[v].answer.quote.count]
    <3>1. /\ worker[v] \in WorkerStates /\ worker[v].pc = "loaded"
          /\ worker' \in {[worker EXCEPT ![v] = Idle], [worker EXCEPT ![v] = next]}
      BY <2>4, VerifyFacts
    <3>2. next.answer = worker[v].answer /\ next.nonce = worker[v].nonce
      BY <3>1 DEF WorkerStates
    <3>3. worker[v] # Idle
      BY <3>1 DEF Idle
    <3> HIDE DEF next
    <3> QED BY <1>2, <3>1, <3>2, <3>3 DEF TypeOK
  <2>5. ASSUME NEW v \in Workers, Store(v) PROVE worker'[w] = worker[w]
    BY <1>2, <2>5 DEF Store, TypeOK
  <2>6. CASE UNCHANGED worker
    BY <1>2, <2>2, <2>6
  <2> QED BY <1>2, <2>2, <2>3, <2>4, <2>5, <2>6 DEF Next, vars, operatorVars, Challenge, Acquire, Attest,
                                           Bind, RotateKey, CheckBinding, Tick
<1> QED BY <1>1, <1>2 DEF AnswersInv

\* Only Decide accepts, and it accepts what AcceptanceSound says.
LEMMA AcceptedStep ==
    ASSUME TypeOK, AnswersInv, AcceptedAnswersItsChallenge, [Next]_vars
    PROVE  AcceptedAnswersItsChallenge'
<1>1. \A it \in accepted : it.nonce \in Nonces /\ asked[it.nonce] # None
                            /\ Vouched(it.answer, it.nonce, asked[it.nonce])
  BY DEF AcceptedAnswersItsChallenge, TypeOK, Accepts
<1>2. ASSUME NEW it \in accepted', it \notin accepted
      PROVE  it.nonce \in Nonces /\ asked[it.nonce] # None
             /\ Vouched(it.answer, it.nonce, asked[it.nonce])
  <2>1. PICK w \in Workers : Decide(w)
    BY <1>2 DEF Next, vars, operatorVars, Challenge, Acquire, Attest, Load, Store, Bind, RotateKey,
                CheckBinding, Tick
  <2>2. /\ it = [nonce |-> worker[w].nonce, answer |-> worker[w].answer]
        /\ it \in Accepts
        /\ asked[worker[w].nonce] \in Hosts
    BY <1>2, <2>1, VerifyFacts
  <2>3. it.answer = worker[w].answer /\ it.nonce = worker[w].nonce /\ it.nonce \in Nonces
    BY <2>2 DEF Accepts
  <2>4. Vouched(worker[w].answer, worker[w].nonce, asked[worker[w].nonce])
    BY <1>2, <2>1, VerifyFacts
  <2> QED BY <2>2, <2>3, <2>4, HostsAssumption
<1>3. ASSUME NEW it \in accepted'
      PROVE  (asked[it.nonce] # None /\ Vouched(it.answer, it.nonce, asked[it.nonce]))'
  <2>1. /\ it.nonce \in Nonces /\ asked[it.nonce] # None
        /\ Vouched(it.answer, it.nonce, asked[it.nonce])
    BY <1>1, <1>2, <1>3
  <2>2. asked'[it.nonce] = asked[it.nonce]
    BY <2>1, AskedKept
  <2> QED BY <2>1, <2>2 DEF Vouched
<1> QED BY <1>3 DEF AcceptedAnswersItsChallenge

\* Only Bind signs, and it signs about an answer it had accepted.
LEMMA ProofsStep ==
    ASSUME TypeOK, AcceptedAnswersItsChallenge, ProofsInv, [Next]_vars
    PROVE  ProofsInv'
<1>1. ASSUME NEW i, Traced(i) PROVE Traced(i)'
  <2>1. PICK it \in accepted : it.answer = i.blob /\ it.nonce = i.nonce
                               /\ SubstrateDid(asked[it.nonce]) = i.substrate
    BY <1>1 DEF Traced
  <2>2. it.nonce \in Nonces /\ asked[it.nonce] # None
    BY DEF TypeOK, Accepts, AcceptedAnswersItsChallenge
  <2>3. it \in accepted' /\ asked'[it.nonce] = asked[it.nonce]
    BY <2>2, AcceptedGrows, AskedKept
  <2>4. (SubstrateDid(asked[it.nonce]) = i.substrate)'
    BY <2>1, <2>3 DEF SubstrateDid
  <2> QED BY <2>1, <2>3, <2>4 DEF Traced
<1>2. ASSUME NEW p \in proofs', p \notin proofs
      PROVE  \E i, k : p = GenerateBindingProof(i, k, Operator) /\ Traced(i)
  <2>1. PICK it \in accepted, agent \in Agents : Bind(it, agent)
    BY <1>2 DEF Next, vars, bindingVars, Challenge, Acquire, Attest, Load, Decide, Store, RotateKey,
                CheckBinding, Tick
  <2> DEFINE i == [agent |-> agent, substrate |-> SubstrateDid(asked[it.nonce]),
                   blob |-> it.answer, time |-> now, nonce |-> it.nonce]
  <2>2. p = GenerateBindingProof(i, opKey, Operator)
    BY <1>2, <2>1 DEF Bind
  <2>3. Traced(i)
    BY DEF Traced
  <2> QED BY <2>2, <2>3
<1>3. ASSUME NEW p \in proofs'
      PROVE  \E i, k : p = GenerateBindingProof(i, k, Operator) /\ Traced(i)
  BY <1>2 DEF ProofsInv
<1>4. ASSUME NEW p \in proofs'
      PROVE  (\E i, k : p = GenerateBindingProof(i, k, Operator) /\ Traced(i))'
  <2>1. PICK i, k : p = GenerateBindingProof(i, k, Operator) /\ Traced(i)
    BY <1>3
  <2>2. (p = GenerateBindingProof(i, k, Operator) /\ Traced(i))'
    BY <1>1, <2>1
  <2> QED BY <2>2
<1> QED BY <1>4 DEF ProofsInv

\* An edit leaves the signature as it was.
LEMMA PresentedSignature ==
    ASSUME NEW i, NEW k, NEW q, q = GenerateBindingProof(i, k, Operator), NEW p \in Presented(q)
    PROVE  p.signature = [key |-> k, message |-> [input |-> i, operator |-> Operator]]
<1>1. q = [input |-> i, operator |-> Operator, suite |-> "eddsa-rdfc-2022",
           signature |-> [key |-> k, message |-> [input |-> i, operator |-> Operator]]]
  BY DEF GenerateBindingProof, CanonicalMessage
<1> DEFINE g == [key |-> k, message |-> [input |-> i, operator |-> Operator]]
<1>2. \/ p = q
      \/ \E t : p = [q EXCEPT !.input.time = t]
      \/ \E t : p = [q EXCEPT !.input.agent = t]
      \/ \E t : p = [q EXCEPT !.input.blob = t]
      \/ \E t : p = [q EXCEPT !.input.nonce = t]
      \/ \E d : p = [q EXCEPT !.input.substrate = d]
      \/ p = [q EXCEPT !.input.substrate.tier = "none"]
      \/ p = [q EXCEPT !.operator = "other operator"]
      \/ p = [q EXCEPT !.suite = "eddsa-ml-dsa-65-hybrid-2026"]
  BY DEF Presented
<1> HIDE DEF g
<1>3. q = [input |-> i, operator |-> Operator, suite |-> "eddsa-rdfc-2022", signature |-> g]
  BY <1>1 DEF g
<1>4. p.signature = g
  <2>1. ASSUME NEW t, p = [q EXCEPT !.input.time = t] PROVE p.signature = g
    <3>1. p = [q EXCEPT !.input = [q.input EXCEPT !.time = t]]
      BY <2>1
    <3> QED BY <1>3, <3>1
  <2>2. ASSUME NEW d, p = [q EXCEPT !.input.substrate = d] PROVE p.signature = g
    BY <1>3, <2>2
  <2>7. ASSUME NEW t, p = [q EXCEPT !.input.agent = t] PROVE p.signature = g
    BY <1>3, <2>7
  <2>8. ASSUME NEW t, p = [q EXCEPT !.input.blob = t] PROVE p.signature = g
    BY <1>3, <2>8
  <2>9. ASSUME NEW t, p = [q EXCEPT !.input.nonce = t] PROVE p.signature = g
    BY <1>3, <2>9
  <2>3. CASE p = [q EXCEPT !.input.substrate.tier = "none"]
    <3>1. p = [q EXCEPT !.input = [q.input EXCEPT !.substrate = [q.input.substrate EXCEPT !.tier = "none"]]]
      BY <2>3
    <3> QED BY <1>3, <3>1
  <2>4. CASE p = [q EXCEPT !.operator = "other operator"]
    <3>1. q.signature = g /\ "signature" \in DOMAIN q
      BY <1>3
    <3> QED BY <1>3, <2>4, <3>1, Zenon
  <2>5. CASE p = [q EXCEPT !.suite = "eddsa-ml-dsa-65-hybrid-2026"]
    BY <1>3, <2>5
  <2>6. CASE p = q
    BY <1>3, <2>6
  <2> QED BY <1>2, <2>1, <2>2, <2>3, <2>4, <2>5, <2>6, <2>7, <2>8, <2>9, Zenon
<1> QED BY <1>4 DEF g

\* Only CheckBinding finds a proof valid, and the signature fixes all it reads.
LEMMA VerdictStep ==
    ASSUME TypeOK, ProofsInv, ValidBindingTracesBack, [Next]_vars
    PROVE  ValidBindingTracesBack'
<1>1. CASE verdict' = None
  BY <1>1 DEF ValidBindingTracesBack
<1>2. CASE UNCHANGED vars
  <2>1. UNCHANGED <<now, asked, accepted, opKey, proofs, verdict>>
    BY <1>2 DEF vars, operatorVars, bindingVars
  <2> QED BY <2>1 DEF ValidBindingTracesBack, SubstrateDid
<1>3. ASSUME NEW q \in proofs, NEW p \in Presented(q), NEW s, NEW o, CheckBinding(p, s, o),
             verdict' # None
      PROVE  ValidBindingTracesBack'
  <2>1. /\ verdict' = p
        /\ SignatureValid(p, opKey)
        /\ TimestampFresh(p.input.time, now)
        /\ UNCHANGED <<now, asked, accepted, opKey, proofs>>
    BY <1>3 DEF CheckBinding, VerifyBindingProof, operatorVars, bindingVars
  <2>2. PICK i, k : q = GenerateBindingProof(i, k, Operator) /\ Traced(i)
    BY DEF ProofsInv
  <2>3. p.signature = [key |-> k, message |-> [input |-> i, operator |-> Operator]]
    BY <2>2, PresentedSignature
  <2>4. [key |-> k, message |-> [input |-> i, operator |-> Operator]] =
        [key |-> opKey, message |-> [input |-> p.input, operator |-> p.operator]]
    BY <2>1, <2>3 DEF SignatureValid, CanonicalMessage
  <2>5. k = opKey /\ i = p.input /\ Operator = p.operator
    BY <2>4
  <2>6. q.input = i /\ q.operator = Operator /\ q.signature.key = k
    BY <2>2 DEF GenerateBindingProof
  <2>7. now - p.input.time \in 0 .. Window
    BY <2>1 DEF TimestampFresh
  <2>8. /\ q.input = p.input
        /\ q.operator = p.operator
        /\ q.signature.key = opKey
    BY <2>5, <2>6
  <2>9. PICK it \in accepted : it.answer = p.input.blob /\ it.nonce = p.input.nonce
                               /\ SubstrateDid(asked[it.nonce]) = p.input.substrate
    BY <2>2, <2>5 DEF Traced
  <2> QED BY <2>1, <2>7, <2>8, <2>9 DEF ValidBindingTracesBack, SubstrateDid
<1> QED BY <1>1, <1>2, <1>3 DEF Next, Challenge, Acquire, Attest, Load, Decide, Store, Bind,
                                RotateKey, Tick

\* Where the counters of the workers and of what they accepted stand.
LEMMA SerialStep ==
    ASSUME TypeOK, AnswersInv, AcceptedAnswersItsChallenge, SerialInv, AssertionsCountOnce, [Next]_vars
    PROVE  /\ SerialInv'
           /\ AssertionsCountOnce'
           /\ serial' => \A h \in Hosts : known'[h] >= known[h]
<1> DEFINE Apart == \A v, w \in Workers : v # w /\ worker[v] # Idle /\ worker[w] # Idle => At(v) # At(w)
           Fresh(w) == worker[w].pc = "loaded" => worker[w].known = known[At(w)]
           Above(w) == worker[w].pc = "verified" => worker[w].known >= known[At(w)]
           Covered(it) ==
               \/ it.answer.quote.count <= known[asked[it.nonce]]
               \/ \E w \in Workers : /\ worker[w].pc = "verified"
                                     /\ At(w) = asked[it.nonce]
                                     /\ it.answer.quote.count <= worker[w].known
           Counted == \A it \in accepted : it.answer.substrate = "AppleSeSubstrate" => Covered(it)
           Once == \A it \in replayed : it.answer.substrate # "AppleSeSubstrate"
           Goal == /\ Apart' /\ (\A w \in Workers : Fresh(w)') /\ (\A w \in Workers : Above(w)')
                   /\ Counted' /\ Once' /\ \A h \in Hosts : known'[h] >= known[h]
<1> SUFFICES ASSUME serial' PROVE Goal
  BY DEF SerialInv, AssertionsCountOnce
<1>1. serial
  BY DEF Next, vars, operatorVars, Challenge, Acquire, Attest, Load, Decide, Store, Bind, RotateKey,
         CheckBinding, Tick
<1>2. Apart /\ (\A w \in Workers : Fresh(w) /\ Above(w)) /\ Counted /\ Once
  BY <1>1 DEF SerialInv, AssertionsCountOnce
<1>3. \A w \in Workers : worker[w] # Idle =>
          /\ worker[w] \in WorkerStates
          /\ worker[w].nonce \in Nonces
          /\ At(w) \in Hosts
          /\ asked'[worker[w].nonce] = At(w)
  <2> TAKE w \in Workers
  <2> HAVE worker[w] # Idle
  <2>1. worker[w] \in WorkerStates /\ asked[worker[w].nonce] # None
    BY DEF TypeOK, AnswersInv
  <2>2. worker[w].nonce \in Nonces
    BY <2>1 DEF WorkerStates
  <2> QED BY <2>1, <2>2, AskedKept, AttestationAssumption DEF At, TypeOK
<1>4. \A w \in Workers : worker[w].pc \in {"loaded", "verified"} => worker[w] # Idle
  BY DEF Idle
<1>5. \A it \in accepted : /\ it.nonce \in Nonces
                            /\ asked[it.nonce] \in Hosts
                            /\ asked'[it.nonce] = asked[it.nonce]
                            /\ it.answer.quote.count \in Int
  <2> TAKE it \in accepted
  <2>1. it.nonce \in Nonces /\ it.answer \in Attestations /\ asked[it.nonce] # None
    BY DEF TypeOK, Accepts, AcceptedAnswersItsChallenge
  <2>2. it.answer.quote \in Quotes
    BY <2>1 DEF Attestations
  <2>3. it.answer.quote.count \in 0 .. SignCountMax
    BY <2>2 DEF Quotes
  <2> QED BY <2>1, <2>3, AskedKept, AttestationAssumption DEF TypeOK
<1>6. known \in [Hosts -> Int]
  BY DEF TypeOK
<1>7. CASE UNCHANGED <<known, worker, accepted, replayed>>
  <2>1. \A w \in Workers : worker[w] # Idle => At(w)' = At(w)
    BY <1>3, <1>7 DEF At
  <2>2. Apart'
    BY <1>2, <1>7, <2>1
  <2>3. (\A w \in Workers : Fresh(w)') /\ (\A w \in Workers : Above(w)')
    BY <1>2, <1>4, <1>7, <2>1
  <2>4. Counted'
    BY <1>2, <1>4, <1>5, <1>7, <2>1
  <2> QED BY <1>2, <1>6, <1>7, <2>2, <2>3, <2>4
<1>8. ASSUME NEW w \in Workers, NEW n \in Nonces, NEW a, Load(w, n, a) PROVE Goal
  <2>1. /\ worker[w] = Idle /\ asked[n] \in Hosts
        /\ \A v \in Workers : worker[v] # Idle => At(v) # asked[n]
        /\ UNCHANGED <<asked, known, accepted, replayed>>
    BY <1>8, AttestationAssumption DEF Load, TypeOK, At
  <2>2. /\ worker'[w] = [pc |-> "loaded", nonce |-> n, answer |-> a, known |-> known[asked[n]]]
        /\ \A v \in Workers \ {w} : worker'[v] = worker[v]
    BY <1>8 DEF Load, TypeOK
  <2>3. At(w)' = asked[n] /\ \A v \in Workers \ {w} : At(v)' = At(v)
    BY <2>1, <2>2 DEF At
  <2>4. Apart'
    BY <1>2, <2>1, <2>2, <2>3
  <2>5. (\A v \in Workers : Fresh(v)') /\ (\A v \in Workers : Above(v)')
    BY <1>2, <2>1, <2>2, <2>3
  <2>6. Counted'
    <3>1. \A v \in Workers : worker[v].pc = "verified" => worker'[v] = worker[v] /\ At(v)' = At(v)
      BY <2>1, <2>2, <2>3 DEF Idle
    <3> QED BY <1>2, <2>1, <3>1
  <2> QED BY <1>2, <1>6, <2>1, <2>4, <2>5, <2>6
<1>9. ASSUME NEW w \in Workers, Decide(w) PROVE Goal
  <2> DEFINE at == worker[w]
             it == [nonce |-> at.nonce, answer |-> at.answer]
             c  == at.answer.quote.count
             NextAt == [pc |-> "verified", nonce |-> at.nonce, answer |-> at.answer, known |-> c]
  <2>1. /\ at \in WorkerStates /\ at.pc = "loaded" /\ at # Idle /\ at.answer \in Attestations
        /\ it.nonce = at.nonce /\ it.answer = at.answer /\ asked[it.nonce] = At(w) /\ At(w) \in Hosts
    BY <1>9, <1>3, <1>4, VerifyFacts DEF At, WorkerStates
  <2>2. at.known = known[At(w)] /\ known[At(w)] \in Int
    BY <1>2, <1>6, <2>1
  <2>3. c \in Int
    <3>1. at.answer.quote \in Quotes
      BY <2>1 DEF Attestations
    <3>2. at.answer.quote.count \in 0 .. SignCountMax
      BY <3>1 DEF Quotes
    <3> QED BY <3>2
  <2>4. UNCHANGED <<asked, known>> /\ \A v \in Workers \ {w} : worker'[v] = worker[v] /\ At(v)' = At(v)
    BY <1>9 DEF Decide, TypeOK, At
  <2>5. \/ worker'[w] = Idle /\ UNCHANGED <<accepted, replayed>>
        \/ /\ worker'[w] = NextAt /\ c > known[At(w)]
           /\ accepted' = accepted \cup {it}
           /\ replayed' = IF it \in accepted THEN replayed \cup {it} ELSE replayed
        \/ /\ worker'[w] = Idle /\ at.answer.substrate # "AppleSeSubstrate"
           /\ accepted' = accepted \cup {it}
           /\ replayed' = IF it \in accepted THEN replayed \cup {it} ELSE replayed
    <3>1. \/ UNCHANGED <<accepted, replayed>> /\ worker' = [worker EXCEPT ![w] = Idle]
          \/ /\ accepted' = accepted \cup {it}
             /\ replayed' = IF it \in accepted THEN replayed \cup {it} ELSE replayed
             /\ \/ /\ worker' = [worker EXCEPT ![w] = [at EXCEPT !.pc = "verified", !.known = c]]
                   /\ c > at.known
                \/ /\ worker' = [worker EXCEPT ![w] = Idle]
                   /\ at.answer.substrate # "AppleSeSubstrate"
      BY <1>9, VerifyFacts
    <3>2. [at EXCEPT !.pc = "verified", !.known = c] = NextAt
      BY <2>1, TakenRecord
    <3>3. \A x : worker' = [worker EXCEPT ![w] = x] => worker'[w] = x
      BY DEF TypeOK
    <3> QED BY <2>2, <3>1, <3>2, <3>3
  <2>6. worker'[w] = NextAt => At(w)' = At(w) /\ worker'[w].known = c /\ worker'[w].pc = "verified"
    BY <2>4 DEF At
  <2> HIDE DEF at, it, c, NextAt
  <2>7. Apart'
    <3>1. worker'[w] # Idle => At(w)' = At(w)
      BY <2>5, <2>6
    <3>2. worker[w] # Idle
      BY <2>1 DEF at
    <3> QED BY <1>2, <2>4, <3>1, <3>2
  <2>8. \A v \in Workers : Fresh(v)'
    BY <1>2, <2>4, <2>5, <2>6 DEF Idle
  <2>9. \A v \in Workers : Above(v)'
    BY <1>2, <2>2, <2>3, <2>4, <2>5, <2>6 DEF Idle
  \* No worker but w is about w's host, and w has accepted nothing yet.
  <2>10. \A v \in Workers : worker[v].pc = "verified" =>
             /\ v # w
             /\ At(v) # At(w)
             /\ worker'[v] = worker[v]
             /\ At(v)' = At(v)
    BY <1>2, <1>4, <2>1, <2>4 DEF at
  <2>11. \A j \in accepted : Covered(j) => Covered(j)'
    BY <1>5, <2>4, <2>10
  <2>12. CASE UNCHANGED <<accepted, replayed>>
    <3>1. Counted'
      BY <1>2, <2>11, <2>12
    <3> QED BY <1>2, <1>6, <2>4, <2>7, <2>8, <2>9, <2>12, <3>1
  <2>13. CASE /\ accepted' = accepted \cup {it}
              /\ replayed' = IF it \in accepted THEN replayed \cup {it} ELSE replayed
              /\ at.answer.substrate # "AppleSeSubstrate"
    <3>1. Counted' /\ Once'
      BY <1>2, <2>1, <2>11, <2>13
    <3> QED BY <1>6, <2>4, <2>7, <2>8, <2>9, <3>1
  <2>14. CASE /\ worker'[w] = NextAt /\ c > known[At(w)]
              /\ accepted' = accepted \cup {it}
              /\ replayed' = IF it \in accepted THEN replayed \cup {it} ELSE replayed
    <3>1. it \in accepted => at.answer.substrate # "AppleSeSubstrate"
      <4>1. it.answer.quote.count = c
        BY <2>1 DEF c
      <4>2. ~ (c <= known[At(w)])
        BY <2>2, <2>3, <2>14
      <4>3. ~ Covered(it)
        BY <2>1, <2>10, <4>1, <4>2
      <4> QED BY <1>2, <2>1, <4>3
    <3>2. Once'
      BY <1>2, <2>1, <2>14, <3>1
    <3>3. ASSUME NEW j, j = it PROVE Covered(j)'
      <4>1. j.answer.quote.count = c /\ c <= c
        BY <2>1, <2>3, <3>3 DEF c
      <4>2. At(w)' = asked'[j.nonce] /\ worker'[w].known = c
        BY <2>1, <2>4, <2>6, <2>14, <3>3
      <4> QED BY <2>6, <2>14, <4>1, <4>2
    <3>4. Counted'
      BY <1>2, <2>11, <2>14, <3>3
    <3> QED BY <1>6, <2>4, <2>7, <2>8, <2>9, <3>2, <3>4
  <2> QED BY <2>5, <2>12, <2>13, <2>14
<1>10. ASSUME NEW w \in Workers, Store(w) PROVE Goal
  <2>1. /\ worker[w].pc = "verified" /\ worker[w] # Idle
        /\ At(w) \in Hosts /\ worker[w].known \in Int /\ worker[w].known >= known[At(w)]
    BY <1>2, <1>3, <1>4, <1>10 DEF Store, WorkerStates
  <2>2. /\ UNCHANGED <<asked, accepted, replayed>>
        /\ worker'[w] = Idle
        /\ \A v \in Workers \ {w} : worker'[v] = worker[v] /\ At(v)' = At(v)
        /\ known'[At(w)] = worker[w].known
        /\ \A h \in Hosts \ {At(w)} : known'[h] = known[h]
    BY <1>10, <2>1 DEF Store, TypeOK, At
  <2>3. \A h \in Hosts : known'[h] >= known[h] /\ known[h] \in Int /\ known'[h] \in Int
    BY <1>6, <2>1, <2>2
  <2>4. Apart'
    BY <1>2, <2>2
  <2>5. \A v \in Workers \ {w} : worker[v].pc \in {"loaded", "verified"} =>
            known'[At(v)] = known[At(v)] /\ At(v) # At(w)
    BY <1>2, <1>3, <1>4, <2>1, <2>2
  <2>6. (\A v \in Workers : Fresh(v)') /\ (\A v \in Workers : Above(v)')
    BY <1>2, <2>2, <2>5 DEF Idle
  <2>7. \A j \in accepted : Covered(j) => Covered(j)'
    <3> SUFFICES ASSUME NEW j \in accepted, Covered(j) PROVE Covered(j)'
      OBVIOUS
    <3>1. CASE j.answer.quote.count <= known[asked[j.nonce]]
      BY <1>5, <2>2, <2>3, <3>1
    <3>2. ASSUME NEW v \in Workers, worker[v].pc = "verified", At(v) = asked[j.nonce],
                 j.answer.quote.count <= worker[v].known
          PROVE  Covered(j)'
      <4>1. CASE v = w
        BY <1>5, <2>2, <3>2, <4>1
      <4>2. CASE v # w
        BY <1>5, <2>2, <3>2, <4>2
      <4> QED BY <4>1, <4>2
    <3> QED BY <3>1, <3>2
  <2>8. Counted'
    BY <1>2, <2>2, <2>7
  <2> QED BY <1>2, <2>2, <2>3, <2>4, <2>6, <2>8
<1> QED BY <1>7, <1>8, <1>9, <1>10 DEF Next, vars, operatorVars, Challenge, Acquire, Attest, Bind, RotateKey,
                              CheckBinding, Tick

-----------------------------------------------------------------------------
(* The theorems *)

\* The start of the invariant.
LEMMA AttestationInit == Init => AttestationInv
<1> SUFFICES ASSUME Init PROVE AttestationInv
  OBVIOUS
<1> USE DEF Init
<1>1. TypeOK
  <2>1. count \in [Hosts -> 0 .. SignCountMax] /\ opKey \in OperatorKeys
    BY AttestationAssumption
  <2>2. known \in [Hosts -> Int] /\ now \in Nat
    BY AttestationAssumption
  <2> QED BY <2>1, <2>2 DEF TypeOK
<1>2. AnswersInv
  BY DEF AnswersInv
<1>3. \A w \in Workers : worker[w] = Idle /\ worker[w].pc = "idle"
  BY DEF Idle
<1>4. SerialInv
  BY <1>3 DEF SerialInv
<1>5. AcceptedAnswersItsChallenge /\ AssertionsCountOnce /\ ProofsInv /\ ValidBindingTracesBack
  BY <1>1 DEF AcceptedAnswersItsChallenge, AssertionsCountOnce, ProofsInv, ValidBindingTracesBack, TypeOK
<1> QED BY <1>1, <1>2, <1>4, <1>5 DEF AttestationInv

\* Every step of it.
LEMMA AttestationStep == AttestationInv /\ [Next]_vars => AttestationInv'
<1> SUFFICES ASSUME AttestationInv, [Next]_vars PROVE AttestationInv'
  OBVIOUS
<1>1. /\ TypeOK /\ AnswersInv /\ AcceptedAnswersItsChallenge
      /\ SerialInv /\ AssertionsCountOnce /\ ProofsInv /\ ValidBindingTracesBack
  BY DEF AttestationInv
<1>2. TypeOK' /\ AnswersInv' /\ AcceptedAnswersItsChallenge'
  BY <1>1, TypeStep, AnswersStep, AcceptedStep
<1>3. SerialInv' /\ AssertionsCountOnce'
  BY <1>1, SerialStep
<1>4. ProofsInv' /\ ValidBindingTracesBack'
  BY <1>1, ProofsStep, VerdictStep
<1> QED BY <1>2, <1>3, <1>4 DEF AttestationInv

\* The inductive invariant that the theorems below rest on.
THEOREM AttestationInvHolds == Spec => []AttestationInv
  BY AttestationInit, AttestationStep, PTL DEF Spec

(* Every variable keeps its type, and whatever the operator signs or the    *)
(* regulator finds valid has passed the constructors' checks.               *)
THEOREM TypeCorrect == Spec => []TypeOK
<1>1. AttestationInv => TypeOK
  BY DEF AttestationInv
<1> QED BY <1>1, AttestationInvHolds, PTL

(* The mapper and the verifier together accept only answers to the          *)
(* challenge: the asked host's own quote, whichever other hosts answer, or  *)
(* some registered device's assertion, for any hosts and vendors' roots,    *)
(* with the answers as sent, without a field or in bytes that do not parse. *)
THEOREM AcceptanceIsSound == Spec => []AcceptedAnswersItsChallenge
<1>1. AttestationInv => AcceptedAnswersItsChallenge
  BY DEF AttestationInv
<1> QED BY <1>1, AttestationInvHolds, PTL

(* Workers that keep apart accept no App Attest assertion twice: the one    *)
(* comparison of counters in the verifier is enough for it.                 *)
THEOREM AssertionsAreSpent == Spec => []AssertionsCountOnce
<1>1. AttestationInv => AssertionsCountOnce
  BY DEF AttestationInv
<1> QED BY <1>1, AttestationInvHolds, PTL

(* Workers that keep apart never store a counter below the one stored,      *)
(* whatever the hardware's counter does, its wrap to zero included.         *)
THEOREM CountersRise == Spec => StoredCountersRise
<1>1. AttestationInv /\ [Next]_vars => [serial' => \A h \in Hosts : known'[h] >= known[h]]_vars
  BY SerialStep DEF AttestationInv
<1> QED BY <1>1, AttestationInvHolds, PTL DEF Spec, StoredCountersRise

(* A proof of binding that the regulator's check passes is the operator's   *)
(* own, unedited and recent, about a host whose answer it had accepted.     *)
THEOREM BindingsTraceBack == Spec => []ValidBindingTracesBack
<1>1. AttestationInv => ValidBindingTracesBack
  BY DEF AttestationInv
<1> QED BY <1>1, AttestationInvHolds, PTL

-----------------------------------------------------------------------------
(* What is refused, and why *)

\* What an Apple assertion must bring, and the counter it is held against.
AppleMerits(a, n, k) ==
    /\ a.substrate = "AppleSeSubstrate" /\ a.signature # None /\ a.quote.whole
    /\ k \in 0 .. SignCountMax /\ NonceBytes[n] >= 16
    /\ a.quote.rp = "aiegis.ie" /\ a.quote.count > k /\ a.quote.nonce = n
    /\ a.signature = [key |-> a.key, quote |-> a.quote]

\* What a TPM quote must bring.
TpmMerits(a, h, n) ==
    /\ a.substrate = "TpmSubstrate" /\ a.signature # None /\ a.quote.whole
    /\ a.quote.nonce = n /\ NonceBytes[n] = 32
    /\ a.quote.measured = IF a.claimed = None THEN "zeros" ELSE a.claimed
    /\ a.signature = [key |-> h, quote |-> a.quote]
    /\ Issuer[h] = VendorRoot[h] /\ Issuer[VendorRoot[h]] = VendorRoot[h]

\* The mapper and the verifier of Apple assertions look at nothing else.
LEMMA AppleVerdict ==
    ASSUME NEW a \in Attestations, NEW h, NEW n \in Nonces, NEW k \in Int,
           a.substrate = "AppleSeSubstrate"
    PROVE  Passes(a, h, n, k) <=> AppleMerits(a, n, k)
<1> PICK r : r = CheckAttestation(a, h, n, k)
  OBVIOUS
<1>1. Passes(a, h, n, k) <=> r # SubstrateError /\ r.valid
  BY DEF Passes
<1> DEFINE in == AppleInput(a, n, k)
           Mapped == /\ a.substrate = "AppleSeSubstrate" /\ a.signature # None /\ a.quote.whole
                     /\ k \in 0 .. SignCountMax /\ NonceBytes[n] >= 16
           Sound == /\ a.quote.rp = "aiegis.ie" /\ a.quote.count > k /\ a.quote.nonce = n
                    /\ a.signature = [key |-> a.key, quote |-> a.quote]
<1>2. r = IF in = SubstrateError THEN SubstrateError ELSE VerifyAppleAssertion(in)
  BY DEF CheckAttestation, Verdict
<1>3. a.quote.count \in Int /\ NonceBytes[n] \in Nat
  <2>1. a.quote \in Quotes
    BY DEF Attestations
  <2>2. a.quote.count \in 0 .. SignCountMax
    BY <2>1 DEF Quotes
  <2> QED BY <2>2, NumbersAssumption
<1>4. AppleMerits(a, n, k) <=> Mapped /\ Sound
  BY DEF AppleMerits
<1>5. CASE ~ Mapped
  <2>1. in = SubstrateError
    BY <1>3, <1>5 DEF AppleInput, CounterInRange
  <2> HIDE DEF in
  <2> QED BY <1>1, <1>2, <1>5, <1>4, <2>1
<1>6. CASE Mapped
  <2>1. in = [att |-> a, nonce |-> n, known |-> k]
    BY <1>3, <1>6 DEF AppleInput, CounterInRange
  <2>2. in # SubstrateError
    BY <2>1, SentinelAssumption
  <2> HIDE DEF in
  <2>3. r = [valid |-> Sound, counter |-> a.quote.count]
    BY <1>2, <2>1, <2>2 DEF VerifyAppleAssertion, Result, Monotonic, Signed
  <2>4. Sound \in BOOLEAN
    OBVIOUS
  <2> HIDE DEF Sound
  <2>5. r # SubstrateError /\ (r.valid <=> Sound)
    BY <1>3, <2>3, <2>4, SentinelAssumption
  <2> QED BY <1>1, <1>6, <1>4, <2>5 DEF Sound
<1> QED BY <1>5, <1>6

\* Nor do those of TPM quotes.
LEMMA TpmVerdict ==
    ASSUME NEW a \in Attestations, NEW h \in Hosts, NEW n \in Nonces, NEW k,
           a.substrate = "TpmSubstrate"
    PROVE  Passes(a, h, n, k) <=> TpmMerits(a, h, n)
<1> PICK r : r = CheckAttestation(a, h, n, k)
  OBVIOUS
<1>1. Passes(a, h, n, k) <=> r # SubstrateError /\ r.valid
  BY DEF Passes
<1> DEFINE in == TpmInput(a, h, n)
           e == IF a.claimed = None THEN "zeros" ELSE a.claimed
           Mapped == a.substrate = "TpmSubstrate" /\ a.signature # None /\ NonceBytes[n] >= 16
           Sound == /\ a.quote.whole /\ a.quote.nonce = n /\ NonceBytes[n] = 32
                    /\ a.quote.measured = e
                    /\ a.signature = [key |-> h, quote |-> a.quote]
                    /\ Issuer[h] = VendorRoot[h] /\ Issuer[VendorRoot[h]] = VendorRoot[h]
<1>2. r = IF in = SubstrateError THEN SubstrateError ELSE VerifyTpmQuote(in)
  BY DEF CheckAttestation, Verdict
<1>3. NonceBytes[n] \in Nat /\ VendorRoot[h] \in Certs
  BY NumbersAssumption, CertsAssumption
<1>4. TpmMerits(a, h, n) <=> Mapped /\ Sound
  BY <1>3 DEF TpmMerits
<1>5. CASE ~ Mapped
  <2>1. in = SubstrateError
    BY <1>3, <1>5 DEF TpmInput
  <2> HIDE DEF in
  <2>2. ~ Passes(a, h, n, k)
    BY <1>1, <1>2, <2>1
  <2> QED BY <1>3, <1>5, <1>4, <2>2
<1>6. CASE Mapped
  <2>1. in = [att |-> a, host |-> h, nonce |-> n, ek |-> VendorRoot[h], root |-> VendorRoot[h],
              expected |-> e]
    BY <1>3, <1>6 DEF TpmInput
  <2>2. e \in Measurements \cup {"zeros"}
    BY DEF Attestations
  <2> HIDE DEF e
  <2>3. in # SubstrateError
    BY <1>3, <2>1, <2>2, SentinelAssumption
  <2> HIDE DEF in
  <2>4. r = [valid |-> Sound, counter |-> -1]
    BY <1>2, <2>1, <2>3 DEF VerifyTpmQuote, Result, FieldHolds, Signed, ChainsTo
  <2>5. Sound \in BOOLEAN
    OBVIOUS
  <2> HIDE DEF Sound
  <2>6. r # SubstrateError /\ (r.valid <=> Sound)
    BY <2>4, <2>5, SentinelAssumption
  <2> QED BY <1>1, <1>6, <1>4, <2>6
<1> QED BY <1>5, <1>6

\* No report of a confidential VM is accepted.
LEMMA TeeVerdict ==
    ASSUME NEW a, NEW h, NEW n, NEW k, a.substrate = "TeeSubstrate"
    PROVE  ~ Passes(a, h, n, k)
<1> DEFINE in == TeeInput(a, h, n)
<1>1. CheckAttestation(a, h, n, k) = IF in = SubstrateError THEN SubstrateError ELSE VerifyTeeReport(in)
  BY DEF CheckAttestation, Verdict
<1> HIDE DEF in
<1> QED BY <1>1 DEF VerifyTeeReport, Result, ReportChainValid, Passes

\* An assertion that is accepted was held against a counter in range.
LEMMA AcceptedInRange ==
    ASSUME NEW a \in Attestations, NEW h, NEW n \in Nonces, NEW k \in Int,
           Passes(a, h, n, k), a.substrate = "AppleSeSubstrate"
    PROVE  0 <= k
<1>1. AppleMerits(a, n, k)
  BY AppleVerdict
<1> QED BY <1>1, NumbersAssumption DEF AppleMerits

\* When the answer of some host's own hardware is accepted for the host h.
LEMMA GenuineVerdict ==
    ASSUME NEW g \in Hosts, NEW h \in Hosts, NEW n \in Nonces, NEW c \in 0 .. SignCountMax,
           NEW k \in Int, NEW a \in Attestations, a = Genuine(g, n, c)
    PROVE  /\ a.quote.count = c /\ a.key = g /\ a.substrate = Kind(g)
           /\ Passes(a, h, n, k) <=>
                CASE a.substrate = "AppleSeSubstrate" ->
                        g \in Registered /\ NonceBytes[n] >= 16 /\ 0 <= k /\ k < c
                  [] a.substrate = "TpmSubstrate" ->
                        /\ g = h
                        /\ Issuer[h] = VendorRoot[h] /\ Issuer[VendorRoot[h]] = VendorRoot[h]
                        /\ NonceBytes[n] = 32
                  [] OTHER -> FALSE
<1> PICK q : q = Quote(n, Image[g], c, IF g \in Registered THEN "aiegis.ie" ELSE "other app", g)
  OBVIOUS
<1>1. /\ q.nonce = n /\ q.measured = Image[g] /\ q.count = c /\ q.agent = g /\ q.whole = TRUE
      /\ q.rp = "aiegis.ie" <=> g \in Registered
  BY DEF Quote
<1>2. /\ a.substrate = Kind(g) /\ a.quote = q /\ a.claimed = Image[g] /\ a.key = g
      /\ a.signature = [key |-> g, quote |-> q]
  BY DEF Genuine
<1>3. a.quote.count = c
  BY <1>1, <1>2
<1>4. q \in Quotes
  BY <1>2 DEF Attestations
<1>5. a.signature # None /\ Image[g] # None
  <2>1. a.signature \in [key : Hosts, quote : Quotes]
    BY ONLY <1>2, <1>4, g \in Hosts
  <2>2. Image[g] \in Measurements
    BY HostsAssumption
  <2> QED BY <2>1, <2>2, SentinelAssumption
<1>6. CASE a.substrate = "AppleSeSubstrate"
  <2>1. Passes(a, h, n, k) <=> AppleMerits(a, n, k)
    BY <1>6, AppleVerdict
  <2>2. AppleMerits(a, n, k) <=> /\ k \in 0 .. SignCountMax /\ NonceBytes[n] >= 16
                                 /\ g \in Registered /\ c > k
    BY <1>1, <1>2, <1>5, <1>6 DEF AppleMerits
  <2>3. k \in 0 .. SignCountMax /\ c > k <=> 0 <= k /\ k < c
    <3>1. SignCountMax \in Int
      BY ONLY NumbersAssumption
    <3>2. c \in 0 .. SignCountMax /\ k \in Int
      OBVIOUS
    <3> QED BY ONLY <3>1, <3>2
  <2>4. Passes(a, h, n, k) <=> g \in Registered /\ NonceBytes[n] >= 16 /\ 0 <= k /\ k < c
    BY <2>1, <2>2, <2>3
  <2> QED BY <1>2, <1>3, <1>6, <2>4
<1>7. CASE a.substrate = "TpmSubstrate"
  <2>1. Passes(a, h, n, k) <=> TpmMerits(a, h, n)
    BY <1>7, TpmVerdict
  <2>2. a.signature = [key |-> h, quote |-> a.quote] <=> g = h
    <3>1. a.quote = q /\ a.signature = [key |-> g, quote |-> q]
      BY <1>2
    <3>2. [key |-> g, quote |-> q] = [key |-> h, quote |-> q] <=> g = h
      OBVIOUS
    <3> QED BY ONLY <3>1, <3>2
  <2>3. TpmMerits(a, h, n) <=>
          /\ g = h /\ NonceBytes[n] = 32
          /\ Issuer[h] = VendorRoot[h] /\ Issuer[VendorRoot[h]] = VendorRoot[h]
    BY <1>1, <1>2, <1>5, <1>7, <2>2 DEF TpmMerits
  <2> QED BY <1>2, <1>3, <1>7, <2>1, <2>3
<1>8. CASE a.substrate = "TeeSubstrate"
  BY <1>2, <1>3, <1>8, TeeVerdict
<1>9. a.substrate \in Substrates
  BY DEF Attestations
<1> QED BY <1>6, <1>7, <1>8, <1>9 DEF Substrates

\* A counter in use is the one for hosts never seen, or the count of an assertion
\* of the host that was accepted.
Reached(h, k) ==
    \/ k = first
    \/ /\ 0 <= first /\ first < k
       /\ \E old \in accepted : /\ asked[old.nonce] = h
                                /\ old.answer.substrate = "AppleSeSubstrate"
                                /\ old.answer.quote.count = k

\* Whatever workers do at once, all counters were reached.
CountsInv ==
    /\ \A h \in Hosts : Reached(h, known[h])
    /\ \A w \in Workers : worker[w] # Idle => Reached(At(w), worker[w].known)

\* A verification adds the answer if it passes, and nothing if not.
LEMMA VerifyOutcome ==
    ASSUME TypeOK, AnswersInv, NEW w \in Workers, Decide(w),
           NEW it, it = [nonce |-> worker[w].nonce, answer |-> worker[w].answer]
    PROVE  /\ worker[w] \in WorkerStates /\ worker[w] # Idle /\ worker[w].pc = "loaded"
           /\ At(w) \in Hosts /\ it.nonce \in Nonces /\ it.answer \in Attestations
           /\ it.nonce = worker[w].nonce /\ it.answer = worker[w].answer
           /\ asked[it.nonce] = At(w) /\ worker[w].known \in Int
           /\ it.answer.quote.count \in Int
           /\ UNCHANGED <<asked, first, known>>
           /\ \A v \in Workers \ {w} : worker'[v] = worker[v]
           /\ IF Passes(it.answer, At(w), it.nonce, worker[w].known)
              THEN /\ accepted' = accepted \cup {it}
                   /\ \/ worker'[w] = Idle
                      \/ /\ worker'[w] = [pc |-> "verified", nonce |-> it.nonce,
                                          answer |-> it.answer, known |-> it.answer.quote.count]
                         /\ it.answer.quote.count > worker[w].known
                         /\ it.answer.substrate = "AppleSeSubstrate"
              ELSE accepted' = accepted /\ worker'[w] = Idle
<1>1. worker[w] \in WorkerStates /\ worker[w] # Idle /\ worker[w].pc = "loaded"
  BY BusyWorker DEF Decide
<1>2. /\ worker[w].nonce \in Nonces /\ worker[w].answer \in Attestations /\ worker[w].known \in Int
      /\ At(w) \in Hosts /\ it.nonce = worker[w].nonce /\ it.answer = worker[w].answer
  BY <1>1, VerifyFacts DEF WorkerStates, At
<1>3. it.answer.quote.count \in Int
  <2>1. it.answer.quote \in Quotes
    BY <1>2 DEF Attestations
  <2>2. it.answer.quote.count \in 0 .. SignCountMax
    BY <2>1 DEF Quotes
  <2> QED BY <2>2
<1>4. UNCHANGED <<asked, first, known>> /\ \A v \in Workers \ {w} : worker'[v] = worker[v]
  BY DEF Decide, TypeOK
<1> DEFINE r == CheckAttestation(it.answer, At(w), it.nonce, worker[w].known)
<1>5. Passes(it.answer, At(w), it.nonce, worker[w].known) <=> r # SubstrateError /\ r.valid
  BY DEF Passes
<1>6. /\ accepted' = IF r # SubstrateError /\ r.valid THEN accepted \cup {it} ELSE accepted
      /\ worker' = [worker EXCEPT ![w] = IF (r # SubstrateError /\ r.valid) /\ r.counter >= 0
                       THEN [worker[w] EXCEPT !.pc = "verified", !.known = r.counter] ELSE Idle]
  BY <1>2 DEF Decide, At
<1> HIDE DEF r
<1>7. CASE ~ Passes(it.answer, At(w), it.nonce, worker[w].known)
  BY <1>1, <1>2, <1>3, <1>4, <1>5, <1>6, <1>7 DEF At, TypeOK
<1>8. CASE Passes(it.answer, At(w), it.nonce, worker[w].known)
  <2>1. accepted' = accepted \cup {it}
    BY <1>5, <1>6, <1>8
  <2>2. \/ r.counter = -1 /\ it.answer.substrate # "AppleSeSubstrate"
        \/ /\ r.counter = it.answer.quote.count /\ it.answer.quote.count > worker[w].known
           /\ it.answer.substrate = "AppleSeSubstrate"
    <3>1. PICK a, n, k : a = it.answer /\ n = it.nonce /\ k = worker[w].known
      OBVIOUS
    <3>2. Made(a) /\ n \in Nonces /\ asked[n] \in Hosts /\ At(w) = asked[n]
      BY <1>1, <1>2, <3>1 DEF AnswersInv, At
    <3>3. r = CheckAttestation(a, asked[n], n, k) /\ r # SubstrateError /\ r.valid
      BY <1>5, <1>8, <3>1, <3>2 DEF r
    <3> HIDE DEF r
    <3>4. \/ r.counter = -1 /\ a.substrate # "AppleSeSubstrate"
          \/ /\ r.counter = a.quote.count /\ a.quote.count > k
             /\ a.substrate = "AppleSeSubstrate"
      BY ONLY <3>2, <3>3, AcceptanceSound
    <3> QED BY <3>1, <3>4
  <2>3. CASE r.counter >= 0
    <3>1. /\ r.counter = it.answer.quote.count /\ it.answer.quote.count > worker[w].known
          /\ it.answer.substrate = "AppleSeSubstrate"
      BY <2>2, <2>3
    <3>2. worker'[w] = [worker[w] EXCEPT !.pc = "verified", !.known = r.counter]
      BY <1>5, <1>6, <1>8, <2>3 DEF TypeOK
    <3>3. worker'[w] = [pc |-> "verified", nonce |-> it.nonce, answer |-> it.answer,
                        known |-> it.answer.quote.count]
      <4>1. PICK s \in WorkerStates : s = worker[w]
        BY <1>1
      <4>2. PICK m : m = r.counter
        OBVIOUS
      <4>3. PICK t : t = worker'[w]
        OBVIOUS
      <4>4. t = [s EXCEPT !.pc = "verified", !.known = m]
        BY <3>2, <4>1, <4>2, <4>3
      <4>5. t = [pc |-> "verified", nonce |-> s.nonce, answer |-> s.answer, known |-> m]
        BY <4>4, TakenRecord
      <4> QED BY <1>2, <3>1, <4>1, <4>2, <4>3, <4>5
    <3> QED BY <1>1, <1>2, <1>3, <1>4, <1>8, <2>1, <3>1, <3>3 DEF At
  <2>4. CASE ~ (r.counter >= 0)
    <3>1. worker'[w] = Idle
      BY <1>6, <2>4 DEF TypeOK
    <3> QED BY <1>1, <1>2, <1>3, <1>4, <1>8, <2>1, <3>1 DEF At
  <2> QED BY <2>3, <2>4
<1> QED BY <1>7, <1>8

\* Every step keeps it.
LEMMA CountsStep ==
    ASSUME TypeOK, AnswersInv, AcceptedAnswersItsChallenge, CountsInv, [Next]_vars
    PROVE  CountsInv'
<1>1. first' = first
  BY DEF Next, vars, operatorVars, Challenge, Acquire, Attest, Load, Decide, Store, Bind, RotateKey,
         CheckBinding, Tick
<1>2. \A it \in accepted : asked'[it.nonce] = asked[it.nonce] /\ it \in accepted'
  <2> TAKE it \in accepted
  <2>1. it.nonce \in Nonces /\ asked[it.nonce] # None
    BY DEF TypeOK, Accepts, AcceptedAnswersItsChallenge
  <2> QED BY <2>1, AskedKept, AcceptedGrows
<1>3. \A h, k : Reached(h, k) => Reached(h, k)'
  BY <1>1, <1>2 DEF Reached
<1>4. \A w \in Workers : worker[w] # Idle => At(w) \in Hosts /\ asked'[worker[w].nonce] = At(w)
  <2> TAKE w \in Workers
  <2> HAVE worker[w] # Idle
  <2>1. worker[w].nonce \in Nonces /\ asked[worker[w].nonce] # None
    BY DEF TypeOK, WorkerStates, AnswersInv
  <2> QED BY <2>1, AskedKept, AttestationAssumption DEF At, TypeOK
<1>5. \A w \in Workers : worker[w] # Idle /\ worker'[w] = worker[w] => Reached(At(w), worker[w].known)'
  <2> TAKE w \in Workers
  <2> HAVE worker[w] # Idle /\ worker'[w] = worker[w]
  <2>1. PICK h, k : h = At(w) /\ k = worker[w].known
    OBVIOUS
  <2>2. Reached(h, k)'
    BY <1>3, <2>1 DEF CountsInv
  <2>3. At(w)' = h /\ worker'[w].known = k
    BY <1>4, <2>1 DEF At
  <2> QED BY <2>2, <2>3 DEF Reached
<1>6. CASE UNCHANGED <<known, worker, accepted>>
  <2>2. \A h \in Hosts : Reached(h, known[h])'
    <3> TAKE h \in Hosts
    <3>1. PICK k : k = known[h]
      OBVIOUS
    <3>2. Reached(h, k)'
      BY <1>3, <3>1 DEF CountsInv
    <3> QED BY <1>6, <3>1, <3>2 DEF Reached
  <2> QED BY <1>5, <1>6, <2>2 DEF CountsInv
<1>7. ASSUME NEW w \in Workers, NEW n \in Nonces, NEW a, Load(w, n, a) PROVE CountsInv'
  <2>1. /\ worker'[w] = [pc |-> "loaded", nonce |-> n, answer |-> a, known |-> known[asked[n]]]
        /\ \A v \in Workers \ {w} : worker'[v] = worker[v]
        /\ UNCHANGED <<asked, known, accepted>> /\ asked[n] \in Hosts
    BY <1>7, AttestationAssumption DEF Load, TypeOK
  <2>3. \A h \in Hosts : Reached(h, known[h])'
    BY <1>1, <2>1 DEF CountsInv, Reached
  <2>4. Reached(At(w), worker[w].known)'
    <3>1. PICK h \in Hosts : h = asked[n]
      BY <2>1
    <3>2. PICK k : k = known[h]
      OBVIOUS
    <3>3. Reached(h, k)'
      BY <1>3, <3>2 DEF CountsInv
    <3>4. At(w)' = h /\ worker'[w].known = k
      BY <2>1, <3>1, <3>2 DEF At
    <3> QED BY <3>3, <3>4 DEF Reached
  <2> QED BY <1>5, <2>1, <2>3, <2>4 DEF CountsInv
<1>8. ASSUME NEW w \in Workers, Decide(w) PROVE CountsInv'
  <2>1. PICK it : it = [nonce |-> worker[w].nonce, answer |-> worker[w].answer]
    OBVIOUS
  <2> PICK h, k : h = At(w) /\ k = worker[w].known
    OBVIOUS
  <2> DEFINE c == it.answer.quote.count
             Passed == Passes(it.answer, h, it.nonce, k)
  <2>2. /\ worker[w] # Idle /\ h \in Hosts /\ it.nonce \in Nonces /\ it.answer \in Attestations
        /\ asked[it.nonce] = h /\ k \in Int /\ c \in Int
        /\ UNCHANGED <<asked, first, known>>
        /\ \A v \in Workers \ {w} : worker'[v] = worker[v]
    BY <1>8, <2>1, VerifyOutcome
  <2>3. IF Passed
        THEN /\ accepted' = accepted \cup {it}
             /\ \/ worker'[w] = Idle
                \/ /\ worker'[w] = [pc |-> "verified", nonce |-> it.nonce, answer |-> it.answer, known |-> c]
                   /\ c > k /\ it.answer.substrate = "AppleSeSubstrate"
        ELSE accepted' = accepted /\ worker'[w] = Idle
    BY <1>8, <2>1, VerifyOutcome
  <2>4. Passed /\ it.answer.substrate = "AppleSeSubstrate" => 0 <= k
    <3>1. PICK a, n : a = it.answer /\ n = it.nonce
      OBVIOUS
    <3>2. a \in Attestations /\ n \in Nonces /\ h \in Hosts /\ k \in Int
      BY <2>2, <3>1
    <3>3. Passes(a, h, n, k) /\ a.substrate = "AppleSeSubstrate" => 0 <= k
      BY ONLY <3>2, AcceptedInRange
    <3> QED BY <3>1, <3>3
  <2> HIDE DEF Passed
  <2>6. \A g \in Hosts : Reached(g, known[g])'
    <3> TAKE g \in Hosts
    <3>1. PICK m : m = known[g]
      OBVIOUS
    <3>2. Reached(g, m)'
      BY <1>3, <3>1 DEF CountsInv
    <3> QED BY <2>2, <3>1, <3>2 DEF Reached
  <2>7. worker'[w] # Idle => Reached(At(w), worker[w].known)'
    <3> HAVE worker'[w] # Idle
    <3>1. /\ Passed /\ accepted' = accepted \cup {it}
          /\ worker'[w].nonce = it.nonce /\ worker'[w].known = c
          /\ c > k /\ it.answer.substrate = "AppleSeSubstrate"
      BY <2>3
    <3>2. 0 <= k /\ c > k
      BY <2>4, <3>1
    <3>3. first \in Int
      BY AttestationAssumption DEF TypeOK
    <3>4. 0 <= first /\ first < c
      <4>1. Reached(h, k)
        BY <2>2 DEF CountsInv
      <4>2. k = first \/ (0 <= first /\ first < k)
        BY <4>1 DEF Reached
      <4> QED BY <2>2, <3>2, <3>3, <4>2
    <3>5. /\ it \in accepted' /\ asked'[it.nonce] = h /\ it.answer.quote.count = c
          /\ it.answer.substrate = "AppleSeSubstrate"
      BY <2>2, <3>1
    <3>6. At(w)' = h /\ worker'[w].known = c /\ first' = first
      BY <2>2, <3>1 DEF At
    <3> HIDE DEF c
    <3> QED BY <3>4, <3>5, <3>6 DEF Reached
  <2> QED BY <1>5, <2>2, <2>6, <2>7 DEF CountsInv
<1>9. ASSUME NEW w \in Workers, Store(w) PROVE CountsInv'
  <2>1. worker[w] # Idle
    BY <1>9 DEF Store, Idle
  <2>2. PICK h \in Hosts : h = At(w)
    BY <1>4, <2>1
  <2>3. PICK k : k = worker[w].known
    OBVIOUS
  <2>4. /\ UNCHANGED <<asked, accepted>> /\ worker'[w] = Idle
        /\ \A v \in Workers \ {w} : worker'[v] = worker[v]
        /\ known' = [known EXCEPT ![h] = k]
    BY <1>9, <2>2, <2>3 DEF Store, TypeOK, At
  <2>6. \A g \in Hosts : Reached(g, known[g])'
    <3> TAKE g \in Hosts
    <3>1. PICK m : m = IF g = h THEN k ELSE known[g]
      OBVIOUS
    <3>2. Reached(g, m)
      BY <2>1, <2>2, <2>3, <3>1 DEF CountsInv
    <3>3. Reached(g, m)'
      BY <1>3, <3>2
    <3>4. known'[g] = m
      BY <2>4, <3>1 DEF TypeOK
    <3> QED BY <3>3, <3>4 DEF Reached
  <2> QED BY <1>5, <2>4, <2>6 DEF CountsInv
<1> QED BY <1>6, <1>7, <1>8, <1>9 DEF Next, vars, operatorVars, Challenge, Acquire, Attest, Bind, RotateKey,
                              CheckBinding, Tick

\* A worker that leaves "loaded" has verified.
LEMMA LeavesLoaded ==
    ASSUME TypeOK, [Next]_vars, NEW w \in Workers, worker[w].pc = "loaded", worker'[w].pc # "loaded"
    PROVE  Decide(w)
<1>1. ASSUME NEW v \in Workers, Decide(v) PROVE Decide(w)
  <2>1. v # w => worker'[w] = worker[w]
    BY <1>1 DEF Decide, TypeOK
  <2> QED BY <1>1, <2>1
<1>2. ASSUME NEW v \in Workers, Store(v) PROVE FALSE
  BY <1>2 DEF Store, TypeOK
<1>3. ASSUME NEW v \in Workers, NEW n \in Nonces, NEW a, Load(v, n, a) PROVE FALSE
  BY <1>3 DEF Load, TypeOK, Idle
<1> QED BY <1>1, <1>2, <1>3 DEF Next, vars, operatorVars, Challenge, Acquire, Attest, Bind, RotateKey,
                                CheckBinding, Tick

\* A genuine answer that is new passes exactly if it is eligible.
LEMMA RefusalStep ==
    ASSUME TypeOK, AnswersInv, AcceptedAnswersItsChallenge, SerialInv, CountsInv, serial,
           NEW w \in Workers, Decide(w),
           NEW it, it = [nonce |-> worker[w].nonce, answer |-> worker[w].answer],
           AsMade(it), ~ Disputed(it), it \notin accepted
    PROVE  it \in accepted' <=> Eligible(it)
<1> PICK h, k, n : h = At(w) /\ k = worker[w].known /\ n = it.nonce
  OBVIOUS
<1>1. /\ worker[w] # Idle /\ worker[w].pc = "loaded"
      /\ h \in Hosts /\ n \in Nonces /\ asked[it.nonce] = h /\ k \in Int
      /\ it.answer \in Attestations
  BY VerifyOutcome
<1>2. it \in accepted' <=> Passes(it.answer, h, n, k)
  BY VerifyOutcome
<1>3. PICK g \in Hosts, c \in 0 .. SignCountMax : it.answer = Genuine(g, n, c)
  BY <1>1 DEF AsMade
<1>4. PICK a \in Attestations : a = it.answer /\ a = Genuine(g, n, c)
  BY <1>1, <1>3
<1>5. /\ a.quote.count = c /\ a.key = g
      /\ Passes(a, h, n, k) <=>
           CASE a.substrate = "AppleSeSubstrate" ->
                   g \in Registered /\ NonceBytes[n] >= 16 /\ 0 <= k /\ k < c
             [] a.substrate = "TpmSubstrate" ->
                   /\ g = h
                   /\ Issuer[h] = VendorRoot[h] /\ Issuer[VendorRoot[h]] = VendorRoot[h]
                   /\ NonceBytes[n] = 32
             [] OTHER -> FALSE
  BY ONLY <1>1, <1>3, <1>4, GenuineVerdict
<1>6. k = known[h]
  BY <1>1 DEF SerialInv
<1>7. first \in Int /\ c \in Int
  BY AttestationAssumption, NumbersAssumption DEF TypeOK
<1> DEFINE IsOld(old) == asked[old.nonce] = h /\ old.answer.substrate = "AppleSeSubstrate"
<1>8. ASSUME 0 <= first
      PROVE  0 <= k /\ k < c <=>
                first < c /\ \A old \in accepted : IsOld(old) => old.answer.quote.count < c
  <2>1. Reached(h, k)
    BY <1>1, <1>6 DEF CountsInv
  <2>2. ASSUME NEW old \in accepted, IsOld(old)
        PROVE  old.answer.quote.count <= k /\ old.answer.quote.count \in Int
    <3>1. old.answer \in Attestations
      BY DEF TypeOK, Accepts
    <3>2. old.answer.quote \in Quotes
      BY <3>1 DEF Attestations
    <3>3. old.answer.quote.count \in 0 .. SignCountMax
      BY <3>2 DEF Quotes
    <3>4. \A v \in Workers : worker[v].pc = "verified" => At(v) # h
      <4> SUFFICES ASSUME NEW v \in Workers, worker[v].pc = "verified" PROVE At(v) # h
        OBVIOUS
      <4>1. v # w /\ worker[v] # Idle
        BY <1>1 DEF Idle
      <4> QED BY <1>1, <4>1 DEF SerialInv
    <3>5. old.answer.quote.count <= known[h]
      BY <2>2, <3>4 DEF SerialInv
    <3> QED BY <1>6, <3>3, <3>5
  <2>3. k = first \/ (0 <= first /\ first < k)
    BY <2>1 DEF Reached
  <2>4. k # first => \E old \in accepted : IsOld(old) /\ old.answer.quote.count = k
    BY <2>1 DEF Reached
  <2>5. ASSUME 0 <= k, k < c
        PROVE  first < c /\ \A old \in accepted : IsOld(old) => old.answer.quote.count < c
    <3>1. first < c
      BY <1>1, <1>7, <2>3, <2>5
    <3>2. ASSUME NEW old \in accepted, IsOld(old) PROVE old.answer.quote.count < c
      <4>1. PICK d \in Int : d = old.answer.quote.count /\ d <= k
        BY <2>2, <3>2
      <4> QED BY <1>1, <1>7, <2>5, <4>1
    <3> QED BY <3>1, <3>2
  <2>6. ASSUME first < c, \A old \in accepted : IsOld(old) => old.answer.quote.count < c
        PROVE  0 <= k /\ k < c
    BY <1>1, <1>7, <1>8, <2>3, <2>4, <2>6
  <2> QED BY <2>5, <2>6
<1>9. CASE a.substrate = "AppleSeSubstrate"
  <2>0. 0 <= first
    BY <1>4, <1>7, <1>9 DEF Disputed
  <2>1. Eligible(it) <=> /\ g \in Registered /\ NonceBytes[n] >= 16 /\ first < c
                         /\ \A old \in accepted : IsOld(old) => old.answer.quote.count < c
    BY <1>1, <1>4, <1>5, <1>9 DEF Eligible
  <2>2. Passes(a, h, n, k) <=> g \in Registered /\ NonceBytes[n] >= 16 /\ 0 <= k /\ k < c
    BY <1>5, <1>9
  <2> HIDE DEF IsOld
  <2> QED BY <1>2, <1>4, <1>8, <2>0, <2>1, <2>2
<1>10. CASE a.substrate # "AppleSeSubstrate"
  BY <1>1, <1>2, <1>4, <1>5, <1>10 DEF Eligible
<1> QED BY <1>9, <1>10

(* Every counter the operator holds against an assertion is the one it     *)
(* passes for hosts never seen or the count of an accepted assertion of     *)
(* that very host, however many workers handle its answers at once.         *)
THEOREM CountersAreReached == Spec => []CountsInv
<1>1. Init => CountsInv
  BY DEF Init, CountsInv, Reached
<1>2. AttestationInv /\ CountsInv /\ [Next]_vars => CountsInv'
  BY CountsStep DEF AttestationInv
<1> QED BY <1>1, <1>2, AttestationInvHolds, PTL DEF Spec

(* Workers that keep apart refuse no genuine answer without a cause: the    *)
(* mapper and the verifier pass exactly what RefusedForCause lists, for any *)
(* hosts, roots and lengths of challenges.                                  *)
THEOREM RefusalsHaveCause == Spec => RefusedForCause
<1>1. AttestationInv /\ CountsInv /\ [Next]_vars =>
        [\A w \in Workers :
           LET it == [nonce |-> worker[w].nonce, answer |-> worker[w].answer]
           IN  /\ serial /\ worker[w].pc = "loaded" /\ worker'[w].pc # "loaded"
               /\ AsMade(it) /\ ~ Disputed(it) /\ it \notin accepted
               => (it \in accepted' <=> Eligible(it))]_vars
  <2> SUFFICES ASSUME AttestationInv, CountsInv, [Next]_vars, NEW w \in Workers,
                      serial, worker[w].pc = "loaded", worker'[w].pc # "loaded",
                      NEW it, it = [nonce |-> worker[w].nonce, answer |-> worker[w].answer],
                      AsMade(it), ~ Disputed(it), it \notin accepted
               PROVE  it \in accepted' <=> Eligible(it)
    OBVIOUS
  <2>1. Decide(w)
    BY LeavesLoaded DEF AttestationInv
  <2> QED BY <2>1, RefusalStep DEF AttestationInv
<1> QED BY <1>1, CountersAreReached, AttestationInvHolds, PTL DEF Spec, RefusedForCause

-----------------------------------------------------------------------------
(* The refinement of AcceptanceLedger *)

LEMMA OnlyChoice == \A x : (CHOOSE c \in {x} : TRUE) = x
OBVIOUS

\* Each step of the operator is one of the ledger, or none.
LEMMA LedgerStep ==
    ASSUME TypeOK, AnswersInv, AcceptedAnswersItsChallenge, SerialInv, [Next]_vars, serial'
    PROVE  Ledger!Next \/ UNCHANGED <<asked, LastCounts, Taken>>
<1> DEFINE Entered(it) == [host |-> asked[it.nonce], nonce |-> it.nonce, count |-> CountOf(it.answer)]
<1>1. serial
  BY DEF Next, vars, operatorVars, Challenge, Acquire, Attest, Load, Decide, Store, Bind, RotateKey,
         CheckBinding, Tick
<1>2. /\ \A v, w \in Workers : v # w /\ worker[v] # Idle /\ worker[w] # Idle => At(v) # At(w)
      /\ \A w \in Workers : worker[w].pc = "loaded" => worker[w].known = known[At(w)]
  BY <1>1 DEF SerialInv
<1>3. \A w \in Workers : worker[w].pc = "verified" =>
          /\ worker[w] # Idle /\ worker[w] \in WorkerStates
          /\ At(w) \in Hosts /\ asked'[worker[w].nonce] = At(w)
  <2> TAKE w \in Workers
  <2> HAVE worker[w].pc = "verified"
  <2>1. worker[w] # Idle /\ worker[w] \in WorkerStates
    BY BusyWorker
  <2>2. worker[w].nonce \in Nonces /\ asked[worker[w].nonce] # None
    BY <2>1 DEF WorkerStates, AnswersInv
  <2> QED BY <2>1, <2>2, AskedKept, AttestationAssumption DEF At, TypeOK
<1>4. \A it \in accepted : Entered(it)' = Entered(it)
  <2> TAKE it \in accepted
  <2>1. it.nonce \in Nonces /\ asked[it.nonce] # None
    BY DEF TypeOK, Accepts, AcceptedAnswersItsChallenge
  <2>2. asked'[it.nonce] = asked[it.nonce]
    BY <2>1, AskedKept
  <2> QED BY <2>2
<1>5. accepted' = accepted => Taken' = Taken
  BY <1>4 DEF Taken
\* What is pending for a host is what its busy worker brings.
<1>6. \A w \in Workers : worker[w].pc = "verified" => PendingCounts(At(w)) = {worker[w].known}
  <2> TAKE w \in Workers
  <2> HAVE worker[w].pc = "verified"
  <2>1. \A v \in Workers : worker[v].pc = "verified" /\ asked[worker[v].nonce] = At(w) => v = w
    BY <1>2, <1>3 DEF At
  <2> QED BY <2>1 DEF PendingCounts, At
<1>7. \A h \in Hosts : PendingCounts(h)' = PendingCounts(h) /\ known'[h] = known[h]
         => LastCounts'[h] = LastCounts[h]
  BY DEF LastCounts
<1>8. (\A h \in Hosts : LastCounts'[h] = LastCounts[h]) => LastCounts' = LastCounts
  BY DEF LastCounts
<1>9. CASE UNCHANGED <<known, worker, accepted>>
  <2>1. \A h \in Hosts : PendingCounts(h)' = PendingCounts(h)
    BY <1>3, <1>9 DEF PendingCounts, At
  <2>2. UNCHANGED <<LastCounts, Taken>>
    BY <1>5, <1>7, <1>8, <1>9, <2>1
  <2>3. ASSUME NEW n \in Nonces, NEW h \in Enrolled, Challenge(n, h) PROVE Ledger!Next
    BY <2>2, <2>3, AttestationAssumption DEF Challenge, Ledger!Next, Ledger!Give
  <2>4. CASE UNCHANGED asked
    BY <2>2, <2>4
  <2> QED BY <1>9, <2>3, <2>4 DEF Next, vars, operatorVars, bindingVars, Acquire, Attest, Load, Decide,
                                  Store, Bind, RotateKey, CheckBinding, Tick
<1>10. ASSUME NEW w \in Workers, NEW n \in Nonces, NEW a, Load(w, n, a)
       PROVE  UNCHANGED <<asked, LastCounts, Taken>>
  <2>1. /\ worker[w].pc = "idle" /\ worker'[w].pc = "loaded"
        /\ \A v \in Workers \ {w} : worker'[v] = worker[v]
        /\ UNCHANGED <<asked, known, accepted>>
    BY <1>10 DEF Load, TypeOK, Idle
  <2>2. \A h \in Hosts : PendingCounts(h)' = PendingCounts(h)
    BY <2>1 DEF PendingCounts
  <2> QED BY <1>5, <1>7, <1>8, <2>1, <2>2
<1>11. ASSUME NEW w \in Workers, Decide(w)
       PROVE  Ledger!Next \/ UNCHANGED <<asked, LastCounts, Taken>>
  <2>0. /\ worker[w] \in WorkerStates /\ worker[w].pc = "loaded" /\ worker[w] # Idle
        /\ At(w) \in Hosts
    BY <1>11, BusyWorker, VerifyFacts DEF At
  <2> PICK at \in WorkerStates : at = worker[w]
    BY <2>0
  <2> PICK h \in Hosts : h = At(w)
    BY <2>0
  <2> DEFINE it == [nonce |-> at.nonce, answer |-> at.answer]
             c  == at.answer.quote.count
             n  == at.nonce
  <2>1. /\ at = worker[w] /\ at.pc = "loaded" /\ at # Idle /\ n \in Nonces
        /\ at.answer \in Attestations /\ h \in Hosts /\ h # None /\ asked[n] = h
    BY <2>0, HostsAssumption DEF WorkerStates, At
  <2>2. c \in 0 .. SignCountMax
    <3>1. at.answer.quote \in Quotes
      BY <2>1 DEF Attestations
    <3> QED BY <3>1 DEF Quotes
  <2>3. UNCHANGED <<asked, known>> /\ \A v \in Workers \ {w} : worker'[v] = worker[v]
    BY <1>11 DEF Decide, TypeOK
  <2>4. it.nonce = n /\ it.answer = at.answer
    OBVIOUS
  <2>5. PendingCounts(h) = {}
    BY <1>2, <1>3, <2>1 DEF PendingCounts, At
  <2>6. LastCounts[h] = known[h] /\ at.known = known[h]
    BY <1>2, <2>1, <2>5 DEF LastCounts, At
  <2>7. CASE UNCHANGED accepted /\ worker'[w] = Idle
    <3>1. \A g \in Hosts : PendingCounts(g)' = PendingCounts(g)
      BY <2>1, <2>3, <2>7 DEF PendingCounts, Idle
    <3> QED BY <1>5, <1>7, <1>8, <2>3, <2>7, <3>1
  <2>8. accepted' = accepted \cup {it} => Taken' = Taken \cup {Entered(it)}
    <3>1. PICK one : one = it
      OBVIOUS
    <3>2. ASSUME accepted' = accepted \cup {one} PROVE Taken' = Taken \cup {Entered(one)'}
      BY <1>4, <3>2 DEF Taken
    <3>3. Entered(one)' = Entered(one)
      BY <2>3
    <3>4. accepted' = accepted \cup {one} => Taken' = Taken \cup {Entered(one)}
      BY <3>2, <3>3
    <3> HIDE DEF Entered, it
    <3> QED BY <3>1, <3>4
  <2>9. CASE /\ accepted' = accepted \cup {it} /\ worker'[w] = Idle
             /\ at.answer.substrate # "AppleSeSubstrate"
    <3>1. \A g \in Hosts : PendingCounts(g)' = PendingCounts(g)
      BY <2>1, <2>3, <2>9 DEF PendingCounts, Idle
    <3>2. LastCounts' = LastCounts
      BY <1>7, <1>8, <2>3, <3>1
    <3>3. Entered(it) = [host |-> h, nonce |-> n, count |-> None]
      BY <2>1, <2>4, <2>9 DEF CountOf
    <3>4. Taken' = Taken \cup {[host |-> h, nonce |-> n, count |-> None]}
      BY <2>8, <2>9, <3>3
    <3>5. Ledger!TakeUncounted(n)
      BY <2>1, <2>3, <3>2, <3>4 DEF Ledger!TakeUncounted, Ledger!Entry
    <3> QED BY <2>1, <3>5 DEF Ledger!Next
  <2>10. CASE /\ accepted' = accepted \cup {it}
              /\ worker'[w] = [pc |-> "verified", nonce |-> n, answer |-> at.answer, known |-> c]
              /\ c > at.known /\ at.answer.substrate = "AppleSeSubstrate"
    <3>1. worker'[w].pc = "verified" /\ worker'[w].nonce = n /\ worker'[w].known = c
      BY <2>10
    <3>2. PendingCounts(h)' = {c}
      <4>1. \A v \in Workers \ {w} : ~ (worker[v].pc = "verified" /\ asked[worker[v].nonce] = h)
        BY <2>5 DEF PendingCounts
      <4> QED BY <2>1, <2>3, <3>1, <4>1 DEF PendingCounts
    <3>3. \A g \in Hosts \ {h} : PendingCounts(g)' = PendingCounts(g)
      <4>1. worker[w].pc # "verified" /\ asked[worker'[w].nonce] = h
        BY <2>1, <3>1
      <4> QED BY <2>1, <2>3, <4>1 DEF PendingCounts
    <3>4. LastCounts'[h] = c
      BY <2>1, <3>2, OnlyChoice DEF LastCounts
    <3>5. LastCounts' = [LastCounts EXCEPT ![h] = c]
      <4>1. \A g \in Hosts \ {h} : LastCounts'[g] = LastCounts[g]
        BY <1>7, <2>3, <3>3
      <4>2. DOMAIN LastCounts = Hosts /\ DOMAIN LastCounts' = Hosts
        BY DEF LastCounts
      <4>3. LastCounts = [g \in Hosts |-> LastCounts[g]] /\ LastCounts' = [g \in Hosts |-> LastCounts'[g]]
        BY DEF LastCounts
      <4> QED BY <2>1, <3>4, <4>1, <4>2, <4>3
    <3>6. Entered(it) = [host |-> h, nonce |-> n, count |-> c]
      BY <2>1, <2>4, <2>10 DEF CountOf
    <3>7. Taken' = Taken \cup {[host |-> h, nonce |-> n, count |-> c]}
      BY <2>8, <2>10, <3>6
    <3>8. c > LastCounts[h]
      BY <2>6, <2>10
    <3>9. Ledger!TakeCounted(n, c)
      BY <2>1, <2>3, <3>5, <3>7, <3>8 DEF Ledger!TakeCounted, Ledger!Entry
    <3> QED BY <2>1, <2>2, <3>9 DEF Ledger!Next
  <2>11. \/ UNCHANGED accepted /\ worker' = [worker EXCEPT ![w] = Idle]
         \/ /\ accepted' = accepted \cup {it}
            /\ \/ /\ worker' = [worker EXCEPT ![w] = [at EXCEPT !.pc = "verified", !.known = c]]
                  /\ c > at.known /\ at.answer.substrate = "AppleSeSubstrate"
               \/ /\ worker' = [worker EXCEPT ![w] = Idle]
                  /\ at.answer.substrate # "AppleSeSubstrate"
    BY <1>11, <2>1, VerifyFacts
  <2>12. [at EXCEPT !.pc = "verified", !.known = c]
           = [pc |-> "verified", nonce |-> n, answer |-> at.answer, known |-> c]
    BY <2>1, TakenRecord
  <2>13. \A x : worker' = [worker EXCEPT ![w] = x] => worker'[w] = x
    BY DEF TypeOK
  <2> QED BY <2>7, <2>9, <2>10, <2>11, <2>12, <2>13
<1>12. ASSUME NEW w \in Workers, Store(w)
       PROVE  UNCHANGED <<asked, LastCounts, Taken>>
  <2>1. /\ worker[w].pc = "verified"
        /\ UNCHANGED <<asked, accepted>>
        /\ worker'[w] = Idle
        /\ \A v \in Workers \ {w} : worker'[v] = worker[v]
        /\ known' = [known EXCEPT ![At(w)] = worker[w].known]
    BY <1>12 DEF Store, TypeOK, At
  <2>2. PICK h \in Hosts : h = At(w) /\ PendingCounts(h) = {worker[w].known}
    BY <1>3, <1>6, <2>1
  <2>3. LastCounts[h] = worker[w].known
    BY <2>2, OnlyChoice DEF LastCounts
  <2>4. \A v \in Workers : worker[v].pc = "verified" /\ asked[worker[v].nonce] = h => v = w
    BY <1>2, <1>3, <2>1, <2>2 DEF At
  <2>5. PendingCounts(h)' = {}
    BY <2>1, <2>4 DEF PendingCounts, Idle
  <2>6. LastCounts'[h] = worker[w].known
    BY <2>1, <2>2, <2>5 DEF LastCounts, TypeOK
  <2>7. \A g \in Hosts \ {h} : PendingCounts(g)' = PendingCounts(g) /\ known'[g] = known[g]
    BY <2>1, <2>2 DEF PendingCounts, Idle, At, TypeOK
  <2>8. \A g \in Hosts : LastCounts'[g] = LastCounts[g]
    BY <1>7, <2>3, <2>6, <2>7
  <2> QED BY <1>5, <1>8, <2>1, <2>8
<1> QED BY <1>9, <1>10, <1>11, <1>12 DEF Next, vars, operatorVars, bindingVars, Challenge, Acquire,
                                         Attest, Bind, RotateKey, CheckBinding, Tick

(***************************************************************************)
(* As long as the operator handles one answer of a host at a time, load,   *)
(* verify and store implement AcceptanceLedger.                            *)
(***************************************************************************)
THEOREM AcceptanceIsAtomic == Spec => IsLedger
<1>1. Init => Ledger!Init
  <2> SUFFICES ASSUME Init PROVE Ledger!Init
    OBVIOUS
  <2>1. \A h \in Hosts : PendingCounts(h) = {}
    BY DEF Init, PendingCounts, Idle
  <2>2. LastCounts = [h \in Hosts |-> first]
    BY <2>1 DEF Init, LastCounts
  <2>3. Taken = {}
    BY DEF Init, Taken
  <2> QED BY <2>2, <2>3 DEF Init, Ledger!Init
<1>2. AttestationInv /\ [Next]_vars => [serial' => Ledger!Next]_(Ledger!lvars)
  BY LedgerStep DEF AttestationInv, Ledger!lvars
<1> QED BY <1>1, <1>2, AttestationInvHolds, PTL DEF Spec, IsLedger
=============================================================================
