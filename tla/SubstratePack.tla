--------------------------- MODULE SubstratePack ---------------------------
(***************************************************************************)
(* The functions of substrate-pack/: what a host's agent acquires, how the *)
(* operator maps it to a verifier's inputs, and the three verifiers.  None *)
(* of them keeps state; Attestation composes them.                         *)
(*                                                                         *)
(* A host's attestation key and its certificate go by the host's name.  A  *)
(* signature is the key and the quote it was made over.  A quote holds the *)
(* fields the verifiers read from the TPMS_ATTEST bytes, the App Attest    *)
(* authenticatorData and clientDataJSON, or the TD or SNP report; `whole'  *)
(* says whether the bytes still parse.                                     *)
(***************************************************************************)
EXTENDS Integers

CONSTANTS
    Hosts,          \* the machines agents run on
    System,         \* platform.system() and machine of each
    Nodes,          \* the device nodes each has: subsets of DeviceNodes
    Measurements,   \* digests of an agent's binary or a VM's image
    Image,          \* what each host's hardware measures
    Registered,     \* hosts with an app registered for AIEGIS_APP_ATTEST_RP_ID
    Certs,          \* certificates other than the hosts' own
    Issuer,         \* who issued each certificate
    VendorRoot,     \* the vendor_root_ca_der the operator passes for each host
    Nonces,         \* the operator's challenges
    NonceBytes,     \* their lengths
    SignCountMax,   \* 2^32 - 1
    SubstrateError, RuntimeError,   \* what a call may raise
    Zeros,          \* 64 bytes nobody signed
    None

DeviceNodes == {"tpm0", "tdx_guest", "sev-guest"}

ASSUME HostsAssumption ==
    /\ System \in [Hosts -> {"Darwin arm64", "Darwin x86_64", "Linux", "Windows", "other"}]
    /\ Nodes \in [Hosts -> SUBSET DeviceNodes]
    /\ "placeholder" \in Measurements /\ "zeros" \notin Measurements \* they are SHA digests
    /\ Image \in [Hosts -> Measurements]
    /\ Registered \subseteq Hosts
    /\ None \notin Hosts

ASSUME CertsAssumption ==
    /\ Issuer \in [Hosts \cup Certs -> Certs]
    /\ VendorRoot \in [Hosts -> Certs]

ASSUME NumbersAssumption ==
    /\ NonceBytes \in [Nonces -> Nat]
    /\ SignCountMax \in Nat \ {0}

Substrates == {"TpmSubstrate", "AppleSeSubstrate", "TeeSubstrate"}

Quotes ==
    [nonce : Nonces, measured : Measurements, count : 0 .. SignCountMax,
     rp : {"aiegis.ie", "other app"}, agent : Hosts, whole : BOOLEAN]

\* A live-context attestation; the mappers look for the fields they need.
Attestations ==
    [substrate : Substrates,
     vendor    : {None, "intel-tdx", "amd-sev-snp", "IntelTdx", "AmdSevSnp"},
     quote     : Quotes,
     claimed   : Measurements \cup {None},
     key       : Hosts,
     signature : {None, Zeros} \cup [key : Hosts, quote : Quotes]]

\* An exception is no value a call returns, and a field that is missing holds none.
ASSUME SentinelAssumption ==
    /\ None \notin Measurements
    /\ {None, Zeros} \cap [key : Hosts, quote : Quotes] = {}
    /\ SubstrateError \notin [valid : BOOLEAN, counter : Int]
    /\ SubstrateError \notin
         [att : Attestations, host : Hosts, nonce : Nonces, ek : Certs, root : Certs,
          expected : Measurements \cup {"zeros"}]
    /\ SubstrateError \notin [att : Attestations, nonce : Nonces, known : Int]

-----------------------------------------------------------------------------
(* agent_substrate_acquirer_reference *)

Detected(kind, vendor) == [kind |-> kind, vendor |-> vendor]

\* Native hardware first, then a confidential VM.
OnLinux(nodes) ==
    IF "tpm0" \in nodes THEN Detected("TpmSubstrate", None)
    ELSE IF "tdx_guest" \in nodes THEN Detected("TeeSubstrate", "intel-tdx")
    ELSE IF "sev-guest" \in nodes THEN Detected("TeeSubstrate", "amd-sev-snp")
    ELSE Detected("None", None)

DetectSubstrate(h) ==
    CASE System[h] = "Darwin arm64" -> Detected("AppleSeSubstrate", None)
      [] System[h] = "Windows"      -> Detected("TpmSubstrate", None)
      [] System[h] = "Linux"        -> OnLinux(Nodes[h])
      [] OTHER                      -> Detected("None", None)

Kind(h) == DetectSubstrate(h).kind

Quote(n, m, c, rp, h) ==
    [nonce |-> n, measured |-> m, count |-> c, rp |-> rp, agent |-> h, whole |-> TRUE]

\* The vendors as the stub spells them.
StubVendor(v) ==
    CASE v = "intel-tdx" -> "IntelTdx" [] v = "amd-sev-snp" -> "AmdSevSnp" [] OTHER -> v

\* Well-formed fields around a signature nobody made.
Stub(h, n) ==
    [substrate |-> Kind(h), vendor |-> StubVendor(DetectSubstrate(h).vendor),
     quote     |-> Quote(n, "placeholder", 1, "aiegis.ie", h),
     claimed   |-> "placeholder", key |-> h, signature |-> Zeros]

\* acquire_substrate_attestation
Acquired(h, n, allowNone) ==
    IF NonceBytes[n] # 32 THEN SubstrateError
    ELSE IF Kind(h) # "None" THEN Stub(h, n)
    ELSE IF allowNone THEN None
    ELSE RuntimeError

\* What a vendor's own tool delivers in the place of a stub (external): the
\* host's key signs the quote, and the vendor has the name the mapper knows.
Genuine(h, n, c) ==
    LET q == Quote(n, Image[h], c, IF h \in Registered THEN "aiegis.ie" ELSE "other app", h)
    IN  [substrate |-> Kind(h), vendor |-> DetectSubstrate(h).vendor, quote |-> q,
         claimed |-> Image[h], key |-> h, signature |-> [key |-> h, quote |-> q]]

-----------------------------------------------------------------------------
(* The verifiers.  Each result is the pair of `valid' and a counter.       *)

\* _verify_aik_signature, _verify_es256_signature
Signed(key, a) == a.signature = [key |-> key, quote |-> a.quote]

\* _verify_cert_chain: the child names the parent as its issuer and is signed by it.
ChainsTo(child, parent) == Issuer[child] = parent

\* The nonce's field in a quote and in a report is 32 bytes long.
FieldHolds(field, n) == field = n /\ NonceBytes[n] = 32

Result(valid, counter) == [valid |-> valid, counter |-> counter]

\* Mutant: the signature is verified with the key of whoever answers.
VerifyWithItsOwnKey(in) ==
    Result(/\ in.att.quote.whole
           /\ FieldHolds(in.att.quote.nonce, in.nonce)
           /\ in.att.quote.measured = in.expected
           /\ Signed(in.att.key, in.att)
           /\ ChainsTo(in.host, in.ek)
           /\ ChainsTo(in.ek, in.root), -1)

\* The mapper hands the vendor root over as the EK certificate as well, and
\* takes the expected digest from the attestation itself.
VerifyTpmQuote(in) ==
    Result(/\ in.att.quote.whole
           /\ FieldHolds(in.att.quote.nonce, in.nonce)
           /\ in.att.quote.measured = in.expected
           /\ Signed(in.host, in.att)
           /\ ChainsTo(in.host, in.ek)
           /\ ChainsTo(in.ek, in.root), -1)

\* Mutant: an assertion with the counter of the one before is taken.
NotBelow(count, known) == count >= known

\* Mutant: only the very same counter is refused.
NotTheSame(count, known) == count # known

Monotonic(count, known) == count > known

\* Mutant: the counter the caller passed is given back to it.
VerifyWithOldCounter(in) ==
    Result(/\ in.att.quote.rp = "aiegis.ie"
           /\ Monotonic(in.att.quote.count, in.known)
           /\ in.att.quote.nonce = in.nonce
           /\ Signed(in.att.key, in.att), in.known)

\* A clientDataJSON that does not parse never gets here.
VerifyAppleAssertion(in) ==
    Result(/\ in.att.quote.rp = "aiegis.ie"
           /\ Monotonic(in.att.quote.count, in.known)
           /\ in.att.quote.nonce = in.nonce
           /\ Signed(in.att.key, in.att), in.att.quote.count)

\* The stub that stands for the vendors' chain validation refuses all.
ReportChainValid(in) == FALSE

VerifyTeeReport(in) ==
    Result(/\ in.att.quote.whole
           /\ FieldHolds(in.att.quote.nonce, in.nonce)
           /\ in.att.quote.agent = in.host
           /\ in.att.quote.measured = in.expected
           /\ ReportChainValid(in), -1)

-----------------------------------------------------------------------------
(* substrate_context_mapper, each with the constructor of the inputs.      *)
(* `host' stands for what the operator holds on file for the host: its AIK *)
(* certificate, and the agent's public key that a TEE report must name.    *)

TpmInput(a, h, n) ==
    IF a.substrate # "TpmSubstrate" \/ a.signature = None \/ NonceBytes[n] < 16
    THEN SubstrateError
    ELSE [att |-> a, host |-> h, nonce |-> n, ek |-> VendorRoot[h], root |-> VendorRoot[h],
          expected |-> IF a.claimed = None THEN "zeros" ELSE a.claimed]

\* Mutant: the counter of a host never seen is out of range.
SeenBefore(known) == known \in 1 .. SignCountMax

CounterInRange(known) == known \in 0 .. SignCountMax

AppleInput(a, n, known) ==
    IF \/ a.substrate # "AppleSeSubstrate"
       \/ a.signature = None
       \/ ~ a.quote.whole
       \/ ~ CounterInRange(known)
       \/ NonceBytes[n] < 16
    THEN SubstrateError
    ELSE [att |-> a, nonce |-> n, known |-> known]

TeeInput(a, h, n) ==
    IF \/ a.substrate # "TeeSubstrate"
       \/ a.vendor \notin {"intel-tdx", "amd-sev-snp"}
       \/ None \in {a.signature, a.claimed}
       \/ NonceBytes[n] < 16
    THEN SubstrateError
    ELSE [att |-> a, host |-> h, nonce |-> n, expected |-> a.claimed]

Verdict(in, Verify(_)) == IF in = SubstrateError THEN SubstrateError ELSE Verify(in)

\* The operator takes the mapper and the verifier for the substrate the answer
\* names, as the mapper's module shows (lines 29-42); it asked h.
CheckAttestation(a, h, n, known) ==
    CASE a.substrate = "TpmSubstrate"     -> Verdict(TpmInput(a, h, n), VerifyTpmQuote)
      [] a.substrate = "AppleSeSubstrate" -> Verdict(AppleInput(a, n, known), VerifyAppleAssertion)
      [] a.substrate = "TeeSubstrate"     -> Verdict(TeeInput(a, h, n), VerifyTeeReport)

\* The mapper and the verifier take the answer.
Passes(a, h, n, known) ==
    LET r == CheckAttestation(a, h, n, known) IN r # SubstrateError /\ r.valid
=============================================================================
