----------------------- MODULE ComplianceBundleProofs -----------------------
(***************************************************************************)
(* Proofs about ComplianceBundle, for any operators, events, policies and  *)
(* bundle ids, and any limit on the number of events.                      *)
(***************************************************************************)
EXTENDS ComplianceBundle, FiniteSetTheorems, TLAPS

ParsedValues == Contents \cup {"keys once numbers"}

-----------------------------------------------------------------------------
(* Conversions of the hits in a payload. *)

LEMMA WithHitsType ==
    ASSUME NEW H, NEW G, NEW f, \A h \in H : f[h] \in G, NEW e \in Entries(H)
    PROVE  WithHits(f, e) \in Entries(G)
BY DEF WithHits, Entries

LEMMA WithHitsKeepsTheRest ==
    ASSUME NEW H, NEW f, NEW e \in Entries(H)
    PROVE  /\ WithHits(f, e).id = e.id
           /\ WithHits(f, e).decision = e.decision
           /\ WithHits(f, e).hits = f[e.hits]
BY DEF WithHits, Entries

LEMMA PayloadEntries ==
    ASSUME NEW H, NEW P, NEW p \in Payloads(H, P)
    PROVE  /\ p.entries \in Seq(Entries(H))
           /\ Len(p.entries) \in Nat
           /\ DOMAIN p.entries = 1 .. Len(p.entries)
           /\ \A i \in DOMAIN p.entries : p.entries[i] \in Entries(H)
<1>1. p.entries \in Seq(Entries(H))
  BY DEF Payloads
<1> QED
  BY <1>1

SameButEntries(p, q) ==
    /\ p.id = q.id /\ p.issuer = q.issuer /\ p.window = q.window
    /\ p.substrate = q.substrate /\ p.policy = q.policy
    /\ p.count = q.count /\ p.breakdown = q.breakdown

\* What MapHits(f, p) is.
Mapped(f, p, m) ==
    /\ SameButEntries(m, p)
    /\ DOMAIN m.entries = DOMAIN p.entries
    /\ Len(m.entries) = Len(p.entries)
    /\ \A i \in DOMAIN p.entries :
          /\ m.entries[i].id = p.entries[i].id
          /\ m.entries[i].decision = p.entries[i].decision
          /\ m.entries[i].hits = f[p.entries[i].hits]

LEMMA MapHitsType ==
    ASSUME NEW H, NEW G, NEW P, NEW f, \A h \in H : f[h] \in G, NEW p \in Payloads(H, P)
    PROVE  MapHits(f, p) \in Payloads(G, P) /\ Mapped(f, p, MapHits(f, p))
<1> DEFINE mapped == [i \in DOMAIN p.entries |-> WithHits(f, p.entries[i])]
<1>1. MapHits(f, p) = [p EXCEPT !.entries = mapped]
  BY DEF MapHits
<1>2. \A i \in DOMAIN p.entries : WithHits(f, p.entries[i]) \in Entries(G)
  BY PayloadEntries, WithHitsType
<1>3. mapped \in [1 .. Len(p.entries) -> Entries(G)] /\ Len(p.entries) \in Nat
  BY <1>2, PayloadEntries
<1>4. mapped \in Seq(Entries(G)) /\ DOMAIN mapped = DOMAIN p.entries /\ Len(mapped) = Len(p.entries)
  BY <1>3, PayloadEntries
<1>5. \A i \in DOMAIN p.entries : mapped[i] = WithHits(f, p.entries[i])
  OBVIOUS
<1> HIDE DEF mapped
<1>6. \A i \in DOMAIN p.entries : mapped[i].id = p.entries[i].id
         /\ mapped[i].decision = p.entries[i].decision /\ mapped[i].hits = f[p.entries[i].hits]
  BY <1>5, PayloadEntries, WithHitsKeepsTheRest
<1>7. MapHits(f, p).entries = mapped /\ MapHits(f, p) \in Payloads(G, P)
  BY <1>1, <1>4 DEF Payloads
<1>8. SameButEntries(MapHits(f, p), p)
  BY <1>1 DEF Payloads, SameButEntries
<1> QED
  BY <1>4, <1>6, <1>7, <1>8 DEF Mapped

LEMMA MapHitsKeepsTheRest ==
    ASSUME NEW H, NEW P, NEW f, NEW p \in Payloads(H, P)
    PROVE  Mapped(f, p, MapHits(f, p))
<1> DEFINE G == {f[h] : h \in H}
<1>1. \A h \in H : f[h] \in G
  OBVIOUS
<1> HIDE DEF G
<1> QED
  BY <1>1, MapHitsType

\* What MapData(f, p) is.
MappedData(f, p, m) ==
    /\ m.id = p.id /\ m.issuer = p.issuer /\ m.window = p.window
    /\ m.substrate = p.substrate /\ m.count = p.count /\ m.breakdown = p.breakdown
    /\ m.policy.hashes = p.policy.hashes
    /\ m.policy.rest = f[p.policy.rest]
    /\ DOMAIN m.entries = DOMAIN p.entries
    /\ Len(m.entries) = Len(p.entries)
    /\ \A i \in DOMAIN p.entries :
          /\ m.entries[i].id = p.entries[i].id
          /\ m.entries[i].decision = p.entries[i].decision
          /\ m.entries[i].hits = f[p.entries[i].hits]

LEMMA MapDataType ==
    ASSUME NEW D, NEW G, NEW f, \A d \in D : f[d] \in G,
           NEW p \in Payloads(D, PoliciesWith(D))
    PROVE  MapData(f, p) \in Payloads(G, PoliciesWith(G)) /\ MappedData(f, p, MapData(f, p))
<1> DEFINE m == MapHits(f, p)
           v == MapRest(f, p.policy)
<1>1. m \in Payloads(G, PoliciesWith(D)) /\ Mapped(f, p, m)
  BY MapHitsType
<1>2. MapData(f, p) = [m EXCEPT !.policy = MapRest(f, m.policy)]
  BY DEF MapData
<1> HIDE DEF m
<1>3. p.policy \in PoliciesWith(D)
  BY DEF Payloads
<1>4. v \in PoliciesWith(G) /\ v.hashes = p.policy.hashes /\ v.rest = f[p.policy.rest]
  BY <1>3 DEF MapRest, PoliciesWith
<1>5. MapData(f, p) = [m EXCEPT !.policy = v]
  BY <1>1, <1>2 DEF Mapped, SameButEntries
<1> HIDE DEF v
<1>6. /\ MapData(f, p) \in Payloads(G, PoliciesWith(G))
      /\ MapData(f, p).policy = v /\ MapData(f, p).entries = m.entries
      /\ MapData(f, p).id = m.id /\ MapData(f, p).issuer = m.issuer
      /\ MapData(f, p).window = m.window /\ MapData(f, p).substrate = m.substrate
      /\ MapData(f, p).count = m.count /\ MapData(f, p).breakdown = m.breakdown
  BY <1>1, <1>4, <1>5 DEF Payloads
<1> QED
  BY <1>1, <1>4, <1>6 DEF Mapped, SameButEntries, MappedData

\* Nothing but its fields tells a payload from another.
LEMMA SamePayload ==
    ASSUME NEW H, NEW P, NEW p \in Payloads(H, P), NEW q \in Payloads(H, P),
           SameButEntries(p, q), p.entries = q.entries
    PROVE  p = q
BY DEF Payloads, SameButEntries

LEMMA SameEntries ==
    ASSUME NEW H, NEW s \in Seq(Entries(H)), NEW t \in Seq(Entries(H)), Len(s) = Len(t),
           \A i \in DOMAIN s : s[i].id = t[i].id /\ s[i].decision = t[i].decision
                                  /\ s[i].hits = t[i].hits
    PROVE  s = t
<1>1. ASSUME NEW i \in 1 .. Len(s) PROVE s[i] = t[i]
  <2>1. s[i] \in Entries(H) /\ t[i] \in Entries(H)
    OBVIOUS
  <2> QED
    BY <2>1 DEF Entries
<1> QED
  BY <1>1

LEMMA CanonicalType ==
    ASSUME NEW p \in Payloads(ParsedValues, PoliciesWith(ParsedValues))
    PROVE  /\ Canonicalize(p) \in Payloads(CanonicalTexts, PoliciesWith(CanonicalTexts))
           /\ MappedData(DataText, p, Canonicalize(p))
<1>1. \A v \in ParsedValues : DataText[v] \in CanonicalTexts
  BY DEF CanonicalTexts, DataText, ParsedValues
<1> QED
  BY <1>1, MapDataType DEF Canonicalize

\* What a regulator relies on is in no data.
LEMMA CompleteWithoutData ==
    ASSUME NEW p \in Payloads(ParsedValues, PoliciesWith(ParsedValues))
    PROVE  Complete(Canonicalize(p)) <=> Complete(p)
<1> DEFINE m == Canonicalize(p)
<1>1. MappedData(DataText, p, m)
  BY CanonicalType
<1> HIDE DEF m
<1>2. Complete(m) <=> Complete(p)
  BY <1>1 DEF Complete, MappedData, FourHashes
<1> QED
  BY <1>2 DEF m

LEMMA HitsAreValues ==
    ASSUME hits \in [HitLists -> HitValues]
    PROVE  \A h \in HitLists : hits[h] \in Contents
BY HitsAssumption

LEMMA PoliciesAreTyped == \A v \in PolicyValues : v \in PoliciesWith(Contents)
BY PolicyAssumption DEF PoliciesWith

LEMMA ContentType ==
    ASSUME hits \in [HitLists -> HitValues], policy \in [Policies -> PolicyValues],
           NEW p \in Payloads(HitLists, Policies)
    PROVE  /\ Content(p) \in Payloads(Contents, PoliciesWith(Contents))
           /\ Content(p).entries = MapHits(hits, p).entries
           /\ Content(p).policy = policy[p.policy]
           /\ Content(p).id = p.id /\ Content(p).issuer = p.issuer
           /\ Content(p).window = p.window /\ Content(p).substrate = p.substrate
           /\ Content(p).count = p.count /\ Content(p).breakdown = p.breakdown
<1> DEFINE m == MapHits(hits, p)
<1>1. m \in Payloads(Contents, Policies) /\ SameButEntries(m, p)
  BY HitsAreValues, MapHitsType DEF Mapped
<1>2. Content(p) = [m EXCEPT !.policy = policy[m.policy]]
  BY DEF Content
<1> HIDE DEF m
<1>3. m.policy = p.policy /\ policy[m.policy] \in PoliciesWith(Contents)
  BY <1>1, PoliciesAreTyped DEF SameButEntries, Payloads
<1>4. Content(p) \in Payloads(Contents, PoliciesWith(Contents)) /\ Content(p).entries = m.entries
  BY <1>1, <1>2, <1>3 DEF Payloads
<1>5. /\ Content(p).policy = policy[p.policy]
      /\ Content(p).id = m.id /\ Content(p).issuer = m.issuer
      /\ Content(p).window = m.window /\ Content(p).substrate = m.substrate
      /\ Content(p).count = m.count /\ Content(p).breakdown = m.breakdown
  BY <1>1, <1>2, <1>3 DEF Payloads
<1> QED
  BY <1>1, <1>4, <1>5 DEF m, SameButEntries

LEMMA MoreData ==
    ASSUME NEW p \in Payloads(Contents, PoliciesWith(Contents))
    PROVE  p \in Payloads(ParsedValues, PoliciesWith(ParsedValues))
<1>1. /\ Entries(Contents) \subseteq Entries(ParsedValues)
      /\ PoliciesWith(Contents) \subseteq PoliciesWith(ParsedValues)
  BY DEF Entries, PoliciesWith, ParsedValues
<1>2. p.entries \in Seq(Entries(ParsedValues))
  BY <1>1, PayloadEntries
<1> QED
  BY <1>1, <1>2 DEF Payloads

LEMMA ParsedType ==
    ASSUME NEW p \in Payloads(Contents, PoliciesWith(Contents))
    PROVE  /\ MapData(Parsed, p) \in Payloads(ParsedValues, PoliciesWith(ParsedValues))
           /\ MappedData(Parsed, p, MapData(Parsed, p))
<1>1. \A v \in Contents : Parsed[v] \in ParsedValues
  BY DEF Parsed, ParsedValues, Contents
<1> QED
  BY <1>1, MapDataType

\* A value that has no number keys is read back as it was.
LEMMA ParsedIsSame ==
    ASSUME NEW p \in Payloads(Contents, PoliciesWith(Contents)),
           p.policy.rest # "number keys",
           \A i \in DOMAIN p.entries : p.entries[i].hits # "number keys"
    PROVE  MapData(Parsed, p) = p
<1> DEFINE m == MapData(Parsed, p)
           P == PoliciesWith(ParsedValues)
<1>1. m \in Payloads(ParsedValues, P) /\ MappedData(Parsed, p, m)
  BY ParsedType
<1> HIDE DEF m
<1>2. p \in Payloads(ParsedValues, P)
  BY MoreData
<1>3. ASSUME NEW i \in DOMAIN p.entries
      PROVE  m.entries[i].id = p.entries[i].id /\ m.entries[i].decision = p.entries[i].decision
               /\ m.entries[i].hits = p.entries[i].hits
  <2>1. p.entries[i] \in Entries(Contents)
    BY PayloadEntries
  <2>2. p.entries[i].hits \in Contents /\ p.entries[i].hits # "number keys"
    BY <2>1 DEF Entries
  <2>3. Parsed[p.entries[i].hits] = p.entries[i].hits
    BY <2>2 DEF Parsed
  <2> QED
    BY <1>1, <2>3 DEF MappedData
<1>4. m.policy = p.policy
  <2>1. m.policy \in P /\ p.policy \in P /\ p.policy \in PoliciesWith(Contents)
    BY <1>1, <1>2 DEF Payloads
  <2>2. Parsed[p.policy.rest] = p.policy.rest
    BY <2>1 DEF Parsed, PoliciesWith
  <2>3. m.policy.hashes = p.policy.hashes /\ m.policy.rest = p.policy.rest
    BY <1>1, <2>2 DEF MappedData
  <2>4. ASSUME NEW v \in P PROVE v = [hashes |-> v.hashes, rest |-> v.rest]
    BY <2>4 DEF PoliciesWith
  <2> QED
    BY <2>1, <2>3, <2>4
<1> HIDE DEF P
<1>5. m.entries \in Seq(Entries(ParsedValues)) /\ p.entries \in Seq(Entries(ParsedValues))
  BY <1>1, <1>2, PayloadEntries
<1>6. m.entries = p.entries
  <2>1. DOMAIN m.entries = DOMAIN p.entries /\ Len(m.entries) = Len(p.entries)
    BY <1>1 DEF MappedData
  <2> QED
    BY <1>3, <1>5, <2>1, SameEntries
<1>7. SameButEntries(m, p)
  BY <1>1, <1>4 DEF MappedData, SameButEntries
<1>8. m = p
  BY <1>1, <1>2, <1>6, <1>7, SamePayload
<1> QED
  BY <1>8 DEF m

-----------------------------------------------------------------------------
(* build_bundle *)

\* The three counts of the breakdown add up to the number of events.
LEMMA CountsAddUp ==
    ASSUME NEW n \in Nat, NEW s, DOMAIN s = 1 .. n,
           \A i \in 1 .. n : s[i].decision \in VALID_DECISIONS
    PROVE  /\ \A d \in VALID_DECISIONS : Count(s, d) \in Nat
           /\ n = Count(s, "block") + Count(s, "warn") + Count(s, "allow")
<1> DEFINE Of(d) == {i \in 1 .. n : s[i].decision = d}
           blocks == Of("block")
           warns == Of("warn")
           allows == Of("allow")
<1>1. IsFiniteSet(1 .. n) /\ Cardinality(1 .. n) = n
  BY FS_Interval
<1>2. /\ Count(s, "block") = Cardinality(blocks)
      /\ Count(s, "warn") = Cardinality(warns)
      /\ Count(s, "allow") = Cardinality(allows)
  BY DEF Count
<1>3. blocks \in SUBSET (1 .. n) /\ warns \in SUBSET (1 .. n) /\ allows \in SUBSET (1 .. n)
  OBVIOUS
<1>4. (blocks \cup warns) \cup allows = 1 .. n
  BY DEF VALID_DECISIONS
<1>5. blocks \cap warns = {} /\ (blocks \cup warns) \cap allows = {}
  OBVIOUS
<1> HIDE DEF blocks, warns, allows
<1>6. IsFiniteSet(blocks) /\ IsFiniteSet(warns) /\ IsFiniteSet(allows)
  BY <1>1, <1>3, FS_Subset
<1>7. /\ Cardinality(blocks) \in Nat /\ Cardinality(warns) \in Nat
      /\ Cardinality(allows) \in Nat /\ Cardinality({}) = 0
  BY <1>6, FS_CardinalityType, FS_EmptySet
<1>8. /\ IsFiniteSet(blocks \cup warns)
      /\ Cardinality(blocks \cup warns)
            = Cardinality(blocks) + Cardinality(warns) - Cardinality(blocks \cap warns)
  BY <1>6, FS_Union
<1>9. Cardinality((blocks \cup warns) \cup allows)
        = Cardinality(blocks \cup warns) + Cardinality(allows)
            - Cardinality((blocks \cup warns) \cap allows)
  BY <1>6, <1>8, FS_Union
<1>10. Cardinality(blocks \cup warns) = Cardinality(blocks) + Cardinality(warns)
  <2>1. Cardinality(blocks \cap warns) = 0
    BY <1>5, <1>7
  <2> QED
    BY <1>7, <1>8, <2>1
<1>11. n = Cardinality(blocks \cup warns) + Cardinality(allows)
  <2>1. Cardinality((blocks \cup warns) \cap allows) = 0
    BY <1>5, <1>7
  <2>2. Cardinality((blocks \cup warns) \cup allows) = n
    BY <1>1, <1>4
  <2> QED
    BY <1>7, <1>9, <1>10, <2>1, <2>2
<1>12. n = Count(s, "block") + Count(s, "warn") + Count(s, "allow")
  BY <1>2, <1>7, <1>10, <1>11
<1>13. \A d \in VALID_DECISIONS : Count(s, d) \in Nat
  BY <1>2, <1>7 DEF VALID_DECISIONS
<1> QED
  BY <1>12, <1>13

LEMMA EventsOfDraft ==
    ASSUME NEW s \in Drafts
    PROVE  /\ Len(s) \in Nat /\ DOMAIN s = 1 .. Len(s)
           /\ \A i \in DOMAIN s : s[i].id \in EventIds /\ s[i].hits \in HitLists
<1>1. s \in Seq({s[i] : i \in DOMAIN s}) /\ \A i \in DOMAIN s : s[i].hits \in HitLists
  BY DraftsAssumption
<1>2. \A i \in DOMAIN s : s[i].id \in EventIds
  BY DEF EventIds
<1> DEFINE S == {s[i] : i \in DOMAIN s}
<1>3. s \in Seq(S)
  BY <1>1
<1> HIDE DEF S
<1>4. Len(s) \in Nat /\ DOMAIN s = 1 .. Len(s)
  BY <1>3
<1> QED
  BY <1>1, <1>2, <1>4

LEMMA PayloadType ==
    ASSUME NEW a \in Arguments(Keys \cup {"short"}, Dids), NEW b \in BundleIds \cup {Absent},
           \A i \in DOMAIN a.events : ValidEvent(a.events[i])
    PROVE  /\ Payload(a, b) \in Payloads(HitLists, Policies)
           /\ Payload(a, b).id = b /\ Payload(a, b).issuer = a.did
           /\ Payload(a, b).window = a.window /\ Payload(a, b).substrate = a.attested
           /\ Payload(a, b).policy = a.policy
           /\ DOMAIN Payload(a, b).entries = DOMAIN a.events
           /\ \A i \in DOMAIN a.events : Payload(a, b).entries[i].id = a.events[i].id
           /\ Payload(a, b).count = Len(Payload(a, b).entries)
           /\ Payload(a, b).count = Payload(a, b).breakdown["block"]
                 + Payload(a, b).breakdown["warn"] + Payload(a, b).breakdown["allow"]
<1> DEFINE s == a.events
           list == [i \in DOMAIN s |-> [id |-> s[i].id, decision |-> s[i].decision, hits |-> s[i].hits]]
           counts == [d \in VALID_DECISIONS |-> Count(s, d)]
<1>1. /\ a.events \in Drafts /\ a.did \in Dids /\ a.window \in Windows
      /\ a.attested \in BOOLEAN /\ a.policy \in Policies
  BY DEF Arguments
<1>2. /\ Len(s) \in Nat /\ DOMAIN s = 1 .. Len(s)
      /\ \A i \in DOMAIN s : s[i].id \in EventIds /\ s[i].hits \in HitLists
  BY <1>1, EventsOfDraft
<1>3. \A i \in DOMAIN s : s[i].decision \in VALID_DECISIONS
  BY DEF ValidEvent
<1>4. /\ \A d \in VALID_DECISIONS : Count(s, d) \in Nat
      /\ Len(s) = Count(s, "block") + Count(s, "warn") + Count(s, "allow")
  <2> HIDE DEF s
  <2> QED
    BY <1>2, <1>3, CountsAddUp
<1>5. /\ counts \in [VALID_DECISIONS -> Nat]
      /\ Len(s) = counts["block"] + counts["warn"] + counts["allow"]
  <2>1. \A d \in VALID_DECISIONS : counts[d] = Count(s, d)
    OBVIOUS
  <2> QED
    BY <1>4, <2>1 DEF VALID_DECISIONS
<1> HIDE DEF s
<1>6. list \in [1 .. Len(s) -> Entries(HitLists)]
  BY <1>2, <1>3 DEF Entries
<1>7. list \in Seq(Entries(HitLists)) /\ DOMAIN list = DOMAIN s /\ Len(list) = Len(s)
  BY <1>2, <1>6
<1>8. \A i \in DOMAIN s : list[i].id = s[i].id
  OBVIOUS
<1>9. Payload(a, b) = [id |-> b, issuer |-> a.did, window |-> a.window, substrate |-> a.attested,
                       entries |-> list, policy |-> a.policy, count |-> Len(s), breakdown |-> counts]
  BY DEF Payload, s
<1> HIDE DEF list, counts
<1>10. Payload(a, b) \in Payloads(HitLists, Policies)
  BY <1>1, <1>2, <1>5, <1>7, <1>9 DEF Payloads
<1> QED
  BY <1>5, <1>7, <1>8, <1>9, <1>10 DEF s

-----------------------------------------------------------------------------
(* What holds of a bundle from its build on, and while nobody edits what it *)
(* refers to.                                                              *)

Sound(x, b) ==
    /\ x \in Bundles
    /\ x.payload.id = b
    /\ x.payload.issuer.tier = "operator"
    /\ x.proof.key = x.payload.issuer.key
    /\ x.proof.attested = x.payload.substrate
    /\ x.proof.text.substrate = x.payload.substrate
    /\ x.proof.text.issuer = x.payload.issuer
    /\ Complete(x.proof.text)

Current(x) ==
    /\ x.proof.text = Canonicalize(Content(x.payload))
    /\ Serialisable(Content(x.payload))

Objects ==
    /\ hits \in [HitLists -> HitValues]
    /\ policy \in [Policies -> PolicyValues]

\* The content of a payload depends on its id only in its id.
LEMMA SameSerialisable ==
    ASSUME Objects, NEW a \in Arguments(Keys \cup {"short"}, Dids), NEW b \in BundleIds,
           \A i \in DOMAIN a.events : ValidEvent(a.events[i])
    PROVE  Serialisable(Content(Payload(a, Absent))) <=> Serialisable(Content(Payload(a, b)))
<1>0. Payload(a, Absent).policy = Payload(a, b).policy
  BY DEF Payload
<1>1. Payload(a, Absent).entries = Payload(a, b).entries
  BY DEF Payload
<1>2. /\ Payload(a, Absent) \in Payloads(HitLists, Policies)
      /\ Payload(a, b) \in Payloads(HitLists, Policies)
  BY PayloadType
<1> HIDE DEF Payload
<1>3. ASSUME NEW p \in Payloads(HitLists, Policies)
      PROVE  Content(p).entries = [i \in DOMAIN p.entries |-> WithHits(hits, p.entries[i])]
  <2>1. Content(p).entries = MapHits(hits, p).entries
    BY ContentType DEF Objects
  <2>2. MapHits(hits, p).entries = [i \in DOMAIN p.entries |-> WithHits(hits, p.entries[i])]
    BY DEF MapHits, Payloads
  <2> QED
    BY <2>1, <2>2
<1>4. Content(Payload(a, Absent)).entries = Content(Payload(a, b)).entries
  BY <1>1, <1>2, <1>3
<1>5. Payload(a, Absent).policy = Payload(a, b).policy
  BY <1>0
<1>6. Content(Payload(a, Absent)).policy = Content(Payload(a, b)).policy
  BY <1>2, <1>5, ContentType DEF Objects
<1> QED
  BY <1>4, <1>6 DEF Serialisable

LEMMA BuiltIsSound ==
    ASSUME Objects, NEW a \in Arguments(Keys \cup {"short"}, Dids), NEW b \in BundleIds,
           BuildResult(a) = "ok", NEW x, x = [payload |-> Payload(a, b), proof |-> Proof(a, b)]
    PROVE  Sound(x, b) /\ Current(x)
<1> DEFINE p == Payload(a, b)
           c == Content(p)
           t == Canonicalize(c)
<1>1. /\ \A i \in DOMAIN a.events : ValidEvent(a.events[i])
      /\ Buildable(a)
      /\ Serialisable(Content(Payload(a, Absent)))
  BY DEF BuildResult
<1>2. Serialisable(c)
  BY <1>1, SameSerialisable
<1>3. /\ p \in Payloads(HitLists, Policies)
      /\ p.id = b /\ p.issuer = a.did /\ p.window = a.window /\ p.substrate = a.attested
      /\ p.policy = a.policy
      /\ DOMAIN p.entries = DOMAIN a.events
      /\ \A i \in DOMAIN a.events : p.entries[i].id = a.events[i].id
      /\ p.count = Len(p.entries)
      /\ p.count = p.breakdown["block"] + p.breakdown["warn"] + p.breakdown["allow"]
  BY <1>1, b \in BundleIds \cup {Absent}, PayloadType
<1>4. /\ a.did.tier = "operator" /\ a.priv \in Keys /\ a.did.key = a.priv
      /\ a.window[1] < a.window[2] /\ FourHashes(policy[a.policy])
      /\ ~ DuplicateIds(a.events)
  BY <1>1 DEF Buildable, Linked
<1>5. Proof(a, b) = [value |-> "signature", key |-> a.priv, attested |-> a.attested, text |-> t]
  BY DEF Proof
<1> HIDE DEF p
<1>6. /\ c \in Payloads(Contents, PoliciesWith(Contents))
      /\ c.entries = MapHits(hits, p).entries
      /\ c.policy = policy[p.policy]
      /\ c.issuer = p.issuer /\ c.window = p.window /\ c.substrate = p.substrate
      /\ c.count = p.count /\ c.breakdown = p.breakdown
  BY <1>3, ContentType DEF Objects
<1>7. Mapped(hits, p, MapHits(hits, p))
  BY <1>3, MapHitsKeepsTheRest
<1>8. /\ DOMAIN c.entries = DOMAIN p.entries /\ Len(c.entries) = Len(p.entries)
      /\ \A i \in DOMAIN p.entries : c.entries[i].id = p.entries[i].id
  BY <1>6, <1>7 DEF Mapped
<1> HIDE DEF c
<1>9. \A i, j \in DOMAIN c.entries : c.entries[i].id = c.entries[j].id => i = j
  BY <1>3, <1>4, <1>8 DEF DuplicateIds
<1>10. Complete(c)
  BY <1>3, <1>4, <1>6, <1>8, <1>9 DEF Complete
<1>11. c \in Payloads(ParsedValues, PoliciesWith(ParsedValues))
  BY <1>6, MoreData
<1>12. t \in Payloads(CanonicalTexts, PoliciesWith(CanonicalTexts)) /\ MappedData(DataText, c, t)
  BY <1>11, CanonicalType
<1>13. Complete(t)
  BY <1>10, <1>11, CompleteWithoutData
<1> HIDE DEF t
<1>14. a.attested \in BOOLEAN
  BY DEF Arguments
<1>15. Proof(a, b) \in Proofs
  BY <1>4, <1>5, <1>12, <1>14 DEF Proofs
<1>16. x.payload = p /\ x.proof = Proof(a, b) /\ x \in Bundles
  BY <1>3, <1>15 DEF Bundles, p
<1>17. Sound(x, b)
  BY <1>3, <1>4, <1>5, <1>6, <1>12, <1>13, <1>16 DEF Sound, MappedData
<1>18. Current(x)
  BY <1>2, <1>5, <1>16 DEF Current, t, c
<1> QED
  BY <1>17, <1>18

-----------------------------------------------------------------------------
(* The invariant: a signature was made over a complete payload and is of   *)
(* what the bundle says as long as nobody edits it; what arrives has the   *)
(* signature it was sent with, or none that verifies.                      *)

ReceivedProofs ==
    [value : {"signature", "missing", "not hex", "short"}, key : Keys, attested : BOOLEAN,
     text : Payloads(CanonicalTexts, PoliciesWith(CanonicalTexts))]

Received ==
    [payload : Payloads(ParsedValues, PoliciesWith(ParsedValues)), proof : ReceivedProofs \cup {Absent},
     fresh : BOOLEAN]

Arrived(r, x) ==
    r.proof # Absent => r.proof.key = x.proof.key /\ r.proof.text = x.proof.text

AsSent(r, x) ==
    r.payload = MapData(Parsed, Content(x.payload)) /\ r.proof = x.proof

BundlesInv ==
    \A b \in BundleIds : bundles[b] # Absent =>
        Sound(bundles[b], b) /\ (b \notin edited => Current(bundles[b]))

ReceivedInv ==
    \A b \in BundleIds : received[b] # Absent =>
        /\ Arrived(received[b], bundles[b])
        /\ b \notin edited /\ received[b].fresh => AsSent(received[b], bundles[b])

BundleInv ==
    /\ BundleTypeOK
    /\ received \in [BundleIds -> Received \cup {Absent}]
    /\ BundlesInv
    /\ ReceivedInv

LEMMA Initially == BundleInit => BundleInv
BY DEF BundleInit, BundleInv, BundleTypeOK, BundlesInv, ReceivedInv, Outcomes

LEMMA Results == \A a : BuildResult(a) \in Outcomes
BY DEF BuildResult, Outcomes

LEMMA BuildStep ==
    ASSUME BundleInv, NEW a \in Arguments(Keys \cup {"short"}, Dids), Build(a)
    PROVE  BundleInv'
<1>1. UNCHANGED <<hits, policy, edited, received>>
  BY DEF Build
<1>2. last'.result \in Outcomes
  BY Results DEF Build, Returns, Outcomes
<1>3. CASE UNCHANGED bundles
  <2>1. BundleTypeOK'
    BY <1>1, <1>2, <1>3 DEF BundleInv, BundleTypeOK
  <2>2. BundlesInv'
    BY <1>1, <1>3 DEF BundleInv, BundlesInv, Current, Content
  <2>3. ReceivedInv'
    BY <1>1, <1>3 DEF BundleInv, ReceivedInv, AsSent, Content
  <2> QED
    BY <1>1, <2>1, <2>2, <2>3 DEF BundleInv
<1>4. ASSUME NEW b \in BundleIds, BuildResult(a) = "ok", bundles[b] = Absent,
             bundles' = [bundles EXCEPT ![b] = [payload |-> Payload(a, b), proof |-> Proof(a, b)]]
      PROVE  BundleInv'
  <2> DEFINE x == [payload |-> Payload(a, b), proof |-> Proof(a, b)]
  <2>1. Objects
    BY DEF BundleInv, BundleTypeOK, Objects
  <2>2. Sound(x, b) /\ Current(x)
    BY <1>4, <2>1, BuiltIsSound
  <2>3. x \in Bundles /\ x.payload.id = b /\ x.payload.issuer.tier = "operator"
    BY <2>2 DEF Sound
  <2>4. bundles' = [bundles EXCEPT ![b] = x]
    BY <1>4
  <2> HIDE DEF x
  <2>5. bundles \in [BundleIds -> Bundles \cup {Absent}]
    BY DEF BundleInv, BundleTypeOK
  <2>6. bundles' \in [BundleIds -> Bundles \cup {Absent}]
    BY <2>3, <2>4, <2>5
  <2>7. bundles'[b] = x /\ \A c \in BundleIds : c # b => bundles'[c] = bundles[c]
    BY <2>4, <2>5
  <2>8. received[b] = Absent /\ b \notin edited
    BY <1>4 DEF BundleInv, BundleTypeOK
  <2>9. BundleTypeOK'
    <3>1. edited \subseteq {c \in BundleIds : bundles'[c] # Absent}
      BY <2>7, <2>8 DEF BundleInv, BundleTypeOK
    <3>2. \A c \in BundleIds : bundles'[c] # Absent =>
             bundles'[c].payload.id = c /\ bundles'[c].payload.issuer.tier = "operator"
      BY <2>3, <2>7 DEF BundleInv, BundleTypeOK
    <3>3. \A c \in BundleIds : received[c] # Absent => bundles'[c] # Absent
      BY <2>7, <2>8 DEF BundleInv, BundleTypeOK
    <3> QED
      BY <1>1, <1>2, <2>6, <3>1, <3>2, <3>3 DEF BundleInv, BundleTypeOK
  <2>10. BundlesInv'
    <3>1. Sound(bundles'[b], b) /\ (bundles'[b].proof.text = Canonicalize(Content(bundles'[b].payload))
                                       /\ Serialisable(Content(bundles'[b].payload)))
      BY <2>2, <2>7 DEF Current
    <3>2. ASSUME NEW c \in BundleIds, c # b, bundles'[c] # Absent
          PROVE  Sound(bundles'[c], c) /\ (c \notin edited =>
                    /\ bundles'[c].proof.text = Canonicalize(Content(bundles'[c].payload))
                    /\ Serialisable(Content(bundles'[c].payload)))
      BY <2>7, <3>2 DEF BundleInv, BundlesInv, Current
    <3>3. \A p : Content(p) = [MapHits(hits', p) EXCEPT !.policy = policy'[@]]
      BY <1>1 DEF Content
    <3> QED
      BY <1>1, <3>1, <3>2, <3>3 DEF BundlesInv, Current, Content
  <2>11. ReceivedInv'
    <3>1. ASSUME NEW c \in BundleIds, received[c] # Absent
          PROVE  c # b /\ bundles'[c] = bundles[c]
      BY <2>7, <2>8, <3>1
    <3> QED
      BY <1>1, <3>1 DEF BundleInv, ReceivedInv, AsSent, Arrived, Content
  <2> QED
    BY <1>1, <2>9, <2>10, <2>11 DEF BundleInv
<1> QED
  BY <1>3, <1>4 DEF Build

\* The wrapper of the SDK builds nothing.
LEMMA BuildForAgentStep ==
    ASSUME BundleInv, NEW a, NEW k, NEW env, NEW found, BuildForAgent(a, k, env, found)
    PROVE  BundleInv'
<1>1. UNCHANGED <<hits, policy, bundles, edited, received>>
  BY DEF BuildForAgent
<1>2. last'.result \in Outcomes
  BY Results DEF BuildForAgent, Returns, Outcomes
<1> QED
  BY <1>1, <1>2
     DEF BundleInv, BundleTypeOK, BundlesInv, ReceivedInv, Current, AsSent, Content

-----------------------------------------------------------------------------
(* Edits: what refers to the edited object is in edited afterwards, and    *)
(* the content of the rest is what it was.                                 *)

LEMMA MapHitsAgree ==
    ASSUME NEW H, NEW P, NEW p \in Payloads(H, P), NEW f, NEW g,
           \A i \in DOMAIN p.entries : f[p.entries[i].hits] = g[p.entries[i].hits]
    PROVE  MapHits(f, p) = MapHits(g, p)
<1>1. \A i \in DOMAIN p.entries : WithHits(f, p.entries[i]) = WithHits(g, p.entries[i])
  BY PayloadEntries DEF WithHits
<1>2. [i \in DOMAIN p.entries |-> WithHits(f, p.entries[i])]
        = [i \in DOMAIN p.entries |-> WithHits(g, p.entries[i])]
  BY <1>1
<1> QED
  BY <1>2 DEF MapHits

\* All that an edit has to leave alone.
LEMMA EditStep ==
    ASSUME BundleInv, Objects', edited \subseteq edited', UNCHANGED <<bundles, received>>,
           edited' \subseteq {b \in BundleIds : bundles[b] # Absent}, last'.result \in Outcomes,
           \A b \in BundleIds : bundles[b] # Absent /\ b \notin edited' =>
              Content(bundles[b].payload)' = Content(bundles[b].payload)
    PROVE  BundleInv'
<1>1. BundleTypeOK' /\ (received \in [BundleIds -> Received \cup {Absent}])'
  BY DEF BundleInv, BundleTypeOK, Objects
<1>2. BundlesInv'
  BY DEF BundleInv, BundlesInv, Current
<1>3. ReceivedInv'
  BY DEF BundleInv, BundleTypeOK, ReceivedInv, AsSent
<1> QED
  BY <1>1, <1>2, <1>3 DEF BundleInv

LEMMA BuiltPayload ==
    ASSUME BundleInv, NEW b \in BundleIds, bundles[b] # Absent
    PROVE  bundles[b].payload \in Payloads(HitLists, Policies)
<1>1. bundles[b] \in Bundles
  BY DEF BundleInv, BundleTypeOK
<1> QED
  BY <1>1 DEF Bundles

LEMMA EditHitsStep ==
    ASSUME BundleInv, NEW h \in HitLists, NEW v \in HitValues, EditHits(h, v)
    PROVE  BundleInv'
<1>1. /\ hits' = [hits EXCEPT ![h] = v]
      /\ edited' = edited \cup {b \in BundleIds : bundles[b] # Absent /\
                        \E i \in DOMAIN bundles[b].payload.entries :
                            bundles[b].payload.entries[i].hits = h}
      /\ UNCHANGED <<policy, bundles, received>>
  BY DEF EditHits
<1>2. last'.result \in Outcomes
  BY DEF EditHits, Returns, Outcomes
<1>3. hits \in [HitLists -> HitValues]
  BY DEF BundleInv, BundleTypeOK
<1>4. Objects'
  BY <1>1, <1>3 DEF BundleInv, BundleTypeOK, Objects
<1>5. ASSUME NEW b \in BundleIds, bundles[b] # Absent, b \notin edited'
      PROVE  Content(bundles[b].payload)' = Content(bundles[b].payload)
  <2> DEFINE p == bundles[b].payload
  <2>1. p \in Payloads(HitLists, Policies)
    BY <1>5, BuiltPayload
  <2>2. \A i \in DOMAIN p.entries : p.entries[i].hits # h
    BY <1>1, <1>5
  <2>3. p' = p
    BY <1>1
  <2> HIDE DEF p
  <2>4. \A i \in DOMAIN p.entries : p.entries[i].hits \in HitLists
    <3>1. \A i \in DOMAIN p.entries : p.entries[i] \in Entries(HitLists)
      BY <2>1, PayloadEntries
    <3> QED
      BY <3>1 DEF Entries
  <2>5. \A i \in DOMAIN p.entries : hits'[p.entries[i].hits] = hits[p.entries[i].hits]
    BY <1>1, <1>3, <2>2, <2>4
  <2>6. MapHits(hits', p) = MapHits(hits, p)
    BY <2>1, <2>5, MapHitsAgree
  <2> QED
    BY <1>1, <2>3, <2>6 DEF Content, p
<1>6. edited \subseteq edited' /\ edited' \subseteq {b \in BundleIds : bundles[b] # Absent}
  BY <1>1 DEF BundleInv, BundleTypeOK
<1> QED
  BY <1>1, <1>2, <1>4, <1>5, <1>6, EditStep

LEMMA EditPolicyStep ==
    ASSUME BundleInv, NEW q \in Policies, NEW v \in PolicyValues, EditPolicy(q, v)
    PROVE  BundleInv'
<1>1. /\ policy' = [policy EXCEPT ![q] = v]
      /\ edited' = edited \cup {b \in BundleIds : bundles[b] # Absent /\ bundles[b].payload.policy = q}
      /\ UNCHANGED <<hits, bundles, received>>
  BY DEF EditPolicy
<1>2. last'.result \in Outcomes
  BY DEF EditPolicy, Returns, Outcomes
<1>3. policy \in [Policies -> PolicyValues]
  BY DEF BundleInv, BundleTypeOK
<1>4. Objects'
  BY <1>1, <1>3 DEF BundleInv, BundleTypeOK, Objects
<1>5. ASSUME NEW b \in BundleIds, bundles[b] # Absent, b \notin edited'
      PROVE  Content(bundles[b].payload)' = Content(bundles[b].payload)
  <2> DEFINE p == bundles[b].payload
             m == MapHits(hits, p)
  <2>1. p \in Payloads(HitLists, Policies)
    BY <1>5, BuiltPayload
  <2>2. p.policy # q /\ p.policy \in Policies
    BY <1>1, <1>5, <2>1 DEF Payloads
  <2>3. p' = p
    BY <1>1
  <2> HIDE DEF p
  <2>4. m.policy = p.policy
    BY <2>1, MapHitsKeepsTheRest DEF Mapped, SameButEntries
  <2>5. policy'[m.policy] = policy[m.policy]
    BY <1>1, <1>3, <2>2, <2>4
  <2>6. Content(p) = [m EXCEPT !.policy = policy[m.policy]]
    BY DEF Content
  <2>7. Content(p)' = [m EXCEPT !.policy = policy'[m.policy]]
    BY <1>1, <2>3 DEF Content
  <2> QED
    BY <2>5, <2>6, <2>7 DEF p
<1>6. edited \subseteq edited' /\ edited' \subseteq {b \in BundleIds : bundles[b] # Absent}
  BY <1>1 DEF BundleInv, BundleTypeOK
<1> QED
  BY <1>1, <1>2, <1>4, <1>5, <1>6, EditStep

-----------------------------------------------------------------------------
(* The way to the regulator. *)

LEMMA HandledType ==
    ASSUME NEW q \in Payloads(ParsedValues, PoliciesWith(ParsedValues)), NEW proof \in Proofs,
           NEW doc \in Handled([payload |-> q, proof |-> proof])
    PROVE  /\ doc.payload \in Payloads(ParsedValues, PoliciesWith(ParsedValues))
           /\ doc.proof # Absent => doc.proof \in ReceivedProofs /\ doc.proof.key = proof.key
                                    /\ doc.proof.text = proof.text
<1> DEFINE Attested(x) == [x EXCEPT !.attested = ~ @]
           emptied == [q EXCEPT !.entries = <<>>, !.count = 0]
           relinked == [q EXCEPT !.substrate = ~ @]
           cut == {[proof EXCEPT !.value = v] : v \in {"missing", "not hex", "short"}}
<1>1. proof \in ReceivedProofs
  BY DEF Proofs, ReceivedProofs
<1>2. emptied \in Payloads(ParsedValues, PoliciesWith(ParsedValues)) /\ relinked \in Payloads(ParsedValues, PoliciesWith(ParsedValues))
  <2>1. emptied \in Payloads(ParsedValues, PoliciesWith(ParsedValues))
    <3> DEFINE half == [q EXCEPT !.entries = <<>>]
    <3>1. <<>> \in Seq(Entries(ParsedValues))
      OBVIOUS
    <3>2. half \in Payloads(ParsedValues, PoliciesWith(ParsedValues))
      BY <3>1 DEF Payloads
    <3>3. emptied = [half EXCEPT !.count = 0]
      OBVIOUS
    <3> HIDE DEF half
    <3> QED
      BY <3>2, <3>3 DEF Payloads
  <2>2. relinked \in Payloads(ParsedValues, PoliciesWith(ParsedValues))
    BY DEF Payloads
  <2> QED
    BY <2>1, <2>2
<1>3. /\ Attested(proof) \in ReceivedProofs /\ Attested(proof).key = proof.key
      /\ Attested(proof).text = proof.text
  BY <1>1 DEF ReceivedProofs
<1>4. \A y \in cut : y \in ReceivedProofs /\ y.key = proof.key /\ y.text = proof.text
  BY <1>1 DEF ReceivedProofs
<1>5. /\ doc.payload \in {q, emptied, relinked}
      /\ doc.proof \in {proof, Absent, Attested(proof)} \cup cut
  <2> HIDE DEF emptied, relinked, cut, Attested
  <2>1. doc \in {[payload |-> q, proof |-> proof]}
                  \cup [payload : {emptied}, proof : {proof}]
                  \cup [payload : {q}, proof : {Absent} \cup cut \cup {Attested(proof)}]
                  \cup [payload : {relinked}, proof : {Attested(proof)}]
    BY DEF Handled, emptied, relinked, cut, Attested
  <2> QED
    BY <2>1
<1> HIDE DEF emptied, relinked, cut, Attested
<1> QED
  BY <1>1, <1>2, <1>3, <1>4, <1>5

LEMMA SendStep ==
    ASSUME BundleInv, NEW b \in BundleIds, Send(b)
    PROVE  BundleInv'
<1> DEFINE c == Content(bundles[b].payload)
           q == MapData(Parsed, c)
           proof == bundles[b].proof
<1>1. PICK doc \in Handled([payload |-> q, proof |-> proof]) :
         received' = [received EXCEPT ![b] = [payload |-> doc.payload, proof |-> doc.proof,
                        fresh |-> b \notin edited /\ doc.payload = q /\ doc.proof = proof]]
  BY DEF Send, AtHand
<1>2. UNCHANGED <<hits, policy, bundles, edited>> /\ bundles[b] # Absent
  BY DEF Send
<1>3. last'.result \in Outcomes
  BY DEF Send, Returns, Outcomes
<1>4. c \in Payloads(Contents, PoliciesWith(Contents))
  BY <1>2, BuiltPayload, ContentType DEF BundleInv, BundleTypeOK
<1> HIDE DEF c
<1>5. q \in Payloads(ParsedValues, PoliciesWith(ParsedValues))
  BY <1>4, ParsedType
<1>6. proof \in Proofs
  BY <1>2 DEF BundleInv, BundleTypeOK, Bundles
<1> HIDE DEF q, proof
<1>7. /\ doc.payload \in Payloads(ParsedValues, PoliciesWith(ParsedValues))
      /\ doc.proof # Absent => doc.proof \in ReceivedProofs /\ doc.proof.key = proof.key
                               /\ doc.proof.text = proof.text
  BY <1>5, <1>6, HandledType
<1> DEFINE r == [payload |-> doc.payload, proof |-> doc.proof,
                 fresh |-> b \notin edited /\ doc.payload = q /\ doc.proof = proof]
<1>8. r \in Received
  BY <1>7 DEF Received
<1>9. Arrived(r, bundles[b]) /\ (r.fresh => AsSent(r, bundles[b]))
  BY <1>7 DEF Arrived, AsSent, q, proof, c
<1>10. received' = [received EXCEPT ![b] = r]
  BY <1>1
<1> HIDE DEF r
<1>11. received \in [BundleIds -> Received \cup {Absent}]
  BY DEF BundleInv
<1>12. received' \in [BundleIds -> Received \cup {Absent}] /\ received'[b] = r
       /\ \A d \in BundleIds : d # b => received'[d] = received[d]
  BY <1>8, <1>10, <1>11
<1>13. BundleTypeOK'
  BY <1>2, <1>3, <1>12 DEF BundleInv, BundleTypeOK
<1>14. BundlesInv'
  BY <1>2 DEF BundleInv, BundlesInv, Current, Content
<1>15. ReceivedInv'
  <2> SUFFICES ASSUME NEW d \in BundleIds, received'[d] # Absent
               PROVE  /\ Arrived(received'[d], bundles'[d])
                      /\ d \notin edited' /\ received'[d].fresh => AsSent(received[d], bundles[d])'
    BY DEF ReceivedInv
  <2>1. CASE d = b
    BY <1>2, <1>9, <1>12, <2>1 DEF AsSent, Content
  <2>2. CASE d # b
    BY <1>2, <1>12, <2>2 DEF BundleInv, ReceivedInv, AsSent, Content
  <2> QED
    BY <2>1, <2>2
<1> QED
  BY <1>12, <1>13, <1>14, <1>15 DEF BundleInv

-----------------------------------------------------------------------------
(* The theorems. *)

LEMMA BundleStep == BundleInv /\ [BundleNext]_bundleVars => BundleInv'
<1> SUFFICES ASSUME BundleInv, [BundleNext]_bundleVars PROVE BundleInv'
  OBVIOUS
<1>1. ASSUME NEW a \in Arguments(Keys \cup {"short"}, Dids), Build(a) PROVE BundleInv'
  BY <1>1, BuildStep
<1>2. ASSUME NEW a \in Arguments({Absent}, {Absent}), NEW k \in Keys \cup {Absent},
             NEW env \in {"unset", "exists", "missing"}, NEW found \in BOOLEAN,
             BuildForAgent(a, k, env, found)
      PROVE  BundleInv'
  BY <1>2, BuildForAgentStep
<1>3. ASSUME NEW h \in HitLists, NEW v \in HitValues, EditHits(h, v) PROVE BundleInv'
  BY <1>3, EditHitsStep
<1>4. ASSUME NEW q \in Policies, NEW v \in PolicyValues, EditPolicy(q, v) PROVE BundleInv'
  BY <1>4, EditPolicyStep
<1>5. ASSUME NEW b \in BundleIds, Send(b) PROVE BundleInv'
  BY <1>5, SendStep
<1>6. CASE UNCHANGED bundleVars
  BY <1>6 DEF bundleVars, BundleInv, BundleTypeOK, BundlesInv, ReceivedInv, Current, AsSent, Content
<1> QED
  BY <1>1, <1>2, <1>3, <1>4, <1>5, <1>6 DEF BundleNext

THEOREM BundleInvariant == BundleSpec => []BundleInv
BY Initially, BundleStep, PTL DEF BundleSpec

(***************************************************************************)
(* Only well-formed events and operator DIDs get into a bundle.            *)
(***************************************************************************)
THEOREM TypeCorrect == BundleSpec => []BundleTypeOK
<1>1. BundleInv => BundleTypeOK
  BY DEF BundleInv
<1> QED
  BY <1>1, BundleInvariant, PTL

\* What "ok" says of a bundle.
LEMMA Verified ==
    ASSUME BundleInv, NEW b \in BundleIds, NEW k \in Keys,
           received[b] # Absent, Verify(received[b], k) = "ok"
    PROVE  /\ Sound(bundles[b], b)
           /\ received[b].payload \in Payloads(ParsedValues, PoliciesWith(ParsedValues))
           /\ bundles[b].proof.key = k
           /\ bundles[b].proof.text = Canonicalize(received[b].payload)
<1>1. received[b] \in Received /\ bundles[b] # Absent /\ Arrived(received[b], bundles[b])
  BY DEF BundleInv, BundleTypeOK, ReceivedInv
<1>2. received[b].proof # Absent
  BY DEF Verify
<1>3. received[b].proof \in ReceivedProofs
  BY <1>1, <1>2 DEF Received
<1>4. received[b].proof.value \in {"signature", "missing", "not hex", "short"}
  BY <1>3 DEF ReceivedProofs
<1>5. received[b].proof.key = k /\ received[b].proof.text = Canonicalize(received[b].payload)
  BY <1>2, <1>4 DEF Verify
<1> QED
  BY <1>1, <1>2, <1>5 DEF Arrived, BundleInv, BundlesInv, Received

(***************************************************************************)
(* What verifies is complete and the issuer's, whatever was edited or lost *)
(* after the signature.                                                    *)
(***************************************************************************)
THEOREM WhatVerifiesIsComplete == BundleSpec => []AcceptedIsComplete
<1>1. BundleInv => AcceptedIsComplete
  <2> SUFFICES ASSUME BundleInv, NEW b \in BundleIds, NEW k \in Keys,
                      received[b] # Absent, Verify(received[b], k) = "ok"
               PROVE  Complete(received[b].payload) /\ received[b].payload.issuer.key = k
    BY DEF AcceptedIsComplete
  <2> DEFINE p == received[b].payload
  <2>1. /\ Sound(bundles[b], b) /\ p \in Payloads(ParsedValues, PoliciesWith(ParsedValues))
        /\ bundles[b].proof.key = k /\ bundles[b].proof.text = Canonicalize(p)
    BY Verified
  <2> HIDE DEF p
  <2>2. Complete(p)
    BY <2>1, CompleteWithoutData DEF Sound
  <2>3. p.issuer = bundles[b].proof.text.issuer
    BY <2>1, CanonicalType DEF MappedData
  <2> QED
    BY <2>1, <2>2, <2>3 DEF Sound, p
<1> QED
  BY <1>1, BundleInvariant, PTL

(***************************************************************************)
(* A bundle that verifies tells, by its signed @context, whether it has    *)
(* the attestation it was built with.                                      *)
(***************************************************************************)
THEOREM LostAttestationsShow == BundleSpec => []AttestationAccountedFor
<1>1. BundleInv => AttestationAccountedFor
  <2> SUFFICES ASSUME BundleInv, NEW b \in BundleIds, NEW k \in Keys,
                      received[b] # Absent, Verify(received[b], k) = "ok"
               PROVE  received[b].payload.substrate = bundles[b].proof.attested
    BY DEF AttestationAccountedFor
  <2> DEFINE p == received[b].payload
  <2>1. /\ Sound(bundles[b], b) /\ p \in Payloads(ParsedValues, PoliciesWith(ParsedValues))
        /\ bundles[b].proof.text = Canonicalize(p)
    BY Verified
  <2> HIDE DEF p
  <2>2. p.substrate = bundles[b].proof.text.substrate
    BY <2>1, CanonicalType DEF MappedData
  <2> QED
    BY <2>1, <2>2 DEF Sound, p
<1> QED
  BY <1>1, BundleInvariant, PTL

(***************************************************************************)
(* No false alarm, for hits and policies of any kind at hand, and for      *)
(* those without number keys after they went through JSON.                 *)
(***************************************************************************)
LEMMA Verifies ==
    ASSUME NEW r, NEW k \in Keys, r.proof # Absent, r.proof.value = "signature", r.proof.key = k,
           r.proof.text = Canonicalize(r.payload), Serialisable(r.payload)
    PROVE  Verify(r, k) = "ok"
BY DEF Verify, VerifyRaises

THEOREM NoFalseAlarm == BundleSpec => []UneditedVerifies
<1>1. BundleInv => UneditedVerifies
  <2> SUFFICES ASSUME BundleInv, NEW b \in BundleIds, bundles[b] # Absent, b \notin edited
               PROVE  /\ Verify(AtHand(b), bundles[b].payload.issuer.key) = "ok"
                      /\ received[b] # Absent /\ received[b].fresh /\ ~ NumberKeys(b) =>
                            Verify(received[b], bundles[b].payload.issuer.key) = "ok"
    BY DEF UneditedVerifies
  <2> DEFINE x == bundles[b]
             c == Content(x.payload)
             k == x.payload.issuer.key
  <2>1. Sound(x, b) /\ Current(x)
    BY DEF BundleInv, BundlesInv
  <2>2. x.proof \in Proofs /\ x.payload \in Payloads(HitLists, Policies)
    BY <2>1 DEF Sound, Bundles
  <2>3. x.proof # Absent /\ x.proof.value = "signature" /\ x.proof.key = k /\ k \in Keys
    BY <2>1, <2>2, AbsentAssumption DEF Sound, Proofs
  <2>4. x.proof.text = Canonicalize(c) /\ Serialisable(c)
    BY <2>1 DEF Current
  <2>5. /\ c \in Payloads(Contents, PoliciesWith(Contents))
        /\ c.entries = MapHits(hits, x.payload).entries
        /\ c.policy = policy[x.payload.policy]
    BY <2>2, ContentType DEF BundleInv, BundleTypeOK
  <2>6. Mapped(hits, x.payload, MapHits(hits, x.payload))
    BY <2>2, MapHitsKeepsTheRest
  <2>7. AtHand(b).payload = c /\ AtHand(b).proof = x.proof
    BY DEF AtHand
  <2>8. ~ NumberKeys(b) => /\ c.policy.rest # "number keys"
                           /\ \A i \in DOMAIN c.entries : c.entries[i].hits # "number keys"
    <3>1. ~ NumberKeys(b) =>
             /\ policy[x.payload.policy].rest # "number keys"
             /\ \A i \in DOMAIN x.payload.entries : hits[x.payload.entries[i].hits] # "number keys"
      BY DEF NumberKeys
    <3> HIDE DEF c, x
    <3>2. /\ DOMAIN c.entries = DOMAIN x.payload.entries
          /\ \A i \in DOMAIN x.payload.entries :
                c.entries[i].hits = hits[x.payload.entries[i].hits]
      BY <2>5, <2>6 DEF Mapped
    <3> QED
      BY <2>5, <3>1, <3>2
  <2>9. received[b] # Absent /\ received[b].fresh => AsSent(received[b], x)
    BY DEF BundleInv, ReceivedInv
  <2> HIDE DEF c, k, x
  <2>10. Verify(AtHand(b), k) = "ok"
    BY <2>3, <2>4, <2>7, Verifies
  <2>11. ASSUME received[b] # Absent, received[b].fresh, ~ NumberKeys(b)
         PROVE  Verify(received[b], k) = "ok"
    <3>1. received[b].payload = MapData(Parsed, c) /\ received[b].proof = x.proof
      BY <2>9, <2>11 DEF AsSent, c
    <3>2. MapData(Parsed, c) = c
      BY <2>5, <2>8, <2>11, ParsedIsSame
    <3> QED
      BY <2>3, <2>4, <3>1, <3>2, Verifies
  <2> QED
    BY <2>10, <2>11 DEF k, x
<1> QED
  BY <1>1, BundleInvariant, PTL
=============================================================================
