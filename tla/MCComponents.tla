---------------------------- MODULE MCComponents ----------------------------
(***************************************************************************)
(* Four components that know nothing of each other, for TLC: attestation,  *)
(* and three pieces of sequential code, the structured errors, the encoder *)
(* of DIDs and the compliance bundles.  One runs while the others have not *)
(* begun, so that their states do not multiply.                            *)
(***************************************************************************)
EXTENDS MCAttestation, StructuredErrors, DidEncoding, MCComplianceBundle


CONSTANTS e1, e2

\* MAX_DETAIL_LEN is 4: details of none, just as many, and one more.
SomeRaws ==
    {<<>>} \cup {[i \in 1 .. k |-> IF i % 2 = 0 THEN "control" ELSE "letter"] : k \in {4, 5}}

Marker == <<"space", "letter">>

Names == {<<"letter", "letter", "letter">>}

SecretMessages == {<<>>, <<"of a message", "control">>}

Prefix == << 2 >>

Swapped == [x \in Workers \cup Objects |->
               CASE x = w1 -> w2 [] x = w2 -> w1 [] x = e1 -> e2 [] x = e2 -> e1]

\* Workers and error objects are never at work in one behavior, so they are
\* swapped together.
Interchangeable == {Swapped} \cup Permutations(Agents)

AllInit == Init /\ ErrInit /\ EncInit /\ BundleInit

\* The others run where ComplianceBundle has done nothing yet.
NoBundles ==
    /\ bundles = [b \in BundleIds |-> Absent]
    /\ last.call = "none"
    /\ \A h \in HitLists : hits[h] = "text keys"
    /\ \A q \in Policies : policy[q] = Whole("sha", "text keys")

AllNext ==
    \/ ErrInit /\ EncInit /\ NoBundles /\ Next /\ UNCHANGED <<errVars, encVars, bundleVars>>
    \/ Init /\ EncInit /\ NoBundles /\ ErrNext /\ UNCHANGED <<vars, encVars, bundleVars>>
    \/ Init /\ ErrInit /\ NoBundles /\ EncNext /\ UNCHANGED <<vars, errVars, bundleVars>>
    \/ Init /\ ErrInit /\ EncInit /\ BundleNext /\ UNCHANGED <<vars, errVars, encVars>>

AllSpec == AllInit /\ [][AllNext]_<<vars, errVars, encVars, bundleVars>>
=============================================================================
