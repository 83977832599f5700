------------------------- MODULE MCClientAndRelease -------------------------
(***************************************************************************)
(* The SDK's client and the release scripts, which know nothing of each    *)
(* other, for TLC: one runs while the other has not begun, so that their   *)
(* states do not multiply.  Nothing is made symmetric, since the run       *)
(* checks liveness.                                                        *)
(***************************************************************************)
EXTENDS AgentClient, MCRelease

BothInit == Init /\ ReleaseInit

BothNext ==
    \/ ReleaseInit /\ Next /\ UNCHANGED releaseVars
    \/ Init /\ ReleaseNext /\ UNCHANGED vars

\* The fairness of both.
BothSpec ==
    /\ BothInit /\ [][BothNext]_<<vars, releaseVars>>
    /\ \A t \in Threads : WF_vars(Continue(t))
    /\ WF_releaseVars(Verifier)
=============================================================================
