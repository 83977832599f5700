------------------------- MODULE MCIdentityStore -------------------------
(***************************************************************************)
(* Instances of IdentityStore for TLC.                                     *)
(***************************************************************************)
EXTENDS IdentityStore, TLC

CONSTANTS bot, shop, slashed, hidden, path, path2

\* One agent name with a sidecar path of its own.
OneName == bot :> path
OneStem == path :> bot

\* "a_b" and "a/b" share one sidecar path; "a_b" is the name the path reads as.
\* _metadata_path refuses the third, ".x".
SharedPath == bot :> path @@ slashed :> path @@ hidden :> None

\* Two names with a path each, and one that _metadata_path refuses (".x").
TwoNames == bot :> path @@ shop :> path2 @@ hidden :> None
TwoStems == path :> bot @@ path2 :> shop

\* Callers are interchangeable, and so are key pairs.
Symmetry == Permutations(Procs) \cup Permutations(Keys)
=============================================================================
