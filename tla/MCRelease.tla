----------------------------- MODULE MCRelease -----------------------------
(***************************************************************************)
(* Instances of Release for TLC.                                           *)
(***************************************************************************)
EXTENDS Release

CONSTANTS readme, changelog, sdk, vendored, errors, tests, gate

\* Two copies, and a file that need not be there.  What rsync brings is left out:
\* it can do what a copied file does, except be torn.
SomeFiles == <<{readme}, {errors, vendored}>>

\* A file of each kind the checks tell apart.
AllFiles == <<{readme, changelog}, {errors}, {tests}, {sdk}, {gate}>>

\* The contract tests of version 1 pass with any errors.py.
NewTests == {1} \X Versions

=============================================================================
