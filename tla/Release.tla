------------------------------ MODULE Release ------------------------------
(***************************************************************************)
(* How the repository is published: scripts/stage_for_push_air.sh copies   *)
(* an allowlist of files from two machines into a staging tree, the        *)
(* operator commits it, scripts/push_and_verify.sh pushes a branch and     *)
(* starts scripts/post_push_verify.sh, which clones the public repository  *)
(* and runs scripts/pre_push_gate.sh and other checks.                     *)
(*                                                                         *)
(* Meanwhile the files are edited at their sources, other people push, and *)
(* the network may stop answering.  Each command of the scripts that       *)
(* touches a file, the repository or the network is a step here.           *)
(*                                                                         *)
(* Data kept abstract: a file is its version, and a tree a version of each *)
(* file.  A branch is the sequence of its trees, and so is the sha of its  *)
(* last commit: two commits have one sha if all that led to them is the    *)
(* same.  The numbers of tests that README.md and CHANGELOG.md state are   *)
(* their versions; they are right for the tests of the same version.       *)
(***************************************************************************)
EXTENDS Integers, FiniteSets, SequencesExt

CONSTANTS
    Order,              \* the copies main() makes, in order: the files of each
    Optional,           \* files that are copied if the source has them
    Synced,             \* files that rsync brings, as many as there are
    Boilerplate,        \* files that verify_boilerplate looks for
    Readme, Changelog, Tests, ErrorsPy, GateScript,     \* the files the checks read
    SubstrateTests,     \* files of substrate-pack/ that pytest collects
    MaxVersion,
    PassContracts,      \* versions of Tests and ErrorsPy that go together
    Pinned,             \* the version of ErrorsPy whose digest is pinned
    HomeIsSource,       \* the gate's default directories are the sources
    MaxChanges, MaxCommits, MaxStagings,    \* bounds of the instance
    Touched,            \* files that another clone changes in this instance
    Torn, Missing

Files    == UNION Range(Order)
Named    == Files \ (Optional \cup Synced)
Versions == 0 .. MaxVersion
Sources  == [Files -> Versions \cup {Missing}]
Trees    == [Files -> Versions \cup {Missing, Torn}]

ASSUME FilesAssumption ==
    /\ Order \in Seq(SUBSET Files)
    /\ \A i \in DOMAIN Order : Order[i] \subseteq Synced \/ Order[i] \cap Synced = {}
    /\ Boilerplate \subseteq Named
    /\ {Readme, Changelog, Tests, ErrorsPy, GateScript} \subseteq Named
    /\ SubstrateTests \subseteq Files
    /\ Touched \subseteq Files

ASSUME VersionsAssumption ==
    /\ MaxVersion \in Nat
    /\ PassContracts \subseteq Versions \X Versions
    /\ Pinned \in Versions
    /\ HomeIsSource \in BOOLEAN
    /\ Missing \notin Versions /\ Torn \notin Versions \cup {Missing}

ASSUME BoundsAssumption == MaxChanges \in Nat /\ MaxCommits \in Nat /\ MaxStagings \in Nat

VARIABLES
    src,        \* the files at their sources, on both machines
    changes,    \* how many changes other people made, here and in the public repository
    staged,     \* the staging tree
    at,         \* the copy the staging script is about to make; 0: it is not running
    since,      \* history: the sources when the last staging began
    complete,   \* its last run has printed "Staging complete"
    stagings,   \* how many runs there have been
    refs,       \* the local branches
    head,       \* the one that is checked out
    public,     \* branch main of the public repository
    net,        \* the network answers, or not for now
    run,        \* push_and_verify.sh and post_push_verify.sh
    others,     \* history: another push has landed since the run began
    strayed     \* history: main is not, or may not be, what the run took the sha of

sourceVars == <<src, changes>>
stageVars  == <<staged, at, since, complete, stagings>>
localVars  == <<refs, head>>
runVars    == <<run, others, strayed>>
releaseVars       == <<sourceVars, stageVars, localVars, public, net, runVars>>

Branches == {"main", "topic"}

PushSteps   == {"preflight", "push"}
VerifySteps == {"clone", "compare", "gate", "pytest", "raw", "grep"}

\* LOCAL_SHA, what is pushed, the clone, attempts at the raw file that failed,
\* the checks that called bad.
NoRun(report) ==
    [pc |-> "idle", sha |-> <<>>, dest |-> "main", clone |-> <<>>, failed |-> 0, bad |-> {},
     report |-> report]

\* The arguments remote and branch: main to the public repository, which is the
\* default, or another branch or to another repository.
Dests == {"main", "elsewhere"}

\* "none": it has not run, or it stopped before there was a clone.
Reports == {"none", "other head", "PASS", "FAIL"}

ReleaseInit ==
    /\ src \in [Files -> {0}]
    /\ changes = 0
    /\ staged = src
    /\ at = 0
    /\ since = src
    /\ complete = FALSE
    /\ stagings = 0
    /\ refs = [b \in Branches |-> <<src>>]
    /\ head = "main"
    /\ public = <<src>>
    /\ net = "up"
    /\ run = NoRun("none")
    /\ others = FALSE
    /\ strayed = FALSE

-----------------------------------------------------------------------------
(* The sources, which two people edit. *)

Changed ==
    /\ changes < MaxChanges
    /\ changes' = changes + 1

Edit(f) ==
    /\ src[f] # Missing
    /\ src[f] < MaxVersion
    /\ src' = [src EXCEPT ![f] = @ + 1]
    /\ Changed
    /\ UNCHANGED <<stageVars, localVars, public, net, runVars>>

Withdraw(f) ==
    /\ f \notin Named
    /\ src[f] # Missing
    /\ src' = [src EXCEPT ![f] = Missing]
    /\ Changed
    /\ UNCHANGED <<stageVars, localVars, public, net, runVars>>

-----------------------------------------------------------------------------
(* stage_for_push_air.sh: main(), under set -e *)

StartStaging ==
    /\ at = 0
    /\ stagings < MaxStagings
    /\ at' = 1
    /\ since' = src
    /\ complete' = FALSE
    /\ stagings' = stagings + 1
    /\ UNCHANGED <<sourceVars, staged, localVars, public, net, runVars>>

Copying == at \in DOMAIN Order

\* cp, scp or rsync: what the source has now goes over what is there.  A file
\* that the source has no more is left as it is.
Copy ==
    /\ Copying
    /\ \A f \in Order[at] \cap Named : src[f] # Missing
    /\ staged' = [f \in Files |-> IF f \in Order[at] /\ src[f] # Missing THEN src[f] ELSE staged[f]]
    /\ at' = at + 1
    /\ UNCHANGED <<sourceVars, since, complete, stagings, localVars, public, net, runVars>>

\* cp and scp write in place and may leave half a file; rsync renames.
Halves(f) == IF f \in Order[at] \ Synced THEN {staged[f], Torn} ELSE {staged[f]}

\* Mutant: without set -e the script goes on.
CopyFailsAndGoesOn ==
    /\ Copying
    /\ staged' \in {t \in Trees : \A f \in Files : t[f] \in Halves(f)}
    /\ at' = at + 1
    /\ UNCHANGED <<sourceVars, since, complete, stagings, localVars, public, net, runVars>>

\* The connection or the disk fails, or the operator interrupts: set -e exits.
CopyFails ==
    /\ Copying
    /\ \E f \in Order[at] : \E half \in Halves(f) : staged' = [staged EXCEPT ![f] = half]
    /\ at' = 0
    /\ UNCHANGED <<sourceVars, since, complete, stagings, localVars, public, net, runVars>>

\* verify_boilerplate, then "Staging complete".
FinishStaging ==
    /\ at = Len(Order) + 1
    /\ complete' = (\A f \in Boilerplate : staged[f] # Missing)
    /\ at' = 0
    /\ UNCHANGED <<sourceVars, staged, since, stagings, localVars, public, net, runVars>>

-----------------------------------------------------------------------------
(* The operator's repository, which is the staging tree. *)

\* Mutant: the next steps are printed whatever happened.
CommitAnyway ==
    /\ at = 0
    /\ Len(refs[head]) < MaxCommits
    /\ staged # Last(refs[head])
    /\ refs' = [refs EXCEPT ![head] = Append(@, staged)]
    /\ strayed' = (strayed \/ head = "main")
    /\ UNCHANGED <<sourceVars, stageVars, head, public, net, run, others>>

\* git add . and git commit, the next steps the script prints when it is through.
Commit ==
    /\ complete
    /\ at = 0
    /\ Len(refs[head]) < MaxCommits
    /\ staged # Last(refs[head])
    /\ refs' = [refs EXCEPT ![head] = Append(@, staged)]
    /\ strayed' = (strayed \/ head = "main")
    /\ UNCHANGED <<sourceVars, stageVars, head, public, net, run, others>>

\* git checkout, with nothing to commit; the files become the branch's.
Checkout(b) ==
    /\ head # b
    /\ at = 0
    /\ staged = Last(refs[head])
    /\ head' = b
    /\ staged' = Last(refs[b])
    /\ complete' = (complete /\ staged' = staged)
    /\ UNCHANGED <<sourceVars, at, since, stagings, refs, public, net, runVars>>

-----------------------------------------------------------------------------
(* The gate: what it finds in AIEGIS_BUNDLE_DIR and AIEGIS_PUBLIC_PREP_DIR. *)

ContractsPass(dirs) == <<dirs[Tests], dirs[ErrorsPy]>> \in PassContracts

CountsAgree(dirs) == dirs[Readme] = dirs[Tests] /\ dirs[Changelog] = dirs[Tests]

\* `live' stands for the hosts the other gates ask.  The gate of the whole suite
\* is left out: it is pytest -q | tail -3, and the status is tail's.
Green(dirs, live) == ContractsPass(dirs) /\ CountsAgree(dirs) /\ live

\* Directories that are not there fail the gate.
GreenAtHome(live) == HomeIsSource /\ Green(src, live)

-----------------------------------------------------------------------------
(* push_and_verify.sh, and post_push_verify.sh, which it ends in. *)

Proceed(l) == run' = [run EXCEPT !.pc = l]

Exit(report) == run' = NoRun(report)

\* Mutant: the sha is that of the branch on the remote.
RemoteSha == public

LocalSha == refs[head]

StartPush(dest) ==
    /\ run.pc = "idle"
    /\ run' = [NoRun("none") EXCEPT !.pc = "preflight", !.sha = LocalSha, !.dest = dest]
    /\ others' = FALSE
    /\ strayed' = (head # "main" \/ dest # "main")
    /\ UNCHANGED <<sourceVars, stageVars, localVars, public, net>>

\* git ls-remote and git push wait as long as it takes.
Preflight ==
    /\ run.pc = "preflight"
    /\ net = "up"
    /\ Proceed("push") \/ Exit("none")
    /\ UNCHANGED <<sourceVars, stageVars, localVars, public, net, others, strayed>>

\* Refused, or the connection breaks, before or after the branch has moved: the
\* script cannot tell.
PushFails == Exit("none") /\ UNCHANGED public

Push ==
    /\ run.pc = "push"
    /\ net = "up"
    /\ \/ /\ run.dest = "main"
          /\ IsPrefix(public, refs["main"])
          /\ public' = refs["main"]
          /\ Proceed("clone") \/ Exit("none")
       \/ /\ run.dest = "elsewhere"
          /\ Proceed("clone")
          /\ UNCHANGED public
       \/ PushFails
    /\ UNCHANGED <<sourceVars, stageVars, localVars, net, others, strayed>>

\* timeout 60 git clone
Clone ==
    /\ run.pc = "clone"
    /\ \/ net = "up" /\ run' = [run EXCEPT !.pc = "compare", !.clone = public]
       \/ Exit("none")
    /\ UNCHANGED <<sourceVars, stageVars, localVars, public, net, others, strayed>>

Compare ==
    /\ run.pc = "compare"
    /\ IF run.clone = run.sha THEN Proceed("gate") ELSE Exit("other head")
    /\ UNCHANGED <<sourceVars, stageVars, localVars, public, net, others, strayed>>

Check(l, ok, next) ==
    /\ run.pc = l
    /\ run' = [run EXCEPT !.pc = next, !.bad = IF ok THEN @ ELSE @ \cup {l}]
    /\ UNCHANGED <<sourceVars, stageVars, localVars, public, net, others, strayed>>

\* The clone's own gate, in a shell that sets none of its variables: it looks at
\* the default directories.  timeout 90 ends it if a host does not answer.
Gate ==
    \E live \in IF net = "up" THEN BOOLEAN ELSE {FALSE} :
        Check("gate", Last(run.clone)[GateScript] # Missing /\ GreenAtHome(live), "pytest")

\* pytest substrate-pack ends with status 5 when there is nothing to run; its
\* tests may fail, or not end in 120 seconds.
Pytest ==
    \E ok \in IF \A f \in SubstrateTests : Last(run.clone)[f] = Missing THEN {FALSE} ELSE BOOLEAN :
        Check("pytest", ok, "raw")

\* $(curl) drops the newline at the end; the pinned digest is the whole file's.
Digest(v, newline) == [version |-> v, newline |-> newline]

RawMatches(v) == Digest(v, FALSE) = Digest(Pinned, TRUE)

\* Mutant: one attempt too many.
NextAttempt(failed) == IF failed <= 3 THEN "raw" ELSE "grep"

\* Two more attempts follow one that did not match or got nothing.
AfterAttempt(failed) == IF failed < 3 THEN "raw" ELSE "grep"

Attempt(match) ==
    LET failed == run.failed + 1
        next   == IF match THEN "grep" ELSE AfterAttempt(failed) IN
    /\ run.pc = "raw"
    /\ run' = [run EXCEPT !.pc = next,
                          !.failed = IF match THEN @ ELSE failed,
                          !.bad = IF ~ match /\ next = "grep" THEN @ \cup {"raw"} ELSE @]
    /\ UNCHANGED <<sourceVars, stageVars, localVars, public, net, others, strayed>>

\* Mutant: the file is asked for until it matches.
RawRetries ==
    \E i \in DOMAIN public : RawMatches(public[i][ErrorsPy]) /\ Attempt(TRUE)

\* raw.githubusercontent.com serves main as it is or was, or nothing in time.
Raw ==
    \/ net = "up" /\ \E i \in DOMAIN public : Attempt(RawMatches(public[i][ErrorsPy]))
    \/ Attempt(FALSE)

\* The search for the old path, which finds something or not, then the result.
Report ==
    /\ run.pc = "grep"
    /\ \E stale \in BOOLEAN : Exit(IF run.bad = {} /\ ~ stale THEN "PASS" ELSE "FAIL")
    /\ UNCHANGED <<sourceVars, stageVars, localVars, public, net, others, strayed>>

-----------------------------------------------------------------------------
(* Everybody else. *)

\* Another clone of the public repository changes a file, or deletes it.
OtherPush(f, v) ==
    /\ Len(public) < MaxCommits
    /\ Last(public)[f] # v
    /\ public' = Append(public, [Last(public) EXCEPT ![f] = v])
    /\ others' = TRUE
    /\ Changed
    /\ UNCHANGED <<src, stageVars, localVars, net, run, strayed>>

NetworkTurns ==
    /\ net' = IF net = "up" THEN "hung" ELSE "up"
    /\ UNCHANGED <<sourceVars, stageVars, localVars, public, runVars>>

-----------------------------------------------------------------------------

Staging == StartStaging \/ Copy \/ CopyFails \/ FinishStaging

Operator == Commit \/ (\E b \in Branches : Checkout(b)) \/ (\E d \in Dests : StartPush(d)) \/ Preflight \/ Push

Verifier == Clone \/ Compare \/ Gate \/ Pytest \/ Raw \/ Report

World ==
    \/ \E f \in Files : Edit(f) \/ Withdraw(f)
    \/ \E f \in Touched, v \in Versions \cup {Missing} : OtherPush(f, v)
    \/ NetworkTurns

ReleaseNext == Staging \/ Operator \/ Verifier \/ World

\* The verifier's commands are given a time by timeout, and the script runs on
\* with what they answer.  Nothing else has to happen: ls-remote and push wait
\* for a network that may not come back.
ReleaseSpec == ReleaseInit /\ [][ReleaseNext]_releaseVars /\ WF_releaseVars(Verifier)

-----------------------------------------------------------------------------
(* Properties. *)

\* Every variable has its type; a verification makes three attempts at the raw
\* file at most, whatever it is served.
ReleaseTypeOK ==
    /\ src \in Sources /\ since \in Sources
    /\ staged \in Trees
    /\ at \in 0 .. Len(Order) + 1
    /\ complete \in BOOLEAN
    /\ stagings \in 0 .. MaxStagings
    /\ \A b \in Branches : Range(refs[b]) \subseteq Trees
    /\ head \in Branches
    /\ Range(public) \subseteq Trees
    /\ net \in {"up", "hung"}
    /\ run.pc \in {"idle"} \cup PushSteps \cup VerifySteps
    /\ run.dest \in Dests
    /\ run.failed \in 0 .. 3
    /\ run.report \in Reports /\ run.bad \subseteq VerifySteps
    /\ others \in BOOLEAN /\ strayed \in BOOLEAN

\* When the staging script has said that it is complete, every file of its
\* allowlist is there whole, in a version the source had while the script ran or
\* since; so is what was at the source all that time of the files that may be
\* absent (stage_for_push_air.sh: set -e, main).
StagedIsCurrent ==
    complete =>
        \A f \in Files :
            since[f] # Missing /\ src[f] # Missing => staged[f] \in since[f] .. src[f]

\* Every commit of the operator has every required file, whole, in a version that
\* is not older than in the commits before it on the branch: whichever copies
\* failed, and whatever was checked out, between one staging and the next
\* (stage_for_push_air.sh: set -e, main, and the order of its next steps).
ReleasesGoForward ==
    \A b \in Branches :
        \A i, j \in DOMAIN refs[b] :
            i <= j =>
                \A f \in Named :
                    refs[b][j][f] \in Versions /\ refs[b][i][f] <= refs[b][j][f]

\* A run that reports another head has a cause outside it: another push landed,
\* main was committed to after its sha was read, or it was started with another
\* branch checked out, or given another branch or repository (push_and_verify.sh
\* pushes the branch it is given and reads HEAD).
MismatchIsExplained ==
    [][run.pc = "compare" /\ run'.report = "other head"
          => others \/ strayed]_releaseVars

\* "Re-run pre_push_gate.sh on the clone as a POST-push verifier"
\* (post_push_verify.sh:59): a gate that is not called bad has found the clone's
\* tests and counts in order.
GateJudgesTheClone ==
    run.pc \in {"pytest", "raw", "grep"} /\ "gate" \notin run.bad =>
        ContractsPass(Last(run.clone)) /\ CountsAgree(Last(run.clone))

\* Whatever the network does, a verification that has begun ends with a result
\* (post_push_verify.sh: timeout on each command, three attempts).
VerifierEnds == run.pc \in VerifySteps ~> run.pc = "idle"
=============================================================================
