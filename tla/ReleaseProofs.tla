--------------------------- MODULE ReleaseProofs ---------------------------
(***************************************************************************)
(* Proofs about Release, for any files, versions, bounds and allowlist.    *)
(***************************************************************************)
EXTENDS Release, TLAPS

-----------------------------------------------------------------------------
(* Sequences. *)

LEMMA AppendExtends ==
    ASSUME NEW S, NEW s \in Seq(S), NEW v \in S
    PROVE  Append(s, v) \in Seq(S) \ {<<>>}
<1>1. Append(s, v) \in Seq(S) /\ Len(Append(s, v)) = Len(s) + 1
  OBVIOUS
<1>2. Append(s, v) # <<>>
  <2>1. Len(Append(s, v)) # Len(<<>>)
    BY <1>1
  <2> QED
    BY <2>1, Zenon
<1> QED
  BY <1>1, <1>2

LEMMA LastIsElement ==
    ASSUME NEW S, NEW s \in Seq(S), s # <<>>
    PROVE  Last(s) \in S
  BY DEF Last

LEMMA Copies == Len(Order) \in Nat /\ DOMAIN Order = 1 .. Len(Order)
  BY FilesAssumption

-----------------------------------------------------------------------------
(* Types.  ReleaseTypeOK leaves open that a branch is never empty. *)

Runs ==
    [pc : {"idle"} \cup PushSteps \cup VerifySteps, sha : Seq(Trees), dest : Dests, clone : Seq(Trees),
     failed : 0 .. 3, bad : SUBSET VerifySteps, report : Reports]

BranchesOK ==
    /\ refs \in [Branches -> Seq(Trees) \ {<<>>}]
    /\ head \in Branches
    /\ public \in Seq(Trees) \ {<<>>}

RunOK ==
    /\ run \in Runs
    /\ run.pc = "raw" => run.failed < 3
    /\ run.pc \in PushSteps \cup (VerifySteps \ {"raw", "grep"}) => run.failed = 0
    /\ run.pc # "idle" => run.report = "none"

StageOK ==
    /\ src \in Sources /\ since \in Sources
    /\ staged \in Trees
    /\ at \in 0 .. Len(Order) + 1
    /\ complete \in BOOLEAN
    /\ stagings \in 0 .. MaxStagings

RestOK ==
    /\ net \in {"up", "hung"}
    /\ others \in BOOLEAN /\ strayed \in BOOLEAN

TypeInv == BranchesOK /\ RunOK /\ StageOK /\ RestOK

-----------------------------------------------------------------------------
(* Staging. *)

\* Within the versions the source has had since the staging began.
Current(f) == since[f] # Missing /\ src[f] # Missing => staged[f] \in since[f] .. src[f]

SourcesOnlyAge ==
    \A f \in Files : src[f] # Missing => since[f] # Missing /\ since[f] <= src[f]

\* What the copies made so far brought is current, and what a complete run brought.
StageInv ==
    /\ SourcesOnlyAge
    /\ at # 0 => ~ complete
    /\ \A i \in DOMAIN Order : i < at => \A f \in Order[i] : Current(f)
    /\ StagedIsCurrent

-----------------------------------------------------------------------------
(* The run. *)

\* While nobody interferes, the sha is main's, then the public branch's, then
\* the clone's.
RunInv ==
    /\ run.pc # "idle" /\ ~ strayed => run.sha = refs["main"] /\ run.dest = "main"
    /\ run.pc = "clone" /\ ~ strayed /\ ~ others => run.sha = public
    /\ run.pc = "compare" /\ ~ strayed /\ ~ others => run.sha = run.clone

ReleaseInv == TypeInv /\ StageInv /\ RunInv

-----------------------------------------------------------------------------

LEMMA TypeInvType == TypeInv => ReleaseTypeOK
<1> SUFFICES ASSUME TypeInv PROVE ReleaseTypeOK
  OBVIOUS
<1>1. \A s \in Seq(Trees) : Range(s) \subseteq Trees
  BY DEF Range
<1>2. (\A b \in Branches : Range(refs[b]) \subseteq Trees) /\ Range(public) \subseteq Trees
  BY <1>1 DEF TypeInv, BranchesOK
<1>3. /\ run.pc \in {"idle"} \cup PushSteps \cup VerifySteps
      /\ run.dest \in Dests
      /\ run.failed \in 0 .. 3
      /\ run.report \in Reports /\ run.bad \subseteq VerifySteps
  BY DEF TypeInv, RunOK, Runs
<1> QED
  BY <1>2, <1>3 DEF ReleaseTypeOK, TypeInv, BranchesOK, StageOK, RestOK

LEMMA Initially == ReleaseInit => ReleaseInv
<1> SUFFICES ASSUME ReleaseInit PROVE ReleaseInv
  OBVIOUS
<1>1. src \in Sources /\ src \in Trees
  BY VersionsAssumption DEF ReleaseInit, Sources, Trees, Versions
<1>2. BranchesOK
  BY <1>1 DEF ReleaseInit, BranchesOK, Branches
<1>3. NoRun("none") \in Runs
  BY DEF NoRun, Runs, Reports, Dests
<1>4. RunOK
  BY <1>3 DEF ReleaseInit, RunOK, NoRun, PushSteps, VerifySteps
<1>5. StageOK
  <2>1. 0 \in 0 .. Len(Order) + 1 /\ 0 \in 0 .. MaxStagings
    BY Copies, BoundsAssumption
  <2> QED
    BY <1>1, <2>1 DEF ReleaseInit, StageOK
<1>6. RestOK
  BY DEF ReleaseInit, RestOK
<1>7. StageInv
  <2>1. \A f \in Files : src[f] \in Nat
    BY DEF ReleaseInit
  <2>2. DOMAIN Order \subseteq Nat \ {0}
    BY FilesAssumption
  <2> QED
    BY <2>1, <2>2 DEF ReleaseInit, StageInv, SourcesOnlyAge, StagedIsCurrent
<1>8. RunInv
  BY DEF ReleaseInit, NoRun, RunInv, VerifySteps
<1> QED
  BY <1>2, <1>4, <1>5, <1>6, <1>7, <1>8 DEF ReleaseInv, TypeInv

-----------------------------------------------------------------------------
(* What a step leaves alone. *)

StageRest == UNCHANGED <<src, staged, at, since, complete, stagings>>

PublicRests == UNCHANGED <<public, net>>

LEMMA StageKept ==
    ASSUME StageOK, StageInv, StageRest
    PROVE  StageOK' /\ StageInv'
  BY DEF StageRest, StageOK, StageInv, SourcesOnlyAge, Current, StagedIsCurrent

LEMMA RunKept ==
    ASSUME RunOK, RunInv, UNCHANGED <<runVars, localVars, public>>
    PROVE  RunOK' /\ RunInv'
  BY DEF runVars, localVars, RunOK, RunInv

LEMMA BranchesKept ==
    ASSUME BranchesOK, UNCHANGED <<localVars, public>>
    PROVE  BranchesOK'
  BY DEF localVars, BranchesOK

LEMMA PublicKept ==
    ASSUME RestOK, UNCHANGED <<public>>, net' \in {"up", "hung"},
           others' \in BOOLEAN, strayed' \in BOOLEAN
    PROVE  RestOK'
  BY DEF RestOK

-----------------------------------------------------------------------------
(* The sources and the staging script. *)

LEMMA SourceStep ==
    ASSUME ReleaseInv, NEW f \in Files, Edit(f) \/ Withdraw(f)
    PROVE  ReleaseInv'
<1>1. UNCHANGED <<stageVars, localVars, public, net, runVars>>
  BY DEF Edit, Withdraw
<1>2. BranchesOK' /\ RunOK' /\ RunInv' /\ RestOK'
  BY <1>1, BranchesKept, RunKept, PublicKept DEF ReleaseInv, TypeInv, RestOK, runVars, localVars
<1>3. /\ src' \in Sources
      /\ \A g \in Files : src'[g] # Missing => src[g] # Missing /\ src[g] <= src'[g]
  <2>1. \A g \in Files : src[g] # Missing => src[g] \in 0 .. MaxVersion
    BY DEF ReleaseInv, TypeInv, StageOK, Sources, Versions
  <2>2. CASE Edit(f)
    <3>1. src[f] + 1 \in Versions
      BY <2>1, <2>2, VersionsAssumption DEF Edit, Versions
    <3> QED
      BY <2>1, <2>2, <3>1, VersionsAssumption DEF Edit, ReleaseInv, TypeInv, StageOK, Sources
  <2>3. CASE Withdraw(f)
    BY <2>1, <2>3 DEF Withdraw, ReleaseInv, TypeInv, StageOK, Sources
  <2> QED
    BY <2>2, <2>3
<1>4. StageOK'
  BY <1>1, <1>3 DEF stageVars, ReleaseInv, TypeInv, StageOK
<1>5. \A g \in Files : /\ src[g] # Missing => src[g] \in Int
                       /\ src'[g] # Missing => src'[g] \in Int
                       /\ since[g] # Missing => since[g] \in Int
  BY <1>3 DEF ReleaseInv, TypeInv, StageOK, Sources, Versions
<1>6. SourcesOnlyAge'
  BY <1>1, <1>3, <1>5 DEF stageVars, ReleaseInv, StageInv, SourcesOnlyAge
<1>7. ASSUME NEW g \in Files, Current(g) PROVE Current(g)'
  BY <1>1, <1>3, <1>5, <1>7 DEF stageVars, Current
<1>8. StagedIsCurrent'
  BY <1>1, <1>7 DEF stageVars, ReleaseInv, StageInv, StagedIsCurrent, Current
<1>9. \A i \in DOMAIN Order : Order[i] \subseteq Files
  BY FilesAssumption
<1>10. StageInv'
  BY <1>1, <1>6, <1>7, <1>8, <1>9 DEF stageVars, ReleaseInv, StageInv
<1> QED
  BY <1>2, <1>4, <1>10 DEF ReleaseInv, TypeInv

LEMMA StageSettled ==
    ASSUME ReleaseInv, UNCHANGED <<localVars, public, net, runVars>>
    PROVE  BranchesOK' /\ RunOK' /\ RunInv' /\ RestOK'
  BY BranchesKept, RunKept, PublicKept DEF ReleaseInv, TypeInv, RestOK, runVars, localVars

LEMMA StartStagingStep ==
    ASSUME ReleaseInv, StartStaging
    PROVE  ReleaseInv'
<1>1. UNCHANGED <<localVars, public, net, runVars>>
  BY DEF StartStaging
<1>2. at' = 1 /\ since' = src /\ src' = src /\ complete' = FALSE /\ staged' = staged
  BY DEF StartStaging, sourceVars
<1>3. StageOK'
  <2>1. 1 \in 0 .. Len(Order) + 1
    BY Copies
  <2>2. stagings' \in 0 .. MaxStagings
    BY BoundsAssumption DEF StartStaging, ReleaseInv, TypeInv, StageOK
  <2> QED
    BY <1>2, <2>1, <2>2 DEF ReleaseInv, TypeInv, StageOK
<1>4. \A f \in Files : src[f] # Missing => src[f] \in Int
  BY DEF ReleaseInv, TypeInv, StageOK, Sources, Versions
<1>5. \A i \in DOMAIN Order : ~ (i < 1)
  BY FilesAssumption
<1>6. StageInv'
  BY <1>2, <1>4, <1>5 DEF StageInv, SourcesOnlyAge, StagedIsCurrent
<1> QED
  BY <1>1, <1>3, <1>6, StageSettled DEF ReleaseInv, TypeInv

LEMMA CopyStep ==
    ASSUME ReleaseInv, Copy
    PROVE  ReleaseInv'
<1>1. UNCHANGED <<localVars, public, net, runVars>>
  BY DEF Copy
<1>2. /\ staged' = [f \in Files |-> IF f \in Order[at] /\ src[f] # Missing THEN src[f] ELSE staged[f]]
      /\ at' = at + 1 /\ UNCHANGED <<src, since, complete, stagings>>
      /\ at \in DOMAIN Order
  BY DEF Copy, Copying, sourceVars
<1>3. at \in 1 .. Len(Order) /\ Order \in Seq(SUBSET Files)
  BY <1>2, FilesAssumption
<1>4. \A f \in Files : /\ src[f] # Missing => src[f] \in Int
                       /\ since[f] # Missing => since[f] \in Int
  BY DEF ReleaseInv, TypeInv, StageOK, Sources, Versions
<1>5. staged' \in Trees
  BY <1>2 DEF ReleaseInv, TypeInv, StageOK, Sources, Trees
<1>6. StageOK'
  BY <1>2, <1>3, <1>5 DEF ReleaseInv, TypeInv, StageOK
<1>7. ASSUME NEW f \in Files, f \in Order[at] \/ Current(f) PROVE Current(f)'
  BY <1>2, <1>4, <1>7 DEF Current, ReleaseInv, StageInv, SourcesOnlyAge
<1>8. ASSUME NEW i \in DOMAIN Order, i < at', NEW f \in Order[i] PROVE Current(f)'
  <2>1. i = at \/ i < at
    BY <1>2, <1>3, <1>8
  <2>2. f \in Files
    BY <1>3
  <2> QED
    BY <1>7, <2>1, <2>2, <1>8 DEF ReleaseInv, StageInv
<1>9. ~ complete
  BY <1>3 DEF ReleaseInv, StageInv
<1>10. StageInv'
  BY <1>2, <1>8, <1>9 DEF ReleaseInv, StageInv, SourcesOnlyAge, StagedIsCurrent
<1> QED
  BY <1>1, <1>6, <1>10, StageSettled DEF ReleaseInv, TypeInv

LEMMA CopyFailsStep ==
    ASSUME ReleaseInv, CopyFails
    PROVE  ReleaseInv'
<1>1. UNCHANGED <<localVars, public, net, runVars>>
  BY DEF CopyFails
<1>2. at' = 0 /\ UNCHANGED <<src, since, complete, stagings>> /\ at \in DOMAIN Order
  BY DEF CopyFails, Copying, sourceVars
<1>3. at # 0 /\ Order \in Seq(SUBSET Files)
  BY <1>2, FilesAssumption
<1>4. staged' \in Trees
  <2>1. PICK f \in Order[at] : \E half \in Halves(f) : staged' = [staged EXCEPT ![f] = half]
    BY DEF CopyFails
  <2>2. f \in Files /\ staged \in Trees
    BY <1>2, <1>3 DEF ReleaseInv, TypeInv, StageOK
  <2>3. Halves(f) \subseteq Versions \cup {Missing, Torn}
    BY <2>2 DEF Halves, Trees
  <2> QED
    BY <2>1, <2>2, <2>3 DEF Trees
<1>5. StageOK'
  BY <1>2, <1>4, FilesAssumption DEF ReleaseInv, TypeInv, StageOK
<1>6. ~ complete
  BY <1>3 DEF ReleaseInv, StageInv
<1>7. \A i \in DOMAIN Order : ~ (i < 0)
  BY <1>3
<1>8. StageInv'
  BY <1>2, <1>6, <1>7 DEF ReleaseInv, StageInv, SourcesOnlyAge, StagedIsCurrent
<1> QED
  BY <1>1, <1>5, <1>8, StageSettled DEF ReleaseInv, TypeInv

(* When every copy has been made, every file is in one that was. *)
LEMMA FinishStagingStep ==
    ASSUME ReleaseInv, FinishStaging
    PROVE  ReleaseInv'
<1>1. UNCHANGED <<localVars, public, net, runVars>>
  BY DEF FinishStaging
<1>2. at' = 0 /\ at = Len(Order) + 1 /\ UNCHANGED <<src, staged, since, stagings>> /\ complete' \in BOOLEAN
  BY DEF FinishStaging, sourceVars
<1>3. StageOK'
  BY <1>2, FilesAssumption DEF ReleaseInv, TypeInv, StageOK
<1>4. ASSUME NEW f \in Files PROVE Current(f)
  <2>1. PICK i \in DOMAIN Order : f \in Order[i]
    BY DEF Files, Range
  <2>2. i < at
    BY <1>2, FilesAssumption
  <2> QED
    BY <2>1, <2>2 DEF ReleaseInv, StageInv
<1>5. \A i \in DOMAIN Order : ~ (i < 0)
  BY FilesAssumption
<1>6. StagedIsCurrent'
  BY <1>2, <1>4 DEF StagedIsCurrent, Current
<1>7. StageInv'
  BY <1>2, <1>5, <1>6 DEF ReleaseInv, StageInv, SourcesOnlyAge
<1> QED
  BY <1>1, <1>3, <1>7, StageSettled DEF ReleaseInv, TypeInv

-----------------------------------------------------------------------------
(* The operator's repository. *)

LEMMA CommitStep ==
    ASSUME ReleaseInv, Commit
    PROVE  ReleaseInv'
<1>1. /\ refs' = [refs EXCEPT ![head] = Append(@, staged)]
      /\ strayed' = (strayed \/ head = "main")
      /\ UNCHANGED <<src, staged, at, since, complete, stagings, head, public, net, run, others>>
  BY DEF Commit, sourceVars, stageVars
<1>2. staged \in Trees /\ head \in Branches /\ refs[head] \in Seq(Trees)
  BY DEF ReleaseInv, TypeInv, StageOK, BranchesOK
<1>3. Append(refs[head], staged) \in Seq(Trees) \ {<<>>}
  BY <1>2, AppendExtends
<1>4. BranchesOK'
  BY <1>1, <1>2, <1>3 DEF ReleaseInv, TypeInv, BranchesOK
<1>5. StageOK' /\ StageInv'
  BY <1>1, StageKept DEF StageRest, ReleaseInv, TypeInv
<1>6. strayed' \in BOOLEAN /\ (~ strayed' => ~ strayed /\ refs'["main"] = refs["main"])
  BY <1>1 DEF ReleaseInv, TypeInv, RestOK, BranchesOK, Branches
<1>7. RestOK'
  BY <1>1, <1>6, PublicKept DEF ReleaseInv, TypeInv, RestOK
<1>8. RunOK'
  BY <1>1 DEF ReleaseInv, TypeInv, RunOK
<1>9. RunInv'
  BY <1>1, <1>6 DEF ReleaseInv, RunInv
<1> QED
  BY <1>4, <1>5, <1>7, <1>8, <1>9 DEF ReleaseInv, TypeInv

LEMMA CheckoutStep ==
    ASSUME ReleaseInv, NEW b \in Branches, Checkout(b)
    PROVE  ReleaseInv'
<1>1. /\ head' = b /\ staged' = Last(refs[b]) /\ complete' = (complete /\ staged' = staged)
      /\ UNCHANGED <<src, at, since, stagings, refs, public, net, run, others, strayed>>
      /\ at = 0
  BY DEF Checkout, sourceVars, runVars
<1>2. staged' \in Trees
  BY <1>1, LastIsElement DEF ReleaseInv, TypeInv, BranchesOK
<1>3. StageOK' /\ BranchesOK' /\ RunOK' /\ RunInv'
  BY <1>1, <1>2 DEF ReleaseInv, TypeInv, StageOK, BranchesOK, RunOK, RunInv
<1>4. RestOK'
  BY <1>1, PublicKept DEF ReleaseInv, TypeInv, RestOK
<1>5. \A i \in DOMAIN Order : ~ (i < 0)
  BY Copies
<1>6. StageInv'
  BY <1>1, <1>5 DEF ReleaseInv, StageInv, SourcesOnlyAge, StagedIsCurrent
<1> QED
  BY <1>3, <1>4, <1>6 DEF ReleaseInv, TypeInv

-----------------------------------------------------------------------------
(* The run.  A step that leaves branches and staging alone needs to be looked *)
(* at for what it does to run only.                                         *)

LEMMA OnlyRun ==
    ASSUME ReleaseInv, UNCHANGED <<sourceVars, stageVars, localVars, public, net>>,
           others' \in BOOLEAN, strayed' \in BOOLEAN, RunOK', RunInv'
    PROVE  ReleaseInv'
<1>1. StageOK' /\ StageInv'
  BY StageKept DEF StageRest, sourceVars, stageVars, ReleaseInv, TypeInv
<1>2. BranchesOK'
  BY BranchesKept DEF ReleaseInv, TypeInv
<1>3. RestOK'
  BY PublicKept DEF ReleaseInv, TypeInv, RestOK
<1> QED
  BY <1>1, <1>2, <1>3 DEF ReleaseInv, TypeInv

LEMMA Idle ==
    ASSUME NEW report \in Reports
    PROVE  NoRun(report) \in Runs /\ NoRun(report).pc = "idle" /\ NoRun(report).failed = 0
  BY DEF NoRun, Runs, Dests

LEMMA ExitStep ==
    ASSUME ReleaseInv, NEW report \in Reports, Exit(report),
           UNCHANGED <<sourceVars, stageVars, localVars, public, net, others, strayed>>
    PROVE  ReleaseInv'
<1>1. run' \in Runs /\ run'.pc = "idle" /\ run'.failed = 0
  BY Idle DEF Exit
<1>2. RunOK' /\ RunInv'
  BY <1>1 DEF RunOK, RunInv, PushSteps, VerifySteps
<1>3. others' \in BOOLEAN /\ strayed' \in BOOLEAN
  BY DEF ReleaseInv, TypeInv, RestOK
<1> QED
  BY <1>2, <1>3, OnlyRun

LEMMA StartPushStep ==
    ASSUME ReleaseInv, NEW dest \in Dests, StartPush(dest)
    PROVE  ReleaseInv'
<1>1. /\ run' = [NoRun("none") EXCEPT !.pc = "preflight", !.sha = refs[head], !.dest = dest]
      /\ others' = FALSE /\ strayed' = (head # "main" \/ dest # "main")
      /\ UNCHANGED <<sourceVars, stageVars, localVars, public, net>>
  BY DEF StartPush, LocalSha
<1>2. run' = [pc |-> "preflight", sha |-> refs[head], dest |-> dest, clone |-> <<>>, failed |-> 0,
              bad |-> {}, report |-> "none"]
  BY <1>1 DEF NoRun
<1>3. RunOK'
  <2>1. refs[head] \in Seq(Trees) /\ <<>> \in Seq(Trees)
    BY DEF ReleaseInv, TypeInv, BranchesOK
  <2> QED
    BY <1>2, <2>1 DEF RunOK, Runs, PushSteps, VerifySteps, Reports
<1>4. RunInv'
  BY <1>1, <1>2 DEF localVars, RunInv, VerifySteps
<1> QED
  BY <1>1, <1>3, <1>4, OnlyRun

LEMMA PreflightStep ==
    ASSUME ReleaseInv, Preflight
    PROVE  ReleaseInv'
<1>1. UNCHANGED <<sourceVars, stageVars, localVars, public, net, others, strayed>> /\ run.pc = "preflight"
  BY DEF Preflight
<1>2. CASE Exit("none")
  BY <1>1, <1>2, ExitStep DEF Reports
<1>3. CASE Proceed("push")
  <2>1. run' = [run EXCEPT !.pc = "push"]
    BY <1>3 DEF Proceed
  <2>2. RunOK' /\ RunInv'
    BY <1>1, <2>1 DEF localVars, ReleaseInv, TypeInv, RunOK, Runs, RunInv, PushSteps, VerifySteps
  <2>3. others' \in BOOLEAN /\ strayed' \in BOOLEAN
    BY <1>1 DEF ReleaseInv, TypeInv, RestOK
  <2> QED
    BY <1>1, <2>2, <2>3, OnlyRun
<1> QED
  BY <1>2, <1>3 DEF Preflight

(* A run that goes on to "clone", with main as it is or as pushed. *)
LEMMA PushStep ==
    ASSUME ReleaseInv, Push
    PROVE  ReleaseInv'
<1>1. UNCHANGED <<sourceVars, stageVars, localVars, net, others, strayed>> /\ run.pc = "push"
  BY DEF Push
<1>2. CASE PushFails
  BY <1>1, <1>2, ExitStep DEF PushFails, Reports
<1>3. ASSUME public' \in {public, refs["main"]},
             Exit("none") \/ (/\ Proceed("clone")
                              /\ run.dest = "main" => public' = refs["main"])
      PROVE  ReleaseInv'
  <2>1. public' \in Seq(Trees) \ {<<>>}
    BY <1>3 DEF ReleaseInv, TypeInv, BranchesOK, Branches
  <2>2. BranchesOK'
    BY <1>1, <2>1 DEF localVars, ReleaseInv, TypeInv, BranchesOK
  <2>3. RestOK'
    BY <1>1 DEF ReleaseInv, TypeInv, RestOK
  <2>4. StageOK' /\ StageInv'
    BY <1>1, StageKept DEF StageRest, sourceVars, stageVars, ReleaseInv, TypeInv
  <2>5. CASE Exit("none")
    <3>1. run' \in Runs /\ run'.pc = "idle" /\ run'.failed = 0
      BY <2>5, Idle DEF Exit, Reports
    <3>2. RunOK' /\ RunInv'
      BY <3>1 DEF RunOK, RunInv, PushSteps, VerifySteps
    <3> QED
      BY <2>2, <2>3, <2>4, <3>2 DEF ReleaseInv, TypeInv
  <2>6. CASE Proceed("clone") /\ (run.dest = "main" => public' = refs["main"])
    <3>1. run' = [run EXCEPT !.pc = "clone"]
      BY <2>6 DEF Proceed
    <3>2. RunOK'
      BY <1>1, <3>1 DEF ReleaseInv, TypeInv, RunOK, Runs, PushSteps, VerifySteps
    <3>3. run'.pc = "clone" /\ run'.sha = run.sha /\ run'.dest = run.dest
      BY <3>1 DEF ReleaseInv, TypeInv, RunOK, Runs
    <3>4. RunInv'
      BY <1>1, <2>6, <3>3 DEF localVars, ReleaseInv, RunInv
    <3> QED
      BY <2>2, <2>3, <2>4, <3>2, <3>4 DEF ReleaseInv, TypeInv
  <2> QED
    BY <1>3, <2>5, <2>6
<1> QED
  BY <1>2, <1>3 DEF Push

LEMMA CloneStep ==
    ASSUME ReleaseInv, Clone
    PROVE  ReleaseInv'
<1>1. UNCHANGED <<sourceVars, stageVars, localVars, public, net, others, strayed>> /\ run.pc = "clone"
  BY DEF Clone
<1>2. CASE Exit("none")
  BY <1>1, <1>2, ExitStep DEF Reports
<1>3. CASE run' = [run EXCEPT !.pc = "compare", !.clone = public]
  <2>1. run' = [pc |-> "compare", sha |-> run.sha, dest |-> run.dest, clone |-> public,
                failed |-> run.failed, bad |-> run.bad, report |-> run.report]
    BY <1>3 DEF ReleaseInv, TypeInv, RunOK, Runs
  <2>2. public \in Seq(Trees)
    BY DEF ReleaseInv, TypeInv, BranchesOK
  <2>3. RunOK'
    <3>1. /\ run.failed = 0 /\ run.sha \in Seq(Trees) /\ run.dest \in Dests /\ run.bad \in SUBSET VerifySteps
          /\ run.report = "none" /\ run.report \in Reports
      BY <1>1 DEF ReleaseInv, TypeInv, RunOK, Runs, VerifySteps
    <3> QED
      BY <2>1, <2>2, <3>1 DEF RunOK, Runs, VerifySteps
  <2>5. RunInv'
    BY <1>1, <2>1 DEF localVars, ReleaseInv, RunInv
  <2>6. others' \in BOOLEAN /\ strayed' \in BOOLEAN
    BY <1>1 DEF ReleaseInv, TypeInv, RestOK
  <2> QED
    BY <1>1, <2>3, <2>5, <2>6, OnlyRun
<1> QED
  BY <1>2, <1>3 DEF Clone

(* Any other step of the verifier leaves sha, branch and clone alone. *)
LEMMA VerifierGoesOn ==
    ASSUME ReleaseInv,
           UNCHANGED <<sourceVars, stageVars, localVars, public, net, others, strayed>>,
           run.pc \in VerifySteps \ {"clone"},
           NEW l \in {"gate", "pytest", "raw", "grep"}, NEW n \in 0 .. 3, NEW bad \in SUBSET VerifySteps,
           run' = [pc |-> l, sha |-> run.sha, dest |-> run.dest, clone |-> run.clone, failed |-> n, bad |-> bad,
                   report |-> run.report],
           l = "raw" => n < 3, l \in {"gate", "pytest"} => n = 0
    PROVE  ReleaseInv'
<1>2. RunOK'
  BY DEF ReleaseInv, TypeInv, RunOK, Runs, PushSteps, VerifySteps
<1>3. RunInv'
  BY DEF localVars, ReleaseInv, RunInv, VerifySteps
<1>4. others' \in BOOLEAN /\ strayed' \in BOOLEAN
  BY DEF ReleaseInv, TypeInv, RestOK
<1> QED
  BY <1>2, <1>3, <1>4, OnlyRun

LEMMA CompareStep ==
    ASSUME ReleaseInv, Compare
    PROVE  ReleaseInv'
<1>1. UNCHANGED <<sourceVars, stageVars, localVars, public, net, others, strayed>> /\ run.pc = "compare"
  BY DEF Compare
<1>2. CASE run.clone # run.sha
  BY <1>1, <1>2, ExitStep DEF Compare, Reports
<1>3. CASE run.clone = run.sha
  <2>1. run' = [run EXCEPT !.pc = "gate"]
    BY <1>3 DEF Compare, Proceed
  <2> DEFINE l == "gate"
             n == 0
             bad == run.bad
  <2>2. run \in Runs /\ run.failed = 0
    BY <1>1 DEF ReleaseInv, TypeInv, RunOK, VerifySteps
  <2>3. /\ bad \in SUBSET VerifySteps /\ n \in 0 .. 3 /\ l \in {"gate", "pytest", "raw", "grep"}
        /\ run' = [pc |-> l, sha |-> run.sha, dest |-> run.dest, clone |-> run.clone, failed |-> n, bad |-> bad,
                   report |-> run.report]
        /\ l # "raw" /\ n = 0
    BY <2>1, <2>2 DEF Runs
  <2> HIDE DEF l, n, bad
  <2> QED
    BY <1>1, <1>3, <2>3, VerifierGoesOn DEF VerifySteps
<1> QED
  BY <1>2, <1>3

LEMMA CheckStep ==
    ASSUME ReleaseInv, NEW l \in {"gate", "pytest"}, NEW next \in {"pytest", "raw"},
           NEW ok \in BOOLEAN, Check(l, ok, next)
    PROVE  ReleaseInv'
<1>1. UNCHANGED <<sourceVars, stageVars, localVars, public, net, others, strayed>> /\ run.pc = l
  BY DEF Check
<1>2. run.failed = 0
  BY <1>1 DEF ReleaseInv, TypeInv, RunOK, VerifySteps
<1> DEFINE bad == IF ok THEN run.bad ELSE run.bad \cup {l}
<1>3. bad \in SUBSET VerifySteps
  BY DEF ReleaseInv, TypeInv, RunOK, Runs, VerifySteps
<1>4. run' = [run EXCEPT !.pc = next, !.bad = bad]
  BY DEF Check
<1> DEFINE n == 0
<1> HIDE DEF bad
<1>5. run \in Runs /\ run.failed = 0
  BY <1>2 DEF ReleaseInv, TypeInv, RunOK
<1>6. run' = [pc |-> next, sha |-> run.sha, dest |-> run.dest, clone |-> run.clone, failed |-> 0, bad |-> bad,
              report |-> run.report]
  BY ONLY <1>4, <1>5 DEF Runs
<1>7. n = 0 /\ n \in 0 .. 3 /\ n < 3
  OBVIOUS
<1> HIDE DEF n
<1> QED
  BY <1>1, <1>2, <1>3, <1>6, <1>7, VerifierGoesOn DEF VerifySteps

LEMMA AttemptStep ==
    ASSUME ReleaseInv, NEW match \in BOOLEAN, Attempt(match)
    PROVE  ReleaseInv'
<1> DEFINE failed == run.failed + 1
           next == IF match THEN "grep" ELSE AfterAttempt(failed)
           n == IF match THEN run.failed ELSE failed
           bad == IF ~ match /\ next = "grep" THEN run.bad \cup {"raw"} ELSE run.bad
<1>1. UNCHANGED <<sourceVars, stageVars, localVars, public, net, others, strayed>> /\ run.pc = "raw"
  BY DEF Attempt
<1>2. run.failed \in 0 .. 2
  BY <1>1 DEF ReleaseInv, TypeInv, RunOK, Runs
<1>3. bad \in SUBSET VerifySteps
  BY DEF ReleaseInv, TypeInv, RunOK, Runs, VerifySteps
<1>4. next \in {"raw", "grep"} /\ n \in 0 .. 3 /\ (next = "raw" => n < 3)
  BY <1>2 DEF AfterAttempt
<1>5. run' = [pc |-> next, sha |-> run.sha, dest |-> run.dest, clone |-> run.clone, failed |-> n, bad |-> bad,
              report |-> run.report]
  <2>1. run \in Runs
    BY DEF ReleaseInv, TypeInv, RunOK
  <2> QED
    BY <2>1 DEF Attempt, Runs
<1> HIDE DEF next, n, bad
<1> QED
  BY <1>1, <1>2, <1>3, <1>4, <1>5, VerifierGoesOn DEF VerifySteps

-----------------------------------------------------------------------------
(* Everybody else. *)

LEMMA OtherPushStep ==
    ASSUME ReleaseInv, NEW f \in Touched, NEW v \in Versions \cup {Missing}, OtherPush(f, v)
    PROVE  ReleaseInv'
<1>1. /\ public' = Append(public, [Last(public) EXCEPT ![f] = v]) /\ others' = TRUE
      /\ UNCHANGED <<src, staged, at, since, complete, stagings, localVars, net, run, strayed>>
  BY DEF OtherPush, stageVars
<1>2. public \in Seq(Trees) /\ public # <<>>
  BY DEF ReleaseInv, TypeInv, BranchesOK
<1>3. [Last(public) EXCEPT ![f] = v] \in Trees
  BY <1>2, LastIsElement DEF Trees
<1>4. public' \in Seq(Trees) \ {<<>>}
  BY <1>1, <1>2, <1>3, AppendExtends
<1>5. BranchesOK'
  BY <1>1, <1>4 DEF localVars, ReleaseInv, TypeInv, BranchesOK
<1>6. RestOK'
  BY <1>1 DEF ReleaseInv, TypeInv, RestOK
<1>7. StageOK' /\ StageInv'
  BY <1>1, StageKept DEF StageRest, ReleaseInv, TypeInv
<1>8. RunOK' /\ RunInv'
  BY <1>1 DEF localVars, ReleaseInv, TypeInv, RunOK, RunInv
<1> QED
  BY <1>5, <1>6, <1>7, <1>8 DEF ReleaseInv, TypeInv

LEMMA NetworkStep ==
    ASSUME ReleaseInv, NetworkTurns
    PROVE  ReleaseInv'
<1>1. /\ net' \in {"up", "hung"}
      /\ UNCHANGED <<sourceVars, stageVars, localVars, public, runVars>>
  BY DEF NetworkTurns
<1>2. RestOK'
  BY <1>1, PublicKept DEF runVars, ReleaseInv, TypeInv, RestOK
<1>3. StageOK' /\ StageInv'
  BY <1>1, StageKept DEF StageRest, sourceVars, stageVars, ReleaseInv, TypeInv
<1>4. BranchesOK' /\ RunOK' /\ RunInv'
  BY <1>1, BranchesKept, RunKept DEF ReleaseInv, TypeInv
<1> QED
  BY <1>2, <1>3, <1>4 DEF ReleaseInv, TypeInv

-----------------------------------------------------------------------------
(* The theorems. *)

LEMMA VerifierStep ==
    ASSUME ReleaseInv, Verifier
    PROVE  ReleaseInv'
<1>1. CASE Gate
  <2>1. PICK ok \in BOOLEAN : Check("gate", ok, "pytest")
    BY <1>1 DEF Gate, GreenAtHome
  <2> QED
    BY <2>1, CheckStep
<1>2. CASE Pytest
  <2>1. PICK ok \in BOOLEAN : Check("pytest", ok, "raw")
    BY <1>2 DEF Pytest
  <2> QED
    BY <2>1, CheckStep
<1>3. CASE Raw
  <2>1. PICK match \in BOOLEAN : Attempt(match)
    BY <1>3 DEF Raw, RawMatches
  <2> QED
    BY <2>1, AttemptStep
<1>4. CASE Report
  <2>1. PICK report \in Reports : Exit(report)
    BY <1>4 DEF Report, Reports
  <2> QED
    BY <1>4, <2>1, ExitStep DEF Report
<1> QED
  BY <1>1, <1>2, <1>3, <1>4, CloneStep, CompareStep DEF Verifier

LEMMA ReleaseStep ==
    ASSUME ReleaseInv, [ReleaseNext]_releaseVars
    PROVE  ReleaseInv'
<1>1. CASE Staging
  BY <1>1, StartStagingStep, CopyStep, CopyFailsStep, FinishStagingStep DEF Staging
<1>2. CASE Operator
  BY <1>2, CommitStep, CheckoutStep, StartPushStep, PreflightStep, PushStep DEF Operator
<1>3. CASE Verifier
  BY <1>3, VerifierStep
<1>4. CASE World
  BY <1>4, SourceStep, OtherPushStep, NetworkStep DEF World
<1>5. CASE UNCHANGED releaseVars
  <2>1. UNCHANGED <<sourceVars, stageVars, localVars, public, net, runVars>>
    BY <1>5 DEF releaseVars
  <2>2. RunOK' /\ RunInv'
    BY <2>1, RunKept DEF ReleaseInv, TypeInv
  <2>3. others' \in BOOLEAN /\ strayed' \in BOOLEAN
    BY <2>1 DEF runVars, ReleaseInv, TypeInv, RestOK
  <2> QED
    BY <2>1, <2>2, <2>3, OnlyRun
<1> QED
  BY <1>1, <1>2, <1>3, <1>4, <1>5 DEF ReleaseNext

THEOREM ReleaseInvariant == ReleaseSpec => []ReleaseInv
<1>1. ReleaseInv /\ [ReleaseNext]_releaseVars => ReleaseInv'
  BY ReleaseStep
<1> QED
  BY <1>1, Initially, PTL DEF ReleaseSpec

(***************************************************************************)
(* Every variable has its type, and no raw file is asked for a fourth time. *)
(***************************************************************************)
THEOREM TypeCorrect == ReleaseSpec => []ReleaseTypeOK
<1>1. ReleaseInv => ReleaseTypeOK
  BY TypeInvType DEF ReleaseInv
<1> QED
  BY <1>1, ReleaseInvariant, PTL

(***************************************************************************)
(* "Staging complete" is true: for any allowlist, any edits meanwhile, and *)
(* any copies that failed before.                                          *)
(***************************************************************************)
THEOREM StagingIsCurrent == ReleaseSpec => []StagedIsCurrent
<1>1. ReleaseInv => StagedIsCurrent
  BY DEF ReleaseInv, StageInv
<1> QED
  BY <1>1, ReleaseInvariant, PTL

-----------------------------------------------------------------------------
(* Releases go forward.  What was last committed is nothing newer than the  *)
(* sources were when the staging began, and than a tree that is complete.   *)

Tip(b, f) == Last(refs[b])[f]

ForwardInv ==
    /\ ReleasesGoForward
    /\ \A b \in Branches, f \in Named :
          Tip(b, f) <= src[f] /\ (at # 0 => Tip(b, f) <= since[f])
    /\ complete => \A f \in Named : Tip(head, f) <= staged[f]

\* A required file is always at its source.
NamedThere == \A f \in Named : src[f] \in Versions /\ since[f] \in Versions

LEMMA TipIsLast ==
    ASSUME BranchesOK, ReleasesGoForward, NEW b \in Branches
    PROVE  /\ Len(refs[b]) \in DOMAIN refs[b]
           /\ \A f : Tip(b, f) = refs[b][Len(refs[b])][f]
           /\ \A f \in Named : Tip(b, f) \in Versions
<1>1. refs[b] \in Seq(Trees) /\ refs[b] # <<>>
  BY DEF BranchesOK
<1>2. Len(refs[b]) \in DOMAIN refs[b]
  BY <1>1
<1> QED
  BY <1>2 DEF Tip, Last, ReleasesGoForward

LEMMA NamedStep ==
    ASSUME ReleaseInv, NamedThere, [ReleaseNext]_releaseVars
    PROVE  NamedThere'
<1>1. CASE UNCHANGED <<src, since>>
  BY <1>1 DEF NamedThere
<1>2. ASSUME NEW f \in Files, Edit(f) \/ Withdraw(f) PROVE NamedThere'
  <2>1. src \in [Files -> Versions \cup {Missing}] /\ since' = since
    BY <1>2 DEF ReleaseInv, TypeInv, StageOK, Sources, Edit, Withdraw, stageVars
  <2>2. CASE Edit(f)
    <3>1. src[f] + 1 \in Versions
      BY <2>1, <2>2, VersionsAssumption DEF Edit, Versions
    <3> QED
      BY <2>1, <2>2, <3>1 DEF Edit, NamedThere, Named
  <2>3. CASE Withdraw(f)
    BY <2>1, <2>3 DEF Withdraw, NamedThere, Named
  <2> QED
    BY <1>2, <2>2, <2>3
<1>3. CASE StartStaging
  BY <1>3 DEF StartStaging, sourceVars, NamedThere
<1>4. \/ UNCHANGED <<src, since>> \/ StartStaging
      \/ \E f \in Files : Edit(f) \/ Withdraw(f)
  BY DEF ReleaseNext, Staging, Operator, Verifier, World, Copy, CopyFails, FinishStaging,
         Commit, Checkout, StartPush, Preflight, Push, Clone, Compare, Gate, Pytest, Check,
         Raw, Attempt, Report, OtherPush, NetworkTurns, releaseVars, sourceVars, stageVars
<1> QED
  BY <1>1, <1>2, <1>3, <1>4

(* A commit comes after what was there, and so is whole and not older. *)
LEMMA CommitGoesForward ==
    ASSUME ReleaseInv, NamedThere, ForwardInv, Commit
    PROVE  ForwardInv'
<1>1. /\ refs' = [refs EXCEPT ![head] = Append(@, staged)]
      /\ UNCHANGED <<src, staged, at, since, complete, head>>
      /\ complete /\ at = 0
  BY DEF Commit, sourceVars, stageVars
<1>2. head \in Branches /\ refs[head] \in Seq(Trees) /\ staged \in Trees
      /\ refs \in [Branches -> Seq(Trees) \ {<<>>}]
  BY DEF ReleaseInv, TypeInv, BranchesOK, StageOK
<1> DEFINE s == refs[head]
           n == Len(refs[head])
<1>3. \A f \in Named : f \in Files /\ src[f] \in Versions /\ since[f] \in Versions /\ Missing \notin Versions
  BY VersionsAssumption DEF NamedThere, Named
<1>4. \A f \in Named : staged[f] \in Versions /\ staged[f] <= src[f]
  <2> SUFFICES ASSUME NEW f \in Named
               PROVE  staged[f] \in Versions /\ staged[f] <= src[f]
    OBVIOUS
  <2>1. staged[f] \in since[f] .. src[f]
    BY <1>1, <1>3 DEF ReleaseInv, StageInv, StagedIsCurrent
  <2> QED
    BY <1>3, <2>1, VersionsAssumption DEF Versions
<1>5. refs'[head] = Append(s, staged) /\ \A b \in Branches \ {head} : refs'[b] = refs[b]
  BY <1>1, <1>2
<1>6. /\ n \in Nat /\ DOMAIN s = 1 .. n /\ DOMAIN refs'[head] = 1 .. n + 1
      /\ refs'[head][n + 1] = staged /\ \A i \in 1 .. n : refs'[head][i] = s[i]
      /\ Last(refs'[head]) = staged
  BY <1>2, <1>5 DEF Last
<1>7. n \in 1 .. n /\ \A f \in Named : Tip(head, f) = s[n][f] /\ s[n][f] <= staged[f]
  BY <1>1, <1>2, <1>6, TipIsLast DEF ForwardInv, ReleaseInv, TypeInv
<1>8. ReleasesGoForward'
  <2> SUFFICES ASSUME NEW b \in Branches, NEW i \in DOMAIN refs'[b], NEW j \in DOMAIN refs'[b], i <= j,
                      NEW f \in Named
               PROVE  refs'[b][j][f] \in Versions /\ refs'[b][i][f] <= refs'[b][j][f]
    BY DEF ReleasesGoForward
  <2>1. CASE b # head
    BY <1>5, <2>1 DEF ForwardInv, ReleasesGoForward
  <2>2. CASE b = head /\ j \in 1 .. n
    <3>1. i \in 1 .. n
      BY <1>6, <2>2
    <3> QED
      BY <1>2, <1>6, <2>2, <3>1 DEF ForwardInv, ReleasesGoForward
  <2>3. CASE b = head /\ j = n + 1 /\ i \in 1 .. n
    <3>1. s[i][f] \in Versions /\ s[i][f] <= s[n][f] /\ s[n][f] \in Versions
      BY <1>2, <1>6, <1>7, <2>3 DEF ForwardInv, ReleasesGoForward
    <3> QED
      BY <1>4, <1>6, <1>7, <2>3, <3>1, VersionsAssumption DEF Versions
  <2>4. CASE b = head /\ j = n + 1 /\ i = n + 1
    BY <1>4, <1>6, <2>4, VersionsAssumption DEF Versions
  <2> QED
    BY <1>6, <2>1, <2>2, <2>3, <2>4
<1>9. /\ \A f : Tip(head, f)' = staged[f]
      /\ \A b \in Branches \ {head} : \A f : Tip(b, f)' = Tip(b, f)
  BY <1>1, <1>5, <1>6 DEF Tip
<1>10. ASSUME NEW b \in Branches, NEW f \in Named PROVE Tip(b, f)' <= src[f]
  <2>1. CASE b = head
    <3>1. Tip(b, f)' = staged[f]
      BY <1>1, <1>6, <2>1 DEF Tip
    <3> QED
      BY <1>4, <3>1
  <2>2. CASE b # head
    BY <1>9, <2>2 DEF ForwardInv
  <2> QED
    BY <2>1, <2>2
<1>11. \A f \in Named : Tip(head, f)' <= staged[f]
  BY <1>4, <1>9, VersionsAssumption DEF Versions
<1> QED
  BY <1>1, <1>8, <1>10, <1>11 DEF ForwardInv, Tip

LEMMA ForwardStep ==
    ASSUME ReleaseInv, NamedThere, ForwardInv, [ReleaseNext]_releaseVars
    PROVE  ForwardInv'
<1>0. /\ \A b \in Branches, f \in Named : Tip(b, f) \in Int
      /\ \A f \in Named : src[f] \in Int /\ since[f] \in Int
      /\ head \in Branches
      /\ Named \subseteq Files
  <2>1. Versions \subseteq Int
    BY VersionsAssumption DEF Versions
  <2> QED
    BY <2>1, TipIsLast DEF ReleaseInv, TypeInv, BranchesOK, ForwardInv, NamedThere, Named
<1>1. CASE UNCHANGED <<src, staged, at, since, complete, refs, head>>
  BY <1>1 DEF ForwardInv, ReleasesGoForward, Tip
<1>2. ASSUME NEW f \in Files, Edit(f) \/ Withdraw(f) PROVE ForwardInv'
  <2>1. UNCHANGED <<staged, at, since, complete, refs, head>>
    BY <1>2 DEF Edit, Withdraw, stageVars, localVars
  <2>2. \A g \in Named : src[g] <= src'[g] /\ src'[g] \in Int
    BY <1>0, <1>2 DEF Edit, Withdraw, ReleaseInv, TypeInv, StageOK, Sources
  <2>3. \A b \in Branches, g \in Named : Tip(b, g) <= src'[g]
    BY <1>0, <2>2 DEF ForwardInv
  <2> QED
    BY <2>1, <2>3 DEF ForwardInv, ReleasesGoForward, Tip
<1>3. CASE StartStaging
  <2>1. UNCHANGED <<src, refs, head>> /\ since' = src /\ complete' = FALSE
    BY <1>3 DEF StartStaging, sourceVars, localVars
  <2> QED
    BY <2>1 DEF ForwardInv, ReleasesGoForward, Tip
<1>4. CASE Copy \/ CopyFails
  <2>1. UNCHANGED <<src, since, complete, refs, head>> /\ at # 0 /\ ~ complete
    BY <1>4, FilesAssumption
       DEF Copy, CopyFails, Copying, sourceVars, localVars, ReleaseInv, StageInv
  <2> QED
    BY <2>1 DEF ForwardInv, ReleasesGoForward, Tip
<1>5. CASE FinishStaging
  <2>1. UNCHANGED <<src, staged, since, refs, head>> /\ at # 0 /\ at' = 0
    BY <1>5, Copies DEF FinishStaging, sourceVars, localVars
  <2>2. ASSUME NEW f \in Named, complete' PROVE Tip(head, f) <= staged[f]
    <3>1. ReleaseInv'
      BY ReleaseStep
    <3>2. since[f] # Missing /\ src[f] # Missing
      BY VersionsAssumption DEF NamedThere
    <3>3. staged[f] \in since[f] .. src[f]
      BY <1>0, <2>1, <2>2, <3>1, <3>2 DEF ReleaseInv, StageInv, StagedIsCurrent
    <3> QED
      BY <1>0, <2>1, <3>3 DEF ForwardInv
  <2> QED
    BY <2>1, <2>2 DEF ForwardInv, ReleasesGoForward, Tip
<1>6. CASE Commit
  BY <1>6, CommitGoesForward
<1>7. ASSUME NEW b \in Branches, Checkout(b) PROVE ForwardInv'
  <2>1. /\ UNCHANGED <<src, since, at, refs>> /\ head' = b /\ staged' = Last(refs[b])
    BY <1>7 DEF Checkout, sourceVars
  <2>2. \A f \in Named : Tip(b, f) = staged'[f] /\ Tip(b, f) <= staged'[f]
    BY <1>0, <2>1 DEF Tip
  <2> QED
    BY <2>1, <2>2 DEF ForwardInv, ReleasesGoForward, Tip
<1>8. \/ UNCHANGED <<src, staged, at, since, complete, refs, head>>
      \/ StartStaging \/ Copy \/ CopyFails \/ FinishStaging \/ Commit
      \/ \E b \in Branches : Checkout(b)
      \/ \E f \in Files : Edit(f) \/ Withdraw(f)
  BY DEF ReleaseNext, Staging, Operator, Verifier, World, StartPush, Preflight, Push, Clone,
         Compare, Gate, Pytest, Check, Raw, Attempt, Report, OtherPush, NetworkTurns, releaseVars,
         sourceVars, stageVars, localVars
<1> QED
  BY <1>1, <1>2, <1>3, <1>4, <1>5, <1>6, <1>7, <1>8

LEMMA ForwardInitially == ReleaseInit => NamedThere /\ ForwardInv
<1> SUFFICES ASSUME ReleaseInit PROVE NamedThere /\ ForwardInv
  OBVIOUS
<1>1. /\ src \in [Files -> {0}] /\ since = src /\ at = 0 /\ complete = FALSE
      /\ refs = [b \in Branches |-> <<src>>]
  BY DEF ReleaseInit
<1>2. \A f \in Named : src[f] = 0 /\ since[f] = 0
  BY <1>1 DEF Named
<1>3. 0 \in Versions
  BY VersionsAssumption DEF Versions
<1>4. ReleasesGoForward
  BY <1>1, <1>2, <1>3 DEF ReleasesGoForward
<1>5. \A b \in Branches, f \in Named : Tip(b, f) = 0
  BY <1>1, <1>2 DEF Tip, Last
<1> QED
  BY <1>1, <1>2, <1>3, <1>4, <1>5 DEF NamedThere, ForwardInv

(***************************************************************************)
(* What the operator commits, and so what is pushed, has every required    *)
(* file whole and never an older one than before: for any allowlist, any   *)
(* stagings that failed, and any branches checked out between.             *)
(***************************************************************************)
THEOREM NoReleaseGoesBack == ReleaseSpec => []ReleasesGoForward
<1>1. ReleaseInv /\ NamedThere /\ ForwardInv /\ [ReleaseNext]_releaseVars => NamedThere' /\ ForwardInv'
  BY NamedStep, ForwardStep
<1>2. ForwardInv => ReleasesGoForward
  BY DEF ForwardInv
<1> QED
  BY <1>1, <1>2, ForwardInitially, ReleaseInvariant, PTL DEF ReleaseSpec

(***************************************************************************)
(* A run that reports another head was interfered with.                    *)
(***************************************************************************)
THEOREM EveryMismatchHasACause == ReleaseSpec => MismatchIsExplained
<1>1. ReleaseInv /\ [ReleaseNext]_releaseVars =>
         [run.pc = "compare" /\ run'.report = "other head" => others \/ strayed]_releaseVars
  <2> SUFFICES ASSUME ReleaseInv, ReleaseNext, run.pc = "compare", ~ others, ~ strayed
               PROVE  run'.report # "other head"
    BY DEF ReleaseInv, TypeInv, RestOK
  <2>1. run \in Runs /\ run.report = "none" /\ run.sha = run.clone
    BY DEF ReleaseInv, TypeInv, RunOK, RunInv
  <2>2. run' = run \/ Compare
    BY DEF ReleaseNext, Staging, Operator, Verifier, World, StartStaging, Copy, CopyFails, FinishStaging,
           Commit, Checkout, StartPush, Preflight, Push, Clone, Gate, Pytest, Check, Raw, Attempt,
           Report, Edit, Withdraw, OtherPush, NetworkTurns, runVars
  <2>3. CASE Compare
    <3>1. run' = [run EXCEPT !.pc = "gate"]
      BY <2>1, <2>3 DEF Compare, Proceed
    <3> QED
      BY <2>1, <3>1 DEF Runs
  <2> QED
    BY <2>1, <2>2, <2>3
<1> QED
  BY <1>1, ReleaseInvariant, PTL DEF ReleaseSpec, MismatchIsExplained

-----------------------------------------------------------------------------
(* How long a verification can take.  The prover does neither fairness nor  *)
(* ENABLED, but VerifierEnds rests on this: the verifier has a number of    *)
(* steps before it that each of its steps lowers and nobody else touches.   *)

\* The commands the verifier may still run, three attempts at the raw file included.
Left ==
    CASE run.pc = "clone"   -> 8
      [] run.pc = "compare" -> 7
      [] run.pc = "gate"    -> 6
      [] run.pc = "pytest"  -> 5
      [] run.pc = "raw"     -> 4 - run.failed
      [] run.pc = "grep"    -> 1
      [] OTHER              -> 0

(***************************************************************************)
(* Each command of post_push_verify.sh that ends, by itself or by its      *)
(* timeout, brings the result nearer, and no edit, push, CI run or outage  *)
(* meanwhile puts it off: a verification runs eight commands at most.      *)
(***************************************************************************)
VerificationIsShort ==
    [][run.pc \in VerifySteps => IF Verifier THEN Left' < Left ELSE Left' = Left]_releaseVars

(* For any files, bounds and behaviour of the network.                     *)
THEOREM EightCommandsAtMost == ReleaseSpec => VerificationIsShort
<1>1. ASSUME ReleaseInv, ReleaseNext, run.pc \in VerifySteps
      PROVE  IF Verifier THEN Left' < Left ELSE Left' = Left
  <2>1. run \in Runs /\ (run.pc = "raw" => run.failed \in 0 .. 2)
    BY <1>1 DEF ReleaseInv, TypeInv, RunOK, Runs
  <2>2. run.pc \notin {"idle", "preflight", "push"}
    BY <1>1 DEF VerifySteps
  <2>3. CASE Verifier
    <3>0. \A report : NoRun(report).pc = "idle"
      BY DEF NoRun
    <3> SUFFICES Left' < Left
      BY <2>3
    <3>1. CASE Clone \/ Compare \/ Report
      <4>1. CASE Clone
        <5>1. run.pc = "clone" /\ (run'.pc = "compare" \/ run'.pc = "idle")
          <6>1. run' = [run EXCEPT !.pc = "compare", !.clone = public] \/ run' = NoRun("none")
            BY <4>1 DEF Clone, Exit
          <6>2. run' = NoRun("none") => run'.pc = "idle"
            BY <3>0
          <6>3. run' = [run EXCEPT !.pc = "compare", !.clone = public] => run'.pc = "compare"
            BY <2>1 DEF Runs
          <6> QED
            BY <4>1, <6>1, <6>2, <6>3 DEF Clone
        <5>2. Left = 8 /\ (Left' = 7 \/ Left' = 0)
          BY <5>1 DEF Left
        <5> QED
          BY <5>2
      <4>2. CASE Compare
        <5>1. run.pc = "compare" /\ (run'.pc = "gate" \/ run'.pc = "idle")
          <6>1. IF run.clone = run.sha THEN Proceed("gate") ELSE Exit("other head")
            BY <4>2 DEF Compare
          <6>2. run' = NoRun("other head") => run'.pc = "idle"
            BY <3>0
          <6>3. run' = [run EXCEPT !.pc = "gate"] => run'.pc = "gate"
            BY <2>1 DEF Runs
          <6> QED
            BY <4>2, <6>1, <6>2, <6>3 DEF Compare, Proceed, Exit
        <5>2. Left = 7 /\ (Left' = 6 \/ Left' = 0)
          BY <5>1 DEF Left
        <5> QED
          BY <5>2
      <4>3. CASE Report
        <5>1. run.pc = "grep" /\ run'.pc = "idle"
          BY <3>0, <4>3 DEF Report, Exit
        <5> QED
          BY <5>1 DEF Left
      <4> QED
        BY <3>1, <4>1, <4>2, <4>3
    <3>2. CASE Gate
      <4>1. run.pc = "gate" /\ run'.pc = "pytest"
        BY <2>1, <3>2 DEF Gate, Check, Runs
      <4> QED
        BY <4>1 DEF Left
    <3>3. CASE Pytest
      <4>1. run.pc = "pytest" /\ run'.pc = "raw" /\ run'.failed = run.failed
        BY <2>1, <3>3 DEF Pytest, Check, Runs
      <4>2. run.failed = 0
        BY <1>1, <4>1 DEF ReleaseInv, TypeInv, RunOK, VerifySteps
      <4> QED
        BY <4>1, <4>2 DEF Left
    <3>4. CASE Raw
      <4>1. PICK match \in BOOLEAN : Attempt(match)
        BY <3>4 DEF Raw, RawMatches
      <4>2. run.pc = "raw" /\ run.failed \in 0 .. 2
        BY <2>1, <4>1 DEF Attempt
      <4>3. CASE run'.pc = "grep"
        BY <4>2, <4>3 DEF Left
      <4>4. CASE run'.pc = "raw" /\ run'.failed = run.failed + 1
        BY <4>2, <4>4 DEF Left
      <4>5. run'.pc = "grep" \/ (run'.pc = "raw" /\ run'.failed = run.failed + 1)
        BY <2>1, <4>1 DEF Attempt, AfterAttempt, Runs
      <4> QED
        BY <4>3, <4>4, <4>5
    <3> QED
      BY <2>3, <3>1, <3>2, <3>3, <3>4 DEF Verifier
  <2>4. CASE ~ Verifier
    <3>1. run' = run
      BY <1>1, <2>2, <2>4 DEF ReleaseNext, Staging, Operator, World, StartStaging, Copy, CopyFails,
         FinishStaging, Commit, Checkout, StartPush, Preflight, Push, Edit, Withdraw, OtherPush,
         NetworkTurns, runVars
    <3> QED
      BY <2>4, <3>1 DEF Left
  <2> QED
    BY <2>3, <2>4
<1> QED
  BY <1>1, ReleaseInvariant, PTL DEF ReleaseSpec, VerificationIsShort
=============================================================================
