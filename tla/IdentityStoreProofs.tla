------------------------ MODULE IdentityStoreProofs ------------------------
(***************************************************************************)
(* Proofs about IdentityStore, for every number of callers, names, paths,  *)
(* keys and operators.                                                     *)
(***************************************************************************)
EXTENDS IdentityStore, FiniteSetTheorems, TLAPS

-----------------------------------------------------------------------------
(* Frames: every assignment to a local variable keeps a frame a frame.     *)

LEMMA IdleFrame == Idle \in Frames
BY DEF Idle, Frames, Steps

LEMMA PcFrame ==
    ASSUME NEW f \in Frames, NEW l \in Steps
    PROVE  [f EXCEPT !.pc = l] \in Frames
BY DEF Frames

LEMMA CallFrame ==
    ASSUME NEW l \in Steps, NEW c \in CallNames, NEW n \in Names, NEW o \in Ops \cup {None}
    PROVE  [Idle EXCEPT !.pc = l, !.call = c, !.name = n, !.op = o] \in Frames
BY DEF Frames, Idle

LEMMA ListFrame ==
    ASSUME NEW T \in SUBSET Paths
    PROVE  [Idle EXCEPT !.pc = "scan", !.call = "list_agents", !.todo = T] \in Frames
BY DEF Frames, Idle, Steps, CallNames

LEMMA NextFileFrame ==
    ASSUME NEW f \in Frames, NEW n \in Names, NEW q \in Paths
    PROVE  [f EXCEPT !.pc = "exists", !.name = n, !.todo = @ \ {q}] \in Frames
BY DEF Frames, Steps

LEMMA SeenFrame ==
    ASSUME NEW f \in Frames, NEW a \in Agents
    PROVE  [f EXCEPT !.pc = "probe", !.seen = a] \in Frames
BY DEF Frames, Steps

LEMMA KeyFrame ==
    ASSUME NEW f \in Frames, NEW k \in Keys
    PROVE  [f EXCEPT !.pc = "store", !.key = k] \in Frames
BY DEF Frames, Steps

LEMMA FdFrame ==
    ASSUME NEW f \in Frames, NEW d \in Keys
    PROVE  [f EXCEPT !.pc = "write", !.fd = d] \in Frames
BY DEF Frames, Steps

LEMMA DeletedFrame ==
    ASSUME NEW f \in Frames
    PROVE  [f EXCEPT !.pc = "absent", !.deleted = TRUE] \in Frames
BY DEF Frames, Steps

\* The types of a caller's local variables.
LEMMA FrameParts ==
    ASSUME TypeOK, NEW p \in Procs
    PROVE  /\ frame[p] \in Frames
           /\ frame[p].name \in Names \cup {None}
           /\ frame[p].op \in Ops \cup {None}
           /\ frame[p].key \in Keys \cup {None}
           /\ frame[p].fd \in Keys \cup {None}
           /\ frame[p].seen \in Agents \cup {None}
           /\ frame[p].todo \in SUBSET Paths
BY DEF TypeOK, Frames

-----------------------------------------------------------------------------
(* Type correctness.  TypeOK is not inductive alone: that the record a     *)
(* create writes is an agent depends on the local variables being set at   *)
(* the steps that use them.                                                *)

NamedSteps == Steps \ {"idle", "scan"}
KeyedSteps == {"store", "open", "write", "rename"}

LocalsSet(f) ==
    /\ f.pc \in NamedSteps => f.name \in Names /\ PathOf[f.name] \in Paths
    /\ f.pc \in KeyedSteps => f.key \in Keys
    /\ f.pc \in {"write", "rename"} => f.fd \in Keys
    /\ f.pc = "probe" => f.seen \in Agents

TypeInv == TypeOK /\ \A p \in Procs : LocalsSet(frame[p])

\* What of TypeInv is about frames.
FramesOK == frame \in [Procs -> Frames] /\ \A p \in Procs : LocalsSet(frame[p])

LEMMA SetFrame ==
    ASSUME TypeInv, NEW p \in Procs, NEW f \in Frames, LocalsSet(f),
           frame' = [frame EXCEPT ![p] = f]
    PROVE  FramesOK'
BY DEF TypeInv, TypeOK, FramesOK

LEMMA ReturnTypes ==
    ASSUME TypeInv, NEW p \in Procs, NEW r \in Results, Return(p, r)
    PROVE  FramesOK' /\ result' \in [Procs -> Results]
<1>1. LocalsSet(Idle)
  BY DEF LocalsSet, Idle, NamedSteps, KeyedSteps
<1> QED BY <1>1, IdleFrame, SetFrame DEF TypeInv, TypeOK, Return

\* A step that stays inside a call, to a place whose variables are set.
LEMMA GotoTypes ==
    ASSUME TypeInv, NEW p \in Procs, NEW l \in Steps, Goto(p, l),
           l \in NamedSteps => frame[p].pc \in NamedSteps,
           l \in KeyedSteps => frame[p].pc \in KeyedSteps,
           l \in {"write", "rename"} => frame[p].pc \in {"write", "rename"},
           l # "probe"
    PROVE  FramesOK' /\ result' \in [Procs -> Results]
<1> DEFINE f == [frame[p] EXCEPT !.pc = l]
<1>1. frame[p] \in Frames /\ LocalsSet(frame[p])
  BY DEF TypeInv, TypeOK
<1>2. f \in Frames
  BY <1>1, PcFrame
<1>3. LocalsSet(f)
  BY <1>1 DEF LocalsSet, Frames
<1>4. frame' = [frame EXCEPT ![p] = f]
  BY DEF Goto
<1> QED BY <1>2, <1>3, <1>4, SetFrame DEF TypeInv, TypeOK, Goto

LEMMA InitTypeInv == Init => TypeInv
<1> SUFFICES ASSUME Init PROVE TypeInv
  OBVIOUS
<1>1. LocalsSet(Idle)
  BY DEF LocalsSet, Idle, NamedSteps, KeyedSteps
<1> QED BY <1>1, IdleFrame DEF Init, TypeInv, TypeOK, Results, Contents

LEMMA StartTypeInv ==
    ASSUME TypeInv, NEW p \in Procs, StartCall(p)
    PROVE  TypeInv'
<1> USE DEF TypeInv, FramesOK
<1>1. ASSUME NEW c \in CallNames, NEW n \in Names, NEW o \in Ops \cup {None}, Begin(p, c, n, o)
      PROVE  TypeInv'
  <2> DEFINE f == [Idle EXCEPT !.pc = FirstStep(c), !.call = c, !.name = n, !.op = o]
  <2>1. /\ FirstStep(c) \in Steps
        /\ FirstStep(c) \in NamedSteps
        /\ FirstStep(c) \notin KeyedSteps \cup {"write", "rename", "probe"}
    BY <1>1 DEF Begin, FirstStep, Steps, NamedSteps, KeyedSteps
  <2>2. f \in Frames
    BY <2>1, CallFrame
  <2>3. f.pc = FirstStep(c) /\ f.name = n
    BY DEF Idle
  <2>4. PathOf[n] \in Paths
    BY <1>1, NamesAssumption DEF Begin, Accepts
  <2>5. LocalsSet(f)
    BY <2>1, <2>3, <2>4 DEF LocalsSet
  <2>6. FramesOK'
    BY <1>1, <2>2, <2>5, SetFrame DEF Begin
  <2> QED BY <1>1, <2>6 DEF Begin, TypeOK, storeVars, keyVars, viewVars
<1>2. ASSUME NEW c \in CallNames, NEW n \in Names, Refuse(p, c, n)
      PROVE  TypeInv'
  BY <1>2, ReturnTypes DEF Refuse, TypeOK, storeVars, keyVars, viewVars, Results
<1>3. CASE BeginList(p)
  <2> DEFINE f == [Idle EXCEPT !.pc = "scan", !.call = "list_agents",
                               !.todo = {q \in Paths : meta[q] # None}]
  <2>1. f \in Frames
    BY ListFrame
  <2>2. LocalsSet(f)
    BY DEF LocalsSet, Idle, NamedSteps, KeyedSteps
  <2>3. FramesOK'
    BY <1>3, <2>1, <2>2, SetFrame DEF BeginList
  <2> QED BY <1>3, <2>3 DEF BeginList, TypeOK, storeVars, keyVars
<1>4. CASE Sign(p)
  <2>1. \E r \in Results : Return(p, r)
    BY <1>4 DEF Sign, PrivateKey, Results
  <2> QED BY <1>4, <2>1, ReturnTypes DEF Sign, PrivateKey, TypeOK, storeVars, keyVars, viewVars
<1> QED BY <1>1, <1>2, <1>3, <1>4 DEF StartCall, StartNamed

\* How load() ends, in each of the three calls it serves.
LEMMA LoadEndTypes ==
    ASSUME TypeInv, NEW p \in Procs, frame[p].pc \in {"exists", "read", "probe"},
           \/ LoadRaises(p)
           \/ LoadReturnsNone(p)
           \/ \E a \in Agents : LoadReturns(p, a),
           UNCHANGED <<storeVars, keyVars>>
    PROVE  TypeInv'
<1> USE DEF TypeInv, FramesOK
<1>1. FramesOK' /\ result' \in [Procs -> Results]
  <2>1. CASE Goto(p, "scan")
    BY <2>1, GotoTypes DEF Steps, NamedSteps, KeyedSteps
  <2>2. CASE \E r \in Results : Return(p, r)
    BY <2>2, ReturnTypes
  <2>3. CASE Goto(p, "check")
    BY <2>3, GotoTypes DEF Steps, NamedSteps, KeyedSteps
  <2> QED BY <2>1, <2>2, <2>3 DEF LoadRaises, LoadReturnsNone, LoadReturns, Results
<1>2. /\ handle' \in [Procs -> Agents \cup {None}]
      /\ shown' \in [Procs -> SUBSET Agents]
  <2>1. CASE UNCHANGED viewVars
    BY <2>1 DEF TypeOK, viewVars
  <2>2. CASE shown' = [shown EXCEPT ![p] = {}] /\ UNCHANGED handle
    BY <2>2 DEF TypeOK
  <2>3. CASE \E a \in Agents :
                \/ shown' = [shown EXCEPT ![p] = @ \cup {a}] /\ UNCHANGED handle
                \/ shown' = [shown EXCEPT ![p] = {a}] /\ UNCHANGED handle
                \/ handle' = [handle EXCEPT ![p] = a] /\ UNCHANGED shown
    BY <2>3 DEF TypeOK
  <2> QED BY <2>1, <2>2, <2>3 DEF LoadRaises, LoadReturnsNone, LoadReturns
<1> QED BY <1>1, <1>2 DEF TypeOK, storeVars, keyVars

LEMMA LoadTypeInv ==
    ASSUME TypeInv, NEW p \in Procs, LoadExists(p) \/ LoadReadText(p) \/ LoadProbe(p)
    PROVE  TypeInv'
<1> USE DEF TypeInv, FramesOK
<1>0. frame[p] \in Frames /\ LocalsSet(frame[p])
  BY DEF TypeOK
<1>1. CASE LoadExists(p)
  <2>1. CASE LoadReturnsNone(p)
    BY <1>1, <2>1, LoadEndTypes DEF LoadExists, At
  <2>2. CASE Goto(p, "read") /\ UNCHANGED viewVars
    <3>1. FramesOK' /\ result' \in [Procs -> Results]
      BY <1>1, <2>2, GotoTypes DEF LoadExists, At, Steps, NamedSteps, KeyedSteps
    <3> QED BY <1>1, <2>2, <3>1 DEF LoadExists, TypeOK, storeVars, keyVars, viewVars
  <2> QED BY <1>1, <2>1, <2>2 DEF LoadExists
<1>2. CASE LoadReadText(p)
  <2>1. CASE LoadRaises(p)
    BY <1>2, <2>1, LoadEndTypes DEF LoadReadText, At
  <2>2. CASE /\ Readable(Path(p))
             /\ frame' = [frame EXCEPT ![p].pc = "probe", ![p].seen = content[meta[Path(p)]]]
             /\ UNCHANGED <<viewVars, result>>
    <3> DEFINE f == [frame[p] EXCEPT !.pc = "probe", !.seen = content[meta[Path(p)]]]
    <3>1. content[meta[Path(p)]] \in Agents
      BY <2>2 DEF Readable
    <3>2. f \in Frames
      BY <1>0, <3>1, SeenFrame
    <3>3. f.pc = "probe" /\ f.name = frame[p].name /\ f.seen \in Agents
      BY <1>0, <3>1 DEF Frames
    <3>4. LocalsSet(f)
      BY <1>0, <1>2, <3>3 DEF LocalsSet, LoadReadText, At, NamedSteps, KeyedSteps, Steps
    <3>5. frame' = [frame EXCEPT ![p] = f]
      BY <2>2
    <3>6. FramesOK'
      BY <3>2, <3>4, <3>5, SetFrame
    <3> QED BY <1>2, <2>2, <3>6 DEF LoadReadText, TypeOK, storeVars, keyVars, viewVars
  <2> QED BY <1>2, <2>1, <2>2 DEF LoadReadText
<1>3. CASE LoadProbe(p)
  <2>1. frame[p].seen \in Agents
    BY <1>0, <1>3 DEF LoadProbe, At, LocalsSet
  <2> QED BY <1>3, <2>1, LoadEndTypes DEF LoadProbe, At
<1> QED BY <1>1, <1>2, <1>3

LEMMA ListTypeInv ==
    ASSUME TypeInv, NEW p \in Procs, ListNext(p)
    PROVE  TypeInv'
<1> USE DEF TypeInv, FramesOK
<1>0. frame[p] \in Frames /\ LocalsSet(frame[p]) /\ frame[p].todo \in SUBSET Paths
  BY FrameParts DEF TypeOK
<1>1. ASSUME NEW q \in frame[p].todo,
             frame' = [frame EXCEPT ![p].pc = "exists", ![p].name = StemOf[q], ![p].todo = @ \ {q}],
             UNCHANGED result
      PROVE  TypeInv'
  <2> DEFINE f == [frame[p] EXCEPT !.pc = "exists", !.name = StemOf[q], !.todo = @ \ {q}]
  <2>1. q \in Paths /\ StemOf[q] \in Names /\ PathOf[StemOf[q]] \in Paths
    BY <1>0, NamesAssumption
  <2>2. f \in Frames
    BY <1>0, <2>1, NextFileFrame
  <2>3. f.pc = "exists" /\ f.name = StemOf[q]
    BY <1>0 DEF Frames
  <2>4. LocalsSet(f)
    BY <2>1, <2>3 DEF LocalsSet, KeyedSteps
  <2>5. frame' = [frame EXCEPT ![p] = f]
    BY <1>1
  <2>6. FramesOK'
    BY <2>2, <2>4, <2>5, SetFrame
  <2> QED BY <1>1, <2>6 DEF ListNext, TypeOK, storeVars, keyVars, viewVars
<1>2. CASE Return(p, "ok")
  BY <1>2, ReturnTypes DEF ListNext, TypeOK, storeVars, keyVars, viewVars, Results
<1> QED BY <1>1, <1>2 DEF ListNext

LEMMA NewAgentType ==
    ASSUME TypeInv, NEW p \in Procs, frame[p].pc \in {"write", "rename"}
    PROVE  NewAgent(p) \in Agents
<1>1. LocalsSet(frame[p]) /\ frame[p].op \in Ops \cup {None}
  BY FrameParts DEF TypeInv
<1> QED BY <1>1 DEF NewAgent, Agents, LocalsSet, NamedSteps, KeyedSteps, Steps

LEMMA CreateTypeInv ==
    ASSUME TypeInv, NEW p \in Procs,
           \/ CreateCheck(p)
           \/ CreateSetPassword(p)
           \/ CreateOpenTmp(p)
           \/ CreateWriteTmp(p)
           \/ CreateRename(p)
    PROVE  TypeInv'
<1> USE DEF TypeInv, FramesOK
<1>0. frame[p] \in Frames /\ LocalsSet(frame[p])
  BY DEF TypeOK
<1>1. CASE CreateCheck(p)
  <2>1. CASE Return(p, "IdentityError") /\ UNCHANGED minted
    BY <1>1, <2>1, ReturnTypes DEF CreateCheck, SidecarTaken, FreshKeys, TypeOK, storeVars, viewVars, Results
  <2>2. ASSUME NEW k \in Keys \ minted,
               minted' = minted \cup {k},
               frame' = [frame EXCEPT ![p].pc = "store", ![p].key = k],
               UNCHANGED result
        PROVE  TypeInv'
    <3> DEFINE f == [frame[p] EXCEPT !.pc = "store", !.key = k]
    <3>1. f \in Frames
      BY <1>0, KeyFrame
    <3>2. f.pc = "store" /\ f.name = frame[p].name /\ f.key = k
      BY <1>0 DEF Frames
    <3>3. LocalsSet(f)
      BY <1>0, <1>1, <3>2 DEF CreateCheck, SidecarTaken, FreshKeys, At, LocalsSet, NamedSteps, Steps
    <3>4. frame' = [frame EXCEPT ![p] = f]
      BY <2>2
    <3>5. FramesOK'
      BY <3>1, <3>3, <3>4, SetFrame
    <3> QED BY <1>1, <2>2, <3>5 DEF CreateCheck, SidecarTaken, FreshKeys, TypeOK, storeVars, viewVars
  <2> QED BY <1>1, <2>1, <2>2 DEF CreateCheck, SidecarTaken, FreshKeys
<1>2. CASE CreateSetPassword(p)
  <2>1. frame[p].key \in Keys
    BY <1>0, <1>2 DEF CreateSetPassword, At, LocalsSet, KeyedSteps
  <2>2. FramesOK' /\ result' \in [Procs -> Results]
    <3>1. CASE Return(p, "IdentityError")
      BY <3>1, ReturnTypes DEF Results
    <3>2. CASE Goto(p, "open")
      BY <1>2, <3>2, GotoTypes DEF CreateSetPassword, At, Steps, NamedSteps, KeyedSteps
    <3> QED BY <1>2, <3>1, <3>2 DEF CreateSetPassword
  <2>3. slot' \in [Names -> Keys \cup {None}] /\ stored' \subseteq Keys
    BY <1>2, <2>1 DEF CreateSetPassword, TypeOK
  <2> QED BY <1>2, <2>2, <2>3 DEF CreateSetPassword, TypeOK, viewVars
<1>3. CASE CreateOpenTmp(p)
  <2>1. TmpFile(p) \in Keys /\ frame[p].name \in Names /\ PathOf[frame[p].name] \in Paths
    BY <1>0, <1>3 DEF CreateOpenTmp, At, LocalsSet, KeyedSteps, NamedSteps, Steps, TmpFile,
                      Path, TypeOK
  <2> DEFINE f == [frame[p] EXCEPT !.pc = "write", !.fd = TmpFile(p)]
  <2>2. f \in Frames
    BY <1>0, <2>1, FdFrame
  <2>3. f.pc = "write" /\ f.name = frame[p].name /\ f.key = frame[p].key /\ f.fd = TmpFile(p)
    BY <1>0 DEF Frames
  <2>4. LocalsSet(f)
    BY <1>0, <1>3, <2>1, <2>3 DEF CreateOpenTmp, At, LocalsSet, KeyedSteps
  <2>5. frame' = [frame EXCEPT ![p] = f]
    BY <1>3 DEF CreateOpenTmp
  <2>6. FramesOK'
    BY <2>2, <2>4, <2>5, SetFrame
  <2>7. tmp' \in [Paths -> Keys \cup {None}] /\ content' \in [Keys -> Contents]
    BY <1>3, <2>1 DEF CreateOpenTmp, TypeOK, Contents
  <2> QED BY <1>3, <2>6, <2>7 DEF CreateOpenTmp, TypeOK, keyVars, viewVars
<1>4. CASE CreateWriteTmp(p)
  <2>1. NewAgent(p) \in Agents
    BY <1>4, NewAgentType DEF CreateWriteTmp, At
  <2>2. PICK c \in AfterWrite(content[frame[p].fd], NewAgent(p)) :
             content' = [content EXCEPT ![frame[p].fd] = c]
    BY <1>4 DEF CreateWriteTmp
  <2>3. c \in Contents
    BY <2>1 DEF AfterWrite, Contents
  <2>4. content' \in [Keys -> Contents]
    BY <2>2, <2>3 DEF TypeOK
  <2>5. FramesOK' /\ result' \in [Procs -> Results]
    BY <1>4, GotoTypes DEF CreateWriteTmp, At, Steps, NamedSteps, KeyedSteps
  <2> QED BY <1>4, <2>4, <2>5 DEF CreateWriteTmp, TypeOK, keyVars, viewVars
<1>5. CASE CreateRename(p)
  <2>1. NewAgent(p) \in Agents
    BY <1>5, NewAgentType DEF CreateRename, At
  <2>2. Path(p) \in Paths
    BY <1>0, <1>5 DEF CreateRename, At, LocalsSet, NamedSteps, Steps, Path
  <2>3. FramesOK' /\ result' \in [Procs -> Results]
    BY <1>5, ReturnTypes DEF CreateRename, Results
  <2>4. DidsIn(tmp[Path(p)]) \subseteq Keys
    BY DEF DidsIn, Agents
  <2>5. /\ meta' \in [Paths -> Keys \cup {None}]
        /\ tmp' \in [Paths -> Keys \cup {None}]
        /\ published' \subseteq Keys
        /\ handle' \in [Procs -> Agents \cup {None}]
    BY <1>5, <2>1, <2>2, <2>4 DEF CreateRename, TypeOK
  <2> QED BY <1>5, <2>3, <2>5 DEF CreateRename, TypeOK
<1> QED BY <1>1, <1>2, <1>3, <1>4, <1>5

LEMMA DeleteTypeInv ==
    ASSUME TypeInv, NEW p \in Procs, DeletePassword(p) \/ DeleteExists(p) \/ DeleteUnlink(p)
    PROVE  TypeInv'
<1> USE DEF TypeInv, FramesOK
<1>0. frame[p] \in Frames /\ LocalsSet(frame[p])
  BY DEF TypeOK
<1>1. CASE DeletePassword(p)
  <2>1. \E f \in Frames : /\ f.pc = "absent" /\ f.name = frame[p].name
                          /\ frame' = [frame EXCEPT ![p] = f]
    <3>1. CASE frame' = [frame EXCEPT ![p].pc = "absent", ![p].deleted = TRUE]
      <4> DEFINE f == [frame[p] EXCEPT !.pc = "absent", !.deleted = TRUE]
      <4>1. f \in Frames
        BY <1>0, DeletedFrame
      <4>2. f.pc = "absent" /\ f.name = frame[p].name
        BY <1>0 DEF Frames
      <4> QED BY <3>1, <4>1, <4>2
    <3>2. CASE frame' = [frame EXCEPT ![p].pc = "absent"]
      <4> DEFINE f == [frame[p] EXCEPT !.pc = "absent"]
      <4>1. f \in Frames
        BY <1>0, PcFrame DEF Steps
      <4>2. f.pc = "absent" /\ f.name = frame[p].name
        BY <1>0 DEF Frames
      <4> QED BY <3>2, <4>1, <4>2
    <3> QED BY <1>1, <3>1, <3>2 DEF DeletePassword
  <2>2. PICK f \in Frames : /\ f.pc = "absent" /\ f.name = frame[p].name
                            /\ frame' = [frame EXCEPT ![p] = f]
    BY <2>1
  <2>3. LocalsSet(f)
    BY <1>0, <1>1, <2>2 DEF DeletePassword, At, LocalsSet, NamedSteps, KeyedSteps, Steps
  <2>4. FramesOK'
    BY <2>2, <2>3, SetFrame
  <2> QED BY <1>1, <2>4 DEF DeletePassword, TypeOK, keyVars, viewVars
<1>2. CASE DeleteExists(p)
  <2>1. FramesOK' /\ result' \in [Procs -> Results]
    <3>1. CASE \E r \in Results : Return(p, r)
      BY <3>1, ReturnTypes
    <3>2. CASE Goto(p, "unlink")
      BY <1>2, <3>2, GotoTypes DEF DeleteExists, At, Steps, NamedSteps, KeyedSteps
    <3> QED BY <1>2, <3>1, <3>2 DEF DeleteExists, Results
  <2> QED BY <1>2, <2>1 DEF DeleteExists, TypeOK, storeVars, keyVars, viewVars
<1>3. CASE DeleteUnlink(p)
  <2>1. FramesOK' /\ result' \in [Procs -> Results]
    BY <1>3, ReturnTypes DEF DeleteUnlink, Results
  <2> QED BY <1>3, <2>1 DEF DeleteUnlink, TypeOK, keyVars, viewVars
<1> QED BY <1>1, <1>2, <1>3

LEMMA EnvironmentTypeInv == TypeInv /\ Environment => TypeInv'
<1> SUFFICES ASSUME TypeInv, Environment PROVE TypeInv'
  OBVIOUS
<1> USE DEF TypeInv, FramesOK
<1>1. ASSUME NEW p \in Procs, Crash(p) PROVE TypeInv'
  BY <1>1, ReturnTypes DEF Crash, TypeOK, storeVars, keyVars, Results
<1>2. ASSUME NEW n \in Names, WipeSlot(n) PROVE TypeInv'
  BY <1>2 DEF WipeSlot, TypeOK, keyVars, viewVars
<1> QED BY <1>1, <1>2 DEF Environment

LEMMA NextTypeInv == TypeInv /\ [Next]_vars => TypeInv'
<1> SUFFICES ASSUME TypeInv, [Next]_vars PROVE TypeInv'
  OBVIOUS
<1>1. ASSUME NEW p \in Procs, StartCall(p) PROVE TypeInv'
  BY <1>1, StartTypeInv
<1>2. ASSUME NEW p \in Procs, ContinueCall(p) PROVE TypeInv'
  BY <1>2, LoadTypeInv, ListTypeInv, CreateTypeInv, DeleteTypeInv DEF ContinueCall
<1>3. CASE Environment
  BY <1>3, EnvironmentTypeInv
<1>4. CASE UNCHANGED vars
  BY <1>4 DEF vars, storeVars, keyVars, viewVars, TypeInv, TypeOK
<1> QED BY <1>1, <1>2, <1>3, <1>4 DEF Next

(***************************************************************************)
(* Type correctness: whatever calls interleave and whatever faults occur,  *)
(* the stores, files, frames and results of _storage.py keep their shapes. *)
(***************************************************************************)
THEOREM TypeCorrect == Spec => []TypeOK
<1>1. TypeInv => TypeOK
  BY DEF TypeInv
<1> QED BY InitTypeInv, NextTypeInv, <1>1, PTL DEF Spec

-----------------------------------------------------------------------------
(* Keys: accepted by the keyring before anything refers to them, stored    *)
(* once, and never shared.                                                 *)

HoldingSteps == {"probe"} \cup KeyedSteps

\* What a caller holds in its frame.
HeldKeys(p) ==
    /\ frame[p].pc = "probe" => frame[p].seen.key \in stored
    /\ frame[p].pc \in {"open", "write", "rename"} => frame[p].key \in stored
    /\ frame[p].pc = "store" => frame[p].key \in minted \ stored

\* Where a stored key may be.
KeyPlaces ==
    /\ stored \subseteq minted
    /\ \A f \in Keys : content[f] \in Agents => content[f].key \in stored
    /\ \A n \in Names : slot[n] # None => slot[n] \in stored
    /\ \A p \in Procs : handle[p] # None => handle[p].key \in stored

\* A key that is not stored yet is in one frame only.
PrivateKeys ==
    \A p, r \in Procs :
        At(p, "store") /\ At(r, "store") /\ frame[p].key = frame[r].key => p = r

KeyInv ==
    /\ TypeInv
    /\ KeyPlaces
    /\ \A p \in Procs : HeldKeys(p)
    /\ PrivateKeys
    /\ OneSlotPerKey

\* Steps that mint and store nothing, and leave no caller holding more.
LEMMA KeysKept ==
    ASSUME KeyInv, TypeInv',
           \A p \in Procs : frame'[p] = frame[p] \/ frame'[p].pc \notin HoldingSteps,
           UNCHANGED <<minted, stored>>,
           \A f \in Keys : content'[f] \in {content[f], None, Empty, Torn},
           \A n \in Names : slot'[n] \in {slot[n], None},
           \A p \in Procs : handle'[p] \in {handle[p], None} \/ handle'[p].key \in stored
    PROVE  KeyInv'
<1>1. KeyPlaces'
  <2>1. \A f \in Keys : content'[f] \in Agents => content'[f] = content[f]
    BY MarksAssumption
  <2> QED BY <2>1 DEF KeyInv, KeyPlaces
<1>2. \A p \in Procs : HeldKeys(p)'
  BY DEF KeyInv, HeldKeys, HoldingSteps, KeyedSteps
<1>3. PrivateKeys'
  <2>1. \A p \in Procs : At(p, "store")' => frame'[p] = frame[p]
    BY DEF At, HoldingSteps, KeyedSteps
  <2> QED BY <2>1 DEF KeyInv, PrivateKeys, At
<1>4. OneSlotPerKey'
  BY DEF KeyInv, OneSlotPerKey
<1> QED BY <1>1, <1>2, <1>3, <1>4 DEF KeyInv

LEMMA ReturnHoldsNothing ==
    ASSUME TypeInv, NEW p \in Procs, NEW r, Return(p, r)
    PROVE  \A x \in Procs : frame'[x] = frame[x] \/ frame'[x].pc \notin HoldingSteps
BY DEF TypeInv, TypeOK, Return, Idle, HoldingSteps, KeyedSteps

LEMMA GotoHoldsNothing ==
    ASSUME TypeInv, NEW p \in Procs, NEW l \in Steps \ HoldingSteps, Goto(p, l)
    PROVE  \A x \in Procs : frame'[x] = frame[x] \/ frame'[x].pc \notin HoldingSteps
<1>1. frame[p] \in Frames
  BY DEF TypeInv, TypeOK
<1>2. [frame[p] EXCEPT !.pc = l].pc = l
  BY <1>1 DEF Frames
<1> QED BY <1>2 DEF TypeInv, TypeOK, Goto

LEMMA StartKeyInv ==
    ASSUME KeyInv, TypeInv', NEW p \in Procs, StartCall(p)
    PROVE  KeyInv'
<1> USE DEF KeyInv
<1>1. ASSUME NEW c \in CallNames, NEW n \in Names, NEW o \in Ops \cup {None}, Begin(p, c, n, o)
      PROVE  KeyInv'
  <2>1. \A x \in Procs : frame'[x] = frame[x] \/ frame'[x].pc \notin HoldingSteps
    BY <1>1 DEF Begin, FirstStep, TypeInv, TypeOK, Idle, HoldingSteps, KeyedSteps
  <2> QED BY <1>1, <2>1, KeysKept DEF Begin, storeVars, keyVars, viewVars
<1>2. ASSUME NEW c \in CallNames, NEW n \in Names, Refuse(p, c, n)
      PROVE  KeyInv'
  BY <1>2, ReturnHoldsNothing, KeysKept DEF Refuse, storeVars, keyVars, viewVars
<1>3. CASE BeginList(p)
  <2>1. \A x \in Procs : frame'[x] = frame[x] \/ frame'[x].pc \notin HoldingSteps
    BY <1>3 DEF BeginList, TypeInv, TypeOK, Idle, HoldingSteps, KeyedSteps
  <2> QED BY <1>3, <2>1, KeysKept DEF BeginList, storeVars, keyVars
<1>4. CASE Sign(p)
  <2>1. \E r \in Results : Return(p, r)
    BY <1>4 DEF Sign, PrivateKey, Results
  <2> QED BY <1>4, <2>1, ReturnHoldsNothing, KeysKept DEF Sign, PrivateKey, storeVars, keyVars, viewVars
<1> QED BY <1>1, <1>2, <1>3, <1>4 DEF StartCall, StartNamed

LEMMA LoadEndKeyInv ==
    ASSUME KeyInv, TypeInv', NEW p \in Procs,
           \/ LoadRaises(p)
           \/ LoadReturnsNone(p)
           \/ \E a \in Agents : a.key \in stored /\ LoadReturns(p, a),
           UNCHANGED <<storeVars, keyVars>>
    PROVE  KeyInv'
<1>1. \A x \in Procs : frame'[x] = frame[x] \/ frame'[x].pc \notin HoldingSteps
  <2>1. CASE Goto(p, "scan") \/ Goto(p, "check")
    BY <2>1, GotoHoldsNothing DEF Steps, HoldingSteps, KeyedSteps, KeyInv
  <2>2. CASE \E r \in Results : Return(p, r)
    BY <2>2, ReturnHoldsNothing DEF KeyInv
  <2> QED BY <2>1, <2>2 DEF LoadRaises, LoadReturnsNone, LoadReturns, Results
<1>2. \A x \in Procs : handle'[x] \in {handle[x], None} \/ handle'[x].key \in stored
  BY DEF LoadRaises, LoadReturnsNone, LoadReturns, viewVars, KeyInv, TypeInv, TypeOK
<1> QED BY <1>1, <1>2, KeysKept DEF storeVars, keyVars

LEMMA LoadKeyInv ==
    ASSUME KeyInv, TypeInv', NEW p \in Procs,
           LoadExists(p) \/ LoadReadText(p) \/ LoadProbe(p) \/ ListNext(p)
    PROVE  KeyInv'
<1> USE DEF KeyInv
<1>0. frame[p] \in Frames /\ LocalsSet(frame[p]) /\ HeldKeys(p)
  BY DEF TypeInv, TypeOK
<1>1. CASE LoadExists(p)
  <2>1. CASE LoadReturnsNone(p)
    BY <1>1, <2>1, LoadEndKeyInv DEF LoadExists
  <2>2. CASE Goto(p, "read") /\ UNCHANGED viewVars
    BY <1>1, <2>2, GotoHoldsNothing, KeysKept
       DEF LoadExists, Steps, HoldingSteps, KeyedSteps, storeVars, keyVars, viewVars
  <2> QED BY <1>1, <2>1, <2>2 DEF LoadExists
<1>2. CASE LoadReadText(p)
  <2>1. CASE LoadRaises(p)
    BY <1>2, <2>1, LoadEndKeyInv DEF LoadReadText
  <2>2. CASE /\ Readable(Path(p))
             /\ frame' = [frame EXCEPT ![p].pc = "probe", ![p].seen = content[meta[Path(p)]]]
             /\ UNCHANGED <<viewVars, result>>
    <3>1. UNCHANGED <<storeVars, keyVars, viewVars>>
      BY <1>2, <2>2 DEF LoadReadText
    <3>2. Path(p) \in Paths
      BY <1>0, <1>2 DEF LoadReadText, At, LocalsSet, NamedSteps, Steps, Path
    <3>3. content[meta[Path(p)]].key \in stored
      BY <2>2, <3>2 DEF Readable, KeyPlaces, TypeInv, TypeOK
    <3>4. /\ frame'[p].pc = "probe"
          /\ frame'[p].seen = content[meta[Path(p)]]
          /\ \A x \in Procs : x # p => frame'[x] = frame[x]
      BY <1>0, <2>2 DEF TypeInv, TypeOK, Frames
    <3>5. KeyPlaces' /\ OneSlotPerKey'
      BY <3>1 DEF KeyPlaces, OneSlotPerKey, storeVars, keyVars, viewVars
    <3>6. \A x \in Procs : HeldKeys(x)'
      BY <3>1, <3>3, <3>4 DEF HeldKeys, keyVars
    <3>7. PrivateKeys'
      BY <3>4 DEF PrivateKeys, At
    <3> QED BY <3>5, <3>6, <3>7
  <2> QED BY <1>2, <2>1, <2>2 DEF LoadReadText
<1>3. CASE LoadProbe(p)
  <2>1. frame[p].seen \in Agents /\ frame[p].seen.key \in stored
    BY <1>0, <1>3 DEF LoadProbe, At, LocalsSet, HeldKeys
  <2> QED BY <1>3, <2>1, LoadEndKeyInv DEF LoadProbe
<1>4. CASE ListNext(p)
  <2>1. \A x \in Procs : frame'[x] = frame[x] \/ frame'[x].pc \notin HoldingSteps
    <3>1. ASSUME NEW q \in frame[p].todo,
                 frame' = [frame EXCEPT ![p].pc = "exists", ![p].name = StemOf[q],
                                        ![p].todo = @ \ {q}]
          PROVE  \A x \in Procs : frame'[x] = frame[x] \/ frame'[x].pc \notin HoldingSteps
      BY <1>0, <3>1 DEF TypeInv, TypeOK, Frames, HoldingSteps, KeyedSteps
    <3>2. CASE Return(p, "ok")
      BY <3>2, ReturnHoldsNothing
    <3> QED BY <1>4, <3>1, <3>2 DEF ListNext
  <2> QED BY <1>4, <2>1, KeysKept DEF ListNext, storeVars, keyVars, viewVars
<1> QED BY <1>1, <1>2, <1>3, <1>4

LEMMA CreateKeyInv ==
    ASSUME KeyInv, TypeInv', NEW p \in Procs,
           \/ CreateCheck(p)
           \/ CreateSetPassword(p)
           \/ CreateOpenTmp(p)
           \/ CreateWriteTmp(p)
           \/ CreateRename(p)
    PROVE  KeyInv'
<1> USE DEF KeyInv
<1>0. frame[p] \in Frames /\ LocalsSet(frame[p]) /\ HeldKeys(p)
  BY DEF TypeInv, TypeOK
<1>1. CASE CreateCheck(p)
  <2>1. CASE Return(p, "IdentityError") /\ UNCHANGED minted
    BY <1>1, <2>1, ReturnHoldsNothing, KeysKept DEF CreateCheck, SidecarTaken, FreshKeys, storeVars, viewVars
  <2>2. ASSUME NEW k \in Keys \ minted,
               minted' = minted \cup {k},
               frame' = [frame EXCEPT ![p].pc = "store", ![p].key = k]
        PROVE  KeyInv'
    <3>1. UNCHANGED <<storeVars, stored, viewVars>>
      BY <1>1 DEF CreateCheck, SidecarTaken, FreshKeys
    <3>2. /\ frame'[p].pc = "store"
          /\ frame'[p].key = k
          /\ \A x \in Procs : x # p => frame'[x] = frame[x]
      BY <1>0, <2>2 DEF TypeInv, TypeOK, Frames
    <3>3. KeyPlaces' /\ OneSlotPerKey'
      BY <2>2, <3>1 DEF KeyPlaces, OneSlotPerKey, storeVars, viewVars
    <3>4. k \in minted' \ stored' /\ \A x \in Procs : At(x, "store") => frame[x].key # k
      BY <2>2, <3>1 DEF KeyPlaces, HeldKeys, At
    <3>5. HeldKeys(p)'
      BY <3>2, <3>4 DEF HeldKeys
    <3>6. ASSUME NEW x \in Procs \ {p} PROVE HeldKeys(x)'
      <4>1. HeldKeys(x) /\ frame'[x] = frame[x] /\ stored' = stored /\ minted \subseteq minted'
        BY <2>2, <3>1, <3>2
      <4> QED BY <4>1 DEF HeldKeys
    <3>7. PrivateKeys'
      BY <3>2, <3>4 DEF PrivateKeys, At
    <3> QED BY <3>3, <3>5, <3>6, <3>7
  <2> QED BY <1>1, <2>1, <2>2 DEF CreateCheck, SidecarTaken, FreshKeys
<1>2. CASE CreateSetPassword(p)
  <2>1. CASE Return(p, "IdentityError") /\ UNCHANGED <<slot, stored>>
    BY <1>2, <2>1, ReturnHoldsNothing, KeysKept DEF CreateSetPassword, viewVars
  <2>2. CASE /\ slot' = [slot EXCEPT ![frame[p].name] = frame[p].key]
             /\ stored' = stored \cup {frame[p].key}
             /\ Goto(p, "open")
    <3>1. UNCHANGED <<meta, tmp, content, minted, viewVars>>
      BY <1>2 DEF CreateSetPassword
    <3>2. /\ frame[p].pc = "store"
          /\ frame[p].key \in Keys
          /\ frame[p].key \in minted \ stored
      BY <1>0, <1>2 DEF CreateSetPassword, At, HeldKeys, LocalsSet, KeyedSteps
    <3>3. /\ frame'[p].pc = "open"
          /\ frame'[p].key = frame[p].key
          /\ \A x \in Procs : x # p => frame'[x] = frame[x]
      BY <1>0, <2>2 DEF Goto, TypeInv, TypeOK, Frames
    <3>4. KeyPlaces'
      BY <2>2, <3>1, <3>2 DEF KeyPlaces, viewVars, TypeInv, TypeOK
    <3>5. \A x \in Procs : HeldKeys(x)'
      BY <2>2, <3>1, <3>2, <3>3 DEF HeldKeys, PrivateKeys, At
    <3>6. PrivateKeys'
      BY <3>3 DEF PrivateKeys, At
    <3>7. OneSlotPerKey'
      <4>1. \A n \in Names : slot[n] # frame[p].key
        BY <3>2, MarksAssumption DEF KeyPlaces
      <4> QED BY <2>2, <4>1 DEF OneSlotPerKey, TypeInv, TypeOK
    <3> QED BY <3>4, <3>5, <3>6, <3>7
  <2> QED BY <1>2, <2>1, <2>2 DEF CreateSetPassword
<1>3. ASSUME CreateOpenTmp(p) \/ CreateWriteTmp(p)
      PROVE  KeyInv'
  <2>1. UNCHANGED <<slot, meta, keyVars, viewVars>>
    BY <1>3 DEF CreateOpenTmp, CreateWriteTmp
  <2>2. /\ frame[p].pc \in {"open", "write"}
        /\ frame[p].key \in stored
    BY <1>0, <1>3 DEF CreateOpenTmp, CreateWriteTmp, At, HeldKeys
  <2>3. /\ frame'[p].pc \in {"write", "rename"}
        /\ frame'[p].key = frame[p].key
        /\ \A x \in Procs : x # p => frame'[x] = frame[x]
    BY <1>0, <1>3 DEF CreateOpenTmp, CreateWriteTmp, Goto, TypeInv, TypeOK, Frames
  <2>4. \A f \in Keys : content'[f] \in Agents => content'[f].key \in stored
    <3>1. CASE CreateOpenTmp(p)
      BY <3>1, MarksAssumption DEF CreateOpenTmp, KeyPlaces, TypeInv, TypeOK
    <3>2. CASE CreateWriteTmp(p)
      <4>1. NewAgent(p).key \in stored
        BY <2>2 DEF NewAgent
      <4>2. PICK c \in {NewAgent(p), Torn} : content' = [content EXCEPT ![frame[p].fd] = c]
        BY <3>2 DEF CreateWriteTmp, AfterWrite
      <4> QED BY <4>1, <4>2, MarksAssumption DEF KeyPlaces, TypeInv, TypeOK
    <3> QED BY <1>3, <3>1, <3>2
  <2>5. KeyPlaces' /\ OneSlotPerKey'
    BY <2>1, <2>4 DEF KeyPlaces, OneSlotPerKey, keyVars, viewVars
  <2>6. \A x \in Procs : HeldKeys(x)'
    BY <2>1, <2>2, <2>3 DEF HeldKeys, keyVars
  <2>7. PrivateKeys'
    BY <2>3 DEF PrivateKeys, At
  <2> QED BY <2>5, <2>6, <2>7
<1>4. CASE CreateRename(p)
  <2>1. NewAgent(p).key \in stored
    BY <1>0, <1>4 DEF CreateRename, At, HeldKeys, NewAgent
  <2>2. \A x \in Procs : handle'[x] \in {handle[x], None} \/ handle'[x].key \in stored
    BY <1>4, <2>1 DEF CreateRename, TypeInv, TypeOK
  <2>3. \A x \in Procs : frame'[x] = frame[x] \/ frame'[x].pc \notin HoldingSteps
    BY <1>4, ReturnHoldsNothing DEF CreateRename
  <2> QED BY <1>4, <2>2, <2>3, KeysKept DEF CreateRename
<1> QED BY <1>1, <1>2, <1>3, <1>4

LEMMA DeleteKeyInv ==
    ASSUME KeyInv, TypeInv', NEW p \in Procs,
           DeletePassword(p) \/ DeleteExists(p) \/ DeleteUnlink(p)
    PROVE  KeyInv'
<1> USE DEF KeyInv
<1>0. frame[p] \in Frames
  BY DEF TypeInv, TypeOK
<1>1. CASE DeletePassword(p)
  <2>1. \A x \in Procs : frame'[x] = frame[x] \/ frame'[x].pc \notin HoldingSteps
    BY <1>0, <1>1 DEF DeletePassword, TypeInv, TypeOK, Frames, HoldingSteps, KeyedSteps
  <2>2. \A n \in Names : slot'[n] \in {slot[n], None}
    BY <1>1 DEF DeletePassword, TypeInv, TypeOK
  <2> QED BY <1>1, <2>1, <2>2, KeysKept DEF DeletePassword, keyVars, viewVars
<1>2. ASSUME DeleteExists(p) \/ DeleteUnlink(p) PROVE KeyInv'
  <2>1. \A x \in Procs : frame'[x] = frame[x] \/ frame'[x].pc \notin HoldingSteps
    <3>1. CASE \E r \in Results : Return(p, r)
      BY <3>1, ReturnHoldsNothing
    <3>2. CASE Goto(p, "unlink")
      BY <3>2, GotoHoldsNothing DEF Steps, HoldingSteps, KeyedSteps
    <3> QED BY <1>2, <3>1, <3>2 DEF DeleteExists, DeleteUnlink, Results
  <2>2. UNCHANGED <<slot, content, keyVars, viewVars>>
    BY <1>2 DEF DeleteExists, DeleteUnlink, storeVars
  <2> QED BY <2>1, <2>2, KeysKept DEF keyVars, viewVars
<1> QED BY <1>1, <1>2

LEMMA EnvironmentKeyInv == KeyInv /\ TypeInv' /\ Environment => KeyInv'
<1> SUFFICES ASSUME KeyInv, TypeInv', Environment PROVE KeyInv'
  OBVIOUS
<1> USE DEF KeyInv
<1>1. ASSUME NEW p \in Procs, Crash(p) PROVE KeyInv'
  <2>1. \A x \in Procs : handle'[x] \in {handle[x], None}
    BY <1>1 DEF Crash, TypeInv, TypeOK
  <2> QED BY <1>1, <2>1, ReturnHoldsNothing, KeysKept DEF Crash, storeVars, keyVars
<1>2. ASSUME NEW n \in Names, WipeSlot(n) PROVE KeyInv'
  <2>1. \A m \in Names : slot'[m] \in {slot[m], None}
    BY <1>2 DEF WipeSlot, TypeInv, TypeOK
  <2> QED BY <1>2, <2>1, KeysKept DEF WipeSlot, keyVars, viewVars
<1> QED BY <1>1, <1>2 DEF Environment

LEMMA InitKeyInv == Init => KeyInv
<1> SUFFICES ASSUME Init PROVE KeyInv
  OBVIOUS
<1>1. TypeInv
  BY InitTypeInv
<1>2. KeyPlaces /\ PrivateKeys /\ OneSlotPerKey
  BY MarksAssumption DEF Init, KeyPlaces, PrivateKeys, OneSlotPerKey, At, Idle
<1>3. \A p \in Procs : HeldKeys(p)
  BY DEF Init, HeldKeys, Idle
<1> QED BY <1>1, <1>2, <1>3 DEF KeyInv

LEMMA NextKeyInv == KeyInv /\ [Next]_vars => KeyInv'
<1> SUFFICES ASSUME KeyInv, [Next]_vars PROVE KeyInv'
  OBVIOUS
<1>0. TypeInv'
  BY NextTypeInv DEF KeyInv
<1>1. ASSUME NEW p \in Procs, StartCall(p) PROVE KeyInv'
  BY <1>0, <1>1, StartKeyInv
<1>2. ASSUME NEW p \in Procs, ContinueCall(p) PROVE KeyInv'
  BY <1>0, <1>2, LoadKeyInv, CreateKeyInv, DeleteKeyInv DEF ContinueCall
<1>3. CASE Environment
  BY <1>0, <1>3, EnvironmentKeyInv
<1>4. CASE UNCHANGED vars
  BY <1>0, <1>4 DEF vars, storeVars, keyVars, viewVars, KeyInv, KeyPlaces, HeldKeys, PrivateKeys,
                    OneSlotPerKey, At
<1> QED BY <1>1, <1>2, <1>3, <1>4 DEF Next

LEMMA KeyInvariant == Spec => []KeyInv
BY InitKeyInv, NextKeyInv, PTL DEF Spec

(***************************************************************************)
(* create() saves the key before it publishes the DID, so no interleaving  *)
(* of calls, crash or keyring failure leaves a readable sidecar or an      *)
(* Agent handle whose key the keyring never accepted.                      *)
(***************************************************************************)
THEOREM StoredBeforeDid == Spec => []KeyStoredBeforeDid
<1>1. KeyInv => KeyStoredBeforeDid
  BY DEF KeyInv, KeyPlaces, KeyStoredBeforeDid, Readable, TypeInv, TypeOK
<1> QED BY KeyInvariant, <1>1, PTL

(***************************************************************************)
(* No two agents ever share a private key.                                 *)
(***************************************************************************)
THEOREM KeysAreNotShared == Spec => []OneSlotPerKey
<1>1. KeyInv => OneSlotPerKey
  BY DEF KeyInv
<1> QED BY KeyInvariant, <1>1, PTL

(***************************************************************************)
(* A key that delete, a wipe or a later create removed from its slot is in *)
(* no slot ever again: a create that was overtaken cannot bring it back.   *)
(***************************************************************************)
THEOREM OldKeysNeverReturn == Spec => OldKeysStayGone
<1>1. ASSUME KeyInv, Next, NEW n \in Names, slot'[n] # slot[n]
      PROVE  slot'[n] \notin stored
  <2>1. None \notin stored
    BY <1>1, MarksAssumption DEF KeyInv, TypeInv, TypeOK
  <2>2. slot'[n] = None \/ \E p \in Procs : At(p, "store") /\ slot'[n] = frame[p].key
    <3>1. ASSUME NEW p \in Procs, StartCall(p) PROVE FALSE
      BY <1>1, <3>1 DEF StartCall, StartNamed, Begin, Refuse, BeginList, Sign, storeVars
    <3>2. ASSUME NEW p \in Procs, CreateSetPassword(p)
          PROVE  At(p, "store") /\ slot'[n] = frame[p].key
      BY <1>1, <3>2 DEF CreateSetPassword, KeyInv, TypeInv, TypeOK
    <3>3. ASSUME NEW p \in Procs, DeletePassword(p) PROVE slot'[n] = None
      BY <1>1, <3>3 DEF DeletePassword, KeyInv, TypeInv, TypeOK
    <3>4. ASSUME NEW p \in Procs, ContinueCall(p), ~ CreateSetPassword(p), ~ DeletePassword(p)
          PROVE  FALSE
      BY <1>1, <3>4 DEF ContinueCall, LoadExists, LoadReadText, LoadProbe, ListNext, CreateCheck, SidecarTaken, FreshKeys,
           CreateOpenTmp, CreateWriteTmp, CreateRename, DeleteExists, DeleteUnlink, storeVars
    <3>5. CASE Environment
      BY <1>1, <3>5 DEF Environment, Crash, WipeSlot, storeVars, KeyInv, TypeInv, TypeOK
    <3> QED BY <1>1, <3>1, <3>2, <3>3, <3>4, <3>5 DEF Next
  <2> QED BY <1>1, <2>1, <2>2 DEF KeyInv, HeldKeys, At
<1>2. KeyInv /\ [Next]_vars => [\A n \in Names : slot'[n] # slot[n] => slot'[n] \notin stored]_slot
  BY <1>1 DEF vars, storeVars
<1> QED BY KeyInvariant, <1>2, PTL DEF Spec, OldKeysStayGone

-----------------------------------------------------------------------------
(* How long a call can take.  The prover does neither fairness nor ENABLED, *)
(* but CallsReturn rests on this: a call has a number of steps before it    *)
(* that its own steps lower and no other caller raises.                     *)

\* The steps from l to the end of a call, or to the next file of the list.
Ahead(l) ==
    CASE l = "exists" -> 8
      [] l = "read"   -> 7
      [] l = "probe"  -> 6
      [] l = "check"  -> 5
      [] l = "store"  -> 4
      [] l = "open"   -> 3
      [] l = "write"  -> 2
      [] l = "rename" -> 1
      [] l = "drop"   -> 3
      [] l = "absent" -> 2
      [] l = "unlink" -> 1
      [] l = "scan"   -> 1
      [] l = "idle"   -> 0

Left(p) == Ahead(frame[p].pc) + 8 * Cardinality(frame[p].todo)

(***************************************************************************)
(* Each step of a call in _storage.py brings its end nearer, and nothing   *)
(* puts it off: load_or_create goes from load to create once and never     *)
(* back, and list_agents does not look at a file twice, nor at one that    *)
(* another process adds while it looks.  Only a crash ends a call at once. *)
(***************************************************************************)
CallsAreShort ==
    [][\A p \in Procs : ~ At(p, "idle") =>
          IF ContinueCall(p) THEN Left(p)' < Left(p) ELSE Left(p)' \in {Left(p), 0}]_vars

LEMMA AheadIsNat == \A l \in Steps : Ahead(l) \in Nat
BY DEF Steps, Ahead

LEMMA TodoIsFinite ==
    ASSUME TypeOK, NEW p \in Procs
    PROVE  IsFiniteSet(frame[p].todo) /\ Cardinality(frame[p].todo) \in Nat
BY FrameParts, PathsAssumption, FS_Subset, FS_CardinalityType

LEMMA IdleLeft ==
    ASSUME TypeOK, NEW p \in Procs, frame' = [frame EXCEPT ![p] = Idle]
    PROVE  Left(p)' = 0
<1>1. frame'[p].pc = "idle" /\ frame'[p].todo = {}
  BY DEF TypeOK, Idle
<1> QED
  BY <1>1, FS_EmptySet DEF Left, Ahead

\* A step inside a call that leaves the list alone.
LEMMA NearerStep ==
    ASSUME TypeOK, NEW p \in Procs, frame'[p].todo = frame[p].todo,
           frame[p].pc \in Steps, frame'[p].pc \in Steps,
           Ahead(frame'[p].pc) < Ahead(frame[p].pc)
    PROVE  Left(p)' < Left(p)
<1> DEFINE n == Cardinality(frame[p].todo)
           a == Ahead(frame'[p].pc)
           b == Ahead(frame[p].pc)
<1>1. n \in Nat /\ a \in Nat /\ b \in Nat
  BY TodoIsFinite, AheadIsNat
<1>2. Left(p) = b + 8 * n
  BY DEF Left
<1>3. Left(p)' = a + 8 * n
  BY DEF Left, Ahead
<1> HIDE DEF n, a, b
<1> QED
  BY <1>1, <1>2, <1>3 DEF n, a, b

\* A call that has not returned has something before it.
LEMMA SomethingLeft ==
    ASSUME TypeOK, NEW p \in Procs, ~ At(p, "idle")
    PROVE  Left(p) \in Nat \ {0}
<1>1. frame[p].pc \in Steps \ {"idle"}
  BY DEF TypeOK, Frames, At
<1>2. Ahead(frame[p].pc) \in Nat \ {0}
  BY <1>1 DEF Steps, Ahead
<1> QED
  BY <1>2, TodoIsFinite DEF Left

LEMMA ReturnIsNearer ==
    ASSUME TypeOK, NEW p \in Procs, ~ At(p, "idle"), NEW r, Return(p, r)
    PROVE  Left(p)' < Left(p)
<1>1. Left(p)' = 0
  BY IdleLeft DEF Return
<1>2. Left(p) \in Nat \ {0}
  BY SomethingLeft
<1> QED
  BY <1>1, <1>2

LEMMA GotoIsNearer ==
    ASSUME TypeOK, NEW p \in Procs, NEW l \in Steps, Goto(p, l), Ahead(l) < Ahead(frame[p].pc)
    PROVE  Left(p)' < Left(p)
<1>1. frame[p].pc \in Steps /\ frame'[p].pc = l /\ frame'[p].todo = frame[p].todo
  BY DEF TypeOK, Frames, Goto
<1> QED
  BY <1>1, NearerStep

LEMMA LoadEndIsNearer ==
    ASSUME TypeOK, NEW p \in Procs, frame[p].pc \in {"exists", "read", "probe"},
           \/ LoadRaises(p)
           \/ LoadReturnsNone(p)
           \/ \E a : LoadReturns(p, a)
    PROVE  Left(p)' < Left(p)
<1>1. ~ At(p, "idle") /\ Ahead("scan") < Ahead(frame[p].pc) /\ Ahead("check") < Ahead(frame[p].pc)
  BY DEF At, Ahead
<1>2. \/ Goto(p, "scan")
      \/ Goto(p, "check")
      \/ \E r \in {"IdentityError", "none", "ok"} : Return(p, r)
  BY DEF LoadRaises, LoadReturnsNone, LoadReturns
<1>3. "scan" \in Steps /\ "check" \in Steps
  BY DEF Steps
<1> QED
  BY <1>1, <1>2, <1>3, GotoIsNearer, ReturnIsNearer

LEMMA ListIsNearer ==
    ASSUME TypeOK, NEW p \in Procs, ListNext(p)
    PROVE  Left(p)' < Left(p)
<1>1. CASE \E q \in frame[p].todo :
              frame' = [frame EXCEPT ![p].pc = "exists", ![p].name = StemOf[q], ![p].todo = @ \ {q}]
  <2> PICK q \in frame[p].todo :
         frame' = [frame EXCEPT ![p].pc = "exists", ![p].name = StemOf[q], ![p].todo = @ \ {q}]
    BY <1>1
  <2> DEFINE n == Cardinality(frame[p].todo)
             m == Cardinality(frame[p].todo \ {q})
  <2>1. frame[p].pc = "scan" /\ frame'[p].pc = "exists" /\ frame'[p].todo = frame[p].todo \ {q}
    <3> DEFINE f == [frame[p] EXCEPT !.pc = "exists", !.name = StemOf[q], !.todo = @ \ {q}]
    <3>1. frame[p] \in Frames /\ frame[p].pc = "scan"
      BY FrameParts DEF ListNext, At
    <3>2. frame'[p] = f
      BY DEF TypeOK
    <3>3. f.pc = "exists" /\ f.todo = frame[p].todo \ {q}
      BY <3>1 DEF Frames
    <3> QED
      BY <3>1, <3>2, <3>3
  <2>2. n \in Nat /\ m = n - 1
    BY TodoIsFinite, FS_RemoveElement
  <2>3. Left(p) = 1 + 8 * n
    <3>1. Ahead("scan") = 1
      BY DEF Ahead
    <3> QED
      BY <2>1, <3>1 DEF Left
  <2>4. Left(p)' = 8 + 8 * m
    BY <2>1 DEF Left, Ahead
  <2> HIDE DEF n, m
  <2> QED
    BY <2>2, <2>3, <2>4
<1>2. CASE Return(p, "ok")
  BY <1>2, ReturnIsNearer DEF ListNext, At
<1> QED
  BY <1>1, <1>2 DEF ListNext

LEMMA ContinueIsNearer ==
    ASSUME TypeOK, NEW p \in Procs, ContinueCall(p)
    PROVE  Left(p)' < Left(p)
<1>0. frame[p] \in Frames
  BY FrameParts
<1>1. CASE LoadExists(p)
  <2>1. frame[p].pc = "exists" /\ Ahead("read") < Ahead("exists") /\ "read" \in Steps
    BY <1>1 DEF LoadExists, At, Ahead, Steps
  <2>2. LoadReturnsNone(p) \/ Goto(p, "read")
    BY <1>1 DEF LoadExists
  <2> QED
    BY <2>1, <2>2, LoadEndIsNearer, GotoIsNearer
<1>2. CASE LoadReadText(p)
  <2>1. frame[p].pc = "read" /\ Ahead("probe") < Ahead("read") /\ "probe" \in Steps /\ "read" \in Steps
    BY <1>2 DEF LoadReadText, At, Ahead, Steps
  <2>2. CASE LoadRaises(p)
    BY <2>1, <2>2, LoadEndIsNearer
  <2>3. CASE frame' = [frame EXCEPT ![p].pc = "probe", ![p].seen = content[meta[Path(p)]]]
    <3>1. frame'[p].pc = "probe" /\ frame'[p].todo = frame[p].todo
      BY <1>0, <2>3 DEF TypeOK, Frames
    <3> QED
      BY <2>1, <3>1, NearerStep
  <2> QED
    BY <1>2, <2>2, <2>3 DEF LoadReadText
<1>3. CASE LoadProbe(p)
  <2>1. frame[p].pc = "probe"
    BY <1>3 DEF LoadProbe, At
  <2>2. LoadRaises(p) \/ LoadReturnsNone(p) \/ LoadReturns(p, frame[p].seen)
    BY <1>3 DEF LoadProbe
  <2> QED
    BY <2>1, <2>2, LoadEndIsNearer
<1>4. CASE ListNext(p)
  BY <1>4, ListIsNearer
<1>5. CASE CreateCheck(p)
  <2>1. frame[p].pc = "check" /\ Ahead("store") < Ahead("check") /\ "store" \in Steps /\ "check" \in Steps
    BY <1>5 DEF CreateCheck, At, Ahead, Steps
  <2>2. CASE Return(p, "IdentityError")
    BY <2>1, <2>2, ReturnIsNearer DEF At
  <2>3. CASE \E k \in FreshKeys : frame' = [frame EXCEPT ![p].pc = "store", ![p].key = k]
    <3>1. frame'[p].pc = "store" /\ frame'[p].todo = frame[p].todo
      BY <1>0, <2>3 DEF TypeOK, Frames
    <3> QED
      BY <2>1, <3>1, NearerStep
  <2> QED
    BY <1>5, <2>2, <2>3 DEF CreateCheck
<1>6. CASE CreateSetPassword(p)
  <2>1. frame[p].pc = "store" /\ Ahead("open") < Ahead("store") /\ "open" \in Steps
    BY <1>6 DEF CreateSetPassword, At, Ahead, Steps
  <2>2. Return(p, "IdentityError") \/ Goto(p, "open")
    BY <1>6 DEF CreateSetPassword
  <2> QED
    BY <2>1, <2>2, ReturnIsNearer, GotoIsNearer DEF At
<1>7. CASE CreateOpenTmp(p)
  <2>1. frame[p].pc = "open" /\ Ahead("write") < Ahead("open") /\ "write" \in Steps /\ "open" \in Steps
    BY <1>7 DEF CreateOpenTmp, At, Ahead, Steps
  <2>2. frame'[p].pc = "write" /\ frame'[p].todo = frame[p].todo
    BY <1>0, <1>7 DEF CreateOpenTmp, TypeOK, Frames
  <2> QED
    BY <2>1, <2>2, NearerStep
<1>8. CASE CreateWriteTmp(p)
  <2>1. frame[p].pc = "write" /\ Ahead("rename") < Ahead("write") /\ "rename" \in Steps
    BY <1>8 DEF CreateWriteTmp, At, Ahead, Steps
  <2>2. Goto(p, "rename")
    BY <1>8 DEF CreateWriteTmp
  <2> QED
    BY <2>1, <2>2, GotoIsNearer
<1>9. CASE CreateRename(p)
  <2>1. frame[p].pc = "rename" /\ (Return(p, "OSError") \/ Return(p, "ok"))
    BY <1>9 DEF CreateRename, At
  <2> QED
    BY <2>1, ReturnIsNearer DEF At
<1>10. CASE DeletePassword(p)
  <2>1. frame[p].pc = "drop" /\ Ahead("absent") < Ahead("drop") /\ "absent" \in Steps /\ "drop" \in Steps
    BY <1>10 DEF DeletePassword, At, Ahead, Steps
  <2>2. frame'[p].pc = "absent" /\ frame'[p].todo = frame[p].todo
    BY <1>0, <1>10 DEF DeletePassword, TypeOK, Frames
  <2> QED
    BY <2>1, <2>2, NearerStep
<1>11. CASE DeleteExists(p)
  <2>1. frame[p].pc = "absent" /\ Ahead("unlink") < Ahead("absent") /\ "unlink" \in Steps
    BY <1>11 DEF DeleteExists, At, Ahead, Steps
  <2>2. Goto(p, "unlink") \/ \E r \in {"true", "false"} : Return(p, r)
    BY <1>11 DEF DeleteExists
  <2> QED
    BY <2>1, <2>2, ReturnIsNearer, GotoIsNearer DEF At
<1>12. CASE DeleteUnlink(p)
  <2>1. frame[p].pc = "unlink" /\ (Return(p, "OSError") \/ Return(p, "true"))
    BY <1>12 DEF DeleteUnlink, At
  <2> QED
    BY <2>1, ReturnIsNearer DEF At
<1> QED
  BY <1>1, <1>2, <1>3, <1>4, <1>5, <1>6, <1>7, <1>8, <1>9, <1>10, <1>11, <1>12 DEF ContinueCall

(* Whatever calls interleave, over any finite number of files.             *)
THEOREM CallsComeToAnEnd == Spec => CallsAreShort
<1>1. ASSUME TypeOK, Next
      PROVE  \A p \in Procs : ~ At(p, "idle") =>
                IF ContinueCall(p) THEN Left(p)' < Left(p) ELSE Left(p)' \in {Left(p), 0}
  <2> TAKE p \in Procs
  <2> HAVE ~ At(p, "idle")
  <2>1. CASE ContinueCall(p)
    BY <1>1, <2>1, ContinueIsNearer
  <2>2. CASE ~ ContinueCall(p)
    <3>1. CASE Crash(p)
      <4>1. Left(p)' = 0
        BY <1>1, <3>1, IdleLeft DEF Crash, Return
      <4> QED
        BY <2>2, <4>1
    <3>2. ASSUME NEW r \in Procs \ {p}, StartCall(r) \/ ContinueCall(r) \/ Crash(r)
          PROVE  frame'[p] = frame[p]
      BY <1>1, <3>2 DEF StartCall, StartNamed, Begin, Refuse, BeginList, Sign, ContinueCall, LoadExists,
         LoadReadText, LoadProbe, LoadRaises, LoadReturnsNone, LoadReturns, ListNext, CreateCheck,
         CreateSetPassword, CreateOpenTmp, CreateWriteTmp, CreateRename, DeletePassword,
         DeleteExists, DeleteUnlink, Crash, Goto, Return, TypeOK
    <3>3. ~ StartCall(p)
      BY DEF StartCall, StartNamed, Begin, Refuse, BeginList, Sign
    <3>4. Crash(p) \/ frame'[p] = frame[p]
      BY <1>1, <2>2, <3>2, <3>3 DEF Next, Environment, WipeSlot
    <3>5. CASE frame'[p] = frame[p]
      <4>1. Left(p)' = Left(p)
        BY <3>5 DEF Left, Ahead
      <4> QED
        BY <2>2, <4>1
    <3> QED
      BY <2>2, <3>1, <3>4, <3>5
  <2> QED
    BY <2>1, <2>2
<1> QED
  BY <1>1, TypeCorrect, PTL DEF Spec, CallsAreShort
=============================================================================
