----------------------- MODULE IdentityWriterProofs -----------------------
(***************************************************************************)
(* Proofs about IdentityStore when writers do not overlap: the keyring and *)
(* the sidecars agree after every step, and together they implement        *)
(* IdentityRegistry; and when no two calls overlap, what a reader is shown *)
(* can sign.                                                               *)
(***************************************************************************)
EXTENDS IdentityStoreProofs

-----------------------------------------------------------------------------
(* The inductive invariant. *)

CreateSteps == {"check"} \cup KeyedSteps
DeleteSteps == {"drop", "absent", "unlink"}

\* At the steps of create and delete a caller is a writer, and the only one.
OneWriter ==
    /\ \A p \in Procs : frame[p].pc \in CreateSteps \cup DeleteSteps => Writing(p)
    /\ \A p, r \in Procs : Writing(p) /\ Writing(r) => p = r

\* A file is linked once, and by the key of a create that got its key before.
FilesApart ==
    /\ \A q \in Paths : meta[q] # None => meta[q] \in minted
    /\ \A q \in Paths : tmp[q] # None => tmp[q] \in minted
    /\ \A q, s \in Paths : tmp[q] # None => tmp[q] # meta[s]
    /\ \A q, s \in Paths : tmp[q] # None /\ tmp[q] = tmp[s] => q = s

\* How far the one writer has come.
WriterProgress(p) ==
    /\ frame[p].pc \in KeyedSteps =>
          /\ meta[Path(p)] = None
          /\ frame[p].key \in minted \ published
    /\ frame[p].pc \in {"store", "open"} =>
          \A q \in Paths : meta[q] # frame[p].key /\ tmp[q] # frame[p].key
    /\ frame[p].pc \in {"open", "write", "rename"} =>
          slot[frame[p].name] \in {frame[p].key, None}
    /\ frame[p].pc \in {"write", "rename"} => tmp[Path(p)] = frame[p].fd
    /\ frame[p].pc = "write" => content[frame[p].fd] = Empty
    /\ frame[p].pc = "rename" => content[frame[p].fd] = NewAgent(p)
    /\ frame[p].pc = "unlink" => meta[Path(p)] # None

StoresAgree == SidecarWhole /\ DidMatchesKey

WriterInv ==
    /\ KeyInv
    /\ OneWriter
    /\ FilesApart
    /\ StoresAgree
    /\ published \subseteq minted
    /\ OnlyIdentityErrors
    /\ \A p \in Procs : WriterProgress(p)

LEMMA WriterNextIsNext == [WriterNext]_vars => [Next]_vars
BY DEF WriterNext, StartAsWriter, StartCall, Next

\* While a caller creates or deletes, every other caller only reads.
LEMMA OthersRead ==
    ASSUME WriterInv, NEW p \in Procs, frame[p].pc \in CreateSteps \cup DeleteSteps,
           NEW r \in Procs \ {p}
    PROVE  frame[r].pc \notin CreateSteps \cup DeleteSteps /\ ~ Writing(r)
BY DEF WriterInv, OneWriter

LEMMA IdleIsNotWriting ==
    /\ Idle.pc = "idle"
    /\ Idle.call \notin {"load_or_create", "create", "delete"}
BY MarksAssumption DEF Idle, CallNames

\* Only p moves, and it does not start to write while another does.
LEMMA OneWriterKept ==
    ASSUME WriterInv, NEW p \in Procs,
           \A x \in Procs \ {p} : frame'[x] = frame[x],
           frame'[p].pc \in CreateSteps \cup DeleteSteps => Writing(p)',
           Writing(p)' => Writing(p) \/ \A r \in Procs \ {p} : ~ Writing(r)
    PROVE  OneWriter'
<1>1. ASSUME NEW x \in Procs, frame'[x].pc \in CreateSteps \cup DeleteSteps
      PROVE  Writing(x)'
  BY <1>1 DEF WriterInv, OneWriter, Writing
<1>2. ASSUME NEW x \in Procs, NEW r \in Procs, Writing(x)', Writing(r)'
      PROVE  x = r
  BY <1>2 DEF WriterInv, OneWriter, Writing
<1> QED BY <1>1, <1>2 DEF OneWriter

\* A step that changes neither store, and leaves p at a step before the first
\* write or at its end.
LEMMA ReaderStep ==
    ASSUME WriterInv, KeyInv', NEW p \in Procs,
           UNCHANGED <<storeVars, keyVars>>,
           \A x \in Procs \ {p} : frame'[x] = frame[x],
           frame'[p].pc \notin KeyedSteps \cup {"unlink"},
           OneWriter',
           OnlyIdentityErrors'
    PROVE  WriterInv'
<1>1. FilesApart' /\ StoresAgree' /\ (published \subseteq minted)'
  BY DEF WriterInv, FilesApart, StoresAgree, SidecarWhole, DidMatchesKey, Readable,
         storeVars, keyVars
<1>2. WriterProgress(p)'
  BY DEF WriterProgress, KeyedSteps
<1>3. ASSUME NEW x \in Procs \ {p} PROVE WriterProgress(x)'
  <2>1. WriterProgress(x) /\ frame'[x] = frame[x]
    BY DEF WriterInv
  <2> QED BY <2>1 DEF WriterProgress, Path, NewAgent, storeVars, keyVars
<1> QED BY <1>1, <1>2, <1>3 DEF WriterInv

LEMMA ReturnFrames ==
    ASSUME TypeInv, NEW p \in Procs, NEW r, Return(p, r)
    PROVE  /\ frame'[p] = Idle
           /\ frame'[p].pc = "idle"
           /\ ~ Writing(p)'
           /\ \A x \in Procs \ {p} : frame'[x] = frame[x]
BY IdleIsNotWriting DEF TypeInv, TypeOK, Return, Writing

LEMMA GotoFrames ==
    ASSUME TypeInv, NEW p \in Procs, NEW l, Goto(p, l)
    PROVE  /\ frame'[p] = [frame[p] EXCEPT !.pc = l]
           /\ frame'[p].pc = l
           /\ frame'[p].call = frame[p].call
           /\ frame'[p].name = frame[p].name
           /\ frame'[p].op = frame[p].op
           /\ frame'[p].key = frame[p].key
           /\ frame'[p].fd = frame[p].fd
           /\ \A x \in Procs \ {p} : frame'[x] = frame[x]
           /\ result' = result
<1>1. frame[p] \in Frames
  BY DEF TypeInv, TypeOK
<1>2. frame'[p] = [frame[p] EXCEPT !.pc = l]
  BY DEF TypeInv, TypeOK, Goto
<1> QED BY <1>1, <1>2 DEF Goto, TypeInv, TypeOK, Frames

LEMMA ErrorsKept ==
    ASSUME TypeInv, OnlyIdentityErrors, NEW p \in Procs,
           \/ UNCHANGED result
           \/ \E r \in Results \ {"OSError"} : Return(p, r)
    PROVE  OnlyIdentityErrors'
BY DEF OnlyIdentityErrors, TypeInv, TypeOK, Return

LEMMA StartWriterInv ==
    ASSUME WriterInv, KeyInv', NEW p \in Procs, StartAsWriter(p) \/ BeginList(p) \/ Sign(p)
    PROVE  WriterInv'
<1>1. TypeInv /\ OnlyIdentityErrors /\ StartCall(p)
  BY DEF WriterInv, KeyInv, StartAsWriter, StartCall
<1>2. UNCHANGED <<storeVars, keyVars>>
  BY <1>1 DEF StartCall, StartNamed, Begin, Refuse, BeginList, Sign
<1>3. \A x \in Procs \ {p} : frame'[x] = frame[x]
  BY <1>1 DEF StartCall, StartNamed, Begin, Refuse, BeginList, Sign, Return, TypeInv, TypeOK
<1>4. /\ frame'[p].pc \notin KeyedSteps \cup {"unlink"}
      /\ frame'[p].pc \in CreateSteps \cup DeleteSteps => Writing(p)'
  <2>1. ASSUME NEW c \in CallNames, NEW n \in Names, NEW o \in Ops \cup {None}, Begin(p, c, n, o)
        PROVE  frame'[p].pc = FirstStep(c) /\ frame'[p].call = c
    BY <1>1, <2>1 DEF Begin, TypeInv, TypeOK, Idle
  <2>2. ASSUME NEW c \in CallNames, NEW n \in Names, Refuse(p, c, n)
        PROVE  frame'[p].pc = "idle"
    BY <1>1, <2>2, ReturnFrames DEF Refuse
  <2>3. ASSUME BeginList(p) PROVE frame'[p].pc = "scan"
    BY <1>1, <2>3 DEF BeginList, TypeInv, TypeOK, Idle
  <2>4. ASSUME Sign(p) PROVE frame'[p].pc = "idle"
    <3>1. \E r \in Results : Return(p, r)
      BY <2>4 DEF Sign, PrivateKey, Results
    <3> QED BY <1>1, <3>1, ReturnFrames
  <2>5. CASE \E c \in CallNames, n \in Names, o \in Ops \cup {None} : Begin(p, c, n, o)
    <3>1. PICK c \in CallNames, n \in Names, o \in Ops \cup {None} : Begin(p, c, n, o)
      BY <2>5
    <3>2. frame'[p].pc = FirstStep(c) /\ frame'[p].call = c
      BY <2>1, <3>1
    <3>3. c \in {"load", "load_or_create", "create", "delete"}
      BY <3>1 DEF Begin
    <3>4. FirstStep(c) \in {"exists", "check", "drop"}
      BY <3>3 DEF FirstStep
    <3>5. FirstStep(c) \in {"check", "drop"} => c \in {"create", "delete"}
      BY <3>3 DEF FirstStep
    <3> QED BY <3>2, <3>4, <3>5 DEF Writing, KeyedSteps, CreateSteps, DeleteSteps
  <2>6. CASE frame'[p].pc \in {"idle", "scan"}
    BY <2>6 DEF KeyedSteps, CreateSteps, DeleteSteps
  <2> QED BY <1>1, <2>2, <2>3, <2>4, <2>5, <2>6 DEF StartCall, StartNamed
<1>5. OneWriter'
  <2>1. CASE StartAsWriter(p)
    BY <1>3, <1>4, <2>1, OneWriterKept DEF StartAsWriter
  <2>2. CASE BeginList(p) \/ Sign(p)
    <3>1. BeginList(p) => frame'[p].call = "list_agents"
      BY <1>1 DEF BeginList, TypeInv, TypeOK, Idle
    <3>2. Sign(p) => frame'[p] = Idle
      BY <1>1 DEF Sign, Return, TypeInv, TypeOK
    <3>3. ~ Writing(p)'
      BY <2>2, <3>1, <3>2, MarksAssumption DEF Writing, Idle, CallNames
    <3> QED BY <1>3, <1>4, <3>3, OneWriterKept
  <2> QED BY <2>1, <2>2
<1>6. OnlyIdentityErrors'
  <2>1. UNCHANGED result \/ \E r \in Results \ {"OSError"} : Return(p, r)
    BY <1>1 DEF StartCall, StartNamed, Begin, Refuse, BeginList, Sign, Results
  <2> QED BY <1>1, <2>1, ErrorsKept
<1> QED BY <1>2, <1>3, <1>4, <1>5, <1>6, ReaderStep

LEMMA LoadWriterInv ==
    ASSUME WriterInv, KeyInv', NEW p \in Procs,
           LoadExists(p) \/ LoadReadText(p) \/ LoadProbe(p) \/ ListNext(p)
    PROVE  WriterInv'
<1>1. TypeInv /\ OnlyIdentityErrors /\ frame[p] \in Frames
  BY DEF WriterInv, KeyInv, TypeInv, TypeOK
<1>2. UNCHANGED <<storeVars, keyVars>>
  BY DEF LoadExists, LoadReadText, LoadProbe, ListNext
\* Every one of these steps ends the call, goes on in it, or turns to create.
<1>3. \/ \E r \in Results \ {"OSError"} : Return(p, r)
      \/ \E l \in {"scan", "read"} : Goto(p, l)
      \/ frame[p].call = "load_or_create" /\ Goto(p, "check")
      \/ /\ frame' = [frame EXCEPT ![p].pc = "probe", ![p].seen = content[meta[Path(p)]]]
         /\ UNCHANGED result
      \/ /\ \E q \in frame[p].todo :
               frame' = [frame EXCEPT ![p].pc = "exists", ![p].name = StemOf[q],
                                      ![p].todo = @ \ {q}]
         /\ UNCHANGED result
  BY DEF LoadExists, LoadReadText, LoadProbe, ListNext, LoadRaises, LoadReturnsNone, LoadReturns,
         Results
<1>4. /\ \A x \in Procs \ {p} : frame'[x] = frame[x]
      /\ frame'[p].pc \notin KeyedSteps \cup {"unlink"}
      /\ frame'[p].pc \in CreateSteps \cup DeleteSteps => Writing(p)'
      /\ Writing(p)' => Writing(p)
      /\ UNCHANGED result \/ \E r \in Results \ {"OSError"} : Return(p, r)
  <2> USE DEF KeyedSteps, CreateSteps, DeleteSteps
  <2>1. CASE \E r \in Results \ {"OSError"} : Return(p, r)
    BY <1>1, <2>1, ReturnFrames
  <2>2. CASE \E l \in {"scan", "read"} : Goto(p, l)
    BY <1>1, <2>2, GotoFrames DEF Writing
  <2>3. CASE frame[p].call = "load_or_create" /\ Goto(p, "check")
    <3>1. /\ \A x \in Procs \ {p} : frame'[x] = frame[x]
          /\ frame'[p].pc = "check"
          /\ frame'[p].call = frame[p].call
          /\ result' = result
      BY <1>1, <2>3, GotoFrames
    <3>2. Writing(p) /\ Writing(p)'
      BY <2>3, <3>1 DEF Writing
    <3> QED BY <3>1, <3>2
  <2>4. CASE /\ frame' = [frame EXCEPT ![p].pc = "probe", ![p].seen = content[meta[Path(p)]]]
             /\ UNCHANGED result
    BY <1>1, <2>4 DEF Writing, TypeInv, TypeOK, Frames
  <2>5. CASE /\ \E q \in frame[p].todo :
                   frame' = [frame EXCEPT ![p].pc = "exists", ![p].name = StemOf[q],
                                          ![p].todo = @ \ {q}]
             /\ UNCHANGED result
    <3>1. PICK q \in frame[p].todo :
             frame' = [frame EXCEPT ![p].pc = "exists", ![p].name = StemOf[q], ![p].todo = @ \ {q}]
      BY <2>5
    <3>2. /\ \A x \in Procs \ {p} : frame'[x] = frame[x]
          /\ frame'[p].pc = "exists"
          /\ frame'[p].call = frame[p].call
      BY <1>1, <3>1 DEF TypeInv, TypeOK, Frames
    <3> QED BY <2>5, <3>2 DEF Writing
  <2> QED BY <1>3, <2>1, <2>2, <2>3, <2>4, <2>5
<1>5. OneWriter'
  BY <1>4, OneWriterKept
<1>6. OnlyIdentityErrors'
  BY <1>1, <1>4, ErrorsKept
<1> QED BY <1>2, <1>4, <1>5, <1>6, ReaderStep

\* What a step of the one writer has to show: its own progress and the files.
LEMMA WriterStep ==
    ASSUME WriterInv, KeyInv', NEW p \in Procs,
           frame[p].pc \in CreateSteps \cup DeleteSteps,
           \A x \in Procs \ {p} : frame'[x] = frame[x],
           frame'[p].pc \in CreateSteps \cup DeleteSteps => Writing(p)',
           Writing(p)' => Writing(p),
           FilesApart', StoresAgree', (published \subseteq minted)',
           WriterProgress(p)',
           OnlyIdentityErrors'
    PROVE  WriterInv'
<1>1. OneWriter'
  BY OneWriterKept
<1>2. ASSUME NEW x \in Procs \ {p} PROVE WriterProgress(x)'
  BY OthersRead DEF WriterProgress, CreateSteps, KeyedSteps, DeleteSteps
<1> QED BY <1>1, <1>2 DEF WriterInv

\* The local variables of a caller that creates.
LEMMA CreateLocals ==
    ASSUME WriterInv, NEW p \in Procs, frame[p].pc \in CreateSteps \cup DeleteSteps
    PROVE  /\ TypeInv
           /\ frame[p] \in Frames
           /\ frame[p].name \in Names
           /\ Path(p) = PathOf[frame[p].name]
           /\ Path(p) \in Paths
           /\ frame[p].pc \in KeyedSteps => frame[p].key \in Keys
           /\ frame[p].pc \in {"write", "rename"} => frame[p].fd \in Keys
           /\ WriterProgress(p)
           /\ Writing(p)
           /\ OnlyIdentityErrors
BY DEF WriterInv, OneWriter, KeyInv, TypeInv, TypeOK, LocalsSet, CreateSteps, KeyedSteps, DeleteSteps,
       NamedSteps, Steps, Path

LEMMA CheckWriterInv ==
    ASSUME WriterInv, KeyInv', NEW p \in Procs, CreateCheck(p)
    PROVE  WriterInv'
<1>0. frame[p].pc = "check" /\ frame[p].pc \in CreateSteps
  BY DEF CreateCheck, SidecarTaken, FreshKeys, At, CreateSteps
<1>1. UNCHANGED <<storeVars, stored, published, viewVars>> /\ minted \subseteq minted'
  BY DEF CreateCheck, SidecarTaken, FreshKeys
<1>2. FilesApart' /\ StoresAgree' /\ (published \subseteq minted)'
  BY <1>1 DEF WriterInv, FilesApart, StoresAgree, SidecarWhole, DidMatchesKey, Readable, storeVars
<1>3. CASE Return(p, "IdentityError")
  <2>1. OnlyIdentityErrors'
    BY <1>0, <1>3, CreateLocals, ErrorsKept DEF Results
  <2>2. WriterProgress(p)'
    BY <1>0, <1>3, CreateLocals, ReturnFrames DEF WriterProgress, KeyedSteps
  <2> QED BY <1>0, <1>2, <1>3, <2>1, <2>2, CreateLocals, ReturnFrames, WriterStep
             DEF CreateSteps, DeleteSteps, KeyedSteps
<1>4. ASSUME NEW k \in Keys \ minted,
             meta[Path(p)] = None,
             minted' = minted \cup {k},
             frame' = [frame EXCEPT ![p].pc = "store", ![p].key = k],
             UNCHANGED result
      PROVE  WriterInv'
  <2>1. /\ frame'[p].pc = "store"
        /\ frame'[p].key = k
        /\ frame'[p].name = frame[p].name
        /\ frame'[p].call = frame[p].call
        /\ \A x \in Procs \ {p} : frame'[x] = frame[x]
    BY <1>0, <1>4, CreateLocals DEF TypeInv, TypeOK, Frames
  <2>2. Path(p)' = Path(p) /\ meta' = meta /\ tmp' = tmp /\ published' = published
    BY <1>1, <2>1 DEF Path, storeVars
  <2>3. \A q \in Paths : meta[q] # k /\ tmp[q] # k
    BY <1>4, MarksAssumption DEF WriterInv, FilesApart
  <2>4. k \in minted' \ published
    BY <1>4 DEF WriterInv
  <2>5. WriterProgress(p)'
    BY <1>4, <2>1, <2>2, <2>3, <2>4 DEF WriterProgress, KeyedSteps
  <2>6. OnlyIdentityErrors'
    BY <1>0, <1>4, CreateLocals, ErrorsKept
  <2>7. Writing(p)'
    BY <1>0, <2>1, CreateLocals DEF Writing
  <2> QED BY <1>0, <1>2, <2>1, <2>5, <2>6, <2>7, CreateLocals, WriterStep
<1> QED BY <1>3, <1>4 DEF CreateCheck, SidecarTaken, FreshKeys

LEMMA SetPasswordWriterInv ==
    ASSUME WriterInv, KeyInv', NEW p \in Procs, CreateSetPassword(p)
    PROVE  WriterInv'
<1>0. frame[p].pc = "store" /\ frame[p].pc \in CreateSteps
  BY DEF CreateSetPassword, At, CreateSteps, KeyedSteps
<1>1. UNCHANGED <<meta, tmp, content, minted, published, viewVars>>
  BY DEF CreateSetPassword
<1>2. FilesApart' /\ SidecarWhole' /\ (published \subseteq minted)'
  BY <1>1 DEF WriterInv, FilesApart, StoresAgree, SidecarWhole, Readable
<1>3. CASE Return(p, "IdentityError") /\ UNCHANGED <<slot, stored>>
  <2>1. OnlyIdentityErrors'
    BY <1>0, <1>3, CreateLocals, ErrorsKept DEF Results
  <2>2. WriterProgress(p)'
    BY <1>0, <1>3, CreateLocals, ReturnFrames DEF WriterProgress, KeyedSteps
  <2>3. StoresAgree'
    BY <1>1, <1>2, <1>3 DEF WriterInv, StoresAgree, DidMatchesKey, Readable
  <2> QED BY <1>0, <1>2, <1>3, <2>1, <2>2, <2>3, CreateLocals, ReturnFrames, WriterStep
             DEF CreateSteps, DeleteSteps, KeyedSteps
<1>4. CASE slot' = [slot EXCEPT ![frame[p].name] = frame[p].key] /\ Goto(p, "open")
  <2>1. /\ frame'[p].pc = "open"
        /\ frame'[p].key = frame[p].key
        /\ frame'[p].name = frame[p].name
        /\ frame'[p].call = frame[p].call
        /\ \A x \in Procs \ {p} : frame'[x] = frame[x]
    BY <1>0, <1>4, CreateLocals, GotoFrames
  <2>2. slot'[frame[p].name] = frame[p].key
    BY <1>0, <1>4, CreateLocals DEF TypeInv, TypeOK
  <2>3. Path(p)' = Path(p)
    BY <2>1 DEF Path
  <2>4. WriterProgress(p)'
    BY <1>0, <1>1, <2>1, <2>2, <2>3, CreateLocals DEF WriterProgress, KeyedSteps
  \* No sidecar names the agent whose slot is written.
  <2>5. ASSUME NEW q \in Paths, Readable(q)
        PROVE  content[meta[q]].name # frame[p].name
    <3>1. meta[Path(p)] = None
      BY <1>0, CreateLocals DEF WriterProgress, KeyedSteps
    <3> QED BY <1>0, <2>5, <3>1, CreateLocals DEF WriterInv, StoresAgree, SidecarWhole, Readable
  <2>6. StoresAgree'
    <3>1. ASSUME NEW q \in Paths, Readable(q)
          PROVE  slot'[content[meta[q]].name] \in {content[meta[q]].key, None}
      <4>1. content[meta[q]].name \in Names /\ content[meta[q]].name # frame[p].name
        BY <2>5, <3>1 DEF Readable, Agents
      <4> QED BY <1>4, <3>1, <4>1, <1>0, CreateLocals
                 DEF WriterInv, StoresAgree, DidMatchesKey, TypeInv, TypeOK
    <3> QED BY <1>1, <1>2, <3>1 DEF StoresAgree, DidMatchesKey, Readable
  <2>7. OnlyIdentityErrors'
    BY <1>0, <1>4, CreateLocals, ErrorsKept DEF Goto
  <2>8. Writing(p)'
    BY <1>0, <2>1, CreateLocals DEF Writing
  <2> QED BY <1>0, <1>2, <2>1, <2>4, <2>6, <2>7, <2>8, CreateLocals, WriterStep
<1> QED BY <1>3, <1>4 DEF CreateSetPassword

LEMMA OpenWriterInv ==
    ASSUME WriterInv, KeyInv', NEW p \in Procs, CreateOpenTmp(p)
    PROVE  WriterInv'
<1>0. frame[p].pc = "open" /\ frame[p].pc \in CreateSteps
  BY DEF CreateOpenTmp, At, CreateSteps, KeyedSteps
<1>1. /\ UNCHANGED <<slot, meta, minted, stored, published, handle, shown, result>>
      /\ tmp' = [tmp EXCEPT ![Path(p)] = TmpFile(p)]
      /\ content' = [content EXCEPT ![TmpFile(p)] = Empty]
      /\ frame' = [frame EXCEPT ![p].pc = "write", ![p].fd = TmpFile(p)]
  BY DEF CreateOpenTmp, keyVars, viewVars
<1>2. /\ frame'[p].pc = "write"
      /\ frame'[p].fd = TmpFile(p)
      /\ frame'[p].key = frame[p].key
      /\ frame'[p].name = frame[p].name
      /\ frame'[p].call = frame[p].call
      /\ \A x \in Procs \ {p} : frame'[x] = frame[x]
  BY <1>0, <1>1, CreateLocals DEF TypeInv, TypeOK, Frames
\* The file that is opened: left by a crashed writer of this path, or new.
<1>3. /\ frame[p].key \in minted \ published
      /\ frame[p].key \in Keys
      /\ \A q \in Paths : meta[q] # frame[p].key /\ tmp[q] # frame[p].key
  BY <1>0, CreateLocals DEF WriterProgress, KeyedSteps
<1>4. /\ TmpFile(p) \in Keys
      /\ TmpFile(p) \in minted
      /\ \A q \in Paths : meta[q] # TmpFile(p)
      /\ \A q \in Paths \ {Path(p)} : tmp[q] # TmpFile(p)
  <2>1. CASE tmp[Path(p)] = None
    BY <1>3, <2>1 DEF TmpFile
  <2>2. CASE tmp[Path(p)] # None
    BY <1>0, <2>2, CreateLocals DEF TmpFile, WriterInv, FilesApart, TypeInv, TypeOK
  <2> QED BY <2>1, <2>2
<1>5. Path(p) \in Paths
  BY <1>0, CreateLocals
<1>6. /\ tmp'[Path(p)] = TmpFile(p)
      /\ \A q \in Paths \ {Path(p)} : tmp'[q] = tmp[q]
      /\ content'[TmpFile(p)] = Empty
      /\ \A f \in Keys \ {TmpFile(p)} : content'[f] = content[f]
  BY <1>0, <1>1, <1>4, <1>5, CreateLocals DEF TypeInv, TypeOK
<1>7. FilesApart'
  BY <1>1, <1>4, <1>5, <1>6 DEF WriterInv, FilesApart
<1>8. StoresAgree'
  <2>1. \A q \in Paths : meta[q] # None => content'[meta[q]] = content[meta[q]]
    BY <1>0, <1>4, <1>6, CreateLocals DEF TypeInv, TypeOK
  <2> QED BY <1>1, <2>1 DEF WriterInv, StoresAgree, SidecarWhole, DidMatchesKey, Readable
<1>9. WriterProgress(p)'
  <2>1. Path(p)' = Path(p)
    BY <1>2 DEF Path
  <2> QED BY <1>0, <1>1, <1>2, <1>6, <2>1, CreateLocals DEF WriterProgress, KeyedSteps
<1>10. (published \subseteq minted)' /\ OnlyIdentityErrors' /\ Writing(p)'
  BY <1>0, <1>1, <1>2, CreateLocals DEF WriterInv, OnlyIdentityErrors, Writing
<1> QED BY <1>0, <1>2, <1>7, <1>8, <1>9, <1>10, CreateLocals, WriterStep

LEMMA WriteWriterInv ==
    ASSUME WriterInv, KeyInv', NEW p \in Procs, CreateWriteTmp(p)
    PROVE  WriterInv'
<1>0. frame[p].pc = "write" /\ frame[p].pc \in CreateSteps
  BY DEF CreateWriteTmp, At, CreateSteps, KeyedSteps
<1>1. UNCHANGED <<slot, meta, tmp, minted, stored, published>> /\ Goto(p, "rename")
  BY DEF CreateWriteTmp, keyVars
<1>2. /\ frame'[p].pc = "rename"
      /\ frame'[p].fd = frame[p].fd
      /\ frame'[p].key = frame[p].key
      /\ frame'[p].name = frame[p].name
      /\ frame'[p].op = frame[p].op
      /\ frame'[p].call = frame[p].call
      /\ \A x \in Procs \ {p} : frame'[x] = frame[x]
      /\ result' = result
  BY <1>0, <1>1, CreateLocals, GotoFrames
\* Nobody else has the file open, so the text is this writer's alone.
<1>3. /\ tmp[Path(p)] = frame[p].fd
      /\ frame[p].fd \in Keys
      /\ content[frame[p].fd] = Empty
  BY <1>0, CreateLocals DEF WriterProgress
<1>4. content' = [content EXCEPT ![frame[p].fd] = NewAgent(p)]
  BY <1>3 DEF CreateWriteTmp, AfterWrite
<1>5. FilesApart'
  BY <1>1 DEF WriterInv, FilesApart
<1>6. StoresAgree'
  <2>1. \A q \in Paths : meta[q] # frame[p].fd
    BY <1>0, <1>3, CreateLocals, MarksAssumption DEF WriterInv, FilesApart
  <2>2. \A q \in Paths : meta[q] # None => content'[meta[q]] = content[meta[q]]
    BY <1>0, <1>4, <2>1, CreateLocals DEF TypeInv, TypeOK
  <2> QED BY <1>1, <2>2 DEF WriterInv, StoresAgree, SidecarWhole, DidMatchesKey, Readable
<1>7. WriterProgress(p)'
  <2>1. Path(p)' = Path(p) /\ NewAgent(p)' = NewAgent(p)
    BY <1>2 DEF Path, NewAgent
  <2>2. content'[frame[p].fd] = NewAgent(p)
    BY <1>0, <1>3, <1>4, CreateLocals DEF TypeInv, TypeOK
  <2> QED BY <1>0, <1>1, <1>2, <2>1, <2>2, CreateLocals DEF WriterProgress, KeyedSteps
<1>8. (published \subseteq minted)' /\ OnlyIdentityErrors' /\ Writing(p)'
  BY <1>0, <1>1, <1>2, CreateLocals DEF WriterInv, OnlyIdentityErrors, Writing
<1> QED BY <1>0, <1>2, <1>5, <1>6, <1>7, <1>8, CreateLocals, WriterStep

\* What the rename of the one writer publishes.
LEMMA RenamePublishes ==
    ASSUME WriterInv, NEW p \in Procs, CreateRename(p)
    PROVE  /\ frame[p].pc = "rename"
           /\ frame[p].fd \in Keys
           /\ tmp[Path(p)] = frame[p].fd
           /\ meta[Path(p)] = None
           /\ content[frame[p].fd] = NewAgent(p)
           /\ NewAgent(p) \in Agents
           /\ frame[p].key \in minted \ published
           /\ slot[frame[p].name] \in {frame[p].key, None}
           /\ meta' = [meta EXCEPT ![Path(p)] = frame[p].fd]
           /\ tmp' = [tmp EXCEPT ![Path(p)] = None]
           /\ published' = published \cup {frame[p].key}
           /\ Return(p, "ok")
           /\ UNCHANGED <<slot, content, minted, stored>>
<1>1. frame[p].pc = "rename" /\ frame[p].pc \in CreateSteps
  BY DEF CreateRename, At, CreateSteps, KeyedSteps
<1>2. /\ frame[p].fd \in Keys
      /\ tmp[Path(p)] = frame[p].fd
      /\ meta[Path(p)] = None
      /\ content[frame[p].fd] = NewAgent(p)
      /\ frame[p].key \in minted \ published
      /\ slot[frame[p].name] \in {frame[p].key, None}
  BY <1>1, CreateLocals DEF WriterProgress, KeyedSteps
<1>3. NewAgent(p) \in Agents
  BY <1>1, CreateLocals, NewAgentType
<1>4. tmp[Path(p)] # None /\ DidsIn(tmp[Path(p)]) = {frame[p].key}
  BY <1>2, <1>3, MarksAssumption DEF DidsIn, NewAgent
<1> QED BY <1>1, <1>2, <1>3, <1>4 DEF CreateRename

LEMMA RenameWriterInv ==
    ASSUME WriterInv, KeyInv', NEW p \in Procs, CreateRename(p)
    PROVE  WriterInv'
<1>0. frame[p].pc = "rename" /\ frame[p].pc \in CreateSteps
  BY RenamePublishes DEF CreateSteps, KeyedSteps
<1>1. /\ Path(p) \in Paths
      /\ Path(p) = PathOf[frame[p].name]
      /\ TypeInv
      /\ frame[p].fd \in minted
  BY <1>0, CreateLocals, RenamePublishes, MarksAssumption DEF WriterInv, FilesApart
<1>2. /\ meta'[Path(p)] = frame[p].fd
      /\ tmp'[Path(p)] = None
      /\ \A q \in Paths \ {Path(p)} : meta'[q] = meta[q] /\ tmp'[q] = tmp[q]
  BY <1>1, RenamePublishes DEF TypeInv, TypeOK
<1>3. FilesApart'
  BY <1>1, <1>2, RenamePublishes DEF WriterInv, FilesApart
<1>4. ASSUME NEW q \in Paths, meta'[q] # None
      PROVE  /\ Readable(q)'
             /\ PathOf[content'[meta'[q]].name] = q
             /\ slot'[content'[meta'[q]].name] \in {content'[meta'[q]].key, None}
  <2>1. CASE q = Path(p)
    <3>1. content'[meta'[q]] = NewAgent(p) /\ NewAgent(p) \in Agents
      BY <1>2, <2>1, RenamePublishes
    <3>2. NewAgent(p).name = frame[p].name /\ NewAgent(p).key = frame[p].key
      BY DEF NewAgent
    <3>3. slot'[frame[p].name] \in {frame[p].key, None}
      BY RenamePublishes
    <3> QED BY <1>1, <1>4, <2>1, <3>1, <3>2, <3>3 DEF Readable
  <2>2. CASE q # Path(p)
    BY <1>2, <1>4, <2>2, RenamePublishes
       DEF WriterInv, StoresAgree, SidecarWhole, DidMatchesKey, Readable
  <2> QED BY <2>1, <2>2
<1>5. StoresAgree'
  BY <1>4 DEF StoresAgree, SidecarWhole, DidMatchesKey, Readable
<1>6. (published \subseteq minted)' /\ OnlyIdentityErrors'
  BY <1>0, CreateLocals, RenamePublishes, ErrorsKept DEF WriterInv, Results
<1>7. WriterProgress(p)'
  BY <1>1, RenamePublishes, ReturnFrames DEF WriterProgress, KeyedSteps
<1> QED BY <1>0, <1>1, <1>3, <1>5, <1>6, <1>7, RenamePublishes, ReturnFrames, WriterStep
           DEF CreateSteps, DeleteSteps, KeyedSteps

\* Taking keys away leaves the stores in agreement.
LEMMA AgreeAfterLoss ==
    ASSUME WriterInv, UNCHANGED <<meta, content>>,
           \A n \in Names : slot'[n] \in {slot[n], None}
    PROVE  StoresAgree'
<1>1. \A q \in Paths : Readable(q)' <=> Readable(q)
  BY DEF Readable
<1>2. \A q \in Paths : Readable(q) => content[meta[q]].name \in Names
  BY DEF Readable, Agents
<1> QED BY <1>1, <1>2 DEF WriterInv, StoresAgree, SidecarWhole, DidMatchesKey

LEMMA DeleteWriterInv ==
    ASSUME WriterInv, KeyInv', NEW p \in Procs,
           DeletePassword(p) \/ DeleteExists(p) \/ DeleteUnlink(p)
    PROVE  WriterInv'
<1>0. frame[p].pc \in DeleteSteps
  BY DEF DeletePassword, DeleteExists, DeleteUnlink, At, DeleteSteps
<1>1. UNCHANGED <<tmp, content, minted, stored, published>>
  BY DEF DeletePassword, DeleteExists, DeleteUnlink, storeVars, keyVars
<1>2. CASE DeletePassword(p)
  <2>1. /\ frame'[p].pc = "absent"
        /\ frame'[p].call = frame[p].call
        /\ \A x \in Procs \ {p} : frame'[x] = frame[x]
    BY <1>0, <1>2, CreateLocals DEF DeletePassword, TypeInv, TypeOK, Frames
  <2>2. meta' = meta /\ \A n \in Names : slot'[n] \in {slot[n], None}
    BY <1>0, <1>2, CreateLocals DEF DeletePassword, TypeInv, TypeOK
  <2>3. FilesApart' /\ StoresAgree' /\ (published \subseteq minted)'
    BY <1>1, <2>2, AgreeAfterLoss DEF WriterInv, FilesApart
  <2>4. WriterProgress(p)'
    BY <2>1 DEF WriterProgress, KeyedSteps
  <2>5. OnlyIdentityErrors' /\ Writing(p)'
    BY <1>0, <1>2, <2>1, CreateLocals DEF DeletePassword, OnlyIdentityErrors, Writing
  <2> QED BY <1>0, <2>1, <2>3, <2>4, <2>5, CreateLocals, WriterStep
<1>3. CASE DeleteExists(p)
  <2>1. UNCHANGED <<slot, meta>>
    BY <1>3 DEF DeleteExists, storeVars
  <2>2. FilesApart' /\ StoresAgree' /\ (published \subseteq minted)'
    BY <1>1, <2>1, AgreeAfterLoss DEF WriterInv, FilesApart
  <2>3. CASE \E r \in {"true", "false"} : Return(p, r)
    <3>1. WriterProgress(p)'
      BY <1>0, <2>3, CreateLocals, ReturnFrames DEF WriterProgress, KeyedSteps
    <3>2. OnlyIdentityErrors'
      BY <1>0, <2>3, CreateLocals, ErrorsKept DEF Results
    <3> QED BY <1>0, <2>2, <2>3, <3>1, <3>2, CreateLocals, ReturnFrames, WriterStep
               DEF CreateSteps, DeleteSteps, KeyedSteps
  <2>4. CASE meta[Path(p)] # None /\ Goto(p, "unlink")
    <3>1. /\ frame'[p].pc = "unlink"
          /\ frame'[p].call = frame[p].call
          /\ frame'[p].name = frame[p].name
          /\ \A x \in Procs \ {p} : frame'[x] = frame[x]
          /\ result' = result
      BY <1>0, <2>4, CreateLocals, GotoFrames
    <3>2. WriterProgress(p)'
      BY <2>1, <2>4, <3>1 DEF WriterProgress, KeyedSteps, Path
    <3>3. OnlyIdentityErrors' /\ Writing(p)'
      BY <1>0, <3>1, CreateLocals DEF OnlyIdentityErrors, Writing
    <3> QED BY <1>0, <2>2, <3>1, <3>2, <3>3, CreateLocals, WriterStep
  <2> QED BY <1>3, <2>3, <2>4 DEF DeleteExists
<1>4. CASE DeleteUnlink(p)
  <2>1. meta[Path(p)] # None
    BY <1>0, <1>4, CreateLocals DEF DeleteUnlink, At, WriterProgress
  <2>2. slot' = slot /\ meta' = [meta EXCEPT ![Path(p)] = None] /\ Return(p, "true")
    BY <1>4, <2>1 DEF DeleteUnlink
  <2>3. \A q \in Paths : meta'[q] \in {meta[q], None}
    BY <1>0, <2>2, CreateLocals DEF TypeInv, TypeOK
  <2>4. FilesApart'
    BY <1>0, <1>1, <2>3, CreateLocals DEF WriterInv, FilesApart
  <2>5. StoresAgree'
    BY <1>1, <2>2, <2>3 DEF WriterInv, StoresAgree, SidecarWhole, DidMatchesKey, Readable
  <2>6. (published \subseteq minted)' /\ OnlyIdentityErrors'
    BY <1>0, <1>1, <2>2, CreateLocals, ErrorsKept DEF WriterInv, Results
  <2>7. WriterProgress(p)'
    BY <1>0, <2>2, CreateLocals, ReturnFrames DEF WriterProgress, KeyedSteps
  <2> QED BY <1>0, <2>2, <2>4, <2>5, <2>6, <2>7, CreateLocals, ReturnFrames, WriterStep
             DEF CreateSteps, DeleteSteps, KeyedSteps
<1> QED BY <1>2, <1>3, <1>4

LEMMA EnvironmentWriterInv == WriterInv /\ KeyInv' /\ Environment => WriterInv'
<1> SUFFICES ASSUME WriterInv, KeyInv', Environment PROVE WriterInv'
  OBVIOUS
<1>0. TypeInv
  BY DEF WriterInv, KeyInv
<1>1. ASSUME NEW p \in Procs, Crash(p) PROVE WriterInv'
  <2>1. Return(p, "crashed") /\ UNCHANGED <<storeVars, keyVars>>
    BY <1>1 DEF Crash
  <2>2. OneWriter'
    BY <1>0, <2>1, ReturnFrames, OneWriterKept DEF CreateSteps, DeleteSteps, KeyedSteps
  <2>3. OnlyIdentityErrors'
    BY <1>0, <2>1, ErrorsKept DEF WriterInv, Results
  <2> QED BY <1>0, <2>1, <2>2, <2>3, ReturnFrames, ReaderStep DEF KeyedSteps
<1>2. ASSUME NEW n \in Names, WipeSlot(n) PROVE WriterInv'
  <2>1. /\ UNCHANGED <<meta, tmp, content, minted, stored, published, frame, result>>
        /\ \A m \in Names : slot'[m] \in {slot[m], None}
    BY <1>0, <1>2 DEF WipeSlot, keyVars, TypeInv, TypeOK
  <2>2. FilesApart' /\ StoresAgree' /\ (published \subseteq minted)' /\ OneWriter'
        /\ OnlyIdentityErrors'
    BY <2>1, AgreeAfterLoss DEF WriterInv, FilesApart, OneWriter, Writing, OnlyIdentityErrors
  <2>3. ASSUME NEW p \in Procs PROVE WriterProgress(p)'
    <3>1. WriterProgress(p) /\ (frame[p].pc \in KeyedSteps => frame[p].name \in Names)
      BY <1>0 DEF WriterInv, TypeInv, LocalsSet, NamedSteps, KeyedSteps, Steps
    <3> QED BY <2>1, <3>1 DEF WriterProgress, Path, NewAgent, KeyedSteps
  <2> QED BY <2>2, <2>3 DEF WriterInv
<1> QED BY <1>1, <1>2 DEF Environment

LEMMA InitWriterInv == Init => WriterInv
<1> SUFFICES ASSUME Init PROVE WriterInv
  OBVIOUS
<1>1. KeyInv
  BY InitKeyInv
<1>2. OneWriter
  BY IdleIsNotWriting DEF Init, OneWriter, Writing, CreateSteps, DeleteSteps, KeyedSteps
<1>3. FilesApart /\ StoresAgree /\ published \subseteq minted /\ OnlyIdentityErrors
  BY DEF Init, FilesApart, StoresAgree, SidecarWhole, DidMatchesKey, Readable, OnlyIdentityErrors
<1>4. \A p \in Procs : WriterProgress(p)
  BY IdleIsNotWriting DEF Init, WriterProgress, KeyedSteps
<1> QED BY <1>1, <1>2, <1>3, <1>4 DEF WriterInv

LEMMA NextWriterInv == WriterInv /\ [WriterNext]_vars => WriterInv'
<1> SUFFICES ASSUME WriterInv, [WriterNext]_vars PROVE WriterInv'
  OBVIOUS
<1>0. KeyInv'
  BY NextKeyInv, WriterNextIsNext DEF WriterInv
<1>1. ASSUME NEW p \in Procs, StartAsWriter(p) \/ BeginList(p) \/ Sign(p) PROVE WriterInv'
  BY <1>0, <1>1, StartWriterInv
<1>2. ASSUME NEW p \in Procs, ContinueCall(p) PROVE WriterInv'
  BY <1>0, <1>2, LoadWriterInv, CheckWriterInv, SetPasswordWriterInv, OpenWriterInv,
     WriteWriterInv, RenameWriterInv, DeleteWriterInv DEF ContinueCall
<1>3. CASE Environment
  BY <1>0, <1>3, EnvironmentWriterInv
<1>4. CASE UNCHANGED vars
  BY <1>0, <1>4 DEF vars, storeVars, keyVars, viewVars, WriterInv, OneWriter, Writing, FilesApart,
     StoresAgree, SidecarWhole, DidMatchesKey, Readable, OnlyIdentityErrors, WriterProgress, Path,
     NewAgent
<1> QED BY <1>1, <1>2, <1>3, <1>4 DEF WriterNext

LEMMA WriterInvariant == WriterSpec => []WriterInv
BY InitWriterInv, NextWriterInv, PTL DEF WriterSpec

(***************************************************************************)
(* With one writer at a time, a sidecar never pairs a DID with a key that  *)
(* is not its own: create() replaces a slot only where no sidecar names    *)
(* it, and every crash, refusal or wipe at worst empties the slot.         *)
(***************************************************************************)
THEOREM StoresStayConsistent == WriterSpec => []DidMatchesKey
<1>1. WriterInv => DidMatchesKey
  BY DEF WriterInv, StoresAgree
<1> QED BY WriterInvariant, <1>1, PTL

(***************************************************************************)
(* With one writer at a time, write-tmp + rename does what its comment     *)
(* says: no crash leaves a sidecar that cannot be read back.               *)
(***************************************************************************)
THEOREM SidecarsStayWhole == WriterSpec => []SidecarWhole
<1>1. WriterInv => SidecarWhole
  BY DEF WriterInv, StoresAgree
<1> QED BY WriterInvariant, <1>1, PTL

(***************************************************************************)
(* With one writer at a time, no raw FileNotFoundError escapes.            *)
(***************************************************************************)
THEOREM ErrorsAreWrapped == WriterSpec => []OnlyIdentityErrors
<1>1. WriterInv => OnlyIdentityErrors
  BY DEF WriterInv
<1> QED BY WriterInvariant, <1>1, PTL

-----------------------------------------------------------------------------
(* The two stores implement one registry. *)

\* The abstract state depends on what readable sidecars and slots hold.
LEMMA RegistryUnchanged ==
    ASSUME UNCHANGED <<slot, meta, published>>,
           \A q \in Paths : meta[q] # None => content'[meta[q]] = content[meta[q]]
    PROVE  UNCHANGED Registry!rvars
<1>1. \A q \in Paths : Registered(q)' = Registered(q) /\ Usable(q)' = Usable(q)
  BY DEF Registered, Usable, Readable
<1> QED BY <1>1 DEF Registry!rvars, Entries, UsableMap

LEMMA EntriesOverride ==
    ASSUME NEW q \in Paths, NEW v, Registered(q)' = v,
           \A s \in Paths \ {q} : Registered(s)' = Registered(s)
    PROVE  Entries' = [Entries EXCEPT ![q] = v]
BY DEF Entries

LEMMA UsableOverride ==
    ASSUME NEW q \in Paths, NEW v, Usable(q)' = v,
           \A s \in Paths \ {q} : Usable(s)' = Usable(s)
    PROVE  UsableMap' = [UsableMap EXCEPT ![q] = v]
BY DEF UsableMap

\* A slot loses its key: the one agent that used it is no longer usable.
LEMMA RegistryLosesKey ==
    ASSUME WriterInv, NEW n \in Names,
           UNCHANGED <<meta, content, published>>,
           slot' = [slot EXCEPT ![n] = None]
    PROVE  [Registry!Next]_(Registry!rvars)
<1>1. \A q \in Paths : Readable(q)' = Readable(q) /\ Registered(q)' = Registered(q)
  BY DEF Readable, Registered
<1>2. \A q \in Paths : Readable(q) =>
          /\ content[meta[q]].name \in Names
          /\ content[meta[q]].key # None
          /\ PathOf[content[meta[q]].name] = q
  BY MarksAssumption DEF WriterInv, StoresAgree, SidecarWhole, Readable, Agents
<1>3. \A q \in Paths : Usable(q)' =
          (Usable(q) /\ content[meta[q]].name # n)
  BY <1>1, <1>2 DEF Usable, WriterInv, KeyInv, TypeInv, TypeOK
<1>4. CASE \E q \in Paths : Usable(q) /\ content[meta[q]].name = n
  <2>1. PICK q \in Paths : Usable(q) /\ content[meta[q]].name = n
    BY <1>4
  <2>2. \A s \in Paths : Usable(s) /\ content[meta[s]].name = n => s = q
    BY <1>2, <2>1 DEF Usable
  <2>3. Usable(q)' = FALSE
    BY <1>3, <2>1
  <2>4. \A s \in Paths \ {q} : Usable(s)' = Usable(s)
    BY <1>3, <2>2 DEF Usable
  <2>5. UsableMap' = [UsableMap EXCEPT ![q] = FALSE]
    BY <2>3, <2>4, UsableOverride
  <2>6. Entries' = Entries
    BY <1>1 DEF Entries
  <2>7. UsableMap[q]
    BY <2>1 DEF UsableMap
  <2> QED BY <2>5, <2>6, <2>7 DEF Registry!LoseKey, Registry!Next
<1>5. CASE \A q \in Paths : ~ (Usable(q) /\ content[meta[q]].name = n)
  <2>1. \A q \in Paths : Usable(q)' = Usable(q)
    BY <1>3, <1>5 DEF Usable
  <2> QED BY <1>1, <2>1 DEF Registry!rvars, Entries, UsableMap
<1> QED BY <1>4, <1>5

LEMMA RegistryInit == Init => Registry!Init
<1> SUFFICES ASSUME Init PROVE Registry!Init
  OBVIOUS
<1>1. \A q \in Paths : Registered(q) = None /\ Usable(q) = FALSE
  BY DEF Init, Registered, Usable, Readable
<1> QED BY <1>1 DEF Registry!Init, Init, Entries, UsableMap

\* create() ends: an agent is enrolled where none was.
LEMMA RegistryEnrols ==
    ASSUME WriterInv, NEW p \in Procs, CreateRename(p)
    PROVE  Registry!Next
<1>1. PICK q \in Paths : q = Path(p) /\ q = PathOf[frame[p].name]
  BY RenamePublishes, CreateLocals DEF CreateSteps, KeyedSteps
<1>2. PICK a \in Agents : /\ a = NewAgent(p) /\ a.name = frame[p].name
                          /\ a.key = frame[p].key
  BY RenamePublishes DEF NewAgent
<1>3. /\ meta'[q] = frame[p].fd
      /\ \A s \in Paths \ {q} : meta'[s] = meta[s]
      /\ frame[p].fd # None
      /\ content' = content /\ slot' = slot
      /\ content[frame[p].fd] = a
      /\ meta[q] = None
  <2>1. /\ meta' = [meta EXCEPT ![q] = frame[p].fd]
        /\ UNCHANGED <<slot, content>>
        /\ content[frame[p].fd] = a
        /\ meta[q] = None
    BY <1>1, <1>2, RenamePublishes
  <2>2. frame[p].fd # None
    BY RenamePublishes, MarksAssumption
  <2>3. meta \in [Paths -> Keys \cup {None}]
    BY DEF WriterInv, KeyInv, TypeInv, TypeOK
  <2> QED BY <2>1, <2>2, <2>3
<1>4. ~ Readable(q) /\ Readable(q)'
  BY <1>2, <1>3 DEF Readable
<1>5. Registered(q) = None
  BY <1>4 DEF Registered
<1>6. Registered(q)' = a
  BY <1>3, <1>4 DEF Registered
<1>7. \A s \in Paths \ {q} : Registered(s)' = Registered(s)
  BY <1>3 DEF Registered, Readable
<1>8. \A s \in Paths \ {q} : Usable(s)' = Usable(s)
  BY <1>3 DEF Usable, Readable
<1>9. Entries' = [Entries EXCEPT ![q] = a]
  BY <1>6, <1>7, EntriesOverride
<1>10. \E b \in BOOLEAN : UsableMap' = [UsableMap EXCEPT ![q] = b]
  <2>1. PICK b \in BOOLEAN : Usable(q)' = b
    BY DEF Usable, Readable
  <2>2. UsableMap' = [UsableMap EXCEPT ![q] = b]
    BY <1>8, <2>1, UsableOverride
  <2> QED BY <2>2
<1>11. a.key \notin published /\ published' = published \cup {a.key}
  BY <1>2, RenamePublishes
<1>12. Entries[q] = None
  BY <1>5 DEF Entries
<1>13. q = PathOf[a.name]
  BY <1>1, <1>2
<1>14. Registry!Enrol(a)
  BY <1>9, <1>10, <1>11, <1>12, <1>13 DEF Registry!Enrol
<1> QED BY <1>14 DEF Registry!Next, Registry!Agents, Agents

\* delete() ends: the entry is forgotten.
LEMMA RegistryForgets ==
    ASSUME WriterInv, NEW p \in Procs, DeleteUnlink(p)
    PROVE  Registry!Next
<1>1. PICK q \in Paths : q = Path(p) /\ TypeInv /\ meta[q] # None
  BY CreateLocals DEF DeleteUnlink, At, DeleteSteps, WriterProgress
<1>2. /\ meta' = [meta EXCEPT ![q] = None]
      /\ UNCHANGED <<slot, content, published>>
  BY <1>1 DEF DeleteUnlink, keyVars
<1>3. Readable(q) /\ ~ Readable(q)'
  BY <1>1, <1>2 DEF Readable, WriterInv, StoresAgree, SidecarWhole, TypeInv, TypeOK
<1>4. Registered(q) # None
  BY <1>3, MarksAssumption DEF Registered, Readable
<1>5. Registered(q)' = None
  BY <1>3 DEF Registered
<1>6. Usable(q)' = FALSE
  BY <1>3 DEF Usable
<1>7. \A s \in Paths \ {q} : meta'[s] = meta[s]
  BY <1>1, <1>2 DEF TypeInv, TypeOK
<1>8. \A s \in Paths \ {q} : Registered(s)' = Registered(s)
  BY <1>2, <1>7 DEF Registered, Readable
<1>9. \A s \in Paths \ {q} : Usable(s)' = Usable(s)
  BY <1>2, <1>7 DEF Usable, Readable
<1>10. Entries' = [Entries EXCEPT ![q] = None]
  BY <1>5, <1>8, EntriesOverride
<1>11. UsableMap' = [UsableMap EXCEPT ![q] = FALSE]
  BY <1>6, <1>9, UsableOverride
<1>12. Entries[q] # None
  BY <1>4 DEF Entries
<1> QED BY <1>2, <1>10, <1>11, <1>12 DEF Registry!Forget, Registry!Next

\* Steps that write a file touch none that a sidecar path names.
LEMMA PublishedFilesKept ==
    ASSUME WriterInv, NEW p \in Procs, CreateOpenTmp(p) \/ CreateWriteTmp(p)
    PROVE  /\ UNCHANGED <<slot, meta, published>>
           /\ \A q \in Paths : meta[q] # None => content'[meta[q]] = content[meta[q]]
<1>0. frame[p].pc \in {"open", "write"} /\ frame[p].pc \in CreateSteps
  BY DEF CreateOpenTmp, CreateWriteTmp, At, CreateSteps, KeyedSteps
<1>1. PICK f \in Keys, c \in Contents : content' = [content EXCEPT ![f] = c]
                                       /\ \A q \in Paths : meta[q] # f
  <2>1. CASE CreateOpenTmp(p)
    <3>1. content' = [content EXCEPT ![TmpFile(p)] = Empty] /\ frame[p].pc = "open"
      BY <2>1 DEF CreateOpenTmp, At
    <3>2. TmpFile(p) \in Keys /\ \A q \in Paths : meta[q] # TmpFile(p)
      <4>1. CASE tmp[Path(p)] = None
        BY <1>0, <3>1, <4>1, CreateLocals DEF TmpFile, WriterProgress, KeyedSteps
      <4>2. CASE tmp[Path(p)] # None
        BY <1>0, <4>2, CreateLocals DEF TmpFile, WriterInv, FilesApart, TypeInv, TypeOK
      <4> QED BY <4>1, <4>2
    <3> QED BY <3>1, <3>2 DEF Contents
  <2>2. CASE CreateWriteTmp(p)
    <3>1. /\ tmp[Path(p)] = frame[p].fd /\ frame[p].fd \in Keys
          /\ content[frame[p].fd] = Empty /\ NewAgent(p) \in Contents
      BY <1>0, <2>2, CreateLocals, NewAgentType
         DEF CreateWriteTmp, At, WriterProgress, Contents, KeyedSteps
    <3>2. content' = [content EXCEPT ![frame[p].fd] = NewAgent(p)]
      BY <2>2, <3>1 DEF CreateWriteTmp, AfterWrite
    <3>3. \A q \in Paths : meta[q] # frame[p].fd
      BY <1>0, <3>1, CreateLocals, MarksAssumption DEF WriterInv, FilesApart
    <3> QED BY <3>1, <3>2, <3>3
  <2> QED BY <2>1, <2>2
<1>2. UNCHANGED <<slot, meta, published>>
  BY DEF CreateOpenTmp, CreateWriteTmp, keyVars
<1> QED BY <1>0, <1>1, <1>2, CreateLocals DEF TypeInv, TypeOK

\* A new key is put where no readable sidecar looks for one.
LEMMA RegistryKeepsStore ==
    ASSUME WriterInv, NEW p \in Procs, CreateSetPassword(p)
    PROVE  UNCHANGED Registry!rvars
<1>0. frame[p].pc = "store" /\ frame[p].pc \in CreateSteps
  BY DEF CreateSetPassword, At, CreateSteps, KeyedSteps
<1>1. UNCHANGED <<meta, content, published>>
  BY DEF CreateSetPassword
<1>2. \A n \in Names \ {frame[p].name} : slot'[n] = slot[n]
  BY <1>0, CreateLocals DEF CreateSetPassword, TypeInv, TypeOK
<1>3. meta[Path(p)] = None
  BY <1>0, CreateLocals DEF WriterProgress, KeyedSteps
<1>4. \A q \in Paths : Readable(q)' = Readable(q) /\ Registered(q)' = Registered(q)
  BY <1>1 DEF Readable, Registered
<1>5. ASSUME NEW q \in Paths, Readable(q)
      PROVE  content[meta[q]].name \in Names \ {frame[p].name}
  <2>1. content[meta[q]].name \in Names
    BY <1>5 DEF Readable, Agents
  <2>2. PathOf[content[meta[q]].name] = q /\ meta[q] # None
    BY <1>5 DEF Readable, WriterInv, StoresAgree, SidecarWhole
  <2> QED BY <1>3, <2>1, <2>2 DEF Path
<1>6. \A q \in Paths : Usable(q)' = Usable(q)
  BY <1>1, <1>2, <1>4, <1>5 DEF Usable
<1> QED BY <1>1, <1>4, <1>6 DEF Registry!rvars, Entries, UsableMap

LEMMA RegistryStep == WriterInv /\ [WriterNext]_vars => [Registry!Next]_(Registry!rvars)
<1> SUFFICES ASSUME WriterInv, [WriterNext]_vars
             PROVE  [Registry!Next]_(Registry!rvars)
  OBVIOUS
<1>1. CASE UNCHANGED <<storeVars, keyVars>>
  BY <1>1, RegistryUnchanged DEF storeVars, keyVars
<1>2. ASSUME NEW p \in Procs, StartAsWriter(p) \/ BeginList(p) \/ Sign(p)
      PROVE  UNCHANGED <<storeVars, keyVars>>
  <2>1. StartCall(p)
    BY <1>2 DEF StartAsWriter, StartCall
  <2>2. ASSUME NEW c \in CallNames, NEW n \in Names, NEW o \in Ops \cup {None}, Begin(p, c, n, o)
        PROVE  UNCHANGED <<storeVars, keyVars>>
    BY <2>2 DEF Begin
  <2>3. ASSUME NEW c \in CallNames, NEW n \in Names, Refuse(p, c, n)
        PROVE  UNCHANGED <<storeVars, keyVars>>
    BY <2>3 DEF Refuse
  <2>4. CASE BeginList(p)
    BY <2>4 DEF BeginList
  <2>5. CASE Sign(p)
    BY <2>5 DEF Sign
  <2> QED BY <2>1, <2>2, <2>3, <2>4, <2>5 DEF StartCall, StartNamed
<1>3. ASSUME NEW p \in Procs,
             LoadExists(p) \/ LoadReadText(p) \/ LoadProbe(p) \/ ListNext(p) \/ DeleteExists(p)
      PROVE  UNCHANGED <<storeVars, keyVars>>
  <2>1. CASE LoadExists(p)
    BY <2>1 DEF LoadExists
  <2>2. CASE LoadReadText(p)
    BY <2>2 DEF LoadReadText
  <2>3. CASE LoadProbe(p)
    BY <2>3 DEF LoadProbe
  <2>4. CASE ListNext(p)
    <3>1. ListNext(p) => UNCHANGED <<storeVars, keyVars, viewVars>>
      BY ONLY ZenonT(30) DEF ListNext
    <3> QED BY <2>4, <3>1
  <2>5. CASE DeleteExists(p)
    BY <2>5 DEF DeleteExists
  <2> QED BY <1>3, <2>1, <2>2, <2>3, <2>4, <2>5
<1>4. ASSUME NEW p \in Procs, CreateCheck(p) PROVE [Registry!Next]_(Registry!rvars)
  BY <1>4, RegistryUnchanged DEF CreateCheck, SidecarTaken, FreshKeys, storeVars
<1>5. ASSUME NEW p \in Procs, CreateSetPassword(p) PROVE [Registry!Next]_(Registry!rvars)
  BY <1>5, RegistryKeepsStore
<1>6. ASSUME NEW p \in Procs, CreateOpenTmp(p) \/ CreateWriteTmp(p)
      PROVE  [Registry!Next]_(Registry!rvars)
  BY <1>6, PublishedFilesKept, RegistryUnchanged
<1>7. ASSUME NEW p \in Procs, CreateRename(p) PROVE [Registry!Next]_(Registry!rvars)
  <2>1. CASE tmp[Path(p)] = None
    <3>1. tmp[Path(p)] = frame[p].fd /\ frame[p].fd \in Keys
      BY <1>7, RenamePublishes
    <3> QED BY <2>1, <3>1, MarksAssumption
  <2> QED BY <1>7, RegistryEnrols
<1>8. ASSUME NEW p \in Procs, DeletePassword(p) PROVE [Registry!Next]_(Registry!rvars)
  <2>1. frame[p].name \in Names
    BY <1>8, CreateLocals DEF DeletePassword, At, DeleteSteps
  <2>2. UNCHANGED <<meta, content, published>>
    BY <1>8 DEF DeletePassword, keyVars
  <2>3. CASE slot' = [slot EXCEPT ![frame[p].name] = None]
    BY <2>1, <2>2, <2>3, RegistryLosesKey
  <2>4. CASE UNCHANGED slot
    BY <2>2, <2>4, RegistryUnchanged
  <2> QED BY <1>8, <2>3, <2>4 DEF DeletePassword
<1>9. ASSUME NEW p \in Procs, DeleteUnlink(p) PROVE [Registry!Next]_(Registry!rvars)
  BY <1>9, RegistryForgets
<1>10. ASSUME NEW p \in Procs, Crash(p) PROVE UNCHANGED <<storeVars, keyVars>>
  BY <1>10 DEF Crash
<1>11. ASSUME NEW n \in Names, WipeSlot(n) PROVE [Registry!Next]_(Registry!rvars)
  BY <1>11, RegistryLosesKey DEF WipeSlot, keyVars
<1>12. CASE UNCHANGED vars
  BY <1>1, <1>12 DEF vars
<1>13. ASSUME NEW p \in Procs, ContinueCall(p) PROVE [Registry!Next]_(Registry!rvars)
  BY <1>1, <1>3, <1>4, <1>5, <1>6, <1>7, <1>8, <1>9, <1>13 DEF ContinueCall
<1>14. CASE Environment
  BY <1>1, <1>10, <1>11, <1>14 DEF Environment
<1> QED BY <1>1, <1>2, <1>12, <1>13, <1>14 DEF WriterNext

(***************************************************************************)
(* With one writer at a time the keyring and the sidecars implement the    *)
(* registry: between any two of their steps, after any crash, refused      *)
(* keyring call or wiped slot, a reader sees whole agents that appear      *)
(* once, never change, and can only lose their key.                        *)
(***************************************************************************)
THEOREM StoreImplementsRegistry == WriterSpec => IsRegistry
BY RegistryInit, RegistryStep, WriterInvariant, PTL DEF WriterSpec, IsRegistry, Registry!Spec

-----------------------------------------------------------------------------
(* What callers have in hand. *)

\* What a caller has in hand was found under a path, and an idle one has
\* nothing in its frame.
ViewsInv ==
    \A p \in Procs :
        /\ At(p, "idle") => frame[p] = Idle
        /\ At(p, "probe") => PathOf[frame[p].seen.name] \in Paths
        /\ handle[p] # None => PathOf[handle[p].name] \in Paths

Alone == \A p, r \in Procs : ~ At(p, "idle") /\ ~ At(r, "idle") => p = r

\* What load() read is still there when it probes the slot.
SeenIsCurrent ==
    \A p \in Procs : At(p, "probe") =>
        Readable(Path(p)) /\ frame[p].seen = content[meta[Path(p)]]

SerialInv == WriterInv /\ ViewsInv /\ Alone /\ SeenIsCurrent

\* What a step of p has to show; the others keep what they have.
LEMMA ViewsStep ==
    ASSUME ViewsInv, NEW p \in Procs,
           \A x \in Procs \ {p} : frame'[x] = frame[x] /\ handle'[x] = handle[x],
           frame'[p].pc = "idle" => frame'[p] = Idle,
           frame'[p].pc = "probe" => PathOf[frame'[p].seen.name] \in Paths,
           handle'[p] # None => PathOf[handle'[p].name] \in Paths
    PROVE  ViewsInv'
BY DEF ViewsInv, At

\* Steps that end a call or go on in it, and hand out nothing.
LEMMA PlainStep ==
    ASSUME WriterInv, ViewsInv, NEW p \in Procs, UNCHANGED handle,
           \/ \E r \in Results : Return(p, r)
           \/ \E l \in Steps \ {"idle", "probe"} : Goto(p, l)
           \/ /\ frame'[p].pc \notin {"idle", "probe"}
              /\ \A x \in Procs \ {p} : frame'[x] = frame[x]
    PROVE  ViewsInv'
<1>1. TypeInv
  BY DEF WriterInv, KeyInv
<1>2. /\ \A x \in Procs \ {p} : frame'[x] = frame[x]
      /\ frame'[p].pc = "idle" => frame'[p] = Idle
      /\ frame'[p].pc # "probe"
  <2>1. CASE \E r \in Results : Return(p, r)
    BY <1>1, <2>1, ReturnFrames
  <2>2. CASE \E l \in Steps \ {"idle", "probe"} : Goto(p, l)
    BY <1>1, <2>2, GotoFrames
  <2> QED BY <2>1, <2>2
<1>3. handle[p] # None => PathOf[handle[p].name] \in Paths
  BY DEF ViewsInv
<1> QED BY <1>2, <1>3, ViewsStep

LEMMA StartViews ==
    ASSUME WriterInv, ViewsInv, NEW p \in Procs, StartCall(p)
    PROVE  ViewsInv'
<1>1. TypeInv
  BY DEF WriterInv, KeyInv
<1>2. UNCHANGED handle
  BY DEF StartCall, StartNamed, Begin, Refuse, BeginList, Sign, viewVars
<1>3. ASSUME NEW c \in CallNames, NEW n \in Names, NEW o \in Ops \cup {None}, Begin(p, c, n, o)
      PROVE  ViewsInv'
  <2>1. c \in {"load", "load_or_create", "create", "delete"}
    BY <1>3 DEF Begin
  <2>2. FirstStep(c) \in {"exists", "check", "drop"}
    BY <2>1 DEF FirstStep
  <2>3. frame'[p].pc = FirstStep(c) /\ \A x \in Procs \ {p} : frame'[x] = frame[x]
    BY <1>1, <1>3 DEF Begin, TypeInv, TypeOK, Idle
  <2> QED BY <1>2, <2>2, <2>3, PlainStep
<1>4. CASE \E c \in CallNames, n \in Names : Refuse(p, c, n)
  BY <1>2, <1>4, PlainStep DEF Refuse, Results
<1>5. CASE BeginList(p)
  <2>1. frame'[p].pc = "scan" /\ \A x \in Procs \ {p} : frame'[x] = frame[x]
    BY <1>1, <1>5 DEF BeginList, TypeInv, TypeOK, Idle
  <2> QED BY <1>2, <2>1, PlainStep
<1>6. CASE Sign(p)
  <2>1. \E r \in Results : Return(p, r)
    BY <1>6 DEF Sign, PrivateKey, Results
  <2> QED BY <1>2, <2>1, PlainStep
<1> QED BY <1>3, <1>4, <1>5, <1>6 DEF StartCall, StartNamed

LEMMA LoadViews ==
    ASSUME WriterInv, ViewsInv, NEW p \in Procs,
           LoadExists(p) \/ LoadReadText(p) \/ LoadProbe(p) \/ ListNext(p)
    PROVE  ViewsInv'
<1>1. TypeInv /\ frame[p] \in Frames /\ (handle[p] # None => PathOf[handle[p].name] \in Paths)
  BY DEF WriterInv, KeyInv, TypeInv, TypeOK, ViewsInv
<1>2. ASSUME LoadRaises(p) PROVE ViewsInv'
  BY <1>2, PlainStep DEF LoadRaises, viewVars, Steps, Results
<1>3. ASSUME LoadReturnsNone(p) PROVE ViewsInv'
  BY <1>3, PlainStep DEF LoadReturnsNone, viewVars, Steps, Results
<1>4. CASE LoadExists(p)
  <2>1. CASE Goto(p, "read") /\ UNCHANGED viewVars
    BY <2>1, PlainStep DEF viewVars, Steps
  <2> QED BY <1>3, <1>4, <2>1 DEF LoadExists
<1>5. CASE LoadReadText(p)
  <2>1. ASSUME Readable(Path(p)), UNCHANGED viewVars,
               frame' = [frame EXCEPT ![p].pc = "probe", ![p].seen = content[meta[Path(p)]]]
        PROVE  ViewsInv'
    <3>1. /\ frame'[p].pc = "probe" /\ frame'[p].seen = content[meta[Path(p)]]
          /\ \A x \in Procs \ {p} : frame'[x] = frame[x]
      BY <1>1, <2>1 DEF TypeInv, TypeOK, Frames
    <3>2. Path(p) \in Paths
      BY <1>1, <1>5 DEF LoadReadText, At, TypeInv, LocalsSet, NamedSteps, Steps, Path
    <3>3. PathOf[content[meta[Path(p)]].name] = Path(p)
      BY <2>1, <3>2 DEF WriterInv, StoresAgree, SidecarWhole, Readable
    <3> QED BY <1>1, <2>1, <3>1, <3>2, <3>3, ViewsStep DEF viewVars
  <2> QED BY <1>2, <1>5, <2>1 DEF LoadReadText
<1>6. CASE LoadProbe(p)
  <2>1. CASE LoadReturns(p, frame[p].seen)
    <3>1. PathOf[frame[p].seen.name] \in Paths
      BY <1>6 DEF LoadProbe, ViewsInv
    <3>2. CASE UNCHANGED handle
      BY <2>1, <3>2, PlainStep DEF LoadReturns, Steps, Results
    <3>3. CASE Return(p, "ok") /\ handle' = [handle EXCEPT ![p] = frame[p].seen]
      <4>1. handle'[p] = frame[p].seen /\ \A x \in Procs \ {p} : handle'[x] = handle[x]
        BY <1>1, <3>3 DEF TypeInv, TypeOK
      <4> QED BY <1>1, <3>1, <3>3, <4>1, ReturnFrames, ViewsStep
    <3> QED BY <2>1, <3>2, <3>3 DEF LoadReturns, viewVars
  <2> QED BY <1>2, <1>3, <1>6, <2>1 DEF LoadProbe
<1>7. CASE ListNext(p)
  <2>1. UNCHANGED handle
    BY <1>7 DEF ListNext, viewVars
  <2>2. ASSUME NEW q \in frame[p].todo,
               frame' = [frame EXCEPT ![p].pc = "exists", ![p].name = StemOf[q], ![p].todo = @ \ {q}]
        PROVE  ViewsInv'
    <3>1. frame'[p].pc = "exists" /\ \A x \in Procs \ {p} : frame'[x] = frame[x]
      BY <1>1, <2>2 DEF TypeInv, TypeOK, Frames
    <3> QED BY <2>1, <3>1, PlainStep
  <2>3. CASE Return(p, "ok")
    BY <2>1, <2>3, PlainStep DEF Results
  <2> QED BY <1>7, <2>2, <2>3 DEF ListNext
<1> QED BY <1>4, <1>5, <1>6, <1>7

LEMMA CreateViews ==
    ASSUME WriterInv, ViewsInv, NEW p \in Procs,
           \/ CreateCheck(p) \/ CreateSetPassword(p) \/ CreateOpenTmp(p)
           \/ CreateWriteTmp(p) \/ CreateRename(p)
    PROVE  ViewsInv'
<1>1. TypeInv /\ frame[p] \in Frames /\ (handle[p] # None => PathOf[handle[p].name] \in Paths)
  BY DEF WriterInv, KeyInv, TypeInv, TypeOK, ViewsInv
<1>2. CASE CreateCheck(p)
  <2>1. UNCHANGED handle
    BY <1>2 DEF CreateCheck, viewVars
  <2>2. ASSUME NEW k, frame' = [frame EXCEPT ![p].pc = "store", ![p].key = k] PROVE ViewsInv'
    <3>1. frame'[p].pc = "store" /\ \A x \in Procs \ {p} : frame'[x] = frame[x]
      BY <1>1, <2>2 DEF TypeInv, TypeOK, Frames
    <3> QED BY <2>1, <3>1, PlainStep
  <2> QED BY <1>2, <2>1, <2>2, PlainStep DEF CreateCheck, Results
<1>3. CASE CreateSetPassword(p)
  BY <1>3, PlainStep DEF CreateSetPassword, viewVars, Steps, Results
<1>4. CASE CreateOpenTmp(p)
  <2>1. frame'[p].pc = "write" /\ \A x \in Procs \ {p} : frame'[x] = frame[x]
    BY <1>1, <1>4 DEF CreateOpenTmp, TypeInv, TypeOK, Frames
  <2> QED BY <1>4, <2>1, PlainStep DEF CreateOpenTmp, viewVars
<1>5. CASE CreateWriteTmp(p)
  BY <1>5, PlainStep DEF CreateWriteTmp, viewVars, Steps
<1>6. CASE CreateRename(p)
  <2>1. tmp[Path(p)] # None /\ Return(p, "ok")
    BY <1>6, RenamePublishes, MarksAssumption
  <2>2. handle' = [handle EXCEPT ![p] = NewAgent(p)]
    BY <1>6, <2>1 DEF CreateRename
  <2>3. PathOf[NewAgent(p).name] \in Paths
    BY <1>6, RenamePublishes, CreateLocals DEF CreateSteps, KeyedSteps, NewAgent
  <2>4. handle'[p] = NewAgent(p) /\ \A x \in Procs \ {p} : handle'[x] = handle[x]
    BY <1>1, <2>2 DEF TypeInv, TypeOK
  <2> QED BY <1>1, <2>1, <2>3, <2>4, ReturnFrames, ViewsStep
<1> QED BY <1>2, <1>3, <1>4, <1>5, <1>6

LEMMA DeleteViews ==
    ASSUME WriterInv, ViewsInv, NEW p \in Procs,
           DeletePassword(p) \/ DeleteExists(p) \/ DeleteUnlink(p)
    PROVE  ViewsInv'
<1>1. UNCHANGED handle
  BY DEF DeletePassword, DeleteExists, DeleteUnlink, viewVars
<1>2. CASE DeletePassword(p)
  <2>1. frame'[p].pc = "absent" /\ \A x \in Procs \ {p} : frame'[x] = frame[x]
    BY <1>2 DEF DeletePassword, WriterInv, KeyInv, TypeInv, TypeOK, Frames
  <2> QED BY <1>1, <2>1, PlainStep
<1>3. CASE DeleteExists(p) \/ DeleteUnlink(p)
  BY <1>1, <1>3, PlainStep DEF DeleteExists, DeleteUnlink, Steps, Results
<1> QED BY <1>2, <1>3

LEMMA NextViews == WriterInv /\ ViewsInv /\ [WriterNext]_vars => ViewsInv'
<1> SUFFICES ASSUME WriterInv, ViewsInv, [WriterNext]_vars PROVE ViewsInv'
  OBVIOUS
<1>1. ASSUME NEW p \in Procs, StartAsWriter(p) \/ BeginList(p) \/ Sign(p) PROVE ViewsInv'
  BY <1>1, StartViews DEF StartAsWriter, StartCall
<1>2. ASSUME NEW p \in Procs, ContinueCall(p) PROVE ViewsInv'
  BY <1>2, LoadViews, CreateViews, DeleteViews DEF ContinueCall
<1>3. ASSUME NEW p \in Procs, Crash(p) PROVE ViewsInv'
  <2>1. TypeInv
    BY DEF WriterInv, KeyInv
  <2>2. handle'[p] = None /\ \A x \in Procs \ {p} : handle'[x] = handle[x]
    BY <1>3, <2>1 DEF Crash, TypeInv, TypeOK
  <2>3. Return(p, "crashed")
    BY <1>3 DEF Crash
  <2> QED BY <2>1, <2>2, <2>3, ReturnFrames, ViewsStep
<1>4. CASE UNCHANGED <<frame, handle>>
  BY <1>4 DEF ViewsInv, At
<1>5. ASSUME NEW n \in Names, WipeSlot(n) PROVE UNCHANGED <<frame, handle>>
  BY <1>5 DEF WipeSlot, viewVars
<1>6. CASE UNCHANGED vars
  BY <1>4, <1>6 DEF vars, viewVars
<1> QED BY <1>1, <1>2, <1>3, <1>4, <1>5, <1>6 DEF WriterNext, Environment

LEMMA InitViews == Init => ViewsInv /\ Alone /\ SeenIsCurrent
BY DEF Init, ViewsInv, Alone, SeenIsCurrent, At, Idle

LEMMA ViewsInvariant == WriterSpec => []ViewsInv
<1>1. Init => ViewsInv
  BY InitViews
<1> QED BY <1>1, NextViews, WriterInvariant, PTL DEF WriterSpec

\* Only sign() calls a signature invalid.
LEMMA InvalidIsSigned ==
    ASSUME WriterInv, [WriterNext]_vars, NEW x \in Procs,
           result'[x] = "invalid", result[x] # "invalid"
    PROVE  Sign(x)
<1>1. TypeInv
  BY DEF WriterInv, KeyInv
<1>2. ASSUME NEW p \in Procs, NEW r \in Results \ {"invalid"}, Return(p, r) PROVE FALSE
  BY <1>1, <1>2 DEF Return, TypeInv, TypeOK
<1>3. ASSUME UNCHANGED result PROVE FALSE
  BY <1>3
<1> USE DEF Results, Goto
<1>4. ASSUME NEW p \in Procs, StartAsWriter(p) \/ BeginList(p) \/ Sign(p) PROVE Sign(x)
  <2>1. CASE Sign(p)
    <3>1. PICK r \in Results : Return(p, r)
      BY <2>1 DEF Sign, PrivateKey
    <3> QED BY <1>1, <2>1, <3>1 DEF Return, TypeInv, TypeOK
  <2> QED BY <1>2, <1>3, <1>4, <2>1 DEF StartAsWriter, StartNamed, Begin, Refuse, BeginList
<1>5. ASSUME NEW p \in Procs, LoadExists(p) \/ LoadReadText(p) \/ LoadProbe(p) \/ ListNext(p) PROVE FALSE
  <2>1. ~ LoadRaises(p) /\ ~ LoadReturnsNone(p) /\ ~ LoadReturns(p, frame[p].seen)
    BY <1>2, <1>3 DEF LoadRaises, LoadReturnsNone, LoadReturns
  <2> QED BY <1>2, <1>3, <1>5, <2>1 DEF LoadExists, LoadReadText, LoadProbe, ListNext
<1>6. ASSUME NEW p \in Procs,
             \/ CreateCheck(p) \/ CreateSetPassword(p) \/ CreateOpenTmp(p)
             \/ CreateWriteTmp(p) \/ CreateRename(p)
      PROVE  FALSE
  BY <1>2, <1>3, <1>6 DEF CreateCheck, CreateSetPassword, CreateOpenTmp, CreateWriteTmp, CreateRename
<1>7. ASSUME NEW p \in Procs, DeletePassword(p) \/ DeleteExists(p) \/ DeleteUnlink(p) PROVE FALSE
  BY <1>2, <1>3, <1>7 DEF DeletePassword, DeleteExists, DeleteUnlink
<1>8. CASE Environment
  BY <1>2, <1>3, <1>8 DEF Environment, Crash, WipeSlot
<1>9. CASE UNCHANGED vars
  BY <1>3, <1>9 DEF vars
<1> QED BY <1>4, <1>5, <1>6, <1>7, <1>8, <1>9 DEF WriterNext, ContinueCall

(***************************************************************************)
(* With one writer at a time, Agent.sign signs wrongly only for an agent   *)
(* that was deleted: as long as the sidecar is the one the handle was made *)
(* from, the slot of its name holds its key or none.                       *)
(***************************************************************************)
THEOREM SignaturesAreTheAgents == WriterSpec => SignaturesVerify
<1>1. WriterInv /\ ViewsInv /\ [WriterNext]_vars =>
          [\A p \in Procs :
             result'[p] = "invalid" /\ result[p] # "invalid" =>
                 Registered(PathOf[handle[p].name]) # handle[p]]_result
  <2> SUFFICES ASSUME WriterInv, ViewsInv, [WriterNext]_vars, NEW p \in Procs,
                      result'[p] = "invalid", result[p] # "invalid",
                      Registered(PathOf[handle[p].name]) = handle[p]
               PROVE  FALSE
    OBVIOUS
  <2>1. Sign(p)
    BY InvalidIsSigned
  <2>2. handle[p] # None /\ slot[handle[p].name] # None /\ slot[handle[p].name] # handle[p].key
    BY <2>1 DEF Sign, PrivateKey, Return, WriterInv, KeyInv, TypeInv, TypeOK
  <2>3. PICK q \in Paths : q = PathOf[handle[p].name]
    BY <2>2 DEF ViewsInv
  <2>4. Readable(q) /\ content[meta[q]] = handle[p]
    BY <2>2, <2>3 DEF Registered
  <2> QED BY <2>2, <2>4 DEF WriterInv, StoresAgree, DidMatchesKey
<1> QED BY <1>1, WriterInvariant, ViewsInvariant, PTL DEF WriterSpec, SignaturesVerify

-----------------------------------------------------------------------------
(* No two calls of the module overlap. *)

LEMMA SerialIsWriter == SerialInv /\ [SerialNext]_vars => [WriterNext]_vars
<1> SUFFICES ASSUME SerialInv, [SerialNext]_vars PROVE [WriterNext]_vars
  OBVIOUS
<1>1. ASSUME NEW p \in Procs, StartAlone(p) PROVE StartAsWriter(p) \/ BeginList(p)
  BY <1>1, IdleIsNotWriting DEF StartAlone, StartAsWriter, SerialInv, ViewsInv, Writing
<1> QED BY <1>1 DEF SerialNext, WriterNext

\* A step of p leaves the other callers where they are, and leads to the probe
\* only from the read.
LEMMA OneCallerMoves ==
    ASSUME TypeInv, NEW p \in Procs, StartCall(p) \/ ContinueCall(p) \/ Crash(p)
    PROVE  /\ \A x \in Procs \ {p} : frame'[x] = frame[x]
           /\ frame'[p].pc = "probe" => LoadReadText(p)
<1> DEFINE Goal == /\ \A x \in Procs \ {p} : frame'[x] = frame[x]
                   /\ frame'[p].pc = "probe" => LoadReadText(p)
<1>1. ASSUME NEW r, Return(p, r) PROVE Goal
  BY <1>1, ReturnFrames
<1>2. ASSUME NEW l, Goto(p, l), l # "probe" PROVE Goal
  BY <1>2, GotoFrames
<1>3. frame[p] \in Frames
  BY DEF TypeInv, TypeOK
<1>4. CASE StartCall(p)
  <2>1. ASSUME NEW c \in CallNames, NEW n \in Names, NEW o \in Ops \cup {None}, Begin(p, c, n, o)
        PROVE  Goal
    <3>1. c \in {"load", "load_or_create", "create", "delete"}
      BY <2>1 DEF Begin
    <3>2. FirstStep(c) # "probe"
      BY <3>1 DEF FirstStep
    <3>3. frame'[p].pc = FirstStep(c) /\ \A x \in Procs \ {p} : frame'[x] = frame[x]
      BY <2>1 DEF Begin, TypeInv, TypeOK, Idle
    <3> QED BY <3>2, <3>3
  <2>2. CASE BeginList(p)
    BY <2>2 DEF BeginList, TypeInv, TypeOK, Idle
  <2>3. CASE Sign(p)
    BY <1>1, <2>3 DEF Sign
  <2>4. CASE \E c \in CallNames, n \in Names : Refuse(p, c, n)
    BY <1>1, <2>4 DEF Refuse
  <2> QED BY <1>4, <2>1, <2>2, <2>3, <2>4 DEF StartCall, StartNamed
<1>5. CASE LoadExists(p) \/ LoadProbe(p)
  BY <1>1, <1>2, <1>5 DEF LoadExists, LoadProbe, LoadRaises, LoadReturnsNone, LoadReturns
<1>6. CASE LoadReadText(p)
  <2>1. CASE LoadRaises(p)
    BY <1>1, <1>2, <2>1 DEF LoadRaises
  <2>2. CASE frame' = [frame EXCEPT ![p].pc = "probe", ![p].seen = content[meta[Path(p)]]]
    BY <1>6, <2>2 DEF TypeInv, TypeOK
  <2> QED BY <1>6, <2>1, <2>2 DEF LoadReadText
<1>7. CASE ListNext(p)
  <2>1. ASSUME NEW q \in frame[p].todo,
               frame' = [frame EXCEPT ![p].pc = "exists", ![p].name = StemOf[q], ![p].todo = @ \ {q}]
        PROVE  Goal
    BY <1>3, <2>1 DEF TypeInv, TypeOK, Frames
  <2> QED BY <1>1, <1>7, <2>1 DEF ListNext
<1>8. CASE CreateCheck(p)
  <2>1. ASSUME NEW k, frame' = [frame EXCEPT ![p].pc = "store", ![p].key = k] PROVE Goal
    BY <1>3, <2>1 DEF TypeInv, TypeOK, Frames
  <2> QED BY <1>1, <1>8, <2>1 DEF CreateCheck
<1>9. CASE CreateOpenTmp(p)
  BY <1>3, <1>9 DEF CreateOpenTmp, TypeInv, TypeOK, Frames
<1>10. CASE CreateSetPassword(p) \/ CreateWriteTmp(p) \/ CreateRename(p)
  BY <1>1, <1>2, <1>10 DEF CreateSetPassword, CreateWriteTmp, CreateRename
<1>11. CASE DeletePassword(p)
  BY <1>3, <1>11 DEF DeletePassword, TypeInv, TypeOK, Frames
<1>12. CASE DeleteExists(p) \/ DeleteUnlink(p)
  BY <1>1, <1>2, <1>12 DEF DeleteExists, DeleteUnlink
<1>13. CASE Crash(p)
  BY <1>1, <1>13 DEF Crash
<1> QED BY <1>4, <1>5, <1>6, <1>7, <1>8, <1>9, <1>10, <1>11, <1>12, <1>13 DEF ContinueCall

LEMMA NextSerialInv == SerialInv /\ [SerialNext]_vars => SerialInv'
<1> SUFFICES ASSUME SerialInv, [SerialNext]_vars PROVE SerialInv'
  OBVIOUS
<1>1. WriterInv' /\ ViewsInv'
  BY SerialIsWriter, NextWriterInv, NextViews DEF SerialInv
<1>2. TypeInv
  BY DEF SerialInv, WriterInv, KeyInv
\* Whoever moves in a call, the others are idle and stay so.
<1>3. ASSUME NEW p \in Procs, StartAlone(p) \/ ContinueCall(p) \/ Crash(p)
      PROVE  Alone' /\ SeenIsCurrent'
  <2>1. \A x \in Procs \ {p} : At(x, "idle")
    <3>1. CASE StartAlone(p)
      BY <3>1 DEF StartAlone
    <3>2. CASE ContinueCall(p) \/ Crash(p)
      <4>1. ~ At(p, "idle")
        BY <3>2 DEF ContinueCall, Crash, LoadExists, LoadReadText, LoadProbe, ListNext, CreateCheck,
           CreateSetPassword, CreateOpenTmp, CreateWriteTmp, CreateRename, DeletePassword,
           DeleteExists, DeleteUnlink, At
      <4> QED BY <4>1 DEF SerialInv, Alone
    <3> QED BY <1>3, <3>1, <3>2
  <2>2. /\ \A x \in Procs \ {p} : frame'[x] = frame[x]
        /\ frame'[p].pc = "probe" => LoadReadText(p)
    BY <1>2, <1>3, OneCallerMoves DEF StartAlone, StartCall
  <2>3. \A x \in Procs \ {p} : frame'[x].pc = "idle"
    BY <2>1, <2>2 DEF At
  <2>4. Alone'
    BY <2>3 DEF Alone, At
  <2>5. ASSUME frame'[p].pc = "probe"
        PROVE  (Readable(Path(p)) /\ frame[p].seen = content[meta[Path(p)]])'
    <3>1. LoadReadText(p)
      BY <2>2, <2>5
    <3>2. ~ LoadRaises(p)
      <4>1. ASSUME NEW r, Return(p, r) PROVE FALSE
        BY <1>2, <2>5, <4>1, ReturnFrames
      <4>2. ASSUME Goto(p, "scan") PROVE FALSE
        <5>1. frame'[p].pc = "scan"
          BY <1>2, <4>2, GotoFrames
        <5> QED BY <2>5, <5>1
      <4> QED BY <4>1, <4>2 DEF LoadRaises
    <3>3. /\ Readable(Path(p)) /\ UNCHANGED storeVars
          /\ frame' = [frame EXCEPT ![p].pc = "probe", ![p].seen = content[meta[Path(p)]]]
      BY <3>1, <3>2 DEF LoadReadText
    <3>4. frame'[p].seen = content[meta[Path(p)]] /\ frame'[p].name = frame[p].name
      BY <1>2, <3>3 DEF TypeInv, TypeOK, Frames
    <3>5. Path(p)' = Path(p)
      BY <3>4 DEF Path
    <3> QED BY <3>3, <3>4, <3>5 DEF Readable, storeVars
  <2>6. SeenIsCurrent'
    BY <2>3, <2>5 DEF SeenIsCurrent, At
  <2> QED BY <2>4, <2>6
<1>4. ASSUME UNCHANGED <<frame, meta, content>> PROVE Alone' /\ SeenIsCurrent'
  BY <1>4 DEF SerialInv, Alone, SeenIsCurrent, At, Readable, Path
<1>5. CASE \E n \in Names : WipeSlot(n)
  BY <1>1, <1>4, <1>5 DEF WipeSlot, SerialInv
<1>6. CASE UNCHANGED vars
  BY <1>1, <1>4, <1>6 DEF vars, storeVars, SerialInv
<1>7. ASSUME NEW p \in Procs, Sign(p) PROVE Alone' /\ SeenIsCurrent'
  <2>1. frame[p] = Idle
    BY <1>7 DEF Sign, SerialInv, ViewsInv
  <2>2. frame' = frame
    BY <1>2, <1>7, <2>1 DEF Sign, Return, TypeInv, TypeOK
  <2> QED BY <1>4, <1>7, <2>2 DEF Sign, storeVars
<1> QED BY <1>1, <1>3, <1>5, <1>6, <1>7 DEF SerialNext, Environment, SerialInv

LEMMA SerialInvariant == SerialSpec => []SerialInv
<1>1. Init => SerialInv
  BY InitWriterInv, InitViews DEF SerialInv
<1> QED BY <1>1, NextSerialInv, PTL DEF SerialSpec

\* An agent that is new in shown was found by the probe.
LEMMA NewlyShown ==
    ASSUME SerialInv, [SerialNext]_vars, NEW x \in Procs, NEW a \in shown'[x] \ shown[x]
    PROVE  At(x, "probe") /\ a = frame[x].seen /\ slot[frame[x].seen.name] # None
<1>1. shown \in [Procs -> SUBSET Agents]
  BY DEF SerialInv, WriterInv, KeyInv, TypeInv, TypeOK
<1>2. ~ UNCHANGED shown
  OBVIOUS
<1>3. ASSUME NEW p \in Procs, shown' = [shown EXCEPT ![p] = {}] PROVE FALSE
  BY <1>1, <1>3
<1>4. ASSUME NEW p \in Procs, LoadReturns(p, frame[p].seen)
      PROVE  x = p /\ a = frame[p].seen
  <2>1. CASE shown' = [shown EXCEPT ![p] = @ \cup {frame[p].seen}]
    BY <1>1, <2>1
  <2>2. CASE shown' = [shown EXCEPT ![p] = {frame[p].seen}]
    BY <1>1, <2>2
  <2> QED BY <1>2, <1>4, <2>1, <2>2 DEF LoadReturns, viewVars
<1>5. ASSUME NEW p \in Procs, LoadRaises(p) \/ LoadReturnsNone(p) PROVE FALSE
  BY <1>2, <1>3, <1>5 DEF LoadRaises, LoadReturnsNone, viewVars
<1>6. ASSUME NEW p \in Procs, StartCall(p) PROVE FALSE
  <2>1. ASSUME NEW c, NEW n, NEW o, Begin(p, c, n, o) PROVE FALSE
    BY <1>2, <2>1 DEF Begin, viewVars
  <2>2. ASSUME NEW c, NEW n, Refuse(p, c, n) PROVE FALSE
    BY <1>2, <2>2 DEF Refuse, viewVars
  <2>3. ~ BeginList(p)
    BY <1>3 DEF BeginList
  <2>4. ~ Sign(p)
    BY <1>2 DEF Sign, viewVars
  <2> QED BY <1>6, <2>1, <2>2, <2>3, <2>4 DEF StartCall, StartNamed
<1>7. ASSUME NEW p \in Procs, ContinueCall(p) PROVE LoadProbe(p)
  <2>1. ~ LoadExists(p) /\ ~ LoadReadText(p) /\ ~ ListNext(p)
    BY <1>2, <1>5 DEF LoadExists, LoadReadText, ListNext, viewVars
  <2>2. /\ ~ CreateCheck(p) /\ ~ CreateSetPassword(p) /\ ~ CreateOpenTmp(p)
        /\ ~ CreateWriteTmp(p) /\ ~ CreateRename(p)
    BY <1>2 DEF CreateCheck, CreateSetPassword, CreateOpenTmp, CreateWriteTmp, CreateRename, viewVars
  <2>3. ~ DeletePassword(p) /\ ~ DeleteExists(p) /\ ~ DeleteUnlink(p)
    BY <1>2 DEF DeletePassword, DeleteExists, DeleteUnlink, viewVars
  <2> QED BY <1>7, <2>1, <2>2, <2>3 DEF ContinueCall
<1>8. ASSUME NEW p \in Procs, LoadProbe(p)
      PROVE  x = p /\ a = frame[p].seen /\ At(p, "probe") /\ slot[frame[p].seen.name] # None
  BY <1>4, <1>5, <1>8 DEF LoadProbe
<1>9. ~ Environment /\ ~ UNCHANGED vars
  BY <1>2, <1>3 DEF Environment, Crash, WipeSlot, vars, viewVars
<1>10. PICK p \in Procs : StartAlone(p) \/ Sign(p) \/ ContinueCall(p)
  BY <1>9 DEF SerialNext
<1> QED BY <1>6, <1>7, <1>8, <1>10 DEF StartAlone, StartCall

(***************************************************************************)
(* When no two calls overlap, whatever crashed, was refused or was wiped   *)
(* before, load and list_agents hand out only agents that can sign: the    *)
(* sidecar they read is still there at the probe, and the key in the slot  *)
(* is its own, although only its presence is checked.                      *)
(***************************************************************************)
THEOREM ShownAgentsSign == SerialSpec => ShownAgentsCanSign
<1>1. SerialInv /\ [SerialNext]_vars =>
          [\A p \in Procs : \A a \in shown'[p] \ shown[p] : slot[a.name] = a.key]_shown
  <2> SUFFICES ASSUME SerialInv, [SerialNext]_vars, NEW p \in Procs, NEW a \in shown'[p] \ shown[p]
               PROVE  slot[a.name] = a.key
    OBVIOUS
  <2>1. At(p, "probe") /\ a = frame[p].seen /\ slot[a.name] # None
    BY NewlyShown
  <2>2. Readable(Path(p)) /\ a = content[meta[Path(p)]]
    BY <2>1 DEF SerialInv, SeenIsCurrent
  <2>3. Path(p) \in Paths
    BY <2>1 DEF SerialInv, WriterInv, KeyInv, TypeInv, LocalsSet, NamedSteps, Steps, At, Path
  <2> QED BY <2>1, <2>2, <2>3 DEF SerialInv, WriterInv, StoresAgree, DidMatchesKey
<1> QED BY <1>1, SerialInvariant, PTL DEF SerialSpec, ShownAgentsCanSign
=============================================================================
