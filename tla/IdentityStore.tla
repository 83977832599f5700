--------------------------- MODULE IdentityStore ---------------------------
(***************************************************************************)
(* Identity persistence of the Python SDK (sdk/aiegis_agent/_storage.py)   *)
(* and the Agent handle built on it (sdk.py, __main__.py).                 *)
(*                                                                         *)
(* An agent is split over two stores that no transaction joins: the OS     *)
(* keyring holds the private key in the slot agent:<name>, and a JSON      *)
(* sidecar holds the DID, the public key and the operator.  Processes and  *)
(* threads call the module without any lock, so every access to either     *)
(* store is one step here, and steps of different callers interleave.  A   *)
(* process may crash between two steps, the keyring backend may refuse a   *)
(* call, and the user may wipe the keychain.                               *)
(*                                                                         *)
(* Data kept abstract: an Ed25519 key pair, its public half and the DID    *)
(* derived from it are one member of Keys; created_at, file modes and the  *)
(* JSON text are left out.  The sidecar is a file (an inode) that a path   *)
(* names: a writer keeps its descriptor after a rename, so what it writes  *)
(* can land in a file that is already published.  The file that a create   *)
(* brings into being is named by the key of that create.                   *)
(***************************************************************************)
EXTENDS Integers, FiniteSets

CONSTANTS
    Procs,      \* callers: processes or threads of one user account
    Names,      \* agent names passed to the module
    Plain,      \* the names create_agent accepts: not empty, no "/", no leading "."
    Paths,      \* sanitised names, each standing for <path>.json and <path>.json.tmp
    PathOf,     \* [Names -> Paths \cup {None}], None where _metadata_path raises
    StemOf,     \* [Paths -> Names], the name list_agents reads off a file name
    Keys,       \* key pairs that generate_keypair may return
    Ops,        \* operator ids
    Calls,      \* the entry points the callers use in this instance
    Faults,     \* the faults that happen in this instance
    None,       \* Python's None: no key, no file, no operator, no agent
    Empty,      \* content of a file that was opened for writing and not written
    Torn        \* content of a file whose text is not JSON

CallNames  == {"load", "load_or_create", "create", "delete", "list_agents", "sign"}
FaultNames == {"crash", "backend", "wipe"}

ASSUME NamesAssumption ==
    /\ Plain \subseteq Names
    /\ PathOf \in [Names -> Paths \cup {None}]
    /\ StemOf \in [Paths -> Names]
    /\ \A q \in Paths : PathOf[StemOf[q]] = q

\* A directory lists finitely many files.
ASSUME PathsAssumption == IsFiniteSet(Paths)

ASSUME KeysAssumption == IsFiniteSet(Keys)

ASSUME ScopeAssumption ==
    /\ Calls \subseteq CallNames
    /\ Faults \subseteq FaultNames

\* What a sidecar holds, and what load() returns: StoredAgent.  keyring_user
\* is the slot of "name", did and public_key_hex are those of "key".
Agents == [name : Names, key : Keys, op : Ops \cup {None}]

ASSUME MarksAssumption ==
    /\ None \notin Keys \cup Names \cup Paths \cup Ops \cup Agents \cup CallNames
    /\ {Empty, Torn} \cap (Agents \cup {None}) = {}
    /\ Empty # Torn

VARIABLES
    slot,       \* keyring: the private key in slot agent:<name>, or None
    meta,       \* the file <path>.json, or None
    tmp,        \* the file <path>.json.tmp, or None
    content,    \* what each file holds
    minted,     \* keys generate_keypair has returned
    stored,     \* history: keys the keyring has ever accepted
    published,  \* history: keys whose DID a rename has made visible
    frame,      \* the call each caller is in, with its local variables
    handle,     \* the Agent each caller holds
    shown,      \* the StoredAgents its last load or list_agents returned
    result      \* how its last call ended

storeVars == <<slot, meta, tmp, content>>
keyVars   == <<minted, stored, published>>
viewVars  == <<handle, shown>>
vars      == <<storeVars, keyVars, frame, viewVars, result>>

Steps == {"idle", "exists", "read", "probe", "check", "store", "open", "write",
          "rename", "drop", "absent", "unlink", "scan"}

Frames == [pc : Steps, call : CallNames \cup {None}, name : Names \cup {None},
           op : Ops \cup {None}, key : Keys \cup {None}, fd : Keys \cup {None},
           seen : Agents \cup {None}, todo : SUBSET Paths, deleted : BOOLEAN]

Idle == [pc |-> "idle", call |-> None, name |-> None, op |-> None, key |-> None,
         fd |-> None, seen |-> None, todo |-> {}, deleted |-> FALSE]

\* "valid" and "invalid" are the two ends of sign: whether the signature
\* verifies under the DID of the handle it was asked of.
Results == {"new", "ok", "none", "true", "false", "valid", "invalid",
            "IdentityError", "OSError", "crashed"}

Contents == Agents \cup {None, Empty, Torn}

(***************************************************************************)
(* The type invariant: every store, file, frame and result has its shape.  *)
(***************************************************************************)
TypeOK ==
    /\ slot \in [Names -> Keys \cup {None}]
    /\ meta \in [Paths -> Keys \cup {None}]
    /\ tmp \in [Paths -> Keys \cup {None}]
    /\ content \in [Keys -> Contents]
    /\ minted \subseteq Keys
    /\ stored \subseteq Keys
    /\ published \subseteq Keys
    /\ frame \in [Procs -> Frames]
    /\ handle \in [Procs -> Agents \cup {None}]
    /\ shown \in [Procs -> SUBSET Agents]
    /\ result \in [Procs -> Results]

Init ==
    /\ slot = [n \in Names |-> None]
    /\ meta = [q \in Paths |-> None]
    /\ tmp = [q \in Paths |-> None]
    /\ content = [f \in Keys |-> None]
    /\ minted = {}
    /\ stored = {}
    /\ published = {}
    /\ frame = [p \in Procs |-> Idle]
    /\ handle = [p \in Procs |-> None]
    /\ shown = [p \in Procs |-> {}]
    /\ result = [p \in Procs |-> "new"]

-----------------------------------------------------------------------------
(* Moving a caller along. *)

At(p, l) == frame[p].pc = l

Path(p) == PathOf[frame[p].name]

Goto(p, l) ==
    /\ frame' = [frame EXCEPT ![p].pc = l]
    /\ UNCHANGED result

Return(p, r) ==
    /\ frame' = [frame EXCEPT ![p] = Idle]
    /\ result' = [result EXCEPT ![p] = r]

\* A keyring call may raise KeyringError instead of doing its work.
BackendFails == "backend" \in Faults

-----------------------------------------------------------------------------
(* Entering a call. *)

FirstStep(c) ==
    CASE c \in {"load", "load_or_create"} -> "exists"
      [] c = "create"                     -> "check"
      [] c = "delete"                     -> "drop"

\* create_agent refuses a name with "/", and _metadata_path an empty name or
\* one that starts with "."; show and delete reach _storage without the first.
Accepts(c, n) ==
    /\ PathOf[n] # None
    /\ c = "load_or_create" => n \in Plain

\* Bound: a call that may create starts only while a key is left for it.
Creating ==
    {p \in Procs : frame[p].call \in {"load_or_create", "create"} /\ frame[p].key = None}

KeyBudget(c) ==
    c \in {"load_or_create", "create"} =>
        Cardinality(Creating) < Cardinality(Keys \ minted)

Begin(p, c, n, o) ==
    /\ At(p, "idle")
    /\ c \in Calls \cap {"load", "load_or_create", "create", "delete"}
    /\ c \in {"load", "delete"} => o = None
    /\ Accepts(c, n)
    /\ KeyBudget(c)
    /\ frame' = [frame EXCEPT ![p] = [Idle EXCEPT !.pc = FirstStep(c), !.call = c,
                                                  !.name = n, !.op = o]]
    /\ UNCHANGED <<storeVars, keyVars, viewVars, result>>

Refuse(p, c, n) ==
    /\ At(p, "idle")
    /\ c \in Calls \cap {"load", "load_or_create", "create", "delete"}
    /\ ~ Accepts(c, n)
    /\ Return(p, "IdentityError")
    /\ UNCHANGED <<storeVars, keyVars, viewVars>>

\* list_agents globs the directory once, then loads every file it saw.
BeginList(p) ==
    /\ At(p, "idle")
    /\ "list_agents" \in Calls
    /\ frame' = [frame EXCEPT ![p] = [Idle EXCEPT !.pc = "scan", !.call = "list_agents",
                                          !.todo = {q \in Paths : meta[q] # None}]]
    /\ shown' = [shown EXCEPT ![p] = {}]
    /\ UNCHANGED <<storeVars, keyVars, handle, result>>

\* load_private_key looks the key up by name.
PrivateKey(a) == slot[a.name]

\* Agent.sign reads the private key at the time of the call; the DID it signs
\* for is the one the handle was built with.
Sign(p) ==
    /\ At(p, "idle")
    /\ "sign" \in Calls
    /\ handle[p] # None
    /\ \/ /\ PrivateKey(handle[p]) = None \/ BackendFails
          /\ Return(p, "IdentityError")
       \/ /\ PrivateKey(handle[p]) # None
          /\ Return(p, IF PrivateKey(handle[p]) = handle[p].key THEN "valid" ELSE "invalid")
    /\ UNCHANGED <<storeVars, keyVars, viewVars>>

-----------------------------------------------------------------------------
(* load(), on its own, inside load_or_create and inside list_agents. *)

LoadRaises(p) ==
    /\ \/ frame[p].call = "list_agents" /\ Goto(p, "scan")
       \/ frame[p].call # "list_agents" /\ Return(p, "IdentityError")
    /\ UNCHANGED viewVars

LoadReturnsNone(p) ==
    \/ /\ frame[p].call = "list_agents"
       /\ Goto(p, "scan")
       /\ UNCHANGED viewVars
    \/ /\ frame[p].call = "load"
       /\ Return(p, "none")
       /\ shown' = [shown EXCEPT ![p] = {}]
       /\ UNCHANGED handle
    \/ /\ frame[p].call = "load_or_create"
       /\ Goto(p, "check")
       /\ UNCHANGED viewVars

OperatorMismatch(p, a) == frame[p].op # None /\ frame[p].op # a.op

LoadReturns(p, a) ==
    \/ /\ frame[p].call = "list_agents"
       /\ Goto(p, "scan")
       /\ shown' = [shown EXCEPT ![p] = @ \cup {a}]
       /\ UNCHANGED handle
    \/ /\ frame[p].call = "load"
       /\ Return(p, "ok")
       /\ shown' = [shown EXCEPT ![p] = {a}]
       /\ UNCHANGED handle
    \/ /\ frame[p].call = "load_or_create"
       /\ OperatorMismatch(p, a)
       /\ Return(p, "IdentityError")
       /\ UNCHANGED viewVars
    \/ /\ frame[p].call = "load_or_create"
       /\ ~ OperatorMismatch(p, a)
       /\ Return(p, "ok")
       /\ handle' = [handle EXCEPT ![p] = a]
       /\ UNCHANGED shown

LoadExists(p) ==
    /\ At(p, "exists")
    /\ \/ /\ meta[Path(p)] = None
          /\ LoadReturnsNone(p)
       \/ /\ meta[Path(p)] # None
          /\ Goto(p, "read")
          /\ UNCHANGED viewVars
    /\ UNCHANGED <<storeVars, keyVars>>

Readable(q) == meta[q] # None /\ content[meta[q]] \in Agents

\* The file may have gone since the check (OSError), or not be JSON; both
\* become IdentityError.
LoadReadText(p) ==
    /\ At(p, "read")
    /\ \/ ~ Readable(Path(p)) /\ LoadRaises(p)
       \/ /\ Readable(Path(p))
          /\ frame' = [frame EXCEPT ![p].pc = "probe", ![p].seen = content[meta[Path(p)]]]
          /\ UNCHANGED <<viewVars, result>>
    /\ UNCHANGED <<storeVars, keyVars>>

\* Mutant: the slot is not probed.
LoadWithoutProbe(p) ==
    /\ At(p, "probe")
    /\ LoadReturns(p, frame[p].seen)
    /\ UNCHANGED <<storeVars, keyVars>>

\* The slot is probed for presence only; its key is not compared with the
\* public key that was read.
LoadProbe(p) ==
    /\ At(p, "probe")
    /\ \/ BackendFails /\ LoadRaises(p)
       \/ slot[frame[p].seen.name] = None /\ LoadReturnsNone(p)
       \/ slot[frame[p].seen.name] # None /\ LoadReturns(p, frame[p].seen)
    /\ UNCHANGED <<storeVars, keyVars>>

\* Mutant: a file that was looked at stays in the list.
ListAgain(p) ==
    /\ At(p, "scan")
    /\ \E q \in frame[p].todo :
          frame' = [frame EXCEPT ![p].pc = "exists", ![p].name = StemOf[q]]
    /\ UNCHANGED <<storeVars, keyVars, viewVars, result>>

\* The loop of list_agents: the files the glob saw, in any order.
ListNext(p) ==
    /\ At(p, "scan")
    /\ \/ \E q \in frame[p].todo :
            /\ frame' = [frame EXCEPT ![p].pc = "exists", ![p].name = StemOf[q],
                                      ![p].todo = @ \ {q}]
            /\ UNCHANGED result
       \/ frame[p].todo = {} /\ Return(p, "ok")
    /\ UNCHANGED <<storeVars, keyVars, viewVars>>

-----------------------------------------------------------------------------
(* create() *)

\* Mutant: the keyring is asked for the name instead of the sidecar.
SlotTaken(p) == slot[frame[p].name] # None

SidecarTaken(p) == meta[Path(p)] # None

\* Mutant: the key pair is derived from something that comes again.
AnyKeys == Keys

\* generate_keypair draws 32 random bytes: no key comes twice.
FreshKeys == Keys \ minted

\* The duplicate check, then a fresh key pair.  The key lives in this frame
\* alone until set_password.
CreateCheck(p) ==
    /\ At(p, "check")
    /\ \/ /\ SidecarTaken(p)
          /\ Return(p, "IdentityError")
          /\ UNCHANGED minted
       \/ /\ ~ SidecarTaken(p)
          /\ \E k \in FreshKeys :
                /\ minted' = minted \cup {k}
                /\ frame' = [frame EXCEPT ![p].pc = "store", ![p].key = k]
          /\ UNCHANGED result
    /\ UNCHANGED <<storeVars, stored, published, viewVars>>

\* Mutant: an entry that is already there is left alone.
KeepOldPassword(p) ==
    /\ At(p, "store") /\ Goto(p, "open")
    /\ slot' = [slot EXCEPT ![frame[p].name] = IF @ = None THEN frame[p].key ELSE @]
    /\ stored' = stored \cup {slot'[frame[p].name]}
    /\ UNCHANGED <<meta, tmp, content, minted, published, viewVars>>

CreateSetPassword(p) ==
    /\ At(p, "store")
    /\ \/ /\ BackendFails
          /\ Return(p, "IdentityError")
          /\ UNCHANGED <<slot, stored>>
       \/ /\ slot' = [slot EXCEPT ![frame[p].name] = frame[p].key]
          /\ stored' = stored \cup {frame[p].key}
          /\ Goto(p, "open")
    /\ UNCHANGED <<meta, tmp, content, minted, published, viewVars>>

\* write_text opens <path>.json.tmp for writing: an existing file, of a crashed
\* or of a concurrent writer, is truncated and shared; otherwise one is made.
TmpFile(p) == IF tmp[Path(p)] # None THEN tmp[Path(p)] ELSE frame[p].key

\* Mutant: the file is opened without truncating it.
OpenTmpKeeping(p) ==
    /\ At(p, "open")
    /\ tmp' = [tmp EXCEPT ![Path(p)] = TmpFile(p)]
    /\ content' = [content EXCEPT ![TmpFile(p)] = IF tmp[Path(p)] = None THEN Empty ELSE @]
    /\ frame' = [frame EXCEPT ![p].pc = "write", ![p].fd = TmpFile(p)]
    /\ UNCHANGED <<slot, meta, keyVars, viewVars, result>>

CreateOpenTmp(p) ==
    /\ At(p, "open")
    /\ tmp' = [tmp EXCEPT ![Path(p)] = TmpFile(p)]
    /\ content' = [content EXCEPT ![TmpFile(p)] = Empty]
    /\ frame' = [frame EXCEPT ![p].pc = "write", ![p].fd = TmpFile(p)]
    /\ UNCHANGED <<slot, meta, keyVars, viewVars, result>>

\* Mutant: the sidecar records the sanitised name.
NewAgentOfPath(p) == [name |-> Path(p), key |-> frame[p].key, op |-> frame[p].op]

\* Mutant: the sidecar records the name its file is listed under.
NewAgentOfStem(p) == [name |-> StemOf[Path(p)], key |-> frame[p].key, op |-> frame[p].op]

NewAgent(p) == [name |-> frame[p].name, key |-> frame[p].key, op |-> frame[p].op]

\* Each writer writes from offset 0: over a longer text of another writer,
\* the tail of that text stays and the file is no longer JSON.
AfterWrite(old, a) == IF old = Empty THEN {a} ELSE {a, Torn}

CreateWriteTmp(p) ==
    /\ At(p, "write")
    /\ \E c \in AfterWrite(content[frame[p].fd], NewAgent(p)) :
          content' = [content EXCEPT ![frame[p].fd] = c]
    /\ Goto(p, "rename")
    /\ UNCHANGED <<slot, meta, tmp, keyVars, viewVars>>

DidsIn(f) == IF content[f] \in Agents THEN {content[f].key} ELSE {}

\* chmod and replace address the file by path: whatever <path>.json.tmp is now
\* becomes <path>.json, and FileNotFoundError escapes if another writer took it.
CreateRename(p) ==
    /\ At(p, "rename")
    /\ \/ /\ tmp[Path(p)] = None
          /\ Return(p, "OSError")
          /\ UNCHANGED <<meta, tmp, published, handle>>
       \/ /\ tmp[Path(p)] # None
          /\ meta' = [meta EXCEPT ![Path(p)] = tmp[Path(p)]]
          /\ tmp' = [tmp EXCEPT ![Path(p)] = None]
          /\ published' = published \cup DidsIn(tmp[Path(p)])
          /\ handle' = [handle EXCEPT ![p] = NewAgent(p)]
          /\ Return(p, "ok")
    /\ UNCHANGED <<slot, content, minted, stored, shown>>

-----------------------------------------------------------------------------
(* delete() *)

\* Every KeyringError is swallowed: an entry that is already gone and a backend
\* that refuses to remove it look the same.
DeletePassword(p) ==
    /\ At(p, "drop")
    /\ \/ /\ slot[frame[p].name] # None
          /\ slot' = [slot EXCEPT ![frame[p].name] = None]
          /\ frame' = [frame EXCEPT ![p].pc = "absent", ![p].deleted = TRUE]
       \/ /\ slot[frame[p].name] = None \/ BackendFails
          /\ frame' = [frame EXCEPT ![p].pc = "absent"]
          /\ UNCHANGED slot
    /\ UNCHANGED <<meta, tmp, content, keyVars, viewVars, result>>

\* Mutant: the sidecar is unlinked without looking whether it exists.
DeleteBlindly(p) ==
    /\ At(p, "absent")
    /\ Goto(p, "unlink")
    /\ UNCHANGED <<storeVars, keyVars, viewVars>>

DeleteExists(p) ==
    /\ At(p, "absent")
    /\ \/ /\ meta[Path(p)] = None
          /\ Return(p, IF frame[p].deleted THEN "true" ELSE "false")
       \/ /\ meta[Path(p)] # None
          /\ Goto(p, "unlink")
    /\ UNCHANGED <<storeVars, keyVars, viewVars>>

DeleteUnlink(p) ==
    /\ At(p, "unlink")
    /\ \/ /\ meta[Path(p)] = None
          /\ Return(p, "OSError")
          /\ UNCHANGED meta
       \/ /\ meta[Path(p)] # None
          /\ meta' = [meta EXCEPT ![Path(p)] = None]
          /\ Return(p, "true")
    /\ UNCHANGED <<slot, tmp, content, keyVars, viewVars>>

-----------------------------------------------------------------------------
(* The environment. *)

Crash(p) ==
    /\ "crash" \in Faults
    /\ ~ At(p, "idle")
    /\ Return(p, "crashed")
    /\ handle' = [handle EXCEPT ![p] = None]
    /\ shown' = [shown EXCEPT ![p] = {}]
    /\ UNCHANGED <<storeVars, keyVars>>

\* "User-rotated keychain, re-imaged machine": a slot goes, its sidecar stays.
WipeSlot(n) ==
    /\ "wipe" \in Faults
    /\ slot[n] # None
    /\ slot' = [slot EXCEPT ![n] = None]
    /\ UNCHANGED <<meta, tmp, content, keyVars, frame, viewVars, result>>

-----------------------------------------------------------------------------
(* The specification. *)

\* A call about one agent.
StartNamed(p) ==
    \/ \E c \in CallNames, n \in Names, o \in Ops \cup {None} : Begin(p, c, n, o)
    \/ \E c \in CallNames, n \in Names : Refuse(p, c, n)

StartCall(p) ==
    \/ StartNamed(p)
    \/ BeginList(p)
    \/ Sign(p)

ContinueCall(p) ==
    \/ LoadExists(p)
    \/ LoadReadText(p)
    \/ LoadProbe(p)
    \/ ListNext(p)
    \/ CreateCheck(p)
    \/ CreateSetPassword(p)
    \/ CreateOpenTmp(p)
    \/ CreateWriteTmp(p)
    \/ CreateRename(p)
    \/ DeletePassword(p)
    \/ DeleteExists(p)
    \/ DeleteUnlink(p)

Environment ==
    \/ \E p \in Procs : Crash(p)
    \/ \E n \in Names : WipeSlot(n)

Next ==
    \/ \E p \in Procs : StartCall(p) \/ ContinueCall(p)
    \/ Environment

Spec == Init /\ [][Next]_vars

\* One writer at a time and readers at any time: what an application gets that
\* locks its own calls of load_or_create, create and delete.
Writing(p) == frame[p].call \in {"load_or_create", "create", "delete"}

StartAsWriter(p) ==
    /\ StartNamed(p)
    /\ Writing(p)' => \A r \in Procs \ {p} : ~ Writing(r)

WriterNext ==
    \/ \E p \in Procs : StartAsWriter(p) \/ BeginList(p) \/ Sign(p) \/ ContinueCall(p)
    \/ Environment

WriterSpec == Init /\ [][WriterNext]_vars

\* The operating system schedules every process: a call that can take its next
\* step eventually does, unless its process crashes.
FairWriterSpec == WriterSpec /\ \A p \in Procs : WF_vars(ContinueCall(p))

\* No two calls of the module overlap: what an application gets that locks each
\* of them.  A caller may still hold a handle, and sign with it at any time,
\* while another deletes or creates.
StartAlone(p) ==
    /\ StartNamed(p) \/ BeginList(p)
    /\ \A r \in Procs \ {p} : At(r, "idle")

SerialNext ==
    \/ \E p \in Procs : StartAlone(p) \/ Sign(p) \/ ContinueCall(p)
    \/ Environment

SerialSpec == Init /\ [][SerialNext]_vars
-----------------------------------------------------------------------------
(* What must hold whatever the callers do at the same time. *)

(***************************************************************************)
(* The key is durable before its DID is visible: every readable sidecar,   *)
(* and every Agent a caller holds, names a key that the keyring accepted   *)
(* earlier.  A crash at any step of create() may leave a key without a     *)
(* sidecar, never a DID whose private key was not saved.                   *)
(***************************************************************************)
KeyStoredBeforeDid ==
    /\ \A q \in Paths : Readable(q) => content[meta[q]].key \in stored
    /\ \A p \in Procs : handle[p] # None => handle[p].key \in stored

(***************************************************************************)
(* Deleting and replacing a key is final: whatever calls are in flight, a  *)
(* slot only ever becomes empty or takes a key that no slot held before.   *)
(***************************************************************************)
OldKeysStayGone ==
    [][\A n \in Names : slot'[n] # slot[n] => slot'[n] \notin stored]_slot

(***************************************************************************)
(* A private key belongs to one agent: no two slots hold the same key.     *)
(***************************************************************************)
OneSlotPerKey ==
    \A m, n \in Names : slot[m] # None /\ slot[m] = slot[n] => m = n

(***************************************************************************)
(* Every call returns: load's steps, create's retries of nothing, and the  *)
(* loop of list_agents over a directory that others are changing all end.  *)
(***************************************************************************)
CallsReturn == \A p \in Procs : ~ At(p, "idle") ~> At(p, "idle")

-----------------------------------------------------------------------------
(* What must hold when writers do not overlap (WriterSpec). *)

(***************************************************************************)
(* The two stores agree: the DID a sidecar publishes is that of the key in *)
(* the agent's slot, unless the slot is empty.  No crash between the two   *)
(* writes, refused keyring call or wiped keychain pairs a DID with another *)
(* agent's or an older key.                                                *)
(***************************************************************************)
DidMatchesKey ==
    \A q \in Paths : Readable(q) =>
        slot[content[meta[q]].name] \in {content[meta[q]].key, None}

(***************************************************************************)
(* "Write metadata atomically (write-tmp + rename) so a half-write doesn't *)
(* leave a corrupt JSON file on disk": a sidecar that exists can be read,  *)
(* and records a name that is looked up at this very path.                 *)
(***************************************************************************)
SidecarWhole ==
    \A q \in Paths : meta[q] # None =>
        Readable(q) /\ PathOf[content[meta[q]].name] = q

(***************************************************************************)
(* Callers see the module's own error: no FileNotFoundError of the sidecar *)
(* or of its temporary file escapes from create or delete.                 *)
(***************************************************************************)
OnlyIdentityErrors == \A p \in Procs : result[p] # "OSError"

Registered(q) == IF Readable(q) THEN content[meta[q]] ELSE None
Usable(q) == Readable(q) /\ slot[content[meta[q]].name] = content[meta[q]].key

Entries   == [q \in Paths |-> Registered(q)]
UsableMap == [q \in Paths |-> Usable(q)]

Registry == INSTANCE IdentityRegistry WITH
    entry <- Entries, usable <- UsableMap, issued <- published

(***************************************************************************)
(* One writer at a time makes the two stores one directory: the steps of   *)
(* create and delete are steps of IdentityRegistry or change nothing in    *)
(* it, crashes, refused keyring calls and wiped slots included.  An agent  *)
(* is registered where its sidecar is readable, and usable while its slot  *)
(* holds its key.                                                          *)
(***************************************************************************)
IsRegistry == Registry!Spec

-----------------------------------------------------------------------------
(* What must hold when no two calls overlap (SerialSpec). *)

(***************************************************************************)
(* load and list_agents return only agents that can sign under their DID:  *)
(* the presence check of the slot is enough, although the key in it is not *)
(* compared with the public key of the sidecar.                            *)
(***************************************************************************)
ShownAgentsCanSign ==
    [][\A p \in Procs : \A a \in shown'[p] \ shown[p] : slot[a.name] = a.key]_shown

(***************************************************************************)
(* A signature fails to verify under the DID of the handle that made it    *)
(* only after that agent was deleted: while its sidecar is there, sign     *)
(* finds the right key or raises.                                          *)
(***************************************************************************)
SignaturesVerify ==
    [][\A p \in Procs :
         result'[p] = "invalid" /\ result[p] # "invalid" =>
             Registered(PathOf[handle[p].name]) # handle[p]]_result

-----------------------------------------------------------------------------
(* What the docstrings say and the code does not do. *)

(***************************************************************************)
(* load's docstring: when the slot of a known sidecar is gone, "Caller's   *)
(* load_or_create() handles regeneration".                                 *)
(***************************************************************************)
WipedKeyRegenerated ==
    [][\A p \in Procs :
         At(p, "check") /\ frame[p].call = "load_or_create" =>
             result'[p] # "IdentityError"]_<<frame, result>>
=============================================================================
