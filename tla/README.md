# Verification of AiEGIS

TLA+ models of the AiEGIS Python code, the TLC runs that check them on small instances, and
TLAPS proofs of their main properties for every instance. The models are written from the source
under `src/`; documents are read only as statements about it.

Contents: [the system](#the-system), [modules](#modules), [what the runs
check](#what-the-runs-check), [what is proved](#what-is-proved), [divergences
found](#divergences-found), [what is not modelled](#what-is-not-modelled), [plan](#plan).

## The system

The repository is an SDK, a bundle generator and a set of reference verifiers. No part of it
runs as a service, and no part of it takes a lock. State is in the OS keyring, in files, in
Python objects that callers share, and in what the operator keeps between two calls of a
verifier.

| part | source | state | operations |
|---|---|---|---|
| identity store | `sdk/aiegis_agent/_storage.py` | keyring slot `agent:<name>`, sidecar `<path>.json`, temporary file `<path>.json.tmp` | `load`, `create`, `load_or_create`, `delete`, `list_agents`, `load_private_key` |
| agent handle, command line | `sdk.py`, `__main__.py` | an `Agent` with its name and DID | `create_agent`, `sign`, `passport`; one process per command |
| HTTPS client | `_client.py` | `self._client` of a shared object, open `httpx` clients | `__enter__`, `__exit__`/`close`, `_post` and its three methods |
| compliance bundle | `compliance-bundle/generator.py` | none of its own; a bundle refers to the caller's dicts and lists | `BeaconEvent`, `build_bundle`, `verify_bundle` |
| bundle wrapper | `sdk/aiegis_agent/compliance.py` | the imported generator | `has_compliance`, `build_compliance_bundle` |
| cryptography | `_crypto.py` | none | key pairs, DIDs, `canonicalize`, `sign`, `verify` |
| substrate pack | `substrate-pack/*.py` | none; the caller keeps nonces, counters and keys | acquirer, three mappers, three verifiers, binding proofs |
| structured errors | `compliance-bundle/errors.py`, its copy in `substrate-pack`, `error_codes.py` | the attributes of a frozen exception | constructor, `from_exception`, `__setattr__`, `__reduce__`, `to_dict` |
| release scripts | `scripts/*.sh` | a staging tree, local branches, the public repository | stage, commit, push, gate, verify |
| registry server | not in the repository | – | `/api/agent/*` |

How they interact. `create_agent` checks the name and calls `load_or_create`; `Agent.sign` goes
back to the keyring by *name* each time. The command line does the same from another process.
`build_compliance_bundle` takes the key from the keyring and calls the generator. The substrate
pack's acquirer produces a "live-context attestation", which the operator maps with one of the
mappers to the inputs of one verifier and, if that accepts, binds to an agent with a signed
binding proof that a regulator checks later. The generator and the pack raise structured errors.
The release scripts copy the files of all of them from two machines into a staging tree, push
it, and look at what arrived.

What is hard about it:

* **Two stores, no transaction, no lock.** A key goes to the keyring and its DID to a file in
  separate steps; processes interleave, crash in between, and the keyring may refuse.
* **One temporary file per name**, opened, written, renamed by whoever is there.
* **State read three times.** `_post` reads `self._client` to test it, to use it, and to decide
  whether to close what it used.
* **References in a signed document.** What `build_bundle` signs can be edited afterwards
  through the dict and the lists the caller still has.
* **Freshness kept by the caller.** The verifiers are functions: whether an assertion counts
  once depends on what the operator stores, and in what order, between two calls.
* **Keys that come with the answer.** A TPM quote is verified under the key on file for the
  host, an App Attest assertion under the key it brings; a challenge may be heard by others than
  the host it was meant for.
* **Exceptions that refuse to change**, on their way through an interpreter that changes them.
* **A release in pieces.** Files are edited while they are copied, a copy fails half-way and the
  tree it leaves is staged over, other pushes land, and each check of the verifier looks up for
  itself what it judges.
* **Time.** A binding proof is good for a window, by the verifier's clock and under the key the
  operator's DID resolves to at that moment.

The properties that make each part correct are in [what the runs check](#what-the-runs-check).
The hazards behind them, each at its line, are in `PROJECT.json`.

## Modules

| module | what it is |
|---|---|
| `IdentityStore` | the identity store, `create_agent`, `Agent.sign`; crashes, refusals, wipes |
| `IdentityRegistry` | abstract specification: what the store promises |
| `AgentClient` | the HTTPS client shared by threads |
| `ClientPool` | abstract specification: what sharing the client promises, a pool of `httpx` clients |
| `ComplianceBundle` | office, generator, wrapper, JSON transport, `verify_bundle` |
| `SubstratePack` | acquirer, mappers and verifiers as operators |
| `BindingProof` | generation, constructors and verification of binding proofs as operators |
| `AcceptanceLedger` | abstract specification: what an operator gets that handles one answer of a host at a time |
| `Attestation` | composes `SubstratePack` and `BindingProof`: hosts, operator, its workers, a regulator, a clock |
| `StructuredErrors` | the exceptions of the generator and the pack: making, raising, copying, changing them |
| `DidEncoding` | `derive_did` and the loop of the base58 encoder |
| `Release` | sources, staging tree, branches, public repository, push, verifier, network |
| `MCIdentityStore`, `MCAttestation`, `MCComplianceBundle`, `MCRelease` | instances for TLC |
| `MCComponents`, `MCClientAndRelease` | instances of several components that share nothing: one runs while the others are in an initial state |
| `IdentityStoreProofs`, `IdentityWriterProofs`, `AgentClientProofs`, `AttestationProofs`, `StructuredErrorsProofs`, `ReleaseProofs`, `ComplianceBundleProofs`, `DidEncodingProofs` | the theorems |

No module declares a `RECURSIVE` operator, so all of them can be proved about. Operators marked
`Mutant:` are not part of any specification. Each is the code with one plausible mistake, and
shows that a property notices it.

### IdentityStore

`slot` is the keyring, `meta` and `tmp` say which file the paths `<path>.json` and
`<path>.json.tmp` name, `content` says what a file holds. A file is an inode: a writer keeps its
descriptor (`frame[p].fd`) after a rename and may write into a file that is already published.
`frame[p]` is a call with its local variables, `handle[p]` the `Agent` that `create_agent`
returned, `shown[p]` and `result[p]` what the last call returned. `minted`, `stored`,
`published` are histories of keys.

There is one action for each access to a store, in the order of the code:

| action | code |
|---|---|
| `Begin`, `Refuse` | entry, name checks of `create_agent` and `_metadata_path` |
| `LoadExists`, `LoadReadText`, `LoadProbe` | `exists()`, `read_text()` with `json.loads`, the `get_password` probe of `load` |
| `BeginList`, `ListNext` | the glob and the loop of `list_agents`, which calls `load` and skips what raises |
| `CreateCheck`, `CreateSetPassword` | the duplicate check and `generate_keypair`; `set_password` |
| `CreateOpenTmp`, `CreateWriteTmp`, `CreateRename` | the open (which truncates) and the write of `write_text`; `chmod` and `replace` |
| `DeletePassword`, `DeleteExists`, `DeleteUnlink` | `delete` |
| `Sign` | `Agent.sign`, with `load_private_key` |
| `Crash`, `WipeSlot` | the environment; a refusing keyring is a disjunct of each keyring step |

A key pair, its public half and its DID are one member of `Keys`. `Plain` and `PathOf` stand for
the name checks and for `_sanitize`; that two names share a path is `SharedPath` in
`MCIdentityStore`.

Four specifications differ in what callers do. `Spec`: anything at any time. `WriterSpec`: one
writer at a time, readers whenever they like, what an application gets that locks its own calls
of `load_or_create`, `create` and `delete`; the code does not lock for it. `FairWriterSpec`: the
same under weak fairness of each call's next step. `SerialSpec`: no two calls overlap, readers
included, but a caller may hold a handle, and sign with it at any time, while another deletes or
creates.

### AgentClient

`current` is `self._client`, `open` the `httpx` clients not closed, `client[t]` the local
variable of `_post`, `pc`, `call`, `outcome` a thread's state. Each read or write of
`self._client` is an action: `PickClient` tests it, `TakeClient` reads it again, `Finally` reads
it a third time; `Enter` overwrites it; `CloseCheck`, `CloseClient`, `CloseClear` are the three
accesses of `close`. `Receive` takes any answer that `_post` and the method tell apart, or an
`httpx.HTTPError`; a body that does not decode escapes as `UnicodeDecodeError`. `scoped` is a
history: no enter or close has overlapped another call and none has overwritten a client. All
safety properties are stated under it. What happens when a close or a second enter falls between
the reads of a request is therefore modelled, and reached, but nothing is claimed of it: the
code does lose clients and raise `AttributeError` then, and promises nothing else. `Pool` is the
refinement mapping to `ClientPool`: the shared client, gone once it is closed (`Shared`), the
open clients, and the loans (`client`).

### ComplianceBundle

`hits` and `policy` are the caller's mutable objects. `bundles` holds built bundles, *by
reference* to them; `received` holds what arrived as JSON, by value. `Build` runs the checks in
the order of `BeaconEvent` and `build_bundle`, `BuildForAgent` the wrapper; `EditHits` and
`EditPolicy` are the caller going on with its work; `Send` is JSON transport, with corrections
by hand and cut proofs. `Verify` gives the fail reason in the order of `verify_bundle`. A policy
dict is the four hashes that `build_bundle` asks for, of which some may be missing, and the rest
(`rest`), of which it asks nothing and which it signs all the same. Canonical text is modelled
by what it does: integer keys, in hits or in the rest of a policy, sort as numbers before the
transport and as text after it.

### SubstratePack, BindingProof, Attestation

The operators of `SubstratePack` and `BindingProof` follow the functions. Byte layouts are
records, a signature is the key and what it was made over, and a certificate is known by its
subject (`Issuer` says who signed it). Three things of the code are kept that a summary would
lose: the TPM mapper passes the vendor root as the EK certificate too and takes the expected
digest from the attestation itself; the TEE chain check refuses every report until a vendor's
library replaces it; and the length of the nonce is checked differently by the acquirer (32
bytes) and the inputs (at least 16).

`Attestation` supplies the callers' side. `Challenge` sends a nonce to a host. Whoever it
reaches may answer it, the host that was asked or another (`Reaches`), with the reference
acquirer (`Acquire`) or the vendor's tool that production puts in its place (`Attest`,
external). `answers` is the wire: an answer may be taken from it late, twice, never, or damaged
(`Arriving`). A worker runs `Load` (reads the stored counter), `Decide` (mapper and verifier, in
one expression) and `Store` (writes the counter), and other workers run in between. `Bind`,
`RotateKey`, `Tick` and `CheckBinding` make, outdate and check binding proofs, as they were
signed or with one field edited: agent, attestation, nonce, time, host, operator or cryptosuite
(`Presented`). `first` is the counter the operator passes for a host it has not seen: 0, or in
`FirstCounter` the -1 of the docstring. `accepted`, `replayed`, `serial` and `proofs` are
histories; `serial` says that no two workers have handled one host at a time.

### StructuredErrors, DidEncoding

`err[o]` holds the attributes of an object, `Unset` for one that was deleted: the freeze of
`__setattr__` is an attribute too, and `del` is not guarded. `Raise` and `FromException` put an
error in `flight`; `LeavesFrame` is a frame it passes, which sets an attribute on it when it is
the `with` statement of a `@contextmanager` (`__traceback__`) or calls `add_note` (`__notes__`),
and then meets the guard. `Copy` is what pickle and `copy` do with `__reduce__`. A text is a
sequence of kinds of characters.

`DidEncoding` takes one step per turn of the encoder's loop, with 256, 58 and the length of a
key as constants.

### Release

`src` is what the files are at their sources, a version each; `Edit` and `Withdraw` change it at
any moment. `Copy` is one copy of `main` in `stage_for_push_air.sh`, with an optional file left
as it was when the source has none, and `CopyFails` its end under `set -e`, half a file written.
A staging may then be made again, over the torn tree. `Commit` and `Checkout` are the
operator's; a branch is the sequence of its trees, and that sequence is its sha. `run` is
`push_and_verify.sh` (`StartPush`, `Preflight`, `Push`) and `post_push_verify.sh` (`Clone`,
`Compare`, `Gate`, `Pytest`, `Raw`, `Report`). `StartPush` takes the arguments of the script,
`main` of the public repository or anything else; a push may fail, or land and its reply be
lost. Every command with a `timeout` may end without an answer, those without wait for the
network. `Gate` is the clone's own script if the clone has it, looking at its default
directories; a contract test passes or not by its version and that of `errors.py`
(`PassContracts`), and the counts in `README.md` and `CHANGELOG.md` have to be those of the
tests. `OtherPush` is somebody else's clone, which changes or deletes a file.

## What the runs check

Every run is exhaustive for its instance. `CHECK_DEADLOCK` is off where the office, the operator
or a program may simply have nothing left to do within the bounds.

| run | question | size |
|---|---|---|
| `StoreAnyone` | with no discipline at all, what still holds of keys? | 2 callers, 2 names with paths of their own and one refused, 2 keys, an operator, crashes and refusals; 1 580 000 states |
| `StoreSerial` | do sidecar, slot and signature agree when calls do not overlap? | 2 callers whose calls do not overlap (a handle may sign at any time), 2 names on one path and one refused, 2 keys, every call and fault; 515 000 states |
| `StoreWriter` | does one writer beside readers implement the registry, and does every call return? | a writer and a reader, 2 keys, `list_agents`, `load_or_create`, `delete`, every fault, fair; 416 000 states |
| `ClientAndRelease` | may threads share a client, and is it a pool then? is what is staged current, and what is committed never older? | 2 threads, 3 `httpx` clients, every answer; 3 files in 2 versions, 2 stagings, 2 changes by others, 2 commits, a network that hangs; 497 000 states |
| `Components` | is what is accepted sound, once only, and traceable? do errors stay what they are, and DIDs apart? what does an accepted bundle guarantee, and which are refused wrongly? | 7 hosts (three Apple devices, two TPMs, a confidential VM, one with nothing), 2 workers, 2 nonces, counter modulo 3, 2 operator keys; 2 errors, texts of 0, 4 and 5 characters with a cap of 4; payloads of up to 3 digits in another radix; 2 keys, good and bad arguments of every kind, edits, attestations and their `@context` lost or added; 392 000 states |
| `WipedKey`, `SharedTmp`, `AgentBundle`, `FrozenErrors`, `TwoCertificates`, `FirstCounter`, `GateAtHome` | [divergences found](#divergences-found) | |

`ClientAndRelease` and `Components` are runs of several modules that neither call each other nor
share state. One of them takes steps while the others are in an initial state, so that the
states add up and do not multiply; nothing is lost, since no action of one reads a variable of
another.

The properties:

* `KeyStoredBeforeDid`, `OneSlotPerKey`, `OldKeysStayGone` – a DID is never visible before its
  key is saved, no key is in two slots, and no replaced or deleted key comes back, for any
  interleaving and crash.
* `DidMatchesKey`, `ShownAgentsCanSign`, `SignaturesVerify` – a sidecar agrees with the slot it
  names, what `load` and `list_agents` show can sign, and a handle signs wrongly only after its
  agent was deleted.
* `SidecarWhole`, `OnlyIdentityErrors`, `IsRegistry` – with one writer at a time sidecars are
  never half-written, no `FileNotFoundError` escapes, and the two stores are one
  `IdentityRegistry`: `entry` is mapped to the readable sidecar of a path, `usable` to whether
  its slot holds its key, `issued` to `published`.
* `RequestsHaveOpenClient`, `NoClientLost`, `SharingNeverRaises` – under `scoped`: no request is
  on a client that is closed or `None`, every open client has exactly one owner, and any other
  error than `NetworkError` came from an answer.
* `IsPool` – under `scoped` again, the object is a `ClientPool`: with the steps of other
  requests between its three reads of `self._client`, a request still borrows one client once,
  has it open until it gives it back, and leaves what the next request finds as it was.
* `AcceptedIsComplete`, `UneditedVerifies` – what verifies satisfies everything `build_bundle`
  checked, whatever was edited after the signature; what nobody touched verifies, at hand and
  after JSON, unless some hits have integer keys, or the policy has under a key that
  `build_bundle` does not ask for.
* `AttestationAccountedFor` – the attestation is in the proof, which is not signed, and its link
  in the `@context`, which is: in a bundle that verifies the two agree exactly if the
  attestation was neither lost nor added on the way.
* `AcceptedAnswersItsChallenge` – what is accepted answers the challenge it is held against, and
  hardware signed it. A TPM quote is the asked host's, although others answer too. An App Attest
  assertion is of *some* device of the registered app: its key comes with it
  (`substrate_context_mapper.py:143`, `:158`) and is compared with nothing, so that the code
  does not tell one device from another, and the property does not say it does.
* `AssertionsCountOnce`, `StoredCountersRise`, `ValidBindingTracesBack` – under `serial` no App
  Attest assertion counts twice and stored counters only rise; a valid binding is the operator's
  own, unedited, recent, under the current key, and about an answer it had accepted of the host
  it names. What two workers on one host do to each other is modelled, and left out by `serial`:
  the reference leaves the order of its calls to the caller.
* `IsLedger` – under `serial`, `Load`, `Decide` and `Store` come to one step of
  `AcceptanceLedger`: an answer to a challenge of its host is held against the host's counter,
  replaces it and is entered, all at once. `given` is mapped to `asked`, `taken` to `accepted`,
  and `last` to the counter a worker is about to store, or to the stored one.
* `RefusedForCause` – the other direction: an answer that arrives as some host's hardware made
  it, for its challenge, is accepted if and only if it is eligible (`Eligible`). For an
  assertion that is: of the registered app, a challenge of 16 bytes, and no equal or later count
  accepted for the host that was asked. For a TPM quote: the asked host's, its key certified by
  the root that the operator passes, a challenge of 32 bytes. The report of a confidential VM
  never is. It says nothing (`Disputed`) of the two cases of which the repository's own words
  differ from the code; these are the runs `TwoCertificates` and `FirstCounter`.
* `DetailsAreSafe`, `CopiesAgree`, `FrozenUnlessOpened` – no message of an exception, no control
  character and nothing longer than the cap gets into a detail, a copy (cleaned and cut a second
  time) is equal, and only an object from which someone deleted an attribute ever changes.
* `DecodesBack`, `DidsTellApart` – the encoder loses nothing, zero bytes in front and the empty
  payload included, and no two keys or tiers share a DID.
* `StagedIsCurrent`, `ReleasesGoForward` – a staging that completes has every file whole and in
  a version the source had since it began; each commit has every required file, whole, and none
  older than the commits before it on the branch, whichever copies failed and whatever was
  checked out between one staging and the next.
* `MismatchIsExplained` – the verifier reports another head only after someone else pushed or
  committed to `main`, or when it was started with another branch checked out, or given another
  branch or repository.
* `CallsReturn` (of the store and the client), `VerifierEnds` – every call ends, and so does a
  verification whether or not the network answers.

Each has a mutant in `PROJECT.json` that breaks it.

### Bounds, and why they are enough

* `KeyBudget` (identity store): a call that may create starts only while a key is left for it.
  Two keys give the old/new confusion, and with two callers a handle of the first agent while
  the second is made. Two callers are enough for every race on one slot and one file, since each
  step touches one of them; two names on one path and two on different paths are separate runs.
* `ClientLeft` (client): likewise for `httpx` clients; with two threads, three allow a client
  each and one overwritten by `Enter`. Closed and forgotten clients are used again, so runs are
  not bounded in length.
* `IdLeft` (bundles): one bundle id. Two bundles interact only through shared objects, and an
  edit of those is an action of its own here. `MaxEvents` is 3 and one draft has 4 events. One
  policy with the hashes good, bad or missing and the rest of each kind of content.
* `AnswerBudget`, `ProofBudget`, `MaxTime`, `BindLast` (attestation): two answers are enough for
  reordering and repetition, since a replay is the same answer loaded again, and for an answer
  of the asked host beside one of another; the counter wraps after two. A phone's challenge
  reaches a second device of the app and one of another app; a server's reaches a second server,
  with a key from elsewhere, and a phone (`Neighbours`). One proof, checked as signed and in all
  edited forms over a clock of two hours with a window of one. `BindLast` separates the two
  halves of a history: no action of binding feeds back into acceptance. The proofs do not assume
  any of these.
* `MAX_DETAIL_LEN` (4), `MaxPayload` (3), `KeyLength` (1), `Base` (3), `Radix` (2): a text just
  at the cap and one past it are what the cut tells apart; payloads of three bytes have zero to
  three zero bytes in front, and numbers of up to five digits.
* `MaxChanges`, `MaxCommits`, `MaxStagings`, `Touched` (release): a change before and one after
  a copy, or a change and another push; two stagings, so that one is made over what a failed one
  left; a commit on each branch. Two copies, one of a single file and one of two of which one is
  optional: each order of an edit, a copy and a failure on a file that is copied before, in, or
  after it. In this instance the gate's default directories are not there (`HomeIsSource`), so
  that it does not matter which of the files are the tests and the pages; `GateAtHome` has a
  file of each kind, and the developer's own directories. What `rsync` brings (`Synced`) is left
  out of both: it does what a copied file does, except be torn. The proofs are about any order
  of copies, `rsync` included. Runs of the verifier are not bounded.
* Symmetry: callers and keys of the store, workers and agents of the attestation, error objects.
  Workers and error objects are swapped together in `Components`, since they are never at work
  in one behavior. Runs with liveness use none.

### Fairness

`FairWriterSpec` of the store is weak fairness of each caller's next step: the operating system
schedules a runnable process, and each step is a file or keyring call that returns. `FairSpec`
of the client is the same for threads; that `Receive` is fair even when the server is silent
rests on the `timeout` every `httpx` client is made with. `ReleaseSpec` is weak fairness of the
verifier alone: its commands run under `timeout` and the script goes on with what they answer.
No fairness is assumed for starting a call, for crashes or edits, for a network to come back,
nor for `git ls-remote` and `git push`, which have no timeout.

## What is proved

All proofs are checked by TLAPS, for any constants that satisfy the `ASSUME`s of the modules:
any number of callers, names, keys, threads, hosts, workers, nonces and answers. The assumptions
state the shape of the constants (`NamesAssumption`, `HostsAssumption`, ...) and that marks like
`None`, `Empty`, `Torn` are not data (`MarksAssumption`, `SentinelAssumption`: an exception is
no value a call returns). TLC evaluates every one of them on the instances.

**Identity store, any caller** (`IdentityStoreProofs`): `TypeCorrect`, `StoredBeforeDid`,
`KeysAreNotShared`, `OldKeysNeverReturn`. `TypeOK` is not inductive: that a record a create
writes is an agent depends on the local variables that earlier steps set, so `TypeInv` adds
`LocalsSet`. `KeyInv` adds where keys may be: a key in the `store` step is minted, unstored and
in one frame alone (`PrivateKeys`), and whatever any content, slot, handle or later frame names
has been stored. That is why the order of `set_password` before the file matters.

**Identity store, one writer** (`IdentityWriterProofs`): `StoresStayConsistent`,
`SidecarsStayWhole`, `ErrorsAreWrapped`, `SignaturesAreTheAgents`, and the refinement
`StoreImplementsRegistry`. `WriterInv` says there is one writer (`OneWriter`), that linked files
are distinct (`FilesApart`), and how far the writer has come (`WriterProgress`): from the check
on there is no sidecar at its path, after the open the temporary file is the one it holds, at
the rename its content is the new agent. A crash leaves a temporary file and a slot; the next
create truncates the one and overwrites the other, and the invariant holds again. For the
refinement each step is shown to be `Enrol` (the rename), `LoseKey` (a slot emptied by a wipe or
by `delete`), `Forget` (the unlink) or a stutter. `SignaturesAreTheAgents` needs no more than
that of the readers: a handle of an agent whose sidecar is still there names the key that
sidecar names, and that is the slot's, or the slot is empty and `sign` raises.

**Identity store, calls that do not overlap** (`IdentityWriterProofs`): `ShownAgentsSign`. With
readers beside a writer it would be false: `load` reads the sidecar, a delete and a create run,
and the probe finds the new key. `SerialInv` adds to `WriterInv` that at most one caller is in a
call (`Alone`), so that what `load` read is still there at the probe (`SeenIsCurrent`); neither
a crash nor a wiped slot changes a sidecar.

**HTTPS client** (`AgentClientProofs`): `TypeCorrect`, `SharingIsSafe`, `ClientsAreClosed`,
`SharingRaisesNothing`, and the refinement `SharingIsAPool`. `ClientInv` states why the three
reads of `self._client` agree: as long as closes are alone, either there is a shared client and
every request in flight uses it, or there is none and each has its own (`SharedOrOwn`); every
open client is referred to (`OpenReferred`). For the refinement `PickClient` without a shared
client and `TakeClient` are the loan, `Finally` is its return, and `CloseClient` is where the
shared client goes: `Shared` forgets it one step before `self._client` does.

**Attestation** (`AttestationProofs`): `TypeCorrect`, `AcceptanceIsSound`, `AssertionsAreSpent`,
`CountersRise`, `BindingsTraceBack`, `CountersAreReached`, `RefusalsHaveCause`. `AttestationInv`
has three parts beside the properties. `AnswersInv`: every answer under way or in hand that
carries a signature has one that the hardware of its `key` made over a quote of its own; whose
challenge it answers is left to the verifier. `SerialInv`: workers that keep apart hold a
counter that is still the stored one when they verify and at least that when they store, and
every accepted assertion is at or below the stored counter or that of a worker about to store.
So the strict comparison refuses a repetition. `ProofsInv`: a proof is what
`GenerateBindingProof` made of an accepted answer.

For the refinement `IsLedger` (`AcceptanceIsAtomic`) the step of the ledger is `Decide`. `Load`
and `Store` are stutters, since a worker that has verified is the only one busy with its host:
the mapped counter is the one it brings, before the store and after.

`RefusalsHaveCause` is the other direction, and needs an invariant of its own: `CountsInv` says
that every counter the operator keeps or a worker has loaded is one it began with or that of an
assertion it accepted for this host, whatever workers do at once. So an assertion whose counter
is refused as used up was indeed overtaken. The rest of the argument computes, for each kind of
host, what mapper and verifier do with an answer as the hardware made it (`AppleVerdict`,
`TpmVerdict`, `OtherVerdict`).

**Bundles** (`ComplianceBundleProofs`): `TypeCorrect`, `WhatVerifiesIsComplete`,
`LostAttestationsShow`, `NoFalseAlarm`. `BundleInv` says of each bundle that its signature is
over a complete payload of its issuer's which announced the attestation it had (`Sound`), and
that this payload is what the bundle still says unless an object it refers to was edited
(`Current`); and of each bundle that arrived that its proof is the one that was sent, cut or
without its attestation (`Arrived`), and, when it is fresh, that it is what was sent (`AsSent`).
Then what verifies is the text that was signed, and canonical text keeps every field but the
order of the hits' keys. That the counts add up is an argument on cardinalities: the entries
split into those blocked, warned and allowed.

**Structured errors** (`StructuredErrorsProofs`): `ErrorsAreTyped`, `NoDetailLeaks`,
`CopiesAreEqual`, `FreezeHolds`. `ErrInv` says that an object from which nothing was deleted is
intact: it has a code, a detail that is clean and not longer than the cap, and the freeze. The
lemmas about the text are that cleaning leaves clean text alone and that a text that was cut is
short enough not to be cut again, for every `MAX_DETAIL_LEN` that has room for the marker.

**DIDs** (`DidEncodingProofs`): `EncoderInvariant`, `DecodesBackHolds`, `DidsTellApartHolds`,
for any base, radix, key length and payload. `EncInv` says that what is left to divide and the
digits so far always stand for the number of the payload (`From`), so the loop can end with
nothing left and nothing lost; the zero bytes in front are counted apart. `Number` is a
recursive function. What is needed of it (that it splits at any place of its digits, and that
digits below the radix determine their number) is proved by an induction over sets of numbers,
`InductionOnNat`, which follows from the well-foundedness of the order of the naturals.

**Release** (`ReleaseProofs`): `TypeCorrect`, `StagingIsCurrent`, `NoReleaseGoesBack`,
`EveryMismatchHasACause`. `StageInv`: what the copies made so far brought is within the versions
its source has had since the staging began. `NoReleaseGoesBack` needs besides that required
files are always at their source (`NamedThere`), and that the last commit of a branch has
nothing newer than the source has, nor than it had when the staging in progress began, nor than
the tree has when the staging is complete (`ForwardInv`). `RunInv`: while nobody interferes, the
sha is that of `main`, then that of the public branch, then that of the clone.

**How long calls take.** Liveness needs fairness and `ENABLED`, which the prover does not do.
The part of it that is about steps is proved: in the store (`CallsComeToAnEnd`), in the client
(`CallsEndInFiveSteps`) and of the verifier (`EightCommandsAtMost`) there is a number, `Left`,
that each step of a call lowers and no step of anybody else raises. For `list_agents` it counts
the files its one glob saw, so files that others add meanwhile do not prolong it; for the
verifier it counts the attempts at the raw file. A loop or a retry without a limit would have no
such number.

Only model-checked: `CallsReturn` of the store and of the client, and `VerifierEnds`, for what
the theorems above leave open: that a step can be taken while a call has not returned, and that
it is taken. Every invariant and every other property of the passing runs is a theorem. Of the
divergences only the counterexamples are shown.

`DidMatchesKey` is checked where no calls overlap and two names share a path (`StoreSerial`);
the theorem is about `WriterSpec`, of which serial calls are a case, for any `PathOf`.

## Divergences found

Each is a run in which TLC finds a statement of the repository violated by what the code does.

| run | statement | what the code does |
|---|---|---|
| `WipedKey` | `_storage.py:111` "Caller's load_or_create() handles regeneration" | with the slot gone, `load` returns `None` and `create` raises because the sidecar exists |
| `SharedTmp` | `_storage.py:182` "Write metadata atomically" | writers of one name share `<name>.json.tmp`; two racing creates can publish text that is not JSON |
| `AgentBundle` | `compliance.py:91` "Build a signed Article 50 Compliance Bundle on behalf of an Agent" | the wrapper passes the agent's DID where the generator accepts only an operator's; every call raises `ValueError` |
| `FrozenErrors` | `errors.py:87` "integrators can catch SubstrateError specifically OR catch IdentityError to cover both" | an error raised inside a `with` statement over a `@contextmanager` becomes `AttributeError`: contextlib sets `__traceback__`, and `__setattr__` (line 54) refuses every attribute |
| `TwoCertificates` | `tpm_quote_verifier_reference.py:8-9` "validates the chain: TPM_QUOTE_INFO (signed by AIK) → AIK cert (signed by EK) → EK cert (signed by TPM vendor root)"; `substrate_context_mapper.py:109` "caller passes the resolved EK cert" | the mapper has no argument for the EK certificate and passes the vendor root in its place; an AIK whose EK the root certified is refused |
| `FirstCounter` | `apple_se_assertion_verifier_reference.py:30` "monotonic counter from previous assertion (or -1)" | the constructor (line 98) raises `SubstrateError` for -1; the first assertion of a device is never accepted |
| `GateAtHome` | `post_push_verify.sh:59` "Re-run pre_push_gate.sh on the clone as a POST-push verifier" | the clone's gate is started without its two variables and judges default directories under `$HOME`; it passes over a clone whose tests fail |

Also met, modelled as they are, and without a run of their own.

In the substrate pack: a TEE answer of the reference acquirer has a vendor name the mapper does
not know (`agent_substrate_acquirer_reference.py:224`, `substrate_context_mapper.py:196`); an
App Attest assertion is verified under the key it brings, and nothing says that it is the asked
host's; the bundle verification steps that the binding proof's docstring lists (hash of the
attestation, look-up of the nonce) are left to the caller.

In the SDK and the generator: a refused `delete_password` is taken for an entry already gone, so
the key stays and `delete` returns `True` (`_storage.py:213`); a signature of the wrong length
is reported as a bad operator key (`generator.py:403`); `del e._frozen` ends the freeze that
`errors.py:33` promises; a 4xx answer that is JSON but no object, or a body that does not
decode, raises something else than the SDK's errors (`_client.py:125`, `:121`); integer keys
under an extra key of a policy make a bundle that does not verify once it was sent
(`generator.py:288`).

In the release scripts: the digest pinned for `errors.py` is of the file with its last newline,
which `$(curl ...)` drops, so no attempt matches and no verification can pass
(`post_push_verify.sh:30`, `84`); `pytest substrate-pack` ends with status 5 because the
allowlist ships no test there; the gate hides the status of the whole suite behind `| tail -3`;
the pack imports `substrate_errors`, which nothing ships; `rsync` brings files nobody named and
keeps files the source no longer has, although "every file [is] explicitly named"
(`stage_for_push_air.sh:10`), and so does an optional file that is gone; `ls-remote`, `push` and
`scp` have no timeout.

## What is not modelled

* **Registry server**: not in the repository; `AgentClient` takes any answer its code tells
  apart.
* **Ed25519, SHA-256, X.509**: ideal; a signature verifies exactly for the key and text it was
  made with.
* **`passport`, `doctor`, `demo`, `to_dict`, parsing and printing of the command line**: no
  state changes.
* **Pages and hosts that the gate searches** (`verify_jsonld_contexts.sh`, the gate's later
  checks): one Boolean, `live`.
* **In the release**: `--dry-run`, which copies nothing and still ends in "Staging complete"
  (`stage_for_push_air.sh:31-35`, `333`); torn reads, since one copy is atomic against an edit
  in place of the file it reads; the execute bits; `git pull`; and the CI workflow, whose gate
  looks at the tree it has checked out. A file that is optional may stay torn in the tree when
  its source is withdrawn after a copy of it failed: `StagedIsCurrent` and `ReleasesGoForward`
  speak of required files, and of optional ones that are there.
* **A verification that passes** cannot be reached in any instance, since no attempt at the raw
  file can match (above); no property rests on `PASS`.
* **Error codes, the SDK's own errors, package surface**: names and re-exports.
* **Specifications, schemas, examples**: documents and usage, not code of the system.

## Plan

In this order:

1. *Composition.* A bundle that carries an attestation: `ComplianceBundle`'s proof with
   `Attestation`'s answers, and a regulator who checks both.
2. *No call is stuck.* That in every state in which a call has not returned the guard of its
   next step holds, stated without `ENABLED`; with `Left` this is all of liveness but the
   fairness.
3. *Divergences without a run.* Those of the list above that contradict a sentence of the
   repository.
