# Nightflyer client: formal model

TLA+ models, TLC runs and TLAPS proofs for the Nightflyer licensing client of
this repository: the engine-free core (`nightflyer.cpp`,
`authorization_session.cpp`), the Unreal HTTP transport and the protected
stores. Paths below are relative to
`src/SystemLockerNightflyer/Source/SystemLockerNightflyer/`.

A game asks the client for a *lease*, a signed permission to run offline for a
while. The client keeps the lease, the signed status that came with it, the
signing-key history and a set of high-water marks in one protected state file,
and proves its identity with an installation key held by the system. Several
processes may share one installation.

## 1. Inventory

| component | code | state | operations | interacts with |
|---|---|---|---|---|
| Authorization state | `Impl::State`, `accept`, `applyStatus`, `verifyRuntime`; `Client::Impl::process` | lease, status, epoch, key history, four high-water marks, terminal flags, pending end | load checks, prepare, verify, accept, retire | persistent session, clock |
| Persistent session | `AuthorizationSession` | file, in-memory copy, two named locks | `persistent`, `authorize*`, `renewIfDue`, `synchronizeStatus`, `end`, `easyAuthorize`, `tick` | store, key provider, transport, service, peers |
| Lease time | `anchoredTime` .. `usableLease`, `SystemClock` | server anchor, counter and wall at the anchor, boot, high-water mark | read, checkpoint, anchor | state, operating system |
| Installation lifecycle | `persistent`, `forget`, key provider | file, stored keys, open sessions | open, create, forget | store, key provider, peers |
| HTTP transport | `UnrealHttpTransport.cpp` | shared exchange slot, pooled event | `postJson`, game-thread task, completion | engine, worker threads |
| Windows store | `dpapi_state_store.cpp` | state file, temporary files, lock file | `load`, `save`, `erase` | file system, DPAPI |
| Key providers | `windows_cng_key_provider.cpp`, `platform_apple_keychain.cpp` | named keys | create, load, erase, sign | operating system |
| Memory session | `AuthorizationSession::memory`, `orderlyDispose` | in-memory state, lifetime lock | open, operations, end at destruction | transport |
| Blueprint library | `NightflyerBlueprintLibrary.cpp`, `NightflyerSessionHolder.h` | one session slot per system, gate | EasyAuthorize, TickSession, EndSession, ForgetInstallation | thread pool, game thread |
| License service | not in the repository | grants, keys | authorize, renew, status, end | client |
| Crypto and formats | `crypto.cpp`, `internal.hpp` | none | hash, sign, verify, encode | |

What is hard in each, and what makes it correct:

- **Persistent session.** A crash or a failed save between any two saves;
  answers lost after the service acted; requests that arrive after the caller
  gave up; peers in other processes; a file opened during a peer's operation.
  Correct when the file always loads, no retired lease comes back, an end is
  retried byte for byte, high-water marks never fall, terminal flags are the
  service's word, and an honest answer is never refused.
- **Lease time.** A wall clock set at will, sleep, reboots, a counter that
  resets or leaps. Correct when a lease lives exactly its signed life within a
  boot, a lapsed lease stays lapsed, and an online answer repairs the clock.
- **Lifecycle.** Two first openers; forget stopped half way; sessions that
  outlive the file. Correct when one file has one key, one process works on it
  at a time, and a lease never loses its key.
- **Transport.** A completion after the timeout, reuse of pooled events, a
  stalled game thread. Correct when a call returns its own answer or an error,
  never early and never not at all, and slots are freed.
- **Store.** A save cut off by a crash or a power loss. Correct when it is
  atomic.
- **easyAuthorize.** Up to four sections, each under the installation lock, with
  peers in between. Correct when it proceeds only on a lease that was good when
  the call began, finishes a pending end before it asks for a new epoch, and
  ends nothing else.
- **Blueprint library and memory session.** Calls of the game on pool threads,
  a session replaced when its settings change, a lock owned for the session's
  life. Correct when a call finds its own session, the lock is free for a
  replacement, no lease is dropped without an end, tick ends only what lapsed
  and every call is answered.
- **Signature encoding.** Correct when every signature of the key reaches the
  request as it was made.

`PROJECT.json` lists every hazard at its line with the properties that cover
it.

## 2. Modules

| module | models | imports |
|---|---|---|
| `SessionState` | the session state and the pure functions on it | |
| `LicenseServer` | the external service, as the client's checks presuppose it | `SessionState` |
| `PersistentSession` | processes sharing one installation, against the service | `LicenseServer` |
| `LeaseLifecycle` | what the file promises of leases: the life cycle of an epoch | |
| `MCPersistentSession` | `PersistentSession` with process symmetry for TLC | `PersistentSession` |
| `EasyAuthorize` | `easyAuthorize` of some processes, the others doing as they please | `PersistentSession` |
| `SessionHolder` | the Blueprint calls, the holder's gate and slot, the memory session in it | |
| `SignatureEncoding` | `signSha256` of the macOS provider, the DER conversions | |
| `LeaseClock` | lease time | |
| `InstallationLifecycle` | opening, key creation, forget | |
| `HttpTransport` | `postJson` and the game thread | |
| `StateStore` | what a store promises: an atomic register | |
| `DpapiStateStore` | the Windows store, which implements `StateStore` | `StateStore` |
| `SessionStateProofs` | lemmas about the functions of the state and about the service | `LicenseServer` |
| `PersistentSessionProofs` | proofs about the shared installation and `easyAuthorize` | `EasyAuthorize`, `SessionStateProofs` |
| `InstallationLifecycleProofs` | proofs about opening and forgetting | `InstallationLifecycle` |
| `HttpTransportProofs` | proofs about the transport | `HttpTransport` |
| `DpapiStateStoreProofs` | proofs about the Windows store | `DpapiStateStore` |
| `LeaseClockProofs` | proofs about lease time | `LeaseClock` |
| `SessionHolderProofs` | proofs about the session holder and the memory session | `SessionHolder` |
| `SignatureEncodingProofs` | when a signature survives its encoding | `SignatureEncoding` |

### SessionState

Tokens are reduced to the claims the code compares. An authorization epoch (the
lease's `jti`) is a number, newer epochs larger; a signing key is the number of
the transition that introduced it, 0 for the pinned root. A revoked device and
a revoked grant act alike in `applyStatus` and are one grant status. Operators
follow the code's functions: `Reloads` (`validateLoaded` and `verifyRuntime`),
`Authentic` (`restoreTrustedSigningKeyTransitions`), `Prepare`, `Verified`
(`process`), `Acceptable` and `Accept` (`accept`), `ApplyStatus`,
`ApplyDecision`, `ExecuteSaves` and `EndSaves` (the states `execute` and
`endLocked` save, in order, any prefix of which may reach the file). Not
represented: hardware ids, decision device bindings, problem details, formats
and signatures (assumed to verify exactly what was signed), time fields (in
`LeaseClock`).

### PersistentSession

`disk` is the state file, `memory[p]` the copy a process works on. Each public
operation is one action up to its request (gate, reload, the saves made before
the request, the request), then `Serve`, then `Receive`, which makes the saves
of the answer and releases the gate; nothing of a peer can come between, since
the lock is held throughout. `persistent()` is two actions, `OpenLoad` and
`OpenPersist`. `Crash` may come anywhere, `TransportFailure` and `Resend` before
or after the service took the request, and `ServeStray` serves a request whose
sender gave up. A save is atomic or fails: `DpapiStateStore` shows that of the
Windows store. A version 3 file is a possible initial state.

`OpenOverlaps` says whether `persistent()` may run during a peer's operation.
In the code it may (nothing relates the two locks), and finding 1 shows what
follows. The other runs set it to FALSE so that they say what else could go
wrong. The theorems hold for both values, except those whose statement assumes
it to be FALSE (section 5).

The service (`LicenseServer`) keeps grants in epoch order, a keyset sequence, a
minimum generation per grant, revoked keys and known license keys. It answers
from its current state and may change it at any time, in the ways the client's
comments and checks foresee. It is an assumption, not a model of a server in
this repository; what the checks rely on is that statuses and lists of
transitions are current and that a transition is sent exactly if it is after
the request's keyset sequence.

`LeaseLifecycle` says what all of this amounts to for whoever reads the file:
an epoch opens, its lease is held, an end is requested, the epoch is over, a
larger one opens. `ImplementsLifecycle` maps a state file to its epoch and the
stage its flags show (`Epoch`, `Stage`), and every save is a step of it.

### EasyAuthorize

`call[p]` is how far p's call is. `Load` and `EnterKey` begin it, `Act`,
`ActLocally` and `TryStoredKey` are its sections (the same actions of
`PersistentSession` that a program may call by themselves), `Answered` and
`Unreachable` end a section, `Guide` is the last one, which rereads the file.
The snapshots (`SnapshotOf`, `ResponseSnapshot`, `ExecuteSnapshot`,
`EndSnapshot`) name the state a section returns and the lease that goes with
it; the clock, which `LeaseClock` models, is any of its four phases, except
where an accepted answer has just set it (an unframed answer and a stale
generation, after which `accept` only reloads, set nothing). A section that throws counts as one that
returns the state the catch handler maps the error to. When the last section
fails the code forgets the result and reports `storage_unavailable` without a
lease, which is safe and left out.

### SessionHolder

A task is a call from the game thread to its delegate: `queued` on the pool,
past the gate (`locked` to `returning` or `failed`), `posted`. The gate is held
through network exchanges, so inside it the session's own gate is never
contended and is left out. `Replace` resets the slot first, which runs
`orderlyDispose` (stage `disposing`) and frees the lifetime lock; `CreateFails`,
possible for any settings, leaves the slot empty but remembering. A memory session's state is reduced to
its lease, whether the lease has lapsed and whether its end is pending; a
persistent one keeps its lease in the file and shows none here. The service
acts on a request or not, and the answer arrives or not, in every combination.
A renewal or status that is refused, or whose answer leaves no live lease, may go
on to the retained key (`Refused`, `RunSecond`), with the lease still held in the
first case. On Windows memory sessions of one system share a stable key and so a lock, which
`Peer` contends for; elsewhere the key is ephemeral and the lock is never
taken, which the model includes. Sessions of the C++ API used from several
threads at once are outside the model: `NightflyerSessionHolder.h:59-60` rules them out.

### SignatureEncoding

A magnitude is a sequence of `Width` bytes. The encoder is the system's, and
the client's own `p1363ToDer` is the one encoding DER allows, so
`CreateSignature` uses it; `Decode` is `derToP1363`.

### LeaseClock

True time `now`, the `wall` clock, the boot counter `mono` and the boot
identifier are separate. `SetWall` sets the wall clock to anything; `Tick`
advances time, `NewBoot` restarts the counter, `CounterFault` sets it anywhere
(an `IClock` other than the system's). `config` is whether the session is
persistent and whether a reboot needs the service, fixed when it opens. The 5 s
tolerance is `Tolerance`. A `history` variable records what the properties compare with.

### InstallationLifecycle

The state is reduced to its key and whether it holds a lease or pending end.
The installation lock is one per key, as in the code, so that sessions of
different keys really do not exclude each other. `EraseKey` and `EraseFile` are
separate steps of forget, each of which may fail (`ForgetThrows`) or never come
(`Stop`). Two history variables say where finding 1 shows: `overlapped`, whether
`persistent()` ever overlapped an operation, and `undercut`, the processes in a
forget since whose reload some `persistent()` has put another state into the
file. `ForgottenStaysForgotten` holds until the first overlap. `ForgetSparesLease`
holds before and after one, of the key and of the file: it excepts only the steps
of a forget that is itself undercut.

### HttpTransport

A slot's contents, its `Signalled` flag and its event are separate, and the
completion writes them in three steps. A slot is reused as soon as nobody holds
it. The engine is external: it is assumed to complete a request at most once,
later or never, and to hand out events reset. `reports` is TRUE for an engine
that also runs the delegate of a request whose start it reported as failed. Every
property is claimed of both kinds. `ReadIsExclusive` names one exception: with
such an engine the second report of the failed start
(`UnrealHttpTransport.cpp:142`) may race with the move at line 157. It writes an
error over an error; no answer is ever written under a read. Whether an engine
does so is not decided in this repository, so this is a hazard and not a finding.

### StateStore and DpapiStateStore

`StateStore` is a register with atomic load, save and erase, a `durable` value,
and machine stops that may undo an erase but never a save. `DpapiStateStore`
has the lock file, the temporary file, the flush and the move as steps, each of
which may fail or be the last. A load looks at the path three times, `CheckExists`,
`CheckSize` and `ReadFile`, and `seen` remembers what the first one found, for
`FileStaysUnderRead`. Windows is assumed to do what it documents of
`MoveFileEx` and `FlushFileBuffers`.

## 3. Runs

| run | question | result |
|---|---|---|
| `SharedInstallation` | do two processes keep the file consistent over two epochs, and is that a life cycle? | holds |
| `SigningKeys` | does the file still load after rotations and partial saves, and does a late request do harm? | yes; no |
| `EasyAuthorize` | is the startup call safe against a peer between its sections? | yes, but see finding 3 |
| `SessionHolder` | do the Blueprint calls keep sessions, locks and leases together, and are they answered? | yes |
| `LeaseClock` | is the lease honoured for its life, and only then? | holds |
| `HttpTransport` | does a stalled, late or repeating engine break a call, or leak a slot? | no |
| `WindowsStore` | is the store atomic? | yes |
| `Forget` | do opening and forgetting keep one key, one writer and every lease? | yes, but see finding 1 |
| `StaleOpen` | may `persistent()` overlap an operation? | violated, finding 1 |
| `PendingEnd` | is the exact retry of an end always accepted? | violated, finding 2 |
| `ResumedEnd` | does `easyAuthorize` end only what it found pending? | violated, finding 3 |
| `KeychainSignature` | does every signature survive its encoding? | violated, finding 4 |

Bounds. `MaxAuthorizations` = 2 gives an old and a new epoch, which is all the
code ever compares; `MaxGeneration` = 2 an old and a new lease; `MaxKeyset` = 1
a transition that is known or not (the proofs cover longer histories); two
processes an operation and a peer; `MaxEnds` = 3 an end, its repetition and one
more; `MaxStray` = 1 a late request. The runs divide these among them since
their product is too large: `SigningKeys` has one process and one epoch with a
late request and a rotation, `SharedInstallation` two processes and two epochs
without them, and only the proofs have all at once. `EasyAuthorize` has one
caller and one peer, one key and two epochs, so that the peer can finish the
end the caller found and authorize anew, and one end (`MaxEnds` = 1), that
one. `SessionHolder` has two pool tasks and
four calls, so that a call can queue behind another after a session has come
and gone, one persistent and two memory settings, so that a slot is replaced in every
way, and two epochs. `LeaseClock` has a lifetime of 3,
a tolerance of 1 and 6 timestamps, so that a lease can be issued, lapse and be
replaced within the range and saturation is reached; one reboot gives an old
and a new boot, and the initial states have every kind of session and reboot
policy. `HttpTransport` has two workers and two slots, so that a slot the engine
still holds leaves one for both and is taken again at once. `WindowsStore` has three callers, so that a third
acts between two steps of a pair; `InstallationLifecycle` has three processes
and three keys, so that a session outlives two forgets. `KeychainSignature` has
magnitudes of two bytes below 4, the least that has a short one with its high
bit set.

Deadlock is checked in every run except `SessionHolder`, where the game may stop
calling, and `KeychainSignature`, whose single exchange ends.

Fairness. `PersistentSession`, `EasyAuthorize`, `LeaseClock`,
`InstallationLifecycle` and the stores have none: their properties are safety
properties, and an operation may stop anywhere. `HttpTransport` has weak
fairness of the workers' own steps, which the thread pool runs and whose wait is
bounded by a timeout: `PostReturns` needs no more, since the wait does not
depend on the game thread. `SlotsComeBack` has `GameFairness` as its hypothesis:
a game thread that ticks, and an engine that completes a started request by its
own timeout (`SetTimeout`); a stopped game thread keeps its tasks, and with
them the slots. `SessionHolder` has weak fairness of each task's steps: the
exchange inside a call ends (`PostReturns`), the wait for the installation lock
ends by its timeout, and the pool and the game thread run what is posted. A
`std::mutex` promises no turn, so the gate has weak fairness only;
`CallsAreAnswered` still holds because the game makes finitely many calls
(`MaxCalls`), as a game that waits for its delegates does. With calls that never
stop coming, a waiting one could starve.

## 4. Findings

1. **Stale open** (`authorization_session.cpp:593`). `persistent()` loads the
   file, then saves the copy it loaded, under the bootstrap lock only. No
   operation takes that lock. A peer that ends or loses its lease in between is
   overwritten, and the retired lease is in the file again, with its marks
   lowered. The same write bounds two properties of `InstallationLifecycle`: a
   forgotten installation stays away only until an overlap, and forget may take
   a lease that `persistent()` writes back during that forget. `README.md:126-128` promises persisted
   high-water marks, revocation enforcement and cross-process coordination.
2. **Pending end** (`authorization_session.cpp:425`). An end prepared at keyset
   sequence *n* is retried with *n* for ever. If a status or a refused authorize
   meanwhile teaches the installation transition *n* + 1, the answer to the
   retry brings that transition again, the rebuilt history has it twice, and
   `accept` throws on each retry. `README.md:100` and
   `authorization_session.cpp:617` rely on the pending end finishing. The
   finding assumes that the service sends what the request says it lacks.

3. **Resumed end** (`authorization_session.cpp:619`). `easyAuthorize` loads the
   state, finds `ending`, releases the lock and calls `end`. If a peer finishes
   that end and authorizes anew in between, `end` finds a lease without a
   pending end and prepares a new end for it: the startup of one process ends
   the lease another has just obtained. `authorization_session.cpp:617-618` and
   `README.md:100` speak of the exact pending request only.
4. **Keychain signature** (`crypto.cpp:232`). `readInteger` refuses a leading
   zero in an integer of 32 bytes or fewer, but a magnitude that is short and
   starts with a byte of 128 or more has one. `signSha256` then throws, for
   about one signature in 256. `SurvivalCriterion` proves that exactly these
   signatures are lost. The comment at `crypto.cpp:270` states the rule the
   decoder misses.

Hazards without a property, the broken-off `forget` among them, are in
`PROJECT.json` with the reason.

## 5. Proofs

TLAPS proves, for every value of the constants that satisfies the named
assumptions (`NoneAssumption`, `ServerBounds`, `SessionAssumption`,
`CallersAssumption`, `LifecycleAssumption`, `TransportAssumption`,
`StoreAssumption`, `ClockAssumption`, `HolderAssumption`), every safety
property that a passing run checks. The assumptions give the constants their
types and keep `None` apart from real values; one says more. `ServerBounds` has
the service rotate its keys at most `MaxTransitions` times, the length that
`validateLoaded` takes and `accept` does not enforce (a listed hazard).

### The shared installation

Three invariants, each resting on the one before it, and a fourth for
`easyAuthorize`.

`Inv` (`SessionInvariant`) holds for both values of `OpenOverlaps` and gives
`SessionIsTyped` and `SavedStateIsLoadable`. `SavedStateReloads` is not
inductive: that the state after `accept` loads depends on what the answer
contained, which depends on the service, on the request that is answered, and
on the state that prepared it. `Inv` is therefore `TypeOK /\ Consistent`, and
`Consistent` says four things. The file and every session are *sound*: they
load, their history of key transitions is *chained*, without a gap, their lease
is one the service issued, and a pending end is about that lease. Every request
under way is *well formed* and *belongs* to the state its operation works on:
it presents that state's lease, unless it is an authorize. Every answer is
*honest*: it is what the service could sign for that request. Requests of
callers that gave up are still well formed.

`InformedInv` (`SessionIsInformed`) adds what the file, the copies and the
messages *say*, also for both values of `OpenOverlaps`. Every state is
*credible*: the service knows of each epoch, mark and terminal flag in it, and
the state accounts for its own epoch. Every request asks for the state its
operation works on, and every answer is *truthful* about the service and not
older than that state. The service only *evolves*: nothing it does, serving
included, takes back what it has said, which is why old files and old copies
stay credible. From it follow `EpochIsAccountedFor`,
`TerminalMarksAreTheServices` and `HonestAnswersPass`; the last says that the
rollback checks of `accept` refuse nobody honest, however far the service has
moved on since it answered.

`SerialInv` (`SerialInvariant`) assumes `OpenOverlaps = FALSE`. The code does
not guarantee that: `persistent()` holds only the bootstrap lock, and the run
`StaleOpen` breaks the first of the theorems below without it (finding 1). With
it, whoever is in an operation or in open has the installation to itself and
works on what the file holds (`GatesHold`), and all that is past is recorded in
the file: every epoch that was ever over is over in it, and every end request
ever made is pending in it or about such an epoch (`Past`). From it follow
`OverIsForGood`, `OneEndRequest`, `MarksNeverFall`, `PendingEndIsKept` and
`KeyIsKeptUntilUnknown`, and the refinement `FileImplementsLifecycle`: the
initial states of `PersistentSession` map to those of `LeaseLifecycle`, and
every step to a step of it or a stutter. The lemma behind the action properties
is the same each time: a save *follows* the file it replaces, since `accept`
only advances and `ApplyStatus` and `ApplyDecision` only retire.

`EasyInv` (`EasyInvariant`) is about the calls of `EasyAuthorize`, under the
same hypothesis. Between two sections of a call a peer may do anything, so what
the call has seen is of use only if it stays true: the epochs that may not be
handed out only grow in number (`NotUsable`), and an end that was found pending
stays pending or its epoch is over. `CallsProceedOnLiveLeases` and
`FoundEndsComeFirst` follow. `KeyIsKeptUntilUnknown` covers the third property
of that run, as every behaviour of `EasySpec` is one of `Spec` (`EasyIsSession`).

The lemmas in `SessionStateProofs` show that each function of the state
preserves soundness, that what the service answers is honest, truthful and not
older than the request, and that it takes nothing back; those in
`PersistentSessionProofs` take one action each.

### The other components

- `InstallationLifecycle`: `LifecycleIsTyped`, `WritersExclude`,
  `ForgottenForGood`, `OneKeyPerFile`, `ForgetTakesOnlyWhatItCannotSee`. That two
  writers exclude each other is the delicate one, since the lock is named after the key
  a session loaded: past its reload a session's key is that of the file
  (`SessionsAgree`), so all writers name the same lock. A forget
  past its reload finds no lease in the file unless it is undercut
  (`ForgetLooksAtFile`). `Apart` says what keeps a forgotten installation away
  until an open has overlapped an operation, a condition that is part of the
  property.
- `HttpTransport`: `TransportIsTyped`, `AnswersAreOwn`, `TimeoutsAreReal`,
  `OnlySecondReportsMeetReads`, for any number of workers and slots and both kinds
  of engine. A slot has at most one
  request and one caller, while its caller is there everything done to it is
  for that caller, and an event is triggered only after its slot was marked.
- `DpapiStateStore`: `FilesStayWhole`, `LoadSeesOneFile` and the refinement
  `StoreIsAtomic`. The invariant says who holds the lock, that the file a load
  has seen is still there and the same, and that a temporary file ready to be moved holds all of its call's value; the save takes effect
  at the move, the power loss maps to a machine stop of `StateStore`.
- `LeaseClock`: `LeaseIsHonoured`, `ExpiryIsSticky`, `RebootNeedsService`,
  `MarkStaysInRange`, `WallClockIsIrrelevant` and `OnlineResponseRepairs`, for
  any lifetime, latency, tolerance and range of timestamps. Time at the anchor
  is not ahead of true time by more than the latency of the answer, a mark of
  the anchor's boot is not ahead of anchored time, and a lapse is recorded in
  the mark.
- `SessionHolder`: `HolderTypes`, `CallersSession`, `SessionOwnsLock`,
  `TickSpares` and `LeasesAccounted`, for any number of tasks, calls, settings
  and epochs. `TasksOK`: only the holder of the gate is past it (`Gated`), and
  what that task has seen of the slot is still so (`Knows`). Since the gate is
  held to the end of the call, nobody else's step can falsify what it knows;
  `GatedMove` states this once for all actions. `SlotOK`: the lock follows the
  session, the settings are those it was created with, every lease held was
  issued, and the honoured one is in the session or has been tried.
- `SignatureEncoding`: `IntegerSurvival` and `SurvivalCriterion`, which
  signatures survive their encoding, for any width of at least one byte and any
  even base.

### Only model-checked

Liveness is out of this prover's reach and left to TLC: `PostReturns`,
`SlotsComeBack`, `CallsAreAnswered`, whose fairness section 3 gives. So are
ENABLED and induction over recursive data. The properties of the four runs that
end in a violation are refuted on their instances, which needs no proof. What
`OpenOverlaps = FALSE` is assumed for is not proved of an installation that is
opened during an operation, because it is false there.

## 6. Not modelled

- The retry delay (`scheduleRetry`): it counts as a save, and a renewal it
  postpones as one that does not happen. Its hazard is listed.
- The keychain store and the key providers' signing: single system calls.
- Cryptography and token formats beyond the DER conversions; hardware ids,
  device bindings and problem details, which only name a result.
- Conversions between Unreal and C++ types, the sample and the build files.
- The vendored libraries (`ThirdParty/`): 31,000 of the repository's 36,000
  lines of code are nlohmann/json, micro-ecc and ed25519, none of it this
  project's logic. The models cover the greater part of the rest that keeps
  state.

## 7. Plan

Every safety property of a passing run is proved. What is left, in order of
weight:

1. `scheduleRetry` on the wall clock, its bounds, and the reset of the count by
   a framed refusal.
2. What an overlapping open can and cannot undo: a theorem for
   `OpenOverlaps` = TRUE about the marks that survive it.
3. Liveness of a pending end under a fair service and a fair caller, checked by
   TLC.
