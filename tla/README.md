# Verification of the Tire Health Service

TLA+ modules that model the in-vehicle Tire Health Service, TLC runs that check
them on small instances, and TLAPS proofs of the central invariants for every
value of the constants. `PROJECT.json` lists components, runs, mutants, the map
from definitions to source lines, hazards, findings and theorems. Paths below
are relative to the repository.

## 1. The system

Two processes run in one container.

* **Bootstrap** (`src/runtime/bootstrap_main.cpp`) asks the credential service
  (KAC) for short-lived tokens, keeps the current one in a private session
  directory, takes it away when its lease ends or access is denied, and starts
  and stops the service.
* **Service** (`src/runtime/grpc_main.cpp`) opens an authenticated KUKSA session,
  turns frames into driving episodes, episodes into a condition band, and the
  band into an advisory request. It has four threads: the *main* thread
  (session and stream), a *watcher* per session (input files and stale input), an
  *advisory* thread per session (requests and readiness) and one *delivery*
  thread (observations, demo control, outbox). They share `Runtime`, whose
  methods all hold one mutex.

| Component | State | Operations | Works with |
|---|---|---|---|
| `StateStore` (`state.cpp`) | state.json, its checksum, journal, outbox files and refusal markers | constructor, commit, pending, acknowledge | file system, backend answers |
| `EpisodeEngine` (`model.cpp`) | ages of activation, clearance, last sample; open episode; suppression | ingest, abort | frames; called by Runtime |
| condition model (`assess`, `model.cpp`) | band, better band and its count, recent episodes | assess | persisted by Runtime |
| `Runtime`, advisory side (`runtime.cpp`) | state document; sent flag and two time stamps | apply_episode, next_advisory, gateway_status, demo_control_* | StateStore, broker, Gateway, demo backend |
| `Runtime`, input side | input and telemetry time stamps, contract, function facts | ingest, expire_input, disconnect, reauthenticate, update_vdp_metadata, function_status, stop | main and watcher threads |
| session (`grpc_main.cpp`, `session_reconnect.hpp`) | contexts, interruption cause, kept channel | subscribe, watcher, main loop | input files, KUKSA, bootstrap |
| `ReadinessPublication` | accepted value, two deadlines | due, completed | advisory thread, broker |
| `FunctionObservation` (`function_observation.hpp`) | ledger file, emission time | constructor, observe, next, accept | delivery thread, backend |
| bootstrap, `TokenSession`, `Lease` | token file, session directory, lease, pending request | one loop | KAC, service process |
| `FunctionFacts` (`function_observation.hpp`) | connection, input, activity, delivery, advisory, last result | one setter per part, snapshot, content check | every thread, through Runtime |
| delivery worker (`deliver`, `grpc_main.cpp`) | next times of three streams, failures in a row, the pending record | one loop | outbox, ledger, demo control, backend |
| frame assembly (`complete_frame`, Read loop) | last entry of each signal, last instant | one update | stream, Runtime |
| JSON (`json.cpp`), HTTP answers (`posix.cpp`) | none | parse, quote, canonical; parse_http_response | every file and message |
| feature extraction, SHA-256, UUID, arguments, demo modes, product build | none that outlives a call | | not modelled, see section 8 |

**What is hard.** Power loss and kills between the system calls of a
journalled write; commits that throw after their journal became durable; a
watcher that decides on a clock value read earlier; file replacement racing
gRPC calls that block; answers lost after the effect; statuses that arrive late
or twice; a reset that expires while its confirmation is under way; restarts
under another release; wall clock jumps; bounded queues at their limit.
`PROJECT.json` lists each with its line as a hazard.

**What makes each part correct.** Store: commits are atomic and durable and a
start refuses nothing the store itself wrote. Engine: one manoeuvre is one
episode. Condition model: the counters agree with the history. Advisory: a
sequence number names one request, the request shows the band, a reset has
exactly one, justified, result. Session: only a planned token change keeps
state, stale input is discarded and fresh input is not. Readiness: a stale READY
is withdrawn by a session that lasts. Ledger: an identity names one message and
nothing that was posted is forgotten. Facts: a snapshot is never refused and
names the engine's episode. Delivery: nothing is posted before its Retry-After,
only what the backend stored leaves the outbox, and a record waits for ever only
for the backend or the store. Bootstrap: no token outlives its lease and every
way out cleans up. Parsers: they accept exactly their grammar, and an answer
that was cut off is not taken for whole.

## 2. Modules

| Module | Models | Actions correspond to |
|---|---|---|
| `StateStore` | `state.cpp` at the grain of open/write, rename or unlink, directory sync | one action per system call group (`OpenTemp`, `Rename`, `Unlink`, `Sync*`), plus `Start`, `Load`, `Create`, `commit`, `NextMessage`, `acknowledge`, `CallFails`, `Kill`, `PowerLoss` |
| `AtomicStore` | abstract promise: the durable state and outbox change only by the one `Change` of the call under way, a commit's state and messages in one step, before the call returns | calls begin (`Create`, `Open`, `Commit`, `Acknowledge`, `Block`), `Perform` their change, `Return`, or are forgotten by a `Loss`; refined by `StateStore` (`ImplementsAtomicStore`) |
| `EpisodeEngine` | `EpisodeEngine::ingest`, `abort` | `Suppressed`, `Waiting`, `Begin`, `Continue`, `Gap`, `Repeat`, `abort` |
| `FunctionFacts` | the setters, the snapshot and the content check, as operators | used by the next one |
| `RuntimeInput` | the input side of `Runtime`: extends `EpisodeEngine` and `FunctionFacts`, and says what each method of each thread does to both | one action per method, or per branch of it |
| `ConditionModel` | `assess`, as operators | used by `AdvisoryRuntime` and `ConditionHistory` |
| `ConditionHistory` | `assess` over every sequence of episodes, with the history of raw and accepted bands | `Apply`, one episode |
| `AdvisoryRuntime` | advisory and reset methods of `Runtime`, over an atomic store whose commits may throw; extends `ConditionModel` | one action per method or per branch of it |
| `ObservationLedger` | `FunctionObservation` and its use in `deliver` | `Open`, `observe`, `next`, `accept`, `Rename`, `Sync` and failures |
| `Session` | `main`, `subscribe`, the watcher and the input side of `Runtime` | one action per step between two interleaving points |
| `ReadinessPublication` | the rounds of the advisory thread of each session that has passed its `Get` | `SessionOpens`, `SessionEnds`, `NextRound`, `AdvisoryPasses` or `AdvisoryThrows` (next_advisory, in the same try), `Evaluate`, `SetAccepted`, `SetUncertain` |
| `DeliveryWorker` | the delivery thread: three streams with their own times, back-off, Retry-After, failing stores | one action per part of an iteration and per outcome of an exchange |
| `TokenBootstrap` | the bootstrap process and every way out of it | `Sample` (clocks are read), then one action per outcome of the loop body |
| `JsonText`, `JsonString` | structure and strings of `json.cpp`, `canonical` | operators |
| `HttpFraming` | `parse_http_response` | operators |
| `FrameAssembly` | `complete_frame` and the Read loop | operators |
| `FrameHistory` | the Read loop over every sequence of updates, with the history of updates and ingested frames | `AddUpdate`, one update |
| `MCAlgorithms` | runs `ConditionHistory`, `FrameHistory`, the two JSON modules, `HttpFraming` and `ObservationLedger` side by side, and holds the reference definitions of the parsers | one action per kind of input |
| `MCBackground` | runs `RuntimeInput`, `ReadinessPublication` and `DeliveryWorker`, which share no state, each while the others rest | |
| `StateStoreProofs`, `RuntimeInputProofs`, `AdvisoryRuntimeProofs`, `ObservationLedgerProofs`, `SessionProofs`, `DeliveryWorkerProofs`, `TokenBootstrapProofs` | the theorems about the module each is named after, see section 6; those about the engine and `FrameHistory` are in `RuntimeInputProofs`, those about `ConditionHistory` in `AdvisoryRuntimeProofs` | |
| `StateStoreRefinement` | extends `StateStoreProofs` by the limits on records and bytes and the refinement of `AtomicStore` | |
| `MCStateStore`, `MCAdvisoryRuntime` | sizes and symmetry sets for TLC | |
| `MCSession` | the first contents of the files: contents of one kind are exchangeable, so every behaviour is, with other names, one of those that begin with them. Unlike a symmetry set this is sound for liveness | |

Modelling choices that a reader should know:

* **Crash images.** `disk` is what a process sees, `images` every content that a
  power loss may leave. A rename or unlink adds an image, a sync of a directory
  keeps only the images that agree with its visible content. The two
  directories are synced independently. File contents are synced before the
  rename, so a file is never torn.
* **Commits that throw.** `AdvisoryRuntime` takes a commit as one step and has
  both outcomes of a throw: the old document stays and the new one, or that of an
  earlier throw whose journal is still there, may be what the next start loads
  (`uncertain`), or the new one was already adopted.
  `StateStore` justifies it: `CommittedStateSurvives` is about the same set.
* **Time.** Instants are kept as ages or as time left, capped where the code no
  longer tells them apart. No thread is assumed to be faster than a tick. The
  bootstrap keeps a wall clock that may jump and a boot clock that may not.
* **Inspections.** Reading the files and recording what was found are separate
  steps of each thread, in `Session` as in `grpc_main.cpp:184`, 223 and 313, and
  the watcher goes on until a destructor has set `finished`. So what the watcher
  found may be recorded after the main thread has decided. The three reads of one
  inspection are one step.
* **Killed bootstraps.** A kill leaves the directory with its token, and the
  service only gets a SIGTERM: it may still run (`orphans`) when the next
  bootstrap starts. A destructor whose unlink fails leaves the token as well.
* **Messages and documents** are model values. A request is identified by its
  sequence, because `requestId` is a UUIDv5 of epoch and sequence.

## 3. Runs

| Run | Question | Bounds |
|---|---|---|
| `store_power_loss` | is the store atomic over power losses? | 2 states, 2 keys, 2 bodies, capacity 2 records and 3 bytes, batches of 2 |
| `store_faults` | what survives a failing call or a kill as well? | the same, batches of 1, one fault |
| `store_restart` (violation) | does every restart come up again? | no fault needed |
| `algorithms` | does each pure algorithm agree with its reference; identity, order and loss in the observation ledger | see below; ledger: 2 contents, 2 entries, integers up to 3, one stop besides power losses |
| `advisory_lease` | sequence and band over resends, renewals, a throwing commit and a restart | 4 episodes, sequence numbers up to 4 |
| `advisory_reset` | the same for resets; does every reset end? | 2 commands, 2 releases, sequence numbers up to 4 |
| `advisory_consumed` (violation) | does a reset keep old episodes consumed? | 2 commands |
| `session` | renewal, expiry, trust, readiness; does a session with replaced files end, and a stopping process? | 2 tokens, 2 contracts, 2 CAs, 2 file changes; limits of no tick for input and of one for readiness |
| `session_race` (violation) | is a token that was seen missing never taken for a renewal? | 2 tokens, 1 contract, 1 CA, 2 file changes |
| `background` | limits, clearance and suppression of the engine; do the facts stay valid and name its episode, whichever thread comes next? Is a stale READY withdrawn; is delivery neither early, nor wrong, nor stuck? | engine: gap 2, activation 3, clearance 4, duration 9, sample gap 2, 4 samples, two episode names, used in turn; readiness: spacing 1, retry 2, heartbeat 4; delivery: 2 records, back-off doubled twice, longest back-off 3, jitter 80, 100 and 120 %, Retry-After none or 4, period 1 |
| `readiness_retry` (violation) | is an uncertain write retried after the retry time? | spacing 1, retry 2, heartbeat 4 |
| `bootstrap` | lease, refusal, every way out, retry | life 3, margin 1, 2 directories, jumps of 2, at most 2 jumps in one process and 2 restarts |

Inputs of `algorithms`: histories of six episodes with three levels per feature,
four identities and two remembered; JSON texts of up to nine tokens, with a
nesting limit of one so that texts one deeper occur, and names that occur twice;
strings of up to four bytes out of nineteen at the limits of UTF-8, and of up to
three UTF-16 units out of twelve at the limits of the surrogates; answers with up
to two header fields and bodies of up to two chunks, cut off anywhere, with a
largest body of three; three updates of two signals with a window of one.

Why these are enough. The limits are chosen so that each is reached and passed:
a full outbox, a full ledger, an exhausted sequence, an engine that reaches its
sample limit before its duration limit, an improvement interrupted by another
better band, a token that expires between two iterations, a Retry-After beyond
the longest back-off. Two keys give both
orders of names; two releases, two commands and two tokens give old and new. In
the crash models one fault is combined with any number of power losses. The
capped ages are one past every comparison of the code.

Deadlock checking is off where the model really may stop: bounds on sequence
numbers, files or restarts are used up, or the process has ended.

## 4. What the runs show

The passing runs find no way to violate the properties listed for them in
`PROJECT.json`; each property has a mutant, a plausible wrong version of a
definition under which TLC does find a violation. Four runs are expected to
fail, each against a sentence of the repository (quoted under "findings"):

* `store_restart`: a power loss while `transaction.json.next` exists leaves a
  store that no later start accepts;
* `advisory_consumed`: a second reset before any assessment forgets the episodes
  that the first one had remembered, and one of them counts again;
* `session_race`: the watcher finds the token missing, the token comes back, the
  main thread inspects the files, finds a new token and decides on a renewal, and
  only then is what the watcher found recorded. `RenewalIsTokenOnly` says what does
  hold: nothing *recorded* before the decision was more than a new token;
* `readiness_retry`: a write that was not accepted is not repeated after one second
  when the readiness has meanwhile returned to the value accepted last, because
  `due` compares with that; it waits for the heartbeat. `StaleReadyEnds` says that
  the heartbeat does repair it.

Building the models showed further behaviours that a reader of the code should
know. No property of a run forbids them, because the code plainly does them:

* a process killed between the rename of a message and its directory sync is
  restarted, finds the file and removes its journal without a sync; a later
  power loss costs the message (`state.cpp:153`). `AcceptedMessagesSurvive` is
  therefore checked with power losses and without kills;
* a new reset command overwrites a result that was not yet delivered
  (`runtime.cpp:212`);
* in a renewed session the watcher may report CONNECTED before access was proved
  (`runtime.cpp:72`); `ClaimsAreBacked` says that it then reports STALE with it;
* a renewal keeps the episode under way, as the comment at `runtime.cpp:62` says,
  but when the new `Get` has passed (`runtime.cpp:261`, called at
  `grpc_main.cpp:230`) the activity of the episode is reported as SKIPPED until
  the next frame reports it ACTIVE again. `ActivityFollowsEngine` is therefore
  about observations with input RECEIVING;
* a finished episode is reported as SKIPPED with INSUFFICIENT_SAMPLES until
  `apply_episode` has counted it;
* the advisory fact REAUTHENTICATING stays after a renewal until the next advisory
  write or answer;
* the delivery fact calls a status 425 BLOCKED, although the record is posted
  again, and a 501 or 505 RETRYING, although it is not
  (`function_observation.hpp:265` against `protocol.cpp:85`);
* `update_vdp_metadata` aborts the episode under way without a word in the facts;
* a Retry-After is lost when storing the answer it came with throws;
* an answer without a framing header is taken as far as it arrived;
* on an exception the bootstrap waits for the request under way (up to eight
  seconds) before it removes the token, and it stops the service last
  (`token_session.cpp:91`);
* a wall clock set back between the issue of a token and `Lease::issued` lengthens
  the deadline on the boot clock by as much (`application.cpp:199`); `LeaseIsKept`
  counts from the sample of `Lease::issued`;
* `function_status("READY")` overrides an expiry that came after its frame
  (`runtime.cpp:86`), so readiness may hold for up to five seconds without input;
  `ClaimsAreBacked` says what does hold;
* `next_advisory` and the readiness share one `try` (`grpc_main.cpp:235`), so while
  `next_advisory` keeps throwing no readiness is published, and none is between
  two sessions; `StaleReadyEnds` has both as its conditions;
* `pending` always takes the least key (`state.cpp:165`), so a record that the
  backend answers for ever with 503, or with the body of another server, holds up
  every record behind it. `EveryRecordSettles` says that nothing else does but a
  store that keeps failing;
* eight directories left by killed bootstraps, or by failing unlinks, keep every
  later one from starting (`token_session.cpp:74`: "Fail closed"); `EndIsClean`
  says that no other way out leaves one.

## 5. Fairness

* `StateStore`: a thread inside an operation goes on and the supervisor starts
  a process that is down. No property of this version uses it.
* `AdvisoryRuntime`: time passes, the supervisor restarts the service, and the
  delivery loop comes round to `demo_control_ack` (every five seconds).
* `Session`: the main thread and the watcher run. `Get` has a deadline, so it is
  part of the main thread; `Read` has none, so a stream is only assumed to end
  once its context was cancelled.
* `ReadinessPublication`: a thread that exists runs, because every Set has a
  deadline of two seconds, and time passes. That a session lasts, that
  `next_advisory` passes when it is called again and again and that the broker then
  accepts some write are no assumptions of the specification; they are the
  hypothesis of `StaleReadyEnds`, without which nothing can be withdrawn.
* `DeliveryWorker`: the loop runs, because every exchange has a deadline, and time
  passes. Nothing is assumed of the store or of the backend; `EveryRecordSettles`
  names what either may do to hold a record up.
* `TokenBootstrap`: the loop sleeps 100 ms and never blocks, the exchange has a
  deadline, and time passes (strong fairness, because an iteration takes no time
  in the model).

## 6. Proofs

Each proof module proves inductive invariants and derives the rest from them;
what the theorems say of a run's property, TLC confirms on the instance of that
run. All theorems hold for every value of the constants that the named ASSUMEs
allow: any sets of states and messages, any limits, any number of faults and
restarts. The ASSUMEs give the constants their types and signs, order the delays
where the code does (a resend is not slower than a refresh), and say that
`None` and its like, which stand for an absent file, document or time stamp, are
not also present ones.

**`RuntimeInputProofs`, the engine.** `IInv` adds three facts to the type invariant.
`ClocksAgree`: the engine's own ages agree with the history's, so a running
`clear` is `clearRun` and a running `activation` outside an episode is
`activeRun`. `NotSuppressedIsReleased`: an engine that is not suppressed has been
released, by the driver or by an interruption; without it nothing relates
suppression, which the engine keeps, to the release, which only the history
knows. `CompleteIsCleared` itself. Theorems: `EngineTypeOK`,
`CompleteAfterClearance`, `EpisodesAreEarned`.

**`StateStoreProofs`.** `CommittedStateSurvives` and `ChecksumCovered` speak of
every crash image, and neither is inductive: while a transaction is replayed,
the images differ. Both concern the root directory only, so the argument is made
over `Roots`, the root directories of the images. `RootOK` says of each that it
recovers to a legitimate state, that its checksum matches unless a journal
covers it, and that a root without a state has nothing else. `VisibleOK` relates
the visible root to the others, and `ProgressOK` says how far the operation
under way has come: the journal is visible before the state is replaced, and
every root has the new state before the journal is removed. One lemma per kind
of edit says what it does to `Roots`; `RInvNext` then goes through the actions.
Theorems: `StoreTypeOK`, `CommittedSurvives`, `ChecksumMatches`.

`AcceptedMessagesSurvive` is about the outboxes of the images, `Boxes`. `MInv` says
that they agree but for the one message whose sync is due (`Agree`), that what is
owed is in all of them, that a journal never has two messages of one key, and how
far the messages of a transaction have come (`WritesOK`): what is not left to write
is in every box, which is why `replay` may skip a file that exists, and a message
being removed is no longer owed. Skipping is the step that needs `Agree`, and
`Agree` is what a kill breaks (section 4), so the theorem `MessagesSurvive` has
`MaxFaults = 0` as its hypothesis: power may go at any point, any number of times,
but no call fails and no process is killed while the machine stays up.

**`StateStoreRefinement`**, under the same hypothesis. The number and the bytes of
the stored messages are a cardinality and a fold over the keys. The library's
induction theorems cannot be used for a fold, so the module states induction
without a predicate: `NatCases` and `SubsetCases` take the set Q of the cases
that hold, and follow from the well-foundedness of `<` on the naturals and from
the cardinality of finite sets. With Q the subsets for which the sum exists
(`SumExists`) or for which two sums agree (`SumsAgree`) they give what one
message more or less does to the sum, and `AcceptedFit`: what `commit` accepts one
by one fits together with what is stored, in records and in bytes.

The refinement mapping recovers state and outbox from `synced`, what a power
loss is sure to leave, and the call from the operation under way (`CallMode`,
`CallArgument`): a call is under way in the atomic store until its change is
durable, and has then only to return. `SInv` says of it that it is `Healthy`
(what it recovers to is within the limits, and a journal and the files agree),
that every image is like `synced` or, when a sync is due, like `disk` (`Track`),
in which one file the two differ (`Written`), and what the operation under way
may count on (`Due`). `CInv` is `IInv`, `MInv` and `SInv` together. `TempsOK`
adds that no call meets a temporary in its way, so that each one runs to its
end. Between two syncs at most one file has changed, and whether a sync or a
power loss decides it, the step is the change of the call under way
(`PerformStep`; for a commit the sync of its journal, by which state and all
messages become recoverable at once), its loss (`LossStep`), its return
(`ReturnStep`) or a stutter (`QuietStep`). `SyncStep` goes through the syncs,
`AtomicStep` through all actions. Theorems: `FailuresAreLeftovers` (a start
gives up only over what an interrupted write left outside a journal, never over
the store's own limits) and `StoreRefines` (`ImplementsAtomicStore`).

**`RuntimeInputProofs`, the runtime.** `AInv` makes `ActivityFollowsEngine`
inductive with two facts that a reader of `runtime.cpp` relies on without seeing
them written down. `QuietOutside`: between sessions, and until a frame of the
new one has come, input is not RECEIVING, so `update_vdp_metadata` and `stop`
may abort the engine without telling the facts. `NoEpisode`: without a store,
during a reset and while a finished episode waits for `apply_episode`, no
episode is open, so the frames that bypass the engine and the answers that come
late contradict nothing. `Sound` says which facts the setters can produce; one
lemma per setter keeps it, and `SnapshotSound` leads from it to the check of
`content`. Theorems: `SnapshotsAreValid`, `ActivityIsTheEngines`. `EngineMoves`
goes through all methods once more and shows that each one is a frame, an abort
or nothing to the engine; `RuntimeRunsTheEngine` is the refinement that follows,
and `EpisodesInTheRuntime` takes the engine's two properties over to the runtime
and its threads.

**`RuntimeInputProofs`, the frames.** `FrInv` says that the value kept of a
signal is its last entry (`KeptOf`), or that there was none, and that the
previous instant is the one ingested last (`PreviousOK`). `KeptIsLast` turns the
check of the kept values into one of the history, `OldUpdates` says that what
holds of the first n updates is not changed by another. Theorem:
`FramesAreWhole`.

**`AdvisoryRuntimeProofs`.** What a start may find is either `st` or
`uncertain`, the document of a commit that threw, and neither can be followed
alone: a request may be in a document that no process knows of and may go out
only after a crash. `AInv` says of both documents that they are `Sound`
(`Matching` relates sequence, model, mirrored sequence, request and reset) and
`Consistent` with the outside (`SentBefore`: no request on the wire is newer
than the document's own, and only that one has its number; `ResultKnown`: a
posted result is the document's, and CLEARED was confirmed), and that
`uncertain` `Follows` `st`: its request is the same or newer, and a result that
`st` has is its result as well. Without the last part a result could be posted,
the process be killed, and a start load a document in which the reset ends in
another way. `BoundTo` ties a pending reset to the running process and
`StatusInv` a CLEARED under way to a request that was sent. Two lemmas carry the
actions: `Committed` (a document that `Keeps` all this may be committed, sent at
once, or become uncertain) and `Resent`. Theorems: `SequenceTheorem`,
`RollbackTheorem`, `DocumentTheorem`, `BandTheorem`, `ClearedTheorem`,
`OneResultTheorem`.

The section about `ConditionHistory` proves `BandFollows`. `CounterOK` is the
strengthening: the counter is the length of the current row of equal better raw
bands, over which the accepted band did not move (`Waited`), in both directions; a
counter that only were not too large would still allow an improvement to come late.

**`ObservationLedgerProofs`.** `LInv` says of every image that a crash can
leave, of the ledger in memory and of the one being written that it is `Safe` to
continue from: within the bound and in order, the identities on the wire used
up, no entry older than what was posted, and each posted message without a
receipt pending and marked as attempted. The mark is what eviction at the bound
respects, so it has to be in every image before the message goes out:
`HoldingInv` and the third conjunct of `WritingInv` carry it from `next` to the
POST. `OpenInv` says that between two commits memory and the only image agree.
Theorems: `PostedTheorem`, `IdentityTheorem`, `OrderTheorem`.

**`SessionProofs`.** `CauseRemembers`: whichever thread recorded more than a new
token, the cause of the interruption stays the graver one, so a step that
decides on a renewal has nothing graver on record, its own inspection included.
`FactsFollow` ties what the facts say to where the main thread is; it is the
strengthening that `ClaimsAreBacked` needs, because the watcher may act between
any two steps. Theorems: `RenewalTheorem`, `EpisodeTheorem`, `ChannelTheorem`,
`ClaimsTheorem`, `ExpiryTheorem`; the first and the last are about steps, and
the last follows from the ages' types and the watcher's second look. What one
thread has seen and not recorded yet is outside `RenewalTheorem`, see
`session_race` in section 4.

**`DeliveryWorkerProofs`.** `WaitCoversHold`: the wait of each stream covers
what its last answer asked for, and a record is posted only when the wait is
over. That a delay is at least the Retry-After rests on the least and greatest
elements of the sets the delays are made of, for any jitter. The specification
of the worker alone is `DSpec`. Theorems: `RetryAfterTheorem`,
`DeliveredTheorem`.

**`TokenBootstrapProofs`.** `PhaseInv` says who still holds directory and
service in each phase, on the way out as well, and that a token is in some
directory; `LeaseInv` that the token's age and what is left of its lease never
exceed the grant, which only holds while the boot clock decides; `DenialInv`
where a refusal is while the loop has not acted on it and that nothing follows
after it has. Theorems: `EndTheorem`, `DenialTheorem`, `LeaseTheorem`.

**Only model-checked.**

* Liveness, which is out of reach of the prover: `ResetResolves`,
  `SessionFollowsFiles`, `StopsWhenAsked`, `RequestsGoOn`, `EveryRecordSettles` and
  `StaleReadyEnds`, the only passing property of `ReadinessPublication`.
* The three parsers (`ParserAgreesWithGrammar`, `StringsRoundTrip`,
  `ResponseIsWhole`): `json.cpp` and `posix.cpp` are recursive over their input, and
  a statement about all inputs needs an induction over texts.

With kills or failing calls, what `MessagesSurvive`, `FailuresAreLeftovers` and
`StoreRefines` say is neither claimed nor true (section 4); `CommittedSurvives` and
`ChecksumMatches` hold with any number of them.

## 7. Plan

Done, in this order: the store, the engine and the condition model, the advisory
logic, the ledger, the session, readiness and the bootstrap; then the function
facts with the input side of `Runtime`, the delivery worker, and the parsers and
frame assembly that everything passes through; then the proofs of section 6. What
is left:

1. a composition of `Session`, `ReadinessPublication` and the advisory thread,
   in which the readiness comes from the session's own input;
2. liveness of the store: an operation ends.

## 8. Not modelled

* `extract_features`: floating-point arithmetic over one episode. Its result is
  the range of features over which `algorithms` quantifies.
* `sha256.cpp`, `uuid.cpp`: bit arithmetic; a digest and an identifier are taken as
  injective.
* In `json.cpp` the spelling of numbers and literals (each is one token) and the
  size limits of `parse_json`.
* In `posix.cpp` sockets and files; they and the gRPC library appear as the
  answers, failures and lost replies that the models quantify over.
* Validation of envelopes, of the fields of metadata and receipts and of
  arguments; file modes, owners and locks.
* In `Session` the reads of CA and token when a session opens are one step, and so
  are the three reads of an inspection: a change between two of them comes before
  or after both.
* `demo_mock.hpp`, `demo_no_telemetry.hpp`, `tools/build_product.py`.
