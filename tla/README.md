# A verification of tkr-cloud-video

`tkr-cloud-video` renders video on rented GPU workers and delivers the result
through a private object bucket. This directory holds TLA+ models of the parts
of it that are hard to test, the TLC configurations that check them on small
instances, and proofs, checked by TLAPS, of what matters most about the commit
protocol, the retention of what was committed, the startup of a worker and its
cache, the publication of model sets, the rules of the bucket, the provisioning
of keys, the answers of the console and the way of a request into the graph, for
every size of them.

Paths below are relative to `src/src/tkr_cloud_video/` of the repository.

## The system

A request (`jobs/contracts.py`) reaches a worker as a RunPod event
(`release/runpod_handler.py`, `release/serverless.py`). The first event starts
the worker: preflight, hydration of a model set from the bucket, the ComfyUI
child process and its validation (`runtime/`, `worker.py`, `artifacts/`).
`CloudVideoApplication.submit` (`application.py`) then derives the identity of
the job and its one attempt from the principal and the hash of the request,
looks for a committed result, and otherwise stages the inputs, binds and runs
the workflow (`jobs/`, `adapters/comfy.py`), uploads the video and two JSON
records, and publishes `result.json` (`delivery/uploader.py`,
`delivery/commit.py`). Consumers read the bucket only through that marker
(`delivery/api.py`, `console/`). A control plane expires attempts
(`delivery/reconciler.py`, `operations/retention_command.py`), and describes and
erases single records for the principals they belong to
(`delivery/subject_requests.py`).

The parts meet in the bucket and almost nowhere else. There is no database and
no lock beyond one process; every await on the bucket is an `rclone` child
process with a deadline (`adapters/rclone.py`, `adapters/process.py`).

### Inventory

| Component | State it keeps | Operations | What is hard about it | What makes it correct |
|---|---|---|---|---|
| `application.py` | one `asyncio.Lock` per request and process | `submit` | duplicates in one process and across processes, failures at every await, crashes | one workspace per delivery, an answer for every caller, no false "committed" |
| `delivery/` upload and commit | objects under `outputs/<job>/<attempt>/` | `upload`, `commit` | head-then-put races, puts that land and then time out, retries over leftovers | publish-last, immutability, retries converge |
| `delivery/reconciler.py` | none between sweeps | `run` | classification is old when it is used; deletions are refused or interrupted | periods are kept, a clean sweep is thorough, what is expired goes |
| `delivery/subject_requests.py` | none | `describe`, `erase` | races with sweeps and uploads | an announced expiry is kept, the marker goes last |
| `delivery/lifecycle_rules.py`, `adapters/b2_lifecycle.py` | rules of the bucket | `project`, `detect_drift`, `apply` | overlapping prefixes combine by the smallest value | no declared period is shortened |
| `delivery/api.py` | none | `lookup`, `download` | two awaits on one result | a link only for a committed video |
| `jobs/executor.py`, `adapters/comfy.py` | ComfyUI's queue and history | `execute`, `submit`, `status`, `cancel` | a deadline racing a completion, cancellation that reaches queued prompts only | no prompt renders for nobody |
| `runtime/`, `worker.py`, `release/serverless.py` | the worker's lifecycle, the child process | `start`, `drain`, `ensure_started`, `handle` | failures at every step, repeated starts, a dying child | work is admitted only when ready; a failed worker says so and stays failed |
| `artifacts/` publication | blobs and manifests of model sets | `publish`, `publish_manifest`, `resolve` | interrupted publication | a resolvable manifest has all its blobs |
| `artifacts/` cache | cache directory, leases | `hydrate`, `ensure_capacity`, `lease` | eviction against hydration, partial files | a leased blob is never evicted, a right one never changed |
| `security/b2_keys.py` | provider keys | `provision`, `rotate` | failures of the compensation itself | no key without an owner, no gap at a rotation |
| `console/` | in-memory register of runs | `generate`, `observe`, `delivery`, `cancel` | a thread per call, repeated registration, polls that overtake each other | the state shown was true, a link only for what this session submitted |
| `jobs/contracts.py`, `input_staging.py`, `workflow_binder.py`, `console/intake.py`, `release/runpod_handler.py` | none | `preflight`, `validate`, `stage`, `bind` | the same request is parsed by two hosts, inputs change on the way | what is bound is what was shown, inside the envelope |
| `security/` gates, `release/` rollout, `operations/` alerts, `jobs/trained_envelope.py`, `prompting/` | none | pure decisions | boundaries | agree with their definition |

All but the last row is modelled. Of the last row the trained envelope and the
structured prompt are, since a request depends on them; the rest is under "Not
modelled".

## The modules

| Module | Models |
|---|---|
| `ResultStore` | the output bucket as the code uses it: objects with content and day, existence, comparison of content, create, delete |
| `ResultCommit` | `submit`, `_execute`, `VerifiedUploader.upload`, `RcloneB2Client.put`, `ResultCommitter.commit`, crashes of a process |
| `JobResult` | the abstract promise of a submission: a deliverable appears whole, once, for ever, and callers are told only afterwards |
| `Retention` | `RetentionReconciler.run` and `SubjectRequestService.describe` and `erase` |
| `DurableDelivery` | workers and control plane over one bucket |
| `ResultCommitProofs` | the theorems about `ResultCommit` |
| `DurableDeliveryProofs` | the theorems about `DurableDelivery`, `Retention` included |
| `ComfyUi` | the ComfyUI child as the code uses it: queue, running prompt, history, death |
| `PromptExecution` | `PromptExecutor.execute` and the ComfyUI client below it |
| `WorkerRuntime` | `WorkerLifecycle`, `WorkerSupervisor.start` and `drain` |
| `Worker` | one worker process: `ensure_started` and `handle`, or `WorkerApplication.run` |
| `WorkerProofs` | the theorems about `Worker` |
| `PublishedSets` | the abstract promise of the catalog of model sets: no set before its blobs, nothing withdrawn |
| `ModelCatalog` | `StreamingArtifactPublisher` and `ModelSetPublisher` over `ArtifactRcloneStore`, several operators at once |
| `ModelCatalogProofs` | the theorems about `ModelCatalog` |
| `ModelCache` | a worker's disk: `ArtifactHydrator`, `CacheIndex`, `CacheEvictor`, `ModelMaterializer`, `ModelSetResolver` and the startup steps that call them, over restarts |
| `ModelCacheProofs` | the theorems about `ModelCache` |
| `KeyProvisioning` | `CredentialProvisioner.provision` and `rotate` against a provider that may enforce something else |
| `BucketRules` | `retention apply` and `retention check`: `LifecycleRuleSet`, `detect_drift`, `B2BucketRuleAdapter` |
| `OperatorProofs` | the theorems about `KeyProvisioning` and `BucketRules` |
| `Console` | `ConsoleService`, `JobRegistry`, `ConsoleResultRepository`, `ResultService.lookup` and `download`, and the polls of the page |
| `ConsoleProofs` | the theorems about `Console` |
| `TrainedEnvelope`, `PromptGrammar` | the trained range of a model set; composition, checks and wire text of a structured prompt |
| `JobIntake` | a request from the console or a caller through `validate`, staging and binding |
| `IntakeProofs` | the theorems about `JobIntake` and the two modules below it |
| `MCResultCommit`, `MCDurableDelivery`, `MCWorker`, `MCModelCache`, `MCConsole`, `MCCommands` | instances for TLC |

`ResultCommit` and `Retention` extend `ResultStore`; `DurableDelivery` extends
both and interleaves them with the clock of the provider. `PromptExecution` and
`WorkerRuntime` extend `ComfyUi`, and `Worker` composes the two. The two groups
meet at `Generate` in `ResultCommit`, one step that yields some render or fails.
`ModelCatalog` implements `PublishedSets`, and `ModelCache` takes the catalog as
`PublishedSets` says it is, so the two compose over that promise. `JobIntake`
extends `TrainedEnvelope` and `PromptGrammar`. `MCCommands` puts `KeyProvisioning`,
`BucketRules`, `ModelCatalog` and `JobIntake` side by side: they share no state,
and the variable `command` picks the one that runs, so their instances add up.

### State and steps

**The bucket.** `objects[j][k]` is the object under key `k` of the attempt of
request `j`, with its content and the day it was written. The identity of an
attempt is a function of the request (`application.py:201-210`,
`subject_requests.py:181-197`), so a request stands for its job, its attempt
and its prefix. Contents are renders (videos), records and manifests; equality
of content stands for the comparison of size, digest and version. The version is
the digest for the buckets this code addresses (`adapters/rclone.py:218`).
`RcatOverwrites` says whether the provider lets a create replace an object that
appeared after the head: `--immutable` promises that it does not, and the model
can be told otherwise.

**A delivery** (`Task`) walks through `submit`: `pc` names the await it is at.
Each action is one await and the code up to the next one, so that deliveries of
all processes interleave exactly where the event loop and the network let them.
`Finish` is the `finally` clause of `_execute`; `Leave` is the end of
`async with lock`. `RcatLandsThenFails` is the command that times out, or whose
answer is lost, after the object was created. `Crash` loses a process with its
locks; its attempt directories survive if the restart happens on the same disk.
The outcome `rejected` is a refusal for what was found in the bucket or on the
disk, `failed` is a failure of a provider, of the generation or of time.

**A sweep** is a record of the locals of `RetentionReconciler.run`: it lists,
classifies every attempt by one head each, then walks through them again and
deletes what is expired, the marker of each attempt last. The instant of
judgement is the one at which the command started. **An erasure** lists and
deletes. `DeletesRefused`, `MarkerUnreadable` and `ControlDies` switch on the
failures of a provider and of the command.

**A worker** is one process of either deployment, chosen in `Init`. A
serverless worker takes events, up to `Concurrency` at a time; `pc` is the await
at which each is, from the startup gate through `execute` to its answer, and
`gate` holds the startup lock. `stage` names the step of `WorkerSupervisor.start`
that a starter awaits, kept per starter so that it is the lock, not the model,
that keeps two starters apart. A step ends in its transition (`StepSucceeds`),
in a transition that the table refuses (`StepRejected`), or in an exception
(`StepRaises`). `failure` tells the last two apart, while the code keeps the name
of the exception's class. A standalone worker has `main` instead of events.
ComfyUI may die at any moment and nobody starts it again; a request to it may
fail whether or not it took effect.

**A publisher** (`pub[p]`) is at one item of the work of its set: every artifact
in the order of the manifest, then the manifest. Looking for the item, looking
again in `put` or `put_url`, the transfer and the verification are four steps,
and a rival, or an edit of a file, may come between any two. An object is known
by what a head can tell: its label is the digest of its key, whoever wrote it,
so only the size tells it from the bytes its key names. A transfer may land and
fail; nothing is ever deleted. A URL serves the same bytes whenever it is asked.

**A worker's disk** (`blobs`, `orphans`, `links`) outlives its processes.
`boot` is the position of a startup: it resolves a manifest, asks the bucket for
the size of each artifact, probes the disk, hydrates and links one artifact
after the other. `call[c]` is a call of `hydrate`, by the startup or by a
prefetcher, which waits for the lock of its digest, downloads a private partial,
and moves it into place if it verifies. `EnsureCapacity` is one call of the
evictor, which has no await. `Lease` checks nothing, as `CacheIndex.lease` does not
(its docstring speaks of a verified blob), so a blob may be leased that a hydration
then finds torn and downloads again; `DiskIsKept` allows that change and no other.

**A key** has what the provider really lets it do (`may`), which may be more or
less than what was asked for. A provisioning creates a key, probes it operation
by operation, and either activates it or revokes it; a rotation then revokes the
old key. Each call may fail before or after it took effect, or be cancelled.

**A retention command** loads a policy, and writes or reads the rules of the
bucket in one await. The provider applies to an object the smallest period of
the rules that match it (`Effective`).

**A console call** (`call[c]`) is one HTTP request on one thread: generate,
observe, link; each await on the run service or the bucket is a step. `card[r]`
is what the page shows of a run, whether its timer is set and whether its video
is attached. Runs and results change on their own: a run may fail after its marker
has landed, and a run that was reported as cancelled, timed out or failed may still
commit (`RunIsLost`), since neither `run_client.py` nor `service.py` makes sure that
its worker has stopped. A job id is the pair of
principal and request, so two runs of a request share one. `Restart` empties the
register and loses every call, while the page stays open and its timers fire on.

**A request** is a record of its fields; `Filled` is what `RequestBase` makes of
absent dimensions. The console and the worker each have the registry of ranges of
the revision they were built from. Documents of a structured prompt keep of each
text what a rule can tell; times are in half milliseconds, so that the rounding
of the renderer has its ties.

## What the runs check

All bounds are named constants in the configurations.

| Run | Instance | Shows |
|---|---|---|
| `CommitRivals` | one request, two processes, two renders with two records, two clock readings | `CommitInv` (publish-last and its inductive strengthening; whoever is told finds the marker), `PublishedIsImmutable`, `ImplementsPromise` (refinement of `JobResult`), `RetriesCommit` (liveness) |
| `CommitOneProcess` | three deliveries of one request to one process, a bucket that lets a late create overwrite, disks that survive | `CommittedComplete`, `WorkspacesApart`, `SubmissionsEnd` (liveness) |
| `DurableQuiet` | one request that two processes serve, three days, periods of one and two days, refused deletes, unreadable markers, interruptions; sweeps and erasures overlap no submission | `RivalInv` (rival deliveries never mix their artifacts, and why), `DeliverableKeepsItsPeriod`, `MarkerGoesLastUnlessRefused`, `DescribedIsKept`, `CleanSweepFollowsItsClasses` |
| `DurableSwept` | two requests, three days, callers that come back between the sweeps | `ToldIsWhole` (who is told that a request is committed is told of a whole result), `ExpiredGo` (liveness) |
| `DurableFree` | the same steps without any discipline, for a request that one process serves | `DurableInv` (types, no artifact differs from what its marker records, and why) |
| `WorkerServes` | two events, two at a time, and the standalone worker | `WorkerInv` (types, admission to a ready worker only, one child, the strengthening of the startup, and what queue and history of ComfyUI tell of an event), `FailsByItsStepsOnly`, `FailedForGood` (nothing is launched or let through after a failure), `RendersOnce`, `TimedOutNeverStarts`, `EventsAnswered` and `StopIsObeyed` (liveness) |
| `ModelCache` | two sets over three blobs whose workflows take the same destination, a prefetcher, a disk with leftovers | `CacheInv` (a ready worker has the pinned bytes), `DiskIsKept`, `EvictsLeast`, `StartupEnds` (liveness) |
| `ConsoleRuns` | two runs, two threads, one fault or restart, two principals | `AnswersAreTrue`, `RestingCardsPlay` (a card that is polled no more has its video), `CommittedIsTold` (liveness) |
| `Commands` | three keys, two roles; two retention days and two edits; two operators and two sets that share a streamed blob; some four hundred requests against two ranges | `KeyInv`, `StraysAreAccounted`, `RulesInv`, `CatalogInv`, `KeepsPromise` (refinement of `PublishedSets`), `PublicationEnds` (liveness), `IntakeInv`, `PreviewIsBound`, `NoLateRefusal`, `ValidIsRenderable`, `WireReadsForward` |
| `CommitPoisoned` | as `CommitRivals` | `MismatchesRecover` fails, see below |
| `DurableRace` | sweeps and submissions overlap | `DeliverableKeepsItsPeriod` fails |
| `IntakeRaises` | as `Commands` | `RefusalsAreNamed` fails |

**Why these bounds.** A race on a key needs two deliveries on two processes, a
wait for the lock behind a wait needs three on one. Two renders are needed for
one to differ from another, and two clock readings for two manifests of the
same artifacts. Whether a record (`generation.json`) tells two renders apart is
up to ffprobe; `CommitRivals` takes records that do, the other runs a record
that does not, which is the harder case for `DurableInv`. Three days are enough
for an attempt to outlive the shorter period, then the longer one; the theorems
about `DurableQuiet` hold for any number of days and processes. Two events
are enough for one to wait behind the other at the startup lock and in ComfyUI's
queue, and for one to follow the failure of the other. `cli.py` starts the SDK
with its default of one event at a time, so `WorkerServes` with two is what the
gate claims to be safe for (`serverless.py:55`).

Two operators and a shared blob are enough for each race on a key of the
catalog, and two sets for a receipt over a blob that the other one put. Three
blobs of which only two are ever in one set give the evictor something to spare
and something to take, the one destination that both workflows take makes a link
change its target, and a prefetcher is a second caller of `hydrate`. A rotation needs two
keys and a retry of it a third. `BucketRules` has periods of one and two days and
the two values that a document may not have, zero and three; two edits let one
come before and one after the command's read. Two runs of one request are what
shares a job in the console, and two threads what lets an older answer arrive
last. Calls overlap freely until the second run is submitted; from then on a poll
of one run overlaps with a poll of the other (`PollsOfTwoRuns`). `MaxFaults` is one,
since a fault only ends a call or loses a run and a restart ends all calls. In
`ModelCache` one lease is held at a time, on any blob there is or is not, and dead
processes leave at most three bytes of partials (`MaxOrphans`). The requests of
`Commands` differ from a plain one in what one check asks: dimensions and frames
at and around every bound of two ranges, cuts at, before and beyond the end of the
clip and half a millisecond apart, speakers in any order, labels used and unused,
inputs owned and not, pinned and not, and one replacement of an input object.

**Fairness.** `FairSpec` lets every delivery go on: the event loop runs ready
tasks and every command has a deadline (`adapters/process.py:60-76`). The lock
is strongly fair because `asyncio.Lock` wakes its waiters in order. `RetrySpec`
adds that callers submit again and that provider failures and crashes end;
without that nothing could be committed for certain. `RetriesCommit` holds for a
request whose generations render the same video. `SweptSpec` is the operator who
repeats sweeps that delete, meet no refusal and read every marker. `FairSpec` of
`Worker` asks the same of the worker: every request to ComfyUI and every command
of the startup has a deadline, the health check gives up
(`adapters/comfy.py:188-199`), and a child that does not terminate is killed.
It asks nothing of ComfyUI, so `EventsAnswered` rests on the deadline alone.
`CatalogFair`, `CacheFairness` and `ConsoleFair` ask that an await ends, for the
same reason: every command and every HTTP call has a deadline. The lock of a
digest is an `asyncio.Lock`, so waiting for it is strongly fair. A timer of the
page fires again and again, which is strong fairness of `Poll`: a thread may be
busy whenever it fires, but not for ever. Nothing is asked of the runs, of the
control plane or of the provider of keys.

**The discipline.** `QuietSpec` keeps sweeps and erasures apart from
submissions and from each other. Nothing in the code does so: it is what an
operator has to see to, and `DurableRace` shows what happens otherwise.

### What the code does not do

The runs that expect a violation record where the code and its documents part:

1. `CommitPoisoned`. A retry whose video differs from what an interrupted try
   uploaded is rejected for ever, since a new try has the same identity. The
   runbook `docs/runbooks/delivery-failure.md` asks for a new attempt identity
   then, and no code path creates one.
2. `DurableRace`. A sweep judges an attempt failed and old, a retry commits it,
   and the sweep deletes the committed result (`reconciler.py:123-137`).
3. `IntakeRaises`. A structured prompt that has the sections of its mode and one
   field of a wrong type or length raises the model library's own error from
   inside composition (`prompting/models.py:161`). The handler and the console
   catch that error around parsing only, so the worker's SDK sees an exception
   instead of a response, and the console's caller no code.

More, without a run. Two processes that serve one request while a sweep runs can
leave an artifact of another attempt beside a marker: the first has verified its
video, the sweep deletes it, the second uploads its own under the same key, and
the first publishes its manifest (TLC finds 32 steps). The runbook asks never to
mix evidence between attempts (`docs/runbooks/delivery-failure.md:12`);
it takes the sweep: `NeverMixed` speaks of a request that one process serves, and
`RivalInv` of any number of processes while sweeps keep apart. A policy may keep a
failed attempt longer than a deliverable (`lifecycle.py` orders no periods), and
then a commit shortens an expiry that was announced; `DescribedIsKept` needs
`FailedPeriod <= DeliverablePeriod`. A refused delete is passed over and the
marker is deleted after it, in erasures and in sweeps (`subject_requests.py:170`,
`reconciler.py:201`), so `MarkerGoesLastUnlessRefused` says what its name says; an
interrupted deletion leaves a marker without its artifacts, and a duplicate
submission is told that it is committed, since `submit` looks at the marker only
(`application.py:78`). `ToldIsWhole` excepts that one case: a duplicate, where
deletions are cut short or refused. With the default `B2_BASE_PREFIX` the
retention command looks under `tkr/outputs/`, while workers write under
`outputs/`; `ExpiredGo` is checked with both the same. A timeout removes its
prompt from the queue but not from the GPU (`comfy.py:167`), so the next event's
prompt waits behind one that nobody waits for. An expired failed attempt whose marker cannot be read is
retained, and the sweep still calls itself clean (`reconciler.py:185`), so
`CleanSweepFollowsItsClasses` speaks of the class the sweep assumed; and a crash
leaves an attempt directory that makes every retry on the same disk fail
(`workspace.py:38`), so `RetriesCommit` is checked for restarts on a new disk. A failed status poll
leaves `execute` without a cancel, so its prompt renders on even if it was only
queued (`executor.py:44`). A worker whose ComfyUI has died stays READY, and each
of its events is answered with an error. `fail` overwrites the code of the first
failure with that of every later attempt to start (`lifecycle.py:67`). A startup
that fails at validation leaves its child running, and `run` leaves without a
drain then (`worker.py:212`), so `StopIsObeyed` speaks of a worker that came up.

Of the catalog: a URL source is never hashed, so a set may resolve whose blob has
the pinned size and other bytes, and every worker then refuses it at hydration
(`streaming_publisher.py:50`); an object of another size blocks its digest for
ever, since nothing deletes it. Of the cache: preflight asks for twice the bytes
of the set whatever is cached already (`preflight.py:58`), so a warm disk can fail
where a cold one passes. Of requests: a trained range whose short edge is below
the floor of a request, or whose least frame count is below its offset, can be
constructed and refuses its own defaults (`Usable`); the mode of a request and
the mode of its structured prompt are unrelated (`composition.py:175`); an input
that no binding names is staged and dropped (`workflow_binder.py:58`). Of the
console: a card whose link failed once is not asked again when its timer has
stopped, so `CommittedIsTold` speaks of what the card says and not of the video,
and of times when no link is asked for; a link is signed for a committed job
whose video is gone. A poll that was answered before its run ended may be heard
after the one that stopped the timer; it writes its older status over the newer one
(`app.js:334-358`), and the card says that the run is in progress while its video
plays. A run that the provider has given up while its worker goes on is shown as
failed and polled no more, and its video, once committed, is seen when the request is
submitted again. `RestingCardsPlay` therefore speaks of completed runs. A console that restarts forgets what it submitted, as its
documents say (`results.py:11-15`): the card of such a run, still open, comes to
rest without a word about the result, which is there and which the same request,
submitted again, shows. `Forgotten` keeps `CommittedIsTold` from speaking of it.

## What is proved

`ResultCommitProofs` proves, for any set of processes, deliveries, requests,
renders, records and clock readings, on the assumptions `StoreAssumption` and
`TaskAssumption`:

| Theorem | Statement |
|---|---|
| `CommitInvariant` | `CommitSpec => []CommitInv` |
| `TypeCorrect` | `CommitSpec => []CommitTypeOK` |
| `PublishLast` | `CommitSpec => []CommittedComplete` |
| `Immutable` | `CommitSpec => PublishedIsImmutable` |
| `Refinement` | `CommitSpec => Promise!Spec` |
| `OneWorkspaceEach` | `CommitSpec => []WorkspacesApart` |

All but the last assume `~RcatOverwrites`, which is what `--immutable` buys: a
rival that could still replace an object would break publish-last, and TLC finds
that when `RcatLands` loses its guard.

**The argument.** Publish-last is not inductive: a delivery that is about to put
the marker knows of the artifacts only what it saw some awaits ago. `CommitInv`
adds what each delivery holds (`Locals`) and that every artifact it has verified
still has the content its manifest records (`Evidence`). `Evidence` survives the
steps of rivals because the bucket only grows: a create lands on an absent key
(`RcatGrows`), so an object never changes (`EvidenceStays`). When the marker is
put, the evidence of the delivery that puts it is exactly `Complete`
(`WriteCompletes`), and there is no other way for a marker to appear
(`MarkersComplete`). Types, locals and evidence are inductive by themselves
(`WorkInv`, `WorkNext`); that a caller told "committed" finds the marker rests on
them (`ToldFoundMarker`). The refinement follows step by step: putting the marker
is `Publish`, leaving with `returned` is `Tell`, submitting again is `Ask`, and
everything else is a stutter (`QuietRefines`, `WriteRefines`). `OneWorkspaceEach`
needs the lock only: the delivery inside is its holder (`OneHolder`).

`WorkerProofs` proves, for any set of events and any `Concurrency`, on the
assumptions `EventAssumption`, `MainAssumption` and `ConcurrencyAssumption`:

| Theorem | Statement |
|---|---|
| `WorkerInvariant` | `Spec => []WorkerInv` |
| `WorkerTypes` | `Spec => []TypeOK` |
| `OwnFailures` | `Spec => FailsByItsStepsOnly` |
| `FailureIsFinal` | `Spec => FailedForGood` |
| `TimedOutStaysOut` | `Spec => TimedOutNeverStarts` |
| `RenderedOnce` | `Spec => RendersOnce` |

**The argument.** That a READY worker is needed for admission says nothing about
the event that is starting it. `StartupInv` says that there is one starter
(`OneStarter`: the holder of the lock, or the main task), that what it awaits
tells where the lifecycle is (`InStep`), and that without a starter the
lifecycle is at none of the states between (`Settled`). The next starter then
meets a new lifecycle or a failed one, so a transition is refused only after a
failure (`StepFails`), the edge into VALIDATING, which launches, is taken once
(`StepMoves`, `NoChildYet`), and the last step is the one into READY. A failure on
record leaves the lifecycle in one of its two last states (`FailureIsLast`), from
which no step of a startup succeeds, so `FailedForGood` needs only that one
invariant more.

What the queue may hold is `QueueInv`: an event is in it once at most, and not
before its submission nor after a timeout has taken it out. A prompt that starts
is the first of the queue (`OnlyTheFirstStarts`), so one that was taken out never
does. `Fresh` says that what is not submitted yet, or waits in the queue, has no
ending in the history, is not running and was told none, which is `RendersOnce`
when it starts; `FreshKeeps` is where a submission whose answer was lost is not
repeated. `TailOf`, `AppendOf` and `RemoveAtOf` say what the three changes of a queue
leave in it. That the running prompt is an event, and so the types of ComfyUI's
state, follows from what the queue holds (`ChildTyped`), not the other way round.

`ModelCatalogProofs` proves, for any operators, sets, artifacts and sources, on
`CatalogAssumption`:

| Theorem | Statement |
|---|---|
| `CatalogInvariant` | `CatalogSpec => []CatalogInv` |
| `CatalogKeepsPromise` | `CatalogSpec => KeepsPromise`, the refinement of `PublishedSets` |

**The argument.** A late create may replace an object of a rival, so it is not
evident that what a publisher has passed is still there. `FilesAreExact` says
that all that is ever written under a key is one payload; hence an object found
with its size keeps it (`LandingKeepsSizes`), and what was passed stays behind
(`ReceiptResolves`). The manifest is the last item (`WorkIsArtifactsThenManifest`),
so it lands behind all it names (`TransferLandsKeeps`). Each landing is then a
`Hold`, a `Publish` or nothing new (`LandingIsPromised`).

`OperatorProofs` proves, for any keys, roles, capabilities and number of
failures, on `KeyAssumption`:

| Theorem | Statement |
|---|---|
| `KeyInvariant` | `KeySpec => []KeyInv` |
| `AccessIsKept` | callers hold only keys that were proved, and never lose access |
| `EveryStrayIsAFailure` | `KeySpec => []StraysAreAccounted` |

**The argument.** That the holder's key is proved is not inductive: the
replacement is proved probe by probe while the old key still counts. `JobIsSound`
adds what has been probed so far and that a key on trial is nobody's yet. Strays
are counted as a set: `StraysFollowMishaps` says that a step adds one stray at
most, and only when it spends a failure, and `OneMore` what one element more does
to a cardinality. The key of the job at hand is no stray, nor is the holder's.

It also proves, for any period the policy allows and any number of edits, on
`RulesAssumption` and `RuleAssumption`, `RulesSpec => []RulesInv`
(`RulesInvariant`). The core is no induction but a fact about nested prefixes:
under the projected rules an input matches two and an output one, and of those
that match only one sets a period, the declared one, for each thing a rule can do
(`TwoRulesEnforce`, `ProjectionEnforces`). An undrifted bucket is a projected one
(`UndriftedIsProjected`), and `AppliedIsProjected` carries that over edits.

`IntakeProofs` proves, for any documents, ranges, registries, workflows and input
buckets, on `IntakeAssumption` and `EnvelopeAssumption`:

| Theorem | Statement |
|---|---|
| `IntakeInvariant` | `IntakeSpec => []IntakeInv`: the envelope, with the area cap that its two edge bounds imply, and the staged inputs |
| `PreviewHolds` | `IntakeSpec => []PreviewIsBound` |
| `NothingIsRefusedLate` | `IntakeSpec => []NoLateRefusal` |
| `ValidIsRendered` | `IntakeSpec => []ValidIsRenderable` |
| `TextReadsForward` | `IntakeSpec => []WireReadsForward`: times in the wire text ascend, and speakers are numbered as they are heard |

**The argument.** `WayInv` says what is on its way: the worker's verdict is one on
what was sent, and what the console sent is the request it showed. A filled
request is left alone by every registry (`FilledIsStable`), so the worker's
request is the console's; with the same registry the verdict is the same as well
(`AcceptedIsAccepted`). The checks of a prompt imply what the renderer and the
header ask (`ValidHasWireForm`), and rounding keeps the order of times
(`RoundingKeepsOrder`). The lines of a wire text are flattened by a recursive
function; that this yields a sequence, and that speakers take their numbers in
order, is shown at the least line for which it would fail (`LeastNatural`,
`FlattenedIsSequence`, `NumberedAsHeard`), since the induction theorems of the
library are out of the provers' reach.

`DurableDeliveryProofs` proves, for any processes, deliveries, requests, renders,
periods and day of the provider's clock, on `StoreAssumption`, `TaskAssumption`
and `RetentionAssumption`:

| Theorem | Statement | Further assumptions |
|---|---|---|
| `DurableInvariant` | `Spec => []DurableInv` | none |
| `DeliverablesAreKept` | `QuietSpec => DeliverableKeepsItsPeriod` | none |
| `DescriptionsAreKept` | `QuietSpec => DescribedIsKept` | `FailedPeriod <= DeliverablePeriod` |
| `MarkersGoLast` | `QuietSpec => MarkerGoesLastUnlessRefused` | none |
| `CleanSweepsAreThorough` | `QuietSpec => CleanSweepFollowsItsClasses` | `SeesOutputs` |
| `RivalsNeverMix` | `QuietSpec => []RivalInv` | `~RcatOverwrites` |
| `WhoIsToldIsToldOfAll` | `QuietSpec => ToldIsWhole` | `~RcatOverwrites` |

`SeesOutputs` says that the retention command and the workers resolve `outputs/`
to one place. Where they do not, a sweep finds nothing and takes nothing
(`BlindTakesNothing`), so only the promise that it is thorough is lost.

**The argument.** Without the discipline the bucket no longer only grows, so
`Evidence` of `ResultCommit` is lost. What is left is that a sweep takes away and
never changes (`ShrinkKeeps`): an artifact may be gone, and then the question is
who puts another one. The lock of the one process keeps every other delivery of
the request outside (`OthersOutside`), so it is the delivery itself, with the
render its manifest records (`WorkCarries`, `RcatKeeps`). `OwnWork` is that
statement made inductive, and `NeverMixed` follows when the marker is put.

Under the discipline the workers rest while a sweep runs (`WorkersRest`), so a
listing stays true until the sweep itself deletes. `SweepInv` tells three kinds
of attempts apart: `Awaited`, as listed and rightly classed; `Condemned`, past
its period, with everything that is left of it still to be deleted or refused;
`Settled`, kept or gone, or the sweep is not clean. `ErasureInv` says the same of
an erasure, and `ToldSafely` that an announced expiry is not after what a sweep
would compute now. Two of its cases turn on the order of the periods: a commit
changes the class of what was described (`PeriodGrows`), and a marker that cannot
be read makes a sweep take a failure for a deliverable (`CondemnedWasTold`).

`RivalInv` gives the discipline back what `ResultCommit` has: while deliveries are
at work the bucket only grows, so `Evidence` survives the steps of rivals
(`RivalsKeep`), and the control plane takes something away only while nobody is at
work and holds evidence of anything (`ControlSpares`). A delivery goes to work
only where it found no marker (`EntersWithoutMarker`), so a marker it meets later
is a rival's, put over a complete result. That is half of `ToldIsWhole`; the other
half is about duplicates: where no deletion is cut short or refused, every attempt
with a marker is whole or is the one being deleted (`WholeOrDoomed`), and while one
is being deleted no submission is at work (`WholeSteps`).

`ModelCacheProofs` proves, for any finite set of blobs, any sets, sizes,
prefetchers and disk, on `CacheAssumption`:

| Theorem | Statement |
|---|---|
| `CacheInvariant` | `CacheSpec => []CacheInv` |
| `LeasesProtect` | `CacheSpec => DiskIsKept` |
| `EvictionIsFrugal` | `CacheSpec => EvictsLeast` |

**The argument.** `ReadyIsWhole`
is the end of a loop: `LinkedStays` says of a startup that is under way that
every artifact it has passed is linked and verified. That survives the evictor,
which spares what the startup protects (`EvictionKeeps`), the prefetchers, which
delete a blob only if it does not verify (`EnterKeeps`), and the next link, whose
destination is another one (`DestinationsDiffer`). `CallsAreNamed` says that what
the startup gets back is the artifact it asked for.

`EvictsLeast` compares sums of sizes. A sum over a set is a recursive function, so
`BytesAreUnits` counts instead: the bytes of some blobs are as many as the pairs
of a blob and one of its bytes, which makes a sum a cardinality (`BytesGrow`,
`BytesAdd`, `BytesOfParts`). Victims are taken from the oldest on, so without its
last one the eviction had not yet freed enough (`EvictionIsLeast`).

`ConsoleProofs` proves, for any principals, requests, runs, threads and faults, on
`ConsoleAssumption`:

| Theorem | Statement |
|---|---|
| `ConsoleInvariant` | `ConsoleSpec => []AnswersAreTrue` |
| `EndedCardsPlay` | `ConsoleSpec => []RestingCardsPlay` |

**The argument.** An answer is put together from a status and a marker that were
read at different times. `CallIsFaithful` says what a thread may still rely on:
its key was derived from the request of its run, its status, if terminal, is
final, and a marker it has seen was there. `Onward` is what every step of the
world grants (a run keeps its request, an end is an end, a removed result does
not come back, and a marker comes from a run that is active or lost), so a thread that does not
move keeps what it holds (`CallStays`). That a success is seen needs
`WorkersCommit`: the run's marker was put before the provider said so, and the
bucket is read after. That a failure is final needs that a marker which appears
later is another run's, or that of a run the provider has lost. A restart breaks `Onward`, which speaks of what the
registry knows, but it leaves no thread (`RestartKeeps`).

That a resting card has its video takes several actors: whichever poll is heard with
an ending stops the timer, and it need not be the one whose link attaches the video. `Calm` says, as long as nothing has
failed, what each call knows (`CallIsKnown`: a link that follows a poll is for a
result that poll has seen) and each card (`CardRests`: its run is registered or about
to be, and once it rests its run has ended and its video is there). An older poll
that is heard later cannot take the video away (`PageHearsIsCalm`).

Every safety property that a passing run checks is proved. Only model-checked is
liveness, which is out of the prover's reach: `RetriesCommit`, `SubmissionsEnd`,
`ExpiredGo`, `EventsAnswered`, `StopIsObeyed`, `PublicationEnds`, `StartupEnds`
and `CommittedIsTold`.

## What is abstracted

- In `ResultCommit`, staging of inputs, binding, prompt execution and inspection
  of media are one step that yields some render or fails (`JobIntake` and `Worker`
  open it); `ffprobe`, hashing and JSON are not modelled beyond equality of content.
- `put` reads its object back through one head; a provider that answers a head
  with old data is not modelled, nor is a create that lands after its command
  was killed.
- Input keys that a principal adds to an erasure are not modelled.
- A sweep visits attempts in any order; the code visits them sorted.
- Days are counted; the code compares timestamps.
- In `Worker`, what an event does before and after its prompt is left to
  `ResultCommit`; an event submits one prompt and is named by it.
- In `ModelCache` a digest is never forged and the disk neither loses nor changes
  a blob between two processes, apart from what an earlier one left half-way.
- In `Console` a restart keeps the configuration, links do not expire, and HTTP,
  sessions and the page's layout are left out.
- In `JobIntake` a mode is one of text, image and reference, by the number of
  inputs each takes; object names, graphs and hashes are abstract.
- Each retained class of the policy that neither a rule nor a sweep uses is left
  out of `BucketRules`.

## Not modelled

- `release/catalog.py`, `rollout.py`, `acceptance.py`, `security/release_gate.py`,
  `provenance.py`, `territories.py`: each is one decision over one given record,
  without state and without an order of steps; a model would restate the
  comparison it makes.
- `operations/` except the retention command: alerts, costs and metrics are
  arithmetic on given measurements, on which nothing in the program acts.
- `core/`, `cli.py` beyond the commands modelled, the composition roots,
  `console/routes.py`, `presign.py`, `settings.py` and the web page's layout:
  wiring, formatting and pure input and output. The diagnostic that
  `runpod_runtime.py` puts is one unverified write under its own key.
- Vocabularies and wording of `prompting/grammar.py` and `render.py`, and the
  provenance record: no check depends on more than membership in a table.

## Plan

Next: a console whose configuration changes at a restart, with the theorems about
it carried over; `CleanSweepsAreThorough` carried from the class the sweep took an
attempt for to its real one, where every marker can be read, which is the step of
`ExpiredGo` that is not about fairness.

Runs are kept few: each component gets one instance that answers its question,
and a run whose property has been proved for every instance, or whose finding
another run shows as well, makes room for it.
