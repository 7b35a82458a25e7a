---------------------------- MODULE ResultCommit ----------------------------
(***************************************************************************)
(* CloudVideoApplication.submit and everything it does to the output       *)
(* bucket: the lookup of a committed result, the generation, the verified  *)
(* upload of three artifacts and the publication of the commit marker.     *)
(*                                                                         *)
(* A task is one delivery of a request to one worker process.  Every await *)
(* on the bucket is a step of its own, so the tasks of all processes       *)
(* interleave between a head and the write that follows it.  The lock of a *)
(* request is an asyncio.Lock and lives in one process only.               *)
(***************************************************************************)
EXTENDS ResultStore

CONSTANTS
    Process,    \* the worker processes
    Task,       \* the deliveries in flight at once
    ProcessOf,  \* the process a delivery reached
    JobOf,      \* the request it carries
    DiskSurvives  \* whether a restarted process finds its old directories

ASSUME TaskAssumption ==
    /\ ProcessOf \in [Task -> Process]
    /\ JobOf \in [Task -> Job]
    /\ None \notin Task
    /\ DiskSurvives \in BOOLEAN

VARIABLES
    pc,          \* where each task is
    key,         \* the key the task is storing or checking
    render,      \* the validated video it produced
    manifest,    \* the manifest it is committing
    lock,        \* lock[p][j]: the task that holds the request lock
    workspaces,  \* the attempt directories on the disks of the processes
    outcome      \* how the last submission of each task ended

taskVars == <<pc, key, render, manifest, lock, workspaces, outcome>>
commitVars == <<storeVars, taskVars>>

Step == {"idle", "queued", "lookup", "generate", "upload_head", "put_head",
         "rcat", "verify", "commit_head", "commit_get", "check"}

\* A submission returns its commit key, fails with a provider, generation or
\* timeout error, is rejected for what it found in the bucket or on the disk,
\* or is lost with its process.
Outcome == {"none", "returned", "failed", "rejected", "lost"}

CommitTypeOK ==
    /\ StoreTypeOK
    /\ pc \in [Task -> Step]
    /\ key \in [Task -> Key]
    /\ render \in [Task -> Render \cup {None}]
    /\ manifest \in [Task -> Manifest \cup {None}]
    /\ lock \in [Process -> [Job -> Task \cup {None}]]
    /\ workspaces \subseteq Process \X Job
    /\ outcome \in [Task -> Outcome]

CommitInit ==
    /\ StoreInit
    /\ pc = [t \in Task |-> "idle"]
    /\ key = [t \in Task |-> "video"]
    /\ render = [t \in Task |-> None]
    /\ manifest = [t \in Task |-> None]
    /\ lock = [p \in Process |-> [j \in Job |-> None]]
    /\ workspaces = {}
    /\ outcome = [t \in Task |-> "none"]

-----------------------------------------------------------------------------
(* Vocabulary of a task. *)

Workspace(t) == <<ProcessOf[t], JobOf[t]>>

\* The three artifacts are uploaded, and later checked, in this order.
KeyAfter(k) ==
    CASE k = "video" -> "workflow"
      [] k = "workflow" -> "generation"
      [] OTHER -> Marker

\* The bytes the task means to find, or to put, under its key.
Content(t) ==
    IF key[t] = Marker THEN manifest[t] ELSE RoleContent(key[t], render[t])

Goto(t, l) == pc' = [pc EXCEPT ![t] = l]

\* Leaving submit releases the lock and forgets the local artifacts.
Leave(t, result) ==
    /\ Goto(t, "idle")
    /\ outcome' = [outcome EXCEPT ![t] = result]
    /\ lock' = [lock EXCEPT ![ProcessOf[t]][JobOf[t]] = None]
    /\ key' = [key EXCEPT ![t] = "video"]
    /\ render' = [render EXCEPT ![t] = None]
    /\ manifest' = [manifest EXCEPT ![t] = None]

\* The finally clause of _execute removes the workspace on every way out.
Finish(t, result) ==
    /\ Leave(t, result)
    /\ workspaces' = workspaces \ {Workspace(t)}

-----------------------------------------------------------------------------
(* submit *)

Submit(t) ==
    /\ pc[t] = "idle"
    /\ Goto(t, "queued")
    /\ outcome' = [outcome EXCEPT ![t] = "none"]
    /\ UNCHANGED <<storeVars, key, render, manifest, lock, workspaces>>

\* Mutant: every submission gets a lock of its own.
AcquireNoLock(t) ==
    /\ pc[t] = "queued"
    /\ lock' = [lock EXCEPT ![ProcessOf[t]][JobOf[t]] = t]
    /\ Goto(t, "lookup")
    /\ UNCHANGED <<storeVars, key, render, manifest, workspaces, outcome>>

AcquireLock(t) ==
    /\ pc[t] = "queued"
    /\ lock[ProcessOf[t]][JobOf[t]] = None
    /\ lock' = [lock EXCEPT ![ProcessOf[t]][JobOf[t]] = t]
    /\ Goto(t, "lookup")
    /\ UNCHANGED <<storeVars, key, render, manifest, workspaces, outcome>>

\* Mutant: existence is asked of a read, which answers with success as soon as
\* any object of the attempt is there.
ConvergeOnRead(t) ==
    /\ pc[t] = "lookup"
    /\ \E k \in Key : Stored(JobOf[t], k)
    /\ Leave(t, "returned")
    /\ UNCHANGED <<storeVars, workspaces>>

\* The marker exists: the duplicate converges on the committed result.
Converge(t) ==
    /\ pc[t] = "lookup"
    /\ Stored(JobOf[t], Marker)
    /\ Leave(t, "returned")
    /\ UNCHANGED <<storeVars, workspaces>>

\* No marker: allocate the workspace, whose mkdir refuses a directory that a
\* crashed predecessor left behind.  allocate precedes the try block, so that
\* refusal cleans nothing up.
Allocate(t) ==
    /\ pc[t] = "lookup"
    /\ ~Stored(JobOf[t], Marker)
    /\ \/ /\ Workspace(t) \notin workspaces
          /\ workspaces' = workspaces \cup {Workspace(t)}
          /\ Goto(t, "generate")
          /\ UNCHANGED <<key, render, manifest, lock, outcome>>
       \/ /\ Workspace(t) \in workspaces
          /\ Leave(t, "rejected")
          /\ UNCHANGED workspaces
    /\ UNCHANGED storeVars

\* Mutant: the lock is not released when the lookup raises.
LookupFailsHoldingLock(t) ==
    /\ pc[t] = "lookup"
    /\ Goto(t, "idle")
    /\ outcome' = [outcome EXCEPT ![t] = "failed"]
    /\ UNCHANGED <<storeVars, key, render, manifest, lock, workspaces>>

LookupFails(t) ==
    /\ pc[t] = "lookup"
    /\ Leave(t, "failed")
    /\ UNCHANGED <<storeVars, workspaces>>

Generate(t) ==
    /\ pc[t] = "generate"
    /\ \E r \in Render : render' = [render EXCEPT ![t] = r]
    /\ Goto(t, "upload_head")
    /\ UNCHANGED <<storeVars, key, manifest, lock, workspaces, outcome>>

-----------------------------------------------------------------------------
(* VerifiedUploader.upload and RcloneB2Client.put *)

\* One artifact is verified remotely: go on with the next one, or read the
\* clock, build the manifest and enter ResultCommitter.commit.
Advance(t) ==
    /\ key' = [key EXCEPT ![t] = KeyAfter(key[t])]
    /\ \/ /\ key[t] # "generation"
          /\ Goto(t, "upload_head")
          /\ UNCHANGED manifest
       \/ /\ key[t] = "generation"
          /\ Goto(t, "commit_head")
          /\ \E s \in Stamp :
                manifest' = [manifest EXCEPT ![t] =
                                [render |-> render[t], committed_at |-> s]]
    /\ UNCHANGED <<render, lock, workspaces, outcome>>

\* Mutant: what an earlier try uploaded is put once more.
UploadHeadNoResume(t) ==
    /\ pc[t] = "upload_head"
    /\ Goto(t, "put_head")
    /\ UNCHANGED <<storeVars, key, render, manifest, lock, workspaces, outcome>>

UploadHead(t) ==
    /\ pc[t] = "upload_head"
    /\ \/ /\ ~Stored(JobOf[t], key[t])
          /\ Goto(t, "put_head")
          /\ UNCHANGED <<key, render, manifest, lock, workspaces, outcome>>
       \/ /\ Holds(JobOf[t], key[t], Content(t))
          /\ Advance(t)
       \/ /\ Stored(JobOf[t], key[t])
          /\ ~Holds(JobOf[t], key[t], Content(t))  \* remote_result_mismatch
          /\ Finish(t, "rejected")
    /\ UNCHANGED storeVars

\* put looks once more before it writes, and refuses a key that exists.
PutHead(t) ==
    /\ pc[t] = "put_head"
    /\ \/ /\ ~Stored(JobOf[t], key[t])
          /\ Goto(t, "rcat")
          /\ UNCHANGED <<key, render, manifest, lock, workspaces, outcome>>
       \/ /\ Stored(JobOf[t], key[t])              \* immutable_object_exists
          /\ Finish(t, "rejected")
    /\ UNCHANGED storeVars

Rcat(t) ==
    /\ pc[t] = "rcat"
    /\ RcatLands(JobOf[t], key[t], Content(t))
    /\ Goto(t, "verify")
    /\ UNCHANGED <<today, key, render, manifest, lock, workspaces, outcome>>

\* Another process created the key after this task's head.
RcatRefused(t) ==
    /\ pc[t] = "rcat"
    /\ Stored(JobOf[t], key[t])
    /\ ~RcatOverwrites
    /\ Finish(t, "rejected")
    /\ UNCHANGED storeVars

\* The command fails or exceeds its deadline and is killed after the write.
RcatLandsThenFails(t) ==
    /\ pc[t] = "rcat"
    /\ RcatLands(JobOf[t], key[t], Content(t))
    /\ Finish(t, "failed")
    /\ UNCHANGED today

\* The head that follows a write supplies the evidence the callers compare.
Verify(t) ==
    /\ pc[t] = "verify"
    /\ \/ /\ Holds(JobOf[t], key[t], Content(t))
          /\ \/ key[t] # Marker /\ Advance(t)
             \/ key[t] = Marker /\ Finish(t, "returned")
       \/ /\ ~Holds(JobOf[t], key[t], Content(t))
          /\ Finish(t, "rejected")
    /\ UNCHANGED storeVars

-----------------------------------------------------------------------------
(* ResultCommitter.commit *)

CommitHead(t) ==
    /\ pc[t] = "commit_head"
    /\ \/ /\ Stored(JobOf[t], Marker)
          /\ Goto(t, "commit_get")
          /\ UNCHANGED key
       \/ /\ ~Stored(JobOf[t], Marker)
          /\ Goto(t, "check")
          /\ key' = [key EXCEPT ![t] = "video"]
    /\ UNCHANGED <<storeVars, render, manifest, lock, workspaces, outcome>>

\* An existing marker is accepted only if it is byte for byte this manifest.
CommitGet(t) ==
    /\ pc[t] = "commit_get"
    /\ \/ /\ Holds(JobOf[t], Marker, manifest[t])
          /\ Finish(t, "returned")
       \/ /\ ~Holds(JobOf[t], Marker, manifest[t])  \* commit_conflict
          /\ Finish(t, "rejected")
    /\ UNCHANGED storeVars

\* Every artifact is looked at again immediately before the marker is put.
Check(t) ==
    /\ pc[t] = "check"
    /\ \/ /\ Holds(JobOf[t], key[t], Content(t))
          /\ key' = [key EXCEPT ![t] = KeyAfter(key[t])]
          /\ Goto(t, IF key[t] = "generation" THEN "put_head" ELSE "check")
          /\ UNCHANGED <<render, manifest, lock, workspaces, outcome>>
       \/ /\ ~Holds(JobOf[t], key[t], Content(t))  \* commit_evidence_invalid
          /\ Finish(t, "rejected")
    /\ UNCHANGED storeVars

-----------------------------------------------------------------------------
(* Failures *)

\* Generation fails, or any bucket command fails without having an effect.
StepFails(t) ==
    /\ pc[t] \notin {"idle", "queued", "lookup"}
    /\ Finish(t, "failed")
    /\ UNCHANGED storeVars

\* The process dies: its tasks are lost and its locks are gone.  A restart in
\* the same container finds the attempt directories, a new container does not.
Crash(p) ==
    LET mine(t) == ProcessOf[t] = p IN
    /\ \/ \E t \in Task : mine(t) /\ pc[t] # "idle"
       \/ \E w \in workspaces : w[1] = p
    /\ pc' = [t \in Task |-> IF mine(t) THEN "idle" ELSE pc[t]]
    /\ outcome' = [t \in Task |-> IF mine(t) /\ pc[t] # "idle"
                                  THEN "lost" ELSE outcome[t]]
    /\ key' = [t \in Task |-> IF mine(t) THEN "video" ELSE key[t]]
    /\ render' = [t \in Task |-> IF mine(t) THEN None ELSE render[t]]
    /\ manifest' = [t \in Task |-> IF mine(t) THEN None ELSE manifest[t]]
    /\ lock' = [lock EXCEPT ![p] = [j \in Job |-> None]]
    /\ \/ workspaces' = {w \in workspaces : w[1] # p}
       \/ DiskSurvives /\ workspaces' = workspaces
    /\ UNCHANGED storeVars

-----------------------------------------------------------------------------

Progress(t) ==
    \/ Converge(t) \/ Allocate(t) \/ Generate(t)
    \/ UploadHead(t) \/ PutHead(t) \/ Rcat(t) \/ RcatRefused(t) \/ Verify(t)
    \/ CommitHead(t) \/ CommitGet(t) \/ Check(t)

Fault(t) == LookupFails(t) \/ StepFails(t) \/ RcatLandsThenFails(t)

TaskNext(t) == Submit(t) \/ AcquireLock(t) \/ Progress(t) \/ Fault(t)

CommitNext ==
    \/ \E t \in Task : TaskNext(t)
    \/ \E p \in Process : Crash(p)

CommitSpec == CommitInit /\ [][CommitNext]_commitVars

-----------------------------------------------------------------------------
(* Fairness.  The event loop runs a ready task; every bucket command has a *)
(* deadline, so each await ends; asyncio.Lock wakes its waiters in order,  *)
(* so a waiter that finds the lock free again and again gets it.  FairSpec *)
(* says no more than that.  RetrySpec adds what recovery needs from the    *)
(* outside: callers submit again, and provider failures and crashes end.   *)

FairSpec ==
    /\ CommitSpec
    /\ \A t \in Task : WF_commitVars(Progress(t))
    /\ \A t \in Task : SF_commitVars(AcquireLock(t))

RetrySpec ==
    /\ FairSpec
    /\ \A t \in Task : WF_commitVars(Submit(t))
    /\ <>[][~ \/ \E t \in Task : Fault(t)
              \/ \E p \in Process : Crash(p)]_commitVars

-----------------------------------------------------------------------------
(* Properties *)

AsRecorded(j, k) ==
    objects[j][k].data = RoleContent(k, objects[j][Marker].data.render)

\* The artifacts of request j are exactly the ones its marker names.
Complete(j) ==
    /\ Stored(j, Marker)
    /\ \A k \in Role : Stored(j, k) /\ AsRecorded(j, k)

\* Publish-last: whatever the retries, crashes and rival processes did, a
\* marker in the bucket names three artifacts that are there with the content
\* it records (application.py _execute, commit.py commit).
CommittedComplete == \A j \in Job : Stored(j, Marker) => Complete(j)

\* A caller that got (job, commit_key) back can read a complete result
\* through it, whether its own commit published the marker, an equal one was
\* found, or submit converged on it (application.py submit).
ReturnedIsReadable ==
    \A t \in Task : outcome[t] = "returned" => Complete(JobOf[t])

\* The tasks that are past the request lock.
Inside(t) == pc[t] \notin {"idle", "queued"}

\* The lock admits one task of a process to a request, so no two live tasks
\* ever share an attempt directory, and a task past allocate has one
\* (application.py submit, workspace.py allocate and cleanup).
WorkspacesApart ==
    /\ \A t, u \in Task : Inside(t) /\ Inside(u) /\ Workspace(t) = Workspace(u)
                          => t = u
    /\ \A t \in Task : Inside(t) /\ pc[t] # "lookup" => Workspace(t) \in workspaces

\* Once a marker is published no step of any task touches that attempt again
\* (uploader.py upload, rclone.py put).
PublishedIsImmutable ==
    [][\A j \in Job : Stored(j, Marker) => objects'[j] = objects[j]]_commitVars

\* What a task holds for certain at each point: the render it works with, the
\* manifest it built from it, and the artifacts it has already seen remotely.
Before(k) ==
    CASE k = "video" -> {}
      [] k = "workflow" -> {"video"}
      [] k = "generation" -> {"video", "workflow"}
      [] OTHER -> Role

HasNothing == {"idle", "queued", "lookup", "generate"}

Verified(t) ==
    IF pc[t] \in HasNothing THEN {}
    ELSE IF pc[t] = "check" THEN Role ELSE Before(key[t])

Evidence(t) ==
    \A k \in Verified(t) : Holds(JobOf[t], k, RoleContent(k, render[t]))

Locals(t) ==
    /\ pc[t] \in HasNothing => key[t] = "video"
    /\ pc[t] \notin HasNothing => render[t] \in Render
    /\ pc[t] \in {"upload_head", "check"} => key[t] \in Role
    /\ pc[t] \in {"commit_head", "commit_get"} => key[t] = Marker
    /\ key[t] = Marker \/ pc[t] = "check" =>
          manifest[t] \in Manifest /\ manifest[t].render = render[t]
    /\ pc[t] # "idle" => outcome[t] = "none"

\* The inductive strengthening of publish-last: an artifact a task has verified
\* stays what the task's own manifest will record until the marker is put,
\* whatever the rival tasks do (uploader.py upload, commit.py commit).
CommitInv ==
    /\ CommitTypeOK
    /\ \A t \in Task : Locals(t) /\ Evidence(t)
    /\ CommittedComplete
    /\ ReturnedIsReadable

\* The deliverable a consumer reaches through the marker, and the callers that
\* were told about it, behave as the abstract promise says.
Deliverable(j) ==
    IF Stored(j, Marker) /\ Stored(j, "video")
    THEN objects[j]["video"].data
    ELSE None

Promise == INSTANCE JobResult WITH
    deliverable <- [j \in Job |-> Deliverable(j)],
    told <- {t \in Task : outcome[t] = "returned"}

ImplementsPromise == Promise!Spec

\* Every submission comes to an answer: no task waits for ever on the lock.
SubmissionsEnd == \A t \in Task : pc[t] = "queued" ~> pc[t] = "idle"

\* Every generation of a request renders the same video.
Reproducible ==
    \E r \in [Job -> Render] :
        [](\A t \in Task : render[t] \in {r[JobOf[t]], None})

\* A request whose generation is reproducible is committed in the end, however
\* often its uploads and commits were cut short: a retry accepts the objects an
\* earlier try left behind (uploader.py upload).
RetriesCommit == Reproducible => \A t \in Task : <>Stored(JobOf[t], Marker)

\* A delivery that was rejected for the objects it found does not stay so:
\* "Retry the same attempt only when existing objects match exactly. Otherwise
\* create a new attempt identity" (docs/runbooks/delivery-failure.md).
MismatchesRecover ==
    \A t \in Task : outcome[t] = "rejected" ~> Stored(JobOf[t], Marker)

=============================================================================
