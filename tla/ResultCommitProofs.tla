------------------------- MODULE ResultCommitProofs -------------------------
(***************************************************************************)
(* Proofs about ResultCommit, for every number of processes, deliveries    *)
(* and requests, for a bucket in which a late create never replaces an     *)
(* object (~RcatOverwrites).                                               *)
(*                                                                         *)
(* The argument: such a bucket only grows (Grows), so what a task has seen *)
(* remotely stays (EvidenceStays), so the marker it puts names what is     *)
(* there.  CommitInv is the inductive form of that.                        *)
(***************************************************************************)
EXTENDS ResultCommit, TLAPS

\* No object is replaced or removed.
Grows == \A j \in Job, k \in Key : Stored(j, k) => objects'[j][k] = objects[j][k]

-----------------------------------------------------------------------------
(* The bucket *)

\* What is read of the contents holds in every later state of a bucket that
\* only grows: stored objects and the evidence of any task that did not move.
LEMMA HoldsStays ==
    ASSUME StoreTypeOK, Grows, NEW j \in Job, NEW k \in Key, NEW d, Holds(j, k, d)
    PROVE  Holds(j, k, d)'
  BY DEF Grows, Holds, Stored

LEMMA StoreTypeStays ==
    ASSUME StoreTypeOK, UNCHANGED storeVars
    PROVE  StoreTypeOK'
  BY DEF StoreTypeOK, Stored, storeVars

\* A complete result stays complete.
LEMMA CompleteStays ==
    ASSUME StoreTypeOK, Grows, NEW j \in Job, Complete(j)
    PROVE  Complete(j)'
  BY DEF Grows, Complete, Stored, AsRecorded, Key

\* rcat, where a late create replaces nothing, lets the bucket grow and leaves
\* exactly the bytes it was given under its key (rclone.py put).
LEMMA RcatGrows ==
    ASSUME StoreTypeOK, ~RcatOverwrites, NEW j \in Job, NEW k \in Key,
           NEW d \in Data, d \in Contents(k), RcatLands(j, k, d), UNCHANGED today
    PROVE  /\ StoreTypeOK'
           /\ Grows
           /\ Holds(j, k, d)'
           /\ \A i \in Job, l \in Key :
                 <<i, l>> # <<j, k>> => objects'[i][l] = objects[i][l]
  <1>1. objects' = [objects EXCEPT ![j][k] = [data |-> d, day |-> today]]
    BY DEF RcatLands, Write
  <1>2. [data |-> d, day |-> today] \in Object
    BY DEF StoreTypeOK, Object
  <1>3. ~Stored(j, k)
    BY DEF RcatLands
  <1>4. \A i \in Job, l \in Key :
           objects'[i][l] = IF i = j /\ l = k THEN [data |-> d, day |-> today]
                            ELSE objects[i][l]
    BY <1>1 DEF StoreTypeOK
  <1>5. Grows
    BY <1>3, <1>4 DEF Grows
  <1>6. [data |-> d, day |-> today] # None
    BY <1>2, StoreAssumption
  <1>7. Holds(j, k, d)'
    BY <1>4, <1>6 DEF Holds, Stored
  <1>8. StoreTypeOK'
    <2>1. objects' \in [Job -> [Key -> Object \cup {None}]] /\ today' \in Nat
      BY <1>1, <1>2 DEF StoreTypeOK
    <2>2. \A i \in Job, l \in Key :
             Stored(i, l)' => objects'[i][l].data \in Contents(l)
      BY <1>4 DEF StoreTypeOK, Stored
    <2> QED
      BY <2>1, <2>2 DEF StoreTypeOK
  <1> QED
    BY <1>4, <1>5, <1>7, <1>8

-----------------------------------------------------------------------------
(* One task moves *)

TaskInv(t) == Locals(t) /\ Evidence(t)

\* The part of CommitInv that speaks of the deliveries at work.  It needs
\* nothing of what is published: a bucket that only grows is enough.
WorkInv ==
    /\ CommitTypeOK
    /\ \A t \in Task : Locals(t) /\ Evidence(t)

\* The locals of task u are as they were.
Still(u) ==
    /\ pc'[u] = pc[u] /\ key'[u] = key[u] /\ outcome'[u] = outcome[u]
    /\ render'[u] = render[u] /\ manifest'[u] = manifest[u]

\* A task that stands still keeps its evidence while the bucket grows.
LEMMA EvidenceStays ==
    ASSUME CommitTypeOK, Grows, NEW u \in Task, TaskInv(u), Still(u)
    PROVE  TaskInv(u)'
  <1>1. Locals(u)'
    BY DEF TaskInv, Still, Locals
  <1>2. Verified(u)' = Verified(u) /\ Verified(u) \subseteq Key
    BY DEF Still, Verified, Before, Key, Role
  <1>3. ASSUME NEW k \in Verified(u)
        PROVE  Holds(JobOf[u], k, RoleContent(k, render[u]))'
    <2>1. Holds(JobOf[u], k, RoleContent(k, render[u]))
      BY DEF TaskInv, Evidence
    <2>2. JobOf[u] \in Job /\ k \in Key
      BY <1>2, TaskAssumption
    <2> QED
      BY <2>1, <2>2, HoldsStays DEF CommitTypeOK, Still
  <1> QED
    BY <1>1, <1>2, <1>3 DEF TaskInv, Evidence

\* A step that leaves the bucket alone preserves WorkInv if it preserves the
\* part about its own task.
LEMMA QuietStep ==
    ASSUME WorkInv, UNCHANGED storeVars, NEW t \in Task,
           CommitTypeOK', TaskInv(t)', \A u \in Task \ {t} : Still(u)
    PROVE  WorkInv'
  <1>1. Grows
    BY DEF Grows, storeVars
  <1>2. ASSUME NEW u \in Task
        PROVE  TaskInv(u)'
    BY <1>1, EvidenceStays DEF WorkInv, TaskInv
  <1> QED
    BY <1>2 DEF WorkInv, TaskInv

\* Every way out of submit preserves WorkInv.
LEMMA LeaveStep ==
    ASSUME WorkInv, UNCHANGED storeVars, NEW t \in Task, NEW result \in Outcome,
           Leave(t, result), workspaces' \subseteq workspaces
    PROVE  WorkInv'
  <1>1. CommitTypeOK'
    BY StoreTypeStays DEF WorkInv, CommitTypeOK, Leave, Goto, Step, Key, Role
  <1>2. /\ pc'[t] = "idle" /\ key'[t] = "video" /\ outcome'[t] = result
        /\ \A u \in Task \ {t} : Still(u)
    BY DEF WorkInv, CommitTypeOK, Leave, Goto, Still
  <1>3. TaskInv(t)'
    BY <1>2 DEF TaskInv, Locals, Evidence, Verified, HasNothing, Marker
  <1> QED
    BY <1>1, <1>2, <1>3, QuietStep

\* So does every way out of _execute.
LEMMA FinishStep ==
    ASSUME WorkInv, UNCHANGED storeVars, NEW t \in Task, NEW result \in Outcome,
           Finish(t, result)
    PROVE  WorkInv'
  BY LeaveStep DEF Finish

-----------------------------------------------------------------------------
(* The steps that leave the bucket alone *)

LEMMA SubmitStep ==
    ASSUME WorkInv, NEW t \in Task, Submit(t) \/ AcquireLock(t) \/ Generate(t)
    PROVE  WorkInv'
  <1>1. CommitTypeOK'
    <2>1. CASE Submit(t)
      BY <2>1, StoreTypeStays DEF WorkInv, CommitTypeOK, Submit, Goto, Step,
                  Outcome
    <2>2. CASE AcquireLock(t)
      <3>1. lock' \in [Process -> [Job -> Task \cup {None}]]
        BY <2>2 DEF WorkInv, CommitTypeOK, AcquireLock
      <3> QED
        BY <2>2, <3>1, StoreTypeStays
           DEF WorkInv, CommitTypeOK, AcquireLock, Goto, Step
    <2>3. CASE Generate(t)
      <3>1. render' \in [Task -> Render \cup {None}]
        BY <2>3 DEF WorkInv, CommitTypeOK, Generate
      <3> QED
        BY <2>3, <3>1, StoreTypeStays
           DEF WorkInv, CommitTypeOK, Generate, Goto, Step
    <2> QED
      BY <2>1, <2>2, <2>3
  <1>2. Locals(t)
    BY DEF WorkInv
  <1>3. /\ \A u \in Task \ {t} : Still(u)
        /\ outcome'[t] = "none"
    BY <1>2 DEF WorkInv, CommitTypeOK, Submit, AcquireLock, Generate, Goto, Still,
                Locals
  <1>4. TaskInv(t)'
    BY <1>1, <1>2, <1>3
       DEF WorkInv, CommitTypeOK, Submit, AcquireLock, Generate, Goto, TaskInv, Locals,
           Evidence, Verified, Before, HasNothing, Marker, Role
  <1> QED
    BY <1>1, <1>3, <1>4, QuietStep DEF Submit, AcquireLock, Generate

LEMMA LookupStep ==
    ASSUME WorkInv, NEW t \in Task, Converge(t) \/ Allocate(t) \/ LookupFails(t)
    PROVE  WorkInv'
  <1>1. CASE Converge(t)
    BY <1>1, LeaveStep DEF Converge, Outcome
  <1>2. CASE Allocate(t) /\ Workspace(t) \notin workspaces
    <2>1. CommitTypeOK'
      <3>1. Workspace(t) \in Process \X Job
        BY TaskAssumption DEF Workspace
      <3>2. workspaces' \subseteq Process \X Job
        BY <1>2, <3>1 DEF WorkInv, CommitTypeOK, Allocate
      <3> QED
        BY <1>2, <3>2, StoreTypeStays
           DEF WorkInv, CommitTypeOK, Allocate, Goto, Step
    <2>2. Locals(t)
      BY DEF WorkInv
    <2>3. /\ \A u \in Task \ {t} : Still(u)
          /\ outcome'[t] = "none"
      BY <1>2, <2>2 DEF WorkInv, CommitTypeOK, Allocate, Goto, Still, Locals
    <2>4. TaskInv(t)'
      BY <1>2, <2>2, <2>3
         DEF WorkInv, CommitTypeOK, Allocate, Goto, TaskInv, Locals,
             Evidence, Verified, HasNothing, Marker
    <2> QED
      BY <1>2, <2>1, <2>3, <2>4, QuietStep DEF Allocate
  <1>3. CASE Allocate(t) /\ Workspace(t) \in workspaces
    BY <1>3, LeaveStep DEF Allocate, Outcome
  <1>4. CASE LookupFails(t)
    BY <1>4, LeaveStep DEF LookupFails, Outcome
  <1> QED
    BY <1>1, <1>2, <1>3, <1>4

\* An artifact that is verified joins the evidence (uploader.py upload).
LEMMA AdvanceStep ==
    ASSUME WorkInv, UNCHANGED storeVars, NEW t \in Task, Advance(t),
           pc[t] \in {"upload_head", "verify"}, key[t] \in Role,
           Holds(JobOf[t], key[t], Content(t))
    PROVE  WorkInv'
  <1>1. Locals(t) /\ Evidence(t) /\ render[t] \in Render
    BY DEF WorkInv, Locals, HasNothing
  <1>2. CommitTypeOK'
    <2>1. key' \in [Task -> Key] /\ pc' \in [Task -> Step]
      BY DEF WorkInv, CommitTypeOK, Advance, Goto, KeyAfter, Key, Role, Step
    <2>2. manifest' \in [Task -> Manifest \cup {None}]
      <3>1. \A s \in Stamp : [render |-> render[t], committed_at |-> s] \in Manifest
        BY <1>1 DEF Manifest
      <3> QED
        BY <3>1 DEF WorkInv, CommitTypeOK, Advance
    <2> QED
      BY <2>1, <2>2, StoreTypeStays DEF WorkInv, CommitTypeOK, Advance
  <1>3. /\ \A u \in Task \ {t} : Still(u)
        /\ outcome'[t] = "none" /\ render'[t] = render[t]
    BY <1>1 DEF WorkInv, CommitTypeOK, Advance, Goto, Still, Locals
  <1>4. /\ key'[t] = KeyAfter(key[t])
        /\ pc'[t] = IF key[t] = "generation" THEN "commit_head" ELSE "upload_head"
        /\ key[t] = "generation" =>
              manifest'[t] \in Manifest /\ manifest'[t].render = render[t]
        /\ key[t] # "generation" => manifest'[t] = manifest[t]
    BY <1>1 DEF WorkInv, CommitTypeOK, Advance, Goto, Manifest
  <1>5. Locals(t)'
    BY <1>1, <1>3, <1>4 DEF Locals, HasNothing, KeyAfter, Role, Marker
  <1>6. Verified(t)' = Before(key[t]) \cup {key[t]} /\ Verified(t) = Before(key[t])
    <2>1. Verified(t)' = Before(KeyAfter(key[t]))
      BY <1>4 DEF Verified, HasNothing, Before
    <2>2. Before(KeyAfter(key[t])) = Before(key[t]) \cup {key[t]}
      <3>1. CASE key[t] = "video"
        BY <3>1 DEF Before, KeyAfter
      <3>2. CASE key[t] = "workflow"
        BY <3>2 DEF Before, KeyAfter
      <3>3. CASE key[t] = "generation"
        BY <3>3 DEF Before, KeyAfter, Role, Marker
      <3> QED
        BY <3>1, <3>2, <3>3 DEF Role
    <2>3. Verified(t) = Before(key[t])
      BY DEF Verified, HasNothing
    <2> QED
      BY <2>1, <2>2, <2>3
  <1>7. Content(t) = RoleContent(key[t], render[t])
    BY DEF Content, Role, Marker
  <1>8. Evidence(t)'
    BY <1>1, <1>3, <1>6, <1>7 DEF Evidence, Holds, Stored, storeVars, RoleContent
  <1> QED
    BY <1>2, <1>3, <1>5, <1>8, QuietStep DEF TaskInv

\* The steps that only move a task that carries its evidence along.
LEMMA CarryStep ==
    ASSUME WorkInv, UNCHANGED <<storeVars, render, manifest, lock, workspaces, outcome>>,
           NEW t \in Task, NEW l \in Step, NEW k \in Key,
           pc[t] \notin HasNothing, pc' = [pc EXCEPT ![t] = l],
           key' = [key EXCEPT ![t] = k],
           (Locals(t) /\ Evidence(t))'
    PROVE  WorkInv'
  <1>1. CommitTypeOK'
    BY StoreTypeStays DEF WorkInv, CommitTypeOK
  <1>2. \A u \in Task \ {t} : Still(u)
    BY DEF WorkInv, CommitTypeOK, Still
  <1>3. outcome'[t] = "none"
    BY DEF WorkInv, Locals, HasNothing
  <1> QED
    BY <1>1, <1>2, <1>3, QuietStep DEF TaskInv

LEMMA UploadStep ==
    ASSUME WorkInv, NEW t \in Task, UploadHead(t) \/ PutHead(t)
    PROVE  WorkInv'
  <1>1. CASE UploadHead(t)
    <2>1. Locals(t) /\ Evidence(t) /\ key[t] \in Role
      BY <1>1 DEF WorkInv, Locals, UploadHead
    <2>2. CASE ~Stored(JobOf[t], key[t])
      <3>1. /\ UNCHANGED <<storeVars, key, render, manifest, lock, workspaces, outcome>>
            /\ pc' = [pc EXCEPT ![t] = "put_head"]
        BY <1>1, <2>2 DEF UploadHead, Goto, Holds
      <3>2. key' = [key EXCEPT ![t] = key[t]]
        BY <3>1 DEF WorkInv, CommitTypeOK
      <3>3. pc'[t] = "put_head" /\ pc[t] = "upload_head"
        BY <1>1, <3>1 DEF WorkInv, CommitTypeOK, UploadHead
      <3>4. (Locals(t) /\ Evidence(t))'
        BY <2>1, <3>1, <3>3
           DEF Locals, Evidence, Verified, Holds, Stored, storeVars, HasNothing
      <3> QED
        BY <2>1, <3>1, <3>2, <3>3, <3>4, CarryStep DEF HasNothing, Step, Key
    <2>3. CASE Holds(JobOf[t], key[t], Content(t))
      BY <1>1, <2>1, <2>3, AdvanceStep DEF UploadHead, Holds
    <2>4. CASE Stored(JobOf[t], key[t]) /\ ~Holds(JobOf[t], key[t], Content(t))
      BY <1>1, <2>4, FinishStep DEF UploadHead, Outcome
    <2> QED
      BY <2>2, <2>3, <2>4
  <1>2. CASE PutHead(t) /\ ~Stored(JobOf[t], key[t])
    <2>1. /\ UNCHANGED <<storeVars, key, render, manifest, lock, workspaces, outcome>>
          /\ pc' = [pc EXCEPT ![t] = "rcat"]
      BY <1>2 DEF PutHead, Goto
    <2>2. key' = [key EXCEPT ![t] = key[t]] /\ key[t] \in Key
      BY <2>1 DEF WorkInv, CommitTypeOK
    <2>3. pc'[t] = "rcat" /\ pc[t] = "put_head"
      BY <1>2, <2>1 DEF WorkInv, CommitTypeOK, PutHead
    <2>4. (Locals(t) /\ Evidence(t))'
      BY <2>1, <2>3
         DEF WorkInv, Locals, Evidence, Verified, Holds, Stored, storeVars, HasNothing
    <2> QED
      BY <2>1, <2>2, <2>3, <2>4, CarryStep DEF HasNothing, Step
  <1>3. CASE PutHead(t) /\ Stored(JobOf[t], key[t])
    BY <1>3, FinishStep DEF PutHead, Outcome
  <1> QED
    BY <1>1, <1>2, <1>3

LEMMA VerifyStep ==
    ASSUME WorkInv, NEW t \in Task, Verify(t)
    PROVE  WorkInv'
  <1>1. CASE Holds(JobOf[t], key[t], Content(t)) /\ key[t] # Marker
    <2>1. key[t] \in Role
      BY <1>1 DEF WorkInv, CommitTypeOK, Key
    <2> QED
      BY <1>1, <2>1, AdvanceStep DEF Verify
  <1>2. CASE Holds(JobOf[t], key[t], Content(t)) /\ key[t] = Marker
    BY <1>2, FinishStep DEF Verify, Holds, Outcome
  <1>3. CASE ~Holds(JobOf[t], key[t], Content(t))
    BY <1>3, FinishStep DEF Verify, Outcome
  <1> QED
    BY <1>1, <1>2, <1>3

LEMMA CommitStep ==
    ASSUME WorkInv, NEW t \in Task, CommitHead(t) \/ CommitGet(t)
    PROVE  WorkInv'
  <1>1. Locals(t) /\ Evidence(t)
    BY DEF WorkInv
  <1>2. CASE CommitHead(t) /\ Stored(JobOf[t], Marker)
    <2>1. /\ UNCHANGED <<storeVars, key, render, manifest, lock, workspaces, outcome>>
          /\ pc' = [pc EXCEPT ![t] = "commit_get"]
      BY <1>2 DEF CommitHead, Goto
    <2>2. key' = [key EXCEPT ![t] = key[t]] /\ key[t] \in Key
      BY <2>1 DEF WorkInv, CommitTypeOK
    <2>3. pc'[t] = "commit_get" /\ pc[t] = "commit_head"
      BY <1>2, <2>1 DEF WorkInv, CommitTypeOK, CommitHead
    <2>4. (Locals(t) /\ Evidence(t))'
      BY <1>1, <2>1, <2>3
         DEF Locals, Evidence, Verified, Holds, Stored, storeVars, HasNothing
    <2> QED
      BY <2>1, <2>2, <2>3, <2>4, CarryStep DEF HasNothing, Step
  <1>3. CASE CommitHead(t) /\ ~Stored(JobOf[t], Marker)
    <2>1. /\ UNCHANGED <<storeVars, render, manifest, lock, workspaces, outcome>>
          /\ pc' = [pc EXCEPT ![t] = "check"]
          /\ key' = [key EXCEPT ![t] = "video"]
      BY <1>3 DEF CommitHead, Goto
    <2>2. pc'[t] = "check" /\ pc[t] = "commit_head" /\ key'[t] = "video"
      BY <1>3, <2>1 DEF WorkInv, CommitTypeOK, CommitHead
    <2>3. Locals(t)'
      BY <1>1, <2>1, <2>2 DEF Locals, HasNothing, Role, Marker
    <2>4. Verified(t)' = Role /\ Verified(t) = Role
      BY <1>1, <2>2 DEF Verified, Locals, HasNothing, Before, Marker
    <2>5. Evidence(t)'
      BY <1>1, <2>1, <2>4 DEF Evidence, Holds, Stored, storeVars, RoleContent
    <2> QED
      BY <2>1, <2>2, <2>3, <2>5, CarryStep DEF HasNothing, Step, Key, Role
  <1>4. CASE CommitGet(t) /\ Holds(JobOf[t], Marker, manifest[t])
    BY <1>4, FinishStep DEF CommitGet, Holds, Outcome
  <1>5. CASE CommitGet(t) /\ ~Holds(JobOf[t], Marker, manifest[t])
    BY <1>5, FinishStep DEF CommitGet, Outcome
  <1> QED
    BY <1>2, <1>3, <1>4, <1>5

LEMMA CheckStep ==
    ASSUME WorkInv, NEW t \in Task, Check(t)
    PROVE  WorkInv'
  <1>1. Locals(t) /\ Evidence(t) /\ key[t] \in Role
    BY DEF WorkInv, Locals, Check
  <1>2. CASE Holds(JobOf[t], key[t], Content(t))
    <2> DEFINE l == IF key[t] = "generation" THEN "put_head" ELSE "check"
    <2>1. /\ UNCHANGED <<storeVars, render, manifest, lock, workspaces, outcome>>
          /\ pc' = [pc EXCEPT ![t] = l]
          /\ key' = [key EXCEPT ![t] = KeyAfter(key[t])]
      BY <1>2 DEF Check, Goto
    <2>2. pc'[t] = l /\ pc[t] = "check" /\ key'[t] = KeyAfter(key[t])
      BY <2>1 DEF WorkInv, CommitTypeOK, Check
    <2>3. Locals(t)'
      BY <1>1, <2>1, <2>2 DEF Locals, HasNothing, KeyAfter, Role, Marker
    <2>4. Verified(t) = Role /\ Verified(t)' = Role
      <3>1. CASE key[t] = "generation"
        BY <2>2, <3>1 DEF Verified, HasNothing, Before, KeyAfter, Marker
      <3>2. CASE key[t] # "generation"
        BY <2>2, <3>2 DEF Verified, HasNothing
      <3> QED
        BY <3>1, <3>2
    <2>5. Evidence(t)'
      BY <1>1, <2>1, <2>4 DEF Evidence, Holds, Stored, storeVars, RoleContent
    <2>6. l \in Step /\ KeyAfter(key[t]) \in Key
      BY <1>1 DEF Step, KeyAfter, Key, Role
    <2> QED
      BY <2>1, <2>2, <2>3, <2>5, <2>6, CarryStep DEF HasNothing
  <1>3. CASE ~Holds(JobOf[t], key[t], Content(t))
    BY <1>3, FinishStep DEF Check, Outcome
  <1> QED
    BY <1>2, <1>3

LEMMA FailStep ==
    ASSUME WorkInv, NEW t \in Task, RcatRefused(t) \/ StepFails(t)
    PROVE  WorkInv'
  BY FinishStep DEF RcatRefused, StepFails, Outcome

-----------------------------------------------------------------------------
(* The write, and the crash *)

\* What a task puts under its key is content of the right kind.
LEMMA ContentIsData ==
    ASSUME WorkInv, NEW t \in Task, pc[t] = "rcat"
    PROVE  Content(t) \in Data /\ Content(t) \in Contents(key[t])
  <1>1. Locals(t) /\ render[t] \in Render
    BY DEF WorkInv, Locals, HasNothing
  <1>2. CASE key[t] = Marker
    BY <1>1, <1>2 DEF Locals, Content, Contents, Data, Marker
  <1>3. CASE key[t] # Marker
    BY <1>1, <1>3, StoreAssumption DEF Content, Contents, RoleContent, Data
  <1> QED
    BY <1>2, <1>3

\* The write of one object lets the bucket grow, and leaves its bytes there.
LEMMA WriteGrows ==
    ASSUME WorkInv, ~RcatOverwrites, NEW t \in Task, pc[t] = "rcat",
           RcatLands(JobOf[t], key[t], Content(t)), UNCHANGED today
    PROVE  /\ StoreTypeOK' /\ Grows
           /\ ~Stored(JobOf[t], key[t])
           /\ objects'[JobOf[t]][key[t]].data = Content(t)
           /\ \A j \in Job, k \in Key :
                 <<j, k>> # <<JobOf[t], key[t]>> => objects'[j][k] = objects[j][k]
  <1>1. /\ StoreTypeOK /\ JobOf[t] \in Job /\ key[t] \in Key
        /\ Content(t) \in Data /\ Content(t) \in Contents(key[t])
    BY ContentIsData, TaskAssumption DEF WorkInv, CommitTypeOK
  <1>2. PICK d \in Data : d = Content(t)
    BY <1>1
  <1>3. RcatLands(JobOf[t], key[t], d)
    BY <1>2
  <1>4. /\ StoreTypeOK' /\ Grows
        /\ \A j \in Job, k \in Key :
              <<j, k>> # <<JobOf[t], key[t]>> => objects'[j][k] = objects[j][k]
    BY <1>1, <1>2, <1>3, RcatGrows
  <1>5. objects'[JobOf[t]][key[t]] = [data |-> d, day |-> today]
    BY <1>1, <1>3 DEF RcatLands, Write, StoreTypeOK
  <1>6. ~Stored(JobOf[t], key[t])
    BY DEF RcatLands
  <1> QED
    BY <1>2, <1>4, <1>5, <1>6

\* A marker appears only beside the artifacts it names.
LEMMA WriteCompletes ==
    ASSUME WorkInv, ~RcatOverwrites, NEW t \in Task, pc[t] = "rcat",
           RcatLands(JobOf[t], key[t], Content(t)), UNCHANGED today,
           NEW j \in Job, ~Stored(j, Marker), Stored(j, Marker)'
    PROVE  Complete(j)'
  <1>1. Locals(t) /\ Evidence(t) /\ JobOf[t] \in Job
    BY TaskAssumption DEF WorkInv
  <1>2. /\ Grows /\ objects'[JobOf[t]][key[t]].data = Content(t)
        /\ \A k \in Key :
              <<j, k>> # <<JobOf[t], key[t]>> => objects'[j][k] = objects[j][k]
    BY WriteGrows
  <1>3. j = JobOf[t] /\ key[t] = Marker
    BY <1>2 DEF Stored, Key
  <1>4. objects'[j][Marker].data.render = render[t]
    BY <1>1, <1>2, <1>3 DEF Content, Locals
  <1>5. Verified(t) = Role
    BY <1>3 DEF Verified, HasNothing, Before, Marker
  <1>6. ASSUME NEW k \in Role
        PROVE  Stored(j, k)' /\ objects'[j][k].data = RoleContent(k, render[t])
    <2>1. Holds(j, k, RoleContent(k, render[t])) /\ k \in Key
      BY <1>1, <1>3, <1>5 DEF Evidence, Key
    <2>2. objects'[j][k] = objects[j][k]
      BY <1>2, <2>1 DEF Grows, Holds
    <2> QED
      BY <2>1, <2>2 DEF Holds, Stored
  <1> QED
    BY <1>4, <1>6 DEF Complete, AsRecorded, Holds

LEMMA RcatStep ==
    ASSUME WorkInv, ~RcatOverwrites, NEW t \in Task, Rcat(t) \/ RcatLandsThenFails(t)
    PROVE  WorkInv'
  <1>1. StoreTypeOK' /\ Grows
    BY WriteGrows DEF Rcat, RcatLandsThenFails
  <1>2. Locals(t) /\ Evidence(t) /\ pc[t] = "rcat"
    BY DEF WorkInv, Rcat, RcatLandsThenFails
  <1>3. CommitTypeOK'
    <2>1. CASE Rcat(t)
      BY <1>1, <2>1 DEF WorkInv, CommitTypeOK, Rcat, Goto, Step
    <2>2. CASE RcatLandsThenFails(t)
      BY <1>1, <2>2
         DEF WorkInv, CommitTypeOK, RcatLandsThenFails, Finish, Leave, Goto, Step,
             Outcome, Key, Role
    <2> QED
      BY <2>1, <2>2
  <1>4. \A u \in Task \ {t} : Still(u)
    BY DEF WorkInv, CommitTypeOK, Rcat, RcatLandsThenFails, Finish, Leave, Goto, Still
  <1>5. TaskInv(t)'
    <2>1. CASE Rcat(t)
      <3>1. /\ pc'[t] = "verify" /\ outcome'[t] = outcome[t]
            /\ key' = key /\ render' = render /\ manifest' = manifest
        BY <2>1 DEF WorkInv, CommitTypeOK, Rcat, Goto
      <3>2. Locals(t)'
        BY <1>2, <3>1 DEF Locals, HasNothing
      <3>3. Verified(t)' = Verified(t) /\ Verified(t) \subseteq Key
        BY <1>2, <3>1 DEF Verified, HasNothing, Before, Key, Role
      <3>4. ASSUME NEW k \in Verified(t)
            PROVE  Holds(JobOf[t], k, RoleContent(k, render[t]))'
        <4>1. Holds(JobOf[t], k, RoleContent(k, render[t]))
          BY <1>2 DEF Evidence
        <4>2. JobOf[t] \in Job /\ k \in Key
          BY <3>3, TaskAssumption
        <4> QED
          BY <1>1, <3>1, <4>1, <4>2 DEF Grows, Holds, Stored, RoleContent
      <3> QED
        BY <3>2, <3>3, <3>4 DEF TaskInv, Evidence
    <2>2. CASE RcatLandsThenFails(t)
      <3>1. pc'[t] = "idle" /\ key'[t] = "video" /\ outcome'[t] = "failed"
        BY <2>2 DEF WorkInv, CommitTypeOK, RcatLandsThenFails, Finish, Leave, Goto
      <3> QED
        BY <3>1 DEF TaskInv, Locals, Evidence, Verified, HasNothing, Marker
    <2> QED
      BY <2>1, <2>2
  <1>6. \A u \in Task : TaskInv(u)'
    BY <1>1, <1>4, <1>5, EvidenceStays DEF WorkInv, TaskInv
  <1> QED
    BY <1>3, <1>6 DEF WorkInv, TaskInv

LEMMA CrashStep ==
    ASSUME WorkInv, NEW p \in Process, Crash(p)
    PROVE  WorkInv'
  <1>1. Grows
    BY DEF Crash, Grows, storeVars
  <1>2. CommitTypeOK'
    <2>1. /\ pc' \in [Task -> Step] /\ key' \in [Task -> Key]
          /\ render' \in [Task -> Render \cup {None}]
          /\ manifest' \in [Task -> Manifest \cup {None}]
          /\ outcome' \in [Task -> Outcome]
      BY DEF WorkInv, CommitTypeOK, Crash, Step, Key, Role, Outcome
    <2>2. lock' \in [Process -> [Job -> Task \cup {None}]]
      BY DEF WorkInv, CommitTypeOK, Crash
    <2>3. workspaces' \subseteq Process \X Job
      BY DEF WorkInv, CommitTypeOK, Crash
    <2> QED
      BY <2>1, <2>2, <2>3, StoreTypeStays DEF WorkInv, CommitTypeOK, Crash
  <1>3. ASSUME NEW u \in Task
        PROVE  TaskInv(u)'
    <2>1. CASE ProcessOf[u] = p
      <3>1. pc'[u] = "idle" /\ key'[u] = "video"
        BY <2>1 DEF Crash
      <3> QED
        BY <3>1 DEF TaskInv, Locals, Evidence, Verified, HasNothing, Marker
    <2>2. CASE ProcessOf[u] # p
      <3>1. Still(u)
        BY <2>2 DEF Crash, Still
      <3> QED
        BY <1>1, <3>1, EvidenceStays DEF WorkInv, TaskInv
    <2> QED
      BY <2>1, <2>2
  <1> QED
    BY <1>2, <1>3 DEF WorkInv, TaskInv

-----------------------------------------------------------------------------
(* The published results *)

\* What every delivery at work knows survives every step.
LEMMA WorkNext ==
    ASSUME WorkInv, ~RcatOverwrites, CommitNext
    PROVE  WorkInv'
  <1>1. ASSUME NEW t \in Task, TaskNext(t)
        PROVE  WorkInv'
    BY <1>1, SubmitStep, LookupStep, UploadStep, RcatStep, VerifyStep, CommitStep,
       CheckStep, FailStep
       DEF TaskNext, Progress, Fault
  <1>2. ASSUME NEW p \in Process, Crash(p)
        PROVE  WorkInv'
    BY <1>2, CrashStep
  <1> QED
    BY <1>1, <1>2 DEF CommitNext

\* Only a write touches the bucket.
LEMMA OthersLeaveObjects ==
    ASSUME NEW t \in Task, TaskNext(t), ~Rcat(t), ~RcatLandsThenFails(t)
    PROVE  UNCHANGED objects
  BY DEF TaskNext, Progress, Fault, Submit, AcquireLock, Converge, Allocate, LookupFails,
         Generate, UploadHead, PutHead, RcatRefused, Verify, CommitHead, CommitGet,
         Check, StepFails, storeVars

\* A step changes no object, or it is a write, which lets the bucket grow.
LEMMA StepGrows ==
    ASSUME WorkInv, ~RcatOverwrites, CommitNext
    PROVE  \/ UNCHANGED objects
           \/ /\ Grows
              /\ \E t \in Task : Rcat(t) \/ RcatLandsThenFails(t)
  <1>1. ASSUME NEW t \in Task, Rcat(t) \/ RcatLandsThenFails(t)
        PROVE  Grows
    BY <1>1, WriteGrows DEF Rcat, RcatLandsThenFails
  <1>2. ASSUME NEW p \in Process, Crash(p)
        PROVE  UNCHANGED objects
    BY <1>2 DEF Crash, storeVars
  <1> QED
    BY <1>1, <1>2, OthersLeaveObjects DEF CommitNext

\* A marker that a step adds is complete from the start.
LEMMA MarkersComplete ==
    ASSUME WorkInv, ~RcatOverwrites, CommitNext, NEW j \in Job,
           ~Stored(j, Marker), Stored(j, Marker)'
    PROVE  Complete(j)'
  <1>1. PICK t \in Task : Rcat(t) \/ RcatLandsThenFails(t)
    BY StepGrows DEF Stored
  <1> QED
    BY <1>1, WriteCompletes DEF Rcat, RcatLandsThenFails

\* Whoever is told has found a marker: its own, an equal one, or the one it
\* converged on.
LEMMA ToldFoundMarker ==
    ASSUME WorkInv, CommitNext, NEW t \in Task,
           outcome'[t] = "returned", outcome[t] # "returned"
    PROVE  Stored(JobOf[t], Marker) /\ pc[t] \in {"lookup", "verify", "commit_get"}
  <1>1. ~\E p \in Process : Crash(p)
    BY DEF Crash
  <1>2. PICK u \in Task : TaskNext(u)
    BY <1>1 DEF CommitNext
  <1>3. u = t
    BY <1>2
       DEF WorkInv, CommitTypeOK, TaskNext, Progress, Fault, Submit, AcquireLock,
           Converge, Allocate, LookupFails, Generate, UploadHead, PutHead, Rcat,
           RcatRefused, RcatLandsThenFails, Verify, CommitHead, CommitGet, Check,
           StepFails, Advance, Finish, Leave
  <1>4. Converge(t) \/ Verify(t) \/ CommitGet(t)
    BY <1>2, <1>3
       DEF WorkInv, CommitTypeOK, TaskNext, Progress, Fault, Submit, AcquireLock,
           Allocate, LookupFails, Generate, UploadHead, PutHead, Rcat,
           RcatRefused, RcatLandsThenFails, CommitHead, Check, StepFails, Advance,
           Finish, Leave
  <1> QED
    BY <1>4 DEF Converge, Verify, CommitGet, WorkInv, CommitTypeOK, Advance, Finish, Leave,
                Holds

-----------------------------------------------------------------------------
(* The theorems *)

LEMMA InitialInv ==
    ASSUME CommitInit
    PROVE  CommitInv
  <1>1. CommitTypeOK
    BY DEF CommitInit, StoreInit, CommitTypeOK, StoreTypeOK, Stored, Step, Key, Role, Outcome
  <1>2. \A t \in Task : Locals(t) /\ Evidence(t)
    BY DEF CommitInit, Locals, Evidence, Verified, HasNothing, Marker
  <1>3. CommittedComplete /\ ReturnedIsReadable
    BY DEF CommitInit, StoreInit, CommittedComplete, ReturnedIsReadable, Stored, Key
  <1> QED
    BY <1>1, <1>2, <1>3 DEF CommitInv

LEMMA NextInv ==
    ASSUME CommitInv, ~RcatOverwrites, [CommitNext]_commitVars
    PROVE  CommitInv'
  <1>1. WorkInv /\ StoreTypeOK
    BY DEF CommitInv, WorkInv, CommitTypeOK
  <1>2. CASE CommitNext
    <2>1. WorkInv'
      BY <1>1, <1>2, WorkNext
    <2>2. \A j \in Job : Complete(j) => Complete(j)'
      <3>1. Grows
        BY <1>1, <1>2, StepGrows DEF Grows
      <3> QED
        BY <1>1, <3>1, CompleteStays
    <2>3. CommittedComplete'
      BY <1>1, <1>2, <2>2, MarkersComplete DEF CommitInv, CommittedComplete
    <2>4. ASSUME NEW t \in Task, outcome'[t] = "returned"
          PROVE  Complete(JobOf[t])'
      <3>1. JobOf[t] \in Job
        BY TaskAssumption
      <3>2. outcome[t] = "returned" \/ Stored(JobOf[t], Marker)
        BY <1>1, <1>2, <2>4, ToldFoundMarker
      <3>3. Complete(JobOf[t])
        BY <3>1, <3>2 DEF CommitInv, CommittedComplete, ReturnedIsReadable
      <3> QED
        BY <2>2, <3>1, <3>3
    <2> QED
      BY <2>1, <2>3, <2>4 DEF CommitInv, WorkInv, ReturnedIsReadable
  <1>3. CASE UNCHANGED commitVars
    <2>1. CommitTypeOK'
      BY <1>1, <1>3, StoreTypeStays DEF WorkInv, CommitTypeOK, commitVars, taskVars
    <2>2. Grows
      BY <1>3 DEF Grows, commitVars, storeVars
    <2>3. \A u \in Task : TaskInv(u)'
      BY <1>1, <1>3, <2>2, EvidenceStays
         DEF WorkInv, TaskInv, Still, commitVars, taskVars
    <2>4. CommittedComplete' /\ ReturnedIsReadable'
      BY <1>3
         DEF CommitInv, CommittedComplete, ReturnedIsReadable, Complete, Stored,
             AsRecorded, commitVars, taskVars, storeVars
    <2> QED
      BY <2>1, <2>3, <2>4 DEF CommitInv, TaskInv
  <1> QED
    BY <1>2, <1>3

\* CommitInv is inductive: it holds in every state of every behaviour.
THEOREM CommitInvariant ==
    ASSUME ~RcatOverwrites
    PROVE  CommitSpec => []CommitInv
  <1>1. CommitInit => CommitInv
    BY InitialInv
  <1>2. CommitInv /\ [CommitNext]_commitVars => CommitInv'
    BY NextInv
  <1> QED
    BY <1>1, <1>2, PTL DEF CommitSpec

\* Every variable keeps its type; what is stored under a key is content of
\* that key's kind.
THEOREM TypeCorrect ==
    ASSUME ~RcatOverwrites
    PROVE  CommitSpec => []CommitTypeOK
  <1>1. CommitInv => CommitTypeOK
    BY DEF CommitInv
  <1> QED
    BY <1>1, CommitInvariant, PTL

\* Publish-last: a marker in the bucket names three artifacts that are there
\* with the content it records (application.py _execute, commit.py commit).
THEOREM PublishLast ==
    ASSUME ~RcatOverwrites
    PROVE  CommitSpec => []CommittedComplete
  <1>1. CommitInv => CommittedComplete
    BY DEF CommitInv
  <1> QED
    BY <1>1, CommitInvariant, PTL

-----------------------------------------------------------------------------
(* What a step may do to a published result, and the refinement *)

\* An attempt whose marker is stored is full, so growing leaves it as it is.
LEMMA PublishedStays ==
    ASSUME CommitInv, CommitInv', ~RcatOverwrites, [CommitNext]_commitVars,
           NEW j \in Job, Stored(j, Marker)
    PROVE  objects'[j] = objects[j]
  <1>1. \A k \in Key : Stored(j, k)
    BY DEF CommitInv, CommittedComplete, Complete, Key
  <1>2. UNCHANGED objects \/ Grows
    <2>1. WorkInv
      BY DEF CommitInv, WorkInv
    <2> QED
      BY <2>1, StepGrows DEF commitVars, storeVars
  <1>3. \A k \in Key : objects'[j][k] = objects[j][k]
    BY <1>1, <1>2 DEF Grows
  <1>4. objects[j] \in [Key -> Object \cup {None}] /\ objects'[j] \in [Key -> Object \cup {None}]
    BY DEF CommitInv, CommitTypeOK, StoreTypeOK
  <1> QED
    BY <1>3, <1>4

\* Once a marker is published no step of any task touches that attempt again
\* (uploader.py upload, rclone.py put).
THEOREM Immutable ==
    ASSUME ~RcatOverwrites
    PROVE  CommitSpec => PublishedIsImmutable
  <1>1. CommitInv /\ CommitInv' /\ [CommitNext]_commitVars
        => [\A j \in Job : Stored(j, Marker) => objects'[j] = objects[j]]_commitVars
    BY PublishedStays
  <1> QED
    BY <1>1, CommitInvariant, PTL DEF CommitSpec, PublishedIsImmutable

\* The refinement mapping, by name.
Videos == [j \in Job |-> Deliverable(j)]
Told == {t \in Task : outcome[t] = "returned"}

\* A step that leaves the bucket alone tells, forgets, or means nothing.
LEMMA QuietRefines ==
    ASSUME CommitInv, CommitInv', UNCHANGED objects, NEW t \in Task,
           \A u \in Task \ {t} : outcome'[u] = outcome[u]
    PROVE  Promise!Next \/ UNCHANGED <<Videos, Told>>
  <1>1. UNCHANGED Videos
    BY DEF Videos, Deliverable, Stored
  <1>2. CASE outcome'[t] = "returned"
    <2>1. Told' = Told \cup {t}
      BY <1>2 DEF Told
    <2>2. Videos[JobOf[t]] # None
      <3>1. Complete(JobOf[t])'
        BY <1>2 DEF CommitInv, ReturnedIsReadable
      <3>2. JobOf[t] \in Job
        BY TaskAssumption
      <3>3. Stored(JobOf[t], Marker) /\ Stored(JobOf[t], "video")
        BY <3>1 DEF Complete, Stored, Role
      <3>4. objects[JobOf[t]]["video"].data \in Render
        BY <3>2, <3>3 DEF CommitInv, CommitTypeOK, StoreTypeOK, Contents, Key, Role, Marker
      <3> QED
        BY <3>2, <3>3, <3>4, StoreAssumption DEF Videos, Deliverable
    <2>3. Promise!Tell(t)
      BY <1>1, <2>1, <2>2 DEF Promise!Tell, Videos, Told
    <2> QED
      BY <2>3 DEF Promise!Next
  <1>3. CASE outcome'[t] # "returned"
    <2>1. Told' = Told \ {t}
      BY <1>3 DEF Told
    <2>2. Promise!Ask(t)
      BY <1>1, <2>1 DEF Promise!Ask, Videos, Told
    <2> QED
      BY <2>2 DEF Promise!Next
  <1> QED
    BY <1>2, <1>3

\* The write of a marker publishes; any other write changes no deliverable.
LEMMA WriteRefines ==
    ASSUME CommitInv, CommitInv', ~RcatOverwrites, NEW t \in Task,
           Rcat(t) \/ RcatLandsThenFails(t)
    PROVE  Promise!Next \/ UNCHANGED <<Videos, Told>>
  <1>1. [CommitNext]_commitVars
    BY DEF CommitNext, TaskNext, Progress, Fault
  <1>2. JobOf[t] \in Job /\ \A j \in Job : j # JobOf[t] => objects'[j] = objects[j]
    BY TaskAssumption
       DEF CommitInv, CommitTypeOK, StoreTypeOK, Rcat, RcatLandsThenFails, RcatLands, Write
  <1>3. UNCHANGED Told
    <2>1. outcome[t] = "none"
      BY DEF CommitInv, Locals, Rcat, RcatLandsThenFails
    <2>2. outcome'[t] \in {"none", "failed"} /\ \A u \in Task \ {t} : outcome'[u] = outcome[u]
      BY <2>1 DEF CommitInv, CommitTypeOK, Rcat, RcatLandsThenFails, Finish, Leave
    <2> QED
      BY <2>1, <2>2 DEF Told
  <1>4. \A j \in Job \ {JobOf[t]} : Deliverable(j)' = Deliverable(j)
    BY <1>2 DEF Deliverable, Stored
  <1>5. CASE Deliverable(JobOf[t])' = Deliverable(JobOf[t])
    BY <1>3, <1>4, <1>5 DEF Videos
  <1>6. CASE Deliverable(JobOf[t])' # Deliverable(JobOf[t])
    <2> DEFINE r == objects'[JobOf[t]]["video"].data
    <2>1. ~Stored(JobOf[t], Marker)
      BY <1>1, <1>2, <1>6, PublishedStays DEF Deliverable, Stored
    <2>2. Deliverable(JobOf[t]) = None
      BY <2>1 DEF Deliverable
    <2>3. Stored(JobOf[t], "video")' /\ Deliverable(JobOf[t])' = r
      BY <1>6, <2>2 DEF Deliverable, Stored
    <2>4. r \in Render
      BY <1>2, <2>3 DEF CommitInv, CommitTypeOK, StoreTypeOK, Contents, Key, Role, Marker,
             Stored
    <2>5. Videos' = [Videos EXCEPT ![JobOf[t]] = r]
      BY <1>2, <1>4, <2>3 DEF Videos
    <2>6. Videos[JobOf[t]] = None
      BY <1>2, <2>2 DEF Videos
    <2>7. Promise!Publish(JobOf[t])
      BY <1>3, <2>4, <2>5, <2>6 DEF Promise!Publish, Videos, Told
    <2> QED
      BY <1>2, <2>7 DEF Promise!Next
  <1> QED
    BY <1>5, <1>6

LEMMA StepRefines ==
    ASSUME CommitInv, CommitInv', ~RcatOverwrites, [CommitNext]_commitVars
    PROVE  [Promise!Next]_Promise!vars
  <1>1. ASSUME NEW t \in Task, Rcat(t) \/ RcatLandsThenFails(t)
        PROVE  Promise!Next \/ UNCHANGED <<Videos, Told>>
    BY <1>1, WriteRefines
  <1>2. ASSUME NEW t \in Task, TaskNext(t), ~Rcat(t), ~RcatLandsThenFails(t)
        PROVE  Promise!Next \/ UNCHANGED <<Videos, Told>>
    <2>1. UNCHANGED objects
      BY <1>2, OthersLeaveObjects
    <2>2. \A u \in Task \ {t} : outcome'[u] = outcome[u]
      BY <1>2
         DEF CommitInv, CommitTypeOK, TaskNext, Progress, Fault, Submit, AcquireLock,
             Converge, Allocate, LookupFails, Generate, UploadHead, PutHead, RcatRefused,
             Verify, CommitHead, CommitGet, Check, StepFails, Advance, Finish, Leave
    <2> QED
      BY <2>1, <2>2, QuietRefines
  <1>3. ASSUME NEW p \in Process, Crash(p)
        PROVE  Promise!Next \/ UNCHANGED <<Videos, Told>>
    <2>1. UNCHANGED Videos
      BY <1>3 DEF Crash, storeVars, Videos, Deliverable, Stored
    <2>2. \A u \in Task : outcome'[u] = "returned" <=> outcome[u] = "returned"
      BY <1>3 DEF Crash, CommitInv, Locals
    <2> QED
      BY <2>1, <2>2 DEF Told
  <1>4. ASSUME UNCHANGED commitVars
        PROVE  UNCHANGED <<Videos, Told>>
    BY <1>4 DEF commitVars, taskVars, storeVars, Videos, Told, Deliverable, Stored
  <1>5. Promise!Next \/ UNCHANGED <<Videos, Told>>
    BY <1>1, <1>2, <1>3, <1>4 DEF CommitNext
  <1> QED
    BY <1>5 DEF Promise!vars, Videos, Told

\* The submissions of all processes implement the abstract promise: at most one
\* deliverable per request, published whole, never changed, and told only when
\* it is there (application.py submit).
THEOREM Refinement ==
    ASSUME ~RcatOverwrites
    PROVE  CommitSpec => ImplementsPromise
  <1>1. CommitInit => Promise!Init
    BY DEF CommitInit, StoreInit, Promise!Init, Deliverable, Stored, Key
  <1>2. CommitInv /\ CommitInv' /\ [CommitNext]_commitVars => [Promise!Next]_Promise!vars
    BY StepRefines
  <1> QED
    BY <1>1, <1>2, CommitInvariant, PTL DEF CommitSpec, ImplementsPromise, Promise!Spec

-----------------------------------------------------------------------------
(* The request lock, whatever the bucket does *)

\* A task past the lock holds it, and past allocate it has its directory.
LockInv ==
    /\ pc \in [Task -> Step]
    /\ lock \in [Process -> [Job -> Task \cup {None}]]
    /\ \A t \in Task : Inside(t) => lock[ProcessOf[t]][JobOf[t]] = t
    /\ \A t \in Task : Inside(t) /\ pc[t] # "lookup" => Workspace(t) \in workspaces

Busy == Step \ {"idle", "queued", "lookup"}

\* The task goes on with the lock and the directory it has.
Moves(t) ==
    /\ pc[t] \in Busy
    /\ \E l \in Busy : pc' = [pc EXCEPT ![t] = l]
    /\ UNCHANGED <<lock, workspaces>>

\* The task releases the lock, and its directory if it had got one.
Leaves(t) ==
    /\ Inside(t)
    /\ pc' = [pc EXCEPT ![t] = "idle"]
    /\ lock' = [lock EXCEPT ![ProcessOf[t]][JobOf[t]] = None]
    /\ workspaces' \in {workspaces, workspaces \ {Workspace(t)}}

\* To the lock every step of a task is one of five.
LEMMA LockSteps ==
    ASSUME LockInv, NEW t \in Task, TaskNext(t)
    PROVE  \/ Submit(t) \/ AcquireLock(t) \/ Moves(t) \/ Leaves(t)
           \/ Allocate(t) /\ pc'[t] = "generate"
  <1>1. CASE Allocate(t)
    BY <1>1 DEF LockInv, Allocate, Goto, Leave, Leaves, Inside
  <1>2. CASE Converge(t) \/ LookupFails(t)
    BY <1>2 DEF Converge, LookupFails, Goto, Leave, Leaves, Inside
  <1>3. CASE Generate(t) \/ CommitHead(t) \/ Rcat(t)
    BY <1>3 DEF Generate, CommitHead, Rcat, Goto, Moves, Busy, Step
  <1>4. CASE UploadHead(t) \/ Verify(t)
    BY <1>4
       DEF UploadHead, Verify, Advance, Goto, Finish, Leave, Moves, Leaves, Inside, Busy, Step
  <1>5. CASE PutHead(t) \/ Check(t)
    BY <1>5
       DEF PutHead, Check, Goto, Finish, Leave, Moves, Leaves, Inside, Busy, Step
  <1>6. CASE CommitGet(t) \/ RcatRefused(t) \/ StepFails(t) \/ RcatLandsThenFails(t)
    BY <1>6
       DEF CommitGet, RcatRefused, StepFails, RcatLandsThenFails, Goto, Finish, Leave,
           Leaves, Inside
  <1> QED
    BY <1>1, <1>2, <1>3, <1>4, <1>5, <1>6 DEF TaskNext, Progress, Fault

\* Two tasks past the lock of one request in one process are the same task.
LEMMA OneHolder ==
    ASSUME LockInv, NEW t \in Task, NEW u \in Task, Inside(t), Inside(u),
           Workspace(t) = Workspace(u)
    PROVE  t = u
  BY DEF LockInv, Workspace

LEMMA TaskKeepsLockInv ==
    ASSUME LockInv, NEW t \in Task, TaskNext(t)
    PROVE  LockInv'
  <1>1. ProcessOf[t] \in Process /\ JobOf[t] \in Job
    BY TaskAssumption
  <1>2. CASE Submit(t)
    BY <1>2 DEF LockInv, Submit, Goto, Inside, Step, Workspace
  <1>3. CASE AcquireLock(t)
    <2>1. /\ pc' = [pc EXCEPT ![t] = "lookup"] /\ UNCHANGED workspaces
          /\ lock' = [lock EXCEPT ![ProcessOf[t]][JobOf[t]] = t]
          /\ lock[ProcessOf[t]][JobOf[t]] = None
      BY <1>3 DEF AcquireLock, Goto
    <2>2. lock' \in [Process -> [Job -> Task \cup {None}]] /\ pc' \in [Task -> Step]
      BY <2>1 DEF LockInv, Step
    <2>3. ASSUME NEW u \in Task, Inside(u)'
          PROVE  /\ lock'[ProcessOf[u]][JobOf[u]] = u
                 /\ pc'[u] # "lookup" => Workspace(u) \in workspaces'
      <3>1. CASE u = t
        BY <1>1, <2>1, <3>1 DEF LockInv
      <3>2. CASE u # t
        <4>1. lock[ProcessOf[u]][JobOf[u]] = u /\ Inside(u)
          BY <2>1, <2>3, <3>2 DEF LockInv, Inside
        <4>2. <<ProcessOf[u], JobOf[u]>> # <<ProcessOf[t], JobOf[t]>>
          BY <2>1, <4>1, TaskAssumption
        <4> QED
          BY <1>1, <2>1, <4>1, <4>2, TaskAssumption DEF LockInv
      <3> QED
        BY <3>1, <3>2
    <2> QED
      BY <2>2, <2>3 DEF LockInv, Workspace
  <1>4. CASE Allocate(t) /\ pc'[t] = "generate"
    <2>1. /\ pc' = [pc EXCEPT ![t] = "generate"] /\ pc[t] = "lookup"
          /\ workspaces' = workspaces \cup {Workspace(t)} /\ UNCHANGED lock
      BY <1>4 DEF LockInv, Allocate, Goto, Leave
    <2> QED
      BY <2>1 DEF LockInv, Inside, Step, Workspace
  <1>5. CASE Moves(t)
    BY <1>5 DEF LockInv, Moves, Inside, Step, Busy, Workspace
  <1>6. CASE Leaves(t)
    <2>1. lock' \in [Process -> [Job -> Task \cup {None}]] /\ pc' \in [Task -> Step]
      BY <1>6 DEF LockInv, Leaves, Step
    <2>2. ASSUME NEW u \in Task, Inside(u)'
          PROVE  /\ lock'[ProcessOf[u]][JobOf[u]] = u
                 /\ pc'[u] # "lookup" => Workspace(u) \in workspaces'
      <3>1. u # t /\ Inside(u) /\ pc'[u] = pc[u]
        BY <1>6, <2>2 DEF LockInv, Leaves, Inside
      <3>2. Workspace(u) # Workspace(t)
        BY <1>6, <3>1, OneHolder DEF Leaves
      <3>3. lock'[ProcessOf[u]][JobOf[u]] = lock[ProcessOf[u]][JobOf[u]]
        BY <1>1, <1>6, <3>2, TaskAssumption DEF LockInv, Leaves, Workspace
      <3>4. pc[u] # "lookup" => Workspace(u) \in workspaces'
        BY <1>6, <3>1, <3>2 DEF LockInv, Leaves
      <3> QED
        BY <3>1, <3>3, <3>4 DEF LockInv
    <2> QED
      BY <2>1, <2>2 DEF LockInv, Workspace
  <1> QED
    BY <1>2, <1>3, <1>4, <1>5, <1>6, LockSteps

LEMMA CrashKeepsLockInv ==
    ASSUME LockInv, NEW p \in Process, Crash(p)
    PROVE  LockInv'
  <1>1. pc' \in [Task -> Step] /\ lock' \in [Process -> [Job -> Task \cup {None}]]
    BY DEF LockInv, Crash, Step
  <1>2. ASSUME NEW u \in Task, Inside(u)'
        PROVE  /\ lock'[ProcessOf[u]][JobOf[u]] = u
               /\ pc'[u] # "lookup" => Workspace(u) \in workspaces'
    <2>1. ProcessOf[u] # p /\ pc'[u] = pc[u] /\ Inside(u)
      BY <1>2 DEF Crash, Inside
    <2>2. lock'[ProcessOf[u]] = lock[ProcessOf[u]]
      BY <2>1, TaskAssumption DEF LockInv, Crash
    <2>3. Workspace(u) \in workspaces => Workspace(u) \in workspaces'
      BY <2>1 DEF Crash, Workspace
    <2> QED
      BY <2>1, <2>2, <2>3 DEF LockInv
  <1> QED
    BY <1>1, <1>2 DEF LockInv, Workspace

\* At most one task of a process is past the lock of a request, so no two live
\* tasks share an attempt directory, and each has its own (application.py
\* submit, workspace.py allocate and cleanup).
THEOREM OneWorkspaceEach == CommitSpec => []WorkspacesApart
  <1>1. CommitInit => LockInv
    BY DEF CommitInit, LockInv, Inside, Step
  <1>2. LockInv /\ [CommitNext]_commitVars => LockInv'
    <2>1. ASSUME LockInv, UNCHANGED commitVars
          PROVE  LockInv'
      BY <2>1 DEF LockInv, Inside, Workspace, commitVars, taskVars
    <2> QED
      BY <2>1, TaskKeepsLockInv, CrashKeepsLockInv DEF CommitNext
  <1>3. LockInv => WorkspacesApart
    BY OneHolder DEF LockInv, WorkspacesApart
  <1> QED
    BY <1>1, <1>2, <1>3, PTL DEF CommitSpec

=============================================================================
