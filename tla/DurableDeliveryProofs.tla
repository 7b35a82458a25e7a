------------------------ MODULE DurableDeliveryProofs ------------------------
(***************************************************************************)
(* DurableInv, for any number of processes, deliveries and requests, and   *)
(* whatever sweeps and erasures do meanwhile.  CommitInv does not survive  *)
(* them: what a delivery has verified may be deleted at any moment.  What  *)
(* survives is that nothing else takes its place, as long as the request   *)
(* has one process: the lock then keeps every other delivery out.          *)
(***************************************************************************)
EXTENDS DurableDelivery, ResultCommitProofs

Own(t) == Locals(t) /\ OwnWork(t)

\* The inductive invariant of the workers, apart from the lock.
BodyInv ==
    /\ CommitTypeOK
    /\ NeverMixed
    /\ \A t \in Task : Own(t)

\* Where a delivery has nothing of the bucket to rely on.
Outside == {"idle", "queued", "lookup"}

-----------------------------------------------------------------------------
(* One delivery moves, or none *)

\* A delivery that stands still relies on what is left of its request.
LEMMA OwnStays ==
    ASSUME CommitTypeOK, NEW u \in Task, Own(u), Still(u),
           \A k \in Key : objects'[JobOf[u]][k] \in {objects[JobOf[u]][k], None}
    PROVE  Own(u)'
<1>1. Locals(u)' BY DEF Own, Still, Locals
<1>2. Verified(u)' = Verified(u) /\ Verified(u) \subseteq Key
  BY DEF Still, Verified, Before, Key, Role
<1>3. \A k \in Key : Stored(JobOf[u], k)' =>
        /\ Stored(JobOf[u], k) /\ objects'[JobOf[u]][k] = objects[JobOf[u]][k]
  BY DEF Stored
<1>4. OwnWork(u)'
  <2> SUFFICES ASSUME Alone(JobOf[u]), pc'[u] \notin Outside
               PROVE  /\ Stored(JobOf[u], Marker)' => pc'[u] = "verify" /\ key'[u] = Marker
                      /\ \A k \in Verified(u)' : Stored(JobOf[u], k)'
                            => Holds(JobOf[u], k, RoleContent(k, render[u]))'
    BY DEF OwnWork, Outside, Alone
  <2>1. /\ Stored(JobOf[u], Marker) => pc[u] = "verify" /\ key[u] = Marker
        /\ \A k \in Verified(u) :
             Stored(JobOf[u], k) => Holds(JobOf[u], k, RoleContent(k, render[u]))
    BY DEF Own, OwnWork, Still, Outside
  <2>2. Marker \in Key BY DEF Key
  <2>3. Stored(JobOf[u], Marker)' => pc'[u] = "verify" /\ key'[u] = Marker
    BY <1>3, <2>1, <2>2 DEF Still
  <2>4. ASSUME NEW k \in Verified(u), Stored(JobOf[u], k)'
        PROVE  Holds(JobOf[u], k, RoleContent(k, render[u]))'
    BY <1>2, <1>3, <2>1, <2>4 DEF Holds, Still, RoleContent
  <2> QED BY <1>2, <2>3, <2>4
<1> QED BY <1>1, <1>4 DEF Own

\* A step that leaves the bucket alone keeps everything if it keeps the part
\* about its own delivery.
LEMMA QuietKeeps ==
    ASSUME BodyInv, UNCHANGED storeVars, NEW t \in Task,
           CommitTypeOK', Own(t)', \A u \in Task \ {t} : Still(u)
    PROVE  BodyInv'
<1>1. ASSUME NEW u \in Task PROVE Own(u)'
  BY OwnStays DEF BodyInv, storeVars
<1>2. NeverMixed'
  BY DEF BodyInv, NeverMixed, Alone, Stored, AsRecorded, storeVars
<1> QED BY <1>1, <1>2 DEF BodyInv

\* Every way out of submit, and of _execute.
LEMMA LeaveKeeps ==
    ASSUME BodyInv, UNCHANGED storeVars, NEW t \in Task, NEW result \in Outcome,
           Leave(t, result), workspaces' \subseteq workspaces
    PROVE  BodyInv'
<1>1. CommitTypeOK'
  BY StoreTypeStays DEF BodyInv, CommitTypeOK, Leave, Goto, Step, Key, Role
<1>2. /\ pc'[t] = "idle" /\ key'[t] = "video"
      /\ \A u \in Task \ {t} : Still(u)
  BY DEF BodyInv, CommitTypeOK, Leave, Goto, Still
<1>3. Own(t)'
  BY <1>2 DEF Own, Locals, OwnWork, HasNothing, Marker
<1> QED BY <1>1, <1>2, <1>3, QuietKeeps

\* So it does on every way out of _execute.
LEMMA FinishKeeps ==
    ASSUME BodyInv, UNCHANGED storeVars, NEW t \in Task, NEW result \in Outcome,
           Finish(t, result)
    PROVE  BodyInv'
BY LeaveKeeps DEF Finish

\* A request that has one process has no marker while a delivery is at work on
\* it, before that delivery has put its own.
LEMMA NoMarkerYet ==
    ASSUME NEW t \in Task, Own(t), Alone(JobOf[t]), pc[t] \notin Outside,
           pc[t] # "verify" \/ key[t] # Marker
    PROVE  ~Stored(JobOf[t], Marker)
BY DEF Own, OwnWork, Outside


\* A delivery at work that leaves the bucket alone keeps what it relies on, and
\* may add what it has just seen to hold.
LEMMA WorkCarries ==
    ASSUME NEW t \in Task, Own(t), UNCHANGED storeVars, pc[t] \notin Outside,
           pc[t] # "verify" \/ key[t] # Marker,
           \A k \in Verified(t)' :
              /\ render'[t] = render[t]
              /\ k \in Verified(t) \/ Holds(JobOf[t], k, RoleContent(k, render[t]))
    PROVE  OwnWork(t)'
<1> SUFFICES ASSUME Alone(JobOf[t])
             PROVE  /\ ~Stored(JobOf[t], Marker)'
                    /\ \A k \in Verified(t)' : Stored(JobOf[t], k)'
                          => Holds(JobOf[t], k, RoleContent(k, render[t]))'
  BY DEF OwnWork, Alone
<1>1. ~Stored(JobOf[t], Marker)'
  BY NoMarkerYet DEF Stored, storeVars
<1>2. ASSUME NEW k \in Verified(t)', Stored(JobOf[t], k)'
      PROVE  Holds(JobOf[t], k, RoleContent(k, render[t]))'
  <2>1. Stored(JobOf[t], k) BY <1>2 DEF Stored, storeVars
  <2>2. Holds(JobOf[t], k, RoleContent(k, render[t]))
    BY <2>1 DEF Own, OwnWork, Outside
  <2> QED BY <2>2 DEF Holds, Stored, RoleContent, storeVars
<1> QED BY <1>1, <1>2

LEMMA CarryKeeps ==
    ASSUME BodyInv, UNCHANGED <<storeVars, render, manifest, lock, workspaces, outcome>>,
           NEW t \in Task, NEW l \in Step, NEW k \in Key,
           pc[t] \notin Outside, pc[t] # "verify" \/ key[t] # Marker,
           pc' = [pc EXCEPT ![t] = l], key' = [key EXCEPT ![t] = k],
           Locals(t)', Verified(t)' \subseteq Verified(t)
    PROVE  BodyInv'
<1>1. CommitTypeOK'
  BY StoreTypeStays DEF BodyInv, CommitTypeOK
<1>2. \A u \in Task \ {t} : Still(u)
  BY DEF BodyInv, CommitTypeOK, Still
<1>3. OwnWork(t)'
  BY WorkCarries DEF BodyInv
<1> QED BY <1>1, <1>2, <1>3, QuietKeeps DEF Own

-----------------------------------------------------------------------------
(* The steps that leave the bucket alone *)

LEMMA SubmitKeeps ==
    ASSUME BodyInv, NEW t \in Task, Submit(t) \/ AcquireLock(t) \/ Generate(t)
    PROVE  BodyInv'
<1>1. CommitTypeOK'
  <2>1. CASE Submit(t)
    BY <2>1, StoreTypeStays DEF BodyInv, CommitTypeOK, Submit, Goto, Step, Outcome
  <2>2. CASE AcquireLock(t)
    <3>1. lock' \in [Process -> [Job -> Task \cup {None}]]
      BY <2>2 DEF BodyInv, CommitTypeOK, AcquireLock
    <3> QED
      BY <2>2, <3>1, StoreTypeStays DEF BodyInv, CommitTypeOK, AcquireLock, Goto, Step
  <2>3. CASE Generate(t)
    <3>1. render' \in [Task -> Render \cup {None}]
      BY <2>3 DEF BodyInv, CommitTypeOK, Generate
    <3> QED
      BY <2>3, <3>1, StoreTypeStays DEF BodyInv, CommitTypeOK, Generate, Goto, Step
  <2> QED BY <2>1, <2>2, <2>3
<1>2. Own(t) /\ Locals(t) BY DEF BodyInv, Own
<1>3. \A u \in Task \ {t} : Still(u)
  BY DEF BodyInv, CommitTypeOK, Submit, AcquireLock, Generate, Goto, Still
<1>4. Locals(t)'
  BY <1>1, <1>2
     DEF BodyInv, CommitTypeOK, Submit, AcquireLock, Generate, Goto, Locals, HasNothing,
         Marker, Role
<1>5. OwnWork(t)'
  <2>1. CASE Submit(t) \/ AcquireLock(t)
    BY <2>1 DEF BodyInv, CommitTypeOK, Submit, AcquireLock, Goto, OwnWork
  <2>2. CASE Generate(t)
    <3>1. Verified(t)' = {} /\ pc[t] = "generate"
      BY <1>2, <2>2
         DEF BodyInv, CommitTypeOK, Generate, Goto, Verified, Before, HasNothing, Locals
    <3> QED BY <1>2, <2>2, <3>1, WorkCarries DEF Generate, Outside
  <2> QED BY <2>1, <2>2
<1> QED
  BY <1>1, <1>3, <1>4, <1>5, QuietKeeps DEF Own, Submit, AcquireLock, Generate

LEMMA LookupKeeps ==
    ASSUME BodyInv, NEW t \in Task, Converge(t) \/ Allocate(t) \/ LookupFails(t)
    PROVE  BodyInv'
<1>1. CASE Allocate(t) /\ Workspace(t) \notin workspaces
  <2>1. CommitTypeOK'
    <3>1. Workspace(t) \in Process \X Job
      BY TaskAssumption DEF Workspace
    <3>2. workspaces' \subseteq Process \X Job
      BY <1>1, <3>1 DEF BodyInv, CommitTypeOK, Allocate
    <3> QED
      BY <1>1, <3>2, StoreTypeStays DEF BodyInv, CommitTypeOK, Allocate, Goto, Step
  <2>2. \A u \in Task \ {t} : Still(u)
    BY <1>1 DEF BodyInv, CommitTypeOK, Allocate, Goto, Still
  <2>3. pc'[t] = "generate" /\ ~Stored(JobOf[t], Marker)' /\ UNCHANGED storeVars
    BY <1>1 DEF BodyInv, CommitTypeOK, Allocate, Goto, Stored, storeVars
  <2>4. Locals(t)'
    BY <1>1, <2>3
       DEF BodyInv, Own, CommitTypeOK, Allocate, Goto, Locals, HasNothing, Marker
  <2>5. OwnWork(t)'
    BY <2>3 DEF OwnWork, Verified, HasNothing
  <2> QED BY <2>1, <2>2, <2>3, <2>4, <2>5, QuietKeeps DEF Own
<1>2. CASE Allocate(t) /\ Workspace(t) \in workspaces
  BY <1>2, LeaveKeeps DEF Allocate, Outcome
<1>3. CASE Converge(t) \/ LookupFails(t)
  BY <1>3, LeaveKeeps DEF Converge, LookupFails, Outcome
<1> QED BY <1>1, <1>2, <1>3

\* An artifact that is verified joins what the delivery relies on.
LEMMA AdvanceKeeps ==
    ASSUME BodyInv, UNCHANGED storeVars, NEW t \in Task, Advance(t),
           pc[t] \in {"upload_head", "verify"}, key[t] \in Role,
           Holds(JobOf[t], key[t], Content(t))
    PROVE  BodyInv'
<1>1. Own(t) /\ Locals(t) /\ render[t] \in Render
  BY DEF BodyInv, Own, Locals, HasNothing
<1>2. CommitTypeOK'
  <2>1. key' \in [Task -> Key] /\ pc' \in [Task -> Step]
    BY DEF BodyInv, CommitTypeOK, Advance, Goto, KeyAfter, Key, Role, Step
  <2>2. manifest' \in [Task -> Manifest \cup {None}]
    <3>1. \A s \in Stamp : [render |-> render[t], committed_at |-> s] \in Manifest
      BY <1>1 DEF Manifest
    <3> QED BY <3>1 DEF BodyInv, CommitTypeOK, Advance
  <2> QED BY <2>1, <2>2, StoreTypeStays DEF BodyInv, CommitTypeOK, Advance
<1>3. /\ \A u \in Task \ {t} : Still(u)
      /\ outcome'[t] = "none" /\ render'[t] = render[t]
  BY <1>1 DEF BodyInv, CommitTypeOK, Advance, Goto, Still, Locals
<1>4. /\ key'[t] = KeyAfter(key[t])
      /\ pc'[t] = IF key[t] = "generation" THEN "commit_head" ELSE "upload_head"
      /\ key[t] = "generation" =>
            manifest'[t] \in Manifest /\ manifest'[t].render = render[t]
      /\ key[t] # "generation" => manifest'[t] = manifest[t]
  BY <1>1 DEF BodyInv, CommitTypeOK, Advance, Goto, Manifest
<1>5. Locals(t)'
  BY <1>1, <1>3, <1>4 DEF Locals, HasNothing, KeyAfter, Role, Marker
<1>6. Verified(t)' = Verified(t) \cup {key[t]}
  <2>1. Verified(t)' = Before(KeyAfter(key[t]))
    BY <1>4 DEF Verified, HasNothing, Before
  <2>2. Verified(t) = Before(key[t])
    BY DEF Verified, HasNothing
  <2>3. CASE key[t] = "video"
    BY <2>1, <2>2, <2>3 DEF Before, KeyAfter
  <2>4. CASE key[t] = "workflow"
    BY <2>1, <2>2, <2>4 DEF Before, KeyAfter
  <2>5. CASE key[t] = "generation"
    BY <2>1, <2>2, <2>5 DEF Before, KeyAfter, Role, Marker
  <2> QED BY <2>3, <2>4, <2>5 DEF Role
<1>7. Content(t) = RoleContent(key[t], render[t]) /\ key[t] # Marker
  BY DEF Content, Role, Marker
<1>8. OwnWork(t)'
  BY <1>1, <1>3, <1>6, <1>7, WorkCarries DEF Outside
<1> QED BY <1>2, <1>3, <1>5, <1>8, QuietKeeps DEF Own

LEMMA UploadKeeps ==
    ASSUME BodyInv, NEW t \in Task, UploadHead(t) \/ PutHead(t)
    PROVE  BodyInv'
<1>1. Locals(t) BY DEF BodyInv, Own
<1>2. CASE ~Stored(JobOf[t], key[t])
  <2> DEFINE l == IF pc[t] = "upload_head" THEN "put_head" ELSE "rcat"
  <2>1. /\ UNCHANGED <<storeVars, key, render, manifest, lock, workspaces, outcome>>
        /\ pc' = [pc EXCEPT ![t] = l] /\ pc[t] \in {"upload_head", "put_head"}
    BY <1>2 DEF UploadHead, PutHead, Goto, Holds
  <2>2. key' = [key EXCEPT ![t] = key[t]] /\ key[t] \in Key
    BY <2>1 DEF BodyInv, CommitTypeOK
  <2>3. pc'[t] = l BY <2>1 DEF BodyInv, CommitTypeOK
  <2>4. Locals(t)' BY <1>1, <2>1, <2>3 DEF Locals, HasNothing
  <2>5. Verified(t)' = Verified(t) BY <2>1, <2>3 DEF Verified, HasNothing
  <2> QED BY <2>1, <2>2, <2>4, <2>5, CarryKeeps DEF Outside, Step
<1>3. CASE UploadHead(t) /\ Holds(JobOf[t], key[t], Content(t))
  <2>1. key[t] \in Role BY <1>1, <1>3 DEF Locals, UploadHead
  <2> QED BY <1>3, <2>1, AdvanceKeeps DEF UploadHead, Holds
<1>4. CASE UploadHead(t) /\ Stored(JobOf[t], key[t]) /\ ~Holds(JobOf[t], key[t], Content(t))
  BY <1>4, FinishKeeps DEF UploadHead, Outcome
<1>5. CASE PutHead(t) /\ Stored(JobOf[t], key[t])
  BY <1>5, FinishKeeps DEF PutHead, Outcome
<1> QED BY <1>2, <1>3, <1>4, <1>5

LEMMA VerifyKeeps ==
    ASSUME BodyInv, NEW t \in Task, Verify(t)
    PROVE  BodyInv'
<1>1. CASE Holds(JobOf[t], key[t], Content(t)) /\ key[t] # Marker
  <2>1. key[t] \in Role BY <1>1 DEF BodyInv, CommitTypeOK, Key
  <2> QED BY <1>1, <2>1, AdvanceKeeps DEF Verify
<1>2. CASE Finish(t, "returned") \/ Finish(t, "rejected")
  BY <1>2, FinishKeeps DEF Verify, Outcome
<1> QED BY <1>1, <1>2 DEF Verify

LEMMA CommitKeeps ==
    ASSUME BodyInv, NEW t \in Task, CommitHead(t) \/ CommitGet(t)
    PROVE  BodyInv'
<1>1. Locals(t) BY DEF BodyInv, Own
<1>2. CASE CommitHead(t)
  <2> DEFINE there == Stored(JobOf[t], Marker)
             l == IF there THEN "commit_get" ELSE "check"
             k == IF there THEN key[t] ELSE "video"
  <2>1. /\ UNCHANGED <<storeVars, render, manifest, lock, workspaces, outcome>>
        /\ pc' = [pc EXCEPT ![t] = l] /\ pc[t] = "commit_head" /\ key[t] = Marker
        /\ key' = [key EXCEPT ![t] = k]
    BY <1>1, <1>2 DEF BodyInv, CommitTypeOK, CommitHead, Goto, Locals
  <2>2. pc'[t] = l /\ key'[t] = k BY <2>1 DEF BodyInv, CommitTypeOK
  <2>3. Locals(t)' BY <1>1, <2>1, <2>2 DEF Locals, HasNothing, Role, Marker
  <2>4. Verified(t) = Role /\ Verified(t)' = Role
    BY <2>1, <2>2 DEF Verified, HasNothing, Before, Marker
  <2> QED BY <2>1, <2>3, <2>4, CarryKeeps DEF Outside, Step, Key, Role
<1>3. CASE CommitGet(t)
  BY <1>3, FinishKeeps DEF CommitGet, Outcome
<1> QED BY <1>2, <1>3

LEMMA CheckKeeps ==
    ASSUME BodyInv, NEW t \in Task, Check(t)
    PROVE  BodyInv'
<1>1. Locals(t) /\ key[t] \in Role
  BY DEF BodyInv, Own, Locals, Check
<1>2. CASE Holds(JobOf[t], key[t], Content(t))
  <2> DEFINE l == IF key[t] = "generation" THEN "put_head" ELSE "check"
  <2>1. /\ UNCHANGED <<storeVars, render, manifest, lock, workspaces, outcome>>
        /\ pc' = [pc EXCEPT ![t] = l] /\ pc[t] = "check"
        /\ key' = [key EXCEPT ![t] = KeyAfter(key[t])]
    BY <1>2 DEF Check, Goto
  <2>2. pc'[t] = l /\ key'[t] = KeyAfter(key[t])
    BY <2>1 DEF BodyInv, CommitTypeOK
  <2>3. Locals(t)'
    BY <1>1, <2>1, <2>2 DEF Locals, HasNothing, KeyAfter, Role, Marker
  <2>4. Verified(t) = Role /\ Verified(t)' = Role
    <3>1. CASE key[t] = "generation"
      BY <2>1, <2>2, <3>1 DEF Verified, HasNothing, Before, KeyAfter, Marker
    <3>2. CASE key[t] # "generation"
      BY <2>1, <2>2, <3>2 DEF Verified, HasNothing
    <3> QED BY <3>1, <3>2
  <2>5. l \in Step /\ KeyAfter(key[t]) \in Key
    BY <1>1 DEF Step, KeyAfter, Key, Role
  <2> QED BY <2>1, <2>3, <2>4, <2>5, CarryKeeps DEF Outside
<1>3. CASE ~Holds(JobOf[t], key[t], Content(t))
  BY <1>3, FinishKeeps DEF Check, Outcome
<1> QED BY <1>2, <1>3

LEMMA FailKeeps ==
    ASSUME BodyInv, NEW t \in Task, RcatRefused(t) \/ StepFails(t)
    PROVE  BodyInv'
BY FinishKeeps DEF RcatRefused, StepFails, Outcome

-----------------------------------------------------------------------------
(* The write, and the crash *)

\* What a delivery puts under its key is content of the right kind.
LEMMA PutsData ==
    ASSUME BodyInv, NEW t \in Task, pc[t] = "rcat"
    PROVE  Content(t) \in Data /\ Content(t) \in Contents(key[t])
<1>1. Locals(t) /\ render[t] \in Render
  BY DEF BodyInv, Own, Locals, HasNothing
<1>2. CASE key[t] = Marker
  BY <1>1, <1>2 DEF Locals, Content, Contents, Data, Marker
<1>3. CASE key[t] # Marker
  BY <1>1, <1>3, StoreAssumption DEF Content, Contents, RoleContent, Data
<1> QED BY <1>2, <1>3

\* It is there afterwards, and nothing else has changed.
LEMMA PutsOne ==
    ASSUME BodyInv, NEW t \in Task, pc[t] = "rcat",
           RcatLands(JobOf[t], key[t], Content(t)), UNCHANGED today
    PROVE  /\ StoreTypeOK'
           /\ objects'[JobOf[t]][key[t]] # None
           /\ objects'[JobOf[t]][key[t]].data = Content(t)
           /\ objects'[JobOf[t]][key[t]].day = today
           /\ \A j \in Job, k \in Key :
                 <<j, k>> # <<JobOf[t], key[t]>> => objects'[j][k] = objects[j][k]
<1> DEFINE new(d) == [data |-> d, day |-> today]
<1>1. StoreTypeOK /\ JobOf[t] \in Job /\ key[t] \in Key
  BY TaskAssumption DEF BodyInv, CommitTypeOK
<1>2. PICK d \in Data : d = Content(t) /\ d \in Contents(key[t])
  BY PutsData
<1>3. objects' = [objects EXCEPT ![JobOf[t]][key[t]] = new(d)]
  BY <1>2 DEF RcatLands, Write
<1>4. new(d) \in Object /\ new(d) # None /\ new(d).data = d /\ new(d).day = today
  <2>1. new(d) \in Object BY <1>1 DEF StoreTypeOK, Object
  <2> QED BY <2>1, StoreAssumption
<1>5. \A j \in Job, k \in Key :
        objects'[j][k] = IF j = JobOf[t] /\ k = key[t] THEN new(d) ELSE objects[j][k]
  BY <1>1, <1>3 DEF StoreTypeOK
<1>6. StoreTypeOK'
  <2>1. objects' \in [Job -> [Key -> Object \cup {None}]] /\ today' \in Nat
    BY <1>1, <1>3, <1>4 DEF StoreTypeOK
  <2>2. \A j \in Job, k \in Key : Stored(j, k)' => objects'[j][k].data \in Contents(k)
    BY <1>1, <1>2, <1>4, <1>5 DEF StoreTypeOK, Stored
  <2> QED BY <2>1, <2>2 DEF StoreTypeOK
<1>7. objects'[JobOf[t]][key[t]] = new(d)
  BY <1>1, <1>5
<1>8. /\ objects'[JobOf[t]][key[t]] # None
      /\ objects'[JobOf[t]][key[t]].data = Content(t)
      /\ objects'[JobOf[t]][key[t]].day = today
  <2> HIDE DEF new
  <2> QED BY <1>2, <1>4, <1>7
<1>9. \A j \in Job, k \in Key :
        <<j, k>> # <<JobOf[t], key[t]>> => objects'[j][k] = objects[j][k]
  BY <1>5
<1> QED BY <1>6, <1>8, <1>9

\* Of the deliveries on one request in one process, one is past the lock.
LEMMA OthersOutside ==
    ASSUME LockInv, NEW t \in Task, NEW u \in Task \ {t}, Alone(JobOf[t]),
           JobOf[u] = JobOf[t], Inside(t)
    PROVE  ~Inside(u)
<1>1. Workspace(u) = Workspace(t) BY DEF Alone, Workspace
<1> QED BY <1>1, OneHolder

LEMMA RcatKeeps ==
    ASSUME BodyInv, LockInv, NEW t \in Task, Rcat(t) \/ RcatLandsThenFails(t)
    PROVE  BodyInv'
<1>1. /\ StoreTypeOK'
      /\ objects'[JobOf[t]][key[t]].data = Content(t)
      /\ \A j \in Job, k \in Key :
            <<j, k>> # <<JobOf[t], key[t]>> => objects'[j][k] = objects[j][k]
  BY PutsOne DEF Rcat, RcatLandsThenFails
<1>2. /\ Own(t) /\ Locals(t) /\ pc[t] = "rcat" /\ pc[t] \notin Outside /\ Inside(t)
      /\ JobOf[t] \in Job /\ key[t] \in Key
  BY TaskAssumption
     DEF BodyInv, Own, CommitTypeOK, Rcat, RcatLandsThenFails, Outside, Inside
<1>3. CommitTypeOK'
  <2>1. CASE Rcat(t)
    BY <1>1, <2>1 DEF BodyInv, CommitTypeOK, Rcat, Goto, Step
  <2>2. CASE RcatLandsThenFails(t)
    BY <1>1, <2>2
       DEF BodyInv, CommitTypeOK, RcatLandsThenFails, Finish, Leave, Goto, Step, Outcome,
           Key, Role
  <2> QED BY <2>1, <2>2
<1>4. NeverMixed'
  <2> SUFFICES ASSUME NEW j \in Job, NEW k \in Role, Alone(j), Stored(j, Marker)', Stored(j, k)'
               PROVE  AsRecorded(j, k)'
    BY DEF NeverMixed, Alone
  <2>1. k \in Key /\ Marker \in Key /\ k # Marker BY DEF Key, Role, Marker
  <2>2. CASE j # JobOf[t]
    BY <1>1, <2>1, <2>2 DEF BodyInv, NeverMixed, Stored, AsRecorded
  <2>3. CASE j = JobOf[t] /\ key[t] # Marker
    <3>1. ~Stored(j, Marker) BY <1>2, <2>3, NoMarkerYet
    <3> QED BY <1>1, <2>1, <2>3, <3>1 DEF Stored
  <2>4. CASE j = JobOf[t] /\ key[t] = Marker
    <3>1. Verified(t) = Role BY <1>2, <2>4 DEF Verified, HasNothing, Before, Marker
    <3>2. objects'[j][k] = objects[j][k] BY <1>1, <2>1, <2>4
    <3>3. Stored(j, k) BY <3>2 DEF Stored
    <3>4. Holds(j, k, RoleContent(k, render[t]))
      BY <1>2, <2>4, <3>1, <3>3 DEF Own, OwnWork, Outside
    <3>5. objects'[j][Marker].data.render = render[t]
      BY <1>1, <1>2, <2>4 DEF Content, Locals
    <3> QED BY <3>2, <3>4, <3>5 DEF AsRecorded, Holds
  <2> QED BY <2>2, <2>3, <2>4
<1>5. ASSUME NEW u \in Task \ {t} PROVE Own(u)'
  <2>1. Still(u)
    BY DEF BodyInv, CommitTypeOK, Rcat, RcatLandsThenFails, Finish, Leave, Goto, Still
  <2>2. CASE JobOf[u] # JobOf[t]
    <3>1. \A k \in Key : objects'[JobOf[u]][k] = objects[JobOf[u]][k]
      BY <1>1, <2>2, TaskAssumption
    <3> QED BY <2>1, <3>1, OwnStays DEF BodyInv
  <2>3. CASE JobOf[u] = JobOf[t]
    <3>1. Locals(u)' BY <2>1 DEF BodyInv, Own, Still, Locals
    <3>2. ASSUME Alone(JobOf[u]) PROVE pc'[u] \in {"idle", "queued"}
      BY <1>2, <2>1, <2>3, <3>2, OthersOutside DEF Still, Inside
    <3>3. OwnWork(u)' BY <3>2 DEF OwnWork, Alone
    <3> QED BY <3>1, <3>3 DEF Own
  <2> QED BY <2>2, <2>3
<1>6. Own(t)'
  <2>1. CASE RcatLandsThenFails(t)
    <3>1. pc'[t] = "idle" /\ key'[t] = "video"
      BY <2>1 DEF BodyInv, CommitTypeOK, RcatLandsThenFails, Finish, Leave, Goto
    <3> QED BY <3>1 DEF Own, Locals, OwnWork, HasNothing, Marker
  <2>2. CASE Rcat(t)
    <3>1. /\ pc'[t] = "verify" /\ outcome'[t] = outcome[t]
          /\ key' = key /\ render' = render /\ manifest' = manifest
      BY <2>2 DEF BodyInv, CommitTypeOK, Rcat, Goto
    <3>2. Locals(t)' BY <1>2, <3>1 DEF Locals, HasNothing
    <3>3. Verified(t)' = Verified(t) /\ Verified(t) \subseteq Key /\ key[t] \notin Verified(t)
      BY <1>2, <3>1 DEF Verified, HasNothing, Before, Key, Role, Marker
    <3>4. OwnWork(t)'
      <4> SUFFICES ASSUME Alone(JobOf[t])
                   PROVE  /\ Stored(JobOf[t], Marker)' => key[t] = Marker
                          /\ \A k \in Verified(t) : Stored(JobOf[t], k)'
                                => Holds(JobOf[t], k, RoleContent(k, render[t]))'
        BY <3>1, <3>3 DEF OwnWork, Alone
      <4>1. ~Stored(JobOf[t], Marker) /\ Marker \in Key
        BY <1>2, NoMarkerYet DEF Key
      <4>2. Stored(JobOf[t], Marker)' => key[t] = Marker
        BY <1>1, <1>2, <4>1 DEF Stored
      <4>3. ASSUME NEW k \in Verified(t), Stored(JobOf[t], k)'
            PROVE  Holds(JobOf[t], k, RoleContent(k, render[t]))'
        <5>1. objects'[JobOf[t]][k] = objects[JobOf[t]][k]
          BY <1>1, <1>2, <3>3
        <5>2. Holds(JobOf[t], k, RoleContent(k, render[t]))
          BY <1>2, <4>3, <5>1 DEF Own, OwnWork, Outside, Stored
        <5> QED BY <3>1, <5>1, <5>2 DEF Holds, Stored, RoleContent
      <4> QED BY <4>2, <4>3
    <3> QED BY <3>2, <3>4 DEF Own
  <2> QED BY <2>1, <2>2
<1> QED BY <1>3, <1>4, <1>5, <1>6 DEF BodyInv

LEMMA CrashKeeps ==
    ASSUME BodyInv, NEW p \in Process, Crash(p)
    PROVE  BodyInv'
<1>1. CommitTypeOK'
  <2>1. /\ pc' \in [Task -> Step] /\ key' \in [Task -> Key]
        /\ render' \in [Task -> Render \cup {None}]
        /\ manifest' \in [Task -> Manifest \cup {None}]
        /\ outcome' \in [Task -> Outcome]
    BY DEF BodyInv, CommitTypeOK, Crash, Step, Key, Role, Outcome
  <2>2. lock' \in [Process -> [Job -> Task \cup {None}]]
    BY DEF BodyInv, CommitTypeOK, Crash
  <2>3. workspaces' \subseteq Process \X Job
    BY DEF BodyInv, CommitTypeOK, Crash
  <2> QED BY <2>1, <2>2, <2>3, StoreTypeStays DEF BodyInv, CommitTypeOK, Crash
<1>2. NeverMixed'
  BY DEF Crash, BodyInv, NeverMixed, Alone, Stored, AsRecorded, storeVars
<1>3. ASSUME NEW u \in Task PROVE Own(u)'
  <2>1. CASE ProcessOf[u] = p
    <3>1. pc'[u] = "idle" /\ key'[u] = "video" BY <2>1 DEF Crash
    <3> QED BY <3>1 DEF Own, Locals, OwnWork, HasNothing, Marker
  <2>2. CASE ProcessOf[u] # p
    <3>1. Still(u) BY <2>2 DEF Crash, Still
    <3> QED BY <3>1, OwnStays DEF BodyInv, Crash, storeVars
  <2> QED BY <2>1, <2>2
<1> QED BY <1>1, <1>2, <1>3 DEF BodyInv

LEMMA CommitNextKeeps ==
    ASSUME BodyInv, LockInv, CommitNext
    PROVE  BodyInv' /\ LockInv'
<1>1. ASSUME NEW t \in Task, TaskNext(t) PROVE BodyInv' /\ LockInv'
  <2>1. LockInv' BY <1>1, TaskKeepsLockInv
  <2>2. BodyInv'
    BY <1>1, SubmitKeeps, LookupKeeps, UploadKeeps, RcatKeeps, VerifyKeeps, CommitKeeps,
       CheckKeeps, FailKeeps
       DEF TaskNext, Progress, Fault
  <2> QED BY <2>1, <2>2
<1>2. ASSUME NEW p \in Process, Crash(p) PROVE BodyInv' /\ LockInv'
  BY <1>2, CrashKeeps, CrashKeepsLockInv
<1> QED BY <1>1, <1>2 DEF CommitNext

-----------------------------------------------------------------------------
(* The control plane *)

\* Of the four keys at most, one has the least value.
LEMMA LeastOfKeys ==
    ASSUME NEW value, NEW keys \in SUBSET Key, keys # {}, \A k \in keys : value[k] \in Nat
    PROVE  \E k \in keys : \A i \in keys : value[k] <= value[i]
<1> SUFFICES ASSUME \A k \in keys : \E i \in keys : value[i] < value[k]
             PROVE  FALSE
  BY SMT
<1> DEFINE below(k) == \/ "video" \in keys /\ value["video"] < value[k]
                       \/ "workflow" \in keys /\ value["workflow"] < value[k]
                       \/ "generation" \in keys /\ value["generation"] < value[k]
                       \/ Marker \in keys /\ value[Marker] < value[k]
<1>1. \A k \in keys : below(k)
  BY DEF Key, Role
<1>2. /\ "video" \in keys => below("video")
      /\ "workflow" \in keys => below("workflow")
      /\ "generation" \in keys => below("generation")
      /\ Marker \in keys => below(Marker)
  BY <1>1 DEF Key, Role, Marker
<1>3. \/ "video" \in keys \/ "workflow" \in keys
      \/ "generation" \in keys \/ Marker \in keys
  BY DEF Key, Role, Marker
<1> QED BY <1>2, <1>3 DEF Key, Role, Marker

\* The oldest object of a listing has a day, the least one (reconciler.py
\* _created_at).
LEMMA OldestIsADay ==
    ASSUME NEW list \in [Key -> Nat \cup {None}], Members(list) # {},
           \A k \in Members(list) : list[k] \in Nat
    PROVE  /\ Oldest(list) \in Nat
           /\ \E k \in Members(list) : list[k] = Oldest(list)
           /\ \A k \in Members(list) : Oldest(list) <= list[k]
<1>1. PICK k \in Members(list) : \A i \in Members(list) : list[k] <= list[i]
  <2>1. Members(list) \in SUBSET Key BY DEF Members
  <2> QED BY <2>1, LeastOfKeys
<1>2. \E d \in {list[i] : i \in Members(list)} : \A i \in Members(list) : d <= list[i]
  BY <1>1
<1>3. /\ Oldest(list) \in {list[i] : i \in Members(list)}
      /\ \A i \in Members(list) : Oldest(list) <= list[i]
  BY <1>2 DEF Oldest
<1> QED BY <1>3

\* A listing is one of days.
LEMMA ListingIsTyped ==
    ASSUME StoreTypeOK, NEW j \in Job
    PROVE  /\ Listing(j) \in [Key -> Nat \cup {None}]
           /\ \A k \in Members(Listing(j)) : Listing(j)[k] \in Nat
           /\ Members(Listing(j)) \subseteq Key
<1>1. \A k \in Key : Stored(j, k) => objects[j][k].day \in Nat
  BY DEF StoreTypeOK, Stored, Object
<1> QED BY <1>1 DEF Listing, Members

\* Objects may have gone; what is left is as it was.
Shrinks == \A j \in Job, k \in Key : objects'[j][k] \in {objects[j][k], None}

LEMMA ShrinkKeeps ==
    ASSUME BodyInv, LockInv, UNCHANGED taskVars, StoreTypeOK', Shrinks
    PROVE  BodyInv' /\ LockInv'
<1>1. CommitTypeOK' BY DEF BodyInv, CommitTypeOK, taskVars
<1>2. LockInv' BY DEF LockInv, Inside, Workspace, taskVars
<1>3. NeverMixed'
  <2> SUFFICES ASSUME NEW j \in Job, NEW k \in Role, Alone(j), Stored(j, Marker)', Stored(j, k)'
               PROVE  AsRecorded(j, k)'
    BY DEF NeverMixed, Alone
  <2>1. k \in Key /\ Marker \in Key BY DEF Key
  <2>2. objects'[j][k] = objects[j][k] /\ objects'[j][Marker] = objects[j][Marker]
    BY <2>1 DEF Shrinks, Stored
  <2> QED BY <2>1, <2>2 DEF BodyInv, NeverMixed, AsRecorded, Stored
<1>4. ASSUME NEW u \in Task PROVE Own(u)'
  <2>1. Still(u) BY DEF Still, taskVars
  <2> QED BY <2>1, OwnStays, TaskAssumption DEF BodyInv, Shrinks
<1> QED BY <1>1, <1>2, <1>3, <1>4 DEF BodyInv

\* A refused delete and one that succeeds take at most one object.
LEMMA DeleteShrinks ==
    ASSUME StoreTypeOK, NEW j, NEW k \in Key, NEW refused \in BOOLEAN,
           Delete(j, k, refused), UNCHANGED today
    PROVE  StoreTypeOK' /\ Shrinks
<1>1. CASE UNCHANGED objects
  BY <1>1, StoreTypeStays DEF Shrinks, storeVars
<1>2. CASE Remove(j, k)
  <2>1. \A i \in Job, l \in Key :
          objects'[i][l] = IF i = j /\ l = k THEN None ELSE objects[i][l]
    BY <1>2 DEF Remove, StoreTypeOK
  <2>2. objects' \in [Job -> [Key -> Object \cup {None}]]
    BY <1>2 DEF Remove, StoreTypeOK
  <2> QED BY <2>1, <2>2 DEF StoreTypeOK, Stored, Shrinks
<1> QED BY <1>1, <1>2 DEF Delete

LEMMA QuietShrinks ==
    ASSUME StoreTypeOK, UNCHANGED storeVars
    PROVE  StoreTypeOK' /\ Shrinks
BY StoreTypeStays DEF Shrinks, storeVars

ControlInv == StoreTypeOK /\ RetentionTypeOK

\* A sweep keeps its types and only takes objects away (reconciler.py run).
LEMMA SweepKeeps ==
    ASSUME ControlInv, SweepNext
    PROVE  StoreTypeOK' /\ Shrinks /\ RetentionTypeOK'
<1>1. UNCHANGED <<erasure, described>>
  BY DEF SweepNext, StartSweep, ListOutputs, FinishSweep, SweepDies, Classify, Retain,
         Condemn, DeleteNext
<1>2. CASE sweep' = NoSweep /\ UNCHANGED storeVars
  <2>1. NoSweep \in Sweep BY DEF NoSweep, Sweep, Phase, ListingOf
  <2> QED BY <1>1, <1>2, <2>1, QuietShrinks DEF ControlInv, RetentionTypeOK
<1>3. ASSUME NEW dry \in BOOLEAN, StartSweep(dry) PROVE sweep' \in Sweep /\ UNCHANGED storeVars
  BY <1>3 DEF ControlInv, RetentionTypeOK, StoreTypeOK, StartSweep, Sweep, Phase
<1>4. CASE ListOutputs
  <2> DEFINE listed == [j \in Job |-> Listing(j)]
  <2>1. listed \in ListingOf BY ListingIsTyped DEF ControlInv, ListingOf
  <2>2. Seen(listed) \subseteq Job BY DEF Seen
  <2> HIDE DEF listed
  <2>3. sweep' = [sweep EXCEPT
            !.listed = listed,
            !.pending = Seen(listed),
            !.phase = IF Seen(listed) = {} THEN "deciding" ELSE "classifying"]
    BY <1>4 DEF ListOutputs, listed
  <2> QED
    BY <1>1, <1>4, <2>1, <2>2, <2>3, QuietShrinks
       DEF ListOutputs, ControlInv, RetentionTypeOK, Sweep, Phase
<1>5. ASSUME NEW j \in Job, Classify(j) PROVE sweep' \in Sweep /\ UNCHANGED storeVars
  <2>1. PICK there \in {Stored(j, Marker), Stored(j, Marker) \/ MarkerUnreadable} :
          sweep' = [sweep EXCEPT
            !.committed[j] = there,
            !.phase = IF sweep.pending = {j} THEN "deciding" ELSE sweep.phase,
            !.pending = IF sweep.pending = {j} THEN Seen(sweep.listed)
                        ELSE sweep.pending \ {j}]
    BY <1>5 DEF Classify
  <2>2. there \in BOOLEAN
    <3>1. there = Stored(j, Marker) \/ there = (Stored(j, Marker) \/ MarkerUnreadable)
      BY Zenon
    <3>2. Stored(j, Marker) \in BOOLEAN BY DEF Stored
    <3>3. MarkerUnreadable \in BOOLEAN
      <4>1. {MarkerUnreadable, DeletesRefused, ControlDies} \subseteq BOOLEAN
        BY RetentionAssumption
      <4> QED BY <4>1, Zenon
    <3>4. (Stored(j, Marker) \/ MarkerUnreadable) \in BOOLEAN BY <3>2, <3>3, Zenon
    <3> QED BY <3>1, <3>2, <3>4, Zenon
  <2>3. Seen(sweep.listed) \subseteq Job BY DEF Seen
  <2> QED BY <1>5, <2>1, <2>2, <2>3 DEF Classify, ControlInv, RetentionTypeOK, Sweep, Phase
<1>6. ASSUME NEW j \in Job, Retain(j) \/ Condemn(j)
      PROVE  sweep' \in Sweep /\ UNCHANGED storeVars
  <2>1. CASE Retain(j)
    BY <2>1 DEF Retain, ControlInv, RetentionTypeOK, Sweep, Phase
  <2>2. CASE Condemn(j)
    <3>1. PICK keys \in SUBSET Key : keys = Members(sweep.listed[j])
      BY DEF Members
    <3>2. sweep' = [sweep EXCEPT !.phase = "deleting", !.pending = sweep.pending \ {j},
                                 !.victim = j, !.left = keys]
      BY <2>2, <3>1 DEF Condemn
    <3>3. sweep' \in Sweep BY <3>2 DEF ControlInv, RetentionTypeOK, Sweep, Phase
    <3> QED BY <2>2, <3>3 DEF Condemn
  <2> QED BY <1>6, <2>1, <2>2
<1>7. ASSUME NEW k \in Key, NEW refused \in BOOLEAN, DeleteNext(k, refused)
      PROVE  sweep' \in Sweep /\ StoreTypeOK' /\ Shrinks
  <2>1. sweep' \in Sweep
    BY <1>7 DEF DeleteNext, ControlInv, RetentionTypeOK, Sweep, Phase
  <2>2. StoreTypeOK' /\ Shrinks
    BY <1>7, DeleteShrinks DEF DeleteNext, ControlInv
  <2> QED BY <2>1, <2>2
<1>8. sweep' \in Sweep /\ StoreTypeOK' /\ Shrinks
  BY <1>2, <1>3, <1>4, <1>5, <1>6, <1>7, QuietShrinks
     DEF SweepNext, FinishSweep, SweepDies, ControlInv, RetentionTypeOK
<1> QED BY <1>1, <1>8 DEF ControlInv, RetentionTypeOK

\* So does what is done for one record (subject_requests.py describe, erase).
LEMMA SubjectKeeps ==
    ASSUME ControlInv, SubjectNext
    PROVE  StoreTypeOK' /\ Shrinks /\ RetentionTypeOK'
<1>1. ASSUME NEW j \in Job, Describe(j)
      PROVE  StoreTypeOK' /\ Shrinks /\ RetentionTypeOK'
  <2>1. Oldest(Listing(j)) \in Nat
    BY <1>1, ListingIsTyped, OldestIsADay DEF Describe, ControlInv
  <2>2. Oldest(Listing(j)) + Period(Listing(j)[Marker] # None) \in Nat
    <3>1. PICK o \in Nat : o = Oldest(Listing(j)) BY <2>1
    <3>2. PICK p \in Nat : p = Period(Listing(j)[Marker] # None)
      <4>1. FailedPeriod \in Nat /\ DeliverablePeriod \in Nat
        BY RetentionAssumption
      <4>2. Period(Listing(j)[Marker] # None) \in {FailedPeriod, DeliverablePeriod}
        BY DEF Period
      <4> QED BY <4>1, <4>2, Zenon
    <3>3. o + p \in Nat OBVIOUS
    <3> QED BY <3>1, <3>2, <3>3, Zenon
  <2> HIDE DEF Describe
  <2>3. /\ described' = [described EXCEPT ![j] =
                Oldest(Listing(j)) + Period(Listing(j)[Marker] # None)]
        /\ UNCHANGED <<storeVars, sweep, erasure>>
    BY <1>1 DEF Describe
  <2> QED BY <2>2, <2>3, QuietShrinks DEF ControlInv, RetentionTypeOK
<1>2. ASSUME NEW j \in Job, StartErasure(j)
      PROVE  StoreTypeOK' /\ Shrinks /\ RetentionTypeOK'
  <2>1. Members(Listing(j)) \subseteq Key BY DEF Members
  <2>2. erasure' \in Erasure
    BY <1>2, <2>1 DEF StartErasure, NoErasure, Erasure
  <2> QED
    BY <1>2, <2>2, QuietShrinks DEF StartErasure, ControlInv, RetentionTypeOK
<1>3. ASSUME NEW k \in Key, NEW refused \in BOOLEAN, EraseNext(k, refused)
      PROVE  StoreTypeOK' /\ Shrinks /\ RetentionTypeOK'
  <2>1. erasure' \in Erasure
    BY <1>3 DEF EraseNext, NoErasure, ControlInv, RetentionTypeOK, Erasure
  <2>2. described' \in [Job -> Nat \cup {None}] /\ sweep' \in Sweep
    BY <1>3 DEF EraseNext, ControlInv, RetentionTypeOK
  <2>3. StoreTypeOK' /\ Shrinks
    BY <1>3, DeleteShrinks DEF EraseNext, ControlInv
  <2> QED BY <2>1, <2>2, <2>3 DEF RetentionTypeOK
<1>4. ASSUME ErasureDies
      PROVE  StoreTypeOK' /\ Shrinks /\ RetentionTypeOK'
  <2>1. NoErasure \in Erasure BY DEF NoErasure, Erasure
  <2> QED
    BY <1>4, <2>1, QuietShrinks DEF ErasureDies, ControlInv, RetentionTypeOK
<1> QED BY <1>1, <1>2, <1>3, <1>4 DEF SubjectNext

\* The day passes without touching an object.
LEMMA DayShrinks ==
    ASSUME StoreTypeOK, NextDay
    PROVE  StoreTypeOK' /\ Shrinks
BY DEF StoreTypeOK, NextDay, Stored, Shrinks

-----------------------------------------------------------------------------
(* The theorem *)

DurableIInv == BodyInv /\ LockInv /\ RetentionTypeOK

LEMMA DurableStarts ==
    ASSUME Init
    PROVE  DurableIInv
<1>1. CommitTypeOK
  BY DEF Init, CommitInit, StoreInit, CommitTypeOK, StoreTypeOK, Stored, Step, Key, Role,
         Outcome
<1>2. NeverMixed
  BY DEF Init, CommitInit, StoreInit, NeverMixed, Stored, Key
<1>3. \A t \in Task : Own(t)
  BY DEF Init, CommitInit, Own, Locals, OwnWork, HasNothing, Marker
<1>4. LockInv
  BY DEF Init, CommitInit, LockInv, Inside, Step
<1>5. RetentionTypeOK
  BY DEF Init, RetentionInit, RetentionTypeOK, NoSweep, NoErasure, Sweep, Erasure, Phase,
         ListingOf
<1> QED BY <1>1, <1>2, <1>3, <1>4, <1>5 DEF BodyInv, DurableIInv

LEMMA DurableSteps ==
    ASSUME DurableIInv, [Next]_vars
    PROVE  DurableIInv'
<1>1. StoreTypeOK /\ RetentionTypeOK /\ ControlInv /\ BodyInv /\ LockInv
  BY DEF DurableIInv, ControlInv, BodyInv, CommitTypeOK
<1>2. CASE CommitNext /\ UNCHANGED retentionVars
  <2>1. BodyInv' /\ LockInv' BY <1>1, <1>2, CommitNextKeeps
  <2>2. RetentionTypeOK' BY <1>1, <1>2 DEF RetentionTypeOK, retentionVars
  <2> QED BY <2>1, <2>2 DEF DurableIInv
<1>3. CASE (SweepNext \/ SubjectNext) /\ UNCHANGED taskVars
  <2>1. StoreTypeOK' /\ Shrinks /\ RetentionTypeOK'
    BY <1>1, <1>3, SweepKeeps, SubjectKeeps
  <2> QED BY <1>1, <1>3, <2>1, ShrinkKeeps DEF DurableIInv
<1>4. CASE (NextDay \/ UNCHANGED storeVars) /\ UNCHANGED <<taskVars, retentionVars>>
  <2>1. StoreTypeOK' /\ Shrinks BY <1>1, <1>4, DayShrinks, QuietShrinks
  <2>2. RetentionTypeOK' BY <1>1, <1>4 DEF RetentionTypeOK, retentionVars
  <2>3. BodyInv' /\ LockInv' BY <1>1, <1>4, <2>1, ShrinkKeeps
  <2> QED BY <2>2, <2>3 DEF DurableIInv
<1> QED BY <1>2, <1>3, <1>4 DEF Next, vars, commitVars

\* Whatever is left beside a marker is what the marker records, and every
\* delivery at work still relies only on what is so, or gone, while any number
\* of deliveries of any number of requests, sweeps and erasures overlap and
\* processes crash, for every request that one process serves (application.py
\* submit, commit.py commit, reconciler.py run).
THEOREM DurableInvariant == Spec => []DurableInv
<1>1. Init => DurableIInv BY DurableStarts
<1>2. DurableIInv /\ [Next]_vars => DurableIInv' BY DurableSteps
<1>3. DurableIInv => DurableInv
  BY DEF DurableIInv, BodyInv, Own, DurableInv, TypeOK
<1> QED BY <1>1, <1>2, <1>3, PTL DEF Spec

-----------------------------------------------------------------------------
(* Under the discipline *)

\* No object comes from the future.
Dated == \A j \in Job, k \in Key : Stored(j, k) => objects[j][k].day <= today

\* The marker of an attempt counts in its class.
Classed(j) == Stored(j, Marker) => sweep.committed[j]

\* What was told of a record is over, or no later than its expiry.
ToldSafely(j) ==
    described[j] # None =>
        \/ described[j] <= today
        \/ /\ \E k \in Key : Stored(j, k)
           /\ \A k \in Key :
                Stored(j, k) => described[j] <= objects[j][k].day + Period(Stored(j, Marker))

\* What has been told is over.
ToldIsOver(j) == described[j] # None => described[j] <= today

\* An attempt the sweep has not come to, the one it deletes, and one it is done with.
Awaited(j) == Age(j) = sweep.listed[j] /\ Classed(j)

Condemned(j) ==
    /\ ~sweep.dry
    /\ Classed(j)
    /\ Expired(sweep.committed[j], Oldest(sweep.listed[j]), sweep.at)
    /\ \A k \in Key : Stored(j, k) =>
        /\ sweep.listed[j][k] = objects[j][k].day
        /\ k \in sweep.left \/ sweep.refused
    /\ FailedPeriod <= DeliverablePeriod => ToldIsOver(j)

Settled(j) ==
    \/ sweep.dry \/ sweep.refused
    \/ \A k \in Key : ~Stored(j, k)
    \/ /\ Age(j) = sweep.listed[j]
       /\ ~Expired(sweep.committed[j], Oldest(sweep.listed[j]), sweep.at)

SweepInv ==
    /\ sweep.phase = "idle" => sweep = NoSweep
    /\ sweep.phase # "idle" => sweep.at <= today
    /\ sweep.phase # "deleting" => sweep.victim = None
    /\ sweep.phase \in {"listing", "classifying"} => ~sweep.refused
    /\ sweep.phase = "classifying" =>
        \A j \in Job : /\ Age(j) = sweep.listed[j]
                       /\ j \in Seen(sweep.listed) \ sweep.pending => Classed(j)
    /\ sweep.phase \in {"deciding", "deleting"} =>
        \A j \in Job : /\ j \in sweep.pending => Awaited(j)
                       /\ j \notin sweep.pending /\ j # sweep.victim => Settled(j)
    /\ sweep.phase = "deleting" =>
        sweep.victim \in Job \ sweep.pending /\ Condemned(sweep.victim)

ErasureInv ==
    erasure # NoErasure =>
        /\ erasure.job \in Job
        /\ \A k \in Key : Stored(erasure.job, k) => k \in erasure.left \/ erasure.refused

\* The inductive invariant of a control plane that is kept apart.
QuietInv ==
    /\ Quiet
    /\ Dated
    /\ SweepInv
    /\ ErasureInv
    /\ FailedPeriod <= DeliverablePeriod => \A j \in Job : ToldSafely(j)

\* What a step of the workers does to an object is to write it today.
LEMMA WritesToday ==
    ASSUME BodyInv, CommitNext
    PROVE  /\ today' = today
           /\ \A j \in Job, k \in Key :
                objects'[j][k] # objects[j][k] =>
                    objects'[j][k] # None /\ objects'[j][k].day = today
<1>1. ASSUME NEW t \in Task, Rcat(t) \/ RcatLandsThenFails(t)
      PROVE  /\ today' = today
             /\ \A j \in Job, k \in Key :
                  objects'[j][k] # objects[j][k] =>
                      objects'[j][k] # None /\ objects'[j][k].day = today
  <2>1. /\ today' = today /\ pc[t] = "rcat"
        /\ RcatLands(JobOf[t], key[t], Content(t))
    BY <1>1 DEF Rcat, RcatLandsThenFails
  <2>2. /\ objects'[JobOf[t]][key[t]] # None
        /\ objects'[JobOf[t]][key[t]].day = today
        /\ \A j \in Job, k \in Key :
              <<j, k>> # <<JobOf[t], key[t]>> => objects'[j][k] = objects[j][k]
    BY <2>1, PutsOne
  <2> QED BY <2>1, <2>2
<1>2. ASSUME NEW t \in Task, TaskNext(t), ~Rcat(t), ~RcatLandsThenFails(t)
      PROVE  UNCHANGED storeVars
  BY <1>2
     DEF TaskNext, Progress, Fault, Submit, AcquireLock, Converge, Allocate, LookupFails,
         Generate, UploadHead, PutHead, RcatRefused, Verify, CommitHead, CommitGet,
         Check, StepFails, storeVars
<1>3. ASSUME NEW p \in Process, Crash(p) PROVE UNCHANGED storeVars
  BY <1>3 DEF Crash
<1> QED BY <1>1, <1>2, <1>3 DEF CommitNext, storeVars

\* While the control plane works, the workers leave the bucket alone.
LEMMA WorkersRest ==
    ASSUME BodyInv, CommitNext, Quiet, Controlling
    PROVE  UNCHANGED storeVars
<1>1. ASSUME NEW t \in Task, TaskNext(t) PROVE UNCHANGED storeVars
  <2>1. pc[t] = "idle" BY DEF Quiet
  <2> QED
    BY <1>1, <2>1
       DEF TaskNext, Progress, Fault, Submit, AcquireLock, Converge, Allocate, LookupFails,
           Generate, UploadHead, PutHead, Rcat, RcatLandsThenFails, RcatRefused, Verify,
           CommitHead, CommitGet, Check, StepFails, storeVars
<1>2. ASSUME NEW p \in Process, Crash(p) PROVE UNCHANGED storeVars
  BY <1>2 DEF Crash
<1> QED BY <1>1, <1>2 DEF CommitNext

\* What the code of a listing sees, where it sees anything, are the days of all
\* that is stored.
LEMMA AgeIsListing ==
    ASSUME StoreTypeOK, NEW j \in Job
    PROVE  /\ Age(j) \in [Key -> Nat \cup {None}]
           /\ \A k \in Key : Stored(j, k) => Age(j)[k] \in Nat /\ Age(j)[k] = objects[j][k].day
           /\ \A k \in Key : k \in Members(Age(j)) <=> Stored(j, k)
           /\ \A k \in Members(Age(j)) : Age(j)[k] \in Nat
           /\ SeesOutputs => Listing(j) = Age(j)
<1>1. \A k \in Key : Stored(j, k) => objects[j][k].day \in Nat
  BY DEF StoreTypeOK, Stored, Object
<1>2. None \notin Nat BY StoreAssumption
<1>3. \A k \in Key : Age(j)[k] = IF Stored(j, k) THEN objects[j][k].day ELSE None
  BY DEF Age
<1>4. Age(j) \in [Key -> Nat \cup {None}] BY <1>1 DEF Age
<1>5. \A k \in Key : k \in Members(Age(j)) <=> Stored(j, k)
  BY <1>1, <1>2, <1>3 DEF Members
<1>6. Members(Age(j)) \subseteq Key BY DEF Members
<1>7. SeesOutputs => Listing(j) = Age(j) BY DEF Listing, Age
<1> QED BY <1>1, <1>3, <1>4, <1>5, <1>6, <1>7

LEMMA AgeStays ==
    ASSUME StoreTypeOK, NEW j \in Job, \A k \in Key : objects'[j][k] = objects[j][k]
    PROVE  /\ Age(j)' = Age(j)
           /\ \A k \in Key : Stored(j, k)' <=> Stored(j, k)
BY DEF Age, Stored

LEMMA PeriodIsNat ==
    ASSUME NEW c \in BOOLEAN
    PROVE  /\ Period(c) \in Nat
           /\ FailedPeriod \in Nat /\ DeliverablePeriod \in Nat
<1>1. FailedPeriod \in Nat /\ DeliverablePeriod \in Nat BY RetentionAssumption
<1>2. Period(c) \in {FailedPeriod, DeliverablePeriod} BY DEF Period
<1> QED BY <1>1, <1>2, Zenon

\* A result that is kept at least as long as a failure has the longer period.
LEMMA PeriodGrows ==
    ASSUME NEW c \in BOOLEAN, NEW e \in BOOLEAN, c => e, FailedPeriod <= DeliverablePeriod
    PROVE  Period(c) <= Period(e)
<1>1. FailedPeriod \in Nat /\ DeliverablePeriod \in Nat BY RetentionAssumption
<1>2. CASE c /\ e BY <1>1, <1>2 DEF Period
<1>3. CASE ~c /\ e BY <1>1, <1>3 DEF Period
<1>4. CASE ~c /\ ~e BY <1>1, <1>4 DEF Period
<1> QED BY <1>2, <1>3, <1>4

\* A step that changes neither the bucket, the clock nor the control plane.
LEMMA QuietStays ==
    ASSUME DurableIInv, QuietInv, UNCHANGED <<storeVars, retentionVars>>, Quiet'
    PROVE  QuietInv'
<1>1. /\ objects' = objects /\ today' = today
      /\ sweep' = sweep /\ erasure' = erasure /\ described' = described
  BY DEF storeVars, retentionVars
<1>2. Dated' BY <1>1 DEF QuietInv, Dated, Stored
<1>3. SweepInv'
  BY <1>1
     DEF QuietInv, SweepInv, Awaited, Condemned, Settled, Classed, Age, Stored, ToldIsOver
<1>4. ErasureInv' BY <1>1 DEF QuietInv, ErasureInv, Stored
<1>5. \A j \in Job : ToldSafely(j) => ToldSafely(j)'
  BY <1>1 DEF ToldSafely, Stored
<1> QED BY <1>2, <1>3, <1>4, <1>5 DEF QuietInv

\* Without a sweep and an erasure there is nothing for them to rely on.
LEMMA IdleControl ==
    ASSUME SweepInv, sweep.phase = "idle"
    PROVE  sweep' = sweep => SweepInv'
<1>1. sweep = NoSweep BY DEF SweepInv
<1>2. NoSweep.phase = "idle" /\ NoSweep.victim = None BY DEF NoSweep
<1> QED BY <1>1, <1>2 DEF SweepInv

LEMMA CommitKeepsQuiet ==
    ASSUME DurableIInv, QuietInv, CommitNext, UNCHANGED retentionVars, Quiet'
    PROVE  QuietInv'
<1>1. BodyInv /\ StoreTypeOK /\ RetentionTypeOK
  BY DEF DurableIInv, BodyInv, CommitTypeOK
<1>2. CASE Controlling
  BY <1>1, <1>2, WorkersRest, QuietStays DEF QuietInv
<1>3. CASE ~Controlling
  <2>1. /\ today' = today
        /\ \A j \in Job, k \in Key :
             objects'[j][k] # objects[j][k] =>
                 objects'[j][k] # None /\ objects'[j][k].day = today
    BY <1>1, WritesToday
  <2>2. /\ sweep' = sweep /\ erasure' = erasure /\ described' = described
        /\ sweep.phase = "idle" /\ erasure = NoErasure
    BY <1>3 DEF Controlling, retentionVars
  <2>3. today \in Nat BY <1>1 DEF StoreTypeOK
  <2>4. Dated' BY <2>1, <2>3 DEF QuietInv, Dated, Stored
  <2>5. SweepInv' BY <2>2, IdleControl DEF QuietInv
  <2>6. ErasureInv' BY <2>2 DEF ErasureInv
  <2>7. ASSUME FailedPeriod <= DeliverablePeriod, NEW j \in Job
        PROVE  ToldSafely(j)'
    <3>1. ToldSafely(j) BY <2>7 DEF QuietInv
    <3>2. CASE described[j] = None \/ described[j] <= today
      BY <2>1, <2>2, <3>2 DEF ToldSafely
    <3>3. CASE described[j] # None /\ ~(described[j] <= today)
      <4>1. described[j] \in Nat BY <1>1, <3>3 DEF RetentionTypeOK
      <4>2. PICK l \in Key : Stored(j, l) BY <3>1, <3>3 DEF ToldSafely
      <4>3. \A k \in Key :
              Stored(j, k) => described[j] <= objects[j][k].day + Period(Stored(j, Marker))
        BY <3>1, <3>3 DEF ToldSafely
      <4>4. Stored(j, l)' BY <2>1, <4>2 DEF Stored
      <4>5. PICK b \in Nat : b = Period(Stored(j, Marker))
        BY PeriodIsNat DEF Stored
      <4>6. PICK a \in Nat : a = Period(Stored(j, Marker)')
        BY PeriodIsNat DEF Stored
      <4>7. Stored(j, Marker) => Stored(j, Marker)'
        <5>1. Marker \in Key BY DEF Key
        <5> QED BY <2>1, <5>1 DEF Stored
      <4>8. b <= a
        <5>1. PICK c \in BOOLEAN : c = Stored(j, Marker) BY DEF Stored
        <5>2. PICK e \in BOOLEAN : e = Stored(j, Marker)' BY DEF Stored
        <5>3. c => e BY <4>7, <5>1, <5>2, Zenon
        <5>4. Period(c) <= Period(e) BY <2>7, <5>3, PeriodGrows
        <5> QED BY <4>5, <4>6, <5>1, <5>2, <5>4, Zenon
      <4>9. ASSUME NEW k \in Key, Stored(j, k)'
            PROVE  described[j] <= objects'[j][k].day + a
        <5>1. CASE objects'[j][k] = objects[j][k]
          <6>1. Stored(j, k) BY <4>9, <5>1 DEF Stored
          <6>2. PICK d \in Nat : d = objects[j][k].day
            BY <1>1, <6>1, AgeIsListing
          <6>3. described[j] <= d + b BY <4>3, <4>5, <6>1, <6>2
          <6>4. described[j] <= d + a BY <4>1, <4>8, <6>3
          <6> QED BY <5>1, <6>2, <6>4
        <5>2. CASE objects'[j][k] # objects[j][k]
          <6>1. PICK d \in Nat : d = objects[j][l].day
            BY <1>1, <4>2, AgeIsListing
          <6>2. d <= today BY <4>2, <6>1 DEF QuietInv, Dated
          <6>3. described[j] <= d + b BY <4>2, <4>3, <4>5, <6>1
          <6>4. described[j] <= today + a BY <2>3, <4>1, <4>8, <6>2, <6>3
          <6>5. objects'[j][k].day = today BY <2>1, <5>2
          <6> QED BY <6>4, <6>5
        <5> QED BY <5>1, <5>2
      <4>10. described'[j] = described[j] BY <2>2
      <4> QED BY <4>4, <4>6, <4>9, <4>10 DEF ToldSafely
    <3> QED BY <3>2, <3>3
  <2> QED BY <2>4, <2>5, <2>6, <2>7 DEF QuietInv
<1> QED BY <1>2, <1>3

LEMMA DayKeepsQuiet ==
    ASSUME DurableIInv, QuietInv, NextDay, UNCHANGED retentionVars, Quiet'
    PROVE  QuietInv'
<1>1. StoreTypeOK /\ RetentionTypeOK /\ today \in Nat
  BY DEF DurableIInv, BodyInv, CommitTypeOK, StoreTypeOK
<1>2. /\ objects' = objects /\ today' = today + 1
      /\ sweep' = sweep /\ erasure' = erasure /\ described' = described
  BY DEF NextDay, retentionVars
<1>3. \A d \in Nat : d <= today => d <= today'
  BY <1>1, <1>2
<1>4. Dated'
  <2> SUFFICES ASSUME NEW j \in Job, NEW k \in Key, Stored(j, k)
               PROVE  objects[j][k].day <= today'
    BY <1>2 DEF Dated, Stored
  <2>1. PICK d \in Nat : d = objects[j][k].day BY <1>1, AgeIsListing
  <2>2. d <= today BY <2>1 DEF QuietInv, Dated
  <2> QED BY <1>3, <2>1, <2>2
<1>5. ASSUME NEW j \in Job PROVE ToldIsOver(j) => ToldIsOver(j)'
  <2>1. described[j] # None => described[j] \in Nat BY <1>1 DEF RetentionTypeOK
  <2> QED BY <1>2, <1>3, <2>1 DEF ToldIsOver
<1>6. SweepInv'
  <2>1. \A j \in Job : /\ Age(j)' = Age(j)
                       /\ Awaited(j)' <=> Awaited(j)
                       /\ Settled(j)' <=> Settled(j)
                       /\ Classed(j)' <=> Classed(j)
    BY <1>2 DEF Age, Awaited, Settled, Classed, Stored
  <2>2. \A j \in Job : Condemned(j) => Condemned(j)'
    BY <1>2, <1>5 DEF Condemned, Classed, Stored
  <2>3. sweep.at \in Nat BY <1>1 DEF RetentionTypeOK, Sweep
  <2> QED BY <1>2, <1>3, <2>1, <2>2, <2>3 DEF QuietInv, SweepInv
<1>7. ErasureInv' BY <1>2 DEF QuietInv, ErasureInv, Stored
<1>8. ASSUME NEW j \in Job PROVE ToldSafely(j) => ToldSafely(j)'
  <2>1. described[j] # None => described[j] \in Nat BY <1>1 DEF RetentionTypeOK
  <2> QED BY <1>2, <1>3, <2>1 DEF ToldSafely, Stored
<1> QED BY <1>4, <1>6, <1>7, <1>8 DEF QuietInv

\* What a sweep that has just listed, or classified, knows of an attempt with
\* nothing in it.
LEMMA NothingListed ==
    ASSUME StoreTypeOK, NEW j \in Job, Age(j) = sweep.listed[j],
           j \notin Seen(sweep.listed)
    PROVE  \A k \in Key : ~Stored(j, k)
<1>1. Members(Age(j)) = {} BY DEF Seen
<1> QED BY <1>1, AgeIsListing

LEMMA StartKeepsSweep ==
    ASSUME DurableIInv, QuietInv, NEW dry \in BOOLEAN, StartSweep(dry)
    PROVE  SweepInv'
<1>1. sweep = NoSweep /\ today \in Nat
  BY DEF QuietInv, SweepInv, StartSweep, DurableIInv, BodyInv, CommitTypeOK, StoreTypeOK
<1>2. /\ sweep'.phase = "listing" /\ sweep'.at = today /\ today' = today
      /\ sweep'.victim = None /\ sweep'.refused = FALSE
  BY <1>1 DEF StartSweep, NoSweep, storeVars
<1> QED BY <1>1, <1>2 DEF SweepInv

LEMMA ListKeepsSweep ==
    ASSUME DurableIInv, QuietInv, SeesOutputs, ListOutputs
    PROVE  SweepInv'
<1>1. StoreTypeOK /\ sweep \in Sweep
  BY DEF DurableIInv, BodyInv, CommitTypeOK, RetentionTypeOK
<1> DEFINE listed == [j \in Job |-> Listing(j)]
<1>2. \A j \in Job : listed[j] = Age(j) BY <1>1, AgeIsListing
<1>3. sweep' = [sweep EXCEPT
            !.listed = listed,
            !.pending = Seen(listed),
            !.phase = IF Seen(listed) = {} THEN "deciding" ELSE "classifying"]
  BY DEF ListOutputs
<1> HIDE DEF listed
<1>4. /\ sweep'.listed = listed /\ sweep'.pending = Seen(listed)
      /\ sweep'.phase = IF Seen(listed) = {} THEN "deciding" ELSE "classifying"
      /\ sweep'.at = sweep.at /\ sweep'.victim = sweep.victim /\ sweep'.refused = sweep.refused
  BY <1>1, <1>3 DEF Sweep
<1>5. /\ sweep.phase = "listing" /\ objects' = objects /\ today' = today
      /\ sweep.at <= today /\ sweep.victim = None /\ ~sweep.refused
  BY DEF ListOutputs, storeVars, QuietInv, SweepInv
<1>6. \A j \in Job : Age(j)' = Age(j) /\ \A k \in Key : Stored(j, k)' <=> Stored(j, k)
  BY <1>1, <1>5, AgeStays
<1>7. ASSUME NEW j \in Job, j \notin Seen(listed) PROVE Settled(j)'
  <2>1. Members(Age(j)) = {} BY <1>2, <1>7 DEF Seen
  <2>2. \A k \in Key : ~Stored(j, k) BY <1>1, <2>1, AgeIsListing
  <2> QED BY <1>6, <2>2 DEF Settled
<1>8. Seen(sweep'.listed) = Seen(listed) BY <1>4
<1> QED BY <1>2, <1>4, <1>5, <1>6, <1>7, <1>8 DEF SweepInv

LEMMA ClassifyKeepsSweep ==
    ASSUME DurableIInv, QuietInv, NEW i \in Job, Classify(i)
    PROVE  SweepInv'
<1>1. StoreTypeOK /\ sweep \in Sweep
  BY DEF DurableIInv, BodyInv, CommitTypeOK, RetentionTypeOK
<1>2. PICK there :
        /\ Stored(i, Marker) => there
        /\ sweep' = [sweep EXCEPT
              !.committed[i] = there,
              !.phase = IF sweep.pending = {i} THEN "deciding" ELSE sweep.phase,
              !.pending = IF sweep.pending = {i} THEN Seen(sweep.listed)
                          ELSE sweep.pending \ {i}]
  BY DEF Classify
<1> DEFINE last == sweep.pending = {i}
<1>3. /\ sweep'.phase = IF last THEN "deciding" ELSE sweep.phase
      /\ sweep'.pending = IF last THEN Seen(sweep.listed) ELSE sweep.pending \ {i}
      /\ sweep'.committed = [sweep.committed EXCEPT ![i] = there]
      /\ sweep'.listed = sweep.listed /\ sweep'.at = sweep.at
      /\ sweep'.victim = sweep.victim /\ sweep'.refused = sweep.refused
  BY <1>1, <1>2 DEF Sweep
<1>4. /\ sweep.phase = "classifying" /\ objects' = objects /\ today' = today
      /\ sweep.at <= today /\ sweep.victim = None /\ ~sweep.refused
      /\ i \in sweep.pending
      /\ \A j \in Job : /\ Age(j) = sweep.listed[j]
                        /\ j \in Seen(sweep.listed) \ sweep.pending => Classed(j)
  BY DEF Classify, storeVars, QuietInv, SweepInv
<1>5. \A j \in Job : Age(j)' = Age(j) /\ \A k \in Key : Stored(j, k)' <=> Stored(j, k)
  BY <1>1, <1>4, AgeStays
<1>6. Marker \in Key BY DEF Key
<1>7. sweep'.committed[i] = there /\ \A j \in Job \ {i} : sweep'.committed[j] = sweep.committed[j]
  BY <1>1, <1>3 DEF Sweep
<1>8. Classed(i)' BY <1>2, <1>5, <1>6, <1>7 DEF Classed
<1>9. ASSUME NEW j \in Job, j \in Seen(sweep.listed) \ sweep.pending PROVE Classed(j)'
  <2>1. j # i /\ Classed(j) BY <1>4, <1>9
  <2> QED BY <1>5, <1>6, <1>7, <2>1 DEF Classed
<1>10. CASE ~last
  <2>1. \A j \in Job : j \in Seen(sweep'.listed) \ sweep'.pending => Classed(j)'
    BY <1>3, <1>8, <1>9, <1>10
  <2> QED BY <1>3, <1>4, <1>5, <1>10, <2>1 DEF SweepInv
<1>11. CASE last
  <2>1. ASSUME NEW j \in Job, j \in Seen(sweep.listed) PROVE Awaited(j)'
    BY <1>3, <1>4, <1>5, <1>8, <1>9, <1>11, <2>1 DEF Awaited
  <2>2. ASSUME NEW j \in Job, j \notin Seen(sweep.listed) PROVE Settled(j)'
    BY <1>1, <1>4, <1>5, <2>2, NothingListed DEF Settled
  <2> QED BY <1>3, <1>4, <1>11, <2>1, <2>2 DEF SweepInv
<1> QED BY <1>10, <1>11

LEMMA RetainKeepsSweep ==
    ASSUME DurableIInv, QuietInv, NEW i \in Job, Retain(i)
    PROVE  SweepInv'
<1>1. StoreTypeOK /\ sweep \in Sweep
  BY DEF DurableIInv, BodyInv, CommitTypeOK, RetentionTypeOK
<1>2. /\ sweep'.phase = sweep.phase /\ sweep'.pending = sweep.pending \ {i}
      /\ sweep'.committed = sweep.committed /\ sweep'.dry = sweep.dry
      /\ sweep'.listed = sweep.listed /\ sweep'.at = sweep.at
      /\ sweep'.victim = sweep.victim /\ sweep'.refused = sweep.refused
  BY <1>1 DEF Retain, Sweep
<1>3. /\ sweep.phase = "deciding" /\ objects' = objects /\ today' = today
      /\ sweep.at <= today /\ sweep.victim = None /\ i \in sweep.pending
      /\ sweep.dry \/ ~Expired(sweep.committed[i], Oldest(sweep.listed[i]), sweep.at)
      /\ \A j \in Job : /\ j \in sweep.pending => Awaited(j)
                        /\ j \notin sweep.pending /\ j # sweep.victim => Settled(j)
  BY DEF Retain, storeVars, QuietInv, SweepInv
<1>4. \A j \in Job : Age(j)' = Age(j) /\ \A k \in Key : Stored(j, k)' <=> Stored(j, k)
  BY <1>1, <1>3, AgeStays
<1>5. Marker \in Key BY DEF Key
<1>6. \A j \in Job : /\ Awaited(j) => Awaited(j)'
                     /\ Settled(j) => Settled(j)'
  BY <1>2, <1>4, <1>5 DEF Awaited, Settled, Classed
<1>7. Settled(i)
  BY <1>3 DEF Awaited, Settled
<1>8. \A j \in Job : j # None BY StoreAssumption
<1> QED BY <1>2, <1>3, <1>6, <1>7, <1>8 DEF SweepInv

\* When an attempt is condemned, what was told of it is over.
LEMMA CondemnedWasTold ==
    ASSUME DurableIInv, QuietInv, NEW i \in Job, Awaited(i), FailedPeriod <= DeliverablePeriod,
           Expired(sweep.committed[i], Oldest(sweep.listed[i]), sweep.at), sweep.at <= today
    PROVE  ToldIsOver(i)
<1>1. /\ StoreTypeOK /\ sweep \in Sweep /\ today \in Nat
      /\ described \in [Job -> Nat \cup {None}]
  BY DEF DurableIInv, BodyInv, CommitTypeOK, RetentionTypeOK, StoreTypeOK
<1> SUFFICES ASSUME described[i] # None, ~(described[i] <= today)
             PROVE  FALSE
  BY DEF ToldIsOver
<1>2. PICK told \in Nat : told = described[i] BY <1>1
<1>3. PICK k \in Key : Stored(i, k)
  BY DEF QuietInv, ToldSafely
<1>4. \A l \in Key :
        Stored(i, l) => described[i] <= objects[i][l].day + Period(Stored(i, Marker))
  BY DEF QuietInv, ToldSafely
<1>5. /\ Oldest(Age(i)) \in Nat
      /\ \E l \in Members(Age(i)) : Age(i)[l] = Oldest(Age(i))
  BY <1>1, <1>3, AgeIsListing, OldestIsADay
<1>6. PICK l \in Key : Stored(i, l) /\ objects[i][l].day = Oldest(Age(i))
  BY <1>1, <1>5, AgeIsListing DEF Members
<1>7. PICK o \in Nat : o = Oldest(Age(i)) /\ o = Oldest(sweep.listed[i])
  BY <1>5 DEF Awaited
<1>8. PICK c \in BOOLEAN : c = Stored(i, Marker) BY DEF Stored
<1>9. PICK e \in BOOLEAN : e = sweep.committed[i] BY <1>1 DEF Sweep
<1>10. c => e BY <1>8, <1>9, Zenon DEF Awaited, Classed
<1>11. PICK p \in Nat : p = Period(c) BY PeriodIsNat
<1>12. PICK q \in Nat : q = Period(e) BY PeriodIsNat
<1>13. p <= q BY <1>10, <1>11, <1>12, PeriodGrows
<1>14. told <= o + p
  <2>1. described[i] <= objects[i][l].day + Period(Stored(i, Marker)) BY <1>4, <1>6
  <2> QED BY <1>2, <1>6, <1>7, <1>8, <1>11, <2>1, Zenon
<1>15. sweep.at >= o + q
  <2>1. Expired(e, o, sweep.at) BY <1>7, <1>9, Zenon
  <2> QED BY <1>12, <2>1 DEF Expired
<1>16. PICK at \in Nat : at = sweep.at BY <1>1 DEF Sweep
<1>17. told <= today BY <1>1, <1>13, <1>14, <1>15, <1>16
<1> QED BY <1>2, <1>17

LEMMA CondemnKeepsSweep ==
    ASSUME DurableIInv, QuietInv, NEW i \in Job, Condemn(i)
    PROVE  SweepInv'
<1>1. StoreTypeOK /\ sweep \in Sweep
  BY DEF DurableIInv, BodyInv, CommitTypeOK, RetentionTypeOK
<1>2. PICK keys : keys = Members(sweep.listed[i]) OBVIOUS
<1>3. sweep' = [sweep EXCEPT !.phase = "deleting", !.pending = sweep.pending \ {i},
                             !.victim = i, !.left = keys]
  BY <1>2 DEF Condemn
<1>4. /\ sweep'.phase = "deleting" /\ sweep'.pending = sweep.pending \ {i}
      /\ sweep'.committed = sweep.committed /\ sweep'.dry = sweep.dry
      /\ sweep'.listed = sweep.listed /\ sweep'.at = sweep.at
      /\ sweep'.victim = i /\ sweep'.refused = sweep.refused /\ sweep'.left = keys
  BY <1>1, <1>3 DEF Sweep
<1>5. /\ sweep.phase = "deciding" /\ objects' = objects /\ today' = today
      /\ described' = described
      /\ sweep.at <= today /\ sweep.victim = None /\ i \in sweep.pending
      /\ ~sweep.dry /\ Expired(sweep.committed[i], Oldest(sweep.listed[i]), sweep.at)
      /\ \A j \in Job : /\ j \in sweep.pending => Awaited(j)
                        /\ j \notin sweep.pending /\ j # sweep.victim => Settled(j)
  BY DEF Condemn, storeVars, QuietInv, SweepInv
<1>6. \A j \in Job : Age(j)' = Age(j) /\ \A k \in Key : Stored(j, k)' <=> Stored(j, k)
  BY <1>1, <1>5, AgeStays
<1>7. Marker \in Key BY DEF Key
<1>8. \A j \in Job : /\ Awaited(j) => Awaited(j)'
                     /\ Settled(j) => Settled(j)'
                     /\ Classed(j) => Classed(j)'
  BY <1>4, <1>6, <1>7 DEF Awaited, Settled, Classed
<1>9. Awaited(i) BY <1>5
<1>10. \A k \in Key : Stored(i, k) => sweep.listed[i][k] = objects[i][k].day /\ k \in keys
  <2> SUFFICES ASSUME NEW k \in Key, Stored(i, k)
               PROVE  sweep.listed[i][k] = objects[i][k].day /\ k \in keys
    OBVIOUS
  <2>1. Age(i) = sweep.listed[i] BY <1>9 DEF Awaited
  <2>2. Age(i)[k] = objects[i][k].day /\ k \in Members(Age(i)) BY <1>1, AgeIsListing
  <2> QED BY <1>2, <2>1, <2>2
<1>11. FailedPeriod <= DeliverablePeriod => ToldIsOver(i)'
  <2>1. FailedPeriod <= DeliverablePeriod => ToldIsOver(i)
    BY <1>5, <1>9, CondemnedWasTold
  <2> QED BY <1>5, <2>1 DEF ToldIsOver
<1>12. Condemned(i)'
  <2>1. Classed(i)' BY <1>8, <1>9 DEF Awaited
  <2>2. \A k \in Key : Stored(i, k)' =>
            /\ sweep'.listed[i][k] = objects'[i][k].day
            /\ k \in sweep'.left \/ sweep'.refused
    BY <1>4, <1>5, <1>6, <1>10
  <2> QED BY <1>4, <1>5, <1>11, <2>1, <2>2 DEF Condemned
<1>13. \A j \in Job : /\ j \in sweep'.pending => Awaited(j)'
                      /\ j \notin sweep'.pending /\ j # sweep'.victim => Settled(j)'
  <2>1. \A j \in Job : j # None BY StoreAssumption
  <2> QED BY <1>4, <1>5, <1>8, <2>1
<1> QED BY <1>4, <1>5, <1>12, <1>13 DEF SweepInv

\* One object of the victim goes, or its delete is refused and counted.
LEMMA DeleteKeepsSweep ==
    ASSUME DurableIInv, QuietInv, NEW k \in Key, NEW refused \in BOOLEAN,
           DeleteNext(k, refused)
    PROVE  /\ SweepInv'
           /\ \A j \in Job : \A l \in Key :
                j # sweep.victim => objects'[j][l] = objects[j][l]
<1>1. StoreTypeOK /\ sweep \in Sweep
  BY DEF DurableIInv, BodyInv, CommitTypeOK, RetentionTypeOK
<1> DEFINE last == sweep.left = {k}
<1>2. /\ sweep'.phase = IF last THEN "deciding" ELSE sweep.phase
      /\ sweep'.victim = IF last THEN None ELSE sweep.victim
      /\ sweep'.left = sweep.left \ {k}
      /\ sweep'.refused = (sweep.refused \/ refused)
      /\ sweep'.pending = sweep.pending
      /\ sweep'.committed = sweep.committed /\ sweep'.dry = sweep.dry
      /\ sweep'.listed = sweep.listed /\ sweep'.at = sweep.at
  BY <1>1 DEF DeleteNext, Sweep
<1>3. PICK v \in Job :
        /\ v = sweep.victim
        /\ sweep.phase = "deleting" /\ today' = today /\ described' = described
        /\ sweep.at <= today /\ v \notin sweep.pending
        /\ \A j \in Job : /\ j \in sweep.pending => Awaited(j)
                          /\ j \notin sweep.pending /\ j # v => Settled(j)
        /\ Condemned(v)
  BY DEF DeleteNext, QuietInv, SweepInv
<1>4. Delete(v, k, refused) BY <1>3 DEF DeleteNext
<1>5. Remove(v, k) => \A j \in Job, l \in Key :
         objects'[j][l] = IF j = v /\ l = k THEN None ELSE objects[j][l]
  BY <1>1 DEF Remove, StoreTypeOK
<1>6. /\ \A j \in Job, l \in Key : j # v => objects'[j][l] = objects[j][l]
      /\ \A l \in Key : l # k => objects'[v][l] = objects[v][l]
      /\ objects'[v][k] \in {objects[v][k], None}
      /\ ~refused => objects'[v][k] = None
  BY <1>4, <1>5 DEF Delete
<1>7. Marker \in Key BY DEF Key
<1>8. \A j \in Job : j # v =>
        Age(j)' = Age(j) /\ \A l \in Key : Stored(j, l)' <=> Stored(j, l)
  BY <1>1, <1>6, AgeStays
<1>9. \A j \in Job : j # v => /\ Awaited(j) => Awaited(j)'
                              /\ Settled(j) => Settled(j)'
  BY <1>2, <1>7, <1>8 DEF Awaited, Settled, Classed
<1>10. \A l \in Key : Stored(v, l)' => /\ Stored(v, l) /\ objects'[v][l] = objects[v][l]
                                       /\ l # k \/ refused
  BY <1>6 DEF Stored
<1>11. \A l \in Key : Stored(v, l)' =>
            /\ sweep'.listed[v][l] = objects'[v][l].day
            /\ l \in sweep'.left \/ sweep'.refused
  BY <1>2, <1>3, <1>10 DEF Condemned
<1>12. CASE ~last
  <2>1. Condemned(v)'
    <3>1. Classed(v)' BY <1>2, <1>3, <1>7, <1>10 DEF Condemned, Classed
    <3>2. FailedPeriod <= DeliverablePeriod => ToldIsOver(v)'
      BY <1>3 DEF Condemned, ToldIsOver
    <3>3. /\ ~sweep'.dry
          /\ Expired(sweep'.committed[v], Oldest(sweep'.listed[v]), sweep'.at)
      BY <1>2, <1>3 DEF Condemned
    <3> QED BY <1>11, <3>1, <3>2, <3>3 DEF Condemned
  <2>2. sweep'.victim = v /\ sweep'.phase = "deleting" BY <1>2, <1>3, <1>12
  <2>3. SweepInv'
    BY <1>2, <1>3, <1>9, <2>1, <2>2 DEF SweepInv
  <2> QED BY <1>3, <1>6, <2>3
<1>13. CASE last
  <2>1. Settled(v)'
    BY <1>2, <1>11, <1>13 DEF Settled
  <2>2. sweep'.victim = None /\ sweep'.phase = "deciding" BY <1>2, <1>13
  <2>3. SweepInv'
    BY <1>2, <1>3, <1>9, <2>1, <2>2 DEF SweepInv
  <2> QED BY <1>3, <1>6, <2>3
<1> QED BY <1>12, <1>13

\* What was told of a record nobody touches stays as good.
LEMMA ToldStays ==
    ASSUME NEW j \in Job, \A k \in Key : objects'[j][k] = objects[j][k],
           today' = today, described'[j] = described[j], ToldSafely(j)
    PROVE  ToldSafely(j)'
<1>1. \A k \in Key : Stored(j, k)' <=> Stored(j, k) BY DEF Stored
<1>2. Stored(j, Marker)' = Stored(j, Marker)
  <2>1. Marker \in Key BY DEF Key
  <2> QED BY <2>1 DEF Stored
<1>3. Period(Stored(j, Marker)') = Period(Stored(j, Marker)) BY <1>2
<1>4. CASE described[j] = None \/ described[j] <= today
  BY <1>4 DEF ToldSafely
<1>5. CASE ~(described[j] = None \/ described[j] <= today)
  <2>1. PICK k \in Key : Stored(j, k) BY <1>5 DEF ToldSafely
  <2>2. ASSUME NEW l \in Key, Stored(j, l)'
        PROVE  described'[j] <= objects'[j][l].day + Period(Stored(j, Marker)')
    <3>1. Stored(j, l) BY <1>1, <2>2
    <3>2. described[j] <= objects[j][l].day + Period(Stored(j, Marker))
      BY <1>5, <3>1 DEF ToldSafely
    <3> QED BY <1>3, <3>2
  <2>3. Stored(j, k)' BY <1>1, <2>1
  <2> QED BY <2>2, <2>3 DEF ToldSafely
<1> QED BY <1>4, <1>5

LEMMA SweepKeepsQuiet ==
    ASSUME DurableIInv, QuietInv, SeesOutputs, SweepNext, Quiet'
    PROVE  QuietInv'
<1>1. StoreTypeOK /\ RetentionTypeOK /\ ControlInv
  BY DEF DurableIInv, BodyInv, CommitTypeOK, ControlInv
<1>2. Shrinks /\ today' = today /\ erasure' = erasure /\ described' = described
  BY <1>1, SweepKeeps
     DEF SweepNext, StartSweep, ListOutputs, FinishSweep, SweepDies, Classify, Retain,
         Condemn, DeleteNext, storeVars
<1>3. Dated'
  BY <1>2 DEF QuietInv, Dated, Shrinks, Stored
<1>4. SweepInv'
  <2>1. CASE sweep' = NoSweep
    BY <2>1 DEF SweepInv, NoSweep
  <2> QED
    BY <2>1, StartKeepsSweep, ListKeepsSweep, ClassifyKeepsSweep, RetainKeepsSweep,
       CondemnKeepsSweep, DeleteKeepsSweep
       DEF SweepNext, FinishSweep, SweepDies
<1>5. erasure = NoErasure
  <2>1. CASE sweep.phase = "idle"
    <3>1. PICK dry \in BOOLEAN : StartSweep(dry)
      BY <2>1
         DEF SweepNext, ListOutputs, FinishSweep, SweepDies, Classify, Retain, Condemn,
             DeleteNext
    <3>2. sweep'.phase = "listing" BY <1>1, <3>1 DEF StartSweep, RetentionTypeOK, Sweep
    <3> QED BY <1>2, <3>2 DEF Quiet
  <2>2. CASE sweep.phase # "idle"
    BY <2>2 DEF QuietInv, Quiet
  <2> QED BY <2>1, <2>2
<1>6. ErasureInv' BY <1>2, <1>5 DEF ErasureInv
<1>7. ASSUME FailedPeriod <= DeliverablePeriod, NEW j \in Job
      PROVE  ToldSafely(j)'
  <2>1. ToldSafely(j) BY <1>7 DEF QuietInv
  <2>2. CASE \A k \in Key : objects'[j][k] = objects[j][k]
    BY <1>2, <2>1, <2>2, ToldStays
  <2>3. CASE \E k \in Key : objects'[j][k] # objects[j][k]
    <3>1. PICK k \in Key, refused \in BOOLEAN : DeleteNext(k, refused)
      BY <2>3
         DEF SweepNext, StartSweep, ListOutputs, FinishSweep, SweepDies, Classify, Retain,
             Condemn, storeVars
    <3>2. j = sweep.victim BY <2>3, <3>1, DeleteKeepsSweep
    <3>3. ToldIsOver(j)
      BY <1>7, <3>1, <3>2 DEF QuietInv, SweepInv, DeleteNext, Condemned
    <3> QED BY <1>2, <3>3 DEF ToldIsOver, ToldSafely
  <2> QED BY <2>2, <2>3
<1> QED BY <1>3, <1>4, <1>6, <1>7 DEF QuietInv

LEMMA SubjectKeepsQuiet ==
    ASSUME DurableIInv, QuietInv, SeesOutputs, SubjectNext, ~DescribedMeanwhile, Quiet'
    PROVE  QuietInv'
<1>1. /\ StoreTypeOK /\ RetentionTypeOK /\ ControlInv /\ erasure \in Erasure
      /\ described \in [Job -> Nat \cup {None}]
  BY DEF DurableIInv, BodyInv, CommitTypeOK, ControlInv, RetentionTypeOK
<1>2. Shrinks /\ today' = today /\ sweep' = sweep
  BY <1>1, SubjectKeeps
     DEF SubjectNext, Describe, StartErasure, EraseNext, ErasureDies, storeVars
<1>3. Dated'
  BY <1>2 DEF QuietInv, Dated, Shrinks, Stored
<1>4. sweep.phase = "idle"
  <2>1. ASSUME NEW j \in Job, Describe(j) PROVE sweep.phase = "idle"
    BY <2>1 DEF DescribedMeanwhile, Controlling
  <2>2. ASSUME NEW j \in Job, StartErasure(j) PROVE sweep.phase = "idle"
    <3>1. erasure'.job = j BY <2>2 DEF StartErasure, NoErasure
    <3>2. j # None BY StoreAssumption
    <3>3. erasure' # NoErasure BY <3>1, <3>2 DEF NoErasure
    <3> QED BY <1>2, <3>3 DEF Quiet
  <2>3. ASSUME erasure # NoErasure PROVE sweep.phase = "idle"
    BY <2>3 DEF QuietInv, Quiet
  <2> QED BY <2>1, <2>2, <2>3 DEF SubjectNext, EraseNext, ErasureDies
<1>5. SweepInv' BY <1>2, <1>4, IdleControl DEF QuietInv
<1>6. ASSUME NEW i \in Job, Describe(i)
      PROVE  ErasureInv' /\ \A j \in Job : ToldSafely(j) => ToldSafely(j)'
  <2>1. objects' = objects /\ erasure' = erasure
    BY <1>6 DEF Describe, storeVars
  <2>2. ErasureInv' BY <2>1 DEF QuietInv, ErasureInv, Stored
  <2>3. Listing(i) = Age(i) BY <1>1, AgeIsListing
  <2>4. PICK c \in BOOLEAN : c = (Listing(i)[Marker] # None) OBVIOUS
  <2>5. described' = [described EXCEPT ![i] = Oldest(Age(i)) + Period(c)]
    BY <1>6, <2>3, <2>4 DEF Describe
  <2>6. Members(Age(i)) # {} BY <1>6, <2>3 DEF Describe
  <2>7. /\ Oldest(Age(i)) \in Nat
        /\ \A k \in Members(Age(i)) : Oldest(Age(i)) <= Age(i)[k]
    BY <1>1, <2>6, AgeIsListing, OldestIsADay
  <2>8. c <=> Stored(i, Marker)
    <3>1. Marker \in Key BY DEF Key
    <3>2. Marker \in Members(Age(i)) <=> Age(i)[Marker] # None BY <3>1 DEF Members
    <3> QED BY <1>1, <2>3, <2>4, <3>1, <3>2, AgeIsListing
  <2>9. PICK p \in Nat : p = Period(c) BY PeriodIsNat
  <2>10. PICK o \in Nat : o = Oldest(Age(i)) BY <2>7
  <2>11. Period(Stored(i, Marker)) = p
    <3>1. Stored(i, Marker) = c BY <2>8 DEF Stored
    <3> QED BY <2>9, <3>1, Zenon
  <2>12. described'[i] = o + p BY <1>1, <2>5, <2>9, <2>10
  <2>13. ASSUME NEW k \in Key, Stored(i, k) PROVE o + p <= objects[i][k].day + p
    <3>1. k \in Members(Age(i)) /\ Age(i)[k] = objects[i][k].day /\ Age(i)[k] \in Nat
      BY <1>1, <2>13, AgeIsListing
    <3>2. PICK d \in Nat : d = objects[i][k].day /\ d = Age(i)[k] BY <3>1
    <3>3. o <= d BY <2>7, <2>10, <3>1, <3>2
    <3>4. o + p <= d + p BY <3>3
    <3> QED BY <3>2, <3>4
  <2>14. \E k \in Key : Stored(i, k)
    <3>1. Members(Age(i)) \subseteq Key BY DEF Members
    <3> QED BY <1>1, <2>6, <3>1, AgeIsListing
  <2>15. ToldSafely(i)' BY <2>1, <2>11, <2>12, <2>13, <2>14 DEF ToldSafely, Stored
  <2>16. ASSUME NEW j \in Job \ {i}, ToldSafely(j) PROVE ToldSafely(j)'
    <3>1. described'[j] = described[j] BY <1>1, <2>5
    <3> QED BY <1>2, <2>1, <2>16, <3>1 DEF ToldSafely, Stored
  <2> QED BY <2>2, <2>15, <2>16
<1>7. ASSUME NEW i \in Job, StartErasure(i)
      PROVE  ErasureInv' /\ \A j \in Job : ToldSafely(j) => ToldSafely(j)'
  <2>1. /\ objects' = objects
        /\ erasure'.job = i /\ erasure'.left = Members(Age(i)) /\ erasure'.refused = FALSE
        /\ described' = [described EXCEPT ![i] = None]
    BY <1>1, <1>7, AgeIsListing DEF StartErasure, NoErasure, storeVars
  <2>2. \A k \in Key : Stored(i, k)' => k \in Members(Age(i))
    BY <1>1, <2>1, AgeIsListing DEF Stored
  <2>3. ErasureInv' BY <2>1, <2>2 DEF ErasureInv
  <2>4. ASSUME NEW j \in Job, ToldSafely(j) PROVE ToldSafely(j)'
    <3>1. described'[j] = IF j = i THEN None ELSE described[j] BY <1>1, <2>1
    <3> QED BY <1>2, <2>1, <2>4, <3>1 DEF ToldSafely, Stored
  <2> QED BY <2>3, <2>4
<1>8. ASSUME NEW k \in Key, NEW refused \in BOOLEAN, EraseNext(k, refused)
      PROVE  ErasureInv' /\ \A j \in Job : ToldSafely(j) => ToldSafely(j)'
  <2>1. PICK i \in Job : /\ i = erasure.job
                         /\ \A l \in Key : Stored(i, l) => l \in erasure.left \/ erasure.refused
    BY <1>8 DEF EraseNext, QuietInv, ErasureInv
  <2>2. Delete(i, k, refused) /\ described' = [described EXCEPT ![i] = None]
    BY <1>8, <2>1 DEF EraseNext
  <2>3. Remove(i, k) => \A j \in Job, l \in Key :
           objects'[j][l] = IF j = i /\ l = k THEN None ELSE objects[j][l]
    BY <1>1 DEF Remove, StoreTypeOK
  <2>4. /\ \A j \in Job, l \in Key : j # i => objects'[j][l] = objects[j][l]
        /\ \A l \in Key : objects'[i][l] \in {objects[i][l], None}
        /\ ~refused => objects'[i][k] = None
    BY <2>2, <2>3 DEF Delete
  <2>5. ErasureInv'
    <3>1. CASE erasure.left = {k}
      BY <1>8, <3>1 DEF EraseNext, ErasureInv
    <3>2. CASE erasure.left # {k}
      <4>1. /\ erasure'.job = i /\ erasure'.left = erasure.left \ {k}
            /\ erasure'.refused = (erasure.refused \/ refused)
        BY <1>1, <1>8, <2>1, <3>2 DEF EraseNext, Erasure
      <4>2. \A l \in Key : Stored(i, l)' => l \in erasure'.left \/ erasure'.refused
        BY <2>1, <2>4, <4>1 DEF Stored
      <4> QED BY <4>1, <4>2 DEF ErasureInv
    <3> QED BY <3>1, <3>2
  <2>6. ASSUME NEW j \in Job, ToldSafely(j) PROVE ToldSafely(j)'
    <3>1. CASE j = i
      <4>1. described'[j] = None BY <1>1, <2>2, <3>1
      <4> QED BY <4>1 DEF ToldSafely
    <3>2. CASE j # i
      <4>1. described'[j] = described[j] BY <1>1, <2>2, <3>2
      <4>2. \A l \in Key : objects'[j][l] = objects[j][l] BY <2>4, <3>2
      <4> QED BY <1>2, <2>6, <4>1, <4>2, ToldStays
    <3> QED BY <3>1, <3>2
  <2> QED BY <2>5, <2>6
<1>9. ASSUME ErasureDies
      PROVE  ErasureInv' /\ \A j \in Job : ToldSafely(j) => ToldSafely(j)'
  <2>1. objects' = objects /\ erasure' = NoErasure /\ described' = described
    BY <1>9 DEF ErasureDies, storeVars
  <2>2. ErasureInv' BY <2>1 DEF ErasureInv
  <2>3. \A j \in Job : ToldSafely(j) => ToldSafely(j)'
    BY <1>2, <2>1 DEF ToldSafely, Stored
  <2> QED BY <2>2, <2>3
<1>10. ErasureInv' /\ \A j \in Job : ToldSafely(j) => ToldSafely(j)'
  BY <1>6, <1>7, <1>8, <1>9 DEF SubjectNext
<1> QED BY <1>3, <1>5, <1>10 DEF QuietInv

-----------------------------------------------------------------------------
(* The theorems about the discipline *)

KeptApartStep == Next /\ Quiet' /\ ~DescribedMeanwhile

QuietIInv == DurableIInv /\ QuietInv

LEMMA QuietStarts ==
    ASSUME Init
    PROVE  QuietIInv
<1>1. DurableIInv BY DurableStarts
<1>2. /\ sweep = NoSweep /\ erasure = NoErasure /\ \A j \in Job : described[j] = None
      /\ \A j \in Job, k \in Key : ~Stored(j, k)
  BY DEF Init, RetentionInit, CommitInit, StoreInit, Stored
<1>3. sweep.phase = "idle" /\ sweep.victim = None /\ ~sweep.refused
  BY <1>2 DEF NoSweep
<1>4. Quiet BY <1>2, <1>3 DEF Quiet, Controlling
<1>5. SweepInv BY <1>2, <1>3 DEF SweepInv
<1>6. Dated /\ ErasureInv BY <1>2 DEF Dated, ErasureInv
<1>7. \A j \in Job : ToldSafely(j) BY <1>2 DEF ToldSafely
<1> QED BY <1>1, <1>4, <1>5, <1>6, <1>7 DEF QuietIInv, QuietInv

LEMMA QuietSteps ==
    ASSUME QuietIInv, SeesOutputs, [KeptApartStep]_vars
    PROVE  QuietIInv'
<1>1. DurableIInv /\ QuietInv BY DEF QuietIInv
<1>2. DurableIInv' BY <1>1, DurableSteps DEF KeptApartStep
<1>3. CASE UNCHANGED vars
  <2>1. Quiet'
    BY <1>1, <1>3
       DEF QuietInv, Quiet, Controlling, vars, commitVars, taskVars, retentionVars
  <2> QED BY <1>1, <1>2, <1>3, <2>1, QuietStays DEF QuietIInv, vars, commitVars
<1>4. CASE KeptApartStep
  <2>1. QuietInv'
    BY <1>1, <1>4, CommitKeepsQuiet, SweepKeepsQuiet, SubjectKeepsQuiet, DayKeepsQuiet
       DEF KeptApartStep, Next
  <2> QED BY <1>2, <2>1 DEF QuietIInv
<1> QED BY <1>3, <1>4

LEMMA QuietInvariant ==
    ASSUME SeesOutputs
    PROVE  QuietSpec => []QuietIInv
<1>1. Init => QuietIInv BY QuietStarts
<1>2. QuietIInv /\ [KeptApartStep]_vars => QuietIInv' BY QuietSteps
<1> QED BY <1>1, <1>2, PTL DEF QuietSpec, KeptApartStep

\* A control plane that looks for the attempts in another place finds none.
Blind ==
    /\ sweep.phase \in {"idle", "listing", "deciding"}
    /\ sweep.pending = {}
    /\ sweep.victim = None
    /\ erasure = NoErasure

LEMMA BlindSteps ==
    ASSUME ~SeesOutputs, RetentionTypeOK, Blind, [Next]_vars
    PROVE  Blind'
<1>1. \A j \in Job : Members(Listing(j)) = {}
  BY DEF Listing, Members
<1>2. NoSweep.phase = "idle" /\ NoSweep.pending = {} /\ NoSweep.victim = None
  BY DEF NoSweep
<1>3. CASE UNCHANGED retentionVars
  BY <1>3 DEF Blind, retentionVars
<1>4. CASE SweepNext
  <2>1. UNCHANGED erasure
    BY <1>4
       DEF SweepNext, StartSweep, ListOutputs, FinishSweep, SweepDies, Classify, Retain,
           Condemn, DeleteNext
  <2>2. CASE ListOutputs
    <3> DEFINE listed == [j \in Job |-> Listing(j)]
    <3>1. Seen(listed) = {} BY <1>1 DEF Seen
    <3> HIDE DEF listed
    <3>2. sweep' = [sweep EXCEPT
            !.listed = listed,
            !.pending = Seen(listed),
            !.phase = IF Seen(listed) = {} THEN "deciding" ELSE "classifying"]
      BY <2>2 DEF ListOutputs, listed
    <3> QED BY <2>1, <3>1, <3>2 DEF Blind, RetentionTypeOK, Sweep
  <2>3. ASSUME NEW dry \in BOOLEAN, StartSweep(dry) PROVE Blind'
    BY <2>1, <2>3 DEF StartSweep, Blind, RetentionTypeOK, Sweep
  <2>4. CASE FinishSweep \/ SweepDies
    BY <1>2, <2>1, <2>4 DEF FinishSweep, SweepDies, Blind
  <2> QED
    BY <1>4, <2>2, <2>3, <2>4
       DEF SweepNext, Classify, Retain, Condemn, DeleteNext, Blind
<1>5. CASE SubjectNext
  BY <1>1, <1>5
     DEF SubjectNext, Describe, StartErasure, EraseNext, ErasureDies, Blind
<1> QED BY <1>3, <1>4, <1>5 DEF Next, vars

LEMMA BlindInvariant ==
    ASSUME ~SeesOutputs
    PROVE  QuietSpec => [](DurableIInv /\ Blind)
<1>1. Init => DurableIInv /\ Blind
  BY DurableStarts DEF Init, RetentionInit, Blind, NoSweep
<1>2. DurableIInv /\ Blind /\ [KeptApartStep]_vars => (DurableIInv /\ Blind)'
  BY DurableSteps, BlindSteps DEF KeptApartStep, DurableIInv
<1> QED BY <1>1, <1>2, PTL DEF QuietSpec, KeptApartStep

\* Nor does it take anything.
LEMMA BlindTakesNothing ==
    ASSUME DurableIInv, Blind, Next, NEW j \in Job, NEW k \in Key
    PROVE  ~Removes(j, k)
<1>1. CASE CommitNext
  BY <1>1, WritesToday DEF DurableIInv, Removes, Stored
<1>2. CASE UNCHANGED objects
  BY <1>2 DEF Removes, Stored
<1> QED
  BY <1>1, <1>2
     DEF Blind, Next, SweepNext, SubjectNext, NextDay, StartSweep, ListOutputs, FinishSweep,
         SweepDies, Classify, Retain, Condemn, DeleteNext, Describe, StartErasure, EraseNext,
         ErasureDies, storeVars

\* A complete result that is being deleted is past its period.
LEMMA CondemnedIsPast ==
    ASSUME QuietIInv, NEW j \in Job, sweep.victim = j, Complete(j)
    PROVE  PastPeriod(j, today)
<1>1. /\ StoreTypeOK /\ sweep \in Sweep /\ today \in Nat
  BY DEF QuietIInv, DurableIInv, BodyInv, CommitTypeOK, RetentionTypeOK, StoreTypeOK
<1>2. Condemned(j) /\ sweep.at <= today
  <2>1. j # None BY StoreAssumption
  <2>2. sweep.phase = "deleting" BY <2>1 DEF QuietIInv, QuietInv, SweepInv
  <2> QED BY <2>2 DEF QuietIInv, QuietInv, SweepInv
<1>3. \A k \in Key : Stored(j, k) BY DEF Complete, Key
<1>4. Age(j) = sweep.listed[j]
  <2>1. sweep.listed[j] \in [Key -> Nat \cup {None}] BY <1>1 DEF Sweep, ListingOf
  <2>2. Age(j) \in [Key -> Nat \cup {None}] BY <1>1, AgeIsListing
  <2>3. \A k \in Key : Age(j)[k] = sweep.listed[j][k]
    BY <1>1, <1>2, <1>3, AgeIsListing DEF Condemned
  <2> QED BY <2>1, <2>2, <2>3
<1>5. Marker \in Members(Age(j))
  <2>1. Marker \in Key BY DEF Key
  <2> QED BY <1>1, <1>3, <2>1, AgeIsListing
<1>6. PICK o \in Nat : o = Oldest(Age(j))
  BY <1>1, <1>5, AgeIsListing, OldestIsADay
<1>7. sweep.committed[j] = TRUE
  BY <1>1, <1>2, <1>5 DEF Condemned, Classed, Complete, Sweep
<1>8. Expired(TRUE, o, sweep.at)
  BY <1>2, <1>4, <1>6, <1>7 DEF Condemned
<1>9. Expired(TRUE, o, today)
  <2>1. PICK p \in Nat : p = Period(TRUE) BY PeriodIsNat
  <2>2. PICK at \in Nat : at = sweep.at BY <1>1 DEF Sweep
  <2>3. at >= o + p BY <1>8, <2>1, <2>2 DEF Expired
  <2>4. today >= o + p BY <1>1, <1>2, <2>2, <2>3
  <2> QED BY <2>1, <2>4 DEF Expired
<1>10. Stored(j, Marker) = TRUE BY DEF Complete, Stored
<1> QED BY <1>5, <1>6, <1>9, <1>10 DEF PastPeriod

\* Under the discipline no sweep takes an object of a complete result before the
\* deliverable period of its attempt is over (reconciler.py run, _committed).
THEOREM DeliverablesAreKept == QuietSpec => DeliverableKeepsItsPeriod
<1> DEFINE Keeps == \A j \in Job, k \in Key :
               sweep.victim = j /\ Removes(j, k) /\ Complete(j) => PastPeriod(j, today)
<1>1. QuietIInv /\ [KeptApartStep]_vars => [Keeps]_vars
  BY CondemnedIsPast
<1>2. DurableIInv /\ Blind /\ [KeptApartStep]_vars => [Keeps]_vars
  BY BlindTakesNothing DEF KeptApartStep
<1>3. CASE SeesOutputs
  BY <1>1, <1>3, QuietInvariant, PTL DEF QuietSpec, KeptApartStep, DeliverableKeepsItsPeriod
<1>4. CASE ~SeesOutputs
  BY <1>2, <1>4, BlindInvariant, PTL DEF QuietSpec, KeptApartStep, DeliverableKeepsItsPeriod
<1> QED BY <1>3, <1>4

\* Under the discipline no sweep takes anything of a record before the expiry
\* its principal was last told, provided that a failed attempt is not kept
\* longer than a deliverable (subject_requests.py describe).
THEOREM DescriptionsAreKept ==
    ASSUME FailedPeriod <= DeliverablePeriod
    PROVE  QuietSpec => DescribedIsKept
<1> DEFINE Keeps == \A j \in Job, k \in Key :
               sweep.victim = j /\ Removes(j, k) /\ described[j] # None
               => today >= described[j]
<1>1. QuietIInv /\ [KeptApartStep]_vars => [Keeps]_vars
  <2> SUFFICES ASSUME QuietIInv, NEW j \in Job, sweep.victim = j, described[j] # None
               PROVE  today >= described[j]
    OBVIOUS
  <2>1. j # None BY StoreAssumption
  <2>2. sweep.phase = "deleting" BY <2>1 DEF QuietIInv, QuietInv, SweepInv
  <2>3. ToldIsOver(j) BY <2>2 DEF QuietIInv, QuietInv, SweepInv, Condemned
  <2>4. today \in Nat /\ described[j] \in Nat
    BY DEF QuietIInv, DurableIInv, BodyInv, CommitTypeOK, StoreTypeOK, RetentionTypeOK
  <2> QED BY <2>3, <2>4 DEF ToldIsOver
<1>2. DurableIInv /\ Blind /\ [KeptApartStep]_vars => [Keeps]_vars
  BY BlindTakesNothing DEF KeptApartStep
<1>3. CASE SeesOutputs
  BY <1>1, <1>3, QuietInvariant, PTL DEF QuietSpec, KeptApartStep, DescribedIsKept
<1>4. CASE ~SeesOutputs
  BY <1>2, <1>4, BlindInvariant, PTL DEF QuietSpec, KeptApartStep, DescribedIsKept
<1> QED BY <1>3, <1>4

\* Where a marker goes and an artifact stays, a delete was refused before.
LEMMA StrandsIsRefused ==
    ASSUME QuietIInv, KeptApartStep, NEW j \in Job, Strands(j)
    PROVE  sweep.refused \/ erasure.refused
<1>1. /\ Stored(j, Marker) /\ objects'[j][Marker] = None /\ Marker \in Key
      /\ BodyInv /\ StoreTypeOK /\ RetentionTypeOK
  BY DEF Strands, Removes, Key, QuietIInv, DurableIInv, BodyInv, CommitTypeOK
<1>2. PICK k \in Role : objects'[j][k] # None BY DEF Strands
<1>3. k \in Key /\ k # Marker BY DEF Key, Role, Marker
<1>4. ~CommitNext
  BY <1>1, WritesToday DEF Stored
<1>5. ASSUME NEW l \in Key, NEW refused \in BOOLEAN,
             DeleteNext(l, refused) \/ EraseNext(l, refused),
             NEW i, Delete(i, l, refused),
             NEW left, l \in NextVictim(left)
      PROVE  /\ i = j /\ left = {Marker}
             /\ Stored(j, k)
  <2>1. Remove(i, l) \/ UNCHANGED objects BY <1>5 DEF Delete
  <2>2. Remove(i, l) => \A h \in Job, m \in Key :
           objects'[h][m] = IF h = i /\ m = l THEN None ELSE objects[h][m]
    BY <1>1 DEF Remove, StoreTypeOK
  <2>3. i = j /\ l = Marker BY <1>1, <2>1, <2>2 DEF Stored
  <2>4. left = {Marker} BY <1>5, <2>3 DEF NextVictim
  <2>5. Stored(j, k) BY <1>2, <1>3, <2>1, <2>2, <2>3 DEF Stored
  <2> QED BY <2>3, <2>4, <2>5
<1>6. ASSUME NEW l \in Key, NEW refused \in BOOLEAN, DeleteNext(l, refused)
      PROVE  sweep.refused
  <2>1. sweep.victim = j /\ sweep.left = {Marker} /\ Stored(j, k)
    BY <1>5, <1>6 DEF DeleteNext
  <2>2. Condemned(j) BY <1>6, <2>1 DEF DeleteNext, QuietIInv, QuietInv, SweepInv
  <2> QED BY <1>3, <2>1, <2>2 DEF Condemned
<1>7. ASSUME NEW l \in Key, NEW refused \in BOOLEAN, EraseNext(l, refused)
      PROVE  erasure.refused
  <2> DEFINE i == erasure.job
             left == erasure.left
  <2>1. Delete(i, l, refused) /\ l \in NextVictim(left) /\ erasure # NoErasure
    BY <1>7 DEF EraseNext
  <2> HIDE DEF i, left
  <2>2. i = j /\ left = {Marker} /\ Stored(j, k) BY <1>5, <1>7, <2>1
  <2> QED BY <1>3, <2>1, <2>2 DEF QuietIInv, QuietInv, ErasureInv, i, left
<1>8. objects' # objects BY <1>1 DEF Stored
<1> QED
  BY <1>4, <1>6, <1>7, <1>8
     DEF KeptApartStep, Next, SweepNext, SubjectNext, NextDay, StartSweep, ListOutputs,
         FinishSweep, SweepDies, Classify, Retain, Condemn, Describe, StartErasure,
         ErasureDies, storeVars

\* Under the discipline a marker goes after everything it names, unless a delete
\* was refused (reconciler.py _delete_attempt, subject_requests.py erase).
THEOREM MarkersGoLast == QuietSpec => MarkerGoesLastUnlessRefused
<1> DEFINE Accounts == \A j \in Job : Strands(j) => sweep.refused \/ erasure.refused
<1>1. QuietIInv /\ [KeptApartStep]_vars => [Accounts]_vars
  BY StrandsIsRefused
<1>2. DurableIInv /\ Blind /\ [KeptApartStep]_vars => [Accounts]_vars
  BY BlindTakesNothing DEF KeptApartStep, Strands, Key
<1>3. CASE SeesOutputs
  BY <1>1, <1>3, QuietInvariant, PTL DEF QuietSpec, KeptApartStep, MarkerGoesLastUnlessRefused
<1>4. CASE ~SeesOutputs
  BY <1>2, <1>4, BlindInvariant, PTL DEF QuietSpec, KeptApartStep, MarkerGoesLastUnlessRefused
<1> QED BY <1>3, <1>4

\* Under the discipline a sweep that deletes and ends clean leaves nothing that
\* is past the period of the class it took it for (reconciler.py clean).
THEOREM CleanSweepsAreThorough ==
    ASSUME SeesOutputs
    PROVE  QuietSpec => CleanSweepFollowsItsClasses
<1>1. ASSUME QuietIInv, EndsClean, NEW j \in Job, Members(Age(j)) # {}
      PROVE  ~Expired(sweep.committed[j], Oldest(Age(j)), sweep.at)
  <2>1. StoreTypeOK /\ j # None
    BY <1>1, StoreAssumption DEF QuietIInv, DurableIInv, BodyInv, CommitTypeOK
  <2>2. Settled(j) /\ ~sweep.dry /\ ~sweep.refused
    BY <1>1, <2>1 DEF EndsClean, FinishSweep, QuietIInv, QuietInv, SweepInv
  <2>3. Members(Age(j)) \subseteq Key BY DEF Members
  <2>4. \E k \in Key : Stored(j, k) BY <1>1, <2>1, <2>3, AgeIsListing
  <2> QED BY <2>2, <2>4 DEF Settled
<1>2. QuietIInv /\ [KeptApartStep]_vars =>
        [EndsClean => \A j \in Job :
            Members(Age(j)) # {}
            => ~Expired(sweep.committed[j], Oldest(Age(j)), sweep.at)]_vars
  BY <1>1
<1> QED BY <1>2, QuietInvariant, PTL DEF QuietSpec, KeptApartStep, CleanSweepFollowsItsClasses

-----------------------------------------------------------------------------
(* Several processes on one request *)

\* Under the discipline the bucket only grows while deliveries are at work.
RivalIInv == DurableIInv /\ Quiet /\ RivalInv

LEMMA RivalsWork ==
    ASSUME RivalIInv
    PROVE  WorkInv
BY DEF RivalIInv, RivalInv, DurableIInv, BodyInv, Own, WorkInv

\* A delivery goes to work only where it has found no marker.
LEMMA EntersWithoutMarker ==
    ASSUME WorkInv, CommitNext, NEW t \in Task, pc[t] \in Outside, pc'[t] \notin Outside
    PROVE  ~Stored(JobOf[t], Marker)
<1>1. ~\E p \in Process : Crash(p)
  BY DEF Crash, Outside
<1>2. PICK u \in Task : TaskNext(u)
  BY <1>1 DEF CommitNext
<1>3. u = t
  BY <1>2
     DEF WorkInv, CommitTypeOK, TaskNext, Progress, Fault, Submit, AcquireLock,
         Converge, Allocate, LookupFails, Generate, UploadHead, PutHead, Rcat,
         RcatRefused, RcatLandsThenFails, Verify, CommitHead, CommitGet, Check,
         StepFails, Advance, Finish, Leave, Goto, Outside
<1>4. Allocate(t)
  BY <1>2, <1>3
     DEF WorkInv, CommitTypeOK, TaskNext, Progress, Fault, Submit, AcquireLock,
         Converge, LookupFails, Generate, UploadHead, PutHead, Rcat,
         RcatRefused, RcatLandsThenFails, Verify, CommitHead, CommitGet, Check,
         StepFails, Leave, Goto, Outside
<1> QED BY <1>4 DEF Allocate

\* Whatever the deliveries of all processes do, none spoils another's attempt.
LEMMA RivalsKeep ==
    ASSUME RivalIInv, ~RcatOverwrites, CommitNext
    PROVE  RivalInv'
<1>1. WorkInv /\ WorkInv' /\ StoreTypeOK
  BY RivalsWork, WorkNext DEF WorkInv, CommitTypeOK
<1>2. Grows
  BY <1>1, StepGrows DEF Grows
<1>3. Unmixed'
  <2> SUFFICES ASSUME NEW j \in Job, NEW k \in Role, Stored(j, Marker)', Stored(j, k)'
               PROVE  AsRecorded(j, k)'
    BY DEF Unmixed
  <2>1. k \in Key /\ Marker \in Key /\ k # Marker BY DEF Key, Role, Marker
  <2>2. CASE ~Stored(j, Marker)
    <3>1. Complete(j)' BY <1>1, <2>2, MarkersComplete
    <3> QED BY <3>1 DEF Complete
  <2>3. CASE Stored(j, Marker) /\ Stored(j, k)
    <3>1. objects'[j][k] = objects[j][k] /\ objects'[j][Marker] = objects[j][Marker]
      BY <1>2, <2>1, <2>3 DEF Grows
    <3> QED BY <2>3, <3>1 DEF RivalIInv, RivalInv, Unmixed, AsRecorded
  <2>4. CASE Stored(j, Marker) /\ ~Stored(j, k)
    <3>1. PICK t \in Task : Rcat(t) \/ RcatLandsThenFails(t)
      BY <1>1, <2>4, StepGrows DEF Stored
    <3>2. j = JobOf[t] /\ pc[t] = "rcat"
      <4>1. <<j, k>> = <<JobOf[t], key[t]>> /\ pc[t] = "rcat"
        BY <1>1, <2>1, <2>4, <3>1, WriteGrows DEF Rcat, RcatLandsThenFails, Stored
      <4> QED BY <4>1
    <3>3. Complete(j) BY <2>4, <3>2 DEF RivalIInv, RivalInv
    <3> QED BY <2>4, <3>3 DEF Complete
  <2> QED BY <2>2, <2>3, <2>4
<1>4. ASSUME NEW t \in Task, pc'[t] \notin Outside, Stored(JobOf[t], Marker)'
      PROVE  Complete(JobOf[t])'
  <2>1. JobOf[t] \in Job BY TaskAssumption
  <2>2. CASE ~Stored(JobOf[t], Marker) BY <1>1, <1>4, <2>1, <2>2, MarkersComplete
  <2>3. CASE Stored(JobOf[t], Marker)
    <3>1. pc[t] \notin Outside BY <1>1, <1>4, <2>3, EntersWithoutMarker
    <3>2. Complete(JobOf[t]) BY <2>3, <3>1 DEF RivalIInv, RivalInv, Outside
    <3> QED BY <1>1, <1>2, <2>1, <3>2, CompleteStays
  <2> QED BY <2>2, <2>3
<1> QED BY <1>1, <1>3, <1>4 DEF RivalInv, WorkInv, Outside

\* The control plane takes something away only while nobody is at work.
LEMMA ControlSpares ==
    ASSUME RivalIInv, SweepNext \/ SubjectNext, UNCHANGED taskVars
    PROVE  RivalInv'
<1>1. CASE UNCHANGED objects
  BY <1>1
     DEF RivalIInv, RivalInv, Unmixed, Evidence, Verified, Holds, Complete, AsRecorded,
         Stored, taskVars
<1>2. CASE objects' # objects
  <2>1. Controlling
    BY <1>2
       DEF SweepNext, SubjectNext, StartSweep, ListOutputs, FinishSweep, SweepDies,
           Classify, Retain, Condemn, DeleteNext, Describe, StartErasure, EraseNext,
           ErasureDies, Controlling, storeVars
  <2>2. \A t \in Task : pc'[t] = "idle"
    BY <2>1 DEF RivalIInv, Quiet, taskVars
  <2>3. Shrinks
    BY SweepKeeps, SubjectKeeps
       DEF RivalIInv, DurableIInv, BodyInv, CommitTypeOK, ControlInv
  <2>4. Unmixed'
    <3> SUFFICES ASSUME NEW j \in Job, NEW k \in Role, Stored(j, Marker)', Stored(j, k)'
                 PROVE  AsRecorded(j, k)'
      BY DEF Unmixed
    <3>1. k \in Key /\ Marker \in Key BY DEF Key
    <3>2. objects'[j][k] = objects[j][k] /\ objects'[j][Marker] = objects[j][Marker]
      BY <2>3, <3>1 DEF Shrinks, Stored
    <3> QED BY <3>2 DEF RivalIInv, RivalInv, Unmixed, AsRecorded, Stored
  <2>5. \A t \in Task : Evidence(t)'
    BY <2>2 DEF Evidence, Verified, HasNothing
  <2> QED BY <2>2, <2>4, <2>5 DEF RivalInv
<1> QED BY <1>1, <1>2

LEMMA RivalsStart ==
    ASSUME Init
    PROVE  RivalIInv
<1>1. DurableIInv /\ Quiet BY QuietStarts DEF QuietIInv, QuietInv
<1>2. \A j \in Job : ~Stored(j, Marker)
  BY DEF Init, CommitInit, StoreInit, Stored, Key
<1>3. \A t \in Task : pc[t] = "idle" /\ Evidence(t)
  BY DEF Init, CommitInit, Evidence, Verified, HasNothing
<1> QED BY <1>1, <1>2, <1>3 DEF RivalIInv, RivalInv, Unmixed

LEMMA RivalSteps ==
    ASSUME RivalIInv, ~RcatOverwrites, [KeptApartStep]_vars
    PROVE  RivalIInv'
<1>1. DurableIInv'
  BY DurableSteps DEF RivalIInv, KeptApartStep
<1>2. RivalInv'
  <2>1. CASE CommitNext BY <2>1, RivalsKeep
  <2>2. CASE (SweepNext \/ SubjectNext) /\ UNCHANGED taskVars
    BY <2>2, ControlSpares
  <2>3. CASE UNCHANGED <<objects, taskVars>>
    BY <2>3
       DEF RivalIInv, RivalInv, Unmixed, Evidence, Verified, Holds, Complete, AsRecorded,
           Stored, taskVars
  <2> QED
    BY <2>1, <2>2, <2>3 DEF KeptApartStep, Next, NextDay, vars, commitVars, storeVars
<1>3. Quiet'
  BY DEF RivalIInv, KeptApartStep, Quiet, Controlling, vars, commitVars, taskVars,
         retentionVars
<1> QED BY <1>1, <1>2, <1>3 DEF RivalIInv

LEMMA RivalInvariant ==
    ASSUME ~RcatOverwrites
    PROVE  QuietSpec => []RivalIInv
<1>1. Init => RivalIInv BY RivalsStart
<1>2. RivalIInv /\ [KeptApartStep]_vars => RivalIInv' BY RivalSteps
<1> QED BY <1>1, <1>2, PTL DEF QuietSpec, KeptApartStep

\* Under the discipline no artifact differs from what its marker records, also
\* for a request that rival processes deliver, where a create never replaces an
\* object (uploader.py upload, commit.py commit).
THEOREM RivalsNeverMix ==
    ASSUME ~RcatOverwrites
    PROVE  QuietSpec => []RivalInv
<1>1. RivalIInv => RivalInv BY DEF RivalIInv
<1> QED BY <1>1, RivalInvariant, PTL

\* The attempt that is being deleted.
Doomed(j) ==
    \/ sweep.phase = "deleting" /\ sweep.victim = j
    \/ erasure # NoErasure /\ erasure.job = j

\* Where no deletion is cut short or refused, a result is whole or being deleted.
WholeOrDoomed ==
    /\ ~sweep.refused /\ ~erasure.refused
    /\ \A j \in Job : Stored(j, Marker) => Complete(j) \/ Doomed(j)

\* A deletion of one object leaves all other attempts alone.
LEMMA DeletesOne ==
    ASSUME StoreTypeOK, ~DeletesRefused, NEW i \in Job, NEW k \in Key,
           NEW refused \in BOOLEAN, Delete(i, k, refused)
    PROVE  /\ ~refused
           /\ \A j \in Job, l \in Key :
                objects'[j][l] = IF j = i /\ l = k THEN None ELSE objects[j][l]
BY DEF Delete, Remove, StoreTypeOK

LEMMA OthersStayWhole ==
    ASSUME StoreTypeOK, NEW j \in Job, \A k \in Key : objects'[j][k] = objects[j][k],
           Stored(j, Marker)', Stored(j, Marker) => Complete(j)
    PROVE  Complete(j)'
BY DEF Complete, Stored, AsRecorded, Key

LEMMA DeleteKeepsWhole ==
    ASSUME QuietIInv, WholeOrDoomed, ~DeletesRefused, NEW k \in Key, NEW refused \in BOOLEAN,
           DeleteNext(k, refused) /\ UNCHANGED taskVars
    PROVE  WholeOrDoomed'
<1>1. StoreTypeOK /\ sweep \in Sweep
  BY DEF QuietIInv, DurableIInv, BodyInv, CommitTypeOK, RetentionTypeOK
<1>2. PICK v \in Job : v = sweep.victim /\ sweep.phase = "deleting" /\ Condemned(v)
  BY DEF DeleteNext, QuietIInv, QuietInv, SweepInv
<1>3. Delete(v, k, refused) BY <1>2 DEF DeleteNext
<1>4. /\ ~refused
      /\ \A j \in Job, l \in Key :
            objects'[j][l] = IF j = v /\ l = k THEN None ELSE objects[j][l]
  BY <1>1, <1>3, DeletesOne
<1> DEFINE last == sweep.left = {k}
<1>5. /\ sweep'.phase = IF last THEN "deciding" ELSE sweep.phase
      /\ sweep'.victim = IF last THEN None ELSE sweep.victim
      /\ sweep'.refused = (sweep.refused \/ refused)
      /\ erasure' = erasure
  BY <1>1 DEF DeleteNext, Sweep
<1>6. /\ Marker \in Key
      /\ last => ~Stored(v, Marker)'
  BY <1>2, <1>4 DEF Condemned, WholeOrDoomed, Stored, Key
<1>7. ASSUME NEW j \in Job, Stored(j, Marker)', ~Doomed(j)'
      PROVE  Complete(j)'
  <2>1. j # v BY <1>2, <1>5, <1>6, <1>7 DEF Doomed
  <2>2. ~Doomed(j) BY <1>2, <1>5, <1>7, <2>1 DEF Doomed
  <2> QED BY <1>1, <1>4, <1>7, <2>1, <2>2, OthersStayWhole DEF WholeOrDoomed
<1> QED BY <1>4, <1>5, <1>7 DEF WholeOrDoomed

LEMMA EraseKeepsWhole ==
    ASSUME QuietIInv, WholeOrDoomed, ~DeletesRefused, NEW k \in Key, NEW refused \in BOOLEAN,
           EraseNext(k, refused) /\ UNCHANGED taskVars
    PROVE  WholeOrDoomed'
<1>1. StoreTypeOK /\ erasure \in Erasure
  BY DEF QuietIInv, DurableIInv, BodyInv, CommitTypeOK, RetentionTypeOK
<1>2. PICK v \in Job : /\ v = erasure.job
                       /\ \A l \in Key : Stored(v, l) => l \in erasure.left
  BY DEF EraseNext, QuietIInv, QuietInv, ErasureInv, WholeOrDoomed
<1>3. Delete(v, k, refused) /\ sweep' = sweep BY <1>2 DEF EraseNext
<1>4. /\ ~refused
      /\ \A j \in Job, l \in Key :
            objects'[j][l] = IF j = v /\ l = k THEN None ELSE objects[j][l]
  BY <1>1, <1>3, DeletesOne
<1>5. /\ Marker \in Key /\ ~erasure'.refused
      /\ Doomed(v)' \/ ~Stored(v, Marker)'
  <2>1. CASE erasure.left = {k}
    <3>1. erasure' = NoErasure BY <2>1 DEF EraseNext
    <3> QED BY <1>2, <1>4, <2>1, <3>1 DEF NoErasure, Stored, Key
  <2>2. CASE erasure.left # {k}
    <3>1. erasure' = [erasure EXCEPT !.left = @ \ {k}, !.refused = @ \/ refused]
      BY <2>2 DEF EraseNext
    <3>2. erasure'.job = v /\ ~erasure'.refused
      BY <1>1, <1>2, <1>4, <3>1 DEF Erasure, WholeOrDoomed
    <3>3. erasure' # NoErasure
      BY <1>2, <3>2, StoreAssumption DEF NoErasure
    <3> QED BY <3>2, <3>3 DEF Doomed, Key
  <2> QED BY <2>1, <2>2
<1>6. ASSUME NEW j \in Job, Stored(j, Marker)', ~Doomed(j)'
      PROVE  Complete(j)'
  <2>1. j # v BY <1>5, <1>6
  <2>2. ~Doomed(j) BY <1>2, <1>3, <1>6, <2>1 DEF Doomed
  <2> QED BY <1>1, <1>4, <1>6, <2>1, <2>2, OthersStayWhole DEF WholeOrDoomed
<1> QED BY <1>3, <1>5, <1>6 DEF WholeOrDoomed

\* The control plane decides and deletes nothing.
LEMMA DecidingKeepsWhole ==
    ASSUME RetentionTypeOK, WholeOrDoomed, ~ControlDies, UNCHANGED objects,
           ~\E k \in Key, refused \in BOOLEAN :
                DeleteNext(k, refused) \/ EraseNext(k, refused),
           SweepNext \/ SubjectNext \/ UNCHANGED retentionVars
    PROVE  WholeOrDoomed'
<1>1. \A j \in Job : Stored(j, Marker)' => Stored(j, Marker) /\ (Complete(j) => Complete(j)')
  BY DEF Stored, Complete, AsRecorded
<1>2. /\ ~sweep'.refused /\ ~erasure'.refused
      /\ \A j \in Job : Doomed(j) => Doomed(j)'
  <2>1. NoSweep.refused = FALSE /\ NoErasure.refused = FALSE
    BY DEF NoSweep, NoErasure
  <2>2. CASE UNCHANGED retentionVars
    BY <2>2 DEF WholeOrDoomed, Doomed, retentionVars
  <2>3. CASE SweepNext
    <3>1. erasure' = erasure /\ ~SweepDies
      BY <2>3
         DEF SweepNext, StartSweep, ListOutputs, FinishSweep, SweepDies, Classify, Retain,
             Condemn, DeleteNext
    <3>2. sweep.phase # "deleting"
      BY <2>3, <3>1
         DEF SweepNext, StartSweep, ListOutputs, FinishSweep, Classify, Retain, Condemn
    <3>3. ~sweep'.refused
      BY <2>1, <2>3, <3>1
         DEF SweepNext, StartSweep, ListOutputs, FinishSweep, Classify, Retain, Condemn,
             WholeOrDoomed, RetentionTypeOK, Sweep
    <3> QED BY <3>1, <3>2, <3>3 DEF Doomed, WholeOrDoomed
  <2>4. CASE SubjectNext
    <3>1. sweep' = sweep
      BY <2>4 DEF SubjectNext, Describe, StartErasure, EraseNext, ErasureDies
    <3>2. \/ erasure' = erasure
          \/ erasure = NoErasure /\ ~erasure'.refused
      BY <2>1, <2>4 DEF SubjectNext, Describe, StartErasure, ErasureDies, NoErasure
    <3> QED BY <3>1, <3>2 DEF Doomed, WholeOrDoomed
  <2> QED BY <2>2, <2>3, <2>4
<1> QED BY <1>1, <1>2 DEF WholeOrDoomed

LEMMA WholeSteps ==
    ASSUME RivalIInv, QuietIInv \/ Blind, WholeOrDoomed, ~RcatOverwrites, ~ControlDies,
           ~DeletesRefused, [KeptApartStep]_vars
    PROVE  WholeOrDoomed'
<1>1. RetentionTypeOK /\ StoreTypeOK /\ WorkInv
  BY RivalsWork DEF RivalIInv, DurableIInv, BodyInv, CommitTypeOK
<1>2. CASE CommitNext /\ UNCHANGED retentionVars
  <2>1. UNCHANGED objects \/ Grows BY <1>1, <1>2, StepGrows
  <2>2. \A j \in Job : Complete(j) => Complete(j)'
    BY <1>1, <2>1, CompleteStays DEF Complete, Stored, AsRecorded
  <2>3. \A j \in Job : ~Stored(j, Marker) /\ Stored(j, Marker)' => Complete(j)'
    BY <1>1, <1>2, MarkersComplete
  <2> QED BY <1>2, <2>2, <2>3 DEF WholeOrDoomed, Doomed, retentionVars
<1>3. ASSUME NEW k \in Key, NEW refused \in BOOLEAN,
             DeleteNext(k, refused) \/ EraseNext(k, refused), UNCHANGED taskVars
      PROVE  WholeOrDoomed'
  <2>1. ~Blind BY <1>3 DEF Blind, DeleteNext, EraseNext
  <2> QED BY <1>3, <2>1, DeleteKeepsWhole, EraseKeepsWhole
<1>4. ASSUME SweepNext \/ SubjectNext \/ (NextDay /\ UNCHANGED retentionVars),
             ~\E k \in Key, refused \in BOOLEAN :
                  DeleteNext(k, refused) \/ EraseNext(k, refused)
      PROVE  WholeOrDoomed'
  <2>1. /\ SweepNext \/ SubjectNext \/ UNCHANGED retentionVars
        /\ UNCHANGED objects
    BY <1>4
       DEF NextDay, SweepNext, SubjectNext, StartSweep, ListOutputs, FinishSweep,
           SweepDies, Classify, Retain, Condemn, Describe, StartErasure, ErasureDies,
           storeVars
  <2> QED BY <1>1, <1>4, <2>1, DecidingKeepsWhole
<1>5. CASE UNCHANGED vars
  BY <1>1, <1>5
     DEF WholeOrDoomed, Doomed, Stored, Complete, AsRecorded, vars, commitVars, storeVars,
         retentionVars
<1>6. CASE KeptApartStep
  <2>1. \/ CommitNext /\ UNCHANGED retentionVars
        \/ /\ SweepNext \/ SubjectNext \/ (NextDay /\ UNCHANGED retentionVars)
           /\ UNCHANGED taskVars
    BY <1>6 DEF KeptApartStep, Next
  <2> QED BY <1>2, <1>3, <1>4, <2>1
<1> QED BY <1>5, <1>6

\* Under the discipline whoever is told is told of a complete result, for any
\* number of processes that race on a request; and whoever commits it, whatever
\* ruins an interrupted deletion had left (application.py submit, commit.py commit).
THEOREM WhoIsToldIsToldOfAll ==
    ASSUME ~RcatOverwrites
    PROVE  QuietSpec => ToldIsWhole
<1> DEFINE Tells == \A t \in Task :
             outcome'[t] = "returned" /\ outcome[t] # "returned" /\ ~Complete(JobOf[t])
             => pc[t] = "lookup" /\ (ControlDies \/ DeletesRefused)
<1>1. ASSUME RivalIInv, KeptApartStep, WholeOrDoomed \/ ControlDies \/ DeletesRefused,
             NEW t \in Task, outcome'[t] = "returned", outcome[t] # "returned",
             ~Complete(JobOf[t])
      PROVE  pc[t] = "lookup" /\ (ControlDies \/ DeletesRefused)
  <2>1. CommitNext
    BY <1>1 DEF KeptApartStep, Next, taskVars
  <2>2. Stored(JobOf[t], Marker) /\ pc[t] \in {"lookup", "verify", "commit_get"}
    BY <1>1, <2>1, RivalsWork, ToldFoundMarker
  <2>3. CASE pc[t] # "lookup"
    BY <1>1, <2>2, <2>3 DEF RivalIInv, RivalInv
  <2>4. CASE pc[t] = "lookup" /\ WholeOrDoomed
    <3>1. ~Controlling BY <1>1, <2>4 DEF RivalIInv, Quiet
    <3>2. JobOf[t] \in Job BY TaskAssumption
    <3> QED BY <1>1, <2>2, <2>4, <3>1, <3>2 DEF WholeOrDoomed, Doomed, Controlling
  <2> QED BY <1>1, <2>2, <2>3, <2>4
<1>2. RivalIInv /\ (WholeOrDoomed \/ ControlDies \/ DeletesRefused) /\ [KeptApartStep]_vars
        => [Tells]_vars
  BY <1>1
<1>3. ASSUME Init PROVE WholeOrDoomed
  BY <1>3
     DEF Init, CommitInit, StoreInit, RetentionInit, NoSweep, NoErasure, WholeOrDoomed,
         Stored, Key
<1>4. CASE ControlDies \/ DeletesRefused
  BY <1>2, <1>4, RivalInvariant, PTL DEF QuietSpec, KeptApartStep, ToldIsWhole
<1>5. CASE ~ControlDies /\ ~DeletesRefused /\ SeesOutputs
  <2>1. RivalIInv /\ QuietIInv /\ WholeOrDoomed /\ [KeptApartStep]_vars => WholeOrDoomed'
    BY <1>5, WholeSteps
  <2> QED
    BY <1>2, <1>3, <1>5, <2>1, RivalInvariant, QuietInvariant, PTL
       DEF QuietSpec, KeptApartStep, ToldIsWhole
<1>6. CASE ~ControlDies /\ ~DeletesRefused /\ ~SeesOutputs
  <2>1. RivalIInv /\ Blind /\ WholeOrDoomed /\ [KeptApartStep]_vars => WholeOrDoomed'
    BY <1>6, WholeSteps
  <2> QED
    BY <1>2, <1>3, <1>6, <2>1, RivalInvariant, BlindInvariant, PTL
       DEF QuietSpec, KeptApartStep, ToldIsWhole
<1> QED BY <1>4, <1>5, <1>6

=============================================================================
