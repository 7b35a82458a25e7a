------------------------------- MODULE Console -------------------------------
(***************************************************************************)
(* The operator console: a server that answers every HTTP request on a     *)
(* thread of its own and remembers what it submitted in memory, and the    *)
(* page that submits generations, polls them and attaches the video.       *)
(*                                                                         *)
(* The run service and the delivery bucket are external: runs progress,    *)
(* commit and end, and the control plane takes results away, at any time.  *)
(* The server may die and come back, with an empty memory, under a page    *)
(* that stays open.                                                        *)
(***************************************************************************)
EXTENDS Naturals, FiniteSets

CONSTANTS
    Principal,          \* the principals a process may be configured with
    EndpointPrincipal,  \* the one that the workers generate as
    Request,            \* canonical request hashes
    MaxRuns,            \* bound: run ids the provider hands out, in order
    MaxCalls,           \* bound: requests served at a time, each on a thread
    MaxFaults,          \* bound: calls that time out or are refused, lost runs, restarts
    None

\* A digest of the pair, taken as injective, names the job and its marker.
Key == Principal \X Request

Run == 1 .. MaxRuns
Call == 1 .. MaxCalls

\* A handler that answered ok; and a refusal, a crash, a timeout, a cancellation.
Ends == {"completed", "failed"}
ResultState == {"not-found", "in-progress", "failed", "completed", "unreadable"}

ASSUME ConsoleAssumption ==
    /\ EndpointPrincipal \in Principal
    /\ {MaxRuns, MaxCalls, MaxFaults} \subseteq Nat
    /\ None \notin Request /\ None \notin Key /\ None \notin Run
    /\ None \notin ResultState /\ None \notin BOOLEAN

VARIABLES
    run,        \* external: what the provider and the worker made of each run
    bucket,     \* external: what there is of each job's result
    principal,  \* TKR_PRINCIPAL_ID of the console
    records,    \* JobRegistry._records: the run of the latest record of each job
    byRun,      \* JobRegistry._by_run
    call,       \* each thread: what it was asked and what it has seen
    card,       \* the page's state.runs, and what each card shows
    faults      \* calls that have failed so far, lost runs, and restarts

outside == <<run, bucket>>
registry == <<records, byRun>>
consoleVars == <<outside, principal, registry, call, card, faults>>

Calls ==
    [op : {"none", "generate", "observe", "link"},
     at : {"idle", "provider", "register", "state", "manifest", "answer"},
     req : Request \cup {None},     \* the body of a generate
     run : Run \cup {None},
     key : Key \cup {None},         \* the job a lookup is about
     status : {"unknown", "active"} \cup Ends,
     state : ResultState \cup {None}]  \* a link that was signed has "completed"

ConsoleTypeOK ==
    /\ run \in [Run -> [at : {"none", "active", "committed", "lost"} \cup Ends,
                       req : Request \cup {None}]]
    /\ bucket \in [Key -> {"none", "committed", "gone"}]
    /\ principal \in Principal
    /\ records \in [Key -> Run \cup {None}]
    /\ byRun \in [Run -> Key \cup {None}]
    /\ call \in [Call -> Calls]
    /\ card \in [Run -> [timer : BOOLEAN, video : BOOLEAN,
                         shown : {"completed", "unreadable", None}]]
    /\ faults \in 0 .. MaxFaults

NoCall == [op |-> "none", at |-> "idle", req |-> None, run |-> None, key |-> None,
           status |-> "unknown", state |-> None]

NoCard == [timer |-> FALSE, video |-> FALSE, shown |-> None]

ConsoleInit ==
    /\ run = [r \in Run |-> [at |-> "none", req |-> None]]
    /\ bucket = [k \in Key |-> "none"]
    /\ principal \in Principal
    /\ records = [k \in Key |-> None]
    /\ byRun = [r \in Run |-> None]
    /\ call = [c \in Call |-> NoCall]
    /\ card = [r \in Run |-> NoCard]
    /\ faults = 0

\* derive_identity
Identity(p, q) == <<p, q>>

Busy(c, op, at) == call[c].op = op /\ call[c].at = at

Answer(c, new) == call' = [call EXCEPT ![c] = [new EXCEPT !.at = "answer"]]

Fault == faults < MaxFaults /\ faults' = faults + 1

-----------------------------------------------------------------------------
(* The run service, the worker, the control plane *)

\* The worker derives the job by itself: application._job_identity.
RunKey(r) == <<EndpointPrincipal, run[r].req>>

Marked(k) == bucket[k] = "committed"

Removed(k) == bucket[k] = "gone"

\* A worker commits once, or replays what an earlier run has committed; nothing
\* stops that of a lost run.  Bound: a result that was removed is not made again.
RunCommits(r) ==
    /\ run[r].at \in {"active", "lost"}
    /\ ~Removed(RunKey(r))
    /\ run' = [run EXCEPT ![r].at = IF @ = "active" THEN "committed" ELSE @]
    /\ bucket' = [bucket EXCEPT ![RunKey(r)] = "committed"]
    /\ UNCHANGED <<principal, registry, call, card, faults>>

\* An answer follows the commit.  A refusal, a crash, a timeout or a cancellation
\* may come at any time: the worker can fail after its marker has landed.
RunEnds(r, end) ==
    /\ run[r].at \in {"active", "committed"}
    /\ end = "completed" => run[r].at = "committed"
    /\ run' = [run EXCEPT ![r].at = end]
    /\ UNCHANGED <<bucket, principal, registry, call, card, faults>>

\* The provider reports a run as cancelled, timed out or failed, and its worker is
\* at work all the same.
Lose(r) ==
    /\ Fault
    /\ run[r].at = "active"
    /\ run' = [run EXCEPT ![r].at = "lost"]

RunIsLost(r) == Lose(r) /\ UNCHANGED <<bucket, principal, registry, call, card>>

\* Retention and erasure.
ResultGoes(k) ==
    /\ Marked(k)
    /\ bucket' = [bucket EXCEPT ![k] = "gone"]
    /\ UNCHANGED <<run, principal, registry, call, card, faults>>

Outside ==
    \/ \E r \in Run : RunCommits(r) \/ RunIsLost(r) \/ \E end \in Ends : RunEnds(r, end)
    \/ \E k \in Key : ResultGoes(k)

-----------------------------------------------------------------------------
(* ConsoleService, on a thread per request *)

\* Threads have no identity: the first one that is free will do.
Free(c) == call[c].op = "none" /\ \A d \in Call : d < c => call[d].op # "none"

Start(c, new) ==
    /\ Free(c)
    /\ call' = [call EXCEPT ![c] = new]
    /\ UNCHANGED <<outside, principal, registry, card, faults>>

\* A preflight has found nothing to refuse.
BeginGenerate(c, q) ==
    /\ Cardinality({d \in Call : Busy(d, "generate", "provider")})
           < Cardinality({r \in Run : run[r].at = "none"})
    /\ Start(c, [NoCall EXCEPT !.op = "generate", !.at = "provider", !.req = q])

\* by_run, before the first await: a run that this session did not submit is
\* observed without a job.
Observation(r) ==
    [NoCall EXCEPT !.op = "observe", !.at = "provider", !.run = r, !.key = byRun[r]]

\* The timer of a card fires, whether or not an earlier poll is still out.
Poll(c, r) == card[r].timer /\ Start(c, Observation(r))

\* The authorizer and the repository both ask the registry.
Known(k) == k # None /\ records[k] # None

\* Anyone on the loopback may ask for the link of any job id.
BeginLink(c, k) ==
    /\ \A d \in Call : ~(call[d].op = "link" /\ call[d].run = None)  \* bound: one at a time
    /\ Start(c, [NoCall EXCEPT !.op = "link", !.at = "state", !.key = k])

\* The provider takes the submission; its answer may still be lost.
SubmitRun(c, r) ==
    /\ Busy(c, "generate", "provider")
    /\ run[r].at = "none" /\ \A earlier \in 1 .. r - 1 : run[earlier].at # "none"
    /\ run' = [run EXCEPT ![r] = [at |-> "active", req |-> call[c].req]]
    /\ \/ call' = [call EXCEPT ![c].at = "register", ![c].run = r] /\ UNCHANGED faults
       \/ Fault /\ call' = [call EXCEPT ![c] = NoCall]
    /\ UNCHANGED <<bucket, principal, registry, card>>

\* The provider refuses, pauses or times out; the page says so and goes on.
ProviderFails(c) ==
    /\ call[c].at = "provider"
    /\ Fault
    /\ call' = [call EXCEPT ![c] = NoCall]
    /\ UNCHANGED <<outside, principal, registry, card>>

\* trackRun, once the answer is there: a card, its timer and a first poll.
PageTracks(c, r) ==
    /\ card' = [card EXCEPT ![r] = [NoCard EXCEPT !.timer = TRUE]]
    /\ call' = [call EXCEPT ![c] = [NoCall EXCEPT !.op = "observe", !.at = "provider",
                                                  !.run = r, !.key = byRun'[r]]]

\* Mutant: only the first run of a job is indexed.
RegisterFirstRunOnly(c) ==
    LET k == Identity(principal, call[c].req)
        r == call[c].run
    IN
    /\ Busy(c, "generate", "register")
    /\ records' = [records EXCEPT ![k] = IF @ = None THEN r ELSE @]
    /\ byRun' = [byRun EXCEPT ![r] = IF records[k] = None THEN k ELSE None]
    /\ PageTracks(c, r)
    /\ UNCHANGED <<outside, principal, faults>>

\* JobRegistry.register, under its lock: the record of an earlier run of the same
\* request is replaced, and that run now leads to this one.
Register(c) ==
    LET k == Identity(principal, call[c].req)
        r == call[c].run
    IN
    /\ Busy(c, "generate", "register")
    /\ records' = [records EXCEPT ![k] = r]
    /\ byRun' = [byRun EXCEPT ![r] = k]
    /\ PageTracks(c, r)
    /\ UNCHANGED <<outside, principal, faults>>

\* The status of a run, which knows neither markers nor workers.
Seen(r) ==
    CASE run[r].at = "committed" -> "active"
      [] run[r].at = "lost" -> "failed"
      [] OTHER -> run[r].at

\* RunClient.status, then on to the bucket unless no job belongs to the run.
AskStatus(c) ==
    LET new == [call[c] EXCEPT !.status = Seen(call[c].run)] IN
    /\ Busy(c, "observe", "provider")
    /\ IF call[c].key = None THEN Answer(c, new)
       ELSE call' = [call EXCEPT ![c] = [new EXCEPT !.at = "state"]]
    /\ UNCHANGED <<outside, principal, registry, card, faults>>

\* A cancellation ends a run that has not ended, or not its worker, or does not
\* reach it; and the page polls at once.
CancelRun(c, r) ==
    /\ card[r].timer
    /\ Free(c)
    /\ \/ /\ run' = [run EXCEPT ![r].at = IF Seen(r) \in Ends THEN @ ELSE "failed"]
          /\ UNCHANGED faults
       \/ Lose(r)
       \/ Fault /\ UNCHANGED run
    /\ call' = [call EXCEPT ![c] = Observation(r)]
    /\ UNCHANGED <<bucket, principal, registry, card>>

\* Mutant: what the provider said is shown before what the bucket holds.
OverlayStatusFirst(status, state) ==
    IF status = "failed" THEN "failed" ELSE state

\* _result_state: a result outlives the run that committed it; a run that ended
\* without one is failed rather than in progress for ever.
Overlay(status, state) ==
    IF state # "completed" /\ status = "failed" THEN "failed" ELSE state

\* PrivateResultService.lookup, first await: the marker decides the state.
ReadState(c) ==
    LET k == call[c].key
        state == IF ~Known(k) THEN "not-found"
                 ELSE IF Marked(k) THEN "completed" ELSE "in-progress"
    IN
    /\ call[c].at = "state"
    /\ IF state = "completed" THEN call' = [call EXCEPT ![c].at = "manifest", ![c].state = state]
       ELSE Answer(c, [call[c] EXCEPT !.state = Overlay(call[c].status, state)])
    /\ UNCHANGED <<outside, principal, registry, card, faults>>

\* Second await: the marker is read again for its manifest.  It may be gone by
\* now, and then the state is answered without one.  A link is signed for the
\* video that the manifest names, without a look at the video.
ReadManifest(c) ==
    /\ call[c].at = "manifest"
    /\ Answer(c, [call[c] EXCEPT !.state = IF call[c].op = "link" /\ ~Marked(call[c].key)
                                          THEN None ELSE Overlay(call[c].status, @)])
    /\ UNCHANGED <<outside, principal, registry, card, faults>>

\* A marker that cannot be read degrades an observation and refuses a link.
ReadFails(c) ==
    /\ call[c].at \in {"state", "manifest"}
    /\ Fault
    /\ Answer(c, [call[c] EXCEPT !.state = "unreadable"])
    /\ UNCHANGED <<outside, principal, registry, card>>

\* _identity_matches: the answer of an accepted request carries the worker's job.
IdentityMatches(c) ==
    IF call[c].status # "completed" THEN None
    ELSE RunKey(call[c].run) = call[c].key

-----------------------------------------------------------------------------
(* app.js *)

\* The job of the record that came back with the submission.
CardKey(r) == Identity(principal, run[r].req)

\* finished: no more polls once the run is terminal and its result is not awaited.
StopsTimer(c) == call[c].status \in Ends /\ call[c].state # "in-progress"

Shown(state) == IF state \in {"completed", "unreadable"} THEN state ELSE None

AfterPoll(c, r) ==
    /\ card' = [card EXCEPT ![r].timer = @ /\ ~StopsTimer(c), ![r].shown = Shown(call[c].state)]
    /\ call' = [call EXCEPT ![c] = NoCall]

\* renderRun shows whatever this poll was told, even if a later poll was answered
\* earlier; a completed result asks for a link, still as part of the poll.
PageHears(c) ==
    LET r == call[c].run IN
    /\ Busy(c, "observe", "answer")
    /\ IF call[c].state = "completed" /\ ~card[r].video
       THEN /\ card' = [card EXCEPT ![r].shown = "completed"]
            /\ call' = [call EXCEPT ![c].op = "link", ![c].at = "state", ![c].key = CardKey(r)]
       ELSE AfterPoll(c, r)
    /\ UNCHANGED <<outside, principal, registry, faults>>

\* attachDelivery: the link plays in the card, or is quietly given up.  A link
\* that somebody else asked for has no card.
PageAttaches(c) ==
    LET r == call[c].run IN
    /\ Busy(c, "link", "answer")
    /\ card' = IF r = None THEN card
               ELSE [card EXCEPT ![r].video = @ \/ call[c].state = "completed",
                                 ![r].timer = @ /\ call[c].status \notin Ends]
    /\ call' = [call EXCEPT ![c] = NoCall]
    /\ UNCHANGED <<outside, principal, registry, faults>>

CallStep(c) ==
    \/ \E r \in Run : SubmitRun(c, r)
    \/ Register(c) \/ AskStatus(c) \/ ReadState(c) \/ ReadManifest(c)
    \/ PageHears(c) \/ PageAttaches(c)

CallBegins(c) ==
    \/ \E q \in Request : BeginGenerate(c, q)
    \/ \E r \in Run : Poll(c, r) \/ CancelRun(c, r)
    \/ \E k \in Key : BeginLink(c, k)

CallFails(c) == ProviderFails(c) \/ ReadFails(c)

\* The server dies with its registry and every call it serves, and starts again.
\* The open page goes on: a poll that found nobody says so and is tried again,
\* but one that was after a link ends like any other.
Restart ==
    /\ Fault
    /\ records' = [k \in Key |-> None]
    /\ byRun' = [r \in Run |-> None]
    /\ call' = [c \in Call |-> NoCall]
    /\ card' = [r \in Run |-> [card[r] EXCEPT !.timer = @ /\ ~\E c \in Call :
                    call[c].op = "link" /\ call[c].run = r /\ call[c].status \in Ends]]
    /\ UNCHANGED <<outside, principal>>

ConsoleNext ==
    \/ Outside
    \/ Restart
    \/ \E c \in Call : CallBegins(c) \/ CallStep(c) \/ CallFails(c)

\* Every call has a deadline, and a timer that is set keeps firing, on a new
\* thread if need be.  Faults end because their number is bounded.
ConsoleFair ==
    /\ \A c \in Call : WF_consoleVars(CallStep(c))
    /\ \A r \in Run : SF_consoleVars(\E c \in Call : Poll(c, r))

ConsoleSpec == ConsoleInit /\ [][ConsoleNext]_consoleVars /\ ConsoleFair

-----------------------------------------------------------------------------
(* Properties *)

\* An observation of a run whose handler answered ok says completed, unless the
\* control plane took the result or the principals differ: the console and the
\* worker derive one key, and the provider is asked before the bucket
\* (results.py:32-51, service.py:113-143).
SuccessIsSeen ==
    \A c \in Call :
        /\ Busy(c, "observe", "answer")
        /\ call[c].status = "completed" /\ call[c].key # None
        /\ principal = EndpointPrincipal
        => call[c].state \in {"completed", "unreadable"} \/ Removed(call[c].key)

\* An observation that says failed is final: what is or will be committed for its
\* job comes from another run of the same request, or from a worker that went on
\* after the provider had given its run up (service.py:226-240).
FailureIsFinal ==
    \A c \in Call :
        Busy(c, "observe", "answer") /\ call[c].state = "failed" =>
            \/ ~Marked(call[c].key) /\ run[call[c].run].at \in Ends
            \/ run[call[c].run].at = "lost"
            \/ \E r \in Run \ {call[c].run} : run[r].req = run[call[c].run].req

\* With the wrong principal nothing is ever seen as completed, and the first
\* accepted run tells why; with the right one the page is never misled into that
\* diagnosis (service.py:268-279).
MismatchIsNamed ==
    \A c \in Call :
        Busy(c, "observe", "answer") /\ call[c].key # None =>
            IF principal = EndpointPrincipal THEN IdentityMatches(c) # FALSE
            ELSE /\ call[c].state # "completed"
                 /\ call[c].status = "completed" => IdentityMatches(c) = FALSE

\* Why: results are of the endpoint's principal, and outlive the runs that made
\* them; what the registry knows was derived from the request of a run.
WorkersCommit ==
    /\ \A k \in Key : bucket[k] # "none" => k[1] = EndpointPrincipal
    /\ \A r \in Run :
        /\ run[r].at = "none" <=> run[r].req = None
        /\ run[r].at \in {"committed", "completed"} => bucket[RunKey(r)] # "none"

RegistryIsDerived ==
    \A r \in Run :
        /\ card[r].timer => run[r].at # "none"
        /\ byRun[r] # None =>
            run[r].at # "none" /\ byRun[r] = CardKey(r) /\ records[byRun[r]] # None

\* What a thread holds is old, and was true: of its run, its job and its result.
CallIsFaithful(c) ==
    LET r == call[c].run
        k == call[c].key
        at == call[c].at
    IN
    /\ call[c].op = "none" => at = "idle"
    /\ call[c].op = "generate" =>
        /\ at \in {"provider", "register"} /\ call[c].req \in Request
        /\ at = "register" =>
            r \in Run /\ run[r].at # "none" /\ run[r].req = call[c].req
    /\ call[c].op = "observe" =>
        /\ at \in {"provider", "state", "manifest", "answer"}
        /\ r \in Run /\ run[r].at # "none"
        /\ k # None => k = CardKey(r) /\ records[k] # None
        /\ call[c].status \in Ends => Seen(r) = call[c].status
    /\ call[c].op = "link" => at \in {"state", "manifest", "answer"}
    /\ at \in {"state", "manifest"} \/ call[c].state # None => k \in Key
    /\ at = "manifest" => call[c].state = "completed"
    /\ at \in {"manifest", "answer"} /\ call[c].state = "completed" =>
        records[k] # None /\ bucket[k] # "none"

\* What the console may answer about a run, all of it, and why.
AnswersAreTrue ==
    /\ ConsoleTypeOK
    /\ SuccessIsSeen /\ FailureIsFinal /\ MismatchIsNamed
    /\ WorkersCommit /\ RegistryIsDerived /\ \A c \in Call : CallIsFaithful(c)

\* As long as no call has failed and the server has lived, a card that is polled no
\* more has its video when its run was accepted, unless the control plane took the
\* result: also with polls that overlap, a poll that was told less than an earlier
\* one, and a request submitted twice (app.js pollRun and attachDelivery).
RestingCardsPlay ==
    \A r \in Run :
        /\ faults = 0 /\ principal = EndpointPrincipal
        /\ run[r].at = "completed" /\ ~card[r].timer
        => \/ card[r].video \/ Removed(CardKey(r))
           \/ \E c \in Call : Busy(c, "generate", "register") /\ call[c].run = r

\* The run belongs to an earlier session: run ids are handed out in order.
Forgotten(r) == \A x \in Run : byRun[x] # None => r < x

Taken(r) == byRun[r] # None /\ Removed(CardKey(r))

\* A card that is polled when its run has committed and no link is asked for
\* comes to say so, or that the bucket could not be read, as long as the result
\* stays and the console has not forgotten the run: also when its job was
\* submitted twice, and when the first submission was to a console that has died
\* since (app.js pollRun, results.py:11-15, 126-128).
CommittedIsTold ==
    \A r \in Run :
        /\ card[r].timer /\ principal = EndpointPrincipal
        /\ run[r].at \in {"committed", "completed"}
        /\ \A c \in Call : ~(call[c].op = "link" /\ call[c].run = r)
        ~> \/ card[r].shown \in {"completed", "unreadable"}
           \/ Taken(r) \/ Forgotten(r)

=============================================================================
