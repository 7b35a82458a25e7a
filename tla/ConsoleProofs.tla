---------------------------- MODULE ConsoleProofs ----------------------------
(***************************************************************************)
(* AnswersAreTrue is inductive: for any principals and requests, any       *)
(* number of runs, threads and faults, and restarts of the console under   *)
(* an open page, what the console answers about a run was true.            *)
(* RestingCardsPlay follows from what the calls and the cards of a console *)
(* know about their runs while nothing has failed.                         *)
(***************************************************************************)
EXTENDS Console, TLAPS

\* What AnswersAreTrue says of one thread, the mismatch left out.
Sound(c) ==
    /\ CallIsFaithful(c)
    /\ /\ Busy(c, "observe", "answer")
       /\ call[c].status = "completed" /\ call[c].key # None
       /\ principal = EndpointPrincipal
       => call[c].state \in {"completed", "unreadable"} \/ Removed(call[c].key)
    /\ Busy(c, "observe", "answer") /\ call[c].state = "failed" =>
           \/ ~Marked(call[c].key) /\ run[call[c].run].at \in Ends
           \/ run[call[c].run].at = "lost"
           \/ \E r \in Run \ {call[c].run} : run[r].req = run[call[c].run].req

ConsoleInv ==
    /\ ConsoleTypeOK /\ WorkersCommit /\ RegistryIsDerived
    /\ \A c \in Call : Sound(c)

\* The world goes on, and the console remembers what it knows: what threads hold
\* stays as true as it is.
Onward ==
    /\ principal' = principal
    /\ \A r \in Run :
        /\ run[r].at # "none" => run'[r].at # "none" /\ run'[r].req = run[r].req
        /\ run[r].at \in Ends \cup {"lost"} => run'[r].at = run[r].at
    /\ \A k \in Key :
        /\ records[k] # None => records'[k] # None
        /\ bucket[k] # "none" => bucket'[k] # "none"
        /\ bucket[k] = "gone" => bucket'[k] = "gone"
        /\ bucket'[k] = "committed" => \/ bucket[k] = "committed"
                                       \/ \E r \in Run : /\ run[r].at \in {"active", "lost"}
                                                        /\ RunKey(r) = k

\* The mismatch of principals follows: a result is of the endpoint's principal.
LEMMA SoundIsTrue == ConsoleInv => AnswersAreTrue
<1> SUFFICES ASSUME ConsoleInv PROVE AnswersAreTrue
  OBVIOUS
<1>1. SuccessIsSeen /\ FailureIsFinal /\ \A c \in Call : CallIsFaithful(c)
  BY DEF ConsoleInv, Sound, SuccessIsSeen, FailureIsFinal
<1>2. ASSUME NEW c \in Call, Busy(c, "observe", "answer"), call[c].key # None
      PROVE  IF principal = EndpointPrincipal THEN IdentityMatches(c) # FALSE
             ELSE /\ call[c].state # "completed"
                  /\ call[c].status = "completed" => IdentityMatches(c) = FALSE
  <2>1. /\ call[c].run \in Run /\ call[c].key = <<principal, run[call[c].run].req>>
        /\ call[c].state = "completed" => call[c].key \in Key /\ bucket[call[c].key] # "none"
    BY <1>1, <1>2, ConsoleAssumption
       DEF CallIsFaithful, Busy, CardKey, Identity, ResultState
  <2>2. call[c].state = "completed" => call[c].key[1] = EndpointPrincipal
    BY <2>1 DEF ConsoleInv, WorkersCommit
  <2>3. call[c].state = "completed" => principal = EndpointPrincipal
    BY <2>1, <2>2
  <2>4. RunKey(call[c].run) = call[c].key <=> principal = EndpointPrincipal
    BY <2>1 DEF RunKey
  <2>5. None # FALSE BY ConsoleAssumption
  <2> QED BY <2>3, <2>4, <2>5 DEF IdentityMatches
<1> QED BY <1>1, <1>2 DEF ConsoleInv, AnswersAreTrue, MismatchIsNamed

\* A thread that nobody touches.
LEMMA CallStays ==
    ASSUME ConsoleInv, Onward, NEW c \in Call, call'[c] = call[c]
    PROVE  Sound(c)'
<1> DEFINE r == call[c].run
           k == call[c].key
<1>1. CallIsFaithful(c) BY DEF ConsoleInv, Sound
<1>0. k \in Key \cup {None}
  BY DEF ConsoleInv, ConsoleTypeOK, Calls
<1>2. CallIsFaithful(c)'
  <2>1. k # None => k \in Key BY <1>0
  <2>2. call[c].op = "observe" /\ k # None => k = CardKey(r)' /\ records'[k] # None
    BY <1>1, <2>1 DEF CallIsFaithful, Onward, CardKey, Identity
  <2>3. call[c].op = "observe" => 
          /\ run'[r].at # "none"
          /\ call[c].status \in Ends => Seen(r)' = call[c].status
    BY <1>1 DEF CallIsFaithful, Onward, Seen, Ends
  <2>4. call[c].op = "generate" /\ call[c].at = "register" =>
          run'[r].at # "none" /\ run'[r].req = call[c].req
    BY <1>1 DEF CallIsFaithful, Onward
  <2>5. call[c].at \in {"manifest", "answer"} /\ call[c].state = "completed" =>
          records'[k] # None /\ bucket'[k] # "none"
    BY <1>1, ConsoleAssumption DEF CallIsFaithful, Onward, ResultState
  <2> QED BY <1>1, <2>2, <2>3, <2>4, <2>5 DEF CallIsFaithful
<1>3. ASSUME Busy(c, "observe", "answer"), call[c].state = "failed"
      PROVE  \/ ~Marked(k)' /\ run'[r].at \in Ends
             \/ run'[r].at = "lost"
             \/ \E x \in Run \ {r} : run'[x].req = run'[r].req
  <2>1. /\ r \in Run /\ run[r].at # "none"
        /\ k \in Key /\ k = <<principal, run[r].req>>
    <3>1. call[c].op = "observe" /\ "failed" # None
      BY <1>3, ConsoleAssumption DEF Busy, ResultState
    <3>2. k \in Key BY <1>1, <1>3, <3>1 DEF CallIsFaithful
    <3>3. k # None BY <3>2, ConsoleAssumption
    <3> QED BY <1>1, <3>1, <3>2, <3>3 DEF CallIsFaithful, CardKey, Identity
  <2>2. ASSUME NEW x \in Run \ {r}, run[x].req = run[r].req
        PROVE  run'[x].req = run'[r].req
    <3>1. run[x].at # "none" BY <2>1, <2>2 DEF ConsoleInv, WorkersCommit
    <3> QED BY <2>1, <2>2, <3>1 DEF Onward
  <2>3. ASSUME run[r].at \in Ends, ~Marked(k), Marked(k)'
        PROVE  \E x \in Run \ {r} : run[x].req = run[r].req
    <3>1. PICK x \in Run : run[x].at \in {"active", "lost"} /\ RunKey(x) = k
      BY <2>1, <2>3 DEF Onward, Marked
    <3> QED BY <2>1, <2>3, <3>1 DEF RunKey, Ends
  <2>4. /\ run[r].at \in Ends => run'[r].at \in Ends
        /\ run[r].at = "lost" => run'[r].at = "lost"
    BY <2>1 DEF Onward
  <2>5. \/ ~Marked(k) /\ run[r].at \in Ends
        \/ run[r].at = "lost"
        \/ \E x \in Run \ {r} : run[x].req = run[r].req
    BY <1>3 DEF ConsoleInv, Sound
  <2> QED BY <2>2, <2>3, <2>4, <2>5
<1>4. ASSUME Busy(c, "observe", "answer"), call[c].status = "completed", k # None,
             principal = EndpointPrincipal
      PROVE  call[c].state \in {"completed", "unreadable"} \/ Removed(k)'
  <2>1. k \in Key BY <1>0, <1>4
  <2> QED BY <1>4, <2>1 DEF ConsoleInv, Sound, Removed, Onward
<1>5. principal' = principal BY DEF Onward
<1> QED BY <1>2, <1>3, <1>4, <1>5 DEF Sound, Busy, Marked, Removed

\* A thread that serves nothing, or has just begun to observe a run.
LEMMA IdleIsSound ==
    ASSUME NEW c \in Call, call'[c] = NoCall
    PROVE  Sound(c)' /\ call'[c] \in Calls
<1>1. NoCall.state = None /\ NoCall.at = "idle" /\ NoCall.op = "none"
  BY DEF NoCall
<1> QED BY <1>1, ConsoleAssumption DEF Sound, CallIsFaithful, Busy, NoCall, Calls, ResultState

LEMMA ObservationIsSound ==
    ASSUME ConsoleTypeOK', RegistryIsDerived', NEW c \in Call, NEW r \in Run,
           run'[r].at # "none",
           call'[c] = [NoCall EXCEPT !.op = "observe", !.at = "provider", !.run = r,
                                     !.key = byRun'[r]]
    PROVE  Sound(c)'
<1>1. /\ call'[c].op = "observe" /\ call'[c].at = "provider" /\ call'[c].run = r
      /\ call'[c].key = byRun'[r] /\ call'[c].state = None /\ call'[c].status = "unknown"
  BY DEF NoCall
<1>2. CardKey(r)' = Identity(principal', run'[r].req) BY DEF CardKey, Identity
<1>3. byRun'[r] # None => byRun'[r] = CardKey(r)' /\ records'[byRun'[r]] # None
  BY DEF RegistryIsDerived
<1>4. CallIsFaithful(c)'
  BY <1>1, <1>2, <1>3 DEF CallIsFaithful, CardKey, Ends
<1> QED BY <1>1, <1>4 DEF Sound, Busy

\* A step of one thread.
LEMMA OneMoves ==
    ASSUME ConsoleInv, Onward, NEW c \in Call, NEW new, call' = [call EXCEPT ![c] = new],
           ConsoleTypeOK', WorkersCommit', RegistryIsDerived', Sound(c)'
    PROVE  ConsoleInv'
<1>1. call \in [Call -> Calls] BY DEF ConsoleInv, ConsoleTypeOK
<1>2. ASSUME NEW d \in Call PROVE Sound(d)'
  <2>1. CASE d = c BY <2>1
  <2>2. CASE d # c
    <3>1. call'[d] = call[d] BY <1>1, <2>2
    <3> QED BY <3>1, CallStays
  <2> QED BY <2>1, <2>2
<1> QED BY <1>2 DEF ConsoleInv

LEMMA NothingMoves ==
    ASSUME ConsoleInv, UNCHANGED <<run, bucket, principal, records>>
    PROVE  Onward /\ WorkersCommit'
<1>1. Onward BY DEF Onward, ConsoleInv, WorkersCommit
<1>2. WorkersCommit' BY DEF ConsoleInv, WorkersCommit, RunKey
<1> QED BY <1>1, <1>2

\* The registry and the cards stay as they are.
LEMMA RegistryStays ==
    ASSUME ConsoleInv, Onward, UNCHANGED <<byRun, records>>,
           \A r \in Run : card'[r].timer => card[r].timer
    PROVE  RegistryIsDerived'
<1>1. ASSUME NEW r \in Run, byRun[r] # None
      PROVE  run'[r].at # "none" /\ byRun[r] = CardKey(r)' /\ records[byRun[r]] # None
  BY <1>1 DEF ConsoleInv, RegistryIsDerived, Onward, CardKey, Identity
<1>2. ASSUME NEW r \in Run, card'[r].timer PROVE run'[r].at # "none"
  BY <1>2 DEF ConsoleInv, RegistryIsDerived, Onward
<1> QED BY <1>1, <1>2 DEF RegistryIsDerived

-----------------------------------------------------------------------------
(* One lemma per step *)

LEMMA ConsoleStartsWell == ASSUME ConsoleInit PROVE ConsoleInv
<1>1. ConsoleTypeOK
  <2>1. NoCall \in Calls BY DEF NoCall, Calls
  <2> QED BY <2>1, ConsoleAssumption DEF ConsoleInit, ConsoleTypeOK, NoCard
<1>2. WorkersCommit BY DEF ConsoleInit, WorkersCommit
<1>3. RegistryIsDerived BY DEF ConsoleInit, RegistryIsDerived, NoCard
<1>4. ASSUME NEW c \in Call PROVE Sound(c)
  <2>1. call[c] = NoCall BY DEF ConsoleInit
  <2>2. NoCall.state = None /\ NoCall.at = "idle" /\ NoCall.op = "none" BY DEF NoCall
  <2> QED BY <2>1, <2>2, ConsoleAssumption DEF Sound, CallIsFaithful, Busy, ResultState
<1> QED BY <1>1, <1>2, <1>3, <1>4 DEF ConsoleInv

\* What a run, or the control plane, does to the world.
LEMMA WorldKeeps ==
    ASSUME ConsoleInv, Onward, ConsoleTypeOK', WorkersCommit',
           UNCHANGED <<principal, registry, call, card>>
    PROVE  ConsoleInv'
<1>1. RegistryIsDerived' BY RegistryStays DEF registry
<1>2. \A c \in Call : Sound(c)' BY CallStays
<1> QED BY <1>1, <1>2 DEF ConsoleInv

LEMMA RunCommitsKeeps ==
    ASSUME ConsoleInv, NEW r \in Run, RunCommits(r) PROVE ConsoleInv' /\ Onward
<1> DEFINE k == RunKey(r)
<1>0. PICK to \in {"committed", "lost"} : to = IF run[r].at = "active" THEN "committed" ELSE "lost"
  OBVIOUS
<1>1. /\ ConsoleTypeOK /\ WorkersCommit
      /\ run[r].at \in {"active", "lost"} /\ bucket[k] # "gone"
      /\ run' = [run EXCEPT ![r].at = to]
      /\ bucket' = [bucket EXCEPT ![k] = "committed"]
      /\ UNCHANGED <<principal, registry, call, card, faults>>
  BY <1>0 DEF ConsoleInv, RunCommits, Removed
<1>2. run[r].req \in Request /\ k \in Key /\ k[1] = EndpointPrincipal
  BY <1>1, ConsoleAssumption DEF ConsoleTypeOK, WorkersCommit, RunKey, Key
<1>3. \A x \in Run : /\ run'[x].req = run[x].req
                     /\ run'[x].at = IF x = r THEN to ELSE run[x].at
  BY <1>1 DEF ConsoleTypeOK
<1>4. \A h \in Key : bucket'[h] = IF h = k THEN "committed" ELSE bucket[h]
  BY <1>1 DEF ConsoleTypeOK
<1>5. Onward
  BY <1>0, <1>1, <1>2, <1>3, <1>4 DEF Onward, Ends, registry
<1>6. ConsoleTypeOK'
  BY <1>1 DEF ConsoleTypeOK, registry
<1>7. WorkersCommit'
  <2>1. \A x \in Run : RunKey(x)' = RunKey(x) BY <1>3 DEF RunKey
  <2>2. \A x \in Run : run[x].at # "none" => RunKey(x) \in Key
    BY <1>1, ConsoleAssumption DEF ConsoleTypeOK, WorkersCommit, RunKey, Key
  <2> HIDE DEF k
  <2> QED BY <1>1, <1>2, <1>3, <1>4, <2>1, <2>2 DEF WorkersCommit, k
<1> QED BY <1>1, <1>5, <1>6, <1>7, WorldKeeps

LEMMA RunEndsKeeps ==
    ASSUME ConsoleInv, NEW r \in Run, NEW end \in Ends, RunEnds(r, end)
    PROVE  ConsoleInv' /\ Onward
<1>1. /\ ConsoleTypeOK /\ WorkersCommit
      /\ run[r].at \in {"active", "committed"} /\ end \in {"completed", "failed"}
      /\ end = "completed" => run[r].at = "committed"
      /\ run' = [run EXCEPT ![r].at = end]
      /\ UNCHANGED <<bucket, principal, registry, call, card, faults>>
  BY DEF ConsoleInv, RunEnds, Ends
<1>2. \A x \in Run : /\ run'[x].req = run[x].req
                     /\ run'[x].at = IF x = r THEN end ELSE run[x].at
  BY <1>1 DEF ConsoleTypeOK
<1>3. Onward BY <1>1, <1>2 DEF Onward, Ends, registry
<1>4. ConsoleTypeOK' BY <1>1 DEF ConsoleTypeOK, registry, Ends
<1>5. WorkersCommit' BY <1>1, <1>2 DEF WorkersCommit, RunKey
<1> QED BY <1>1, <1>3, <1>4, <1>5, WorldKeeps

LEMMA LoseKeeps ==
    ASSUME ConsoleInv, NEW r \in Run, Lose(r)
    PROVE  /\ run[r].at = "active" /\ run' = [run EXCEPT ![r].at = "lost"]
           /\ faults' \in 0 .. MaxFaults
  BY ConsoleAssumption DEF ConsoleInv, ConsoleTypeOK, Lose, Fault

LEMMA RunIsLostKeeps ==
    ASSUME ConsoleInv, NEW r \in Run, RunIsLost(r) PROVE ConsoleInv'
<1>1. /\ ConsoleTypeOK /\ WorkersCommit
      /\ run[r].at = "active" /\ run' = [run EXCEPT ![r].at = "lost"]
      /\ faults' \in 0 .. MaxFaults
      /\ UNCHANGED <<bucket, principal, registry, call, card>>
  BY LoseKeeps DEF ConsoleInv, RunIsLost
<1>2. \A x \in Run : /\ run'[x].req = run[x].req
                     /\ run'[x].at = IF x = r THEN "lost" ELSE run[x].at
  BY <1>1 DEF ConsoleTypeOK
<1>3. Onward BY <1>1, <1>2 DEF Onward, Ends, registry
<1>4. ConsoleTypeOK' BY <1>1 DEF ConsoleTypeOK, registry
<1>5. WorkersCommit' BY <1>1, <1>2 DEF WorkersCommit, RunKey
<1> QED BY <1>1, <1>3, <1>4, <1>5, WorldKeeps

LEMMA ResultGoesKeeps ==
    ASSUME ConsoleInv, NEW k \in Key, ResultGoes(k) PROVE ConsoleInv' /\ Onward
<1>1. /\ ConsoleTypeOK /\ WorkersCommit /\ bucket[k] = "committed"
      /\ bucket' = [bucket EXCEPT ![k] = "gone"]
      /\ UNCHANGED <<run, principal, registry, call, card, faults>>
  BY DEF ConsoleInv, ResultGoes, Marked
<1>2. \A h \in Key : bucket'[h] = IF h = k THEN "gone" ELSE bucket[h]
  BY <1>1 DEF ConsoleTypeOK
<1>3. Onward BY <1>1, <1>2 DEF Onward, registry
<1>4. ConsoleTypeOK' BY <1>1 DEF ConsoleTypeOK, registry
<1>5. \A x \in Run : run[x].at # "none" => RunKey(x) \in Key
  BY <1>1, ConsoleAssumption DEF ConsoleTypeOK, WorkersCommit, RunKey, Key
<1>6. WorkersCommit' BY <1>1, <1>2, <1>5 DEF WorkersCommit, RunKey
<1> QED BY <1>1, <1>3, <1>4, <1>6, WorldKeeps

\* A new session knows nothing, and serves nobody yet.
LEMMA RestartKeeps == ASSUME ConsoleInv, Restart PROVE ConsoleInv'
<1>1. /\ ConsoleTypeOK /\ WorkersCommit
      /\ records' = [k \in Key |-> None] /\ byRun' = [r \in Run |-> None]
      /\ call' = [c \in Call |-> NoCall]
      /\ UNCHANGED <<run, bucket, principal>>
      /\ faults < MaxFaults /\ faults' = faults + 1
  BY DEF ConsoleInv, Restart, Fault, outside
<1>2. \A r \in Run : /\ card'[r].timer \in BOOLEAN
                     /\ card'[r].timer => card[r].timer
                     /\ card'[r] = [card[r] EXCEPT !.timer = card'[r].timer]
  <2> SUFFICES ASSUME NEW r \in Run
               PROVE  /\ card'[r].timer \in BOOLEAN
                      /\ card'[r].timer => card[r].timer
                      /\ card'[r] = [card[r] EXCEPT !.timer = card'[r].timer]
    OBVIOUS
  <2>1. PICK after \in BOOLEAN : after = (~\E c \in Call :
          call[c].op = "link" /\ call[c].run = r /\ call[c].status \in Ends)
    OBVIOUS
  <2>2. card'[r] = [card[r] EXCEPT !.timer = @ /\ after]
    BY <2>1 DEF Restart
  <2>3. card[r].timer \in BOOLEAN /\ card[r] \in [timer : BOOLEAN, video : BOOLEAN,
                         shown : {"completed", "unreadable", None}]
    BY <1>1 DEF ConsoleTypeOK
  <2> QED BY <2>2, <2>3
<1>3. ConsoleTypeOK'
  <2>1. card' \in [Run -> [timer : BOOLEAN, video : BOOLEAN,
                           shown : {"completed", "unreadable", None}]]
    <3>1. DOMAIN card' = Run /\ card' = [r \in Run |-> card'[r]] BY DEF Restart
    <3>2. \A r \in Run : card'[r] \in [timer : BOOLEAN, video : BOOLEAN,
                                       shown : {"completed", "unreadable", None}]
      <4> SUFFICES ASSUME NEW r \in Run
                   PROVE  card'[r] \in [timer : BOOLEAN, video : BOOLEAN,
                                         shown : {"completed", "unreadable", None}]
        OBVIOUS
      <4>1. PICK t \in BOOLEAN : t = card'[r].timer BY <1>2
      <4>2. card'[r] = [card[r] EXCEPT !.timer = t] BY <1>2, <4>1
      <4> QED BY <1>1, <4>2 DEF ConsoleTypeOK
    <3> QED BY <3>1, <3>2
  <2>2. faults' \in 0 .. MaxFaults BY <1>1, ConsoleAssumption DEF ConsoleTypeOK
  <2>3. NoCall \in Calls BY DEF NoCall, Calls
  <2> QED BY <1>1, <2>1, <2>2, <2>3 DEF ConsoleTypeOK
<1>4. WorkersCommit' BY <1>1 DEF WorkersCommit, RunKey
<1>5. RegistryIsDerived'
  BY <1>1, <1>2 DEF RegistryIsDerived, ConsoleInv
<1>6. \A c \in Call : Sound(c)' BY <1>1, IdleIsSound
<1> QED BY <1>3, <1>4, <1>5, <1>6 DEF ConsoleInv

\* A thread begins.
LEMMA StartKeeps ==
    ASSUME ConsoleInv, NEW c \in Call, NEW new \in Calls, Start(c, new),
           call'[c] = new /\ ConsoleTypeOK' /\ RegistryIsDerived' => Sound(c)'
    PROVE  ConsoleInv'
<1>1. /\ ConsoleTypeOK /\ call' = [call EXCEPT ![c] = new]
      /\ UNCHANGED <<run, bucket, principal, records, byRun, card, faults>>
  BY DEF ConsoleInv, Start, outside, registry
<1>2. Onward /\ WorkersCommit' BY <1>1, NothingMoves
<1>3. RegistryIsDerived' BY <1>1, <1>2, RegistryStays
<1>4. ConsoleTypeOK' /\ call'[c] = new BY <1>1 DEF ConsoleTypeOK
<1> QED BY <1>1, <1>2, <1>3, <1>4, OneMoves

LEMMA BeginGenerateKeeps ==
    ASSUME ConsoleInv, NEW c \in Call, NEW q \in Request, BeginGenerate(c, q)
    PROVE  ConsoleInv'
<1> DEFINE new == [NoCall EXCEPT !.op = "generate", !.at = "provider", !.req = q]
<1>1. new \in Calls BY DEF NoCall, Calls
<1>2. ASSUME call'[c] = new PROVE Sound(c)'
  <2>1. /\ new.op = "generate" /\ new.at = "provider" /\ new.req = q /\ new.state = None
    BY DEF NoCall
  <2> HIDE DEF new
  <2> QED BY <1>2, <2>1 DEF Sound, CallIsFaithful, Busy
<1> QED BY <1>1, <1>2, StartKeeps DEF BeginGenerate

LEMMA PollKeeps ==
    ASSUME ConsoleInv, NEW c \in Call, NEW r \in Run, Poll(c, r)
    PROVE  ConsoleInv'
<1>1. Observation(r) \in Calls
  BY DEF Observation, NoCall, Calls, ConsoleInv, ConsoleTypeOK
<1>2. card[r].timer /\ Start(c, Observation(r)) BY DEF Poll
<1>3. run'[r].at # "none" /\ byRun' = byRun
  BY <1>2 DEF ConsoleInv, RegistryIsDerived, Start, outside, registry
<1>4. ASSUME call'[c] = Observation(r), ConsoleTypeOK', RegistryIsDerived'
      PROVE  Sound(c)'
  BY <1>3, <1>4, ObservationIsSound DEF Observation
<1> QED BY <1>1, <1>2, <1>4, StartKeeps

LEMMA BeginLinkKeeps ==
    ASSUME ConsoleInv, NEW c \in Call, NEW k \in Key, BeginLink(c, k)
    PROVE  ConsoleInv'
<1> DEFINE new == [NoCall EXCEPT !.op = "link", !.at = "state", !.key = k]
<1>1. new \in Calls BY DEF NoCall, Calls
<1>2. ASSUME call'[c] = new PROVE Sound(c)'
  <2>1. /\ new.op = "link" /\ new.at = "state" /\ new.key = k /\ new.state = None
    BY DEF NoCall
  <2> HIDE DEF new
  <2> QED BY <1>2, <2>1 DEF Sound, CallIsFaithful, Busy
<1> QED BY <1>1, <1>2, StartKeeps DEF BeginLink

\* A cancellation ends a run, and is followed by an observation.
LEMMA CancelKeeps ==
    ASSUME ConsoleInv, NEW c \in Call, NEW r \in Run, CancelRun(c, r)
    PROVE  ConsoleInv' /\ Onward
<1>1. /\ ConsoleTypeOK /\ WorkersCommit /\ RegistryIsDerived /\ card[r].timer
      /\ call' = [call EXCEPT ![c] = Observation(r)]
      /\ UNCHANGED <<bucket, principal, records, byRun, card>>
  BY DEF ConsoleInv, CancelRun, registry
<1>0. \/ run' = run
      \/ /\ run[r].at \notin Ends \cup {"lost"}
         /\ \E to \in {"failed", "lost"} : run' = [run EXCEPT ![r].at = to]
  <2>1. CASE run' = [run EXCEPT ![r].at = IF Seen(r) \in Ends THEN @ ELSE "failed"]
    <3>1. CASE Seen(r) \in Ends BY <1>1, <2>1, <3>1 DEF ConsoleTypeOK
    <3>2. CASE Seen(r) \notin Ends
      <4>1. run[r].at \notin Ends \cup {"lost"} BY <3>2 DEF Seen, Ends
      <4> QED BY <2>1, <3>2, <4>1
    <3> QED BY <3>1, <3>2
  <2>2. CASE Lose(r) BY <2>2, LoseKeeps DEF Ends
  <2> QED BY <2>1, <2>2 DEF CancelRun
<1>2. \A x \in Run : /\ run'[x].req = run[x].req
                     /\ \/ run'[x].at = run[x].at
                        \/ /\ run[x].at \notin Ends \cup {"lost"} /\ x = r
                           /\ run'[x].at \in {"failed", "lost"}
  BY <1>0, <1>1 DEF ConsoleTypeOK
<1>3. run[r].at # "none" BY <1>1 DEF RegistryIsDerived
<1>4. Onward BY <1>1, <1>2, <1>3 DEF Onward
<1>5. ConsoleTypeOK'
  <2>1. Observation(r) \in Calls BY <1>1 DEF Observation, NoCall, Calls, ConsoleTypeOK
  <2>2. run' \in [Run -> [at : {"none", "active", "committed", "lost"} \cup Ends,
                          req : Request \cup {None}]]
    BY <1>0, <1>1 DEF ConsoleTypeOK, Ends
  <2>3. faults' \in 0 .. MaxFaults
    BY <1>1, ConsoleAssumption DEF ConsoleTypeOK, CancelRun, Lose, Fault
  <2> QED BY <1>1, <2>1, <2>2, <2>3 DEF ConsoleTypeOK
<1>6. WorkersCommit' BY <1>1, <1>2, <1>3 DEF WorkersCommit, RunKey
<1>7. RegistryIsDerived' BY <1>1, <1>4, RegistryStays
<1>8. call'[c] = [NoCall EXCEPT !.op = "observe", !.at = "provider", !.run = r,
                                !.key = byRun'[r]]
  BY <1>1 DEF ConsoleTypeOK, Observation
<1>9. run'[r].at # "none" BY <1>2, <1>3
<1>10. Sound(c)' BY <1>5, <1>7, <1>8, <1>9, ObservationIsSound
<1> QED BY <1>1, <1>4, <1>5, <1>6, <1>7, <1>10, OneMoves

\* A call that ends, or fails, without a trace.
LEMMA CallGoes ==
    ASSUME ConsoleInv, NEW c \in Call, call' = [call EXCEPT ![c] = NoCall],
           UNCHANGED <<run, bucket, principal, records, byRun>>,
           \A r \in Run : card'[r].timer => card[r].timer,
           card' \in [Run -> [timer : BOOLEAN, video : BOOLEAN,
                              shown : {"completed", "unreadable", None}]],
           faults' \in 0 .. MaxFaults
    PROVE  ConsoleInv'
<1>1. Onward /\ WorkersCommit' BY NothingMoves
<1>2. RegistryIsDerived' BY <1>1, RegistryStays
<1>3. call'[c] = NoCall BY DEF ConsoleInv, ConsoleTypeOK
<1>4. ConsoleTypeOK' BY <1>3, IdleIsSound DEF ConsoleInv, ConsoleTypeOK
<1> QED BY <1>1, <1>2, <1>3, <1>4, IdleIsSound, OneMoves

LEMMA ProviderFailsKeeps ==
    ASSUME ConsoleInv, NEW c \in Call, ProviderFails(c) PROVE ConsoleInv'
<1>1. faults' \in 0 .. MaxFaults
  BY ConsoleAssumption DEF ConsoleInv, ConsoleTypeOK, ProviderFails, Fault
<1> QED
  BY <1>1, CallGoes DEF ConsoleInv, ConsoleTypeOK, ProviderFails, outside, registry

\* What a submission leaves is a run of the request it was asked for.
LEMMA SubmitKeeps ==
    ASSUME ConsoleInv, NEW c \in Call, NEW r \in Run, SubmitRun(c, r)
    PROVE  ConsoleInv' /\ Onward
<1>1. /\ ConsoleTypeOK /\ WorkersCommit /\ Sound(c) /\ call[c] \in Calls
      /\ call[c].op = "generate" /\ call[c].at = "provider" /\ call[c].req \in Request
      /\ run[r].at = "none"
      /\ run' = [run EXCEPT ![r] = [at |-> "active", req |-> call[c].req]]
      /\ UNCHANGED <<bucket, principal, records, byRun, card>>
  BY DEF ConsoleInv, ConsoleTypeOK, SubmitRun, Busy, registry, Sound, CallIsFaithful
<1>2. \A x \in Run : x # r => run'[x] = run[x]
  BY <1>1 DEF ConsoleTypeOK
<1>3. run'[r].at = "active" /\ run'[r].req = call[c].req
  BY <1>1 DEF ConsoleTypeOK
<1>4. Onward BY <1>1, <1>2, <1>3 DEF Onward, Ends
<1>5. RegistryIsDerived' BY <1>1, <1>4, RegistryStays
<1>6. WorkersCommit'
  BY <1>1, <1>2, <1>3, ConsoleAssumption DEF WorkersCommit, RunKey
<1>7. PICK new \in Calls :
        /\ call' = [call EXCEPT ![c] = new]
        /\ \/ new = NoCall
           \/ new.op = "generate" /\ new.at = "register" /\ new.run = r
              /\ new.req = call[c].req /\ new.state = call[c].state /\ new.key = call[c].key
  <2>1. CASE call' = [call EXCEPT ![c] = NoCall]
    <3>1. NoCall \in Calls BY DEF NoCall, Calls
    <3> QED BY <2>1, <3>1
  <2>2. CASE call' = [call EXCEPT ![c].at = "register", ![c].run = r]
    <3> DEFINE new == [call[c] EXCEPT !.at = "register", !.run = r]
    <3>1. new \in Calls BY <1>1 DEF Calls
    <3>2. /\ new.op = "generate" /\ new.at = "register" /\ new.run = r
          /\ new.req = call[c].req /\ new.state = call[c].state /\ new.key = call[c].key
      BY <1>1 DEF Calls
    <3>3. call' = [call EXCEPT ![c] = new] BY <1>1, <2>2 DEF ConsoleTypeOK
    <3> HIDE DEF new
    <3> QED BY <3>1, <3>2, <3>3
  <2> QED BY <2>1, <2>2 DEF SubmitRun
<1>8. call'[c] = new BY <1>1, <1>7 DEF ConsoleTypeOK
<1>9. Sound(c)'
  <2>1. CASE new = NoCall BY <1>8, <2>1, IdleIsSound
  <2>2. CASE new # NoCall
    <3>1. call[c].state # None => call[c].key \in Key BY <1>1 DEF Sound, CallIsFaithful
    <3> QED BY <1>1, <1>3, <1>7, <1>8, <2>2, <3>1 DEF Sound, CallIsFaithful, Busy
  <2> QED BY <2>1, <2>2
<1>10. ConsoleTypeOK'
  <2>1. faults' \in 0 .. MaxFaults
    BY <1>1, ConsoleAssumption DEF ConsoleTypeOK, SubmitRun, Fault
  <2> QED BY <1>1, <1>7, <2>1 DEF ConsoleTypeOK
<1> QED BY <1>4, <1>5, <1>6, <1>7, <1>9, <1>10, OneMoves

\* What the registry learns was derived from the request of the run.
LEMMA RegisterKeeps ==
    ASSUME ConsoleInv, NEW c \in Call, Register(c) PROVE ConsoleInv' /\ Onward
<1>1. PICK r \in Run : r = call[c].run
  BY DEF ConsoleInv, Sound, CallIsFaithful, Register, Busy
<1>2. PICK q \in Request : q = call[c].req
  BY DEF ConsoleInv, Sound, CallIsFaithful, Register, Busy
<1>3. /\ ConsoleTypeOK /\ WorkersCommit /\ RegistryIsDerived
      /\ run[r].at # "none" /\ run[r].req = q
  BY <1>1, <1>2 DEF ConsoleInv, Sound, CallIsFaithful, Register, Busy
<1>4. PICK k \in Key : k = <<principal, q>> BY <1>3 DEF ConsoleTypeOK, Key
<1>5. /\ records' = [records EXCEPT ![k] = r]
      /\ byRun' = [byRun EXCEPT ![r] = k]
      /\ card' = [card EXCEPT ![r] = [NoCard EXCEPT !.timer = TRUE]]
      /\ call' = [call EXCEPT ![c] = [NoCall EXCEPT !.op = "observe", !.at = "provider",
                                                    !.run = r, !.key = byRun'[r]]]
      /\ UNCHANGED <<run, bucket, principal, faults>>
  BY <1>1, <1>2, <1>4 DEF Register, PageTracks, Identity, outside
<1>6. r # None BY ConsoleAssumption
<1>7. \A h \in Key : records'[h] = IF h = k THEN r ELSE records[h]
  BY <1>3, <1>5 DEF ConsoleTypeOK
<1>8. \A x \in Run : byRun'[x] = IF x = r THEN k ELSE byRun[x]
  BY <1>3, <1>5 DEF ConsoleTypeOK
<1>9. Onward BY <1>3, <1>5, <1>6, <1>7 DEF Onward
<1>10. WorkersCommit' BY <1>3, <1>5 DEF WorkersCommit, RunKey
<1>11. ConsoleTypeOK'
  <2>1. [NoCall EXCEPT !.op = "observe", !.at = "provider", !.run = r,
                       !.key = byRun'[r]] \in Calls
    BY <1>8 DEF NoCall, Calls
  <2>2. [NoCard EXCEPT !.timer = TRUE] \in [timer : BOOLEAN, video : BOOLEAN,
                                            shown : {"completed", "unreadable", None}]
    BY DEF NoCard
  <2> QED BY <1>3, <1>5, <2>1, <2>2 DEF ConsoleTypeOK
<1>12. RegistryIsDerived'
  <2>1. \A x \in Run : byRun[x] # None => byRun[x] \in Key BY <1>3 DEF ConsoleTypeOK
  <2>2. \A x \in Run : CardKey(x)' = CardKey(x) BY <1>5 DEF CardKey, Identity
  <2>3. \A x \in Run : x # r => card'[x] = card[x] BY <1>3, <1>5 DEF ConsoleTypeOK
  <2>4. CardKey(r) = k BY <1>3, <1>4 DEF CardKey, Identity
  <2> QED BY <1>3, <1>5, <1>6, <1>7, <1>8, <2>1, <2>2, <2>3, <2>4 DEF RegistryIsDerived
<1>13. call'[c] = [NoCall EXCEPT !.op = "observe", !.at = "provider", !.run = r,
                                 !.key = byRun'[r]]
  BY <1>3, <1>5 DEF ConsoleTypeOK
<1>14. run'[r].at # "none" BY <1>3, <1>5
<1>15. Sound(c)' BY <1>11, <1>12, <1>13, <1>14, ObservationIsSound
<1> QED BY <1>5, <1>9, <1>10, <1>11, <1>12, <1>15, OneMoves

\* A call goes on: what it learns is true.
LEMMA CallMoves ==
    ASSUME ConsoleInv, NEW c \in Call, NEW new \in Calls, call' = [call EXCEPT ![c] = new],
           UNCHANGED <<run, bucket, principal, records, byRun>>,
           \A r \in Run : card'[r].timer => card[r].timer,
           card' \in [Run -> [timer : BOOLEAN, video : BOOLEAN,
                              shown : {"completed", "unreadable", None}]],
           faults' \in 0 .. MaxFaults,
           call'[c] = new => Sound(c)'
    PROVE  ConsoleInv'
<1>1. Onward /\ WorkersCommit' BY NothingMoves
<1>2. RegistryIsDerived' BY <1>1, RegistryStays
<1>3. call'[c] = new BY DEF ConsoleInv, ConsoleTypeOK
<1>4. ConsoleTypeOK' BY DEF ConsoleInv, ConsoleTypeOK
<1> QED BY <1>1, <1>2, <1>3, <1>4, OneMoves

LEMMA AskStatusKeeps ==
    ASSUME ConsoleInv, NEW c \in Call, AskStatus(c) PROVE ConsoleInv'
<1>1. /\ ConsoleTypeOK /\ call[c] \in Calls /\ CallIsFaithful(c)
      /\ call[c].op = "observe" /\ call[c].at = "provider"
      /\ UNCHANGED <<run, bucket, principal, records, byRun, card, faults>>
  BY DEF ConsoleInv, ConsoleTypeOK, Sound, AskStatus, Busy, outside, registry
<1>2. /\ call[c].run \in Run /\ run[call[c].run].at # "none"
      /\ call[c].key # None => call[c].key \in Key /\ call[c].key = CardKey(call[c].run)
                               /\ records[call[c].key] # None
      /\ call[c].key = None => call[c].state = None
  BY <1>1, ConsoleAssumption DEF CallIsFaithful, Calls
<1>3. PICK s \in {"active", "completed", "failed"} :
        s = Seen(call[c].run)
  BY <1>1, <1>2 DEF Seen, ConsoleTypeOK, Ends
<1>4. PICK at \in {"answer", "state"} : at = IF call[c].key = None THEN "answer" ELSE "state"
  OBVIOUS
<1> DEFINE new == [call[c] EXCEPT !.status = s, !.at = at]
<1>5. new \in Calls BY <1>1 DEF Calls, Ends
<1>6. call' = [call EXCEPT ![c] = new]
  <2>1. CASE call[c].key = None BY <1>1, <1>3, <1>4, <2>1 DEF AskStatus, Answer
  <2>2. CASE call[c].key # None BY <1>1, <1>3, <1>4, <2>2 DEF AskStatus
  <2> QED BY <2>1, <2>2
<1>7. /\ new.op = "observe" /\ new.at = at /\ new.status = s /\ new.run = call[c].run
      /\ new.key = call[c].key /\ new.state = call[c].state
  BY <1>1 DEF Calls
<1> HIDE DEF new
<1>8. ASSUME call'[c] = new PROVE Sound(c)'
  <2>1. call[c].state # None => call[c].key \in Key BY <1>1 DEF CallIsFaithful
  <2>2. None # "completed" /\ None # "failed" BY ConsoleAssumption DEF ResultState
  <2>3. CallIsFaithful(c)'
    BY <1>1, <1>2, <1>3, <1>4, <1>7, <1>8, <2>1, <2>2
       DEF CallIsFaithful, CardKey, Identity, Seen
  <2>4. at = "answer" => call[c].key = None /\ call[c].state # "failed"
    BY <1>2, <1>4, <2>2
  <2> QED BY <1>7, <1>8, <2>3, <2>4 DEF Sound, Busy
<1> QED BY <1>1, <1>5, <1>6, <1>8, CallMoves DEF ConsoleTypeOK

\* A success is seen: its run has committed before the provider was asked.
LEMMA ReadStateKeeps ==
    ASSUME ConsoleInv, NEW c \in Call, ReadState(c) PROVE ConsoleInv'
<1> DEFINE k == call[c].key
           r == call[c].run
<1>1. /\ ConsoleTypeOK /\ WorkersCommit /\ call[c] \in Calls /\ CallIsFaithful(c)
      /\ call[c].at = "state" /\ k \in Key /\ call[c].op \in {"observe", "link"}
      /\ UNCHANGED <<run, bucket, principal, records, byRun, card, faults>>
  BY DEF ConsoleInv, ConsoleTypeOK, Sound, ReadState, outside, registry, CallIsFaithful, Calls
<1>2. k # None BY <1>1, ConsoleAssumption
<1>3. call[c].op = "observe" =>
        /\ r \in Run /\ run[r].at # "none" /\ k = CardKey(r) /\ records[k] # None
        /\ call[c].status \in Ends => Seen(r) = call[c].status
  BY <1>1, <1>2 DEF CallIsFaithful
<1>4. CASE records[k] # None /\ bucket[k] = "committed"
  <2> DEFINE new == [call[c] EXCEPT !.at = "manifest", !.state = "completed"]
  <2>1. new \in Calls BY <1>1 DEF Calls, ResultState
  <2>2. call' = [call EXCEPT ![c] = new]
    BY <1>1, <1>2, <1>4 DEF ReadState, Known, Marked, ConsoleTypeOK
  <2>3. /\ new.op = call[c].op /\ new.at = "manifest" /\ new.status = call[c].status
        /\ new.run = r /\ new.key = k /\ new.state = "completed"
    BY <1>1 DEF Calls
  <2> HIDE DEF new
  <2>4. ASSUME call'[c] = new PROVE Sound(c)'
    BY <1>1, <1>3, <1>4, <2>3, <2>4 DEF Sound, CallIsFaithful, Busy, CardKey, Identity, Seen
  <2> QED BY <1>1, <2>1, <2>2, <2>4, CallMoves DEF ConsoleTypeOK
<1>5. CASE ~(records[k] # None /\ bucket[k] = "committed")
  <2>1. PICK s \in {"not-found", "in-progress"} :
          s = IF ~Known(k) THEN "not-found"
              ELSE IF Marked(k) THEN "completed" ELSE "in-progress"
    BY <1>2, <1>5 DEF Known, Marked
  <2>2. PICK o \in {s, "failed"} :
          o = Overlay(call[c].status, s) /\ (o = "failed" => call[c].status = "failed")
    BY <2>1 DEF Overlay
  <2> DEFINE new == [call[c] EXCEPT !.at = "answer", !.state = o]
  <2>3. new \in Calls BY <1>1, <2>1, <2>2 DEF Calls, ResultState
  <2>4. call' = [call EXCEPT ![c] = new]
    <3>1. Answer(c, [call[c] EXCEPT !.state = o])
      BY <2>1, <2>2 DEF ReadState
    <3> QED BY <1>1, <3>1 DEF Answer, Calls
  <2>5. /\ new.op = call[c].op /\ new.at = "answer" /\ new.status = call[c].status
        /\ new.run = r /\ new.key = k /\ new.state = o
    BY <1>1 DEF Calls
  <2> HIDE DEF new
  <2>6. ASSUME call'[c] = new PROVE Sound(c)'
    <3>1. CallIsFaithful(c)'
      BY <1>1, <1>2, <1>3, <2>1, <2>2, <2>5, <2>6 DEF CallIsFaithful, CardKey, Identity, Seen
    <3>2. ASSUME call[c].op = "observe", call[c].status = "completed",
                 principal = EndpointPrincipal
          PROVE  bucket[k] = "gone"
      <4>1. bucket[RunKey(r)] # "none" BY <1>1, <1>3, <3>2 DEF WorkersCommit, Ends, Seen
      <4>2. RunKey(r) = k BY <1>3, <3>2 DEF RunKey, CardKey, Identity
      <4> QED BY <1>1, <1>3, <1>5, <3>2, <4>1, <4>2 DEF ConsoleTypeOK
    <3>3. ASSUME call[c].op = "observe", o = "failed"
          PROVE  bucket[k] # "committed" /\ run[r].at \in Ends \cup {"lost"}
      BY <1>3, <1>5, <2>2, <3>3 DEF Ends, Seen
    <3> QED
      BY <1>1, <2>5, <2>6, <3>1, <3>2, <3>3 DEF Sound, Busy, Marked, Removed
  <2> QED BY <1>1, <2>3, <2>4, <2>6, CallMoves DEF ConsoleTypeOK
<1> QED BY <1>4, <1>5

LEMMA ReadManifestKeeps ==
    ASSUME ConsoleInv, NEW c \in Call, ReadManifest(c) PROVE ConsoleInv'
<1>1. /\ ConsoleTypeOK /\ call[c] \in Calls /\ CallIsFaithful(c)
      /\ call[c].at = "manifest" /\ call[c].state = "completed"
      /\ call[c].op \in {"observe", "link"} /\ call[c].key \in Key
      /\ UNCHANGED <<run, bucket, principal, records, byRun, card, faults>>
  BY DEF ConsoleInv, ConsoleTypeOK, Sound, ReadManifest, outside, registry, CallIsFaithful,
         Calls
<1>2. PICK o \in {None, "completed"} :
        /\ o = IF call[c].op = "link" /\ ~Marked(call[c].key) THEN None
               ELSE Overlay(call[c].status, "completed")
        /\ call[c].op = "observe" => o = "completed"
  BY DEF Overlay
<1> DEFINE new == [call[c] EXCEPT !.at = "answer", !.state = o]
<1>3. new \in Calls BY <1>1, <1>2 DEF Calls, ResultState
<1>4. call' = [call EXCEPT ![c] = new]
  <2>1. Answer(c, [call[c] EXCEPT !.state = o]) BY <1>1, <1>2 DEF ReadManifest
  <2> QED BY <1>1, <2>1 DEF Answer, Calls
<1>5. /\ new.op = call[c].op /\ new.at = "answer" /\ new.status = call[c].status
      /\ new.run = call[c].run /\ new.key = call[c].key /\ new.state = o
  BY <1>1 DEF Calls
<1> HIDE DEF new
<1>6. ASSUME call'[c] = new PROVE Sound(c)'
  BY <1>1, <1>2, <1>5, <1>6 DEF Sound, CallIsFaithful, Busy, CardKey, Identity, Seen
<1> QED BY <1>1, <1>3, <1>4, <1>6, CallMoves DEF ConsoleTypeOK

LEMMA ReadFailsKeeps ==
    ASSUME ConsoleInv, NEW c \in Call, ReadFails(c) PROVE ConsoleInv'
<1>1. /\ ConsoleTypeOK /\ call[c] \in Calls /\ CallIsFaithful(c)
      /\ call[c].op \in {"observe", "link"} /\ call[c].key \in Key
      /\ UNCHANGED <<run, bucket, principal, records, byRun, card>>
  BY DEF ConsoleInv, ConsoleTypeOK, Sound, ReadFails, outside, registry, CallIsFaithful,
         Calls
<1> DEFINE new == [call[c] EXCEPT !.at = "answer", !.state = "unreadable"]
<1>2. new \in Calls BY <1>1 DEF Calls, ResultState
<1>3. call' = [call EXCEPT ![c] = new]
  <2>1. Answer(c, [call[c] EXCEPT !.state = "unreadable"]) BY DEF ReadFails
  <2> QED BY <1>1, <2>1 DEF Answer, Calls
<1>4. /\ new.op = call[c].op /\ new.at = "answer" /\ new.status = call[c].status
      /\ new.run = call[c].run /\ new.key = call[c].key /\ new.state = "unreadable"
  BY <1>1 DEF Calls
<1> HIDE DEF new
<1>5. ASSUME call'[c] = new PROVE Sound(c)'
  BY <1>1, <1>4, <1>5 DEF Sound, CallIsFaithful, Busy, CardKey, Identity, Seen
<1>6. faults' \in 0 .. MaxFaults
  BY <1>1, ConsoleAssumption DEF ConsoleTypeOK, ReadFails, Fault
<1> QED BY <1>1, <1>2, <1>3, <1>5, <1>6, CallMoves DEF ConsoleTypeOK

\* A page shows what it hears, and may go on to ask for the link of its job.
LEMMA CardIsTyped ==
    ASSUME ConsoleTypeOK, NEW r \in Run, NEW new, card' = [card EXCEPT ![r] = new],
           new \in [timer : BOOLEAN, video : BOOLEAN,
                    shown : {"completed", "unreadable", None}],
           new.timer => card[r].timer
    PROVE  /\ card' \in [Run -> [timer : BOOLEAN, video : BOOLEAN,
                                 shown : {"completed", "unreadable", None}]]
           /\ \A x \in Run : card'[x].timer => card[x].timer
<1>1. \A x \in Run : card'[x] = IF x = r THEN new ELSE card[x]
  BY DEF ConsoleTypeOK
<1> QED BY <1>1 DEF ConsoleTypeOK

LEMMA PageHearsKeeps ==
    ASSUME ConsoleInv, NEW c \in Call, PageHears(c) PROVE ConsoleInv'
<1>1. /\ ConsoleTypeOK /\ WorkersCommit /\ call[c] \in Calls /\ CallIsFaithful(c)
      /\ call[c].op = "observe"
      /\ UNCHANGED <<run, bucket, principal, records, byRun, faults>>
  BY DEF ConsoleInv, ConsoleTypeOK, Sound, PageHears, Busy, outside, registry
<1>2. PICK r \in Run : r = call[c].run BY <1>1 DEF CallIsFaithful
<1>3. /\ run[r].at # "none"
      /\ card[r] \in [timer : BOOLEAN, video : BOOLEAN,
                      shown : {"completed", "unreadable", None}]
  BY <1>1, <1>2 DEF CallIsFaithful, ConsoleTypeOK
<1>4. CASE call[c].state = "completed" /\ ~card[r].video
  <2>1. PICK k \in Key : k = CardKey(r)
    BY <1>1, <1>3 DEF WorkersCommit, ConsoleTypeOK, CardKey, Identity, Key
  <2> DEFINE new == [call[c] EXCEPT !.op = "link", !.at = "state", !.key = k]
  <2>2. new \in Calls BY <1>1 DEF Calls
  <2>3. /\ card' = [card EXCEPT ![r].shown = "completed"]
        /\ call' = [call EXCEPT ![c].op = "link", ![c].at = "state", ![c].key = k]
    BY <1>2, <1>4, <2>1 DEF PageHears
  <2>4. call' = [call EXCEPT ![c] = new] BY <1>1, <2>3 DEF ConsoleTypeOK
  <2>5. new.op = "link" /\ new.at = "state" /\ new.key = k /\ new.state = "completed"
    BY <1>1, <1>4 DEF Calls
  <2> HIDE DEF new
  <2>6. ASSUME call'[c] = new PROVE Sound(c)'
    BY <2>5, <2>6 DEF Sound, CallIsFaithful, Busy
  <2> DEFINE newCard == [card[r] EXCEPT !.shown = "completed"]
  <2>7. /\ card' = [card EXCEPT ![r] = newCard]
        /\ newCard \in [timer : BOOLEAN, video : BOOLEAN,
                        shown : {"completed", "unreadable", None}]
        /\ newCard.timer = card[r].timer
    BY <1>1, <1>3, <2>3
  <2> HIDE DEF newCard
  <2>8. /\ card' \in [Run -> [timer : BOOLEAN, video : BOOLEAN,
                              shown : {"completed", "unreadable", None}]]
        /\ \A x \in Run : card'[x].timer => card[x].timer
    BY <1>1, <2>7, CardIsTyped
  <2> QED BY <1>1, <2>2, <2>4, <2>6, <2>8, CallMoves DEF ConsoleTypeOK
<1>5. CASE ~(call[c].state = "completed" /\ ~card[r].video)
  <2>1. PICK stops \in BOOLEAN : stops = StopsTimer(c) BY DEF StopsTimer
  <2>2. PICK shown \in {"completed", "unreadable", None} : shown = Shown(call[c].state)
    BY DEF Shown
  <2>3. /\ card' = [card EXCEPT ![r].timer = @ /\ ~stops, ![r].shown = shown]
        /\ call' = [call EXCEPT ![c] = NoCall]
    BY <1>2, <1>5, <2>1, <2>2 DEF PageHears, AfterPoll
  <2> DEFINE newCard == [card[r] EXCEPT !.timer = @ /\ ~stops, !.shown = shown]
  <2>4. card' = [card EXCEPT ![r] = newCard] BY <1>1, <1>3, <2>3
  <2>5. /\ newCard \in [timer : BOOLEAN, video : BOOLEAN,
                        shown : {"completed", "unreadable", None}]
        /\ newCard.timer => card[r].timer
    BY <1>3
  <2> HIDE DEF newCard
  <2>6. /\ card' \in [Run -> [timer : BOOLEAN, video : BOOLEAN,
                              shown : {"completed", "unreadable", None}]]
        /\ \A x \in Run : card'[x].timer => card[x].timer
    BY <1>1, <2>4, <2>5, CardIsTyped
  <2> QED BY <1>1, <2>3, <2>6, CallGoes DEF ConsoleTypeOK
<1> QED BY <1>4, <1>5

LEMMA PageAttachesKeeps ==
    ASSUME ConsoleInv, NEW c \in Call, PageAttaches(c) PROVE ConsoleInv'
<1>1. /\ ConsoleTypeOK /\ call[c] \in Calls
      /\ call' = [call EXCEPT ![c] = NoCall]
      /\ UNCHANGED <<run, bucket, principal, records, byRun, faults>>
  BY DEF ConsoleInv, ConsoleTypeOK, PageAttaches, outside, registry
<1>2. CASE card' = card BY <1>1, <1>2, CallGoes DEF ConsoleTypeOK
<1>3. CASE card' # card
  <2>1. PICK r \in Run : r = call[c].run
    BY <1>1, <1>3 DEF PageAttaches, Calls
  <2>2. PICK signed \in BOOLEAN : signed = (call[c].state = "completed") OBVIOUS
  <2>3. PICK goes \in BOOLEAN : goes = (call[c].status \notin Ends) OBVIOUS
  <2>4. card' = [card EXCEPT ![r].video = @ \/ signed, ![r].timer = @ /\ goes]
    BY <1>3, <2>1, <2>2, <2>3 DEF PageAttaches
  <2>5. card[r] \in [timer : BOOLEAN, video : BOOLEAN,
                     shown : {"completed", "unreadable", None}]
    BY <1>1 DEF ConsoleTypeOK
  <2> DEFINE newCard == [card[r] EXCEPT !.video = @ \/ signed, !.timer = @ /\ goes]
  <2>6. card' = [card EXCEPT ![r] = newCard] BY <1>1, <2>4, <2>5
  <2>7. /\ newCard \in [timer : BOOLEAN, video : BOOLEAN,
                        shown : {"completed", "unreadable", None}]
        /\ newCard.timer => card[r].timer
    BY <2>5
  <2> HIDE DEF newCard
  <2>8. /\ card' \in [Run -> [timer : BOOLEAN, video : BOOLEAN,
                              shown : {"completed", "unreadable", None}]]
        /\ \A x \in Run : card'[x].timer => card[x].timer
    BY <1>1, <2>6, <2>7, CardIsTyped
  <2> QED BY <1>1, <2>8, CallGoes DEF ConsoleTypeOK
<1> QED BY <1>2, <1>3

-----------------------------------------------------------------------------

LEMMA ConsoleSteps == ConsoleInv /\ [ConsoleNext]_consoleVars => ConsoleInv'
<1> SUFFICES ASSUME ConsoleInv, [ConsoleNext]_consoleVars PROVE ConsoleInv'
  OBVIOUS
<1>1. ASSUME NEW r \in Run, RunCommits(r) PROVE ConsoleInv'
  BY <1>1, RunCommitsKeeps
<1>2. ASSUME NEW r \in Run, NEW end \in Ends, RunEnds(r, end) PROVE ConsoleInv'
  BY <1>2, RunEndsKeeps
<1>3. ASSUME NEW k \in Key, ResultGoes(k) PROVE ConsoleInv'
  BY <1>3, ResultGoesKeeps
<1>9. ASSUME NEW r \in Run, RunIsLost(r) PROVE ConsoleInv'
  BY <1>9, RunIsLostKeeps
<1>4. ASSUME Restart PROVE ConsoleInv'
  BY <1>4, RestartKeeps
<1>5. ASSUME NEW c \in Call, CallBegins(c) PROVE ConsoleInv'
  BY <1>5, BeginGenerateKeeps, PollKeeps, CancelKeeps, BeginLinkKeeps DEF CallBegins
<1>6. ASSUME NEW c \in Call, CallStep(c) PROVE ConsoleInv'
  BY <1>6, SubmitKeeps, RegisterKeeps, AskStatusKeeps, ReadStateKeeps, ReadManifestKeeps,
     PageHearsKeeps, PageAttachesKeeps
     DEF CallStep
<1>7. ASSUME NEW c \in Call, CallFails(c) PROVE ConsoleInv'
  BY <1>7, ProviderFailsKeeps, ReadFailsKeeps DEF CallFails
<1>8. ASSUME UNCHANGED consoleVars PROVE ConsoleInv'
  <2>1. /\ ConsoleTypeOK' /\ WorkersCommit' /\ Onward
        /\ UNCHANGED <<principal, registry, call, card>>
    BY <1>8, NothingMoves DEF consoleVars, outside, registry, ConsoleInv, ConsoleTypeOK
  <2> QED BY <2>1, WorldKeeps
<1> QED
  BY <1>1, <1>2, <1>3, <1>4, <1>5, <1>6, <1>7, <1>8, <1>9 DEF ConsoleNext, Outside

\* What the console answers about a run was true, whatever the runs, the control
\* plane, other threads and other submissions did since it asked, and whenever
\* it was restarted (service.py:107-143, 226-279, results.py:120-160).
THEOREM ConsoleInvariant == ConsoleSpec => []AnswersAreTrue
<1>1. ConsoleInit => ConsoleInv BY ConsoleStartsWell
<1>2. ConsoleInv /\ [ConsoleNext]_consoleVars => ConsoleInv' BY ConsoleSteps
<1> QED BY <1>1, <1>2, SoundIsTrue, PTL DEF ConsoleSpec

-----------------------------------------------------------------------------
(* Cards that rest, as long as nothing has failed *)

Pending(r) == \E c \in Call : Busy(c, "generate", "register") /\ call[c].run = r

\* A poll is about a job, and one that is after a link has seen its result.
CallIsKnown(c) ==
    LET r == call[c].run
        k == call[c].key
    IN
    /\ call[c].state # "unreadable"
    /\ call[c].op = "observe" => k # None
    /\ call[c].op = "link" /\ r # None =>
        /\ r \in Run /\ run[r].at # "none"
        /\ k \in Key /\ k = CardKey(r) /\ records[k] # None /\ bucket[k] # "none"
        /\ call[c].status \in Ends => Seen(r) = call[c].status
        /\ call[c].at = "answer" => call[c].state = "completed" \/ Removed(k)

\* A run is registered or about to be, and its card rests once it has ended.
CardRests(r) ==
    /\ run[r].at # "none" => byRun[r] # None \/ Pending(r)
    /\ card[r].timer => byRun[r] # None
    /\ byRun[r] # None /\ ~card[r].timer =>
        /\ Seen(r) \in Ends
        /\ principal = EndpointPrincipal /\ run[r].at = "completed" =>
              card[r].video \/ Removed(CardKey(r))

Calm == faults = 0 => (\A c \in Call : CallIsKnown(c)) /\ (\A r \in Run : CardRests(r))

LEMMA CallStaysKnown ==
    ASSUME ConsoleInv, Onward, NEW c \in Call, CallIsKnown(c), call'[c] = call[c]
    PROVE  CallIsKnown(c)'
<1>1. CASE call[c].op = "link" /\ call[c].run # None
  <2>1. PICK r \in Run : r = call[c].run BY <1>1 DEF CallIsKnown
  <2>2. PICK k \in Key : k = call[c].key BY <1>1 DEF CallIsKnown
  <2>3. /\ run[r].at # "none" /\ k = CardKey(r) /\ records[k] # None /\ bucket[k] # "none"
        /\ call[c].status \in Ends => Seen(r) = call[c].status
        /\ call[c].at = "answer" => call[c].state = "completed" \/ bucket[k] = "gone"
        /\ call[c].state # "unreadable"
    BY <1>1, <2>1, <2>2 DEF CallIsKnown, Removed
  <2>4. run'[r].at # "none" /\ CardKey(r)' = k /\ records'[k] # None /\ bucket'[k] # "none"
    BY <2>3 DEF Onward, CardKey, Identity
  <2>5. call[c].status \in Ends => Seen(r)' = call[c].status
    BY <2>3 DEF Onward, Seen, Ends
  <2>6. bucket[k] = "gone" => bucket'[k] = "gone" BY DEF Onward
  <2> QED BY <1>1, <2>1, <2>2, <2>3, <2>4, <2>5, <2>6 DEF CallIsKnown, Removed
<1>2. CASE ~(call[c].op = "link" /\ call[c].run # None)
  BY <1>2 DEF CallIsKnown
<1> QED BY <1>1, <1>2

LEMMA CardStaysAtRest ==
    ASSUME ConsoleInv, Onward, NEW r \in Run, CardRests(r),
           byRun'[r] = byRun[r], card'[r] = card[r],
           run[r].at = "none" => run'[r].at = "none",
           \A c \in Call : Busy(c, "generate", "register") /\ call[c].run = r =>
                               call'[c] = call[c]
    PROVE  CardRests(r)'
<1>1. Pending(r) => Pending(r)' BY DEF Pending, Busy
<1>2. ASSUME byRun[r] # None, ~card[r].timer
      PROVE  /\ Seen(r)' \in Ends
             /\ principal' = EndpointPrincipal /\ run'[r].at = "completed" =>
                   card[r].video \/ Removed(CardKey(r))'
  <2>1. PICK k \in Key : k = CardKey(r)
    BY <1>2 DEF ConsoleInv, ConsoleTypeOK, RegistryIsDerived
  <2>2. run[r].at \in Ends \cup {"lost"} BY <1>2 DEF CardRests, Seen, Ends
  <2>3. /\ run'[r].at = run[r].at /\ run'[r].req = run[r].req /\ principal' = principal
        /\ bucket[k] = "gone" => bucket'[k] = "gone"
    BY <2>2 DEF Onward, Ends
  <2>4. CardKey(r)' = k /\ Seen(r)' = Seen(r)
    BY <2>1, <2>3 DEF CardKey, Identity, Seen
  <2> QED BY <1>2, <2>1, <2>3, <2>4 DEF CardRests, Removed
<1> QED BY <1>1, <1>2 DEF CardRests

LEMMA CalmGoesOn ==
    ASSUME ConsoleInv, Calm, faults = 0, Onward,
           \A c \in Call : call'[c] = call[c] \/ CallIsKnown(c)',
           \A r \in Run :
               \/ CardRests(r)'
               \/ /\ byRun'[r] = byRun[r] /\ card'[r] = card[r]
                  /\ run[r].at = "none" => run'[r].at = "none"
                  /\ \A c \in Call : Busy(c, "generate", "register") /\ call[c].run = r =>
                                         call'[c] = call[c]
    PROVE  Calm'
<1>1. ASSUME NEW c \in Call PROVE CallIsKnown(c)'
  BY CallStaysKnown DEF Calm
<1>2. ASSUME NEW r \in Run PROVE CardRests(r)'
  BY CardStaysAtRest DEF Calm
<1> QED BY <1>1, <1>2 DEF Calm

LEMMA FaultsCount == ASSUME ConsoleInv, Fault PROVE faults' # 0
  BY DEF ConsoleInv, ConsoleTypeOK, Fault

\* The world moves, and nobody else does.
LEMMA OutsideIsCalm == ASSUME ConsoleInv, Calm, Outside PROVE Calm'
<1>1. CASE \E r \in Run : RunIsLost(r)
  BY <1>1, FaultsCount DEF RunIsLost, Lose, Calm
<1>2. CASE ~\E r \in Run : RunIsLost(r)
  <2> DEFINE Apart == /\ Onward /\ UNCHANGED <<byRun, call, card, faults>>
                      /\ \A r \in Run : run[r].at = "none" => run'[r].at = "none"
  <2>1. Apart
    <3>1. ASSUME NEW r \in Run, RunCommits(r) PROVE Apart
      BY <3>1, RunCommitsKeeps DEF RunCommits, registry, ConsoleInv, ConsoleTypeOK
    <3>2. ASSUME NEW r \in Run, NEW end \in Ends, RunEnds(r, end) PROVE Apart
      BY <3>2, RunEndsKeeps DEF RunEnds, registry, ConsoleInv, ConsoleTypeOK
    <3>3. ASSUME NEW k \in Key, ResultGoes(k) PROVE Apart
      BY <3>3, ResultGoesKeeps DEF ResultGoes, registry
    <3> QED BY <1>2, <3>1, <3>2, <3>3 DEF Outside
  <2>2. CASE faults = 0 BY <2>1, <2>2, CalmGoesOn
  <2> QED BY <2>1, <2>2 DEF Calm
<1> QED BY <1>1, <1>2

\* A call of a thread leaves every run, registration and card alone.
LEMMA CallIsCalm ==
    ASSUME ConsoleInv, Calm, NEW c \in Call, NEW new, call' = [call EXCEPT ![c] = new],
           ~Busy(c, "generate", "register"),
           UNCHANGED <<run, bucket, principal, records, byRun, card, faults>>,
           faults = 0 /\ Onward => CallIsKnown(c)'
    PROVE  Calm'
<1>1. CASE faults = 0
  <2>1. Onward BY NothingMoves
  <2>2. \A d \in Call : call'[d] = call[d] \/ CallIsKnown(d)'
    <3>1. \A d \in Call : d # c => call'[d] = call[d] BY DEF ConsoleInv, ConsoleTypeOK
    <3> QED BY <1>1, <2>1, <3>1
  <2>3. \A d \in Call : Busy(d, "generate", "register") => call'[d] = call[d]
    BY DEF ConsoleInv, ConsoleTypeOK
  <2> QED BY <1>1, <2>1, <2>2, <2>3, CalmGoesOn
<1> QED BY <1>1 DEF Calm

\* A thread that serves nothing, observes a run that is registered, or submits one.
LEMMA KnownFromTheStart ==
    ASSUME NEW c \in Call, call'[c].state = None,
           call'[c].op = "observe" => call'[c].key # None,
           call'[c].op = "link" => call'[c].run = None
    PROVE  CallIsKnown(c)'
<1>1. None # "unreadable" BY ConsoleAssumption DEF ResultState
<1> QED BY <1>1 DEF CallIsKnown

LEMMA StartIsCalm ==
    ASSUME ConsoleInv, Calm, NEW c \in Call, NEW new, Start(c, new), new.state = None,
           faults = 0 /\ new.op = "observe" => new.key # None,
           new.op = "link" => new.run = None
    PROVE  Calm'
<1>1. /\ call' = [call EXCEPT ![c] = new] /\ ~Busy(c, "generate", "register")
      /\ UNCHANGED <<run, bucket, principal, records, byRun, card, faults>>
  BY DEF Start, Free, Busy, outside, registry
<1>2. call'[c] = new BY <1>1 DEF ConsoleInv, ConsoleTypeOK
<1>3. faults = 0 => CallIsKnown(c)' BY <1>2, KnownFromTheStart
<1> QED BY <1>1, <1>3, CallIsCalm

LEMMA ObservationsKnow ==
    ASSUME ConsoleInv, Calm, NEW r \in Run, card[r].timer
    PROVE  /\ Observation(r).state = None /\ Observation(r).op = "observe"
           /\ faults = 0 => Observation(r).key # None
  BY DEF Observation, NoCall, Calm, CardRests

LEMMA CancelIsCalm ==
    ASSUME ConsoleInv, Calm, NEW c \in Call, NEW r \in Run, CancelRun(c, r) PROVE Calm'
<1>1. CASE faults' = faults /\ faults = 0
  <2>1. /\ Onward /\ call' = [call EXCEPT ![c] = Observation(r)]
        /\ UNCHANGED <<byRun, card>> /\ card[r].timer /\ ~Busy(c, "generate", "register")
    BY CancelKeeps DEF CancelRun, registry, Free, Busy
  <2>2. call'[c] = Observation(r) /\ \A d \in Call : d # c => call'[d] = call[d]
    BY <2>1 DEF ConsoleInv, ConsoleTypeOK
  <2>3. CallIsKnown(c)' BY <1>1, <2>1, <2>2, ObservationsKnow, KnownFromTheStart
  <2>4. ASSUME NEW x \in Run, run[x].at = "none" PROVE run'[x].at = "none"
    <3>1. x # r BY <2>1, <2>4 DEF ConsoleInv, RegistryIsDerived
    <3> QED BY <2>4, <3>1 DEF CancelRun, Lose, ConsoleInv, ConsoleTypeOK
  <2> QED BY <1>1, <2>1, <2>2, <2>3, <2>4, CalmGoesOn
<1>2. CASE faults' # 0 BY <1>2 DEF Calm
<1>3. faults' # 0 \/ faults' = faults
  BY FaultsCount DEF CancelRun, Lose
<1> QED BY <1>1, <1>2, <1>3

LEMMA BeginIsCalm == ASSUME ConsoleInv, Calm, NEW c \in Call, CallBegins(c) PROVE Calm'
<1>1. ASSUME NEW q \in Request, BeginGenerate(c, q) PROVE Calm'
  BY <1>1, StartIsCalm DEF BeginGenerate, NoCall
<1>2. ASSUME NEW r \in Run, Poll(c, r) PROVE Calm'
  BY <1>2, ObservationsKnow, StartIsCalm DEF Poll
<1>3. ASSUME NEW k \in Key, BeginLink(c, k) PROVE Calm'
  BY <1>3, StartIsCalm DEF BeginLink, NoCall
<1> QED BY <1>1, <1>2, <1>3, CancelIsCalm DEF CallBegins

\* A run that was submitted is about to be registered.
LEMMA SubmitIsCalm ==
    ASSUME ConsoleInv, Calm, NEW c \in Call, NEW r \in Run, SubmitRun(c, r) PROVE Calm'
<1>1. CASE Fault BY <1>1, FaultsCount DEF Calm
<1>2. CASE ~Fault /\ faults # 0 BY <1>2 DEF Calm, SubmitRun
<1>3. CASE ~Fault /\ faults = 0
  <2>1. /\ Onward /\ call' = [call EXCEPT ![c].at = "register", ![c].run = r]
        /\ Busy(c, "generate", "provider") /\ UNCHANGED <<byRun, card, faults>>
        /\ run[r].at = "none" /\ ConsoleTypeOK /\ RegistryIsDerived /\ call[c] \in Calls
    BY <1>3, SubmitKeeps DEF SubmitRun, registry, ConsoleInv, ConsoleTypeOK
  <2>2. /\ Busy(c, "generate", "register")' /\ call'[c].run = r
        /\ call'[c].state = call[c].state
        /\ \A d \in Call : d # c => call'[d] = call[d]
    BY <2>1 DEF Busy, ConsoleTypeOK, Calls
  <2>3. CallIsKnown(c)'
    <3>1. call[c].state # "unreadable" BY <1>3 DEF Calm, CallIsKnown
    <3> QED BY <2>2, <3>1 DEF CallIsKnown, Busy
  <2>4. CardRests(r)'
    <3>1. Pending(r)' BY <2>2 DEF Pending, Busy
    <3>2. byRun'[r] = None /\ ~card'[r].timer
      BY <2>1 DEF RegistryIsDerived
    <3> QED BY <3>1, <3>2 DEF CardRests
  <2>5. ASSUME NEW x \in Run, x # r
        PROVE  /\ run[x].at = "none" => run'[x].at = "none"
               /\ \A d \in Call : Busy(d, "generate", "register") /\ call[d].run = x =>
                                      call'[d] = call[d]
    BY <2>1, <2>2, <2>5 DEF SubmitRun, ConsoleTypeOK, Busy
  <2> QED BY <1>3, <2>1, <2>2, <2>3, <2>4, <2>5, CalmGoesOn
<1> QED BY <1>1, <1>2, <1>3

LEMMA RegisterIsCalm ==
    ASSUME ConsoleInv, Calm, NEW c \in Call, Register(c) PROVE Calm'
<1>1. PICK r \in Run : r = call[c].run
  BY DEF ConsoleInv, Sound, CallIsFaithful, Register, Busy
<1>2. PICK k \in Key : k = Identity(principal, call[c].req)
  BY DEF ConsoleInv, ConsoleTypeOK, Sound, CallIsFaithful, Register, Busy, Key, Identity
<1>3. /\ byRun' = [byRun EXCEPT ![r] = k]
      /\ card' = [card EXCEPT ![r] = [NoCard EXCEPT !.timer = TRUE]]
      /\ call' = [call EXCEPT ![c] = [NoCall EXCEPT !.op = "observe", !.at = "provider",
                                                    !.run = r, !.key = byRun'[r]]]
      /\ faults' = faults /\ run' = run
  BY <1>1, <1>2 DEF Register, PageTracks, outside
<1>4. /\ byRun'[r] = k /\ card'[r].timer
      /\ \A x \in Run : x # r => byRun'[x] = byRun[x] /\ card'[x] = card[x]
  BY <1>3 DEF ConsoleInv, ConsoleTypeOK, NoCard
<1>5. /\ call'[c].op = "observe" /\ call'[c].key = k /\ call'[c].state = None
      /\ \A d \in Call : d # c => call'[d] = call[d]
  BY <1>3, <1>4 DEF ConsoleInv, ConsoleTypeOK, NoCall
<1>6. k # None BY ConsoleAssumption
<1>7. CallIsKnown(c)' BY <1>5, <1>6, KnownFromTheStart
<1>8. CardRests(r)' BY <1>4, <1>6 DEF CardRests
<1>9. CASE faults = 0
  <2>1. \A x \in Run : x # r => \A d \in Call : call[d].run = x => call'[d] = call[d]
    BY <1>1, <1>5
  <2>2. Onward BY RegisterKeeps
  <2> QED BY <1>3, <1>4, <1>5, <1>7, <1>8, <1>9, <2>1, <2>2, CalmGoesOn
<1> QED BY <1>3, <1>9 DEF Calm

LEMMA AskStatusIsCalm ==
    ASSUME ConsoleInv, Calm, NEW c \in Call, AskStatus(c) PROVE Calm'
<1>1. PICK to \in {"answer", "state"} :
        call' = [call EXCEPT ![c] = [call[c] EXCEPT !.status = Seen(call[c].run), !.at = to]]
  BY DEF AskStatus, Answer, ConsoleInv, ConsoleTypeOK, Calls
<1>2. /\ Busy(c, "observe", "provider")
      /\ UNCHANGED <<run, bucket, principal, records, byRun, card, faults>>
  BY DEF AskStatus, outside, registry
<1>3. /\ call'[c].op = call[c].op /\ call'[c].key = call[c].key
      /\ call'[c].state = call[c].state
  BY <1>1 DEF ConsoleInv, ConsoleTypeOK, Calls
<1>4. faults = 0 => CallIsKnown(c)' BY <1>2, <1>3 DEF Calm, CallIsKnown, Busy
<1>5. ~Busy(c, "generate", "register") BY <1>2 DEF Busy
<1> QED BY <1>1, <1>2, <1>4, <1>5, CallIsCalm

\* A link of the page finds its job known, and its result there or gone.
LEMMA ReadStateIsCalm ==
    ASSUME ConsoleInv, Calm, NEW c \in Call, ReadState(c) PROVE Calm'
<1> DEFINE k == call[c].key
           r == call[c].run
<1>1. /\ CallIsFaithful(c) /\ call[c] \in Calls /\ call[c].at = "state"
      /\ UNCHANGED <<run, bucket, principal, records, byRun, card, faults>>
  BY DEF ConsoleInv, ConsoleTypeOK, Sound, ReadState, outside, registry
<1>2. ~Busy(c, "generate", "register") BY <1>1 DEF Busy
<1>3. PICK s \in ResultState :
        /\ s = IF ~Known(k) THEN "not-found"
               ELSE IF Marked(k) THEN "completed" ELSE "in-progress"
        /\ s # "unreadable"
  BY DEF ResultState
<1>4. PICK at \in {"manifest", "answer"}, o \in {s, "failed"} :
        /\ call' = [call EXCEPT ![c] = [call[c] EXCEPT !.at = at, !.state = o]]
        /\ at = "answer" => s # "completed"
  <2>1. CASE s = "completed"
    <3>1. call' = [call EXCEPT ![c].at = "manifest", ![c].state = s]
      BY <1>3, <2>1 DEF ReadState
    <3> QED BY <1>1, <2>1, <3>1 DEF ConsoleInv, ConsoleTypeOK
  <2>2. CASE s # "completed"
    <3>1. Answer(c, [call[c] EXCEPT !.state = Overlay(call[c].status, s)])
      BY <1>3, <2>2 DEF ReadState
    <3>2. Overlay(call[c].status, s) \in {s, "failed"} BY DEF Overlay
    <3> QED BY <1>1, <2>2, <3>1, <3>2 DEF Answer, Calls
  <2> QED BY <2>1, <2>2
<1>5. /\ call'[c].op = call[c].op /\ call'[c].run = r /\ call'[c].key = k
      /\ call'[c].status = call[c].status /\ call'[c].at = at /\ call'[c].state = o
  BY <1>1, <1>4 DEF ConsoleInv, ConsoleTypeOK, Calls
<1>6. ASSUME faults = 0 PROVE CallIsKnown(c)'
  <2>1. CASE call[c].op = "link" /\ r # None
    <3>1. /\ r \in Run /\ run[r].at # "none"
          /\ k \in Key /\ k = CardKey(r) /\ records[k] # None /\ bucket[k] # "none"
          /\ call[c].status \in Ends => Seen(r) = call[c].status
      BY <1>6, <2>1 DEF Calm, CallIsKnown
    <3>2. k # None BY <3>1, ConsoleAssumption
    <3>3. at = "answer" => Removed(k)
      BY <1>3, <1>4, <3>1, <3>2 DEF Known, Marked, Removed, ConsoleInv, ConsoleTypeOK
    <3>4. PICK x \in Run : x = r BY <3>1
    <3>5. CardKey(x)' = CardKey(x) /\ Seen(x)' = Seen(x) /\ (Removed(k) => bucket'[k] = "gone")
      BY <1>1 DEF CardKey, Identity, Seen, Removed
    <3> QED BY <1>1, <1>3, <1>4, <1>5, <2>1, <3>1, <3>3, <3>4, <3>5 DEF CallIsKnown, Removed
  <2>2. CASE ~(call[c].op = "link" /\ r # None)
    BY <1>3, <1>4, <1>5, <1>6, <2>2 DEF CallIsKnown, Calm
  <2> QED BY <2>1, <2>2
<1> QED BY <1>1, <1>2, <1>4, <1>6, CallIsCalm

LEMMA ReadManifestIsCalm ==
    ASSUME ConsoleInv, Calm, NEW c \in Call, ReadManifest(c) PROVE Calm'
<1> DEFINE k == call[c].key
           r == call[c].run
<1>1. /\ CallIsFaithful(c) /\ call[c] \in Calls
      /\ call[c].at = "manifest" /\ call[c].state = "completed"
      /\ UNCHANGED <<run, bucket, principal, records, byRun, card, faults>>
  BY DEF ConsoleInv, ConsoleTypeOK, Sound, CallIsFaithful, ReadManifest, outside, registry
<1>2. ~Busy(c, "generate", "register") BY <1>1 DEF Busy
<1>3. PICK o \in {None, "completed"} :
        /\ call' = [call EXCEPT ![c] = [call[c] EXCEPT !.at = "answer", !.state = o]]
        /\ o = IF call[c].op = "link" /\ ~Marked(k) THEN None ELSE "completed"
  <2>1. Overlay(call[c].status, call[c].state) = "completed" BY <1>1 DEF Overlay
  <2> QED BY <1>1, <2>1 DEF ReadManifest, Answer, Calls
<1>4. /\ call'[c].op = call[c].op /\ call'[c].run = r /\ call'[c].key = k
      /\ call'[c].status = call[c].status /\ call'[c].at = "answer" /\ call'[c].state = o
  BY <1>1, <1>3 DEF ConsoleInv, ConsoleTypeOK, Calls
<1>5. None # "unreadable" BY ConsoleAssumption DEF ResultState
<1>6. ASSUME faults = 0 PROVE CallIsKnown(c)'
  <2>1. CASE call[c].op = "link" /\ r # None
    <3>1. /\ r \in Run /\ run[r].at # "none"
          /\ k \in Key /\ k = CardKey(r) /\ records[k] # None /\ bucket[k] # "none"
          /\ call[c].status \in Ends => Seen(r) = call[c].status
      BY <1>6, <2>1 DEF Calm, CallIsKnown
    <3>2. o = "completed" \/ bucket[k] = "gone"
      BY <1>3, <3>1 DEF Marked, ConsoleInv, ConsoleTypeOK
    <3>3. PICK x \in Run : x = r BY <3>1
    <3>4. CardKey(x)' = CardKey(x) /\ Seen(x)' = Seen(x)
      BY <1>1 DEF CardKey, Identity, Seen
    <3> QED BY <1>1, <1>3, <1>4, <1>5, <2>1, <3>1, <3>2, <3>3, <3>4 DEF CallIsKnown, Removed
  <2>2. CASE ~(call[c].op = "link" /\ r # None)
    BY <1>3, <1>4, <1>5, <1>6, <2>2 DEF CallIsKnown, Calm
  <2> QED BY <2>1, <2>2
<1> QED BY <1>1, <1>2, <1>3, <1>6, CallIsCalm

\* A page that stops to poll has been told of an end: of an accepted run, with its
\* result, or with a result that is gone.
LEMMA PageHearsIsCalm ==
    ASSUME ConsoleInv, Calm, NEW c \in Call, PageHears(c) PROVE Calm'
<1>1. /\ CallIsFaithful(c) /\ Sound(c) /\ call[c] \in Calls /\ Busy(c, "observe", "answer")
      /\ ConsoleTypeOK
      /\ UNCHANGED <<run, bucket, principal, records, byRun, faults>>
  BY DEF ConsoleInv, ConsoleTypeOK, Sound, PageHears, outside, registry
<1>2. PICK r \in Run : r = call[c].run BY <1>1 DEF CallIsFaithful, Busy
<1>3. Onward BY <1>1, NothingMoves
<1>4. SUFFICES ASSUME faults = 0 PROVE Calm'
  BY <1>1 DEF Calm
<1>5. PICK k \in Key : k = call[c].key
  BY <1>1, <1>4 DEF Calm, CallIsKnown, Busy, Calls
<1>6. /\ run[r].at # "none" /\ k = CardKey(r) /\ records[k] # None /\ k # None
      /\ call[c].status \in Ends => Seen(r) = call[c].status
      /\ call[c].state = "completed" => bucket[k] # "none"
  BY <1>1, <1>2, <1>5, ConsoleAssumption DEF CallIsFaithful, Busy
<1>7. CardKey(r)' = k /\ Seen(r)' = Seen(r)
  BY <1>1, <1>6 DEF CardKey, Identity, Seen
<1>8. CardRests(r) /\ CallIsKnown(c) /\ (Pending(r) => Pending(r)')
  <2>1. ~Busy(c, "generate", "register") BY <1>1 DEF Busy
  <2>2. \A d \in Call : d # c => call'[d] = call[d]
    BY <1>1 DEF PageHears, AfterPoll, ConsoleTypeOK
  <2> QED BY <1>4, <2>1, <2>2 DEF Calm, Pending, Busy
<1>9. CASE call[c].state = "completed" /\ ~card[r].video
  <2>1. /\ card' = [card EXCEPT ![r].shown = "completed"]
        /\ call' = [call EXCEPT ![c].op = "link", ![c].at = "state", ![c].key = k]
    BY <1>2, <1>6, <1>9 DEF PageHears
  <2>2. /\ call'[c].op = "link" /\ call'[c].at = "state" /\ call'[c].key = k
        /\ call'[c].run = r /\ call'[c].state = "completed"
        /\ call'[c].status = call[c].status
        /\ \A d \in Call : d # c => call'[d] = call[d]
    BY <1>1, <1>2, <1>9, <2>1 DEF ConsoleTypeOK, Calls
  <2>3. CallIsKnown(c)'
    BY <1>1, <1>6, <1>7, <1>9, <2>2 DEF CallIsKnown
  <2>4. /\ card'[r].timer = card[r].timer /\ card'[r].video = card[r].video
        /\ \A x \in Run : x # r => card'[x] = card[x]
    BY <1>1, <2>1 DEF ConsoleTypeOK
  <2>5. CardRests(r)'
    BY <1>1, <1>6, <1>7, <1>8, <2>4 DEF CardRests, Removed
  <2>6. \A d \in Call : Busy(d, "generate", "register") => call'[d] = call[d]
    BY <1>1, <2>2 DEF Busy
  <2> QED BY <1>1, <1>3, <1>4, <2>2, <2>3, <2>4, <2>5, <2>6, CalmGoesOn
<1>10. CASE ~(call[c].state = "completed" /\ ~card[r].video)
  <2>1. PICK stops \in BOOLEAN : stops = StopsTimer(c) BY DEF StopsTimer
  <2>2. /\ card' = [card EXCEPT ![r].timer = @ /\ ~stops, ![r].shown = Shown(call[c].state)]
        /\ call' = [call EXCEPT ![c] = NoCall]
    BY <1>2, <1>10, <2>1 DEF PageHears, AfterPoll
  <2>3. /\ call'[c] = NoCall /\ \A d \in Call : d # c => call'[d] = call[d]
    BY <1>1, <2>2 DEF ConsoleTypeOK
  <2>4. CallIsKnown(c)' BY <2>3, KnownFromTheStart DEF NoCall
  <2>5. /\ card'[r].timer => card[r].timer
        /\ ~card'[r].timer => ~card[r].timer \/ stops
        /\ card'[r].video = card[r].video
        /\ \A x \in Run : x # r => card'[x] = card[x]
    BY <1>1, <2>2 DEF ConsoleTypeOK
  <2>6. ASSUME stops
        PROVE  /\ Seen(r) \in Ends
               /\ principal = EndpointPrincipal /\ run[r].at = "completed" =>
                     card[r].video \/ Removed(k)
    <3>1. call[c].status \in Ends BY <2>1, <2>6 DEF StopsTimer
    <3>2. Seen(r) = call[c].status BY <1>6, <3>1
    <3>3. ASSUME principal = EndpointPrincipal, run[r].at = "completed"
          PROVE  card[r].video \/ Removed(k)
      <4>1. call[c].status = "completed" BY <3>2, <3>3 DEF Seen
      <4>2. call[c].state = "completed" \/ Removed(k)
        BY <1>1, <1>5, <1>6, <1>8, <3>3, <4>1 DEF Sound, CallIsKnown
      <4> QED BY <1>10, <4>2
    <3> QED BY <3>1, <3>2, <3>3
  <2>7. CardRests(r)'
    BY <1>1, <1>6, <1>7, <1>8, <2>5, <2>6 DEF CardRests, Removed
  <2>8. \A d \in Call : Busy(d, "generate", "register") => call'[d] = call[d]
    BY <1>1, <2>3 DEF Busy
  <2> QED BY <1>1, <1>3, <1>4, <2>3, <2>4, <2>5, <2>7, <2>8, CalmGoesOn
<1> QED BY <1>9, <1>10

LEMMA PageAttachesIsCalm ==
    ASSUME ConsoleInv, Calm, NEW c \in Call, PageAttaches(c) PROVE Calm'
<1>1. /\ call[c] \in Calls /\ Busy(c, "link", "answer") /\ ConsoleTypeOK
      /\ call' = [call EXCEPT ![c] = NoCall]
      /\ UNCHANGED <<run, bucket, principal, records, byRun, faults>>
  BY DEF ConsoleInv, ConsoleTypeOK, PageAttaches, outside, registry
<1>2. Onward BY <1>1, NothingMoves
<1>3. SUFFICES ASSUME faults = 0 PROVE Calm'
  BY <1>1 DEF Calm
<1>4. call'[c] = NoCall /\ \A d \in Call : d # c => call'[d] = call[d]
  BY <1>1 DEF ConsoleTypeOK
<1>5. CallIsKnown(c)' BY <1>4, KnownFromTheStart DEF NoCall
<1>6. \A d \in Call : Busy(d, "generate", "register") => call'[d] = call[d]
  BY <1>1, <1>4 DEF Busy
<1>7. CASE call[c].run = None
  <2>1. card' = card BY <1>7 DEF PageAttaches
  <2> QED BY <1>1, <1>2, <1>3, <1>4, <1>5, <1>6, <2>1, CalmGoesOn
<1>8. CASE call[c].run # None
  <2>1. PICK r \in Run : r = call[c].run BY <1>1, <1>8 DEF Calls
  <2>2. /\ run[r].at # "none"
        /\ call[c].status \in Ends => Seen(r) = call[c].status
        /\ call[c].state = "completed" \/ Removed(CardKey(r))
    BY <1>1, <1>3, <1>8, <2>1 DEF Calm, CallIsKnown, Busy
  <2>3. PICK signed \in BOOLEAN : signed = (call[c].state = "completed") OBVIOUS
  <2>4. PICK goes \in BOOLEAN : goes = (call[c].status \notin Ends) OBVIOUS
  <2>5. card' = [card EXCEPT ![r].video = @ \/ signed, ![r].timer = @ /\ goes]
    BY <1>8, <2>1, <2>3, <2>4 DEF PageAttaches
  <2>6. /\ card'[r].timer => card[r].timer
        /\ ~card'[r].timer => ~card[r].timer \/ ~goes
        /\ card'[r].video <=> card[r].video \/ signed
        /\ \A x \in Run : x # r => card'[x] = card[x]
    BY <1>1, <2>5 DEF ConsoleTypeOK
  <2>7. CardKey(r)' = CardKey(r) /\ Seen(r)' = Seen(r) /\ bucket' = bucket
    BY <1>1 DEF CardKey, Identity, Seen
  <2>8. Pending(r) => Pending(r)' BY <1>6 DEF Pending, Busy
  <2>9. CardRests(r) BY <1>3 DEF Calm
  <2>10. CardRests(r)'
    BY <1>1, <2>2, <2>3, <2>4, <2>6, <2>7, <2>8, <2>9 DEF CardRests, Removed
  <2> QED BY <1>1, <1>2, <1>3, <1>4, <1>5, <1>6, <2>6, <2>10, CalmGoesOn
<1> QED BY <1>7, <1>8

LEMMA CalmSteps == ConsoleInv /\ Calm /\ [ConsoleNext]_consoleVars => Calm'
<1> SUFFICES ASSUME ConsoleInv, Calm, [ConsoleNext]_consoleVars PROVE Calm'
  OBVIOUS
<1>1. ASSUME NEW c \in Call, CallStep(c) PROVE Calm'
  BY <1>1, SubmitIsCalm, RegisterIsCalm, AskStatusIsCalm, ReadStateIsCalm,
     ReadManifestIsCalm, PageHearsIsCalm, PageAttachesIsCalm DEF CallStep
<1>2. ASSUME NEW c \in Call, CallFails(c) PROVE Calm'
  BY <1>2, FaultsCount DEF CallFails, ProviderFails, ReadFails, Calm
<1>3. CASE Restart BY <1>3, FaultsCount DEF Restart, Calm
<1>4. CASE UNCHANGED consoleVars
  <2>1. UNCHANGED <<run, bucket, principal, records, byRun, call, card, faults>>
    BY <1>4 DEF consoleVars, outside, registry
  <2>2. CASE faults = 0
    <3>1. Onward BY <2>1, NothingMoves
    <3> QED BY <2>1, <2>2, <3>1, CalmGoesOn
  <2> QED BY <2>1, <2>2 DEF Calm
<1> QED
  BY <1>1, <1>2, <1>3, <1>4, OutsideIsCalm, BeginIsCalm DEF ConsoleNext

\* A card that is polled no more has its video when its run was accepted, as long as
\* nothing has failed: whatever polls, submissions and runs overlap (app.js pollRun,
\* attachDelivery, results.py register).
THEOREM EndedCardsPlay == ConsoleSpec => []RestingCardsPlay
<1>1. ASSUME ConsoleInit PROVE Calm
  <2>1. ASSUME NEW c \in Call PROVE CallIsKnown(c)
    BY <1>1, ConsoleAssumption DEF ConsoleInit, CallIsKnown, NoCall, ResultState
  <2> QED BY <1>1, <2>1 DEF ConsoleInit, Calm, CardRests, NoCard
<1>2. ASSUME Calm PROVE RestingCardsPlay
  BY <1>2 DEF Calm, CardRests, Pending, RestingCardsPlay
<1> QED BY <1>1, <1>2, ConsoleStartsWell, ConsoleSteps, CalmSteps, PTL DEF ConsoleSpec

=============================================================================
