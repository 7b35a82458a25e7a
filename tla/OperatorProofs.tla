--------------------------- MODULE OperatorProofs ----------------------------
(***************************************************************************)
(* The two commands of an operator that act on a provider.                 *)
(*                                                                         *)
(* KeyInv is inductive: for any number of keys, roles, capabilities and    *)
(* failing calls, and whatever the provider grants a key, callers keep a   *)
(* key that was proved, and hold no other.                                 *)
(*                                                                         *)
(* RulesInv is inductive: for any periods and any number of edits by       *)
(* others, what `retention apply` has written and what `retention check`   *)
(* has agreed with makes the provider do what the document declares.       *)
(***************************************************************************)
EXTENDS KeyProvisioning, BucketRules, FiniteSetTheorems, TLAPS

-----------------------------------------------------------------------------
(* Keys *)


\* A role is granted capabilities only (credentials.py ROLE_CAPABILITIES).
LEMMA GrantedAreCapabilities == ASSUME role \in Role PROVE Granted[role] \subseteq Capability
BY KeyAssumption

\* The probes are operations.
LEMMA ProbesAreOperations == ASSUME role \in Role PROVE ProbeMatrix \subseteq Operation
BY GrantedAreCapabilities DEF ProbeMatrix, Operation

\* A key of which every probe shows what is expected is proved (b2_keys.py
\* provision, the probe loop).
LEMMA ProbedIsProved ==
    ASSUME role \in Role, NEW k,
           \A op \in ProbeMatrix : (op \in keys[k].may) <=> Expected(op)
    PROVE Proved(k)
<1>1. ASSUME NEW c \in Capability
      PROVE <<c, "own">> \in keys[k].may <=> c \in Granted[role]
  <2>1. <<c, "own">> \in ProbeMatrix BY DEF ProbeMatrix
  <2>2. Expected(<<c, "own">>) <=> c \in Granted[role] BY DEF Expected
  <2> QED BY <2>1, <2>2
<1>2. ASSUME NEW c \in Granted[role] PROVE <<c, "forbidden">> \notin keys[k].may
  <2>1. <<c, "forbidden">> \in ProbeMatrix BY DEF ProbeMatrix
  <2>2. ~Expected(<<c, "forbidden">>) BY DEF Expected
  <2> QED BY <2>1, <2>2
<1> QED BY <1>1, <1>2, GrantedAreCapabilities DEF Proved

\* The number of failed calls stays within its bound.
LEMMA MishapsAreBounded ==
    ASSUME mishaps \in 0 .. MaxMishaps, Mishap \/ UNCHANGED mishaps
    PROVE mishaps' \in 0 .. MaxMishaps
BY KeyAssumption DEF Mishap

\* A service that has not started holds no key.
LEMMA KeyInitHolds == KeyInit => KeyInv
<1> SUFFICES ASSUME KeyInit PROVE KeyInv OBVIOUS
<1>1. KeyTypeOK BY KeyAssumption DEF KeyInit, KeyTypeOK, NoJob, Operation
<1> QED BY <1>1, KeyAssumption DEF KeyInv, KeyInit, ActivatedIsProved, RotationKeepsAccess,
                                   JobIsSound, Live, NoJob

-----------------------------------------------------------------------------
(* One lemma per step *)

\* provision begins.
LEMMA BeginProvisionKeeps == ASSUME KeyInv, BeginProvision PROVE KeyInv'
  BY DEF KeyInv, BeginProvision, KeyTypeOK, NoJob, ActivatedIsProved,
         RotationKeepsAccess, JobIsSound, Live, Proved

\* create_key: the new key is nobody's, and differs from the holder's and from
\* every live one (b2_keys.py:83-96).
LEMMA CreateKeyKeeps == ASSUME KeyInv, CreateKey PROVE KeyInv'
<1> USE DEF KeyInv
<1>1. CASE Mishap /\ job' = NoJob /\ UNCHANGED keys
  <2>1. UNCHANGED <<keys, role, holder>> BY <1>1 DEF CreateKey
  <2>2. KeyTypeOK' BY <1>1, <2>1, MishapsAreBounded DEF KeyTypeOK, NoJob
  <2>3. Live' = Live /\ \A k : Proved(k)' <=> Proved(k) BY <2>1 DEF Live, Proved
  <2> QED BY <1>1, <2>1, <2>2, <2>3 DEF NoJob, ActivatedIsProved, RotationKeepsAccess, JobIsSound
<1>2. ASSUME NEW k \in KeyId, NEW may \in Outcomes, keys[k].at = "none",
             keys' = [keys EXCEPT ![k] = [at |-> "live", may |-> may]],
             \/ job' = [at |-> "probe", key |-> k, todo |-> ProbeMatrix] /\ UNCHANGED mishaps
             \/ Mishap /\ job' = NoJob
      PROVE KeyInv'
  <2>1. may \in SUBSET Operation BY DEF Outcomes
  <2>2. KeyTypeOK'
    BY <1>2, <2>1, ProbesAreOperations, MishapsAreBounded DEF CreateKey, KeyTypeOK, NoJob
  <2>3. role' = role /\ holder' = holder BY DEF CreateKey
  <2>4. holder # k BY <1>2, KeyAssumption DEF JobIsSound
  <2>5. \A x \in KeyId : x # k => keys'[x] = keys[x] BY <1>2 DEF KeyTypeOK
  <2>6. keys'[k] = [at |-> "live", may |-> may] BY <1>2 DEF KeyTypeOK
  <2>7. ProbeMatrix' = ProbeMatrix BY <2>3 DEF ProbeMatrix
  <2>8. \A x \in KeyId : x # k => (Proved(x) <=> Proved(x)') BY <2>3, <2>5 DEF Proved
  <2>9. ActivatedIsProved'
    BY <2>3, <2>4, <2>5, <2>8 DEF ActivatedIsProved, Live
  <2>10. RotationKeepsAccess'
    <3> SUFFICES ASSUME holder' # NoKey
                 PROVE \E x \in Live' :
                          Proved(x)' /\ (job'.at \in {"probe", "undo"} => x # job'.key)
      BY DEF RotationKeepsAccess
    <3>1. PICK x \in Live : Proved(x) BY <2>3 DEF RotationKeepsAccess
    <3>2. x \in KeyId /\ x # k BY <1>2, <3>1 DEF Live
    <3>3. x \in Live' /\ Proved(x)' BY <2>5, <2>8, <3>1, <3>2 DEF Live
    <3> QED BY <1>2, <3>2, <3>3 DEF NoJob
  <2>11. JobIsSound'
    BY <1>2, <2>3, <2>4, <2>5, <2>6, <2>7 DEF JobIsSound, Live, NoJob, KeyTypeOK
  <2> QED BY <2>2, <2>9, <2>10, <2>11
<1> QED BY <1>1, <1>2 DEF CreateKey

\* A probe: the last one that shows what is expected proves the key, which is
\* then active or about to replace the holder's (b2_keys.py:92-135).
LEMMA ProbeNextKeeps == ASSUME KeyInv, ProbeNext PROVE KeyInv'
<1> USE DEF KeyInv
<1>1. UNCHANGED <<keys, role, mishaps>> /\ job.at = "probe" BY DEF ProbeNext
<1>2. Live' = Live /\ \A k : Proved(k)' <=> Proved(k) BY <1>1 DEF Live, Proved
<1>3. job.key \in Live \ {holder} /\ job.key \in KeyId BY <1>1 DEF JobIsSound, Live
<1>4. PICK op \in job.todo :
        IF (op \in keys[job.key].may) # Expected(op)
        THEN job' = [job EXCEPT !.at = "undo"] /\ UNCHANGED holder
        ELSE IF job.todo = {op} THEN Activate
        ELSE job' = [job EXCEPT !.todo = @ \ {op}] /\ UNCHANGED holder
  BY DEF ProbeNext
<1>5. CASE job' = [job EXCEPT !.at = "undo"] /\ UNCHANGED holder
  BY <1>1, <1>2, <1>3, <1>5 DEF KeyTypeOK, ActivatedIsProved, RotationKeepsAccess, JobIsSound
<1>6. CASE job' = [job EXCEPT !.todo = @ \ {op}] /\ UNCHANGED holder
           /\ ((op \in keys[job.key].may) <=> Expected(op))
  <2>1. ProbeMatrix' = ProbeMatrix /\ \A x : Expected(x)' <=> Expected(x)
    BY <1>1 DEF ProbeMatrix, Expected
  <2>2. job'.at = "probe" /\ job'.key = job.key /\ job'.todo = job.todo \ {op}
    BY <1>1, <1>6 DEF KeyTypeOK
  <2>3. JobIsSound'
    BY <1>1, <1>2, <1>6, <2>1, <2>2 DEF JobIsSound
  <2>4. KeyTypeOK' BY <1>1, <1>6 DEF KeyTypeOK
  <2> QED BY <1>1, <1>2, <1>6, <2>2, <2>3, <2>4 DEF ActivatedIsProved, RotationKeepsAccess
<1>7. CASE job.todo = {op} /\ Activate /\ ((op \in keys[job.key].may) <=> Expected(op))
  <2>1. \A x \in ProbeMatrix : (x \in keys[job.key].may) <=> Expected(x)
    BY <1>1, <1>7 DEF JobIsSound
  <2>2. Proved(job.key) BY <2>1, ProbedIsProved DEF KeyTypeOK
  <2>3. CASE holder = NoKey /\ holder' = job.key /\ job' = NoJob
    <3>1. KeyTypeOK' BY <1>1, <1>3, <2>3 DEF KeyTypeOK, NoJob
    <3> QED BY <1>1, <1>2, <1>3, <2>2, <2>3, <3>1
            DEF ActivatedIsProved, RotationKeepsAccess, JobIsSound, NoJob, Live
  <2>4. CASE holder # NoKey /\ job' = [job EXCEPT !.at = "retire", !.todo = {}] /\ UNCHANGED holder
    <3>1. job'.at = "retire" /\ job'.key = job.key BY <2>4 DEF KeyTypeOK
    <3>2. KeyTypeOK' BY <1>1, <2>4 DEF KeyTypeOK
    <3> QED BY <1>1, <1>2, <1>3, <2>2, <2>4, <3>1, <3>2
            DEF ActivatedIsProved, RotationKeepsAccess, JobIsSound
  <2> QED BY <1>7, <2>3, <2>4 DEF Activate
<1> QED BY <1>4, <1>5, <1>6, <1>7

\* A probe that raises, or is cancelled: the key stays on trial, or is forgotten.
LEMMA ProbeFailsKeeps == ASSUME KeyInv, ProbeFails PROVE KeyInv'
<1> USE DEF KeyInv
<1>1. UNCHANGED <<keys, role, holder>> /\ job.at = "probe" BY DEF ProbeFails
<1>2. KeyTypeOK' BY MishapsAreBounded DEF ProbeFails, KeyTypeOK, NoJob
<1>3. CASE job' = [job EXCEPT !.at = "undo"]
  <2>1. job'.at = "undo" /\ job'.key = job.key BY <1>3 DEF KeyTypeOK
  <2> QED BY <1>1, <1>2, <2>1 DEF ActivatedIsProved, RotationKeepsAccess, JobIsSound, Live, Proved
<1>4. CASE job' = NoJob
  BY <1>1, <1>2, <1>4 DEF ActivatedIsProved, RotationKeepsAccess, JobIsSound, Live, Proved, NoJob
<1> QED BY <1>3, <1>4 DEF ProbeFails

\* The key on trial is revoked; it is neither the holder's nor the proved one
\* that access rests on (b2_keys.py:113-119).
LEMMA UndoKeeps == ASSUME KeyInv, Undo PROVE KeyInv'
<1> USE DEF KeyInv
<1>1. UNCHANGED <<role, holder>> /\ job.at = "undo" /\ job' = NoJob BY DEF Undo
<1>2. job.key \in KeyId /\ job.key # holder BY <1>1 DEF JobIsSound, Live
<1>3. KeyTypeOK' BY <1>1, <1>2, MishapsAreBounded DEF Undo, Revoked, KeyTypeOK, NoJob
<1>4. \A x \in KeyId : x # job.key => keys'[x] = keys[x]
  BY DEF Undo, Revoked, KeyTypeOK
<1>5. \A x \in KeyId : x # job.key => (Proved(x) <=> Proved(x)') /\ (x \in Live <=> x \in Live')
  BY <1>1, <1>4 DEF Proved, Live
<1>6. ActivatedIsProved'
  BY <1>1, <1>2, <1>5 DEF ActivatedIsProved, Live
<1>7. RotationKeepsAccess'
  <2> SUFFICES ASSUME holder' # NoKey PROVE \E x \in Live' : Proved(x)'
    BY <1>1 DEF RotationKeepsAccess, NoJob
  <2>1. PICK x \in Live : Proved(x) /\ x # job.key BY <1>1 DEF RotationKeepsAccess
  <2> QED BY <1>5, <2>1 DEF Live
<1>8. JobIsSound'
  BY <1>1, <1>2, <1>4, KeyAssumption DEF JobIsSound, NoJob, KeyTypeOK
<1> QED BY <1>3, <1>6, <1>7, <1>8

\* The prior key is revoked, or not; the replacement has been proved and stays
\* (b2_keys.py:126-139).
LEMMA RetireKeeps == ASSUME KeyInv, Retire PROVE KeyInv'
<1> USE DEF KeyInv
<1>1. UNCHANGED role /\ job.at = "retire" /\ job' = NoJob BY DEF Retire
<1>2. PICK new \in KeyId : /\ new = job.key /\ new # holder /\ keys[new].at = "live"
                           /\ holder \in KeyId /\ Proved(new)
  BY <1>1 DEF JobIsSound, Live, KeyTypeOK
<1>3. KeyTypeOK'
  BY <1>1, <1>2, MishapsAreBounded DEF Retire, Revoked, KeyTypeOK, NoJob
<1>4. \A x \in KeyId : x # holder => keys'[x] = keys[x] BY DEF Retire, Revoked, KeyTypeOK
<1>5. new \in Live' /\ Proved(new)' BY <1>1, <1>2, <1>4 DEF Live, Proved
<1>6. RotationKeepsAccess' BY <1>1, <1>5 DEF RotationKeepsAccess, NoJob
<1>7. CASE UNCHANGED <<keys, holder>>
  BY <1>1, <1>3, <1>6, <1>7 DEF ActivatedIsProved, JobIsSound, NoJob, Live, Proved
<1>8. CASE keys' = Revoked(holder)
  <2>1. keys'[holder] = [at |-> "revoked", may |-> {}] BY <1>2, <1>8 DEF Revoked, KeyTypeOK
  <2>2. holder' \in {new, holder} BY <1>2 DEF Retire
  <2>3. CASE holder' = new BY <1>1, <1>2, <1>3, <1>4, <1>5, <1>6, <2>3
                             DEF ActivatedIsProved, JobIsSound, NoJob, Live
  <2>4. CASE holder' = holder BY <1>1, <1>3, <1>6, <2>1, <2>4
                                 DEF ActivatedIsProved, JobIsSound, NoJob, Live
  <2> QED BY <2>2, <2>3, <2>4
<1> QED BY <1>7, <1>8 DEF Retire

-----------------------------------------------------------------------------
(* Theorems *)

\* Every step of a provisioning or a rotation keeps what KeyInv says.
LEMMA KeyStepKeeps == KeyInv /\ [KeyNext]_keyVars => KeyInv'
<1> SUFFICES ASSUME KeyInv, [KeyNext]_keyVars PROVE KeyInv' OBVIOUS
<1>1. CASE BeginProvision BY <1>1, BeginProvisionKeeps
<1>2. CASE CreateKey BY <1>2, CreateKeyKeeps
<1>3. CASE ProbeNext BY <1>3, ProbeNextKeeps
<1>4. CASE ProbeFails BY <1>4, ProbeFailsKeeps
<1>5. CASE Undo BY <1>5, UndoKeeps
<1>6. CASE Retire BY <1>6, RetireKeeps
<1>7. CASE UNCHANGED keyVars
  BY <1>7 DEF keyVars, KeyInv, KeyTypeOK, ActivatedIsProved, RotationKeepsAccess, JobIsSound,
             Live, Proved, ProbeMatrix, Expected
<1> QED BY <1>1, <1>2, <1>3, <1>4, <1>5, <1>6, <1>7 DEF KeyNext

\* KeyInv holds at every step of any sequence of provisionings and rotations,
\* whichever calls fail and whatever the provider enforces (b2_keys.py:73-139).
THEOREM KeyInvariant == KeySpec => []KeyInv
<1>1. KeyInit => KeyInv BY KeyInitHolds
<1>2. KeyInv /\ [KeyNext]_keyVars => KeyInv' BY KeyStepKeeps
<1> QED BY <1>1, <1>2, PTL DEF KeySpec

\* Once a key is active some live key has always been proved, and the active one,
\* as long as it lives, is one of these (b2_keys.py:92-139).
THEOREM AccessIsKept == KeySpec => [](ActivatedIsProved /\ RotationKeepsAccess)
<1>1. KeyInv => ActivatedIsProved /\ RotationKeepsAccess BY DEF KeyInv
<1> QED BY <1>1, KeyInvariant, PTL

-----------------------------------------------------------------------------
(* Strays *)

\* The live keys that neither a caller nor the job at hand answers for.
Strays == Live \ {holder, job.key}

\* As many failed calls as strays, at most; a job that has no key yet names none.
StraysInv ==
    /\ IsFiniteSet(Live)
    /\ Cardinality(Strays) <= mishaps
    /\ job.at \in {"idle", "create"} => job.key = NoKey

\* A set that gains one member at most grows by one at most, and one that gains
\* none does not grow.
LEMMA OneMore ==
    ASSUME NEW S, IsFiniteSet(S), NEW m \in Nat, Cardinality(S) <= m, NEW T
    PROVE  /\ T \subseteq S => Cardinality(T) <= m
           /\ \A x : T \subseteq S \cup {x} => Cardinality(T) <= m + 1
<1>1. Cardinality(S) \in Nat BY FS_CardinalityType
<1>2. ASSUME T \subseteq S PROVE Cardinality(T) <= m
  <2>1. IsFiniteSet(T) /\ Cardinality(T) <= Cardinality(S) BY <1>2, FS_Subset
  <2>2. Cardinality(T) \in Nat BY <2>1, FS_CardinalityType
  <2> QED BY <1>1, <2>1, <2>2
<1>3. ASSUME NEW x, T \subseteq S \cup {x} PROVE Cardinality(T) <= m + 1
  <2>1. PICK n \in Nat : n = Cardinality(S \cup {x}) /\ n <= m + 1 /\ IsFiniteSet(S \cup {x})
    <3>1. /\ IsFiniteSet(S \cup {x})
          /\ Cardinality(S \cup {x}) = IF x \in S THEN Cardinality(S) ELSE Cardinality(S) + 1
      BY FS_AddElement
    <3>2. PICK c \in Nat : c = Cardinality(S) BY <1>1
    <3>3. c <= m BY <3>2
    <3>4. Cardinality(S \cup {x}) = c \/ Cardinality(S \cup {x}) = c + 1 BY <3>1, <3>2
    <3> QED BY <3>1, <3>3, <3>4
  <2>2. IsFiniteSet(T) /\ Cardinality(T) <= Cardinality(S \cup {x}) BY <1>3, <2>1, FS_Subset
  <2>3. Cardinality(T) \in Nat BY <2>2, FS_CardinalityType
  <2> QED BY <2>1, <2>2, <2>3
<1> QED BY <1>2, <1>3

\* A key becomes a stray only in a step that counts a failed call: its answer is
\* lost, its probes are cancelled, or its revocation fails; or it is the prior key
\* whose place was not taken over (b2_keys.py:83-139).
LEMMA StraysFollowMishaps ==
    ASSUME KeyInv, StraysInv, KeyNext
    PROVE  /\ \/ Strays' \subseteq Strays /\ UNCHANGED mishaps
              \/ \E k : Strays' \subseteq Strays \cup {k} /\ mishaps' = mishaps + 1
           /\ \E k : Live' \subseteq Live \cup {k}
           /\ job'.at \in {"idle", "create"} => job'.key = NoKey
<1> USE DEF KeyInv
<1>1. holder \in KeyId \cup {NoKey} /\ NoKey \notin Live
  BY KeyAssumption DEF KeyTypeOK, Live
<1>2. CASE BeginProvision
  <2>1. /\ UNCHANGED <<keys, holder, mishaps>> /\ job.at = "idle"
        /\ job'.at = "create" /\ job'.key = NoKey
    BY <1>2 DEF BeginProvision, NoJob
  <2>2. Live' = Live /\ Strays' = Strays BY <2>1 DEF Live, Strays, StraysInv
  <2> QED BY <2>1, <2>2
<1>3. CASE CreateKey
  <2>1. job.key = NoKey /\ UNCHANGED holder BY <1>3 DEF CreateKey, StraysInv
  <2>2. CASE Mishap /\ job' = NoJob /\ UNCHANGED keys
    BY <2>1, <2>2 DEF Live, Strays, Mishap, NoJob
  <2>3. ASSUME NEW k \in KeyId, NEW may,
               keys' = [keys EXCEPT ![k] = [at |-> "live", may |-> may]],
               \/ job' = [at |-> "probe", key |-> k, todo |-> ProbeMatrix] /\ UNCHANGED mishaps
               \/ Mishap /\ job' = NoJob
        PROVE  /\ \/ Strays' \subseteq Strays /\ UNCHANGED mishaps
                  \/ \E x : Strays' \subseteq Strays \cup {x} /\ mishaps' = mishaps + 1
               /\ \E x : Live' \subseteq Live \cup {x}
               /\ job'.at \in {"idle", "create"} => job'.key = NoKey
    <3>1. Live' = Live \cup {k} BY <2>3 DEF Live, KeyTypeOK
    <3>2. CASE job' = [at |-> "probe", key |-> k, todo |-> ProbeMatrix] /\ UNCHANGED mishaps
      <4>1. Strays' \subseteq Strays BY <1>1, <2>1, <3>1, <3>2 DEF Strays
      <4> QED BY <3>1, <3>2, <4>1
    <3>3. CASE Mishap /\ job' = NoJob
      <4>1. Strays' \subseteq Strays \cup {k} BY <1>1, <2>1, <3>1, <3>3 DEF Strays
      <4> QED BY <3>1, <3>3, <4>1 DEF Mishap, NoJob
    <3> QED BY <2>3, <3>2, <3>3
  <2> QED BY <1>3, <2>2, <2>3 DEF CreateKey
<1>4. CASE ProbeNext
  <2>1. UNCHANGED <<keys, mishaps>> /\ job.at = "probe" BY <1>4 DEF ProbeNext
  <2>2. Live' = Live BY <2>1 DEF Live
  <2>3. \/ UNCHANGED holder /\ job'.at \in {"probe", "undo", "retire"} /\ job'.key = job.key
        \/ holder = NoKey /\ holder' = job.key /\ job' = NoJob
    BY <1>4, <2>1 DEF ProbeNext, Activate, KeyTypeOK
  <2>4. Strays' \subseteq Strays BY <1>1, <2>2, <2>3 DEF Strays, NoJob
  <2> QED BY <2>1, <2>2, <2>3, <2>4 DEF NoJob
<1>5. CASE ProbeFails
  <2>1. UNCHANGED <<keys, holder>> /\ mishaps' = mishaps + 1
    BY <1>5 DEF ProbeFails, Mishap
  <2>2. Live' = Live BY <2>1 DEF Live
  <2>3. job'.at = "undo" \/ job' = NoJob BY <1>5 DEF ProbeFails, KeyTypeOK
  <2>4. Strays' \subseteq Strays \cup {job.key} BY <2>1, <2>2 DEF Strays
  <2> QED BY <2>1, <2>2, <2>3, <2>4 DEF NoJob
<1>6. CASE Undo
  <2>1. UNCHANGED holder /\ job' = NoJob BY <1>6 DEF Undo
  <2>2. CASE keys' = Revoked(job.key) /\ UNCHANGED mishaps
    <3>1. Live' = Live \ {job.key} BY <2>2 DEF Live, Revoked, KeyTypeOK
    <3>2. Strays' \subseteq Strays BY <1>1, <2>1, <3>1 DEF Strays
    <3> QED BY <2>1, <2>2, <3>1, <3>2 DEF NoJob
  <2>3. CASE Mishap /\ UNCHANGED keys
    <3>1. Live' = Live BY <2>3 DEF Live
    <3>2. Strays' \subseteq Strays \cup {job.key} BY <2>1, <3>1 DEF Strays
    <3> QED BY <2>1, <2>3, <3>1, <3>2 DEF Mishap, NoJob
  <2> QED BY <1>6, <2>2, <2>3 DEF Undo
<1>7. CASE Retire
  <2>1. job' = NoJob BY <1>7 DEF Retire
  <2>2. keys' = Revoked(holder) => Live' = Live \ {holder} BY DEF Live, Revoked, KeyTypeOK
  <2>3. CASE keys' = Revoked(holder) /\ holder' = job.key /\ UNCHANGED mishaps
    <3>1. Strays' \subseteq Strays BY <2>2, <2>3 DEF Strays
    <3> QED BY <2>1, <2>2, <2>3, <3>1 DEF NoJob
  <2>4. CASE keys' = Revoked(holder) /\ Mishap /\ UNCHANGED holder
    <3>1. Strays' \subseteq Strays \cup {job.key} BY <2>2, <2>4 DEF Strays
    <3> QED BY <2>1, <2>2, <2>4, <3>1 DEF NoJob, Mishap
  <2>5. CASE Mishap /\ UNCHANGED <<keys, holder>>
    <3>1. Live' = Live BY <2>5 DEF Live
    <3>2. Strays' \subseteq Strays \cup {job.key} BY <2>5, <3>1 DEF Strays
    <3> QED BY <2>1, <2>5, <3>1, <3>2 DEF NoJob, Mishap
  <2> QED BY <1>7, <2>3, <2>4, <2>5 DEF Retire
<1> QED BY <1>2, <1>3, <1>4, <1>5, <1>6, <1>7 DEF KeyNext

\* The account of strays is kept at every step.
LEMMA StraysStepKeeps == KeyInv /\ StraysInv /\ [KeyNext]_keyVars => StraysInv'
<1> SUFFICES ASSUME KeyInv, StraysInv, [KeyNext]_keyVars PROVE StraysInv' OBVIOUS
<1>1. CASE UNCHANGED keyVars BY <1>1 DEF keyVars, StraysInv, Strays, Live
<1>2. CASE KeyNext
  <2>1. PICK m \in Nat : m = mishaps /\ Cardinality(Strays) <= m
    BY KeyAssumption DEF KeyInv, KeyTypeOK, StraysInv
  <2>2. IsFiniteSet(Strays) BY FS_Subset DEF Strays, StraysInv
  <2>3. IsFiniteSet(Live')
    <3>1. PICK k : Live' \subseteq Live \cup {k} BY <1>2, StraysFollowMishaps
    <3>2. IsFiniteSet(Live \cup {k}) BY FS_AddElement DEF StraysInv
    <3> QED BY <3>1, <3>2, FS_Subset
  <2>4. CASE Strays' \subseteq Strays /\ UNCHANGED mishaps
    <3>1. Cardinality(Strays') <= m BY <2>1, <2>2, <2>4, OneMore
    <3> QED BY <1>2, <2>1, <2>3, <2>4, <3>1, StraysFollowMishaps DEF StraysInv
  <2>5. CASE \E k : Strays' \subseteq Strays \cup {k} /\ mishaps' = mishaps + 1
    <3>1. Cardinality(Strays') <= m + 1 BY <2>1, <2>2, <2>5, OneMore
    <3> QED BY <1>2, <2>1, <2>3, <2>5, <3>1, StraysFollowMishaps DEF StraysInv
  <2> QED BY <1>2, <2>4, <2>5, StraysFollowMishaps
<1> QED BY <1>1, <1>2

\* Between two commands each live key that callers do not hold stands for a call
\* that failed or was cancelled (b2_keys.py:116-139).
THEOREM EveryStrayIsAFailure == KeySpec => []StraysAreAccounted
<1>1. KeyInit => StraysInv
  <2> SUFFICES ASSUME KeyInit PROVE StraysInv OBVIOUS
  <2>1. Live = {} BY DEF KeyInit, Live
  <2>2. Strays = {} BY <2>1 DEF Strays
  <2> QED BY <2>1, <2>2, FS_EmptySet DEF StraysInv, KeyInit, NoJob
<1>2. KeyInv /\ StraysInv => StraysAreAccounted
  <2> SUFFICES ASSUME KeyInv, StraysInv, job = NoJob
               PROVE  Cardinality(Live \ {holder}) <= mishaps
    BY DEF StraysAreAccounted
  <2>1. NoKey \notin Live /\ job.key = NoKey BY KeyAssumption DEF Live, NoJob
  <2>2. Strays = Live \ {holder} BY <2>1 DEF Strays
  <2> QED BY <2>2 DEF StraysInv
<1> QED BY <1>1, <1>2, KeyInitHolds, KeyStepKeeps, StraysStepKeeps, PTL DEF KeySpec

-----------------------------------------------------------------------------
(* Rules *)


Documents == [RetainedClass -> Declarable]

\* The least member of a set of one number.
LEMMA LeastOfOne == ASSUME NEW x \in Int PROVE Min({x}) = x
BY DEF Min

\* The projected rules are rules (lifecycle_rules.py project).
LEMMA ProjectedAreRules ==
    ASSUME NEW d \in Documents, Valid(d)
    PROVE  /\ Project(d) \in InForce
           /\ Project(d)[INPUT_PREFIX] \in Rule
           /\ Project(d)[""] \in Rule
           /\ Project(d)["outputs/"] = NoRule
<1>1. \A c \in RetainedClass : d[c] \in 1 .. MaxDays BY DEF Valid
<1>2. d["input"] \in Period /\ d["hidden-version"] \in Period /\ d["multipart"] \in Period
  BY <1>1 DEF RetainedClass, Period
<1>3. 1 \in Period /\ NoDays \in Period BY RulesAssumption DEF Period
<1>4. [hide |-> d["input"], delete |-> 1, cancel |-> NoDays] \in Rule
  BY <1>2, <1>3 DEF Rule
<1>5. [hide |-> NoDays, delete |-> d["hidden-version"], cancel |-> d["multipart"]] \in Rule
  BY <1>2, <1>3 DEF Rule
<1> QED BY <1>4, <1>5 DEF Project, Empty, InForce, Prefix, INPUT_PREFIX

\* Rules that do not drift are the projected ones (lifecycle_rules.py detect_drift).
LEMMA UndriftedIsProjected ==
    ASSUME NEW d \in Documents, Valid(d), NEW s \in InForce, ~Drifts(d, s)
    PROVE  s = Project(d)
<1>1. Project(d) \in InForce BY ProjectedAreRules
<1>2. \A p \in Prefix : s[p] = Project(d)[p] BY DEF Drifts
<1> HIDE DEF Project
<1> QED BY <1>1, <1>2 DEF InForce

\* Of the two rules that match an input, the one of its prefix hides it, and no
\* other period is declared twice; nothing but the empty prefix matches an output.
LEMMA TwoRulesEnforce ==
    ASSUME NEW s, NEW x \in Int, NEW y \in Int, NEW z \in Int,
           s[INPUT_PREFIX] \in Rule, s[""] \in Rule, s["outputs/"] \notin Rule,
           s[INPUT_PREFIX].hide = x, s[INPUT_PREFIX].cancel = NoDays,
           s[""].hide = NoDays, s[""].delete = y, s[""].cancel = z
    PROVE  /\ Effective(s, INPUT_PREFIX, "hide") = x
           /\ Effective(s, "outputs/", "hide") = NoDays
           /\ Effective(s, "outputs/", "delete") = y
           /\ Effective(s, INPUT_PREFIX, "cancel") = z
           /\ Effective(s, "outputs/", "cancel") = z
<1>2. x # NoDays /\ y # NoDays /\ z # NoDays
  BY RulesAssumption
<1>3. {q \in {INPUT_PREFIX, ""} : s[q] \in Rule} = {INPUT_PREFIX, ""}
  OBVIOUS
<1>4. {q \in {"outputs/", ""} : s[q] \in Rule} = {""}
  OBVIOUS
<1>5. /\ {s[p]["hide"] : p \in {INPUT_PREFIX, ""}} \ {NoDays} = {x}
      /\ {s[p]["hide"] : p \in {""}} \ {NoDays} = {}
      /\ {s[p]["delete"] : p \in {""}} \ {NoDays} = {y}
      /\ {s[p]["cancel"] : p \in {INPUT_PREFIX, ""}} \ {NoDays} = {z}
      /\ {s[p]["cancel"] : p \in {""}} \ {NoDays} = {z}
  BY <1>2
<1>6. Min({x}) = x /\ Min({y}) = y /\ Min({z}) = z
  BY LeastOfOne
<1> QED BY <1>3, <1>4, <1>5, <1>6 DEF Effective

\* The projected rules enforce the policy and can be read back.
LEMMA ProjectionEnforces ==
    ASSUME NEW d \in Documents, Valid(d)
    PROVE  Enforces(Project(d), d) /\ ~Undecodable(Project(d))
<1>1. PICK input : input = [hide |-> d["input"], delete |-> 1, cancel |-> NoDays]
  OBVIOUS
<1>2. PICK any : any = [hide |-> NoDays, delete |-> d["hidden-version"], cancel |-> d["multipart"]]
  OBVIOUS
<1>3. /\ Project(d)[INPUT_PREFIX] = input
      /\ Project(d)[""] = any
      /\ Project(d)["outputs/"] = NoRule
  BY <1>1, <1>2 DEF Project, Empty, Prefix, INPUT_PREFIX
<1>4. input \in Rule /\ any \in Rule /\ NoRule \notin Rule
  BY <1>3, ProjectedAreRules, RuleAssumption
<1>5. PICK x \in Int, y \in Int, z \in Int :
        x = d["input"] /\ y = d["hidden-version"] /\ y >= 1 /\ z = d["multipart"]
  BY DEF Valid, RetainedClass
<1>6. Enforces(Project(d), d)
  <2>1. input.hide = x /\ input.cancel = NoDays
    BY <1>1, <1>5
  <2>2. any.hide = NoDays /\ any.delete = y /\ any.cancel = z
    BY <1>2, <1>5
  <2>3. /\ Effective(Project(d), INPUT_PREFIX, "hide") = x
        /\ Effective(Project(d), "outputs/", "hide") = NoDays
        /\ Effective(Project(d), "outputs/", "delete") = y
        /\ Effective(Project(d), INPUT_PREFIX, "cancel") = z
        /\ Effective(Project(d), "outputs/", "cancel") = z
    <3> HIDE DEF Project, Effective
    <3> QED BY <1>3, <1>4, <2>1, <2>2, TwoRulesEnforce
  <2> QED BY <2>3, <1>5 DEF Enforces
<1>7. /\ input # Malformed /\ any # Malformed /\ NoRule # Malformed
  BY <1>4, RuleAssumption
<1>8. /\ "delete" \in DOMAIN input /\ input["delete"] \notin {0, NoDays}
      /\ "delete" \in DOMAIN any /\ any["delete"] \notin {0, NoDays}
  BY <1>1, <1>2, <1>5, RulesAssumption
<1>9. ~Undecodable(Project(d))
  BY <1>3, <1>4, <1>7, <1>8 DEF Undecodable, Prefix, INPUT_PREFIX
<1> QED BY <1>6, <1>9

\* What a command agrees with or has written, it enforces.
LEMMA ProjectedIsEnforced ==
    ASSUME RulesTypeOK, ActsForAPolicy, MatchIsProjected, AppliedIsProjected
    PROVE  RulesInv
<1>1. cmd.seen \in InForce /\ cmd.policy \in Documents /\ document \in Documents
      /\ rules \in InForce
  BY DEF RulesTypeOK, Documents
<1>2. MatchIsEnforced
  BY <1>1, UndriftedIsProjected, ProjectionEnforces DEF MatchIsEnforced, MatchIsProjected
<1>3. AppliedIsEnforced
  BY <1>1, UndriftedIsProjected, ProjectionEnforces DEF AppliedIsEnforced, AppliedIsProjected
<1> QED BY <1>2, <1>3 DEF RulesInv

\* The same of the state that a step leads to.
LEMMA ProjectedIsEnforcedNext ==
    ASSUME RulesTypeOK', ActsForAPolicy', MatchIsProjected', AppliedIsProjected'
    PROVE  RulesInv'
<1>1. cmd'.seen \in InForce /\ cmd'.policy \in Documents /\ document' \in Documents
      /\ rules' \in InForce
  BY DEF RulesTypeOK, Documents
<1>2. MatchIsEnforced'
  BY <1>1, UndriftedIsProjected, ProjectionEnforces DEF MatchIsEnforced, MatchIsProjected
<1>3. AppliedIsEnforced'
  BY <1>1, UndriftedIsProjected, ProjectionEnforces DEF AppliedIsEnforced, AppliedIsProjected
<1> QED BY <1>2, <1>3 DEF RulesInv

\* A rule with another period is a rule.
LEMMA EditedIsRule ==
    ASSUME NEW r \in Rule, NEW f \in DOMAIN Empty, NEW days \in 1 .. MaxDays
    PROVE  [r EXCEPT ![f] = days] \in Rule
<1>1. f \in {"hide", "delete", "cancel"} BY DEF Empty
<1>2. days \in Period BY DEF Period
<1>3. CASE f = "hide" BY <1>2, <1>3 DEF Rule
<1>4. CASE f = "delete" BY <1>2, <1>4 DEF Rule
<1>5. CASE f = "cancel" BY <1>2, <1>5 DEF Rule
<1> QED BY <1>1, <1>3, <1>4, <1>5

-----------------------------------------------------------------------------
(* The steps: types first, then what a command acts for and agrees with *)

\* No rule is there, and the document is one that loads.
LEMMA RulesStartWell == ASSUME RulesInit PROVE RulesInv
<1>1. RulesTypeOK
  <2>1. document \in Documents
    BY RulesAssumption DEF RulesInit, Documents, Declarable
  <2>2. rules \in InForce BY DEF RulesInit, InForce
  <2> QED BY <2>1, <2>2, RulesAssumption DEF RulesInit, RulesTypeOK, Documents
<1>2. ActsForAPolicy /\ MatchIsProjected /\ AppliedIsProjected
  BY DEF RulesInit, ActsForAPolicy, MatchIsProjected, AppliedIsProjected
<1> QED BY <1>1, <1>2, ProjectedIsEnforced DEF RulesInv

\* Others edit the document or the rules.
LEMMA EditKeeps == ASSUME RulesInv, EditDocument \/ EditRules PROVE RulesInv'
<1> USE DEF RulesInv
<1>1. RulesTypeOK'
  <2>1. edits' \in 0 .. MaxEdits /\ edited' \in BOOLEAN /\ UNCHANGED cmd
    <3>1. edits \in 0 .. MaxEdits /\ edits < MaxEdits /\ edits' = edits + 1
      BY DEF EditDocument, EditRules, RulesTypeOK
    <3>2. edited' = TRUE /\ UNCHANGED cmd
      BY DEF EditDocument, EditRules
    <3> QED BY <3>1, <3>2, RulesAssumption
  <2>2. document' \in Documents
    BY DEF EditDocument, EditRules, RulesTypeOK, Documents
  <2>3. rules' \in InForce
    <3>1. CASE EditDocument BY <3>1 DEF EditDocument, RulesTypeOK
    <3>2. ASSUME NEW p \in Prefix, NEW f \in DOMAIN Empty, NEW days \in 1 .. MaxDays,
                 rules' = [rules EXCEPT ![p] =
                [(IF rules[p] \in {NoRule, Malformed} THEN Empty ELSE rules[p]) EXCEPT ![f] = days]]
          PROVE rules' \in InForce
      <4>1. Empty \in Rule BY DEF Empty, Rule, Period
      <4> DEFINE r == IF rules[p] \in {NoRule, Malformed} THEN Empty ELSE rules[p]
      <4>2. r \in Rule BY <4>1 DEF RulesTypeOK, InForce
      <4>3. [r EXCEPT ![f] = days] \in Rule BY <4>2, EditedIsRule
      <4> QED BY <3>2, <4>3 DEF RulesTypeOK, InForce
    <3>3. ASSUME NEW p \in Prefix, NEW r \in {NoRule, Malformed}, rules' = [rules EXCEPT ![p] = r]
          PROVE rules' \in InForce
      BY <3>3 DEF RulesTypeOK, InForce
    <3> QED BY <3>1, <3>2, <3>3 DEF EditRules
  <2> QED BY <2>1, <2>2, <2>3 DEF RulesTypeOK, Documents
<1>2. ActsForAPolicy' /\ MatchIsProjected' /\ AppliedIsProjected'
  BY DEF EditDocument, EditRules, ActsForAPolicy, MatchIsProjected, AppliedIsProjected
<1> QED BY <1>1, <1>2, ProjectedIsEnforcedNext

\* A command begins with the policy it has loaded, or does not.
LEMMA BeginKeeps ==
    ASSUME RulesInv, NEW step \in {"write", "read"}, BeginRetention(step)
    PROVE  RulesInv'
<1> USE DEF RulesInv
<1>1. RulesTypeOK'
  BY DEF BeginRetention, RulesTypeOK
<1>2. ActsForAPolicy' /\ MatchIsProjected' /\ AppliedIsProjected'
  BY DEF BeginRetention, RulesTypeOK, ActsForAPolicy, MatchIsProjected, AppliedIsProjected
<1> QED BY <1>1, <1>2, ProjectedIsEnforcedNext

\* An apply leaves the rules of its policy, which is the document's if nobody
\* edited it meanwhile.
LEMMA WriteKeeps == ASSUME RulesInv, WriteRules PROVE RulesInv'
<1> USE DEF RulesInv
<1>1. Valid(cmd.policy) /\ cmd.policy \in Documents
  BY DEF WriteRules, ActsForAPolicy, RulesTypeOK, Documents
<1>2. rules' = Project(cmd.policy)
  BY <1>1, ProjectedAreRules DEF WriteRules, Encode, InForce
<1>3. RulesTypeOK'
  BY <1>1, <1>2, ProjectedAreRules DEF WriteRules, Outcome, RulesTypeOK
<1>4. ActsForAPolicy' /\ MatchIsProjected'
  BY DEF WriteRules, Outcome, RulesTypeOK, ActsForAPolicy, MatchIsProjected
<1>5. AppliedIsProjected'
  BY <1>1, <1>2 DEF WriteRules, AppliedIsProjected, Drifts
<1> QED BY <1>3, <1>4, <1>5, ProjectedIsEnforcedNext

\* A check agrees only with rules that do not drift from its policy.
LEMMA ReadKeeps == ASSUME RulesInv, ReadRules PROVE RulesInv'
<1> USE DEF RulesInv
<1>1. RulesTypeOK'
  BY DEF ReadRules, RulesTypeOK
<1>2. ActsForAPolicy' /\ AppliedIsProjected'
  BY DEF ReadRules, RulesTypeOK, ActsForAPolicy, AppliedIsProjected
<1>3. MatchIsProjected'
  BY DEF ReadRules, RulesTypeOK, ActsForAPolicy, MatchIsProjected
<1> QED BY <1>1, <1>2, <1>3, ProjectedIsEnforcedNext

\* A call that fails changes nothing but the command's outcome.
LEMMA FailKeeps == ASSUME RulesInv, CallFails PROVE RulesInv'
<1> USE DEF RulesInv
<1>1. RulesTypeOK'
  BY DEF CallFails, Outcome, RulesTypeOK
<1>2. ActsForAPolicy' /\ MatchIsProjected' /\ AppliedIsProjected'
  BY DEF CallFails, Outcome, RulesTypeOK, ActsForAPolicy, MatchIsProjected, AppliedIsProjected
<1> QED BY <1>1, <1>2, ProjectedIsEnforcedNext

\* Whoever edits, and whatever the provider answers, rules that were applied and
\* not edited since enforce the document, and a check that agrees is right
\* (lifecycle_rules.py:75-134, 167-205, b2_lifecycle.py:203-262).
THEOREM RulesInvariant == RulesSpec => []RulesInv
<1>1. RulesInit => RulesInv BY RulesStartWell
<1>2. RulesInv /\ [RulesNext]_ruleVars => RulesInv'
  <2> SUFFICES ASSUME RulesInv, [RulesNext]_ruleVars PROVE RulesInv' OBVIOUS
  <2>1. CASE UNCHANGED ruleVars
    <3>1. RulesTypeOK' BY <2>1 DEF RulesInv, RulesTypeOK, ruleVars
    <3>2. ActsForAPolicy' /\ MatchIsProjected' /\ AppliedIsProjected'
      BY <2>1 DEF RulesInv, ruleVars, ActsForAPolicy, MatchIsProjected, AppliedIsProjected
    <3> QED BY <3>1, <3>2, ProjectedIsEnforcedNext DEF RulesInv
  <2> QED BY <2>1, EditKeeps, BeginKeeps, WriteKeeps, ReadKeeps, FailKeeps DEF RulesNext
<1> QED BY <1>1, <1>2, PTL DEF RulesSpec

=============================================================================
