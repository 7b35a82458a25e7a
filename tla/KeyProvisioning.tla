--------------------------- MODULE KeyProvisioning ---------------------------
(***************************************************************************)
(* B2KeyProvisioningService: a key is created for one role and one prefix, *)
(* probed against the whole matrix of its policy, and only then activated; *)
(* a rotation revokes the current key after its replacement is active.     *)
(*                                                                         *)
(* What the provider enforces for a key is not what was asked for: that is *)
(* what the probes are for.                                                *)
(***************************************************************************)
EXTENDS FiniteSets, Naturals

CONSTANTS
    KeyId,        \* the keys the provider can hand out
    Capability,   \* StorageCapability
    Role,         \* CredentialRole
    Granted,      \* ROLE_CAPABILITIES
    MaxMishaps,   \* bound: administrative calls that fail or are cancelled
    MaxQuirks,    \* bound: operations in which a key differs from what was asked
    NoKey

ASSUME KeyAssumption ==
    /\ Granted \in [Role -> SUBSET Capability]
    /\ MaxMishaps \in Nat /\ MaxQuirks \in Nat
    /\ NoKey \notin KeyId

\* An operation inside the key's prefix, or under a prefix that is not its own.
Operation == Capability \X {"own", "forbidden"}

VARIABLES
    keys,     \* external: each key, and the operations the provider lets it do
    role,     \* the role being provisioned
    holder,   \* the active credential that callers use
    job,      \* provision or rotate: its step, its new key, the probes to do
    mishaps

keyVars == <<keys, role, holder, job, mishaps>>

KeyTypeOK ==
    /\ keys \in [KeyId -> [at : {"none", "live", "revoked"}, may : SUBSET Operation]]
    /\ role \in Role
    /\ holder \in KeyId \cup {NoKey}
    /\ job \in [at : {"idle", "create", "probe", "undo", "retire"},
                key : KeyId \cup {NoKey}, todo : SUBSET Operation]
    /\ mishaps \in 0 .. MaxMishaps

NoJob == [at |-> "idle", key |-> NoKey, todo |-> {}]

KeyInit ==
    /\ keys = [k \in KeyId |-> [at |-> "none", may |-> {}]]
    /\ role \in Role
    /\ holder = NoKey
    /\ job = NoJob
    /\ mishaps = 0

Mishap == mishaps < MaxMishaps /\ mishaps' = mishaps + 1

\* expected_probe_matrix: every capability in the key's own prefix, and those it
\* is granted in a forbidden one.
ProbeMatrix == (Capability \X {"own"}) \cup (Granted[role] \X {"forbidden"})

Expected(op) == op[2] = "own" /\ op[1] \in Granted[role]

\* What the provider can make of the request of a role.
Outcomes == {may \in SUBSET Operation :
    Cardinality({op \in Operation : (op \in may) # Expected(op)}) <= MaxQuirks}

\* provision, or rotate when there is a current credential.
BeginProvision ==
    /\ job.at = "idle"
    /\ \E k \in KeyId : keys[k].at = "none"    \* bound: KeyId
    /\ job' = [NoJob EXCEPT !.at = "create"]
    /\ UNCHANGED <<keys, role, holder, mishaps>>

\* Mutant: the current key is revoked before the new one has been probed.
CreateKeyRetiring ==
    /\ job.at = "create"
    /\ \E k \in KeyId, may \in Outcomes :
        /\ keys[k].at = "none"
        /\ keys' = [x \in KeyId |-> IF x = k THEN [at |-> "live", may |-> may]
                                    ELSE IF x = holder THEN [keys[x] EXCEPT !.at = "revoked"]
                                    ELSE keys[x]]
        /\ job' = [at |-> "probe", key |-> k, todo |-> ProbeMatrix]
    /\ UNCHANGED <<role, holder, mishaps>>

\* The call fails, or the key exists from here on and its answer may be lost:
\* then nobody here knows its id.
CreateKey ==
    /\ job.at = "create"
    /\ \/ \E k \in KeyId, may \in Outcomes :
            /\ keys[k].at = "none"
            /\ keys' = [keys EXCEPT ![k] = [at |-> "live", may |-> may]]
            /\ \/ job' = [at |-> "probe", key |-> k, todo |-> ProbeMatrix] /\ UNCHANGED mishaps
               \/ Mishap /\ job' = NoJob
       \/ Mishap /\ job' = NoJob /\ UNCHANGED keys
    /\ UNCHANGED <<role, holder>>

\* provision returns; rotate goes on to the key that it replaces.
Activate ==
    IF holder = NoKey THEN holder' = job.key /\ job' = NoJob
    ELSE job' = [job EXCEPT !.at = "retire", !.todo = {}] /\ UNCHANGED holder

\* A probe shows what is expected, or the key is undone.
ProbeNext ==
    /\ job.at = "probe"
    /\ \E op \in job.todo :
        IF (op \in keys[job.key].may) # Expected(op)
        THEN job' = [job EXCEPT !.at = "undo"] /\ UNCHANGED holder
        ELSE IF job.todo = {op} THEN Activate
        ELSE job' = [job EXCEPT !.todo = @ \ {op}] /\ UNCHANGED holder
    /\ UNCHANGED <<keys, role, mishaps>>

\* A probe that raises is undone too, but a cancellation is no Exception: the
\* key stays as it is.
ProbeFails ==
    /\ job.at = "probe"
    /\ Mishap
    /\ job' = [job EXCEPT !.at = "undo"] \/ job' = NoJob
    /\ UNCHANGED <<keys, role, holder>>

\* revoke_key, for good.
Revoked(k) == [keys EXCEPT ![k] = [at |-> "revoked", may |-> {}]]

\* Mutant: a key that failed its probes is left to expire.
UndoNothing ==
    /\ job.at = "undo"
    /\ job' = NoJob
    /\ UNCHANGED <<keys, role, holder, mishaps>>

\* The new key is revoked, or the revocation itself fails and replaces the error.
Undo ==
    /\ job.at = "undo"
    /\ \/ keys' = Revoked(job.key) /\ UNCHANGED mishaps
       \/ Mishap /\ UNCHANGED keys
    /\ job' = NoJob
    /\ UNCHANGED <<role, holder>>

\* rotate: the prior key is revoked and the caller gets the replacement.  If the
\* revocation fails the caller keeps the prior key: the verified one is live but
\* nobody has been told of it.
Retire ==
    /\ job.at = "retire"
    /\ \/ /\ keys' = Revoked(holder)
          /\ \/ holder' = job.key /\ UNCHANGED mishaps
             \/ Mishap /\ UNCHANGED holder
       \/ Mishap /\ UNCHANGED <<keys, holder>>
    /\ job' = NoJob
    /\ UNCHANGED role

KeyNext == BeginProvision \/ CreateKey \/ ProbeNext \/ ProbeFails \/ Undo \/ Retire

KeySpec == KeyInit /\ [][KeyNext]_keyVars

-----------------------------------------------------------------------------

Live == {k \in KeyId : keys[k].at = "live"}

\* The key does what its role may, in its own prefix only.
Proved(k) ==
    /\ {c \in Capability : <<c, "own">> \in keys[k].may} = Granted[role]
    /\ \A c \in Granted[role] : <<c, "forbidden">> \notin keys[k].may

\* Whatever the provider enforces, a live key that callers have got does exactly
\* what its role may inside its prefix and nothing of it outside
\* (b2_keys.py:92-116).
ActivatedIsProved == holder \in Live => Proved(holder)

\* From the first activation on there is always a live key that has been proved,
\* through every rotation and at whatever call one breaks off, even when it is
\* not the caller's own any more (b2_keys.py:131-139).  A key that is still on
\* trial does not count.
RotationKeepsAccess ==
    holder # NoKey =>
        \E k \in Live : Proved(k) /\ (job.at \in {"probe", "undo"} => k # job.key)

\* The key of a job is live and not yet anybody's; what was probed is as
\* expected, and a key is retired only for one that has passed every probe.
JobIsSound ==
    /\ job.at \in {"probe", "undo", "retire"} => job.key \in Live \ {holder}
    /\ job.at = "probe" =>
        /\ job.todo \subseteq ProbeMatrix
        /\ \A op \in ProbeMatrix \ job.todo : (op \in keys[job.key].may) <=> Expected(op)
    /\ job.at = "retire" => holder # NoKey /\ Proved(job.key)
    /\ holder # NoKey => keys[holder].at # "none"

\* What holds at every step of a provisioning and of a rotation, together.
KeyInv == KeyTypeOK /\ ActivatedIsProved /\ RotationKeepsAccess /\ JobIsSound

\* Once the service is idle the only live key is the active one, and each key
\* too many stands for a call that failed or was cancelled (b2_keys.py:116-119).
StraysAreAccounted ==
    job = NoJob => Cardinality(Live \ {holder}) <= mishaps

=============================================================================
