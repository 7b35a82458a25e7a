----------------------------- MODULE BucketRules -----------------------------
(***************************************************************************)
(* `retention apply` and `retention check`: the declared policy is         *)
(* projected on two rules of the bucket, written over whatever rules it    *)
(* has, and compared with the rules it reports.  The policy document and   *)
(* the bucket's rules can be edited by others at any moment.               *)
(*                                                                         *)
(* The provider applies to an object the smallest period of any rule whose *)
(* prefix matches its key.                                                 *)
(***************************************************************************)
EXTENDS FiniteSets, FiniteSetsExt, Integers

CONSTANTS
    MaxDays,   \* MAX_RETAIN_DAYS
    MaxEdits,  \* bound: edits by others
    NoDays, NoRule, Malformed

ASSUME RulesAssumption ==
    /\ MaxDays \in Nat \ {0} /\ MaxEdits \in Nat
    /\ NoDays \notin Int

\* RetainedClass: deliverables, scratch and prompt evidence are treated like
\* failed attempts here.
RetainedClass == {"input", "failed-attempt", "hidden-version", "multipart"}

INPUT_PREFIX == "inputs/"
Prefix == {INPUT_PREFIX, "outputs/", ""}

\* What a document may declare for a class; MaxDays + 1 is out of range, like 0.
Declarable == 0 .. MaxDays + 1 \cup {NoDays}

Period == 0 .. MaxDays \cup {NoDays}
Rule == [hide : Period, delete : Period, cancel : Period]

ASSUME RuleAssumption == NoRule \notin Rule /\ Malformed \notin Rule /\ NoRule # Malformed

VARIABLES
    document,  \* config/lifecycle.json
    rules,     \* external: the bucket's rule for each prefix
    edited,    \* others have edited since the rules were written for the document
    edits,
    cmd        \* the command: its step, the policy it has loaded, what it read, its outcome

ruleVars == <<document, rules, edited, edits, cmd>>

InForce == [Prefix -> Rule \cup {NoRule, Malformed}]

RulesTypeOK ==
    /\ document \in [RetainedClass -> Declarable]
    /\ rules \in InForce
    /\ edited \in BOOLEAN /\ edits \in 0 .. MaxEdits
    /\ cmd \in [at : {"none", "write", "read"}, policy : [RetainedClass -> Declarable],
                seen : InForce, verdict : {"none", "applied", "match", "drift", "error"}]

\* LifecyclePolicyLoader: every class, each with a period in its range.
Valid(d) == \A c \in RetainedClass : d[c] \in 1 .. MaxDays

Empty == [hide |-> NoDays, delete |-> NoDays, cancel |-> NoDays]

\* LifecycleRuleSet.project.  Its two prefixes nest, but only one of its rules
\* hides anything, so no pair conflicts.
Project(d) == [p \in Prefix |->
    IF p = INPUT_PREFIX THEN [Empty EXCEPT !.hide = d["input"], !.delete = 1]
    ELSE IF p = "" THEN [Empty EXCEPT !.delete = d["hidden-version"], !.cancel = d["multipart"]]
    ELSE NoRule]

\* Mutant: an absent period is written as zero.
EncodeZero(r) == [f \in DOMAIN r |-> IF r[f] = NoDays THEN 0 ELSE r[f]]

\* _encode_rule: every field is sent, null where there is no period.
Encode(r) == r

\* _decode_rules refuses what it cannot reason about, and a rule without a period.
Undecodable(s) == \E p \in Prefix :
    \/ s[p] = Malformed
    \/ s[p] \in Rule /\ \A f \in DOMAIN s[p] : s[p][f] \in {0, NoDays}

\* detect_drift: a rule is missing, unexpected or different.
Drifts(d, s) == \E p \in Prefix : s[p] # Project(d)[p]

RulesInit ==
    /\ document = [c \in RetainedClass |-> IF c = "failed-attempt" THEN 1 ELSE MaxDays]
    /\ rules = [p \in Prefix |-> NoRule]
    /\ edited = TRUE /\ edits = 0
    /\ cmd = [at |-> "none", policy |-> document, seen |-> rules, verdict |-> "none"]

\* One period of the document changes, or is left out.
EditDocument ==
    /\ edits < MaxEdits
    /\ \E c \in RetainedClass, days \in Declarable :
        document' = [document EXCEPT ![c] = days]
    /\ edited' = TRUE /\ edits' = edits + 1
    /\ UNCHANGED <<rules, cmd>>

\* A rule goes, gets another field, or one of its periods changes.
EditRules ==
    /\ edits < MaxEdits
    /\ \E p \in Prefix :
        \/ rules' = [rules EXCEPT ![p] = NoRule] /\ rules[p] # NoRule
        \/ rules' = [rules EXCEPT ![p] = Malformed] /\ rules[p] # Malformed
        \/ \E f \in DOMAIN Empty, days \in 1 .. MaxDays :
            rules' = [rules EXCEPT ![p] =
                [(IF rules[p] \in {NoRule, Malformed} THEN Empty ELSE rules[p]) EXCEPT ![f] = days]]
    /\ edited' = TRUE /\ edits' = edits + 1
    /\ UNCHANGED <<document, cmd>>

\* run_retention: without a valid policy nothing is written or compared.
BeginRetention(step) ==
    /\ cmd.at = "none"
    /\ cmd' = IF Valid(document)
              THEN [cmd EXCEPT !.at = step, !.policy = document, !.verdict = "none"]
              ELSE [cmd EXCEPT !.verdict = "error"]
    /\ UNCHANGED <<document, rules, edited, edits>>

Outcome(verdict) == cmd' = [cmd EXCEPT !.at = "none", !.verdict = verdict]

\* apply replaces the whole set, for the policy that it has loaded; its answer
\* may be lost.
WriteRules ==
    /\ cmd.at = "write"
    /\ rules' = [p \in Prefix |-> IF Project(cmd.policy)[p] = NoRule THEN NoRule
                                  ELSE Encode(Project(cmd.policy)[p])]
    /\ edited' = (document # cmd.policy)
    /\ Outcome("applied") \/ Outcome("error")
    /\ UNCHANGED <<document, edits>>

ReadRules ==
    /\ cmd.at = "read"
    /\ cmd' = [cmd EXCEPT !.at = "none", !.seen = rules,
                 !.verdict = IF Undecodable(rules) THEN "error"
                             ELSE IF Drifts(cmd.policy, rules) THEN "drift" ELSE "match"]
    /\ UNCHANGED <<document, rules, edited, edits>>

\* The provider does not answer, refuses, or answers something else.
CallFails ==
    /\ cmd.at \in {"write", "read"}
    /\ Outcome("error")
    /\ UNCHANGED <<document, rules, edited, edits>>

RulesNext ==
    \/ EditDocument \/ EditRules \/ BeginRetention("write") \/ BeginRetention("read")
    \/ WriteRules \/ ReadRules \/ CallFails

RulesSpec == RulesInit /\ [][RulesNext]_ruleVars

-----------------------------------------------------------------------------

\* What the provider does to the objects under a prefix.
Effective(s, key, f) ==
    LET days == {s[p][f] : p \in {q \in {key, ""} : s[q] \in Rule}} \ {NoDays}
    IN IF days = {} THEN NoDays ELSE Min(days)

\* The rules s do what the policy d declares, whichever rules they are: inputs
\* are hidden on their day, no output ever is.
Enforces(s, d) ==
    /\ Effective(s, INPUT_PREFIX, "hide") = d["input"]
    /\ Effective(s, "outputs/", "hide") = NoDays
    /\ Effective(s, "outputs/", "delete") = d["hidden-version"]
    /\ \A key \in {INPUT_PREFIX, "outputs/"} : Effective(s, key, "cancel") = d["multipart"]

\* When a check reports agreement, what the provider does under its smallest-
\* period rule is what was declared, whatever others have put on the bucket
\* (lifecycle_rules.py:167-205, 120-134).
MatchIsEnforced == cmd.verdict = "match" => Enforces(cmd.seen, cmd.policy)

\* The rules of an apply enforce the document and a check agrees with them,
\* unless somebody has edited since the command read the document
\* (lifecycle_rules.py:75-118, b2_lifecycle.py:203-262, retention_command.py:123-143).
AppliedIsEnforced ==
    ~edited => Enforces(rules, document) /\ ~Undecodable(rules) /\ ~Drifts(document, rules)

\* Why: a command acts for a policy that loaded, and an apply nobody interferes
\* with leaves exactly the projected rules (lifecycle.py, b2_lifecycle.py).
ActsForAPolicy == cmd.at # "none" => Valid(cmd.policy)
MatchIsProjected == cmd.verdict = "match" => Valid(cmd.policy) /\ ~Drifts(cmd.policy, cmd.seen)
AppliedIsProjected == ~edited => Valid(document) /\ ~Drifts(document, rules)

\* The promise of both commands, whoever edits in between, and why it holds.
RulesInv ==
    /\ RulesTypeOK
    /\ MatchIsEnforced /\ AppliedIsEnforced
    /\ ActsForAPolicy /\ MatchIsProjected /\ AppliedIsProjected

=============================================================================
