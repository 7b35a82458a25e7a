--------------------------- MODULE PromptGrammar ---------------------------
(***************************************************************************)
(* The structured prompt: composed from a document, checked, contained and *)
(* rendered to wire text.                                                  *)
(*                                                                         *)
(* A document keeps of each text what a rule can tell: whether a value is  *)
(* in its table, whether a service span carries a delimiter, whether a     *)
(* caller's span would act as grammar, and whether all fields have their   *)
(* types and lengths.  Times are in half milliseconds.                     *)
(***************************************************************************)
EXTENDS Integers, Sequences, FiniteSets, SequencesExt

CONSTANT Null

KeyframeModes == {"I2VA", "FL2VA", "L2VA"}
PromptModes == {"T2VA", "Ref2VA"} \cup KeyframeModes

\* Null stands for a key that the document does not have.
Missing(section) == section = Null \/ section = <<>>

\* section_set_mismatch_for_mode: a section is missing or empty, or is not for this
\* mode.
SectionsFit(doc) ==
    /\ ~Missing(doc.shots) /\ doc.sound
    /\ IF doc.mode = "Ref2VA"
       THEN ~Missing(doc.defined) /\ ~Missing(doc.summary) /\ ~Missing(doc.retained)
       ELSE doc.defined = Null /\ doc.summary = Null /\ doc.retained = Null

Indices(s) == 1 .. Len(s)

\* CHECKS, each of them as what it demands.

OpeningShotDeclaresNoCut(p) == \A i \in Indices(p.shots) : (p.shots[i].cut # Null) <=> (i > 1)

ShotNumberingIsSequential(p) == \A i \in Indices(p.shots) : p.shots[i].number = i

\* A shot without a time is passed over.
CutTimesStrictlyIncrease(p) ==
    \A i, j \in Indices(p.shots) :
        i < j /\ Null \notin {p.shots[i].cut, p.shots[j].cut} => p.shots[i].cut < p.shots[j].cut

\* Mutant: a cut at the end of the clip passes.
CutTimesInsideOrAtEnd(p) ==
    \A i \in Indices(p.shots) : p.shots[i].cut # Null => p.shots[i].cut <= p.duration

CutTimesAreInsideTheClip(p) ==
    \A i \in Indices(p.shots) : p.shots[i].cut # Null => p.shots[i].cut < p.duration

DelimitersAreBalanced(p) == \A i \in Indices(p.shots) : ~p.shots[i].delimiter

\* The ids of a whole prompt in the order in which they are first heard.
Spoken(p) == FlattenSeq([i \in Indices(p.shots) |-> p.shots[i].speakers])

HeardBefore(ids, k) == Cardinality({ids[j] : j \in 1 .. k - 1})

\* Mutant: an id need only not exceed the number of speakers so far by more than one.
SpeakerIdsNotAhead(p) ==
    LET ids == Spoken(p) IN \A k \in Indices(ids) : ids[k] <= k

\* A new id is the next number.
SpeakerIdsAreContinuous(p) ==
    LET ids == Spoken(p)
    IN \A k \in Indices(ids) :
        (\A j \in 1 .. k - 1 : ids[j] # ids[k]) => ids[k] = HeardBefore(ids, k) + 1

CameraValuesAreInVocabulary(p) ==
    \A i \in Indices(p.shots) : p.shots[i].odd \cap {"motion", "amplitude", "speed"} = {}

CutPhrasesAreInVocabulary(p) == \A i \in Indices(p.shots) : "phrase" \notin p.shots[i].odd

StyleIsDeclaredOnceOnTheOpeningShot(p) ==
    /\ p.shots[1].style = "known"
    /\ \A i \in Indices(p.shots) : i > 1 => p.shots[i].style = Null

Used(p) == UNION {p.shots[i].labels : i \in Indices(p.shots)}
           \cup {p.retained[i].label : i \in Indices(p.retained)}

LabelsResolveToADefinition(p) == Used(p) \subseteq ToSet(p.defined)

EveryDefinitionIsUsed(p) == ToSet(p.defined) \subseteq Used(p)

RetentionMarkersAreInVocabulary(p) ==
    \A i \in Indices(p.retained) : p.retained[i].marker \in {p.retained[i].label.kind, "both"}

SpeakerIdsAreAbsentFromRetention(p) == \A i \in Indices(p.retained) : ~p.retained[i].speaker

TaskTypesAreInVocabulary(p) ==
    /\ \A i \in Indices(p.summary) : p.summary[i] # "odd"
    /\ \A i, j \in Indices(p.summary) : p.summary[i] = p.summary[j] => i = j

\* require_valid_prompt.
ValidPrompt(p) ==
    /\ OpeningShotDeclaresNoCut(p) /\ ShotNumberingIsSequential(p)
    /\ CutTimesStrictlyIncrease(p) /\ CutTimesAreInsideTheClip(p)
    /\ DelimitersAreBalanced(p) /\ SpeakerIdsAreContinuous(p)
    /\ CameraValuesAreInVocabulary(p) /\ CutPhrasesAreInVocabulary(p)
    /\ StyleIsDeclaredOnceOnTheOpeningShot(p)
    /\ p.mode = "Ref2VA" =>
        /\ LabelsResolveToADefinition(p) /\ EveryDefinitionIsUsed(p)
        /\ RetentionMarkersAreInVocabulary(p) /\ SpeakerIdsAreAbsentFromRetention(p)
        /\ TaskTypesAreInVocabulary(p)

\* contain_prompt: a caller's words would act as grammar.
Contained(p) == \A i \in Indices(p.shots) : p.shots[i].caller # "grammar"

\* PromptRenderError: something has no wire form.
Renderable(p) ==
    /\ \A i \in Indices(p.shots) :
        "motion" \notin p.shots[i].odd /\ (i > 1 => p.shots[i].cut # Null)
    /\ p.mode = "Ref2VA" => p.summary # Null

\* _require_expressible_mark: the clip length has two decimals.
Expressible(p) == p.mode \in KeyframeModes => p.duration % 20 = 0

\* _require_mark_after_final_cut.
MarkAfterFinalCut(p) ==
    LET final == p.shots[Len(p.shots)].cut
    IN p.mode \in KeyframeModes /\ final # Null => p.duration > final

\* Python's round: to the nearest whole millisecond, ties to the even one.
Milliseconds(t) == IF t % 2 = 0 THEN t \div 2
                   ELSE LET below == t \div 2 IN IF below % 2 = 0 THEN below ELSE below + 1

\* The wire text: the closing mark of the header, then the shots in playback
\* order, the opening one with its style and the others with their times.
Wire(p) ==
    [mark |-> IF p.mode \in {"FL2VA", "L2VA"} THEN Milliseconds(p.duration) ELSE Null,
     shots |-> [i \in Indices(p.shots) |->
        [number |-> p.shots[i].number,
         opens |-> IF i = 1 THEN p.shots[i].style ELSE Milliseconds(p.shots[i].cut),
         speakers |-> p.shots[i].speakers]]]

\* The outcome of accept, render_prompt and the bound of the freeform field.  A
\* field with a wrong type or length raises pydantic's error, no AppError.
Composed(doc) ==
    IF doc.mode \notin PromptModes THEN "prompt_mode_unknown"
    ELSE IF ~SectionsFit(doc) THEN "section_set_mismatch_for_mode"
    ELSE IF ~doc.typed THEN "ValidationError"
    ELSE IF ~ValidPrompt(doc) THEN "prompt_structurally_invalid"
    ELSE IF ~Contained(doc) THEN "caller_span_carries_grammar"
    ELSE IF ~Renderable(doc) THEN "unrenderable_vocabulary_value"
    ELSE IF ~Expressible(doc) THEN "alignment_time_not_expressible"
    ELSE IF ~MarkAfterFinalCut(doc) THEN "alignment_time_outside_duration"
    ELSE IF doc.long THEN "request_bound_loosened"
    ELSE "ok"

=============================================================================
