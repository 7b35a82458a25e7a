----------------------------- MODULE MCCommands -----------------------------
(***************************************************************************)
(* Four parts of the operator's and the caller's side that share no state, *)
(* one of which runs: keys, retention rules, releases, or a request.  The  *)
(* others keep one initial state, so the instances add up instead of       *)
(* multiplying.                                                            *)
(***************************************************************************)
EXTENDS KeyProvisioning, BucketRules, ModelCatalog, JobIntake

VARIABLE command

vars == <<command, keyVars, ruleVars, catalogVars, intakeVars>>

MCArtifacts == [s \in ModelSet |-> IF s = "s1" THEN <<"m", "w1">> ELSE <<"m", "w2">>]

MCGranted == [r \in Role |-> IF r = "reader" THEN {"list", "read"} ELSE {"list", "delete"}]

\* A trained range of 4 x 6 and 5 to 9 frames, and one of 2 x 4 and 3 to 7.
Trained(short, long, least, most) ==
    [shortEdge |-> short, longEdge |-> long, minFrames |-> least, maxFrames |-> most,
     stride |-> 2, offset |-> 1, multiple |-> 2]

MCRanges == {Trained(4, 6, 5, 9), Trained(2, 4, 3, 7)}

MCWorkflows ==
    [w \in {"plain", "pictured", "unbound", "broken"} |->
        [fields |-> CASE w = "pictured" -> {"prompt", "width", "height", "input_0", "input_1"}
                      [] w = "unbound" -> {}
                      [] OTHER -> {"prompt", "width", "height", "frames"},
         wellFormed |-> w # "broken"]]

\* Documents: one shot, two and three of them, with cuts around the end of a clip
\* of 20 or 20.5 milliseconds, speakers in any order, one defect at a time.
Opening == [number |-> 1, cut |-> Null, style |-> "known", odd |-> {}, delimiter |-> FALSE,
            speakers |-> <<>>, labels |-> {}, caller |-> "plain"]
Later(n, cut) == [Opening EXCEPT !.number = n, !.cut = cut, !.style = Null]

Plain == [mode |-> "T2VA", duration |-> 40, shots |-> <<Opening, Later(2, 10)>>, sound |-> TRUE,
          defined |-> Null, summary |-> Null, retained |-> Null, typed |-> TRUE, long |-> FALSE]

Cuts == {Null, 37, 38, 39, 40}
Timed == {[Plain EXCEPT !.mode = m, !.duration = d, !.shots = s] :
    m \in {"T2VA", "I2VA", "FL2VA"}, d \in {40, 41},
    s \in {<<Opening, Later(2, c)>> : c \in Cuts}
          \cup {<<Opening, Later(2, c), Later(3, e)>> : c, e \in Cuts}}

Lines == {<<>>, <<1>>, <<2>>, <<1, 2>>, <<2, 1>>, <<1, 3>>, <<3>>}
Voiced == {[Plain EXCEPT !.shots[1].speakers = a, !.shots[2].speakers = b] : a, b \in Lines}

Defective ==
    {[Plain EXCEPT !.shots = <<s, Later(2, 10)>>] :
        s \in {[Opening EXCEPT !.number = 2], [Opening EXCEPT !.cut = 0],
               [Opening EXCEPT !.style = Null],
               [Opening EXCEPT !.style = "odd"], [Opening EXCEPT !.delimiter = TRUE],
               [Opening EXCEPT !.odd = {"motion"}], [Opening EXCEPT !.odd = {"phrase"}],
               [Opening EXCEPT !.caller = "grammar"]}}
    \cup {[Plain EXCEPT !.shots = <<Opening, [Later(2, 10) EXCEPT !.style = "known"]>>],
          [Plain EXCEPT !.sound = FALSE],
          [Plain EXCEPT !.typed = FALSE],
          [Plain EXCEPT !.long = TRUE], [Plain EXCEPT !.mode = "odd"],
          [Plain EXCEPT !.summary = <<"a">>], [Plain EXCEPT !.defined = <<>>]}

Picture == [kind |-> "visual", number |-> 1]
Audio == [kind |-> "audio", number |-> 1]
Retained(label, marker) == [label |-> label, marker |-> marker, speaker |-> FALSE]

Referring == {[Plain EXCEPT !.mode = "Ref2VA", !.defined = d, !.summary = s, !.retained = e,
                            !.shots[1].labels = l] :
    d \in {<<Picture>>, <<Picture, Audio>>, <<>>},
    s \in {Null, <<"a">>, <<"a", "a">>, <<"odd">>},
    e \in {<<Retained(Picture, "visual")>>, <<Retained(Audio, "visual")>>,
           <<Retained(Audio, "both")>>,
           <<[Retained(Picture, "both") EXCEPT !.speaker = TRUE]>>},
    l \in {{}, {Picture}, {Audio}}}

\* A section that is not there, or is there and empty.
Referred == [Plain EXCEPT !.mode = "Ref2VA", !.defined = <<Picture>>, !.summary = <<"a">>,
                          !.retained = <<Retained(Picture, "visual")>>]
Lacking ==
    {[r EXCEPT !.shots = <<>>] : r \in {Plain, Referred}}
    \cup UNION {{[Referred EXCEPT !.defined = n], [Referred EXCEPT !.summary = n],
                [Referred EXCEPT !.retained = n]} : n \in {Null, <<>>}}

\* Requests that differ from a plain one in what they ask of one check.
Request == [model |-> "known", workflow |-> "plain", mode |-> "text", inputs |-> <<>>,
            width |-> Null, height |-> Null, frames |-> Null, prompt |-> "text",
            structured |-> Null]

Reference == [key : {"mine", "other"}, sha256 : {Null, "d1"}]

MCPayloads ==
    {[Request EXCEPT !.prompt = Null, !.structured = d] :
            d \in Timed \cup Voiced \cup Defective \cup Referring \cup Lacking}
    \cup {[Request EXCEPT !.width = w, !.height = h, !.frames = f] :
            w, h \in {Null, 1, 2, 3, 4, 6, 8}, f \in {Null, 1, 3, 5, 6, 9, 11}}
    \cup {[Request EXCEPT !.mode = m, !.inputs = i, !.workflow = w] :
            m \in {"text", "image", "reference"},
            i \in {<<>>} \cup {<<a>> : a \in Reference} \cup {<<a, b>> : a, b \in Reference},
            w \in DOMAIN MCWorkflows \cup {"unknown"}}
    \cup {[Request EXCEPT !.prompt = p, !.structured = d] :
            p \in {Null, "text", "blank", "toolong"}, d \in {Null, Plain}}
    \cup {[Request EXCEPT !.model = "other"], [Request EXCEPT !.workflow = "malformed"],
          [Request EXCEPT !.mode = "odd"]}

Idle(c) == command # c

Init ==
    /\ command \in {"keys", "retention", "release", "request"}
    /\ KeyInit /\ (Idle("keys") => role = "reader")
    /\ RulesInit
    /\ CatalogInit
    /\ (Idle("release") =>
            source = [b \in Blob |-> "right"] /\ \A p \in Publisher : pub[p].set = "s1")
    /\ IntakeInit
    /\ (Idle("request") => \A h \in Host : range[h] = NoRange)

Next ==
    \/ command = "keys" /\ KeyNext /\ UNCHANGED <<command, ruleVars, catalogVars, intakeVars>>
    \/ command = "retention" /\ RulesNext /\ UNCHANGED <<command, keyVars, catalogVars, intakeVars>>
    \/ command = "release" /\ CatalogNext /\ UNCHANGED <<command, keyVars, ruleVars, intakeVars>>
    \/ command = "request" /\ IntakeNext /\ UNCHANGED <<command, keyVars, ruleVars, catalogVars>>

\* Only a release promises to end, so only its steps are fair.
Spec == Init /\ [][Next]_vars /\ (command = "release" => CatalogFair)

=============================================================================
