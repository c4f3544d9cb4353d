----------------------------- MODULE MCDecision -----------------------------
(* Instance of Decision for TLC: policies with up to two constraints beyond *)
(* the default over events with AAGUIDs and origins in two spellings, and   *)
(* every signal input, with ages around the end of a challenge's life.      *)
EXTENDS Decision, TLC

CONSTANT MaxAge     \* max_freshness_seconds of the signal inputs

Aaguid(d, s) == [digits |-> d, spelling |-> s]
Origin(o, s) == [origin |-> o, spelling |-> s]
NoOrigin == Origin(Unknown, "plain")

\* What the fields of a document may hold, and what they should not.
Fields ==
    [require_phishing_resistant |-> {FALSE, TRUE},
     require_user_verification |-> {TRUE},
     require_hardware_backed |-> {TRUE},
     allowed_origins |-> {List({}), List({Origin("own", "plain")}),
                          List({Origin("own", "plain"), NoOrigin})},
     allowed_aaguids |-> {List({}), List({Aaguid("a", "dashed")})},
     denied_aaguids |-> {List({Aaguid("a", "dashed")}), List({Aaguid("b", "plain")})},
     allowed_formats |-> {List({"packed"})},
     min_assurance |-> {60, 85},
     min_aal |-> {2, 3}]

Mistakes ==
    [require_phishing_resistant |-> {Unknown, Other},
     require_user_verification |-> {Unknown, Other},
     require_hardware_backed |-> {Other},
     allowed_origins |-> {Unknown, Other, Lone(Origin("own", "plain"))},
     allowed_aaguids |-> {Other, Lone(Aaguid("a", "dashed"))},
     denied_aaguids |-> {Unknown, Lone(Aaguid("a", "dashed"))},
     allowed_formats |-> {Other, Lone("packed")},
     min_assurance |-> {Other, 101},
     min_aal |-> {Unknown, 0, 4},
     allow_origins |-> {List({})}] @@ NumberKey :> {TRUE}

\* Documents that waive phishing resistance and state at most two more fields,
\* and documents of two fields of which the first is a mistake.
Document(form, fields) == [form |-> form, fields |-> fields]
Waived == "require_phishing_resistant" :> FALSE
Pairs(first, second) ==
    UNION {UNION {{f :> v @@ g :> w : v \in first[f], w \in second[g]} :
                    g \in DOMAIN second} : f \in DOMAIN first}
Sensible == {Document("object", fields @@ Waived) : fields \in Pairs(Fields, Fields)}
Mistaken ==
    {Document("text", fields) : fields \in Pairs(Mistakes, Fields) \cup Pairs(Mistakes, Mistakes)}
Unreadable ==
    {Document(form, << >>) : form \in {"no_file", "not_utf8", "broken_object",
                                       "no_mapping", "broken_text", "object"}}

SomeFacts ==
    [phishing_resistant : BOOLEAN, user_verified : BOOLEAN,
     origin : {Unknown, NoOrigin, Origin("own", "port"), Origin("other", "plain")},
     aaguid : {Unknown, Aaguid("a", "plain"), Aaguid("b", "dashed")},
     attestation_format : {Unknown, "packed", "none"},
     hardware_backed : {Unknown, TRUE, FALSE}]

\* Signals on both sides of the thresholds.
Best ==
    [user_present |-> TRUE, user_verified |-> TRUE,
     hardware_backed |-> TRUE, phishing_resistant |-> TRUE,
     sign_count_ok |-> TRUE, sign_count_observed |-> FALSE,
     freshness_seconds |-> 0, max_freshness_seconds |-> 300]
SomeSignals ==
    {Best, [Best EXCEPT !.hardware_backed = Unknown],
     [Best EXCEPT !.sign_count_ok = FALSE], [Best EXCEPT !.user_verified = FALSE],
     [Best EXCEPT !.phishing_resistant = FALSE],
     [Best EXCEPT !.freshness_seconds = -1, !.hardware_backed = FALSE]}

SignalInputs ==
    [user_present : BOOLEAN, user_verified : BOOLEAN,
     hardware_backed : BOOLEAN \cup {Unknown}, phishing_resistant : BOOLEAN,
     sign_count_ok : BOOLEAN, sign_count_observed : BOOLEAN,
     freshness_seconds : -1 .. MaxAge + 2 \cup {Unknown},
     max_freshness_seconds : {0, MaxAge}]

Object(f, s) == [form |-> "object", facts |-> f, signals |-> s]
Fact(resistant, origin, aaguid, format) ==
    [phishing_resistant |-> resistant, user_verified |-> TRUE, origin |-> origin,
     aaguid |-> aaguid, attestation_format |-> format, hardware_backed |-> TRUE]
Known == Fact(TRUE, Origin("own", "port"), Aaguid("a", "plain"), "packed")

Strict == {Document("object", Waived @@ f) : f \in {"min_aal" :> 2, "min_assurance" :> 60}}

\* Events for the mistaken documents, and events that cannot be read.
SomeEvents ==
    {Object(f, s) :
        f \in {Known, Fact(FALSE, Unknown, Unknown, Unknown),
               Fact(FALSE, Origin("own", "plain"), Aaguid("b", "plain"), "none"),
               Fact(TRUE, NoOrigin, Aaguid("b", "plain"), "packed")},
        s \in {Unknown, Other, Best}}
    \cup {[form |-> form] : form \in {"no_file", "broken", "list"}}

MCCases ==
    [document : Sensible,
     event : {Object(f, s) : f \in SomeFacts, s \in SomeSignals \cup {Unknown}}]
    \cup [document : Strict, event : {Object(Known, s) : s \in SignalInputs}]
    \cup [document : Mistaken \cup Unreadable, event : SomeEvents]
=============================================================================
