--------------------------- MODULE PolicyLoading ---------------------------
(***************************************************************************)
(* load_policy of src/passkit/policy/evaluator.py and Policy.from_dict of  *)
(* model.py: from the text of a policy file to a Policy, or to the class   *)
(* of the exception raised.                                                *)
(*                                                                         *)
(* A text is its form and, if it is a mapping, its fields.  A switch is    *)
(* TRUE or FALSE and a minimum is a number; a field that takes a list has  *)
(* List(items), or Lone(item) where the text has just one string.  Unknown *)
(* is null, Other a value of a type that does not belong in the field:     *)
(* text for a switch or a number, a number for a list.                     *)
(***************************************************************************)
EXTENDS Policy

CONSTANTS
    Other,          \* a value of another type, true in a condition
    YamlInstalled   \* can yaml be imported?

\* None is neither a truth value nor a list, nor is it a value of another type.
ASSUME NoneAssumption ==
    /\ Unknown # TRUE /\ Unknown # FALSE /\ Unknown # Other /\ Other # FALSE
    /\ Unknown # {[origin |-> Unknown, spelling |-> Other]}
    /\ Unknown # {[digits |-> Unknown, spelling |-> Other]}

Forms == {"no_file", "not_utf8", "broken_object", "no_mapping", "broken_text",
          "object", "text"}

List(items) == [list |-> TRUE, items |-> items]
Lone(item) == [list |-> FALSE, items |-> {item}]

\* What a Policy has in the fields that a document leaves out.  Its name, which
\* only labels the decision, is no field here.
Defaults ==
    [require_phishing_resistant |-> TRUE, require_user_verification |-> FALSE,
     allowed_origins |-> Unknown, allowed_aaguids |-> Unknown,
     denied_aaguids |-> List({}), allowed_formats |-> Unknown,
     min_assurance |-> 0, min_aal |-> 1, require_hardware_backed |-> FALSE]

Switches == {"require_phishing_resistant", "require_user_verification",
             "require_hardware_backed"}
Lists == {"allowed_origins", "allowed_aaguids", "denied_aaguids", "allowed_formats"}

\* Keys no Policy has; one of them is a number, which YAML allows.
NumberKey == "7"
NoFieldIsUnknown(fields) == {}
UnknownFields(fields) == DOMAIN fields \ DOMAIN Defaults

Stated(fields) ==
    [f \in DOMAIN Defaults |-> IF f \in DOMAIN fields THEN fields[f] ELSE Defaults[f]]

\* from_dict: the keys, then min_aal, then min_assurance.  Comparing a number
\* with text or null is a TypeError, and so is sorting numbers with text for the
\* message; load_policy turns only a ValueError into a PolicyError.
OutOfRange(n, range) == IF n \notin Int THEN {"TypeError"}
                        ELSE IF n \notin range THEN {"PolicyError"} ELSE {}
FieldErrors(fields) ==
    LET unknown == UnknownFields(fields)
        aal == OutOfRange(Stated(fields).min_aal, 1 .. 3)
    IN  CASE NumberKey \in unknown /\ unknown # {NumberKey} -> {"TypeError"}
          [] unknown # {} /\ (NumberKey \notin unknown \/ unknown = {NumberKey})
                -> {"PolicyError"}
          [] unknown = {} /\ aal # {} -> aal
          [] OTHER -> OutOfRange(Stated(fields).min_assurance, 0 .. 100)

\* The class of what reading and loading a file raises, if anything.  "object"
\* starts with a brace and is JSON, "text" does not and is a YAML mapping.
Raised(document) ==
    CASE document.form = "no_file" -> {"OSError"}
      [] document.form = "not_utf8" -> {"ValueError"}
      [] document.form \in {"broken_object", "no_mapping"} -> {"PolicyError"}
      [] document.form = "broken_text" ->
            IF YamlInstalled THEN {"YAMLError"} ELSE {"PolicyError"}
      [] document.form = "text" /\ ~YamlInstalled -> {"PolicyError"}
      [] OTHER -> FieldErrors(document.fields)

\* The Policy as evaluate_policy uses it: a switch by its truth value, a list by
\* its members.  The members of a lone string are its letters, none of which is
\* an origin or an AAGUID; for formats `in` finds the string itself.
Truth(value) == value # Unknown /\ value # FALSE
Letters(name, items) ==
    CASE name = "allowed_origins" -> {[origin |-> Unknown, spelling |-> Other]}
      [] name = "allowed_formats" -> items
      [] OTHER -> {[digits |-> Unknown, spelling |-> Other]}
Members(name, value) ==
    IF value \in {Unknown, Other} THEN value
    ELSE IF value.list THEN value.items ELSE Letters(name, value.items)

load_policy(document) ==
    LET stated == Stated(document.fields) IN
    [f \in DOMAIN Defaults |-> CASE f \in Switches -> Truth(stated[f])
                                 [] f \in Lists -> Members(f, stated[f])
                                 [] OTHER -> stated[f]]

\* evaluate_policy iterates over the lists it needs for the facts it is given; a
\* list that is none raises TypeError.
EvaluateRaises(p, e) ==
    \/ p.allowed_origins = Other /\ e.origin # Unknown /\ IsOrigin(e.origin)
    \/ e.aaguid # Unknown
          /\ (p.denied_aaguids \in {Unknown, Other} \/ p.allowed_aaguids = Other)
    \/ p.allowed_formats = Other /\ e.attestation_format # Unknown
=============================================================================
