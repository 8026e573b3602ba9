---------------------------- MODULE MCSegmentFilter ----------------------------
(***************************************************************************)
(* Contacts and filter trees for TLC.                                      *)
(***************************************************************************)
EXTENDS SegmentFilter

CONSTANTS Size   \* how many rules a group may have

Plain(text)      == [text |-> text, number |-> NotANumber, list |-> NotAList]
Number(text, n)  == [text |-> text, number |-> n, list |-> NotAList]
List(text, list) == [text |-> text, number |-> NotANumber, list |-> list]

\* An int column prints otherwise than the same number of a JSON value.
Million     == Number("1000000", 1000000)
JsonMillion == Number("1e+06", 1000000)

Values == {Plain(""), Plain("Ada"), Plain("ada"), Plain("ad"), Number("7", 7), Million,
           JsonMillion, List("[Ada 7]", <<"Ada", "7">>)}
Texts == {v.text : v \in Values}

\* "" is a part of every text; Ada, ada and ad differ in case and length.
StartOf  == {<<t, t>> : t \in Texts} \cup (Texts \X {""})
            \cup ({"Ada", "ada"} \X {"Ada", "ada", "ad"})
EndOf    == {<<t, t>> : t \in Texts} \cup (Texts \X {""}) \cup ({"Ada", "ada"} \X {"Ada", "ada"})
WithinOf == StartOf \cup EndOf \cup {<<"[Ada 7]", t>> : t \in {"Ada", "ada", "ad", "7"}}

Fields == {"email", "lead_score", "properties.x", "status"}
Event  == "event:e"

SomeContacts ==
    {[field |-> [f \in {"email", "lead_score", "properties.x"} |->
                    CASE f = "email" -> email [] f = "lead_score" -> Million [] OTHER -> x],
      performed |-> [e \in {Event} |-> performed]] :
        email \in {Plain(""), Plain("Ada")},
        x \in {Missing, Plain("ada"), Number("7", 7), JsonMillion, List("[Ada 7]", <<"Ada", "7">>)},
        performed \in Results}

Operators == {"exists", "not_exists", "equals", "not_equals", "contains", "starts_with",
              "ends_with", "greater_than", "less_than", "in", "not_in",
              "occurred_within_days", "AND", ""}

Leaf(field, operator, value) ==
    [field |-> field, operator |-> operator, value |-> value, rules |-> << >>]
Group(operator, rules) ==
    [field |-> "", operator |-> operator, value |-> Plain(""), rules |-> rules]

Leaves == {Leaf(f, o, v) : f \in Fields \cup {Event, ""}, o \in Operators, v \in Values}

\* Leaves that match, do not, and fail, differently for different contacts.
SomeLeaves == {Leaf("email", "equals", Plain("Ada")), Leaf(Event, "not_exists", Plain("")),
               Leaf("lead_score", "less_than", Plain("ad")), Leaf("properties.x", "AND", Plain("")),
               Leaf("properties.x", "in", List("[Ada 7]", <<"Ada", "7">>))}

GroupsOf(S) == UNION {{Group(o, rules) : o \in {"AND", "OR", "XOR"}, rules \in [1 .. n -> S]} :
                         n \in 1 .. Size}

SmallTrees == {NilTree} \cup Leaves \cup GroupsOf(SomeLeaves)
              \cup {Group(o, <<g, leaf>>) : o \in {"AND", "OR"}, g \in GroupsOf(SomeLeaves), leaf \in SomeLeaves}
              \cup {Group(o, <<leaf, g>>) : o \in {"AND", "OR"}, g \in GroupsOf(SomeLeaves), leaf \in SomeLeaves}
=============================================================================
