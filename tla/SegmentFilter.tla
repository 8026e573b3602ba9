----------------------------- MODULE SegmentFilter -----------------------------
(***************************************************************************)
(* Whether a contact matches a segment's filter tree                       *)
(* (internal/worker/segments/evaluator.go).  SegmentRefresh asks this of   *)
(* every contact of a page and takes the answers as given.                 *)
(*                                                                         *)
(* A value is known by what %v prints of it, the number toFloat makes of   *)
(* it, and the texts of its elements when it is a list.  How texts contain *)
(* each other, regardless of case, is a constant.                          *)
(***************************************************************************)
EXTENDS Integers, Sequences, FiniteSets, FiniteSetsExt

CONSTANTS
    Contacts,     \* [field : [fields -> values], performed : [events -> Results]]
    Trees,        \* what segments.filter_tree may hold
    NilTree,      \* an empty column, {} or null
    Missing,      \* nil: an unknown path, an absent or null property
    NotANumber, NotAList,
    Containing, Starting, Ending   \* pairs of a text and a part of it

Results == {"yes", "no", "error"}
Bool(b) == IF b THEN "yes" ELSE "no"

VARIABLES contact, tree, result
vars == <<contact, tree, result>>

\* A group has rules; anything else, also a group of none, is read as a leaf.
IsGroup(node) == node.rules # << >>
IsEvent(node) == node.field \in DOMAIN contact.performed

-----------------------------------------------------------------------------
(***************************************************************************)
(* Leaves.                                                                 *)
(***************************************************************************)
\* extractField.  The columns are never nil: an absent one reads as "".
Field(ct, node) == IF node.field \in DOMAIN ct.field THEN ct.field[node.field] ELSE Missing

CompareEqual(a, b) == a.text = b.text

CompareIn(a, b) == IF b.list = NotAList THEN CompareEqual(a, b)
                   ELSE \E i \in DOMAIN b.list : b.list[i] = a.text

CompareNumeric(a, b, op) ==
    IF a.number = NotANumber THEN "no"
    ELSE IF b.number = NotANumber THEN "error"
    ELSE Bool(IF op = ">" THEN a.number > b.number ELSE a.number < b.number)

Empty(a) == a = Missing \/ a.text = ""

Compare(operator, a, b) ==
    CASE operator = "equals"       -> Bool(CompareEqual(a, b))
      [] operator = "not_equals"   -> Bool(~CompareEqual(a, b))
      [] operator = "contains"     -> Bool(<<a.text, b.text>> \in Containing)
      [] operator = "starts_with"  -> Bool(<<a.text, b.text>> \in Starting)
      [] operator = "ends_with"    -> Bool(<<a.text, b.text>> \in Ending)
      [] operator = "greater_than" -> CompareNumeric(a, b, ">")
      [] operator = "less_than"    -> CompareNumeric(a, b, "<")
      [] operator = "in"           -> Bool(CompareIn(a, b))
      [] operator = "not_in"       -> Bool(~CompareIn(a, b))
      [] OTHER -> "error"

\* Mutant: a missing field compares as an empty one.
EvalConditionOfMissing(ct, node) ==
    LET a == Field(ct, node)
    IN  CASE node.operator = "exists"     -> Bool(~Empty(a))
          [] node.operator = "not_exists" -> Bool(a = Missing)
          [] OTHER -> IF a = Missing THEN "no" ELSE Compare(node.operator, a, node.value)

EvalCondition(ct, node) ==
    LET a == Field(ct, node)
    IN  CASE node.operator = "exists"     -> Bool(~Empty(a))
          [] node.operator = "not_exists" -> Bool(Empty(a))
          [] OTHER -> IF a = Missing THEN "no" ELSE Compare(node.operator, a, node.value)

\* ContactHasPerformedEvent may fail.  The days of occurred_within_days are
\* not looked at.
EvalEvent(ct, node) ==
    LET performed == ct.performed[node.field]
    IN  CASE node.operator \in {"exists", "occurred_within_days"} -> performed
          [] node.operator = "not_exists" ->
                IF performed = "error" THEN "error" ELSE Bool(performed = "no")
          [] OTHER -> "no"

EvalLeaf(ct, node) == IF IsEvent(node) THEN EvalEvent(ct, node) ELSE EvalCondition(ct, node)

-----------------------------------------------------------------------------
(***************************************************************************)
(* Groups: the first rule that decides, or fails, ends the evaluation.     *)
(***************************************************************************)
First(results, S) ==
    LET ends == {i \in DOMAIN results : results[i] \in S}
    IN  IF ends = {} THEN "none" ELSE results[Min(ends)]

\* Mutant: a rule that fails is passed over.
EvalLogicLenient(operator, results) ==
    CASE operator = "AND" -> IF First(results, {"no"}) = "none" THEN "yes" ELSE "no"
      [] operator = "OR"  -> IF First(results, {"yes"}) = "none" THEN "no" ELSE "yes"
      [] OTHER -> "error"

EvalLogic(operator, results) ==
    CASE operator = "AND" ->
            LET end == First(results, {"no", "error"}) IN IF end = "none" THEN "yes" ELSE end
      [] operator = "OR" ->
            LET end == First(results, {"yes", "error"}) IN IF end = "none" THEN "no" ELSE end
      [] OTHER -> "error"

\* The elements of 'rules' are nodes: a null among them, on which the code
\* panics (evaluator.go:67), is in none of the trees.
RECURSIVE Eval(_, _)
Eval(ct, node) ==
    IF IsGroup(node)
    THEN EvalLogic(node.operator, [i \in DOMAIN node.rules |-> Eval(ct, node.rules[i])])
    ELSE EvalLeaf(ct, node)

Matches(ct, t) == IF t = NilTree THEN "yes" ELSE Eval(ct, t)

Init == contact \in Contacts /\ tree \in Trees /\ result = "none"

Evaluate == result = "none" /\ result' = Matches(contact, tree) /\ UNCHANGED <<contact, tree>>

Next == Evaluate

Spec == Init /\ [][Next]_vars

-----------------------------------------------------------------------------
(***************************************************************************)
(* Properties                                                              *)
(***************************************************************************)

\* What a tree says as a formula, whatever order its rules are in, when the
\* parts that cannot be evaluated count as b.
RECURSIVE Says(_, _)
Says(node, b) ==
    IF IsGroup(node)
    THEN LET sides == {Says(node.rules[i], b) : i \in DOMAIN node.rules}
         IN  CASE node.operator = "AND" -> FALSE \notin sides
               [] node.operator = "OR"  -> TRUE \in sides
               [] OTHER -> b
    ELSE LET leaf == EvalLeaf(contact, node) IN IF leaf = "error" THEN b ELSE leaf = "yes"

\* Some part of the tree cannot be evaluated.
RECURSIVE HasFailure(_)
HasFailure(node) ==
    IF IsGroup(node)
    THEN \/ node.operator \notin {"AND", "OR"}
         \/ \E i \in DOMAIN node.rules : HasFailure(node.rules[i])
    ELSE EvalLeaf(contact, node) = "error"

\* A contact joins or leaves a segment only when the tree says so as a formula,
\* whatever the parts that fail would have said; a tree without such parts is
\* always decided (evaluator.go:65-119).
DecidedByTheTree ==
    tree # NilTree =>
       /\ result = "yes" => Says(tree, FALSE)
       /\ result = "no" => ~Says(tree, TRUE)
       /\ result = "error" => HasFailure(tree)

As(operator) == Matches(contact, [tree EXCEPT !.operator = operator])
Opposite(p, q) == {As(p), As(q)} = {"yes", "no"}

\* What the operators mean together: a field is either there or not; where it
\* is, each negation is the opposite of its operator, equality implies the
\* partial matches, and a number is on one side; where it is not, nothing but
\* not_exists matches; and a comparison fails for a bad value only
\* (evaluator.go:121-160, 215-262).
LeavesAgree ==
    tree # NilTree /\ ~IsGroup(tree) /\ ~IsEvent(tree) =>
       LET a == Field(contact, tree)
       IN  /\ Opposite("exists", "not_exists")
           /\ a # Missing =>
                /\ Opposite("equals", "not_equals") /\ Opposite("in", "not_in")
                /\ As("equals") = "yes" =>
                      As("contains") = "yes" /\ As("starts_with") = "yes" /\ As("ends_with") = "yes"
                /\ ~(As("greater_than") = "yes" /\ As("less_than") = "yes")
                /\ As("equals") = "yes" => As("greater_than") # "yes" /\ As("less_than") # "yes"
                /\ As("greater_than") = "error" <=>
                      a.number # NotANumber /\ tree.value.number = NotANumber
           /\ a = Missing => As(tree.operator) = Bool(tree.operator = "not_exists")
=============================================================================
