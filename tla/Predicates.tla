------------------------------- MODULE Predicates -------------------------------
(***************************************************************************)
(* Row predicates and field lists                                          *)
(* (packages/cca-core/src/predicate.ts).                                   *)
(*                                                                         *)
(* A record's attributes are a tree: [leaf |-> value], [object |-> a       *)
(* function of names to trees] or [array |-> a sequence of trees].  A      *)
(* field is the sequence of names its dotted path consists of, so a path   *)
(* the code rejects (empty parts, __proto__) does not exist here; neither  *)
(* does a name by which an array has an entry of its own (a number, or     *)
(* length).                                                                *)
(***************************************************************************)
EXTENDS Naturals, SequencesExt

CONSTANTS
  Missing,   \* undefined
  Nesting    \* how deep each predicate of the store is nested

IsLeaf(tree)   == "leaf" \in DOMAIN tree
IsArray(tree)  == "array" \in DOMAIN tree
IsObject(tree) == "object" \in DOMAIN tree

-----------------------------------------------------------------------------
\* Predicates: [op |-> "true"], "eq" with a value (Missing if it came without
\* one, which loading a store accepts), "in" with values,
\* "fromCapsuleAttr" with an attribute, "and" and "or" with a set of clauses.

Predicate == DOMAIN Nesting

FieldPath == Seq(STRING) \ {<< >>}

\* A snapshot with an unknown operator or a cycle of clauses is refused.
ASSUME PredicateAssumption ==
  /\ Nesting \in [Predicate -> Nat]
  /\ \A p \in Predicate :
       /\ p.op \in {"true", "eq", "in", "fromCapsuleAttr", "and", "or"}
       /\ p.op \in {"and", "or"} =>
            /\ IsFiniteSet(p.clauses)
            /\ \A c \in p.clauses : c \in Predicate /\ Nesting[c] < Nesting[p]
       /\ p.op \in {"eq", "in", "fromCapsuleAttr"} => p.field \in FieldPath

Child(tree, name) ==
  IF tree # Missing /\ IsObject(tree) /\ name \in DOMAIN tree.object
  THEN tree.object[name] ELSE Missing

ReadField(tree, field) == FoldLeft(Child, tree, field)

\* The attribute is one of the values; an object or an array never is, and no
\* attribute at all is what an "eq" without a value asks for.
IsOneOf(tree, field, values) ==
  LET found == ReadField(tree, field)
  IN  IF found = Missing THEN Missing \in values
      ELSE IsLeaf(found) /\ found.leaf \in values

\* The values of a capsule attribute; what is no array counts as none.
AttrValues(attrs, attr) == IF attr \in DOMAIN attrs THEN attrs[attr] ELSE {}

\* The values a comparison admits.
Admitted(p, attrs) ==
  CASE p.op = "eq" -> {p.value}
    [] p.op = "in" -> p.values
    [] p.op = "fromCapsuleAttr" -> AttrValues(attrs, p.attr)

EvalPredicate(predicate, tree, attrs) ==
  LET holds[p \in Predicate] ==
        IF p.op = "true" THEN TRUE
        ELSE IF p.op = "and" THEN \A c \in p.clauses : holds[c]
        ELSE IF p.op = "or" THEN \E c \in p.clauses : holds[c]
        ELSE IsOneOf(tree, p.field, Admitted(p, attrs))
  IN  holds[predicate]

-----------------------------------------------------------------------------
\* Field lists.

\* No field lies below another one.  (The code looks at neighbours in sorted
\* order only, which misses <<"a">> and <<"a", "b">> where a name such as "a-b"
\* sorts between them; names here have no character below the dot.)
Canonical(fields) == \A f, g \in fields : IsPrefix(f, g) => f = g

IntersectFieldPaths(current, granted) ==
  IF ~ Canonical(current) \/ ~ Canonical(granted) THEN {}
  ELSE {f \in current : \E g \in granted : IsPrefix(g, f)}
         \cup {g \in granted : \E f \in current : IsPrefix(f, g)}
=============================================================================
