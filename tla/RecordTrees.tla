------------------------------- MODULE RecordTrees -------------------------------
(***************************************************************************)
(* The projection of a record on the fields that are released              *)
(* (packages/cca-core/src/predicate.ts): through objects and arrays.  The  *)
(* code recurses over the record; here the recursive functions range over  *)
(* the trees of up to MaxHeight levels, so that they are defined at all.   *)
(***************************************************************************)
EXTENDS Predicates

CONSTANTS
  Scalar,     \* strings, numbers, truth values and null
  Name,       \* the names of fields in records
  MaxHeight   \* bound on the nesting of a record

\* The trees of up to n levels below the root.  An object maps every name, those
\* it does not have to undefined.
Trees[n \in Nat] ==
  IF n = 0 THEN [leaf : Scalar]
  ELSE [leaf : Scalar] \cup [array : Seq(Trees[n - 1])]
         \cup [object : [Name -> Trees[n - 1] \cup {Missing}]]

Tree == Trees[MaxHeight]

ASSUME TreeAssumption == Name \subseteq STRING /\ MaxHeight \in Nat /\ Missing \notin Tree

Path == Seq(STRING)

-----------------------------------------------------------------------------
\* What is left of the fields below a name.
Below(name, fields) == {Tail(f) : f \in {g \in fields : g # << >> /\ Head(g) = name}}

\* A value, or a list of values.
Plain(tree) == IsLeaf(tree) \/ (IsArray(tree) /\ \A i \in DOMAIN tree.array : IsLeaf(tree.array[i]))

\* What is there of a list, in its order (SelectSeq, as a recursive function).
Present(items) ==
  LET kept[n \in 0 .. Len(items)] ==
        IF n = 0 THEN << >>
        ELSE IF items[n] = Missing THEN kept[n - 1] ELSE Append(kept[n - 1], items[n])
  IN  kept[Len(items)]

\* A field that is allowed as a whole must be plain: an object under it is
\* not released, whatever else is allowed below.
ProjectAllowed(tree, fields) ==
  LET project[t \in Tree] ==
        [fs \in SUBSET Path |->
          IF << >> \in fs THEN IF Plain(t) THEN t ELSE Missing
          ELSE IF IsLeaf(t) THEN Missing
          ELSE IF IsArray(t)
          THEN [array |-> Present([i \in DOMAIN t.array |-> project[t.array[i]][fs]])]
          ELSE [object |-> [n \in Name |->
                              IF t.object[n] = Missing \/ Below(n, fs) = {} THEN Missing
                              ELSE project[t.object[n]][Below(n, fs)]]]]
  IN  project[tree][fields]

\* The object whose value under a name is replaced, if it has one.
Replaced(object, name, value) ==
  [object |-> [n \in Name |-> IF n = name /\ object[n] # Missing THEN value ELSE object[n]]]

\* Mutation: an array is left as it is.
DeleteInObjects(tree, field) ==
  LET delete[t \in Tree] ==
        [f \in FieldPath |->
          IF ~ IsObject(t) THEN t
          ELSE IF Len(f) = 1 THEN Replaced(t.object, Head(f), Missing)
          ELSE Replaced(t.object, Head(f), delete[t.object[Head(f)]][Tail(f)])]
  IN  delete[tree][field]

\* In an array the path applies to every element.
DeletePath(tree, field) ==
  LET delete[t \in Tree] ==
        [f \in FieldPath |->
          IF IsLeaf(t) THEN t
          ELSE IF IsArray(t) THEN [array |-> [i \in DOMAIN t.array |-> delete[t.array[i]][f]]]
          ELSE IF Len(f) = 1 THEN Replaced(t.object, Head(f), Missing)
          ELSE Replaced(t.object, Head(f), delete[t.object[Head(f)]][Tail(f)])]
  IN  delete[tree][field]

ProjectAttrs(tree, allowedFields, denyFields) ==
  FoldSet(LAMBDA field, rest : DeletePath(rest, field),
          ProjectAllowed(tree, allowedFields), denyFields)

\* A path leads to plain values only, or to nothing.
PlainAt(tree, field) ==
  LET plain[t \in Tree] ==
        [path \in Path |->
          IF path = << >> THEN Plain(t)
          ELSE IF IsArray(t) THEN \A i \in DOMAIN t.array : plain[t.array[i]][path]
          ELSE Child(t, Head(path)) = Missing \/ plain[Child(t, Head(path))][Tail(path)]]
  IN  plain[tree][field]

\* The paths of the values in a tree, those in an array under the array's path.
Leaves(tree) ==
  LET leaves[t \in Tree] ==
        IF IsLeaf(t) THEN {<< >>}
        ELSE IF IsArray(t) THEN UNION {leaves[t.array[i]] : i \in DOMAIN t.array}
        ELSE UNION {{<<n>> \o path : path \in leaves[t.object[n]]} :
                      n \in {m \in Name : t.object[m] # Missing}}
  IN  leaves[tree]
=============================================================================
