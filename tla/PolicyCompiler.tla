----------------------------- MODULE PolicyCompiler -----------------------------
(***************************************************************************)
(* The compiler of native policies (packages/cca-core/src/compiler.ts): it *)
(* turns the contracts of a capsule into Elasticsearch roles and BW        *)
(* authorizations, says who is assigned to them, and reports in a gate per *)
(* contract and target whether the target can express the row filter       *)
(* (here that of Elasticsearch).                                           *)
(*                                                                         *)
(* Left out are the names of the artifacts, the hash over their sources,   *)
(* the field lists, the targets without a row filter (BusinessObjects,     *)
(* dashboards, runtime identities) and the plan: no target ever supports   *)
(* the purpose binding that every gate requires, so the plan is empty      *)
(* whatever else a gate says.  A capsule with a field list that is not     *)
(* canonical is refused.                                                   *)
(***************************************************************************)
EXTENDS WarehouseQuery

CONSTANT AnyValue   \* "*"

\* The non-approval contracts that are bound to a capsule, and those of them
\* that release a field.
Standing(c) == {k \in Contract : <<c, k>> \in bindings /\ ~ k.approvalRequired}

Emitting(c) == {k \in Standing(c) : ReleasedFields(k) # {}}

CanonicalLists(k) ==
  /\ Canonical(DatasetFields[k.dataset])
  /\ policy.allowFields[k] # Missing => Canonical(policy.allowFields[k])

Compilable(c) == Active(c) /\ \A k \in Standing(c) : CanonicalLists(k)

ClassificationAllowed(k) == DatasetLevel[k.dataset] <= k.ceiling

-----------------------------------------------------------------------------
\* Elasticsearch: a query [op, field, values, clauses] as far as it has them.

MatchAll  == [op |-> "all"]
MatchNone == [op |-> "none"]

\* What is neither a string, a number nor a boolean is no term.
Terms(field, values) ==
  IF values = {} \/ values \cap NoString # {} THEN MatchNone
  ELSE [op |-> "terms", field |-> field, values |-> values]

CompilePredicateToElasticsearch(predicate, attrs) ==
  LET compiled[p \in Predicate] ==
        IF p.op = "true" THEN MatchAll
        ELSE IF p.op = "and" THEN [op |-> "filter", clauses |-> {compiled[c] : c \in p.clauses}]
        ELSE IF p.op = "or" THEN [op |-> "should", clauses |-> {compiled[c] : c \in p.clauses}]
        ELSE Terms(p.field, Admitted(p, attrs))
  IN  compiled[predicate]

\* Mutation: part of an alternative is enough.
SupportedInPart(predicate, attrs) ==
  LET supported[p \in Predicate] ==
        IF p.op = "and" THEN \A c \in p.clauses : supported[c]
        ELSE IF p.op = "or" THEN \E c \in p.clauses : supported[c]
        ELSE CompilePredicateToElasticsearch(p, attrs) # MatchNone
  IN  supported[predicate]

SupportedByElasticsearch(predicate, attrs) ==
  LET supported[p \in Predicate] ==
        IF p.op = "and" THEN \A c \in p.clauses : supported[c]
        ELSE IF p.op = "or" THEN p.clauses # {} /\ \A c \in p.clauses : supported[c]
        ELSE CompilePredicateToElasticsearch(p, attrs) # MatchNone
  IN  supported[predicate]

CapsuleAttrs == UNION {{chosen.attrs[c] : c \in Capsule} : chosen \in Policy}

\* The queries that may come about.
ElasticsearchQuery ==
  {MatchNone} \cup {CompilePredicateToElasticsearch(p, a) : p \in Predicate, a \in CapsuleAttrs}

\* What the target does with a query.
ElasticsearchSelects(query, tree) ==
  LET selects[q \in ElasticsearchQuery] ==
        IF q.op = "filter" THEN \A c \in q.clauses : selects[c]
        ELSE IF q.op = "should" THEN \E c \in q.clauses : selects[c]
        ELSE q.op = "all" \/ (q.op = "terms" /\ IsOneOf(tree, q.field, q.values))
  IN  selects[query]

ElasticsearchRoles(c) ==
  {[contract |-> k,
    query    |-> IF ClassificationAllowed(k)
                 THEN CompilePredicateToElasticsearch(policy.predicate[k], Attrs(c))
                 ELSE MatchNone] : k \in {x \in Emitting(c) : "view" \in x.actions}}

-----------------------------------------------------------------------------
\* BW: the values of the vendor characteristic.

\* Mutation: a clause that admits every vendor admits every vendor.
WiderBwValues(left, right) ==
  IF AnyValue \in left \cup right THEN {AnyValue} ELSE left \cap right

IntersectBwValues(left, right) ==
  IF AnyValue \in left THEN right
  ELSE IF AnyValue \in right THEN left ELSE left \cap right

VendorValues(field, values) ==
  IF field = <<"vendor_id">> /\ values \cap NoString = {} THEN values ELSE {}

\* An empty intersection ends the code's loop and is kept by this one.
IntersectAll(lists) == FoldFunction(IntersectBwValues, {AnyValue}, lists)

UniteBwValues(lists) == IF AnyValue \in UNION lists THEN {AnyValue} ELSE UNION lists

CompileBwVendorValues(predicate, attrs) ==
  LET compiled[p \in Predicate] ==
        IF p.op = "true" THEN {AnyValue}
        ELSE IF p.op = "and" THEN IntersectAll([c \in p.clauses |-> compiled[c]])
        ELSE IF p.op = "or" THEN UniteBwValues({compiled[c] : c \in p.clauses})
        ELSE VendorValues(p.field, Admitted(p, attrs))
  IN  compiled[predicate]

BwSelects(values, tree) == AnyValue \in values \/ IsOneOf(tree, <<"vendor_id">>, values)

BwContracts(c) == {k \in Emitting(c) : k.dataset \in {"bw_vendor", "pc_detail"}}

BwAuthorizations(c) ==
  {[contract |-> k,
    values   |-> IF ClassificationAllowed(k)
                 THEN CompileBwVendorValues(policy.predicate[k], Attrs(c)) ELSE {}] :
     k \in BwContracts(c)}

-----------------------------------------------------------------------------
\* Who gets the artifacts.

Eligible(m, k) ==
  /\ Enabled(m.principal)
  /\ PersonaMatchesContract(m.persona, k)
  /\ DatasetLevel[k.dataset] <= ClassificationMax(m.persona, k)
  /\ k.actions \cap m.persona.actions # {}

EligibleAssignments(c, k) == {m \in memberships : m.capsule = c /\ Eligible(m, k)}

-----------------------------------------------------------------------------
\* The contracts whose row filter the Elasticsearch gate reports as supported.

ElasticsearchSupports(c) ==
  {k \in Emitting(c) :
     "view" \in k.actions /\ SupportedByElasticsearch(policy.predicate[k], Attrs(c))}

-----------------------------------------------------------------------------
\* Properties.

RowsOf(k) == {r \in Record : r.dataset = k.dataset}

RowHolds(c, k, row) == EvalPredicate(policy.predicate[k], row.attrs, Attrs(c))

SelectedByElasticsearch(c, k, row) ==
  \E role \in ElasticsearchRoles(c) : role.contract = k /\ ElasticsearchSelects(role.query, row.attrs)

SelectedByBw(c, k, row) ==
  \E auth \in BwAuthorizations(c) : auth.contract = k /\ BwSelects(auth.values, row.attrs)

\* Some comparison of a predicate has the value that stands for all vendors
\* among its own.
ListsAnyValue(predicate, attrs) ==
  LET lists[p \in Predicate] ==
        IF p.op \in {"and", "or"} THEN \E c \in p.clauses : lists[c]
        ELSE p.op # "true" /\ AnyValue \in VendorValues(p.field, Admitted(p, attrs))
  IN  lists[predicate]

AllowedByCheck(m, k, action, record) ==
  Check(m.principal, [action |-> action, dataset |-> k.dataset, record |-> record,
                      purpose |-> k.purpose]).effect = "allow"

\* A native artifact never reaches further than the decision point: whoever is
\* assigned to a contract may do to each row that its artifacts select what the
\* assignment says, for the contract's purpose, however the predicate nests and
\* whatever the capsule's attributes are (compiler.ts against pdp.ts; an
\* intersection of vendor lists that comes out empty must not turn into the "*"
\* of an unfiltered list).  The one exception is a BW list for a predicate that
\* compares the vendor with a literal "*", which the decision point takes for
\* the name of a vendor and the list for all of them.
NativePoliciesNeverWiden ==
  \A c \in {x \in Capsule : Compilable(x)} :
    \A k \in {x \in Emitting(c) : x.dataset \notin ControlDataset} :
      \A m \in EligibleAssignments(c, k), action \in k.actions, row \in RowsOf(k) :
        /\ action \in m.persona.actions
        /\ \/ action = "view" /\ SelectedByElasticsearch(c, k, row)
           \/ SelectedByBw(c, k, row) /\ ~ ListsAnyValue(policy.predicate[k], Attrs(c))
        => AllowedByCheck(m, k, action, row)

\* A row filter that an Elasticsearch gate reports as supported is exact: the
\* query selects just the rows for which the predicate holds, so a gate that
\* misses nothing hides no part of the policy (compiler.ts:
\* predicateSupportedByElasticsearch against compilePredicateToElasticsearch,
\* which walk the predicate separately, and evalPredicate).
ElasticsearchFiltersAreExact ==
  \A c \in {x \in Capsule : Compilable(x)} :
    \A k \in {x \in ElasticsearchSupports(c) : ClassificationAllowed(x)} : \A row \in RowsOf(k) :
      SelectedByElasticsearch(c, k, row) <=> RowHolds(c, k, row)
=============================================================================
