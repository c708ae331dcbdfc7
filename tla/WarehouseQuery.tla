----------------------------- MODULE WarehouseQuery -----------------------------
(***************************************************************************)
(* Reading the shared warehouse.  It is no dataset of the store: its rows  *)
(* are in SQLite, so a contract's predicate is turned into scopes          *)
(* (warehouseScopesFor in packages/cca-core/src/lifecycle.ts), the scopes  *)
(* into an SQL filter (role-draft.ts), and the filter runs in              *)
(* apps/api/src/warehouse.ts for the dashboard, the record pages and the   *)
(* preview of a role draft (apps/api/src/app.ts).                          *)
(*                                                                         *)
(* A scope lists the values it admits in each dimension; in SQL a          *)
(* dimension without values is not filtered, which is why a scope that     *)
(* came out empty must not get that far.                                   *)
(***************************************************************************)
EXTENDS AccessDecision

CONSTANTS
  WarehouseRow,   \* the table facts: [id, level, attrs], attrs a flat tree
  RoleDraft,      \* drafts somebody previews: [purpose, ceiling, denyFields, scope]
  Null            \* a value that is no string

Dimension == {"product", "tenant", "region", "department", "source"}

\* WAREHOUSE_ALLOWED_FIELDS, as far as there are columns here.
WarehouseField == {<<name>> : name \in UNION {DOMAIN row.attrs.object : row \in WarehouseRow}}

\* The columns of the dimensions are NOT NULL; id is the primary key.
ASSUME WarehouseAssumption ==
  /\ IsFiniteSet(WarehouseRow)
  /\ \A row \in WarehouseRow :
       /\ row.id \in Nat \ {0} /\ row.level \in Nat
       /\ DOMAIN row.attrs.object \subseteq STRING
       /\ \A d \in Dimension : ReadField(row.attrs, <<d>>) # Missing /\ IsLeaf(ReadField(row.attrs, <<d>>))
  /\ \A row, other \in WarehouseRow : row.id = other.id => row = other

-----------------------------------------------------------------------------
\* From a predicate to scopes: functions of the dimensions they restrict.
\* A comparison with anything but strings restricts to nothing.

NoString == {Null, Missing}

DimensionScope(field, values) ==
  IF /\ Len(field) = 1 /\ field[1] \in Dimension
     /\ values # {} /\ values \cap NoString = {}
  THEN {[d \in {field[1]} |-> values]} ELSE {}

Merged(left, right) ==
  [d \in DOMAIN left \cup DOMAIN right |->
     IF d \notin DOMAIN left THEN right[d]
     ELSE IF d \notin DOMAIN right THEN left[d] ELSE left[d] \cap right[d]]

\* Mutation: a dimension without common values is kept.
MergedAsIs(left, right) == {Merged(left, right)}

\* Two restrictions without a common value admit nothing.
MergeDimensions(left, right) ==
  IF \E d \in DOMAIN left \cap DOMAIN right : left[d] \cap right[d] = {}
  THEN {} ELSE {Merged(left, right)}

Combine(some, others) == UNION {UNION {MergeDimensions(l, r) : r \in some} : l \in others}

\* What satisfies every clause.
CombineAll(restrictions) == FoldFunction(Combine, {<< >>}, restrictions)

PredicateToScopes(predicate, attrs) ==
  LET scopes[p \in Predicate] ==
        IF p.op = "true" THEN {<< >>}
        ELSE IF p.op = "and" THEN CombineAll([c \in p.clauses |-> scopes[c]])
        ELSE IF p.op = "or" THEN UNION {scopes[c] : c \in p.clauses}
        ELSE DimensionScope(p.field, Admitted(p, attrs))
  IN  scopes[predicate]

\* The data scope of a restriction: every dimension has its values, or none.
Filled(restriction, ceiling) ==
  [values  |-> [d \in Dimension |-> IF d \in DOMAIN restriction THEN restriction[d] ELSE {}],
   ceiling |-> ceiling]

ScopesOf(k, c, persona) ==
  {Filled(restriction, ClassificationMax(persona, k)) : restriction \in
     {r \in PredicateToScopes(policy.predicate[k], Attrs(c)) :
        "product" \in DOMAIN r /\ r["product"] # {}}}

\* The contracts under which a principal reads the warehouse for a purpose.
\* The field lists are those of the contract.
WarehouseContracts(p, purpose) ==
  {held \in LiveMemberships(p) \X Contract :
     /\ <<held[1].capsule, held[2]>> \in bindings
     /\ held[2].dataset = "warehouse" /\ "view" \in held[2].actions
     /\ held[2].purpose = purpose
     /\ ReleasedFields(held[2]) # {}
     /\ PersonaMatchesContract(held[1].persona, held[2])
     /\ held[1].persona.ceiling # 0}

WarehouseScopesFor(p, purpose) ==
  UNION {{[scope |-> s, contract |-> held[2]] :
            s \in ScopesOf(held[2], held[1].capsule, held[1].persona)} :
          held \in WarehouseContracts(p, purpose)}

-----------------------------------------------------------------------------
\* The SQL filter and what is selected with it.

Value(row, d) == ReadField(row.attrs, <<d>>).leaf

\* compileScopeToSql: a scope without products selects nothing.
InScope(scope, row) ==
  /\ scope.values["product"] # {}
  /\ \A d \in Dimension : scope.values[d] = {} \/ Value(row, d) \in scope.values[d]
  /\ row.level <= scope.ceiling

Selected(scopes) == {row \in WarehouseRow : \E scope \in scopes : InScope(scope, row)}

\* Fields outside the known schema are not projected at all.
Projection(allowedFields, denyFields) ==
  IF ~ Canonical(allowedFields) \/ ~ (allowedFields \subseteq WarehouseField) THEN {}
  ELSE {f \in allowedFields : ~ \E d \in denyFields : IsPrefix(d, f) \/ IsPrefix(f, d)}

AllowedFieldsForScopes(scopes) ==
  IF scopes = {} THEN {}
  ELSE FoldSet(LAMBDA s, allowed : IntersectFieldPaths(allowed, ReleasedFields(s.contract)),
               WarehouseField, scopes)

DeniedFields(scopes) == UNION {s.contract.denyFields : s \in scopes}

\* The rows behind a dashboard or a page and the fields shown of them.
Dashboard(p, purpose) ==
  LET scopes == WarehouseScopesFor(p, purpose)
      fields == Projection(AllowedFieldsForScopes(scopes), DeniedFields(scopes))
  IN  [rows   |-> IF fields = {} THEN {} ELSE Selected({s.scope : s \in scopes}),
       fields |-> fields]

First(rows, limit) ==
  {r \in rows : Cardinality({x \in rows : x.id < r.id}) < limit}

LastOf(rows) == CHOOSE id \in {r.id : r \in rows} : \A r \in rows : r.id <= id

\* One row more than the limit is read, to know whether there is a next page.
Page(rows, cursor, limit) ==
  LET read    == First({r \in rows : r.id > cursor}, limit + 1)
      hasMore == Cardinality(read) > limit
      shown   == IF hasMore THEN First(read, limit) ELSE read
  IN  [records |-> shown, next |-> IF hasMore THEN LastOf(shown) ELSE 0]

-----------------------------------------------------------------------------
\* Previewing a role draft.

ScopeFromDraft(draft) == [values |-> draft.scope, ceiling |-> draft.ceiling]

\* Nothing on one side means all; nothing in common means no scope.
IntersectValues(requested, allowed) ==
  IF allowed = {} THEN {requested} ELSE IF requested = {} THEN {allowed}
  ELSE IF requested \cap allowed = {} THEN {} ELSE {requested \cap allowed}

IntersectScope(requested, allowed) ==
  IF \E d \in Dimension : IntersectValues(requested.values[d], allowed.values[d]) = {} THEN {}
  ELSE {[values  |-> [d \in Dimension |->
                        CHOOSE v \in IntersectValues(requested.values[d], allowed.values[d]) : TRUE],
         ceiling |-> IF requested.ceiling <= allowed.ceiling
                     THEN requested.ceiling ELSE allowed.ceiling]}

\* An administrator previews the draft itself, anybody else only what the
\* draft and their own access have in common.
PreviewScopes(actor, draft) ==
  IF IsControlPlaneAdmin(actor) THEN {ScopeFromDraft(draft)}
  ELSE UNION {IntersectScope(ScopeFromDraft(draft), s.scope) :
                s \in WarehouseScopesFor(actor, draft.purpose)}

PreviewRole(actor, draft) ==
  LET scopes == WarehouseScopesFor(actor, draft.purpose)
      fields == IF IsControlPlaneAdmin(actor) THEN Projection(WarehouseField, draft.denyFields)
                ELSE Projection(AllowedFieldsForScopes(scopes), draft.denyFields \cup DeniedFields(scopes))
  IN  [rows   |-> IF fields = {} THEN {} ELSE Selected(PreviewScopes(actor, draft)),
       fields |-> fields]

\* The predicate and the capsule attributes the role gets when it is applied.
DraftAttrs(draft) == draft.scope

DraftToPredicate(draft) ==
  [op |-> "and", clauses |->
     {[op |-> "in", field |-> <<"product">>, values |-> draft.scope["product"]]}
       \cup {[op |-> "fromCapsuleAttr", field |-> <<d>>, attr |-> d] :
               d \in {x \in Dimension \ {"product"} : draft.scope[x] # {}}}]

\* The drafts that validateRoleDraft accepts.
ASSUME DraftAssumption ==
  \A draft \in RoleDraft :
    /\ DraftToPredicate(draft) \in Predicate
    /\ DOMAIN draft.scope = Dimension /\ draft.ceiling \in Ceiling
    /\ draft.scope["product"] # {}
    /\ \A d \in Dimension : draft.scope[d] \cap NoString = {}

\* What the holder of the role reads once it is applied: its persona and its
\* contract have the draft's ceiling.
RoleRows(draft) ==
  Selected({Filled(r, draft.ceiling) : r \in PredicateToScopes(DraftToPredicate(draft), DraftAttrs(draft))})

-----------------------------------------------------------------------------
\* Properties.

RowGranted(p, purpose, row) ==
  \E m \in LiveMemberships(p), k \in Contract :
    /\ <<m.capsule, k>> \in bindings /\ k.dataset = "warehouse" /\ k.purpose = purpose
    /\ "view" \in k.actions /\ PersonaMatchesContract(m.persona, k)
    /\ row.level <= ClassificationMax(m.persona, k)
    /\ EvalPredicate(policy.predicate[k], row.attrs, Attrs(m.capsule))

RowsAreGranted ==
  \A p \in Principal, purpose \in Purpose :
    LET shown == Dashboard(p, purpose)
    IN  /\ \A row \in shown.rows : RowGranted(p, purpose, row)
        /\ \A s \in WarehouseScopesFor(p, purpose), f \in shown.fields :
             f \in ReleasedFields(s.contract) /\ f \notin s.contract.denyFields

\* The pages one gets by following nextCursor.
Walk(rows, limit) ==
  LET pages[cursor \in {0} \cup {r.id : r \in rows}] ==
        LET shown == Page(rows, cursor, limit)
        IN  IF shown.next = 0 THEN <<shown.records>> ELSE <<shown.records>> \o pages[shown.next]
  IN  pages[0]

PagesAreComplete ==
  \A p \in Principal, purpose \in Purpose, limit \in 1 .. 2 :
    LET rows  == Dashboard(p, purpose).rows
        pages == Walk(rows, limit)
    IN  /\ UNION {pages[i] : i \in DOMAIN pages} = rows
        /\ \A i, j \in DOMAIN pages : i # j => pages[i] \cap pages[j] = {}

PreviewsAreTruthful ==
  \A p \in Principal, draft \in RoleDraft :
    IF IsControlPlaneAdmin(p)
    THEN PreviewRole(p, draft).fields # {} => PreviewRole(p, draft).rows = RoleRows(draft)
    ELSE /\ PreviewRole(p, draft).rows \subseteq Dashboard(p, draft.purpose).rows
         /\ PreviewRole(p, draft).fields \subseteq Dashboard(p, draft.purpose).fields

\* A row of the warehouse is shown only if some contract bound to one of the
\* reader's seats, for the stated purpose, holds for this row under both
\* ceilings: whatever and, or and capsule attributes a predicate is made of,
\* turning it into SQL never widens it (lifecycle.ts: mergeDimensions;
\* role-draft.ts: compileScopeToSql).  A column is shown only if every one of
\* these contracts releases it and none hides it.  The pages together show
\* every such row once (warehouse.ts: page).  A preview is honest in both
\* directions (app.ts: previewRole, intersectScope): an administrator is shown
\* exactly the rows the role will read once it is applied, by another route
\* through the code, and nobody else learns of a row or a column that their
\* own dashboard would not show.
WarehouseReadsAreTruthful == RowsAreGranted /\ PagesAreComplete /\ PreviewsAreTruthful
=============================================================================
