------------------------------ MODULE DatasetReads ------------------------------
(***************************************************************************)
(* What a principal gets to see of a dataset (packages/cca-core/src/       *)
(* pdp.ts): filterDataset asks check about every row and projects what it  *)
(* allows, explainAccess summarises it over the purposes.                  *)
(***************************************************************************)
EXTENDS AccessDecision, RecordTrees

\* What loading a store guarantees: a field of a dataset is plain in its records.
ASSUME RecordAssumption ==
  /\ IsFiniteSet(Record)
  /\ \A r \in Record :
       /\ r.attrs \in Tree /\ IsObject(r.attrs)
       /\ \A f \in DatasetFields[r.dataset] : PlainAt(r.attrs, f)
  /\ IsFiniteSet(JitDenyFields) /\ JitDenyFields \subseteq FieldPath
  /\ \A k \in Contract : IsFiniteSet(k.denyFields) /\ k.denyFields \subseteq FieldPath

View(dataset, record, purpose) ==
  [action |-> "view", dataset |-> dataset, record |-> record, purpose |-> purpose]

\* What the principal gets of a record it may view.
Delivered(record, decision) ==
  [record |-> record,
   attrs  |-> ProjectAttrs(record.attrs, decision.allowedFields, decision.denyFields)]

FilterDataset(p, dataset, purpose) ==
  {Delivered(r, Check(p, View(dataset, r, purpose))) : r \in
     {x \in Record : x.dataset = dataset /\ Check(p, View(dataset, x, purpose)).effect = "allow"}}

\* The purposes explainAccess tries: those of the contracts bound to the
\* principal's live capsules and of all its grants.  The route drops those the
\* session was not issued for, as it does for every other question.
PurposesFor(p, dataset) ==
  {b[2].purpose : b \in {x \in bindings : x[2].dataset = dataset /\
                           \E m \in LiveMemberships(p) : m.capsule = x[1]}}
    \cup {jit[i].contract.purpose : i \in {j \in GrantsOf(p) : jit[j].contract.dataset = dataset}}

\* The most rows any of them shows.
ExplainAccess(p, dataset) ==
  LET counts == {Cardinality(FilterDataset(p, dataset, purpose)) : purpose \in PurposesFor(p, dataset)}
  IN  IF counts = {} THEN 0 ELSE CHOOSE n \in counts : \A other \in counts : other <= n

-----------------------------------------------------------------------------
\* Properties.

OnlyReleasedFieldsAreRead ==
  \A p \in Principal, dataset \in Dataset \ ControlDataset, purpose \in Purpose :
    \A row \in FilterDataset(p, dataset, purpose) :
      LET q == View(dataset, row.record, purpose)
          entitling == {held \in MembershipsOf(p) \X Contract : Entitles(held[1], held[2], q)}
          standing  == {held \in entitling : ~ held[2].approvalRequired}
      IN  \A path \in Leaves(row.attrs) :
            /\ \E f \in DatasetFields[dataset] : IsPrefix(f, path)
            /\ \E held \in entitling :
                 /\ \E f \in ReleasedFields(held[2]) : IsPrefix(f, path)
                 /\ ~ \E f \in held[2].denyFields : IsPrefix(f, path)
            /\ \A held \in standing : ~ \E f \in held[2].denyFields : IsPrefix(f, path)
            /\ standing = {} => ~ \E f \in JitDenyFields : IsPrefix(f, path)

ExplainIsComplete ==
  \A p \in Principal, dataset \in Dataset \ ControlDataset, purpose \in Purpose :
    Cardinality(FilterDataset(p, dataset, purpose)) <= ExplainAccess(p, dataset)

\* What is read of a record was released by the dataset and by a contract that
\* entitles the reader to this record, and is hidden neither by any contract
\* that allowed it nor, under a grant, by the grant (pdp.ts: filterDataset;
\* predicate.ts: projectAttrs, through objects and arrays).  And the summary
\* of what a principal may see misses nothing (explainAccess): no purpose
\* shows more rows than it says.
DatasetReadsAreTruthful == OnlyReleasedFieldsAreRead /\ ExplainIsComplete
=============================================================================
