----------------------------- MODULE AccessDecision -----------------------------
(***************************************************************************)
(* The policy decision point (packages/cca-core/src/pdp.ts) over the       *)
(* control-plane store: check decides one request.  A decision changes     *)
(* nothing but the audit trail, so the steps are those of the store; the   *)
(* properties ask every question in every state.                           *)
(*                                                                         *)
(* Contracts and capsules are imported: their predicates, field lists and  *)
(* attributes are one choice at the start, kept in the variable policy.    *)
(* No operation changes them, which is also why the scope a grant froze    *)
(* when it was requested is the one of its contract and its capsule.       *)
(***************************************************************************)
EXTENDS AccessStore, Predicates

CONSTANTS
  Policy,          \* the possible imports
  Record,          \* store.records
  CallerRecord,    \* records a caller of check brings along
  NoRecord,        \* a question about no record in particular
  DatasetFields,   \* dataset.allowedFields
  ControlDataset,  \* the datasets with the controlPlane flag
  JitDenyFields    \* JIT_DENY_FIELDS, hidden by every grant

VARIABLE policy

decisionVars == <<vars, policy>>

Dataset == DOMAIN DatasetLevel
Purpose == {k.purpose : k \in Contract} \cup {"governance"}

\* What loading a store guarantees of its records, predicates and field lists.
ImportAssumption ==
  /\ DatasetLevel \in [Dataset -> Nat]
  /\ \A r \in Record : r.level \in Nat /\ r.dataset \in Dataset /\ r.level <= DatasetLevel[r.dataset]
  /\ NoRecord \notin Record
  /\ \A chosen \in Policy : chosen.predicate \in [Contract -> Predicate]
  /\ \A k \in Contract : k.dataset \in Dataset /\ k.ceiling \in Ceiling
  /\ \A d \in Dataset : DatasetFields[d] \subseteq FieldPath /\ Canonical(DatasetFields[d])
  /\ \A chosen \in Policy, k \in Contract :
       chosen.allowFields[k] # Missing =>
         chosen.allowFields[k] \subseteq FieldPath /\ Canonical(chosen.allowFields[k])

ASSUME ImportAssumption

\* All questions somebody may ask.
Query ==
  {q \in [action : Action, dataset : Dataset, record : Record \cup CallerRecord \cup {NoRecord},
           purpose : Purpose] :
     q.record # NoRecord => q.record.dataset = q.dataset}

-----------------------------------------------------------------------------
\* Decisions.

Deny == [effect |-> "deny", allowedFields |-> {}, denyFields |-> {}]

Allow(allowedFields, denyFields) ==
  IF allowedFields = {} THEN Deny
  ELSE [effect |-> "allow", allowedFields |-> allowedFields, denyFields |-> denyFields]

\* A record can make a question more sensitive than its dataset, never less.
Sensitivity(q) ==
  IF q.record # NoRecord /\ q.record.level > DatasetLevel[q.dataset]
  THEN q.record.level ELSE DatasetLevel[q.dataset]

Attrs(c) == policy.attrs[c]

\* Without a record only a contract without a row filter can be met.
RowAllowed(k, c, record) ==
  IF record = NoRecord THEN policy.predicate[k].op = "true"
  ELSE EvalPredicate(policy.predicate[k], record.attrs, Attrs(c))

\* A contract without a field list of its own releases the dataset's.
ReleasedFields(k) ==
  IntersectFieldPaths(DatasetFields[k.dataset],
                      IF policy.allowFields[k] = Missing THEN DatasetFields[k.dataset]
                      ELSE policy.allowFields[k])

\* The standing contracts that bear on the question, and those that allow it.
Candidates(p, q) ==
  {held \in LiveMemberships(p) \X Contract :
     /\ <<held[1].capsule, held[2]>> \in bindings
     /\ ~ held[2].approvalRequired /\ held[2].dataset = q.dataset
     /\ PersonaMatchesContract(held[1].persona, held[2])
     /\ q.action \in held[1].persona.actions \cap held[2].actions}

Allowing(p, q) ==
  {held \in Candidates(p, q) :
     /\ q.purpose = held[2].purpose
     /\ Sensitivity(q) <= ClassificationMax(held[1].persona, held[2])
     /\ RowAllowed(held[2], held[1].capsule, q.record)}

\* Mutation: the time of the grant is left to its status.
UntimedGrants(p, q) ==
  {i \in DOMAIN jit :
     /\ jit[i].principal = p /\ jit[i].status = "approved"
     /\ jit[i].contract.dataset = q.dataset /\ jit[i].contract.purpose = q.purpose
     /\ q.action \in jit[i].actions
     /\ \E m \in LiveMemberships(p) : m.capsule = jit[i].capsule /\ m.persona = jit[i].persona}

LiveGrants(p, q) ==
  {i \in DOMAIN jit :
     /\ jit[i].principal = p /\ jit[i].status = "approved"
     /\ jit[i].contract.dataset = q.dataset /\ jit[i].contract.purpose = q.purpose
     /\ q.action \in jit[i].actions
     /\ \E m \in LiveMemberships(p) : m.capsule = jit[i].capsule /\ m.persona = jit[i].persona
     /\ jit[i].createdAt <= now /\ now < jit[i].expiresAt}

\* The oldest grant that is live decides, whatever a later one would say.
GrantDecision(q, g) ==
  IF /\ q.action \in g.persona.actions
     /\ Sensitivity(q) <= ClassificationMax(g.persona, g.contract)
     /\ RowAllowed(g.contract, g.capsule, q.record)
  THEN Allow(IntersectFieldPaths(DatasetFields[q.dataset], ReleasedFields(g.contract)),
             g.contract.denyFields \cup JitDenyFields)
  ELSE Deny

StandingDecision(held) ==
  Allow(UNION {ReleasedFields(h[2]) : h \in held}, UNION {h[2].denyFields : h \in held})

GovernanceDecision(p, q) ==
  IF /\ q.purpose = "governance" /\ q.action \in {"audit", "administer", "rotate"}
     /\ \E m \in LiveMemberships(p) : m.capsule = ControlPlane
     /\ HomePersona[p].id = "admin"
  THEN [effect |-> "allow", allowedFields |-> DatasetFields[q.dataset], denyFields |-> {}]
  ELSE Deny

Check(p, q) ==
  IF \/ ~ Enabled(p) \/ ~ Canonical(DatasetFields[q.dataset])
     \/ ~ \E m \in LiveMemberships(p) : q.action \in m.persona.actions
  THEN Deny
  ELSE IF q.dataset \in ControlDataset THEN GovernanceDecision(p, q)
  ELSE IF Allowing(p, q) # {} THEN StandingDecision(Allowing(p, q))
  ELSE IF LiveGrants(p, q) # {}
  THEN GrantDecision(q, jit[CHOOSE i \in LiveGrants(p, q) : \A j \in LiveGrants(p, q) : i <= j])
  ELSE Deny

-----------------------------------------------------------------------------
DecisionInit == Init /\ policy \in Policy

\* A grant is asked for only where it would release a field.
Requestable(k) == k.dataset \notin ControlDataset /\ ReleasedFields(k) # {}

DecisionNext ==
  /\ Next /\ UNCHANGED policy
  /\ \A i \in DOMAIN jit' \ DOMAIN jit : Requestable(jit'[i].contract)

DecisionSpec == DecisionInit /\ [][DecisionNext]_decisionVars

-----------------------------------------------------------------------------
\* Properties.

\* The seat and the contract that justify an answer.  A contract that needs
\* approval is backed by a grant in force that somebody else approved and that
\* was asked for under the very assignment the principal holds now.
BackedByGrant(m, k, q) ==
  \E i \in DOMAIN jit :
    /\ jit[i].status = "approved" /\ jit[i].assignment = m.assignment
    /\ jit[i].principal = m.principal /\ jit[i].approver # m.principal
    /\ jit[i].contract = k /\ q.action \in jit[i].actions
    /\ jit[i].createdAt <= now /\ now < jit[i].expiresAt

Entitles(m, k, q) ==
  /\ Enabled(m.principal) /\ Active(m.capsule) /\ <<m.capsule, k>> \in bindings
  /\ k.dataset = q.dataset /\ k.purpose = q.purpose
  /\ q.action \in m.persona.actions \cap k.actions
  /\ PersonaMatchesContract(m.persona, k)
  /\ Sensitivity(q) <= ClassificationMax(m.persona, k)
  /\ RowAllowed(k, m.capsule, q.record)
  /\ k.approvalRequired => BackedByGrant(m, k, q)

\* Whoever is allowed something is entitled to it by what the store holds at
\* that moment: by a seat in the control plane, or by one seat and one contract
\* bound to its capsule, with a grant of that same assignment where approval is
\* needed (pdp.ts: check and liveJit, which compares capsule and persona only).
AllowedIsEntitled ==
  \A p \in Principal, q \in Query :
    Check(p, q).effect = "allow" =>
      IF q.dataset \in ControlDataset THEN IsControlPlaneAdmin(p)
      ELSE \E m \in MembershipsOf(p), k \in Contract : Entitles(m, k, q)
=============================================================================
