----------------------------- MODULE DecisionProofs -----------------------------
(***************************************************************************)
(* Proofs about the decisions: whoever is allowed something is entitled to *)
(* it, the artifacts of the compiler and the scopes of the warehouse admit *)
(* no row that the predicate of their contract does not hold for, and the  *)
(* pages and previews of the warehouse are truthful.                       *)
(***************************************************************************)
EXTENDS PolicyCompiler, DatasetReads, AccessStoreProofs, Induction

-----------------------------------------------------------------------------
(***************************************************************************)
(* The steps of the decision modules are steps of the store.               *)
(***************************************************************************)

\* Answering questions changes nothing, so the store's theorems hold here too.
THEOREM DecisionsUseStore == DecisionSpec => Spec
<1>1. DecisionInit => Init
  BY DEF DecisionInit
<1>2. [DecisionNext]_decisionVars => [Next]_vars
  BY DEF DecisionNext, decisionVars
<1> QED BY <1>1, <1>2, PTL DEF DecisionSpec, Spec

LEMMA PolicyIsImported == DecisionSpec => [](policy \in Policy)
<1>1. DecisionInit => policy \in Policy
  BY DEF DecisionInit
<1>2. policy \in Policy /\ [DecisionNext]_decisionVars => (policy \in Policy)'
  BY DEF DecisionNext, decisionVars
<1> QED BY <1>1, <1>2, PTL DEF DecisionSpec

-----------------------------------------------------------------------------
(***************************************************************************)
(* The scope a grant froze is within the contract it was asked under.      *)
(***************************************************************************)

WithinContract(g) ==
  /\ PersonaMatchesContract(g.persona, g.contract)
  /\ g.actions \subseteq g.persona.actions \cap g.contract.actions

GrantsWithinContract == \A i \in DOMAIN jit : WithinContract(jit[i])

SameScope(g, h) == h.persona = g.persona /\ h.contract = g.contract /\ h.actions = g.actions

\* No step touches the scope of a grant.
ScopesStay ==
  \A i \in DOMAIN jit' :
    \/ i \in DOMAIN jit /\ SameScope(jit[i], jit'[i])
    \/ WithinContract(jit'[i])

LEMMA DecisionKeepsScope ==
  ASSUME TypeOK, NEW i \in DOMAIN jit, NEW g \in Grant, SameScope(jit[i], g),
         jit' = [jit EXCEPT ![i] = g]
  PROVE  ScopesStay
<1>1. jit \in Seq(Grant)
  BY DEF TypeOK
<1>2. /\ DOMAIN jit' = DOMAIN jit /\ jit'[i] = g
      /\ \A j \in DOMAIN jit : j # i => jit'[j] = jit[j]
  BY <1>1, UpdateGrant
<1> QED BY <1>2 DEF ScopesStay, SameScope

LEMMA JitStepKeepsScopes ==
  ASSUME TypeOK, JitStep
  PROVE  ScopesStay
<1>1. jit \in Seq(Grant) /\ now \in Nat
  BY BoundAssumption DEF TypeOK, Time
<1>2. ASSUME NEW m \in memberships, NEW k \in Contract, NEW actions \in SUBSET WarehouseAction,
             NEW ttl \in MinTtl .. MaxTtl, RequestJit(m, k, actions, ttl)
      PROVE  ScopesStay
  <2> DEFINE g == [status |-> "pending", principal |-> m.principal, capsule |-> m.capsule,
                   persona |-> m.persona, contract |-> k, actions |-> actions,
                   requestedTtl |-> ttl, createdAt |-> now, expiresAt |-> NoTime,
                   approver |-> NoOne, approvedAt |-> NoTime, assignment |-> m.assignment]
  <2>1. jit' = Append(jit, g)
    BY <1>2 DEF RequestJit
  <2>2. WithinContract(g)
    BY <1>2 DEF RequestJit, JitContractOk, WithinContract
  <2> HIDE DEF g
  <2>3. \A i \in DOMAIN jit' : (i \in DOMAIN jit /\ jit'[i] = jit[i]) \/ jit'[i] = g
    BY <1>1, <2>1
  <2> QED BY <2>2, <2>3 DEF ScopesStay, SameScope
<1>3. ASSUME NEW i \in DOMAIN jit, NEW actor \in Principal, NEW ttl \in MinTtl .. MaxTtl,
             ApproveJit(actor, i, ttl)
      PROVE  ScopesStay
  <2> DEFINE g == [jit[i] EXCEPT !.status = "approved", !.approver = actor,
                                 !.approvedAt = now, !.expiresAt = now + ttl]
  <2>1. ttl \in Nat
    BY BoundAssumption
  <2>2. jit[i] \in Grant /\ g \in Grant
    BY <1>1, <2>1, DecidedGrant
  <2>3. SameScope(jit[i], g)
    BY <2>2 DEF SameScope, Grant
  <2>4. jit' = [jit EXCEPT ![i] = g]
    BY <1>3 DEF ApproveJit
  <2> HIDE DEF g
  <2> QED BY <2>2, <2>3, <2>4, DecisionKeepsScope
<1>4. ASSUME NEW i \in DOMAIN jit, NEW actor \in Principal, DenyJit(actor, i)
      PROVE  ScopesStay
  <2> DEFINE g == [jit[i] EXCEPT !.status = "denied"]
  <2>1. jit[i] \in Grant /\ g \in Grant
    BY DecidedGrant
  <2>2. SameScope(jit[i], g)
    BY <2>1 DEF SameScope, Grant
  <2>3. jit' = [jit EXCEPT ![i] = g]
    BY <1>4 DEF DenyJit
  <2> HIDE DEF g
  <2> QED BY <2>1, <2>2, <2>3, DecisionKeepsScope
<1>5. ASSUME NEW i \in DOMAIN jit, NEW actor \in Principal, RevokeJit(actor, i)
      PROVE  ScopesStay
  <2> DEFINE g == [jit[i] EXCEPT !.status = "revoked", !.expiresAt = EarlierOf(jit[i].expiresAt, now)]
  <2>1. jit[i] \in Grant /\ g \in Grant
    BY DecidedGrant
  <2>2. SameScope(jit[i], g)
    BY <2>1 DEF SameScope, Grant
  <2>3. jit' = [jit EXCEPT ![i] = g]
    BY <1>5 DEF RevokeJit
  <2> HIDE DEF g
  <2> QED BY <2>1, <2>2, <2>3, DecisionKeepsScope
<1> QED BY <1>2, <1>3, <1>4, <1>5 DEF JitStep

LEMMA ExpiryKeepsScopes ==
  ASSUME TypeOK, NEW S, jit' = ExpireOpen(S)
  PROVE  ScopesStay
<1>1. jit \in Seq(Grant) /\ \A i \in DOMAIN jit : jit[i] \in Grant
  BY DEF TypeOK
<1>2. DOMAIN jit' = DOMAIN jit
  BY DEF ExpireOpen
<1>3. \A i \in DOMAIN jit : SameScope(jit[i], jit'[i])
  BY <1>1 DEF ExpireOpen, SameScope, Grant
<1> QED BY <1>2, <1>3 DEF ScopesStay

LEMMA NextKeepsScopes == TypeOK /\ [Next]_vars => ScopesStay
<1> SUFFICES ASSUME TypeOK, [Next]_vars PROVE ScopesStay
  OBVIOUS
<1>0. UNCHANGED jit => ScopesStay
  BY DEF ScopesStay, SameScope
<1>1. CASE MembershipStep
  <2>1. UNCHANGED jit \/ \E S : jit' = ExpireOpen(S)
    BY <1>1 DEF MembershipStep, AddMembership, RemoveMembership, RemoveMembershipUnchecked,
                RevokeMembershipForRecertification, OffboardCapsule
  <2> QED BY <1>0, <2>1, ExpiryKeepsScopes
<1>2. CASE RoleStep
  BY <1>2, ExpiryKeepsScopes DEF RoleStep, ApplyRoleDraft
<1>3. CASE ClockStep \/ UNCHANGED vars
  BY <1>0, <1>3 DEF ClockStep, AdjustClock, vars
<1> QED BY <1>1, <1>2, <1>3, JitStepKeepsScopes DEF Next

LEMMA AlwaysWithinContract == Spec => []GrantsWithinContract
<1>1. Init => GrantsWithinContract
  BY DEF Init, GrantsWithinContract
<1>2. GrantsWithinContract /\ TypeOK /\ [Next]_vars => GrantsWithinContract'
  BY NextKeepsScopes DEF GrantsWithinContract, ScopesStay, SameScope, WithinContract
<1> QED BY <1>1, <1>2, TypeCorrect, PTL DEF Spec

-----------------------------------------------------------------------------
(***************************************************************************)
(* Whoever is allowed something is entitled to it.                         *)
(***************************************************************************)

LEMMA NotAllowed == Deny.effect # "allow"
BY DEF Deny

\* A standing contract entitles by itself.
LEMMA StandingEntitles ==
  ASSUME NEW p \in Principal, NEW q \in Query, NEW held \in Allowing(p, q)
  PROVE  /\ held[1] \in MembershipsOf(p) /\ held[2] \in Contract
         /\ Entitles(held[1], held[2], q)
<1> DEFINE m == held[1]
           k == held[2]
<1>1. /\ m \in LiveMemberships(p) /\ k \in Contract
      /\ <<m.capsule, k>> \in bindings /\ ~ k.approvalRequired /\ k.dataset = q.dataset
      /\ PersonaMatchesContract(m.persona, k)
      /\ q.action \in m.persona.actions \cap k.actions
      /\ q.purpose = k.purpose
      /\ Sensitivity(q) <= ClassificationMax(m.persona, k)
      /\ RowAllowed(k, m.capsule, q.record)
  BY DEF Allowing, Candidates
<1>2. /\ m \in MembershipsOf(p) /\ m.principal = p /\ Enabled(p) /\ Active(m.capsule)
  BY <1>1 DEF LiveMemberships, MembershipsOf
<1> HIDE DEF m, k
<1>3. Entitles(m, k, q)
  BY <1>1, <1>2 DEF Entitles
<1> QED BY <1>1, <1>2, <1>3 DEF m, k

\* A live grant entitles by the membership it was asked for under.
LEMMA GrantEntitles ==
  ASSUME StoreInv, DualControl, GrantsWithinContract,
         NEW p \in Principal, NEW q \in Query, NEW i \in LiveGrants(p, q),
         GrantDecision(q, jit[i]).effect = "allow"
  PROVE  /\ jit[i].contract \in Contract
         /\ \E m \in MembershipsOf(p) : Entitles(m, jit[i].contract, q)
<1> DEFINE k == jit[i].contract
<1>1. /\ i \in DOMAIN jit /\ jit[i].principal = p /\ jit[i].status = "approved"
      /\ k.dataset = q.dataset /\ k.purpose = q.purpose /\ q.action \in jit[i].actions
      /\ jit[i].createdAt <= now /\ now < jit[i].expiresAt
  BY DEF LiveGrants
<1>2. jit[i].status \in OpenStatus
  BY <1>1 DEF OpenStatus
<1>3. /\ Sensitivity(q) <= ClassificationMax(jit[i].persona, k)
      /\ RowAllowed(k, jit[i].capsule, q.record)
  BY NotAllowed DEF GrantDecision
<1>4. /\ Anchored(jit[i]) /\ k.approvalRequired /\ UniqueMembership
      /\ bindings \subseteq Capsule \X Contract
  BY <1>1, <1>2 DEF StoreInv, Restorable, OpenGrantsAnchored, GrantsNeedApproval, TypeOK
<1>5. PICK m \in MembershipsOf(p) : m.capsule = jit[i].capsule /\ m.assignment = jit[i].assignment
  BY <1>1, <1>2 DEF StoreInv, OpenGrantsHeld
<1>6. m.principal = p /\ m \in memberships
  BY <1>5 DEF MembershipsOf
<1>7. m.persona = jit[i].persona
  BY <1>1, <1>4, <1>5, <1>6 DEF Anchored, UniqueMembership, MembershipsOf
<1>8. /\ PersonaMatchesContract(m.persona, k)
      /\ q.action \in m.persona.actions \cap k.actions
  BY <1>1, <1>7 DEF GrantsWithinContract, WithinContract
<1>9. BackedByGrant(m, k, q)
  <2>1. jit[i].approver # p
    BY <1>1 DEF DualControl
  <2> QED BY <1>1, <1>5, <1>6, <2>1 DEF BackedByGrant
<1>10. Enabled(p) /\ Active(m.capsule) /\ <<m.capsule, k>> \in bindings /\ k \in Contract
  BY <1>1, <1>4, <1>5 DEF Anchored
<1> HIDE DEF k
<1>11. Entitles(m, k, q)
  BY <1>1, <1>3, <1>5, <1>6, <1>7, <1>8, <1>9, <1>10 DEF Entitles
<1> QED BY <1>5, <1>10, <1>11 DEF k

LEMMA GovernanceEntitles ==
  ASSUME NEW p \in Principal, NEW q, Enabled(p), GovernanceDecision(p, q).effect = "allow"
  PROVE  IsControlPlaneAdmin(p)
<1>1. /\ \E m \in LiveMemberships(p) : m.capsule = ControlPlane
      /\ HomePersona[p].id = "admin"
  BY NotAllowed DEF GovernanceDecision
<1> QED BY <1>1 DEF IsControlPlaneAdmin, LiveMemberships

\* In every state and for every question: a principal who is allowed something
\* holds a seat in the control plane, or one seat and one contract bound to its
\* capsule that entitle to it, with a grant of that same assignment where the
\* contract needs approval (pdp.ts: check, liveJit).
THEOREM AllowedAlwaysEntitled == DecisionSpec => []AllowedIsEntitled
<1>1. StoreInv /\ DualControl /\ GrantsWithinContract => AllowedIsEntitled
  <2> SUFFICES ASSUME StoreInv, DualControl, GrantsWithinContract,
                      NEW p \in Principal, NEW q \in Query, Check(p, q).effect = "allow"
               PROVE  IF q.dataset \in ControlDataset THEN IsControlPlaneAdmin(p)
                      ELSE \E m \in MembershipsOf(p), k \in Contract : Entitles(m, k, q)
    BY DEF AllowedIsEntitled
  <2>1. Enabled(p)
    BY NotAllowed DEF Check
  <2>2. CASE q.dataset \in ControlDataset
    <3>1. Check(p, q) = GovernanceDecision(p, q)
      BY <2>2, NotAllowed DEF Check
    <3> QED BY <2>1, <2>2, <3>1, GovernanceEntitles
  <2>3. CASE q.dataset \notin ControlDataset /\ Allowing(p, q) # {}
    <3>1. PICK held \in Allowing(p, q) : TRUE
      BY <2>3
    <3>2. /\ held[1] \in MembershipsOf(p) /\ held[2] \in Contract
          /\ Entitles(held[1], held[2], q)
      BY StandingEntitles
    <3> QED BY <2>3, <3>2
  <2>4. CASE q.dataset \notin ControlDataset /\ Allowing(p, q) = {}
    <3> DEFINE live == LiveGrants(p, q)
               first == CHOOSE i \in live : \A j \in live : i <= j
    <3>1. live # {} /\ GrantDecision(q, jit[first]).effect = "allow"
      BY <2>4, NotAllowed DEF Check
    <3>2. live \subseteq Nat
      BY DEF LiveGrants, StoreInv, TypeOK
    <3> HIDE DEF live
    <3>3. first \in live
      BY <3>1, <3>2, LeastElement
    <3> QED BY <2>4, <3>1, <3>3, GrantEntitles DEF live
  <2> QED BY <2>2, <2>3, <2>4
<1> QED BY <1>1, DecisionsUseStore, StoreInvariant, AlwaysDualControl, AlwaysWithinContract, PTL

-----------------------------------------------------------------------------
(***************************************************************************)
(* What the definitions by recursion over predicates say, one step at a    *)
(* time, and what follows of the artifacts of the compiler.                *)
(***************************************************************************)

LEMMA Clauses ==
  /\ Nesting \in [Predicate -> Nat]
  /\ \A p \in Predicate :
       /\ p.op \in {"true", "eq", "in", "fromCapsuleAttr", "and", "or"}
       /\ p.op \in {"and", "or"} =>
            /\ IsFiniteSet(p.clauses)
            /\ \A c \in p.clauses : c \in Predicate /\ Nesting[c] < Nesting[p]
BY PredicateAssumption

\* One step of EvalPredicate, when f says what holds of the clauses.
Holds(p, f, tree, attrs) ==
  IF p.op = "true" THEN TRUE
  ELSE IF p.op = "and" THEN \A c \in p.clauses : f[c]
  ELSE IF p.op = "or" THEN \E c \in p.clauses : f[c]
  ELSE IsOneOf(tree, p.field, Admitted(p, attrs))

LEMMA EvalUnfolds ==
  ASSUME NEW tree, NEW attrs
  PROVE  LET value == [p \in Predicate |-> EvalPredicate(p, tree, attrs)]
         IN  \A p \in Predicate : EvalPredicate(p, tree, attrs) = Holds(p, value, tree, attrs)
<1> DEFINE step == [p \in Predicate |-> [f \in [Predicate -> BOOLEAN] |-> Holds(p, f, tree, attrs)]]
           equation(f) == [p \in Predicate |-> Holds(p, f, tree, attrs)]
           x == CHOOSE f : f = equation(f)
<1>1. \A p \in Predicate, f \in [Predicate -> BOOLEAN] : Holds(p, f, tree, attrs) \in BOOLEAN
  <2>1. ASSUME NEW field, NEW values PROVE IsOneOf(tree, field, values) \in BOOLEAN
    <3>1. CASE ReadField(tree, field) = Missing
      BY <3>1 DEF IsOneOf
    <3>2. CASE ReadField(tree, field) # Missing
      BY <3>2 DEF IsOneOf
    <3> QED BY <3>1, <3>2
  <2> QED BY <2>1, Clauses DEF Holds
<1>2. \A p \in Predicate, f, g \in [Predicate -> BOOLEAN] :
        (\A c \in Predicate : Nesting[c] < Nesting[p] => f[c] = g[c])
          => Holds(p, f, tree, attrs) = Holds(p, g, tree, attrs)
  BY Clauses DEF Holds
<1>3. WellFounded(Predicate, BOOLEAN, Nesting, step)
  BY <1>1, <1>2, Clauses DEF WellFounded
<1> HIDE DEF step
<1>4. PICK f : f \in Solutions(Predicate, BOOLEAN, step)
  BY <1>3, Recursion
<1>5. f \in [Predicate -> BOOLEAN] /\ \A p \in Predicate : f[p] = Holds(p, f, tree, attrs)
  BY <1>4 DEF Solutions, step
<1>6. f = equation(f)
  BY <1>5
<1> HIDE DEF equation
<1>7. x = equation(x)
  BY <1>6
<1>8. \A p : EvalPredicate(p, tree, attrs) = x[p]
  BY DEF EvalPredicate, equation, Holds
<1> HIDE DEF x
<1>9. x = [p \in Predicate |-> EvalPredicate(p, tree, attrs)]
  <2>1. x = [p \in Predicate |-> x[p]]
    BY <1>7 DEF equation
  <2> QED BY <1>8, <2>1
<1> QED BY <1>7, <1>8, <1>9 DEF equation

\* One step of CompilePredicateToElasticsearch.
Compiled(p, f, attrs) ==
  IF p.op = "true" THEN MatchAll
  ELSE IF p.op = "and" THEN [op |-> "filter", clauses |-> {f[c] : c \in p.clauses}]
  ELSE IF p.op = "or" THEN [op |-> "should", clauses |-> {f[c] : c \in p.clauses}]
  ELSE Terms(p.field, Admitted(p, attrs))

\* The queries are no set that one could name before they are compiled, so the
\* lemma Recursion does not help; the argument is the same.
LEMMA CompileUnfolds ==
  ASSUME NEW attrs
  PROVE  LET value == [p \in Predicate |-> CompilePredicateToElasticsearch(p, attrs)]
         IN  \A p \in Predicate : CompilePredicateToElasticsearch(p, attrs) = Compiled(p, value, attrs)
<1> DEFINE equation(f) == [p \in Predicate |-> Compiled(p, f, attrs)]
           Upto(n, f) == \A p \in Predicate : Nesting[p] < n => f[p] = Compiled(p, f, attrs)
           T == {n \in Nat : \E f : Upto(n, f)}
           x == CHOOSE f : f = equation(f)
<1>1. ASSUME NEW p \in Predicate, NEW f, NEW g,
             \A c \in Predicate : Nesting[c] < Nesting[p] => f[c] = g[c]
      PROVE  Compiled(p, f, attrs) = Compiled(p, g, attrs)
  <2>1. CASE p.op \in {"and", "or"}
    <3>1. \A c \in p.clauses : f[c] = g[c]
      BY <1>1, <2>1, Clauses
    <3>2. {f[c] : c \in p.clauses} = {g[c] : c \in p.clauses}
      BY <3>1
    <3> QED BY <3>2 DEF Compiled
  <2>2. CASE p.op \notin {"and", "or"}
    BY <2>2 DEF Compiled
  <2> QED BY <2>1, <2>2
<1>2. 0 \in T
  BY Clauses
<1>3. ASSUME NEW n \in Nat, n \in T PROVE n + 1 \in T
  <2>1. PICK f : Upto(n, f)
    BY <1>3
  <2> DEFINE g == equation(f)
  <2>2. ASSUME NEW p \in Predicate, Nesting[p] < n + 1 PROVE g[p] = Compiled(p, g, attrs)
    <3>1. ASSUME NEW c \in Predicate, Nesting[c] < Nesting[p] PROVE f[c] = g[c]
      <4>1. Nesting[c] < n
        BY <2>2, <3>1, Clauses
      <4> QED BY <2>1, <4>1
    <3>2. g[p] = Compiled(p, f, attrs)
      OBVIOUS
    <3> HIDE DEF g
    <3> QED BY <1>1, <3>1, <3>2
  <2> HIDE DEF g
  <2> QED BY <2>2
<1> HIDE DEF T
<1>4. \A n \in Nat : \E f : Upto(n, f)
  BY <1>2, <1>3, InductiveSet DEF T
<1>5. ASSUME NEW m \in Nat, NEW n \in Nat, NEW f, NEW g, Upto(m, f), Upto(n, g)
      PROVE  \A p \in Predicate : Nesting[p] < m /\ Nesting[p] < n => f[p] = g[p]
  <2> DEFINE U == {k \in Nat : k < m /\ k < n => \A p \in Predicate : Nesting[p] = k => f[p] = g[p]}
  <2>1. ASSUME NEW k \in Nat, \A j \in Nat : j < k => j \in U PROVE k \in U
    <3>1. SUFFICES ASSUME k < m, k < n, NEW p \in Predicate, Nesting[p] = k PROVE f[p] = g[p]
      OBVIOUS
    <3>2. ASSUME NEW c \in Predicate, Nesting[c] < Nesting[p] PROVE f[c] = g[c]
      <4>1. Nesting[c] \in Nat /\ Nesting[c] < k /\ Nesting[c] < m /\ Nesting[c] < n
        BY <3>1, <3>2, Clauses
      <4>2. Nesting[c] \in U
        BY <2>1, <4>1
      <4> QED BY <4>1, <4>2
    <3>3. f[p] = Compiled(p, f, attrs) /\ g[p] = Compiled(p, g, attrs)
      BY <1>5, <3>1
    <3> QED BY <1>1, <3>2, <3>3
  <2> HIDE DEF U
  <2>2. Nat \subseteq U
    BY <2>1, StrongInductiveSet
  <2> QED BY <2>2, Clauses DEF U
<1> DEFINE At(p) == CHOOSE f : Upto(Nesting[p] + 1, f)
           h == [p \in Predicate |-> At(p)[p]]
<1>6. ASSUME NEW p \in Predicate
      PROVE  Nesting[p] + 1 \in Nat /\ Upto(Nesting[p] + 1, At(p)) /\ Nesting[p] < Nesting[p] + 1
  <2>1. Nesting[p] + 1 \in Nat /\ Nesting[p] < Nesting[p] + 1
    BY Clauses
  <2> HIDE DEF Upto
  <2>2. \E f : Upto(Nesting[p] + 1, f)
    BY <1>4, <2>1
  <2> QED BY <2>1, <2>2
<1> HIDE DEF At
<1>7. ASSUME NEW p \in Predicate PROVE h[p] = Compiled(p, h, attrs)
  <2>1. ASSUME NEW c \in Predicate, Nesting[c] < Nesting[p] PROVE At(p)[c] = h[c]
    <3>1. Nesting[c] < Nesting[c] + 1 /\ Nesting[c] < Nesting[p] + 1
      BY <2>1, Clauses
    <3> HIDE DEF Upto
    <3> QED BY <1>5, <1>6, <3>1
  <2>2. h[p] = Compiled(p, At(p), attrs)
    BY <1>6
  <2> HIDE DEF h
  <2> QED BY <1>1, <2>1, <2>2
<1>8. h = equation(h)
  <2> HIDE DEF equation
  <2>1. h = [p \in Predicate |-> h[p]]
    OBVIOUS
  <2> HIDE DEF h
  <2>2. h = [p \in Predicate |-> Compiled(p, h, attrs)]
    BY <1>7, <2>1
  <2> QED BY <2>2 DEF equation
<1> HIDE DEF equation, h
<1>9. x = equation(x)
  BY <1>8
<1>10. \A p : CompilePredicateToElasticsearch(p, attrs) = x[p]
  BY DEF CompilePredicateToElasticsearch, equation, Compiled
<1> HIDE DEF x
<1>11. x = [p \in Predicate |-> CompilePredicateToElasticsearch(p, attrs)]
  <2>1. x = [p \in Predicate |-> x[p]]
    BY <1>9 DEF equation
  <2> QED BY <1>10, <2>1
<1> QED BY <1>9, <1>10, <1>11 DEF equation

\* How deep a predicate is nested that is compiled to a query.
Depths(q) ==
  {n \in Nat : \/ q = MatchNone /\ n = 0
               \/ \E p \in Predicate, a \in CapsuleAttrs :
                    q = CompilePredicateToElasticsearch(p, a) /\ Nesting[p] = n}

Depth(q) == CHOOSE n \in Depths(q) : \A m \in Depths(q) : n <= m

LEMMA DepthIsLeast ==
  ASSUME NEW q \in ElasticsearchQuery
  PROVE  Depth(q) \in Depths(q) /\ Depth(q) \in Nat /\ \A m \in Depths(q) : Depth(q) <= m
<1>1. Depths(q) # {}
  <2>1. CASE q = MatchNone
    <3>1. 0 \in Depths(q)
      BY <2>1 DEF Depths
    <3> QED BY <3>1
  <2>2. CASE q # MatchNone
    <3>1. PICK p \in Predicate, a \in CapsuleAttrs : q = CompilePredicateToElasticsearch(p, a)
      BY <2>2 DEF ElasticsearchQuery
    <3>2. Nesting[p] \in Depths(q)
      BY <3>1, Clauses DEF Depths
    <3> QED BY <3>2
  <2> QED BY <2>1, <2>2
<1>2. Depths(q) \subseteq Nat
  BY DEF Depths
<1>3. \E n \in Depths(q) : \A m \in Depths(q) : n <= m
  BY <1>1, <1>2, LeastElement
<1> QED BY <1>2, <1>3 DEF Depth

\* The clauses of a query are queries, and less deep.
LEMMA QueryClauses ==
  ASSUME NEW q \in ElasticsearchQuery, q.op \in {"filter", "should"}, NEW c \in q.clauses
  PROVE  c \in ElasticsearchQuery /\ Depth(c) < Depth(q)
<1>1. q # MatchNone
  BY DEF MatchNone
<1>2. PICK p \in Predicate, a \in CapsuleAttrs :
        q = CompilePredicateToElasticsearch(p, a) /\ Nesting[p] = Depth(q)
  BY <1>1, DepthIsLeast DEF Depths
<1> DEFINE value == [x \in Predicate |-> CompilePredicateToElasticsearch(x, a)]
<1>3. q = Compiled(p, value, a)
  BY <1>2, CompileUnfolds
<1>4. p.op \in {"and", "or"}
  BY <1>3 DEF Compiled, Terms, MatchAll, MatchNone
<1>5. q.clauses = {value[x] : x \in p.clauses}
  BY <1>3, <1>4 DEF Compiled
<1>6. PICK x \in p.clauses : c = value[x]
  BY <1>5
<1>7. x \in Predicate /\ Nesting[x] < Nesting[p] /\ Nesting[x] \in Nat
  BY <1>4, Clauses
<1>8. c = CompilePredicateToElasticsearch(x, a)
  BY <1>6, <1>7
<1>9. c \in ElasticsearchQuery /\ Nesting[x] \in Depths(c)
  BY <1>7, <1>8 DEF ElasticsearchQuery, Depths
<1>10. Depth(c) <= Nesting[x] /\ Depth(c) \in Nat
  BY <1>9, DepthIsLeast
<1>11. Depth(q) \in Nat
  BY DepthIsLeast
<1> QED BY <1>2, <1>7, <1>9, <1>10, <1>11

\* One step of ElasticsearchSelects.
Selects(q, f, tree) ==
  IF q.op = "filter" THEN \A c \in q.clauses : f[c]
  ELSE IF q.op = "should" THEN \E c \in q.clauses : f[c]
  ELSE q.op = "all" \/ (q.op = "terms" /\ IsOneOf(tree, q.field, q.values))

LEMMA SelectsUnfolds ==
  ASSUME NEW tree
  PROVE  LET value == [q \in ElasticsearchQuery |-> ElasticsearchSelects(q, tree)]
         IN  \A q \in ElasticsearchQuery : ElasticsearchSelects(q, tree) = Selects(q, value, tree)
<1> DEFINE Q == ElasticsearchQuery
           rank == [q \in Q |-> Depth(q)]
           step == [q \in Q |-> [f \in [Q -> BOOLEAN] |-> Selects(q, f, tree)]]
           equation(f) == [q \in Q |-> Selects(q, f, tree)]
           x == CHOOSE f : f = equation(f)
<1>1. \A q \in Q : q.op \in {"filter", "should"} =>
        \A c \in q.clauses : c \in Q /\ rank[c] < rank[q]
  BY QueryClauses
<1>2. rank \in [Q -> Nat]
  BY DepthIsLeast
<1> HIDE DEF Q, rank
<1>3. \A q \in Q, f \in [Q -> BOOLEAN] : Selects(q, f, tree) \in BOOLEAN
  BY <1>1 DEF Selects
<1>4. \A q \in Q, f, g \in [Q -> BOOLEAN] :
        (\A c \in Q : rank[c] < rank[q] => f[c] = g[c]) => Selects(q, f, tree) = Selects(q, g, tree)
  BY <1>1 DEF Selects
<1>5. WellFounded(Q, BOOLEAN, rank, step)
  BY <1>2, <1>3, <1>4 DEF WellFounded
<1> HIDE DEF step
<1>6. PICK f : f \in Solutions(Q, BOOLEAN, step)
  BY <1>5, Recursion
<1>7. f \in [Q -> BOOLEAN] /\ \A q \in Q : f[q] = Selects(q, f, tree)
  BY <1>6 DEF Solutions, step
<1>8. f = equation(f)
  BY <1>7
<1> HIDE DEF equation
<1>9. x = equation(x)
  BY <1>8
<1>10. \A q : ElasticsearchSelects(q, tree) = x[q]
  BY DEF ElasticsearchSelects, equation, Selects, Q
<1> HIDE DEF x
<1>11. x = [q \in Q |-> ElasticsearchSelects(q, tree)]
  <2>1. x = [q \in Q |-> x[q]]
    BY <1>9 DEF equation
  <2> QED BY <1>10, <2>1
<1> QED BY <1>9, <1>10, <1>11 DEF equation, Q

\* A compiled predicate selects no row for which the predicate does not hold.
LEMMA QueryNeverWider ==
  ASSUME NEW tree, NEW attrs \in CapsuleAttrs, NEW p \in Predicate,
         ElasticsearchSelects(CompilePredicateToElasticsearch(p, attrs), tree)
  PROVE  EvalPredicate(p, tree, attrs)
<1> DEFINE query == [x \in Predicate |-> CompilePredicateToElasticsearch(x, attrs)]
           holds == [x \in Predicate |-> EvalPredicate(x, tree, attrs)]
           picks == [q \in ElasticsearchQuery |-> ElasticsearchSelects(q, tree)]
           T == {n \in Nat : \A x \in Predicate :
                   Nesting[x] = n /\ ElasticsearchSelects(query[x], tree) => EvalPredicate(x, tree, attrs)}
<1>1. ASSUME NEW n \in Nat, \A m \in Nat : m < n => m \in T PROVE n \in T
  <2> SUFFICES ASSUME NEW x \in Predicate, Nesting[x] = n, ElasticsearchSelects(query[x], tree)
               PROVE  EvalPredicate(x, tree, attrs)
    OBVIOUS
  <2>1. query[x] = Compiled(x, query, attrs)
    BY CompileUnfolds
  <2>2. EvalPredicate(x, tree, attrs) = Holds(x, holds, tree, attrs)
    BY EvalUnfolds
  <2>3. query[x] \in ElasticsearchQuery /\ Selects(query[x], picks, tree)
    <3>1. query[x] \in ElasticsearchQuery
      BY DEF ElasticsearchQuery
    <3> QED BY <3>1, SelectsUnfolds
  <2>4. ASSUME x.op \in {"and", "or"}, NEW c \in x.clauses, picks[query[c]] PROVE holds[c]
    <3>1. c \in Predicate /\ Nesting[c] \in Nat /\ Nesting[c] < n
      BY <2>4, Clauses
    <3>2. query[c] \in ElasticsearchQuery
      BY <3>1 DEF ElasticsearchQuery
    <3>3. ElasticsearchSelects(query[c], tree)
      BY <2>4, <3>2
    <3> QED BY <1>1, <3>1, <3>3
  <2> HIDE DEF query, holds, picks
  <2>5. CASE x.op = "and"
    <3>1. query[x].op = "filter" /\ query[x].clauses = {query[c] : c \in x.clauses}
      BY <2>1, <2>5 DEF Compiled
    <3>2. \A c \in x.clauses : picks[query[c]]
      BY <2>3, <3>1 DEF Selects
    <3> QED BY <2>2, <2>4, <2>5, <3>2 DEF Holds
  <2>6. CASE x.op = "or"
    <3>1. query[x].op = "should" /\ query[x].clauses = {query[c] : c \in x.clauses}
      BY <2>1, <2>6 DEF Compiled
    <3>2. \E c \in x.clauses : picks[query[c]]
      BY <2>3, <3>1 DEF Selects
    <3> QED BY <2>2, <2>4, <2>6, <3>2 DEF Holds
  <2>7. CASE x.op \notin {"true", "and", "or"}
    <3>1. query[x] = Terms(x.field, Admitted(x, attrs))
      BY <2>1, <2>7 DEF Compiled
    <3>2. IsOneOf(tree, x.field, Admitted(x, attrs))
      BY <2>3, <3>1 DEF Terms, MatchNone, Selects
    <3> QED BY <2>2, <2>7, <3>2 DEF Holds
  <2>8. CASE x.op = "true"
    BY <2>2, <2>8 DEF Holds
  <2> QED BY <2>5, <2>6, <2>7, <2>8
<1> HIDE DEF T
<1>2. Nat \subseteq T
  BY <1>1, StrongInductiveSet
<1> QED BY <1>2, Clauses DEF T

\* One step of SupportedByElasticsearch.
Supported(p, f, attrs) ==
  IF p.op = "and" THEN \A c \in p.clauses : f[c]
  ELSE IF p.op = "or" THEN p.clauses # {} /\ \A c \in p.clauses : f[c]
  ELSE CompilePredicateToElasticsearch(p, attrs) # MatchNone

LEMMA SupportUnfolds ==
  ASSUME NEW attrs
  PROVE  LET value == [p \in Predicate |-> SupportedByElasticsearch(p, attrs)]
         IN  \A p \in Predicate : SupportedByElasticsearch(p, attrs) = Supported(p, value, attrs)
<1> DEFINE step == [p \in Predicate |-> [f \in [Predicate -> BOOLEAN] |-> Supported(p, f, attrs)]]
           equation(f) == [p \in Predicate |-> Supported(p, f, attrs)]
           x == CHOOSE f : f = equation(f)
<1>1. \A p \in Predicate, f \in [Predicate -> BOOLEAN] : Supported(p, f, attrs) \in BOOLEAN
  BY Clauses DEF Supported
<1>2. \A p \in Predicate, f, g \in [Predicate -> BOOLEAN] :
        (\A c \in Predicate : Nesting[c] < Nesting[p] => f[c] = g[c])
          => Supported(p, f, attrs) = Supported(p, g, attrs)
  BY Clauses DEF Supported
<1>3. WellFounded(Predicate, BOOLEAN, Nesting, step)
  BY <1>1, <1>2, Clauses DEF WellFounded
<1> HIDE DEF step
<1>4. PICK f : f \in Solutions(Predicate, BOOLEAN, step)
  BY <1>3, Recursion
<1>5. f \in [Predicate -> BOOLEAN] /\ \A p \in Predicate : f[p] = Supported(p, f, attrs)
  BY <1>4 DEF Solutions, step
<1>6. f = equation(f)
  BY <1>5
<1> HIDE DEF equation
<1>7. x = equation(x)
  BY <1>6
<1>8. \A p : SupportedByElasticsearch(p, attrs) = x[p]
  BY DEF SupportedByElasticsearch, equation, Supported
<1> HIDE DEF x
<1>9. x = [p \in Predicate |-> SupportedByElasticsearch(p, attrs)]
  <2>1. x = [p \in Predicate |-> x[p]]
    BY <1>7 DEF equation
  <2> QED BY <1>8, <2>1
<1> QED BY <1>7, <1>8, <1>9 DEF equation

\* Where a filter is supported, its query selects every row for which the
\* predicate holds.
LEMMA SupportedQueryMissesNothing ==
  ASSUME NEW tree, NEW attrs \in CapsuleAttrs, NEW p \in Predicate,
         SupportedByElasticsearch(p, attrs), EvalPredicate(p, tree, attrs)
  PROVE  ElasticsearchSelects(CompilePredicateToElasticsearch(p, attrs), tree)
<1> DEFINE query == [x \in Predicate |-> CompilePredicateToElasticsearch(x, attrs)]
           able == [x \in Predicate |-> SupportedByElasticsearch(x, attrs)]
           holds == [x \in Predicate |-> EvalPredicate(x, tree, attrs)]
           picks == [q \in ElasticsearchQuery |-> ElasticsearchSelects(q, tree)]
           T == {n \in Nat : \A x \in Predicate :
                   Nesting[x] = n /\ able[x] /\ holds[x] => ElasticsearchSelects(query[x], tree)}
<1>1. ASSUME NEW n \in Nat, \A m \in Nat : m < n => m \in T PROVE n \in T
  <2> SUFFICES ASSUME NEW x \in Predicate, Nesting[x] = n, able[x], holds[x]
               PROVE  ElasticsearchSelects(query[x], tree)
    OBVIOUS
  <2>1. query[x] = Compiled(x, query, attrs)
    BY CompileUnfolds
  <2>2. Supported(x, able, attrs)
    BY SupportUnfolds
  <2>3. Holds(x, holds, tree, attrs)
    BY EvalUnfolds
  <2>4. query[x] \in ElasticsearchQuery
    BY DEF ElasticsearchQuery
  <2>5. Selects(query[x], picks, tree) => ElasticsearchSelects(query[x], tree)
    BY <2>4, SelectsUnfolds
  <2>6. ASSUME x.op \in {"and", "or"}, NEW c \in x.clauses, able[c], holds[c] PROVE picks[query[c]]
    <3>1. c \in Predicate /\ Nesting[c] \in Nat /\ Nesting[c] < n
      BY <2>6, Clauses
    <3>2. query[c] \in ElasticsearchQuery
      BY <3>1 DEF ElasticsearchQuery
    <3>3. ElasticsearchSelects(query[c], tree)
      BY <1>1, <2>6, <3>1
    <3> QED BY <3>2, <3>3
  <2>7. CompilePredicateToElasticsearch(x, attrs) = query[x]
    OBVIOUS
  <2> HIDE DEF query, able, holds, picks
  <2>8. CASE x.op = "and"
    <3>1. query[x].op = "filter" /\ query[x].clauses = {query[c] : c \in x.clauses}
      BY <2>1, <2>8 DEF Compiled
    <3>2. \A c \in x.clauses : able[c] /\ holds[c]
      BY <2>2, <2>3, <2>8 DEF Supported, Holds
    <3>3. \A c \in x.clauses : picks[query[c]]
      BY <2>6, <2>8, <3>2
    <3>4. Selects(query[x], picks, tree)
      BY <3>1, <3>3 DEF Selects
    <3> QED BY <2>5, <3>4
  <2>9. CASE x.op = "or"
    <3>1. query[x].op = "should" /\ query[x].clauses = {query[c] : c \in x.clauses}
      BY <2>1, <2>9 DEF Compiled
    <3>2. \E c \in x.clauses : able[c] /\ holds[c]
      BY <2>2, <2>3, <2>9 DEF Supported, Holds
    <3>3. \E c \in x.clauses : picks[query[c]]
      BY <2>6, <2>9, <3>2
    <3>4. Selects(query[x], picks, tree)
      BY <3>1, <3>3 DEF Selects
    <3> QED BY <2>5, <3>4
  <2>10. CASE x.op \notin {"true", "and", "or"}
    <3>1. query[x] = Terms(x.field, Admitted(x, attrs)) /\ query[x] # MatchNone
      BY <2>1, <2>2, <2>7, <2>10 DEF Compiled, Supported
    <3>2. query[x] = [op |-> "terms", field |-> x.field, values |-> Admitted(x, attrs)]
      BY <3>1 DEF Terms
    <3>3. IsOneOf(tree, x.field, Admitted(x, attrs))
      BY <2>3, <2>10 DEF Holds
    <3>4. Selects(query[x], picks, tree)
      BY <3>2, <3>3 DEF Selects
    <3> QED BY <2>5, <3>4
  <2>11. CASE x.op = "true"
    <3>1. Selects(query[x], picks, tree)
      BY <2>1, <2>11 DEF Compiled, MatchAll, Selects
    <3> QED BY <2>5, <3>1
  <2> QED BY <2>8, <2>9, <2>10, <2>11
<1> HIDE DEF T
<1>2. Nat \subseteq T
  BY <1>1, StrongInductiveSet
<1> QED BY <1>2, Clauses DEF T

\* What selects a row under the intersection of two lists does so under each.
LEMMA IntersectionSelectsLess ==
  ASSUME NEW left, NEW right, NEW tree, BwSelects(IntersectBwValues(left, right), tree)
  PROVE  BwSelects(left, tree) /\ BwSelects(right, tree)
<1>1. CASE AnyValue \in left \/ AnyValue \in right
  BY <1>1 DEF IntersectBwValues, BwSelects
<1>2. CASE AnyValue \notin left /\ AnyValue \notin right
  <2>1. IntersectBwValues(left, right) = left \cap right
    BY <1>2 DEF IntersectBwValues
  <2>2. IsOneOf(tree, <<"vendor_id">>, left \cap right)
    BY <1>2, <2>1 DEF BwSelects
  <2>3. IsOneOf(tree, <<"vendor_id">>, left) /\ IsOneOf(tree, <<"vendor_id">>, right)
    BY <2>2 DEF IsOneOf
  <2> QED BY <2>3 DEF BwSelects
<1> QED BY <1>1, <1>2

LEMMA IntersectAllFacts ==
  ASSUME NEW D, IsFiniteSet(D), NEW W, AnyValue \in W, NEW lists \in [D -> SUBSET W]
  PROVE  /\ IntersectAll(lists) \in SUBSET W
         /\ \A tree : \A c \in D : BwSelects(IntersectAll(lists), tree) => BwSelects(lists[c], tree)
<1> DEFINE V == SUBSET W
           each == [c \in D |-> [v \in V |-> IntersectBwValues(lists[c], v)]]
           equation(f) == [s \in SUBSET D |->
                             IF s = {} THEN {AnyValue}
                             ELSE IntersectBwValues(lists[Pick(s)], f[s \ {Pick(s)}])]
           x == CHOOSE f : f = equation(f)
<1>1. \A v, w \in V : IntersectBwValues(v, w) \in V
  BY DEF IntersectBwValues
<1>2. {AnyValue} \in V /\ each \in [D -> [V -> V]]
  BY <1>1
<1>3. PICK f : f \in Folds(D, V, {AnyValue}, each)
  <2> HIDE DEF V, each
  <2> QED BY <1>2, FoldsExist
<1>4. \A s \in SUBSET D : s # {} => Pick(s) \in s /\ s \ {Pick(s)} \in SUBSET D
  BY DEF Pick
<1>5. f = equation(f)
  <2>1. f \in [SUBSET D -> V]
    BY <1>3 DEF Folds
  <2>2. ASSUME NEW s \in SUBSET D
        PROVE  f[s] = IF s = {} THEN {AnyValue} ELSE IntersectBwValues(lists[Pick(s)], f[s \ {Pick(s)}])
    <3>1. f[s] = IF s = {} THEN {AnyValue} ELSE each[Pick(s)][f[s \ {Pick(s)}]]
      BY <1>3 DEF Folds
    <3>2. s # {} => Pick(s) \in D /\ f[s \ {Pick(s)}] \in V
      BY <1>4, <2>1
    <3>3. s # {} => each[Pick(s)][f[s \ {Pick(s)}]] = IntersectBwValues(lists[Pick(s)], f[s \ {Pick(s)}])
      BY <3>2
    <3> HIDE DEF each
    <3> QED BY <3>1, <3>3
  <2> HIDE DEF V, each
  <2> QED BY <2>1, <2>2
<1>6. DOMAIN lists = D
  OBVIOUS
<1> HIDE DEF equation
<1>7. x = equation(x)
  BY <1>5
<1>8. IntersectAll(lists) = x[D]
  BY <1>6 DEF IntersectAll, FoldFunction, FoldFunctionOnSet, MapThenFoldSet, equation, Pick
<1> HIDE DEF x
<1>9. x[{}] = {AnyValue} /\ \A s \in SUBSET D : s # {} => x[s] = IntersectBwValues(lists[Pick(s)], x[s \ {Pick(s)}])
  BY <1>7 DEF equation
<1> DEFINE T == {s \in SUBSET D : /\ x[s] \in V
                                  /\ \A tree : \A c \in s : BwSelects(x[s], tree) => BwSelects(lists[c], tree)}
<1>10. {} \in T
  BY <1>2, <1>9
<1>11. ASSUME NEW s \in SUBSET D, s # {}, s \ {Pick(s)} \in T PROVE s \in T
  <2>1. x[s] = IntersectBwValues(lists[Pick(s)], x[s \ {Pick(s)}])
    BY <1>9, <1>11
  <2>2. Pick(s) \in D /\ lists[Pick(s)] \in V
    BY <1>4, <1>11
  <2>3. x[s] \in V
    BY <1>1, <1>11, <2>1, <2>2
  <2>4. ASSUME NEW tree, NEW c \in s, BwSelects(x[s], tree) PROVE BwSelects(lists[c], tree)
    <3>1. BwSelects(lists[Pick(s)], tree) /\ BwSelects(x[s \ {Pick(s)}], tree)
      BY <2>1, <2>4, IntersectionSelectsLess
    <3> QED BY <1>11, <3>1
  <2> QED BY <2>3, <2>4
<1> HIDE DEF T
<1>12. D \in T
  BY <1>10, <1>11, FoldInduction
<1> QED BY <1>8, <1>12 DEF T

\* One step of CompileBwVendorValues.
VendorsOf(p, f, attrs) ==
  IF p.op = "true" THEN {AnyValue}
  ELSE IF p.op = "and" THEN IntersectAll([c \in p.clauses |-> f[c]])
  ELSE IF p.op = "or" THEN UniteBwValues({f[c] : c \in p.clauses})
  ELSE VendorValues(p.field, Admitted(p, attrs))

LEMMA VendorsUnfold ==
  ASSUME NEW attrs
  PROVE  LET value == [p \in Predicate |-> CompileBwVendorValues(p, attrs)]
             W     == {AnyValue} \cup UNION {Admitted(p, attrs) : p \in Predicate}
         IN  \A p \in Predicate :
               /\ CompileBwVendorValues(p, attrs) = VendorsOf(p, value, attrs)
               /\ CompileBwVendorValues(p, attrs) \in SUBSET W
<1> DEFINE W == {AnyValue} \cup UNION {Admitted(p, attrs) : p \in Predicate}
           V == SUBSET W
           step == [p \in Predicate |-> [f \in [Predicate -> V] |-> VendorsOf(p, f, attrs)]]
           equation(f) == [p \in Predicate |-> VendorsOf(p, f, attrs)]
           x == CHOOSE f : f = equation(f)
<1>1. ASSUME NEW p \in Predicate, NEW f \in [Predicate -> V] PROVE VendorsOf(p, f, attrs) \in V
  <2>1. CASE p.op = "and"
    <3>1. IsFiniteSet(p.clauses) /\ p.clauses \subseteq Predicate
      BY <2>1, Clauses
    <3>2. AnyValue \in W /\ [c \in p.clauses |-> f[c]] \in [p.clauses -> V]
      BY <3>1
    <3> HIDE DEF W
    <3>3. IntersectAll([c \in p.clauses |-> f[c]]) \in V
      BY <3>1, <3>2, IntersectAllFacts
    <3> QED BY <2>1, <3>3 DEF VendorsOf
  <2>2. CASE p.op = "or"
    <3>1. {f[c] : c \in p.clauses} \subseteq V
      BY <2>2, Clauses
    <3> QED BY <2>2, <3>1 DEF VendorsOf, UniteBwValues
  <2>3. CASE p.op = "true"
    BY <2>3 DEF VendorsOf
  <2>4. CASE p.op \notin {"true", "and", "or"}
    BY <2>4 DEF VendorsOf, VendorValues
  <2> QED BY <2>1, <2>2, <2>3, <2>4
<1>2. ASSUME NEW p \in Predicate, NEW f, NEW g,
             \A c \in Predicate : Nesting[c] < Nesting[p] => f[c] = g[c]
      PROVE  VendorsOf(p, f, attrs) = VendorsOf(p, g, attrs)
  <2>1. CASE p.op \in {"and", "or"}
    <3>1. \A c \in p.clauses : f[c] = g[c]
      BY <1>2, <2>1, Clauses
    <3>2. /\ {f[c] : c \in p.clauses} = {g[c] : c \in p.clauses}
          /\ [c \in p.clauses |-> f[c]] = [c \in p.clauses |-> g[c]]
      BY <3>1
    <3> QED BY <3>2 DEF VendorsOf
  <2>2. CASE p.op \notin {"and", "or"}
    BY <2>2 DEF VendorsOf
  <2> QED BY <2>1, <2>2
<1>3. V # {}
  OBVIOUS
<1> HIDE DEF V
<1>4. WellFounded(Predicate, V, Nesting, step)
  BY <1>1, <1>2, <1>3, Clauses DEF WellFounded
<1> HIDE DEF step
<1>5. PICK f : f \in Solutions(Predicate, V, step)
  BY <1>4, Recursion
<1>6. f \in [Predicate -> V] /\ \A p \in Predicate : f[p] = VendorsOf(p, f, attrs)
  BY <1>5 DEF Solutions, step
<1>7. f = equation(f)
  BY <1>6
<1> HIDE DEF equation
<1>8. x = equation(x)
  BY <1>7
<1>9. \A p : CompileBwVendorValues(p, attrs) = x[p]
  BY DEF CompileBwVendorValues, equation, VendorsOf
<1> HIDE DEF x
<1>10. x = [p \in Predicate |-> x[p]] /\ \A p \in Predicate : x[p] = VendorsOf(p, x, attrs)
  BY <1>8 DEF equation
<1>11. x = [p \in Predicate |-> CompileBwVendorValues(p, attrs)]
  BY <1>9, <1>10
<1>12. \A p \in Predicate : x[p] \in V
  <2> DEFINE T == {n \in Nat : \A p \in Predicate : Nesting[p] = n => x[p] \in V}
  <2>1. ASSUME NEW n \in Nat, \A m \in Nat : m < n => m \in T PROVE n \in T
    <3> SUFFICES ASSUME NEW p \in Predicate, Nesting[p] = n PROVE x[p] \in V
      OBVIOUS
    <3> DEFINE g == [c \in Predicate |-> IF Nesting[c] < n THEN x[c] ELSE f[c]]
    <3>1. ASSUME NEW c \in Predicate, Nesting[c] < n PROVE x[c] \in V
      BY <2>1, <3>1, Clauses
    <3>2. g \in [Predicate -> V]
      BY <1>6, <3>1
    <3>3. \A c \in Predicate : Nesting[c] < Nesting[p] => g[c] = x[c]
      OBVIOUS
    <3> HIDE DEF g
    <3>4. VendorsOf(p, g, attrs) = VendorsOf(p, x, attrs)
      BY <1>2, <3>3
    <3> QED BY <1>1, <1>10, <3>2, <3>4
  <2> HIDE DEF T
  <2>2. Nat \subseteq T
    BY <2>1, StrongInductiveSet
  <2> QED BY <2>2, Clauses DEF T
<1> QED BY <1>9, <1>10, <1>11, <1>12 DEF V

\* One step of ListsAnyValue.
Lists(p, f, attrs) ==
  IF p.op \in {"and", "or"} THEN \E c \in p.clauses : f[c]
  ELSE p.op # "true" /\ AnyValue \in VendorValues(p.field, Admitted(p, attrs))

LEMMA ListsUnfolds ==
  ASSUME NEW attrs
  PROVE  LET value == [p \in Predicate |-> ListsAnyValue(p, attrs)]
         IN  \A p \in Predicate : ListsAnyValue(p, attrs) = Lists(p, value, attrs)
<1> DEFINE step == [p \in Predicate |-> [f \in [Predicate -> BOOLEAN] |-> Lists(p, f, attrs)]]
           equation(f) == [p \in Predicate |-> Lists(p, f, attrs)]
           x == CHOOSE f : f = equation(f)
<1>1. \A p \in Predicate, f \in [Predicate -> BOOLEAN] : Lists(p, f, attrs) \in BOOLEAN
  BY Clauses DEF Lists
<1>2. \A p \in Predicate, f, g \in [Predicate -> BOOLEAN] :
        (\A c \in Predicate : Nesting[c] < Nesting[p] => f[c] = g[c])
          => Lists(p, f, attrs) = Lists(p, g, attrs)
  BY Clauses DEF Lists
<1>3. WellFounded(Predicate, BOOLEAN, Nesting, step)
  BY <1>1, <1>2, Clauses DEF WellFounded
<1> HIDE DEF step
<1>4. PICK f : f \in Solutions(Predicate, BOOLEAN, step)
  BY <1>3, Recursion
<1>5. f \in [Predicate -> BOOLEAN] /\ \A p \in Predicate : f[p] = Lists(p, f, attrs)
  BY <1>4 DEF Solutions, step
<1>6. f = equation(f)
  BY <1>5
<1> HIDE DEF equation
<1>7. x = equation(x)
  BY <1>6
<1>8. \A p : ListsAnyValue(p, attrs) = x[p]
  BY DEF ListsAnyValue, equation, Lists
<1> HIDE DEF x
<1>9. x = [p \in Predicate |-> ListsAnyValue(p, attrs)]
  <2>1. x = [p \in Predicate |-> x[p]]
    BY <1>7 DEF equation
  <2> QED BY <1>8, <2>1
<1> QED BY <1>7, <1>8, <1>9 DEF equation

\* The compiled list of vendors selects no row for which the predicate does not
\* hold, unless a literal asterisk is among the vendors of the predicate.
LEMMA VendorsNeverWider ==
  ASSUME NEW tree, NEW attrs \in CapsuleAttrs, NEW p \in Predicate,
         ~ ListsAnyValue(p, attrs), BwSelects(CompileBwVendorValues(p, attrs), tree)
  PROVE  EvalPredicate(p, tree, attrs)
<1> DEFINE vendors == [x \in Predicate |-> CompileBwVendorValues(x, attrs)]
           holds == [x \in Predicate |-> EvalPredicate(x, tree, attrs)]
           lists == [x \in Predicate |-> ListsAnyValue(x, attrs)]
           W == {AnyValue} \cup UNION {Admitted(x, attrs) : x \in Predicate}
           T == {n \in Nat : \A x \in Predicate :
                   Nesting[x] = n /\ ~ lists[x] /\ BwSelects(vendors[x], tree) => EvalPredicate(x, tree, attrs)}
<1>1. ASSUME NEW n \in Nat, \A m \in Nat : m < n => m \in T PROVE n \in T
  <2> SUFFICES ASSUME NEW x \in Predicate, Nesting[x] = n, ~ lists[x], BwSelects(vendors[x], tree)
               PROVE  EvalPredicate(x, tree, attrs)
    OBVIOUS
  <2>1. vendors[x] = VendorsOf(x, vendors, attrs)
    BY VendorsUnfold
  <2>2. EvalPredicate(x, tree, attrs) = Holds(x, holds, tree, attrs)
    BY EvalUnfolds
  <2>3. ASSUME x.op \in {"and", "or"}, NEW c \in x.clauses, BwSelects(vendors[c], tree) PROVE holds[c]
    <3>1. c \in Predicate /\ Nesting[c] \in Nat /\ Nesting[c] < n
      BY <2>3, Clauses
    <3>2. ~ lists[c]
      <4>1. ~ Lists(x, lists, attrs)
        BY ListsUnfolds
      <4> HIDE DEF lists
      <4> QED BY <2>3, <4>1 DEF Lists
    <3> QED BY <1>1, <2>3, <3>1, <3>2
  <2>4. vendors \in [Predicate -> SUBSET W]
    BY VendorsUnfold
  <2>9. ~ Lists(x, lists, attrs)
    BY ListsUnfolds
  <2> HIDE DEF vendors, holds, lists
  <2>5. CASE x.op = "and"
    <3> DEFINE each == [c \in x.clauses |-> vendors[c]]
    <3>1. vendors[x] = IntersectAll(each)
      BY <2>1, <2>5 DEF VendorsOf
    <3>2. IsFiniteSet(x.clauses) /\ x.clauses \subseteq Predicate
      BY <2>5, Clauses
    <3>3. AnyValue \in W /\ each \in [x.clauses -> SUBSET W]
      BY <2>4, <3>2
    <3> HIDE DEF W, each
    <3>4. \A c \in x.clauses : BwSelects(each[c], tree)
      BY <3>1, <3>2, <3>3, IntersectAllFacts
    <3>5. \A c \in x.clauses : BwSelects(vendors[c], tree)
      BY <3>4 DEF each
    <3> QED BY <2>2, <2>3, <2>5, <3>5 DEF Holds
  <2>6. CASE x.op = "or"
    <3> DEFINE each == {vendors[c] : c \in x.clauses}
    <3>1. vendors[x] = UniteBwValues(each)
      BY <2>1, <2>6 DEF VendorsOf
    <3>2. \E list \in each : BwSelects(list, tree)
      <4> HIDE DEF each
      <4>1. CASE AnyValue \in UNION each
        BY <4>1 DEF BwSelects
      <4>2. CASE AnyValue \notin UNION each
        <5>1. IsOneOf(tree, <<"vendor_id">>, UNION each)
          BY <3>1, <4>2 DEF BwSelects, UniteBwValues
        <5>2. PICK list \in each : IsOneOf(tree, <<"vendor_id">>, list)
          BY <5>1 DEF IsOneOf
        <5> QED BY <5>2 DEF BwSelects
      <4> QED BY <4>1, <4>2
    <3>3. \E c \in x.clauses : BwSelects(vendors[c], tree)
      BY <3>2
    <3> QED BY <2>2, <2>3, <2>6, <3>3 DEF Holds
  <2>7. CASE x.op \notin {"true", "and", "or"}
    <3>1. vendors[x] = VendorValues(x.field, Admitted(x, attrs))
      BY <2>1, <2>7 DEF VendorsOf
    <3>2. AnyValue \notin vendors[x]
      BY <2>7, <2>9, <3>1 DEF Lists
    <3>3. CASE x.field = <<"vendor_id">> /\ Admitted(x, attrs) \cap NoString = {}
      <4>1. vendors[x] = Admitted(x, attrs)
        BY <3>1, <3>3 DEF VendorValues
      <4>2. IsOneOf(tree, x.field, Admitted(x, attrs))
        BY <3>2, <3>3, <4>1 DEF BwSelects
      <4> QED BY <2>2, <2>7, <4>2 DEF Holds
    <3>4. CASE ~ (x.field = <<"vendor_id">> /\ Admitted(x, attrs) \cap NoString = {})
      <4>1. vendors[x] = {}
        BY <3>1, <3>4 DEF VendorValues
      <4> QED BY <4>1 DEF BwSelects, IsOneOf
    <3> QED BY <3>3, <3>4
  <2>8. CASE x.op = "true"
    BY <2>2, <2>8 DEF Holds
  <2> QED BY <2>5, <2>6, <2>7, <2>8
<1> HIDE DEF T
<1>2. Nat \subseteq T
  BY <1>1, StrongInductiveSet
<1> QED BY <1>2, Clauses DEF T

\* The attributes and the predicate that are compiled come from the import.
LEMMA CompiledFrom ==
  ASSUME policy \in Policy, NEW c \in Capsule, NEW k \in Contract
  PROVE  Attrs(c) \in CapsuleAttrs /\ policy.predicate[k] \in Predicate
BY ImportAssumption DEF CapsuleAttrs, Attrs, ImportAssumption

\* A row that the Elasticsearch role of a contract selects satisfies its
\* predicate.
LEMMA ElasticsearchRowHolds ==
  ASSUME policy \in Policy, NEW c \in Capsule, NEW k \in Contract, NEW row,
         SelectedByElasticsearch(c, k, row)
  PROVE  RowHolds(c, k, row)
<1>1. PICK role \in ElasticsearchRoles(c) : role.contract = k /\ ElasticsearchSelects(role.query, row.attrs)
  BY DEF SelectedByElasticsearch
<1>2. role.query = IF ClassificationAllowed(k)
                   THEN CompilePredicateToElasticsearch(policy.predicate[k], Attrs(c))
                   ELSE MatchNone
  BY <1>1 DEF ElasticsearchRoles
<1>3. role.query # MatchNone
  <2> SUFFICES ASSUME role.query = MatchNone PROVE FALSE
    OBVIOUS
  <2>1. MatchNone \in ElasticsearchQuery
    BY DEF ElasticsearchQuery
  <2> DEFINE picks == [q \in ElasticsearchQuery |-> ElasticsearchSelects(q, row.attrs)]
  <2>2. Selects(MatchNone, picks, row.attrs)
    BY <1>1, <2>1, SelectsUnfolds
  <2> QED BY <2>2 DEF Selects, MatchNone
<1>4. EvalPredicate(policy.predicate[k], row.attrs, Attrs(c))
  BY <1>1, <1>2, <1>3, CompiledFrom, QueryNeverWider
<1> QED BY <1>4 DEF RowHolds

\* So does a row that the BW authorization selects, literal asterisks aside.
LEMMA BwRowHolds ==
  ASSUME policy \in Policy, NEW c \in Capsule, NEW k \in Contract, NEW row,
         SelectedByBw(c, k, row), ~ ListsAnyValue(policy.predicate[k], Attrs(c))
  PROVE  RowHolds(c, k, row)
<1>1. PICK auth \in BwAuthorizations(c) : auth.contract = k /\ BwSelects(auth.values, row.attrs)
  BY DEF SelectedByBw
<1>2. auth.values = IF ClassificationAllowed(k)
                    THEN CompileBwVendorValues(policy.predicate[k], Attrs(c)) ELSE {}
  BY <1>1 DEF BwAuthorizations
<1>3. auth.values # {}
  BY <1>1 DEF BwSelects, IsOneOf
<1>4. EvalPredicate(policy.predicate[k], row.attrs, Attrs(c))
  BY <1>1, <1>2, <1>3, CompiledFrom, VendorsNeverWider
<1> QED BY <1>4 DEF RowHolds

\* Who is assigned to a contract is allowed to do what it says to every row it
\* holds for.
LEMMA AssignedIsAllowed ==
  ASSUME policy \in Policy,
         NEW c \in Capsule, Compilable(c), NEW k \in Emitting(c), k.dataset \notin ControlDataset,
         NEW m \in EligibleAssignments(c, k), NEW action \in k.actions \cap m.persona.actions,
         NEW record \in Record, record.dataset = k.dataset,
         EvalPredicate(policy.predicate[k], record.attrs, Attrs(c))
  PROVE  AllowedByCheck(m, k, action, record)
<1> DEFINE q == [action |-> action, dataset |-> k.dataset, record |-> record, purpose |-> k.purpose]
           p == m.principal
<1>1. /\ k \in Contract /\ <<c, k>> \in bindings /\ ~ k.approvalRequired
      /\ ReleasedFields(k) # {}
  BY DEF Emitting, Standing
<1>2. /\ m \in memberships /\ m.capsule = c /\ Enabled(p) /\ PersonaMatchesContract(m.persona, k)
      /\ DatasetLevel[k.dataset] <= ClassificationMax(m.persona, k)
  BY DEF EligibleAssignments, Eligible
<1>3. Canonical(DatasetFields[k.dataset]) /\ Active(c)
  BY <1>1 DEF Compilable, CanonicalLists, Emitting
<1>4. m \in LiveMemberships(p)
  BY <1>2, <1>3 DEF LiveMemberships, MembershipsOf
<1>5. q.action = action /\ q.dataset = k.dataset /\ q.record = record /\ q.purpose = k.purpose
  OBVIOUS
<1> HIDE DEF q
<1>6. record # NoRecord /\ Sensitivity(q) = DatasetLevel[k.dataset]
  <2>1. /\ NoRecord \notin Record /\ record.level \in Nat /\ DatasetLevel[record.dataset] \in Nat
        /\ record.level <= DatasetLevel[record.dataset]
    BY ImportAssumption DEF ImportAssumption
  <2> QED BY <1>5, <2>1 DEF Sensitivity
<1>7. <<m, k>> \in Allowing(p, q)
  BY <1>1, <1>2, <1>4, <1>5, <1>6 DEF Allowing, Candidates, RowAllowed
<1>8. Check(p, q) = StandingDecision(Allowing(p, q))
  BY <1>2, <1>3, <1>4, <1>5, <1>7 DEF Check
<1>9. UNION {ReleasedFields(h[2]) : h \in Allowing(p, q)} # {}
  BY <1>1, <1>7
<1>10. StandingDecision(Allowing(p, q)).effect = "allow"
  BY <1>9 DEF StandingDecision, Allow
<1> QED BY <1>8, <1>10 DEF AllowedByCheck, q

\* For every store and import: an artifact compiled for a contract reaches no
\* row that the decision point would deny to somebody assigned to it, however
\* predicates are nested and whatever the capsule's attributes are; excepted is
\* only the BW list of a predicate that compares the vendor with a literal
\* asterisk (compiler.ts against pdp.ts).
THEOREM NativePoliciesStayNarrow == DecisionSpec => []NativePoliciesNeverWiden
<1>1. policy \in Policy => NativePoliciesNeverWiden
  <2> SUFFICES ASSUME policy \in Policy, NEW c \in Capsule, Compilable(c),
                      NEW k \in Emitting(c), k.dataset \notin ControlDataset,
                      NEW m \in EligibleAssignments(c, k), NEW action \in k.actions,
                      NEW row \in RowsOf(k), action \in m.persona.actions,
                      \/ SelectedByElasticsearch(c, k, row)
                      \/ SelectedByBw(c, k, row) /\ ~ ListsAnyValue(policy.predicate[k], Attrs(c))
               PROVE  AllowedByCheck(m, k, action, row)
    BY DEF NativePoliciesNeverWiden
  <2>1. k \in Contract
    BY DEF Emitting, Standing
  <2>2. RowHolds(c, k, row)
    BY <2>1, ElasticsearchRowHolds, BwRowHolds
  <2>3. row \in Record /\ row.dataset = k.dataset
    BY DEF RowsOf
  <2> QED BY <2>2, <2>3, AssignedIsAllowed DEF RowHolds
<1> QED BY <1>1, PolicyIsImported, PTL

\* For every store and import: where an Elasticsearch gate reports the row filter
\* of a contract as supported, the compiled query selects exactly the rows for
\* which the predicate holds (compiler.ts: predicateSupportedByElasticsearch
\* against compilePredicateToElasticsearch and predicate.ts: evalPredicate).
THEOREM ElasticsearchFiltersAlwaysExact == DecisionSpec => []ElasticsearchFiltersAreExact
<1>1. policy \in Policy => ElasticsearchFiltersAreExact
  <2> SUFFICES ASSUME policy \in Policy, NEW c \in Capsule,
                      NEW k \in ElasticsearchSupports(c), ClassificationAllowed(k), NEW row \in RowsOf(k)
               PROVE  SelectedByElasticsearch(c, k, row) <=> RowHolds(c, k, row)
    BY DEF ElasticsearchFiltersAreExact
  <2>1. /\ k \in Emitting(c) /\ "view" \in k.actions /\ k \in Contract
        /\ SupportedByElasticsearch(policy.predicate[k], Attrs(c))
    BY DEF ElasticsearchSupports, Emitting, Standing
  <2>2. ASSUME RowHolds(c, k, row) PROVE SelectedByElasticsearch(c, k, row)
    <3> DEFINE query == CompilePredicateToElasticsearch(policy.predicate[k], Attrs(c))
               role  == [contract |-> k, query |-> query]
    <3>1. ElasticsearchSelects(query, row.attrs)
      BY <2>1, <2>2, CompiledFrom, SupportedQueryMissesNothing DEF RowHolds
    <3> HIDE DEF query
    <3>2. role \in ElasticsearchRoles(c)
      BY <2>1 DEF ElasticsearchRoles, query
    <3>3. role.contract = k /\ role.query = query
      OBVIOUS
    <3> QED BY <3>1, <3>2, <3>3 DEF SelectedByElasticsearch
  <2> QED BY <2>1, <2>2, ElasticsearchRowHolds
<1> QED BY <1>1, PolicyIsImported, PTL

-----------------------------------------------------------------------------
(***************************************************************************)
(* Field paths.                                                            *)
(***************************************************************************)

LEMMA PrefixPointwise ==
  ASSUME NEW f \in Path, NEW g \in Path
  PROVE  IsPrefix(f, g) <=> Len(f) <= Len(g) /\ \A i \in 1 .. Len(f) : f[i] = g[i]
<1> DEFINE M == Len(f)
           N == Len(g)
<1>1. /\ f \in Seq(STRING) /\ g \in Seq(STRING) /\ M \in Nat /\ N \in Nat
      /\ DOMAIN f = 1 .. M /\ DOMAIN g = 1 .. N
  BY DEF Path
<1> HIDE DEF M, N
<1>2. ASSUME M <= N
      PROVE  /\ SubSeq(f, 1, M) = [i \in 1 .. M |-> f[i]]
             /\ SubSeq(g, 1, M) = [i \in 1 .. M |-> g[i]]
  BY <1>1, <1>2 DEF M, N
<1>3. IsPrefix(f, g) <=> M <= N /\ SubSeq(f, 1, M) = SubSeq(g, 1, M)
  BY DEF IsPrefix, M, N
<1> QED BY <1>2, <1>3 DEF M, N

LEMMA PrefixFacts ==
  /\ FieldPath \subseteq Path
  /\ \A f \in Path : IsPrefix(f, f)
  /\ \A f, g, h \in Path : IsPrefix(f, g) /\ IsPrefix(g, h) => IsPrefix(f, h)
  /\ \A f, g \in FieldPath : IsPrefix(f, g) /\ Len(g) = 1 => f = g
<1>1. /\ \A f \in FieldPath : f \in Path /\ Len(f) # 0
      /\ \A f \in Path : Len(f) \in Nat /\ f = [i \in 1 .. Len(f) |-> f[i]]
  BY DEF FieldPath, Path
<1>2. ASSUME NEW f \in Path PROVE IsPrefix(f, f)
  BY <1>1, PrefixPointwise
<1>3. ASSUME NEW f \in Path, NEW g \in Path, NEW h \in Path, IsPrefix(f, g), IsPrefix(g, h)
      PROVE  IsPrefix(f, h)
  <2>1. Len(f) <= Len(g) /\ Len(g) <= Len(h)
    BY <1>3, PrefixPointwise
  <2>2. Len(f) \in Nat /\ Len(g) \in Nat /\ Len(h) \in Nat
    BY <1>1
  <2>3. \A i \in 1 .. Len(f) : i \in 1 .. Len(g) /\ f[i] = g[i] /\ g[i] = h[i]
    BY <1>3, <2>1, <2>2, PrefixPointwise
  <2>4. Len(f) <= Len(h)
    BY <2>1, <2>2
  <2> QED BY <2>3, <2>4, PrefixPointwise
<1>4. ASSUME NEW f \in FieldPath, NEW g \in FieldPath, IsPrefix(f, g), Len(g) = 1
      PROVE  f = g
  <2>1. Len(f) = 1 /\ \A i \in 1 .. Len(f) : f[i] = g[i]
    BY <1>1, <1>4, PrefixPointwise
  <2> QED BY <1>1, <1>4, <2>1
<1> QED BY <1>1, <1>2, <1>3, <1>4

-----------------------------------------------------------------------------
(***************************************************************************)
(* Scopes of the warehouse.                                                *)
(***************************************************************************)

\* The functions of dimensions to non-empty sets of values.
Restriction(W) == UNION {[D -> (SUBSET W) \ {{}}] : D \in SUBSET Dimension}

Restrictions(W) == {S \in SUBSET Restriction(W) : IsFiniteSet(S)}

\* A row that satisfies a restriction.
Fits(r, row) == \A d \in DOMAIN r : Value(row, d) \in r[d]

LEMMA RestrictionShape ==
  ASSUME NEW W, NEW r
  PROVE  r \in Restriction(W) <=>
           /\ r = [d \in DOMAIN r |-> r[d]] /\ DOMAIN r \subseteq Dimension
           /\ \A d \in DOMAIN r : r[d] \in (SUBSET W) \ {{}}
<1>1. ASSUME r \in Restriction(W)
      PROVE  /\ r = [d \in DOMAIN r |-> r[d]] /\ DOMAIN r \subseteq Dimension
             /\ \A d \in DOMAIN r : r[d] \in (SUBSET W) \ {{}}
  <2>1. PICK D \in SUBSET Dimension : r \in [D -> (SUBSET W) \ {{}}]
    BY <1>1 DEF Restriction
  <2> QED BY <2>1
<1>2. ASSUME r = [d \in DOMAIN r |-> r[d]], DOMAIN r \subseteq Dimension,
             \A d \in DOMAIN r : r[d] \in (SUBSET W) \ {{}}
      PROVE  r \in Restriction(W)
  <2>1. r \in [DOMAIN r -> (SUBSET W) \ {{}}]
    BY <1>2
  <2> QED BY <1>2, <2>1 DEF Restriction
<1> QED BY <1>1, <1>2

\* Everything and nothing.
LEMMA NoRestriction ==
  ASSUME NEW W
  PROVE  {<< >>} \in Restrictions(W) /\ {} \in Restrictions(W) /\ \A row : Fits(<< >>, row)
<1>1. << >> \in Restriction(W)
  <2>1. << >> = [d \in {} |-> {}] /\ DOMAIN << >> = {}
    OBVIOUS
  <2>2. << >> \in [{} -> (SUBSET W) \ {{}}]
    BY <2>1
  <2> QED BY <2>2 DEF Restriction
<1>2. IsFiniteSet({<< >>}) /\ IsFiniteSet({})
  BY FS_Singleton, FS_EmptySet
<1> QED BY <1>1, <1>2 DEF Restrictions, Fits

\* Merging keeps what both restrict to.
LEMMA MergedFacts ==
  ASSUME NEW W, NEW l \in Restriction(W), NEW r \in Restriction(W), NEW t \in MergeDimensions(l, r)
  PROVE  t \in Restriction(W) /\ t = Merged(l, r) /\ \A row : Fits(t, row) => Fits(l, row) /\ Fits(r, row)
<1>1. t = Merged(l, r) /\ \A d \in DOMAIN l \cap DOMAIN r : l[d] \cap r[d] # {}
  BY DEF MergeDimensions
<1>2. /\ DOMAIN l \subseteq Dimension /\ DOMAIN r \subseteq Dimension
      /\ \A d \in DOMAIN l : l[d] \in (SUBSET W) \ {{}}
      /\ \A d \in DOMAIN r : r[d] \in (SUBSET W) \ {{}}
  BY RestrictionShape
<1>3. /\ DOMAIN t = DOMAIN l \cup DOMAIN r /\ t = [d \in DOMAIN t |-> t[d]]
      /\ \A d \in DOMAIN t :
           t[d] = IF d \notin DOMAIN l THEN r[d]
                  ELSE IF d \notin DOMAIN r THEN l[d] ELSE l[d] \cap r[d]
  BY <1>1 DEF Merged
<1>4. t \in Restriction(W)
  <2>1. \A d \in DOMAIN t : t[d] \in (SUBSET W) \ {{}}
    BY <1>1, <1>2, <1>3
  <2> QED BY <1>2, <1>3, <2>1, RestrictionShape
<1> QED BY <1>1, <1>3, <1>4 DEF Fits

LEMMA CombineFacts ==
  ASSUME NEW W, NEW some \in Restrictions(W), NEW others \in Restrictions(W)
  PROVE  /\ Combine(some, others) \in Restrictions(W)
         /\ \A row : \A t \in Combine(some, others) : Fits(t, row) =>
              (\E r \in some : Fits(r, row)) /\ (\E l \in others : Fits(l, row))
<1>1. /\ some \subseteq Restriction(W) /\ IsFiniteSet(some)
      /\ others \subseteq Restriction(W) /\ IsFiniteSet(others)
  BY DEF Restrictions
<1>2. ASSUME NEW t \in Combine(some, others)
      PROVE  \E l \in others, r \in some : t \in MergeDimensions(l, r)
  BY DEF Combine
<1>3. Combine(some, others) \subseteq Restriction(W)
  BY <1>1, <1>2, MergedFacts
<1>4. IsFiniteSet(Combine(some, others))
  <2> DEFINE pairs == others \X some
             merged == {Merged(x[1], x[2]) : x \in pairs}
  <2>1. IsFiniteSet(pairs)
    BY <1>1, FS_Product
  <2>2. IsFiniteSet(merged)
    <3> DEFINE f == [x \in pairs |-> Merged(x[1], x[2])]
    <3> HIDE DEF pairs
    <3>1. merged = {f[x] : x \in pairs}
      OBVIOUS
    <3> HIDE DEF merged, f
    <3> QED BY <2>1, <3>1, FiniteImage
  <2>3. Combine(some, others) \subseteq merged
    <3> SUFFICES ASSUME NEW t \in Combine(some, others) PROVE t \in merged
      OBVIOUS
    <3>1. PICK l \in others, r \in some : t \in MergeDimensions(l, r)
      BY <1>2
    <3>2. t = Merged(l, r)
      BY <1>1, <3>1, MergedFacts
    <3>3. <<l, r>> \in pairs /\ <<l, r>>[1] = l /\ <<l, r>>[2] = r
      OBVIOUS
    <3> QED BY <3>2, <3>3
  <2> HIDE DEF merged
  <2> QED BY <2>2, <2>3, FS_Subset
<1>5. ASSUME NEW row, NEW t \in Combine(some, others), Fits(t, row)
      PROVE  (\E r \in some : Fits(r, row)) /\ (\E l \in others : Fits(l, row))
  <2>1. PICK l \in others, r \in some : t \in MergeDimensions(l, r)
    BY <1>2
  <2>2. Fits(l, row) /\ Fits(r, row)
    BY <1>1, <1>5, <2>1, MergedFacts
  <2> QED BY <2>2
<1> QED BY <1>3, <1>4, <1>5 DEF Restrictions

\* The rounds of CombineAll: one list after the other.
CombinesBy(f, D, lists) ==
  /\ f[{}] = {<< >>}
  /\ \A s \in SUBSET D : s # {} => f[s] = Combine(lists[Pick(s)], f[s \ {Pick(s)}])

LEMMA CombineAllRounds ==
  ASSUME NEW D, IsFiniteSet(D), NEW W, NEW lists \in [D -> Restrictions(W)]
  PROVE  \E f : CombinesBy(f, D, lists) /\ CombineAll(lists) = f[D]
<1> DEFINE V == Restrictions(W)
           each == [c \in D |-> [v \in V |-> Combine(lists[c], v)]]
           equation(f) == [s \in SUBSET D |->
                             IF s = {} THEN {<< >>} ELSE Combine(lists[Pick(s)], f[s \ {Pick(s)}])]
           x == CHOOSE f : f = equation(f)
<1>1. \A v, w \in V : Combine(v, w) \in V
  BY CombineFacts
<1>2. {<< >>} \in V
  BY NoRestriction
<1> HIDE DEF V
<1>3. each \in [D -> [V -> V]]
  BY <1>1 DEF V
<1>4. PICK f : f \in Folds(D, V, {<< >>}, each)
  <2> HIDE DEF each
  <2> QED BY <1>2, <1>3, FoldsExist
<1>5. \A s \in SUBSET D : s # {} => Pick(s) \in s /\ s \ {Pick(s)} \in SUBSET D
  BY DEF Pick
<1>6. f = equation(f)
  <2>1. f \in [SUBSET D -> V]
    BY <1>4 DEF Folds
  <2>2. ASSUME NEW s \in SUBSET D
        PROVE  f[s] = IF s = {} THEN {<< >>} ELSE Combine(lists[Pick(s)], f[s \ {Pick(s)}])
    <3>1. f[s] = IF s = {} THEN {<< >>} ELSE each[Pick(s)][f[s \ {Pick(s)}]]
      BY <1>4 DEF Folds
    <3>2. s # {} => Pick(s) \in D /\ f[s \ {Pick(s)}] \in V
      BY <1>5, <2>1
    <3>3. s # {} => each[Pick(s)][f[s \ {Pick(s)}]] = Combine(lists[Pick(s)], f[s \ {Pick(s)}])
      BY <3>2
    <3> HIDE DEF each
    <3> QED BY <3>1, <3>3
  <2> HIDE DEF each
  <2> QED BY <2>1, <2>2
<1>7. DOMAIN lists = D
  OBVIOUS
<1> HIDE DEF equation
<1>8. x = equation(x)
  BY <1>6
<1>9. CombineAll(lists) = x[D]
  BY <1>7 DEF CombineAll, FoldFunction, FoldFunctionOnSet, MapThenFoldSet, equation, Pick
<1> HIDE DEF x
<1>10. CombinesBy(x, D, lists)
  BY <1>8 DEF equation, CombinesBy
<1> QED BY <1>9, <1>10

\* What fits a combination fits something in every list.
LEMMA CombineAllFacts ==
  ASSUME NEW D, IsFiniteSet(D), NEW W, NEW lists \in [D -> Restrictions(W)]
  PROVE  /\ CombineAll(lists) \in Restrictions(W)
         /\ \A row : \A t \in CombineAll(lists) : Fits(t, row) =>
              \A c \in D : \E r \in lists[c] : Fits(r, row)
<1>1. PICK x : CombinesBy(x, D, lists) /\ CombineAll(lists) = x[D]
  BY CombineAllRounds
<1> DEFINE T == {s \in SUBSET D :
                   /\ x[s] \in Restrictions(W)
                   /\ \A row : \A t \in x[s] : Fits(t, row) =>
                        \A c \in s : \E r \in lists[c] : Fits(r, row)}
<1>2. {} \in T
  BY <1>1, NoRestriction DEF CombinesBy
<1>3. ASSUME NEW s \in SUBSET D, s # {}, s \ {Pick(s)} \in T PROVE s \in T
  <2>1. x[s] = Combine(lists[Pick(s)], x[s \ {Pick(s)}])
    BY <1>1, <1>3 DEF CombinesBy
  <2>2. Pick(s) \in s /\ lists[Pick(s)] \in Restrictions(W) /\ x[s \ {Pick(s)}] \in Restrictions(W)
    BY <1>3 DEF Pick
  <2>3. x[s] \in Restrictions(W)
    BY <2>1, <2>2, CombineFacts
  <2>4. ASSUME NEW row, NEW t \in x[s], Fits(t, row), NEW c \in s
        PROVE  \E r \in lists[c] : Fits(r, row)
    <3>1. (\E r \in lists[Pick(s)] : Fits(r, row)) /\ (\E l \in x[s \ {Pick(s)}] : Fits(l, row))
      BY <2>1, <2>2, <2>4, CombineFacts
    <3> QED BY <1>3, <3>1
  <2> QED BY <2>3, <2>4
<1> HIDE DEF T
<1>4. D \in T
  BY <1>2, <1>3, FoldInduction
<1> QED BY <1>1, <1>4 DEF T

\* One step of PredicateToScopes.
ScopesBy(p, f, attrs) ==
  IF p.op = "true" THEN {<< >>}
  ELSE IF p.op = "and" THEN CombineAll([c \in p.clauses |-> f[c]])
  ELSE IF p.op = "or" THEN UNION {f[c] : c \in p.clauses}
  ELSE DimensionScope(p.field, Admitted(p, attrs))

\* The values a predicate may restrict a dimension to.
ValuesOf(attrs) == UNION {Admitted(p, attrs) : p \in Predicate}

LEMMA ScopesByFacts ==
  ASSUME NEW attrs, NEW p \in Predicate, NEW f, NEW W, Admitted(p, attrs) \subseteq W,
         \A c \in Predicate : Nesting[c] < Nesting[p] => f[c] \in Restrictions(W)
  PROVE  ScopesBy(p, f, attrs) \in Restrictions(W)
<1>1. CASE p.op = "and"
  <2>1. IsFiniteSet(p.clauses) /\ [c \in p.clauses |-> f[c]] \in [p.clauses -> Restrictions(W)]
    BY <1>1, Clauses
  <2>2. CombineAll([c \in p.clauses |-> f[c]]) \in Restrictions(W)
    BY <2>1, CombineAllFacts
  <2> QED BY <1>1, <2>2 DEF ScopesBy
<1>2. CASE p.op = "or"
  <2> DEFINE lists == {f[c] : c \in p.clauses}
  <2>1. IsFiniteSet(p.clauses) /\ lists \subseteq Restrictions(W)
    BY <1>2, Clauses
  <2>2. IsFiniteSet(lists)
    BY <2>1, FiniteImage
  <2> HIDE DEF lists
  <2>3. IsFiniteSet(UNION lists)
    BY <2>1, <2>2, FS_UNION DEF Restrictions
  <2>4. UNION lists \in Restrictions(W)
    BY <2>1, <2>3 DEF Restrictions
  <2> QED BY <1>2, <2>4 DEF ScopesBy, lists
<1>3. CASE p.op = "true"
  BY <1>3, NoRestriction DEF ScopesBy
<1>4. CASE p.op \notin {"true", "and", "or"}
  <2> DEFINE values == Admitted(p, attrs)
             r == [d \in {p.field[1]} |-> values]
  <2>1. ScopesBy(p, f, attrs) = DimensionScope(p.field, values)
    BY <1>4 DEF ScopesBy
  <2>2. CASE Len(p.field) = 1 /\ p.field[1] \in Dimension /\ values # {} /\ values \cap NoString = {}
    <3>1. r \in [{p.field[1]} -> (SUBSET W) \ {{}}]
      BY <2>2
    <3>2. r \in Restriction(W)
      BY <2>2, <3>1 DEF Restriction
    <3>3. DimensionScope(p.field, values) = {r}
      BY <2>2 DEF DimensionScope
    <3> HIDE DEF r
    <3>4. IsFiniteSet({r})
      BY FS_Singleton
    <3> QED BY <2>1, <3>2, <3>3, <3>4 DEF Restrictions
  <2>3. CASE ~ (Len(p.field) = 1 /\ p.field[1] \in Dimension /\ values # {} /\ values \cap NoString = {})
    <3>1. DimensionScope(p.field, values) = {}
      BY <2>3 DEF DimensionScope
    <3> QED BY <2>1, <3>1, NoRestriction
  <2> QED BY <2>2, <2>3
<1> QED BY <1>1, <1>2, <1>3, <1>4

LEMMA ScopesUnfold ==
  ASSUME NEW attrs
  PROVE  LET value == [p \in Predicate |-> PredicateToScopes(p, attrs)]
         IN  \A p \in Predicate :
               /\ PredicateToScopes(p, attrs) = ScopesBy(p, value, attrs)
               /\ PredicateToScopes(p, attrs) \in Restrictions(ValuesOf(attrs))
<1> DEFINE W == ValuesOf(attrs)
           V == Restrictions(W)
           step == [p \in Predicate |-> [f \in [Predicate -> V] |-> ScopesBy(p, f, attrs)]]
           equation(f) == [p \in Predicate |-> ScopesBy(p, f, attrs)]
           x == CHOOSE f : f = equation(f)
<1>1. ASSUME NEW p \in Predicate, NEW f,
             \A c \in Predicate : Nesting[c] < Nesting[p] => f[c] \in V
      PROVE  ScopesBy(p, f, attrs) \in V
  <2>1. Admitted(p, attrs) \subseteq W
    BY DEF ValuesOf
  <2> HIDE DEF W
  <2> QED BY <1>1, <2>1, ScopesByFacts
<1>2. ASSUME NEW p \in Predicate, NEW f, NEW g,
             \A c \in Predicate : Nesting[c] < Nesting[p] => f[c] = g[c]
      PROVE  ScopesBy(p, f, attrs) = ScopesBy(p, g, attrs)
  <2>1. CASE p.op \in {"and", "or"}
    <3>1. \A c \in p.clauses : f[c] = g[c]
      BY <1>2, <2>1, Clauses
    <3>2. /\ {f[c] : c \in p.clauses} = {g[c] : c \in p.clauses}
          /\ [c \in p.clauses |-> f[c]] = [c \in p.clauses |-> g[c]]
      BY <3>1
    <3> QED BY <3>2 DEF ScopesBy
  <2>2. CASE p.op \notin {"and", "or"}
    BY <2>2 DEF ScopesBy
  <2> QED BY <2>1, <2>2
<1>3. V # {}
  BY NoRestriction
<1> HIDE DEF V
<1>4. \A p \in Predicate, f \in [Predicate -> V] : ScopesBy(p, f, attrs) \in V
  BY <1>1
<1>5. WellFounded(Predicate, V, Nesting, step)
  BY <1>2, <1>3, <1>4, Clauses DEF WellFounded
<1> HIDE DEF step
<1>6. PICK f : f \in Solutions(Predicate, V, step)
  BY <1>5, Recursion
<1>7. f \in [Predicate -> V] /\ \A p \in Predicate : f[p] = ScopesBy(p, f, attrs)
  BY <1>6 DEF Solutions, step
<1>8. f = equation(f)
  BY <1>7
<1> HIDE DEF equation
<1>9. x = equation(x)
  BY <1>8
<1>10. \A p : PredicateToScopes(p, attrs) = x[p]
  BY DEF PredicateToScopes, equation, ScopesBy
<1> HIDE DEF x
<1>11. x = [p \in Predicate |-> x[p]] /\ \A p \in Predicate : x[p] = ScopesBy(p, x, attrs)
  BY <1>9 DEF equation
<1>12. x = [p \in Predicate |-> PredicateToScopes(p, attrs)]
  BY <1>10, <1>11
<1>13. \A p \in Predicate : x[p] \in V
  <2> DEFINE T == {n \in Nat : \A p \in Predicate : Nesting[p] = n => x[p] \in V}
  <2>1. ASSUME NEW n \in Nat, \A m \in Nat : m < n => m \in T PROVE n \in T
    <3> SUFFICES ASSUME NEW p \in Predicate, Nesting[p] = n PROVE x[p] \in V
      OBVIOUS
    <3>1. \A c \in Predicate : Nesting[c] < Nesting[p] => x[c] \in V
      BY <2>1, Clauses
    <3> QED BY <1>1, <1>11, <3>1
  <2> HIDE DEF T
  <2>2. Nat \subseteq T
    BY <2>1, StrongInductiveSet
  <2> QED BY <2>2, Clauses DEF T
<1> QED BY <1>10, <1>11, <1>12, <1>13 DEF V

\* The columns a field of one name reads.
LEMMA DimensionColumn ==
  ASSUME NEW row \in WarehouseRow, NEW field \in FieldPath, Len(field) = 1, field[1] \in Dimension,
         NEW values, Value(row, field[1]) \in values
  PROVE  IsOneOf(row.attrs, field, values)
<1>1. field = <<field[1]>>
  BY DEF FieldPath
<1>2. ReadField(row.attrs, <<field[1]>>) # Missing /\ IsLeaf(ReadField(row.attrs, <<field[1]>>))
  BY WarehouseAssumption
<1> QED BY <1>1, <1>2 DEF IsOneOf, Value

\* A row that fits a scope of a predicate satisfies the predicate.
LEMMA ScopesNeverWider ==
  ASSUME NEW attrs, NEW row \in WarehouseRow, NEW p \in Predicate,
         NEW r \in PredicateToScopes(p, attrs), Fits(r, row)
  PROVE  EvalPredicate(p, row.attrs, attrs)
<1> DEFINE scopes == [x \in Predicate |-> PredicateToScopes(x, attrs)]
           holds == [x \in Predicate |-> EvalPredicate(x, row.attrs, attrs)]
           W == ValuesOf(attrs)
           T == {n \in Nat : \A x \in Predicate : \A t \in scopes[x] :
                   Nesting[x] = n /\ Fits(t, row) => EvalPredicate(x, row.attrs, attrs)}
<1>1. ASSUME NEW n \in Nat, \A m \in Nat : m < n => m \in T PROVE n \in T
  <2> SUFFICES ASSUME NEW x \in Predicate, NEW t \in scopes[x], Nesting[x] = n, Fits(t, row)
               PROVE  EvalPredicate(x, row.attrs, attrs)
    OBVIOUS
  <2>1. scopes[x] = ScopesBy(x, scopes, attrs)
    BY ScopesUnfold
  <2>2. EvalPredicate(x, row.attrs, attrs) = Holds(x, holds, row.attrs, attrs)
    BY EvalUnfolds
  <2>3. ASSUME x.op \in {"and", "or"}, NEW c \in x.clauses, NEW u \in scopes[c], Fits(u, row)
        PROVE  holds[c]
    <3>1. c \in Predicate /\ Nesting[c] \in Nat /\ Nesting[c] < n
      BY <2>3, Clauses
    <3> QED BY <1>1, <2>3, <3>1
  <2>4. scopes \in [Predicate -> Restrictions(W)]
    BY ScopesUnfold
  <2> HIDE DEF scopes, holds, T
  <2>5. CASE x.op = "and"
    <3> DEFINE lists == [c \in x.clauses |-> scopes[c]]
    <3>1. scopes[x] = CombineAll(lists)
      BY <2>1, <2>5 DEF ScopesBy
    <3>2. IsFiniteSet(x.clauses) /\ x.clauses \subseteq Predicate
      BY <2>5, Clauses
    <3>3. lists \in [x.clauses -> Restrictions(W)]
      BY <2>4, <3>2
    <3> HIDE DEF W, lists
    <3>4. \A c \in x.clauses : \E u \in lists[c] : Fits(u, row)
      BY <3>1, <3>2, <3>3, CombineAllFacts
    <3>5. \A c \in x.clauses : \E u \in scopes[c] : Fits(u, row)
      BY <3>4 DEF lists
    <3> QED BY <2>2, <2>3, <2>5, <3>5 DEF Holds
  <2>6. CASE x.op = "or"
    <3>1. \E c \in x.clauses : t \in scopes[c]
      BY <2>1, <2>6 DEF ScopesBy
    <3> QED BY <2>2, <2>3, <2>6, <3>1 DEF Holds
  <2>7. CASE x.op \notin {"true", "and", "or"}
    <3> DEFINE values == Admitted(x, attrs)
    <3>1. scopes[x] = DimensionScope(x.field, values)
      BY <2>1, <2>7 DEF ScopesBy
    <3>2. Len(x.field) = 1 /\ x.field[1] \in Dimension /\ t = [d \in {x.field[1]} |-> values]
      BY <3>1 DEF DimensionScope
    <3>3. Value(row, x.field[1]) \in values
      BY <3>2 DEF Fits
    <3>4. x.field \in FieldPath
      BY <2>7, PredicateAssumption
    <3> HIDE DEF values
    <3>5. IsOneOf(row.attrs, x.field, values)
      BY <3>2, <3>3, <3>4, DimensionColumn
    <3> QED BY <2>2, <2>7, <3>5 DEF Holds, values
  <2>8. CASE x.op = "true"
    BY <2>2, <2>8 DEF Holds
  <2> QED BY <2>5, <2>6, <2>7, <2>8
<1> HIDE DEF T
<1>2. Nat \subseteq T
  BY <1>1, StrongInductiveSet
<1> QED BY <1>2, Clauses DEF T

-----------------------------------------------------------------------------
(***************************************************************************)
(* Rows and columns of a dashboard.                                        *)
(***************************************************************************)

\* A row that a scope selects fits the restriction the scope was made of.
LEMMA InScopeFits ==
  ASSUME NEW W, NEW r \in Restriction(W), NEW ceiling, NEW row, InScope(Filled(r, ceiling), row)
  PROVE  Fits(r, row) /\ row.level <= ceiling
<1>1. /\ DOMAIN r \subseteq Dimension
      /\ \A d \in DOMAIN r : r[d] # {}
  BY RestrictionShape
<1>2. \A d \in DOMAIN r : Filled(r, ceiling).values[d] = r[d]
  BY <1>1 DEF Filled
<1>3. \A d \in DOMAIN r : Value(row, d) \in r[d]
  BY <1>1, <1>2 DEF InScope
<1> QED BY <1>3 DEF InScope, Filled, Fits

\* What a scope of the warehouse is made of.
MadeFrom(s, m, k, purpose) ==
  /\ s.contract = k
  /\ <<m.capsule, k>> \in bindings
  /\ k.dataset = "warehouse" /\ "view" \in k.actions /\ k.purpose = purpose
  /\ PersonaMatchesContract(m.persona, k)
  /\ policy.predicate[k] \in Predicate
  /\ \E r \in PredicateToScopes(policy.predicate[k], Attrs(m.capsule)) :
       /\ "product" \in DOMAIN r
       /\ s.scope = Filled(r, ClassificationMax(m.persona, k))

LEMMA ScopeOrigin ==
  ASSUME policy \in Policy, NEW p, NEW purpose, NEW s \in WarehouseScopesFor(p, purpose)
  PROVE  /\ s.contract \in Contract
         /\ \E m \in LiveMemberships(p), k \in Contract :
              MadeFrom(s, m, k, purpose)
<1>1. PICK held \in WarehouseContracts(p, purpose) :
        \E t \in ScopesOf(held[2], held[1].capsule, held[1].persona) :
          s = [scope |-> t, contract |-> held[2]]
  BY DEF WarehouseScopesFor
<1>2. PICK t \in ScopesOf(held[2], held[1].capsule, held[1].persona) :
        s = [scope |-> t, contract |-> held[2]]
  BY <1>1
<1> DEFINE m == held[1]
           k == held[2]
<1>3. /\ m \in LiveMemberships(p) /\ k \in Contract
      /\ <<m.capsule, k>> \in bindings
      /\ k.dataset = "warehouse" /\ "view" \in k.actions /\ k.purpose = purpose
      /\ PersonaMatchesContract(m.persona, k)
  BY DEF WarehouseContracts
<1>4. policy.predicate[k] \in Predicate
  BY <1>3, ImportAssumption DEF ImportAssumption
<1>5. t \in ScopesOf(k, m.capsule, m.persona) /\ s.scope = t /\ s.contract = k
  BY <1>2
<1> HIDE DEF m, k
<1>6. PICK r \in PredicateToScopes(policy.predicate[k], Attrs(m.capsule)) :
        "product" \in DOMAIN r /\ t = Filled(r, ClassificationMax(m.persona, k))
  BY <1>5 DEF ScopesOf
<1>7. MadeFrom(s, m, k, purpose)
  BY <1>3, <1>4, <1>5, <1>6 DEF MadeFrom
<1> QED BY <1>3, <1>5, <1>7

\* A row selected by the scopes of a principal is granted by a contract.
LEMMA ScopedRowGranted ==
  ASSUME policy \in Policy, NEW p, NEW purpose, NEW s \in WarehouseScopesFor(p, purpose),
         NEW row \in WarehouseRow, InScope(s.scope, row)
  PROVE  RowGranted(p, purpose, row)
<1>1. PICK m \in LiveMemberships(p), k \in Contract : MadeFrom(s, m, k, purpose)
  BY ScopeOrigin
<1> DEFINE predicate == policy.predicate[k]
           attrs == Attrs(m.capsule)
           max == ClassificationMax(m.persona, k)
<1>2. PICK r \in PredicateToScopes(predicate, attrs) : s.scope = Filled(r, max)
  BY <1>1 DEF MadeFrom
<1>3. predicate \in Predicate
  BY <1>1 DEF MadeFrom
<1> HIDE DEF predicate, attrs, max
<1>4. r \in Restriction(ValuesOf(attrs))
  BY <1>3, ScopesUnfold DEF Restrictions
<1>5. InScope(Filled(r, max), row)
  BY <1>2
<1>6. Fits(r, row) /\ row.level <= max
  BY <1>4, <1>5, InScopeFits
<1>7. EvalPredicate(predicate, row.attrs, attrs)
  BY <1>3, <1>6, ScopesNeverWider
<1> QED BY <1>1, <1>6, <1>7 DEF RowGranted, MadeFrom, predicate, attrs, max

\* The scopes are finitely many.
StoreFinite == IsFiniteSet(memberships) /\ IsFiniteSet(bindings)

LEMMA AlwaysFinite == Spec => []StoreFinite
<1>1. Init => StoreFinite
  BY SeedMembershipAssumption, SeedBindingAssumption DEF Init, StoreFinite
<1>2. StoreFinite /\ [Next]_vars => StoreFinite'
  <2> SUFFICES ASSUME StoreFinite, [Next]_vars PROVE StoreFinite'
    OBVIOUS
  <2> USE DEF StoreFinite
  <2>1. ASSUME NEW actor \in Principal, NEW p \in Principal, AddMembership(actor, p)
        PROVE  StoreFinite'
    BY <2>1, FS_AddElement DEF AddMembership
  <2>2. ASSUME memberships' \subseteq memberships, bindings' \subseteq bindings
        PROVE  StoreFinite'
    <3>1. IsFiniteSet(memberships')
      BY <2>2, FS_Subset
    <3>2. IsFiniteSet(bindings')
      BY <2>2, FS_Subset
    <3> QED BY <3>1, <3>2
  <2>3. ASSUME NEW m \in memberships, RemoveMembershipUnchecked(m) PROVE StoreFinite'
    BY <2>2, <2>3 DEF RemoveMembershipUnchecked
  <2>4. ASSUME NEW actor \in Principal, NEW c \in Capsule, NEW cascade \in BOOLEAN,
               OffboardCapsule(actor, c, cascade)
        PROVE  StoreFinite'
    <3>1. memberships' \subseteq memberships /\ bindings' \subseteq bindings
      BY <2>4 DEF OffboardCapsule
    <3> QED BY <2>2, <3>1
  <2>5. CASE JitStep \/ ClockStep \/ UNCHANGED vars
    <3>1. memberships' = memberships /\ bindings' = bindings
      BY <2>5 DEF JitStep, ClockStep, AdjustClock, RequestJit, ApproveJit, DenyJit, RevokeJit, vars
    <3> QED BY <2>2, <3>1
  <2>6. ASSUME NEW actor \in Principal, NEW p \in Principal, NEW d \in Draft,
               ApplyRoleDraft(actor, p, d)
        PROVE  StoreFinite'
    <3>1. IsFiniteSet(bindings')
      <4>1. bindings' = bindings \cup {<<ScopeCapsule(d), RoleContract(d)>>}
        BY <2>6 DEF ApplyRoleDraft
      <4> QED BY <4>1, FS_AddElement
    <3> DEFINE retained == Retained(p, d)
               current == {m \in retained : m.principal = p /\ m.capsule = ScopeCapsule(d)}
               f == [m \in current |-> [m EXCEPT !.persona = CapabilityPersona(d)]]
    <3>2. retained \subseteq memberships
      BY DEF Retained
    <3>3. IsFiniteSet(retained) /\ IsFiniteSet(current) /\ IsFiniteSet(retained \ current)
      <4>1. current \subseteq memberships /\ retained \ current \subseteq memberships
        BY <3>2
      <4> HIDE DEF retained, current
      <4> QED BY <3>2, <4>1, FS_Subset
    <3>4. \/ memberships' = (retained \ current) \cup {f[m] : m \in current}
          \/ \E m : memberships' = retained \cup {m}
      BY <2>6 DEF ApplyRoleDraft, JoinScope
    <3> HIDE DEF retained, current, f
    <3>5. IsFiniteSet({f[m] : m \in current})
      BY <3>3, FiniteImage
    <3>6. IsFiniteSet((retained \ current) \cup {f[m] : m \in current})
      BY <3>3, <3>5, FS_Union
    <3>7. \A m : IsFiniteSet(retained \cup {m})
      BY <3>3, FS_AddElement
    <3> QED BY <3>1, <3>4, <3>6, <3>7
  <2> QED BY <2>1, <2>3, <2>4, <2>5, <2>6
          DEF Next, MembershipStep, RemoveMembership, RevokeMembershipForRecertification, RoleStep
<1> QED BY <1>1, <1>2, PTL DEF Spec

LEMMA FiniteScopes ==
  ASSUME StoreFinite, policy \in Policy, NEW p, NEW purpose
  PROVE  IsFiniteSet(WarehouseScopesFor(p, purpose))
<1> DEFINE scopes(held) == {[scope |-> s, contract |-> held[2]] :
                              s \in ScopesOf(held[2], held[1].capsule, held[1].persona)}
           contracts == WarehouseContracts(p, purpose)
           lists == {scopes(held) : held \in contracts}
<1>1. IsFiniteSet(contracts)
  <2> DEFINE pairs == memberships \X bindings
             f == [x \in pairs |-> <<x[1], x[2][2]>>]
  <2>1. IsFiniteSet(pairs)
    BY FS_Product DEF StoreFinite
  <2>2. contracts \subseteq {f[x] : x \in pairs}
    <3> SUFFICES ASSUME NEW held \in contracts PROVE held \in {f[x] : x \in pairs}
      OBVIOUS
    <3>1. /\ held = <<held[1], held[2]>> /\ held[1] \in memberships
          /\ <<held[1].capsule, held[2]>> \in bindings
      BY DEF WarehouseContracts, LiveMemberships, MembershipsOf
    <3> DEFINE x == <<held[1], <<held[1].capsule, held[2]>>>>
    <3>2. x \in pairs /\ f[x] = held
      BY <3>1
    <3> QED BY <3>2
  <2> HIDE DEF pairs, f, contracts
  <2>3. IsFiniteSet({f[x] : x \in pairs})
    BY <2>1, FiniteImage
  <2> QED BY <2>2, <2>3, FS_Subset
<1>2. ASSUME NEW held \in contracts PROVE IsFiniteSet(scopes(held))
  <2> DEFINE k == held[2]
             c == held[1].capsule
             persona == held[1].persona
             all == PredicateToScopes(policy.predicate[k], Attrs(c))
             f == [r \in all |-> [scope |-> Filled(r, ClassificationMax(persona, k)), contract |-> k]]
  <2>1. policy.predicate[k] \in Predicate
    BY ImportAssumption DEF ImportAssumption, WarehouseContracts
  <2>2. IsFiniteSet(all)
    BY <2>1, ScopesUnfold DEF Restrictions
  <2>3. scopes(held) \subseteq {f[r] : r \in all}
    BY DEF ScopesOf
  <2> HIDE DEF f, all, scopes
  <2>4. IsFiniteSet({f[r] : r \in all})
    BY <2>2, FiniteImage
  <2> QED BY <2>3, <2>4, FS_Subset
<1>3. WarehouseScopesFor(p, purpose) = UNION lists
  BY DEF WarehouseScopesFor
<1>4. IsFiniteSet(lists)
  <2> DEFINE f == [held \in contracts |-> scopes(held)]
  <2> HIDE DEF scopes, contracts
  <2>1. lists = {f[held] : held \in contracts}
    OBVIOUS
  <2> HIDE DEF lists, f
  <2> QED BY <1>1, <2>1, FiniteImage
<1>5. \A list \in lists : IsFiniteSet(list)
  BY <1>2
<1> HIDE DEF lists
<1> QED BY <1>3, <1>4, <1>5, FS_UNION

LEMMA FieldFacts ==
  ASSUME policy \in Policy
  PROVE  /\ \A k \in Contract : ReleasedFields(k) \subseteq FieldPath
         /\ WarehouseField \subseteq FieldPath /\ \A f \in WarehouseField : Len(f) = 1
<1>1. ASSUME NEW k \in Contract PROVE ReleasedFields(k) \subseteq FieldPath
  <2>1. /\ DatasetFields[k.dataset] \subseteq FieldPath
        /\ policy.allowFields[k] # Missing => policy.allowFields[k] \subseteq FieldPath
    BY ImportAssumption DEF ImportAssumption
  <2> QED BY <2>1 DEF ReleasedFields, IntersectFieldPaths
<1>2. \A row \in WarehouseRow : DOMAIN row.attrs.object \subseteq STRING
  BY WarehouseAssumption
<1>3. ASSUME NEW f \in WarehouseField PROVE f \in FieldPath /\ Len(f) = 1
  <2>1. PICK name \in STRING : f = <<name>>
    BY <1>2 DEF WarehouseField
  <2>2. <<name>> \in Seq(STRING)
    <3>1. \A S : \A y \in S : <<y>> \in Seq(S)
      OBVIOUS
    <3> QED BY <3>1
  <2>3. Len(<<name>>) = 1
    OBVIOUS
  <2>4. <<name>> # << >>
    OBVIOUS
  <2> QED BY <2>1, <2>2, <2>3, <2>4 DEF FieldPath
<1> QED BY <1>1, <1>3

\* A field that is left over after intersecting lies below a field of each list.
LEMMA IntersectedBelow ==
  ASSUME NEW current \in SUBSET FieldPath, NEW granted \in SUBSET FieldPath
  PROVE  /\ IntersectFieldPaths(current, granted) \in SUBSET FieldPath
         /\ \A f \in IntersectFieldPaths(current, granted) :
              (\E g \in current : IsPrefix(g, f)) /\ (\E g \in granted : IsPrefix(g, f))
BY PrefixFacts DEF IntersectFieldPaths

LEMMA AllowedByAll ==
  ASSUME StoreFinite, policy \in Policy, NEW p, NEW purpose
  PROVE  LET scopes == WarehouseScopesFor(p, purpose)
         IN  \A s \in scopes, f \in AllowedFieldsForScopes(scopes) :
               f \in FieldPath /\ \E g \in ReleasedFields(s.contract) : IsPrefix(g, f)
<1> DEFINE D == WarehouseScopesFor(p, purpose)
           V == SUBSET FieldPath
           granted(s) == ReleasedFields(s.contract)
           each == [s \in D |-> [v \in V |-> IntersectFieldPaths(v, granted(s))]]
           equation(f) == [s \in SUBSET D |->
                             IF s = {} THEN WarehouseField
                             ELSE IntersectFieldPaths(f[s \ {Pick(s)}], granted(Pick(s)))]
           x == CHOOSE f : f = equation(f)
<1>1. IsFiniteSet(D)
  BY FiniteScopes
<1>2. ASSUME NEW s \in D PROVE granted(s) \in V
  <2>1. s.contract \in Contract
    BY ScopeOrigin
  <2> QED BY <2>1, FieldFacts
<1>3. WarehouseField \in V
  BY FieldFacts
<1>4. \A v, w \in V : IntersectFieldPaths(v, w) \in V
  BY IntersectedBelow
<1> HIDE DEF D, V, granted
<1>5. each \in [D -> [V -> V]]
  BY <1>2, <1>4
<1>6. PICK f : f \in Folds(D, V, WarehouseField, each)
  <2> HIDE DEF each
  <2> QED BY <1>1, <1>3, <1>5, FoldsExist
<1>7. \A s \in SUBSET D : s # {} => Pick(s) \in s /\ s \ {Pick(s)} \in SUBSET D
  BY DEF Pick
<1>8. f = equation(f)
  <2>1. f \in [SUBSET D -> V]
    BY <1>6 DEF Folds
  <2>2. ASSUME NEW s \in SUBSET D
        PROVE  f[s] = IF s = {} THEN WarehouseField
                      ELSE IntersectFieldPaths(f[s \ {Pick(s)}], granted(Pick(s)))
    <3>1. f[s] = IF s = {} THEN WarehouseField ELSE each[Pick(s)][f[s \ {Pick(s)}]]
      BY <1>6 DEF Folds
    <3>2. s # {} => Pick(s) \in D /\ f[s \ {Pick(s)}] \in V
      BY <1>7, <2>1
    <3>3. s # {} => each[Pick(s)][f[s \ {Pick(s)}]]
                      = IntersectFieldPaths(f[s \ {Pick(s)}], granted(Pick(s)))
      BY <3>2
    <3> HIDE DEF each
    <3> QED BY <3>1, <3>3
  <2> HIDE DEF each
  <2> QED BY <2>1, <2>2
<1> HIDE DEF equation
<1>9. x = equation(x)
  BY <1>8
<1>10. D # {} => AllowedFieldsForScopes(D) = x[D]
  BY DEF AllowedFieldsForScopes, FoldSet, MapThenFoldSet, equation, Pick, granted
<1> HIDE DEF x
<1>11. /\ x[{}] = WarehouseField
       /\ \A s \in SUBSET D : s # {} =>
            x[s] = IntersectFieldPaths(x[s \ {Pick(s)}], granted(Pick(s)))
  BY <1>9 DEF equation
<1> DEFINE T == {s \in SUBSET D :
                   /\ x[s] \in V
                   /\ \A c \in s : \A f1 \in x[s] : \E g \in granted(c) : IsPrefix(g, f1)}
<1>12. {} \in T
  BY <1>3, <1>11
<1>13. ASSUME NEW s \in SUBSET D, s # {}, s \ {Pick(s)} \in T PROVE s \in T
  <2> DEFINE current == x[s \ {Pick(s)}]
             last == granted(Pick(s))
  <2>1. /\ x[s] = IntersectFieldPaths(current, last)
        /\ current \in V /\ last \in V
    BY <1>2, <1>7, <1>11, <1>13
  <2>2. \A c \in s \ {Pick(s)} : \A f1 \in current : \E g \in granted(c) : IsPrefix(g, f1)
    BY <1>13
  <2> HIDE DEF current, last, T
  <2>3. /\ x[s] \in V
        /\ \A f1 \in x[s] :
              (\E g \in current : IsPrefix(g, f1)) /\ (\E g \in last : IsPrefix(g, f1))
    BY <2>1, IntersectedBelow DEF V
  <2>4. ASSUME NEW c \in s, NEW f1 \in x[s] PROVE \E g \in granted(c) : IsPrefix(g, f1)
    <3>1. CASE c = Pick(s)
      BY <2>3, <3>1 DEF last
    <3>2. CASE c # Pick(s)
      <4>1. PICK e \in current : IsPrefix(e, f1)
        BY <2>3
      <4>2. PICK g \in granted(c) : IsPrefix(g, e)
        BY <2>2, <3>2, <4>1
      <4>3. f1 \in FieldPath /\ e \in FieldPath /\ g \in FieldPath
        BY <1>2, <2>1, <2>3, <4>1, <4>2 DEF V
      <4>4. IsPrefix(g, f1)
        BY <4>1, <4>2, <4>3, PrefixFacts
      <4> QED BY <4>4
    <3> QED BY <3>1, <3>2
  <2> QED BY <2>3, <2>4 DEF T
<1> HIDE DEF T
<1>14. D \in T
  BY <1>1, <1>12, <1>13, FoldInduction
<1> QED BY <1>10, <1>14 DEF T, D, V, granted

\* Every row of a dashboard is granted, every column released and not hidden.
LEMMA DashboardsGranted ==
  ASSUME StoreFinite, policy \in Policy
  PROVE  RowsAreGranted
<1> SUFFICES ASSUME NEW p \in Principal, NEW purpose \in Purpose
             PROVE  LET shown == Dashboard(p, purpose)
                    IN  /\ \A row \in shown.rows : RowGranted(p, purpose, row)
                        /\ \A s \in WarehouseScopesFor(p, purpose), f \in shown.fields :
                             f \in ReleasedFields(s.contract) /\ f \notin s.contract.denyFields
  BY DEF RowsAreGranted
<1> DEFINE shown == Dashboard(p, purpose)
           scopes == WarehouseScopesFor(p, purpose)
<1>1. ASSUME NEW row \in shown.rows PROVE RowGranted(p, purpose, row)
  <2>1. PICK s \in scopes : row \in WarehouseRow /\ InScope(s.scope, row)
    BY DEF Dashboard, Selected
  <2> QED BY <2>1, ScopedRowGranted
<1>2. ASSUME NEW s \in scopes, NEW f \in shown.fields
      PROVE  f \in ReleasedFields(s.contract) /\ f \notin s.contract.denyFields
  <2>1. /\ f \in AllowedFieldsForScopes(scopes) /\ f \in WarehouseField
        /\ ~ \E d \in DeniedFields(scopes) : IsPrefix(d, f)
    BY DEF Dashboard, Projection
  <2>2. f \in FieldPath /\ Len(f) = 1 /\ IsPrefix(f, f)
    BY <2>1, FieldFacts, PrefixFacts
  <2>3. PICK g \in ReleasedFields(s.contract) : IsPrefix(g, f)
    BY <2>1, AllowedByAll
  <2>4. s.contract \in Contract
    BY ScopeOrigin
  <2>5. g \in FieldPath
    BY <2>3, <2>4, FieldFacts
  <2>6. g = f
    BY <2>2, <2>3, <2>5, PrefixFacts
  <2>7. f \notin s.contract.denyFields
    BY <2>1, <2>2 DEF DeniedFields
  <2> QED BY <2>3, <2>6, <2>7
<1> QED BY <1>1, <1>2

-----------------------------------------------------------------------------
(***************************************************************************)
(* Pages.                                                                  *)
(***************************************************************************)

Numbered(R) == IsFiniteSet(R) /\ \A r \in R : r.id \in Nat \ {0}

Before(R, r) == {x \in R : x.id < r.id}

LEMMA BelowIsCounted ==
  ASSUME NEW R, Numbered(R), NEW r \in R
  PROVE  Cardinality(Before(R, r)) \in Nat /\ IsFiniteSet(Before(R, r))
<1>1. Before(R, r) \in SUBSET R /\ IsFiniteSet(R)
  BY DEF Before, Numbered
<1>2. IsFiniteSet(Before(R, r))
  BY <1>1, FS_Subset
<1> QED BY <1>2, FS_CardinalityType

\* The last of finitely many rows exists.
LEMMA LastOfFacts ==
  ASSUME NEW R, Numbered(R), R # {}
  PROVE  LastOf(R) \in {r.id : r \in R} /\ \A r \in R : r.id <= LastOf(R)
<1> DEFINE f == [r \in R |-> r.id]
           ids == {f[r] : r \in R}
<1>1. IsFiniteSet(R) /\ \A r \in R : r.id \in Nat
  BY DEF Numbered
<1>2. ids = {r.id : r \in R} /\ ids # {} /\ ids \subseteq Nat
  BY <1>1
<1> HIDE DEF f
<1>3. IsFiniteSet(ids)
  BY <1>1, FiniteImage
<1> HIDE DEF ids
<1>4. \E n \in ids : \A m \in ids : m <= n
  BY <1>2, <1>3, GreatestElement
<1>5. \E id \in {r.id : r \in R} : \A r \in R : r.id <= id
  BY <1>2, <1>4
<1> QED BY <1>5 DEF LastOf

\* The first rows: with one of them all before it; as many as were asked for
\* unless there are no more.
LEMMA FirstFacts ==
  ASSUME NEW R, Numbered(R), NEW n \in Nat
  PROVE  /\ First(R, n) \subseteq R
         /\ \A s \in First(R, n) : \A r \in R : r.id <= s.id => r \in First(R, n)
         /\ n > 0 /\ R # {} => First(R, n) # {}
         /\ First(R, n) # R => Cardinality(First(R, n)) >= n
<1> DEFINE F == First(R, n)
<1>1. /\ F \subseteq R /\ IsFiniteSet(R)
      /\ \A r \in R : r \in F <=> Cardinality(Before(R, r)) < n
      /\ \A r \in R : r.id \in Nat
  BY DEF First, Before, Numbered
<1> HIDE DEF F
<1>2. ASSUME NEW s \in F, NEW r \in R, r.id <= s.id PROVE r \in F
  <2>1. s \in R /\ Cardinality(Before(R, s)) < n
    BY <1>1
  <2>2. Before(R, r) \in SUBSET Before(R, s)
    BY <1>1, <1>2, <2>1 DEF Before
  <2>3. /\ IsFiniteSet(Before(R, s)) /\ Cardinality(Before(R, s)) \in Nat
        /\ Cardinality(Before(R, r)) \in Nat
    BY <2>1, BelowIsCounted
  <2>4. Cardinality(Before(R, r)) <= Cardinality(Before(R, s))
    BY <2>2, <2>3, FS_Subset
  <2>5. Cardinality(Before(R, r)) < n
    BY <2>1, <2>3, <2>4
  <2> QED BY <1>1, <2>5
<1>3. \A s \in SUBSET R : s # {} => \E r \in s : \A x \in s : r.id <= x.id
  <2> SUFFICES ASSUME NEW s \in SUBSET R, s # {} PROVE \E r \in s : \A x \in s : r.id <= x.id
    OBVIOUS
  <2> DEFINE ids == {r.id : r \in s}
  <2>1. ids \subseteq Nat /\ ids # {}
    BY <1>1
  <2> HIDE DEF ids
  <2>2. PICK id \in ids : \A other \in ids : id <= other
    BY <2>1, LeastElement
  <2> QED BY <2>2 DEF ids
<1>4. ASSUME n > 0, R # {} PROVE F # {}
  <2>1. PICK r \in R : \A x \in R : r.id <= x.id
    BY <1>3, <1>4
  <2>2. Before(R, r) = {}
    BY <1>1, <2>1 DEF Before
  <2>3. Cardinality(Before(R, r)) = 0
    BY <2>2, FS_EmptySet
  <2> QED BY <1>1, <1>4, <2>3
<1>5. ASSUME F # R PROVE Cardinality(F) >= n
  <2>1. PICK r \in R \ F : \A x \in R \ F : r.id <= x.id
    BY <1>1, <1>3, <1>5
  <2>2. Before(R, r) \in SUBSET F
    BY <1>1, <2>1 DEF Before
  <2>3. IsFiniteSet(F)
    BY <1>1, FS_Subset
  <2>4. Cardinality(F) \in Nat /\ Cardinality(Before(R, r)) \in Nat
    BY <2>3, BelowIsCounted, FS_CardinalityType
  <2>5. Cardinality(Before(R, r)) <= Cardinality(F)
    BY <2>2, <2>3, FS_Subset
  <2>6. ~ Cardinality(Before(R, r)) < n
    BY <1>1
  <2> QED BY <2>4, <2>5, <2>6
<1> QED BY <1>1, <1>2, <1>4, <1>5 DEF F

\* The rows after a cursor.
After(rows, cursor) == {r \in rows : r.id > cursor}

\* A page shows the rows up to its own cursor, the last page all that are left.
LEMMA PageFacts ==
  ASSUME NEW rows, Numbered(rows), NEW cursor \in Nat, NEW limit \in Nat \ {0}
  PROVE  LET page == Page(rows, cursor, limit)
             rest == After(rows, cursor)
         IN  \/ page.next = 0 /\ page.records = rest
             \/ /\ page.next # 0 /\ page.next \in {r.id : r \in rest}
                /\ page.records = {r \in rest : r.id <= page.next}
<1> DEFINE rest == After(rows, cursor)
           read == First(rest, limit + 1)
           shown == First(read, limit)
           page == Page(rows, cursor, limit)
           hasMore == Cardinality(read) > limit
<1>1. page = [records |-> IF hasMore THEN shown ELSE read, next |-> IF hasMore THEN LastOf(shown) ELSE 0]
  BY DEF Page, After
<1>2. Numbered(rest)
  <2>1. rest \in SUBSET rows
    BY DEF After
  <2> HIDE DEF rest
  <2>2. IsFiniteSet(rest)
    BY <2>1, FS_Subset DEF Numbered
  <2> QED BY <2>1, <2>2 DEF Numbered
<1> HIDE DEF rest
<1>3. limit + 1 \in Nat
  OBVIOUS
<1>4. /\ read \subseteq rest
      /\ \A s \in read : \A r \in rest : r.id <= s.id => r \in read
      /\ read # rest => Cardinality(read) >= limit + 1
  BY <1>2, <1>3, FirstFacts
<1> HIDE DEF read
<1>5. Numbered(read)
  <2>1. IsFiniteSet(read)
    BY <1>2, <1>4, FS_Subset DEF Numbered
  <2> QED BY <1>2, <1>4, <2>1 DEF Numbered
<1>6. Cardinality(read) \in Nat
  BY <1>5, FS_CardinalityType DEF Numbered
<1>7. CASE ~ hasMore
  <2>1. read = rest
    BY <1>4, <1>6, <1>7
  <2> QED BY <1>1, <1>7, <2>1 DEF rest
<1>8. CASE hasMore
  <2>1. read # {}
    BY <1>6, <1>8, FS_EmptySet
  <2>2. limit \in Nat /\ limit > 0
    OBVIOUS
  <2>3. /\ shown \subseteq read /\ shown # {}
        /\ \A s \in shown : \A r \in read : r.id <= s.id => r \in shown
    BY <1>5, <2>1, <2>2, FirstFacts
  <2> HIDE DEF shown
  <2>4. Numbered(shown)
    <3>1. IsFiniteSet(shown)
      BY <1>5, <2>3, FS_Subset DEF Numbered
    <3> QED BY <1>5, <2>3, <3>1 DEF Numbered
  <2>5. PICK last \in shown : LastOf(shown) = last.id /\ \A r \in shown : r.id <= last.id
    BY <2>3, <2>4, LastOfFacts
  <2>6. shown = {r \in rest : r.id <= last.id}
    BY <1>4, <2>3, <2>5
  <2>7. last \in rest /\ last.id # 0
    BY <1>4, <2>3, <2>4 DEF Numbered
  <2>8. page.next = last.id /\ page.records = shown
    BY <1>1, <1>8, <2>5
  <2> HIDE DEF page
  <2> QED BY <2>6, <2>7, <2>8 DEF page, rest
<1> QED BY <1>7, <1>8

\* Pages that show each of the rows once.
EachOnce(pages, rows) ==
  /\ UNION {pages[i] : i \in DOMAIN pages} = rows
  /\ \A i, j \in DOMAIN pages : i # j => pages[i] \cap pages[j] = {}

LEMMA OnePage ==
  ASSUME NEW V, NEW rows \in V
  PROVE  EachOnce(<<rows>>, rows) /\ <<rows>> \in Seq(V)
<1>1. DOMAIN <<rows>> = {1} /\ <<rows>>[1] = rows
  OBVIOUS
<1>2. <<rows>> \in Seq(V)
  OBVIOUS
<1> QED BY <1>1, <1>2 DEF EachOnce

LEMMA OneMorePage ==
  ASSUME NEW V, NEW page \in V, NEW pages \in Seq(V), NEW rows, EachOnce(pages, rows),
         page \cap rows = {}
  PROVE  EachOnce(<<page>> \o pages, page \cup rows) /\ <<page>> \o pages \in Seq(V)
<1> DEFINE N == Len(pages)
           all == <<page>> \o pages
<1>1. N \in Nat /\ DOMAIN pages = 1 .. N
  OBVIOUS
<1>2. all \in Seq(V)
  OBVIOUS
<1>3. Len(all) = N + 1 /\ DOMAIN all = 1 .. N + 1
  OBVIOUS
<1>4. all[1] = page
  OBVIOUS
<1>5. \A i \in 1 .. N : all[i + 1] = pages[i]
  OBVIOUS
<1> HIDE DEF N, all
<1>6. \A i \in 1 .. N + 1 : i = 1 \/ (i - 1 \in 1 .. N /\ all[i] = pages[i - 1])
  <2> SUFFICES ASSUME NEW i \in 1 .. N + 1, i # 1 PROVE i - 1 \in 1 .. N /\ all[i] = pages[i - 1]
    OBVIOUS
  <2>1. i - 1 \in 1 .. N /\ (i - 1) + 1 = i
    BY <1>1
  <2> QED BY <1>5, <2>1
<1>7. \A i \in 1 .. N : i + 1 \in 1 .. N + 1 /\ 1 \in 1 .. N + 1
  BY <1>1
<1>8. 1 \in 1 .. N + 1
  BY <1>1
<1>9. UNION {all[i] : i \in DOMAIN all} = page \cup rows
  <2>1. ASSUME NEW i \in DOMAIN all, NEW x \in all[i] PROVE x \in page \cup rows
    BY <1>1, <1>3, <1>4, <1>6, <2>1 DEF EachOnce
  <2>2. ASSUME NEW x \in rows PROVE \E i \in DOMAIN all : x \in all[i]
    <3>1. PICK i \in DOMAIN pages : x \in pages[i]
      BY DEF EachOnce
    <3>2. i + 1 \in DOMAIN all /\ all[i + 1] = pages[i]
      BY <1>1, <1>3, <1>5, <1>7
    <3> QED BY <3>1, <3>2
  <2>3. \A x \in page : \E i \in DOMAIN all : x \in all[i]
    BY <1>3, <1>4, <1>8
  <2> QED BY <2>1, <2>2, <2>3
<1>10. ASSUME NEW i \in DOMAIN all, NEW j \in DOMAIN all, i # j PROVE all[i] \cap all[j] = {}
  <2>1. \A k \in 1 .. N : pages[k] \subseteq rows
    BY <1>1 DEF EachOnce
  <2>2. CASE i = 1
    BY <1>3, <1>4, <1>6, <1>10, <2>1, <2>2
  <2>3. CASE j = 1
    BY <1>3, <1>4, <1>6, <1>10, <2>1, <2>3
  <2>4. CASE i # 1 /\ j # 1
    <3>1. i - 1 \in 1 .. N /\ j - 1 \in 1 .. N /\ all[i] = pages[i - 1] /\ all[j] = pages[j - 1]
      BY <1>3, <1>6, <2>4
    <3>2. i - 1 # j - 1
      BY <1>1, <1>3, <1>10
    <3> QED BY <1>1, <3>1, <3>2 DEF EachOnce
  <2> QED BY <2>2, <2>3, <2>4
<1>11. EachOnce(all, page \cup rows)
  BY <1>9, <1>10 DEF EachOnce
<1> QED BY <1>2, <1>11 DEF all

\* Following the cursors shows every row once.
LEMMA WalkFacts ==
  ASSUME NEW rows, Numbered(rows), NEW limit \in Nat \ {0}
  PROVE  EachOnce(Walk(rows, limit), rows)
<1> DEFINE S == {0} \cup {r.id : r \in rows}
           V == Seq(SUBSET rows)
           page(c) == Page(rows, c, limit)
           rank == [c \in S |-> Cardinality(After(rows, c))]
           value(c, f) == IF page(c).next = 0 THEN <<page(c).records>>
                          ELSE <<page(c).records>> \o f[page(c).next]
           step == [c \in S |-> [f \in [S -> V] |-> value(c, f)]]
           equation(f) == [c \in S |-> value(c, f)]
           x == CHOOSE f : f = equation(f)
<1>1. \A c \in S : c \in Nat
  BY DEF Numbered
<1>2. ASSUME NEW c \in S
      PROVE  IsFiniteSet(After(rows, c)) /\ rank[c] \in Nat /\ page(c).records \in SUBSET rows
  <2>1. After(rows, c) \in SUBSET rows /\ IsFiniteSet(rows)
    BY DEF After, Numbered
  <2>2. IsFiniteSet(After(rows, c))
    BY <2>1, FS_Subset
  <2>3. Cardinality(After(rows, c)) \in Nat
    BY <2>2, FS_CardinalityType
  <2>4. page(c).records \in SUBSET rows
    <3>1. c \in Nat
      BY <1>1
    <3> HIDE DEF S
    <3> QED BY <2>1, <3>1, PageFacts
  <2> QED BY <2>2, <2>3, <2>4
<1>3. ASSUME NEW c \in S, page(c).next # 0
      PROVE  /\ page(c).next \in S /\ rank[page(c).next] < rank[c]
             /\ After(rows, c) = page(c).records \cup After(rows, page(c).next)
             /\ page(c).records \cap After(rows, page(c).next) = {}
  <2> DEFINE n == page(c).next
  <2>0. c \in Nat
    BY <1>1
  <2>1. n \in {r.id : r \in After(rows, c)} /\ page(c).records = {r \in After(rows, c) : r.id <= n}
    <3> HIDE DEF S
    <3> QED BY <1>3, <2>0, PageFacts
  <2>2. PICK last \in rows : last.id > c /\ n = last.id
    BY <2>1 DEF After
  <2>3. n \in S
    BY <2>2
  <2> HIDE DEF n
  <2>4. \A r \in rows : r.id \in Nat
    BY DEF Numbered
  <2>5. n \in Nat
    BY <2>2, <2>4
  <2>6. After(rows, n) \in SUBSET After(rows, c) /\ last \in After(rows, c) /\ last \notin After(rows, n)
    BY <2>0, <2>2, <2>4, <2>5 DEF After
  <2>7. IsFiniteSet(After(rows, c)) /\ rank[c] \in Nat /\ rank[n] \in Nat
    BY <1>2, <2>3
  <2>8. rank[n] = Cardinality(After(rows, n)) /\ rank[c] = Cardinality(After(rows, c))
    BY <2>3
  <2>9. Cardinality(After(rows, n)) <= Cardinality(After(rows, c))
        /\ Cardinality(After(rows, n)) # Cardinality(After(rows, c))
    BY <2>6, <2>7, FS_Subset
  <2>10. rank[n] < rank[c]
    <3> HIDE DEF rank
    <3> QED BY <2>7, <2>8, <2>9
  <2>11. /\ After(rows, c) = page(c).records \cup After(rows, n)
         /\ page(c).records \cap After(rows, n) = {}
    <3>1. \A r \in rows : r.id <= n <=> ~ r.id > n
      BY <2>4, <2>5
    <3>2. \A r \in rows : r.id > n => r.id > c
      BY <2>0, <2>2, <2>4, <2>5
    <3>3. \A r : r \in page(c).records <=> r \in rows /\ r.id > c /\ r.id <= n
      BY <2>1 DEF After
    <3> HIDE DEF page
    <3> QED BY <3>1, <3>2, <3>3 DEF After
  <2> QED BY <2>3, <2>10, <2>11 DEF n
<1>4. ASSUME NEW c \in S, page(c).next = 0 PROVE page(c).records = After(rows, c)
  <2>1. c \in Nat
    BY <1>1
  <2> HIDE DEF S
  <2> QED BY <1>4, <2>1, PageFacts
<1>5. 0 \in S
  OBVIOUS
<1> HIDE DEF S, page, rank
<1>6. ASSUME NEW c \in S, NEW f \in [S -> V] PROVE value(c, f) \in V
  <2> DEFINE records == page(c).records
             next == page(c).next
             U == SUBSET rows
  <2>1. records \in U /\ (next # 0 => f[next] \in Seq(U))
    BY <1>2, <1>3
  <2>2. value(c, f) = IF next = 0 THEN <<records>> ELSE <<records>> \o f[next]
    OBVIOUS
  <2> HIDE DEF records, next, U, value
  <2>3. <<records>> \in Seq(U)
    BY <2>1
  <2>4. next # 0 => <<records>> \o f[next] \in Seq(U)
    BY <2>1, <2>3
  <2> QED BY <2>2, <2>3, <2>4 DEF U
<1>7. ASSUME NEW c \in S, NEW f \in [S -> V], NEW g \in [S -> V],
             \A d \in S : rank[d] < rank[c] => f[d] = g[d]
      PROVE  value(c, f) = value(c, g)
  BY <1>3, <1>7
<1>8. V # {} /\ rank \in [S -> Nat]
  <2>1. << >> \in V
    OBVIOUS
  <2>2. rank \in [S -> Nat]
    BY <1>2 DEF rank
  <2> QED BY <2>1, <2>2
<1> HIDE DEF V, value
<1>9. WellFounded(S, V, rank, step)
  BY <1>6, <1>7, <1>8 DEF WellFounded
<1> HIDE DEF step
<1>10. PICK f : f \in Solutions(S, V, step)
  BY <1>9, Recursion
<1>11. f \in [S -> V] /\ \A c \in S : f[c] = value(c, f)
  BY <1>10 DEF Solutions, step
<1>12. f = equation(f)
  BY <1>11
<1> HIDE DEF equation
<1>13. x = equation(x)
  BY <1>12
<1>14. Walk(rows, limit) = x[0]
  BY DEF Walk, equation, value, page, S
<1> HIDE DEF x
<1>15. \A c \in S : x[c] = value(c, x)
  BY <1>13 DEF equation
<1> DEFINE T == {n \in Nat : \A c \in S : rank[c] = n => x[c] \in V /\ EachOnce(x[c], After(rows, c))}
<1>16. ASSUME NEW n \in Nat, \A m \in Nat : m < n => m \in T PROVE n \in T
  <2> SUFFICES ASSUME NEW c \in S, rank[c] = n PROVE x[c] \in V /\ EachOnce(x[c], After(rows, c))
    OBVIOUS
  <2> DEFINE records == page(c).records
             next == page(c).next
  <2>1. records \in SUBSET rows
    BY <1>2
  <2>2. CASE next = 0
    <3>1. x[c] = <<records>> /\ records = After(rows, c)
      BY <1>4, <1>15, <2>2 DEF value
    <3> HIDE DEF records
    <3> QED BY <2>1, <3>1, OnePage DEF V
  <2>3. CASE next # 0
    <3>1. next \in S /\ rank[next] < n
      BY <1>3, <2>3
    <3>2. rank[next] \in Nat
      BY <1>2, <3>1
    <3>3. x[next] \in V /\ EachOnce(x[next], After(rows, next))
      BY <1>16, <3>1, <3>2
    <3>4. x[c] = <<records>> \o x[next]
      BY <1>15, <2>3 DEF value
    <3>5. After(rows, c) = records \cup After(rows, next) /\ records \cap After(rows, next) = {}
      BY <1>3, <2>3
    <3> DEFINE U == SUBSET rows
               tail == x[next]
               rest == After(rows, next)
    <3>6. records \in U /\ tail \in Seq(U) /\ EachOnce(tail, rest) /\ records \cap rest = {}
      BY <2>1, <3>3, <3>5 DEF V
    <3> HIDE DEF records, next, U, tail, rest
    <3>7. EachOnce(<<records>> \o tail, records \cup rest) /\ <<records>> \o tail \in Seq(U)
      BY <3>6, OneMorePage
    <3> QED BY <3>4, <3>5, <3>7 DEF U, V, tail, rest
  <2> QED BY <2>2, <2>3
<1> HIDE DEF T
<1>17. Nat \subseteq T
  BY <1>16, StrongInductiveSet
<1>18. EachOnce(x[0], After(rows, 0))
  BY <1>2, <1>5, <1>17 DEF T
<1>19. After(rows, 0) = rows
  BY DEF After, Numbered
<1> QED BY <1>14, <1>18, <1>19

LEMMA PagesShowEachRowOnce == PagesAreComplete
<1> SUFFICES ASSUME NEW p \in Principal, NEW purpose \in Purpose, NEW limit \in 1 .. 2
             PROVE  LET rows  == Dashboard(p, purpose).rows
                        pages == Walk(rows, limit)
                    IN  /\ UNION {pages[i] : i \in DOMAIN pages} = rows
                        /\ \A i, j \in DOMAIN pages : i # j => pages[i] \cap pages[j] = {}
  BY DEF PagesAreComplete
<1> DEFINE rows == Dashboard(p, purpose).rows
<1>1. rows \in SUBSET WarehouseRow
  BY DEF Dashboard, Selected
<1> HIDE DEF rows
<1>2. IsFiniteSet(rows)
  BY <1>1, WarehouseAssumption, FS_Subset
<1>3. Numbered(rows)
  BY <1>1, <1>2, WarehouseAssumption DEF Numbered
<1>4. limit \in Nat \ {0}
  OBVIOUS
<1>5. EachOnce(Walk(rows, limit), rows)
  BY <1>3, <1>4, WalkFacts
<1> QED BY <1>5 DEF EachOnce, rows

-----------------------------------------------------------------------------
(***************************************************************************)
(* Previews.                                                               *)
(***************************************************************************)

LEMMA CeilingFacts ==
  ASSUME TypeOK, policy \in Policy, NEW p, NEW purpose, NEW s \in WarehouseScopesFor(p, purpose)
  PROVE  s.scope.ceiling \in Nat /\ s.scope.values["product"] # {}
<1>1. PICK m \in LiveMemberships(p), k \in Contract : MadeFrom(s, m, k, purpose)
  BY ScopeOrigin
<1> DEFINE predicate == policy.predicate[k]
           attrs == Attrs(m.capsule)
           max == ClassificationMax(m.persona, k)
<1>2. PICK r \in PredicateToScopes(predicate, attrs) :
        "product" \in DOMAIN r /\ s.scope = Filled(r, max)
  BY <1>1 DEF MadeFrom
<1>3. predicate \in Predicate
  BY <1>1 DEF MadeFrom
<1>4. max \in Nat
  <2>1. m.persona \in Persona
    BY DEF LiveMemberships, MembershipsOf, TypeOK, Membership
  <2>2. \A x \in Persona : x.ceiling \in Ceiling
    BY ObjectAssumption DEF Persona, CapabilityPersona
  <2>3. k.ceiling \in Ceiling
    BY ImportAssumption DEF ImportAssumption
  <2>4. m.persona.ceiling \in Ceiling
    BY <2>1, <2>2
  <2> QED BY <2>3, <2>4 DEF ClassificationMax, Ceiling
<1> HIDE DEF predicate, attrs, max
<1>5. r \in Restriction(ValuesOf(attrs))
  BY <1>2, <1>3, ScopesUnfold DEF Restrictions
<1>6. r["product"] # {} /\ "product" \in Dimension
  BY <1>2, <1>5, RestrictionShape DEF Dimension
<1>7. s.scope.values["product"] = r["product"] /\ s.scope.ceiling = max
  BY <1>2, <1>6 DEF Filled
<1> QED BY <1>4, <1>6, <1>7

\* What is in the common part of two scopes is in the second.
LEMMA CommonScope ==
  ASSUME NEW requested, NEW allowed, requested.ceiling \in Nat, allowed.ceiling \in Nat,
         allowed.values["product"] # {},
         NEW row \in WarehouseRow, NEW t \in IntersectScope(requested, allowed), InScope(t, row)
  PROVE  InScope(allowed, row)
<1>1. /\ \A d \in Dimension : IntersectValues(requested.values[d], allowed.values[d]) # {}
      /\ t.values = [d \in Dimension |->
                       CHOOSE v \in IntersectValues(requested.values[d], allowed.values[d]) : TRUE]
      /\ t.ceiling = IF requested.ceiling <= allowed.ceiling
                     THEN requested.ceiling ELSE allowed.ceiling
  <2>1. ~ \E d \in Dimension : IntersectValues(requested.values[d], allowed.values[d]) = {}
    BY DEF IntersectScope
  <2>2. t = [values  |-> [d \in Dimension |->
                            CHOOSE v \in IntersectValues(requested.values[d], allowed.values[d]) : TRUE],
             ceiling |-> IF requested.ceiling <= allowed.ceiling
                         THEN requested.ceiling ELSE allowed.ceiling]
    BY <2>1 DEF IntersectScope
  <2> QED BY <2>1, <2>2
<1>2. row.level \in Nat /\ row.level <= t.ceiling
  BY WarehouseAssumption DEF InScope
<1>3. row.level <= allowed.ceiling
  <2> DEFINE mine == requested.ceiling
             theirs == allowed.ceiling
             level == row.level
  <2>1. level \in Nat /\ mine \in Nat /\ theirs \in Nat
    BY <1>2
  <2>2. level <= IF mine <= theirs THEN mine ELSE theirs
    BY <1>1, <1>2
  <2> HIDE DEF mine, theirs, level
  <2>3. level <= theirs
    BY <2>1, <2>2
  <2> QED BY <2>3 DEF level, theirs
<1>4. ASSUME NEW d \in Dimension, allowed.values[d] # {} PROVE Value(row, d) \in allowed.values[d]
  <2>1. t.values[d] \in IntersectValues(requested.values[d], allowed.values[d])
    BY <1>1
  <2>2. t.values[d] \subseteq allowed.values[d] /\ t.values[d] # {}
    BY <1>4, <2>1 DEF IntersectValues
  <2> QED BY <2>2 DEF InScope
<1> QED BY <1>3, <1>4 DEF InScope

\* Somebody who is no administrator sees no more than their dashboard.
LEMMA PreviewsShowNoMore ==
  ASSUME TypeOK, policy \in Policy, NEW p, NEW draft \in RoleDraft, ~ IsControlPlaneAdmin(p)
  PROVE  /\ PreviewRole(p, draft).rows \subseteq Dashboard(p, draft.purpose).rows
         /\ PreviewRole(p, draft).fields \subseteq Dashboard(p, draft.purpose).fields
<1> DEFINE scopes == WarehouseScopesFor(p, draft.purpose)
           allowed == AllowedFieldsForScopes(scopes)
           fewer == Projection(allowed, draft.denyFields \cup DeniedFields(scopes))
           fields == Projection(allowed, DeniedFields(scopes))
           drafted == ScopeFromDraft(draft)
<1>1. fewer \subseteq fields
  BY DEF Projection
<1>2. /\ PreviewRole(p, draft).fields = fewer
      /\ PreviewRole(p, draft).rows =
           IF fewer = {} THEN {} ELSE Selected(UNION {IntersectScope(drafted, s.scope) : s \in scopes})
  BY DEF PreviewRole, PreviewScopes
<1>3. /\ Dashboard(p, draft.purpose).fields = fields
      /\ Dashboard(p, draft.purpose).rows = IF fields = {} THEN {} ELSE Selected({s.scope : s \in scopes})
  BY DEF Dashboard
<1>4. ASSUME NEW row \in Selected(UNION {IntersectScope(drafted, s.scope) : s \in scopes})
      PROVE  row \in Selected({s.scope : s \in scopes})
  <2>1. PICK s \in scopes : \E t \in IntersectScope(drafted, s.scope) : InScope(t, row)
    BY DEF Selected
  <2>2. row \in WarehouseRow
    BY DEF Selected
  <2>3. drafted.ceiling \in Nat
    BY DraftAssumption DEF ScopeFromDraft, Ceiling
  <2>4. s.scope.ceiling \in Nat /\ s.scope.values["product"] # {}
    BY CeilingFacts
  <2> HIDE DEF drafted
  <2>5. InScope(s.scope, row)
    BY <2>1, <2>2, <2>3, <2>4, CommonScope
  <2> QED BY <2>2, <2>5 DEF Selected
<1> HIDE DEF scopes, allowed, fewer, fields, drafted
<1> QED BY <1>1, <1>2, <1>3, <1>4

\* The restriction of a draft to some of its dimensions.
DraftRestriction(draft, dims) == [d \in dims |-> draft.scope[d]]

\* The dimensions that the clauses of a draft's predicate restrict.
Restricted(clauses) == {c.field[1] : c \in clauses}

Restricting(draft) == {d \in Dimension : draft.scope[d] # {}}

\* The predicate of a draft restricts the dimensions it names values for.
LEMMA DraftClauses ==
  ASSUME NEW draft \in RoleDraft
  PROVE  LET p == DraftToPredicate(draft)
         IN  /\ p \in Predicate /\ p.op = "and" /\ IsFiniteSet(p.clauses)
             /\ Restricted(p.clauses) = Restricting(draft)
             /\ \A c \in p.clauses :
                  PredicateToScopes(c, DraftAttrs(draft)) = {DraftRestriction(draft, {c.field[1]})}
<1> DEFINE p == DraftToPredicate(draft)
           attrs == DraftAttrs(draft)
           first == [op |-> "in", field |-> <<"product">>, values |-> draft.scope["product"]]
           other(d) == [op |-> "fromCapsuleAttr", field |-> <<d>>, attr |-> d]
           others == {x \in Dimension \ {"product"} : draft.scope[x] # {}}
<1>1. /\ p \in Predicate /\ DOMAIN draft.scope = Dimension /\ draft.scope["product"] # {}
      /\ \A d \in Dimension : draft.scope[d] \cap NoString = {}
  BY DraftAssumption
<1>2. p.op = "and" /\ p.clauses = {first} \cup {other(d) : d \in others}
  BY DEF DraftToPredicate
<1>3. IsFiniteSet(p.clauses) /\ \A c \in p.clauses : c \in Predicate
  BY <1>1, <1>2, Clauses
<1>4. "product" \in Dimension
  BY DEF Dimension
<1> HIDE DEF p
<1>5. ASSUME NEW c \in p.clauses
      PROVE  \E d \in Restricting(draft) :
               /\ c.op \notin {"true", "and", "or"} /\ c.field = <<d>>
               /\ Admitted(c, attrs) = draft.scope[d]
  <2>1. CASE c = first
    <3>1. c.op = "in" /\ c.field = <<"product">> /\ c.values = draft.scope["product"]
      BY <2>1
    <3>2. Admitted(c, attrs) = draft.scope["product"]
      BY <3>1 DEF Admitted
    <3> QED BY <1>1, <1>4, <3>1, <3>2 DEF Restricting
  <2>2. ASSUME NEW d \in others, c = other(d)
        PROVE  \E x \in Restricting(draft) :
                 /\ c.op \notin {"true", "and", "or"} /\ c.field = <<x>>
                 /\ Admitted(c, attrs) = draft.scope[x]
    <3>1. c.op = "fromCapsuleAttr" /\ c.field = <<d>> /\ c.attr = d
      BY <2>2
    <3>2. Admitted(c, attrs) = AttrValues(attrs, d)
      BY <3>1 DEF Admitted
    <3>3. AttrValues(attrs, d) = draft.scope[d]
      BY <1>1 DEF AttrValues, DraftAttrs
    <3>4. d \in Restricting(draft)
      BY DEF Restricting
    <3> QED BY <3>1, <3>2, <3>3, <3>4
  <2> QED BY <1>2, <2>1, <2>2
<1>6. Restricted(p.clauses) = Restricting(draft)
  <2>1. \A c \in p.clauses : c.field[1] \in Restricting(draft)
    BY <1>5
  <2>2. ASSUME NEW d \in Restricting(draft) PROVE \E c \in p.clauses : c.field[1] = d
    <3>1. CASE d = "product"
      <4>1. first \in p.clauses /\ first.field[1] = d
        BY <1>2, <3>1
      <4> QED BY <4>1
    <3>2. CASE d # "product"
      <4>1. other(d) \in p.clauses /\ other(d).field[1] = d
        BY <1>2, <3>2 DEF Restricting
      <4> QED BY <4>1
    <3> QED BY <3>1, <3>2
  <2> QED BY <2>1, <2>2 DEF Restricted
<1>7. ASSUME NEW c \in p.clauses
      PROVE  PredicateToScopes(c, attrs) = {DraftRestriction(draft, {c.field[1]})}
  <2>1. PICK d \in Restricting(draft) :
               /\ c.op \notin {"true", "and", "or"} /\ c.field = <<d>>
               /\ Admitted(c, attrs) = draft.scope[d]
    BY <1>5
  <2> DEFINE value == [x \in Predicate |-> PredicateToScopes(x, attrs)]
  <2>2. PredicateToScopes(c, attrs) = ScopesBy(c, value, attrs)
    BY <1>3, ScopesUnfold
  <2>3. PredicateToScopes(c, attrs) = DimensionScope(<<d>>, draft.scope[d])
    BY <2>1, <2>2 DEF ScopesBy
  <2>4. d \in Dimension /\ draft.scope[d] # {} /\ draft.scope[d] \cap NoString = {}
    BY <1>1 DEF Restricting
  <2>5. Len(<<d>>) = 1 /\ <<d>>[1] = d
    OBVIOUS
  <2> QED BY <2>1, <2>3, <2>4, <2>5 DEF DimensionScope, DraftRestriction
<1> QED BY <1>1, <1>2, <1>3, <1>6, <1>7 DEF p

\* All clauses together restrict to what the draft says.
LEMMA DraftScopes ==
  ASSUME NEW draft \in RoleDraft
  PROVE  PredicateToScopes(DraftToPredicate(draft), DraftAttrs(draft))
           = {DraftRestriction(draft, Restricting(draft))}
<1> DEFINE p == DraftToPredicate(draft)
           attrs == DraftAttrs(draft)
           D == p.clauses
           W == ValuesOf(attrs)
           value == [c \in Predicate |-> PredicateToScopes(c, attrs)]
           lists == [c \in D |-> value[c]]
           only(s) == {DraftRestriction(draft, Restricted(s))}
<1>1. /\ p \in Predicate /\ p.op = "and" /\ IsFiniteSet(D)
      /\ Restricted(D) = Restricting(draft)
      /\ \A c \in D : PredicateToScopes(c, attrs) = {DraftRestriction(draft, {c.field[1]})}
  BY DraftClauses
<1>2. \A c \in D : c \in Predicate
  BY <1>1, Clauses
<1>3. PredicateToScopes(p, attrs) = ScopesBy(p, value, attrs)
  BY <1>1, ScopesUnfold
<1>4. PredicateToScopes(p, attrs) = CombineAll(lists)
  BY <1>1, <1>3 DEF ScopesBy
<1>5. lists \in [D -> Restrictions(W)]
  BY <1>2, ScopesUnfold
<1>6. \A c \in D : lists[c] = {DraftRestriction(draft, {c.field[1]})}
  BY <1>1, <1>2
<1> HIDE DEF p, attrs, D, W, lists
<1>7. PICK x : CombinesBy(x, D, lists) /\ CombineAll(lists) = x[D]
  BY <1>1, <1>5, CombineAllRounds
<1> DEFINE T == {s \in SUBSET D : x[s] = only(s)}
<1>8. {} \in T
  <2>1. x[{}] = {<< >>}
    BY <1>7 DEF CombinesBy
  <2>2. Restricted({}) = {}
    BY DEF Restricted
  <2>3. DraftRestriction(draft, {}) = << >>
    BY DEF DraftRestriction
  <2> QED BY <2>1, <2>2, <2>3
<1>9. ASSUME NEW s \in SUBSET D, s # {}, s \ {Pick(s)} \in T PROVE s \in T
  <2> DEFINE c == Pick(s)
             one == {c.field[1]}
             many == Restricted(s \ {c})
             l == DraftRestriction(draft, many)
             r == DraftRestriction(draft, one)
  <2>1. c \in s
    BY <1>9 DEF Pick
  <2>2. x[s] = Combine(lists[c], x[s \ {c}])
    BY <1>7, <1>9 DEF CombinesBy
  <2>3. lists[c] = {r} /\ x[s \ {c}] = {l}
    BY <1>6, <1>9, <2>1
  <2>4. Restricted(s) = many \cup one
    BY <2>1 DEF Restricted
  <2>5. Restricted(s) \subseteq Restricting(draft)
    BY <1>1 DEF Restricted
  <2> HIDE DEF T, c, one, many
  <2>6. \A d \in many \cup one : draft.scope[d] # {}
    BY <2>4, <2>5 DEF Restricting
  <2>7. DOMAIN l = many /\ DOMAIN r = one /\ \A d \in many : l[d] = draft.scope[d]
    BY DEF DraftRestriction
  <2>8. \A d \in one : r[d] = draft.scope[d]
    BY DEF DraftRestriction
  <2>9. Merged(l, r) = DraftRestriction(draft, many \cup one)
    BY <2>7, <2>8 DEF Merged, DraftRestriction
  <2> HIDE DEF l, r
  <2>10. MergeDimensions(l, r) = {Merged(l, r)}
    BY <2>6, <2>7, <2>8 DEF MergeDimensions
  <2>11. Combine({r}, {l}) = MergeDimensions(l, r)
    BY DEF Combine
  <2> QED BY <2>2, <2>3, <2>4, <2>9, <2>10, <2>11 DEF T
<1> HIDE DEF T
<1>10. D \in T
  BY <1>1, <1>8, <1>9, FoldInduction
<1>11. x[D] = only(D)
  BY <1>10 DEF T
<1> QED BY <1>1, <1>4, <1>7, <1>11 DEF p, attrs

\* An administrator is shown the rows that the role will read.
LEMMA PreviewsShowTheRole ==
  ASSUME NEW p, NEW draft \in RoleDraft, IsControlPlaneAdmin(p), PreviewRole(p, draft).fields # {}
  PROVE  PreviewRole(p, draft).rows = RoleRows(draft)
<1> DEFINE drafted == ScopeFromDraft(draft)
           r == DraftRestriction(draft, Restricting(draft))
           filled == Filled(r, draft.ceiling)
<1>1. PreviewRole(p, draft).rows = Selected({drafted})
  BY DEF PreviewRole, PreviewScopes
<1>2. RoleRows(draft) = Selected({filled})
  BY DraftScopes DEF RoleRows
<1>3. \A d \in Dimension : filled.values[d] = drafted.values[d]
  BY DEF Filled, DraftRestriction, Restricting, ScopeFromDraft
<1>4. filled.ceiling = drafted.ceiling
  BY DEF Filled, ScopeFromDraft
<1>5. "product" \in Dimension
  BY DEF Dimension
<1> HIDE DEF filled, drafted
<1>6. \A row : InScope(filled, row) <=> InScope(drafted, row)
  BY <1>3, <1>4, <1>5 DEF InScope
<1> QED BY <1>1, <1>2, <1>6 DEF Selected

\* In every state: a dashboard shows a row only if a contract bound to one of
\* the reader's seats holds for it under both ceilings, and a column only if all
\* these contracts release it and none hides it; its pages show every row once;
\* a preview shows an administrator the rows the role will read and anybody else
\* no more than their dashboard (lifecycle.ts: warehouseScopesFor; warehouse.ts:
\* page; app.ts: previewRole).
THEOREM WarehouseAlwaysTruthful == DecisionSpec => []WarehouseReadsAreTruthful
<1>1. StoreFinite /\ TypeOK /\ policy \in Policy => WarehouseReadsAreTruthful
  <2> SUFFICES ASSUME StoreFinite, TypeOK, policy \in Policy PROVE WarehouseReadsAreTruthful
    OBVIOUS
  <2>1. PreviewsAreTruthful
    BY PreviewsShowNoMore, PreviewsShowTheRole DEF PreviewsAreTruthful
  <2> QED BY <2>1, DashboardsGranted, PagesShowEachRowOnce DEF WarehouseReadsAreTruthful
<1> QED BY <1>1, DecisionsUseStore, TypeCorrect, AlwaysFinite, PolicyIsImported, PTL

-----------------------------------------------------------------------------
(***************************************************************************)
(* Record trees: what the recursive functions over them say, one level at  *)
(* a time, and what a projection shows.                                    *)
(***************************************************************************)

\* The values, and the trees one level above those of S.
Values == [leaf : Scalar]

Above(S) == [leaf : Scalar] \cup [array : Seq(S)] \cup [object : [Name -> S \cup {Missing}]]

Level(n, f) == IF n = 0 THEN Values ELSE Above(f[n - 1])

\* The levels are no set that one could name before they are made; each is made
\* from the one below.
LEMMA TreesUnfold ==
  Trees[0] = Values /\ \A n \in Nat : Trees[n + 1] = Above(Trees[n])
<1> DEFINE equation(f) == [n \in Nat |-> Level(n, f)]
           Upto(n, f) == \A k \in Nat : k <= n => f[k] = Level(k, f)
           T == {n \in Nat : \E f : Upto(n, f)}
           x == CHOOSE f : f = equation(f)
<1>1. 0 \in T
  <2> DEFINE f == [n \in Nat |-> Values]
  <2>0. f[0] = Values
    OBVIOUS
  <2> HIDE DEF f
  <2>1. \A k \in Nat : k <= 0 => f[k] = Level(k, f)
    BY <2>0 DEF Level
  <2> QED BY <2>1
<1>2. ASSUME NEW n \in Nat, n \in T PROVE n + 1 \in T
  <2>1. PICK f : Upto(n, f)
    BY <1>2
  <2> DEFINE g == [k \in Nat |-> Level(k, f)]
  <2>2. ASSUME NEW k \in Nat, k <= n PROVE g[k] = f[k]
    BY <2>1, <2>2
  <2>3. ASSUME NEW k \in Nat, k <= n + 1 PROVE g[k] = Level(k, g)
    <3>1. g[k] = Level(k, f)
      OBVIOUS
    <3> HIDE DEF g
    <3>2. k # 0 => k - 1 \in Nat /\ g[k - 1] = f[k - 1]
      BY <2>2, <2>3
    <3> QED BY <3>1, <3>2 DEF Level
  <2> HIDE DEF g
  <2> QED BY <2>3
<1> HIDE DEF T
<1>3. \A n \in Nat : \E f : Upto(n, f)
  BY <1>1, <1>2, InductiveSet DEF T
<1>4. ASSUME NEW m \in Nat, NEW n \in Nat, NEW f, NEW g, Upto(m, f), Upto(n, g)
      PROVE  \A k \in Nat : k <= m /\ k <= n => f[k] = g[k]
  <2> DEFINE U == {k \in Nat : k <= m /\ k <= n => f[k] = g[k]}
  <2>1. 0 \in U
    BY <1>4 DEF Level
  <2>2. ASSUME NEW k \in Nat, k \in U PROVE k + 1 \in U
    <3>1. SUFFICES ASSUME k + 1 <= m, k + 1 <= n PROVE f[k + 1] = g[k + 1]
      OBVIOUS
    <3>2. f[k] = g[k] /\ k + 1 \in Nat /\ k + 1 # 0 /\ k + 1 - 1 = k
      BY <2>2, <3>1
    <3>3. f[k + 1] = Level(k + 1, f) /\ g[k + 1] = Level(k + 1, g)
      BY <1>4, <3>1
    <3> QED BY <3>2, <3>3 DEF Level
  <2> HIDE DEF U
  <2>3. Nat \subseteq U
    BY <2>1, <2>2, InductiveSet
  <2> QED BY <2>3 DEF U
<1> DEFINE At(n) == CHOOSE f : Upto(n, f)
           h == [n \in Nat |-> At(n)[n]]
<1>5. ASSUME NEW n \in Nat PROVE Upto(n, At(n))
  <2> HIDE DEF Upto
  <2> QED BY <1>3
<1> HIDE DEF At
<1>6. ASSUME NEW n \in Nat PROVE h[n] = Level(n, h)
  <2>1. h[n] = Level(n, At(n))
    BY <1>5
  <2>2. n # 0 => n - 1 \in Nat /\ h[n - 1] = At(n)[n - 1]
    <3>1. SUFFICES ASSUME n # 0 PROVE n - 1 \in Nat /\ h[n - 1] = At(n)[n - 1]
      OBVIOUS
    <3>2. n - 1 \in Nat /\ n - 1 <= n - 1 /\ n - 1 <= n
      BY <3>1
    <3>3. h[n - 1] = At(n - 1)[n - 1]
      BY <3>2
    <3>4. Upto(n - 1, At(n - 1)) /\ Upto(n, At(n))
      BY <1>5, <3>2
    <3> HIDE DEF Upto, h
    <3>5. At(n - 1)[n - 1] = At(n)[n - 1]
      BY <1>4, <3>2, <3>4
    <3> QED BY <3>2, <3>3, <3>5
  <2> HIDE DEF h
  <2> QED BY <2>1, <2>2 DEF Level
<1>7. h = equation(h)
  <2>1. h = [n \in Nat |-> h[n]]
    OBVIOUS
  <2> HIDE DEF h
  <2> QED BY <1>6, <2>1
<1> HIDE DEF equation, h
<1>8. x = equation(x)
  BY <1>7
<1>9. Trees = x
  BY DEF Trees, equation, Level, Values, Above
<1> HIDE DEF x
<1>10. \A n \in Nat : Trees[n] = Level(n, Trees)
  BY <1>8, <1>9 DEF equation
<1>11. ASSUME NEW n \in Nat PROVE Trees[n + 1] = Above(Trees[n])
  <2>1. n + 1 \in Nat /\ n + 1 # 0 /\ n + 1 - 1 = n
    OBVIOUS
  <2> QED BY <1>10, <2>1 DEF Level
<1> QED BY <1>10, <1>11 DEF Level

LEMMA TreeShape ==
  ASSUME NEW S, NEW t \in Above(S)
  PROVE  \/ t \in Values
         \/ /\ IsArray(t) /\ ~ IsLeaf(t) /\ ~ IsObject(t)
            /\ t = [array |-> t.array] /\ t.array \in Seq(S)
         \/ /\ IsObject(t) /\ ~ IsLeaf(t) /\ ~ IsArray(t)
            /\ t = [object |-> t.object] /\ t.object \in [Name -> S \cup {Missing}]
<1>1. CASE t \in [leaf : Scalar]
  BY <1>1 DEF Values
<1>2. CASE t \in [array : Seq(S)]
  BY <1>2 DEF IsArray, IsLeaf, IsObject
<1>3. CASE t \in [object : [Name -> S \cup {Missing}]]
  BY <1>3 DEF IsArray, IsLeaf, IsObject
<1> QED BY <1>1, <1>2, <1>3 DEF Above

LEMMA ValueShape == \A t \in Values : IsLeaf(t) /\ ~ IsArray(t) /\ ~ IsObject(t)
BY DEF Values, IsLeaf, IsArray, IsObject

LEMMA AboveFacts ==
  ASSUME NEW S, NEW U, S \subseteq U
  PROVE  Above(S) \subseteq Above(U) /\ Values \subseteq Above(S)
<1>1. [array : Seq(S)] \subseteq [array : Seq(U)]
  <2>1. \A a \in Seq(S) : a \in Seq(U)
    OBVIOUS
  <2> QED BY <2>1
<1>2. [object : [Name -> S \cup {Missing}]] \subseteq [object : [Name -> U \cup {Missing}]]
  <2>1. \A f \in [Name -> S \cup {Missing}] : f \in [Name -> U \cup {Missing}]
    OBVIOUS
  <2> QED BY <2>1
<1> QED BY <1>1, <1>2 DEF Above, Values

LEMMA TreesGrow == \A m, n \in Nat : m <= n => Trees[m] \subseteq Trees[n]
<1> DEFINE G == {n \in Nat : Trees[n] \subseteq Trees[n + 1]}
<1>1. 0 \in G
  BY TreesUnfold, AboveFacts
<1>2. ASSUME NEW n \in Nat, n \in G PROVE n + 1 \in G
  <2>1. Trees[n + 1] = Above(Trees[n]) /\ Trees[n + 1 + 1] = Above(Trees[n + 1])
    BY TreesUnfold
  <2>2. Above(Trees[n]) \subseteq Above(Trees[n + 1])
    BY <1>2, AboveFacts
  <2> QED BY <2>1, <2>2
<1> HIDE DEF G
<1>3. \A n \in Nat : Trees[n] \subseteq Trees[n + 1]
  BY <1>1, <1>2, InductiveSet DEF G
<1> SUFFICES ASSUME NEW m \in Nat PROVE \A n \in Nat : m <= n => Trees[m] \subseteq Trees[n]
  OBVIOUS
<1> DEFINE U == {n \in Nat : m <= n => Trees[m] \subseteq Trees[n]}
<1>4. 0 \in U
  OBVIOUS
<1>5. ASSUME NEW n \in Nat, n \in U PROVE n + 1 \in U
  <2>1. m <= n + 1 => m <= n \/ m = n + 1
    OBVIOUS
  <2> QED BY <1>3, <1>5, <2>1
<1> HIDE DEF U
<1>6. Nat \subseteq U
  BY <1>4, <1>5, InductiveSet
<1> QED BY <1>6 DEF U

\* How deep a record is nested.
Heights(t) == {n \in Nat : t \in Trees[n]}

Height(t) == CHOOSE n \in Heights(t) : \A m \in Heights(t) : n <= m

LEMMA HeightIsLeast ==
  ASSUME NEW n \in Nat, NEW t \in Trees[n]
  PROVE  Height(t) \in Nat /\ t \in Trees[Height(t)] /\ Height(t) <= n
<1>1. n \in Heights(t) /\ Heights(t) \subseteq Nat
  BY DEF Heights
<1>2. \E k \in Heights(t) : \A m \in Heights(t) : k <= m
  <2> HIDE DEF Heights
  <2> QED BY <1>1, LeastElement
<1>3. Height(t) \in Heights(t) /\ \A m \in Heights(t) : Height(t) <= m
  BY <1>2 DEF Height
<1> QED BY <1>1, <1>3 DEF Heights

\* What a tree is, and that what is in it is a tree and nested less deeply.
LEMMA TreeFacts ==
  ASSUME NEW t \in Tree
  PROVE  \/ IsLeaf(t) /\ ~ IsArray(t) /\ ~ IsObject(t)
         \/ /\ IsArray(t) /\ ~ IsLeaf(t) /\ ~ IsObject(t)
            /\ t = [array |-> t.array] /\ t.array \in Seq(Tree)
            /\ \A i \in DOMAIN t.array : Height(t.array[i]) < Height(t)
         \/ /\ IsObject(t) /\ ~ IsLeaf(t) /\ ~ IsArray(t)
            /\ t = [object |-> t.object] /\ t.object \in [Name -> Tree \cup {Missing}]
            /\ \A n \in Name : t.object[n] # Missing => Height(t.object[n]) < Height(t)
<1> DEFINE h == Height(t)
<1>1. h \in Nat /\ t \in Trees[h] /\ h <= MaxHeight /\ MaxHeight \in Nat
  BY HeightIsLeast, TreeAssumption DEF Tree
<1> HIDE DEF h
<1>2. CASE t \in Values
  BY <1>2, ValueShape
<1>3. CASE t \notin Values
  <2>1. h # 0
    BY <1>1, <1>3, TreesUnfold
  <2>2. h - 1 \in Nat /\ h - 1 + 1 = h /\ h - 1 <= MaxHeight /\ h - 1 < h
    BY <1>1, <2>1
  <2>3. t \in Above(Trees[h - 1]) /\ Trees[h - 1] \subseteq Tree
    BY <1>1, <2>2, TreesUnfold, TreesGrow DEF Tree
  <2>4. \A c \in Trees[h - 1] : c \in Tree /\ Height(c) < h
    BY <1>1, <2>2, <2>3, HeightIsLeast
  <2>5. CASE IsArray(t)
    <3>1. /\ ~ IsLeaf(t) /\ ~ IsObject(t)
          /\ t = [array |-> t.array] /\ t.array \in Seq(Trees[h - 1])
      BY <1>3, <2>3, <2>5, TreeShape
    <3>2. \A i \in DOMAIN t.array : t.array[i] \in Trees[h - 1]
      BY <3>1
    <3>3. t.array \in Seq(Tree)
      BY <2>3, <3>1
    <3> QED BY <2>4, <2>5, <3>1, <3>2, <3>3 DEF h
  <2>6. CASE ~ IsArray(t)
    <3>1. /\ IsObject(t) /\ ~ IsLeaf(t)
          /\ t = [object |-> t.object] /\ t.object \in [Name -> Trees[h - 1] \cup {Missing}]
      BY <1>3, <2>3, <2>6, TreeShape
    <3>2. \A n \in Name : t.object[n] # Missing => t.object[n] \in Trees[h - 1]
      BY <3>1
    <3>3. t.object \in [Name -> Tree \cup {Missing}]
      BY <2>3, <3>1
    <3> QED BY <2>4, <2>6, <3>1, <3>2, <3>3 DEF h
  <2> QED BY <2>5, <2>6
<1> QED BY <1>2, <1>3

\* What is present of a list was in it.
LEMMA PresentFacts ==
  ASSUME NEW A, NEW items \in Seq(A)
  PROVE  Present(items) \in Seq({items[i] : i \in DOMAIN items} \ {Missing})
<1> DEFINE N == Len(items)
           E == {items[i] : i \in DOMAIN items} \ {Missing}
           Q == Seq(E)
           e == << >>
           kept[n \in 0 .. N] ==
             IF n = 0 THEN << >>
             ELSE IF items[n] = Missing THEN kept[n - 1] ELSE Append(kept[n - 1], items[n])
           step == [n \in Nat |-> [s \in Q |->
                      IF n \in 1 .. N /\ items[n] # Missing THEN Append(s, items[n]) ELSE s]]
           rounds(f) == [n \in 0 .. N |->
             IF n = 0 THEN << >>
             ELSE IF items[n] = Missing THEN f[n - 1] ELSE Append(f[n - 1], items[n])]
<1>1. N \in Nat /\ \A n \in 1 .. N : items[n] # Missing => items[n] \in E
  OBVIOUS
<1> HIDE DEF E
<1>2. step \in [Nat -> [Q -> Q]] /\ e \in Q
  BY <1>1
<1>3. PICK f \in [0 .. N -> Q] : f[0] = << >> /\ \A n \in 1 .. N : f[n] = step[n][f[n - 1]]
  <2> HIDE DEF step, N, Q, e
  <2>2. Rounds(Q, e, step, N) # {}
    BY <1>1, <1>2, Iteration
  <2> QED BY <2>2 DEF Rounds, e
<1>4. ASSUME NEW n \in 1 .. N
      PROVE  f[n] = IF items[n] = Missing THEN f[n - 1] ELSE Append(f[n - 1], items[n])
  <2>1. f[n - 1] \in Q /\ n \in Nat
    BY <1>1
  <2>2. f[n] = step[n][f[n - 1]]
    BY <1>3
  <2> HIDE DEF N, Q
  <2> QED BY <2>1, <2>2
<1>5. f = rounds(f)
  <2>1. f[0] = << >>
    BY <1>3
  <2>2. \A n \in 0 .. N : n = 0 \/ n \in 1 .. N
    BY <1>1
  <2> HIDE DEF N
  <2>3. \A n \in 0 .. N : f[n] = rounds(f)[n]
    BY <1>4, <2>1, <2>2
  <2> QED BY <2>3
<1>6. kept = CHOOSE g : g = rounds(g)
  OBVIOUS
<1>7. kept = rounds(kept)
  <2> HIDE DEF rounds, kept
  <2> QED BY <1>5, <1>6
<1>8. Present(items) = kept[N]
  BY DEF Present
<1>9. /\ kept[0] = << >>
      /\ \A n \in 1 .. N :
           kept[n] = IF items[n] = Missing THEN kept[n - 1] ELSE Append(kept[n - 1], items[n])
  <2>1. 0 \in 0 .. N /\ \A n \in 1 .. N : n \in 0 .. N /\ n # 0
    BY <1>1
  <2> HIDE DEF N, kept
  <2> QED BY <1>7, <2>1
<1>10. kept[N] \in Q
  <2> HIDE DEF N, kept
  <2>1. ASSUME NEW n \in 1 .. N, kept[n - 1] \in Q PROVE kept[n] \in Q
    <3>1. items[n] # Missing => Append(kept[n - 1], items[n]) \in Q
      BY <1>1, <2>1
    <3> QED BY <1>9, <2>1, <3>1
  <2>2. kept[0] \in Q
    BY <1>2, <1>9
  <2> HIDE DEF Q
  <2>3. StaysIn(Q, N, kept)
    BY <2>1, <2>2 DEF StaysIn
  <2>4. \A n \in 0 .. N : kept[n] \in Q
    BY <1>1, <2>3, LoopInvariant
  <2> QED BY <1>1, <2>4
<1> QED BY <1>8, <1>10 DEF E

LEMMA HeightRank == [t \in Tree |-> Height(t)] \in [Tree -> Nat]
BY HeightIsLeast, TreeAssumption DEF Tree

LEMMA LongerPath ==
  ASSUME NEW n \in Name, NEW path \in Path
  PROVE  <<n>> \o path \in Path
<1>1. n \in STRING
  BY TreeAssumption
<1>2. \A S : \A y \in S : <<y>> \in Seq(S)
  OBVIOUS
<1>3. <<n>> \in Seq(STRING)
  BY <1>1, <1>2
<1> QED BY <1>3 DEF Path

\* One step of Leaves.
LeavesIn(t, f) ==
  IF IsLeaf(t) THEN {<< >>}
  ELSE IF IsArray(t) THEN UNION {f[t.array[i]] : i \in DOMAIN t.array}
  ELSE UNION {{<<n>> \o path : path \in f[t.object[n]]} : n \in {m \in Name : t.object[m] # Missing}}

LEMMA LeavesInFacts ==
  ASSUME NEW t \in Tree, NEW f, NEW path
  PROVE  /\ IsLeaf(t) => LeavesIn(t, f) = {<< >>}
         /\ IsArray(t) => (path \in LeavesIn(t, f) <=> \E i \in DOMAIN t.array : path \in f[t.array[i]])
         /\ IsObject(t) => (path \in LeavesIn(t, f) <=>
              \E n \in Name : /\ t.object[n] # Missing
                              /\ \E p \in f[t.object[n]] : path = <<n>> \o p)
<1>1. CASE IsLeaf(t)
  <2>1. LeavesIn(t, f) = {<< >>}
    BY <1>1 DEF LeavesIn
  <2> QED BY <1>1, <2>1, TreeFacts
<1>2. CASE IsArray(t)
  <2>1. ~ IsLeaf(t) /\ ~ IsObject(t)
    BY <1>2, TreeFacts
  <2>2. LeavesIn(t, f) = UNION {f[t.array[i]] : i \in DOMAIN t.array}
    BY <1>2, <2>1 DEF LeavesIn
  <2>3. path \in UNION {f[t.array[i]] : i \in DOMAIN t.array}
          <=> \E i \in DOMAIN t.array : path \in f[t.array[i]]
    OBVIOUS
  <2> QED BY <1>2, <2>1, <2>2, <2>3
<1>3. CASE IsObject(t)
  <2> DEFINE names == {m \in Name : t.object[m] # Missing}
             longer(n) == {<<n>> \o p : p \in f[t.object[n]]}
  <2>1. ~ IsLeaf(t) /\ ~ IsArray(t)
    BY <1>3, TreeFacts
  <2>2. LeavesIn(t, f) = UNION {longer(n) : n \in names}
    BY <1>3, <2>1 DEF LeavesIn
  <2>3. \A n : path \in longer(n) <=> \E p \in f[t.object[n]] : path = <<n>> \o p
    OBVIOUS
  <2>4. \A n : n \in names <=> n \in Name /\ t.object[n] # Missing
    OBVIOUS
  <2> HIDE DEF names, longer
  <2>5. path \in LeavesIn(t, f) <=> \E n \in names : path \in longer(n)
    BY <2>2
  <2> QED BY <1>3, <2>1, <2>3, <2>4, <2>5
<1> QED BY <1>1, <1>2, <1>3, TreeFacts

LEMMA LeavesUnfold ==
  LET leaves == [t \in Tree |-> Leaves(t)]
  IN  \A t \in Tree : Leaves(t) = LeavesIn(t, leaves)
<1> DEFINE V == SUBSET Path
           rank == [t \in Tree |-> Height(t)]
           step == [t \in Tree |-> [f \in [Tree -> V] |-> LeavesIn(t, f)]]
           equation(f) == [t \in Tree |-> LeavesIn(t, f)]
           x == CHOOSE f : f = equation(f)
<1>1. ASSUME NEW t \in Tree, NEW f \in [Tree -> V] PROVE LeavesIn(t, f) \in V
  <2> SUFFICES ASSUME NEW path \in LeavesIn(t, f) PROVE path \in Path
    OBVIOUS
  <2>1. CASE IsLeaf(t)
    <3>1. path = << >>
      BY <2>1, LeavesInFacts
    <3> QED BY <3>1 DEF Path
  <2>2. CASE IsArray(t)
    <3>1. \A i \in DOMAIN t.array : f[t.array[i]] \subseteq Path
      BY <2>2, TreeFacts
    <3> QED BY <2>2, <3>1, LeavesInFacts
  <2>3. CASE IsObject(t)
    <3>1. PICK n \in Name : t.object[n] # Missing /\ \E p \in f[t.object[n]] : path = <<n>> \o p
      BY <2>3, LeavesInFacts
    <3>2. f[t.object[n]] \subseteq Path
      BY <2>3, <3>1, TreeFacts
    <3> QED BY <3>1, <3>2, LongerPath
  <2> QED BY <2>1, <2>2, <2>3, TreeFacts
<1>2. ASSUME NEW t \in Tree, NEW f, NEW g,
             \A c \in Tree : rank[c] < rank[t] => f[c] = g[c]
      PROVE  LeavesIn(t, f) = LeavesIn(t, g)
  <2> SUFFICES ASSUME NEW path PROVE path \in LeavesIn(t, f) <=> path \in LeavesIn(t, g)
    OBVIOUS
  <2>1. CASE IsLeaf(t)
    BY <2>1, LeavesInFacts
  <2>2. CASE IsArray(t)
    <3>1. \A i \in DOMAIN t.array : f[t.array[i]] = g[t.array[i]]
      BY <1>2, <2>2, TreeFacts
    <3> QED BY <2>2, <3>1, LeavesInFacts
  <2>3. CASE IsObject(t)
    <3>1. \A n \in Name : t.object[n] # Missing => f[t.object[n]] = g[t.object[n]]
      BY <1>2, <2>3, TreeFacts
    <3>2. ASSUME NEW h
          PROVE  path \in LeavesIn(t, h) <=>
                   \E n \in Name : t.object[n] # Missing /\ \E p \in h[t.object[n]] : path = <<n>> \o p
      BY <2>3, LeavesInFacts
    <3>3. path \in LeavesIn(t, f) <=>
            \E n \in Name : t.object[n] # Missing /\ \E p \in f[t.object[n]] : path = <<n>> \o p
      BY <3>2
    <3>4. path \in LeavesIn(t, g) <=>
            \E n \in Name : t.object[n] # Missing /\ \E p \in g[t.object[n]] : path = <<n>> \o p
      BY <3>2
    <3> QED BY <3>1, <3>3, <3>4
  <2> QED BY <2>1, <2>2, <2>3, TreeFacts
<1>3. WellFounded(Tree, V, rank, step)
  <2> HIDE DEF V, rank
  <2>1. V # {} /\ rank \in [Tree -> Nat]
    BY HeightRank DEF V, rank
  <2>2. step \in [Tree -> [[Tree -> V] -> V]]
    BY <1>1
  <2>3. ASSUME NEW t \in Tree, NEW f \in [Tree -> V], NEW g \in [Tree -> V],
               \A c \in Tree : rank[c] < rank[t] => f[c] = g[c]
        PROVE  step[t][f] = step[t][g]
    BY <1>2, <2>3
  <2> HIDE DEF step
  <2> QED BY <2>1, <2>2, <2>3 DEF WellFounded
<1> HIDE DEF rank
<1>4. PICK f : f \in Solutions(Tree, V, step)
  <2> HIDE DEF step, V
  <2> QED BY <1>3, Recursion
<1>5. f \in [Tree -> V] /\ \A t \in Tree : f[t] = LeavesIn(t, f)
  BY <1>4 DEF Solutions
<1>6. f = equation(f)
  BY <1>5
<1> HIDE DEF equation
<1>7. x = equation(x)
  BY <1>6
<1>8. \A t : Leaves(t) = x[t]
  BY DEF Leaves, equation, LeavesIn
<1> HIDE DEF x
<1>9. x = [t \in Tree |-> Leaves(t)]
  <2>1. x = [t \in Tree |-> x[t]]
    BY <1>7 DEF equation
  <2> QED BY <1>8, <2>1
<1> QED BY <1>7, <1>8, <1>9 DEF equation

LEMMA LeavesFacts ==
  ASSUME NEW t \in Tree, NEW path
  PROVE  /\ IsLeaf(t) => Leaves(t) = {<< >>}
         /\ IsArray(t) => (path \in Leaves(t) <=> \E i \in DOMAIN t.array : path \in Leaves(t.array[i]))
         /\ IsObject(t) => (path \in Leaves(t) <=>
              \E n \in Name : /\ t.object[n] # Missing
                              /\ \E p \in Leaves(t.object[n]) : path = <<n>> \o p)
<1> DEFINE leaves == [c \in Tree |-> Leaves(c)]
<1>1. Leaves(t) = LeavesIn(t, leaves)
  BY LeavesUnfold
<1>2. \A c \in Tree : leaves[c] = Leaves(c)
  OBVIOUS
<1> HIDE DEF leaves
<1>3. CASE IsLeaf(t)
  BY <1>1, <1>3, LeavesInFacts, TreeFacts
<1>4. CASE IsArray(t)
  <2>1. \A i \in DOMAIN t.array : leaves[t.array[i]] = Leaves(t.array[i])
    BY <1>2, <1>4, TreeFacts
  <2> QED BY <1>1, <1>4, <2>1, LeavesInFacts, TreeFacts
<1>5. CASE IsObject(t)
  <2>1. \A n \in Name : t.object[n] # Missing => leaves[t.object[n]] = Leaves(t.object[n])
    BY <1>2, <1>5, TreeFacts
  <2>2. path \in LeavesIn(t, leaves) <=>
          \E n \in Name : t.object[n] # Missing /\ \E p \in leaves[t.object[n]] : path = <<n>> \o p
    BY <1>5, LeavesInFacts
  <2>3. ~ IsLeaf(t) /\ ~ IsArray(t)
    BY <1>5, TreeFacts
  <2> QED BY <1>1, <1>5, <2>1, <2>2, <2>3
<1> QED BY <1>3, <1>4, <1>5, TreeFacts

\* Lists and objects of what is nested less deeply are nested no deeper.
LEMMA Rebuilt ==
  ASSUME NEW t \in Tree, ~ IsLeaf(t)
  PROVE  \E S : /\ Missing \notin S
                /\ \A c \in Tree : Height(c) < Height(t) => Trees[Height(c)] \subseteq S
                /\ \A a \in Seq(S) : [array |-> a] \in Trees[Height(t)]
                /\ \A o \in [Name -> S \cup {Missing}] : [object |-> o] \in Trees[Height(t)]
<1> DEFINE h == Height(t)
           S == Trees[h - 1]
<1>1. h \in Nat /\ t \in Trees[h] /\ h <= MaxHeight /\ MaxHeight \in Nat
  BY HeightIsLeast, TreeAssumption DEF Tree
<1> HIDE DEF h
<1>2. h # 0
  BY <1>1, TreesUnfold, ValueShape
<1>3. h - 1 \in Nat /\ h - 1 + 1 = h /\ h - 1 <= MaxHeight
  BY <1>1, <1>2
<1>4. Trees[h] = Above(S) /\ Missing \notin S
  BY <1>1, <1>3, TreesUnfold, TreesGrow, TreeAssumption DEF Tree
<1>5. ASSUME NEW c \in Tree, Height(c) < h PROVE Trees[Height(c)] \subseteq S
  <2>1. Height(c) \in Nat
    BY HeightIsLeast, TreeAssumption DEF Tree
  <2>2. Height(c) <= h - 1
    BY <1>1, <1>5, <2>1
  <2> QED BY <1>3, <2>1, <2>2, TreesGrow
<1> HIDE DEF S
<1>6. \A a \in Seq(S) : [array |-> a] \in Above(S)
  BY DEF Above
<1>7. \A o \in [Name -> S \cup {Missing}] : [object |-> o] \in Above(S)
  BY DEF Above
<1> QED BY <1>4, <1>5, <1>6, <1>7 DEF h

LEMMA BelowPath ==
  ASSUME NEW n, NEW fs \in SUBSET Path
  PROVE  Below(n, fs) \in SUBSET Path
BY DEF Below, Path

\* One step of ProjectAllowed.
ProjectIn(t, fs, f) ==
  IF << >> \in fs THEN IF Plain(t) THEN t ELSE Missing
  ELSE IF IsLeaf(t) THEN Missing
  ELSE IF IsArray(t)
  THEN [array |-> Present([i \in DOMAIN t.array |-> f[t.array[i]][fs]])]
  ELSE [object |-> [n \in Name |->
                      IF t.object[n] = Missing \/ Below(n, fs) = {} THEN Missing
                      ELSE f[t.object[n]][Below(n, fs)]]]

\* A projection is nested no deeper than the record.
Projections(t) == [SUBSET Path -> Trees[Height(t)] \cup {Missing}]

LEMMA ProjectType ==
  ASSUME NEW t \in Tree, NEW fs \in SUBSET Path, NEW f,
         \A c \in Tree : Height(c) < Height(t) => f[c] \in Projections(c)
  PROVE  /\ ProjectIn(t, fs, f) \in Trees[Height(t)] \cup {Missing}
         /\ << >> \notin fs /\ IsObject(t) => ProjectIn(t, fs, f) \in Trees[Height(t)]
<1>1. t \in Trees[Height(t)]
  BY HeightIsLeast, TreeAssumption DEF Tree
<1>2. CASE << >> \in fs \/ IsLeaf(t)
  BY <1>1, <1>2, TreeFacts DEF ProjectIn
<1>3. CASE << >> \notin fs /\ IsArray(t)
  <2>1. ~ IsLeaf(t) /\ t.array \in Seq(Tree)
    BY <1>3, TreeFacts
  <2>2. PICK S :
          /\ Missing \notin S
          /\ \A c \in Tree : Height(c) < Height(t) => Trees[Height(c)] \subseteq S
          /\ \A a \in Seq(S) : [array |-> a] \in Trees[Height(t)]
    BY <2>1, Rebuilt
  <2> DEFINE items == [i \in DOMAIN t.array |-> f[t.array[i]][fs]]
  <2>3. ASSUME NEW i \in DOMAIN t.array PROVE items[i] \in S \cup {Missing}
    <3>1. t.array[i] \in Tree /\ Height(t.array[i]) < Height(t)
      BY <1>3, <2>1, TreeFacts
    <3>2. f[t.array[i]][fs] \in Trees[Height(t.array[i])] \cup {Missing}
      BY <3>1 DEF Projections
    <3> QED BY <2>2, <3>1, <3>2
  <2>4. items \in Seq(S \cup {Missing})
    <3>1. Len(t.array) \in Nat /\ DOMAIN t.array = 1 .. Len(t.array)
      BY <2>1
    <3>2. items \in [1 .. Len(t.array) -> S \cup {Missing}]
      BY <2>3, <3>1
    <3> HIDE DEF items
    <3> QED BY <3>1, <3>2
  <2> HIDE DEF items
  <2>5. Present(items) \in Seq({items[i] : i \in DOMAIN items} \ {Missing})
    BY <2>4, PresentFacts
  <2>6. {items[i] : i \in DOMAIN items} \ {Missing} \subseteq S
    BY <2>4
  <2>7. Present(items) \in Seq(S)
    BY <2>5, <2>6
  <2>8. ProjectIn(t, fs, f) = [array |-> Present(items)]
    BY <1>3, <2>1 DEF ProjectIn, items
  <2> QED BY <1>3, <2>2, <2>7, <2>8, TreeFacts
<1>4. CASE << >> \notin fs /\ IsObject(t)
  <2>1. ~ IsLeaf(t) /\ ~ IsArray(t) /\ t.object \in [Name -> Tree \cup {Missing}]
    BY <1>4, TreeFacts
  <2>2. PICK S :
          /\ \A c \in Tree : Height(c) < Height(t) => Trees[Height(c)] \subseteq S
          /\ \A o \in [Name -> S \cup {Missing}] : [object |-> o] \in Trees[Height(t)]
    BY <2>1, Rebuilt
  <2> DEFINE o == [n \in Name |->
                     IF t.object[n] = Missing \/ Below(n, fs) = {} THEN Missing
                     ELSE f[t.object[n]][Below(n, fs)]]
  <2>3. ASSUME NEW n \in Name PROVE o[n] \in S \cup {Missing}
    <3>1. CASE t.object[n] # Missing /\ Below(n, fs) # {}
      <4>1. t.object[n] \in Tree /\ Height(t.object[n]) < Height(t) /\ Below(n, fs) \in SUBSET Path
        BY <1>4, <2>1, <3>1, TreeFacts, BelowPath
      <4>2. f[t.object[n]][Below(n, fs)] \in Trees[Height(t.object[n])] \cup {Missing}
        BY <4>1 DEF Projections
      <4> QED BY <2>2, <3>1, <4>1, <4>2
    <3> QED BY <3>1
  <2>4. o \in [Name -> S \cup {Missing}]
    BY <2>3
  <2>5. ProjectIn(t, fs, f) = [object |-> o]
    BY <1>4, <2>1 DEF ProjectIn
  <2> HIDE DEF o
  <2> QED BY <2>2, <2>4, <2>5
<1> QED BY <1>2, <1>3, <1>4, TreeFacts

LEMMA ProjectSame ==
  ASSUME NEW t \in Tree, NEW fs, NEW f, NEW g,
         \A c \in Tree : Height(c) < Height(t) => f[c] = g[c]
  PROVE  ProjectIn(t, fs, f) = ProjectIn(t, fs, g)
<1>1. CASE << >> \in fs \/ IsLeaf(t)
  BY <1>1 DEF ProjectIn
<1>2. CASE << >> \notin fs /\ IsArray(t)
  <2>1. ~ IsLeaf(t) /\ \A i \in DOMAIN t.array : f[t.array[i]] = g[t.array[i]]
    BY <1>2, TreeFacts
  <2> DEFINE items(h) == [i \in DOMAIN t.array |-> h[t.array[i]][fs]]
  <2>2. items(f) = items(g)
    BY <2>1
  <2>3. \A h : ProjectIn(t, fs, h) = [array |-> Present(items(h))]
    BY <1>2, <2>1 DEF ProjectIn
  <2> HIDE DEF items
  <2> QED BY <2>2, <2>3
<1>3. CASE << >> \notin fs /\ IsObject(t)
  <2>1. /\ ~ IsLeaf(t) /\ ~ IsArray(t)
        /\ \A n \in Name : t.object[n] # Missing => f[t.object[n]] = g[t.object[n]]
    BY <1>3, TreeFacts
  <2> DEFINE kept(h) == [n \in Name |->
                           IF t.object[n] = Missing \/ Below(n, fs) = {} THEN Missing
                           ELSE h[t.object[n]][Below(n, fs)]]
  <2>2. kept(f) = kept(g)
    BY <2>1
  <2>3. \A h : ProjectIn(t, fs, h) = [object |-> kept(h)]
    BY <1>3, <2>1 DEF ProjectIn
  <2> HIDE DEF kept
  <2> QED BY <2>2, <2>3
<1> QED BY <1>1, <1>2, <1>3, TreeFacts

LEMMA ProjectUnfolds ==
  LET project == [t \in Tree |-> [fs \in SUBSET Path |-> ProjectAllowed(t, fs)]]
  IN  \A t \in Tree, fs \in SUBSET Path :
        /\ ProjectAllowed(t, fs) = ProjectIn(t, fs, project)
        /\ ProjectAllowed(t, fs) \in Trees[Height(t)] \cup {Missing}
<1> DEFINE V == [t \in Tree |-> Projections(t)]
           rank == [t \in Tree |-> Height(t)]
           all(t, f) == [fs \in SUBSET Path |-> ProjectIn(t, fs, f)]
           step == [t \in Tree |-> [f \in Typed(Tree, V) |-> all(t, f)]]
           equation(f) == [t \in Tree |-> all(t, f)]
           x == CHOOSE f : f = equation(f)
<1>1. ASSUME NEW t \in Tree, NEW f, \A c \in Tree : Height(c) < Height(t) => f[c] \in Projections(c)
      PROVE  all(t, f) \in Projections(t)
  BY <1>1, ProjectType DEF Projections
<1>2. ASSUME NEW t \in Tree, NEW f, NEW g, \A c \in Tree : Height(c) < Height(t) => f[c] = g[c]
      PROVE  all(t, f) = all(t, g)
  BY <1>2, ProjectSame
<1>3. \A t \in Tree : V[t] = Projections(t) /\ rank[t] = Height(t) /\ t \in Trees[Height(t)]
  BY HeightIsLeast, TreeAssumption DEF Tree
<1>4. rank \in [Tree -> Nat]
  BY HeightRank
<1>5. \A t \in Tree, f \in Typed(Tree, V) : step[t][f] = all(t, f)
  OBVIOUS
<1> HIDE DEF V, rank, step, all
<1>6. WellFoundedIn(Tree, V, rank, step)
  <2>1. \A t \in Tree : V[t] # {}
    <3> SUFFICES ASSUME NEW t \in Tree PROVE V[t] # {}
      OBVIOUS
    <3>1. [fs \in SUBSET Path |-> Missing] \in Projections(t)
      BY DEF Projections
    <3> QED BY <1>3, <3>1
  <2>2. ASSUME NEW t \in Tree, NEW f \in Typed(Tree, V) PROVE step[t][f] \in V[t]
    <3>1. \A c \in Tree : f[c] \in Projections(c)
      BY <1>3 DEF Typed
    <3> QED BY <1>1, <1>3, <1>5, <3>1
  <2>3. ASSUME NEW t \in Tree, NEW f \in Typed(Tree, V), NEW g \in Typed(Tree, V),
               \A c \in Tree : rank[c] < rank[t] => f[c] = g[c]
        PROVE  step[t][f] = step[t][g]
    <3>1. \A c \in Tree : Height(c) < Height(t) => f[c] = g[c]
      BY <1>3, <2>3
    <3> QED BY <1>2, <1>5, <3>1
  <2> QED BY <1>4, <2>1, <2>2, <2>3 DEF WellFoundedIn
<1>7. PICK f : f \in SolutionsIn(Tree, V, step)
  BY <1>6, TypedRecursion
<1>8. f = equation(f)
  <2>1. f = [t \in Tree |-> f[t]] /\ \A t \in Tree : f[t] = all(t, f)
    BY <1>5, <1>7 DEF SolutionsIn, Typed
  <2> QED BY <2>1
<1> HIDE DEF equation
<1>9. x = equation(x)
  BY <1>8
<1>10. \A t, fs : ProjectAllowed(t, fs) = x[t][fs]
  BY DEF ProjectAllowed, equation, all, ProjectIn
<1> HIDE DEF x
<1>11. \A t \in Tree : x[t] = all(t, x)
  BY <1>9 DEF equation
<1>12. \A t \in Tree : x[t] \in Projections(t)
  <2> DEFINE T == {n \in Nat : \A t \in Tree : Height(t) = n => x[t] \in Projections(t)}
  <2>1. ASSUME NEW n \in Nat, \A m \in Nat : m < n => m \in T PROVE n \in T
    <3> SUFFICES ASSUME NEW t \in Tree, Height(t) = n PROVE x[t] \in Projections(t)
      OBVIOUS
    <3>1. \A c \in Tree : Height(c) < Height(t) => x[c] \in Projections(c)
      BY <1>3, <1>4, <2>1
    <3> QED BY <1>1, <1>11, <3>1
  <2> HIDE DEF T
  <2>2. Nat \subseteq T
    BY <2>1, StrongInductiveSet
  <2> QED BY <1>3, <1>4, <2>2 DEF T
<1>13. x = [t \in Tree |-> [fs \in SUBSET Path |-> ProjectAllowed(t, fs)]]
  <2>1. x = [t \in Tree |-> x[t]]
    BY <1>9 DEF equation
  <2>2. \A t \in Tree : x[t] = [fs \in SUBSET Path |-> x[t][fs]]
    BY <1>12 DEF Projections
  <2>3. \A t \in Tree : x[t] = [fs \in SUBSET Path |-> ProjectAllowed(t, fs)]
    BY <1>10, <2>2
  <2> QED BY <2>1, <2>3
<1>14. ASSUME NEW t \in Tree, NEW fs \in SUBSET Path
       PROVE  /\ ProjectAllowed(t, fs) = ProjectIn(t, fs, x)
              /\ ProjectAllowed(t, fs) \in Trees[Height(t)] \cup {Missing}
  BY <1>10, <1>11, <1>12 DEF all, Projections
<1> QED BY <1>13, <1>14

\* A field leads into the value of a name when it starts with the name and its
\* rest leads on from there.
LEMMA PrefixStep ==
  ASSUME NEW n \in Name, NEW f \in Path, NEW path \in Path
  PROVE  IsPrefix(f, <<n>> \o path) <=> f = << >> \/ (Head(f) = n /\ IsPrefix(Tail(f), path))
<1> DEFINE longer == <<n>> \o path
<1>1. /\ longer \in Path /\ Len(path) \in Nat /\ Len(longer) = Len(path) + 1
      /\ longer[1] = n /\ \A i \in 1 .. Len(path) : longer[i + 1] = path[i]
  <2>1. longer \in Path
    BY LongerPath
  <2>2. Len(path) \in Nat /\ Len(longer) = Len(path) + 1 /\ longer[1] = n
    BY DEF Path
  <2>3. ASSUME NEW i \in 1 .. Len(path) PROVE longer[i + 1] = path[i]
    BY <2>2 DEF Path
  <2> QED BY <2>1, <2>2, <2>3
<1> HIDE DEF longer
<1>2. IsPrefix(f, longer) <=> Len(f) <= Len(longer) /\ \A i \in 1 .. Len(f) : f[i] = longer[i]
  BY <1>1, PrefixPointwise
<1>3. CASE f = << >>
  <2>1. Len(f) = 0
    BY <1>3
  <2> QED BY <1>1, <1>2, <1>3, <2>1 DEF longer
<1>4. CASE f # << >>
  <2> DEFINE rest == Tail(f)
  <2>1. /\ rest \in Path /\ Len(f) \in Nat \ {0} /\ Len(rest) = Len(f) - 1 /\ Head(f) = f[1]
        /\ \A i \in 1 .. Len(rest) : rest[i] = f[i + 1]
    BY <1>4 DEF Path
  <2> HIDE DEF rest
  <2>2. IsPrefix(rest, path) <=> Len(rest) <= Len(path) /\ \A i \in 1 .. Len(rest) : rest[i] = path[i]
    BY <2>1, PrefixPointwise
  <2>3. Len(f) <= Len(longer) <=> Len(rest) <= Len(path)
    BY <1>1, <2>1
  <2>4. ASSUME Len(rest) <= Len(path)
        PROVE  (\A i \in 1 .. Len(f) : f[i] = longer[i])
                 <=> Head(f) = n /\ \A i \in 1 .. Len(rest) : rest[i] = path[i]
    <3>1. ASSUME \A i \in 1 .. Len(f) : f[i] = longer[i]
          PROVE  Head(f) = n /\ \A i \in 1 .. Len(rest) : rest[i] = path[i]
      <4>1. 1 \in 1 .. Len(f)
        BY <2>1
      <4>2. ASSUME NEW i \in 1 .. Len(rest) PROVE rest[i] = path[i]
        <5>1. i + 1 \in 1 .. Len(f) /\ i \in 1 .. Len(path)
          BY <1>1, <2>1, <2>4
        <5> QED BY <1>1, <2>1, <3>1, <5>1
      <4> QED BY <1>1, <2>1, <3>1, <4>1, <4>2
    <3>2. ASSUME Head(f) = n, \A i \in 1 .. Len(rest) : rest[i] = path[i], NEW i \in 1 .. Len(f)
          PROVE  f[i] = longer[i]
      <4>1. CASE i = 1
        BY <1>1, <2>1, <3>2, <4>1
      <4>2. CASE i # 1
        <5>1. i - 1 \in 1 .. Len(rest) /\ i - 1 \in 1 .. Len(path) /\ i - 1 + 1 = i
          BY <1>1, <2>1, <2>4, <4>2
        <5>2. longer[i - 1 + 1] = path[i - 1] /\ rest[i - 1] = f[i - 1 + 1] /\ rest[i - 1] = path[i - 1]
          BY <1>1, <2>1, <3>2, <5>1
        <5> QED BY <5>1, <5>2
      <4> QED BY <4>1, <4>2
    <3> QED BY <3>1, <3>2
  <2> QED BY <1>2, <1>4, <2>2, <2>3, <2>4 DEF longer, rest
<1> QED BY <1>3, <1>4

LEMMA LeavesArePaths == \A t \in Tree : Leaves(t) \subseteq Path
<1> DEFINE T == {n \in Nat : \A t \in Tree : Height(t) = n => Leaves(t) \subseteq Path}
<1>1. ASSUME NEW n \in Nat, \A m \in Nat : m < n => m \in T PROVE n \in T
  <2> SUFFICES ASSUME NEW t \in Tree, Height(t) = n, NEW path \in Leaves(t) PROVE path \in Path
    OBVIOUS
  <2>1. \A c \in Tree : Height(c) < n => Leaves(c) \subseteq Path
    BY <1>1, HeightRank
  <2>2. CASE IsLeaf(t)
    <3>1. path = << >>
      BY <2>2, LeavesFacts
    <3> QED BY <3>1 DEF Path
  <2>3. CASE IsArray(t)
    <3>1. PICK i \in DOMAIN t.array : path \in Leaves(t.array[i])
      BY <2>3, LeavesFacts
    <3>2. t.array[i] \in Tree /\ Height(t.array[i]) < n
      BY <2>3, TreeFacts
    <3> QED BY <2>1, <3>1, <3>2
  <2>4. CASE IsObject(t)
    <3>1. PICK m \in Name : t.object[m] # Missing /\ \E p \in Leaves(t.object[m]) : path = <<m>> \o p
      BY <2>4, LeavesFacts
    <3>2. Leaves(t.object[m]) \subseteq Path
      BY <2>1, <2>4, <3>1, TreeFacts
    <3> QED BY <3>1, <3>2, LongerPath
  <2> QED BY <2>2, <2>3, <2>4, TreeFacts
<1> HIDE DEF T
<1>2. Nat \subseteq T
  BY <1>1, StrongInductiveSet
<1> QED BY <1>2, HeightRank DEF T

\* The kinds of trees that ProjectAllowed makes.
LEMMA ProjectFacts ==
  ASSUME NEW t \in Tree, NEW fs \in SUBSET Path, ProjectAllowed(t, fs) # Missing, << >> \notin fs
  PROVE  /\ ProjectAllowed(t, fs) \in Tree
         /\ \/ /\ IsArray(t) /\ IsArray(ProjectAllowed(t, fs))
               /\ \A i \in DOMAIN ProjectAllowed(t, fs).array : \E j \in DOMAIN t.array :
                    /\ ProjectAllowed(t, fs).array[i] = ProjectAllowed(t.array[j], fs)
                    /\ ProjectAllowed(t.array[j], fs) # Missing
            \/ /\ IsObject(t) /\ IsObject(ProjectAllowed(t, fs))
               /\ \A n \in Name : ProjectAllowed(t, fs).object[n] # Missing =>
                    /\ t.object[n] # Missing
                    /\ ProjectAllowed(t, fs).object[n] = ProjectAllowed(t.object[n], Below(n, fs))
<1> DEFINE project == [c \in Tree |-> [gs \in SUBSET Path |-> ProjectAllowed(c, gs)]]
           r == ProjectAllowed(t, fs)
<1>1. r = ProjectIn(t, fs, project) /\ r \in Trees[Height(t)] /\ r # Missing
  BY ProjectUnfolds
<1>2. r \in Tree
  BY <1>1, HeightIsLeast, TreesGrow, TreeAssumption DEF Tree
<1>3. \A c \in Tree, gs \in SUBSET Path : project[c][gs] = ProjectAllowed(c, gs)
  OBVIOUS
<1> HIDE DEF project, r
<1>4. ~ IsLeaf(t)
  BY <1>1 DEF ProjectIn
<1>5. CASE IsArray(t)
  <2> DEFINE items == [i \in DOMAIN t.array |-> project[t.array[i]][fs]]
  <2>1. r = [array |-> Present(items)]
    BY <1>1, <1>4, <1>5 DEF ProjectIn
  <2>2. t.array \in Seq(Tree) /\ \A j \in DOMAIN t.array : t.array[j] \in Tree
    BY <1>5, TreeFacts
  <2>3. \A j \in DOMAIN t.array : items[j] = ProjectAllowed(t.array[j], fs)
    BY <1>3, <2>2
  <2>4. DOMAIN items = DOMAIN t.array
    OBVIOUS
  <2>5. items \in Seq({items[j] : j \in DOMAIN items})
    <3>1. Len(t.array) \in Nat /\ DOMAIN t.array = 1 .. Len(t.array)
      BY <2>2
    <3>2. items \in [1 .. Len(t.array) -> {items[j] : j \in DOMAIN items}]
      BY <2>4, <3>1
    <3> HIDE DEF items
    <3> QED BY <3>1, <3>2
  <2> HIDE DEF items
  <2>6. Present(items) \in Seq({items[j] : j \in DOMAIN items} \ {Missing})
    BY <2>5, PresentFacts
  <2>7. \A i \in DOMAIN Present(items) : \E j \in DOMAIN t.array :
          Present(items)[i] = ProjectAllowed(t.array[j], fs) /\ ProjectAllowed(t.array[j], fs) # Missing
    BY <2>3, <2>4, <2>6
  <2>8. IsArray(r) /\ r.array = Present(items)
    BY <2>1 DEF IsArray
  <2> QED BY <1>2, <1>5, <2>7, <2>8 DEF r
<1>6. CASE IsObject(t)
  <2> DEFINE o == [n \in Name |->
                     IF t.object[n] = Missing \/ Below(n, fs) = {} THEN Missing
                     ELSE project[t.object[n]][Below(n, fs)]]
  <2>1. ~ IsArray(t) /\ \A n \in Name : t.object[n] # Missing => t.object[n] \in Tree
    BY <1>6, TreeFacts
  <2>2. r = [object |-> o]
    BY <1>1, <1>4, <2>1 DEF ProjectIn
  <2>3. ASSUME NEW n \in Name, o[n] # Missing
        PROVE  t.object[n] # Missing /\ o[n] = ProjectAllowed(t.object[n], Below(n, fs))
    BY <1>3, <2>1, <2>3, BelowPath
  <2> HIDE DEF o
  <2>4. IsObject(r) /\ r.object = o
    BY <2>2 DEF IsObject
  <2> QED BY <1>2, <1>6, <2>3, <2>4 DEF r
<1> QED BY <1>4, <1>5, <1>6, TreeFacts

\* Everything that is left was released by one of the fields.
LEMMA ProjectLeaves ==
  ASSUME NEW t \in Tree, NEW fs \in SUBSET Path, ProjectAllowed(t, fs) # Missing
  PROVE  /\ ProjectAllowed(t, fs) \in Tree
         /\ \A path \in Leaves(ProjectAllowed(t, fs)) : \E f \in fs : IsPrefix(f, path)
<1> DEFINE Released(c, gs) ==
             ProjectAllowed(c, gs) # Missing =>
               /\ ProjectAllowed(c, gs) \in Tree
               /\ \A path \in Leaves(ProjectAllowed(c, gs)) : \E f \in gs : IsPrefix(f, path)
           T == {n \in Nat : \A c \in Tree : Height(c) = n => \A gs \in SUBSET Path : Released(c, gs)}
<1>1. ASSUME NEW n \in Nat, \A m \in Nat : m < n => m \in T PROVE n \in T
  <2> SUFFICES ASSUME NEW c \in Tree, Height(c) = n, NEW gs \in SUBSET Path PROVE Released(c, gs)
    OBVIOUS
  <2>1. \A k \in Tree, hs \in SUBSET Path : Height(k) < n => Released(k, hs)
    BY <1>1, HeightRank
  <2> DEFINE r == ProjectAllowed(c, gs)
  <2>2. SUFFICES ASSUME r # Missing
                 PROVE  r \in Tree /\ \A path \in Leaves(r) : \E f \in gs : IsPrefix(f, path)
    OBVIOUS
  <2>3. r \in Tree
    BY <2>2, ProjectUnfolds, HeightIsLeast, TreesGrow, TreeAssumption DEF Tree
  <2> SUFFICES ASSUME NEW path \in Leaves(r) PROVE \E f \in gs : IsPrefix(f, path)
    BY <2>3
  <2>4. path \in Path
    BY <2>3, LeavesArePaths
  <2>5. CASE << >> \in gs
    <3>1. << >> \in Path
      BY DEF Path
    <3>2. Len(<< >>) = 0 /\ Len(path) \in Nat
      BY <2>4 DEF Path
    <3>3. IsPrefix(<< >>, path)
      BY <2>4, <3>1, <3>2, PrefixPointwise
    <3> QED BY <2>5, <3>3
  <2>6. CASE << >> \notin gs /\ IsArray(c)
    <3>1. /\ IsArray(r)
          /\ \A i \in DOMAIN r.array : \E j \in DOMAIN c.array :
               r.array[i] = ProjectAllowed(c.array[j], gs) /\ ProjectAllowed(c.array[j], gs) # Missing
      BY <2>2, <2>6, ProjectFacts, TreeFacts
    <3>2. PICK i \in DOMAIN r.array : path \in Leaves(r.array[i])
      BY <2>3, <3>1, LeavesFacts
    <3>3. PICK j \in DOMAIN c.array :
            r.array[i] = ProjectAllowed(c.array[j], gs) /\ ProjectAllowed(c.array[j], gs) # Missing
      BY <3>1, <3>2
    <3>4. c.array[j] \in Tree /\ Height(c.array[j]) < n
      BY <2>6, <3>3, TreeFacts
    <3> QED BY <2>1, <3>2, <3>3, <3>4
  <2>7. CASE << >> \notin gs /\ IsObject(c)
    <3>1. /\ IsObject(r)
          /\ \A m \in Name : r.object[m] # Missing =>
               /\ c.object[m] # Missing
               /\ r.object[m] = ProjectAllowed(c.object[m], Below(m, gs))
      BY <2>2, <2>7, ProjectFacts, TreeFacts
    <3>2. PICK m \in Name : r.object[m] # Missing /\ \E p \in Leaves(r.object[m]) : path = <<m>> \o p
      BY <2>3, <3>1, LeavesFacts
    <3>3. PICK p \in Leaves(r.object[m]) : path = <<m>> \o p
      BY <3>2
    <3>4. c.object[m] \in Tree /\ Height(c.object[m]) < n /\ Below(m, gs) \in SUBSET Path
      BY <2>7, <3>1, <3>2, TreeFacts, BelowPath
    <3>5. Released(c.object[m], Below(m, gs)) /\ r.object[m] = ProjectAllowed(c.object[m], Below(m, gs))
      BY <2>1, <3>1, <3>2, <3>4
    <3>6. r.object[m] \in Tree /\ \E g \in Below(m, gs) : IsPrefix(g, p)
      BY <3>2, <3>3, <3>5
    <3>7. PICK g \in Below(m, gs) : IsPrefix(g, p)
      BY <3>6
    <3>8. PICK f \in gs : f # << >> /\ Head(f) = m /\ g = Tail(f)
      BY DEF Below
    <3>9. p \in Path
      BY <3>3, <3>6, LeavesArePaths
    <3>10. IsPrefix(f, path)
      BY <3>3, <3>7, <3>8, <3>9, PrefixStep
    <3> QED BY <3>10
  <2>8. CASE << >> \notin gs /\ IsLeaf(c)
    BY <2>2, <2>8, ProjectFacts, TreeFacts
  <2> QED BY <2>5, <2>6, <2>7, <2>8, TreeFacts
<1> HIDE DEF T
<1>2. Nat \subseteq T
  BY <1>1, StrongInductiveSet
<1>3. Released(t, fs)
  BY <1>2, HeightRank DEF T
<1> QED BY <1>3

\* One step of DeletePath.
DeleteIn(t, f, g) ==
  IF IsLeaf(t) THEN t
  ELSE IF IsArray(t) THEN [array |-> [i \in DOMAIN t.array |-> g[t.array[i]][f]]]
  ELSE IF Len(f) = 1 THEN Replaced(t.object, Head(f), Missing)
  ELSE Replaced(t.object, Head(f), g[t.object[Head(f)]][Tail(f)])

\* What is left after a deletion is nested no deeper than what there was.
Deletions(t) == [FieldPath -> Trees[Height(t)]]

LEMMA FieldTail ==
  ASSUME NEW f \in FieldPath
  PROVE  /\ Len(f) \in Nat \ {0} /\ f # << >>
         /\ Len(f) # 1 => Tail(f) \in FieldPath
<1>1. f \in Seq(STRING) /\ f # << >>
  BY DEF FieldPath
<1>2. Len(f) \in Nat \ {0} /\ Tail(f) \in Seq(STRING) /\ Len(Tail(f)) = Len(f) - 1
  BY <1>1
<1>3. ASSUME Len(f) # 1 PROVE Tail(f) # << >>
  <2>1. Len(Tail(f)) # 0
    BY <1>2, <1>3
  <2>2. Len(<< >>) = 0
    OBVIOUS
  <2> QED BY <2>1, <2>2
<1> QED BY <1>1, <1>2, <1>3 DEF FieldPath

LEMMA DeleteType ==
  ASSUME NEW t \in Tree, NEW f \in FieldPath, NEW g,
         \A c \in Tree : Height(c) < Height(t) => g[c] \in Deletions(c)
  PROVE  DeleteIn(t, f, g) \in Trees[Height(t)]
<1>1. CASE IsLeaf(t)
  BY <1>1, HeightIsLeast, TreeAssumption DEF Tree, DeleteIn
<1>2. CASE IsArray(t)
  <2>1. ~ IsLeaf(t) /\ t.array \in Seq(Tree)
    BY <1>2, TreeFacts
  <2>2. PICK S :
          /\ \A c \in Tree : Height(c) < Height(t) => Trees[Height(c)] \subseteq S
          /\ \A a \in Seq(S) : [array |-> a] \in Trees[Height(t)]
    BY <2>1, Rebuilt
  <2> DEFINE items == [i \in DOMAIN t.array |-> g[t.array[i]][f]]
  <2>3. ASSUME NEW i \in DOMAIN t.array PROVE items[i] \in S
    <3>1. t.array[i] \in Tree /\ Height(t.array[i]) < Height(t)
      BY <1>2, <2>1, TreeFacts
    <3>2. g[t.array[i]][f] \in Trees[Height(t.array[i])]
      BY <3>1 DEF Deletions
    <3> QED BY <2>2, <3>1, <3>2
  <2>4. items \in Seq(S)
    <3>1. Len(t.array) \in Nat /\ DOMAIN t.array = 1 .. Len(t.array)
      BY <2>1
    <3>2. items \in [1 .. Len(t.array) -> S]
      BY <2>3, <3>1
    <3> HIDE DEF items
    <3> QED BY <3>1, <3>2
  <2>5. DeleteIn(t, f, g) = [array |-> items]
    BY <1>2, <2>1 DEF DeleteIn
  <2> HIDE DEF items
  <2> QED BY <2>2, <2>4, <2>5
<1>3. CASE IsObject(t)
  <2>1. ~ IsLeaf(t) /\ ~ IsArray(t) /\ t.object \in [Name -> Tree \cup {Missing}]
    BY <1>3, TreeFacts
  <2>2. PICK S :
          /\ \A c \in Tree : Height(c) < Height(t) => Trees[Height(c)] \subseteq S
          /\ \A o \in [Name -> S \cup {Missing}] : [object |-> o] \in Trees[Height(t)]
    BY <2>1, Rebuilt
  <2>3. ASSUME NEW n \in Name, t.object[n] # Missing
        PROVE  /\ t.object[n] \in S
               /\ n = Head(f) /\ Len(f) # 1 => g[t.object[n]][Tail(f)] \in S
    <3>1. t.object[n] \in Tree /\ Height(t.object[n]) < Height(t)
      BY <1>3, <2>1, <2>3, TreeFacts
    <3>2. t.object[n] \in Trees[Height(t.object[n])]
      BY <3>1, HeightIsLeast, TreeAssumption DEF Tree
    <3>3. Len(f) # 1 => g[t.object[n]][Tail(f)] \in Trees[Height(t.object[n])]
      BY <3>1, FieldTail DEF Deletions
    <3> QED BY <2>2, <3>1, <3>2, <3>3
  <2> DEFINE left(value) == [n \in Name |-> IF n = Head(f) /\ t.object[n] # Missing THEN value ELSE t.object[n]]
  <2>4. left(Missing) \in [Name -> S \cup {Missing}]
    BY <2>1, <2>3
  <2>5. Len(f) # 1 => left(g[t.object[Head(f)]][Tail(f)]) \in [Name -> S \cup {Missing}]
    BY <2>1, <2>3
  <2>6. DeleteIn(t, f, g) = IF Len(f) = 1 THEN [object |-> left(Missing)]
                            ELSE [object |-> left(g[t.object[Head(f)]][Tail(f)])]
    BY <2>1 DEF DeleteIn, Replaced
  <2> HIDE DEF left
  <2> QED BY <2>2, <2>4, <2>5, <2>6
<1> QED BY <1>1, <1>2, <1>3, TreeFacts

LEMMA DeleteSame ==
  ASSUME NEW t \in Tree, NEW f, NEW g, NEW h,
         \A c \in Tree : Height(c) < Height(t) => g[c] = h[c]
  PROVE  DeleteIn(t, f, g) = DeleteIn(t, f, h)
<1>1. CASE IsLeaf(t)
  BY <1>1 DEF DeleteIn
<1>2. CASE IsArray(t)
  <2>1. ~ IsLeaf(t) /\ \A i \in DOMAIN t.array : g[t.array[i]] = h[t.array[i]]
    BY <1>2, TreeFacts
  <2> DEFINE items(k) == [i \in DOMAIN t.array |-> k[t.array[i]][f]]
  <2>2. items(g) = items(h)
    BY <2>1
  <2>3. \A k : DeleteIn(t, f, k) = [array |-> items(k)]
    BY <1>2, <2>1 DEF DeleteIn
  <2> HIDE DEF items
  <2> QED BY <2>2, <2>3
<1>3. CASE IsObject(t)
  <2>1. /\ ~ IsLeaf(t) /\ ~ IsArray(t)
        /\ \A n \in Name : t.object[n] # Missing => g[t.object[n]] = h[t.object[n]]
    BY <1>3, TreeFacts
  <2> DEFINE left(k) == [n \in Name |-> IF n = Head(f) /\ t.object[n] # Missing
                                         THEN k[t.object[Head(f)]][Tail(f)] ELSE t.object[n]]
  <2>2. left(g) = left(h)
    BY <2>1
  <2>3. \A k : DeleteIn(t, f, k) = IF Len(f) = 1 THEN Replaced(t.object, Head(f), Missing)
                                   ELSE [object |-> left(k)]
    BY <2>1 DEF DeleteIn, Replaced
  <2> HIDE DEF left
  <2> QED BY <2>2, <2>3
<1> QED BY <1>1, <1>2, <1>3, TreeFacts

LEMMA DeleteUnfolds ==
  LET delete == [t \in Tree |-> [f \in FieldPath |-> DeletePath(t, f)]]
  IN  \A t \in Tree, f \in FieldPath :
        /\ DeletePath(t, f) = DeleteIn(t, f, delete)
        /\ DeletePath(t, f) \in Trees[Height(t)]
<1> DEFINE V == [t \in Tree |-> Deletions(t)]
           rank == [t \in Tree |-> Height(t)]
           all(t, g) == [f \in FieldPath |-> DeleteIn(t, f, g)]
           step == [t \in Tree |-> [g \in Typed(Tree, V) |-> all(t, g)]]
           equation(g) == [t \in Tree |-> all(t, g)]
           x == CHOOSE g : g = equation(g)
<1>1. ASSUME NEW t \in Tree, NEW g, \A c \in Tree : Height(c) < Height(t) => g[c] \in Deletions(c)
      PROVE  all(t, g) \in Deletions(t)
  BY <1>1, DeleteType DEF Deletions
<1>2. ASSUME NEW t \in Tree, NEW g, NEW h, \A c \in Tree : Height(c) < Height(t) => g[c] = h[c]
      PROVE  all(t, g) = all(t, h)
  BY <1>2, DeleteSame
<1>3. \A t \in Tree : V[t] = Deletions(t) /\ rank[t] = Height(t) /\ t \in Trees[Height(t)]
  BY HeightIsLeast, TreeAssumption DEF Tree
<1>4. rank \in [Tree -> Nat]
  BY HeightRank
<1>5. \A t \in Tree, g \in Typed(Tree, V) : step[t][g] = all(t, g)
  OBVIOUS
<1> HIDE DEF V, rank, step, all
<1>6. WellFoundedIn(Tree, V, rank, step)
  <2>1. \A t \in Tree : V[t] # {}
    <3> SUFFICES ASSUME NEW t \in Tree PROVE V[t] # {}
      OBVIOUS
    <3>1. [f \in FieldPath |-> t] \in Deletions(t)
      BY <1>3 DEF Deletions
    <3> QED BY <1>3, <3>1
  <2>2. ASSUME NEW t \in Tree, NEW g \in Typed(Tree, V) PROVE step[t][g] \in V[t]
    <3>1. \A c \in Tree : g[c] \in Deletions(c)
      BY <1>3 DEF Typed
    <3> QED BY <1>1, <1>3, <1>5, <3>1
  <2>3. ASSUME NEW t \in Tree, NEW g \in Typed(Tree, V), NEW h \in Typed(Tree, V),
               \A c \in Tree : rank[c] < rank[t] => g[c] = h[c]
        PROVE  step[t][g] = step[t][h]
    <3>1. \A c \in Tree : Height(c) < Height(t) => g[c] = h[c]
      BY <1>3, <2>3
    <3> QED BY <1>2, <1>5, <3>1
  <2> QED BY <1>4, <2>1, <2>2, <2>3 DEF WellFoundedIn
<1>7. PICK g : g \in SolutionsIn(Tree, V, step)
  BY <1>6, TypedRecursion
<1>8. g = equation(g)
  <2>1. g = [t \in Tree |-> g[t]] /\ \A t \in Tree : g[t] = all(t, g)
    BY <1>5, <1>7 DEF SolutionsIn, Typed
  <2> QED BY <2>1
<1> HIDE DEF equation
<1>9. x = equation(x)
  BY <1>8
<1>10. \A t, f : DeletePath(t, f) = x[t][f]
  BY DEF DeletePath, equation, all, DeleteIn
<1> HIDE DEF x
<1>11. \A t \in Tree : x[t] = all(t, x)
  BY <1>9 DEF equation
<1>12. \A t \in Tree : x[t] \in Deletions(t)
  <2> DEFINE T == {n \in Nat : \A t \in Tree : Height(t) = n => x[t] \in Deletions(t)}
  <2>1. ASSUME NEW n \in Nat, \A m \in Nat : m < n => m \in T PROVE n \in T
    <3> SUFFICES ASSUME NEW t \in Tree, Height(t) = n PROVE x[t] \in Deletions(t)
      OBVIOUS
    <3>1. \A c \in Tree : Height(c) < Height(t) => x[c] \in Deletions(c)
      BY <1>3, <1>4, <2>1
    <3> QED BY <1>1, <1>11, <3>1
  <2> HIDE DEF T
  <2>2. Nat \subseteq T
    BY <2>1, StrongInductiveSet
  <2> QED BY <1>3, <1>4, <2>2 DEF T
<1>13. x = [t \in Tree |-> [f \in FieldPath |-> DeletePath(t, f)]]
  <2>1. x = [t \in Tree |-> x[t]]
    BY <1>9 DEF equation
  <2>2. \A t \in Tree : x[t] = [f \in FieldPath |-> x[t][f]]
    BY <1>12 DEF Deletions
  <2>3. \A t \in Tree : x[t] = [f \in FieldPath |-> DeletePath(t, f)]
    BY <1>10, <2>2
  <2> QED BY <2>1, <2>3
<1>14. ASSUME NEW t \in Tree, NEW f \in FieldPath
       PROVE  /\ DeletePath(t, f) = DeleteIn(t, f, x)
              /\ DeletePath(t, f) \in Trees[Height(t)]
  BY <1>10, <1>11, <1>12 DEF all, Deletions
<1> QED BY <1>13, <1>14

\* A deletion leaves what is not below its field, and nothing else.
LEMMA DeleteLeaves ==
  ASSUME NEW t \in Tree, NEW d \in FieldPath
  PROVE  /\ DeletePath(t, d) \in Tree
         /\ \A path \in Leaves(DeletePath(t, d)) : path \in Leaves(t) /\ ~ IsPrefix(d, path)
<1> DEFINE delete == [c \in Tree |-> [f \in FieldPath |-> DeletePath(c, f)]]
           Deleted(c, f) == \A path \in Leaves(DeletePath(c, f)) : path \in Leaves(c) /\ ~ IsPrefix(f, path)
           T == {n \in Nat : \A c \in Tree : Height(c) = n => \A f \in FieldPath : Deleted(c, f)}
<1>1. \A c \in Tree, f \in FieldPath :
        DeletePath(c, f) = DeleteIn(c, f, delete) /\ DeletePath(c, f) \in Trees[Height(c)]
  BY DeleteUnfolds
<1>2. ASSUME NEW c \in Tree, NEW f \in FieldPath PROVE DeletePath(c, f) \in Tree
  BY <1>1, HeightIsLeast, TreesGrow, TreeAssumption DEF Tree
<1>3. \A c \in Tree, f \in FieldPath : delete[c][f] = DeletePath(c, f)
  OBVIOUS
<1> HIDE DEF delete
<1>4. ASSUME NEW n \in Nat, \A m \in Nat : m < n => m \in T PROVE n \in T
  <2> SUFFICES ASSUME NEW c \in Tree, Height(c) = n, NEW f \in FieldPath,
                      NEW path \in Leaves(DeletePath(c, f))
               PROVE  path \in Leaves(c) /\ ~ IsPrefix(f, path)
    OBVIOUS
  <2>1. \A k \in Tree, g \in FieldPath : Height(k) < n => Deleted(k, g)
    BY <1>4, HeightRank
  <2> DEFINE r == DeletePath(c, f)
  <2>2. r = DeleteIn(c, f, delete) /\ r \in Tree /\ path \in Leaves(r)
    BY <1>1, <1>2
  <2>3. path \in Path /\ f \in Path /\ Len(f) \in Nat \ {0} /\ f # << >>
    BY <2>2, LeavesArePaths, PrefixFacts, FieldTail
  <2> HIDE DEF r, T, Deleted
  <2>4. CASE IsLeaf(c)
    <3>1. r = c
      BY <2>2, <2>4 DEF DeleteIn
    <3>2. path = << >> /\ Len(path) = 0
      BY <2>2, <2>4, <3>1, LeavesFacts
    <3>3. ~ IsPrefix(f, path)
      BY <2>3, <3>2, PrefixPointwise
    <3> QED BY <3>1, <3>3 DEF r
  <2>5. CASE IsArray(c)
    <3>1. ~ IsLeaf(c) /\ \A i \in DOMAIN c.array : c.array[i] \in Tree /\ Height(c.array[i]) < n
      BY <2>5, TreeFacts
    <3> DEFINE items == [i \in DOMAIN c.array |-> delete[c.array[i]][f]]
    <3>2. r = [array |-> items]
      BY <2>2, <2>5, <3>1 DEF DeleteIn
    <3>3. DOMAIN items = DOMAIN c.array /\ \A i \in DOMAIN c.array : items[i] = DeletePath(c.array[i], f)
      BY <1>3, <3>1
    <3> HIDE DEF items
    <3>4. IsArray(r) /\ r.array = items
      BY <3>2 DEF IsArray
    <3>5. PICK i \in DOMAIN c.array : path \in Leaves(DeletePath(c.array[i], f))
      BY <2>2, <3>3, <3>4, LeavesFacts
    <3>6. path \in Leaves(c.array[i]) /\ ~ IsPrefix(f, path)
      BY <2>1, <3>1, <3>5 DEF Deleted
    <3> QED BY <2>5, <3>6, LeavesFacts
  <2>6. CASE IsObject(c)
    <3>1. /\ ~ IsLeaf(c) /\ ~ IsArray(c)
          /\ \A m \in Name : c.object[m] # Missing => c.object[m] \in Tree /\ Height(c.object[m]) < n
      BY <2>6, TreeFacts
    <3> DEFINE value == IF Len(f) = 1 THEN Missing ELSE delete[c.object[Head(f)]][Tail(f)]
               left == [m \in Name |-> IF m = Head(f) /\ c.object[m] # Missing THEN value ELSE c.object[m]]
    <3>2. r = [object |-> left]
      BY <2>2, <3>1 DEF DeleteIn, Replaced
    <3>3. \A m \in Name : left[m] = IF m = Head(f) /\ c.object[m] # Missing THEN value ELSE c.object[m]
      OBVIOUS
    <3> HIDE DEF left
    <3>4. IsObject(r) /\ r.object = left
      BY <3>2 DEF IsObject
    <3>5. PICK m \in Name : left[m] # Missing /\ \E p \in Leaves(left[m]) : path = <<m>> \o p
      BY <2>2, <3>4, LeavesFacts
    <3>6. PICK p \in Leaves(left[m]) : path = <<m>> \o p
      BY <3>5
    <3>7. c.object[m] # Missing
      BY <3>3, <3>5
    <3>8. CASE m # Head(f)
      <4>1. p \in Leaves(c.object[m]) /\ p \in Path
        BY <3>1, <3>3, <3>6, <3>7, <3>8, LeavesArePaths
      <4>2. ~ IsPrefix(f, path)
        BY <2>3, <3>6, <3>8, <4>1, PrefixStep
      <4> QED BY <2>6, <3>6, <3>7, <4>1, <4>2, LeavesFacts
    <3>9. CASE m = Head(f)
      <4>1. left[m] = value /\ value # Missing
        BY <3>3, <3>5, <3>7, <3>9
      <4>2. Len(f) # 1 /\ value = delete[c.object[m]][Tail(f)]
        BY <3>9, <4>1
      <4>3. Tail(f) \in FieldPath
        BY <4>2, FieldTail
      <4>4. value = DeletePath(c.object[m], Tail(f))
        BY <1>3, <3>1, <3>7, <4>2, <4>3
      <4>5. p \in Leaves(c.object[m]) /\ ~ IsPrefix(Tail(f), p)
        BY <2>1, <3>1, <3>6, <3>7, <4>1, <4>3, <4>4 DEF Deleted
      <4>6. p \in Path
        BY <3>1, <3>7, <4>5, LeavesArePaths
      <4>7. ~ IsPrefix(f, path)
        BY <2>3, <3>6, <4>5, <4>6, PrefixStep
      <4> QED BY <2>6, <3>6, <3>7, <4>5, <4>7, LeavesFacts
    <3> QED BY <3>8, <3>9
  <2> QED BY <2>4, <2>5, <2>6, TreeFacts
<1> HIDE DEF T
<1>5. Nat \subseteq T
  BY <1>4, StrongInductiveSet
<1>6. Deleted(t, d)
  BY <1>5, HeightRank DEF T
<1> QED BY <1>2, <1>6

\* A projection is what was released by one of its fields and hidden by none.
LEMMA ProjectAttrsFacts ==
  ASSUME NEW t \in Tree, IsObject(t), NEW fs \in SUBSET FieldPath,
         NEW D \in SUBSET FieldPath, IsFiniteSet(D)
  PROVE  \A path \in Leaves(ProjectAttrs(t, fs, D)) :
           /\ path \in Path
           /\ \E f \in fs : IsPrefix(f, path)
           /\ ~ \E d \in D : IsPrefix(d, path)
<1> DEFINE base == ProjectAllowed(t, fs)
           each == [d \in D |-> [r \in Tree |-> DeletePath(r, d)]]
           equation(f) == [s \in SUBSET D |->
                             IF s = {} THEN base ELSE DeletePath(f[s \ {Pick(s)}], Pick(s))]
           x == CHOOSE f : f = equation(f)
<1>1. fs \in SUBSET Path /\ << >> \notin fs
  BY PrefixFacts DEF FieldPath
<1>2. base \in Tree /\ base # Missing
  <2> DEFINE project == [c \in Tree |-> [gs \in SUBSET Path |-> ProjectAllowed(c, gs)]]
  <2>1. base = ProjectIn(t, fs, project)
    BY <1>1, ProjectUnfolds
  <2>2. \A c \in Tree : project[c] \in Projections(c)
    BY ProjectUnfolds DEF Projections
  <2> HIDE DEF base, project
  <2>3. base \in Trees[Height(t)]
    BY <1>1, <2>1, <2>2, ProjectType
  <2> QED BY <2>3, HeightIsLeast, TreesGrow, TreeAssumption DEF Tree
<1>3. \A path \in Leaves(base) : \E f \in fs : IsPrefix(f, path)
  BY <1>1, <1>2, ProjectLeaves
<1> HIDE DEF base
<1>4. each \in [D -> [Tree -> Tree]]
  BY DeleteLeaves
<1>5. PICK f : f \in Folds(D, Tree, base, each)
  <2> HIDE DEF each
  <2> QED BY <1>2, <1>4, FoldsExist
<1>6. \A s \in SUBSET D : s # {} => Pick(s) \in s /\ s \ {Pick(s)} \in SUBSET D
  BY DEF Pick
<1>7. f = equation(f)
  <2>1. f \in [SUBSET D -> Tree]
    BY <1>5 DEF Folds
  <2>2. ASSUME NEW s \in SUBSET D
        PROVE  f[s] = IF s = {} THEN base ELSE DeletePath(f[s \ {Pick(s)}], Pick(s))
    <3>1. f[s] = IF s = {} THEN base ELSE each[Pick(s)][f[s \ {Pick(s)}]]
      BY <1>5 DEF Folds
    <3>2. s # {} => Pick(s) \in D /\ f[s \ {Pick(s)}] \in Tree
      BY <1>6, <2>1
    <3>3. s # {} => each[Pick(s)][f[s \ {Pick(s)}]] = DeletePath(f[s \ {Pick(s)}], Pick(s))
      BY <3>2
    <3> HIDE DEF each
    <3> QED BY <3>1, <3>3
  <2> HIDE DEF each
  <2> QED BY <2>1, <2>2
<1> HIDE DEF equation
<1>8. x = equation(x)
  BY <1>7
<1>9. ProjectAttrs(t, fs, D) = x[D]
  BY DEF ProjectAttrs, FoldSet, MapThenFoldSet, equation, Pick, base
<1> HIDE DEF x
<1>10. /\ x[{}] = base
       /\ \A s \in SUBSET D : s # {} => x[s] = DeletePath(x[s \ {Pick(s)}], Pick(s))
  BY <1>8 DEF equation
<1> DEFINE Shown(s, path) == (\E g \in fs : IsPrefix(g, path)) /\ ~ \E d \in s : IsPrefix(d, path)
           T == {s \in SUBSET D : x[s] \in Tree /\ \A path \in Leaves(x[s]) : Shown(s, path)}
<1>11. {} \in T
  BY <1>2, <1>3, <1>10
<1>12. ASSUME NEW s \in SUBSET D, s # {}, s \ {Pick(s)} \in T PROVE s \in T
  <2> DEFINE rest == x[s \ {Pick(s)}]
  <2>1. x[s] = DeletePath(rest, Pick(s)) /\ rest \in Tree /\ Pick(s) \in FieldPath
    BY <1>6, <1>10, <1>12
  <2>2. \A path \in Leaves(rest) : Shown(s \ {Pick(s)}, path)
    BY <1>12
  <2> HIDE DEF rest, T
  <2>3. x[s] \in Tree /\ \A path \in Leaves(x[s]) : path \in Leaves(rest) /\ ~ IsPrefix(Pick(s), path)
    BY <2>1, DeleteLeaves
  <2>4. \A path \in Leaves(x[s]) : Shown(s, path)
    BY <2>2, <2>3
  <2> QED BY <2>3, <2>4 DEF T
<1> HIDE DEF T
<1>13. D \in T
  BY <1>11, <1>12, FoldInduction
<1>14. x[D] \in Tree /\ \A path \in Leaves(x[D]) : Shown(D, path)
  BY <1>13 DEF T
<1> QED BY <1>9, <1>14, LeavesArePaths

-----------------------------------------------------------------------------
(***************************************************************************)
(* Reads of a dataset.                                                     *)
(***************************************************************************)

\* The seats and contracts that entitle a principal, and the standing ones.
EntitlingFor(p, q) == {held \in MembershipsOf(p) \X Contract : Entitles(held[1], held[2], q)}

StandingFor(p, q) == {held \in EntitlingFor(p, q) : ~ held[2].approvalRequired}

LEMMA StandingAllows ==
  ASSUME NEW p, NEW q
  PROVE  StandingFor(p, q) \subseteq Allowing(p, q)
<1> SUFFICES ASSUME NEW held \in StandingFor(p, q) PROVE held \in Allowing(p, q)
  OBVIOUS
<1>1. /\ held \in MembershipsOf(p) \X Contract /\ Entitles(held[1], held[2], q)
      /\ ~ held[2].approvalRequired
  BY DEF StandingFor, EntitlingFor
<1>2. held[1].principal = p
  BY <1>1 DEF MembershipsOf
<1>3. held \in LiveMemberships(p) \X Contract
  BY <1>1, <1>2 DEF Entitles, LiveMemberships
<1> QED BY <1>1, <1>3 DEF Allowing, Candidates, Entitles

\* What a contract releases lies within its dataset, and what it denies is a
\* finite list.
LEMMA ContractFields ==
  ASSUME policy \in Policy, NEW k \in Contract
  PROVE  /\ ReleasedFields(k) \in SUBSET FieldPath
         /\ \A f \in ReleasedFields(k) : \E g \in DatasetFields[k.dataset] : IsPrefix(g, f)
         /\ DatasetFields[k.dataset] \in SUBSET FieldPath
         /\ IsFiniteSet(k.denyFields) /\ k.denyFields \in SUBSET FieldPath
<1>1. /\ DatasetFields[k.dataset] \subseteq FieldPath
      /\ policy.allowFields[k] # Missing => policy.allowFields[k] \subseteq FieldPath
  BY ImportAssumption DEF ImportAssumption
<1>2. IsFiniteSet(k.denyFields) /\ k.denyFields \subseteq FieldPath
  BY RecordAssumption
<1> QED BY <1>1, <1>2, IntersectedBelow DEF ReleasedFields

\* The fields of a decision: what is allowed was released by a contract that
\* entitles, and everything this contract and all standing ones deny is denied.
FieldsJustified(p, q, allowed, denied) ==
  /\ allowed \in SUBSET FieldPath /\ denied \in SUBSET FieldPath /\ IsFiniteSet(denied)
  /\ \A f \in allowed :
       /\ \E g \in DatasetFields[q.dataset] : IsPrefix(g, f)
       /\ \E held \in EntitlingFor(p, q) :
            /\ held[2].denyFields \subseteq denied
            /\ \E g \in ReleasedFields(held[2]) : IsPrefix(g, f)
  /\ \A held \in StandingFor(p, q) : held[2].denyFields \subseteq denied
  /\ StandingFor(p, q) = {} => JitDenyFields \subseteq denied

LEMMA AllowedAsAsked ==
  ASSUME NEW allowed, NEW denied, Allow(allowed, denied).effect = "allow"
  PROVE  /\ Allow(allowed, denied).allowedFields = allowed
         /\ Allow(allowed, denied).denyFields = denied
BY NotAllowed DEF Allow

LEMMA StandingFieldsJustified ==
  ASSUME StoreFinite, TypeOK, policy \in Policy, NEW p \in Principal, NEW q \in Query,
         Allowing(p, q) # {}
  PROVE  FieldsJustified(p, q, UNION {ReleasedFields(h[2]) : h \in Allowing(p, q)},
                               UNION {h[2].denyFields : h \in Allowing(p, q)})
<1> DEFINE A == Allowing(p, q)
           allowed == UNION {ReleasedFields(h[2]) : h \in A}
           denied == UNION {h[2].denyFields : h \in A}
           lists == {h[2].denyFields : h \in A}
<1>1. ASSUME NEW h \in A
      PROVE  /\ h \in EntitlingFor(p, q) /\ h[2] \in Contract /\ h[2].dataset = q.dataset
             /\ <<h[1].capsule, h[2]>> \in bindings
             /\ ~ h[2].approvalRequired
  <2>1. /\ h \in LiveMemberships(p) \X Contract /\ h[2].dataset = q.dataset
        /\ <<h[1].capsule, h[2]>> \in bindings /\ ~ h[2].approvalRequired
    BY DEF Allowing, Candidates
  <2>2. Entitles(h[1], h[2], q) /\ h[1] \in MembershipsOf(p)
    BY StandingEntitles
  <2> QED BY <2>1, <2>2 DEF EntitlingFor
<1> HIDE DEF A
<1>2. allowed \in SUBSET FieldPath /\ denied \in SUBSET FieldPath
  BY <1>1, ContractFields
<1>3. IsFiniteSet(lists)
  <2> DEFINE f == [b \in bindings |-> b[2].denyFields]
  <2>1. lists \subseteq {f[b] : b \in bindings}
    <3> SUFFICES ASSUME NEW h \in A PROVE \E b \in bindings : h[2].denyFields = f[b]
      OBVIOUS
    <3>1. f[<<h[1].capsule, h[2]>>] = h[2].denyFields
      BY <1>1
    <3> QED BY <1>1, <3>1
  <2> HIDE DEF f, lists
  <2>2. IsFiniteSet({f[b] : b \in bindings})
    BY FiniteImage DEF StoreFinite
  <2> QED BY <2>1, <2>2, FS_Subset
<1>4. IsFiniteSet(denied)
  <2>1. \A list \in lists : IsFiniteSet(list)
    BY <1>1, ContractFields
  <2> HIDE DEF lists
  <2>2. IsFiniteSet(UNION lists)
    BY <1>3, <2>1, FS_UNION
  <2> QED BY <2>2 DEF lists
<1>5. ASSUME NEW f \in allowed
      PROVE  /\ \E g \in DatasetFields[q.dataset] : IsPrefix(g, f)
             /\ \E held \in EntitlingFor(p, q) :
                  /\ held[2].denyFields \subseteq denied
                  /\ \E g \in ReleasedFields(held[2]) : IsPrefix(g, f)
  <2>1. PICK h \in A : f \in ReleasedFields(h[2])
    OBVIOUS
  <2>2. h[2].denyFields \subseteq denied
    OBVIOUS
  <2>3. f \in Path /\ IsPrefix(f, f)
    BY <1>2, PrefixFacts
  <2>4. \E g \in DatasetFields[q.dataset] : IsPrefix(g, f)
    BY <1>1, <2>1, ContractFields
  <2> HIDE DEF denied, allowed
  <2> QED BY <1>1, <2>1, <2>2, <2>3, <2>4
<1>6. \A held \in StandingFor(p, q) : held[2].denyFields \subseteq denied
  BY StandingAllows DEF A
<1>7. StandingFor(p, q) # {}
  <2>1. PICK h \in A : TRUE
    BY DEF A
  <2> QED BY <1>1, <2>1 DEF StandingFor
<1> HIDE DEF allowed, denied
<1>8. FieldsJustified(p, q, allowed, denied)
  BY <1>2, <1>4, <1>5, <1>6, <1>7 DEF FieldsJustified
<1> QED BY <1>8 DEF allowed, denied, A

LEMMA GrantFieldsJustified ==
  ASSUME StoreInv, DualControl, GrantsWithinContract, policy \in Policy,
         NEW p \in Principal, NEW q \in Query, Allowing(p, q) = {}, NEW i \in LiveGrants(p, q),
         GrantDecision(q, jit[i]).effect = "allow"
  PROVE  FieldsJustified(p, q, GrantDecision(q, jit[i]).allowedFields,
                               GrantDecision(q, jit[i]).denyFields)
<1> DEFINE k == jit[i].contract
           allowed == IntersectFieldPaths(DatasetFields[q.dataset], ReleasedFields(k))
           denied == k.denyFields \cup JitDenyFields
<1>1. /\ GrantDecision(q, jit[i]).allowedFields = allowed
      /\ GrantDecision(q, jit[i]).denyFields = denied
  BY AllowedAsAsked, NotAllowed DEF GrantDecision
<1>2. PICK m \in MembershipsOf(p) : Entitles(m, k, q)
  BY GrantEntitles
<1>3. k \in Contract /\ k.dataset = q.dataset
  BY GrantEntitles DEF LiveGrants
<1> HIDE DEF k
<1>4. /\ ReleasedFields(k) \in SUBSET FieldPath /\ DatasetFields[q.dataset] \in SUBSET FieldPath
      /\ IsFiniteSet(k.denyFields) /\ k.denyFields \in SUBSET FieldPath
  BY <1>3, ContractFields
<1>5. JitDenyFields \in SUBSET FieldPath /\ IsFiniteSet(JitDenyFields)
  BY RecordAssumption
<1>6. denied \in SUBSET FieldPath /\ IsFiniteSet(denied)
  BY <1>4, <1>5, FS_Union
<1>7. /\ allowed \in SUBSET FieldPath
      /\ \A f \in allowed : /\ \E g \in DatasetFields[q.dataset] : IsPrefix(g, f)
                            /\ \E g \in ReleasedFields(k) : IsPrefix(g, f)
  BY <1>4, IntersectedBelow
<1>8. <<m, k>> \in EntitlingFor(p, q) /\ <<m, k>>[2] = k
  BY <1>2, <1>3 DEF EntitlingFor
<1>9. StandingFor(p, q) = {}
  BY StandingAllows
<1>10. k.denyFields \subseteq denied /\ JitDenyFields \subseteq denied
  OBVIOUS
<1> HIDE DEF allowed, denied
<1>11. FieldsJustified(p, q, allowed, denied)
  BY <1>6, <1>7, <1>8, <1>9, <1>10 DEF FieldsJustified
<1> QED BY <1>1, <1>11

LEMMA DecisionJustified ==
  ASSUME StoreInv, DualControl, GrantsWithinContract, StoreFinite, policy \in Policy,
         NEW p \in Principal, NEW q \in Query, q.dataset \notin ControlDataset,
         Check(p, q).effect = "allow"
  PROVE  /\ FieldsJustified(p, q, Check(p, q).allowedFields, Check(p, q).denyFields)
         /\ Allowing(p, q) # {} \/ LiveGrants(p, q) # {}
<1>1. CASE Allowing(p, q) # {}
  <2>1. Check(p, q) = StandingDecision(Allowing(p, q))
    BY <1>1, NotAllowed DEF Check
  <2>2. TypeOK
    BY DEF StoreInv
  <2> DEFINE allowed == UNION {ReleasedFields(h[2]) : h \in Allowing(p, q)}
             denied == UNION {h[2].denyFields : h \in Allowing(p, q)}
  <2>3. Check(p, q) = Allow(allowed, denied)
    BY <2>1 DEF StandingDecision
  <2>4. FieldsJustified(p, q, allowed, denied)
    BY <1>1, <2>2, StandingFieldsJustified
  <2> HIDE DEF allowed, denied
  <2>5. Check(p, q).allowedFields = allowed /\ Check(p, q).denyFields = denied
    BY <2>3, AllowedAsAsked
  <2> QED BY <1>1, <2>4, <2>5
<1>2. CASE Allowing(p, q) = {}
  <2> DEFINE live == LiveGrants(p, q)
             first == CHOOSE i \in live : \A j \in live : i <= j
  <2>1. live # {} /\ Check(p, q) = GrantDecision(q, jit[first])
    BY <1>2, NotAllowed DEF Check
  <2>2. live \subseteq Nat
    BY DEF LiveGrants, StoreInv, TypeOK
  <2> HIDE DEF live
  <2>3. first \in live
    BY <2>1, <2>2, LeastElement
  <2> HIDE DEF first
  <2> QED BY <1>2, <2>1, <2>3, GrantFieldsJustified DEF live
<1> QED BY <1>1, <1>2

LEMMA ViewFacts ==
  ASSUME NEW dataset \in Dataset, NEW r \in Record, r.dataset = dataset, NEW purpose \in Purpose
  PROVE  /\ View(dataset, r, purpose) \in Query
         /\ View(dataset, r, purpose).dataset = dataset
         /\ View(dataset, r, purpose).purpose = purpose
<1> DEFINE q == View(dataset, r, purpose)
<1>1. q \in [action : Action, dataset : Dataset, record : Record \cup CallerRecord \cup {NoRecord},
             purpose : Purpose]
  BY DEF View, Action
<1>2. q.record = r /\ q.dataset = dataset /\ q.purpose = purpose
  BY DEF View
<1> HIDE DEF q
<1> QED BY <1>1, <1>2 DEF Query, q

LEMMA RowsShowReleasedFields ==
  ASSUME StoreInv, DualControl, GrantsWithinContract, StoreFinite, policy \in Policy
  PROVE  OnlyReleasedFieldsAreRead
<1> SUFFICES ASSUME NEW p \in Principal, NEW dataset \in Dataset \ ControlDataset,
                    NEW purpose \in Purpose, NEW row \in FilterDataset(p, dataset, purpose)
             PROVE  LET q         == View(dataset, row.record, purpose)
                        entitling == {held \in MembershipsOf(p) \X Contract : Entitles(held[1], held[2], q)}
                        standing  == {held \in entitling : ~ held[2].approvalRequired}
                    IN  \A path \in Leaves(row.attrs) :
                          /\ \E f \in DatasetFields[dataset] : IsPrefix(f, path)
                          /\ \E held \in entitling :
                               /\ \E f \in ReleasedFields(held[2]) : IsPrefix(f, path)
                               /\ ~ \E f \in held[2].denyFields : IsPrefix(f, path)
                          /\ \A held \in standing : ~ \E f \in held[2].denyFields : IsPrefix(f, path)
                          /\ standing = {} => ~ \E f \in JitDenyFields : IsPrefix(f, path)
  BY DEF OnlyReleasedFieldsAreRead
<1> DEFINE q == View(dataset, row.record, purpose)
           allowed == Check(p, q).allowedFields
           denied == Check(p, q).denyFields
<1>1. /\ row.record \in Record /\ row.record.dataset = dataset /\ Check(p, q).effect = "allow"
      /\ row.attrs = ProjectAttrs(row.record.attrs, allowed, denied)
  BY DEF FilterDataset, Delivered
<1>2. q \in Query /\ q.dataset = dataset
  BY <1>1, ViewFacts
<1> HIDE DEF q
<1>3. FieldsJustified(p, q, allowed, denied)
  BY <1>1, <1>2, DecisionJustified
<1> HIDE DEF allowed, denied
<1>4. row.record.attrs \in Tree /\ IsObject(row.record.attrs)
  BY <1>1, RecordAssumption
<1>5. allowed \in SUBSET FieldPath /\ denied \in SUBSET FieldPath /\ IsFiniteSet(denied)
  BY <1>3 DEF FieldsJustified
<1>6. \A path \in Leaves(row.attrs) :
        /\ path \in Path
        /\ \E f \in allowed : IsPrefix(f, path)
        /\ ~ \E d \in denied : IsPrefix(d, path)
  BY <1>1, <1>4, <1>5, ProjectAttrsFacts
<1>7. ASSUME NEW path \in Leaves(row.attrs)
      PROVE  /\ \E f \in DatasetFields[dataset] : IsPrefix(f, path)
             /\ \E held \in EntitlingFor(p, q) :
                  /\ \E f \in ReleasedFields(held[2]) : IsPrefix(f, path)
                  /\ ~ \E f \in held[2].denyFields : IsPrefix(f, path)
             /\ \A held \in StandingFor(p, q) : ~ \E f \in held[2].denyFields : IsPrefix(f, path)
             /\ StandingFor(p, q) = {} => ~ \E f \in JitDenyFields : IsPrefix(f, path)
  <2>1. PICK f \in allowed : IsPrefix(f, path)
    BY <1>6
  <2>2. /\ path \in Path /\ f \in Path
        /\ ~ \E d \in denied : IsPrefix(d, path)
    BY <1>5, <1>6, PrefixFacts
  <2>3. PICK g \in DatasetFields[dataset] : IsPrefix(g, f)
    BY <1>2, <1>3 DEF FieldsJustified
  <2>4. PICK held \in EntitlingFor(p, q) :
          held[2].denyFields \subseteq denied /\ \E r \in ReleasedFields(held[2]) : IsPrefix(r, f)
    BY <1>3 DEF FieldsJustified
  <2>5. PICK r \in ReleasedFields(held[2]) : IsPrefix(r, f)
    BY <2>4
  <2>6. held[2] \in Contract
    BY <2>4 DEF EntitlingFor
  <2>7. g \in Path /\ r \in Path
    <3>1. DatasetFields[dataset] \subseteq FieldPath
      BY ImportAssumption DEF ImportAssumption
    <3> QED BY <2>3, <2>5, <2>6, <3>1, ContractFields, PrefixFacts
  <2>8. IsPrefix(g, path) /\ IsPrefix(r, path)
    BY <2>1, <2>2, <2>3, <2>5, <2>7, PrefixFacts
  <2>9. /\ \A h \in StandingFor(p, q) : h[2].denyFields \subseteq denied
        /\ StandingFor(p, q) = {} => JitDenyFields \subseteq denied
    BY <1>3 DEF FieldsJustified
  <2> QED BY <2>2, <2>3, <2>4, <2>5, <2>8, <2>9
<1> QED BY <1>7 DEF EntitlingFor, StandingFor, q

\* A purpose under which something is shown is one explainAccess tries.
LEMMA ShownPurposes ==
  ASSUME StoreInv, DualControl, GrantsWithinContract, StoreFinite, policy \in Policy,
         NEW p \in Principal, NEW dataset \in Dataset \ ControlDataset, NEW purpose \in Purpose,
         FilterDataset(p, dataset, purpose) # {}
  PROVE  purpose \in PurposesFor(p, dataset)
<1>1. PICK r \in Record : r.dataset = dataset /\ Check(p, View(dataset, r, purpose)).effect = "allow"
  BY DEF FilterDataset
<1> DEFINE q == View(dataset, r, purpose)
<1>2. q \in Query /\ q.dataset = dataset /\ q.purpose = purpose /\ Check(p, q).effect = "allow"
  BY <1>1, ViewFacts
<1> HIDE DEF q
<1>3. CASE Allowing(p, q) # {}
  <2>1. PICK h \in Allowing(p, q) : TRUE
    BY <1>3
  <2>2. /\ h[1] \in LiveMemberships(p) /\ <<h[1].capsule, h[2]>> \in bindings
        /\ h[2].dataset = dataset /\ h[2].purpose = purpose
    BY <1>2, <2>1 DEF Allowing, Candidates
  <2> DEFINE b == <<h[1].capsule, h[2]>>
  <2>3. b \in bindings /\ b[2].dataset = dataset /\ b[2].purpose = purpose
        /\ \E m \in LiveMemberships(p) : m.capsule = b[1]
    BY <2>2
  <2> HIDE DEF b
  <2> QED BY <2>3 DEF PurposesFor
<1>4. CASE LiveGrants(p, q) # {}
  <2>1. PICK i \in LiveGrants(p, q) : TRUE
    BY <1>4
  <2>2. i \in GrantsOf(p) /\ jit[i].contract.dataset = dataset /\ jit[i].contract.purpose = purpose
    BY <1>2, <2>1 DEF LiveGrants, GrantsOf
  <2> QED BY <2>2 DEF PurposesFor
<1> QED BY <1>2, <1>3, <1>4, DecisionJustified

LEMMA FinitePurposes ==
  ASSUME StoreFinite, TypeOK, NEW p, NEW dataset
  PROVE  IsFiniteSet(PurposesFor(p, dataset))
<1> DEFINE f == [b \in bindings |-> b[2].purpose]
           g == [i \in DOMAIN jit |-> jit[i].contract.purpose]
<1>1. IsFiniteSet({f[b] : b \in bindings})
  <2> HIDE DEF f
  <2> QED BY FiniteImage DEF StoreFinite
<1>2. IsFiniteSet({g[i] : i \in DOMAIN jit})
  <2> HIDE DEF g
  <2>1. DOMAIN jit = 1 .. Len(jit) /\ Len(jit) \in Nat
    BY DEF TypeOK
  <2>2. IsFiniteSet(DOMAIN jit)
    BY <2>1, FS_Interval
  <2> QED BY <2>2, FiniteImage
<1>3. PurposesFor(p, dataset) \subseteq {f[b] : b \in bindings} \cup {g[i] : i \in DOMAIN jit}
  BY DEF PurposesFor, GrantsOf
<1> HIDE DEF f, g
<1>4. IsFiniteSet({f[b] : b \in bindings} \cup {g[i] : i \in DOMAIN jit})
  BY <1>1, <1>2, FS_Union
<1> QED BY <1>3, <1>4, FS_Subset

LEMMA FiniteRows ==
  ASSUME NEW p, NEW dataset, NEW purpose
  PROVE  /\ Cardinality(FilterDataset(p, dataset, purpose)) \in Nat
         /\ FilterDataset(p, dataset, purpose) = {} => Cardinality(FilterDataset(p, dataset, purpose)) = 0
<1> DEFINE f == [r \in Record |-> Delivered(r, Check(p, View(dataset, r, purpose)))]
<1>1. FilterDataset(p, dataset, purpose) \subseteq {f[r] : r \in Record}
  BY DEF FilterDataset
<1> HIDE DEF f
<1>2. IsFiniteSet({f[r] : r \in Record})
  BY RecordAssumption, FiniteImage
<1>3. IsFiniteSet(FilterDataset(p, dataset, purpose))
  BY <1>1, <1>2, FS_Subset
<1>4. Cardinality({}) = 0
  BY FS_EmptySet
<1> QED BY <1>3, <1>4, FS_CardinalityType

LEMMA SummaryMissesNothing ==
  ASSUME StoreInv, DualControl, GrantsWithinContract, StoreFinite, policy \in Policy
  PROVE  ExplainIsComplete
<1> SUFFICES ASSUME NEW p \in Principal, NEW dataset \in Dataset \ ControlDataset, NEW purpose \in Purpose
             PROVE  Cardinality(FilterDataset(p, dataset, purpose)) <= ExplainAccess(p, dataset)
  BY DEF ExplainIsComplete
<1> DEFINE count == [x \in PurposesFor(p, dataset) |-> Cardinality(FilterDataset(p, dataset, x))]
           counts == {count[x] : x \in PurposesFor(p, dataset)}
           most == CHOOSE n \in counts : \A other \in counts : other <= n
<1>1. ExplainAccess(p, dataset) = IF counts = {} THEN 0 ELSE most
  BY DEF ExplainAccess
<1>2. counts \subseteq Nat
  BY FiniteRows
<1>3. purpose \in PurposesFor(p, dataset) => Cardinality(FilterDataset(p, dataset, purpose)) \in counts
  OBVIOUS
<1> HIDE DEF count
<1>4. IsFiniteSet(counts)
  <2>1. IsFiniteSet(PurposesFor(p, dataset))
    BY FinitePurposes DEF StoreInv
  <2> QED BY <2>1, FiniteImage
<1> HIDE DEF counts
<1>5. counts # {} => most \in counts /\ \A n \in counts : n <= most
  <2>1. ASSUME counts # {} PROVE \E n \in counts : \A other \in counts : other <= n
    BY <1>2, <1>4, <2>1, GreatestElement
  <2> QED BY <2>1
<1> HIDE DEF most
<1>6. ExplainAccess(p, dataset) \in Nat
  <2>1. CASE counts = {}
    BY <1>1, <2>1
  <2>2. CASE counts # {}
    <3>1. ExplainAccess(p, dataset) = most /\ most \in counts
      BY <1>1, <1>5, <2>2
    <3> QED BY <1>2, <3>1
  <2> QED BY <2>1, <2>2
<1>7. CASE FilterDataset(p, dataset, purpose) = {}
  BY <1>6, <1>7, FiniteRows
<1>8. CASE FilterDataset(p, dataset, purpose) # {}
  <2>1. purpose \in PurposesFor(p, dataset)
    BY <1>8, ShownPurposes
  <2> QED BY <1>1, <1>3, <1>5, <2>1
<1> QED BY <1>7, <1>8

\* In every state: whatever a principal reads of a record was released by the
\* dataset and by a contract that entitles it to this record, and nothing of it
\* is denied by a standing contract, by the contract itself or, under a grant,
\* by the grant, through all objects and arrays; and the summary of what it may
\* see misses no purpose (pdp.ts: filterDataset, explainAccess; predicate.ts:
\* projectAttrs).
THEOREM DatasetReadsAlwaysTruthful == DecisionSpec => []DatasetReadsAreTruthful
<1>1. StoreInv /\ DualControl /\ GrantsWithinContract /\ StoreFinite /\ policy \in Policy
        => DatasetReadsAreTruthful
  BY RowsShowReleasedFields, SummaryMissesNothing DEF DatasetReadsAreTruthful
<1> QED BY <1>1, DecisionsUseStore, StoreInvariant, AlwaysDualControl, AlwaysWithinContract,
           AlwaysFinite, PolicyIsImported, PTL
===============================================================================
