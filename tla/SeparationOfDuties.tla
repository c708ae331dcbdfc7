-------------------------- MODULE SeparationOfDuties --------------------------
(***************************************************************************)
(* The executable separation-of-duties policy of                           *)
(* packages/cca-core/src/governance.ts.  A fact is one warehouse           *)
(* capability of a principal: the purpose it is held for, the actions it   *)
(* allows and the products it spans.  Every operator below takes the facts *)
(* of one principal, so the principal itself is not part of a fact.        *)
(***************************************************************************)
EXTENDS FiniteSets

\* A capability whose capsule names no products spans all of them.
EveryProduct == "*"

Spans(fact, product) == EveryProduct \in fact.products \/ product \in fact.products

Operates(fact) == "operate" \in fact.actions

-----------------------------------------------------------------------------
\* WAREHOUSE_SOD_RULES: the left and the right selector of each rule.

MasterDataRule(left, right) ==
  /\ Operates(left)  /\ Spans(left, "s4_master")
  /\ Operates(right) /\ Spans(right, "transactions")

AuditRule(left, right) == left.purpose = "audit" /\ Operates(right)

GovernanceRule(left, right) == left.purpose = "data-governance" /\ Operates(right)

\* evaluateSodFacts returns a violation exactly when two facts, which may be
\* the same one, match the two sides of a rule.
SodViolated(facts) ==
  \E left, right \in facts :
    \/ MasterDataRule(left, right)
    \/ AuditRule(left, right)
    \/ GovernanceRule(left, right)
===============================================================================
