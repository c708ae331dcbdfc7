----------------------------- MODULE PolicyObjects -----------------------------
(***************************************************************************)
(* The immutable policy objects of the core library: personas, capsules    *)
(* and contracts, those of the seed and those a role draft gives rise to.  *)
(* applyRoleDraft (packages/cca-core/src/lifecycle.ts) names the objects   *)
(* it creates by a hash of their content, so here an object IS its content *)
(* and two drafts share an object exactly when the hashed parts agree.     *)
(***************************************************************************)
EXTENDS Integers, FiniteSets

CONSTANTS
  BasePersona,   \* personas of the seed or the imported snapshot
  BaseCapsule,   \* capsules that exist from the start
  BaseContract,  \* contracts that exist from the start
  Draft,         \* role drafts that pass validateRoleDraft
  DatasetLevel   \* classification rank of each dataset

\* CLASS_RANK plus one; 0 is the ceiling "none", which clears nothing.
Ceiling == 0 .. 3

Action == {"view", "operate", "rotate", "administer", "audit"}

\* The verbs a role draft or a JIT request may ask for.
WarehouseAction == {"view", "operate"}

-----------------------------------------------------------------------------
\* Objects created by applyRoleDraft.  A draft's regions, departments and
\* sources are folded into its products: they enter the same scope hash.

CapabilityPersona(d) ==
  [id |-> "capability", actions |-> d.verbs, ceiling |-> d.ceiling]

ScopeCapsule(d) ==
  [id |-> "scope", parent |-> "none", purpose |-> d.purpose,
   products |-> d.products, managed |-> TRUE]

RoleContract(d) ==
  [id |-> "warehouse.role", dataset |-> "warehouse", purpose |-> d.purpose,
   personas |-> {CapabilityPersona(d)}, actions |-> d.verbs, ceiling |-> d.ceiling,
   scope |-> d.products, denyFields |-> d.denyFields, approvalRequired |-> FALSE]

Persona  == BasePersona  \cup {CapabilityPersona(d) : d \in Draft}
Capsule  == BaseCapsule  \cup {ScopeCapsule(d) : d \in Draft}
Contract == BaseContract \cup {RoleContract(d) : d \in Draft}

-----------------------------------------------------------------------------
\* store.descendants: the capsule and everything below it.  It is the least
\* set that holds c and is closed under parentId.
Children(c) == {k \in Capsule : k.parent = c.id}

Subtree == [c \in Capsule |->
  {k \in Capsule :
     \A S \in SUBSET Capsule :
       (c \in S /\ \A x \in S : Children(x) \subseteq S) => k \in S}]

Descendants(c) == Subtree[c]

\* personaMatchesContract: the allowed personas already include those that
\* inherit an allowed one.
PersonaMatchesContract(persona, contract) == persona \in contract.personas

\* The smaller of the persona's and the contract's classification ceiling.
ClassificationMax(persona, contract) ==
  IF persona.ceiling <= contract.ceiling THEN persona.ceiling ELSE contract.ceiling
===============================================================================
