----------------------- MODULE MCControlPlaneRepository -----------------------
(***************************************************************************)
(* A small instance of ControlPlaneRepository: two requests and a reset,   *)
(* and deployments that begin without a file, with a current row, with an  *)
(* old API state, and with an old store that can or cannot be migrated.    *)
(***************************************************************************)
EXTENDS ControlPlaneRepository

CONSTANTS unseat, reset

Ops == {unseat, reset}
Removals == {unseat}

RowOf(store, version, legacy, fixtures) ==
  [store |-> store, api |-> version, legacyGrants |-> legacy, fixtures |-> fixtures,
   whole |-> TRUE, audit |-> <<Seeded>>]

Files ==
  {NoFile, RowOf(3, 1, FALSE, TRUE),
   RowOf(2, 1, FALSE, FALSE), RowOf(2, 1, TRUE, FALSE)}
=============================================================================
