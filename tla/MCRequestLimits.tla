----------------------------- MODULE MCRequestLimits -----------------------------
(***************************************************************************)
(* Small instances of RequestLimits: maps for one key, so that every       *)
(* second key finds them full, and a lockout of two out of four accounts.  *)
(***************************************************************************)
EXTENDS RequestLimits

CONSTANTS office, home, emma, hugo

Peers == {office, home}
People == {emma, hugo}
=============================================================================
