--------------------------- MODULE AtomicControlPlane ---------------------------
(***************************************************************************)
(* What the durable control plane promises to those who use it: a history  *)
(* of events that only grows, except when a kept copy of it is put back,   *)
(* when it is reset, or when it is given up.  A request whose success was  *)
(* reported is in the history, one whose failure was reported never is.    *)
(*                                                                         *)
(* There is no process, no memory, no half-written file and no migration   *)
(* step here: ControlPlaneRepository shows that the code's protocol of     *)
(* loads, saves, undos, backups and restores, with crashes in between,     *)
(* looks like this.                                                        *)
(***************************************************************************)
EXTENDS Naturals, Sequences

CONSTANTS
  Op,       \* requests that change the control plane
  Reset,    \* the one of them that starts the history afresh
  Upkeep,   \* events the program adds of its own accord
  Seed      \* the event of Upkeep every fresh history begins with

VARIABLES
  log,        \* the durable history
  accepted,   \* requests reported done, while the history that has them stands
  refused,    \* requests reported failed
  copies      \* histories kept aside

abstract == <<log, accepted, refused, copies>>

Events(history) == {history[i] : i \in 1 .. Len(history)}

Extends(history, base) ==
  /\ Len(history) > Len(base)
  /\ SubSeq(history, 1, Len(base)) = base

Init ==
  /\ log \in Seq(Upkeep)
  /\ accepted = {}
  /\ refused = {}
  /\ copies = {}

\* A request takes effect as a whole, in one step, at the end of the history.
Commit(op) ==
  /\ op \notin Events(log) \cup refused
  /\ log' = Append(IF op = Reset THEN <<Seed>> ELSE log, op)
  /\ accepted' = accepted \cap Events(log')
  /\ UNCHANGED <<refused, copies>>

Accept(op) ==
  /\ op \in Events(log)
  /\ accepted' = accepted \cup {op}
  /\ UNCHANGED <<log, refused, copies>>

Refuse(op) ==
  /\ op \notin Events(log)
  /\ \A copy \in copies : op \notin Events(copy)
  /\ refused' = refused \cup {op}
  /\ UNCHANGED <<log, accepted, copies>>

Maintain ==
  /\ Extends(log', log)
  /\ \A i \in Len(log) + 1 .. Len(log') : log'[i] \in Upkeep
  /\ UNCHANGED <<accepted, refused, copies>>

Keep ==
  /\ copies' \subseteq copies \cup {log}
  /\ UNCHANGED <<log, accepted, refused>>

PutBack ==
  /\ log' \in copies
  /\ accepted' = accepted \cap Events(log')
  /\ UNCHANGED <<refused, copies>>

GiveUp ==
  /\ log' = << >>
  /\ accepted' = {}
  /\ copies' \subseteq copies
  /\ UNCHANGED refused

Next ==
  \/ \E op \in Op : Commit(op) \/ Accept(op) \/ Refuse(op)
  \/ Maintain \/ Keep \/ PutBack \/ GiveUp

Spec == Init /\ [][Next]_abstract

\* Success reported means the request is in the history; failure reported
\* means it is neither there nor in any copy that could be put back.
Promise ==
  /\ accepted \subseteq Events(log)
  /\ refused \cap Events(log) = {}
  /\ \A copy \in copies : refused \cap Events(copy) = {}
=============================================================================
