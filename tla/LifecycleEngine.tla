-------------------------- MODULE LifecycleEngine --------------------------
(***************************************************************************)
(* The generic state machine every governed record is built on             *)
(* (StateMachine in engine/state_machine.py): named states, declared       *)
(* edges, edges from any state, and fire as the only way to move.          *)
(*                                                                         *)
(* This is the abstract specification of what a lifecycle column does.     *)
(* The lifecycle modules substitute their declared machine for the         *)
(* constants and the column of their records for state.  Cascades and jobs *)
(* of those modules assign the column directly, so that they keep to the   *)
(* declared machine is a property of each module and not a matter of form. *)
(* Gates are the preconditions of each edge and belong to the modules.     *)
(***************************************************************************)
CONSTANTS
  Entity,      \* the records of one kind, existing or not
  Absent,      \* the value of state for a record that does not exist yet
  Initial,     \* StateMachine.initial
  States,      \* StateMachine.states
  Terminal,    \* StateMachine.terminal
  Edges,       \* pairs <<source, target>> of the declared transitions
  Wildcards    \* targets of the transitions whose source is "*"

VARIABLE state   \* the lifecycle column, by record

\* A declared transition, the direct one first and the wildcard after it.
Lookup(source, target) == <<source, target>> \in Edges \/ target \in Wildcards

\* What one request, cascade or job may do to one record.  A wildcard to
\* the state a record is in leaves the column as it is.  fire looks up the
\* edge and never asks for the declared end states, which only describe
\* serves: that a record stays in one is what this specification promises
\* and each module must keep by its gates and its edges.
Moves(source, target) ==
  \/ target = source
  \/ source = Absent /\ target = Initial
  \/ /\ source \in States \ Terminal
     /\ target \in States
     /\ Lookup(source, target)

Init == state = [e \in Entity |-> Absent]

\* One transaction moves any number of records, each along one edge.
Fire ==
  /\ state' \in [Entity -> States \cup {Absent}]
  /\ \A e \in Entity : Moves(state[e], state'[e])

Spec == Init /\ [][Fire]_state

=============================================================================
