------------------------------ MODULE TaskFifo ------------------------------
(***************************************************************************)
(* What the cross-thread task queue of an event loop promises, without     *)
(* any of its mechanism: a task that a thread hands over is appended, in   *)
(* one step, to one totally ordered log; the loop takes the tasks out of   *)
(* the log in that order, each of them once.  A task is named by the       *)
(* thread that pushes it and the number of that push.                      *)
(***************************************************************************)
EXTENDS Naturals, Sequences

CONSTANTS
  Producers,   \* the threads that push tasks
  MaxPush      \* bound: how often a thread pushes

VARIABLES
  count,   \* count[p]: the number of tasks p has pushed
  log,     \* all the tasks ever pushed, in the order in which they were
  out      \* the tasks taken out so far

vars == <<count, log, out>>

Task == Producers \X Nat

Init ==
  /\ count = [p \in Producers |-> 0]
  /\ log = << >>
  /\ out = << >>

Push(p) ==
  /\ count[p] < MaxPush
  /\ count' = [count EXCEPT ![p] = @ + 1]
  /\ log' = Append(log, <<p, count[p] + 1>>)
  /\ UNCHANGED out

Pop ==
  /\ Len(out) < Len(log)
  /\ out' = Append(out, log[Len(out) + 1])
  /\ UNCHANGED <<count, log>>

Next == Pop \/ \E p \in Producers : Push(p)

Spec == Init /\ [][Next]_vars

\* A loop that keeps running takes out every task in the end.
FairSpec == Spec /\ WF_vars(Pop)
=============================================================================
