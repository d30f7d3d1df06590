---------------------------- MODULE PoolPromise ----------------------------
(***************************************************************************)
(* What scaling promises about the number of agents of a pool, without VMs *)
(* or templates.  A call may remove agents only down to the number it was  *)
(* asked for, and it reports success only with that many, or with one less *)
(* if it found no agent of the pool.  It answers for the agents it sees    *)
(* and for those it removes: an agent whose removal was given up in an     *)
(* earlier call is leaving, and when it goes, at any time, it is lost to   *)
(* the call that still counts on it.  Agents may also appear at any time,  *)
(* because Azure finishes deployments that nobody waits for any more.      *)
(***************************************************************************)
EXTENDS Integers

CONSTANT MaxAgents

VARIABLES
  count,    \* agents the pool has
  leaving,  \* those of them whose removal was given up but may go on
  lost,     \* agents the last call counted on, that have left
  found,    \* the last call found an agent of the pool
  goal,     \* agents the last call was asked for
  outcome   \* "working" while it runs, then what it returned

vars == <<count, leaving, lost, found, goal, outcome>>

Init ==
  /\ count \in 1 .. MaxAgents
  /\ leaving = 0
  /\ lost = 0
  /\ found = TRUE
  /\ goal = count
  /\ outcome = "ok"

Ask(n) ==
  /\ outcome # "working"
  /\ goal' = n
  /\ outcome' = "working"
  /\ lost' = 0
  /\ UNCHANGED <<count, leaving, found>>

Look ==
  /\ outcome = "working"
  /\ found' \in BOOLEAN
  /\ UNCHANGED <<count, leaving, lost, goal, outcome>>

\* An agent that was lost may be the one that appears.
Appear ==
  /\ count' = count + 1
  /\ \/ UNCHANGED lost
     \/ lost > 0 /\ lost' = lost - 1
  /\ UNCHANGED <<leaving, found, goal, outcome>>

\* It may be one that was leaving anyway.
Remove ==
  /\ outcome = "working"
  /\ count + lost > goal
  /\ count' = count - 1
  /\ \/ UNCHANGED leaving
     \/ leaving > 0 /\ leaving' = leaving - 1
  /\ UNCHANGED <<lost, found, goal, outcome>>

GiveUpRemoval ==
  /\ outcome = "working"
  /\ leaving < count
  /\ leaving' = leaving + 1
  /\ UNCHANGED <<count, lost, found, goal, outcome>>

Leave ==
  /\ leaving > 0
  /\ leaving' = leaving - 1
  /\ count' = count - 1
  /\ lost' \in {lost, lost + 1}
  /\ UNCHANGED <<found, goal, outcome>>

Stay ==
  /\ leaving > 0
  /\ leaving' = leaving - 1
  /\ UNCHANGED <<count, lost, found, goal, outcome>>

Succeed ==
  /\ outcome = "working"
  /\ found' \in BOOLEAN
  /\ count + lost >= IF found' THEN goal ELSE goal - 1
  /\ outcome' = "ok"
  /\ UNCHANGED <<count, leaving, lost, goal>>

Fail ==
  /\ outcome = "working"
  /\ outcome' = "error"
  /\ UNCHANGED <<count, leaving, lost, found, goal>>

Next ==
  \/ \E n \in 1 .. MaxAgents : Ask(n)
  \/ Look
  \/ Appear
  \/ Remove
  \/ GiveUpRemoval
  \/ Leave
  \/ Stay
  \/ Succeed
  \/ Fail

Spec == Init /\ [][Next]_vars

=============================================================================
