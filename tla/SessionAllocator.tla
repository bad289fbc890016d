-------------------------- MODULE SessionAllocator ---------------------------
(***************************************************************************)
(* What a ComputeSessionPool promises the graph runs that share it: each    *)
(* gets a session nobody else has, an idle one whenever there is one, and   *)
(* gives it back in one step.  A run that fails loses its session.          *)
(***************************************************************************)
EXTENDS Integers

CONSTANTS Runs, None

VARIABLES
  free,     \* idle sessions
  hold,     \* hold[r]: the session of run r, or None
  created,  \* how many sessions there are; they are numbered from 0
  lost      \* sessions of failed runs

vars == <<free, hold, created, lost>>

Init ==
  /\ free = {}
  /\ hold = [r \in Runs |-> None]
  /\ created = 0
  /\ lost = {}

Reuse(r) ==
  /\ hold[r] = None
  /\ \E i \in free :
       /\ hold' = [hold EXCEPT ![r] = i]
       /\ free' = free \ {i}
  /\ UNCHANGED <<created, lost>>

Create(r) ==
  /\ hold[r] = None
  /\ free = {}
  /\ hold' = [hold EXCEPT ![r] = created]
  /\ created' = created + 1
  /\ UNCHANGED <<free, lost>>

Return(r) ==
  /\ hold[r] # None
  /\ free' = free \cup {hold[r]}
  /\ hold' = [hold EXCEPT ![r] = None]
  /\ UNCHANGED <<created, lost>>

Lose(r) ==
  /\ hold[r] # None
  /\ lost' = lost \cup {hold[r]}
  /\ hold' = [hold EXCEPT ![r] = None]
  /\ UNCHANGED <<free, created>>

Next == \E r \in Runs : Reuse(r) \/ Create(r) \/ Return(r) \/ Lose(r)

Spec == Init /\ [][Next]_vars
=============================================================================
