----------------------------- MODULE ClaimOnce -----------------------------
(***************************************************************************)
(* What every "take it first, then do it" mechanism of the program         *)
(* promises: a piece of work (a person of an announcement, a slot of a     *)
(* schedule, a step of a reminder plan) is taken by one runner, is done at *)
(* most once, and only after it was taken.  Work whose runner died between *)
(* the two is never done: the promise is at most once, not exactly once.   *)
(***************************************************************************)
EXTENDS Naturals

CONSTANT Work               \* the pieces of work

VARIABLES taken,            \* the pieces some runner has taken
          done              \* how often each piece was done

Init ==
  /\ taken = {}
  /\ done = [w \in Work |-> 0]

\* One statement of the database takes a set of pieces nobody has taken yet.
Take(S) ==
  /\ S \cap taken = {}
  /\ taken' = taken \cup S
  /\ UNCHANGED done

\* The runner that took w does it.
Do(w) ==
  /\ w \in taken
  /\ done[w] = 0
  /\ done' = [done EXCEPT ![w] = 1]
  /\ UNCHANGED taken

Next ==
  \/ \E S \in SUBSET Work : Take(S)
  \/ \E w \in Work : Do(w)

vars == <<taken, done>>

Spec == Init /\ [][Next]_vars
=============================================================================
