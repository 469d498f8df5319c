------------------------------ MODULE ModeLock ------------------------------
(***************************************************************************)
(* What the handle of a model promises about execution modes, apart from   *)
(* locks, candidates and failures: the first context that is created       *)
(* chooses the mode, later ones have it too, and it is never unchosen.     *)
(***************************************************************************)
CONSTANTS Thread, Mode, Unlocked

VARIABLES
  mode,    \* the mode of the model
  context  \* the mode of each thread's context, or Unlocked

vars == <<mode, context>>

Init ==
  /\ mode = Unlocked
  /\ context = [t \in Thread |-> Unlocked]

(* A context is created; the first one fixes the mode. *)
Create(t, m) ==
  /\ context[t] = Unlocked
  /\ mode \in {Unlocked, m}
  /\ mode' = m
  /\ context' = [context EXCEPT ![t] = m]

Free(t) ==
  /\ context[t] # Unlocked
  /\ context' = [context EXCEPT ![t] = Unlocked]
  /\ UNCHANGED mode

Next == \E t \in Thread : Free(t) \/ \E m \in Mode : Create(t, m)

Spec == Init /\ [][Next]_vars
=============================================================================
