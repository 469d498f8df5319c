--------------------------- MODULE PageResidency ---------------------------
(***************************************************************************)
(* What the residency coordinator promises its callers, with no regions,   *)
(* counts, pending lists or lease ids: a holder names the pages it is      *)
(* about to read; they stay resident until it lets go; and when everybody  *)
(* has let go, only the common pages are still held in memory.             *)
(***************************************************************************)
EXTENDS Integers

CONSTANTS Page, CommonPages, Holder

VARIABLES
  stage,     \* "constructing", "serving" or "discarded"
  held,      \* the pages each holder relies on
  abandoned, \* pages of holders that let go in the middle of a computation
  resident,  \* the pages requested and not handed back
  stray,     \* the pages of requests that failed half way
  broken     \* no further request is honoured

vars == <<stage, held, abandoned, resident, stray, broken>>

Everyone == UNION {held[h] : h \in Holder}

Init ==
  /\ stage     = "constructing"
  /\ held      = [h \in Holder |-> {}]
  /\ abandoned = {}
  /\ resident  = {}
  /\ stray     = {}
  /\ broken    = FALSE

Start ==
  /\ stage = "constructing"
  /\ stage'    = "serving"
  /\ resident' = resident \cup CommonPages
  /\ UNCHANGED <<held, abandoned, stray, broken>>

StartFails ==
  /\ stage = "constructing"
  /\ stage'    = "discarded"
  /\ resident' \in SUBSET CommonPages
  /\ UNCHANGED <<held, abandoned, stray, broken>>

Take(h, S) ==
  /\ stage = "serving" /\ ~broken
  /\ S # {}
  /\ resident' = resident \cup S
  /\ UNCHANGED <<stage, stray, broken>>
  /\ held[h] = {}
  /\ held' = [held EXCEPT ![h] = S]
  /\ UNCHANGED abandoned

(* A request that fails has taken some of its pages and holds none. *)
TakeFails(S) ==
  /\ stage = "serving" /\ ~broken
  /\ resident' = resident \cup S
  /\ stray'    = stray \cup S
  /\ UNCHANGED <<stage, broken, held, abandoned>>

(* Letting go may hand back any pages D that nobody relies on, and the     *)
(* last to let go hands back everything unless that fails.                 *)
LetGo(h, D, fails) ==
  /\ resident' = resident \ D
  /\ stray'    = stray \ D
  /\ broken'   = (broken \/ fails)
  /\ held[h] # {}
  /\ held' = [held EXCEPT ![h] = {}]
  /\ D \cap (CommonPages \cup abandoned \cup Everyone') = {}
  /\ Everyone' = {} /\ ~broken' => resident' \subseteq CommonPages \cup stray'
  /\ UNCHANGED <<stage, abandoned>>

(* Letting go before the computation is over is refused, loudly: the pages *)
(* stay and nothing is granted any more.                                   *)
Abandon(h) ==
  /\ broken' = TRUE
  /\ UNCHANGED <<stage, resident, stray>>
  /\ held[h] # {}
  /\ abandoned' = abandoned \cup held[h]
  /\ held'      = [held EXCEPT ![h] = {}]

HandOver(h, g) ==
  /\ UNCHANGED <<stage, resident, stray, broken>>
  /\ held[h] # {} /\ held[g] = {}
  /\ held' = [held EXCEPT ![g] = held[h], ![h] = {}]
  /\ UNCHANGED abandoned

Next ==
  \/ Start
  \/ StartFails
  \/ \E h \in Holder, S \in SUBSET Page : Take(h, S)
  \/ \E S \in SUBSET Page : TakeFails(S)
  \/ \E h \in Holder, D \in SUBSET Page, fails \in BOOLEAN : LetGo(h, D, fails)
  \/ \E h \in Holder : Abandon(h)
  \/ \E h, g \in Holder : HandOver(h, g)

Spec == Init /\ [][Next]_vars
=============================================================================
