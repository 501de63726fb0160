--------------------------- MODULE CommandChannel ---------------------------
(***************************************************************************)
(* What send_command promises its caller, without connections, threads or  *)
(* timers: a remote call that takes effect at most once.  An answer means  *)
(* that this command took effect; a refusal means that it never will; of a *)
(* lost call nothing is known, and it may still take effect later.         *)
(***************************************************************************)
EXTENDS Naturals

CONSTANTS Command

VARIABLES
    outcome,     \* what the caller knows
    effects      \* how often the command took effect

vars == <<outcome, effects>>

Init ==
    /\ outcome = [k \in Command |-> "open"]
    /\ effects = [k \in Command |-> 0]

Effect(k) ==
    /\ effects[k] = 0
    /\ outcome[k] \in {"open", "lost"}
    /\ effects' = [effects EXCEPT ![k] = 1]
    /\ UNCHANGED outcome

Answer(k) ==
    /\ effects[k] = 1
    /\ outcome[k] = "open"
    /\ outcome' = [outcome EXCEPT ![k] = "answered"]
    /\ UNCHANGED effects

Refuse(k) ==
    /\ effects[k] = 0
    /\ outcome[k] = "open"
    /\ outcome' = [outcome EXCEPT ![k] = "refused"]
    /\ UNCHANGED effects

Lose(k) ==
    /\ outcome[k] = "open"
    /\ outcome' = [outcome EXCEPT ![k] = "lost"]
    /\ UNCHANGED effects

Next == \E k \in Command : Effect(k) \/ Answer(k) \/ Refuse(k) \/ Lose(k)

Spec == Init /\ [][Next]_vars
=============================================================================
