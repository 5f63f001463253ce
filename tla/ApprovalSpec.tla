---------------------------- MODULE ApprovalSpec ----------------------------
(***************************************************************************)
(* What the approval ceremony promises, with no process, clock, database   *)
(* or log in sight.  A high-risk action is opened by the agent; a human    *)
(* grants or closes it; a granted action is taken by one executor, once;   *)
(* only a taken action may change pretix, and it changes it once.  An      *)
(* action that was closed never changes anything.                          *)
(***************************************************************************)
EXTENDS Naturals

CONSTANT Actions          \* the handles of the proposed actions

VARIABLES stage,          \* where each action stands in the ceremony
          effects         \* how often pretix applied each action

specVars == <<stage, effects>>

Stages == {"none", "open", "granted", "closed", "taken"}

SpecInit == /\ stage = [a \in Actions |-> "none"]
            /\ effects = [a \in Actions |-> 0]

Move(a, from, to) == /\ stage[a] \in from
                     /\ stage' = [stage EXCEPT ![a] = to]
                     /\ UNCHANGED effects

Open(a) == Move(a, {"none"}, "open")
Grant(a) == Move(a, {"open"}, "granted")

\* A refusal, or the deadline.  The deadline may also overtake a grant.
Close(a) == Move(a, {"open", "granted"}, "closed")
Take(a) == Move(a, {"granted"}, "taken")

Affect(a) == /\ stage[a] = "taken"
             /\ effects[a] = 0
             /\ effects' = [effects EXCEPT ![a] = 1]
             /\ UNCHANGED stage

\* One sweep (`pretix-agent-mcp pending`) closes every action past its deadline.
Sweep == \E S \in SUBSET {a \in Actions : stage[a] = "open"} :
           /\ stage' = [a \in Actions |-> IF a \in S THEN "closed" ELSE stage[a]]
           /\ UNCHANGED effects

SpecNext == \/ \E a \in Actions : \/ Open(a)
                                  \/ Grant(a)
                                  \/ Close(a)
                                  \/ Take(a)
                                  \/ Affect(a)
            \/ Sweep

Ceremony == SpecInit /\ [][SpecNext]_specVars
=============================================================================
