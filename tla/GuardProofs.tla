----------------------------- MODULE GuardProofs -----------------------------
(***************************************************************************)
(* That no order of calls, approvals, restarts and changes made elsewhere  *)
(* lets the agent put an event on sale, delete one, or change one on sale: *)
(* for any events, tasks, handles and configurations.                      *)
(***************************************************************************)
EXTENDS LiveGuard, TLAPS

Steps == {"idle", "look", "preview", "body", "await"}

\* TypeOK, without the bound on effects, which follows from the ceremony.
Typed ==
  /\ conf \in Confs
  /\ event \in [Events -> Flags \cup {None}]
  /\ stage \in [Handles -> Q!Stages] /\ effects \in [Handles -> Nat]
  /\ queued \in [Handles -> Calls \cup {None}]
  /\ pc \in [Tasks -> Steps]
  /\ call \in [Tasks -> Calls \cup {None}]
  /\ wire \in [Tasks -> Requests \cup {None}]
  /\ raced \in [Tasks -> BOOLEAN]
  /\ crossings \subseteq Authors
  /\ onSale \subseteq Authors \cup {"raced"}

\* A queued action holds the call of a tool that needs a human, or that was escalated.
Queued == \A h \in Handles : /\ stage[h] # "none" => queued[h] \in Calls
                             /\ effects[h] \in {0, 1}
                             /\ stage[h] # "taken" => effects[h] = 0

\* A task that works holds a call; until it sends, nothing of its own is under way, and its
\* tool is enabled in the configuration of the process it runs in.
Working(p) ==
  /\ pc[p] # "idle" => call[p] \in Calls
  /\ pc[p] \in {"look", "preview", "body"} => wire[p] = None /\ Enabled(call[p].tool)
  /\ pc[p] \in {"look", "preview"} => call[p].handle = None
  /\ pc[p] = "look" => call[p].tool \in Guarded

\* The action a task is about to send, or has sent and pretix has not answered.
Carries(p, h) == \/ pc[p] = "body" /\ call[p].handle = h
                 \/ wire[p] # None /\ wire[p].handle = h
OneCarrier ==
  /\ \A p \in Tasks, h \in Handles : Carries(p, h) => stage[h] = "taken" /\ effects[h] = 0
  /\ \A p, q \in Tasks, h \in Handles : Carries(p, h) /\ Carries(q, h) => p = q

\* What an agent's own call may be, once it needs no human any more: not one that crosses the
\* boundary, and not one of an event that the guard could have seen on sale.
AgentMay(t, e, p) == /\ t \notin HighRisk
                     /\ t \in Guarded => ~Selling(event[e]) \/ raced[p]
OwnSay(p) ==
  /\ pc[p] = "body" /\ Author(call[p]) = "agent" => AgentMay(call[p].tool, call[p].event, p)
  /\ wire[p] # None /\ wire[p].author = "agent" => AgentMay(wire[p].tool, wire[p].event, p)

GInv == /\ Typed
        /\ Queued
        /\ \A p \in Tasks : Working(p) /\ OwnSay(p)
        /\ OneCarrier
        /\ BoundaryNeedsConsent
        /\ OnSaleNeedsConsent

-----------------------------------------------------------------------------
(* What run_tool, the guard and pretix's answers come to.                  *)

\* A call goes to the guard only with a guarded tool, and at once to the body only if no
\* agent needs permission for it.
LEMMA FirstSteps ==
  ASSUME NEW t \in Tools
  PROVE  /\ FirstStep(t) \in {"preview", "look", "body"}
         /\ FirstStep(t) = "look" => t \in Guarded
         /\ FirstStep(t) = "body" => t \notin Guarded /\ (t \in HighRisk => t \in conf.auto)
<1>1. CASE Capability(t) = "write:high-risk"
  BY <1>1 DEF FirstStep
<1>2. CASE Capability(t) # "write:high-risk" /\ t \in Guarded
  BY <1>2 DEF FirstStep
<1>3. CASE Capability(t) # "write:high-risk" /\ t \notin Guarded
  BY <1>3 DEF FirstStep, Capability
<1>4. QED
  BY <1>1, <1>2, <1>3

\* Who is behind a call.
LEMMA Authored ==
  ASSUME NEW c
  PROVE  /\ Author(c) \in Authors
         /\ c.handle # None => Author(c) = "approval"
         /\ Author(c) = "agent" => c.handle = None /\ c.tool \notin HighRisk \cap conf.auto
<1>1. CASE c.handle # None
  BY <1>1 DEF Author, Authors
<1>2. CASE c.handle = None /\ c.tool \in HighRisk \cap conf.auto
  BY <1>2 DEF Author, Authors
<1>3. CASE c.handle = None /\ c.tool \notin HighRisk \cap conf.auto
  BY <1>3 DEF Author, Authors
<1>4. QED
  BY <1>1, <1>2, <1>3

\* What any tool, and what a tool that is not high-risk, can leave an event in.
LEMMA Results ==
  ASSUME Typed, NEW r \in Requests, NEW flags \in Result(r)
  PROVE  /\ flags \in Flags \cup {None}
         /\ r.tool \notin HighRisk => flags # None /\ ~GoesOnSale(r.event, flags)
<1>a. r.event \in Events /\ event[r.event] \in Flags \cup {None} /\ r.tool \in Tools
  BY DEF Typed, Requests
<1>1. CASE r.tool \in {"create_event", "clone_event"}
  <2>1. flags = Draft
    BY <1>1 DEF Result, Created, Cloned
  <2>2. Draft \in Flags /\ ~Draft.live
    BY DEF Draft, Flags
  <2>3. QED
    BY <2>1, <2>2, GuardAssumption DEF Flags, GoesOnSale, Selling
<1>2. CASE r.tool = "update_event"
  BY <1>a, <1>2 DEF Result, Changed, GoesOnSale
<1>3. CASE r.tool = "unpublish_event"
  <2>1. event[r.event] \in Flags /\ flags = [event[r.event] EXCEPT !.live = FALSE]
    BY <1>a, <1>3 DEF Result, Unpublished, Changed
  <2>2. flags \in Flags /\ ~flags.live
    BY <2>1 DEF Flags
  <2>3. QED
    BY <2>2, GuardAssumption DEF Flags, GoesOnSale, Selling
<1>4. CASE r.tool = "publish_event"
  <2>1. flags = [live |-> TRUE, testmode |-> FALSE]
    BY <1>4 DEF Result, Published
  <2>2. QED
    BY <1>4, <2>1 DEF Flags, HighRisk
<1>5. CASE r.tool = "delete_event"
  BY <1>5 DEF Result, Deleted, HighRisk
<1>6. QED
  BY <1>a, <1>1, <1>2, <1>3, <1>4, <1>5 DEF Tools, HighRisk, Guarded

\* A change elsewhere that Overtaken records leaves every agent's call what it may be.
LEMMA OvertakenKeeps ==
  ASSUME Typed, NEW e \in Events, NEW flags, Overtaken(e, flags),
         event' = [event EXCEPT ![e] = flags],
         NEW p \in Tasks, NEW t, NEW f \in Events, AgentMay(t, f, p),
         (pc[p] = "body" /\ call[p].event = f) \/ (wire[p] # None /\ wire[p].event = f)
  PROVE  AgentMay(t, f, p)'
<1>1. raced'[p] = \/ raced[p]
                  \/ /\ \/ pc[p] = "body" /\ call[p].event = e
                        \/ wire[p] # None /\ wire[p].event = e
                     /\ GoesOnSale(e, flags)
  BY DEF Overtaken
<1>2. CASE f # e
  BY <1>1, <1>2 DEF AgentMay, Typed
<1>3. CASE f = e
  BY <1>1, <1>3 DEF AgentMay, Typed, GoesOnSale
<1>4. QED
  BY <1>2, <1>3

-----------------------------------------------------------------------------

\* Types and what the queue holds.
LEMMA GuardTypes == GInv /\ [Next]_vars => Typed' /\ Queued'
<1> SUFFICES ASSUME GInv, [Next]_vars PROVE Typed' /\ Queued'
  OBVIOUS
<1>a. Typed /\ Queued /\ OneCarrier /\ \A p \in Tasks : Working(p)
  BY DEF GInv
<1> USE <1>a DEF Typed, Queued, Steps
<1>1. ASSUME NEW p \in Tasks, NEW t \in Tools, NEW e \in Events, Call(p, t, e)
      PROVE  Typed' /\ Queued'
  <2>1. [tool |-> t, event |-> e, handle |-> None] \in Calls
    BY DEF Calls
  <2>2. FirstStep(t) \in Steps
    BY FirstSteps
  <2>3. QED
    BY <1>1, <2>1, <2>2 DEF Call, Begin, queue, history
<1>2. ASSUME NEW p \in Tasks, Look(p) \/ PreviewFails(p) PROVE Typed' /\ Queued'
  BY <1>2 DEF Look, PreviewFails, End, Begin, Goto, queue, history
<1>3. ASSUME NEW p \in Tasks, NEW h \in Handles, Propose(p, h) PROVE Typed' /\ Queued'
  <2>1. /\ stage[h] = "none" /\ stage' = [stage EXCEPT ![h] = "open"] /\ UNCHANGED effects
        /\ queued' = [queued EXCEPT ![h] = call[p]] /\ call[p] \in Calls
    BY <1>3 DEF Propose, Q!Open, Q!Move, Working
  <2>2. "open" \in Q!Stages
    BY DEF Q!Stages
  <2>3. QED
    BY <1>3, <2>1, <2>2 DEF Propose, End, Begin, history
<1>4. ASSUME NEW p \in Tasks, NEW h \in Handles, Execute(p, h) PROVE Typed' /\ Queued'
  <2>1. /\ stage[h] = "granted" /\ stage' = [stage EXCEPT ![h] = "taken"]
        /\ UNCHANGED <<effects, queued, conf, event, wire, crossings, onSale>>
    BY <1>4 DEF Execute, Q!Take, Q!Move, history
  <2>2. queued[h] \in Calls /\ [queued[h] EXCEPT !.handle = h] \in Calls
    BY <2>1 DEF Calls
  <2>3. "taken" \in Q!Stages
    BY DEF Q!Stages
  <2>4. \/ Begin(p, "body", [queued[h] EXCEPT !.handle = h])
        \/ UNCHANGED <<pc, call, raced>>
    BY <1>4 DEF Execute
  <2>5. QED
    BY <2>1, <2>2, <2>3, <2>4 DEF Begin
<1>5. ASSUME NEW p \in Tasks, Send(p) PROVE Typed' /\ Queued'
  <2>1. /\ wire' = [wire EXCEPT ![p] = [tool |-> call[p].tool, event |-> call[p].event,
                                         handle |-> call[p].handle, author |-> Author(call[p])]]
        /\ pc' = [pc EXCEPT ![p] = "await"] /\ call[p] \in Calls
    BY <1>5 DEF Send, Working
  <2>2. [tool |-> call[p].tool, event |-> call[p].event, handle |-> call[p].handle,
         author |-> Author(call[p])] \in Requests
    BY <2>1, Authored DEF Calls, Requests
  <2>3. QED
    BY <1>5, <2>1, <2>2 DEF Send, queue, history
<1>6. ASSUME NEW p \in Tasks, Leave(p) \/ Refuse(p) PROVE Typed' /\ Queued'
  BY <1>6 DEF Leave, Refuse, queue, history
<1>7. ASSUME NEW p \in Tasks, Apply(p) PROVE Typed' /\ Queued'
  <2> DEFINE r == wire[p]
  <2>1. r \in Requests /\ r # None
    BY <1>7 DEF Apply
  <2>2. PICK flags \in Result(r) :
          /\ event' = [event EXCEPT ![r.event] = flags]
          /\ crossings' = IF flags = None \/ GoesOnSale(r.event, flags)
                          THEN crossings \cup {r.author} ELSE crossings
          /\ onSale' = IF r.tool \in Guarded /\ Selling(event[r.event])
                       THEN onSale \cup {IF r.author = "agent" /\ raced[p] THEN "raced"
                                         ELSE r.author}
                       ELSE onSale
          /\ effects' = IF r.handle = None THEN effects ELSE [effects EXCEPT ![r.handle] = @ + 1]
          /\ Overtaken(r.event, flags)
    BY <1>7 DEF Apply
  <2>3. flags \in Flags \cup {None} /\ r.event \in Events /\ r.author \in Authors
        /\ r.handle \in Handles \cup {None}
    BY <2>1, <2>2, Results DEF Requests
  <2>4. r.handle # None => stage[r.handle] = "taken" /\ effects[r.handle] = 0
    BY <2>1, <2>3 DEF OneCarrier, Carries
  <2>5. UNCHANGED <<conf, stage, queued, pc, call>> /\ wire' = [wire EXCEPT ![p] = None]
    BY <1>7 DEF Apply
  <2>6. raced' \in [Tasks -> BOOLEAN]
    BY <2>2 DEF Overtaken
  <2>7. crossings' \subseteq Authors /\ onSale' \subseteq Authors \cup {"raced"}
    BY <2>2, <2>3
  <2>8. event' \in [Events -> Flags \cup {None}] /\ wire' \in [Tasks -> Requests \cup {None}]
    BY <2>2, <2>3, <2>5
  <2> HIDE DEF r
  <2>9. effects' \in [Handles -> Nat] /\ Queued'
    BY <2>2, <2>3, <2>4, <2>5
  <2>10. QED
    BY <2>5, <2>6, <2>7, <2>8, <2>9
<1>8. ASSUME NEW h \in Handles, Decide(h) PROVE Typed' /\ Queued'
  <2>1. /\ stage[h] \in {"open", "granted"} /\ UNCHANGED effects
        /\ \E s \in {"granted", "closed"} : stage' = [stage EXCEPT ![h] = s]
    BY <1>8 DEF Decide, Q!Grant, Q!Close, Q!Move
  <2>2. {"granted", "closed"} \subseteq Q!Stages
    BY DEF Q!Stages
  <2>3. QED
    BY <1>8, <2>1, <2>2 DEF Decide, tasks, history
<1>9. ASSUME NEW e \in Events, NEW flags \in Flags \cup {None}, UI(e, flags)
      PROVE  Typed' /\ Queued'
  BY <1>9 DEF UI, Overtaken, queue, history
<1>10. CASE Restart
  BY <1>10 DEF Restart, queue, history
<1>11. CASE UNCHANGED vars
  BY <1>11 DEF vars, queue, tasks, history
<1>12. QED
  BY <1>1, <1>2, <1>3, <1>4, <1>5, <1>6, <1>7, <1>8, <1>9, <1>10, <1>11 DEF Next

\* A task whose step, call and request stay as they are stays what it was.
LEMMA Undisturbed ==
  ASSUME NEW q \in Tasks, Working(q), UNCHANGED <<conf, pc[q], call[q], wire[q]>>
  PROVE  Working(q)'
BY DEF Working, Enabled, Capability

\* What a task relies on while it works is kept, by its own steps and by those of others.
LEMMA GuardWorking == GInv /\ [Next]_vars => \A q \in Tasks : Working(q)'
<1> SUFFICES ASSUME GInv, [Next]_vars, NEW q \in Tasks PROVE Working(q)'
  OBVIOUS
<1>a. Typed /\ Queued /\ Working(q)
  BY DEF GInv
<1> USE <1>a
<1>b. ASSUME UNCHANGED <<conf, pc, call>>, wire'[q] \in {wire[q], None} PROVE Working(q)'
  BY <1>b DEF Working, Enabled, Capability
<1>c. ASSUME NEW p \in Tasks, p # q, UNCHANGED conf, NEW l, NEW c, NEW w,
             pc' = [pc EXCEPT ![p] = l], call' = [call EXCEPT ![p] = c] \/ UNCHANGED call,
             wire' = [wire EXCEPT ![p] = w] \/ UNCHANGED wire
      PROVE  Working(q)'
  <2>1. UNCHANGED <<conf, pc[q], call[q], wire[q]>>
    BY <1>c DEF Typed
  <2>2. QED
    BY <2>1, Undisturbed
<1>1. ASSUME NEW p \in Tasks, NEW t \in Tools, NEW e \in Events, Call(p, t, e)
      PROVE  Working(q)'
  <2>1. CASE p = q
    <3>1. /\ pc'[q] = FirstStep(t) /\ call'[q] = [tool |-> t, event |-> e, handle |-> None]
          /\ wire'[q] = None /\ UNCHANGED conf /\ Enabled(t)
      BY <1>1, <2>1 DEF Call, Begin, Typed
    <3>2. call'[q] \in Calls
      BY <3>1 DEF Calls
    <3>3. QED
      BY <3>1, <3>2, FirstSteps DEF Working, Enabled, Capability
  <2>2. CASE p # q
    BY <1>1, <2>2, <1>c DEF Call, Begin
  <2>3. QED
    BY <2>1, <2>2
<1>2. ASSUME NEW p \in Tasks, Look(p) PROVE Working(q)'
  <2>1. CASE End(p) /\ UNCHANGED <<conf, wire>>
    <3>1. CASE p = q
      BY <2>1, <3>1 DEF End, Begin, Typed, Working
    <3>2. CASE p # q
      BY <2>1, <3>2, <1>c DEF End, Begin
    <3>3. QED
      BY <3>1, <3>2
  <2>2. ASSUME NEW l \in {"preview", "body"}, Goto(p, l), UNCHANGED conf PROVE Working(q)'
    <3>1. CASE p = q
      <4>1. /\ pc[q] = "look" /\ pc'[q] = l
            /\ UNCHANGED <<conf, call, wire>>
        BY <1>2, <2>2, <3>1 DEF Look, Goto, Typed
      <4>2. QED
        BY <4>1 DEF Working, Enabled, Capability
    <3>2. CASE p # q
      BY <2>2, <3>2, <1>c DEF Goto
    <3>3. QED
      BY <3>1, <3>2
  <2>3. QED
    BY <1>2, <2>1, <2>2 DEF Look
<1>3. ASSUME NEW p \in Tasks, PreviewFails(p) \/ \E h \in Handles : Propose(p, h)
      PROVE  Working(q)'
  <2>1. End(p) /\ UNCHANGED <<conf, wire>>
    BY <1>3 DEF PreviewFails, Propose
  <2>2. CASE p = q
    BY <2>1, <2>2 DEF End, Begin, Typed, Working
  <2>3. CASE p # q
    BY <2>1, <2>3, <1>c DEF End, Begin
  <2>4. QED
    BY <2>2, <2>3
<1>4. ASSUME NEW p \in Tasks, NEW h \in Handles, Execute(p, h) PROVE Working(q)'
  <2>1. /\ UNCHANGED <<conf, wire>> /\ wire[p] = None
        /\ \/ Begin(p, "body", [queued[h] EXCEPT !.handle = h]) /\ Enabled(queued[h].tool)
           \/ UNCHANGED <<pc, call, raced>>
    BY <1>4 DEF Execute
  <2>2. [queued[h] EXCEPT !.handle = h] \in Calls
        /\ [queued[h] EXCEPT !.handle = h].tool = queued[h].tool
    <3>1. queued[h] \in Calls
      BY <1>4 DEF Execute, Q!Take, Q!Move, Queued
    <3>2. QED
      BY <3>1 DEF Calls
  <2>3. CASE UNCHANGED <<pc, call, raced>>
    BY <2>1, <2>3, <1>b
  <2>4. CASE /\ Begin(p, "body", [queued[h] EXCEPT !.handle = h])
             /\ Enabled(queued[h].tool) /\ p = q
    <3>1. pc'[q] = "body" /\ call'[q] = [queued[h] EXCEPT !.handle = h] /\ wire'[q] = None
      BY <2>1, <2>4 DEF Begin, Typed
    <3>2. QED
      BY <2>1, <2>2, <2>4, <3>1 DEF Working, Enabled, Capability
  <2>5. CASE Begin(p, "body", [queued[h] EXCEPT !.handle = h]) /\ p # q
    BY <2>1, <2>5, <1>c DEF Begin
  <2>6. QED
    BY <2>1, <2>3, <2>4, <2>5
<1>5. ASSUME NEW p \in Tasks, Send(p) PROVE Working(q)'
  <2>1. CASE p = q
    BY <1>5, <2>1 DEF Send, Typed, Working
  <2>2. CASE p # q
    BY <1>5, <2>2, <1>c DEF Send
  <2>3. QED
    BY <2>1, <2>2
<1>6. ASSUME NEW p \in Tasks, Leave(p) PROVE Working(q)'
  <2>1. CASE p = q
    BY <1>6, <2>1 DEF Leave, Typed, Working
  <2>2. CASE p # q
    BY <1>6, <2>2, <1>c DEF Leave
  <2>3. QED
    BY <2>1, <2>2
<1>7. ASSUME NEW p \in Tasks, Apply(p) \/ Refuse(p) PROVE Working(q)'
  <2>1. UNCHANGED <<conf, pc, call>> /\ wire' = [wire EXCEPT ![p] = None]
    BY <1>7 DEF Apply, Refuse
  <2>2. QED
    BY <2>1, <1>b DEF Typed
<1>8. ASSUME UNCHANGED <<conf, tasks>> \/ UNCHANGED <<conf, pc, call, wire>> PROVE Working(q)'
  BY <1>8, <1>b DEF tasks
<1>9. CASE Restart
  BY <1>9 DEF Restart, Working
<1>10. CASE \/ UNCHANGED vars
            \/ \E h \in Handles : Decide(h)
            \/ \E e \in Events, flags \in Flags \cup {None} : UI(e, flags)
  BY <1>10, <1>8 DEF vars, Decide, UI, tasks
<1>11. QED
  BY <1>1, <1>2, <1>3, <1>4, <1>5, <1>6, <1>7, <1>9, <1>10 DEF Next

-----------------------------------------------------------------------------
(* No approved action is in two hands.                                     *)

\* If nobody takes an action on and none that is taken changes, one carrier stays one.
LEMMA CarriersShrink ==
  ASSUME OneCarrier, \A p \in Tasks, h \in Handles : Carries(p, h)' => Carries(p, h),
         \A h \in Handles : stage[h] = "taken" => stage'[h] = "taken" /\ effects'[h] = effects[h]
  PROVE  OneCarrier'
BY DEF OneCarrier

\* An approved action stays in one pair of hands.
LEMMA GuardCarrier == GInv /\ [Next]_vars => OneCarrier'
<1> SUFFICES ASSUME GInv, [Next]_vars PROVE OneCarrier'
  OBVIOUS
<1>a. Typed /\ Queued /\ OneCarrier /\ \A p \in Tasks : Working(p)
  BY DEF GInv
<1>b. None \notin Handles
  BY GuardAssumption
<1>c. ASSUME \A q \in Tasks, h \in Handles : Carries(q, h)' => Carries(q, h),
             UNCHANGED <<stage, effects>>
      PROVE  OneCarrier'
  BY <1>a, <1>c, CarriersShrink
<1>d. ASSUME UNCHANGED <<pc, call>>, \A q \in Tasks : wire'[q] \in {wire[q], None},
             NEW q \in Tasks, NEW h \in Handles, Carries(q, h)'
      PROVE  Carries(q, h)
  BY <1>d DEF Carries
<1>1. ASSUME NEW p \in Tasks, NEW t \in Tools, NEW e \in Events, Call(p, t, e) PROVE OneCarrier'
  <2>1. /\ call' = [call EXCEPT ![p] = [tool |-> t, event |-> e, handle |-> None]]
        /\ \A q \in Tasks : q # p => pc'[q] = pc[q]
        /\ UNCHANGED <<wire, stage, effects>> /\ wire[p] = None
    BY <1>1, <1>a DEF Call, Begin, Typed, queue
  <2>2. ASSUME NEW q \in Tasks, NEW h \in Handles, Carries(q, h)' PROVE Carries(q, h)
    BY <2>1, <2>2, <1>a, <1>b DEF Carries, Typed
  <2>3. QED
    BY <2>1, <2>2, <1>c
<1>2. ASSUME NEW p \in Tasks, Look(p) PROVE OneCarrier'
  <2>1. /\ pc[p] = "look" /\ UNCHANGED <<wire, stage, effects>>
        /\ \E l \in Steps, c \in {None, call[p]} :
             /\ pc' = [pc EXCEPT ![p] = l]
             /\ call' = [call EXCEPT ![p] = c]
             /\ l = "body" => c = call[p]
    <3>1. call = [call EXCEPT ![p] = call[p]]
      BY <1>a DEF Typed
    <3>2. QED
      BY <1>2, <3>1 DEF Look, Goto, End, Begin, queue, Steps
  <2>2. call[p].handle = None
    BY <2>1, <1>a DEF Working
  <2>3. ASSUME NEW q \in Tasks, NEW h \in Handles, Carries(q, h)' PROVE Carries(q, h)
    <3>1. CASE q = p
      BY <2>1, <2>2, <2>3, <3>1, <1>a, <1>b DEF Carries, Typed
    <3>2. CASE q # p
      BY <2>1, <2>3, <3>2, <1>a DEF Carries, Typed
    <3>3. QED
      BY <3>1, <3>2
  <2>4. QED
    BY <2>1, <2>3, <1>c
<1>3. ASSUME NEW p \in Tasks, End(p) \/ Leave(p), UNCHANGED wire,
             NEW q \in Tasks, NEW h \in Handles, Carries(q, h)'
      PROVE  Carries(q, h)
  <2>1. pc' = [pc EXCEPT ![p] = "idle"] /\ call' = [call EXCEPT ![p] = None]
    BY <1>3 DEF End, Begin, Leave
  <2>2. QED
    BY <2>1, <1>3, <1>a DEF Carries, Typed
<1>4. ASSUME NEW p \in Tasks, PreviewFails(p) PROVE OneCarrier'
  BY <1>4, <1>3, <1>c DEF PreviewFails, queue
<1>5. ASSUME NEW p \in Tasks, Leave(p) PROVE OneCarrier'
  <2>1. UNCHANGED <<wire, stage, effects>>
    BY <1>5 DEF Leave, queue
  <2>2. QED
    BY <1>5, <2>1, <1>3, <1>c
<1>6. ASSUME NEW p \in Tasks, NEW i \in Handles, Propose(p, i) PROVE OneCarrier'
  <2>1. End(p) /\ UNCHANGED <<wire, effects>> /\ stage[i] = "none"
        /\ stage' = [stage EXCEPT ![i] = "open"]
    BY <1>6 DEF Propose, Q!Open, Q!Move
  <2>2. \A q \in Tasks, h \in Handles : Carries(q, h)' => Carries(q, h)
    BY <2>1, <1>3
  <2>3. \A h \in Handles : stage[h] = "taken" => stage'[h] = "taken"
    BY <2>1, <1>a DEF Typed
  <2>4. QED
    BY <2>1, <2>2, <2>3, <1>a, CarriersShrink
<1>7. ASSUME NEW p \in Tasks, NEW i \in Handles, Execute(p, i) PROVE OneCarrier'
  <2>1. /\ stage[i] = "granted" /\ effects[i] = 0
        /\ stage' = [stage EXCEPT ![i] = "taken"] /\ UNCHANGED <<effects, wire>>
        /\ \/ Begin(p, "body", [queued[i] EXCEPT !.handle = i])
           \/ UNCHANGED <<pc, call>>
    BY <1>7, <1>a DEF Execute, Q!Take, Q!Move, Queued
  <2>2. /\ stage'[i] = "taken" /\ effects'[i] = 0
        /\ \A h \in Handles : stage[h] = "taken" => stage'[h] = "taken"
    BY <2>1, <1>a DEF Typed
  <2>3. \A q \in Tasks : ~Carries(q, i)
    BY <2>1, <1>a DEF OneCarrier
  <2>4. CASE UNCHANGED <<pc, call>>
    BY <2>1, <2>2, <2>4, <1>a, <1>d, CarriersShrink
  <2>5. CASE Begin(p, "body", [queued[i] EXCEPT !.handle = i])
    <3> DEFINE c == [queued[i] EXCEPT !.handle = i]
    <3>1. c.handle = i
      <4>1. queued[i] \in Calls
        BY <2>1, <1>a DEF Queued
      <4>2. QED
        BY <4>1 DEF Calls
    <3>2. pc' = [pc EXCEPT ![p] = "body"] /\ call' = [call EXCEPT ![p] = c]
      BY <2>5 DEF Begin
    <3>3. wire[p] = None
      BY <1>7 DEF Execute
    <3> HIDE DEF c
    <3>4. ASSUME NEW q \in Tasks, NEW h \in Handles, Carries(q, h)'
          PROVE  Carries(q, h) \/ (q = p /\ h = i)
      BY <3>1, <3>2, <3>3, <3>4, <2>1, <1>a DEF Carries, Typed
    <3>5. QED
      BY <3>4, <2>1, <2>2, <2>3, <1>a DEF OneCarrier
  <2>6. QED
    BY <2>1, <2>4, <2>5
<1>8. ASSUME NEW p \in Tasks, Send(p) PROVE OneCarrier'
  <2>1. /\ pc[p] = "body" /\ pc' = [pc EXCEPT ![p] = "await"] /\ UNCHANGED <<call, stage, effects>>
        /\ wire' = [wire EXCEPT ![p] = [tool |-> call[p].tool, event |-> call[p].event,
                                         handle |-> call[p].handle, author |-> Author(call[p])]]
    BY <1>8 DEF Send, queue
  <2>2. ASSUME NEW q \in Tasks, NEW h \in Handles, Carries(q, h)' PROVE Carries(q, h)
    <3>1. CASE q = p
      BY <2>1, <2>2, <3>1, <1>a DEF Carries, Typed
    <3>2. CASE q # p
      BY <2>1, <2>2, <3>2, <1>a DEF Carries, Typed
    <3>3. QED
      BY <3>1, <3>2
  <2>3. QED
    BY <2>1, <2>2, <1>c
<1>9. ASSUME NEW p \in Tasks, Refuse(p) PROVE OneCarrier'
  <2>1. UNCHANGED <<pc, call, stage, effects>> /\ \A q \in Tasks : wire'[q] \in {wire[q], None}
    BY <1>9, <1>a DEF Refuse, queue, Typed
  <2>2. QED
    BY <2>1, <1>c, <1>d
<1>10. ASSUME NEW p \in Tasks, Apply(p) PROVE OneCarrier'
  <2> DEFINE h0 == wire[p].handle
  <2>1. /\ UNCHANGED <<pc, call, stage>> /\ wire[p] # None /\ wire' = [wire EXCEPT ![p] = None]
        /\ effects' = IF h0 = None THEN effects ELSE [effects EXCEPT ![h0] = @ + 1]
    BY <1>10 DEF Apply
  <2>2. \A q \in Tasks, h \in Handles : Carries(q, h)' => Carries(q, h)
    BY <2>1, <1>a, <1>d DEF Typed
  <2>3. h0 \in Handles => Carries(p, h0)
    BY <2>1 DEF Carries
  <2>4. wire'[p] = None /\ pc'[p] # "body"
    BY <2>1, <1>a DEF Typed, Working
  <2>5. ASSUME NEW q \in Tasks, NEW h \in Handles, Carries(q, h)'
        PROVE  h # h0
    <3>1. q # p
      BY <2>4, <2>5 DEF Carries
    <3>2. Carries(q, h)
      BY <2>2, <2>5
    <3>3. QED
      BY <3>1, <3>2, <2>3, <1>a DEF OneCarrier
  <2> HIDE DEF h0
  <2>6. \A h \in Handles : h # h0 => effects'[h] = effects[h]
    BY <2>1, <1>a DEF Typed
  <2>7. QED
    BY <2>1, <2>2, <2>5, <2>6, <1>a DEF OneCarrier
<1>11. ASSUME NEW h \in Handles, Decide(h) PROVE OneCarrier'
  <2>1. /\ stage[h] # "taken" /\ UNCHANGED <<effects, pc, call, wire>>
        /\ \E s \in Q!Stages : stage' = [stage EXCEPT ![h] = s]
    BY <1>11 DEF Decide, Q!Grant, Q!Close, Q!Move, Q!Stages, tasks
  <2>2. \A i \in Handles : stage[i] = "taken" => stage'[i] = "taken"
    BY <2>1, <1>a DEF Typed
  <2>3. QED
    BY <2>1, <2>2, <1>a, <1>d, CarriersShrink
<1>12. ASSUME UNCHANGED <<stage, effects, pc, call, wire>> PROVE OneCarrier'
  BY <1>12, <1>c, <1>d
<1>13. CASE Restart
  <2>1. UNCHANGED <<stage, effects, wire>> /\ pc' = [p \in Tasks |-> "idle"]
    BY <1>13 DEF Restart, queue
  <2>2. ASSUME NEW q \in Tasks, NEW h \in Handles, Carries(q, h)' PROVE Carries(q, h)
    BY <2>1, <2>2 DEF Carries
  <2>3. QED
    BY <2>1, <2>2, <1>c
<1>14. CASE UNCHANGED vars \/ \E e \in Events, flags \in Flags \cup {None} : UI(e, flags)
  BY <1>14, <1>12 DEF vars, UI, queue, tasks
<1>15. QED
  BY <1>1, <1>2, <1>4, <1>5, <1>6, <1>7, <1>8, <1>9, <1>10, <1>11, <1>13, <1>14 DEF Next

-----------------------------------------------------------------------------
(* What an agent does on its own say.                                      *)

\* A task stays within what the agent may, while its own step, its event and what is recorded
\* of them stay as they are.
LEMMA OwnSayKept ==
  ASSUME NEW q \in Tasks, OwnSay(q), UNCHANGED <<conf, event, raced[q]>>,
         pc'[q] = "body" => pc[q] = "body" /\ call'[q] = call[q],
         wire'[q] \in {wire[q], None}
  PROVE  OwnSay(q)'
BY DEF OwnSay, AgentMay, Author, Selling

\* What a call on the agent's own say may rely on is kept.
LEMMA GuardOwnSay == GInv /\ [Next]_vars => \A q \in Tasks : OwnSay(q)'
<1> SUFFICES ASSUME GInv, [Next]_vars, NEW q \in Tasks PROVE OwnSay(q)'
  OBVIOUS
<1>a. Typed /\ Queued /\ Working(q) /\ OwnSay(q)
  BY DEF GInv
<1>b. None \notin Handles
  BY GuardAssumption
<1>c. ASSUME NEW p \in Tasks, p # q, UNCHANGED <<conf, event>>, NEW l, NEW c, NEW w, NEW b,
             pc' = [pc EXCEPT ![p] = l],
             call' = [call EXCEPT ![p] = c] \/ UNCHANGED call,
             wire' = [wire EXCEPT ![p] = w] \/ UNCHANGED wire,
             raced' = [raced EXCEPT ![p] = b] \/ UNCHANGED raced
      PROVE  OwnSay(q)'
  BY <1>a, <1>c, OwnSayKept DEF Typed
<1>d. ASSUME UNCHANGED <<conf, event, pc, call, raced>>, wire'[q] \in {wire[q], None}
      PROVE  OwnSay(q)'
  BY <1>a, <1>d, OwnSayKept
<1>1. ASSUME NEW p \in Tasks, NEW t \in Tools, NEW e \in Events, Call(p, t, e)
      PROVE  OwnSay(q)'
  <2>1. CASE p = q
    <3>1. /\ pc'[q] = FirstStep(t) /\ call'[q] = [tool |-> t, event |-> e, handle |-> None]
          /\ wire'[q] = None /\ UNCHANGED <<conf, event>>
      BY <1>1, <2>1, <1>a DEF Call, Begin, Typed
    <3>2. call'[q].tool = t /\ call'[q].handle = None
      BY <3>1
    <3>3. CASE t \in HighRisk /\ pc'[q] = "body"
      <4>1. t \in conf'.auto
        BY <3>1, <3>3, FirstSteps
      <4>2. Author(call[q])' = "auto_approve"
        BY <3>2, <3>3, <4>1 DEF Author
      <4>3. QED
        BY <3>1, <4>2 DEF OwnSay
    <3>4. CASE pc'[q] = "body" /\ t \notin HighRisk
      <4>1. t \notin Guarded
        BY <3>1, <3>4, FirstSteps
      <4>2. QED
        BY <3>1, <3>2, <3>4, <4>1 DEF OwnSay, AgentMay
    <3>5. CASE pc'[q] # "body"
      BY <3>1, <3>5 DEF OwnSay
    <3>6. QED
      BY <3>3, <3>4, <3>5
  <2>2. CASE p # q
    BY <1>1, <2>2, <1>c DEF Call, Begin
  <2>3. QED
    BY <2>1, <2>2
<1>2. ASSUME NEW p \in Tasks, Look(p) PROVE OwnSay(q)'
  <2>1. UNCHANGED <<conf, event, wire>> /\ pc[p] = "look"
    BY <1>2 DEF Look, Goto
  <2>2. CASE p # q
    BY <1>2, <2>1, <2>2, <1>c DEF Look, Goto, End, Begin
  <2>3. CASE p = q /\ pc'[q] = "body"
    <3>1. /\ event[call[q].event] # None /\ ~Escalates(event[call[q].event])
          /\ UNCHANGED <<call, raced>> /\ wire[q] = None /\ call[q].tool \in Guarded
      BY <1>2, <2>1, <2>3, <1>a DEF Look, Goto, End, Begin, Typed, Working
    <3>2. ~Selling(event[call[q].event]) /\ call[q].tool \notin HighRisk
      BY <3>1 DEF Selling, Escalates, Guarded, HighRisk
    <3>3. QED
      BY <2>1, <3>1, <3>2 DEF OwnSay, AgentMay, Selling
  <2>4. CASE p = q /\ pc'[q] # "body"
    <3>1. wire'[q] = None
      BY <2>1, <2>4, <1>a DEF Working
    <3>2. QED
      BY <2>4, <3>1 DEF OwnSay
  <2>5. QED
    BY <2>2, <2>3, <2>4
<1>3. ASSUME NEW p \in Tasks, PreviewFails(p) \/ \E h \in Handles : Propose(p, h)
      PROVE  OwnSay(q)'
  <2>1. End(p) /\ UNCHANGED <<conf, event, wire>> /\ pc[p] = "preview"
    BY <1>3 DEF PreviewFails, Propose
  <2>2. CASE p = q
    <3>1. pc'[q] = "idle" /\ wire'[q] = None
      BY <2>1, <2>2, <1>a DEF End, Begin, Typed, Working
    <3>2. QED
      BY <3>1 DEF OwnSay
  <2>3. CASE p # q
    BY <2>1, <2>3, <1>c DEF End, Begin
  <2>4. QED
    BY <2>2, <2>3
<1>4. ASSUME NEW p \in Tasks, NEW h \in Handles, Execute(p, h) PROVE OwnSay(q)'
  <2>1. /\ UNCHANGED <<conf, event, wire>> /\ wire[p] = None
        /\ \/ Begin(p, "body", [queued[h] EXCEPT !.handle = h])
           \/ UNCHANGED <<pc, call, raced>>
    BY <1>4 DEF Execute
  <2>2. CASE UNCHANGED <<pc, call, raced>>
    BY <2>1, <2>2, <1>d
  <2>3. CASE Begin(p, "body", [queued[h] EXCEPT !.handle = h]) /\ p # q
    BY <2>1, <2>3, <1>c DEF Begin
  <2>4. CASE Begin(p, "body", [queued[h] EXCEPT !.handle = h]) /\ p = q
    <3>1. [queued[h] EXCEPT !.handle = h].handle = h
      <4>1. queued[h] \in Calls
        BY <1>4, <1>a DEF Execute, Q!Take, Q!Move, Queued
      <4>2. QED
        BY <4>1 DEF Calls
    <3>2. call'[q].handle = h /\ wire'[q] = None
      BY <2>1, <2>4, <3>1, <1>a DEF Begin, Typed
    <3>3. Author(call[q])' = "approval"
      BY <3>2, <1>b DEF Author
    <3>4. QED
      BY <3>2, <3>3 DEF OwnSay
  <2>5. QED
    BY <2>1, <2>2, <2>3, <2>4
<1>5. ASSUME NEW p \in Tasks, Send(p) PROVE OwnSay(q)'
  <2>1. CASE p # q
    BY <1>5, <2>1, <1>c DEF Send
  <2>2. CASE p = q
    <3>1. /\ pc[q] = "body" /\ pc'[q] = "await" /\ UNCHANGED <<conf, event, raced>>
          /\ wire'[q] = [tool |-> call[q].tool, event |-> call[q].event,
                         handle |-> call[q].handle, author |-> Author(call[q])]
      BY <1>5, <2>2, <1>a DEF Send, Typed
    <3>2. /\ wire'[q].tool = call[q].tool /\ wire'[q].event = call[q].event
          /\ wire'[q].author = Author(call[q])
      BY <3>1
    <3>3. QED
      BY <3>1, <3>2, <1>a DEF OwnSay, AgentMay, Selling
  <2>3. QED
    BY <2>1, <2>2
<1>6. ASSUME NEW p \in Tasks, Leave(p) PROVE OwnSay(q)'
  <2>1. CASE p # q
    BY <1>6, <2>1, <1>c DEF Leave
  <2>2. CASE p = q
    <3>1. pc'[q] = "idle" /\ UNCHANGED <<conf, event, raced, wire>>
      BY <1>6, <2>2, <1>a DEF Leave, Typed
    <3>2. QED
      BY <3>1, <1>a, OwnSayKept
  <2>3. QED
    BY <2>1, <2>2
<1>7. ASSUME NEW p \in Tasks, Refuse(p) PROVE OwnSay(q)'
  BY <1>7, <1>a, <1>d DEF Refuse, Typed
<1>8. ASSUME UNCHANGED <<conf, pc, call>>, wire'[q] \in {wire[q], None},
             NEW e \in Events, NEW flags, event' = [event EXCEPT ![e] = flags],
             Overtaken(e, flags)
      PROVE  OwnSay(q)'
  <2>1. pc[q] = "body" => call[q] \in Calls /\ call[q].event \in Events
    BY <1>a DEF Working, Calls
  <2>2. wire[q] # None => wire[q].event \in Events
    BY <1>a DEF Typed, Requests
  <2>3. pc[q] = "body" /\ Author(call[q]) = "agent"
        => AgentMay(call[q].tool, call[q].event, q)'
    <3> SUFFICES ASSUME pc[q] = "body", Author(call[q]) = "agent"
                 PROVE  AgentMay(call[q].tool, call[q].event, q)'
      OBVIOUS
    <3> DEFINE t == call[q].tool
               f == call[q].event
    <3>1. AgentMay(t, f, q) /\ f \in Events /\ pc[q] = "body" /\ call[q].event = f
      BY <2>1, <1>a DEF OwnSay
    <3>2. UNCHANGED <<t, f>>
      BY <1>8
    <3>3. ASSUME NEW u, NEW g \in Events, AgentMay(u, g, q), call[q].event = g
          PROVE  AgentMay(u, g, q)'
      BY <3>3, <1>8, <1>a, OvertakenKeeps
    <3>4. QED
      BY <3>1, <3>2, <3>3 DEF AgentMay, Selling
  <2>4. wire[q] # None /\ wire[q].author = "agent" /\ wire'[q] = wire[q]
        => AgentMay(wire[q].tool, wire[q].event, q)'
    <3> SUFFICES ASSUME wire[q] # None, wire[q].author = "agent", wire'[q] = wire[q]
                 PROVE  AgentMay(wire[q].tool, wire[q].event, q)'
      OBVIOUS
    <3>1. AgentMay(wire[q].tool, wire[q].event, q) /\ wire[q].event \in Events
      BY <2>2, <1>a DEF OwnSay
    <3>2. ASSUME NEW u, NEW g \in Events, AgentMay(u, g, q), wire[q].event = g
          PROVE  AgentMay(u, g, q)'
      BY <3>2, <1>8, <1>a, OvertakenKeeps
    <3>3. QED
      BY <3>1, <3>2 DEF AgentMay, Selling
  <2>5. Author(call[q])' = Author(call[q])
    BY <1>8 DEF Author
  <2>6. QED
    BY <1>8, <2>3, <2>4, <2>5 DEF OwnSay
<1>9. ASSUME NEW p \in Tasks, Apply(p) PROVE OwnSay(q)'
  <2>1. wire[p] \in Requests /\ wire[p].event \in Events
    BY <1>9, <1>a DEF Apply, Typed, Requests
  <2>2. /\ UNCHANGED <<conf, pc, call>> /\ wire'[q] \in {wire[q], None}
        /\ \E flags \in Result(wire[p]) :
             /\ event' = [event EXCEPT ![wire[p].event] = flags]
             /\ Overtaken(wire[p].event, flags)
    BY <1>9, <1>a DEF Apply, Typed
  <2>3. QED
    BY <2>1, <2>2, <1>8
<1>10. ASSUME NEW e \in Events, NEW flags \in Flags \cup {None}, UI(e, flags) PROVE OwnSay(q)'
  BY <1>10, <1>8 DEF UI
<1>11. ASSUME NEW h \in Handles, Decide(h) PROVE OwnSay(q)'
  BY <1>11, <1>d DEF Decide, tasks
<1>12. CASE Restart
  <2>1. pc'[q] = "idle" /\ UNCHANGED <<event, wire, raced>>
    BY <1>12 DEF Restart
  <2>2. QED
    BY <2>1, <1>a DEF OwnSay, AgentMay, Selling
<1>13. CASE UNCHANGED vars
  BY <1>13, <1>d DEF vars, tasks
<1>14. QED
  BY <1>1, <1>2, <1>3, <1>4, <1>5, <1>6, <1>7, <1>9, <1>10, <1>11, <1>12, <1>13 DEF Next

-----------------------------------------------------------------------------
(* The theorems.                                                           *)

\* No step breaks the two properties of consent.
LEMMA GuardConsent == GInv /\ [Next]_vars => BoundaryNeedsConsent' /\ OnSaleNeedsConsent'
<1> SUFFICES ASSUME GInv, [Next]_vars PROVE BoundaryNeedsConsent' /\ OnSaleNeedsConsent'
  OBVIOUS
<1> USE DEF BoundaryNeedsConsent, OnSaleNeedsConsent
<1>a. Typed /\ BoundaryNeedsConsent /\ OnSaleNeedsConsent /\ \A p \in Tasks : OwnSay(p)
  BY DEF GInv
<1>1. ASSUME NEW p \in Tasks, Apply(p) PROVE BoundaryNeedsConsent' /\ OnSaleNeedsConsent'
  <2> DEFINE r == wire[p]
  <2>1. r \in Requests /\ r # None
    BY <1>1, <1>a DEF Apply, Typed
  <2>2. PICK flags \in Result(r) :
          /\ crossings' = IF flags = None \/ GoesOnSale(r.event, flags)
                          THEN crossings \cup {r.author} ELSE crossings
          /\ onSale' = IF r.tool \in Guarded /\ Selling(event[r.event])
                       THEN onSale \cup {IF r.author = "agent" /\ raced[p] THEN "raced"
                                         ELSE r.author}
                       ELSE onSale
    BY <1>1 DEF Apply
  <2>3. r.author = "agent" => AgentMay(r.tool, r.event, p)
    BY <2>1, <1>a DEF OwnSay
  <2>4. r.author = "agent" => flags # None /\ ~GoesOnSale(r.event, flags)
    BY <2>1, <2>2, <2>3, <1>a, Results DEF AgentMay
  <2>5. r.author = "agent" /\ r.tool \in Guarded /\ Selling(event[r.event]) => raced[p]
    BY <2>3 DEF AgentMay
  <2> HIDE DEF r
  <2>6. QED
    BY <2>2, <2>4, <2>5, <1>a
<1>2. ASSUME UNCHANGED history PROVE BoundaryNeedsConsent' /\ OnSaleNeedsConsent'
  BY <1>2, <1>a DEF history
<1>3. CASE UNCHANGED vars
  BY <1>2, <1>3 DEF vars
<1>4. CASE Restart \/ (\E h \in Handles : Decide(h))
           \/ \E e \in Events, flags \in Flags \cup {None} : UI(e, flags)
  BY <1>2, <1>4 DEF Restart, Decide, UI
<1>5. ASSUME NEW p \in Tasks,
             \/ \E t \in Tools, e \in Events : Call(p, t, e)
             \/ Look(p) \/ PreviewFails(p) \/ Send(p) \/ Leave(p) \/ Refuse(p)
             \/ \E h \in Handles : Propose(p, h) \/ Execute(p, h)
      PROVE  UNCHANGED history
  BY <1>5 DEF Call, Look, PreviewFails, Send, Leave, Refuse, Propose, Execute
<1>6. QED
  BY <1>1, <1>2, <1>3, <1>4, <1>5 DEF Next

\* At the beginning no task works and nothing is queued.
LEMMA GuardInit == Init => GInv
<1> SUFFICES ASSUME Init PROVE GInv
  OBVIOUS
<1> USE DEF Init
<1>1. stage = [h \in Handles |-> "none"] /\ effects = [h \in Handles |-> 0]
  BY DEF Q!SpecInit
<1>2. Typed
  BY <1>1 DEF Typed, Steps, Q!Stages
<1>3. Queued
  BY <1>1 DEF Queued
<1>4. \A p \in Tasks : Working(p) /\ OwnSay(p)
  BY DEF Working, OwnSay
<1>5. OneCarrier
  BY DEF OneCarrier, Carries
<1>6. QED
  BY <1>2, <1>3, <1>4, <1>5 DEF GInv, BoundaryNeedsConsent, OnSaleNeedsConsent

\* The parts of GInv together are inductive.
LEMMA GuardInvariant == Spec => []GInv
<1>1. GInv /\ [Next]_vars => GInv'
  BY GuardTypes, GuardWorking, GuardOwnSay, GuardCarrier, GuardConsent DEF GInv
<1>2. QED
  BY GuardInit, <1>1, PTL DEF Spec

\* Every variable keeps its type; no approved action reaches pretix a second time.
THEOREM GuardTypeCorrect == Spec => []TypeOK
<1>1. GInv => TypeOK
  <2> SUFFICES ASSUME GInv PROVE TypeOK
    OBVIOUS
  <2>1. Typed /\ Queued
    BY DEF GInv
  <2>2. effects \in [Handles -> 0..1]
    BY <2>1 DEF Typed, Queued
  <2>3. QED
    BY <2>1, <2>2 DEF Typed, TypeOK, Steps
<1>2. QED
  BY <1>1, GuardInvariant, PTL

\* README.md:245-248: an event goes on sale or is deleted only by an approval, by a tool on
\* MCP_AUTO_APPROVE or in the pretix UI, whatever is called, approved or restarted and when.
THEOREM BoundaryNeedsConsentHolds == Spec => []BoundaryNeedsConsent
<1>1. GInv => BoundaryNeedsConsent
  BY DEF GInv
<1>2. QED
  BY <1>1, GuardInvariant, PTL

\* run_tool's live guard: no guarded write of the agent's own changes an event on sale, unless
\* the event went on sale after the guard had looked.
THEOREM OnSaleNeedsConsentHolds == Spec => []OnSaleNeedsConsent
<1>1. GInv => OnSaleNeedsConsent
  BY DEF GInv
<1>2. QED
  BY <1>1, GuardInvariant, PTL

\* The gate keeps the ceremony of the queue: it runs only what was granted, once, and pretix
\* applies it at most once after that.
THEOREM QueueKeepsCeremonyHolds == Spec => QueueKeepsCeremony
<1>1. Init => Q!SpecInit
  BY DEF Init
<1>2. GInv /\ [Next]_vars => [Q!SpecNext]_(Q!specVars)
  <2> SUFFICES ASSUME GInv, [Next]_vars PROVE Q!SpecNext \/ UNCHANGED Q!specVars
    OBVIOUS
  <2> USE DEF Q!SpecNext, Q!specVars
  <2>a. Typed /\ OneCarrier
    BY DEF GInv
  <2>1. ASSUME NEW p \in Tasks, NEW h \in Handles, Propose(p, h) \/ Execute(p, h)
        PROVE  Q!SpecNext
    BY <2>1 DEF Propose, Execute
  <2>2. ASSUME NEW h \in Handles, Decide(h) PROVE Q!SpecNext
    BY <2>2 DEF Decide
  <2>3. ASSUME NEW p \in Tasks, Apply(p) PROVE Q!SpecNext \/ UNCHANGED Q!specVars
    <3> DEFINE h == wire[p].handle
    <3>1. /\ wire[p] # None /\ h \in Handles \cup {None} /\ UNCHANGED stage
          /\ effects' = IF h = None THEN effects ELSE [effects EXCEPT ![h] = @ + 1]
      BY <2>3, <2>a DEF Apply, Typed, Requests
    <3>2. h \in Handles => stage[h] = "taken" /\ effects[h] = 0
      BY <3>1, <2>a DEF OneCarrier, Carries
    <3> HIDE DEF h
    <3>3. CASE h = None
      BY <3>1, <3>3
    <3>4. CASE h \in Handles /\ h # None
      <4>1. effects' = [effects EXCEPT ![h] = 1]
        BY <3>1, <3>2, <3>4, <2>a DEF Typed
      <4>2. Q!Affect(h)
        BY <3>1, <3>2, <3>4, <4>1 DEF Q!Affect
      <4>3. QED
        BY <3>4, <4>2
    <3>5. QED
      BY <3>1, <3>3, <3>4
  <2>4. ASSUME UNCHANGED queue PROVE UNCHANGED Q!specVars
    BY <2>4 DEF queue
  <2>5. CASE UNCHANGED vars
    BY <2>4, <2>5 DEF vars
  <2>6. CASE Restart \/ \E e \in Events, flags \in Flags \cup {None} : UI(e, flags)
    BY <2>4, <2>6 DEF Restart, UI
  <2>7. ASSUME NEW p \in Tasks,
               \/ \E t \in Tools, e \in Events : Call(p, t, e)
               \/ Look(p) \/ PreviewFails(p) \/ Send(p) \/ Leave(p) \/ Refuse(p)
        PROVE  UNCHANGED queue
    BY <2>7 DEF Call, Look, PreviewFails, Send, Leave, Refuse
  <2>8. QED
    BY <2>1, <2>2, <2>3, <2>4, <2>5, <2>6, <2>7 DEF Next
<1>3. QED
  BY <1>1, <1>2, GuardInvariant, PTL DEF Spec, QueueKeepsCeremony, Q!Ceremony

\* MCP_CAPABILITIES=read (Config.tool_enabled): the server sends pretix nothing that changes
\* it, not even what was approved before.
THEOREM ReadOnlySendsNothingHolds == Spec => ReadOnlySendsNothing
<1> DEFINE Quiet == conf.caps = {"read"} /\ conf.allow = {} =>
                      \A p \in Tasks : wire'[p] \in {wire[p], None}
<1>1. GInv /\ [Next]_vars => [Quiet]_vars
  <2> SUFFICES ASSUME GInv, [Next]_vars, conf.caps = {"read"}, conf.allow = {},
                      NEW q \in Tasks
               PROVE  wire'[q] \in {wire[q], None}
    BY DEF Quiet
  <2>a. Typed /\ \A p \in Tasks : Working(p)
    BY DEF GInv
  <2>1. ASSUME NEW p \in Tasks, Send(p) PROVE FALSE
    <3>1. Enabled(call[p].tool)
      BY <2>1, <2>a DEF Send, Working
    <3>2. QED
      BY <3>1 DEF Enabled, Capability
  <2>2. ASSUME NEW p \in Tasks, Apply(p) \/ Refuse(p) PROVE wire'[q] \in {wire[q], None}
    BY <2>2, <2>a DEF Apply, Refuse, Typed
  <2>3. ASSUME NEW p \in Tasks,
               \/ \E t \in Tools, e \in Events : Call(p, t, e)
               \/ Look(p) \/ PreviewFails(p) \/ Leave(p)
               \/ \E h \in Handles : Propose(p, h) \/ Execute(p, h)
        PROVE  UNCHANGED wire
    BY <2>3 DEF Call, Look, Goto, PreviewFails, Leave, Propose, Execute
  <2>4. CASE UNCHANGED vars \/ Restart \/ (\E h \in Handles : Decide(h))
             \/ \E e \in Events, flags \in Flags \cup {None} : UI(e, flags)
    BY <2>4 DEF vars, tasks, Restart, Decide, UI
  <2>5. QED
    BY <2>1, <2>2, <2>3, <2>4 DEF Next
<1>2. QED
  BY <1>1, GuardInvariant, PTL DEF Spec, ReadOnlySendsNothing, Quiet
=============================================================================
