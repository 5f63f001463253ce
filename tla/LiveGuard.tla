----------------------------- MODULE LiveGuard -----------------------------
(***************************************************************************)
(* run_tool: which call runs at once, and which one waits for a human.     *)
(* The event's state is pretix's; the guard looks at it with one request   *)
(* and the tool changes it with another, while other calls, approved       *)
(* actions and the pretix UI change it too.                                *)
(*                                                                         *)
(* The queue is the abstract ceremony of ApprovalSpec, which Approval.tla  *)
(* shows the real one to implement.                                        *)
(*                                                                         *)
(* An operator that stands just before a similar one, and that nothing     *)
(* uses, is a mutant: what the code would be with one mistake.             *)
(***************************************************************************)
EXTENDS Naturals

CONSTANTS
  Events,    \* event slugs
  Handles,   \* pending_action_ids: bounds the proposals
  Tasks,     \* tool calls in progress
  Confs,     \* configurations: [caps, auto, allow]
  None

ASSUME GuardAssumption ==
  /\ None \notin Handles
  /\ None \notin [live : BOOLEAN, testmode : BOOLEAN]
  /\ \A c \in Confs : DOMAIN c = {"caps", "auto", "allow"}

VARIABLES
  conf,       \* app.cfg of the running server
  event,      \* pretix: None, or the event's flags
  stage,      \* the queue: where each action stands
  effects,    \* how often pretix applied each action
  queued,     \* the call each action holds
  pc, call,   \* the step of each task, and the call it handles
  wire,       \* its request under way to pretix
  raced,      \* history: the event went on sale after the guard had looked
  crossings,  \* history: by whom events were put on sale, or deleted
  onSale      \* history: by whom events on sale were changed

queue == <<stage, effects, queued>>
tasks == <<pc, call, wire, raced>>
history == <<crossings, onSale>>
vars == <<conf, event, queue, tasks, history>>

Q == INSTANCE ApprovalSpec WITH Actions <- Handles

HighRisk == {"publish_event", "delete_event"}
\* "update_event" stands for every guarded tool that leaves the two flags alone.
Guarded == {"update_event", "unpublish_event"}
Tools == HighRisk \cup Guarded \cup {"create_event", "clone_event"}
ExecuteTool == "execute_pending_action"

Flags == [live : BOOLEAN, testmode : BOOLEAN]
Calls == [tool : Tools, event : Events, handle : Handles \cup {None}]
\* On whose say-so a request changes pretix: an approval, the operator's MCP_AUTO_APPROVE,
\* or nobody's but the agent's.
Authors == {"approval", "auto_approve", "agent"}
Requests == [tool : Tools, event : Events, handle : Handles \cup {None}, author : Authors]

TypeOK ==
  /\ conf \in Confs
  /\ event \in [Events -> Flags \cup {None}]
  /\ stage \in [Handles -> Q!Stages] /\ effects \in [Handles -> 0..1]
  /\ queued \in [Handles -> Calls \cup {None}]
  /\ pc \in [Tasks -> {"idle", "look", "preview", "body", "await"}]
  /\ call \in [Tasks -> Calls \cup {None}]
  /\ wire \in [Tasks -> Requests \cup {None}]
  /\ raced \in [Tasks -> BOOLEAN]
  /\ crossings \subseteq Authors
  /\ onSale \subseteq Authors \cup {"raced"}

Draft == [live |-> FALSE, testmode |-> TRUE]

Init ==
  /\ conf \in Confs
  /\ event = [e \in Events |-> None]
  /\ Q!SpecInit
  /\ queued = [h \in Handles |-> None]
  /\ pc = [p \in Tasks |-> "idle"]
  /\ call = [p \in Tasks |-> None]
  /\ wire = [p \in Tasks |-> None]
  /\ raced = [p \in Tasks |-> FALSE]
  /\ crossings = {}
  /\ onSale = {}

-----------------------------------------------------------------------------
(* What pretix does with a request: the states it may leave the event in.  *)
(* It may also refuse, for reasons of its own.                             *)

Selling(flags) == flags # None /\ flags.live /\ ~flags.testmode

\* pretix clones an event with its flags, unless the request says otherwise; the source is
\* any event of the organizer, on sale or not.
ClonedAsIs(r) == IF event[r.event] = None THEN Flags ELSE {}

Cloned(r) == IF event[r.event] = None THEN {Draft} ELSE {}
Created(r) == IF event[r.event] = None THEN {Draft} ELSE {}
Changed(r) == {event[r.event]} \ {None}
Published(r) == {[live |-> TRUE, testmode |-> FALSE] : x \in Changed(r)}
Unpublished(r) == {[flags EXCEPT !.live = FALSE] : flags \in Changed(r)}
Deleted(r) == {None : x \in Changed(r)}

Result(r) == IF r.tool = "create_event" THEN Created(r)
             ELSE IF r.tool = "clone_event" THEN Cloned(r)
             ELSE IF r.tool = "update_event" THEN Changed(r)
             ELSE IF r.tool = "publish_event" THEN Published(r)
             ELSE IF r.tool = "unpublish_event" THEN Unpublished(r)
             ELSE Deleted(r)

GoesOnSale(e, flags) == Selling(flags) /\ ~Selling(event[e])

\* Guards in progress that looked before the event went on sale.
Overtaken(e, flags) ==
  raced' = [p \in Tasks |->
              \/ raced[p]
              \/ /\ \/ pc[p] = "body" /\ call[p].event = e
                    \/ wire[p] # None /\ wire[p].event = e
                 /\ GoesOnSale(e, flags)]

-----------------------------------------------------------------------------
(* registry.py: the gate.                                                  *)

Capability(t) == IF t \in HighRisk /\ t \notin conf.auto THEN "write:high-risk" ELSE "write"

EnabledIfAuto(t) == t \in conf.auto \/ Capability(t) \in conf.caps

\* Config.tool_enabled: a tool allowlist replaces the capability classes.
Enabled(t) == IF conf.allow # {} THEN t \in conf.allow ELSE Capability(t) \in conf.caps

Begin(p, l, c) == /\ pc' = [pc EXCEPT ![p] = l]
                  /\ call' = [call EXCEPT ![p] = c]
                  /\ raced' = [raced EXCEPT ![p] = FALSE]

Goto(p, l) == pc' = [pc EXCEPT ![p] = l] /\ UNCHANGED <<call, wire, raced>>

End(p) == Begin(p, "idle", None)

FirstStepUngated(t) == IF t \in Guarded THEN "look" ELSE "body"

\* Where a call goes that is enabled: to the guard's GET, to the proposal, or to the body.
FirstStep(t) == IF Capability(t) = "write:high-risk" THEN "preview"
                ELSE IF t \in Guarded THEN "look" ELSE "body"

\* run_tool, until its first await.  A call that is not enabled changes nothing.
Call(p, t, e) ==
  /\ pc[p] = "idle" /\ wire[p] = None
  /\ Enabled(t)
  /\ Begin(p, FirstStep(t), [tool |-> t, event |-> e, handle |-> None])
  /\ UNCHANGED <<conf, event, queue, wire, history>>

EscalatesNot(flags) == flags.live /\ flags.testmode

\* event.get("live") and not event.get("testmode")
Escalates(flags) == flags.live /\ ~flags.testmode

\* pretix answers the guard's GET.  An event that is not there ends the call.
Look(p) ==
  /\ pc[p] = "look"
  /\ LET flags == event[call[p].event] IN
     IF flags = None THEN End(p) /\ UNCHANGED wire
     ELSE Goto(p, IF Escalates(flags) THEN "preview" ELSE "body")
  /\ UNCHANGED <<conf, event, queue, history>>

\* _propose, after the preview's requests, which may fail.
Propose(p, h) ==
  /\ pc[p] = "preview"
  /\ Q!Open(h)
  /\ queued' = [queued EXCEPT ![h] = call[p]]
  /\ End(p)
  /\ UNCHANGED <<conf, event, wire, history>>

PreviewFails(p) ==
  /\ pc[p] = "preview"
  /\ End(p)
  /\ UNCHANGED <<conf, event, queue, wire, history>>

ExecuteOpen(p, h) ==
  /\ pc[p] = "idle" /\ wire[p] = None
  /\ Enabled(ExecuteTool)
  /\ stage[h] \in {"open", "granted"}
  /\ stage' = [stage EXCEPT ![h] = "taken"]
  /\ Begin(p, "body", [queued[h] EXCEPT !.handle = h])
  /\ UNCHANGED <<conf, event, effects, queued, wire, history>>

ExecuteAgain(p, h) ==
  /\ pc[p] = "idle" /\ wire[p] = None
  /\ Enabled(ExecuteTool)
  /\ stage[h] \in {"granted", "taken"}
  /\ stage' = [stage EXCEPT ![h] = "taken"]
  /\ Begin(p, "body", [queued[h] EXCEPT !.handle = h])
  /\ UNCHANGED <<conf, event, effects, queued, wire, history>>

\* execute_approved: the claim, then the stored call if its tool is still enabled.  The live
\* guard does not look again, and neither does anyone at the snapshot.
Execute(p, h) ==
  /\ pc[p] = "idle" /\ wire[p] = None
  /\ Enabled(ExecuteTool)
  /\ Q!Take(h)
  /\ IF Enabled(queued[h].tool)
     THEN Begin(p, "body", [queued[h] EXCEPT !.handle = h])
     ELSE UNCHANGED <<pc, call, raced>>
  /\ UNCHANGED <<conf, event, queued, wire, history>>

Author(c) == IF c.handle # None THEN "approval"
             ELSE IF c.tool \in HighRisk \cap conf.auto THEN "auto_approve" ELSE "agent"

\* _execute: the tool's one request.
Send(p) ==
  /\ pc[p] = "body"
  /\ wire' = [wire EXCEPT ![p] = [tool |-> call[p].tool, event |-> call[p].event,
                                  handle |-> call[p].handle, author |-> Author(call[p])]]
  /\ pc' = [pc EXCEPT ![p] = "await"]
  /\ UNCHANGED <<conf, event, queue, call, raced, history>>

\* The body refuses its arguments, the answer arrives, the exchange fails, or the caller
\* cancels: in each case the call ends, and the request, if any, goes its own way.
Leave(p) ==
  /\ pc[p] \in {"look", "body", "await"}
  /\ pc' = [pc EXCEPT ![p] = "idle"]
  /\ call' = [call EXCEPT ![p] = None]
  /\ UNCHANGED <<conf, event, queue, wire, raced, history>>

-----------------------------------------------------------------------------
(* The humans, pretix, and a restart.                                      *)

Decide(h) == /\ Q!Grant(h) \/ Q!Close(h)
             /\ UNCHANGED <<conf, event, queued, tasks, history>>

\* A request reaches pretix.
Apply(p) ==
  /\ wire[p] # None
  /\ LET r == wire[p] IN
     \E flags \in Result(r) :
       /\ event' = [event EXCEPT ![r.event] = flags]
       /\ crossings' = IF flags = None \/ GoesOnSale(r.event, flags)
                       THEN crossings \cup {r.author} ELSE crossings
       /\ onSale' = IF r.tool \in Guarded /\ Selling(event[r.event])
                    THEN onSale \cup {IF r.author = "agent" /\ raced[p] THEN "raced"
                                      ELSE r.author}
                    ELSE onSale
       /\ effects' = IF r.handle = None THEN effects ELSE [effects EXCEPT ![r.handle] = @ + 1]
       /\ Overtaken(r.event, flags)
  /\ wire' = [wire EXCEPT ![p] = None]
  /\ UNCHANGED <<conf, stage, queued, pc, call>>

Refuse(p) == /\ wire[p] # None
             /\ wire' = [wire EXCEPT ![p] = None]
             /\ UNCHANGED <<conf, event, queue, pc, call, raced, history>>

\* The organizer works in the pretix UI.
UI(e, flags) == /\ flags # event[e]
                /\ event' = [event EXCEPT ![e] = flags]
                /\ Overtaken(e, flags)
                /\ UNCHANGED <<conf, queue, pc, call, wire, history>>

Restart == /\ conf' \in Confs
           /\ pc' = [p \in Tasks |-> "idle"]
           /\ call' = [p \in Tasks |-> None]
           /\ UNCHANGED <<event, queue, wire, raced, history>>

-----------------------------------------------------------------------------

Next == \/ \E p \in Tasks :
             \/ \E t \in Tools, e \in Events : Call(p, t, e)
             \/ Look(p) \/ PreviewFails(p) \/ Send(p) \/ Leave(p)
             \/ Apply(p) \/ Refuse(p)
             \/ \E h \in Handles : Propose(p, h) \/ Execute(p, h)
        \/ \E h \in Handles : Decide(h)
        \/ \E e \in Events, flags \in Flags \cup {None} : UI(e, flags)
        \/ Restart

Spec == Init /\ [][Next]_vars

-----------------------------------------------------------------------------

\* README.md:245-248: whatever is created, cloned, changed, queued, approved or restarted, in
\* whatever order, an event goes on sale or is deleted only by an approval, by a tool the
\* operator put on MCP_AUTO_APPROVE, or in the pretix UI.
BoundaryNeedsConsent == "agent" \notin crossings

\* The guard (run_tool, 166-169) lets no guarded write of the agent's own reach an event on
\* sale, unless the event went on sale after the guard had looked.
OnSaleNeedsConsent == "agent" \notin onSale

\* The gate uses the queue as the ceremony allows: nothing runs from it that was not granted,
\* nothing runs twice, whatever becomes of its requests.
QueueKeepsCeremony == Q!Ceremony

\* The panic move, MCP_CAPABILITIES=read (registry.py:184-186): a server started with it sends
\* nothing that changes pretix, not even what was approved before.
ReadOnlySendsNothing ==
  [][conf.caps = {"read"} /\ conf.allow = {} =>
       \A p \in Tasks : wire'[p] \in {wire[p], None}]_vars
=============================================================================
