----------------------------- MODULE Screening -----------------------------
(***************************************************************************)
(* Where each tool checks its arguments: at the gate of run_tool, in the   *)
(* preview shown to the operator, or in its body, which for a queued call  *)
(* runs only after the approval, perhaps in another process with another   *)
(* configuration.  One call is followed on every path it can take: direct, *)
(* escalated by the live guard, high-risk, or reclassified by              *)
(* MCP_AUTO_APPROVE.                                                       *)
(*                                                                         *)
(* A call is a tool, an event, and what is wrong with its arguments.       *)
(* Whether the tool is enabled is LiveGuard's subject, how an action is    *)
(* decided and claimed Approval's.                                         *)
(*                                                                         *)
(* An operator that stands just before a similar one, and that nothing     *)
(* uses, is a mutant: what the code would be with one mistake.             *)
(***************************************************************************)
CONSTANTS
  Events,    \* event slugs
  Confs      \* configurations: [allowed, auto]; auto puts every tool on MCP_AUTO_APPROVE

ASSUME ScreeningAssumption ==
  /\ Events # {}
  /\ \A c \in Confs : c.allowed \subseteq Events /\ c.auto \in BOOLEAN

VARIABLES
  conf,      \* app.cfg of the process that handles the call
  phase,     \* the check that comes next, or how the call ended
  call,      \* the call: [tool, event, flaws]
  reached    \* history: events this process sent a request about

vars == <<conf, phase, call, reached>>

(***************************************************************************)
(* What can be wrong with the arguments a tool declares:                   *)
(*   "money"   an amount is not a decimal string                           *)
(*   "sign"    an amount is negative where the tool forbids it             *)
(*   "code"    the order code is malformed                                 *)
(*   "id"      the id that becomes a path segment is malformed             *)
(*   "ref"     an id inside the request's body is malformed                *)
(*   "source"  the event to clone is not on the allowlist                  *)
(*   "rule"    a rule of the tool's own is broken: nothing to update, a    *)
(*             setting that routes mail or money, a date, a type, a count  *)
(* and "event": the event is not on the allowlist of the configuration.    *)
(* Text that no tool looks at (names, an update_event's dates, the answers *)
(* of an attendee) is pretix's to refuse, and not a flaw here.             *)
(***************************************************************************)
Flaws == {"money", "sign", "code", "id", "ref", "source", "rule"}

\* What a tool's arguments can have, and which of it the gate, the preview and the body check.
Tool(class, name, args, gate, preview, body) ==
  [class |-> class, name |-> name, args |-> args, gate |-> gate \cup {"event"},
   preview |-> preview, body |-> body \cup {"event"}]

Write(name, args, gate, body) == Tool("write", name, args, gate, {}, body)
Guarded(name, args, gate, body) == Tool("guarded", name, args, gate, {}, body)
HighRisk(name, args, gate, preview, body) == Tool("high-risk", name, args, gate, preview, body)

\* prices() or price() on every parameter declared in money=.
Money == {"money"}

\* events.py
create_event == Write("create_event", {}, {}, {})
clone_event == Write("clone_event", {"source"}, {}, {"source"})
update_event == Guarded("update_event", {"rule"}, {}, {"rule"})
update_event_settings == Guarded("update_event_settings", {"rule"}, {}, {"rule"})
set_event_plugins == Guarded("set_event_plugins", {"rule"}, {}, {"rule"})
publish_event == HighRisk("publish_event", {}, {}, {"event"}, {})
unpublish_event == Guarded("unpublish_event", {}, {}, {})
delete_event == HighRisk("delete_event", {}, {}, {"event"}, {})
create_tax_rule == Guarded("create_tax_rule", Money, Money, {})
update_tax_rule == Guarded("update_tax_rule", Money \cup {"id", "rule"}, Money, {"id", "rule"})
delete_tax_rule == HighRisk("delete_tax_rule", {"id"}, {}, {}, {"id"})
EventTools == {create_event, clone_event, update_event, update_event_settings,
               set_event_plugins, publish_event, unpublish_event, delete_event,
               create_tax_rule, update_tax_rule, delete_tax_rule}

\* catalog.py
create_product == Guarded("create_product", Money \cup {"ref"}, Money, {"ref"})

UpdateProductUndeclared ==
  Guarded("update_product", Money \cup {"id", "ref", "rule"}, {}, {"id", "ref", "rule"})

update_product ==
  Guarded("update_product", Money \cup {"id", "ref", "rule"}, Money, {"id", "ref", "rule"})
create_product_variation == Guarded("create_product_variation", Money \cup {"id"}, Money, {"id"})
update_product_variation ==
  Guarded("update_product_variation", Money \cup {"id", "rule"}, Money, {"id", "rule"})
create_category == Guarded("create_category", {}, {}, {})
update_category == Guarded("update_category", {"id", "rule"}, {}, {"id", "rule"})
create_quota == Guarded("create_quota", {"ref", "rule"}, {}, {"ref", "rule"})
update_quota == Guarded("update_quota", {"id", "ref", "rule"}, {}, {"id", "ref", "rule"})
create_question == Guarded("create_question", {"ref", "rule"}, {}, {"ref", "rule"})
update_question == Guarded("update_question", {"id", "ref", "rule"}, {}, {"id", "ref", "rule"})
delete_product == HighRisk("delete_product", {"id"}, {}, {"event", "id"}, {"id"})
delete_quota == HighRisk("delete_quota", {"id"}, {}, {"event", "id"}, {"id"})
delete_category == HighRisk("delete_category", {"id"}, {}, {}, {"id"})
delete_question == HighRisk("delete_question", {"id"}, {}, {}, {"id"})
CatalogTools == {create_product, update_product, create_product_variation,
                 update_product_variation, create_category, update_category, create_quota,
                 update_quota, create_question, update_question, delete_product,
                 delete_quota, delete_category, delete_question}

\* orders.py
mark_order_paid == Guarded("mark_order_paid", {"code"}, {}, {"code"})
extend_payment_deadline == Guarded("extend_payment_deadline", {"code"}, {}, {"code"})
add_order_comment == Write("add_order_comment", {"code", "rule"}, {}, {"code", "rule"})
edit_attendee == Guarded("edit_attendee", {"id", "rule"}, {}, {"id", "rule"})
resend_order_email == Write("resend_order_email", {"code"}, {}, {"code"})

Amount == Money \cup {"sign"}
cancel_order ==
  HighRisk("cancel_order", Amount \cup {"code"}, Money,
           Amount \cup {"event", "code"}, Amount \cup {"code"})

RefundTrustsPreview ==
  HighRisk("refund_order", Amount \cup {"code", "ref", "rule"}, Money,
           Amount \cup {"event", "code"}, {"code", "ref", "rule"})

\* `state` and the id of `payment` are looked at in the body only.
refund_order ==
  HighRisk("refund_order", Amount \cup {"code", "ref", "rule"}, Money,
           Amount \cup {"event", "code"}, Amount \cup {"code", "ref", "rule"})
OrderTools == {mark_order_paid, extend_payment_deadline, add_order_comment, edit_attendee,
               resend_order_email, cancel_order, refund_order}

\* vouchers.py, checkin.py, subevents.py
_voucher_payload == Amount \cup {"ref", "rule"}
create_voucher == Write("create_voucher", _voucher_payload, Money, _voucher_payload)
create_vouchers_batch ==
  Guarded("create_vouchers_batch", _voucher_payload, Money, _voucher_payload)
delete_voucher == HighRisk("delete_voucher", {"id"}, {}, {"event", "id"}, {"id"})
create_checkin_list == Write("create_checkin_list", {"ref", "rule"}, {}, {"ref", "rule"})
update_checkin_list ==
  Write("update_checkin_list", {"id", "ref", "rule"}, {}, {"id", "ref", "rule"})
delete_checkin_list == HighRisk("delete_checkin_list", {"id"}, {}, {"event", "id"}, {"id"})
send_waiting_list_voucher == Write("send_waiting_list_voucher", {"id"}, {}, {"id"})
create_subevents == Guarded("create_subevents", Money \cup {"ref", "rule"}, Money, {"ref", "rule"})
update_subevent ==
  Guarded("update_subevent", Money \cup {"id", "ref", "rule"}, Money, {"id", "ref", "rule"})
delete_subevent == HighRisk("delete_subevent", {"id"}, {}, {"event", "id"}, {"id"})
OtherTools == {create_voucher, create_vouchers_batch, delete_voucher, create_checkin_list,
               update_checkin_list, delete_checkin_list, send_waiting_list_voucher,
               create_subevents, update_subevent, delete_subevent}

Tools == EventTools \cup CatalogTools \cup OrderTools \cup OtherTools

-----------------------------------------------------------------------------

NoCall == [tool |-> create_event, event |-> CHOOSE e \in Events : TRUE, flaws |-> {}]
Calls == [tool : Tools, event : Events, flaws : SUBSET Flaws]
Ends == {"sent", "refused"}

TypeOK ==
  /\ conf \in Confs
  /\ phase \in {"idle", "look", "preview", "queued", "approved", "body"} \cup Ends
  /\ call \in Calls /\ call.flaws \subseteq call.tool.args
  /\ reached \subseteq Events

Init ==
  /\ conf \in Confs
  /\ phase = "idle"
  /\ call = NoCall
  /\ reached = {}

\* The checks a call fails, in the process that makes them.
Failed(c, checks) ==
  checks \cap (c.flaws \cup (IF c.event \in conf.allowed THEN {} ELSE {"event"}))

Goto(next) == phase' = next /\ UNCHANGED <<conf, call>>

\* A request about the call's event.
Requested == reached' = reached \cup {call.event}

FirstStep(t) == IF t.class = "high-risk" /\ ~conf.auto THEN "preview"
                ELSE IF t.class = "guarded" THEN "look" ELSE "body"

CallUndeclared(t, e, f) ==
  /\ phase = "idle"
  /\ call' = [tool |-> t, event |-> e, flaws |-> f]
  /\ phase' = IF Failed(call', t.gate) = {} THEN FirstStep(t) ELSE "refused"
  /\ UNCHANGED <<conf, reached>>

\* run_tool up to its first await: capability, event, money.  The server binds the tool's
\* own signature: a call has the arguments the tool declares.
Call(t, e, f) ==
  /\ phase = "idle"
  /\ f \subseteq t.args
  /\ call' = [tool |-> t, event |-> e, flaws |-> f]
  /\ phase' = IF Failed(call', t.gate) = {} THEN FirstStep(t) ELSE "refused"
  /\ UNCHANGED <<conf, reached>>

\* The guard's GET: the event sells, or not, or the request fails.
Look ==
  /\ phase = "look"
  /\ \E next \in {"preview", "body", "refused"} : Goto(next)
  /\ Requested

PreviewRefuses ==
  /\ phase = "preview"
  /\ \/ Failed(call, call.tool.preview) # {} /\ UNCHANGED reached
     \/ call.tool.preview # {} /\ Requested     \* an amount checked late, or a failed GET
  /\ Goto("refused")

\* _propose: the preview, which reads from pretix if the tool has one of its own.
Propose ==
  /\ phase = "preview"
  /\ Failed(call, call.tool.preview) = {}
  /\ IF call.tool.preview = {} THEN UNCHANGED reached ELSE Requested
  /\ Goto("queued")

Approve == /\ phase = "queued"
           /\ Goto("approved")
           /\ UNCHANGED reached

\* execute_approved, up to the body.  The gate is not passed again.
Execute == /\ phase = "approved"
           /\ Goto("body")
           /\ UNCHANGED reached

BodyRefuses == /\ phase = "body"
               /\ Failed(call, call.tool.body) # {}
               /\ Goto("refused")
               /\ UNCHANGED reached

BodyUnchecked == /\ phase = "body"
                 /\ Goto("sent")
                 /\ Requested

BodySends == /\ phase = "body"
             /\ Failed(call, call.tool.body) = {}
             /\ Goto("sent")
             /\ Requested

\* The server restarts, or approve --run takes over: a process with a configuration of its
\* own.  A call that was not queued dies with its process.
OtherProcess ==
  /\ conf' \in Confs
  /\ reached' = {}
  /\ phase' = IF phase \in {"queued", "approved"} THEN phase ELSE "idle"
  /\ IF phase' = "idle" THEN call' = NoCall ELSE UNCHANGED call

\* The next call.
Done == /\ phase \in Ends
        /\ phase' = "idle"
        /\ call' = NoCall
        /\ UNCHANGED <<conf, reached>>

Next == \/ \E t \in Tools, e \in Events, f \in SUBSET Flaws : Call(t, e, f)
        \/ Look \/ PreviewRefuses \/ Propose \/ Approve \/ Execute
        \/ BodyRefuses \/ BodySends
        \/ OtherProcess \/ Done

Spec == Init /\ [][Next]_vars

-----------------------------------------------------------------------------

\* On every path, whichever checks the path leaves out: what is sent has nothing wrong that
\* its declared arguments can have wrong.  With MCP_AUTO_APPROVE no preview ever runs, and a
\* queued call passes no gate when it is executed, so the gate and the body together must do.
OnlyScreenedIsSent == phase = "sent" => call.flaws = {}

\* registry.py:73-75: "an unparseable price must be refused before it is queued, not after
\* the ceremony", for the price of every tool that is or can become high-risk.
AmountsRefusedBeforeQueue ==
  phase \in {"queued", "approved"} => "money" \notin call.flaws

\* PRETIX_EVENT_ALLOWLIST: no process sends a request about an event outside its own
\* allowlist, not even for an action that was approved under a wider one.
AllowlistHolds == reached \subseteq conf.allowed
=============================================================================
