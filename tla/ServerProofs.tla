----------------------------- MODULE ServerProofs -----------------------------
(***************************************************************************)
(* That the checks of the gate and of the bodies are enough on every path, *)
(* for any events and configurations and any faults in a call's arguments; *)
(* and that they are in the processes of a server, for any settings, which *)
(* are closed by default and mask what they let out.                       *)
(***************************************************************************)
EXTENDS Server, FoldLemmas

\* What the table of tools has to get right: whatever a tool's arguments can have wrong is
\* looked at by the gate or by the body, amounts by the gate, the event by both.
Covered(t) ==
  /\ t.args \subseteq Flaws
  /\ t.args \subseteq t.gate \cup t.body
  /\ "money" \in t.args => "money" \in t.gate
  /\ "event" \in t.gate /\ "event" \in t.body

\* Every tool of events.py is covered.
LEMMA EventToolsCovered == \A t \in EventTools : Covered(t)
BY DEF EventTools, create_event, clone_event, update_event, update_event_settings,
       set_event_plugins, publish_event, unpublish_event, delete_event, create_tax_rule,
       update_tax_rule, delete_tax_rule, Covered, Tool, Write, Guarded, HighRisk, Money,
       Flaws

\* Every tool of catalog.py is covered.
LEMMA CatalogToolsCovered == \A t \in CatalogTools : Covered(t)
BY DEF CatalogTools, create_product, update_product, create_product_variation,
       update_product_variation, create_category, update_category, create_quota,
       update_quota, create_question, update_question, delete_product, delete_quota,
       delete_category, delete_question, Covered, Tool, Write, Guarded, HighRisk, Money,
       Flaws

\* Every tool of orders.py is covered.
LEMMA OrderToolsCovered == \A t \in OrderTools : Covered(t)
BY DEF OrderTools, mark_order_paid, extend_payment_deadline, add_order_comment,
       edit_attendee, resend_order_email, cancel_order, refund_order, Covered, Tool,
       Write, Guarded, HighRisk, Money, Flaws, Amount

\* Every tool of the other modules is covered.
LEMMA OtherToolsCovered == \A t \in OtherTools : Covered(t)
BY DEF OtherTools, create_voucher, create_vouchers_batch, delete_voucher,
       create_checkin_list, update_checkin_list, delete_checkin_list,
       send_waiting_list_voucher, create_subevents, update_subevent, delete_subevent,
       Covered, Tool, Write, Guarded, HighRisk, Money, Flaws, Amount, _voucher_payload

\* So is every tool.
LEMMA ToolsCovered == \A t \in Tools : Covered(t)
BY EventToolsCovered, CatalogToolsCovered, OrderToolsCovered, OtherToolsCovered DEF Tools

Phases == {"idle", "look", "preview", "queued", "approved", "body", "sent", "refused"}

\* What each phase can rely on: a call in progress has passed the gate; before it is queued,
\* and in this very process; a sent one has passed the body too.
Passed ==
  /\ phase \in {"look", "preview", "queued", "approved", "body", "sent"} =>
       call.flaws \cap call.tool.gate = {}
  /\ phase \in {"look", "preview"} => call.event \in conf.allowed
  /\ phase = "sent" => call.flaws \cap call.tool.body = {}

SInv == TypeOK /\ Passed /\ AllowlistHolds

\* A call that fails none of some checks has none of these flaws, and its event is allowed if
\* that is among the checks.
LEMMA NoneFailed ==
  ASSUME NEW c \in Calls, NEW checks, Failed(c, checks) = {}
  PROVE  /\ c.flaws \cap checks = {}
         /\ "event" \in checks => c.event \in conf.allowed
BY DEF Failed

\* The placeholder of an idle process is a call.
LEMMA NoCallTyped == NoCall \in Calls /\ NoCall.flaws \subseteq NoCall.tool.args
<1>1. (CHOOSE e \in Events : TRUE) \in Events
  BY ScreeningAssumption
<1>2. create_event \in Tools
  BY DEF Tools, EventTools
<1>3. QED
  BY <1>1, <1>2 DEF NoCall, Calls

\* Every step keeps types, what the phases rely on, and the allowlist.
LEMMA ScreeningStep == SInv /\ [Next]_vars => SInv'
<1> SUFFICES ASSUME TypeOK, Passed, AllowlistHolds, [Next]_vars PROVE SInv'
  BY DEF SInv
<1>a. /\ conf \in Confs /\ phase \in Phases /\ call \in Calls
      /\ call.flaws \subseteq call.tool.args /\ reached \subseteq Events
  BY DEF TypeOK, Ends, Phases
<1>b. call.tool \in Tools /\ call.event \in Events
  BY <1>a DEF Calls
<1>c. Covered(call.tool)
  BY <1>b, ToolsCovered
<1>d. /\ conf' \in Confs /\ phase' \in Phases /\ call' \in Calls
      /\ call'.flaws \subseteq call'.tool.args
      /\ reached' \subseteq Events
      => TypeOK'
  BY DEF TypeOK, Ends, Phases
<1>1. ASSUME NEW t \in Tools, NEW e \in Events, NEW f \in SUBSET Flaws, Call(t, e, f)
      PROVE  SInv'
  <2>1. /\ call' = [tool |-> t, event |-> e, flaws |-> f] /\ f \subseteq t.args
        /\ UNCHANGED <<conf, reached>>
    BY <1>1 DEF Call
  <2>2. call' \in Calls
    BY <2>1 DEF Calls
  <2>3. /\ phase' \in {"preview", "look", "body", "refused"}
        /\ phase' # "refused" => Failed(call', t.gate) = {}
    BY <1>1 DEF Call, FirstStep
  <2>4. phase' # "refused" => f \cap t.gate = {} /\ e \in conf.allowed
    <3>1. "event" \in t.gate
      BY ToolsCovered DEF Covered
    <3>2. QED
      BY <2>1, <2>2, <2>3, <3>1, NoneFailed
  <2>5. TypeOK'
    BY <1>a, <1>d, <2>1, <2>2, <2>3 DEF Phases
  <2>6. Passed'
    BY <2>1, <2>3, <2>4 DEF Passed
  <2>7. AllowlistHolds'
    BY <2>1 DEF AllowlistHolds
  <2>8. QED
    BY <2>5, <2>6, <2>7 DEF SInv
<1>2. CASE Look
  <2>1. /\ phase = "look" /\ phase' \in {"preview", "body", "refused"}
        /\ UNCHANGED <<conf, call>> /\ reached' = reached \cup {call.event}
    BY <1>2 DEF Look, Goto, Requested
  <2>2. TypeOK'
    BY <1>a, <1>b, <1>d, <2>1 DEF Phases
  <2>3. Passed' /\ AllowlistHolds'
    BY <2>1 DEF Passed, AllowlistHolds
  <2>4. QED
    BY <2>2, <2>3 DEF SInv
<1>3. CASE PreviewRefuses
  <2>1. /\ phase = "preview" /\ phase' = "refused"
        /\ UNCHANGED <<conf, call>>
        /\ reached' = reached \/ reached' = reached \cup {call.event}
    BY <1>3 DEF PreviewRefuses, Goto, Requested
  <2>2. TypeOK'
    BY <1>a, <1>b, <1>d, <2>1 DEF Phases
  <2>3. Passed' /\ AllowlistHolds'
    BY <2>1 DEF Passed, AllowlistHolds
  <2>4. QED
    BY <2>2, <2>3 DEF SInv
<1>4. CASE Propose
  <2>1. /\ phase = "preview" /\ phase' = "queued"
        /\ UNCHANGED <<conf, call>>
        /\ reached' = reached \/ reached' = reached \cup {call.event}
    BY <1>4 DEF Propose, Goto, Requested
  <2>2. TypeOK'
    BY <1>a, <1>b, <1>d, <2>1 DEF Phases
  <2>3. Passed' /\ AllowlistHolds'
    BY <2>1 DEF Passed, AllowlistHolds
  <2>4. QED
    BY <2>2, <2>3 DEF SInv
<1>5. CASE Approve \/ Execute \/ BodyRefuses
  <2>1. /\ \/ phase = "queued" /\ phase' = "approved"
           \/ phase = "approved" /\ phase' = "body"
           \/ phase = "body" /\ phase' = "refused"
        /\ UNCHANGED <<conf, call, reached>>
    BY <1>5 DEF Approve, Execute, BodyRefuses, Goto
  <2>2. TypeOK'
    BY <1>a, <1>d, <2>1 DEF Phases
  <2>3. Passed' /\ AllowlistHolds'
    BY <2>1 DEF Passed, AllowlistHolds
  <2>4. QED
    BY <2>2, <2>3 DEF SInv
<1>6. CASE BodySends
  <2>1. /\ phase = "body" /\ phase' = "sent"
        /\ Failed(call, call.tool.body) = {}
        /\ UNCHANGED <<conf, call>> /\ reached' = reached \cup {call.event}
    BY <1>6 DEF BodySends, Goto, Requested
  <2>2. call.flaws \cap call.tool.body = {} /\ call.event \in conf.allowed
    BY <1>a, <1>c, <2>1, NoneFailed DEF Covered
  <2>3. TypeOK'
    BY <1>a, <1>b, <1>d, <2>1 DEF Phases
  <2>4. Passed' /\ AllowlistHolds'
    BY <2>1, <2>2 DEF Passed, AllowlistHolds
  <2>5. QED
    BY <2>3, <2>4 DEF SInv
<1>7. CASE OtherProcess
  <2>1. conf' \in Confs /\ reached' = {}
    BY <1>7 DEF OtherProcess
  <2>2. \/ phase' = phase /\ phase \in {"queued", "approved"} /\ UNCHANGED call
        \/ phase' = "idle" /\ call' = NoCall
    BY <1>7 DEF OtherProcess
  <2>3. TypeOK'
    BY <1>a, <1>d, <2>1, <2>2, NoCallTyped DEF Phases
  <2>4. Passed' /\ AllowlistHolds'
    BY <2>1, <2>2 DEF Passed, AllowlistHolds
  <2>5. QED
    BY <2>3, <2>4 DEF SInv
<1>8. CASE Done
  <2>1. /\ phase' = "idle" /\ call' = NoCall /\ UNCHANGED <<conf, reached>>
    BY <1>8 DEF Done
  <2>2. TypeOK'
    BY <1>a, <1>d, <2>1, NoCallTyped DEF Phases
  <2>3. Passed' /\ AllowlistHolds'
    BY <2>1 DEF Passed, AllowlistHolds
  <2>4. QED
    BY <2>2, <2>3 DEF SInv
<1>9. CASE UNCHANGED vars
  BY <1>9 DEF vars, SInv, TypeOK, Passed, AllowlistHolds
<1>10. QED
  BY <1>1, <1>2, <1>3, <1>4, <1>5, <1>6, <1>7, <1>8, <1>9 DEF Next

\* An idle process has called nothing.
LEMMA ScreeningInit == Init => SInv
BY NoCallTyped DEF Init, SInv, TypeOK, Passed, AllowlistHolds

\* The three together are inductive.
LEMMA ScreeningInductive == Spec => []SInv
BY ScreeningInit, ScreeningStep, PTL DEF Spec

\* What has passed the gate has no wrong amount, what has passed the body has nothing wrong.
LEMMA Screened == SInv => OnlyScreenedIsSent /\ AmountsRefusedBeforeQueue
<1> SUFFICES ASSUME SInv PROVE OnlyScreenedIsSent /\ AmountsRefusedBeforeQueue
  OBVIOUS
<1>1. Covered(call.tool) /\ call.flaws \subseteq call.tool.args
  BY ToolsCovered DEF SInv, TypeOK, Calls
<1>2. phase = "sent" => call.flaws = {}
  BY <1>1 DEF SInv, Passed, Covered
<1>3. phase \in {"queued", "approved"} => "money" \notin call.flaws
  BY <1>1 DEF SInv, Passed, Covered
<1>4. QED
  BY <1>2, <1>3 DEF OnlyScreenedIsSent, AmountsRefusedBeforeQueue

\* On every path the checks of the gate and the body add up to all there are, whichever
\* preview is left out and whichever process runs the body (run_tool, execute_approved).
THEOREM OnlyScreenedIsSentHolds == Spec => []OnlyScreenedIsSent
BY Screened, ScreeningInductive, PTL

\* No amount that fails to parse is ever queued, for no tool and under no configuration
\* (registry.py:73-75).
THEOREM AmountsRefusedBeforeQueueHolds == Spec => []AmountsRefusedBeforeQueue
BY Screened, ScreeningInductive, PTL

\* No process sends a request about an event outside its own allowlist, for any set of
\* events and allowlists (PRETIX_EVENT_ALLOWLIST).
THEOREM AllowlistHoldsAlways == Spec => []AllowlistHolds
<1>1. SInv => AllowlistHolds
  BY DEF SInv
<1>2. QED
  BY <1>1, ScreeningInductive, PTL

-----------------------------------------------------------------------------
(* The server                                                              *)

\* The process was started with settings that load accepts, and has read them.
Begun ==
  /\ settings \in DOMAIN Settings /\ ConfigErrors(Settings[settings]) = {}
  /\ cfg = load(Settings[settings]) /\ conf = View(cfg)

\* Only what is enabled gets past the gate or out of the queue.
Shut ==
  Silent(Settings[settings]) => phase \notin {"look", "preview", "body", "sent"}

Bound == /\ serving \in {"http", "stdio", "none"}
         /\ serving = "http" => check_http_bind(cfg)

ServerInv == SInv /\ Begun /\ Shut /\ Bound

\* A process that can be started is made of settings, and they of it.
LEMMA Begins ==
  ASSUME NEW p \in Processes
  PROVE  /\ p.settings \in DOMAIN Settings /\ ConfigErrors(Settings[p.settings]) = {}
         /\ p.cfg = load(Settings[p.settings]) /\ p.conf = View(p.cfg) /\ p.conf \in Confs
         /\ p = [settings |-> p.settings, cfg |-> p.cfg, conf |-> p.conf]
<1>1. PICK name \in {s \in DOMAIN Settings : ConfigErrors(Settings[s]) = {}} : p = Process(name)
  BY DEF Processes
<1>2. p.conf \in Confs
  BY ServerAssumption
<1>3. QED
  BY <1>1, <1>2 DEF Process

\* The other way round, for the running process.
LEMMA BegunIsProcess == Begun => [settings |-> settings, cfg |-> cfg, conf |-> conf] \in Processes
<1> SUFFICES ASSUME Begun
             PROVE  [settings |-> settings, cfg |-> cfg, conf |-> conf] \in Processes
  OBVIOUS
<1>1. [settings |-> settings, cfg |-> cfg, conf |-> conf] = Process(settings)
  BY DEF Begun, Process
<1>2. QED
  BY <1>1 DEF Begun, Processes

\* Settings that name no capability and no tool enable nothing that writes.
LEMMA SilentEnablesNothing ==
  ASSUME Begun, Silent(Settings[settings]), NEW t PROVE ~Enabled(t)
<1>1. get_list(Settings[settings], "MCP_CAPABILITIES") = {}
      /\ get_list(Settings[settings], "MCP_TOOL_ALLOWLIST") = {}
  BY DEF Silent, get_list, Mentioned
<1>2. cfg.capabilities = {"read"} /\ cfg.tool_allowlist = {}
  BY <1>1 DEF Begun, load, capabilities
<1>3. Class(t) \in {"write", "write:high-risk"}
  BY DEF Class
<1>4. QED
  BY <1>2, <1>3 DEF Enabled, tool_enabled

\* The first process is one that its settings allow, and handles no call.
LEMMA ServerBegins == ServerInit => ServerInv
<1> SUFFICES ASSUME ServerInit PROVE ServerInv
  OBVIOUS
<1>1. PICK p \in Processes : settings = p.settings /\ cfg = p.cfg /\ conf = p.conf
  BY DEF ServerInit
<1>2. Begun
  BY <1>1, Begins DEF Begun
<1>3. SInv
  BY ScreeningInit DEF ServerInit
<1>4. QED
  BY <1>2, <1>3 DEF ServerInit, ServerInv, Shut, Bound, Init

\* Another process takes over, with settings of its own, or none does.
LEMMA StartKeeps ==
  ASSUME ServerInv,
         \/ \E p \in Processes, transport \in {"http", "stdio"} : StartProcess(p, transport)
         \/ RefusesToStart
  PROVE  ServerInv'
<1>1. OtherProcess /\ phase' \in {"queued", "approved", "idle"}
  BY DEF StartProcess, RefusesToStart, OtherProcess
<1>2. SInv'
  BY <1>1, ScreeningStep DEF ServerInv, Next
<1>3. Shut'
  BY <1>1 DEF Shut
<1>4. Begun' /\ Bound'
  <2>1. ASSUME NEW p \in Processes, NEW transport \in {"http", "stdio"},
               StartProcess(p, transport)
        PROVE  Begun' /\ Bound'
    BY <2>1, Begins DEF StartProcess, Starts, Begun, Bound
  <2>2. CASE RefusesToStart
    BY <2>2 DEF RefusesToStart, ServerInv, Begun, Bound
  <2>3. QED
    BY <2>1, <2>2
<1>5. QED
  BY <1>2, <1>3, <1>4 DEF ServerInv

\* The process goes on: what it was started with stays, and so must the rest.
LEMMA SameProcess ==
  ASSUME ServerInv, UNCHANGED <<process, conf>>, SInv', Shut' PROVE ServerInv'
BY DEF ServerInv, Begun, Bound, process

\* An agent's call gets past the gate if its tool is enabled.
LEMMA AgentKeeps == ServerInv /\ Agent => ServerInv'
<1> SUFFICES ASSUME ServerInv, Agent PROVE ServerInv'
  OBVIOUS
<1>1. ASSUME NEW t \in Tools, NEW e \in Events, NEW f \in SUBSET t.args,
             Enabled(t), CallsTool(t, e, f)
      PROVE  ServerInv'
  <2>1. Call(t, e, f) /\ UNCHANGED <<process, conf>>
    BY <1>1 DEF CallsTool, Quietly, Lets, Call
  <2>2. f \in SUBSET Flaws
    BY ToolsCovered DEF Covered
  <2>3. SInv'
    BY <2>1, <2>2, ScreeningStep DEF ServerInv, Next
  <2>4. ~Silent(Settings[settings])
    BY <1>1, SilentEnablesNothing DEF ServerInv
  <2>5. Shut'
    BY <2>1, <2>4 DEF Shut, process
  <2>6. QED
    BY <2>1, <2>3, <2>5, SameProcess
<1>2. ASSUME NEW e \in conf.allowed, Reads(e) PROVE ServerInv'
  <2>1. /\ reached' = reached \cup {e} /\ UNCHANGED <<conf, phase, call>>
        /\ UNCHANGED process
    BY <1>2 DEF Reads, Lets
  <2>2. conf.allowed \subseteq Events
    BY ScreeningAssumption DEF ServerInv, SInv, TypeOK
  <2>3. SInv'
    BY <2>1, <2>2 DEF ServerInv, SInv, TypeOK, Passed, AllowlistHolds
  <2>4. Shut'
    BY <2>1 DEF ServerInv, Shut, process
  <2>5. QED
    BY <2>1, <2>3, <2>4, SameProcess
<1>3. QED
  BY <1>1, <1>2 DEF Agent

\* A call goes on; out of the queue only if its tool is enabled.
LEMMA HandlingKeeps == ServerInv /\ Handling => ServerInv'
<1> SUFFICES ASSUME ServerInv, Handling PROVE ServerInv'
  OBVIOUS
<1>a. UNCHANGED process
  BY DEF Handling, Proposes, Executes, Fails, Records, Logs, Quietly, Lets
<1>b. \/ Look \/ PreviewRefuses \/ Propose \/ Approve \/ BodyRefuses \/ BodySends \/ Done
      \/ Execute /\ Enabled(call.tool)
      \/ phase = "approved" /\ Goto("refused") /\ UNCHANGED reached
  BY DEF Handling, Proposes, Executes, Fails, Records, Quietly
<1>1. CASE Look \/ PreviewRefuses \/ Propose \/ Approve \/ BodyRefuses \/ BodySends \/ Done
  <2>1. SInv' /\ UNCHANGED conf
    BY <1>1, ScreeningStep
       DEF ServerInv, Next, Look, PreviewRefuses, Propose, Approve, BodyRefuses, BodySends, Done,
           Goto
  <2>2. phase \in {"look", "preview", "body", "sent"} \/ phase' \in {"approved", "idle"}
    BY <1>1 DEF Look, PreviewRefuses, Propose, Approve, BodyRefuses, BodySends, Done, Goto
  <2>3. Shut'
    BY <1>a, <2>2 DEF ServerInv, Shut, process
  <2>4. QED
    BY <1>a, <2>1, <2>3, SameProcess
<1>2. CASE Execute /\ Enabled(call.tool)
  <2>1. SInv' /\ UNCHANGED conf
    BY <1>2, ScreeningStep DEF ServerInv, Next, Execute, Goto
  <2>2. ~Silent(Settings[settings])
    BY <1>2, SilentEnablesNothing DEF ServerInv
  <2>3. QED
    BY <1>a, <2>1, <2>2, SameProcess DEF Shut, process
<1>3. CASE phase = "approved" /\ Goto("refused") /\ UNCHANGED reached
  <2>1. phase' = "refused" /\ UNCHANGED <<conf, call, reached>>
    BY <1>3 DEF Goto
  <2>2. SInv'
    BY <2>1 DEF ServerInv, SInv, TypeOK, Passed, AllowlistHolds, Ends
  <2>3. QED
    BY <1>a, <2>1, <2>2, SameProcess DEF Shut
<1>4. QED
  BY <1>b, <1>1, <1>2, <1>3

\* Restarts, the agent and the call under way keep it; delivering an answer touches none of it.
LEMMA ServerStep == ServerInv /\ [ServerNext]_serverVars => ServerInv'
<1> SUFFICES ASSUME ServerInv, [ServerNext]_serverVars PROVE ServerInv'
  OBVIOUS
<1>1. CASE UNCHANGED <<vars, process>>
  BY <1>1, ScreeningStep, SameProcess DEF ServerInv, Shut, vars, process
<1>2. Delivered \/ (\E payload \in Payloads : Answers(payload)) \/ UNCHANGED serverVars
        => UNCHANGED <<vars, process>>
  BY DEF Delivered, Answers, Lets, serverVars
<1>3. QED
  BY <1>1, <1>2, StartKeeps, AgentKeeps, HandlingKeeps DEF ServerNext

\* It is inductive, with what Screening has about a call.
LEMMA ServerInvariant == ServerSpec => []ServerInv
BY ServerBegins, ServerStep, PTL DEF ServerSpec

\* What is proved of the checks on the paths of a call is true in every process that settings
\* can start, with the reading tools beside it and with what the gate and execute_approved do
\* not enable left out.
THEOREM ServerScreens ==
  ServerSpec => [](OnlyScreenedIsSent /\ AmountsRefusedBeforeQueue /\ AllowlistHolds)
<1>1. ServerInv => OnlyScreenedIsSent /\ AmountsRefusedBeforeQueue /\ AllowlistHolds
  BY Screened DEF ServerInv, SInv
<1>2. QED
  BY ServerInvariant, <1>1, PTL

\* config.py:3-4, "Defaults are closed", for any settings: without a capability or a tool named,
\* nothing that changes pretix is looked at, previewed or sent, approved or not; and nothing is
\* served over http without a token somebody made.
THEOREM DefaultsClosedHolds == ServerSpec => []DefaultsClosed
<1>1. ServerInv => DefaultsClosed
  <2> SUFFICES ASSUME ServerInv, serving = "http"
               PROVE  \E source \in {Settings[settings].env, Settings[settings].file} :
                        /\ Mentioned(source, "MCP_BEARER_TOKEN")
                        /\ source["MCP_BEARER_TOKEN"] # ""
    BY DEF ServerInv, Shut, DefaultsClosed
  <2>1. get(Settings[settings], "MCP_BEARER_TOKEN") # ""
    BY DEF ServerInv, Bound, Begun, load, check_http_bind
  <2>2. QED
    BY <2>1 DEF get
<1>2. QED
  BY ServerInvariant, <1>1, PTL

\* "Environment wins over the optional config file", setting by setting, for any settings.
THEOREM EnvironmentWinsHolds == ServerSpec => []EnvironmentWins
<1> DEFINE said == Settings[settings]
           won == {key \in DOMAIN said.env : key \in Lists \/ said.env[key] # ""}
           rest == [key \in DOMAIN said.file \ won |-> said.file[key]]
           without == [env |-> said.env, file |-> rest]
<1>1. \A key \in Lists : get_list(said, key) = get_list(without, key)
  BY DEF get_list, Mentioned
<1>2. \A key : key \notin Lists => get(said, key) = get(without, key)
  BY DEF get, Mentioned
<1>3. capabilities(said) = capabilities(without) /\ pii_mode(said) = pii_mode(without)
  BY <1>1, <1>2 DEF capabilities, pii_mode, Lists
<1>4. load(said) = load(without)
  BY <1>1, <1>2, <1>3 DEF load, Lists
<1>5. ServerInv => EnvironmentWins
  BY <1>4 DEF ServerInv, Begun, EnvironmentWins
<1>6. QED
  BY ServerInvariant, <1>5, PTL

-----------------------------------------------------------------------------
(* What leaves it                                                          *)

\* A step on the way to a leaf, and the arguments that the walk has there.
Step == [key : STRING, place : Nat]
Args == [key : STRING \cup {NoKey}, in_pii : BOOLEAN]

\* The arguments are typed, whatever the walk steps into.
LEMMA IntoTyped == \A args \in Args, step \in Step : Into(args, step) \in Args
BY DEF Into, Args, Step

\* it has the arguments of the walk after the steps at some of the places of a way.
Walks(it, path) ==
  \A D \in SUBSET DOMAIN path :
    it[D] = IF D = {} THEN Top ELSE Into(it[D \ {Max(D)}], path[Max(D)])

\* The arguments are handed on from call to call.
LEMMA WithinWalks ==
  ASSUME NEW path \in Seq(Step)
  PROVE  \E it : Walks(it, path) /\ Within(path) = it[DOMAIN path]
<1> DEFINE Fold(it) == it = [D \in SUBSET DOMAIN path |-> IF D = {} THEN Top
                               ELSE Into(it[D \ {Max(D)}], path[Max(D)])]
           iter == CHOOSE it : Fold(it)
           h == [p \in Step \X Args |-> Into(p[2], p[1])]
<1>1. Within(path) = iter[DOMAIN path]
  BY DEF Within, FoldLeft, MapThenFoldSet
<1>2. \A step \in Step, args \in Args : h[<<step, args>>] = Into(args, step)
  OBVIOUS
<1>3. Top \in Args /\ Steps(h, Step, Args)
  <2> HIDE DEF h
  <2>1. Top \in Args
    BY DEF Top, Args
  <2>2. QED
    BY <1>2, <2>1, IntoTyped DEF Steps
<1> HIDE DEF h
<1>4. PICK it \in [SUBSET DOMAIN path -> Args] : FoldsLeft(it, path, h, Top)
  BY <1>3, LeftIterates
<1>5. ASSUME NEW D \in SUBSET DOMAIN path
      PROVE  it[D] = IF D = {} THEN Top ELSE Into(it[D \ {Max(D)}], path[Max(D)])
  <2>1. CASE D # {}
    <3>1. path[Max(D)] \in Step /\ it[D \ {Max(D)}] \in Args
      BY <2>1, Rests
    <3>2. it[D] = h[<<path[Max(D)], it[D \ {Max(D)}]>>]
      BY <1>4, <2>1 DEF FoldsLeft
    <3>3. QED
      BY <1>2, <2>1, <3>1, <3>2
  <2>2. QED
    BY <1>4, <2>1 DEF FoldsLeft
<1>6. Fold(it)
  BY <1>5
<1>7. Fold(iter)
  BY <1>6
<1>8. Walks(iter, path)
  <2> HIDE DEF iter
  <2>1. QED
    BY <1>7 DEF Walks
<1>9. QED
  BY <1>1, <1>8

\* Whether some of the steps of a way lead into a container.
Contained(path, D) == \E i \in D : path[i].place = 0 /\ path[i].key \in CONTAINER_KEYS

\* _in_pii is what it is called: a container once entered is never forgotten, at any depth, and
\* nothing else sets it.
LEMMA InPiiIsContained ==
  ASSUME NEW path \in Seq(Step)
  PROVE  Within(path) \in Args /\ (Within(path).in_pii <=> Contained(path, DOMAIN path))
<1>1. PICK it : Walks(it, path) /\ Within(path) = it[DOMAIN path]
  BY WithinWalks
<1> DEFINE G == {D \in SUBSET DOMAIN path :
                   it[D] \in Args /\ (it[D].in_pii <=> Contained(path, D))}
<1>2. {} \in G
  <2>1. it[{}] = Top
    BY <1>1 DEF Walks
  <2>2. Top \in Args /\ ~Top.in_pii
    BY DEF Top, Args
  <2>3. ~Contained(path, {})
    BY DEF Contained
  <2>4. QED
    BY <2>1, <2>2, <2>3
<1>3. ASSUME NEW D \in SUBSET DOMAIN path, D # {}, D \ {Max(D)} \in G PROVE D \in G
  <2> DEFINE m == Max(D)
             Rest == D \ {m}
  <2>1. m \in D /\ path[m] \in Step /\ Rest \in SUBSET DOMAIN path
    BY <1>3, Rests
  <2>2. it[Rest] \in Args /\ (it[Rest].in_pii <=> Contained(path, Rest))
    BY <1>3
  <2>3. it[D] = Into(it[Rest], path[m]) /\ it[D] \in Args
    <3>1. it[D] = Into(it[Rest], path[m])
      BY <1>1, <1>3 DEF Walks
    <3>2. QED
      BY <2>1, <2>2, <3>1, IntoTyped
  <2> HIDE DEF m
  <2>4. Contained(path, D) <=> Contained(path, Rest) \/ Contained(path, {m})
    BY <2>1 DEF Contained
  <2> HIDE DEF Rest
  <2>5. it[D].in_pii <=> it[Rest].in_pii \/ Contained(path, {m})
    <3>1. CASE path[m].place > 0
      BY <2>1, <2>3, <3>1 DEF Into, Contained, Step
    <3>2. CASE path[m].place = 0
      <4>1. it[D].in_pii = (it[Rest].in_pii \/ path[m].key \in CONTAINER_KEYS)
        BY <2>3, <3>2 DEF Into
      <4>2. Contained(path, {m}) <=> path[m].key \in CONTAINER_KEYS
        BY <3>2 DEF Contained
      <4>3. QED
        BY <4>1, <4>2
    <3>3. QED
      BY <2>1, <3>1, <3>2 DEF Step
  <2>6. QED
    BY <2>2, <2>3, <2>4, <2>5
<1> HIDE DEF G
<1>4. SUBSET DOMAIN path \subseteq G
  BY <1>2, <1>3, Parts
<1>5. DOMAIN path \in G
  BY <1>4
<1>6. QED
  BY <1>1, <1>5 DEF G

\* How a text can be masked, and what the walk has made of one that it masked.
Masks == {"name", "phone", "email", "full"}
Hidden(leaf, new) == \E mask \in Masks : new = [leaf EXCEPT !.mask = mask]

\* A text that is masked stays the text it was; one that is not is as it was.
LEMMA Masking ==
  ASSUME NEW leaf \in Texts
  PROVE  /\ leaf # Plain /\ leaf.kind = "text" /\ leaf.mask = "none" /\ Text(leaf.form) = leaf
         /\ \A new : Hidden(leaf, new) =>
              /\ new # Plain /\ new.kind = "text" /\ new.mask # "none"
              /\ new.form = leaf.form /\ Text(new.form) = leaf
         /\ leaf = Text("empty") <=> leaf.form = "empty"
BY DEF Texts, Masks, Text, Plain, Hidden

\* Every text but an empty one is masked by _mask_scalar, under whatever key, and nothing else
\* is; by mask_name an empty one as well.
LEMMA ScalarMasks ==
  ASSUME NEW key
  PROVE  /\ \A leaf \in {Plain, Text("empty")} : _mask_scalar(key, leaf) = leaf
         /\ \A leaf \in Texts \ {Text("empty")} : Hidden(leaf, _mask_scalar(key, leaf))
         /\ \A leaf \in Texts : Hidden(leaf, mask_name(leaf))
<1>1. ASSUME NEW leaf \in Texts \ {Text("empty")} PROVE Hidden(leaf, _mask_scalar(key, leaf))
  <2>1. leaf \notin {Plain, Text("empty")}
    BY Masking
  <2>2. QED
    BY <2>1 DEF _mask_scalar, mask_email, mask_phone, mask_name, REDACTED, Masks, Hidden
<1>2. \A leaf \in {Plain, Text("empty")} : _mask_scalar(key, leaf) = leaf
  BY DEF _mask_scalar
<1>3. \A leaf \in Texts : Hidden(leaf, mask_name(leaf))
  BY DEF mask_name, Masks, Hidden
<1>4. QED
  BY <1>1, <1>2, <1>3

\* The steps to a leaf of a tree, and the last of them.
LEMMA Ways ==
  ASSUME NEW tree, IsTree(tree), NEW path \in DOMAIN tree
  PROVE  /\ path \in Seq(Step) /\ Front(path) \in Seq(Step)
         /\ \A i \in DOMAIN path : path[i] \in Step /\ (path[i].place > 0 => path[i].key = NoKey)
         /\ path = <<>> => Front(path) = <<>>
         /\ path # <<>> =>
              /\ Last(path) \in Step /\ (Last(path).place > 0 => Last(path).key = NoKey)
              /\ Contained(path, DOMAIN path) <=>
                   \/ Contained(Front(path), DOMAIN Front(path))
                   \/ Last(path).place = 0 /\ Last(path).key \in CONTAINER_KEYS
<1> DEFINE n == Len(path)
<1>1. path \in Seq(Step)
  BY DEF IsTree, Step
<1>2. /\ n \in Nat /\ DOMAIN path = 1..n /\ \A i \in 1..n : path[i] \in Step
      /\ \A i \in 1..n : path[i].place > 0 => path[i].key = NoKey
  BY <1>1, LenProperties, ElementOfSeq DEF IsTree
<1>3. /\ Front(path) \in Seq(Step)
      /\ \A i \in 1..n - 1 : Front(path)[i] = path[i]
      /\ Len(Front(path)) = IF 1 <= n - 1 THEN n - 1 ELSE 0
  <2>1. n - 1 \in Int /\ \A i \in 1..n - 1 : path[i] \in Step
    BY <1>2
  <2>2. /\ SubSeq(path, 1, n - 1) \in Seq(Step)
        /\ Len(SubSeq(path, 1, n - 1)) = IF 1 <= n - 1 THEN n - 1 - 1 + 1 ELSE 0
        /\ \A i \in 1..n - 1 - 1 + 1 : SubSeq(path, 1, n - 1)[i] = path[1 + i - 1]
    BY <2>1, SubSeqProperties
  <2>3. n - 1 - 1 + 1 = n - 1 /\ \A i \in 1..n - 1 : 1 + i - 1 = i
    BY <1>2
  <2>4. QED
    BY <2>2, <2>3 DEF Front
<1>4. DOMAIN Front(path) = 1..n - 1
  <2>1. DOMAIN Front(path) = 1..Len(Front(path))
    BY <1>3, LenProperties
  <2>2. 1..Len(Front(path)) = 1..n - 1
    <3> HIDE DEF n
    <3>1. CASE 1 <= n - 1
      BY <1>3, <3>1
    <3>2. CASE ~(1 <= n - 1)
      <4>1. 1..n - 1 = {} /\ 1..0 = {}
        BY <1>2, <3>2
      <4>2. QED
        BY <1>3, <3>2, <4>1
    <3>3. QED
      BY <3>1, <3>2
  <2>3. QED
    BY <2>1, <2>2
<1>5. path = <<>> => Front(path) = <<>>
  <2>1. path = <<>> => n = 0
    OBVIOUS
  <2>2. QED
    BY <1>3, <2>1, EmptySeq
<1>6. ASSUME path # <<>>
      PROVE  /\ Last(path) \in Step /\ (Last(path).place > 0 => Last(path).key = NoKey)
             /\ Contained(path, DOMAIN path) <=>
                  \/ Contained(Front(path), DOMAIN Front(path))
                  \/ Last(path).place = 0 /\ Last(path).key \in CONTAINER_KEYS
  <2>1. n > 0 /\ Last(path) = path[n]
    <3>1. n # 0
      BY <1>1, <1>6, EmptySeq
    <3>2. QED
      BY <1>2, <3>1 DEF Last
  <2>2. 1..n = (1..n - 1) \cup {n}
    BY <1>2, <2>1
  <2> HIDE DEF n
  <2>3. Contained(path, 1..n) <=> \/ Contained(path, 1..n - 1)
                                  \/ path[n].place = 0 /\ path[n].key \in CONTAINER_KEYS
    BY <2>2 DEF Contained
  <2>4. Contained(path, 1..n - 1) <=> Contained(Front(path), 1..n - 1)
    BY <1>3 DEF Contained
  <2>5. QED
    BY <1>2, <1>4, <2>1, <2>3, <2>4
<1>7. QED
  BY <1>1, <1>2, <1>3, <1>5, <1>6

\* The walk masks the texts of a tree that are personal where they stand, in one way or another,
\* unless they are empty, and leaves the others and what is no text as they are.
LEMMA WalkIsRight ==
  ASSUME NEW tree, IsTree(tree), NEW path \in DOMAIN tree
  PROVE  /\ tree[path] = Plain => Walk(tree, path) = Plain
         /\ tree[path] \in Texts =>
              \/ PersonalInPlace(path, Beside(tree, path)) /\ Hidden(tree[path], Walk(tree, path))
              \/ /\ ~PersonalInPlace(path, Beside(tree, path)) \/ tree[path] = Text("empty")
                 /\ Walk(tree, path) = tree[path]
<1> DEFINE leaf == tree[path]
           key == Last(path).key
           args == Within(Front(path))
           about == Beside(tree, path) \cap PERSON_MARKERS # {}
           inside == Contained(path, DOMAIN path)
           MaskedAt(new) == \/ leaf \in {Plain, Text("empty")} /\ new = leaf
                            \/ leaf # Plain /\ Hidden(leaf, new)
<1>1. leaf = Plain \/ leaf \in Texts
  BY DEF IsTree
<1>2. Plain \notin Texts
  BY Masking
<1>3. /\ args \in Args /\ (args.in_pii <=> Contained(Front(path), DOMAIN Front(path)))
  BY Ways, InPiiIsContained
<1>4. \A k : MaskedAt(_mask_scalar(k, leaf))
  BY <1>1, <1>2, ScalarMasks
<1>5. ~IntoDict(path) => (args.in_pii <=> inside)
  BY <1>3, Ways DEF IntoDict, Contained, Step
<1>6. (\E i \in DOMAIN path : path[i].key \in CONTAINER_KEYS) <=> inside
  <2>1. NoKey \notin CONTAINER_KEYS
    BY DEF CONTAINER_KEYS, NoKey
  <2>2. \A i \in DOMAIN path : path[i].place \in Nat /\ (path[i].place > 0 => path[i].key = NoKey)
    BY Ways DEF Step
  <2>3. \A i \in DOMAIN path : path[i].key \in CONTAINER_KEYS => path[i].place = 0
    BY <2>1, <2>2
  <2>4. QED
    BY <2>3 DEF Contained
<1>7. /\ SAFE_IN_CONTAINER \cap PII_KEYS = {} /\ CONTEXTUAL_NAME_KEYS \cap SAFE_IN_CONTAINER = {}
      /\ NoKey \notin SAFE_IN_CONTAINER \cup PII_KEYS \cup CONTEXTUAL_NAME_KEYS
  BY DEF SAFE_IN_CONTAINER, PII_KEYS, NAME_KEYS, EMAIL_KEYS, PHONE_KEYS, ADDRESS_KEYS,
         FREETEXT_KEYS, CONTEXTUAL_NAME_KEYS, NoKey
<1> DEFINE personal == /\ path # <<>>
                       /\ \/ inside /\ key \notin SAFE_IN_CONTAINER
                          \/ key \in PII_KEYS
                          \/ key \in CONTEXTUAL_NAME_KEYS /\ about
<1>8. PersonalInPlace(path, Beside(tree, path)) <=> personal
  BY <1>6 DEF PersonalInPlace
<1>9. IF personal THEN MaskedAt(Walk(tree, path)) ELSE Walk(tree, path) = leaf
  <2>1. CASE IntoDict(path)
    <3>1. path # <<>> /\ Last(path).place = 0
      BY <2>1 DEF IntoDict
    <3>2. Into(args, Last(path)).in_pii <=> inside
      <4>1. Into(args, Last(path)).in_pii = (args.in_pii \/ key \in CONTAINER_KEYS)
        BY <3>1 DEF Into
      <4>2. inside <=> \/ Contained(Front(path), DOMAIN Front(path))
                       \/ Last(path).place = 0 /\ key \in CONTAINER_KEYS
        BY <3>1, Ways
      <4>3. QED
        BY <1>3, <3>1, <4>1, <4>2
    <3>3. args.in_pii => inside
      BY <1>3, <3>1, Ways
    <3> DEFINE within == Into(args, Last(path)).in_pii
    <3>4. Walk(tree, path) = Leaf(key, leaf, args.in_pii \/ about, within)
      BY <2>1 DEF Walk
    <3> HIDE DEF args, inside, about, within, key, leaf
    <3>5. /\ MaskedAt(MaskedAs(key, leaf)) /\ (leaf = Plain => MaskedAt(leaf))
          /\ leaf # Plain => MaskedAt(mask_name(leaf))
      BY <1>1, <1>4, ScalarMasks DEF MaskedAs
    <3>6. CASE key \in SAFE_IN_CONTAINER
      BY <1>7, <3>4, <3>6 DEF Leaf
    <3>7. CASE /\ key \notin SAFE_IN_CONTAINER
               /\ (args.in_pii \/ about) /\ key \in CONTEXTUAL_NAME_KEYS
      BY <1>7, <3>1, <3>3, <3>4, <3>5, <3>7 DEF Leaf
    <3>8. CASE /\ key \notin SAFE_IN_CONTAINER
               /\ ~((args.in_pii \/ about) /\ key \in CONTEXTUAL_NAME_KEYS)
      <4>1. Walk(tree, path) = IF within \/ key \in PII_KEYS THEN MaskedAs(key, leaf) ELSE leaf
        BY <3>4, <3>8 DEF Leaf
      <4>2. personal <=> within \/ key \in PII_KEYS
        BY <3>1, <3>2, <3>8 DEF within
      <4> HIDE DEF MaskedAt, personal
      <4>3. QED
        BY <3>5, <4>1, <4>2
    <3>9. QED
      BY <3>6, <3>7, <3>8
  <2>2. CASE ~IntoDict(path)
    <3>1. Walk(tree, path) = IF args.in_pii THEN _mask_scalar(args.key, leaf) ELSE leaf
      BY <2>2 DEF Walk
    <3>2. personal <=> inside
      <4>1. CASE path = <<>>
        <5>1. ~inside
          BY <4>1 DEF Contained
        <5>2. QED
          BY <4>1, <5>1
      <4>2. CASE path # <<>>
        <5>1. key = NoKey
          <6>1. Last(path).place # 0
            BY <2>2, <4>2 DEF IntoDict
          <6>2. Last(path) \in Step /\ (Last(path).place > 0 => Last(path).key = NoKey)
            BY <4>2, Ways
          <6>3. QED
            BY <6>1, <6>2 DEF Step
        <5>2. QED
          BY <1>7, <4>2, <5>1
      <4>3. QED
        BY <4>1, <4>2
    <3> HIDE DEF args, inside, MaskedAt, leaf, personal
    <3>3. QED
      BY <1>4, <1>5, <2>2, <3>1, <3>2
  <2>3. QED
    BY <2>1, <2>2
<1> HIDE DEF personal, leaf
<1>10. QED
  BY <1>2, <1>8, <1>9 DEF leaf

\* redact.py:1-11, for trees of any depth and width: switched on, the walk masks every text that
\* is personal where it stands and none that nothing makes personal, and it can be told what a
\* tree was; off, it changes nothing.
THEOREM MaskingIsRight ==
  ASSUME NEW tree, IsTree(tree)
  PROVE  /\ MaskedInPlace(redact(tree, TRUE)) /\ Unmasked(redact(tree, TRUE)) = tree
         /\ redact(tree, FALSE) = tree /\ Unmasked(tree) = tree
<1> DEFINE new == redact(tree, TRUE)
<1>1. DOMAIN new = DOMAIN tree /\ \A path \in DOMAIN tree : new[path] = Walk(tree, path)
  BY DEF redact
<1>2. /\ tree = [path \in DOMAIN tree |-> tree[path]]
      /\ \A path \in DOMAIN tree : tree[path] = Plain \/ tree[path] \in Texts
  BY DEF IsTree
<1>3. \A path : Beside(new, path) = Beside(tree, path)
  BY <1>1 DEF Beside
<1>4. \A leaf \in Texts : leaf # Plain /\ Text(leaf.form) = leaf
  BY Masking
<1>5. Plain.kind # "text"
  BY DEF Plain
<1> HIDE DEF new
<1>6. ASSUME NEW path \in DOMAIN tree
      PROVE  /\ new[path].kind = "text" =>
                  /\ new[path].mask # "none" => Personal(path, Beside(new, path))
                  /\ PersonalInPlace(path, Beside(new, path)) =>
                       new[path].mask # "none" \/ new[path].form = "empty"
             /\ tree[path] = IF new[path] = Plain THEN Plain ELSE Text(new[path].form)
  <2>1. CASE tree[path] = Plain
    BY <1>1, <1>5, <2>1, WalkIsRight
  <2>2. CASE tree[path] \in Texts /\ new[path] # tree[path]
    <3>1. PersonalInPlace(path, Beside(new, path)) /\ Hidden(tree[path], new[path])
      BY <1>1, <1>3, <2>2, WalkIsRight
    <3>2. new[path] # Plain /\ new[path].mask # "none" /\ Text(new[path].form) = tree[path]
      BY <2>2, <3>1, Masking
    <3>3. QED
      BY <3>1, <3>2 DEF Personal
  <2>3. CASE tree[path] \in Texts /\ new[path] = tree[path]
    <3>1. /\ new[path] # Plain /\ new[path].mask = "none" /\ Text(new[path].form) = tree[path]
          /\ new[path] = Text("empty") <=> new[path].form = "empty"
      BY <2>3, Masking
    <3>2. ~Hidden(tree[path], new[path])
      BY <2>3, <3>1, Masking
    <3>3. ~PersonalInPlace(path, Beside(new, path)) \/ new[path] = Text("empty")
      BY <1>1, <1>3, <2>3, <3>2, WalkIsRight
    <3>4. QED
      BY <3>1, <3>3
  <2>4. QED
    BY <1>2, <2>1, <2>2, <2>3
<1>7. MaskedInPlace(new)
  BY <1>1, <1>6 DEF MaskedInPlace
<1>8. Unmasked(new) = tree
  BY <1>1, <1>2, <1>6 DEF Unmasked
<1>9. redact(tree, FALSE) = tree
  BY DEF redact
<1>10. Unmasked(tree) = tree
  BY <1>2, <1>4 DEF Unmasked
<1>11. QED
  BY <1>7, <1>8, <1>9, <1>10 DEF new

\* What was let out last was masked as this process masks.
Masked ==
  /\ due \in BOOLEAN
  /\ output.log # None => Unmasked(output.log) \in Arguments /\ MaskedInPlace(output.log)
  /\ output.answer # None =>
       /\ Unmasked(output.answer) \in Payloads
       /\ IF redact_pii(cfg) THEN MaskedInPlace(output.answer)
          ELSE output.answer = Unmasked(output.answer)

\* The mode is "full" exactly if the operator said so, where the environment counts before the
\* file and neither an empty text nor a structure counts at all.
LEMMA FullMeansSaid ==
  ASSUME NEW s, ConfigErrors(s) = {} PROVE redact_pii(load(s)) <=> ~SaidFull(s)
<1>1. pii_mode(s) \in {"redacted", "full"}
  BY DEF ConfigErrors
<1>2. redact_pii(load(s)) <=> pii_mode(s) # "full"
  BY DEF redact_pii, load
<1> DEFINE got == get(s, "PII_MODE")
<1>3. pii_mode(s) = "full" <=> got \in {"full", "FULL"}
  BY <1>1 DEF pii_mode, Or, Lower
<1>4. got \in {"full", "FULL"} <=> SaidFull(s)
  BY <1>1 DEF get, SaidFull, SaysPII, pii_mode, Or, Lower, Mentioned, Structured
<1>5. QED
  BY <1>2, <1>3, <1>4

\* A step lets out what the masking makes of arguments or of a payload, or nothing; the process
\* that did is still there when it is delivered.
LEMMA MaskedStep ==
  ASSUME Masked, [ServerNext]_serverVars PROVE Masked'
<1>1. CASE output' = Nothing /\ due' \in BOOLEAN
  BY <1>1 DEF Masked, Nothing
<1>2. ASSUME NEW args \in Arguments, output' = [Nothing EXCEPT !.log = redact_args(args)],
             due' \in BOOLEAN
      PROVE  Masked'
  <2>1. IsTree(args)
    BY ServerAssumption
  <2>2. redact_args(args) = redact(args, TRUE)
    BY DEF redact_args
  <2>3. MaskedInPlace(redact_args(args)) /\ Unmasked(redact_args(args)) = args
    BY <2>1, <2>2, MaskingIsRight
  <2>4. output'.log = redact_args(args) /\ output'.answer = None
    BY <1>2 DEF Nothing
  <2>5. QED
    BY <1>2, <2>3, <2>4 DEF Masked
<1>3. ASSUME NEW payload \in Payloads, Answers(payload) PROVE Masked'
  <2>a. IsTree(payload)
    BY ServerAssumption
  <2>1. /\ output'.log = None /\ output'.answer = redact(payload, redact_pii(cfg))
        /\ due' = FALSE /\ cfg' = cfg
    BY <1>3 DEF Answers, Lets, Nothing, process
  <2>2. CASE redact_pii(cfg)
    <3>1. output'.answer = redact(payload, TRUE)
      BY <2>1, <2>2 DEF redact_pii
    <3>2. QED
      BY <2>a, <2>1, <2>2, <3>1, MaskingIsRight DEF Masked, redact_pii
  <2>3. CASE ~redact_pii(cfg)
    <3>1. output'.answer = redact(payload, FALSE)
      BY <2>1, <2>3 DEF redact_pii
    <3>2. QED
      BY <2>a, <2>1, <2>3, <3>1, MaskingIsRight DEF Masked, redact_pii
  <2>4. QED
    BY <2>2, <2>3
<1>4. CASE UNCHANGED serverVars
  BY <1>4 DEF serverVars, process, Masked
<1>5. QED
  <2>1. CASE Delivered
    BY <1>1, <2>1 DEF Delivered, Masked
  <2>2. ASSUME output = Nothing,
               \/ \E p \in Processes, transport \in {"http", "stdio"} : StartProcess(p, transport)
               \/ RefusesToStart
        PROVE  Masked'
    BY <1>1, <2>2 DEF StartProcess, RefusesToStart, Masked
  <2>3. CASE Agent
    BY <1>1, <2>3 DEF Agent, CallsTool, Reads, Quietly, Lets, Masked
  <2>4. CASE Handling
    <3>1. \/ output' = Nothing
          \/ \E args \in Arguments : output' = [Nothing EXCEPT !.log = redact_args(args)]
      BY <2>4 DEF Handling, Proposes, Executes, Fails, Records, Logs, Quietly, Lets
    <3>2. due' \in BOOLEAN
      BY <2>4 DEF Handling, Proposes, Executes, Fails, Records, Logs, Quietly, Masked
    <3>3. QED
      BY <1>1, <1>2, <3>1, <3>2
  <2>5. QED
    BY <1>3, <1>4, <2>1, <2>2, <2>3, <2>4 DEF ServerNext

\* What leaves is masked from the first step on.
LEMMA MaskedInvariant == ServerSpec => []Masked
<1>1. ServerInit => Masked
  <2> SUFFICES ASSUME due = FALSE, output = Nothing PROVE Masked
    BY DEF ServerInit
  <2>1. output.log = None /\ output.answer = None
    BY DEF Nothing
  <2>2. QED
    BY <2>1 DEF Masked
<1>2. QED
  BY <1>1, MaskedStep, PTL DEF ServerSpec

\* redact.py:1-11: whatever a tool's body returned, a server whose operator did not say
\* PII_MODE=full shows no text of it that is personal where it stands and every text that nothing
\* makes personal, whichever process it is by then.
THEOREM AnswerIsMaskedHolds == ServerSpec => []AnswerIsMasked
<1>1. ServerInv /\ Masked => AnswerIsMasked
  BY FullMeansSaid DEF ServerInv, Begun, Masked, AnswerIsMasked
<1>2. QED
  BY MaskedInvariant, ServerInvariant, <1>1, PTL

\* audit.py:3-6: the arguments in the audit file and in a preview are masked in every mode.
THEOREM LogIsMaskedHolds == ServerSpec => []LogIsMasked
<1>1. Masked => LogIsMasked
  BY DEF Masked, LogIsMasked
<1>2. QED
  BY MaskedInvariant, <1>1, PTL

\* The process is always one that its settings allow, cfg and the gate's view of it included.
THEOREM ServerTypeCorrect == ServerSpec => []ServerTypeOK
<1>1. ServerInv /\ Masked => ServerTypeOK
  BY BegunIsProcess DEF ServerInv, SInv, Bound, Masked, ServerTypeOK
<1>2. QED
  BY MaskedInvariant, ServerInvariant, <1>1, PTL
=============================================================================
