------------------------------- MODULE Server -------------------------------
(***************************************************************************)
(* The server around the calls of Screening: the settings it was started   *)
(* with (Config), the gate they open, and what leaves it, masked: the      *)
(* answer to the agent, and the arguments that go into the audit file and  *)
(* into a preview that the tool does not write itself.                     *)
(*                                                                         *)
(* A process is started with settings of its own, serves over http or      *)
(* stdio (for approve --run, which needs no token either, stdio), and ends *)
(* at any time; queued actions outlive it.  The bearer token and the Host  *)
(* header of a request are checked before any of this and change nothing.  *)
(*                                                                         *)
(* An operator that stands just before a similar one, and that nothing     *)
(* uses, is a mutant: what the code would be with one mistake.             *)
(***************************************************************************)
EXTENDS Screening, Config, Redact

CONSTANTS
  Settings,   \* environments and files by name, see Config
  Payloads,   \* what a tool's body may return: trees, see Redact
  Arguments,  \* what a call's arguments may look like
  None

VARIABLES
  settings,  \* the name of what the process was started with
  cfg,       \* app.cfg, which conf is the part of that Screening asks
  serving,   \* its transport, or "none" if it refused to start
  due,       \* the body has returned, and its answer has not
  output     \* what the last step let out: [answer, log], each a tree or None

process == <<settings, cfg, serving>>
serverVars == <<vars, process, due, output>>

\* The configuration as Screening sees it.
HighRiskNames == {t.name : t \in {t \in Tools : t.class = "high-risk"}}
View(c) == [allowed |-> {e \in Events : event_allowed(c, e)},
            auto |-> HighRiskNames \subseteq c.auto_approve]

\* The processes that the settings allow: load raises nothing.
Process(name) == LET c == load(Settings[name])
                 IN [settings |-> name, cfg |-> c, conf |-> View(c)]
Processes == {Process(name) : name \in {s \in DOMAIN Settings : ConfigErrors(Settings[s]) = {}}}

\* MCP_AUTO_APPROVE names every high-risk tool, or none.  Nothing is masked to begin with.
ASSUME ServerAssumption ==
  /\ Confs = {p.conf : p \in Processes}
  /\ \A p \in Processes : p.cfg.auto_approve = {} \/ p.conf.auto
  /\ \A tree \in Payloads \cup Arguments : IsTree(tree)

Nothing == [answer |-> None, log |-> None]

ServerTypeOK ==
  /\ TypeOK
  /\ [settings |-> settings, cfg |-> cfg, conf |-> conf] \in Processes
  /\ serving \in {"http", "stdio", "none"}
  /\ due \in BOOLEAN
  /\ output.log = None \/ Unmasked(output.log) \in Arguments
  /\ output.answer = None \/ Unmasked(output.answer) \in Payloads

\* cli.main, serve_http: the process comes up, or says why not and ends.
Starts(p, transport) == transport = "http" => check_http_bind(p.cfg)

ServerInit ==
  /\ \E p \in Processes : settings = p.settings /\ cfg = p.cfg /\ conf = p.conf
  /\ Init
  /\ serving = "none"
  /\ due = FALSE /\ output = Nothing

StartKeepsCache(p, transport) ==
  /\ Starts(p, transport)
  /\ settings' = p.settings /\ cfg' = p.cfg /\ conf' \in Confs
  /\ serving' = transport
  /\ OtherProcess
  /\ UNCHANGED <<due, output>>

StartProcess(p, transport) ==
  /\ Starts(p, transport)
  /\ settings' = p.settings /\ cfg' = p.cfg /\ conf' = p.conf
  /\ serving' = transport
  /\ OtherProcess
  /\ UNCHANGED <<due, output>>

\* Nothing serves until the settings are corrected.
RefusesToStart ==
  /\ \/ \E s \in DOMAIN Settings : ConfigErrors(Settings[s]) # {}
     \/ \E p \in Processes : ~Starts(p, "http")
  /\ serving' = "none"
  /\ UNCHANGED <<settings, cfg, conf>>
  /\ OtherProcess
  /\ UNCHANGED <<due, output>>

-----------------------------------------------------------------------------

Class(t) == IF t.class = "high-risk" /\ ~conf.auto THEN "write:high-risk" ELSE "write"
Enabled(t) == tool_enabled(cfg, t.name, Class(t))

\* What was let out is delivered before anything else happens.
Lets(out) == output' = out /\ UNCHANGED process
Delivered == output' = Nothing /\ UNCHANGED <<vars, process, due>>

Logs(args) == Lets([Nothing EXCEPT !.log = redact_args(args)]) /\ UNCHANGED due
Quietly(step) == step /\ Lets(Nothing) /\ UNCHANGED due

\* PermissionError for a tool that is not enabled.
CallsTool(t, e, f) == Quietly(Call(t, e, f))

\* A tool that reads: the gate and the requests.  No audit line.
Reads(e) ==
  /\ tool_enabled(cfg, "list_events", "read")
  /\ reached' = reached \cup {e}
  /\ due' = TRUE
  /\ UNCHANGED <<conf, phase, call>>
  /\ Lets(Nothing)

\* _propose: the audit line, and a preview made of the same arguments.
Proposes(args) == Propose /\ Logs(args)

\* execute_approved asks again whether the tool is enabled.
ExecutesUnasked(args) == serving # "none" /\ Quietly(Execute)

Executes(args) ==
  /\ serving # "none"
  /\ \/ Enabled(call.tool) /\ Quietly(Execute)
     \/ /\ ~Enabled(call.tool)
        /\ phase = "approved"
        /\ Goto("refused")
        /\ UNCHANGED reached
        /\ Logs(args)

\* _execute, except Exception.
Fails(args) == BodyRefuses /\ Logs(args)

\* _execute after the request: the audit line, then what the body returned, redacted.
Records(args) == /\ phase = "sent" /\ Done
                 /\ due' = TRUE
                 /\ Lets([Nothing EXCEPT !.log = redact_args(args)])

Answers(payload) == /\ due' = FALSE
                    /\ Lets([Nothing EXCEPT !.answer = redact(payload, redact_pii(cfg))])
                    /\ UNCHANGED vars

Agent ==
  /\ phase = "idle" /\ serving # "none"
  /\ \/ \E t \in {t \in Tools : Enabled(t)}, e \in Events :
          \E f \in SUBSET t.args : CallsTool(t, e, f)
     \/ \E e \in conf.allowed : Reads(e)

Handling ==
  \/ \E args \in Arguments : Proposes(args) \/ Executes(args) \/ Fails(args) \/ Records(args)
  \/ Quietly(Look) \/ Quietly(PreviewRefuses) \/ Quietly(Approve) \/ Quietly(BodySends)
  \/ phase = "refused" /\ Quietly(Done)

ServerNext ==
  \/ output # Nothing /\ Delivered
  \/ output = Nothing /\ due /\ \E payload \in Payloads : Answers(payload)
  \/ /\ output = Nothing /\ ~due
     /\ \/ \E p \in Processes, transport \in {"http", "stdio"} : StartProcess(p, transport)
        \/ RefusesToStart
        \/ Agent
        \/ Handling

ServerSpec == ServerInit /\ [][ServerNext]_serverVars

-----------------------------------------------------------------------------

SaysPII(source) == Mentioned(source, "PII_MODE") /\ source["PII_MODE"] \notin {"", Structured}
SaidFull(s) ==
  LET heard == IF SaysPII(s.env) THEN s.env ELSE s.file
  IN SaysPII(heard) /\ heard["PII_MODE"] \in {"full", "FULL"}

\* redact.py:1-11 and test_operational_fields_pass_through: unless the operator said
\* PII_MODE=full, an answer to the agent shows no text that is personal where it stands, in
\* whatever lists and dicts, and every text as it is that nothing makes personal; if he said
\* so, it shows all.
AnswerIsMasked ==
  output.answer # None =>
    IF SaidFull(Settings[settings]) THEN output.answer = Unmasked(output.answer)
    ELSE MaskedInPlace(output.answer)

\* audit.py:3-6: the arguments in the audit file and in a preview are masked, whatever the
\* operator said about answers.
LogIsMasked == output.log # None => MaskedInPlace(output.log)

Silent(s) == \A source \in {s.env, s.file}, key \in {"MCP_CAPABILITIES", "MCP_TOOL_ALLOWLIST"} :
               ~Mentioned(source, key)

\* config.py:3-4, "Defaults are closed": a process whose settings name no capability and no
\* tool sends nothing that changes pretix, not even what was approved under other settings,
\* whatever MCP_AUTO_APPROVE says; and none serves over http for which nobody made a token.
DefaultsClosed ==
  /\ Silent(Settings[settings]) => phase \notin {"look", "preview", "body", "sent"}
  /\ serving = "http" =>
       \E source \in {Settings[settings].env, Settings[settings].file} :
         Mentioned(source, "MCP_BEARER_TOKEN") /\ source["MCP_BEARER_TOKEN"] # ""

Lists == {"PRETIX_EVENT_ALLOWLIST", "MCP_CAPABILITIES", "MCP_TOOL_ALLOWLIST", "MCP_AUTO_APPROVE"}

\* "Environment wins over the optional config file": the process is the one it would be if the
\* file did not mention what the environment does.  A list set to nothing wins as well, a text
\* set to nothing does not.
EnvironmentWins ==
  LET said == Settings[settings]
      won == {key \in DOMAIN said.env : key \in Lists \/ said.env[key] # ""}
      rest == [key \in DOMAIN said.file \ won |-> said.file[key]]
  IN cfg = load([env |-> said.env, file |-> rest])

-----------------------------------------------------------------------------
(* What the documentation says, and the code does not keep.                *)

\* redact.py:7-8: "any key in PII_KEYS is masked wherever it appears, at any depth".  A list or
\* a dict under such a key is walked, and the key is forgotten on the way.
MaskedAtAnyDepth ==
  output.answer # None /\ ~SaidFull(Settings[settings]) => NoPersonalShown(output.answer)
=============================================================================
