------------------------------ MODULE Approval ------------------------------
(***************************************************************************)
(* The approval ceremony as the code runs it: one server process, whose    *)
(* tool calls are tasks of one asyncio loop, and any number of CLI         *)
(* processes on the same host, meeting in one SQLite table (pending.py),   *)
(* one append-only audit file (audit.py) and the pretix API.               *)
(*                                                                         *)
(* Each action is one access to shared state: one SQLite transaction, one  *)
(* audit line, one request or answer.  Between two of them any other       *)
(* process may run; another task of the server may run only where the      *)
(* code awaits, which is what `running` says.                              *)
(*                                                                         *)
(* An operator that stands just before a similar one, and that nothing     *)
(* uses, is what the code would be with one mistake: a mutant, which shows *)
(* what the properties can tell apart.                                     *)
(***************************************************************************)
EXTENDS Naturals

CONSTANTS
  Actions,      \* ids secrets.token_hex can mint: each is proposed at most once
  Tasks,        \* tool calls the server handles concurrently
  Clis,         \* CLI invocations that may overlap
  HighRisk,     \* tools whose call is queued: write:high-risk, or escalated by the live guard
  Reporting,    \* those that answer a PretixError with a result that names it: create_subevents
  ExecuteTool,  \* execute_pending_action, an ordinary write
  Configs,      \* each a set of enabled tools: what cfg.tool_enabled answers
  TTL,          \* approval_ttl_seconds, in ticks
  MaxTime,      \* bound: the clock stops here
  Faults,       \* which of the faults below may happen
  None          \* SQL NULL, no task, no action

ASSUME ConstantsAssumption ==
  /\ TTL \in Nat
  /\ MaxTime \in Nat
  /\ None \notin Nat
  /\ None \notin Actions
  /\ None \notin Tasks
  /\ Tasks \cap Clis = {}
  /\ Configs \subseteq SUBSET (HighRisk \cup {ExecuteTool})
  /\ Configs # {}
  /\ Reporting \subseteq HighRisk

\* "locked": SQLite stays locked for the ten seconds of the connection's timeout.  "cancel":
\* the MCP client cancels a call.  "kill": a CLI process dies.  "disk": an audit line cannot
\* be written.  "restart": the server dies, and comes back with the configuration of then.
FaultKinds == {"locked", "cancel", "kill", "disk", "restart"}

VARIABLES
  row,        \* column state of each action's row; "absent" before the INSERT
  expires,    \* column expires_at
  decidedAt,  \* column decided_at
  claimed,    \* column executed_at is not NULL
  tool,       \* column tool
  clock,      \* time.time(), shared: one host
  cfg,        \* the configuration a process that starts now would load
  conf,       \* the configuration each process did load
  running,    \* the task that holds the server's event loop
  pc,         \* the next step of each process
  act,        \* the action it works on
  cmd,        \* the call or command it runs
  seen,       \* `now`, read at the top of decide()
  audit,      \* audit events written for each action
  wire,       \* the mutating request of each action, as pretix sees it
  effects,    \* how often pretix applied it
  faulted     \* history: a fault cut short a step for this action

table == <<row, expires, decidedAt, claimed, tool>>
world == <<clock, cfg>>
procs == <<conf, running, pc, act, cmd, seen>>
pretix == <<wire, effects>>
vars == <<table, world, procs, audit, pretix, faulted>>

Procs == Tasks \cup Clis
Times == 0..MaxTime
RowStates == {"absent", "pending", "approved", "rejected", "expired",
              "executing", "executed", "failed"}
Verdicts == {"approve", "approve --run", "reject"}

\* "partial_failure" is an "executed" line whose outcome is not "ok".
Events == {"proposed", "approved", "executed", "partial_failure", "failed", "tool_disabled"}
Answers == {"applied", "redirected", "refused"}

\* From the claim to finish(): the steps of execute_approved that own an action.
Owning == {"gate", "withdrawn", "body", "await", "auditExecuted", "auditPartial",
           "auditFailed", "finishExecuted", "finishFailed"}
Steps == Owning \cup {"idle", "auditProposed", "decide", "auditApproved", "why",
                      "expire", "claim", "auditWithdrawn"}
\* Steps that open a SQLite connection, and so may wait for another writer in vain.
DbSteps == {"decide", "why", "expire", "claim", "gate", "withdrawn",
            "finishExecuted", "finishFailed"}

TypeOK ==
  /\ row \in [Actions -> RowStates]
  /\ expires \in [Actions -> Nat]
  /\ decidedAt \in [Actions -> Times \cup {None}]
  /\ claimed \in [Actions -> BOOLEAN]
  /\ tool \in [Actions -> HighRisk \cup {None}]
  /\ clock \in Times
  /\ cfg \in Configs
  /\ conf \in [Procs -> Configs \cup {None}]
  /\ running \in Tasks \cup {None}
  /\ pc \in [Procs -> Steps]
  /\ act \in [Procs -> Actions \cup {None}]
  /\ cmd \in [Procs -> Verdicts \cup {"propose", "execute", None}]
  /\ seen \in [Procs -> Times \cup {None}]
  /\ audit \in [Actions -> SUBSET Events]
  /\ wire \in [Actions -> {"none", "sent"} \cup Answers]
  /\ effects \in [Actions -> Nat]
  /\ faulted \in [Actions -> BOOLEAN]

Init ==
  /\ row = [a \in Actions |-> "absent"]
  /\ expires = [a \in Actions |-> 0]
  /\ decidedAt = [a \in Actions |-> None]
  /\ claimed = [a \in Actions |-> FALSE]
  /\ tool = [a \in Actions |-> None]
  /\ clock = 0
  /\ cfg \in Configs
  /\ conf = [p \in Procs |-> IF p \in Tasks THEN cfg ELSE None]
  /\ running = None
  /\ pc = [p \in Procs |-> "idle"]
  /\ act = [p \in Procs |-> None]
  /\ cmd = [p \in Procs |-> None]
  /\ seen = [p \in Procs |-> None]
  /\ audit = [a \in Actions |-> {}]
  /\ wire = [a \in Actions |-> "none"]
  /\ effects = [a \in Actions |-> 0]
  /\ faulted = [a \in Actions |-> FALSE]

-----------------------------------------------------------------------------
(* How a process moves.                                                    *)

\* A CLI process always runs; a task runs when no other task holds the loop.
At(p, l) == /\ pc[p] = l
            /\ p \in Tasks => running \in {None, p}

\* Take the process to its next step and keep the loop.  `now` is not used again.
Goto(p, l) == /\ pc' = [pc EXCEPT ![p] = l]
              /\ seen' = [seen EXCEPT ![p] = None]
              /\ running' = IF p \in Tasks THEN p ELSE running
              /\ UNCHANGED <<conf, act, cmd>>

\* The same where the code awaits: the loop is free for the other tasks.
Await(p, l) == /\ pc' = [pc EXCEPT ![p] = l]
               /\ running' = IF p \in Tasks THEN None ELSE running
               /\ UNCHANGED <<conf, act, cmd, seen>>

Start(p, l, a, c, now) == /\ pc' = [pc EXCEPT ![p] = l]
                          /\ act' = [act EXCEPT ![p] = a]
                          /\ cmd' = [cmd EXCEPT ![p] = c]
                          /\ seen' = [seen EXCEPT ![p] = now]
                          /\ running' = IF p \in Tasks THEN p ELSE running

End(p) == /\ pc' = [pc EXCEPT ![p] = "idle"]
          /\ act' = [act EXCEPT ![p] = None]
          /\ cmd' = [cmd EXCEPT ![p] = None]
          /\ seen' = [seen EXCEPT ![p] = None]
          /\ running' = IF p \in Tasks THEN None ELSE running
          /\ conf' = IF p \in Clis THEN [conf EXCEPT ![p] = None] ELSE conf

SetRow(a, s) == /\ row' = [row EXCEPT ![a] = s]
                /\ UNCHANGED <<expires, decidedAt, claimed, tool>>

Written(a, e) == /\ audit' = [audit EXCEPT ![a] = @ \cup {e}]
                 /\ UNCHANGED faulted

Fault(a) == faulted' = [faulted EXCEPT ![a] = TRUE]

LineLost(a) == /\ "disk" \in Faults
               /\ Fault(a)
               /\ UNCHANGED audit

-----------------------------------------------------------------------------
(* The agent's calls and the operator's commands.                          *)

\* run_tool for a high-risk tool, after its preview was awaited: the row is inserted, the
\* clock having been read just before.
Propose(p, a, t) ==
  /\ p \in Tasks /\ At(p, "idle") /\ running = None
  /\ row[a] = "absent"
  /\ t \in conf[p] \cap HighRisk
  /\ row' = [row EXCEPT ![a] = "pending"]
  /\ expires' = [expires EXCEPT ![a] = clock + TTL]
  /\ tool' = [tool EXCEPT ![a] = t]
  /\ Start(p, "auditProposed", a, "propose", None)
  /\ UNCHANGED <<decidedAt, claimed, world, conf, audit, pretix, faulted>>

AuditProposed(p) ==
  /\ At(p, "auditProposed")
  /\ Written(act[p], "proposed") \/ LineLost(act[p])
  /\ End(p)
  /\ UNCHANGED <<table, world, pretix>>

\* The agent calls execute_pending_action.  An id nobody minted matches no row, before or
\* after: the call ends in an error and is left out, here and in Command.  The outer call
\* has an audit line of its own, which names no pending action.
Call(p, a) ==
  /\ p \in Tasks /\ At(p, "idle") /\ running = None
  /\ row[a] # "absent"
  /\ ExecuteTool \in conf[p]
  /\ Start(p, "claim", a, "execute", None)
  /\ UNCHANGED <<conf, table, world, audit, pretix, faulted>>

\* `pretix-agent-mcp approve|reject <id>`: a new process loads the configuration of the
\* moment and decide() reads the clock, before it has the database's write lock.
Command(p, a, c) ==
  /\ p \in Clis /\ At(p, "idle")
  /\ row[a] # "absent"
  /\ c \in Verdicts
  /\ Start(p, "decide", a, c, clock)
  /\ conf' = [conf EXCEPT ![p] = cfg]
  /\ UNCHANGED <<table, world, audit, pretix, faulted>>

-----------------------------------------------------------------------------
(* pending.py: decide, _why_not, expire_stale.                             *)

DecidableUnguarded(a, now) == row[a] # "absent" /\ expires[a] > now

\* WHERE id = ? AND state = 'pending' AND expires_at > ?
Decidable(a, now) == row[a] = "pending" /\ expires[a] > now

DecideWins(p) ==
  LET a == act[p] IN
  /\ At(p, "decide")
  /\ Decidable(a, seen[p])
  /\ row' = [row EXCEPT ![a] = IF cmd[p] = "reject" THEN "rejected" ELSE "approved"]
  /\ decidedAt' = [decidedAt EXCEPT ![a] = seen[p]]
  /\ IF cmd[p] = "reject" THEN End(p) ELSE Goto(p, "auditApproved")
  /\ UNCHANGED <<expires, claimed, tool, world, audit, pretix, faulted>>

DecideLoses(p) ==
  /\ At(p, "decide")
  /\ ~Decidable(act[p], seen[p])
  /\ Goto(p, "why")
  /\ UNCHANGED <<table, world, audit, pretix, faulted>>

AuditApprovedForgotten(p) ==
  /\ At(p, "auditApproved")
  /\ IF cmd[p] = "approve --run" THEN Goto(p, "claim") ELSE End(p)
  /\ UNCHANGED <<table, world, pretix, audit, faulted>>

\* _approve: the line is written after the decision is committed.  With --run the same
\* process goes on to execute_approved.
AuditApproved(p) ==
  /\ At(p, "auditApproved")
  /\ \/ /\ Written(act[p], "approved")
        /\ IF cmd[p] = "approve --run" THEN Goto(p, "claim") ELSE End(p)
     \/ LineLost(act[p]) /\ End(p)
  /\ UNCHANGED <<table, world, pretix>>

\* PendingAction.expired, on a row just read
Expired(a) == row[a] = "pending" /\ clock > expires[a]

\* _why_not reads the row; if it has expired a second transaction says so, whatever the
\* row has become in between.  Every branch ends in an ApprovalError.
WhyNot(p) ==
  /\ At(p, "why")
  /\ IF Expired(act[p]) THEN Goto(p, "expire") ELSE End(p)
  /\ UNCHANGED <<table, world, audit, pretix, faulted>>

SetExpired(p) ==
  /\ At(p, "expire")
  /\ SetRow(act[p], "expired")
  /\ End(p)
  /\ UNCHANGED <<world, audit, pretix, faulted>>

\* `pretix-agent-mcp pending`
ExpireStale ==
  /\ \E a \in Actions : Expired(a)
  /\ row' = [a \in Actions |-> IF Expired(a) THEN "expired" ELSE row[a]]
  /\ UNCHANGED <<expires, decidedAt, claimed, tool, world, procs, audit, pretix, faulted>>

-----------------------------------------------------------------------------
(* registry.py: execute_approved and _execute.                             *)

ClaimableTwice(a) == row[a] \in {"approved", "executing"}
ClaimableUndecided(a) == row[a] \in {"pending", "approved"}

\* WHERE id = ? AND state = 'approved': the deadline is not asked about.
Claimable(a) == row[a] = "approved"

ClaimWins(p) ==
  LET a == act[p] IN
  /\ At(p, "claim")
  /\ Claimable(a)
  /\ row' = [row EXCEPT ![a] = "executing"]
  /\ claimed' = [claimed EXCEPT ![a] = TRUE]
  /\ Goto(p, "gate")
  /\ UNCHANGED <<expires, decidedAt, tool, world, audit, pretix, faulted>>

ClaimLoses(p) ==
  /\ At(p, "claim")
  /\ ~Claimable(act[p])
  /\ Goto(p, "why")
  /\ UNCHANGED <<table, world, audit, pretix, faulted>>

GateUnchecked(p) ==
  /\ At(p, "gate")
  /\ Await(p, "body")
  /\ UNCHANGED <<table, world, audit, pretix, faulted>>

\* The action read back, its tool checked against the configuration this process loaded.
\* The body may await (reads, validation) before it changes anything.
Gate(p) ==
  /\ At(p, "gate")
  /\ IF tool[act[p]] \in conf[p] THEN Await(p, "body") ELSE Goto(p, "withdrawn")
  /\ UNCHANGED <<table, world, audit, pretix, faulted>>

WithdrawnHandsBack(p) ==
  /\ At(p, "withdrawn")
  /\ SetRow(act[p], "approved")
  /\ Goto(p, "auditWithdrawn")
  /\ UNCHANGED <<world, audit, pretix, faulted>>

Withdrawn(p) ==
  /\ At(p, "withdrawn")
  /\ SetRow(act[p], "failed")
  /\ Goto(p, "auditWithdrawn")
  /\ UNCHANGED <<world, audit, pretix, faulted>>

AuditWithdrawn(p) ==
  /\ At(p, "auditWithdrawn")
  /\ Written(act[p], "tool_disabled") \/ LineLost(act[p])
  /\ End(p)
  /\ UNCHANGED <<table, world, pretix>>

\* The tool's mutating request leaves for pretix.  Of a batch it is the first one that
\* decides: Subevents.tla has the others.
Send(p) ==
  /\ At(p, "body")
  /\ wire' = [wire EXCEPT ![act[p]] = "sent"]
  /\ Await(p, "await")
  /\ UNCHANGED <<table, world, audit, effects, faulted>>

\* The body raises before any request: an argument or a state it does not accept.
BodyRefuses(p) ==
  /\ At(p, "body")
  /\ Goto(p, "auditFailed")
  /\ UNCHANGED <<table, world, audit, pretix, faulted>>

\* A redirect comes back from request() as a success, and the body makes its result of it.
AnswerOk(p) ==
  /\ At(p, "await")
  /\ wire[act[p]] \in {"applied", "redirected"}
  /\ Goto(p, "auditExecuted")
  /\ UNCHANGED <<table, world, audit, pretix, faulted>>

\* pretix refused the request, or no answer came before httpx gave up: the request may
\* have been applied, or still be.  A reporting tool raises only when it makes something of
\* the empty answer to a redirect.
AnswerError(p) ==
  /\ At(p, "await")
  /\ tool[act[p]] \in Reporting => wire[act[p]] = "redirected"
  /\ Goto(p, "auditFailed")
  /\ UNCHANGED <<table, world, audit, pretix, faulted>>

ReportFlattened(p) ==
  /\ At(p, "await")
  /\ tool[act[p]] \in Reporting
  /\ Goto(p, "auditExecuted")
  /\ UNCHANGED <<table, world, audit, pretix, faulted>>

\* The same PretixError, at this request or a later one of the batch, where the body catches
\* it: its result has the status partial_failure, and to execute_approved it is a result.
AnswerReported(p) ==
  /\ At(p, "await")
  /\ tool[act[p]] \in Reporting
  /\ Goto(p, "auditPartial")
  /\ UNCHANGED <<table, world, audit, pretix, faulted>>

\* _execute audits inside execute_approved's try: a line that cannot be written turns a
\* success into "failed".
AuditResult(p, step, event) ==
  /\ At(p, step)
  /\ \/ Written(act[p], event) /\ Goto(p, "finishExecuted")
     \/ LineLost(act[p]) /\ Goto(p, "finishFailed")
  /\ UNCHANGED <<table, world, pretix>>

AuditExecuted(p) == AuditResult(p, "auditExecuted", "executed")
AuditPartial(p) == AuditResult(p, "auditPartial", "partial_failure")

AuditFailedSkipped(p) ==
  /\ At(p, "auditFailed")
  /\ Goto(p, "finishFailed")
  /\ UNCHANGED <<table, world, pretix, audit, faulted>>

AuditFailed(p) ==
  /\ At(p, "auditFailed")
  /\ Written(act[p], "failed") \/ LineLost(act[p])
  /\ Goto(p, "finishFailed")
  /\ UNCHANGED <<table, world, pretix>>

FinishExecuted(p) ==
  /\ At(p, "finishExecuted")
  /\ SetRow(act[p], "executed")
  /\ End(p)
  /\ UNCHANGED <<world, audit, pretix, faulted>>

FinishForgotten(p) ==
  /\ At(p, "finishFailed")
  /\ End(p)
  /\ UNCHANGED <<table, world, audit, pretix, faulted>>

FinishMisspelt(p) ==
  /\ At(p, "finishFailed")
  /\ SetRow(act[p], "error")
  /\ End(p)
  /\ UNCHANGED <<world, audit, pretix, faulted>>

FinishFailed(p) ==
  /\ At(p, "finishFailed")
  /\ SetRow(act[p], "failed")
  /\ End(p)
  /\ UNCHANGED <<world, audit, pretix, faulted>>

-----------------------------------------------------------------------------
(* Everything that is not the program.                                     *)

Tick == /\ clock < MaxTime
        /\ clock' = clock + 1
        /\ UNCHANGED <<table, cfg, procs, audit, pretix, faulted>>

\* The operator edits the configuration; processes already running do not see it.
Reconfigure == /\ cfg' \in Configs \ {cfg}
               /\ UNCHANGED <<table, clock, procs, audit, pretix, faulted>>

PretixApplies(a) == /\ wire[a] = "sent"
                    /\ wire' = [wire EXCEPT ![a] = "applied"]
                    /\ effects' = [effects EXCEPT ![a] = @ + 1]
                    /\ UNCHANGED <<table, world, procs, audit, faulted>>

\* An error status, or a redirect: either way nothing is changed.
PretixDeclines(a, answer) == /\ wire[a] = "sent"
                             /\ wire' = [wire EXCEPT ![a] = answer]
                             /\ UNCHANGED <<table, world, procs, audit, effects, faulted>>

PretixRefuses(a) == PretixDeclines(a, "refused")
PretixRedirects(a) == PretixDeclines(a, "redirected")

-----------------------------------------------------------------------------
(* Faults.                                                                 *)

\* sqlite3.OperationalError: nothing in execute_approved catches it outside the body.
DatabaseLocked(p) ==
  /\ "locked" \in Faults
  /\ pc[p] \in DbSteps /\ At(p, pc[p])
  /\ End(p)
  /\ Fault(act[p])
  /\ UNCHANGED <<table, world, audit, pretix>>

\* The MCP client cancels the call: CancelledError, which `except Exception` lets pass.
Cancel(p) ==
  /\ "cancel" \in Faults
  /\ p \in Tasks /\ pc[p] \in {"body", "await"} /\ running = None
  /\ End(p)
  /\ Fault(act[p])
  /\ UNCHANGED <<table, world, audit, pretix>>

\* Ctrl-C, or the shell of the operator goes away.
Kill(p) ==
  /\ "kill" \in Faults
  /\ p \in Clis /\ pc[p] # "idle"
  /\ End(p)
  /\ Fault(act[p])
  /\ UNCHANGED <<table, world, audit, pretix>>

\* The server stops between any two steps and starts again with the configuration of now.
Restart ==
  /\ "restart" \in Faults
  /\ pc' = [p \in Procs |-> IF p \in Tasks THEN "idle" ELSE pc[p]]
  /\ act' = [p \in Procs |-> IF p \in Tasks THEN None ELSE act[p]]
  /\ cmd' = [p \in Procs |-> IF p \in Tasks THEN None ELSE cmd[p]]
  /\ seen' = [p \in Procs |-> IF p \in Tasks THEN None ELSE seen[p]]
  /\ conf' = [p \in Procs |-> IF p \in Tasks THEN cfg ELSE conf[p]]
  /\ running' = None
  /\ faulted' = [a \in Actions |-> faulted[a] \/ \E p \in Tasks : act[p] = a]
  /\ UNCHANGED <<table, world, audit, pretix>>

-----------------------------------------------------------------------------

Decide(p) == DecideWins(p) \/ DecideLoses(p)
Claim(p) == ClaimWins(p) \/ ClaimLoses(p)
Answer(p) == AnswerOk(p) \/ AnswerError(p) \/ AnswerReported(p)

\* What a process does once it has started, of its own accord.
Step(p) == \/ AuditProposed(p) \/ Decide(p) \/ AuditApproved(p)
           \/ WhyNot(p) \/ SetExpired(p) \/ Claim(p) \/ Gate(p)
           \/ Withdrawn(p) \/ AuditWithdrawn(p)
           \/ Send(p) \/ BodyRefuses(p) \/ Answer(p)
           \/ AuditExecuted(p) \/ AuditPartial(p) \/ AuditFailed(p)
           \/ FinishExecuted(p) \/ FinishFailed(p)

Begin(p) == \E a \in Actions : \/ \E t \in HighRisk : Propose(p, a, t)
                               \/ Call(p, a)
                               \/ \E c \in Verdicts : Command(p, a, c)

Fail(p) == DatabaseLocked(p) \/ Cancel(p) \/ Kill(p)

Next == \/ \E p \in Procs : Begin(p) \/ Step(p) \/ Fail(p)
        \/ \E a \in Actions : PretixApplies(a) \/ PretixRefuses(a) \/ PretixRedirects(a)
        \/ ExpireStale \/ Tick \/ Reconfigure \/ Restart

Spec == Init /\ [][Next]_vars

\* A CLI process keeps running until it exits.  asyncio serves ready tasks in the order
\* they became ready, so a task that waits for the loop again and again gets it; an
\* answer always comes, since httpx gives up after its timeout.  Nobody is obliged to
\* propose, call, approve, or to look at the queue.
Fairness == /\ \A p \in Clis : WF_vars(Step(p))
            /\ \A p \in Tasks : SF_vars(Step(p))

FairSpec == Spec /\ Fairness
=============================================================================
