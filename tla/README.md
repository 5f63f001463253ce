# A TLA+ model of pretix-agent-mcp

pretix-agent-mcp is an MCP server through which an AI agent administers one pretix
organizer. The modules here model the parts of it whose correctness depends on the order
of events, or on several rules agreeing with each other: the approval ceremony, the
live-event guard, the retrying API client, the paginated scans and the reports made of them,
the batch of series dates, where arguments are checked, what the settings allow and what
leaves the server unmasked. TLC checks them on small instances; TLAPS proves, for every value
of the constants, every safety property of every component that a passing run checks, and the
refinement of the two abstract specifications; only liveness stays with TLC.

Source paths below are relative to `src/pretix_agent_mcp/`.

## The system

One **server process** holds a configuration read at start, an HTTP client for the pretix
API, an audit file and a SQLite table of pending actions. Its tool calls are tasks of one
asyncio loop: they interleave only where the code awaits, which is where it talks to
pretix. Any number of short-lived **CLI processes** on the same host share the table and
the audit file, with no lock between them other than SQLite's. **pretix** is changed by the
server, by approved actions, by other API clients and by the organizer in its web UI.

| Component | State it keeps | Operations | Hard behaviour | What makes it correct |
|---|---|---|---|---|
| pending store (`pending.py`) | one row per action: state, `expires_at`, `decided_at`, `executed_at` | propose, decide, claim, `_why_not`, `expire_stale`, finish | decisions, claims and expiry from several processes; a clock read before a lock is taken; reads and writes in different transactions | decided once, claimed once, nothing undecided runs |
| orchestration (`registry.py`) | the configuration | `_propose`, `execute_approved`, `_execute` | any step may be the last one; the configuration may have changed since the approval | the row, the audit file and pretix agree on what happened |
| operator CLI (`cli.py`) | none | pending, approve, approve --run, reject | killed between SQLite commit and audit line | a decision counts once and is on record |
| approval tools (`tools/approval.py`) | none | get_pending_action, execute_pending_action | retries by the agent | a retry never executes twice |
| audit log (`audit.py`) | an append-only file | write | the line cannot be written | the lines of an action tell its story |
| gate and live guard (`registry.py`, `config.py`) | the configuration | run_tool | the event changes between the guard's GET and the write | nothing reaches a selling event on the agent's say-so |
| argument checks (`validate.py`, tools) | none | gate, preview, body of each tool | the body of a queued call runs after the approval, maybe in another process | nothing unchecked is sent |
| pretix client (`pretix.py`) | none | request, paginate | 429 and retries, lost answers, a listing that changes while it is read | at most once; a scan is exact or says it is not |
| series dates (`tools/subevents.py`) | none | create_subevents, update, delete | one of many requests fails | the report says what exists |
| reports (`tools/orders.py`, `events.py`, `catalog.py`, `checkin.py`, `_shared.py`) | none | sales_summary, search_orders, list_checkins, list_events, get_availability, the publish preview | rows change while their pages are read | every figure counts each row once, in a state it was in |
| configuration (`config.py`) | none | load, tool_enabled, event_allowed, check_http_bind | two sources, three kinds of empty | closed by default; the environment wins |
| redaction (`redact.py`) | none | redact, redact_args | rules by the key, by the keys beside it and by those above it | personal texts masked, nothing else |
| transport (`server.py`) | none | start over http or stdio | a restart under other settings, with actions queued | no http without a generated token |
| other tools (`tools/*.py`) | none | one request each | none of their own | they go through the gate |

Calls flow from the transport to `run_tool` (gate, guard), then either to the tool's body
or to the pending store; `execute_approved` leads from the store back to the body, called by
a server task or by `approve --run`; every body talks to pretix through the client; what it
returns is redacted on the way out, and so are the arguments in the audit file.

## Modules

| Module | Models | Notes |
|---|---|---|
| `ApprovalSpec` | abstract ceremony: an action is opened, granted, taken, takes effect at most once, or is closed | five actions |
| `Approval` | the ceremony as the code runs it | one action per SQLite transaction, audit line, request or answer |
| `ApprovalProperties` | its properties and the inductive invariant | |
| `RequestSpec` | abstract API call: processed at most once; what an answer says of it | what `Approval` and `Subevents` assume of a request |
| `PretixClient` | `Pretix.request` against a rate limit | timers count down with Tick |
| `Paginate` | `Pretix.paginate` while rows come and go | |
| `Reports` | what six tools make of a listing whose rows also change | extends `Paginate` and `Config` |
| `Subevents` | `create_subevents` and an agent that calls it again | |
| `LiveGuard` | `run_tool`: gate, guard, queue, body | the queue is an instance of `ApprovalSpec` |
| `Screening` | which check of which argument is made at the gate, in the preview, in the body | one record per writing tool |
| `Config` | `load`: precedence, defaults, refusals; the questions asked of the result | operators only |
| `Redact` | the walk of `redact`, and a reference for it | operators only, no recursion: see below |
| `Server` | processes started with settings, one after the other, around the calls of `Screening` | extends `Screening`, `Config` and `Redact` |
| `MC...` | values of the constants for TLC | |
| `ApprovalProofs`, `ClientProofs`, `PaginateProofs`, `ReportsProofs`, `SubeventsProofs`, `GuardProofs`, `ServerProofs` | theorems and proofs | `ServerProofs` has those of `Screening` and `Redact` too |
| `FoldLemmas` | what a fold over a list and a sum come to, for any length | used by `ReportsProofs` and `ServerProofs` |

They compose through the two abstract specifications: `Approval` implements `ApprovalSpec`, which
`LiveGuard` instantiates as its queue; `PretixClient` implements `RequestSpec`, whose outcomes
(`ok`, redirected, refused, unknown) are the ones `Approval` and `Subevents` give a request.
`Reports` reads through the actions of `Paginate`; `Server` starts the processes in which the
calls of `Screening` run, and derives what `Screening` knows of a configuration from the settings.

An operator that stands just before a similar one and that nothing uses is a mutant: the
definition after one plausible mistake. Every checked property is violated by one of them.

### Approval

`row`, `expires`, `decidedAt`, `claimed` and `tool` are the columns of the table; `pc`, `act`,
`cmd`, `seen` and `conf` the local state of a process (`seen` is the `now` that `decide()` reads
before it takes the write lock); `running` is the task that holds the event loop, released exactly
where the code awaits; `audit` the set of events in the audit file; `wire` and `effects` pretix's
side of the one mutating request. The actions follow the code line by line: `Propose`,
`AuditProposed`; `Command`, `DecideWins` / `DecideLoses`, `AuditApproved`; `WhyNot`, `SetExpired`
(two transactions); `ExpireStale`; `ClaimWins` / `ClaimLoses`; `Gate`, `Withdrawn`; `Send`,
`BodyRefuses`, `AnswerOk`, `AnswerError`, `AnswerReported`; `AuditExecuted`, `AuditPartial`,
`AuditFailed`; `FinishExecuted`, `FinishFailed`. `Reporting` are the tools that catch a refusal
and make a report of it, which is `create_subevents`: to `execute_approved` that is a result, so a
batch whose first date pretix refused ends as `executed`, with the outcome `partial_failure` in
the audit file. The request of a batch that `wire` follows is the first one; `Subevents` has the
others. pretix may also answer with a redirect: `request` does not follow it and raises for a
status of 400 and more only, so the body gets an answer as of a success, and nothing was applied.
Faults are SQLite locked for longer than its timeout of ten seconds, a cancelled call, a killed
CLI, an audit line that cannot be written, and a restart with another configuration. `faulted`
remembers that one of them cut a step short.

### PretixClient

A tick is fifteen seconds. After a burst has used up pretix's window, calls are answered 429
until it ends. On a *calm* day nothing is lost, nobody else spends the budget and
Retry-After names the end of the window; on any other day all of that can go wrong. A redirect
ends a call as a success does, with `None` where the body is empty, and pretix has done nothing:
`RequestSpec` keeps the two apart, the caller cannot.

### Paginate

A row is the number of its creation; the listing begins with the oldest or with the newest.
`LastPage`, `StopsAtCap`, `NextPage`, `PageGone` and `NoPage` are the five ways an iteration ends;
the last is an answer that is no object (a redirect without a body), after which `truncated` is
true though no cap was reached.

### Reports

A listing holds objects: orders with refunds and positions, attendees with check-ins, events,
quotas, products. Between two pages an object that was read, or will be, may be edited, in
addition to rows coming and going. `past` remembers what every row held and when; `copies` what
it held when its page was served. The figures are the loop of `sales_summary` (a fold, an order
at a time); the properties compute the same figures from a set of rows, which is what they are
meant to be. `publish_event` reads two lists alike; one of them is followed.

### Subevents

One step is one request: it succeeds, is refused, is answered with a redirect, or is never
answered, and then pretix may still process it. After a redirect the loop goes on with an entry
that names no date (`EmptyEntry`), or, where it needs the id that is not there, an AttributeError
ends the call without a report (`raised`). The agent calls again, either with `remaining`, as the
note of the report says, or with everything the report does not show as created.

### LiveGuard

`update_event` stands for the guarded tools that leave `live` and `testmode` alone. `author`
records on whose say-so a request changes pretix; `raced` that the event went on sale after
the guard had looked. The pretix UI may do anything at any time. A guard's GET that is answered
with a redirect ends the call, as one that fails does; an event without a `live` is not modelled.

### Screening

For each writing tool: what its declared arguments can have wrong, and which of it the gate
(`money=`), the preview and the body look at. One call is followed on all its paths.

### Config, Redact, Server

Settings are two functions, the environment and the file, each defined on what it mentions; `load`
is a function of them. A list that the environment sets to nothing is an empty list, a text that
it sets to nothing is not set: both follow the code. An answer is a tree of dicts, lists, texts
and plain leaves; a text is abstracted to whether it is an address, a word or empty, and how it is
masked. `Redact` takes a tree as what it has where: a function from the ways to its leaves, each a
sequence of steps by a key of a dict or to a place in a list (`IsTree`). The code's one walk keeps
the shape of the tree and calls itself once for each dict and list, so what it does to a leaf
follows from the keys beside it and from the arguments `_key` and `_in_pii` of the call it is
reached in. `Into` is what those become from one call to the next, `Within` a fold of it over a
way, `Walk` the cases for a leaf. `PersonalInPlace` says of a text, from its key, the keys beside
it and the containers above it, whether it is personal where it stands; `Personal` adds, as
redact.py:7-8 has it, whatever stands below a personal key at any depth. `MaskedInPlace` is what
the code keeps: nothing is shown that is personal where it stands, and nothing is masked that is
not personal. Of the texts between the two, personal only by a key further up, it says nothing;
`NoPersonalShown` demands them too, and the code does not keep it. An empty text is masked only as
the `name` of a person. Two keys of one dict that differ in case only are one key here; an empty
dict or list is a plain leaf. In `Server` any process may start, refuse to start or end at any
moment between two steps of a call; what is queued stays for the next one. `output` is what the
last step let out.

## Runs

| Run | Question | Bounds | Result |
|---|---|---|---|
| `approval_faults` | Do the table, the audit file and pretix agree, whatever fails? Is a claimed action finished? Is `IInv` invariant? | 1 action, 2 tasks, 1 CLI, 2 configurations, all faults, clock 0..2, TTL 1; 597,404 states | holds |
| `approval_operators` | Are decisions and claims won once? Does the ceremony implement `ApprovalSpec`? | 1 action, 1 task, 2 CLIs, every fault but the disk's; 1,788,130 states | holds |
| `approval_lapses` | Does an approval stand until it is claimed? | 1 action, no faults | violated |
| `cancelled_unaudited` | Does every change leave an audit line? | cancelled calls only | violated |
| `client` | Is a call processed at most once, and what does its answer prove? Does it end? Does it survive a burst? | 2 calls, 3 attempts, window 4, cap 2, budget 2; 178,413 states | holds |
| `listing` | Is a quiet listing returned, counted and summed exactly? What can a changing one hide, repeat or mix? | 6 tools, 6 rows, pages of 2, caps 1, 2, 3, 4, 6, 1 edit, any creations and deletions, answers that are no page; 2,981,312 states | holds |
| `silent_truncation` | Is a cut scan always reported as such? | cap 3, pages of 2 | violated |
| `batch` | Is the report of `create_subevents` true, and while pretix answers every request also complete? | 4 dates, 5 calls, redirects; 72,925 states | holds |
| `batch_note` | Does the report's own advice lead to all dates? | 4 dates | violated |
| `guard` | Can the agent alone put an event on sale, delete it, or change one on sale? | 1 event, 2 tasks, 1 queued action, 4 configurations; 1,129,040 states | holds |
| `screening` | Is everything checked on every path before it is sent? Is a server closed by default, and does the environment win? Does anything personal leave it? | 39 tools, all combinations of flaws, 2 events, 15 settings, 2 transports, every tree of one or two keys, alone, in lists and under another key; 75,518 states | holds |
| `unmasked_in_list` | Is what stands under a personal key masked at any depth? | the trees of `screening` | violated |

**Why the bounds are enough.** Actions never share state except through the processes, so one
action with three processes shows every race on a row: two tasks on one loop, a task against
a CLI, two CLIs. Configurations and deadlines matter by comparison only (enabled or not;
before, at, after the deadline), for which two configurations and a clock of three values
suffice; and the theorems hold for any number of everything. Six rows of two per page give
an exact multiple, a partial last page and a cap on either side of both. Four dates have a
first, a middle and a last one to fail at, and two left over after a failure in the middle.
The second task of `guard` gives the race of an approved `publish_event` with a guarded write.
The rows of `listing` hold every state of an order, an unknown one, amounts that do not parse,
refunds done and not done, canceled positions and equal times, in two rotations, so that each
falls on either side of a page and of the cap; a second edit of the same row would only add a
moment to choose from. The settings of `screening` are the ones that the rules of `load` tell
apart: each source alone, one overruling the other by a value and by nothing, every refusal.
The masking rules look at a key, the keys beside it and the keys above it, so trees with each
kind of key at each of these places, through a list and through two dicts, meet all of them.

**Deadlock.** `CHECK_DEADLOCK FALSE` stands in the runs of the ceremony (all actions settled,
clock at its bound), of the scans and of the batch, which end. The others run for ever.

**Fairness.** `Approval!FairSpec`: a CLI process keeps running until it exits (weak fairness
of its next step); a ready task gets the event loop again, as asyncio serves tasks in the
order in which they became ready, and an answer or httpx's timeout always comes (strong
fairness, because another task may hold the loop again and again). Nobody is obliged to
propose, approve, call or look. `PretixClient!FairSpec`: the loop runs the call, time passes,
and an exchange is answered or ended by httpx's timeout. That timeout of 30 seconds bounds each
operation on the socket, not the exchange: a server that sends a byte now and then could hold a
call for ever. The fairness of an answer is therefore a mild assumption about pretix.

## Proofs

Each theorem holds for any values of the constants that the module's one assumption allows
(`ConstantsAssumption`, `GuardAssumption`, ...: sentinels are distinct from what they stand
beside, bounds are numbers, configurations have their fields, there is an event).
`ReportsAssumption` says what the API gives: amounts are numbers or do not parse, times are
numbers, and a position is of a product and a date that the event has.
`SubeventsAssumption` says that the dates of a series differ: the tool does not look, and two
entries with one date are two dates to it, so "every date once" means nothing without this.
`ServerAssumption` says that answers and arguments are trees with nothing in them masked yet. One
theorem states a hypothesis of its own, `BurstFits` below.

| Theorem | States | Module |
|---|---|---|
| `TypeCorrect` | `[]TypeOK` | `ApprovalProofs` |
| `AtMostOnceHolds` | pretix applies an action at most once, and it has one owner at most | |
| `OnlyApprovedRunsHolds` | nothing is sent without a decision taken before the deadline | |
| `ExecutedIsTrueHolds` | a row reads `executed` only with a line that says how; `ok` is never said of a request that pretix refused or left unanswered, and a partial failure only of a tool that reports one | |
| `WithdrawnNeverRuns` | an approval met by a configuration without its tool is spent | |
| `OnlyEnabledRunsHolds` | no process sends what its own configuration has not enabled | |
| `DecidedOnceHolds` | `decided_at` and `executed_at` are written once, and no verdict is turned into the other | |
| `Refinement` | `Spec => Abstract!Ceremony` | |
| `InvariantHolds` | `[]IInv` | |
| `NoOrphanHolds` | a row in `executing` has an owner, or a fault took it | |
| `AuditTrailHolds` | proposal, approval and execution of a settled action are on record, or a fault took a line | |
| `NoSilentChangeHolds` | a change that was made has a line saying how it ended, or a fault took it | |
| `ClientTypeCorrect` | `[]TypeOK` of the client | `ClientProofs` |
| `CallAtMostOnce` | `Pretix.request` implements `RequestSpec`: processed at most once, what returned was processed or redirected, what was refused will not be | |
| `BurstCoveredHolds` | with `BurstFits`, no call of a burst is given up on a calm day | |
| `ScanTypeCorrect` | `[]TypeOK` of the scan | `PaginateProofs` |
| `QuietIsExactHolds` | a listing that stands still is returned exactly, up to the cap | |
| `GrowthHidesNothingHolds` | rows that are only added hide none that was there | |
| `RepeatsNeedInsertionHolds` | a row is returned twice only if rows were created during a scan that begins with the newest | |
| `ReportsTypeCorrect` | a tool is given each row as it was at one moment, and answers after the scan | `ReportsProofs` |
| `ToolsReadExactly` | the three properties of the scan hold in every tool, whatever is edited | |
| `InputIsExactHolds` | of a quiet listing a tool is given every row once, in order, as it is | |
| `InputInOneStateHolds` | of a scan without repeats, one listing of rows that each held this meanwhile | |
| `ReportIsExactHolds` | of a quiet listing every sum, count and row in an answer is the one there is to tell | |
| `EachRowInOneStateHolds` | of a scan without repeats the answer is that of one listing, no row torn apart | |
| `BatchTypeCorrect` | `[]TypeOK` of the batch | `SubeventsProofs` |
| `ReportIsTrueHolds` | what the report shows as created is there, what it calls remaining is not | |
| `ReportIsCompleteHolds` | while pretix answers every request, the report leaves nothing out | |
| `EveryDateOnceHolds` | and calling again for what is missing gives every date once | |
| `GuardTypeCorrect` | `[]TypeOK` of the gate, no second effect included | `GuardProofs` |
| `BoundaryNeedsConsentHolds` | the agent alone puts no event on sale and deletes none | |
| `OnSaleNeedsConsentHolds` | nor changes one on sale, unless it went on sale after the guard had looked | |
| `QueueKeepsCeremonyHolds` | the gate uses the queue as `ApprovalSpec` allows | |
| `ReadOnlySendsNothingHolds` | under `MCP_CAPABILITIES=read` no change is sent | |
| `OnlyScreenedIsSentHolds` | nothing with a flaw is sent, on any path | `ServerProofs` |
| `AmountsRefusedBeforeQueueHolds` | no amount that is not one is queued | |
| `AllowlistHoldsAlways` | no process sends anything about an event outside its allowlist | |
| `ServerScreens` | these three in the processes that settings give | |
| `DefaultsClosedHolds` | settings that name nothing enable nothing, and no http without a token | |
| `EnvironmentWinsHolds` | no setting of the environment can be changed by the file | |
| `ServerTypeCorrect` | the configuration in force is what `load` made of the settings | |
| `MaskingIsRight` | in any tree the walk masks every text that is personal where it stands, and none that nothing makes personal | |
| `AnswerIsMaskedHolds` | so is every answer, unless the operator said `full`; then it shows all | |
| `LogIsMaskedHolds` | arguments are logged masked in every mode | |

*The ceremony.* `AtMostOnce` is not inductive: that a second process cannot reach `Send` hangs
on the claim. `IInv` adds that `executed_at` is set exactly from the claim on and that a
claimed row never reads as one that could be decided or claimed again, not even when
`_why_not` overwrites it with `expired` (`ClaimedRows`); that an approved row was decided in
time (`DecidedRows`); that a process between claim and finish is alone (`OneOwner`); and that
nothing is on the wire before the owner's body has sent it (`OneRequest`). `TrueSuccess`
follows the order of `_execute`: answer, audit line, `finish`, for a success and for a report of
refusals. `SpentHasNoOwner` says why a
withdrawn action cannot come back. One lemma per group of actions shows that the step keeps
each conjunct it can disturb; the refinement maps every step to a step of the abstract
ceremony or to a stutter, using `IInv`.

*The audit file.* The code commits a row first and writes the line afterwards, so between the
two the file is behind. The invariant says what stands behind every row: the line, or the
process that is about to write it, or a fault that took that process or that line
(`ProposalOnRecord`, `ApprovalOnRecord`, `OutcomeOnRecord`). Each is kept because no other
process can take the row further than its own line allows.

*The client.* A call that repeats itself has not been processed: only a 429 leads to another
attempt, and pretix processes nothing that it answers so. `Truthful` in `ClientProofs` carries
this through waits, cancellation and lost answers; each step of `request` is then a step of
`RequestSpec` or a stutter.

*The burst.* `BurstCovered` needs the amounts of the code: two waits of at most 30 seconds, a
window of a minute, and calls that fit into one window. `BurstFits` says this of the constants,
and the run's satisfy it. `BInv` has two phases. Until the used-up window ends (`Burst`) nothing
is served, and a call is at least as far into the window as its waits have taken it, or asleep
beyond its end; so when it is answered 429 for the last time the window would have to be over.
After that (`AfterBurst`) each unit of the budget was spent by a call that was served, once, so
the budget never runs out. `NoneLimited` is what both make of a 429.

*The scan.* `QuietIsExact` speaks of the end, the scan runs page by page, so each property is
carried by what holds between two pages (`PInv`): of a listing that nothing happened to, exactly
the full pages before this one are collected (`Quiet`); without deletions, every row of the
beginning is collected or still ahead (`NothingHidden`); without insertions at the front,
nothing collected lies ahead (`NoRepeat`), because a deletion can only pull rows towards the
pages already read. "Ahead" is a place behind those pages, and each step says how places move.

*The reports.* A tool's answer is computed from `copies`, and stays what it was made
(`AnswerMade`). `Faithful` says that each copy is what its row held at a moment of the scan; with
the scan's own invariant, which no edit and no failing request touches, a quiet listing gives
exactly its rows, and a scan without repeats one listing of rows in states they had: the choice of
a moment for each row is a function because no row has two places. What a tool makes of its copies
is a fold, so the rest is an induction over data. The library's theorems for that take an operator
as a parameter; here (`FoldLemmas`) it is done with sets. `FoldLeft` over a list is defined by a
function on the sets of its places, which takes the largest place off each; that such a function
exists is proved for every finite set (`Iterates`), and that two of them agree, or that one has a
closed form, by taking the sets on which they do (`Parts`). So `Only` has an element for each
place it should (`OnlyKeeps`), a sum does not depend on the order of its terms (`AddsAny`), and a
refund, a ticket and an order each add to the figures what they should (`RefundsAdd`,
`TicketsAdd`, `OrderAdded`): `Tallied` is what the loop of `sales_summary` has counted after any
of its rounds, `Sales` after the last. `AnswersDescribe` has one case per tool.

*The batch.* A call works on an end of the series (`InStep`, `Place`), so what lies behind the
place is untouched by this and all earlier calls, lost requests included (`Untried`); dates that
were reported are never tried again (`Fresh`). `Honest` carries what an entry claims; `Complete`,
while nothing is lost or redirected, the converse: no date twice, and nothing in pretix that is
not reported; `NoneLeftBehind` that an agent that asks for the missing dates skips none.

*The gate.* Two things are carried along. `OneCarrier`: an approved action is in one task's
hands, at its body or on the wire, and only while pretix has not applied it. `OwnSay`: a call
that needs no human any more, and is nobody's but the agent's, is of a tool that does not cross
the boundary; if it is a guarded write, its event was not on sale when the guard looked, and
still is not, or `raced` says that it came to be. Whatever a tool below the boundary leaves
behind is not newly on sale (`Results`); that a clone starts as a draft is used here.

*The checks.* Whatever a tool's arguments can have wrong is looked at by the gate or by the body
(`Covered`, proved for each of the 39 tools); a call that was sent has passed both. The theorems
are about `Screening!Spec`, where a process changes at any moment; the run checks the same
properties in the processes that real settings give (`ServerSpec`), for which `ServerScreens`
states them: every step of `Server` is a step of `Screening`, a tool that reads, or a refusal.

*The server.* `ServerInv` says that the process has what `load` makes of its settings, and that
the settings are ones `load` accepts (`Begun`); that under settings which name nothing no call is
past the gate or out of the queue (`Shut`), which restarts keep because they keep only what is
queued, and `Execute` because it asks again; and that http was checked at the start (`Bound`).
`EnvironmentWins` is then a fact about `load`, setting by setting. `Masked` carries what was let
out, with the mode of the process that did. What the walk makes of a tree is
`MaskingIsRight`, by induction over a way with the lemmas of `FoldLemmas`: `_in_pii` is true
exactly below a container, at any depth and through any lists (`InPiiIsContained`), and in each
case for a leaf that and the keys beside it decide as `PersonalInPlace` does (`WalkIsRight`). The
theorems add which mode applies: that `full` needs the operator's word, in the environment
before the file, an empty or structured value being no word (`FullMeansSaid`).

Nested `IF` stands where a `CASE` would have several arms: the proofs rely on no SMT encoding of
the latter.

*Only model-checked:* liveness (`ClaimedIsFinished`, `EveryCallEnds`), which TLAPS does not
reach.

## What the code does otherwise than it says

Each is the counterexample of a run (quotes are in `PROJECT.json`, under `findings`):

- `approval_lapses`: `_why_not` reads a row in one transaction and sets it to `expired` in
  another, with no condition. An approval committed in between is lost after the operator
  was told that the agent can go on. The invariant shows the damage stops there: a claimed
  action is not executed twice, even if its row was overwritten.
- `cancelled_unaudited`: `except Exception` does not see `CancelledError`. A call cancelled while
  pretix works leaves a change with neither an `executed` nor a `failed` line, and a row that
  reads `executing` for ever.
- `silent_truncation`: `paginate` returns from the last page with `truncated=False` even if the
  cap cut rows off it. Reachable with a `SALES_SCAN_CAP` that is no multiple of the page size.
- `batch_note`: `remaining` leaves out the date that failed, and the note says to re-run for the
  remaining dates only.
- `unmasked_in_list`: redact.py:7-8 has personal keys masked wherever they appear, at any depth. The
  walk forgets such a key on the way into a list or a dict that is no container: the texts in
  `{"email": ["a@b.c"]}` are shown.

Three more are plain in the source, and no run is spent on them:

- Nothing asks for the deadline at `claim()` (pending.py:142-150), and no sweep expires an approved
  row: an action approved in time can be executed at any later time, while PRD.md:283 says
  "Expired or unapproved actions are refused" and `execute_pending_action` (tools/approval.py:45)
  that it fails after the action expired.
- A guarded write that was let through because its event was a draft changes the event also if it
  went on sale meanwhile, without an approval (README.md:242-243 makes no exception).
- `refund_order` checks `state` and the id of `payment` only in its body, after the approval, while
  tools/orders.py:355-356 says that previews validate too.

Limits of the properties that hold, for the reader who expects more of them:

- `OnlyApprovedRuns` speaks of the clock as `decide()` read it. The transaction may wait up to ten
  seconds for the write lock, so a decision can commit after the deadline.
- `ExecutedIsTrue` does not say that an executed action changed anything: a redirect, or a batch
  refused at its first date, ends as `executed` too. The outcome on record tells the batch.
- `OnSaleNeedsConsent` excepts an event that went on sale between the guard's GET and the write.
- `EachRowInOneState` lets different rows be seen at different moments: no snapshot is promised.
- `RepeatsNeedInsertion` does not exclude that `sales_summary` counts an order twice when another
  is created during a scan that begins with the newest.
- `ReportIsComplete` and `EveryDateOnce` hold while no answer is lost or a redirect. An entry
  without a `quota_id` may have a quota if the answer to its request was.
- `NoSilentChange`, `AuditTrail`, `NoOrphan` and `ClaimedIsFinished` hold where no fault cut a
  step short: of the faults themselves they say nothing. No audit line is ever written when an
  action expires.

## Not modelled

- **Several servers on one table.** The deployment runs one; the CLI processes are modelled.
- **The later requests of an approved batch**, in `Approval`: `wire` and `effects` follow the
  first one, and the report may tell of any (`AnswerReported`). What the batch makes of each
  request is in `Subevents`.
- **Cancellation, and exceptions other than the AttributeError of a redirect, inside
  `create_subevents`.** They lose the report; the requests already made stand, as `Unanswered`
  lets them.
- **What a single validator accepts**, the deny-lists of `update_event_settings`: regular
  expressions and lists, which a model could only repeat.
- **How a mask spells a text, and `scrub_text`** (one regular expression over an error message).
- **The bearer token and the Host header of a request**: compared and forgotten. Numeric settings,
  paths and ports.
- **`MCP_AUTO_APPROVE` naming some high-risk tools only** (all or none in `Server`; `LiveGuard`
  has one tool on it and one not).
- **An answer lost between the body's return and the agent**, in `Server`: it would only show
  less.
- **The choice of fields and languages** in an answer, and the reading tools that shape one object
  or one listing: they change nothing and are not queued.
- **Totals of `sales_summary` narrowed to a date**: they count whole orders, of which pretix
  matched a part; the filter is pretix's. The note of a cut scan speaks of the most recently
  created orders, but the request asks for no ordering: `Reports` reads in either order.
- **`_maybe_list` and `_catalog` drop `truncated`**, so more products than the cap count as the
  cap, in the publish preview and in names; where a page is no object, those read so far.
  `Reports` has the former, at caps below the listing, and promises nothing about it.

## Plan

1. Done: the ceremony, client, scan, batch, guard and checks, checked; the ceremony proved.
2. Done: the reports made of a scan, the configuration, the masking and the server around the
   checks; the audit trail, the client, the gate and the checks proved.
3. Done: the burst, the scan, the reports, the batch, the server and the masking proved.
4. Left: two actions in one table under the sweep of `expire_stale` in a run of their own (the
   proofs cover any number).
