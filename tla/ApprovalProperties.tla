------------------------ MODULE ApprovalProperties ------------------------
(***************************************************************************)
(* What the approval ceremony of Approval keeps, why it keeps it (an       *)
(* inductive invariant, in parts), and what the documentation says that it *)
(* does not keep.                                                          *)
(***************************************************************************)
EXTENDS Approval

Busy(a) == \E p \in Procs : act[p] = a
Owns(p, a) == act[p] = a /\ pc[p] \in Owning

\* An approved action executes at most once (claim, ARCHITECTURE.md:38-40): whatever the
\* interleaving of calls, --run, retries, faults and restarts, pretix applies its change
\* at most once, and no two processes ever own it.
AtMostOnce == \A a \in Actions : /\ effects[a] <= 1
                                 /\ \A p, q \in Procs : Owns(p, a) /\ Owns(q, a) => p = q

\* Nothing reaches pretix without a decision of the CLI taken, by the clock decide() read,
\* before the action's deadline; and a row that still reads pending, approved or rejected
\* belongs to an action of which nothing was ever sent (decide, claim).
OnlyApprovedRuns ==
  \A a \in Actions : wire[a] # "none" =>
    /\ decidedAt[a] # None
    /\ decidedAt[a] < expires[a]
    /\ row[a] \notin {"absent", "pending", "approved", "rejected"}

\* A partial success is not flattened to "ok" (_execute, registry.py:263-265).  A row that
\* reads executed has a line that says how: the outcome "ok" never stands for a request that
\* pretix refused or left unanswered, only for one it applied or redirected; and what may
\* have been refused is told by the outcome of a tool that reports refusals.
Outcomes == {"executed", "partial_failure"}
ExecutedIsTrue ==
  \A a \in Actions :
    /\ row[a] = "executed" => audit[a] \cap Outcomes # {}
    /\ "executed" \in audit[a] => wire[a] \in {"applied", "redirected"}
    /\ "partial_failure" \in audit[a] => tool[a] \in Reporting

\* An approval met by a configuration that had withdrawn its tool is spent: the action is
\* never sent afterwards, even if the tool is enabled again (execute_approved, 187-196).
WithdrawnIsSpent ==
  \A a \in Actions : "tool_disabled" \in audit[a] => wire[a] = "none"

\* A process sends for a tool only if the configuration that very process loaded enables
\* it, whatever was in force when the action was proposed or approved.
OnlyEnabledRuns ==
  \A p \in Procs : pc[p] \in {"body", "await"} => tool[act[p]] \in conf[p]

\* Once no process works on an executed action, the audit file tells its whole story,
\* unless a fault cut one of the steps short: the three lines are written by three
\* processes, none in the transaction it reports.
AuditTrail ==
  \A a \in Actions : row[a] = "executed" /\ ~Busy(a) /\ ~faulted[a] =>
    {"proposed", "approved"} \subseteq audit[a] /\ audit[a] \cap Outcomes # {}

\* A change pretix applied is not silent: without a fault, and when no process works on
\* the action, there is a line for it, if only one that says the attempt failed.
NoSilentChange ==
  \A a \in Actions : effects[a] > 0 /\ ~Busy(a) /\ ~faulted[a] =>
    audit[a] \cap (Outcomes \cup {"failed"}) # {}

\* A row is left in "executing" with nobody to finish it only by a fault: execute_approved
\* calls finish() on every path an exception can take.
NoOrphan ==
  \A a \in Actions : row[a] = "executing" /\ ~faulted[a] => \E p \in Procs : Owns(p, a)

WrittenOnce ==
  \A a \in Actions : /\ decidedAt[a] # None => decidedAt'[a] = decidedAt[a]
                     /\ claimed[a] => claimed'[a] /\ tool'[a] = tool[a]
                     /\ {row[a], row'[a]} # {"approved", "rejected"}

\* Two decisions of one action cannot both win (decide, pending.py:120-121), nor two
\* claims: what the columns decided_at and executed_at say is said once, and no verdict is
\* turned into the other, even by a decision that reads the same clock.
DecidedOnce == [][WrittenOnce]_vars

\* An action that was claimed is finished, unless a fault interrupts it: every call ends in
\* finish(), since the body's request is answered or times out.
ClaimedIsFinished ==
  \A a \in Actions : (row[a] = "executing") ~> (row[a] \in {"executed", "failed"} \/ faulted[a])

\* The ceremony of ApprovalSpec, read off the columns of the row: the deadline or a
\* refusal may close an action, an expired row that was claimed counts as taken.
Stage(a) == IF claimed[a] THEN "taken"
            ELSE IF row[a] = "absent" THEN "none"
            ELSE IF row[a] = "pending" THEN "open"
            ELSE IF row[a] = "approved" THEN "granted"
            ELSE "closed"

Abstract == INSTANCE ApprovalSpec WITH stage <- [a \in Actions |-> Stage(a)],
                                       effects <- effects

\* The table, the processes and their faults implement the ceremony: no effect without a
\* grant, one taker, and nothing after a refusal.
RefinesCeremony == Abstract!Ceremony

-----------------------------------------------------------------------------
(* Why the safety properties hold: an inductive invariant, in parts.       *)

\* A process at work has an action, whose row exists; an idle one has none.
ActsBound ==
  \A p \in Procs : IF pc[p] = "idle" THEN act[p] = None
                   ELSE act[p] \in Actions /\ row[act[p]] # "absent"

\* decide() has read the clock.
NowRead == \A p \in Procs : pc[p] = "decide" => seen[p] # None

\* executed_at is set exactly from the claim on; a claimed row never reads as one that
\* could be decided or claimed again, even when _why_not overwrites it.
ClaimedRows ==
  \A a \in Actions :
    IF claimed[a] THEN row[a] \in {"executing", "expired", "executed", "failed"}
    ELSE row[a] \in {"absent", "pending", "approved", "rejected", "expired"}

\* An approved or claimed action was decided before its deadline; one that can still be
\* decided has not been.
DecidedRows ==
  \A a \in Actions :
    /\ claimed[a] \/ row[a] = "approved" =>
         decidedAt[a] # None /\ decidedAt[a] < expires[a]
    /\ row[a] \in {"absent", "pending"} => decidedAt[a] = None

\* The owner of an action is alone, and has claimed it.
AfterClaim == Owning \cup {"auditWithdrawn"}
OneOwner ==
  /\ \A p \in Procs : pc[p] \in AfterClaim => claimed[act[p]]
  /\ \A p, q \in Procs :
       pc[p] \in AfterClaim /\ pc[q] \in AfterClaim /\ act[p] = act[q] => p = q

\* Only a claimed action is on the wire, and not before its body sends it; pretix has
\* counted what it applied.
OneRequest ==
  /\ \A a \in Actions : /\ wire[a] # "none" => claimed[a]
                        /\ effects[a] = IF wire[a] = "applied" THEN 1 ELSE 0
  /\ \A p \in Procs : pc[p] \in {"gate", "withdrawn", "auditWithdrawn", "body"} =>
       wire[act[p]] = "none"

\* The lines are true, and one that tells of refusals is of a claimed action, whose tool is
\* settled.
OutcomesTrue == /\ ExecutedIsTrue
                /\ \A a \in Actions : "partial_failure" \in audit[a] => claimed[a]

\* On the way to "executed" the request is answered, or its failure caught, and then it is
\* on record.
TrueSuccess ==
  /\ \A p \in Procs :
       /\ pc[p] = "auditExecuted" => wire[act[p]] \in {"applied", "redirected"}
       /\ pc[p] = "auditPartial" => tool[act[p]] \in Reporting
       /\ pc[p] = "finishExecuted" => audit[act[p]] \cap Outcomes # {}
  /\ OutcomesTrue

\* A withdrawn action has been claimed, and nobody owns it any more.
SpentHasNoOwner ==
  \A a \in Actions : "tool_disabled" \in audit[a] =>
    claimed[a] /\ wire[a] = "none" /\ \A p \in Procs : ~Owns(p, a)

\* Behind the row of every action there is a line, or the process that is about to write it,
\* or a fault: for the proposal, for the approval, and for what became of the request.
Writing(a, steps) == \E p \in Procs : act[p] = a /\ pc[p] \in steps
Answering == {"await", "auditExecuted", "auditPartial", "auditFailed"}
ProposalOnRecord ==
  \A a \in Actions : row[a] # "absent" /\ ~faulted[a] =>
    "proposed" \in audit[a] \/ Writing(a, {"auditProposed"})
ApprovalOnRecord ==
  \A a \in Actions : (claimed[a] \/ row[a] = "approved") /\ ~faulted[a] =>
    "approved" \in audit[a] \/ Writing(a, {"auditApproved"})
OutcomeOnRecord ==
  \A a \in Actions : wire[a] # "none" /\ ~faulted[a] =>
    audit[a] \cap (Outcomes \cup {"failed"}) # {} \/ Writing(a, Answering)

IInv == /\ TypeOK
        /\ ActsBound
        /\ NowRead
        /\ ClaimedRows
        /\ DecidedRows
        /\ OneOwner
        /\ OneRequest
        /\ TrueSuccess
        /\ SpentHasNoOwner
        /\ OnlyEnabledRuns
        /\ NoOrphan
        /\ ProposalOnRecord
        /\ ApprovalOnRecord
        /\ OutcomeOnRecord

-----------------------------------------------------------------------------
(* What the documentation says, and the code does not keep.                *)

\* cli.py:114, after an approval: "the agent can now call execute_pending_action with this
\* id".  An approved row stays approved until it is claimed.
ApprovalStands ==
  [][\A a \in Actions : row[a] = "approved" => row'[a] \in {"approved", "executing"}]_vars

\* audit.py:3, "Every write and every high-risk lifecycle event lands here": once nobody works
\* on an action, a change pretix applied has a line that says how its execution ended.
EveryChangeAudited ==
  \A a \in Actions : effects[a] > 0 /\ ~Busy(a) =>
    audit[a] \cap (Outcomes \cup {"failed"}) # {}
=============================================================================
