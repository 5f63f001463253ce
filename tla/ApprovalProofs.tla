--------------------------- MODULE ApprovalProofs ---------------------------
(***************************************************************************)
(* What holds of the ceremony for every number of actions, tasks, CLI      *)
(* processes, tools and configurations, every TTL and clock, and under     *)
(* every fault.                                                            *)
(***************************************************************************)
EXTENDS ApprovalProperties, TLAPS

\* TypeOK by groups of variables, as the actions change them.
TableOK == /\ row \in [Actions -> RowStates]
           /\ expires \in [Actions -> Nat]
           /\ decidedAt \in [Actions -> Times \cup {None}]
           /\ claimed \in [Actions -> BOOLEAN]
           /\ tool \in [Actions -> HighRisk \cup {None}]
WorldOK == clock \in Times /\ cfg \in Configs
ProcsOK == /\ conf \in [Procs -> Configs \cup {None}]
           /\ running \in Tasks \cup {None}
           /\ pc \in [Procs -> Steps]
           /\ act \in [Procs -> Actions \cup {None}]
           /\ cmd \in [Procs -> Verdicts \cup {"propose", "execute", None}]
           /\ seen \in [Procs -> Times \cup {None}]
LogOK == audit \in [Actions -> SUBSET Events] /\ faulted \in [Actions -> BOOLEAN]
PretixOK == /\ wire \in [Actions -> {"none", "sent"} \cup Answers]
            /\ effects \in [Actions -> Nat]
Typed == TableOK /\ WorldOK /\ ProcsOK /\ LogOK /\ PretixOK

\* The groups together are the type invariant.
LEMMA TypedIsTypeOK == Typed <=> TypeOK
BY DEF Typed, TypeOK, TableOK, WorldOK, ProcsOK, LogOK, PretixOK

\* The steps are names of steps.
LEMMA Names ==
  /\ Owning \subseteq Steps
  /\ {"idle", "auditProposed", "decide", "auditApproved", "why", "expire", "claim",
      "auditWithdrawn", "gate", "withdrawn", "body", "await", "auditExecuted",
      "auditPartial", "auditFailed", "finishExecuted", "finishFailed"} \subseteq Steps
  /\ {"pending", "approved", "rejected", "expired", "executing", "executed", "failed"}
       \subseteq RowStates
BY DEF Owning, Steps, RowStates

\* A group of variables keeps its types when nothing in it changes.
LEMMA KeptTypes ==
  /\ TableOK /\ UNCHANGED table => TableOK'
  /\ WorldOK /\ UNCHANGED world => WorldOK'
  /\ ProcsOK /\ UNCHANGED procs => ProcsOK'
  /\ LogOK /\ UNCHANGED <<audit, faulted>> => LogOK'
  /\ PretixOK /\ UNCHANGED pretix => PretixOK'
BY DEF TableOK, WorldOK, ProcsOK, LogOK, PretixOK, table, world, procs, pretix

\* However a process moves, its registers keep their types.
LEMMA MoveTypes ==
  ASSUME ProcsOK, NEW p \in Procs, NEW l \in Steps
  PROVE  /\ Goto(p, l) => ProcsOK'
         /\ Await(p, l) => ProcsOK'
         /\ End(p) => ProcsOK'
<1>1. "idle" \in Steps
  BY Names
<1>2. Goto(p, l) => ProcsOK'
  BY DEF ProcsOK, Goto
<1>3. Await(p, l) => ProcsOK'
  BY DEF ProcsOK, Await
<1>4. End(p) => ProcsOK'
  BY <1>1 DEF ProcsOK, End
<1>5. QED
  BY <1>2, <1>3, <1>4

\* The same for a process that starts a call or a command.
LEMMA StartTypes ==
  ASSUME ProcsOK, NEW p \in Procs, NEW l \in Steps, NEW a \in Actions,
         NEW c \in Verdicts \cup {"propose", "execute"}, NEW n \in Times \cup {None},
         Start(p, l, a, c, n), conf' \in [Procs -> Configs \cup {None}]
  PROVE  ProcsOK'
<1>1. pc' \in [Procs -> Steps] /\ act' \in [Procs -> Actions \cup {None}]
  BY DEF ProcsOK, Start
<1>2. cmd' \in [Procs -> Verdicts \cup {"propose", "execute", None}]
  BY DEF ProcsOK, Start
<1>3. seen' \in [Procs -> Times \cup {None}]
  BY DEF ProcsOK, Start
<1>4. running' \in Tasks \cup {None}
  BY DEF ProcsOK, Start
<1>5. QED
  BY <1>1, <1>2, <1>3, <1>4 DEF ProcsOK

\* So do the row a transaction writes and the file a line goes to.
LEMMA WriteTypes ==
  ASSUME NEW a \in Actions \cup {None}
  PROVE  /\ TableOK /\ (\E s \in RowStates : SetRow(a, s)) => TableOK'
         /\ LogOK /\ (\E e \in Events : Written(a, e)) => LogOK'
         /\ LogOK /\ LineLost(a) => LogOK'
         /\ LogOK /\ UNCHANGED audit /\ Fault(a) => LogOK'
<1>1. TableOK /\ (\E s \in RowStates : SetRow(a, s)) => TableOK'
  BY DEF TableOK, SetRow
<1>2. LogOK /\ (\E e \in Events : Written(a, e)) => LogOK'
  BY DEF LogOK, Written
<1>3. LogOK /\ LineLost(a) => LogOK'
  BY DEF LogOK, LineLost, Fault
<1>4. LogOK /\ UNCHANGED audit /\ Fault(a) => LogOK'
  BY DEF LogOK, Fault
<1>5. QED
  BY <1>1, <1>2, <1>3, <1>4

\* Every action keeps every group: by the lemmas above where it only moves a process or
\* writes a line, directly where it writes a column, the clock or a request.
LEMMA TypeStep == Typed /\ [Next]_vars => Typed'
<1> SUFFICES ASSUME Typed, [Next]_vars PROVE Typed'
  OBVIOUS
<1>a. TableOK /\ WorldOK /\ ProcsOK /\ LogOK /\ PretixOK
  BY DEF Typed
<1>b. \A p \in Procs : act[p] \in Actions \cup {None}
  BY <1>a DEF ProcsOK
<1> USE <1>a, <1>b, Names, KeptTypes, MoveTypes, WriteTypes DEF Typed
<1>1. ASSUME NEW p \in Procs, AuditProposed(p) PROVE Typed'
  BY <1>1 DEF AuditProposed, Events
<1>2. ASSUME NEW p \in Procs, NEW a \in Actions, Call(p, a) PROVE Typed'
  <2>1. ProcsOK'
    BY <1>2, StartTypes DEF Call, ProcsOK
  <2>2. QED
    BY <1>2, <2>1 DEF Call
<1>3. ASSUME NEW p \in Procs, NEW a \in Actions, NEW c \in Verdicts, Command(p, a, c) PROVE Typed'
  <2>1. clock \in Times
    BY DEF WorldOK
  <2>2. conf' \in [Procs -> Configs \cup {None}]
    BY <1>3 DEF Command, ProcsOK, WorldOK
  <2>3. ProcsOK'
    BY <1>3, <2>1, <2>2, StartTypes DEF Command
  <2>4. QED
    BY <1>3, <2>3 DEF Command
<1>4. ASSUME NEW p \in Procs, DecideLoses(p) PROVE Typed'
  BY <1>4 DEF DecideLoses
<1>5. ASSUME NEW p \in Procs, AuditApproved(p) PROVE Typed'
  BY <1>5 DEF AuditApproved, Events
<1>6. ASSUME NEW p \in Procs, WhyNot(p) PROVE Typed'
  BY <1>6 DEF WhyNot
<1>7. ASSUME NEW p \in Procs, SetExpired(p) PROVE Typed'
  BY <1>7 DEF SetExpired
<1>8. ASSUME NEW p \in Procs, ClaimLoses(p) PROVE Typed'
  BY <1>8 DEF ClaimLoses
<1>9. ASSUME NEW p \in Procs, Gate(p) PROVE Typed'
  BY <1>9 DEF Gate
<1>10. ASSUME NEW p \in Procs, Withdrawn(p) PROVE Typed'
  BY <1>10 DEF Withdrawn
<1>11. ASSUME NEW p \in Procs, AuditWithdrawn(p) PROVE Typed'
  BY <1>11 DEF AuditWithdrawn, Events
<1>12. ASSUME NEW p \in Procs, BodyRefuses(p) PROVE Typed'
  BY <1>12 DEF BodyRefuses
<1>13. ASSUME NEW p \in Procs, AnswerOk(p) PROVE Typed'
  BY <1>13 DEF AnswerOk
<1>14. ASSUME NEW p \in Procs, AnswerError(p) \/ AnswerReported(p) PROVE Typed'
  BY <1>14 DEF AnswerError, AnswerReported
<1>15. ASSUME NEW p \in Procs, AuditExecuted(p) \/ AuditPartial(p) PROVE Typed'
  BY <1>15 DEF AuditExecuted, AuditPartial, AuditResult, Events
<1>16. ASSUME NEW p \in Procs, AuditFailed(p) PROVE Typed'
  BY <1>16 DEF AuditFailed, Events
<1>17. ASSUME NEW p \in Procs, FinishExecuted(p) PROVE Typed'
  BY <1>17 DEF FinishExecuted
<1>18. ASSUME NEW p \in Procs, FinishFailed(p) PROVE Typed'
  BY <1>18 DEF FinishFailed
<1>19. ASSUME NEW p \in Procs, DatabaseLocked(p) PROVE Typed'
  BY <1>19 DEF DatabaseLocked
<1>20. ASSUME NEW p \in Procs, Cancel(p) PROVE Typed'
  BY <1>20 DEF Cancel
<1>21. ASSUME NEW p \in Procs, Kill(p) PROVE Typed'
  BY <1>21 DEF Kill
<1>22. ASSUME NEW p \in Procs, NEW a \in Actions, NEW t \in HighRisk, Propose(p, a, t)
       PROVE  Typed'
  <2>1. clock + TTL \in Nat
    BY ConstantsAssumption DEF WorldOK, Times
  <2>2. TableOK'
    BY <1>22, <2>1 DEF Propose, TableOK
  <2>3. ProcsOK'
    BY <1>22, StartTypes DEF Propose, ProcsOK
  <2>4. QED
    BY <1>22, <2>2, <2>3 DEF Propose
<1>23. ASSUME NEW p \in Procs, DecideWins(p) PROVE Typed'
  <2>1. seen[p] \in Times \cup {None}
    BY DEF ProcsOK
  <2>2. TableOK'
    BY <1>23, <2>1 DEF DecideWins, TableOK
  <2>3. QED
    BY <1>23, <2>2 DEF DecideWins
<1>24. ASSUME NEW p \in Procs, ClaimWins(p) PROVE Typed'
  <2>1. TableOK'
    BY <1>24 DEF ClaimWins, TableOK
  <2>2. QED
    BY <1>24, <2>1 DEF ClaimWins
<1>25. ASSUME NEW p \in Procs, Send(p) PROVE Typed'
  <2>1. PretixOK'
    BY <1>25 DEF Send, PretixOK
  <2>2. QED
    BY <1>25, <2>1 DEF Send
<1>26. ASSUME NEW a \in Actions, PretixApplies(a) PROVE Typed'
  <2>1. PretixOK'
    BY <1>26 DEF PretixApplies, PretixOK, Answers
  <2>2. QED
    BY <1>26, <2>1 DEF PretixApplies
<1>27. ASSUME NEW a \in Actions, PretixRefuses(a) \/ PretixRedirects(a) PROVE Typed'
  <2>1. PretixOK'
    BY <1>27 DEF PretixRefuses, PretixRedirects, PretixDeclines, PretixOK, Answers
  <2>2. QED
    BY <1>27, <2>1 DEF PretixRefuses, PretixRedirects, PretixDeclines
<1>28. ASSUME ExpireStale PROVE Typed'
  <2>1. TableOK'
    BY <1>28 DEF ExpireStale, TableOK
  <2>2. QED
    BY <1>28, <2>1 DEF ExpireStale
<1>29. ASSUME Tick PROVE Typed'
  <2>1. WorldOK'
    BY <1>29, ConstantsAssumption DEF Tick, WorldOK, Times
  <2>2. QED
    BY <1>29, <2>1 DEF Tick
<1>30. ASSUME Reconfigure PROVE Typed'
  <2>1. WorldOK'
    BY <1>30 DEF Reconfigure, WorldOK
  <2>2. QED
    BY <1>30, <2>1 DEF Reconfigure
<1>31. ASSUME Restart PROVE Typed'
  <2>1. ProcsOK'
    BY <1>31 DEF Restart, ProcsOK, WorldOK
  <2>2. LogOK'
    BY <1>31 DEF Restart, LogOK
  <2>3. QED
    BY <1>31, <2>1, <2>2 DEF Restart
<1>32. CASE UNCHANGED vars
  BY <1>32 DEF vars
<1>33. QED
  BY <1>1, <1>2, <1>3, <1>4, <1>5, <1>6, <1>7, <1>8, <1>9, <1>10, <1>11, <1>12, <1>13,
     <1>14, <1>15, <1>16, <1>17, <1>18, <1>19, <1>20, <1>21, <1>22, <1>23, <1>24, <1>25,
     <1>26, <1>27, <1>28, <1>29, <1>30, <1>31, <1>32
  DEF Next, Begin, Step, Fail, Decide, Claim, Answer

\* The empty table, the idle processes and the empty log are well typed.
LEMMA TypeInit == Init => Typed
<1> SUFFICES ASSUME Init PROVE Typed
  OBVIOUS
<1>1. TableOK
  BY DEF Init, TableOK, RowStates
<1>2. WorldOK
  BY ConstantsAssumption DEF Init, WorldOK, Times
<1>3. ProcsOK
  BY DEF Init, ProcsOK, Steps
<1>4. LogOK /\ PretixOK
  BY DEF Init, LogOK, PretixOK
<1>5. QED
  BY <1>1, <1>2, <1>3, <1>4 DEF Typed

\* Every row, register, log and request stays within its type, for any number of actions,
\* processes and ticks.
THEOREM TypeCorrect == Spec => []TypeOK
<1>1. Init => TypeOK
  BY TypeInit, TypedIsTypeOK
<1>2. TypeOK /\ [Next]_vars => TypeOK'
  <2>1. TypeOK' <=> Typed'
    BY DEF Typed, TypeOK, TableOK, WorldOK, ProcsOK, LogOK, PretixOK
  <2>2. QED
    BY <2>1, TypedIsTypeOK, TypeStep
<1>3. QED
  BY <1>1, <1>2, PTL DEF Spec

-----------------------------------------------------------------------------
(* The inductive invariant.  Most actions move one process and write       *)
(* nothing but a line: PlainMove deals with them all.                      *)

Safe == /\ ActsBound
        /\ NowRead
        /\ ClaimedRows
        /\ DecidedRows
        /\ OneOwner
        /\ OneRequest
        /\ TrueSuccess
        /\ SpentHasNoOwner
        /\ OnlyEnabledRuns

\* Process p is now at step l, working on a; no other process moved.
Moved(p, l, a) ==
  /\ pc'[p] = l
  /\ act'[p] = a
  /\ \A q \in Procs : q # p => /\ pc'[q] = pc[q]
                              /\ act'[q] = act[q]
                              /\ conf'[q] = conf[q]
                              /\ seen'[q] = seen[q]

\* Goto, Await and End move exactly the process they name.
LEMMA Moves ==
  ASSUME ProcsOK, NEW p \in Procs, NEW l
  PROVE  /\ Goto(p, l) => Moved(p, l, act[p]) /\ conf'[p] = conf[p]
         /\ Await(p, l) => Moved(p, l, act[p]) /\ conf'[p] = conf[p]
         /\ End(p) => Moved(p, "idle", None)
<1>1. Goto(p, l) => Moved(p, l, act[p]) /\ conf'[p] = conf[p]
  BY DEF ProcsOK, Goto, Moved
<1>2. Await(p, l) => Moved(p, l, act[p]) /\ conf'[p] = conf[p]
  BY DEF ProcsOK, Await, Moved
<1>3. End(p) => Moved(p, "idle", None)
  BY DEF ProcsOK, End, Moved
<1>4. QED
  BY <1>1, <1>2, <1>3

\* Start moves exactly the process it names, and gives it the action.
LEMMA Starts ==
  ASSUME ProcsOK, NEW p \in Procs, NEW l, NEW a, NEW c, NEW n, Start(p, l, a, c, n),
         \A q \in Procs : q # p => conf'[q] = conf[q]
  PROVE  Moved(p, l, a) /\ seen'[p] = n
BY DEF ProcsOK, Start, Moved

BeforeSend == {"gate", "withdrawn", "auditWithdrawn", "body"}

\* p may go to l and work on a: it invents neither an action nor a claim.
Target(p, l, a) ==
  \/ l = "idle" /\ a = None
  \/ /\ l # "idle" /\ a \in Actions /\ row'[a] # "absent"
     /\ l \in AfterClaim => pc[p] \in Owning /\ a = act[p]
     /\ l \in BeforeSend => pc[p] \in BeforeSend

\* Rows do not vanish, claims are not taken back.
RowsStay == \A b \in Actions : /\ row[b] # "absent" => row'[b] # "absent" /\ tool'[b] = tool[b]
                               /\ claimed[b] => claimed'[b]

\* A step that gives a process an existing row, and makes none vanish, keeps ActsBound;
\* and NowRead, if it does not enter decide without a clock reading.
LEMMA KeepActs ==
  ASSUME Safe, NEW p \in Procs, NEW l, NEW a, Moved(p, l, a), RowsStay,
         \/ l = "idle" /\ a = None
         \/ l # "idle" /\ a \in Actions /\ row'[a] # "absent",
         l = "decide" => seen'[p] # None
  PROVE  ActsBound' /\ NowRead'
<1>1. ActsBound'
  BY DEF Safe, ActsBound, Moved, RowsStay
<1>2. NowRead'
  BY DEF Safe, NowRead, Moved
<1>3. QED
  BY <1>1, <1>2

\* A process that comes to own an action either owned it already or found it unclaimed:
\* in both cases it is alone.
LEMMA KeepOwner ==
  ASSUME Safe, NEW p \in Procs, NEW l, NEW a, Moved(p, l, a), RowsStay,
         l \in AfterClaim => /\ claimed'[a]
                             /\ (pc[p] \in AfterClaim /\ a = act[p]) \/ ~claimed[a]
  PROVE  OneOwner'
<1>1. \A q \in Procs : pc[q] \in AfterClaim => act[q] \in Actions
  BY DEF Safe, ActsBound, AfterClaim, Owning
<1>2. \A q \in Procs : pc'[q] \in AfterClaim => claimed'[act'[q]]
  BY <1>1 DEF Safe, OneOwner, Moved, RowsStay
<1>3. ASSUME NEW q \in Procs, NEW r \in Procs,
             pc'[q] \in AfterClaim, pc'[r] \in AfterClaim, act'[q] = act'[r]
      PROVE  q = r
  BY <1>3 DEF Safe, OneOwner, Moved
<1>4. QED
  BY <1>2, <1>3 DEF OneOwner, AfterClaim, Owning

\* A process enters the body only with a tool its own configuration enables, and no
\* other process's configuration or tool changes under it.
LEMMA KeepEnabled ==
  ASSUME Safe, NEW p \in Procs, NEW l, NEW a, Moved(p, l, a), RowsStay,
         l \in {"body", "await"} => tool'[a] \in conf'[p]
  PROVE  OnlyEnabledRuns'
<1>1. \A q \in Procs : pc[q] \in {"body", "await"} =>
        act[q] \in Actions /\ row[act[q]] # "absent"
  BY DEF Safe, ActsBound
<1>2. QED
  BY <1>1 DEF Safe, OnlyEnabledRuns, Moved, RowsStay

\* The file only grows, and by the one line.
NoNewRefusal == /\ \A b \in Actions : audit[b] \subseteq audit'[b]
                /\ \A b \in Actions : "tool_disabled" \in audit'[b] =>
                                       "tool_disabled" \in audit[b]
SameVerdicts == /\ NoNewRefusal
                /\ \A b \in Actions, e \in Outcomes : e \in audit'[b] => e \in audit[b]

\* Only tool_disabled is a refusal, only an outcome is an outcome; a lost line is neither.
LEMMA Lines ==
  ASSUME LogOK, NEW a \in Actions
  PROVE  /\ LineLost(a) \/ UNCHANGED audit => SameVerdicts
         /\ \A e \in {"proposed", "approved", "failed"} : Written(a, e) => SameVerdicts
         /\ \A e \in Outcomes : Written(a, e) =>
              /\ NoNewRefusal
              /\ e \in audit'[a]
              /\ \A b \in Actions, f \in Outcomes :
                   f \in audit'[b] => f \in audit[b] \/ (b = a /\ f = e)
<1>1. LineLost(a) \/ UNCHANGED audit => SameVerdicts
  BY DEF LineLost, NoNewRefusal, SameVerdicts
<1>2. ASSUME NEW e \in {"proposed", "approved", "failed"}, Written(a, e)
      PROVE  SameVerdicts
  BY <1>2 DEF LogOK, Written, NoNewRefusal, SameVerdicts, Outcomes
<1>3. ASSUME NEW e \in Outcomes, Written(a, e)
      PROVE  /\ NoNewRefusal
             /\ e \in audit'[a]
             /\ \A b \in Actions, f \in Outcomes :
                  f \in audit'[b] => f \in audit[b] \/ (b = a /\ f = e)
  BY <1>3 DEF LogOK, Written, NoNewRefusal, Outcomes
<1>4. QED
  BY <1>1, <1>2, <1>3

\* A step of one process that changes neither a claim nor a request, whatever it writes to
\* its row.
LEMMA TableMove ==
  ASSUME Typed, Safe, NEW p \in Procs, NEW l, NEW a, Moved(p, l, a), Target(p, l, a),
         UNCHANGED claimed, UNCHANGED pretix, RowsStay,
         ClaimedRows', DecidedRows', OutcomesTrue',
         l = "decide" => seen'[p] # None,
         l = "auditExecuted" => wire[a] \in {"applied", "redirected"},
         l = "auditPartial" => tool'[a] \in Reporting,
         l = "finishExecuted" => audit'[a] \cap Outcomes # {},
         l \in {"body", "await"} => tool'[a] \in conf'[p],
         NoNewRefusal
  PROVE  Safe'
<1> USE DEF NoNewRefusal
<1>1. UNCHANGED <<claimed, wire, effects>>
  BY DEF pretix
<1>2. RowsStay
  OBVIOUS
<1>3. ActsBound' /\ NowRead'
  <2>1. \/ l = "idle" /\ a = None
        \/ l # "idle" /\ a \in Actions /\ row'[a] # "absent"
    BY DEF Target
  <2>2. QED
    BY <1>2, <2>1, KeepActs
<1>4. ClaimedRows' /\ DecidedRows'
  OBVIOUS
<1>5. \A q \in Procs : pc[q] \in AfterClaim => act[q] \in Actions /\ claimed[act[q]]
  BY DEF Safe, ActsBound, OneOwner, AfterClaim, Owning
<1>6. "idle" \notin AfterClaim
  BY DEF AfterClaim, Owning
<1>7. OneOwner'
  <2>1. l \in AfterClaim => claimed'[a] /\ pc[p] \in AfterClaim /\ a = act[p]
    BY <1>1, <1>5, <1>6 DEF Target, AfterClaim
  <2>2. QED
    BY <1>2, <2>1, KeepOwner
<1>8. OneRequest'
  <2>1. \A q \in Procs : pc'[q] \in BeforeSend => wire'[act'[q]] = "none"
    BY <1>1, <1>6 DEF Safe, OneRequest, Moved, Target, BeforeSend, AfterClaim, Owning
  <2>2. QED
    BY <1>1, <2>1 DEF Safe, OneRequest, BeforeSend
<1>9. TrueSuccess'
  <2>1. \A q \in Procs : pc[q] \in {"auditExecuted", "auditPartial", "finishExecuted"} =>
          act[q] \in Actions /\ row[act[q]] # "absent"
    BY DEF Safe, ActsBound
  <2>2. \A q \in Procs : pc'[q] = "auditExecuted" =>
          wire'[act'[q]] \in {"applied", "redirected"}
    BY <1>1, <2>1 DEF Safe, TrueSuccess, Moved
  <2>3. \A q \in Procs : pc'[q] = "auditPartial" => tool'[act'[q]] \in Reporting
    BY <1>2, <2>1 DEF Safe, TrueSuccess, Moved, RowsStay
  <2>4. \A q \in Procs : pc'[q] = "finishExecuted" => audit'[act'[q]] \cap Outcomes # {}
    BY <2>1 DEF Safe, TrueSuccess, Moved
  <2>5. QED
    BY <2>2, <2>3, <2>4 DEF TrueSuccess
<1>10. SpentHasNoOwner'
  <2>1. ASSUME NEW b \in Actions, "tool_disabled" \in audit'[b], NEW q \in Procs, Owns(q, b)'
        PROVE  FALSE
    <3>1. ~Owns(q, b) /\ ~Owns(p, b) /\ "tool_disabled" \in audit[b]
      BY <2>1 DEF Safe, SpentHasNoOwner
    <3>2. q = p /\ l \in Owning /\ a = b
      BY <2>1, <3>1 DEF Moved, Owns
    <3>3. QED
      BY <3>1, <3>2, <1>6 DEF Target, Owns, AfterClaim, Owning
  <2>2. QED
    BY <1>1, <2>1 DEF Safe, SpentHasNoOwner
<1>11. OnlyEnabledRuns'
  BY <1>1, <1>2, KeepEnabled
<1>12. QED
  BY <1>3, <1>4, <1>7, <1>8, <1>9, <1>10, <1>11 DEF Safe

\* A step of one process that writes nothing but a line keeps the invariant.
LEMMA PlainMove ==
  ASSUME Typed, Safe, NEW p \in Procs, NEW l, NEW a, Moved(p, l, a), Target(p, l, a),
         UNCHANGED table, UNCHANGED pretix, SameVerdicts,
         l = "decide" => seen'[p] # None,
         l = "auditExecuted" => wire[a] \in {"applied", "redirected"},
         l = "auditPartial" => tool[a] \in Reporting,
         l = "finishExecuted" => audit[a] \cap Outcomes # {},
         l \in {"body", "await"} => tool[a] \in conf'[p]
  PROVE  Safe'
<1>1. UNCHANGED <<row, expires, decidedAt, claimed, tool, wire>>
  BY DEF table, pretix
<1>2. RowsStay
  BY <1>1 DEF RowsStay
<1>3. ClaimedRows' /\ DecidedRows'
  BY <1>1 DEF Safe, ClaimedRows, DecidedRows
<1>4. NoNewRefusal /\ OutcomesTrue'
  BY <1>1 DEF Safe, TrueSuccess, OutcomesTrue, ExecutedIsTrue, SameVerdicts, NoNewRefusal,
              Outcomes
<1>5. l = "finishExecuted" => audit'[a] \cap Outcomes # {}
  <2>1. l # "idle" => a \in Actions
    BY DEF Target
  <2>2. QED
    BY <1>4, <2>1 DEF NoNewRefusal
<1>6. QED
  BY <1>1, <1>2, <1>3, <1>4, <1>5, TableMove

\* Every action keeps the invariant.  Steps 1 to 16 are plain moves, 17 to 22 write one
\* row, 23 to 25 claim, refuse and send; the rest is the world outside.
LEMMA SafeStep == Typed /\ Safe /\ [Next]_vars => Safe'
<1> SUFFICES ASSUME Typed, Safe, [Next]_vars PROVE Safe'
  OBVIOUS
<1>a. TableOK /\ WorldOK /\ ProcsOK /\ LogOK /\ PretixOK
  BY DEF Typed
<1>b. \A p \in Procs : pc[p] # "idle" => act[p] \in Actions /\ row[act[p]] # "absent"
  BY DEF Safe, ActsBound
<1>c. \A p \in Procs : Target(p, "idle", None)
  BY DEF Target
<1>d. \A p \in Procs, l \in Steps :
        /\ UNCHANGED row
        /\ pc[p] # "idle" /\ l # "idle"
        /\ l \in AfterClaim => pc[p] \in Owning
        /\ l \in BeforeSend => pc[p] \in BeforeSend
        => Target(p, l, act[p])
  BY <1>b DEF Target
<1>1. ASSUME NEW p \in Procs, AuditProposed(p) PROVE Safe'
  <2>1. Moved(p, "idle", None) /\ UNCHANGED table /\ UNCHANGED pretix
    BY <1>1, <1>a, Moves DEF AuditProposed
  <2>2. SameVerdicts
    BY <1>1, <1>a, <1>b, Lines DEF AuditProposed, At, Events
  <2>3. QED
    BY <2>1, <2>2, <1>c, PlainMove
<1>2. ASSUME NEW p \in Procs, NEW a \in Actions, Call(p, a) PROVE Safe'
  <2>1. Moved(p, "claim", a) /\ UNCHANGED table /\ UNCHANGED pretix
    BY <1>2, <1>a, Starts DEF Call
  <2>2. Target(p, "claim", a)
    BY <1>2 DEF Call, Target, AfterClaim, Owning, BeforeSend, table
  <2>3. SameVerdicts
    BY <1>2, <1>a, Lines DEF Call
  <2>4. QED
    BY <2>1, <2>2, <2>3, PlainMove
<1>3. ASSUME NEW p \in Procs, NEW a \in Actions, NEW c \in Verdicts, Command(p, a, c) PROVE Safe'
  <2>1. \A q \in Procs : q # p => conf'[q] = conf[q]
    BY <1>3, <1>a DEF Command, ProcsOK
  <2>2. Moved(p, "decide", a) /\ seen'[p] = clock /\ UNCHANGED table /\ UNCHANGED pretix
    BY <1>3, <1>a, <2>1, Starts DEF Command
  <2>3. Target(p, "decide", a)
    BY <1>3 DEF Command, Target, AfterClaim, Owning, BeforeSend, table
  <2>4. clock # None
    BY <1>a, ConstantsAssumption DEF WorldOK, Times
  <2>5. SameVerdicts
    BY <1>3, <1>a, Lines DEF Command
  <2>6. QED
    BY <2>2, <2>3, <2>4, <2>5, PlainMove
<1>4. ASSUME NEW p \in Procs, DecideLoses(p) PROVE Safe'
  <2>1. Moved(p, "why", act[p]) /\ conf'[p] = conf[p] /\ UNCHANGED table /\ UNCHANGED pretix
    BY <1>4, <1>a, Moves DEF DecideLoses
  <2>2. Target(p, "why", act[p])
    BY <1>4, <1>d, Names DEF DecideLoses, At, AfterClaim, Owning, BeforeSend, table
  <2>3. SameVerdicts
    BY <1>4, <1>a, <1>b, Lines DEF DecideLoses, At, Events
  <2>4. QED
    BY <1>4, <2>1, <2>2, <2>3, PlainMove DEF DecideLoses
<1>5. ASSUME NEW p \in Procs, ClaimLoses(p) PROVE Safe'
  <2>1. Moved(p, "why", act[p]) /\ conf'[p] = conf[p] /\ UNCHANGED table /\ UNCHANGED pretix
    BY <1>5, <1>a, Moves DEF ClaimLoses
  <2>2. Target(p, "why", act[p])
    BY <1>5, <1>d, Names DEF ClaimLoses, At, AfterClaim, Owning, BeforeSend, table
  <2>3. SameVerdicts
    BY <1>5, <1>a, <1>b, Lines DEF ClaimLoses, At, Events
  <2>4. QED
    BY <1>5, <2>1, <2>2, <2>3, PlainMove DEF ClaimLoses
<1>6. ASSUME NEW p \in Procs, BodyRefuses(p) PROVE Safe'
  <2>1. Moved(p, "auditFailed", act[p]) /\ conf'[p] = conf[p] /\ UNCHANGED table /\ UNCHANGED pretix
    BY <1>6, <1>a, Moves DEF BodyRefuses
  <2>2. Target(p, "auditFailed", act[p])
    BY <1>6, <1>d, Names DEF BodyRefuses, At, AfterClaim, Owning, BeforeSend, table
  <2>3. SameVerdicts
    BY <1>6, <1>a, <1>b, Lines DEF BodyRefuses, At, Events
  <2>4. QED
    BY <1>6, <2>1, <2>2, <2>3, PlainMove DEF BodyRefuses
<1>7. ASSUME NEW p \in Procs, AnswerOk(p) PROVE Safe'
  <2>1. Moved(p, "auditExecuted", act[p]) /\ conf'[p] = conf[p] /\ UNCHANGED table /\ UNCHANGED pretix
    BY <1>7, <1>a, Moves DEF AnswerOk
  <2>2. Target(p, "auditExecuted", act[p])
    BY <1>7, <1>d, Names DEF AnswerOk, At, AfterClaim, Owning, BeforeSend, table
  <2>3. SameVerdicts
    BY <1>7, <1>a, <1>b, Lines DEF AnswerOk, At, Events
  <2>4. QED
    BY <1>7, <2>1, <2>2, <2>3, PlainMove DEF AnswerOk
<1>8. ASSUME NEW p \in Procs, AnswerError(p) PROVE Safe'
  <2>1. Moved(p, "auditFailed", act[p]) /\ conf'[p] = conf[p] /\ UNCHANGED table /\ UNCHANGED pretix
    BY <1>8, <1>a, Moves DEF AnswerError
  <2>2. Target(p, "auditFailed", act[p])
    BY <1>8, <1>d, Names DEF AnswerError, At, AfterClaim, Owning, BeforeSend, table
  <2>3. SameVerdicts
    BY <1>8, <1>a, <1>b, Lines DEF AnswerError, At, Events
  <2>4. QED
    BY <1>8, <2>1, <2>2, <2>3, PlainMove DEF AnswerError
<1>9. ASSUME NEW p \in Procs, AuditFailed(p) PROVE Safe'
  <2>1. Moved(p, "finishFailed", act[p]) /\ conf'[p] = conf[p] /\ UNCHANGED table /\ UNCHANGED pretix
    BY <1>9, <1>a, Moves DEF AuditFailed
  <2>2. Target(p, "finishFailed", act[p])
    BY <1>9, <1>d, Names DEF AuditFailed, At, AfterClaim, Owning, BeforeSend, table
  <2>3. SameVerdicts
    BY <1>9, <1>a, <1>b, Lines DEF AuditFailed, At, Events
  <2>4. QED
    BY <1>9, <2>1, <2>2, <2>3, PlainMove DEF AuditFailed
<1>10. ASSUME NEW p \in Procs, AuditApproved(p) PROVE Safe'
  <2>1. SameVerdicts /\ UNCHANGED table /\ UNCHANGED pretix
    BY <1>10, <1>a, <1>b, Lines DEF AuditApproved, At, Events
  <2>2. CASE Goto(p, "claim")
    <3>1. Moved(p, "claim", act[p]) /\ conf'[p] = conf[p]
      BY <1>10, <2>2, <1>a, Moves DEF AuditApproved
    <3>2. Target(p, "claim", act[p])
      BY <1>10, <2>1, <1>d, Names DEF AuditApproved, At, AfterClaim, Owning, BeforeSend, table
    <3>5. QED
      BY <2>1, <3>1, <3>2, PlainMove
  <2>3. CASE End(p)
    <3>1. Moved(p, "idle", None)
      BY <1>10, <2>3, <1>a, Moves DEF AuditApproved
    <3>2. QED
      BY <2>1, <3>1, <1>c, PlainMove
  <2>4. QED
    BY <1>10, <2>2, <2>3 DEF AuditApproved
<1>11. ASSUME NEW p \in Procs, WhyNot(p) PROVE Safe'
  <2>1. SameVerdicts /\ UNCHANGED table /\ UNCHANGED pretix
    BY <1>11, <1>a, <1>b, Lines DEF WhyNot, At, Events
  <2>2. CASE Expired(act[p])
    <3>1. Moved(p, "expire", act[p]) /\ conf'[p] = conf[p]
      BY <1>11, <2>2, <1>a, Moves DEF WhyNot
    <3>2. Target(p, "expire", act[p])
      BY <1>11, <2>1, <1>d, Names DEF WhyNot, At, AfterClaim, Owning, BeforeSend, table
    <3>5. QED
      BY <2>1, <3>1, <3>2, PlainMove
  <2>3. CASE ~Expired(act[p])
    <3>1. Moved(p, "idle", None)
      BY <1>11, <2>3, <1>a, Moves DEF WhyNot
    <3>2. QED
      BY <2>1, <3>1, <1>c, PlainMove
  <2>4. QED
    BY <1>11, <2>2, <2>3 DEF WhyNot
<1>12. ASSUME NEW p \in Procs, Gate(p) PROVE Safe'
  <2>1. SameVerdicts /\ UNCHANGED table /\ UNCHANGED pretix
    BY <1>12, <1>a, <1>b, Lines DEF Gate, At, Events
  <2>2. CASE tool[act[p]] \in conf[p]
    <3>1. Moved(p, "body", act[p]) /\ conf'[p] = conf[p]
      BY <1>12, <2>2, <1>a, Moves DEF Gate
    <3>2. Target(p, "body", act[p])
      BY <1>12, <2>1, <1>d, Names DEF Gate, At, AfterClaim, Owning, BeforeSend, table
    <3>3. tool[act[p]] \in conf'[p]
      BY <2>2, <3>1
    <3>5. QED
      BY <2>1, <3>1, <3>2, <3>3, PlainMove
  <2>3. CASE tool[act[p]] \notin conf[p]
    <3>1. Moved(p, "withdrawn", act[p]) /\ conf'[p] = conf[p]
      BY <1>12, <2>3, <1>a, Moves DEF Gate
    <3>2. Target(p, "withdrawn", act[p])
      BY <1>12, <2>1, <1>d, Names DEF Gate, At, AfterClaim, Owning, BeforeSend, table
    <3>5. QED
      BY <2>1, <3>1, <3>2, PlainMove
  <2>4. QED
    BY <1>12, <2>2, <2>3 DEF Gate
<1>13. ASSUME NEW p \in Procs, AuditExecuted(p) \/ AuditPartial(p) PROVE Safe'
  <2> DEFINE a == act[p]
  <2>1. PICK e \in Outcomes :
          /\ pc[p] = IF e = "executed" THEN "auditExecuted" ELSE "auditPartial"
          /\ \/ Written(a, e) /\ Goto(p, "finishExecuted")
             \/ LineLost(a) /\ Goto(p, "finishFailed")
          /\ UNCHANGED table /\ UNCHANGED pretix
    BY <1>13 DEF AuditExecuted, AuditPartial, AuditResult, At, Outcomes
  <2>2. a \in Actions /\ claimed[a]
    BY <1>b, <2>1 DEF Safe, OneOwner, AfterClaim, Owning, Outcomes
  <2>3. CASE Written(a, e) /\ Goto(p, "finishExecuted")
    <3>1. Moved(p, "finishExecuted", a) /\ conf'[p] = conf[p]
      BY <2>3, <1>a, Moves
    <3>2. Target(p, "finishExecuted", a)
      BY <2>1, <1>d, Names DEF AfterClaim, Owning, BeforeSend, table, Outcomes
    <3>3. /\ NoNewRefusal
          /\ audit'[a] \cap Outcomes # {}
          /\ \A b \in Actions, f \in Outcomes :
               f \in audit'[b] => f \in audit[b] \/ (b = a /\ f = e)
      BY <2>2, <2>3, <1>a, Lines
    <3>4. UNCHANGED <<row, expires, decidedAt, claimed, tool, wire>>
      BY <2>1 DEF table, pretix
    <3>5. RowsStay /\ ClaimedRows' /\ DecidedRows'
      BY <3>4 DEF Safe, RowsStay, ClaimedRows, DecidedRows
    <3>6. /\ e = "executed" => wire[a] \in {"applied", "redirected"}
          /\ e = "partial_failure" => tool[a] \in Reporting
      BY <2>1 DEF Safe, TrueSuccess
    <3>7. OutcomesTrue'
      BY <2>2, <3>3, <3>4, <3>6
      DEF Safe, TrueSuccess, OutcomesTrue, ExecutedIsTrue, NoNewRefusal, Outcomes
    <3>8. QED
      BY <2>1, <3>1, <3>2, <3>3, <3>4, <3>5, <3>7, TableMove
  <2>4. CASE LineLost(a) /\ Goto(p, "finishFailed")
    <3>1. Moved(p, "finishFailed", a) /\ conf'[p] = conf[p]
      BY <2>4, <1>a, Moves
    <3>2. Target(p, "finishFailed", a)
      BY <2>1, <1>d, Names DEF AfterClaim, Owning, BeforeSend, table, Outcomes
    <3>3. SameVerdicts
      BY <2>2, <2>4, <1>a, Lines
    <3>4. QED
      BY <2>1, <3>1, <3>2, <3>3, PlainMove
  <2>5. QED
    BY <2>1, <2>3, <2>4
<1>14. ASSUME NEW p \in Procs, DatabaseLocked(p) PROVE Safe'
  <2>1. Moved(p, "idle", None) /\ UNCHANGED table /\ UNCHANGED pretix
    BY <1>14, <1>a, Moves DEF DatabaseLocked
  <2>2. SameVerdicts
    BY <1>14 DEF DatabaseLocked, SameVerdicts, NoNewRefusal
  <2>3. QED
    BY <2>1, <2>2, <1>c, PlainMove
<1>15. ASSUME NEW p \in Procs, Cancel(p) PROVE Safe'
  <2>1. Moved(p, "idle", None) /\ UNCHANGED table /\ UNCHANGED pretix
    BY <1>15, <1>a, Moves DEF Cancel
  <2>2. SameVerdicts
    BY <1>15 DEF Cancel, SameVerdicts, NoNewRefusal
  <2>3. QED
    BY <2>1, <2>2, <1>c, PlainMove
<1>16. ASSUME NEW p \in Procs, Kill(p) PROVE Safe'
  <2>1. Moved(p, "idle", None) /\ UNCHANGED table /\ UNCHANGED pretix
    BY <1>16, <1>a, Moves DEF Kill
  <2>2. SameVerdicts
    BY <1>16 DEF Kill, SameVerdicts, NoNewRefusal
  <2>3. QED
    BY <2>1, <2>2, <1>c, PlainMove
<1>17. ASSUME NEW p \in Procs, NEW a \in Actions, NEW t \in HighRisk, Propose(p, a, t)
       PROVE  Safe'
  <2>1. Moved(p, "auditProposed", a) /\ UNCHANGED claimed /\ UNCHANGED pretix
    BY <1>17, <1>a, Starts DEF Propose
  <2>2. /\ row[a] = "absent" /\ row'[a] = "pending"
        /\ \A b \in Actions : b # a => /\ row'[b] = row[b] /\ tool'[b] = tool[b]
                                       /\ expires'[b] = expires[b]
    BY <1>17, <1>a DEF Propose, TableOK
  <2>3. UNCHANGED <<decidedAt, audit, wire>>
    BY <1>17 DEF Propose, pretix
  <2>4. Target(p, "auditProposed", a)
    BY <2>2 DEF Target, AfterClaim, Owning, BeforeSend
  <2>5. RowsStay
    BY <2>1, <2>2 DEF RowsStay
  <2>6. ClaimedRows' /\ DecidedRows' /\ OutcomesTrue'
    BY <2>1, <2>2, <2>3 DEF Safe, ClaimedRows, DecidedRows, TrueSuccess, OutcomesTrue, ExecutedIsTrue
  <2>7. NoNewRefusal
    BY <2>3 DEF NoNewRefusal
  <2>8. QED
    BY <2>1, <2>4, <2>5, <2>6, <2>7, TableMove
<1>18. ASSUME NEW p \in Procs, DecideWins(p) PROVE Safe'
  <2> DEFINE a == act[p]
             l == IF cmd[p] = "reject" THEN "idle" ELSE "auditApproved"
  <2>1. a \in Actions /\ seen[p] \in Times
    BY <1>18, <1>a, <1>b DEF DecideWins, At, ProcsOK, Safe, NowRead
  <2>2. Moved(p, l, IF l = "idle" THEN None ELSE a)
    BY <1>18, <1>a, Moves DEF DecideWins
  <2>3. /\ row[a] = "pending" /\ expires[a] > seen[p]
        /\ row'[a] \in {"approved", "rejected"} /\ decidedAt'[a] = seen[p]
        /\ \A b \in Actions : b # a => row'[b] = row[b] /\ decidedAt'[b] = decidedAt[b]
        /\ UNCHANGED <<expires, claimed, tool, audit, wire, pretix>>
    BY <1>18, <1>a, <2>1 DEF DecideWins, Decidable, TableOK, pretix
  <2>4. Target(p, l, IF l = "idle" THEN None ELSE a)
    BY <2>1, <2>3 DEF Target, AfterClaim, Owning, BeforeSend
  <2>5. RowsStay
    BY <2>3 DEF RowsStay
  <2>6. seen[p] # None /\ seen[p] < expires[a]
    BY <2>1, <2>3, <1>a, ConstantsAssumption DEF Times, TableOK
  <2>7. ClaimedRows' /\ DecidedRows' /\ OutcomesTrue'
    <3>1. ClaimedRows'
      BY <2>3 DEF Safe, ClaimedRows
    <3>2. DecidedRows'
      BY <2>3, <2>6 DEF Safe, ClaimedRows, DecidedRows
    <3>3. OutcomesTrue'
      BY <2>3 DEF Safe, TrueSuccess, OutcomesTrue, ExecutedIsTrue
    <3>4. QED
      BY <3>1, <3>2, <3>3
  <2>8. NoNewRefusal
    BY <2>3 DEF NoNewRefusal
  <2>9. l \notin {"decide", "auditExecuted", "auditPartial", "finishExecuted", "body", "await"}
    OBVIOUS
  <2> HIDE DEF l
  <2>10. QED
    BY <2>2, <2>3, <2>4, <2>5, <2>7, <2>8, <2>9, TableMove
<1>19. ASSUME NEW p \in Procs, SetExpired(p) PROVE Safe'
  <2>1. act[p] \in Actions /\ row[act[p]] # "absent"
    BY <1>19, <1>b DEF SetExpired, At, Safe
  <2>2. Moved(p, "idle", None)
    BY <1>19, <1>a, Moves DEF SetExpired
  <2>3. /\ row'[act[p]] = "expired"
        /\ \A b \in Actions : b # act[p] => row'[b] = row[b]
        /\ UNCHANGED <<expires, decidedAt, claimed, tool, audit, wire, pretix>>
    BY <1>19, <1>a, <2>1 DEF SetExpired, SetRow, TableOK, pretix
  <2>4. Target(p, "idle", None)
    BY <1>19, <2>1, <2>3 DEF SetExpired, At, Target, AfterClaim, Owning, BeforeSend
  <2>5. RowsStay
    BY <2>3 DEF RowsStay
  <2>6. ClaimedRows'
    BY <2>1, <2>3 DEF Safe, ClaimedRows
  <2>7. DecidedRows'
    BY <2>3 DEF Safe, DecidedRows
  <2>8. OutcomesTrue'
    BY <2>1, <2>3 DEF Safe, TrueSuccess, OutcomesTrue, ExecutedIsTrue
  <2>9. NoNewRefusal
    BY <2>3 DEF NoNewRefusal
  <2>10. QED
    BY <2>2, <2>3, <2>4, <2>5, <2>6, <2>7, <2>8, <2>9, TableMove
<1>20. ASSUME NEW p \in Procs, Withdrawn(p) PROVE Safe'
  <2>1. act[p] \in Actions /\ row[act[p]] # "absent" /\ claimed[act[p]]
    BY <1>20, <1>b DEF Withdrawn, At, Safe, OneOwner, AfterClaim, Owning
  <2>2. Moved(p, "auditWithdrawn", act[p])
    BY <1>20, <1>a, Moves DEF Withdrawn
  <2>3. /\ row'[act[p]] = "failed"
        /\ \A b \in Actions : b # act[p] => row'[b] = row[b]
        /\ UNCHANGED <<expires, decidedAt, claimed, tool, audit, wire, pretix>>
    BY <1>20, <1>a, <2>1 DEF Withdrawn, SetRow, TableOK, pretix
  <2>4. Target(p, "auditWithdrawn", act[p])
    BY <1>20, <2>1, <2>3 DEF Withdrawn, At, Target, AfterClaim, Owning, BeforeSend
  <2>5. RowsStay
    BY <2>3 DEF RowsStay
  <2>6. ClaimedRows'
    BY <2>1, <2>3 DEF Safe, ClaimedRows
  <2>7. DecidedRows'
    BY <2>3 DEF Safe, DecidedRows
  <2>8. OutcomesTrue'
    BY <2>1, <2>3 DEF Safe, TrueSuccess, OutcomesTrue, ExecutedIsTrue
  <2>9. NoNewRefusal
    BY <2>3 DEF NoNewRefusal
  <2>10. QED
    BY <2>2, <2>3, <2>4, <2>5, <2>6, <2>7, <2>8, <2>9, TableMove
<1>21. ASSUME NEW p \in Procs, FinishExecuted(p) PROVE Safe'
  <2>1. act[p] \in Actions /\ row[act[p]] # "absent" /\ claimed[act[p]]
       /\ audit[act[p]] \cap Outcomes # {}
    BY <1>21, <1>b DEF FinishExecuted, At, Safe, OneOwner, AfterClaim, Owning, TrueSuccess
  <2>2. Moved(p, "idle", None)
    BY <1>21, <1>a, Moves DEF FinishExecuted
  <2>3. /\ row'[act[p]] = "executed"
        /\ \A b \in Actions : b # act[p] => row'[b] = row[b]
        /\ UNCHANGED <<expires, decidedAt, claimed, tool, audit, wire, pretix>>
    BY <1>21, <1>a, <2>1 DEF FinishExecuted, SetRow, TableOK, pretix
  <2>4. Target(p, "idle", None)
    BY <1>21, <2>1, <2>3 DEF FinishExecuted, At, Target, AfterClaim, Owning, BeforeSend
  <2>5. RowsStay
    BY <2>3 DEF RowsStay
  <2>6. ClaimedRows'
    BY <2>1, <2>3 DEF Safe, ClaimedRows
  <2>7. DecidedRows'
    BY <2>3 DEF Safe, DecidedRows
  <2>8. OutcomesTrue'
    BY <2>1, <2>3 DEF Safe, TrueSuccess, OutcomesTrue, ExecutedIsTrue
  <2>9. NoNewRefusal
    BY <2>3 DEF NoNewRefusal
  <2>10. QED
    BY <2>2, <2>3, <2>4, <2>5, <2>6, <2>7, <2>8, <2>9, TableMove
<1>22. ASSUME NEW p \in Procs, FinishFailed(p) PROVE Safe'
  <2>1. act[p] \in Actions /\ row[act[p]] # "absent" /\ claimed[act[p]]
    BY <1>22, <1>b DEF FinishFailed, At, Safe, OneOwner, AfterClaim, Owning
  <2>2. Moved(p, "idle", None)
    BY <1>22, <1>a, Moves DEF FinishFailed
  <2>3. /\ row'[act[p]] = "failed"
        /\ \A b \in Actions : b # act[p] => row'[b] = row[b]
        /\ UNCHANGED <<expires, decidedAt, claimed, tool, audit, wire, pretix>>
    BY <1>22, <1>a, <2>1 DEF FinishFailed, SetRow, TableOK, pretix
  <2>4. Target(p, "idle", None)
    BY <1>22, <2>1, <2>3 DEF FinishFailed, At, Target, AfterClaim, Owning, BeforeSend
  <2>5. RowsStay
    BY <2>3 DEF RowsStay
  <2>6. ClaimedRows'
    BY <2>1, <2>3 DEF Safe, ClaimedRows
  <2>7. DecidedRows'
    BY <2>3 DEF Safe, DecidedRows
  <2>8. OutcomesTrue'
    BY <2>1, <2>3 DEF Safe, TrueSuccess, OutcomesTrue, ExecutedIsTrue
  <2>9. NoNewRefusal
    BY <2>3 DEF NoNewRefusal
  <2>10. QED
    BY <2>2, <2>3, <2>4, <2>5, <2>6, <2>7, <2>8, <2>9, TableMove
<1>23. ASSUME NEW p \in Procs, ClaimWins(p) PROVE Safe'
  <2> DEFINE a == act[p]
  <2>1. a \in Actions /\ row[a] = "approved" /\ ~claimed[a]
    BY <1>23, <1>b DEF ClaimWins, Claimable, At, Safe, ClaimedRows
  <2>2. Moved(p, "gate", a) /\ conf'[p] = conf[p]
    BY <1>23, <1>a, Moves DEF ClaimWins
  <2>3. /\ row'[a] = "executing" /\ claimed'[a]
        /\ \A b \in Actions : b # a => row'[b] = row[b] /\ claimed'[b] = claimed[b]
        /\ UNCHANGED <<expires, decidedAt, tool, audit, wire, effects>>
    BY <1>23, <1>a, <2>1 DEF ClaimWins, TableOK, pretix
  <2>4. RowsStay
    BY <2>1, <2>3 DEF RowsStay
  <2>5. \A q \in Procs : pc[q] \in AfterClaim => act[q] # a /\ act[q] \in Actions
    BY <2>1, <1>b DEF Safe, OneOwner, AfterClaim, Owning
  <2>6. wire[a] = "none" /\ "tool_disabled" \notin audit[a]
    BY <2>1 DEF Safe, OneRequest, SpentHasNoOwner
  <2>7. ActsBound' /\ NowRead'
    BY <2>1, <2>2, <2>3, <2>4, KeepActs
  <2>8. ClaimedRows'
    BY <2>1, <2>3 DEF Safe, ClaimedRows
  <2>9. DecidedRows'
    BY <2>1, <2>3 DEF Safe, DecidedRows
  <2>10. OneOwner'
    BY <2>1, <2>2, <2>3, <2>4, KeepOwner
  <2>11. OneRequest'
    <3>1. \A b \in Actions : /\ wire'[b] # "none" => claimed'[b]
                             /\ effects'[b] = IF wire'[b] = "applied" THEN 1 ELSE 0
      BY <2>3 DEF Safe, OneRequest
    <3>2. \A q \in Procs : pc'[q] \in {"gate", "withdrawn", "auditWithdrawn", "body"} =>
            wire'[act'[q]] = "none"
      BY <2>2, <2>3, <2>6 DEF Safe, OneRequest, Moved
    <3>3. QED
      BY <3>1, <3>2 DEF OneRequest
  <2>12. TrueSuccess'
    <3>1. OutcomesTrue'
      BY <2>3 DEF Safe, TrueSuccess, OutcomesTrue, ExecutedIsTrue
    <3>2. \A q \in Procs : /\ pc'[q] = "auditExecuted" =>
                                wire'[act'[q]] \in {"applied", "redirected"}
                           /\ pc'[q] = "auditPartial" => tool'[act'[q]] \in Reporting
                           /\ pc'[q] = "finishExecuted" => audit'[act'[q]] \cap Outcomes # {}
      BY <2>2, <2>3 DEF Safe, TrueSuccess, Moved
    <3>3. QED
      BY <3>1, <3>2 DEF TrueSuccess
  <2>13. SpentHasNoOwner'
    BY <2>2, <2>3, <2>6 DEF Safe, SpentHasNoOwner, Moved, Owns
  <2>14. OnlyEnabledRuns'
    BY <2>2, <2>4, KeepEnabled
  <2>15. QED
    BY <2>7, <2>8, <2>9, <2>10, <2>11, <2>12, <2>13, <2>14 DEF Safe
<1>24. ASSUME NEW p \in Procs, AuditWithdrawn(p) PROVE Safe'
  <2> DEFINE a == act[p]
  <2>1. a \in Actions /\ pc[p] = "auditWithdrawn" /\ claimed[a] /\ wire[a] = "none"
    BY <1>24, <1>b DEF AuditWithdrawn, At, Safe, OneOwner, OneRequest, AfterClaim
  <2>2. Moved(p, "idle", None)
    BY <1>24, <1>a, Moves DEF AuditWithdrawn
  <2>3. UNCHANGED <<row, expires, decidedAt, claimed, tool, wire, effects>>
    BY <1>24 DEF AuditWithdrawn, table, pretix
  <2>4. \A b \in Actions : /\ audit[b] \subseteq audit'[b]
                           /\ b # a => audit'[b] = audit[b]
                           /\ audit'[b] \subseteq audit[b] \cup {"tool_disabled"}
    BY <1>24, <1>a DEF AuditWithdrawn, Written, LineLost, LogOK
  <2>5. RowsStay
    BY <2>3 DEF RowsStay
  <2>6. ActsBound' /\ NowRead'
    BY <2>2, <2>5, KeepActs
  <2>7. ClaimedRows' /\ DecidedRows'
    BY <2>3 DEF Safe, ClaimedRows, DecidedRows
  <2>8. OneOwner'
    BY <2>2, <2>5, KeepOwner DEF AfterClaim, Owning
  <2>9. OneRequest'
    BY <2>2, <2>3 DEF Safe, OneRequest, Moved
  <2>10. TrueSuccess'
    <3>1. OutcomesTrue'
      BY <2>3, <2>4 DEF Safe, TrueSuccess, OutcomesTrue, ExecutedIsTrue
    <3>2. \A q \in Procs : pc'[q] \in {"auditExecuted", "auditPartial", "finishExecuted"} =>
            q # p /\ act'[q] \in Actions
      BY <2>2, <1>b DEF Moved
    <3>3. QED
      BY <2>2, <2>3, <2>4, <3>1, <3>2 DEF Safe, TrueSuccess, Moved
  <2>11. SpentHasNoOwner'
    <3>1. \A q \in Procs : Owns(q, a) => q = p
      BY <2>1 DEF Safe, OneOwner, Owns, AfterClaim
    <3>2. ASSUME NEW b \in Actions, NEW q \in Procs, Owns(q, b)'
          PROVE  Owns(q, b) /\ b # a
      <4>1. q # p /\ Owns(q, b)
        BY <3>2, <2>2 DEF Moved, Owns, Owning
      <4>2. QED
        BY <3>1, <4>1
    <3>3. \A b \in Actions : "tool_disabled" \in audit'[b] =>
                               b = a \/ "tool_disabled" \in audit[b]
      BY <2>4
    <3>4. QED
      BY <2>1, <2>3, <3>2, <3>3 DEF Safe, SpentHasNoOwner
  <2>12. OnlyEnabledRuns'
    BY <2>2, <2>5, KeepEnabled
  <2>13. QED
    BY <2>6, <2>7, <2>8, <2>9, <2>10, <2>11, <2>12 DEF Safe
<1>25. ASSUME NEW p \in Procs, Send(p) PROVE Safe'
  <2> DEFINE a == act[p]
  <2>1. a \in Actions /\ pc[p] = "body" /\ claimed[a] /\ wire[a] = "none"
    BY <1>25, <1>b DEF Send, At, Safe, OneOwner, OneRequest, AfterClaim, Owning
  <2>2. Moved(p, "await", a) /\ conf'[p] = conf[p]
    BY <1>25, <1>a, Moves DEF Send
  <2>3. /\ wire'[a] = "sent"
        /\ \A b \in Actions : b # a => wire'[b] = wire[b]
        /\ UNCHANGED <<row, expires, decidedAt, claimed, tool, effects, audit>>
    BY <1>25, <1>a, <2>1 DEF Send, PretixOK, Answers, table
  <2>4. RowsStay
    BY <2>3 DEF RowsStay
  <2>5. \A q \in Procs : pc[q] \in AfterClaim /\ q # p => act[q] # a /\ act[q] \in Actions
    BY <2>1, <1>b DEF Safe, OneOwner, AfterClaim, Owning
  <2>6. ActsBound' /\ NowRead'
    BY <1>b, <2>1, <2>2, <2>3, <2>4, KeepActs
  <2>7. ClaimedRows' /\ DecidedRows'
    BY <2>3 DEF Safe, ClaimedRows, DecidedRows
  <2>8. OneOwner'
    BY <2>1, <2>2, <2>3, <2>4, KeepOwner DEF AfterClaim, Owning
  <2>9. OneRequest'
    <3>1. effects[a] = 0
      BY <2>1 DEF Safe, OneRequest
    <3>2. \A b \in Actions : /\ wire'[b] # "none" => claimed'[b]
                             /\ effects'[b] = IF wire'[b] = "applied" THEN 1 ELSE 0
      BY <2>1, <2>3, <3>1 DEF Safe, OneRequest
    <3>3. \A q \in Procs : pc'[q] \in {"gate", "withdrawn", "auditWithdrawn", "body"} =>
            wire'[act'[q]] = "none"
      BY <2>2, <2>3, <2>5 DEF Safe, OneRequest, Moved, AfterClaim, Owning
    <3>4. QED
      BY <3>2, <3>3 DEF OneRequest
  <2>10. TrueSuccess'
    <3>1. OutcomesTrue'
      BY <2>1, <2>3 DEF Safe, TrueSuccess, OutcomesTrue, ExecutedIsTrue
    <3>2. \A q \in Procs : /\ pc'[q] = "auditExecuted" =>
                                wire'[act'[q]] \in {"applied", "redirected"}
                           /\ pc'[q] = "auditPartial" => tool'[act'[q]] \in Reporting
                           /\ pc'[q] = "finishExecuted" => audit'[act'[q]] \cap Outcomes # {}
      BY <2>2, <2>3, <2>5 DEF Safe, TrueSuccess, Moved, AfterClaim, Owning
    <3>3. QED
      BY <3>1, <3>2 DEF TrueSuccess
  <2>11. SpentHasNoOwner'
    <3>1. \A b \in Actions, q \in Procs : Owns(q, b)' => Owns(q, b)
      BY <2>1, <2>2 DEF Moved, Owns, Owning
    <3>2. "tool_disabled" \notin audit[a]
      BY <2>1 DEF Safe, SpentHasNoOwner, Owns, Owning
    <3>3. QED
      BY <2>3, <3>1, <3>2 DEF Safe, SpentHasNoOwner
  <2>12. OnlyEnabledRuns'
    BY <2>1, <2>2, <2>3, <2>4, KeepEnabled DEF Safe, OnlyEnabledRuns
  <2>13. QED
    BY <2>6, <2>7, <2>8, <2>9, <2>10, <2>11, <2>12 DEF Safe
<1>26. ASSUME NEW a \in Actions, PretixApplies(a) PROVE Safe'
  <2>1. /\ wire[a] = "sent" /\ wire'[a] = "applied" /\ effects'[a] = effects[a] + 1
        /\ \A b \in Actions : b # a => wire'[b] = wire[b] /\ effects'[b] = effects[b]
        /\ UNCHANGED <<row, expires, decidedAt, claimed, tool, conf, pc, act, seen, audit>>
    BY <1>26, <1>a DEF PretixApplies, PretixOK, Answers, table, procs
  <2>2. effects[a] = 0 /\ claimed[a] /\ "tool_disabled" \notin audit[a]
    BY <2>1 DEF Safe, OneRequest, SpentHasNoOwner
  <2>3. ActsBound' /\ NowRead' /\ ClaimedRows' /\ DecidedRows' /\ OnlyEnabledRuns'
    BY <2>1 DEF Safe, ActsBound, NowRead, ClaimedRows, DecidedRows, OnlyEnabledRuns
  <2>4. OneOwner'
    BY <2>1 DEF Safe, OneOwner, AfterClaim, Owning
  <2>5. OneRequest'
    <3>1. \A b \in Actions : /\ wire'[b] # "none" => claimed'[b]
                             /\ effects'[b] = IF wire'[b] = "applied" THEN 1 ELSE 0
      BY <2>1, <2>2 DEF Safe, OneRequest
    <3>2. \A q \in Procs : pc'[q] \in {"gate", "withdrawn", "auditWithdrawn", "body"} =>
            wire'[act'[q]] = "none"
      BY <1>b, <2>1 DEF Safe, OneRequest
    <3>3. QED
      BY <3>1, <3>2 DEF OneRequest
  <2>6. TrueSuccess'
    <3>1. \A b \in Actions : wire[b] \in {"applied", "redirected"} => wire'[b] = wire[b]
      BY <2>1
    <3>2. \A q \in Procs :
            pc[q] \in {"auditExecuted", "auditPartial", "finishExecuted"} => act[q] \in Actions
      BY <1>b
    <3>3. QED
      BY <2>1, <3>1, <3>2 DEF Safe, TrueSuccess, OutcomesTrue, ExecutedIsTrue
  <2>7. SpentHasNoOwner'
    BY <2>1, <2>2 DEF Safe, SpentHasNoOwner, Owns
  <2>8. QED
    BY <2>3, <2>4, <2>5, <2>6, <2>7 DEF Safe
<1>27. ASSUME NEW a \in Actions, PretixRefuses(a) \/ PretixRedirects(a) PROVE Safe'
  <2>1. /\ wire[a] = "sent" /\ wire'[a] \in {"refused", "redirected"}
        /\ \A b \in Actions : b # a => wire'[b] = wire[b]
        /\ UNCHANGED <<row, expires, decidedAt, claimed, tool, conf, pc, act, seen, audit,
                       effects>>
    BY <1>27, <1>a
    DEF PretixRefuses, PretixRedirects, PretixDeclines, PretixOK, Answers, table, procs
  <2>2. effects[a] = 0 /\ claimed[a] /\ "tool_disabled" \notin audit[a]
    BY <2>1 DEF Safe, OneRequest, SpentHasNoOwner
  <2>3. ActsBound' /\ NowRead' /\ ClaimedRows' /\ DecidedRows' /\ OnlyEnabledRuns'
    BY <2>1 DEF Safe, ActsBound, NowRead, ClaimedRows, DecidedRows, OnlyEnabledRuns
  <2>4. OneOwner'
    BY <2>1 DEF Safe, OneOwner, AfterClaim, Owning
  <2>5. OneRequest'
    <3>1. \A b \in Actions : /\ wire'[b] # "none" => claimed'[b]
                             /\ effects'[b] = IF wire'[b] = "applied" THEN 1 ELSE 0
      BY <2>1, <2>2 DEF Safe, OneRequest
    <3>2. \A q \in Procs : pc'[q] \in {"gate", "withdrawn", "auditWithdrawn", "body"} =>
            wire'[act'[q]] = "none"
      BY <1>b, <2>1 DEF Safe, OneRequest
    <3>3. QED
      BY <3>1, <3>2 DEF OneRequest
  <2>6. TrueSuccess'
    <3>1. \A b \in Actions : wire[b] \in {"applied", "redirected"} => wire'[b] = wire[b]
      BY <2>1
    <3>2. \A q \in Procs :
            pc[q] \in {"auditExecuted", "auditPartial", "finishExecuted"} => act[q] \in Actions
      BY <1>b
    <3>3. QED
      BY <2>1, <3>1, <3>2 DEF Safe, TrueSuccess, OutcomesTrue, ExecutedIsTrue
  <2>7. SpentHasNoOwner'
    BY <2>1, <2>2 DEF Safe, SpentHasNoOwner, Owns
  <2>8. QED
    BY <2>3, <2>4, <2>5, <2>6, <2>7 DEF Safe
<1>28. ASSUME ExpireStale PROVE Safe'
  <2>1. \A b \in Actions : row'[b] = IF Expired(b) THEN "expired" ELSE row[b]
    BY <1>28 DEF ExpireStale
  <2>2. UNCHANGED <<expires, decidedAt, claimed, tool, conf, pc, act, seen, audit, wire,
                    effects>>
    BY <1>28 DEF ExpireStale, procs, pretix
  <2>3. \A b \in Actions : row'[b] # row[b] => row[b] = "pending" /\ row'[b] = "expired"
    BY <2>1 DEF Expired
  <2>4. ActsBound' /\ NowRead' /\ OnlyEnabledRuns'
    BY <2>2, <2>3 DEF Safe, ActsBound, NowRead, OnlyEnabledRuns
  <2>5. ClaimedRows' /\ DecidedRows'
    BY <2>2, <2>3 DEF Safe, ClaimedRows, DecidedRows
  <2>6. OneOwner' /\ OneRequest'
    BY <2>2 DEF Safe, OneOwner, OneRequest, AfterClaim, Owning
  <2>7. TrueSuccess'
    BY <2>2, <2>3 DEF Safe, TrueSuccess, OutcomesTrue, ExecutedIsTrue
  <2>8. SpentHasNoOwner'
    BY <2>2 DEF Safe, SpentHasNoOwner, Owns
  <2>9. QED
    BY <2>4, <2>5, <2>6, <2>7, <2>8 DEF Safe
<1>29. ASSUME Restart PROVE Safe'
  <2>1. UNCHANGED <<row, expires, decidedAt, claimed, tool, audit, wire, effects>>
    BY <1>29 DEF Restart, table, pretix
  <2>2. \A q \in Procs : \/ pc'[q] = "idle" /\ act'[q] = None
                         \/ /\ pc'[q] = pc[q] /\ act'[q] = act[q]
                            /\ conf'[q] = conf[q] /\ seen'[q] = seen[q]
    BY <1>29 DEF Restart
  <2>3. ActsBound' /\ NowRead'
    BY <2>1, <2>2 DEF Safe, ActsBound, NowRead
  <2>4. ClaimedRows' /\ DecidedRows'
    BY <2>1 DEF Safe, ClaimedRows, DecidedRows
  <2>5. OneOwner'
    BY <2>1, <2>2 DEF Safe, OneOwner, AfterClaim, Owning
  <2>6. OneRequest'
    BY <2>1, <2>2 DEF Safe, OneRequest
  <2>7. TrueSuccess'
    BY <2>1, <2>2 DEF Safe, TrueSuccess, OutcomesTrue, ExecutedIsTrue
  <2>8. SpentHasNoOwner'
    BY <2>1, <2>2 DEF Safe, SpentHasNoOwner, Owns, Owning
  <2>9. OnlyEnabledRuns'
    BY <2>1, <2>2 DEF Safe, OnlyEnabledRuns
  <2>10. QED
    BY <2>3, <2>4, <2>5, <2>6, <2>7, <2>8, <2>9 DEF Safe
<1>30. CASE Tick \/ Reconfigure \/ UNCHANGED vars
  <2>1. UNCHANGED <<row, expires, decidedAt, claimed, tool, conf, pc, act, seen, audit, wire,
                    effects>>
    BY <1>30 DEF Tick, Reconfigure, vars, table, procs, pretix
  <2>2. ActsBound' /\ NowRead' /\ ClaimedRows' /\ DecidedRows' /\ OnlyEnabledRuns'
    BY <2>1 DEF Safe, ActsBound, NowRead, ClaimedRows, DecidedRows, OnlyEnabledRuns
  <2>3. OneOwner' /\ OneRequest'
    BY <2>1 DEF Safe, OneOwner, OneRequest, AfterClaim, Owning
  <2>4. TrueSuccess' /\ SpentHasNoOwner'
    BY <2>1 DEF Safe, TrueSuccess, OutcomesTrue, ExecutedIsTrue, SpentHasNoOwner, Owns
  <2>5. QED
    BY <2>2, <2>3, <2>4 DEF Safe
<1>31. ASSUME NEW p \in Procs, AnswerReported(p) PROVE Safe'
  <2>1. Moved(p, "auditPartial", act[p]) /\ conf'[p] = conf[p] /\ UNCHANGED table /\ UNCHANGED pretix
    BY <1>31, <1>a, Moves DEF AnswerReported
  <2>2. Target(p, "auditPartial", act[p])
    BY <1>31, <1>d, Names DEF AnswerReported, At, AfterClaim, Owning, BeforeSend, table
  <2>3. SameVerdicts
    BY <1>31, <1>a, <1>b, Lines DEF AnswerReported, At
  <2>4. QED
    BY <1>31, <2>1, <2>2, <2>3, PlainMove DEF AnswerReported
<1>32. QED
  BY <1>1, <1>2, <1>3, <1>4, <1>5, <1>6, <1>7, <1>8, <1>9, <1>10, <1>11, <1>12, <1>13,
     <1>14, <1>15, <1>16, <1>17, <1>18, <1>19, <1>20, <1>21, <1>22, <1>23, <1>24, <1>25,
     <1>26, <1>27, <1>28, <1>29, <1>30, <1>31
  DEF Next, Begin, Step, Fail, Decide, Claim, Answer

\* Nothing is proposed, owned or sent at first.
LEMMA SafeInit == Init => Safe
<1> SUFFICES ASSUME Init PROVE Safe
  OBVIOUS
<1>1. ActsBound /\ NowRead /\ OnlyEnabledRuns
  BY DEF Init, ActsBound, NowRead, OnlyEnabledRuns
<1>2. ClaimedRows /\ DecidedRows
  BY DEF Init, ClaimedRows, DecidedRows
<1>3. OneOwner /\ OneRequest
  BY DEF Init, OneOwner, OneRequest, AfterClaim, Owning
<1>4. TrueSuccess /\ SpentHasNoOwner
  BY DEF Init, TrueSuccess, OutcomesTrue, ExecutedIsTrue, SpentHasNoOwner, Outcomes
<1>5. QED
  BY <1>1, <1>2, <1>3, <1>4 DEF Safe

-----------------------------------------------------------------------------

\* Types and invariant together are inductive, so they hold in every reachable state.
LEMMA Inductive == Spec => [](Typed /\ Safe)
<1>1. Init => Typed /\ Safe
  BY TypeInit, SafeInit
<1>2. Typed /\ Safe /\ [Next]_vars => (Typed /\ Safe)'
  BY TypeStep, SafeStep
<1>3. QED
  BY <1>1, <1>2, PTL DEF Spec

\* At most one process owns an action, and pretix applies it at most once, whatever the
\* calls, --run commands, faults and restarts (claim).
THEOREM AtMostOnceHolds == Spec => []AtMostOnce
<1>1. Typed /\ Safe => AtMostOnce
  <2> SUFFICES ASSUME Safe, NEW a \in Actions
               PROVE  /\ effects[a] <= 1
                      /\ \A p, q \in Procs : Owns(p, a) /\ Owns(q, a) => p = q
    BY DEF AtMostOnce
  <2>1. effects[a] = 0 \/ effects[a] = 1
    BY DEF Safe, OneRequest
  <2>2. \A p, q \in Procs : Owns(p, a) /\ Owns(q, a) => p = q
    BY DEF Safe, OneOwner, Owns, AfterClaim
  <2>3. QED
    BY <2>1, <2>2
<1>2. QED
  BY <1>1, Inductive, PTL

\* Nothing is sent for an action that no CLI process decided before its deadline (decide),
\* nor for one that still reads pending, approved or rejected.
THEOREM OnlyApprovedRunsHolds == Spec => []OnlyApprovedRuns
<1>1. Typed /\ Safe => OnlyApprovedRuns
  BY DEF Safe, OneRequest, ClaimedRows, DecidedRows, OnlyApprovedRuns
<1>2. QED
  BY <1>1, Inductive, PTL

\* A row that reads "executed" has a line that says how: the outcome "ok" stands only for a
\* request that pretix applied or redirected, and a refusal is told by a tool that reports it
\* (_execute, finish, create_subevents).
THEOREM ExecutedIsTrueHolds == Spec => []ExecutedIsTrue
<1>1. Typed /\ Safe => ExecutedIsTrue
  BY DEF Safe, TrueSuccess, OutcomesTrue
<1>2. QED
  BY <1>1, Inductive, PTL

\* An approval refused because its tool was withdrawn never runs afterwards
\* (execute_approved).
THEOREM WithdrawnNeverRuns == Spec => []WithdrawnIsSpent
<1>1. Typed /\ Safe => WithdrawnIsSpent
  BY DEF Safe, SpentHasNoOwner, WithdrawnIsSpent
<1>2. QED
  BY <1>1, Inductive, PTL

\* No process sends for a tool that the configuration it loaded does not enable, whatever was
\* enabled when the action was proposed or approved (execute_approved reads its own).
THEOREM OnlyEnabledRunsHolds == Spec => []OnlyEnabledRuns
<1>1. Typed /\ Safe => OnlyEnabledRuns
  BY DEF Safe
<1>2. QED
  BY <1>1, Inductive, PTL

\* The columns decided_at and executed_at are written once, the tool of a claimed action
\* never changes, and no verdict is turned into the other: two decisions cannot both win,
\* nor two claims.
THEOREM DecidedOnceHolds == Spec => DecidedOnce
<1>1. Typed /\ Safe /\ [Next]_vars => [WrittenOnce]_vars
  <2> SUFFICES ASSUME Typed, Safe, Next, NEW a \in Actions
               PROVE  /\ decidedAt[a] # None => decidedAt'[a] = decidedAt[a]
                      /\ claimed[a] => claimed'[a] /\ tool'[a] = tool[a]
                      /\ {row[a], row'[a]} # {"approved", "rejected"}
    BY DEF WrittenOnce
  <2> DEFINE NoVerdict == row'[a] = row[a] \/ row'[a] \notin {"approved", "rejected"}
             Kept == UNCHANGED <<decidedAt, claimed, tool>> /\ NoVerdict
  <2>a. TableOK
    BY DEF Typed
  <2>b. \A p \in Procs : pc[p] # "idle" => act[p] \in Actions
    BY DEF Safe, ActsBound
  <2>c. NoVerdict => {row[a], row'[a]} # {"approved", "rejected"}
    OBVIOUS
  <2>1. CASE Kept
    BY <2>1, <2>c
  <2>2. ASSUME NEW p \in Procs, NEW b \in Actions, NEW t \in HighRisk, Propose(p, b, t)
        PROVE  /\ UNCHANGED <<decidedAt, claimed>> /\ (claimed[a] => tool'[a] = tool[a])
               /\ NoVerdict
    BY <2>2, <2>a DEF Propose, TableOK, Safe, ClaimedRows
  <2>3. ASSUME NEW p \in Procs, DecideWins(p)
        PROVE  /\ UNCHANGED <<claimed, tool>>
               /\ decidedAt[a] # None => decidedAt'[a] = decidedAt[a]
               /\ {row[a], row'[a]} # {"approved", "rejected"}
    <3>1. CASE a = act[p]
      BY <3>1, <2>3, <2>a DEF DecideWins, Decidable, TableOK, Safe, DecidedRows
    <3>2. CASE a # act[p]
      BY <3>2, <2>3, <2>a, <2>c DEF DecideWins, TableOK
    <3>3. QED
      BY <3>1, <3>2
  <2>4. ASSUME NEW p \in Procs, ClaimWins(p)
        PROVE  UNCHANGED <<decidedAt, tool>> /\ (claimed[a] => claimed'[a]) /\ NoVerdict
    BY <2>4, <2>a DEF ClaimWins, TableOK
  <2>5. ASSUME NEW p \in Procs, Step(p), ~DecideWins(p), ~ClaimWins(p)
        PROVE  Kept
    <3>1. CASE UNCHANGED table
      BY <3>1 DEF table
    <3>2. CASE SetExpired(p) \/ Withdrawn(p) \/ FinishExecuted(p) \/ FinishFailed(p)
      BY <3>2, <2>a DEF SetExpired, Withdrawn, FinishExecuted, FinishFailed, SetRow, TableOK
    <3>3. AuditApproved(p) => UNCHANGED table
      BY Zenon DEF AuditApproved
    <3>4. QED
      BY <3>1, <3>2, <3>3, <2>5 DEF Step, Decide, Claim, Answer, AuditProposed, DecideLoses,
             WhyNot, ClaimLoses, Gate, AuditWithdrawn, Send, BodyRefuses,
             AnswerOk, AnswerError, AnswerReported,
             AuditExecuted, AuditPartial, AuditResult, AuditFailed
  <2>6. ASSUME NEW p \in Procs, Fail(p)
        PROVE  Kept
    BY <2>6 DEF Fail, DatabaseLocked, Cancel, Kill, table
  <2>7. ASSUME NEW p \in Procs, NEW b \in Actions,
               Call(p, b) \/ \E c \in Verdicts : Command(p, b, c)
        PROVE  Kept
    BY <2>7 DEF Call, Command, table
  <2>8. ASSUME NEW b \in Actions, PretixApplies(b) \/ PretixRefuses(b) \/ PretixRedirects(b)
        PROVE  Kept
    BY <2>8 DEF PretixApplies, PretixRefuses, PretixRedirects, PretixDeclines, table
  <2>9. ASSUME ExpireStale \/ Tick \/ Reconfigure \/ Restart
        PROVE  Kept
    BY <2>9, <2>a DEF ExpireStale, Tick, Reconfigure, Restart, table, TableOK
  <2> HIDE DEF NoVerdict
  <2>10. QED
    BY <2>c, <2>1, <2>2, <2>3, <2>4, <2>5, <2>6, <2>7, <2>8, <2>9 DEF Next, Begin
<1>2. QED
  BY <1>1, Inductive, PTL DEF Spec, DecidedOnce

-----------------------------------------------------------------------------
(* The refinement of ApprovalSpec.                                         *)

\* When the columns that Stage reads keep their meaning, nothing happened to the ceremony.
LEMMA StageKept ==
  ASSUME \A a \in Actions : Stage(a)' = Stage(a), UNCHANGED effects
  PROVE  UNCHANGED Abstract!specVars
BY DEF Abstract!specVars

\* When one action changes its stage, the ceremony made that move.
LEMMA StageMoved ==
  ASSUME NEW a \in Actions, NEW from, NEW to, Stage(a) \in from, Stage(a)' = to,
         \A b \in Actions : b # a => Stage(b)' = Stage(b), UNCHANGED effects
  PROVE  Abstract!Move(a, from, to)
BY DEF Abstract!Move

\* Every step is a move of the ceremony or leaves it alone.
LEMMA RefinementStep == Typed /\ Safe /\ [Next]_vars => [Abstract!SpecNext]_(Abstract!specVars)
<1> SUFFICES ASSUME Typed, Safe, [Next]_vars
             PROVE  Abstract!SpecNext \/ UNCHANGED Abstract!specVars
  OBVIOUS
<1>a. TableOK /\ PretixOK
  BY DEF Typed
<1>b. \A p \in Procs : pc[p] # "idle" => act[p] \in Actions /\ row[act[p]] # "absent"
  BY DEF Safe, ActsBound
<1>1. CASE UNCHANGED <<row, claimed, effects>>
  BY <1>1, StageKept DEF Stage
<1>2. ASSUME NEW p \in Procs, NEW a \in Actions, NEW t \in HighRisk, Propose(p, a, t)
      PROVE  Abstract!Open(a)
  <2>1. row'[a] = "pending" /\ \A b \in Actions : b # a => row'[b] = row[b]
    BY <1>2, <1>a DEF Propose, TableOK
  <2>2. row[a] = "absent" /\ ~claimed[a] /\ UNCHANGED <<claimed, effects>>
    BY <1>2 DEF Propose, pretix, Safe, ClaimedRows
  <2>3. QED
    BY <2>1, <2>2, StageMoved DEF Stage, Abstract!Open
<1>3. ASSUME NEW p \in Procs, DecideWins(p)
      PROVE  \E a \in Actions : Abstract!Grant(a) \/ Abstract!Close(a)
  <2> DEFINE a == act[p]
  <2>1. a \in Actions /\ row[a] = "pending" /\ ~claimed[a] /\ UNCHANGED <<claimed, effects>>
    BY <1>3, <1>b DEF DecideWins, Decidable, At, pretix, Safe, ClaimedRows
  <2>2. /\ row'[a] \in {"approved", "rejected"}
        /\ \A b \in Actions : b # a => row'[b] = row[b]
    BY <1>3, <1>a, <2>1 DEF DecideWins, TableOK
  <2>3. CASE row'[a] = "approved"
    <3>1. Stage(a) = "open" /\ \A b \in Actions : Stage(b)' = IF b = a THEN "granted" ELSE Stage(b)
      BY <2>1, <2>2, <2>3 DEF Stage
    <3>2. QED
      BY <2>1, <3>1, StageMoved DEF Abstract!Grant
  <2>4. CASE row'[a] = "rejected"
    <3>1. Stage(a) = "open" /\ \A b \in Actions : Stage(b)' = IF b = a THEN "closed" ELSE Stage(b)
      BY <2>1, <2>2, <2>4 DEF Stage
    <3>2. QED
      BY <2>1, <3>1, StageMoved DEF Abstract!Close
  <2>5. QED
    BY <2>2, <2>3, <2>4
<1>4. ASSUME NEW p \in Procs, SetExpired(p)
      PROVE  (\E a \in Actions : Abstract!Close(a)) \/ UNCHANGED Abstract!specVars
  <2> DEFINE a == act[p]
  <2>1. a \in Actions /\ row[a] # "absent" /\ UNCHANGED <<claimed, effects>>
    BY <1>4, <1>b DEF SetExpired, At, SetRow, pretix
  <2>2. row'[a] = "expired" /\ \A b \in Actions : b # a => row'[b] = row[b]
    BY <1>4, <1>a, <2>1 DEF SetExpired, SetRow, TableOK
  <2>3. \A b \in Actions : Stage(b)' = IF b = a /\ ~claimed[a] THEN "closed" ELSE Stage(b)
    BY <2>1, <2>2 DEF Stage
  <2>4. CASE Stage(a) \in {"open", "granted"}
    <3>1. ~claimed[a]
      BY <2>4 DEF Stage
    <3>2. QED
      BY <2>1, <2>3, <2>4, <3>1, StageMoved DEF Abstract!Close
  <2>5. CASE Stage(a) \notin {"open", "granted"}
    <3>1. claimed[a] \/ Stage(a) = "closed"
      BY <2>1, <2>5 DEF Stage
    <3>2. QED
      BY <2>1, <2>3, <3>1, StageKept
  <2>6. QED
    BY <2>1, <2>4, <2>5
<1>5. ASSUME NEW p \in Procs, ClaimWins(p)
      PROVE  \E a \in Actions : Abstract!Take(a)
  <2> DEFINE a == act[p]
  <2>1. a \in Actions /\ row[a] = "approved" /\ ~claimed[a] /\ UNCHANGED effects
    BY <1>5, <1>b DEF ClaimWins, Claimable, At, pretix, Safe, ClaimedRows
  <2>2. /\ claimed'[a]
        /\ \A b \in Actions : b # a => row'[b] = row[b] /\ claimed'[b] = claimed[b]
    BY <1>5, <1>a, <2>1 DEF ClaimWins, TableOK
  <2>3. Stage(a) = "granted" /\ \A b \in Actions : Stage(b)' = IF b = a THEN "taken" ELSE Stage(b)
    BY <2>1, <2>2 DEF Stage
  <2>4. QED
    BY <2>1, <2>3, StageMoved DEF Abstract!Take
<1>6. ASSUME NEW p \in Procs, Withdrawn(p) \/ FinishExecuted(p) \/ FinishFailed(p)
      PROVE  UNCHANGED Abstract!specVars
  <2>1. act[p] \in Actions /\ claimed[act[p]]
    BY <1>6, <1>b DEF Withdrawn, FinishExecuted, FinishFailed, At, Safe, OneOwner, AfterClaim, Owning
  <2>2. /\ UNCHANGED <<claimed, effects>>
        /\ \A b \in Actions : b # act[p] => row'[b] = row[b]
    BY <1>6, <1>a DEF Withdrawn, FinishExecuted, FinishFailed, SetRow, TableOK, pretix
  <2>3. QED
    BY <2>1, <2>2, StageKept DEF Stage
<1>7. ASSUME ExpireStale PROVE Abstract!Sweep
  <2> DEFINE S == {a \in Actions : Expired(a)}
  <2>1. \A a \in Actions : row'[a] = IF a \in S THEN "expired" ELSE row[a]
    BY <1>7 DEF ExpireStale
  <2>2. UNCHANGED <<claimed, effects>>
    BY <1>7 DEF ExpireStale, pretix
  <2>3. \A a \in S : row[a] = "pending" /\ ~claimed[a]
    BY DEF Expired, Safe, ClaimedRows
  <2>4. \A a \in Actions : /\ a \in S => Stage(a) = "open"
                           /\ Stage(a)' = IF a \in S THEN "closed" ELSE Stage(a)
    BY <2>1, <2>2, <2>3 DEF Stage
  <2> HIDE DEF S
  <2>5. S \subseteq Actions
    BY DEF S
  <2>6. QED
    BY <2>2, <2>4, <2>5 DEF Abstract!Sweep
<1>8. ASSUME NEW a \in Actions, PretixApplies(a) PROVE Abstract!Affect(a)
  <2>1. wire[a] = "sent" /\ effects' = [effects EXCEPT ![a] = effects[a] + 1]
    BY <1>8 DEF PretixApplies
  <2>2. effects[a] = 0 /\ claimed[a]
    BY <2>1 DEF Safe, OneRequest
  <2>3. UNCHANGED <<row, claimed>>
    BY <1>8 DEF PretixApplies, table
  <2>4. Stage(a) = "taken" /\ \A b \in Actions : Stage(b)' = Stage(b)
    BY <2>2, <2>3 DEF Stage
  <2>5. effects' = [effects EXCEPT ![a] = 1]
    BY <2>1, <2>2
  <2>6. QED
    BY <2>2, <2>4, <2>5 DEF Abstract!Affect
<1>9. \/ UNCHANGED <<row, claimed, effects>>
      \/ \E p \in Procs : \/ \E a \in Actions, t \in HighRisk : Propose(p, a, t)
                          \/ DecideWins(p) \/ SetExpired(p) \/ ClaimWins(p)
                          \/ Withdrawn(p) \/ FinishExecuted(p) \/ FinishFailed(p)
      \/ ExpireStale
      \/ \E a \in Actions : PretixApplies(a)
  BY ZenonT(30) DEF Next, Begin, Step, Fail, Decide, Claim, Answer, Call, Command, AuditProposed,
         DecideLoses, AuditApproved, WhyNot, ClaimLoses, Gate, AuditWithdrawn, Send,
         BodyRefuses, AnswerOk, AnswerError, AnswerReported, AuditExecuted, AuditPartial,
         AuditResult, AuditFailed, DatabaseLocked, Cancel, Kill, PretixRefuses,
         PretixRedirects, PretixDeclines, Tick, Reconfigure, Restart, table, pretix, vars
<1>10. QED
  BY <1>1, <1>2, <1>3, <1>4, <1>5, <1>6, <1>7, <1>8, <1>9 DEF Abstract!SpecNext

\* The processes, their races and their faults implement the abstract ceremony: no effect
\* without a grant, one taker, at most one effect, nothing after a refusal.
THEOREM Refinement == Spec => RefinesCeremony
<1>1. Init => Abstract!SpecInit
  BY DEF Init, Abstract!SpecInit, Stage
<1>2. QED
  BY <1>1, RefinementStep, Inductive, PTL DEF Spec, RefinesCeremony, Abstract!Ceremony

-----------------------------------------------------------------------------
(* The audit file tells the story of every action, and no row is left in   *)
(* "executing", unless a fault cut a step short.                           *)

Trail == /\ NoOrphan
         /\ ProposalOnRecord
         /\ ApprovalOnRecord
         /\ OutcomeOnRecord

\* Lines are not taken back, and a fault is not forgotten.
LogGrows == \A b \in Actions : /\ audit[b] \subseteq audit'[b]
                               /\ faulted[b] => faulted'[b]

\* Process p goes to l and works on a: what its last step owed the action it worked on is
\* written, still its own to write, or lost to a fault.
Settled(p, l, a) ==
  LET b == act[p] IN
  /\ pc[p] = "auditProposed" => "proposed" \in audit'[b] \/ faulted'[b]
  /\ pc[p] = "auditApproved" => "approved" \in audit'[b] \/ faulted'[b]
  /\ pc[p] \in Answering => \/ l \in Answering /\ a = b
                            \/ audit'[b] \cap (Outcomes \cup {"failed"}) # {}
                            \/ faulted'[b]
  /\ pc[p] \in Owning => \/ l \in Owning /\ a = b
                         \/ row'[b] # "executing"
                         \/ faulted'[b]

\* Whatever becomes true of a row that calls for a line or an owner, p is the one to see to it.
Answerable(l, a) ==
  \A b \in Actions :
    /\ row'[b] # "absent" => row[b] # "absent" \/ (l = "auditProposed" /\ a = b)
    /\ claimed'[b] \/ row'[b] = "approved" =>
         claimed[b] \/ row[b] = "approved" \/ (l = "auditApproved" /\ a = b)
    /\ wire'[b] # "none" => wire[b] # "none" \/ (l = "await" /\ a = b)
    /\ row'[b] = "executing" => row[b] = "executing" \/ (l = "gate" /\ a = b)

\* A step of one process that leaves nothing owing keeps the trail.
LEMMA TrailMove ==
  ASSUME Trail, NEW p \in Procs, NEW l, NEW a, Moved(p, l, a), LogGrows,
         Settled(p, l, a), Answerable(l, a)
  PROVE  Trail'
<1>a. \A q \in Procs : q # p => act'[q] = act[q] /\ pc'[q] = pc[q]
  BY DEF Moved
<1>b. act'[p] = a /\ pc'[p] = l
  BY DEF Moved
<1>1. NoOrphan'
  <2> SUFFICES ASSUME NEW b \in Actions, row'[b] = "executing", ~faulted'[b]
               PROVE  \E q \in Procs : act'[q] = b /\ pc'[q] \in Owning
    BY DEF NoOrphan, Owns
  <2>1. CASE l = "gate" /\ a = b
    BY <2>1, <1>b DEF Owning
  <2>2. CASE row[b] = "executing"
    <3>1. PICK q \in Procs : act[q] = b /\ pc[q] \in Owning
      BY <2>2 DEF Trail, NoOrphan, Owns, LogGrows
    <3>2. QED
      BY <3>1, <1>a, <1>b DEF Settled
  <2>3. QED
    BY <2>1, <2>2 DEF Answerable
<1>2. ProposalOnRecord'
  <2> SUFFICES ASSUME NEW b \in Actions, row'[b] # "absent", ~faulted'[b]
               PROVE  \/ "proposed" \in audit'[b]
                      \/ \E q \in Procs : act'[q] = b /\ pc'[q] \in {"auditProposed"}
    BY DEF ProposalOnRecord, Writing
  <2>1. CASE l = "auditProposed" /\ a = b
    BY <2>1, <1>b
  <2>2. CASE row[b] # "absent" /\ "proposed" \in audit[b]
    BY <2>2 DEF LogGrows
  <2>3. CASE row[b] # "absent" /\ "proposed" \notin audit[b]
    <3>1. PICK q \in Procs : act[q] = b /\ pc[q] = "auditProposed"
      BY <2>3 DEF Trail, ProposalOnRecord, Writing, LogGrows
    <3>2. QED
      BY <3>1, <1>a DEF Settled
  <2>4. QED
    BY <2>1, <2>2, <2>3 DEF Answerable
<1>3. ApprovalOnRecord'
  <2> SUFFICES ASSUME NEW b \in Actions, claimed'[b] \/ row'[b] = "approved", ~faulted'[b]
               PROVE  \/ "approved" \in audit'[b]
                      \/ \E q \in Procs : act'[q] = b /\ pc'[q] \in {"auditApproved"}
    BY DEF ApprovalOnRecord, Writing
  <2>1. CASE l = "auditApproved" /\ a = b
    BY <2>1, <1>b
  <2>2. CASE (claimed[b] \/ row[b] = "approved") /\ "approved" \in audit[b]
    BY <2>2 DEF LogGrows
  <2>3. CASE (claimed[b] \/ row[b] = "approved") /\ "approved" \notin audit[b]
    <3>1. PICK q \in Procs : act[q] = b /\ pc[q] = "auditApproved"
      BY <2>3 DEF Trail, ApprovalOnRecord, Writing, LogGrows
    <3>2. QED
      BY <3>1, <1>a DEF Settled
  <2>4. QED
    BY <2>1, <2>2, <2>3 DEF Answerable
<1>4. OutcomeOnRecord'
  <2> SUFFICES ASSUME NEW b \in Actions, wire'[b] # "none", ~faulted'[b]
               PROVE  \/ audit'[b] \cap (Outcomes \cup {"failed"}) # {}
                      \/ \E q \in Procs : act'[q] = b /\ pc'[q] \in Answering
    BY DEF OutcomeOnRecord, Writing
  <2>1. CASE l = "await" /\ a = b
    BY <2>1, <1>b DEF Answering
  <2>2. CASE wire[b] # "none" /\ audit[b] \cap (Outcomes \cup {"failed"}) # {}
    BY <2>2 DEF LogGrows
  <2>3. CASE wire[b] # "none" /\ audit[b] \cap (Outcomes \cup {"failed"}) = {}
    <3>1. PICK q \in Procs : act[q] = b /\ pc[q] \in Answering
      BY <2>3 DEF Trail, OutcomeOnRecord, Writing, LogGrows
    <3>2. QED
      BY <3>1, <1>a, <1>b DEF Settled
  <2>4. QED
    BY <2>1, <2>2, <2>3 DEF Answerable
<1>5. QED
  BY <1>1, <1>2, <1>3, <1>4 DEF Trail

\* What a line, a lost line or a fault does to the log.
LEMMA LogMoves ==
  ASSUME LogOK, NEW a \in Actions
  PROVE  /\ \A e : Written(a, e) => LogGrows /\ e \in audit'[a]
         /\ LineLost(a) => LogGrows /\ faulted'[a]
         /\ Fault(a) /\ UNCHANGED audit => LogGrows /\ faulted'[a]
         /\ UNCHANGED <<audit, faulted>> => LogGrows
BY DEF LogOK, Written, LineLost, Fault, LogGrows

\* A step that writes no row, claim or request makes nothing new to answer for.
LEMMA NothingNew ==
  ASSUME NEW l, NEW a, UNCHANGED <<row, claimed, wire>>
  PROVE  Answerable(l, a)
BY DEF Answerable

\* Every action keeps the trail.
LEMMA TrailStep == Typed /\ Safe /\ Trail /\ [Next]_vars => Trail'
<1> SUFFICES ASSUME Typed, Safe, Trail, [Next]_vars PROVE Trail'
  OBVIOUS
<1>a. TableOK /\ ProcsOK /\ LogOK /\ PretixOK
  BY DEF Typed
<1>b. \A p \in Procs : pc[p] # "idle" => act[p] \in Actions
  BY DEF Safe, ActsBound
<1>1. ASSUME NEW p \in Procs, AuditProposed(p) PROVE Trail'
  <2>1. pc[p] = "auditProposed" /\ act[p] \in Actions /\ UNCHANGED <<row, claimed, wire>>
    BY <1>1, <1>b DEF AuditProposed, At, table, pretix
  <2>2. Moved(p, "idle", None)
    BY <1>1, <1>a, Moves DEF AuditProposed
  <2>3. LogGrows /\ ("proposed" \in audit'[act[p]] \/ faulted'[act[p]])
    BY <1>1, <1>a, <2>1, LogMoves DEF AuditProposed
  <2>4. Settled(p, "idle", None)
    BY <2>1, <2>3 DEF Settled, Answering, Owning
  <2>5. QED
    BY <2>1, <2>2, <2>3, <2>4, NothingNew, TrailMove
<1>2. ASSUME NEW p \in Procs, DecideLoses(p) PROVE Trail'
  <2>1. pc[p] = "decide" /\ act[p] \in Actions /\ UNCHANGED <<row, claimed, wire>>
    BY <1>2, <1>b DEF DecideLoses, At, table, pretix
  <2>2. Moved(p, "why", act[p])
    BY <1>2, <1>a, Moves DEF DecideLoses
  <2>3. LogGrows
    BY <1>2, <1>a, <2>1, LogMoves DEF DecideLoses
  <2>4. Settled(p, "why", act[p])
    BY <2>1 DEF Settled, Answering, Owning
  <2>5. QED
    BY <2>1, <2>2, <2>3, <2>4, NothingNew, TrailMove
<1>3. ASSUME NEW p \in Procs, ClaimLoses(p) PROVE Trail'
  <2>1. pc[p] = "claim" /\ act[p] \in Actions /\ UNCHANGED <<row, claimed, wire>>
    BY <1>3, <1>b DEF ClaimLoses, At, table, pretix
  <2>2. Moved(p, "why", act[p])
    BY <1>3, <1>a, Moves DEF ClaimLoses
  <2>3. LogGrows
    BY <1>3, <1>a, <2>1, LogMoves DEF ClaimLoses
  <2>4. Settled(p, "why", act[p])
    BY <2>1 DEF Settled, Answering, Owning
  <2>5. QED
    BY <2>1, <2>2, <2>3, <2>4, NothingNew, TrailMove
<1>4. ASSUME NEW p \in Procs, BodyRefuses(p) PROVE Trail'
  <2>1. pc[p] = "body" /\ act[p] \in Actions /\ UNCHANGED <<row, claimed, wire>>
    BY <1>4, <1>b DEF BodyRefuses, At, table, pretix
  <2>2. Moved(p, "auditFailed", act[p])
    BY <1>4, <1>a, Moves DEF BodyRefuses
  <2>3. LogGrows
    BY <1>4, <1>a, <2>1, LogMoves DEF BodyRefuses
  <2>4. Settled(p, "auditFailed", act[p])
    BY <2>1 DEF Settled, Answering, Owning
  <2>5. QED
    BY <2>1, <2>2, <2>3, <2>4, NothingNew, TrailMove
<1>5. ASSUME NEW p \in Procs, AnswerOk(p) PROVE Trail'
  <2>1. pc[p] = "await" /\ act[p] \in Actions /\ UNCHANGED <<row, claimed, wire>>
    BY <1>5, <1>b DEF AnswerOk, At, table, pretix
  <2>2. Moved(p, "auditExecuted", act[p])
    BY <1>5, <1>a, Moves DEF AnswerOk
  <2>3. LogGrows
    BY <1>5, <1>a, <2>1, LogMoves DEF AnswerOk
  <2>4. Settled(p, "auditExecuted", act[p])
    BY <2>1 DEF Settled, Answering, Owning
  <2>5. QED
    BY <2>1, <2>2, <2>3, <2>4, NothingNew, TrailMove
<1>6. ASSUME NEW p \in Procs, AnswerError(p) PROVE Trail'
  <2>1. pc[p] = "await" /\ act[p] \in Actions /\ UNCHANGED <<row, claimed, wire>>
    BY <1>6, <1>b DEF AnswerError, At, table, pretix
  <2>2. Moved(p, "auditFailed", act[p])
    BY <1>6, <1>a, Moves DEF AnswerError
  <2>3. LogGrows
    BY <1>6, <1>a, <2>1, LogMoves DEF AnswerError
  <2>4. Settled(p, "auditFailed", act[p])
    BY <2>1 DEF Settled, Answering, Owning
  <2>5. QED
    BY <2>1, <2>2, <2>3, <2>4, NothingNew, TrailMove
<1>7. ASSUME NEW p \in Procs, AuditFailed(p) PROVE Trail'
  <2>1. pc[p] = "auditFailed" /\ act[p] \in Actions /\ UNCHANGED <<row, claimed, wire>>
    BY <1>7, <1>b DEF AuditFailed, At, table, pretix
  <2>2. Moved(p, "finishFailed", act[p])
    BY <1>7, <1>a, Moves DEF AuditFailed
  <2>3. LogGrows /\ ("failed" \in audit'[act[p]] \/ faulted'[act[p]])
    BY <1>7, <1>a, <2>1, LogMoves DEF AuditFailed
  <2>4. Settled(p, "finishFailed", act[p])
    BY <2>1, <2>3 DEF Settled, Answering, Owning
  <2>5. QED
    BY <2>1, <2>2, <2>3, <2>4, NothingNew, TrailMove
<1>8. ASSUME NEW p \in Procs, AuditWithdrawn(p) PROVE Trail'
  <2>1. pc[p] = "auditWithdrawn" /\ act[p] \in Actions /\ UNCHANGED <<row, claimed, wire>>
    BY <1>8, <1>b DEF AuditWithdrawn, At, table, pretix
  <2>2. Moved(p, "idle", None)
    BY <1>8, <1>a, Moves DEF AuditWithdrawn
  <2>3. LogGrows /\ ("tool_disabled" \in audit'[act[p]] \/ faulted'[act[p]])
    BY <1>8, <1>a, <2>1, LogMoves DEF AuditWithdrawn
  <2>4. Settled(p, "idle", None)
    BY <2>1, <2>3 DEF Settled, Answering, Owning
  <2>5. QED
    BY <2>1, <2>2, <2>3, <2>4, NothingNew, TrailMove
<1>9. ASSUME NEW p \in Procs, NEW a \in Actions, Call(p, a) PROVE Trail'
  <2>1. pc[p] = "idle" /\ UNCHANGED <<row, claimed, wire, audit, faulted>>
    BY <1>9 DEF Call, At, table, pretix
  <2>2. Moved(p, "claim", a)
    BY <1>9, <1>a, Starts DEF Call
  <2>3. LogGrows /\ Settled(p, "claim", a)
    BY <2>1 DEF LogGrows, Settled, Answering, Owning
  <2>4. QED
    BY <2>1, <2>2, <2>3, NothingNew, TrailMove
<1>10. ASSUME NEW p \in Procs, NEW a \in Actions, NEW c \in Verdicts, Command(p, a, c) PROVE Trail'
  <2>1. pc[p] = "idle" /\ UNCHANGED <<row, claimed, wire, audit, faulted>>
    BY <1>10 DEF Command, At, table, pretix
  <2>2. \A q \in Procs : q # p => conf'[q] = conf[q]
    BY <1>10, <1>a DEF Command, ProcsOK
  <2>3. Moved(p, "decide", a)
    BY <1>10, <1>a, <2>2, Starts DEF Command
  <2>4. LogGrows /\ Settled(p, "decide", a)
    BY <2>1 DEF LogGrows, Settled, Answering, Owning
  <2>5. QED
    BY <2>1, <2>3, <2>4, NothingNew, TrailMove
<1>11. ASSUME NEW p \in Procs, AuditApproved(p) PROVE Trail'
  <2>1. pc[p] = "auditApproved" /\ act[p] \in Actions /\ UNCHANGED <<row, claimed, wire>>
    BY <1>11, <1>b DEF AuditApproved, At, table, pretix
  <2>2. LogGrows /\ ("approved" \in audit'[act[p]] \/ faulted'[act[p]])
    BY <1>11, <1>a, <2>1, LogMoves DEF AuditApproved
  <2>3. CASE Goto(p, "claim")
    <3>1. Moved(p, "claim", act[p])
      BY <2>3, <1>a, Moves
    <3>2. Settled(p, "claim", act[p])
      BY <2>1, <2>2 DEF Settled, Answering, Owning
    <3>3. QED
      BY <2>1, <2>2, <3>1, <3>2, NothingNew, TrailMove
  <2>4. CASE End(p)
    <3>1. Moved(p, "idle", None)
      BY <2>4, <1>a, Moves
    <3>2. Settled(p, "idle", None)
      BY <2>1, <2>2 DEF Settled, Answering, Owning
    <3>3. QED
      BY <2>1, <2>2, <3>1, <3>2, NothingNew, TrailMove
  <2>5. QED
    BY <1>11, <2>3, <2>4 DEF AuditApproved
<1>12. ASSUME NEW p \in Procs, WhyNot(p) PROVE Trail'
  <2>1. pc[p] = "why" /\ act[p] \in Actions /\ UNCHANGED <<row, claimed, wire>>
    BY <1>12, <1>b DEF WhyNot, At, table, pretix
  <2>2. LogGrows
    BY <1>12, <1>a, <2>1, LogMoves DEF WhyNot
  <2>3. CASE Goto(p, "expire")
    <3>1. Moved(p, "expire", act[p])
      BY <2>3, <1>a, Moves
    <3>2. Settled(p, "expire", act[p])
      BY <2>1, <2>2 DEF Settled, Answering, Owning
    <3>3. QED
      BY <2>1, <2>2, <3>1, <3>2, NothingNew, TrailMove
  <2>4. CASE End(p)
    <3>1. Moved(p, "idle", None)
      BY <2>4, <1>a, Moves
    <3>2. Settled(p, "idle", None)
      BY <2>1, <2>2 DEF Settled, Answering, Owning
    <3>3. QED
      BY <2>1, <2>2, <3>1, <3>2, NothingNew, TrailMove
  <2>5. QED
    BY <1>12, <2>3, <2>4 DEF WhyNot
<1>13. ASSUME NEW p \in Procs, Gate(p) PROVE Trail'
  <2>1. pc[p] = "gate" /\ act[p] \in Actions /\ UNCHANGED <<row, claimed, wire>>
    BY <1>13, <1>b DEF Gate, At, table, pretix
  <2>2. LogGrows
    BY <1>13, <1>a, <2>1, LogMoves DEF Gate
  <2>3. CASE Await(p, "body")
    <3>1. Moved(p, "body", act[p])
      BY <2>3, <1>a, Moves
    <3>2. Settled(p, "body", act[p])
      BY <2>1, <2>2 DEF Settled, Answering, Owning
    <3>3. QED
      BY <2>1, <2>2, <3>1, <3>2, NothingNew, TrailMove
  <2>4. CASE Goto(p, "withdrawn")
    <3>1. Moved(p, "withdrawn", act[p])
      BY <2>4, <1>a, Moves
    <3>2. Settled(p, "withdrawn", act[p])
      BY <2>1, <2>2 DEF Settled, Answering, Owning
    <3>3. QED
      BY <2>1, <2>2, <3>1, <3>2, NothingNew, TrailMove
  <2>5. QED
    BY <1>13, <2>3, <2>4 DEF Gate
<1>14. ASSUME NEW p \in Procs, AuditExecuted(p) \/ AuditPartial(p) PROVE Trail'
  <2>1. /\ pc[p] \in {"auditExecuted", "auditPartial"} /\ act[p] \in Actions
        /\ UNCHANGED <<row, claimed, wire>>
    BY <1>14, <1>b DEF AuditExecuted, AuditPartial, AuditResult, At, table, pretix
  <2>2. LogGrows /\ (audit'[act[p]] \cap Outcomes # {} \/ faulted'[act[p]])
    BY <1>14, <1>a, <2>1, LogMoves DEF AuditExecuted, AuditPartial, AuditResult, Outcomes
  <2>3. CASE Goto(p, "finishExecuted")
    <3>1. Moved(p, "finishExecuted", act[p])
      BY <2>3, <1>a, Moves
    <3>2. Settled(p, "finishExecuted", act[p])
      BY <2>1, <2>2 DEF Settled, Answering, Owning
    <3>3. QED
      BY <2>1, <2>2, <3>1, <3>2, NothingNew, TrailMove
  <2>4. CASE Goto(p, "finishFailed")
    <3>1. Moved(p, "finishFailed", act[p])
      BY <2>4, <1>a, Moves
    <3>2. Settled(p, "finishFailed", act[p])
      BY <2>1, <2>2 DEF Settled, Answering, Owning
    <3>3. QED
      BY <2>1, <2>2, <3>1, <3>2, NothingNew, TrailMove
  <2>5. QED
    BY <1>14, <2>3, <2>4 DEF AuditExecuted, AuditPartial, AuditResult
<1>15. ASSUME NEW p \in Procs, DatabaseLocked(p) PROVE Trail'
  <2>1. pc[p] # "idle" /\ act[p] \in Actions /\ UNCHANGED <<row, claimed, wire>>
    BY <1>15, <1>b DEF DatabaseLocked, table, pretix, DbSteps
  <2>2. Moved(p, "idle", None)
    BY <1>15, <1>a, Moves DEF DatabaseLocked
  <2>3. LogGrows /\ faulted'[act[p]]
    BY <1>15, <1>a, <2>1, LogMoves DEF DatabaseLocked
  <2>4. Settled(p, "idle", None)
    BY <2>3 DEF Settled
  <2>5. QED
    BY <2>1, <2>2, <2>3, <2>4, NothingNew, TrailMove
<1>16. ASSUME NEW p \in Procs, Cancel(p) PROVE Trail'
  <2>1. pc[p] # "idle" /\ act[p] \in Actions /\ UNCHANGED <<row, claimed, wire>>
    BY <1>16, <1>b DEF Cancel, table, pretix
  <2>2. Moved(p, "idle", None)
    BY <1>16, <1>a, Moves DEF Cancel
  <2>3. LogGrows /\ faulted'[act[p]]
    BY <1>16, <1>a, <2>1, LogMoves DEF Cancel
  <2>4. Settled(p, "idle", None)
    BY <2>3 DEF Settled
  <2>5. QED
    BY <2>1, <2>2, <2>3, <2>4, NothingNew, TrailMove
<1>17. ASSUME NEW p \in Procs, Kill(p) PROVE Trail'
  <2>1. pc[p] # "idle" /\ act[p] \in Actions /\ UNCHANGED <<row, claimed, wire>>
    BY <1>17, <1>b DEF Kill, table, pretix
  <2>2. Moved(p, "idle", None)
    BY <1>17, <1>a, Moves DEF Kill
  <2>3. LogGrows /\ faulted'[act[p]]
    BY <1>17, <1>a, <2>1, LogMoves DEF Kill
  <2>4. Settled(p, "idle", None)
    BY <2>3 DEF Settled
  <2>5. QED
    BY <2>1, <2>2, <2>3, <2>4, NothingNew, TrailMove
<1>18. ASSUME NEW p \in Procs, NEW a \in Actions, NEW t \in HighRisk, Propose(p, a, t) PROVE Trail'
  <2>1. pc[p] = "idle" /\ UNCHANGED <<claimed, wire, audit, faulted>>
    BY <1>18 DEF Propose, At, pretix
  <2>2. row' = [row EXCEPT ![a] = "pending"]
    BY <1>18 DEF Propose
  <2>3. Moved(p, "auditProposed", a)
    BY <1>18, <1>a, Starts DEF Propose
  <2>4. LogGrows /\ Settled(p, "auditProposed", a)
    BY <2>1 DEF LogGrows, Settled, Answering, Owning
  <2>5. Answerable("auditProposed", a)
    BY <2>1, <2>2, <1>a DEF Answerable, TableOK
  <2>6. QED
    BY <2>3, <2>4, <2>5, TrailMove
<1>19. ASSUME NEW p \in Procs, DecideWins(p) PROVE Trail'
  <2>1. pc[p] = "decide" /\ act[p] \in Actions /\ UNCHANGED <<claimed, wire, audit, faulted>>
    BY <1>19, <1>b DEF DecideWins, At, pretix
  <2>2. row[act[p]] = "pending" /\ LogGrows
    BY <1>19, <2>1 DEF DecideWins, Decidable, LogGrows
  <2>3. CASE cmd[p] = "reject"
    <3>1. Moved(p, "idle", None) /\ row' = [row EXCEPT ![act[p]] = "rejected"]
      BY <1>19, <1>a, <2>3, Moves DEF DecideWins
    <3>2. Settled(p, "idle", None)
      BY <2>1 DEF Settled, Answering, Owning
    <3>3. Answerable("idle", None)
      BY <1>a, <2>1, <2>2, <3>1 DEF Answerable, TableOK
    <3>4. QED
      BY <2>2, <3>1, <3>2, <3>3, TrailMove
  <2>4. CASE cmd[p] # "reject"
    <3>1. Moved(p, "auditApproved", act[p]) /\ row' = [row EXCEPT ![act[p]] = "approved"]
      BY <1>19, <1>a, <2>4, Moves DEF DecideWins
    <3>2. Settled(p, "auditApproved", act[p])
      BY <2>1 DEF Settled, Answering, Owning
    <3>3. Answerable("auditApproved", act[p])
      BY <1>a, <2>1, <2>2, <3>1 DEF Answerable, TableOK
    <3>4. QED
      BY <2>2, <3>1, <3>2, <3>3, TrailMove
  <2>5. QED
    BY <2>3, <2>4
<1>20. ASSUME NEW p \in Procs, ClaimWins(p) PROVE Trail'
  <2>1. pc[p] = "claim" /\ act[p] \in Actions /\ UNCHANGED <<wire, audit, faulted>>
    BY <1>20, <1>b DEF ClaimWins, At, pretix
  <2>2. /\ row[act[p]] = "approved" /\ row' = [row EXCEPT ![act[p]] = "executing"]
        /\ claimed' = [claimed EXCEPT ![act[p]] = TRUE]
    BY <1>20 DEF ClaimWins, Claimable
  <2>3. Moved(p, "gate", act[p])
    BY <1>20, <1>a, Moves DEF ClaimWins
  <2>4. LogGrows /\ Settled(p, "gate", act[p])
    BY <2>1 DEF LogGrows, Settled, Answering, Owning
  <2>5. Answerable("gate", act[p])
    BY <1>a, <2>1, <2>2 DEF Answerable, TableOK
  <2>6. QED
    BY <2>3, <2>4, <2>5, TrailMove
<1>21. ASSUME NEW p \in Procs, SetExpired(p) PROVE Trail'
  <2>1. /\ pc[p] = "expire" /\ act[p] \in Actions /\ row[act[p]] # "absent"
        /\ UNCHANGED <<claimed, wire, audit, faulted>>
    BY <1>21, <1>b DEF SetExpired, At, SetRow, pretix, Safe, ActsBound
  <2>2. row' = [row EXCEPT ![act[p]] = "expired"]
    BY <1>21 DEF SetExpired, SetRow
  <2>3. Moved(p, "idle", None)
    BY <1>21, <1>a, Moves DEF SetExpired
  <2>4. LogGrows /\ Settled(p, "idle", None)
    BY <1>a, <2>1, <2>2 DEF LogGrows, Settled, Answering, Owning, TableOK
  <2>5. Answerable("idle", None)
    BY <1>a, <2>1, <2>2 DEF Answerable, TableOK
  <2>6. QED
    BY <2>3, <2>4, <2>5, TrailMove
<1>22. ASSUME NEW p \in Procs, FinishExecuted(p) PROVE Trail'
  <2>1. /\ pc[p] = "finishExecuted" /\ act[p] \in Actions /\ row[act[p]] # "absent"
        /\ UNCHANGED <<claimed, wire, audit, faulted>>
    BY <1>22, <1>b DEF FinishExecuted, At, SetRow, pretix, Safe, ActsBound
  <2>2. row' = [row EXCEPT ![act[p]] = "executed"]
    BY <1>22 DEF FinishExecuted, SetRow
  <2>3. Moved(p, "idle", None)
    BY <1>22, <1>a, Moves DEF FinishExecuted
  <2>4. LogGrows /\ Settled(p, "idle", None)
    BY <1>a, <2>1, <2>2 DEF LogGrows, Settled, Answering, Owning, TableOK
  <2>5. Answerable("idle", None)
    BY <1>a, <2>1, <2>2 DEF Answerable, TableOK
  <2>6. QED
    BY <2>3, <2>4, <2>5, TrailMove
<1>23. ASSUME NEW p \in Procs, FinishFailed(p) PROVE Trail'
  <2>1. /\ pc[p] = "finishFailed" /\ act[p] \in Actions /\ row[act[p]] # "absent"
        /\ UNCHANGED <<claimed, wire, audit, faulted>>
    BY <1>23, <1>b DEF FinishFailed, At, SetRow, pretix, Safe, ActsBound
  <2>2. row' = [row EXCEPT ![act[p]] = "failed"]
    BY <1>23 DEF FinishFailed, SetRow
  <2>3. Moved(p, "idle", None)
    BY <1>23, <1>a, Moves DEF FinishFailed
  <2>4. LogGrows /\ Settled(p, "idle", None)
    BY <1>a, <2>1, <2>2 DEF LogGrows, Settled, Answering, Owning, TableOK
  <2>5. Answerable("idle", None)
    BY <1>a, <2>1, <2>2 DEF Answerable, TableOK
  <2>6. QED
    BY <2>3, <2>4, <2>5, TrailMove
<1>24. ASSUME NEW p \in Procs, Withdrawn(p) PROVE Trail'
  <2>1. /\ pc[p] = "withdrawn" /\ act[p] \in Actions /\ row[act[p]] # "absent"
        /\ UNCHANGED <<claimed, wire, audit, faulted>>
    BY <1>24, <1>b DEF Withdrawn, At, SetRow, pretix, Safe, ActsBound
  <2>2. row' = [row EXCEPT ![act[p]] = "failed"]
    BY <1>24 DEF Withdrawn, SetRow
  <2>3. Moved(p, "auditWithdrawn", act[p])
    BY <1>24, <1>a, Moves DEF Withdrawn
  <2>4. LogGrows /\ Settled(p, "auditWithdrawn", act[p])
    BY <1>a, <2>1, <2>2 DEF LogGrows, Settled, Answering, Owning, TableOK
  <2>5. Answerable("auditWithdrawn", act[p])
    BY <1>a, <2>1, <2>2 DEF Answerable, TableOK
  <2>6. QED
    BY <2>3, <2>4, <2>5, TrailMove
<1>25. ASSUME NEW p \in Procs, Send(p) PROVE Trail'
  <2>1. pc[p] = "body" /\ act[p] \in Actions /\ UNCHANGED <<row, claimed, audit, faulted>>
    BY <1>25, <1>b DEF Send, At, table
  <2>2. wire' = [wire EXCEPT ![act[p]] = "sent"]
    BY <1>25 DEF Send
  <2>3. Moved(p, "await", act[p])
    BY <1>25, <1>a, Moves DEF Send
  <2>4. LogGrows /\ Settled(p, "await", act[p])
    BY <2>1 DEF LogGrows, Settled, Answering, Owning
  <2>5. Answerable("await", act[p])
    BY <1>a, <2>1, <2>2 DEF Answerable, PretixOK
  <2>6. QED
    BY <2>3, <2>4, <2>5, TrailMove
<1>26. ASSUME NEW a \in Actions, PretixApplies(a) \/ PretixRefuses(a) \/ PretixRedirects(a)
       PROVE  Trail'
  <2>1. UNCHANGED <<row, claimed, pc, act, audit, faulted>>
    BY <1>26 DEF PretixApplies, PretixRefuses, PretixRedirects, PretixDeclines, table, procs
  <2>2. \A b \in Actions : wire'[b] # "none" => wire[b] # "none"
    BY <1>26, <1>a
    DEF PretixApplies, PretixRefuses, PretixRedirects, PretixDeclines, PretixOK
  <2>3. QED
    BY <2>1, <2>2 DEF Trail, NoOrphan, Owns, ProposalOnRecord, ApprovalOnRecord, OutcomeOnRecord,
           Writing
<1>27. ASSUME ExpireStale PROVE Trail'
  <2>1. UNCHANGED <<claimed, wire, pc, act, audit, faulted>>
    BY <1>27 DEF ExpireStale, procs, pretix
  <2>2. \A b \in Actions : row'[b] # row[b] => row[b] = "pending" /\ row'[b] = "expired"
    BY <1>27 DEF ExpireStale, Expired
  <2>3. QED
    BY <2>1, <2>2 DEF Trail, NoOrphan, Owns, ProposalOnRecord, ApprovalOnRecord, OutcomeOnRecord,
           Writing
<1>28. ASSUME Restart PROVE Trail'
  <2>1. UNCHANGED <<row, claimed, wire, audit>>
    BY <1>28 DEF Restart, table, pretix
  <2>2. \A b \in Actions : ~faulted'[b] =>
          /\ ~faulted[b]
          /\ \A q \in Procs : act[q] = b => act'[q] = b /\ pc'[q] = pc[q]
    BY <1>28 DEF Restart
  <2>3. NoOrphan'
    BY <2>1, <2>2 DEF Trail, NoOrphan, Owns
  <2>4. ProposalOnRecord' /\ ApprovalOnRecord' /\ OutcomeOnRecord'
    BY <2>1, <2>2 DEF Trail, ProposalOnRecord, ApprovalOnRecord, OutcomeOnRecord, Writing
  <2>5. QED
    BY <2>3, <2>4 DEF Trail
<1>29. CASE Tick \/ Reconfigure \/ UNCHANGED vars
  <2>1. UNCHANGED <<row, claimed, wire, pc, act, audit, faulted>>
    BY <1>29 DEF Tick, Reconfigure, vars, table, procs, pretix
  <2>2. QED
    BY <2>1 DEF Trail, NoOrphan, Owns, ProposalOnRecord, ApprovalOnRecord, OutcomeOnRecord, Writing
<1>30. ASSUME NEW p \in Procs, AnswerReported(p) PROVE Trail'
  <2>1. pc[p] = "await" /\ act[p] \in Actions /\ UNCHANGED <<row, claimed, wire>>
    BY <1>30, <1>b DEF AnswerReported, At, table, pretix
  <2>2. Moved(p, "auditPartial", act[p])
    BY <1>30, <1>a, Moves DEF AnswerReported
  <2>3. LogGrows
    BY <1>30, <1>a, <2>1, LogMoves DEF AnswerReported
  <2>4. Settled(p, "auditPartial", act[p])
    BY <2>1 DEF Settled, Answering, Owning
  <2>5. QED
    BY <2>1, <2>2, <2>3, <2>4, NothingNew, TrailMove
<1>31. QED
  BY <1>1, <1>2, <1>3, <1>4, <1>5, <1>6, <1>7, <1>8, <1>9, <1>10, <1>11, <1>12, <1>13,
     <1>14, <1>15, <1>16, <1>17, <1>18, <1>19, <1>20, <1>21, <1>22, <1>23, <1>24, <1>25,
     <1>26, <1>27, <1>28, <1>29, <1>30
  DEF Next, Begin, Step, Fail, Decide, Claim, Answer

\* At first no row calls for a line or an owner.
LEMMA TrailInit == Init => Trail
BY DEF Init, Trail, NoOrphan, ProposalOnRecord, ApprovalOnRecord, OutcomeOnRecord

\* The whole invariant holds in every reachable state.
LEMMA WholeInvariant == Spec => [](Typed /\ Safe /\ Trail)
<1>1. Init => Typed /\ Safe /\ Trail
  BY TypeInit, SafeInit, TrailInit
<1>2. Typed /\ Safe /\ Trail /\ [Next]_vars => (Typed /\ Safe /\ Trail)'
  BY TypeStep, SafeStep, TrailStep
<1>3. QED
  BY <1>1, <1>2, PTL DEF Spec

-----------------------------------------------------------------------------

\* The invariant that the runs check in parts holds in every instance.
THEOREM InvariantHolds == Spec => []IInv
<1>1. Typed /\ Safe /\ Trail => IInv
  BY TypedIsTypeOK DEF Safe, Trail, IInv
<1>2. QED
  BY <1>1, WholeInvariant, PTL

\* execute_approved calls finish() on every path: a row reads "executing" only while a
\* process owns it, or because a fault took that process away.
THEOREM NoOrphanHolds == Spec => []NoOrphan
<1>1. Typed /\ Safe /\ Trail => NoOrphan
  BY DEF Trail
<1>2. QED
  BY <1>1, WholeInvariant, PTL

\* The proposal, the approval and the execution of an executed action are all on record
\* once nobody works on it, unless a fault took a line (_propose, _approve, _execute).
THEOREM AuditTrailHolds == Spec => []AuditTrail
<1>1. Typed /\ Safe /\ Trail => AuditTrail
  <2> SUFFICES ASSUME Safe, Trail, NEW a \in Actions,
                      row[a] = "executed", ~Busy(a), ~faulted[a]
               PROVE  /\ {"proposed", "approved"} \subseteq audit[a]
                      /\ audit[a] \cap Outcomes # {}
    BY DEF AuditTrail
  <2>1. \A steps : ~Writing(a, steps)
    BY DEF Busy, Writing
  <2>2. claimed[a] /\ audit[a] \cap Outcomes # {}
    BY DEF Safe, ClaimedRows, TrueSuccess, OutcomesTrue, ExecutedIsTrue
  <2>3. "proposed" \in audit[a] /\ "approved" \in audit[a]
    BY <2>1, <2>2 DEF Trail, ProposalOnRecord, ApprovalOnRecord
  <2>4. QED
    BY <2>2, <2>3
<1>2. QED
  BY <1>1, WholeInvariant, PTL

\* A change that pretix applied has a line that says how its execution ended, once nobody
\* works on it and unless a fault took that line (_execute).
THEOREM NoSilentChangeHolds == Spec => []NoSilentChange
<1>1. Typed /\ Safe /\ Trail => NoSilentChange
  <2> SUFFICES ASSUME Safe, Trail, NEW a \in Actions, effects[a] > 0, ~Busy(a), ~faulted[a]
               PROVE  audit[a] \cap (Outcomes \cup {"failed"}) # {}
    BY DEF NoSilentChange
  <2>1. wire[a] # "none"
    BY DEF Safe, OneRequest
  <2>2. QED
    BY <2>1 DEF Trail, OutcomeOnRecord, Busy, Writing
<1>2. QED
  BY <1>1, WholeInvariant, PTL
=============================================================================
