--------------------------- MODULE SafeOnlinePolicy ---------------------------
(***************************************************************************)
(* SafeOnlinePolicyController and MeasuredActionSession, as the monitor    *)
(* thread of main.cpp drives them: each iteration reads the Quick Restore  *)
(* request, may execute one action, ticks (expiry, then verification) and  *)
(* serves the request.  Calls of the coordinator are single steps here,    *)
(* their inside is ActionCoordinator; between any two steps the clock, the *)
(* user and the targets may change, and the application may end.  Time     *)
(* passes while it is down, and its next start recovers what the journal   *)
(* lets it read: all of it, a part of it, or nothing.                      *)
(***************************************************************************)
EXTENDS Integers, Sequences, FiniteSets, FiniteSetsExt

CONSTANTS
  Keys,         \* cooldown keys: an action on a pid
  Txs,          \* transaction ids
  MaxActions,   \* maximumActionsPerHour
  Window,       \* the hour of the action budget
  Cooldown,     \* cooldownSeconds
  MaxDuration,  \* maximumActionSeconds
  Observation,  \* observationSeconds
  MaxGap,       \* bound: longest time between two ticks of a running application
  MaxTime,      \* bound of the clock
  MaxInc,       \* bound: processes that get a target's pid one after another
  MaxRestarts,  \* bound: how often the application ends
  None

\* What SafeOnlinePolicyController::Configure clamps its configuration to.
ASSUME PolicyAssumption ==
  /\ MaxActions \in Nat \ {0} /\ Cooldown \in Nat \ {0}
  /\ MaxDuration \in Nat \ {0} /\ Observation \in 1 .. MaxDuration
  /\ Window \in Nat \ {0} /\ MaxGap \in Nat /\ MaxTime \in Nat
  /\ MaxInc \in Nat \ {0} /\ MaxRestarts \in Nat
  /\ None \notin Keys

Times == 0 .. MaxTime + Cooldown + MaxDuration

\* What later calls use of an ActionTransaction.
Transactions == [key : Keys, inc : 1 .. MaxInc, orig : BOOLEAN, expires : Times]

ASSUME NoneAssumption == None \notin Transactions \cup Times

VARIABLES
  now,       \* the clock
  proc,      \* [Keys -> live, inc, lowered]: the targets
  rows,      \* the journal's unfinished transactions
  journalOpen, \* this start has opened the journal
  active,    \* active_ of the coordinator: its rows of this start
  unrestored, \* history: targets whose rollback failed, or whose row a start left
  ctl,       \* active_ of the controller: verifyAfterMs of its transactions
  before,    \* beforeByTransaction_: transactions with a PRE_ACTION snapshot
  budget,    \* actionHistory_
  cooldown,  \* cooldownUntil_
  learned,   \* how often the reward of a transaction was learned
  executed,  \* history: when actions were executed since the start
  used,      \* transaction ids handed out
  pc,        \* the monitor thread, or "down"
  decision,  \* outcome of Evaluate: an allowed key, or None
  current,   \* the transaction Execute is working on
  todo,      \* ids a loop of the monitor thread has yet to go through
  wanted,    \* quickRestoreRequested as read in this iteration
  quick,     \* g_quickRestoreRequests
  lastTick,  \* when the coordinator last looked for expired transactions
  restarts

coordVars == <<proc, rows, active, unrestored>>
gates     == <<budget, cooldown>>
loopVars  == <<decision, current, wanted>>
history   == <<executed, used, restarts, journalOpen>>
vars == <<now, proc, rows, journalOpen, active, unrestored, ctl, before, budget, cooldown,
          learned, executed, used, pc, decision, current, todo, wanted, quick, lastTick, restarts>>

-------------------------------------------------------------------------------
(* The coordinator, one call at a time. *)

TargetIs(tx) == proc[tx.key].live /\ proc[tx.key].inc = tx.inc
Unfinished == {t \in Txs : rows[t] # None}

\* Rollback of an active transaction, or of an unfinished row at a start: the
\* captured setting is written back to the captured process, or the failure is
\* reported.  The transaction is forgotten either way; its row is unfinished
\* still when the outcome cannot be saved.
RollBack(t) ==
  LET tx == rows[t] IN
  /\ active' = active \ {t}
  /\ UNCHANGED rows \/ rows' = [rows EXCEPT ![t] = None]
  /\ \/ /\ TargetIs(tx)
        /\ proc' = [proc EXCEPT ![tx.key].lowered = tx.orig]
        /\ UNCHANGED unrestored
     \/ ~proc[tx.key].live /\ UNCHANGED <<proc, unrestored>>
     \/ /\ proc[tx.key].live
        /\ unrestored' = unrestored \cup {<<tx.key, tx.inc>>}
        /\ UNCHANGED proc

-------------------------------------------------------------------------------
(* The iteration of the monitor thread. *)

ReadRequest ==
  /\ pc = "read" /\ pc' = "evaluate"
  /\ wanted' = quick
  /\ UNCHANGED <<now, coordVars, ctl, before, gates, learned, history, decision, current,
                 todo, quick, lastTick>>

\* What is left of a queue of times when its front is taken off for as long as it
\* is that old.
PopAged(times, age) ==
  LET fresh == {i \in 1 .. Len(times) : now - times[i] < age}
  IN  IF fresh = {} THEN <<>> ELSE SubSeq(times, Min(fresh), Len(times))

\* Fault: entries leave the budget one unit too early.
Prune_Early(times) == PopAged(times, Window - 1)

\* PruneBudget: the oldest entries are dropped once they are an hour old.
Prune(times) == PopAged(times, Window)

Eligible(k) ==
  /\ Len(Prune(budget)) < MaxActions
  /\ cooldown[k] <= now

\* Evaluate.  Its other gates (the kill-switch file, learned benefit, promotion,
\* deterministic policy, approval, ...) read nothing that the loop changes: any
\* target may pass them, and may be refused.
Admit ==
  /\ pc = "evaluate"
  /\ \E k \in Keys : Eligible(k) /\ decision' = k
  /\ budget' = Prune(budget)
  /\ pc' = "begin"
  /\ UNCHANGED <<now, coordVars, ctl, before, cooldown, learned, history, current, todo,
                 wanted, quick, lastTick>>

Refuse ==
  /\ pc = "evaluate"
  /\ budget' = Prune(budget)
  /\ pc' = "tick"
  /\ UNCHANGED <<now, coordVars, ctl, before, cooldown, learned, history, loopVars, todo,
                 quick, lastTick>>

\* The row of an action on k; its deadline counts from the beginning.
Planned(k) == [key |-> k, inc |-> proc[k].inc, orig |-> proc[k].lowered,
               expires |-> now + MaxDuration]

\* The next id of the coordinator; no id is handed out twice.
NewTransactionId == CHOOSE t \in Txs : t \notin used

\* MeasuredActionSession::Begin measures, lets the coordinator execute the
\* action and keeps the measurement.  Without its journal nothing is executed.
Begin ==
  /\ pc = "begin" /\ journalOpen /\ proc[decision].live
  /\ used # Txs                                           \* bound
  /\ current' = NewTransactionId /\ used' = used \cup {current'}
  /\ rows' = [rows EXCEPT ![current'] = Planned(decision)]
  /\ active' = active \cup {current'}
  /\ before' = before \cup {current'}
  /\ proc' = [proc EXCEPT ![decision].lowered = TRUE]
  /\ pc' = "account"
  /\ UNCHANGED <<now, unrestored, journalOpen, ctl, gates, learned, executed, restarts,
                 decision, todo, wanted, quick, lastTick>>

\* Fault: the status of the transaction is not looked at.
BeginFails_Accounted ==
  /\ pc = "begin" /\ pc' = "account"
  /\ UNCHANGED <<now, coordVars, ctl, before, gates, learned, history, loopVars, todo,
                 quick, lastTick>>

\* The coordinator refuses, or fails before, while or after applying the action.
\* When a later save fails, the row that was planned stays unfinished, and when
\* the rollback that follows fails as well, the target stays lowered.
BeginFails ==
  /\ pc = "begin" /\ pc' = "tick"
  /\ \/ UNCHANGED <<coordVars, used>>
     \/ /\ journalOpen /\ proc[decision].live
        /\ used # Txs                                     \* bound
        /\ used' = used \cup {NewTransactionId}
        /\ rows' = [rows EXCEPT ![NewTransactionId] = Planned(decision)]
        /\ \/ UNCHANGED <<proc, unrestored>>
           \/ /\ proc' = [proc EXCEPT ![decision].lowered = TRUE]
              /\ unrestored' = unrestored \cup {<<decision, proc[decision].inc>>}
        /\ UNCHANGED active
  /\ decision' = None
  /\ UNCHANGED <<now, journalOpen, ctl, before, gates, learned, executed, restarts,
                 current, todo, wanted, quick, lastTick>>

Account ==
  /\ pc = "account" /\ pc' = "tick"
  /\ budget' = Append(budget, now)
  /\ cooldown' = [cooldown EXCEPT ![decision] = now + Cooldown]
  /\ ctl' = [ctl EXCEPT ![current] = now + Observation]
  /\ executed' = Append(executed, now)
  /\ decision' = None /\ current' = None
  /\ UNCHANGED <<now, coordVars, journalOpen, before, learned, used, restarts, todo,
                 wanted, quick, lastTick>>

-------------------------------------------------------------------------------
(* Tick. *)

\* Fault: a transaction is not expired at its deadline, only after it.
CollectExpired_After ==
  /\ pc = "tick" /\ pc' = "expire"
  /\ todo' = {t \in active : rows[t].expires < now}
  /\ lastTick' = now
  /\ UNCHANGED <<now, coordVars, ctl, before, gates, learned, history, loopVars, quick>>

CollectExpired ==
  /\ pc = "tick" /\ pc' = "expire"
  /\ todo' = {t \in active : rows[t].expires <= now}
  /\ lastTick' = now
  /\ UNCHANGED <<now, coordVars, ctl, before, gates, learned, history, loopVars, quick>>

\* The order of an unordered_map is any order.
Expire ==
  /\ pc = "expire"
  /\ \E t \in todo : RollBack(t) /\ todo' = todo \ {t}
  /\ UNCHANGED <<now, ctl, before, gates, learned, history, pc, loopVars, quick, lastTick>>

CollectDue ==
  /\ pc = "expire" /\ todo = {}
  /\ pc' = "verify"
  /\ todo' = {t \in Txs : ctl[t] # None /\ ctl[t] <= now}
  /\ UNCHANGED <<now, coordVars, ctl, before, gates, learned, history, loopVars, quick, lastTick>>

Measured(t) ==
  /\ before' = before \ {t}
  /\ learned' = [learned EXCEPT ![t] = @ + 1]

\* Fault: the transaction is measured without looking whether it is active.
Verify_Unchecked ==
  /\ pc = "verify"
  /\ \E t \in todo :
       /\ todo' = todo \ {t}
       /\ ctl' = [ctl EXCEPT ![t] = None]
       /\ \/ UNCHANGED <<before, learned>>
          \/ t \in before /\ Measured(t)
  /\ UNCHANGED <<now, coordVars, gates, history, pc, loopVars, quick, lastTick>>

\* MeasuredActionSession::Verify of a due transaction.  It measures whatever
\* process has the pid; a harmful outcome rolls back; whatever the result,
\* the controller forgets the transaction.
Verify ==
  /\ pc = "verify"
  /\ \E t \in todo :
       /\ todo' = todo \ {t}
       /\ ctl' = [ctl EXCEPT ![t] = None]
       /\ \/ UNCHANGED <<coordVars, before, learned>>     \* missing or not measured
          \/ /\ t \in before /\ t \in active /\ proc[rows[t].key].live
             /\ Measured(t)
             /\ RollBack(t) \/ UNCHANGED coordVars        \* harmful, or not
  /\ UNCHANGED <<now, gates, history, pc, loopVars, quick, lastTick>>

-------------------------------------------------------------------------------
(* Quick Restore. *)

\* Fault: the request is cleared even when this iteration did not see it.
FinishTick_ClearsRequest ==
  /\ pc = "verify" /\ todo = {}
  /\ IF wanted THEN pc' = "stop" /\ todo' = {t \in Txs : ctl[t] # None}
               ELSE pc' = "read" /\ UNCHANGED todo
  /\ quick' = FALSE /\ wanted' = FALSE
  /\ UNCHANGED <<now, coordVars, ctl, before, gates, learned, history, decision, current,
                 lastTick>>

\* EmergencyStop works on what the controller still has as active.
FinishTick ==
  /\ pc = "verify" /\ todo = {}
  /\ IF wanted THEN pc' = "stop" /\ todo' = {t \in Txs : ctl[t] # None}
               ELSE pc' = "read" /\ UNCHANGED todo
  /\ wanted' = FALSE
  /\ UNCHANGED <<now, coordVars, ctl, before, gates, learned, history, decision, current,
                 quick, lastTick>>

\* Fault: the controller forgets a transaction without rolling it back.
StopOne_ForgetOnly ==
  /\ pc = "stop"
  /\ \E t \in todo :
       /\ todo' = todo \ {t}
       /\ ctl' = [ctl EXCEPT ![t] = None]
  /\ UNCHANGED <<now, coordVars, before, gates, learned, history, pc, loopVars, quick, lastTick>>

StopOne ==
  /\ pc = "stop"
  /\ \E t \in todo :
       /\ todo' = todo \ {t}
       /\ ctl' = [ctl EXCEPT ![t] = None]
       /\ IF t \in active THEN RollBack(t) ELSE UNCHANGED coordVars
  /\ UNCHANGED <<now, before, gates, learned, history, pc, loopVars, quick, lastTick>>

StopDone ==
  /\ pc = "stop" /\ todo = {}
  /\ pc' = "read" /\ quick' = FALSE
  /\ UNCHANGED <<now, coordVars, ctl, before, gates, learned, history, loopVars, todo,
                 lastTick>>

-------------------------------------------------------------------------------
(* The application ends, by its exit or a crash, and is started again.      *)

\* What the controller and the coordinator knew is lost, the rows are not.
End ==
  /\ pc # "down" /\ restarts < MaxRestarts
  /\ pc' = "down" /\ restarts' = restarts + 1
  /\ active' = {} /\ journalOpen' = FALSE
  /\ ctl' = [t \in Txs |-> None] /\ before' = {}
  /\ budget' = <<>> /\ cooldown' = [k \in Keys |-> 0] /\ executed' = <<>>
  /\ todo' = {} /\ decision' = None /\ current' = None /\ wanted' = FALSE /\ quick' = FALSE
  /\ UNCHANGED <<now, proc, rows, unrestored, learned, used, lastTick>>

\* Initialize, whose result main.cpp ignores.  Without its journal the controller
\* recovers nothing; LoadUnfinished may fail, or stop before the last row.
Boot ==
  /\ pc = "down" /\ pc' = "recover"
  /\ journalOpen' \in BOOLEAN
  /\ todo' \in IF journalOpen' THEN SUBSET Unfinished ELSE {{}}
  /\ unrestored' = unrestored \cup
       {<<rows[t].key, rows[t].inc>> : t \in Unfinished \ todo'}
  /\ lastTick' = now
  /\ UNCHANGED <<now, proc, rows, active, ctl, before, gates, learned, executed, used,
                 restarts, loopVars, quick>>

\* Fault: a row is marked as rolled back, the target is left as it is.
Recover_RowOnly ==
  /\ pc = "recover"
  /\ \/ /\ \E t \in todo : rows' = [rows EXCEPT ![t] = None] /\ todo' = todo \ {t}
        /\ UNCHANGED <<pc, proc, active, unrestored>>
     \/ /\ todo = {} /\ pc' = "read"
        /\ UNCHANGED <<coordVars, todo>>
  /\ UNCHANGED <<now, ctl, before, gates, learned, history, loopVars, quick, lastTick>>

\* RecoverUnfinished: what was read is rolled back, and the loop begins.
Recover ==
  /\ pc = "recover"
  /\ \/ /\ \E t \in todo : RollBack(t) /\ todo' = todo \ {t}
        /\ UNCHANGED pc
     \/ /\ todo = {} /\ pc' = "read"
        /\ UNCHANGED <<coordVars, todo>>
  /\ UNCHANGED <<now, ctl, before, gates, learned, history, loopVars, quick, lastTick>>

-------------------------------------------------------------------------------
(* The environment. *)

\* The iterations of a running application are bounded, its absence is not.
Advance ==
  /\ now < MaxTime /\ (pc # "down" => now < lastTick + MaxGap)
  /\ now' = now + 1
  /\ UNCHANGED <<coordVars, ctl, before, gates, learned, history, pc, loopVars, todo,
                 quick, lastTick>>

\* The user asks for Quick Restore.
Click ==
  /\ pc # "down" /\ quick' = TRUE
  /\ UNCHANGED <<now, coordVars, ctl, before, gates, learned, history, pc, loopVars, todo,
                 lastTick>>

Exit(k) ==
  /\ proc[k].live
  /\ proc' = [proc EXCEPT ![k].live = FALSE]
  /\ UNCHANGED <<now, rows, active, unrestored, ctl, before, gates, learned, history, pc,
                 loopVars, todo, quick, lastTick>>

Spawn(k) ==
  /\ ~proc[k].live /\ proc[k].inc < MaxInc
  /\ proc' = [proc EXCEPT ![k] = [live |-> TRUE, inc |-> @.inc + 1, lowered |-> FALSE]]
  /\ UNCHANGED <<now, rows, active, unrestored, ctl, before, gates, learned, history, pc,
                 loopVars, todo, quick, lastTick>>

-------------------------------------------------------------------------------
Init ==
  /\ now = 0
  /\ proc = [k \in Keys |-> [live |-> TRUE, inc |-> 1, lowered |-> FALSE]]
  /\ rows = [t \in Txs |-> None] /\ active = {} /\ unrestored = {}
  /\ journalOpen \in BOOLEAN
  /\ ctl = [t \in Txs |-> None] /\ before = {}
  /\ budget = <<>> /\ cooldown = [k \in Keys |-> 0]
  /\ learned = [t \in Txs |-> 0] /\ executed = <<>> /\ used = {}
  /\ pc = "read" /\ decision = None /\ current = None /\ todo = {}
  /\ wanted = FALSE /\ quick = FALSE
  /\ lastTick = 0 /\ restarts = 0

Monitor ==
  \/ ReadRequest \/ Admit \/ Refuse \/ Begin \/ BeginFails \/ Account
  \/ CollectExpired \/ Expire \/ CollectDue \/ Verify \/ FinishTick
  \/ StopOne \/ StopDone \/ Recover

Environment ==
  Advance \/ Click \/ \E k \in Keys : Exit(k) \/ Spawn(k)

Next == Monitor \/ End \/ Boot \/ Environment

Spec == Init /\ [][Next]_vars

\* The monitor thread keeps running while the application does.  Nothing is
\* assumed of the clock, nor of the next start.
FairSpec == Spec /\ WF_vars(Monitor)

-------------------------------------------------------------------------------
(* Properties. *)

PCs == {"read", "evaluate", "begin", "account", "tick", "expire", "verify", "stop", "down", "recover"}

TypeOK ==
  /\ now \in 0 .. MaxTime /\ lastTick \in 0 .. MaxTime
  /\ proc \in [Keys -> [live : BOOLEAN, inc : 1 .. MaxInc, lowered : BOOLEAN]]
  /\ rows \in [Txs -> Transactions \cup {None}]
  /\ active \subseteq Unfinished /\ Unfinished \subseteq used
  /\ unrestored \subseteq Keys \X (1 .. MaxInc)
  /\ journalOpen \in BOOLEAN
  /\ ctl \in [Txs -> Times \cup {None}]
  /\ before \subseteq Txs /\ used \subseteq Txs /\ todo \subseteq Txs
  /\ budget \in Seq(Times) /\ executed \in Seq(Times)
  /\ cooldown \in [Keys -> Times]
  /\ learned \in [Txs -> Nat]
  /\ pc \in PCs
  /\ decision \in Keys \cup {None}
  /\ pc \in {"begin", "account"} => decision \in Keys
  /\ pc = "account" => current \in Txs
  /\ current \in Txs \cup {None}
  /\ wanted \in BOOLEAN /\ quick \in BOOLEAN
  /\ restarts \in 0 .. MaxRestarts

\* Any MaxActions + 1 actions executed since the application was started span
\* more than the budget's window, however the loop's iterations are spaced.
HourlyBudget ==
  \A i, j \in DOMAIN executed :
    j - i >= MaxActions => executed[j] - executed[i] >= Window

Running == pc \notin {"down", "recover"}

\* What will be rolled back: by the running application, by the recovery that
\* is under way, or by the next one.
Responsible == IF Running THEN active ELSE IF pc = "recover" THEN todo ELSE Unfinished

\* A live target is lowered only by a transaction that will still restore it,
\* running or not, unless a rollback of it has failed or a start did not read
\* its row.  This needs a cooldown that outlasts the action and the gap between
\* two ticks: an action executed before the tick that expires its predecessor
\* captures a setting that is lowered.
NotLeftLowered ==
  \A k \in Keys :
    proc[k].live /\ proc[k].lowered =>
      \/ \E t \in Responsible : rows[t].key = k /\ TargetIs(rows[t]) /\ ~rows[t].orig
      \/ <<k, proc[k].inc>> \in unrestored

\* While the application runs, what lowers a target is an action whose deadline
\* is not over by two gaps of the loop; with the same exceptions.  Nothing bounds
\* the time of an action while the application is down, or until it has recovered.
DeadlineKept ==
  Running =>
    \A k \in Keys :
      proc[k].live /\ proc[k].lowered =>
        \/ \E t \in active :
             rows[t].key = k /\ TargetIs(rows[t]) /\ now < rows[t].expires + 2 * MaxGap
        \/ <<k, proc[k].inc>> \in unrestored

\* A reward is learned from a transaction that was in force, and once.
LearnedInForce ==
  [][\A t \in Txs : learned'[t] > learned[t] => t \in active /\ learned'[t] = 1]_vars

\* An EmergencyStop leaves nothing in force that is still being observed.
StopRestoresObserved ==
  [][pc = "stop" /\ pc' = "read" =>
       \A t \in active' : now >= rows'[t].expires - MaxDuration + Observation]_vars

\* A click on Quick Restore is not lost, whenever it comes: what is awaiting
\* its verification is taken off, even if the clock stands still.
ClickServed ==
  \A t \in Txs : (quick /\ ctl[t] # None) ~> ctl[t] = None

-------------------------------------------------------------------------------
(* What a document says and the code does not do. *)

\* THREAT_MODEL.md: "Quick Restore requested | Roll back process actions".  An
\* action that was verified is no longer known to the controller.
QuickRestoreRollsBack ==
  [][pc = "stop" /\ pc' = "read" => active' = {}]_vars
===============================================================================
