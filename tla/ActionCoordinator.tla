-------------------------- MODULE ActionCoordinator --------------------------
(***************************************************************************)
(* ActionCoordinator, ActionJournal and WindowsProcessActionExecutor of    *)
(* ResourceOrchestrator.cpp: a transaction lowers one resource setting of  *)
(* another process and gives it back later.  One action stands for one     *)
(* step between two points where another thread, the target process or a   *)
(* crash can intervene: a lock section, a journal write, a native call.    *)
(***************************************************************************)
EXTENDS Integers, FiniteSets

CONSTANTS
  Pids,            \* process ids that may be targeted
  Txs,             \* transaction ids that NewTransactionId may hand out
  Callers,         \* threads calling the coordinator
  Monitor,         \* the monitor thread: recovers at start-up and ticks
  Actions,         \* the ResourceActionTypes in use
  MaxIncarnation,  \* bound: processes that get the same pid one after another
  MaxCrashes,      \* bound: crashes of the application
  Faults,          \* which native and database calls may fail
  None             \* "no value"

AllActions == {"LowerPriority", "EnableEcoQos", "LowerMemoryPriority"}
AllFaults  == {"capture", "apply", "restore", "save", "open", "load"}

ASSUME CoordinatorAssumption ==
  /\ Monitor \in Callers
  /\ Actions \subseteq AllActions
  /\ MaxIncarnation \in Nat \ {0}
  /\ MaxCrashes \in Nat
  /\ Faults \subseteq AllFaults

VARIABLES
  proc,        \* [Pids -> live, incarnation (creation time), settings]
  native,      \* history: the settings each process was created with
  journal,     \* the rows of action_transactions (durable)
  journalOpen, \* ActionJournal::db_ is open
  active,      \* ActionCoordinator::active_ (volatile)
  work,        \* what each caller is doing, with its local variables
  used,        \* transaction ids handed out
  due,         \* transactions whose expiresAtMs has passed
  phase,       \* the application: stopped, crashed, recovering or up
  recovered,   \* this start read the unfinished rows
  crashes,     \* crashes so far
  effect,      \* history: transactions whose change is in a live target
  gaveUp       \* history: transactions whose rollback failed at least once

procVars == <<proc, native>>
appVars  == <<phase, recovered, journalOpen, crashes>>
history  == <<effect, gaveUp>>
vars == <<proc, native, journal, journalOpen, active, work, used, due, phase,
          recovered, crashes, effect, gaveUp>>

-------------------------------------------------------------------------------
(* Settings of a process, and what the executor's calls do to them.  Power  *)
(* throttling is "Managed" while ControlMask is 0, else On or Off.          *)

Settings == [LowerPriority       |-> {"Idle", "BelowNormal", "Normal"},
             EnableEcoQos        |-> {"Managed", "Off", "On"},
             LowerMemoryPriority |-> {"Low", "Normal"}]
AllSettings == {"Idle", "BelowNormal", "Normal", "Managed", "Off", "On", "Low"}

Lowered(a, v) ==
  CASE a = "LowerPriority" -> IF v = "Idle" THEN "Idle" ELSE "BelowNormal"
    [] a = "EnableEcoQos"  -> "On"
    [] OTHER               -> "Low"

\* Fault: the default is restored instead of what was captured.
Restored_Default(a, orig) ==
  IF a = "LowerPriority" THEN "Normal" ELSE orig

\* Rollback writes ControlMask = EXECUTION_SPEED whatever was captured, so a
\* system-managed process comes back as explicitly not throttled.
Restored(a, orig) ==
  IF a = "EnableEcoQos" /\ orig = "Managed" THEN "Off" ELSE orig

\* The effective setting: a system-managed process is not throttled.
Effective(v) == IF v = "Managed" THEN "Off" ELSE v

ActionSettings == {f \in [Actions -> AllSettings] :
                     \A a \in Actions : f[a] \in Settings[a]}

-------------------------------------------------------------------------------
(* Transactions.  A plan is the part of an ActionTransaction that rollback *)
(* reads: target, action, captured identity and original state.            *)

Incarnations == 0 .. MaxIncarnation
Plans == [pid : Pids, action : Actions, inc : Incarnations,
          orig : AllSettings \cup {None}]

ASSUME NoneAssumption == None \notin Txs \cup Plans \cup AllSettings

Unfinished == {"PLANNED", "EXECUTED"}
Outcomes   == {"ROLLED_BACK", "TARGET_EXITED", "ROLLBACK_FAILED"}
Refusals   == {"BLOCKED", "FAILED"}
Settled    == Outcomes \cup Refusals
Statuses   == {"NONE"} \cup Unfinished \cup Settled

NoRow == [status |-> "NONE", plan |-> None]

\* The upsert of ActionJournal::Save: a conflict updates the status only.
Upsert(t, s, plan) ==
  [journal EXCEPT ![t] = IF @.status = "NONE"
                         THEN [status |-> s, plan |-> plan]
                         ELSE [@ EXCEPT !.status = s]]

SaveOk(t, s, plan) == journalOpen /\ journal' = Upsert(t, s, plan)
SaveFails == (~journalOpen \/ "save" \in Faults) /\ UNCHANGED journal

Idle == [pc |-> "idle", id |-> None, plan |-> None, status |-> "NONE",
         queue |-> {}]
At(c, pc) == work[c].pc = pc
Set(c, w) == work' = [work EXCEPT ![c] = w]
Goto(c, pc) == work' = [work EXCEPT ![c].pc = pc]

TargetIs(plan) == proc[plan.pid].live /\ proc[plan.pid].inc = plan.inc

Write(plan, v) ==
  proc' = [proc EXCEPT ![plan.pid].attr[plan.action] = v]

-------------------------------------------------------------------------------
(* ActionCoordinator::Begin. *)

\* Begin returns before it has captured anything: the action is not
\* supported, or ActionSafetyShield::Evaluate refuses or cannot read the
\* target.  The row it leaves behind has no identity and no original state.
BeginRefused(c) ==
  /\ phase = "up" /\ At(c, "idle")
  /\ \E t \in Txs \ used, p \in Pids, a \in Actions :
       /\ used' = used \cup {t}
       /\ \/ SaveOk(t, "BLOCKED", [pid |-> p, action |-> a, inc |-> 0, orig |-> None])
          \/ SaveFails
  /\ UNCHANGED <<procVars, appVars, history, active, work, due>>

\* The safety shield passes; it has read the identity the target has now.
BeginShielded(c) ==
  /\ phase = "up" /\ At(c, "idle")
  /\ \E t \in Txs \ used, p \in Pids, a \in Actions :
       /\ proc[p].live
       /\ used' = used \cup {t}
       /\ Set(c, [pc |-> "shielded", id |-> t, status |-> "NONE", queue |-> {},
                  plan |-> [pid |-> p, action |-> a, inc |-> proc[p].inc,
                            orig |-> None]])
  /\ UNCHANGED <<procVars, appVars, history, journal, active, due>>

\* Begin ends with the given refusal, recorded if the journal can be written.
GiveUp(c, status) ==
  /\ Set(c, Idle)
  /\ \/ SaveOk(work[c].id, status, work[c].plan)
     \/ SaveFails

\* The executor opens the target again: it may have exited, or its pid may
\* have been reused since the shield read it.
CaptureFails(c) ==
  /\ At(c, "shielded")
  /\ \/ /\ ~proc[work[c].plan.pid].live \/ "capture" \in Faults
        /\ GiveUp(c, "FAILED")
     \/ /\ proc[work[c].plan.pid].live /\ ~TargetIs(work[c].plan)
        /\ GiveUp(c, "BLOCKED")
  /\ UNCHANGED <<procVars, appVars, history, active, used, due>>

\* Fault: the transaction goes on without its write-ahead row.
CaptureState_NoRow(c) ==
  LET plan == work[c].plan IN
  /\ At(c, "shielded")
  /\ TargetIs(plan)
  /\ Set(c, [work[c] EXCEPT !.pc = "planned",
                            !.plan.orig = proc[plan.pid].attr[plan.action]])
  /\ UNCHANGED <<procVars, appVars, history, journal, active, used, due>>

CaptureState(c) ==
  LET plan == work[c].plan IN
  /\ At(c, "shielded")
  /\ TargetIs(plan)
  /\ Set(c, [work[c] EXCEPT !.pc = "captured",
                            !.plan.orig = proc[plan.pid].attr[plan.action]])
  /\ UNCHANGED <<procVars, appVars, history, journal, active, used, due>>

\* Fault: a failed write is not noticed.
SavePlanned_Unchecked(c) ==
  /\ At(c, "captured")
  /\ SaveOk(work[c].id, "PLANNED", work[c].plan) \/ SaveFails
  /\ Goto(c, "planned")
  /\ UNCHANGED <<procVars, appVars, history, active, used, due>>

\* The write-ahead step: without a PLANNED row nothing is applied.
SavePlanned(c) ==
  /\ At(c, "captured")
  /\ \/ SaveOk(work[c].id, "PLANNED", work[c].plan) /\ Goto(c, "planned")
     \/ SaveFails /\ Set(c, Idle)
  /\ UNCHANGED <<procVars, appVars, history, active, used, due>>

ApplyFails(c) ==
  /\ At(c, "planned")
  /\ ~TargetIs(work[c].plan) \/ "apply" \in Faults
  /\ GiveUp(c, "FAILED")
  /\ UNCHANGED <<procVars, appVars, history, active, used, due>>

Apply(c) ==
  LET plan == work[c].plan IN
  /\ At(c, "planned")
  /\ TargetIs(plan)
  /\ Write(plan, Lowered(plan.action, proc[plan.pid].attr[plan.action]))
  /\ effect' = effect \cup {work[c].id}
  /\ Goto(c, "applied")
  /\ UNCHANGED <<appVars, native, journal, active, used, due, gaveUp>>

SaveExecuted(c) ==
  /\ At(c, "applied")
  /\ \/ SaveOk(work[c].id, "EXECUTED", work[c].plan) /\ Goto(c, "confirmed")
     \/ SaveFails /\ Goto(c, "unsaved")
  /\ UNCHANGED <<procVars, appVars, history, active, used, due>>

\* Fault: an executed transaction is not remembered.
Register_Skipped(c) ==
  /\ At(c, "confirmed")
  /\ Set(c, Idle)
  /\ UNCHANGED <<procVars, appVars, history, journal, active, used, due>>

Register(c) ==
  /\ At(c, "confirmed")
  /\ active' = [active EXCEPT ![work[c].id] = work[c].plan]
  /\ Set(c, Idle)
  /\ UNCHANGED <<procVars, appVars, history, journal, used, due>>

-------------------------------------------------------------------------------
(* WindowsProcessActionExecutor::Rollback, as called by caller c. *)

\* Fault: whatever process has the pid now is written to.
GiveBack_AnyIdentity(c) ==
  /\ proc[work[c].plan.pid].live
  /\ Write(work[c].plan, Restored(work[c].plan.action, work[c].plan.orig))
  /\ effect' = effect \ {work[c].id}
  /\ UNCHANGED <<native, gaveUp>>

\* The target is the captured process and its setting is written back.
GiveBack(c) ==
  /\ TargetIs(work[c].plan)
  /\ Write(work[c].plan, Restored(work[c].plan.action, work[c].plan.orig))
  /\ effect' = effect \ {work[c].id}
  /\ UNCHANGED <<native, gaveUp>>

TargetGone(c) ==
  /\ ~proc[work[c].plan.pid].live
  /\ UNCHANGED <<procVars, history>>

\* The pid belongs to another process, or a native call fails.
GiveBackFails(c) ==
  /\ proc[work[c].plan.pid].live
  /\ ~TargetIs(work[c].plan) \/ "restore" \in Faults
  /\ gaveUp' = gaveUp \cup {work[c].id}
  /\ UNCHANGED <<procVars, effect>>

\* Begin could not record the execution: it takes the change back at once and
\* leaves the journal as it is.
UndoUnsaved(c) ==
  /\ At(c, "unsaved")
  /\ GiveBack(c) \/ TargetGone(c) \/ GiveBackFails(c)
  /\ Set(c, Idle)
  /\ UNCHANGED <<appVars, journal, active, used, due>>

-------------------------------------------------------------------------------
(* ActionCoordinator::Rollback, Tick and RecoverUnfinished.  Each works     *)
(* through a set of ids: one, the expired ones, the unfinished rows.        *)

Recovering(c) == phase = "recovering" /\ c = Monitor

RollbackCall(c) ==
  /\ phase = "up" /\ At(c, "idle")
  /\ \E t \in Txs : /\ active[t] # None
                    /\ Set(c, [Idle EXCEPT !.pc = "next", !.queue = {t}])
  /\ UNCHANGED <<procVars, appVars, history, journal, active, used, due>>

\* Tick collects the expired ids in one lock section, then rolls back each.
Tick ==
  /\ phase = "up" /\ At(Monitor, "idle")
  /\ Set(Monitor, [Idle EXCEPT !.pc = "next",
                               !.queue = {t \in due : active[t] # None}])
  /\ UNCHANGED <<procVars, appVars, history, journal, active, used, due>>

\* Fault: an id that is no longer active is not an error.
Lookup_Unchecked(c) ==
  /\ At(c, "next")
  /\ \E t \in work[c].queue :
       Set(c, [work[c] EXCEPT !.pc = "found", !.id = t, !.queue = @ \ {t},
                 !.plan = IF Recovering(c) THEN journal[t].plan ELSE active[t]])
  /\ UNCHANGED <<procVars, appVars, history, journal, active, used, due>>

\* Rollback copies the transaction under the lock and releases the lock; an id
\* somebody else has removed is an error.  Recovery works on the loaded rows.
Lookup(c) ==
  /\ At(c, "next")
  /\ \E t \in work[c].queue :
       LET plan == IF Recovering(c) THEN journal[t].plan ELSE active[t] IN
       Set(c, IF plan = None
              THEN [work[c] EXCEPT !.queue = @ \ {t}]
              ELSE [work[c] EXCEPT !.pc = "found", !.id = t, !.plan = plan,
                                   !.queue = @ \ {t}])
  /\ UNCHANGED <<procVars, appVars, history, journal, active, used, due>>

Restore(c) ==
  /\ At(c, "found")
  /\ \E s \in Outcomes :
       /\ \/ s = "ROLLED_BACK"     /\ GiveBack(c)
          \/ s = "TARGET_EXITED"   /\ TargetGone(c)
          \/ s = "ROLLBACK_FAILED" /\ GiveBackFails(c)
       /\ Set(c, [work[c] EXCEPT !.pc = "restored", !.status = s])
  /\ UNCHANGED <<appVars, journal, active, used, due>>

RecordOutcome(c) ==
  /\ At(c, "restored")
  /\ SaveOk(work[c].id, work[c].status, work[c].plan) \/ SaveFails
  /\ Goto(c, IF Recovering(c) THEN "next" ELSE "recorded")
  /\ UNCHANGED <<procVars, appVars, history, active, used, due>>

\* Rollback forgets the transaction whatever the outcome was.
Forget(c) ==
  /\ At(c, "recorded")
  /\ active' = [active EXCEPT ![work[c].id] = None]
  /\ Goto(c, "next")
  /\ UNCHANGED <<procVars, appVars, history, journal, used, due>>

Return(c) ==
  /\ At(c, "next") /\ work[c].queue = {}
  /\ Set(c, Idle)
  /\ phase' = "up"
  /\ UNCHANGED <<procVars, history, journal, journalOpen, active, used, due,
                 recovered, crashes>>

-------------------------------------------------------------------------------
(* The application's life. *)

Down == phase \in {"stopped", "crashed"}

\* Fault: recovery reads the rows of one status only.
Boot_ExecutedOnly ==
  /\ Down
  /\ journalOpen' = TRUE /\ recovered' = TRUE /\ phase' = "recovering"
  /\ Set(Monitor, [Idle EXCEPT !.pc = "next",
                     !.queue = {t \in Txs : journal[t].status = "EXECUTED"}])
  /\ UNCHANGED <<procVars, history, journal, active, used, due, crashes>>

\* Fault: recovery repeats failed rollbacks too.
Boot_Retries ==
  /\ Down
  /\ journalOpen' = TRUE /\ recovered' = TRUE /\ phase' = "recovering"
  /\ Set(Monitor, [Idle EXCEPT !.pc = "next",
                     !.queue = {t \in Txs : journal[t].status \in
                                  Unfinished \cup {"ROLLBACK_FAILED"}}])
  /\ UNCHANGED <<procVars, history, journal, active, used, due, crashes>>

\* SafeOnlinePolicyController::Initialize: open the journal, recover from it.
Boot ==
  /\ Down
  /\ journalOpen' = TRUE /\ recovered' = TRUE /\ phase' = "recovering"
  /\ Set(Monitor, [Idle EXCEPT !.pc = "next",
                     !.queue = {t \in Txs : journal[t].status \in Unfinished}])
  /\ UNCHANGED <<procVars, history, journal, active, used, due, crashes>>

\* Without its journal, or when the unfinished rows cannot be read, the
\* application starts all the same and recovers nothing.
BootUnrecovered ==
  /\ Down
  /\ \/ "open" \in Faults /\ journalOpen' = FALSE
     \/ "load" \in Faults /\ journalOpen' = TRUE
  /\ recovered' = FALSE /\ phase' = "up"
  /\ UNCHANGED <<procVars, history, journal, active, work, used, due, crashes>>

LoseMemory ==
  /\ active' = [t \in Txs |-> None]
  /\ work' = [c \in Callers |-> Idle]
  /\ journalOpen' = FALSE /\ recovered' = FALSE
  /\ UNCHANGED <<procVars, history, journal, used, due>>

Crash ==
  /\ ~Down /\ crashes < MaxCrashes
  /\ phase' = "crashed" /\ crashes' = crashes + 1
  /\ LoseMemory

\* The monitor thread leaves its loop and the coordinator is destroyed: it
\* has no destructor that would roll back what is active.
Stop ==
  /\ phase = "up" /\ \A c \in Callers : At(c, "idle")
  /\ phase' = "stopped" /\ UNCHANGED crashes
  /\ LoseMemory

-------------------------------------------------------------------------------
(* The environment: time and the target processes. *)

DeadlinePasses ==
  /\ \E t \in effect \cup {u \in Txs : active[u] # None} :
       /\ t \notin due
       /\ due' = due \cup {t}
  /\ UNCHANGED <<procVars, appVars, history, journal, active, work, used>>

Exit(p) ==
  /\ proc[p].live
  /\ proc' = [proc EXCEPT ![p].live = FALSE]
  /\ effect' = {t \in effect : journal[t].plan.pid # p}
  /\ UNCHANGED <<appVars, native, journal, active, work, used, due, gaveUp>>

\* Windows gives the pid to a new process.
Spawn(p) ==
  /\ ~proc[p].live /\ proc[p].inc < MaxIncarnation
  /\ \E attr \in ActionSettings :
       /\ proc' = [proc EXCEPT ![p] = [live |-> TRUE, inc |-> @.inc + 1, attr |-> attr]]
       /\ native' = [native EXCEPT ![p] = attr]
  /\ UNCHANGED <<appVars, history, journal, active, work, used, due>>

-------------------------------------------------------------------------------
Init ==
  /\ native \in [Pids -> ActionSettings]
  /\ proc = [p \in Pids |-> [live |-> TRUE, inc |-> 1, attr |-> native[p]]]
  /\ journal = [t \in Txs |-> NoRow]
  /\ journalOpen = FALSE
  /\ active = [t \in Txs |-> None]
  /\ work = [c \in Callers |-> Idle]
  /\ used = {} /\ due = {}
  /\ phase = "stopped" /\ recovered = FALSE /\ crashes = 0
  /\ effect = {} /\ gaveUp = {}

BeginStep(c) ==
  \/ BeginRefused(c) \/ BeginShielded(c) \/ CaptureFails(c) \/ CaptureState(c)
  \/ SavePlanned(c) \/ ApplyFails(c) \/ Apply(c) \/ SaveExecuted(c)
  \/ Register(c) \/ UndoUnsaved(c)

RollbackStep(c) ==
  \/ RollbackCall(c) \/ Lookup(c) \/ Restore(c) \/ RecordOutcome(c)
  \/ Forget(c) \/ Return(c)

Environment == DeadlinePasses \/ \E p \in Pids : Exit(p) \/ Spawn(p)

Next ==
  \/ \E c \in Callers : BeginStep(c) \/ RollbackStep(c)
  \/ Tick \/ Boot \/ BootUnrecovered \/ Crash \/ Stop
  \/ Environment

Spec == Init /\ [][Next]_vars

\* A call that has begun runs to its end; the monitor thread keeps ticking;
\* the agent is started again at logon; time passes.
Fairness ==
  /\ \A c \in Callers :
       /\ WF_vars(CaptureFails(c) \/ CaptureState(c) \/ SavePlanned(c)
                  \/ ApplyFails(c) \/ Apply(c) \/ SaveExecuted(c)
                  \/ Register(c) \/ UndoUnsaved(c))
       /\ WF_vars(Lookup(c) \/ Restore(c) \/ RecordOutcome(c) \/ Forget(c) \/ Return(c))
  /\ WF_vars(DeadlinePasses)
  /\ SF_vars(Tick /\ \E t \in due : active[t] # None)
  /\ WF_vars(Boot)

FairSpec == Spec /\ Fairness

-------------------------------------------------------------------------------
(* Properties. *)

PCs == {"idle", "shielded", "captured", "planned", "applied", "unsaved",
        "confirmed", "next", "found", "restored", "recorded"}
Rows == [status : Statuses, plan : Plans \cup {None}]
Processes == [live : BOOLEAN, inc : Incarnations, attr : [Actions -> AllSettings]]
CallerStates == [pc : PCs, id : Txs \cup {None}, plan : Plans \cup {None},
                 status : Statuses, queue : SUBSET Txs]

TypeOK ==
  /\ proc \in [Pids -> Processes]
  /\ native \in [Pids -> [Actions -> AllSettings]]
  /\ journal \in [Txs -> Rows]
  /\ active \in [Txs -> Plans \cup {None}]
  /\ work \in [Callers -> CallerStates]
  /\ \A c \in Callers : ~At(c, "idle") /\ ~At(c, "next") =>
       work[c].id \in Txs /\ work[c].plan \in Plans
  /\ used \subseteq Txs /\ due \subseteq Txs
  /\ effect \subseteq Txs /\ gaveUp \subseteq Txs
  /\ phase \in {"stopped", "crashed", "recovering", "up"}
  /\ journalOpen \in BOOLEAN /\ recovered \in BOOLEAN
  /\ crashes \in 0 .. MaxCrashes

\* A change present in a live target always has a row recovery would act on,
\* for that very process, or a row saying that its rollback failed: the journal
\* never calls a lowered process restored, exited, failed or blocked.
UndoRecordKept ==
  \A t \in effect :
    /\ \/ journal[t].status \in Unfinished
       \/ journal[t].status = "ROLLBACK_FAILED" /\ t \in gaveUp
    /\ journal[t].plan \in Plans
    /\ TargetIs(journal[t].plan)

Handles(c, t) ==
  \/ ~At(c, "idle") /\ ~At(c, "next") /\ work[c].id = t
  \/ t \in work[c].queue

\* While an application that has recovered runs, no change is orphaned: the
\* transaction is active, or a call or the recovery is about to deal with it,
\* unless a rollback attempt has already failed.
NoOrphan ==
  ~Down /\ (phase = "up" => recovered) =>
    \A t \in effect \ gaveUp : active[t] # None \/ \E c \in Callers : Handles(c, t)

OnTarget(t, p, a) ==
  /\ journal[t].plan # None
  /\ journal[t].plan.pid = p /\ journal[t].plan.action = a
  /\ journal[t].plan.inc = proc[p].inc

\* No transaction was planned while another one had the setting lowered.
CapturedNative(p, a) ==
  \A t \in Txs : OnTarget(t, p, a) /\ journal[t].plan.orig # None =>
                   Effective(journal[t].plan.orig) = Effective(native[p][a])

\* When no change is in effect on a live process its setting is, in effect,
\* the one the process had before the first action.  In particular a new
\* process under a reused pid is never touched.  Transactions that captured a
\* setting already lowered by another one are excepted.
OriginalRestored ==
  \A p \in Pids, a \in Actions :
    /\ proc[p].live
    /\ CapturedNative(p, a)
    /\ \A t \in effect : ~OnTarget(t, p, a)
    => Effective(proc[p].attr[a]) = Effective(native[p][a])

\* The database keeps what was captured before the action, and a settled row
\* is never rewritten: a restart repeats only what is unfinished.
SettledRowsFinal ==
  [][\A t \in Txs :
       /\ journal[t].status # "NONE" => journal'[t].plan = journal[t].plan
       /\ journal[t].status \in Settled => journal'[t].status = journal[t].status]_vars

\* Every change is taken back, fails to be taken back, or ends with its
\* target: deadlines, crashes and restarts included.
EventuallyReleased ==
  \A t \in Txs : t \in effect ~> (t \notin effect \/ t \in gaveUp)

RA == INSTANCE ReversibleAction WITH
        promised  <- {t \in Txs : journal[t].status \in Unfinished},
        inEffect  <- effect,
        abandoned <- gaveUp

\* The coordinator keeps the promise of ReversibleAction.
KeepsPromise == RA!Spec
===============================================================================
