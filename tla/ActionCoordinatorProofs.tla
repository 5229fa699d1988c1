------------------------ MODULE ActionCoordinatorProofs ------------------------
(***************************************************************************)
(* Theorems about ActionCoordinator, for any number of processes,          *)
(* transactions, callers and crashes and for any set of failing calls.     *)
(***************************************************************************)
EXTENDS ActionCoordinator, TLAPS

BeginPCs    == {"shielded", "captured", "planned", "applied", "unsaved", "confirmed"}
RollbackPCs == {"found", "restored", "recorded"}

HasRow(t) == journal[t].status # "NONE"

\* The row of a transaction that got as far as capturing the original state.
Captured(t) == HasRow(t) /\ journal[t].plan.orig \in AllSettings

\* An id that was not handed out is nowhere.
UnusedNowhere ==
  \A t \in Txs \ used :
    /\ journal[t] = NoRow /\ t \notin effect /\ active[t] = None
    /\ \A c \in Callers : ~Handles(c, t)

\* A row has the plan of its transaction; an unfinished one can be undone.
RowsHavePlans ==
  \A t \in Txs :
    /\ IF HasRow(t) THEN journal[t].plan \in Plans ELSE journal[t] = NoRow
    /\ journal[t].status \in Unfinished => Captured(t)

\* Who may be busy in each phase of the application.
PhaseOK ==
  /\ phase # "up" => \A t \in Txs : active[t] = None
  /\ phase # "up" => \A c \in Callers \ {Monitor} : work[c] = Idle
  /\ Down => work[Monitor] = Idle
  /\ phase = "recovering" => work[Monitor].pc \in {"next", "found", "restored"}
  /\ \A c \in Callers : work[c].pc \in BeginPCs \cup {"idle"} => work[c].queue = {}

\* A call of Begin owns its transaction until it is registered.
BeginOK(c) ==
  LET t == work[c].id IN
  work[c].pc \in BeginPCs =>
    /\ t \in used /\ active[t] = None
    /\ \A d \in Callers \ {c} : ~Handles(d, t)
    /\ ~At(c, "shielded") => work[c].plan.orig \in AllSettings
    /\ At(c, "shielded") \/ At(c, "captured") => ~HasRow(t) /\ t \notin effect
    /\ At(c, "planned") => journal[t].status = "PLANNED" /\ t \notin effect
    /\ At(c, "applied") \/ At(c, "unsaved") \/ At(c, "confirmed") =>
         journal[t].status \in Unfinished
    /\ ~At(c, "shielded") /\ ~At(c, "captured") => journal[t].plan = work[c].plan

ActiveOK ==
  \A t \in Txs : active[t] # None => Captured(t) /\ active[t] = journal[t].plan

\* A queued id that is no longer active was settled or reported meanwhile.
QueueOK(c) ==
  \A t \in work[c].queue :
    /\ Captured(t)
    /\ active[t] = None /\ ~Recovering(c) => t \notin effect \/ t \in gaveUp

\* A rollback that has been tried either took the change back or has failed.
RollbackOK(c) ==
  LET t == work[c].id IN
  work[c].pc \in RollbackPCs =>
    /\ Captured(t) /\ journal[t].plan = work[c].plan
    /\ ~At(c, "found") =>
         /\ work[c].status \in Outcomes
         /\ t \in effect => work[c].status = "ROLLBACK_FAILED" /\ t \in gaveUp

CallersOK == \A c \in Callers : BeginOK(c) /\ QueueOK(c) /\ RollbackOK(c)

\* The inductive invariant.
IInv ==
  /\ TypeOK
  /\ UnusedNowhere
  /\ RowsHavePlans
  /\ PhaseOK
  /\ CallersOK
  /\ ActiveOK
  /\ UndoRecordKept
  /\ NoOrphan

-------------------------------------------------------------------------------
(* What a step changes, in the form the proofs use it. *)

\* A caller's step replaces its own local state.
LEMMA CallerStep ==
  ASSUME TypeOK, NEW c \in Callers, NEW w \in CallerStates,
         work' = [work EXCEPT ![c] = w],
         w.pc \notin {"idle", "next"} => w.id \in Txs /\ w.plan \in Plans
  PROVE  /\ work' \in [Callers -> CallerStates]
         /\ work'[c] = w
         /\ \A d \in Callers \ {c} : work'[d] = work[d]
         /\ (\A d \in Callers : ~At(d, "idle") /\ ~At(d, "next") =>
               work[d].id \in Txs /\ work[d].plan \in Plans)'
  BY DEF TypeOK, At

\* A write of the journal touches one row, and its plan only if it is new.
LEMMA SaveStep ==
  ASSUME TypeOK, NEW t \in Txs, NEW s \in Statuses \ {"NONE"}, NEW plan \in Plans,
         SaveOk(t, s, plan) \/ SaveFails
  PROVE  /\ journal' \in [Txs -> Rows]
         /\ \A u \in Txs \ {t} : journal'[u] = journal[u]
         /\ \/ journal'[t] = journal[t]
            \/ /\ journal'[t].status = s
               /\ journal'[t].plan = IF HasRow(t) THEN journal[t].plan ELSE plan
  <1>1. CASE SaveFails
    BY <1>1 DEF SaveFails, TypeOK
  <1>2. CASE SaveOk(t, s, plan)
    <2>1. journal[t] \in Rows
      BY DEF TypeOK
    <2> DEFINE row == IF journal[t].status = "NONE" THEN [status |-> s, plan |-> plan]
                      ELSE [journal[t] EXCEPT !.status = s]
    <2>2. /\ row \in Rows /\ row.status = s
          /\ row.plan = IF HasRow(t) THEN journal[t].plan ELSE plan
      BY <2>1 DEF Rows, HasRow, Captured
    <2>3. journal' = [journal EXCEPT ![t] = row]
      BY <1>2 DEF SaveOk, Upsert
    <2> QED
      BY <2>2, <2>3 DEF TypeOK
  <1> QED
    BY <1>1, <1>2

\* A call that has nothing to show for itself is idle.
LEMMA IdleState == Idle \in CallerStates /\ Idle.pc = "idle" /\ Idle.queue = {}
  BY DEF Idle, CallerStates, PCs, Statuses

LEMMA StatusSets ==
  /\ Outcomes \subseteq Statuses \ {"NONE"}
  /\ Refusals \subseteq Statuses \ {"NONE"}
  /\ Unfinished \subseteq Statuses \ {"NONE"}
  BY DEF Statuses, Outcomes, Refusals, Unfinished, Settled

-------------------------------------------------------------------------------
(* Every step preserves the invariant. *)

LEMMA InitInv == Init => IInv
  <1> SUFFICES ASSUME Init PROVE IInv
    OBVIOUS
  <1> USE CoordinatorAssumption DEF Init
  <1>1. TypeOK
    <2>1. ActionSettings \subseteq [Actions -> AllSettings]
      BY DEF ActionSettings
    <2>2. native \in [Pids -> [Actions -> AllSettings]]
      BY <2>1
    <2>3. 1 \in Incarnations /\ 0 \in 0 .. MaxCrashes
      BY DEF Incarnations
    <2>4. proc \in [Pids -> Processes]
      BY <2>2, <2>3 DEF Processes
    <2>5. journal \in [Txs -> Rows]
      BY DEF NoRow, Rows, Statuses
    <2>6. work \in [Callers -> CallerStates]
      BY IdleState
    <2>7. \A c \in Callers : At(c, "idle")
      BY DEF At, Idle
    <2> QED
      BY <2>2, <2>3, <2>4, <2>5, <2>6, <2>7 DEF TypeOK
  <1>2. UnusedNowhere /\ PhaseOK
    BY DEF UnusedNowhere, PhaseOK, NoRow, Idle, Handles, Down, At, BeginPCs
  <1>3. RowsHavePlans /\ ActiveOK /\ UndoRecordKept /\ NoOrphan
    BY DEF RowsHavePlans, ActiveOK, UndoRecordKept, NoOrphan, HasRow, Captured, NoRow, Down,
       Unfinished
  <1>4. CallersOK
    BY DEF CallersOK, BeginOK, QueueOK, RollbackOK, Idle, BeginPCs, RollbackPCs
  <1> QED
    BY <1>1, <1>2, <1>3, <1>4 DEF IInv

LEMMA BeginRefusedInv ==
  ASSUME IInv, NEW c \in Callers, BeginRefused(c)
  PROVE  IInv'
  <1> USE DEF IInv
  <1>1. PICK t \in Txs \ used, p \in Pids, a \in Actions :
          /\ used' = used \cup {t}
          /\ LET plan == [pid |-> p, action |-> a, inc |-> 0, orig |-> None]
             IN  SaveOk(t, "BLOCKED", plan) \/ SaveFails
    BY DEF BeginRefused
  <1>2. UNCHANGED <<proc, native, phase, recovered, crashes, journalOpen, effect,
                    gaveUp, active, work, due>>
    BY DEF BeginRefused, procVars, appVars, history
  <1> DEFINE plan == [pid |-> p, action |-> a, inc |-> 0, orig |-> None]
  <1>3. plan \in Plans
    BY CoordinatorAssumption DEF Plans, Incarnations
  <1> HIDE DEF plan
  <1>4. /\ journal' \in [Txs -> Rows]
        /\ \A u \in Txs \ {t} : journal'[u] = journal[u]
        /\ \/ journal'[t] = journal[t]
           \/ journal'[t].status = "BLOCKED" /\ journal'[t].plan \in Plans
    BY <1>1, <1>3, SaveStep, StatusSets DEF UnusedNowhere, NoRow, HasRow, Captured, Refusals, plan
  <1>5. t \notin effect /\ active[t] = None /\ \A d \in Callers : ~Handles(d, t)
    BY DEF UnusedNowhere
  <1>6. TypeOK'
    BY <1>1, <1>2, <1>4 DEF TypeOK, At
  <1>7. UnusedNowhere' /\ RowsHavePlans'
    BY <1>1, <1>2, <1>4 DEF UnusedNowhere, RowsHavePlans, HasRow, Captured, Unfinished,
       Handles, At
  <1>8. PhaseOK' /\ ActiveOK' /\ NoOrphan'
    BY <1>2, <1>4, <1>5 DEF PhaseOK, ActiveOK, NoOrphan, Down, HasRow, Captured, Handles, At
  <1>9. ASSUME NEW d \in Callers
        PROVE  BeginOK(d)' /\ QueueOK(d)' /\ RollbackOK(d)'
    <2>1. BeginOK(d) /\ QueueOK(d) /\ RollbackOK(d)
      BY DEF CallersOK
    <2>2. /\ t \notin work[d].queue /\ work[d].queue \subseteq Txs
          /\ work[d].pc \in BeginPCs \cup RollbackPCs =>
               work[d].id # t /\ work[d].id \in Txs
      BY <1>5 DEF Handles, TypeOK, CallerStates, At, BeginPCs, RollbackPCs
    <2>3. BeginOK(d)'
      BY <1>1, <1>2, <1>4, <2>1, <2>2 DEF BeginOK, Handles, HasRow, Captured, At
    <2>4. QueueOK(d)'
      BY <1>1, <1>2, <1>4, <2>1, <2>2 DEF QueueOK, HasRow, Captured, Recovering
    <2>5. RollbackOK(d)'
      BY <1>1, <1>2, <1>4, <2>1, <2>2 DEF RollbackOK, HasRow, Captured, At
    <2> QED
      BY <2>3, <2>4, <2>5
  <1>10. UndoRecordKept'
    BY <1>2, <1>4, <1>5 DEF UndoRecordKept, TargetIs, TypeOK
  <1> QED
    BY <1>6, <1>7, <1>8, <1>9, <1>10 DEF CallersOK

\* What is known of a caller inside Begin.
LEMMA InBegin ==
  ASSUME IInv, NEW c \in Callers, work[c].pc \in BeginPCs
  PROVE  /\ work[c].id \in Txs /\ work[c].id \in used /\ work[c].plan \in Plans
         /\ work[c] \in CallerStates /\ work[c].queue = {}
         /\ active[work[c].id] = None /\ phase = "up"
         /\ \A d \in Callers \ {c} : ~Handles(d, work[c].id)
         /\ \A u \in Txs : Handles(c, u) => u = work[c].id
         /\ BeginOK(c)
  <1>1. TypeOK /\ PhaseOK /\ BeginOK(c)
    BY DEF IInv, CallersOK
  <1>2. ~At(c, "idle") /\ ~At(c, "next") /\ work[c] # Idle
    BY DEF BeginPCs, At, Idle
  <1>3. work[c].queue = {}
    BY <1>1 DEF PhaseOK
  <1>4. phase = "up"
    <2>1. phase \in {"stopped", "crashed", "recovering", "up"}
      BY <1>1 DEF TypeOK
    <2> QED
      BY <1>1, <1>2, <2>1 DEF PhaseOK, Down, BeginPCs
  <1> QED
    BY <1>1, <1>2, <1>3, <1>4 DEF TypeOK, BeginOK, Handles

\* A step of caller c leaves the obligations of another caller d intact when
\* it takes over only ids nobody owns, keeps the rows d works on, and takes an
\* id off the active ones only when there is nothing left to do.
LEMMA OtherCaller ==
  ASSUME TypeOK, NEW c \in Callers, NEW d \in Callers \ {c},
         BeginOK(d), QueueOK(d), RollbackOK(d),
         \A e \in Callers \ {c} : work'[e] = work[e],
         phase' = phase, used \subseteq used',
         \A u \in Txs : Handles(c, u)' => Handles(c, u) \/ active[u] # None \/ u \notin used,
         \A u \in Txs : Handles(d, u) =>
           /\ HasRow(u) => HasRow(u)' /\ journal'[u].plan = journal[u].plan
           /\ u \in effect' => u \in effect
           /\ u \in gaveUp => u \in gaveUp'
           /\ \/ active'[u] = active[u]
              \/ active'[u] = None /\ (u \in effect' => u \in gaveUp')
           /\ ~Handles(c, u) => journal'[u] = journal[u] /\ active'[u] = active[u]
  PROVE  BeginOK(d)' /\ QueueOK(d)' /\ RollbackOK(d)'
  <1>1. work'[d] = work[d] /\ (Recovering(d)' <=> Recovering(d))
    BY DEF Recovering
  <1>2. work[d].pc \in BeginPCs \cup RollbackPCs =>
          work[d].id \in Txs /\ Handles(d, work[d].id)
    BY DEF Handles, TypeOK, At, BeginPCs, RollbackPCs
  <1>3. \A u \in work[d].queue : u \in Txs /\ Handles(d, u)
    BY DEF Handles, TypeOK, CallerStates
  <1>4. BeginOK(d)'
    <2> SUFFICES ASSUME work[d].pc \in BeginPCs
                 PROVE  BeginOK(d)'
      BY <1>1 DEF BeginOK
    <2> DEFINE t == work[d].id
    <2>1. /\ t \in Txs /\ t \in used /\ active[t] = None
          /\ \A e \in Callers \ {d} : ~Handles(e, t)
      BY <1>2 DEF BeginOK
    <2>2. Handles(d, t) /\ ~Handles(c, t) /\ ~Handles(c, t)'
      BY <1>2, <2>1
    <2>3. \A e \in Callers \ {d} : ~Handles(e, t)'
      BY <2>1, <2>2 DEF Handles, At
    <2>4. journal'[t] = journal[t] /\ active'[t] = None /\ (t \in effect' => t \in effect)
      BY <2>1, <2>2
    <2> QED
      BY <1>1, <2>1, <2>3, <2>4 DEF BeginOK, HasRow, Captured, At
  <1>5. QueueOK(d)'
    BY <1>1, <1>3 DEF QueueOK, HasRow, Captured
  <1>6. RollbackOK(d)'
    BY <1>1, <1>2 DEF RollbackOK, HasRow, Captured, At
  <1> QED
    BY <1>4, <1>5, <1>6

LEMMA BeginShieldedInv ==
  ASSUME IInv, NEW c \in Callers, BeginShielded(c)
  PROVE  IInv'
  <1> USE DEF IInv
  <1>1. PICK t \in Txs \ used, p \in Pids, a \in Actions :
          /\ proc[p].live
          /\ used' = used \cup {t}
          /\ work' = [work EXCEPT ![c] =
               [pc |-> "shielded", id |-> t, status |-> "NONE", queue |-> {},
                plan |-> [pid |-> p, action |-> a, inc |-> proc[p].inc, orig |-> None]]]
    BY DEF BeginShielded, Set
  <1>2. /\ UNCHANGED <<proc, native, phase, recovered, crashes, journalOpen, effect,
                       gaveUp, active, journal, due>>
        /\ phase = "up" /\ work[c].pc = "idle"
    BY DEF BeginShielded, procVars, appVars, history, At
  <1> DEFINE w == [pc |-> "shielded", id |-> t, status |-> "NONE", queue |-> {},
                   plan |-> [pid |-> p, action |-> a, inc |-> proc[p].inc, orig |-> None]]
  <1>3. w \in CallerStates /\ w.plan \in Plans
    BY DEF TypeOK, Processes, CallerStates, Plans, PCs, Statuses
  <1>4. /\ work' \in [Callers -> CallerStates]
        /\ work'[c].pc = "shielded" /\ work'[c].id = t /\ work'[c].queue = {}
        /\ \A d \in Callers \ {c} : work'[d] = work[d]
        /\ (\A d \in Callers : ~At(d, "idle") /\ ~At(d, "next") =>
               work[d].id \in Txs /\ work[d].plan \in Plans)'
    BY <1>1, <1>3, CallerStep
  <1>5. journal[t] = NoRow /\ t \notin effect /\ active[t] = None
        /\ \A d \in Callers : ~Handles(d, t)
    BY DEF UnusedNowhere
  <1>6. work[c].queue = {}
    BY <1>2 DEF PhaseOK
  <1>7. TypeOK'
    BY <1>1, <1>2, <1>4 DEF TypeOK
  <1>8. UnusedNowhere' /\ RowsHavePlans' /\ ActiveOK' /\ UndoRecordKept'
    BY <1>1, <1>2, <1>4, <1>5 DEF UnusedNowhere, RowsHavePlans, ActiveOK, HasRow, Captured, Handles,
       At, UndoRecordKept, TargetIs
  <1>9. PhaseOK'
    BY <1>2, <1>4 DEF PhaseOK, Down, BeginPCs
  <1>10. NoOrphan'
    BY <1>2, <1>4, <1>6 DEF NoOrphan, Down, Handles, At
  <1>11. BeginOK(c)' /\ QueueOK(c)' /\ RollbackOK(c)'
    BY <1>1, <1>2, <1>4, <1>5 DEF BeginOK, QueueOK, RollbackOK, HasRow, Captured, NoRow, Handles, At, RollbackPCs
  <1>12. \A u \in Txs : Handles(c, u)' => u \notin used
    BY <1>4, <1>1 DEF Handles
  <1>13. \A d \in Callers \ {c} : BeginOK(d)' /\ QueueOK(d)' /\ RollbackOK(d)'
    BY <1>1, <1>2, <1>4, <1>12, OtherCaller DEF CallersOK, HasRow, Captured
  <1> QED
    BY <1>7, <1>8, <1>9, <1>10, <1>11, <1>13 DEF CallersOK

\* A refusal after the safety check: the transaction has not been applied.
LEMMA GiveUpInv ==
  ASSUME IInv, NEW c \in Callers, NEW s \in Refusals, GiveUp(c, s),
         work[c].pc \in {"shielded", "planned"},
         UNCHANGED <<proc, native, phase, recovered, crashes, journalOpen, effect,
                     gaveUp, active, used, due>>
  PROVE  IInv'
  <1> USE DEF IInv
  <1> DEFINE t == work[c].id
  <1>1. /\ t \in Txs /\ t \in used /\ active[t] = None /\ phase = "up" /\ t \notin effect
        /\ \A d \in Callers \ {c} : ~Handles(d, t)
        /\ work[c].plan \in Plans /\ work[c].queue = {}
        /\ \A u \in Txs : Handles(c, u) => u = t
    BY InBegin DEF BeginPCs, BeginOK, At
  <1>2. /\ work' \in [Callers -> CallerStates]
        /\ work'[c] = Idle
        /\ \A d \in Callers \ {c} : work'[d] = work[d]
        /\ (\A d \in Callers : ~At(d, "idle") /\ ~At(d, "next") =>
               work[d].id \in Txs /\ work[d].plan \in Plans)'
    BY CallerStep, IdleState DEF GiveUp, Set
  <1>3. /\ journal' \in [Txs -> Rows]
        /\ \A u \in Txs \ {t} : journal'[u] = journal[u]
        /\ \/ journal'[t] = journal[t]
           \/ /\ journal'[t].status = s
              /\ journal'[t].plan = IF HasRow(t) THEN journal[t].plan ELSE work[c].plan
    BY <1>1, SaveStep, StatusSets DEF GiveUp
  <1>4. TypeOK'
    BY <1>2, <1>3 DEF TypeOK
  <1>5. Idle.pc = "idle" /\ Idle.queue = {}
    BY IdleState
  <1>6. UnusedNowhere' /\ RowsHavePlans'
    BY <1>1, <1>2, <1>3, <1>5 DEF UnusedNowhere, RowsHavePlans, HasRow, Captured, Refusals,
       Unfinished, Handles, At
  <1>12. ActiveOK'
    BY <1>1, <1>3 DEF ActiveOK, HasRow, Captured
  <1>7. UndoRecordKept'
    BY <1>1, <1>3 DEF UndoRecordKept, TargetIs, TypeOK
  <1>8. PhaseOK' /\ NoOrphan'
    BY <1>1, <1>2, <1>5 DEF PhaseOK, NoOrphan, Down, Handles, At, TypeOK
  <1>9. BeginOK(c)' /\ QueueOK(c)' /\ RollbackOK(c)'
    BY <1>2, <1>5 DEF BeginOK, QueueOK, RollbackOK, BeginPCs, RollbackPCs
  <1>10. \A u \in Txs : ~Handles(c, u)'
    BY <1>2, <1>5 DEF Handles, At
  <1>11. \A d \in Callers \ {c} : BeginOK(d)' /\ QueueOK(d)' /\ RollbackOK(d)'
    BY <1>1, <1>2, <1>3, <1>10, OtherCaller DEF CallersOK, HasRow, Captured
  <1> QED
    BY <1>4, <1>6, <1>7, <1>8, <1>9, <1>11, <1>12 DEF CallersOK

LEMMA CaptureFailsInv ==
  ASSUME IInv, NEW c \in Callers, CaptureFails(c)
  PROVE  IInv'
  <1>1. (GiveUp(c, "FAILED") \/ GiveUp(c, "BLOCKED")) /\ work[c].pc = "shielded"
    BY DEF CaptureFails, At
  <1>2. UNCHANGED <<proc, native, phase, recovered, crashes, journalOpen, effect,
                    gaveUp, active, used, due>>
    BY DEF CaptureFails, procVars, appVars, history
  <1> QED
    BY <1>1, <1>2, GiveUpInv DEF Refusals

LEMMA ApplyFailsInv ==
  ASSUME IInv, NEW c \in Callers, ApplyFails(c)
  PROVE  IInv'
  <1>1. GiveUp(c, "FAILED") /\ work[c].pc = "planned"
    BY DEF ApplyFails, At
  <1>2. UNCHANGED <<proc, native, phase, recovered, crashes, journalOpen, effect,
                    gaveUp, active, used, due>>
    BY DEF ApplyFails, procVars, appVars, history
  <1> QED
    BY <1>1, <1>2, GiveUpInv DEF Refusals

LEMMA CaptureStateInv ==
  ASSUME IInv, NEW c \in Callers, CaptureState(c)
  PROVE  IInv'
  <1> USE DEF IInv
  <1> DEFINE t == work[c].id
             plan == work[c].plan
             w == [work[c] EXCEPT !.pc = "captured",
                     !.plan.orig = proc[plan.pid].attr[plan.action]]
  <1>1. /\ work[c].pc = "shielded" /\ TargetIs(plan)
        /\ work' = [work EXCEPT ![c] = w]
        /\ UNCHANGED <<proc, native, phase, recovered, journalOpen, crashes, effect,
                       gaveUp, journal, active, used, due>>
    BY DEF CaptureState, procVars, appVars, history, At, Set
  <1>2. /\ t \in Txs /\ t \in used /\ plan \in Plans /\ work[c] \in CallerStates
        /\ work[c].queue = {} /\ active[t] = None /\ phase = "up"
        /\ \A d \in Callers \ {c} : ~Handles(d, t)
        /\ \A u \in Txs : Handles(c, u) => u = t
        /\ ~HasRow(t) /\ t \notin effect
    BY <1>1, InBegin DEF BeginPCs, BeginOK, At
  <1>3. proc[plan.pid].attr[plan.action] \in AllSettings
    BY <1>2 DEF TypeOK, Plans, Processes
  <1>4. /\ w \in CallerStates /\ w.plan \in Plans
        /\ w.id = t /\ w.queue = {} /\ w.pc = "captured" /\ w.plan.orig \in AllSettings
    BY <1>2, <1>3 DEF CallerStates, Plans, PCs
  <1> HIDE DEF w
  <1>5. /\ work' \in [Callers -> CallerStates]
        /\ work'[c] = w
        /\ \A d \in Callers \ {c} : work'[d] = work[d]
        /\ (\A d \in Callers : ~At(d, "idle") /\ ~At(d, "next") =>
               work[d].id \in Txs /\ work[d].plan \in Plans)'
    BY <1>1, <1>2, <1>4, CallerStep
  <1>6. TypeOK'
    BY <1>1, <1>5 DEF TypeOK
  <1>7. \A u \in Txs : Handles(c, u)' <=> u = t
    BY <1>4, <1>5 DEF Handles, At
  <1>8. UnusedNowhere' /\ RowsHavePlans' /\ ActiveOK' /\ UndoRecordKept'
    BY <1>1, <1>2, <1>5, <1>7 DEF UnusedNowhere, RowsHavePlans, ActiveOK, HasRow, Captured, Handles,
       At, UndoRecordKept, TargetIs
  <1>9. PhaseOK' /\ NoOrphan'
    BY <1>1, <1>2, <1>4, <1>5, <1>7 DEF PhaseOK, NoOrphan, Down, Handles, At, BeginPCs
  <1>10. BeginOK(c)' /\ QueueOK(c)' /\ RollbackOK(c)'
    BY <1>1, <1>2, <1>4, <1>5 DEF BeginOK, QueueOK, RollbackOK, HasRow, Captured, Handles, At, RollbackPCs
  <1>11. \A d \in Callers \ {c} : BeginOK(d)' /\ QueueOK(d)' /\ RollbackOK(d)'
    <2>1. Handles(c, t)
      BY <1>1 DEF Handles, At
    <2> QED
      BY <1>1, <1>5, <1>7, <2>1, OtherCaller DEF CallersOK, HasRow, Captured
  <1> QED
    BY <1>6, <1>8, <1>9, <1>10, <1>11 DEF CallersOK

\* What the steps of Begin that go on with their transaction have in common.
LEMMA BeginGoesOn ==
  ASSUME IInv, NEW c \in Callers, work[c].pc \in BeginPCs,
         NEW pc \in BeginPCs, Goto(c, pc)
  PROVE  /\ work'[c] = [work[c] EXCEPT !.pc = pc]
         /\ work'[c].pc = pc /\ work'[c].id = work[c].id
         /\ work'[c].plan = work[c].plan /\ work'[c].queue = {}
         /\ work' \in [Callers -> CallerStates]
         /\ \A d \in Callers \ {c} : work'[d] = work[d]
         /\ (\A d \in Callers : ~At(d, "idle") /\ ~At(d, "next") =>
               work[d].id \in Txs /\ work[d].plan \in Plans)'
         /\ \A u \in Txs : (Handles(c, u) <=> u = work[c].id)
                        /\ (Handles(c, u)' <=> u = work[c].id)
  <1>1. TypeOK /\ work[c] \in CallerStates /\ work[c].id \in Txs
        /\ work[c].plan \in Plans /\ work[c].queue = {}
    BY InBegin DEF IInv
  <1> DEFINE w == [work[c] EXCEPT !.pc = pc]
  <1>2. /\ w \in CallerStates /\ w.pc = pc /\ w.id = work[c].id
        /\ w.plan = work[c].plan /\ w.queue = {}
    BY <1>1 DEF CallerStates, PCs, BeginPCs
  <1>3. work' = [work EXCEPT ![c] = w]
    BY DEF Goto
  <1> HIDE DEF w
  <1>4. /\ work' \in [Callers -> CallerStates]
        /\ work'[c] = w
        /\ \A d \in Callers \ {c} : work'[d] = work[d]
        /\ (\A d \in Callers : ~At(d, "idle") /\ ~At(d, "next") =>
               work[d].id \in Txs /\ work[d].plan \in Plans)'
    BY <1>1, <1>2, <1>3, CallerStep
  <1> QED
    BY <1>1, <1>2, <1>4 DEF Handles, At, BeginPCs, w

LEMMA SavePlannedInv ==
  ASSUME IInv, NEW c \in Callers, SavePlanned(c)
  PROVE  IInv'
  <1> USE DEF IInv
  <1> DEFINE t == work[c].id
             plan == work[c].plan
  <1>1. /\ work[c].pc = "captured"
        /\ UNCHANGED <<proc, native, phase, recovered, journalOpen, crashes, effect,
                       gaveUp, active, used, due>>
    BY DEF SavePlanned, procVars, appVars, history, At
  <1>2. /\ t \in Txs /\ t \in used /\ plan \in Plans /\ work[c] \in CallerStates
        /\ work[c].queue = {} /\ active[t] = None /\ phase = "up"
        /\ \A d \in Callers \ {c} : ~Handles(d, t)
        /\ \A u \in Txs : Handles(c, u) => u = t
        /\ ~HasRow(t) /\ t \notin effect /\ plan.orig \in AllSettings
    BY <1>1, InBegin DEF BeginPCs, BeginOK, At
  <1>3. CASE SaveOk(t, "PLANNED", plan) /\ Goto(c, "planned")
    <2>1. /\ journal' \in [Txs -> Rows]
          /\ \A u \in Txs \ {t} : journal'[u] = journal[u]
          /\ journal'[t].status = "PLANNED" /\ journal'[t].plan = plan
      <3>1. journal' = [journal EXCEPT ![t] = [status |-> "PLANNED", plan |-> plan]]
        BY <1>2, <1>3 DEF SaveOk, Upsert, HasRow, Captured, TypeOK
      <3>2. [status |-> "PLANNED", plan |-> plan] \in Rows
        BY <1>2 DEF Rows, Statuses, Unfinished
      <3> QED
        BY <1>2, <3>1, <3>2 DEF TypeOK
    <2>2. /\ work'[c].pc = "planned" /\ work'[c].id = t /\ work'[c].plan = plan
          /\ work'[c].queue = {} /\ work' \in [Callers -> CallerStates]
          /\ \A d \in Callers \ {c} : work'[d] = work[d]
          /\ (\A d \in Callers : ~At(d, "idle") /\ ~At(d, "next") =>
                 work[d].id \in Txs /\ work[d].plan \in Plans)'
          /\ \A u \in Txs : (Handles(c, u) <=> u = t) /\ (Handles(c, u)' <=> u = t)
      BY <1>1, <1>3, BeginGoesOn DEF BeginPCs
    <2>3. TypeOK'
      BY <1>1, <2>1, <2>2 DEF TypeOK
    <2>4. UnusedNowhere' /\ UndoRecordKept'
      BY <1>1, <1>2, <2>1, <2>2 DEF UnusedNowhere, Handles, At, UndoRecordKept, TargetIs, TypeOK
    <2>8. RowsHavePlans' /\ ActiveOK'
      BY <1>1, <1>2, <2>1 DEF RowsHavePlans, ActiveOK, HasRow, Captured
    <2>5. PhaseOK' /\ NoOrphan'
      BY <1>1, <1>2, <2>2 DEF PhaseOK, NoOrphan, Down, Handles, At, BeginPCs
    <2>6. BeginOK(c)' /\ QueueOK(c)' /\ RollbackOK(c)'
      BY <1>1, <1>2, <2>1, <2>2 DEF BeginOK, QueueOK, RollbackOK, HasRow, Captured, Handles, At, RollbackPCs
    <2>7. \A d \in Callers \ {c} : BeginOK(d)' /\ QueueOK(d)' /\ RollbackOK(d)'
      BY <1>1, <1>2, <2>1, <2>2, OtherCaller DEF CallersOK, HasRow, Captured
    <2> QED
      BY <2>3, <2>4, <2>5, <2>6, <2>7, <2>8 DEF CallersOK
  <1>4. CASE SaveFails /\ Set(c, Idle)
    <2>1. /\ work' \in [Callers -> CallerStates] /\ work'[c] = Idle
          /\ \A d \in Callers \ {c} : work'[d] = work[d]
          /\ (\A d \in Callers : ~At(d, "idle") /\ ~At(d, "next") =>
                 work[d].id \in Txs /\ work[d].plan \in Plans)'
          /\ journal' = journal
      BY <1>4, CallerStep, IdleState DEF Set, SaveFails
    <2>2. Idle.pc = "idle" /\ Idle.queue = {} /\ \A u \in Txs : ~Handles(c, u)'
      BY <2>1, IdleState DEF Handles, At
    <2>3. TypeOK'
      BY <1>1, <2>1 DEF TypeOK
    <2>4. UnusedNowhere' /\ RowsHavePlans' /\ ActiveOK' /\ UndoRecordKept'
      BY <1>1, <1>2, <2>1, <2>2 DEF UnusedNowhere, RowsHavePlans, ActiveOK, HasRow, Captured, Handles,
         At, UndoRecordKept, TargetIs
    <2>5. PhaseOK' /\ NoOrphan'
      BY <1>1, <1>2, <2>1, <2>2 DEF PhaseOK, NoOrphan, Down, Handles, At, TypeOK
    <2>6. BeginOK(c)' /\ QueueOK(c)' /\ RollbackOK(c)'
      BY <2>1, <2>2 DEF BeginOK, QueueOK, RollbackOK, BeginPCs, RollbackPCs
    <2>7. \A d \in Callers \ {c} : BeginOK(d)' /\ QueueOK(d)' /\ RollbackOK(d)'
      BY <1>1, <2>1, <2>2, OtherCaller DEF CallersOK, HasRow, Captured
    <2> QED
      BY <2>3, <2>4, <2>5, <2>6, <2>7 DEF CallersOK
  <1> QED
    BY <1>3, <1>4 DEF SavePlanned

\* Writing a setting keeps every process well formed and who it is.
LEMMA WriteStep ==
  ASSUME TypeOK, NEW plan \in Plans, NEW v \in AllSettings, Write(plan, v)
  PROVE  /\ proc' \in [Pids -> Processes]
         /\ \A p \in Pids : proc'[p].live = proc[p].live /\ proc'[p].inc = proc[p].inc
         /\ \A pl \in Plans : TargetIs(pl)' <=> TargetIs(pl)
         /\ proc'[plan.pid].attr[plan.action] = v
         /\ \A p \in Pids, a \in Actions : <<p, a>> # <<plan.pid, plan.action>> =>
              proc'[p].attr[a] = proc[p].attr[a]
  <1> DEFINE p0 == plan.pid
             a0 == plan.action
             q == [proc[p0] EXCEPT !.attr[a0] = v]
  <1>1. p0 \in Pids /\ a0 \in Actions /\ proc[p0] \in Processes
    BY DEF TypeOK, Plans
  <1>2. /\ q \in Processes /\ q.live = proc[p0].live /\ q.inc = proc[p0].inc
        /\ q.attr[a0] = v /\ \A a \in Actions \ {a0} : q.attr[a] = proc[p0].attr[a]
    BY <1>1 DEF Processes
  <1>3. proc' = [proc EXCEPT ![p0] = q]
    BY DEF Write
  <1> HIDE DEF q
  <1>4. /\ proc' \in [Pids -> Processes] /\ proc'[p0] = q
        /\ \A p \in Pids \ {p0} : proc'[p] = proc[p]
    BY <1>1, <1>2, <1>3 DEF TypeOK
  <1>5. \A p \in Pids : proc'[p].live = proc[p].live /\ proc'[p].inc = proc[p].inc
    BY <1>2, <1>4
  <1>6. \A pl \in Plans : TargetIs(pl)' <=> TargetIs(pl)
    BY <1>5 DEF TargetIs, Plans
  <1> QED
    BY <1>1, <1>2, <1>4, <1>5, <1>6

LEMMA SettingValues ==
  /\ \A a, v : v \in AllSettings => Lowered(a, v) \in AllSettings
  /\ \A a, v : v \in AllSettings => Restored(a, v) \in AllSettings
  BY DEF Lowered, Restored, AllSettings

LEMMA ApplyInv ==
  ASSUME IInv, NEW c \in Callers, Apply(c)
  PROVE  IInv'
  <1> USE DEF IInv
  <1> DEFINE t == work[c].id
             plan == work[c].plan
  <1>1. /\ work[c].pc = "planned" /\ TargetIs(plan) /\ Goto(c, "applied")
        /\ effect' = effect \cup {t}
        /\ UNCHANGED <<native, phase, recovered, journalOpen, crashes, gaveUp,
                       journal, active, used, due>>
    BY DEF Apply, appVars, At
  <1>2. /\ t \in Txs /\ t \in used /\ plan \in Plans /\ work[c] \in CallerStates
        /\ work[c].queue = {} /\ active[t] = None /\ phase = "up"
        /\ \A d \in Callers \ {c} : ~Handles(d, t)
        /\ \A u \in Txs : Handles(c, u) => u = t
        /\ journal[t].status = "PLANNED" /\ journal[t].plan = plan
        /\ plan.orig \in AllSettings
    BY <1>1, InBegin DEF BeginPCs, BeginOK, At
  <1>3. /\ proc' \in [Pids -> Processes]
        /\ \A pl \in Plans : TargetIs(pl)' <=> TargetIs(pl)
    <2>1. Lowered(plan.action, proc[plan.pid].attr[plan.action]) \in AllSettings
      BY <1>2, SettingValues DEF TypeOK, Plans, Processes
    <2>2. Write(plan, Lowered(plan.action, proc[plan.pid].attr[plan.action]))
      BY DEF Apply
    <2> QED
      BY <1>2, <2>1, <2>2, WriteStep
  <1>4. /\ work'[c].pc = "applied" /\ work'[c].id = t /\ work'[c].plan = plan
        /\ work'[c].queue = {} /\ work' \in [Callers -> CallerStates]
        /\ \A d \in Callers \ {c} : work'[d] = work[d]
        /\ (\A d \in Callers : ~At(d, "idle") /\ ~At(d, "next") =>
               work[d].id \in Txs /\ work[d].plan \in Plans)'
        /\ \A u \in Txs : (Handles(c, u) <=> u = t) /\ (Handles(c, u)' <=> u = t)
    BY <1>1, BeginGoesOn DEF BeginPCs
  <1>5. TypeOK'
    BY <1>1, <1>2, <1>3, <1>4 DEF TypeOK
  <1>6. UnusedNowhere'
    BY <1>1, <1>2, <1>4 DEF UnusedNowhere, Handles, At
  <1>11. RowsHavePlans' /\ ActiveOK'
    BY <1>1 DEF RowsHavePlans, ActiveOK, HasRow, Captured
  <1>7. UndoRecordKept'
    BY <1>1, <1>2, <1>3 DEF UndoRecordKept, Unfinished
  <1>8. PhaseOK' /\ NoOrphan'
    BY <1>1, <1>2, <1>4 DEF PhaseOK, NoOrphan, Down, Handles, At, BeginPCs
  <1>9. BeginOK(c)' /\ QueueOK(c)' /\ RollbackOK(c)'
    BY <1>1, <1>2, <1>4 DEF BeginOK, QueueOK, RollbackOK, HasRow, Captured, Handles, At, RollbackPCs, Unfinished
  <1>10. \A d \in Callers \ {c} : BeginOK(d)' /\ QueueOK(d)' /\ RollbackOK(d)'
    BY <1>1, <1>2, <1>4, OtherCaller DEF CallersOK, HasRow, Captured
  <1> QED
    BY <1>5, <1>6, <1>7, <1>8, <1>9, <1>10, <1>11 DEF CallersOK

\* A step by which caller c deals with a transaction t it handles.
LEMMA HandlingStep ==
  ASSUME IInv, TypeOK', NEW c \in Callers, NEW t \in Txs, t \in used, Handles(c, t),
         UNCHANGED <<phase, recovered, used>>,
         \A plan \in Plans : TargetIs(plan)' <=> TargetIs(plan),
         \A d \in Callers \ {c} : work'[d] = work[d],
         \A u \in Txs \ {t} :
           /\ journal'[u] = journal[u] /\ active'[u] = active[u]
           /\ u \in effect' <=> u \in effect
           /\ u \in gaveUp' <=> u \in gaveUp
           /\ Handles(c, u)' <=> Handles(c, u),
         \/ journal'[t] = journal[t]
         \/ /\ Captured(t) /\ journal'[t].plan = journal[t].plan
            /\ journal'[t].status \in Unfinished \cup Outcomes,
         \/ active'[t] = active[t]
         \/ active'[t] = None /\ (t \in effect' => t \in gaveUp')
         \/ At(c, "confirmed") /\ Captured(t) /\ active'[t] = journal'[t].plan,
         phase # "up" => active'[t] = None,
         t \in effect' => t \in effect,
         t \in gaveUp => t \in gaveUp',
         t \in effect' => \/ journal'[t].status \in Unfinished
                          \/ journal'[t].status = "ROLLBACK_FAILED" /\ t \in gaveUp',
         t \in effect' \ gaveUp' => active'[t] # None \/ Handles(c, t)',
         work'[c].pc \in BeginPCs \cup {"idle"} => work'[c].queue = {},
         \/ phase = "up"
         \/ Recovering(c) /\ work'[c].pc \in {"next", "found", "restored"},
         BeginOK(c)', QueueOK(c)', RollbackOK(c)'
  PROVE  IInv'
  <1> USE DEF IInv
  <1>1. \A u \in Txs \ used : u # t
    OBVIOUS
  <1>2. UnusedNowhere'
    BY <1>1 DEF UnusedNowhere, Handles, At
  <1>3. RowsHavePlans'
    <2>1. TypeOK' /\ \A u \in Txs \ {t} : journal'[u] = journal[u]
      OBVIOUS
    <2> QED
      BY <2>1, StatusSets DEF RowsHavePlans, Captured, HasRow
  <1>4. ActiveOK'
    BY StatusSets DEF ActiveOK, Captured, HasRow
  <1>5. UndoRecordKept'
    BY DEF UndoRecordKept, TypeOK
  <1>6. NoOrphan'
    <2> SUFFICES ASSUME ~Down, phase = "up" => recovered,
                        NEW u \in effect' \ gaveUp', u # t
                 PROVE  active'[u] # None \/ \E d \in Callers : Handles(d, u)'
      BY DEF NoOrphan, Down
    <2>1. u \in Txs /\ u \in effect \ gaveUp
      BY DEF TypeOK
    <2>2. active[u] # None \/ \E d \in Callers : Handles(d, u)
      BY <2>1 DEF NoOrphan
    <2>3. \A d \in Callers : Handles(d, u) => Handles(d, u)'
      BY <2>1 DEF Handles, At
    <2> QED
      BY <2>1, <2>2, <2>3
  <1>7. PhaseOK'
    BY DEF PhaseOK, Recovering, Down
  <1>8. \A d \in Callers \ {c} : BeginOK(d)' /\ QueueOK(d)' /\ RollbackOK(d)'
    <2> SUFFICES ASSUME NEW d \in Callers \ {c}
                 PROVE  BeginOK(d)' /\ QueueOK(d)' /\ RollbackOK(d)'
      OBVIOUS
    <2>1. BeginOK(d) /\ QueueOK(d) /\ RollbackOK(d)
      BY DEF CallersOK
    <2>2. At(c, "confirmed") => ~Handles(d, t)
      <3>1. work[c].pc = "confirmed" => work[c].pc \in BeginPCs
        BY DEF BeginPCs
      <3> QED
        BY <3>1, InBegin DEF At
    <2>3. \A u \in Txs : Handles(c, u)' => Handles(c, u)
      OBVIOUS
    <2>4. HasRow(t) => HasRow(t)' /\ journal'[t].plan = journal[t].plan
      BY StatusSets DEF HasRow
    <2>5. \A u \in Txs : Handles(d, u) =>
            /\ HasRow(u) => HasRow(u)' /\ journal'[u].plan = journal[u].plan
            /\ u \in effect' => u \in effect
            /\ u \in gaveUp => u \in gaveUp'
            /\ \/ active'[u] = active[u]
               \/ active'[u] = None /\ (u \in effect' => u \in gaveUp')
            /\ ~Handles(c, u) => journal'[u] = journal[u] /\ active'[u] = active[u]
      BY <2>2, <2>4 DEF HasRow
    <2> QED
      BY <2>1, <2>3, <2>5, OtherCaller
  <1> QED
    BY <1>2, <1>3, <1>4, <1>5, <1>6, <1>7, <1>8 DEF CallersOK

LEMMA SaveExecutedInv ==
  ASSUME IInv, NEW c \in Callers, SaveExecuted(c)
  PROVE  IInv'
  <1> USE DEF IInv
  <1> DEFINE t == work[c].id
             plan == work[c].plan
  <1>1. /\ work[c].pc = "applied"
        /\ UNCHANGED <<proc, native, phase, recovered, journalOpen, crashes, effect,
                       gaveUp, active, used, due>>
    BY DEF SaveExecuted, procVars, appVars, history, At
  <1>2. /\ t \in Txs /\ t \in used /\ plan \in Plans /\ phase = "up" /\ active[t] = None
        /\ \A d \in Callers \ {c} : ~Handles(d, t)
        /\ journal[t].status \in Unfinished /\ journal[t].plan = plan
        /\ plan.orig \in AllSettings
    BY <1>1, InBegin DEF BeginPCs, BeginOK, At
  <1>3. Captured(t) /\ HasRow(t)
    BY <1>2 DEF RowsHavePlans, Captured
  <1>4. /\ journal' \in [Txs -> Rows]
        /\ \A u \in Txs \ {t} : journal'[u] = journal[u]
        /\ \/ journal'[t] = journal[t]
           \/ journal'[t].status = "EXECUTED" /\ journal'[t].plan = plan
    BY <1>2, <1>3, SaveStep, StatusSets DEF SaveExecuted, Unfinished
  <1>5. PICK pc \in {"confirmed", "unsaved"} : Goto(c, pc)
    BY DEF SaveExecuted
  <1>6. /\ work'[c].pc = pc /\ work'[c].id = t /\ work'[c].plan = plan
        /\ work'[c].queue = {} /\ work' \in [Callers -> CallerStates]
        /\ \A d \in Callers \ {c} : work'[d] = work[d]
        /\ (\A d \in Callers : ~At(d, "idle") /\ ~At(d, "next") =>
               work[d].id \in Txs /\ work[d].plan \in Plans)'
        /\ \A u \in Txs : (Handles(c, u) <=> u = t) /\ (Handles(c, u)' <=> u = t)
    BY <1>1, <1>5, BeginGoesOn DEF BeginPCs
  <1>7. TypeOK'
    BY <1>1, <1>4, <1>6 DEF TypeOK
  <1>8. BeginOK(c)' /\ QueueOK(c)' /\ RollbackOK(c)'
    BY <1>1, <1>2, <1>4, <1>5, <1>6 DEF BeginOK, QueueOK, RollbackOK, HasRow, Captured,
       Handles, At, RollbackPCs, Unfinished
  <1>9. /\ \A pl \in Plans : TargetIs(pl)' <=> TargetIs(pl)
        /\ journal'[t].status \in Unfinished
    BY <1>1, <1>2, <1>4 DEF TargetIs, Unfinished
  <1> QED
    BY <1>1, <1>2, <1>3, <1>4, <1>6, <1>7, <1>8, <1>9, HandlingStep

\* What the steps that end a call of Begin have in common.
LEMMA BeginEnds ==
  ASSUME IInv, NEW c \in Callers, work[c].pc \in BeginPCs, Set(c, Idle)
  PROVE  /\ work' \in [Callers -> CallerStates] /\ work'[c] = Idle
         /\ work'[c].pc = "idle" /\ work'[c].queue = {}
         /\ \A d \in Callers \ {c} : work'[d] = work[d]
         /\ (\A d \in Callers : ~At(d, "idle") /\ ~At(d, "next") =>
                work[d].id \in Txs /\ work[d].plan \in Plans)'
         /\ \A u \in Txs : ~Handles(c, u)'
         /\ Handles(c, work[c].id)
         /\ \A u \in Txs : Handles(c, u) => u = work[c].id
         /\ BeginOK(c)' /\ QueueOK(c)' /\ RollbackOK(c)'
  <1>1. /\ work' \in [Callers -> CallerStates] /\ work'[c] = Idle
        /\ \A d \in Callers \ {c} : work'[d] = work[d]
        /\ (\A d \in Callers : ~At(d, "idle") /\ ~At(d, "next") =>
               work[d].id \in Txs /\ work[d].plan \in Plans)'
    BY CallerStep, IdleState DEF IInv, Set
  <1>2. /\ work'[c].pc = "idle" /\ work'[c].queue = {}
    BY <1>1, IdleState
  <1>3. BeginOK(c)' /\ QueueOK(c)' /\ RollbackOK(c)'
    BY <1>2 DEF BeginOK, QueueOK, RollbackOK, BeginPCs, RollbackPCs
  <1>4. Handles(c, work[c].id) /\ \A u \in Txs : Handles(c, u) => u = work[c].id
    BY InBegin DEF Handles, At, BeginPCs
  <1> QED
    BY <1>1, <1>2, <1>3, <1>4 DEF Handles, At

LEMMA RegisterInv ==
  ASSUME IInv, NEW c \in Callers, Register(c)
  PROVE  IInv'
  <1> USE DEF IInv
  <1> DEFINE t == work[c].id
             plan == work[c].plan
  <1>1. /\ work[c].pc = "confirmed" /\ At(c, "confirmed") /\ Set(c, Idle)
        /\ active' = [active EXCEPT ![t] = plan]
        /\ UNCHANGED <<proc, native, phase, recovered, journalOpen, crashes, effect,
                       gaveUp, journal, used, due>>
    BY DEF Register, procVars, appVars, history, At
  <1>2. /\ t \in Txs /\ t \in used /\ plan \in Plans /\ phase = "up" /\ active[t] = None
        /\ journal[t].status \in Unfinished /\ journal[t].plan = plan
        /\ plan.orig \in AllSettings
    BY <1>1, InBegin DEF BeginPCs, BeginOK, At
  <1>3. Captured(t) /\ \A pl \in Plans : TargetIs(pl)' <=> TargetIs(pl)
    BY <1>1, <1>2 DEF RowsHavePlans, TargetIs
  <1>4. active'[t] = journal'[t].plan /\ active'[t] # None
    BY <1>1, <1>2, NoneAssumption DEF TypeOK
  <1>5. active' \in [Txs -> Plans \cup {None}] /\ \A u \in Txs \ {t} : active'[u] = active[u]
    BY <1>1, <1>2 DEF TypeOK
  <1>6. /\ work' \in [Callers -> CallerStates] /\ work'[c] = Idle
        /\ work'[c].pc = "idle" /\ work'[c].queue = {}
        /\ \A d \in Callers \ {c} : work'[d] = work[d]
        /\ (\A d \in Callers : ~At(d, "idle") /\ ~At(d, "next") =>
               work[d].id \in Txs /\ work[d].plan \in Plans)'
        /\ \A u \in Txs : ~Handles(c, u)'
        /\ Handles(c, t)
        /\ \A u \in Txs : Handles(c, u) => u = t
        /\ BeginOK(c)' /\ QueueOK(c)' /\ RollbackOK(c)'
    BY <1>1, BeginEnds DEF BeginPCs
  <1>7. TypeOK'
    BY <1>1, <1>5, <1>6 DEF TypeOK
  <1> QED
    BY <1>1, <1>2, <1>3, <1>4, <1>5, <1>6, <1>7, HandlingStep

\* What one attempt to give a captured setting back leaves behind.
LEMMA RollbackAttempt ==
  ASSUME IInv, NEW c \in Callers, work[c].id \in Txs, work[c].plan \in Plans,
         work[c].plan.orig \in AllSettings, journal[work[c].id].plan = work[c].plan,
         GiveBack(c) \/ TargetGone(c) \/ GiveBackFails(c)
  PROVE  /\ proc' \in [Pids -> Processes] /\ native' = native
         /\ \A pl \in Plans : TargetIs(pl)' <=> TargetIs(pl)
         /\ effect' \subseteq effect /\ effect \subseteq effect' \cup {work[c].id}
         /\ gaveUp \subseteq gaveUp' /\ gaveUp' \subseteq gaveUp \cup {work[c].id}
         /\ work[c].id \in effect' => GiveBackFails(c) /\ work[c].id \in gaveUp'
  <1> USE DEF IInv
  <1>1. CASE GiveBack(c)
    <2>1. Restored(work[c].plan.action, work[c].plan.orig) \in AllSettings
      BY SettingValues
    <2>2. Write(work[c].plan, Restored(work[c].plan.action, work[c].plan.orig))
          /\ effect' = effect \ {work[c].id} /\ UNCHANGED <<native, gaveUp>>
      BY <1>1 DEF GiveBack
    <2> QED
      BY <2>1, <2>2, WriteStep
  <1>2. CASE TargetGone(c)
    BY <1>2 DEF TargetGone, procVars, history, TargetIs, UndoRecordKept, TypeOK
  <1>3. CASE GiveBackFails(c)
    BY <1>3 DEF GiveBackFails, procVars, TargetIs, TypeOK
  <1> QED
    BY <1>1, <1>2, <1>3

LEMMA UndoUnsavedInv ==
  ASSUME IInv, NEW c \in Callers, UndoUnsaved(c)
  PROVE  IInv'
  <1> USE DEF IInv
  <1> DEFINE t == work[c].id
             plan == work[c].plan
  <1>1. /\ work[c].pc = "unsaved" /\ Set(c, Idle)
        /\ UNCHANGED <<phase, recovered, journalOpen, crashes, journal, active, used, due>>
    BY DEF UndoUnsaved, appVars, At
  <1>2. /\ t \in Txs /\ t \in used /\ plan \in Plans /\ phase = "up" /\ active[t] = None
        /\ journal[t].status \in Unfinished /\ journal[t].plan = plan
        /\ plan.orig \in AllSettings
    BY <1>1, InBegin DEF BeginPCs, BeginOK, At
  <1>3. /\ proc' \in [Pids -> Processes] /\ native' = native
        /\ \A pl \in Plans : TargetIs(pl)' <=> TargetIs(pl)
        /\ effect' \subseteq effect /\ effect \subseteq effect' \cup {t}
        /\ gaveUp \subseteq gaveUp' /\ gaveUp' \subseteq gaveUp \cup {t}
        /\ t \in effect' => t \in gaveUp'
    BY <1>2, RollbackAttempt DEF UndoUnsaved
  <1>4. /\ work' \in [Callers -> CallerStates] /\ work'[c] = Idle
        /\ work'[c].pc = "idle" /\ work'[c].queue = {}
        /\ \A d \in Callers \ {c} : work'[d] = work[d]
        /\ (\A d \in Callers : ~At(d, "idle") /\ ~At(d, "next") =>
               work[d].id \in Txs /\ work[d].plan \in Plans)'
        /\ \A u \in Txs : ~Handles(c, u)'
        /\ Handles(c, t)
        /\ \A u \in Txs : Handles(c, u) => u = t
        /\ BeginOK(c)' /\ QueueOK(c)' /\ RollbackOK(c)'
    BY <1>1, BeginEnds DEF BeginPCs
  <1>5. TypeOK'
    BY <1>1, <1>2, <1>3, <1>4 DEF TypeOK
  <1> QED
    BY <1>1, <1>2, <1>3, <1>4, <1>5, HandlingStep

\* Only the monitor thread is busy while the application is not up.
LEMMA BusyPhase ==
  ASSUME IInv, NEW c \in Callers, work[c].pc # "idle"
  PROVE  phase = "up" \/ Recovering(c)
  <1>1. phase \in {"stopped", "crashed", "recovering", "up"} /\ work[c] # Idle
    BY IdleState DEF IInv, TypeOK
  <1> QED
    BY <1>1 DEF IInv, PhaseOK, Down, Recovering

\* What is known of a caller that rolls back.
LEMMA InRollback ==
  ASSUME IInv, NEW c \in Callers, work[c].pc \in RollbackPCs
  PROVE  /\ work[c].id \in Txs /\ work[c].id \in used /\ work[c].plan \in Plans
         /\ work[c] \in CallerStates /\ work[c].plan.orig \in AllSettings
         /\ Captured(work[c].id) /\ HasRow(work[c].id)
         /\ journal[work[c].id].plan = work[c].plan
         /\ Handles(c, work[c].id) /\ QueueOK(c) /\ RollbackOK(c)
         /\ phase = "up" \/ Recovering(c)
  <1>1. /\ TypeOK /\ UnusedNowhere /\ BeginOK(c) /\ QueueOK(c) /\ RollbackOK(c)
        /\ ~At(c, "idle") /\ ~At(c, "next")
    BY DEF IInv, CallersOK, RollbackPCs, At
  <1>2. work[c].id \in Txs /\ work[c].plan \in Plans /\ work[c] \in CallerStates
    BY <1>1 DEF TypeOK
  <1>3. Captured(work[c].id) /\ HasRow(work[c].id) /\ journal[work[c].id].plan = work[c].plan
    BY <1>1 DEF RollbackOK, Captured
  <1>4. work[c].id \in used
    BY <1>1, <1>2, <1>3 DEF UnusedNowhere, HasRow, NoRow
  <1> QED
    BY <1>1, <1>2, <1>3, <1>4, BusyPhase DEF Handles, Captured, RollbackPCs

\* A caller that rolls back goes on with the rest of its queue.
LEMMA RollbackGoesOn ==
  ASSUME IInv, NEW c \in Callers, work[c].pc \in RollbackPCs \cup {"next"},
         NEW w \in CallerStates, Set(c, w), w.pc \in RollbackPCs \cup {"next"},
         w.queue \subseteq work[c].queue, NEW t \in Txs,
         work[c].queue \subseteq w.queue \cup {t},
         w.pc # "next" => w.id = t /\ w.plan \in Plans,
         work[c].pc # "next" => work[c].id = t
  PROVE  /\ work' \in [Callers -> CallerStates] /\ work'[c] = w
         /\ \A d \in Callers \ {c} : work'[d] = work[d]
         /\ (\A d \in Callers : ~At(d, "idle") /\ ~At(d, "next") =>
                work[d].id \in Txs /\ work[d].plan \in Plans)'
         /\ \A u \in Txs \ {t} : Handles(c, u)' <=> Handles(c, u)
         /\ BeginOK(c)'
         /\ w.pc # "next" => Handles(c, t)'
         /\ work'[c].pc \in BeginPCs \cup {"idle"} => work'[c].queue = {}
  <1>1. /\ work' \in [Callers -> CallerStates] /\ work'[c] = w
        /\ \A d \in Callers \ {c} : work'[d] = work[d]
        /\ (\A d \in Callers : ~At(d, "idle") /\ ~At(d, "next") =>
               work[d].id \in Txs /\ work[d].plan \in Plans)'
    BY CallerStep DEF IInv, Set, RollbackPCs
  <1>2. w.pc \notin BeginPCs \cup {"idle"}
    BY DEF BeginPCs, RollbackPCs
  <1>3. \A u \in Txs \ {t} : Handles(c, u)' <=> Handles(c, u)
    BY <1>1 DEF Handles, At, RollbackPCs
  <1> QED
    BY <1>1, <1>2, <1>3 DEF BeginOK, Handles, At, RollbackPCs

LEMMA LookupInv ==
  ASSUME IInv, NEW c \in Callers, Lookup(c)
  PROVE  IInv'
  <1> USE DEF IInv
  <1>1. PICK t \in work[c].queue :
          LET plan == IF Recovering(c) THEN journal[t].plan ELSE active[t] IN
          Set(c, IF plan = None
                 THEN [work[c] EXCEPT !.queue = @ \ {t}]
                 ELSE [work[c] EXCEPT !.pc = "found", !.id = t, !.plan = plan,
                                      !.queue = @ \ {t}])
    BY DEF Lookup
  <1> DEFINE plan == IF Recovering(c) THEN journal[t].plan ELSE active[t]
             w == IF plan = None
                  THEN [work[c] EXCEPT !.queue = @ \ {t}]
                  ELSE [work[c] EXCEPT !.pc = "found", !.id = t, !.plan = plan,
                                       !.queue = @ \ {t}]
  <1>2. /\ work[c].pc = "next" /\ Set(c, w)
        /\ UNCHANGED <<proc, native, phase, recovered, journalOpen, crashes, effect,
                       gaveUp, journal, active, used, due>>
    BY <1>1 DEF Lookup, procVars, appVars, history, At
  <1>3. work[c] \in CallerStates /\ t \in Txs /\ QueueOK(c) /\ BeginOK(c)
    BY DEF TypeOK, CallerStates, CallersOK
  <1>4. Captured(t) /\ HasRow(t) /\ t \in used /\ journal[t].plan \in Plans
    BY <1>3 DEF QueueOK, UnusedNowhere, Captured, HasRow, NoRow, RowsHavePlans
  <1>5. plan # None => plan = journal[t].plan
    BY <1>3 DEF ActiveOK
  <1>6. plan = None => ~Recovering(c) /\ active[t] = None
    BY <1>4, NoneAssumption
  <1> HIDE DEF plan
  <1>7. /\ w \in CallerStates /\ w.queue = work[c].queue \ {t}
        /\ plan = None => w.pc = "next"
        /\ plan # None => w.pc = "found" /\ w.id = t /\ w.plan = journal[t].plan
    BY <1>2, <1>3, <1>4, <1>5 DEF CallerStates, PCs
  <1> HIDE DEF w
  <1>8. /\ work' \in [Callers -> CallerStates] /\ work'[c] = w
        /\ \A d \in Callers \ {c} : work'[d] = work[d]
        /\ (\A d \in Callers : ~At(d, "idle") /\ ~At(d, "next") =>
               work[d].id \in Txs /\ work[d].plan \in Plans)'
        /\ \A u \in Txs \ {t} : Handles(c, u)' <=> Handles(c, u)
        /\ BeginOK(c)'
        /\ w.pc # "next" => Handles(c, t)'
        /\ work'[c].pc \in BeginPCs \cup {"idle"} => work'[c].queue = {}
    BY <1>2, <1>3, <1>4, <1>7, RollbackGoesOn DEF RollbackPCs
  <1>9. TypeOK'
    BY <1>2, <1>8 DEF TypeOK
  <1>10. QueueOK(c)' /\ RollbackOK(c)'
    BY <1>2, <1>3, <1>4, <1>7, <1>8 DEF QueueOK, RollbackOK, RollbackPCs, Captured, HasRow,
       Recovering, At
  <1>11. /\ Handles(c, t) /\ \A pl \in Plans : TargetIs(pl)' <=> TargetIs(pl)
         /\ phase = "up" \/ Recovering(c)
    BY <1>2, BusyPhase DEF Handles, TargetIs
  <1>12. /\ phase # "up" => active'[t] = None
         /\ t \in effect' => \/ journal'[t].status \in Unfinished
                             \/ journal'[t].status = "ROLLBACK_FAILED" /\ t \in gaveUp'
         /\ t \in effect' \ gaveUp' => active'[t] # None \/ Handles(c, t)'
    <2>1. phase # "up" => active'[t] = None
      BY <1>2, <1>3 DEF PhaseOK
    <2>2. t \in effect \ gaveUp => plan # None
      BY <1>3, <1>6 DEF QueueOK
    <2> QED
      BY <1>2, <1>7, <1>8, <2>1, <2>2 DEF UndoRecordKept
  <1>13. w.pc \in {"next", "found"}
    BY <1>7
  <1> QED
    BY <1>2, <1>3, <1>4, <1>8, <1>9, <1>10, <1>11, <1>12, <1>13, HandlingStep

LEMMA RestoreInv ==
  ASSUME IInv, NEW c \in Callers, Restore(c)
  PROVE  IInv'
  <1> USE DEF IInv
  <1> DEFINE t == work[c].id
             plan == work[c].plan
  <1>1. PICK s \in Outcomes :
          /\ \/ s = "ROLLED_BACK"     /\ GiveBack(c)
             \/ s = "TARGET_EXITED"   /\ TargetGone(c)
             \/ s = "ROLLBACK_FAILED" /\ GiveBackFails(c)
          /\ Set(c, [work[c] EXCEPT !.pc = "restored", !.status = s])
    BY DEF Restore
  <1> DEFINE w == [work[c] EXCEPT !.pc = "restored", !.status = s]
  <1>2. /\ work[c].pc = "found" /\ work[c].pc \in RollbackPCs
        /\ UNCHANGED <<phase, recovered, journalOpen, crashes, journal, active, used, due>>
    BY DEF Restore, appVars, At, RollbackPCs
  <1>3. /\ t \in Txs /\ t \in used /\ plan \in Plans /\ work[c] \in CallerStates
        /\ plan.orig \in AllSettings /\ Captured(t) /\ HasRow(t)
        /\ journal[t].plan = plan /\ Handles(c, t) /\ QueueOK(c)
        /\ phase = "up" \/ Recovering(c)
    BY <1>2, InRollback
  <1>4. /\ proc' \in [Pids -> Processes] /\ native' = native
        /\ \A pl \in Plans : TargetIs(pl)' <=> TargetIs(pl)
        /\ effect' \subseteq effect /\ effect \subseteq effect' \cup {t}
        /\ gaveUp \subseteq gaveUp' /\ gaveUp' \subseteq gaveUp \cup {t}
        /\ t \in effect' => GiveBackFails(c) /\ t \in gaveUp'
    BY <1>1, <1>3, RollbackAttempt
  <1>5. t \in effect' => s = "ROLLBACK_FAILED"
    <2>1. CASE s = "ROLLED_BACK"
      BY <1>1, <2>1 DEF GiveBack
    <2>2. CASE s = "TARGET_EXITED"
      BY <1>1, <1>4, <2>2 DEF TargetGone, GiveBackFails
    <2> QED
      BY <2>1, <2>2 DEF Outcomes
  <1>6. /\ w \in CallerStates /\ w.pc = "restored" /\ w.status = s /\ w.id = t
        /\ w.plan = plan /\ w.queue = work[c].queue
    BY <1>3, StatusSets DEF CallerStates, PCs
  <1> HIDE DEF w
  <1>7. /\ work' \in [Callers -> CallerStates] /\ work'[c] = w
        /\ \A d \in Callers \ {c} : work'[d] = work[d]
        /\ (\A d \in Callers : ~At(d, "idle") /\ ~At(d, "next") =>
               work[d].id \in Txs /\ work[d].plan \in Plans)'
        /\ \A u \in Txs \ {t} : Handles(c, u)' <=> Handles(c, u)
        /\ BeginOK(c)' /\ Handles(c, t)'
        /\ work'[c].pc \in BeginPCs \cup {"idle"} => work'[c].queue = {}
    <2>1. Set(c, w) /\ w.pc \in RollbackPCs /\ w.pc # "next"
      BY <1>1, <1>6 DEF RollbackPCs, w
    <2> QED
      BY <1>2, <1>3, <1>6, <2>1, RollbackGoesOn
  <1>8. TypeOK'
    BY <1>2, <1>3, <1>4, <1>7 DEF TypeOK
  <1>9. QueueOK(c)'
    BY <1>2, <1>3, <1>4, <1>6, <1>7 DEF QueueOK, Recovering, Captured, HasRow
  <1>10. RollbackOK(c)'
    BY <1>2, <1>3, <1>4, <1>5, <1>6, <1>7 DEF RollbackOK, Captured, HasRow
  <1>11. /\ phase # "up" => active'[t] = None
         /\ t \in effect' => \/ journal'[t].status \in Unfinished
                             \/ journal'[t].status = "ROLLBACK_FAILED" /\ t \in gaveUp'
    BY <1>2, <1>3, <1>4 DEF PhaseOK, UndoRecordKept
  <1> QED
    BY <1>2, <1>3, <1>4, <1>6, <1>7, <1>8, <1>9, <1>10, <1>11, HandlingStep

LEMMA RecordOutcomeInv ==
  ASSUME IInv, NEW c \in Callers, RecordOutcome(c)
  PROVE  IInv'
  <1> USE DEF IInv
  <1> DEFINE t == work[c].id
             plan == work[c].plan
             pc == IF Recovering(c) THEN "next" ELSE "recorded"
             w == [work[c] EXCEPT !.pc = pc]
  <1>1. /\ work[c].pc = "restored" /\ work[c].pc \in RollbackPCs
        /\ SaveOk(t, work[c].status, plan) \/ SaveFails
        /\ Set(c, w)
        /\ UNCHANGED <<proc, native, phase, recovered, journalOpen, crashes, effect,
                       gaveUp, active, used, due>>
    BY DEF RecordOutcome, procVars, appVars, history, At, RollbackPCs, Goto, Set
  <1>2. /\ t \in Txs /\ t \in used /\ plan \in Plans /\ work[c] \in CallerStates
        /\ plan.orig \in AllSettings /\ Captured(t) /\ HasRow(t)
        /\ journal[t].plan = plan /\ Handles(c, t) /\ QueueOK(c) /\ RollbackOK(c)
        /\ phase = "up" \/ Recovering(c)
    BY <1>1, InRollback
  <1>3. /\ work[c].status \in Outcomes
        /\ t \in effect => work[c].status = "ROLLBACK_FAILED" /\ t \in gaveUp
    BY <1>1, <1>2 DEF RollbackOK, At
  <1>4. /\ journal' \in [Txs -> Rows]
        /\ \A u \in Txs \ {t} : journal'[u] = journal[u]
        /\ \/ journal'[t] = journal[t]
           \/ journal'[t].status = work[c].status /\ journal'[t].plan = plan
    BY <1>1, <1>2, <1>3, SaveStep, StatusSets
  <1>5. /\ w \in CallerStates /\ w.pc = pc /\ w.status = work[c].status /\ w.id = t
        /\ w.plan = plan /\ w.queue = work[c].queue
    BY <1>2 DEF CallerStates, PCs
  <1> HIDE DEF w
  <1>6. /\ work' \in [Callers -> CallerStates] /\ work'[c] = w
        /\ \A d \in Callers \ {c} : work'[d] = work[d]
        /\ (\A d \in Callers : ~At(d, "idle") /\ ~At(d, "next") =>
               work[d].id \in Txs /\ work[d].plan \in Plans)'
        /\ \A u \in Txs \ {t} : Handles(c, u)' <=> Handles(c, u)
        /\ BeginOK(c)'
        /\ w.pc # "next" => Handles(c, t)'
        /\ work'[c].pc \in BeginPCs \cup {"idle"} => work'[c].queue = {}
    <2>1. w.pc \in RollbackPCs \cup {"next"}
      BY <1>5 DEF RollbackPCs
    <2> QED
      BY <1>1, <1>2, <1>5, <2>1, RollbackGoesOn
  <1>7. TypeOK'
    BY <1>1, <1>4, <1>6 DEF TypeOK
  <1>8. QueueOK(c)'
    <2>1. \A u \in Txs : Captured(u) => Captured(u)'
      BY <1>3, <1>4, <1>2 DEF Captured, HasRow, Outcomes
    <2>2. work'[c].queue = work[c].queue /\ work[c].queue \subseteq Txs
      BY <1>2, <1>5, <1>6 DEF CallerStates
    <2> QED
      BY <1>1, <1>2, <2>1, <2>2 DEF QueueOK, Recovering
  <1>9. RollbackOK(c)'
    BY <1>1, <1>2, <1>3, <1>4, <1>5, <1>6 DEF RollbackOK, RollbackPCs, Captured, HasRow, Outcomes, At
  <1>10. /\ \A pl \in Plans : TargetIs(pl)' <=> TargetIs(pl)
         /\ phase # "up" => active'[t] = None
         /\ t \in effect' => \/ journal'[t].status \in Unfinished
                             \/ journal'[t].status = "ROLLBACK_FAILED" /\ t \in gaveUp'
    BY <1>1, <1>2, <1>3, <1>4 DEF TargetIs, PhaseOK, UndoRecordKept
  <1>11. t \in effect' => t \in gaveUp'
    BY <1>1, <1>3
  <1>12. \/ phase = "up"
         \/ Recovering(c) /\ work'[c].pc \in {"next", "found", "restored"}
    <2>1. Recovering(c) => work'[c].pc = "next"
      BY <1>5, <1>6
    <2>2. phase = "up" \/ Recovering(c)
      BY <1>2
    <2> QED
      BY <2>1, <2>2
  <1> QED
    BY <1>1, <1>2, <1>3, <1>4, <1>6, <1>7, <1>8, <1>9, <1>10, <1>11, <1>12, HandlingStep

LEMMA ForgetInv ==
  ASSUME IInv, NEW c \in Callers, Forget(c)
  PROVE  IInv'
  <1> USE DEF IInv
  <1> DEFINE t == work[c].id
             w == [work[c] EXCEPT !.pc = "next"]
  <1>1. /\ work[c].pc = "recorded" /\ work[c].pc \in RollbackPCs
        /\ active' = [active EXCEPT ![t] = None] /\ Set(c, w)
        /\ UNCHANGED <<proc, native, phase, recovered, journalOpen, crashes, effect,
                       gaveUp, journal, used, due>>
    BY DEF Forget, procVars, appVars, history, At, RollbackPCs, Goto, Set
  <1>2. /\ t \in Txs /\ t \in used /\ work[c].plan \in Plans /\ work[c] \in CallerStates
        /\ Captured(t) /\ Handles(c, t) /\ QueueOK(c) /\ RollbackOK(c)
        /\ phase = "up" \/ Recovering(c)
    BY <1>1, InRollback
  <1>3. t \in effect => t \in gaveUp
    BY <1>1, <1>2 DEF RollbackOK, At
  <1>4. /\ w \in CallerStates /\ w.pc = "next" /\ w.queue = work[c].queue
    BY <1>2 DEF CallerStates, PCs
  <1> HIDE DEF w
  <1>5. /\ work' \in [Callers -> CallerStates] /\ work'[c] = w
        /\ \A d \in Callers \ {c} : work'[d] = work[d]
        /\ (\A d \in Callers : ~At(d, "idle") /\ ~At(d, "next") =>
               work[d].id \in Txs /\ work[d].plan \in Plans)'
        /\ \A u \in Txs \ {t} : Handles(c, u)' <=> Handles(c, u)
        /\ BeginOK(c)'
        /\ work'[c].pc \in BeginPCs \cup {"idle"} => work'[c].queue = {}
    BY <1>1, <1>2, <1>4, RollbackGoesOn
  <1>6. /\ active' \in [Txs -> Plans \cup {None}] /\ active'[t] = None
        /\ \A u \in Txs \ {t} : active'[u] = active[u]
    BY <1>1, <1>2 DEF TypeOK
  <1>7. TypeOK'
    BY <1>1, <1>5, <1>6 DEF TypeOK
  <1>8. QueueOK(c)' /\ RollbackOK(c)'
    BY <1>1, <1>2, <1>3, <1>4, <1>5, <1>6 DEF QueueOK, RollbackOK, RollbackPCs, Recovering,
       Captured, HasRow, CallerStates
  <1>9. /\ \A pl \in Plans : TargetIs(pl)' <=> TargetIs(pl)
        /\ t \in effect' => \/ journal'[t].status \in Unfinished
                            \/ journal'[t].status = "ROLLBACK_FAILED" /\ t \in gaveUp'
        /\ \/ phase = "up"
           \/ Recovering(c) /\ work'[c].pc \in {"next", "found", "restored"}
    BY <1>1, <1>2, <1>4, <1>5 DEF TargetIs, UndoRecordKept
  <1> QED
    BY <1>1, <1>2, <1>3, <1>5, <1>6, <1>7, <1>8, <1>9, HandlingStep

\* An idle caller sets out to roll back active transactions.
LEMMA QueueStep ==
  ASSUME IInv, NEW c \in Callers, NEW Q \in SUBSET Txs, phase = "up", At(c, "idle"),
         \A t \in Q : active[t] # None, Set(c, [Idle EXCEPT !.pc = "next", !.queue = Q]),
         UNCHANGED <<proc, native, phase, recovered, journalOpen, crashes, effect,
                     gaveUp, journal, active, used, due>>
  PROVE  IInv'
  <1> USE DEF IInv
  <1> DEFINE w == [Idle EXCEPT !.pc = "next", !.queue = Q]
  <1>1. w \in CallerStates /\ w.pc = "next" /\ w.queue = Q
    BY DEF Idle, CallerStates, PCs, Statuses
  <1>2. /\ work' \in [Callers -> CallerStates] /\ work'[c] = w
        /\ \A d \in Callers \ {c} : work'[d] = work[d]
        /\ (\A d \in Callers : ~At(d, "idle") /\ ~At(d, "next") =>
               work[d].id \in Txs /\ work[d].plan \in Plans)'
    BY <1>1, CallerStep DEF Set
  <1> HIDE DEF w
  <1>3. TypeOK'
    BY <1>2 DEF TypeOK
  <1>4. \A u \in Txs : Handles(c, u)' <=> u \in Q
    BY <1>1, <1>2 DEF Handles, At
  <1>5. \A u \in Txs : ~Handles(c, u)
    BY DEF Handles, At, PhaseOK
  <1>6. UnusedNowhere'
    BY <1>2, <1>4 DEF UnusedNowhere, Handles, At
  <1>7. RowsHavePlans' /\ ActiveOK' /\ UndoRecordKept'
    BY DEF RowsHavePlans, ActiveOK, UndoRecordKept, TargetIs, Captured, HasRow
  <1>8. PhaseOK' /\ NoOrphan'
    <2>1. \A d \in Callers, u \in Txs : Handles(d, u) => Handles(d, u)'
      BY <1>2, <1>5 DEF Handles, At
    <2>2. PhaseOK'
      BY <1>1, <1>2 DEF PhaseOK, Down, BeginPCs
    <2>3. NoOrphan'
      BY <2>1 DEF NoOrphan, Down, TypeOK
    <2> QED
      BY <2>2, <2>3
  <1>9. BeginOK(c)' /\ QueueOK(c)' /\ RollbackOK(c)'
    BY <1>1, <1>2 DEF BeginOK, QueueOK, RollbackOK, BeginPCs, RollbackPCs, Captured, HasRow,
       ActiveOK
  <1>10. \A d \in Callers \ {c} : BeginOK(d)' /\ QueueOK(d)' /\ RollbackOK(d)'
    BY <1>2, <1>4, OtherCaller DEF CallersOK, HasRow
  <1> QED
    BY <1>3, <1>6, <1>7, <1>8, <1>9, <1>10 DEF CallersOK

LEMMA RollbackCallInv ==
  ASSUME IInv, NEW c \in Callers, RollbackCall(c)
  PROVE  IInv'
  <1>1. PICK t \in Txs : active[t] # None /\ Set(c, [Idle EXCEPT !.pc = "next", !.queue = {t}])
    BY DEF RollbackCall
  <1>2. {t} \in SUBSET Txs /\ \A u \in {t} : active[u] # None
    BY <1>1
  <1> QED
    BY <1>1, <1>2, QueueStep DEF RollbackCall, procVars, appVars, history

LEMMA TickInv ==
  ASSUME IInv, Tick
  PROVE  IInv'
  <1> DEFINE Q == {t \in due : active[t] # None}
  <1>1. Q \in SUBSET Txs /\ \A t \in Q : active[t] # None
    BY DEF IInv, TypeOK
  <1> HIDE DEF Q
  <1>2. Set(Monitor, [Idle EXCEPT !.pc = "next", !.queue = Q])
    BY DEF Tick, Q
  <1>3. phase = "up" /\ At(Monitor, "idle")
    BY DEF Tick
  <1> QED
    BY <1>1, <1>2, <1>3, QueueStep, CoordinatorAssumption DEF Tick, procVars, appVars, history

LEMMA ReturnInv ==
  ASSUME IInv, NEW c \in Callers, Return(c)
  PROVE  IInv'
  <1> USE DEF IInv
  <1>1. /\ work[c].pc = "next" /\ work[c].queue = {} /\ phase' = "up" /\ Set(c, Idle)
        /\ UNCHANGED <<proc, native, recovered, journalOpen, crashes, effect, gaveUp,
                       journal, active, used, due>>
    BY DEF Return, procVars, history, At
  <1>2. /\ work' \in [Callers -> CallerStates] /\ work'[c] = Idle
        /\ \A d \in Callers \ {c} : work'[d] = work[d]
        /\ (\A d \in Callers : ~At(d, "idle") /\ ~At(d, "next") =>
               work[d].id \in Txs /\ work[d].plan \in Plans)'
    BY <1>1, CallerStep, IdleState DEF Set
  <1>3. work'[c].pc = "idle" /\ work'[c].queue = {}
    BY <1>2, IdleState
  <1>4. TypeOK'
    BY <1>1, <1>2 DEF TypeOK
  <1>5. \A d \in Callers, u \in Txs : Handles(d, u)' <=> Handles(d, u)
    BY <1>1, <1>2, <1>3 DEF Handles, At
  <1>6. UnusedNowhere'
    BY <1>1, <1>5 DEF UnusedNowhere
  <1>7. RowsHavePlans' /\ ActiveOK' /\ UndoRecordKept'
    BY <1>1 DEF RowsHavePlans, ActiveOK, UndoRecordKept, TargetIs, Captured, HasRow
  <1>8. ~Down /\ ~Down'
    BY <1>1, BusyPhase DEF Down, Recovering
  <1>9. PhaseOK'
    BY <1>1, <1>2, <1>3 DEF PhaseOK, Down
  <1>10. NoOrphan'
    BY <1>1, <1>5, <1>8 DEF NoOrphan, TypeOK
  <1>11. ASSUME NEW d \in Callers
         PROVE  BeginOK(d)' /\ QueueOK(d)' /\ RollbackOK(d)'
    <2>1. CASE work'[d].pc = "idle" /\ work'[d].queue = {}
      BY <2>1 DEF BeginOK, QueueOK, RollbackOK, BeginPCs, RollbackPCs
    <2>2. CASE d # c /\ phase = "up"
      BY <1>1, <1>2, <1>5, <2>2, OtherCaller DEF CallersOK, HasRow
    <2>3. CASE d # c /\ phase # "up"
      <3>1. c = Monitor
        BY <1>1, <2>3, BusyPhase DEF Recovering
      <3>2. work'[d] = Idle
        BY <1>2, <2>3, <3>1 DEF PhaseOK
      <3> QED
        BY <2>1, <3>2, IdleState
    <2> QED
      BY <1>3, <2>1, <2>2, <2>3
  <1> QED
    BY <1>4, <1>6, <1>7, <1>9, <1>10, <1>11 DEF CallersOK

\* While the application is down nothing is known to it.
LEMMA DownKnowsNothing ==
  ASSUME IInv, Down
  PROVE  /\ \A t \in Txs : active[t] = None
         /\ \A c \in Callers : work[c] = Idle
  BY DEF IInv, PhaseOK, Down

\* A step that leaves the application without any memory.
LEMMA EmptyMemory ==
  ASSUME IInv, TypeOK', UNCHANGED <<proc, journal, used, effect, gaveUp>>,
         \A t \in Txs : active'[t] = None,
         \A c \in Callers : work'[c] = Idle,
         Down' \/ (phase' = "up" /\ ~recovered')
  PROVE  IInv'
  <1> USE DEF IInv
  <1>1. \A c \in Callers : work'[c].pc = "idle" /\ work'[c].queue = {}
    BY IdleState
  <1>2. UnusedNowhere'
    BY <1>1 DEF UnusedNowhere, Handles, At
  <1>3. RowsHavePlans' /\ ActiveOK' /\ UndoRecordKept'
    BY DEF RowsHavePlans, ActiveOK, UndoRecordKept, TargetIs, Captured, HasRow
  <1>4. PhaseOK' /\ NoOrphan'
    BY <1>1, CoordinatorAssumption DEF PhaseOK, NoOrphan, Down
  <1>5. CallersOK'
    BY <1>1 DEF CallersOK, BeginOK, QueueOK, RollbackOK, BeginPCs, RollbackPCs
  <1> QED
    BY <1>2, <1>3, <1>4, <1>5

LEMMA LoseMemoryInv ==
  ASSUME IInv, LoseMemory, phase' \in {"stopped", "crashed"}, crashes' \in 0 .. MaxCrashes
  PROVE  IInv'
  <1>1. /\ active' = [t \in Txs |-> None] /\ work' = [c \in Callers |-> Idle]
        /\ journalOpen' = FALSE /\ recovered' = FALSE
        /\ UNCHANGED <<proc, native, journal, used, due, effect, gaveUp>>
    BY DEF LoseMemory, procVars, history
  <1>2. TypeOK'
    BY <1>1, IdleState DEF IInv, TypeOK, At
  <1>3. Down'
    BY DEF Down
  <1> QED
    BY <1>1, <1>2, <1>3, EmptyMemory

LEMMA CrashStopInv ==
  ASSUME IInv, Crash \/ Stop
  PROVE  IInv'
  <1>1. crashes \in 0 .. MaxCrashes
    BY DEF IInv, TypeOK
  <1>2. LoseMemory /\ phase' \in {"stopped", "crashed"}
    BY DEF Crash, Stop
  <1>3. crashes' \in 0 .. MaxCrashes
    BY <1>1, CoordinatorAssumption DEF Crash, Stop
  <1> QED
    BY <1>2, <1>3, LoseMemoryInv

LEMMA BootUnrecoveredInv ==
  ASSUME IInv, BootUnrecovered
  PROVE  IInv'
  <1>1. /\ Down /\ journalOpen' \in BOOLEAN /\ recovered' = FALSE /\ phase' = "up"
        /\ UNCHANGED <<proc, native, journal, active, work, used, due, crashes, effect, gaveUp>>
    BY DEF BootUnrecovered, procVars, history
  <1>2. TypeOK'
    BY <1>1 DEF IInv, TypeOK, At
  <1> QED
    BY <1>1, <1>2, DownKnowsNothing, EmptyMemory

LEMMA BootInv ==
  ASSUME IInv, Boot
  PROVE  IInv'
  <1> USE DEF IInv
  <1> DEFINE Q == {t \in Txs : journal[t].status \in Unfinished}
             w == [Idle EXCEPT !.pc = "next", !.queue = Q]
  <1>1. /\ Down /\ journalOpen' = TRUE /\ recovered' = TRUE /\ phase' = "recovering"
        /\ Set(Monitor, w)
        /\ UNCHANGED <<proc, native, journal, active, used, due, crashes, effect, gaveUp>>
    BY DEF Boot, procVars, history
  <1>2. w \in CallerStates /\ w.pc = "next" /\ w.queue = Q /\ Monitor \in Callers
    BY CoordinatorAssumption DEF Idle, CallerStates, PCs, Statuses
  <1> HIDE DEF w
  <1>3. /\ work' \in [Callers -> CallerStates] /\ work'[Monitor] = w
        /\ \A d \in Callers \ {Monitor} : work'[d] = work[d]
        /\ (\A d \in Callers : ~At(d, "idle") /\ ~At(d, "next") =>
               work[d].id \in Txs /\ work[d].plan \in Plans)'
    BY <1>1, <1>2, CallerStep DEF Set
  <1>4. /\ \A t \in Txs : active'[t] = None
        /\ \A d \in Callers \ {Monitor} : work'[d] = Idle
    BY <1>1, <1>3, DownKnowsNothing
  <1>5. TypeOK'
    BY <1>1, <1>3 DEF TypeOK
  <1>6. \A t \in Q : Captured(t) /\ t \in used
    BY DEF RowsHavePlans, UnusedNowhere, NoRow, Unfinished
  <1>7. /\ \A t \in Txs : Handles(Monitor, t)' <=> t \in Q
        /\ \A d \in Callers \ {Monitor}, t \in Txs : ~Handles(d, t)'
    BY <1>2, <1>3, <1>4, IdleState DEF Handles, At
  <1>8. UnusedNowhere' /\ RowsHavePlans' /\ ActiveOK' /\ UndoRecordKept'
    BY <1>1, <1>4, <1>6, <1>7 DEF UnusedNowhere, RowsHavePlans, ActiveOK, UndoRecordKept,
       TargetIs, Captured, HasRow
  <1>9. PhaseOK'
    BY <1>1, <1>2, <1>3, <1>4, IdleState DEF PhaseOK, Down, BeginPCs
  <1>10. NoOrphan'
    <2>1. \A t \in effect \ gaveUp : t \in Q
      BY DEF UndoRecordKept, TypeOK
    <2> QED
      BY <1>1, <1>2, <1>7, <2>1 DEF NoOrphan, TypeOK
  <1>11. ASSUME NEW d \in Callers
         PROVE  BeginOK(d)' /\ QueueOK(d)' /\ RollbackOK(d)'
    <2>1. CASE d = Monitor
      BY <1>1, <1>2, <1>3, <1>6, <2>1 DEF BeginOK, QueueOK, RollbackOK, BeginPCs,
         RollbackPCs, Recovering, Captured, HasRow
    <2>2. CASE d # Monitor
      BY <1>4, <2>2, IdleState DEF BeginOK, QueueOK, RollbackOK, BeginPCs, RollbackPCs
    <2> QED
      BY <2>1, <2>2
  <1> QED
    BY <1>5, <1>8, <1>9, <1>10, <1>11 DEF CallersOK

\* A step of the environment takes changes away with their targets at most.
LEMMA EnvironmentStep ==
  ASSUME IInv, TypeOK', effect' \subseteq effect,
         \A t \in effect' : TargetIs(journal[t].plan)',
         UNCHANGED <<journal, active, work, used, phase, recovered, gaveUp>>
  PROVE  IInv'
  <1> USE DEF IInv
  <1>1. \A c \in Callers, t \in Txs : Handles(c, t)' <=> Handles(c, t)
    BY DEF Handles, At
  <1>2. UnusedNowhere' /\ RowsHavePlans' /\ ActiveOK' /\ PhaseOK'
    BY <1>1 DEF UnusedNowhere, RowsHavePlans, ActiveOK, PhaseOK, Captured, HasRow, Down
  <1>3. UndoRecordKept'
    BY DEF UndoRecordKept
  <1>4. NoOrphan'
    BY <1>1 DEF NoOrphan, Down, TypeOK
  <1>5. ASSUME NEW c \in Callers
        PROVE  BeginOK(c)' /\ QueueOK(c)' /\ RollbackOK(c)'
    <2>1. BeginOK(c) /\ QueueOK(c) /\ RollbackOK(c)
      BY DEF CallersOK
    <2>2. BeginOK(c)'
      BY <2>1 DEF BeginOK, HasRow, Handles, At
    <2>3. QueueOK(c)'
      BY <2>1 DEF QueueOK, Captured, HasRow, Recovering
    <2>4. RollbackOK(c)'
      BY <2>1 DEF RollbackOK, Captured, HasRow, At
    <2> QED
      BY <2>2, <2>3, <2>4
  <1> QED
    BY <1>2, <1>3, <1>4, <1>5 DEF CallersOK

LEMMA DeadlinePassesInv ==
  ASSUME IInv, DeadlinePasses
  PROVE  IInv'
  <1>1. PICK t \in effect \cup {u \in Txs : active[u] # None} : due' = due \cup {t}
    BY DEF DeadlinePasses
  <1>2. UNCHANGED <<proc, native, phase, recovered, journalOpen, crashes, effect, gaveUp,
                    journal, active, work, used>>
    BY DEF DeadlinePasses, procVars, appVars, history
  <1>3. TypeOK'
    BY <1>1, <1>2 DEF IInv, TypeOK, At
  <1>4. \A u \in effect' : TargetIs(journal[u].plan)'
    BY <1>2 DEF IInv, UndoRecordKept, TargetIs
  <1> QED
    BY <1>2, <1>3, <1>4, EnvironmentStep

LEMMA ExitInv ==
  ASSUME IInv, NEW p \in Pids, Exit(p)
  PROVE  IInv'
  <1>1. /\ proc' = [proc EXCEPT ![p].live = FALSE]
        /\ effect' = {t \in effect : journal[t].plan.pid # p}
        /\ UNCHANGED <<native, phase, recovered, journalOpen, crashes, gaveUp,
                       journal, active, work, used, due>>
    BY DEF Exit, appVars
  <1>2. proc \in [Pids -> Processes] /\ [proc[p] EXCEPT !.live = FALSE] \in Processes
    BY DEF IInv, TypeOK, Processes
  <1>3. proc' \in [Pids -> Processes] /\ \A q \in Pids \ {p} : proc'[q] = proc[q]
    BY <1>1, <1>2
  <1>4. TypeOK'
    BY <1>1, <1>3 DEF IInv, TypeOK, At
  <1>5. \A t \in effect' : TargetIs(journal[t].plan)'
    BY <1>1, <1>3 DEF IInv, UndoRecordKept, TargetIs, Plans
  <1> QED
    BY <1>1, <1>4, <1>5, EnvironmentStep

LEMMA SpawnInv ==
  ASSUME IInv, NEW p \in Pids, Spawn(p)
  PROVE  IInv'
  <1>1. PICK attr \in ActionSettings :
          /\ proc' = [proc EXCEPT ![p] = [live |-> TRUE, inc |-> @.inc + 1, attr |-> attr]]
          /\ native' = [native EXCEPT ![p] = attr]
    BY DEF Spawn
  <1>2. /\ ~proc[p].live /\ proc[p].inc < MaxIncarnation
        /\ UNCHANGED <<phase, recovered, journalOpen, crashes, effect, gaveUp,
                       journal, active, work, used, due>>
    BY DEF Spawn, appVars, history
  <1>3. /\ proc \in [Pids -> Processes] /\ proc[p].inc \in Incarnations
        /\ attr \in [Actions -> AllSettings] /\ native \in [Pids -> [Actions -> AllSettings]]
    BY DEF IInv, TypeOK, Processes, ActionSettings
  <1>4. proc[p].inc + 1 \in Incarnations
    BY <1>2, <1>3, CoordinatorAssumption DEF Incarnations
  <1>5. /\ proc' \in [Pids -> Processes] /\ native' \in [Pids -> [Actions -> AllSettings]]
        /\ \A q \in Pids \ {p} : proc'[q] = proc[q]
    BY <1>1, <1>3, <1>4 DEF Processes
  <1>6. TypeOK'
    BY <1>2, <1>5 DEF IInv, TypeOK, At
  <1>7. \A t \in effect' : TargetIs(journal[t].plan)'
    BY <1>2, <1>5 DEF IInv, UndoRecordKept, TargetIs, Plans
  <1> QED
    BY <1>2, <1>6, <1>7, EnvironmentStep

LEMMA StutterInv ==
  ASSUME IInv, UNCHANGED vars
  PROVE  IInv'
  <1>1. UNCHANGED <<proc, native, journal, journalOpen, active, work, used, due, phase,
                    recovered, crashes, effect, gaveUp>>
    BY DEF vars
  <1>2. TypeOK' /\ \A u \in effect' : TargetIs(journal[u].plan)'
    BY <1>1 DEF IInv, TypeOK, At, UndoRecordKept, TargetIs
  <1> QED
    BY <1>1, <1>2, EnvironmentStep

-------------------------------------------------------------------------------
(* The theorems. *)

LEMMA StepInv == IInv /\ [Next]_vars => IInv'
  <1> SUFFICES ASSUME IInv, [Next]_vars PROVE IInv'
    OBVIOUS
  <1>1. ASSUME NEW c \in Callers, BeginStep(c)
        PROVE  IInv'
    BY <1>1, BeginRefusedInv, BeginShieldedInv, CaptureFailsInv, CaptureStateInv,
       SavePlannedInv, ApplyFailsInv, ApplyInv, SaveExecutedInv, RegisterInv,
       UndoUnsavedInv DEF BeginStep
  <1>2. ASSUME NEW c \in Callers, RollbackStep(c)
        PROVE  IInv'
    BY <1>2, RollbackCallInv, LookupInv, RestoreInv, RecordOutcomeInv, ForgetInv,
       ReturnInv DEF RollbackStep
  <1>3. ASSUME Environment
        PROVE  IInv'
    BY <1>3, DeadlinePassesInv, ExitInv, SpawnInv DEF Environment
  <1> QED
    BY <1>1, <1>2, <1>3, TickInv, BootInv, BootUnrecoveredInv, CrashStopInv, StutterInv
       DEF Next

LEMMA Invariance == Spec => []IInv
  BY InitInv, StepInv, PTL DEF Spec

\* Type correctness, for any constants that satisfy CoordinatorAssumption.
THEOREM TypeCorrect == Spec => []TypeOK
  BY Invariance, PTL DEF IInv

\* Whatever fails and whoever calls, a change that is present in a live target
\* has a row that recovery would act on, for that very process, or a row that
\* says its rollback failed.
THEOREM UndoRecordIsKept == Spec => []UndoRecordKept
  BY Invariance, PTL DEF IInv

\* An application that has recovered never loses sight of a change, even with
\* several threads rolling back and beginning transactions at once.
THEOREM NothingOrphaned == Spec => []NoOrphan
  BY Invariance, PTL DEF IInv

-------------------------------------------------------------------------------
(* The coordinator implements ReversibleAction. *)

Promised == {t \in Txs : journal[t].status \in Unfinished}

\* A step that touches no row, no target and no failure is a stutter.
LEMMA QuietStep ==
  ASSUME UNCHANGED <<journal, effect, gaveUp>>
  PROVE  UNCHANGED RA!vars
  BY DEF RA!vars

\* A write of one row adds a promise, drops one or keeps them as they are.
LEMMA PromiseStep ==
  ASSUME IInv, NEW t \in Txs, NEW s \in Statuses \ {"NONE"}, NEW plan \in Plans,
         SaveOk(t, s, plan) \/ SaveFails
  PROVE  \/ Promised' = Promised
         \/ s \in Unfinished /\ Promised' = Promised \cup {t}
         \/ s \notin Unfinished /\ Promised' = Promised \ {t}
  <1>1. /\ \A u \in Txs \ {t} : journal'[u] = journal[u]
        /\ journal'[t] = journal[t] \/ journal'[t].status = s
    BY SaveStep DEF IInv
  <1> QED
    BY <1>1 DEF Promised

\* A refusal is recorded only for a transaction that was never applied.
LEMMA RefusalImplements ==
  ASSUME IInv, NEW c \in Callers, NEW s \in Refusals, GiveUp(c, s),
         work[c].pc \in {"shielded", "planned"}, UNCHANGED <<effect, gaveUp>>
  PROVE  [RA!Next]_(RA!vars)
  <1> DEFINE t == work[c].id
  <1>1. t \in Txs /\ work[c].plan \in Plans /\ t \notin effect
    BY InBegin DEF BeginPCs, BeginOK, At
  <1>2. Promised' = Promised \/ Promised' = Promised \ {t}
    BY <1>1, PromiseStep, StatusSets DEF GiveUp, Refusals, Unfinished
  <1> QED
    BY <1>1, <1>2 DEF RA!Next, RA!vars, RA!Discharge, Promised

LEMMA BeginImplements ==
  ASSUME IInv, NEW c \in Callers, BeginStep(c)
  PROVE  [RA!Next]_(RA!vars)
  <1> DEFINE t == work[c].id
             plan == work[c].plan
  <1>1. CASE BeginRefused(c)
    <2>1. PICK u \in Txs \ used, p \in Pids, a \in Actions :
            LET pl == [pid |-> p, action |-> a, inc |-> 0, orig |-> None]
            IN  SaveOk(u, "BLOCKED", pl) \/ SaveFails
      BY <1>1 DEF BeginRefused
    <2>2. [pid |-> p, action |-> a, inc |-> 0, orig |-> None] \in Plans
      BY CoordinatorAssumption DEF Plans, Incarnations
    <2>3. Promised' = Promised \/ Promised' = Promised \ {u}
      BY <2>1, <2>2, PromiseStep, StatusSets DEF Refusals, Unfinished
    <2>4. u \notin Promised
      BY DEF IInv, UnusedNowhere, NoRow, Promised, Unfinished
    <2>5. Promised' = Promised /\ UNCHANGED <<effect, gaveUp>>
      BY <1>1, <2>3, <2>4 DEF BeginRefused, history
    <2> QED
      BY <2>5 DEF RA!vars, Promised
  <1>2. CASE BeginShielded(c) \/ CaptureState(c) \/ Register(c)
    BY <1>2, QuietStep DEF BeginShielded, CaptureState, Register, history
  <1>3. CASE CaptureFails(c)
    <2>1. (GiveUp(c, "FAILED") \/ GiveUp(c, "BLOCKED")) /\ work[c].pc = "shielded"
          /\ UNCHANGED <<effect, gaveUp>>
      BY <1>3 DEF CaptureFails, At, history
    <2> QED
      BY <2>1, RefusalImplements DEF Refusals
  <1>4. CASE ApplyFails(c)
    <2>1. GiveUp(c, "FAILED") /\ work[c].pc = "planned" /\ UNCHANGED <<effect, gaveUp>>
      BY <1>4 DEF ApplyFails, At, history
    <2> QED
      BY <2>1, RefusalImplements DEF Refusals
  <1>5. CASE SavePlanned(c)
    <2>1. work[c].pc = "captured" /\ UNCHANGED <<effect, gaveUp>>
          /\ (SaveOk(t, "PLANNED", plan) \/ SaveFails)
      BY <1>5 DEF SavePlanned, At, history
    <2>2. t \in Txs /\ plan \in Plans /\ t \notin effect /\ ~HasRow(t)
      BY <2>1, InBegin DEF BeginPCs, BeginOK, At
    <2>3. Promised' = Promised \/ Promised' = Promised \cup {t}
      BY <2>1, <2>2, PromiseStep, StatusSets DEF Unfinished
    <2>4. t \notin Promised
      BY <2>2 DEF HasRow, Promised, Unfinished
    <2> QED
      BY <2>1, <2>2, <2>3, <2>4 DEF RA!Next, RA!vars, RA!Promise, Promised
  <1>6. CASE Apply(c)
    <2>1. /\ work[c].pc = "planned" /\ effect' = effect \cup {t}
          /\ UNCHANGED <<journal, gaveUp>>
      BY <1>6 DEF Apply, At
    <2>2. t \in Txs /\ journal[t].status \in Unfinished
      BY <2>1, InBegin DEF BeginPCs, BeginOK, At, Unfinished
    <2> QED
      BY <2>1, <2>2 DEF RA!Next, RA!vars, RA!TakeEffect
  <1>7. CASE SaveExecuted(c)
    <2>1. work[c].pc = "applied" /\ UNCHANGED <<effect, gaveUp>>
          /\ (SaveOk(t, "EXECUTED", plan) \/ SaveFails)
      BY <1>7 DEF SaveExecuted, At, history
    <2>2. t \in Txs /\ plan \in Plans /\ t \in Promised
      BY <2>1, InBegin DEF BeginPCs, BeginOK, At, Promised
    <2>3. Promised' = Promised
      BY <2>1, <2>2, PromiseStep, StatusSets DEF Unfinished
    <2> QED
      BY <2>1, <2>3 DEF RA!vars, Promised
  <1>8. CASE UndoUnsaved(c)
    <2>1. /\ work[c].pc = "unsaved" /\ UNCHANGED journal
          /\ GiveBack(c) \/ TargetGone(c) \/ GiveBackFails(c)
      BY <1>8 DEF UndoUnsaved, At
    <2>2. t \in Txs
      BY <2>1, InBegin DEF BeginPCs
    <2> QED
      BY <2>1, <2>2 DEF GiveBack, TargetGone, GiveBackFails, history, RA!Next, RA!vars,
         RA!Undo, RA!Abandon
  <1> QED
    BY <1>1, <1>2, <1>3, <1>4, <1>5, <1>6, <1>7, <1>8 DEF BeginStep

LEMMA RollbackImplements ==
  ASSUME IInv, NEW c \in Callers, RollbackStep(c)
  PROVE  [RA!Next]_(RA!vars)
  <1> DEFINE t == work[c].id
  <1>1. CASE RollbackCall(c) \/ Lookup(c) \/ Forget(c) \/ Return(c)
    BY <1>1, QuietStep DEF RollbackCall, Lookup, Forget, Return, history
  <1>2. CASE Restore(c)
    <2>1. /\ work[c].pc = "found" /\ UNCHANGED journal
          /\ GiveBack(c) \/ TargetGone(c) \/ GiveBackFails(c)
      BY <1>2 DEF Restore, At
    <2>2. t \in Txs
      BY <2>1, InRollback DEF RollbackPCs
    <2> QED
      BY <2>1, <2>2 DEF GiveBack, TargetGone, GiveBackFails, history, RA!Next, RA!vars,
         RA!Undo, RA!Abandon
  <1>3. CASE RecordOutcome(c)
    <2>1. work[c].pc = "restored" /\ UNCHANGED <<effect, gaveUp>>
          /\ (SaveOk(t, work[c].status, work[c].plan) \/ SaveFails)
      BY <1>3 DEF RecordOutcome, At, history
    <2>2. /\ t \in Txs /\ work[c].plan \in Plans /\ work[c].status \in Outcomes
          /\ t \notin effect \/ t \in gaveUp
      BY <2>1, InRollback DEF RollbackPCs, RollbackOK, At
    <2>3. Promised' = Promised \/ Promised' = Promised \ {t}
      BY <2>1, <2>2, PromiseStep, StatusSets DEF Unfinished, Outcomes
    <2> QED
      BY <2>1, <2>2, <2>3 DEF RA!Next, RA!vars, RA!Discharge, Promised
  <1> QED
    BY <1>1, <1>2, <1>3 DEF RollbackStep

LEMMA ExitImplements ==
  ASSUME IInv, NEW p \in Pids, Exit(p)
  PROVE  [RA!Next]_(RA!vars)
  <1> DEFINE S == {t \in Txs : journal[t].plan.pid = p}
  <1>1. effect' = effect \ S /\ UNCHANGED <<journal, gaveUp>>
    BY DEF Exit, IInv, TypeOK
  <1>2. S \in SUBSET Txs
    OBVIOUS
  <1> QED
    BY <1>1, <1>2 DEF RA!Next, RA!vars, RA!Vanish

LEMMA StepImplements ==
  ASSUME IInv, [Next]_vars
  PROVE  [RA!Next]_(RA!vars)
  <1>1. CASE Tick \/ Boot \/ BootUnrecovered \/ Crash \/ Stop
    BY <1>1, QuietStep DEF Tick, Boot, BootUnrecovered, Crash, Stop, LoseMemory, history
  <1>2. CASE Environment
    <2>1. CASE DeadlinePasses
      BY <2>1, QuietStep DEF DeadlinePasses, history
    <2>2. ASSUME NEW p \in Pids, Spawn(p)
          PROVE  [RA!Next]_(RA!vars)
      BY <2>2, QuietStep DEF Spawn, history
    <2> QED
      BY <1>2, <2>1, <2>2, ExitImplements DEF Environment
  <1>3. CASE UNCHANGED vars
    BY <1>3, QuietStep DEF vars
  <1> QED
    BY <1>1, <1>2, <1>3, BeginImplements, RollbackImplements DEF Next

\* The coordinator keeps the promise of ReversibleAction: it changes another
\* process only under a durable record of how to undo the change, and drops
\* that record only when nothing is left to undo or the undo has failed.
THEOREM PromiseIsKept == Spec => KeepsPromise
  <1>1. Init => RA!Init
    BY DEF Init, RA!Init, NoRow, Unfinished
  <1>2. IInv /\ [Next]_vars => [RA!Next]_(RA!vars)
    BY StepImplements
  <1> QED
    BY <1>1, <1>2, Invariance, PTL DEF Spec, KeepsPromise, RA!Spec

\* What ReversibleAction promises is enough: every change is covered by a
\* durable record or by a failure somebody has seen.
THEOREM EveryChangeCovered == Spec => []RA!Covered
  <1>1. IInv => RA!Covered
    BY DEF IInv, UndoRecordKept, TypeOK, RA!Covered
  <1> QED
    BY <1>1, Invariance, PTL

-------------------------------------------------------------------------------
(* What a process had is what it gets back. *)

\* OriginalRestored, for one setting of one process.
OriginalAt(p, a) ==
  /\ proc[p].live
  /\ CapturedNative(p, a)
  /\ \A t \in effect : ~OnTarget(t, p, a)
  => Effective(proc[p].attr[a]) = Effective(native[p][a])

\* Once a row has a plan, the step leaves that plan alone.
PlanStays(t) == journal[t].plan # None => journal'[t].plan = journal[t].plan

\* The database keeps what was captured before the action: whoever writes the
\* row again, and whatever fails, no step replaces the plan of a row.
LEMMA PlansStay ==
  ASSUME IInv, [Next]_vars, NEW t \in Txs
  PROVE  PlanStays(t)
  <1>1. ASSUME NEW u \in Txs, NEW s \in Statuses \ {"NONE"}, NEW plan \in Plans,
               SaveOk(u, s, plan) \/ SaveFails
        PROVE  PlanStays(t)
    <2>1. journal'[t] = journal[t] \/ (t = u /\ (HasRow(t) => journal'[t].plan = journal[t].plan))
      BY <1>1, SaveStep DEF IInv
    <2>2. ~HasRow(t) => journal[t].plan = None
      BY DEF IInv, RowsHavePlans, NoRow
    <2> QED
      BY <2>1, <2>2 DEF PlanStays
  <1>2. CASE UNCHANGED journal
    BY <1>2 DEF PlanStays
  <1>3. ASSUME NEW c \in Callers, BeginRefused(c)
        PROVE  PlanStays(t)
    <2>1. PICK u \in Txs, p \in Pids, a \in Actions :
            LET pl == [pid |-> p, action |-> a, inc |-> 0, orig |-> None]
            IN  SaveOk(u, "BLOCKED", pl) \/ SaveFails
      BY <1>3 DEF BeginRefused
    <2>2. [pid |-> p, action |-> a, inc |-> 0, orig |-> None] \in Plans
      BY CoordinatorAssumption DEF Plans, Incarnations
    <2> QED
      BY <1>1, <2>1, <2>2, StatusSets DEF Refusals
  <1>4. ASSUME NEW c \in Callers, CaptureFails(c) \/ SavePlanned(c) \/ ApplyFails(c)
                                    \/ SaveExecuted(c)
        PROVE  PlanStays(t)
    <2>1. \E s \in Refusals \cup Unfinished :
            SaveOk(work[c].id, s, work[c].plan) \/ SaveFails
      BY <1>4 DEF CaptureFails, SavePlanned, ApplyFails, SaveExecuted, GiveUp, Refusals, Unfinished
    <2>2. work[c].id \in Txs /\ work[c].plan \in Plans
      BY <1>4, InBegin DEF CaptureFails, SavePlanned, ApplyFails, SaveExecuted, At, BeginPCs
    <2> QED
      BY <1>1, <2>1, <2>2, StatusSets
  <1>5. ASSUME NEW c \in Callers, RecordOutcome(c)
        PROVE  PlanStays(t)
    <2>1. /\ work[c].id \in Txs /\ work[c].plan \in Plans /\ work[c].status \in Outcomes
          /\ SaveOk(work[c].id, work[c].status, work[c].plan) \/ SaveFails
      BY <1>5, InRollback DEF RecordOutcome, At, RollbackPCs, RollbackOK
    <2> QED
      BY <1>1, <2>1, StatusSets
  <1>6. ASSUME NEW c \in Callers, BeginStep(c) \/ RollbackStep(c)
        PROVE  PlanStays(t)
    BY <1>2, <1>3, <1>4, <1>5, <1>6 DEF BeginStep, RollbackStep, BeginShielded, CaptureState,
       Apply, Register, UndoUnsaved, RollbackCall, Lookup, Restore, Forget, Return
  <1>7. CASE Tick \/ Boot \/ BootUnrecovered \/ Crash \/ Stop \/ Environment
    BY <1>2, <1>7 DEF Tick, Boot, BootUnrecovered, Crash, Stop, LoseMemory, Environment,
       DeadlinePasses, Exit, Spawn
  <1>8. CASE UNCHANGED vars
    BY <1>2, <1>8 DEF vars
  <1> QED
    BY <1>6, <1>7, <1>8 DEF Next

\* A step that leaves a setting and the actions on it alone keeps it as
\* original as it was.
LEMMA Elsewhere ==
  ASSUME NEW p \in Pids, NEW a \in Actions, OriginalAt(p, a),
         \A t \in Txs : PlanStays(t), effect \subseteq Txs,
         native'[p][a] = native[p][a], proc'[p].inc = proc[p].inc,
         proc'[p].attr[a] = proc[p].attr[a], proc'[p].live => proc[p].live,
         \A t \in effect : proc'[p].live /\ OnTarget(t, p, a) => t \in effect'
  PROVE  OriginalAt(p, a)'
  <1>1. \A t \in Txs : OnTarget(t, p, a) =>
          OnTarget(t, p, a)' /\ journal'[t].plan = journal[t].plan
    BY DEF OnTarget, PlanStays
  <1>2. CapturedNative(p, a)' => CapturedNative(p, a)
    BY <1>1 DEF CapturedNative
  <1>3. proc'[p].live /\ (\A t \in effect : ~OnTarget(t, p, a))' =>
          \A t \in effect : ~OnTarget(t, p, a)
    BY <1>1
  <1> QED
    BY <1>2, <1>3 DEF OriginalAt

\* While a change is in effect on a setting, nothing is claimed of it.
LEMMA ApplyOriginal ==
  ASSUME IInv, OriginalRestored, NEW c \in Callers, Apply(c),
         \A t \in Txs : PlanStays(t), NEW p \in Pids, NEW a \in Actions
  PROVE  OriginalAt(p, a)'
  <1>0. PICK t \in Txs, plan \in Plans : t = work[c].id /\ plan = work[c].plan
    BY InBegin DEF Apply, At, BeginPCs
  <1>1. /\ work[c].pc = "planned" /\ TargetIs(plan) /\ effect' = effect \cup {t}
        /\ UNCHANGED <<native, journal>>
    BY <1>0 DEF Apply, At
  <1>2. t \in Txs /\ plan \in Plans /\ journal[t].plan = plan
    BY <1>0, <1>1, InBegin DEF BeginPCs, BeginOK, At
  <1>3. /\ proc'[p].live = proc[p].live /\ proc'[p].inc = proc[p].inc
        /\ proc'[plan.pid].inc = proc[plan.pid].inc
        /\ ~(p = plan.pid /\ a = plan.action) => proc'[p].attr[a] = proc[p].attr[a]
    <2>1. Lowered(plan.action, proc[plan.pid].attr[plan.action]) \in AllSettings
      BY <1>2, SettingValues DEF IInv, TypeOK, Plans, Processes
    <2>2. Write(plan, Lowered(plan.action, proc[plan.pid].attr[plan.action]))
      BY <1>0 DEF Apply
    <2>3. plan.pid \in Pids /\ TypeOK
      BY <1>2 DEF Plans, IInv
    <2> QED
      BY <1>2, <2>1, <2>2, <2>3, WriteStep
  <1>4. CASE p = plan.pid /\ a = plan.action
    <2>1. OnTarget(t, p, a)'
      BY <1>1, <1>2, <1>3, <1>4, NoneAssumption DEF OnTarget, TargetIs
    <2> QED
      BY <1>1, <2>1 DEF OriginalAt
  <1>5. CASE ~(p = plan.pid /\ a = plan.action)
    <2>1. OriginalAt(p, a) /\ effect \subseteq Txs
      BY DEF OriginalRestored, OriginalAt, IInv, TypeOK
    <2> QED
      BY <1>1, <1>3, <1>5, <2>1, Elsewhere
  <1> QED
    BY <1>4, <1>5

\* What Rollback writes has the effect of what was captured.
LEMMA RestoredEffect ==
  \A a, v : Effective(Restored(a, v)) = Effective(v)
  BY DEF Effective, Restored

\* A rollback by any caller, of the change in effect or of one already taken
\* back, writes what is, in effect, the setting the process was created with.
LEMMA RollbackOriginal ==
  ASSUME IInv, OriginalRestored, NEW c \in Callers, work[c].id \in Txs,
         work[c].plan \in Plans, work[c].plan.orig \in AllSettings,
         journal[work[c].id].plan = work[c].plan, UNCHANGED journal,
         GiveBack(c) \/ TargetGone(c) \/ GiveBackFails(c),
         \A t \in Txs : PlanStays(t), NEW p \in Pids, NEW a \in Actions
  PROVE  OriginalAt(p, a)'
  <1>0. PICK t \in Txs, plan \in Plans : t = work[c].id /\ plan = work[c].plan
    OBVIOUS
  <1>1. OriginalAt(p, a) /\ effect \subseteq Txs
    BY DEF OriginalRestored, OriginalAt, IInv, TypeOK
  <1>2. CASE TargetGone(c) \/ GiveBackFails(c)
    <2>1. UNCHANGED <<proc, native, effect>>
      BY <1>2 DEF TargetGone, GiveBackFails, procVars, history
    <2> QED
      BY <1>1, <2>1, Elsewhere
  <1>3. CASE GiveBack(c)
    <2>1. /\ TargetIs(plan) /\ Write(plan, Restored(plan.action, plan.orig))
          /\ effect' = effect \ {t} /\ native' = native
      BY <1>0, <1>3 DEF GiveBack
    <2>2. /\ proc'[p].live = proc[p].live /\ proc'[p].inc = proc[p].inc
          /\ proc'[plan.pid].attr[plan.action] = Restored(plan.action, plan.orig)
          /\ ~(p = plan.pid /\ a = plan.action) => proc'[p].attr[a] = proc[p].attr[a]
      <3>1. Restored(plan.action, plan.orig) \in AllSettings /\ TypeOK
        BY <1>0, SettingValues DEF IInv
      <3> QED
        BY <2>1, <3>1, WriteStep
    <2>3. CASE p = plan.pid /\ a = plan.action
      <3>1. OnTarget(t, p, a)' /\ journal'[t].plan = plan /\ plan.orig # None
        <4>1. journal'[t].plan = plan /\ plan # None /\ plan.orig # None
          BY <1>0, NoneAssumption
        <4>2. plan.inc = proc'[p].inc
          BY <2>1, <2>2, <2>3 DEF TargetIs
        <4> QED
          BY <2>3, <4>1, <4>2 DEF OnTarget
      <3>2. CapturedNative(p, a)' => Effective(plan.orig) = Effective(native'[p][a])
        BY <3>1 DEF CapturedNative
      <3>3. Effective(proc'[p].attr[a]) = Effective(plan.orig)
        BY <2>2, <2>3, RestoredEffect
      <3> QED
        BY <3>2, <3>3 DEF OriginalAt
    <2>4. CASE ~(p = plan.pid /\ a = plan.action)
      <3>1. ~OnTarget(t, p, a)
        BY <1>0, <2>4 DEF OnTarget
      <3> QED
        BY <1>1, <2>1, <2>2, <2>4, <3>1, Elsewhere
    <2> QED
      BY <2>3, <2>4
  <1> QED
    BY <1>2, <1>3

LEMMA ExitOriginal ==
  ASSUME IInv, OriginalRestored, NEW q \in Pids, Exit(q),
         \A t \in Txs : PlanStays(t), NEW p \in Pids, NEW a \in Actions
  PROVE  OriginalAt(p, a)'
  <1>1. /\ proc' = [proc EXCEPT ![q].live = FALSE] /\ UNCHANGED <<native, journal>>
        /\ effect' = {t \in effect : journal[t].plan.pid # q}
    BY DEF Exit
  <1>2. /\ OriginalAt(p, a) /\ effect \subseteq Txs
        /\ proc \in [Pids -> Processes]
    BY DEF OriginalRestored, OriginalAt, IInv, TypeOK
  <1>3. CASE p = q
    BY <1>1, <1>2, <1>3 DEF OriginalAt, Processes
  <1>4. CASE p # q
    <2>1. proc'[p] = proc[p] /\ \A t \in effect : OnTarget(t, p, a) => t \in effect'
      BY <1>1, <1>2, <1>4 DEF OnTarget
    <2> QED
      BY <1>1, <1>2, <2>1, Elsewhere
  <1> QED
    BY <1>3, <1>4

\* A new process under a reused pid starts with its own settings.
LEMMA SpawnOriginal ==
  ASSUME IInv, OriginalRestored, NEW q \in Pids, Spawn(q),
         \A t \in Txs : PlanStays(t), NEW p \in Pids, NEW a \in Actions
  PROVE  OriginalAt(p, a)'
  <1>1. PICK attr \in ActionSettings :
          /\ proc' = [proc EXCEPT ![q] = [live |-> TRUE, inc |-> @.inc + 1, attr |-> attr]]
          /\ native' = [native EXCEPT ![q] = attr]
    BY DEF Spawn
  <1>2. effect' = effect /\ proc \in [Pids -> Processes]
        /\ native \in [Pids -> [Actions -> AllSettings]] /\ effect \subseteq Txs
        /\ OriginalAt(p, a)
    BY DEF Spawn, history, IInv, TypeOK, OriginalRestored, OriginalAt
  <1>3. CASE p = q
    BY <1>1, <1>2, <1>3 DEF OriginalAt
  <1>4. CASE p # q
    BY <1>1, <1>2, <1>4, Elsewhere
  <1> QED
    BY <1>3, <1>4

LEMMA OriginalStep ==
  ASSUME IInv, OriginalRestored, [Next]_vars
  PROVE  OriginalRestored'
  <1> SUFFICES ASSUME NEW p \in Pids, NEW a \in Actions
               PROVE  OriginalAt(p, a)'
    BY DEF OriginalRestored, OriginalAt
  <1>1. \A t \in Txs : PlanStays(t)
    BY PlansStay
  <1>2. OriginalAt(p, a) /\ effect \subseteq Txs
    BY DEF OriginalRestored, OriginalAt, IInv, TypeOK
  <1>3. CASE UNCHANGED <<proc, native, effect>>
    BY <1>1, <1>2, <1>3, Elsewhere
  <1>4. ASSUME NEW c \in Callers, UndoUnsaved(c)
        PROVE  OriginalAt(p, a)'
    <2>1. /\ work[c].pc = "unsaved" /\ UNCHANGED journal
          /\ GiveBack(c) \/ TargetGone(c) \/ GiveBackFails(c)
      BY <1>4 DEF UndoUnsaved, At
    <2>2. /\ work[c].id \in Txs /\ work[c].plan \in Plans
          /\ work[c].plan.orig \in AllSettings /\ journal[work[c].id].plan = work[c].plan
      BY <2>1, InBegin DEF BeginPCs, BeginOK, At
    <2> QED
      BY <1>1, <2>1, <2>2, RollbackOriginal
  <1>5. ASSUME NEW c \in Callers, Restore(c)
        PROVE  OriginalAt(p, a)'
    <2>1. /\ work[c].pc = "found" /\ UNCHANGED journal
          /\ GiveBack(c) \/ TargetGone(c) \/ GiveBackFails(c)
      BY <1>5 DEF Restore, At
    <2>2. /\ work[c].id \in Txs /\ work[c].plan \in Plans
          /\ work[c].plan.orig \in AllSettings /\ journal[work[c].id].plan = work[c].plan
      BY <2>1, InRollback DEF RollbackPCs
    <2> QED
      BY <1>1, <2>1, <2>2, RollbackOriginal
  <1>6. ASSUME NEW c \in Callers, BeginStep(c)
        PROVE  OriginalAt(p, a)'
    BY <1>1, <1>3, <1>4, <1>6, ApplyOriginal DEF BeginStep, BeginRefused, BeginShielded,
       CaptureFails, CaptureState, SavePlanned, ApplyFails, SaveExecuted, Register,
       procVars, history
  <1>7. ASSUME NEW c \in Callers, RollbackStep(c)
        PROVE  OriginalAt(p, a)'
    BY <1>3, <1>5, <1>7 DEF RollbackStep, RollbackCall, Lookup, RecordOutcome, Forget,
       Return, procVars, history
  <1>8. CASE Tick \/ Boot \/ BootUnrecovered \/ Crash \/ Stop
    BY <1>3, <1>8 DEF Tick, Boot, BootUnrecovered, Crash, Stop, LoseMemory, procVars, history
  <1>9. CASE Environment
    <2>1. CASE DeadlinePasses
      BY <1>3, <2>1 DEF DeadlinePasses, procVars, history
    <2> QED
      BY <1>1, <1>9, <2>1, ExitOriginal, SpawnOriginal DEF Environment
  <1>10. CASE UNCHANGED vars
    BY <1>3, <1>10 DEF vars
  <1> QED
    BY <1>6, <1>7, <1>8, <1>9, <1>10 DEF Next

\* A process has, in effect, the setting it was created with whenever no action
\* on it is in effect: after any number of actions, of any number of callers,
\* of failures, crashes, recoveries and reuses of its pid.
THEOREM OriginalIsRestored == Spec => []OriginalRestored
  <1>1. Init => OriginalRestored
    BY DEF Init, OriginalRestored
  <1>2. IInv /\ OriginalRestored /\ [Next]_vars => OriginalRestored'
    BY OriginalStep
  <1> QED
    BY <1>1, <1>2, Invariance, PTL DEF Spec

-------------------------------------------------------------------------------
(* A settled row is settled for good. *)

\* A rollback is going on or to come: the transaction is active, or a caller
\* has it in its queue or in its hands.
RollsBack(c, t) ==
  t \in work[c].queue \/ (work[c].pc \in RollbackPCs /\ work[c].id = t)
InHand(t) == active[t] # None \/ \E c \in Callers : RollsBack(c, t)

\* What Begin refused nobody rolls back.
NotRefused == \A t \in Txs : InHand(t) => journal[t].status \notin Refusals

\* A caller inside Begin that stays there, or leaves, takes nothing in hand.
LEMMA BeginInHand ==
  ASSUME IInv, NEW c \in Callers, work[c].pc \in BeginPCs \cup {"idle"},
         NEW w, work' = [work EXCEPT ![c] = w],
         w.pc \in BeginPCs \cup {"idle"}, w.queue = {}, active' = active,
         NEW t \in Txs
  PROVE  /\ InHand(t)' <=> InHand(t)
         /\ work[c].pc \in BeginPCs /\ work[c].id = t => ~InHand(t)
  <1>1. work'[c] = w /\ \A d \in Callers \ {c} : work'[d] = work[d]
    BY DEF IInv, TypeOK
  <1>2. work[c].queue = {} /\ ~RollsBack(c, t) /\ ~RollsBack(c, t)'
    BY <1>1 DEF IInv, PhaseOK, RollsBack, BeginPCs, RollbackPCs
  <1>3. \A d \in Callers \ {c} : RollsBack(d, t)' <=> RollsBack(d, t)
    BY <1>1 DEF RollsBack
  <1>4. InHand(t)' <=> InHand(t)
    BY <1>2, <1>3 DEF InHand
  <1>5. ASSUME work[c].pc \in BeginPCs, work[c].id = t
        PROVE  ~InHand(t)
    <2>1. active[t] = None /\ \A d \in Callers \ {c} : ~Handles(d, t)
      BY <1>5, InBegin
    <2>2. \A d \in Callers \ {c} : ~RollsBack(d, t)
      BY <2>1 DEF Handles, RollsBack, At, RollbackPCs
    <2> QED
      BY <1>2, <2>1, <2>2 DEF InHand
  <1> QED
    BY <1>4, <1>5

\* A row changes its status in Begin, before anybody rolls the transaction
\* back, or at the end of a rollback.
BegunRow(t) ==
  ~InHand(t) /\ ~InHand(t)' /\ (~HasRow(t) \/ journal[t].status \in Unfinished)
RolledRow(t) ==
  /\ \E c \in Callers : RecordOutcome(c) /\ work[c].id = t
  /\ journal'[t].status \in Outcomes
RowStep(t) ==
  journal'[t].status = journal[t].status \/ BegunRow(t) \/ RolledRow(t)

\* The step leaves the row of t alone or is the write of the row of Begin.
LEMMA BeginWrites ==
  ASSUME IInv, NEW c \in Callers, work[c].pc \in BeginPCs,
         NEW s \in Statuses \ {"NONE"},
         SaveOk(work[c].id, s, work[c].plan) \/ SaveFails,
         ~HasRow(work[c].id) \/ journal[work[c].id].status \in Unfinished,
         NEW w, work' = [work EXCEPT ![c] = w],
         w.pc \in BeginPCs \cup {"idle"}, w.queue = {}, active' = active,
         NEW t \in Txs
  PROVE  RowStep(t)
  <1>1. \A u \in Txs \ {work[c].id} : journal'[u] = journal[u]
    BY InBegin, SaveStep DEF IInv
  <1>2. t = work[c].id => ~InHand(t) /\ ~InHand(t)'
    BY BeginInHand
  <1> QED
    BY <1>1, <1>2 DEF RowStep, BegunRow

LEMMA BeginRow ==
  ASSUME IInv, NEW c \in Callers, BeginStep(c), NEW t \in Txs
  PROVE  RowStep(t)
  <1>0. work \in [Callers -> CallerStates] /\ work[c] \in CallerStates
    BY DEF IInv, TypeOK
  <1>1. CASE BeginRefused(c)
    <2>1. PICK u \in Txs \ used, p \in Pids, a \in Actions :
            LET pl == [pid |-> p, action |-> a, inc |-> 0, orig |-> None]
            IN  SaveOk(u, "BLOCKED", pl) \/ SaveFails
      BY <1>1 DEF BeginRefused
    <2>2. [pid |-> p, action |-> a, inc |-> 0, orig |-> None] \in Plans
      BY CoordinatorAssumption DEF Plans, Incarnations
    <2>3. \A v \in Txs \ {u} : journal'[v] = journal[v]
      BY <2>1, <2>2, SaveStep, StatusSets DEF IInv, Refusals
    <2>4. active' = active /\ work' = work
      BY <1>1 DEF BeginRefused
    <2>5. ~HasRow(u) /\ ~InHand(u)
      <3>1. journal[u] = NoRow /\ active[u] = None /\ \A d \in Callers : ~Handles(d, u)
        BY DEF IInv, UnusedNowhere
      <3> QED
        BY <3>1 DEF InHand, RollsBack, Handles, At, HasRow, NoRow, RollbackPCs
    <2>6. InHand(u)' <=> InHand(u)
      BY <2>4 DEF InHand, RollsBack
    <2> QED
      BY <2>3, <2>5, <2>6 DEF RowStep, BegunRow
  <1>2. CASE UNCHANGED journal
    BY <1>2 DEF RowStep
  <1>3. CASE CaptureFails(c) \/ ApplyFails(c)
    <2>1. PICK s \in Refusals : GiveUp(c, s)
      BY <1>3 DEF CaptureFails, ApplyFails, Refusals
    <2>2. /\ work[c].pc \in {"shielded", "planned"} /\ active' = active
          /\ work' = [work EXCEPT ![c] = Idle]
          /\ SaveOk(work[c].id, s, work[c].plan) \/ SaveFails
      BY <1>3, <2>1 DEF CaptureFails, ApplyFails, GiveUp, Set, At
    <2>3. ~HasRow(work[c].id) \/ journal[work[c].id].status \in Unfinished
      BY <2>2, InBegin DEF BeginPCs, BeginOK, At, Unfinished
    <2> QED
      BY <2>2, <2>3, BeginWrites, IdleState, StatusSets DEF BeginPCs
  <1>4. CASE SavePlanned(c)
    <2>1. /\ work[c].pc = "captured" /\ active' = active
          /\ SaveOk(work[c].id, "PLANNED", work[c].plan) \/ SaveFails
          /\ Goto(c, "planned") \/ Set(c, Idle)
      BY <1>4 DEF SavePlanned, At
    <2>2. ~HasRow(work[c].id) /\ work[c].queue = {}
      BY <2>1, InBegin DEF BeginPCs, BeginOK, At
    <2>3. \E w : /\ work' = [work EXCEPT ![c] = w]
                 /\ w.pc \in BeginPCs \cup {"idle"} /\ w.queue = {}
      <3> DEFINE w == [work[c] EXCEPT !.pc = "planned"]
      <3>1. w.pc = "planned" /\ w.queue = {}
        BY <1>0, <2>2 DEF CallerStates
      <3>2. Goto(c, "planned") => work' = [work EXCEPT ![c] = w]
        BY DEF Goto
      <3> QED
        BY <2>1, <3>1, <3>2, IdleState DEF Set, BeginPCs
    <2> QED
      BY <2>1, <2>2, <2>3, BeginWrites, StatusSets DEF BeginPCs, Unfinished
  <1>5. CASE SaveExecuted(c)
    <2>1. /\ work[c].pc = "applied" /\ active' = active
          /\ SaveOk(work[c].id, "EXECUTED", work[c].plan) \/ SaveFails
          /\ Goto(c, "confirmed") \/ Goto(c, "unsaved")
      BY <1>5 DEF SaveExecuted, At
    <2>2. journal[work[c].id].status \in Unfinished /\ work[c].queue = {}
      BY <2>1, InBegin DEF BeginPCs, BeginOK, At
    <2>3. \E w : /\ work' = [work EXCEPT ![c] = w]
                 /\ w.pc \in BeginPCs \cup {"idle"} /\ w.queue = {}
      <3>1. \A pc \in {"confirmed", "unsaved"} :
              [work[c] EXCEPT !.pc = pc].pc = pc /\ [work[c] EXCEPT !.pc = pc].queue = {}
        BY <1>0, <2>2 DEF CallerStates
      <3>2. \E pc \in {"confirmed", "unsaved"} :
              work' = [work EXCEPT ![c] = [work[c] EXCEPT !.pc = pc]]
        BY <2>1 DEF Goto
      <3> QED
        BY <3>1, <3>2 DEF BeginPCs
    <2> QED
      BY <2>1, <2>2, <2>3, BeginWrites, StatusSets DEF BeginPCs, Unfinished
  <1> QED
    BY <1>1, <1>2, <1>3, <1>4, <1>5 DEF BeginStep, BeginShielded, CaptureState, Apply,
       Register, UndoUnsaved

LEMMA EveryRowStep ==
  ASSUME IInv, [Next]_vars, NEW t \in Txs
  PROVE  RowStep(t)
  <1>1. CASE UNCHANGED journal
    BY <1>1 DEF RowStep
  <1>2. ASSUME NEW c \in Callers, RecordOutcome(c)
        PROVE  RowStep(t)
    <2>1. /\ work[c].id \in Txs /\ work[c].plan \in Plans /\ work[c].status \in Outcomes
          /\ SaveOk(work[c].id, work[c].status, work[c].plan) \/ SaveFails
      BY <1>2, InRollback DEF RecordOutcome, At, RollbackPCs, RollbackOK
    <2>2. \/ journal'[t] = journal[t]
          \/ t = work[c].id /\ journal'[t].status = work[c].status
      BY <2>1, SaveStep, StatusSets DEF IInv
    <2> QED
      BY <1>2, <2>1, <2>2 DEF RowStep, RolledRow
  <1>3. ASSUME NEW c \in Callers, RollbackStep(c)
        PROVE  RowStep(t)
    BY <1>1, <1>2, <1>3 DEF RollbackStep, RollbackCall, Lookup, Restore, Forget, Return
  <1>4. CASE Tick \/ Boot \/ BootUnrecovered \/ Crash \/ Stop \/ Environment
    BY <1>1, <1>4 DEF Tick, Boot, BootUnrecovered, Crash, Stop, LoseMemory, Environment,
       DeadlinePasses, Exit, Spawn
  <1>5. CASE UNCHANGED vars
    BY <1>1, <1>5 DEF vars
  <1> QED
    BY <1>3, <1>4, <1>5, BeginRow DEF Next

LEMMA RollsBackInHand ==
  ASSUME NEW c \in Callers, NEW t, RollsBack(c, t)
  PROVE  InHand(t)
  BY DEF InHand

\* A caller that rolls back takes in hand only what is in hand already.
LEMMA RollbackInHand ==
  ASSUME IInv, NEW c \in Callers, NEW w, work' = [work EXCEPT ![c] = w],
         NEW t \in Txs, active'[t] # None => active[t] # None,
         t \in w.queue \/ (w.pc \in RollbackPCs /\ w.id = t) => InHand(t)
  PROVE  InHand(t)' => InHand(t)
  <1>1. work'[c] = w /\ \A d \in Callers \ {c} : work'[d] = work[d]
    BY DEF IInv, TypeOK
  <1>2. RollsBack(c, t)' => InHand(t)
    BY <1>1 DEF RollsBack
  <1>3. \A d \in Callers \ {c} : RollsBack(d, t)' => InHand(t)
    BY <1>1 DEF RollsBack, InHand
  <1> QED
    BY <1>2, <1>3 DEF InHand

\* Nothing is taken in hand but what Begin or the recovery found unfinished.
TakenStep(t) == InHand(t)' => InHand(t) \/ journal[t].status \in Unfinished

LEMMA RollbackTakes ==
  ASSUME IInv, NEW c \in Callers, RollbackStep(c) \/ (Tick /\ c = Monitor), NEW t \in Txs
  PROVE  InHand(t)' => InHand(t)
  <1>0. /\ work \in [Callers -> CallerStates] /\ work[c] \in CallerStates
        /\ active \in [Txs -> Plans \cup {None}] /\ Idle.queue = {}
    BY IdleState DEF IInv, TypeOK
  <1>1. CASE RollbackCall(c) \/ (Tick /\ c = Monitor)
    <2>1. /\ active' = active
          /\ \E S \in SUBSET {u \in Txs : active[u] # None} :
               work' = [work EXCEPT ![c] = [Idle EXCEPT !.pc = "next", !.queue = S]]
      BY <1>0, <1>1 DEF RollbackCall, Tick, Set, IInv, TypeOK
    <2>2. PICK S \in SUBSET {u \in Txs : active[u] # None} :
               work' = [work EXCEPT ![c] = [Idle EXCEPT !.pc = "next", !.queue = S]]
      BY <2>1
    <2> DEFINE w == [Idle EXCEPT !.pc = "next", !.queue = S]
    <2>3. w.pc = "next" /\ w.queue = S
      BY DEF Idle
    <2>4. t \in S => InHand(t)
      BY DEF InHand
    <2> HIDE DEF w
    <2> QED
      BY <2>1, <2>2, <2>3, <2>4, RollbackInHand DEF RollbackPCs, w
  <1>2. CASE Lookup(c)
    <2>1. PICK u \in work[c].queue :
            LET plan == IF Recovering(c) THEN journal[u].plan ELSE active[u] IN
            Set(c, IF plan = None
                   THEN [work[c] EXCEPT !.queue = @ \ {u}]
                   ELSE [work[c] EXCEPT !.pc = "found", !.id = u, !.plan = plan,
                                        !.queue = @ \ {u}])
      BY <1>2 DEF Lookup
    <2>2. active' = active /\ work[c].pc = "next"
      BY <1>2 DEF Lookup, At
    <2>3. PICK plan : Set(c, IF plan = None
                   THEN [work[c] EXCEPT !.queue = @ \ {u}]
                   ELSE [work[c] EXCEPT !.pc = "found", !.id = u, !.plan = plan,
                                        !.queue = @ \ {u}])
      BY <2>1
    <2> DEFINE w == IF plan = None
                    THEN [work[c] EXCEPT !.queue = @ \ {u}]
                    ELSE [work[c] EXCEPT !.pc = "found", !.id = u, !.plan = plan,
                                         !.queue = @ \ {u}]
    <2>4. t \in w.queue \/ (w.pc \in RollbackPCs /\ w.id = t) => t \in work[c].queue
      <3>1. w.queue = work[c].queue \ {u}
        BY <1>0 DEF CallerStates
      <3>2. plan = None => w.pc = "next"
        BY <1>0, <2>2 DEF CallerStates
      <3>3. plan # None => w.id = u
        BY <1>0 DEF CallerStates
      <3> QED
        BY <3>1, <3>2, <3>3 DEF RollbackPCs
    <2>5. t \in work[c].queue => InHand(t)
      BY RollsBackInHand DEF RollsBack
    <2>6. work' = [work EXCEPT ![c] = w]
      BY <2>3 DEF Set
    <2> HIDE DEF w
    <2> QED
      BY <2>2, <2>4, <2>5, <2>6, RollbackInHand
  <1>3. CASE Restore(c) \/ RecordOutcome(c) \/ Forget(c)
    <2>1. /\ work[c].pc \in RollbackPCs
          /\ \E w : /\ work' = [work EXCEPT ![c] = w]
                    /\ w.queue = work[c].queue /\ w.id = work[c].id
      <3>1. ASSUME NEW pc
            PROVE  /\ [work[c] EXCEPT !.pc = pc].queue = work[c].queue
                   /\ [work[c] EXCEPT !.pc = pc].id = work[c].id
        BY <1>0 DEF CallerStates
      <3>2. CASE Restore(c)
        <4>1. PICK s \in Outcomes : work' = [work EXCEPT ![c] =
                                       [work[c] EXCEPT !.pc = "restored", !.status = s]]
          BY <3>2 DEF Restore, Set
        <4> DEFINE w == [work[c] EXCEPT !.pc = "restored", !.status = s]
        <4>2. w.queue = work[c].queue /\ w.id = work[c].id
          BY <1>0 DEF CallerStates
        <4> QED
          BY <3>2, <4>1, <4>2 DEF Restore, At, RollbackPCs
      <3>3. CASE RecordOutcome(c) \/ Forget(c)
        <4>1. PICK pc : work' = [work EXCEPT ![c] = [work[c] EXCEPT !.pc = pc]]
          BY <3>3 DEF RecordOutcome, Forget, Goto
        <4>2. /\ [work[c] EXCEPT !.pc = pc].queue = work[c].queue
              /\ [work[c] EXCEPT !.pc = pc].id = work[c].id
          BY <3>1
        <4>3. work[c].pc \in RollbackPCs
          BY <3>3 DEF RecordOutcome, Forget, At, RollbackPCs
        <4> QED
          BY <4>1, <4>2, <4>3
      <3> QED
        BY <1>3, <3>2, <3>3
    <2>2. active'[t] # None => active[t] # None
      <3>1. CASE Forget(c)
        BY <1>0, <3>1 DEF Forget
      <3>2. CASE Restore(c) \/ RecordOutcome(c)
        BY <3>2 DEF Restore, RecordOutcome
      <3> QED
        BY <1>3, <3>1, <3>2
    <2>3. t \in work[c].queue \/ work[c].id = t => InHand(t)
      BY <2>1, RollsBackInHand DEF RollsBack
    <2> QED
      BY <2>1, <2>2, <2>3, RollbackInHand
  <1>4. CASE Return(c)
    <2>1. active' = active /\ work' = [work EXCEPT ![c] = Idle]
      BY <1>4 DEF Return, Set
    <2> QED
      BY <2>1, IdleState, RollbackInHand DEF RollbackPCs
  <1> QED
    BY <1>1, <1>2, <1>3, <1>4 DEF RollbackStep

LEMMA EveryTakenStep ==
  ASSUME IInv, [Next]_vars, NEW t \in Txs
  PROVE  TakenStep(t)
  <1>0. work \in [Callers -> CallerStates] /\ active \in [Txs -> Plans \cup {None}]
    BY DEF IInv, TypeOK
  <1>1. CASE UNCHANGED <<active, work>>
    BY <1>1 DEF TakenStep, InHand, RollsBack
  <1>2. ASSUME \A u \in Txs : active'[u] = None, \A c \in Callers : work'[c] = Idle
        PROVE  TakenStep(t)
    BY <1>2, IdleState DEF TakenStep, InHand, RollsBack, RollbackPCs
  <1>3. ASSUME NEW c \in Callers, BeginStep(c)
        PROVE  TakenStep(t)
    <2>1. CASE Register(c)
      <3>1. /\ work[c].pc = "confirmed" /\ work' = [work EXCEPT ![c] = Idle]
            /\ active' = [active EXCEPT ![work[c].id] = work[c].plan]
        BY <2>1 DEF Register, Set, At
      <3>2. journal[work[c].id].status \in Unfinished
        BY <3>1, InBegin DEF BeginPCs, BeginOK, At
      <3>3. t # work[c].id => active'[t] = active[t]
        BY <1>0, <3>1
      <3>4. t # work[c].id => (InHand(t)' => InHand(t))
        BY <3>1, <3>3, IdleState, RollbackInHand DEF RollbackPCs
      <3> QED
        BY <3>2, <3>4 DEF TakenStep
    <2>2. CASE BeginRefused(c)
      BY <1>1, <2>2 DEF BeginRefused
    <2>3. CASE ~Register(c) /\ ~BeginRefused(c)
      <3>1. active' = active
        BY <1>3, <2>3 DEF BeginStep, BeginShielded, CaptureFails, CaptureState, SavePlanned,
           ApplyFails, Apply, SaveExecuted, UndoUnsaved
      <3>2. \E w : /\ work' = [work EXCEPT ![c] = w]
                   /\ w.pc \in BeginPCs \cup {"idle"} /\ w.queue = {}
        <4>1. ASSUME NEW pc \in BeginPCs, Goto(c, pc), work[c].pc \in BeginPCs
              PROVE  \E w : /\ work' = [work EXCEPT ![c] = w]
                            /\ w.pc \in BeginPCs \cup {"idle"} /\ w.queue = {}
          <5>1. work' = [work EXCEPT ![c] = [work[c] EXCEPT !.pc = pc]]
            BY <4>1 DEF Goto
          <5>2. work[c] \in CallerStates /\ work[c].queue = {}
            BY <4>1, InBegin
          <5>3. [work[c] EXCEPT !.pc = pc].pc = pc /\ [work[c] EXCEPT !.pc = pc].queue = {}
            BY <5>2 DEF CallerStates
          <5> QED
            BY <5>1, <5>3
        <4>2. ASSUME Set(c, Idle)
              PROVE  \E w : /\ work' = [work EXCEPT ![c] = w]
                            /\ w.pc \in BeginPCs \cup {"idle"} /\ w.queue = {}
          <5>1. work' = [work EXCEPT ![c] = Idle]
            BY <4>2 DEF Set
          <5> QED
            BY <5>1, IdleState
        <4>3. CASE BeginShielded(c)
          <5>1. PICK u \in Txs, p \in Pids, a \in Actions :
                  work' = [work EXCEPT ![c] =
                    [pc |-> "shielded", id |-> u, status |-> "NONE", queue |-> {},
                     plan |-> [pid |-> p, action |-> a, inc |-> proc[p].inc,
                               orig |-> None]]]
            BY <4>3 DEF BeginShielded, Set
          <5> DEFINE w == [pc |-> "shielded", id |-> u, status |-> "NONE", queue |-> {},
                           plan |-> [pid |-> p, action |-> a, inc |-> proc[p].inc,
                                     orig |-> None]]
          <5>2. w.pc = "shielded" /\ w.queue = {}
            OBVIOUS
          <5> QED
            BY <5>1, <5>2 DEF BeginPCs
        <4>4. CASE CaptureState(c)
          <5>1. work[c] \in CallerStates /\ work[c].queue = {}
            BY <4>4, InBegin DEF CaptureState, At, BeginPCs
          <5> DEFINE o == proc[work[c].plan.pid].attr[work[c].plan.action]
                     w == [work[c] EXCEPT !.pc = "captured", !.plan.orig = o]
          <5>2. w.pc = "captured" /\ w.queue = {}
            BY <5>1 DEF CallerStates
          <5>3. work' = [work EXCEPT ![c] = w]
            BY <4>4 DEF CaptureState, Set
          <5> QED
            BY <5>2, <5>3 DEF BeginPCs
        <4>5. CASE SavePlanned(c) \/ Apply(c) \/ SaveExecuted(c)
          <5>1. work[c].pc \in BeginPCs /\ (Set(c, Idle) \/ \E pc \in BeginPCs : Goto(c, pc))
            BY <4>5 DEF SavePlanned, Apply, SaveExecuted, At, BeginPCs
          <5> QED
            BY <4>1, <4>2, <5>1
        <4>6. CASE CaptureFails(c) \/ ApplyFails(c) \/ UndoUnsaved(c)
          BY <4>2, <4>6 DEF CaptureFails, ApplyFails, UndoUnsaved, GiveUp
        <4> QED
          BY <1>3, <2>3, <4>3, <4>4, <4>5, <4>6 DEF BeginStep
      <3>3. PICK w : /\ work' = [work EXCEPT ![c] = w]
                     /\ w.pc \in BeginPCs \cup {"idle"} /\ w.queue = {}
        BY <3>2
      <3>4. InHand(t)' => InHand(t)
        BY <3>1, <3>3, RollbackInHand DEF RollbackPCs, BeginPCs
      <3> QED
        BY <3>4 DEF TakenStep
    <2> QED
      BY <2>1, <2>2, <2>3
  <1>4. ASSUME NEW c \in Callers, RollbackStep(c)
        PROVE  TakenStep(t)
    BY <1>4, RollbackTakes DEF TakenStep
  <1>5. CASE Tick
    BY <1>5, RollbackTakes, CoordinatorAssumption DEF TakenStep
  <1>6. CASE Boot
    <2> DEFINE w == [Idle EXCEPT !.pc = "next",
                       !.queue = {u \in Txs : journal[u].status \in Unfinished}]
    <2>1. w.pc = "next" /\ w.queue = {u \in Txs : journal[u].status \in Unfinished}
      BY DEF Idle
    <2>2. active' = active /\ work' = [work EXCEPT ![Monitor] = w]
      BY <1>6 DEF Boot, Set
    <2>3. journal[t].status \notin Unfinished => t \notin w.queue
      BY <2>1
    <2> HIDE DEF w
    <2>4. journal[t].status \notin Unfinished => (InHand(t)' => InHand(t))
      BY <2>1, <2>2, <2>3, RollbackInHand, CoordinatorAssumption DEF RollbackPCs
    <2> QED
      BY <2>4 DEF TakenStep
  <1>7. CASE Crash \/ Stop
    BY <1>2, <1>7 DEF Crash, Stop, LoseMemory
  <1>8. CASE BootUnrecovered \/ Environment
    BY <1>1, <1>8 DEF BootUnrecovered, Environment, DeadlinePasses, Exit, Spawn
  <1>9. CASE UNCHANGED vars
    BY <1>1, <1>9 DEF vars
  <1> QED
    BY <1>3, <1>4, <1>5, <1>6, <1>7, <1>8, <1>9 DEF Next

LEMMA NotRefusedStep ==
  ASSUME IInv, NotRefused, [Next]_vars
  PROVE  NotRefused'
  <1> SUFFICES ASSUME NEW t \in Txs, InHand(t)'
               PROVE  journal'[t].status \notin Refusals
    BY DEF NotRefused
  <1>1. InHand(t) \/ journal[t].status \in Unfinished
    BY EveryTakenStep DEF TakenStep
  <1>2. journal[t].status \notin Refusals
    BY <1>1 DEF NotRefused, Refusals, Unfinished
  <1>3. journal'[t].status = journal[t].status \/ RolledRow(t)
    BY EveryRowStep DEF RowStep, BegunRow
  <1> QED
    BY <1>2, <1>3 DEF RolledRow, Refusals, Outcomes

\* A row never goes back: its plan stays, a refusal stays as it is, and a
\* settled transaction never becomes one that recovery would undo again.  Two
\* callers that roll one transaction back may only replace one outcome by
\* another.
RowsOnlyForward ==
  [][\A t \in Txs :
       /\ PlanStays(t)
       /\ journal[t].status \in Settled => journal'[t].status \in Settled
       /\ journal[t].status \in Refusals => journal'[t].status = journal[t].status]_vars

LEMMA NeverRefused == Spec => [](IInv /\ NotRefused)
  <1>1. Init => NotRefused
    BY IdleState DEF Init, NotRefused, InHand, RollsBack, RollbackPCs
  <1>2. IInv /\ NotRefused /\ [Next]_vars => NotRefused'
    BY NotRefusedStep
  <1> QED
    BY <1>1, <1>2, InitInv, StepInv, PTL DEF Spec

THEOREM RowsGoForward == Spec => RowsOnlyForward
  <1>1. ASSUME IInv, NotRefused, [Next]_vars, NEW t \in Txs
        PROVE  /\ PlanStays(t)
               /\ journal[t].status \in Settled => journal'[t].status \in Settled
               /\ journal[t].status \in Refusals => journal'[t].status = journal[t].status
    <2>1. PlanStays(t)
      BY <1>1, PlansStay
    <2>2. journal[t].status \in Settled => ~BegunRow(t)
      BY DEF BegunRow, HasRow, Settled, Outcomes, Refusals, Unfinished
    <2>3. RolledRow(t) => InHand(t) /\ journal'[t].status \in Outcomes
      BY DEF RolledRow, RecordOutcome, At, InHand, RollsBack, RollbackPCs
    <2> QED
      BY <1>1, <2>1, <2>2, <2>3, EveryRowStep DEF RowStep, NotRefused, Settled
  <1>2. IInv /\ NotRefused /\ [Next]_vars =>
          [\A t \in Txs :
             /\ PlanStays(t)
             /\ journal[t].status \in Settled => journal'[t].status \in Settled
             /\ journal[t].status \in Refusals => journal'[t].status = journal[t].status]_vars
    BY <1>1
  <1> QED
    BY <1>2, NeverRefused, PTL DEF Spec, RowsOnlyForward

-------------------------------------------------------------------------------
(* With the monitor as the only caller a row is settled once. *)

IsUnfinished(t) == journal[t].status \in Unfinished

\* What the monitor has in hand is unfinished, but for the transaction it has
\* just recorded and is about to forget.
Sole ==
  LET w == work[Monitor] IN
  /\ \A t \in Txs : active[t] # None => IsUnfinished(t) \/ (w.pc = "recorded" /\ w.id = t)
  /\ w.pc \in {"found", "restored"} => IsUnfinished(w.id) /\ w.id \notin w.queue
  /\ Recovering(Monitor) => \A t \in w.queue : IsUnfinished(t)

\* The rows in hand stay unfinished until the outcome is recorded.
LEMMA SoleRows ==
  ASSUME IInv, Callers = {Monitor}, [Next]_vars, NEW t \in Txs, InHand(t), IsUnfinished(t)
  PROVE  IsUnfinished(t)' \/ (RecordOutcome(Monitor) /\ work[Monitor].id = t)
  BY EveryRowStep DEF RowStep, BegunRow, RolledRow, IsUnfinished

\* A step after which nothing is in the hands of the monitor but what is active.
LEMMA SoleIdle ==
  ASSUME IInv, Sole, Callers = {Monitor}, [Next]_vars, ~RecordOutcome(Monitor),
         work[Monitor].pc # "recorded", active' = active,
         work'[Monitor].pc \notin {"found", "restored"},
         Recovering(Monitor)' => work'[Monitor].queue = {}
  PROVE  Sole'
  <1>1. ASSUME NEW t \in Txs, active[t] # None
        PROVE  IsUnfinished(t)'
    BY <1>1, SoleRows DEF Sole, InHand
  <1> QED
    BY <1>1 DEF Sole

LEMMA SoleBegin ==
  ASSUME IInv, Sole, Callers = {Monitor}, [Next]_vars, BeginStep(Monitor)
  PROVE  Sole'
  <1>0. /\ work[Monitor].pc \in BeginPCs \cup {"idle"} /\ phase' = phase
        /\ work \in [Callers -> CallerStates] /\ active \in [Txs -> Plans \cup {None}]
        /\ ~RecordOutcome(Monitor) /\ work[Monitor].pc # "recorded"
    BY DEF IInv, TypeOK, BeginStep, BeginRefused, BeginShielded, CaptureFails, CaptureState,
       SavePlanned, ApplyFails, Apply, SaveExecuted, Register, UndoUnsaved, appVars, At,
       BeginPCs, RecordOutcome
  <1>1. phase = "up"
    BY <1>0, InBegin, CoordinatorAssumption DEF BeginStep, BeginRefused, BeginShielded,
       CaptureFails, CaptureState, SavePlanned, ApplyFails, Apply, SaveExecuted, Register,
       UndoUnsaved, At, BeginPCs
  <1>2. ~Recovering(Monitor)'
    BY <1>0, <1>1 DEF Recovering
  <1>3. CASE Register(Monitor)
    <2>1. /\ work' = [work EXCEPT ![Monitor] = Idle] /\ journal' = journal
          /\ active' = [active EXCEPT ![work[Monitor].id] = work[Monitor].plan]
          /\ work[Monitor].pc = "confirmed"
      BY <1>3 DEF Register, Set, At
    <2>2. IsUnfinished(work[Monitor].id)
      BY <2>1, InBegin DEF BeginPCs, BeginOK, At, IsUnfinished
    <2>3. work'[Monitor].pc = "idle"
      BY <1>0, <2>1, IdleState
    <2>4. ASSUME NEW t \in Txs, active'[t] # None
          PROVE  IsUnfinished(t)'
      <3>1. t = work[Monitor].id \/ active[t] # None
        BY <1>0, <2>1, <2>4
      <3> QED
        BY <1>0, <2>1, <2>2, <3>1 DEF Sole, IsUnfinished
    <2> QED
      BY <1>2, <2>3, <2>4 DEF Sole
  <1>4. CASE ~Register(Monitor)
    <2>1. active' = active
      BY <1>4 DEF BeginStep, BeginRefused, BeginShielded, CaptureFails, CaptureState,
         SavePlanned, ApplyFails, Apply, SaveExecuted, UndoUnsaved
    <2>2. work'[Monitor].pc \notin {"found", "restored"}
      <3>0. work[Monitor] \in CallerStates
        BY <1>0, CoordinatorAssumption
      <3>1. CASE BeginRefused(Monitor)
        BY <1>0, <3>1 DEF BeginRefused, BeginPCs
      <3>2. CASE BeginShielded(Monitor)
        BY <1>0, <3>2, CoordinatorAssumption DEF BeginShielded, Set
      <3>3. CASE CaptureState(Monitor)
        BY <1>0, <3>0, <3>3, CoordinatorAssumption DEF CaptureState, Set, CallerStates
      <3>4. CASE Set(Monitor, Idle)
        BY <1>0, <3>4, IdleState, CoordinatorAssumption DEF Set
      <3>5. ASSUME NEW pc \in BeginPCs, Goto(Monitor, pc)
            PROVE  work'[Monitor].pc \notin {"found", "restored"}
        BY <1>0, <3>0, <3>5, CoordinatorAssumption DEF Goto, CallerStates, BeginPCs
      <3>6. CASE SavePlanned(Monitor) \/ Apply(Monitor) \/ SaveExecuted(Monitor)
        BY <3>4, <3>5, <3>6 DEF SavePlanned, Apply, SaveExecuted, BeginPCs
      <3>7. CASE CaptureFails(Monitor) \/ ApplyFails(Monitor) \/ UndoUnsaved(Monitor)
        BY <3>4, <3>7 DEF CaptureFails, ApplyFails, UndoUnsaved, GiveUp
      <3> QED
        BY <1>4, <3>1, <3>2, <3>3, <3>6, <3>7 DEF BeginStep
    <2> QED
      BY <1>0, <1>2, <2>1, <2>2, SoleIdle
  <1> QED
    BY <1>3, <1>4

LEMMA SoleRollback ==
  ASSUME IInv, Sole, Callers = {Monitor}, [Next]_vars, RollbackStep(Monitor) \/ Tick
  PROVE  Sole'
  <1>0. /\ work \in [Callers -> CallerStates] /\ active \in [Txs -> Plans \cup {None}]
        /\ work[Monitor] \in CallerStates
    BY CoordinatorAssumption DEF IInv, TypeOK
  <1>1. CASE RollbackCall(Monitor) \/ Tick
    <2>1. /\ active' = active /\ work[Monitor].pc = "idle" /\ phase = "up" /\ phase' = phase
          /\ ~RecordOutcome(Monitor)
      BY <1>1 DEF RollbackCall, Tick, At, appVars, RecordOutcome
    <2>2. work'[Monitor].pc = "next"
      BY <1>0, <1>1, CoordinatorAssumption DEF RollbackCall, Tick, Set, Idle
    <2> QED
      BY <2>1, <2>2, SoleIdle DEF Recovering
  <1>2. CASE Lookup(Monitor)
    <2>1. PICK t \in work[Monitor].queue :
            LET plan == IF Recovering(Monitor) THEN journal[t].plan ELSE active[t] IN
            Set(Monitor, IF plan = None
                   THEN [work[Monitor] EXCEPT !.queue = @ \ {t}]
                   ELSE [work[Monitor] EXCEPT !.pc = "found", !.id = t, !.plan = plan,
                                              !.queue = @ \ {t}])
      BY <1>2 DEF Lookup
    <2>2. /\ UNCHANGED <<journal, active, phase>> /\ work[Monitor].pc = "next"
          /\ t \in Txs
      BY <1>0, <1>2 DEF Lookup, At, appVars, CallerStates
    <2> DEFINE plan == IF Recovering(Monitor) THEN journal[t].plan ELSE active[t]
    <2>3. PICK pl : pl = plan
      OBVIOUS
    <2>4. /\ work'[Monitor].queue = work[Monitor].queue \ {t}
          /\ IF pl = None THEN work'[Monitor].pc = "next"
                          ELSE work'[Monitor].id = t /\ work'[Monitor].pc = "found"
      <3>1. work'[Monitor] = IF pl = None
                   THEN [work[Monitor] EXCEPT !.queue = @ \ {t}]
                   ELSE [work[Monitor] EXCEPT !.pc = "found", !.id = t, !.plan = pl,
                                              !.queue = @ \ {t}]
        BY <1>0, <2>1, <2>3, CoordinatorAssumption DEF Set
      <3> QED
        BY <1>0, <2>2, <3>1 DEF CallerStates
    <2>5. pl # None => IsUnfinished(t)
      BY <2>2, <2>3 DEF Sole
    <2> HIDE DEF plan
    <2> QED
      BY <2>2, <2>4, <2>5 DEF Sole, Recovering, IsUnfinished
  <1>3. CASE Restore(Monitor)
    <2>1. /\ UNCHANGED <<journal, active, phase>> /\ work[Monitor].pc = "found"
          /\ \E s : work' = [work EXCEPT ![Monitor] =
                      [work[Monitor] EXCEPT !.pc = "restored", !.status = s]]
      BY <1>3 DEF Restore, Set, At, appVars
    <2>2. /\ work'[Monitor].pc = "restored" /\ work'[Monitor].id = work[Monitor].id
          /\ work'[Monitor].queue = work[Monitor].queue
      BY <1>0, <2>1, CoordinatorAssumption DEF CallerStates
    <2> QED
      BY <2>1, <2>2 DEF Sole, Recovering, IsUnfinished
  <1>4. CASE RecordOutcome(Monitor)
    <2>1. /\ UNCHANGED <<active, phase>> /\ work[Monitor].pc = "restored"
          /\ work' = [work EXCEPT ![Monitor] = [work[Monitor] EXCEPT !.pc =
                        IF Recovering(Monitor) THEN "next" ELSE "recorded"]]
      BY <1>4 DEF RecordOutcome, Goto, At, appVars
    <2>2. /\ work'[Monitor].id = work[Monitor].id
          /\ work'[Monitor].queue = work[Monitor].queue
          /\ work'[Monitor].pc = IF Recovering(Monitor) THEN "next" ELSE "recorded"
      BY <1>0, <2>1, CoordinatorAssumption DEF CallerStates
    <2>3. ASSUME NEW t \in Txs, t # work[Monitor].id, IsUnfinished(t), InHand(t)
          PROVE  IsUnfinished(t)'
      BY <2>3, SoleRows
    <2>4. Recovering(Monitor) => \A t \in Txs : active[t] = None
      BY DEF Recovering, IInv, PhaseOK
    <2>5. \A t \in Txs : active'[t] # None =>
            IsUnfinished(t)' \/ (work'[Monitor].pc = "recorded" /\ work'[Monitor].id = t)
      <3> SUFFICES ASSUME NEW t \in Txs, active[t] # None
                   PROVE  IsUnfinished(t)' \/ (work'[Monitor].pc = "recorded"
                                               /\ work'[Monitor].id = t)
        BY <2>1
      <3>1. InHand(t) /\ IsUnfinished(t) /\ ~Recovering(Monitor)
        BY <2>1, <2>4 DEF InHand, Sole
      <3> QED
        BY <2>2, <2>3, <3>1
    <2>6. Recovering(Monitor) => \A t \in work[Monitor].queue : IsUnfinished(t)'
      <3> SUFFICES ASSUME Recovering(Monitor), NEW t \in work[Monitor].queue
                   PROVE  IsUnfinished(t)'
        OBVIOUS
      <3>1. RollsBack(Monitor, t)
        BY DEF RollsBack
      <3>2. t \in Txs /\ IsUnfinished(t) /\ t # work[Monitor].id
        BY <1>0, <2>1 DEF Sole, CallerStates
      <3> QED
        BY <2>3, <3>1, <3>2, RollsBackInHand, CoordinatorAssumption
    <2> QED
      BY <2>1, <2>2, <2>5, <2>6 DEF Sole, Recovering
  <1>5. CASE Forget(Monitor)
    <2>1. /\ UNCHANGED <<journal, phase>> /\ work[Monitor].pc = "recorded"
          /\ active' = [active EXCEPT ![work[Monitor].id] = None]
          /\ work' = [work EXCEPT ![Monitor] = [work[Monitor] EXCEPT !.pc = "next"]]
      BY <1>5 DEF Forget, Goto, At, appVars
    <2>2. work'[Monitor].pc = "next" /\ work'[Monitor].queue = work[Monitor].queue
      BY <1>0, <2>1, CoordinatorAssumption DEF CallerStates
    <2>3. \A t \in Txs : active'[t] # None => active[t] # None /\ t # work[Monitor].id
      BY <1>0, <2>1
    <2> QED
      BY <2>1, <2>2, <2>3 DEF Sole, Recovering, IsUnfinished
  <1>6. CASE Return(Monitor)
    <2>1. /\ active' = active /\ work' = [work EXCEPT ![Monitor] = Idle]
          /\ work[Monitor].pc = "next" /\ phase' = "up" /\ ~RecordOutcome(Monitor)
      BY <1>6 DEF Return, Set, At, RecordOutcome
    <2>2. work'[Monitor].pc = "idle"
      BY <1>0, <2>1, IdleState, CoordinatorAssumption
    <2> QED
      BY <2>1, <2>2, SoleIdle DEF Recovering
  <1> QED
    BY <1>1, <1>2, <1>3, <1>4, <1>5, <1>6 DEF RollbackStep

LEMMA SoleStep ==
  ASSUME IInv, Sole, Callers = {Monitor}, [Next]_vars
  PROVE  Sole'
  <1>0. work \in [Callers -> CallerStates]
    BY DEF IInv, TypeOK
  <1>1. CASE UNCHANGED <<journal, active, work, phase>>
    BY <1>1 DEF Sole, Recovering, IsUnfinished
  <1>2. ASSUME \A t \in Txs : active'[t] = None, work'[Monitor] = Idle
        PROVE  Sole'
    BY <1>2, IdleState DEF Sole
  <1>3. CASE Boot
    <2>1. \A t \in Txs : active'[t] = None
      BY <1>3, DownKnowsNothing DEF Boot
    <2>2. /\ work'[Monitor].pc = "next" /\ journal' = journal
          /\ work'[Monitor].queue = {t \in Txs : journal[t].status \in Unfinished}
      BY <1>0, <1>3, CoordinatorAssumption DEF Boot, Set, Idle
    <2> QED
      BY <2>1, <2>2 DEF Sole, IsUnfinished
  <1>4. CASE BootUnrecovered
    BY <1>2, <1>4, DownKnowsNothing, CoordinatorAssumption DEF BootUnrecovered
  <1>5. CASE Crash \/ Stop
    BY <1>2, <1>5, CoordinatorAssumption DEF Crash, Stop, LoseMemory
  <1>6. CASE Environment
    BY <1>1, <1>6 DEF Environment, DeadlinePasses, Exit, Spawn, appVars
  <1>7. CASE UNCHANGED vars
    BY <1>1, <1>7 DEF vars
  <1> QED
    BY <1>3, <1>4, <1>5, <1>6, <1>7, SoleBegin, SoleRollback DEF Next

\* In the application, whose only caller is the monitor loop, the journal is
\* final: what was captured is never replaced, and once a transaction has an
\* outcome or a refusal no step changes it again, crashes and recoveries
\* included.
THEOREM SettledOnce ==
  ASSUME Callers = {Monitor}
  PROVE  Spec => SettledRowsFinal
  <1>1. Init => Sole
    BY CoordinatorAssumption, IdleState DEF Init, Sole, Recovering
  <1>2. IInv /\ Sole /\ [Next]_vars => Sole'
    BY SoleStep
  <1>3. ASSUME IInv, Sole, [Next]_vars, NEW t \in Txs
        PROVE  /\ journal[t].status # "NONE" => journal'[t].plan = journal[t].plan
               /\ journal[t].status \in Settled => journal'[t].status = journal[t].status
    <2>1. journal[t].status # "NONE" => journal'[t].plan = journal[t].plan
      BY <1>3, PlansStay, NoneAssumption DEF PlanStays, IInv, RowsHavePlans, HasRow
    <2>2. journal[t].status \in Settled => ~BegunRow(t)
      BY DEF BegunRow, HasRow, Settled, Outcomes, Refusals, Unfinished
    <2>3. RolledRow(t) => IsUnfinished(t)
      BY <1>3 DEF RolledRow, RecordOutcome, At, Sole
    <2>4. IsUnfinished(t) => journal[t].status \notin Settled
      BY DEF IsUnfinished, Settled, Outcomes, Refusals, Unfinished
    <2> QED
      BY <1>3, <2>1, <2>2, <2>3, <2>4, EveryRowStep DEF RowStep
  <1>4. IInv /\ Sole /\ [Next]_vars =>
          [\A t \in Txs :
             /\ journal[t].status # "NONE" => journal'[t].plan = journal[t].plan
             /\ journal[t].status \in Settled => journal'[t].status = journal[t].status]_vars
    BY <1>3
  <1> QED
    BY <1>1, <1>2, <1>4, Invariance, PTL DEF Spec, SettledRowsFinal
===============================================================================
