----------------------- MODULE SafeOnlinePolicyProofs -----------------------
(***************************************************************************)
(* Theorems about SafeOnlinePolicy, for any targets, transactions, budget, *)
(* durations, ends and starts.                                             *)
(***************************************************************************)
EXTENDS SafeOnlinePolicy, SequenceTheorems, WellFoundedInduction, TLAPS

Targets == [live : BOOLEAN, inc : 1 .. MaxInc, lowered : BOOLEAN]

\* What the proofs need of the variables' types.
StateOK ==
  /\ now \in 0 .. MaxTime /\ lastTick \in 0 .. MaxTime
  /\ proc \in [Keys -> Targets]
  /\ rows \in [Txs -> Transactions \cup {None}]
  /\ active \subseteq Unfinished /\ Unfinished \subseteq used
  /\ cooldown \in [Keys -> Nat]
  /\ used \subseteq Txs /\ todo \subseteq Txs
  /\ pc \in PCs
  /\ pc \in {"begin", "account"} => decision \in Keys

\* The clock never runs ahead of a running application's tick by more than the gap.
ClockOK == lastTick <= now /\ (pc # "down" => now <= lastTick + MaxGap)

\* Only what the tick has collected is past its deadline, and that was not so at
\* the tick before.  Nothing is active before the recovery is over.
DeadlineOK ==
  /\ pc = "expire" => todo \subseteq active
  /\ pc = "recover" => todo \subseteq Unfinished
  /\ ~Running => active = {}
  /\ \A t \in active :
       /\ rows[t].expires > lastTick \/ (pc = "expire" /\ t \in todo)
       /\ rows[t].expires + MaxGap > lastTick

\* Part of the invariant that needs a long cooldown: a target's cooldown is
\* over only after the deadline of its transaction, by a gap at least.
CooldownOK ==
  /\ pc = "account" => current \in active /\ rows[current].key = decision
  /\ \A t \in active :
       /\ rows[t].expires <= now + MaxDuration
       /\ ~(pc = "account" /\ t = current) =>
            cooldown[rows[t].key] >= rows[t].expires - MaxDuration + Cooldown

\* An admitted target has no action in effect.
Vacant == pc = "begin" => \A t \in active : rows[t].key # decision

\* A setting captured while it was lowered is one that was not restored.
OrigOK == \A t \in Unfinished : rows[t].orig => <<rows[t].key, rows[t].inc>> \in unrestored

DInv == StateOK /\ ClockOK /\ DeadlineOK
LInv == DInv /\ CooldownOK /\ Vacant /\ OrigOK /\ NotLeftLowered

-------------------------------------------------------------------------------
(* What the coordinator's calls do. *)

LEMMA RowTypes ==
  ASSUME StateOK, NEW t \in Unfinished
  PROVE  /\ t \in Txs /\ rows[t] \in Transactions
         /\ rows[t].key \in Keys /\ rows[t].orig \in BOOLEAN /\ rows[t].inc \in 1 .. MaxInc
         /\ rows[t].expires \in Times /\ rows[t].expires \in Nat
  <1>1. t \in Txs /\ rows[t] \in Transactions
    BY DEF StateOK, Unfinished
  <1> QED
    BY <1>1, PolicyAssumption DEF Transactions, Times

LEMMA RollBackStep ==
  ASSUME StateOK, NEW t \in Unfinished, RollBack(t)
  PROVE  /\ rows' \in [Txs -> Transactions \cup {None}]
         /\ active' = active \ {t}
         /\ \A u \in Txs \ {t} : rows'[u] = rows[u]
         /\ \A u \in Unfinished' : u \in Unfinished /\ rows'[u] = rows[u]
         /\ Unfinished \ {t} \subseteq Unfinished'
         /\ proc' \in [Keys -> Targets]
         /\ \A k \in Keys : proc'[k].live = proc[k].live /\ proc'[k].inc = proc[k].inc
         /\ \A k \in Keys \ {rows[t].key} : proc'[k] = proc[k]
         /\ unrestored \subseteq unrestored'
         /\ \/ TargetIs(rows[t]) /\ proc'[rows[t].key].lowered = rows[t].orig
            \/ ~proc[rows[t].key].live /\ UNCHANGED proc
            \/ <<rows[t].key, rows[t].inc>> \in unrestored' /\ UNCHANGED proc
  <1> DEFINE tx == rows[t]
  <1>1. t \in Txs /\ tx.key \in Keys /\ tx.orig \in BOOLEAN
    BY RowTypes
  <1>2. /\ rows' \in [Txs -> Transactions \cup {None}] /\ active' = active \ {t}
        /\ \A u \in Txs \ {t} : rows'[u] = rows[u]
        /\ rows'[t] = rows[t] \/ rows'[t] = None
    BY <1>1 DEF RollBack, StateOK
  <1>3. /\ \A u \in Unfinished' : u \in Unfinished /\ rows'[u] = rows[u]
        /\ Unfinished \ {t} \subseteq Unfinished'
    BY <1>2 DEF Unfinished
  <1>4. CASE /\ TargetIs(tx) /\ UNCHANGED unrestored
             /\ proc' = [proc EXCEPT ![tx.key].lowered = tx.orig]
    <2>1. [proc[tx.key] EXCEPT !.lowered = tx.orig] \in Targets
      BY <1>1 DEF StateOK, Targets
    <2> QED
      BY <1>1, <1>2, <1>3, <1>4, <2>1 DEF StateOK, Targets
  <1>5. CASE ~proc[tx.key].live /\ UNCHANGED <<proc, unrestored>>
    BY <1>2, <1>3, <1>5 DEF StateOK
  <1>6. CASE unrestored' = unrestored \cup {<<tx.key, tx.inc>>} /\ UNCHANGED proc
    BY <1>2, <1>3, <1>6 DEF StateOK
  <1> QED
    BY <1>4, <1>5, <1>6 DEF RollBack

\* A new row is one of its own, for the target as it was found.
LEMMA PlannedRow ==
  ASSUME StateOK, pc = "begin", used # Txs
  PROVE  /\ NewTransactionId \in Txs \ used
         /\ Planned(decision) \in Transactions /\ Planned(decision) # None
         /\ Planned(decision).key = decision /\ Planned(decision).inc = proc[decision].inc
         /\ Planned(decision).orig = proc[decision].lowered
         /\ Planned(decision).expires = now + MaxDuration
         /\ [proc EXCEPT ![decision].lowered = TRUE] \in [Keys -> Targets]
  <1>1. \E t \in Txs : t \notin used
    BY DEF StateOK
  <1>2. NewTransactionId \in Txs \ used
    BY <1>1 DEF NewTransactionId
  <1>3. decision \in Keys /\ proc[decision] \in Targets /\ now + MaxDuration \in Times
    BY PolicyAssumption DEF StateOK, Times
  <1>4. Planned(decision) \in Transactions
    BY <1>3 DEF Planned, Transactions, Targets
  <1>5. Planned(decision) # None
    BY <1>4, NoneAssumption
  <1>6. [proc[decision] EXCEPT !.lowered = TRUE] \in Targets
    BY <1>3 DEF Targets
  <1>7. [proc EXCEPT ![decision].lowered = TRUE] \in [Keys -> Targets]
    BY <1>3, <1>6 DEF StateOK
  <1> QED
    BY <1>2, <1>4, <1>5, <1>7 DEF Planned

LEMMA BeginEffect ==
  ASSUME StateOK, Begin
  PROVE  /\ pc = "begin" /\ pc' = "account" /\ proc[decision].live
         /\ current' \in Txs \ used /\ used' = used \cup {current'}
         /\ rows' \in [Txs -> Transactions \cup {None}] /\ rows'[current'] = Planned(decision)
         /\ \A u \in Txs \ {current'} : rows'[u] = rows[u]
         /\ Unfinished' = Unfinished \cup {current'} /\ current' \notin Unfinished
         /\ active' = active \cup {current'}
         /\ proc' \in [Keys -> Targets]
         /\ proc' = [proc EXCEPT ![decision].lowered = TRUE]
         /\ UNCHANGED <<now, unrestored, cooldown, decision, todo, lastTick>>
  <1>1. /\ pc = "begin" /\ pc' = "account" /\ proc[decision].live /\ used # Txs
        /\ current' = NewTransactionId /\ used' = used \cup {current'}
        /\ rows' = [rows EXCEPT ![current'] = Planned(decision)]
        /\ active' = active \cup {current'}
        /\ proc' = [proc EXCEPT ![decision].lowered = TRUE]
        /\ UNCHANGED <<now, unrestored, cooldown, decision, todo, lastTick>>
    BY DEF Begin, gates
  <1>2. /\ current' \in Txs \ used /\ Planned(decision) \in Transactions
        /\ Planned(decision) # None /\ proc' \in [Keys -> Targets]
    BY <1>1, PlannedRow
  <1>3. /\ rows' \in [Txs -> Transactions \cup {None}] /\ rows'[current'] = Planned(decision)
        /\ \A u \in Txs \ {current'} : rows'[u] = rows[u]
    BY <1>1, <1>2 DEF StateOK
  <1>4. Unfinished' = Unfinished \cup {current'} /\ current' \notin Unfinished
    BY <1>2, <1>3 DEF Unfinished, StateOK
  <1> QED
    BY <1>1, <1>2, <1>3, <1>4

\* A failed action leaves nothing, or a row that no start has seen yet.
LEMMA BeginFailsEffect ==
  ASSUME StateOK, BeginFails
  PROVE  /\ pc = "begin" /\ pc' = "tick"
         /\ UNCHANGED <<now, active, cooldown, todo, lastTick, current>>
         /\ \/ UNCHANGED <<proc, rows, unrestored, used>>
            \/ \E t \in Txs \ used :
                 /\ used' = used \cup {t}
                 /\ rows' \in [Txs -> Transactions \cup {None}] /\ rows'[t] = Planned(decision)
                 /\ \A u \in Txs \ {t} : rows'[u] = rows[u]
                 /\ Unfinished' = Unfinished \cup {t} /\ t \notin Unfinished
                 /\ proc[decision].live
                 /\ proc' \in [Keys -> Targets]
                 /\ \/ UNCHANGED <<proc, unrestored>>
                    \/ /\ proc' = [proc EXCEPT ![decision].lowered = TRUE]
                       /\ unrestored' = unrestored \cup {<<decision, proc[decision].inc>>}
  <1>1. /\ pc = "begin" /\ pc' = "tick"
        /\ UNCHANGED <<now, active, cooldown, todo, lastTick, current>>
    BY DEF BeginFails, coordVars, gates
  <1>2. CASE UNCHANGED <<coordVars, used>>
    BY <1>1, <1>2 DEF coordVars
  <1>3. CASE ~UNCHANGED <<coordVars, used>>
    <2> DEFINE t == NewTransactionId
    <2>1. /\ used # Txs /\ used' = used \cup {t} /\ proc[decision].live
          /\ rows' = [rows EXCEPT ![t] = Planned(decision)]
          /\ \/ UNCHANGED <<proc, unrestored>>
             \/ /\ proc' = [proc EXCEPT ![decision].lowered = TRUE]
                /\ unrestored' = unrestored \cup {<<decision, proc[decision].inc>>}
      BY <1>3 DEF BeginFails
    <2>2. /\ t \in Txs \ used /\ Planned(decision) \in Transactions /\ Planned(decision) # None
          /\ proc' \in [Keys -> Targets]
      BY <1>1, <2>1, PlannedRow DEF StateOK
    <2> HIDE DEF t
    <2>3. /\ rows' \in [Txs -> Transactions \cup {None}] /\ rows'[t] = Planned(decision)
          /\ \A u \in Txs \ {t} : rows'[u] = rows[u]
      BY <2>1, <2>2 DEF StateOK
    <2>4. Unfinished' = Unfinished \cup {t} /\ t \notin Unfinished
      BY <2>2, <2>3 DEF Unfinished, StateOK
    <2> QED
      BY <1>1, <2>1, <2>2, <2>3, <2>4
  <1> QED
    BY <1>2, <1>3

\* The steps that go through a set of ids, and may roll each of them back.
LoopStep == Expire \/ Verify \/ StopOne \/ (Recover /\ pc' = pc)

LEMMA LoopEffect ==
  ASSUME DInv, LoopStep
  PROVE  /\ UNCHANGED <<now, lastTick, cooldown, used, pc, decision, current>>
         /\ pc \in {"expire", "verify", "stop", "recover"}
         /\ \E t \in todo :
              /\ todo' = todo \ {t}
              /\ \/ /\ t \in Unfinished /\ RollBack(t)
                    /\ pc # "recover" => t \in active
                 \/ pc \notin {"recover", "expire"} /\ UNCHANGED coordVars
  <1>1. CASE Expire
    BY <1>1 DEF Expire, gates, history, loopVars, DInv, StateOK, DeadlineOK
  <1>2. CASE Verify
    BY <1>2 DEF Verify, gates, history, loopVars, coordVars, DInv, StateOK
  <1>3. CASE StopOne
    BY <1>3 DEF StopOne, gates, history, loopVars, coordVars, DInv, StateOK
  <1>4. CASE Recover /\ pc' = pc
    <2>1. pc = "recover" /\ \E t \in todo : RollBack(t) /\ todo' = todo \ {t}
      BY <1>4 DEF Recover
    <2> QED
      BY <1>4, <2>1 DEF Recover, gates, history, loopVars, DInv, DeadlineOK
  <1> QED
    BY <1>1, <1>2, <1>3, <1>4 DEF LoopStep

-------------------------------------------------------------------------------
(* Deadlines. *)

LEMMA LoopDInv ==
  ASSUME DInv, LoopStep
  PROVE  DInv'
  <1>1. UNCHANGED <<now, lastTick, cooldown, used, pc, decision, current>>
    BY LoopEffect
  <1>2. PICK t \in todo :
          /\ todo' = todo \ {t}
          /\ \/ /\ t \in Unfinished /\ RollBack(t)
                /\ pc # "recover" => t \in active
             \/ pc \notin {"recover", "expire"} /\ UNCHANGED coordVars
    BY LoopEffect
  <1>3. t \in Txs /\ StateOK /\ ClockOK /\ DeadlineOK
    BY DEF DInv, StateOK
  <1>4. CASE t \in Unfinished /\ RollBack(t)
    <2>1. /\ rows' \in [Txs -> Transactions \cup {None}] /\ active' = active \ {t}
          /\ \A u \in Txs \ {t} : rows'[u] = rows[u]
          /\ \A u \in Unfinished' : u \in Unfinished /\ rows'[u] = rows[u]
          /\ Unfinished \ {t} \subseteq Unfinished'
          /\ proc' \in [Keys -> Targets]
      BY <1>3, <1>4, RollBackStep
    <2>2. StateOK'
      BY <1>1, <1>2, <1>3, <2>1 DEF StateOK
    <2>3. DeadlineOK'
      BY <1>1, <1>2, <1>3, <2>1 DEF DeadlineOK, StateOK, Running
    <2> QED
      BY <1>1, <1>3, <2>2, <2>3 DEF DInv, ClockOK
  <1>5. CASE pc \notin {"recover", "expire"} /\ UNCHANGED coordVars
    BY <1>1, <1>2, <1>3, <1>5 DEF DInv, StateOK, ClockOK, DeadlineOK, Running, Unfinished, coordVars
  <1> QED
    BY <1>2, <1>4, <1>5

\* The other steps of the monitor thread that leave the coordinator alone.
QuietStep == ReadRequest \/ Refuse \/ CollectDue \/ FinishTick \/ StopDone

LEMMA QuietEffect ==
  ASSUME QuietStep
  PROVE  /\ UNCHANGED <<now, proc, rows, active, unrestored, cooldown, used, lastTick>>
         /\ pc' \in {"evaluate", "tick", "verify", "stop", "read"}
         /\ pc \notin {"recover", "account", "down"} /\ (pc = "expire" => todo = {})
         /\ todo' = todo \/ \E S \in SUBSET Txs : todo' = S
  BY DEF QuietStep, ReadRequest, Refuse, CollectDue, FinishTick, StopDone,
     coordVars, gates, history, loopVars

LEMMA QuietDInv ==
  ASSUME DInv, QuietStep
  PROVE  DInv'
  <1>1. /\ UNCHANGED <<now, proc, rows, active, unrestored, cooldown, used, lastTick>>
        /\ pc' \in {"evaluate", "tick", "verify", "stop", "read"}
        /\ pc \notin {"recover", "account", "down"} /\ (pc = "expire" => todo = {})
        /\ todo' = todo \/ \E S \in SUBSET Txs : todo' = S
    BY QuietEffect
  <1>2. StateOK'
    BY <1>1 DEF DInv, StateOK, Unfinished, PCs
  <1> QED
    BY <1>1, <1>2 DEF DInv, ClockOK, DeadlineOK, Running

LEMMA AdmitDInv ==
  ASSUME DInv, Admit
  PROVE  DInv'
  BY DEF Admit, coordVars, history, DInv, StateOK, ClockOK, DeadlineOK, Running, Unfinished, PCs

LEMMA BeginDInv ==
  ASSUME DInv, Begin
  PROVE  DInv'
  <1>1. /\ pc = "begin" /\ pc' = "account"
        /\ current' \in Txs \ used /\ used' = used \cup {current'}
        /\ rows' \in [Txs -> Transactions \cup {None}] /\ rows'[current'] = Planned(decision)
        /\ \A u \in Txs \ {current'} : rows'[u] = rows[u]
        /\ Unfinished' = Unfinished \cup {current'}
        /\ active' = active \cup {current'} /\ proc' \in [Keys -> Targets]
        /\ UNCHANGED <<now, cooldown, decision, todo, lastTick>>
    BY BeginEffect DEF DInv
  <1>2. PICK t \in Txs \ used : t = current'
    BY <1>1
  <1>3. StateOK'
    BY <1>1, <1>2 DEF DInv, StateOK, PCs
  <1>4. DeadlineOK'
    <2>1. Planned(decision).expires > lastTick /\ Planned(decision).expires + MaxGap > lastTick
      BY PolicyAssumption DEF Planned, DInv, StateOK, ClockOK
    <2>2. \A u \in active : u # t /\ u \in Txs
      BY DEF DInv, StateOK, Unfinished
    <2> QED
      BY <1>1, <1>2, <2>1, <2>2 DEF DInv, DeadlineOK, Running
  <1> QED
    BY <1>1, <1>3, <1>4 DEF DInv, ClockOK

LEMMA BeginFailsDInv ==
  ASSUME DInv, BeginFails
  PROVE  DInv'
  <1>1. /\ pc = "begin" /\ pc' = "tick"
        /\ UNCHANGED <<now, active, cooldown, todo, lastTick>>
    BY BeginFailsEffect DEF DInv
  <1>2. CASE UNCHANGED <<proc, rows, unrestored, used>>
    BY <1>1, <1>2 DEF DInv, StateOK, ClockOK, DeadlineOK, Running, Unfinished, PCs
  <1>3. CASE ~UNCHANGED <<proc, rows, unrestored, used>>
    <2>1. PICK t \in Txs \ used :
            /\ used' = used \cup {t} /\ rows' \in [Txs -> Transactions \cup {None}]
            /\ \A u \in Txs \ {t} : rows'[u] = rows[u]
            /\ Unfinished' = Unfinished \cup {t} /\ proc' \in [Keys -> Targets]
      BY <1>3, BeginFailsEffect DEF DInv
    <2>2. \A u \in active : u # t /\ u \in Txs
      BY DEF DInv, StateOK, Unfinished
    <2>3. StateOK'
      BY <1>1, <2>1 DEF DInv, StateOK, PCs
    <2> QED
      BY <1>1, <2>1, <2>2, <2>3 DEF DInv, ClockOK, DeadlineOK, Running
  <1> QED
    BY <1>2, <1>3

LEMMA AccountDInv ==
  ASSUME DInv, Account
  PROVE  DInv'
  <1>1. cooldown' \in [Keys -> Nat]
    <2>1. now + Cooldown \in Nat /\ cooldown \in [Keys -> Nat]
      BY PolicyAssumption DEF DInv, StateOK
    <2>2. cooldown' = [cooldown EXCEPT ![decision] = now + Cooldown]
      BY DEF Account
    <2> QED
      BY <2>1, <2>2
  <1> QED
    BY <1>1 DEF Account, coordVars, DInv, StateOK, ClockOK, DeadlineOK, Running, Unfinished, PCs

LEMMA CollectExpiredDInv ==
  ASSUME DInv, CollectExpired
  PROVE  DInv'
  <1>1. /\ pc = "tick" /\ pc' = "expire" /\ lastTick' = now
        /\ todo' = {t \in active : rows[t].expires <= now}
        /\ UNCHANGED <<now, proc, rows, active, unrestored, cooldown, used, decision, current>>
    BY DEF CollectExpired, coordVars, gates, history, loopVars
  <1>2. StateOK'
    BY <1>1 DEF DInv, StateOK, Unfinished, PCs
  <1>3. DeadlineOK'
    <2>1. \A t \in active : rows[t].expires \in Nat /\ rows[t].expires > lastTick
      BY <1>1, RowTypes DEF DInv, DeadlineOK, StateOK
    <2>2. now <= lastTick + MaxGap /\ now \in Nat /\ lastTick \in Nat /\ MaxGap \in Nat
      BY <1>1, PolicyAssumption DEF DInv, ClockOK, StateOK
    <2> QED
      BY <1>1, <2>1, <2>2 DEF DeadlineOK, Running
  <1> QED
    BY <1>1, <1>2, <1>3, PolicyAssumption DEF DInv, ClockOK, StateOK

LEMMA RecoverDInv ==
  ASSUME DInv, Recover
  PROVE  DInv'
  <1>1. CASE pc' = pc
    BY <1>1, LoopDInv DEF LoopStep
  <1>2. CASE pc' # pc
    BY <1>2 DEF Recover, coordVars, gates, history, loopVars, DInv, StateOK,
       ClockOK, DeadlineOK, Running, Unfinished, PCs
  <1> QED
    BY <1>1, <1>2

LEMMA EndDInv ==
  ASSUME DInv, End
  PROVE  DInv'
  BY DEF End, DInv, StateOK, ClockOK, DeadlineOK, Running, Unfinished, PCs

LEMMA BootEffect ==
  ASSUME Boot
  PROVE  /\ pc = "down" /\ pc' = "recover" /\ lastTick' = now
         /\ todo' \subseteq Unfinished
         /\ unrestored' = unrestored \cup {<<rows[t].key, rows[t].inc>> : t \in Unfinished \ todo'}
         /\ UNCHANGED <<now, proc, rows, active, cooldown, used>>
  BY DEF Boot, gates

LEMMA BootDInv ==
  ASSUME DInv, Boot
  PROVE  DInv'
  <1>1. /\ pc = "down" /\ pc' = "recover" /\ lastTick' = now /\ todo' \subseteq Unfinished
        /\ UNCHANGED <<now, proc, rows, active, cooldown, used>>
    BY BootEffect
  <1>2. StateOK'
    BY <1>1 DEF DInv, StateOK, Unfinished, PCs
  <1> QED
    BY <1>1, <1>2, PolicyAssumption DEF DInv, ClockOK, DeadlineOK, StateOK, Running, Unfinished

LEMMA EnvironmentEffect ==
  ASSUME StateOK, Environment
  PROVE  /\ UNCHANGED <<rows, active, unrestored, cooldown, used, pc, decision, current, todo, lastTick>>
         /\ now' \in 0 .. MaxTime
         /\ now' = now \/ (now' = now + 1 /\ UNCHANGED proc /\ (pc # "down" => now < lastTick + MaxGap))
         /\ proc' \in [Keys -> Targets]
         /\ \A k \in Keys : proc'[k] = proc[k] \/ ~(proc'[k].live /\ proc'[k].lowered)
  <1>1. proc \in [Keys -> Targets]
    BY DEF StateOK
  <1>2. CASE Advance \/ Click
    BY <1>1, <1>2, PolicyAssumption
       DEF Advance, Click, coordVars, gates, history, loopVars, StateOK
  <1>3. ASSUME NEW k \in Keys, Exit(k) \/ Spawn(k)
        PROVE  /\ proc' \in [Keys -> Targets]
               /\ \A j \in Keys : proc'[j] = proc[j] \/ ~(proc'[j].live /\ proc'[j].lowered)
    <2>1. proc[k] \in Targets
      BY <1>1
    <2>2. CASE Exit(k)
      BY <1>1, <2>1, <2>2 DEF Exit, Targets
    <2>3. CASE Spawn(k)
      <3>1. proc[k].inc + 1 \in 1 .. MaxInc
        BY <2>1, <2>3, PolicyAssumption DEF Spawn, Targets
      <3> QED
        BY <1>1, <2>1, <2>3, <3>1 DEF Spawn, Targets
    <2> QED
      BY <1>3, <2>2, <2>3
  <1>4. CASE \E k \in Keys : Exit(k) \/ Spawn(k)
    BY <1>3, <1>4 DEF Exit, Spawn, gates, history, loopVars, StateOK
  <1> QED
    BY <1>2, <1>4 DEF Environment

LEMMA EnvironmentDInv ==
  ASSUME DInv, Environment
  PROVE  DInv'
  <1>1. /\ UNCHANGED <<rows, active, unrestored, cooldown, used, pc, decision, current, todo, lastTick>>
        /\ now' \in 0 .. MaxTime
        /\ now' = now \/ (now' = now + 1 /\ (pc # "down" => now < lastTick + MaxGap))
        /\ proc' \in [Keys -> Targets]
    BY EnvironmentEffect DEF DInv
  <1>2. StateOK'
    BY <1>1 DEF DInv, StateOK, Unfinished
  <1>3. ClockOK'
    BY <1>1, PolicyAssumption DEF DInv, StateOK, ClockOK
  <1> QED
    BY <1>1, <1>2, <1>3 DEF DInv, DeadlineOK, Running, Unfinished

LEMMA InitDInv == Init => DInv
  BY PolicyAssumption
     DEF Init, DInv, StateOK, ClockOK, DeadlineOK, Running, Unfinished, Targets, PCs

LEMMA StepDInv == DInv /\ [Next]_vars => DInv'
  <1> SUFFICES ASSUME DInv, [Next]_vars PROVE DInv'
    OBVIOUS
  <1>1. CASE Monitor
    BY <1>1, QuietDInv, LoopDInv, AdmitDInv, BeginDInv, BeginFailsDInv, AccountDInv,
       CollectExpiredDInv, RecoverDInv DEF Monitor, QuietStep, LoopStep
  <1>2. CASE UNCHANGED vars
    BY <1>2 DEF vars, DInv, StateOK, ClockOK, DeadlineOK, Running, Unfinished
  <1> QED
    BY <1>1, <1>2, EndDInv, BootDInv, EnvironmentDInv DEF Next

-------------------------------------------------------------------------------
(* No target is left lowered. *)

LEMMA LoopLInv ==
  ASSUME LInv, LoopStep
  PROVE  LInv'
  <1> USE DEF LInv
  <1>1. UNCHANGED <<now, lastTick, cooldown, used, pc, decision, current>>
        /\ pc \in {"expire", "verify", "stop", "recover"}
    BY LoopEffect
  <1>2. PICK t \in todo :
          /\ todo' = todo \ {t}
          /\ \/ /\ t \in Unfinished /\ RollBack(t)
                /\ pc # "recover" => t \in active
             \/ pc \notin {"recover", "expire"} /\ UNCHANGED coordVars
    BY LoopEffect
  <1>3. StateOK /\ t \in Txs
    BY DEF DInv, StateOK
  <1>4. DInv'
    BY LoopDInv
  <1>5. CASE t \in Unfinished /\ RollBack(t)
    <2>1. /\ active' = active \ {t}
          /\ \A u \in Txs \ {t} : rows'[u] = rows[u]
          /\ \A u \in Unfinished' : u \in Unfinished /\ rows'[u] = rows[u]
          /\ \A k \in Keys : proc'[k].live = proc[k].live /\ proc'[k].inc = proc[k].inc
          /\ \A k \in Keys \ {rows[t].key} : proc'[k] = proc[k]
          /\ unrestored \subseteq unrestored'
          /\ \/ TargetIs(rows[t]) /\ proc'[rows[t].key].lowered = rows[t].orig
             \/ ~proc[rows[t].key].live /\ UNCHANGED proc
             \/ <<rows[t].key, rows[t].inc>> \in unrestored' /\ UNCHANGED proc
      BY <1>3, <1>5, RollBackStep
    <2>2. \A u \in active' : u \in active /\ rows'[u] = rows[u]
      BY <1>3, <2>1 DEF StateOK, Unfinished
    <2>3. CooldownOK' /\ Vacant' /\ OrigOK'
      BY <1>1, <2>1, <2>2 DEF CooldownOK, Vacant, OrigOK
    <2>4. NotLeftLowered'
      <3> SUFFICES ASSUME NEW k \in Keys, proc'[k].live, proc'[k].lowered,
                          <<k, proc'[k].inc>> \notin unrestored'
                   PROVE  \E u \in Responsible' :
                            rows'[u].key = k /\ TargetIs(rows[u])' /\ ~rows'[u].orig
        BY DEF NotLeftLowered
      <3>1. <<k, proc[k].inc>> \notin unrestored /\ proc[k].live
        BY <2>1
      <3>2. proc[k].lowered
        BY <1>5, <2>1, <3>1 DEF OrigOK, TargetIs
      <3>3. PICK u \in Responsible : rows[u].key = k /\ TargetIs(rows[u]) /\ ~rows[u].orig
        BY <3>1, <3>2 DEF NotLeftLowered
      <3>4. u # t
        BY <2>1, <3>1, <3>3 DEF TargetIs
      <3>5. u \in Responsible' /\ u \in Txs
        BY <1>1, <1>2, <1>3, <2>1, <3>3, <3>4 DEF Responsible, Running, StateOK, Unfinished
      <3> QED
        BY <2>1, <3>3, <3>4, <3>5 DEF TargetIs
    <2> QED
      BY <1>4, <2>3, <2>4
  <1>6. CASE pc \notin {"recover", "expire"} /\ UNCHANGED coordVars
    BY <1>1, <1>4, <1>6 DEF coordVars, CooldownOK, Vacant, OrigOK, NotLeftLowered, Responsible,
       Running, Unfinished, TargetIs
  <1> QED
    BY <1>2, <1>5, <1>6

LEMMA QuietLInv ==
  ASSUME LInv, QuietStep
  PROVE  LInv'
  <1>1. /\ UNCHANGED <<now, proc, rows, active, unrestored, cooldown, used, lastTick>>
        /\ pc' \in {"evaluate", "tick", "verify", "stop", "read"}
        /\ pc \notin {"recover", "account", "down"}
    BY QuietEffect
  <1>2. DInv'
    BY QuietDInv DEF LInv
  <1> QED
    BY <1>1, <1>2 DEF LInv, CooldownOK, Vacant, OrigOK, NotLeftLowered, Responsible, Running,
       Unfinished, TargetIs

\* The gate: a target whose cooldown is over has no transaction any more.
LEMMA AdmitLInv ==
  ASSUME LInv, Cooldown >= MaxDuration + MaxGap, Admit
  PROVE  LInv'
  <1> USE DEF LInv
  <1>1. /\ pc = "evaluate" /\ pc' = "begin" /\ decision' \in Keys
        /\ cooldown[decision'] <= now
        /\ UNCHANGED <<now, proc, rows, active, unrestored, cooldown, used, lastTick, todo, current>>
    BY DEF Admit, Eligible, coordVars, history
  <1>2. DInv'
    BY AdmitDInv
  <1>3. ASSUME NEW t \in active, rows[t].key = decision'
        PROVE  FALSE
    <2>1. /\ rows[t].expires \in Nat /\ cooldown[decision'] \in Nat
          /\ now \in Nat /\ lastTick \in Nat /\ MaxGap \in Nat
          /\ Cooldown \in Nat /\ MaxDuration \in Nat
      BY <1>1, RowTypes, PolicyAssumption DEF DInv, StateOK
    <2>2. /\ rows[t].expires > lastTick /\ now <= lastTick + MaxGap
          /\ cooldown[decision'] >= rows[t].expires - MaxDuration + Cooldown
      BY <1>1, <1>3 DEF DInv, DeadlineOK, ClockOK, CooldownOK
    <2> QED
      BY <1>1, <2>1, <2>2
  <1>4. Vacant'
    BY <1>1, <1>3 DEF Vacant
  <1> QED
    BY <1>1, <1>2, <1>4 DEF CooldownOK, OrigOK, NotLeftLowered, Responsible, Running, Unfinished,
       TargetIs

\* An admitted target that is lowered is one that was not restored.
LEMMA LoweredUnrestored ==
  ASSUME LInv, pc = "begin", proc[decision].live, proc[decision].lowered
  PROVE  <<decision, proc[decision].inc>> \in unrestored
  BY DEF LInv, DInv, StateOK, NotLeftLowered, Responsible, Running, Vacant

LEMMA BeginLInv ==
  ASSUME LInv, Begin
  PROVE  LInv'
  <1> USE DEF LInv
  <1>1. /\ pc = "begin" /\ pc' = "account" /\ proc[decision].live
        /\ current' \in Txs \ used
        /\ rows'[current'] = Planned(decision)
        /\ \A u \in Txs \ {current'} : rows'[u] = rows[u]
        /\ Unfinished' = Unfinished \cup {current'}
        /\ active' = active \cup {current'}
        /\ proc' = [proc EXCEPT ![decision].lowered = TRUE]
        /\ UNCHANGED <<now, unrestored, cooldown, decision, lastTick>>
    BY BeginEffect DEF DInv
  <1>2. PICK t \in Txs \ used : t = current'
    BY <1>1
  <1>3. /\ rows'[t].key = decision /\ rows'[t].inc = proc[decision].inc
        /\ rows'[t].orig = proc[decision].lowered /\ rows'[t].expires = now + MaxDuration
    BY <1>1, <1>2 DEF Planned
  <1>4. \A u \in Unfinished : u # t /\ u \in Txs /\ rows'[u] = rows[u]
    BY <1>1, <1>2 DEF DInv, StateOK, Unfinished
  <1>5. /\ decision \in Keys /\ active \subseteq Unfinished
        /\ \A k \in Keys \ {decision} : proc'[k] = proc[k]
        /\ proc'[decision].live /\ proc'[decision].inc = proc[decision].inc
    BY <1>1 DEF DInv, StateOK, Targets
  <1>6. DInv'
    BY BeginDInv
  <1>7. CooldownOK'
    <2>1. now \in Nat /\ MaxDuration \in Nat
      BY PolicyAssumption DEF DInv, StateOK
    <2> QED
      BY <1>1, <1>2, <1>3, <1>4, <1>5, <2>1 DEF CooldownOK
  <1>8. Vacant'
    BY <1>1 DEF Vacant
  <1>9. proc[decision].lowered => <<decision, proc[decision].inc>> \in unrestored
    BY <1>1, LoweredUnrestored
  <1>10. OrigOK'
    BY <1>1, <1>2, <1>3, <1>4, <1>9 DEF OrigOK
  <1>11. NotLeftLowered'
    <2> SUFFICES ASSUME NEW k \in Keys, proc'[k].live, proc'[k].lowered,
                        <<k, proc'[k].inc>> \notin unrestored'
                 PROVE  \E u \in active' :
                          rows'[u].key = k /\ TargetIs(rows[u])' /\ ~rows'[u].orig
      BY <1>1 DEF NotLeftLowered, Responsible, Running
    <2>1. CASE k = decision
      <3>1. ~rows'[t].orig
        BY <1>1, <1>3, <1>5, <1>9, <2>1
      <3> QED
        BY <1>1, <1>2, <1>3, <1>5, <2>1, <3>1 DEF TargetIs
    <2>2. CASE k # decision
      <3>1. PICK u \in active : rows[u].key = k /\ TargetIs(rows[u]) /\ ~rows[u].orig
        BY <1>1, <1>5, <2>2 DEF NotLeftLowered, Responsible, Running
      <3> QED
        BY <1>1, <1>4, <1>5, <2>2, <3>1 DEF TargetIs
    <2> QED
      BY <2>1, <2>2
  <1> QED
    BY <1>6, <1>7, <1>8, <1>10, <1>11

LEMMA BeginFailsLInv ==
  ASSUME LInv, BeginFails
  PROVE  LInv'
  <1> USE DEF LInv
  <1>1. /\ pc = "begin" /\ pc' = "tick"
        /\ UNCHANGED <<now, active, cooldown, lastTick>>
    BY BeginFailsEffect DEF DInv
  <1>2. DInv'
    BY BeginFailsDInv
  <1>3. CASE UNCHANGED <<proc, rows, unrestored, used>>
    BY <1>1, <1>2, <1>3 DEF CooldownOK, Vacant, OrigOK, NotLeftLowered, Responsible, Running,
       Unfinished, TargetIs
  <1>4. CASE ~UNCHANGED <<proc, rows, unrestored, used>>
    <2>1. PICK t \in Txs \ used :
            /\ rows'[t] = Planned(decision)
            /\ \A u \in Txs \ {t} : rows'[u] = rows[u]
            /\ Unfinished' = Unfinished \cup {t} /\ proc[decision].live
            /\ \/ UNCHANGED <<proc, unrestored>>
               \/ /\ proc' = [proc EXCEPT ![decision].lowered = TRUE]
                  /\ unrestored' = unrestored \cup {<<decision, proc[decision].inc>>}
      BY <1>4, BeginFailsEffect DEF DInv
    <2>2. /\ rows'[t].key = decision /\ rows'[t].inc = proc[decision].inc
          /\ rows'[t].orig = proc[decision].lowered
      BY <2>1 DEF Planned
    <2>3. \A u \in Unfinished : u # t /\ u \in Txs /\ rows'[u] = rows[u]
      BY <2>1 DEF DInv, StateOK, Unfinished
    <2>4. active \subseteq Unfinished /\ decision \in Keys /\ proc \in [Keys -> Targets]
      BY <1>1 DEF DInv, StateOK
    <2>5. CooldownOK' /\ Vacant'
      BY <1>1, <2>1, <2>3, <2>4 DEF CooldownOK, Vacant
    <2>6. OrigOK'
      <3>1. proc[decision].lowered => <<decision, proc[decision].inc>> \in unrestored
        BY <1>1, <2>1, LoweredUnrestored
      <3>2. unrestored \subseteq unrestored'
        BY <2>1
      <3> QED
        BY <2>1, <2>2, <2>3, <3>1, <3>2 DEF OrigOK
    <2>7. NotLeftLowered'
      <3> SUFFICES ASSUME NEW k \in Keys, proc'[k].live, proc'[k].lowered,
                          <<k, proc'[k].inc>> \notin unrestored'
                   PROVE  \E u \in active :
                            rows'[u].key = k /\ TargetIs(rows[u])' /\ ~rows'[u].orig
        BY <1>1 DEF NotLeftLowered, Responsible, Running
      <3>1. /\ \A j \in Keys : proc'[j].live = proc[j].live /\ proc'[j].inc = proc[j].inc
            /\ proc[k].lowered /\ <<k, proc[k].inc>> \notin unrestored
        BY <2>1, <2>4 DEF Targets
      <3>2. PICK u \in active : rows[u].key = k /\ TargetIs(rows[u]) /\ ~rows[u].orig
        BY <1>1, <3>1 DEF NotLeftLowered, Responsible, Running
      <3> QED
        BY <2>3, <2>4, <3>1, <3>2 DEF TargetIs
    <2> QED
      BY <1>2, <2>5, <2>6, <2>7
  <1> QED
    BY <1>3, <1>4

LEMMA AccountLInv ==
  ASSUME LInv, Account
  PROVE  LInv'
  <1> USE DEF LInv
  <1>1. /\ pc = "account" /\ pc' = "tick"
        /\ cooldown' = [cooldown EXCEPT ![decision] = now + Cooldown]
        /\ UNCHANGED <<now, proc, rows, active, unrestored>>
    BY DEF Account, coordVars
  <1>2. DInv'
    BY AccountDInv
  <1>3. CooldownOK'
    <2> SUFFICES ASSUME NEW t \in active
                 PROVE  cooldown'[rows[t].key] >= rows[t].expires - MaxDuration + Cooldown
      BY <1>1 DEF CooldownOK
    <2>1. /\ rows[t].key \in Keys /\ rows[t].expires \in Nat /\ now \in Nat
          /\ Cooldown \in Nat /\ MaxDuration \in Nat /\ cooldown \in [Keys -> Nat]
          /\ rows[t].expires <= now + MaxDuration
      BY RowTypes, PolicyAssumption DEF DInv, StateOK, CooldownOK
    <2>2. CASE rows[t].key = decision
      BY <1>1, <2>1, <2>2
    <2>3. CASE rows[t].key # decision
      BY <1>1, <2>1, <2>3 DEF CooldownOK
    <2> QED
      BY <2>2, <2>3
  <1> QED
    BY <1>1, <1>2, <1>3 DEF Vacant, OrigOK, NotLeftLowered, Responsible, Running, Unfinished,
       TargetIs

LEMMA CollectExpiredLInv ==
  ASSUME LInv, CollectExpired
  PROVE  LInv'
  <1>1. /\ pc = "tick" /\ pc' = "expire"
        /\ UNCHANGED <<now, proc, rows, active, unrestored, cooldown, decision, current>>
    BY DEF CollectExpired, coordVars, gates, loopVars
  <1>2. DInv'
    BY CollectExpiredDInv DEF LInv
  <1> QED
    BY <1>1, <1>2 DEF LInv, CooldownOK, Vacant, OrigOK, NotLeftLowered, Responsible, Running,
       Unfinished, TargetIs

\* When a recovery ends, what it had to restore is restored.
LEMMA RecoverLInv ==
  ASSUME LInv, Recover
  PROVE  LInv'
  <1>1. CASE pc' = pc
    BY <1>1, LoopLInv DEF LoopStep
  <1>2. CASE pc' # pc
    <2>1. /\ pc = "recover" /\ todo = {} /\ pc' = "read"
          /\ UNCHANGED <<now, proc, rows, active, unrestored, cooldown>>
      BY <1>2 DEF Recover, coordVars, gates
    <2>2. active = {}
      BY <2>1 DEF LInv, DInv, DeadlineOK, Running
    <2>3. DInv'
      BY RecoverDInv DEF LInv
    <2> QED
      BY <2>1, <2>2, <2>3 DEF LInv, CooldownOK, Vacant, OrigOK, NotLeftLowered, Responsible,
         Running, Unfinished, TargetIs
  <1> QED
    BY <1>1, <1>2

\* The row of what was in effect outlives the application.
LEMMA EndLInv ==
  ASSUME LInv, End
  PROVE  LInv'
  <1>1. pc' = "down" /\ active' = {} /\ UNCHANGED <<now, proc, rows, unrestored>>
    BY DEF End
  <1>2. DInv'
    BY EndDInv DEF LInv
  <1>3. Responsible \subseteq Responsible'
    BY <1>1 DEF LInv, DInv, StateOK, DeadlineOK, Responsible, Running, Unfinished
  <1> QED
    BY <1>1, <1>2, <1>3 DEF LInv, CooldownOK, Vacant, OrigOK, NotLeftLowered, Unfinished, TargetIs

\* What a start does not read it does not restore.
LEMMA BootLInv ==
  ASSUME LInv, Boot
  PROVE  LInv'
  <1>1. /\ pc = "down" /\ pc' = "recover" /\ todo' \subseteq Unfinished
        /\ unrestored' = unrestored \cup {<<rows[t].key, rows[t].inc>> : t \in Unfinished \ todo'}
        /\ UNCHANGED <<now, proc, rows, active, cooldown>>
    BY BootEffect
  <1>2. DInv'
    BY BootDInv DEF LInv
  <1>3. active = {}
    BY <1>1 DEF LInv, DInv, DeadlineOK, Running
  <1>4. NotLeftLowered'
    <2> SUFFICES ASSUME NEW k \in Keys, proc[k].live, proc[k].lowered,
                        <<k, proc[k].inc>> \notin unrestored'
                 PROVE  \E u \in todo' : rows[u].key = k /\ TargetIs(rows[u]) /\ ~rows[u].orig
      BY <1>1 DEF NotLeftLowered, Responsible, Running, TargetIs
    <2>1. PICK u \in Unfinished : rows[u].key = k /\ TargetIs(rows[u]) /\ ~rows[u].orig
      BY <1>1 DEF LInv, NotLeftLowered, Responsible, Running
    <2>2. u \in todo'
      BY <1>1, <2>1 DEF TargetIs
    <2> QED
      BY <2>1, <2>2
  <1>5. OrigOK'
    BY <1>1 DEF LInv, OrigOK, Unfinished
  <1> QED
    BY <1>1, <1>2, <1>3, <1>4, <1>5 DEF LInv, CooldownOK, Vacant

LEMMA EnvironmentLInv ==
  ASSUME LInv, Environment
  PROVE  LInv'
  <1> USE DEF LInv
  <1>1. /\ UNCHANGED <<rows, active, unrestored, cooldown, used, pc, decision, current, todo, lastTick>>
        /\ now' = now \/ now' = now + 1
        /\ \A k \in Keys : proc'[k] = proc[k] \/ ~(proc'[k].live /\ proc'[k].lowered)
    BY EnvironmentEffect DEF DInv
  <1>2. DInv'
    BY EnvironmentDInv
  <1>3. CooldownOK'
    <2>1. /\ \A t \in active : rows[t].expires \in Nat
          /\ now \in Nat /\ MaxDuration \in Nat
      BY RowTypes, PolicyAssumption DEF DInv, StateOK
    <2>2. \A t \in active : rows[t].expires <= now' + MaxDuration
      BY <1>1, <2>1 DEF CooldownOK
    <2> QED
      BY <1>1, <2>2 DEF CooldownOK
  <1>4. NotLeftLowered'
    BY <1>1 DEF NotLeftLowered, Responsible, Running, Unfinished, TargetIs
  <1> QED
    BY <1>1, <1>2, <1>3, <1>4 DEF Vacant, OrigOK, Unfinished

LEMMA InitLInv == Init => LInv
  <1> SUFFICES ASSUME Init PROVE LInv
    OBVIOUS
  <1>1. DInv
    BY InitDInv
  <1>2. pc = "read" /\ active = {} /\ Unfinished = {}
    BY DEF Init, Unfinished
  <1>3. NotLeftLowered
    BY DEF Init, NotLeftLowered
  <1> QED
    BY <1>1, <1>2, <1>3 DEF LInv, CooldownOK, Vacant, OrigOK

LEMMA StepLInv ==
  ASSUME LInv, Cooldown >= MaxDuration + MaxGap, [Next]_vars
  PROVE  LInv'
  <1>1. CASE Monitor
    BY <1>1, QuietLInv, LoopLInv, AdmitLInv, BeginLInv, BeginFailsLInv, AccountLInv,
       CollectExpiredLInv, RecoverLInv DEF Monitor, QuietStep, LoopStep
  <1>2. CASE UNCHANGED vars
    <2>1. DInv'
      BY <1>2, StepDInv DEF LInv
    <2> QED
      BY <1>2, <2>1 DEF vars, LInv, CooldownOK, Vacant, OrigOK, NotLeftLowered, Responsible,
         Running, Unfinished, TargetIs
  <1> QED
    BY <1>1, <1>2, EndLInv, BootLInv, EnvironmentLInv DEF Next

LEMMA LoweredInvariance ==
  ASSUME Cooldown >= MaxDuration + MaxGap
  PROVE  Spec => []LInv
  <1>1. LInv /\ [Next]_vars => LInv'
    BY StepLInv
  <1> QED
    BY <1>1, InitLInv, PTL DEF Spec

\* If the cooldown outlasts the longest action and the longest gap between two
\* ticks, no target is ever left lowered, running or not, without a transaction
\* that the application or its next start has to roll back; except the targets for
\* which a rollback has failed or whose row a start did not read.
THEOREM NeverLeftLowered ==
  ASSUME Cooldown >= MaxDuration + MaxGap
  PROVE  Spec => []NotLeftLowered
  <1>1. LInv => NotLeftLowered
    BY DEF LInv
  <1> QED
    BY <1>1, LoweredInvariance, PTL

\* Under the same hypothesis and with the same exceptions, a target of a running
\* application is lowered by an action whose deadline is less than two gaps past:
\* one until a tick sees that it is over, one until that tick has come to it.
THEOREM DeadlineIsKept ==
  ASSUME Cooldown >= MaxDuration + MaxGap
  PROVE  Spec => []DeadlineKept
  <1>1. LInv => DeadlineKept
    <2> SUFFICES ASSUME LInv, Running, NEW t \in active
                 PROVE  now < rows[t].expires + 2 * MaxGap
      BY DEF LInv, DeadlineKept, NotLeftLowered, Responsible
    <2>1. rows[t].expires \in Nat /\ now \in Nat /\ lastTick \in Nat /\ MaxGap \in Nat
      BY RowTypes, PolicyAssumption DEF LInv, DInv, StateOK
    <2>2. rows[t].expires + MaxGap > lastTick /\ now <= lastTick + MaxGap
      BY DEF LInv, DInv, DeadlineOK, ClockOK, Running
    <2> QED
      BY <2>1, <2>2
  <1> QED
    BY <1>1, LoweredInvariance, PTL

-------------------------------------------------------------------------------
(* The budget, the rewards and what a stop leaves in force. *)

\* What has left the budget since the start: the oldest actions.
Dropped == Len(executed) - Len(budget)

\* The budget is the rest of the executed actions, each of them at its time, and
\* what has left it is older than the window; an admitted action has room in it.
BudgetOK ==
  /\ \A i, j \in 1 .. Len(executed) : i <= j => executed[i] <= executed[j]
  /\ \A i \in 1 .. Len(executed) : executed[i] <= now
  /\ Dropped >= 0
  /\ \A i \in 1 .. Len(budget) : budget[i] = executed[Dropped + i]
  /\ \A i \in 1 .. Dropped : now - executed[i] >= Window
  /\ pc \in {"begin", "account"} => Len(budget) < MaxActions

\* A transaction that can still be measured has not been learned from.
LearnedOK ==
  /\ \A t \in before : t \in used /\ learned[t] = 0
  /\ \A t \in Txs : learned[t] > 0 => t \in used

\* When the observation of a transaction in force is over.
Observed(t) == rows[t].expires - MaxDuration + Observation

\* What is in force is being observed, or was observed for long enough, or is
\* about to be accounted for; what is collected is being observed.
ObservedOK ==
  /\ \A t \in Txs : ctl[t] # None => t \in used
  /\ pc = "account" => current \in used
  /\ \A t \in active : rows[t].expires <= now + MaxDuration
  /\ \A t \in active : ctl[t] # None => ctl[t] >= Observed(t)
  /\ \A t \in active : ctl[t] = None =>
       (pc = "account" /\ t = current) \/ now >= Observed(t)
  /\ pc = "verify" => \A t \in todo : ctl[t] # None /\ ctl[t] <= now
  /\ pc = "stop" => \A t \in Txs : ctl[t] # None => t \in todo

SInv == DInv /\ TypeOK /\ BudgetOK /\ LearnedOK /\ HourlyBudget /\ ObservedOK

\* A set of natural numbers has a least element, the one that Min chooses.
LEMMA LeastNat ==
  ASSUME NEW S, S \subseteq Nat, S # {}
  PROVE  Min(S) \in S /\ \A n \in S : Min(S) <= n
  <1>1. PICK m \in S : \A n \in S : ~(<<n, m>> \in OpToRel(<, Nat))
    BY WFMin, NatLessThanWellFounded, Zenon
  <1>2. \A n \in S : ~(n < m)
    BY <1>1 DEF OpToRel
  <1>3. \A n \in S : m <= n
    BY <1>2
  <1> QED
    BY <1>3 DEF Min

\* PruneBudget takes a prefix off, all of it old.
LEMMA PruneEffect ==
  ASSUME NEW times \in Seq(Times), now \in Nat
  PROVE  \E d \in 0 .. Len(times) :
           /\ Prune(times) \in Seq(Times) /\ Len(Prune(times)) = Len(times) - d
           /\ \A i \in 1 .. Len(times) - d : Prune(times)[i] = times[d + i]
           /\ \A i \in 1 .. d : now - times[i] >= Window
  <1> DEFINE fresh == {i \in 1 .. Len(times) : now - times[i] < Window}
  <1>1. /\ Len(times) \in Nat /\ Window \in Nat
        /\ \A i \in 1 .. Len(times) : times[i] \in Times /\ times[i] \in Nat
    BY PolicyAssumption, ElementOfSeq, LenProperties DEF Times
  <1>2. Prune(times) = IF fresh = {} THEN <<>> ELSE SubSeq(times, Min(fresh), Len(times))
    BY DEF Prune, PopAged
  <1>3. CASE fresh = {}
    <2>1. Prune(times) = <<>> /\ Prune(times) \in Seq(Times) /\ Len(Prune(times)) = 0
      BY <1>2, <1>3, EmptySeq
    <2>2. \A i \in 1 .. Len(times) : now - times[i] >= Window
      BY <1>1, <1>3
    <2> QED
      BY <1>1, <2>1, <2>2
  <1>4. CASE fresh # {}
    <2>1. fresh \subseteq Nat
      OBVIOUS
    <2>2. PICK m \in 1 .. Len(times) : m = Min(fresh) /\ \A n \in fresh : m <= n
      BY <1>4, <2>1, LeastNat
    <2>3. Prune(times) = SubSeq(times, m, Len(times))
      BY <1>2, <1>4, <2>2
    <2>4. /\ Prune(times) \in Seq(Times) /\ Len(Prune(times)) = Len(times) - m + 1
          /\ \A i \in 1 .. Len(times) - m + 1 : Prune(times)[i] = times[m + i - 1]
      <3>1. m \in Nat /\ m >= 1 /\ m <= Len(times)
        BY <1>1, <2>2
      <3>2. \A i \in m .. Len(times) : times[i] \in Times
        BY <1>1, <3>1
      <3> QED
        BY <1>1, <2>3, <3>1, <3>2, SubSeqProperties
    <2>5. \A i \in 1 .. m - 1 : now - times[i] >= Window
      <3> SUFFICES ASSUME NEW i \in 1 .. m - 1, ~(now - times[i] >= Window)
                   PROVE  FALSE
        OBVIOUS
      <3>1. i \in 1 .. Len(times) /\ i < m /\ i \in Nat /\ m \in Nat
        BY <1>1, <2>2
      <3>2. i \in fresh
        BY <1>1, <3>1
      <3> QED
        BY <2>2, <3>1, <3>2
    <2> HIDE DEF fresh
    <2> DEFINE d == m - 1
    <2>6. d \in 0 .. Len(times) /\ Len(times) - m + 1 = Len(times) - d
      BY <1>1, <2>2
    <2>7. \A i \in 1 .. Len(times) - d : m + i - 1 = d + i
      BY <1>1, <2>2
    <2>8. /\ Len(Prune(times)) = Len(times) - d
          /\ \A i \in 1 .. Len(times) - d : Prune(times)[i] = times[d + i]
          /\ \A i \in 1 .. d : now - times[i] >= Window
      BY <2>4, <2>5, <2>6, <2>7
    <2> QED
      BY <2>4, <2>6, <2>8
  <1> QED
    BY <1>3, <1>4

LEMMA TypeInit == Init => TypeOK
  <1> SUFFICES ASSUME Init PROVE TypeOK
    OBVIOUS
  <1>1. journalOpen \in BOOLEAN /\ wanted \in BOOLEAN /\ quick \in BOOLEAN
    BY Zenon DEF Init
  <1>2. <<>> \in Seq(Times)
    BY EmptySeq
  <1> QED
    BY <1>1, <1>2, PolicyAssumption DEF Init, TypeOK, Unfinished, PCs, Times

\* A rollback adds targets only to what was not restored.
LEMMA RollBackTypes ==
  ASSUME StateOK, TypeOK, NEW t \in Unfinished, RollBack(t)
  PROVE  unrestored' \subseteq Keys \X (1 .. MaxInc)
  <1>1. rows[t].key \in Keys /\ rows[t].inc \in 1 .. MaxInc
    BY RowTypes
  <1> QED
    BY <1>1 DEF RollBack, TypeOK

LEMMA LoopTypes ==
  ASSUME DInv, TypeOK, LoopStep
  PROVE  TypeOK'
  <1> USE DEF coordVars, gates, history, loopVars
  <1>1. StateOK'
    BY LoopDInv DEF DInv
  <1>2. unrestored' \subseteq Keys \X (1 .. MaxInc)
    BY LoopEffect, RollBackTypes DEF DInv, TypeOK
  <1>3. before' \subseteq Txs /\ learned' \in [Txs -> Nat] /\ ctl' \in [Txs -> Times \cup {None}]
    <2>1. CASE Expire \/ (Recover /\ pc' = pc)
      BY <2>1 DEF Expire, Recover, TypeOK
    <2>2. CASE Verify
      <3>1. PICK t \in todo : /\ ctl' = [ctl EXCEPT ![t] = None]
                              /\ UNCHANGED <<before, learned>> \/ Measured(t)
        BY <2>2 DEF Verify
      <3>2. t \in Txs /\ ctl \in [Txs -> Times \cup {None}] /\ learned \in [Txs -> Nat]
            /\ before \subseteq Txs
        BY DEF TypeOK
      <3>3. ctl' \in [Txs -> Times \cup {None}]
        BY <3>1, <3>2
      <3>4. before' \subseteq Txs /\ learned' \in [Txs -> Nat]
        BY <3>1, <3>2 DEF Measured
      <3> QED
        BY <3>3, <3>4
    <2>3. CASE StopOne
      <3>1. PICK t \in todo : ctl' = [ctl EXCEPT ![t] = None]
        BY <2>3 DEF StopOne
      <3> QED
        BY <2>3, <3>1 DEF StopOne, TypeOK
    <2> QED
      BY <2>1, <2>2, <2>3 DEF LoopStep
  <1>4. UNCHANGED <<budget, cooldown, executed, used, restarts, journalOpen, pc, decision, current,
                    wanted, quick>>
    BY DEF LoopStep, Expire, Verify, StopOne, Recover
  <1> QED
    BY <1>1, <1>2, <1>3, <1>4 DEF TypeOK, StateOK, Targets

LEMMA TypeStep ==
  ASSUME DInv, TypeOK, [Next]_vars
  PROVE  TypeOK'
  <1> USE DEF coordVars, gates, history, loopVars
  <1>0. now \in Nat /\ MaxTime \in Nat /\ Cooldown \in Nat /\ MaxDuration \in Nat /\ Observation \in Nat
        /\ Observation <= MaxDuration
    BY PolicyAssumption DEF TypeOK
  <1>1. StateOK /\ StateOK'
    BY StepDInv DEF DInv
  <1>2. CASE LoopStep
    BY <1>2, LoopTypes
  <1>3. CASE ReadRequest
    <2>1. wanted' \in BOOLEAN /\ quick' \in BOOLEAN
      BY <1>3, Zenon DEF ReadRequest, TypeOK
    <2> QED
      BY <1>1, <1>3, <2>1 DEF ReadRequest, TypeOK, StateOK, Targets
  <1>4. CASE Admit \/ Refuse
    <2>1. Prune(budget) \in Seq(Times)
      BY <1>0, PruneEffect DEF TypeOK
    <2> QED
      BY <1>1, <1>4, <2>1 DEF Admit, Refuse, TypeOK, StateOK, Targets
  <1>5. CASE Begin
    <2>1. current' \in Txs
      BY <1>1, <1>5, BeginEffect
    <2>2. before' \subseteq Txs
      BY <1>5, <2>1 DEF Begin, TypeOK
    <2> QED
      BY <1>1, <1>5, <2>1, <2>2 DEF Begin, TypeOK, StateOK, Targets
  <1>6. CASE BeginFails
    <2>1. decision \in Keys /\ proc[decision].inc \in 1 .. MaxInc
      BY <1>1, <1>6 DEF BeginFails, StateOK, Targets
    <2>2. unrestored' \subseteq Keys \X (1 .. MaxInc)
      BY <1>6, <2>1 DEF BeginFails, TypeOK
    <2> QED
      BY <1>1, <1>6, <2>2 DEF BeginFails, TypeOK, StateOK, Targets
  <1>7. CASE Account
    <2>1. now \in Times /\ now + Cooldown \in Times /\ now + Observation \in Times
      BY <1>0 DEF TypeOK, Times
    <2>2. budget' \in Seq(Times) /\ executed' \in Seq(Times)
      BY <1>7, <2>1, AppendProperties DEF Account, TypeOK
    <2>3. cooldown' \in [Keys -> Times] /\ ctl' \in [Txs -> Times \cup {None}]
      BY <1>7, <2>1 DEF Account, TypeOK
    <2> QED
      BY <1>1, <1>7, <2>2, <2>3 DEF Account, TypeOK, StateOK, Targets
  <1>8. CASE CollectExpired \/ CollectDue \/ FinishTick
    <2>1. wanted' \in BOOLEAN
      BY <1>8, Zenon DEF CollectExpired, CollectDue, FinishTick, TypeOK
    <2> QED
      BY <1>1, <1>8, <2>1 DEF CollectExpired, CollectDue, FinishTick, TypeOK, StateOK, Targets
  <1>9. CASE StopDone
    <2>1. quick' \in BOOLEAN
      BY <1>9, Zenon DEF StopDone
    <2> QED
      BY <1>1, <1>9, <2>1 DEF StopDone, TypeOK, StateOK, Targets
  <1>10. CASE Recover /\ pc' # pc
    BY <1>1, <1>10 DEF Recover, TypeOK, StateOK, Targets
  <1>11. CASE End
    <2>1. wanted' \in BOOLEAN /\ quick' \in BOOLEAN /\ journalOpen' \in BOOLEAN
      BY <1>11, Zenon DEF End
    <2>2. <<>> \in Seq(Times) /\ 0 \in Times
      BY <1>0, EmptySeq DEF Times
    <2>3. restarts' \in 0 .. MaxRestarts
      BY <1>11, PolicyAssumption DEF End, TypeOK
    <2> QED
      BY <1>1, <1>11, <2>1, <2>2, <2>3 DEF End, TypeOK, StateOK, Targets
  <1>12. CASE Boot
    <2>1. unrestored' \subseteq Keys \X (1 .. MaxInc)
      <3>1. \A t \in Unfinished : <<rows[t].key, rows[t].inc>> \in Keys \X (1 .. MaxInc)
        BY <1>1, RowTypes
      <3>2. unrestored' = unrestored \cup {<<rows[t].key, rows[t].inc>> : t \in Unfinished \ todo'}
        BY <1>12, BootEffect
      <3> QED
        BY <3>1, <3>2 DEF TypeOK
    <2> QED
      BY <1>1, <1>12, <2>1 DEF Boot, TypeOK, StateOK, Targets
  <1>13. CASE Environment
    <2>1. quick' \in BOOLEAN
      <3>1. CASE Click
        BY <3>1, Zenon DEF Click
      <3>2. CASE Advance \/ \E k \in Keys : Exit(k) \/ Spawn(k)
        BY <3>2 DEF Advance, Exit, Spawn, TypeOK
      <3> QED
        BY <1>13, <3>1, <3>2 DEF Environment
    <2> QED
      BY <1>1, <1>13, <2>1 DEF Environment, Advance, Click, Exit, Spawn, TypeOK, StateOK, Targets
  <1>14. CASE UNCHANGED vars
    BY <1>14 DEF vars, TypeOK, Unfinished
  <1> QED
    BY <1>2, <1>3, <1>4, <1>5, <1>6, <1>7, <1>8, <1>9, <1>10, <1>11, <1>12, <1>13, <1>14
       DEF Next, Monitor, LoopStep

\* The budget keeps to what was executed, and the actions stay within it.
LEMMA BudgetStep ==
  ASSUME TypeOK, BudgetOK, HourlyBudget, [Next]_vars
  PROVE  BudgetOK' /\ HourlyBudget'
  <1> USE DEF coordVars, gates, history, loopVars
  <1>0. /\ now \in Nat /\ Window \in Nat /\ MaxActions \in Nat
        /\ budget \in Seq(Times) /\ executed \in Seq(Times)
        /\ Len(budget) \in Nat /\ Len(executed) \in Nat
        /\ DOMAIN executed = 1 .. Len(executed)
        /\ \A i \in 1 .. Len(executed) : executed[i] \in Nat
    BY PolicyAssumption, LenProperties, ElementOfSeq DEF TypeOK, Times
  <1>1. CASE /\ UNCHANGED <<budget, executed>> /\ (now' = now \/ now' = now + 1)
             /\ pc' \in {"begin", "account"} => pc \in {"begin", "account"}
    <2>1. Dropped' = Dropped /\ now' \in Nat /\ now' >= now
      BY <1>0, <1>1 DEF Dropped
    <2>2. Dropped <= Len(executed) /\ Dropped \in Int
      BY <1>0 DEF Dropped
    <2>3. HourlyBudget'
      BY <1>1 DEF HourlyBudget
    <2>4. \A i \in 1 .. Dropped : now' - executed[i] >= Window
      BY <1>0, <2>1, <2>2 DEF BudgetOK
    <2>5. \A i \in 1 .. Len(executed) : executed[i] <= now'
      BY <1>0, <2>1 DEF BudgetOK
    <2> QED
      BY <1>1, <2>1, <2>3, <2>4, <2>5 DEF BudgetOK
  <1>2. CASE Admit \/ Refuse
    <2>1. /\ budget' = Prune(budget) /\ UNCHANGED <<executed, now>>
          /\ pc' \in {"begin", "account"} => Len(Prune(budget)) < MaxActions
      BY <1>2 DEF Admit, Refuse, Eligible
    <2>2. PICK d \in 0 .. Len(budget) :
            /\ Len(budget') = Len(budget) - d
            /\ \A i \in 1 .. Len(budget) - d : budget'[i] = budget[d + i]
            /\ \A i \in 1 .. d : now - budget[i] >= Window
      BY <1>0, <2>1, PruneEffect
    <2>3. /\ Dropped' = Dropped + d /\ Dropped \in Nat
          /\ Len(budget) = Len(executed) - Dropped
      BY <1>0, <2>1, <2>2 DEF Dropped, BudgetOK
    <2>4. \A i \in 1 .. Len(budget') : budget'[i] = executed[Dropped' + i]
      <3> SUFFICES ASSUME NEW i \in 1 .. Len(budget')
                   PROVE  budget'[i] = executed[Dropped' + i]
        OBVIOUS
      <3>1. d + i \in 1 .. Len(budget) /\ Dropped' + i = Dropped + (d + i)
        BY <1>0, <2>2, <2>3
      <3> QED
        BY <2>2, <3>1 DEF BudgetOK
    <2>5. \A i \in 1 .. Dropped' : now - executed[i] >= Window
      <3> SUFFICES ASSUME NEW i \in 1 .. Dropped', i > Dropped
                   PROVE  now - executed[i] >= Window
        BY <2>3 DEF BudgetOK
      <3>1. i - Dropped \in 1 .. d /\ i - Dropped \in 1 .. Len(budget) /\ Dropped + (i - Dropped) = i
        BY <1>0, <2>2, <2>3
      <3>2. budget[i - Dropped] = executed[i]
        BY <3>1 DEF BudgetOK
      <3> QED
        BY <2>2, <3>1, <3>2
    <2>6. HourlyBudget'
      BY <2>1 DEF HourlyBudget
    <2> QED
      BY <2>1, <2>2, <2>3, <2>4, <2>5, <2>6 DEF BudgetOK
  <1>3. CASE Account
    <2>1. /\ budget' = Append(budget, now) /\ executed' = Append(executed, now) /\ now' = now
          /\ Len(budget) < MaxActions /\ pc' = "tick"
      BY <1>3 DEF Account, BudgetOK
    <2>2. now \in Times
      BY <1>0, PolicyAssumption DEF TypeOK, Times
    <2>3. /\ Len(budget') = Len(budget) + 1 /\ budget'[Len(budget) + 1] = now
          /\ \A i \in 1 .. Len(budget) : budget'[i] = budget[i]
          /\ Len(executed') = Len(executed) + 1 /\ executed'[Len(executed) + 1] = now
          /\ \A i \in 1 .. Len(executed) : executed'[i] = executed[i]
          /\ DOMAIN executed' = 1 .. Len(executed) + 1
      BY <1>0, <2>1, <2>2, AppendProperties, LenProperties
    <2>4. /\ Dropped' = Dropped /\ Dropped \in Nat /\ Dropped <= Len(executed)
          /\ Dropped + (Len(budget) + 1) = Len(executed) + 1
      BY <1>0, <2>3 DEF Dropped, BudgetOK
    <2>5. /\ \A i \in 1 .. Len(executed') : i \in 1 .. Len(executed) \/ i = Len(executed) + 1
          /\ \A i \in 1 .. Len(budget') : i \in 1 .. Len(budget) \/ i = Len(budget) + 1
      BY <1>0, <2>3
    <2>6. \A i, j \in 1 .. Len(executed') : i <= j => executed'[i] <= executed'[j]
      BY <1>0, <2>3, <2>5 DEF BudgetOK
    <2>7. \A i \in 1 .. Len(executed') : executed'[i] <= now
      BY <1>0, <2>3, <2>5 DEF BudgetOK
    <2>8. \A i \in 1 .. Len(budget') : budget'[i] = executed'[Dropped + i]
      <3>1. \A i \in 1 .. Len(budget) : Dropped + i \in 1 .. Len(executed)
        BY <1>0, <2>4
      <3> QED
        BY <2>3, <2>4, <2>5, <3>1 DEF BudgetOK
    <2>9. \A i \in 1 .. Dropped : i \in 1 .. Len(executed) /\ now - executed'[i] >= Window
      BY <1>0, <2>3, <2>4 DEF BudgetOK
    <2>10. HourlyBudget'
      <3> SUFFICES ASSUME NEW i \in 1 .. Len(executed) + 1, NEW j \in 1 .. Len(executed) + 1,
                          j - i >= MaxActions
                   PROVE  executed'[j] - executed'[i] >= Window
        BY <2>3 DEF HourlyBudget
      <3>1. i \in 1 .. Len(executed)
        BY <1>0, PolicyAssumption
      <3>2. CASE j \in 1 .. Len(executed)
        BY <1>0, <2>3, <3>1, <3>2 DEF HourlyBudget
      <3>3. CASE j = Len(executed) + 1
        <4>1. i \in 1 .. Dropped
          BY <1>0, <2>1, <2>4, <3>3
        <4> QED
          BY <2>3, <2>9, <3>3, <4>1
      <3> QED
        BY <2>3, <2>5, <3>2, <3>3
    <2> QED
      BY <2>1, <2>4, <2>6, <2>7, <2>8, <2>9, <2>10 DEF BudgetOK
  <1>4. CASE End
    <2>1. budget' = <<>> /\ executed' = <<>> /\ Len(budget') = 0 /\ Len(executed') = 0
          /\ pc' = "down" /\ DOMAIN executed' = {}
      BY <1>4, EmptySeq DEF End
    <2> QED
      BY <2>1 DEF BudgetOK, HourlyBudget, Dropped
  <1>5. CASE \/ ReadRequest \/ Begin \/ BeginFails \/ CollectExpired \/ Expire \/ CollectDue
             \/ Verify \/ FinishTick \/ StopOne \/ StopDone \/ Recover \/ Boot \/ Environment
             \/ UNCHANGED vars
    BY <1>1, <1>5
       DEF ReadRequest, Begin, BeginFails, CollectExpired, Expire, CollectDue, Verify, FinishTick,
       StopOne, StopDone, Recover, Boot, Environment, Advance, Click, Exit, Spawn, vars
  <1> QED
    BY <1>2, <1>3, <1>4, <1>5 DEF Next, Monitor

\* A reward is learned from a transaction in force that was not learned from.
LEMMA LearnedStep ==
  ASSUME DInv, TypeOK, LearnedOK, [Next]_vars
  PROVE  /\ LearnedOK'
         /\ \A t \in Txs : learned'[t] > learned[t] => t \in active /\ learned'[t] = 1
  <1> USE DEF coordVars, gates, history, loopVars
  <1>0. learned \in [Txs -> Nat]
    BY DEF TypeOK
  <1>1. CASE learned' = learned /\ before' \subseteq before /\ used \subseteq used'
    BY <1>0, <1>1 DEF LearnedOK
  <1>2. CASE Begin
    <2>1. PICK t \in Txs \ used : before' = before \cup {t} /\ used' = used \cup {t}
      BY <1>2, BeginEffect DEF Begin, DInv
    <2>2. learned' = learned /\ learned[t] = 0
      BY <1>0, <1>2, <2>1 DEF Begin, LearnedOK
    <2> QED
      BY <1>0, <2>1, <2>2 DEF LearnedOK
  <1>3. CASE Verify
    <2>1. PICK t \in todo : \/ UNCHANGED <<before, learned>>
                            \/ t \in before /\ t \in active /\ Measured(t)
      BY <1>3 DEF Verify
    <2>2. used' = used /\ t \in Txs
      BY <1>3 DEF Verify, TypeOK
    <2>3. CASE UNCHANGED <<before, learned>>
      BY <1>1, <2>2, <2>3
    <2>4. CASE t \in before /\ t \in active /\ Measured(t)
      <3>1. /\ learned[t] = 0 /\ learned'[t] = 1 /\ before' = before \ {t}
            /\ \A u \in Txs \ {t} : learned'[u] = learned[u]
        BY <1>0, <2>2, <2>4 DEF Measured, LearnedOK
      <3>2. t \in used'
        BY <2>2, <2>4 DEF LearnedOK
      <3>3. before \subseteq Txs
        BY DEF TypeOK
      <3>4. LearnedOK'
        BY <1>0, <2>2, <3>1, <3>2, <3>3 DEF LearnedOK
      <3>5. \A u \in Txs : learned'[u] > learned[u] => u = t
        BY <1>0, <3>1
      <3> QED
        BY <2>4, <3>1, <3>4, <3>5
    <2> QED
      BY <2>1, <2>3, <2>4
  <1>4. CASE End
    BY <1>0, <1>1, <1>4 DEF End
  <1>5. CASE \/ ReadRequest \/ Admit \/ Refuse \/ BeginFails \/ Account \/ CollectExpired \/ Expire
             \/ CollectDue \/ FinishTick \/ StopOne \/ StopDone \/ Recover \/ Boot \/ Environment
             \/ UNCHANGED vars
    BY <1>1, <1>5
       DEF ReadRequest, Admit, Refuse, BeginFails, Account, CollectExpired, Expire, CollectDue,
       FinishTick, StopOne, StopDone, Recover, Boot, Environment, Advance, Click, Exit,
       Spawn, vars
  <1> QED
    BY <1>2, <1>3, <1>4, <1>5 DEF Next, Monitor

\* A step that goes through a set of ids: what it rolls back is no longer in
\* force, and what it forgets is what it was at.
LEMMA ObservedLoop ==
  ASSUME DInv, TypeOK, ObservedOK, LoopStep
  PROVE  ObservedOK'
  <1>1. UNCHANGED <<now, pc, current, used>> /\ pc \in {"expire", "verify", "stop", "recover"}
    BY LoopEffect
  <1>2. /\ active \subseteq Txs /\ todo \subseteq Txs /\ now \in Nat
        /\ \A t \in active : rows[t].expires \in Nat /\ Observed(t) \in Int
        /\ ctl \in [Txs -> Times \cup {None}]
    BY RowTypes, PolicyAssumption DEF DInv, StateOK, Unfinished, TypeOK, Observed
  <1>3. PICK t \in todo :
          /\ todo' = todo \ {t}
          /\ \A u \in Txs \ {t} : rows'[u] = rows[u] /\ ctl'[u] = ctl[u]
          /\ active' \subseteq active
          /\ t \in active' => rows'[t] = rows[t] /\ pc \in {"verify", "stop"}
          /\ pc = "stop" => t \notin active'
          /\ \/ ctl' = ctl /\ pc \in {"expire", "recover"}
             \/ ctl'[t] = None /\ pc \in {"verify", "stop"}
    <2>1. ASSUME NEW t \in todo, RollBack(t)
          PROVE  active' = active \ {t} /\ \A u \in Txs \ {t} : rows'[u] = rows[u]
      BY <2>1 DEF RollBack, DInv, StateOK
    <2>2. CASE Expire
      <3>1. PICK t \in todo : RollBack(t) /\ todo' = todo \ {t}
        BY <2>2 DEF Expire
      <3> QED
        BY <1>1, <2>1, <2>2, <3>1 DEF Expire
    <2>3. CASE Recover /\ pc' = pc
      <3>1. PICK t \in todo : RollBack(t) /\ todo' = todo \ {t}
        BY <2>3 DEF Recover
      <3> QED
        BY <1>1, <2>1, <2>3, <3>1 DEF Recover
    <2>4. CASE Verify
      <3>1. PICK t \in todo :
              /\ todo' = todo \ {t} /\ ctl' = [ctl EXCEPT ![t] = None]
              /\ UNCHANGED <<rows, active>> \/ RollBack(t)
        BY <2>4 DEF Verify, coordVars
      <3>2. ctl'[t] = None /\ \A u \in Txs \ {t} : ctl'[u] = ctl[u]
        BY <1>2, <3>1
      <3>3. pc = "verify"
        BY <2>4 DEF Verify
      <3> QED
        BY <2>1, <3>1, <3>2, <3>3
    <2>5. CASE StopOne
      <3>1. PICK t \in todo :
              /\ todo' = todo \ {t} /\ ctl' = [ctl EXCEPT ![t] = None]
              /\ (UNCHANGED <<rows, active>> /\ t \notin active) \/ RollBack(t)
        BY <2>5 DEF StopOne, coordVars
      <3>2. ctl'[t] = None /\ \A u \in Txs \ {t} : ctl'[u] = ctl[u]
        BY <1>2, <3>1
      <3>3. pc = "stop"
        BY <2>5 DEF StopOne
      <3> QED
        BY <2>1, <3>1, <3>2, <3>3
    <2> QED
      BY <2>2, <2>3, <2>4, <2>5 DEF LoopStep
  <1>4. \A u \in active' : u \in active /\ u \in Txs /\ rows'[u] = rows[u] /\ Observed(u)' = Observed(u)
    BY <1>2, <1>3 DEF Observed
  <1>5. \A u \in active' : rows'[u].expires <= now' + MaxDuration
    BY <1>1, <1>4 DEF ObservedOK
  <1>6. \A u \in active' : ctl'[u] # None => ctl'[u] >= Observed(u)'
    BY <1>3, <1>4 DEF ObservedOK
  <1>7. \A u \in active' : ctl'[u] = None => now' >= Observed(u)'
    <2> SUFFICES ASSUME NEW u \in active', ctl'[u] = None
                 PROVE  now >= Observed(u)
      BY <1>1, <1>4
    <2>1. CASE ctl[u] = None
      BY <1>1, <1>4, <2>1 DEF ObservedOK
    <2>2. CASE ctl[u] # None
      <3>1. u = t /\ pc = "verify"
        BY <1>3, <1>4, <2>2
      <3>2. ctl[u] <= now /\ ctl[u] >= Observed(u) /\ ctl[u] \in Nat
        BY <1>2, <1>4, <2>2, <3>1, PolicyAssumption DEF ObservedOK, Times
      <3> QED
        BY <1>2, <1>4, <3>2
    <2> QED
      BY <2>1, <2>2
  <1>8. pc' = "verify" => \A u \in todo' : ctl'[u] # None /\ ctl'[u] <= now'
    BY <1>1, <1>2, <1>3 DEF ObservedOK
  <1>9. pc' = "stop" => \A u \in Txs : ctl'[u] # None => u \in todo'
    BY <1>1, <1>3 DEF ObservedOK
  <1>10. \A u \in Txs : ctl'[u] # None => u \in used'
    BY <1>1, <1>3 DEF ObservedOK
  <1> QED
    BY <1>1, <1>5, <1>6, <1>7, <1>8, <1>9, <1>10 DEF ObservedOK

LEMMA ObservedStep ==
  ASSUME DInv, TypeOK, ObservedOK, [Next]_vars
  PROVE  ObservedOK'
  <1> USE DEF coordVars, gates, history, loopVars
  <1>0. /\ now \in Nat /\ ctl \in [Txs -> Times \cup {None}]
        /\ active \subseteq Txs /\ todo \subseteq Txs /\ active \subseteq used
        /\ \A t \in active : rows[t].expires \in Nat /\ Observed(t) \in Int
        /\ MaxDuration \in Nat /\ Observation \in Nat /\ Times \subseteq Nat
    BY RowTypes, PolicyAssumption DEF DInv, StateOK, Unfinished, TypeOK, Times, Observed
  <1>1. CASE LoopStep
    BY <1>1, ObservedLoop
  <1>2. CASE /\ UNCHANGED <<active, ctl, current>> /\ (now' = now \/ now' = now + 1)
             /\ \A t \in active : rows'[t] = rows[t]
             /\ used \subseteq used'
             /\ (pc = "account" <=> pc' = "account")
             /\ pc' = "verify" =>
                  \/ todo' = {t \in Txs : ctl[t] # None /\ ctl[t] <= now}
                  \/ pc = "verify" /\ todo' = todo
             /\ pc' = "stop" =>
                  \/ todo' = {t \in Txs : ctl[t] # None}
                  \/ pc = "stop" /\ todo' = todo
    <2>1. now' \in Nat /\ now' >= now /\ \A t \in active : Observed(t)' = Observed(t)
      BY <1>0, <1>2 DEF Observed
    <2>2. \A t \in Txs : ctl[t] # None => ctl[t] \in Nat
      BY <1>0
    <2>3. \A t \in active' : rows'[t].expires <= now' + MaxDuration
      BY <1>0, <1>2, <2>1 DEF ObservedOK
    <2>4. \A t \in active' : ctl'[t] = None =>
            (pc' = "account" /\ t = current') \/ now' >= Observed(t)'
      BY <1>0, <1>2, <2>1 DEF ObservedOK
    <2>5. pc' = "verify" => \A t \in todo' : ctl'[t] # None /\ ctl'[t] <= now'
      BY <1>0, <1>2, <2>1, <2>2 DEF ObservedOK
    <2> QED
      BY <1>2, <2>1, <2>3, <2>4, <2>5 DEF ObservedOK
  <1>3. CASE BeginFails
    <2>1. /\ pc = "begin" /\ pc' = "tick" /\ used \subseteq used'
          /\ \A t \in active : rows'[t] = rows[t]
      BY <1>0, <1>3, BeginFailsEffect DEF DInv
    <2> QED
      BY <1>2, <1>3, <2>1 DEF BeginFails
  <1>4. CASE Begin
    <2>1. /\ current' \in Txs \ used /\ used' = used \cup {current'}
          /\ rows'[current'] = Planned(decision)
          /\ \A u \in Txs \ {current'} : rows'[u] = rows[u]
          /\ active' = active \cup {current'} /\ pc' = "account" /\ now' = now
      BY <1>4, BeginEffect DEF DInv
    <2>2. PICK t \in Txs \ used : t = current'
      BY <2>1
    <2>3. ctl' = ctl /\ ctl[t] = None
      BY <1>4 DEF Begin, ObservedOK
    <2>4. rows'[t].expires = now + MaxDuration
      BY <2>1, <2>2 DEF Planned
    <2>5. \A u \in active : u # t /\ rows'[u] = rows[u] /\ Observed(u)' = Observed(u)
      BY <1>0, <2>1, <2>2 DEF Observed
    <2>6. \A u \in active' : u \in active \/ u = t
      BY <2>1, <2>2
    <2>7. \A u \in active' : rows'[u].expires <= now' + MaxDuration
      BY <1>0, <2>1, <2>4, <2>5, <2>6 DEF ObservedOK
    <2>8. \A u \in active' : ctl'[u] # None => ctl'[u] >= Observed(u)'
      BY <2>3, <2>5, <2>6 DEF ObservedOK
    <2>9. \A u \in active' : ctl'[u] = None =>
            (pc' = "account" /\ u = current') \/ now' >= Observed(u)'
      <3>1. pc # "account"
        BY <1>4 DEF Begin
      <3> QED
        BY <2>1, <2>2, <2>3, <2>5, <2>6, <3>1 DEF ObservedOK
    <2> QED
      BY <2>1, <2>3, <2>7, <2>8, <2>9 DEF ObservedOK
  <1>5. CASE Account
    <2>1. /\ ctl' = [ctl EXCEPT ![current] = now + Observation] /\ current \in Txs
          /\ UNCHANGED <<now, rows, active, used>> /\ pc = "account" /\ pc' = "tick"
      BY <1>5 DEF Account, TypeOK
    <2>2. ctl'[current] = now + Observation /\ \A u \in Txs \ {current} : ctl'[u] = ctl[u]
      BY <1>0, <2>1
    <2>3. \A t \in active : Observed(t)' = Observed(t)
      BY <2>1 DEF Observed
    <2>4. current \in active => now + Observation >= Observed(current)
      BY <1>0, <2>1 DEF Observed, ObservedOK
    <2>5. now + Observation # None
      BY <1>0, NoneAssumption, PolicyAssumption DEF TypeOK, Times
    <2> QED
      BY <1>0, <2>1, <2>2, <2>3, <2>4, <2>5 DEF ObservedOK
  <1>6. CASE (Recover /\ pc' # pc) \/ Boot \/ End
    <2>1. /\ active' = {} /\ used' = used
          /\ pc' \in {"read", "recover", "down"}
      BY <1>6 DEF Recover, Boot, End, DInv, DeadlineOK, Running
    <2>2. ctl' = ctl \/ \A t \in Txs : ctl'[t] = None
      BY <1>6 DEF Recover, Boot, End
    <2> QED
      BY <2>1, <2>2 DEF ObservedOK
  <1>7. CASE ReadRequest \/ Admit \/ Refuse \/ CollectExpired \/ CollectDue \/ FinishTick \/ StopDone
    BY <1>2, <1>7 DEF ReadRequest, Admit, Refuse, CollectExpired, CollectDue, FinishTick, StopDone
  <1>8. CASE Environment \/ UNCHANGED vars
    BY <1>2, <1>8 DEF Environment, Advance, Click, Exit, Spawn, vars
  <1> QED
    BY <1>1, <1>3, <1>4, <1>5, <1>6, <1>7, <1>8 DEF Next, Monitor, LoopStep

LEMMA InitSInv == Init => SInv
  <1> SUFFICES ASSUME Init PROVE SInv
    OBVIOUS
  <1>1. DInv /\ TypeOK
    BY InitDInv, TypeInit
  <1>2. /\ budget = <<>> /\ executed = <<>> /\ Len(budget) = 0 /\ Len(executed) = 0
        /\ DOMAIN executed = {}
    BY EmptySeq DEF Init
  <1>3. BudgetOK /\ HourlyBudget
    BY <1>2 DEF Init, BudgetOK, HourlyBudget, Dropped
  <1>4. LearnedOK /\ ObservedOK
    BY DEF Init, LearnedOK, ObservedOK
  <1> QED
    BY <1>1, <1>3, <1>4 DEF SInv

LEMMA StepSInv == SInv /\ [Next]_vars => SInv'
  BY StepDInv, TypeStep, BudgetStep, LearnedStep, ObservedStep DEF SInv

LEMMA SessionInvariance == Spec => []SInv
  BY InitSInv, StepSInv, PTL DEF Spec

\* Every variable keeps its type; a key has been decided on and a transaction
\* begun whenever Execute works on one.
THEOREM TypeCorrect == Spec => []TypeOK
  <1>1. SInv => TypeOK
    BY DEF SInv
  <1> QED
    BY <1>1, SessionInvariance, PTL

\* Never more than MaxActions actions in a window, whatever is refused, expired
\* or verified in between and however far apart the calls of Evaluate are.
THEOREM BudgetIsKept == Spec => []HourlyBudget
  <1>1. SInv => HourlyBudget
    BY DEF SInv
  <1> QED
    BY <1>1, SessionInvariance, PTL

\* A reward is learned only from a transaction that is in force, and only once,
\* over all the restarts of the application.
THEOREM LearnsInForce == Spec => LearnedInForce
  <1>1. SInv /\ [Next]_vars =>
          [\A t \in Txs : learned'[t] > learned[t] => t \in active /\ learned'[t] = 1]_vars
    BY LearnedStep DEF SInv
  <1> QED
    BY <1>1, SessionInvariance, PTL DEF Spec, LearnedInForce

\* When an EmergencyStop is over, all that is still in force has been observed
\* for as long as the configuration says: the verified actions, which the
\* controller has forgotten.
THEOREM StopRestores == Spec => StopRestoresObserved
  <1>1. ASSUME SInv, [Next]_vars, pc = "stop", pc' = "read", NEW t \in active'
        PROVE  now >= rows'[t].expires - MaxDuration + Observation
    <2>1. StopDone
      BY <1>1 DEF Next, Monitor, ReadRequest, Admit, Refuse, Begin, BeginFails, Account,
         CollectExpired, Expire, CollectDue, Verify, FinishTick, StopOne, Recover, End, Boot,
         Environment, Advance, Click, Exit, Spawn, vars
    <2>2. todo = {} /\ UNCHANGED <<rows, active>> /\ t \in Txs
      BY <1>1, <2>1 DEF StopDone, coordVars, SInv, DInv, StateOK, Unfinished
    <2>3. ctl[t] = None
      BY <1>1, <2>2 DEF SInv, ObservedOK
    <2> QED
      BY <1>1, <2>2, <2>3 DEF SInv, ObservedOK, Observed
  <1>2. SInv /\ [Next]_vars =>
          [pc = "stop" /\ pc' = "read" =>
             \A t \in active' : now >= rows'[t].expires - MaxDuration + Observation]_vars
    BY <1>1
  <1> QED
    BY <1>2, SessionInvariance, PTL DEF Spec, StopRestoresObserved
==============================================================================
