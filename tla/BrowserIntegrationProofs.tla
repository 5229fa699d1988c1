----------------------- MODULE BrowserIntegrationProofs -----------------------
(***************************************************************************)
(* Theorems about BrowserIntegration, for any tabs, transactions, queues,  *)
(* starts and restores, and for any of its faults.                         *)
(***************************************************************************)
EXTENDS BrowserIntegration, SequenceTheorems, TLAPS

-----------------------------------------------------------------------------
(* Where the discard of a transaction is, until it is carried out or lost. *)

Queued(t) == \E i \in 1 .. Len(pending) : pending[i].kind = "discard" /\ pending[i].tx = t
Taken(t) == handling \in Commands /\ handling.kind = "discard" /\ handling.tx = t
Running(t) == \E h \in handlers : h.command.kind = "discard" /\ h.command.tx = t

\* No discard of the transaction is under way any more, or none was begun.
Spent(t) == ~Queued(t) /\ ~Taken(t) /\ ~Running(t)

\* Outcomes that are on their way to the bridge.
Reported == {r \in Results : r = handling \/ \E i \in 1 .. Len(posted) : posted[i] = r}

-----------------------------------------------------------------------------
(* The parts of the invariant. *)

\* What the server has in its hands at each of its steps.
ServerOK ==
  /\ app = "off" => server = "off"
  /\ server = "serve" => handling \in Results \cup {Poll, ExtensionError}
  /\ server = "persist" => handling \in Results
  /\ server = "reply" => handling \in Commands \cup {Poll}
  /\ server \notin {"serve", "persist", "reply"} => handling = None

\* The bounds, and the number a request for Quick Restore carries.
BoundOK == starts + restores <= MaxOwner /\ (restoring # {} => restores > 0)

\* The steps of each kind of handler; a discard keeps to the tab it was given.
HandlerOK ==
  \A h \in handlers :
    \/ h.command.kind = "discard" /\ h.step \in {"check", "store", "discard"}
       /\ h.tab = h.command.tab
    \/ h.command.kind = "restore" /\ h.step \in {"find", "reload", "remove"}

\* Only ids that were issued occur anywhere, the bridge knows those of its own
\* life alone, and what was issued in an earlier one counts as lost.
IssuedOK ==
  /\ active \cup restoring \subseteq {t \in Txs : issued[t] = "now"}
  /\ \A i \in 1 .. Len(pending) : issued[pending[i].tx] # "no"
  /\ handling \in Commands => issued[handling.tx] # "no"
  /\ \A h \in handlers : issued[h.command.tx] # "no"
  /\ \A r \in Reported : issued[r.tx] # "no"
  /\ \A t \in Txs : /\ issued[t] = "before" => t \in lost
                    /\ discards[t] > 0 \/ journal[t] = "BLOCKED" => issued[t] # "no"

\* The discard of a transaction is in one place, comes before every restore of
\* it, and has not been carried out before.
TokenOK ==
  /\ \A i, j \in 1 .. Len(pending) :
       pending[i].kind = "discard" /\ pending[j].tx = pending[i].tx => i <= j
  /\ handling \in Commands => ~Queued(handling.tx)
  /\ \A h \in handlers : ~Queued(h.command.tx) /\ ~Taken(h.command.tx)
  /\ \A g, h \in handlers :
       g.command.kind = "discard" /\ h.command.kind = "discard"
       /\ g.command.tx = h.command.tx => g = h
  /\ \A t \in Txs : discards[t] > 0 => discards[t] = 1 /\ Spent(t)

\* What a transaction that no restore has overtaken can rely on: the record of
\* a tab that is discarded or about to be, and that a restore under way is for
\* that tab and leaves none behind.
RestoreOK ==
  /\ \A tab \in Tabs : tabs[tab] \in Txs => discards[tabs[tab]] > 0
  /\ \A g, h \in handlers :
       g.command.kind # h.command.kind /\ g.command.tx = h.command.tx
       => g.command.tx \in overlapped
  /\ \A h \in handlers : h.command.tx \notin overlapped =>
       /\ h.step = "discard" => stored[h.command.tx] = h.tab
       /\ h.step \in {"reload", "remove"} => stored[h.command.tx] \in {h.tab, None}
       /\ h.step = "remove" => \A tab \in Tabs : tabs[tab] # h.command.tx

\* A transaction the bridge may forget is over: its tab is not discarded, and
\* will not be.  So as long as it may be, the bridge knows it.
KnownOK ==
  /\ \A r \in Reported : r.status # "EXECUTED" /\ r.tx \notin overlapped =>
       Spent(r.tx) /\ \A tab \in Tabs : tabs[tab] # r.tx
  /\ \A t \in Txs \ overlapped : issued[t] = "now" /\ ~Spent(t) => t \in active

\* What an outcome on its way to the audit, or there, rests on.
OutcomeOK ==
  /\ \A r \in Reported :
       /\ r.status = "EXECUTED" => discards[r.tx] > 0
       /\ r.status = "ROLLED_BACK" => r.tx \in reloaded
       /\ r.status = "BLOCKED" => discards[r.tx] = 0 /\ Spent(r.tx)
  /\ \A t \in Txs : journal[t] = "BLOCKED" => Spent(t)
  /\ \A h \in handlers : h.step = "remove" => h.command.tx \in reloaded

\* The outcome of a transaction is on its way to the audit, or was lost.
Carried(t) ==
  t \in lost \cup Unsent \/ (handling # None /\ handling.kind = "result" /\ handling.tx = t)

Control == TypeOK /\ ServerOK /\ BoundOK /\ HandlerOK
Data == /\ IssuedOK /\ TokenOK
        /\ RestoreOK /\ RecordKept
        /\ KnownOK /\ StillKnown
        /\ OutcomeOK /\ AuditFaithful /\ OutcomeAccounted
IInv == Control /\ Data

-----------------------------------------------------------------------------
(* Lemmas about messages and queues. *)

LEMMA CommandTypes ==
  ASSUME NEW c \in Commands
  PROVE  /\ c.kind \in {"discard", "restore"} /\ c.tx \in Txs
         /\ c.kind = "discard" => c.tab \in Tabs
         /\ c \notin Results /\ c # Poll /\ c # ExtensionError
  BY DEF Commands, Results, Poll, ExtensionError

LEMMA ResultTypes ==
  ASSUME NEW r \in Results
  PROVE  r.kind = "result" /\ r.tx \in Txs /\ r.status \in Final /\ r # Poll /\ r # ExtensionError
  BY DEF Results, Poll, ExtensionError

LEMMA ReportedTypes ==
  \A r \in Reported : r \in Results /\ r.kind = "result" /\ r.tx \in Txs /\ r.status \in Final
  BY ResultTypes DEF Reported

LEMMA Made ==
  /\ \A t \in Txs, tab \in Tabs : Discard(t, tab) \in Commands
  /\ \A t \in Txs, n \in 1 .. MaxOwner : Restore(t, n) \in Commands
  /\ \A t \in Txs, status \in Final : Result(t, status) \in Results
  BY DEF Discard, Restore, Result, Commands, Results

\* A message that is put on the host's standard input, or dropped with the host.
LEMMA PostEffect ==
  ASSUME TypeOK, NEW m \in Results \cup {ExtensionError}, Post(m), handling' = handling
  PROVE  /\ posted' \in Seq(Results \cup {Poll, ExtensionError})
         /\ Reported' \subseteq Reported \cup {m}
         /\ lost \subseteq lost' /\ lost' \subseteq Txs
         /\ lost \cup Unsent \subseteq (lost \cup Unsent)'
         /\ m \in Results => m.tx \in (lost \cup Unsent)'
  <1>1. m \in Results => m.kind = "result" /\ m.tx \in Txs
    BY ResultTypes
  <1>2. posted \in Seq(Results \cup {Poll, ExtensionError}) /\ lost \subseteq Txs
    BY DEF TypeOK
  <1>3. lost \subseteq lost' /\ lost' \subseteq Txs
    BY <1>2 DEF Post
  <1>4. CASE host = "dead"
    <2>1. posted' = posted /\ lost' = lost \cup {t \in Txs : m.kind = "result" /\ m.tx = t}
      BY <1>4 DEF Post
    <2> QED
      BY <1>1, <1>2, <1>3, <2>1 DEF Reported, Unsent
  <1>5. CASE host # "dead"
    <2>1. posted' = Append(posted, m)
      BY <1>5 DEF Post
    <2>2. /\ posted' \in Seq(Results \cup {Poll, ExtensionError})
          /\ Len(posted') = Len(posted) + 1 /\ Len(posted) \in Nat
          /\ \A i \in 1 .. Len(posted) : posted'[i] = posted[i]
          /\ posted'[Len(posted) + 1] = m
      BY <1>2, <2>1, AppendProperties, LenProperties
    <2>3. Reported' \subseteq Reported \cup {m}
      BY <2>2 DEF Reported
    <2>4. Unsent \subseteq Unsent'
      BY <2>2 DEF Unsent
    <2>5. m \in Results => m.tx \in Unsent'
      BY <1>1, <2>2 DEF Unsent
    <2> QED
      BY <1>3, <2>2, <2>3, <2>4, <2>5
  <1> QED
    BY <1>4, <1>5

LEMMA InitEstablishes == Init => IInv
  <1> SUFFICES ASSUME Init PROVE IInv
    OBVIOUS
  <1> USE BrowserAssumption, NoneAssumption DEF Init
  <1>1. /\ pending = <<>> /\ posted = <<>> /\ Len(pending) = 0 /\ Len(posted) = 0
        /\ pending \in Seq(Commands) /\ posted \in Seq(Results \cup {Poll, ExtensionError})
    BY EmptySeq
  <1>2. TypeOK
    <2>1. running \in BOOLEAN
      BY Zenon
    <2> QED
      BY <1>1, <2>1 DEF TypeOK
  <1>3. Control
    BY <1>2 DEF Control, ServerOK, BoundOK, HandlerOK
  <1>4. Reported = {} /\ \A t \in Txs : Spent(t)
    BY <1>1 DEF Reported, Spent, Queued, Taken, Running
  <1>5. IssuedOK /\ TokenOK /\ RestoreOK /\ RecordKept
    BY <1>1, <1>4 DEF IssuedOK, TokenOK, RestoreOK, RecordKept
  <1>6. KnownOK /\ StillKnown /\ OutcomeOK /\ AuditFaithful /\ OutcomeAccounted
    BY <1>4 DEF KnownOK, StillKnown, OutcomeOK, AuditFaithful, OutcomeAccounted
  <1> QED
    BY <1>3, <1>5, <1>6 DEF IInv, Data

-----------------------------------------------------------------------------
(* Control: types, and what each program counter has in its hands. *)

LEMMA OwnerControl ==
  ASSUME Control, Owner \/ Stopping
  PROVE  Control'
  <1>0. Start => running' \in BOOLEAN
    BY Zenon DEF Start
  <1> USE BrowserAssumption, NoneAssumption
      DEF Control, bridge, memory, extension, counters, history
  <1> USE DEF TypeOK, ServerOK, BoundOK, HandlerOK
  <1>1. CASE Start
    <2>1. starts' \in 0 .. MaxOwner /\ starts' + restores' <= MaxOwner
      BY <1>1 DEF Start
    <2> QED
      BY <1>1, <1>0, <2>1 DEF Start
  <1>2. CASE QueueRestoreAll
    <2>1. /\ restores' \in 0 .. MaxOwner /\ starts' + restores' <= MaxOwner
          /\ restores' > 0 /\ restoring' \subseteq Txs
      BY <1>2 DEF QueueRestoreAll
    <2> QED
      BY <1>2, <2>1 DEF QueueRestoreAll
  <1>3. CASE Stop
    <2>1. running' \in BOOLEAN /\ app' \in {"wake", "stopped"}
      BY <1>3, Zenon DEF Stop
    <2> QED
      BY <1>3, <2>1 DEF Stop
  <1>4. CASE Stopping
    BY <1>4 DEF Stopping, StopWake, StopJoin
  <1>5. ASSUME NEW t \in Txs, BlockDiscard(t) PROVE Control'
    BY <1>5 DEF BlockDiscard, Final
  <1>6. ASSUME NEW t \in Txs, PersistPlanned(t) PROVE Control'
    BY <1>6 DEF PersistPlanned
  <1>7. ASSUME NEW t \in Txs, QueueRestore(t) PROVE Control'
    <2>1. Restore(t, restores) \in Commands
      BY <1>7, Made DEF QueueRestore
    <2>2. pending' \in Seq(Commands)
      BY <1>7, <2>1, AppendProperties DEF QueueRestore
    <2> QED
      BY <1>7, <2>2 DEF QueueRestore
  <1>8. ASSUME NEW t \in Txs, NEW tab \in Tabs, QueueDiscard(t, tab) PROVE Control'
    <2>1. pending' \in Seq(Commands)
      BY <1>8, Made, AppendProperties DEF QueueDiscard
    <2> QED
      BY <1>8, <2>1 DEF QueueDiscard
  <1> QED
    BY <1>1, <1>2, <1>3, <1>4, <1>5, <1>6, <1>7, <1>8 DEF Owner

LEMMA ServerControl ==
  ASSUME Control, Server
  PROVE  Control'
  <1> USE DEF Control, bridge, memory, extension, counters, history
  <1> USE DEF TypeOK, ServerOK, BoundOK, HandlerOK
  <1>1. CASE ServerTest
    BY <1>1 DEF ServerTest
  <1>2. CASE ServerCreate
    <2>1. running' \in BOOLEAN
      BY <1>2, Zenon DEF ServerCreate
    <2> QED
      BY <1>2, <2>1 DEF ServerCreate
  <1>3. CASE ServerDrop
    BY <1>3 DEF ServerDrop
  <1>4. CASE ServerPoll
    <2>1. pending # <<>> => Head(pending) \in Commands /\ Tail(pending) \in Seq(Commands)
      BY HeadTailProperties
    <2> QED
      BY <1>4, <2>1 DEF ServerPoll
  <1>5. CASE ServerResult
    <2>1. handling \in Results
      BY <1>5 DEF ServerResult, Poll, ExtensionError
    <2> QED
      BY <1>5, <2>1 DEF ServerResult
  <1>6. CASE ServerOther
    BY <1>6 DEF ServerOther
  <1>7. CASE ServerPersist
    <2>1. handling.tx \in Txs /\ handling.status \in Final
      BY <1>7, ResultTypes DEF ServerPersist
    <2> QED
      BY <1>7, <2>1 DEF ServerPersist
  <1>8. CASE ServerReply
    <2>1. handling \in Commands \cup {Poll}
      BY <1>8 DEF ServerReply
    <2>2. CASE host = "waiting" /\ handling # Poll
      <3>1. /\ handling.kind \in {"discard", "restore"} /\ handling.tx \in Txs
            /\ handling.kind = "discard" => handling.tab \in Tabs
        BY <2>1, <2>2, CommandTypes
      <3>2. /\ handlers' = handlers \cup {Begun(handling)}
            /\ Begun(handling).command = handling
            /\ \/ /\ handling.kind = "discard" /\ Begun(handling).step = "check"
                  /\ Begun(handling).tab = handling.tab
               \/ /\ handling.kind = "restore" /\ Begun(handling).step = "find"
                  /\ Begun(handling).tab = None
        BY <1>8, <2>2, <3>1 DEF ServerReply, Begun, Handler
      <3>3. \A h \in handlers : h.command.tx \in Txs
        BY CommandTypes
      <3>4. overlapped' \subseteq Txs
        BY <1>8, <2>2, <3>3 DEF ServerReply
      <3> QED
        BY <1>8, <2>1, <2>2, <3>1, <3>2, <3>4 DEF ServerReply
    <2>3. CASE ~(host = "waiting" /\ handling # Poll)
      BY <1>8, <2>1, <2>3 DEF ServerReply
    <2> QED
      BY <2>2, <2>3
  <1> QED
    BY <1>1, <1>2, <1>3, <1>4, <1>5, <1>6, <1>7, <1>8 DEF Server

LEMMA ExtensionControl ==
  ASSUME Control, Extension
  PROVE  Control'
  <1> USE DEF Control, TypeOK, ServerOK, BoundOK, HandlerOK
  <1> PICK h \in handlers :
        \/ HandlerThrows(h) \/ DiscardRefused(h) \/ DiscardCheck(h) \/ DiscardStore(h)
        \/ DiscardTab(h) \/ RestoreFind(h) \/ RestoreReload(h) \/ RestoreRemove(h)
    BY DEF Extension
  <1>1. h.command \in Commands /\ h.command.tx \in Txs /\ h.tab \in Tabs \cup {None}
    BY CommandTypes
  <1>2. /\ UNCHANGED <<app, running, server, handling, pending, active, planning, restoring,
                       journal, host, starts, restores, faults, issued, overlapped>>
        /\ discards' \in [Txs -> Nat] /\ stored' \in [Txs -> Tabs \cup {None}]
        /\ tabs' \in [Tabs -> {"live", "closed"} \cup Txs] /\ reloaded' \subseteq Txs
    <2>1. UNCHANGED <<app, running, server, handling, pending, active, planning, restoring,
                      journal, host, starts, restores, faults, issued, overlapped>>
      BY DEF HandlerThrows, DiscardRefused, DiscardCheck, DiscardStore, DiscardTab, RestoreFind,
         RestoreReload, RestoreRemove, NotHandlers, bridge, memory, counters, history
    <2>2. CASE DiscardStore(h)
      BY <2>1, <1>1, <2>2 DEF DiscardStore, At, history
    <2>3. CASE DiscardTab(h)
      BY <2>1, <1>1, <2>3 DEF DiscardTab, At
    <2>4. CASE RestoreReload(h)
      BY <2>1, <1>1, <2>4 DEF RestoreReload, At
    <2>5. CASE RestoreRemove(h)
      BY <2>1, <1>1, <2>5 DEF RestoreRemove, history
    <2>6. CASE HandlerThrows(h) \/ DiscardRefused(h) \/ DiscardCheck(h) \/ RestoreFind(h)
      BY <2>1, <2>6 DEF HandlerThrows, DiscardRefused, DiscardCheck, RestoreFind, history
    <2> QED
      BY <2>1, <2>2, <2>3, <2>4, <2>5, <2>6
  <1>3. /\ posted' \in Seq(Results \cup {Poll, ExtensionError})
        /\ lost' \subseteq Txs
    BY <1>1, <1>2, Made, PostEffect DEF HandlerThrows, DiscardRefused, DiscardCheck, DiscardStore, DiscardTab,
       RestoreFind, RestoreReload, RestoreRemove, Final
  <1>4. \A g \in handlers' :
          /\ g.command \in Commands
          /\ g.tab \in Tabs \cup {None} /\ (g.step # "find" => g.tab \in Tabs)
          /\ \/ g.command.kind = "discard" /\ g.step \in {"check", "store", "discard"}
                /\ g.tab = g.command.tab
             \/ g.command.kind = "restore" /\ g.step \in {"find", "reload", "remove"}
    <2>1. CASE HandlerThrows(h) \/ DiscardRefused(h) \/ DiscardTab(h) \/ RestoreRemove(h)
      BY <2>1 DEF HandlerThrows, DiscardRefused, DiscardTab, RestoreRemove, Finish
    <2>2. CASE DiscardCheck(h) \/ DiscardStore(h) \/ RestoreReload(h)
      BY <1>1, <2>2 DEF DiscardCheck, DiscardStore, RestoreReload, Goto, At, Handler
    <2>3. CASE RestoreFind(h)
      BY <1>1, <2>3 DEF RestoreFind, At, Handler, Finish
    <2> QED
      BY <2>1, <2>2, <2>3
  <1> QED
    BY <1>2, <1>3, <1>4

LEMMA EnvironmentControl ==
  ASSUME Control, HostRelay \/ Connect \/ PostPoll \/ Environment
  PROVE  Control'
  <1> USE BrowserAssumption DEF Control, bridge, memory, extension, counters, history
  <1> USE DEF TypeOK, ServerOK, BoundOK, HandlerOK
  <1>1. Unsent \subseteq Txs /\ <<>> \in Seq(Results \cup {Poll, ExtensionError})
        /\ <<>> \in Seq(Commands)
    BY EmptySeq DEF Unsent
  <1>2. CASE HostRelay
    <2>1. /\ Head(posted) \in Results \cup {Poll, ExtensionError}
          /\ Tail(posted) \in Seq(Results \cup {Poll, ExtensionError})
      BY <1>2, HeadTailProperties DEF HostRelay
    <2> QED
      BY <1>2, <2>1 DEF HostRelay
  <1>3. CASE Connect
    BY <1>3 DEF Connect
  <1>4. CASE PostPoll
    <2>1. posted' \in Seq(Results \cup {Poll, ExtensionError})
      BY <1>4, AppendProperties DEF PostPoll
    <2> QED
      BY <1>4, <2>1 DEF PostPoll
  <1>5. CASE HostDies
    BY <1>1, <1>5 DEF HostDies
  <1>6. CASE BrowserRestarts
    BY <1>1, <1>6 DEF BrowserRestarts
  <1>7. CASE AppEnds
    <2>1. running' \in BOOLEAN
      BY <1>7, Zenon DEF AppEnds
    <2> QED
      BY <1>1, <1>7, <2>1 DEF AppEnds
  <1>8. ASSUME NEW tab \in Tabs, UserOpens(tab) \/ UserCloses(tab)
        PROVE  Control'
    <2>1. tabs' \in [Tabs -> {"live", "closed"} \cup Txs]
      BY <1>8 DEF UserOpens, UserCloses
    <2> QED
      BY <1>8, <2>1 DEF UserOpens, UserCloses, NotHandlers
  <1> QED
    BY <1>2, <1>3, <1>4, <1>5, <1>6, <1>7, <1>8 DEF Environment

LEMMA ControlStep == Control /\ [Next]_vars => Control'
  <1> SUFFICES ASSUME Control, [Next]_vars PROVE Control'
    OBVIOUS
  <1>1. CASE UNCHANGED vars
    BY <1>1 DEF vars, bridge, memory, extension, counters, history,
       Control, TypeOK, ServerOK, BoundOK, HandlerOK
  <1> QED
    BY <1>1, OwnerControl, ServerControl, ExtensionControl, EnvironmentControl DEF Next

-----------------------------------------------------------------------------
(* The steps that move no command and touch no tab: messages go on to where  *)
(* they are counted as lost, or the life of the application goes on.         *)

LEMMA LessInFlight ==
  ASSUME IInv,
         UNCHANGED <<pending, active, journal, handlers, stored, tabs, issued,
                     discards, reloaded, overlapped>>,
         handling' \in Commands => handling' = handling,
         Reported' \subseteq Reported,
         lost \subseteq lost',
         restoring' \subseteq active \cup restoring,
         \A t \in Txs : Carried(t) => Carried(t)'
  PROVE  Data'
  <1>1. \A t \in Txs : Spent(t) => Spent(t)'
    BY DEF Spent, Queued, Taken, Running
  <1>2. \A t \in Txs : Queued(t)' = Queued(t) /\ (Taken(t)' => Taken(t))
    BY DEF Queued, Taken
  <1>3. \A c \in Commands \cup Results : c.tx \in Txs
    BY CommandTypes, ResultTypes
  <1>4. \A r \in Reported : r.tx \in Txs
    BY ReportedTypes
  <1>5. \A h \in handlers : h.command.tx \in Txs
    BY <1>3 DEF IInv, Control, TypeOK
  <1>6. IssuedOK'
    BY DEF IInv, Data, IssuedOK
  <1>7. TokenOK'
    BY <1>1, <1>2, <1>3, <1>5 DEF IInv, Data, TokenOK
  <1>8. RestoreOK' /\ RecordKept'
    BY DEF IInv, Data, RestoreOK, RecordKept
  <1>9. KnownOK' /\ StillKnown'
    <2>1. \A t \in Txs : ~Spent(t)' => ~Spent(t)
      BY <1>1
    <2> QED
      BY <1>1, <1>4, <2>1 DEF IInv, Data, KnownOK, StillKnown
  <1>10. OutcomeOK' /\ AuditFaithful'
    BY <1>1, <1>4 DEF IInv, Data, OutcomeOK, AuditFaithful
  <1>11. OutcomeAccounted'
    BY DEF IInv, Data, OutcomeAccounted, Carried
  <1> QED
    BY <1>6, <1>7, <1>8, <1>9, <1>10, <1>11 DEF Data

LEMMA PassiveData ==
  ASSUME IInv,
         \/ Start \/ QueueRestoreAll \/ Stop \/ Stopping
         \/ ServerTest \/ ServerCreate \/ ServerDrop \/ ServerOther
  PROVE  Data'
  <1>1. /\ UNCHANGED <<pending, active, journal, posted, handlers, stored, tabs, issued,
                       discards, reloaded, overlapped>>
        /\ restoring' \subseteq active \cup restoring
    BY DEF Start, QueueRestoreAll, Stop, Stopping, StopWake, StopJoin, ServerTest, ServerCreate,
       ServerDrop, ServerOther, bridge, memory, extension, counters, history
  <1>2. \/ handling' = handling /\ lost' = lost
        \/ /\ handling' = None
           /\ lost' = lost \cup {t \in Txs : handling.kind = "result" /\ handling.tx = t}
        \/ handling = ExtensionError /\ handling' = Poll /\ lost' = lost
    BY DEF Start, QueueRestoreAll, Stop, Stopping, StopWake, StopJoin, ServerTest, ServerCreate,
       ServerDrop, ServerOther, bridge, memory, extension, counters, history
  <1>3. handling' \in Commands => handling' = handling
    BY <1>2, NoneAssumption, CommandTypes
  <1>4. Reported' \subseteq Reported
    BY <1>1, <1>2, NoneAssumption, ResultTypes DEF Reported
  <1>5. \A t \in Txs : Carried(t) => Carried(t)'
    BY <1>1, <1>2 DEF Carried, Unsent, ExtensionError
  <1>6. lost \subseteq lost'
    BY <1>2
  <1> QED
    BY <1>1, <1>3, <1>4, <1>5, <1>6, LessInFlight

LEMMA HostData ==
  ASSUME IInv, HostRelay \/ HostDies \/ Connect \/ PostPoll
  PROVE  Data'
  <1>1. UNCHANGED <<pending, active, restoring, journal, handlers, stored, tabs, issued,
                    discards, reloaded, overlapped>>
    BY DEF HostRelay, HostDies, Connect, PostPoll, bridge, memory, extension, history
  <1>2. posted \in Seq(Results \cup {Poll, ExtensionError}) /\ lost \subseteq lost'
    BY DEF IInv, Control, TypeOK, HostRelay, HostDies, Connect, PostPoll
  <1>3. /\ handling' \in Commands => handling' = handling
        /\ Reported' \subseteq Reported
        /\ \A t \in Txs : Carried(t) => Carried(t)'
    <2>1. CASE HostRelay
      <3>1. /\ posted' = Tail(posted) /\ Len(posted) \in Nat /\ Len(posted) >= 1
            /\ Len(posted') = Len(posted) - 1
            /\ \A i \in 1 .. Len(posted') : posted'[i] = posted[i + 1]
            /\ Head(posted) = posted[1] /\ Head(posted) \in Results \cup {Poll, ExtensionError}
        BY <1>2, <2>1, HeadTailProperties, LenProperties, EmptySeq DEF HostRelay
      <3>2. Head(posted) \in Results => Head(posted) \in Reported
        BY <3>1 DEF Reported
      <3>3. \A i \in 1 .. Len(posted') : i + 1 \in 1 .. Len(posted)
        BY <3>1
      <3>4. \A i \in 1 .. Len(posted) : i = 1 \/ (i - 1 \in 1 .. Len(posted') /\ posted'[i - 1] = posted[i])
        BY <3>1
      <3>5. \A t \in Unsent : t \in Unsent' \/ (Head(posted).kind = "result" /\ Head(posted).tx = t)
        BY <3>1, <3>4 DEF Unsent
      <3>6. CASE server = "connect"
        <4>1. handling = None /\ handling' = Head(posted) /\ lost' = lost
          BY <2>1, <3>6 DEF HostRelay, IInv, Control, ServerOK
        <4>2. Head(posted) \notin Commands /\ Head(posted) # None
          BY <3>1, CommandTypes, NoneAssumption
        <4> QED
          BY <3>1, <3>2, <3>3, <3>5, <4>1, <4>2 DEF Reported, Carried
      <3>7. CASE server # "connect"
        <4>1. /\ handling' = handling
              /\ lost' = lost \cup {t \in Txs : Head(posted).kind = "result" /\ Head(posted).tx = t}
          BY <2>1, <3>7 DEF HostRelay
        <4> QED
          BY <3>1, <3>3, <3>5, <4>1 DEF Reported, Carried
      <3> QED
        BY <3>6, <3>7
    <2>2. CASE HostDies
      <3>1. handling' = handling /\ posted' = <<>> /\ Len(posted') = 0 /\ lost' = lost \cup Unsent
        BY <2>2, EmptySeq DEF HostDies, bridge
      <3> QED
        BY <3>1 DEF Reported, Carried
    <2>3. CASE Connect
      BY <2>3 DEF Connect, bridge, Reported, Carried, Unsent
    <2>4. CASE PostPoll
      <3>1. /\ handling' = handling /\ lost' = lost
            /\ Len(posted) \in Nat /\ Len(posted') = Len(posted) + 1
            /\ \A i \in 1 .. Len(posted) : posted'[i] = posted[i]
            /\ posted'[Len(posted) + 1] = Poll
        BY <1>2, <2>4, AppendProperties, LenProperties DEF PostPoll, bridge
      <3>2. Unsent \subseteq Unsent'
        BY <3>1 DEF Unsent
      <3>3. Reported' \subseteq Reported
        BY <3>1, ResultTypes DEF Reported
      <3> QED
        BY <3>1, <3>2, <3>3 DEF Carried
    <2> QED
      BY <2>1, <2>2, <2>3, <2>4
  <1> QED
    BY <1>1, <1>2, <1>3, LessInFlight

-----------------------------------------------------------------------------
(* The calls of the application's thread. *)

LEMMA BlockDiscardData ==
  ASSUME IInv, NEW t \in Txs, BlockDiscard(t)
  PROVE  Data'
  <1>1. /\ issued[t] = "no" /\ issued' = [issued EXCEPT ![t] = "now"]
        /\ journal' = [journal EXCEPT ![t] = "BLOCKED"]
        /\ UNCHANGED <<handling, pending, active, restoring, posted, handlers, stored, tabs,
                       discards, reloaded, overlapped, lost>>
    BY DEF BlockDiscard, bridge, memory, extension, counters, history
  <1>2. /\ issued \in [Txs -> {"no", "now", "before"}] /\ discards[t] = 0
        /\ journal \in [Txs -> Final \cup {"NONE", "PLANNED"}]
    BY <1>1 DEF IInv, Control, TypeOK, Data, IssuedOK
  <1>3. Reported' = Reported /\ \A u \in Txs : Spent(u)' = Spent(u) /\ Carried(u)' = Carried(u)
    BY <1>1 DEF Reported, Spent, Queued, Taken, Running, Carried, Unsent
  <1>4. Spent(t)
    BY <1>1 DEF IInv, Data, IssuedOK, Spent, Queued, Taken, Running
  <1>5. IssuedOK'
    BY <1>1, <1>2, <1>3 DEF IInv, Data, IssuedOK
  <1>6. TokenOK' /\ RestoreOK' /\ RecordKept'
    BY <1>1, <1>3 DEF IInv, Data, TokenOK, RestoreOK, RecordKept, Queued, Taken
  <1>7. \A tab \in Tabs : tabs[tab] # t
    BY <1>2 DEF IInv, Data, RestoreOK
  <1>8. KnownOK' /\ StillKnown'
    BY <1>1, <1>2, <1>3, <1>4, <1>7, ReportedTypes DEF IInv, Data, KnownOK, StillKnown
  <1>9. OutcomeOK' /\ AuditFaithful'
    BY <1>1, <1>2, <1>3, <1>4, ReportedTypes DEF IInv, Data, OutcomeOK, AuditFaithful
  <1>10. OutcomeAccounted'
    BY <1>1, <1>2, <1>3 DEF IInv, Data, OutcomeAccounted, Carried
  <1> QED
    BY <1>5, <1>6, <1>8, <1>9, <1>10 DEF Data

LEMMA PersistPlannedData ==
  ASSUME IInv, NEW t \in Txs, PersistPlanned(t)
  PROVE  Data'
  <1>1. /\ journal' = [journal EXCEPT ![t] = "PLANNED"]
        /\ lost' = IF journal[t] = "NONE" THEN lost ELSE lost \cup {t}
        /\ UNCHANGED <<handling, pending, active, restoring, posted, handlers, stored, tabs,
                       issued, discards, reloaded, overlapped>>
    BY DEF PersistPlanned, bridge, memory, extension, counters, history
  <1>2. journal \in [Txs -> Final \cup {"NONE", "PLANNED"}] /\ "NONE" \notin Final
    BY DEF IInv, Control, TypeOK, Final
  <1>3. /\ Reported' = Reported
        /\ \A u \in Txs : Spent(u)' = Spent(u) /\ (Carried(u) => Carried(u)')
    BY <1>1 DEF Reported, Spent, Queued, Taken, Running, Carried, Unsent
  <1>4. IssuedOK'
    BY <1>1, <1>2, <1>3 DEF IInv, Data, IssuedOK
  <1>5. TokenOK' /\ RestoreOK' /\ RecordKept'
    BY <1>1, <1>3 DEF IInv, Data, TokenOK, RestoreOK, RecordKept, Queued, Taken
  <1>6. KnownOK' /\ StillKnown'
    BY <1>1, <1>3, ReportedTypes DEF IInv, Data, KnownOK, StillKnown
  <1>7. OutcomeOK' /\ AuditFaithful'
    BY <1>1, <1>2, <1>3, ReportedTypes DEF IInv, Data, OutcomeOK, AuditFaithful
  <1>8. OutcomeAccounted'
    <2> SUFFICES ASSUME NEW u \in Txs, discards[u] > 0
                 PROVE  journal'[u] \in Final \/ Carried(u)'
      BY <1>1 DEF OutcomeAccounted, Carried
    <2>1. journal[u] \in Final \/ Carried(u)
      BY DEF IInv, Data, OutcomeAccounted, Carried
    <2>2. CASE u = t /\ journal[t] # "NONE"
      BY <1>1, <2>2 DEF Carried
    <2> QED
      BY <1>1, <1>2, <1>3, <2>1, <2>2
  <1> QED
    BY <1>4, <1>5, <1>6, <1>7, <1>8 DEF Data

\* A queue that grows at its end by a command.
LEMMA AppendPending ==
  ASSUME IInv, NEW c \in Commands, pending' = Append(pending, c), UNCHANGED <<handling, handlers>>
  PROVE  /\ Len(pending) \in Nat /\ Len(pending') = Len(pending) + 1
         /\ \A i \in 1 .. Len(pending) : pending'[i] = pending[i] /\ pending[i] \in Commands
         /\ pending'[Len(pending) + 1] = c
         /\ \A t \in Txs : Queued(t)' <=> (Queued(t) \/ (c.kind = "discard" /\ c.tx = t))
         /\ \A t \in Txs : Spent(t)' <=> (Spent(t) /\ ~(c.kind = "discard" /\ c.tx = t))
  <1>1. /\ Len(pending) \in Nat /\ Len(pending') = Len(pending) + 1
        /\ \A i \in 1 .. Len(pending) : pending'[i] = pending[i] /\ pending[i] \in Commands
        /\ pending'[Len(pending) + 1] = c
    BY AppendProperties, LenProperties DEF IInv, Control, TypeOK
  <1>2. \A t \in Txs : Queued(t)' <=> (Queued(t) \/ (c.kind = "discard" /\ c.tx = t))
    BY <1>1 DEF Queued
  <1> QED
    BY <1>1, <1>2 DEF Spent, Taken, Running

LEMMA QueueDiscardData ==
  ASSUME IInv, NEW t \in Txs, NEW tab \in Tabs, QueueDiscard(t, tab)
  PROVE  Data'
  <1> DEFINE c == Discard(t, tab)
  <1>1. /\ issued[t] = "no" /\ issued' = [issued EXCEPT ![t] = "now"]
        /\ pending' = Append(pending, c) /\ active' = active \cup {t}
        /\ UNCHANGED <<handling, restoring, journal, posted, handlers, stored, tabs,
                       discards, reloaded, overlapped, lost>>
    BY DEF QueueDiscard, bridge, memory, extension, counters, history
  <1>2. c \in Commands /\ c.kind = "discard" /\ c.tx = t
    BY Made DEF Discard
  <1> HIDE DEF c
  <1>3. /\ Len(pending) \in Nat /\ Len(pending') = Len(pending) + 1
        /\ \A i \in 1 .. Len(pending) : pending'[i] = pending[i] /\ pending[i] \in Commands
        /\ pending'[Len(pending) + 1] = c
        /\ \A u \in Txs : Queued(u)' <=> (Queued(u) \/ u = t)
        /\ \A u \in Txs : Spent(u)' <=> (Spent(u) /\ u # t)
    BY <1>1, <1>2, AppendPending
  <1>4. /\ issued \in [Txs -> {"no", "now", "before"}] /\ discards[t] = 0
        /\ journal[t] # "BLOCKED" /\ discards \in [Txs -> Nat]
        /\ \A h \in handlers : h.command.tx \in Txs
    BY <1>1, CommandTypes DEF IInv, Control, TypeOK, Data, IssuedOK
  <1>5. /\ Reported' = Reported /\ \A r \in Reported : r.tx \in Txs /\ r.tx # t
        /\ \A u \in Txs : Carried(u)' = Carried(u) /\ Taken(u)' = Taken(u)
    BY <1>1, ResultTypes DEF Reported, Carried, Unsent, Taken, IInv, Data, IssuedOK
  <1>6. /\ \A i \in 1 .. Len(pending) : pending[i].tx # t
        /\ handling \in Commands => handling.tx # t /\ handling.tx \in Txs
        /\ \A h \in handlers : h.command.tx # t
    BY <1>1, CommandTypes DEF IInv, Data, IssuedOK
  <1>7. IssuedOK'
    BY <1>1, <1>2, <1>3, <1>4, <1>5 DEF IInv, Data, IssuedOK
  <1>8. TokenOK'
    <2>1. \A i, j \in 1 .. Len(pending') :
            pending'[i].kind = "discard" /\ pending'[j].tx = pending'[i].tx => i <= j
      BY <1>2, <1>3, <1>6 DEF IInv, Data, TokenOK
    <2> QED
      BY <1>1, <1>3, <1>4, <1>5, <1>6, <2>1 DEF IInv, Data, TokenOK
  <1>9. RestoreOK' /\ RecordKept'
    BY <1>1 DEF IInv, Data, RestoreOK, RecordKept
  <1>10. KnownOK' /\ StillKnown'
    BY <1>1, <1>3, <1>4, <1>5 DEF IInv, Data, KnownOK, StillKnown
  <1>11. OutcomeOK' /\ AuditFaithful' /\ OutcomeAccounted'
    BY <1>1, <1>3, <1>4, <1>5 DEF IInv, Data, OutcomeOK, AuditFaithful, OutcomeAccounted, Carried
  <1> QED
    BY <1>7, <1>8, <1>9, <1>10, <1>11 DEF Data

LEMMA QueueRestoreData ==
  ASSUME IInv, NEW t \in Txs, QueueRestore(t)
  PROVE  Data'
  <1>1. /\ t \in restoring /\ restoring' \subseteq restoring
        /\ UNCHANGED <<handling, active, issued, journal, posted, handlers, stored, tabs,
                       discards, reloaded, overlapped, lost>>
    BY DEF QueueRestore, bridge, memory, extension, counters, history
  <1>2. /\ Reported' = Reported
        /\ \A u \in Txs : Carried(u)' = Carried(u) /\ Taken(u)' = Taken(u)
    BY <1>1 DEF Reported, Carried, Unsent, Taken
  <1>3. CASE t \notin active
    BY <1>1, <1>2, <1>3, LessInFlight DEF QueueRestore
  <1>4. CASE t \in active
    <2> DEFINE c == Restore(t, restores)
    <2>1. pending' = Append(pending, c)
      BY <1>4 DEF QueueRestore
    <2>2. restores \in 1 .. MaxOwner
      BY <1>1, BrowserAssumption DEF IInv, Control, TypeOK, BoundOK
    <2>3. c \in Commands /\ c.kind = "restore" /\ c.tx = t
      BY <2>2, Made DEF Restore
    <2> HIDE DEF c
    <2>4. /\ Len(pending) \in Nat /\ Len(pending') = Len(pending) + 1
          /\ \A i \in 1 .. Len(pending) : pending'[i] = pending[i] /\ pending[i] \in Commands
          /\ pending'[Len(pending) + 1] = c
          /\ \A u \in Txs : Queued(u)' <=> Queued(u)
          /\ \A u \in Txs : Spent(u)' <=> Spent(u)
      BY <1>1, <2>1, <2>3, AppendPending
    <2>5. /\ \A h \in handlers : h.command.tx \in Txs
          /\ handling \in Commands => handling.tx \in Txs
          /\ \A r \in Reported : r.tx \in Txs
          /\ issued[t] = "now"
      BY <1>4, CommandTypes, ResultTypes DEF IInv, Control, TypeOK, Reported, Data, IssuedOK
    <2>6. IssuedOK'
      BY <1>1, <1>2, <2>3, <2>4, <2>5 DEF IInv, Data, IssuedOK
    <2>7. TokenOK'
      <3>1. \A i, j \in 1 .. Len(pending') :
              pending'[i].kind = "discard" /\ pending'[j].tx = pending'[i].tx => i <= j
        <4>1. \A i \in 1 .. Len(pending') : i \in 1 .. Len(pending) \/ i = Len(pending) + 1
          BY <2>4
        <4>2. \A i, j \in 1 .. Len(pending) :
                pending[i].kind = "discard" /\ pending[j].tx = pending[i].tx => i <= j
          BY DEF IInv, Data, TokenOK
        <4> QED
          BY <2>3, <2>4, <4>1, <4>2
      <3> QED
        BY <1>1, <1>2, <2>4, <2>5, <3>1 DEF IInv, Data, TokenOK
    <2>8. RestoreOK' /\ RecordKept'
      BY <1>1 DEF IInv, Data, RestoreOK, RecordKept
    <2>9. KnownOK' /\ StillKnown'
      BY <1>1, <1>2, <2>4, <2>5 DEF IInv, Data, KnownOK, StillKnown
    <2>10. OutcomeOK' /\ AuditFaithful' /\ OutcomeAccounted'
      BY <1>1, <1>2, <2>4, <2>5 DEF IInv, Data, OutcomeOK, AuditFaithful, OutcomeAccounted, Carried
    <2> QED
      BY <2>6, <2>7, <2>8, <2>9, <2>10 DEF Data
  <1> QED
    BY <1>3, <1>4

-----------------------------------------------------------------------------
(* The server. *)

LEMMA ServerPollData ==
  ASSUME IInv, ServerPoll
  PROVE  Data'
  <1>1. UNCHANGED <<active, restoring, journal, posted, handlers, stored, tabs, issued,
                    discards, reloaded, overlapped, lost>>
    BY DEF ServerPoll, extension, history
  <1>2. CASE pending = <<>>
    BY <1>1, <1>2, LessInFlight DEF ServerPoll, Reported, Carried, Unsent
  <1>3. CASE pending # <<>>
    <2> PICK c : c = Head(pending)
      OBVIOUS
    <2>1. /\ handling = Poll /\ handling' = c /\ pending' = Tail(pending)
      BY <1>3 DEF ServerPoll
    <2>2. /\ Len(pending) \in Nat /\ Len(pending) >= 1 /\ Len(pending') = Len(pending) - 1
          /\ \A i \in 1 .. Len(pending') :
               pending'[i] = pending[i + 1] /\ i + 1 \in 1 .. Len(pending)
          /\ c = pending[1] /\ c \in Commands
      BY <1>3, <2>1, HeadTailProperties, LenProperties, EmptySeq DEF IInv, Control, TypeOK
    <2>3. c.tx \in Txs /\ c \notin Results /\ c # None
      BY <2>2, CommandTypes, NoneAssumption
    <2>4. \A i, j \in 1 .. Len(pending) :
            pending[i].kind = "discard" /\ pending[j].tx = pending[i].tx => i <= j
      BY DEF IInv, Data, TokenOK
    <2>5. ~Queued(c.tx)'
      <3>1. ASSUME NEW i \in 1 .. Len(pending'),
                   pending'[i].kind = "discard", pending'[i].tx = c.tx
            PROVE  FALSE
        <4>1. i + 1 <= 1
          BY <2>2, <2>4, <3>1
        <4> QED
          BY <2>2, <4>1
      <3> QED
        BY <3>1 DEF Queued
    <2>6. \A u \in Txs : /\ Queued(u)' => Queued(u)
                         /\ Taken(u)' => Queued(u) /\ u = c.tx
                         /\ Running(u)' = Running(u) /\ (Spent(u) => Spent(u)')
      BY <1>1, <2>1, <2>2 DEF Queued, Taken, Running, Spent
    <2>7. Reported' \subseteq Reported /\ \A u \in Txs : Carried(u) => Carried(u)'
      BY <1>1, <2>1, <2>3, NoneAssumption DEF Reported, Carried, Unsent, Poll
    <2>8. /\ \A h \in handlers : h.command.tx \in Txs
          /\ issued[c.tx] # "no"
      BY <2>2, CommandTypes DEF IInv, Control, TypeOK, Data, IssuedOK
    <2>9. IssuedOK'
      BY <1>1, <2>1, <2>2, <2>7, <2>8 DEF IInv, Data, IssuedOK
    <2>10. TokenOK'
      <3>1. \A i, j \in 1 .. Len(pending') :
              pending'[i].kind = "discard" /\ pending'[j].tx = pending'[i].tx => i <= j
        BY <2>2, <2>4
      <3> QED
        BY <1>1, <2>1, <2>5, <2>6, <2>8, <3>1 DEF IInv, Data, TokenOK
    <2>11. RestoreOK' /\ RecordKept'
      BY <1>1 DEF IInv, Data, RestoreOK, RecordKept
    <2>12. KnownOK' /\ StillKnown'
      BY <1>1, <2>6, <2>7, ReportedTypes DEF IInv, Data, KnownOK, StillKnown
    <2>13. OutcomeOK' /\ AuditFaithful' /\ OutcomeAccounted'
      BY <1>1, <2>6, <2>7, ReportedTypes
         DEF IInv, Data, OutcomeOK, AuditFaithful, OutcomeAccounted, Carried
    <2> QED
      BY <2>9, <2>10, <2>11, <2>12, <2>13 DEF Data
  <1> QED
    BY <1>2, <1>3

LEMMA ServerResultData ==
  ASSUME IInv, ServerResult
  PROVE  Data'
  <1> DEFINE t == handling.tx
  <1>1. /\ active' = IF handling.status = "EXECUTED" THEN active ELSE active \ {t}
        /\ UNCHANGED <<handling, pending, restoring, journal, posted, handlers, stored, tabs,
                       issued, discards, reloaded, overlapped, lost>>
    BY DEF ServerResult, extension, history
  <1>2. handling \in Reported
    BY DEF ServerResult, IInv, Control, ServerOK, Poll, ExtensionError, Reported
  <1> HIDE DEF t
  <1>3. /\ Reported' = Reported
        /\ \A u \in Txs : /\ Carried(u)' = Carried(u) /\ Queued(u)' = Queued(u)
                          /\ Taken(u)' = Taken(u) /\ Spent(u)' = Spent(u)
    BY <1>1 DEF Reported, Carried, Unsent, Queued, Taken, Running, Spent
  <1>4. IssuedOK'
    BY <1>1, <1>3 DEF IInv, Data, IssuedOK
  <1>5. /\ \A h \in handlers : h.command.tx \in Txs
        /\ handling \in Commands => handling.tx \in Txs
    BY CommandTypes DEF IInv, Control, TypeOK
  <1>6. TokenOK' /\ RestoreOK' /\ RecordKept'
    BY <1>1, <1>3, <1>5 DEF IInv, Data, TokenOK, RestoreOK, RecordKept
  <1>7. t \notin active' /\ t \in active /\ t \notin overlapped =>
          Spent(t) /\ \A tab \in Tabs : tabs[tab] # t
    BY <1>1, <1>2 DEF IInv, Data, KnownOK, t
  <1>8. KnownOK' /\ StillKnown'
    BY <1>1, <1>3, <1>7, ReportedTypes DEF IInv, Data, KnownOK, StillKnown
  <1>9. OutcomeOK' /\ AuditFaithful' /\ OutcomeAccounted'
    BY <1>1, <1>3, ReportedTypes
       DEF IInv, Data, OutcomeOK, AuditFaithful, OutcomeAccounted, Carried
  <1> QED
    BY <1>4, <1>6, <1>8, <1>9 DEF Data

LEMMA ServerPersistData ==
  ASSUME IInv, ServerPersist
  PROVE  Data'
  <1> DEFINE r == handling
  <1>1. /\ journal' = [journal EXCEPT ![r.tx] = r.status] /\ handling' = Poll
        /\ UNCHANGED <<pending, active, restoring, posted, handlers, stored, tabs, issued,
                       discards, reloaded, overlapped, lost>>
    BY DEF ServerPersist, memory, extension, history
  <1>2. r \in Reported
    BY DEF ServerPersist, IInv, Control, ServerOK, Reported
  <1>3. /\ r \in Results /\ r.tx \in Txs /\ r.status \in Final
        /\ journal \in [Txs -> Final \cup {"NONE", "PLANNED"}]
    BY <1>2, ReportedTypes DEF IInv, Control, TypeOK
  <1> HIDE DEF r
  <1>4. Reported' \subseteq Reported
    BY <1>1, ResultTypes DEF Reported
  <1>5. \A u \in Txs : /\ Queued(u)' = Queued(u) /\ (Taken(u)' => Taken(u)) /\ Running(u)' = Running(u)
                       /\ Spent(u)' = Spent(u)
    BY <1>1, <1>3, CommandTypes DEF Queued, Taken, Running, Spent, r
  <1>6. /\ \A h \in handlers : h.command.tx \in Txs
        /\ handling' \notin Commands
    BY <1>1, CommandTypes DEF IInv, Control, TypeOK
  <1>7. IssuedOK'
    BY <1>1, <1>2, <1>3, <1>4, <1>6 DEF IInv, Data, IssuedOK
  <1>8. TokenOK' /\ RestoreOK' /\ RecordKept'
    BY <1>1, <1>5, <1>6 DEF IInv, Data, TokenOK, RestoreOK, RecordKept
  <1>9. KnownOK' /\ StillKnown'
    BY <1>1, <1>4, <1>5, ReportedTypes DEF IInv, Data, KnownOK, StillKnown
  <1>10. OutcomeOK' /\ AuditFaithful'
    BY <1>1, <1>2, <1>3, <1>4, <1>5, ReportedTypes DEF IInv, Data, OutcomeOK, AuditFaithful
  <1>11. OutcomeAccounted'
    <2> SUFFICES ASSUME NEW u \in Txs, discards[u] > 0
                 PROVE  journal'[u] \in Final \/ Carried(u)'
      BY <1>1 DEF OutcomeAccounted, Carried
    <2>1. journal[u] \in Final \/ Carried(u)
      BY DEF IInv, Data, OutcomeAccounted, Carried
    <2>2. u = r.tx \/ (Carried(u) => Carried(u)')
      BY <1>1 DEF Carried, Unsent, r
    <2> QED
      BY <1>1, <1>3, <2>1, <2>2
  <1> QED
    BY <1>7, <1>8, <1>9, <1>10, <1>11 DEF Data

LEMMA ServerReplyData ==
  ASSUME IInv, ServerReply
  PROVE  Data'
  <1>1. /\ handling' = None
        /\ UNCHANGED <<pending, active, restoring, journal, posted, stored, tabs, issued,
                       discards, reloaded>>
    BY DEF ServerReply, memory, counters
  <1>2. handling \in Commands \cup {Poll}
    BY DEF ServerReply, IInv, Control, ServerOK
  <1>3. Reported' \subseteq Reported
    BY <1>1, NoneAssumption DEF Reported
  <1>4. \A u \in Txs : Carried(u) => u \in lost \cup Unsent
    BY <1>2, CommandTypes DEF Carried, Poll
  <1>5. CASE ~(host = "waiting" /\ handling # Poll)
    <2>1. UNCHANGED <<handlers, overlapped>> /\ lost \subseteq lost'
      BY <1>5 DEF ServerReply
    <2>2. \A u \in Txs : Carried(u) => Carried(u)'
      BY <1>1, <1>4, <2>1 DEF Carried, Unsent
    <2> QED
      BY <1>1, <1>3, <2>1, <2>2, NoneAssumption, LessInFlight
  <1>6. CASE host = "waiting" /\ handling # Poll
    <2> DEFINE c == handling
               g == Begun(c)
    <2>1. c \in Commands /\ c.tx \in Txs /\ c.kind \in {"discard", "restore"}
      BY <1>2, <1>6, CommandTypes
    <2>2. g.command = c /\ g.step \in {"check", "find"}
      BY DEF Begun, Handler
    <2>3. /\ handlers' = handlers \cup {g} /\ lost' = lost
          /\ overlapped' = overlapped \cup
               {h.command.tx : h \in {f \in handlers :
                  f.command.kind # c.kind /\ f.command.tx = c.tx}}
      BY <1>6 DEF ServerReply
    <2> HIDE DEF c, g
    <2>4. /\ \A h \in handlers : h.command.tx \in Txs /\ ~Queued(h.command.tx) /\ ~Taken(h.command.tx)
          /\ ~Queued(c.tx) /\ issued[c.tx] # "no"
      BY <2>1, CommandTypes DEF IInv, Control, TypeOK, Data, TokenOK, IssuedOK, c
    <2>5. \A u \in Txs : /\ Queued(u)' = Queued(u) /\ ~Taken(u)'
                         /\ Taken(u) <=> (c.kind = "discard" /\ c.tx = u)
                         /\ Running(u)' <=> (Running(u) \/ (c.kind = "discard" /\ c.tx = u))
      BY <1>1, <2>1, <2>2, <2>3, NoneAssumption DEF Queued, Taken, Running, c
    <2>6. \A u \in Txs : Spent(u)' = Spent(u)
      BY <2>5 DEF Spent
    <2>7. IssuedOK'
      BY <1>1, <1>3, <2>2, <2>3, <2>4, NoneAssumption DEF IInv, Data, IssuedOK
    <2>8. TokenOK'
      <3>1. \A f, h \in handlers' :
              f.command.kind = "discard" /\ h.command.kind = "discard"
              /\ f.command.tx = h.command.tx => f = h
        BY <2>1, <2>2, <2>3, <2>4, <2>5 DEF IInv, Data, TokenOK
      <3>2. \A h \in handlers' : ~Queued(h.command.tx)' /\ ~Taken(h.command.tx)'
        BY <2>1, <2>2, <2>3, <2>4, <2>5
      <3> QED
        BY <1>1, <2>5, <2>6, <3>1, <3>2, NoneAssumption DEF IInv, Data, TokenOK
    <2>9. RestoreOK' /\ RecordKept'
      <3>1. \A f, h \in handlers' :
              f.command.kind # h.command.kind /\ f.command.tx = h.command.tx
              => f.command.tx \in overlapped'
        BY <2>2, <2>3 DEF IInv, Data, RestoreOK
      <3> QED
        BY <1>1, <2>2, <2>3, <3>1 DEF IInv, Data, RestoreOK, RecordKept
    <2>10. KnownOK' /\ StillKnown'
      BY <1>1, <1>3, <2>3, <2>6, ReportedTypes DEF IInv, Data, KnownOK, StillKnown
    <2>11. OutcomeOK' /\ AuditFaithful'
      BY <1>1, <1>3, <2>2, <2>3, <2>6, ReportedTypes DEF IInv, Data, OutcomeOK, AuditFaithful
    <2>12. OutcomeAccounted'
      BY <1>1, <1>4, <2>3 DEF IInv, Data, OutcomeAccounted, Carried, Unsent
    <2> QED
      BY <2>7, <2>8, <2>9, <2>10, <2>11, <2>12 DEF Data
  <1> QED
    BY <1>5, <1>6

-----------------------------------------------------------------------------
(* Deaths, and what the user does. *)

LEMMA AppEndsData ==
  ASSUME IInv, AppEnds
  PROVE  Data'
  <1>1. /\ handling' = None /\ pending' = <<>> /\ active' = {} /\ restoring' = {}
        /\ issued' = [t \in Txs |-> IF issued[t] = "no" THEN "no" ELSE "before"]
        /\ lost' = lost \cup {t \in Txs : issued[t] = "now"}
        /\ UNCHANGED <<journal, posted, handlers, stored, tabs, discards, reloaded, overlapped>>
    BY DEF AppEnds, extension, history
  <1>2. Len(pending') = 0
    BY <1>1, EmptySeq
  <1>3. /\ \A h \in handlers : h.command.tx \in Txs
        /\ handling' \notin Commands /\ issued \in [Txs -> {"no", "now", "before"}]
    BY <1>1, NoneAssumption, CommandTypes DEF IInv, Control, TypeOK
  <1>4. Reported' \subseteq Reported
    BY <1>1, NoneAssumption DEF Reported
  <1>5. \A u \in Txs : ~Queued(u)' /\ ~Taken(u)' /\ (Spent(u) => Spent(u)')
    BY <1>1, <1>2, <1>3 DEF Queued, Taken, Running, Spent
  <1>6. \A u \in Txs : (issued'[u] = "no" <=> issued[u] = "no") /\ issued'[u] # "now"
    BY <1>1
  <1>7. IssuedOK'
    BY <1>1, <1>2, <1>3, <1>4, <1>6, ReportedTypes DEF IInv, Data, IssuedOK
  <1>8. TokenOK'
    BY <1>1, <1>2, <1>3, <1>5 DEF IInv, Data, TokenOK
  <1>9. RestoreOK' /\ RecordKept'
    BY <1>1 DEF IInv, Data, RestoreOK, RecordKept
  <1>10. KnownOK' /\ StillKnown'
    BY <1>1, <1>4, <1>5, <1>6, ReportedTypes DEF IInv, Data, KnownOK, StillKnown
  <1>11. OutcomeOK' /\ AuditFaithful'
    BY <1>1, <1>4, <1>5, ReportedTypes DEF IInv, Data, OutcomeOK, AuditFaithful
  <1>12. OutcomeAccounted'
    <2> SUFFICES ASSUME NEW u \in Txs, discards[u] > 0 PROVE u \in lost'
      BY <1>1 DEF OutcomeAccounted
    <2>1. issued[u] \in {"now", "before"}
      BY <1>3 DEF IInv, Data, IssuedOK
    <2> QED
      BY <1>1, <2>1 DEF IInv, Data, IssuedOK
  <1> QED
    BY <1>7, <1>8, <1>9, <1>10, <1>11, <1>12 DEF Data

LEMMA UserData ==
  ASSUME IInv, NEW tab \in Tabs, UserOpens(tab) \/ UserCloses(tab)
  PROVE  Data'
  <1>1. /\ \E value \in {"live", "closed"} : tabs' = [tabs EXCEPT ![tab] = value]
        /\ UNCHANGED <<handling, pending, active, restoring, journal, posted, handlers, stored,
                       issued, discards, reloaded, overlapped, lost>>
    BY DEF UserOpens, UserCloses, NotHandlers, bridge, memory, history
  <1>2. \A other \in Tabs : tabs'[other] \in Txs => tabs[other] = tabs'[other]
    BY <1>1, BrowserAssumption DEF IInv, Control, TypeOK
  <1>3. /\ Reported' = Reported
        /\ \A u \in Txs : /\ Queued(u)' = Queued(u) /\ Taken(u)' = Taken(u)
                          /\ Spent(u)' = Spent(u) /\ Carried(u)' = Carried(u)
    BY <1>1 DEF Reported, Queued, Taken, Running, Spent, Carried, Unsent
  <1>4. /\ \A h \in handlers : h.command.tx \in Txs
        /\ handling \in Commands => handling.tx \in Txs
    BY CommandTypes DEF IInv, Control, TypeOK
  <1>5. IssuedOK' /\ TokenOK'
    BY <1>1, <1>3, <1>4 DEF IInv, Data, IssuedOK, TokenOK
  <1>6. RestoreOK' /\ RecordKept'
    BY <1>1, <1>2, <1>4 DEF IInv, Data, RestoreOK, RecordKept
  <1>7. KnownOK' /\ StillKnown'
    BY <1>1, <1>2, <1>3, ReportedTypes DEF IInv, Data, KnownOK, StillKnown
  <1>8. OutcomeOK' /\ AuditFaithful' /\ OutcomeAccounted'
    BY <1>1, <1>3, ReportedTypes
       DEF IInv, Data, OutcomeOK, AuditFaithful, OutcomeAccounted, Carried
  <1> QED
    BY <1>5, <1>6, <1>7, <1>8 DEF Data

LEMMA BrowserRestartsData ==
  ASSUME IInv, BrowserRestarts
  PROVE  Data'
  <1>1. /\ handlers' = {} /\ posted' = <<>> /\ tabs' = [tab \in Tabs |-> "live"]
        /\ lost' = lost \cup Unsent
        /\ UNCHANGED <<handling, pending, active, restoring, journal, stored, issued,
                       discards, reloaded, overlapped>>
    BY DEF BrowserRestarts, bridge, memory, history
  <1>2. Len(posted') = 0
    BY <1>1, EmptySeq
  <1>3. \A other \in Tabs : tabs'[other] \notin Txs
    BY <1>1, BrowserAssumption
  <1>4. /\ Reported' \subseteq Reported
        /\ \A u \in Txs : /\ Queued(u)' = Queued(u) /\ Taken(u)' = Taken(u) /\ ~Running(u)'
                          /\ (Spent(u) => Spent(u)') /\ (Carried(u) => Carried(u)')
    BY <1>1, <1>2 DEF Reported, Queued, Taken, Running, Spent, Carried
  <1>5. handling \in Commands => handling.tx \in Txs
    BY CommandTypes
  <1>6. IssuedOK' /\ TokenOK'
    BY <1>1, <1>4, <1>5 DEF IInv, Data, IssuedOK, TokenOK
  <1>7. RestoreOK' /\ RecordKept'
    BY <1>1, <1>3 DEF IInv, Data, RestoreOK, RecordKept
  <1>8. KnownOK' /\ StillKnown'
    BY <1>1, <1>3, <1>4, ReportedTypes DEF IInv, Data, KnownOK, StillKnown
  <1>9. OutcomeOK' /\ AuditFaithful' /\ OutcomeAccounted'
    BY <1>1, <1>4, ReportedTypes
       DEF IInv, Data, OutcomeOK, AuditFaithful, OutcomeAccounted, Carried
  <1> QED
    BY <1>6, <1>7, <1>8, <1>9 DEF Data

-----------------------------------------------------------------------------
(* The handlers of the extension. *)

\* A handler goes on as the one in next, or is over (next is empty).
Follows(h, next) ==
  /\ handlers' = (handlers \ {h}) \cup next
  /\ \A g \in next : g.command = h.command
  /\ \A f, g \in next : f = g

\* The commands stay where they are, a discard only ever ceases to be under way,
\* and the pairings of the handlers with each other and with the queue stay what
\* they were.
LEMMA HandlerFrame ==
  ASSUME IInv, NEW h \in handlers, NEW next,
         Follows(h, next),
         UNCHANGED <<pending, handling, overlapped>>
  PROVE  /\ h.command \in Commands /\ h.command.tx \in Txs
         /\ \A f \in handlers' : f.command.tx \in Txs /\ \E e \in handlers : e.command = f.command
         /\ \A u \in Txs : /\ Queued(u)' = Queued(u) /\ Taken(u)' = Taken(u)
                           /\ Spent(u) => Spent(u)'
                           /\ u # h.command.tx \/ next # {} => Spent(u)' = Spent(u)
         /\ h.command.kind = "discard" /\ next = {} => Spent(h.command.tx)'
         /\ \A f \in handlers' : ~Queued(f.command.tx)' /\ ~Taken(f.command.tx)'
         /\ \A f, g \in handlers' :
              f.command.kind = "discard" /\ g.command.kind = "discard"
              /\ f.command.tx = g.command.tx => f = g
         /\ \A f, g \in handlers' :
              f.command.kind # g.command.kind /\ f.command.tx = g.command.tx
              => f.command.tx \in overlapped'
         /\ h.command.kind = "discard" => discards[h.command.tx] = 0
         /\ h.command.kind = "restore" /\ h.command.tx \notin overlapped => Spent(h.command.tx)
  <1> USE DEF Follows
  <1>1. \A f \in handlers : f.command \in Commands /\ f.command.tx \in Txs
    BY CommandTypes DEF IInv, Control, TypeOK
  <1>2. \A f \in handlers' : \E e \in handlers : e.command = f.command /\ (f = e \/ (e = h /\ f \in next))
    OBVIOUS
  <1>3. \A u \in Txs : Queued(u)' = Queued(u) /\ Taken(u)' = Taken(u)
    BY DEF Queued, Taken
  <1>4. \A u \in Txs : /\ Running(u)' => Running(u)
                       /\ u # h.command.tx \/ next # {} => (Running(u) => Running(u)')
    BY DEF Running
  <1>5. /\ \A f \in handlers : ~Queued(f.command.tx) /\ ~Taken(f.command.tx)
        /\ \A f, g \in handlers :
             f.command.kind = "discard" /\ g.command.kind = "discard"
             /\ f.command.tx = g.command.tx => f = g
        /\ \A t \in Txs : discards[t] > 0 => discards[t] = 1 /\ Spent(t)
        /\ \A f, g \in handlers :
             f.command.kind # g.command.kind /\ f.command.tx = g.command.tx
             => f.command.tx \in overlapped
    BY DEF IInv, Data, TokenOK, RestoreOK
  <1>6. h.command.kind = "discard" /\ next = {} => ~Running(h.command.tx)'
    BY <1>5 DEF Running
  <1>7. \A f \in handlers' : ~Queued(f.command.tx)' /\ ~Taken(f.command.tx)'
    BY <1>1, <1>2, <1>3, <1>5
  <1>8. h.command.kind = "discard" => discards[h.command.tx] = 0
    <2>1. h.command.kind = "discard" => Running(h.command.tx)
      BY DEF Running
    <2>2. discards[h.command.tx] \in Nat
      BY <1>1 DEF IInv, Control, TypeOK
    <2> QED
      BY <1>1, <1>5, <2>1, <2>2 DEF Spent
  <1>9. h.command.kind = "restore" /\ h.command.tx \notin overlapped => Spent(h.command.tx)
    BY <1>5 DEF Spent, Running
  <1>10. \A f, g \in handlers' :
           f.command.kind = "discard" /\ g.command.kind = "discard"
           /\ f.command.tx = g.command.tx => f = g
    BY <1>2, <1>5
  <1>11. \A f, g \in handlers' :
           f.command.kind # g.command.kind /\ f.command.tx = g.command.tx
           => f.command.tx \in overlapped'
    BY <1>2, <1>5
  <1>12. h.command.kind = "discard" /\ next = {} => Spent(h.command.tx)'
    BY <1>1, <1>3, <1>5, <1>6 DEF Spent
  <1> QED
    BY <1>1, <1>2, <1>3, <1>4, <1>7, <1>8, <1>9, <1>10, <1>11, <1>12 DEF Spent

\* With what it reports and what it counts, a handler keeps the ids it uses
\* issued and the discards unique.
LEMMA HandlerTokens ==
  ASSUME IInv, NEW h \in handlers, NEW next,
         Follows(h, next),
         UNCHANGED <<pending, handling, overlapped, active, restoring, journal, issued>>,
         \A r \in Reported' \ Reported : r.tx = h.command.tx,
         lost \subseteq lost',
         \/ discards' = discards
         \/ /\ h.command.kind = "discard" /\ next = {}
            /\ discards' = [discards EXCEPT ![h.command.tx] = @ + 1]
  PROVE  IssuedOK' /\ TokenOK'
  <1>1. /\ h.command.tx \in Txs
        /\ \A f \in handlers' : \E e \in handlers : e.command = f.command
        /\ \A u \in Txs : Queued(u)' = Queued(u) /\ Taken(u)' = Taken(u) /\ (Spent(u) => Spent(u)')
        /\ h.command.kind = "discard" /\ next = {} => Spent(h.command.tx)'
        /\ h.command.kind = "discard" => discards[h.command.tx] = 0
    BY HandlerFrame
  <1>2. /\ \A f \in handlers' : ~Queued(f.command.tx)' /\ ~Taken(f.command.tx)'
        /\ \A f, g \in handlers' :
             f.command.kind = "discard" /\ g.command.kind = "discard"
             /\ f.command.tx = g.command.tx => f = g
    BY HandlerFrame
  <1>3. discards \in [Txs -> Nat] /\ (handling \in Commands => handling.tx \in Txs)
    BY CommandTypes DEF IInv, Control, TypeOK
  <1>4. \A t \in Txs : discards'[t] > 0 => issued[t] # "no"
    BY <1>1, <1>3 DEF IInv, Data, IssuedOK
  <1>5. IssuedOK'
    BY <1>1, <1>4 DEF IInv, Data, IssuedOK
  <1>6. \A t \in Txs : discards'[t] > 0 => discards'[t] = 1 /\ Spent(t)'
    BY <1>1, <1>3 DEF IInv, Data, TokenOK
  <1>7. handling' \in Commands => ~Queued(handling.tx)'
    BY <1>1, <1>3 DEF IInv, Data, TokenOK
  <1>8. TokenOK'
    BY <1>2, <1>6, <1>7 DEF IInv, Data, TokenOK
  <1> QED
    BY <1>5, <1>8

\* A handler that changes neither the storage nor the tabs: what it reports, if
\* it reports, is a discard that was not made or a restore without a record.
LEMMA HandlerQuiet ==
  ASSUME IInv, NEW h \in handlers, NEW next,
         Follows(h, next),
         UNCHANGED <<pending, handling, active, restoring, journal, issued, stored, tabs,
                     discards, reloaded, overlapped>>,
         \A g \in next : g.step = "store" \/ (g.step = "reload" /\ stored[g.command.tx] = g.tab),
         lost \subseteq lost',
         lost \cup Unsent \subseteq (lost \cup Unsent)',
         \A r \in Reported' \ Reported :
           /\ r.tx = h.command.tx
           /\ \/ r.status = "BLOCKED" /\ h.command.kind = "discard" /\ next = {}
              \/ /\ r.status = "RESTORE_FAILED" /\ h.command.kind = "restore"
                 /\ stored[h.command.tx] = None
  PROVE  Data'
  <1>1. /\ h.command.tx \in Txs
        /\ \A f \in handlers' : f.command.tx \in Txs /\ \E e \in handlers : e.command = f.command
        /\ \A u \in Txs : Spent(u) => Spent(u)'
        /\ h.command.kind = "discard" /\ next = {} => Spent(h.command.tx)'
        /\ h.command.kind = "discard" => discards[h.command.tx] = 0
        /\ h.command.kind = "restore" /\ h.command.tx \notin overlapped => Spent(h.command.tx)
    BY HandlerFrame
  <1>2. \A f, g \in handlers' :
          f.command.kind # g.command.kind /\ f.command.tx = g.command.tx
          => f.command.tx \in overlapped'
    BY HandlerFrame
  <1>3. IssuedOK' /\ TokenOK'
    BY HandlerTokens
  <1>4. \A f \in handlers' : f \in handlers \/ f \in next
    BY DEF Follows
  <1>5. RestoreOK' /\ RecordKept'
    BY <1>1, <1>2, <1>4 DEF IInv, Data, RestoreOK, RecordKept
  <1>6. h.command.kind = "discard" => \A tab \in Tabs : tabs[tab] # h.command.tx
    BY <1>1 DEF IInv, Data, RestoreOK
  <1>7. stored[h.command.tx] = None /\ h.command.tx \notin overlapped =>
          \A tab \in Tabs : tabs[tab] # h.command.tx
    BY <1>1, NoneAssumption DEF IInv, Data, RecordKept
  <1>8. \A r \in Reported' : (r \in Reported /\ r.tx \in Txs) \/ r \in Reported' \ Reported
    BY ReportedTypes
  <1>9. KnownOK' /\ StillKnown'
    <2>1. \A r \in Reported' : r.status # "EXECUTED" /\ r.tx \notin overlapped =>
            Spent(r.tx)' /\ \A tab \in Tabs : tabs[tab] # r.tx
      BY <1>1, <1>6, <1>7, <1>8 DEF IInv, Data, KnownOK
    <2> QED
      BY <1>1, <2>1 DEF IInv, Data, KnownOK, StillKnown
  <1>10. OutcomeOK' /\ AuditFaithful'
    BY <1>1, <1>4, <1>8 DEF IInv, Data, OutcomeOK, AuditFaithful
  <1>11. OutcomeAccounted'
    BY DEF IInv, Data, OutcomeAccounted, Carried
  <1> QED
    BY <1>3, <1>5, <1>9, <1>10, <1>11 DEF Data

LEMMA HandlerQuietData ==
  ASSUME IInv, NEW h \in handlers,
         HandlerThrows(h) \/ DiscardRefused(h) \/ DiscardCheck(h) \/ RestoreFind(h)
  PROVE  Data'
  <1>1. UNCHANGED <<pending, handling, active, restoring, journal, issued, stored, tabs,
                    discards, reloaded, overlapped>>
    BY DEF HandlerThrows, DiscardRefused, DiscardCheck, RestoreFind, NotHandlers, bridge, memory,
       history
  <1>2. TypeOK /\ h.command.tx \in Txs
    BY CommandTypes DEF IInv, Control, TypeOK
  <1>3. CASE HandlerThrows(h)
    <2>1. Follows(h, {}) /\ Post(ExtensionError)
      BY <1>3 DEF HandlerThrows, Finish, Follows
    <2>2. /\ Reported' \subseteq Reported \cup {ExtensionError} /\ lost \subseteq lost'
          /\ lost \cup Unsent \subseteq (lost \cup Unsent)'
      BY <1>1, <1>2, <2>1, PostEffect
    <2>3. Reported' \ Reported = {}
      BY <2>2, ResultTypes DEF Reported
    <2> QED
      BY <1>1, <2>1, <2>2, <2>3, HandlerQuiet
  <1>4. CASE DiscardRefused(h)
    <2> DEFINE m == Result(h.command.tx, "BLOCKED")
    <2>1. Follows(h, {}) /\ Post(m) /\ h.command.kind = "discard"
      BY <1>4 DEF DiscardRefused, Finish, At, Follows
    <2>2. m \in Results /\ m.tx = h.command.tx /\ m.status = "BLOCKED"
      BY <1>2, Made DEF Final, Result
    <2> HIDE DEF m
    <2>3. /\ Reported' \subseteq Reported \cup {m} /\ lost \subseteq lost'
          /\ lost \cup Unsent \subseteq (lost \cup Unsent)'
      BY <1>1, <1>2, <2>1, <2>2, PostEffect
    <2>4. \A r \in Reported' \ Reported :
            r.tx = h.command.tx /\ r.status = "BLOCKED" /\ h.command.kind = "discard"
      BY <2>1, <2>2, <2>3
    <2> QED
      BY <1>1, <2>1, <2>3, <2>4, HandlerQuiet
  <1>5. CASE DiscardCheck(h)
    <2> DEFINE g == Handler(h.command, "store", h.tab)
    <2>1. handlers' = (handlers \ {h}) \cup {g} /\ posted' = posted /\ lost' = lost
      BY <1>5 DEF DiscardCheck, Goto
    <2>2. g.command = h.command /\ g.step = "store"
      BY DEF Handler
    <2> HIDE DEF g
    <2>3. Reported' = Reported /\ (lost \cup Unsent)' = lost \cup Unsent
      BY <1>1, <2>1 DEF Reported, Unsent
    <2>4. /\ Follows(h, {g}) /\ \A f \in {g} : f.step = "store"
          /\ Reported' \ Reported = {}
      BY <2>1, <2>2, <2>3 DEF Follows
    <2> QED
      BY <1>1, <2>1, <2>3, <2>4, HandlerQuiet
  <1>6. CASE RestoreFind(h) /\ stored[h.command.tx] = None
    <2> DEFINE m == Result(h.command.tx, "RESTORE_FAILED")
    <2>1. Follows(h, {}) /\ Post(m) /\ h.command.kind = "restore"
      BY <1>6 DEF RestoreFind, Finish, At, Follows
    <2>2. m \in Results /\ m.tx = h.command.tx /\ m.status = "RESTORE_FAILED"
      BY <1>2, Made DEF Final, Result
    <2> HIDE DEF m
    <2>3. /\ Reported' \subseteq Reported \cup {m} /\ lost \subseteq lost'
          /\ lost \cup Unsent \subseteq (lost \cup Unsent)'
      BY <1>1, <1>2, <2>1, <2>2, PostEffect
    <2>4. \A r \in Reported' \ Reported :
            /\ r.tx = h.command.tx /\ r.status = "RESTORE_FAILED"
            /\ h.command.kind = "restore" /\ stored[h.command.tx] = None
      BY <1>6, <2>1, <2>2, <2>3
    <2> QED
      BY <1>1, <2>1, <2>3, <2>4, HandlerQuiet
  <1>7. CASE RestoreFind(h) /\ stored[h.command.tx] # None
    <2> DEFINE g == Handler(h.command, "reload", stored[h.command.tx])
    <2>1. handlers' = (handlers \ {h}) \cup {g} /\ posted' = posted /\ lost' = lost
      BY <1>7 DEF RestoreFind
    <2>2. g.command = h.command /\ g.step = "reload" /\ g.tab = stored[h.command.tx]
      BY DEF Handler
    <2> HIDE DEF g
    <2>3. Reported' = Reported /\ (lost \cup Unsent)' = lost \cup Unsent
      BY <1>1, <2>1 DEF Reported, Unsent
    <2>4. /\ Follows(h, {g}) /\ \A f \in {g} : f.step = "reload" /\ stored[f.command.tx] = f.tab
          /\ Reported' \ Reported = {}
      BY <2>1, <2>2, <2>3 DEF Follows
    <2> QED
      BY <1>1, <2>1, <2>3, <2>4, HandlerQuiet
  <1> QED
    BY <1>3, <1>4, <1>5, <1>6, <1>7

LEMMA DiscardStoreData ==
  ASSUME IInv, NEW h \in handlers, DiscardStore(h)
  PROVE  Data'
  <1> DEFINE g == Handler(h.command, "discard", h.tab)
             t == h.command.tx
  <1>1. /\ h.command.kind = "discard" /\ stored' = [stored EXCEPT ![t] = h.tab]
        /\ handlers' = (handlers \ {h}) \cup {g}
        /\ UNCHANGED <<pending, handling, active, restoring, journal, posted, issued, tabs,
                       discards, reloaded, overlapped, lost>>
    BY DEF DiscardStore, At, Goto, NotHandlers, bridge, memory, history
  <1>2. /\ g.command = h.command /\ g.step = "discard" /\ g.tab = h.tab
        /\ Follows(h, {g})
    BY <1>1 DEF Handler, Follows
  <1> HIDE DEF g
  <1>3. /\ \A f \in handlers' : f.command.tx \in Txs
        /\ \A u \in Txs : Spent(u) => Spent(u)'
        /\ t \in Txs /\ discards[t] = 0
    BY <1>1, <1>2, HandlerFrame
  <1>4. \A e, f \in handlers' :
          e.command.kind # f.command.kind /\ e.command.tx = f.command.tx
          => e.command.tx \in overlapped'
    BY <1>1, <1>2, HandlerFrame
  <1>5. Reported' = Reported /\ Unsent' = Unsent
    BY <1>1 DEF Reported, Unsent
  <1>6. IssuedOK' /\ TokenOK'
    BY <1>1, <1>2, <1>5, HandlerTokens
  <1>7. \A tab \in Tabs : tabs[tab] # t
    BY <1>3 DEF IInv, Data, RestoreOK
  <1>8. stored \in [Txs -> Tabs \cup {None}]
    BY DEF IInv, Control, TypeOK
  <1>9. \A f \in handlers' : f = g \/ (f \in handlers /\ (f.command.tx = t => f.command.tx \in overlapped))
    <2>1. g \in handlers'
      BY <1>1
    <2>2. \A f \in handlers \ {h} : f.command.tx = t /\ f.command.kind = "discard" => FALSE
      BY <1>1 DEF IInv, Data, TokenOK
    <2>3. \A f \in handlers \ {h} : f.command.tx = t => f.command.kind # "discard"
      BY <2>2
    <2> QED
      BY <1>1, <1>2, <1>4, <2>1, <2>3
  <1> HIDE DEF t
  <1>10. RestoreOK' /\ RecordKept'
    <2>1. \A f \in handlers' : f.command.tx \notin overlapped =>
            /\ f.step = "discard" => stored'[f.command.tx] = f.tab
            /\ f.step \in {"reload", "remove"} => stored'[f.command.tx] \in {f.tab, None}
            /\ f.step = "remove" => \A tab \in Tabs : tabs[tab] # f.command.tx
      BY <1>1, <1>2, <1>3, <1>8, <1>9 DEF IInv, Data, RestoreOK, t
    <2> QED
      BY <1>1, <1>3, <1>4, <1>7, <1>8, <2>1 DEF IInv, Data, RestoreOK, RecordKept
  <1>11. KnownOK' /\ StillKnown'
    BY <1>1, <1>3, <1>5, ReportedTypes DEF IInv, Data, KnownOK, StillKnown
  <1>12. OutcomeOK' /\ AuditFaithful' /\ OutcomeAccounted'
    BY <1>1, <1>2, <1>3, <1>5, <1>9, ReportedTypes
       DEF IInv, Data, OutcomeOK, AuditFaithful, OutcomeAccounted, Carried
  <1> QED
    BY <1>6, <1>10, <1>11, <1>12 DEF Data

LEMMA DiscardTabData ==
  ASSUME IInv, NEW h \in handlers, DiscardTab(h)
  PROVE  Data'
  <1> DEFINE t == h.command.tx
             m == Result(t, "EXECUTED")
  <1>1. /\ h.command.kind = "discard" /\ h.step = "discard"
        /\ tabs' = [tabs EXCEPT ![h.tab] = t] /\ discards' = [discards EXCEPT ![t] = @ + 1]
        /\ Follows(h, {}) /\ Post(m)
        /\ UNCHANGED <<pending, handling, active, restoring, journal, issued, stored,
                       reloaded, overlapped>>
    BY DEF DiscardTab, At, Finish, NotHandlers, bridge, memory, Follows
  <1>2. /\ TypeOK /\ t \in Txs /\ h.tab \in Tabs
    BY <1>1, CommandTypes DEF IInv, Control, TypeOK, HandlerOK
  <1>3. m \in Results /\ m.tx = t /\ m.status = "EXECUTED"
    BY <1>2, Made DEF Final, Result
  <1>4. /\ Reported' \subseteq Reported \cup {m} /\ lost \subseteq lost'
        /\ lost \cup Unsent \subseteq (lost \cup Unsent)' /\ t \in (lost \cup Unsent)'
    BY <1>1, <1>2, <1>3, PostEffect
  <1> HIDE DEF m
  <1>5. \A r \in Reported' \ Reported : r = m /\ r.tx = h.command.tx
    BY <1>3, <1>4
  <1>6. IssuedOK' /\ TokenOK'
    BY <1>1, <1>4, <1>5, HandlerTokens
  <1>7. /\ \A f \in handlers' : f.command.tx \in Txs
        /\ \A u \in Txs : Spent(u) => Spent(u)'
        /\ discards[t] = 0
    BY <1>1, HandlerFrame
  <1>8. \A e, f \in handlers' :
          e.command.kind # f.command.kind /\ e.command.tx = f.command.tx
          => e.command.tx \in overlapped'
    BY <1>1, HandlerFrame
  <1>9. \A f \in handlers' : f \in handlers /\ (f.command.tx = t => f.command.tx \in overlapped)
    <2>1. \A f \in handlers : f.command.kind # "discard" /\ f.command.tx = t => f.command.tx \in overlapped
      BY <1>1 DEF IInv, Data, RestoreOK
    <2>2. \A f \in handlers : f.command.kind = "discard" /\ f.command.tx = t => f = h
      BY <1>1 DEF IInv, Data, TokenOK
    <2> QED
      BY <1>1, <2>1, <2>2 DEF Follows
  <1>10. ~Spent(t)
    BY <1>1 DEF Spent, Running
  <1>11. /\ t \notin overlapped => stored[t] = h.tab /\ (issued[t] = "now" => t \in active)
         /\ journal[t] # "BLOCKED"
         /\ \A r \in Reported : r.status = "BLOCKED" => r.tx # t
         /\ \A r \in Reported : r.status # "EXECUTED" /\ r.tx = t => r.tx \in overlapped
    BY <1>1, <1>2, <1>10 DEF IInv, Data, RestoreOK, KnownOK, OutcomeOK
  <1>12. /\ tabs'[h.tab] = t /\ \A tab \in Tabs \ {h.tab} : tabs'[tab] = tabs[tab]
         /\ discards'[t] = 1 /\ \A u \in Txs \ {t} : discards'[u] = discards[u]
    BY <1>1, <1>2, <1>7 DEF TypeOK
  <1> HIDE DEF t
  <1>13. RestoreOK' /\ RecordKept'
    <2>1. \A tab \in Tabs : tabs'[tab] \in Txs => discards'[tabs'[tab]] > 0
      BY <1>12 DEF IInv, Data, RestoreOK
    <2>2. \A f \in handlers' : f.command.tx \notin overlapped' =>
            /\ f.step = "discard" => stored'[f.command.tx] = f.tab
            /\ f.step \in {"reload", "remove"} => stored'[f.command.tx] \in {f.tab, None}
            /\ f.step = "remove" => \A tab \in Tabs : tabs'[tab] # f.command.tx
      BY <1>1, <1>9, <1>12 DEF IInv, Data, RestoreOK
    <2>3. RecordKept'
      BY <1>1, <1>11, <1>12 DEF IInv, Data, RecordKept
    <2> QED
      BY <1>8, <2>1, <2>2, <2>3 DEF RestoreOK
  <1>14. \A r \in Reported' : r = m \/ (r \in Reported /\ r.tx \in Txs)
    BY <1>4, ReportedTypes
  <1>15. KnownOK' /\ StillKnown'
    <2>1. \A r \in Reported' : r.status # "EXECUTED" /\ r.tx \notin overlapped =>
            Spent(r.tx)' /\ \A tab \in Tabs : tabs'[tab] # r.tx
      BY <1>2, <1>3, <1>7, <1>11, <1>12, <1>14 DEF IInv, Data, KnownOK
    <2>2. \A u \in Txs \ overlapped : issued[u] = "now" /\ ~Spent(u)' => u \in active
      BY <1>7 DEF IInv, Data, KnownOK
    <2>3. StillKnown'
      BY <1>1, <1>2, <1>11, <1>12 DEF IInv, Data, StillKnown
    <2> QED
      BY <1>1, <2>1, <2>2, <2>3 DEF KnownOK
  <1>16. OutcomeOK'
    <2>1. \A r \in Reported' :
            /\ r.status = "EXECUTED" => discards'[r.tx] > 0
            /\ r.status = "ROLLED_BACK" => r.tx \in reloaded
            /\ r.status = "BLOCKED" => discards'[r.tx] = 0 /\ Spent(r.tx)'
      BY <1>3, <1>7, <1>11, <1>12, <1>14 DEF IInv, Data, OutcomeOK
    <2> QED
      BY <1>1, <1>7, <1>9, <2>1 DEF IInv, Data, OutcomeOK
  <1>17. AuditFaithful'
    BY <1>1, <1>11, <1>12 DEF IInv, Data, AuditFaithful
  <1>18. OutcomeAccounted'
    BY <1>1, <1>4, <1>12 DEF IInv, Data, OutcomeAccounted
  <1> QED
    BY <1>6, <1>13, <1>15, <1>16, <1>17, <1>18 DEF Data

LEMMA RestoreReloadData ==
  ASSUME IInv, NEW h \in handlers, RestoreReload(h)
  PROVE  Data'
  <1> DEFINE t == h.command.tx
             g == Handler(h.command, "remove", h.tab)
  <1>1. /\ h.command.kind = "restore" /\ h.step = "reload"
        /\ tabs' = [tabs EXCEPT ![h.tab] = "live"] /\ reloaded' = reloaded \cup {t}
        /\ handlers' = (handlers \ {h}) \cup {g}
        /\ UNCHANGED <<pending, handling, active, restoring, journal, posted, issued, stored,
                       discards, overlapped, lost>>
    BY DEF RestoreReload, At, Goto, NotHandlers, bridge, memory
  <1>2. g.command = h.command /\ g.step = "remove" /\ g.tab = h.tab /\ Follows(h, {g})
    BY <1>1 DEF Handler, Follows
  <1> HIDE DEF g
  <1>3. TypeOK /\ t \in Txs
    BY CommandTypes DEF IInv, Control, TypeOK
  <1>4. Reported' = Reported /\ Unsent' = Unsent
    BY <1>1 DEF Reported, Unsent
  <1>5. IssuedOK' /\ TokenOK'
    BY <1>1, <1>2, <1>4, HandlerTokens
  <1>6. /\ \A f \in handlers' : f.command.tx \in Txs
        /\ \A u \in Txs : Spent(u) => Spent(u)'
    BY <1>1, <1>2, HandlerFrame
  <1>7. \A e, f \in handlers' :
          e.command.kind # f.command.kind /\ e.command.tx = f.command.tx
          => e.command.tx \in overlapped'
    BY <1>1, <1>2, HandlerFrame
  <1>8. \A tab \in Tabs : tabs'[tab] \in Txs => tabs[tab] = tabs'[tab] /\ tab # h.tab
    BY <1>1, <1>3, BrowserAssumption DEF TypeOK
  <1>9. t \notin overlapped => /\ stored[t] \in {h.tab, None}
                               /\ \A tab \in Tabs : tabs'[tab] # t
    <2>1. t \notin overlapped => stored[t] \in {h.tab, None}
      BY <1>1 DEF IInv, Data, RestoreOK
    <2>2. ASSUME NEW tab \in Tabs, t \notin overlapped, tabs'[tab] = t
          PROVE  FALSE
      <3>1. tabs[tab] = t /\ tab # h.tab
        BY <1>3, <1>8, <2>2
      <3>2. stored[t] = tab
        BY <1>3, <2>2, <3>1 DEF IInv, Data, RecordKept
      <3> QED
        BY <2>1, <2>2, <3>1, <3>2, NoneAssumption
    <2> QED
      BY <2>1, <2>2
  <1>10. \A f \in handlers' : f = g \/ f \in handlers
    BY <1>1
  <1> HIDE DEF t
  <1>11. RestoreOK' /\ RecordKept'
    <2>1. \A f \in handlers' : f.command.tx \notin overlapped =>
            /\ f.step = "discard" => stored[f.command.tx] = f.tab
            /\ f.step \in {"reload", "remove"} => stored[f.command.tx] \in {f.tab, None}
            /\ f.step = "remove" => \A tab \in Tabs : tabs'[tab] # f.command.tx
      BY <1>2, <1>6, <1>8, <1>9, <1>10 DEF IInv, Data, RestoreOK, t
    <2> QED
      BY <1>1, <1>7, <1>8, <2>1 DEF IInv, Data, RestoreOK, RecordKept
  <1>12. KnownOK' /\ StillKnown'
    BY <1>1, <1>4, <1>6, <1>8, ReportedTypes DEF IInv, Data, KnownOK, StillKnown
  <1>13. OutcomeOK' /\ AuditFaithful' /\ OutcomeAccounted'
    BY <1>1, <1>2, <1>4, <1>6, <1>10, ReportedTypes
       DEF IInv, Data, OutcomeOK, AuditFaithful, OutcomeAccounted, Carried, t
  <1> QED
    BY <1>5, <1>11, <1>12, <1>13 DEF Data

LEMMA RestoreRemoveData ==
  ASSUME IInv, NEW h \in handlers, RestoreRemove(h)
  PROVE  Data'
  <1> DEFINE t == h.command.tx
             m == Result(t, "ROLLED_BACK")
  <1>1. /\ h.command.kind = "restore" /\ h.step = "remove"
        /\ stored' = [stored EXCEPT ![t] = None]
        /\ Follows(h, {}) /\ Post(m)
        /\ UNCHANGED <<pending, handling, active, restoring, journal, issued, tabs,
                       discards, reloaded, overlapped>>
    BY DEF RestoreRemove, At, Finish, NotHandlers, bridge, memory, history, Follows
  <1>2. TypeOK /\ t \in Txs
    BY CommandTypes DEF IInv, Control, TypeOK
  <1>3. m \in Results /\ m.tx = t /\ m.status = "ROLLED_BACK"
    BY <1>2, Made DEF Final, Result
  <1>4. /\ Reported' \subseteq Reported \cup {m} /\ lost \subseteq lost'
        /\ lost \cup Unsent \subseteq (lost \cup Unsent)'
    BY <1>1, <1>2, <1>3, PostEffect
  <1> HIDE DEF m
  <1>5. \A r \in Reported' \ Reported : r.tx = h.command.tx
    BY <1>3, <1>4
  <1>6. IssuedOK' /\ TokenOK'
    BY <1>1, <1>4, <1>5, HandlerTokens
  <1>7. /\ \A f \in handlers' : f.command.tx \in Txs
        /\ \A u \in Txs : Spent(u) => Spent(u)'
        /\ t \notin overlapped => Spent(t)
    BY <1>1, HandlerFrame
  <1>8. \A e, f \in handlers' :
          e.command.kind # f.command.kind /\ e.command.tx = f.command.tx
          => e.command.tx \in overlapped'
    BY <1>1, HandlerFrame
  <1>9. t \in reloaded /\ (t \notin overlapped => \A tab \in Tabs : tabs[tab] # t)
    BY <1>1 DEF IInv, Data, RestoreOK, OutcomeOK
  <1>10. \A f \in handlers' : /\ f \in handlers
                              /\ f.command.tx = t /\ f.step = "discard" => f.command.tx \in overlapped
    <2>1. \A f \in handlers : f.step = "discard" => f.command.kind # "restore"
      BY DEF IInv, Control, HandlerOK
    <2>2. \A f \in handlers : f.command.tx = t /\ f.command.kind # "restore" => f.command.tx \in overlapped
      BY <1>1 DEF IInv, Data, RestoreOK
    <2> QED
      BY <1>1, <2>1, <2>2 DEF Follows
  <1>11. stored'[t] = None /\ \A u \in Txs \ {t} : stored'[u] = stored[u]
    BY <1>1, <1>2 DEF TypeOK
  <1> HIDE DEF t
  <1>12. RestoreOK' /\ RecordKept'
    <2>1. \A f \in handlers' : f.command.tx \notin overlapped =>
            /\ f.step = "discard" => stored'[f.command.tx] = f.tab
            /\ f.step \in {"reload", "remove"} => stored'[f.command.tx] \in {f.tab, None}
            /\ f.step = "remove" => \A tab \in Tabs : tabs[tab] # f.command.tx
      BY <1>7, <1>10, <1>11 DEF IInv, Data, RestoreOK
    <2> QED
      BY <1>1, <1>8, <1>9, <1>11, <2>1 DEF IInv, Data, RestoreOK, RecordKept
  <1>13. \A r \in Reported' : r = m \/ (r \in Reported /\ r.tx \in Txs)
    BY <1>4, ReportedTypes
  <1>14. KnownOK' /\ StillKnown'
    <2>1. \A r \in Reported' : r.status # "EXECUTED" /\ r.tx \notin overlapped =>
            Spent(r.tx)' /\ \A tab \in Tabs : tabs[tab] # r.tx
      BY <1>2, <1>3, <1>7, <1>9, <1>13 DEF IInv, Data, KnownOK
    <2> QED
      BY <1>1, <1>7, <2>1 DEF IInv, Data, KnownOK, StillKnown
  <1>15. OutcomeOK' /\ AuditFaithful'
    BY <1>1, <1>3, <1>7, <1>9, <1>10, <1>13 DEF IInv, Data, OutcomeOK, AuditFaithful
  <1>16. OutcomeAccounted'
    BY <1>1, <1>4 DEF IInv, Data, OutcomeAccounted
  <1> QED
    BY <1>6, <1>12, <1>14, <1>15, <1>16 DEF Data

-----------------------------------------------------------------------------
(* The invariant, and what it says. *)

LEMMA StepPreserves == IInv /\ [Next]_vars => IInv'
  <1> SUFFICES ASSUME IInv, [Next]_vars PROVE IInv'
    OBVIOUS
  <1>1. Control'
    BY ControlStep DEF IInv
  <1>2. CASE UNCHANGED vars
    <2>1. UNCHANGED <<pending, active, restoring, journal, handlers, stored, tabs, issued,
                      discards, reloaded, overlapped, handling, posted, lost>>
      BY <1>2 DEF vars, bridge, memory, extension, counters, history
    <2>2. Reported' = Reported /\ \A t \in Txs : Carried(t)' = Carried(t)
      BY <2>1 DEF Reported, Carried, Unsent
    <2> QED
      BY <1>1, <2>1, <2>2, LessInFlight DEF IInv
  <1>3. CASE Owner \/ Stopping
    BY <1>1, <1>3, PassiveData, BlockDiscardData, PersistPlannedData, QueueDiscardData,
       QueueRestoreData DEF Owner, IInv
  <1>4. CASE Server
    BY <1>1, <1>4, PassiveData, ServerPollData, ServerResultData, ServerPersistData,
       ServerReplyData DEF Server, IInv
  <1>5. CASE HostRelay \/ Connect \/ PostPoll
    BY <1>1, <1>5, HostData DEF IInv
  <1>6. CASE Extension
    BY <1>1, <1>6, HandlerQuietData, DiscardStoreData, DiscardTabData, RestoreReloadData,
       RestoreRemoveData DEF Extension, IInv
  <1>7. CASE Environment
    BY <1>1, <1>7, HostData, BrowserRestartsData, AppEndsData, UserData DEF Environment, IInv
  <1> QED
    BY <1>2, <1>3, <1>4, <1>5, <1>6, <1>7 DEF Next

LEMMA Invariance == Spec => []IInv
  BY InitEstablishes, StepPreserves, PTL DEF Spec

\* Every variable keeps its type: a hand that is empty or holds a message, and
\* handlers whose tab is known from their second call on.
THEOREM TypeCorrect == Spec => []TypeOK
  <1>1. IInv => TypeOK
    BY DEF IInv, Control
  <1> QED
    BY <1>1, Invariance, PTL

\* No tab is discarded twice for one transaction, whatever is lost on the way.
THEOREM DiscardAtMostOnce == Spec => []DiscardedOnce
  <1>1. IInv => DiscardedOnce
    <2> SUFFICES ASSUME IInv, NEW t \in Txs PROVE discards[t] <= 1
      BY DEF DiscardedOnce
    <2>1. discards[t] \in Nat /\ (discards[t] > 0 => discards[t] = 1)
      BY DEF IInv, Control, TypeOK, Data, TokenOK
    <2> QED
      BY <2>1
  <1> QED
    BY <1>1, Invariance, PTL

\* The extension keeps the record of every tab that lies discarded, unless a
\* restore overtook the discard.
THEOREM RecordIsKept == Spec => []RecordKept
  <1>1. IInv => RecordKept
    BY DEF IInv, Data
  <1> QED
    BY <1>1, Invariance, PTL

\* The bridge that queued a discard still has the transaction as active while
\* the tab lies discarded, under the same proviso.
THEOREM BridgeStillKnows == Spec => []StillKnown
  <1>1. IInv => StillKnown
    BY DEF IInv, Data
  <1> QED
    BY <1>1, Invariance, PTL

\* No row of the audit claims a discard, a reload or a refusal that did not
\* happen, however late the outcome reached the bridge.
THEOREM AuditIsFaithful == Spec => []AuditFaithful
  <1>1. IInv => AuditFaithful
    BY DEF IInv, Data
  <1> QED
    BY <1>1, Invariance, PTL

\* Every discard is in the audit, on its way there, or among what was lost.
THEOREM OutcomesAccounted == Spec => []OutcomeAccounted
  <1>1. IInv => OutcomeAccounted
    BY DEF IInv, Data
  <1> QED
    BY <1>1, Invariance, PTL
===============================================================================
