-------------------------- MODULE BrowserIntegration --------------------------
(***************************************************************************)
(* The cooperative tab discard, end to end: the transactions and the pipe  *)
(* server of BrowserIntegrationBridge.cpp, the relay of                    *)
(* BrowserNativeHost.cpp, which carries one message at a time from the     *)
(* browser to the pipe and the answer back, and the asynchronous handlers  *)
(* of the extension (integrations/browser/background.js).                  *)
(*                                                                         *)
(* Messages go one way only, in answer to a poll of the extension.  A      *)
(* message that meets no pipe is dropped by the relay, and so is whatever  *)
(* a process held when it died.  A section under mutex_ is one step, and   *)
(* so is each awaited call of a handler.                                   *)
(***************************************************************************)
EXTENDS Naturals, Sequences, FiniteSets

CONSTANTS
  Txs,         \* transaction ids
  Tabs,        \* tab ids
  None,        \* no message
  MaxPosted,   \* bound on the messages that wait on the host's standard input
  MaxOwner,    \* bound on the starts of the application and its requests for
               \* Quick Restore, together
  MaxFaults,   \* bound on the deaths of the host and the restarts of the browser
  Faults       \* "host": the host dies; "browser": the browser restarts;
               \* "api": a call of the browser fails; "pipe": CreateNamedPipe fails;
               \* "app": the application dies

ASSUME BrowserAssumption ==
  /\ MaxPosted \in Nat \ {0} /\ MaxOwner \in Nat /\ MaxFaults \in Nat
  /\ Faults \subseteq {"host", "browser", "api", "pipe", "app"}
  /\ Txs \cap {"live", "closed"} = {}

Poll == [kind |-> "poll"]
ExtensionError == [kind |-> "extension_error"]
Discard(t, tab) == [kind |-> "discard", tx |-> t, tab |-> tab]
Restore(t, n) == [kind |-> "restore", tx |-> t, request |-> n]
Result(t, status) == [kind |-> "result", tx |-> t, status |-> status]

\* A handler at one of its awaited calls, and the tab it knows of by then.
Handler(command, step, tab) == [command |-> command, step |-> step, tab |-> tab]
Begun(command) == IF command.kind = "discard" THEN Handler(command, "check", command.tab)
                                              ELSE Handler(command, "find", None)

Final == {"BLOCKED", "EXECUTED", "ROLLED_BACK", "RESTORE_FAILED"}

VARIABLES
  app,        \* "off", "up"; Stop: "wake", "join"; "stopped"
  running,    \* running_
  server,     \* the server thread
  handling,   \* the message the server answers, then the answer
  pending,    \* pending_
  active,     \* the transactions of activeTabsByTransaction_
  planning,   \* queued discards whose PLANNED row is not written yet
  restoring,  \* what QueueRestoreAll has still to queue
  journal,    \* the last status of each transaction in the audit table
  host,       \* the native host: "dead", "idle" or "waiting" for the pipe
  posted,     \* messages of the extension on the host's standard input
  handlers,   \* the handlers of the extension in progress
  stored,     \* transaction:<id> in the storage of the extension, the tab it names
  tabs,       \* "live", "closed", or the transaction a tab was discarded for
  starts, restores, faults, \* counters of the bounds
  issued,     \* history: ids in use, "now" by the running application or "before"
  discards,   \* history: how often a transaction discarded a tab
  reloaded,   \* history: the transactions whose restore reloaded the tab
  overlapped, \* history: transactions whose restore began while the discard ran
  lost        \* history: transactions with a message or an audit row that was lost

bridge == <<running, server, handling>>
memory == <<pending, active, planning, restoring>>
extension == <<handlers, stored, tabs>>
counters == <<starts, restores, faults>>
history == <<discards, reloaded, overlapped>>
vars == <<app, bridge, memory, journal, host, posted, extension, counters,
          issued, history, lost>>

-----------------------------------------------------------------------------
\* MonitorThread owns the bridge: it starts it, queues what it has to queue,
\* and destroys it when it ends.
Start ==
  /\ app = "off" /\ starts + restores < MaxOwner
  /\ app' = "up"
  /\ starts' = starts + 1
  /\ running' = TRUE
  /\ server' = "test"
  /\ UNCHANGED <<handling, memory, journal, host, posted, extension, restores, faults,
                 issued, history, lost>>

\* The validator of the bridge refuses the tab.
BlockDiscard(t) ==
  /\ app = "up" /\ issued[t] = "no"
  /\ issued' = [issued EXCEPT ![t] = "now"]
  /\ journal' = [journal EXCEPT ![t] = "BLOCKED"]
  /\ UNCHANGED <<app, bridge, memory, host, posted, extension, counters, history, lost>>

\* The command is queued under the lock, and the PLANNED row is written after it.
QueueDiscard(t, tab) ==
  /\ app = "up" /\ issued[t] = "no" /\ planning = {}
  /\ issued' = [issued EXCEPT ![t] = "now"]
  /\ pending' = Append(pending, Discard(t, tab))
  /\ active' = active \cup {t}
  /\ planning' = {t}
  /\ UNCHANGED <<app, bridge, restoring, journal, host, posted, extension, counters,
                 history, lost>>

PersistPlanned(t) ==
  /\ t \in planning
  /\ planning' = planning \ {t}
  /\ journal' = [journal EXCEPT ![t] = "PLANNED"]
  /\ lost' = IF journal[t] = "NONE" THEN lost ELSE lost \cup {t}
  /\ UNCHANGED <<app, bridge, pending, active, restoring, host, posted, extension,
                 counters, issued, history>>

\* QueueRestoreAll copies the ids under the lock and queues them one by one.
QueueRestoreAll ==
  /\ app = "up" /\ planning = {} /\ restoring = {}
  /\ starts + restores < MaxOwner
  /\ restores' = restores + 1
  /\ restoring' = active
  /\ UNCHANGED <<app, bridge, pending, active, planning, journal, host, posted,
                 extension, starts, faults, issued, history, lost>>

QueueRestore(t) ==
  /\ t \in restoring
  /\ restoring' = restoring \ {t}
  /\ pending' = IF t \in active THEN Append(pending, Restore(t, restores)) ELSE pending
  /\ UNCHANGED <<app, bridge, active, planning, journal, host, posted, extension,
                 counters, issued, history, lost>>

-----------------------------------------------------------------------------
\* Fault: the loop does not look at running_.
ServerTest_Always ==
  /\ server = "test"
  /\ server' = "create"
  /\ UNCHANGED <<app, running, handling, memory, journal, host, posted, extension,
                 counters, issued, history, lost>>

\* The condition of ServerLoop.
ServerTest ==
  /\ server = "test"
  /\ server' = IF running THEN "create" ELSE "ended"
  /\ UNCHANGED <<app, running, handling, memory, journal, host, posted, extension,
                 counters, issued, history, lost>>

\* CreateNamedPipe; its failure ends the server.
ServerCreate ==
  /\ server = "create"
  /\ \/ server' = "connect" /\ UNCHANGED running
     \/ "pipe" \in Faults /\ server' = "ended" /\ running' = FALSE
  /\ UNCHANGED <<app, handling, memory, journal, host, posted, extension, counters,
                 issued, history, lost>>

\* Fault: the command stays in the queue until its answer is written.
ServerPoll_Peeks ==
  /\ server = "serve" /\ running /\ handling = Poll /\ pending # <<>>
  /\ handling' = Head(pending)
  /\ server' = "reply"
  /\ UNCHANGED <<app, running, memory, journal, host, posted, extension, counters,
                 issued, history, lost>>

\* After the connection running_ is tested again; without it the message that
\* was sent is dropped with the pipe.
ServerDrop ==
  /\ server = "serve" /\ ~running
  /\ server' = "test"
  /\ host' = IF host = "waiting" THEN "idle" ELSE host
  /\ lost' = lost \cup {t \in Txs : handling.kind = "result" /\ handling.tx = t}
  /\ handling' = None
  /\ UNCHANGED <<app, running, memory, journal, posted, extension, counters, issued, history>>

\* ProcessMessage: a poll takes the next command from the queue.
ServerPoll ==
  /\ server = "serve" /\ running /\ handling = Poll
  /\ IF pending = <<>>
       THEN UNCHANGED <<handling, pending>>
       ELSE handling' = Head(pending) /\ pending' = Tail(pending)
  /\ server' = "reply"
  /\ UNCHANGED <<app, running, active, planning, restoring, journal, host, posted,
                 extension, counters, issued, history, lost>>

\* Fault: the outcome is not written to the audit.
ServerResult_NotAudited ==
  /\ server = "serve" /\ running /\ handling.kind = "result"
  /\ active' = IF handling.status = "EXECUTED" THEN active ELSE active \ {handling.tx}
  /\ handling' = Poll
  /\ server' = "reply"
  /\ UNCHANGED <<app, running, pending, planning, restoring, journal, host, posted,
                 extension, counters, issued, history, lost>>

\* Fault: every outcome ends its transaction.
ServerResult_ForgetsExecuted ==
  /\ server = "serve" /\ running /\ handling.kind = "result"
  /\ active' = active \ {handling.tx}
  /\ server' = "persist"
  /\ UNCHANGED <<app, running, handling, pending, planning, restoring, journal, host,
                 posted, extension, counters, issued, history, lost>>

\* ProcessMessage: an outcome ends the transaction unless the discard was made.
ServerResult ==
  /\ server = "serve" /\ running /\ handling.kind = "result"
  /\ active' = IF handling.status = "EXECUTED" THEN active ELSE active \ {handling.tx}
  /\ server' = "persist"
  /\ UNCHANGED <<app, running, handling, pending, planning, restoring, journal, host,
                 posted, extension, counters, issued, history, lost>>

\* ProcessMessage: what is neither a poll nor an outcome changes nothing.
ServerOther ==
  /\ server = "serve" /\ running /\ handling = ExtensionError
  /\ handling' = Poll
  /\ server' = "reply"
  /\ UNCHANGED <<app, running, memory, journal, host, posted, extension, counters,
                 issued, history, lost>>

\* The audit row of an outcome replaces the transaction's row.
ServerPersist ==
  /\ server = "persist"
  /\ journal' = [journal EXCEPT ![handling.tx] = handling.status]
  /\ handling' = Poll
  /\ server' = "reply"
  /\ UNCHANGED <<app, running, memory, host, posted, extension, counters, issued,
                 history, lost>>

\* The answer goes to the host if it still waits for it, and from there to the
\* extension, where a command starts a handler.
ServerReply ==
  /\ server = "reply"
  /\ server' = "test"
  /\ handling' = None
  /\ IF host = "waiting"
       THEN /\ host' = "idle"
            /\ IF handling = Poll
                 THEN UNCHANGED <<handlers, overlapped>>
                 ELSE /\ handlers' = handlers \cup {Begun(handling)}
                      /\ overlapped' = overlapped \cup
                           {h.command.tx : h \in {g \in handlers :
                              g.command.kind # handling.kind /\ g.command.tx = handling.tx}}
            /\ UNCHANGED lost
       ELSE /\ lost' = lost \cup {t \in Txs : handling # Poll /\ handling.tx = t}
            /\ UNCHANGED <<host, handlers, overlapped>>
  /\ UNCHANGED <<app, running, memory, journal, posted, stored, tabs, counters, issued,
                 discards, reloaded>>

-----------------------------------------------------------------------------
\* Stop, from the destructor: clear running_, wake the server by a connection of
\* its own if there is a pipe to connect to, and join.  When the server gave up
\* before, Stop returns at once.
Stop ==
  /\ app = "up" /\ planning = {} /\ restoring = {}
  /\ app' = IF running THEN "wake" ELSE "stopped"
  /\ running' = FALSE
  /\ UNCHANGED <<server, handling, memory, journal, host, posted, extension, counters,
                 issued, history, lost>>

StopWake ==
  /\ app = "wake"
  /\ app' = "join"
  /\ server' = IF server = "connect" THEN "test" ELSE server
  /\ UNCHANGED <<running, handling, memory, journal, host, posted, extension, counters,
                 issued, history, lost>>

StopJoin ==
  /\ app = "join" /\ server = "ended"
  /\ app' = "stopped"
  /\ UNCHANGED <<bridge, memory, journal, host, posted, extension, counters, issued,
                 history, lost>>

\* The process ends, after Stop or by a crash: the journal stays, the rest is gone.
AppEnds ==
  /\ app = "stopped" \/ (app # "off" /\ "app" \in Faults)
  /\ app' = "off"
  /\ running' = FALSE /\ server' = "off" /\ handling' = None
  /\ pending' = <<>> /\ active' = {} /\ planning' = {} /\ restoring' = {}
  /\ host' = IF host = "waiting" THEN "idle" ELSE host
  /\ issued' = [t \in Txs |-> IF issued[t] = "no" THEN "no" ELSE "before"]
  /\ lost' = lost \cup {t \in Txs : issued[t] = "now"}
  /\ UNCHANGED <<journal, posted, extension, counters, history>>

-----------------------------------------------------------------------------
\* RelayToControlCenter: the message at the head of the standard input reaches
\* the pipe if its server waits for a client, and is dropped otherwise.
HostRelay ==
  /\ host = "idle" /\ posted # <<>>
  /\ posted' = Tail(posted)
  /\ IF server = "connect"
       THEN /\ host' = "waiting"
            /\ server' = "serve"
            /\ handling' = Head(posted)
            /\ UNCHANGED lost
       ELSE /\ lost' = lost \cup {t \in Txs : Head(posted).kind = "result" /\ Head(posted).tx = t}
            /\ UNCHANGED <<host, server, handling>>
  /\ UNCHANGED <<app, running, memory, journal, extension, counters, issued, history>>

\* What the host was given and had not passed on yet.
Unsent == {t \in Txs : \E i \in 1 .. Len(posted) :
             posted[i].kind = "result" /\ posted[i].tx = t}

HostDies ==
  /\ "host" \in Faults /\ faults < MaxFaults /\ host # "dead"
  /\ faults' = faults + 1
  /\ host' = "dead"
  /\ posted' = <<>>
  /\ lost' = lost \cup Unsent
  /\ UNCHANGED <<app, bridge, memory, journal, extension, starts, restores, issued, history>>

\* The extension starts a new host five seconds after it lost the old one.
Connect ==
  /\ host = "dead"
  /\ host' = "idle"
  /\ UNCHANGED <<app, bridge, memory, journal, posted, extension, counters, issued,
                 history, lost>>

\* The timer of the extension.
PostPoll ==
  /\ host # "dead" /\ Len(posted) < MaxPosted
  /\ posted' = Append(posted, Poll)
  /\ UNCHANGED <<app, bridge, memory, journal, host, extension, counters, issued,
                 history, lost>>

\* port?.postMessage: without a host the message is dropped.
Post(m) ==
  /\ posted' = IF host = "dead" THEN posted ELSE Append(posted, m)
  /\ lost' = lost \cup {t \in Txs : host = "dead" /\ m.kind = "result" /\ m.tx = t}

At(h, kind, step) == h \in handlers /\ h.command.kind = kind /\ h.step = step
Goto(h, step) == handlers' = (handlers \ {h}) \cup {Handler(h.command, step, h.tab)}
Finish(h) == handlers' = handlers \ {h}
NotHandlers == <<app, bridge, memory, journal, host, counters, issued>>

\* A call of the browser throws: the tab is closed, or discarded already, or the
\* browser refuses.  The transaction's record stays as it is.
HandlerThrows(h) ==
  /\ h \in handlers
  /\ \/ "api" \in Faults
     \/ h.step \in {"check", "discard", "reload"} /\ tabs[h.tab] = "closed"
     \/ h.step = "discard" /\ tabs[h.tab] # "live"
  /\ Finish(h)
  /\ Post(ExtensionError)
  /\ UNCHANGED <<NotHandlers, stored, tabs, history>>

\* The tab is read, and fails the gates of safeToDiscard.
DiscardRefused(h) ==
  /\ At(h, "discard", "check") /\ tabs[h.tab] # "closed"
  /\ Finish(h)
  /\ Post(Result(h.command.tx, "BLOCKED"))
  /\ UNCHANGED <<NotHandlers, stored, tabs, history>>

\* Fault: the record of the transaction is not written before the discard.
DiscardCheck_NoRecord(h) ==
  /\ At(h, "discard", "check") /\ tabs[h.tab] = "live"
  /\ Goto(h, "discard")
  /\ UNCHANGED <<NotHandlers, posted, stored, tabs, history, lost>>

DiscardCheck(h) ==
  /\ At(h, "discard", "check") /\ tabs[h.tab] = "live"
  /\ Goto(h, "store")
  /\ UNCHANGED <<NotHandlers, posted, stored, tabs, history, lost>>

\* Fault: the outcome is reported before the tab is discarded.
DiscardStore_Reports(h) ==
  /\ At(h, "discard", "store")
  /\ stored' = [stored EXCEPT ![h.command.tx] = h.tab]
  /\ Goto(h, "discard")
  /\ Post(Result(h.command.tx, "EXECUTED"))
  /\ UNCHANGED <<NotHandlers, tabs, history>>

DiscardStore(h) ==
  /\ At(h, "discard", "store")
  /\ stored' = [stored EXCEPT ![h.command.tx] = h.tab]
  /\ Goto(h, "discard")
  /\ UNCHANGED <<NotHandlers, posted, tabs, history, lost>>

\* chrome.tabs.discard, on the tab as it is by then.
DiscardTab(h) ==
  /\ At(h, "discard", "discard") /\ tabs[h.tab] = "live"
  /\ tabs' = [tabs EXCEPT ![h.tab] = h.command.tx]
  /\ discards' = [discards EXCEPT ![h.command.tx] = @ + 1]
  /\ Finish(h)
  /\ Post(Result(h.command.tx, "EXECUTED"))
  /\ UNCHANGED <<NotHandlers, stored, reloaded, overlapped>>

\* Fault: a transaction without a record is restored.
RestoreFind_Unchecked(h) ==
  /\ At(h, "restore", "find")
  /\ handlers' = (handlers \ {h}) \cup {Handler(h.command, "reload", stored[h.command.tx])}
  /\ UNCHANGED <<NotHandlers, posted, stored, tabs, history, lost>>

RestoreFind(h) ==
  /\ At(h, "restore", "find")
  /\ IF stored[h.command.tx] = None
       THEN Finish(h) /\ Post(Result(h.command.tx, "RESTORE_FAILED"))
       ELSE /\ handlers' = (handlers \ {h}) \cup
                            {Handler(h.command, "reload", stored[h.command.tx])}
            /\ UNCHANGED <<posted, lost>>
  /\ UNCHANGED <<NotHandlers, stored, tabs, history>>

\* chrome.tabs.reload brings a discarded tab back and merely reloads any other.
RestoreReload(h) ==
  /\ At(h, "restore", "reload") /\ tabs[h.tab] # "closed"
  /\ tabs' = [tabs EXCEPT ![h.tab] = "live"]
  /\ reloaded' = reloaded \cup {h.command.tx}
  /\ Goto(h, "remove")
  /\ UNCHANGED <<NotHandlers, posted, stored, discards, overlapped, lost>>

RestoreRemove(h) ==
  /\ At(h, "restore", "remove")
  /\ stored' = [stored EXCEPT ![h.command.tx] = None]
  /\ Finish(h)
  /\ Post(Result(h.command.tx, "ROLLED_BACK"))
  /\ UNCHANGED <<NotHandlers, tabs, history>>

-----------------------------------------------------------------------------
\* The user visits a discarded tab, which reloads it, or closes a tab.
UserOpens(tab) ==
  /\ tabs[tab] \in Txs
  /\ tabs' = [tabs EXCEPT ![tab] = "live"]
  /\ UNCHANGED <<NotHandlers, posted, handlers, stored, history, lost>>

UserCloses(tab) ==
  /\ tabs[tab] # "closed"
  /\ tabs' = [tabs EXCEPT ![tab] = "closed"]
  /\ UNCHANGED <<NotHandlers, posted, handlers, stored, history, lost>>

\* The storage of the extension survives; its handlers do not, and a tab id
\* names another tab afterwards.
BrowserRestarts ==
  /\ "browser" \in Faults /\ faults < MaxFaults
  /\ faults' = faults + 1
  /\ handlers' = {}
  /\ tabs' = [tab \in Tabs |-> "live"]
  /\ host' = "dead"
  /\ posted' = <<>>
  /\ lost' = lost \cup Unsent
  /\ UNCHANGED <<app, bridge, memory, journal, stored, starts, restores, issued, history>>

-----------------------------------------------------------------------------
Init ==
  /\ app = "off" /\ running = FALSE /\ server = "off" /\ handling = None
  /\ pending = <<>> /\ active = {} /\ planning = {} /\ restoring = {}
  /\ journal = [t \in Txs |-> "NONE"]
  /\ host = "idle" /\ posted = <<>>
  /\ handlers = {} /\ stored = [t \in Txs |-> None] /\ tabs = [tab \in Tabs |-> "live"]
  /\ starts = 0 /\ restores = 0 /\ faults = 0
  /\ issued = [t \in Txs |-> "no"]
  /\ discards = [t \in Txs |-> 0]
  /\ reloaded = {} /\ overlapped = {} /\ lost = {}

Server == ServerTest \/ ServerCreate \/ ServerDrop \/ ServerPoll \/ ServerResult
          \/ ServerOther \/ ServerPersist \/ ServerReply
Stopping == StopWake \/ StopJoin
Owner == \/ Start \/ QueueRestoreAll \/ Stop
         \/ \E t \in Txs : BlockDiscard(t) \/ PersistPlanned(t) \/ QueueRestore(t)
         \/ \E t \in Txs, tab \in Tabs : QueueDiscard(t, tab)
Extension == \E h \in handlers :
  \/ HandlerThrows(h)
  \/ DiscardRefused(h) \/ DiscardCheck(h) \/ DiscardStore(h) \/ DiscardTab(h)
  \/ RestoreFind(h) \/ RestoreReload(h) \/ RestoreRemove(h)
Environment == \/ HostDies \/ BrowserRestarts \/ AppEnds
               \/ \E tab \in Tabs : UserOpens(tab) \/ UserCloses(tab)

Next == Owner \/ Server \/ Stopping \/ HostRelay \/ Connect \/ PostPoll \/ Extension
        \/ Environment

Spec == Init /\ [][Next]_vars

\* The threads of the application are scheduled.  Nothing is assumed of a host
\* or a browser: there may be none, and none need ever connect.
Fairness == WF_vars(Server) /\ WF_vars(Stopping)

FairSpec == Spec /\ Fairness

-----------------------------------------------------------------------------
Commands == [kind : {"discard"}, tx : Txs, tab : Tabs]
            \cup [kind : {"restore"}, tx : Txs, request : 1 .. MaxOwner]
Results == [kind : {"result"}, tx : Txs, status : Final]

\* An empty hand is no message, and no tab.
ASSUME NoneAssumption ==
  None \notin Commands \cup Results \cup {Poll, ExtensionError} \cup Tabs

\* The values of the variables; the handler of a restore that has passed its
\* first call knows a tab.
TypeOK ==
  /\ app \in {"off", "up", "wake", "join", "stopped"}
  /\ running \in BOOLEAN
  /\ server \in {"off", "test", "create", "connect", "serve", "persist", "reply", "ended"}
  /\ handling \in Commands \cup Results \cup {Poll, ExtensionError, None}
  /\ pending \in Seq(Commands)
  /\ active \subseteq Txs /\ planning \subseteq Txs /\ restoring \subseteq Txs
  /\ journal \in [Txs -> Final \cup {"NONE", "PLANNED"}]
  /\ host \in {"dead", "idle", "waiting"}
  /\ posted \in Seq(Results \cup {Poll, ExtensionError})
  /\ stored \in [Txs -> Tabs \cup {None}]
  /\ tabs \in [Tabs -> {"live", "closed"} \cup Txs]
  /\ \A h \in handlers :
       /\ h.command \in Commands
       /\ h.step \in {"check", "store", "discard", "find", "reload", "remove"}
       /\ h.tab \in Tabs \cup {None}
       /\ h.step # "find" => h.tab \in Tabs
  /\ starts \in 0 .. MaxOwner /\ restores \in 0 .. MaxOwner /\ faults \in 0 .. MaxFaults
  /\ issued \in [Txs -> {"no", "now", "before"}]
  /\ discards \in [Txs -> Nat]
  /\ reloaded \subseteq Txs /\ overlapped \subseteq Txs /\ lost \subseteq Txs

\* A command leaves the queue before its answer is written, so a discard is
\* carried out once at most: a host that dies, a pipe that breaks and a restart
\* lose it and never repeat it on a tab the user has opened again.
DiscardedOnce == \A t \in Txs : discards[t] <= 1

\* As long as a tab lies discarded for a transaction, the extension has the
\* record that restore_tab needs, through deaths of the host, restarts of the
\* application and refused restores; unless the restore was begun while the
\* discard was still on its way, which may remove the record too early.
RecordKept ==
  \A tab \in Tabs : \A t \in Txs \ overlapped : tabs[tab] = t => stored[t] = tab

\* And the bridge that queued the discard can still ask for the restore: no
\* outcome that reaches it out of turn makes it forget a tab that is discarded.
StillKnown ==
  \A tab \in Tabs : \A t \in Txs \ overlapped :
    tabs[tab] = t /\ issued[t] = "now" => t \in active

\* The audit never claims what did not happen: EXECUTED is a tab that was
\* discarded, ROLLED_BACK one that was reloaded, BLOCKED one never touched.
AuditFaithful ==
  \A t \in Txs :
    /\ journal[t] = "EXECUTED" => discards[t] > 0
    /\ journal[t] = "ROLLED_BACK" => t \in reloaded
    /\ journal[t] = "BLOCKED" => discards[t] = 0

\* A discard that was made is in the audit, or its outcome is on its way there,
\* or was lost on the way: by a death, by a relay that found no pipe, or under
\* the PLANNED row of a caller that was slower than the browser.
OutcomeAccounted ==
  \A t \in Txs : discards[t] > 0 =>
    \/ journal[t] \in Final
    \/ t \in lost \cup Unsent
    \/ handling # None /\ handling.kind = "result" /\ handling.tx = t

\* Stop returns, unless it found no pipe to wake the server with, because the
\* server was about to create one, and no client ever connects to that pipe:
\* nothing else in the shutdown can keep the application from ending.
StopReturns ==
  app = "wake" ~> (app \in {"stopped", "off"} \/ [](app = "join" /\ server = "connect"))
=============================================================================
