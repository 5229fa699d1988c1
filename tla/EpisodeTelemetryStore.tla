------------------------ MODULE EpisodeTelemetryStore ------------------------
(***************************************************************************)
(* The store of workload episodes (EpisodeTelemetryStore.cpp) as the       *)
(* monitor thread drives it: every tick records one input, and every 300th *)
(* enforces retention.  The database keeps sessions, episodes and the      *)
(* summaries of an episode; the object keeps the ids of the session and of *)
(* the episode it believes to be open, with the context that episode was   *)
(* started for.  A transaction of the connection that has not committed is *)
(* lost when the process dies.                                             *)
(***************************************************************************)
EXTENDS Integers, FiniteSets

CONSTANTS
  Contexts,      \* what delimits an episode: workload phase and foreground behaviour
  Rows,          \* bound: ids of sessions and episodes, a set of integers
  Second,        \* clock units in a second: 2 tells milliseconds from whole seconds
  MaxTime,       \* bound on the clock
  Retention,     \* EPISODE_RETENTION_DAYS
  Faults,        \* "busy": the write lock is taken; "write": a statement of
                 \* Record or of the retention fails; "close": one of Close does
  MaxCrashes,    \* bound on the crashes
  None

ASSUME StoreAssumption ==
  /\ Rows \subseteq Nat
  /\ Second \in Nat \ {0}
  /\ MaxTime \in Nat /\ MaxTime >= Second
  /\ Retention \in Nat \ {0}
  /\ MaxCrashes \in Nat
  /\ None \notin Rows \cup Contexts

VARIABLES
  durable,   \* the database on the disk
  db,        \* the database as the connection sees it, with what it has not committed
  inTxn,     \* the connection is inside a transaction
  mem,       \* sessionId_, activeEpisodeId_, and the context of the latter
  input,     \* the input of the Record in progress
  pc,        \* where the monitor thread is
  now,
  crashes

vars == <<durable, db, inTxn, mem, input, pc, now, crashes>>

Absent == [ctx |-> None, session |-> None, start |-> 0, end |-> 0, reason |-> "NONE"]

Stored(base, e) == base.episodes[e] # Absent
Open(base, e)   == base.episodes[e].reason = "OPEN"

NoMemory == [session |-> None, episode |-> None, ctx |-> None]

\* time(nullptr) * 1000 and snapshot.timestamp * 1000: whole seconds.
Truncated(t) == t - (t % Second)

\* The timestamp Record derives from its input: qoe.timestampMs of a captured
\* sample, the whole second of the snapshot otherwise.
Timestamp == IF input.captured THEN now ELSE Truncated(now)

\* NewId: an id no row and no field holds.
Free == {i \in Rows : /\ ~ Stored(durable, i) /\ ~ Stored(db, i)
                      /\ durable.sessions[i] = "absent" /\ db.sessions[i] = "absent"
                      /\ i \notin {mem.session, mem.episode}}
NewId == CHOOSE i \in Free : TRUE

\* A statement outside a transaction commits by itself.
AutoCommit(base) == db' = base /\ durable' = base

Fails(fault) == fault \in Faults

\* Record returns: what is left of the tick is the retention of every 300th.
Returns == pc' = "retain"

-----------------------------------------------------------------------------
\* WaitForNextTick: at least a second after the tick before.
WaitForNextTick ==
  /\ pc = "wait"
  /\ Cardinality(Free) >= 2
  /\ now' \in now + Second .. MaxTime
  /\ \E c \in Contexts, captured \in BOOLEAN :
       input' = [ctx |-> c, captured |-> captured]
  /\ pc' = "record"
  /\ UNCHANGED <<durable, db, inTxn, mem, crashes>>

\* EnsureSession: sessionId_ is set before the row is inserted, and stays set
\* when the insertion fails.
NewSession ==
  /\ pc = "record" /\ mem.session = None
  /\ Free # {}                                          \* bound
  /\ mem' = [mem EXCEPT !.session = NewId]
  /\ \/ AutoCommit([db EXCEPT !.sessions[NewId] = "open"]) /\ pc' = "begin"
     \/ Fails("write") /\ Returns /\ UNCHANGED <<durable, db>>
  /\ UNCHANGED <<inTxn, input, now, crashes>>

Boundary == mem.episode = None \/ input.ctx # mem.ctx

\* Fault: the result of BEGIN is ignored.
BeginTransaction_Unchecked ==
  /\ pc = "begin" \/ (pc = "record" /\ mem.session # None)
  /\ inTxn' \in {TRUE} \cup (IF Fails("busy") THEN {inTxn} ELSE {})
  /\ pc' = IF ~ Boundary THEN "summary"
           ELSE IF mem.episode # None THEN "close" ELSE "start"
  /\ UNCHANGED <<durable, db, mem, input, now, crashes>>

\* BEGIN IMMEDIATE, which fails inside a transaction and when another
\* connection holds the write lock; Record then returns at once.
BeginTransaction ==
  /\ pc = "begin" \/ (pc = "record" /\ mem.session # None)
  /\ \/ /\ ~ inTxn
        /\ inTxn' = TRUE
        /\ pc' = IF ~ Boundary THEN "summary"
                 ELSE IF mem.episode # None THEN "close" ELSE "start"
     \/ /\ inTxn \/ Fails("busy")
        /\ Returns
        /\ UNCHANGED inTxn
  /\ UNCHANGED <<durable, db, mem, input, now, crashes>>

Ended(base, e, at, why) ==
  IF Stored(base, e)
  THEN [base EXCEPT !.episodes[e] = [@ EXCEPT !.end = at, !.reason = why]]
  ELSE base

\* CloseActiveEpisode at a change of context: the row gets its end and reason.
CloseActiveEpisode ==
  /\ pc = "close"
  /\ \/ /\ db' = Ended(db, mem.episode, Timestamp, "CHANGED")
        /\ mem' = [mem EXCEPT !.episode = None]
        /\ pc' = "start"
     \/ Fails("write") /\ pc' = "rollback" /\ UNCHANGED <<db, mem>>
  /\ UNCHANGED <<durable, inTxn, input, now, crashes>>

\* Fault: the remembered context is set once only.
StartEpisode_ForgetsContext ==
  LET row == [ctx |-> input.ctx, session |-> mem.session, start |-> Timestamp,
              end |-> Timestamp, reason |-> "OPEN"]
  IN  /\ pc = "start"
      /\ db' = [db EXCEPT !.episodes[NewId] = row] /\ pc' = "summary"
      /\ mem' = [mem EXCEPT !.episode = NewId, !.ctx = IF @ = None THEN input.ctx ELSE @]
      /\ UNCHANGED <<durable, inTxn, input, now, crashes>>

\* StartEpisode: the object adopts the new episode before the row exists.  A
\* failed insertion (also of an episode whose session has no row) forgets it
\* again, a statement that cannot be prepared does not.
StartEpisode ==
  LET row == [ctx |-> input.ctx, session |-> mem.session, start |-> Timestamp,
              end |-> Timestamp, reason |-> "OPEN"]
      adopted == [mem EXCEPT !.episode = NewId, !.ctx = input.ctx]
  IN  /\ pc = "start"
      /\ Free # {}                                          \* bound
      /\ \/ /\ db.sessions[mem.session] # "absent"
            /\ db' = [db EXCEPT !.episodes[NewId] = row]
            /\ mem' = adopted
            /\ pc' = "summary"
         \/ /\ db.sessions[mem.session] = "absent" \/ Fails("write")
            /\ mem' \in {[adopted EXCEPT !.episode = None]}
                        \cup (IF Fails("write") THEN {adopted} ELSE {})
            /\ pc' = "rollback"
            /\ UNCHANGED db
      /\ UNCHANGED <<durable, inTxn, input, now, crashes>>

\* WriteSummary and WriteCollectorHealth: nothing without a captured sample;
\* a summary needs the row of the active episode.
WriteSummary ==
  /\ pc = "summary"
  /\ \/ ~ input.captured /\ pc' = "commit" /\ UNCHANGED db
     \/ /\ input.captured /\ Stored(db, mem.episode)
        /\ db' = [db EXCEPT !.summaries = @ \cup
                    {[episode |-> mem.episode, at |-> Timestamp, ctx |-> input.ctx]}]
        /\ pc' = "commit"
     \/ /\ input.captured
        /\ ~ Stored(db, mem.episode) \/ Fails("write")
        /\ pc' = "rollback"
        /\ UNCHANGED db
  /\ UNCHANGED <<durable, inTxn, mem, input, now, crashes>>

Commit ==
  /\ pc = "commit"
  /\ \/ durable' = db /\ inTxn' = FALSE /\ Returns
     \/ Fails("write") /\ pc' = "rollback" /\ UNCHANGED <<durable, inTxn>>
  /\ UNCHANGED <<db, mem, input, now, crashes>>

\* ROLLBACK undoes the rows and not the members of the object.
Rollback ==
  /\ pc = "rollback"
  /\ db' = durable
  /\ inTxn' = FALSE
  /\ Returns
  /\ UNCHANGED <<durable, mem, input, now, crashes>>

-----------------------------------------------------------------------------
Cutoff == now - Retention
Kept == {s \in db.summaries : s.at >= Cutoff}
Expired == {e \in Rows : Stored(db, e) /\ db.episodes[e].end < Cutoff}
Referenced == Expired \cap {s.episode : s \in Kept}

SkipRetention ==
  /\ pc = "retain" /\ pc' = "wait"
  /\ UNCHANGED <<durable, db, inTxn, mem, input, now, crashes>>

\* EnforceRetention: one transaction, which stops at the first statement that
\* fails and is then neither committed nor rolled back.  Deleting an episode
\* fails when a summary that is kept refers to it.
EnforceRetention ==
  /\ pc = "retain"
  /\ \/ /\ ~ inTxn /\ Referenced = {}
        /\ AutoCommit([db EXCEPT !.summaries = Kept,
                         !.episodes = [e \in Rows |-> IF e \in Expired THEN Absent ELSE db.episodes[e]]])
        /\ UNCHANGED inTxn
     \/ /\ ~ inTxn /\ (Referenced # {} \/ Fails("write"))
        /\ db' = [db EXCEPT !.summaries = Kept]
        /\ inTxn' = TRUE
        /\ UNCHANGED durable
     \/ /\ inTxn \/ Fails("busy")
        /\ UNCHANGED <<durable, db, inTxn>>
  /\ pc' = "wait"
  /\ UNCHANGED <<mem, input, now, crashes>>

-----------------------------------------------------------------------------
\* Open, at the start of the monitor thread.
OpenStore ==
  /\ pc = "closed"
  /\ pc' = "wait"
  /\ UNCHANGED <<durable, db, inTxn, mem, input, now, crashes>>

\* The active episode, if it has a row, ends with the session.
EpisodeEnded(t) ==
  IF mem.episode = None THEN db
  ELSE Ended(db, mem.episode, Truncated(t), "SESSION_ENDED")

\* The session, if it has a row, ends.
SessionEnded(base) ==
  IF mem.session = None \/ db.sessions[mem.session] = "absent" THEN base
  ELSE [base EXCEPT !.sessions[mem.session] = "ended"]

\* Close's two statements, each of which may fail by itself; both errors are
\* ignored.  Inside a transaction what they write is lost with the connection.
AfterClose(t) ==
  LET ended == {EpisodeEnded(t)} \cup (IF Fails("close") THEN {db} ELSE {})
      both  == {SessionEnded(base) : base \in ended} \cup (IF Fails("close") THEN ended ELSE {})
  IN  IF inTxn THEN {durable} ELSE both

\* Fault: the ids survive the end of the session.
Close_KeepsMemory ==
  /\ pc = "wait"
  /\ \E base \in AfterClose(now) : AutoCommit(base)
  /\ inTxn' = FALSE
  /\ pc' = "closed"
  /\ UNCHANGED <<mem, input, now, crashes>>

\* Close, from the destructor at the end of the monitor thread: the wait for a
\* tick is cut short.
Close ==
  /\ pc = "wait"
  /\ now' \in now .. MaxTime
  /\ \E base \in AfterClose(now') : AutoCommit(base)
  /\ inTxn' = FALSE
  /\ mem' = NoMemory
  /\ pc' = "closed"
  /\ UNCHANGED <<input, crashes>>

Crash ==
  /\ pc # "closed"
  /\ crashes < MaxCrashes
  /\ crashes' = crashes + 1
  /\ db' = durable
  /\ inTxn' = FALSE
  /\ mem' = NoMemory
  /\ pc' = "closed"
  /\ UNCHANGED <<durable, input, now>>

Init ==
  /\ durable = [sessions |-> [i \in Rows |-> "absent"],
                episodes |-> [i \in Rows |-> Absent],
                summaries |-> {}]
  /\ db = durable
  /\ inTxn = FALSE
  /\ mem = NoMemory
  /\ input = [ctx |-> None, captured |-> FALSE]
  /\ pc = "closed"
  /\ now = Second
  /\ crashes = 0

Record ==
  \/ NewSession \/ BeginTransaction \/ CloseActiveEpisode \/ StartEpisode
  \/ WriteSummary \/ Commit \/ Rollback

Next ==
  \/ WaitForNextTick \/ Record \/ SkipRetention \/ EnforceRetention
  \/ OpenStore \/ Close \/ Crash

Spec == Init /\ [][Next]_vars

-----------------------------------------------------------------------------
Times == 0 .. MaxTime
Episodes == [ctx : Contexts \cup {None}, session : Rows \cup {None}, start : Times,
             end : Times, reason : {"NONE", "OPEN", "CHANGED", "SESSION_ENDED"}]
Databases == [sessions : [Rows -> {"absent", "open", "ended"}],
              episodes : [Rows -> Episodes],
              summaries : SUBSET [episode : Rows, at : Times, ctx : Contexts]]

\* The state is well typed, a connection outside a transaction sees what is on
\* the disk, and only Record's steps and a failed retention leave one open.
TypeOK ==
  /\ durable \in Databases /\ db \in Databases
  /\ inTxn \in BOOLEAN
  /\ mem \in [session : Rows \cup {None}, episode : Rows \cup {None},
              ctx : Contexts \cup {None}]
  /\ input \in [ctx : Contexts \cup {None}, captured : BOOLEAN]
  /\ pc \in {"closed", "wait", "record", "begin", "close", "start", "summary",
             "commit", "rollback", "retain"}
  /\ now \in Times
  /\ crashes \in 0 .. MaxCrashes
  /\ ~ inTxn => db = durable
  /\ pc \in {"close", "start", "summary", "commit", "rollback"} => inTxn

\* Every summary on the disk belongs to an episode that is on the disk, was
\* sampled in that episode's context and not before its start (and, when a
\* change of context closed the episode, not after its end): an episode is the
\* atomic unit of the data set, whatever failed or crashed in between.
EpisodeIsolation ==
  \A s \in durable.summaries :
    LET e == durable.episodes[s.episode]
    IN  /\ e # Absent
        /\ s.ctx = e.ctx
        /\ s.at >= e.start
        /\ e.reason = "CHANGED" => s.at <= e.end

\* A closed episode is final: its row never changes, other than to be deleted
\* by retention, and it never receives another summary.
SummariesOf(base, e) == {s \in base.summaries : s.episode = e}
ClosedEpisodesFinal ==
  [][\A e \in Rows : durable.episodes[e].reason \in {"CHANGED", "SESSION_ENDED"} =>
       /\ durable'.episodes[e] \in {durable.episodes[e], Absent}
       /\ SummariesOf(durable', e) \subseteq SummariesOf(durable, e)]_vars

\* Between two ticks, an episode of the running session that is still OPEN on
\* the disk is the one the store is about to extend or close, and a session
\* that ended has none: every episode left behind has its end and its reason.
OpenIsActive ==
  pc \in {"wait", "closed"} =>
    \A e \in Rows : Open(durable, e) =>
      /\ durable.sessions[durable.episodes[e].session] # "ended"
      /\ mem.session = durable.episodes[e].session => mem.episode = e

\* EPISODE_RETENTION_DAYS bounds the age of the summaries: none on the disk is
\* older than the cutoff once retention has been enforced at it.
RetentionEnforced ==
  [][EnforceRetention => \A s \in durable'.summaries : s.at >= Cutoff]_vars
=============================================================================
