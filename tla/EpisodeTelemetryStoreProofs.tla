-------------------- MODULE EpisodeTelemetryStoreProofs --------------------
(***************************************************************************)
(* An episode on the disk is the atomic unit of the data set, for any      *)
(* contexts, clock, retention and faults.                                  *)
(***************************************************************************)
EXTENDS EpisodeTelemetryStore, TLAPS

InRecord == pc \in {"record", "begin", "close", "start", "summary", "commit", "rollback"}

\* What the thread knows at its program counter.
RecordOK ==
  /\ InRecord => input.ctx \in Contexts
  /\ pc = "close" => mem.episode # None
  /\ pc = "summary" => mem.episode # None /\ mem.ctx = input.ctx
  /\ pc \in {"begin", "close", "start"} => mem.session # None

\* EpisodeIsolation of a database.
Isolated(base) ==
  \A s \in base.summaries :
    LET e == base.episodes[s.episode]
    IN  /\ e # Absent
        /\ s.ctx = e.ctx
        /\ s.at >= e.start
        /\ e.reason = "CHANGED" => s.at <= e.end

\* Nothing in a database is later than t.
UpTo(base, t) ==
  /\ \A s \in base.summaries : s.at <= t
  /\ \A e \in Rows : base.episodes[e].start <= t

\* While an input is recorded nothing is later than its timestamp: the input
\* came at least a second after the one before.
Past == IF InRecord THEN Timestamp ELSE now

\* The episode e that the object extends is open, in the context c.
Remembered(base, e, c) ==
  e # None /\ Stored(base, e) => Open(base, e) /\ base.episodes[e].ctx = c

Closed(base, e) == base.episodes[e].reason \in {"CHANGED", "SESSION_ENDED"}

\* From one database to a later one, closed episodes are final.
Final(old, new) ==
  \A e \in Rows : Closed(old, e) =>
    /\ new.episodes[e] \in {old.episodes[e], Absent}
    /\ SummariesOf(new, e) \subseteq SummariesOf(old, e)

\* What the store relies on when it extends episode e in context c after t.
Sound(base, e, c, t) == Isolated(base) /\ UpTo(base, t) /\ Remembered(base, e, c)

DataOK(base) == Sound(base, mem.episode, mem.ctx, Past)

IInv == TypeOK /\ RecordOK /\ DataOK(durable) /\ DataOK(db) /\ Final(durable, db)

-----------------------------------------------------------------------------
(* The clock, ids and rows. *)

\* A whole second is less than a second behind.
LEMMA TruncatedBounds ==
  ASSUME NEW t \in Nat
  PROVE  Truncated(t) \in Nat /\ Truncated(t) <= t /\ t - Second < Truncated(t)
<1>1. t % Second \in 0 .. Second - 1 /\ t % Second <= t
  BY StoreAssumption
<1> QED  BY <1>1, StoreAssumption DEF Truncated

\* Record stamps an input less than a second behind the clock.
LEMMA TimestampBounds ==
  ASSUME TypeOK
  PROVE  /\ Timestamp \in Times /\ Timestamp <= now /\ now - Second < Timestamp
         /\ Past \in Times /\ Past <= now /\ now \in Times
<1>1. now \in Nat /\ now \in 0 .. MaxTime
  BY DEF TypeOK, Times
<1>2. Timestamp = now \/ Timestamp = Truncated(now)
  BY DEF Timestamp
<1>3. Timestamp \in Nat /\ Timestamp <= now /\ now - Second < Timestamp
  BY <1>1, <1>2, TruncatedBounds, StoreAssumption
<1>4. Timestamp \in Times
  BY <1>1, <1>3, StoreAssumption DEF Times
<1> QED  BY <1>1, <1>3, <1>4 DEF Past, Times

\* A new id names no row and nothing in memory.
LEMMA FreshId ==
  ASSUME Free # {}
  PROVE  /\ NewId \in Rows /\ ~ Stored(db, NewId) /\ ~ Stored(durable, NewId)
         /\ NewId # mem.session /\ NewId # mem.episode
BY DEF NewId, Free

Ends == {"CHANGED", "SESSION_ENDED"}

\* What Ended does to a database.
LEMMA EndedRows ==
  ASSUME NEW base \in Databases, NEW e \in Rows, NEW at \in Times,
         NEW why \in Ends
  PROVE  /\ Ended(base, e, at, why) \in Databases
         /\ Ended(base, e, at, why).summaries = base.summaries
         /\ Ended(base, e, at, why).sessions = base.sessions
         /\ \A x \in Rows : x # e \/ ~ Stored(base, e) =>
              Ended(base, e, at, why).episodes[x] = base.episodes[x]
         /\ Stored(base, e) =>
              /\ Stored(Ended(base, e, at, why), e)
              /\ Ended(base, e, at, why).episodes[e].ctx = base.episodes[e].ctx
              /\ Ended(base, e, at, why).episodes[e].start = base.episodes[e].start
              /\ Ended(base, e, at, why).episodes[e].end = at
              /\ Ended(base, e, at, why).episodes[e].reason = why
<1>1. CASE ~ Stored(base, e)
  BY <1>1 DEF Ended
<1>2. CASE Stored(base, e)
  <2> DEFINE row == [base.episodes[e] EXCEPT !.end = at, !.reason = why]
             new == Ended(base, e, at, why)
  <2>1. base.episodes[e] \in Episodes
    BY DEF Databases
  <2>2. /\ row \in Episodes /\ row.ctx = base.episodes[e].ctx
        /\ row.start = base.episodes[e].start /\ row.end = at /\ row.reason = why
    <3>1. why = "CHANGED" \/ why = "SESSION_ENDED"
      BY DEF Ends
    <3> QED  BY <2>1, <3>1 DEF Episodes
  <2>3. row # Absent
    BY <2>2 DEF Absent, Ends
  <2>4. new = [base EXCEPT !.episodes[e] = row]
    BY <1>2 DEF Ended
  <2> HIDE DEF row, new
  <2>5. /\ new \in Databases /\ new.summaries = base.summaries /\ new.sessions = base.sessions
        /\ new.episodes[e] = row
        /\ \A x \in Rows \ {e} : new.episodes[x] = base.episodes[x]
    BY <2>2, <2>4 DEF Databases
  <2>6. Stored(new, e)
    BY <2>3, <2>5 DEF Stored
  <2> QED  BY <1>2, <2>2, <2>5, <2>6 DEF new
<1> QED  BY <1>1, <1>2

-----------------------------------------------------------------------------
(* Types. *)

\* The database of a first start.
LEMMA EmptyOK == [sessions |-> [i \in Rows |-> "absent"], episodes |-> [i \in Rows |-> Absent],
                  summaries |-> {}] \in Databases
<1>1. Absent \in Episodes
  BY StoreAssumption DEF Absent, Episodes, Times
<1> QED  BY <1>1 DEF Databases

\* The initial state is well typed.
LEMMA TypeInit == Init => TypeOK
<1> SUFFICES ASSUME Init PROVE TypeOK
  OBVIOUS
<1>1. durable \in Databases /\ db = durable
  BY EmptyOK DEF Init
<1>2. now \in Times /\ crashes \in 0 .. MaxCrashes
  BY StoreAssumption DEF Init, Times
<1>3. mem \in [session : Rows \cup {None}, episode : Rows \cup {None}, ctx : Contexts \cup {None}]
  BY DEF Init, NoMemory
<1>4. input \in [ctx : Contexts \cup {None}, captured : BOOLEAN]
  BY DEF Init
<1> QED  BY <1>1, <1>2, <1>3, <1>4 DEF Init, TypeOK

\* The databases that the steps produce.
LEMMA NewSessionOK ==
  ASSUME NEW base \in Databases, NEW id \in Rows
  PROVE  LET new == [base EXCEPT !.sessions[id] = "open"]
         IN  /\ new \in Databases
             /\ new.episodes = base.episodes /\ new.summaries = base.summaries
BY DEF Databases

\* Inserting an episode.
LEMMA NewEpisodeOK ==
  ASSUME NEW base \in Databases, NEW id \in Rows, NEW row \in Episodes
  PROVE  LET new == [base EXCEPT !.episodes[id] = row]
         IN  /\ new \in Databases
             /\ new.episodes[id] = row
             /\ \A x \in Rows \ {id} : new.episodes[x] = base.episodes[x]
             /\ new.summaries = base.summaries
BY DEF Databases

\* Inserting a summary.
LEMMA NewSummaryOK ==
  ASSUME NEW base \in Databases, NEW s \in [episode : Rows, at : Times, ctx : Contexts]
  PROVE  LET new == [base EXCEPT !.summaries = @ \cup {s}]
         IN  /\ new \in Databases
             /\ new.episodes = base.episodes /\ new.summaries = base.summaries \cup {s}
BY DEF Databases

\* Deleting summaries.
LEMMA FewerSummariesOK ==
  ASSUME NEW base \in Databases, NEW S, S \subseteq base.summaries
  PROVE  LET new == [base EXCEPT !.summaries = S]
         IN  /\ new \in Databases
             /\ new.episodes = base.episodes /\ new.summaries = S
BY DEF Databases

\* The summaries S, without the episodes D.
Pruned(base, S, D) ==
  [base EXCEPT !.summaries = S,
     !.episodes = [e \in Rows |-> IF e \in D THEN Absent ELSE base.episodes[e]]]

\* Deleting summaries and episodes.
LEMMA FewerRowsOK ==
  ASSUME NEW base \in Databases, NEW S, S \subseteq base.summaries, NEW D
  PROVE  /\ Pruned(base, S, D) \in Databases
         /\ \A e \in Rows : Pruned(base, S, D).episodes[e] =
                            IF e \in D THEN Absent ELSE base.episodes[e]
         /\ Pruned(base, S, D).summaries = S
<1>1. Absent \in Episodes
  BY StoreAssumption DEF Absent, Episodes, Times
<1>2. [e \in Rows |-> IF e \in D THEN Absent ELSE base.episodes[e]] \in [Rows -> Episodes]
  BY <1>1 DEF Databases
<1> QED  BY <1>2 DEF Databases, Pruned

\* The active episode, if stored, ends with its session.
LEMMA EpisodeEndedOK ==
  ASSUME TypeOK, NEW t \in Times
  PROVE  /\ EpisodeEnded(t) \in Databases
         /\ EpisodeEnded(t).summaries = db.summaries
         /\ \A x \in Rows : x # mem.episode => EpisodeEnded(t).episodes[x] = db.episodes[x]
         /\ mem.episode # None =>
              LET e == mem.episode IN
              /\ ~ Stored(db, e) => EpisodeEnded(t).episodes[e] = db.episodes[e]
              /\ Stored(db, e) =>
                   /\ Stored(EpisodeEnded(t), e)
                   /\ EpisodeEnded(t).episodes[e].ctx = db.episodes[e].ctx
                   /\ EpisodeEnded(t).episodes[e].start = db.episodes[e].start
                   /\ EpisodeEnded(t).episodes[e].reason = "SESSION_ENDED"
<1> DEFINE ended == EpisodeEnded(t)
<1>1. Truncated(t) \in Times
  <2>1. t \in Nat /\ t <= MaxTime
    BY StoreAssumption DEF Times
  <2> QED  BY <2>1, TruncatedBounds, StoreAssumption DEF Times
<1>2. /\ ended \in Databases /\ ended.summaries = db.summaries
      /\ \A x \in Rows : x # mem.episode => ended.episodes[x] = db.episodes[x]
      /\ mem.episode # None =>
           LET e == mem.episode IN
           /\ ~ Stored(db, e) => ended.episodes[e] = db.episodes[e]
           /\ Stored(db, e) =>
                /\ Stored(ended, e)
                /\ ended.episodes[e].ctx = db.episodes[e].ctx
                /\ ended.episodes[e].start = db.episodes[e].start
                /\ ended.episodes[e].reason = "SESSION_ENDED"
  <2>1. CASE mem.episode = None
    BY <2>1 DEF TypeOK, EpisodeEnded
  <2>2. CASE mem.episode # None
    <3>1. mem.episode \in Rows /\ db \in Databases
      BY <2>2 DEF TypeOK
    <3>2. ended = Ended(db, mem.episode, Truncated(t), "SESSION_ENDED")
      BY <2>2 DEF EpisodeEnded
    <3> HIDE DEF ended
    <3> DEFINE why == "SESSION_ENDED"
    <3>3. why \in Ends /\ why = "SESSION_ENDED"
      BY DEF Ends
    <3> HIDE DEF why
    <3>4. ended = Ended(db, mem.episode, Truncated(t), why)
      BY <3>2, <3>3
    <3>5. /\ ended \in Databases /\ ended.summaries = db.summaries
          /\ \A x \in Rows : x # mem.episode \/ ~ Stored(db, mem.episode) =>
               ended.episodes[x] = db.episodes[x]
          /\ Stored(db, mem.episode) =>
               /\ Stored(ended, mem.episode)
               /\ ended.episodes[mem.episode].ctx = db.episodes[mem.episode].ctx
               /\ ended.episodes[mem.episode].start = db.episodes[mem.episode].start
               /\ ended.episodes[mem.episode].reason = why
      BY <1>1, <3>1, <3>3, <3>4, EndedRows
    <3> QED  BY <2>2, <3>1, <3>3, <3>5
  <2> QED  BY <2>1, <2>2
<1> QED  BY <1>2

\* What Close leaves: episodes and summaries as they were, or the active episode ended.
LEMMA AfterCloseOK ==
  ASSUME TypeOK, NEW t \in Times, NEW base \in AfterClose(t), ~ inTxn
  PROVE  /\ base \in Databases
         /\ \E b \in {db, EpisodeEnded(t)} :
              b \in Databases /\ base.episodes = b.episodes /\ base.summaries = b.summaries
<1>1. PICK b \in {db, EpisodeEnded(t)} : base = b \/ base = SessionEnded(b)
  BY DEF AfterClose
<1>2. b \in Databases
  BY <1>1, EpisodeEndedOK DEF TypeOK
<1>3. CASE base = b
  BY <1>1, <1>2, <1>3
<1>4. CASE base # b
  <2>1. mem.session \in Rows /\ base = [b EXCEPT !.sessions[mem.session] = "ended"]
    BY <1>1, <1>4 DEF SessionEnded, TypeOK
  <2>2. [b.sessions EXCEPT ![mem.session] = "ended"] \in [Rows -> {"absent", "open", "ended"}]
    BY <1>2, <2>1 DEF Databases
  <2>3. base \in Databases /\ base.episodes = b.episodes /\ base.summaries = b.summaries
    BY <1>2, <2>1, <2>2 DEF Databases
  <2> QED  BY <1>1, <1>2, <2>3
<1> QED  BY <1>3, <1>4

\* Every step keeps the state well typed.
LEMMA TypeStep == TypeOK /\ RecordOK /\ [Next]_vars => TypeOK'
<1> SUFFICES ASSUME TypeOK, RecordOK, [Next]_vars PROVE TypeOK'
  OBVIOUS
<1> DEFINE MemType == [session : Rows \cup {None}, episode : Rows \cup {None},
                       ctx : Contexts \cup {None}]
           InputType == [ctx : Contexts \cup {None}, captured : BOOLEAN]
<1>t. /\ durable \in Databases /\ db \in Databases /\ mem \in MemType /\ input \in InputType
      /\ now \in Times /\ crashes \in 0 .. MaxCrashes
  BY DEF TypeOK
<1>m. NoMemory \in MemType
  BY DEF NoMemory
<1>1. CASE WaitForNextTick
  <2>1. now' \in Times
    BY <1>1, <1>t, StoreAssumption DEF WaitForNextTick, Times
  <2>2. input' \in InputType
    BY <1>1 DEF WaitForNextTick
  <2> QED  BY <1>1, <2>1, <2>2 DEF WaitForNextTick, TypeOK
<1>2. CASE NewSession
  <2>1. NewId \in Rows
    BY <1>2, FreshId DEF NewSession
  <2>2. mem' \in MemType
    BY <1>2, <1>t, <2>1 DEF NewSession
  <2>3. durable' \in Databases /\ db' \in Databases /\ (~ inTxn => db' = durable')
    BY <1>2, <1>t, <2>1, NewSessionOK DEF NewSession, AutoCommit, TypeOK
  <2>4. pc' \in {"begin", "retain"} /\ UNCHANGED <<inTxn, input, now, crashes>>
    BY <1>2 DEF NewSession, Returns
  <2> QED  BY <2>2, <2>3, <2>4 DEF TypeOK
<1>3. CASE BeginTransaction
  <2>1. UNCHANGED <<durable, db, mem, input, now, crashes>>
    BY <1>3 DEF BeginTransaction
  <2>2. CASE /\ ~ inTxn
             /\ inTxn' = TRUE
             /\ pc' = IF ~ Boundary THEN "summary"
                      ELSE IF mem.episode # None THEN "close" ELSE "start"
    BY <2>1, <2>2 DEF TypeOK
  <2>3. CASE (inTxn \/ Fails("busy")) /\ Returns /\ UNCHANGED inTxn
    BY <2>1, <2>3 DEF TypeOK, Returns
  <2> QED  BY <1>3, <2>2, <2>3 DEF BeginTransaction
<1>4. CASE CloseActiveEpisode
  <2>1. mem.episode \in Rows
    BY <1>4, <1>t DEF CloseActiveEpisode, RecordOK
  <2>2. db' \in Databases
    <3>1. db' = db \/ db' = Ended(db, mem.episode, Timestamp, "CHANGED")
      BY <1>4 DEF CloseActiveEpisode
    <3>2. Timestamp \in Times /\ db \in Databases
      BY <1>t, TimestampBounds
    <3>3. "CHANGED" \in Ends
      BY DEF Ends
    <3> QED  BY <2>1, <3>1, <3>2, <3>3, EndedRows
  <2>3. mem' \in MemType
    BY <1>4, <1>t DEF CloseActiveEpisode
  <2> QED  BY <1>4, <2>2, <2>3 DEF CloseActiveEpisode, TypeOK
<1>5. CASE StartEpisode
  <2> DEFINE row == [ctx |-> input.ctx, session |-> mem.session, start |-> Timestamp,
                     end |-> Timestamp, reason |-> "OPEN"]
             adopted == [mem EXCEPT !.episode = NewId, !.ctx = input.ctx]
  <2>1. NewId \in Rows
    BY <1>5, FreshId DEF StartEpisode
  <2>2. row \in Episodes
    BY <1>t, TimestampBounds DEF Episodes
  <2>3. adopted \in MemType /\ [adopted EXCEPT !.episode = None] \in MemType
    BY <1>t, <2>1
  <2>4. [db EXCEPT !.episodes[NewId] = row] \in Databases
    BY <1>t, <2>1, <2>2, NewEpisodeOK
  <2>5. /\ db' \in {db, [db EXCEPT !.episodes[NewId] = row]}
        /\ mem' \in {adopted, [adopted EXCEPT !.episode = None]}
        /\ pc = "start" /\ pc' \in {"summary", "rollback"}
        /\ UNCHANGED <<durable, inTxn, input, now, crashes>>
    BY <1>5 DEF StartEpisode
  <2>6. db' \in Databases /\ mem' \in MemType
    BY <1>t, <2>3, <2>4, <2>5
  <2> HIDE DEF row, adopted
  <2> QED  BY <2>5, <2>6 DEF TypeOK
<1>6. CASE WriteSummary
  <2>1. CASE db' = db
    BY <1>6, <2>1 DEF WriteSummary, TypeOK
  <2>2. CASE db' # db
    <3> DEFINE s == [episode |-> mem.episode, at |-> Timestamp, ctx |-> input.ctx]
    <3>1. mem.episode \in Rows /\ input.ctx \in Contexts
      BY <1>6, <1>t DEF WriteSummary, RecordOK, InRecord
    <3>2. s \in [episode : Rows, at : Times, ctx : Contexts]
      BY <3>1, TimestampBounds
    <3>3. db' = [db EXCEPT !.summaries = @ \cup {s}]
      BY <1>6, <2>2 DEF WriteSummary
    <3> HIDE DEF s
    <3>4. db' \in Databases
      BY <1>t, <3>2, <3>3, NewSummaryOK
    <3> QED  BY <1>6, <3>4 DEF WriteSummary, TypeOK
  <2> QED  BY <2>1, <2>2
<1>7. CASE Commit
  BY <1>7 DEF Commit, TypeOK, Returns
<1>8. CASE Rollback
  BY <1>8 DEF Rollback, TypeOK, Returns
<1>9. CASE SkipRetention \/ OpenStore
  BY <1>9 DEF SkipRetention, OpenStore, TypeOK
<1>10. CASE EnforceRetention
  <2>1. Kept \subseteq db.summaries
    BY DEF Kept
  <2>2. /\ db' \in Databases /\ durable' \in Databases
        /\ ~ inTxn' => db' = durable'
    <3>1. [db EXCEPT !.summaries = Kept] \in Databases
      BY <1>t, <2>1, FewerSummariesOK
    <3>2. Pruned(db, Kept, Expired) \in Databases
      BY <1>t, <2>1, FewerRowsOK
    <3> QED  BY <1>10, <1>t, <3>1, <3>2 DEF EnforceRetention, AutoCommit, TypeOK, Pruned
  <2> QED  BY <1>10, <2>2 DEF EnforceRetention, TypeOK
<1>11. CASE Close
  <2>1. now' \in Times
    BY <1>11, <1>t, StoreAssumption DEF Close, Times
  <2>2. durable' \in Databases /\ db' = durable'
    <3>1. PICK base \in AfterClose(now') : AutoCommit(base)
      BY <1>11 DEF Close
    <3>2. CASE inTxn
      BY <1>t, <3>1, <3>2 DEF AfterClose, AutoCommit
    <3>3. CASE ~ inTxn
      BY <2>1, <3>1, <3>3, AfterCloseOK DEF AutoCommit
    <3> QED  BY <3>2, <3>3
  <2> QED  BY <1>11, <1>m, <2>1, <2>2 DEF Close, TypeOK
<1>12. CASE Crash
  <2>1. crashes' \in 0 .. MaxCrashes
    BY <1>12, <1>t, StoreAssumption DEF Crash
  <2> QED  BY <1>12, <1>m, <2>1 DEF Crash, TypeOK
<1>13. CASE UNCHANGED vars
  BY <1>13 DEF vars, TypeOK
<1> QED
  BY <1>1, <1>2, <1>3, <1>4, <1>5, <1>6, <1>7, <1>8, <1>9, <1>10, <1>11, <1>12, <1>13
  DEF Next, Record

-----------------------------------------------------------------------------
(* What the steps do to sound databases. *)

\* A database stays sound as time passes, and when the object forgets.
LEMMA Later ==
  ASSUME NEW base \in Databases, NEW e, NEW c, NEW t \in Times, NEW u \in Times, t <= u,
         Sound(base, e, c, t)
  PROVE  Sound(base, e, c, u) /\ \A d : Sound(base, None, d, u)
<1>1. UpTo(base, u)
  <2>1. \A s \in base.summaries : s.at \in Times
    BY DEF Databases
  <2>2. \A x \in Rows : base.episodes[x].start \in Times
    BY DEF Databases, Episodes
  <2>3. \A i \in Times : i <= t => i <= u
    BY StoreAssumption DEF Times
  <2> QED  BY <2>1, <2>2, <2>3 DEF Sound, UpTo
<1> QED  BY <1>1 DEF Sound, Remembered

\* Only what episodes and summaries hold matters.
LEMMA SameRows ==
  ASSUME NEW base, NEW new, new.episodes = base.episodes, new.summaries = base.summaries,
         NEW old, NEW e, NEW c, NEW t
  PROVE  /\ Sound(base, e, c, t) => Sound(new, e, c, t)
         /\ Final(old, base) => Final(old, new)
BY DEF Sound, Isolated, UpTo, Remembered, Stored, Open, Final, SummariesOf

\* A database that does not change closes nothing.
LEMMA FinalReflexive == \A base : Final(base, base)
BY DEF Final

\* A closed episode is stored and is not the one the object extends.
LEMMA ClosedIsStored ==
  ASSUME NEW base, NEW e
  PROVE  Closed(base, e) => Stored(base, e) /\ ~ Open(base, e)
BY DEF Closed, Stored, Open, Absent

\* CloseActiveEpisode and Close: the episode the object extends ends.
LEMMA SoundAfterEnd ==
  ASSUME NEW old, NEW base \in Databases, NEW new, NEW e \in Rows, NEW c, NEW t \in Times,
         Sound(base, e, c, t), Final(old, base), Remembered(old, e, c),
         new.summaries = base.summaries,
         \A x \in Rows : x # e \/ ~ Stored(base, e) => new.episodes[x] = base.episodes[x],
         Stored(base, e) =>
           /\ Stored(new, e)
           /\ new.episodes[e].ctx = base.episodes[e].ctx
           /\ new.episodes[e].start = base.episodes[e].start
           /\ new.episodes[e].reason = "CHANGED" => new.episodes[e].end = t
  PROVE  \A d : Sound(new, None, d, t) /\ Final(old, new)
<1>1. ASSUME NEW s \in new.summaries
      PROVE  /\ new.episodes[s.episode] # Absent
             /\ s.ctx = new.episodes[s.episode].ctx
             /\ s.at >= new.episodes[s.episode].start
             /\ new.episodes[s.episode].reason = "CHANGED" => s.at <= new.episodes[s.episode].end
  <2>1. s \in base.summaries /\ s.episode \in Rows
    BY <1>1 DEF Databases
  <2>2. /\ base.episodes[s.episode] # Absent
        /\ s.ctx = base.episodes[s.episode].ctx
        /\ s.at >= base.episodes[s.episode].start
        /\ base.episodes[s.episode].reason = "CHANGED" => s.at <= base.episodes[s.episode].end
        /\ s.at <= t
    BY <2>1 DEF Sound, Isolated, UpTo
  <2>3. CASE s.episode = e
    BY <2>2, <2>3 DEF Stored
  <2>4. CASE s.episode # e
    BY <2>1, <2>2, <2>4
  <2> QED  BY <2>3, <2>4
<1>2. Isolated(new)
  BY <1>1 DEF Isolated
<1>3. UpTo(new, t)
  BY DEF Sound, UpTo
<1>4. Final(old, new)
  <2> SUFFICES ASSUME NEW x \in Rows, Closed(old, x)
               PROVE  /\ new.episodes[x] \in {old.episodes[x], Absent}
                      /\ SummariesOf(new, x) \subseteq SummariesOf(old, x)
    BY DEF Final
  <2>1. x # e \/ None = e
    BY ClosedIsStored DEF Remembered
  <2>2. None \notin Rows
    BY StoreAssumption
  <2>3. new.episodes[x] = base.episodes[x]
    BY <2>1, <2>2
  <2> QED  BY <2>3 DEF Final, SummariesOf
<1> QED  BY <1>2, <1>3, <1>4 DEF Sound, Remembered

\* StartEpisode: a new episode from t on.
LEMMA SoundAfterStart ==
  ASSUME NEW old, NEW base \in Databases, NEW new, NEW e, NEW c, NEW t \in Times,
         NEW id \in Rows, NEW d, Sound(base, e, c, t), Final(old, base),
         ~ Stored(base, id), ~ Stored(old, id),
         new.summaries = base.summaries,
         \A x \in Rows \ {id} : new.episodes[x] = base.episodes[x],
         new.episodes[id].start = t, new.episodes[id].reason = "OPEN",
         new.episodes[id].ctx = d
  PROVE  Sound(new, id, d, t) /\ Final(old, new)
<1>1. \A s \in base.summaries : s.episode \in Rows \ {id}
  <2> SUFFICES ASSUME NEW s \in base.summaries PROVE s.episode \in Rows \ {id}
    OBVIOUS
  <2>1. s.episode \in Rows
    BY DEF Databases
  <2>2. base.episodes[s.episode] # Absent
    BY DEF Sound, Isolated
  <2> QED  BY <2>1, <2>2 DEF Stored
<1>2. Isolated(new)
  <2> SUFFICES ASSUME NEW s \in base.summaries
               PROVE  /\ new.episodes[s.episode] # Absent
                      /\ s.ctx = new.episodes[s.episode].ctx
                      /\ s.at >= new.episodes[s.episode].start
                      /\ new.episodes[s.episode].reason = "CHANGED" =>
                           s.at <= new.episodes[s.episode].end
    BY DEF Isolated
  <2>1. new.episodes[s.episode] = base.episodes[s.episode]
    BY <1>1
  <2> QED  BY <2>1 DEF Sound, Isolated
<1>3. UpTo(new, t)
  <2>1. t <= t
    BY StoreAssumption DEF Times
  <2> QED  BY <2>1 DEF Sound, UpTo
<1>4. Remembered(new, id, d)
  BY DEF Remembered, Open
<1>5. Final(old, new)
  <2> SUFFICES ASSUME NEW x \in Rows, Closed(old, x)
               PROVE  /\ new.episodes[x] \in {old.episodes[x], Absent}
                      /\ SummariesOf(new, x) \subseteq SummariesOf(old, x)
    BY DEF Final
  <2>1. x # id
    BY ClosedIsStored
  <2> QED  BY <2>1 DEF Final, SummariesOf
<1> QED  BY <1>2, <1>3, <1>4, <1>5 DEF Sound

Sampled(base, e, c, t) == base.summaries \cup {[episode |-> e, at |-> t, ctx |-> c]}

\* WriteSummary: the open episode receives a sample taken at t.
LEMMA SoundAfterSummary ==
  ASSUME NEW old, NEW base \in Databases, NEW new, NEW e \in Rows, NEW c, NEW t \in Times,
         Sound(base, e, c, t), Final(old, base), Remembered(old, e, c), Stored(base, e),
         new.episodes = base.episodes,
         new.summaries = Sampled(base, e, c, t)
  PROVE  Sound(new, e, c, t) /\ Final(old, new)
<1> DEFINE s == [episode |-> e, at |-> t, ctx |-> c]
<1>s. s.episode = e /\ s.at = t /\ s.ctx = c /\ new.summaries = base.summaries \cup {s}
  BY DEF Sampled
<1> HIDE DEF s
<1>1. /\ base.episodes[e] # Absent /\ base.episodes[e].reason = "OPEN"
      /\ base.episodes[e].ctx = c /\ base.episodes[e].start <= t /\ e # None
  BY StoreAssumption DEF Sound, UpTo, Remembered, Stored, Open
<1>2. Isolated(new)
  <2> SUFFICES ASSUME NEW r \in base.summaries \cup {s}
               PROVE  /\ base.episodes[r.episode] # Absent
                      /\ r.ctx = base.episodes[r.episode].ctx
                      /\ r.at >= base.episodes[r.episode].start
                      /\ base.episodes[r.episode].reason = "CHANGED" =>
                           r.at <= base.episodes[r.episode].end
    BY <1>s DEF Isolated
  <2>1. CASE r = s
    <3>1. base.episodes[e].start \in Times
      BY DEF Databases, Episodes
    <3> QED  BY <1>1, <1>s, <2>1, <3>1 DEF Times
  <2>2. CASE r \in base.summaries
    BY <2>2 DEF Sound, Isolated
  <2> QED  BY <2>1, <2>2
<1>3. UpTo(new, t)
  <2>1. t <= t
    BY StoreAssumption DEF Times
  <2> QED  BY <1>s, <2>1 DEF Sound, UpTo
<1>4. Remembered(new, e, c)
  BY DEF Sound, Remembered, Stored, Open
<1>5. Final(old, new)
  <2> SUFFICES ASSUME NEW x \in Rows, Closed(old, x)
               PROVE  /\ new.episodes[x] \in {old.episodes[x], Absent}
                      /\ SummariesOf(new, x) \subseteq SummariesOf(old, x)
    BY DEF Final
  <2>1. x # e
    BY <1>1, ClosedIsStored DEF Remembered
  <2> QED  BY <1>s, <2>1 DEF Final, SummariesOf
<1> QED  BY <1>2, <1>3, <1>4, <1>5 DEF Sound

\* EnforceRetention: rows are deleted, none that a kept summary belongs to.
LEMMA SoundAfterPruning ==
  ASSUME NEW old, NEW base \in Databases, NEW new, NEW e, NEW c, NEW t \in Times,
         e \in Rows \cup {None},
         Sound(base, e, c, t), Final(old, base),
         new.summaries \subseteq base.summaries,
         \A x \in Rows : new.episodes[x] \in {base.episodes[x], Absent},
         \A s \in new.summaries : new.episodes[s.episode] = base.episodes[s.episode]
  PROVE  Sound(new, e, c, t) /\ Final(old, new)
<1>1. Isolated(new)
  <2> SUFFICES ASSUME NEW s \in new.summaries
               PROVE  /\ new.episodes[s.episode] # Absent
                      /\ s.ctx = new.episodes[s.episode].ctx
                      /\ s.at >= new.episodes[s.episode].start
                      /\ new.episodes[s.episode].reason = "CHANGED" =>
                           s.at <= new.episodes[s.episode].end
    BY DEF Isolated
  <2>1. new.episodes[s.episode] = base.episodes[s.episode]
    OBVIOUS
  <2> QED  BY <2>1 DEF Sound, Isolated
<1>2. UpTo(new, t)
  <2>1. Absent.start <= t
    BY StoreAssumption DEF Absent, Times
  <2> QED  BY <2>1 DEF Sound, UpTo
<1>3. Remembered(new, e, c)
  BY DEF Sound, Remembered, Stored, Open
<1>4. Final(old, new)
  BY DEF Final, SummariesOf
<1> QED  BY <1>1, <1>2, <1>3, <1>4 DEF Sound

-----------------------------------------------------------------------------
(* Every step. *)

\* Time and the timestamps of the inputs go forward.
LEMMA PastGrows ==
  ASSUME TypeOK, TypeOK', [Next]_vars
  PROVE  Past \in Times /\ Past' \in Times /\ Past <= Past'
<1> DEFINE During == {"record", "begin", "close", "start", "summary", "commit", "rollback"}
<1>t. /\ Past \in Times /\ Past <= now /\ now \in Times
      /\ Past' \in Times /\ now' \in Times
      /\ Timestamp' \in Times /\ now' - Second < Timestamp'
  <2>1. /\ Past \in Times /\ Past <= now /\ now \in Times
    BY TimestampBounds
  <2>2. TypeOK' => (/\ Timestamp \in Times /\ Timestamp <= now /\ now - Second < Timestamp
                    /\ Past \in Times /\ Past <= now /\ now \in Times)'
    BY TimestampBounds, PTL
  <2> QED  BY <2>1, <2>2
<1>1. CASE WaitForNextTick
  <2>1. Past = now /\ Past' = Timestamp' /\ now + Second <= now'
    <3>1. pc = "wait" /\ pc' = "record" /\ now' \in now + Second .. MaxTime
      BY <1>1 DEF WaitForNextTick
    <3>2. ~ InRecord /\ InRecord'
      BY <3>1 DEF InRecord
    <3>3. Past = now /\ Past' = Timestamp'
      BY <3>2 DEF Past
    <3>4. now \in Nat /\ now + Second \in Nat /\ MaxTime \in Nat
      BY <1>t, StoreAssumption DEF Times
    <3>5. now + Second <= now'
      BY <3>1, <3>4
    <3> QED  BY <3>3, <3>5
  <2>2. \A i, j, k \in Times : i + Second <= j /\ j - Second < k => i <= k
    BY StoreAssumption DEF Times
  <2> QED  BY <1>t, <2>1, <2>2
<1>2. CASE Record \/ UNCHANGED vars
  <2>1. now' = now /\ input' = input
    BY <1>2 DEF Record, NewSession, BeginTransaction, CloseActiveEpisode, StartEpisode,
                WriteSummary, Commit, Rollback, vars
  <2>2. Timestamp' = Timestamp
    BY <2>1 DEF Timestamp
  <2>3. CASE pc' \in During
    <3>1. pc \in During
      BY <1>2, <2>3 DEF Record, NewSession, BeginTransaction, CloseActiveEpisode, StartEpisode,
                        WriteSummary, Commit, Rollback, vars
    <3>2. Past' = Past
      BY <2>2, <2>3, <3>1 DEF Past, InRecord
    <3> QED  BY <1>t, <3>2 DEF Times
  <2>4. CASE pc' \notin During
    <3>1. Past' = now
      BY <2>1, <2>4 DEF Past, InRecord
    <3> QED  BY <1>t, <3>1
  <2> QED  BY <2>3, <2>4
<1>3. CASE SkipRetention \/ EnforceRetention \/ OpenStore \/ Close \/ Crash
  <2>1. pc' \notin During
    BY <1>3 DEF SkipRetention, EnforceRetention, OpenStore, Close, Crash
  <2>2. now' \in Times /\ now <= now'
    <3>1. now' \in now .. MaxTime \/ now' = now
      BY <1>3 DEF SkipRetention, EnforceRetention, OpenStore, Close, Crash
    <3> QED  BY <1>t, <3>1, StoreAssumption DEF Times
  <2>3. Past' = now'
    BY <2>1 DEF Past, InRecord
  <2> QED  BY <1>t, <2>2, <2>3 DEF Times
<1> QED  BY <1>1, <1>2, <1>3 DEF Next

\* What the thread knows at its program counter stays right.
LEMMA RecordStep == TypeOK /\ RecordOK /\ [Next]_vars => RecordOK'
<1> SUFFICES ASSUME TypeOK, RecordOK, [Next]_vars PROVE RecordOK'
  OBVIOUS
<1>1. CASE WaitForNextTick
  BY <1>1 DEF WaitForNextTick, RecordOK, InRecord
<1>2. CASE NewSession
  <2>1. NewId \in Rows /\ mem' = [mem EXCEPT !.session = NewId]
    BY <1>2, FreshId DEF NewSession
  <2>2. mem'.session # None
    BY <2>1, StoreAssumption DEF TypeOK
  <2>3. pc = "record" /\ pc' \in {"begin", "retain"} /\ input' = input
    BY <1>2 DEF NewSession, Returns
  <2> QED  BY <2>2, <2>3 DEF RecordOK, InRecord
<1>3. CASE BeginTransaction
  <2>1. /\ pc = "begin" \/ (pc = "record" /\ mem.session # None)
        /\ mem' = mem /\ input' = input
    BY <1>3 DEF BeginTransaction
  <2>2. \/ pc' = "retain"
        \/ pc' = IF ~ Boundary THEN "summary" ELSE IF mem.episode # None THEN "close" ELSE "start"
    BY <1>3 DEF BeginTransaction, Returns
  <2> QED  BY <2>1, <2>2 DEF Boundary, RecordOK, InRecord
<1>4. CASE CloseActiveEpisode
  <2>1. mem'.session = mem.session
    BY <1>4 DEF CloseActiveEpisode, TypeOK
  <2> QED  BY <1>4, <2>1 DEF CloseActiveEpisode, RecordOK, InRecord
<1>5. CASE StartEpisode
  <2>1. input' = input /\ pc = "start" /\ pc' \in {"summary", "rollback"}
    BY <1>5 DEF StartEpisode
  <2>2. pc' = "summary" => mem'.episode = NewId /\ mem'.ctx = input.ctx
    BY <1>5 DEF StartEpisode, TypeOK
  <2>3. NewId # None
    BY <1>5, FreshId, StoreAssumption DEF StartEpisode
  <2> QED  BY <2>1, <2>2, <2>3 DEF RecordOK, InRecord
<1>6. CASE WriteSummary
  BY <1>6 DEF WriteSummary, RecordOK, InRecord
<1>7. CASE Commit \/ Rollback
  BY <1>7 DEF Commit, Rollback, Returns, RecordOK, InRecord
<1>8. CASE SkipRetention \/ EnforceRetention \/ OpenStore \/ Close \/ Crash
  BY <1>8 DEF SkipRetention, EnforceRetention, OpenStore, Close, Crash, RecordOK, InRecord
<1>9. CASE UNCHANGED vars
  BY <1>9 DEF vars, RecordOK, InRecord
<1> QED
  BY <1>1, <1>2, <1>3, <1>4, <1>5, <1>6, <1>7, <1>8, <1>9 DEF Next, Record

\* The databases stay sound, and closed episodes on the disk stay final.
LEMMA DataStep ==
  ASSUME IInv, TypeOK', [Next]_vars
  PROVE  /\ DataOK(durable)' /\ DataOK(db)' /\ Final(durable, db)'
         /\ Final(durable, durable')
<1> DEFINE e == mem.episode
           c == mem.ctx
           Kind(B) == Sound(B, e, c, Past) /\ Final(durable, B) /\ B \in Databases
<1>t. /\ durable \in Databases /\ db \in Databases /\ e \in Rows \cup {None}
      /\ durable' \in Databases /\ db' \in Databases
      /\ Past \in Times /\ Past' \in Times /\ Past <= Past'
  BY PastGrows DEF IInv, TypeOK
<1>i. /\ Sound(durable, e, c, Past) /\ Sound(db, e, c, Past) /\ Final(durable, db)
      /\ Final(durable, durable) /\ Remembered(durable, e, c)
  BY FinalReflexive DEF IInv, DataOK, Sound
<1> SUFFICES /\ Sound(durable', mem'.episode, mem'.ctx, Past')
             /\ Sound(db', mem'.episode, mem'.ctx, Past')
             /\ Final(durable', db') /\ Final(durable, durable')
  BY DEF DataOK
\* the object extends the same episode as before
<1>1. ASSUME mem'.episode = e, mem'.ctx = c,
             Sound(durable', e, c, Past), Sound(db', e, c, Past)
      PROVE  Sound(durable', mem'.episode, mem'.ctx, Past')
             /\ Sound(db', mem'.episode, mem'.ctx, Past')
  BY <1>1, <1>t, Later
\* or none
<1>2. ASSUME mem'.episode = None, NEW d, NEW f, Sound(durable', e, c, Past), Sound(db', d, f, Past)
      PROVE  Sound(durable', mem'.episode, mem'.ctx, Past')
             /\ Sound(db', mem'.episode, mem'.ctx, Past')
  BY <1>2, <1>t, Later
<1>3. CASE WaitForNextTick \/ SkipRetention \/ OpenStore \/ BeginTransaction \/ UNCHANGED vars
  <2>1. durable' = durable /\ db' = db /\ mem' = mem
    BY <1>3 DEF WaitForNextTick, SkipRetention, OpenStore, BeginTransaction, vars
  <2> QED  BY <1>1, <1>i, <2>1
<1>4. CASE NewSession
  <2>1. mem'.episode = e /\ mem'.ctx = c
    BY <1>4 DEF NewSession, IInv, TypeOK
  <2>2. \/ durable' = durable /\ db' = db
        \/ durable' = db' /\ db'.episodes = db.episodes /\ db'.summaries = db.summaries
    BY <1>4, <1>t, FreshId, NewSessionOK DEF NewSession, AutoCommit
  <2>3. Sound(db', e, c, Past) /\ Final(durable, db')
    BY <1>i, <2>2, SameRows
  <2> QED  BY <1>1, <1>i, <2>1, <2>2, <2>3, FinalReflexive
<1>5. CASE CloseActiveEpisode
  <2>1. durable' = durable
    BY <1>5 DEF CloseActiveEpisode
  <2>2. CASE db' = db /\ mem' = mem
    BY <1>1, <1>i, <2>1, <2>2
  <2>3. CASE /\ db' = Ended(db, e, Timestamp, "CHANGED")
             /\ mem' = [mem EXCEPT !.episode = None]
    <3>1. e \in Rows /\ Past = Timestamp
      BY <1>5, <1>t DEF CloseActiveEpisode, IInv, RecordOK, Past, InRecord
    <3>2. "CHANGED" \in Ends
      BY DEF Ends
    <3>3. /\ db'.summaries = db.summaries
          /\ \A x \in Rows : x # e \/ ~ Stored(db, e) => db'.episodes[x] = db.episodes[x]
          /\ Stored(db, e) =>
               /\ Stored(db', e)
               /\ db'.episodes[e].ctx = db.episodes[e].ctx
               /\ db'.episodes[e].start = db.episodes[e].start
               /\ db'.episodes[e].reason = "CHANGED" => db'.episodes[e].end = Past
      BY <1>t, <2>3, <3>1, <3>2, EndedRows
    <3>4. Sound(db', None, c, Past) /\ Final(durable, db')
      BY <1>t, <1>i, <3>1, <3>3, SoundAfterEnd
    <3>5. mem'.episode = None
      BY <2>3 DEF IInv, TypeOK
    <3> QED  BY <1>2, <1>i, <2>1, <3>4, <3>5
  <2> QED  BY <1>5, <2>2, <2>3 DEF CloseActiveEpisode
<1>6. CASE StartEpisode
  <2> DEFINE row == [ctx |-> input.ctx, session |-> mem.session, start |-> Timestamp,
                     end |-> Timestamp, reason |-> "OPEN"]
  <2>1. durable' = durable /\ Past = Timestamp
    BY <1>6 DEF StartEpisode, Past, InRecord
  <2>2. NewId \in Rows /\ ~ Stored(db, NewId) /\ ~ Stored(durable, NewId)
    BY <1>6, FreshId DEF StartEpisode
  <2>3. CASE db' = db /\ mem'.episode \in {None, NewId}
    <3>1. \A d : Sound(durable, None, d, Past') /\ Sound(db, None, d, Past')
      BY <1>t, <1>i, Later
    <3>2. \A d : Sound(durable, NewId, d, Past') /\ Sound(db, NewId, d, Past')
      BY <2>2, <3>1 DEF Sound, Remembered
    <3> QED  BY <1>i, <2>1, <2>3, <3>1, <3>2
  <2>4. CASE /\ db' = [db EXCEPT !.episodes[NewId] = row]
             /\ mem'.episode = NewId /\ mem'.ctx = input.ctx
    <3>1. row \in Episodes
      BY <1>t, TimestampBounds DEF Episodes, IInv, TypeOK
    <3>2. row.start = Past /\ row.reason = "OPEN" /\ row.ctx = input.ctx
      BY <2>1
    <3> HIDE DEF row
    <3>3. /\ db'.episodes[NewId] = row /\ db'.summaries = db.summaries
          /\ \A x \in Rows \ {NewId} : db'.episodes[x] = db.episodes[x]
      BY <1>t, <2>2, <2>4, <3>1, NewEpisodeOK
    <3>4. Sound(db', NewId, input.ctx, Past) /\ Final(durable, db')
      BY <1>t, <1>i, <2>2, <3>2, <3>3, SoundAfterStart
    <3>5. Sound(durable, NewId, input.ctx, Past)
      BY <1>i, <2>2 DEF Sound, Remembered
    <3>6. Sound(durable, NewId, input.ctx, Past') /\ Sound(db', NewId, input.ctx, Past')
      BY <1>t, <3>4, <3>5, Later
    <3> QED  BY <1>i, <2>1, <2>4, <3>4, <3>6
  <2>5. \/ db' = db /\ mem'.episode \in {None, NewId}
        \/ /\ db' = [db EXCEPT !.episodes[NewId] = row]
           /\ mem'.episode = NewId /\ mem'.ctx = input.ctx
    BY <1>6 DEF StartEpisode, IInv, TypeOK
  <2> QED  BY <2>3, <2>4, <2>5
<1>7. CASE WriteSummary
  <2> DEFINE s == [episode |-> e, at |-> Timestamp, ctx |-> input.ctx]
  <2>1. durable' = durable /\ mem' = mem /\ Past = Timestamp
    BY <1>7 DEF WriteSummary, Past, InRecord
  <2>2. CASE db' = db
    BY <1>1, <1>i, <2>1, <2>2
  <2>3. CASE Stored(db, e) /\ db' = [db EXCEPT !.summaries = @ \cup {s}]
    <3>1. e \in Rows /\ c = input.ctx /\ input.ctx \in Contexts
      BY <1>7, <1>t DEF WriteSummary, IInv, RecordOK, InRecord
    <3>2. /\ s = [episode |-> e, at |-> Past, ctx |-> c]
          /\ s \in [episode : Rows, at : Times, ctx : Contexts]
      BY <1>t, <2>1, <3>1
    <3> HIDE DEF s
    <3>3. db'.episodes = db.episodes /\ db'.summaries = db.summaries \cup {s}
      BY <1>t, <2>3, <3>2, NewSummaryOK
    <3>4. db'.summaries = Sampled(db, e, c, Past)
      BY <3>2, <3>3 DEF Sampled
    <3>5. Stored(db, e)
      BY <2>3
    <3> HIDE DEF e, c
    <3>6. Sound(db', e, c, Past) /\ Final(durable, db')
      BY <1>t, <1>i, <3>1, <3>3, <3>4, <3>5, SoundAfterSummary
    <3> QED  BY <1>1, <1>i, <2>1, <3>6 DEF e, c
  <2> QED  BY <1>7, <2>2, <2>3 DEF WriteSummary
<1>8. CASE Commit
  <2>1. mem' = mem /\ db' = db /\ durable' \in {db, durable}
    BY <1>8 DEF Commit
  <2> QED  BY <1>1, <1>i, <2>1, FinalReflexive
<1>9. CASE Rollback
  <2>1. mem' = mem /\ db' = durable /\ durable' = durable
    BY <1>9 DEF Rollback
  <2> QED  BY <1>1, <1>i, <2>1
<1>10. CASE EnforceRetention
  <2>1. mem' = mem
    BY <1>10 DEF EnforceRetention
  <2>2. Kept \subseteq db.summaries
    BY DEF Kept
  <2>3. CASE Referenced = {} /\ durable' = db' /\ db' = Pruned(db, Kept, Expired)
    <3>1. \A s \in Kept : s.episode \notin Expired
      BY <2>3 DEF Referenced
    <3>2. /\ db'.summaries = Kept
          /\ \A x \in Rows : db'.episodes[x] = IF x \in Expired THEN Absent ELSE db.episodes[x]
      BY <1>t, <2>2, <2>3, FewerRowsOK
    <3>3. \A s \in db'.summaries : db'.episodes[s.episode] = db.episodes[s.episode]
      BY <1>t, <2>2, <3>1, <3>2 DEF Databases
    <3>4. Sound(db', e, c, Past) /\ Final(durable, db')
      BY <1>t, <1>i, <2>2, <3>2, <3>3, SoundAfterPruning
    <3> QED  BY <1>1, <2>1, <2>3, <3>4, FinalReflexive
  <2>4. CASE durable' = durable /\ db' = [db EXCEPT !.summaries = Kept]
    <3>1. db'.episodes = db.episodes /\ db'.summaries = Kept
      BY <1>t, <2>2, <2>4, FewerSummariesOK
    <3>2. Sound(db', e, c, Past) /\ Final(durable, db')
      BY <1>t, <1>i, <2>2, <3>1, SoundAfterPruning
    <3> QED  BY <1>1, <1>i, <2>1, <2>4, <3>2
  <2>5. CASE durable' = durable /\ db' = db
    BY <1>1, <1>i, <2>1, <2>5
  <2> QED  BY <1>10, <2>3, <2>4, <2>5 DEF EnforceRetention, AutoCommit, Pruned
<1>11. CASE Close
  <2>1. durable' = db' /\ mem'.episode = None
    BY <1>11 DEF Close, AutoCommit, NoMemory
  <2>2. now' \in Times
    BY DEF TypeOK
  <2>3. Sound(EpisodeEnded(now'), None, c, Past) /\ Final(durable, EpisodeEnded(now'))
    <3> DEFINE new == EpisodeEnded(now')
    <3>1. /\ new.summaries = db.summaries
          /\ \A x \in Rows : x # e => new.episodes[x] = db.episodes[x]
          /\ e # None =>
               /\ ~ Stored(db, e) => new.episodes[e] = db.episodes[e]
               /\ Stored(db, e) =>
                    /\ Stored(new, e)
                    /\ new.episodes[e].ctx = db.episodes[e].ctx
                    /\ new.episodes[e].start = db.episodes[e].start
                    /\ new.episodes[e].reason = "SESSION_ENDED"
      BY <2>2, EpisodeEndedOK DEF IInv
    <3> HIDE DEF new
    <3>2. CASE e = None
      <4>0. \A s \in db.summaries : s.episode \in Rows
        BY <1>t DEF Databases
      <4>1. /\ \A x \in Rows : new.episodes[x] = db.episodes[x]
            /\ \A s \in new.summaries : new.episodes[s.episode] = db.episodes[s.episode]
        BY <3>1, <3>2, <4>0, StoreAssumption
      <4>2. Sound(new, e, c, Past) /\ Final(durable, new)
        BY <1>t, <1>i, <3>1, <4>1, SoundAfterPruning
      <4> QED  BY <3>2, <4>2 DEF new
    <3>3. CASE e # None
      <4>1. e \in Rows
        BY <1>t, <3>3
      <4>2. \A x \in Rows : x # e \/ ~ Stored(db, e) => new.episodes[x] = db.episodes[x]
        BY <3>1, <3>3
      <4>3. Stored(db, e) =>
               /\ Stored(new, e)
               /\ new.episodes[e].ctx = db.episodes[e].ctx
               /\ new.episodes[e].start = db.episodes[e].start
               /\ new.episodes[e].reason = "CHANGED" => new.episodes[e].end = Past
        BY <3>1, <3>3
      <4>4. Sound(new, None, c, Past) /\ Final(durable, new)
        BY <1>t, <1>i, <3>1, <4>1, <4>2, <4>3, SoundAfterEnd
      <4> QED  BY <4>4 DEF new
    <3> QED  BY <3>2, <3>3
  <2>4. Sound(db, None, c, Past) /\ Sound(durable, None, c, Past)
    BY <1>t, <1>i, Later, StoreAssumption DEF Times
  <2>5. Sound(db', None, c, Past) /\ Final(durable, db')
    <3>1. PICK base \in AfterClose(now') : db' = base
      BY <1>11 DEF Close, AutoCommit
    <3>2. CASE inTxn
      BY <1>i, <2>4, <3>1, <3>2, FinalReflexive DEF AfterClose
    <3>3. CASE ~ inTxn
      <4>1. PICK b \in {db, EpisodeEnded(now')} :
              base.episodes = b.episodes /\ base.summaries = b.summaries
        BY <2>2, <3>3, AfterCloseOK DEF IInv
      <4> QED  BY <1>i, <2>3, <2>4, <3>1, <4>1, SameRows
    <3> QED  BY <3>2, <3>3
  <2>6. Sound(db', mem'.episode, mem'.ctx, Past')
    BY <1>t, <2>1, <2>5, Later
  <2> QED  BY <2>1, <2>5, <2>6, FinalReflexive
<1>12. CASE Crash
  <2>1. durable' = durable /\ db' = durable /\ mem'.episode = None
    BY <1>12 DEF Crash, NoMemory
  <2> QED  BY <1>2, <1>i, <2>1
<1> QED
  BY <1>3, <1>4, <1>5, <1>6, <1>7, <1>8, <1>9, <1>10, <1>11, <1>12 DEF Next, Record

-----------------------------------------------------------------------------
(* The theorems. *)

\* The invariant holds initially.
LEMMA StoreInit == Init => IInv
<1> SUFFICES ASSUME Init PROVE IInv
  OBVIOUS
<1>1. TypeOK
  BY TypeInit
<1>2. /\ db = durable /\ mem.episode = None /\ pc = "closed"
      /\ durable.summaries = {} /\ \A e \in Rows : durable.episodes[e] = Absent
  BY DEF Init, NoMemory
<1>3. RecordOK
  BY <1>2 DEF RecordOK, InRecord
<1>4. Absent.start <= Past
  BY <1>1, TimestampBounds, StoreAssumption DEF Absent, Times
<1>5. DataOK(durable)
  BY <1>2, <1>4 DEF DataOK, Sound, Isolated, UpTo, Remembered
<1> QED  BY <1>1, <1>2, <1>3, <1>5, FinalReflexive DEF IInv

\* Every step preserves the invariant and leaves closed episodes as they are.
LEMMA StoreStep == IInv /\ [Next]_vars => IInv' /\ Final(durable, durable')
<1> SUFFICES ASSUME IInv, [Next]_vars PROVE IInv' /\ Final(durable, durable')
  OBVIOUS
<1>1. TypeOK' /\ RecordOK'
  BY TypeStep, RecordStep DEF IInv
<1> QED  BY <1>1, DataStep DEF IInv

\* The invariant holds always.
LEMMA StoreInvariant == Spec => []IInv
BY StoreInit, StoreStep, PTL DEF Spec

\* The store is well typed, and its connection agrees with the disk outside of
\* a transaction.
THEOREM StoreTypes == Spec => []TypeOK
<1>1. IInv => TypeOK
  BY DEF IInv
<1> QED  BY <1>1, StoreInvariant, PTL

\* Whatever statements fail and whenever the process dies, the summaries on the
\* disk belong to stored episodes, with their context and within their time.
THEOREM EpisodesIsolated == Spec => []EpisodeIsolation
<1>1. IInv => EpisodeIsolation
  BY DEF IInv, DataOK, Sound, Isolated, EpisodeIsolation
<1> QED  BY <1>1, StoreInvariant, PTL

\* No step, of whichever fault, changes an episode that has ended.
THEOREM EpisodesFinal == Spec => ClosedEpisodesFinal
<1>1. IInv /\ [Next]_vars =>
        [\A e \in Rows : durable.episodes[e].reason \in {"CHANGED", "SESSION_ENDED"} =>
           /\ durable'.episodes[e] \in {durable.episodes[e], Absent}
           /\ SummariesOf(durable', e) \subseteq SummariesOf(durable, e)]_vars
  BY StoreStep DEF Final, Closed
<1> QED  BY <1>1, StoreInvariant, PTL DEF ClosedEpisodesFinal, Spec
=============================================================================
