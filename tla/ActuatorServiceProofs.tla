------------------------- MODULE ActuatorServiceProofs -------------------------
(***************************************************************************)
(* What the ledger of the actuator service promises, for any proofs,       *)
(* sessions, clocks and bounds, and any crashes and failing statements.    *)
(***************************************************************************)
EXTENDS ActuatorService, TLAPS

Serving == {"accept", "load", "claim", "mark", "answer"}

\* What the server knows of the request it serves, at each of its steps.
ServerOK ==
  /\ service = "stopped" => pc = "none"
  /\ pc \in {"load", "claim", "mark"} => request.command = "BEGIN_CANARY"
  /\ pc \in {"claim", "mark"} => ledger[request.proof] # "NONE" /\ valid[request.proof]
  /\ pc = "mark" => ledger[request.proof] = "REVALIDATED"

\* The row of a proof tells how often it was claimed.
Counted ==
  \A p \in Proofs : claims[p] = IF ledger[p] \in {"NONE", "PENDING"} THEN 0 ELSE 1

Begun(p) == \E r \in sent : r.proof = p /\ r.command = "BEGIN_CANARY"
Justified == \A p \in Proofs : claims[p] > 0 => valid[p] /\ Begun(p)

IInv == TypeOK /\ ServerOK /\ Counted /\ Justified /\ ClaimsConcluded

-----------------------------------------------------------------------------
LEMMA InitEstablishes == Init => IInv
BY ActuatorAssumption DEF Init, IInv, TypeOK, ServerOK, Counted, Justified, ClaimsConcluded, States

\* A server past its connection serves a request that was sent.
LEMMA ServesSent ==
  ASSUME TypeOK, pc \in Serving
  PROVE  request \in sent /\ request \in Requests /\ request.proof \in Proofs
         /\ request.session \in Sessions /\ request.sequence \in 1 .. MaxRequests
BY DEF TypeOK, Requests, Serving

-----------------------------------------------------------------------------
(* Each action preserves the invariant. *)

LEMMA ComposeKeeps == ASSUME IInv, NEW r \in Requests, Compose(r) PROVE IInv'
<1>1. TypeOK'
  BY DEF IInv, TypeOK, Compose, server, disk, history, Serving
<1>2. Justified'
  BY DEF IInv, Justified, Begun, Compose, disk, history
<1>3. (ServerOK /\ Counted /\ ClaimsConcluded)'
  BY DEF IInv, ServerOK, Counted, ClaimsConcluded, Compose, server, disk, history
<1> QED  BY <1>1, <1>2, <1>3 DEF IInv

LEMMA PassTimeKeeps == ASSUME IInv, PassTime PROVE IInv'
<1>1. now' \in 0 .. MaxTime
  BY ActuatorAssumption DEF IInv, TypeOK, PassTime
<1>2. TypeOK'
  BY <1>1 DEF IInv, TypeOK, PassTime, server, disk, history
<1>3. (ServerOK /\ Counted /\ Justified /\ ClaimsConcluded)'
  BY DEF IInv, ServerOK, Counted, Justified, Begun, ClaimsConcluded, PassTime, server, disk, history
<1> QED  BY <1>2, <1>3 DEF IInv

LEMMA SaveKeeps == ASSUME IInv, NEW p \in Proofs, NEW ok \in BOOLEAN, Save(p, ok) PROVE IInv'
<1>1. TypeOK'
  BY DEF IInv, TypeOK, Save, server, history, States
<1>2. ServerOK'
  BY ServesSent DEF IInv, TypeOK, ServerOK, Save, server, Serving
<1>3. (Counted /\ ClaimsConcluded)'
  BY DEF IInv, TypeOK, Counted, ClaimsConcluded, Save, server, history
<1>4. Justified'
  BY DEF IInv, TypeOK, Counted, Justified, Begun, Save, history
<1> QED  BY <1>1, <1>2, <1>3, <1>4 DEF IInv

LEMMA StartKeeps == ASSUME IInv, StartService PROVE IInv'
<1>1. starts' \in 0 .. MaxStarts /\ last' \in [Sessions -> 0 .. MaxRequests]
  BY ActuatorAssumption DEF IInv, TypeOK, StartService
<1>2. pc' \in {"connect", pc} /\ service' \in {"running", service} /\ (pc' = pc \/ pc' = "connect")
  BY DEF StartService
<1>3. TypeOK'
  BY <1>1, <1>2 DEF IInv, TypeOK, StartService, disk, history
<1>4. ServerOK' /\ ClaimsConcluded'
  <2>1. pc = "none"
    BY DEF IInv, ServerOK, StartService
  <2> QED  BY <1>2, <2>1 DEF IInv, ServerOK, ClaimsConcluded, StartService, disk, history
<1>5. (Counted /\ Justified)'
  BY DEF IInv, Counted, Justified, Begun, StartService, disk, history
<1> QED  BY <1>3, <1>4, <1>5 DEF IInv

LEMMA StopKeeps == ASSUME IInv, ControlStop PROVE IInv'
<1>1. TypeOK'
  BY DEF IInv, TypeOK, ControlStop, disk, history
<1>2. (ServerOK /\ Counted /\ Justified /\ ClaimsConcluded)'
  BY DEF IInv, ServerOK, Counted, Justified, Begun, ClaimsConcluded, ControlStop, disk, history
<1> QED  BY <1>1, <1>2 DEF IInv

LEMMA ConnectKeeps == ASSUME IInv, NEW r \in Requests, Connect(r) PROVE IInv'
<1>1. TypeOK'
  BY DEF IInv, TypeOK, Connect, disk, history
<1>2. (ServerOK /\ Counted /\ Justified /\ ClaimsConcluded)'
  BY DEF IInv, ServerOK, Counted, Justified, Begun, ClaimsConcluded, Connect, disk, history
<1> QED  BY <1>1, <1>2 DEF IInv

LEMMA AcceptKeeps == ASSUME IInv, Accept PROVE IInv'
<1>1. request \in sent /\ request.session \in Sessions /\ request.sequence \in 0 .. MaxRequests
  BY ServesSent DEF IInv, Accept, Serving
<1>2. last' \in [Sessions -> 0 .. MaxRequests]
  BY <1>1 DEF IInv, TypeOK, Accept
<1>3. pc' \in {"load", "answer"} /\ (pc' = "load" => request.command = "BEGIN_CANARY")
  BY DEF Accept
<1>4. TypeOK'
  BY <1>1, <1>2, <1>3 DEF IInv, TypeOK, Accept, disk, history
<1>5. ServerOK' /\ ClaimsConcluded'
  BY <1>3 DEF IInv, ServerOK, ClaimsConcluded, Accept, disk, history
<1>6. (Counted /\ Justified)'
  BY DEF IInv, Counted, Justified, Begun, Accept, disk, history
<1> QED  BY <1>4, <1>5, <1>6 DEF IInv

LEMMA LoadKeeps == ASSUME IInv, Load PROVE IInv'
<1>1. request \in sent
  BY ServesSent DEF IInv, Load, Serving
<1>2. TypeOK'
  BY <1>1 DEF IInv, TypeOK, Load, disk, history
<1>3. ServerOK' /\ ClaimsConcluded'
  BY DEF IInv, ServerOK, ClaimsConcluded, Load, disk, history
<1>4. (Counted /\ Justified)'
  BY DEF IInv, Counted, Justified, Begun, Load, disk, history
<1> QED  BY <1>2, <1>3, <1>4 DEF IInv

LEMMA ClaimKeeps == ASSUME IInv, Claim PROVE IInv'
<1> DEFINE p == request.proof
<1>1. request \in sent /\ p \in Proofs
  BY ServesSent DEF IInv, Claim, Serving
<1>2. UNCHANGED <<now, sent, service, request, last, valid, starts, interrupted>>
  BY DEF Claim
<1>3. CASE UNCHANGED <<ledger, claims>> /\ pc' = "answer"
  <2>1. TypeOK'
    BY <1>1, <1>2, <1>3 DEF IInv, TypeOK
  <2>2. pc # "mark" /\ service # "stopped"
    BY DEF Claim, IInv, ServerOK
  <2>3. (ServerOK /\ Counted /\ Justified /\ ClaimsConcluded)'
    BY <1>2, <1>3, <2>2 DEF IInv, ServerOK, Counted, Justified, Begun, ClaimsConcluded
  <2> QED  BY <2>1, <2>3 DEF IInv
<1>4. CASE /\ ledger[p] = "PENDING" /\ pc' = "mark"
           /\ ledger' = [ledger EXCEPT ![p] = "REVALIDATED"]
           /\ claims' = [claims EXCEPT ![p] = claims[p] + 1]
  <2>1. TypeOK'
    BY <1>1, <1>2, <1>4 DEF IInv, TypeOK, States
  <2>2. ledger'[p] = "REVALIDATED" /\ \A q \in Proofs : q # p => ledger'[q] = ledger[q] /\ claims'[q] = claims[q]
    BY <1>1, <1>4 DEF IInv, TypeOK
  <2>3. claims'[p] = 1
    BY <1>1, <1>4 DEF IInv, TypeOK, Counted
  <2>4. request.command = "BEGIN_CANARY" /\ valid[p] /\ pc # "mark" /\ service # "stopped"
    BY DEF Claim, IInv, ServerOK
  <2>5. ServerOK'
    BY <1>2, <1>4, <2>2, <2>4 DEF ServerOK
  <2>6. Counted'
    BY <2>2, <2>3 DEF IInv, Counted
  <2>7. Justified'
    BY <1>1, <1>2, <2>2, <2>4 DEF IInv, Justified, Begun
  <2>8. ClaimsConcluded'
    BY <1>2, <1>4, <2>2, <2>4 DEF IInv, ClaimsConcluded
  <2> QED  BY <2>1, <2>5, <2>6, <2>7, <2>8 DEF IInv
<1> QED  BY <1>3, <1>4 DEF Claim

LEMMA MarkKeeps == ASSUME IInv, Mark PROVE IInv'
<1> DEFINE p == request.proof
<1>1. request \in sent /\ p \in Proofs
  BY ServesSent DEF IInv, Mark, Serving
<1>2. UNCHANGED <<now, sent, service, request, last, valid, starts, claims>> /\ pc' = "answer"
  BY DEF Mark
<1>3. ledger[p] = "REVALIDATED" /\ service # "stopped"
  BY DEF IInv, ServerOK, Mark
<1>4. \/ ledger' = [ledger EXCEPT ![p] = "REJECTED_UNSIGNED_PROOF"] /\ interrupted' = interrupted
      \/ ledger' = ledger /\ interrupted' = interrupted \cup {p}
  BY DEF Mark
<1>5. TypeOK'
  BY <1>1, <1>2, <1>4 DEF IInv, TypeOK, States
<1>6. \A q \in Proofs : q # p => ledger'[q] = ledger[q]
  BY <1>1, <1>4 DEF IInv, TypeOK
<1>7. ledger'[p] = "REJECTED_UNSIGNED_PROOF" \/ (ledger'[p] = "REVALIDATED" /\ p \in interrupted')
  BY <1>1, <1>3, <1>4 DEF IInv, TypeOK
<1>8. (ServerOK /\ Justified)'
  BY <1>2, <1>3 DEF IInv, ServerOK, Justified, Begun
<1>9. Counted'
  BY <1>1, <1>2, <1>3, <1>6, <1>7 DEF IInv, Counted
<1>10. ClaimsConcluded'
  <2>1. interrupted \subseteq interrupted'
    BY <1>4
  <2> QED  BY <1>2, <1>6, <1>7, <2>1 DEF IInv, ClaimsConcluded
<1> QED  BY <1>5, <1>8, <1>9, <1>10 DEF IInv

LEMMA AnswerKeeps == ASSUME IInv, Answer PROVE IInv'
<1>1. pc' \in {"connect", "none"} /\ service' \in {service, "stopped"} /\ pc # "mark"
  BY DEF Answer
<1>2. TypeOK'
  BY <1>1 DEF IInv, TypeOK, Answer, disk, history
<1>3. (ServerOK /\ Counted /\ Justified)'
  BY <1>1 DEF IInv, ServerOK, Counted, Justified, Begun, Answer, disk, history
<1>4. ClaimsConcluded'
  BY <1>1 DEF IInv, ClaimsConcluded, Answer, disk, history
<1> QED  BY <1>2, <1>3, <1>4 DEF IInv

\* A crash between the claim and the mark is what interrupts a proof.
LEMMA CrashKeeps == ASSUME IInv, Crash PROVE IInv'
<1>1. pc' = "none" /\ service' = "stopped" /\ UNCHANGED <<now, sent, last, disk, starts, claims>>
  BY DEF Crash
<1>2. interrupted' \subseteq Proofs
  BY ServesSent DEF IInv, TypeOK, Crash, Serving
<1>3. TypeOK'
  BY <1>1, <1>2 DEF IInv, TypeOK, disk
<1>4. (ServerOK /\ Counted /\ Justified)'
  BY <1>1 DEF IInv, ServerOK, Counted, Justified, Begun, disk
<1>5. ClaimsConcluded'
  BY <1>1 DEF IInv, ClaimsConcluded, Crash, disk
<1> QED  BY <1>3, <1>4, <1>5 DEF IInv

LEMMA StutterKeeps == ASSUME IInv, UNCHANGED vars PROVE IInv'
<1>1. TypeOK'
  BY DEF IInv, TypeOK, vars, server, disk, history
<1>2. (ServerOK /\ Counted /\ Justified /\ ClaimsConcluded)'
  BY DEF IInv, ServerOK, Counted, Justified, Begun, ClaimsConcluded, vars, server, disk, history
<1> QED  BY <1>1, <1>2 DEF IInv

LEMMA Invariant == Spec => []IInv
<1>1. ASSUME IInv, [Next]_vars PROVE IInv'
  <2>1. ASSUME NEW r \in Requests, Compose(r) \/ Connect(r) PROVE IInv'
    BY <1>1, <2>1, ComposeKeeps, ConnectKeeps
  <2>2. ASSUME NEW p \in Proofs, NEW ok \in BOOLEAN, Save(p, ok) PROVE IInv'
    BY <1>1, <2>2, SaveKeeps
  <2>3. CASE Handle
    BY <1>1, <2>3, AcceptKeeps, LoadKeeps, ClaimKeeps, MarkKeeps, AnswerKeeps DEF Handle
  <2>4. CASE PassTime \/ StartService \/ ControlStop \/ Crash
    BY <1>1, <2>4, PassTimeKeeps, StartKeeps, StopKeeps, CrashKeeps
  <2>5. CASE UNCHANGED vars
    BY <1>1, <2>5, StutterKeeps
  <2> QED  BY <1>1, <2>1, <2>2, <2>3, <2>4, <2>5 DEF Next, Clients
<1> QED  BY InitEstablishes, <1>1, PTL DEF Spec

-----------------------------------------------------------------------------
\* The variables of the service keep their types, for any constants.
THEOREM TypesKept == Spec => []TypeOK
<1>1. IInv => TypeOK
  BY DEF IInv
<1> QED  BY Invariant, <1>1, PTL

\* The ledger lets every proof be claimed once at most, whatever is sent again
\* and however often the service loses its replay protection.
THEOREM OneClaim == Spec => []ClaimedOnce
<1>1. IInv => ClaimedOnce
  BY DEF IInv, Counted, ClaimedOnce
<1> QED  BY Invariant, <1>1, PTL

\* Only a stored, valid proof that a client asked to begin is ever claimed.
THEOREM ClaimsHaveGrounds == Spec => []ClaimsJustified
<1>1. IInv => ClaimsJustified
  BY DEF IInv, TypeOK, States, Counted, Justified, Begun, ClaimsJustified
<1> QED  BY Invariant, <1>1, PTL

\* A claim without its mark is one whose process or statement failed in between.
THEOREM ClaimsEnd == Spec => []ClaimsConcluded
<1>1. IInv => ClaimsConcluded
  BY DEF IInv
<1> QED  BY Invariant, <1>1, PTL

\* No step of the service or of a client takes a row of the ledger back.
THEOREM LedgerOnlyForward == Spec => LedgerForward
<1> DEFINE Forward == \A p \in Proofs : /\ Rank(ledger'[p]) >= Rank(ledger[p])
                                        /\ ledger[p] # "NONE" => valid'[p] = valid[p]
<1>1. ASSUME IInv, [Next]_vars PROVE [Forward]_vars
  <2>0. \A s \in States : Rank(s) \in 0 .. 3
    BY DEF Rank, States
  <2>1. CASE UNCHANGED disk
    BY <1>1, <2>0, <2>1 DEF disk, IInv, TypeOK
  <2>2. ASSUME NEW p \in Proofs, NEW ok \in BOOLEAN, Save(p, ok) PROVE Forward
    BY <1>1, <2>0, <2>2 DEF Save, IInv, TypeOK, Rank
  <2>3. CASE Claim
    BY <1>1, <2>0, <2>3, ServesSent DEF Claim, IInv, TypeOK, Rank, Serving
  <2>4. CASE Mark
    BY <1>1, <2>0, <2>4, ServesSent DEF Mark, IInv, TypeOK, ServerOK, Rank, Serving
  <2>5. ASSUME Next, ~Claim, ~Mark, ~\E p \in Proofs, ok \in BOOLEAN : Save(p, ok)
        PROVE  UNCHANGED disk
    BY <2>5 DEF Next, Clients, Handle, Compose, Connect, PassTime, StartService, ControlStop,
                Accept, Load, Answer, Crash
  <2>6. UNCHANGED vars => UNCHANGED disk
    BY DEF vars
  <2> QED  BY <1>1, <2>1, <2>2, <2>3, <2>4, <2>5, <2>6
<1> QED  BY Invariant, <1>1, PTL DEF Spec, LedgerForward
===============================================================================
