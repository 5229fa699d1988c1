--------------------------- MODULE ActuatorService ---------------------------
(***************************************************************************)
(* The actuator service (ActuatorServiceMain.cpp): one pipe server that    *)
(* answers one request at a time, its replay protection in memory          *)
(* (SecureActuation.cpp) and its ledger of proofs on disk                  *)
(* (ProofLedger.cpp), each statement of which is a transaction of its own. *)
(* A client that got no answer sends its request again, also after the     *)
(* service was restarted; time is what the expiry of a request sees of it. *)
(***************************************************************************)
EXTENDS Naturals, FiniteSets

CONSTANTS
  Proofs,      \* identities of proofs
  Sessions,    \* sessions of clients
  None,        \* no request
  Life,        \* expires - issued of a request
  Skew,        \* how far in the future a request may be issued
  MaxRequests, \* bound on the sequence numbers of a session
  MaxTime,     \* bound on the clock
  MaxStarts,   \* bound on the starts of the service
  Faults       \* "crash": the process ends anywhere; "ledger": a statement
               \* fails; "open": the ledger or the pipe cannot be opened

ASSUME ActuatorAssumption ==
  /\ Life \in Nat \ {0} /\ Skew \in Nat
  /\ MaxRequests \in Nat /\ MaxTime \in Nat /\ MaxStarts \in Nat
  /\ Faults \subseteq {"crash", "ledger", "open"}

Requests == [session : Sessions, sequence : 1 .. MaxRequests, proof : Proofs,
             command : {"BEGIN_CANARY", "ROLLBACK", "WATCHDOG_RESTORE"},
             issued : 0 .. MaxTime]

VARIABLES
  now,         \* GetTickCount64
  sent,        \* the requests clients have composed and may send again
  service,     \* "stopped", "running" or, told to stop, "stopping"
  pc,          \* where the pipe server is
  request,     \* the request it serves
  last,        \* lastSequence
  ledger,      \* lease_state of each proof, "NONE" without a row
  valid,       \* whether the stored proof passes ValidateProof
  starts,      \* counter of the bound
  claims,      \* history: how often a proof was claimed
  interrupted  \* history: proofs whose claim was not followed by its mark

server == <<service, pc, request, last>>
disk == <<ledger, valid>>
history == <<claims, interrupted>>
vars == <<now, sent, server, disk, starts, history>>

-----------------------------------------------------------------------------
\* Clients number the requests of their session, and time passes.
Compose(r) ==
  /\ r.issued = now
  /\ r.sequence = 1 + Cardinality({q \in sent : q.session = r.session})
  /\ sent' = sent \cup {r}
  /\ UNCHANGED <<now, server, disk, starts, history>>

PassTime ==
  /\ now < MaxTime
  /\ now' = now + 1
  /\ UNCHANGED <<sent, server, disk, starts, history>>

\* Fault: saving a proof again replaces the row.
Save_Replaces(p, ok) ==
  /\ ledger' = [ledger EXCEPT ![p] = "PENDING"]
  /\ valid' = [valid EXCEPT ![p] = ok]
  /\ UNCHANGED <<now, sent, server, starts, history>>

\* Save inserts a row once: a proof that is saved again stays what it was.
Save(p, ok) ==
  /\ ledger[p] = "NONE"
  /\ ledger' = [ledger EXCEPT ![p] = "PENDING"]
  /\ valid' = [valid EXCEPT ![p] = ok]
  /\ UNCHANGED <<now, sent, server, starts, history>>

-----------------------------------------------------------------------------
\* ServiceMain: the replay protection of a new process is empty.
StartService ==
  /\ service = "stopped" /\ starts < MaxStarts
  /\ starts' = starts + 1
  /\ \/ service' = "running" /\ pc' = "connect"
     \/ "open" \in Faults /\ UNCHANGED <<service, pc>>
  /\ last' = [s \in Sessions |-> 0]
  /\ UNCHANGED <<now, sent, request, disk, history>>

\* ServiceControlHandler clears g_running; nothing wakes a server that waits in
\* ConnectNamedPipe, so the loop ends after the next request.
ControlStop ==
  /\ service = "running"
  /\ service' = "stopping"
  /\ UNCHANGED <<now, sent, pc, request, last, disk, starts, history>>

Connect(r) ==
  /\ pc = "connect" /\ r \in sent
  /\ request' = r
  /\ pc' = "accept"
  /\ UNCHANGED <<now, sent, service, last, disk, starts, history>>

Fresh(r) == /\ r.issued <= now + Skew
            /\ r.issued + Life > now
            /\ r.sequence > last[r.session]

\* Fault: the command is not looked at.
Accept_AnyCommand ==
  /\ pc = "accept" /\ Fresh(request)
  /\ last' = [last EXCEPT ![request.session] = request.sequence]
  /\ pc' = "load"
  /\ UNCHANGED <<now, sent, service, request, disk, starts, history>>

\* ReplayProtection::Accept, and the commands without a transaction to act on,
\* which use up their sequence number.
Accept ==
  /\ pc = "accept"
  /\ IF Fresh(request)
       THEN last' = [last EXCEPT ![request.session] = request.sequence]
       ELSE UNCHANGED last
  /\ pc' = IF Fresh(request) /\ request.command = "BEGIN_CANARY" THEN "load" ELSE "answer"
  /\ UNCHANGED <<now, sent, service, request, disk, starts, history>>

\* Load and ValidateProof.
Load ==
  /\ pc = "load"
  /\ \/ ledger[request.proof] # "NONE" /\ valid[request.proof] /\ pc' = "claim"
     \/ /\ ledger[request.proof] = "NONE" \/ ~valid[request.proof] \/ "ledger" \in Faults
        /\ pc' = "answer"
  /\ UNCHANGED <<now, sent, service, request, last, disk, starts, history>>

\* Fault: the claim does not test the state of the row.
Claim_Unconditional ==
  /\ pc = "claim"
  /\ ledger' = [ledger EXCEPT ![request.proof] = "REVALIDATED"]
  /\ claims' = [claims EXCEPT ![request.proof] = @ + 1]
  /\ pc' = "mark"
  /\ UNCHANGED <<now, sent, service, request, last, valid, starts, interrupted>>

\* ClaimForCanary: a single UPDATE of a PENDING row.
Claim ==
  /\ pc = "claim"
  /\ \/ /\ ledger[request.proof] = "PENDING"
        /\ ledger' = [ledger EXCEPT ![request.proof] = "REVALIDATED"]
        /\ claims' = [claims EXCEPT ![request.proof] = @ + 1]
        /\ pc' = "mark"
     \/ /\ ledger[request.proof] # "PENDING" \/ "ledger" \in Faults
        /\ pc' = "answer"
        /\ UNCHANGED <<ledger, claims>>
  /\ UNCHANGED <<now, sent, service, request, last, valid, starts, interrupted>>

\* Fault: the refusal is answered without being recorded.
Mark_Skipped ==
  /\ pc = "mark"
  /\ pc' = "answer"
  /\ UNCHANGED <<now, sent, service, request, last, disk, starts, history>>

\* Fault: the reason is stored for the state.
Mark_Reason ==
  /\ pc = "mark"
  /\ ledger' = [ledger EXCEPT ![request.proof] = "trusted_proof_signature_required"]
  /\ pc' = "answer"
  /\ UNCHANGED <<now, sent, service, request, last, valid, starts, history>>

\* MarkLeaseState, whose result nobody looks at: without a signature the claimed
\* proof is refused.
Mark ==
  /\ pc = "mark"
  /\ \/ /\ ledger' = [ledger EXCEPT ![request.proof] = "REJECTED_UNSIGNED_PROOF"]
        /\ UNCHANGED interrupted
     \/ /\ "ledger" \in Faults
        /\ interrupted' = interrupted \cup {request.proof}
        /\ UNCHANGED ledger
  /\ pc' = "answer"
  /\ UNCHANGED <<now, sent, service, request, last, valid, starts, claims>>

\* The answer is written, and the loop tests g_running.
Answer ==
  /\ pc = "answer"
  /\ request' = None
  /\ \/ service = "running" /\ pc' = "connect" /\ UNCHANGED service
     \/ /\ service = "stopping" \/ "open" \in Faults
        /\ service' = "stopped" /\ pc' = "none"
  /\ UNCHANGED <<now, sent, last, disk, starts, history>>

\* The process ends at any point; the ledger keeps what was committed.
Crash ==
  /\ "crash" \in Faults /\ service # "stopped"
  /\ service' = "stopped" /\ pc' = "none" /\ request' = None
  /\ interrupted' = IF pc = "mark" THEN interrupted \cup {request.proof} ELSE interrupted
  /\ UNCHANGED <<now, sent, last, disk, starts, claims>>

-----------------------------------------------------------------------------
Init ==
  /\ now = 0 /\ sent = {}
  /\ service = "stopped" /\ pc = "none" /\ request = None
  /\ last = [s \in Sessions |-> 0]
  /\ ledger = [p \in Proofs |-> "NONE"] /\ valid = [p \in Proofs |-> FALSE]
  /\ starts = 0
  /\ claims = [p \in Proofs |-> 0] /\ interrupted = {}

Handle == Accept \/ Load \/ Claim \/ Mark \/ Answer
Clients == \/ \E r \in Requests : Compose(r) \/ Connect(r)
           \/ \E p \in Proofs, ok \in BOOLEAN : Save(p, ok)

Next == Clients \/ PassTime \/ StartService \/ ControlStop \/ Handle \/ Crash

Spec == Init /\ [][Next]_vars

-----------------------------------------------------------------------------
States == {"NONE", "PENDING", "REVALIDATED", "REJECTED_UNSIGNED_PROOF"}

\* The values of the variables; a server past its connection has a request.
TypeOK ==
  /\ now \in 0 .. MaxTime
  /\ sent \subseteq Requests
  /\ service \in {"stopped", "running", "stopping"}
  /\ pc \in {"none", "connect", "accept", "load", "claim", "mark", "answer"}
  /\ pc \in {"accept", "load", "claim", "mark", "answer"} => request \in sent
  /\ last \in [Sessions -> 0 .. MaxRequests]
  /\ ledger \in [Proofs -> States] /\ valid \in [Proofs -> BOOLEAN]
  /\ starts \in 0 .. MaxStarts
  /\ claims \in [Proofs -> Nat] /\ interrupted \subseteq Proofs

\* A proof is claimed once at most.  A restart forgets which requests were
\* accepted, so the same request passes the replay protection again until it
\* expires; it is the row in the ledger that refuses the second claim.
ClaimedOnce == \A p \in Proofs : claims[p] <= 1

\* Whatever was claimed is a stored proof that passes the validation, named by a
\* request to begin that a client has sent; no other command consumes a proof.
ClaimsJustified ==
  \A p \in Proofs : claims[p] > 0 =>
    /\ ledger[p] \in {"REVALIDATED", "REJECTED_UNSIGNED_PROOF"}
    /\ valid[p]
    /\ \E r \in sent : r.proof = p /\ r.command = "BEGIN_CANARY"

\* A claimed proof does not stay between its two states: it is refused by the
\* request that claimed it, unless the process died or the second statement
\* failed between the two.  Then it stays REVALIDATED for ever.
ClaimsConcluded ==
  \A p \in Proofs :
    ledger[p] = "REVALIDATED" => p \in interrupted \/ (pc = "mark" /\ request.proof = p)

\* The ledger only moves forward, and a stored proof is never exchanged for
\* another under its identity: not by a second Save, a retry or a restart.
Rank(state) == CASE state = "NONE" -> 0 [] state = "PENDING" -> 1
                 [] state = "REVALIDATED" -> 2 [] OTHER -> 3
LedgerForward ==
  [][\A p \in Proofs : /\ Rank(ledger'[p]) >= Rank(ledger[p])
                       /\ ledger[p] # "NONE" => valid'[p] = valid[p]]_vars
=============================================================================
