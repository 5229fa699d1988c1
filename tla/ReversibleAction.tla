--------------------------- MODULE ReversibleAction ---------------------------
(***************************************************************************)
(* What the action plane promises about every resource action, whatever    *)
(* the threads, the process table and the database do: a change to another *)
(* process is made only under a durable promise to undo it, and the        *)
(* promise is dropped only when nothing is left to undo or the failure to  *)
(* undo it has been noticed.  ActionCoordinator implements this.           *)
(***************************************************************************)
CONSTANT Txs          \* transaction identifiers

VARIABLES
  promised,   \* transactions with a durable record of how to undo them
  inEffect,   \* transactions whose change is present in a live target
  abandoned   \* transactions whose undo has failed at least once

vars == <<promised, inEffect, abandoned>>

TypeOK ==
  /\ promised \subseteq Txs
  /\ inEffect \subseteq Txs
  /\ abandoned \subseteq Txs

Init ==
  /\ promised = {}
  /\ inEffect = {}
  /\ abandoned = {}

\* A durable undo record is written before anything is changed.
Promise(t) ==
  /\ t \notin promised \cup inEffect
  /\ promised' = promised \cup {t}
  /\ UNCHANGED <<inEffect, abandoned>>

TakeEffect(t) ==
  /\ t \in promised
  /\ inEffect' = inEffect \cup {t}
  /\ UNCHANGED <<promised, abandoned>>

Undo(t) ==
  /\ inEffect' = inEffect \ {t}
  /\ UNCHANGED <<promised, abandoned>>

\* An undo attempt fails and the failure is known.
Abandon(t) ==
  /\ abandoned' = abandoned \cup {t}
  /\ UNCHANGED <<promised, inEffect>>

\* The targets of S exit and take the changes with them.
Vanish(S) ==
  /\ inEffect' = inEffect \ S
  /\ UNCHANGED <<promised, abandoned>>

Discharge(t) ==
  /\ t \notin inEffect \/ t \in abandoned
  /\ promised' = promised \ {t}
  /\ UNCHANGED <<inEffect, abandoned>>

Next ==
  \/ \E t \in Txs : \/ Promise(t) \/ TakeEffect(t) \/ Undo(t)
                    \/ Abandon(t) \/ Discharge(t)
  \/ \E S \in SUBSET Txs : Vanish(S)

Spec == Init /\ [][Next]_vars

\* Every change is covered: it can still be undone from the durable record,
\* or somebody has seen the undo fail.
Covered == inEffect \subseteq promised \cup abandoned
===============================================================================
