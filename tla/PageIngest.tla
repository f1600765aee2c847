----------------------------- MODULE PageIngest -----------------------------
(***************************************************************************)
(* What one OCR pass over a book promises, without goroutines, channels or *)
(* batches in flight: it takes on the pages that are missing, writes rows  *)
(* in transactions of at most BatchSize pages, may give a page up, and     *)
(* reports success only when nothing it took on is still open.             *)
(***************************************************************************)
EXTENDS Integers, FiniteSets

CONSTANTS N, BatchSize, SkipFailed, ForceOCR

Pages == 1..N

VARIABLES
    table,      \* who wrote each page's text
    owed,       \* the pages this pass took on
    givenUp,    \* pages whose every attempt failed
    phase       \* idle, running, ok or failed

vars == <<table, owed, givenUp, phase>>

Init ==
    /\ table \in [Pages -> {"none", "before"}]
    /\ owed = {}
    /\ givenUp = {}
    /\ phase = "idle"

Missing == IF ForceOCR THEN Pages ELSE {p \in Pages : table[p] = "none"}

Written(rows) ==
    [p \in Pages |-> IF p \in rows /\ (ForceOCR \/ table[p] = "none")
                     THEN "mine" ELSE table[p]]

\* One transaction: pages taken on, not given up and not written before.
Writes(rows) ==
    /\ rows \subseteq owed \ givenUp
    /\ Cardinality(rows) <= BatchSize
    /\ \A p \in rows : table[p] # "mine"
    /\ table' = Written(rows)

Begin ==
    /\ phase = "idle"
    /\ owed' = Missing
    /\ phase' = "running"
    /\ UNCHANGED <<table, givenUp>>

Commit ==
    /\ phase = "running"
    /\ \E rows \in SUBSET owed : Writes(rows)
    /\ UNCHANGED <<owed, givenUp, phase>>

GiveUp(p) ==
    /\ phase = "running"
    /\ SkipFailed
    /\ p \in owed
    /\ table[p] # "mine"
    /\ givenUp' = givenUp \cup {p}
    /\ UNCHANGED <<table, owed, phase>>

\* Nothing was missing.
Trivial ==
    /\ phase = "idle"
    /\ Missing = {}
    /\ phase' = "ok"
    /\ UNCHANGED <<table, owed, givenUp>>

\* The last transaction and the success are one step.
Succeed ==
    /\ phase = "running"
    /\ \E rows \in SUBSET owed : Writes(rows)
    /\ \A p \in owed \ givenUp :
          /\ table'[p] # "none"
          /\ ForceOCR => table'[p] # "before"
    /\ phase' = "ok"
    /\ UNCHANGED <<owed, givenUp>>

\* An error may hide a transaction that was committed.
Fail ==
    /\ phase \in {"idle", "running"}
    /\ \E rows \in SUBSET owed : Writes(rows)
    /\ phase' = "failed"
    /\ UNCHANGED <<owed, givenUp>>

\* An earlier attempt of the same task.
OtherWrites(p) ==
    /\ ForceOCR \/ table[p] = "none"
    /\ table' = [table EXCEPT ![p] = "other"]
    /\ UNCHANGED <<owed, givenUp, phase>>

Next ==
    \/ Begin \/ Commit \/ Trivial \/ Succeed \/ Fail
    \/ \E p \in Pages : GiveUp(p) \/ OtherWrites(p)

Spec == Init /\ [][Next]_vars
=============================================================================
