----------------------- MODULE FinalizationLifecycle ------------------------
(***************************************************************************)
(* What a store promises about the finalization of a session: there is one *)
(* current record, every change of it is one command admitted by the       *)
(* transition policy against the record it replaces, and a record          *)
(* disappears only by being forgotten as a whole (its retention ran out).  *)
(* FinalizationStore implements it with reads, conditional writes and      *)
(* retries; AsyncFinalization relies on it.                                *)
(***************************************************************************)
EXTENDS FinalizationPolicy

CONSTANT Commands       \* the lifecycle commands issued

VARIABLE cur            \* the current record, or NoRecord

Init == cur = NoRecord

Apply ==
    \E m \in Commands : isApplied(cur, m) /\ cur' = nextRecord(cur, m)

Forget == cur # NoRecord /\ cur' = NoRecord

Next == Apply \/ Forget

Spec == Init /\ [][Next]_cur

=============================================================================
