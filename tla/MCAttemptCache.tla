--------------------------- MODULE MCAttemptCache ---------------------------
(* Three INITIALs for a cache that holds two.  Which of several unused     *)
(* entries, new keys, free CIDs or idle goroutines is taken makes no       *)
(* difference, and symmetry cannot be declared in a run with a liveness    *)
(* property: of such choices only the first is followed.                   *)
EXTENDS AttemptCache

Unused == {e \in Entries : entry[e].phase = "unused"}
New == {k \in Keys : \A e \in Entries : entry[e].key # k}
TakesFirst(before, after) ==
    before # after => \E x \in before \ after : \A y \in before : x <= y

FirstOfEqual ==
    /\ TakesFirst(Unused, Unused')
    /\ TakesFirst(New, New')
    /\ ~(activeCIDs' \subseteq activeCIDs) => TakesFirst(CIDs \ activeCIDs, CIDs \ activeCIDs')
    /\ (\A t \in Threads : Idle(t)) => TakesFirst(Threads, {t \in Threads : Idle(t)'})
=============================================================================
