--------------------------- MODULE ArchivePromise ---------------------------
(***************************************************************************)
(* What the archive phase promises, whatever sessions, crashes and reruns  *)
(* it takes: payloads become part of the archive for good, a session's at  *)
(* once; and the archive is declared complete only when each wanted file   *)
(* has its payload in it or is excused by a recorded error.                *)
(***************************************************************************)
CONSTANT Files

VARIABLES
    wanted,     \* the files whose payload the archive has to hold
    committed,  \* the files whose payload it holds for good
    excused,    \* the files recorded as failed
    sealed      \* the run has been declared complete

pVars == <<wanted, committed, excused, sealed>>

Init ==
    /\ wanted \subseteq Files
    /\ committed = {}
    /\ excused = {}
    /\ sealed = FALSE

\* A session ends: all it wrote counts from now on, or nothing of it does.
Commit ==
    /\ ~sealed
    /\ \E S \in SUBSET (wanted \ (committed \cup excused)) :
           committed' = committed \cup S
    /\ UNCHANGED <<wanted, excused, sealed>>

\* A file is given up; never one that is already safe.
Excuse ==
    /\ ~sealed
    /\ \E f \in wanted \ (committed \cup excused) : excused' = excused \cup {f}
    /\ UNCHANGED <<wanted, committed, sealed>>

\* The work directory, the only other copy of the bookkeeping, may go.
Seal ==
    /\ wanted \subseteq committed \cup excused
    /\ sealed' = TRUE
    /\ UNCHANGED <<wanted, committed, excused>>

Next == Commit \/ Excuse \/ Seal

Spec == Init /\ [][Next]_pVars
=============================================================================
