------------------------------ MODULE WorkPool ------------------------------
(***************************************************************************)
(* What a phase may expect of send_receive_loop (common.rs) and of its     *)
(* worker threads: each item of work is committed at most once, and the    *)
(* loop returns when all are, or when somebody has excused it (a signal, a *)
(* failed statement, a dead worker).                                       *)
(***************************************************************************)
EXTENDS Naturals

CONSTANT Items

VARIABLES
    commits,  \* how often each item was committed
    excused,  \* not everything may get done
    over      \* the loop has returned

vars == <<commits, excused, over>>

Init == commits = [i \in Items |-> 0] /\ excused = FALSE /\ over = FALSE

\* One transaction, for some of the items that no transaction had before.
Commit ==
    /\ ~over
    /\ \E S \in SUBSET {i \in Items : commits[i] = 0} :
          commits' = [i \in Items |-> IF i \in S THEN commits[i] + 1 ELSE commits[i]]
    /\ UNCHANGED <<excused, over>>

Excuse == ~excused /\ excused' = TRUE /\ UNCHANGED <<commits, over>>

Return ==
    /\ ~over /\ over' = TRUE
    /\ excused \/ \A i \in Items : commits[i] = 1
    /\ UNCHANGED <<commits, excused>>

Next == Commit \/ Excuse \/ Return
Spec == Init /\ [][Next]_vars
=============================================================================
