------------------------------- MODULE Intake -------------------------------
(***************************************************************************)
(* The phases that fill the catalogue: inventory (archive/inventory.rs),   *)
(* hash (archive/hash.rs) and filter (archive/filter.rs, common/filter.rs),*)
(* with their statements in db/.  Each action is one statement, one        *)
(* transaction or one step of a worker.                                    *)
(***************************************************************************)
EXTENDS Catalogue

NoRow == [phase |-> "none", flags |-> {}, sha |-> FALSE, verdict |-> "unset",
          canonical |-> NULL, stored |-> FALSE]

-----------------------------------------------------------------------------
(* inventory                                                               *)

\* Rows from an earlier attempt are purged.  Every row was inserted together
\* with a row of ref that references it, so DELETE FROM files breaks a
\* foreign key, and the phase fails.
StartInventory ==
    /\ Doing("inventory", "enter")
    /\ IF Listed = {}
       THEN pc' = "walk" /\ todo' = Names /\ UNCHANGED <<at, pool, outcome>>
       ELSE Exit("error")
    /\ UNCHANGED <<world, row, queue, meta, files, shutdown, launches>>

\* One entry of the walk: the row and its reference in one transaction.  A
\* name that vanished before is not met; one that vanishes between the walk
\* and lstat ends the run.  Only force interrupts.
WalkEntry ==
    /\ Doing("inventory", "walk") /\ todo # {}
    /\ LET n == LeastOf(todo)
       IN \/ /\ shutdown = "force"
             /\ Exit("stopped") /\ UNCHANGED row
          \/ /\ shutdown # "force" /\ n \notin gone
             /\ row' = [row EXCEPT ![n] = To("inventoried", NoRow)]
             /\ todo' = todo \ {n} /\ UNCHANGED <<pc, at, pool, outcome>>
          \/ /\ shutdown # "force" /\ n \in gone
             /\ todo' = todo \ {n} /\ UNCHANGED <<row, pc, at, pool, outcome>>
          \/ /\ shutdown # "force" /\ n \in gone
             /\ Exit("error") /\ UNCHANGED row
    /\ UNCHANGED <<world, queue, meta, files, shutdown, launches>>

\* set_hardlink_canonicals: MIN(id) of each (dev, inode).
SetHardlinkCanonicals ==
    /\ Doing("inventory", "walk") /\ todo = {}
    /\ IF world.detect
       THEN Update({n \in Listed : n = LeastOf(SameInode(n))},
                   LAMBDA r : [r EXCEPT !.flags = @ \cup {"linkCanonical"}])
       ELSE UNCHANGED row
    /\ pc' = "verify"
    /\ UNCHANGED <<world, queue, meta, files, at, todo, pool, shutdown, outcome, launches>>

-----------------------------------------------------------------------------
(* hash                                                                    *)

BeforeHash == IF world.eager THEN "filtered" ELSE "inventoried"

\* hashable_files_where
Hashable ==
    {n \in In(BeforeHash) \cap Regular : /\ world.detect => n \in Flagged("linkCanonical")
                                         /\ world.eager => n \in Kept}
PendingHash == {n \in Hashable : ~row[n].sha /\ "hashError" \notin row[n].flags}

\* promote_unhasheable_files; without pending rows the phase is over.
PromoteUnhasheable ==
    /\ Doing("hash", "enter")
    /\ Update(In(BeforeHash) \ Hashable, LAMBDA r : To("hashed", r))
    /\ pc' = IF PendingHash = {} THEN "verify" ELSE "queue"
    /\ UNCHANGED <<world, queue, meta, files, at, todo, pool, shutdown, outcome, launches>>

\* create_hash_queue, populate_hash_queue
PopulateHashQueue ==
    /\ Doing("hash", "queue")
    /\ hashQueue' = Populated(hashQueue, Hashable) /\ UNCHANGED sparseQueue
    /\ pc' = "pool"
    /\ UNCHANGED <<world, row, meta, files, at, todo, pool, shutdown, outcome, launches>>

\* pull_pending_hash_rows
PullHash ==
    /\ at = "hash"
    /\ Pull(hashQueue, {n \in Names : ~row[n].sha /\ "hashError" \notin row[n].flags})

\* hash_worker takes a row past its interrupt check.
OpenToHash ==
    /\ Doing("hash", "pool") /\ ~Interrupted
    /\ \E n \in waiting : waiting' = waiting \ {n} /\ reading' = reading \cup {n}
    /\ UNCHANGED <<world, row, queue, meta, files, pc, at, todo, pulled, answers,
                   shutdown, outcome, launches>>

\* hash_one: force aborts between two reads.
HashOne ==
    /\ Doing("hash", "pool")
    /\ \E n \in reading, r \in Result :
          /\ r = "ok" => n \notin gone
          /\ r = "failed" => n \in gone
          /\ r = "aborted" => shutdown = "force"
          /\ reading' = reading \ {n} /\ answers' = answers \cup {<<n, r>>}
    /\ UNCHANGED <<world, row, queue, meta, files, pc, at, todo, pulled, waiting,
                   shutdown, outcome, launches>>

\* Mutant: the digest stays with the name that was read.
InformedAlone(n) == {n}

\* update_file_inspection_per_id: the digest goes to every name of the inode.
Informed(n) == IF world.detect THEN SameInode(n) ELSE {n}

Digested(D, F) ==
    row' = [n \in Names |->
              IF n \in F THEN Flagging("hashError", "hashed", row[n])
              ELSE IF \E m \in D : n \in Informed(m)
              THEN [row[n] EXCEPT !.phase = "hashed", !.sha = TRUE]
              ELSE row[n]]

\* Mutant: an aborted read counts as a failed one.
IngestHashAborted ==
    /\ Doing("hash", "pool")
    /\ \E batch \in SUBSET answers \ {{}} :
          LET With(R) == {n \in Names : \E r \in R : <<n, r>> \in batch}
          IN /\ Digested(With({"ok"}), With({"failed", "aborted"}))
             /\ answers' = answers \ batch
    /\ UNCHANGED <<world, queue, meta, files, pc, at, todo, pulled, waiting, reading,
                   shutdown, outcome, launches>>

\* ingest_hash_outcome: one transaction; an aborted row stays as it is.
IngestHash ==
    /\ Doing("hash", "pool")
    /\ \E batch \in SUBSET answers \ {{}} :
          LET With(r) == {n \in Names : <<n, r>> \in batch}
          IN /\ Digested(With("ok"), With("failed"))
             /\ answers' = answers \ batch
    /\ UNCHANGED <<world, queue, meta, files, pc, at, todo, pulled, waiting, reading,
                   shutdown, outcome, launches>>

\* The end of the loop: the queue is dropped unless the pass was interrupted.
EndHash ==
    /\ Doing("hash", "pool")
    /\ PoolDrained(hashQueue, {n \in Names : ~row[n].sha /\ "hashError" \notin row[n].flags})
    /\ IF Interrupted
       THEN Exit("stopped") /\ UNCHANGED queue
       ELSE /\ hashQueue' = {} /\ pulled' = {} /\ pc' = "verify"
            /\ UNCHANGED sparseQueue
            /\ UNCHANGED <<at, todo, waiting, reading, answers, outcome>>
    /\ UNCHANGED <<world, row, meta, files, shutdown, launches>>

-----------------------------------------------------------------------------
(* filter: no step of it looks at the shutdown signal.                     *)

BeforeFilter == IF world.eager THEN "inventoried" ELSE "hashed"

\* test_match over the rules that are in the database.
Verdict(n) ==
    IF /\ meta.rules # "none" /\ n \in world.included
       /\ meta.rules = "all" => n \notin world.excluded
    THEN "in" ELSE "out"

\* One include rule, the internal one, and no exclude rule.
NoRules ==
    /\ meta.rules # "none" /\ world.included = Names
    /\ meta.rules = "all" => world.excluded = {}

\* apply_no_filter: every row of the table, whatever its phase.
ApplyNoFilter ==
    /\ Doing("filter", "enter") /\ NoRules
    /\ Update(Listed, LAMBDA r : [r EXCEPT !.phase = "filtered", !.verdict = "in"])
    /\ pc' = "verify"
    /\ UNCHANGED <<world, queue, meta, files, at, todo, pool, shutdown, outcome, launches>>

\* apply_filter_result_archive: a batch in one transaction.
FilterBatch ==
    /\ Doing("filter", "enter") /\ ~NoRules /\ In(BeforeFilter) # {}
    /\ LET batch == FirstBatch(In(BeforeFilter))
       IN row' = [n \in Names |->
                    IF n \in batch
                    THEN [row[n] EXCEPT !.phase = "filtered", !.verdict = Verdict(n)]
                    ELSE row[n]]
    /\ UNCHANGED <<world, queue, meta, files, pc, at, todo, pool, shutdown, outcome,
                   launches>>

\* An inode of several names whose only flagged name was excluded while
\* another name is kept.
Stale(n) ==
    /\ Cardinality(SameInode(n)) > 1
    /\ Cardinality((SameInode(n) \cap Flagged("linkCanonical")) \ Kept) = 1
    /\ SameInode(n) \cap Kept # {}

\* Mutant: the flag goes to the least name of the inode, kept or not.
FixUpAnyName ==
    LET stale == {n \in Listed : Stale(n)}
    IN /\ Doing("filter", "enter") /\ ~NoRules /\ In(BeforeFilter) = {}
       /\ row' = [n \in Names |->
                    IF world.detect /\ n \in stale
                    THEN [row[n] EXCEPT !.flags = (@ \ {"linkCanonical"}) \cup
                            (IF n = LeastOf(SameInode(n))
                             THEN {"linkCanonical"} ELSE {})]
                    ELSE row[n]]
       /\ pc' = "verify"
       /\ UNCHANGED <<world, queue, meta, files, at, todo, pool, shutdown, outcome, launches>>

\* fix_up_canonical_flag: the flag goes to the least kept name.
FixUpCanonicalFlag ==
    LET stale == {n \in Listed : Stale(n)}
    IN /\ Doing("filter", "enter") /\ ~NoRules /\ In(BeforeFilter) = {}
       /\ row' = [n \in Names |->
                    IF world.detect /\ n \in stale
                    THEN [row[n] EXCEPT !.flags = (@ \ {"linkCanonical"}) \cup
                            (IF n = LeastOf(SameInode(n) \cap Kept)
                             THEN {"linkCanonical"} ELSE {})]
                    ELSE row[n]]
       /\ pc' = "verify"
       /\ UNCHANGED <<world, queue, meta, files, at, todo, pool, shutdown, outcome, launches>>
=============================================================================
