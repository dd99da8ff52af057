------------------------------ MODULE LinkTree ------------------------------
(***************************************************************************)
(* The place phase with --link-tree (unarchive/place.rs, db/place.rs): the *)
(* canonical payloads are moved from the extract cache into the link       *)
(* source, then every pending row whose file was moved becomes a link.     *)
(***************************************************************************)
EXTENDS Placement

\* populate_canonical_move_queue and the pull: kept, extracted canonical files
\* not yet flagged AtLinkSource.
ToMove == {c \in cat.stored \cap cat.kept : "AtLinkSource" \notin fileFlags[c]}

\* copy_canonicals_to_source; with nothing pending the cache stays.
OpenMove ==
    /\ pc = "move" /\ at = 1
    /\ IF ToMove = {} THEN pc' = "link" /\ UNCHANGED <<at, todo>>
                      ELSE at' = 2 /\ todo' = ToMove /\ UNCHANGED pc
    /\ UNCHANGED <<cat, planned, meta, phase, placed, world, walk, work, busy,
                   out, shutdown, restarts>>

Moved(c, how) ==
    /\ store' = [store EXCEPT ![c] = "full"]
    /\ cache' = IF On("keepStage") THEN cache ELSE cache \ {c}
    /\ out' = out \cup {Outcome(c, {"AtLinkSource"} \cup how)}

\* A failed copy unlinks its destination, whoever wrote it.
NotMoved(c, flags) ==
    /\ store' = [store EXCEPT ![c] = "none"]
    /\ out' = out \cup {Outcome(c, flags)}
    /\ UNCHANGED cache

\* copy_one_to_source: the payload leaves the cache before the outcome that
\* flags the row is committed.
BeginMove ==
    /\ pc = "move" /\ at = 2 /\ shutdown = "running"
    /\ Cardinality(busy) < Workers
    /\ \E c \in work :
          /\ work' = work \ {c}
          /\ IF c \notin cache THEN NotMoved(c, {"Error"}) /\ UNCHANGED busy
             ELSE IF On("reflinks") /\ store[c] = "none"
             THEN Moved(c, {"RefLink"}) /\ UNCHANGED busy
             ELSE /\ busy' = busy \cup {Outcome(c, {})}
                  /\ store' = [store EXCEPT ![c] = "half"]
                  /\ UNCHANGED <<cache, out>>
    /\ UNCHANGED <<cat, planned, meta, phase, placed, disk, workDir, pc, at,
                   walk, todo, shutdown, restarts>>

\* The copy ends, fails, or is aborted: an aborted one has no outcome and ends
\* its worker.
FinishMove ==
    /\ pc = "move" /\ at = 2
    /\ \E job \in busy :
          /\ busy' = busy \ {job}
          /\ \/ Moved(job.id, {})
             \/ job.id \in cat.fails /\ NotMoved(job.id, {"Error"})
             \/ /\ shutdown = "force"
                /\ store' = [store EXCEPT ![job.id] = "none"]
                /\ UNCHANGED <<cache, out>>
    /\ UNCHANGED <<cat, planned, meta, phase, placed, disk, workDir, pc, at,
                   walk, todo, work, shutdown, restarts>>

\* ingest_copy_results: one transaction per batch.
IngestMove ==
    /\ pc = "move" /\ at = 2
    /\ \E B \in SUBSET out :
          /\ IsBatch(B)
          /\ out' = out \ B
          /\ fileFlags' = [c \in Files |-> fileFlags[c]
                               \cup UNION {o.flags : o \in {x \in B : x.id = c}}]
    /\ UNCHANGED <<cat, planned, meta, phase, promoted, world, pc, at, walk,
                   todo, work, busy, shutdown, restarts>>

\* The end of the copy pass: the cache directory goes, and with it the work
\* database; a failure is a warning.
EndMove ==
    /\ pc = "move" /\ at = 2
    /\ todo \cup work = {} /\ busy = {} /\ out = {}
    /\ IF shutdown # "running"
       THEN pc' = "interrupted" /\ UNCHANGED <<cache, workDir>>
       ELSE pc' = "link" /\ cache' = {} /\ workDir' = FALSE
    /\ at' = 1
    /\ UNCHANGED <<cat, planned, meta, phase, placed, disk, store, walk, pool,
                   shutdown, restarts>>

-----------------------------------------------------------------------------
\* Mutant: rows that are decided are listed again.
ToLinkDecided ==
    {r \in Rows : /\ tree[r].file # 0 /\ ~tree[r].dir
                  /\ cat.twin[tree[r].file] # 0
                  /\ "AtLinkSource" \in fileFlags[tree[r].file]}

\* list_out_tree_for_linking: rows with a dedup canonical, not decided yet,
\* whose own file was moved (only canonical files are).
ToLink ==
    {r \in Rows : /\ tree[r].file # 0 /\ ~tree[r].dir
                  /\ cat.twin[tree[r].file] # 0
                  /\ tree[r].flags \cap {"Placed", "Error"} = {}
                  /\ "AtLinkSource" \in fileFlags[tree[r].file]}

\* batched_loop: the next batch, or the end of the pass.
OpenLink ==
    /\ pc = "link" /\ at = 1
    /\ IF ToLink = {} THEN pc' = "flags" /\ UNCHANGED <<at, todo>>
       ELSE /\ todo' = {r \in ToLink : Cardinality({q \in ToLink : q <= r}) <= Batch}
            /\ at' = 2 /\ UNCHANGED pc
    /\ UNCHANGED <<cat, planned, meta, phase, placed, world, walk, work, busy,
                   out, shutdown, restarts>>

\* The link leads to the payload only when the link source is looked for where
\* the copies went: linking joins it to the root without --one-top-level.
LinkNode(r) ==
    [kind |-> IF On("oneTop") THEN "dangling"
              ELSE IF On("hardLinks") THEN "payload" ELSE "link",
     of |-> Payload(r), by |-> 0]

\* inner_process: a signal skips the rest of the batch, an existing path fails
\* the run and loses the batch's results, otherwise the row becomes a link.
LinkOne ==
    /\ pc = "link" /\ at = 2
    /\ \E r \in todo :
          LET p == tree[r].path
              able == /\ Reachable(p) /\ disk[p].kind = "none"
                      /\ On("hardLinks") => ~On("oneTop") /\ store[Payload(r)] # "none"
          IN IF shutdown # "running"
             THEN todo' = {} /\ UNCHANGED <<disk, out, pc>>
             ELSE IF Exists(Found(p))
             THEN pc' = "failed" /\ UNCHANGED <<disk, out, todo>>
             ELSE /\ todo' = todo \ {r}
                  /\ out' = out \cup {Outcome(r, IF able THEN {"Placed"} ELSE {"Error"})}
                  /\ disk' = IF able THEN [disk EXCEPT ![p] = LinkNode(r)] ELSE disk
                  /\ UNCHANGED pc
    /\ UNCHANGED <<cat, planned, meta, phase, placed, cache, workDir, store, at,
                   walk, work, busy, shutdown, restarts>>

\* ingest_results_link_tree: one transaction, then the loop lists again - the
\* same rows, when a signal skipped them all.
IngestLinks ==
    /\ pc = "link" /\ at = 2 /\ todo = {}
    /\ tree' = [r \in Rows |-> Flagged(tree[r], tree[r].flags
                    \cup UNION {o.flags : o \in {x \in out : x.id = r}})]
    /\ out' = {} /\ at' = 1
    /\ UNCHANGED <<cat, newName, refOut, conflicts, meta, phase, placed, world,
                   pc, walk, todo, work, busy, shutdown, restarts>>
=============================================================================
