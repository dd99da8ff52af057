----------------------------- MODULE Placement -----------------------------
(***************************************************************************)
(* The place phase without --link-tree (unarchive/place.rs, db/place.rs):  *)
(* the directory tree is made, elected rows are copied out of the extract  *)
(* cache by a pool of workers, the other names of an inode are hard-linked *)
(* to them, links and special files are recreated, and the stage is swept. *)
(* A pass lists its rows once (at = 1) and then feeds them (at = 2).       *)
(***************************************************************************)
EXTENDS OutTree

Passes == {"files", "hardlinks", "others"}
Pooled == Passes \cup {"move"}

-----------------------------------------------------------------------------
(* Preparing the target.                                                    *)

Wiped == [p \in Paths |-> IF p = Root THEN Bare("dir")
                          ELSE IF Root \in Above[p] THEN Bare("none") ELSE disk[p]]

\* --clean-target empties the extraction root on every run, with
\* --one-top-level only; a root that is missing fails the removal.
CleanTarget ==
    /\ pc = "clean"
    /\ at' = 1
    /\ IF On("clean") /\ On("oneTop")
       THEN IF disk[Root].kind = "none" THEN pc' = "failed" /\ UNCHANGED disk
            ELSE disk' = Wiped /\ pc' = "dirs"
       ELSE pc' = "dirs" /\ UNCHANGED disk
    /\ UNCHANGED <<cat, planned, meta, phase, placed, cache, workDir, store,
                   walk, pool, shutdown, restarts>>

\* What is at a path, for calls that follow its trailing slash: Here is a
\* directory if the root leads to one.
Found(p) ==
    CASE p # Here -> disk[p]
      [] p = Here /\ disk[Root].kind \in {"dir", "link"} -> Bare("dir")
      [] p = Here /\ disk[Root].kind \notin {"dir", "link"} -> Bare("none")

\* build_path: every prefix of p is made a directory.  A symbolic link gives
\* way unless directory links are kept, another entry with
\* --remove-and-replace.
MadeDir(p) ==
    [q \in Paths |->
        IF q \in Above[p] \cup {p} /\ ~(disk[q].kind = "link" /\ On("keepDirLink"))
        THEN Bare("dir") ELSE disk[q]]

\* A prefix that is no directory and may not be replaced, or a link that leads
\* nowhere (exists() is false and creating fails), stops the run.
Blocked(p) ==
    \E q \in Above[p] \cup {p} :
        \/ disk[q].kind \in {"old", "half", "payload", "special"} /\ ~On("replaceTypes")
        \/ disk[q].kind = "dangling"

\* build_path goes by components, in which Here is the root.
Place(p) == IF p = Here THEN Root ELSE p

AfterDirs == IF On("linkTree") THEN "move" ELSE "files"

\* prepare_extraction_dir: once per work directory, one directory row at a
\* time; only a forced shutdown stops it.  A row outside the output directory
\* fails build_path's assertion.
BuildDirs ==
    LET dirs == Ascending({r \in Rows : tree[r].dir})
        p == Place(tree[dirs[at]].path)
    IN /\ pc = "dirs"
       /\ IF On("noCreateDir") \/ "dirsBuilt" \in meta
          THEN pc' = AfterDirs /\ at' = 1 /\ UNCHANGED <<meta, disk>>
          ELSE IF at > Len(dirs)
          THEN /\ meta' = meta \cup {"dirsBuilt"}
               /\ pc' = AfterDirs /\ at' = 1 /\ UNCHANGED disk
          ELSE IF shutdown = "force"
          THEN pc' = "interrupted" /\ UNCHANGED <<meta, disk, at>>
          ELSE IF p = Up /\ ~On("oneTop")
          THEN pc' = "panicked" /\ UNCHANGED <<meta, disk, at>>
          ELSE IF Blocked(p)
          THEN pc' = "failed" /\ UNCHANGED <<meta, disk, at>>
          ELSE disk' = MadeDir(p) /\ at' = at + 1 /\ UNCHANGED <<meta, pc>>
       /\ UNCHANGED <<cat, planned, phase, placed, cache, workDir, store,
                      walk, pool, shutdown, restarts>>

-----------------------------------------------------------------------------
(* check_path: may the record be written to an occupied path?               *)

TypeOf(node) == IF node.kind \in {"old", "half", "payload"} THEN "file" ELSE node.kind
Exists(node) == node.kind \notin {"none", "dangling"}

\* The record's mtime is later than that of an entry the extraction found;
\* what it wrote itself, the cache included, is always younger.
Later(f, node) == node.by = 0 /\ node.of = 0 /\ f \in cat.newer

DiskWins(f, node) ==
    \/ cat.policy = "SkipExisting"
    \/ cat.policy = "PreferNewer" /\ ~Later(f, node)
    \/ cat.policy = "PreferOlder" /\ Later(f, node)

\* go: write to the path; unlink: remove what is there first; bad: the
\* removal fails, because a directory is in the way.
CheckPath(node, f, type) ==
    LET mismatch == TypeOf(node) # type
        refuse == [go |-> FALSE, unlink |-> FALSE, trace |-> {"Conflict"}]
    IN CASE ~Exists(node) -> [go |-> TRUE, unlink |-> FALSE, trace |-> {}]
         [] Exists(node) /\ (DiskWins(f, node) \/ (mismatch /\ ~On("replaceTypes"))) -> refuse
         [] Exists(node) /\ ~DiskWins(f, node) /\ (mismatch => On("replaceTypes")) ->
              IF ~mismatch /\ ~On("unlinkFirst")
              THEN [go |-> TRUE, unlink |-> FALSE, trace |-> {"Conflict"}]
              ELSE IF node.kind = "dir"
              THEN [refuse EXCEPT !.trace = {"Conflict", "Error"}]
              ELSE [go |-> TRUE, unlink |-> TRUE, trace |-> {"Conflict", "Removed"}]

-----------------------------------------------------------------------------
(* The workers of materialize_loop.                                         *)

Outcome(r, flags) == [id |-> r, flags |-> flags]
Payload(r) == cat.twin[tree[r].file]
\* An entry can be made at p: not Here, which can only be a directory.
Reachable(p) == p # Here /\ disk[Parent[p]].kind \in {"dir", "link"}

\* copy_single_file unlinks its destination when the copy fails, whatever the
\* copy found there; a directory stays.
Unlinked(node) == IF node.kind = "dir" THEN node ELSE Bare("none")

\* Writing to a link writes to what it leads to.
Written(node, new) == IF node.kind \in {"link", "dangling"} THEN node ELSE new

\* What the row's payload looks like to check_path: the source in the cache is
\* what the Files pass examines, not the target.
CacheNode(c) == IF c \in cache THEN [kind |-> "payload", of |-> c, by |-> 0]
                               ELSE Bare("none")

\* materialize_one, Files, up to the opened copy.
BeginCopy(r) ==
    LET p == tree[r].path
        c == Payload(r)
        check == CheckPath(CacheNode(c), c, cat.kind[c])
        left == IF check.unlink THEN cache \ {c} ELSE cache
    IN /\ cache' = left
       /\ IF ~check.go
          THEN /\ out' = out \cup {Outcome(r, check.trace \cup {"RefLink"})}
               /\ UNCHANGED <<disk, busy>>
          ELSE IF c \notin left \/ ~Reachable(p) \/ disk[p].kind = "dir"
          THEN /\ out' = out \cup {Outcome(r, check.trace \cup {"RefLink", "Error"})}
               /\ disk' = [disk EXCEPT ![p] = IF Reachable(p) THEN Unlinked(@) ELSE @]
               /\ UNCHANGED busy
          ELSE IF On("reflinks") /\ disk[p].kind = "none"
          THEN /\ out' = out \cup {Outcome(r, check.trace \cup {"RefLink", "Placed"})}
               /\ disk' = [disk EXCEPT ![p] = [kind |-> "payload", of |-> c, by |-> r]]
               /\ UNCHANGED busy
          ELSE /\ busy' = busy \cup {Outcome(r, check.trace)}
               /\ disk' = [disk EXCEPT ![p] =
                              Written(@, [kind |-> "half", of |-> c, by |-> r])]
               /\ UNCHANGED out

\* The copy ends, fails, or is aborted by a forced shutdown.
FinishCopy(job) ==
    LET p == tree[job.id].path
        c == Payload(job.id)
    IN /\ \/ /\ out' = out \cup {Outcome(job.id, job.flags \cup {"Placed"})}
             /\ disk' = [disk EXCEPT ![p] =
                            Written(@, [kind |-> "payload", of |-> c, by |-> job.id])]
          \/ /\ c \in cat.fails
             /\ out' = out \cup {Outcome(job.id, job.flags \cup {"RefLink", "Error"})}
             /\ disk' = [disk EXCEPT ![p] = Unlinked(@)]
          \/ /\ shutdown = "force"
             /\ out' = out \cup {Outcome(job.id, {"Interrupted"})}
             /\ disk' = [disk EXCEPT ![p] = Unlinked(@)]
       /\ UNCHANGED cache

\* materialize_one, Hardlinks and Others: the check and the removal.
BeginMake(r) ==
    LET p == tree[r].path
        check == CheckPath(Found(p), tree[r].file, cat.kind[tree[r].file])
        always == IF pc = "hardlinks" THEN {"IsHardlink"} ELSE {}
    IN /\ IF ~check.go
          THEN out' = out \cup {Outcome(r, check.trace \cup always)} /\ UNCHANGED busy
          ELSE busy' = busy \cup {Outcome(r, check.trace \cup always)} /\ UNCHANGED out
       /\ disk' = IF check.unlink THEN [disk EXCEPT ![p] = Bare("none")] ELSE disk
       /\ UNCHANGED cache

\* What build_other makes: a special file only with --create-other-entries.
Made(r) == [kind |-> cat.kind[tree[r].file], of |-> tree[r].file, by |-> r]
Skipped(r) == cat.kind[tree[r].file] = "special" /\ ~On("recreate")

\* fs::hard_link, symlink, mkfifo and mknod refuse a path that is taken.
FinishMake(job) ==
    LET r == job.id
        p == tree[r].path
        from == tree[tree[r].canon].path
        free == Reachable(p) /\ disk[p].kind = "none"
        able == IF pc = "hardlinks" THEN Found(from).kind \notin {"none", "dir"} ELSE TRUE
    IN /\ out' = out \cup {Outcome(r, job.flags \cup
                    IF (pc = "others" /\ Skipped(r)) \/ (free /\ able)
                    THEN {"Placed"} ELSE {"Error"})}
       /\ disk' = IF free /\ able /\ ~(pc = "others" /\ Skipped(r))
                  THEN [disk EXCEPT ![p] = IF pc = "hardlinks" THEN disk[from] ELSE Made(r)]
                  ELSE disk
       /\ UNCHANGED cache

-----------------------------------------------------------------------------
(* The lists of the three passes and the loop around the workers.           *)

\* pull_materialize_queue: elected file rows neither placed nor errored.
PendingFiles ==
    {r \in Rows : /\ FileRow(r) /\ tree[r].canon = r /\ Payload(r) # 0
                  /\ tree[r].flags \cap {"Placed", "Error"} = {}}

\* list_out_tree_for_hardlinks: every row that joins another one.
HardlinkRows == {r \in Rows : FileRow(r) /\ tree[r].canon \notin {0, r}}

\* list_out_tree_others: rows outside the election whose file is neither a
\* regular file nor a directory.
OtherRows ==
    {r \in Rows : /\ tree[r].file # 0 /\ tree[r].canon = 0
                  /\ cat.kind[tree[r].file] \in {"link", "special"}}

OpenPass ==
    /\ pc \in Passes /\ at = 1
    /\ todo' = CASE pc = "files" -> PendingFiles
                 [] pc = "hardlinks" -> HardlinkRows
                 [] pc = "others" -> OtherRows
    /\ at' = 2
    /\ UNCHANGED <<cat, planned, meta, phase, placed, world, pc, walk, work,
                   busy, out, shutdown, restarts>>

\* send_receive_loop, feed: in order while the channel has room, and no more
\* once a shutdown is pending.
Feed ==
    /\ pc \in Pooled /\ at = 2 /\ todo # {}
    /\ IF shutdown # "running"
       THEN todo' = {} /\ UNCHANGED work
       ELSE LET next == CHOOSE x \in todo : \A y \in todo : x <= y
            IN /\ Cardinality(work) < WorkCapacity
               /\ todo' = todo \ {next} /\ work' = work \cup {next}
    /\ UNCHANGED <<cat, planned, meta, phase, placed, world, pc, at, walk, busy,
                   out, shutdown, restarts>>

\* A worker that takes an item under a shutdown ends; the rest is dropped with
\* the channel.
DropWork ==
    /\ pc \in Pooled /\ at = 2
    /\ shutdown # "running" /\ work # {}
    /\ work' = {}
    /\ UNCHANGED <<cat, planned, meta, phase, placed, world, pc, at, walk, todo,
                   busy, out, shutdown, restarts>>

\* materialize_worker.
WorkerBegin ==
    /\ pc \in Passes /\ at = 2 /\ shutdown = "running"
    /\ Cardinality(busy) < Workers
    /\ \E r \in work :
          /\ work' = work \ {r}
          /\ IF pc = "files" THEN BeginCopy(r) ELSE BeginMake(r)
    /\ UNCHANGED <<cat, planned, meta, phase, placed, workDir, store, pc, at,
                   walk, todo, shutdown, restarts>>

WorkerFinish ==
    /\ pc \in Passes /\ at = 2
    /\ \E job \in busy :
          /\ busy' = busy \ {job}
          /\ IF pc = "files" THEN FinishCopy(job) ELSE FinishMake(job)
    /\ UNCHANGED <<cat, planned, meta, phase, placed, workDir, store, pc, at,
                   walk, todo, work, shutdown, restarts>>

\* A batch that drain takes before it commits: DrainChunk outcomes, or what is
\* left once the workers have nothing in hand.
IsBatch(B) ==
    \/ Cardinality(B) = DrainChunk
    \/ B = out /\ out # {} /\ todo \cup work = {} /\ busy = {}
          /\ Cardinality(out) < DrainChunk

\* Mutant: the outcome of an aborted copy counts as a placement.
AppliedAborted(r, B) ==
    IF \E x \in B : x.id = r
    THEN (tree[r].flags \cap {"Error", "IsHardlink"})
             \cup ((CHOOSE x \in B : x.id = r).flags \ {"Interrupted"}) \cup {"Placed"}
    ELSE tree[r].flags

\* apply_result_flags: placed, conflict and removed are overwritten, the
\* reflink bit by the Files pass only; errors and hard-link marks stay.  An
\* aborted copy leaves its row as it was.
Applied(r, B) ==
    LET o == CHOOSE x \in B : x.id = r
        kept == {"Error", "IsHardlink"} \cup (IF pc = "files" THEN {} ELSE {"RefLink"})
    IN IF \E x \in B : x.id = r /\ x.flags # {"Interrupted"}
       THEN (tree[r].flags \cap kept) \cup o.flags
       ELSE tree[r].flags

\* process_results: one transaction per batch; with --fail-fast the first
\* error of the batch ends the run.
Ingest ==
    /\ pc \in Passes /\ at = 2
    /\ \E B \in SUBSET out :
          /\ IsBatch(B)
          /\ out' = out \ B
          /\ tree' = [r \in Rows |-> Flagged(tree[r], Applied(r, B))]
          /\ pc' = IF On("failFast") /\ \E o \in B : "Error" \in o.flags
                   THEN "failed" ELSE pc
    /\ UNCHANGED <<cat, newName, refOut, conflicts, meta, phase, placed, world,
                   at, walk, todo, work, busy, shutdown, restarts>>

\* Mutant: a pass that was stopped is taken for a finished one.
EndPassStopped ==
    /\ pc \in Passes /\ at = 2
    /\ todo \cup work = {} /\ busy = {} /\ out = {}
    /\ pc' = CASE pc = "files" -> "sweep" [] pc = "hardlinks" -> "others"
               [] pc = "others" -> "flags"
    /\ at' = 1
    /\ UNCHANGED <<cat, planned, meta, phase, placed, world, walk, pool,
                   shutdown, restarts>>

\* The workers are joined and the results committed; a pending shutdown ends
\* the run even when every row was done.
EndPass ==
    /\ pc \in Passes /\ at = 2
    /\ todo \cup work = {} /\ busy = {} /\ out = {}
    /\ pc' = CASE shutdown # "running" -> "interrupted"
               [] shutdown = "running" /\ pc = "files" -> "sweep"
               [] shutdown = "running" /\ pc = "hardlinks" -> "others"
               [] shutdown = "running" /\ pc = "others" -> "flags"
    /\ at' = 1
    /\ UNCHANGED <<cat, planned, meta, phase, placed, world, walk, pool,
                   shutdown, restarts>>

-----------------------------------------------------------------------------
(* The end of the phase.                                                    *)

\* cleanup_stage: after the Files pass and again at the end, when the
\* directory is usually gone and removing it fails.  The directory is the work
\* directory (extract_cache_dir), so the database file goes too; the open
\* connection goes on with it.
Sweep ==
    /\ pc \in {"sweep", "sweep2"}
    /\ IF On("keepStage") THEN UNCHANGED <<cache, workDir>>
                          ELSE cache' = {} /\ workDir' = FALSE
    /\ pc' = CASE ~On("keepStage") /\ ~workDir /\ On("failFast") -> "failed"
               [] (On("keepStage") \/ workDir \/ ~On("failFast")) /\ pc = "sweep" -> "hardlinks"
               [] (On("keepStage") \/ workDir \/ ~On("failFast")) /\ pc = "sweep2" -> "promote"
    /\ UNCHANGED <<cat, planned, meta, phase, placed, disk, store, at, walk,
                   pool, shutdown, restarts>>

\* apply_flags_to_files, as coded: NOT IN over a list with the NULL of a
\* scaffold row is never true, and the conflict and error bits are copied from
\* rows that lack them.
ApplyFlags ==
    LET rowsOf(f) == {r \in Rows : tree[r].file = f}
        scaffold == \E r \in Rows : tree[r].file = 0
        all(f, flag) == ~scaffold /\ rowsOf(f) # {}
                           /\ \A r \in rowsOf(f) : flag \in tree[r].flags
        some(f, flag) == \E r \in rowsOf(f) : flag \notin tree[r].flags
    IN /\ pc = "flags"
       /\ fileFlags' = [f \in Files |-> fileFlags[f]
                            \cup {x \in {"Placed", "RefLink"} : all(f, x)}
                            \cup {x \in {"Conflict", "Error"} : some(f, x)}]
       /\ pc' = "sweep2"
       /\ UNCHANGED <<cat, planned, meta, phase, promoted, world, at, walk, pool,
                      shutdown, restarts>>

\* global_mark_phase(AtDestination), unless a signal came after the last pass.
Promote ==
    /\ pc = "promote"
    /\ promoted' = (promoted \/ shutdown = "running")
    /\ pc' = "verify"
    /\ UNCHANGED <<cat, planned, meta, phase, fileFlags, world, at, walk, pool,
                   shutdown, restarts>>

\* E8 and E9 of the battery: what was moved or flagged on a canonical file had
\* been extracted, and an errored row has no other trace of its placement.
PlaceChecks ==
    /\ \A c \in Files : "AtLinkSource" \in fileFlags[c] => c \in cat.stored
    /\ \A c \in Files : cat.twin[c] = c /\ fileFlags[c] \cap {"RefLink", "Error"} # {}
                            => c \in cat.stored
    /\ \A r \in Rows : "Error" \in tree[r].flags => tree[r].flags = {"Error"}

\* verify_after_phase after placement.
VerifyPlace ==
    /\ pc = "verify" /\ phase = "Place"
    /\ IF TreeChecks /\ PlaceChecks
       THEN pc' = "enter" /\ phase' = "Permissions"
       ELSE pc' = "panicked" /\ UNCHANGED phase
    /\ UNCHANGED <<cat, planned, meta, placed, world, at, walk, pool, shutdown,
                   restarts>>
=============================================================================
