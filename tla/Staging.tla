------------------------------ MODULE Staging ------------------------------
(***************************************************************************)
(* The phases that prepare the payloads in the stage directory: sparsify   *)
(* (archive/sparsify.rs) writes sparse copies, stage (archive/stage.rs)    *)
(* makes the links that the archive phase reads the members through.       *)
(***************************************************************************)
EXTENDS Catalogue

\* Rows that are archived as a payload: self-canonical and kept.
Candidate == {n \in Regular \cap Kept : row[n].canonical = n}

-----------------------------------------------------------------------------
(* sparsify                                                                *)

\* sparsify_candidates_where; sparse_count comes with the digest.
SparseCandidate == {n \in Candidate \cap Hashed : world.content[n] \in world.zeros}
PendingSparse == {n \in In("deduped") : row[n].flags \cap {"hasSparse", "sparseError"} = {}}

\* Without --sparsify every row is promoted, else the rows that are no
\* candidates.
PromoteSparse ==
    /\ Doing("sparsify", "enter")
    /\ LET rest == IF world.sparsify THEN In("deduped") \ SparseCandidate ELSE In("deduped")
       IN Update(rest, LAMBDA r : To("sparsified", r))
    /\ sparseQueue' = IF world.sparsify THEN sparseQueue ELSE {}
    /\ pc' = IF world.sparsify THEN "queue" ELSE "verify"
    /\ UNCHANGED <<world, hashQueue, meta, files, at, todo, pool, shutdown, outcome, launches>>

\* sanity_no_deduped panics on a row that was left behind.
SparseDone ==
    IF In("deduped") = {}
    THEN /\ pc' = "verify" /\ pulled' = {}
         /\ UNCHANGED <<at, todo, waiting, reading, answers, outcome>>
    ELSE Exit("panic")

\* populate_sparsify_queue; without pending rows the phase is over.
PopulateSparseQueue ==
    /\ Doing("sparsify", "queue")
    /\ IF SparseCandidate \cap PendingSparse = {}
       THEN sparseQueue' = {} /\ SparseDone
       ELSE /\ sparseQueue' = Populated(sparseQueue, SparseCandidate) /\ pc' = "pool"
            /\ UNCHANGED <<at, todo, pool, outcome>>
    /\ UNCHANGED <<world, row, hashQueue, meta, files, shutdown, launches>>

\* pull_pending_sparsify_rows
PullSparse == at = "sparsify" /\ Pull(sparseQueue, PendingSparse)

\* sparsify_worker: the copy is created, or truncated, when it begins.
OpenSparse ==
    /\ Doing("sparsify", "pool") /\ ~Interrupted
    /\ \E n \in waiting :
          /\ waiting' = waiting \ {n} /\ reading' = reading \cup {n}
          /\ sparse' = IF n \in gone THEN sparse ELSE [sparse EXCEPT ![n] = "partial"]
    /\ UNCHANGED <<world, row, queue, meta, gone, link, tape, pc, at, todo, pulled, answers,
                   shutdown, outcome, launches>>

\* Mutant: a copy that does not finish is kept.
CopySparseKept ==
    /\ Doing("sparsify", "pool")
    /\ \E n \in reading, r \in Result :
          /\ r = "ok" => sparse[n] = "partial"
          /\ r = "failed" => n \in gone
          /\ r = "aborted" => shutdown = "force"
          /\ reading' = reading \ {n} /\ answers' = answers \cup {<<n, IF r = "aborted"
                                                                       THEN "ok" ELSE r>>}
          /\ sparse' = [sparse EXCEPT ![n] = IF r = "ok" THEN "whole" ELSE @]
    /\ UNCHANGED <<world, row, queue, meta, gone, link, tape, pc, at, todo, pulled, waiting,
                   shutdown, outcome, launches>>

\* sparse_one and TempSparseFile: a copy that does not finish is removed.
CopySparse ==
    /\ Doing("sparsify", "pool")
    /\ \E n \in reading, r \in Result :
          /\ r = "ok" => sparse[n] = "partial"
          /\ r = "failed" => n \in gone
          /\ r = "aborted" => shutdown = "force"
          /\ reading' = reading \ {n} /\ answers' = answers \cup {<<n, r>>}
          /\ sparse' = [sparse EXCEPT ![n] = IF r = "ok" THEN "whole" ELSE "none"]
    /\ UNCHANGED <<world, row, queue, meta, gone, link, tape, pc, at, todo, pulled, waiting,
                   shutdown, outcome, launches>>

\* ingest_sparsify_outcome: one transaction.
IngestSparse ==
    /\ Doing("sparsify", "pool")
    /\ \E batch \in SUBSET answers \ {{}} :
          /\ row' = [n \in Names |->
                CASE <<n, "ok">> \in batch -> Flagging("hasSparse", "sparsified", row[n])
                  [] <<n, "failed">> \in batch ->
                       Flagging("sparseError", "sparsified", row[n])
                  [] OTHER -> row[n]]
          /\ answers' = answers \ batch
    /\ UNCHANGED <<world, queue, meta, files, pc, at, todo, pulled, waiting, reading,
                   shutdown, outcome, launches>>

EndSparse ==
    /\ Doing("sparsify", "pool") /\ PoolDrained(sparseQueue, PendingSparse)
    /\ IF Interrupted
       THEN Exit("stopped") /\ UNCHANGED sparseQueue
       ELSE sparseQueue' = {} /\ SparseDone
    /\ UNCHANGED <<world, row, hashQueue, meta, files, shutdown, launches>>

-----------------------------------------------------------------------------
(* stage                                                                   *)

Stageable == {n \in In("sparsified") : n \in Candidate \cap Hashed}

\* promote_unstageable_files; without pending rows the phase is over.
PromoteUnstageable ==
    /\ Doing("stage", "enter")
    /\ Update(In("sparsified") \ Stageable, LAMBDA r : To("staged", r))
    /\ todo' = FirstBatch(Stageable)
    /\ pc' = IF Stageable = {} THEN "verify" ELSE "link"
    /\ UNCHANGED <<world, queue, meta, files, at, pool, shutdown, outcome, launches>>

\* Path::exists follows the link.
Leads(n) ==
    CASE link[n] = "source" -> n \notin gone
      [] link[n] = "sparse" -> sparse[n] # "none"
      [] OTHER -> FALSE

NoFailure == \A n \in Names : <<n, "failed">> \notin answers

\* One record of the parallel section: a link that leads somewhere is
\* replaced; over one that dangles, symlink fails with EEXIST.
LinkMember ==
    /\ Doing("stage", "link") /\ ~Interrupted /\ NoFailure
    /\ \E n \in todo :
          /\ todo' = todo \ {n}
          /\ IF link[n] = "none" \/ Leads(n)
             THEN /\ link' = [link EXCEPT ![n] = IF "hasSparse" \in row[n].flags
                                                 THEN "sparse" ELSE "source"]
                  /\ answers' = answers \cup {<<n, "ok">>}
             ELSE answers' = answers \cup {<<n, "failed">>} /\ UNCHANGED link
    /\ UNCHANGED <<world, row, queue, meta, gone, sparse, tape, pc, at, pulled, waiting,
                   reading, shutdown, outcome, launches>>

\* The section ends with the batch, with a failure or with a signal; records
\* left in todo say that it was cut short.
EndSection ==
    /\ Doing("stage", "link")
    /\ todo = {} \/ Interrupted \/ ~NoFailure
    /\ pc' = "apply"
    /\ UNCHANGED <<world, row, queue, meta, files, at, todo, pool, shutdown, outcome,
                   launches>>

\* The outcomes of the batch, one statement each; a failure ends the phase and
\* leaves the outcomes behind it unapplied.
ApplyLink ==
    /\ Doing("stage", "apply")
    /\ \E a \in answers :
          IF a[2] = "ok"
          THEN /\ row' = [row EXCEPT ![a[1]] = To("staged", @)]
               /\ answers' = answers \ {a}
               /\ UNCHANGED <<pc, at, todo, pulled, waiting, reading, outcome>>
          ELSE Exit("error") /\ UNCHANGED row
    /\ UNCHANGED <<world, queue, meta, files, shutdown, launches>>

\* list_files_to_stage_after: the next batch, or the end of the phase.
NextBatch ==
    /\ Doing("stage", "apply") /\ answers = {}
    /\ IF todo # {}
       THEN Exit("stopped")
       ELSE /\ todo' = FirstBatch(Stageable)
            /\ pc' = IF Stageable = {} THEN "verify" ELSE "link"
            /\ UNCHANGED <<at, pool, outcome>>
    /\ UNCHANGED <<world, row, queue, meta, files, shutdown, launches>>
=============================================================================
