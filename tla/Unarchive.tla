----------------------------- MODULE Unarchive -----------------------------
(***************************************************************************)
(* The extraction up to the placement (unarchive.rs, unarchive/filter.rs,  *)
(* unarchive/rehash.rs, db/rehash.rs): the driver that steps through the   *)
(* phases and saves the one it has reached, the scan of ScanTar, the user's*)
(* filter, and the rehash whose workers read every extracted payload back. *)
(***************************************************************************)
EXTENDS ScanTar

Settled == {"done", "failed", "interrupted", "panicked"}

-----------------------------------------------------------------------------
(* The driver.                                                              *)

EnterPhase ==
    /\ pc = "enter"
    /\ pc' = CASE shutdown # "running" -> "interrupted"
               [] shutdown = "running" /\ phase = "ScanTar" -> "open"
               [] shutdown = "running" /\ phase = "Filter" -> "filter"
               [] shutdown = "running" /\ phase = "Rehash" -> "rehash"
               [] shutdown = "running" /\ phase = "PlacementPrologue" -> "done"
    /\ UNCHANGED <<arc, work, cache, pass, buffer, pool, shutdown, restarts>>

\* A fresh run stores its configuration once the scan gave it a database.
EndScan ==
    /\ pc = "scanned"
    /\ meta' = IF first THEN meta \cup {"extract_config"} ELSE meta
    /\ pc' = "verify"
    /\ UNCHANGED <<arc, installed, row, sessioned, errored, extracted, failed, verified,
                   mismatched, unread, patterns, chosen, saved, phase, cache, pass,
                   buffer, pool, shutdown, restarts>>

\* files_to_rehash_where.
Elected == {f \in extracted : f \in chosen}

\* A7: a payload in the archive, or an error of the archiving run, and not both.
Owned(f) == (f \in sessioned) # (f \in errored)

\* E4: one verdict on every elected row, none on the others.
Verdicts(f) == {b \in {"match", "mismatch", "error"} :
    \/ b = "match" /\ f \in verified
    \/ b = "mismatch" /\ f \in mismatched
    \/ b = "error" /\ f \in unread}
Judged(f) == Cardinality(Verdicts(f)) = IF f \in Elected THEN 1 ELSE 0

Battery ==
    /\ \A f \in Files : Owned(f) /\ row[f] \notin {"staged", "archived"}
    /\ phase = "Rehash" /\ On("rehash") => \A f \in Files : Judged(f)

\* Mutant: an index off by one.
FollowingSame == [ScanTar |-> "ScanTar", Filter |-> "Filter", Rehash |-> "Rehash"]

Following == [ScanTar |-> "Filter", Filter |-> "Rehash", Rehash |-> "PlacementPrologue"]

\* verify_after_phase panics; else the next phase is saved.
Verify ==
    /\ pc = "verify"
    /\ IF Battery THEN phase' = Following[phase] /\ pc' = "enter"
       ELSE pc' = "panicked" /\ UNCHANGED phase
    /\ UNCHANGED <<arc, installed, row, sessioned, errored, extracted, failed, verified,
                   mismatched, unread, patterns, chosen, meta, saved, cache, pass,
                   buffer, pool, shutdown, restarts>>

-----------------------------------------------------------------------------
(* Filter.                                                                  *)

\* The user's patterns are applied once, by the eager run or here.
ApplyFilter ==
    /\ pc = "filter"
    /\ chosen' = IF "filters_applied" \in meta THEN chosen ELSE Selected
    /\ meta' = meta \cup {"filters_applied"}
    /\ pc' = "filtered"
    /\ UNCHANGED <<arc, installed, row, sessioned, errored, extracted, failed, verified,
                   mismatched, unread, patterns, saved, phase, cache, pass, buffer,
                   pool, shutdown, restarts>>

MarkFiltered ==
    /\ pc = "filtered"
    /\ row' = [f \in Files |-> "filtered"]
    /\ pc' = "verify"
    /\ UNCHANGED <<arc, installed, sessioned, errored, extracted, failed, verified,
                   mismatched, unread, patterns, chosen, meta, saved, phase, cache,
                   pass, buffer, pool, shutdown, restarts>>

-----------------------------------------------------------------------------
(* Rehash.                                                                  *)

\* Rows another run judged are not pulled again.
Queued == {f \in Elected : row[f] = "filtered"}

\* skip_rehash, and promote_unrehashable_files.
Passed(S) == [f \in Files |-> IF row[f] = "filtered" /\ f \in S THEN "rehashed" ELSE row[f]]
SkipRehash == Passed(Files)
PromoteUnrehashable == Passed(Files \ Elected)

\* Without --rehash every row passes; else the rows that are not elected do,
\* and the elected ones are queued.
OpenRehash ==
    /\ pc = "rehash"
    /\ row' = IF On("rehash") THEN PromoteUnrehashable ELSE SkipRehash
    /\ todo' = IF On("rehash") THEN Queued ELSE {}
    /\ pc' = IF On("rehash") /\ Queued # {} THEN "pool" ELSE "verify"
    /\ UNCHANGED <<arc, installed, sessioned, errored, extracted, failed, verified,
                   mismatched, unread, patterns, chosen, meta, saved, phase, cache,
                   pass, buffer, busy, out, bad, shutdown, restarts>>

\* A worker looks for a signal when it takes a row; one that comes later lets
\* it finish the file, unless it aborts.
BeginRehash ==
    /\ pc = "pool" /\ shutdown = "running" /\ Cardinality(busy) < Workers
    /\ \E f \in todo : busy' = busy \cup {f} /\ todo' = todo \ {f}
    /\ UNCHANGED <<arc, work, cache, pc, pass, buffer, out, bad, shutdown, restarts>>

Verdict(f) ==
    IF cache[f] = "none" THEN "error"
    ELSE IF cache[f] = "part" \/ f \in arc.corrupt THEN "mismatch" ELSE "match"

FinishRehash ==
    /\ pc = "pool"
    /\ \E f \in busy : busy' = busy \ {f} /\ out' = out \cup {<<f, Verdict(f)>>}
    /\ UNCHANGED <<arc, work, cache, pc, pass, buffer, todo, bad, shutdown, restarts>>

AbortRehash ==
    /\ pc = "pool" /\ shutdown = "force"
    /\ \E f \in busy : busy' = busy \ {f}
    /\ UNCHANGED <<arc, work, cache, pc, pass, buffer, todo, out, bad, shutdown, restarts>>

\* No worker is left: all rows are hashed, or a signal ended the workers.
WorkersGone == busy = {} /\ (todo = {} \/ shutdown # "running")

\* Outcomes are committed by the chunk, and what is left when all workers are
\* gone.
Chunk(B) ==
    /\ B # {} /\ B \subseteq out /\ Cardinality(B) <= DrainChunk
    /\ Cardinality(B) = DrainChunk \/ WorkersGone
Wrong(B) == {b[2] : b \in B} \ {"match"}
With(v, B) == {b[1] : b \in {x \in B : x[2] = v}}
Commit ==
    /\ pc = "pool"
    /\ \E B \in SUBSET out :
          /\ Chunk(B)
          /\ out' = out \ B
          /\ verified' = verified \cup With("match", B)
          /\ mismatched' = mismatched \cup With("mismatch", B)
          /\ unread' = unread \cup With("error", B)
          /\ bad' = bad \cup Wrong(B)
          /\ row' = [f \in Files |-> IF f \in {b[1] : b \in B} THEN "rehashed" ELSE row[f]]
    /\ UNCHANGED <<arc, installed, sessioned, errored, extracted, failed, patterns, chosen,
                   meta, saved, phase, cache, pc, pass, buffer, todo, busy, shutdown,
                   restarts>>

\* Mutant: the end of the pool does not look at the signal.
PoolEndDeaf == IF "mismatch" \in bad /\ ~On("force") THEN "failed" ELSE "verify"

\* Mutant: mismatches are only noted.
PoolEndLenient ==
    CASE shutdown # "running" -> "interrupted"
      [] shutdown = "running" -> IF "error" \in bad /\ On("failFast") THEN "failed" ELSE "verify"

\* The verdicts are in the database by now; what they were decides the run.
PoolEnd ==
    CASE shutdown # "running" -> "interrupted"
      [] shutdown = "running" /\ "mismatch" \in bad /\ ~On("force") -> "failed"
      [] shutdown = "running" /\ ("mismatch" \in bad => On("force")) ->
            IF "error" \in bad /\ On("failFast") THEN "failed" ELSE "verify"
EndRehash ==
    /\ pc = "pool" /\ WorkersGone /\ out = {}
    /\ pc' = PoolEnd
    /\ todo' = {}
    /\ UNCHANGED <<arc, work, cache, pass, buffer, busy, out, bad, shutdown, restarts>>

-----------------------------------------------------------------------------
(* The environment.                                                         *)

\* The first signal asks for a clean stop, the third aborts.
Signal ==
    /\ pc \notin Settled
    /\ shutdown' = CASE shutdown = "running" -> "graceful" [] OTHER -> "force"
    /\ shutdown # "force"
    /\ UNCHANGED <<arc, work, cache, pc, pass, buffer, pool, restarts>>

\* The process dies or has ended, and the extraction is run again: resumed over
\* the work database if there is one, anew if not.  Only a new run parses the
\* user's patterns.
Restart ==
    /\ pc # "done" /\ restarts < MaxRestarts
    /\ restarts' = restarts + 1
    /\ pc' = "enter" /\ shutdown' = "running"
    /\ buffer' = ~installed
    /\ origin' = "footer" /\ seen' = NothingSeen /\ skip' = 0 /\ at' = 1 /\ first' = TRUE
    /\ window' = [ok |-> {}, bad |-> {}]
    /\ todo' = {} /\ busy' = {} /\ out' = {} /\ bad' = {}
    /\ UNCHANGED <<arc, work, cache>>

Stopped == pc \in Settled /\ UNCHANGED vars

ScanStep ==
    \/ Open \/ CopyCatalogue \/ InitCatalogue \/ StorePatterns \/ EagerFilter \/ LoadState
    \/ SkipMember \/ BeginMember \/ ApplySnapshot \/ CountMember
    \/ BeginPayload \/ EndPayload \/ FlagPayload \/ SaveState \/ CheckCache \/ Gate

Driver ==
    \/ EnterPhase \/ ScanStep \/ EndScan \/ Verify \/ ApplyFilter \/ MarkFiltered
    \/ OpenRehash \/ Commit \/ EndRehash

Worker == BeginRehash \/ FinishRehash \/ AbortRehash

Next == Driver \/ Worker \/ Signal \/ Restart \/ Stopped

Spec == Init /\ [][Next]_vars

\* The driving thread never blocks for good (its reads of the archive and its
\* copies end), and a worker's read of a file ends.
FairSpec == Spec /\ WF_vars(Driver) /\ WF_vars(Worker)

-----------------------------------------------------------------------------
TypeOK ==
    /\ row \in [Files -> {"none", "staged", "archived", "unarchived", "filtered", "rehashed"}]
    /\ extracted \cup failed \cup verified \cup mismatched \cup unread \subseteq Files
    /\ sessioned \cup errored \cup chosen \subseteq Files
    /\ meta \subseteq {"archive_phase", "archive_config", "extract_phase", "extract_config",
                       "filters_applied"}
    /\ saved \in ScanState /\ seen \in ScanState
    /\ cache \in [Files -> {"none", "part", "full"}]
    /\ pc = "payload" => here.kind = "payload"
    /\ todo \cup busy \subseteq Files /\ bad \subseteq {"mismatch", "error"}

\* The payloads among the first n members, and the rows the snapshots name.
PayloadsOf(a, n) ==
    {a.stream[i].file : i \in {j \in DOMAIN a.stream : j <= n /\ a.stream[j].kind = "payload"}}
NamedIn(a) ==
    UNION {a.stream[i].upto : i \in {j \in DOMAIN a.stream : a.stream[j].kind = "snapshot"}}
InStream == PayloadsOf(arc, Len(arc.stream))

\* A final catalogue or a snapshot of the stream knows the row.
Named(a) == (IF a.footer THEN a.stored \cup a.excused ELSE {}) \cup NamedIn(a)

\* Without --force no row leaves the scan by a promotion it has not earned: a
\* final catalogue or a snapshot of the stream names it, and its payload was
\* extracted, or the eager filter excluded it.
OnlyConfirmed ==
    ~On("force") =>
        \A f \in Files : row[f] \in {"unarchived", "filtered", "rehashed"} =>
            /\ f \in Named(arc)
            /\ f \in extracted \/ (On("eager") /\ f \notin chosen)

\* The saved index of the last member is what a rerun skips up to: nothing up
\* to it is still to be done.
IndexTruthful ==
    \A f \in PayloadsOf(arc, saved.last) :
        f \in extracted \cup failed \/ (On("eager") /\ ~ShouldExtract(f))

\* Without --force a row that has FileExtracted past the scan has its whole
\* payload in the cache.
ExtractedIsThere ==
    ~On("force") /\ phase # "ScanTar" => \A f \in Elected : cache[f] = "full"

\* What reaches the placement is complete, as long as the run knows the user's
\* patterns: every stored row they keep is extracted, and rehashed if asked to,
\* with no verdict but a match (a second run passes over bad ones).
CompleteExtraction ==
    phase = "PlacementPrologue" /\ ~On("force") /\ patterns =>
        \A f \in arc.want \cap sessioned :
            /\ f \in extracted \cap chosen
            /\ On("rehash") /\ restarts = 0 =>
                  f \in verified \ (mismatched \cup arc.corrupt)

\* A first run over a whole archive does not panic, whatever signals come and
\* whatever its copies and its rehash meet.
Whole ==
    /\ arc.footer /\ arc.excused = {}
    /\ arc.stored = Files /\ arc.stored = InStream
PanicHasCause == pc = "panicked" /\ Whole => restarts > 0

\* Every run comes to an end.
Settles == <>[](pc \in Settled)

-----------------------------------------------------------------------------
(* What the documentation and the code's own messages say and a run refutes.*)

\* manual.md, resume: continue incomplete work.  What main.rs makes of a work
\* database.
Dispatched ==
    IF "archive_phase" \in meta THEN "archive"
    ELSE IF "extract_phase" \in meta
    THEN IF "extract_config" \in meta THEN "extract" ELSE "none"
    ELSE "none"
ResumeContinues == pc = "interrupted" /\ installed => Dispatched = "extract"

\* manual.md, archive format: truncated archives are extracted with --force.
ForceSalvages == pc = "panicked" => ~On("force")

\* scan.rs, process_entry: the catalogue of the trailer is the final one, and
\* the older manifest of the stream is not laid over it.
CatalogueKept == [][arc.footer /\ sessioned = arc.stored => sessioned' = sessioned]_vars
=============================================================================
