------------------------------ MODULE Pipeline ------------------------------
(***************************************************************************)
(* An archive run from the command to the clean-up (archive.rs, common/    *)
(* start.rs, common/cleanup.rs, main.rs): start policy, the loop over the  *)
(* phases, the battery of checks after each of them (db/integrity.rs), and *)
(* what crashes, signals and further commands do to a work directory.      *)
(*                                                                         *)
(* Dedup and archive have modules of their own (Dedup, ArchiveSession);    *)
(* here each is what it promises: one canonical per content among the kept *)
(* rows, and payloads that are committed one after the other.              *)
(***************************************************************************)
EXTENDS Intake, Staging

RemoveDatabase ==
    /\ row' = [n \in Names |-> NoRow] /\ hashQueue' = {} /\ sparseQueue' = {}
    /\ meta' = [phase |-> "none", config |-> FALSE, rules |-> "none"]
RemoveStage ==
    /\ sparse' = [n \in Names |-> "none"] /\ link' = [n \in Names |-> "none"]

Init ==
    /\ world \in Worlds
    /\ gone = {}
    /\ row = [n \in Names |-> NoRow] /\ hashQueue = {} /\ sparseQueue = {}
    /\ meta = [phase |-> "none", config |-> FALSE, rules |-> "none"]
    /\ sparse = [n \in Names |-> "none"] /\ link = [n \in Names |-> "none"]
    /\ tape = [ours |-> FALSE, older |-> FALSE, footer |-> FALSE]
    /\ pc = "off" /\ at = "inventory" /\ todo = {}
    /\ pulled = {} /\ waiting = {} /\ reading = {} /\ answers = {}
    /\ shutdown = "running" /\ outcome = "none" /\ launches = 0

-----------------------------------------------------------------------------
(* The start of a process.                                                 *)

Incomplete == meta.phase \notin {"none", "done"}

Launched == pc = "off" /\ launches < MaxLaunches /\ launches' = launches + 1
            /\ shutdown' = "running"

\* Policy Create: refused over unfinished work and over a finished archive.
Create ==
    /\ Launched /\ outcome' = "none"
    /\ ~Incomplete /\ ~tape.footer
    /\ pc' = "save"
    /\ UNCHANGED <<world, row, queue, meta, files, at, todo, pool>>

\* Policy Fresh: reset_workdir, before anything else.  The archive file stays.
Fresh ==
    /\ Launched /\ outcome' = "none"
    /\ RemoveDatabase /\ RemoveStage
    /\ tape' = [tape EXCEPT !.ours = FALSE, !.older = tape.older \/ tape.ours]
    /\ pc' = "save"
    /\ UNCHANGED <<world, gone, at, todo, pool>>

\* Policy Resume: the configuration and the phase come from the database.
Resume ==
    /\ Launched /\ outcome' = "none"
    /\ Incomplete /\ meta.config
    /\ at' = meta.phase
    /\ pc' = "loop"
    /\ UNCHANGED <<world, row, queue, meta, files, todo, pool>>

\* RunFresh: the phase, the configuration, the include rules and the exclude
\* rules are stored one after the other.
Prepare ==
    /\ \/ pc = "save" /\ meta' = [meta EXCEPT !.phase = "inventory"] /\ pc' = "config"
       \/ pc = "config" /\ meta' = [meta EXCEPT !.config = TRUE] /\ pc' = "includes"
       \/ pc = "includes" /\ meta' = [meta EXCEPT !.rules = "includes"] /\ pc' = "excludes"
       \/ pc = "excludes" /\ meta' = [meta EXCEPT !.rules = "all"] /\ pc' = "loop"
    /\ UNCHANGED <<world, row, queue, files, at, todo, pool, shutdown, outcome, launches>>

-----------------------------------------------------------------------------
(* The loop over the phases.                                               *)

\* The head of the loop; an interrupt there is an error of the run.
EnterPhase ==
    /\ pc = "loop"
    /\ IF at # "done" /\ Interrupted
       THEN Exit("stopped")
       ELSE /\ pc' = IF at = "done" THEN "cleanup" ELSE "enter"
            /\ UNCHANGED <<at, todo, pool, outcome>>
    /\ UNCHANGED <<world, row, queue, meta, files, shutdown, launches>>

\* Mutant: the arm of hash forgets the setting.
NextPhaseTwice(p) ==
    IF p = "hash" THEN "filter" ELSE
    CASE p = "inventory" -> IF world.eager THEN "filter" ELSE "hash"
      [] p = "filter" -> IF world.eager THEN "hash" ELSE "dedup"
      [] p = "dedup" -> "sparsify"
      [] p = "sparsify" -> "stage"
      [] p = "stage" -> "archive"
      [] OTHER -> "done"

NextPhase(p) ==
    CASE p = "inventory" -> IF world.eager THEN "filter" ELSE "hash"
      [] p = "hash" -> IF world.eager THEN "dedup" ELSE "filter"
      [] p = "filter" -> IF world.eager THEN "hash" ELSE "dedup"
      [] p = "dedup" -> "sparsify"
      [] p = "sparsify" -> "stage"
      [] p = "stage" -> "archive"
      [] OTHER -> "done"

\* A1: among the rows that are hashed, error and digest exclude each other and
\* one of them is there.
A1 == \A n \in Regular : /\ world.detect => n \in Flagged("linkCanonical")
                         /\ world.eager => n \in Kept
                         => (n \in Flagged("hashError") <=> n \notin Hashed)
A2 == Flagged("hashError") \cap Hashed = {}
A3 == \A n \in Names : row[n].canonical # NULL => n \in Hashed
A5 == \A n \in Regular \cap Hashed \cap Kept :
         row[n].canonical = NULL => row[n].flags \cap {"hashError", "dedupError"} # {}
A6 == \A n \in SparseCandidate :
         ("hasSparse" \in row[n].flags) # ("sparseError" \in row[n].flags)
A7 == \A n \in Names : row[n].canonical = n =>
         (row[n].stored # ("archiveError" \in row[n].flags))
A8 == In("staged") = {}

\* check_archive_battery
Battery ==
    /\ A2 /\ A3
    /\ at \in {"hash", "dedup", "sparsify", "stage", "archive"} => A1
    /\ at \in {"dedup", "sparsify", "stage", "archive"} => A5
    /\ at \in {"sparsify", "stage", "archive"} /\ world.sparsify => A6
    /\ at = "archive" => A7 /\ A8

\* verify_after_phase: a violation panics.
VerifyAfterPhase ==
    /\ pc = "verify"
    /\ IF Battery THEN pc' = "advance" /\ UNCHANGED <<at, todo, pool, outcome>>
       ELSE Exit("panic")
    /\ UNCHANGED <<world, row, queue, meta, files, shutdown, launches>>

\* The next phase is saved; with --exit-after-stage the run may stop here.
Advance ==
    /\ pc = "advance"
    /\ meta' = [meta EXCEPT !.phase = NextPhase(at)]
    /\ \/ at' = NextPhase(at) /\ pc' = "loop" /\ UNCHANGED <<todo, pool, outcome>>
       \/ Exit("stopped")
    /\ UNCHANGED <<world, row, queue, files, shutdown, launches>>

\* cleanup_workdir: the database first, then the work directory.
Cleanup ==
    /\ \/ /\ pc = "cleanup" /\ RemoveDatabase
          /\ pc' = "remove" /\ UNCHANGED <<sparse, link, at, todo, pool, outcome>>
       \/ /\ pc = "remove" /\ RemoveStage
          /\ Exit("done") /\ UNCHANGED <<row, queue, meta>>
    /\ UNCHANGED <<world, gone, tape, shutdown, launches>>

-----------------------------------------------------------------------------
(* The two phases that are modelled elsewhere.                             *)

BeforeDedup == IF world.eager THEN "hashed" ELSE "filtered"
Same(n) == {m \in Regular \cap Hashed \cap Kept : world.content[m] = world.content[n]}

\* Files that cannot be read are set aside; the rest of a content points at
\* its least name.  A file that is alone with its content is not read.
DedupPhase ==
    /\ Doing("dedup", "enter")
    /\ \E bad \in SUBSET {n \in gone \cap Regular \cap Hashed \cap Kept :
                            Cardinality(Same(n)) > 1} :
          row' = [n \in Names |->
            IF n \notin In(BeforeDedup) THEN row[n]
            ELSE IF n \in bad THEN Flagging("dedupError", "deduped", row[n])
            ELSE [row[n] EXCEPT !.phase = "deduped",
                    !.canonical = IF n \in Regular \cap Hashed \cap Kept
                                  THEN LeastOf(Same(n) \ bad) ELSE NULL]]
    /\ pc' = "verify"
    /\ UNCHANGED <<world, queue, meta, files, at, todo, pool, shutdown, outcome, launches>>

\* A session is opened behind what the file holds; its trailer is overwritten.
BeginArchive ==
    /\ Doing("archive", "enter")
    /\ tape' = [tape EXCEPT !.ours = TRUE, !.footer = FALSE]
    /\ pc' = "append"
    /\ UNCHANGED <<world, row, queue, meta, gone, sparse, link, at, todo, pool, shutdown,
                   outcome, launches>>

\* A payload is read through its link, or its row gets an error.
AppendMember ==
    /\ Doing("archive", "append") /\ ~Interrupted
    /\ \E n \in In("staged") \cap Candidate \cap Hashed :
          row' = [row EXCEPT ![n] = IF Leads(n)
                                    THEN [@ EXCEPT !.phase = "archived", !.stored = TRUE]
                                    ELSE Flagging("archiveError", "archived", @)]
    /\ UNCHANGED <<world, queue, meta, files, pc, at, todo, pool, shutdown, outcome, launches>>

EndArchive ==
    /\ Doing("archive", "append")
    /\ \/ /\ Interrupted /\ Exit("stopped") /\ UNCHANGED <<row, tape>>
       \/ /\ In("staged") \cap Candidate \cap Hashed = {}
          /\ Update(In("staged"), LAMBDA r : To("archived", r))
          /\ tape' = [tape EXCEPT !.footer = TRUE]
          /\ pc' = "verify" /\ UNCHANGED <<at, todo, pool, outcome>>
    /\ UNCHANGED <<world, queue, meta, gone, sparse, link, shutdown, launches>>

\* A signal while dedup compares files.
StopDedup ==
    /\ Doing("dedup", "enter") /\ Interrupted
    /\ Exit("stopped")
    /\ UNCHANGED <<world, row, queue, meta, files, shutdown, launches>>

-----------------------------------------------------------------------------
(* What happens to a run from outside.                                     *)

Crash ==
    /\ pc # "off"
    /\ Exit("crashed")
    /\ UNCHANGED <<world, row, queue, meta, files, shutdown, launches>>

Signal ==
    /\ pc # "off"
    /\ \/ shutdown = "running" /\ shutdown' = "graceful"
       \/ shutdown = "graceful" /\ shutdown' = "force"
    /\ UNCHANGED <<world, row, queue, meta, files, pc, at, todo, pool, outcome, launches>>

Vanish ==
    /\ \E n \in world.fragile \ gone : gone' = gone \cup {n}
    /\ UNCHANGED <<world, row, queue, meta, sparse, link, tape, pc, at, todo, pool, shutdown,
                   outcome, launches>>

Inventory == StartInventory \/ WalkEntry \/ SetHardlinkCanonicals
Hash == PromoteUnhasheable \/ PopulateHashQueue \/ PullHash \/ OpenToHash \/ HashOne
        \/ IngestHash \/ EndHash
Filter == ApplyNoFilter \/ FilterBatch \/ FixUpCanonicalFlag
Sparsify == PromoteSparse \/ PopulateSparseQueue \/ PullSparse \/ OpenSparse \/ CopySparse
            \/ IngestSparse \/ EndSparse
Stage == PromoteUnstageable \/ LinkMember \/ EndSection \/ ApplyLink \/ NextBatch
Archive == BeginArchive \/ AppendMember \/ EndArchive

Step == \/ Prepare \/ EnterPhase \/ VerifyAfterPhase \/ Advance \/ Cleanup
        \/ Inventory \/ Hash \/ Filter \/ DedupPhase \/ StopDedup \/ Sparsify \/ Stage
        \/ Archive \/ DropRow
Command == Create \/ Fresh \/ Resume
Next == Step \/ Command \/ Crash \/ Signal \/ Vanish

Spec == Init /\ [][Next]_vars

\* The operating system runs a process that has something to do.
FairSpec == Spec /\ WF_vars(Step)

-----------------------------------------------------------------------------
(* What an archive run promises.                                           *)

Wanted == (world.included \ world.excluded) \cap world.regular
Errors == {"hashError", "dedupError", "archiveError"}

\* A finished run has archived each regular file that the rules keep, once
\* per content.  Where it has not, a name that it needed has vanished, and
\* an error says so at that name: the file itself, the name of its inode that
\* was hashed, or its canonical.  Nothing that the rules exclude is archived.
\* Whatever was interrupted, killed and resumed on the way, by either order of
\* filter and hash; the rules must have reached the database (meta.rules).
Complete ==
    meta.phase = "done" /\ meta.rules = "all" =>
      /\ \A n \in Wanted :
            \/ n \in gone \ Listed
            \/ row[n].canonical # NULL /\ row[row[n].canonical].stored
            \/ \E m \in SameInode(n) \cup ({row[n].canonical} \ {NULL}) :
                  m \in gone /\ row[m].flags \cap Errors # {}
      /\ \A n \in Names : row[n].stored =>
            n \in Wanted /\ \A m \in Names : row[m].stored =>
                              (world.content[m] = world.content[n] => m = n)

\* What the archive phase reads through a member's link is the file or a
\* finished sparse copy of it, the copy exactly if the row says HasSparse:
\* no crash or abort in the middle of a copy gets a partial one archived.
StageSound ==
    \A n \in Candidate \cap Hashed : row[n].phase \in {"staged", "archived"} =>
        IF "hasSparse" \in row[n].flags
        THEN link[n] = "sparse" /\ sparse[n] = "whole"
        ELSE link[n] = "source"

\* With hard link detection, every inode that has a kept name is represented
\* by exactly one name, and that one is kept, from the end of the filter on,
\* in either order of the phases; and the names of an inode agree on having a
\* digest in every state of the database.
InodesSound ==
    world.detect =>
      /\ \A n \in Listed, m \in Listed : m \in SameInode(n) => row[m].sha = row[n].sha
      /\ meta.phase \in {"dedup", "sparsify", "stage", "archive", "done"}
           \/ (world.eager /\ meta.phase = "hash")
         => \A n \in Kept : \E m \in Kept :
              SameInode(n) \cap Flagged("linkCanonical") = {m}

\* A run panics only where a lazy filter has moved the flag of an inode from
\* an excluded name whose hash failed to a kept one: the kept name has no
\* digest and no error, which A1 rejects from then on.
PanicHasCause ==
    outcome = "panic" =>
      /\ world.detect /\ ~world.eager
      /\ \E n \in Kept \cap Flagged("linkCanonical"), m \in Flagged("hashError") \ Kept :
            m \in SameInode(n) /\ n \notin Hashed

\* Position of a phase of the rows in the order of this run.
Position(p) ==
    CASE p = "none" -> 0
      [] p = "inventoried" -> 1
      [] p = "hashed" -> IF world.eager THEN 3 ELSE 2
      [] p = "filtered" -> IF world.eager THEN 2 ELSE 3
      [] p = "deduped" -> 4
      [] p = "sparsified" -> 5
      [] p = "staged" -> 6
      [] p = "archived" -> 7

\* As long as the work database lives, no step takes back what was done: rows
\* do not return to an earlier phase, and verdicts, digests, errors,
\* canonicals and payloads stay.
WorkStands ==
    [][meta'.phase # "none" =>
        \A n \in Listed :
           LET old == row[n] new == row'[n]
           IN /\ Position(new.phase) >= Position(old.phase)
              /\ old.verdict # "unset" => new.verdict = old.verdict
              /\ old.sha => new.sha
              /\ old.canonical # NULL => new.canonical = old.canonical
              /\ old.stored => new.stored
              /\ old.flags \ {"linkCanonical"} \subseteq new.flags]_vars

\* A process ends: no signal, failure or vanished file makes a pool, a batch
\* or the loop over the phases wait for ever.
Settles == pc # "off" ~> pc = "off"

\* An inventory that was cut short can be run again: archive/inventory.rs:34
\* says "Purging and starting again."
InventoryReruns == outcome = "error" => gone # {}

\* docs/manual.md:165: --fresh wipes existing work and archive.
FreshReplaces == tape.footer /\ tape.ours => ~tape.older
=============================================================================
