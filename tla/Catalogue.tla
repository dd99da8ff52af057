----------------------------- MODULE Catalogue -----------------------------
(***************************************************************************)
(* What the phases of an archive run share: the source tree, the work      *)
(* database, the stage directory, the archive file and the pool of         *)
(* workers, with the vocabulary of the SQL statements (db/*.rs).           *)
(*                                                                         *)
(* A name stands for a path and for the row it gets; names are numbers, in *)
(* the order of the walk, so that MIN(id) of a statement is their minimum. *)
(* The content of an inode does not change while the run lasts; names may  *)
(* vanish from the tree.                                                   *)
(***************************************************************************)
EXTENDS Naturals, FiniteSets

CONSTANTS
    Names,       \* the paths that the sources lead to
    NULL,        \* SQL NULL in files.canonical_id
    Worlds,      \* the trees and settings that a run may start from
    BatchSize,   \* ProcessConfig.batch_size
    MaxLaunches  \* bound on the processes started

World ==
    [inode: [Names -> Names],     \* (dev, inode), named by one of its names
     content: [Names -> Names],   \* content of a name, named likewise
     regular: SUBSET Names,       \* regular files
     zeros: SUBSET Names,         \* content with min_pages empty pages
     included: SUBSET Names,      \* an include rule matches
     excluded: SUBSET Names,      \* an exclude rule matches
     fragile: SUBSET Names,       \* names that may vanish
     eager: BOOLEAN,              \* --eager-filter
     detect: BOOLEAN,             \* hard link detection
     sparsify: BOOLEAN]           \* --sparsify

ASSUME CatalogueAssumption ==
    /\ Names \subseteq Nat /\ IsFiniteSet(Names)
    /\ NULL \notin Names
    /\ Worlds \subseteq World
    /\ \A w \in Worlds, m \in Names, n \in Names : w.inode[m] = w.inode[n] =>
          w.content[m] = w.content[n] /\ (m \in w.regular <=> n \in w.regular)
    /\ BatchSize \in Nat \ {0} /\ MaxLaunches \in Nat

VARIABLES
    world,     \* the tree and the settings; never changes
    gone,      \* names that have vanished
    row,       \* the files table
    hashQueue,   \* hash_queue
    sparseQueue, \* sparsify_queue
    meta,      \* saved phase, stored configuration, rules in the database
    sparse,    \* the sparse copies in the stage directory
    link,      \* the member links in the stage directory
    tape,      \* the archive file
    pc,        \* where the process is, "off" without one
    at,        \* state.phase of the process
    todo,      \* names still ahead of a walk or of a batch
    pulled,    \* rows that this pool has taken from the queue
    waiting,   \* of these, in the work channel
    reading,   \* of these, in the hands of a worker
    answers,   \* outcomes in the result channel: <<name, result>>
    shutdown,  \* Shutdown mode
    outcome,   \* how the last process ended
    launches   \* processes started so far

queue == <<hashQueue, sparseQueue>>
pool == <<pulled, waiting, reading, answers>>
files == <<gone, sparse, link, tape>>
vars == <<world, row, queue, meta, files, pc, at, todo, pool, shutdown, outcome, launches>>

Phase == {"inventory", "hash", "filter", "dedup", "sparsify", "stage", "archive", "done"}
RowPhase == {"none", "inventoried", "hashed", "filtered", "deduped", "sparsified", "staged",
             "archived"}
Flag == {"linkCanonical", "hashError", "dedupError", "hasSparse", "sparseError",
         "archiveError"}
Row == [phase: RowPhase,                \* "none": the name has no row
        flags: SUBSET Flag,
        sha: BOOLEAN,                   \* sha1 IS NOT NULL
        verdict: {"unset", "in", "out"},
        canonical: Names \cup {NULL},
        stored: BOOLEAN]                \* session_id IS NOT NULL
Result == {"ok", "failed", "aborted"}

TypeOK ==
    /\ world \in Worlds
    /\ gone \subseteq Names
    /\ row \in [Names -> Row]
    /\ hashQueue \subseteq Names /\ sparseQueue \subseteq Names
    /\ meta \in [phase: Phase \cup {"none"}, config: BOOLEAN,
                 rules: {"none", "includes", "all"}]
    /\ sparse \in [Names -> {"none", "partial", "whole"}]
    /\ link \in [Names -> {"none", "source", "sparse"}]
    /\ tape \in [ours: BOOLEAN, older: BOOLEAN, footer: BOOLEAN]
    /\ at \in Phase
    /\ {todo, pulled, waiting, reading} \subseteq SUBSET Names
    /\ answers \subseteq Names \X Result
    /\ shutdown \in {"running", "graceful", "force"}
    /\ launches \in 0..MaxLaunches

-----------------------------------------------------------------------------
(* Vocabulary.                                                             *)

Listed == {n \in Names : row[n].phase # "none"}
In(p) == {n \in Names : row[n].phase = p}
Flagged(f) == {n \in Names : f \in row[n].flags}
Regular == Listed \cap world.regular

\* generate_archive_filter
Kept == {n \in Names : row[n].verdict = "in"}

Hashed == {n \in Names : row[n].sha}
SameInode(n) == {m \in Listed : world.inode[m] = world.inode[n]}

LeastOf(S) == CHOOSE n \in S : \A m \in S : n <= m

\* ORDER BY id LIMIT :batch_size
FirstBatch(S) == {n \in S : Cardinality({m \in S : m < n}) < BatchSize}

\* UPDATE files SET ... WHERE id IN S
Update(S, New(_)) == row' = [n \in Names |-> IF n \in S THEN New(row[n]) ELSE row[n]]
To(p, r) == [r EXCEPT !.phase = p]
Flagging(f, p, r) == [r EXCEPT !.phase = p, !.flags = @ \cup {f}]

\* INSERT OR IGNORE numbered from 1: a queue that is filled keeps its rows.
Populated(table, S) == IF table = {} THEN S ELSE table

\* The process ends: what it held in memory is lost.
Exit(how) ==
    /\ pc' = "off" /\ outcome' = how
    /\ at' = "inventory" /\ todo' = {}
    /\ pulled' = {} /\ waiting' = {} /\ reading' = {} /\ answers' = {}

Interrupted == shutdown # "running"
Doing(phase, step) == at = phase /\ pc = step

-----------------------------------------------------------------------------
(* The pool that hash and sparsify run (common.rs, send_receive_loop): the *)
(* driver pulls rows of the queue and applies outcomes, workers read. Pull *)
(* and drain one row or any number at a time stand for every chunk size.   *)

\* A pull goes on behind the last position and takes rows that are pending.
Pull(table, pending) ==
    /\ pc = "pool" /\ ~Interrupted
    /\ \E n \in (table \cap pending) \ pulled :
          /\ pulled' = pulled \cup {n}
          /\ waiting' = waiting \cup {n}
    /\ UNCHANGED <<world, row, queue, meta, files, pc, at, todo, reading, answers,
                   shutdown, outcome, launches>>

\* check_between_files of a worker: it drops the row it has just received.
DropRow ==
    /\ pc = "pool" /\ Interrupted
    /\ \E n \in waiting : waiting' = waiting \ {n}
    /\ UNCHANGED <<world, row, queue, meta, files, pc, at, todo, pulled, reading, answers,
                   shutdown, outcome, launches>>

PoolIdle == waiting = {} /\ reading = {} /\ answers = {}

\* Mutant: the loop ends only when every pending row was handed out.
PoolDrainedAll(table, pending) == PoolIdle /\ (table \cap pending) \subseteq pulled

PoolDrained(table, pending) == PoolIdle /\ (Interrupted \/ (table \cap pending) \subseteq pulled)
=============================================================================
