------------------------------- MODULE Dedup -------------------------------
(***************************************************************************)
(* The dedup phase of the archive pipeline (archive/dedup.rs and           *)
(* db/dedup.rs): rows of the `files` table that share a (sha1, size) key   *)
(* are compared byte by byte, one canonical per round, by a pool of worker *)
(* threads, until each row is its own canonical or points at one.          *)
(*                                                                         *)
(* Persistent state (the SQLite tables): phase, canonical, check, err,     *)
(* group.  State lost with the process: inflight (a TEMP table), feed,     *)
(* work, out, shutdown, failFastHit.  Every action is one SQL transaction  *)
(* or one step of a worker, so a crash (Restart) can fall between any two. *)
(***************************************************************************)
EXTENDS Naturals, FiniteSets

CONSTANTS
    Files,        \* row ids of the files table
    Keys,         \* (sha1, size) pairs
    ZeroSizeKeys, \* the keys whose inventoried size is 0
    NoKey,        \* sha1 IS NULL: not a regular file, or its hash failed
    NULL,         \* SQL NULL in files.canonical_id
    Contents,     \* what a file holds on disk
    Inodes,       \* (dev, inode) pairs
    NoInode,      \* dev or inode IS NULL
    Corpora,      \* the catalogues and settings a run may start from
    FeedChunk,    \* ProcessConfig.feed_chunk: rows per pull
    DrainChunk,   \* ProcessConfig.drain_chunk: outcomes per transaction
    MaxRestarts   \* bound on the crashes and reruns explored

Corpus ==
    [key: [Files -> Keys \cup {NoKey}],         \* files.sha1, files.size
     bytes: [Files -> Contents],                \* on-disk content
     inode: [Files -> Inodes \cup {NoInode}],   \* files.dev, files.inode
     passes: SUBSET Files,     \* rows the archive filter keeps
     fails: SUBSET Files,      \* files whose open or read may fail
     mode: {"Regular", "Hash", "None"},
     hardlinks: BOOLEAN,       \* hard link detection on
     failFast: BOOLEAN]

ASSUME DedupAssumption ==
    /\ Files \subseteq Nat
    /\ NULL \notin Files
    /\ NoKey \notin Keys
    /\ NoInode \notin Inodes
    /\ ZeroSizeKeys \subseteq Keys
    /\ Corpora \subseteq Corpus
    /\ FeedChunk \in Nat \ {0}
    /\ DrainChunk \in Nat \ {0}
    /\ MaxRestarts \in Nat

VARIABLES
    corpus,      \* the catalogue and settings of this run; never changes
    phase,       \* files.phase: "prev" (hashed or filtered) or "deduped"
    canonical,   \* files.canonical_id
    check,       \* rows flagged CheckWithCanonicalCompleted
    err,         \* rows flagged ErrorWhileDedup
    group,       \* dedup_progress.state, "absent" for a key without a row
    inflight,    \* dedup_inflight, a TEMP table
    feed,        \* feed_buf[feed_idx..]: pulled, not yet sent
    work,        \* pairs in the work channel or in a worker's hands
    out,         \* outcomes in the result channel
    shutdown,    \* Shutdown mode
    failFastHit,
    pc,          \* where the driving thread is
    restarts     \* crashes and reruns so far

db == <<phase, canonical, check, err, group>>
queues == <<inflight, feed, work, out>>
vars == <<corpus, db, queues, shutdown, failFastHit, pc, restarts>>

Pair == [cand: Files, canon: Files]
Result == {"equal", "unequal", "canonFailed", "candFailed"}
Outcome == [cand: Files, canon: Files, result: Result]
GroupState == {"absent", "ready", "searching", "finished", "errored", "done"}
Tick == {"toFinished", "toError", "toDone", "toReady", "toSearching"}
Loop == Tick \cup {"drain", "feed"}
Settled == {"done", "failed", "interrupted", "panicked"}
Prologue == {"start", "empty", "singleton", "populate", "bulk"}
PC == Prologue \cup Loop \cup {"windDown", "verify"} \cup Settled

TypeOK ==
    /\ corpus \in Corpora
    /\ phase \in [Files -> {"prev", "deduped"}]
    /\ canonical \in [Files -> Files \cup {NULL}]
    /\ check \subseteq Files
    /\ err \subseteq Files
    /\ group \in [Keys -> GroupState]
    /\ inflight \subseteq Files
    /\ feed \subseteq Pair
    /\ work \subseteq Pair
    /\ out \subseteq Outcome
    /\ shutdown \in {"running", "graceful", "force"}
    /\ failFastHit \in BOOLEAN
    /\ pc \in PC
    /\ restarts \in Nat

-----------------------------------------------------------------------------
(* Vocabulary of the SQL statements.                                       *)

\* generate_archive_filter, ftype = 'file' and a digest: the row takes part.
Eligible(f) == corpus.key[f] # NoKey /\ f \in corpus.passes

\* The rows a GROUP BY sha1, size over phase = <prev> collects for key k.
Members(k) == {f \in Files : phase[f] = "prev" /\ corpus.key[f] = k}

\* Self-canonical members: SUM(canonical_id = id).
Active(k) == {f \in Members(k) : canonical[f] = f}

\* Mutant: the election forgets MIN and takes every row.
EveryRow(S) == S

\* MIN(id) of a set of rows, as the set of rows that no row undercuts.
Least(S) == {f \in S : \A g \in S : f <= g}

Singleton(S) == \E f \in S : S = {f}

KeyOf(f) == corpus.key[f]
InGroup(f, state) == KeyOf(f) \in Keys /\ group[KeyOf(f)] = state

-----------------------------------------------------------------------------
(* The prologue of run(): three autocommitted bulk updates, then the       *)
(* tables of the state machine.  A resumed run walks it again.             *)

Init ==
    /\ corpus \in Corpora
    /\ phase = [f \in Files |-> "prev"]
    /\ canonical = [f \in Files |-> NULL]
    /\ check = {}
    /\ err = {}
    /\ group = [k \in Keys |-> "absent"]
    /\ inflight = {}
    /\ feed = {}
    /\ work = {}
    /\ out = {}
    /\ shutdown = "running"
    /\ failFastHit = FALSE
    /\ pc = "start"
    /\ restarts = 0

\* promote_ineligible_entries_to_dedup
PromoteIneligible ==
    /\ pc = "start"
    /\ phase' = [f \in Files |-> IF Eligible(f) THEN phase[f] ELSE "deduped"]
    /\ pc' = "empty"
    /\ UNCHANGED <<corpus, canonical, check, err, group, queues, shutdown,
                   failFastHit, restarts>>

\* Mutant: the outer UPDATE has no phase guard, so a resumed run evaluates the
\* subquery over no row and writes NULL.
PromoteEmptyAnyPhase ==
    LET empty == {f \in Files : KeyOf(f) \in ZeroSizeKeys /\ Eligible(f)}
        left == {f \in empty : phase[f] = "prev"}
    IN /\ pc = "empty"
       /\ phase' = [f \in Files |-> IF f \in empty THEN "deduped" ELSE phase[f]]
       /\ canonical' = [f \in Files |->
                           IF f \notin empty THEN canonical[f]
                           ELSE IF left = {} THEN NULL
                           ELSE CHOOSE m \in Least(left) : TRUE]
       /\ pc' = IF corpus.mode = "Regular" THEN "singleton" ELSE "bulk"
       /\ UNCHANGED <<corpus, check, err, group, queues, shutdown,
                      failFastHit, restarts>>

\* promote_empty_files_to_dedup: one canonical for all rows of size 0.
PromoteEmpty ==
    LET empty == {f \in Files : phase[f] = "prev" /\ KeyOf(f) \in ZeroSizeKeys}
    IN /\ pc = "empty"
       /\ phase' = [f \in Files |-> IF f \in empty THEN "deduped" ELSE phase[f]]
       /\ canonical' = [f \in Files |-> IF f \in empty
                                        THEN CHOOSE m \in Least(empty) : TRUE
                                        ELSE canonical[f]]
       /\ pc' = IF corpus.mode = "Regular" THEN "singleton" ELSE "bulk"
       /\ UNCHANGED <<corpus, check, err, group, queues, shutdown,
                      failFastHit, restarts>>

\* promote_singleton_filtered_to_deduped: the count runs over every row that
\* has a digest, whatever its phase and whatever the filter said of it.
PromoteSingleton ==
    LET unique == {f \in Files : /\ phase[f] = "prev"
                                 /\ KeyOf(f) \in Keys
                                 /\ {g \in Files : KeyOf(g) = KeyOf(f)} = {f}}
    IN /\ pc = "singleton"
       /\ phase' = [f \in Files |-> IF f \in unique THEN "deduped" ELSE phase[f]]
       /\ canonical' = [f \in Files |-> IF f \in unique THEN f ELSE canonical[f]]
       /\ pc' = "populate"
       /\ UNCHANGED <<corpus, check, err, group, queues, shutdown,
                      failFastHit, restarts>>

\* sanity_check_flags: no check flag and no row left behind, or the run panics.
Sane(flagged, at) == flagged = {} /\ \A f \in Files : at[f] = "deduped"

NoPendingGroup(g) == \A k \in Keys : g[k] \in {"absent", "done", "errored"}

\* create_temp_dedup_table (empties dedup_inflight), populate_temp_table
\* (INSERT OR IGNORE), and run_regular_fsm's early return.
Populate ==
    /\ pc = "populate"
    /\ group' = [k \in Keys |->
                    IF /\ group[k] = "absent"
                       /\ \E f, g \in Members(k) : f # g
                    THEN "ready" ELSE group[k]]
    /\ inflight' = {}
    /\ pc' = IF ~NoPendingGroup(group') THEN "drain"
             ELSE IF Sane(check, phase) THEN "verify" ELSE "panicked"
    /\ UNCHANGED <<corpus, phase, canonical, check, err, feed, work, out,
                   shutdown, failFastHit, restarts>>

\* Mutant: the bulk modes elect among rows the filter excluded, too.
ClusterIgnoringFilter(f) ==
    LET same == {g \in Files : KeyOf(g) = KeyOf(f)}
    IN CASE corpus.mode = "Hash" -> same
         [] corpus.mode = "None" /\ corpus.hardlinks
                /\ corpus.inode[f] # NoInode ->
              {g \in same : corpus.inode[g] = corpus.inode[f]}
         [] OTHER -> {f}

\* The rows that bulk mode may put under one canonical with f: equal digests
\* (Hash mode), or names of one inode (None mode with hard link detection).
Cluster(f) ==
    LET same == {g \in Files : Eligible(g) /\ KeyOf(g) = KeyOf(f)}
    IN CASE corpus.mode = "Hash" -> same
         [] corpus.mode = "None" /\ corpus.hardlinks
                /\ corpus.inode[f] # NoInode ->
              {g \in same : corpus.inode[g] = corpus.inode[f]}
         [] OTHER -> {f}

\* promote_hash_mode_to_dedup and promote_none_mode_to_dedup, one transaction
\* each, and the sanity check that ends run_bulk_mode.  With nothing left to
\* promote the code skips the transaction, which would change nothing.
BulkPromote ==
    LET candidates == {f \in Files : phase[f] = "prev" /\ Eligible(f)}
        target(f) == IF f \in Least(candidates \cap Cluster(f)) THEN f
                     ELSE CHOOSE m \in Least(Cluster(f)) : TRUE
    IN /\ pc = "bulk"
       /\ canonical' = [f \in Files |-> IF f \in candidates THEN target(f)
                                        ELSE canonical[f]]
       /\ phase' = [f \in Files |-> IF f \in candidates THEN "deduped"
                                    ELSE phase[f]]
       /\ pc' = IF Sane(check, phase') THEN "verify" ELSE "panicked"
       /\ UNCHANGED <<corpus, check, err, group, queues, shutdown,
                      failFastHit, restarts>>

-----------------------------------------------------------------------------
(* The tick: five transactions, in this order, on every turn of the loop.  *)

\* Mutant: a round ends as soon as it has a canonical.
ResolvedEarly(k) == Singleton(Active(k))

\* searching -> finished: one self-canonical member, the others all checked.
Resolved(k) == Singleton(Active(k)) /\ Members(k) \subseteq check \cup Active(k)

SearchingToFinished ==
    /\ pc = "toFinished"
    /\ group' = [k \in Keys |-> IF group[k] = "searching" /\ Resolved(k)
                                THEN "finished" ELSE group[k]]
    /\ pc' = "toError"
    /\ UNCHANGED <<corpus, phase, canonical, check, err, queues, shutdown,
                   failFastHit, restarts>>

\* finished -> errored: the members with an error are all but one, the
\* canonical's own error counted like any other.
AllButOneFailed(k) ==
    /\ err \cap Members(k) # {}
    /\ \E f \in Members(k) : err \cap Members(k) = Members(k) \ {f}
    /\ Singleton(Active(k))

FinishToError ==
    LET errored == {k \in Keys : group[k] = "finished" /\ AllButOneFailed(k)}
    IN /\ pc = "toError"
       /\ group' = [k \in Keys |-> IF k \in errored THEN "errored" ELSE group[k]]
       /\ phase' = [f \in Files |-> IF KeyOf(f) \in Keys /\ group'[KeyOf(f)] = "errored"
                                    THEN "deduped" ELSE phase[f]]
       /\ check' = {f \in check : group'[KeyOf(f)] # "errored"}
       /\ IF corpus.failFast /\ errored # {}
          THEN pc' = "windDown" /\ failFastHit' = TRUE /\ feed' = {}
          ELSE pc' = "toDone" /\ UNCHANGED <<failFastHit, feed>>
       /\ UNCHANGED <<corpus, canonical, err, inflight, work, out, shutdown,
                      restarts>>

\* finished -> done: no member is checked, so the canonical is alone.
FinishToDone ==
    /\ pc = "toDone"
    /\ group' = [k \in Keys |-> IF /\ group[k] = "finished"
                                   /\ Members(k) \cap check = {}
                                   /\ Singleton(Active(k))
                                THEN "done" ELSE group[k]]
    /\ phase' = [f \in Files |-> IF KeyOf(f) \in Keys /\ group'[KeyOf(f)] = "done"
                                 THEN "deduped" ELSE phase[f]]
    /\ check' = {f \in check : group'[KeyOf(f)] # "done"}
    /\ pc' = "toReady"
    /\ UNCHANGED <<corpus, canonical, err, queues, shutdown, failFastHit,
                   restarts>>

\* Mutant: the check flags survive the round.
FinishToReadyKeepsFlags ==
    /\ pc = "toReady"
    /\ group' = [k \in Keys |-> IF /\ group[k] = "finished"
                                   /\ Members(k) \cap check # {}
                                   /\ Members(k) \ err # {}
                                   /\ Singleton(Active(k))
                                THEN "ready" ELSE group[k]]
    /\ phase' = [f \in Files |-> IF KeyOf(f) \in Keys /\ group'[KeyOf(f)] = "ready"
                                    /\ canonical[f] = f
                                 THEN "deduped" ELSE phase[f]]
    /\ pc' = "toSearching"
    /\ UNCHANGED <<corpus, canonical, check, err, queues, shutdown, failFastHit,
                   restarts>>

\* Mutant: the canonical of the round is not retired.
FinishToReadyKeepsCanonical ==
    /\ pc = "toReady"
    /\ group' = [k \in Keys |-> IF /\ group[k] = "finished"
                                   /\ Members(k) \cap check # {}
                                   /\ Members(k) \ err # {}
                                   /\ Singleton(Active(k))
                                THEN "ready" ELSE group[k]]
    /\ check' = {f \in check : group'[KeyOf(f)] # "ready"}
    /\ pc' = "toSearching"
    /\ UNCHANGED <<corpus, phase, canonical, err, queues, shutdown, failFastHit,
                   restarts>>

\* finished -> ready: somebody was checked and somebody has no error.  The
\* flags of the round are cleared and its canonical leaves the phase.
FinishToReady ==
    /\ pc = "toReady"
    /\ group' = [k \in Keys |-> IF /\ group[k] = "finished"
                                   /\ Members(k) \cap check # {}
                                   /\ Members(k) \ err # {}
                                   /\ Singleton(Active(k))
                                THEN "ready" ELSE group[k]]
    /\ check' = {f \in check : group'[KeyOf(f)] # "ready"}
    /\ phase' = [f \in Files |-> IF /\ KeyOf(f) \in Keys
                                    /\ group'[KeyOf(f)] = "ready"
                                    /\ canonical[f] = f
                                 THEN "deduped" ELSE phase[f]]
    /\ pc' = "toSearching"
    /\ UNCHANGED <<corpus, canonical, err, queues, shutdown, failFastHit,
                   restarts>>

\* The members election chooses from: no canonical, no error, no check flag.
Electable(k) == {f \in Members(k) : canonical[f] = NULL /\ f \notin err \cup check}

\* ready -> searching: elect MIN(id) in every ready group; a group that now
\* has a canonical and somebody to compare goes on, a lone canonical leaves
\* the phase, and a group without members closes.
ReadyToSearching ==
    LET ready == {k \in Keys : group[k] = "ready"}
        elected == UNION {Least(Electable(k)) : k \in ready}
        act(k) == Active(k) \cup (elected \cap Members(k))
        searching == {k \in ready :
                        /\ Singleton(act(k))
                        /\ \E f \in Members(k) \ (elected \cup check) :
                               canonical[f] = NULL}
        retired == UNION {act(k) : k \in ready \ searching}
        closed == {k \in ready \ searching : Members(k) \subseteq retired}
    IN /\ pc = "toSearching"
       /\ canonical' = [f \in Files |-> IF f \in elected THEN f ELSE canonical[f]]
       /\ phase' = [f \in Files |-> IF f \in retired THEN "deduped" ELSE phase[f]]
       /\ group' = [k \in Keys |-> IF k \in searching THEN "searching"
                                   ELSE IF k \in closed THEN "done"
                                   ELSE group[k]]
       /\ IF NoPendingGroup(group')
          THEN pc' = "windDown" /\ feed' = {}
          ELSE pc' = "feed" /\ UNCHANGED feed
       /\ UNCHANGED <<corpus, check, err, inflight, work, out, shutdown,
                      failFastHit, restarts>>

-----------------------------------------------------------------------------
(* The loop around the tick (send_receive_loop) and the workers.           *)

\* Mutant: the scan does not look at the in-flight markers.
PendingIgnoringInflight ==
    {p \in Pair :
        /\ p.cand \in Members(KeyOf(p.cand))
        /\ InGroup(p.cand, "searching")
        /\ p.canon \in Active(KeyOf(p.cand))
        /\ canonical[p.cand] = NULL
        /\ p.cand \notin check}

\* list_pending_comparisons: what the feed may hand out.
Pending ==
    {p \in Pair :
        /\ p.cand \in Members(KeyOf(p.cand))
        /\ InGroup(p.cand, "searching")
        /\ p.canon \in Active(KeyOf(p.cand))
        /\ canonical[p.cand] = NULL
        /\ p.cand \notin check \cup inflight}

\* ORDER BY cand.id LIMIT feed_chunk
Slice(S) == {p \in S : Cardinality({q \in S : q.cand <= p.cand}) <= FeedChunk}

\* A batch that drain takes off the result channel before it commits.
IsBatch(B) == IF Cardinality(out) <= DrainChunk THEN B = out
              ELSE Cardinality(B) = DrainChunk

\* Mutant: the in-flight markers outlive the outcome.
IngestNoUnmark(B) ==
    LET linkedTo(f) == {o.canon : o \in {x \in B : x.cand = f /\ x.result = "equal"}}
    IN /\ canonical' = [f \in Files |-> IF linkedTo(f) = {} THEN canonical[f]
                                        ELSE CHOOSE c \in linkedTo(f) : TRUE]
       /\ phase' = [f \in Files |-> IF linkedTo(f) = {} THEN phase[f] ELSE "deduped"]
       /\ check' = check \cup {o.cand : o \in {x \in B : x.result # "equal"}}
       /\ err' = err \cup {o.canon : o \in {x \in B : x.result = "canonFailed"}}
                     \cup {o.cand : o \in {x \in B : x.result = "candFailed"}}
       /\ inflight' = inflight
       /\ out' = out \ B

\* Mutant: two contents that differ leave no check flag.
IngestUnchecked(B) ==
    LET linkedTo(f) == {o.canon : o \in {x \in B : x.cand = f /\ x.result = "equal"}}
    IN /\ canonical' = [f \in Files |-> IF linkedTo(f) = {} THEN canonical[f]
                                        ELSE CHOOSE c \in linkedTo(f) : TRUE]
       /\ phase' = [f \in Files |-> IF linkedTo(f) = {} THEN phase[f] ELSE "deduped"]
       /\ check' = check \cup {o.cand : o \in {x \in B : x.result \notin {"equal", "unequal"}}}
       /\ err' = err \cup {o.canon : o \in {x \in B : x.result = "canonFailed"}}
                     \cup {o.cand : o \in {x \in B : x.result = "candFailed"}}
       /\ inflight' = inflight \ {o.cand : o \in B}
       /\ out' = out \ B

\* ingest_compare_outcome: one transaction for the batch.
Ingest(B) ==
    LET linkedTo(f) == {o.canon : o \in {x \in B : x.cand = f /\ x.result = "equal"}}
    IN /\ canonical' = [f \in Files |-> IF linkedTo(f) = {} THEN canonical[f]
                                        ELSE CHOOSE c \in linkedTo(f) : TRUE]
       /\ phase' = [f \in Files |-> IF linkedTo(f) = {} THEN phase[f] ELSE "deduped"]
       /\ check' = check \cup {o.cand : o \in {x \in B : x.result # "equal"}}
       /\ err' = err \cup {o.canon : o \in {x \in B : x.result = "canonFailed"}}
                     \cup {o.cand : o \in {x \in B : x.result = "candFailed"}}
       /\ inflight' = inflight \ {o.cand : o \in B}
       /\ out' = out \ B

\* The head of the loop: a pending shutdown stops the feed before the drain.
StopFeeding ==
    /\ pc = "drain"
    /\ shutdown # "running"
    /\ feed' = {}
    /\ pc' = "windDown"
    /\ UNCHANGED <<corpus, db, inflight, work, out, shutdown, failFastHit,
                   restarts>>

Drain ==
    /\ pc = "drain"
    /\ shutdown = "running"
    /\ \E B \in SUBSET out : IsBatch(B) /\ Ingest(B)
    /\ pc' = "toFinished"
    /\ UNCHANGED <<corpus, group, feed, work, shutdown, failFastHit, restarts>>

\* Pull when the buffer is empty, try_send a prefix of it (an empty channel
\* takes at least one pair), mark what was sent in flight, and leave the loop
\* when the feed is exhausted and every outcome has been taken.
Feed ==
    /\ pc = "feed"
    /\ \E slice \in {IF feed = {} THEN Slice(Pending) ELSE feed} :
       \E sent \in SUBSET slice :
          /\ \A p \in sent, q \in slice \ sent : p.cand < q.cand
          /\ sent = {} => slice = {} \/ work # {}
          /\ feed' = slice \ sent
          /\ work' = work \cup sent
          /\ inflight' = inflight \cup {p.cand : p \in sent}
          /\ pc' = IF slice = {} /\ work = {} /\ out = {} THEN "windDown"
                   ELSE "drain"
    /\ UNCHANGED <<corpus, db, out, shutdown, failFastHit, restarts>>

\* compare_one: hard links are equal without a read; otherwise either side's
\* read may fail, and a completed read tells the contents apart.
Compare(p) ==
    IF /\ corpus.hardlinks
       /\ corpus.inode[p.canon] # NoInode
       /\ corpus.inode[p.canon] = corpus.inode[p.cand]
    THEN {"equal"}
    ELSE (IF p.canon \in corpus.fails THEN {"canonFailed"} ELSE {})
         \cup (IF p.cand \in corpus.fails THEN {"candFailed"} ELSE {})
         \cup {IF corpus.bytes[p.canon] = corpus.bytes[p.cand]
               THEN "equal" ELSE "unequal"}

\* compare_worker: one pair in, one outcome out.
WorkerCompare ==
    /\ \E p \in work, r \in Result :
          /\ r \in Compare(p)
          /\ work' = work \ {p}
          /\ out' = out \cup {[cand |-> p.cand, canon |-> p.canon, result |-> r]}
    /\ UNCHANGED <<corpus, db, inflight, feed, shutdown, failFastHit, pc,
                   restarts>>

\* compare_worker under a shutdown: the pair yields no outcome, because the
\* between-files check or an aborted read ends the worker.
WorkerDrop ==
    /\ shutdown # "running"
    /\ \E p \in work : work' = work \ {p}
    /\ UNCHANGED <<corpus, db, inflight, feed, out, shutdown, failFastHit, pc,
                   restarts>>

\* Phases 2 and 3 of the loop: outcomes still queued are committed.
WindDownDrain ==
    /\ pc = "windDown"
    /\ out # {}
    /\ \E B \in SUBSET out : IsBatch(B) /\ Ingest(B)
    /\ UNCHANGED <<corpus, group, feed, work, shutdown, failFastHit, pc,
                   restarts>>

\* The workers are joined and the channel is empty: run_regular_fsm's ending.
Finish ==
    /\ pc = "windDown"
    /\ work = {} /\ out = {}
    /\ IF failFastHit THEN pc' = "failed" /\ UNCHANGED <<group, inflight>>
       ELSE IF shutdown # "running"
            THEN pc' = "interrupted" /\ UNCHANGED <<group, inflight>>
       ELSE IF Sane(check, phase)
            THEN /\ pc' = "verify"
                 /\ group' = [k \in Keys |-> "absent"]
                 /\ inflight' = {}
       ELSE pc' = "panicked" /\ UNCHANGED <<group, inflight>>
    /\ UNCHANGED <<corpus, phase, canonical, check, err, feed, work, out,
                   shutdown, failFastHit, restarts>>

\* A5 of the integrity battery: an eligible row without a canonical has
\* ErrorWhileDedup.
Accounted(f) == Eligible(f) => canonical[f] # NULL \/ f \in err

\* verify_after_phase: the driver asserts the battery, then saves the phase.
Verify ==
    /\ pc = "verify"
    /\ pc' = IF \A f \in Files : Accounted(f) THEN "done" ELSE "panicked"
    /\ UNCHANGED <<corpus, db, queues, shutdown, failFastHit, restarts>>

\* A signal asks for a graceful stop, a later one for an abort.
Signal ==
    /\ pc \notin Settled
    /\ \/ shutdown = "running" /\ shutdown' = "graceful"
       \/ shutdown = "graceful" /\ shutdown' = "force"
    /\ UNCHANGED <<corpus, db, queues, failFastHit, pc, restarts>>

\* A crash at any point, or a rerun after the program stopped: the tables
\* survive, the process's memory and its TEMP table do not.
Restart ==
    /\ pc # "done"
    /\ restarts < MaxRestarts
    /\ restarts' = restarts + 1
    /\ inflight' = {} /\ feed' = {} /\ work' = {} /\ out' = {}
    /\ shutdown' = "running"
    /\ failFastHit' = FALSE
    /\ pc' = "start"
    /\ UNCHANGED <<corpus, db>>

\* The program has stopped and nobody reruns it.
Stopped == pc \in Settled /\ UNCHANGED vars

-----------------------------------------------------------------------------
TickStep ==
    \/ SearchingToFinished \/ FinishToError \/ FinishToDone
    \/ FinishToReady \/ ReadyToSearching

Driver ==
    \/ PromoteIneligible \/ PromoteEmpty \/ PromoteSingleton \/ Populate
    \/ BulkPromote \/ StopFeeding \/ Drain \/ TickStep \/ Feed
    \/ WindDownDrain \/ Finish \/ Verify

Worker == WorkerCompare \/ WorkerDrop

Next == Driver \/ Worker \/ Signal \/ Restart \/ Stopped

Spec == Init /\ [][Next]_vars

\* The driving thread never blocks for good and file reads end.
FairSpec == Spec /\ WF_vars(Driver) /\ WF_vars(Worker)

-----------------------------------------------------------------------------
(* Safety.                                                                 *)

\* A pair that was pulled, however long it waited in the feed buffer, the
\* channel, a worker or the result queue, still describes the tables when its
\* outcome is applied: the candidate is undecided and unflagged, its group is
\* still searching, and the canonical it was compared with is still the
\* group's active one.  (dedup_inflight and the guards of the tick.)
Current(p) ==
    /\ phase[p.cand] = "prev"
    /\ canonical[p.cand] = NULL
    /\ p.cand \notin check
    /\ InGroup(p.cand, "searching")
    /\ Active(KeyOf(p.cand)) = {p.canon}

OutstandingIsCurrent == \A p \in feed \cup work \cup out : Current(p)

\* The re-scan from id 0 hands a candidate out once: no candidate is in two of
\* feed buffer, channel and result queue, or twice in one of them.
ExactlyOnce ==
    /\ \A p, q \in feed \cup work : p.cand = q.cand => p = q
    /\ \A o, p \in out : o.cand = p.cand => o = p
    /\ \A p \in feed, q \in work : p.cand # q.cand
    /\ \A o \in out, p \in feed \cup work : o.cand # p.cand

\* What dedup takes on trust instead of comparing: names of one inode, equal
\* digests in Hash mode, and any two files inventoried with size 0, hold the
\* same bytes.
Trusted ==
    \A f, g \in Files :
        \/ corpus.hardlinks /\ corpus.inode[f] = corpus.inode[g]
              /\ corpus.inode[f] # NoInode
        \/ corpus.mode = "Hash" /\ KeyOf(f) = KeyOf(g) /\ KeyOf(f) # NoKey
        \/ KeyOf(f) \in ZeroSizeKeys /\ KeyOf(g) \in ZeroSizeKeys
        => corpus.bytes[f] = corpus.bytes[g]

\* A link leads in one step to a row that will carry the payload: it is its own
\* canonical, the filter keeps it, and it has the same bytes, in every state
\* that a crash may leave behind.
LinkSound(f) ==
    canonical[f] # NULL =>
        /\ canonical[canonical[f]] = canonical[f]
        /\ Eligible(canonical[f])
        /\ Trusted => corpus.bytes[canonical[f]] = corpus.bytes[f]

LinksResolve == \A f \in Files : LinkSound(f)

\* A round has one canonical: a group that searches or has finished a round
\* has exactly one self-canonical member in the phase, any other group none.
OneActivePerRound ==
    \A k \in Keys : IF group[k] \in {"searching", "finished"}
                    THEN Singleton(Active(k))
                    ELSE Active(k) = {}

\* No step unlinks a row or takes it back into the phase, and no step flags a
\* row that has left it: what a crashed run decided is never decided again.
KeepsDecisions ==
    \A f \in Files :
        /\ canonical[f] # NULL => canonical'[f] = canonical[f]
        /\ phase[f] = "deduped" => phase'[f] = "deduped" /\ f \notin check'

DecisionsStand == [][KeepsDecisions]_vars

\* Nobody's read failed while the rows of key k were compared.
Unfailed(k) == \A h \in err : KeyOf(h) # k

\* A finished Regular phase has found every duplicate: two kept rows of one
\* key with equal bytes share a canonical, unless a read failed in the group.
DuplicatesFound ==
    pc = "done" /\ corpus.mode = "Regular" /\ Trusted =>
        \A f, g \in Files :
            /\ Eligible(f) /\ Eligible(g) /\ KeyOf(f) = KeyOf(g)
            /\ corpus.bytes[f] = corpus.bytes[g]
            /\ Unfailed(KeyOf(f))
            => canonical[f] = canonical[g]

\* What can make the phase panic, and nothing else: a failed read, or a kept
\* row whose only twins were excluded by the filter.
Stranded(f) ==
    /\ Eligible(f)
    /\ \E g \in Files : g # f /\ KeyOf(g) = KeyOf(f)
    /\ \A g \in Files : g # f /\ KeyOf(g) = KeyOf(f) => ~Eligible(g)

PanicHasCause ==
    pc = "panicked" =>
        err # {} \/ (corpus.mode = "Regular" /\ \E f \in Files : Stranded(f))

-----------------------------------------------------------------------------
(* The inductive invariant behind the theorems of DedupProofs.             *)

\* Nothing is outstanding outside the loop, nothing is fed once it is left.
QueuesLive ==
    /\ pc \notin Loop \cup {"windDown"} => work = {} /\ out = {}
    /\ pc \notin Loop => feed = {}

\* The marker set covers what was sent and none of what waits in the buffer.
MarkersCover ==
    /\ \A p \in work \cup out : p.cand \in inflight
    /\ \A p \in feed : p.cand \notin inflight

\* Which thread position goes with which mode.
ModePath ==
    /\ pc \in {"singleton", "populate", "windDown"} \cup Loop => corpus.mode = "Regular"
    /\ pc = "bulk" => corpus.mode # "Regular"
    /\ corpus.mode # "Regular" => \A k \in Keys : group[k] = "absent"

\* The rows still in the phase are undecided or elected, eligible once the
\* first bulk update ran, and not empty once the second ran.
RowsInPhase ==
    \A f \in Files :
        /\ phase[f] = "prev" => canonical[f] \in {NULL, f}
        /\ phase[f] = "prev" /\ pc # "start" => Eligible(f)
        /\ phase[f] = "prev" /\ pc \notin {"start", "empty"}
              => KeyOf(f) \notin ZeroSizeKeys
        /\ canonical[f] # NULL => Eligible(f)

\* The bulk modes decide every row at once, the empty ones apart.
BulkAtOnce ==
    corpus.mode # "Regular" =>
        \A f, g \in Files :
            Eligible(f) /\ Eligible(g) /\ phase[f] = "prev" /\ phase[g] = "deduped"
                => KeyOf(g) \in ZeroSizeKeys

\* A group in the table has two rows in the catalogue, and only eligible ones
\* are left in the phase; zero-size keys never enter it.
GroupsProper ==
    \A k \in Keys : group[k] # "absent" =>
        /\ k \notin ZeroSizeKeys
        /\ \E f, g \in Files : f # g /\ KeyOf(f) = k /\ KeyOf(g) = k
        /\ \A f \in Members(k) : Eligible(f)

\* A check flag belongs to an undecided member of a running round.
FlagsInRound ==
    \A f \in check :
        /\ phase[f] = "prev"
        /\ canonical[f] = NULL
        /\ KeyOf(f) \in Keys
        /\ group[KeyOf(f)] \in {"searching", "finished"}

\* An outcome repeats what the compare found.
OutcomesTrue ==
    \A o \in out : o.result = "equal" /\ Trusted =>
        corpus.bytes[o.cand] = corpus.bytes[o.canon]

IInv ==
    /\ TypeOK /\ QueuesLive /\ MarkersCover /\ ModePath /\ RowsInPhase
    /\ BulkAtOnce /\ GroupsProper /\ FlagsInRound /\ OutcomesTrue
    /\ OutstandingIsCurrent /\ ExactlyOnce /\ OneActivePerRound /\ LinksResolve

(* The second one: what the rounds of a Regular phase have established.     *)

\* The rows of key k that carry a payload so far.
Kept(k) == {c \in Files : KeyOf(c) = k /\ canonical[c] = c}

\* No two rounds of a group elect the same bytes.
KeptDiffer ==
    \A k \in Keys \ ZeroSizeKeys : Unfailed(k) =>
        \A c, d \in Kept(k) : corpus.bytes[c] = corpus.bytes[d] => c = d

\* A row that is still undecided differs from every canonical of its group,
\* but the active one before the two were compared.
UndecidedDiffer ==
    \A k \in Keys \ ZeroSizeKeys : Unfailed(k) =>
        \A c \in Kept(k), f \in Members(k) :
            Eligible(f) /\ canonical[f] = NULL /\ corpus.bytes[f] = corpus.bytes[c]
                => phase[c] = "prev" /\ f \notin check

\* A finished round has compared every member with its canonical.
RoundsComplete ==
    \A k \in Keys : group[k] = "finished" => Members(k) \subseteq check \cup Active(k)

\* A link stays in its key, that of two empty files apart.
LinksInKey ==
    \A f \in Files : canonical[f] # NULL /\ KeyOf(f) \notin ZeroSizeKeys
        => KeyOf(canonical[f]) = KeyOf(f)

\* The empty files are decided in one transaction, under one canonical.
EmptyTogether ==
    \A f, g \in Files :
        /\ Eligible(f) /\ Eligible(g)
        /\ KeyOf(f) \in ZeroSizeKeys /\ KeyOf(g) \in ZeroSizeKeys
        => phase[f] = phase[g] /\ canonical[f] = canonical[g]

\* Two rows that were told apart differ.
UnequalTrue ==
    \A o \in out : o.result = "unequal" => corpus.bytes[o.cand] # corpus.bytes[o.canon]

\* The driver only finishes behind the integrity battery.
DoneIsVerified == pc = "done" => \A f \in Files : Accounted(f)

DInv ==
    corpus.mode = "Regular" =>
        /\ KeptDiffer /\ UndecidedDiffer /\ RoundsComplete /\ LinksInKey
        /\ EmptyTogether /\ UnequalTrue /\ DoneIsVerified

(* Liveness. *)

\* Round after round, the phase comes to an end: done, stopped by a signal,
\* failed fast or panicked, but never spinning on a group it cannot move.
Settles == <>[](pc \in Settled)

(* What the code's own comments say and a run refutes.                     *)

\* count_dedup_phase_total: every member of a duplicate group ends the phase
\* deduped, so without a failed read sanity_check_flags never panics.
NoPanic == pc # "panicked"
=============================================================================
