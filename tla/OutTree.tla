------------------------------ MODULE OutTree ------------------------------
(***************************************************************************)
(* The placement prologue (unarchive/place_prologue.rs and                 *)
(* db/place_prologue.rs): every kept member gets a target path under the   *)
(* extraction root, the first member mapped to a path owns its out_tree    *)
(* row, missing parents get scaffold rows, and the hard-link canonicals    *)
(* are elected.  The module also declares the state the placement passes   *)
(* share with it; Placement and LinkTree model those passes.               *)
(*                                                                         *)
(* Persistent: newName, tree, refOut, conflicts, meta, fileFlags, phase,   *)
(* promoted (tables), disk, cache, workDir, store (file system).  Lost     *)
(* with the process: pc, at, cursor, refs, todo, work, busy, out, shutdown.        *)
(***************************************************************************)
EXTENDS Naturals, FiniteSets, SequencesExt

CONSTANTS
    Files,        \* row ids of the files table
    Sources,      \* row ids of the source table
    Inodes,       \* (dev, inode) pairs
    NoInode,      \* dev or inode IS NULL
    Paths,        \* texts of target paths: Root, Here, Up and what lies below Root
    Root,         \* effective_extraction_root(), <ed>
    Here,         \* what a member mapped to the root is called, <ed>/. or <ed>/
    Up,           \* the directory the root is in
    Parent,       \* Path::parent, which drops the last name: of Here it is Up
    NoPath,       \* a member name stripped to nothing, files.new_name = ''
    Unset,        \* files.new_name IS NULL
    Catalogues,   \* the catalogues, settings and disks a run may start from
    Batch,        \* ProcessConfig.batch_size
    Workers,      \* ProcessConfig.io_jobs
    WorkCapacity, \* ProcessConfig.work_capacity
    DrainChunk,   \* ProcessConfig.drain_chunk
    MaxRestarts   \* bound on the crashes and reruns explored

NodeKind == {"none", "dir", "old", "link", "dangling", "half", "payload", "special"}

\* What is at a path: `of` is the file whose payload it is, `by` the out_tree
\* row that wrote it (two paths with one `by` are names of one inode).
Node == [kind: NodeKind, of: Files \cup {0}, by: Nat]
Bare(kind) == [kind |-> kind, of |-> 0, by |-> 0]

Setting == {"renames", "absolute", "allDirs", "linkTree", "hardLinks", "oneTop",
            "clean", "noCreateDir", "keepStage", "failFast", "unlinkFirst",
            "replaceTypes", "keepDirLink", "recreate", "reflinks"}

Catalogue ==
    [kind: [Files -> {"file", "dir", "link", "special"}],
     inode: [Files -> Inodes \cup {NoInode}],
     twin: [Files -> Files \cup {0}],        \* files.canonical_id, 0 for NULL
     kept: SUBSET Files,                     \* both filters keep the row
     covers: [Sources -> SUBSET Files],      \* the ref table
     target: [Sources \cup {0} -> [Files -> Paths \cup {NoPath}]],
     grouping: {"None", "Global", "Source"},
     policy: {"Replace", "SkipExisting", "PreferNewer", "PreferOlder"},
     newer: SUBSET Files,     \* recorded mtime is later than the disk entry's
     stored: SUBSET Files,    \* FileExtracted and rehashed: payload in the cache
     fails: SUBSET Files,     \* payloads whose copy may fail
     set: SUBSET Setting,     \* the switches that are on
     before: [Paths -> Node]] \* the target before the extraction

\* A member is joined to the root, so it is Here or below; a name is stripped
\* to nothing only where names are changed, and the canonical of a file is a
\* file (dedup links nothing else).  Here is another text for the root and
\* names no entry of its own.
SoundCatalogue(c) ==
    /\ \A f \in Files, s \in Sources \cup {0} : c.target[s][f] \notin {Root, Up}
    /\ \A f \in Files, s \in Sources \cup {0} : c.target[s][f] = NoPath => "renames" \in c.set
    /\ \A f \in Files : c.kind[f] = "file" /\ c.twin[f] # 0 => c.kind[c.twin[f]] = "file"
    /\ c.before[Here] = Bare("none")

ASSUME OutTreeAssumption ==
    /\ Files \subseteq Nat \ {0} /\ Sources \subseteq Nat \ {0}
    /\ IsFiniteSet(Files) /\ IsFiniteSet(Sources)
    /\ NoInode \notin Inodes /\ NoPath \notin Paths /\ Unset \notin Paths
    /\ {Root, Here, Up} \subseteq Paths
    /\ Here \notin {Root, Up} /\ Root # Up
    /\ Parent \in [Paths \ {Up} -> Paths \ {Here}]
    /\ \A p \in Paths \ {Up} : Parent[p] = Up <=> p \in {Root, Here}
    /\ Catalogues \subseteq Catalogue
    /\ \A c \in Catalogues : SoundCatalogue(c)
    /\ {Batch, Workers, WorkCapacity, DrainChunk} \subseteq Nat \ {0}
    /\ MaxRestarts \in Nat

VARIABLES
    cat,        \* the catalogue of this run; never changes
    newName,    \* files.new_name
    tree,       \* out_tree, a sequence: the position is the row id
    refOut,     \* ref_out: <<row id, source id>>
    conflicts,  \* MaterializeConflict errors: <<displaced file, row id>>
    meta,       \* flags of the meta table that are set
    fileFlags,  \* placement bits of files.flags
    phase,      \* the saved phase of the extract pipeline
    promoted,   \* files.phase = 'at_destination'
    disk,       \* what is at each path
    cache,      \* payloads in the extract cache
    workDir,    \* the work directory exists: extract cache and work database
    store,      \* what the link source holds of each payload
    pc,         \* where the driving thread is
    at,         \* its position in the current pass
    cursor,     \* the last entry of the current walk of the prologue
    refs,       \* members of the current batch still to enter in ref_out
    todo, work, busy, out, \* a pass's feed, channel, workers, results
    shutdown, restarts

planned == <<newName, tree, refOut, conflicts>>
placed == <<fileFlags, promoted>>
world == <<disk, cache, workDir, store>>
walk == <<cursor, refs>>
pool == <<todo, work, busy, out>>
vars == <<cat, planned, meta, phase, placed, world, pc, at, walk, pool,
          shutdown, restarts>>

On(s) == s \in cat.set
Max1(S) == CHOOSE m \in S : \A x \in S : x <= m

-----------------------------------------------------------------------------
(* Vocabulary of the SQL statements.                                       *)

OutTreeFlag == {"Placed", "Conflict", "Removed", "IsHardlink", "RefLink", "Error"}
Row == [path: Paths, file: Files \cup {0}, dir: BOOLEAN, canon: Nat, flags: SUBSET OutTreeFlag]
Rows == DOMAIN tree
FileRow(r) == tree[r].file # 0 /\ cat.kind[tree[r].file] = "file"
Flagged(row, flags) == [row EXCEPT !.flags = flags]
Ascending(S) ==
    [i \in 1..Cardinality(S) |->
        CHOOSE x \in S : Cardinality({y \in S : y <= x}) = i]

-----------------------------------------------------------------------------
(* The walks.  A list is paged by id (batched_stepped_loop): the next page  *)
(* is what lies behind the last id seen.  Pages of one list after the other *)
(* are one walk over entries <<source or 0, list, id>>, in that order.      *)

Earlier(a, b) ==
    \/ a[1] < b[1]
    \/ a[1] = b[1] /\ a[2] < b[2]
    \/ a[1] = b[1] /\ a[2] = b[2] /\ a[3] < b[3]

Start == <<0, 0, 0>>
Ahead(S) == {x \in S : Earlier(cursor, x)}
UpTo(S, x) == {y \in Ahead(S) : ~Earlier(x, y)}

\* The entry that comes next.
Comes(S, x) == x \in Ahead(S) /\ UpTo(S, x) = {x}

\* The next page: at most Batch entries of one list.
Page(S) ==
    {x \in Ahead(S) : /\ \A y \in UpTo(S, x) : y[1] = x[1] /\ y[2] = x[2]
                      /\ Cardinality(UpTo(S, x)) <= Batch}
LastOf(page) == CHOOSE x \in page : \A y \in page : ~Earlier(x, y)

\* list_materialized_entries: the members of a source (0: of the catalogue)
\* that get a path.  With --overwrite-all-dir the directory list ignores the
\* filters.
Listed(s, dirs, named) ==
    {f \in Files :
        /\ s # 0 => f \in cat.covers[s]
        /\ (cat.kind[f] = "dir") = dirs
        /\ f \in cat.kept \/ (dirs /\ On("allDirs"))
        /\ named => newName[f] \notin {Unset, NoPath}}

\* Mutant: the rest of a source is walked before its directories.
RestFirst(named) ==
    {x \in (IF On("absolute") THEN {0} ELSE Sources) \X {0, 1} \X Files :
        x[3] \in Listed(x[1], x[2] = 1, named)}

\* stepped_dirs_then_rest over the sources: list 0 of a source has its
\* directories, list 1 the rest.
Members(named) ==
    {x \in (IF On("absolute") THEN {0} ELSE Sources) \X {0, 1} \X Files :
        x[3] \in Listed(x[1], x[2] = 0, named)}

\* build_new_out_tree_rows: a renamed member goes where its stored name says,
\* another where its source maps it.  The root's own name is not Root: "."
\* (rel_rel_path of a source like . or /) or "" (absolute or renamed) is joined
\* to it, and abs_path is compared as a text.
TargetOf(x) == IF On("renames") THEN newName[x[3]] ELSE cat.target[x[1]][x[3]]

-----------------------------------------------------------------------------
Init ==
    /\ cat \in Catalogues
    /\ newName = [f \in Files |-> Unset]
    /\ tree = <<>> /\ refOut = {} /\ conflicts = {} /\ meta = {}
    /\ fileFlags = [f \in Files |-> {}]
    /\ phase = "PlacementPrologue" /\ promoted = FALSE
    /\ disk = cat.before /\ cache = cat.stored /\ workDir = TRUE
    /\ store = [f \in Files |-> "none"]
    /\ pc = "enter" /\ at = 1 /\ cursor = Start /\ refs = {}
    /\ todo = {} /\ work = {} /\ busy = {} /\ out = {}
    /\ shutdown = "running" /\ restarts = 0

\* The head of the driver's loop: a pending signal ends the run between
\* phases, otherwise the saved phase is entered.  The prologue returns at once
\* when it is done, renames only with a transform or a strip, and skips a tree
\* that is built.
EnterPhase ==
    /\ pc = "enter"
    /\ pc' = IF shutdown # "running" THEN "interrupted"
             ELSE CASE phase = "Place" -> "clean"
                    [] phase = "Permissions" -> "done"
                    [] phase = "PlacementPrologue" ->
                         IF "prologueDone" \in meta THEN "verify"
                         ELSE IF On("renames") THEN "rename"
                         ELSE IF "treeBuilt" \in meta THEN "elect" ELSE "insert"
    /\ at' = 1 /\ cursor' = Start
    /\ UNCHANGED <<cat, planned, meta, phase, placed, world, refs, pool,
                   shutdown, restarts>>

\* apply_renames: the transformed and stripped name of every entry, one
\* autocommit per file; a file of two sources is renamed twice.
Rename ==
    /\ pc = "rename"
    /\ \/ /\ Ahead(Members(FALSE)) = {}
          /\ pc' = (IF "treeBuilt" \in meta THEN "elect" ELSE "insert")
          /\ cursor' = Start /\ UNCHANGED newName
       \/ \E x \in Members(FALSE) :
             /\ Comes(Members(FALSE), x)
             /\ newName' = [newName EXCEPT ![x[3]] = cat.target[x[1]][x[3]]]
             /\ cursor' = x /\ UNCHANGED pc
    /\ UNCHANGED <<cat, tree, refOut, conflicts, meta, phase, placed, world, at,
                   refs, pool, shutdown, restarts>>

NewRow(path, f) ==
    [path |-> path, file |-> f, dir |-> f = 0 \/ cat.kind[f] = "dir",
     canon |-> 0, flags |-> {}]

Taken(p) == \E r \in Rows : tree[r].path = p
RowAt(p) == CHOOSE r \in Rows : tree[r].path = p

\* Mutant: abs_path is not UNIQUE, a path of an earlier page gets a second row.
FreshInPage(page) ==
    {x \in page : \A y \in page : TargetOf(y) = TargetOf(x) => x[3] <= y[3]}

\* The members of a page whose INSERT adds a row: the first one of a path that
\* no row owns.
Fresh(page) ==
    {x \in page : /\ ~Taken(TargetOf(x))
                  /\ \A y \in page : TargetOf(y) = TargetOf(x) => x[3] <= y[3]}

\* insert_out_tree_rows: one transaction per page.  A path that is taken keeps
\* its owner, and another member displaced by it is recorded as a conflict.
InsertBatch ==
    LET named == On("renames")
        page == Page(Members(named))
        ids == Ascending({x[3] : x \in Fresh(page)})
        source == LastOf(page)[1]
    IN /\ pc = "insert"
       /\ IF page = {}
          THEN pc' = "parents" /\ cursor' = Start /\ UNCHANGED <<tree, conflicts, refs>>
          ELSE /\ tree' = tree \o [i \in DOMAIN ids |->
                                      NewRow(TargetOf(<<source, 0, ids[i]>>), ids[i])]
               /\ conflicts' = conflicts \cup
                      {c \in Files \X DOMAIN tree' :
                          \E x \in page : /\ x[3] = c[1]
                                          /\ tree'[c[2]].path = TargetOf(x)
                                          /\ tree'[c[2]].file # x[3]}
               /\ refs' = IF On("absolute") THEN {} ELSE page
               /\ pc' = "refs" /\ cursor' = LastOf(page)
       /\ UNCHANGED <<cat, newName, refOut, meta, phase, placed, world, at, pool,
                      shutdown, restarts>>

\* insert_ref_out_rows: INSERT OR IGNORE, one autocommit per member of the
\* page, for the row that has its path.
InsertRef ==
    /\ pc = "refs"
    /\ \/ refs = {} /\ pc' = "insert" /\ UNCHANGED <<refOut, refs>>
       \/ \E x \in refs :
             /\ \A y \in refs : x[3] <= y[3]
             /\ refOut' = refOut \cup {<<RowAt(TargetOf(x)), x[1]>>}
             /\ refs' = refs \ {x} /\ UNCHANGED pc
    /\ UNCHANGED <<cat, newName, tree, conflicts, meta, phase, placed, world, at,
                   cursor, pool, shutdown, restarts>>

Plain == {<<0, 0, r>> : r \in {q \in Rows : ~tree[q].dir}}

\* ensure_parent: a page of rows that are no directories; the parents of its
\* paths, in the order a HashSet yields them, become scaffold rows unless the
\* path is taken.  What lies right below the root asks for Root, also beside a
\* row Here; what a rename has put Here asks for Up.
EnsureParents ==
    LET parents == {Parent[tree[x[3]].path] : x \in Page(Plain)}
    IN /\ pc = "parents"
       /\ IF Page(Plain) = {}
          THEN pc' = "built" /\ cursor' = Start /\ UNCHANGED tree
          ELSE /\ \E order \in SetToSeqs({p \in parents : ~Taken(p)}) :
                      tree' = tree \o [i \in DOMAIN order |-> NewRow(order[i], 0)]
               /\ cursor' = LastOf(Page(Plain)) /\ UNCHANGED pc
       /\ UNCHANGED <<cat, newName, refOut, conflicts, meta, phase, placed, world, at,
                      refs, pool, shutdown, restarts>>

\* set_out_tree_built.
SetTreeBuilt ==
    /\ pc = "built"
    /\ meta' = meta \cup {"treeBuilt"}
    /\ pc' = "elect"
    /\ UNCHANGED <<cat, planned, phase, placed, world, at, walk, pool, shutdown,
                   restarts>>

-----------------------------------------------------------------------------
(* Election of the hard-link canonicals (db/place.rs mark_*_canonical): a   *)
(* list of UPDATE statements, each committed on its own.                    *)

Undecided(r) == tree[r].canon = 0
LedBy(row, w) == [row EXCEPT !.canon = w]
FromSource(r, s) == s = 0 \/ <<r, s>> \in refOut

\* The dedup canonical of a row's file, if there is one with an inode.
DedupCanonical(r) ==
    {c \in Files : /\ FileRow(r) /\ c = cat.twin[tree[r].file]
                   /\ cat.twin[c] = c /\ cat.inode[c] # NoInode}

\* Step 1: MIN(out.id) per (dev, inode) of the dedup canonical.
Elect(s) ==
    LET group(r) == {cat.inode[c] : c \in DedupCanonical(r)}
        able == {r \in Rows : Undecided(r) /\ FromSource(r, s) /\ group(r) # {}}
        first == {r \in able : \A q \in able : group(q) = group(r) => r <= q}
    IN [r \in Rows |-> IF r \in first THEN LedBy(tree[r], r) ELSE tree[r]]

\* Mutant: a row joins an elected row of any inode.
JoinAny(s) ==
    LET leaders(r) ==
            {w \in Rows : /\ tree[w].canon = w /\ FileRow(w)
                          /\ cat.twin[tree[w].file] = tree[w].file}
        joins(r) == Undecided(r) /\ FromSource(r, s) /\ tree[r].file # 0
                    /\ leaders(r) # {}
    IN [r \in Rows |->
            IF joins(r)
            THEN LedBy(tree[r], CHOOSE w \in leaders(r) : \A v \in leaders(r) : w <= v)
            ELSE tree[r]]

\* Step 2: an undecided row of the same inode as an elected row whose file is
\* its own dedup canonical points at the first such row, of whatever source.
Join(s) ==
    LET leaders(r) ==
            {w \in Rows : /\ tree[w].canon = w /\ FileRow(w)
                          /\ cat.twin[tree[w].file] = tree[w].file
                          /\ cat.inode[tree[w].file] # NoInode
                          /\ cat.inode[tree[w].file] = cat.inode[tree[r].file]}
        joins(r) == Undecided(r) /\ FromSource(r, s) /\ tree[r].file # 0
                    /\ leaders(r) # {}
    IN [r \in Rows |->
            IF joins(r)
            THEN LedBy(tree[r], CHOOSE w \in leaders(r) : \A v \in leaders(r) : w <= v)
            ELSE tree[r]]

\* Step 3: every other file row is placed for itself.
ElectRest(s) ==
    [r \in Rows |-> IF Undecided(r) /\ FromSource(r, s) /\ FileRow(r)
                    THEN LedBy(tree[r], r) ELSE tree[r]]

\* mark_all_canonical: every row that is no directory, links included.
MarkAll == [r \in Rows |-> IF Undecided(r) /\ ~tree[r].dir
                           THEN LedBy(tree[r], r) ELSE tree[r]]

\* The statements of prepare_hardlink_canonicals for the grouping, as entries
\* <<source or 0, which, 0>> of a walk.
Statements ==
    CASE On("linkTree") -> {}
      [] ~On("linkTree") /\ cat.grouping = "None" -> {0} \X {4} \X {0}
      [] ~On("linkTree") /\ cat.grouping = "Global" -> {0} \X (1..3) \X {0}
      [] ~On("linkTree") /\ cat.grouping = "Source" -> Sources \X (1..3) \X {0}

Run(x) ==
    CASE x[2] = 1 -> Elect(x[1])
      [] x[2] = 2 -> Join(x[1])
      [] x[2] = 3 -> ElectRest(x[1])
      [] x[2] = 4 -> MarkAll

ElectStep ==
    /\ pc = "elect"
    /\ \/ /\ Ahead(Statements) = {}
          /\ pc' = "finish" /\ cursor' = Start /\ UNCHANGED tree
       \/ \E x \in Statements :
             /\ Comes(Statements, x)
             /\ tree' = Run(x) /\ cursor' = x /\ UNCHANGED pc
    /\ UNCHANGED <<cat, newName, refOut, conflicts, meta, phase, placed, world, at,
                   refs, pool, shutdown, restarts>>

\* set_placement_prologue_done.
FinishPrologue ==
    /\ pc = "finish"
    /\ meta' = meta \cup {"prologueDone"}
    /\ pc' = "verify"
    /\ UNCHANGED <<cat, planned, phase, placed, world, at, walk, pool, shutdown,
                   restarts>>

\* The proper prefixes of a path that end before a slash.
Above ==
    LET up[p \in Paths] ==
            CASE p = Up -> {}
              [] p = Here -> {Root, Up}
              [] p \notin {Up, Here} -> {Parent[p]} \cup up[Parent[p]]
    IN up

\* E5 to E7 of the battery: a row that is no directory lies below some
\* directory row and has a file, and a directory row's file is a directory.
\* (The longest-prefix clause of E5 compares directory rows with each other,
\* so any directory above satisfies it.)
TreeChecks ==
    /\ \A r \in Rows : ~tree[r].dir =>
          /\ \E d \in Rows : tree[d].dir /\ tree[d].path \in Above[tree[r].path]
          /\ tree[r].file # 0
    /\ \A r \in Rows : tree[r].dir /\ tree[r].file # 0
                          => cat.kind[tree[r].file] = "dir"

\* verify_after_phase after the prologue, then the next phase is saved and the
\* driver goes round its loop.
VerifyPrologue ==
    /\ pc = "verify" /\ phase = "PlacementPrologue"
    /\ IF TreeChecks THEN pc' = "enter" /\ phase' = "Place"
                     ELSE pc' = "panicked" /\ UNCHANGED phase
    /\ UNCHANGED <<cat, planned, meta, placed, world, at, walk, pool, shutdown,
                   restarts>>
=============================================================================
