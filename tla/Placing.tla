------------------------------ MODULE Placing ------------------------------
(***************************************************************************)
(* Prologue and placement composed: the extract driver runs the prologue,  *)
(* then one of the two ways of placing, with signals, crashes and reruns   *)
(* between any two steps, and the properties of the whole.                 *)
(***************************************************************************)
EXTENDS LinkTree

Settled == {"done", "failed", "interrupted", "panicked", "lost"}

\* A signal asks for a graceful stop, a third one for an abort.
Signal ==
    /\ pc \notin Settled
    /\ \/ shutdown = "running" /\ shutdown' = "graceful"
       \/ shutdown = "graceful" /\ shutdown' = "force"
    /\ UNCHANGED <<cat, planned, meta, phase, placed, world, pc, at, walk, pool,
                   restarts>>

\* A crash at any point, or a rerun after the program stopped: the tables and
\* the file system survive.  Without a work database there is nothing to
\* resume (resolve_start), and the extraction is given up.
Restart ==
    /\ pc \notin {"done", "lost"}
    /\ restarts < MaxRestarts
    /\ restarts' = restarts + 1
    /\ todo' = {} /\ work' = {} /\ busy' = {} /\ out' = {}
    /\ refs' = {} /\ cursor' = Start
    /\ shutdown' = "running"
    /\ pc' = IF workDir THEN "enter" ELSE "lost"
    /\ at' = 1
    /\ UNCHANGED <<cat, planned, meta, phase, placed, world>>

Stopped == pc \in Settled /\ UNCHANGED vars

PrologueStep ==
    \/ EnterPhase \/ Rename \/ InsertBatch \/ InsertRef \/ EnsureParents
    \/ SetTreeBuilt \/ ElectStep \/ FinishPrologue \/ VerifyPrologue

PlaceStep ==
    \/ CleanTarget \/ BuildDirs \/ OpenPass \/ Feed \/ Ingest \/ EndPass
    \/ Sweep \/ ApplyFlags \/ Promote \/ VerifyPlace

LinkStep == OpenMove \/ IngestMove \/ EndMove \/ OpenLink \/ LinkOne \/ IngestLinks

Worker == WorkerBegin \/ WorkerFinish \/ DropWork \/ BeginMove \/ FinishMove

Driver == PrologueStep \/ PlaceStep \/ LinkStep

Next == Driver \/ Worker \/ Signal \/ Restart \/ Stopped

Spec == Init /\ [][Next]_vars

\* Whether Driver and Worker can take a step, spelled out: outside the pools
\* the driving thread always can.
DriverReady ==
    /\ pc \notin Settled
    /\ pc \in Pooled /\ at = 2 =>
          \/ todo # {} /\ (shutdown # "running" \/ Cardinality(work) < WorkCapacity)
          \/ \E B \in SUBSET out : IsBatch(B)
          \/ todo \cup work = {} /\ busy = {} /\ out = {}
WorkerReady ==
    /\ pc \in Pooled /\ at = 2
    /\ \/ busy # {}
       \/ work # {} /\ (shutdown # "running" \/ Cardinality(busy) < Workers)

\* Weak fairness of the driving thread, which never blocks for good, and of
\* the workers, whose file operations end: WF_vars(Driver) /\ WF_vars(Worker)
\* with ENABLED written as above (TLC evaluates it by name, far too slowly).
FairSpec ==
    /\ Spec
    /\ []<>~DriverReady \/ []<><<Driver>>_vars
    /\ []<>~WorkerReady \/ []<><<Worker>>_vars

-----------------------------------------------------------------------------
TypeOK ==
    /\ newName \in [Files -> Paths \cup {Unset, NoPath}]
    /\ \A r \in Rows : tree[r] \in Row /\ tree[r].canon \in {0} \cup Rows
    /\ refOut \subseteq Rows \X Sources
    /\ conflicts \subseteq Files \X Rows
    /\ meta \subseteq {"treeBuilt", "prologueDone", "dirsBuilt"}
    /\ fileFlags \in [Files -> SUBSET {"Placed", "RefLink", "Conflict", "Error",
                                       "AtLinkSource"}]
    /\ phase \in {"PlacementPrologue", "Place", "Permissions"}
    /\ disk \in [Paths -> Node]
    /\ cache \subseteq Files
    /\ store \in [Files -> {"none", "half", "full"}]
    /\ shutdown \in {"running", "graceful", "force"}

-----------------------------------------------------------------------------
(* The tree.                                                                *)

\* Who may claim a path, and in which order: the sources in the order they
\* were added, the directories of a source before its other members, then by
\* row id.  A renamed member has one name, the one its last source gave it.
LastSource(f) ==
    IF On("absolute") THEN 0
    ELSE Max1({s \in Sources : f \in cat.covers[s]})
Claim(s, f) == cat.target[IF On("renames") THEN LastSource(f) ELSE s][f]
Claims ==
    {c \in (IF On("absolute") THEN {0} ELSE Sources) \X Files :
        /\ c[1] # 0 => c[2] \in cat.covers[c[1]]
        /\ c[2] \in cat.kept \/ (cat.kind[c[2]] = "dir" /\ On("allDirs"))
        /\ Claim(c[1], c[2]) # NoPath}
Before(a, b) ==
    LET rank(x) == IF cat.kind[x[2]] = "dir" THEN 0 ELSE 1
    IN \/ a[1] < b[1]
       \/ a[1] = b[1] /\ rank(a) < rank(b)
       \/ a[1] = b[1] /\ rank(a) = rank(b) /\ a[2] < b[2]
Owner(p) ==
    {c \in Claims : /\ Claim(c[1], c[2]) = p
                    /\ \A o \in Claims : Claim(o[1], o[2]) = p => c = o \/ Before(c, o)}

\* Once the tree is built, whatever crashed on the way: a path has one row,
\* owned by its first claimant; every other file that claims it is recorded as
\* a conflict; ref_out knows every source of every row; a row that is no
\* directory has a row for its parent, and a row of no member is such a parent.
\* So a directory has two rows only if it is the root and a member Here owns
\* the first, and a row lies outside the root only where a rename has put a
\* member Here that is no directory.
TreeSound ==
    "treeBuilt" \in meta =>
        /\ \A r, q \in Rows : tree[r].path = tree[q].path => r = q
        /\ \A r \in Rows : {c[2] : c \in Owner(tree[r].path)}
                               = {tree[r].file} \ {0}
        /\ \A c \in Claims :
              \E r \in Rows :
                 /\ tree[r].path = Claim(c[1], c[2])
                 /\ tree[r].file # c[2] => <<c[2], r>> \in conflicts
                 /\ c[1] # 0 => <<r, c[1]>> \in refOut
        /\ \A r \in Rows : ~tree[r].dir =>
              \E q \in Rows : tree[q].path = Parent[tree[r].path]
        /\ \A r \in Rows : tree[r].file = 0 =>
              \E q \in Rows : ~tree[q].dir /\ tree[r].path = Parent[tree[q].path]
        /\ \A r, q \in Rows : Place(tree[r].path) = Place(tree[q].path) /\ r # q =>
              \E x \in {r, q} : tree[x].path = Here /\ tree[x].file # 0
        /\ \A r \in Rows : tree[r].path = Up =>
              \E q \in Rows : tree[q].path = Here /\ ~tree[q].dir

\* Once the prologue is done a link target is decided and elected itself: a
\* row that joins another has its inode, and that other row is copied for
\* itself.  With global grouping and no crash between the statements, the
\* names of an inode are names of one inode again when the first row whose
\* content is stored under that inode is a name of the stored payload itself.
\* (A row before it, of a duplicate by content, takes the election and leads
\* nobody; a name that leads the group of another inode stays where it is.)
LinksSound ==
    "prologueDone" \in meta /\ ~On("linkTree") =>
        /\ \A r \in Rows : tree[r].canon \notin {0, r} =>
              /\ tree[tree[r].canon].canon = tree[r].canon
              /\ FileRow(tree[r].canon)
              /\ cat.inode[tree[r].file] # NoInode
              /\ cat.inode[tree[tree[r].canon].file] = cat.inode[tree[r].file]
        /\ \A r \in Rows :
              FileRow(r) /\ (On("absolute") => cat.grouping # "Source") => tree[r].canon # 0
        /\ \A r, q \in Rows :
              /\ restarts = 0 /\ cat.grouping = "Global" /\ FileRow(r) /\ FileRow(q)
              /\ cat.inode[tree[r].file] = cat.inode[tree[q].file]
              /\ cat.inode[tree[r].file] # NoInode
              /\ Payload(r) = tree[r].file
              /\ \A x \in Rows : FileRow(x) /\ Payload(x) # 0
                    /\ cat.inode[Payload(x)] = cat.inode[Payload(r)] => r <= x
              /\ Payload(q) \in {0, Payload(r)}
              => tree[r].canon = r /\ tree[q].canon = r

-----------------------------------------------------------------------------
(* The payloads.                                                            *)

\* A path that was a link to begin with is written through.
Through(r) == cat.before[tree[r].path].kind \in {"link", "dangling"}

\* A row that is placed when the phase is over is on disk: an elected one with
\* its payload, complete and its own content's, a joined one as a name of what
\* is at the path of the row it joined.  (That row need not be placed: the pass
\* links to whatever kept its path.  --clean-target on a rerun wipes what
\* earlier runs placed.)
PlacedIsThere ==
    phase = "Permissions" /\ ~On("linkTree") /\ ~(On("clean") /\ restarts > 0) =>
        \A r \in Rows :
            FileRow(r) /\ "Placed" \in tree[r].flags =>
                /\ tree[r].canon \in Rows
                /\ tree[r].canon = r /\ ~Through(r) =>
                      disk[tree[r].path] = [kind |-> "payload", of |-> Payload(r), by |-> r]
                /\ tree[r].canon # r =>
                      disk[tree[r].path] = disk[tree[tree[r].canon].path]

\* A phase that ends has decided every row it had to place.  Left undecided
\* are only directories, links and special files of a tree without hard-link
\* grouping (mark_all_canonical takes them out of the Others list), files of an
\* absolute tree grouped by source, what link-tree mode does not list, and an
\* elected file whose member has no payload of its own or another's (it could not
\* be read when it was archived): the queue joins the dedup canonical.
Decided(r) == tree[r].flags \cap {"Placed", "Error", "Conflict"} # {}
Unlisted(r) ==
    \/ tree[r].dir
    \/ ~FileRow(r) /\ cat.grouping = "None"
    \/ FileRow(r) /\ On("absolute") /\ cat.grouping = "Source"
    \/ On("linkTree") /\ ~(FileRow(r) /\ Payload(r) = tree[r].file /\ Payload(r) \in cat.stored)
    \/ On("linkTree") /\ "Error" \in fileFlags[tree[r].file]
    \/ FileRow(r) /\ Payload(r) = 0 /\ tree[r].canon = r
EveryRowDecided ==
    phase = "Permissions" => \A r \in Rows : Decided(r) \/ Unlisted(r)

\* A panic has a reason: the battery finds a row that could not be placed, or
\* the making of directories one outside the output directory.
PanicHasCause ==
    pc = "panicked" =>
        \/ \E r \in Rows : "Error" \in tree[r].flags
        \/ ~On("oneTop") /\ \E r \in Rows : tree[r].path = Up

\* Every run of the phase comes to an end, also one that a signal asked to
\* stop, except a link-tree run that is signalled while it links.
Settles == <>[](pc \in Settled \/ (On("linkTree") /\ shutdown # "running" /\ pc = "link"))

-----------------------------------------------------------------------------
(* What the code's own comments say and a run refutes.                      *)

\* materialize_worker: a row that an interrupt left undone stays pending for
\* the resumed run, which needs the work database.
Resumable ==
    pc = "interrupted" /\ phase = "Place" /\ (\E r \in Rows : ~Decided(r) /\ ~Unlisted(r))
        => workDir

\* copy_one_to_source: the .sources copy is what the link tree links from and
\* must stay.
PayloadStays ==
    [][\A c \in Files : store[c] = "full" => store'[c] = "full"]_vars
=============================================================================
