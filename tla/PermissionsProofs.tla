-------------------------- MODULE PermissionsProofs --------------------------
(***************************************************************************)
(* Theorems about Permissions, for every tree and every setting, any       *)
(* number of rows, every batch size and buffer of the recorder, and any    *)
(* number of crashes, signals and restarts.                                *)
(***************************************************************************)
EXTENDS Permissions, TLAPS, FiniteSetTheorems, WellFoundedInduction

-----------------------------------------------------------------------------
(* The inductive invariant.  Where the process is and what it holds decide *)
(* which list the batch comes from; the order of the lists and the flags   *)
(* that only whole batches get decide which rows are handled before which; *)
(* and that decides what a step may overwrite.                             *)

Passes == {"sources", "links", "files", "dirs"}

\* The rows of the current batch that are handled and not yet stored.
Resulted == {n \in Node : <<n, TRUE>> \in results \/ <<n, FALSE>> \in results}

\* The list that a pass works on; it stands still during a batch.
Listed(p) == IF p = "sources" THEN PendingSources
             ELSE IF p = "links" THEN PendingLinks
             ELSE IF p = "files" THEN PendingFiles ELSE PendingDirs

\* Where the process is, and what it holds there.
Control ==
    /\ pc = "off" => drafts = {}
    /\ pc \notin Passes => batch = {} /\ results = {} /\ owed = 0
    /\ pc \in {"applied", "erred", "verify"} => drafts = {}
    /\ pc \in {"sources", "links"} => On("linkTree")
    /\ pc = "files" => ~On("linkTree")
    /\ pc # "off" => crashes < launches /\ phase = "permissions"
    /\ owed # 0 => /\ pc \in {"files", "dirs"} /\ owed \in Resulted
                   /\ case.member[owed] # NULL /\ SidecarMode # "never"
    /\ pc = "links" /\ (batch # {} \/ results # {}) => SidecarMode = "always"

\* A batch is taken from the front of the list.
Batches ==
    /\ pc \in Passes => batch \subseteq Listed(pc) /\ Resulted \subseteq Listed(pc)
    /\ batch \cap Resulted = {}
    /\ pc = "dirs" => \A d \in batch \cup Resulted, q \in PendingDirs :
                         Sooner(q, d) => q \in batch \cup Resulted

\* A directory above a row is not handled yet, or is the root that overtook it.
Waits(d, r) == Overtakes(d, r) \/ (flags[d] = {} /\ d \notin Resulted)

\* The contents of a directory are handled before it, but for those that the
\* root overtakes.
Deepest ==
    /\ \A r \in Dirs : \A d \in case.above[r] : Overtakes(d, r) \/
          /\ flags[d] # {} => flags[r] # {}
          /\ d \in Resulted => flags[r] # {} \/ r \in Resulted
    /\ pc = "dirs" \/ (\E d \in Dirs : flags[d] # {}) =>
          IF On("linkTree") THEN SidecarMode = "always" => PendingLinks = {}
                            ELSE PendingFiles = {}
    /\ owed # 0 => \A d \in case.above[owed] : Waits(d, owed)

\* A mode that was set is that of the row; in the first run only of rows that
\* were handled, or of where a symlink leads.
Modes ==
    /\ \A r \in Rows : node[r].mode[1] \in {NULL, case.member[r]}
    /\ launches = 0 => \A n \in Node : node[n].mode[2] = "open"
    /\ pc # "off" /\ launches = 1 =>
          \A d \in Dirs : node[d].mode[2] = "archived" =>
             \/ flags[d] # {} \/ d \in Resulted
             \/ On("acls") /\ ClobberedBy(d) # {}

\* The rows whose metadata the phase restores.
Restorable == {r \in Rows : /\ case.member[r] # NULL /\ case.kind[r] # "symlink"
                            /\ On("linkTree") => r \in Dirs}

\* What was applied without an error stands.
Standing ==
    /\ \A r \in Restorable : "applied" \in flags[r] \/ <<r, TRUE>> \in results
                             => Holds(r, case.member[r])
    /\ On("linkTree") => \A m \in case.stored :
          /\ <<m, TRUE>> \in results => Holds(m, m)
          /\ "applied" \in flags[m] => Holds(m, m) \/ "error" \in flags[m]
          /\ pc \notin {"off", "sources"} => flags[m] # {}
          /\ phase = "cleanup" => "applied" \notin flags[m] \/ "error" \notin flags[m]

Cause(r) ==
    \/ Owes(case.member[r], case.kind[r] = "symlink", Followed(r) # 0)
    \/ On("linkTree") /\ r \in case.crowded
    \/ \E d \in case.above[r] \cup (IF Followed(r) = 0 THEN {}
                                    ELSE case.above[Followed(r)]) : ShutEarly(d, r)

Causes == \A r \in Rows : "error" \in flags[r] \/ <<r, FALSE>> \in results => Cause(r)

\* A sidecar beside the row, or a reason why there is none.
Beside(r) == \/ sidecars[r] > 0 \/ r \in case.crowded
             \/ \E d \in case.above[r] : ShutEarly(d, r)

\* A row for which this process has no sidecar yet.
Fresh(r) == pc # "off" /\ flags[r] = {} /\ (r \notin Resulted \/ r = owed)

Sidecars ==
    \A r \in Rows :
       /\ SidecarMode = "always" /\ case.member[r] # NULL
          /\ (flags[r] # {} \/ (r \in Resulted /\ r # owed)) => Beside(r)
       /\ SidecarMode = "onError" /\ case.member[r] # NULL
          /\ ("error" \in flags[r] \/ (<<r, FALSE>> \in results /\ r # owed)) => Beside(r)
       /\ SidecarMode = "never" => sidecars[r] = 0
       /\ sidecars[r] <= launches
       /\ Fresh(r) => sidecars[r] < launches

Records ==
    crashes = 0 /\ ~On("noErrors") =>
       /\ \A r \in Rows : "error" \in flags[r] \/ <<r, FALSE>> \in results
                          => Subject(r) \in errors \cup drafts
       /\ On("linkTree") => \A m \in case.stored :
             "error" \in flags[m] \/ <<m, FALSE>> \in results => m \in errors \cup drafts

IInv == /\ TypeOK /\ Control /\ Batches /\ Deepest /\ Modes
        /\ Standing /\ Causes /\ Sidecars /\ Records

-----------------------------------------------------------------------------
(* The tree, its order and the head of a list.                             *)

\* What is known of the case that a run works on.
LEMMA CaseTyped ==
    ASSUME TypeOK
    PROVE  /\ case.kind \in [Rows -> {"dir", "file", "symlink"}]
           /\ case.member \in [Rows -> Members \cup {NULL}]
           /\ case.above \in [Rows -> SUBSET Rows]
           /\ case.depth \in [Rows -> Nat]
           /\ case.canon \in [Rows -> Rows]
           /\ case.leads \in [Rows -> Rows \cup {0}]
           /\ case.stored \subseteq Members
           /\ case.source \in [Members -> Members \cup {NULL}]
           /\ case.closed \subseteq Members
           /\ case.sidecar \in {"always", "onError", "never"}
           /\ Placed(case)
<1>1. case \in Case /\ Placed(case)
    BY PermissionsAssumption DEF TypeOK
<1> QED BY <1>1 DEF Case

\* Ids of rows are numbers, and no members.
LEMMA RowsTyped ==
    /\ Rows \subseteq Nat /\ 0 \notin Rows /\ Rows \subseteq Node
    /\ Members \subseteq Node /\ NULL \notin Members
    /\ \A r \in Rows : r \notin Members
BY PermissionsAssumption DEF Node

\* A directory comes after the directories beneath it, unless it is the root
\* and overtakes them.
LEMMA AboveSooner ==
    ASSUME TypeOK, NEW r \in Rows, NEW d \in case.above[r]
    PROVE  d \in Dirs /\ d # r /\ (r \in Dirs => Overtakes(d, r) \/ Sooner(r, d))
<1>1. /\ d \in Rows /\ case.kind[d] = "dir" /\ d # r
      /\ case.depth[d] < case.depth[r] \/ case.depth[d] = case.depth[r]
    <2>1. /\ d \in Rows /\ case.kind[d] = "dir" /\ case.above[d] \subseteq case.above[r] \ {d}
          /\ case.depth[d] < case.depth[r] \/ case.depth[d] = case.depth[r]
        BY CaseTyped DEF Placed
    <2> QED BY <2>1
<1>2. d \in Nat /\ r \in Nat /\ case.depth[d] \in Nat /\ case.depth[r] \in Nat
    BY <1>1, CaseTyped, RowsTyped
<1> QED BY <1>1, <1>2 DEF Sooner, Overtakes, Dirs

\* A set of numbers that is not empty has a least one.
LEMMA LeastOf ==
    ASSUME NEW S \in SUBSET Nat, S # {}
    PROVE  \E x \in S : \A y \in S : x <= y
<1> DEFINE R == {ss \in Nat \X Nat : ss[1] < ss[2]}
<1>1. IsWellFoundedOn(R, Nat)
    BY NatLessThanWellFounded, Zenon DEF OpToRel
<1> HIDE DEF R
<1>2. PICK x \in S : \A y \in S : ~ (<<y, x>> \in R)
    BY <1>1, WFMin, Zenon
<1>3. \A y \in S : ~ (y < x)
    BY <1>2 DEF R
<1> QED BY <1>3

\* The order of the passes is transitive.
LEMMA SoonerTransitive ==
    ASSUME TypeOK, NEW p \in Rows, NEW q \in Rows, NEW r \in Rows, Sooner(p, q), Sooner(q, r)
    PROVE  Sooner(p, r)
<1>1. p \in Nat /\ q \in Nat /\ r \in Nat
    BY RowsTyped
<1>2. case.depth[p] \in Nat /\ case.depth[q] \in Nat /\ case.depth[r] \in Nat
    BY CaseTyped
<1> QED BY <1>1, <1>2 DEF Sooner

\* Of two rows one comes sooner, and none sooner than itself.
LEMMA SoonerTotal ==
    ASSUME TypeOK, NEW p \in Rows, NEW q \in Rows
    PROVE  ~Sooner(p, p) /\ (p = q \/ Sooner(p, q) \/ Sooner(q, p))
<1>1. p \in Nat /\ q \in Nat /\ case.depth[p] \in Nat /\ case.depth[q] \in Nat
    BY RowsTyped, CaseTyped
<1> QED BY <1>1 DEF Sooner

\* The rows of a batch have a first one, by depth as by id: of all rows it has
\* the fewest before it.
LEMMA FirstIsIn ==
    ASSUME TypeOK, NEW S \in SUBSET Rows, S # {}
    PROVE  /\ FirstOf(S, Sooner) \in S
           /\ \A q \in S \ {FirstOf(S, Sooner)} : Sooner(FirstOf(S, Sooner), q)
           /\ FirstOf(S, ById) \in S
<1> DEFINE Q(r) == {q \in S : Sooner(q, r)}
           T == {Cardinality(Q(r)) : r \in S}
<1>1. \A r \in S : IsFiniteSet(Q(r)) /\ Cardinality(Q(r)) \in Nat
    BY PermissionsAssumption, FS_Subset, FS_CardinalityType
<1>2. PICK r \in S : \A q \in S : Cardinality(Q(r)) <= Cardinality(Q(q))
    <2>1. T \in SUBSET Nat /\ T # {}
        BY <1>1
    <2> HIDE DEF T, Q
    <2>2. PICK t \in T : \A y \in T : t <= y
        BY <2>1, LeastOf
    <2> QED BY <2>2 DEF T
<1>3. ASSUME NEW q \in S \ {r} PROVE Sooner(r, q)
    <2> SUFFICES ASSUME Sooner(q, r) PROVE FALSE
        BY <1>3, SoonerTotal
    <2>1. Q(q) \subseteq Q(r) /\ q \in Q(r) /\ q \notin Q(q)
        BY <1>3, SoonerTransitive, SoonerTotal
    <2>2. Cardinality(Q(q)) <= Cardinality(Q(r)) /\ Cardinality(Q(q)) # Cardinality(Q(r))
        BY <1>1, <2>1, FS_Subset
    <2> QED BY <1>1, <1>2, <1>3, <2>2
<1>4. PICK i \in S : \A q \in S : i <= q
    BY LeastOf, RowsTyped
<1>5. \A q \in S \ {i} : ById(i, q)
    BY <1>4, RowsTyped DEF ById
<1> QED BY <1>2, <1>3, <1>5 DEF FirstOf

\* What comes sooner than a row of the batch is in the batch.
LEMMA BatchClosed ==
    ASSUME TypeOK, NEW S \in SUBSET Rows, NEW d \in FirstBatch(S, Sooner), NEW q \in S,
           Sooner(q, d)
    PROVE  q \in FirstBatch(S, Sooner)
<1> DEFINE Q(r) == {p \in S : Sooner(p, r)}
<1>1. d \in S /\ Cardinality(Q(d)) < BatchSize
    BY DEF FirstBatch
<1>2. Q(q) \subseteq Q(d)
    BY <1>1, SoonerTransitive
<1>3. IsFiniteSet(Q(d))
    BY PermissionsAssumption, FS_Subset
<1>4. IsFiniteSet(Q(q)) /\ Cardinality(Q(q)) <= Cardinality(Q(d))
    BY <1>2, <1>3, FS_Subset
<1>5. Cardinality(Q(q)) < BatchSize
    BY <1>1, <1>3, <1>4, FS_CardinalityType, PermissionsAssumption
<1> QED BY <1>5 DEF FirstBatch

-----------------------------------------------------------------------------
(* What steps leave alone.                                                 *)

\* The case never changes, nor what depends on nothing else.
LEMMA CaseStays ==
    ASSUME case' = case
    PROVE  /\ Dirs' = Dirs /\ SidecarMode' = SidecarMode /\ Restorable' = Restorable
           /\ \A o : On(o)' = On(o)
           /\ \A r : Followed(r)' = Followed(r)
           /\ \A r : Subject(r)' = Subject(r)
           /\ \A n : ClobberedBy(n)' = ClobberedBy(n)
           /\ \A p, q : Sooner(p, q)' = Sooner(p, q) /\ Overtakes(p, q)' = Overtakes(p, q)
           /\ \A n : Disturbed(n)' = Disturbed(n)
           /\ \A m, symlink, leading : Owes(m, symlink, leading)' = Owes(m, symlink, leading)
BY DEF Dirs, SidecarMode, Restorable, On, Followed, Subject, ClobberedBy, Sooner, Owes, Overtakes,
       Disturbed

\* The lists are made of rows that have no flag.
LEMMA ListsStay ==
    ASSUME UNCHANGED <<case, flags>>
    PROVE  /\ PendingSources' = PendingSources /\ PendingLinks' = PendingLinks
           /\ PendingFiles' = PendingFiles /\ PendingDirs' = PendingDirs
           /\ \A p : Listed(p)' = Listed(p)
BY DEF PendingSources, PendingLinks, PendingFiles, PendingDirs, Untouched, Dirs, Listed

\* What the rows on the lists are.
LEMMA ListsTyped ==
    ASSUME TypeOK
    PROVE  /\ PendingSources = {m \in case.stored : flags[m] = {}}
           /\ PendingLinks \subseteq {r \in Rows : flags[r] = {} /\ r \notin Dirs}
           /\ PendingFiles \subseteq {r \in Rows : /\ flags[r] = {} /\ r \notin Dirs
                                                   /\ case.canon[r] = r}
           /\ PendingDirs = {r \in Dirs : flags[r] = {}} /\ Dirs \subseteq Rows
           /\ \A r \in PendingLinks : /\ case.member[r] # NULL
                                      /\ case.source[case.member[r]] \in case.stored
<1>1. Dirs \subseteq Rows /\ case.stored \subseteq Node
    BY CaseTyped, RowsTyped DEF Dirs
<1>2. case.placed \subseteq Rows
    BY PermissionsAssumption DEF TypeOK, Case
<1>3. PendingSources = {m \in case.stored : flags[m] = {}}
    BY <1>1 DEF PendingSources, Untouched
<1>4. /\ PendingLinks \subseteq {r \in Rows : flags[r] = {} /\ r \notin Dirs}
      /\ \A r \in PendingLinks : /\ case.member[r] # NULL
                                 /\ case.source[case.member[r]] \in case.stored
    BY <1>2 DEF PendingLinks, Untouched
<1>5. PendingFiles \subseteq {r \in Rows : /\ flags[r] = {} /\ r \notin Dirs
                                           /\ case.canon[r] = r}
    BY <1>2 DEF PendingFiles, Untouched
<1>6. PendingDirs = {r \in Dirs : flags[r] = {}}
    BY <1>1, RowsTyped DEF PendingDirs, Untouched
<1> QED BY <1>1, <1>3, <1>4, <1>5, <1>6

\* Reasons outlive the process.
LEMMA ReasonsStay ==
    ASSUME TypeOK, case' = case, launches' \in Nat, launches' >= launches
    PROVE  /\ \A d, r : ShutEarly(d, r) => ShutEarly(d, r)'
           /\ \A r : Cause(r) => Cause(r)'
<1>1. launches \in Nat
    BY PermissionsAssumption DEF TypeOK
<1>2. \A d, q : ShutEarly(d, q) => ShutEarly(d, q)'
    BY <1>1, CaseStays DEF ShutEarly
<1>3. ASSUME NEW r, Cause(r) PROVE Cause(r)'
    BY <1>2, <1>3, CaseStays DEF Cause
<1> QED BY <1>2, <1>3

Metadata == [owner: Members \cup {NULL}, time: Members \cup {"before", "now"},
             mode: (Members \cup {NULL}) \X {"open", "archived", "changed"}]

\* The step leaves the metadata of what was handled as it is, outside of S.
Keeps(S) ==
    /\ node' \in [Node -> Metadata]
    /\ \A r \in Rows : node'[r].mode[1] \in {NULL, case.member[r]}
    /\ \A r \in Restorable \ S : "applied" \in flags[r] \/ <<r, TRUE>> \in results
                                 => Holds(r, case.member[r])'
    /\ On("linkTree") => \A m \in case.stored \ S : Holds(m, m) => Holds(m, m)'

\* A step that touches no inode.
LEMMA NodeKept ==
    ASSUME IInv, UNCHANGED <<case, node>>
    PROVE  Keeps({})
<1>1. \A n, m : Holds(n, m)' = Holds(n, m)
    BY CaseStays DEF Holds
<1> QED BY <1>1 DEF IInv, TypeOK, Metadata, Keeps, Modes, Standing

\* Without results nothing of a batch is left.
LEMMA NothingResulted ==
    /\ results = {} => Resulted = {}
    /\ results' = {} => Resulted' = {}
BY DEF Resulted

\* However a process ends, all holds that its successor needs.
LEMMA EndSound ==
    ASSUME IInv, pc # "off", UNCHANGED <<case, sidecars, flags, stop, launches>>,
           NEW how \in {"done", "error", "stopped", "panic", "crashed"}, End(how),
           NEW S \in SUBSET Node, Keeps(S), \A x \in S : flags[x] = {},
           phase' \in {"permissions", "cleanup"},
           phase' = "cleanup" /\ On("linkTree") =>
              \A m \in case.stored : "applied" \notin flags[m] \/ "error" \notin flags[m],
           crashes' \in 0..launches, errors' \subseteq Node,
           crashes' = 0 /\ ~On("noErrors") => crashes = 0 /\ errors \cup drafts \subseteq errors'
    PROVE  IInv'
<1>1. TypeOK'
    <2>1. /\ case' \in Cases /\ sidecars' \in [Rows -> 0..MaxLaunches]
          /\ flags' \in [Node -> SUBSET {"applied", "error"}] /\ stop' \in BOOLEAN
          /\ launches' \in 0..MaxLaunches /\ crashes' \in 0..launches'
        BY DEF IInv, TypeOK
    <2>2. node' \in [Node -> Metadata]
        BY DEF Keeps
    <2> QED BY <2>1, <2>2 DEF TypeOK, Metadata, End
<1>2. Control'
    <2>1. launches # 0
        BY DEF IInv, Control, TypeOK
    <2> QED BY <2>1, CaseStays DEF Control, End, Passes
<1>3. Resulted' = {}
    BY NothingResulted DEF End
<1>4. Batches'
    BY <1>3 DEF Batches, End, Passes
<1>5. Deepest'
    BY <1>3, CaseStays, ListsStay DEF IInv, Deepest, Waits, End
<1>6. Modes'
    <2>1. launches' # 0
        BY PermissionsAssumption DEF IInv, Control, TypeOK
    <2> QED BY <2>1 DEF Keeps, Modes, End
<1>7. Standing'
    <2>1. \A r \in Restorable : "applied" \in flags[r] => Holds(r, case.member[r])'
        BY DEF Keeps
    <2>2. ASSUME On("linkTree"), NEW m \in case.stored, "applied" \in flags[m]
          PROVE  Holds(m, m)' \/ "error" \in flags[m]
        BY <2>2 DEF Keeps, IInv, Standing
    <2> QED BY <2>1, <2>2, CaseStays DEF Standing, End
<1>8. Causes'
    <2>1. TypeOK /\ launches' \in Nat /\ launches' >= launches
        BY PermissionsAssumption DEF IInv, TypeOK
    <2>2. \A r : Cause(r) => Cause(r)'
        BY <2>1, ReasonsStay
    <2> QED BY <2>2 DEF IInv, Causes, End
<1>9. Sidecars'
    <2>1. \A r : Beside(r)' = Beside(r)
        BY CaseStays DEF Beside, ShutEarly
    <2> QED BY <1>3, <2>1, CaseStays DEF IInv, Sidecars, Fresh, End
<1>10. Records'
    BY CaseStays DEF IInv, Records, End
<1> QED BY <1>1, <1>2, <1>4, <1>5, <1>6, <1>7, <1>8, <1>9, <1>10 DEF IInv

\* A kill loses what is in memory, and that alone.
LEMMA CrashSound == ASSUME IInv, Crash PROVE IInv'
<1>1. Keeps({})
    BY NodeKept DEF Crash, disk
<1>2. crashes' \in 0..launches /\ crashes' # 0 /\ crashes \in Nat
    BY PermissionsAssumption DEF IInv, TypeOK, Control, Crash
<1>3. errors' \subseteq Node /\ phase' = phase /\ phase = "permissions"
    BY DEF IInv, TypeOK, Control, Crash, tables
<1> QED BY <1>1, <1>2, <1>3, EndSound DEF Crash, disk, tables

\* check_between_files returns with the results of the batch dropped.
LEMMA StopSound == ASSUME IInv, Stop PROVE IInv'
<1>1. Keeps({})
    BY NodeKept DEF Stop, disk
<1>2. crashes' \in 0..launches /\ crashes' = crashes
    BY DEF IInv, TypeOK, Stop
<1>3. /\ errors' \subseteq Node /\ phase' = phase /\ phase = "permissions"
      /\ ~On("noErrors") => errors \cup drafts \subseteq errors'
    BY DEF IInv, TypeOK, Control, Stop, Exit
<1> QED BY <1>1, <1>2, <1>3, EndSound DEF Stop, Exit, disk, Control

-----------------------------------------------------------------------------
(* The steps of a process, one by one.                                     *)

\* The phase starts with nothing handled.
LEMMA InitSound == ASSUME Init PROVE IInv
<1>1. Resulted = {}
    BY NothingResulted DEF Init
<1>2. TypeOK
    <2>1. sidecars \in [Rows -> 0..MaxLaunches] /\ launches \in 0..MaxLaunches
          /\ crashes \in 0..launches
        BY PermissionsAssumption DEF Init
    <2>2. flags \in [Node -> SUBSET {"applied", "error"}]
        BY DEF Init
    <2>3. node \in [Node -> [owner: Members \cup {NULL}, time: Members \cup {"before", "now"},
                             mode: (Members \cup {NULL}) \X {"open", "archived", "changed"}]]
        BY DEF Init
    <2> QED BY <2>1, <2>2, <2>3 DEF Init, TypeOK
<1>3. \A r \in Rows : flags[r] = {} /\ sidecars[r] = 0
    BY RowsTyped DEF Init
<1>4. /\ pc = "off" /\ batch = {} /\ results = {} /\ owed = 0 /\ drafts = {}
      /\ phase = "permissions"
      /\ launches = 0
    BY DEF Init
<1>5. Control /\ Batches
    BY <1>1, <1>4 DEF Control, Batches, Passes
<1>6. Deepest
    <2>1. \A r \in Dirs : r \in Rows /\ case.above[r] \subseteq Rows
        BY <1>2, CaseTyped DEF Dirs
    <2> QED BY <1>1, <1>3, <1>4, <2>1 DEF Deepest
<1>7. Modes /\ Standing /\ Causes
    BY CaseTyped, RowsTyped, <1>2 DEF Init, Modes, Standing, Causes, Restorable
<1>8. Sidecars /\ Records
    <2>1. \A m \in case.stored : flags[m] = {}
        BY <1>2, CaseTyped, RowsTyped DEF Init
    <2> QED BY <1>1, <1>3, <1>4, <2>1 DEF Sidecars, Records, Fresh
<1> QED BY <1>2, <1>5, <1>6, <1>7, <1>8 DEF IInv

\* The signal handler sets its flag.
LEMMA SignalSound == ASSUME IInv, Signal PROVE IInv'
<1>1. TypeOK' /\ Resulted' = Resulted
    BY DEF IInv, TypeOK, Signal, Resulted, disk, tables
<1>2. Control' /\ Batches'
    BY <1>1, CaseStays, ListsStay DEF IInv, Control, Batches, Signal, disk, tables
<1>3. Deepest' /\ Modes'
    BY <1>1, CaseStays, ListsStay DEF IInv, Deepest, Waits, Modes, Signal, disk, tables
<1>4. Standing'
    <2>1. \A n, m : Holds(n, m)' = Holds(n, m)
        BY CaseStays DEF Holds, Signal, disk
    <2> QED BY <2>1, CaseStays DEF IInv, Standing, Signal, tables
<1>5. Causes'
    <2>1. \A r : Cause(r)' = Cause(r)
        BY CaseStays DEF Cause, ShutEarly, Signal
    <2> QED BY <2>1 DEF IInv, Causes, Signal, tables
<1>6. Sidecars'
    <2>1. \A r : Beside(r)' = Beside(r) /\ Fresh(r)' = Fresh(r)
        BY <1>1, CaseStays DEF Beside, Fresh, ShutEarly, Signal, disk, tables
    <2> QED BY <1>1, <2>1, CaseStays DEF IInv, Sidecars, Signal, disk, tables
<1>7. Records'
    BY CaseStays DEF IInv, Records, Signal, tables
<1> QED BY <1>1, <1>2, <1>3, <1>4, <1>5, <1>6, <1>7 DEF IInv

\* A process starts over with what is stored.
LEMMA LaunchSound == ASSUME IInv, Launch PROVE IInv'
<1>1. batch = {} /\ results = {} /\ owed = 0 /\ drafts = {} /\ pc = "off"
    BY DEF IInv, Control, Launch, Passes
<1>2. /\ batch' = {} /\ results' = {} /\ owed' = 0 /\ drafts' = {} /\ Resulted' = {}
      /\ pc' = IF On("linkTree") THEN "sources" ELSE "files"
      /\ launches \in Nat /\ launches' = launches + 1 /\ launches' \in 0..MaxLaunches
      /\ UNCHANGED <<case, node, sidecars, flags, errors, phase, crashes>>
    BY <1>1, NothingResulted, PermissionsAssumption DEF IInv, TypeOK, Launch, disk, tables
<1>3. TypeOK'
    <2>1. crashes' \in 0..launches'
        BY <1>2 DEF IInv, TypeOK
    <2>2. /\ pc' \in {"sources", "files"} /\ outcome' = "none" /\ stop' = FALSE
        BY <1>2 DEF Launch
    <2> QED BY <1>2, <2>1, <2>2 DEF IInv, TypeOK
<1>4. Control' /\ Batches'
    <2>1. crashes < launches'
        BY <1>2 DEF IInv, TypeOK
    <2>2. phase' = "permissions"
        BY <1>2 DEF Launch
    <2> QED BY <1>2, <2>1, <2>2, CaseStays DEF Control, Batches, Passes
<1>5. Deepest'
    BY <1>2, CaseStays, ListsStay DEF IInv, Deepest, Waits
<1>6. Modes'
    <2>1. launches' = 1 => launches = 0
        BY <1>2
    <2>2. \A d \in Dirs : d \in Node
        BY RowsTyped DEF Dirs
    <2> QED BY <1>2, <2>1, <2>2, CaseStays DEF IInv, Modes
<1>7. Standing'
    <2>1. \A n, m : Holds(n, m)' = Holds(n, m)
        BY <1>2, CaseStays DEF Holds
    <2> QED BY <1>2, <2>1, CaseStays DEF IInv, Standing
<1>8. \A d, q : ShutEarly(d, q) => ShutEarly(d, q)'
    BY <1>2, ReasonsStay DEF IInv
<1>9. Causes'
    <2>1. \A r : Cause(r) => Cause(r)'
        BY <1>2, ReasonsStay DEF IInv
    <2> QED BY <1>2, <2>1 DEF IInv, Causes
<1>10. Sidecars'
    <2>1. \A r : Beside(r) => Beside(r)'
        BY <1>2, <1>8, CaseStays DEF Beside
    <2>2. sidecars \in [Rows -> Nat]
        BY PermissionsAssumption DEF IInv, TypeOK
    <2> QED BY <1>1, <1>2, <2>1, <2>2, CaseStays DEF IInv, Sidecars
<1>11. Records'
    BY <1>1, <1>2, CaseStays DEF IInv, Records
<1> QED BY <1>3, <1>4, <1>5, <1>6, <1>7, <1>9, <1>10, <1>11 DEF IInv

\* What a step means that only moves on, or takes a batch.
LEMMA NextBatchIs ==
    ASSUME IInv, NextBatch
    PROVE  /\ batch = {} /\ results = {} /\ owed = 0 /\ owed' = 0 /\ results' = {}
           /\ Resulted = {} /\ Resulted' = {} /\ pc \in Passes
           /\ UNCHANGED <<case, node, sidecars, flags, errors, phase, drafts, stop, outcome,
                          launches, crashes>>
           /\ \/ /\ batch' = {} /\ pc' \in {"links", "dirs", "flush"}
                 /\ pc' = "links" => pc = "sources" /\ PendingSources = {}
                 /\ pc' # "links" => pc # "sources"
                 /\ pc' = "dirs" => \/ pc = "files" /\ PendingFiles = {}
                                    \/ /\ pc = "links"
                                       /\ SidecarMode = "always" => PendingLinks = {}
              \/ /\ pc' = pc /\ batch' \subseteq Listed(pc)
                 /\ pc = "links" => SidecarMode = "always"
                 /\ pc = "dirs" => batch' = FirstBatch(PendingDirs, Sooner)
<1>1. /\ batch = {} /\ results = {} /\ owed = 0 /\ owed' = 0 /\ results' = {}
      /\ Resulted = {} /\ Resulted' = {}
      /\ UNCHANGED <<case, node, sidecars, flags, errors, phase, drafts, stop, outcome,
                     launches, crashes>>
    BY NothingResulted DEF NextBatch, disk, tables
<1>2. CASE pc = "sources"
    BY <1>1, <1>2 DEF NextBatch, Listed, Passes
<1>3. CASE pc = "links"
    <2>1. FirstBatch(PendingLinks, ById) \subseteq PendingLinks
        BY DEF FirstBatch
    <2> QED BY <1>1, <1>3, <2>1 DEF NextBatch, Listed, Passes, AfterPass
<1>4. CASE pc = "files"
    <2>1. FirstBatch(PendingFiles, Sooner) \subseteq PendingFiles
        BY DEF FirstBatch
    <2> QED BY <1>1, <1>4, <2>1 DEF NextBatch, Listed, Passes, AfterPass
<1>5. CASE pc = "dirs"
    <2>1. FirstBatch(PendingDirs, Sooner) \subseteq PendingDirs
        BY DEF FirstBatch
    <2> QED BY <1>1, <1>5, <2>1 DEF NextBatch, Listed, Passes, AfterPass
<1> QED BY <1>2, <1>3, <1>4, <1>5 DEF NextBatch

\* A batch is taken, or the next pass begins.
LEMMA NextBatchSound == ASSUME IInv, NextBatch PROVE IInv'
<1>1. TypeOK'
    <2>1. Listed(pc) \subseteq Node
        BY ListsTyped, CaseTyped, RowsTyped DEF IInv, Listed
    <2> QED BY NextBatchIs, <2>1 DEF IInv, TypeOK, Passes
<1>2. Control'
    BY NextBatchIs, CaseStays DEF IInv, Control, Passes
<1>3. Batches'
    <2>1. TypeOK /\ PendingDirs \subseteq Rows
        BY ListsTyped DEF IInv
    <2>2. ASSUME pc' = "dirs", NEW d \in batch', NEW q \in PendingDirs, Sooner(q, d)
          PROVE  q \in batch'
        <3>1. batch' = FirstBatch(PendingDirs, Sooner)
            BY <2>2, NextBatchIs
        <3>2. d \in FirstBatch(PendingDirs, Sooner) => q \in FirstBatch(PendingDirs, Sooner)
            BY <2>1, <2>2, BatchClosed
        <3> QED BY <2>2, <3>1, <3>2
    <2> QED BY <2>2, NextBatchIs, ListsStay, CaseStays DEF Batches, Passes
<1>4. Deepest'
    BY NextBatchIs, ListsStay, CaseStays DEF IInv, Deepest, Control
<1>5. Modes'
    BY NextBatchIs, CaseStays DEF IInv, Modes, Passes
<1>6. Standing'
    <2>1. \A n, m : Holds(n, m)' = Holds(n, m)
        BY NextBatchIs, CaseStays DEF Holds
    <2>2. pc' \notin {"off", "sources"} => pc \notin {"off", "sources"} \/ PendingSources = {}
        BY NextBatchIs DEF Passes
    <2>3. PendingSources = {} => \A m \in case.stored : flags[m] # {}
        BY ListsTyped DEF IInv
    <2> QED BY <2>1, <2>2, <2>3, NextBatchIs, CaseStays DEF IInv, Standing
<1>7. Causes'
    <2>1. \A r : Cause(r)' = Cause(r)
        BY NextBatchIs, CaseStays DEF Cause, ShutEarly
    <2> QED BY <2>1, NextBatchIs DEF IInv, Causes
<1>8. Sidecars'
    <2>1. \A r : Beside(r)' = Beside(r)
        BY NextBatchIs, CaseStays DEF Beside, ShutEarly
    <2> QED BY <2>1, NextBatchIs, CaseStays DEF IInv, Sidecars, Fresh, Passes
<1>9. Records'
    BY NextBatchIs, CaseStays DEF IInv, Records
<1> QED BY <1>1, <1>2, <1>3, <1>4, <1>5, <1>6, <1>7, <1>8, <1>9 DEF IInv

\* A list never grows.
LEMMA ListsShrink ==
    ASSUME TypeOK, case' = case, \A n \in Node : flags[n] # {} => flags'[n] # {}
    PROVE  /\ PendingLinks = {} => PendingLinks' = {}
           /\ PendingFiles = {} => PendingFiles' = {}
<1>1. Untouched' \subseteq Untouched
    BY DEF Untouched
<1> QED BY <1>1, CaseStays DEF PendingLinks, PendingFiles

\* The flags of a batch are stored in one transaction.
LEMMA IngestSound == ASSUME IInv, Ingest PROVE IInv'
<1>1. /\ batch = {} /\ batch' = {} /\ owed = 0 /\ owed' = 0 /\ results' = {} /\ Resulted' = {}
      /\ pc \in Passes /\ pc' = pc /\ results # {}
      /\ UNCHANGED <<case, node, sidecars, errors, phase, drafts, stop, outcome, launches, crashes>>
    BY NothingResulted DEF IInv, Control, Ingest, disk
<1>2. \A n \in Node :
         /\ "applied" \in flags'[n] <=> "applied" \in flags[n] \/ <<n, TRUE>> \in results
         /\ "error" \in flags'[n] <=> "error" \in flags[n] \/ <<n, FALSE>> \in results
    BY DEF Ingest
<1>3. /\ flags \in [Node -> SUBSET {"applied", "error"}]
      /\ flags' \in [Node -> SUBSET {"applied", "error"}]
    BY DEF IInv, TypeOK, Ingest
<1>4. \A n \in Node : flags'[n] = {} <=> flags[n] = {} /\ n \notin Resulted
    <2> SUFFICES ASSUME NEW n \in Node PROVE flags'[n] = {} <=> flags[n] = {} /\ n \notin Resulted
        OBVIOUS
    <2>1. flags'[n] = {} <=> "applied" \notin flags'[n] /\ "error" \notin flags'[n]
        BY <1>3
    <2>2. flags[n] = {} <=> "applied" \notin flags[n] /\ "error" \notin flags[n]
        BY <1>3
    <2> QED BY <1>2, <2>1, <2>2 DEF Resulted
<1>5. TypeOK'
    BY <1>1, <1>3 DEF IInv, TypeOK
<1>6. Control' /\ Batches'
    BY <1>1, CaseStays DEF IInv, Control, Batches
<1>7. Deepest'
    <2>1. \A r \in Dirs : r \in Node /\ case.above[r] \subseteq Node
        BY CaseTyped, RowsTyped DEF IInv, Dirs
    <2>2. ASSUME NEW d \in Dirs, d \in Resulted PROVE pc = "dirs"
        BY <1>1, <2>2, ListsTyped, CaseTyped, RowsTyped DEF IInv, Batches, Listed, Passes
    <2>3. PendingFiles = {} => PendingFiles' = {}
        BY <1>1, <1>4, ListsShrink DEF IInv
    <2>4. PendingLinks = {} => PendingLinks' = {}
        BY <1>1, <1>4, ListsShrink DEF IInv
    <2> QED BY <1>1, <1>4, <2>1, <2>2, <2>3, <2>4, CaseStays DEF IInv, Deepest
<1>8. Modes'
    <2>1. \A d \in Dirs : d \in Node
        BY RowsTyped DEF Dirs
    <2> QED BY <1>1, <1>4, <2>1, CaseStays DEF IInv, Modes
<1>9. \A r \in Rows : r \in Node
    BY RowsTyped
<1>10. \A m \in case.stored : m \in Node
    BY CaseTyped, RowsTyped DEF IInv
<1>11. Standing'
    <2>1. \A n, m : Holds(n, m)' = Holds(n, m)
        BY <1>1, CaseStays DEF Holds
    <2>2. phase = "permissions"
        BY <1>1 DEF IInv, Control, Passes
    <2>3. \A r \in Restorable : r \in Node
        BY <1>9 DEF Restorable
    <2> QED BY <1>1, <1>2, <1>3, <1>10, <2>1, <2>2, <2>3, CaseStays DEF IInv, Standing
<1>12. Causes'
    <2>1. \A r : Cause(r)' = Cause(r)
        BY <1>1, CaseStays DEF Cause, ShutEarly
    <2> QED BY <1>1, <1>2, <1>9, <2>1 DEF IInv, Causes
<1>13. Sidecars'
    <2>1. \A r : Beside(r)' = Beside(r)
        BY <1>1, CaseStays DEF Beside, ShutEarly
    <2>2. 0 \notin Rows
        BY RowsTyped
    <2> QED BY <1>1, <1>2, <1>4, <1>9, <2>1, <2>2, CaseStays DEF IInv, Sidecars, Fresh
<1>14. Records'
    BY <1>1, <1>2, <1>9, <1>10, CaseStays DEF IInv, Records
<1> QED BY <1>5, <1>6, <1>7, <1>8, <1>11, <1>12, <1>13, <1>14 DEF IInv

\* The end of the phase touches nothing but the flags of members.
LEMMA FinishSound == ASSUME IInv, Finish PROVE IInv'
<1>1. /\ pc \in {"flush", "applied", "erred"} /\ pc' \in {"applied", "erred", "verify"}
      /\ batch = {} /\ results = {} /\ owed = 0 /\ batch' = {} /\ results' = {} /\ owed' = 0
      /\ Resulted = {} /\ Resulted' = {}
      /\ UNCHANGED <<case, node, sidecars, phase, stop, outcome, launches, crashes>>
    BY NothingResulted DEF IInv, Control, Finish, disk, Passes
<1>2. /\ pc \in {"applied", "erred"} => drafts = {}
      /\ errors' = errors \cup drafts /\ drafts' = {}
    BY DEF IInv, Control, Finish
<1>3. /\ flags \in [Node -> SUBSET {"applied", "error"}]
      /\ flags' \in [Node -> SUBSET {"applied", "error"}]
    BY DEF IInv, TypeOK, Finish
<1>4. \A r \in Rows : flags'[r] = flags[r]
    BY <1>3, RowsTyped DEF Finish, AppliedMembers, ErredMembers
<1>5. \A m \in Members : /\ flags[m] \subseteq flags'[m]
                         /\ "error" \in flags'[m] => "error" \in flags[m] \/ m \in ErredMembers
    BY <1>3, RowsTyped DEF Finish
<1>6. TypeOK'
    BY <1>1, <1>2, <1>3 DEF IInv, TypeOK
<1>7. Control' /\ Batches'
    BY <1>1, <1>2, CaseStays DEF IInv, Control, Batches, Passes
<1>8. Deepest'
    <2>1. \A r \in Dirs : r \in Rows /\ case.above[r] \subseteq Rows
        BY CaseTyped DEF IInv, Dirs
    <2>2. \A n \in Node : flags[n] # {} => flags'[n] # {}
        BY <1>4, <1>5 DEF Node
    <2>3. PendingFiles = {} => PendingFiles' = {}
        BY <1>1, <2>2, ListsShrink DEF IInv
    <2>4. PendingLinks = {} => PendingLinks' = {}
        BY <1>1, <2>2, ListsShrink DEF IInv
    <2> QED BY <1>1, <1>4, <2>1, <2>3, <2>4, CaseStays DEF IInv, Deepest
<1>9. Modes'
    BY <1>1, <1>4, CaseStays DEF IInv, Modes, Dirs
<1>10. case.stored \subseteq Members
    BY CaseTyped DEF IInv
<1>11. Standing'
    <2>1. \A n, m : Holds(n, m)' = Holds(n, m)
        BY <1>1, CaseStays DEF Holds
    <2>2. phase = "permissions"
        BY <1>1 DEF IInv, Control
    <2>3. ASSUME On("linkTree"), NEW m \in case.stored
          PROVE  flags'[m] # {} /\ ("applied" \in flags'[m] => Holds(m, m) \/ "error" \in flags'[m])
        <3>1. /\ flags[m] # {} /\ flags[m] \subseteq flags'[m]
              /\ flags[m] \subseteq {"applied", "error"}
            BY <1>1, <1>3, <1>5, <1>10, <2>3, RowsTyped DEF IInv, Standing
        <3> QED BY <2>3, <3>1 DEF IInv, Standing
    <2> QED BY <1>1, <1>4, <2>1, <2>2, <2>3, CaseStays DEF IInv, Standing, Restorable
<1>12. Causes'
    <2>1. \A r : Cause(r)' = Cause(r)
        BY <1>1, CaseStays DEF Cause, ShutEarly
    <2> QED BY <1>1, <1>4, <2>1 DEF IInv, Causes
<1>13. Sidecars'
    <2>1. \A r : Beside(r)' = Beside(r)
        BY <1>1, CaseStays DEF Beside, ShutEarly
    <2> QED BY <1>1, <1>4, <2>1, CaseStays DEF IInv, Sidecars, Fresh
<1>14. Records'
    <2> SUFFICES ASSUME crashes = 0, ~On("noErrors"), On("linkTree"),
                        NEW m \in case.stored, m \in ErredMembers
                 PROVE  m \in errors \cup drafts
        BY <1>1, <1>2, <1>4, <1>5, <1>10, CaseStays DEF IInv, Records
    <2>1. PICK r \in RowsOf(m) : "error" \in flags[r]
        BY DEF ErredMembers
    <2>2. r \in Rows /\ case.member[r] = m /\ r \notin Dirs /\ case.source[m] = m
        BY <2>1, CaseTyped DEF IInv, RowsOf, Placed, Dirs
    <2>3. Subject(r) \in errors \cup drafts
        BY <2>1, <2>2 DEF IInv, Records
    <2> QED BY <2>2, <2>3 DEF Subject
<1> QED BY <1>6, <1>7, <1>8, <1>9, <1>11, <1>12, <1>13, <1>14 DEF IInv

\* The check of the phase lets it end only over rows with one flag each.
LEMMA VerifySound == ASSUME IInv, Verify PROVE IInv'
<1>1. /\ pc = "verify" /\ drafts = {} /\ crashes' = crashes /\ phase = "permissions"
      /\ phase' \in {"permissions", "cleanup"}
      /\ UNCHANGED <<case, node, sidecars, flags, stop, launches>>
    BY DEF IInv, Control, Verify, disk
<1>2. PICK how \in {"done", "panic"} : Exit(how, {})
    BY DEF Verify
<1>3. Keeps({}) /\ errors' = errors
    BY <1>1, <1>2, NodeKept DEF Exit
<1>4. ASSUME phase' = "cleanup", On("linkTree"), NEW m \in case.stored
      PROVE  "applied" \notin flags[m] \/ "error" \notin flags[m]
    <2>1. E10
        BY <1>1, <1>4 DEF Verify
    <2>2. Cardinality(flags[m]) = 1
        BY <1>4, <2>1 DEF E10
    <2>3. /\ flags[m] \in SUBSET ({"applied"} \cup {"error"})
          /\ IsFiniteSet({"applied"} \cup {"error"})
        <3>1. flags[m] \subseteq {"applied", "error"}
            BY CaseTyped, RowsTyped DEF IInv, TypeOK
        <3>2. IsFiniteSet({"applied"} \cup {"error"})
            BY FS_Singleton, FS_AddElement
        <3> QED BY <3>1, <3>2
    <2>4. \E x : flags[m] = {x}
        BY <2>2, <2>3, FS_Subset, FS_Singleton
    <2> QED BY <2>4
<1>5. crashes' \in 0..launches /\ errors' \subseteq Node
    BY <1>1, <1>3 DEF IInv, TypeOK
<1> QED BY <1>1, <1>2, <1>3, <1>4, <1>5, EndSound DEF Exit

-----------------------------------------------------------------------------
(* The work on a row.                                                      *)

\* What becomes of each inode.
LEMMA RestoredIs ==
    ASSUME TypeOK, NEW n, NEW l, NEW m \in Members \cup {NULL}, NEW of \in Members \cup {NULL},
           NEW done, "times" \in done => m \in Members,
           node' = Restored(n, l, m, of, done)
    PROVE  /\ node' \in [Node -> Metadata]
           /\ \A i \in Node :
                 /\ node'[i].owner = IF i = n /\ "owner" \in done THEN m ELSE node[i].owner
                 /\ node'[i].mode = IF i = l /\ "acls" \in done THEN <<of, "archived">>
                                    ELSE IF i = n /\ "mode" \in done
                                    THEN <<m, IF On("changes") THEN "changed" ELSE "archived">>
                                    ELSE node[i].mode
                 /\ node'[i].time = IF i = l /\ "times" \in done THEN m ELSE node[i].time
<1>1. node \in [Node -> Metadata]
    BY DEF TypeOK, Metadata
<1> QED BY <1>1 DEF Restored, Metadata

\* The recorder loses nothing.
LEMMA RecordIs ==
    ASSUME TypeOK, NEW S \in SUBSET Node, Record(S)
    PROVE  /\ errors' \subseteq Node /\ drafts' \subseteq Node
           /\ ~On("noErrors") => errors \cup drafts \cup S \subseteq errors' \cup drafts'
BY DEF TypeOK, Record

\* Nothing above a row that is ahead is handled, unless the root overtook the
\* row; and before the directories come no directory is.
LEMMA AboveUntouched ==
    ASSUME IInv, pc \in {"files", "links", "dirs"}, NEW r \in batch
    PROVE  /\ r \in Rows /\ flags[r] = {} /\ r \notin Resulted
           /\ \A d \in case.above[r] : Waits(d, r)
           /\ pc # "dirs" => r \notin Dirs /\ \A d \in Dirs : flags[d] = {} /\ d \notin Resulted
<1>1. TypeOK /\ r \in Listed(pc) /\ Resulted \subseteq Listed(pc) /\ r \notin Resulted
    BY DEF IInv, Batches, Passes
<1>2. r \in Rows /\ flags[r] = {}
    BY <1>1, ListsTyped DEF Listed
<1>3. \A d \in case.above[r] : d \in Dirs
    BY <1>1, <1>2, AboveSooner
<1>4. CASE pc = "dirs"
    <2>1. r \in Dirs
        BY <1>1, <1>4, ListsTyped DEF Listed
    <2> QED BY <1>1, <1>2, <1>4, <2>1 DEF IInv, Deepest, Waits
<1>5. CASE pc # "dirs"
    <2>1. r \notin Dirs /\ \A d \in Resulted : d \notin Dirs
        BY <1>1, <1>5, ListsTyped DEF Listed
    <2>2. IF pc = "links" THEN PendingLinks # {} /\ On("linkTree") /\ SidecarMode = "always"
                          ELSE PendingFiles # {} /\ ~On("linkTree")
        BY <1>1, <1>5 DEF IInv, Control, Listed
    <2>3. \A d \in Dirs : flags[d] = {}
        BY <2>2 DEF IInv, Deepest
    <2> QED BY <1>1, <1>2, <1>3, <1>5, <2>1, <2>3 DEF Waits
<1> QED BY <1>4, <1>5

\* A row that is out of reach for row s lies under a directory that was shut early.
LEMMA OutOfReach ==
    ASSUME IInv, pc # "off", NEW r \in Rows, NEW s, ~Reach(r), \A d \in case.above[r] : Waits(d, s)
    PROVE  \E d \in case.above[r] : ShutEarly(d, s)
<1>1. PICK d \in case.above[r] : Closed(d)
    BY DEF Reach
<1>2. d \in Dirs /\ d \in Rows
    BY AboveSooner DEF IInv, Dirs
<1>3. ~On("root") /\ node[d].mode[1] = case.member[d] /\ node[d].mode[2] = "archived"
      /\ case.member[d] \in case.closed
    BY <1>1, <1>2, CaseTyped, RowsTyped DEF IInv, Modes, Closed, Reach
<1>4. launches > 1 \/ launches = 1
    BY PermissionsAssumption DEF IInv, Control, TypeOK
<1>5. launches = 1 => (On("acls") /\ ClobberedBy(d) # {}) \/ Overtakes(d, s)
    BY <1>1, <1>2, <1>3 DEF IInv, Modes, Waits
<1> QED BY <1>1, <1>3, <1>4, <1>5 DEF ShutEarly

\* Listed rows have no flag.
LEMMA ListedUntouched ==
    ASSUME NEW p, NEW x \in Listed(p)
    PROVE  flags[x] = {}
BY DEF Listed, PendingSources, PendingLinks, PendingFiles, PendingDirs, Untouched

\* Some row x of the batch, or member, is handled; b tells that without errors.
LEMMA HandledSound ==
    ASSUME IInv, pc \in Passes, NEW x \in batch, NEW b \in BOOLEAN, owed = 0,
           UNCHANGED <<case, flags, phase, stop, outcome, launches, crashes, pc>>,
           batch' = batch \ {x}, results' = results \cup {<<x, b>>},
           pc = "dirs" => \A q \in batch \ {x} : Sooner(x, q),
           Keeps({x}),
           \A d \in Dirs \ {x} : node'[d].mode[2] = "archived" =>
              node[d].mode[2] = "archived" \/ (On("acls") /\ ClobberedBy(d) # {}),
           b = TRUE /\ x \in Restorable => Holds(x, case.member[x])',
           b = TRUE /\ x \in case.stored => Holds(x, x)',
           b = FALSE /\ x \in Rows => Cause(x),
           errors' \subseteq Node, drafts' \subseteq Node,
           ~On("noErrors") =>
              /\ errors \cup drafts \subseteq errors' \cup drafts'
              /\ b = FALSE /\ x \in Rows => Subject(x) \in errors' \cup drafts'
              /\ b = FALSE /\ x \in case.stored => x \in errors' \cup drafts',
           sidecars' \in [Rows -> Nat], \A q \in Rows \ {x} : sidecars'[q] = sidecars[q],
           \/ /\ owed' = x /\ sidecars' = sidecars /\ pc \in {"files", "dirs"}
              /\ case.member[x] # NULL /\ SidecarMode # "never"
           \/ /\ owed' = 0
              /\ x \in Rows => /\ sidecars'[x] \in {sidecars[x], sidecars[x] + 1}
                               /\ SidecarMode = "never" => sidecars'[x] = sidecars[x]
                               /\ case.member[x] # NULL
                                  /\ (\/ SidecarMode = "always"
                                      \/ SidecarMode = "onError" /\ b = FALSE)
                                  => Beside(x)'
    PROVE  IInv'
<1>1. /\ TypeOK /\ x \in Listed(pc) /\ x \notin Resulted /\ x \in Node /\ flags[x] = {}
      /\ pc # "off" /\ launches # 0
    <2>1. x \in Listed(pc) /\ x \notin Resulted /\ TypeOK /\ pc # "off"
        BY DEF IInv, Batches, Passes
    <2>2. x \in Node
        BY DEF IInv, TypeOK
    <2>3. flags[x] = {}
        BY <2>1, ListedUntouched
    <2>4. launches # 0
        BY <2>1, PermissionsAssumption DEF IInv, Control, TypeOK
    <2> QED BY <2>1, <2>2, <2>3, <2>4
<1>2. Resulted' = Resulted \cup {x}
    BY <1>1 DEF Resulted
<1>3. /\ \A r, c : r # x => (<<r, c>> \in results' <=> <<r, c>> \in results)
      /\ <<x, TRUE>> \in results' => b = TRUE
      /\ <<x, FALSE>> \in results' => b = FALSE
    BY <1>1 DEF Resulted
<1>4. x \in Rows => sidecars[x] < launches
    BY <1>1 DEF IInv, Sidecars, Fresh
<1>5. launches \in Nat /\ sidecars \in [Rows -> Nat] /\ 0 \notin Rows
    BY <1>1, PermissionsAssumption, RowsTyped DEF TypeOK
<1>6. \A q \in Rows : sidecars'[q] <= launches
    <2>1. \A q \in Rows : sidecars[q] <= launches
        BY DEF IInv, Sidecars
    <2>2. ASSUME x \in Rows PROVE sidecars'[x] \in {sidecars[x], sidecars[x] + 1}
        BY <2>2
    <2> QED BY <1>4, <1>5, <2>1, <2>2
<1>7. TypeOK'
    <2>1. sidecars' \in [Rows -> 0..MaxLaunches]
        BY <1>1, <1>5, <1>6, PermissionsAssumption DEF TypeOK
    <2>2. node' \in [Node -> Metadata]
        BY DEF Keeps
    <2>3. results' \subseteq Node \X BOOLEAN /\ batch' \subseteq Node
        BY <1>1 DEF TypeOK
    <2>4. owed' \in Rows \cup {0}
        BY <1>1, ListsTyped DEF Listed
    <2> QED BY <1>1, <2>1, <2>2, <2>3, <2>4 DEF TypeOK, Metadata
<1>8. Control'
    BY <1>1, <1>2, CaseStays DEF IInv, Control, Passes
<1>9. Batches'
    <2>1. batch' \cup Resulted' = batch \cup Resulted
        BY <1>2
    <2>2. batch' \cap Resulted' = {}
        BY <1>2 DEF IInv, Batches
    <2>3. batch' \subseteq Listed(pc) /\ Resulted' \subseteq Listed(pc)
        BY <1>1, <1>2 DEF IInv, Batches
    <2> QED BY <2>1, <2>2, <2>3, ListsStay, CaseStays DEF IInv, Batches
<1>10. Deepest'
    <2>1. ASSUME NEW r \in Dirs, NEW d \in case.above[r], ~Overtakes(d, r), d \in Resulted'
          PROVE  flags[r] # {} \/ r \in Resulted'
        <3>1. CASE d \in Resulted
            BY <1>2, <2>1, <3>1 DEF IInv, Deepest
        <3>2. CASE d = x
            <4>1. r \in Rows /\ d \in Dirs /\ d # r /\ Sooner(r, d)
                BY <1>1, <2>1, AboveSooner DEF Dirs
            <4>2. pc = "dirs"
                BY <1>1, <3>2, <4>1, ListsTyped, CaseTyped, RowsTyped DEF Listed, Passes, Dirs
            <4>3. flags[r] = {} => r \in batch \cup Resulted
                BY <1>1, <3>2, <4>1, <4>2, ListsTyped DEF IInv, Batches
            <4>4. r \notin batch
                <5> SUFFICES ASSUME r \in batch PROVE FALSE
                    OBVIOUS
                <5>1. Sooner(d, r) /\ d \in Rows
                    BY <3>2, <4>1, <4>2 DEF Dirs
                <5>2. Sooner(r, r)
                    BY <1>1, <4>1, <5>1, SoonerTransitive
                <5> QED BY <1>1, <4>1, <5>2, SoonerTotal
            <4> QED BY <1>2, <4>3, <4>4
        <3> QED BY <1>2, <2>1, <3>1, <3>2
    <2>2. ASSUME owed' = x, x # 0, NEW d \in case.above[x]
          PROVE  Overtakes(d, x) \/ (flags[d] = {} /\ d \notin Resulted')
        <3>1. pc \in {"files", "links", "dirs"}
            BY <1>1, <2>2, ListsTyped, CaseTyped DEF Passes
        <3>2. x \in Rows /\ Waits(d, x)
            BY <3>1, AboveUntouched
        <3> QED BY <1>1, <1>2, <3>2, AboveSooner DEF Waits
    <2> QED BY <2>1, <2>2, CaseStays, ListsStay DEF IInv, Deepest, Waits
<1>11. Modes'
    BY <1>1, <1>2, CaseStays DEF IInv, Modes, Keeps
<1>12. Standing'
    <2>1. \A r \in Restorable : "applied" \in flags[r] \/ <<r, TRUE>> \in results'
                                => Holds(r, case.member[r])'
        <3>1. ASSUME x \in Restorable, "applied" \in flags[x] \/ <<x, TRUE>> \in results'
              PROVE  Holds(x, case.member[x])'
            <4>1. b = TRUE
                BY <1>1, <1>3, <3>1
            <4> QED BY <3>1, <4>1
        <3>2. ASSUME NEW r \in Restorable \ {x}, "applied" \in flags[r] \/ <<r, TRUE>> \in results'
              PROVE  Holds(r, case.member[r])'
            BY <1>3, <3>2 DEF Keeps
        <3> QED BY <3>1, <3>2
    <2>2. ASSUME On("linkTree"), NEW m \in case.stored
          PROVE  /\ <<m, TRUE>> \in results' => Holds(m, m)'
                 /\ "applied" \in flags[m] => Holds(m, m)' \/ "error" \in flags[m]
        <3>1. CASE m = x
            <4>1. "applied" \notin flags[m] /\ (<<m, TRUE>> \in results' => b = TRUE)
                BY <1>1, <1>3, <3>1
            <4> QED BY <2>2, <3>1, <4>1
        <3>2. CASE m # x
            BY <1>3, <2>2, <3>2 DEF IInv, Standing, Keeps
        <3> QED BY <3>1, <3>2
    <2> QED BY <1>1, <2>1, <2>2, CaseStays DEF IInv, Standing
<1>13. \A d, q : ShutEarly(d, q)' = ShutEarly(d, q)
    BY CaseStays DEF ShutEarly
<1>14. Causes'
    <2>1. \A r : Cause(r)' = Cause(r)
        BY <1>13, CaseStays DEF Cause
    <2> QED BY <2>1 DEF IInv, Causes
<1>15. Sidecars'
    <2>1. \A r \in Rows \ {x} : Beside(r)' = Beside(r)
        BY <1>13, CaseStays DEF Beside
    <2>2. ASSUME NEW r \in Rows, r # x
          PROVE  /\ SidecarMode = "always" /\ case.member[r] # NULL
                    /\ (flags[r] # {} \/ (r \in Resulted' /\ r # owed')) => Beside(r)'
                 /\ SidecarMode = "onError" /\ case.member[r] # NULL
                    /\ ("error" \in flags[r] \/ (<<r, FALSE>> \in results' /\ r # owed'))
                    => Beside(r)'
                 /\ SidecarMode = "never" => sidecars'[r] = 0
                 /\ Fresh(r)' => sidecars'[r] < launches
        BY <1>1, <1>2, <1>5, <2>1, <2>2 DEF IInv, Sidecars, Fresh
    <2>3. ASSUME x \in Rows
          PROVE  /\ SidecarMode = "always" /\ case.member[x] # NULL
                    /\ (flags[x] # {} \/ (x \in Resulted' /\ x # owed')) => Beside(x)'
                 /\ SidecarMode = "onError" /\ case.member[x] # NULL
                    /\ ("error" \in flags[x] \/ (<<x, FALSE>> \in results' /\ x # owed'))
                    => Beside(x)'
                 /\ SidecarMode = "never" => sidecars'[x] = 0
                 /\ Fresh(x)' => sidecars'[x] < launches
        <3>1. SidecarMode = "never" => sidecars[x] = 0
            BY <2>3 DEF IInv, Sidecars
        <3>2. x \in Resulted' /\ x # 0 /\ "error" \notin flags[x]
            BY <1>1, <1>2, <1>5, <2>3
        <3>3. CASE owed' = x
            BY <1>1, <1>4, <2>3, <3>1, <3>2, <3>3
        <3>4. CASE owed' # x
            <4>1. /\ SidecarMode = "never" => sidecars'[x] = sidecars[x]
                  /\ case.member[x] # NULL
                     /\ (SidecarMode = "always" \/ (SidecarMode = "onError" /\ b = FALSE))
                     => Beside(x)'
                BY <2>3, <3>4
            <4>2. Fresh(x)' => sidecars'[x] < launches
                BY <3>2, <3>4 DEF Fresh
            <4>3. flags[x] = {} /\ (<<x, FALSE>> \in results' => b = FALSE)
                BY <1>1, <1>3
            <4>4. /\ SidecarMode = "always" /\ case.member[x] # NULL
                     /\ (flags[x] # {} \/ (x \in Resulted' /\ x # owed')) => Beside(x)'
                  /\ SidecarMode = "onError" /\ case.member[x] # NULL
                     /\ ("error" \in flags[x] \/ (<<x, FALSE>> \in results' /\ x # owed'))
                     => Beside(x)'
                BY <3>2, <4>1, <4>3
            <4>5. SidecarMode = "never" => sidecars'[x] = 0
                BY <3>1, <4>1
            <4> QED BY <4>2, <4>4, <4>5
        <3> QED BY <3>3, <3>4
    <2>4. \A r \in Rows : /\ SidecarMode = "always" /\ case.member[r] # NULL
                             /\ (flags[r] # {} \/ (r \in Resulted' /\ r # owed')) => Beside(r)'
                          /\ SidecarMode = "onError" /\ case.member[r] # NULL
                             /\ ("error" \in flags[r] \/ (<<r, FALSE>> \in results' /\ r # owed'))
                             => Beside(r)'
                          /\ SidecarMode = "never" => sidecars'[r] = 0
                          /\ Fresh(r)' => sidecars'[r] < launches
        BY <2>2, <2>3
    <2> QED BY <1>6, <2>4, CaseStays DEF Sidecars
<1>16. Records'
    BY CaseStays DEF IInv, Records
<1> QED BY <1>7, <1>8, <1>9, <1>10, <1>11, <1>12, <1>14, <1>15, <1>16 DEF IInv

\* A sidecar beside x touches the time of a directory that is not handled yet,
\* or of the root.
LEMMA SidecarKeeps ==
    ASSUME IInv, case' = case, NEW x \in Rows, SidecarBeside(x),
           case.member[x] # NULL, SidecarMode # "never",
           \A d \in case.above[x] : Waits(d, x)
    PROVE  /\ Keeps({}) /\ \A n \in Node : node'[n].mode = node[n].mode
           /\ sidecars' \in [Rows -> Nat] /\ sidecars'[x] = sidecars[x] + 1
           /\ \A q \in Rows \ {x} : sidecars'[q] = sidecars[q]
<1>1. node \in [Node -> Metadata] /\ sidecars \in [Rows -> Nat]
    BY PermissionsAssumption DEF IInv, TypeOK, Metadata
<1>2. /\ node' \in [Node -> Metadata]
      /\ \A n \in Node : /\ node'[n].mode = node[n].mode /\ node'[n].owner = node[n].owner
                         /\ n \notin ParentOf(x) => node'[n].time = node[n].time
    BY <1>1 DEF SidecarBeside, Metadata
<1>3. ParentOf(x) \subseteq case.above[x] /\ case.above[x] \subseteq Dirs
    BY AboveSooner DEF IInv, ParentOf
<1>4. \A n, m : n \in Node /\ n \notin ParentOf(x) => Holds(n, m)' = Holds(n, m)
    BY <1>2, CaseStays DEF Holds
<1>5. ASSUME NEW r \in Restorable, "applied" \in flags[r] \/ <<r, TRUE>> \in results
      PROVE  Holds(r, case.member[r])'
    <2>1. r \in Node /\ Holds(r, case.member[r]) /\ case'.member = case.member
        BY <1>5, RowsTyped DEF IInv, Standing, Restorable
    <2>2. CASE r \notin ParentOf(x)
        BY <1>4, <2>1, <2>2
    <2>3. CASE r \in ParentOf(x)
        <3>1. Overtakes(r, x)
            BY <1>3, <1>5, <2>1, <2>3 DEF Waits, Resulted
        <3>2. Disturbed(r)
            BY <3>1 DEF Disturbed, Overtakes
        <3> QED BY <1>2, <2>1, <3>2, CaseStays DEF Holds
    <2> QED BY <2>2, <2>3
<1>6. ASSUME NEW m \in case.stored PROVE Holds(m, m)' = Holds(m, m)
    BY <1>3, <1>4, CaseTyped, RowsTyped DEF IInv, Dirs
<1>7. \A r \in Rows : node'[r].mode[1] \in {NULL, case.member[r]}
    BY <1>2, RowsTyped DEF IInv, Modes
<1>8. Keeps({})
    BY <1>2, <1>5, <1>6, <1>7 DEF Keeps
<1>9. sidecars' = [sidecars EXCEPT ![x] = @ + 1]
    BY DEF SidecarBeside
<1> QED BY <1>1, <1>2, <1>8, <1>9

\* A sidecar of a link, in the passes of --link-tree.
LEMMA SidecarOfLinkSound == ASSUME IInv, SidecarOfLink PROVE IInv'
<1>1. /\ pc = "links" /\ batch # {} /\ pc \in Passes /\ owed = 0 /\ owed' = 0
      /\ UNCHANGED <<case, flags, phase, stop, outcome, launches, crashes, pc>>
    BY DEF IInv, Control, SidecarOfLink, Passes
<1>2. TypeOK /\ batch \subseteq Rows /\ On("linkTree") /\ SidecarMode = "always"
    BY <1>1, AboveUntouched DEF IInv, Control
<1>3. PICK x \in batch : /\ batch' = batch \ {x}
                         /\ results' = results \cup {<<x, CanClaim(x)>>}
                         /\ CanClaim(x) => SidecarBeside(x) /\ UNCHANGED <<drafts, errors>>
                         /\ ~CanClaim(x) => /\ Record({case.source[case.member[x]]})
                                            /\ UNCHANGED <<node, sidecars>>
    <2> DEFINE x == FirstOf(batch, ById)
    <2>1. x \in batch
        BY <1>1, <1>2, FirstIsIn
    <2>2. CASE CanClaim(x)
        BY <2>1, <2>2 DEF SidecarOfLink
    <2>3. CASE ~CanClaim(x)
        BY <2>1, <2>3 DEF SidecarOfLink, disk
    <2> QED BY <2>2, <2>3
<1>4. x \in Rows /\ x \notin Dirs /\ x \notin Members /\ x # 0
    BY <1>1, AboveUntouched, RowsTyped
<1>5. \A d \in case.above[x] : Waits(d, x)
    BY <1>1, AboveUntouched
<1>6. case.member[x] # NULL /\ case.source[case.member[x]] \in case.stored
    BY <1>1, <1>2, ListsTyped DEF IInv, Batches, Listed
<1>7. x \notin Restorable /\ x \notin case.stored
    BY <1>2, <1>4, CaseTyped DEF Restorable
<1>8. CASE CanClaim(x)
    <2>1. results' = results \cup {<<x, TRUE>>} /\ SidecarBeside(x) /\ UNCHANGED <<drafts, errors>>
        BY <1>3, <1>8
    <2>2. /\ Keeps({}) /\ \A n \in Node : node'[n].mode = node[n].mode
          /\ sidecars' \in [Rows -> Nat] /\ sidecars'[x] = sidecars[x] + 1
          /\ \A q \in Rows \ {x} : sidecars'[q] = sidecars[q]
        BY <1>1, <1>2, <1>4, <1>5, <1>6, <2>1, SidecarKeeps
    <2>3. Keeps({x}) /\ \A d \in Dirs : d \in Node
        BY <2>2, RowsTyped DEF Keeps, Dirs
    <2>4. Beside(x)'
        <3>1. sidecars[x] \in Nat
            BY <1>2, <1>4, PermissionsAssumption DEF TypeOK
        <3> QED BY <2>2, <3>1 DEF Beside
    <2>5. errors' \subseteq Node /\ drafts' \subseteq Node
        BY <1>2, <2>1 DEF TypeOK
    <2> QED BY <1>1, <1>2, <1>3, <1>4, <1>7, <2>1, <2>2, <2>3, <2>4, <2>5, HandledSound
<1>9. CASE ~CanClaim(x)
    <2> DEFINE c == CanClaim(x)
    <2>0. c = FALSE
        BY <1>9 DEF CanClaim
    <2>1. /\ results' = results \cup {<<x, FALSE>>} /\ UNCHANGED <<node, sidecars>>
          /\ Record({case.source[case.member[x]]})
        BY <1>3, <2>0
    <2>2. x \in case.crowded \/ \E d \in case.above[x] : ShutEarly(d, x)
        BY <1>1, <1>4, <1>5, <1>9, OutOfReach DEF CanClaim
    <2>3. Cause(x) /\ Beside(x)'
        BY <1>1, <1>2, <2>2, CaseStays DEF Cause, Beside, ShutEarly
    <2>4. Subject(x) = case.source[case.member[x]]
        BY <1>2, <1>4 DEF Subject
    <2>5. /\ errors' \subseteq Node /\ drafts' \subseteq Node
          /\ ~On("noErrors") => errors \cup drafts \cup {Subject(x)} \subseteq errors' \cup drafts'
        <3>1. {case.source[case.member[x]]} \in SUBSET Node
            BY <1>2, <1>6, CaseTyped, RowsTyped
        <3> QED BY <1>2, <2>1, <2>4, <3>1, RecordIs
    <2>6. Keeps({x})
        <3>1. Keeps({})
            BY <1>1, <2>1, NodeKept
        <3> QED BY <3>1 DEF Keeps
    <2>7. sidecars' \in [Rows -> Nat]
        BY <1>2, <2>1, PermissionsAssumption DEF TypeOK
    <2> QED BY <1>1, <1>2, <1>3, <1>4, <1>7, <2>1, <2>3, <2>5, <2>6, <2>7, HandledSound
<1> QED BY <1>8, <1>9

\* A payload of the link source is handled.
LEMMA ApplySourceSound == ASSUME IInv, ApplySource PROVE IInv'
<1> DEFINE tried(m) == TriedOn(m, FALSE, TRUE)
           failed(m) == Failing(m, tried(m), TRUE, TRUE)
<1>1. PICK m \in batch :
         /\ node' = Restored(m, m, m, m, tried(m) \ failed(m))
         /\ failed(m) # {} /\ On("failFast") => Exit("error", {m})
         /\ ~(failed(m) # {} /\ On("failFast")) =>
               /\ results' = results \cup {<<m, failed(m) = {}>>}
               /\ batch' = batch \ {m}
               /\ Record(IF failed(m) = {} THEN {} ELSE {m})
               /\ UNCHANGED <<pc, owed, outcome>>
    BY DEF ApplySource
<1>2. /\ pc = "sources" /\ pc \in Passes /\ owed = 0 /\ pc # "off" /\ On("linkTree") /\ TypeOK
      /\ UNCHANGED <<case, sidecars, flags, phase, stop, launches, crashes>>
    BY DEF IInv, Control, ApplySource, Passes
<1>3. m \in case.stored /\ m \in Members /\ m \notin Rows /\ m \in Node /\ flags[m] = {} /\ m # NULL
    <2>1. batch \subseteq Listed(pc)
        BY <1>2 DEF IInv, Batches
    <2>2. Listed(pc) = PendingSources
        BY <1>2 DEF Listed
    <2>3. m \in case.stored /\ flags[m] = {}
        BY <1>2, <2>1, <2>2, ListsTyped
    <2> QED BY <1>2, <2>3, CaseTyped, RowsTyped
<1> HIDE DEF failed, tried
<1>4. /\ node' \in [Node -> Metadata]
      /\ \A i \in Node : i # m => node'[i] = node[i]
      /\ failed(m) = {} => Holds(m, m)'
    <2> DEFINE done == tried(m) \ failed(m)
    <2>0. /\ node' = Restored(m, m, m, m, done)
          /\ \A p \in {"owner", "mode", "acls", "times"} : failed(m) = {} => (On(p) <=> p \in done)
        BY <1>1, <1>3 DEF tried, TriedOn
    <2> HIDE DEF done
    <2>1. /\ node' \in [Node -> Metadata]
          /\ \A i \in Node :
                /\ node'[i].owner = IF i = m /\ "owner" \in done THEN m ELSE node[i].owner
                /\ node'[i].mode = IF i = m /\ "acls" \in done THEN <<m, "archived">>
                                   ELSE IF i = m /\ "mode" \in done
                                   THEN <<m, IF On("changes") THEN "changed" ELSE "archived">>
                                   ELSE node[i].mode
                /\ node'[i].time = IF i = m /\ "times" \in done THEN m ELSE node[i].time
        BY <1>2, <1>3, <2>0, RestoredIs
    <2>2. node \in [Node -> Metadata]
        BY <1>2 DEF TypeOK, Metadata
    <2>3. \A i \in Node : i # m => node'[i] = node[i]
        BY <2>1, <2>2 DEF Metadata
    <2>4. ASSUME failed(m) = {} PROVE Holds(m, m)'
        <3>1. /\ On("owner") => node'[m].owner = m
              /\ On("mode") => node'[m].mode = <<m, IF On("changes") /\ ~On("acls")
                                                    THEN "changed" ELSE "archived">>
              /\ On("times") => node'[m].time = m
            <4>1. /\ "owner" \in done => node'[m].owner = m
                  /\ node'[m].mode = IF "acls" \in done THEN <<m, "archived">>
                                     ELSE IF "mode" \in done
                                     THEN <<m, IF On("changes") THEN "changed" ELSE "archived">>
                                     ELSE node[m].mode
                  /\ "times" \in done => node'[m].time = m
                BY <1>3, <2>1
            <4>2. /\ On("owner") => "owner" \in done
                  /\ On("mode") => "mode" \in done
                  /\ On("times") => "times" \in done
                  /\ On("acls") <=> "acls" \in done
                BY <2>0, <2>4
            <4> QED BY <4>1, <4>2
        <3> QED BY <1>2, <3>1 DEF Holds, On
    <2> QED BY <2>1, <2>3, <2>4
<1>5. Keeps({m})
    <2>1. \A i \in Node : \A k : i # m => Holds(i, k)' = Holds(i, k)
        BY <1>2, <1>4, CaseStays DEF Holds
    <2>2. \A r \in Rows : node'[r].mode[1] \in {NULL, case.member[r]}
        BY <1>3, <1>4, RowsTyped DEF IInv, Modes
    <2>3. ASSUME NEW r \in Restorable \ {m}, "applied" \in flags[r] \/ <<r, TRUE>> \in results
          PROVE  Holds(r, case.member[r])'
        <3>1. r \in Node
            BY RowsTyped DEF Restorable
        <3>2. Holds(r, case.member[r])
            BY <2>3 DEF IInv, Standing
        <3>3. Holds(r, case.member[r])'
            BY <1>2, <1>4, <2>3, <3>1, <3>2, CaseStays DEF Holds
        <3> QED BY <3>3
    <2>4. case.stored \subseteq Node
        BY <1>2, CaseTyped, RowsTyped
    <2>5. ASSUME NEW k \in case.stored \ {m}, Holds(k, k) PROVE Holds(k, k)'
        BY <2>1, <2>4, <2>5
    <2> QED BY <1>4, <2>2, <2>3, <2>5 DEF Keeps
<1>6. CASE failed(m) # {} /\ On("failFast")
    <2>1. /\ Exit("error", {m}) /\ {m} \in SUBSET Node
          /\ phase' = phase /\ phase = "permissions" /\ crashes' = crashes
        BY <1>1, <1>2, <1>3, <1>6 DEF IInv, Control
    <2>2. /\ errors' \subseteq Node /\ crashes \in 0..launches
          /\ ~On("noErrors") => errors \cup drafts \subseteq errors'
        BY <1>2, <1>3, <2>1 DEF Exit, TypeOK
    <2> QED BY <1>2, <1>3, <1>5, <2>1, <2>2, EndSound DEF Exit
<1>7. CASE ~(failed(m) # {} /\ On("failFast"))
    <2> DEFINE b == failed(m) = {}
               S == IF failed(m) = {} THEN {} ELSE {m}
    <2>1. /\ results' = results \cup {<<m, b>>} /\ batch' = batch \ {m} /\ Record(S)
          /\ UNCHANGED <<pc, owed, outcome>> /\ b \in BOOLEAN /\ S \in SUBSET Node
        BY <1>1, <1>3, <1>7
    <2>2. /\ b = TRUE => Holds(m, m)'
          /\ b = FALSE => m \in S
        BY <1>4
    <2> HIDE DEF b, S
    <2>3. /\ errors' \subseteq Node /\ drafts' \subseteq Node
          /\ ~On("noErrors") => errors \cup drafts \cup S \subseteq errors' \cup drafts'
        BY <1>2, <2>1, RecordIs
    <2>4. \A d \in Dirs : d # m /\ node'[d] = node[d]
        BY <1>3, <1>4, RowsTyped DEF Dirs
    <2>5. sidecars' \in [Rows -> Nat]
        BY <1>2, PermissionsAssumption DEF TypeOK
    <2>6. m \notin Restorable
        BY <1>3 DEF Restorable
    <2>7. ~On("noErrors") => /\ errors \cup drafts \subseteq errors' \cup drafts'
                             /\ b = FALSE => m \in errors' \cup drafts'
        BY <2>2, <2>3
    <2> QED BY <1>2, <1>3, <1>5, <2>1, <2>2, <2>3, <2>4, <2>5, <2>6, <2>7, HandledSound
<1> QED BY <1>6, <1>7

\* A row is handled: what a symlink leads to changes too, but nothing that is
\* handled and not excepted.
LEMMA ApplyRowSound == ASSUME IInv, ApplyRow PROVE IInv'
<1> DEFINE m(r) == case.member[r]
           lead(r) == Followed(r)
           at(r) == IF lead(r) = 0 THEN 0 ELSE case.canon[lead(r)]
           of(r) == IF lead(r) = 0 THEN m(r) ELSE case.member[case.canon[lead(r)]]
           tried(r) == TriedOn(m(r), case.kind[r] = "symlink", lead(r) # 0)
           failed(r) == Failing(m(r), tried(r),
                                Reach(r) /\ (lead(r) # 0 => Reach(lead(r))), lead(r) # 0)
           wanted(r) == \/ SidecarMode = "always"
                        \/ SidecarMode = "onError" /\ failed(r) # {}
<1>1. /\ pc \in {"files", "dirs"} /\ pc \in Passes /\ pc # "off" /\ owed = 0 /\ TypeOK
      /\ batch # {} /\ crashes < launches /\ phase = "permissions"
      /\ (pc = "files" => ~On("linkTree"))
      /\ UNCHANGED <<case, sidecars, flags, phase, stop, launches, crashes>>
    BY DEF IInv, Control, ApplyRow, Passes
<1>2. PICK r \in batch :
         /\ \A q \in batch \ {r} : Sooner(r, q)
         /\ node' = Restored(r, at(r), m(r), of(r), tried(r) \ failed(r))
         /\ failed(r) # {} /\ On("failFast") => Exit("error", {r, m(r)})
         /\ ~(failed(r) # {} /\ On("failFast")) =>
               /\ results' = results \cup {<<r, failed(r) = {}>>}
               /\ batch' = batch \ {r}
               /\ owed' = IF wanted(r) /\ m(r) # NULL THEN r ELSE 0
               /\ Record(IF failed(r) = {} THEN {} ELSE {r, m(r)})
               /\ UNCHANGED <<pc, outcome>>
    <2>1. batch \subseteq Rows
        BY <1>1, AboveUntouched
    <2>2. /\ FirstOf(batch, Sooner) \in batch
          /\ \A q \in batch \ {FirstOf(batch, Sooner)} : Sooner(FirstOf(batch, Sooner), q)
        BY <1>1, <2>1, FirstIsIn
    <2> QED BY <2>2 DEF ApplyRow
<1>3. /\ r \in Rows /\ r \in Node /\ r # 0 /\ r \notin Members /\ flags[r] = {} /\ r \notin Resulted
      /\ m(r) \in Members \cup {NULL} /\ r \notin case.stored
      /\ \A d \in case.above[r] : Waits(d, r)
      /\ pc = "files" => r \notin Dirs /\ \A d \in Dirs : flags[d] = {} /\ d \notin Resulted
    BY <1>1, AboveUntouched, RowsTyped, CaseTyped
<1>4. case.canon[r] = r /\ (pc = "dirs" => case.kind[r] = "dir")
    <2>1. r \in Listed(pc)
        BY <1>1 DEF IInv, Batches
    <2>2. CASE pc = "files"
        <3>1. Listed(pc) = PendingFiles
            BY <2>2 DEF Listed
        <3> QED BY <1>1, <2>1, <2>2, <3>1, ListsTyped
    <2>3. CASE pc = "dirs"
        <3>1. Listed(pc) = PendingDirs
            BY <2>3 DEF Listed
        <3>2. case.kind[r] = "dir"
            BY <1>1, <2>1, <3>1, ListsTyped DEF Dirs
        <3> QED BY <1>1, <1>3, <3>2, CaseTyped DEF Placed
    <2> QED BY <1>1, <2>2, <2>3
<1> DEFINE l == lead(r)
           n == at(r)
<1>5. /\ l \in Rows \cup {0} /\ n \in Rows \cup {0} /\ of(r) \in Members \cup {NULL}
      /\ case.kind[r] # "symlink" => l = r /\ n = r /\ of(r) = m(r)
      /\ l = 0 => n = 0
      /\ l # 0 => /\ n \in Rows /\ n = case.canon[l] /\ of(r) = case.member[n]
                  /\ case.kind[r] = "symlink" => ClobberedBy(n) # {}
      /\ case.kind[r] = "symlink" => pc = "files" /\ ~On("linkTree")
    <2>1. /\ case.leads \in [Rows -> Rows \cup {0}] /\ case.canon \in [Rows -> Rows]
          /\ case.member \in [Rows -> Members \cup {NULL}]
        BY <1>1, CaseTyped
    <2>2. case.kind[r] = "symlink" => pc = "files" /\ ~On("linkTree")
        BY <1>1, <1>4
    <2>3. l # 0 /\ case.kind[r] = "symlink" => r \in ClobberedBy(case.canon[l])
        BY <1>3 DEF ClobberedBy, Followed
    <2> QED BY <1>3, <1>4, <2>1, <2>2, <2>3 DEF Followed
<1>6. /\ failed(r) # {} => m(r) \in Members
      /\ \A p \in tried(r) : On(p) /\ m(r) # NULL
      /\ m(r) # NULL /\ failed(r) = {} /\ case.kind[r] # "symlink" =>
            \A p \in {"owner", "mode", "acls", "times"} : On(p) <=> p \in tried(r) \ failed(r)
    <2>1. \A p \in tried(r) : On(p) /\ m(r) # NULL
        BY DEF TriedOn
    <2>2. \A p \in failed(r) : p \in tried(r)
        BY DEF Failing
    <2>3. ASSUME m(r) # NULL, failed(r) = {}, case.kind[r] # "symlink",
                 NEW p \in {"owner", "mode", "acls", "times"}
          PROVE  On(p) <=> p \in tried(r) \ failed(r)
        BY <1>3, <1>5, <2>3 DEF TriedOn
    <2> QED BY <1>3, <2>1, <2>2, <2>3
<1> DEFINE done == tried(r) \ failed(r)
<1>7. /\ node' \in [Node -> Metadata]
      /\ \A i \in Node :
            /\ node'[i].owner = IF i = r /\ "owner" \in done THEN m(r) ELSE node[i].owner
            /\ node'[i].mode = IF i = n /\ "acls" \in done THEN <<of(r), "archived">>
                               ELSE IF i = r /\ "mode" \in done
                               THEN <<m(r), IF On("changes") THEN "changed" ELSE "archived">>
                               ELSE node[i].mode
            /\ node'[i].time = IF i = n /\ "times" \in done THEN m(r) ELSE node[i].time
    <2>1. "times" \in done => m(r) \in Members
        BY <1>3, <1>6
    <2>2. node' = Restored(r, n, m(r), of(r), done)
        BY <1>2
    <2> HIDE DEF done, n, of, m
    <2> QED BY <1>1, <1>3, <1>5, <2>1, <2>2, RestoredIs
<1>8. "acls" \in done => On("acls")
    BY <1>6
<1> HIDE DEF done, n, l, of, m, lead, at, tried, failed, wanted
<1>9. \A q \in Rows : node'[q].mode[1] \in {NULL, case.member[q]}
    <2>1. ASSUME NEW q \in Rows PROVE node'[q].mode[1] \in {NULL, case.member[q]}
        <3>1. node[q].mode[1] \in {NULL, case.member[q]} /\ q \in Node /\ q # 0
            BY RowsTyped DEF IInv, Modes
        <3>2. q = n => of(r) = case.member[q]
            BY <1>5, <3>1
        <3>3. q = r => m(r) = case.member[q]
            BY DEF m
        <3> QED BY <1>7, <3>1, <3>2, <3>3
    <2> QED BY <2>1
<1>10. Keeps({r})
    <2>1. \A i \in Node : \A k : i # r /\ i # n /\ Holds(i, k) => Holds(i, k)'
        BY <1>1, <1>7, CaseStays DEF Holds
    <2>2. ASSUME NEW q \in Restorable \ {r}, "applied" \in flags[q] \/ <<q, TRUE>> \in results
          PROVE  Holds(q, case.member[q])'
        <3>1. q \in Node /\ q \in Rows /\ q # 0
            BY RowsTyped DEF Restorable
        <3>2. Holds(q, case.member[q])
            BY <2>2 DEF IInv, Standing
        <3>3. CASE q # n
            <4>1. \A k : Holds(q, k) => Holds(q, k)'
                BY <2>1, <2>2, <3>1, <3>3
            <4>2. case'.member = case.member
                BY <1>1
            <4> QED BY <3>2, <4>1, <4>2
        <3>4. CASE q = n
            <4>1. n \in Rows /\ of(r) = case.member[q] /\ pc = "files" /\ ClobberedBy(q) # {}
                BY <1>5, <2>2, <3>1, <3>4
            <4>2. q \notin Dirs
                BY <1>3, <2>2, <3>1, <4>1 DEF Resulted
            <4>3. /\ node'[q].owner = node[q].owner
                  /\ node'[q].mode = node[q].mode
                     \/ (On("acls") /\ node'[q].mode = <<case.member[q], "archived">>)
                BY <1>7, <1>8, <2>2, <3>1, <4>1
            <4>4. Dirs' = Dirs /\ ClobberedBy(q)' = ClobberedBy(q)
                BY <1>1, CaseStays
            <4> QED BY <1>1, <3>2, <4>1, <4>2, <4>3, <4>4 DEF Holds, On
        <3> QED BY <3>3, <3>4
    <2>3. ASSUME On("linkTree"), NEW k \in case.stored, Holds(k, k) PROVE Holds(k, k)'
        <3>1. k \in Node /\ k # r /\ k # n
            BY <1>1, <1>3, <1>5, <2>3, CaseTyped, RowsTyped
        <3> QED BY <2>1, <2>3, <3>1
    <2> QED BY <1>7, <1>9, <2>2, <2>3 DEF Keeps
<1>11. \A d \in Dirs \ {r} : node'[d].mode[2] = "archived" =>
          node[d].mode[2] = "archived" \/ (On("acls") /\ ClobberedBy(d) # {})
    <2>1. ASSUME NEW d \in Dirs \ {r}, node'[d].mode[2] = "archived"
          PROVE  node[d].mode[2] = "archived" \/ (On("acls") /\ ClobberedBy(d) # {})
        <3>1. d \in Node /\ d # 0
            BY <2>1, RowsTyped DEF Dirs
        <3>2. node'[d].mode = node[d].mode \/ (d = n /\ On("acls"))
            BY <1>7, <1>8, <2>1, <3>1
        <3>3. d = n => ClobberedBy(d) # {}
            BY <1>5, <2>1, <3>1
        <3> QED BY <2>1, <3>2, <3>3
    <2> QED BY <2>1
<1>12. failed(r) = {} /\ r \in Restorable => Holds(r, case.member[r])'
    <2> SUFFICES ASSUME failed(r) = {}, r \in Restorable PROVE Holds(r, case.member[r])'
        OBVIOUS
    <2>1. n = r /\ of(r) = m(r) /\ m(r) # NULL /\ case.kind[r] # "symlink" /\ m(r) = case.member[r]
        BY <1>5 DEF Restorable, m
    <2>2. /\ On("owner") <=> "owner" \in done
          /\ On("mode") <=> "mode" \in done
          /\ On("times") <=> "times" \in done
          /\ On("acls") <=> "acls" \in done
        BY <1>6, <2>1 DEF done
    <2>3. /\ "owner" \in done => node'[r].owner = m(r)
          /\ node'[r].mode = IF "acls" \in done THEN <<m(r), "archived">>
                             ELSE IF "mode" \in done
                             THEN <<m(r), IF On("changes") THEN "changed" ELSE "archived">>
                             ELSE node[r].mode
          /\ "times" \in done => node'[r].time = m(r)
        BY <1>3, <1>7, <2>1
    <2>4. /\ On("owner") => node'[r].owner = case.member[r]
          /\ On("mode") => node'[r].mode = <<case.member[r], IF On("changes") /\ ~On("acls")
                                                            THEN "changed" ELSE "archived">>
          /\ On("times") => node'[r].time = case.member[r]
        BY <2>1, <2>2, <2>3
    <2> QED BY <1>1, <2>4 DEF Holds, On
<1>13. failed(r) # {} => Cause(r)
    <2>1. ASSUME ~Reach(r) PROVE \E d \in case.above[r] : ShutEarly(d, r)
        BY <1>1, <1>3, <2>1, OutOfReach
    <2>2. ASSUME l # 0, ~Reach(l) PROVE \E d \in case.above[l] : ShutEarly(d, r)
        <3>1. CASE l = r
            BY <2>1, <2>2, <3>1
        <3>2. CASE l # r
            <4>1. l \in Rows /\ \A d \in case.above[l] : d \in Dirs
                BY <1>1, <1>5, <2>2, AboveSooner
            <4>2. pc = "files"
                BY <1>5, <3>2
            <4> QED BY <1>1, <1>3, <2>2, <4>1, <4>2, OutOfReach DEF Waits
        <3> QED BY <3>1, <3>2
    <2>3. l = Followed(r) /\ m(r) = case.member[r]
        BY DEF l, lead, m
    <2>4. ASSUME NEW p \in failed(r)
          PROVE  \/ ~(Reach(r) /\ (l # 0 => Reach(l)))
                 \/ Owes(m(r), case.kind[r] = "symlink", l # 0)
        <3>1. On(p) /\ (l = 0 => case.kind[r] = "symlink")
            BY <1>3, <1>5, <1>6, <2>4 DEF failed, Failing
        <3> QED BY <2>4, <3>1 DEF failed, Failing, Owes, l
    <2> QED BY <2>1, <2>2, <2>3, <2>4 DEF Cause
<1>14. CASE failed(r) # {} /\ On("failFast")
    <2>1. /\ Exit("error", {r, m(r)}) /\ {r, m(r)} \subseteq Node
          /\ phase' = phase /\ crashes' = crashes
        BY <1>1, <1>2, <1>3, <1>6, <1>14, RowsTyped
    <2>2. /\ errors' \subseteq Node /\ crashes \in 0..launches
          /\ ~On("noErrors") => errors \cup drafts \subseteq errors'
        BY <1>1, <2>1 DEF Exit, TypeOK
    <2>3. {r} \in SUBSET Node /\ \A x \in {r} : flags[x] = {}
        BY <1>3
    <2> QED BY <1>1, <1>10, <2>1, <2>2, <2>3, EndSound DEF Exit
<1>15. CASE ~(failed(r) # {} /\ On("failFast"))
    <2> DEFINE b == failed(r) = {}
               S == IF failed(r) = {} THEN {} ELSE {r, m(r)}
    <2>1. /\ results' = results \cup {<<r, b>>} /\ batch' = batch \ {r} /\ Record(S)
          /\ UNCHANGED <<pc, outcome>> /\ b \in BOOLEAN /\ S \in SUBSET Node
          /\ owed' = IF wanted(r) /\ m(r) # NULL THEN r ELSE 0
        BY <1>2, <1>3, <1>6, <1>15, RowsTyped
    <2>2. /\ b = TRUE /\ r \in Restorable => Holds(r, case.member[r])'
          /\ b = FALSE => Cause(r) /\ r \in S
        BY <1>12, <1>13
    <2>3. owed' = r => m(r) # NULL /\ SidecarMode # "never"
        BY <1>3, <2>1 DEF wanted
    <2>4. owed' # r => /\ owed' = 0
                       /\ m(r) # NULL =>
                          ~(SidecarMode = "always" \/ (SidecarMode = "onError" /\ b = FALSE))
        BY <2>1 DEF wanted
    <2> HIDE DEF b, S
    <2>5. /\ errors' \subseteq Node /\ drafts' \subseteq Node
          /\ ~On("noErrors") => errors \cup drafts \cup S \subseteq errors' \cup drafts'
        BY <1>1, <2>1, RecordIs
    <2>6. sidecars' \in [Rows -> Nat]
        BY <1>1, PermissionsAssumption DEF TypeOK
    <2>7. Subject(r) = r
        BY <1>1, <1>3, <1>4 DEF Subject, Dirs
    <2>8. ~On("noErrors") => /\ errors \cup drafts \subseteq errors' \cup drafts'
                             /\ b = FALSE => Subject(r) \in errors' \cup drafts'
        BY <2>2, <2>5, <2>7
    <2>9. m(r) = case.member[r]
        BY DEF m
    <2>10. CASE owed' = r
        BY <1>1, <1>2, <1>3, <1>10, <1>11, <2>1, <2>2, <2>3, <2>5, <2>6, <2>8, <2>9, <2>10,
           HandledSound
    <2>11. CASE owed' # r
        BY <1>1, <1>2, <1>3, <1>10, <1>11, <2>1, <2>2, <2>4, <2>5, <2>6, <2>8, <2>9, <2>11,
           HandledSound
    <2> QED BY <2>10, <2>11
<1> QED BY <1>14, <1>15

\* The sidecar that a handled row is owed.
LEMMA WriteSidecarSound == ASSUME IInv, WriteSidecar PROVE IInv'
<1>0. PICK r : r = owed
    OBVIOUS
<1>1. /\ r # 0 /\ pc \in {"files", "dirs"} /\ r \in Resulted /\ TypeOK /\ owed' = 0
      /\ case.member[r] # NULL /\ SidecarMode # "never" /\ crashes < launches
      /\ UNCHANGED <<case, flags, phase, pc, batch, results, stop, outcome, launches, crashes>>
      /\ Resulted' = Resulted
    BY <1>0 DEF IInv, Control, WriteSidecar, Resulted
<1>2. /\ r \in Rows /\ r \in Node /\ flags[r] = {}
      /\ \A d \in case.above[r] : Waits(d, r)
    <2>1. r \in Rows
        BY <1>0, <1>1 DEF TypeOK
    <2>2. r \in Listed(pc)
        BY <1>1 DEF IInv, Batches, Passes
    <2> QED BY <1>0, <1>1, <2>1, <2>2, ListedUntouched, RowsTyped DEF IInv, Deepest
<1>3. /\ Keeps({}) /\ \A i \in Node : node'[i].mode = node[i].mode
      /\ sidecars' \in [Rows -> Nat] /\ \A q \in Rows \ {r} : sidecars'[q] = sidecars[q]
      /\ sidecars'[r] \in {sidecars[r], sidecars[r] + 1}
      /\ Beside(r)'
      /\ errors' \subseteq Node /\ drafts' \subseteq Node
      /\ ~On("noErrors") => errors \cup drafts \subseteq errors' \cup drafts'
    <2>1. sidecars \in [Rows -> Nat]
        BY <1>1, PermissionsAssumption DEF TypeOK
    <2>2. CASE CanClaim(r)
        <3>1. SidecarBeside(r) /\ UNCHANGED <<drafts, errors>>
            BY <1>0, <2>2 DEF WriteSidecar
        <3>2. /\ Keeps({}) /\ \A i \in Node : node'[i].mode = node[i].mode
              /\ sidecars' \in [Rows -> Nat] /\ sidecars'[r] = sidecars[r] + 1
              /\ \A q \in Rows \ {r} : sidecars'[q] = sidecars[q]
            BY <1>1, <1>2, <3>1, SidecarKeeps
        <3>3. sidecars'[r] > 0
            BY <1>2, <2>1, <3>2
        <3> QED BY <1>1, <3>1, <3>2, <3>3 DEF Beside, TypeOK
    <2>3. CASE ~CanClaim(r)
        <3>1. Record({r, case.member[r]}) /\ UNCHANGED <<node, sidecars>>
            BY <1>0, <2>3 DEF WriteSidecar, disk
        <3>2. Keeps({})
            BY <1>1, <3>1, NodeKept
        <3>3. {r, case.member[r]} \in SUBSET Node
            BY <1>1, <1>2, CaseTyped, RowsTyped
        <3>4. /\ errors' \subseteq Node /\ drafts' \subseteq Node
              /\ ~On("noErrors") => errors \cup drafts \subseteq errors' \cup drafts'
            BY <1>1, <3>1, <3>3, RecordIs
        <3>5. r \in case.crowded \/ \E d \in case.above[r] : ShutEarly(d, r)
            BY <1>1, <1>2, <2>3, OutOfReach DEF CanClaim
        <3>6. Beside(r)'
            BY <1>1, <3>5, CaseStays DEF Beside, ShutEarly
        <3> QED BY <2>1, <3>1, <3>2, <3>4, <3>6
    <2> QED BY <2>2, <2>3
<1>4. sidecars[r] < launches /\ launches \in Nat /\ sidecars \in [Rows -> Nat]
    <2>1. Fresh(r)
        <3>1. pc # "off" /\ flags[r] = {} /\ r = owed
            BY <1>0, <1>1, <1>2
        <3> QED BY <3>1 DEF Fresh
    <2>2. sidecars[r] < launches
        BY <1>2, <2>1 DEF IInv, Sidecars
    <2> QED BY <1>1, <2>2, PermissionsAssumption DEF TypeOK
<1>5. \A q \in Rows : sidecars'[q] <= launches
    <2>1. \A q \in Rows : sidecars[q] <= launches
        BY DEF IInv, Sidecars
    <2> QED BY <1>2, <1>3, <1>4, <2>1
<1>6. TypeOK'
    <2>1. sidecars' \in [Rows -> 0..MaxLaunches]
        BY <1>1, <1>3, <1>4, <1>5, PermissionsAssumption DEF TypeOK
    <2>2. node' \in [Node -> Metadata]
        BY <1>3 DEF Keeps
    <2> QED BY <1>1, <1>3, <2>1, <2>2 DEF TypeOK, Metadata
<1>7. Control'
    BY <1>1, CaseStays DEF IInv, Control, Passes
<1>8. Batches'
    BY <1>1, ListsStay, CaseStays DEF IInv, Batches
<1>9. Deepest'
    BY <1>1, ListsStay, CaseStays DEF IInv, Deepest, Waits
<1>10. Modes'
    <2>1. \A d \in Dirs : d \in Node
        BY RowsTyped DEF Dirs
    <2> QED BY <1>1, <1>3, <2>1, CaseStays DEF IInv, Modes, Keeps
<1>11. Standing'
    <2>1. \A q \in Restorable : "applied" \in flags[q] \/ <<q, TRUE>> \in results
                                => Holds(q, case.member[q])'
        BY <1>3 DEF Keeps
    <2>2. On("linkTree") => \A k \in case.stored : Holds(k, k) => Holds(k, k)'
        BY <1>3 DEF Keeps
    <2> QED BY <1>1, <2>1, <2>2, CaseStays DEF IInv, Standing
<1>12. \A d, q : ShutEarly(d, q)' = ShutEarly(d, q)
    BY <1>1, CaseStays DEF ShutEarly
<1>13. Causes'
    <2>1. \A q : Cause(q)' = Cause(q)
        BY <1>1, <1>12, CaseStays DEF Cause
    <2> QED BY <1>1, <2>1 DEF IInv, Causes
<1>14. Sidecars'
    <2>1. \A q \in Rows \ {r} : Beside(q)' = Beside(q)
        BY <1>1, <1>3, <1>12 DEF Beside
    <2>2. ASSUME NEW q \in Rows, q # r
          PROVE  /\ SidecarMode = "always" /\ case.member[q] # NULL
                    /\ (flags[q] # {} \/ (q \in Resulted /\ q # 0)) => Beside(q)'
                 /\ SidecarMode = "onError" /\ case.member[q] # NULL
                    /\ ("error" \in flags[q] \/ (<<q, FALSE>> \in results /\ q # 0)) => Beside(q)'
                 /\ SidecarMode = "never" => sidecars'[q] = 0
                 /\ Fresh(q)' => sidecars'[q] < launches
        <3>1. /\ Beside(q)' = Beside(q) /\ sidecars'[q] = sidecars[q] /\ q # owed
              /\ Fresh(q)' => Fresh(q)
            BY <1>0, <1>1, <1>3, <2>1, <2>2, RowsTyped DEF Fresh
        <3> QED BY <3>1 DEF IInv, Sidecars
    <2>3. SidecarMode # "never" /\ Beside(r)' /\ ~Fresh(r)'
        BY <1>1, <1>2, <1>3 DEF Fresh
    <2>4. \A q \in Rows :
            /\ SidecarMode = "always" /\ case.member[q] # NULL
               /\ (flags[q] # {} \/ (q \in Resulted /\ q # 0)) => Beside(q)'
            /\ SidecarMode = "onError" /\ case.member[q] # NULL
               /\ ("error" \in flags[q] \/ (<<q, FALSE>> \in results /\ q # 0)) => Beside(q)'
            /\ SidecarMode = "never" => sidecars'[q] = 0
            /\ Fresh(q)' => sidecars'[q] < launches
        BY <2>2, <2>3
    <2> QED BY <1>1, <1>5, <2>4, CaseStays DEF Sidecars
<1>15. Records'
    BY <1>1, <1>3, CaseStays DEF IInv, Records
<1> QED BY <1>6, <1>7, <1>8, <1>9, <1>10, <1>11, <1>13, <1>14, <1>15 DEF IInv

\* Nothing happens.
LEMMA StutterSound == ASSUME IInv, UNCHANGED vars PROVE IInv'
<1>1. /\ UNCHANGED <<case, node, sidecars, flags, errors, phase, pc, batch, results, owed>>
      /\ UNCHANGED <<drafts, stop, outcome, launches, crashes>>
    BY DEF vars, disk, tables
<1>2. Resulted' = Resulted /\ (\A q : Fresh(q)' = Fresh(q)) /\ \A n, k : Holds(n, k)' = Holds(n, k)
    BY <1>1, CaseStays DEF Resulted, Fresh, Holds
<1>3. \A d, q : ShutEarly(d, q)' = ShutEarly(d, q)
    BY <1>1, CaseStays DEF ShutEarly
<1>4. \A q : Cause(q)' = Cause(q) /\ Beside(q)' = Beside(q)
    BY <1>1, <1>3, CaseStays DEF Cause, Beside
<1>5. TypeOK' /\ Control'
    <2>1. TypeOK'
        BY <1>1 DEF IInv, TypeOK
    <2>2. Control'
        BY <1>1, <1>2, CaseStays DEF IInv, Control
    <2> QED BY <2>1, <2>2
<1>6. Batches' /\ Deepest'
    BY <1>1, <1>2, CaseStays, ListsStay DEF IInv, Batches, Deepest, Waits
<1>7. Modes'
    BY <1>1, <1>2, CaseStays DEF IInv, Modes
<1>8. Standing'
    BY <1>1, <1>2, CaseStays DEF IInv, Standing
<1>9. Causes'
    BY <1>1, <1>4 DEF IInv, Causes
<1>10. Sidecars'
    BY <1>1, <1>2, <1>4, CaseStays DEF IInv, Sidecars
<1>11. Records'
    BY <1>1, CaseStays DEF IInv, Records
<1> QED BY <1>5, <1>6, <1>7, <1>8, <1>9, <1>10, <1>11 DEF IInv

\* Every step keeps the invariant.
LEMMA NextSound == ASSUME IInv, [Next]_vars PROVE IInv'
BY InitSound, LaunchSound, NextBatchSound, ApplyRowSound, WriteSidecarSound, ApplySourceSound,
   SidecarOfLinkSound, StopSound, IngestSound, FinishSound, VerifySound, SignalSound, CrashSound,
   StutterSound
   DEF Next, Step

-----------------------------------------------------------------------------
(* The theorems.                                                           *)

\* The inductive invariant holds in every state of a run.
THEOREM Invariance == Spec => []IInv
<1>1. Init => IInv
    BY InitSound
<1>2. IInv /\ [Next]_vars => IInv'
    BY NextSound
<1> QED BY <1>1, <1>2, PTL DEF Spec

\* Every variable has its type.
THEOREM TypeCorrect == Spec => []TypeOK
<1>1. IInv => TypeOK
    BY DEF IInv
<1> QED BY <1>1, Invariance, PTL

\* When the phase is done, what is flagged as applied carries the archived owner,
\* mode and time.
THEOREM MetadataIsRestored == Spec => []MetadataStands
<1>1. IInv => MetadataStands
    <2> SUFFICES ASSUME IInv, phase = "cleanup" PROVE MetadataStands
        BY DEF MetadataStands
    <2>1. ASSUME NEW r \in Rows, "applied" \in flags[r], case.member[r] # NULL,
                 case.kind[r] # "symlink", On("linkTree") => r \in Dirs
          PROVE  Holds(r, case.member[r])
        BY <2>1 DEF IInv, Standing, Restorable
    <2>2. ASSUME On("linkTree"), NEW m \in case.stored, "applied" \in flags[m]
          PROVE  Holds(m, m)
        BY <2>2 DEF IInv, Standing
    <2> QED BY <2>1, <2>2 DEF MetadataStands
<1> QED BY <1>1, Invariance, PTL

\* A row is flagged with an error only for a reason: of all orders of the work it
\* is only that of the root and the directories in it that can be one.
THEOREM ErrorsAreCaused == Spec => []ErrorsHaveCause
<1>1. IInv => ErrorsHaveCause
    BY DEF IInv, Causes, Cause, ErrorsHaveCause
<1> QED BY <1>1, Invariance, PTL

\* As long as no process is killed, each error flag has its record.
THEOREM RecordsAreKept == Spec => []RecordsTell
<1>1. IInv => RecordsTell
    BY DEF IInv, Records, RecordsTell
<1> QED BY <1>1, Invariance, PTL

\* A row that needs a sidecar has one when its flags are stored, and no more of
\* them than there were processes.
THEOREM SidecarsAreComplete == Spec => []SidecarsComplete
<1>1. IInv => SidecarsComplete
    <2> SUFFICES ASSUME IInv, NEW r \in Rows
                 PROVE  /\ /\ flags[r] # {} /\ case.member[r] # NULL
                           /\ \/ SidecarMode = "always"
                              \/ SidecarMode = "onError" /\ "error" \in flags[r]
                           => Beside(r)
                        /\ sidecars[r] <= (IF SidecarMode = "never" THEN 0 ELSE launches)
        BY DEF SidecarsComplete, Beside
    <2>1. /\ SidecarMode = "never" => sidecars[r] = 0
          /\ sidecars[r] <= launches
        BY DEF IInv, Sidecars
    <2>2. /\ SidecarMode = "always" /\ case.member[r] # NULL /\ flags[r] # {} => Beside(r)
          /\ SidecarMode = "onError" /\ case.member[r] # NULL /\ "error" \in flags[r] => Beside(r)
        BY DEF IInv, Sidecars
    <2> QED BY <2>1, <2>2
<1> QED BY <1>1, Invariance, PTL
=============================================================================
