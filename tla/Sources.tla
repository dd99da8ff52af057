------------------------------- MODULE Sources -------------------------------
(***************************************************************************)
(* The inventory over several sources (archive/inventory.rs, db/source.rs, *)
(* config/archive.rs): directories of the command line and lines of lists, *)
(* each walked (the walkdir crate) over a tree with symlinks and several   *)
(* file systems, into one table of names and the references that tell      *)
(* which source met which name.  Intake has the rest of the phase.         *)
(***************************************************************************)
EXTENDS Naturals, FiniteSets, SequencesExt

CONSTANTS
    Worlds,       \* [tree, unreadable, leaving, inputs, lists, opts]
    Undecodable,  \* names that are not UTF-8
    Stray,        \* a name that nothing has: a line with a stray end leads there
    MaxAttempts,  \* the command and the resumes after it
    MaxDepth,     \* how far below a root Exhaustive looks
    Nothing

Kinds == {"dir", "file", "link"}
Options == {"noRecursion", "dereference", "oneFileSystem", "noStrictSeparation",
            "failFast", "relaxUtf8", "null"}
Outcomes == {"refused", "overlap", "failed", "stopped", "done"}
Nodes == [kind: Kinds, target: Seq(STRING), dev: Nat]
Chunks == {"sep", "cr"} \cup Seq(STRING)  \* of a list: its two special bytes, and paths

ASSUME SourcesAssumption ==
    /\ \A w \in Worlds:
          /\ DOMAIN w.tree \subseteq Seq(STRING) /\ w.tree \in [DOMAIN w.tree -> Nodes]
          /\ <<>> \in DOMAIN w.tree /\ w.tree[<<>>].kind = "dir" /\ <<>> \notin w.leaving
          /\ \A p \in DOMAIN w.tree \ {<<>>}: w.tree[Front(p)].kind = "dir"
          /\ w.inputs \in Seq(Seq(STRING)) /\ w.lists \in Seq([stdin: BOOLEAN, buf: Seq(Chunks)])
          /\ w.opts \subseteq Options
    /\ MaxAttempts \in Nat \ {0} /\ MaxDepth \in Nat /\ Stray \in STRING
    /\ Nothing \notin Seq(STRING) \cup Nodes \cup Outcomes

VARIABLES
    world,    \* what was given, chosen once
    tree,     \* the file system: real path -> [kind, target, dev]
    sources,  \* the table source: [no, path, dir], no is <<0, place>> or <<list, line>>
    rows,     \* the table files: name -> kind
    refs,     \* the table ref: {<<source, name>>}
    errors,   \* the walk's errors in the table errors: {<<source, name>>}
    step, next, \* the step, and the place of its source in Given
    walk,     \* the walk: the names not met yet, a set for each directory open
    outcome,  \* one of Outcomes, or Nothing before
    attempts

tables == <<sources, rows, refs, errors>>
inventoryVars == <<world, tree, sources, rows, refs, errors, step, next, walk, outcome, attempts>>

Opt(o) == o \in world.opts

-----------------------------------------------------------------------------
(* The file system, which the kernel resolves.                             *)

MaxLinks == 4  \* links followed before a path counts as a cycle

\* What a name leads to over its links, or Nothing.
Follow(t, p) ==
    LET to[n \in 0 .. MaxLinks] ==
          IF n = 0 THEN p
          ELSE IF to[n - 1] \notin DOMAIN t THEN Nothing
          ELSE IF t[to[n - 1]].kind = "link" THEN t[to[n - 1]].target ELSE to[n - 1]
        end == to[MaxLinks]
    IN  IF end \in DOMAIN t /\ t[end].kind # "link" THEN end ELSE Nothing

\* The real path of a path, every link followed, or Nothing; the target of a link
\* is named by its real directory.
RealPath(t, path) ==
    LET real[n \in 0 .. Len(path)] ==
          IF n = 0 THEN <<>>
          ELSE IF real[n - 1] = Nothing THEN Nothing ELSE Follow(t, Append(real[n - 1], path[n]))
    IN  real[Len(path)]

\* The node a path names, the last link not followed, or Nothing (lstat).
Lstat(t, p) ==
    IF p = <<>> THEN t[<<>>]
    ELSE LET parent == RealPath(t, Front(p))
         IN  IF parent # Nothing /\ Append(parent, Last(p)) \in DOMAIN t
             THEN t[Append(parent, Last(p))] ELSE Nothing
IsDir(t, p) == LET q == RealPath(t, p) IN q # Nothing /\ t[q].kind = "dir"

Listing(t, p) ==
    LET q == RealPath(t, p)
    IN  {Append(p, Last(c)) : c \in {c \in DOMAIN t \ {<<>>} : Front(c) = q}}

Decodable(p) == \A i \in DOMAIN p: p[i] \notin Undecodable

-----------------------------------------------------------------------------
(* The walk: WalkDir with the options of handle_dir.                       *)

Above(root, p) == {SubSeq(p, 1, n) : n \in Len(root) .. Len(p) - 1}

\* Mutant: every link is followed, as with --dereference.
FollowedAlways(t, root, p) == Lstat(t, p).kind = "link"
\* Links are followed at the root, and everywhere with --dereference.
Followed(t, root, p) == Lstat(t, p).kind = "link" /\ (Opt("dereference") \/ p = root)

\* A name that is followed and leads nowhere, or back to a directory above, is
\* an error of the walk and not met; so is a root that is not there.
WalkFails(t, root, p) ==
    \/ p = root /\ Lstat(t, p) = Nothing
    \/ /\ Lstat(t, p) # Nothing /\ Followed(t, root, p)
       /\ \/ RealPath(t, p) = Nothing
          \/ \E q \in Above(root, p): RealPath(t, q) = RealPath(t, p)

\* A directory is read below the root down to the depth, and on the file
\* system of the root, if that is asked for.
Descends(t, root, p) ==
    /\ Lstat(t, p) # Nothing /\ ~WalkFails(t, root, p) /\ IsDir(t, p)
    /\ (Lstat(t, p).kind = "dir" \/ Followed(t, root, p))
    /\ Opt("noRecursion") => p = root
    /\ Opt("oneFileSystem") /\ p # root =>
          t[RealPath(t, p)].dev = t[RealPath(t, root)].dev

-----------------------------------------------------------------------------
(* Lists.                                                                  *)

\* The records of a list: what stands between two separators.
Records(buf) ==
    LET to[n \in 0 .. Len(buf)] ==
          IF n = 0 THEN <<<<>>>>
          ELSE IF buf[n] = "sep" THEN Append(to[n - 1], <<>>)
          ELSE Append(Front(to[n - 1]), Append(Last(to[n - 1]), buf[n]))
    IN  to[Len(buf)]

Stripped(text) == IF text # <<>> /\ Last(text) = "cr" THEN Front(text) ELSE text
\* A path, or one that nothing has when a stray end is left on it.
PathOf(text) == IF Len(text) = 1 /\ text[1] # "cr" THEN text[1] ELSE <<Stray>>

\* files_from_records, files_from_reader: the first takes a carriage return off
\* whatever the separator is.  An empty record counts, and is left out.
Texts(list, null) ==
    [n \in DOMAIN Records(list.buf) |->
        IF list.stdin /\ null THEN Records(list.buf)[n] ELSE Stripped(Records(list.buf)[n])]
Lines(texts, k) ==
    LET to[n \in 0 .. Len(texts)] ==
          IF n = 0 THEN <<>>
          ELSE IF texts[n] = <<>> THEN to[n - 1]
          ELSE Append(to[n - 1], [no |-> <<k, n>>, path |-> PathOf(texts[n])])
    IN  to[Len(texts)]

\* What is to be walked, in order: the directories, then the lines of each list.
GivenBy ==
    [w \in Worlds |->
        LET to[k \in 0 .. Len(w.lists)] ==
              IF k = 0 THEN [i \in DOMAIN w.inputs |-> [no |-> <<0, i>>, path |-> w.inputs[i]]]
              ELSE to[k - 1] \o Lines(Texts(w.lists[k], "null" \in w.opts), k)
        IN  to[Len(w.lists)]]
Given == GivenBy[world]
IsInput(g) == g.no[1] = 0

\* Mutant: only a directory below one that is there already.
OverlapBelow(a, b) == IF Opt("noRecursion") THEN a = b ELSE IsPrefix(a, b)
\* directory_roots_overlap, and find_overlapping_source over the table.
Overlap(a, b) == IF Opt("noRecursion") THEN a = b ELSE IsPrefix(a, b) \/ IsPrefix(b, a)

-----------------------------------------------------------------------------
(* The run.                                                                *)

InventoryInit ==
    /\ world \in Worlds /\ tree = world.tree
    /\ sources = <<>> /\ rows = <<>> /\ refs = {} /\ errors = {}
    /\ step = "config" /\ next = 0 /\ walk = <<>> /\ outcome = Nothing
    /\ attempts = 1

Listed == DOMAIN rows
Halt(result) == step' = "ended" /\ outcome' = result /\ walk' = <<>> /\ UNCHANGED next
Go(to) == step' = to /\ UNCHANGED outcome

\* ArchiveConfig::try_from: each directory is there and overlaps no earlier one.
Configure ==
    /\ step = "config"
    /\ LET ins == world.inputs
           bad == \E i \in DOMAIN ins:
                     \/ ~IsDir(tree, ins[i])
                     \/ /\ ~Opt("noStrictSeparation")
                        /\ \E j \in 1 .. i - 1: Overlap(ins[j], ins[i])
       IN  IF bad THEN Halt("refused") ELSE Go("enter") /\ UNCHANGED <<next, walk>>
    /\ UNCHANGED <<world, tree, tables, attempts>>

\* Rows of an earlier attempt are purged, and each has a reference that forbids
\* it.  The table of sources is left as it is.
Enter ==
    /\ step = "enter"
    /\ IF Listed # {} THEN Halt("failed")
       ELSE Go("source") /\ next' = 1 /\ UNCHANGED walk
    /\ UNCHANGED <<world, tree, tables, attempts>>

SourceOf(g, dir) == [no |-> g.no, path |-> g.path, dir |-> dir]
\* INSERT OR IGNORE under UNIQUE (source, abs_path_raw, line).
Added(s) ==
    IF \E i \in DOMAIN sources: sources[i].no = s.no /\ sources[i].path = s.path
    THEN sources ELSE Append(sources, s)

\* Mutant: a file above or below counts as well.
RefusedWhole(g) ==
    /\ ~IsInput(g) /\ IsDir(tree, g.path) /\ ~Opt("noStrictSeparation")
    /\ \E i \in DOMAIN sources: Overlap(sources[i].path, g.path)
\* A line that is a directory, against the directories of the table.
Refused(g) ==
    /\ ~IsInput(g) /\ IsDir(tree, g.path) /\ ~Opt("noStrictSeparation")
    /\ \E i \in DOMAIN sources: sources[i].dir /\ Overlap(sources[i].path, g.path)

\* The next source: run for a directory, handle_from_files_line for a line.
AddSource ==
    /\ step = "source" /\ next <= Len(Given)
    /\ LET g == Given[next]
       IN  IF ~Decodable(g.path) /\ ~Opt("relaxUtf8")
           THEN /\ IF Opt("failFast") THEN Halt("failed")
                   ELSE Go("source") /\ next' = next + 1 /\ UNCHANGED walk
                /\ UNCHANGED sources
           ELSE IF Refused(g) THEN Halt("overlap") /\ UNCHANGED sources
           ELSE /\ sources' = Added(SourceOf(g, IsInput(g) \/ IsDir(tree, g.path)))
                /\ walk' = <<{g.path}>> /\ Go("walk") /\ UNCHANGED next
    /\ UNCHANGED <<world, tree, rows, refs, errors, attempts>>

Root == Given[next].path
Source == CHOOSE i \in DOMAIN sources:
             sources[i].no = Given[next].no /\ sources[i].path = Root

\* A directory that the walk descends into is opened.
ReadsIn(t, root, p) == Descends(t, root, p) /\ RealPath(t, p) \notin world.unreadable
Reads(p) == ReadsIn(tree, Root, p)

Opened(levels, names) == IF names = {} THEN levels ELSE Append(levels, names)

\* On to the next name; the directory p is opened, and its names come first.
WalkOn(p) ==
    /\ walk' = Opened(Opened(Front(walk), Last(walk) \ {p}),
                      IF Reads(p) THEN Listing(tree, p) ELSE {})
    /\ Go("walk") /\ UNCHANGED next

\* An element of the walk that is an error is recorded, without a row.
WalkError(p) ==
    /\ errors' = errors \cup {<<Source, p>>}
    /\ IF Opt("failFast") THEN Halt("failed") ELSE WalkOn(p)

\* After the entry of a directory comes the error of reading it.
Proceed(p) ==
    IF Descends(tree, Root, p) /\ ~Reads(p) THEN WalkError(p)
    ELSE WalkOn(p) /\ UNCHANGED errors

\* sanitize_path: a name, or the target of a link, that is not text.
Skip(p) ==
    IF Opt("failFast") THEN Halt("failed") /\ UNCHANGED errors ELSE Proceed(p)

\* Mutant: the reference of a name that is there already is left out.
AttachFirst(p) ==
    /\ rows' = [q \in Listed \cup {p} |-> IF q \in Listed THEN rows[q] ELSE Lstat(tree, p).kind]
    /\ refs' = IF p \in Listed THEN refs ELSE refs \cup {<<Source, p>>}
\* The row and its reference, or the reference alone for a name that is there
\* already (handle_entry_base, insert_file_and_ref).
Attach(p) ==
    /\ rows' = [q \in Listed \cup {p} |-> IF q \in Listed THEN rows[q] ELSE Lstat(tree, p).kind]
    /\ refs' = refs \cup {<<Source, p>>}

\* Only a name that gets a row has its target looked at.
Text(p) ==
    \/ Opt("relaxUtf8")
    \/ /\ Decodable(p)
       /\ p \notin Listed /\ Lstat(tree, p).kind = "link" => Decodable(Lstat(tree, p).target)

\* A name that was removed since its directory was read: the walk misses it, or
\* fails to follow it, or met it before it went; then a name that has a row is
\* given its reference, and for want of the data of another the run ends.
EntryGone(p) ==
    /\ Lstat(tree, p) = Nothing /\ p # Root
    /\ \/ WalkOn(p) /\ UNCHANGED <<rows, refs, errors>>
       \/ Opt("dereference") /\ WalkError(p) /\ UNCHANGED <<rows, refs>>
       \/ /\ p \in Listed /\ Text(p) /\ ~WalkFails(world.tree, Root, p)
          /\ Attach(p) /\ WalkOn(p) /\ UNCHANGED errors
       \/ /\ p \notin Listed
          /\ errors' = errors \cup {<<Source, p>>} /\ Halt("failed") /\ UNCHANGED <<rows, refs>>

\* One name of the walk (handle_dir, handle_entry_base, handle_entry).
Entry ==
    /\ step = "walk" /\ walk # <<>>
    /\ \E p \in Last(walk):
          \/ EntryGone(p)
          \/ WalkFails(tree, Root, p) /\ WalkError(p) /\ UNCHANGED <<rows, refs>>
          \/ /\ Lstat(tree, p) # Nothing /\ ~WalkFails(tree, Root, p)
             /\ IF Text(p) THEN Attach(p) /\ Proceed(p)
                ELSE Skip(p) /\ UNCHANGED <<rows, refs>>
    /\ UNCHANGED <<world, tree, sources, attempts>>

EndSource ==
    /\ step = "walk" /\ walk = <<>>
    /\ Go("source") /\ next' = next + 1
    /\ UNCHANGED <<world, tree, tables, walk, attempts>>

\* The canonicals and the owners' names, which Intake and Commands have.
AllMet ==
    /\ step = "source" /\ next > Len(Given)
    /\ Halt("done")
    /\ UNCHANGED <<world, tree, tables, attempts>>

\* A signal at one of the checks, or a kill between two transactions.
Stop ==
    /\ step \in {"enter", "source", "walk"}
    /\ Halt("stopped")
    /\ UNCHANGED <<world, tree, tables, attempts>>

\* The command is resumed with its stored configuration.
Resume ==
    /\ step = "ended" /\ outcome \in {"overlap", "failed", "stopped"} /\ attempts < MaxAttempts
    /\ attempts' = attempts + 1
    /\ step' = "enter" /\ outcome' = Nothing
    /\ UNCHANGED <<world, tree, tables, next, walk>>

\* Somebody removes a name that nothing is below.
Vanish ==
    /\ step \in {"enter", "source", "walk"}
    /\ \E p \in world.leaving \cap DOMAIN tree:
          /\ \A c \in DOMAIN tree \ {<<>>}: Front(c) # p
          /\ tree' = [q \in DOMAIN tree \ {p} |-> tree[q]]
    /\ UNCHANGED <<world, tables, step, next, walk, outcome, attempts>>

Work == Configure \/ Enter \/ AddSource \/ Entry \/ EndSource \/ AllMet
InventoryNext == Work \/ Stop \/ Resume \/ Vanish

InventorySpec == InventoryInit /\ [][InventoryNext]_inventoryVars

-----------------------------------------------------------------------------
(* Properties.                                                             *)

InventoryTypeOK ==
    /\ world \in Worlds /\ DOMAIN tree \subseteq DOMAIN world.tree
    /\ \A i \in DOMAIN sources: \E g \in ToSet(Given): sources[i].no = g.no
    /\ \A p \in Listed: rows[p] \in Kinds
    /\ refs \subseteq (DOMAIN sources) \X Listed /\ \A e \in errors: e[1] \in DOMAIN sources
    /\ outcome \in {Nothing} \cup Outcomes

\* What a walk from a root meets when nobody changes the tree: the names under
\* directories that are all read, down to the names that fail.
Level(t, root) ==
    LET to[n \in 0 .. MaxDepth] ==
          IF n = 0 THEN {root}
          ELSE UNION {Listing(t, p) : p \in {p \in to[n - 1] : ReadsIn(t, root, p)}}
    IN  to
Near(root, p) == Len(p) <= Len(root) + MaxDepth
Reached(t, root) == UNION {Level(t, root)[n] : n \in 0 .. MaxDepth}
Met(t, root) ==
    {p \in Reached(t, root) : Lstat(t, p) # Nothing /\ ~WalkFails(t, root, p)}
Failing(t, root) ==
    {p \in Reached(t, root) :
        \/ WalkFails(t, root, p)
        \/ Descends(t, root, p) /\ ~ReadsIn(t, root, p)}
Legible(t, p) ==
    \/ Opt("relaxUtf8")
    \/ Decodable(p) /\ (Lstat(t, p).kind = "link" => Decodable(Lstat(t, p).target))

\* A run that ends well has met, for every source it was given, each name that
\* stood there throughout, and nothing that never did; a name that several
\* sources meet has a reference of each, whichever met it first and whether it
\* was a directory, a line or the end of a link (add_ref of handle_entry_base).
\* The errors tell of the names that were not to be read, and of no other.
Exhaustive ==
    outcome = "done" =>
        \A g \in ToSet(Given): Opt("relaxUtf8") \/ Decodable(g.path) =>
            \E i \in DOMAIN sources:
                LET of(table) == {p \in {r[2] : r \in {r \in table : r[1] = i}} : Near(g.path, p)}
                IN  /\ sources[i].no = g.no /\ sources[i].path = g.path
                    /\ {p \in Met(tree, g.path) : Legible(tree, p)} \subseteq of(refs)
                    /\ of(refs) \subseteq Met(world.tree, g.path)
                    /\ tree = world.tree => of(errors) = Failing(tree, g.path)

\* Under strict separation no name is met from two directories, across the
\* command line and the lists, in whatever order they come; but --no-recursion
\* also meets the names in its directory, so the one of the two may be a root.
SeparateTrees ==
    ~Opt("noStrictSeparation") =>
        \A r, s \in refs:
            /\ r[1] # s[1] /\ r[2] = s[2] /\ sources[r[1]].dir /\ sources[s[1]].dir
            => Opt("noRecursion") /\ r[2] \in {sources[r[1]].path, sources[s[1]].path}

\* Only --dereference, or a link or a name behind it given as a source, brings a
\* name into the table that is reached over a link: otherwise the archive would
\* hold the tree twice and its extraction would write through a link
\* (follow_links, follow_root_links).
BelowLinkHasCause ==
    \A p \in Listed \ {<<>>}:
        Front(p) \in Listed /\ rows[Front(p)] = "link" =>
            \/ Opt("dereference")
            \/ \E i \in DOMAIN sources: sources[i].path \in {p, Front(p)}

\* A line is refused only for another directory among what was given, or for
\* its own row, left by an attempt that ended before it met a first name.
RefusalHasCause ==
    outcome = "overlap" =>
        LET g == Given[next]
        IN  \/ \E h \in ToSet(Given) \ {g}: IsDir(world.tree, h.path) /\ Overlap(h.path, g.path)
            \/ attempts > 1 /\ \E i \in DOMAIN sources: sources[i].no = g.no

-----------------------------------------------------------------------------
(* The inductive invariant that the three rest on.                         *)

Admitted(g) == Opt("relaxUtf8") \/ Decodable(g.path)
Unread(t, root, p) == WalkFails(t, root, p) \/ (Descends(t, root, p) /\ ~ReadsIn(t, root, p))

\* Where a walk from a root can come to.
Below(root, p) ==
    /\ IsPrefix(root, p)
    /\ Opt("noRecursion") => Len(p) <= Len(root) + 1
    /\ p # root => Lstat(world.tree, p) # Nothing
    /\ p # root /\ Front(p) # root /\ ~Opt("dereference") => Lstat(world.tree, Front(p)).kind = "dir"
    /\ Near(root, p) => p \in Reached(world.tree, root)

Formed ==
    /\ world \in Worlds /\ attempts \in 1 .. MaxAttempts
    /\ tree = [p \in DOMAIN tree |-> world.tree[p]]
    /\ DOMAIN tree \subseteq DOMAIN world.tree /\ <<>> \in DOMAIN tree
    /\ sources \in Seq([no: Nat \X Nat, path: Seq(STRING), dir: BOOLEAN])
    /\ \A i \in DOMAIN sources: \E g \in ToSet(Given): sources[i].no = g.no /\ sources[i].path = g.path
    /\ rows = [p \in Listed |-> rows[p]]
    /\ refs \subseteq (DOMAIN sources) \X Seq(STRING) /\ errors \subseteq (DOMAIN sources) \X Seq(STRING)
    /\ walk \in Seq(SUBSET Seq(STRING)) /\ next \in Nat
    /\ step \in {"config", "enter", "source", "walk", "ended"}
    /\ outcome \in {Nothing} \cup Outcomes
    /\ (outcome = Nothing) = (step # "ended")

\* What the tables tell was there when the inventory began.
Recorded ==
    /\ \A p \in Listed:
          /\ Lstat(world.tree, p) # Nothing /\ rows[p] = Lstat(world.tree, p).kind
          /\ \E r \in refs: r[2] = p
    /\ \A r \in refs:
          /\ r[2] \in Listed /\ Below(sources[r[1]].path, r[2])
          /\ ~WalkFails(world.tree, sources[r[1]].path, r[2])
    /\ \A e \in errors:
          /\ Below(sources[e[1]].path, e[2])
          /\ tree = world.tree => Unread(tree, sources[e[1]].path, e[2])

\* Of two directories that strict separation lets through none lies in the
\* other; lines come when all directories of the command line are there.
Separate ==
    /\ \A i \in DOMAIN sources: IsInput(sources[i]) => sources[i].dir
    /\ \A i, j \in DOMAIN sources:
          sources[i].no = sources[j].no /\ sources[i].path = sources[j].path => i = j
    /\ (\E i \in DOMAIN sources: ~IsInput(sources[i])) =>
          \A k \in DOMAIN world.inputs:
              Admitted(Given[k]) => \E i \in DOMAIN sources: sources[i].no = Given[k].no
    /\ step = "config" \/ outcome = "refused" => sources = <<>>
    /\ ~Opt("noStrictSeparation") /\ step # "config" /\ outcome # "refused" =>
          /\ \A i \in DOMAIN world.inputs: \A j \in 1 .. i - 1: ~Overlap(world.inputs[j], world.inputs[i])
          /\ \A i, j \in DOMAIN sources:
                i # j /\ sources[i].dir /\ sources[j].dir => ~Overlap(sources[i].path, sources[j].path)

\* The name p of a walk from source i has been dealt with.
Handled(i, p) ==
    LET root == sources[i].path
    IN  /\ p \in Met(tree, root) /\ Legible(tree, p) => <<i, p>> \in refs
        /\ tree = world.tree /\ p \in Failing(tree, root) => <<i, p>> \in errors
Served(g) ==
    Admitted(g) =>
        \E i \in DOMAIN sources:
            /\ sources[i].no = g.no /\ sources[i].path = g.path
            /\ \A p \in Reached(tree, g.path): Handled(i, p)

\* Each name that a walk has to meet has been dealt with, or lies at or below
\* one that is still to be met.
Walking ==
    /\ step = "walk" =>
          /\ next \in DOMAIN Given /\ Admitted(Given[next])
          /\ \E i \in DOMAIN sources: sources[i].no = Given[next].no /\ sources[i].path = Root
          /\ \A n \in DOMAIN walk: \A p \in walk[n]: Below(Root, p)
          /\ \A p \in Reached(tree, Root):
                \/ \E n \in DOMAIN walk: \E q \in walk[n]: IsPrefix(q, p)
                \/ Handled(Source, p)
    /\ step = "source" => next \in 1 .. Len(Given) + 1
    /\ step \in {"source", "walk"} => \A k \in 1 .. next - 1: Served(Given[k])
    /\ outcome = "done" => \A k \in DOMAIN Given: Served(Given[k])

InventoryInv == Formed /\ Recorded /\ Separate /\ Walking

-----------------------------------------------------------------------------
(* What documents say and the code does not do.                            *)

\* cli.rs, manual.md: --dereference archives the files that links point to.
LinksFollowed ==
    outcome = "done" /\ Opt("dereference") =>
        \A p \in Listed: rows[p] = "link" => RealPath(tree, p) = Nothing

\* directory_roots_overlap: with --no-recursion a root below another is a
\* distinct tree.
DistinctTrees ==
    ~Opt("noStrictSeparation") =>
        \A r, s \in refs: r[2] = s[2] /\ sources[r[1]].dir /\ sources[s[1]].dir => r[1] = s[1]
=============================================================================
