----------------------------- MODULE MCPlacing -----------------------------
(* Instances of Placing for TLC. *)
EXTENDS Placing

CONSTANTS R, H, U, d, dx, dy, e, i1, i2

MCFiles == 1..5
MCPaths == {R, H, U, d, dx, dy, e}
MCParent == [p \in MCPaths \ {U} |-> CASE p \in {dx, dy} -> d [] p \in {R, H} -> U
                                        [] OTHER -> R]

\* Two names (2, 3) of one inode in a directory (1), a link (4), and a file (5)
\* that the second source maps to the path of the first name.
Base ==
    [kind |-> [f \in MCFiles |-> CASE f = 1 -> "dir" [] f = 4 -> "link" [] OTHER -> "file"],
     inode |-> [f \in MCFiles |-> CASE f \in {2, 3} -> i1 [] f = 5 -> i2 [] OTHER -> NoInode],
     twin |-> [f \in MCFiles |-> CASE f \in {2, 3} -> 2 [] f = 5 -> 5 [] OTHER -> 0],
     kept |-> MCFiles,
     covers |-> [s \in Sources |-> IF s = 1 THEN {1, 2, 3, 4} ELSE {5}],
     target |-> [s \in Sources \cup {0} |->
                    [f \in MCFiles |-> CASE f = 1 -> d [] f = 2 -> dx [] f = 3 -> dy
                                         [] f = 4 -> e [] f = 5 -> dx]],
     grouping |-> "Global",
     policy |-> "Replace",
     newer |-> {},
     stored |-> {2, 5},
     fails |-> {},
     set |-> {},
     before |-> [p \in MCPaths |-> Bare(IF p \in {R, U} THEN "dir" ELSE "none")]]

With(c, s) == [c EXCEPT !.set = @ \cup s]
At(c, p, kind) == [c EXCEPT !.before[p] = Bare(kind)]

\* Both sources cover the two names and map them to different paths; the
\* directory is excluded and comes back as a scaffold.
Fanned == [Base EXCEPT !.covers = [s \in Sources |-> IF s = 1 THEN {1, 2, 3} ELSE {2, 3, 5}],
                       !.kept = {2, 3, 5},
                       !.target[2] = [f \in MCFiles |-> CASE f = 2 -> e [] f = 3 -> dx
                                                          [] OTHER -> dy]]
BySource == [Fanned EXCEPT !.grouping = "Source"]
\* Duplicates by content (2, 5) and a name (3) of the inode of the copy.
Twins == [Base EXCEPT !.twin = [f \in MCFiles |-> IF f \in {2, 3, 5} THEN 2 ELSE 0],
                      !.inode = [f \in MCFiles |-> CASE f = 2 -> i1 [] f \in {3, 5} -> i2
                                                     [] OTHER -> NoInode],
                      !.target[2][5] = e, !.kept = {2, 3, 5}, !.stored = {2}]
Renamed == With([Fanned EXCEPT !.target[2][5] = NoPath], {"renames", "allDirs"})
Absolute == With([Base EXCEPT !.grouping = "Source", !.target[0][5] = e, !.kept = {1, 2, 3, 5}],
                 {"absolute"})
\* A file on the path another source needs as a directory.
Clash == [Base EXCEPT !.target[1][4] = d, !.kept = {2, 3, 4},
                      !.covers = [s \in Sources |-> IF s = 1 THEN {4} ELSE {2, 3}]]
\* A directory and a later file of one source claim one path.
Vying == [Base EXCEPT !.target[1][2] = d, !.target[1][4] = d, !.kind[4] = "dir",
                      !.kind[1] = "link", !.target[1][1] = e]
\* A duplicate by content (5) comes before the names of the stored inode.
Before5 == [Base EXCEPT !.twin = [f \in MCFiles |-> IF f \in {2, 3, 5} THEN 2 ELSE 0],
                        !.target[1][5] = e, !.kept = {2, 3, 5}, !.stored = {2},
                        !.covers = [s \in Sources |-> IF s = 1 THEN {5} ELSE {2, 3}]]
Single == [Base EXCEPT !.covers[2] = {}, !.kept = {1, 2, 3, 4}, !.stored = {2}]
\* A name, or every name, of the inode could not be read when it was archived.
Unread == {[Single EXCEPT !.twin[3] = 0],
           [Single EXCEPT !.twin = [f \in MCFiles |-> 0], !.stored = {}, !.inode[3] = i2]}
\* The directory is the source itself and maps to the root (-i .).
Homed == [Single EXCEPT !.target[1][1] = H]
\* A rename sends a name of the inode, or the link, to the root.
Sent(f) == With([Single EXCEPT !.target[1][f] = H, !.kept = {2, 3, 4}], {"renames"})
Aimed == {With(Sent(f), s) : f \in {2, 4}, s \in {{}, {"oneTop"}, {"noCreateDir"}}}
         \cup {With(At(Sent(3), R, "none"), {"noCreateDir"}), With(Sent(2), {"oneTop", "linkTree"})}
Special == [Single EXCEPT !.kind[4] = "special"]

Trees == {Base, Fanned, BySource, Twins, Before5, Renamed, Absolute, Clash, Vying,
          [Single EXCEPT !.grouping = "None"], Special, With(Special, {"recreate"}),
          Homed, With(Homed, {"absolute"})} \cup Unread \cup Aimed

\* What the target held before, and the switches that decide over it.
Disks ==
    {With([At(Single, p, k) EXCEPT !.policy = pol], s) :
        p \in {d, dy}, k \in {"old", "link"}, pol \in {"Replace", "PreferNewer"},
        s \in {{}, {"replaceTypes"}, {"unlinkFirst"}, {"keepDirLink"}}}
    \cup {At(Single, d, "dangling"), At(Single, e, "dangling"),
          [Single EXCEPT !.policy = "SkipExisting"],
          [At(Single, dy, "old") EXCEPT !.policy = "PreferOlder", !.newer = {3}],
          With(At(Single, dy, "dir"), {"replaceTypes"}),
          [At(Single, dx, "old") EXCEPT !.policy = "SkipExisting"],
          [At(Single, dx, "link") EXCEPT !.policy = "Replace"],
          With(At(Single, R, "none"), {"clean", "oneTop"}),
          With(Single, {"noCreateDir"})}

Faults ==
    {With([Twins EXCEPT !.fails = {2}], s) : s \in {{}, {"failFast", "keepStage"}}}
    \cup {With(Single, s) : s \in {{"clean", "oneTop"}, {"failFast"}, {"reflinks"}}}
    \cup {[Single EXCEPT !.stored = {}]}

LinkTrees ==
    {With(Base, {"linkTree"} \cup s) :
        s \in {{}, {"keepStage"}, {"hardLinks"}, {"oneTop"}, {"hardLinks", "oneTop"},
               {"reflinks"}}}
    \cup {With([Base EXCEPT !.fails = {2}], {"linkTree"}),
          With(At(Base, dx, "old"), {"linkTree"})}

MCCatalogues == Trees \cup Disks \cup Faults \cup LinkTrees
MCLinkTrees == LinkTrees
MCResume == {Base}
=============================================================================
