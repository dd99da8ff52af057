---------------------------- MODULE Permissions ----------------------------
(***************************************************************************)
(* The last working phase of an extraction (unarchive/permissions.rs,      *)
(* db/permissions.rs): owner, mode, attributes and times of what was       *)
(* placed, deepest rows first, a sidecar file beside an entry where one is *)
(* asked for, a record of each error (db/recorder.rs).  One thread works   *)
(* through batches; the flags of a batch are stored when all of its rows   *)
(* are handled.                                                            *)
(*                                                                         *)
(* A row is a row of out_tree; a node is an inode on disk, named by its    *)
(* canonical row or, in the link source of --link-tree, by its member.     *)
(***************************************************************************)
EXTENDS Naturals, FiniteSets

CONSTANTS
    Rows,        \* ids of out_tree rows
    Members,     \* rows of the files table
    NULL,        \* SQL NULL
    Cases,       \* the trees and settings that the phase may start from
    BatchSize,   \* ProcessConfig.batch_size
    FlushLimit,  \* auto_flush_limit of the recorder
    MaxLaunches  \* bound on the processes started

Node == Rows \cup Members

Case ==
    [kind: [Rows -> {"dir", "file", "symlink"}],
     member: [Rows -> Members \cup {NULL}],     \* NULL: a scaffold directory
     above: [Rows -> SUBSET Rows],              \* directories on the way to a row
     depth: [Rows -> Nat],                      \* slashes of abs_path
     canon: [Rows -> Rows],                     \* canonical_id: names the inode
     leads: [Rows -> Rows \cup {0}],            \* where a symlink leads, 0: nowhere
     placed: SUBSET Rows,
     stored: SUBSET Members,                    \* AtLinkSource
     source: [Members -> Members \cup {NULL}],  \* files.canonical_id
     closed: SUBSET Members,  \* directories whose archived mode denies access
     refuses: SUBSET Members, \* members with an attribute the file system refuses
     crowded: SUBSET Rows,    \* no name is free for a sidecar
     options: SUBSET {"root", "owner", "mode", "changes", "acls", "times", "dirs",
                      "linkTree", "failFast", "noErrors"},
     sidecar: {"always", "onError", "never"}]

\* What the placing leaves behind: a tree, each of whose entries but the
\* scaffolds has a member; the link source holds canonical files.  A row has
\* more slashes than the directories above it, except that the root of the
\* extraction, if it is a member itself, is stored as '<root>/.' and ties with
\* what lies in it; '<root>' is then a scaffold beside that row.
Placed(c) ==
    /\ \A r \in Rows :
          /\ \A d \in c.above[r] :
                /\ c.kind[d] = "dir" /\ c.above[d] \subseteq c.above[r] \ {d}
                /\ c.depth[d] < c.depth[r] \/ (c.above[r] = {d} /\ c.depth[d] = c.depth[r])
          /\ c.kind[r] = "dir" => c.canon[r] = r
          /\ c.kind[r] # "dir" => c.member[r] # NULL
    /\ \A m \in c.stored : /\ c.source[m] = m
                           /\ \A r \in Rows : c.member[r] = m => c.kind[r] # "dir"

ASSUME PermissionsAssumption ==
    /\ Rows \subseteq Nat \ {0} /\ IsFiniteSet(Rows)
    /\ Rows \cap Members = {} /\ NULL \notin Members
    /\ Cases \subseteq Case /\ \A c \in Cases : Placed(c)
    /\ BatchSize \in Nat \ {0} /\ FlushLimit \in Nat \ {0} /\ MaxLaunches \in Nat

VARIABLES
    case,      \* tree and settings; never changes
    node,      \* owner, mode and time of each inode
    sidecars,  \* number of sidecar files beside each row
    flags,     \* AppliedMetadata and ErrorWhileApplyingMetadata of rows and members
    errors,    \* rows and members named in the errors table
    phase,     \* saved phase
    pc,        \* where the process is, "off" without one
    batch,     \* rows of this batch still ahead
    results,   \* rows of this batch that were handled: <<row, no errors>>
    owed,      \* the row whose sidecar comes next
    drafts,    \* buffer of the recorder
    stop,      \* the shutdown signal came
    outcome,   \* how the last process ended
    launches,  \* processes started so far
    crashes    \* of these, the ones that were killed

disk == <<node, sidecars>>
tables == <<flags, errors, phase>>
vars == <<case, disk, tables, pc, batch, results, owed, drafts, stop, outcome, launches, crashes>>

On(option) == option \in case.options

TypeOK ==
    /\ case \in Cases
    /\ node \in [Node -> [owner: Members \cup {NULL}, time: Members \cup {"before", "now"},
                          mode: (Members \cup {NULL}) \X {"open", "archived", "changed"}]]
    /\ sidecars \in [Rows -> 0..MaxLaunches]
    /\ flags \in [Node -> SUBSET {"applied", "error"}]
    /\ errors \subseteq Node /\ drafts \subseteq Node
    /\ phase \in {"permissions", "cleanup"}
    /\ batch \subseteq Node /\ results \subseteq Node \X BOOLEAN
    /\ owed \in Rows \cup {0}
    /\ pc \in {"off", "sources", "links", "files", "dirs", "flush", "applied", "erred", "verify"}
    /\ outcome \in {"none", "done", "error", "stopped", "panic", "crashed"} /\ stop \in BOOLEAN
    /\ launches \in 0..MaxLaunches /\ crashes \in 0..launches

Init ==
    /\ case \in Cases
    /\ node = [n \in Node |-> [owner |-> NULL, mode |-> <<NULL, "open">>, time |-> "before"]]
    /\ sidecars = [r \in Rows |-> 0]
    /\ flags = [n \in Node |-> {}] /\ errors = {} /\ phase = "permissions"
    /\ pc = "off" /\ batch = {} /\ results = {} /\ owed = 0 /\ drafts = {}
    /\ stop = FALSE /\ outcome = "none" /\ launches = 0 /\ crashes = 0

-----------------------------------------------------------------------------
(* The lists of rows.                                                      *)

Untouched == {n \in Node : flags[n] = {}}
Dirs == {r \in Rows : case.kind[r] = "dir"}

\* Mutant: shallow rows first.
SoonerShallow(a, b) ==
    \/ case.depth[a] < case.depth[b]
    \/ case.depth[a] = case.depth[b] /\ a < b

\* depth_order_clause: most slashes first, then by id.
Sooner(a, b) ==
    \/ case.depth[a] > case.depth[b]
    \/ case.depth[a] = case.depth[b] /\ a < b

\* Mutant: a member with an error stays on the list.
PendingSourcesForEver == {m \in case.stored : "applied" \notin flags[m]}

\* list_canonical_files_for_permissions
PendingSources == case.stored \cap Untouched

\* list_out_tree_links_for_sidecar
PendingLinks ==
    {r \in case.placed \cap Untouched :
        r \notin Dirs /\ case.member[r] # NULL /\ case.source[case.member[r]] \in case.stored}

\* list_out_tree_for_permissions_non_dir
PendingFiles == {r \in (case.placed \cap Untouched) \ Dirs : case.canon[r] = r}

\* Mutant: the join leaves out the scaffolds.
PendingDirsOfMembers == {r \in Dirs \cap Untouched : case.member[r] # NULL}

\* list_out_tree_for_permissions_dirs: scaffolds included.
PendingDirs == Dirs \cap Untouched

FirstOf(S, Before(_, _)) == CHOOSE r \in S : \A q \in S \ {r} : Before(r, q)
FirstBatch(S, Before(_, _)) ==
    {r \in S : Cardinality({q \in S : Before(q, r)}) < BatchSize}
ById(a, b) == a < b

-----------------------------------------------------------------------------
(* What a row gets.                                                        *)

Closed(d) == node[d].mode[2] = "archived" /\ node[d].mode[1] \in case.closed
Reach(r) == On("root") \/ \A d \in case.above[r] : ~Closed(d)

\* Attributes and times follow a symlink; owner and mode do not.
Followed(r) == IF case.kind[r] = "symlink" THEN case.leads[r] ELSE r

\* apply_one: each part is tried, whatever failed before.  The parts are given
\* as sets of the parts tried and of those that fail.
TriedOn(m, symlink, leading) ==
    {p \in {"owner", "mode", "acls", "times"} :
        /\ On(p) /\ m # NULL
        /\ p = "mode" => ~symlink
        /\ p = "acls" => leading}          \* a link to nothing had none to store

Failing(m, tried, reached, leading) ==
    {p \in tried : \/ ~reached
                   \/ p = "owner" /\ ~On("root")
                   \/ p = "acls" /\ m \in case.refuses
                   \/ p = "times" /\ ~leading}

\* The parts done: owner and mode at node n, ACL and times at node l, to which
\* following a link leads.  Writing an ACL sets the mode bits that it grants,
\* those of the inode of which it was read; the names of one inode have one ACL.
Restored(n, l, m, of, done) ==
    [i \in Node |->
        [owner |-> IF i = n /\ "owner" \in done THEN m ELSE node[i].owner,
         mode  |-> IF i = l /\ "acls" \in done THEN <<of, "archived">>
                   ELSE IF i = n /\ "mode" \in done
                   THEN <<m, IF On("changes") THEN "changed" ELSE "archived">>
                   ELSE node[i].mode,
         time  |-> IF i = l /\ "times" \in done THEN m ELSE node[i].time]]

\* effective_sidecar_mode
SidecarMode ==
    IF case.sidecar = "onError" /\ (On("noErrors") \/ On("linkTree"))
    THEN "never" ELSE case.sidecar

\* The directory of a row, if the extraction has a row for it.
ParentOf(r) == {d \in case.above[r] : \A e \in case.above[r] : e = d \/ e \in case.above[d]}

\* claim_sidecar_file: a new name each time, never one that is taken.
CanClaim(r) == r \notin case.crowded /\ Reach(r)

\* A new entry changes the time of its directory.
SidecarBeside(r) ==
    /\ sidecars' = [sidecars EXCEPT ![r] = @ + 1]
    /\ node' = [n \in Node |-> IF n \in ParentOf(r) THEN [node[n] EXCEPT !.time = "now"]
                                ELSE node[n]]

-----------------------------------------------------------------------------
(* The process.                                                            *)

\* Recorder::record, with the flush of a full buffer.
Record(S) ==
    IF On("noErrors") THEN UNCHANGED <<drafts, errors>>
    ELSE IF Cardinality(drafts \cup S) >= FlushLimit
    THEN errors' = errors \cup drafts \cup S /\ drafts' = {}
    ELSE drafts' = drafts \cup S /\ UNCHANGED errors

End(how) == pc' = "off" /\ outcome' = how /\ batch' = {} /\ results' = {} /\ owed' = 0 /\ drafts' = {}

\* Mutant: what the recorder holds is lost with the run.
ExitSilently(how, late) == End(how) /\ UNCHANGED errors

\* A run that returns an error drops its recorder, which flushes.
Exit(how, late) ==
    End(how) /\ errors' = errors \cup (IF On("noErrors") THEN {} ELSE drafts \cup late)

Launch ==
    /\ pc = "off" /\ phase = "permissions" /\ outcome # "panic" /\ launches < MaxLaunches
    /\ launches' = launches + 1
    /\ stop' = FALSE /\ outcome' = "none"
    /\ pc' = IF On("linkTree") THEN "sources" ELSE "files"
    /\ UNCHANGED <<case, disk, tables, batch, results, owed, drafts, crashes>>

AfterPass == IF pc # "dirs" /\ On("dirs") THEN "dirs" ELSE "flush"

\* The head of batched_loop; the list of the link sources has no order.
NextBatch ==
    /\ batch = {} /\ results = {} /\ owed = 0
    /\ \/ /\ pc = "sources"
          /\ IF PendingSources = {} THEN pc' = "links" /\ UNCHANGED batch
             ELSE /\ \E S \in SUBSET PendingSources :
                        /\ S = PendingSources \/ Cardinality(S) = BatchSize
                        /\ Cardinality(S) <= BatchSize /\ batch' = S
                  /\ UNCHANGED pc
       \/ /\ pc = "links"
          /\ IF PendingLinks = {} \/ SidecarMode # "always"
             THEN pc' = AfterPass /\ UNCHANGED batch
             ELSE batch' = FirstBatch(PendingLinks, ById) /\ UNCHANGED pc
       \/ /\ pc = "files"
          /\ IF PendingFiles = {} THEN pc' = AfterPass /\ UNCHANGED batch
             ELSE batch' = FirstBatch(PendingFiles, Sooner) /\ UNCHANGED pc
       \/ /\ pc = "dirs"
          /\ IF PendingDirs = {} THEN pc' = AfterPass /\ UNCHANGED batch
             ELSE batch' = FirstBatch(PendingDirs, Sooner) /\ UNCHANGED pc
    /\ UNCHANGED <<case, disk, tables, results, owed, drafts, stop, outcome, launches, crashes>>

\* inner_apply_permissions up to the sidecar; --fail-fast ends the run and
\* leaves the batch unrecorded.
ApplyRow ==
    /\ pc \in {"files", "dirs"} /\ batch # {} /\ owed = 0 /\ ~stop
    /\ LET r == FirstOf(batch, Sooner)
           m == case.member[r]
           l == Followed(r)
           tried == TriedOn(m, case.kind[r] = "symlink", l # 0)
           failed == Failing(m, tried, Reach(r) /\ (l # 0 => Reach(l)), l # 0)
           wanted == \/ SidecarMode = "always"
                     \/ SidecarMode = "onError" /\ failed # {}
       IN /\ node' = Restored(r, IF l = 0 THEN 0 ELSE case.canon[l], m,
                              IF l = 0 THEN m ELSE case.member[case.canon[l]], tried \ failed)
          /\ IF failed # {} /\ On("failFast")
             THEN Exit("error", {r, m})
             ELSE /\ results' = results \cup {<<r, failed = {}>>}
                  /\ batch' = batch \ {r}
                  /\ owed' = IF wanted /\ m # NULL THEN r ELSE 0
                  /\ Record(IF failed = {} THEN {} ELSE {r, m})
                  /\ UNCHANGED <<pc, outcome>>
    /\ UNCHANGED <<case, sidecars, flags, phase, stop, launches, crashes>>

\* write_sidecar; a failure is recorded and does not count against the row.
WriteSidecar ==
    /\ owed # 0
    /\ IF CanClaim(owed)
       THEN SidecarBeside(owed) /\ UNCHANGED <<drafts, errors>>
       ELSE Record({owed, case.member[owed]}) /\ UNCHANGED disk
    /\ owed' = 0
    /\ UNCHANGED <<case, flags, phase, pc, batch, results, stop, outcome, launches, crashes>>

\* apply_permissions_link_sources: no signal is looked at here.
ApplySource ==
    /\ pc = "sources"
    /\ \E m \in batch :
          LET tried == TriedOn(m, FALSE, TRUE)
              failed == Failing(m, tried, TRUE, TRUE)
          IN /\ node' = Restored(m, m, m, m, tried \ failed)
             /\ IF failed # {} /\ On("failFast")
                THEN Exit("error", {m})
                ELSE /\ results' = results \cup {<<m, failed = {}>>}
                     /\ batch' = batch \ {m}
                     /\ Record(IF failed = {} THEN {} ELSE {m})
                     /\ UNCHANGED <<pc, owed, outcome>>
    /\ UNCHANGED <<case, sidecars, flags, phase, stop, launches, crashes>>

\* write_link_tree_sidecars: here the sidecar is what the row is flagged for.
SidecarOfLink ==
    /\ pc = "links" /\ batch # {} /\ ~stop
    /\ LET r == FirstOf(batch, ById)
       IN /\ results' = results \cup {<<r, CanClaim(r)>>}
          /\ batch' = batch \ {r}
          /\ IF CanClaim(r) THEN SidecarBeside(r) /\ UNCHANGED <<drafts, errors>>
             ELSE Record({case.source[case.member[r]]}) /\ UNCHANGED disk
    /\ UNCHANGED <<case, flags, phase, pc, owed, stop, outcome, launches, crashes>>

\* check_between_files, before each row: the results of the batch are dropped.
Stop ==
    /\ pc \in {"files", "dirs", "links"} /\ batch # {} /\ owed = 0 /\ stop
    /\ Exit("stopped", {})
    /\ UNCHANGED <<case, disk, flags, phase, stop, launches, crashes>>

\* Mutant: the flags are stored before the last sidecar is written.
IngestEarly ==
    /\ batch = {} /\ results # {}
    /\ flags' = [n \in Node |->
                    flags[n] \cup (IF <<n, TRUE>> \in results THEN {"applied"} ELSE {})
                             \cup (IF <<n, FALSE>> \in results THEN {"error"} ELSE {})]
    /\ results' = {}
    /\ UNCHANGED <<case, disk, errors, phase, pc, batch, owed, drafts, stop, outcome, launches,
                   crashes>>

\* ingest_apply_permission_out_tree_results, .._file_results: one transaction.
Ingest ==
    /\ batch = {} /\ results # {} /\ owed = 0
    /\ flags' = [n \in Node |->
                    flags[n] \cup (IF <<n, TRUE>> \in results THEN {"applied"} ELSE {})
                             \cup (IF <<n, FALSE>> \in results THEN {"error"} ELSE {})]
    /\ results' = {}
    /\ UNCHANGED <<case, disk, errors, phase, pc, batch, owed, drafts, stop, outcome, launches,
                   crashes>>

RowsOf(m) == {r \in Rows : case.member[r] = m}
Unapplied == {r \in Rows : "applied" \notin flags[r]}

\* apply_permissions_flags_to_files.  NOT IN yields no row at all when the list
\* holds a NULL, here that of a scaffold that was left alone.
AppliedMembers ==
    IF \E r \in Unapplied : case.member[r] = NULL THEN {}
    ELSE {m \in Members : RowsOf(m) # {} /\ RowsOf(m) \cap Unapplied = {}}
ErredMembers == {m \in Members : \E r \in RowsOf(m) : "error" \in flags[r]}

Finish ==
    /\ \/ /\ pc = "flush" /\ pc' = "applied"
          /\ errors' = errors \cup drafts /\ drafts' = {} /\ UNCHANGED flags
       \/ /\ pc = "applied" /\ pc' = "erred"
          /\ flags' = [n \in Node |-> flags[n] \cup (IF n \in AppliedMembers
                                                     THEN {"applied"} ELSE {})]
          /\ UNCHANGED <<errors, drafts>>
       \/ /\ pc = "erred" /\ pc' = "verify"
          /\ flags' = [n \in Node |-> flags[n] \cup (IF n \in ErredMembers
                                                     THEN {"error"} ELSE {})]
          /\ UNCHANGED <<errors, drafts>>
    /\ UNCHANGED <<case, disk, phase, batch, results, owed, stop, outcome, launches, crashes>>

\* count_e10_metadata_violations: what was restored has one of the two flags.
E10 ==
    LET checked == IF On("linkTree") THEN case.stored
                   ELSE {r \in case.placed \ Dirs : case.canon[r] = r}
                        \cup (IF On("dirs") THEN Dirs ELSE {})
    IN \A n \in checked : Cardinality(flags[n]) = 1

\* verify_after_phase and the saving of the next phase.
Verify ==
    /\ pc = "verify"
    /\ IF E10 THEN phase' = "cleanup" /\ Exit("done", {})
       ELSE Exit("panic", {}) /\ UNCHANGED phase
    /\ UNCHANGED <<case, disk, flags, stop, launches, crashes>>

Signal ==
    /\ pc # "off" /\ ~stop /\ stop' = TRUE
    /\ UNCHANGED <<case, disk, tables, pc, batch, results, owed, drafts, outcome, launches,
                   crashes>>

Crash ==
    /\ pc # "off" /\ End("crashed") /\ crashes' = crashes + 1
    /\ UNCHANGED <<case, disk, tables, stop, launches>>

Step == NextBatch \/ ApplyRow \/ WriteSidecar \/ ApplySource \/ SidecarOfLink \/ Stop
        \/ Ingest \/ Finish \/ Verify
Next == Step \/ Launch \/ Signal \/ Crash

Spec == Init /\ [][Next]_vars

\* The operating system runs a process that has something to do.
FairSpec == Spec /\ WF_vars(Step)

-----------------------------------------------------------------------------
(* What the phase promises.                                                *)

\* Where following a link leads to an inode that is no directory.
ClobberedBy(n) ==
    {q \in Rows : case.kind[q] = "symlink" /\ case.leads[q] # 0 /\ case.canon[case.leads[q]] = n}

\* The root, a member itself, is restored before q, a directory in it: they
\* have as many slashes, and the root the smaller id.
Overtakes(d, q) ==
    q \in Dirs /\ d \in case.above[q] /\ case.depth[d] = case.depth[q] /\ d < q

\* The sidecar of a directory changes the time of the root that overtook it.
Disturbed(n) ==
    SidecarMode # "never" /\ \E q \in Dirs : Overtakes(n, q) /\ case.member[q] # NULL

Holds(n, m) ==
    /\ On("owner") => node[n].owner = m
    /\ On("mode") => node[n].mode = <<m, IF On("changes") /\ ~On("acls")
                                         THEN "changed" ELSE "archived">>
    /\ On("times") => \/ node[n].time = m
                      \/ n \notin Dirs /\ ClobberedBy(n) # {}
                      \/ Disturbed(n)

\* When the phase is done, what is flagged as applied carries the archived
\* owner, mode and time: in spite of the sidecars that were written into a
\* directory meanwhile, of every crash and of every repeated batch.  Three
\* exceptions, all of the code's making: an ACL overwrites a mode change, the
\* times of a symlink land on the file that it leads to, and a root that is a
\* member may be restored before the directories in it, whose sidecars follow.
MetadataStands ==
    phase = "cleanup" =>
      /\ \A r \in Rows : /\ "applied" \in flags[r] /\ case.member[r] # NULL
                         /\ case.kind[r] # "symlink" /\ (On("linkTree") => r \in Dirs)
                         => Holds(r, case.member[r])
      /\ On("linkTree") =>
            \A m \in case.stored : "applied" \in flags[m] => Holds(m, m)

\* What may go wrong with a member itself.
Owes(m, symlink, leading) ==
    \/ On("owner") /\ ~On("root")
    \/ On("acls") /\ m \in case.refuses
    \/ On("times") /\ symlink /\ ~leading

\* A directory may deny access to a row beneath it before that is handled: when
\* an earlier run has closed it, when the ACL of a symlink to it has, or when it
\* is the root and overtakes the row.
ShutEarly(d, r) ==
    /\ ~On("root") /\ case.member[d] \in case.closed
    /\ launches > 1 \/ (On("acls") /\ ClobberedBy(d) # {}) \/ Overtakes(d, r)

\* Hardly an error comes from the order of the work: a row is flagged with an
\* error only for an attribute that the system refuses, or for a sidecar that
\* found no place; or a directory was shut before the flags of the row were
\* stored, by a run that was cut short, by the ACL of a symlink, or by the root's
\* own turn before that of a directory in it.
ErrorsHaveCause ==
    \A r \in Rows : "error" \in flags[r] =>
      \/ Owes(case.member[r], case.kind[r] = "symlink", Followed(r) # 0)
      \/ On("linkTree") /\ r \in case.crowded
      \/ \E d \in case.above[r] \cup (IF Followed(r) = 0 THEN {}
                                      ELSE case.above[Followed(r)]) : ShutEarly(d, r)

\* The name under which an error of a row is recorded.
Subject(r) == IF On("linkTree") /\ r \notin Dirs THEN case.source[case.member[r]] ELSE r

\* As long as no process is killed, each error flag of a row or of a link
\* source has its record, in the table or on its way there, however a run was
\* stopped or failed.
RecordsTell ==
    crashes = 0 /\ ~On("noErrors") =>
      /\ \A r \in Rows : "error" \in flags[r] => Subject(r) \in errors \cup drafts
      /\ On("linkTree") =>
            \A m \in case.stored : "error" \in flags[m] => m \in errors \cup drafts

\* A row that needs a sidecar has one when its flags are stored, so that none
\* is lost to a crash, unless there was no place for it; and in a single run it
\* has no second one.
SidecarsComplete ==
    \A r \in Rows :
      /\ /\ flags[r] # {} /\ case.member[r] # NULL
         /\ SidecarMode = "always" \/ (SidecarMode = "onError" /\ "error" \in flags[r])
         => \/ sidecars[r] > 0 \/ r \in case.crowded
            \/ \E d \in case.above[r] : ShutEarly(d, r)
      /\ sidecars[r] <= (IF SidecarMode = "never" THEN 0 ELSE launches)

\* The battery panics only over a link tree with sidecars: there a payload that
\* failed gets the flag of its links too, or a link its own failure.
PanicHasCause ==
    outcome = "panic" =>
      /\ On("linkTree") /\ SidecarMode = "always"
      /\ \E m \in case.stored : flags[m] = {"applied", "error"}
            /\ \/ Owes(m, FALSE, TRUE)
               \/ RowsOf(m) \cap case.crowded # {}
               \/ \E r \in RowsOf(m), d \in Dirs : d \in case.above[r]
                     /\ case.member[d] \in case.closed

\* Each process ends.
Settles == pc # "off" ~> pc = "off"

\* docs/manual.md:321: --mode forces mode changes for restored members.
ModeForced ==
    phase = "cleanup" /\ On("mode") /\ On("changes") =>
      \A r \in Rows : /\ "applied" \in flags[r] /\ case.member[r] # NULL
                      /\ case.kind[r] # "symlink" /\ ~On("linkTree")
                      => node[r].mode[2] = "changed"

\* db/permissions.rs:3: rows are returned deepest-first, so that directory
\* metadata is applied after the contents beneath it.
ContentsFirst ==
    \A r \in Rows : "error" \in flags[r] =>
        Owes(case.member[r], case.kind[r] = "symlink", Followed(r) # 0) \/ On("linkTree")
=============================================================================
