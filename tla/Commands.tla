------------------------------ MODULE Commands ------------------------------
(***************************************************************************)
(* What the settings of a command come to: from the archive command that   *)
(* is asked, through the rows of its work database, crashes, the resume    *)
(* command and the catalogue in the archive, to the extract command that   *)
(* asks again and the metadata it gives to the files (main.rs, archive.rs, *)
(* unarchive.rs, common/start.rs).  One archive, its two work directories  *)
(* on one host, one file; the phases are steps here and modelled elsewhere.*)
(***************************************************************************)
EXTENDS Options

CONSTANTS
    ArchiveLines, ExtractLines, ResumeLines,  \* what may be asked
    Root,        \* whether the commands run as root
    Host,        \* the names the host knows
    Member,      \* the file: its names and ids, [name, id], each per side
    MaxLaunches, \* commands given
    MaxCrashes   \* commands killed

\* The steps of RunFresh, and the phases the database tells of.
FreshSteps == {"save", "config", "filters", "policy", "mode", "transform"}
Phases == {"inventory", "hash", "filter", "dedup", "sparsify", "stage", "archive", "done"}

ASSUME CommandsAssumption ==
    /\ ArchiveLines \subseteq ArchiveArgs
    /\ ExtractLines \subseteq ExtractArgs
    /\ ResumeLines \subseteq ResumeArgs
    /\ Root \in BOOLEAN /\ Host \in Lookup
    /\ Member \in [name: [Sides -> Names \cup {NULL}], id: [Sides -> Ids \cup {NULL}]]
    /\ MaxLaunches \in Nat /\ MaxCrashes \in Nat
    /\ NULL \notin Phases /\ Bad \notin {"RunFresh", "Resume"}
    /\ \A line \in ArchiveLines, at \in FreshSteps:   \* no command is NULL
          NULL # [cmd |-> "archive", config |-> BuildArchive(line), line |-> NULL, at |-> at]

VARIABLES
    archive,  \* the catalogue in the finished archive, or NULL
    adb,      \* the archive work database, or NULL
    xdb,      \* the extraction work database, or NULL
    proc,     \* the command that runs, or NULL
    result,   \* what the last extraction did to the file, or NULL
    launches, crashes

vars == <<archive, adb, xdb, proc, result, launches, crashes>>

\* The rows of meta and the pattern table.  asked and strayed are history:
\* the line the run was started with, and what came between.
NoRows == [phase |-> NULL, config |-> NULL, patterns |-> {}, policy |-> NULL, mode |-> NULL,
           transform |-> NULL, file |-> NULL, asked |-> NULL, strayed |-> {}]

Init ==
    /\ archive = NULL /\ adb = NULL /\ xdb = NULL /\ proc = NULL /\ result = NULL
    /\ launches = 0 /\ crashes = 0

\* resolve_start
ResolveStart(policy, incomplete, finished) ==
    CASE policy = "fresh" -> "RunFresh"
      [] policy = "resume" /\ incomplete -> "Resume"
      [] policy = "create" /\ ~incomplete /\ ~finished -> "RunFresh"
      [] OTHER -> Bad

Running(cmd, at) == proc # NULL /\ proc.cmd = cmd /\ proc.at = at
Goto(at) == proc' = [proc EXCEPT !.at = at]
Command == proc = NULL /\ launches < MaxLaunches /\ launches' = launches + 1

-----------------------------------------------------------------------------
(* archive.rs: the start.                                                  *)

Incomplete(db) == db # NULL /\ db.phase \notin {NULL, "done"}

\* line: of the archive command, or NULL.  own: the configuration was built or
\* stored for this very database.
StartArchive(c, line, own) ==
    LET db == IF c.process.start = "fresh" THEN NULL ELSE adb
        rows == IF db = NULL THEN NoRows ELSE db
        action == ResolveStart(c.process.start, Incomplete(db), archive # NULL)
    IN  /\ adb' = CASE action = "RunFresh" ->
                         [rows EXCEPT !.asked = line,
                                      !.strayed = IF rows.phase = NULL THEN {} ELSE {"reused"}]
                    [] action = "Resume" ->
                         [rows EXCEPT !.strayed = IF own THEN @ ELSE @ \cup {"foreign"}]
                    [] OTHER -> db
        /\ proc' = IF action = Bad THEN NULL
                   ELSE [cmd |-> "archive", config |-> c, line |-> NULL,
                         at |-> IF action = "Resume" THEN "loop" ELSE "save"]
        /\ UNCHANGED <<archive, xdb, result, crashes>>

ArchiveCommand ==
    /\ Command
    /\ \E line \in ArchiveLines:
          LET c == BuildArchive(line) IN c # Bad /\ StartArchive(c, line, TRUE)

\* main.rs looks for an archive run first, which every catalogue holds too: the
\* database of an extraction resumes the archive run that its catalogue tells of.
ResumeCommand ==
    /\ Command
    /\ \E line \in ResumeLines:
          \/ /\ adb # NULL /\ adb.phase # NULL /\ adb.config # NULL
             /\ StartArchive(Resumed(adb.config, line), NULL, TRUE)
          \/ /\ xdb # NULL /\ xdb.meta.config # NULL
             /\ StartArchive(Resumed(xdb.meta.config, line), NULL, FALSE)

\* The statements of RunFresh, each a write of its own.
Write(at, next, rows) ==
    /\ Running("archive", at)
    /\ adb' = rows /\ Goto(next)
    /\ UNCHANGED <<archive, xdb, result, launches, crashes>>

SaveRuntimeState == Write("save", "config", [adb EXCEPT !.phase = "inventory"])
SetArchiveConfig == Write("config", "filters", [adb EXCEPT !.config = proc.config])
IngestFilters ==
    Write("filters", "policy", [adb EXCEPT !.patterns = @ \cup proc.config.filter.patterns])

PolicyOf(identity) == ParseOwnerGroupArgs(identity.texts, identity.maps)
\* A row is written for what was given, and left alone otherwise.
Given(new, old) == IF new = NULL THEN old ELSE new
SetOwnerPolicy ==
    Write("policy", "mode", [adb EXCEPT !.policy = Given(PolicyOf(proc.config.identity), @)])
SetModeChanges ==
    Write("mode", "transform", [adb EXCEPT !.mode = Given(proc.config.capture.mode, @)])
\* Wrong: one of the two rows is written, as with an else between them.
SetTransformOrMode ==
    Write("transform", "loop", [adb EXCEPT !.transform =
        IF proc.config.capture.mode = NULL THEN Given(proc.config.capture.transform, @) ELSE @])
SetTransform ==
    Write("transform", "loop", [adb EXCEPT !.transform = Given(proc.config.capture.transform, @)])

-----------------------------------------------------------------------------
(* archive.rs: the phases.                                                 *)

\* Wrong: hash is followed by filter wherever filter came from.
NextPhaseRound(phase, eager) ==
    CASE phase = "inventory" -> IF eager THEN "filter" ELSE "hash"
      [] phase = "hash" -> "filter"
      [] phase = "filter" -> IF eager THEN "hash" ELSE "dedup"
      [] phase = "dedup" -> "sparsify"
      [] phase = "sparsify" -> "stage"
      [] phase = "stage" -> "archive"
      [] phase = "archive" -> "done"

NextPhase(phase, eager) ==
    CASE phase = "inventory" -> IF eager THEN "filter" ELSE "hash"
      [] phase = "hash" -> IF eager THEN "dedup" ELSE "filter"
      [] phase = "filter" -> IF eager THEN "hash" ELSE "dedup"
      [] phase = "dedup" -> "sparsify"
      [] phase = "sparsify" -> "stage"
      [] phase = "stage" -> "archive"
      [] phase = "archive" -> "done"

\* The inventory resolves names unless the bit is set.
Captured(c) ==
    [name |-> IF c.capture.numericIdsOnly THEN [s \in Sides |-> NULL] ELSE Member.name,
     id |-> Member.id]

\* The next phase is saved, then --exit-after-stage looks at the one done.
FinishPhase(rows, next) ==
    LET completed == adb.phase
    IN  /\ adb' = [rows EXCEPT !.phase = NextPhase(completed, proc.config.filter.eager)]
        /\ IF proc.config.process.exitAfter = completed THEN proc' = NULL ELSE Goto(next)

RunPhase ==
    /\ Running("archive", "loop") /\ adb.phase # "archive"
    /\ FinishPhase(IF adb.phase = "inventory" THEN [adb EXCEPT !.file = Captured(proc.config)]
                                              ELSE adb, "loop")
    /\ UNCHANGED <<archive, xdb, result, launches, crashes>>

\* The archive file holds no catalogue at its end until the footer is written.
BeginArchive ==
    /\ Running("archive", "loop") /\ adb.phase = "archive"
    /\ archive' = NULL /\ Goto("footer")
    /\ UNCHANGED <<adb, xdb, result, launches, crashes>>

FinishArchive ==
    /\ Running("archive", "footer")
    /\ archive' = adb
    /\ FinishPhase(adb, "cleanup")
    /\ UNCHANGED <<xdb, result, launches, crashes>>

\* cleanup_workdir: the database is removed, or kept under another name.
CleanupArchive ==
    /\ Running("archive", "cleanup")
    /\ adb' = NULL /\ proc' = NULL
    /\ UNCHANGED <<archive, xdb, result, launches, crashes>>

-----------------------------------------------------------------------------
(* unarchive.rs                                                            *)

\* unarchive::run of a configuration that was just built.  The only start
\* policies are Create and Fresh: no command gets here with Resume.
ExtractCommand ==
    /\ Command /\ archive # NULL
    /\ \E line \in ExtractLines: \E c \in {BuildExtract(line, Root, Host)}:
          LET db == IF c.process.start = "fresh" THEN NULL ELSE xdb
              incomplete == db # NULL /\ db.phase # "done"
          IN  /\ c # Bad /\ ValidateExitAfterStage(c.process.exitAfter)
              /\ xdb' = db
              /\ proc' = IF ResolveStart(c.process.start, incomplete, FALSE) = Bad THEN NULL
                         ELSE [cmd |-> "extract", config |-> c, line |-> line, at |-> "scan"]
    /\ UNCHANGED <<archive, adb, result, crashes>>

\* A database that is there is opened and never replaced: over one that is
\* done, the scan finds every member processed.
Scan ==
    /\ Running("extract", "scan")
    /\ IF xdb # NULL THEN xdb' = xdb /\ Goto("config")
       ELSE /\ xdb' = [meta |-> archive, phase |-> NULL, config |-> NULL, patterns |-> {},
                       transform |-> NULL, restored |-> FALSE]
            /\ Goto("prepare")
    /\ UNCHANGED <<archive, adb, result, launches, crashes>>

\* init_extract_runtime_state and store_filter_buffer.
Prepare ==
    /\ Running("extract", "prepare")
    /\ xdb' = [xdb EXCEPT !.phase = "scan_tar", !.patterns = proc.config.filter.patterns]
    /\ Goto("config")
    /\ UNCHANGED <<archive, adb, result, launches, crashes>>

SetExtractConfig ==
    /\ Running("extract", "config")
    /\ xdb' = [xdb EXCEPT !.config = proc.config]
    /\ Goto("scan_tar")
    /\ UNCHANGED <<archive, adb, result, launches, crashes>>

NextExtractPhase ==
    [scan_tar |-> "filter", filter |-> "rehash", rehash |-> "placement_prologue",
     placement_prologue |-> "place", place |-> "permissions", permissions |-> "cleanup"]
StopAfterExtractPhase == [inventory |-> "scan_tar", hash |-> "rehash", filter |-> "filter",
                          cleanup |-> NULL]

\* The text of the line, or the one in the catalogue.
ResolveText(source, stored) ==
    CASE source.from = "none" -> NULL
      [] source.from = "cli" -> source.text
      [] source.from = "stored" -> stored

\* Wrong: one stored side brings the other with it.
ResolveOwnerGroupPolicyWhole(c, stored) ==
    CASE c.policy.from = "none" -> NULL
      [] c.policy.from = "cli" -> c.policy.policy
      [] OTHER -> stored

\* resolve_owner_group_policy: of the archive's policy, the sides asked for.
ResolveOwnerGroupPolicy(c, stored) ==
    LET part(f) == [s \in Sides |-> IF c.ownerGroup.apply[s] THEN stored[f][s] ELSE NULL]
    IN  CASE c.policy.from = "none" -> NULL
          [] c.policy.from = "cli" -> c.policy.policy
          [] OTHER -> IF stored = NULL THEN NULL
                      ELSE [map |-> part("map"), override |-> part("override")]

\* apply_one: without a policy no owner is set; the changes of mode come with
\* the mode itself.
Applied(c, meta, transform) ==
    LET p == ResolveOwnerGroupPolicy(c, meta.policy)
    IN  [ids |-> IF p = NULL THEN [s \in Sides |-> NULL]
                 ELSE ResolveOwnerGroup(meta.file, p, c.ownerGroup.target, c.ownerGroup.same, Host),
         mode |-> IF "same-permissions" \in c.attributes
                  THEN [set |-> TRUE, changes |-> ResolveText(c.mode, meta.mode)]
                  ELSE [set |-> FALSE, changes |-> NULL],
         transform |-> transform, line |-> proc.line, meta |-> meta]

\* A phase of the loop ends and the next one is saved.
RunExtractPhase ==
    /\ proc # NULL /\ proc.cmd = "extract" /\ proc.at \in DOMAIN NextExtractPhase
    /\ LET next == NextExtractPhase[proc.at]
           exit == proc.config.process.exitAfter
       IN  /\ xdb' = [xdb EXCEPT !.phase = next,
                 !.restored = @ \/ proc.at = "permissions",
                 !.transform = IF proc.at = "placement_prologue" /\ ~xdb.restored
                               THEN ResolveText(proc.config.transform, xdb.meta.transform) ELSE @]
           /\ result' = IF proc.at = "permissions" /\ ~xdb.restored
                        THEN Applied(proc.config, xdb.meta, xdb.transform) ELSE result
           /\ IF exit # NULL /\ StopAfterExtractPhase[exit] = proc.at THEN proc' = NULL
              ELSE Goto(next)
    /\ UNCHANGED <<archive, adb, launches, crashes>>

\* The phase done is saved before anything is removed.
CleanupExtract ==
    /\ \/ Running("extract", "cleanup") /\ xdb' = [xdb EXCEPT !.phase = "done"] /\ Goto("remove")
       \/ Running("extract", "remove") /\ xdb' = NULL /\ proc' = NULL
    /\ UNCHANGED <<archive, adb, result, launches, crashes>>

-----------------------------------------------------------------------------
(* What is not the program's.                                              *)

\* A kill while RunFresh writes its rows leaves a run that resumes without
\* those it had not come to.
Crash ==
    /\ proc # NULL /\ crashes < MaxCrashes
    /\ proc' = NULL /\ crashes' = crashes + 1
    /\ adb' = IF proc.cmd = "archive" /\ proc.at \in {"filters", "policy", "mode", "transform"}
              THEN [adb EXCEPT !.strayed = @ \cup {"torn"}] ELSE adb
    /\ UNCHANGED <<archive, xdb, result, launches>>

\* The user moves the archive away.
TakeArchive ==
    /\ proc = NULL /\ archive # NULL
    /\ archive' = NULL
    /\ UNCHANGED <<adb, xdb, proc, result, launches, crashes>>

Work ==
    \/ SaveRuntimeState \/ SetArchiveConfig \/ IngestFilters \/ SetOwnerPolicy
    \/ SetModeChanges \/ SetTransform
    \/ RunPhase \/ BeginArchive \/ FinishArchive \/ CleanupArchive
    \/ Scan \/ Prepare \/ SetExtractConfig \/ RunExtractPhase \/ CleanupExtract

Next == ArchiveCommand \/ ResumeCommand \/ ExtractCommand \/ Work \/ Crash \/ TakeArchive

Spec == Init /\ [][Next]_vars /\ WF_vars(Work)

-----------------------------------------------------------------------------
(* Properties.                                                             *)

\* The settings in a database are those of the line its run was started with.
AsAsked(db) ==
    LET c == BuildArchive(db.asked)
    IN  /\ db.config = c /\ db.patterns = c.filter.patterns
        /\ db.policy = PolicyOf(c.identity)
        /\ db.mode = c.capture.mode /\ db.transform = c.capture.transform
        /\ db.file = Captured(c)

\* The catalogue of a finished archive holds the settings of the line that
\* started it (config, patterns, policy, mode, transform, recorded names),
\* whatever was killed and resumed in between, unless one of the three known
\* causes came between: a kill inside RunFresh, a start over a finished
\* database, a resume with the configuration of an extraction's catalogue.
StrayHasCause == archive # NULL /\ archive.strayed = {} => AsAsked(archive)

\* The ids that destinations lead to on this host.
Emitted(destinations, s) ==
    {Field(d, "id") : d \in destinations}
      \cup {Host[s][d.name] : d \in {x \in destinations : x # NULL /\ x.name # NULL}}

Flag(f) == f \in result.line.attributes.flags
Asks(f) == ~Flag(Off[f]) /\ (Flag(f) \/ Flag("apply-all-metadata"))

\* Whose identities a side of the file follows: one line, never both.
Authority(s) ==
    IF HasCli(result.line.identity) THEN PolicyOf(result.line.identity)
    ELSE IF Asks(IF s = "owner" THEN "apply-stored-owner-map" ELSE "apply-stored-group-map")
         THEN PolicyOf(result.meta.asked.identity) ELSE NULL

Own(s) == LET file == result.meta.file IN Emitted({[name |-> file.name[s], id |-> file.id[s]]}, s)

\* An extraction gives the file no owner and no group that does not come from
\* the line of the extraction or, where that names none and asks for the
\* stored ones, from the line of the archive, and its own ids only with
\* --same-owner; and no mode unless modes are asked for
\* (resolve_owner_policy_from_args, resolve_owner_group_policy, apply_one).
NothingUnasked ==
    result # NULL /\ result.meta.strayed = {} =>
        /\ \A s \in Sides:
              result.ids[s] \in {NULL}
                \cup (IF Authority(s) = NULL THEN {} ELSE Emitted(Destinations(Authority(s), s), s))
                \cup (IF ~Flag("no-same-owner") /\ (Flag("same-owner") \/ Root)
                      THEN Own(s) ELSE {})
        /\ result.mode.set => Asks("same-permissions")
        /\ result.mode.changes \in {NULL, result.line.attributes.mode, result.meta.asked.capture.mode}
        /\ result.transform # NULL /\ result.line.attributes.transform = NULL =>
              Asks("apply-transform") /\ result.transform = result.meta.asked.capture.transform

\* A policy says something about a side of the file.
Speaks(p, s) ==
    LET file == result.meta.file
    IN  Chosen(file.name[s], file.id[s], MapOf(p, s)) # NULL \/ p.override[s] # NULL
Emits(p) == \A s \in Sides: Speaks(p, s) => result.ids[s] # NULL

\* With --validate-maps, a file that the maps and overrides of the line speak
\* of gets an id: what was accepted at the start can be emitted at the end.
CliMapsEmit ==
    result # NULL /\ Flag("validate-maps") /\ HasCli(result.line.identity) =>
        LET p == PolicyOf(result.line.identity) IN p # NULL => Emits(p)

\* The same of the policy in the archive, which nothing validates (the help
\* of --validate-maps makes no difference).
ValidatedMapsEmit ==
    result # NULL /\ Flag("validate-maps") =>
        \A s \in Sides: Authority(s) # NULL /\ Speaks(Authority(s), s) => result.ids[s] # NULL

\* --numeric-ids-only: "Record numeric uids/gids instead of resolving
\* user/group names during inventory" (cli.rs).
NumericIdsOnly ==
    archive # NULL /\ archive.strayed = {} /\ "numeric-ids-only" \in archive.asked.capture.flags =>
        \A s \in Sides: archive.file.name[s] = NULL

\* --same-owner: "Restore archived uid/gid when possible".
SameOwnerRestores ==
    result # NULL /\ Flag("same-owner") /\ result.line.attributes.target # "names" =>
        \A s \in Sides: result.ids[s] # NULL

\* A run that Create or Fresh starts is a new run: it takes nothing over from
\* a database that an earlier run has finished.
NewRunIsNew == archive # NULL /\ archive.strayed \subseteq {"reused"} => AsAsked(archive)

\* Every command comes to its end.
Settles == proc # NULL ~> proc = NULL
=============================================================================
