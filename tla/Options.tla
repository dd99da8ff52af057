------------------------------- MODULE Options -------------------------------
(***************************************************************************)
(* From the command line to the configuration a run works with (cli.rs,    *)
(* config.rs, config/*.rs): pairs of flags and the umbrella flags above    *)
(* them, formats and levels, threads and memory, identities, and all that  *)
(* a build refuses.                                                        *)
(*                                                                         *)
(* A line is a record.  Its flags are the long options given, its paths    *)
(* are those that lead nowhere ("absent"), its numbers those that were     *)
(* given as 0 ("zeros"); patterns, changes and expressions are texts that  *)
(* parse or not.  Options that only pass through to one phase, and are     *)
(* modelled there, are left out of the configuration.                      *)
(***************************************************************************)
EXTENDS Identity, FiniteSets

CONSTANTS
    Changes,   \* texts of --mode that parse
    Exprs,     \* texts of --transform that parse
    Patterns,  \* texts of --include and --exclude that parse
    Cpus,      \* num_cpus::get()
    Memory     \* xz: what each number of threads needs, up to the most asked for

ASSUME OptionsAssumption ==
    /\ Memory \in Seq(Nat)
    /\ Cpus \in DOMAIN Memory
    /\ {NULL, Bad} \cap (Nat \cup Changes \cup Exprs) = {}

Formats == {"xz", "gzip", "bzip2", "zstd", "none"}
Stages == {"inventory", "hash", "filter", "dedup", "sparsify", "stage", "archive", "cleanup"}
Counts == {"jobs", "ioJobs", "autoFlushLimit", "batchSize", "workCapacity", "outCapacity",
           "feedChunk", "drainChunk"}

-----------------------------------------------------------------------------
(* The arguments. *)

IdentityArgs == [texts: [Sides -> Text \cup {NULL}], maps: [Sides -> Seq(Seq(Text)) \cup {NULL}]]
CompressionArgs ==
    [filters: SUBSET (Formats \ {"none"}), suffix: Formats, level: Nat \cup {NULL},
     extreme: BOOLEAN, memlimit: Nat \cup {NULL, Bad}]
FilterArgs == [patterns: SUBSET Patterns, lazy: BOOLEAN]
ProcessArgs ==
    [jobs: 0..Len(Memory) \cup {NULL}, ioJobs: Nat \cup {NULL}, zeros: SUBSET Counts, fresh: BOOLEAN,
     exitAfter: Stages \cup {NULL}]

\* What the archive does with an attribute: whether it is captured.
CaptureArgs ==
    [flags: SUBSET {"acls", "no-acls", "xattrs", "no-xattrs", "selinux", "no-selinux",
                    "numeric-ids-only", "resolve-numeric-ids", "no-capture-all-metadata"},
     mode: Changes \cup {NULL, Bad}, transform: Exprs \cup {NULL, Bad}]

InputArgs ==
    [inputs: Nat, filesFrom: Nat, overlap: BOOLEAN, separation: BOOLEAN,
     vcs: BOOLEAN, shards: BOOLEAN, maxShardSize: Nat, sparsify: BOOLEAN,
     zeroPage: BOOLEAN]

ArchiveArgs ==
    [input: InputArgs, compression: CompressionArgs, filter: FilterArgs, capture: CaptureArgs,
     identity: IdentityArgs, process: ProcessArgs, absent: SUBSET {"directory", "input",
     "filesFrom", "ownerMap", "groupMap", "includeFrom", "excludeFrom"}]

PlacementArgs ==
    [flags: SUBSET {"clean-target", "no-create-dirs", "link-tree", "no-sidecar", "no-errors"},
     oneTopLevel: {NULL, "name", "path"}, linkSource: {NULL, "name", "path"},
     sidecar: {"always", "on-error", "never"}]

AttributeFlags == {"same-owner", "apply-stored-owner-map", "apply-stored-group-map",
    "apply-mode", "apply-transform", "apply-atime", "apply-mtime", "xattrs", "acls", "selinux",
    "same-permissions"}
Off == [f \in AttributeFlags |->
    CASE f = "same-owner" -> "no-same-owner"
      [] f = "apply-stored-owner-map" -> "no-apply-stored-owner-map"
      [] f = "apply-stored-group-map" -> "no-apply-stored-group-map"
      [] f = "apply-mode" -> "no-apply-mode"
      [] f = "apply-transform" -> "no-apply-transform"
      [] f = "apply-atime" -> "no-apply-atime"
      [] f = "apply-mtime" -> "no-apply-mtime"
      [] f = "xattrs" -> "no-xattrs"
      [] f = "acls" -> "no-acls"
      [] f = "selinux" -> "no-selinux"
      [] f = "same-permissions" -> "no-same-permissions"]

AttributeArgs ==
    [flags: SUBSET (AttributeFlags \cup {Off[f] : f \in AttributeFlags}
                      \cup {"apply-all-metadata", "validate-maps"}),
     target: Targets, mode: Changes \cup {NULL, Bad}, transform: Exprs \cup {NULL, Bad}]

ExtractArgs ==
    [placement: PlacementArgs, attributes: AttributeArgs, identity: IdentityArgs,
     compression: CompressionArgs, filter: FilterArgs, process: ProcessArgs, sparsify: BOOLEAN,
     zeroPage: BOOLEAN, absent: SUBSET {"directory", "archive", "ownerMap", "groupMap",
     "includeFrom", "excludeFrom"}]

ResumeArgs ==
    [jobs: 0..Len(Memory) \cup {NULL}, ioJobs: Nat \cup {NULL}, exitAfter: Stages \cup {NULL}]

-----------------------------------------------------------------------------
(* Blocks that both commands build. *)

\* An explicit --no-x wins, then --x, then the umbrella.
ResolveBoolFlag(flags, no, yes, base) == no \notin flags /\ (yes \in flags \/ base)

\* A filter flag beats the suffix; two of them are refused.
ResolveCompression(c) ==
    CASE c.filters = {} -> c.suffix
      [] Cardinality(c.filters) = 1 -> CHOOSE f \in c.filters: TRUE
      [] OTHER -> Bad

LevelRange == [xz |-> 0..9, gzip |-> 1..9, bzip2 |-> 1..9, zstd |-> 1..19]
DefaultLevel(format) == CHOOSE l \in LevelRange[format]: l + 1 \notin LevelRange[format]

\* Level and extreme bit; the default is the strongest level.
ResolveCompressOptions(format, c) ==
    IF c.extreme /\ format # "xz" THEN Bad
    ELSE IF format = "none" THEN IF c.level # NULL THEN Bad ELSE [level |-> 0, extreme |-> FALSE]
    ELSE LET l == IF c.level = NULL THEN DefaultLevel(format) ELSE c.level
         IN  IF l \in LevelRange[format] THEN [level |-> l, extreme |-> c.extreme] ELSE Bad

CompressionSettings(c) ==
    LET format == ResolveCompression(c)
        options == ResolveCompressOptions(format, c)
    IN  IF \/ format = Bad \/ options = Bad \/ c.memlimit = Bad
           \/ c.memlimit # NULL /\ format # "xz"
        THEN Bad
        ELSE [format |-> format, level |-> options.level, extreme |-> options.extreme,
              memlimit |-> c.memlimit]

\* The encoder gives up threads until the rest fits; one thread has to fit.
ResolveXzThreads(jobs, memlimit) ==
    LET requested == IF jobs = 0 THEN 1 ELSE jobs
        fits == {n \in 1..requested: memlimit = NULL \/ Memory[n] <= memlimit}
    IN  CASE requested \in fits -> requested
          [] fits = {} -> Bad
          [] OTHER -> CHOOSE n \in fits: \A k \in fits: k <= n

\* The numbers of workers, and the stage to exit after.
ProcessOptions(p) ==
    [start |-> IF p.fresh THEN "fresh" ELSE "create",
     jobs |-> IF p.jobs = NULL THEN Cpus ELSE p.jobs,
     ioJobs |-> IF p.ioJobs = NULL THEN Cpus ELSE p.ioJobs,
     exitAfter |-> p.exitAfter]

ValidateProcess(p) ==
    p.zeros = {} /\ ProcessOptions(p).jobs > 0 /\ ProcessOptions(p).ioJobs > 0

FilterOptions(f) == [patterns |-> f.patterns, eager |-> ~f.lazy]

-----------------------------------------------------------------------------
(* archive *)

ValidateCapturePairs(flags) ==
    /\ ~({"acls", "no-acls"} \subseteq flags)
    /\ ~({"xattrs", "no-xattrs"} \subseteq flags)
    /\ ~({"selinux", "no-selinux"} \subseteq flags)
    /\ ~({"numeric-ids-only", "resolve-numeric-ids"} \subseteq flags)

\* Everything is captured unless the umbrella is off.  --numeric-ids-only is
\* read as the negative of the pair: the flag clears the bit of its name.
CaptureOptions(c) ==
    LET all == "no-capture-all-metadata" \notin c.flags
        bit(no, yes) == ResolveBoolFlag(c.flags, no, yes, all)
    IN  [xattrs |-> bit("no-xattrs", "xattrs"), acls |-> bit("no-acls", "acls"),
         selinux |-> bit("no-selinux", "selinux"),
         numericIdsOnly |-> bit("numeric-ids-only", "resolve-numeric-ids"),
         mode |-> c.mode, transform |-> c.transform]

ValidateInputs(i) ==
    /\ i.inputs > 0 \/ i.filesFrom > 0
    /\ i.overlap => ~i.separation
    /\ ~i.vcs

\* Sparse copies need pages to compare.
ValidateSparse(sparsify, zeroPage) == ~(sparsify /\ zeroPage)

ValidatePipeline(i) == ~i.shards /\ i.maxShardSize = 0

ArchiveConfig(line) ==
    [kind |-> "archive", capture |-> CaptureOptions(line.capture), identity |-> line.identity,
     compression |-> CompressionSettings(line.compression),
     filter |-> FilterOptions(line.filter), sparsify |-> line.input.sparsify,
     process |-> ProcessOptions(line.process)]

\* ArchiveConfig::build: the configuration, or the error of the first check.
BuildArchive(line) ==
    LET c == ArchiveConfig(line)
    IN  IF /\ ValidateCapturePairs(line.capture.flags)
           /\ line.absent = {}
           /\ c.compression # Bad
           /\ ValidateInputs(line.input)
           /\ Bad \notin {c.capture.mode, c.capture.transform}
           /\ ParseOwnerGroupArgs(line.identity.texts, line.identity.maps) # Bad
           /\ ValidateSparse(line.input.sparsify, line.input.zeroPage)
           /\ ResolveXzThreads(c.process.jobs, c.compression.memlimit) # Bad
           /\ ValidateProcess(line.process)
           /\ ValidatePipeline(line.input)
        THEN c ELSE Bad

-----------------------------------------------------------------------------
(* extract *)

ValidateMetadataPairs(flags) == \A f \in AttributeFlags: ~({f, Off[f]} \subseteq flags)

\* Nothing is applied unless it is asked for, or the umbrella is on.
Applies(flags, f) == ResolveBoolFlag(flags, Off[f], f, "apply-all-metadata" \in flags)

\* The exception: without a flag the effective uid decides, umbrella or not.
SameOwner(flags, root) ==
    IF "no-same-owner" \in flags THEN FALSE ELSE "same-owner" \in flags \/ root

HasCli(identity) == \E s \in Sides: identity.texts[s] # NULL \/ identity.maps[s] # NULL

\* The identities of the line if it gives any, else the archive's: never a mix.
ResolveOwnerPolicy(line, host) ==
    LET a == line.attributes
        p == ParseOwnerGroupArgs(line.identity.texts, line.identity.maps)
    IN  IF HasCli(line.identity)
        THEN CASE p = Bad -> Bad
               [] p = NULL -> [from |-> "none"]
               [] OTHER -> IF /\ "validate-maps" \in a.flags
                              /\ ~ValidateForResolutionMode(p, a.target, host)
                           THEN Bad
                           ELSE [from |-> "cli", policy |-> p]
        ELSE IF \/ Applies(a.flags, "apply-stored-owner-map")
                \/ Applies(a.flags, "apply-stored-group-map")
             THEN [from |-> "stored"]
             ELSE [from |-> "none"]

\* --mode and --transform: the text of the line, else the archive's.
ResolveTextPolicy(text, apply) ==
    CASE text = Bad -> Bad
      [] text = NULL -> IF apply THEN [from |-> "stored"] ELSE [from |-> "none"]
      [] OTHER -> [from |-> "cli", text |-> text]

OwnerGroupOptions(line, root, policy) ==
    LET flags == line.attributes.flags
        stored(f) == policy # Bad /\ policy.from # "cli" /\ Applies(flags, f)
    IN  [target |-> line.attributes.target, same |-> SameOwner(flags, root),
         validate |-> "validate-maps" \in flags,
         apply |-> [s \in Sides |-> IF s = "owner" THEN stored("apply-stored-owner-map")
                                                   ELSE stored("apply-stored-group-map")]]

ValidateName(name) == name # "path"
ValidatePlacement(p) ==
    /\ ~({"clean-target", "no-create-dirs"} \subseteq p.flags)
    /\ ValidateName(p.linkSource) /\ ValidateName(p.oneTopLevel)

\* What on-error comes to where no error can be recorded.
EffectiveSidecarMode(p) ==
    LET mode == IF "no-sidecar" \in p.flags THEN "never" ELSE p.sidecar
    IN  IF mode = "on-error" /\ p.flags \cap {"no-errors", "link-tree"} # {} THEN "never" ELSE mode

ExtractConfig(line, root, host) ==
    LET a == line.attributes
        policy == ResolveOwnerPolicy(line, host)
    IN  [kind |-> "extract", policy |-> policy,
         ownerGroup |-> OwnerGroupOptions(line, root, policy),
         mode |-> ResolveTextPolicy(a.mode, Applies(a.flags, "apply-mode")),
         transform |-> ResolveTextPolicy(a.transform, Applies(a.flags, "apply-transform")),
         attributes |-> {f \in {"apply-atime", "apply-mtime", "xattrs", "acls", "selinux",
                                "same-permissions"} : Applies(a.flags, f)},
         sidecar |-> EffectiveSidecarMode(line.placement),
         filter |-> FilterOptions(line.filter), process |-> ProcessOptions(line.process)]

\* ExtractConfig::build on a host, as root or not.
BuildExtract(line, root, host) ==
    LET c == ExtractConfig(line, root, host)
    IN  IF /\ line.absent = {}
           /\ ResolveCompression(line.compression) # Bad
           /\ ValidateMetadataPairs(line.attributes.flags)
           /\ Bad \notin {c.policy, c.mode, c.transform}
           /\ ValidatePlacement(line.placement)
           /\ ValidateSparse(line.sparsify, line.zeroPage)
           /\ ValidateProcess(line.process)
        THEN c ELSE Bad

-----------------------------------------------------------------------------
(* resume *)

\* The stored configuration with the overrides of the line, which nothing checks.
Resumed(stored, line) ==
    LET over(x, old) == IF x = NULL THEN old ELSE x
        p == stored.process
    IN  [stored EXCEPT !.process =
            [start |-> "resume", jobs |-> over(line.jobs, p.jobs),
             ioJobs |-> over(line.ioJobs, p.ioJobs),
             exitAfter |-> over(line.exitAfter, p.exitAfter)]]

\* Archive-only stages are refused by an extraction when it starts.
ValidateExitAfterStage(stage) == stage \in {NULL, "inventory", "hash", "filter", "cleanup"}
=============================================================================
