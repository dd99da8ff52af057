# A verification development of tar-dedup

tar-dedup archives directory trees into one compressed tar file in which each
content is stored once, and restores them. An archive run walks, hashes,
filters, deduplicates, stages and appends; an extract run scans the stream,
rehashes, places files and sets permissions. Both are pipelines of phases over
one SQLite database, both are meant to be interrupted, killed and rerun at any
point. This directory holds TLA+ modules of the parts where that is hard, the
TLC configurations that check them, and TLAPS proofs.

All source paths below are relative to `src/crates/tar-dedup-lib/src/`.
`PROJECT.json` maps every definition to its source lines and lists runs,
mutants, findings, hazards and theorems.

## Inventory

| Part (sources) | State | Operations | What makes it hard |
|---|---|---|---|
| Archive driver (`archive.rs`, `db/state.rs`, `common/start.rs`) | saved phase, workdir lock, archive file | decide start, run each phase, save the next phase, verify, clean up | phase saved after the work: every phase must tolerate being run again; several statements per decision |
| Inventory (`archive/inventory.rs`) | files, sources, references, errors | walk each source and list, insert batches | a resumed walk purges and starts over; files vanish; sources overlap through links |
| Hash (`archive/hash.rs`, `db/hash.rs`) | sha1, hard link canonicals, error flag | hash one name per inode, copy to the others | propagation between names of an inode; read errors |
| Filter (`archive/filter.rs`) | filter reason, hard link canonical | decide per row, move the canonical flag | runs before or after hashing |
| Dedup (`archive/dedup.rs`, `db/dedup.rs`) | phase, canonical_id, check and error flags, dedup_progress, in-flight table | three prologue statements, group state machine, pull, compare, ingest | worker pool against table, rounds, error paths, rerun with half a round |
| Worker loop (`common.rs`) | feed buffer, two channels, counters | drain, tick, pull, send, wind down | a pair travels while its group moves on; shutdown; panics |
| Sparsify (`archive/sparsify.rs`) | hole flag | the same loop, one candidate per file | as above |
| Stage (`archive/stage.rs`) | symlinks in the stage directory, phase | create link, update row | file system against table |
| Session writer (`archive/tar_builder.rs`, `db/tar_writer.rs`, `tar_writer.rs`, `archive_footer.rs`) | archive file, archive_sessions, session_id, recorded length, queue table | recover, begin, manifest, queue, append, close, snapshot, trailer | file against table, truncation, stopped sessions that must concatenate |
| Archive format (`tar_writer.rs`, `compression/`, `archive_footer.rs`, `tar_reader.rs`) | blocks held back, compressor | hold back the end marker, finish the stream, append and read the footer | streams per session; writes that fail after they took something |
| Extract driver (`unarchive.rs`) | saved phase, scan state | phase order, resume | no lock; two saves per phase |
| Scan (`unarchive/scan.rs`) | cache files, embedded databases, FileExtracted | take snapshots and members in arrival order | interrupted passes, which snapshot wins |
| Rehash (`unarchive/rehash.rs`) | queue, mismatch verdict | hash cached payloads | the verdict must survive a rerun |
| Placement (`unarchive/place_prologue.rs`, `unarchive/place.rs`, `db/place.rs`) | out-tree rows, source rows, targets on disk | elect canonicals, directories, files, hard links, link tree | moves and removals on disk against rows |
| Permissions (`unarchive/permissions.rs`) | Permission flags, inode metadata | owner, mode, times, attributes | directories after their content |
| Command line, configuration (`cli.rs`, `config/`, `common/identity.rs`, `main.rs`) | `meta` rows of the work database, the catalogue in the archive | parse, refuse, default, store, restore, dispatch `resume` | what the first line asked for must reach an extraction years later, over kills between stores |
| Names and filters (`common/transform.rs`, `common/filter.rs`, `common/files.rs`) | rule tables | parse expressions and patterns, match, rename, strip | delimiters, references, joint patterns |
| Copies (`common/sparse.rs`, `sparse-cp`) | none | copy with holes, count empty pages | holes at the end, given-up copies |
| Shutdown (`shutdown.rs`) | one atomic mode | first signal graceful, third force | two kinds of check (loop, in flight) |
| Integrity batteries (`db/integrity.rs`) | none | assertions after each phase | they panic: a state they reject stops every later run |

Interaction: phases communicate through the `files` table only and run on one
driving thread. Dedup, sparsify, hash and rehash each start a scoped worker pool
over two channels. The signal handler shares one atomic with everybody. The
archive file is shared by the runs of one archive, and by the extract run later.

What makes each part correct: a row moves forward through the phases and a
decision on it is final (dedup, driver); a link leads to a stored payload with
the same bytes (dedup, placement); each payload is in the archive once, table
and file agree after any crash (sessions); the catalogue used by an extraction
describes the archive it came from (scan); nothing that was placed is deleted
and nothing missing is reported as placed (placement); and every run ends,
without tripping over what an earlier one left (all).

## Modules

| Module | What it is | State |
|---|---|---|
| `Dedup` | dedup phase with worker pool, signals, crash and rerun | checked, proved |
| `DedupProofs` | the two inductive invariants of `Dedup` and what follows from them | proved |
| `MCDedup` | instances | |
| `ArchiveSession` | the session writer with crash, rerun, failing reads and writes, force | checked, proved |
| `ArchivePromise` | abstract specification of it: commit, excuse, seal | refined by `ArchiveSession`, checked and proved |
| `ArchiveProofs` | the inductive invariant of `ArchiveSession` and the refinement | proved |
| `MCArchive` | instances | |
| `OutTree` | the tree to be built, its rows, and the placement prologue that fills and groups it | checked |
| `Placement` | the target file system, the three passes with their worker pool, stage clean-up | checked |
| `LinkTree` | the other way of placing: payloads to a link source, links into the target | checked |
| `Placing` | prologue, placement and link tree composed, with signals, crashes, reruns; properties | checked, proved |
| `PlacingProofs` | the inductive invariants of the prologue's tables, of the election and of the payloads, and what follows from them | proved |
| `MCPlacing` | instances | |
| `ScanTar` | the pass over the archive: catalogue, members, snapshots, cache, saved index | checked, proved |
| `Unarchive` | extract driver, scan, filter, rehash composed; properties | checked, proved |
| `UnarchiveProofs` | the inductive invariant of `Unarchive` and what follows from it | proved |
| `MCScan` | instances | |
| `Permissions` | the restoring of owner, mode, attributes and times, sidecars, error records; properties | checked, proved |
| `PermissionsProofs` | the inductive invariant of `Permissions` and what follows from it | proved |
| `MCPermissions` | instances | |
| `Catalogue` | what the phases of an archive run share: tree, tables, stage, archive file, worker pool | checked |
| `Intake` | inventory, hash and filter | checked |
| `Staging` | sparsify and stage | checked |
| `Pipeline` | an archive run from the command to the clean-up; the phases composed, with crashes, signals, further commands; properties | checked, proved |
| `PipelineProofs` | the inductive invariant of `Pipeline` and its phases, and what follows from it | proved |
| `MCPipeline` | instances | |
| `SendReceive` | the worker loop on its own: bounded channels, markers, joins, panics; properties | checked, proved |
| `WorkPool` | abstract specification of it: commit, excuse, return | refined by `SendReceive`, checked and proved |
| `PartsProofs` | the inductive invariants of `SendReceive`, `Framing` and `Sources`, what follows from them, and the refinement | proved |
| `MCSendReceive` | instances | |
| `Identity` | owners and groups: specs, maps, policies, what a name or an id comes to | checked, proved |
| `Options` | the arguments of the commands, their refusals and defaults, the configuration they make | checked |
| `Commands` | `archive`, `extract` and `resume` over the settings stored in databases and archive, with kills; properties | checked, proved |
| `CommandsProofs` | what a validated policy guarantees; the two inductive invariants of `Commands` and what follows from them | proved |
| `MCCommands` | instances | |
| `Sources` | the inventory over several sources and lists, links and mounts; properties | checked, proved |
| `MCSources` | instances | |
| `Framing` | blocks, sink, buffer, compressor, footer and its readers; properties | checked, proved |
| `MCFraming` | instances | |
| `Filters`, `Names`, `SparseCopy` | pure functions: rules, sed expressions and member names, copies with holes | checked |
| `MCFunctions` | one state per input of these, and their properties | checked |

`ArchiveSession` hands over to `ScanTar` (the archive is a sequence of members
in both, there of units inside sessions, here as a reader sees it), `Unarchive`
ends where `Placing` begins: its last phase is the prologue; `Permissions`
begins where `Placing` ends. `Pipeline` holds
`Dedup` and `ArchiveSession` as phases that keep what those modules show of them.
`SendReceive` is the loop that hash, sparsify, dedup, rehash and placement share;
inside those phases the pool is a set of items at work, without its bounds.
`Commands` is about what the phases are told, and leaves out what they do.
`Sources` refines the inventory that `Intake` has for one source; `Framing` is
below `ArchiveSession`: there a session is a list of units, here of blocks. What
`Filters`, `Names` and `SparseCopy` compute are sets and tables in `Intake`,
`ScanTar`, `OutTree`, `Staging`.
The modules with a state of several parts state a `TypeOK`; it is proved for
`Dedup`, `ArchiveSession`, `SendReceive`, `Unarchive`, `Pipeline`, `Permissions`, `Framing` and `Sources`.

### Dedup

State. `phase`, `canonical`, `check`, `err`, `group` are the columns, flags and
the dedup_progress table and survive a crash. `inflight` is the TEMP table,
`feed` the pulled and unsent pairs, `work` and `out` the two channels together
with the pairs in workers' hands; all four die with the process. `corpus` is
the catalogue the phase starts from, with the options that change control flow.

Actions. The three prologue statements (`PromoteIneligible`, `PromoteEmpty`,
`PromoteSingleton`) and `Populate` or `BulkPromote`; then the loop: `Drain`
applies a batch of outcomes in one transaction, the five tick statements
(`SearchingToFinished`, `FinishToError`, `FinishToDone`, `FinishToReady`,
`ReadyToSearching`) run in their order, `Feed` pulls and sends. `WorkerCompare`
and `WorkerDrop` are the workers; `WindDownDrain`, `Finish` and `Verify` end
the phase. `Signal` and `Restart` are the environment. The loop statement order
is the `pc`, so no statement may be skipped.

Abstractions. Channels and the feed buffer are sets: workers finish in any
order, so the order in the channels carries nothing. Bounded channels are
unbounded here, which adds interleavings. A comparison yields what the bytes
say, or an error for a file in `corpus.fails`, which *may* fail each time it is
read. Sparse maps, buffers and progress are left out.

### ArchiveSession

State. The archive is a sequence of units: embedded database copies with the
rows they confirm, members, tar end marker, stream end, trailer head and tail,
torn pieces. Its length is the number of units. `sessions`, `session`
(files.session_id), `err`, `phase`, `queue` and `bytesOut` are tables. `stream`
is what went into the compressor of the open session: until `Close`, the file
holds some prefix of it, and a crash (`Abandoned`) chooses which.

Actions follow `run()` from recovery to the trailer, one autocommitted
statement or one write each: `Recover`, `Abort`, `Revert`, `Decide`, `Begin`,
`PromoteIneligible`, `WriteManifest`, `PopulateQueue`, `NextRow`,
`AppendMember`, `Excuse`, `Stop`, `Collect`, `WriteSnapshot`, `Unwrap`,
`Close`, `RecordSession`, `RecordBytes`, `FooterHead`, `FooterTail`, `Leave`,
`Verify`; `Signal` and `Restart` are the environment.

Abstractions. The queue's order is ascending id, a batch is its rows one by
one (only this thread writes them), `bytes_in` and timestamps are left out, the
archive file does not exist before the first session.

External behaviour that is assumed, from how the code uses it: `write_all`
and `io::copy` retry an error of kind `Interrupted`; `tar::Builder` writes a
member's header before it reads its content and an end marker in `into_inner`;
the constructors `XzDecoder::new`, `GzDecoder::new` and `BzDecoder::new` decode
one stream, the zstd decoder all of them.

`Adverse` names the circumstances the code does not survive, so that a run can
switch each of them on. The passing run explores `force`, which no invariant
minds, and none of the others:
`revert` (crash between the two statements of `abort_incomplete_session`),
`excuse` (crash between an error flag and the row's phase), `meta` (crash
between closing a session and recording its length, where an older length
exists), `leave` (crash after the trailer and before Done is saved), `torn` (a
read that fails in the middle of a member), `force` (the third signal).

### OutTree, Placement, LinkTree, Placing

State. `cat` is the catalogue with the settings and what the target held before.
`planned` is the tables of the prologue: `newName`, the out-tree rows `tree`
(path, file, the row it is linked to, flags), `refOut`, `conflicts`. `world` is
the file system: `disk` (a node per path: absent, old, directory, link, half or
whole payload of a row), `cache` (payloads in the stage), `store` (payloads in
the link source), `workDir`. `pool` is queue, busy workers and outcomes, and
dies with the process, as do `pc`, `at`, `refs` and `cursor`. The code pages its lists by
row id, the sources one after the other; `cursor` is the last entry <<source, list, id>>
that such a walk has seen, so that a page is what lies behind it and a restart is a
walk from the start over tables that are partly filled.

Actions. Prologue: `EnterPhase`, `Rename`, `InsertBatch`, `InsertRef`,
`EnsureParents`, `SetTreeBuilt`, `ElectStep` (one SQL statement of the election
at a time), `FinishPrologue`, `VerifyPrologue` (checks E5 to E7). Placement:
`CleanTarget`, `BuildDirs`, then for each of the passes Files, Hardlinks, Others
`OpenPass`, `Feed`, workers' `WorkerBegin`/`WorkerFinish`/`DropWork`, `Ingest` (a
batch, one transaction), `EndPass`; `Sweep` (cleanup_stage, after the files and at
the end), `ApplyFlags`, `Promote`, `VerifyPlace` (E8, E9). Link tree:
`OpenMove`, `BeginMove`, `FinishMove`, `IngestMove`, `EndMove`, `OpenLink`,
`LinkOne`, `IngestLinks`. A copy is two steps, `BeginCopy` (the target is opened
and truncated, or unlinked) and `FinishCopy`, so that a crash, an abort or a
failed read falls between them.

Abstractions. Paths are a small tree of model values; the transforms and
`build_path`'s components are tables and one step per row. A path is a directory,
an old file, a link or a payload; times are the set of members newer than what
they meet; a reflink is a copy that may be noted.

The extraction root has more than one text. A member that is mapped to it (`-i .`,
`-i /`, a rename) is stored as `<ed>/.`, or as `<ed>/` with absolute names, which the
unique key takes for another path than the `<ed>` that `ensure_parent` adds. In the
model these are `Here` and `Root`, and `Up` is the directory that holds the root:
`Path::parent` of `Here` is `Up`, as of `Root`. Rows are told apart by text, the disk
by what a text resolves to: `build_path` goes by components, so for it `Here` is `Root`
(`Place`); calls that take the whole path need a directory there (`Found`). A run uses
one of the two texts. An extraction into `/` itself is left out, and so are the
directories above `Up`.

### ScanTar, Unarchive

State. `arc` is the archive (members in order, trailer or not, what the final
catalogue says), the options and the copies and payloads that fail. `work` is the
work database: `installed`, phase of each row, session marks, archive errors,
extraction and rehash flags, saved patterns and selection, the `meta` keys, the
saved scan state, the saved phase. `cache` is the files in the stage. `pass` is
the running scan: source of the catalogue, scan state, members to skip,
position, member at hand, snapshot window. `buffer`, `pool` and `shutdown`
belong to the process.

Actions. `Open` (trailer or not), `CopyCatalogue`, `InitCatalogue`,
`StorePatterns`, `EagerFilter`, `LoadState`; per member `SkipMember` or
`BeginMember`, then `ApplySnapshot`, `CountMember`, `BeginPayload`, `EndPayload`,
`FlagPayload`; after the last `SaveState`, `CheckCache`, `Gate`. `EndScan`,
`Verify`, `EnterPhase` are the driver; `ApplyFilter`, `MarkFiltered` the filter;
`OpenRehash`, `BeginRehash`, `FinishRehash`, `AbortRehash`, `Commit`, `EndRehash`
the rehash. A rerun is the library's `run` with `StartPolicy::Resume` over the
work database (as in the tests of `unarchive.rs`); what the `resume` command
makes of it is `Dispatched`.

Abstractions. One name per content; a catalogue is the set of rows it confirms; a
cut-off archive is a sequence without its head, its tail or its trailer; the
batch of confirmed rows is a window.

### Permissions

State. `node` holds owner, mode and time of each inode on disk, `sidecars` the
number of sidecar files beside a row; `flags`, `errors` and `phase` are in the
database. `batch`, `results`, `owed` and `drafts` (the recorder's buffer) die
with the process. `case` is the tree with the settings and never changes.

Actions. `NextBatch` is the head of the batched loop in each of the four passes
(link sources, links, files, directories); `ApplyRow` and `ApplySource` are
`apply_one` with the record of what failed, `WriteSidecar` and `SidecarOfLink`
the sidecars, `Ingest` the transaction that stores a batch, `Finish` the flush
and the two statements that copy the flags to the files table, `Verify` check
E10 and the saved phase. `Stop` is the check for a signal before each row,
`Exit` includes the flush of a recorder that is dropped.

Abstractions. Owner, mode and time are named by the member they were archived
with; which user an entry goes to is left out. Of the attributes the model has
the ACL, because writing it sets the mode bits it grants, as POSIX has it; it is
taken to be archived with every member. A system call fails where a directory on the
way denies access, where root is needed, where the file system refuses the
attribute or where a symlink leads nowhere. All errors of a row are one record.
The last statement of the phase, which marks all files as restored unless a
signal came, is left out: nothing later reads that mark.

The order is that of `depth`, the slashes of the stored path, not of the tree. The two
differ for one row: a root that is a member, `<ed>/.`, has as many slashes as the
entries in it, and the smaller id decides between it and the directories there
(`Overtakes`; files have a pass of their own before). `Placed` admits that tie and
no other. Its second row, the scaffold `<ed>`, lies above nothing in the model, as
nothing is restored on it. A sidecar for the root goes beside it, where no row is.

### Catalogue, Intake, Staging, Pipeline

State. `world` is the tree with the settings of the run, `gone` the names that
have vanished from it. `row` is the files table with the flags, `hashQueue` and
`sparseQueue` are the queue tables, `meta` is what `meta` and the rule tables
hold. `sparse` and `link` are the stage directory, `tape` says what is in the
archive file. `pc`, `at`, `todo` and the pool (`pulled`, `waiting`, `reading`,
`answers`) die with the process.

Actions. `Create`, `Fresh`, `Resume` are the start policies, `Prepare` the four
statements of RunFresh one by one; `EnterPhase`, `VerifyAfterPhase` (checks A1 to
A8), `Advance` and `Cleanup` the loop. Inventory: `StartInventory` (the purge),
`WalkEntry`, `SetHardlinkCanonicals`. Hash: `PromoteUnhasheable`,
`PopulateHashQueue`, the pool (`PullHash`, `OpenToHash`, `HashOne`, `DropRow`,
`IngestHash`), `EndHash`. Filter: `ApplyNoFilter`, `FilterBatch`,
`FixUpCanonicalFlag`. Sparsify: `PromoteSparse`, `PopulateSparseQueue`, its pool,
`EndSparse`. Stage: `PromoteUnstageable`, `LinkMember`, `EndSection`, `ApplyLink`,
`NextBatch`. `Crash`, `Signal` and `Vanish` are the environment.

Abstractions. One source; the content of an inode stays the same while the run
lasts (so a second canonical that hash counts twice does not occur); a pull and
a drain take any number of rows. Dedup is one step here that links equal
contents (the stranded rows of `dedup_stranded` do not occur), the archive phase
commits one payload per step. The statements of RunFresh that store the owner
policy, the modes and the transforms (`archive.rs:77-92`) are left out: no phase
of the archive run reads them.

### SendReceive, WorkPool

State. `unpulled`, `feed`, `work`, `hand`, `out`, `pendingOut` say where an item is,
`commits` how often it was committed; `fed`, `dequeued`, `exited`, `exhausted`,
`feedClosed` are the driver's own knowledge; `thread` is what `is_finished` of a
handle tells; `stage` is the loop the driver is in (feed, wait, after the join).

Actions. Driver: `Top`, `Receive` (one try_recv), `Drained`, `Pull`, `Send` (one
try_send), `SendEnd`, `Check` (how each loop ends), `Join`, `Fail` (the error of a
pull or a commit). Worker: `Take`, `Leave`, `Answer`, `Abort`, `Mark`, `End`; `Panic`
and `Interrupt` are the environment. A panic may come while a worker holds an item
(`rehash_one` has three), or after a send when the driver has left with an error.

Abstractions. Channels are sets and a count of markers: workers finish in any
order. The tick always goes on (dedup's does not, see `Dedup`), each item has one
answer. A panicking thread and its end are one step.

### Identity, Options, Commands

State. `adb` and `xdb` are the work databases of the archive run and of the
extraction, each a record of the rows of `meta` with the patterns; `archive` is
the catalogue inside the finished archive; `proc` is the command that runs, with
its configuration; `result` what the last extraction gave to the file. Two fields
of a database are history: `asked`, the line its run was started with, and
`strayed`, what came between.

Actions. `ArchiveCommand`, `ExtractCommand`, `ResumeCommand` parse, validate and
dispatch a line (`Options` has the arguments, the pairs of flags, the defaults
and every refusal); `SaveRuntimeState` to `SetTransform` are the six statements
of RunFresh; `RunPhase`, `BeginArchive`, `FinishArchive`, `CleanupArchive` the rest
of an archive run; `Scan`, `Prepare`, `SetExtractConfig`, `RunExtractPhase`,
`CleanupExtract` an extraction. `Crash` kills the process at any step, `TakeArchive`
is the user who moves the archive away.

Abstractions. One file, with one owner and one group; a name, an id, a mode change
and an expression are model values; whether a file or directory of the line
exists is part of the line. The phases are one step each.

### Sources

State. `tree` is the file system (real path, kind, target of a link, device) and
`world` what was given at the start, the tree of then with it; `sources`, `rows`,
`refs`, `errors` are tables (`tables`); `step` and `next` say which source is
walked; `walk` is the WalkDir of that source, a set of unread names per open directory,
and dies with the process; `attempts` counts the command and its resumes. An error of
the walk is kept with its name, which the code writes into the text of the record.

Actions. `Configure` (the directories of the command line are checked), `Enter` (the
purge), `AddSource` (a directory of the command line or a line of a list), `Entry` (one
name of the walk, by `Attach`, `Skip`, `WalkError`, `EntryGone` and `Proceed`, and on
with `WalkOn`), `EndSource`, `AllMet`, `Stop`, `Resume`; `Vanish` removes a name at any
time. A walk takes the names of a directory in any order. `Records`, `Texts` and `Lines`
read the lists, `Follow`, `RealPath`, `Lstat`, `WalkFails` are the kernel and the
walkdir crate.

### Framing

State. `file` is a sequence of tokens: blocks as a compressor wrote them, ends of
streams, the parts of the footer, junk. `pending` are the blocks that `TarSink`
holds back, `input` what it still has to pass on, `buf` and `sent` the buffer,
`coder` what the compressor took and has not written. Between two tokens every
write may be cut off by a kill, refused by a signal (`FlushInterrupted`) or fail
(`WriteFails`). `whole` remembers the archive when its footer is written; a launch may
also start behind that, since the process can die before the phase is saved as Done.

Abstractions. A block of 512 bytes is a token, zero or not; a compressed stream
is its blocks and an end; a digest is the sequence it digests, the compressed
catalogue one token.

### Filters, Names, SparseCopy

Pure functions, so `MCFunctions` has one state per input. `Filters`: patterns from
arguments and files into the table, the joint verdict on a path, by each of the
modes. A regex is a set of alternatives, each a word, anchored or not. `Names`:
`parse_transform_expr` and `apply`, character by character, since the properties
are about delimiters, escapes and references; the names of a member by the way
its source was given, and `strip_relative_member`. `Sed` is the reference. The
regex crate is written down for literals, one group and `^`. `SparseCopy`: the
reader that seeks over empty blocks, its wrapper in the program, the batched copy,
and the pages that hashing counts; a file is a sequence of bytes 0 and 1.

## Runs

| Run | Asks | Result |
|---|---|---|
| `dedup` | all safety, action and liveness properties of the dedup phase, about 200 catalogues | hold |
| `archive` | the session writer under every `Adverse` circumstance it survives (forced stops) | hold, refinement included |
| `place` | prologue and placement over 79 catalogues, settings and disks | hold |
| `scan` | scan, filter, rehash over 44 archives, two crashes or reruns | hold |
| `permissions` | the restoring of metadata over 26 trees and settings, three launches | hold |
| `pipeline` | whole archive runs over 10 trees: both orders of filter and hash, vanishing files, two further launches | hold |
| `pool` | the worker loop with three items, two workers, signals, panics, errors | hold, refinement included |
| `settings` | up to four commands out of seven archive, nine extract and two resume lines, one kill | hold |
| `sources` | inventories of one to three sources over five trees, with names that vanish, a stop and a resume | hold |
| `framing` | two members and snapshots through xz, gz and no compressor, three launches, kills, failing writes, then damage | hold |
| `framing_others` | does a failing write spare the other members? | no: the blocks it had passed on are written twice, or a member is cut |
| `functions` | 3,148 inputs of the pure functions | hold |

Where a property does not hold as a document or a comment has it, what holds in
its place is stated with the causes named: `StrayHasCause`, `BelowLinkHasCause`,
`NamedBySed`, `ErrorsHaveCause`. The statements that fail are listed below.

### Properties of SendReceive

- `NothingLost`: a loop that nobody has excused (no signal, panic or error)
  returns with every item committed. The code knows it from two counters.
- `AnswersCommitted`: no queued answer is dropped, however the run was stopped,
  and the number returned is the number committed.
- `KeepsPromise` (refinement): it implements `WorkPool`: nothing is committed
  twice, and it returns when everything is committed or it is excused.
- `StopReturns` (liveness): after a signal it ends, even when a worker panicked.

`Returns` (it ends unless a worker panics) holds as well and is in no run.

### Properties of Dedup

- `OutstandingIsCurrent`: a pair anywhere between feed buffer and result queue
  still describes the tables when its outcome is applied without a new look.
- `ExactlyOnce`: a candidate is out at most once, although each pull scans from
  the beginning and only the TEMP table remembers.
- `LinksResolve`: after any crash, a link leads in one step to a kept row that
  is its own canonical and has the same bytes.
- `OneActivePerRound`: a searching or finished group has one canonical that is
  still in the group, any other group none.
- `DuplicatesFound`: when the phase is done, rows with equal key and bytes share
  their canonical, unless a read failed in their group.
- `DecisionsStand` (action): no step takes a decision back.
- `Settles` (liveness): each run ends, and so do reruns.

`PanicHasCause` (the phase panics only over rows that are stranded, see below)
holds as well and is in no run.

### Properties of ArchiveSession

- `RowsMatchArchive`: a row is marked with a finalized session exactly if its
  payload lies in the part of the file that no recovery cuts; marks of the open
  session are the stream's members; marks of an aborted one are about to go.
- `OnePayload`: no payload is stored twice.
- `KeepsPromise` (refinement): the phase implements `ArchivePromise`, with
  `committed` the members of the trusted part and `sealed` phase Done.
- `Settles` (liveness): each run ends, or retries for ever after a third signal
  (see below).

Three more hold and are in no run: `SnapshotsTell` (each embedded database
confirms exactly the members before it, the last one all of them),
`MembersReached` (no end marker, torn piece or trailer lies before a payload) and
`NeverPanics` (no assertion of a later run fails outside `Adverse`).

### Properties of Placing

- `TreeSound`: once the tree is built, over any crash on the way, a path has one
  row, owned by its first claimant; others are conflicts; parents and
  references are complete; a scaffold has a row that needs it; two rows are one
  directory only where a member is stored as `Here`, and a row lies outside the
  root only where a member that is no directory was mapped to it.
- `LinksSound`: a row that joins another names an elected row of the same inode;
  with global grouping and no crash, names of one inode stay together unless a row
  of another inode with the stored content comes before them and takes the election.
- `PlacedIsThere`: at the end of the phase an elected row recorded as placed has its
  whole payload on disk, and a joined one is a name of whatever is at the path of the
  row it joined - which need not have been placed itself.
- `Settles`: each run ends (but for the livelock of the link tree below).

### Properties of Unarchive

- `OnlyConfirmed`: without `--force` no row passes the scan unless a catalogue or
  snapshot confirms it and its payload was extracted (or the filter dropped it).
- `ExtractedIsThere`: FileExtracted means the whole payload is in the cache,
  whatever was aborted, failed or found there by an earlier run.
- `CompleteExtraction`: what reaches the placement is complete, and verified if
  asked to.

Five more of the two modules hold and are in no run: `PanicHasCause` of both (E5 to
E9 panic only if some row failed; a first run over a whole archive has no panic),
`Settles` of `Unarchive`, `EveryRowDecided` of `Placing` (a phase that ends has placed,
failed or refused each row its lists name, which leaves out the rows in `Unlisted`) and
`IndexTruthful` of `Unarchive` (what the saved index tells a rerun to skip is done),
which is proved for runs without `--force`.

### Properties of Permissions

- `MetadataStands`: at the end, what is flagged as applied carries its archived
  owner, mode and time, in spite of sidecars written beside it meanwhile, of
  crashes and of repeated batches. Excepted are a mode change that an ACL overwrites,
  the times of a file that a symlink leads to, and the time of a root that is a member
  and comes before a directory in it, whose sidecar follows.
- `ErrorsHaveCause`: no error comes from the order of the work, but for a run
  that was cut short after it had closed a directory, for a link whose ACL
  closed the directory it leads to, and for a closed root that comes before the
  directories in it.
- `RecordsTell`: while no process is killed, an error flag has its record.

`SidecarsComplete` (a row whose flags are stored has the sidecar it needs, at most
one per process; proved), `Settles`, and `PanicHasCause` (E10 fails only over a link tree
with sidecars) hold as well and are in no run.

### Properties of Pipeline

- `Complete`: a finished run has archived every wanted file once per content, or
  a name it needed vanished and the row says so; nothing excluded is archived.
- `StageSound`: what the archive phase reads through a link is the file, or a
  finished sparse copy exactly if the row is flagged with it.
- `InodesSound`: names of an inode agree on having a digest in every state; from
  the end of the filter on one kept name stands for it.
- `Settles` (liveness): each process ends.

`WorkStands` (no step takes back a phase, a verdict, a digest, an error, a canonical
or a payload while the work database lives; proved) and `PanicHasCause` (A1 to A8
panic only after a lazy filter moved the flag of an inode away from an excluded name
that could not be hashed) hold and are in no run.

### Properties of Commands

- `StrayHasCause`: the catalogue of a finished archive holds the settings of the
  line that asked for it, whatever was killed and resumed, unless one of three
  known causes came between (a kill inside RunFresh, a start over a finished
  database, a resume that took an extraction's database).
- `NothingUnasked`: an extraction gives a file no owner, group or mode that does
  not come from one line that was asked to decide it.
- `CliMapsEmit`: with `--validate-maps`, a file the maps of the line speak of gets
  an id.

### Properties of Sources

- `Exhaustive`: a finished inventory has met, for every source, each name that
  stood there throughout, and nothing that never did; each name has a reference
  of every source that meets it; errors tell of the right sources.
- `SeparateTrees`: under strict separation no name is met from two directories, but
  for a root under `--no-recursion`.
- `BelowLinkHasCause`: only `--dereference`, or a source that is the link or the name
  behind it, brings in a name that is reached over a link. (A line `l/g` with `l` a
  link lists `l/g` without following anything; if another source has `l`, both are
  in the table.)

`RefusalHasCause` (a line is refused only for an overlap, or for its own row of an
attempt that was cut short) holds and is in no run.

### Properties of Framing

- `StreamWhole`: the archive is the blocks of the closed sessions, each once and in
  order, and one end of tar behind the last; what the sink held back is not lost
  when a member ends in zeros, and every stream is finished.
- `VerdictTells`: a footer is found in a finished archive and in nothing else; of a
  damaged one the verdict names the half that differs, and scan, start and `check`,
  which each read it their own way, agree.

### Properties of the functions

- `KeptAsAsked`: a path is kept exactly if the rules ask for it, in every mode.
- `RenamedAsAsked`: an accepted expression names a member as sed would, but for two
  causes; the name stays below the root; stripping leaves the names after the
  first ones.
- `CopyExact`: a copy has every byte of its source, whatever was given up before, and
  counts the pages that hashing counted.

### Further disagreements the models reproduce

These follow from the actions as they stand. No run is spent on them; a statement
in the table is a definition of the module, and TLC refutes it under the
configuration named, with `SPECIFICATION Spec` (`LoopSpec` for the loop, `InventorySpec`
for `Sources`; `FairSpec` for liveness), the constants
changed as given and that statement as the only property.

| Statement | Configuration | Changed | What fails |
|---|---|---|---|
| `NoPanic` | `MCDedup.cfg` | `Corpora <- MCReadable` | without a failed read, a group can close over a row that was never compared; the flag check panics on every later run (`db/dedup.rs`, `count_dedup_phase_total`) |
| `NothingLost` of `ArchiveSession` | `MCArchive.cfg` | `Settings <- MCPlain`, `Adverse = {"revert"}`, `MaxRestarts = 2` | a crash between the two statements of `abort_incomplete_session` leaves rows with the mark of the aborted session, and the finished archive lacks their payloads (`db/tar_writer.rs:130`) |
| `MembersReached` | `MCArchive.cfg` | `Settings <- MCFirstStream`, `Adverse = {}`, `MaxRestarts = 1` | XzDecoder, GzDecoder and BzDecoder read one stream: payloads of later sessions are not come by |
| `FreshReplaces` | `MCPipeline.cfg` | | `--fresh` leaves the archive file and appends to it (`archive.rs:41-45`, `common/cleanup.rs:49-61` against `docs/manual.md:165`) |
| `InventoryReruns` | `MCPipeline.cfg` | | an inventory that was cut short after its rows were referred to cannot be purged: a foreign key stops every later run (`archive/inventory.rs:34`: "Purging and starting again") |
| `Resumable` | `MCPlacing.cfg` | `Catalogues <- MCResume` | the stage is the directory of the work database and is removed after the first of three passes, so a run stopped later cannot be resumed (`unarchive/place.rs:1227`, `config/paths.rs:60-68`) |
| `PayloadStays` (action) | `MCPlacing.cfg` | `Catalogues <- MCLinkTrees` | the cached payload is removed before the copy to the link source is recorded: after a crash the rerun finds nothing to copy and removes the good target (`unarchive/place.rs:919`) |
| `CatalogueKept` (action) | `MCScan.cfg` | `Archives <- MCSound`, `MaxRestarts = 1` | a scan that dies before its state is saved lets the manifest of the stream replace the final catalogue (`unarchive/scan.rs:352`) |
| `ResumeContinues` | `MCScan.cfg` | `Archives <- MCSound`, `MaxRestarts = 1` | `resume` looks for the archive phase first, which an extraction's database carries too, and takes the extraction for an archive run (`main.rs:31`) |
| `ForceSalvages` | `MCScan.cfg` | `Archives <- MCSalvage`, `MaxRestarts = 1` | an archive without trailer panics at A7 when it is extracted with `--force` |
| `PanicsNotAwaited` (`FairLoop`) | `MCSendReceive.cfg` | `StatementsFail = FALSE` | a worker that panics loses its item and another lives: the loop waits for ever (`common.rs:213`, 314) |
| `NothingLost` of `SendReceive` | `MCSendReceive.cfg` | `Workers = {}` | without workers the loop returns at once and reports success |
| `NumericIdsOnly` | `MCCommands.cfg` | `MaxLaunches = 3`, `MaxCrashes = 0` | the flag is read as the negative of its pair and records names (`config/archive.rs:414`, `cli.rs:268`) |
| `SameOwnerRestores` | `MCCommands.cfg` | the same | without an owner policy nothing is chowned (`unarchive/permissions.rs:347`, `cli.rs:783`, `docs/manual.md:309`) |
| `ValidatedMapsEmit` | `MCCommands.cfg` | the same | the policy stored in the archive is never validated (`cli.rs:809`, `config/extract.rs:748`) |
| `NewRunIsNew` | `MCCommands.cfg` | the same | a run that Create starts over a finished database keeps its patterns, policy and mode |
| `LinksFollowed` | `MCSources.cfg` | | with `--dereference` the row of a link that was followed is still a link (`cli.rs:193`, `docs/manual.md:60`) |
| `DistinctTrees` | `MCSources.cfg` | | `--no-recursion` still lists the children of a root, so a root in another is met from both (`common/files.rs:46`) |
| `StripSeesNormal` | `MCFunctions.cfg` | | `--strip-components` panics over the directory of a source given as `.` or `/`, whose path is cleaned into one dot (`unarchive/place_prologue.rs`, `strip_relative_member`) |
| `ModeForced`, `ContentsFirst` | `MCPermissions.cfg` | `Cases <- MCModes` for the first | an ACL written after the mode overwrites a mode change (`unarchive/permissions.rs:375-400`, `docs/manual.md:321`); a batch that is lost is applied again under a directory it has closed, and fails there; so does a directory in a closed root that is a member, in the first run: `<ed>/.` has as many slashes as `<ed>/sub` and goes first if its id is smaller (`db/permissions.rs:3`, 17-22) |

More of the kind, without a statement of their own:

- The root as a member: `<ed>/.` and `<ed>` are two rows of one directory
  (`unarchive/place_prologue.rs:331`, 452; `db/place_prologue.rs:157-162`), although
  the contract of the prologue maps such sources to `<ed>/` (118). The sidecar of a
  directory in the root changes the time of the root after it was restored. A
  member that is no directory and is renamed to the root (the case of the test at 883-895)
  gives a scaffold for the directory that holds the root: without `--one-top-level` the
  assertion at `unarchive/place.rs:1034` ends the run, and the member is never placed.
- Dedup: the canonical's own read error is counted among the members' and closes
  a group with a row that never failed (`db/dedup.rs:271`); all rows inventoried
  with size 0 are linked together whatever their digests (`db/dedup.rs:604`).
- Sessions: a session that ends before its first payload makes the next one write
  a second initial manifest (`archive/tar_builder.rs:74`); a crash after the
  trailer and before Done makes the length assertion fail for ever (351); after
  the third signal `write_all` retries `Interrupted` (`tar_writer.rs:222`), which is
  why the arms of `abandon` after it are never reached.
- Pipeline: a crash inside RunFresh leaves a resumed run without rules, policy or
  transforms: without include rules it archives nothing, without exclude rules
  everything; a link in the stage whose target vanished makes symlink fail with
  EEXIST on each later run (`archive/stage.rs:95`); A1 panics on each run after the
  flag was moved to a name without digest (`db/integrity.rs:152`); errors of the
  reset of a work directory are ignored; `--exit-after-stage archive` leaves a
  database that is done and that nothing cleans up.
- Placement: the conflict policy of the file pass looks at the cached payload
  instead of the target (`unarchive/place.rs:583`); hard links and symlinks onto
  an existing path fail under Replace (628, 706); a failed copy removes what was
  at the target (974); failed rows carry the flags that make E9 panic; a resume
  with a kept stage lists placed links again; a `--clean-target` rerun wipes what
  was placed (48-55); symlinks are never placed without grouping, and files
  never with absolute names and grouping by source; copied flags are tested for
  0 (`db/place.rs:703`). The rows that are hard-linked are said to alias an
  already-placed canonical (`unarchive/place.rs:361`), but their query asks for no such
  flag (`db/place.rs:433-463`): the name of a canonical that was refused is linked to
  the file that kept its path, and recorded as placed. With content duplicates on
  two inodes the first row of the content is elected, leads nobody, and leaves the
  names of the stored inode as files of their own.
  An elected file whose member has no canonical, because it could not be read when it
  was archived, is in no list (`db/place.rs:362-370` joins the dedup canonical): it ends
  with neither a file nor a flag that tells of it (the catalogues `Unread`).
- Link tree: an existing path is an error on every run (282-286); a signal while
  linking spins (315-351).
- Permissions: times and attributes of a symlink go to the file it leads to (464);
  so does an ACL, and one that leads to a directory can close it before its contents
  are handled (397);
  a link tree with sidecars and a payload that failed ends in the panic of E10 on
  each run, because the flags of the links are copied onto the payload
  (`db/permissions.rs:205`); a scaffold directory left alone (`--no-overwrite-dir`)
  makes NOT IN see a NULL and no file is ever flagged (213); a crash between the
  storing of a batch and the flush loses the records of its errors; `--mode` does
  nothing without `--same-permissions`.
- Scan: mismatches are committed, so a rerun passes over them
  (`unarchive/rehash.rs:111`); a crash between the installation and the storing of
  the patterns leaves a resumed run without patterns; the eager filter drops
  kept duplicates and, without sessions, everything (`db/scan.rs:312`); with
  `--force` a partial file counts as extracted; rows excused by the archive run
  make the scan panic without `--force`.
- Commands: an extraction over a database that is done restores nothing and
  reports success; `resume` in an extraction's work directory takes the archive
  run's configuration out of the catalogue and runs it there.
- Sources: a list read from a file loses a CR at the end of a record with `--null` too, one read
  from standard input does not; a name that goes away during the walk ends the
  inventory with an error.
- Framing: the look for a valid footer writes a temporary file, so a reader without
  a place for it finds none.
- Functions: `--anchored` anchors the first alternative of a pattern only; rules in
  which no include is valid include everything; `--fail-fast` does not stop at an
  invalid pattern; in an expression a reference followed by a letter is taken for a
  longer name, an escaped delimiter keeps its backslash, and `;` inside a clause is
  refused; the program `sparse-cp` on one file as source and target empties it.


### Bounds

`MCDedup` has five rows (three rounds need five: a round settles at least its
canonical, and the third must still have a candidate), two keys with content and
two of size 0, three contents, one inode, `FeedChunk = DrainChunk = 2` (a batch
smaller than a group, so that rounds are fed and drained in pieces) and one
restart. One is enough for the safety part: a crash empties the queues and the
tables are then as they were, so what a second crash starts from is the
reachable state of a first run. The proofs need none of these bounds.

`MCArchive` has four rows: three payloads, one of them of size 0, and a
duplicate that is only promoted; three restarts, which is what the longest
story takes (stopped session, crashed session, crashed recovery, last run).

`MCPlacing` has five members under two sources and seven paths (root, the text of a
member at the root, what is above them, a directory with two places, a place beside it): two names of one inode, a link, a
directory and a file that wants the path of another are the least with which
ownership, grouping, conflicts and scaffolds all occur. Two workers, batches of
two, one restart: tables and files survive a crash, so what a second one starts
from is reached by a first run, except for what a rerun itself leaves.

`MCScan` has two payloads in one or two sessions (a saved index between them, a
snapshot that names only the first) and two restarts, the second because the
rerun after a crash is itself a run that can be stopped.

`MCPermissions` has a directory in a directory and two entries in it, so that a
row lies under one that is closed later and one later still; batches of two
(each batch of directories is a batch of its own in the first pass), a recorder
that flushes at three, three launches: 26 trees and settings, 40,410 states. In six of
them the root is a member, with the smaller and with the larger id, with sidecars, without,
and closed to the user. The invariant of `PermissionsProofs` holds on them too.

`MCPipeline` has three names, two of them hard links and all of one content or
all different: the least with which an inode and a content each have a name that
is not first. Ten trees and settings, three launches, `BatchSize = 2`; about
325,000 states. Other shapes of the tree meet the same statements.

`MCSendReceive` has three items for two workers, pulls of two, commits of two,
room for one in the first channel and two in the second: each buffer is smaller
than what wants to pass, pulls and commits come out odd, and a marker can find the
second channel full. One panic of two workers is the case in which neither clause
of the end comes true. About 57,000 states.

`MCCommands` has one file with an owner and a group, three names and three ids (the
archived one, the mapped one and one the host does not know), seven archive, nine
extract and two resume lines, each there for a branch of parsing or resolution; four
commands (archive, its resume, two extractions) and one kill.

`MCSources` has five trees of at most ten names (links to another directory, to the own
parent and to nowhere, two devices, names that are not
UTF-8) and two attempts; a link is followed at most four times before the kernel gives
up. `MaxDepth`, how far below a root `Exhaustive` looks, is 8, more than a walk over these
trees can reach (a link to a directory above ends it); `Stray` stands for the name a line
gets with a carriage return left on it, which no tree has. 30,774 states, half a minute.

`MCFraming` has two members, one of which ends in two zero blocks, a snapshot, a buffer
of three blocks (less than that member), three launches and at most two damaged tokens:
the hold-back, the buffer and the compressor each come to hold blocks of two
members. About 2.9 million states, two minutes. zstd and bz2 take and finish as xz
and gz do, and are left to these.

`MCFunctions` has 3,148 inputs: rules of up to two patterns on each side over six paths,
some 550 expressions of one or two clauses over nine members, files of up to
five bytes in pages of one to three over three earlier contents.

### Fairness

`FairSpec` of `Dedup` asks for weak fairness of the driving thread's step as a
whole and of the workers' step as a whole: threads are scheduled by the system and block only on
channels; reads of regular files end. `FairSpec` of `ArchiveSession` asks for
weak fairness of the one thread. Nothing is asked of signals, crashes and
reruns. A rerun is a step the user may take, so `Settles` says
that each run that is not killed ends, and is bounded by `MaxRestarts` in TLC.

`FairSpec` of `Placing` and of `Unarchive` ask for the same: weak fairness of the
driving thread and of the workers. `FairSpec` of `Pipeline` and of `Permissions` asks for weak fairness of the process's own steps. `FairLoop` of
`SendReceive` asks for the driver and for each worker: hashing and copying one
file ends. `Commands` has weak fairness of the command's own steps, which none of its
invariants uses; `Sources` and `Framing` state safety only, since their ends are those
of `Pipeline` and `ArchiveSession`. `Placing` spells ENABLED out (`DriverReady`,
`WorkerReady`), because TLC takes very long to evaluate it by name there.

## Proofs

`DedupProofs` proves for all values of the constants that satisfy
`DedupAssumption` (rows are naturals, NULL, NoKey and NoInode are no values of
their columns, catalogues have the right type, chunks are positive):

- `Invariance`: `Spec => []IInv`, and from it
- `TypeCorrect`, `OutstandingPairsAreCurrent`, `CandidatesOnce`,
  `OneCanonicalPerRound`, `NoPayloadLost`, and the action property
  `DecisionsAreFinal`;
- `EveryDuplicateIsFound` (`DuplicatesFound`), from a second invariant, `DInv`.

Why the invariant is what it is. That an outcome can be applied without a new
look needs that no group leaves `searching` while one of its pairs is out. The
table lets it leave when every other member has a check or an error flag, or is
in another phase; so the invariant must say that a row that is out has none of
these (it is what the pull asked for, and only the outcome changes it), that it
is marked in flight, that it is out once, and that its canonical is the active
row of its group. That in turn needs one active row per searching group, none
in a ready one, and check flags in searching and finished groups only. Links
are sound because an equal outcome is applied while that canonical is active,
and a canonical retires as a row of its own. The proof has one step per action;
finite sets are used only through least elements, so there is no induction.
`DInv` says what the rounds have established by then: two canonicals of a group
differ (`KeptDiffer`); a row that is undecided differs from each of them, but from the
active one before the two were compared (`UndecidedDiffer`), so that an elected row
differs from all earlier ones; a finished round has compared everybody
(`RoundsComplete`); the empty files are decided at once (`EmptyTogether`). All of it
is said of groups in which no read failed, and of files of which what the options
take on trust is true (`Trusted`).

`ArchiveProofs` proves for all values of the constants that satisfy
`ArchiveAssumption`, and under the one condition `"revert" \notin Adverse`
(no crash between the two statements of `abort_incomplete_session`; with it the
phase loses payloads, see `NothingLost` above):

- `Invariance`: `Spec => []IInv`, and from it `TypeCorrect`,
  `TableMatchesFile` (`RowsMatchArchive`) and `PayloadsOnce` (`OnePayload`);
- `ImplementsPromise`: `Spec => KeepsPromise`, the refinement of
  `ArchivePromise`.

The other circumstances (`excuse`, `meta`, `leave`, `torn`, `force`) need no
condition: they make a later run panic, spin or hide payloads from a sequential
reader, but table and file agree through all of them.

Why the invariant is what it is. What the file holds for good is its part
before the offset of the open session. `RowsMatchArchive` speaks of that part,
so the proof has to know where the offset is: `SessionAtHand` says that only the
last session can be open, that its offset is the length of the file while its
units are still in the compressor (so cutting there, after any crash, removes
exactly what the crash left), and that nothing is in the compressor otherwise.
Between the closing of the stream and the record of the session the units lie
in the file behind the offset: `ClosedNotRecorded` says there that the marked
rows are the members behind it, so that the record makes both trusted at once.
`MarksProper` keeps a marked row apart from a failed one, which is why an
excused row is never a committed one. For the refinement, `Committed`
equals the set of rows with a finalized mark (`CommittedMarks`): a step that
leaves marks and sessions alone is a stutter, `RecordSession` is `Commit`, the
failing branches of `NextRow` and `AppendMember` are `Excuse`, a `Verify` that
saves Done is `Seal`. The facts about cutting and appending sequences are
lemmas at the head of the module.

`PartsProofs` proves of `SendReceive` for all values of the constants that satisfy
`SendReceiveAssumption`, with at least one worker: `LoopInvariance`, `LoopTypeCorrect`,
`NothingIsLost`, `AnswersAreCommitted` and `ImplementsPool`. The condition is
needed: without workers the loop returns at once and reports success. The code closes the feed because two
counters agree, or because no thread runs; the invariant ties both to the items.
`OnePlace` and `SomePlace` say that an item is in one place and that only an
excused loop loses one, `Closing` that an unexcused driver closes the channel with
nothing left to feed and that no worker leaves before (so some worker runs until
then), `Joined` that the count of answers is the number of items pending or
committed.

Of `Framing` it proves for all values of the constants that satisfy
`FramingAssumption` (any members and snapshot whose writes are not empty, any
capacity of the buffer, any number of launches and damaged tokens, all four formats):
`FramingInvariance`, and from it `FramingTypeCorrect`, `FramingStreamWhole`
(`StreamWhole`) and `FramingVerdictTells` (`VerdictTells`). Why the invariant is what it
is. Blocks are nowhere counted by the code, so `Conserved` says where they are: what
the file has, then what the compressor, the buffer and the sink hold, in this order, is
what the closed sessions and the open one were given. That it is so over the end of a
write needs to know of each step what the sink may still hold (`Phases`): two blocks
while a write passes, the end of the tar and nothing else at `resolve`, nothing at
`flush`. For the verdict, `Footers` says where pieces of a footer can stand: in no file
but one that is being given its footer (as many pieces as are written), was given it,
or was damaged since (`Worn`); and no file without one ends in an offset. TLC checked
the four parts as invariants of `MCFraming` with three launches before they were
proved. `Blocks` is a recursive function; that it exists, and distributes over
appending, is proved by least counterexamples in sets of numbers (`Smallest`, `Climb`).

Of `Sources` it proves for all values of the constants that satisfy `SourcesAssumption`
(in each world the tree hangs together from its root, which stays; directories, lists
and flags are any): `InventoryInvariance`, and from it `InventoryTypeCorrect`,
`TreesAreSeparate` (`SeparateTrees`), `LinksHaveCause` (`BelowLinkHasCause`) and
`InventoryIsExhaustive` (`Exhaustive`, for every `MaxDepth`, so at any depth). Why the
invariant is what it is. The tree only loses names, so a path that resolves now resolved
to the same place at the start (`Within`, `Trees` and the lemmas that follow them), and
`Recorded` can speak of the tree of then: what a reference or an error names, the walk
could come to from that source (`Below`). For `Exhaustive` it has to be known while the
walk goes on what is still owed: `Walking` says that each name to be met is handled, or
lies at or below a name in `walk`. A step keeps that because what lies below a directory
lies below one of its children as they are now (`ReachedUp`, `ReachedNext`), and a name
that went since is not owed. It is claimed of a name only down to `MaxDepth` (`Near`),
since the levels of a walk are a recursive function (`LevelSteps`). `SeparateTrees` needs
that no directory in the table of sources overlaps another (`Separate`), and that takes
the order of the code: all directories of the command line are in the table before the
first line is compared with it (`SepInputs`), also when an attempt was stopped in
between. What two walks meet in common lies below both roots, so one root lies below the
other (`PrefixesMeet`). Resolving a path, the levels and the reading of lists are
recursive functions, of which the lemmas `FollowOf`, `RealOf`, `LevelSteps`, `RecordsTyped`
and `GivenOf` show once that they exist (`RecursionExists`). TLC checked `Formed`,
`Recorded`, `Separate` and `Walking` as invariants of `MCSources` before they were proved.
The attempt to prove `BelowLinkHasCause` as it first was (a link as the source is the
only cause) failed, and the run of TLC with the list that has `a/l/h` showed why.

Of `Identity`, `CommandsProofs` proves four facts about a policy for all names, ids, hosts, targets
and files that satisfy `IdentityAssumption`. Resolution is a finite case
distinction, so the proofs need no induction: `ResolvesToId` (the answer is an id of
the map, the override, the host or the archive, or none), `ValidatedEmits` (once a
policy has passed `ValidateForResolutionMode`, each file it speaks of gets an id),
`ValidatedMapDecides` (with a target of one kind an accepted map entry decides
alone), `LeftAlone` (without `--same-owner` a file of which nothing is said is left
to the extracting process). A lemma, `PolicyTyped`, says that parsing a map file or an
argument gives a policy or a refusal and nothing else; it takes `ValidatedEmits` to
whole command lines.

Of `Commands` it proves `Invariance` and from it `SettingsStand` (`StrayHasCause`) for
all values of the constants that satisfy `CommandsAssumption`: any number of lines,
commands and kills. RunFresh writes six rows one by one, so the invariant says at
each of its steps which of them are those of the line and which are blank (`Rows`),
and between two commands that a database has none of them, the phase alone, or all;
a database of which this is not so has one of the three strays in its history. The
configuration of a resumed run differs from the stored one in the process block,
which no row of the catalogue depends on (`Kept`, `Configured`). A second invariant,
`EInv` (`ExtractionInvariance`), follows the settings into the extraction: a catalogue
without a stray tells of its line in the archive, beside it and in the database of an
extraction alike (`Filed`, `Catalogued`); a running extraction works with the settings
of its own line (`Heeded`), resolves the expression between prologue and permissions
(`Renames`) and restores the file once (`Once`), so that what a file got last comes
from that line or from the archived policy that it asked for. From it
`NothingComesUnasked` (`NothingUnasked`) and `ValidatedLinesEmit` (`CliMapsEmit`).

`UnarchiveProofs` proves for all values of the constants that satisfy
`ScanAssumption` (each payload lies in an archive once, and its file is a participant;
the archives are otherwise any streams, truncated, without a head, with or without a
trailer): `Invariance`, and from it `ExtractionTyped` (`TypeOK`), `PromotionsEarned`
(`OnlyConfirmed`), `PayloadsAreThere` (`ExtractedIsThere`), `PlacementIsComplete`
(`CompleteExtraction`) and `SkippedIsDealtWith` (`IndexTruthful` without `--force`).
What they promise is promised without `--force`, so the invariant has a part for every
run (`Typed`, `Phases`, `Position`) and a part, `Strict`, for the runs without it.
Why the invariant is what it is. That a payload is whole wherever its flag is, after any
crash and rerun, follows from the position in the stream: `Position` ties the last
member that is known as processed to the member at hand and to the members skipped, and
`Dealt(n)` says of the first n members that each payload is extracted and whole, or the
eager filter passed over it. `Progress` has it for the last member of the pass and for
the saved one; since a payload lies in the stream once, writing the payload at hand
damages none that was dealt with. `Provided` says that nothing is taken from the stream
before a catalogue is installed - it is what makes the installation, which wipes the
table, harmless - and `Earned` and `Judging` carry the result through filter and rehash:
a mismatch of the first run is remembered by the pool until it ends the run. The facts
about streams are lemmas at the head of the module.

`PipelineProofs` proves for all values of the constants that satisfy
`CatalogueAssumption` (finitely many names; names of one inode have one content and one
type): `Invariance`, and from it `TypeCorrect`, `RunsAreComplete` (`Complete`),
`StageIsSound` (`StageSound`), `InodesAreSound` (`InodesSound`) and the action property
`WorkIsKept` (`WorkStands`). Why the invariant is what it is. Phases speak to each other
through the rows, so it says of a row what a row of its phase holds, in either order of
hash and filter (`RowSound`), and which two phases a run may find (`InPhase`); a row
that is in neither would be passed over by every later statement. The rest is
what the rows of an inode or of a content have in common: that one name stands for an
inode, before the filter any, after it a kept one (`OneName`), while hash works on that
name alone and copies (`HashPool`); that one canonical stands for a content
(`Canonicals`). `Walked` and the clause on errors in `RowSound` say that a name without
a row, or with an error, has vanished; without them a finished run could have lost a
file and called it complete. `Checked` keeps what the integrity batteries have seen.
Least elements take the place of induction here too; finite sets are needed for the
first name of an inode.

`PermissionsProofs` proves for all values of the constants that satisfy
`PermissionsAssumption` (`Placed`: above a row lie directories with fewer slashes, or
the root alone with as many; an entry that is no directory has a member, the link source
holds canonical files): `Invariance`, and
from it `TypeCorrect`, `MetadataIsRestored` (`MetadataStands`), `ErrorsAreCaused`
(`ErrorsHaveCause`), `RecordsAreKept` (`RecordsTell`) and `SidecarsAreComplete`
(`SidecarsComplete`). Why the invariant is what it is. Metadata that was applied stands
if nothing writes below, beside or through it any more. That is a matter of order:
`Batches` says that a batch is the front of its list, `Deepest` that a directory is
handled behind everything below it that it does not overtake, over any number of batches, kills and restarts, as
a row's flags are stored with its whole batch only. `Modes` says who can have changed a
mode so far, `Standing` that what was applied is still there, `Causes` why a call
failed; `Sidecars` and `Records` count what was written before a process died. The
attempt to prove `ErrorsHaveCause` without the clause on links failed, and TLC then
showed the run: a link's ACL goes to the directory it leads to.

`PlacingProofs` proves for all values of the constants that satisfy
`OutTreeAssumption` (finitely many files and sources, numbered from 1; `Root` and `Here`
are what lies directly in `Up`, a member maps to `Here` or below, and dedup links files to
files): `PlanInvariance`,
`ElectInvariance` and `PayloadInvariance`, and from them `TreeIsSound` (`TreeSound`),
`LinksAreSound` (`LinksSound`) and `PlacedRowsAreThere` (`PlacedIsThere`). Why the
invariants are what they are. The tables of the prologue grow by walks over
pages, and a crash starts the walk again over the rows that are there. So `WalkInv`
speaks of the entries that do not lie ahead of the cursor - each has its row or its
conflict (`Filed`) and its reference (`Linked`), a renamed file has the name of its
last source - and `TreeInv` of each row at any time: it belongs to the first of all
members that claim its path, which an insert can only know because the entries come in
that order. The order of the walk and the pages are lemmas at the head
of the module. The election is a list of statements. `ElectInv` says what one that
has run leaves decided (`Ran`), that a row joins an elected row of its inode only
(`Joined`), and for the undisturbed election of `LinksSound` how it goes: nothing is
decided (`Untouched`), the first name of an inode leads itself (`Primed`), the others
have joined it (`Together`). `PayloadInv` ties flags to the disk. A row is in one
place of the pool (`OneHand`), and a path has one row, so a write
disturbs no other row; an outcome that says Placed is true when it is handed
back (`JobMarks`), which is what the batch that applies it relies on (`RowMarks`); a row that
joined another is promised only once its pass has come to it (`Passed`), as a rerun
of the files pass rewrites what its leader has. Directories replace links only
before any row is marked (`DirsDone`), and a link in the target was there before or
belongs to a row of the later passes, so that the copy of an elected row is written
through a link only where there was one to begin with. The attempt to prove
`LinksSound` and `PlacedIsThere` as they first were failed: a row of another inode may
take the election, and a row may be linked to a leader that was refused (both are
under the disagreements above or the hazards).

Out of the prover's reach and left to TLC: liveness (`Settles`, `StopReturns`) and
everything about ENABLED; RECURSIVE operators; facts that need induction over data. The
last is why `KeptAsAsked`, `RenamedAsAsked` and `CopyExact` of `MCFunctions` are the only
safety properties of a run that no theorem states: they say what `Filters`, `Names` and
`SparseCopy` compute over sequences. Not proved either: the statements that
modules have and no run checks - `PanicHasCause` of `Dedup`, `Unarchive`, `Pipeline`,
`Permissions` and `Placing`; `SnapshotsTell`, `MembersReached` and `NeverPanics` of
`ArchiveSession`; `EveryRowDecided` of `Placing`; `RefusalHasCause` of `Sources`.

## Plan

1. `Dedup`, `DedupProofs` - done. Left: `PanicHasCause`
   as a theorem, and an abstract specification (each row settles once, as its
   own canonical or as a link to one) that `Dedup` implements.
2. `ArchiveSession`, `ArchivePromise`, `ArchiveProofs` - done. Left:
   `SnapshotsTell`, `MembersReached` and `NeverPanics` as theorems.
3. `OutTree`, `Placement`, `LinkTree`, `Placing` with `PlacingProofs` - done.
   Left: `EveryRowDecided` as a theorem.
4. `ScanTar`, `Unarchive`, `UnarchiveProofs` - done. Left: `PanicHasCause` as a
   theorem; input in shards.
5. `SendReceive`, `WorkPool`, `PartsProofs` - done.
6. `Pipeline`, `PipelineProofs` - done. Left: the lock of the work directory
   between two processes.
7. `Permissions`, `PermissionsProofs` - done.
8. `Identity`, `Options`, `Commands` with their proofs - done.
9. `Sources`, `Framing` with their proofs, `Filters`, `Names`, `SparseCopy` - done. Left: a
   refinement between `Framing` and `ArchiveSession` (a closed stream is a `Close`).

## Not modelled, and why

Progress, logging and the text of errors are output. The commands that list and
query read a database and print it; of `check` and `inspect` the verdict on an
archive and its exit code are in `Framing`. The lock of the work directory is an
exclusive lock of the operating system: each model has one process at a time.
`merge_over` and the base configurations have no caller in the program. Archives
in shards are refused by the archive command (`Options`), so that their reading has
no writer to be checked against. Regular expressions, hashing and compression
codecs are external: `Filters` and `Names` write down what the former do with literals,
`Framing` which blocks the latter take and when they write; the rest sees a digest
as the content, a comparison as equal or not, a read as failed or not. SQLite is
taken to be atomic per statement or explicit transaction and durable. Panics of
worker threads are in `SendReceive` only. In the extraction the copy of the
catalogue is taken to be atomic; names that are not UTF-8 are in `Sources` only. No
run composes the archive with the extraction: `Commands` carries the settings from one to the
other, `ArchiveSession` and `ScanTar` meet at the sequence of members.
