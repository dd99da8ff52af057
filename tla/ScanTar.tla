------------------------------ MODULE ScanTar ------------------------------
(***************************************************************************)
(* The scan phase of an extraction (unarchive/scan.rs, db/scan.rs): a      *)
(* catalogue is installed from the footer or from the stream, the members  *)
(* of the stream are read in order, payloads go to the extract cache,      *)
(* snapshots confirm rows, and a gate judges what is left over.            *)
(*                                                                         *)
(* Persistent: the variables of the groups work and stage.  The rest dies  *)
(* with the process.  Rows are the catalogue's participants of the scan:   *)
(* self-canonical files with a digest that the archive filter kept; every  *)
(* other row becomes unarchived when the catalogue is installed.           *)
(***************************************************************************)
EXTENDS Naturals, FiniteSets, Sequences

CONSTANTS
    Files,       \* the participants
    Archives,    \* the archives and options a run may meet
    Workers,     \* ProcessConfig.effective_jobs
    DrainChunk,  \* ProcessConfig.drain_chunk
    MaxRestarts  \* bound on the crashes and reruns explored

Setting == {"force", "failFast", "eager", "verify", "tampered", "rehash", "sparsify",
            "keepStage"}

\* A member of the stream: the leading manifest, a snapshot with the rows that
\* are archived in it, or the payload of a file.
Member == [kind: {"manifest", "snapshot", "payload"}, file: Files \cup {0},
           upto: SUBSET Files]

Archive ==
    [stream: Seq(Member),
     footer: BOOLEAN,       \* a trailer with the final catalogue
     stored: SUBSET Files,  \* rows with a session in that catalogue
     excused: SUBSET Files, \* rows it has as archived without a payload
     want: SUBSET Files,    \* rows that the user's patterns keep
     fails: SUBSET Files,   \* members whose extraction may fail
     corrupt: SUBSET Files, \* members that differ from the digest
     set: SUBSET Setting]

\* Each payload lies in an archive once, for a participant of the scan.
ASSUME ScanAssumption ==
    /\ IsFiniteSet(Files) /\ 0 \notin Files
    /\ \A a \in Archives : a \in Archive
    /\ \A a \in Archives : \A i, j \in DOMAIN a.stream :
          a.stream[i].kind = "payload" =>
              /\ a.stream[i].file \in Files
              /\ a.stream[j].kind = "payload" /\ a.stream[j].file = a.stream[i].file => i = j
    /\ {Workers, DrainChunk} \subseteq Nat \ {0} /\ MaxRestarts \in Nat

VARIABLES
    arc,        \* the archive and the options of this run; never changes
    installed,  \* the work database exists
    row,        \* files.phase
    sessioned,  \* session_id IS NOT NULL
    errored,    \* ErrorWhileArchive
    extracted, failed, verified, mismatched, unread, \* bits of files.flags
    patterns,   \* the user's patterns are in filter_reason_extract
    chosen,     \* rows the extract filter keeps
    meta,       \* keys of the meta table
    saved,      \* the saved ScanState
    phase,      \* the saved ExtractRuntimeState
    cache,      \* the extract cache
    pc,         \* where the driving thread is
    origin,     \* where the catalogue being installed comes from
    seen,       \* the ScanState of this pass
    skip,       \* members an earlier pass processed
    at,         \* the member at hand
    first,      \* no work database existed when the pass began
    buffer,     \* the filter buffer of this process
    window,     \* force_buffer: members extracted before a database existed
    todo, busy, out, bad, \* rehash: pulled rows, workers, results, what went wrong
    shutdown, restarts

work == <<installed, row, sessioned, errored, extracted, failed, verified, mismatched,
          unread, patterns, chosen, meta, saved, phase>>
pass == <<origin, seen, skip, at, first, window>>
pool == <<todo, busy, out, bad>>
vars == <<arc, work, cache, pc, pass, buffer, pool, shutdown, restarts>>

On(s) == s \in arc.set

ScanState == [manifest: BOOLEAN, last: Nat, footer: BOOLEAN, snapshots: Nat]
NothingSeen == [manifest |-> FALSE, last |-> 0, footer |-> FALSE, snapshots |-> 0]

Init ==
    /\ arc \in Archives
    /\ installed = FALSE /\ row = [f \in Files |-> "none"]
    /\ sessioned = {} /\ errored = {}
    /\ extracted = {} /\ failed = {} /\ verified = {} /\ mismatched = {} /\ unread = {}
    /\ patterns = FALSE /\ chosen = {} /\ meta = {} /\ saved = NothingSeen
    /\ phase = "ScanTar" /\ cache = [f \in Files |-> "none"]
    /\ pc = "enter" /\ origin = "footer" /\ seen = NothingSeen /\ skip = 0 /\ at = 1
    /\ first = TRUE /\ buffer = TRUE /\ window = [ok |-> {}, bad |-> {}]
    /\ todo = {} /\ busy = {} /\ out = {} /\ bad = {}
    /\ shutdown = "running" /\ restarts = 0

-----------------------------------------------------------------------------
(* Opening the archive and installing a catalogue.                         *)

\* The trailer is only used, and the archive only verified, when there is no
\* work database yet; a signal interrupts the verification.
Open ==
    LET use == arc.footer /\ ~installed
        damaged == use /\ On("verify") /\ On("tampered") /\ ~On("force")
    IN /\ pc = "open"
       /\ first' = ~installed
       /\ origin' = "footer"
       /\ meta' = IF installed THEN meta \cup {"extract_phase"} ELSE meta
       /\ \/ /\ ~damaged
             /\ pc' = IF use THEN "copy" ELSE "load"
          \/ damaged /\ pc' = "failed"
          \/ use /\ On("verify") /\ shutdown = "force" /\ pc' = "interrupted"
       /\ UNCHANGED <<arc, installed, row, sessioned, errored, extracted, failed,
                      verified, mismatched, unread, patterns, chosen, saved, phase,
                      cache, seen, skip, at, window, buffer, pool, shutdown, restarts>>

\* The catalogue that is copied over the work database: the final one of the
\* trailer, the leading manifest, in which no payload has a session yet, or a
\* snapshot, which knows the sessions up to it.
Source ==
    LET upto == IF origin = "footer" THEN arc.stored
                ELSE IF arc.stream[at].kind = "manifest" THEN {} ELSE arc.stream[at].upto
        gone == IF origin = "footer" THEN arc.excused ELSE {}
    IN [upto |-> upto, gone |-> gone,
        row |-> [f \in Files |-> IF f \in upto \cup gone THEN "archived" ELSE "staged"]]

\* install_initial_manifest: the work database is replaced, with everything an
\* earlier pass had noted in it.  What the archiving run stored in its meta
\* table comes along.
CopyCatalogue ==
    /\ pc = "copy"
    /\ installed' = TRUE
    /\ row' = Source.row /\ sessioned' = Source.upto /\ errored' = Source.gone
    /\ extracted' = {} /\ failed' = {} /\ verified' = {} /\ mismatched' = {}
    /\ unread' = {} /\ patterns' = FALSE /\ chosen' = {}
    /\ meta' = {"archive_phase", "archive_config"}
    /\ saved' = NothingSeen
    /\ pc' = "init"
    /\ UNCHANGED <<arc, phase, cache, pass, buffer,
                   pool, shutdown, restarts>>

\* init_extract_runtime_state; normalize_installed_catalog finds nothing else
\* to do for the participants.
InitCatalogue ==
    /\ pc = "init"
    /\ meta' = meta \cup {"extract_phase"}
    /\ pc' = "patterns"
    /\ UNCHANGED <<arc, installed, row, sessioned, errored, extracted, failed, verified,
                   mismatched, unread, patterns, chosen, saved, phase, cache, pass,
                   buffer, pool, shutdown, restarts>>

\* store_filter_buffer: the patterns parsed for this run go to the table; a
\* resumed run has none.
StorePatterns ==
    /\ pc = "patterns"
    /\ patterns' = buffer /\ buffer' = FALSE
    /\ pc' = IF On("eager") THEN "eager"
             ELSE IF origin = "footer" THEN "load" ELSE "counted"
    /\ UNCHANGED <<arc, installed, row, sessioned, errored, extracted, failed, verified,
                   mismatched, unread, chosen, meta, saved, phase, cache, pass,
                   pool, shutdown, restarts>>

\* joint_filter_phase: without an include pattern no row is included, and the
\* catch-all include is one of the patterns.
Selected == IF patterns THEN arc.want ELSE {}

EagerFilter ==
    /\ pc = "eager"
    /\ chosen' = Selected /\ meta' = meta \cup {"filters_applied"}
    /\ pc' = IF origin = "footer" THEN "load" ELSE "counted"
    /\ UNCHANGED <<arc, installed, row, sessioned, errored, extracted, failed, verified,
                   mismatched, unread, patterns, saved, phase, cache, pass, buffer,
                   pool, shutdown, restarts>>

\* The state of an earlier pass, if a database has one.
LoadState ==
    /\ pc = "load"
    /\ seen' = [saved EXCEPT !.footer = @ \/ (first /\ arc.footer)]
    /\ skip' = saved.last
    /\ at' = 1 /\ pc' = "member"
    /\ UNCHANGED <<arc, work, cache, origin, first, window, buffer, pool, shutdown,
                   restarts>>

-----------------------------------------------------------------------------
(* The members, in the order of the stream.                                 *)

here == arc.stream[at]
MoreMembers == at <= Len(arc.stream)
SawAny == seen.last # 0
Begun == pc = "member" /\ MoreMembers /\ shutdown = "running" /\ at > skip

\* The end of a member's turn.
Next1(state) ==
    /\ seen' = [state EXCEPT !.last = at]
    /\ at' = at + 1 /\ pc' = "member"

SkipMember ==
    /\ pc = "member" /\ MoreMembers /\ shutdown = "running" /\ at <= skip
    /\ at' = at + 1
    /\ UNCHANGED <<arc, work, cache, pc, origin, seen, skip, first, window, buffer,
                   pool, shutdown, restarts>>

\* A manifest is installed unless the catalogue came from the trailer, and is
\* refused behind the first place; a snapshot or a payload in the first place
\* needs --force.  A snapshot that finds no database is installed like a
\* manifest.
NeedsInstall ==
    \/ here.kind = "manifest" /\ ~SawAny /\ ~seen.footer
    \/ here.kind = "snapshot" /\ ~SawAny /\ ~seen.footer
    \/ here.kind = "snapshot" /\ SawAny /\ ~installed
Refused ==
    \/ here.kind = "manifest" /\ SawAny
    \/ here.kind # "manifest" /\ ~SawAny /\ ~On("force")

BeginMember ==
    /\ Begun
    /\ pc' = CASE Refused -> "failed"
               [] ~Refused /\ here.kind = "payload" -> "payload"
               [] ~Refused /\ here.kind # "payload" /\ NeedsInstall -> "copy"
               [] ~Refused /\ here.kind = "manifest" /\ ~NeedsInstall -> "counted"
               [] ~Refused /\ here.kind = "snapshot" /\ ~NeedsInstall ->
                    IF SawAny THEN "apply" ELSE "counted"
    /\ origin' = "stream"
    /\ UNCHANGED <<arc, work, cache, seen, skip, at, first, window, buffer, pool,
                   shutdown, restarts>>

\* apply_snapshot_promote_unarchived on one row: named rows leave staged, and
\* leave archived when their payload is there.
Confirmed(f) ==
    IF f \in here.upto /\ row[f] \in {"staged", "archived"}
    THEN IF f \in extracted THEN "unarchived" ELSE "archived"
    ELSE row[f]

ApplySnapshot ==
    /\ pc = "apply"
    /\ row' = [f \in Files |-> Confirmed(f)]
    /\ pc' = "counted"
    /\ UNCHANGED <<arc, installed, sessioned, errored, extracted, failed, verified,
                   mismatched, unread, patterns, chosen, meta, saved, phase, cache,
                   pass, buffer, pool, shutdown, restarts>>

\* A catalogue member is noted: record_snapshot_ingested counts in the saved
\* state, and the members of the force window get their flags.
CountMember ==
    /\ pc = "counted"
    /\ IF here.kind = "manifest"
       THEN Next1([seen EXCEPT !.manifest = TRUE]) /\ UNCHANGED saved
       ELSE /\ saved' = [saved EXCEPT !.snapshots = @ + 1]
            /\ Next1([seen EXCEPT !.snapshots = saved.snapshots + 1])
    /\ extracted' = extracted \cup window.ok
    /\ failed' = failed \cup window.bad
    /\ window' = [ok |-> {}, bad |-> {}]
    /\ UNCHANGED <<arc, installed, row, sessioned, errored, verified, mismatched, unread,
                   patterns, chosen, meta, phase, cache, origin, skip, first,
                   buffer, pool, shutdown, restarts>>

-----------------------------------------------------------------------------
(* extract_canonical_member.                                                *)

\* should_extract_canonical_id: a kept row with a session whose canonical the
\* member is.  Only canonical rows have sessions.
ShouldExtract(f) == f \in sessioned /\ f \in chosen

BeginPayload ==
    /\ pc = "payload"
    /\ IF installed /\ On("eager") /\ ~ShouldExtract(here.file)
       THEN Next1(seen) /\ UNCHANGED cache
       ELSE /\ cache' = [cache EXCEPT ![here.file] = "part"]
            /\ pc' = "copying" /\ UNCHANGED <<seen, at>>
    /\ UNCHANGED <<arc, work, origin, skip, first, window, buffer, pool, shutdown,
                   restarts>>

\* Mutant: every run goes on after a failed copy.
ToleratedAll == TRUE

\* Whether a run goes on after a failed copy.
Tolerated == On("force")

\* The copy is complete; or an I/O error leaves what was written, which stops
\* the run or, if tolerated, is noted; or a third signal aborts it.
EndPayload ==
    LET f == here.file
    IN /\ pc = "copying"
       /\ \/ /\ cache' = [cache EXCEPT ![f] = "full"]
             /\ pc' = "flag" /\ UNCHANGED <<failed, window, seen, at>>
          \/ /\ f \in arc.fails /\ ~Tolerated
             /\ pc' = "failed" /\ UNCHANGED <<cache, failed, window, seen, at>>
          \/ /\ f \in arc.fails /\ Tolerated
             /\ failed' = IF installed THEN failed \cup {f} ELSE failed
             /\ window' = IF installed THEN window
                          ELSE [window EXCEPT !.bad = @ \cup {f}]
             /\ Next1(seen) /\ UNCHANGED cache
          \/ /\ shutdown = "force"
             /\ cache' = IF On("sparsify") THEN cache ELSE [cache EXCEPT ![f] = "none"]
             /\ pc' = "interrupted" /\ UNCHANGED <<failed, window, seen, at>>
       /\ UNCHANGED <<arc, installed, row, sessioned, errored, extracted, verified,
                      mismatched, unread, patterns, chosen, meta, saved, phase,
                      origin, skip, first, buffer, pool, shutdown, restarts>>

FlagPayload ==
    /\ pc = "flag"
    /\ extracted' = IF installed THEN extracted \cup {here.file} ELSE extracted
    /\ window' = IF installed THEN window ELSE [window EXCEPT !.ok = @ \cup {here.file}]
    /\ Next1(seen)
    /\ UNCHANGED <<arc, installed, row, sessioned, errored, failed, verified, mismatched,
                   unread, patterns, chosen, meta, saved, phase, cache, origin,
                   skip, first, buffer, pool, shutdown, restarts>>

-----------------------------------------------------------------------------
(* The end of the stream.                                                   *)

\* validate_result: which combinations of provenance are a violation, and
\* stop a run without --force.
Provenance ==
    \/ ~seen.manifest /\ seen.snapshots = 0
    \/ seen.manifest /\ seen.snapshots = 0 /\ seen.footer

\* Mutant: the member at hand counts as processed.
ObservedAt == [seen EXCEPT !.last = at]

\* What of the pass is saved.
Observed == seen

\* Only here is the state of the pass saved.  A signal then ends the run; a
\* stream without a database removes the stage.
SaveState ==
    /\ pc = "member"
    /\ ~MoreMembers \/ shutdown # "running"
    /\ saved' = IF installed THEN Observed ELSE saved
    /\ pc' = CASE MoreMembers -> "interrupted"
               [] ~MoreMembers /\ seen.last = 0 -> "failed"
               [] ~MoreMembers /\ seen.last # 0 /\ ~installed ->
                    IF On("force") THEN "failed" ELSE "panicked"
               [] ~MoreMembers /\ seen.last # 0 /\ installed ->
                    IF Provenance /\ ~On("force") THEN "failed" ELSE "check"
    /\ cache' = IF ~MoreMembers /\ seen.last # 0 /\ ~installed /\ ~On("keepStage")
                THEN [f \in Files |-> "none"] ELSE cache
    /\ UNCHANGED <<arc, installed, row, sessioned, errored, extracted, failed, verified,
                   mismatched, unread, patterns, chosen, meta, phase, pass, buffer,
                   pool, shutdown, restarts>>

\* check_cached_payloads commits the flag of a file nobody recorded before the
\* caller panics over it.
CheckCache ==
    LET new == {f \in Files : cache[f] # "none" /\ f \notin extracted}
    IN /\ pc = "check"
       /\ extracted' = extracted \cup new
       /\ pc' = IF new # {} /\ ~On("force") THEN "panicked" ELSE "gate"
       /\ UNCHANGED <<arc, installed, row, sessioned, errored, failed, verified, mismatched,
                      unread, patterns, chosen, meta, saved, phase, cache, pass,
                      buffer, pool, shutdown, restarts>>

\* tally_scan_remainders: rows no snapshot confirmed, rows that failed, rows
\* whose member was not in the stream.
Violations(r) ==
    {f \in Files :
        \/ r[f] = "staged"
        \/ r[f] = "archived" /\ f \in failed
        \/ r[f] = "archived" /\ f \notin failed \cup extracted
               /\ (On("eager") => f \in chosen)}

\* Mutant: rows that no snapshot confirmed are promoted with the others.
CascadedStaged(f) == IF row[f] \in {"staged", "archived"} /\ f \in extracted
                     THEN "unarchived" ELSE row[f]

\* promote_cascade_extracted_to_unarchived.
Cascaded(f) == IF row[f] = "archived" /\ f \in extracted THEN "unarchived" ELSE row[f]

\* promote_filter_excluded_remainders: what the filter left out on purpose.
Released(r) ==
    [f \in Files |-> IF r[f] = "archived" /\ On("eager") /\ f \notin chosen
                     THEN "unarchived" ELSE r[f]]

\* promote_scan_remainders: with --force the rest passes as well.
Salvaged(r) ==
    [f \in Files |-> IF r[f] \in {"staged", "archived"} THEN "unarchived" ELSE r[f]]

\* The gate: extracted rows are promoted, filtered ones too, and what remains
\* is a violation, which --force promotes with a warning.
Gate ==
    LET cascaded == [f \in Files |-> Cascaded(f)]
        released == Released(cascaded)
        left == Violations(cascaded) # {}
    IN /\ pc = "gate"
       /\ row' = IF left /\ On("force") THEN Salvaged(released) ELSE released
       /\ pc' = IF left /\ ~On("force") THEN "panicked" ELSE "scanned"
       /\ UNCHANGED <<arc, installed, sessioned, errored, extracted, failed, verified,
                      mismatched, unread, patterns, chosen, meta, saved, phase,
                      cache, pass, buffer, pool, shutdown, restarts>>
=============================================================================
