--------------------------- MODULE ArchiveSession ---------------------------
(***************************************************************************)
(* The last phase of the archive pipeline (archive/tar_builder.rs,         *)
(* db/tar_writer.rs, tar_writer.rs, archive_footer.rs): a run appends a    *)
(* compressed tar stream to the archive file and records in the database   *)
(* which rows it carries; a rerun truncates what a dead session left       *)
(* behind and goes on.                                                     *)
(*                                                                         *)
(* The archive is a sequence of units, its length the number of units.     *)
(* Persistent: phase, session, err, sessions, bytesOut, queue (tables),    *)
(* archive (file).  Lost with the process: stream, sid, cursor, stopped,   *)
(* shutdown.  Every action is one autocommitted statement or one write, so *)
(* a crash falls between any two.  Adverse names the circumstances that    *)
(* the code does not survive; a run explores the ones it is given.         *)
(***************************************************************************)
EXTENDS Naturals, Sequences, FiniteSets

CONSTANTS
    Files,        \* row ids of the files table
    EmptyFiles,   \* the rows of size 0
    NULL,         \* SQL NULL
    Settings,     \* the catalogues and settings a run may start from
    Adverse,      \* the adverse circumstances explored, see Circumstance
    MaxRestarts   \* bound on the crashes and reruns explored

Setting ==
    [canonicals: SUBSET Files,  \* staged, self-canonical, kept by the filter
     bad: SUBSET Files,         \* rows whose staged source may be unreadable
     footer: BOOLEAN,           \* pipeline.write_archive_footer
     failFast: BOOLEAN,
     ioFails: BOOLEAN,          \* writes to the archive may fail
     decoder: {"first", "all"}] \* streams the format's decoder reads

Circumstance == {
    "revert",  \* a crash between mark_session_aborted and the rows' reset
    "excuse",  \* a crash between ErrorWhileArchive and the row's phase
    "meta",    \* a crash between finalize_session and set_archive_bytes_out
    "leave",   \* a crash between the archive's last byte and the saved Done
    "torn",    \* a source that fails in the middle of its member
    "force"}   \* a third signal

ASSUME ArchiveAssumption ==
    /\ Files \subseteq Nat \ {0}
    /\ EmptyFiles \subseteq Files
    /\ NULL \notin Nat
    /\ Settings \subseteq Setting
    /\ Adverse \subseteq Circumstance
    /\ MaxRestarts \in Nat

VARIABLES
    setting,   \* never changes
    phase,     \* files.phase, "staged" or "archived"
    session,   \* files.session_id
    err,       \* rows flagged ErrorWhileArchive
    sessions,  \* archive_sessions: offset and status, by id
    bytesOut,  \* meta archive_bytes_out
    queue,     \* rows of archive_queue, whose positions ascend with the id
    archive,   \* the units in the archive file
    stream,    \* units handed to the writer of this run
    sid,       \* session in hand
    cursor,    \* last row taken from the queue
    stopped,
    shutdown,
    pc,
    restarts

db == <<phase, session, err, sessions, bytesOut, queue>>
mem == <<stream, sid, cursor, stopped>>
vars == <<setting, db, archive, mem, shutdown, pc, restarts>>

Kind == {"manifest", "member", "snapshot", "torn", "eof", "close", "head", "tail"}
Unit == [kind: Kind, rows: SUBSET Files]
Settled == {"done", "interrupted", "failed", "panicked"}
PC == {"recover", "abort", "revert", "decide", "begin", "promote", "manifest",
       "queue", "next", "append", "excuseSource", "excuseAppend", "stop",
       "collect", "snapshot", "unwrap", "close", "record", "meta", "footer",
       "footerTail", "oneShot", "oneShotTail", "leave", "verify", "spinning"}
      \cup Settled

TypeOK ==
    /\ setting \in Settings
    /\ phase \in [Files -> {"staged", "archived"}]
    /\ session \in [Files -> Nat \cup {NULL}]
    /\ err \subseteq Files
    /\ sessions \in Seq([offset: Nat, status: {"open", "finalized", "aborted"}])
    /\ bytesOut \in Nat \cup {NULL}
    /\ queue \subseteq Files
    /\ archive \in Seq(Unit)
    /\ stream \in Seq(Unit)
    /\ sid \in Nat
    /\ cursor \in Nat
    /\ stopped \in BOOLEAN
    /\ shutdown \in {"running", "graceful", "force"}
    /\ pc \in PC
    /\ restarts \in Nat

-----------------------------------------------------------------------------
(* Vocabulary.                                                             *)

Canonicals == setting.canonicals
U(kind) == [kind |-> kind, rows |-> {}]
Member(f) == [kind |-> "member", rows |-> {f}]
Holds(file, f) == \E i \in DOMAIN file : file[i] = Member(f)

Open == {s \in DOMAIN sessions : sessions[s].status = "open"}
HasFinalized == \E s \in DOMAIN sessions : sessions[s].status = "finalized"

\* The rows a snapshot of the database shows as having their payload stored.
Stored == {f \in Files : session[f] # NULL}

\* Mutant: a snapshot that is copied before the WAL is checkpointed.
StoredBefore == {f \in Stored : session[f] # sid}

\* What a crash or a dropped writer leaves in the file: the session's units up
\* to wherever the compressor had got.
Abandoned(file) == {file \o SubSeq(stream, 1, n) : n \in 0 .. Len(stream)}

\* Recorded trailer: MAGIC, digests and catalogue, then MAGIC and the offset.
HasFooter == archive # <<>> /\ archive[Len(archive)].kind = "tail"

Goto(label) == pc' = label

Init ==
    /\ setting \in Settings
    /\ phase = [f \in Files |-> "staged"]
    /\ session = [f \in Files |-> NULL]
    /\ err = {}
    /\ sessions = <<>>
    /\ bytesOut = NULL
    /\ queue = {}
    /\ archive = <<>>
    /\ stream = <<>>
    /\ sid = 0
    /\ cursor = 0
    /\ stopped = FALSE
    /\ shutdown = "running"
    /\ pc = "recover"
    /\ restarts = 0

-----------------------------------------------------------------------------
(* Recovery of a session that a crash or an abort left open.               *)

\* Mutant: the session is given up but its bytes stay.
RecoverNoTruncate ==
    /\ pc = "recover"
    /\ IF Open = {} THEN Goto("decide") /\ UNCHANGED sid
       ELSE /\ sid' \in Open /\ \A s \in Open : s <= sid'
            /\ Goto("abort")
    /\ UNCHANGED <<setting, db, archive, stream, cursor, stopped, shutdown, restarts>>

\* recover_incomplete_session: the file is cut at the session's offset.
Recover ==
    /\ pc = "recover"
    /\ IF Open = {} THEN Goto("decide") /\ UNCHANGED <<sid, archive>>
       ELSE /\ sid' \in Open /\ \A s \in Open : s <= sid'
            /\ \/ archive' = SubSeq(archive, 1, sessions[sid'].offset) /\ Goto("abort")
               \/ setting.ioFails /\ UNCHANGED archive /\ Goto("failed")
    /\ UNCHANGED <<setting, db, stream, cursor, stopped, shutdown, restarts>>

\* mark_session_aborted
Abort ==
    /\ pc = "abort"
    /\ sessions' = [sessions EXCEPT ![sid].status = "aborted"]
    /\ Goto("revert")
    /\ UNCHANGED <<setting, phase, session, err, bytesOut, queue, archive, mem,
                   shutdown, restarts>>

\* Mutant: rows that were already promoted keep their marker.
RevertStagedOnly ==
    LET lost == {f \in Files : session[f] = sid /\ phase[f] = "staged"}
    IN /\ pc = "revert"
       /\ session' = [f \in Files |-> IF f \in lost THEN NULL ELSE session[f]]
       /\ Goto("decide")
       /\ UNCHANGED <<setting, phase, err, sessions, bytesOut, queue, archive, mem,
                      shutdown, restarts>>

\* clear_archive_session_pending
Revert ==
    LET lost == {f \in Files : session[f] = sid}
    IN /\ pc = "revert"
       /\ session' = [f \in Files |-> IF f \in lost THEN NULL ELSE session[f]]
       /\ phase' = [f \in Files |-> IF f \in lost THEN "staged" ELSE phase[f]]
       /\ Goto("decide")
       /\ UNCHANGED <<setting, err, sessions, bytesOut, queue, archive, mem,
                      shutdown, restarts>>

\* Mutant: a missing trailer is never completed.
FooterNeverPending == FALSE

\* footer_pending: every row is archived, the stream closed, the trailer missing.
FooterPending ==
    /\ setting.footer
    /\ ~HasFooter
    /\ HasFinalized
    /\ \A f \in Files : phase[f] = "archived"

\* The fork of run(), and the assertion of check_archive_bytes_out.
Decide ==
    /\ pc = "decide"
    /\ Goto(IF FooterPending THEN "oneShot"
            ELSE IF HasFinalized /\ bytesOut \notin {NULL, Len(archive)}
                 THEN "panicked" ELSE "begin")
    /\ UNCHANGED <<setting, db, archive, mem, shutdown, restarts>>

-----------------------------------------------------------------------------
(* A session: manifest, members, snapshot.                                 *)

\* begin_session
Begin ==
    /\ pc = "begin"
    /\ sessions' = Append(sessions, [offset |-> Len(archive), status |-> "open"])
    /\ sid' = Len(sessions')
    /\ Goto("promote")
    /\ UNCHANGED <<setting, phase, session, err, bytesOut, queue, archive, stream,
                   cursor, stopped, shutdown, restarts>>

\* promote_ineligible_to_archived
PromoteIneligible ==
    /\ pc = "promote"
    /\ phase' = [f \in Files |-> IF f \in Canonicals THEN phase[f] ELSE "archived"]
    /\ Goto("manifest")
    /\ UNCHANGED <<setting, session, err, sessions, bytesOut, queue, archive, mem,
                   shutdown, restarts>>

\* append_snapshot.  The database is bigger than the sink's hold-back, so the
\* write reaches BufferedCompress; under force that returns an Interrupted
\* error, which write_all takes as a request to retry.
AppendCopy(kind, next, rows) ==
    \/ shutdown = "force" /\ Goto("spinning") /\ UNCHANGED <<stream, archive>>
    \/ /\ shutdown # "force"
       /\ stream' = Append(stream, [kind |-> kind, rows |-> rows])
       /\ Goto(next)
       /\ UNCHANGED archive
    \/ /\ shutdown # "force" /\ setting.ioFails
       /\ archive' \in Abandoned(archive) /\ stream' = <<>>
       /\ Goto("failed")

\* The initial manifest, when no canonical bytes are archived.
WriteManifest ==
    /\ pc = "manifest"
    /\ IF \E f \in Canonicals \ EmptyFiles : phase[f] = "archived"
       THEN Goto("queue") /\ UNCHANGED <<stream, archive>>
       ELSE AppendCopy("manifest", "queue", Stored)
    /\ UNCHANGED <<setting, db, sid, cursor, stopped, shutdown, restarts>>

\* create_archive_queue and populate_archive_queue: INSERT OR IGNORE at
\* position row_number(), so a row is ignored when its position is taken.
PopulateQueue ==
    LET staged == {f \in Canonicals : phase[f] = "staged"}
        position(f) == Cardinality({g \in staged : g <= f})
    IN /\ pc = "queue"
       /\ queue' = queue \cup {f \in staged : position(f) > Cardinality(queue)}
       /\ cursor' = 0
       /\ Goto("next")
       /\ UNCHANGED <<setting, phase, session, err, sessions, bytesOut, archive,
                      stream, sid, stopped, shutdown, restarts>>

\* Mutant: neither the cursor nor the row's outcome ends the pull.
PullableFromStart == {f \in queue : session[f] = NULL}

\* Mutant: the pull does not look at the phase and the marker.
PullableAnyPhase == {f \in queue : f > cursor /\ f \notin err}

\* pull_pending_archive_rows.  Only this thread writes the rows, so a batch
\* pulled at once is what its rows pulled one by one would be.
Pullable ==
    {f \in queue : /\ f > cursor
                   /\ phase[f] = "staged"
                   /\ session[f] = NULL
                   /\ f \notin err}

\* One turn of the batch loop up to the append: interrupt check, then the
\* staged symlink is resolved, and a source that is gone flags the row.
NextRow ==
    /\ pc = "next"
    /\ IF Pullable = {} THEN Goto("collect") /\ UNCHANGED <<err, cursor, stopped>>
       ELSE IF shutdown # "running"
            THEN Goto("stop") /\ stopped' = TRUE /\ UNCHANGED <<err, cursor>>
       ELSE /\ cursor' \in Pullable /\ \A f \in Pullable : cursor' <= f
            /\ \/ Goto("append") /\ UNCHANGED err
               \/ cursor' \in setting.bad /\ err' = err \cup {cursor'}
                  /\ Goto("excuseSource")
            /\ UNCHANGED stopped
    /\ UNCHANGED <<setting, phase, session, sessions, bytesOut, queue, archive,
                   stream, sid, shutdown, restarts>>

\* append_path and mark_archive_session_pending, or ErrorWhileArchive.  The two
\* writes of the good case are one action: while the session is open, a crash
\* between them leaves what a crash before them leaves.  A read or a write that
\* fails flags the row alike; after the header went out, it leaves a torn member.
AppendMember ==
    /\ pc = "append"
    /\ \/ /\ shutdown = "force" /\ stream # <<>>
          /\ Goto("spinning")
          /\ UNCHANGED <<stream, session, err>>
       \/ /\ shutdown = "force" => stream = <<>>
          /\ stream' = Append(stream, Member(cursor))
          /\ session' = [session EXCEPT ![cursor] = sid]
          /\ Goto("next")
          /\ UNCHANGED err
       \/ /\ shutdown # "force" /\ (cursor \in setting.bad \/ setting.ioFails)
          /\ stream' \in {stream} \cup
                         (IF "torn" \in Adverse THEN {Append(stream, U("torn"))} ELSE {})
          /\ err' = err \cup {cursor}
          /\ Goto("excuseAppend")
          /\ UNCHANGED session
    /\ UNCHANGED <<setting, phase, sessions, bytesOut, queue, archive, sid, cursor,
                   stopped, shutdown, restarts>>

\* set_file_phase(Archived) for a row that failed; with fail_fast a source that
\* is gone ends the run here and drops the writer, the session still open.
Excuse ==
    /\ pc \in {"excuseSource", "excuseAppend"}
    /\ phase' = [phase EXCEPT ![cursor] = "archived"]
    /\ IF setting.failFast /\ pc = "excuseSource"
       THEN Goto("failed") /\ archive' \in Abandoned(archive) /\ stream' = <<>>
       ELSE Goto("next") /\ UNCHANGED <<archive, stream>>
    /\ UNCHANGED <<setting, session, err, sessions, bytesOut, queue, sid, cursor,
                   stopped, shutdown, restarts>>

\* The loop was interrupted: force abandons the writer, which first makes the
\* tar builder write its end marker; a graceful stop closes the session.
Stop ==
    /\ pc = "stop"
    /\ Goto(IF shutdown # "force" THEN "collect"
            ELSE IF stream = <<>> THEN "interrupted" ELSE "spinning")
    /\ UNCHANGED <<setting, db, archive, mem, shutdown, restarts>>

-----------------------------------------------------------------------------
(* end_session.                                                            *)

\* promote_pending_archived, and the assertion that nothing is left.
Collect ==
    /\ pc = "collect"
    /\ phase' = [f \in Files |-> IF f \in Stored THEN "archived" ELSE phase[f]]
    /\ Goto(IF ~stopped /\ \E f \in Files : phase'[f] = "staged"
            THEN "panicked" ELSE "snapshot")
    /\ UNCHANGED <<setting, session, err, sessions, bytesOut, queue, archive, mem,
                   shutdown, restarts>>

\* Mutant: the snapshot shows the database as it was before the session.
WriteSnapshotStale ==
    /\ pc = "snapshot"
    /\ AppendCopy("snapshot", "unwrap", StoredBefore)
    /\ UNCHANGED <<setting, db, sid, cursor, stopped, shutdown, restarts>>

WriteSnapshot ==
    /\ pc = "snapshot"
    /\ AppendCopy("snapshot", "unwrap", Stored)
    /\ UNCHANGED <<setting, db, sid, cursor, stopped, shutdown, restarts>>

\* TarWriter::finalize, first half: Builder::into_inner writes the end marker.
Unwrap ==
    /\ pc = "unwrap"
    /\ Goto(IF shutdown = "force" THEN "spinning" ELSE "close")
    /\ UNCHANGED <<setting, db, archive, mem, shutdown, restarts>>

\* Mutant: the end marker of a stopped session is not dropped.
ClosingAlwaysEof == <<U("eof"), U("close")>>

\* resolve_trailing_eof commits the end marker of the final session only.
Closing == IF stopped THEN <<U("close")>> ELSE <<U("eof"), U("close")>>

\* TarWriter::finalize, second half.
Close ==
    /\ pc = "close"
    /\ \/ /\ shutdown # "force"
          /\ archive' = archive \o stream \o Closing /\ stream' = <<>>
          /\ Goto("record")
       \/ /\ shutdown = "force" /\ ~stopped
          /\ Goto("spinning") /\ UNCHANGED <<archive, stream>>
       \/ /\ shutdown = "force" /\ stopped
          /\ archive' \in Abandoned(archive) /\ stream' = <<>>
          /\ Goto("interrupted")
       \/ /\ shutdown # "force" /\ setting.ioFails
          /\ archive' \in Abandoned(archive) /\ stream' = <<>>
          /\ Goto("failed")
    /\ UNCHANGED <<setting, db, sid, cursor, stopped, shutdown, restarts>>

\* finalize_session
RecordSession ==
    /\ pc = "record"
    /\ sessions' = [sessions EXCEPT ![sid].status = "finalized"]
    /\ Goto("meta")
    /\ UNCHANGED <<setting, phase, session, err, bytesOut, queue, archive, mem,
                   shutdown, restarts>>

\* set_archive_bytes_out
RecordBytes ==
    /\ pc = "meta"
    /\ bytesOut' = Len(archive)
    /\ Goto(IF ~stopped /\ setting.footer THEN "footer" ELSE "leave")
    /\ UNCHANGED <<setting, phase, session, err, sessions, queue, archive, mem,
                   shutdown, restarts>>

\* write_footer reads the archive back, where force ends it, and then appends.
FooterHead ==
    /\ pc \in {"footer", "oneShot"}
    /\ \/ shutdown = "force" /\ Goto("interrupted") /\ UNCHANGED archive
       \/ setting.ioFails /\ Goto("failed") /\ UNCHANGED archive
       \/ /\ shutdown # "force"
          /\ archive' = Append(archive, U("head"))
          /\ Goto(IF pc = "footer" THEN "footerTail" ELSE "oneShotTail")
    /\ UNCHANGED <<setting, db, mem, shutdown, restarts>>

FooterTail ==
    /\ pc \in {"footerTail", "oneShotTail"}
    /\ archive' = Append(archive, U("tail"))
    /\ Goto(IF pc = "footerTail" THEN "leave" ELSE "verify")
    /\ UNCHANGED <<setting, db, mem, shutdown, restarts>>

\* The end of run(): the queue table goes only when the phase is complete.
Leave ==
    /\ pc = "leave"
    /\ IF stopped THEN Goto("interrupted") /\ UNCHANGED queue
       ELSE Goto("verify") /\ queue' = {}
    /\ UNCHANGED <<setting, phase, session, err, sessions, bytesOut, archive, mem,
                   shutdown, restarts>>

\* verify_after_phase (A7, A8), then the driver saves phase Done.
Verify ==
    /\ pc = "verify"
    /\ Goto(IF /\ \A f \in Canonicals : (session[f] # NULL) # (f \in err)
               /\ \A f \in Files : phase[f] = "archived"
            THEN "done" ELSE "panicked")
    /\ UNCHANGED <<setting, db, archive, mem, shutdown, restarts>>

-----------------------------------------------------------------------------
(* Signals, crashes, reruns.                                               *)

Signal ==
    /\ pc \notin Settled
    /\ \/ shutdown = "running" /\ shutdown' = "graceful"
       \/ shutdown = "graceful" /\ "force" \in Adverse /\ shutdown' = "force"
    /\ UNCHANGED <<setting, db, archive, mem, pc, restarts>>

\* The windows in which a crash leaves tables and file at odds for good.  At
\* "meta" there is one only if an older length is recorded and no pending
\* trailer shields the next run from comparing it.
Window ==
    CASE pc = "revert" -> "revert"
      [] pc \in {"excuseSource", "excuseAppend"} -> "excuse"
      [] pc = "meta" /\ bytesOut # NULL /\ (stopped \/ ~setting.footer) -> "meta"
      [] pc = "verify" \/ (pc = "leave" /\ ~stopped) -> "leave"
      [] OTHER -> "none"

\* A crash, or a rerun after the program stopped.
Restart ==
    /\ pc # "done"
    /\ restarts < MaxRestarts
    /\ Window \in Adverse \cup {"none"}
    /\ restarts' = restarts + 1
    /\ archive' \in Abandoned(archive)
    /\ stream' = <<>> /\ sid' = 0 /\ cursor' = 0 /\ stopped' = FALSE
    /\ shutdown' = "running"
    /\ Goto("recover")
    /\ UNCHANGED <<setting, db>>

\* The program has stopped, or write_all retries for ever.
Stopped == pc \in Settled \cup {"spinning"} /\ UNCHANGED vars

Driver ==
    \/ Recover \/ Abort \/ Revert \/ Decide \/ Begin \/ PromoteIneligible
    \/ WriteManifest \/ PopulateQueue \/ NextRow \/ AppendMember \/ Excuse \/ Stop
    \/ Collect \/ WriteSnapshot \/ Unwrap \/ Close \/ RecordSession \/ RecordBytes
    \/ FooterHead \/ FooterTail \/ Leave \/ Verify

Next == Driver \/ Signal \/ Restart \/ Stopped

Spec == Init /\ [][Next]_vars

\* The program runs on a single thread that the system keeps scheduling.
FairSpec == Spec /\ WF_vars(Driver)

-----------------------------------------------------------------------------
(* Safety.                                                                 *)

\* The part of the file that no recovery will cut.
Trusted ==
    IF Open = {} THEN archive
    ELSE SubSeq(archive, 1, sessions[CHOOSE s \in Open : TRUE].offset)

Committed == {f \in Files : Holds(Trusted, f)}

\* Where a session is open and its stream is in this process's hands.
Writing == {"promote", "manifest", "queue", "next", "append", "excuseSource",
            "excuseAppend", "stop", "collect", "snapshot", "unwrap", "close",
            "spinning"}

\* The table and the file tell the same story at every moment, crashes
\* included: a row is marked with a finalized session exactly if its payload
\* lies in the part of the file that stays, a mark of an aborted session is
\* about to be removed, and the open session's marks are the stream's members.
\* (session_id, archive_sessions, truncate_archive_at)
RowsMatchArchive ==
    \A f \in Files :
        LET marked(status) == /\ session[f] # NULL
                              /\ sessions[session[f]].status = status
        IN /\ marked("finalized") <=> f \in Committed
           /\ marked("aborted") => pc = "revert" /\ session[f] = sid
           /\ pc \in Writing => (marked("open") <=> Holds(stream, f))

\* No payload is stored twice, whatever was truncated, reverted and appended
\* again.  (pull_pending_archive_rows over the kept archive_queue)
NoTwins(file) ==
    \A i, j \in DOMAIN file :
        file[i].kind = "member" /\ file[i] = file[j] => i = j

OnePayload == NoTwins(IF pc \in Writing THEN Trusted \o stream ELSE Trusted)

\* Every database copy in the archive confirms exactly the members before it,
\* and the last one confirms them all: what an extraction may rely on.
\* (append_snapshot, promote_pending_archived)
SnapshotsTell ==
    LET before(i) == {f \in Files : \E j \in 1 .. i - 1 : Trusted[j] = Member(f)}
        copies == {i \in DOMAIN Trusted : Trusted[i].kind \in {"manifest", "snapshot"}}
    IN /\ \A i \in copies : Trusted[i].rows = before(i)
       /\ Committed # {} => \E i \in copies : Trusted[i].rows = Committed

\* The units that end what a sequential reader sees: the tar end marker, a
\* member cut short, the trailer, and with a decoder that reads only the first
\* stream, the end of that.
Barrier == {"eof", "torn", "head", "tail"} \cup
           (IF setting.decoder = "first" THEN {"close"} ELSE {})

\* In a finished archive a sequential reader comes by every stored payload:
\* sessions stopped halfway concatenate to one tar stream.
\* (TarSink.resolve_trailing_eof, open_decompressed)
MembersReached ==
    pc = "done" =>
        \A i \in DOMAIN archive : archive[i].kind = "member" =>
            \A j \in 1 .. i : archive[j].kind \notin Barrier

\* No crash outside the windows, no signal, failed read or failed write leads a
\* later run into one of its own assertions.
NeverPanics == pc # "panicked"

\* The phase implements its promise: payloads are committed a session at a
\* time and never lost, and Done is saved only when nothing is missing.
Promise == INSTANCE ArchivePromise
    WITH wanted <- Canonicals, committed <- Committed,
         excused <- err \cap Canonicals, sealed <- pc = "done"

KeepsPromise == Promise!Spec

(* The inductive invariant behind the theorems of ArchiveProofs.            *)

\* Where every session is finalized or given up.
NoSession == {"revert", "decide", "begin", "meta", "footer", "footerTail", "oneShot",
              "oneShotTail", "leave", "verify", "done"}

\* Only the last session can be open, and the position of the thread tells
\* whether it is and what of it is where: nothing goes to the file beside the
\* compressor, and the compressor holds nothing once the session is closed.
SessionAtHand ==
    /\ Open \subseteq {Len(sessions)}
    /\ \A s \in Open : sessions[s].offset <= Len(archive)
    /\ pc \in Writing \cup {"abort", "record"} => Open = {sid}
    /\ pc \in Writing \cup {"abort"} => sessions[sid].offset = Len(archive)
    /\ pc \in NoSession => Open = {}
    /\ pc = "revert" => sid \in DOMAIN sessions /\ sessions[sid].status = "aborted"
    /\ stream # <<>> => Open # {} /\ pc \in Writing \cup {"panicked"}

\* A marked row is one the queue may hold and is not given up; the row at hand
\* is neither marked nor given up.
MarksProper ==
    /\ \A f \in Files : session[f] # NULL =>
           session[f] \in DOMAIN sessions /\ f \in Canonicals /\ f \notin err
    /\ queue \subseteq Canonicals
    /\ pc = "append" => /\ cursor \in queue
                       /\ session[cursor] = NULL
                       /\ cursor \notin err

\* Between the last byte of a session and its record, what was written behind
\* its offset is what its rows are marked for.
ClosedNotRecorded ==
    pc = "record" =>
        /\ NoTwins(archive)
        /\ \A f \in Files :
               session[f] = sid <=> \E i \in DOMAIN archive :
                   i > sessions[sid].offset /\ archive[i] = Member(f)

IInv ==
    /\ TypeOK /\ SessionAtHand /\ MarksProper /\ ClosedNotRecorded
    /\ RowsMatchArchive /\ OnePayload

(* Liveness. *)

\* Each run comes to an end, and the reruns do; only a third signal that catches
\* the writer at work may not (its callers retry Interrupted).
Settles == <>[](pc \in Settled \/ (pc = "spinning" /\ shutdown = "force"))

(* What the documentation and the code's own comments say and a run refutes. *)

\* clear_archive_session_pending: the bytes a recovery cut off are appended
\* again, so a finished run holds or excuses each payload.
NothingLost == pc = "done" => Canonicals \subseteq Committed \cup err
=============================================================================
