------------------------------- MODULE Framing -------------------------------
(***************************************************************************)
(* What a session of the archive phase does to the archive file            *)
(* (tar_writer.rs, compression/xz.rs, archive_footer.rs, cmd/check.rs):    *)
(* blocks from the tar builder through the sink that holds the last two    *)
(* back, the buffer and the compressor into the file, then the footer with *)
(* the catalogue, and what a reader finds of it after damage.              *)
(* ArchiveSession has the tables that go with it, and the order of the     *)
(* sessions; here a block is 512 bytes and everything else one token.      *)
(***************************************************************************)
EXTENDS Naturals, FiniteSets, SequencesExt

CONSTANTS
    Formats,     \* of "xz", "gz" (for bz2 as well), "zstd", "none"
    Members,     \* the files to store: their headers and data, write by write
    Snapshot,    \* the catalogue that ends a session, likewise
    Capacity,    \* blocks in the buffer
    MaxLaunches, \* runs of the archive phase
    Faults,      \* whether a write may fail (a full disk)
    MaxDamage,   \* tokens damaged after the archive was written
    NULL

Block == Nat \X Nat             \* <<member, number>>
Zero == <<0, 0>>                \* a block of zeros
TarEof == <<Zero, Zero>>        \* TAR_EOF_LEN

ASSUME FramingAssumption ==
    /\ Formats \subseteq {"xz", "gz", "zstd", "none"}
    /\ Members \in Seq(Seq(Seq(Block))) /\ Snapshot \in Seq(Seq(Block))
    /\ \A w \in ToSet(Snapshot): w # <<>>
    /\ \A m \in DOMAIN Members: \A w \in ToSet(Members[m]): w # <<>>
    /\ Capacity \in Nat \ {0} /\ MaxLaunches \in Nat \ {0} /\ MaxDamage \in Nat
    /\ Faults \in BOOLEAN
    /\ NULL \notin Nat /\ NULL \notin Seq(Block)

VARIABLES
    format,
    file,     \* the archive file, a sequence of tokens
    base,     \* where the open session began, or NULL
    closed,   \* the last session closed: none, part, final
    stored, taken, \* members in closed sessions, and met by this one
    todo,     \* writes that the builder still makes of a member
    pending,  \* TarSink.pending
    input,    \* what drain_pending_excess has still to pass on
    buf, sent, \* BufferedCompress.buf, and the offset of flush_buf
    coder,    \* what the compressor took and did not write yet
    said,     \* history: blocks of the members of this session
    kept,     \* history: those of the closed sessions
    faulty,   \* history: the members in which a write has failed, 0 for other writes
    whole,    \* history: the finished archive, before any damage, or <<>>
    shutdown, pc, launches

session == <<todo, pending, input, buf, sent, coder>>
vars == <<format, file, base, closed, stored, taken, session, said, kept, faulty,
          whole, shutdown, pc, launches>>

Token(kind, of) == [kind |-> kind, of |-> of]
Encoded(blocks) == [i \in DOMAIN blocks |-> Token("block", blocks[i])]
StreamEnd == IF format = "none" THEN <<>> ELSE <<Token("end", <<>>)>>
Junk == Token("junk", <<>>)

-----------------------------------------------------------------------------
(* The footer: MAGIC, digest of all before, catalogue, its digest, MAGIC,  *)
(* offset of the first MAGIC.                                              *)

Magic == Token("magic", <<>>)
Digest(tokens) == Token("digest", tokens)
FooterFixedOverhead == 5
Catalogue == <<Token("xz", <<>>)>>

Footer(f) ==
    <<Magic, Digest(f)>> \o Catalogue \o <<Digest(Catalogue), Magic, Token("offset", <<Len(f)>>)>>

\* Mutant: the offset is believed.
LocateFooterUnseen(f) ==
    LET len == Len(f)
        offset == f[len].of[1]
    IN  IF \/ len < FooterFixedOverhead \/ f[len - 1] # Magic \/ f[len].kind # "offset"
           \/ offset + FooterFixedOverhead > len
        THEN NULL
        ELSE offset
\* The offset of the footer, NULL where none is, or that the file is corrupt.
LocateFooter(f) ==
    LET len == Len(f)
        offset == f[len].of[1]
    IN  IF \/ len < FooterFixedOverhead \/ f[len - 1] # Magic \/ f[len].kind # "offset"
           \/ offset + FooterFixedOverhead > len
        THEN NULL
        ELSE IF f[offset + 1] # Magic THEN Len(f) + 1 ELSE offset

Corrupt(f) == LocateFooter(f) = Len(f) + 1
FooterLayout(f) ==
    LET o == LocateFooter(f)
    IN  [content |-> SubSeq(f, 1, o), digest |-> f[o + 2],
         xz |-> SubSeq(f, o + 3, Len(f) - 3), xzDigest |-> f[Len(f) - 2]]

\* read_footer: installed, absent, or an error.
ReadFooter(f) ==
    IF LocateFooter(f) = NULL THEN "absent"
    ELSE IF Corrupt(f) \/ FooterLayout(f).xzDigest # Digest(FooterLayout(f).xz) THEN "error"
    ELSE "installed"
HasValidFooter(f) == ReadFooter(f) = "installed"

\* verify_archive_integrity: whether the archive is what the footer says.
ArchiveIntegrity(f) ==
    IF LocateFooter(f) = NULL THEN "false"
    ELSE IF Corrupt(f) THEN "error"
    ELSE IF FooterLayout(f).digest = Digest(FooterLayout(f).content) THEN "true" ELSE "false"

VerifyFooter(f) ==
    IF LocateFooter(f) = NULL THEN "NoFooter"
    ELSE IF Corrupt(f) THEN "InvalidFooter"
    ELSE LET l == FooterLayout(f)
             content == l.digest = Digest(l.content)
             database == l.xzDigest = Digest(l.xz)
         IN  IF content THEN IF database THEN "Ok" ELSE "DatabaseMismatch"
             ELSE IF database THEN "ContentMismatch" ELSE "BothMismatch"

\* The command check.
ExitCode(verdict) ==
    CASE verdict = "Ok" -> 0 [] verdict = "NoFooter" -> 2 [] verdict = "InvalidFooter" -> 3
      [] verdict = "ContentMismatch" -> 4 [] verdict = "DatabaseMismatch" -> 5
      [] verdict = "BothMismatch" -> 6

-----------------------------------------------------------------------------
(* A launch, and the members.                                              *)

Init ==
    /\ format \in Formats
    /\ file = <<>> /\ base = NULL /\ closed = "none" /\ stored = 0 /\ taken = 0
    /\ todo = <<>> /\ pending = <<>> /\ input = NULL /\ buf = <<>> /\ sent = 0 /\ coder = <<>>
    /\ said = <<>> /\ kept = <<>> /\ faulty = {} /\ whole = <<>>
    /\ shutdown = "running" /\ pc = "recover" /\ launches = 1

Goto(to) == pc' = to
Cleared == todo' = <<>> /\ pending' = <<>> /\ input' = NULL /\ buf' = <<>> /\ sent' = 0 /\ coder' = <<>>
db == <<base, closed, stored>>
history == <<said, kept, faulty, whole>>
env == <<format, shutdown, launches>>

\* The end of a session that was open is cut off; a closed final session that
\* lacks its footer is given it, any other is gone on from (TarWriter::open).
Recover ==
    /\ pc = "recover"
    /\ LET cut == IF base = NULL THEN file ELSE SubSeq(file, 1, base)
       IN  /\ file' = cut
           /\ IF closed = "final"
              THEN /\ Goto(IF HasValidFooter(cut) THEN "kept" ELSE "footer")
                   /\ whole' = IF HasValidFooter(cut) THEN cut ELSE <<>>
                   /\ UNCHANGED base
              ELSE Goto("next") /\ base' = Len(cut) /\ UNCHANGED whole
    /\ taken' = stored /\ said' = <<>>
    /\ UNCHANGED <<closed, stored, session, kept, faulty, env>>

AllTaken == taken = Len(Members)

\* The next member, or the snapshot that ends the session.
NextMember ==
    /\ pc = "next"
    /\ IF shutdown = "force" THEN Goto("abandon") /\ UNCHANGED <<todo, taken>>
       ELSE IF shutdown = "graceful" \/ AllTaken
       THEN Goto("snapshot") /\ todo' = Snapshot /\ UNCHANGED taken
       ELSE Goto("member") /\ todo' = Members[taken + 1] /\ taken' = taken + 1
    /\ UNCHANGED <<file, db, pending, input, buf, sent, coder, history, env>>

\* The release of a write, or none; pending is drained when it has all passed.
Release(blocks, n) ==
    /\ pending' = pending \o blocks
    /\ input' = IF n <= 0 THEN NULL ELSE SubSeq(pending \o blocks, 1, n)

\* Mutant: one block more is let through.
SinkTight(blocks) == Release(blocks, Len(pending) + Len(blocks) + 1 - Len(TarEof))
\* TarSink::write: all but the last two blocks are to be passed on.
Sink(blocks) == Release(blocks, Len(pending) + Len(blocks) - Len(TarEof))

\* The builder makes one write.
Write ==
    /\ pc \in {"member", "snapshot"} /\ input = NULL /\ todo # <<>>
    /\ Sink(Head(todo)) /\ todo' = Tail(todo)
    /\ said' = said \o Head(todo)
    /\ UNCHANGED <<file, db, taken, buf, sent, coder, kept, faulty, whole, pc, env>>

Written ==
    /\ pc \in {"member", "snapshot"} /\ input = NULL /\ todo = <<>>
    /\ Goto(IF pc = "member" THEN "next" ELSE "eof")
    /\ UNCHANGED <<file, db, taken, session, history, env>>

-----------------------------------------------------------------------------
(* The buffer and the compressor.                                          *)

\* drain_pending_excess, when its write_all has returned.
Held == IF pc = "flush" THEN <<>> ELSE SubSeq(pending, Len(pending) - Len(TarEof) + 1, Len(pending))

\* BufferedCompress::write, until the buffer is full.  An interrupt there is an
\* error that write_all takes for a reason to try again.
Buffer ==
    /\ input \notin {NULL, <<>>} /\ Len(buf) < Capacity /\ pc # "spinning"
    /\ IF shutdown = "force" THEN Goto("spinning") /\ UNCHANGED <<pending, input, buf>>
       ELSE LET n == Min({Capacity - Len(buf), Len(input)})
                passed == n = Len(input) /\ Len(buf) + n < Capacity
            IN  /\ buf' = buf \o SubSeq(input, 1, n)
                /\ input' = IF passed THEN NULL ELSE SubSeq(input, n + 1, Len(input))
                /\ pending' = IF passed THEN Held ELSE pending
                /\ UNCHANGED pc
    /\ UNCHANGED <<file, db, taken, todo, sent, coder, history, env>>

Flushing ==
    /\ pc # "spinning"
    /\ IF input # NULL THEN Len(buf) = Capacity ELSE pc = "flush" /\ buf # <<>>

\* What the layer takes of the buffer: xz all of it, a file at once.
Taken(n) ==
    LET blocks == SubSeq(buf, sent + 1, sent + n)
    IN  IF format = "none" THEN file' = file \o Encoded(blocks) /\ UNCHANGED coder
        ELSE coder' = coder \o blocks /\ UNCHANGED file

\* flush_buf: one write of the rest of the buffer to the layer.
FlushBuf ==
    /\ Flushing /\ shutdown # "force"
    /\ \E n \in 1 .. Len(buf) - sent:
          /\ format = "xz" => n = Len(buf) - sent
          /\ Taken(n)
          /\ LET done == sent + n = Len(buf)
                 passed == done /\ input = <<>>
             IN  /\ buf' = IF done THEN <<>> ELSE buf
                 /\ sent' = IF done THEN 0 ELSE sent + n
                 /\ input' = IF passed THEN NULL ELSE input
                 /\ pending' = IF passed THEN Held ELSE pending
    /\ UNCHANGED <<db, taken, todo, history, pc, env>>

\* The interrupt of flush_buf is tried again inside a write, and ends finalize.
FlushInterrupted ==
    /\ Flushing /\ shutdown = "force"
    /\ IF input # NULL THEN Goto("spinning") /\ UNCHANGED session
       ELSE Goto("ended") /\ Cleared
    /\ UNCHANGED <<file, db, taken, history, env>>

\* A write of the layer fails: what it took is not told, the buffer and the
\* sink keep what they have.  The member is flagged and the session goes on; a
\* snapshot or the end of the stream ends the run.
WriteFails ==
    /\ Faults /\ Flushing
    /\ \E n \in 0 .. Len(buf) - sent: Taken(n)
    /\ faulty' = faulty \cup {IF pc = "member" THEN taken ELSE 0} /\ sent' = 0
    /\ IF pc = "member" THEN Goto("next") ELSE Goto("ended")
    /\ input' = NULL /\ todo' = <<>>
    /\ UNCHANGED <<db, taken, pending, buf, said, kept, whole, env>>

\* The compressor writes, in its own time.
Emit ==
    /\ coder # <<>> /\ pc # "ended"
    /\ file' = file \o Encoded(<<Head(coder)>>) /\ coder' = Tail(coder)
    /\ UNCHANGED <<db, taken, todo, pending, input, buf, sent, history, pc, env>>

-----------------------------------------------------------------------------
(* The end of a session.                                                   *)

\* Builder::into_inner always writes the end of a tar.
Eof ==
    /\ pc = "eof" /\ Sink(TarEof) /\ Goto("resolve")
    /\ UNCHANGED <<file, db, taken, todo, buf, sent, coder, history, env>>

\* Mutant: the end is always passed on.
ResolveAlways ==
    /\ pc = "resolve" /\ input = NULL
    /\ input' = pending /\ UNCHANGED pending
    /\ Goto("flush")
    /\ UNCHANGED <<file, db, taken, todo, buf, sent, coder, history, env>>
\* resolve_trailing_eof: passed on by the session that ends the archive.
Resolve ==
    /\ pc = "resolve" /\ input = NULL
    /\ IF ~AllTaken /\ Len(pending) <= Len(TarEof) /\ ToSet(pending) = {Zero}
       THEN pending' = <<>> /\ UNCHANGED input
       ELSE input' = pending /\ UNCHANGED pending
    /\ Goto("flush")
    /\ UNCHANGED <<file, db, taken, todo, buf, sent, coder, history, env>>

\* The stream ends: what the compressor has left, and its own end.
Finish ==
    /\ pc = "flush" /\ input = NULL /\ buf = <<>>
    /\ IF format = "xz" /\ shutdown = "force" THEN Goto("ended") /\ UNCHANGED file
       ELSE Goto("close") /\ file' = file \o Encoded(coder) \o StreamEnd
    /\ Cleared
    /\ UNCHANGED <<db, taken, history, env>>

\* finalize_archive_session.
Close ==
    /\ pc = "close"
    /\ base' = NULL /\ closed' = (IF AllTaken THEN "final" ELSE "part") /\ stored' = taken
    /\ kept' = kept \o said
    /\ Goto(IF AllTaken THEN "footer" ELSE "ended")
    /\ UNCHANGED <<file, taken, session, said, faulty, whole, env>>

\* Force before a member: the end of the tar is written all the same, and only
\* a sink that holds nothing takes it without a write that spins.
Abandon ==
    /\ pc = "abandon"
    /\ IF pending = <<>> THEN Goto("ended") /\ Cleared ELSE Goto("spinning") /\ UNCHANGED session
    /\ UNCHANGED <<file, db, taken, history, env>>

\* write_footer: the archive is read back, then the pieces are appended.
BeginFooter ==
    /\ pc = "footer"
    /\ IF shutdown = "force" THEN Goto("ended") /\ UNCHANGED todo
       ELSE Goto("trailer") /\ todo' = Footer(file)
    /\ UNCHANGED <<file, db, taken, pending, input, buf, sent, coder, history, env>>

WriteFooter ==
    /\ pc = "trailer"
    /\ \/ /\ file' = Append(file, Head(todo)) /\ todo' = Tail(todo)
          /\ IF Len(todo) = 1 THEN Goto("kept") /\ whole' = file' /\ shutdown' = "running"
             ELSE UNCHANGED <<pc, whole, shutdown>>
       \/ Faults /\ Goto("ended") /\ todo' = <<>> /\ UNCHANGED <<file, whole, shutdown>>
    /\ UNCHANGED <<db, taken, pending, input, buf, sent, coder, said, kept, faulty, format, launches>>

-----------------------------------------------------------------------------
(* The world around.                                                       *)

Idle == {"recover", "ended", "kept"}

Signal ==
    /\ pc \notin Idle /\ shutdown # "force"
    /\ shutdown' = IF shutdown = "running" THEN "graceful" ELSE "force"
    /\ UNCHANGED <<format, file, db, taken, session, history, pc, launches>>

\* The process dies, perhaps within a piece of the footer.
Crash ==
    /\ pc \notin Idle
    /\ file' \in (IF pc = "trailer" THEN {file, Append(file, Junk)} ELSE {file})
    /\ Goto("ended") /\ Cleared
    /\ UNCHANGED <<db, taken, history, env>>

Relaunch ==
    /\ pc = "ended" \/ (pc = "kept" /\ file = whole)
    /\ launches < MaxLaunches
    /\ Goto("recover") /\ launches' = launches + 1 /\ shutdown' = "running" /\ Cleared
    /\ UNCHANGED <<format, file, db, taken, history>>

Damaged == {i \in DOMAIN file: file[i] # whole[i]}

\* A finished archive loses tokens, or its end.
Damage ==
    /\ pc = "kept" /\ Len(file) = Len(whole) /\ Cardinality(Damaged) < MaxDamage
    /\ \/ \E i \in DOMAIN file \ Damaged:
             file' \in {[file EXCEPT ![i] = t] :
                          t \in {Junk} \cup (IF i = Len(file)
                                             THEN {Token("offset", <<n>>) : n \in 0 .. Len(file)} \ {whole[i]}
                                             ELSE {})}
       \/ \E n \in 0 .. Len(file) - 1: file' = SubSeq(file, 1, n)
    /\ UNCHANGED <<format, db, taken, session, history, shutdown, pc, launches>>

Next ==
    \/ Recover \/ NextMember \/ Write \/ Written \/ Buffer \/ FlushBuf \/ FlushInterrupted
    \/ WriteFails \/ Emit \/ Eof \/ Resolve \/ Finish \/ Close \/ Abandon
    \/ BeginFooter \/ WriteFooter \/ Signal \/ Crash \/ Relaunch \/ Damage

Spec == Init /\ [][Next]_vars

-----------------------------------------------------------------------------
(* Properties.                                                             *)

TypeOK ==
    /\ format \in Formats /\ closed \in {"none", "part", "final"}
    /\ base \in {NULL} \cup 0 .. Len(file)
    /\ taken \in stored .. Len(Members) /\ sent \in 0 .. Len(buf) /\ Len(buf) <= Capacity
    /\ shutdown \in {"running", "graceful", "force"} /\ launches \in 1 .. MaxLaunches

\* What is in the file for good.
Archive == IF whole # <<>> THEN whole ELSE IF base # NULL THEN SubSeq(file, 1, base) ELSE file
Blocks(f) ==
    LET to[n \in 0 .. Len(f)] == IF n = 0 THEN <<>>
                                 ELSE IF f[n].kind = "block" THEN Append(to[n - 1], f[n].of)
                                 ELSE to[n - 1]
    IN  to[Len(f)]
Ended(f) == \E i \in DOMAIN f: f[i].kind = "end" /\ \A j \in i + 1 .. Len(f): f[j].kind # "block"

\* The blocks of the closed sessions stand in the archive, each once and in
\* order, and the end of the tar only behind the last session: what the sink
\* held back is not lost when a member ends in zeros, and the ends of the tars
\* in between are gone (drain_pending_excess, resolve_trailing_eof).  Every
\* stream is finished, so a decoder comes to the next one.
StreamWhole ==
    faulty = {} =>
        /\ Blocks(Archive) = kept \o (IF closed = "final" THEN TarEof ELSE <<>>)
        /\ kept # <<>> /\ format # "none" => Ended(Archive)

\* The footer is found in a finished archive, after however many were begun and
\* cut off, and in nothing else.  Of a damaged one the verdict names the half
\* that differs; no catalogue is installed but the one that was stored; and
\* scan, start and check, which each read the footer their own way, agree.
VerdictTells ==
    LET v == VerifyFooter(file)
        o == whole[Len(whole)].of[1]
        content == 1 .. o \cup {o + 2}
        database == o + 3 .. Len(whole) - 2
    IN  /\ whole = <<>> => v = "NoFooter"
        /\ pc = "kept" =>
              /\ (v = "Ok") = (file = whole)
              /\ Len(file) < Len(whole) => v = "NoFooter"
              /\ Len(file) = Len(whole) =>
                    /\ Damaged \subseteq content \cup database =>
                          /\ v \in {"ContentMismatch", "BothMismatch"} <=> Damaged \cap content # {}
                          /\ v \in {"DatabaseMismatch", "BothMismatch"} <=> Damaged \cap database # {}
                    /\ ReadFooter(file) = "installed" =>
                          FooterLayout(file).xz = FooterLayout(whole).xz
        /\ (ReadFooter(file) = "installed") = (v \in {"Ok", "ContentMismatch"})
        /\ (ReadFooter(file) = "absent") = (v = "NoFooter")
        /\ (ArchiveIntegrity(file) = "true") = (v \in {"Ok", "DatabaseMismatch"})
        /\ (ExitCode(v) = 0) = (HasValidFooter(file) /\ ArchiveIntegrity(file) = "true")

-----------------------------------------------------------------------------
(* The inductive invariant that StreamWhole and VerdictTells rest on.      *)

Sequence(f) == f \in Seq({f[i] : i \in DOMAIN f})
Tokens(f) == Sequence(f) /\ \A i \in DOMAIN f: f[i].kind = "block" => f[i].of \in Block
Unlocated(f) == \A i \in DOMAIN f: f[i].kind # "offset"
Working == {"next", "member", "snapshot", "eof", "resolve", "flush", "close"}

Shapes ==
    /\ TypeOK
    /\ Tokens(file) /\ Tokens(whole)
    /\ stored \in Nat /\ taken \in Nat
    /\ said \in Seq(Block) /\ kept \in Seq(Block)
    /\ pending \in Seq(Block) /\ buf \in Seq(Block) /\ coder \in Seq(Block)
    /\ input \in Seq(Block) \cup {NULL}
    /\ pc # "trailer" => todo \in Seq(Seq(Block))
    /\ pc \in Working \cup {"abandon", "spinning", "recover", "footer", "trailer", "kept", "ended"}

Phases ==
    /\ pc \in Working \cup {"abandon", "spinning"} => base # NULL
    /\ pc \in {"footer", "trailer", "kept"} => base = NULL /\ closed = "final"
    /\ base # NULL => closed # "final"
    /\ closed = "none" => kept = <<>>
    /\ pc \in {"recover", "close", "footer", "trailer", "kept"} =>
          pending = <<>> /\ input = NULL /\ buf = <<>> /\ coder = <<>>
    /\ format = "none" => coder = <<>>
    /\ pc \in {"next", "abandon", "eof", "ended"} => input = NULL
    /\ input # NULL /\ pc \notin {"flush", "spinning"} => Len(pending) >= Len(TarEof)
    /\ pc = "resolve" => Len(pending) >= Len(TarEof) /\ Held = TarEof
    /\ pc = "resolve" /\ input = NULL => pending = TarEof
    /\ pc = "flush" /\ input = NULL => pending = <<>>

\* What the session has been given is in the file, the compressor, the buffer
\* or the sink, in this order.
InFlight == coder \o SubSeq(buf, sent + 1, Len(buf)) \o (IF input = NULL THEN pending ELSE input \o Held)
Trailing == IF pc = "resolve" \/ (pc \in {"flush", "close"} /\ AllTaken) THEN TarEof ELSE <<>>
Conserved ==
    faulty = {} =>
        /\ pc \in Working => Blocks(file) \o InFlight = kept \o said \o Trailing
        /\ Blocks(Archive) = kept \o (IF closed = "final" THEN TarEof ELSE <<>>)
        /\ closed # "none" /\ format # "none" => Ended(Archive)
        /\ pc = "close" /\ format # "none" => Ended(file)

\* f ends in the first k pieces of the footer of what is before them.
EndsIn(f, k) ==
    LET n == Len(f) - k
    IN  n \in Nat /\ \A i \in 1 .. k: f[n + i] = Footer(SubSeq(f, 1, n))[i]
Worn ==
    \/ /\ Len(file) = Len(whole)
       /\ \A i \in DOMAIN whole:
             \/ file[i] \in {whole[i], Junk}
             \/ i = Len(whole) /\ \E n \in 0 .. Len(whole): file[i] = Token("offset", <<n>>)
    \/ Len(file) < Len(whole) /\ Unlocated(file)
Footers ==
    /\ whole = <<>> => Unlocated(file)
    /\ whole # <<>> =>
          /\ pc \in {"recover", "kept"} /\ base = NULL /\ closed = "final"
          /\ EndsIn(whole, 6) /\ Unlocated(SubSeq(whole, 1, Len(whole) - 6))
    /\ pc = "recover" /\ whole # <<>> => file = whole
    /\ pc = "kept" => whole # <<>> /\ Worn
    /\ pc = "trailer" =>
          /\ Sequence(todo) /\ Len(todo) \in 1 .. 6 /\ EndsIn(file, 6 - Len(todo))
          /\ \A i \in DOMAIN todo:
                todo[i] = Footer(SubSeq(file, 1, Len(file) + Len(todo) - 6))[6 - Len(todo) + i]

IInv == Shapes /\ Phases /\ Conserved /\ Footers

-----------------------------------------------------------------------------
(* What a comment says and the code does not do.                           *)

\* The members a reader of the blocks comes to whole, from header to header.
Items == [m \in DOMAIN Members |-> FlattenSeq(Members[m])] \o <<FlattenSeq(Snapshot)>>
Readable(blocks) ==
    LET from[i \in 1 .. Len(blocks) + 1] ==
          IF i > Len(blocks) THEN {}
          ELSE LET here == {m \in DOMAIN Items : Items[m][1] = blocks[i]}
               IN  UNION {IF i + Len(Items[m]) > Len(blocks) + 1 THEN {}
                          ELSE {n \in {m} : SubSeq(blocks, i, i + Len(Items[m]) - 1) = Items[m]}
                                 \cup from[i + Len(Items[m])] : m \in here}
    IN  from[1]

\* archive/tar_builder.rs: a member whose append fails is marked and the session
\* goes on, since "the member was not written"; then the others can be read.
OthersStand == base = NULL => 1 .. stored \ faulty \subseteq Readable(Blocks(Archive))
=============================================================================
