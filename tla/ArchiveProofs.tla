--------------------------- MODULE ArchiveProofs ---------------------------
(***************************************************************************)
(* Theorems about the archive phase, for every set of rows, every number   *)
(* of sessions, stops, crashes and reruns, and every place a crash can     *)
(* fall, the window between the two statements of                          *)
(* abort_incomplete_session excepted.  The argument is the inductive       *)
(* invariant IInv of module ArchiveSession.                                *)
(***************************************************************************)
EXTENDS ArchiveSession, TLAPS, SequenceTheorems

(***************************************************************************)
(* Files: what a cut, an append and a concatenation do to the members.     *)
(***************************************************************************)
\* A member is in what two pieces make together if it is in one of them.
LEMMA HoldsConcat ==
    ASSUME NEW s \in Seq(Unit), NEW t \in Seq(Unit), NEW f
    PROVE  Holds(s \o t, f) <=> Holds(s, f) \/ Holds(t, f)
<1>1. /\ s \o t \in Seq(Unit)
      /\ Len(s \o t) = Len(s) + Len(t)
      /\ \A i \in 1 .. Len(s) + Len(t) :
             (s \o t)[i] = IF i <= Len(s) THEN s[i] ELSE t[i - Len(s)]
    BY ConcatProperties
<1>2. /\ Len(s) \in Nat /\ DOMAIN s = 1 .. Len(s)
      /\ Len(t) \in Nat /\ DOMAIN t = 1 .. Len(t)
      /\ DOMAIN (s \o t) = 1 .. Len(s) + Len(t)
    BY <1>1, LenProperties
<1>3. ASSUME Holds(s, f) PROVE Holds(s \o t, f)
    <2>1. PICK i \in 1 .. Len(s) : s[i] = Member(f)
        BY <1>2, <1>3 DEF Holds
    <2>2. i \in 1 .. Len(s) + Len(t) /\ (s \o t)[i] = Member(f)
        BY <1>1, <1>2, <2>1
    <2> QED BY <1>2, <2>2 DEF Holds
<1>4. ASSUME Holds(t, f) PROVE Holds(s \o t, f)
    <2>1. PICK i \in 1 .. Len(t) : t[i] = Member(f)
        BY <1>2, <1>4 DEF Holds
    <2>2. /\ Len(s) + i \in 1 .. Len(s) + Len(t)
          /\ ~ (Len(s) + i <= Len(s)) /\ Len(s) + i - Len(s) = i
        BY <1>2
    <2>3. (s \o t)[Len(s) + i] = Member(f)
        BY <1>1, <2>1, <2>2
    <2> QED BY <1>2, <2>2, <2>3 DEF Holds
<1>5. ASSUME Holds(s \o t, f) PROVE Holds(s, f) \/ Holds(t, f)
    <2>1. PICK i \in 1 .. Len(s) + Len(t) : (s \o t)[i] = Member(f)
        BY <1>2, <1>5 DEF Holds
    <2>2. CASE i <= Len(s)
        BY <1>1, <1>2, <2>1, <2>2 DEF Holds
    <2>3. CASE i > Len(s)
        <3>1. i - Len(s) \in 1 .. Len(t) /\ t[i - Len(s)] = Member(f)
            BY <1>1, <1>2, <2>1, <2>3
        <3> QED BY <1>2, <3>1 DEF Holds
    <2> QED BY <1>2, <2>2, <2>3
<1> QED BY <1>3, <1>4, <1>5

\* Appending a unit adds at most the member it is.
LEMMA HoldsAppend ==
    ASSUME NEW s \in Seq(Unit), NEW u \in Unit, NEW f
    PROVE  Holds(Append(s, u), f) <=> Holds(s, f) \/ u = Member(f)
<1>1. Append(s, u) = s \o <<u>> /\ <<u>> \in Seq(Unit)
    BY AppendIsConcat
<1>2. Holds(<<u>>, f) <=> u = Member(f)
    BY DEF Holds
<1>3. Holds(s \o <<u>>, f) <=> Holds(s, f) \/ Holds(<<u>>, f)
    BY <1>1, HoldsConcat
<1> QED BY <1>1, <1>2, <1>3, Zenon

\* The first n units of a file are the first n units of what it grows to.
LEMMA Prefix ==
    ASSUME NEW s \in Seq(Unit), NEW t \in Seq(Unit), NEW n \in 0 .. Len(s)
    PROVE  SubSeq(s \o t, 1, n) = SubSeq(s, 1, n)
<1>1. Len(s) \in Nat
    BY LenProperties
<1>2. CASE n = 0
    BY <1>2, SubSeqEmpty
<1>3. CASE n # 0
    BY <1>1, <1>3, SubSeqOfConcat1
<1> QED BY <1>2, <1>3

\* A cut is a file of the length asked for.
LEMMA Cut ==
    ASSUME NEW s \in Seq(Unit), NEW n \in 0 .. Len(s)
    PROVE  /\ SubSeq(s, 1, n) \in Seq(Unit)
           /\ Len(SubSeq(s, 1, n)) = n
           /\ \A i \in 1 .. n : SubSeq(s, 1, n)[i] = s[i]
<1>1. Len(s) \in Nat /\ \A i \in 1 .. n : s[i] \in Unit
    BY LenProperties, ElementOfSeq
<1>2. /\ SubSeq(s, 1, n) \in Seq(Unit)
      /\ Len(SubSeq(s, 1, n)) = IF 1 <= n THEN n - 1 + 1 ELSE 0
      /\ \A i \in 1 .. n - 1 + 1 : SubSeq(s, 1, n)[i] = s[1 + i - 1]
    BY <1>1, SubSeqProperties
<1> QED BY <1>1, <1>2

\* A piece of a file without twins has none.
LEMMA NoTwinsPrefix ==
    ASSUME NEW s \in Seq(Unit), NEW t \in Seq(Unit), NoTwins(s \o t)
    PROVE  NoTwins(s)
<1>1. /\ s \o t \in Seq(Unit)
      /\ Len(s \o t) = Len(s) + Len(t)
      /\ \A i \in 1 .. Len(s) + Len(t) :
             (s \o t)[i] = IF i <= Len(s) THEN s[i] ELSE t[i - Len(s)]
    BY ConcatProperties
<1>2. /\ Len(s) \in Nat /\ DOMAIN s = 1 .. Len(s)
      /\ Len(t) \in Nat /\ DOMAIN (s \o t) = 1 .. Len(s) + Len(t)
    BY <1>1, LenProperties
<1>3. \A i \in DOMAIN s : i \in DOMAIN (s \o t) /\ (s \o t)[i] = s[i]
    BY <1>1, <1>2
<1> QED BY <1>3 DEF NoTwins

LEMMA NoTwinsCut ==
    ASSUME NEW s \in Seq(Unit), NEW n \in 0 .. Len(s), NoTwins(s)
    PROVE  NoTwins(SubSeq(s, 1, n))
<1>1. Len(s) \in Nat /\ DOMAIN s = 1 .. Len(s)
    BY LenProperties
<1>2. SubSeq(s, 1, n) \in Seq(Unit) /\ Len(SubSeq(s, 1, n)) = n
      /\ \A i \in 1 .. n : SubSeq(s, 1, n)[i] = s[i]
    BY Cut
<1>3. DOMAIN SubSeq(s, 1, n) = 1 .. n
    BY <1>2, LenProperties
<1>4. \A i \in 1 .. n : i \in DOMAIN s
    BY <1>1
<1> QED BY <1>2, <1>3, <1>4 DEF NoTwins

\* A unit that is no member, or the first of its row, makes no twins.
LEMMA NoTwinsAppend ==
    ASSUME NEW s \in Seq(Unit), NEW u \in Unit, NoTwins(s),
           u.kind # "member" \/ \A i \in DOMAIN s : s[i] # u
    PROVE  NoTwins(Append(s, u))
<1>1. Len(s) \in Nat /\ DOMAIN s = 1 .. Len(s)
    BY LenProperties
<1>2. /\ Append(s, u) \in Seq(Unit)
      /\ Len(Append(s, u)) = Len(s) + 1
      /\ \A i \in 1 .. Len(s) : Append(s, u)[i] = s[i]
      /\ Append(s, u)[Len(s) + 1] = u
    BY AppendProperties
<1>3. DOMAIN Append(s, u) = 1 .. Len(s) + 1
    BY <1>2, LenProperties
<1>4. \A i \in DOMAIN Append(s, u) : i \in DOMAIN s \/ i = Len(s) + 1
    BY <1>1, <1>3
<1> QED BY <1>1, <1>2, <1>4 DEF NoTwins

(***************************************************************************)
(* The trusted part of the file.                                           *)
(***************************************************************************)
\* Only one session can be open; while it is written the whole file is trusted.
LEMMA TrustedShape ==
    ASSUME TypeOK, SessionAtHand
    PROVE  /\ archive \in Seq(Unit) /\ stream \in Seq(Unit)
           /\ Len(archive) \in Nat /\ DOMAIN archive = 1 .. Len(archive)
           /\ Open = {} => Trusted = archive
           /\ \A s \in Open : /\ s \in DOMAIN sessions
                             /\ Open = {s}
                             /\ sessions[s].offset \in 0 .. Len(archive)
                             /\ Trusted = SubSeq(archive, 1, sessions[s].offset)
           /\ pc \in Writing => Trusted = archive
           /\ Trusted \in Seq(Unit)
<1>1. /\ archive \in Seq(Unit) /\ stream \in Seq(Unit)
      /\ Len(archive) \in Nat /\ DOMAIN archive = 1 .. Len(archive)
    BY LenProperties DEF TypeOK
<1>2. Open = {} => Trusted = archive
    BY DEF Trusted
<1>3. ASSUME NEW s \in Open
      PROVE  /\ s \in DOMAIN sessions
             /\ Open = {s}
             /\ sessions[s].offset \in 0 .. Len(archive)
             /\ Trusted = SubSeq(archive, 1, sessions[s].offset)
    <2>1. s = Len(sessions) /\ Open = {s} /\ s \in DOMAIN sessions
        BY DEF SessionAtHand, Open
    <2>2. sessions[s].offset \in Nat
        <3>1. s \in 1 .. Len(sessions)
            BY <2>1, LenProperties DEF TypeOK
        <3>2. sessions[s] \in [offset: Nat, status: {"open", "finalized", "aborted"}]
            BY <3>1, ElementOfSeq DEF TypeOK
        <3> QED BY <3>2
    <2>3. sessions[s].offset <= Len(archive)
        BY DEF SessionAtHand
    <2>4. (CHOOSE x \in Open : TRUE) = s
        BY <2>1
    <2>5. Trusted = SubSeq(archive, 1, sessions[s].offset)
        BY <2>1, <2>4 DEF Trusted
    <2> QED BY <1>1, <2>1, <2>2, <2>3, <2>5
<1>4. pc \in Writing => Trusted = archive
    <2> SUFFICES ASSUME pc \in Writing PROVE Trusted = archive
        OBVIOUS
    <2>1. sid \in Open /\ sessions[sid].offset = Len(archive)
        BY DEF SessionAtHand
    <2>2. Trusted = SubSeq(archive, 1, Len(archive))
        BY <1>3, <2>1
    <2> QED BY <1>1, <2>2, SubSeqFull
<1>5. Trusted \in Seq(Unit)
    <2>1. CASE Open = {}
        BY <1>1, <1>2, <2>1
    <2>2. CASE Open # {}
        <3>1. PICK s \in Open : TRUE
            BY <2>2
        <3> QED BY <1>1, <1>3, <3>1, Cut
    <2> QED BY <2>1, <2>2
<1> QED BY <1>1, <1>2, <1>3, <1>4, <1>5

\* A step that leaves marks, sessions, file and stream alone.
LEMMA Quiet ==
    ASSUME IInv, UNCHANGED <<session, sessions, archive, stream>>,
           pc' \in Writing => pc \in Writing, pc # "revert"
    PROVE  /\ Trusted' = Trusted
           /\ RowsMatchArchive'
           /\ OnePayload'
<1>1. Open' = Open /\ Trusted' = Trusted /\ Committed' = Committed
    BY DEF Open, Trusted, Committed, Holds
<1>2. RowsMatchArchive'
    BY <1>1 DEF IInv, RowsMatchArchive, Holds
<1>3. OnePayload'
    <2>1. NoTwins(Trusted)
        <3>1. CASE pc \in Writing
            <4>1. NoTwins(Trusted \o stream)
                BY <3>1 DEF IInv, OnePayload
            <4> QED BY <4>1, TrustedShape, NoTwinsPrefix DEF IInv
        <3>2. CASE pc \notin Writing
            BY <3>2 DEF IInv, OnePayload
        <3> QED BY <3>1, <3>2
    <2>2. pc' \in Writing => NoTwins(Trusted \o stream)
        BY DEF IInv, OnePayload
    <2> QED BY <1>1, <2>1, <2>2 DEF OnePayload
<1> QED BY <1>1, <1>2, <1>3

\* A writer that is dropped, or dies: some of what it held reaches the file,
\* behind the part that is trusted.
LEMMA Dropped ==
    ASSUME IInv, archive' \in Abandoned(archive), stream' = <<>>,
           UNCHANGED <<session, sessions>>, pc' \notin Writing, pc # "revert"
    PROVE  /\ archive' \in Seq(Unit)
           /\ Len(archive') \in Nat /\ Len(archive') >= Len(archive)
           /\ Trusted' = Trusted
           /\ RowsMatchArchive'
           /\ OnePayload'
<1>1. TypeOK /\ SessionAtHand
    BY DEF IInv
<1>2. PICK n \in 0 .. Len(stream) : archive' = archive \o SubSeq(stream, 1, n)
    BY DEF Abandoned
<1>3. SubSeq(stream, 1, n) \in Seq(Unit)
    BY <1>1, TrustedShape, Cut
<1>4. /\ archive' \in Seq(Unit)
      /\ Len(archive') = Len(archive) + Len(SubSeq(stream, 1, n))
    BY <1>1, <1>2, <1>3, TrustedShape, ConcatProperties
<1>5. Len(archive') \in Nat /\ Len(archive') >= Len(archive)
    BY <1>1, <1>3, <1>4, TrustedShape, LenProperties
<1>6. Open' = Open
    BY DEF Open
<1>7. Trusted' = Trusted
    <2>1. CASE Open = {}
        <3>1. stream = <<>>
            BY <2>1 DEF IInv, SessionAtHand
        <3>2. SubSeq(stream, 1, n) = <<>>
            <4>1. n = 0
                BY <3>1, EmptySeq
            <4> QED BY <4>1, SubSeqEmpty
        <3>3. archive' = archive
            BY <1>1, <1>2, <3>2, TrustedShape, ConcatEmptySeq
        <3> QED BY <1>6, <2>1, <3>3 DEF Trusted
    <2>2. CASE Open # {}
        <3>1. PICK s \in Open : TRUE
            BY <2>2
        <3>2. /\ Open = {s} /\ sessions[s].offset \in 0 .. Len(archive)
              /\ Trusted = SubSeq(archive, 1, sessions[s].offset)
            BY <1>1, <3>1, TrustedShape
        <3>3. Trusted' = SubSeq(archive', 1, sessions[s].offset)
            BY <1>6, <3>2 DEF Trusted
        <3> QED BY <1>1, <1>2, <1>3, <3>2, <3>3, TrustedShape, Prefix
    <2> QED BY <2>1, <2>2
<1>8. RowsMatchArchive'
    <2>1. Committed' = Committed
        BY <1>7 DEF Committed, Holds
    <2> QED BY <2>1 DEF IInv, RowsMatchArchive
<1>9. OnePayload'
    <2>1. NoTwins(Trusted)
        <3>1. CASE pc \in Writing
            <4>1. NoTwins(Trusted \o stream)
                BY <3>1 DEF IInv, OnePayload
            <4> QED BY <1>1, <4>1, TrustedShape, NoTwinsPrefix
        <3>2. CASE pc \notin Writing
            BY <3>2 DEF IInv, OnePayload
        <3> QED BY <3>1, <3>2
    <2> QED BY <1>7, <2>1 DEF OnePayload
<1> QED BY <1>4, <1>5, <1>7, <1>8, <1>9

(***************************************************************************)
(* The invariant holds before the first session.                           *)
(***************************************************************************)
LEMMA InitIInv == Init => IInv
<1> SUFFICES ASSUME Init PROVE IInv
    OBVIOUS
<1> USE ArchiveAssumption DEF Init
<1>1. TypeOK
    <2>1. <<>> \in Seq(Unit)
          /\ <<>> \in Seq([offset: Nat, status: {"open", "finalized", "aborted"}])
        BY EmptySeq
    <2> QED BY <2>1 DEF TypeOK, PC, Settled
<1>2. Open = {} /\ Trusted = <<>>
    BY DEF Open, Trusted
<1>3. SessionAtHand
    <2>1. pc \notin Writing \cup {"abort", "record"}
        BY DEF Writing
    <2> QED BY <1>2, <2>1 DEF SessionAtHand
<1>4. MarksProper /\ ClosedNotRecorded
    BY DEF MarksProper, ClosedNotRecorded
<1>5. RowsMatchArchive
    BY <1>2 DEF RowsMatchArchive, Committed, Holds, Writing
<1>6. OnePayload
    BY <1>2 DEF OnePayload, NoTwins, Writing
<1> QED BY <1>1, <1>3, <1>4, <1>5, <1>6 DEF IInv

(***************************************************************************)
(* Steps that touch neither marks nor file.                                *)
(***************************************************************************)
\* Decisions, phases, the queue, the recorded length and the signals.
Bookkeeping ==
    Decide \/ PromoteIneligible \/ Stop \/ Collect \/ Unwrap
    \/ RecordBytes \/ Leave \/ Verify \/ Signal \/ Stopped \/ UNCHANGED vars

LEMMA BookkeepingFrame ==
    ASSUME IInv, Bookkeeping
    PROVE  /\ UNCHANGED <<setting, session, err, sessions, archive, stream, sid, cursor>>
           /\ queue' \in {queue, {}}
           /\ pc' \in Writing => pc \in Writing
           /\ pc' = "record" => pc = "record"
           /\ pc' = "append" => pc = "append" /\ queue' = queue
           /\ pc' = "abort" => pc = "abort"
           /\ pc = "revert" <=> pc' = "revert"
           /\ pc' \in NoSession => pc \in NoSession
           /\ stream # <<>> => pc' \in Writing \cup {"panicked"}
           /\ pc' \in PC
<1>1. TypeOK /\ SessionAtHand
    BY DEF IInv
<1> USE <1>1 DEF Goto, db, mem, vars, PC, Settled, Writing, NoSession
<1>2. CASE Decide
    BY <1>2 DEF Decide, TypeOK, SessionAtHand
<1>3. CASE PromoteIneligible
    BY <1>3 DEF PromoteIneligible, TypeOK
<1>4. CASE Stop
    BY <1>4 DEF Stop, TypeOK
<1>5. CASE Collect
    BY <1>5 DEF Collect, TypeOK
<1>6. CASE Unwrap
    BY <1>6 DEF Unwrap, TypeOK
<1>7. CASE RecordBytes
    BY <1>7 DEF RecordBytes, TypeOK, SessionAtHand
<1>8. CASE Leave
    BY <1>8 DEF Leave, TypeOK, SessionAtHand
<1>9. CASE Verify
    BY <1>9 DEF Verify, TypeOK, SessionAtHand
<1>10. CASE Signal
    BY <1>10 DEF Signal, TypeOK, SessionAtHand
<1>11. CASE Stopped \/ UNCHANGED vars
    BY <1>11 DEF Stopped, TypeOK, SessionAtHand
<1> QED BY <1>2, <1>3, <1>4, <1>5, <1>6, <1>7, <1>8, <1>9, <1>10, <1>11 DEF Bookkeeping

LEMMA BookkeepingTypes ==
    ASSUME IInv, Bookkeeping
    PROVE  TypeOK'
<1>1. TypeOK
    BY DEF IInv
<1>2. pc' \in PC /\ queue' \in {queue, {}}
      /\ UNCHANGED <<setting, session, err, sessions, archive, stream, sid, cursor>>
    BY BookkeepingFrame
<1>3. /\ phase' \in [Files -> {"staged", "archived"}]
      /\ bytesOut' \in Nat \cup {NULL}
      /\ stopped' \in BOOLEAN
      /\ shutdown' \in {"running", "graceful", "force"}
      /\ restarts' \in Nat
    <2>1. Len(archive) \in Nat
        BY <1>1, LenProperties DEF TypeOK
    <2> QED
        BY <1>1, <2>1 DEF Bookkeeping, Decide, PromoteIneligible, Stop, Collect, Unwrap,
            RecordBytes, Leave, Verify, Signal, Stopped, TypeOK, db, mem, vars
<1> QED BY <1>1, <1>2, <1>3 DEF TypeOK

\* The revert window is left only by Revert, and a settled run rests.
LEMMA BookkeepingIInv == IInv /\ Bookkeeping => IInv'
<1> SUFFICES ASSUME IInv, Bookkeeping PROVE IInv'
    OBVIOUS
<1>1. TypeOK'
    BY BookkeepingTypes
<1>2. Open' = Open
    BY BookkeepingFrame DEF Open
<1>3. SessionAtHand'
    <2>1. SessionAtHand /\ (pc' = "revert" => pc = "revert")
        BY BookkeepingFrame DEF IInv
    <2> QED BY <1>2, <2>1, BookkeepingFrame DEF SessionAtHand
<1>4. MarksProper'
    BY BookkeepingFrame DEF IInv, MarksProper, Canonicals
<1>5. ClosedNotRecorded'
    BY BookkeepingFrame DEF IInv, ClosedNotRecorded, NoTwins
<1>6. RowsMatchArchive' /\ OnePayload'
    <2>1. CASE pc # "revert"
        BY <2>1, BookkeepingFrame, Quiet
    <2>2. CASE pc = "revert"
        <3>1. pc' = pc /\ UNCHANGED <<session, sessions, archive, stream, sid>>
            BY <2>2, BookkeepingFrame
        <3>2. Trusted' = Trusted /\ Committed' = Committed
            BY <1>2, <3>1 DEF Trusted, Committed, Holds
        <3>3. RowsMatchArchive'
            BY <3>1, <3>2 DEF IInv, RowsMatchArchive, Holds
        <3>4. OnePayload'
            BY <2>2, <3>1, <3>2 DEF IInv, OnePayload, Writing
        <3> QED BY <3>3, <3>4
    <2> QED BY <2>1, <2>2
<1> QED BY <1>1, <1>3, <1>4, <1>5, <1>6 DEF IInv

\* The queue keeps rows of earlier runs and takes staged canonicals in.
LEMMA PopulateQueueIInv == IInv /\ PopulateQueue => IInv'
<1> SUFFICES ASSUME IInv, PopulateQueue PROVE IInv'
    OBVIOUS
<1>1. /\ UNCHANGED <<setting, phase, session, err, sessions, bytesOut, archive, stream,
                     sid, stopped, shutdown, restarts>>
      /\ pc = "queue" /\ pc' = "next" /\ cursor' = 0
      /\ queue' \subseteq queue \cup Canonicals
    BY DEF PopulateQueue, Goto
<1>2. TypeOK'
    <2>1. Canonicals \subseteq Files
        BY ArchiveAssumption DEF IInv, TypeOK, Canonicals, Setting
    <2> QED BY <1>1, <2>1 DEF IInv, TypeOK, PC
<1>3. Open' = Open
    BY <1>1 DEF Open
<1>4. SessionAtHand'
    BY <1>1, <1>3 DEF IInv, SessionAtHand, Writing, NoSession
<1>5. MarksProper' /\ ClosedNotRecorded'
    BY <1>1 DEF IInv, MarksProper, ClosedNotRecorded, Canonicals
<1>6. RowsMatchArchive' /\ OnePayload'
    BY <1>1, Quiet DEF Writing
<1> QED BY <1>2, <1>4, <1>5, <1>6 DEF IInv

\* A row is taken: it is neither marked nor given up.
LEMMA NextRowIInv == IInv /\ NextRow => IInv'
<1> SUFFICES ASSUME IInv, NextRow PROVE IInv'
    OBVIOUS
<1>1. /\ UNCHANGED <<setting, phase, session, sessions, bytesOut, queue, archive, stream,
                     sid, shutdown, restarts>>
      /\ pc = "next" /\ pc' \in {"collect", "stop", "append", "excuseSource"}
      /\ stopped' \in {stopped, TRUE}
    BY DEF NextRow, Goto
<1>2. /\ cursor' \in Pullable \/ cursor' = cursor
      /\ pc' = "append" => cursor' \in Pullable /\ err' = err
      /\ err' = err \/ (cursor' \in Pullable /\ err' = err \cup {cursor'})
    BY DEF NextRow, Goto
<1>3. Pullable \subseteq queue /\ \A f \in Pullable : session[f] = NULL /\ f \notin err
    BY DEF Pullable
<1>4. TypeOK'
    BY <1>1, <1>2, <1>3, ArchiveAssumption DEF IInv, TypeOK, PC
<1>5. Open' = Open
    BY <1>1 DEF Open
<1>6. SessionAtHand'
    BY <1>1, <1>5 DEF IInv, SessionAtHand, Writing, NoSession
<1>7. MarksProper' /\ ClosedNotRecorded'
    BY <1>1, <1>2, <1>3 DEF IInv, MarksProper, ClosedNotRecorded, Canonicals
<1>8. RowsMatchArchive' /\ OnePayload'
    BY <1>1, Quiet DEF Writing
<1> QED BY <1>4, <1>6, <1>7, <1>8 DEF IInv

(***************************************************************************)
(* Recovery.                                                               *)
(***************************************************************************)
\* The cut takes off what is not trusted.
LEMMA RecoverIInv == IInv /\ Recover => IInv'
<1> SUFFICES ASSUME IInv, Recover PROVE IInv'
    OBVIOUS
<1>1. TypeOK /\ SessionAtHand
    BY DEF IInv
<1>2. /\ UNCHANGED <<setting, phase, session, err, sessions, bytesOut, queue, stream,
                     cursor, stopped, shutdown, restarts>>
      /\ pc = "recover"
    BY DEF Recover, db
<1>3. stream = <<>>
    BY <1>1, <1>2 DEF SessionAtHand, Writing
<1>4. Open' = Open
    BY <1>2 DEF Open
<1>5. CASE pc' \in {"decide", "failed"}
    <2>1. archive' = archive /\ sid' \in Open \cup {sid} /\ (pc' = "decide" => Open = {})
        BY <1>5 DEF Recover, Goto
    <2>2. sid' \in Nat
        BY <1>1, <2>1, TrustedShape, LenProperties DEF TypeOK
    <2>3. TypeOK'
        BY <1>1, <1>2, <1>5, <2>1, <2>2 DEF TypeOK, PC, Settled
    <2>4. SessionAtHand'
        BY <1>1, <1>2, <1>3, <1>4, <1>5, <2>1 DEF SessionAtHand, Writing, NoSession
    <2>5. MarksProper' /\ ClosedNotRecorded'
        BY <1>2, <1>5, <2>1 DEF IInv, MarksProper, ClosedNotRecorded, Canonicals
    <2>6. RowsMatchArchive' /\ OnePayload'
        BY <1>2, <1>5, <2>1, Quiet DEF Writing
    <2> QED BY <2>3, <2>4, <2>5, <2>6 DEF IInv
<1>6. CASE pc' = "abort"
    <2>1. sid' \in Open /\ archive' = SubSeq(archive, 1, sessions[sid'].offset)
        BY <1>6 DEF Recover, Goto
    <2>2. /\ Open = {sid'} /\ sid' \in DOMAIN sessions
          /\ sessions[sid'].offset \in 0 .. Len(archive)
          /\ Trusted = archive'
        BY <1>1, <2>1, TrustedShape
    <2>3. archive' \in Seq(Unit) /\ Len(archive') = sessions[sid'].offset
        BY <1>1, <2>1, <2>2, TrustedShape, Cut
    <2>4. sid' \in Nat
        BY <1>1, <2>2, LenProperties DEF TypeOK
    <2>5. Trusted' = Trusted
        <3>1. Trusted' = SubSeq(archive', 1, sessions[sid'].offset)
            BY <1>2, <1>4, <2>2 DEF Trusted
        <3>2. Trusted' = SubSeq(archive', 1, Len(archive'))
            BY <2>3, <3>1
        <3> QED BY <2>2, <2>3, <3>2, SubSeqFull
    <2>6. TypeOK'
        BY <1>1, <1>2, <1>6, <2>3, <2>4 DEF TypeOK, PC
    <2>7. SessionAtHand'
        <3>1. \A s \in Open' : sessions'[s].offset <= Len(archive')
            BY <1>2, <1>4, <2>2, <2>3
        <3> QED BY <1>1, <1>2, <1>3, <1>4, <1>6, <2>2, <2>3, <3>1
                DEF SessionAtHand, Writing, NoSession
    <2>8. MarksProper' /\ ClosedNotRecorded'
        BY <1>2, <1>6 DEF IInv, MarksProper, ClosedNotRecorded, Canonicals
    <2>9. RowsMatchArchive' /\ OnePayload'
        <3>1. Committed' = Committed
            BY <2>5 DEF Committed, Holds
        <3>2. RowsMatchArchive'
            BY <1>2, <1>6, <3>1 DEF IInv, RowsMatchArchive, Writing
        <3>3. OnePayload'
            BY <1>2, <1>6, <2>5 DEF IInv, OnePayload, Writing
        <3> QED BY <3>2, <3>3
    <2> QED BY <2>6, <2>7, <2>8, <2>9 DEF IInv
<1>7. pc' \in {"decide", "failed", "abort"}
    BY DEF Recover, Goto
<1> QED BY <1>5, <1>6, <1>7

\* A status update keeps the other sessions and all offsets.
LEMMA StatusUpdate ==
    ASSUME TypeOK, NEW s \in DOMAIN sessions, NEW st \in {"open", "finalized", "aborted"},
           sessions' = [sessions EXCEPT ![s].status = st]
    PROVE  /\ sessions' \in Seq([offset: Nat, status: {"open", "finalized", "aborted"}])
           /\ Len(sessions') = Len(sessions)
           /\ DOMAIN sessions' = DOMAIN sessions
           /\ \A r \in DOMAIN sessions :
                  /\ sessions'[r].offset = sessions[r].offset
                  /\ sessions'[r].status = IF r = s THEN st ELSE sessions[r].status
<1> DEFINE Rec == [offset: Nat, status: {"open", "finalized", "aborted"}]
<1> DEFINE e == [sessions[s] EXCEPT !.status = st]
<1>1. DOMAIN sessions = 1 .. Len(sessions) /\ Len(sessions) \in Nat /\ sessions \in Seq(Rec)
    BY LenProperties DEF TypeOK
<1>2. \A r \in 1 .. Len(sessions) : sessions[r] \in Rec
    BY <1>1, ElementOfSeq
<1>3. e \in Rec /\ e.offset = sessions[s].offset /\ e.status = st
    BY <1>1, <1>2
<1>4. sessions' = [sessions EXCEPT ![s] = e]
    OBVIOUS
<1> HIDE DEF Rec, e
<1>5. /\ sessions' \in Seq(Rec) /\ Len(sessions') = Len(sessions)
      /\ \A r \in 1 .. Len(sessions) : sessions'[r] = IF r = s THEN e ELSE sessions[r]
    BY <1>1, <1>3, <1>4, ExceptSeq
<1>6. DOMAIN sessions' = 1 .. Len(sessions)
    BY <1>5, LenProperties
<1> QED BY <1>1, <1>3, <1>5, <1>6 DEF Rec

\* The given-up session's marks are all that the cut took off.
LEMMA AbortIInv == IInv /\ Abort => IInv'
<1> SUFFICES ASSUME IInv, Abort PROVE IInv'
    OBVIOUS
<1>1. TypeOK /\ SessionAtHand /\ MarksProper /\ RowsMatchArchive
    BY DEF IInv
<1>2. /\ UNCHANGED <<setting, phase, session, err, bytesOut, queue, archive, stream, sid,
                     cursor, stopped, shutdown, restarts>>
      /\ pc = "abort" /\ pc' = "revert"
      /\ sessions' = [sessions EXCEPT ![sid].status = "aborted"]
    BY DEF Abort, Goto, mem
<1>3. /\ Open = {sid} /\ sid \in DOMAIN sessions
      /\ sessions[sid].offset = Len(archive)
      /\ Trusted = SubSeq(archive, 1, Len(archive))
    BY <1>1, <1>2, TrustedShape DEF SessionAtHand
<1>4. /\ sessions' \in Seq([offset: Nat, status: {"open", "finalized", "aborted"}])
      /\ Len(sessions') = Len(sessions)
      /\ DOMAIN sessions' = DOMAIN sessions
      /\ \A r \in DOMAIN sessions :
             /\ sessions'[r].offset = sessions[r].offset
             /\ sessions'[r].status = IF r = sid THEN "aborted" ELSE sessions[r].status
    BY <1>1, <1>2, <1>3, StatusUpdate
<1>5. Open' = {}
    BY <1>3, <1>4 DEF Open
<1>6. Trusted' = Trusted /\ Committed' = Committed
    <2>1. Trusted' = archive /\ Trusted = archive
        BY <1>1, <1>2, <1>3, <1>5, TrustedShape, SubSeqFull DEF Trusted
    <2> QED BY <2>1 DEF Committed, Holds
<1>7. TypeOK'
    BY <1>1, <1>2, <1>4 DEF TypeOK, PC
<1>8. SessionAtHand'
    BY <1>1, <1>2, <1>3, <1>4, <1>5 DEF SessionAtHand, Writing, NoSession
<1>9. MarksProper' /\ ClosedNotRecorded'
    BY <1>1, <1>2, <1>4 DEF MarksProper, ClosedNotRecorded, Canonicals
<1>10. RowsMatchArchive'
    <2> SUFFICES ASSUME NEW f \in Files, session[f] # NULL
                 PROVE  /\ sessions'[session[f]].status = "finalized" <=> f \in Committed
                        /\ sessions'[session[f]].status = "aborted" => session[f] = sid
        <3>1. \A f \in Files : session[f] = NULL => f \notin Committed
            BY <1>1 DEF RowsMatchArchive
        <3>2. pc' \notin Writing
            BY <1>2 DEF Writing
        <3> QED BY <1>2, <1>6, <3>1, <3>2 DEF RowsMatchArchive
    <2>1. session[f] \in DOMAIN sessions
        BY <1>1 DEF MarksProper
    <2>2. /\ sessions[session[f]].status = "finalized" <=> f \in Committed
          /\ sessions[session[f]].status # "aborted"
        BY <1>1, <1>2 DEF RowsMatchArchive
    <2>3. sessions[sid].status = "open"
        BY <1>3 DEF Open
    <2> QED BY <1>4, <2>1, <2>2, <2>3
<1>11. OnePayload'
    BY <1>2, <1>6 DEF IInv, OnePayload, Writing
<1> QED BY <1>7, <1>8, <1>9, <1>10, <1>11 DEF IInv

\* With the marks of the given-up session gone, no mark of any is left.
LEMMA RevertIInv == IInv /\ Revert => IInv'
<1> SUFFICES ASSUME IInv, Revert PROVE IInv'
    OBVIOUS
<1>1. TypeOK /\ SessionAtHand /\ MarksProper /\ RowsMatchArchive
    BY DEF IInv
<1>2. /\ UNCHANGED <<setting, err, sessions, bytesOut, queue, archive, stream, sid,
                     cursor, stopped, shutdown, restarts>>
      /\ pc = "revert" /\ pc' = "decide"
      /\ session' = [f \in Files |-> IF session[f] = sid THEN NULL ELSE session[f]]
      /\ phase' \in [Files -> {"staged", "archived"}]
    BY <1>1 DEF Revert, Goto, mem, TypeOK
<1>3. Open' = Open /\ Trusted' = Trusted /\ Committed' = Committed
    BY <1>2 DEF Open, Trusted, Committed, Holds
<1>4. TypeOK'
    BY <1>1, <1>2 DEF TypeOK, PC
<1>5. SessionAtHand'
    BY <1>1, <1>2, <1>3 DEF SessionAtHand, Writing, NoSession
<1>6. MarksProper' /\ ClosedNotRecorded'
    BY <1>1, <1>2 DEF MarksProper, ClosedNotRecorded, Canonicals
<1>7. RowsMatchArchive'
    <2>1. sessions[sid].status = "aborted" /\ pc' \notin Writing
        BY <1>1, <1>2 DEF SessionAtHand, Writing
    <2>2. ASSUME NEW f \in Files, session[f] # NULL, session[f] = sid
          PROVE  session'[f] = NULL /\ f \notin Committed
        BY <1>1, <1>2, <2>1, <2>2 DEF RowsMatchArchive
    <2>3. ASSUME NEW f \in Files, session[f] # sid
          PROVE  /\ session'[f] = session[f]
                 /\ session[f] # NULL => sessions[session[f]].status # "aborted"
        BY <1>1, <1>2, <2>3 DEF RowsMatchArchive
    <2>4. \A f \in Files : session[f] = NULL => session'[f] = NULL
        BY <1>2
    <2> QED BY <1>1, <1>2, <1>3, <2>1, <2>2, <2>3, <2>4 DEF RowsMatchArchive
<1>8. OnePayload'
    BY <1>2, <1>3 DEF IInv, OnePayload, Writing
<1> QED BY <1>4, <1>5, <1>6, <1>7, <1>8 DEF IInv

(***************************************************************************)
(* A session.                                                              *)
(***************************************************************************)
\* A new session starts at the end of a file that is trusted as a whole.
LEMMA BeginIInv == IInv /\ Begin => IInv'
<1> SUFFICES ASSUME IInv, Begin PROVE IInv'
    OBVIOUS
<1> DEFINE Rec == [offset: Nat, status: {"open", "finalized", "aborted"}]
<1> DEFINE e == [offset |-> Len(archive), status |-> "open"]
<1>1. TypeOK /\ SessionAtHand /\ MarksProper /\ RowsMatchArchive
    BY DEF IInv
<1>2. /\ UNCHANGED <<setting, phase, session, err, bytesOut, queue, archive, stream,
                     cursor, stopped, shutdown, restarts>>
      /\ pc = "begin" /\ pc' = "promote"
      /\ sessions' = Append(sessions, e) /\ sid' = Len(sessions')
    BY DEF Begin, Goto
<1>3. /\ Open = {} /\ stream = <<>> /\ Trusted = archive
      /\ archive \in Seq(Unit) /\ Len(archive) \in Nat
    BY <1>1, <1>2, TrustedShape DEF SessionAtHand, Writing, NoSession
<1>4. sessions \in Seq(Rec) /\ e \in Rec /\ e.status = "open" /\ e.offset = Len(archive)
    BY <1>1, <1>3 DEF TypeOK
<1> HIDE DEF Rec, e
<1>5. /\ sessions' \in Seq(Rec) /\ Len(sessions') = Len(sessions) + 1
      /\ \A r \in 1 .. Len(sessions) : sessions'[r] = sessions[r]
      /\ sessions'[Len(sessions) + 1] = e
    BY <1>2, <1>4, AppendProperties
<1>6. /\ Len(sessions) \in Nat /\ DOMAIN sessions = 1 .. Len(sessions)
      /\ DOMAIN sessions' = 1 .. Len(sessions) + 1
    BY <1>4, <1>5, LenProperties
<1>7. Open' = {sid'} /\ sid' = Len(sessions) + 1
    BY <1>2, <1>3, <1>4, <1>5, <1>6 DEF Open
<1>8. Trusted' = Trusted /\ Committed' = Committed
    <2>1. Trusted' = SubSeq(archive, 1, Len(archive))
        <3>1. (CHOOSE s \in Open' : TRUE) = sid' /\ Open' # {}
            BY <1>7
        <3>2. sessions'[sid'].offset = Len(archive)
            BY <1>4, <1>5, <1>7
        <3> QED BY <1>2, <3>1, <3>2 DEF Trusted
    <2>2. Trusted' = Trusted
        BY <1>3, <2>1, SubSeqFull
    <2> QED BY <2>2 DEF Committed, Holds
<1>9. TypeOK'
    BY <1>1, <1>2, <1>5, <1>6, <1>7 DEF TypeOK, PC, Rec
<1>10. SessionAtHand'
    BY <1>2, <1>3, <1>4, <1>5, <1>7 DEF SessionAtHand, NoSession
<1>11. MarksProper' /\ ClosedNotRecorded'
    BY <1>1, <1>2, <1>6 DEF MarksProper, ClosedNotRecorded, Canonicals
<1>12. RowsMatchArchive'
    <2>1. \A f \in Files : ~ Holds(stream, f)
        BY <1>3 DEF Holds
    <2>2. ASSUME NEW f \in Files, session[f] # NULL
          PROVE  /\ sessions'[session[f]].status = "finalized" <=> f \in Committed
                 /\ sessions'[session[f]].status = "finalized"
        <3>1. session[f] \in 1 .. Len(sessions)
            BY <1>1, <1>6, <2>2 DEF MarksProper
        <3>2. sessions'[session[f]] = sessions[session[f]]
            BY <1>5, <3>1
        <3>3. sessions[session[f]].status \notin {"open", "aborted"}
            BY <1>1, <1>2, <1>3, <1>6, <2>2, <3>1 DEF RowsMatchArchive, Open
        <3>4. sessions[session[f]].status \in {"open", "finalized", "aborted"}
            <4>1. sessions[session[f]] \in Rec
                BY <1>4, <3>1, ElementOfSeq
            <4> QED BY <4>1 DEF Rec
        <3> QED BY <1>1, <2>2, <3>2, <3>3, <3>4 DEF RowsMatchArchive
    <2>3. \A f \in Files : session[f] = NULL => f \notin Committed
        BY <1>1 DEF RowsMatchArchive
    <2> QED BY <1>2, <1>8, <2>1, <2>2, <2>3 DEF RowsMatchArchive
<1>13. OnePayload'
    <2>1. NoTwins(archive)
        BY <1>2, <1>3 DEF IInv, OnePayload, Writing
    <2>2. Trusted' \o stream' = archive
        BY <1>2, <1>3, <1>8, ConcatEmptySeq
    <2>3. pc' \in Writing
        BY <1>2 DEF Writing
    <2> QED BY <2>1, <2>2, <2>3 DEF OnePayload
<1> QED BY <1>9, <1>10, <1>11, <1>12, <1>13 DEF IInv

\* What the marks of a session that is being written mean.
LEMMA MarkedOpen ==
    ASSUME IInv, Open = {sid}, NEW f \in Files
    PROVE  /\ sid \in DOMAIN sessions /\ sid \in Nat
           /\ sessions[sid].status = "open"
           /\ session[f] = sid <=>
                  session[f] # NULL /\ sessions[session[f]].status = "open"
<1>1. sid \in DOMAIN sessions /\ sessions[sid].status = "open" /\ sid \in Nat
    BY DEF Open, IInv, TypeOK
<1>2. NULL # sid
    BY <1>1, ArchiveAssumption
<1>3. ASSUME session[f] # NULL, sessions[session[f]].status = "open"
      PROVE  session[f] = sid
    BY <1>3 DEF IInv, MarksProper, Open
<1> QED BY <1>1, <1>2, <1>3

LEMMA ConcatAppend ==
    ASSUME NEW s \in Seq(Unit), NEW t \in Seq(Unit), NEW u \in Unit
    PROVE  s \o Append(t, u) = Append(s \o t, u)
<1>1. <<u>> \in Seq(Unit) /\ s \o t \in Seq(Unit)
    BY ConcatProperties
<1>2. Append(t, u) = t \o <<u>> /\ Append(s \o t, u) = (s \o t) \o <<u>>
    BY <1>1, AppendIsConcat
<1> QED BY <1>1, <1>2, ConcatAssociative

\* The stream grows by a unit that is not a member.
LEMMA Grow ==
    ASSUME IInv, pc \in Writing, UNCHANGED <<session, sessions, archive>>,
           NEW u \in Unit, u.kind # "member", stream' = Append(stream, u)
    PROVE  /\ stream' \in Seq(Unit)
           /\ Trusted' = Trusted
           /\ RowsMatchArchive'
           /\ OnePayload'
<1>1. TypeOK /\ SessionAtHand /\ RowsMatchArchive /\ NoTwins(Trusted \o stream)
    BY DEF IInv, OnePayload
<1>2. stream' \in Seq(Unit)
    BY <1>1, TrustedShape, AppendProperties
<1>3. Open' = Open /\ Trusted' = Trusted /\ Committed' = Committed
    BY DEF Open, Trusted, Committed, Holds
<1>4. \A f \in Files : Holds(stream', f) <=> Holds(stream, f)
    <2>1. \A f \in Files : u # Member(f)
        BY DEF Member
    <2> QED BY <1>1, <2>1, TrustedShape, HoldsAppend
<1>5. pc # "revert"
    BY DEF Writing
<1>6. RowsMatchArchive'
    BY <1>1, <1>3, <1>4, <1>5 DEF RowsMatchArchive
<1>7. OnePayload'
    <2>1. Trusted \o stream' = Append(Trusted \o stream, u) /\ Trusted \o stream \in Seq(Unit)
        BY <1>1, TrustedShape, ConcatAppend, ConcatProperties
    <2>2. NoTwins(Trusted \o stream')
        BY <1>1, <2>1, NoTwinsAppend
    <2>3. NoTwins(Trusted)
        BY <1>1, TrustedShape, NoTwinsPrefix
    <2> QED BY <1>3, <2>2, <2>3 DEF OnePayload
<1> QED BY <1>2, <1>3, <1>6, <1>7

\* A run that ends with its writer dropped, and a crash.
LEMMA DroppedIInv ==
    ASSUME IInv, TypeOK', archive' \in Abandoned(archive), stream' = <<>>,
           UNCHANGED <<setting, session, err, sessions, queue>>,
           pc' \in {"recover", "failed", "interrupted"}, pc # "revert"
    PROVE  IInv'
<1>1. pc' \notin Writing /\ pc' \notin NoSession
    BY DEF Writing, NoSession
<1>2. /\ Len(archive') \in Nat /\ Len(archive') >= Len(archive) /\ Len(archive) \in Nat
      /\ RowsMatchArchive' /\ OnePayload'
    BY <1>1, Dropped, TrustedShape DEF IInv
<1>3. Open' = Open
    BY DEF Open
<1>4. SessionAtHand'
    <2>1. \A s \in Open' : sessions'[s].offset <= Len(archive')
        <3> SUFFICES ASSUME NEW s \in Open PROVE sessions[s].offset <= Len(archive')
            BY <1>3
        <3>1. sessions[s].offset \in 0 .. Len(archive)
            BY TrustedShape DEF IInv
        <3> QED BY <1>2, <3>1
    <2> QED BY <1>1, <1>3, <2>1 DEF IInv, SessionAtHand
<1>5. MarksProper' /\ ClosedNotRecorded'
    BY DEF IInv, MarksProper, ClosedNotRecorded, Canonicals
<1> QED BY <1>2, <1>4, <1>5 DEF IInv

LEMMA AbandonedType ==
    ASSUME TypeOK, archive' \in Abandoned(archive)
    PROVE  archive' \in Seq(Unit)
<1>1. PICK n \in 0 .. Len(stream) : archive' = archive \o SubSeq(stream, 1, n)
    BY DEF Abandoned
<1>2. archive \in Seq(Unit) /\ SubSeq(stream, 1, n) \in Seq(Unit)
    BY Cut DEF TypeOK
<1> QED BY <1>1, <1>2, ConcatProperties

\* A database copy joins the stream, or its write fails.
LEMMA AppendCopyIInv ==
    ASSUME IInv, NEW kind \in {"manifest", "snapshot"}, NEW next \in {"queue", "unwrap"},
           pc \in {"manifest", "snapshot"}, AppendCopy(kind, next, Stored),
           UNCHANGED <<setting, db, sid, cursor, stopped, shutdown, restarts>>
    PROVE  IInv'
<1> USE DEF db
<1>1. TypeOK /\ pc \in Writing
    BY DEF IInv, Writing
<1>2. CASE archive' = archive /\ stream' = stream /\ pc' = "spinning"
    <2>1. TypeOK' /\ Open' = Open
        BY <1>1, <1>2 DEF TypeOK, PC, Open
    <2>2. SessionAtHand' /\ MarksProper' /\ ClosedNotRecorded'
        BY <1>1, <1>2, <2>1 DEF IInv, SessionAtHand, MarksProper, ClosedNotRecorded,
                              Canonicals, Writing, NoSession
    <2>3. RowsMatchArchive' /\ OnePayload'
        BY <1>1, <1>2, Quiet DEF Writing
    <2> QED BY <2>1, <2>2, <2>3 DEF IInv
<1>3. CASE /\ stream' = Append(stream, [kind |-> kind, rows |-> Stored])
           /\ archive' = archive /\ pc' = next
    <2> DEFINE u == [kind |-> kind, rows |-> Stored]
    <2>1. u \in Unit /\ u.kind # "member"
        BY DEF Unit, Kind, Stored
    <2>2. /\ stream' \in Seq(Unit)
          /\ RowsMatchArchive' /\ OnePayload'
        BY <1>1, <1>3, <2>1, Grow
    <2>3. TypeOK' /\ Open' = Open
        BY <1>1, <1>3, <2>2 DEF TypeOK, PC, Open
    <2>4. SessionAtHand' /\ MarksProper' /\ ClosedNotRecorded'
        <3>1. pc' \in Writing /\ pc' \notin {"abort", "record", "revert", "append"} \cup NoSession
            BY <1>3 DEF Writing, NoSession
        <3>2. Open = {sid}
            BY <1>1 DEF IInv, SessionAtHand
        <3> QED BY <1>1, <1>3, <2>3, <3>1, <3>2 DEF IInv, SessionAtHand, MarksProper,
                              ClosedNotRecorded, Canonicals
    <2> QED BY <2>2, <2>3, <2>4 DEF IInv
<1>4. CASE archive' \in Abandoned(archive) /\ stream' = <<>> /\ pc' = "failed"
    <2>1. archive' \in Seq(Unit) /\ stream' \in Seq(Unit)
        BY <1>1, <1>4, AbandonedType, EmptySeq
    <2>2. TypeOK'
        BY <1>1, <1>4, <2>1 DEF TypeOK, PC, Settled
    <2> QED BY <1>4, <2>2, DroppedIInv
<1> QED BY <1>2, <1>3, <1>4 DEF AppendCopy, Goto

LEMMA WriteManifestIInv == IInv /\ WriteManifest => IInv'
<1> SUFFICES ASSUME IInv, WriteManifest PROVE IInv'
    OBVIOUS
<1>1. /\ UNCHANGED <<setting, db, sid, cursor, stopped, shutdown, restarts>>
      /\ pc = "manifest"
    BY DEF WriteManifest
<1>2. CASE AppendCopy("manifest", "queue", Stored)
    BY <1>1, <1>2, AppendCopyIInv
<1>3. CASE pc' = "queue" /\ stream' = stream /\ archive' = archive
    <2>1. TypeOK' /\ Open' = Open
        BY <1>1, <1>3 DEF IInv, TypeOK, PC, Open, db
    <2>2. SessionAtHand' /\ MarksProper' /\ ClosedNotRecorded'
        BY <1>1, <1>3, <2>1 DEF IInv, SessionAtHand, MarksProper, ClosedNotRecorded,
                              Canonicals, Writing, NoSession, db
    <2>3. RowsMatchArchive' /\ OnePayload'
        BY <1>1, <1>3, Quiet DEF Writing, db
    <2> QED BY <2>1, <2>2, <2>3 DEF IInv
<1> QED BY <1>2, <1>3 DEF WriteManifest, Goto

LEMMA WriteSnapshotIInv == IInv /\ WriteSnapshot => IInv'
BY AppendCopyIInv DEF WriteSnapshot

\* A row's payload joins the stream and its mark the table, or the row is
\* given up; the row was in neither before.
LEMMA AppendMemberIInv == IInv /\ AppendMember => IInv'
<1> SUFFICES ASSUME IInv, AppendMember PROVE IInv'
    OBVIOUS
<1>1. TypeOK /\ SessionAtHand /\ MarksProper /\ RowsMatchArchive
    BY DEF IInv
<1>2. /\ UNCHANGED <<setting, phase, sessions, bytesOut, queue, archive, sid, cursor,
                     stopped, shutdown, restarts>>
      /\ pc = "append" /\ pc \in Writing
    BY DEF AppendMember, Writing
<1>3. /\ Open = {sid} /\ Open' = Open /\ sid \in Nat /\ sid \in DOMAIN sessions
      /\ cursor \in Files /\ session[cursor] = NULL /\ cursor \notin err
    BY <1>1, <1>2 DEF SessionAtHand, MarksProper, Open, TypeOK
<1>4. /\ Trusted' = Trusted /\ Committed' = Committed /\ Trusted \in Seq(Unit)
      /\ archive \in Seq(Unit) /\ stream \in Seq(Unit)
    BY <1>1, <1>2, <1>3, TrustedShape DEF Trusted, Committed, Holds
<1>5. CASE pc' = "spinning" /\ UNCHANGED <<stream, session, err>>
    <2>1. TypeOK'
        BY <1>1, <1>2, <1>5 DEF TypeOK, PC
    <2>2. SessionAtHand' /\ MarksProper' /\ ClosedNotRecorded'
        BY <1>1, <1>2, <1>3, <1>5 DEF SessionAtHand, MarksProper, ClosedNotRecorded,
                              Canonicals, Writing, NoSession
    <2>3. RowsMatchArchive' /\ OnePayload'
        BY <1>2, <1>5, Quiet
    <2> QED BY <2>1, <2>2, <2>3 DEF IInv
<1>6. CASE /\ stream' = Append(stream, Member(cursor)) /\ pc' = "next" /\ err' = err
           /\ session' = [session EXCEPT ![cursor] = sid]
    <2>1. Member(cursor) \in Unit
        BY <1>3 DEF Member, Unit, Kind
    <2>2. stream' \in Seq(Unit)
        BY <1>4, <1>6, <2>1, AppendProperties
    <2>3. /\ session' \in [Files -> Nat \cup {NULL}]
          /\ session'[cursor] = sid
          /\ \A f \in Files \ {cursor} : session'[f] = session[f]
        BY <1>1, <1>3, <1>6 DEF TypeOK
    <2>4. TypeOK'
        BY <1>1, <1>2, <1>6, <2>2, <2>3 DEF TypeOK, PC
    <2>5. SessionAtHand'
        BY <1>1, <1>2, <1>3, <1>6 DEF SessionAtHand, Writing, NoSession
    <2>6. MarksProper' /\ ClosedNotRecorded'
        BY <1>1, <1>2, <1>3, <1>6, <2>3 DEF MarksProper, ClosedNotRecorded, Canonicals
    <2>7. cursor \notin Committed /\ ~ Holds(stream, cursor)
        BY <1>1, <1>2, <1>3 DEF RowsMatchArchive
    <2>8. RowsMatchArchive'
        <3>1. \A f \in Files : Holds(stream', f) <=> Holds(stream, f) \/ f = cursor
            <4>1. \A f \in Files : Member(cursor) = Member(f) <=> f = cursor
                BY DEF Member
            <4> QED BY <1>4, <1>6, <2>1, <4>1, HoldsAppend
        <3>2. sid # NULL /\ sessions[sid].status = "open"
            BY <1>3, ArchiveAssumption DEF Open
        <3> QED BY <1>1, <1>2, <1>4, <2>3, <2>7, <3>1, <3>2 DEF RowsMatchArchive
    <2>9. OnePayload'
        <3>1. NoTwins(Trusted \o stream) /\ Trusted \o stream \in Seq(Unit)
            BY <1>2, <1>4, ConcatProperties DEF IInv, OnePayload
        <3>2. ~ Holds(Trusted \o stream, cursor)
            <4>1. Holds(Trusted \o stream, cursor)
                      <=> Holds(Trusted, cursor) \/ Holds(stream, cursor)
                BY <1>4, HoldsConcat
            <4>2. ~ Holds(Trusted, cursor)
                BY <1>3, <2>7 DEF Committed
            <4> QED BY <2>7, <4>1, <4>2
        <3>3. NoTwins(Append(Trusted \o stream, Member(cursor)))
            BY <2>1, <3>1, <3>2, NoTwinsAppend DEF Holds
        <3>4. NoTwins(Trusted \o stream')
            BY <1>4, <1>6, <2>1, <3>3, ConcatAppend
        <3> QED BY <1>4, <1>6, <3>4 DEF OnePayload, Writing
    <2> QED BY <2>4, <2>5, <2>6, <2>8, <2>9 DEF IInv
<1>7. CASE /\ stream' \in {stream, Append(stream, U("torn"))} /\ session' = session
           /\ err' = err \cup {cursor} /\ pc' = "excuseAppend"
    <2>1. U("torn") \in Unit /\ U("torn").kind # "member"
        BY DEF U, Unit, Kind
    <2>2. stream' \in Seq(Unit) /\ RowsMatchArchive' /\ OnePayload'
        <3>1. CASE stream' = stream
            <4>1. pc' \in Writing /\ pc # "revert"
                BY <1>2, <1>7 DEF Writing
            <4> QED BY <1>2, <1>4, <1>7, <3>1, <4>1, Quiet
        <3>2. CASE stream' = Append(stream, U("torn"))
            BY <1>2, <1>7, <2>1, <3>2, Grow
        <3> QED BY <1>7, <3>1, <3>2
    <2>3. TypeOK'
        BY <1>1, <1>2, <1>3, <1>7, <2>2 DEF TypeOK, PC
    <2>4. SessionAtHand' /\ MarksProper' /\ ClosedNotRecorded'
        BY <1>1, <1>2, <1>3, <1>7 DEF SessionAtHand, MarksProper, ClosedNotRecorded,
                              Canonicals, Writing, NoSession
    <2> QED BY <2>2, <2>3, <2>4 DEF IInv
<1> QED BY <1>5, <1>6, <1>7 DEF AppendMember, Goto

\* The failed row leaves the phase; with fail_fast the run ends.
LEMMA ExcuseIInv == IInv /\ Excuse => IInv'
<1> SUFFICES ASSUME IInv, Excuse PROVE IInv'
    OBVIOUS
<1>1. TypeOK /\ SessionAtHand /\ MarksProper
    BY DEF IInv
<1>2. /\ UNCHANGED <<setting, session, err, sessions, bytesOut, queue, sid, cursor,
                     stopped, shutdown, restarts>>
      /\ pc \in {"excuseSource", "excuseAppend"}
      /\ phase' \in [Files -> {"staged", "archived"}]
    BY <1>1 DEF Excuse, TypeOK
<1>3. CASE pc' = "failed" /\ archive' \in Abandoned(archive) /\ stream' = <<>>
    <2>1. archive' \in Seq(Unit) /\ stream' \in Seq(Unit)
        BY <1>1, <1>3, AbandonedType, EmptySeq
    <2>2. TypeOK'
        BY <1>1, <1>2, <1>3, <2>1 DEF TypeOK, PC, Settled
    <2> QED BY <1>2, <1>3, <2>2, DroppedIInv
<1>4. CASE pc' = "next" /\ UNCHANGED <<archive, stream>>
    <2>1. TypeOK' /\ Open' = Open
        BY <1>1, <1>2, <1>4 DEF TypeOK, PC, Open
    <2>2. SessionAtHand' /\ MarksProper' /\ ClosedNotRecorded'
        BY <1>1, <1>2, <1>4, <2>1 DEF SessionAtHand, MarksProper, ClosedNotRecorded,
                              Canonicals, Writing, NoSession
    <2>3. RowsMatchArchive' /\ OnePayload'
        BY <1>2, <1>4, Quiet DEF Writing
    <2> QED BY <2>1, <2>2, <2>3 DEF IInv
<1> QED BY <1>3, <1>4 DEF Excuse, Goto

(***************************************************************************)
(* The end of a session.                                                   *)
(***************************************************************************)
\* What lies behind the first piece of a file is what the second holds.
LEMMA HoldsBehind ==
    ASSUME NEW s \in Seq(Unit), NEW t \in Seq(Unit), NEW f
    PROVE  (\E i \in DOMAIN (s \o t) : i > Len(s) /\ (s \o t)[i] = Member(f))
               <=> Holds(t, f)
<1>1. /\ s \o t \in Seq(Unit)
      /\ Len(s \o t) = Len(s) + Len(t)
      /\ \A i \in 1 .. Len(s) + Len(t) :
             (s \o t)[i] = IF i <= Len(s) THEN s[i] ELSE t[i - Len(s)]
    BY ConcatProperties
<1>2. /\ Len(s) \in Nat /\ Len(t) \in Nat /\ DOMAIN t = 1 .. Len(t)
      /\ DOMAIN (s \o t) = 1 .. Len(s) + Len(t)
    BY <1>1, LenProperties
<1>3. ASSUME NEW i \in DOMAIN (s \o t), i > Len(s), (s \o t)[i] = Member(f)
      PROVE  Holds(t, f)
    <2>1. i - Len(s) \in 1 .. Len(t) /\ t[i - Len(s)] = Member(f)
        BY <1>1, <1>2, <1>3
    <2> QED BY <1>2, <2>1 DEF Holds
<1>4. ASSUME Holds(t, f)
      PROVE  \E i \in DOMAIN (s \o t) : i > Len(s) /\ (s \o t)[i] = Member(f)
    <2>1. PICK j \in 1 .. Len(t) : t[j] = Member(f)
        BY <1>2, <1>4 DEF Holds
    <2>2. /\ Len(s) + j \in DOMAIN (s \o t) /\ Len(s) + j > Len(s)
          /\ Len(s) + j - Len(s) = j /\ ~ (Len(s) + j <= Len(s))
        BY <1>2
    <2>3. (s \o t)[Len(s) + j] = Member(f)
        BY <1>1, <1>2, <2>1, <2>2
    <2> QED BY <2>2, <2>3
<1> QED BY <1>3, <1>4

\* A file holds what is before its n-th unit and what is behind it.
LEMMA HoldsCut ==
    ASSUME NEW s \in Seq(Unit), NEW n \in 0 .. Len(s), NEW f
    PROVE  Holds(s, f) <=> \/ Holds(SubSeq(s, 1, n), f)
                           \/ \E i \in DOMAIN s : i > n /\ s[i] = Member(f)
<1>1. /\ Len(s) \in Nat /\ DOMAIN s = 1 .. Len(s)
      /\ SubSeq(s, 1, n) \in Seq(Unit) /\ Len(SubSeq(s, 1, n)) = n
      /\ \A i \in 1 .. n : SubSeq(s, 1, n)[i] = s[i]
    BY LenProperties, Cut
<1>2. DOMAIN SubSeq(s, 1, n) = 1 .. n
    BY <1>1, LenProperties
<1>3. \A i \in DOMAIN s : i \in 1 .. n \/ i > n
    BY <1>1
<1>4. \A i \in 1 .. n : i \in DOMAIN s
    BY <1>1
<1> QED BY <1>1, <1>2, <1>3, <1>4 DEF Holds

\* One unit, and two, as sequences that were appended to.
LEMMA Few ==
    ASSUME NEW a \in Unit, NEW b \in Unit
    PROVE  /\ <<a>> \in Seq(Unit) /\ <<a, b>> \in Seq(Unit)
           /\ <<a, b>> = Append(<<a>>, b)
           /\ \A f : Holds(<<a>>, f) <=> a = Member(f)
<1>1. /\ <<a>> \in Seq(Unit) /\ Len(<<a>>) = 1 /\ <<a>>[1] = a
      /\ <<a, b>> \in Seq(Unit) /\ Len(<<a, b>>) = 2
      /\ <<a, b>>[1] = a /\ <<a, b>>[2] = b
    OBVIOUS
<1>2. /\ Append(<<a>>, b) \in Seq(Unit)
      /\ Len(Append(<<a>>, b)) = 2
      /\ Append(<<a>>, b)[1] = a /\ Append(<<a>>, b)[2] = b
    <2>1. /\ Append(<<a>>, b) \in Seq(Unit)
          /\ Len(Append(<<a>>, b)) = Len(<<a>>) + 1
          /\ \A i \in 1 .. Len(<<a>>) : Append(<<a>>, b)[i] = <<a>>[i]
          /\ Append(<<a>>, b)[Len(<<a>>) + 1] = b
        BY <1>1, AppendProperties
    <2> QED BY <1>1, <2>1
<1>3. \A i \in 1 .. Len(<<a, b>>) : <<a, b>>[i] = Append(<<a>>, b)[i]
    BY <1>1, <1>2
<1>4. <<a, b>> = Append(<<a>>, b)
    BY <1>1, <1>2, <1>3, SeqEqual
<1>5. \A f : Holds(<<a>>, f) <=> a = Member(f)
    BY DEF Holds
<1> QED BY <1>1, <1>4, <1>5

\* What closes a stream are not members.
LEMMA ClosingUnits ==
    /\ Closing \in Seq(Unit)
    /\ \A f : ~ Holds(Closing, f)
    /\ \A s \in Seq(Unit) : NoTwins(s) => NoTwins(s \o Closing)
<1> DEFINE a == U("eof")
           b == U("close")
<1>1. /\ a \in Unit /\ b \in Unit /\ a.kind # "member" /\ b.kind # "member"
      /\ \A f : a # Member(f) /\ b # Member(f)
    <2>1. /\ a \in Unit /\ b \in Unit /\ a.kind # "member" /\ b.kind # "member"
        BY DEF U, Unit, Kind
    <2>2. \A f : Member(f).kind = "member"
        BY DEF Member
    <2> QED BY <2>1, <2>2
<1>2. Closing \in {<<b>>, <<a, b>>}
    BY DEF Closing
<1> HIDE DEF a, b
<1>3. /\ <<a>> \in Seq(Unit) /\ <<b>> \in Seq(Unit) /\ <<a, b>> \in Seq(Unit)
      /\ <<a, b>> = Append(<<a>>, b)
      /\ \A f : ~ Holds(<<a>>, f) /\ ~ Holds(<<b>>, f)
    BY <1>1, Few
<1>4. ASSUME NEW f PROVE ~ Holds(<<a, b>>, f)
    <2>1. ~ Holds(Append(<<a>>, b), f)
        BY <1>1, <1>3, HoldsAppend
    <2> QED BY <1>3, <2>1, Zenon
<1>5. ASSUME NEW s \in Seq(Unit), NoTwins(s)
      PROVE  NoTwins(s \o <<b>>) /\ NoTwins(s \o <<a, b>>)
    <2>1. /\ s \o <<b>> = Append(s, b) /\ s \o <<a>> = Append(s, a)
        BY <1>1, AppendIsConcat
    <2>2. s \o <<a, b>> = Append(Append(s, a), b)
        BY <1>1, <1>3, <2>1, ConcatAppend
    <2>3. NoTwins(Append(s, b)) /\ NoTwins(Append(s, a)) /\ Append(s, a) \in Seq(Unit)
        BY <1>1, <1>5, NoTwinsAppend, AppendProperties
    <2>4. NoTwins(Append(Append(s, a), b))
        BY <1>1, <2>3, NoTwinsAppend
    <2> QED BY <2>1, <2>2, <2>3, <2>4
<1> QED BY <1>2, <1>3, <1>4, <1>5

\* The stream is closed: all of it is in the file, not trusted yet.
LEMMA CloseGood ==
    ASSUME IInv, pc = "close", pc' = "record", stream' = <<>>,
           archive' = archive \o stream \o Closing,
           UNCHANGED <<setting, db, sid, cursor, stopped, shutdown, restarts>>
    PROVE  IInv'
<1> USE DEF db
<1>1. TypeOK /\ SessionAtHand /\ MarksProper /\ RowsMatchArchive
    BY DEF IInv
<1>2. pc \in Writing /\ pc' \notin Writing /\ pc' \notin NoSession
    BY DEF Writing, NoSession
<1>3. /\ Open = {sid} /\ Open' = Open
      /\ archive \in Seq(Unit) /\ stream \in Seq(Unit) /\ Len(archive) \in Nat
      /\ sessions[sid].offset = Len(archive)
      /\ Trusted = archive
    BY <1>1, <1>2, TrustedShape DEF SessionAtHand, Open
<1>4. /\ Closing \in Seq(Unit) /\ stream \o Closing \in Seq(Unit)
      /\ archive \o stream \in Seq(Unit)
      /\ archive' = archive \o (stream \o Closing)
      /\ archive' \in Seq(Unit)
      /\ Len(archive') = Len(archive) + Len(stream \o Closing)
    BY <1>3, ClosingUnits, ConcatProperties, ConcatAssociative
<1>5. Len(archive') \in Nat /\ Len(archive') >= Len(archive)
    BY <1>3, <1>4, LenProperties
<1>6. Trusted' = Trusted /\ Committed' = Committed
    <2>1. Trusted' = SubSeq(archive', 1, Len(archive))
        <3>1. (CHOOSE x \in Open' : TRUE) = sid /\ Open' # {}
            BY <1>3
        <3> QED BY <1>3, <3>1 DEF Trusted
    <2>2. SubSeq(archive', 1, Len(archive)) = SubSeq(archive, 1, Len(archive))
        BY <1>3, <1>4, Prefix
    <2>3. Trusted' = Trusted
        BY <1>3, <2>1, <2>2, SubSeqFull
    <2> QED BY <2>3 DEF Committed, Holds
<1>7. TypeOK'
    <2>1. stream' \in Seq(Unit)
        BY EmptySeq
    <2> QED BY <1>1, <1>4, <2>1 DEF TypeOK, PC
<1>8. SessionAtHand'
    BY <1>1, <1>2, <1>3, <1>5 DEF SessionAtHand
<1>9. MarksProper'
    BY <1>1 DEF MarksProper, Canonicals
<1>10. ClosedNotRecorded'
    <2>1. NoTwins(archive')
        <3>1. NoTwins(archive \o stream)
            BY <1>2, <1>3 DEF IInv, OnePayload
        <3> QED BY <1>4, <3>1, ClosingUnits
    <2>2. ASSUME NEW f \in Files
          PROVE  session[f] = sid <=> \E i \in DOMAIN archive' :
                     i > sessions[sid].offset /\ archive'[i] = Member(f)
        <3>1. session[f] = sid <=> Holds(stream, f)
            <4>1. session[f] = sid <=>
                      session[f] # NULL /\ sessions[session[f]].status = "open"
                BY <1>3, MarkedOpen
            <4> QED BY <1>1, <1>2, <4>1 DEF RowsMatchArchive
        <3>2. Holds(stream \o Closing, f) <=> Holds(stream, f)
            <4>1. ~ Holds(Closing, f)
                BY ClosingUnits
            <4>2. Holds(stream \o Closing, f) <=> Holds(stream, f) \/ Holds(Closing, f)
                <5>1. stream \in Seq(Unit) /\ Closing \in Seq(Unit)
                    BY <1>3, <1>4
                <5> QED BY <5>1, HoldsConcat
            <4> QED BY <4>1, <4>2
        <3>3. (\E i \in DOMAIN archive' : i > Len(archive) /\ archive'[i] = Member(f))
                  <=> Holds(stream \o Closing, f)
            <4> DEFINE t == stream \o Closing
            <4>1. archive \in Seq(Unit) /\ t \in Seq(Unit) /\ archive' = archive \o t
                BY <1>3, <1>4
            <4> HIDE DEF t
            <4>2. (\E i \in DOMAIN (archive \o t) :
                      i > Len(archive) /\ (archive \o t)[i] = Member(f)) <=> Holds(t, f)
                BY <4>1, HoldsBehind
            <4>3. (\E i \in DOMAIN archive' : i > Len(archive) /\ archive'[i] = Member(f))
                      <=> Holds(t, f)
                BY <4>1, <4>2, Zenon
            <4> QED BY <4>3 DEF t
        <3> QED BY <1>3, <3>1, <3>2, <3>3
    <2> QED BY <2>1, <2>2 DEF ClosedNotRecorded, NoTwins
<1>11. RowsMatchArchive'
    BY <1>1, <1>2, <1>6 DEF RowsMatchArchive
<1>12. OnePayload'
    <2>1. NoTwins(archive)
        BY <1>2, <1>3, NoTwinsPrefix DEF IInv, OnePayload
    <2> QED BY <1>2, <1>3, <1>6, <2>1 DEF OnePayload
<1> QED BY <1>7, <1>8, <1>9, <1>10, <1>11, <1>12 DEF IInv

LEMMA CloseIInv == IInv /\ Close => IInv'
<1> SUFFICES ASSUME IInv, Close PROVE IInv'
    OBVIOUS
<1>1. /\ UNCHANGED <<setting, db, sid, cursor, stopped, shutdown, restarts>>
      /\ pc = "close"
    BY DEF Close
<1>2. CASE /\ archive' = archive \o stream \o Closing /\ stream' = <<>>
           /\ pc' = "record"
    BY <1>1, <1>2, CloseGood
<1>3. CASE pc' = "spinning" /\ UNCHANGED <<archive, stream>>
    <2>1. TypeOK' /\ Open' = Open
        BY <1>1, <1>3 DEF IInv, TypeOK, PC, Open, db
    <2>2. SessionAtHand' /\ MarksProper' /\ ClosedNotRecorded'
        BY <1>1, <1>3, <2>1 DEF IInv, SessionAtHand, MarksProper, ClosedNotRecorded,
                              Canonicals, Writing, NoSession, db
    <2>3. RowsMatchArchive' /\ OnePayload'
        BY <1>1, <1>3, Quiet DEF Writing, db
    <2> QED BY <2>1, <2>2, <2>3 DEF IInv
<1>4. CASE /\ archive' \in Abandoned(archive) /\ stream' = <<>>
           /\ pc' \in {"interrupted", "failed"}
    <2>1. archive' \in Seq(Unit) /\ stream' \in Seq(Unit)
        BY <1>4, AbandonedType, EmptySeq DEF IInv
    <2>2. TypeOK'
        BY <1>1, <1>4, <2>1 DEF IInv, TypeOK, PC, Settled, db
    <2> QED BY <1>1, <1>4, <2>2, DroppedIInv DEF db
<1> QED BY <1>2, <1>3, <1>4 DEF Close, Goto

\* With the session's record, what lies behind its offset is trusted and its
\* marks count.
LEMMA RecordSessionIInv == IInv /\ RecordSession => IInv'
<1> SUFFICES ASSUME IInv, RecordSession PROVE IInv'
    OBVIOUS
<1>1. TypeOK /\ SessionAtHand /\ MarksProper /\ RowsMatchArchive /\ ClosedNotRecorded
    BY DEF IInv
<1>2. /\ UNCHANGED <<setting, phase, session, err, bytesOut, queue, archive, stream, sid,
                     cursor, stopped, shutdown, restarts>>
      /\ pc = "record" /\ pc' = "meta"
      /\ sessions' = [sessions EXCEPT ![sid].status = "finalized"]
    BY DEF RecordSession, Goto, mem
<1>3. /\ Open = {sid} /\ sid \in DOMAIN sessions /\ stream = <<>>
      /\ archive \in Seq(Unit)
      /\ sessions[sid].offset \in 0 .. Len(archive)
      /\ Trusted = SubSeq(archive, 1, sessions[sid].offset)
    BY <1>1, <1>2, TrustedShape DEF SessionAtHand, Writing
<1>4. /\ sessions' \in Seq([offset: Nat, status: {"open", "finalized", "aborted"}])
      /\ Len(sessions') = Len(sessions)
      /\ DOMAIN sessions' = DOMAIN sessions
      /\ \A r \in DOMAIN sessions :
             /\ sessions'[r].offset = sessions[r].offset
             /\ sessions'[r].status = IF r = sid THEN "finalized" ELSE sessions[r].status
    BY <1>1, <1>2, <1>3, StatusUpdate
<1>5. Open' = {} /\ Trusted' = archive
    <2>1. Open' = {}
        BY <1>3, <1>4 DEF Open
    <2> QED BY <1>2, <2>1 DEF Trusted
<1>6. \A f \in Files : f \in Committed' <=> f \in Committed \/ session[f] = sid
    <2> SUFFICES ASSUME NEW f \in Files
                 PROVE  Holds(archive, f) <=> Holds(Trusted, f) \/ session[f] = sid
        BY <1>5 DEF Committed, Holds
    <2>1. Holds(archive, f) <=>
              \/ Holds(SubSeq(archive, 1, sessions[sid].offset), f)
              \/ \E i \in DOMAIN archive : i > sessions[sid].offset /\ archive[i] = Member(f)
        BY <1>3, HoldsCut
    <2> QED BY <1>1, <1>2, <1>3, <2>1 DEF ClosedNotRecorded
<1>7. TypeOK'
    BY <1>1, <1>2, <1>4 DEF TypeOK, PC
<1>8. SessionAtHand'
    BY <1>1, <1>2, <1>3, <1>4, <1>5 DEF SessionAtHand, Writing, NoSession
<1>9. MarksProper' /\ ClosedNotRecorded'
    BY <1>1, <1>2, <1>4 DEF MarksProper, ClosedNotRecorded, Canonicals
<1>10. RowsMatchArchive'
    <2> SUFFICES ASSUME NEW f \in Files
                 PROVE  /\ session[f] # NULL /\ sessions'[session[f]].status = "finalized"
                               <=> f \in Committed'
                        /\ ~ (session[f] # NULL /\ sessions'[session[f]].status = "aborted")
        <3>1. pc' \notin Writing
            BY <1>2 DEF Writing
        <3> QED BY <1>2, <3>1 DEF RowsMatchArchive
    <2>1. CASE session[f] = NULL
        <3>1. session[f] # sid
            BY <1>1, <2>1, ArchiveAssumption DEF TypeOK
        <3> QED BY <1>1, <1>6, <2>1, <3>1 DEF RowsMatchArchive
    <2>2. CASE session[f] # NULL
        <3>1. session[f] \in DOMAIN sessions
            BY <1>1, <2>2 DEF MarksProper
        <3>2. /\ sessions[session[f]].status = "finalized" <=> f \in Committed
              /\ sessions[session[f]].status # "aborted"
            BY <1>1, <1>2, <2>2 DEF RowsMatchArchive
        <3> QED BY <1>4, <1>6, <2>2, <3>1, <3>2
    <2> QED BY <2>1, <2>2
<1>11. OnePayload'
    <2>1. NoTwins(archive)
        BY <1>1, <1>2 DEF ClosedNotRecorded
    <2> QED BY <1>2, <1>5, <2>1 DEF OnePayload, Writing
<1> QED BY <1>7, <1>8, <1>9, <1>10, <1>11 DEF IInv

\* The trailer goes behind a file without an open session.
LEMMA FooterIInv == IInv /\ (FooterHead \/ FooterTail) => IInv'
<1> SUFFICES ASSUME IInv, FooterHead \/ FooterTail PROVE IInv'
    OBVIOUS
<1>1. TypeOK /\ SessionAtHand /\ MarksProper /\ RowsMatchArchive
    BY DEF IInv
<1>2. /\ UNCHANGED <<setting, db, mem, shutdown, restarts>>
      /\ pc \in {"footer", "oneShot", "footerTail", "oneShotTail"}
    BY DEF FooterHead, FooterTail
<1> USE DEF db, mem
<1>3. Open = {} /\ Open' = {} /\ stream = <<>> /\ Trusted = archive
      /\ archive \in Seq(Unit) /\ Len(archive) \in Nat /\ pc \notin Writing
    BY <1>1, <1>2, TrustedShape DEF SessionAtHand, Writing, NoSession, Open
<1>4. CASE pc' \in {"interrupted", "failed"} /\ archive' = archive
    <2>1. TypeOK'
        BY <1>1, <1>2, <1>4 DEF TypeOK, PC, Settled
    <2>2. SessionAtHand' /\ MarksProper' /\ ClosedNotRecorded'
        BY <1>1, <1>2, <1>3, <1>4 DEF SessionAtHand, MarksProper, ClosedNotRecorded,
                              Canonicals, Writing, NoSession
    <2>3. RowsMatchArchive' /\ OnePayload'
        BY <1>2, <1>4, Quiet DEF Writing
    <2> QED BY <2>1, <2>2, <2>3 DEF IInv
<1>5. ASSUME NEW u \in {U("head"), U("tail")}, archive' = Append(archive, u),
             pc' \in {"footerTail", "oneShotTail", "leave", "verify"}
      PROVE  IInv'
    <2>1. u \in Unit /\ u.kind # "member" /\ \A f : u # Member(f)
        <3>1. u \in Unit /\ u.kind # "member"
            BY DEF U, Unit, Kind
        <3>2. \A f : Member(f).kind = "member"
            BY DEF Member
        <3> QED BY <3>1, <3>2
    <2>2. /\ archive' \in Seq(Unit) /\ Len(archive') = Len(archive) + 1
          /\ \A f \in Files : Holds(archive', f) <=> Holds(archive, f)
        BY <1>3, <1>5, <2>1, AppendProperties, HoldsAppend
    <2>3. Trusted' = archive' /\ Committed' = Committed
        BY <1>3, <2>2 DEF Trusted, Committed, Holds
    <2>4. pc' \notin Writing /\ pc # "revert"
        BY <1>2, <1>5 DEF Writing
    <2>5. TypeOK'
        BY <1>1, <1>2, <1>5, <2>2 DEF TypeOK, PC
    <2>6. SessionAtHand' /\ MarksProper' /\ ClosedNotRecorded'
        BY <1>1, <1>2, <1>3, <1>5 DEF SessionAtHand, MarksProper, ClosedNotRecorded,
                              Canonicals, Writing, NoSession
    <2>7. RowsMatchArchive'
        BY <1>1, <1>2, <2>3, <2>4 DEF RowsMatchArchive
    <2>8. OnePayload'
        <3>1. NoTwins(archive)
            BY <1>3 DEF IInv, OnePayload
        <3>2. NoTwins(archive')
            BY <1>3, <1>5, <2>1, <3>1, NoTwinsAppend
        <3> QED BY <2>3, <2>4, <3>2 DEF OnePayload
    <2> QED BY <2>5, <2>6, <2>7, <2>8 DEF IInv
<1>6. \/ pc' \in {"interrupted", "failed"} /\ archive' = archive
      \/ /\ \/ archive' = Append(archive, U("head"))
            \/ archive' = Append(archive, U("tail"))
         /\ pc' \in {"footerTail", "oneShotTail", "leave", "verify"}
    BY DEF FooterHead, FooterTail, Goto
<1> QED BY <1>4, <1>5, <1>6

\* A crash or a rerun, anywhere but between the statements of
\* abort_incomplete_session.
LEMMA RestartIInv == IInv /\ Restart /\ "revert" \notin Adverse => IInv'
<1> SUFFICES ASSUME IInv, Restart, "revert" \notin Adverse PROVE IInv'
    OBVIOUS
<1>1. /\ UNCHANGED <<setting, db>>
      /\ archive' \in Abandoned(archive) /\ stream' = <<>> /\ pc' = "recover"
      /\ sid' = 0 /\ cursor' = 0 /\ stopped' = FALSE /\ shutdown' = "running"
      /\ restarts' = restarts + 1
      /\ Window \in Adverse \cup {"none"}
    BY DEF Restart, Goto
<1>2. pc # "revert"
    <2>1. pc = "revert" => Window = "revert"
        BY DEF Window
    <2> QED BY <1>1, <2>1
<1>3. archive' \in Seq(Unit) /\ stream' \in Seq(Unit)
    BY <1>1, AbandonedType, EmptySeq DEF IInv
<1>4. TypeOK'
    <2>1. /\ setting' \in Settings
          /\ phase' \in [Files -> {"staged", "archived"}]
          /\ session' \in [Files -> Nat \cup {NULL}]
          /\ err' \subseteq Files
          /\ sessions' \in Seq([offset: Nat, status: {"open", "finalized", "aborted"}])
          /\ bytesOut' \in Nat \cup {NULL}
          /\ queue' \subseteq Files
        BY <1>1 DEF IInv, TypeOK, db
    <2>2. /\ sid' \in Nat /\ cursor' \in Nat /\ stopped' \in BOOLEAN
          /\ shutdown' \in {"running", "graceful", "force"} /\ pc' \in PC
        BY <1>1 DEF PC
    <2>3. restarts \in Nat
        BY DEF IInv, TypeOK
    <2>4. restarts' \in Nat
        BY <1>1, <2>3
    <2> QED BY <1>3, <2>1, <2>2, <2>4 DEF TypeOK
<1> QED BY <1>1, <1>2, <1>4, DroppedIInv DEF db

(***************************************************************************)
(* The theorems.                                                           *)
(***************************************************************************)
LEMMA NextIInv == IInv /\ [Next]_vars /\ "revert" \notin Adverse => IInv'
<1> SUFFICES ASSUME IInv, [Next]_vars, "revert" \notin Adverse PROVE IInv'
    OBVIOUS
<1>1. CASE Bookkeeping
    BY <1>1, BookkeepingIInv
<1>2. CASE Recover \/ Abort \/ Revert \/ Begin
    BY <1>2, RecoverIInv, AbortIInv, RevertIInv, BeginIInv
<1>3. CASE WriteManifest \/ PopulateQueue \/ NextRow \/ AppendMember \/ Excuse
    BY <1>3, WriteManifestIInv, PopulateQueueIInv, NextRowIInv, AppendMemberIInv, ExcuseIInv
<1>4. CASE WriteSnapshot \/ Close \/ RecordSession
    BY <1>4, WriteSnapshotIInv, CloseIInv, RecordSessionIInv
<1>5. CASE FooterHead \/ FooterTail
    BY <1>5, FooterIInv
<1>6. CASE Restart
    BY <1>6, RestartIInv
<1> QED BY <1>1, <1>2, <1>3, <1>4, <1>5, <1>6, Zenon DEF Next, Driver, Bookkeeping

\* The inductive invariant holds throughout, for every number of rows, sessions,
\* crashes and reruns.
THEOREM Invariance == "revert" \notin Adverse => (Spec => []IInv)
<1> SUFFICES ASSUME "revert" \notin Adverse PROVE Spec => []IInv
    OBVIOUS
<1>1. IInv /\ [Next]_vars => IInv'
    BY NextIInv
<1> QED BY <1>1, InitIInv, PTL DEF Spec

\* Every variable stays in its type.
THEOREM TypeCorrect == "revert" \notin Adverse => (Spec => []TypeOK)
<1>1. IInv => TypeOK
    BY DEF IInv
<1> QED BY <1>1, Invariance, PTL

\* Table and file agree at every moment: a finalized mark is a payload in the
\* part of the file that stays.  (session_id, archive_sessions, truncation)
THEOREM TableMatchesFile == "revert" \notin Adverse => (Spec => []RowsMatchArchive)
<1>1. IInv => RowsMatchArchive
    BY DEF IInv
<1> QED BY <1>1, Invariance, PTL

\* No payload is stored twice, whatever was cut off and appended again.
\* (pull_pending_archive_rows)
THEOREM PayloadsOnce == "revert" \notin Adverse => (Spec => []OnePayload)
<1>1. IInv => OnePayload
    BY DEF IInv
<1> QED BY <1>1, Invariance, PTL

(***************************************************************************)
(* The phase implements its promise.                                       *)
(***************************************************************************)
\* The rows whose mark names a finalized session; by RowsMatchArchive they are
\* the ones whose payload is in the file for good.
Finalized == {f \in Files : session[f] # NULL /\ sessions[session[f]].status = "finalized"}

LEMMA CommittedMarks ==
    /\ RowsMatchArchive => Committed = Finalized
    /\ RowsMatchArchive' => Committed' = Finalized'
<1>1. RowsMatchArchive => Committed = Finalized
    BY DEF RowsMatchArchive, Committed, Finalized
<1>2. RowsMatchArchive' => Committed' = Finalized'
    BY DEF RowsMatchArchive, Committed, Finalized
<1> QED BY <1>1, <1>2

LEMMA InitPromise == Init => Promise!Init
<1> SUFFICES ASSUME Init PROVE Promise!Init
    OBVIOUS
<1>1. Canonicals \subseteq Files
    BY ArchiveAssumption DEF Init, Canonicals, Setting
<1>2. Committed = {}
    BY CommittedMarks, InitIInv DEF IInv, Init, Finalized
<1>3. err \cap Canonicals = {} /\ (pc = "done") = FALSE
    BY DEF Init
<1> QED BY <1>1, <1>2, <1>3 DEF Promise!Init

\* A session's record commits the rows it is marked on.
LEMMA RecordSessionPromise == IInv /\ IInv' /\ RecordSession => Promise!Commit
<1> SUFFICES ASSUME IInv, IInv', RecordSession PROVE Promise!Commit
    OBVIOUS
<1> DEFINE S == {f \in Files : session[f] = sid}
<1>1. /\ UNCHANGED <<setting, err, session>> /\ pc = "record" /\ pc' = "meta"
      /\ sessions' = [sessions EXCEPT ![sid].status = "finalized"]
    BY DEF RecordSession, Goto
<1>2. Open = {sid} /\ sid \in DOMAIN sessions /\ sid # NULL /\ sessions[sid].status = "open"
    BY <1>1, ArchiveAssumption DEF IInv, SessionAtHand, Open, TypeOK
<1>3. \A r \in DOMAIN sessions :
          sessions'[r].status = IF r = sid THEN "finalized" ELSE sessions[r].status
    BY <1>1, <1>2, StatusUpdate DEF IInv
<1>4. \A f \in Files : session[f] # NULL => session[f] \in DOMAIN sessions
    BY DEF IInv, MarksProper
<1>5. Finalized' = Finalized \cup S
    BY <1>1, <1>2, <1>3, <1>4 DEF Finalized
<1>6. S \cap Finalized = {} /\ S \subseteq Canonicals \ err
    BY <1>2 DEF Finalized, IInv, MarksProper
<1>7. Committed = Finalized /\ Committed' = Finalized'
    BY CommittedMarks DEF IInv
<1>8. S \in SUBSET (Canonicals \ (Committed \cup (err \cap Canonicals)))
    BY <1>6, <1>7
<1>9. Committed' = Committed \cup S
    BY <1>5, <1>7
<1>10. /\ Canonicals' = Canonicals /\ (err \cap Canonicals)' = err \cap Canonicals
       /\ ~ (pc = "done") /\ (pc = "done")' = (pc = "done")
    BY <1>1 DEF Canonicals
<1> HIDE DEF S
<1> QED BY <1>8, <1>9, <1>10 DEF Promise!Commit

\* Verified and saved: nothing wanted is missing.
LEMMA VerifyPromise == IInv /\ IInv' /\ Verify =>
    Promise!Seal \/ UNCHANGED <<Canonicals, Committed, err \cap Canonicals, pc = "done">>
<1> SUFFICES ASSUME IInv, IInv', Verify
             PROVE  Promise!Seal \/ UNCHANGED <<Canonicals, Committed, err \cap Canonicals,
                                              pc = "done">>
    OBVIOUS
<1>1. /\ UNCHANGED <<setting, err, session, sessions>> /\ pc = "verify"
      /\ pc' \in {"done", "panicked"}
      /\ pc' = "done" => \A f \in Canonicals : (session[f] # NULL) # (f \in err)
    BY DEF Verify, Goto, db
<1>2. Committed' = Committed /\ Committed = Finalized
    BY <1>1, CommittedMarks DEF IInv, Finalized
<1>3. CASE pc' = "panicked"
    BY <1>1, <1>2, <1>3 DEF Canonicals
<1>4. CASE pc' = "done"
    <2>1. Open = {}
        BY <1>1 DEF IInv, SessionAtHand, NoSession
    <2>2. Canonicals \subseteq Files
        BY ArchiveAssumption DEF IInv, TypeOK, Canonicals, Setting
    <2>3. ASSUME NEW f \in Canonicals, f \notin err PROVE f \in Committed
        <3>1. session[f] # NULL /\ f \in Files
            BY <1>1, <1>4, <2>2, <2>3
        <3>2. session[f] \in DOMAIN sessions
            BY <3>1 DEF IInv, MarksProper
        <3>3. sessions[session[f]].status \in {"open", "finalized", "aborted"}
            <4>1. session[f] \in 1 .. Len(sessions)
                BY <3>2, LenProperties DEF IInv, TypeOK
            <4>2. sessions[session[f]] \in
                      [offset: Nat, status: {"open", "finalized", "aborted"}]
                BY <4>1, ElementOfSeq DEF IInv, TypeOK
            <4> QED BY <4>2
        <3>4. sessions[session[f]].status # "open"
            BY <2>1, <3>2 DEF Open
        <3>5. sessions[session[f]].status # "aborted"
            BY <1>1, <3>1 DEF IInv, RowsMatchArchive
        <3> QED BY <1>2, <3>1, <3>3, <3>4, <3>5 DEF Finalized
    <2>4. Canonicals \subseteq Committed \cup (err \cap Canonicals)
        BY <2>3
    <2>5. /\ Canonicals' = Canonicals /\ (err \cap Canonicals)' = err \cap Canonicals
          /\ (pc = "done")' = TRUE
        BY <1>1, <1>4 DEF Canonicals
    <2> QED BY <1>2, <2>4, <2>5 DEF Promise!Seal
<1> QED BY <1>1, <1>3, <1>4

\* What the abstract specification sees of a state.
promised == <<Canonicals, Committed, err \cap Canonicals, pc = "done">>

\* Marks and sessions decide what is committed: a step that leaves both, the
\* errors and Done alone is a stutter of the abstract specification.
LEMMA QuietPromise ==
    ASSUME IInv, IInv', UNCHANGED <<setting, err>>, Finalized' = Finalized,
           pc # "done", pc' # "done"
    PROVE  UNCHANGED promised
<1>1. Committed' = Committed
    BY CommittedMarks DEF IInv
<1>2. Canonicals' = Canonicals
    BY DEF Canonicals
<1>3. (pc = "done") = FALSE /\ (pc = "done")' = FALSE
    OBVIOUS
<1> QED BY <1>1, <1>2, <1>3 DEF promised

\* A row that fails is one not yet marked: it is excused, not lost.
LEMMA ExcusePromise ==
    ASSUME IInv, IInv', NEW f \in Canonicals, f \in Files, session[f] = NULL, f \notin err,
           err' = err \cup {f}, UNCHANGED <<setting, session, sessions>>,
           pc # "done", pc' # "done"
    PROVE  Promise!Excuse
<1>1. Committed' = Committed /\ f \notin Committed
    BY CommittedMarks DEF IInv, Finalized
<1>2. Canonicals' = Canonicals
    BY DEF Canonicals
<1>3. (err \cap Canonicals)' = (err \cap Canonicals) \cup {f}
    BY <1>2
<1>4. f \in Canonicals \ (Committed \cup (err \cap Canonicals))
    BY <1>1
<1>5. ~ (pc = "done") /\ (pc = "done")' = (pc = "done")
    OBVIOUS
<1> QED BY <1>1, <1>2, <1>3, <1>4, <1>5 DEF Promise!Excuse

LEMMA NextRowPromise == IInv /\ IInv' /\ NextRow => Promise!Excuse \/ UNCHANGED promised
<1> SUFFICES ASSUME IInv, IInv', NextRow PROVE Promise!Excuse \/ UNCHANGED promised
    OBVIOUS
<1>1. /\ UNCHANGED <<setting, session, sessions>> /\ pc = "next"
      /\ pc' \in {"collect", "stop", "append", "excuseSource"}
      /\ \/ err' = err
         \/ cursor' \in Pullable /\ err' = err \cup {cursor'}
    BY DEF NextRow, Goto
<1>2. CASE err' = err
    BY <1>1, <1>2, QuietPromise DEF Finalized
<1>3. CASE cursor' \in Pullable /\ err' = err \cup {cursor'}
    <2>1. cursor' \in Canonicals /\ cursor' \in Files
          /\ session[cursor'] = NULL /\ cursor' \notin err
        BY <1>3 DEF Pullable, IInv, MarksProper, TypeOK
    <2> QED BY <1>1, <1>3, <2>1, ExcusePromise
<1> QED BY <1>1, <1>2, <1>3

LEMMA AppendMemberPromise ==
    IInv /\ IInv' /\ AppendMember => Promise!Excuse \/ UNCHANGED promised
<1> SUFFICES ASSUME IInv, IInv', AppendMember PROVE Promise!Excuse \/ UNCHANGED promised
    OBVIOUS
<1>1. /\ UNCHANGED <<setting, sessions>> /\ pc = "append"
      /\ pc' \in {"spinning", "next", "excuseAppend"}
      /\ \/ UNCHANGED <<session, err>>
         \/ session' = [session EXCEPT ![cursor] = sid] /\ UNCHANGED err
         \/ err' = err \cup {cursor} /\ UNCHANGED session
    BY DEF AppendMember, Goto
<1>2. /\ cursor \in Canonicals /\ cursor \in Files
      /\ session[cursor] = NULL /\ cursor \notin err
    BY <1>1 DEF IInv, MarksProper, TypeOK
<1>3. CASE UNCHANGED <<session, err>>
    BY <1>1, <1>3, QuietPromise DEF Finalized
<1>4. CASE session' = [session EXCEPT ![cursor] = sid] /\ UNCHANGED err
    <2>1. sid \in Open
        BY <1>1 DEF IInv, SessionAtHand, Writing
    <2>2. sessions[sid].status # "finalized"
        BY <2>1 DEF Open
    <2>3. session'[cursor] = sid /\ \A f \in Files : f # cursor => session'[f] = session[f]
        BY <1>2, <1>4 DEF IInv, TypeOK
    <2>4. Finalized' = Finalized
        BY <1>1, <1>2, <2>2, <2>3 DEF Finalized
    <2> QED BY <1>1, <1>4, <2>4, QuietPromise
<1>5. CASE err' = err \cup {cursor} /\ UNCHANGED session
    BY <1>1, <1>2, <1>5, ExcusePromise
<1> QED BY <1>1, <1>3, <1>4, <1>5

\* What a crash left is given up, and what a new session starts with is empty:
\* neither touches a finalized mark.
LEMMA SessionsPromise ==
    IInv /\ IInv' /\ (Abort \/ Revert \/ Begin) => UNCHANGED promised
<1> SUFFICES ASSUME IInv, IInv', Abort \/ Revert \/ Begin PROVE UNCHANGED promised
    OBVIOUS
<1>1. UNCHANGED <<setting, err>> /\ pc # "done" /\ pc' # "done"
    BY DEF Abort, Revert, Begin, Goto
<1>2. \A f \in Files : session[f] # NULL => session[f] \in DOMAIN sessions
    BY DEF IInv, MarksProper
<1>3. CASE Abort
    <2>1. sid \in Open
        BY <1>3 DEF Abort, IInv, SessionAtHand
    <2>2. sid \in DOMAIN sessions /\ sessions[sid].status = "open"
        BY <2>1 DEF Open
    <2>3. \A r \in DOMAIN sessions :
              sessions'[r].status = IF r = sid THEN "aborted" ELSE sessions[r].status
        BY <1>3, <2>2, StatusUpdate DEF IInv, Abort
    <2>4. Finalized' = Finalized
        BY <1>2, <1>3, <2>2, <2>3 DEF Finalized, Abort
    <2> QED BY <1>1, <2>4, QuietPromise
<1>4. CASE Revert
    <2>1. sessions' = sessions /\ sid # NULL /\ sessions[sid].status = "aborted"
        BY <1>4, ArchiveAssumption DEF Revert, IInv, SessionAtHand, TypeOK
    <2>2. \A f \in Files : session'[f] = IF session[f] = sid THEN NULL ELSE session[f]
        BY <1>4 DEF Revert
    <2>3. Finalized' = Finalized
        BY <2>1, <2>2 DEF Finalized
    <2> QED BY <1>1, <2>3, QuietPromise
<1>5. CASE Begin
    <2>1. session' = session
        BY <1>5 DEF Begin
    <2>2. \A r \in DOMAIN sessions : sessions'[r] = sessions[r]
        BY <1>5, AppendProperties DEF Begin, IInv, TypeOK
    <2>3. Finalized' = Finalized
        BY <1>2, <2>1, <2>2 DEF Finalized
    <2> QED BY <1>1, <2>3, QuietPromise
<1> QED BY <1>3, <1>4, <1>5

\* Every other step leaves marks and sessions alone, and none of them saves Done.
LEMMA OtherPromise ==
    /\ IInv /\ IInv'
    /\ \/ Recover \/ Decide \/ PromoteIneligible \/ WriteManifest \/ PopulateQueue
       \/ Excuse \/ Stop \/ Collect \/ WriteSnapshot \/ Unwrap \/ Close \/ RecordBytes
       \/ FooterHead \/ FooterTail \/ Leave \/ Signal \/ Restart \/ Stopped
       \/ UNCHANGED vars
    => UNCHANGED promised
<1> SUFFICES ASSUME IInv, IInv',
                    \/ Recover \/ Decide \/ PromoteIneligible \/ WriteManifest
                    \/ PopulateQueue \/ Excuse \/ Stop \/ Collect \/ WriteSnapshot
                    \/ Unwrap \/ Close \/ RecordBytes \/ FooterHead \/ FooterTail
                    \/ Leave \/ Signal \/ Restart \/ Stopped \/ UNCHANGED vars
             PROVE  UNCHANGED promised
    OBVIOUS
<1>1. UNCHANGED <<setting, err, session, sessions>>
      /\ (pc' = pc \/ (pc # "done" /\ pc' # "done"))
    <2>1. CASE Recover \/ Decide \/ PromoteIneligible
        BY <2>1 DEF Recover, Decide, PromoteIneligible, Goto, db
    <2>2. CASE WriteManifest \/ PopulateQueue \/ WriteSnapshot
        BY <2>2 DEF WriteManifest, WriteSnapshot, AppendCopy, PopulateQueue, Goto, db
    <2>3. CASE Excuse \/ Stop \/ Collect
        BY <2>3 DEF Excuse, Stop, Collect, Goto, db
    <2>4. CASE Unwrap \/ Close \/ RecordBytes
        BY <2>4 DEF Unwrap, Close, RecordBytes, Goto, db
    <2>5. CASE FooterHead \/ FooterTail \/ Leave
        BY <2>5 DEF FooterHead, FooterTail, Leave, Goto, db
    <2>6. CASE Signal
        BY <2>6 DEF Signal, db
    <2>7. CASE Restart
        BY <2>7 DEF Restart, Goto, db
    <2>8. CASE Stopped \/ UNCHANGED vars
        BY <2>8 DEF Stopped, vars, db
    <2> QED BY <2>1, <2>2, <2>3, <2>4, <2>5, <2>6, <2>7, <2>8
<1>2. Committed' = Committed
    BY <1>1, CommittedMarks DEF IInv, Finalized
<1>3. Canonicals' = Canonicals /\ (pc = "done")' = (pc = "done")
    BY <1>1 DEF Canonicals
<1> QED BY <1>1, <1>2, <1>3 DEF promised

LEMMA NextPromise == IInv /\ IInv' /\ [Next]_vars => Promise!Next \/ UNCHANGED promised
<1> SUFFICES ASSUME IInv, IInv', [Next]_vars PROVE Promise!Next \/ UNCHANGED promised
    OBVIOUS
<1>1. CASE NextRow \/ AppendMember
    BY <1>1, NextRowPromise, AppendMemberPromise DEF Promise!Next
<1>2. CASE RecordSession
    BY <1>2, RecordSessionPromise DEF Promise!Next
<1>3. CASE Verify
    BY <1>3, VerifyPromise DEF Promise!Next, promised
<1>4. CASE Abort \/ Revert \/ Begin
    BY <1>4, SessionsPromise
<1>5. CASE \/ Recover \/ Decide \/ PromoteIneligible \/ WriteManifest \/ PopulateQueue
           \/ Excuse \/ Stop \/ Collect \/ WriteSnapshot \/ Unwrap \/ Close \/ RecordBytes
           \/ FooterHead \/ FooterTail \/ Leave \/ Signal \/ Restart \/ Stopped
           \/ UNCHANGED vars
    BY <1>5, OtherPromise
<1> QED BY <1>1, <1>2, <1>3, <1>4, <1>5, Zenon DEF Next, Driver

\* The archive phase keeps its promise: payloads are committed a session at a
\* time and never lost, a row is given up only while it is not committed, and
\* Done is saved only when no wanted row is missing.
THEOREM ImplementsPromise == "revert" \notin Adverse => (Spec => KeepsPromise)
<1> SUFFICES ASSUME "revert" \notin Adverse PROVE Spec => KeepsPromise
    OBVIOUS
<1>1. Spec => []IInv
    BY Invariance
<1>2. IInv /\ IInv' /\ [Next]_vars => [Promise!Next]_Promise!pVars
    BY NextPromise DEF Promise!pVars, promised
<1> QED BY <1>1, <1>2, InitPromise, PTL DEF Spec, KeepsPromise, Promise!Spec
=============================================================================
