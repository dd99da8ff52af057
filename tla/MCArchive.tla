----------------------------- MODULE MCArchive -----------------------------
(* Instances of ArchiveSession for TLC. *)
EXTENDS ArchiveSession

MCFiles == 1..4
MCEmptyFiles == {4}

\* Three payloads, the last one of size 0, beside a row that is a duplicate.
Base == [canonicals |-> {1, 3, 4}, bad |-> {}, footer |-> TRUE,
         failFast |-> FALSE, ioFails |-> FALSE, decoder |-> "all"]

MCSettings ==
    {[Base EXCEPT !.bad = unreadable, !.footer = trailer, !.failFast = fast] :
        unreadable \in {{}, {3}}, trailer \in BOOLEAN, fast \in BOOLEAN}
    \cup {[Base EXCEPT !.ioFails = TRUE, !.canonicals = {1, 3}]}

\* One setting; the archive's format is one whose decoder reads one stream.
MCFirstStream == {[Base EXCEPT !.decoder = "first"]}
MCPlain == {Base}
=============================================================================
