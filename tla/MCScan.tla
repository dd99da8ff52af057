------------------------------- MODULE MCScan -------------------------------
(* Instances of Unarchive for TLC. *)
EXTENDS Unarchive

MCFiles == {1, 2}

Manifest == [kind |-> "manifest", file |-> 0, upto |-> {}]
Snapshot(F) == [kind |-> "snapshot", file |-> 0, upto |-> F]
Payload(f) == [kind |-> "payload", file |-> f, upto |-> {}]

\* An archive of one session with a trailer.
Base ==
    [stream |-> <<Manifest, Payload(1), Payload(2), Snapshot({1, 2})>>,
     footer |-> TRUE, stored |-> {1, 2}, excused |-> {}, want |-> {1, 2},
     fails |-> {}, corrupt |-> {}, set |-> {}]

With1(c, s) == [c EXCEPT !.set = @ \cup s]

\* A second session, and what is left when an end of the file is cut off.
Resumed == [Base EXCEPT !.stream = <<Manifest, Payload(1), Snapshot({1}), Payload(2),
                                     Snapshot({1, 2})>>]
Cut(c, n) == [c EXCEPT !.stream = SubSeq(@, 1, n), !.footer = FALSE]
Beheaded(c) == [c EXCEPT !.stream = Tail(@)]

Sound == {Base, With1(Resumed, {"rehash"}), With1(Base, {"eager", "rehash"}),
          [Base EXCEPT !.want = {1}], With1([Resumed EXCEPT !.want = {1}], {"eager"}),
          [Base EXCEPT !.want = {}]}

Faulty ==
    {With1([Base EXCEPT !.fails = {2}], s) :
        s \in {{}, {"sparsify"}, {"force"}, {"eager"}, {"force", "rehash"}}}
    \cup {With1([Base EXCEPT !.corrupt = {1}], {"rehash"} \cup s) : s \in {{}, {"force"}}}
    \cup {With1(Base, {"verify", "tampered"} \cup s) : s \in {{}, {"force"}}}
    \cup {With1(Base, {"verify", "rehash", "sparsify"}),
          With1([Base EXCEPT !.fails = {2}], {"force", "failFast", "rehash"}),
          [Base EXCEPT !.excused = {2}, !.stored = {1},
                       !.stream = <<Manifest, Payload(1), Snapshot({1})>>]}

Truncated ==
    {With1(a, s) : a \in {[Resumed EXCEPT !.footer = FALSE], Cut(Resumed, 4), Cut(Resumed, 3),
                          Cut(Resumed, 2), Cut(Resumed, 0)},
                   s \in {{}, {"force"}, {"eager"}}}
    \cup {With1(Beheaded(Base), s) : s \in {{}, {"force"}}}
    \cup {With1(Beheaded([Resumed EXCEPT !.footer = FALSE, !.fails = {1}]), s) :
            s \in {{}, {"force"}, {"force", "eager"}}}
    \cup {With1(Cut(Beheaded(Resumed), 1), s) : s \in {{"force"}, {"force", "keepStage"}}}
    \cup {[Base EXCEPT !.stream = <<Manifest, Payload(1)>>],
          [Base EXCEPT !.stream = <<Manifest, Manifest>> \o Tail(@)]}

MCArchives == Sound \cup Faulty \cup Truncated
MCSalvage == {With1([Resumed EXCEPT !.footer = FALSE], {"force"})}
MCSound == {Base}
=============================================================================
