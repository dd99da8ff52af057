------------------------------ MODULE MCDedup ------------------------------
(* Instances of Dedup for TLC. *)
EXTENDS Dedup

CONSTANTS k1, k2, a, b, c, i1, z1, z2

MCFiles == 1..5

\* Five rows, none of them with a digest; the corpora below fill rows in.
Base == [key |-> [f \in Files |-> NoKey],
         bytes |-> [f \in Files |-> a],
         inode |-> [f \in Files |-> NoInode],
         passes |-> Files,
         fails |-> {},
         mode |-> "Regular",
         hardlinks |-> TRUE,
         failFast |-> FALSE]

\* Every catalogue of one group of up to three rows and two contents, with at
\* most one row excluded by the filter and any set of unreadable files.
SmallGroups ==
    {[Base EXCEPT !.key = [f \in Files |-> IF f \in keyed THEN k1 ELSE NoKey],
                  !.bytes = [f \in Files |-> IF f \in other THEN b ELSE a],
                  !.passes = Files \ excluded,
                  !.fails = unreadable] :
        keyed \in {{1, 2}, {1, 2, 3}}, other \in SUBSET {2, 3},
        excluded \in {{}, {1}, {3}}, unreadable \in SUBSET (1..3)}

\* One group of five rows and three contents: three rounds.
Rounds == [Base EXCEPT !.key = [f \in Files |-> k1],
                       !.bytes = [f \in Files |-> IF f \in {1, 4} THEN a
                                                  ELSE IF f = 3 THEN c ELSE b]]
\* A group of four whose first round's canonical, or a member, cannot be read.
Failing == [Rounds EXCEPT !.key = [f \in Files |-> IF f = 5 THEN NoKey ELSE k1],
                          !.fails = {2, 3}]
FailFast == [Failing EXCEPT !.failFast = TRUE]
\* Two groups, one of them of two names of one inode, beside two empty files.
Mixed == [Base EXCEPT !.key = [f \in Files |-> CASE f \in {1, 2} -> k1
                                                 [] f = 3 -> k2
                                                 [] OTHER -> z1],
                      !.inode = [f \in Files |-> IF f \in {1, 2} THEN i1
                                                 ELSE NoInode],
                      !.fails = {1, 2}]
\* Two groups that advance on their own; one can fail.
TwoGroups == [Base EXCEPT !.key = [f \in Files |-> CASE f \in {1, 3} -> k1
                                                     [] f \in {2, 4} -> k2
                                                     [] OTHER -> NoKey],
                          !.bytes = [f \in Files |-> IF f = 4 THEN b ELSE a],
                          !.fails = {3}]
Bulk == [Base EXCEPT !.key = [f \in Files |-> IF f \in {1, 3} THEN k1 ELSE k2],
                     !.bytes = [f \in Files |-> IF f \in {1, 3} THEN a ELSE b],
                     !.inode = [f \in Files |-> IF f \in {1, 3} THEN i1 ELSE NoInode],
                     !.passes = Files \ {2}]
HashMode == [Bulk EXCEPT !.mode = "Hash"]
NoneMode == [Bulk EXCEPT !.mode = "None"]
NoneModeNoLinks == [Bulk EXCEPT !.mode = "None", !.hardlinks = FALSE]

MCCorpora == SmallGroups \cup
             {Rounds, Failing, FailFast, Mixed, TwoGroups,
              HashMode, NoneMode, NoneModeNoLinks}

\* Nothing fails; some rows are excluded.
MCReadable == {x \in SmallGroups : x.fails = {}}
=============================================================================
