--------------------------- MODULE PipelineProofs ---------------------------
(***************************************************************************)
(* Theorems about Pipeline, for every tree and setting, any number of      *)
(* names, every batch size, and any number of crashes, signals, resumed    *)
(* and fresh runs, and vanishing files.                                    *)
(***************************************************************************)
EXTENDS Pipeline, TLAPS, FiniteSetTheorems, WellFoundedInduction

-----------------------------------------------------------------------------
(* The inductive invariant.                                                 *)

Steps == {"off", "save", "config", "includes", "excludes", "loop", "enter", "walk", "queue",
          "pool", "link", "apply", "append", "verify", "advance", "cleanup", "remove"}
Typed == TypeOK /\ pc \in Steps

PoolEmpty == pulled = {} /\ waiting = {} /\ reading = {} /\ answers = {}
Answered == {n \in Names : \E r \in Result : <<n, r>> \in answers}

\* Where the process is, and what the database says of it.
Control ==
    /\ pc = "off" => at = "inventory"
    /\ pc = "save" => meta.phase = "none" /\ at = "inventory"
    /\ pc \in {"config", "includes", "excludes"} => at = "inventory" /\ Listed = {}
    /\ pc \notin {"off", "save", "remove"} => at = meta.phase
    /\ pc = "remove" => meta.phase = "none"
    /\ pc = "cleanup" => at = "done"
    /\ pc \in {"enter", "verify", "advance"} => at # "done"
    /\ meta.phase = "none" => Listed = {} /\ hashQueue = {}
    /\ meta.phase = "done" => tape.footer
    /\ pc \in {"verify", "advance"} /\ at = "archive" => tape.footer
    /\ pc \notin {"pool", "link", "apply"} => PoolEmpty
    /\ pc \in {"link", "apply"} => pulled = {} /\ waiting = {} /\ reading = {}

\* The row phases that a run in phase p may find, and the one it leaves.
Found(p) ==
    CASE p = "hash" -> BeforeHash
      [] p = "filter" -> BeforeFilter
      [] p = "dedup" -> BeforeDedup
      [] p = "sparsify" -> "deduped"
      [] p = "stage" -> "sparsified"
      [] p = "archive" -> "staged"
      [] p = "done" -> "archived"
      [] OTHER -> "inventoried"
Left(p) ==
    CASE p = "hash" -> "hashed"
      [] p = "filter" -> "filtered"
      [] p = "dedup" -> "deduped"
      [] p = "sparsify" -> "sparsified"
      [] p = "stage" -> "staged"
      [] p \in {"archive", "done"} -> "archived"
      [] OTHER -> "inventoried"

\* The phase is over for every row; after hash it takes the checks to see it.
Over == pc = "advance" \/ (pc = "verify" /\ at # "hash")

InPhase ==
    /\ \A n \in Listed : row[n].phase \in {Found(meta.phase), Left(meta.phase)}
    /\ Over => \A n \in Listed : row[n].phase = Left(at)
    /\ at = "hash" /\ pc \in {"queue", "pool", "verify"} => In(BeforeHash) \subseteq Hashable
    /\ meta.phase = "dedup" => In(BeforeDedup) = {} \/ In("deduped") = {}

Unfiltered == IF world.eager THEN {"inventoried"} ELSE {"inventoried", "hashed"}
Unhashed == IF world.eager THEN {"inventoried", "filtered"} ELSE {"inventoried"}
Undeduped == {"inventoried", "hashed", "filtered"}

\* What a row of each phase holds.
RowSound(n) ==
    LET r == row[n]
    IN /\ r.phase = "none" => r.flags = {} /\ ~r.sha /\ r.verdict = "unset"
       /\ r.phase \in Undeduped \cup {"none"} => r.canonical = NULL
       /\ r.phase \in Unfiltered => r.verdict = "unset"
       /\ r.phase \notin Unfiltered \cup {"none"} => r.verdict = Verdict(n)
       /\ r.phase \in Unhashed => ~r.sha /\ "hashError" \notin r.flags
       /\ r.phase \in Undeduped => "dedupError" \notin r.flags
       /\ r.phase \in Undeduped \cup {"deduped"} =>
             "hasSparse" \notin r.flags /\ "sparseError" \notin r.flags
       /\ r.phase # "archived" => ~r.stored /\ "archiveError" \notin r.flags
       /\ r.flags \cap Errors # {} => n \in gone
       /\ r.stored => r.canonical = n

\* One canonical among the kept rows of a content.
Canonicals ==
    /\ \A n \in Names : row[n].canonical # NULL =>
          /\ n \in Regular \cap Hashed \cap Kept
          /\ row[n].canonical \in Same(n)
          /\ \A m \in Same(n) : row[m].canonical \in {NULL, row[n].canonical}
          /\ row[row[n].canonical].canonical = row[n].canonical
    /\ \A n \in Regular \cap Hashed \cap Kept :
          row[n].phase \notin Undeduped /\ row[n].canonical = NULL
             => "dedupError" \in row[n].flags

\* Names that the inventory has no row for have vanished.
Walked ==
    /\ pc = "walk" => /\ \A n \in Listed : row[n].flags = {}
                      /\ \A n \in Names \ todo : n \in Listed \cup gone
    /\ meta.phase \notin {"none", "inventory"} \/ (at = "inventory" /\ Over)
          => Names \ Listed \subseteq gone

\* The filter of this run is through.
Filtered ==
    \/ meta.phase \in {"dedup", "sparsify", "stage", "archive", "done"}
    \/ world.eager /\ meta.phase = "hash"
    \/ at = "filter" /\ Over

Standing == Flagged("linkCanonical")

\* The names of an inode agree on having a digest; one name stands for the
\* inode, and once the filter is through it is a kept one.
OneName ==
    world.detect =>
      /\ \A n \in Listed, m \in Listed :
            world.inode[m] = world.inode[n] => (m \in Hashed <=> n \in Hashed)
      /\ meta.phase \notin {"none", "inventory"} \/ (at = "inventory" /\ Over) =>
            \A n \in Listed : \E m \in Listed : SameInode(n) \cap Standing = {m}
      /\ Filtered =>
            \A n \in Kept : \E m \in Kept : SameInode(n) \cap Standing = {m}

\* What the pool of hash has taken is what stands for an inode.
HashPool ==
    /\ meta.phase = "inventory" \/ (meta.phase = "filter" /\ world.eager) => hashQueue = {}
    /\ meta.phase = "hash" => /\ hashQueue \subseteq Listed
                              /\ world.detect => hashQueue \subseteq Standing
    /\ at = "hash" /\ pc = "pool" =>
         /\ waiting \cup reading \cup Answered \subseteq pulled
         /\ pulled \subseteq hashQueue
         /\ waiting \cap reading = {} /\ (waiting \cup reading) \cap Answered = {}
         /\ \A a \in answers, b \in answers : a[1] = b[1] => a = b
         /\ \A n \in Names : <<n, "failed">> \in answers => n \in gone

\* A row that says HasSparse has a finished copy; the pool of sparsify holds
\* rows that have no copy yet.
Copies ==
    /\ \A n \in Flagged("hasSparse") : sparse[n] = "whole"
    /\ at = "sparsify" /\ pc = "pool" =>
         /\ waiting \cup reading \cup Answered \subseteq pulled \cap In("deduped")
         /\ waiting \cap reading = {} /\ (waiting \cup reading) \cap Answered = {}
         /\ \A a \in answers, b \in answers : a[1] = b[1] => a = b
         /\ \A n \in Names : <<n, "ok">> \in answers => sparse[n] = "whole"

LinkRight(n) == link[n] = IF "hasSparse" \in row[n].flags THEN "sparse" ELSE "source"

\* A link is right before the row says staged.
Links ==
    /\ \A n \in Candidate \cap Hashed :
          row[n].phase \in {"staged", "archived"} => LinkRight(n)
    /\ pc \in {"link", "apply"} => at = "stage"
    /\ pc = "link" => todo \subseteq In("sparsified")
    /\ pc \in {"link", "apply"} =>
          /\ In("sparsified") \subseteq Candidate \cap Hashed
          /\ \A n \in Names : <<n, "ok">> \in answers =>
                LinkRight(n) /\ row[n].phase = "sparsified"

\* What the battery has checked stays so.
Checked ==
    /\ meta.phase \in {"sparsify", "stage", "archive", "done"}
         \/ (at = "dedup" /\ pc = "advance") => A1
    /\ meta.phase = "done" \/ (at = "archive" /\ pc = "advance") => A7

IInv ==
    /\ Typed /\ Control /\ InPhase /\ (\A n \in Names : RowSound(n)) /\ Canonicals
    /\ Walked /\ OneName /\ HashPool /\ Copies /\ Links /\ Checked

\* What WorkStands says of one step; and what is shown of every step.
Stands ==
    meta'.phase # "none" =>
        \A n \in Listed :
           LET old == row[n] new == row'[n]
           IN /\ Position(new.phase) >= Position(old.phase)
              /\ old.verdict # "unset" => new.verdict = old.verdict
              /\ old.sha => new.sha
              /\ old.canonical # NULL => new.canonical = old.canonical
              /\ old.stored => new.stored
              /\ old.flags \ {"linkCanonical"} \subseteq new.flags
Sound == IInv' /\ Stands

-----------------------------------------------------------------------------
(* Lemmas.                                                                  *)

\* The fields of a world, and what the names of an inode have in common.
LEMMA WorldTyped ==
    ASSUME IInv
    PROVE  /\ world \in World
           /\ world.inode \in [Names -> Names] /\ world.content \in [Names -> Names]
           /\ world.regular \subseteq Names /\ world.fragile \subseteq Names
           /\ world.eager \in BOOLEAN /\ world.detect \in BOOLEAN
           /\ \A m \in Names, n \in Names : world.inode[m] = world.inode[n] =>
                 (m \in world.regular <=> n \in world.regular)
BY CatalogueAssumption DEF IInv, Typed, TypeOK, World

\* The sets that the statements select from are sets of names.
LEMMA Within ==
    /\ Listed \subseteq Names /\ Regular \subseteq Names /\ Hashed \subseteq Names
    /\ Kept \subseteq Names /\ Standing \subseteq Names /\ Candidate \subseteq Names
    /\ Regular \subseteq Listed /\ Candidate \subseteq Regular \cap Kept
BY DEF Listed, Regular, Hashed, Kept, Standing, Flagged, Candidate

\* A row that gets a flag and a phase.
LEMMA FlaggingRow ==
    ASSUME NEW r \in Row, NEW f \in Flag, NEW p \in RowPhase
    PROVE  /\ Flagging(f, p, r) \in Row
           /\ Flagging(f, p, r).phase = p /\ Flagging(f, p, r).flags = r.flags \cup {f}
           /\ Flagging(f, p, r).sha = r.sha /\ Flagging(f, p, r).verdict = r.verdict
           /\ Flagging(f, p, r).canonical = r.canonical
           /\ Flagging(f, p, r).stored = r.stored
BY DEF Row, Flagging

\* A row that the filter has passed its verdict on.
Judged(v, r) == [r EXCEPT !.phase = "filtered", !.verdict = v]
LEMMA FilteredRow ==
    ASSUME NEW r \in Row, NEW v \in {"in", "out"}
    PROVE  /\ Judged(v, r) \in Row
           /\ Judged(v, r).phase = "filtered" /\ Judged(v, r).verdict = v
           /\ Judged(v, r).flags = r.flags /\ Judged(v, r).sha = r.sha
           /\ Judged(v, r).canonical = r.canonical /\ Judged(v, r).stored = r.stored
BY DEF Row, RowPhase, Judged

\* What says something of a name is in the row of that name.
LEMMA OnlyRows ==
    ASSUME IInv
    PROVE  Kept \subseteq Listed /\ Hashed \subseteq Listed /\ Standing \subseteq Listed
BY DEF IInv, RowSound, Listed, Kept, Hashed, Standing, Flagged

\* A set of names that is not empty has a least one.
LEMMA LeastIn ==
    ASSUME NEW S \in SUBSET Names, S # {}
    PROVE  LeastOf(S) \in S
<1> DEFINE R == {ss \in Nat \X Nat : ss[1] < ss[2]}
<1>1. IsWellFoundedOn(R, Nat)
    BY NatLessThanWellFounded, Zenon DEF OpToRel
<1>2. S \subseteq Nat
    BY CatalogueAssumption
<1> HIDE DEF R
<1>3. PICK x \in S : \A y \in S : ~ (<<y, x>> \in R)
    BY <1>1, <1>2, WFMin, Zenon
<1>4. \A y \in S : ~ (y < x)
    BY <1>2, <1>3 DEF R
<1>5. \A y \in S : x <= y
    BY <1>2, <1>4
<1> QED BY <1>5 DEF LeastOf

\* Each phase finds the rows as the one before it has left them.
LEMMA PhasesFit ==
    ASSUME NEW p \in Phase, p # "done"
    PROVE  NextPhase(p) \in Phase /\ Found(NextPhase(p)) = Left(p)
BY DEF Phase, NextPhase, Found, Left, BeforeHash, BeforeFilter, BeforeDedup

\* Statements that leave digests, verdicts and the flag of hard links alone.
LEMMA SetsStay ==
    ASSUME UNCHANGED world,
           \A n \in Names :
              /\ row'[n].phase = "none" <=> row[n].phase = "none"
              /\ row'[n].sha = row[n].sha /\ row'[n].verdict = row[n].verdict
              /\ "linkCanonical" \in row'[n].flags <=> "linkCanonical" \in row[n].flags
    PROVE  /\ Listed' = Listed /\ Regular' = Regular /\ Hashed' = Hashed /\ Kept' = Kept
           /\ Standing' = Standing
<1>1. Listed' = Listed /\ Hashed' = Hashed /\ Kept' = Kept /\ Standing' = Standing
    BY DEF Listed, Hashed, Kept, Standing, Flagged
<1> QED BY <1>1 DEF Regular

\* Steps that at most take rows out of the channel of a pool.
LEMMA PoolsStay ==
    ASSUME HashPool, Copies,
           UNCHANGED <<world, row, meta, hashQueue, sparse, at, pc, pulled, reading, answers, gone>>,
           waiting' \subseteq waiting
    PROVE  HashPool' /\ Copies'
<1>1. Listed' = Listed /\ Standing' = Standing /\ Answered' = Answered
    BY DEF Listed, Standing, Flagged, Answered
<1>2. \A p \in RowPhase : In(p)' = In(p)
    BY DEF In
<1>3. "deduped" \in RowPhase
    BY DEF RowPhase
<1>4. Flagged("hasSparse")' = Flagged("hasSparse") /\ In("deduped")' = In("deduped")
    BY <1>2, <1>3 DEF Flagged
<1>5. HashPool'
    BY <1>1 DEF HashPool
<1>6. Copies'
    BY <1>1, <1>4 DEF Copies
<1> QED BY <1>5, <1>6

\* Statements that set nothing but a phase.
LEMMA PhaseOnly ==
    ASSUME IInv, NEW S \in SUBSET Listed, NEW p \in RowPhase, p # "none",
           UNCHANGED world,
           row' = [n \in Names |-> IF n \in S THEN [row[n] EXCEPT !.phase = p] ELSE row[n]]
    PROVE  /\ row' \in [Names -> Row]
           /\ \A n \in Names :
                 /\ row'[n].phase = IF n \in S THEN p ELSE row[n].phase
                 /\ row'[n].flags = row[n].flags
                 /\ row'[n].sha = row[n].sha
                 /\ row'[n].verdict = row[n].verdict
                 /\ row'[n].canonical = row[n].canonical
                 /\ row'[n].stored = row[n].stored
           /\ Listed' = Listed
           /\ Regular' = Regular
           /\ Hashed' = Hashed
           /\ Kept' = Kept
           /\ Standing' = Standing
           /\ Candidate' = Candidate
<1>1. row \in [Names -> Row]
    BY DEF IInv, Typed, TypeOK
<1>2. row' \in [Names -> Row]
    BY <1>1 DEF Row
<1>3. \A n \in Names :
         /\ row'[n].phase = IF n \in S THEN p ELSE row[n].phase
         /\ row'[n].flags = row[n].flags /\ row'[n].sha = row[n].sha
         /\ row'[n].verdict = row[n].verdict
         /\ row'[n].canonical = row[n].canonical /\ row'[n].stored = row[n].stored
    BY <1>1
<1>4. \A n \in S : row[n].phase # "none"
    BY DEF Listed
<1>5. /\ Listed' = Listed /\ Regular' = Regular /\ Hashed' = Hashed /\ Kept' = Kept
      /\ Standing' = Standing
    BY <1>4, SetsStay
<1>6. Candidate' = Candidate
    BY <1>3, <1>5, Within DEF Candidate
<1> QED BY <1>2, <1>3, <1>5, <1>6

\* Every name of an inode has the same names beside it.
LEMMA InodeClass ==
    ASSUME NEW n \in Listed, NEW m \in SameInode(n)
    PROVE  m \in Listed /\ n \in SameInode(n) /\ SameInode(m) = SameInode(n)
BY DEF SameInode

\* Rows move on to where the phase of the run leaves them.
LEMMA StandsWhen ==
    ASSUME IInv,
           \A n \in Listed :
              /\ row'[n].phase \in {row[n].phase, Left(meta.phase)}
              /\ row[n].verdict # "unset" => row'[n].verdict = row[n].verdict
              /\ row[n].sha => row'[n].sha
              /\ row[n].canonical # NULL => row'[n].canonical = row[n].canonical
              /\ row[n].stored => row'[n].stored
              /\ row[n].flags \ {"linkCanonical"} \subseteq row'[n].flags
    PROVE  Stands
<1>1. \A p \in RowPhase : Position(p) \in Nat
    BY DEF RowPhase, Position
<1>2. meta.phase \in Phase => Position(Left(meta.phase)) >= Position(Found(meta.phase))
    BY DEF Left, Found, BeforeHash, BeforeFilter, BeforeDedup, Position
<1>3. Listed # {} => meta.phase \in Phase
    BY DEF IInv, Control, Typed, TypeOK
<1>4. \A n \in Listed : /\ row[n].phase \in RowPhase
                        /\ row[n].phase \in {Found(meta.phase), Left(meta.phase)}
    BY DEF IInv, InPhase, Typed, TypeOK, Row, Listed
<1>5. \A n \in Listed : Position(row'[n].phase) >= Position(row[n].phase)
    <2> SUFFICES ASSUME NEW n \in Listed
                 PROVE  Position(row'[n].phase) >= Position(row[n].phase)
        OBVIOUS
    <2>1. CASE row'[n].phase = row[n].phase
        BY <1>1, <1>4, <2>1
    <2>2. CASE row[n].phase = Found(meta.phase) /\ row'[n].phase = Left(meta.phase)
        BY <1>2, <1>3, <2>2
    <2> QED BY <1>4, <2>1, <2>2
<1> QED BY <1>5 DEF Stands

\* Steps that have nothing to do with the rows.
LEMMA RowsStay ==
    ASSUME IInv, UNCHANGED <<world, row, gone, meta>>
    PROVE  (\A n \in Names : RowSound(n))' /\ Canonicals' /\ Stands
<1>1. (\A n \in Names : RowSound(n))'
    BY DEF IInv, RowSound, Verdict, Unfiltered, Unhashed
<1>2. Canonicals'
    BY DEF IInv, Canonicals, Regular, Hashed, Kept, Same, Listed
<1>3. Stands
    BY StandsWhen
<1> QED BY <1>1, <1>2, <1>3

\* A process that ends leaves the database, the stage and the archive file as
\* they are.
LEMMA ExitSound ==
    ASSUME IInv, NEW how, Exit(how), UNCHANGED <<world, row, hashQueue, meta, files, launches>>,
           sparseQueue' \in {sparseQueue, {}},
           shutdown' = shutdown
    PROVE  Sound
<1> USE DEF Exit, files
<1>1. Typed'
    BY DEF IInv, Typed, TypeOK, Steps, Phase
<1>2. Control'
    BY DEF IInv, Control, PoolEmpty, Listed
<1>3. InPhase'
    BY DEF IInv, InPhase, Control, Over, Listed, In, Hashable, Found, Left, BeforeHash,
       BeforeFilter, BeforeDedup
<1>4. (\A n \in Names : RowSound(n))' /\ Canonicals' /\ Stands
    BY RowsStay
<1>5. Walked' /\ OneName'
    BY DEF IInv, Walked, OneName, Filtered, Over, Listed, SameInode, Hashed, Standing, Flagged,
       Kept
<1>6. HashPool' /\ Copies'
    BY DEF IInv, HashPool, Copies, Listed, Standing, Flagged
<1>7. Links' /\ Checked'
    BY DEF IInv, Links, Checked, LinkRight, Candidate, Regular, Hashed, Kept, Listed, A1, A7,
       Flagged
<1> QED BY <1>1, <1>2, <1>3, <1>4, <1>5, <1>6, <1>7 DEF IInv, Sound

\* Without a database there is little to say.
LEMMA EmptySound ==
    ASSUME Typed', \A n \in Names : row'[n].phase = "none" /\ RowSound(n)',
           hashQueue' = {}, meta'.phase = "none", PoolEmpty',
           \/ pc' \in {"off", "save"} /\ at' = "inventory"
           \/ pc' = "remove"
    PROVE  Sound
<1>1. /\ Listed' = {} /\ Regular' = {} /\ Hashed' = {} /\ Kept' = {} /\ Standing' = {}
      /\ Candidate' = {} /\ Flagged("hasSparse")' = {}
      /\ \A p : p # "none" => In(p)' = {}
      /\ \A n \in Names : row'[n].canonical = NULL
    <2>1. \A n \in Names : /\ row'[n].phase = "none" /\ row'[n].flags = {} /\ ~ row'[n].sha
                           /\ row'[n].verdict = "unset" /\ row'[n].canonical = NULL
        BY DEF RowSound
    <2>2. Listed' = {} /\ Hashed' = {} /\ Kept' = {} /\ Standing' = {}
        BY <2>1 DEF Listed, Hashed, Kept, Standing, Flagged
    <2>3. Flagged("hasSparse")' = {}
        BY <2>1 DEF Flagged
    <2>4. \A p : p # "none" => In(p)' = {}
        BY <2>1 DEF In
    <2>5. Regular' = {}
        BY <2>2 DEF Regular
    <2>6. Candidate' = {}
        BY <2>5 DEF Candidate
    <2> QED BY <2>1, <2>2, <2>3, <2>4, <2>5, <2>6
<1>2. Control'
    BY <1>1 DEF Control
<1>3. InPhase'
    BY <1>1 DEF InPhase, Over
<1>4. Canonicals'
    BY <1>1 DEF Canonicals
<1>5. Walked' /\ OneName'
    BY <1>1 DEF Walked, OneName, Over, Filtered
<1>6. HashPool' /\ Copies'
    BY <1>1 DEF HashPool, Copies
<1>7. Links'
    BY <1>1 DEF Links
<1>8. Checked'
    BY DEF Checked
<1> QED BY <1>1, <1>2, <1>3, <1>4, <1>5, <1>6, <1>7, <1>8 DEF IInv, Sound, Stands
-----------------------------------------------------------------------------
(* The invariant, action by action.                                         *)

LEMMA CreateSound == ASSUME IInv, Create PROVE Sound
<1> USE DEF queue, files, pool, Create, Launched, Incomplete
<1>1. Typed'
    BY CatalogueAssumption DEF IInv, Typed, TypeOK, Steps, Phase, Listed, In, Hashed, Row,
       RowPhase, Flag, Result
<1>2. Control'
    BY <1>1 DEF IInv, Control, Typed, TypeOK, PoolEmpty, Listed
<1>3. InPhase'
    BY <1>1 DEF IInv, Control, InPhase, Typed, TypeOK, Over, Found, Left, Listed, In, Hashable,
       BeforeHash, BeforeFilter, BeforeDedup, Regular, Flagged, Kept
<1>4. (\A n \in Names : RowSound(n))' /\ Canonicals' /\ Stands
    BY RowsStay
<1>5. Walked'
    BY <1>1 DEF IInv, Control, Walked, Typed, TypeOK, Over, Listed
<1>6. OneName'
    BY <1>1 DEF IInv, Control, Typed, TypeOK, OneName, Filtered, Over, SameInode, Listed,
       Standing, Flagged, Kept, Hashed
<1>7. HashPool'
    BY <1>1 DEF Control, Typed, TypeOK, HashPool, Over, Answered, PoolEmpty, Listed, Standing,
       Flagged
<1>8. Copies'
    BY <1>1 DEF IInv, Control, Typed, TypeOK, Copies, RowSound, Undeduped, Answered, PoolEmpty,
       Listed, Flagged, In
<1>9. Links'
    BY <1>1 DEF IInv, Control, InPhase, Typed, TypeOK, Links, LinkRight, Found, Left,
       Candidate, Stageable, PoolEmpty, Regular, Hashed, Kept, Listed, In
<1>10. Checked'
    BY <1>1 DEF IInv, Control, InPhase, Typed, TypeOK, Checked, A1, A7, Regular, Hashed, Kept,
       Listed, Flagged
<1> QED BY <1>1, <1>2, <1>3, <1>4, <1>5, <1>6, <1>7, <1>8, <1>9, <1>10 DEF IInv, Sound

LEMMA FreshSound == ASSUME IInv, Fresh PROVE Sound
<1>1. /\ pc = "off" /\ pc' = "save" /\ at' = "inventory" /\ PoolEmpty'
      /\ row' = [n \in Names |-> NoRow] /\ hashQueue' = {} /\ meta'.phase = "none"
    BY DEF Fresh, Launched, RemoveDatabase, IInv, Control, PoolEmpty, pool
<1>a. row' \in [Names -> Row]
    BY <1>1 DEF NoRow, Row, RowPhase
<1>2. Typed'
    <2>1. /\ meta' \in [phase: Phase \cup {"none"}, config: BOOLEAN,
                        rules: {"none", "includes", "all"}]
          /\ sparseQueue' = {}
        BY DEF Fresh, RemoveDatabase
    <2>2. /\ sparse' \in [Names -> {"none", "partial", "whole"}]
          /\ link' \in [Names -> {"none", "source", "sparse"}]
        BY DEF Fresh, RemoveStage
    <2>3. tape' \in [ours: BOOLEAN, older: BOOLEAN, footer: BOOLEAN]
        BY DEF Fresh, IInv, Typed, TypeOK
    <2>4. launches' \in 0..MaxLaunches
        BY CatalogueAssumption DEF Fresh, Launched, IInv, Typed, TypeOK
    <2> QED BY <1>1, <1>a, <2>1, <2>2, <2>3, <2>4 DEF Fresh, Launched, IInv, Typed, TypeOK, Steps, pool
<1>3. \A n \in Names : row'[n].phase = "none" /\ RowSound(n)'
    BY <1>1 DEF NoRow, RowSound, Undeduped, Unfiltered, Unhashed, Errors
<1> QED BY <1>1, <1>2, <1>3, EmptySound

LEMMA ResumeSound == ASSUME IInv, Resume PROVE Sound
<1> USE DEF queue, files, pool, Resume, Launched, Incomplete
<1>1. Typed'
    BY CatalogueAssumption DEF IInv, Typed, TypeOK, Steps, Phase, Listed, In, Hashed, Row,
       RowPhase, Flag, Result
<1>2. Control'
    BY <1>1 DEF IInv, Control, Typed, TypeOK, PoolEmpty, Listed
<1>3. InPhase'
    BY <1>1 DEF IInv, Control, InPhase, Typed, TypeOK, Over, Found, Left, Listed, In, Hashable,
       BeforeHash, BeforeFilter, BeforeDedup, Regular, Flagged, Kept
<1>4. (\A n \in Names : RowSound(n))' /\ Canonicals' /\ Stands
    BY RowsStay
<1>5. Walked'
    BY <1>1 DEF IInv, Control, Walked, Typed, TypeOK, Over, Listed
<1>6. OneName'
    BY <1>1 DEF IInv, Control, Typed, TypeOK, OneName, Filtered, Over, SameInode, Listed,
       Standing, Flagged, Kept, Hashed
<1>7. HashPool'
    BY <1>1 DEF IInv, Control, Typed, TypeOK, HashPool, Over, Answered, PoolEmpty, Listed,
       Standing, Flagged
<1>8. Copies'
    BY <1>1 DEF IInv, Control, Typed, TypeOK, Copies, RowSound, Undeduped, Answered, PoolEmpty,
       Listed, Flagged, In
<1>9. Links'
    BY <1>1 DEF IInv, Control, InPhase, Typed, TypeOK, Links, LinkRight, Found, Left,
       Candidate, Stageable, PoolEmpty, Regular, Hashed, Kept, Listed, In
<1>10. Checked'
    BY <1>1 DEF IInv, Control, InPhase, Typed, TypeOK, Checked, A1, A7, Regular, Hashed, Kept,
       Listed, Flagged
<1> QED BY <1>1, <1>2, <1>3, <1>4, <1>5, <1>6, <1>7, <1>8, <1>9, <1>10 DEF IInv, Sound

LEMMA PrepareSound == ASSUME IInv, Prepare PROVE Sound
<1> USE DEF queue, files, pool, Prepare
<1>1. Typed'
    <2>1. /\ meta.config \in BOOLEAN /\ meta.phase \in Phase \cup {"none"}
          /\ meta \in [phase: Phase \cup {"none"}, config: BOOLEAN,
                       rules: {"none", "includes", "all"}]
        BY DEF IInv, Typed, TypeOK
    <2>2. /\ meta' \in [phase: Phase \cup {"none"}, config: BOOLEAN,
                        rules: {"none", "includes", "all"}]
          /\ pc' \in Steps
        BY <2>1 DEF Phase, Steps
    <2> QED BY <2>2 DEF IInv, Typed, TypeOK
<1>2. Control'
    BY <1>1 DEF IInv, Control, Typed, TypeOK, PoolEmpty, Listed
<1>3. InPhase'
    BY <1>1 DEF IInv, Control, InPhase, Typed, TypeOK, Over, Found, Left, Listed, In, Hashable,
       BeforeHash, BeforeFilter, BeforeDedup, Regular, Flagged, Kept
<1>4. (\A n \in Names : RowSound(n))'
    BY <1>1 DEF IInv, Control, InPhase, Typed, TypeOK, Over, Found, Left, RowSound, Unfiltered,
       Unhashed, Undeduped, Verdict, Errors, Listed, In, BeforeHash, BeforeFilter, BeforeDedup
<1>5. Canonicals'
    BY <1>1 DEF IInv, Control, InPhase, Typed, TypeOK, RowSound, Canonicals, Undeduped, Same,
       Found, Left, Listed, In, Regular, Hashed, Kept
<1>6. Walked'
    BY <1>1 DEF IInv, Control, Walked, Typed, TypeOK, Over, Listed
<1>7. OneName'
    BY <1>1 DEF IInv, Control, Typed, TypeOK, OneName, Filtered, Over, SameInode, Listed,
       Standing, Flagged, Kept, Hashed
<1>8. HashPool'
    BY <1>1 DEF IInv, Control, Typed, TypeOK, HashPool, Over, Answered, PoolEmpty, Listed,
       Standing, Flagged
<1>9. Copies'
    BY <1>1 DEF IInv, Control, Typed, TypeOK, Copies, RowSound, Undeduped, Answered, PoolEmpty,
       Listed, Flagged, In
<1>10. Links'
    BY <1>1 DEF IInv, Control, InPhase, Typed, TypeOK, Links, LinkRight, Found, Left,
       Candidate, Stageable, PoolEmpty, Regular, Hashed, Kept, Listed, In
<1>11. Checked'
    BY <1>1 DEF IInv, Control, InPhase, Typed, TypeOK, Checked, A1, A7, Regular, Hashed, Kept,
       Listed, Flagged
<1>12. Stands
    BY StandsWhen DEF Control, Left, Undeduped
<1> QED BY <1>1, <1>2, <1>3, <1>4, <1>5, <1>6, <1>7, <1>8, <1>9, <1>10, <1>11, <1>12 DEF IInv, Sound

LEMMA EnterPhaseSound == ASSUME IInv, EnterPhase PROVE Sound
<1> USE DEF queue, files, pool, EnterPhase, Exit
<1>1. Typed'
    BY DEF IInv, Typed, TypeOK, Steps, Phase, Listed, In, Hashed, Row, RowPhase, Flag, Result
<1>2. Control'
    BY <1>1 DEF IInv, Control, Typed, TypeOK, PoolEmpty, Listed
<1>3. InPhase'
    BY <1>1 DEF IInv, Control, InPhase, Typed, TypeOK, Over, Found, Left, Listed, In, Hashable,
       BeforeHash, BeforeFilter, BeforeDedup, Regular, Flagged, Kept
<1>4. (\A n \in Names : RowSound(n))' /\ Canonicals' /\ Stands
    BY RowsStay
<1>5. Walked'
    BY <1>1 DEF IInv, Control, Walked, Typed, TypeOK, Over, Listed
<1>6. OneName'
    BY <1>1 DEF IInv, Control, Typed, TypeOK, OneName, Filtered, Over, SameInode, Listed,
       Standing, Flagged, Kept, Hashed
<1>7. HashPool'
    BY <1>1 DEF IInv, Control, Typed, TypeOK, HashPool, Over, Answered, PoolEmpty, Listed,
       Standing, Flagged
<1>8. Copies'
    BY <1>1 DEF IInv, Control, Typed, TypeOK, Copies, RowSound, Undeduped, Answered, PoolEmpty,
       Listed, Flagged, In
<1>9. Links'
    BY <1>1 DEF IInv, Control, InPhase, Typed, TypeOK, Links, LinkRight, Found, Left,
       Candidate, Stageable, PoolEmpty, Regular, Hashed, Kept, Listed, In
<1>10. Checked'
    BY <1>1 DEF IInv, Control, InPhase, Typed, TypeOK, Checked, A1, A7, Regular, Hashed, Kept,
       Listed, Flagged
<1> QED BY <1>1, <1>2, <1>3, <1>4, <1>5, <1>6, <1>7, <1>8, <1>9, <1>10 DEF IInv, Sound

\* After hash it is A1 that shows that no row was left behind.
LEMMA VerifyAfterPhaseSound == ASSUME IInv, VerifyAfterPhase PROVE Sound
<1> SUFFICES ASSUME ~ Exit("panic") PROVE Sound
    <2>1. CASE Exit("panic")
        BY <2>1, ExitSound DEF VerifyAfterPhase, queue, files, Exit
    <2> QED BY <2>1
<1>c. /\ UNCHANGED <<world, row, queue, meta, files, shutdown, launches, at, todo, pool>>
      /\ Battery /\ pc = "verify" /\ pc' = "advance" /\ at = meta.phase /\ at # "done"
    BY DEF VerifyAfterPhase, IInv, Control
<1> USE DEF queue, files, pool
<1>a. /\ Listed' = Listed /\ Regular' = Regular /\ Hashed' = Hashed /\ Kept' = Kept
      /\ Standing' = Standing /\ Candidate' = Candidate
      /\ \A n \in Names : SameInode(n)' = SameInode(n)
    BY <1>c DEF Listed, Regular, Hashed, Kept, Standing, Flagged, Candidate, SameInode
<1>1. Typed'
    BY Within, <1>a, <1>c DEF IInv, Typed, TypeOK, Steps
<1>2. Control'
    BY <1>1, Within, <1>a, <1>c DEF IInv, Control, PoolEmpty, Typed, TypeOK
<1>3. InPhase'
    <2>1. ASSUME at = "hash", NEW n \in Listed, row[n].phase = BeforeHash PROVE FALSE
        <3>1. n \in Hashable
            BY <1>c, <2>1, Within DEF IInv, InPhase, In
        <3>2. n \notin Hashed /\ n \notin Flagged("hashError")
            BY <2>1, Within DEF IInv, RowSound, Unhashed, BeforeHash, Hashed, Flagged
        <3> QED BY <1>c, <2>1, <3>1, <3>2 DEF Battery, A1, Hashable
    <2>2. \A n \in Listed : row[n].phase = Left(at)
        BY <1>c, <2>1 DEF IInv, InPhase, Over, Found, Left
    <2> QED BY <1>a, <1>c, <2>2 DEF InPhase, Over, Found, Left, BeforeHash, BeforeFilter, BeforeDedup,
       In, Listed
<1>4. (\A n \in Names : RowSound(n))' /\ Canonicals' /\ Stands
    BY <1>a, <1>c, RowsStay
<1>5. Walked'
    BY <1>1, Within, <1>a, <1>c DEF IInv, Control, Walked, Over
<1>6. OneName'
    BY <1>1, Within, <1>a, <1>c DEF IInv, Control, OneName, Filtered, Over, SameInode
<1>7. HashPool'
    BY <1>1, Within, <1>a, <1>c DEF IInv, Control, HashPool, Answered, PoolEmpty
<1>8. Copies'
    BY <1>1, Within, <1>a, <1>c DEF IInv, Control, Copies, Answered, PoolEmpty, Flagged, In
<1>9. Links'
    BY <1>1, Within, <1>a, <1>c DEF IInv, Control, Links, LinkRight, PoolEmpty, In
<1>10. Checked'
    BY <1>1, Within, <1>a, <1>c DEF Control, Checked, A1, A7, Flagged, Battery
<1> QED BY <1>1, <1>2, <1>3, <1>4, <1>5, <1>6, <1>7, <1>8, <1>9, <1>10 DEF IInv, Sound

\* The rows are where the phase that ends leaves them, which is where the next
\* one finds them (PhasesFit).
LEMMA AdvanceSound == ASSUME IInv, Advance PROVE Sound
<1>c. /\ UNCHANGED <<world, row, queue, files, shutdown, launches>>
      /\ meta' = [meta EXCEPT !.phase = NextPhase(at)]
      /\ pc = "advance" /\ at = meta.phase /\ at \in Phase /\ at # "done"
      /\ PoolEmpty /\ PoolEmpty' /\ todo' \in {todo, {}}
      /\ \/ pc' = "loop" /\ at' = NextPhase(at)
         \/ pc' = "off" /\ at' = "inventory"
    BY DEF Advance, Exit, pool, IInv, Control, Typed, TypeOK, PoolEmpty
<1> USE DEF queue, files, pool
<1>p. PICK next \in Phase :
         /\ next = NextPhase(at)
         /\ \/ at = "inventory" /\ ~ world.eager /\ next = "hash"
            \/ at = "inventory" /\ world.eager /\ next = "filter"
            \/ at = "hash" /\ ~ world.eager /\ next = "filter"
            \/ at = "hash" /\ world.eager /\ next = "dedup"
            \/ at = "filter" /\ ~ world.eager /\ next = "dedup"
            \/ at = "filter" /\ world.eager /\ next = "hash"
            \/ at = "dedup" /\ next = "sparsify"
            \/ at = "sparsify" /\ next = "stage"
            \/ at = "stage" /\ next = "archive"
            \/ at = "archive" /\ next = "done"
    BY <1>c DEF Phase, NextPhase
<1>b. /\ meta' \in [phase: Phase \cup {"none"}, config: BOOLEAN,
                    rules: {"none", "includes", "all"}]
      /\ meta'.phase = next /\ meta'.rules = meta.rules
      /\ at' \in {next, "inventory"} /\ (pc' # "off" => at' = next)
    BY <1>c, <1>p DEF IInv, Typed, TypeOK, Phase
<1>d. /\ \A n \in Listed : row[n].phase = Left(at)
      /\ Found(next) = Left(at)
    BY <1>c, <1>p, PhasesFit DEF IInv, InPhase, Over
<1>a. /\ Listed' = Listed /\ Regular' = Regular /\ Hashed' = Hashed /\ Kept' = Kept
      /\ Standing' = Standing /\ Candidate' = Candidate
      /\ \A n \in Names : SameInode(n)' = SameInode(n)
      /\ Unfiltered' = Unfiltered /\ Unhashed' = Unhashed
      /\ \A n \in Names : Verdict(n)' = Verdict(n)
    BY <1>b, <1>c DEF Listed, Regular, Hashed, Kept, Standing, Flagged, Candidate, SameInode,
       Unfiltered, Unhashed, Verdict
<1>1. Typed'
    BY Within, <1>a, <1>b, <1>c, <1>d, <1>p DEF IInv, Typed, TypeOK, Steps, Phase, PoolEmpty
<1>2. Control'
    BY <1>1, Within, <1>a, <1>b, <1>c, <1>d, <1>p DEF IInv, Control, PoolEmpty, Typed, TypeOK
<1>3. InPhase'
    <2>1. \A p \in Phase : Found(p)' = Found(p)
        BY <1>c DEF Found, BeforeHash, BeforeFilter, BeforeDedup
    <2>2. Found(meta.phase)' = Left(at)
        BY <1>b, <1>d, <2>1
    <2>3. (\A n \in Listed : row[n].phase \in {Found(meta.phase), Left(meta.phase)})'
        BY <1>a, <1>c, <1>d, <2>2
    <2>4. next = "dedup" => \A n \in Listed : row[n].phase # "deduped"
        BY <1>d DEF Found, BeforeDedup
    <2>5. next = "dedup" => In("deduped")' = {}
        BY <1>c, <2>4 DEF In, Listed
    <2> QED BY <1>a, <1>b, <1>c, <2>3, <2>5 DEF InPhase, Over
<1>4. (\A n \in Names : RowSound(n))'
    BY Within, <1>a, <1>b, <1>c DEF IInv, RowSound
<1>5. Canonicals'
    BY <1>1, Within, <1>a, <1>b, <1>c, <1>d, <1>p DEF IInv, Control, Canonicals, Undeduped,
       Same
<1>6. Walked'
    BY <1>1, Within, <1>a, <1>b, <1>c, <1>d, <1>p DEF IInv, Control, Walked, Over
<1>7. OneName'
    BY <1>1, Within, <1>a, <1>b, <1>c, <1>d, <1>p DEF IInv, Control, OneName, Filtered, Over,
       SameInode
<1>8. HashPool'
    BY <1>1, Within, <1>a, <1>b, <1>c, <1>d, <1>p DEF IInv, Control, HashPool, Answered,
       PoolEmpty
<1>9. Copies'
    BY <1>1, Within, <1>a, <1>b, <1>c, <1>d, <1>p DEF IInv, Control, Copies, Answered,
       PoolEmpty, Flagged, In
<1>10. Links'
    BY <1>1, Within, <1>a, <1>b, <1>c, <1>d, <1>p DEF IInv, Control, Links, LinkRight,
       PoolEmpty, In
<1>11. Checked'
    BY <1>1, Within, <1>a, <1>b, <1>c, <1>d, <1>p DEF IInv, Control, Checked, A1, A7, Flagged
<1>12. Stands
    BY Within, <1>a, <1>b, <1>c, <1>d, <1>p, StandsWhen DEF Control, Left, Undeduped
<1> QED BY <1>1, <1>2, <1>3, <1>4, <1>5, <1>6, <1>7, <1>8, <1>9, <1>10, <1>11, <1>12 DEF IInv, Sound

\* The database goes first; a process that finds none has no phase to resume.
LEMMA CleanupSound == ASSUME IInv, Cleanup PROVE Sound
<1>1. CASE pc = "cleanup"
    <2>1. /\ pc' = "remove" /\ PoolEmpty' /\ row' = [n \in Names |-> NoRow]
          /\ hashQueue' = {} /\ meta'.phase = "none"
        BY <1>1 DEF Cleanup, RemoveDatabase, IInv, Control, PoolEmpty, pool
    <2>2. Typed'
        <3>1. row' \in [Names -> Row]
            BY <2>1 DEF NoRow, Row, RowPhase
        <3>2. meta' \in [phase: Phase \cup {"none"}, config: BOOLEAN,
                          rules: {"none", "includes", "all"}]
            <4>1. meta' = [phase |-> "none", config |-> FALSE, rules |-> "none"]
                BY <1>1 DEF Cleanup, RemoveDatabase
            <4> QED BY <4>1
        <3>3. sparseQueue' = {}
            BY <1>1 DEF Cleanup, RemoveDatabase
        <3> QED BY <1>1, <2>1, <3>1, <3>2, <3>3 DEF Cleanup, IInv, Typed, TypeOK, Steps, pool
    <2>3. \A n \in Names : row'[n].phase = "none" /\ RowSound(n)'
        BY <2>1 DEF NoRow, RowSound, Undeduped, Unfiltered, Unhashed, Errors
    <2> QED BY <2>1, <2>2, <2>3, EmptySound
<1>2. CASE pc = "remove"
    <2>1. /\ pc' = "off" /\ at' = "inventory" /\ PoolEmpty'
          /\ UNCHANGED <<world, gone, row, meta>>
          /\ hashQueue' = {} /\ meta'.phase = "none"
        BY <1>2 DEF Cleanup, Exit, IInv, Control, PoolEmpty, queue
    <2>2. Typed'
        BY <1>2, <2>1 DEF Cleanup, RemoveStage, Exit, IInv, Typed, TypeOK, Steps, Phase, queue
    <2>3. \A n \in Names : row[n].phase = "none"
        BY <1>2 DEF IInv, Control, Listed
    <2>4. \A n \in Names : row'[n].phase = "none" /\ RowSound(n)'
        BY <2>1, <2>3 DEF IInv, RowSound, Undeduped, Unfiltered, Unhashed, Errors, Verdict
    <2> QED BY <2>1, <2>2, <2>4, EmptySound
<1> QED BY <1>1, <1>2 DEF Cleanup

LEMMA StartInventorySound == ASSUME IInv, StartInventory PROVE Sound
<1> USE DEF queue, files, pool, StartInventory, Doing, Exit
<1>1. Typed'
    BY DEF IInv, Typed, TypeOK, Steps, Phase, Listed, In, Hashed, Row, RowPhase, Flag, Result
<1>2. Control'
    BY <1>1 DEF IInv, Control, Typed, TypeOK, PoolEmpty, Listed
<1>3. InPhase'
    BY <1>1 DEF IInv, Control, InPhase, Typed, TypeOK, Over, Found, Left, Listed, In, Hashable,
       BeforeHash, BeforeFilter, BeforeDedup, Regular, Flagged, Kept
<1>4. (\A n \in Names : RowSound(n))' /\ Canonicals' /\ Stands
    BY RowsStay
<1>5. Walked'
    BY <1>1 DEF IInv, Control, Walked, Typed, TypeOK, Over, Listed
<1>6. OneName'
    BY <1>1 DEF IInv, Control, Typed, TypeOK, OneName, Filtered, Over, SameInode, Listed,
       Standing, Flagged, Kept, Hashed
<1>7. HashPool'
    BY <1>1 DEF IInv, Control, Typed, TypeOK, HashPool, Over, Answered, PoolEmpty, Listed,
       Standing, Flagged
<1>8. Copies'
    BY <1>1 DEF IInv, Control, Typed, TypeOK, Copies, RowSound, Undeduped, Answered, PoolEmpty,
       Listed, Flagged, In
<1>9. Links'
    BY <1>1 DEF IInv, Control, InPhase, Typed, TypeOK, Links, LinkRight, Found, Left,
       Candidate, Stageable, PoolEmpty, Regular, Hashed, Kept, Listed, In
<1>10. Checked'
    BY <1>1 DEF IInv, Control, InPhase, Typed, TypeOK, Checked, A1, A7, Regular, Hashed, Kept,
       Listed, Flagged
<1> QED BY <1>1, <1>2, <1>3, <1>4, <1>5, <1>6, <1>7, <1>8, <1>9, <1>10 DEF IInv, Sound

\* A name that the walk passes by has vanished.
LEMMA WalkEntrySound == ASSUME IInv, WalkEntry PROVE Sound
<1> DEFINE x == LeastOf(todo)
<1> SUFFICES ASSUME ~ Exit("stopped"), ~ Exit("error") PROVE Sound
    <2>1. ASSUME NEW how, Exit(how) PROVE Sound
        <3>1. row' = row
            BY <2>1 DEF WalkEntry, Exit, Doing
        <3> QED BY <2>1, <3>1, ExitSound DEF WalkEntry, queue, files
    <2> QED BY <2>1
<1>c. /\ UNCHANGED <<world, queue, meta, files, pc, at, pool, shutdown, outcome, launches>>
      /\ at = "inventory" /\ pc = "walk" /\ meta.phase = "inventory"
      /\ PoolEmpty /\ PoolEmpty'
      /\ x \in todo /\ x \in Names /\ todo \subseteq Names /\ todo' = todo \ {x}
      /\ \/ row' = [row EXCEPT ![x] = To("inventoried", NoRow)]
         \/ row' = row /\ x \in gone
    <2>1. todo \in SUBSET Names /\ todo # {}
        BY DEF WalkEntry, IInv, Typed, TypeOK
    <2>2. x \in todo
        BY <2>1, LeastIn
    <2> QED BY <2>1, <2>2 DEF WalkEntry, Doing, IInv, Control, PoolEmpty, pool
<1> USE DEF queue, files, pool
<1> HIDE DEF x
<1>b. /\ row \in [Names -> Row] /\ NULL \notin Names
      /\ \A n \in Names :
            /\ row[n].phase \in {"none", "inventoried"}
            /\ row[n].flags = {}
            /\ ~ row[n].sha
            /\ row[n].verdict = "unset"
            /\ row[n].canonical = NULL
            /\ ~ row[n].stored
    <2>1. \A n \in Names : row[n].phase \in {"none", "inventoried"}
        BY <1>c DEF IInv, InPhase, Found, Left, Listed
    <2>2. \A n \in Names : row[n].flags = {}
        BY <1>c, <2>1 DEF IInv, Walked, RowSound, Listed
    <2>3. row \in [Names -> Row]
        BY DEF IInv, Typed, TypeOK
    <2>4. \A n \in Names : row[n] \in Row
        BY <2>3
    <2>5. "inventoried" \in Unfiltered /\ "inventoried" \in Unhashed
        BY DEF Unfiltered, Unhashed
    <2> QED BY <2>1, <2>2, <2>3, <2>4, <2>5, CatalogueAssumption DEF IInv, RowSound, Undeduped, Row
<1>e. /\ row' \in [Names -> Row]
      /\ \A n \in Names :
            /\ row'[n].phase \in {"none", "inventoried"}
            /\ row'[n].phase = "none" => row'[n].flags = {}
            /\ row'[n].flags \subseteq {"linkCanonical"}
            /\ ~ row'[n].sha
            /\ row'[n].verdict = "unset"
            /\ row'[n].canonical = NULL
            /\ ~ row'[n].stored
      /\ \A n \in Listed : row'[n].phase = "inventoried"
      /\ x \in Listed' \cup gone /\ Listed \subseteq Listed'
      /\ \A n \in Names : row'[n].flags = {}
    <2>1. /\ To("inventoried", NoRow).phase = "inventoried"
          /\ To("inventoried", NoRow).flags = {} /\ ~ To("inventoried", NoRow).sha
          /\ To("inventoried", NoRow).verdict = "unset"
          /\ To("inventoried", NoRow).canonical = NULL /\ ~ To("inventoried", NoRow).stored
        BY DEF To, NoRow
    <2>2. To("inventoried", NoRow) \in Row
        <3>1. NoRow \in Row
            BY DEF NoRow, Row, RowPhase
        <3> QED BY <3>1 DEF To, Row, RowPhase
    <2>3. CASE row' = row /\ x \in gone
        BY <1>b, <2>3 DEF Listed
    <2>4. CASE row' = [row EXCEPT ![x] = To("inventoried", NoRow)]
        <3>1. row' \in [Names -> Row]
            BY <1>b, <2>2, <2>4
        <3>2. \A n \in Names : row'[n] = IF n = x THEN To("inventoried", NoRow) ELSE row[n]
            BY <1>b, <2>4
        <3> QED BY <1>b, <1>c, <2>1, <3>1, <3>2 DEF Listed
    <2> QED BY <1>c, <2>3, <2>4
<1>a. /\ Hashed' = {} /\ Kept' = {} /\ Standing' = {} /\ Candidate' = {}
    <2>1. \A n \in Names : n \notin Kept' \cup Hashed' /\ n \notin Kept \cup Hashed
        BY <1>b, <1>e DEF Kept, Hashed
    <2>2. Kept' = {} /\ Hashed' = {} /\ Kept = {} /\ Hashed = {}
        BY <2>1 DEF Kept, Hashed
    <2>3. Candidate' = {}
        BY <2>2 DEF Candidate
    <2>4. Standing' = {}
        BY <1>e DEF Standing, Flagged
    <2> QED BY <2>2, <2>3, <2>4
<1>1. Typed'
    BY Within, <1>a, <1>b, <1>c, <1>e DEF IInv, Typed, TypeOK, Steps
<1>2. Control'
    BY <1>c DEF Control
<1>3. InPhase'
    <2>1. (\A n \in Listed : row[n].phase = "inventoried")'
        BY <1>e DEF Listed
    <2> QED BY <1>c, <2>1, <1>e DEF InPhase, Over, Found, Left
<1>4. (\A n \in Names : RowSound(n))'
    BY <1>b, <1>c, <1>e DEF RowSound, Undeduped, Unfiltered, Unhashed, Errors
<1>5. Canonicals'
    BY <1>a, <1>b, <1>e DEF Canonicals
<1>6. Walked'
    <2>1. \A n \in Names \ todo' : n \in Listed' \cup gone
        BY <1>c, <1>e DEF IInv, Walked
    <2>2. \A n \in Listed' : row'[n].flags = {}
        BY <1>e DEF Listed
    <2> QED BY <1>c, <2>1, <2>2 DEF Walked, Over
<1>7. OneName'
    BY <1>a, <1>c DEF OneName, Filtered, Over
<1>8. HashPool'
    BY <1>c DEF IInv, HashPool
<1>9. Copies'
    <2>1. Flagged("hasSparse")' = {}
        BY <1>e DEF Flagged
    <2> QED BY <1>c, <2>1 DEF Copies
<1>10. Links'
    BY <1>a, <1>c DEF Links
<1>11. Checked'
    BY <1>c DEF Checked
<1>12. Stands
    BY Within, <1>a, <1>b, <1>c, <1>e, StandsWhen DEF Control, Left, Undeduped
<1> QED BY <1>1, <1>2, <1>3, <1>4, <1>5, <1>6, <1>7, <1>8, <1>9, <1>10, <1>11, <1>12 DEF IInv, Sound

\* The least name of an inode stands for it.
LEMMA SetHardlinkCanonicalsSound == ASSUME IInv, SetHardlinkCanonicals PROVE Sound
<1>c. /\ UNCHANGED <<world, queue, meta, files, at, todo, pool, shutdown, outcome, launches>>
      /\ at = "inventory" /\ pc = "walk" /\ pc' = "verify" /\ meta.phase = "inventory"
      /\ todo = {} /\ PoolEmpty /\ PoolEmpty'
    BY DEF SetHardlinkCanonicals, Doing, IInv, Control, PoolEmpty, pool
<1> USE DEF queue, files, pool
<1> DEFINE S == {n \in Listed : world.detect /\ n = LeastOf(SameInode(n))}
<1>b. /\ row \in [Names -> Row] /\ NULL \notin Names
      /\ \A n \in Names :
            /\ row[n].phase \in {"none", "inventoried"}
            /\ row[n].flags = {}
            /\ ~ row[n].sha
            /\ row[n].verdict = "unset"
            /\ row[n].canonical = NULL
            /\ ~ row[n].stored
    <2>1. \A n \in Names : row[n].phase \in {"none", "inventoried"}
        BY <1>c DEF IInv, InPhase, Found, Left, Listed
    <2>2. \A n \in Names : row[n].flags = {}
        BY <1>c, <2>1 DEF IInv, Walked, RowSound, Listed
    <2>3. row \in [Names -> Row]
        BY DEF IInv, Typed, TypeOK
    <2>4. \A n \in Names : row[n] \in Row
        BY <2>3
    <2>5. "inventoried" \in Unfiltered /\ "inventoried" \in Unhashed
        BY DEF Unfiltered, Unhashed
    <2> QED BY <2>1, <2>2, <2>3, <2>4, <2>5, CatalogueAssumption DEF IInv, RowSound, Undeduped, Row
<1>e. /\ row' \in [Names -> Row]
      /\ \A n \in Names :
            /\ row'[n].phase = row[n].phase
            /\ row'[n].flags = IF n \in S THEN {"linkCanonical"} ELSE {}
            /\ row'[n].phase \in {"none", "inventoried"}
            /\ row'[n].phase = "none" => row'[n].flags = {}
            /\ row'[n].flags \subseteq {"linkCanonical"}
            /\ ~ row'[n].sha
            /\ row'[n].verdict = "unset"
            /\ row'[n].canonical = NULL
            /\ ~ row'[n].stored
    <2>1. row' = [n \in Names |-> IF n \in S
                    THEN [row[n] EXCEPT !.flags = @ \cup {"linkCanonical"}] ELSE row[n]]
        <3>1. CASE world.detect
            BY <3>1 DEF SetHardlinkCanonicals, Update
        <3>2. CASE ~ world.detect
            <4>1. row' = row /\ S = {}
                BY <3>2 DEF SetHardlinkCanonicals
            <4> QED BY <1>b, <4>1
        <3> QED BY <3>1, <3>2
    <2>2. S \subseteq Names /\ \A n \in S : row[n].phase # "none"
        BY DEF Listed
    <2> HIDE DEF S
    <2>3. \A n \in Names : row[n] \in Row
        BY <1>b
    <2>4. row' \in [Names -> Row]
        BY <2>1, <2>3 DEF Row, Flag
    <2>5. ASSUME NEW n \in Names
          PROVE  /\ row'[n].phase = row[n].phase /\ row'[n].sha = row[n].sha
                 /\ row'[n].verdict = row[n].verdict /\ row'[n].canonical = row[n].canonical
                 /\ row'[n].stored = row[n].stored
                 /\ row'[n].flags = IF n \in S THEN row[n].flags \cup {"linkCanonical"}
                                    ELSE row[n].flags
        BY <2>1, <2>3 DEF Row
    <2>6. ASSUME NEW n \in Names
          PROVE  /\ row'[n].flags = IF n \in S THEN {"linkCanonical"} ELSE {}
                 /\ row'[n].phase = row[n].phase /\ row[n].phase \in {"none", "inventoried"}
                 /\ n \in S => row[n].phase # "none"
                 /\ ~ row'[n].sha /\ row'[n].verdict = "unset"
                 /\ row'[n].canonical = NULL /\ ~ row'[n].stored
        BY <1>b, <2>2, <2>5
    <2>7. ASSUME NEW n \in Names
          PROVE  /\ row'[n].phase = "none" => row'[n].flags = {}
                 /\ row'[n].flags \subseteq {"linkCanonical"}
        BY <2>6
    <2> QED BY <2>4, <2>6, <2>7
<1>a. /\ Listed' = Listed /\ Hashed' = {} /\ Kept' = {} /\ Standing' = S /\ Candidate' = {}
    <2>1. \A n \in Names : n \notin Kept' \cup Hashed' /\ n \notin Kept \cup Hashed
        BY <1>b, <1>e DEF Kept, Hashed
    <2>2. Kept' = {} /\ Hashed' = {} /\ Kept = {} /\ Hashed = {}
        BY <2>1 DEF Kept, Hashed
    <2>3. Candidate' = {}
        BY <2>2 DEF Candidate
    <2>4. Standing' = S
        BY <1>e DEF Standing, Flagged, Listed
    <2>5. Listed' = Listed
        BY <1>e DEF Listed
    <2> QED BY <2>2, <2>3, <2>4, <2>5
<1>d. \A n \in Names : SameInode(n)' = SameInode(n)
    BY <1>a, <1>c DEF SameInode
<1>1. Typed'
    BY Within, <1>a, <1>b, <1>c, <1>e, <1>d DEF IInv, Typed, TypeOK, Steps
<1>2. Control'
    BY <1>c DEF Control
<1>3. InPhase'
    <2>1. (\A n \in Listed : row[n].phase = "inventoried")'
        BY <1>e DEF Listed
    <2> QED BY <1>c, <2>1, <1>e DEF InPhase, Over, Found, Left
<1>4. (\A n \in Names : RowSound(n))'
    BY <1>b, <1>c, <1>e DEF RowSound, Undeduped, Unfiltered, Unhashed, Errors
<1>5. Canonicals'
    BY <1>a, <1>b, <1>e DEF Canonicals
<1>6. Walked'
    <2>1. Names \ Listed' \subseteq gone'
        BY <1>a, <1>c DEF IInv, Walked
    <2> QED BY <1>c, <2>1 DEF Walked
<1>7. OneName'
    <2>1. ASSUME world.detect, NEW n \in Listed
          PROVE  \E m \in Listed : SameInode(n) \cap Standing' = {m}
        <3> DEFINE I == SameInode(n)
        <3>1. \A k \in I : k \in Listed /\ SameInode(k) = I
            BY InodeClass
        <3>2. I \in SUBSET Names /\ n \in I
            BY Within DEF SameInode
        <3> HIDE DEF I
        <3>3. LeastOf(I) \in I
            BY <3>2, LeastIn
        <3>4. \A k \in I : k \in S <=> k = LeastOf(I)
            BY <2>1, <3>1
        <3>5. I \cap S = {LeastOf(I)}
            BY <3>3, <3>4
        <3> QED BY <1>a, <3>1, <3>3, <3>5 DEF I
    <2>2. world'.detect =>
             \A n \in Listed' : \E m \in Listed' : SameInode(n)' \cap Standing' = {m}
        BY <1>a, <1>c, <1>d, <2>1, Within
    <2> QED BY <1>a, <1>c, <2>2 DEF OneName, Filtered
<1>8. HashPool'
    BY <1>c DEF IInv, HashPool
<1>9. Copies'
    <2>1. Flagged("hasSparse")' = {}
        BY <1>e DEF Flagged
    <2> QED BY <1>c, <2>1 DEF Copies
<1>10. Links'
    BY <1>a, <1>c DEF Links
<1>11. Checked'
    BY <1>c DEF Checked
<1>12. Stands
    BY Within, <1>a, <1>b, <1>c, <1>e, <1>d, StandsWhen DEF Control, Left, Undeduped
<1> QED BY <1>1, <1>2, <1>3, <1>4, <1>5, <1>6, <1>7, <1>8, <1>9, <1>10, <1>11, <1>12 DEF IInv, Sound

LEMMA PromoteUnhasheableSound == ASSUME IInv, PromoteUnhasheable PROVE Sound
<1>c. /\ UNCHANGED <<world, queue, meta, files, at, todo, pool, shutdown, outcome, launches>>
      /\ at = "hash" /\ pc = "enter" /\ pc' \in {"verify", "queue"}
    BY DEF PromoteUnhasheable, Doing
<1> USE DEF queue, files, pool
<1> DEFINE S == In(BeforeHash) \ Hashable
<1>b. /\ UNCHANGED world /\ S \in SUBSET Listed
      /\ "hashed" \in RowPhase /\ "hashed" # "none"
      /\ row' = [n \in Names |->
                   IF n \in S THEN [row[n] EXCEPT !.phase = "hashed"] ELSE row[n]]
    BY DEF PromoteUnhasheable, Update, To, In, Listed, BeforeHash, RowPhase
<1>a. /\ row' \in [Names -> Row]
      /\ \A n \in Names :
            /\ row'[n].phase = IF n \in S THEN "hashed" ELSE row[n].phase
            /\ row'[n].flags = row[n].flags
            /\ row'[n].sha = row[n].sha
            /\ row'[n].verdict = row[n].verdict
            /\ row'[n].canonical = row[n].canonical
            /\ row'[n].stored = row[n].stored
      /\ Listed' = Listed
      /\ Regular' = Regular
      /\ Hashed' = Hashed
      /\ Kept' = Kept
      /\ Standing' = Standing
      /\ Candidate' = Candidate
    BY <1>b, PhaseOnly
<1>1. Typed'
    BY Within, <1>a, <1>b, <1>c DEF IInv, Typed, TypeOK, Steps
<1>2. Control'
    BY <1>1, Within, <1>a, <1>b, <1>c DEF IInv, Control, PoolEmpty, Typed, TypeOK
<1>3. InPhase'
    <2>1. \A n \in Listed : row'[n].phase \in {BeforeHash, "hashed"}
        BY Within, <1>a, <1>c DEF IInv, Control, InPhase, Found, Left
    <2>2. (In(BeforeHash))' \subseteq Hashable'
        BY Within, <1>a, <1>c DEF S, In, Hashable, BeforeHash, Listed, Standing, Flagged
    <2> QED BY Within, <2>1, <2>2, <1>a, <1>c DEF IInv, Control, InPhase, Over, Found, Left,
       BeforeHash, BeforeFilter
<1>4. (\A n \in Names : RowSound(n))'
    BY <1>1, Within, <1>a, <1>b, <1>c DEF IInv, Control, InPhase, Found, Left, RowSound,
       Unfiltered, Unhashed, Undeduped, Verdict, Errors, Listed, BeforeHash, BeforeFilter,
       BeforeDedup
<1>5. Canonicals'
    BY <1>1, Within, <1>a, <1>b, <1>c DEF IInv, Control, Canonicals, Undeduped, Same
<1>6. Walked'
    BY <1>1, Within, <1>a, <1>b, <1>c DEF IInv, Control, Walked, Over
<1>7. OneName'
    BY <1>1, Within, <1>a, <1>b, <1>c DEF IInv, Control, OneName, Filtered, Over, SameInode
<1>8. HashPool'
    BY <1>1, Within, <1>a, <1>b, <1>c DEF IInv, Control, HashPool, Answered, PoolEmpty
<1>9. Copies'
    BY <1>1, Within, <1>a, <1>b, <1>c DEF IInv, Control, Copies, Answered, PoolEmpty, Flagged,
       In
<1>10. Links'
    BY <1>1, Within, <1>a, <1>b, <1>c DEF IInv, Control, Links, LinkRight, PoolEmpty, In
<1>11. Checked'
    BY <1>1, Within, <1>a, <1>b, <1>c DEF IInv, Control, Checked, A1, A7, Flagged
<1>12. Stands
    BY Within, <1>a, <1>b, <1>c, StandsWhen DEF IInv, Control, Left, Undeduped
<1> QED BY <1>1, <1>2, <1>3, <1>4, <1>5, <1>6, <1>7, <1>8, <1>9, <1>10, <1>11, <1>12 DEF IInv, Sound

LEMMA PopulateHashQueueSound == ASSUME IInv, PopulateHashQueue PROVE Sound
<1>c. /\ UNCHANGED <<world, row, sparseQueue, meta, files, at, todo, pool, shutdown, outcome,
                     launches>>
      /\ at = "hash" /\ pc = "queue" /\ meta.phase = "hash" /\ pc' = "pool"
      /\ hashQueue' \in {hashQueue, Hashable} /\ PoolEmpty
    BY DEF PopulateHashQueue, Doing, Populated, IInv, Control
<1> USE DEF queue, files, pool
<1>a. /\ Listed' = Listed /\ Regular' = Regular /\ Hashed' = Hashed /\ Kept' = Kept
      /\ Standing' = Standing /\ Candidate' = Candidate
      /\ \A n \in Names : SameInode(n)' = SameInode(n)
    BY <1>c DEF Listed, Regular, Hashed, Kept, Standing, Flagged, Candidate, SameInode
<1>1. Typed'
    BY Within, <1>a, <1>c DEF IInv, Typed, TypeOK, Steps, Hashable, In
<1>2. Control'
    BY <1>1, Within, <1>a, <1>c DEF Control, PoolEmpty, Typed, TypeOK
<1>3. InPhase'
    BY <1>1, Within, <1>a, <1>c DEF IInv, Control, InPhase, Over, Found, Left, Listed,
       BeforeHash, BeforeFilter, BeforeDedup, In, Hashable, Regular, Flagged, Kept
<1>4. (\A n \in Names : RowSound(n))' /\ Canonicals' /\ Stands
    BY <1>a, <1>c, RowsStay
<1>5. Walked'
    BY <1>1, Within, <1>a, <1>c DEF IInv, Control, Walked, Over
<1>6. OneName'
    BY <1>1, Within, <1>a, <1>c DEF IInv, Control, OneName, Filtered, Over, SameInode
<1>7. HashPool'
    <2>1. hashQueue' \subseteq Listed /\ (world.detect => hashQueue' \subseteq Standing)
        BY <1>c, Within DEF IInv, HashPool, Hashable, Regular, Standing
    <2>2. Answered' = {} /\ waiting' = {} /\ reading' = {} /\ pulled' = {} /\ answers' = {}
        BY <1>c DEF Answered, PoolEmpty
    <2> QED BY <1>a, <1>c, <2>1, <2>2 DEF HashPool
<1>8. Copies'
    BY <1>1, Within, <1>a, <1>c DEF IInv, Control, Copies, Answered, PoolEmpty, Flagged, In
<1>9. Links'
    BY <1>1, Within, <1>a, <1>c DEF IInv, Control, Links, LinkRight, PoolEmpty, In
<1>10. Checked'
    BY <1>1, Within, <1>a, <1>c DEF Control, Checked, A1, A7, Flagged
<1> QED BY <1>1, <1>2, <1>3, <1>4, <1>5, <1>6, <1>7, <1>8, <1>9, <1>10 DEF IInv, Sound

LEMMA PullHashSound == ASSUME IInv, PullHash PROVE Sound
<1>0. PICK x \in (hashQueue \cap {n \in Names : ~row[n].sha /\ "hashError" \notin row[n].flags})
                   \ pulled : pulled' = pulled \cup {x} /\ waiting' = waiting \cup {x}
    BY DEF PullHash, Pull
<1>c. /\ UNCHANGED <<world, row, queue, meta, files, pc, at, todo, reading, answers, shutdown,
                     outcome, launches>>
      /\ at = "hash" /\ pc = "pool" /\ meta.phase = "hash" /\ x \in Names
      /\ x \in hashQueue /\ x \notin pulled
    BY <1>0 DEF PullHash, Pull, IInv, Control
<1> USE DEF queue, files, pool
<1>a. /\ Listed' = Listed /\ Regular' = Regular /\ Hashed' = Hashed /\ Kept' = Kept
      /\ Standing' = Standing /\ Candidate' = Candidate
      /\ \A n \in Names : SameInode(n)' = SameInode(n)
    BY <1>c DEF Listed, Regular, Hashed, Kept, Standing, Flagged, Candidate, SameInode
<1>1. Typed'
    BY Within, <1>0, <1>a, <1>c DEF IInv, Typed, TypeOK, Steps
<1>2. Control'
    BY <1>1, Within, <1>0, <1>a, <1>c DEF Control, PoolEmpty, Typed, TypeOK
<1>3. InPhase'
    BY <1>1, Within, <1>0, <1>a, <1>c DEF IInv, Control, InPhase, Over, Found, Left, Listed,
       BeforeHash, BeforeFilter, BeforeDedup, In, Hashable, Regular, Flagged, Kept
<1>4. (\A n \in Names : RowSound(n))' /\ Canonicals' /\ Stands
    BY <1>0, <1>a, <1>c, RowsStay
<1>5. Walked'
    BY <1>1, Within, <1>0, <1>a, <1>c DEF IInv, Control, Walked, Over
<1>6. OneName'
    BY <1>1, Within, <1>0, <1>a, <1>c DEF IInv, Control, OneName, Filtered, Over, SameInode
<1>7. HashPool'
    BY <1>1, Within, <1>0, <1>a, <1>c DEF IInv, Control, HashPool, Answered, PoolEmpty
<1>8. Copies'
    BY <1>1, Within, <1>0, <1>a, <1>c DEF IInv, Control, Copies, Answered, PoolEmpty, Flagged,
       In
<1>9. Links'
    BY <1>1, Within, <1>0, <1>a, <1>c DEF IInv, Control, Links, LinkRight, PoolEmpty, In
<1>10. Checked'
    BY <1>1, Within, <1>0, <1>a, <1>c DEF Control, Checked, A1, A7, Flagged
<1> QED BY <1>1, <1>2, <1>3, <1>4, <1>5, <1>6, <1>7, <1>8, <1>9, <1>10 DEF IInv, Sound

LEMMA OpenToHashSound == ASSUME IInv, OpenToHash PROVE Sound
<1>0. PICK x \in waiting : waiting' = waiting \ {x} /\ reading' = reading \cup {x}
    BY DEF OpenToHash
<1>c. /\ UNCHANGED <<world, row, queue, meta, files, pc, at, todo, pulled, answers, shutdown,
                     outcome, launches>>
      /\ at = "hash" /\ pc = "pool" /\ meta.phase = "hash" /\ x \in Names
    BY <1>0 DEF OpenToHash, Doing, IInv, Control, Typed, TypeOK
<1> USE DEF queue, files, pool
<1>a. /\ Listed' = Listed /\ Regular' = Regular /\ Hashed' = Hashed /\ Kept' = Kept
      /\ Standing' = Standing /\ Candidate' = Candidate
      /\ \A n \in Names : SameInode(n)' = SameInode(n)
    BY <1>c DEF Listed, Regular, Hashed, Kept, Standing, Flagged, Candidate, SameInode
<1>1. Typed'
    BY Within, <1>0, <1>a, <1>c DEF IInv, Typed, TypeOK, Steps
<1>2. Control'
    BY <1>1, Within, <1>0, <1>a, <1>c DEF Control, PoolEmpty, Typed, TypeOK
<1>3. InPhase'
    BY <1>1, Within, <1>0, <1>a, <1>c DEF IInv, Control, InPhase, Over, Found, Left, Listed,
       BeforeHash, BeforeFilter, BeforeDedup, In, Hashable, Regular, Flagged, Kept
<1>4. (\A n \in Names : RowSound(n))' /\ Canonicals' /\ Stands
    BY <1>0, <1>a, <1>c, RowsStay
<1>5. Walked'
    BY <1>1, Within, <1>0, <1>a, <1>c DEF IInv, Control, Walked, Over
<1>6. OneName'
    BY <1>1, Within, <1>0, <1>a, <1>c DEF IInv, Control, OneName, Filtered, Over, SameInode
<1>7. HashPool'
    BY <1>1, Within, <1>0, <1>a, <1>c DEF IInv, Control, HashPool, Answered, PoolEmpty
<1>8. Copies'
    BY <1>1, Within, <1>0, <1>a, <1>c DEF IInv, Control, Copies, Answered, PoolEmpty, Flagged,
       In
<1>9. Links'
    BY <1>1, Within, <1>0, <1>a, <1>c DEF IInv, Control, Links, LinkRight, PoolEmpty, In
<1>10. Checked'
    BY <1>1, Within, <1>0, <1>a, <1>c DEF Control, Checked, A1, A7, Flagged
<1> QED BY <1>1, <1>2, <1>3, <1>4, <1>5, <1>6, <1>7, <1>8, <1>9, <1>10 DEF IInv, Sound

LEMMA HashOneSound == ASSUME IInv, HashOne PROVE Sound
<1> USE DEF queue, files, pool, HashOne, Doing
<1>0. PICK x \in reading, r \in Result :
          /\ r = "failed" => x \in gone
          /\ reading' = reading \ {x} /\ answers' = answers \cup {<<x, r>>}
    BY DEF HashOne
<1>1. Typed'
    BY DEF IInv, Typed, TypeOK, Steps, Phase, Listed, In, Hashed, Row, RowPhase, Flag, Result
<1>2. Control'
    BY <1>1 DEF IInv, Control, Typed, TypeOK, PoolEmpty, Listed
<1>3. InPhase'
    BY <1>1 DEF IInv, Control, InPhase, Typed, TypeOK, Over, Found, Left, Listed, In, Hashable,
       BeforeHash, BeforeFilter, BeforeDedup, Regular, Flagged, Kept
<1>4. (\A n \in Names : RowSound(n))' /\ Canonicals' /\ Stands
    BY RowsStay
<1>5. Walked'
    BY <1>1 DEF IInv, Control, Walked, Typed, TypeOK, Over, Listed
<1>6. OneName'
    BY <1>1 DEF IInv, Control, Typed, TypeOK, OneName, Filtered, Over, SameInode, Listed,
       Standing, Flagged, Kept, Hashed
<1>7. HashPool'
    <2>1. /\ at = "hash" /\ pc = "pool" /\ meta.phase = "hash" /\ x \in Names
          /\ reading \subseteq Names /\ answers \subseteq Names \X Result
        BY DEF IInv, Control, Typed, TypeOK
    <2>2. Answered' = Answered \cup {x} /\ x \notin Answered
        <3>1. x \notin Answered
            BY <1>0, <2>1 DEF IInv, HashPool
        <3>2. \A n \in Names : (\E s \in Result : <<n, s>> \in answers') <=>
                               (n = x \/ \E s \in Result : <<n, s>> \in answers)
            BY <1>0, <2>1
        <3>3. \A n \in Names : n \in Answered' <=> n = x \/ n \in Answered
            BY <3>2 DEF Answered
        <3>4. Answered \subseteq Names /\ Answered' \subseteq Names
            BY DEF Answered
        <3> QED BY <2>1, <3>1, <3>3, <3>4
    <2>3. \A b \in answers : b[1] \in Answered
        BY <2>1 DEF Answered
    <2>4. \A a \in answers', b \in answers' : a[1] = b[1] => a = b
        BY <1>0, <2>1, <2>2, <2>3 DEF IInv, HashPool
    <2>5. \A n \in Names : <<n, "failed">> \in answers' => n \in gone
        BY <1>0, <2>1 DEF IInv, HashPool
    <2>6. /\ waiting' \cup reading' \cup Answered' \subseteq pulled'
          /\ pulled' \subseteq hashQueue'
          /\ waiting' \cap reading' = {} /\ (waiting' \cup reading') \cap Answered' = {}
        BY <1>0, <2>1, <2>2 DEF IInv, HashPool
    <2>7. Listed' = Listed /\ Standing' = Standing
        BY DEF Listed, Standing, Flagged
    <2> QED BY <2>1, <2>4, <2>5, <2>6, <2>7 DEF IInv, HashPool
<1>8. Copies'
    BY <1>1 DEF IInv, Control, Typed, TypeOK, Copies, RowSound, Undeduped, Answered, PoolEmpty,
       Listed, Flagged, In
<1>9. Links'
    BY <1>1 DEF IInv, Control, InPhase, Typed, TypeOK, Links, LinkRight, Found, Left,
       Candidate, Stageable, PoolEmpty, Regular, Hashed, Kept, Listed, In
<1>10. Checked'
    BY <1>1 DEF IInv, Control, InPhase, Typed, TypeOK, Checked, A1, A7, Regular, Hashed, Kept,
       Listed, Flagged
<1> QED BY <1>1, <1>2, <1>3, <1>4, <1>5, <1>6, <1>7, <1>8, <1>9, <1>10 DEF IInv, Sound

\* A digest and an error never meet in an inode: both were asked of the one
\* name that stands for it.
LEMMA IngestHashSound == ASSUME IInv, IngestHash PROVE Sound
<1>0. PICK batch \in SUBSET answers :
          /\ Digested({n \in Names : <<n, "ok">> \in batch},
                      {n \in Names : <<n, "failed">> \in batch})
          /\ answers' = answers \ batch
    BY DEF IngestHash
<1>c. /\ UNCHANGED <<world, queue, meta, files, pc, at, todo, pulled, waiting, reading,
                     shutdown, outcome, launches>>
      /\ at = "hash" /\ pc = "pool" /\ meta.phase = "hash"
      /\ answers' \subseteq answers
    BY <1>0 DEF IngestHash, Doing, IInv, Control
<1> USE DEF queue, files, pool
<1> DEFINE D == {n \in Names : <<n, "ok">> \in batch}
           bad == {n \in Names : <<n, "failed">> \in batch}
           good == {n \in Names : \E m \in D : n \in Informed(m)}
<1>b. /\ row \in [Names -> Row] /\ NULL \notin Names
      /\ D \subseteq Listed /\ bad \subseteq Listed /\ good \subseteq Listed
      /\ bad \subseteq gone /\ bad \cap good = {}
      /\ BeforeHash \in {"inventoried", "filtered"}
      /\ \A n \in Names : row[n].phase \in {"none", BeforeHash, "hashed"}
      /\ \A n \in Listed : row[n].phase \in {BeforeHash, "hashed"}
      /\ \A n \in Names : row[n].canonical = NULL /\ ~ row[n].stored
      /\ world.detect =>
            \A n \in Listed, m \in Listed :
               world.inode[m] = world.inode[n] => (n \in good <=> m \in good)
    <2>1. row \in [Names -> Row] /\ answers \subseteq Names \X Result
        BY DEF IInv, Typed, TypeOK
    <2>2. /\ Answered \subseteq Listed /\ (world.detect => Answered \subseteq Standing)
          /\ \A x \in answers, y \in answers : x[1] = y[1] => x = y
          /\ \A n \in Names : <<n, "failed">> \in answers => n \in gone
        BY <1>c DEF IInv, HashPool
    <2>3. D \subseteq Answered /\ bad \subseteq Answered
        BY DEF Answered, Result
    <2>4. D \cap bad = {}
        BY <2>2
    <2>5. \A n \in good : \E m \in D :
             n \in Listed /\ (n = m \/ (world.detect /\ n \in SameInode(m)))
        BY <2>2, <2>3 DEF Informed, SameInode
    <2>6. ASSUME world.detect, NEW n \in Standing, NEW m \in Standing,
                 world.inode[m] = world.inode[n] PROVE m = n
        <3>1. n \in Listed /\ m \in Listed
            BY OnlyRows
        <3>2. PICK k \in Listed : SameInode(n) \cap Standing = {k}
            BY <1>c, <2>6, <3>1 DEF IInv, OneName
        <3>3. n \in SameInode(n) /\ m \in SameInode(n)
            BY <2>6, <3>1 DEF SameInode
        <3> QED BY <3>2, <3>3
    <2>7. bad \cap good = {}
        <3> SUFFICES ASSUME NEW n \in bad, n \in good PROVE FALSE
            OBVIOUS
        <3>1. PICK m \in D : n = m \/ (world.detect /\ n \in SameInode(m))
            BY <2>5
        <3>2. n # m
            BY <2>4
        <3>3. n \in Standing /\ m \in Standing /\ world.inode[m] = world.inode[n]
            BY <2>2, <2>3, <3>1, <3>2 DEF SameInode
        <3> QED BY <2>6, <3>1, <3>2, <3>3
    <2>8. ASSUME world.detect, NEW n \in Listed, NEW m \in Listed,
                 world.inode[m] = world.inode[n], n \in good
          PROVE  m \in good
        <3>1. PICK k \in D : n \in SameInode(k)
            BY <2>8 DEF Informed
        <3>2. m \in SameInode(k)
            BY <2>8, <3>1 DEF SameInode
        <3> QED BY <2>8, <3>1, <3>2, Within DEF Informed
    <2>9. BeforeHash \in {"inventoried", "filtered"}
        BY DEF BeforeHash
    <2>10. \A n \in Listed : row[n].phase \in {BeforeHash, "hashed"}
        BY <1>c DEF IInv, InPhase, Found, Left
    <2>11. \A n \in Names : row[n].phase \in {"none", BeforeHash, "hashed"}
        BY <2>10 DEF Listed
    <2>12. \A n \in Names : row[n].canonical = NULL /\ ~ row[n].stored
        BY <2>9, <2>11 DEF IInv, RowSound, Undeduped
    <2> HIDE DEF D, bad, good
    <2> QED BY <2>1, <2>2, <2>3, <2>5, <2>7, <2>8, <2>9, <2>10, <2>11, <2>12, CatalogueAssumption DEF
       bad
<1>d. row' = [n \in Names |->
          IF n \in bad THEN Flagging("hashError", "hashed", row[n])
          ELSE IF n \in good THEN [row[n] EXCEPT !.phase = "hashed", !.sha = TRUE]
          ELSE row[n]]
    BY <1>0 DEF Digested
<1> HIDE DEF D, bad, good
<1>e. /\ row' \in [Names -> Row]
      /\ \A n \in Names :
            /\ row'[n].phase = IF n \in good \cup bad THEN "hashed" ELSE row[n].phase
            /\ row'[n].flags = IF n \in bad THEN row[n].flags \cup {"hashError"}
                               ELSE row[n].flags
            /\ row'[n].sha = IF n \in good THEN TRUE ELSE row[n].sha
            /\ row'[n].verdict = row[n].verdict
            /\ row'[n].canonical = row[n].canonical
            /\ row'[n].stored = row[n].stored
    <2>1. /\ \A n \in bad : row'[n] = Flagging("hashError", "hashed", row[n])
          /\ \A n \in good : row'[n] = [row[n] EXCEPT !.phase = "hashed", !.sha = TRUE]
          /\ \A n \in Names \ (good \cup bad) : row'[n] = row[n]
        BY <1>b, <1>d, Within, Zenon
    <2>2. "hashError" \in Flag /\ "hashed" \in RowPhase
        BY DEF Flag, RowPhase
    <2>3. \A n \in Names : row[n] \in Row
        BY <1>b
    <2>4. \A n \in Names : [row[n] EXCEPT !.phase = "hashed", !.sha = TRUE] \in Row
        BY <2>2, <2>3 DEF Row
    <2>5. \A n \in Names : Flagging("hashError", "hashed", row[n]) \in Row
        BY <2>2, <2>3, FlaggingRow
    <2>6. row' \in [Names -> Row]
        BY <1>d, <2>3, <2>4, <2>5
    <2>7. ASSUME NEW n \in bad
          PROVE  /\ row'[n].phase = "hashed" /\ row'[n].flags = row[n].flags \cup {"hashError"}
                 /\ row'[n].sha = row[n].sha /\ row'[n].verdict = row[n].verdict
                 /\ row'[n].canonical = row[n].canonical /\ row'[n].stored = row[n].stored
        <3>1. /\ n \in Names /\ row[n] \in Row
              /\ row'[n] = Flagging("hashError", "hashed", row[n])
            BY <1>b, <2>1, <2>3, Within
        <3> QED BY <2>2, <3>1, FlaggingRow
    <2>8. ASSUME NEW n \in good
          PROVE  /\ row'[n].phase = "hashed" /\ row'[n].flags = row[n].flags
                 /\ row'[n].sha = TRUE /\ row'[n].verdict = row[n].verdict
                 /\ row'[n].canonical = row[n].canonical /\ row'[n].stored = row[n].stored
        <3>1. /\ n \in Names /\ row[n] \in Row
              /\ row'[n] = [row[n] EXCEPT !.phase = "hashed", !.sha = TRUE]
            BY <1>b, <2>1, <2>3, Within
        <3> QED BY <3>1
    <2>9. ASSUME NEW n \in Names \ (good \cup bad)
          PROVE  row'[n] = row[n]
        BY <2>1
    <2>10. good \cap bad = {}
        BY <1>b
    <2> QED BY <2>6, <2>7, <2>8, <2>9, <2>10
<1>f. ASSUME NEW n \in Names
      PROVE  /\ row'[n].canonical = NULL
             /\ "linkCanonical" \in row'[n].flags <=> "linkCanonical" \in row[n].flags
             /\ "hasSparse" \in row'[n].flags <=> "hasSparse" \in row[n].flags
    <2>1. row[n].canonical = NULL /\ row'[n].canonical = row[n].canonical
        BY <1>b, <1>e
    <2>2. row'[n].flags \in {row[n].flags, row[n].flags \cup {"hashError"}}
        BY <1>e
    <2> QED BY <2>1, <2>2
<1>a. /\ Listed' = Listed /\ Regular' = Regular /\ Kept' = Kept /\ Standing' = Standing
      /\ Hashed' = Hashed \cup good /\ Candidate' = {}
      /\ \A n \in Names : SameInode(n)' = SameInode(n)
    <2>1. Listed' = Listed /\ Kept' = Kept /\ Standing' = Standing
        <3>1. \A n \in Names : row'[n].phase = "none" <=> row[n].phase = "none"
            BY <1>b, <1>e
        <3>2. \A n \in Names : "linkCanonical" \in row'[n].flags
                                  <=> "linkCanonical" \in row[n].flags
            BY <1>f
        <3> QED BY <1>e, <3>1, <3>2 DEF Listed, Kept, Standing, Flagged
    <2>2. Hashed' = Hashed \cup good
        BY <1>b, <1>e, Within DEF Hashed
    <2>3. Regular' = Regular /\ \A n \in Names : SameInode(n)' = SameInode(n)
        BY <1>c, <2>1 DEF Regular, SameInode
    <2>4. Candidate' = {}
        <3>1. \A n \in Names : row'[n].canonical # n
            BY <1>b, <1>f
        <3> QED BY <2>1, <2>3, <3>1, Within DEF Candidate
    <2> QED BY <2>1, <2>2, <2>3, <2>4
<1>1. Typed'
    BY Within, <1>a, <1>b, <1>c, <1>d, <1>e DEF IInv, Typed, TypeOK, Steps
<1>2. Control'
    BY <1>1, Within, <1>a, <1>b, <1>c, <1>d, <1>e DEF Control, PoolEmpty, Typed, TypeOK
<1>3. InPhase'
    <2>1. BeforeHash' = BeforeHash
        BY <1>c DEF BeforeHash
    <2>2. (\A n \in Listed : row[n].phase \in {Found(meta.phase), Left(meta.phase)})'
        BY <1>a, <1>b, <1>c, <1>e, <2>1, Within DEF Found, Left
    <2>3. (In(BeforeHash) \subseteq Hashable)'
        <3>1. In(BeforeHash) \subseteq Hashable
            BY <1>c DEF IInv, InPhase
        <3>2. ASSUME NEW n \in Names, row'[n].phase = BeforeHash
              PROVE  row[n].phase = BeforeHash
            BY <1>b, <1>e, <3>2
        <3> QED BY <1>a, <1>c, <1>e, <2>1, <3>1, <3>2 DEF In, Hashable, Standing, Flagged
    <2> QED BY <1>c, <2>2, <2>3 DEF InPhase, Over
<1>4. (\A n \in Names : RowSound(n))'
    <2> SUFFICES ASSUME NEW n \in Names PROVE RowSound(n)'
        OBVIOUS
    <2>1. /\ RowSound(n) /\ row[n].phase \in {"none", BeforeHash, "hashed"}
          /\ row[n].canonical = NULL /\ ~ row[n].stored
          /\ n \in bad => n \in gone /\ row[n].phase # "none"
          /\ n \in good => n \notin bad /\ row[n].phase # "none"
        BY <1>b DEF IInv, Listed
    <2>2. Unfiltered' = Unfiltered /\ Unhashed' = Unhashed /\ Verdict(n)' = Verdict(n)
        BY <1>c DEF Unfiltered, Unhashed, Verdict
    <2>3. /\ row'[n].phase = IF n \in good \cup bad THEN "hashed" ELSE row[n].phase
          /\ row'[n].flags = IF n \in bad THEN row[n].flags \cup {"hashError"}
                             ELSE row[n].flags
          /\ row'[n].sha = IF n \in good THEN TRUE ELSE row[n].sha
          /\ row'[n].verdict = row[n].verdict
          /\ row'[n].canonical = row[n].canonical
          /\ row'[n].stored = row[n].stored
        BY <1>e
    <2>4. CASE n \in bad
        BY <1>c, <2>1, <2>2, <2>3, <2>4 DEF RowSound, BeforeHash, Unfiltered, Unhashed,
           Undeduped, Errors
    <2>5. CASE n \in good
        BY <1>c, <2>1, <2>2, <2>3, <2>5 DEF RowSound, BeforeHash, Unfiltered, Unhashed,
           Undeduped, Errors
    <2>6. CASE n \notin good \cup bad
        BY <1>c, <2>1, <2>2, <2>3, <2>6 DEF RowSound, BeforeHash, Unfiltered, Unhashed,
           Undeduped, Errors
    <2> QED BY <2>4, <2>5, <2>6
<1>5. Canonicals'
    <2>1. \A n \in Names : row'[n].canonical = NULL
        BY <1>b, <1>e
    <2>2. \A n \in Listed' : row'[n].phase \in Undeduped
        BY <1>a, <1>b, <1>e, Within DEF Undeduped
    <2> QED BY <1>a, <2>1, <2>2, Within DEF Canonicals
<1>6. Walked'
    BY <1>1, Within, <1>a, <1>b, <1>c, <1>d, <1>e DEF IInv, Control, Walked, Over
<1>7. OneName'
    <2>1. world.detect => \A n \in Listed, m \in Listed :
             world.inode[m] = world.inode[n] => (m \in Hashed' <=> n \in Hashed')
        BY <1>a, <1>b DEF IInv, OneName
    <2> QED BY <1>a, <1>c, <2>1, Within DEF IInv, OneName, Filtered, Over
<1>8. HashPool'
    <2>1. Answered' \subseteq Answered
        BY <1>c DEF Answered
    <2> QED BY <1>a, <1>c, <2>1 DEF IInv, HashPool
<1>9. Copies'
    <2>1. Flagged("hasSparse")' = Flagged("hasSparse")
        <3>1. \A n \in Names : "hasSparse" \in row'[n].flags <=> "hasSparse" \in row[n].flags
            BY <1>f
        <3> QED BY <3>1 DEF Flagged
    <2> QED BY <1>c, <2>1 DEF IInv, Copies
<1>10. Links'
    BY <1>a, <1>c DEF Links
<1>11. Checked'
    BY <1>1, Within, <1>a, <1>b, <1>c, <1>d, <1>e DEF Control, Checked, A1, A7, Flagged
<1>12. Stands
    <2>1. Left(meta.phase) = "hashed"
        BY <1>c DEF Left
    <2>2. ASSUME NEW n \in Listed
          PROVE  /\ row'[n].phase \in {row[n].phase, Left(meta.phase)}
                 /\ row[n].verdict # "unset" => row'[n].verdict = row[n].verdict
                 /\ row[n].sha => row'[n].sha
                 /\ row[n].canonical # NULL => row'[n].canonical = row[n].canonical
                 /\ row[n].stored => row'[n].stored
                 /\ row[n].flags \ {"linkCanonical"} \subseteq row'[n].flags
        <3>1. n \in Names /\ row'[n].flags \in {row[n].flags, row[n].flags \cup {"hashError"}}
            BY <1>e, Within
        <3>2. /\ row'[n].phase \in {row[n].phase, "hashed"}
              /\ row'[n].sha \in {row[n].sha, TRUE}
              /\ row'[n].verdict = row[n].verdict /\ row'[n].canonical = row[n].canonical
              /\ row'[n].stored = row[n].stored
            BY <1>e, <3>1
        <3> QED BY <2>1, <3>1, <3>2
    <2> QED BY <2>2, StandsWhen
<1> QED BY <1>1, <1>2, <1>3, <1>4, <1>5, <1>6, <1>7, <1>8, <1>9, <1>10, <1>11, <1>12 DEF IInv, Sound

LEMMA EndHashSound == ASSUME IInv, EndHash PROVE Sound
<1> USE DEF queue, files, pool, EndHash, Doing, PoolDrained, PoolIdle, Exit
<1>1. Typed'
    BY DEF IInv, Typed, TypeOK, Steps, Phase, Listed, In, Hashed, Row, RowPhase, Flag, Result
<1>2. Control'
    BY <1>1 DEF IInv, Control, Typed, TypeOK, PoolEmpty, Listed
<1>3. InPhase'
    BY <1>1 DEF IInv, Control, InPhase, Typed, TypeOK, Over, Found, Left, Listed, In, Hashable,
       BeforeHash, BeforeFilter, BeforeDedup, Regular, Flagged, Kept
<1>4. (\A n \in Names : RowSound(n))' /\ Canonicals' /\ Stands
    BY RowsStay
<1>5. Walked'
    BY <1>1 DEF IInv, Control, Walked, Typed, TypeOK, Over, Listed
<1>6. OneName'
    BY <1>1 DEF IInv, Control, Typed, TypeOK, OneName, Filtered, Over, SameInode, Listed,
       Standing, Flagged, Kept, Hashed
<1>7. HashPool'
    BY <1>1 DEF IInv, Control, Typed, TypeOK, HashPool, Over, Answered, PoolEmpty, Listed,
       Standing, Flagged
<1>8. Copies'
    BY <1>1 DEF IInv, Control, Typed, TypeOK, Copies, RowSound, Undeduped, Answered, PoolEmpty,
       Listed, Flagged, In
<1>9. Links'
    BY <1>1 DEF IInv, Control, InPhase, Typed, TypeOK, Links, LinkRight, Found, Left,
       Candidate, Stageable, PoolEmpty, Regular, Hashed, Kept, Listed, In
<1>10. Checked'
    BY <1>1 DEF IInv, Control, InPhase, Typed, TypeOK, Checked, A1, A7, Regular, Hashed, Kept,
       Listed, Flagged
<1> QED BY <1>1, <1>2, <1>3, <1>4, <1>5, <1>6, <1>7, <1>8, <1>9, <1>10 DEF IInv, Sound

LEMMA ApplyNoFilterSound == ASSUME IInv, ApplyNoFilter PROVE Sound
<1>c. /\ UNCHANGED <<world, queue, meta, files, at, todo, pool, shutdown, outcome, launches>>
      /\ at = "filter" /\ pc = "enter" /\ meta.phase = "filter" /\ pc' = "verify"
    BY DEF ApplyNoFilter, Doing, IInv, Control
<1> USE DEF queue, files, pool
<1> DEFINE S == Listed
<1>b. /\ row \in [Names -> Row] /\ S \subseteq Listed
      /\ \A n \in Listed : row[n].phase \in {BeforeFilter, "filtered"}
      /\ \A n \in Names : row[n].phase # "none" <=> n \in Listed
      /\ \A n \in Names : row[n].canonical = NULL
      /\ BeforeFilter \in {"inventoried", "hashed"}
      /\ \A n \in S : row[n].phase \in {BeforeFilter, "filtered"}
    <2>1. row \in [Names -> Row] /\ S \subseteq Listed
        BY DEF IInv, Typed, TypeOK, Listed, In, FirstBatch, BeforeFilter
    <2>2. \A n \in Listed : row[n].phase \in {BeforeFilter, "filtered"}
        BY <1>c DEF IInv, InPhase, Found, Left
    <2>3. BeforeFilter \in {"inventoried", "hashed"}
        BY DEF BeforeFilter
    <2>4. \A n \in Names : row[n].canonical = NULL
        BY <2>2, <2>3 DEF IInv, RowSound, Undeduped, Listed
    <2> QED BY <2>1, <2>2, <2>3, <2>4 DEF Listed
<1>d. /\ row' = [n \in Names |-> IF n \in S THEN [row[n] EXCEPT !.phase = "filtered",
                                                        !.verdict = Verdict(n)] ELSE row[n]]
    BY DEF ApplyNoFilter, Update, NoRules, Verdict
<1>e. /\ row' \in [Names -> Row]
      /\ \A n \in Names :
            /\ row'[n].phase = IF n \in S THEN "filtered" ELSE row[n].phase
            /\ row'[n].flags = row[n].flags
            /\ row'[n].sha = row[n].sha
            /\ row'[n].verdict = IF n \in S THEN Verdict(n) ELSE row[n].verdict
            /\ row'[n].canonical = row[n].canonical
            /\ row'[n].stored = row[n].stored
    <2>1. \A n \in Names : Verdict(n) \in {"in", "out"}
        BY DEF Verdict
    <2>2. \A n \in Names : row[n] \in Row
        BY <1>b
    <2>3. ASSUME NEW n \in Names, n \in S
          PROVE  /\ row'[n] \in Row
                 /\ row'[n].phase = "filtered" /\ row'[n].verdict = Verdict(n)
                 /\ row'[n].flags = row[n].flags /\ row'[n].sha = row[n].sha
                 /\ row'[n].canonical = row[n].canonical /\ row'[n].stored = row[n].stored
        <3>1. row'[n] = Judged(Verdict(n), row[n])
            BY <1>d, <2>3 DEF Judged
        <3>2. row[n] \in Row /\ Verdict(n) \in {"in", "out"}
            BY <2>1, <2>2
        <3> QED BY <3>1, <3>2, FilteredRow
    <2>4. ASSUME NEW n \in Names, n \notin S
          PROVE  row'[n] \in Row /\ row'[n] = row[n]
        <3>1. row'[n] = row[n]
            BY <1>d, <2>4
        <3> QED BY <2>2, <3>1
    <2>5. row' = [n \in Names |-> row'[n]]
        BY <1>d
    <2> HIDE DEF S
    <2>6. row' \in [Names -> Row]
        BY <2>3, <2>4, <2>5
    <2> QED BY <2>3, <2>4, <2>6
<1>a. /\ Listed' = Listed /\ Regular' = Regular /\ Hashed' = Hashed /\ Standing' = Standing
    <2>1. Listed' = Listed /\ Hashed' = Hashed /\ Standing' = Standing
        BY <1>b, <1>e DEF Listed, Hashed, Standing, Flagged
    <2> QED BY <1>c, <2>1 DEF Regular
<1>f. \A n \in Names :
         /\ row'[n].phase \in {"none", "inventoried", "hashed", "filtered"}
         /\ row'[n].canonical = NULL
         /\ n \in Listed => row'[n].phase \in {BeforeFilter, "filtered"}
         /\ n \in Listed => row'[n].phase # "none"
         /\ n \in Listed /\ pc' = "verify" => row'[n].phase = "filtered"
    BY <1>b, <1>c, <1>e
<1>1. Typed'
    BY Within, <1>a, <1>b, <1>c, <1>e, <1>f DEF IInv, Typed, TypeOK, Steps
<1>2. Control'
    BY <1>1, Within, <1>a, <1>b, <1>c, <1>e, <1>f DEF IInv, Control, PoolEmpty, Typed, TypeOK
<1>3. InPhase'
    <2>1. BeforeFilter' = BeforeFilter /\ meta'.phase = "filter" /\ at' = "filter"
        BY <1>c DEF BeforeFilter
    <2>2. (\A n \in Listed : row[n].phase \in {Found(meta.phase), Left(meta.phase)})'
        BY Within, <1>a, <1>f, <2>1 DEF Found, Left
    <2>3. (Over => \A n \in Listed : row[n].phase = Left(at))'
        BY Within, <1>a, <1>c, <1>f, <2>1 DEF Left
    <2> QED BY <1>c, <2>1, <2>2, <2>3 DEF InPhase
<1>4. (\A n \in Names : RowSound(n))'
    BY <1>1, Within, <1>a, <1>b, <1>c, <1>e, <1>f DEF IInv, Control, InPhase, Found, Left,
       RowSound, Unfiltered, Unhashed, Undeduped, Verdict, Errors, Listed, BeforeHash,
       BeforeFilter, BeforeDedup
<1>5. Canonicals'
    <2>1. \A n \in Names : row'[n].canonical = NULL
        BY <1>f
    <2>2. \A n \in Regular' : n \in Names /\ row'[n].phase \in Undeduped
        BY Within, <1>a, <1>f DEF Undeduped
    <2> QED BY <2>1, <2>2 DEF Canonicals
<1>6. Walked'
    BY <1>1, Within, <1>a, <1>b, <1>c, <1>e, <1>f DEF IInv, Control, Walked, Over
<1>7. OneName'
    <2>1. \A n \in Names : Verdict(n) = "in"
        BY DEF ApplyNoFilter, NoRules, Verdict
    <2>2. Kept' = Listed
        BY <1>e, <2>1, OnlyRows DEF Kept, Listed
    <2> QED BY <1>a, <1>c, <2>2 DEF IInv, OneName, Filtered, Over, SameInode
<1>8. HashPool'
    BY <1>1, Within, <1>a, <1>b, <1>c, <1>e, <1>f DEF IInv, Control, HashPool, Answered,
       PoolEmpty
<1>9. Copies'
    BY <1>1, Within, <1>a, <1>b, <1>c, <1>e, <1>f DEF IInv, Control, Copies, Answered,
       PoolEmpty, Flagged, In
<1>10. Links'
    BY <1>1, Within, <1>a, <1>b, <1>c, <1>e, <1>f DEF Control, Links, LinkRight, PoolEmpty, In,
       Candidate
<1>11. Checked'
    BY <1>1, Within, <1>a, <1>b, <1>c, <1>e, <1>f DEF Control, Checked, A1, A7, Flagged
<1>12. Stands
    <2>1. Left(meta.phase) = "filtered"
        BY <1>c DEF Left
    <2>2. ASSUME NEW n \in Listed
          PROVE  /\ row'[n].phase \in {row[n].phase, Left(meta.phase)}
                 /\ row[n].verdict # "unset" => row'[n].verdict = row[n].verdict
                 /\ row[n].sha => row'[n].sha
                 /\ row[n].canonical # NULL => row'[n].canonical = row[n].canonical
                 /\ row[n].stored => row'[n].stored
                 /\ row[n].flags \ {"linkCanonical"} \subseteq row'[n].flags
        <3>1. /\ n \in Names /\ (row[n].phase \in Unfiltered => row[n].verdict = "unset")
              /\ row[n].phase \notin Unfiltered => row[n].verdict = Verdict(n)
            BY Within DEF IInv, RowSound, Listed
        <3>2. /\ row'[n].sha = row[n].sha /\ row'[n].canonical = row[n].canonical
              /\ row'[n].flags = row[n].flags /\ row'[n].stored = row[n].stored
              /\ row'[n].phase = IF n \in S THEN "filtered" ELSE row[n].phase
              /\ row'[n].verdict = IF n \in S THEN Verdict(n) ELSE row[n].verdict
            BY <1>e, <3>1
        <3>3. CASE n \in S
            <4>1. row'[n].phase = "filtered" /\ row'[n].verdict = Verdict(n)
                BY <3>2, <3>3
            <4> QED BY <2>1, <3>1, <3>2, <4>1
        <3>4. CASE n \notin S
            <4>1. row'[n].phase = row[n].phase /\ row'[n].verdict = row[n].verdict
                BY <3>4
            <4> QED BY <3>2, <4>1
        <3> QED BY <3>3, <3>4
    <2> QED BY <2>2, StandsWhen
<1> QED BY <1>1, <1>2, <1>3, <1>4, <1>5, <1>6, <1>7, <1>8, <1>9, <1>10, <1>11, <1>12 DEF IInv, Sound

LEMMA FilterBatchSound == ASSUME IInv, FilterBatch PROVE Sound
<1>c. /\ UNCHANGED <<world, queue, meta, files, at, todo, pool, shutdown, outcome, launches>>
      /\ at = "filter" /\ pc = "enter" /\ meta.phase = "filter" /\ pc' = "enter"
    BY DEF FilterBatch, Doing, IInv, Control
<1> USE DEF queue, files, pool
<1> DEFINE S == FirstBatch(In(BeforeFilter))
<1>b. /\ row \in [Names -> Row] /\ S \subseteq Listed
      /\ \A n \in Listed : row[n].phase \in {BeforeFilter, "filtered"}
      /\ \A n \in Names : row[n].phase # "none" <=> n \in Listed
      /\ \A n \in Names : row[n].canonical = NULL
      /\ BeforeFilter \in {"inventoried", "hashed"}
      /\ \A n \in S : row[n].phase \in {BeforeFilter, "filtered"}
    <2>1. row \in [Names -> Row] /\ S \subseteq Listed
        BY DEF IInv, Typed, TypeOK, Listed, In, FirstBatch, BeforeFilter
    <2>2. \A n \in Listed : row[n].phase \in {BeforeFilter, "filtered"}
        BY <1>c DEF IInv, InPhase, Found, Left
    <2>3. BeforeFilter \in {"inventoried", "hashed"}
        BY DEF BeforeFilter
    <2>4. \A n \in Names : row[n].canonical = NULL
        BY <2>2, <2>3 DEF IInv, RowSound, Undeduped, Listed
    <2> QED BY <2>1, <2>2, <2>3, <2>4 DEF Listed
<1>d. /\ row' = [n \in Names |-> IF n \in S THEN [row[n] EXCEPT !.phase = "filtered",
                                                        !.verdict = Verdict(n)] ELSE row[n]]
    BY DEF FilterBatch, Update, NoRules, Verdict
<1>e. /\ row' \in [Names -> Row]
      /\ \A n \in Names :
            /\ row'[n].phase = IF n \in S THEN "filtered" ELSE row[n].phase
            /\ row'[n].flags = row[n].flags
            /\ row'[n].sha = row[n].sha
            /\ row'[n].verdict = IF n \in S THEN Verdict(n) ELSE row[n].verdict
            /\ row'[n].canonical = row[n].canonical
            /\ row'[n].stored = row[n].stored
    <2>1. \A n \in Names : Verdict(n) \in {"in", "out"}
        BY DEF Verdict
    <2>2. \A n \in Names : row[n] \in Row
        BY <1>b
    <2>3. ASSUME NEW n \in Names, n \in S
          PROVE  /\ row'[n] \in Row
                 /\ row'[n].phase = "filtered" /\ row'[n].verdict = Verdict(n)
                 /\ row'[n].flags = row[n].flags /\ row'[n].sha = row[n].sha
                 /\ row'[n].canonical = row[n].canonical /\ row'[n].stored = row[n].stored
        <3>1. row'[n] = Judged(Verdict(n), row[n])
            BY <1>d, <2>3 DEF Judged
        <3>2. row[n] \in Row /\ Verdict(n) \in {"in", "out"}
            BY <2>1, <2>2
        <3> QED BY <3>1, <3>2, FilteredRow
    <2>4. ASSUME NEW n \in Names, n \notin S
          PROVE  row'[n] \in Row /\ row'[n] = row[n]
        <3>1. row'[n] = row[n]
            BY <1>d, <2>4
        <3> QED BY <2>2, <3>1
    <2>5. row' = [n \in Names |-> row'[n]]
        BY <1>d
    <2> HIDE DEF S
    <2>6. row' \in [Names -> Row]
        BY <2>3, <2>4, <2>5
    <2> QED BY <2>3, <2>4, <2>6
<1>a. /\ Listed' = Listed /\ Regular' = Regular /\ Hashed' = Hashed /\ Standing' = Standing
    <2>1. Listed' = Listed /\ Hashed' = Hashed /\ Standing' = Standing
        BY <1>b, <1>e DEF Listed, Hashed, Standing, Flagged
    <2> QED BY <1>c, <2>1 DEF Regular
<1>f. \A n \in Names :
         /\ row'[n].phase \in {"none", "inventoried", "hashed", "filtered"}
         /\ row'[n].canonical = NULL
         /\ n \in Listed => row'[n].phase \in {BeforeFilter, "filtered"}
         /\ n \in Listed => row'[n].phase # "none"
         /\ n \in Listed /\ pc' = "verify" => row'[n].phase = "filtered"
    BY <1>b, <1>c, <1>e
<1>1. Typed'
    BY Within, <1>a, <1>b, <1>c, <1>e, <1>f DEF IInv, Typed, TypeOK, Steps
<1>2. Control'
    BY <1>1, Within, <1>a, <1>b, <1>c, <1>e, <1>f DEF IInv, Control, PoolEmpty, Typed, TypeOK
<1>3. InPhase'
    <2>1. BeforeFilter' = BeforeFilter /\ meta'.phase = "filter" /\ at' = "filter"
        BY <1>c DEF BeforeFilter
    <2>2. (\A n \in Listed : row[n].phase \in {Found(meta.phase), Left(meta.phase)})'
        BY Within, <1>a, <1>f, <2>1 DEF Found, Left
    <2>3. (Over => \A n \in Listed : row[n].phase = Left(at))'
        BY Within, <1>a, <1>c, <1>f, <2>1 DEF Over, Left
    <2> QED BY <1>c, <2>1, <2>2, <2>3 DEF InPhase
<1>4. (\A n \in Names : RowSound(n))'
    BY <1>1, Within, <1>a, <1>b, <1>c, <1>e, <1>f DEF IInv, Control, InPhase, Found, Left,
       RowSound, Unfiltered, Unhashed, Undeduped, Verdict, Errors, Listed, BeforeHash,
       BeforeFilter, BeforeDedup
<1>5. Canonicals'
    <2>1. \A n \in Names : row'[n].canonical = NULL
        BY <1>f
    <2>2. \A n \in Regular' : n \in Names /\ row'[n].phase \in Undeduped
        BY Within, <1>a, <1>f DEF Undeduped
    <2> QED BY <2>1, <2>2 DEF Canonicals
<1>6. Walked'
    BY <1>1, Within, <1>a, <1>b, <1>c, <1>e, <1>f DEF IInv, Control, Walked, Over
<1>7. OneName'
    BY <1>1, Within, <1>a, <1>b, <1>c, <1>e, <1>f DEF IInv, Control, OneName, Filtered, Over,
       SameInode
<1>8. HashPool'
    BY <1>1, Within, <1>a, <1>b, <1>c, <1>e, <1>f DEF IInv, Control, HashPool, Answered,
       PoolEmpty
<1>9. Copies'
    BY <1>1, Within, <1>a, <1>b, <1>c, <1>e, <1>f DEF IInv, Control, Copies, Answered,
       PoolEmpty, Flagged, In
<1>10. Links'
    BY <1>1, Within, <1>a, <1>b, <1>c, <1>e, <1>f DEF Control, Links, LinkRight, PoolEmpty, In,
       Candidate
<1>11. Checked'
    BY <1>1, Within, <1>a, <1>b, <1>c, <1>e, <1>f DEF Control, Checked, A1, A7, Flagged
<1>12. Stands
    <2>1. Left(meta.phase) = "filtered"
        BY <1>c DEF Left
    <2>2. ASSUME NEW n \in Listed
          PROVE  /\ row'[n].phase \in {row[n].phase, Left(meta.phase)}
                 /\ row[n].verdict # "unset" => row'[n].verdict = row[n].verdict
                 /\ row[n].sha => row'[n].sha
                 /\ row[n].canonical # NULL => row'[n].canonical = row[n].canonical
                 /\ row[n].stored => row'[n].stored
                 /\ row[n].flags \ {"linkCanonical"} \subseteq row'[n].flags
        <3>1. /\ n \in Names /\ (row[n].phase \in Unfiltered => row[n].verdict = "unset")
              /\ row[n].phase \notin Unfiltered => row[n].verdict = Verdict(n)
            BY Within DEF IInv, RowSound, Listed
        <3>2. /\ row'[n].sha = row[n].sha /\ row'[n].canonical = row[n].canonical
              /\ row'[n].flags = row[n].flags /\ row'[n].stored = row[n].stored
              /\ row'[n].phase = IF n \in S THEN "filtered" ELSE row[n].phase
              /\ row'[n].verdict = IF n \in S THEN Verdict(n) ELSE row[n].verdict
            BY <1>e, <3>1
        <3>3. CASE n \in S
            <4>1. row'[n].phase = "filtered" /\ row'[n].verdict = Verdict(n)
                BY <3>2, <3>3
            <4> QED BY <2>1, <3>1, <3>2, <4>1
        <3>4. CASE n \notin S
            <4>1. row'[n].phase = row[n].phase /\ row'[n].verdict = row[n].verdict
                BY <3>2, <3>4
            <4> QED BY <3>2, <4>1
        <3> QED BY <3>3, <3>4
    <2> QED BY <2>2, StandsWhen
<1> QED BY <1>1, <1>2, <1>3, <1>4, <1>5, <1>6, <1>7, <1>8, <1>9, <1>10, <1>11, <1>12 DEF IInv, Sound

\* Either the flag moves, for all names of an inode alike, to a kept one, or it
\* stays and is on a kept one if there is any.
LEMMA FixUpCanonicalFlagSound == ASSUME IInv, FixUpCanonicalFlag PROVE Sound
<1>c. /\ UNCHANGED <<world, queue, meta, files, at, todo, pool, shutdown, outcome, launches>>
      /\ at = "filter" /\ pc = "enter" /\ meta.phase = "filter" /\ pc' = "verify"
    BY DEF FixUpCanonicalFlag, Doing, IInv, Control
<1> USE DEF queue, files, pool
<1> DEFINE S == {n \in Listed : world.detect /\ Stale(n)}
           L(n) == LeastOf(SameInode(n) \cap Kept)
<1>b. /\ row \in [Names -> Row] /\ S \subseteq Listed
      /\ \A n \in Listed : row[n].phase = "filtered"
      /\ row' = [n \in Names |->
            IF n \in S THEN [row[n] EXCEPT !.flags = (@ \ {"linkCanonical"}) \cup
                               (IF n = L(n) THEN {"linkCanonical"} ELSE {})]
            ELSE row[n]]
    <2>1. row \in [Names -> Row] /\ S \subseteq Listed
        BY DEF IInv, Typed, TypeOK
    <2>2. \A n \in Listed : row[n].phase = "filtered"
        BY <1>c, Within DEF FixUpCanonicalFlag, IInv, InPhase, Found, Left, In
    <2>3. row' = [n \in Names |->
            IF n \in S THEN [row[n] EXCEPT !.flags = (@ \ {"linkCanonical"}) \cup
                               (IF n = L(n) THEN {"linkCanonical"} ELSE {})]
            ELSE row[n]]
        BY DEF FixUpCanonicalFlag
    <2> QED BY <2>1, <2>2, <2>3
<1>d. \A n \in S : n \in Listed /\ world.detect /\ Stale(n)
    OBVIOUS
<1>f. \A n \in Listed \ S : world.detect => ~ Stale(n)
    OBVIOUS
<1>e. /\ row' \in [Names -> Row]
      /\ \A n \in Names :
            /\ row'[n].phase = row[n].phase
            /\ row'[n].flags = IF n \in S THEN (row[n].flags \ {"linkCanonical"}) \cup
                                   (IF n = L(n) THEN {"linkCanonical"} ELSE {})
                               ELSE row[n].flags
            /\ row'[n].sha = row[n].sha
            /\ row'[n].verdict = row[n].verdict
            /\ row'[n].canonical = row[n].canonical
            /\ row'[n].stored = row[n].stored
    BY <1>b DEF Row, Flag
<1>a. /\ Listed' = Listed /\ Regular' = Regular /\ Hashed' = Hashed /\ Kept' = Kept
      /\ Candidate' = Candidate
      /\ Standing' = {n \in Names : IF n \in S THEN n = L(n) ELSE n \in Standing}
    <2>1. Listed' = Listed /\ Hashed' = Hashed /\ Kept' = Kept
        BY <1>e DEF Listed, Hashed, Kept
    <2>2. Regular' = Regular
        BY <1>c, <2>1 DEF Regular
    <2>3. Candidate' = Candidate
        BY <1>e, <2>1, <2>2, Within DEF Candidate
    <2>4. Standing' = {n \in Names : IF n \in S THEN n = L(n) ELSE n \in Standing}
        BY <1>e DEF Standing, Flagged
    <2> QED BY <2>1, <2>2, <2>3, <2>4
<1>1. Typed'
    BY Within, <1>a, <1>b, <1>c, <1>e DEF IInv, Typed, TypeOK, Steps
<1>2. Control'
    BY <1>1, Within, <1>a, <1>b, <1>c, <1>e DEF IInv, Control, PoolEmpty, Typed, TypeOK
<1>3. InPhase'
    BY <1>1, Within, <1>a, <1>b, <1>c, <1>e DEF Control, InPhase, Over, Found, Left, Listed,
       BeforeHash, BeforeFilter, BeforeDedup
<1>4. (\A n \in Names : RowSound(n))'
    BY <1>1, Within, <1>a, <1>b, <1>c, <1>e DEF IInv, Control, InPhase, Found, Left, RowSound,
       Unfiltered, Unhashed, Undeduped, Verdict, Errors, Listed, BeforeHash, BeforeFilter,
       BeforeDedup
<1>5. Canonicals'
    BY <1>1, Within, <1>a, <1>b, <1>c, <1>e DEF IInv, Control, Canonicals, Undeduped, Same
<1>6. Walked'
    BY <1>1, Within, <1>a, <1>b, <1>c, <1>e DEF IInv, Control, Walked, Over
<1>7. OneName'
    <2> SUFFICES ASSUME world.detect
                 PROVE  /\ \A n \in Listed, m \in Listed : world.inode[m] = world.inode[n] =>
                              (m \in Hashed <=> n \in Hashed)
                        /\ \A n \in Listed : \E m \in Listed : SameInode(n) \cap Standing' = {m}
                        /\ \A n \in Kept : \E m \in Kept : SameInode(n) \cap Standing' = {m}
        <3>1. \A n \in Names : SameInode(n)' = SameInode(n)
            BY <1>a, <1>c DEF SameInode
        <3>2. world' = world
            BY <1>c
        <3>3. \A n \in Listed \cup Kept : SameInode(n)' = SameInode(n)
            BY <3>1, Within
        <3>4. Listed' = Listed /\ Hashed' = Hashed /\ Kept' = Kept
            BY <1>a
        <3>5. ASSUME world.detect,
                     \A n \in Kept : \E m \in Kept : SameInode(n) \cap Standing' = {m}
              PROVE  \A n \in Kept' : \E m \in Kept' : SameInode(n)' \cap Standing' = {m}
            BY <3>3, <3>4, <3>5
        <3>6. ASSUME world.detect,
                     \A n \in Listed : \E m \in Listed : SameInode(n) \cap Standing' = {m}
              PROVE  \A n \in Listed' : \E m \in Listed' : SameInode(n)' \cap Standing' = {m}
            BY <3>3, <3>4, <3>6
        <3> QED BY <3>2, <3>4, <3>5, <3>6 DEF OneName
    <2>1. \A n \in Listed, m \in Listed : world.inode[m] = world.inode[n] =>
              (m \in Hashed <=> n \in Hashed)
        BY DEF IInv, OneName
    <2>2. ASSUME NEW n \in Listed
          PROVE  \E m \in Listed : /\ SameInode(n) \cap Standing' = {m}
                                   /\ n \in Kept => m \in Kept
        <3> DEFINE I == SameInode(n)
        <3>1. PICK m \in Listed : I \cap Standing = {m}
            BY <1>c DEF IInv, OneName
        <3>2. \A k \in I : k \in Listed /\ SameInode(k) = I
            BY InodeClass
        <3>3. /\ I \in SUBSET Names /\ n \in I
              /\ IsFiniteSet(I)
            BY <3>2, Within, CatalogueAssumption, FS_Subset DEF SameInode
        <3>4. CASE Stale(n)
            <4>1. \A k \in I : Stale(k) /\ L(k) = LeastOf(I \cap Kept)
                BY <3>2, <3>4 DEF Stale, L
            <4>2. I \subseteq S
                BY <3>2, <4>1, <1>f
            <4>3. LeastOf(I \cap Kept) \in I \cap Kept
                BY <3>3, <3>4, LeastIn DEF Stale
            <4>4. I \cap Standing' = {LeastOf(I \cap Kept)}
                BY <1>a, <3>3, <4>1, <4>2, <4>3
            <4> QED BY <3>2, <4>3, <4>4
        <3>5. CASE ~ Stale(n)
            <4>1. \A k \in I : ~ Stale(k)
                BY <3>2, <3>5 DEF Stale
            <4>2. I \cap S = {}
                BY <4>1, <1>d
            <4>3. I \cap Standing' = {m}
                BY <1>a, <3>1, <3>3, <4>2
            <4>4. ASSUME n \in Kept, m \notin Kept PROVE FALSE
                <5>1. (I \cap Flagged("linkCanonical")) \ Kept = {m}
                    BY <3>1, <4>4 DEF Standing
                <5>2. Cardinality({m}) = 1
                    BY FS_Singleton
                <5>3. ~ (Cardinality(I) > 1)
                    BY <3>3, <3>5, <4>4, <5>1, <5>2 DEF Stale
                <5>4. m # n /\ m \in I
                    BY <3>1, <4>4
                <5>5. Cardinality({m} \cup {n}) = 2
                    <6>1. IsFiniteSet({m}) /\ n \notin {m}
                        BY <5>4, FS_Singleton
                    <6> QED BY <5>2, <6>1, FS_AddElement
                <5>6. {m} \cup {n} \subseteq I
                    BY <3>3, <5>4
                <5>7. Cardinality({m} \cup {n}) <= Cardinality(I) /\ Cardinality(I) \in Nat
                    BY <3>3, <5>6, FS_Subset, FS_CardinalityType
                <5> QED BY <5>3, <5>5, <5>7
            <4> QED BY <4>3, <4>4
        <3> QED BY <3>4, <3>5
    <2> QED BY <2>1, <2>2, OnlyRows
<1>8. HashPool'
    BY <1>1, Within, <1>a, <1>b, <1>c, <1>e DEF IInv, Control, HashPool, Answered, PoolEmpty
<1>9. Copies'
    BY <1>1, Within, <1>a, <1>b, <1>c, <1>e DEF IInv, Control, Copies, Answered, PoolEmpty,
       Flagged, In
<1>10. Links'
    BY <1>1, Within, <1>a, <1>b, <1>c, <1>e DEF Control, Links, LinkRight, PoolEmpty, In
<1>11. Checked'
    BY <1>1, Within, <1>a, <1>b, <1>c, <1>e DEF Control, Checked, A1, A7, Flagged
<1>12. Stands
    BY Within, <1>a, <1>b, <1>c, <1>e, StandsWhen DEF Control, Left, Undeduped
<1> QED BY <1>1, <1>2, <1>3, <1>4, <1>5, <1>6, <1>7, <1>8, <1>9, <1>10, <1>11, <1>12 DEF IInv, Sound

\* A run finds all rows before the phase, or all behind it.
LEMMA DedupPhaseSound == ASSUME IInv, DedupPhase PROVE Sound
<1> DEFINE K == Regular \cap Hashed \cap Kept
           S == In(BeforeDedup)
<1>0. PICK bad \in SUBSET (gone \cap K) :
          row' = [n \in Names |->
            IF n \notin S THEN row[n]
            ELSE IF n \in bad THEN Flagging("dedupError", "deduped", row[n])
            ELSE [row[n] EXCEPT !.phase = "deduped",
                    !.canonical = IF n \in K THEN LeastOf(Same(n) \ bad) ELSE NULL]]
    BY DEF DedupPhase
<1>c. /\ UNCHANGED <<world, queue, meta, files, at, todo, pool, shutdown, outcome, launches>>
      /\ at = "dedup" /\ pc = "enter" /\ meta.phase = "dedup" /\ pc' = "verify"
      /\ PoolEmpty /\ PoolEmpty'
    BY DEF DedupPhase, Doing, IInv, Control, PoolEmpty, pool
<1> USE DEF queue, files, pool
<1> DEFINE L(n) == LeastOf(Same(n) \ bad)
<1>b. /\ row \in [Names -> Row] /\ NULL \notin Names
      /\ K \subseteq Listed /\ S \subseteq Listed /\ bad \subseteq K /\ bad \subseteq gone
      /\ S = {} \/ S = Listed
      /\ BeforeDedup \in {"hashed", "filtered"}
      /\ \A n \in Listed : row[n].phase \in {BeforeDedup, "deduped"}
      /\ \A n \in S : row[n].phase = BeforeDedup /\ row[n].canonical = NULL /\ ~ row[n].stored
      /\ \A n \in K \ bad : L(n) \in Same(n) \ bad
    <2>1. row \in [Names -> Row]
        BY DEF IInv, Typed, TypeOK
    <2>2. \A n \in Listed : row[n].phase \in {BeforeDedup, "deduped"}
        BY <1>c DEF IInv, InPhase, Found, Left
    <2>3. BeforeDedup \in {"hashed", "filtered"}
        BY DEF BeforeDedup
    <2>4. S = {} \/ S = Listed
        <3>1. S = {} \/ In("deduped") = {}
            BY <1>c DEF IInv, InPhase
        <3>2. In("deduped") = {} => \A n \in Names : n \in S <=> n \in Listed
            BY <2>2, <2>3 DEF In, Listed
        <3> QED BY <3>1, <3>2 DEF In, Listed
    <2>5. \A n \in S : row[n].phase = BeforeDedup /\ row[n].canonical = NULL /\ ~ row[n].stored
        BY <2>3 DEF In, IInv, RowSound, Undeduped
    <2>6. ASSUME NEW n \in K \ bad PROVE L(n) \in Same(n) \ bad
        <3>1. n \in Same(n) \ bad /\ Same(n) \ bad \in SUBSET Names
            BY <2>6, Within DEF Same
        <3> QED BY <3>1, LeastIn
    <2>7. S \subseteq Listed
        <3> HIDE DEF S
        <3> QED BY <2>4
    <2> QED BY <1>0, <2>1, <2>2, <2>3, <2>4, <2>5, <2>6, <2>7, Within, CatalogueAssumption
<1>d. /\ \A n \in S \cap bad : row'[n] = Flagging("dedupError", "deduped", row[n])
      /\ \A n \in S \ bad : row'[n] = [row[n] EXCEPT !.phase = "deduped",
                                          !.canonical = IF n \in K THEN L(n) ELSE NULL]
      /\ \A n \in Names \ S : row'[n] = row[n]
      /\ row' = [n \in Names |-> row'[n]]
    BY <1>0, <1>b, Within
<1> HIDE DEF K, S, L
<1>e. /\ row' \in [Names -> Row]
      /\ \A n \in Names :
            /\ row'[n].phase = IF n \in S THEN "deduped" ELSE row[n].phase
            /\ row'[n].flags = IF n \in S \cap bad THEN row[n].flags \cup {"dedupError"}
                               ELSE row[n].flags
            /\ row'[n].sha = row[n].sha
            /\ row'[n].verdict = row[n].verdict
            /\ row'[n].canonical = IF n \in S THEN (IF n \in K \ bad THEN L(n) ELSE NULL)
                                   ELSE row[n].canonical
            /\ row'[n].stored = row[n].stored
    <2>1. "dedupError" \in Flag /\ "deduped" \in RowPhase
        BY DEF Flag, RowPhase
    <2>2. ASSUME NEW n \in S \cap bad
          PROVE  /\ row'[n] \in Row
                 /\ row'[n].phase = "deduped"
                 /\ row'[n].flags = row[n].flags \cup {"dedupError"}
                 /\ row'[n].sha = row[n].sha /\ row'[n].verdict = row[n].verdict
                 /\ row'[n].canonical = NULL /\ row'[n].stored = row[n].stored
        <3>1. /\ n \in Names /\ row[n] \in Row
              /\ row'[n] = Flagging("dedupError", "deduped", row[n])
            BY <1>b, <1>d, Within
        <3>2. row[n].canonical = NULL
            BY <1>b
        <3> QED BY <2>1, <3>1, <3>2, FlaggingRow
    <2>3. ASSUME NEW n \in S \ bad
          PROVE  /\ row'[n] \in Row
                 /\ row'[n].phase = "deduped" /\ row'[n].flags = row[n].flags
                 /\ row'[n].sha = row[n].sha /\ row'[n].verdict = row[n].verdict
                 /\ row'[n].canonical = IF n \in K THEN L(n) ELSE NULL
                 /\ row'[n].stored = row[n].stored
        <3>1. /\ n \in Names /\ row[n] \in Row
              /\ row'[n] = [row[n] EXCEPT !.phase = "deduped",
                                !.canonical = IF n \in K THEN L(n) ELSE NULL]
            BY <1>b, <1>d, Within
        <3>2. n \in K => L(n) \in Names
            BY <1>b, Within DEF Same
        <3>3. (IF n \in K THEN L(n) ELSE NULL) \in Names \cup {NULL}
            BY <3>2
        <3> QED BY <2>1, <3>1, <3>3 DEF Row
    <2>4. \A n \in Names \ S : row'[n] = row[n] /\ row'[n] \in Row
        BY <1>b, <1>d
    <2>5. row' \in [Names -> Row]
        BY <1>d, <2>2, <2>3, <2>4
    <2>6. ASSUME NEW n \in Names
          PROVE  /\ row'[n].phase = IF n \in S THEN "deduped" ELSE row[n].phase
                 /\ row'[n].flags = IF n \in S \cap bad THEN row[n].flags \cup {"dedupError"}
                                    ELSE row[n].flags
                 /\ row'[n].sha = row[n].sha
                 /\ row'[n].verdict = row[n].verdict
                 /\ row'[n].canonical = IF n \in S THEN (IF n \in K \ bad THEN L(n) ELSE NULL)
                                        ELSE row[n].canonical
                 /\ row'[n].stored = row[n].stored
        <3>1. CASE n \in S \cap bad
            BY <2>2, <3>1
        <3>2. CASE n \in S \ bad
            BY <2>3, <3>2
        <3>3. CASE n \notin S
            BY <2>4, <3>3
        <3> QED BY <3>1, <3>2, <3>3
    <2> QED BY <2>5, <2>6
<1>f. ASSUME NEW n \in Names
      PROVE  /\ row'[n].phase = "none" <=> row[n].phase = "none"
             /\ "linkCanonical" \in row'[n].flags <=> "linkCanonical" \in row[n].flags
             /\ "hasSparse" \in row'[n].flags <=> "hasSparse" \in row[n].flags
             /\ n \in Listed => row'[n].phase = "deduped"
    <2>1. row'[n].flags \in {row[n].flags, row[n].flags \cup {"dedupError"}}
        BY <1>e
    <2>2. row'[n].phase = IF n \in S THEN "deduped" ELSE row[n].phase
        BY <1>e
    <2>3. n \in Listed => row'[n].phase = "deduped"
        BY <1>b, <2>2 DEF S, In
    <2>4. row'[n].phase = "none" <=> row[n].phase = "none"
        BY <1>b, <2>2, <2>3
    <2> QED BY <2>1, <2>3, <2>4
<1>a. /\ Listed' = Listed /\ Regular' = Regular /\ Hashed' = Hashed /\ Kept' = Kept
      /\ Standing' = Standing /\ Flagged("hasSparse")' = Flagged("hasSparse")
      /\ \A n \in Names : SameInode(n)' = SameInode(n) /\ Same(n)' = Same(n)
    <2>1. Listed' = Listed /\ Hashed' = Hashed /\ Kept' = Kept
        BY <1>e, <1>f DEF Listed, Hashed, Kept
    <2>2. Standing' = Standing /\ Flagged("hasSparse")' = Flagged("hasSparse")
        BY <1>f DEF Standing, Flagged
    <2>3. Regular' = Regular
        BY <1>c, <2>1 DEF Regular
    <2>4. \A n \in Names : SameInode(n)' = SameInode(n) /\ Same(n)' = Same(n)
        BY <1>c, <2>1, <2>3 DEF SameInode, Same
    <2> QED BY <2>1, <2>2, <2>3, <2>4
<1>1. Typed'
    BY Within, <1>a, <1>b, <1>c, <1>e DEF IInv, Typed, TypeOK, Steps
<1>2. Control'
    BY <1>1, Within, <1>a, <1>b, <1>c, <1>e DEF Control, PoolEmpty, Typed, TypeOK
<1>3. InPhase'
    <2>1. (\A n \in Listed : row[n].phase = "deduped")'
        BY <1>a, <1>f, Within
    <2>2. In(BeforeDedup)' = {}
        BY <1>c, <2>1 DEF In, BeforeDedup, Listed
    <2> QED BY <1>c, <2>1, <2>2 DEF InPhase, Over, Found, Left
<1>4. (\A n \in Names : RowSound(n))'
    <2> SUFFICES ASSUME NEW n \in Names PROVE RowSound(n)'
        OBVIOUS
    <2>1. RowSound(n)
        BY DEF IInv
    <2>2. Unfiltered' = Unfiltered /\ Unhashed' = Unhashed /\ Verdict(n)' = Verdict(n)
        BY <1>c DEF Unfiltered, Unhashed, Verdict
    <2>3. CASE n \in S
        <3>1. /\ row[n].phase = BeforeDedup /\ ~ row[n].stored
              /\ row'[n].phase = "deduped" /\ row'[n].sha = row[n].sha
              /\ row'[n].verdict = row[n].verdict /\ row'[n].stored = row[n].stored
              /\ \/ row'[n].flags = row[n].flags
                 \/ row'[n].flags = row[n].flags \cup {"dedupError"} /\ n \in gone
            BY <1>b, <1>e, <2>3
        <3> QED BY <1>c, <2>1, <2>2, <3>1 DEF RowSound, BeforeDedup, Unfiltered, Unhashed, Undeduped,
           Errors
    <2>4. CASE n \notin S
        <3>1. row'[n] = row[n]
            BY <1>d, <2>4
        <3> QED BY <1>c, <2>1, <2>2, <3>1 DEF RowSound
    <2> QED BY <2>3, <2>4
<1>5. Canonicals'
    <2>1. CASE S = {}
        <3>1. \A n \in Names : row'[n] = row[n]
            BY <1>d, <2>1
        <3> QED BY <1>a, <3>1, Within DEF IInv, Canonicals, Same
    <2>2. CASE S = Listed
        <3>1. \A n \in K : n \in S /\ n \in Names
            BY <1>b, <2>2, Within
        <3>2. \A n \in Names : row'[n].canonical = IF n \in K \ bad THEN L(n) ELSE NULL
            <4>1. \A n \in Names \ Listed : row[n].canonical = NULL
                BY DEF IInv, RowSound, Listed
            <4> QED BY <1>b, <1>e, <2>2, <3>1, <4>1
        <3>3. \A n \in K, m \in K : m \in Same(n) => Same(m) = Same(n) /\ L(m) = L(n)
            BY DEF Same, L
        <3>4. \A n \in K \ bad : L(n) \in K \ bad /\ L(n) \in Same(n) /\ L(n) # NULL
            BY <1>b, Within DEF Same, K
        <3>5. \A n \in Names : row'[n].canonical # NULL =>
                 /\ n \in K /\ row'[n].canonical \in Same(n)
                 /\ \A m \in Same(n) : row'[m].canonical \in {NULL, row'[n].canonical}
                 /\ row'[row'[n].canonical].canonical = row'[n].canonical
            <4> SUFFICES
                  ASSUME NEW n \in Names, row'[n].canonical # NULL
                  PROVE  /\ n \in K /\ row'[n].canonical \in Same(n)
                         /\ \A m \in Same(n) : row'[m].canonical \in {NULL, row'[n].canonical}
                         /\ row'[row'[n].canonical].canonical = row'[n].canonical
                OBVIOUS
            <4>1. n \in K \ bad /\ row'[n].canonical = L(n)
                BY <3>2
            <4>2. \A m \in Same(n) : m \in K /\ m \in Names
                BY Within DEF Same, K
            <4>3. \A m \in Same(n) : row'[m].canonical \in {NULL, L(n)}
                BY <3>2, <3>3, <4>1, <4>2
            <4>4. row'[L(n)].canonical = L(n)
                BY <3>2, <3>3, <3>4, <4>1, <4>2
            <4> QED BY <3>4, <4>1, <4>3, <4>4
        <3>6. \A n \in K : row'[n].canonical = NULL => "dedupError" \in row'[n].flags
            <4> SUFFICES ASSUME NEW n \in K, row'[n].canonical = NULL
                         PROVE  "dedupError" \in row'[n].flags
                OBVIOUS
            <4>1. n \in Names /\ n \in S /\ n \in bad
                BY <3>1, <3>2, <3>4
            <4>2. row'[n].flags = row[n].flags \cup {"dedupError"}
                BY <1>e, <4>1
            <4> QED BY <4>2
        <3> QED BY <1>a, <3>5, <3>6, Within DEF Canonicals, K
    <2> QED BY <1>b, <2>1, <2>2
<1>6. Walked'
    BY <1>1, Within, <1>a, <1>b, <1>c, <1>e DEF IInv, Control, Walked, Over
<1>7. OneName'
    BY <1>1, Within, <1>a, <1>b, <1>c, <1>e DEF IInv, Control, OneName, Filtered, Over,
       SameInode
<1>8. HashPool'
    BY <1>1, Within, <1>a, <1>b, <1>c, <1>e DEF Control, HashPool, Answered, PoolEmpty
<1>9. Copies'
    BY <1>a, <1>c DEF IInv, Copies
<1>10. Links'
    <2>1. \A n \in Listed' : row'[n].phase = "deduped"
        BY <1>a, <1>f, Within
    <2>2. (\A n \in Candidate \cap Hashed : row[n].phase \notin {"staged", "archived"})'
        BY <2>1 DEF Candidate, Regular
    <2> QED BY <1>c, <2>2 DEF Links
<1>11. Checked'
    BY <1>1, Within, <1>a, <1>b, <1>c, <1>e DEF Control, Checked, A1, A7, Flagged
<1>12. Stands
    <2>1. Left(meta.phase) = "deduped"
        BY <1>c DEF Left
    <2>2. ASSUME NEW n \in Listed
          PROVE  /\ row'[n].phase \in {row[n].phase, Left(meta.phase)}
                 /\ row[n].verdict # "unset" => row'[n].verdict = row[n].verdict
                 /\ row[n].sha => row'[n].sha
                 /\ row[n].canonical # NULL => row'[n].canonical = row[n].canonical
                 /\ row[n].stored => row'[n].stored
                 /\ row[n].flags \ {"linkCanonical"} \subseteq row'[n].flags
        <3>1. n \in Names /\ row'[n].flags \in {row[n].flags, row[n].flags \cup {"dedupError"}}
            BY <1>e, Within
        <3>2. /\ row'[n].phase \in {row[n].phase, "deduped"} /\ row'[n].sha = row[n].sha
              /\ row'[n].verdict = row[n].verdict /\ row'[n].stored = row[n].stored
              /\ n \notin S => row'[n].canonical = row[n].canonical
            BY <1>e, <3>1
        <3>3. n \in S => row[n].canonical = NULL
            BY <1>b
        <3> QED BY <2>1, <3>1, <3>2, <3>3
    <2> QED BY <2>2, StandsWhen
<1> QED BY <1>1, <1>2, <1>3, <1>4, <1>5, <1>6, <1>7, <1>8, <1>9, <1>10, <1>11, <1>12 DEF IInv, Sound

LEMMA PromoteSparseSound == ASSUME IInv, PromoteSparse PROVE Sound
<1>c. /\ UNCHANGED <<world, hashQueue, meta, files, at, todo, pool, shutdown, outcome,
                     launches>>
      /\ sparseQueue' \in {sparseQueue, {}}
      /\ at = "sparsify" /\ pc = "enter"
      /\ pc' = IF world.sparsify THEN "queue" ELSE "verify"
    BY DEF PromoteSparse, Doing
<1> USE DEF queue, files, pool
<1> DEFINE S == IF world.sparsify THEN In("deduped") \ SparseCandidate ELSE In("deduped")
<1>b. /\ UNCHANGED world /\ S \in SUBSET Listed
      /\ "sparsified" \in RowPhase /\ "sparsified" # "none"
      /\ row' = [n \in Names |->
                   IF n \in S THEN [row[n] EXCEPT !.phase = "sparsified"] ELSE row[n]]
    BY DEF PromoteSparse, Update, To, In, Listed, RowPhase
<1>a. /\ row' \in [Names -> Row]
      /\ \A n \in Names :
            /\ row'[n].phase = IF n \in S THEN "sparsified" ELSE row[n].phase
            /\ row'[n].flags = row[n].flags
            /\ row'[n].sha = row[n].sha
            /\ row'[n].verdict = row[n].verdict
            /\ row'[n].canonical = row[n].canonical
            /\ row'[n].stored = row[n].stored
      /\ Listed' = Listed
      /\ Regular' = Regular
      /\ Hashed' = Hashed
      /\ Kept' = Kept
      /\ Standing' = Standing
      /\ Candidate' = Candidate
    BY <1>b, PhaseOnly
<1>1. Typed'
    BY Within, <1>a, <1>b, <1>c DEF IInv, Typed, TypeOK, Steps
<1>2. Control'
    BY <1>1, Within, <1>a, <1>b, <1>c DEF IInv, Control, PoolEmpty, Typed, TypeOK
<1>3. InPhase'
    BY <1>1, Within, <1>a, <1>b, <1>c DEF IInv, Control, InPhase, Over, Found, Left, Listed,
       BeforeHash, BeforeFilter, BeforeDedup, S, In
<1>4. (\A n \in Names : RowSound(n))'
    BY <1>1, Within, <1>a, <1>b, <1>c DEF IInv, Control, InPhase, Found, Left, RowSound,
       Unfiltered, Unhashed, Undeduped, Verdict, Errors, Listed, BeforeHash, BeforeFilter,
       BeforeDedup
<1>5. Canonicals'
    BY <1>1, Within, <1>a, <1>b, <1>c DEF IInv, Control, Canonicals, Undeduped, Same, S, In
<1>6. Walked'
    BY <1>1, Within, <1>a, <1>b, <1>c DEF IInv, Control, Walked, Over
<1>7. OneName'
    BY <1>1, Within, <1>a, <1>b, <1>c DEF IInv, Control, OneName, Filtered, Over, SameInode
<1>8. HashPool'
    BY <1>1, Within, <1>a, <1>b, <1>c DEF IInv, Control, HashPool, Answered, PoolEmpty
<1>9. Copies'
    BY <1>1, Within, <1>a, <1>b, <1>c DEF IInv, Control, Copies, Answered, PoolEmpty, Flagged,
       In
<1>10. Links'
    BY <1>1, Within, <1>a, <1>b, <1>c DEF IInv, Control, Links, LinkRight, PoolEmpty, In
<1>11. Checked'
    BY <1>1, Within, <1>a, <1>b, <1>c DEF IInv, Control, Checked, A1, A7, Flagged
<1>12. Stands
    BY Within, <1>a, <1>b, <1>c, StandsWhen DEF IInv, Control, Left, Undeduped
<1> QED BY <1>1, <1>2, <1>3, <1>4, <1>5, <1>6, <1>7, <1>8, <1>9, <1>10, <1>11, <1>12 DEF IInv, Sound

LEMMA PopulateSparseQueueSound == ASSUME IInv, PopulateSparseQueue PROVE Sound
<1> SUFFICES ASSUME ~ Exit("panic") PROVE Sound
    <2>1. CASE Exit("panic")
        BY <2>1, ExitSound DEF PopulateSparseQueue, SparseDone, queue, files, Exit, Populated,
           Doing
    <2> QED BY <2>1
<1>c. /\ UNCHANGED <<world, row, hashQueue, meta, files, at, todo, waiting, reading, answers,
                     shutdown, outcome, launches>>
      /\ at = "sparsify" /\ pc = "queue" /\ meta.phase = "sparsify" /\ pulled' = {}
      /\ PoolEmpty /\ pc' \in {"pool", "verify"}
      /\ pc' = "verify" => In("deduped") = {}
      /\ sparseQueue' \in {{}, sparseQueue, SparseCandidate}
    <2>1. /\ at = "sparsify" /\ pc = "queue" /\ meta.phase = "sparsify" /\ PoolEmpty
        BY DEF PopulateSparseQueue, Doing, IInv, Control
    <2>2. CASE SparseCandidate \cap PendingSparse = {}
        <3>1. sparseQueue' = {} /\ SparseDone
            BY <2>2 DEF PopulateSparseQueue
        <3>2. In("deduped") = {}
            BY <3>1 DEF SparseDone
        <3> QED BY <2>1, <3>1, <3>2 DEF PopulateSparseQueue, SparseDone, PoolEmpty, pool
    <2>3. CASE SparseCandidate \cap PendingSparse # {}
        BY <2>1, <2>3 DEF PopulateSparseQueue, Populated, PoolEmpty, pool
    <2> QED BY <2>2, <2>3
<1> USE DEF queue, files, pool
<1>a. /\ Listed' = Listed /\ Regular' = Regular /\ Hashed' = Hashed /\ Kept' = Kept
      /\ Standing' = Standing /\ Candidate' = Candidate
      /\ \A n \in Names : SameInode(n)' = SameInode(n)
    BY <1>c DEF Listed, Regular, Hashed, Kept, Standing, Flagged, Candidate, SameInode
<1>1. Typed'
    BY Within, <1>a, <1>c DEF IInv, Typed, TypeOK, Steps, SparseCandidate, PoolEmpty
<1>2. Control'
    BY <1>1, Within, <1>a, <1>c DEF Control, PoolEmpty, Typed, TypeOK
<1>3. InPhase'
    BY <1>1, Within, <1>a, <1>c DEF IInv, Control, InPhase, Over, Found, Left, Listed,
       BeforeHash, BeforeFilter, BeforeDedup, In
<1>4. (\A n \in Names : RowSound(n))' /\ Canonicals' /\ Stands
    BY <1>a, <1>c, RowsStay
<1>5. Walked'
    BY <1>1, Within, <1>a, <1>c DEF IInv, Control, Walked, Over
<1>6. OneName'
    BY <1>1, Within, <1>a, <1>c DEF IInv, Control, OneName, Filtered, Over, SameInode
<1>7. HashPool'
    BY <1>1, Within, <1>a, <1>c DEF Control, HashPool, Answered, PoolEmpty
<1>8. Copies'
    BY <1>1, Within, <1>a, <1>c DEF IInv, Control, Copies, Answered, PoolEmpty, Flagged, In
<1>9. Links'
    BY <1>1, Within, <1>a, <1>c DEF IInv, Control, Links, LinkRight, PoolEmpty, In
<1>10. Checked'
    BY <1>1, Within, <1>a, <1>c DEF IInv, Control, Checked, A1, A7, Flagged
<1> QED BY <1>1, <1>2, <1>3, <1>4, <1>5, <1>6, <1>7, <1>8, <1>9, <1>10 DEF IInv, Sound

LEMMA PullSparseSound == ASSUME IInv, PullSparse PROVE Sound
<1>0. PICK x \in (sparseQueue \cap PendingSparse) \ pulled :
          pulled' = pulled \cup {x} /\ waiting' = waiting \cup {x}
    BY DEF PullSparse, Pull
<1>c. /\ UNCHANGED <<world, row, queue, meta, files, pc, at, todo, reading, answers, shutdown,
                     outcome, launches>>
      /\ at = "sparsify" /\ pc = "pool" /\ meta.phase = "sparsify" /\ x \in Names
      /\ x \in In("deduped") /\ x \notin pulled
    BY <1>0 DEF PullSparse, Pull, PendingSparse, In, IInv, Control
<1> USE DEF queue, files, pool
<1>a. /\ Listed' = Listed /\ Regular' = Regular /\ Hashed' = Hashed /\ Kept' = Kept
      /\ Standing' = Standing /\ Candidate' = Candidate
      /\ \A n \in Names : SameInode(n)' = SameInode(n)
    BY <1>c DEF Listed, Regular, Hashed, Kept, Standing, Flagged, Candidate, SameInode
<1>1. Typed'
    BY Within, <1>0, <1>a, <1>c DEF IInv, Typed, TypeOK, Steps
<1>2. Control'
    BY <1>1, Within, <1>0, <1>a, <1>c DEF Control, PoolEmpty, Typed, TypeOK
<1>3. InPhase'
    BY <1>1, Within, <1>0, <1>a, <1>c DEF IInv, Control, InPhase, Over, Found, Left, Listed,
       BeforeHash, BeforeFilter, BeforeDedup
<1>4. (\A n \in Names : RowSound(n))' /\ Canonicals' /\ Stands
    BY <1>0, <1>a, <1>c, RowsStay
<1>5. Walked'
    BY <1>1, Within, <1>0, <1>a, <1>c DEF IInv, Control, Walked, Over
<1>6. OneName'
    BY <1>1, Within, <1>0, <1>a, <1>c DEF IInv, Control, OneName, Filtered, Over, SameInode
<1>7. HashPool'
    BY <1>1, Within, <1>0, <1>a, <1>c DEF Control, HashPool, Answered, PoolEmpty
<1>8. Copies'
    BY <1>1, Within, <1>0, <1>a, <1>c DEF IInv, Control, Copies, Answered, PoolEmpty, Flagged,
       In
<1>9. Links'
    BY <1>1, Within, <1>0, <1>a, <1>c DEF IInv, Control, Links, LinkRight, PoolEmpty, In
<1>10. Checked'
    BY <1>1, Within, <1>0, <1>a, <1>c DEF IInv, Control, Checked, A1, A7, Flagged
<1> QED BY <1>1, <1>2, <1>3, <1>4, <1>5, <1>6, <1>7, <1>8, <1>9, <1>10 DEF IInv, Sound

LEMMA OpenSparseSound == ASSUME IInv, OpenSparse PROVE Sound
<1>0. PICK x \in waiting :
          /\ waiting' = waiting \ {x} /\ reading' = reading \cup {x}
          /\ sparse' = IF x \in gone THEN sparse ELSE [sparse EXCEPT ![x] = "partial"]
    BY DEF OpenSparse
<1>c. /\ UNCHANGED <<world, row, queue, meta, gone, link, tape, pc, at, todo, pulled, answers,
                     shutdown, outcome, launches>>
      /\ at = "sparsify" /\ pc = "pool" /\ meta.phase = "sparsify" /\ x \in Names
      /\ sparse' \in [Names -> {"none", "partial", "whole"}]
      /\ \A n \in Names : n # x => sparse'[n] = sparse[n]
      /\ "hasSparse" \notin row[x].flags /\ x \notin Answered
    <2>1. row[x].phase = "deduped"
        BY <1>0 DEF OpenSparse, Doing, IInv, Copies, In
    <2> QED BY <1>0, <2>1 DEF OpenSparse, Doing, IInv, Control, Typed, TypeOK, Copies, In, RowSound
<1> USE DEF queue, files, pool
<1>a. /\ Listed' = Listed /\ Regular' = Regular /\ Hashed' = Hashed /\ Kept' = Kept
      /\ Standing' = Standing /\ Candidate' = Candidate
      /\ \A n \in Names : SameInode(n)' = SameInode(n)
    BY <1>c DEF Listed, Regular, Hashed, Kept, Standing, Flagged, Candidate, SameInode
<1>1. Typed'
    BY Within, <1>0, <1>a, <1>c DEF IInv, Typed, TypeOK, Steps
<1>2. Control'
    BY <1>1, Within, <1>0, <1>a, <1>c DEF Control, PoolEmpty, Typed, TypeOK
<1>3. InPhase'
    BY <1>1, Within, <1>0, <1>a, <1>c DEF IInv, Control, InPhase, Over, Found, Left, Listed,
       BeforeHash, BeforeFilter, BeforeDedup
<1>4. (\A n \in Names : RowSound(n))' /\ Canonicals' /\ Stands
    BY <1>0, <1>a, <1>c, RowsStay
<1>5. Walked'
    BY <1>1, Within, <1>0, <1>a, <1>c DEF IInv, Control, Walked, Over
<1>6. OneName'
    BY <1>1, Within, <1>0, <1>a, <1>c DEF IInv, Control, OneName, Filtered, Over, SameInode
<1>7. HashPool'
    BY <1>1, Within, <1>0, <1>a, <1>c DEF Control, HashPool, Answered, PoolEmpty
<1>8. Copies'
    <2>1. \A n \in Names : <<n, "ok">> \in answers' => sparse'[n] = "whole"
        BY <1>0, <1>c DEF IInv, Copies, Answered, Result
    <2>2. \A n \in Flagged("hasSparse")' : sparse'[n] = "whole"
        BY <1>c DEF IInv, Copies, Flagged
    <2>3. Answered' = Answered
        BY <1>c DEF Answered
    <2>4. /\ waiting' \cup reading' \cup Answered' \subseteq pulled' \cap In("deduped")'
          /\ waiting' \cap reading' = {} /\ (waiting' \cup reading') \cap Answered' = {}
          /\ \A a \in answers', b \in answers' : a[1] = b[1] => a = b
        BY <1>0, <1>c, <2>3 DEF IInv, Copies, In
    <2> QED BY <2>1, <2>2, <2>4 DEF Copies
<1>9. Links'
    BY <1>1, Within, <1>0, <1>a, <1>c DEF IInv, Control, Links, LinkRight, PoolEmpty, In
<1>10. Checked'
    BY <1>1, Within, <1>0, <1>a, <1>c DEF IInv, Control, Checked, A1, A7, Flagged
<1> QED BY <1>1, <1>2, <1>3, <1>4, <1>5, <1>6, <1>7, <1>8, <1>9, <1>10 DEF IInv, Sound

\* The row of a copy that is being made says nothing of one yet.
LEMMA CopySparseSound == ASSUME IInv, CopySparse PROVE Sound
<1>0. PICK x \in reading, r \in Result :
          /\ r = "ok" => sparse[x] = "partial"
          /\ r = "failed" => x \in gone
          /\ r = "aborted" => shutdown = "force"
          /\ reading' = reading \ {x} /\ answers' = answers \cup {<<x, r>>}
          /\ sparse' = [sparse EXCEPT ![x] = IF r = "ok" THEN "whole" ELSE "none"]
    BY DEF CopySparse
<1>c. /\ UNCHANGED <<world, row, queue, meta, gone, link, tape, pc, at, todo, pulled, waiting,
                     shutdown, outcome, launches>>
      /\ at = "sparsify" /\ pc = "pool" /\ meta.phase = "sparsify" /\ x \in Names
      /\ sparse' \in [Names -> {"none", "partial", "whole"}]
      /\ \A n \in Names : n # x => sparse'[n] = sparse[n]
      /\ r = "ok" => sparse'[x] = "whole"
      /\ "hasSparse" \notin row[x].flags /\ x \notin Answered
      /\ Answered' = Answered \cup {x}
    <2>1. row[x].phase = "deduped" /\ x \notin Answered
        BY <1>0 DEF CopySparse, Doing, IInv, Copies, In
    <2>2. Answered' = Answered \cup {x}
        BY <1>0 DEF Answered, IInv, Typed, TypeOK
    <2> QED BY <1>0, <2>1, <2>2 DEF CopySparse, Doing, IInv, Control, Typed, TypeOK, In, RowSound
<1> USE DEF queue, files, pool
<1>a. /\ Listed' = Listed /\ Regular' = Regular /\ Hashed' = Hashed /\ Kept' = Kept
      /\ Standing' = Standing /\ Candidate' = Candidate
      /\ \A n \in Names : SameInode(n)' = SameInode(n)
    BY <1>c DEF Listed, Regular, Hashed, Kept, Standing, Flagged, Candidate, SameInode
<1>1. Typed'
    BY Within, <1>0, <1>a, <1>c DEF IInv, Typed, TypeOK, Steps
<1>2. Control'
    BY <1>1, Within, <1>0, <1>a, <1>c DEF Control, PoolEmpty, Typed, TypeOK
<1>3. InPhase'
    BY <1>1, Within, <1>0, <1>a, <1>c DEF IInv, Control, InPhase, Over, Found, Left, Listed,
       BeforeHash, BeforeFilter, BeforeDedup
<1>4. (\A n \in Names : RowSound(n))' /\ Canonicals' /\ Stands
    BY <1>0, <1>a, <1>c, RowsStay
<1>5. Walked'
    BY <1>1, Within, <1>0, <1>a, <1>c DEF IInv, Control, Walked, Over
<1>6. OneName'
    BY <1>1, Within, <1>0, <1>a, <1>c DEF IInv, Control, OneName, Filtered, Over, SameInode
<1>7. HashPool'
    BY <1>1, Within, <1>0, <1>a, <1>c DEF Control, HashPool, Answered, PoolEmpty
<1>8. Copies'
    <2>1. \A n \in Answered : \A r1 \in Result : <<n, r1>> \in answers' => <<n, r1>> \in answers
        BY <1>0, <1>c
    <2>2. \A b \in answers : b[1] \in Answered
        BY DEF Answered, IInv, Typed, TypeOK
    <2>3. \A a \in answers', b \in answers' : a[1] = b[1] => a = b
        BY <1>0, <1>c, <2>2 DEF IInv, Copies
    <2>4. \A n \in Names : <<n, "ok">> \in answers' => sparse'[n] = "whole"
        BY <1>0, <1>c, <2>1, <2>2 DEF IInv, Copies
    <2>5. \A n \in Flagged("hasSparse")' : sparse'[n] = "whole"
        BY <1>c DEF IInv, Copies, Flagged
    <2>6. /\ waiting' \cup reading' \cup Answered' \subseteq pulled' \cap In("deduped")'
          /\ waiting' \cap reading' = {} /\ (waiting' \cup reading') \cap Answered' = {}
        BY <1>0, <1>c DEF IInv, Copies, In
    <2> QED BY <2>3, <2>4, <2>5, <2>6 DEF Copies
<1>9. Links'
    BY <1>1, Within, <1>0, <1>a, <1>c DEF IInv, Control, Links, LinkRight, PoolEmpty, In
<1>10. Checked'
    BY <1>1, Within, <1>0, <1>a, <1>c DEF IInv, Control, Checked, A1, A7, Flagged
<1> QED BY <1>1, <1>2, <1>3, <1>4, <1>5, <1>6, <1>7, <1>8, <1>9, <1>10 DEF IInv, Sound

\* Only a copy that was finished is recorded.
LEMMA IngestSparseSound == ASSUME IInv, IngestSparse PROVE Sound
<1>0. PICK batch \in SUBSET answers :
          /\ row' = [n \in Names |->
                CASE <<n, "ok">> \in batch -> Flagging("hasSparse", "sparsified", row[n])
                  [] <<n, "failed">> \in batch ->
                       Flagging("sparseError", "sparsified", row[n])
                  [] OTHER -> row[n]]
          /\ answers' = answers \ batch
    BY DEF IngestSparse
<1>c. /\ UNCHANGED <<world, queue, meta, files, pc, at, todo, pulled, waiting, reading,
                     shutdown, outcome, launches>>
      /\ at = "sparsify" /\ pc = "pool" /\ meta.phase = "sparsify"
      /\ answers' \subseteq answers
    BY <1>0 DEF IngestSparse, Doing, IInv, Control
<1> USE DEF queue, files, pool
<1> DEFINE good == {n \in Names : <<n, "ok">> \in batch}
           bad == {n \in Names : <<n, "failed">> \in batch}
<1>b. /\ row \in [Names -> Row]
      /\ good \subseteq Names /\ bad \subseteq Names /\ good \cap bad = {}
      /\ \A n \in good : sparse[n] = "whole"
      /\ \A n \in good \cup bad : row[n].phase = "deduped"
      /\ \A n \in good \cup bad : n \notin Answered'
      /\ Answered' \subseteq Answered
    <2>1. row \in [Names -> Row] /\ answers \subseteq Names \X Result
        BY DEF IInv, Typed, TypeOK
    <2>2. /\ Answered \subseteq In("deduped")
          /\ \A x \in answers, y \in answers : x[1] = y[1] => x = y
          /\ \A n \in Names : <<n, "ok">> \in answers => sparse[n] = "whole"
        BY <1>c DEF IInv, Copies
    <2>3. good \cap bad = {}
        BY <2>2
    <2>4. good \cup bad \subseteq Answered
        BY DEF Answered, Result
    <2>5. \A n \in good \cup bad : n \notin Answered'
        BY <1>0, <2>2 DEF Answered
    <2>6. Answered' \subseteq Answered
        BY <1>c DEF Answered
    <2> QED BY <2>1, <2>2, <2>3, <2>4, <2>5, <2>6 DEF In
<1>d. row' = [n \in Names |->
          IF n \in good THEN Flagging("hasSparse", "sparsified", row[n])
          ELSE IF n \in bad THEN Flagging("sparseError", "sparsified", row[n])
          ELSE row[n]]
    <2>1. \A n \in Names : ~ (<<n, "ok">> \in batch /\ <<n, "failed">> \in batch)
        BY <1>b
    <2> QED BY <1>0, <2>1
<1> HIDE DEF good, bad
<1>e. /\ row' \in [Names -> Row]
      /\ \A n \in Names :
            /\ row'[n].phase = IF n \in good \cup bad THEN "sparsified" ELSE row[n].phase
            /\ row'[n].flags =
                  row[n].flags \cup (IF n \in good THEN {"hasSparse"} ELSE {})
                               \cup (IF n \in bad THEN {"sparseError"} ELSE {})
            /\ row'[n].sha = row[n].sha
            /\ row'[n].verdict = row[n].verdict
            /\ row'[n].canonical = row[n].canonical
            /\ row'[n].stored = row[n].stored
    <2>1. /\ \A n \in good : row'[n] = Flagging("hasSparse", "sparsified", row[n])
          /\ \A n \in bad : row'[n] = Flagging("sparseError", "sparsified", row[n])
          /\ \A n \in Names \ (good \cup bad) : row'[n] = row[n]
        BY <1>b, <1>d
    <2>2. "hasSparse" \in Flag /\ "sparseError" \in Flag /\ "sparsified" \in RowPhase
        BY DEF Flag, RowPhase
    <2>3. \A n \in Names : row[n] \in Row
        BY <1>b
    <2>4. row' \in [Names -> Row]
        BY <1>b, <1>d, <2>2, FlaggingRow
    <2>5. ASSUME NEW n \in Names
          PROVE  /\ row'[n].phase = IF n \in good \cup bad THEN "sparsified" ELSE row[n].phase
                 /\ row'[n].flags =
                       row[n].flags \cup (IF n \in good THEN {"hasSparse"} ELSE {})
                                    \cup (IF n \in bad THEN {"sparseError"} ELSE {})
                 /\ row'[n].sha = row[n].sha
                 /\ row'[n].verdict = row[n].verdict
                 /\ row'[n].canonical = row[n].canonical
                 /\ row'[n].stored = row[n].stored
        BY <2>1, <2>2, <2>3, FlaggingRow
    <2> QED BY <2>4, <2>5
<1>a. /\ Listed' = Listed /\ Regular' = Regular /\ Hashed' = Hashed /\ Kept' = Kept
      /\ Standing' = Standing /\ Candidate' = Candidate
    <2>1. /\ Listed' = Listed /\ Regular' = Regular /\ Hashed' = Hashed /\ Kept' = Kept
          /\ Standing' = Standing
        BY <1>b, <1>c, <1>e, SetsStay
    <2> QED BY <1>e, <2>1, Within DEF Candidate
<1>1. Typed'
    BY Within, <1>a, <1>b, <1>c, <1>e DEF IInv, Typed, TypeOK, Steps
<1>2. Control'
    BY <1>1, Within, <1>a, <1>b, <1>c, <1>e DEF Control, PoolEmpty, Typed, TypeOK
<1>3. InPhase'
    BY <1>1, Within, <1>a, <1>b, <1>c, <1>e DEF IInv, Control, InPhase, Over, Found, Left,
       Listed, BeforeHash, BeforeFilter, BeforeDedup
<1>4. (\A n \in Names : RowSound(n))'
    BY <1>1, Within, <1>a, <1>b, <1>c, <1>e DEF IInv, Control, InPhase, Found, Left, RowSound,
       Unfiltered, Unhashed, Undeduped, Verdict, Errors, Listed, BeforeHash, BeforeFilter,
       BeforeDedup
<1>5. Canonicals'
    BY <1>1, Within, <1>a, <1>b, <1>c, <1>e DEF IInv, Control, Canonicals, Undeduped, Same
<1>6. Walked'
    BY <1>1, Within, <1>a, <1>b, <1>c, <1>e DEF IInv, Control, Walked, Over
<1>7. OneName'
    BY <1>1, Within, <1>a, <1>b, <1>c, <1>e DEF IInv, Control, OneName, Filtered, Over,
       SameInode
<1>8. HashPool'
    BY <1>1, Within, <1>a, <1>b, <1>c, <1>e DEF Control, HashPool, Answered, PoolEmpty
<1>9. Copies'
    <2>1. \A n \in Flagged("hasSparse")' : sparse'[n] = "whole"
        BY <1>b, <1>c, <1>e DEF IInv, Copies, Flagged
    <2>2. /\ waiting \cup reading \cup Answered \subseteq pulled \cap In("deduped")
          /\ waiting \cap reading = {} /\ (waiting \cup reading) \cap Answered = {}
          /\ \A a \in answers, b \in answers : a[1] = b[1] => a = b
          /\ \A n \in Names : <<n, "ok">> \in answers => sparse[n] = "whole"
        BY <1>c DEF IInv, Copies
    <2>3. good \cup bad \subseteq Answered
        BY <1>0 DEF Answered, Result, good, bad
    <2>4. waiting' \cup reading' \cup Answered' \subseteq pulled' \cap In("deduped")'
        <3>1. \A n \in waiting \cup reading \cup Answered' :
                 /\ n \in pulled /\ n \in Names /\ n \notin good \cup bad
                 /\ row[n].phase = "deduped"
            BY <1>b, <2>2, <2>3 DEF In
        <3> QED BY <1>c, <1>e, <3>1 DEF In
    <2>5. (waiting' \cup reading') \cap Answered' = {}
        BY <1>b, <1>c, <2>2
    <2>6. \A a \in answers', b \in answers' : a[1] = b[1] => a = b
        BY <1>c, <2>2
    <2>7. \A n \in Names : <<n, "ok">> \in answers' => sparse'[n] = "whole"
        BY <1>c, <2>2
    <2> QED BY <1>c, <2>1, <2>2, <2>4, <2>5, <2>6, <2>7 DEF Copies
<1>10. Links'
    BY <1>1, Within, <1>a, <1>b, <1>c, <1>e DEF IInv, Control, Links, LinkRight, PoolEmpty, In
<1>11. Checked'
    BY <1>1, Within, <1>a, <1>b, <1>c, <1>e DEF IInv, Control, Checked, A1, A7, Flagged
<1>12. Stands
    BY Within, <1>a, <1>b, <1>c, <1>e, StandsWhen DEF Control, Left, Undeduped
<1> QED BY <1>1, <1>2, <1>3, <1>4, <1>5, <1>6, <1>7, <1>8, <1>9, <1>10, <1>11, <1>12 DEF IInv, Sound

LEMMA EndSparseSound == ASSUME IInv, EndSparse PROVE Sound
<1> USE DEF queue, files, pool, EndSparse, Doing, PoolDrained, PoolIdle, SparseDone, Exit
<1>1. Typed'
    BY DEF IInv, Typed, TypeOK, Steps, Phase, Listed, In, Hashed, Row, RowPhase, Flag, Result
<1>2. Control'
    BY <1>1 DEF IInv, Control, Typed, TypeOK, PoolEmpty, Listed
<1>3. InPhase'
    BY <1>1 DEF IInv, Control, InPhase, Typed, TypeOK, Over, Found, Left, Listed, In, Hashable,
       BeforeHash, BeforeFilter, BeforeDedup, Regular, Flagged, Kept
<1>4. (\A n \in Names : RowSound(n))' /\ Canonicals' /\ Stands
    BY RowsStay
<1>5. Walked'
    BY <1>1 DEF IInv, Control, Walked, Typed, TypeOK, Over, Listed
<1>6. OneName'
    BY <1>1 DEF IInv, Control, Typed, TypeOK, OneName, Filtered, Over, SameInode, Listed,
       Standing, Flagged, Kept, Hashed
<1>7. HashPool'
    BY <1>1 DEF IInv, Control, Typed, TypeOK, HashPool, Over, Answered, PoolEmpty, Listed,
       Standing, Flagged
<1>8. Copies'
    BY <1>1 DEF IInv, Control, Typed, TypeOK, Copies, RowSound, Undeduped, Answered, PoolEmpty,
       Listed, Flagged, In
<1>9. Links'
    BY <1>1 DEF IInv, Control, InPhase, Typed, TypeOK, Links, LinkRight, Found, Left,
       Candidate, Stageable, PoolEmpty, Regular, Hashed, Kept, Listed, In
<1>10. Checked'
    BY <1>1 DEF IInv, Control, InPhase, Typed, TypeOK, Checked, A1, A7, Regular, Hashed, Kept,
       Listed, Flagged
<1> QED BY <1>1, <1>2, <1>3, <1>4, <1>5, <1>6, <1>7, <1>8, <1>9, <1>10 DEF IInv, Sound

LEMMA PromoteUnstageableSound == ASSUME IInv, PromoteUnstageable PROVE Sound
<1>c. /\ UNCHANGED <<world, queue, meta, files, at, pool, shutdown, outcome, launches>>
      /\ at = "stage" /\ pc = "enter" /\ todo' \subseteq Stageable
      /\ pc' = IF Stageable = {} THEN "verify" ELSE "link"
    BY DEF PromoteUnstageable, Doing, FirstBatch
<1> USE DEF queue, files, pool
<1> DEFINE S == In("sparsified") \ Stageable
<1>b. /\ UNCHANGED world /\ S \in SUBSET Listed
      /\ "staged" \in RowPhase /\ "staged" # "none"
      /\ row' = [n \in Names |->
                   IF n \in S THEN [row[n] EXCEPT !.phase = "staged"] ELSE row[n]]
    BY DEF PromoteUnstageable, Update, To, In, Listed, RowPhase
<1>a. /\ row' \in [Names -> Row]
      /\ \A n \in Names :
            /\ row'[n].phase = IF n \in S THEN "staged" ELSE row[n].phase
            /\ row'[n].flags = row[n].flags
            /\ row'[n].sha = row[n].sha
            /\ row'[n].verdict = row[n].verdict
            /\ row'[n].canonical = row[n].canonical
            /\ row'[n].stored = row[n].stored
      /\ Listed' = Listed
      /\ Regular' = Regular
      /\ Hashed' = Hashed
      /\ Kept' = Kept
      /\ Standing' = Standing
      /\ Candidate' = Candidate
    BY <1>b, PhaseOnly
<1>1. Typed'
    BY Within, <1>a, <1>b, <1>c DEF IInv, Typed, TypeOK, Steps, Stageable, In
<1>2. Control'
    BY <1>1, Within, <1>a, <1>b, <1>c DEF IInv, Control, PoolEmpty, Typed, TypeOK
<1>3. InPhase'
    BY <1>1, Within, <1>a, <1>b, <1>c DEF IInv, Control, InPhase, Over, Found, Left, Listed,
       BeforeHash, BeforeFilter, BeforeDedup, S, In
<1>4. (\A n \in Names : RowSound(n))'
    BY <1>1, Within, <1>a, <1>b, <1>c DEF IInv, Control, InPhase, Found, Left, RowSound,
       Unfiltered, Unhashed, Undeduped, Verdict, Errors, Listed, BeforeHash, BeforeFilter,
       BeforeDedup
<1>5. Canonicals'
    BY <1>1, Within, <1>a, <1>b, <1>c DEF IInv, Control, Canonicals, Undeduped, Same, S, In
<1>6. Walked'
    BY <1>1, Within, <1>a, <1>b, <1>c DEF IInv, Control, Walked, Over
<1>7. OneName'
    BY <1>1, Within, <1>a, <1>b, <1>c DEF IInv, Control, OneName, Filtered, Over, SameInode
<1>8. HashPool'
    BY <1>1, Within, <1>a, <1>b, <1>c DEF IInv, Control, HashPool, Answered, PoolEmpty
<1>9. Copies'
    BY <1>1, Within, <1>a, <1>b, <1>c DEF IInv, Control, Copies, Answered, PoolEmpty, Flagged,
       In
<1>10. Links'
    BY <1>1, Within, <1>a, <1>b, <1>c DEF IInv, Control, Links, LinkRight, PoolEmpty, In, S,
       In, Stageable
<1>11. Checked'
    BY <1>1, Within, <1>a, <1>b, <1>c DEF IInv, Control, Checked, A1, A7, Flagged
<1>12. Stands
    BY Within, <1>a, <1>b, <1>c, StandsWhen DEF IInv, Control, Left, Undeduped
<1> QED BY <1>1, <1>2, <1>3, <1>4, <1>5, <1>6, <1>7, <1>8, <1>9, <1>10, <1>11, <1>12 DEF IInv, Sound

LEMMA LinkMemberSound == ASSUME IInv, LinkMember PROVE Sound
<1> USE DEF queue, files, pool, LinkMember, Doing
<1>1. Typed'
    BY DEF IInv, Typed, TypeOK, Steps, Phase, Listed, In, Hashed, Row, RowPhase, Flag, Result
<1>2. Control'
    BY <1>1 DEF IInv, Control, Typed, TypeOK, PoolEmpty, Listed
<1>3. InPhase'
    BY <1>1 DEF IInv, Control, InPhase, Typed, TypeOK, Over, Found, Left, Listed, In, Hashable,
       BeforeHash, BeforeFilter, BeforeDedup, Regular, Flagged, Kept
<1>4. (\A n \in Names : RowSound(n))' /\ Canonicals' /\ Stands
    BY RowsStay
<1>5. Walked'
    BY <1>1 DEF IInv, Control, Walked, Typed, TypeOK, Over, Listed
<1>6. OneName'
    BY <1>1 DEF IInv, Control, Typed, TypeOK, OneName, Filtered, Over, SameInode, Listed,
       Standing, Flagged, Kept, Hashed
<1>7. HashPool'
    BY <1>1 DEF IInv, Control, Typed, TypeOK, HashPool, Over, Answered, PoolEmpty, Listed,
       Standing, Flagged
<1>8. Copies'
    BY <1>1 DEF IInv, Control, Typed, TypeOK, Copies, RowSound, Undeduped, Answered, PoolEmpty,
       Listed, Flagged, In
<1>9. Links'
    BY <1>1 DEF IInv, Control, InPhase, Typed, TypeOK, Links, LinkRight, Found, Left,
       Candidate, Stageable, PoolEmpty, Regular, Hashed, Kept, Listed, In
<1>10. Checked'
    BY <1>1 DEF IInv, Control, InPhase, Typed, TypeOK, Checked, A1, A7, Regular, Hashed, Kept,
       Listed, Flagged
<1> QED BY <1>1, <1>2, <1>3, <1>4, <1>5, <1>6, <1>7, <1>8, <1>9, <1>10 DEF IInv, Sound

LEMMA EndSectionSound == ASSUME IInv, EndSection PROVE Sound
<1> USE DEF queue, files, pool, EndSection, Doing
<1>1. Typed'
    BY DEF IInv, Typed, TypeOK, Steps, Phase, Listed, In, Hashed, Row, RowPhase, Flag, Result
<1>2. Control'
    BY <1>1 DEF IInv, Control, Typed, TypeOK, PoolEmpty, Listed
<1>3. InPhase'
    BY <1>1 DEF IInv, Control, InPhase, Typed, TypeOK, Over, Found, Left, Listed, In, Hashable,
       BeforeHash, BeforeFilter, BeforeDedup, Regular, Flagged, Kept
<1>4. (\A n \in Names : RowSound(n))' /\ Canonicals' /\ Stands
    BY RowsStay
<1>5. Walked'
    BY <1>1 DEF IInv, Control, Walked, Typed, TypeOK, Over, Listed
<1>6. OneName'
    BY <1>1 DEF IInv, Control, Typed, TypeOK, OneName, Filtered, Over, SameInode, Listed,
       Standing, Flagged, Kept, Hashed
<1>7. HashPool'
    BY <1>1 DEF IInv, Control, Typed, TypeOK, HashPool, Over, Answered, PoolEmpty, Listed,
       Standing, Flagged
<1>8. Copies'
    BY <1>1 DEF IInv, Control, Typed, TypeOK, Copies, RowSound, Undeduped, Answered, PoolEmpty,
       Listed, Flagged, In
<1>9. Links'
    BY <1>1 DEF IInv, Control, InPhase, Typed, TypeOK, Links, LinkRight, Found, Left,
       Candidate, Stageable, PoolEmpty, Regular, Hashed, Kept, Listed, In
<1>10. Checked'
    BY <1>1 DEF IInv, Control, InPhase, Typed, TypeOK, Checked, A1, A7, Regular, Hashed, Kept,
       Listed, Flagged
<1> QED BY <1>1, <1>2, <1>3, <1>4, <1>5, <1>6, <1>7, <1>8, <1>9, <1>10 DEF IInv, Sound

\* The link was made before the row says staged.
LEMMA ApplyLinkSound == ASSUME IInv, ApplyLink PROVE Sound
<1>0. PICK a \in answers :
          IF a[2] = "ok"
          THEN /\ row' = [row EXCEPT ![a[1]] = To("staged", @)]
               /\ answers' = answers \ {a}
               /\ UNCHANGED <<pc, at, todo, pulled, waiting, reading, outcome>>
          ELSE Exit("error") /\ UNCHANGED row
    BY DEF ApplyLink
<1> SUFFICES ASSUME a[2] = "ok" PROVE Sound
    <2>1. CASE a[2] = "ok"
        BY <2>1
    <2>2. CASE a[2] # "ok"
        BY <1>0, <2>2, ExitSound DEF ApplyLink, queue
    <2> QED BY <2>1, <2>2
<1>c. /\ UNCHANGED <<world, queue, meta, files, pc, at, todo, pulled, waiting, reading,
                     shutdown, outcome, launches>>
      /\ at = "stage" /\ pc = "apply" /\ meta.phase = "stage"
      /\ answers' = answers \ {a} /\ a = <<a[1], "ok">> /\ a[1] \in Names
      /\ row[a[1]].phase = "sparsified" /\ LinkRight(a[1])
    BY <1>0 DEF ApplyLink, Doing, IInv, Typed, TypeOK, Control, Links
<1> USE DEF queue, files, pool
<1> DEFINE S == {a[1]}
<1>b. /\ UNCHANGED world /\ S \in SUBSET Listed
      /\ "staged" \in RowPhase /\ "staged" # "none"
      /\ row' = [n \in Names |->
                   IF n \in S THEN [row[n] EXCEPT !.phase = "staged"] ELSE row[n]]
    BY <1>0, <1>c DEF IInv, Typed, TypeOK, To, Listed, RowPhase
<1>a. /\ row' \in [Names -> Row]
      /\ \A n \in Names :
            /\ row'[n].phase = IF n \in S THEN "staged" ELSE row[n].phase
            /\ row'[n].flags = row[n].flags
            /\ row'[n].sha = row[n].sha
            /\ row'[n].verdict = row[n].verdict
            /\ row'[n].canonical = row[n].canonical
            /\ row'[n].stored = row[n].stored
      /\ Listed' = Listed
      /\ Regular' = Regular
      /\ Hashed' = Hashed
      /\ Kept' = Kept
      /\ Standing' = Standing
      /\ Candidate' = Candidate
    BY <1>b, PhaseOnly
<1>1. Typed'
    BY Within, <1>a, <1>b, <1>c DEF IInv, Typed, TypeOK, Steps
<1>2. Control'
    BY <1>1, Within, <1>a, <1>b, <1>c DEF IInv, Control, PoolEmpty, Typed, TypeOK
<1>3. InPhase'
    BY <1>1, Within, <1>a, <1>b, <1>c DEF IInv, Control, InPhase, Over, Found, Left, Listed,
       BeforeHash, BeforeFilter, BeforeDedup, S
<1>4. (\A n \in Names : RowSound(n))'
    BY <1>1, Within, <1>a, <1>b, <1>c DEF IInv, Control, InPhase, Found, Left, RowSound,
       Unfiltered, Unhashed, Undeduped, Verdict, Errors, Listed, BeforeHash, BeforeFilter,
       BeforeDedup, S
<1>5. Canonicals'
    BY <1>1, Within, <1>a, <1>b, <1>c DEF IInv, Control, Canonicals, Undeduped, Same, S
<1>6. Walked'
    BY <1>1, Within, <1>a, <1>b, <1>c DEF IInv, Control, Walked, Over
<1>7. OneName'
    BY <1>1, Within, <1>a, <1>b, <1>c DEF IInv, Control, OneName, Filtered, Over, SameInode
<1>8. HashPool'
    BY <1>1, Within, <1>a, <1>b, <1>c DEF Control, HashPool, Answered, PoolEmpty
<1>9. Copies'
    BY <1>1, Within, <1>a, <1>b, <1>c DEF IInv, Control, Copies, Answered, PoolEmpty, Flagged,
       In
<1>10. Links'
    BY <1>1, Within, <1>a, <1>b, <1>c DEF IInv, Control, Links, LinkRight, PoolEmpty, In, S
<1>11. Checked'
    BY <1>1, Within, <1>a, <1>b, <1>c DEF IInv, Control, Checked, A1, A7, Flagged
<1>12. Stands
    BY Within, <1>a, <1>b, <1>c, StandsWhen DEF Control, Left, Undeduped
<1> QED BY <1>1, <1>2, <1>3, <1>4, <1>5, <1>6, <1>7, <1>8, <1>9, <1>10, <1>11, <1>12 DEF IInv, Sound

LEMMA NextBatchSound == ASSUME IInv, NextBatch PROVE Sound
<1> SUFFICES ASSUME ~ Exit("stopped") PROVE Sound
    <2>1. CASE Exit("stopped")
        BY <2>1, ExitSound DEF NextBatch, queue, files, Exit
    <2> QED BY <2>1
<1>c. /\ UNCHANGED <<world, row, queue, meta, files, at, pool, shutdown, launches>>
      /\ at = "stage" /\ pc = "apply" /\ meta.phase = "stage" /\ answers = {}
      /\ todo' \subseteq Stageable /\ Stageable \subseteq In("sparsified")
      /\ pc' = IF Stageable = {} THEN "verify" ELSE "link"
    BY DEF NextBatch, Doing, FirstBatch, Stageable, IInv, Control
<1> USE DEF queue, files, pool
<1>a. /\ Listed' = Listed /\ Regular' = Regular /\ Hashed' = Hashed /\ Kept' = Kept
      /\ Standing' = Standing /\ Candidate' = Candidate
      /\ \A n \in Names : SameInode(n)' = SameInode(n)
    BY <1>c DEF Listed, Regular, Hashed, Kept, Standing, Flagged, Candidate, SameInode
<1>1. Typed'
    BY Within, <1>a, <1>c DEF IInv, Typed, TypeOK, Steps, In
<1>2. Control'
    BY <1>1, Within, <1>a, <1>c DEF IInv, Control, PoolEmpty, Typed, TypeOK
<1>3. InPhase'
    BY <1>1, Within, <1>a, <1>c DEF IInv, Control, InPhase, Over, Found, Left, Listed,
       BeforeHash, BeforeFilter, BeforeDedup, In, Stageable, Links
<1>4. (\A n \in Names : RowSound(n))' /\ Canonicals' /\ Stands
    BY <1>a, <1>c, RowsStay
<1>5. Walked'
    BY <1>1, Within, <1>a, <1>c DEF IInv, Control, Walked, Over
<1>6. OneName'
    BY <1>1, Within, <1>a, <1>c DEF IInv, Control, OneName, Filtered, Over, SameInode
<1>7. HashPool'
    BY <1>1, Within, <1>a, <1>c DEF Control, HashPool, Answered, PoolEmpty
<1>8. Copies'
    BY <1>1, Within, <1>a, <1>c DEF IInv, Control, Copies, Answered, PoolEmpty, Flagged, In
<1>9. Links'
    BY <1>1, Within, <1>a, <1>c DEF IInv, Control, Links, LinkRight, PoolEmpty, In
<1>10. Checked'
    BY <1>1, Within, <1>a, <1>c DEF IInv, Control, Checked, A1, A7, Flagged
<1> QED BY <1>1, <1>2, <1>3, <1>4, <1>5, <1>6, <1>7, <1>8, <1>9, <1>10 DEF IInv, Sound

LEMMA BeginArchiveSound == ASSUME IInv, BeginArchive PROVE Sound
<1> USE DEF queue, files, pool, BeginArchive, Doing
<1>1. Typed'
    BY DEF IInv, Typed, TypeOK, Steps, Phase, Listed, In, Hashed, Row, RowPhase, Flag, Result
<1>2. Control'
    BY <1>1 DEF IInv, Control, Typed, TypeOK, PoolEmpty, Listed
<1>3. InPhase'
    BY <1>1 DEF IInv, Control, InPhase, Typed, TypeOK, Over, Found, Left, Listed, In, Hashable,
       BeforeHash, BeforeFilter, BeforeDedup, Regular, Flagged, Kept
<1>4. (\A n \in Names : RowSound(n))' /\ Canonicals' /\ Stands
    BY RowsStay
<1>5. Walked'
    BY <1>1 DEF IInv, Control, Walked, Typed, TypeOK, Over, Listed
<1>6. OneName'
    BY <1>1 DEF IInv, Control, Typed, TypeOK, OneName, Filtered, Over, SameInode, Listed,
       Standing, Flagged, Kept, Hashed
<1>7. HashPool'
    BY <1>1 DEF IInv, Control, Typed, TypeOK, HashPool, Over, Answered, PoolEmpty, Listed,
       Standing, Flagged
<1>8. Copies'
    BY <1>1 DEF IInv, Control, Typed, TypeOK, Copies, RowSound, Undeduped, Answered, PoolEmpty,
       Listed, Flagged, In
<1>9. Links'
    BY <1>1 DEF IInv, Control, InPhase, Typed, TypeOK, Links, LinkRight, Found, Left,
       Candidate, Stageable, PoolEmpty, Regular, Hashed, Kept, Listed, In
<1>10. Checked'
    BY <1>1 DEF IInv, Control, InPhase, Typed, TypeOK, Checked, A1, A7, Regular, Hashed, Kept,
       Listed, Flagged
<1> QED BY <1>1, <1>2, <1>3, <1>4, <1>5, <1>6, <1>7, <1>8, <1>9, <1>10 DEF IInv, Sound

\* The link of a staged row leads somewhere, unless the file has vanished.
LEMMA AppendMemberSound == ASSUME IInv, AppendMember PROVE Sound
<1>0. PICK x \in In("staged") \cap Candidate \cap Hashed :
          row' = [row EXCEPT ![x] = IF Leads(x)
                                    THEN [@ EXCEPT !.phase = "archived", !.stored = TRUE]
                                    ELSE Flagging("archiveError", "archived", @)]
    BY DEF AppendMember
<1>c. /\ UNCHANGED <<world, queue, meta, files, pc, at, todo, pool, shutdown, outcome,
                     launches>>
      /\ at = "archive" /\ pc = "append" /\ meta.phase = "archive"
    BY DEF AppendMember, Doing, IInv, Control
<1> USE DEF queue, files, pool
<1>b. /\ row \in [Names -> Row] /\ x \in Names /\ x \in Listed
      /\ row[x].phase = "staged" /\ row[x].canonical = x
      /\ ~ Leads(x) => x \in gone
    BY <1>0, Within DEF IInv, Typed, TypeOK, In, Candidate, Links, LinkRight, Leads, Copies,
       Flagged
<1>e. /\ row' \in [Names -> Row]
      /\ \A n \in Names :
            /\ row'[n].phase = IF n = x THEN "archived" ELSE row[n].phase
            /\ row'[n].sha = row[n].sha
            /\ row'[n].verdict = row[n].verdict
            /\ row'[n].canonical = row[n].canonical
            /\ \/ row'[n].flags = row[n].flags /\ (n # x => row'[n].stored = row[n].stored)
               \/ /\ n = x /\ n \in gone /\ row'[n].stored = row[n].stored
                  /\ row'[n].flags = row[n].flags \cup {"archiveError"}
    <2>1. CASE Leads(x)
        <3>1. row' = [row EXCEPT ![x] = [@ EXCEPT !.phase = "archived", !.stored = TRUE]]
            BY <1>0, <2>1
        <3> QED BY <1>b, <3>1 DEF Row, RowPhase
    <2>2. CASE ~ Leads(x)
        <3>1. row' = [row EXCEPT ![x] = Flagging("archiveError", "archived", @)]
            BY <1>0, <2>2
        <3>2. x \in gone
            BY <1>b, <2>2
        <3>3. "archiveError" \in Flag /\ "archived" \in RowPhase /\ row[x] \in Row
            BY <1>b DEF Flag, RowPhase
        <3>4. /\ row'[x] = Flagging("archiveError", "archived", row[x])
              /\ \A n \in Names \ {x} : row'[n] = row[n]
            BY <1>b, <3>1
        <3>5. row' \in [Names -> Row]
            BY <1>b, <3>1, <3>3, FlaggingRow
        <3> QED BY <1>b, <3>2, <3>3, <3>4, <3>5, FlaggingRow
    <2> QED BY <2>1, <2>2
<1>a. /\ Listed' = Listed /\ Regular' = Regular /\ Hashed' = Hashed /\ Kept' = Kept
      /\ Standing' = Standing /\ Candidate' = Candidate
    <2>1. /\ Listed' = Listed /\ Regular' = Regular /\ Hashed' = Hashed /\ Kept' = Kept
          /\ Standing' = Standing
        <3>1. \A n \in Names :
                 /\ row'[n].phase = "none" <=> row[n].phase = "none"
                 /\ row'[n].sha = row[n].sha /\ row'[n].verdict = row[n].verdict
                 /\ "linkCanonical" \in row'[n].flags <=> "linkCanonical" \in row[n].flags
            BY <1>b, <1>e
        <3> QED BY <1>c, <3>1, SetsStay
    <2> QED BY <1>e, <2>1, Within DEF Candidate
<1>1. Typed'
    BY Within, <1>a, <1>b, <1>c, <1>e DEF IInv, Typed, TypeOK, Steps
<1>2. Control'
    BY <1>1, Within, <1>a, <1>b, <1>c, <1>e DEF IInv, Control, PoolEmpty, Typed, TypeOK
<1>3. InPhase'
    BY <1>1, Within, <1>a, <1>b, <1>c, <1>e DEF IInv, Control, InPhase, Over, Found, Left,
       Listed, BeforeHash, BeforeFilter, BeforeDedup
<1>4. (\A n \in Names : RowSound(n))'
    BY <1>1, Within, <1>a, <1>b, <1>c, <1>e DEF IInv, Control, InPhase, Found, Left, RowSound,
       Unfiltered, Unhashed, Undeduped, Verdict, Errors, Listed, BeforeHash, BeforeFilter,
       BeforeDedup
<1>5. Canonicals'
    BY <1>1, Within, <1>a, <1>b, <1>c, <1>e DEF IInv, Control, Canonicals, Undeduped, Same
<1>6. Walked'
    BY <1>1, Within, <1>a, <1>b, <1>c, <1>e DEF IInv, Control, Walked, Over
<1>7. OneName'
    BY <1>1, Within, <1>a, <1>b, <1>c, <1>e DEF IInv, Control, OneName, Filtered, Over,
       SameInode
<1>8. HashPool'
    BY <1>1, Within, <1>a, <1>b, <1>c, <1>e DEF Control, HashPool, Answered, PoolEmpty
<1>9. Copies'
    BY <1>1, Within, <1>a, <1>b, <1>c, <1>e DEF IInv, Control, Copies, Answered, PoolEmpty,
       Flagged, In
<1>10. Links'
    BY <1>1, Within, <1>a, <1>b, <1>c, <1>e DEF IInv, Control, Links, LinkRight, PoolEmpty, In
<1>11. Checked'
    BY <1>1, Within, <1>a, <1>b, <1>c, <1>e DEF IInv, Control, Checked, A1, A7, Flagged
<1>12. Stands
    <2>1. Left(meta.phase) = "archived"
        BY <1>c DEF Left
    <2>2. ASSUME NEW n \in Listed
          PROVE  /\ row'[n].phase \in {row[n].phase, Left(meta.phase)}
                 /\ row[n].verdict # "unset" => row'[n].verdict = row[n].verdict
                 /\ row[n].sha => row'[n].sha
                 /\ row[n].canonical # NULL => row'[n].canonical = row[n].canonical
                 /\ row[n].stored => row'[n].stored
                 /\ row[n].flags \ {"linkCanonical"} \subseteq row'[n].flags
        <3>1. n \in Names /\ (n = x => ~ row[n].stored)
            BY <1>b, Within DEF IInv, RowSound
        <3>2. /\ row'[n].phase \in {row[n].phase, "archived"} /\ row'[n].sha = row[n].sha
              /\ row'[n].verdict = row[n].verdict /\ row'[n].canonical = row[n].canonical
              /\ row'[n].flags \in {row[n].flags, row[n].flags \cup {"archiveError"}}
              /\ n # x => row'[n].stored = row[n].stored
            BY <1>e, <3>1
        <3> QED BY <2>1, <3>1, <3>2
    <2> QED BY <2>2, StandsWhen
<1> QED BY <1>1, <1>2, <1>3, <1>4, <1>5, <1>6, <1>7, <1>8, <1>9, <1>10, <1>11, <1>12 DEF IInv, Sound

\* What is left when the trailer is written are rows without a payload.
LEMMA EndArchiveSound == ASSUME IInv, EndArchive PROVE Sound
<1> SUFFICES ASSUME ~ Exit("stopped") PROVE Sound
    <2>1. CASE Exit("stopped")
        BY <2>1, ExitSound DEF EndArchive, queue, files, Exit, Doing, IInv, Typed, TypeOK
    <2> QED BY <2>1
<1>c. /\ UNCHANGED <<world, queue, meta, gone, sparse, link, at, todo, pool, shutdown,
                     outcome, launches>>
      /\ at = "archive" /\ pc = "append" /\ pc' = "verify"
      /\ tape' = [tape EXCEPT !.footer = TRUE]
      /\ In("staged") \cap Candidate \cap Hashed = {}
    BY DEF EndArchive, Doing
<1> USE DEF queue, files, pool
<1> DEFINE S == In("staged")
<1>b. /\ UNCHANGED world /\ S \in SUBSET Listed
      /\ "archived" \in RowPhase /\ "archived" # "none"
      /\ row' = [n \in Names |->
                   IF n \in S THEN [row[n] EXCEPT !.phase = "archived"] ELSE row[n]]
    BY DEF EndArchive, Update, To, In, Listed, RowPhase
<1>a. /\ row' \in [Names -> Row]
      /\ \A n \in Names :
            /\ row'[n].phase = IF n \in S THEN "archived" ELSE row[n].phase
            /\ row'[n].flags = row[n].flags
            /\ row'[n].sha = row[n].sha
            /\ row'[n].verdict = row[n].verdict
            /\ row'[n].canonical = row[n].canonical
            /\ row'[n].stored = row[n].stored
      /\ Listed' = Listed
      /\ Regular' = Regular
      /\ Hashed' = Hashed
      /\ Kept' = Kept
      /\ Standing' = Standing
      /\ Candidate' = Candidate
    BY <1>b, PhaseOnly
<1>1. Typed'
    BY Within, <1>a, <1>b, <1>c DEF IInv, Typed, TypeOK, Steps
<1>2. Control'
    BY <1>1, Within, <1>a, <1>b, <1>c DEF IInv, Control, PoolEmpty, Typed, TypeOK
<1>3. InPhase'
    BY <1>1, Within, <1>a, <1>b, <1>c DEF IInv, Control, InPhase, Over, Found, Left, Listed,
       BeforeHash, BeforeFilter, BeforeDedup, S, In
<1>4. (\A n \in Names : RowSound(n))'
    BY <1>1, Within, <1>a, <1>b, <1>c DEF IInv, Control, InPhase, Found, Left, RowSound,
       Unfiltered, Unhashed, Undeduped, Verdict, Errors, Listed, BeforeHash, BeforeFilter,
       BeforeDedup, S, In
<1>5. Canonicals'
    BY <1>1, Within, <1>a, <1>b, <1>c DEF IInv, Control, Canonicals, Undeduped, Same, S, In
<1>6. Walked'
    BY <1>1, Within, <1>a, <1>b, <1>c DEF IInv, Control, Walked, Over
<1>7. OneName'
    BY <1>1, Within, <1>a, <1>b, <1>c DEF IInv, Control, OneName, Filtered, Over, SameInode
<1>8. HashPool'
    BY <1>1, Within, <1>a, <1>b, <1>c DEF IInv, Control, HashPool, Answered, PoolEmpty
<1>9. Copies'
    BY <1>1, Within, <1>a, <1>b, <1>c DEF IInv, Control, Copies, Answered, PoolEmpty, Flagged,
       In
<1>10. Links'
    BY <1>1, Within, <1>a, <1>b, <1>c DEF IInv, Control, Links, LinkRight, PoolEmpty, In, S, In
<1>11. Checked'
    BY <1>1, Within, <1>a, <1>b, <1>c DEF IInv, Control, Checked, A1, A7, Flagged
<1>12. Stands
    BY Within, <1>a, <1>b, <1>c, StandsWhen DEF IInv, Control, Left, Undeduped
<1> QED BY <1>1, <1>2, <1>3, <1>4, <1>5, <1>6, <1>7, <1>8, <1>9, <1>10, <1>11, <1>12 DEF IInv, Sound

LEMMA DropRowSound == ASSUME IInv, DropRow PROVE Sound
<1> USE DEF queue, files, pool, DropRow
<1>1. Typed'
    BY DEF IInv, Typed, TypeOK, Steps, Phase, Listed, In, Hashed, Row, RowPhase, Flag, Result
<1>2. Control'
    BY <1>1 DEF IInv, Control, Typed, TypeOK, PoolEmpty, Listed
<1>3. InPhase'
    BY <1>1 DEF IInv, Control, InPhase, Typed, TypeOK, Over, Found, Left, Listed, In, Hashable,
       BeforeHash, BeforeFilter, BeforeDedup, Regular, Flagged, Kept
<1>4. (\A n \in Names : RowSound(n))' /\ Canonicals' /\ Stands
    BY RowsStay
<1>5. Walked'
    BY <1>1 DEF IInv, Control, Walked, Typed, TypeOK, Over, Listed
<1>6. OneName'
    BY <1>1 DEF IInv, Control, Typed, TypeOK, OneName, Filtered, Over, SameInode, Listed,
       Standing, Flagged, Kept, Hashed
<1>7. HashPool'
    BY PoolsStay DEF IInv
<1>8. Copies'
    BY PoolsStay DEF IInv
<1>9. Links'
    BY <1>1 DEF IInv, Control, InPhase, Typed, TypeOK, Links, LinkRight, Found, Left,
       Candidate, Stageable, PoolEmpty, Regular, Hashed, Kept, Listed, In
<1>10. Checked'
    BY <1>1 DEF IInv, Control, InPhase, Typed, TypeOK, Checked, A1, A7, Regular, Hashed, Kept,
       Listed, Flagged
<1> QED BY <1>1, <1>2, <1>3, <1>4, <1>5, <1>6, <1>7, <1>8, <1>9, <1>10 DEF IInv, Sound

LEMMA SignalSound == ASSUME IInv, Signal PROVE Sound
<1> USE DEF queue, files, pool, Signal
<1>1. Typed'
    BY DEF IInv, Typed, TypeOK, Steps, Phase, Listed, In, Hashed, Row, RowPhase, Flag, Result
<1>2. Control'
    BY <1>1 DEF IInv, Control, Typed, TypeOK, PoolEmpty, Listed
<1>3. InPhase'
    BY <1>1 DEF IInv, Control, InPhase, Typed, TypeOK, Over, Found, Left, Listed, In, Hashable,
       BeforeHash, BeforeFilter, BeforeDedup, Regular, Flagged, Kept
<1>4. (\A n \in Names : RowSound(n))' /\ Canonicals' /\ Stands
    BY RowsStay
<1>5. Walked'
    BY <1>1 DEF IInv, Control, Walked, Typed, TypeOK, Over, Listed
<1>6. OneName'
    BY <1>1 DEF IInv, Control, Typed, TypeOK, OneName, Filtered, Over, SameInode, Listed,
       Standing, Flagged, Kept, Hashed
<1>7. HashPool'
    BY PoolsStay DEF IInv
<1>8. Copies'
    BY PoolsStay DEF IInv
<1>9. Links'
    BY <1>1 DEF IInv, Control, InPhase, Typed, TypeOK, Links, LinkRight, Found, Left,
       Candidate, Stageable, PoolEmpty, Regular, Hashed, Kept, Listed, In
<1>10. Checked'
    BY <1>1 DEF IInv, Control, InPhase, Typed, TypeOK, Checked, A1, A7, Regular, Hashed, Kept,
       Listed, Flagged
<1> QED BY <1>1, <1>2, <1>3, <1>4, <1>5, <1>6, <1>7, <1>8, <1>9, <1>10 DEF IInv, Sound

\* Nothing but errors is excused by a name that has vanished.
LEMMA VanishSound == ASSUME IInv, Vanish PROVE Sound
<1> USE DEF queue, files, pool, Vanish
<1>1. Typed'
    BY WorldTyped DEF IInv, Typed, TypeOK
<1>2. Control'
    BY <1>1 DEF IInv, Control, Typed, TypeOK, PoolEmpty, Listed
<1>3. InPhase'
    BY <1>1 DEF IInv, Control, InPhase, Typed, TypeOK, Over, Found, Left, Listed, In, Hashable,
       BeforeHash, BeforeFilter, BeforeDedup, Regular, Flagged, Kept
<1>4. (\A n \in Names : RowSound(n))'
    BY <1>1 DEF IInv, Control, InPhase, Typed, TypeOK, Over, Found, Left, RowSound, Unfiltered,
       Unhashed, Undeduped, Verdict, Errors, Listed, In, BeforeHash, BeforeFilter, BeforeDedup
<1>5. Canonicals'
    BY <1>1 DEF IInv, Control, InPhase, Typed, TypeOK, RowSound, Canonicals, Undeduped, Same,
       Found, Left, Listed, In, Regular, Hashed, Kept
<1>6. Walked'
    BY <1>1 DEF IInv, Control, Walked, Typed, TypeOK, Over, Listed
<1>7. OneName'
    BY <1>1 DEF IInv, Control, Typed, TypeOK, OneName, Filtered, Over, SameInode, Listed,
       Standing, Flagged, Kept, Hashed
<1>8. HashPool'
    BY <1>1 DEF IInv, Control, Typed, TypeOK, HashPool, Over, Answered, PoolEmpty, Listed,
       Standing, Flagged
<1>9. Copies'
    BY <1>1 DEF IInv, Control, Typed, TypeOK, Copies, RowSound, Undeduped, Answered, PoolEmpty,
       Listed, Flagged, In
<1>10. Links'
    BY <1>1 DEF IInv, Control, InPhase, Typed, TypeOK, Links, LinkRight, Found, Left,
       Candidate, Stageable, PoolEmpty, Regular, Hashed, Kept, Listed, In
<1>11. Checked'
    BY <1>1 DEF IInv, Control, InPhase, Typed, TypeOK, Checked, A1, A7, Regular, Hashed, Kept,
       Listed, Flagged
<1>12. Stands
    BY StandsWhen DEF Control, Left, Undeduped
<1> QED BY <1>1, <1>2, <1>3, <1>4, <1>5, <1>6, <1>7, <1>8, <1>9, <1>10, <1>11, <1>12 DEF IInv, Sound

LEMMA UnchangedSound == ASSUME IInv, UNCHANGED vars PROVE Sound
<1> USE DEF queue, files, pool, vars
<1>1. Typed'
    BY DEF IInv, Typed, TypeOK, Steps, Phase, Listed, In, Hashed, Row, RowPhase, Flag, Result
<1>2. Control'
    BY <1>1 DEF IInv, Control, Typed, TypeOK, PoolEmpty, Listed
<1>3. InPhase'
    BY <1>1 DEF IInv, Control, InPhase, Typed, TypeOK, Over, Found, Left, Listed, In, Hashable,
       BeforeHash, BeforeFilter, BeforeDedup, Regular, Flagged, Kept
<1>4. (\A n \in Names : RowSound(n))' /\ Canonicals' /\ Stands
    BY RowsStay
<1>5. Walked'
    BY <1>1 DEF IInv, Control, Walked, Typed, TypeOK, Over, Listed
<1>6. OneName'
    BY <1>1 DEF IInv, Control, Typed, TypeOK, OneName, Filtered, Over, SameInode, Listed,
       Standing, Flagged, Kept, Hashed
<1>7. HashPool'
    BY PoolsStay DEF IInv
<1>8. Copies'
    BY PoolsStay DEF IInv
<1>9. Links'
    BY <1>1 DEF IInv, Control, InPhase, Typed, TypeOK, Links, LinkRight, Found, Left,
       Candidate, Stageable, PoolEmpty, Regular, Hashed, Kept, Listed, In
<1>10. Checked'
    BY <1>1 DEF IInv, Control, InPhase, Typed, TypeOK, Checked, A1, A7, Regular, Hashed, Kept,
       Listed, Flagged
<1> QED BY <1>1, <1>2, <1>3, <1>4, <1>5, <1>6, <1>7, <1>8, <1>9, <1>10 DEF IInv, Sound

-----------------------------------------------------------------------------
(* Spec.                                                                    *)

LEMMA InitIInv == Init => IInv
<1> SUFFICES ASSUME Init PROVE IInv
    OBVIOUS
<1>1. Typed
    <2>1. row \in [Names -> Row]
        BY DEF Init, NoRow, Row, RowPhase
    <2> QED BY <2>1, CatalogueAssumption DEF Init, Typed, TypeOK, Steps, Phase
<1>2. /\ \A n \in Names : /\ row[n].phase = "none" /\ row[n].flags = {} /\ ~ row[n].sha
                          /\ row[n].verdict = "unset" /\ row[n].canonical = NULL
                          /\ ~ row[n].stored
      /\ hashQueue = {} /\ meta.phase = "none" /\ PoolEmpty /\ pc = "off" /\ at = "inventory"
    BY DEF Init, NoRow, PoolEmpty
<1>3. /\ Listed = {} /\ Regular = {} /\ Hashed = {} /\ Kept = {} /\ Standing = {}
      /\ Candidate = {} /\ Flagged("hasSparse") = {}
    <2>1. Listed = {} /\ Hashed = {} /\ Kept = {} /\ Standing = {} /\ Flagged("hasSparse") = {}
        BY <1>2 DEF Listed, Hashed, Kept, Standing, Flagged
    <2>2. Regular = {}
        BY <2>1 DEF Regular
    <2> QED BY <2>1, <2>2 DEF Candidate
<1>4. Control /\ InPhase /\ Checked
    BY <1>2, <1>3 DEF Control, InPhase, Over, Checked
<1>5. \A n \in Names : RowSound(n)
    BY <1>2 DEF RowSound, Undeduped, Unfiltered, Unhashed, Errors
<1>6. Canonicals /\ Walked /\ OneName
    BY <1>2, <1>3 DEF Canonicals, Walked, OneName, Over, Filtered
<1>7. HashPool /\ Copies /\ Links
    BY <1>2, <1>3 DEF HashPool, Copies, Links
<1> QED BY <1>1, <1>4, <1>5, <1>6, <1>7 DEF IInv

\* A crash, and a signal while dedup compares files.
LEMMA StopSound == ASSUME IInv, Crash \/ StopDedup PROVE Sound
<1>1. PICK how : Exit(how)
    BY DEF Crash, StopDedup
<1>2. UNCHANGED <<world, row, hashQueue, meta, files, launches, sparseQueue, shutdown>>
    BY DEF Crash, StopDedup, queue
<1> QED BY <1>1, <1>2, ExitSound

LEMMA NextSound == IInv /\ [Next]_vars => Sound
<1> SUFFICES ASSUME IInv, [Next]_vars PROVE Sound
    OBVIOUS
<1>1. CASE Prepare \/ EnterPhase \/ VerifyAfterPhase \/ Advance \/ Cleanup \/ DropRow
    BY <1>1, PrepareSound, EnterPhaseSound, VerifyAfterPhaseSound, AdvanceSound, CleanupSound,
       DropRowSound
<1>2. CASE Inventory
    BY <1>2, StartInventorySound, WalkEntrySound, SetHardlinkCanonicalsSound DEF Inventory
<1>3. CASE Hash
    BY <1>3, PromoteUnhasheableSound, PopulateHashQueueSound, PullHashSound, OpenToHashSound,
       HashOneSound, IngestHashSound, EndHashSound DEF Hash
<1>4. CASE Filter
    BY <1>4, ApplyNoFilterSound, FilterBatchSound, FixUpCanonicalFlagSound DEF Filter
<1>5. CASE DedupPhase
    BY <1>5, DedupPhaseSound
<1>6. CASE Sparsify
    BY <1>6, PromoteSparseSound, PopulateSparseQueueSound, PullSparseSound, OpenSparseSound,
       CopySparseSound, IngestSparseSound, EndSparseSound DEF Sparsify
<1>7. CASE Stage
    BY <1>7, PromoteUnstageableSound, LinkMemberSound, EndSectionSound, ApplyLinkSound,
       NextBatchSound DEF Stage
<1>8. CASE Archive
    BY <1>8, BeginArchiveSound, AppendMemberSound, EndArchiveSound DEF Archive
<1>9. CASE Command
    BY <1>9, CreateSound, FreshSound, ResumeSound DEF Command
<1>10. CASE Crash \/ StopDedup
    BY <1>10, StopSound
<1>11. CASE Signal \/ Vanish
    BY <1>11, SignalSound, VanishSound
<1>12. CASE UNCHANGED vars
    BY <1>12, UnchangedSound
<1> QED BY <1>1, <1>2, <1>3, <1>4, <1>5, <1>6, <1>7, <1>8, <1>9, <1>10, <1>11, <1>12 DEF Next, Step

THEOREM Invariance == Spec => []IInv
<1>1. IInv /\ [Next]_vars => IInv'
    BY NextSound DEF Sound
<1> QED BY <1>1, InitIInv, PTL DEF Spec

-----------------------------------------------------------------------------
(* What an archive run promises.                                            *)

\* Every state is typed: each row of the files table has one of the phases,
\* the queues and the pool hold names, and the process is where it can be.
THEOREM TypeCorrect == Spec => []TypeOK
<1>1. IInv => TypeOK
    BY DEF IInv, Typed
<1> QED BY <1>1, Invariance, PTL

\* Once a row is staged, its link leads to the file or to a finished sparse
\* copy of it, whatever was killed while the copy or the link was made.
THEOREM StageIsSound == Spec => []StageSound
<1>1. ASSUME IInv PROVE StageSound
    <2> SUFFICES ASSUME NEW n \in Candidate \cap Hashed, row[n].phase \in {"staged", "archived"}
                 PROVE  IF "hasSparse" \in row[n].flags
                        THEN link[n] = "sparse" /\ sparse[n] = "whole"
                        ELSE link[n] = "source"
        BY DEF StageSound
    <2>1. LinkRight(n) /\ n \in Names
        BY <1>1, Within DEF IInv, Links
    <2>2. "hasSparse" \in row[n].flags => sparse[n] = "whole"
        BY <1>1, <2>1 DEF IInv, Copies, Flagged
    <2> QED BY <2>1, <2>2 DEF LinkRight
<1> QED BY <1>1, Invariance, PTL

\* Hard link detection keeps one name per inode, a kept one from the end of
\* the filter on, and the names of an inode agree on having a digest.
THEOREM InodesAreSound == Spec => []InodesSound
<1>1. ASSUME IInv PROVE InodesSound
    <2>1. ASSUME world.detect, NEW n \in Listed, NEW m \in Listed, m \in SameInode(n)
          PROVE  row[m].sha = row[n].sha
        <3>1. n \in Hashed <=> m \in Hashed
            BY <1>1, <2>1 DEF IInv, OneName, SameInode
        <3>2. n \in Names /\ m \in Names /\ row[n].sha \in BOOLEAN /\ row[m].sha \in BOOLEAN
            BY <1>1 DEF IInv, Typed, TypeOK, Row, Listed
        <3> QED BY <3>1, <3>2 DEF Hashed
    <2>2. ASSUME world.detect,
                 \/ meta.phase \in {"dedup", "sparsify", "stage", "archive", "done"}
                 \/ world.eager /\ meta.phase = "hash",
                 NEW n \in Kept
          PROVE  \E m \in Kept : SameInode(n) \cap Flagged("linkCanonical") = {m}
        <3>1. Filtered
            BY <2>2 DEF Filtered
        <3> QED BY <1>1, <2>2, <3>1 DEF IInv, OneName, Standing
    <2> QED BY <2>1, <2>2 DEF InodesSound
<1> QED BY <1>1, Invariance, PTL

\* Whatever was interrupted, killed and resumed on the way: a finished run has
\* archived each regular file that the rules keep, once per content, unless
\* something that it needed vanished and an error says so, and nothing else.
THEOREM RunsAreComplete == Spec => []Complete
<1>1. ASSUME IInv PROVE Complete
    <2> SUFFICES ASSUME meta.phase = "done", meta.rules = "all" PROVE Complete
        BY DEF Complete
    <2>1. \A n \in Listed : row[n].phase = "archived"
        BY <1>1 DEF IInv, InPhase, Found, Left
    <2>2. A1 /\ A7 /\ Names \ Listed \subseteq gone
        BY <1>1 DEF IInv, Checked, Walked
    <2>3. \A n \in Listed : row[n].verdict = Verdict(n)
        BY <1>1, <2>1 DEF IInv, RowSound, Unfiltered, Listed
    <2>4. \A n \in Listed : n \in Kept <=> n \in world.included \ world.excluded
        BY <2>3, Within DEF Verdict, Kept
    <2>5. \A n \in Names : row[n].flags \cap Errors # {} => n \in gone
        BY <1>1 DEF IInv, RowSound
    <2>6. world.included \subseteq Names /\ world.regular \subseteq Names /\ NULL \notin Names
        BY <1>1, CatalogueAssumption DEF IInv, Typed, TypeOK, World
    <2>7. \A n \in Listed : n \in SameInode(n)
        BY DEF SameInode
    <2>8. ASSUME NEW n \in Wanted
          PROVE  \/ n \in gone \ Listed
                 \/ row[n].canonical # NULL /\ row[row[n].canonical].stored
                 \/ \E m \in SameInode(n) \cup ({row[n].canonical} \ {NULL}) :
                       m \in gone /\ row[m].flags \cap Errors # {}
        <3> SUFFICES ASSUME n \in Listed,
                            \A m \in SameInode(n) \cup ({row[n].canonical} \ {NULL}) :
                               m \in Names => row[m].flags \cap Errors = {}
                     PROVE  row[n].canonical # NULL /\ row[row[n].canonical].stored
            BY <2>2, <2>5, <2>6 DEF Wanted
        <3>1. n \in Kept /\ n \in Regular /\ n \in SameInode(n) /\ n \in Names
            BY <2>4, <2>7, Within DEF Wanted, Regular
        <3>2. n \in Hashed
            <4>1. CASE world.detect
                <5>1. PICK m \in Kept : SameInode(n) \cap Standing = {m}
                    BY <1>1, <3>1, <4>1 DEF IInv, OneName, Filtered
                <5>2. m \in Listed /\ m \in Names /\ m \in Standing
                      /\ world.inode[m] = world.inode[n] /\ m \in SameInode(n)
                    BY <1>1, <5>1, OnlyRows, Within DEF SameInode
                <5>3. m \in Regular
                    BY <1>1, <3>1, <5>2, WorldTyped DEF Regular
                <5>4. "hashError" \notin row[m].flags
                    BY <5>2 DEF Errors
                <5>5. m \in Hashed
                    BY <2>2, <5>1, <5>2, <5>3, <5>4 DEF A1, Flagged, Standing
                <5> QED BY <1>1, <4>1, <5>2, <5>5 DEF IInv, OneName
            <4>2. CASE ~ world.detect
                <5>1. "hashError" \notin row[n].flags
                    BY <3>1 DEF Errors
                <5> QED BY <2>2, <3>1, <4>2, <5>1 DEF A1, Flagged
            <4> QED BY <4>1, <4>2
        <3>3. row[n].canonical # NULL
            <4>1. "dedupError" \notin row[n].flags
                BY <3>1 DEF Errors
            <4>2. row[n].phase \notin Undeduped
                BY <2>1 DEF Undeduped
            <4> QED BY <1>1, <3>1, <3>2, <4>1, <4>2 DEF IInv, Canonicals
        <3> DEFINE c == row[n].canonical
        <3>4. c \in Names /\ row[c].canonical = c
            BY <1>1, <3>1, <3>3, Within DEF IInv, Canonicals, Same
        <3>5. "archiveError" \notin row[c].flags
            BY <3>3, <3>4 DEF Errors
        <3>6. row[c].stored # ("archiveError" \in row[c].flags)
            BY <2>2, <3>4 DEF A7
        <3>7. row[c].stored \in BOOLEAN
            BY <1>1, <3>4 DEF IInv, Typed, TypeOK, Row
        <3> QED BY <3>3, <3>5, <3>6, <3>7
    <2>9. ASSUME NEW n \in Names, row[n].stored
          PROVE  n \in Regular \cap Hashed \cap Kept /\ row[n].canonical = n
        BY <1>1, <2>6, <2>9 DEF IInv, RowSound, Canonicals
    <2>10. ASSUME NEW n \in Names, row[n].stored
           PROVE  /\ n \in Wanted
                  /\ \A m \in Names : row[m].stored =>
                        (world.content[m] = world.content[n] => m = n)
        <3>1. n \in Wanted
            BY <2>4, <2>9, <2>10 DEF Wanted, Regular
        <3>2. ASSUME NEW m \in Names, row[m].stored, world.content[m] = world.content[n]
              PROVE  m = n
            <4>1. m \in Same(n) /\ row[m].canonical = m
                BY <2>9, <3>2 DEF Same
            <4>2. row[n].canonical = n
                BY <2>9, <2>10
            <4> QED BY <1>1, <2>6, <4>1, <4>2 DEF IInv, Canonicals
        <3> QED BY <3>1, <3>2
    <2> QED BY <2>8, <2>10 DEF Complete
<1> QED BY <1>1, Invariance, PTL

\* As long as the work database lives, no step takes back what was done: no
\* row returns to an earlier phase, and verdicts, digests, errors, canonicals
\* and payloads stay.
THEOREM WorkIsKept == Spec => WorkStands
<1>1. IInv /\ [Next]_vars => [Stands]_vars
    BY NextSound DEF Sound
<1> QED BY <1>1, Invariance, PTL DEF Spec, WorkStands, Stands
=============================================================================
