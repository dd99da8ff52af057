---------------------------- MODULE DedupProofs ----------------------------
(***************************************************************************)
(* Theorems about the dedup phase, for every catalogue, every number of    *)
(* rows and groups, every batch size and every number of crashes.  The     *)
(* argument is the inductive invariant IInv of module Dedup.               *)
(***************************************************************************)
EXTENDS Dedup, TLAPS, WellFoundedInduction

(***************************************************************************)
(* The fields of a corpus, as far as the proofs look at them.              *)
(***************************************************************************)
LEMMA CorpusFields ==
    ASSUME NEW x \in Corpora
    PROVE  /\ x.key \in [Files -> Keys \cup {NoKey}]
           /\ x.passes \subseteq Files
           /\ x.hardlinks \in BOOLEAN
           /\ x.inode \in [Files -> Inodes \cup {NoInode}]
BY DedupAssumption DEF Corpus

(***************************************************************************)
(* The least row of a set, when there is one, is unique and in the set.    *)
(***************************************************************************)
LEMMA LeastUnique ==
    ASSUME NEW S \in SUBSET Files, NEW f \in Least(S), NEW g \in Least(S)
    PROVE  f = g /\ f \in S
BY DedupAssumption DEF Least

\* A set of rows that is not empty has a least row: MIN(id) is not NULL.
LEMMA LeastExists ==
    ASSUME NEW S \in SUBSET Files, S # {}
    PROVE  Least(S) # {}
<1> DEFINE R == {ss \in Nat \X Nat : ss[1] < ss[2]}
<1>1. IsWellFoundedOn(R, Nat)
    BY NatLessThanWellFounded, Zenon DEF OpToRel
<1>2. S \subseteq Nat
    BY DedupAssumption
<1> HIDE DEF R
<1>3. PICK x \in S : \A y \in S : ~ (<<y, x>> \in R)
    BY <1>1, <1>2, WFMin, Zenon
<1>4. \A y \in S : ~ (y < x)
    BY <1>2, <1>3 DEF R
<1>5. x \in Least(S)
    BY <1>2, <1>4 DEF Least
<1> QED BY <1>5

(***************************************************************************)
(* The invariant holds before the first transaction of the phase.          *)
(***************************************************************************)
LEMMA InitIInv == Init => IInv
<1> SUFFICES ASSUME Init PROVE IInv
    OBVIOUS
<1> USE DedupAssumption DEF Init
<1>1. TypeOK
    BY DEF TypeOK, PC, Prologue, GroupState
<1>2. QueuesLive /\ MarkersCover /\ FlagsInRound /\ OutcomesTrue
    BY DEF QueuesLive, MarkersCover, FlagsInRound, OutcomesTrue, Loop, Tick
<1>3. ModePath
    BY DEF ModePath, Loop, Tick
<1>4. RowsInPhase /\ BulkAtOnce /\ GroupsProper /\ LinksResolve
    BY DEF RowsInPhase, BulkAtOnce, GroupsProper, LinksResolve, LinkSound
<1>5. OutstandingIsCurrent /\ ExactlyOnce
    BY DEF OutstandingIsCurrent, ExactlyOnce
<1>6. OneActivePerRound
    BY DEF OneActivePerRound, Active, Members
<1> QED BY <1>1, <1>2, <1>3, <1>4, <1>5, <1>6 DEF IInv

(***************************************************************************)
(* Steps that touch no table: workers, signals, restarts, verification.    *)
(***************************************************************************)
\* A compare moves a pair from the channel to the results.
LEMMA WorkerCompareIInv == IInv /\ WorkerCompare => IInv'
<1> SUFFICES ASSUME IInv, WorkerCompare PROVE IInv'
    OBVIOUS
<1>1. PICK p \in work, r \in Result :
          /\ r \in Compare(p)
          /\ work' = work \ {p}
          /\ out' = out \cup {[cand |-> p.cand, canon |-> p.canon, result |-> r]}
    BY DEF WorkerCompare
<1> DEFINE o == [cand |-> p.cand, canon |-> p.canon, result |-> r]
<1>2. /\ UNCHANGED <<corpus, phase, canonical, check, err, group, inflight, feed,
                     shutdown, failFastHit, pc, restarts>>
      /\ p \in Pair /\ p.cand \in Files /\ p.canon \in Files
      /\ o \in Outcome /\ o.cand = p.cand /\ o.canon = p.canon /\ o.result = r
    BY <1>1 DEF WorkerCompare, IInv, TypeOK, db, Pair, Outcome
<1>3. TypeOK'
    BY <1>1, <1>2 DEF IInv, TypeOK
<1>4. QueuesLive'
    BY <1>1, <1>2 DEF IInv, QueuesLive
<1>5. MarkersCover'
    BY <1>1, <1>2 DEF IInv, MarkersCover
<1>6. ModePath' /\ RowsInPhase' /\ BulkAtOnce' /\ GroupsProper' /\ FlagsInRound'
      /\ OneActivePerRound'
    BY <1>2 DEF IInv, ModePath, RowsInPhase, BulkAtOnce, GroupsProper, FlagsInRound,
                OneActivePerRound, Eligible, KeyOf, Members, Active
<1>7. LinksResolve'
    BY <1>2 DEF IInv, LinksResolve, LinkSound, Eligible, KeyOf, Trusted
<1>8. OutstandingIsCurrent'
    BY <1>1, <1>2 DEF IInv, OutstandingIsCurrent, Current, InGroup, KeyOf,
                      Active, Members
<1>9. ExactlyOnce'
    BY <1>1, <1>2 DEF IInv, ExactlyOnce
<1>10. OutcomesTrue'
    <2>1. r = "equal" /\ Trusted => corpus.bytes[p.cand] = corpus.bytes[p.canon]
        BY <1>1, <1>2 DEF Compare, Trusted
    <2> QED BY <1>1, <1>2, <2>1 DEF IInv, OutcomesTrue, Trusted, KeyOf
<1> QED BY <1>3, <1>4, <1>5, <1>6, <1>7, <1>8, <1>9, <1>10 DEF IInv

\* A worker that drops its pair under a shutdown touches no table.
LEMMA WorkerDropIInv == IInv /\ WorkerDrop => IInv'
<1> SUFFICES ASSUME IInv, WorkerDrop PROVE IInv'
    OBVIOUS
<1>1. /\ UNCHANGED <<corpus, phase, canonical, check, err, group, inflight, feed,
                     out, shutdown, failFastHit, pc, restarts>>
      /\ work' \subseteq work
    BY DEF WorkerDrop, db
<1>2. TypeOK' /\ QueuesLive' /\ MarkersCover'
    BY <1>1 DEF IInv, TypeOK, QueuesLive, MarkersCover
<1>3. ModePath' /\ RowsInPhase' /\ BulkAtOnce' /\ GroupsProper' /\ FlagsInRound'
      /\ OneActivePerRound'
    BY <1>1 DEF IInv, ModePath, RowsInPhase, BulkAtOnce, GroupsProper, FlagsInRound,
                OneActivePerRound, Eligible, KeyOf, Members, Active
<1>4. LinksResolve' /\ OutcomesTrue'
    BY <1>1 DEF IInv, LinksResolve, LinkSound, Eligible, KeyOf, Trusted, OutcomesTrue
<1>5. OutstandingIsCurrent'
    BY <1>1 DEF IInv, OutstandingIsCurrent, Current, InGroup, KeyOf, Active, Members
<1>6. ExactlyOnce'
    BY <1>1 DEF IInv, ExactlyOnce
<1> QED BY <1>2, <1>3, <1>4, <1>5, <1>6 DEF IInv

\* Signals, crashes with their reruns, the verification and the stopped program.
LEMMA ControlIInv ==
    IInv /\ (Signal \/ Restart \/ Verify \/ Stopped \/ UNCHANGED vars) => IInv'
<1> SUFFICES ASSUME IInv, Signal \/ Restart \/ Verify \/ Stopped \/ UNCHANGED vars
             PROVE  IInv'
    OBVIOUS
<1>1. /\ UNCHANGED <<corpus, phase, canonical, check, err, group>>
      /\ work' \subseteq work /\ out' \subseteq out /\ feed' \subseteq feed
      /\ \/ UNCHANGED <<inflight, pc>>
         \/ /\ pc' \in {"start", "done", "panicked"}
            /\ work' = {} /\ out' = {} /\ feed' = {}
    BY DEF IInv, QueuesLive, Loop, Tick, Signal, Restart, Verify, Stopped, vars, db, queues
<1>2. TypeOK'
    <2>1. /\ inflight' \subseteq Files
          /\ shutdown' \in {"running", "graceful", "force"}
          /\ failFastHit' \in BOOLEAN
        BY DEF IInv, TypeOK, Signal, Restart, Verify, Stopped, vars, queues
    <2>2. pc' \in PC
        BY <1>1 DEF IInv, TypeOK, PC, Prologue, Settled
    <2>3. restarts' \in Nat
        BY DEF IInv, TypeOK, Signal, Restart, Verify, Stopped, vars
    <2> QED BY <1>1, <2>1, <2>2, <2>3 DEF IInv, TypeOK
<1>3. QueuesLive' /\ MarkersCover'
    BY <1>1 DEF IInv, QueuesLive, MarkersCover, Loop, Tick
<1>4. ModePath' /\ BulkAtOnce' /\ GroupsProper' /\ FlagsInRound' /\ OneActivePerRound'
    BY <1>1 DEF IInv, ModePath, BulkAtOnce, GroupsProper, FlagsInRound, Loop, Tick,
                OneActivePerRound, Eligible, KeyOf, Members, Active
<1>5. RowsInPhase'
    <2>1. pc' = "start" \/ pc = pc' \/ pc = "verify"
        BY DEF Signal, Restart, Verify, Stopped, vars
    <2> QED BY <1>1, <2>1 DEF IInv, RowsInPhase, Eligible, KeyOf
<1>6. LinksResolve' /\ OutcomesTrue'
    BY <1>1 DEF IInv, LinksResolve, LinkSound, Eligible, KeyOf, Trusted, OutcomesTrue
<1>7. OutstandingIsCurrent'
    BY <1>1 DEF IInv, OutstandingIsCurrent, Current, InGroup, KeyOf, Active, Members
<1>8. ExactlyOnce'
    BY <1>1 DEF IInv, ExactlyOnce
<1> QED BY <1>2, <1>3, <1>4, <1>5, <1>6, <1>7, <1>8 DEF IInv

(***************************************************************************)
(* The bulk updates of the prologue.                                       *)
(***************************************************************************)
\* Rows that take no part leave the phase and belong to no group.
LEMMA PromoteIneligibleIInv == IInv /\ PromoteIneligible => IInv'
<1> SUFFICES ASSUME IInv, PromoteIneligible PROVE IInv'
    OBVIOUS
<1> USE DEF PromoteIneligible, queues
<1>1. work = {} /\ out = {} /\ feed = {}
    BY DEF IInv, QueuesLive, Loop, Tick
<1>2. TypeOK' /\ QueuesLive' /\ MarkersCover' /\ OutcomesTrue' /\ OutstandingIsCurrent'
      /\ ExactlyOnce' /\ ModePath'
    BY <1>1 DEF IInv, TypeOK, QueuesLive, MarkersCover, OutcomesTrue, ModePath,
                OutstandingIsCurrent, ExactlyOnce, PC, Prologue, Loop, Tick
<1>3. \A f \in Files : phase'[f] = "prev" <=> phase[f] = "prev" /\ Eligible(f)
    BY DEF IInv, TypeOK
<1>4. \A k \in Keys : group[k] # "absent" => Members(k)' = Members(k)
    BY <1>3 DEF IInv, GroupsProper, Members
<1>5. \A k \in Keys : Active(k)' = {f \in Active(k) : Eligible(f)}
    BY <1>3 DEF Active, Members
<1>6. RowsInPhase' /\ BulkAtOnce'
    BY <1>3 DEF IInv, RowsInPhase, BulkAtOnce, Eligible, KeyOf
<1>7. GroupsProper'
    BY <1>4 DEF IInv, GroupsProper, Eligible, KeyOf
<1>8. FlagsInRound'
    BY <1>3, <1>4 DEF IInv, TypeOK, FlagsInRound, Members, KeyOf
<1>9. OneActivePerRound'
    <2> SUFFICES ASSUME NEW k \in Keys
                 PROVE  IF group[k] \in {"searching", "finished"}
                        THEN Singleton(Active(k)') ELSE Active(k)' = {}
        BY DEF OneActivePerRound, Singleton
    <2>1. CASE group[k] = "absent"
        BY <1>5, <2>1 DEF IInv, OneActivePerRound
    <2>2. CASE group[k] # "absent"
        BY <1>4, <2>2 DEF IInv, OneActivePerRound, Active
    <2> QED BY <2>1, <2>2
<1>10. LinksResolve'
    BY DEF IInv, LinksResolve, LinkSound, Eligible, KeyOf, Trusted
<1> QED BY <1>2, <1>6, <1>7, <1>8, <1>9, <1>10 DEF IInv

\* Empty rows have no canonical yet: their keys have no group.
LEMMA PromoteEmptyIInv == IInv /\ PromoteEmpty => IInv'
<1> SUFFICES ASSUME IInv, PromoteEmpty PROVE IInv'
    OBVIOUS
<1> USE DEF queues
<1> DEFINE empty == {f \in Files : phase[f] = "prev" /\ KeyOf(f) \in ZeroSizeKeys}
           least == CHOOSE m \in Least(empty) : TRUE
<1>1. work = {} /\ out = {} /\ feed = {} /\ pc = "empty"
    BY DEF IInv, QueuesLive, Loop, Tick, PromoteEmpty
<1>2. \A f \in Files : /\ phase'[f] = IF f \in empty THEN "deduped" ELSE phase[f]
                       /\ canonical'[f] = IF f \in empty THEN least ELSE canonical[f]
    BY DEF PromoteEmpty
<1>3. \A f \in Files : f \in empty => Eligible(f) /\ canonical[f] = NULL
    <2> SUFFICES ASSUME NEW f \in Files, f \in empty
                 PROVE  Eligible(f) /\ canonical[f] = NULL
        OBVIOUS
    <2>1. Eligible(f) /\ canonical[f] \in {NULL, f}
        BY <1>1 DEF IInv, RowsInPhase
    <2>2. KeyOf(f) \in Keys /\ group[KeyOf(f)] = "absent"
        BY DedupAssumption DEF IInv, GroupsProper
    <2>3. f \notin Active(KeyOf(f))
        BY <2>2 DEF IInv, OneActivePerRound
    <2> QED BY <2>1, <2>3 DEF Active, Members, KeyOf
<1>4. empty # {} => least \in empty
    <2> SUFFICES ASSUME empty # {} PROVE least \in empty
        OBVIOUS
    <2>1. least \in Least(empty)
        BY LeastExists
    <2> QED BY <2>1, LeastUnique
<1> HIDE DEF least
<1>5. \A k \in Keys : k \notin ZeroSizeKeys => Members(k)' = Members(k) /\ Active(k)' = Active(k)
    BY <1>2 DEF Members, Active, KeyOf, PromoteEmpty
<1>6. \A k \in Keys : Members(k)' \subseteq Members(k) /\ Active(k)' \subseteq Active(k)
    BY <1>2 DEF Members, Active, KeyOf, PromoteEmpty
<1>7. TypeOK' /\ QueuesLive' /\ MarkersCover' /\ OutcomesTrue' /\ OutstandingIsCurrent'
      /\ ExactlyOnce' /\ ModePath'
    <2>1. canonical' \in [Files -> Files \cup {NULL}]
        BY <1>2, <1>4 DEF IInv, TypeOK, PromoteEmpty
    <2>2. phase' \in [Files -> {"prev", "deduped"}]
        BY DEF IInv, TypeOK, PromoteEmpty
    <2> QED BY <1>1, <2>1, <2>2 DEF IInv, TypeOK, QueuesLive, MarkersCover, OutcomesTrue,
                ModePath, OutstandingIsCurrent, ExactlyOnce, PC, Prologue, Loop, Tick,
                PromoteEmpty
<1>8. corpus' = corpus /\ group' = group /\ check' = check
    BY DEF PromoteEmpty
<1>9. RowsInPhase' /\ BulkAtOnce'
    BY <1>1, <1>2, <1>3, <1>8 DEF IInv, TypeOK, RowsInPhase, BulkAtOnce, Eligible, KeyOf
<1>10. GroupsProper'
    BY <1>5, <1>8 DEF IInv, GroupsProper, Eligible, KeyOf
<1>11. FlagsInRound'
    BY <1>2, <1>8 DEF IInv, TypeOK, FlagsInRound, GroupsProper, KeyOf
<1>12. OneActivePerRound'
    <2> SUFFICES ASSUME NEW k \in Keys
                 PROVE  IF group[k] \in {"searching", "finished"}
                        THEN Singleton(Active(k)') ELSE Active(k)' = {}
        BY <1>8 DEF OneActivePerRound, Singleton
    <2> QED BY <1>5, <1>6 DEF IInv, OneActivePerRound, GroupsProper
<1>13. LinksResolve'
    <2> SUFFICES ASSUME NEW f \in Files PROVE LinkSound(f)'
        BY DEF LinksResolve
    <2>1. CASE f \in empty
        <3>1. least \in empty /\ canonical'[f] = least /\ canonical'[least] = least
            BY <1>2, <1>4, <2>1
        <3>2. Trusted => corpus.bytes[least] = corpus.bytes[f]
            BY <2>1, <3>1 DEF Trusted
        <3> QED BY <1>3, <1>8, <3>1, <3>2 DEF LinkSound, Trusted, Eligible, KeyOf
    <2>2. CASE f \notin empty /\ canonical[f] # NULL
        <3>1. canonical[f] \in Files /\ LinkSound(f) /\ canonical'[f] = canonical[f]
            BY <1>2, <2>2 DEF IInv, TypeOK, LinksResolve
        <3>2. canonical[f] \notin empty
            BY <1>3, <2>2, <3>1, DedupAssumption DEF LinkSound
        <3> QED BY <1>2, <1>8, <2>2, <3>1, <3>2 DEF LinkSound, Trusted, Eligible, KeyOf
    <2>3. CASE f \notin empty /\ canonical[f] = NULL
        BY <1>2, <2>3 DEF LinkSound
    <2> QED BY <2>1, <2>2, <2>3
<1> QED BY <1>7, <1>9, <1>10, <1>11, <1>12, <1>13 DEF IInv

\* A row without a twin belongs to no group.
LEMMA PromoteSingletonIInv == IInv /\ PromoteSingleton => IInv'
<1> SUFFICES ASSUME IInv, PromoteSingleton PROVE IInv'
    OBVIOUS
<1> USE DEF queues
<1> DEFINE unique == {f \in Files : /\ phase[f] = "prev"
                                    /\ KeyOf(f) \in Keys
                                    /\ {g \in Files : KeyOf(g) = KeyOf(f)} = {f}}
<1>1. work = {} /\ out = {} /\ feed = {} /\ pc = "singleton" /\ pc' = "populate"
      /\ corpus' = corpus /\ group' = group /\ check' = check
    BY DEF IInv, QueuesLive, Loop, Tick, PromoteSingleton
<1>2. \A f \in Files : /\ phase'[f] = IF f \in unique THEN "deduped" ELSE phase[f]
                       /\ canonical'[f] = IF f \in unique THEN f ELSE canonical[f]
    BY DEF PromoteSingleton
<1>3. \A f \in Files : f \in unique =>
          Eligible(f) /\ KeyOf(f) \in Keys /\ group[KeyOf(f)] = "absent"
    BY <1>1 DEF IInv, RowsInPhase, GroupsProper
<1> HIDE DEF unique
<1>4. \A k \in Keys : group[k] # "absent" => Members(k)' = Members(k) /\ Active(k)' = Active(k)
    BY <1>1, <1>2, <1>3 DEF Members, Active, KeyOf
<1>5. \A k \in Keys : Members(k)' \subseteq Members(k) /\ Active(k)' \subseteq Active(k)
    BY <1>1, <1>2 DEF Members, Active, KeyOf
<1>6. TypeOK' /\ QueuesLive' /\ MarkersCover' /\ OutcomesTrue' /\ OutstandingIsCurrent'
      /\ ExactlyOnce' /\ ModePath'
    BY <1>1 DEF IInv, TypeOK, QueuesLive, MarkersCover, OutcomesTrue,
                ModePath, OutstandingIsCurrent, ExactlyOnce, PC, Prologue, Loop, Tick,
                PromoteSingleton
<1>7. RowsInPhase' /\ BulkAtOnce'
    BY <1>1, <1>2, <1>3 DEF IInv, TypeOK, RowsInPhase, BulkAtOnce, ModePath, Eligible, KeyOf
<1>8. GroupsProper'
    BY <1>1, <1>4 DEF IInv, GroupsProper, Eligible, KeyOf
<1>9. FlagsInRound'
    BY <1>1, <1>2, <1>3 DEF IInv, TypeOK, FlagsInRound, KeyOf
<1>10. OneActivePerRound'
    <2> SUFFICES ASSUME NEW k \in Keys
                 PROVE  IF group[k] \in {"searching", "finished"}
                        THEN Singleton(Active(k)') ELSE Active(k)' = {}
        BY <1>1 DEF OneActivePerRound, Singleton
    <2> QED BY <1>4, <1>5 DEF IInv, OneActivePerRound
<1>11. LinksResolve'
    BY <1>1, <1>2, <1>3 DEF IInv, TypeOK, LinksResolve, LinkSound, Trusted, Eligible, KeyOf
<1> QED BY <1>6, <1>7, <1>8, <1>9, <1>10, <1>11 DEF IInv

\* New groups have two rows in the phase, none of them empty.
LEMMA PopulateIInv == IInv /\ Populate => IInv'
<1> SUFFICES ASSUME IInv, Populate PROVE IInv'
    OBVIOUS
<1>1. /\ work = {} /\ out = {} /\ feed = {} /\ pc = "populate"
      /\ work' = {} /\ out' = {} /\ feed' = {} /\ inflight' = {}
      /\ pc' \in {"drain", "verify", "panicked"}
      /\ UNCHANGED <<corpus, phase, canonical, check, err, shutdown, failFastHit, restarts>>
    BY DEF IInv, QueuesLive, Loop, Tick, Populate
<1>2. \A k \in Keys :
          \/ group'[k] = group[k]
          \/ /\ group[k] = "absent" /\ group'[k] = "ready"
             /\ \E f, g \in Members(k) : f # g
    BY DEF Populate
<1>3. group' \in [Keys -> GroupState]
    BY DEF IInv, TypeOK, Populate, GroupState
<1>4. TypeOK'
    BY <1>1, <1>3 DEF IInv, TypeOK, PC, Loop, Settled
<1>5. /\ QueuesLive' /\ MarkersCover' /\ OutcomesTrue' /\ OutstandingIsCurrent'
      /\ ExactlyOnce'
    BY <1>1 DEF QueuesLive, MarkersCover, OutcomesTrue, OutstandingIsCurrent, ExactlyOnce
<1>6. ModePath' /\ RowsInPhase' /\ BulkAtOnce'
    BY <1>1 DEF IInv, ModePath, RowsInPhase, BulkAtOnce, Eligible, KeyOf
<1>7. GroupsProper'
    <2> SUFFICES ASSUME NEW k \in Keys, group'[k] # "absent"
                 PROVE  /\ k \notin ZeroSizeKeys
                        /\ \E f, g \in Files : f # g /\ KeyOf(f) = k /\ KeyOf(g) = k
                        /\ \A f \in Members(k) : Eligible(f)
        BY <1>1 DEF GroupsProper, KeyOf, Members, Eligible
    <2>1. CASE group[k] # "absent"
        BY <2>1 DEF IInv, GroupsProper
    <2>2. CASE group[k] = "absent"
        <3>1. PICK f, g \in Members(k) : f # g
            BY <1>2, <2>2
        <3> QED BY <1>1, <3>1 DEF IInv, RowsInPhase, Members, KeyOf
    <2> QED BY <2>1, <2>2
<1>8. FlagsInRound' /\ OneActivePerRound'
    BY <1>1, <1>2 DEF IInv, FlagsInRound, OneActivePerRound, KeyOf, Members, Active, Singleton
<1>9. LinksResolve'
    BY <1>1 DEF IInv, LinksResolve, LinkSound, Trusted, Eligible, KeyOf
<1> QED BY <1>4, <1>5, <1>6, <1>7, <1>8, <1>9 DEF IInv

\* The rows of one cluster are decided together, so the least row of the
\* cluster is the one that is elected.
LEMMA BulkPromoteIInv == IInv /\ BulkPromote => IInv'
<1> SUFFICES ASSUME IInv, BulkPromote PROVE IInv'
    OBVIOUS
<1> USE DEF queues
<1> DEFINE candidates == {f \in Files : phase[f] = "prev" /\ Eligible(f)}
           target(f) == IF f \in Least(candidates \cap Cluster(f)) THEN f
                        ELSE CHOOSE m \in Least(Cluster(f)) : TRUE
<1>1. /\ work = {} /\ out = {} /\ feed = {} /\ pc = "bulk" /\ corpus.mode # "Regular"
      /\ pc' \in {"verify", "panicked"}
      /\ UNCHANGED <<corpus, check, err, group, inflight, feed, work, out, shutdown,
                     failFastHit, restarts>>
    BY DEF IInv, QueuesLive, ModePath, Loop, Tick, BulkPromote
<1>2. \A f \in Files :
          /\ canonical'[f] = IF f \in candidates THEN target(f) ELSE canonical[f]
          /\ phase'[f] = IF f \in candidates THEN "deduped" ELSE phase[f]
    BY DEF BulkPromote
<1>3. \A f \in Files : phase[f] = "prev" <=> f \in candidates
    BY <1>1 DEF IInv, RowsInPhase
<1>4. \A f \in candidates : KeyOf(f) \in Keys /\ KeyOf(f) \notin ZeroSizeKeys
    BY <1>1, CorpusFields, Zenon DEF IInv, TypeOK, RowsInPhase, Eligible, KeyOf
<1>5. \A f \in candidates : canonical[f] = NULL
    <2> SUFFICES ASSUME NEW f \in candidates PROVE canonical[f] = NULL
        OBVIOUS
    <2>1. Active(KeyOf(f)) = {}
        BY <1>1, <1>4 DEF IInv, ModePath, OneActivePerRound
    <2> QED BY <2>1 DEF IInv, RowsInPhase, Active, Members, KeyOf
<1>6. \A f \in candidates : \A g \in Files : Eligible(g) /\ KeyOf(g) = KeyOf(f) => g \in candidates
    BY <1>1, <1>4 DEF IInv, TypeOK, BulkAtOnce
<1>7. \A f \in candidates : \A g \in Cluster(f) :
          /\ g \in candidates /\ Cluster(g) = Cluster(f)
          /\ Trusted => corpus.bytes[g] = corpus.bytes[f]
    <2> SUFFICES ASSUME NEW f \in candidates, NEW g \in Cluster(f)
                 PROVE  /\ g \in candidates /\ Cluster(g) = Cluster(f)
                        /\ Trusted => corpus.bytes[g] = corpus.bytes[f]
        OBVIOUS
    <2>1. KeyOf(g) = KeyOf(f) /\ g \in candidates
        BY <1>6 DEF Cluster
    <2>2. Cluster(g) = Cluster(f)
        BY <2>1 DEF Cluster
    <2>3. ASSUME Trusted PROVE corpus.bytes[g] = corpus.bytes[f]
        <3>1. CASE corpus.mode = "Hash"
            BY <1>4, <2>1, <2>3, <3>1, DedupAssumption DEF Trusted
        <3>2. CASE corpus.mode # "Hash"
            BY <2>1, <2>3, <3>2 DEF Trusted, Cluster
        <3> QED BY <3>1, <3>2
    <2> QED BY <2>1, <2>2, <2>3
<1>8. \A f \in candidates : f \in Cluster(f) /\ Cluster(f) \subseteq Files
    BY DEF Cluster
<1>9. \A f \in candidates : target(f) \in Least(Cluster(f))
    <2> SUFFICES ASSUME NEW f \in candidates PROVE target(f) \in Least(Cluster(f))
        OBVIOUS
    <2>1. Least(Cluster(f)) # {} /\ candidates \cap Cluster(f) = Cluster(f)
        BY <1>7, <1>8, LeastExists
    <2> QED BY <2>1
<1>10. \A f \in candidates : target(f) \in candidates /\ target(f) \in Cluster(f)
    BY <1>7, <1>8, <1>9, LeastUnique
<1>11. \A f \in candidates : target(target(f)) = target(f)
    <2> SUFFICES ASSUME NEW f \in candidates PROVE target(target(f)) = target(f)
        OBVIOUS
    <2>1. target(target(f)) \in Least(Cluster(f))
        BY <1>7, <1>9, <1>10
    <2> QED BY <1>8, <1>9, <2>1, LeastUnique
<1> HIDE DEF target
<1>12. TypeOK'
    <2>1. canonical' \in [Files -> Files \cup {NULL}] /\ phase' \in [Files -> {"prev", "deduped"}]
        BY <1>2, <1>10 DEF IInv, TypeOK, BulkPromote
    <2> QED BY <1>1, <2>1 DEF IInv, TypeOK, PC, Settled
<1>13. /\ QueuesLive' /\ MarkersCover' /\ OutcomesTrue' /\ OutstandingIsCurrent'
       /\ ExactlyOnce' /\ ModePath'
    BY <1>1 DEF IInv, QueuesLive, MarkersCover, OutcomesTrue, OutstandingIsCurrent,
                ExactlyOnce, ModePath, Loop, Tick
<1>14. \A f \in Files : phase'[f] = "deduped"
    BY <1>2, <1>3 DEF IInv, TypeOK
<1>15. RowsInPhase' /\ BulkAtOnce' /\ GroupsProper' /\ FlagsInRound' /\ OneActivePerRound'
    BY <1>1, <1>2, <1>14 DEF IInv, RowsInPhase, BulkAtOnce, ModePath, GroupsProper, FlagsInRound,
                       OneActivePerRound, Members, Active, Eligible, KeyOf
<1>16. LinksResolve'
    <2> SUFFICES ASSUME NEW f \in Files, canonical'[f] # NULL PROVE LinkSound(f)'
        BY DEF LinksResolve, LinkSound
    <2>1. CASE f \in candidates
        BY <1>1, <1>2, <1>7, <1>10, <1>11, <2>1 DEF LinkSound, Trusted, Eligible, KeyOf
    <2>2. CASE f \notin candidates
        <3>1. canonical[f] \in Files /\ LinkSound(f) /\ canonical'[f] = canonical[f]
            BY <1>2, <2>2 DEF IInv, TypeOK, LinksResolve
        <3>2. canonical[f] \notin candidates
            BY <1>5, <2>2, <3>1, DedupAssumption DEF LinkSound
        <3> QED BY <1>1, <1>2, <2>2, <3>1, <3>2 DEF LinkSound, Trusted, Eligible, KeyOf
    <2> QED BY <2>1, <2>2
<1> QED BY <1>12, <1>13, <1>15, <1>16 DEF IInv

(***************************************************************************)
(* The loop: the end of the feed, the commit of a batch, the pull.         *)
(***************************************************************************)
\* Clearing the feed buffer forgets pairs that were never sent.
LEMMA StopFeedingIInv == IInv /\ StopFeeding => IInv'
<1> SUFFICES ASSUME IInv, StopFeeding PROVE IInv'
    OBVIOUS
<1>1. /\ UNCHANGED <<corpus, phase, canonical, check, err, group, inflight, work, out,
                     shutdown, failFastHit, restarts>>
      /\ feed' = {} /\ pc = "drain" /\ pc' = "windDown"
    BY DEF StopFeeding, db
<1>2. TypeOK' /\ QueuesLive' /\ MarkersCover' /\ ExactlyOnce'
    BY <1>1 DEF IInv, TypeOK, QueuesLive, MarkersCover, ExactlyOnce, PC, Loop
<1>3. ModePath' /\ RowsInPhase' /\ BulkAtOnce' /\ GroupsProper' /\ FlagsInRound'
      /\ OneActivePerRound'
    BY <1>1 DEF IInv, ModePath, RowsInPhase, BulkAtOnce, GroupsProper, FlagsInRound,
                OneActivePerRound, Eligible, KeyOf, Members, Active, Loop
<1>4. LinksResolve' /\ OutcomesTrue'
    BY <1>1 DEF IInv, LinksResolve, LinkSound, Eligible, KeyOf, Trusted, OutcomesTrue
<1>5. OutstandingIsCurrent'
    BY <1>1 DEF IInv, OutstandingIsCurrent, Current, InGroup, KeyOf, Active, Members
<1> QED BY <1>2, <1>3, <1>4, <1>5 DEF IInv

\* Committing a batch decides its candidates and nobody else: they are
\* undecided members of searching groups, none of them is outstanding twice,
\* and none is the canonical of anybody.
LEMMA IngestIInv ==
    ASSUME IInv, pc \in {"drain", "windDown"}, pc' \in {"toFinished", "windDown"},
           pc' = "windDown" => pc = "windDown",
           UNCHANGED <<corpus, group, feed, work, shutdown, failFastHit, restarts>>,
           NEW B \in SUBSET out, Ingest(B)
    PROVE  IInv'
<1> DEFINE linkedTo(f) == {o.canon : o \in {x \in B : x.cand = f /\ x.result = "equal"}}
<1>1. \A o \in out : /\ o.cand \in Files /\ o.canon \in Files /\ o.result \in Result
                     /\ Current(o)
    BY DEF IInv, TypeOK, Outcome, OutstandingIsCurrent
<1>2. \A f \in Files : \A o \in B : o.cand = f /\ o.result = "equal" =>
          phase'[f] = "deduped" /\ canonical'[f] = o.canon
    <2> SUFFICES ASSUME NEW f \in Files, NEW o \in B, o.cand = f, o.result = "equal"
                 PROVE  phase'[f] = "deduped" /\ canonical'[f] = o.canon
        OBVIOUS
    <2>1. linkedTo(f) = {o.canon}
        BY DEF IInv, ExactlyOnce
    <2> QED BY <2>1 DEF Ingest
<1>3. \A f \in Files :
          \/ phase'[f] = phase[f] /\ canonical'[f] = canonical[f]
          \/ \E o \in B : o.cand = f /\ o.result = "equal"
    BY DEF Ingest
<1>4. \A o \in B : o.result # "equal" =>
          phase'[o.cand] = phase[o.cand] /\ canonical'[o.cand] = canonical[o.cand]
    BY <1>1, <1>3 DEF IInv, ExactlyOnce
<1>5. \A f \in Files : canonical[f] # NULL =>
          phase'[f] = phase[f] /\ canonical'[f] = canonical[f]
    BY <1>1, <1>3 DEF Current
<1>6. \A k \in Keys : Active(k)' = Active(k) /\ Members(k)' \subseteq Members(k)
    <2>1. \A f \in Files : phase'[f] = "prev" =>
              phase[f] = "prev" /\ canonical'[f] = canonical[f]
        BY <1>2, <1>3
    <2> QED BY <1>5, <2>1, DedupAssumption DEF Active, Members, KeyOf
<1>7. /\ check' = check \cup {o.cand : o \in {x \in B : x.result # "equal"}}
      /\ inflight' = inflight \ {o.cand : o \in B}
      /\ out' = out \ B
    BY DEF Ingest
<1>8. TypeOK'
    <2>1. canonical' \in [Files -> Files \cup {NULL}]
        <3>1. \A f \in Files : canonical'[f] \in Files \cup {NULL}
            BY <1>1, <1>2, <1>3 DEF IInv, TypeOK
        <3>2. canonical' = [f \in Files |-> canonical'[f]]
            BY DEF Ingest
        <3> QED BY <3>1, <3>2
    <2>2. phase' \in [Files -> {"prev", "deduped"}]
        BY DEF IInv, TypeOK, Ingest
    <2>3. check' \subseteq Files /\ err' \subseteq Files
        BY <1>1 DEF IInv, TypeOK, Ingest
    <2> QED BY <1>7, <2>1, <2>2, <2>3 DEF IInv, TypeOK, PC, Loop, Tick
<1>9. QueuesLive' /\ MarkersCover' /\ ExactlyOnce'
    <2>1. QueuesLive'
        BY <1>7 DEF IInv, QueuesLive, Loop, Tick
    <2>2. MarkersCover'
        BY <1>7 DEF IInv, MarkersCover, ExactlyOnce
    <2>3. ExactlyOnce'
        BY <1>7 DEF IInv, ExactlyOnce
    <2> QED BY <2>1, <2>2, <2>3
<1>10. ModePath' /\ BulkAtOnce' /\ OutcomesTrue'
    BY <1>7 DEF IInv, ModePath, BulkAtOnce, OutcomesTrue, Trusted, KeyOf, Loop, Tick
<1>11. \A f \in Files : phase'[f] = "prev" => phase[f] = "prev" /\ canonical'[f] = canonical[f]
    BY <1>2, <1>3
<1>12. \A o \in B : /\ KeyOf(o.cand) \in Keys
                    /\ o.canon \in Active(KeyOf(o.cand)) /\ Eligible(o.canon)
                    /\ canonical[o.canon] = o.canon /\ Eligible(o.cand)
    BY <1>1 DEF Current, InGroup, Active, Members, IInv, RowsInPhase
<1>13. RowsInPhase'
    BY <1>2, <1>3, <1>11, <1>12 DEF IInv, RowsInPhase, Eligible, KeyOf
<1>14. GroupsProper'
    BY <1>6 DEF IInv, GroupsProper, Eligible, KeyOf
<1>15. FlagsInRound'
    <2> SUFFICES ASSUME NEW f \in check'
                 PROVE  /\ phase'[f] = "prev" /\ canonical'[f] = NULL /\ KeyOf(f) \in Keys
                        /\ group[KeyOf(f)] \in {"searching", "finished"}
        BY DEF FlagsInRound, KeyOf
    <2>1. CASE f \in check
        BY <1>1, <1>3, <2>1 DEF IInv, TypeOK, FlagsInRound, Current
    <2>2. CASE f \notin check
        <3>1. PICK o \in B : o.result # "equal" /\ o.cand = f
            BY <1>7, <2>2
        <3> QED BY <1>1, <1>4, <1>12, <3>1 DEF Current, InGroup
    <2> QED BY <2>1, <2>2
<1>16. OneActivePerRound'
    BY <1>6 DEF IInv, OneActivePerRound, Singleton
<1>17. OutstandingIsCurrent'
    <2> SUFFICES ASSUME NEW p \in feed \cup work \cup (out \ B) PROVE Current(p)'
        BY <1>7 DEF OutstandingIsCurrent
    <2>1. p.cand \in Files /\ Current(p)
        BY DEF IInv, OutstandingIsCurrent, TypeOK, Pair, Outcome
    <2>2. \A o \in B : o.cand # p.cand
        BY DEF IInv, ExactlyOnce
    <2>3. /\ phase'[p.cand] = phase[p.cand] /\ canonical'[p.cand] = canonical[p.cand]
          /\ p.cand \notin check' /\ KeyOf(p.cand)' = KeyOf(p.cand)
        BY <1>3, <1>7, <2>1, <2>2 DEF Current, KeyOf
    <2>4. InGroup(p.cand, "searching")' /\ Active(KeyOf(p.cand))' = Active(KeyOf(p.cand))
        BY <1>6, <2>1, <2>3 DEF Current, InGroup, KeyOf
    <2> QED BY <2>1, <2>3, <2>4 DEF Current
<1>18. LinksResolve'
    <2> SUFFICES ASSUME NEW f \in Files PROVE LinkSound(f)'
        BY DEF LinksResolve
    <2>1. CASE \E o \in B : o.cand = f /\ o.result = "equal"
        <3>1. PICK o \in B : o.cand = f /\ o.result = "equal"
            BY <2>1
        <3>2. canonical'[f] = o.canon /\ canonical'[o.canon] = o.canon /\ Eligible(o.canon)'
            BY <1>1, <1>2, <1>5, <1>12, <3>1, DedupAssumption DEF Eligible, KeyOf
        <3>3. Trusted => corpus.bytes[o.canon] = corpus.bytes[f]
            BY <3>1 DEF IInv, OutcomesTrue
        <3> QED BY <3>2, <3>3 DEF LinkSound, Trusted, KeyOf
    <2>2. CASE ~ \E o \in B : o.cand = f /\ o.result = "equal"
        <3>1. canonical'[f] = canonical[f] /\ LinkSound(f)
            BY <1>3, <2>2 DEF IInv, LinksResolve
        <3>2. CASE canonical[f] = NULL
            BY <3>1, <3>2 DEF LinkSound
        <3>3. CASE canonical[f] # NULL
            <4>1. canonical[f] \in Files /\ canonical'[canonical[f]] = canonical[f]
                BY <1>5, <3>1, <3>3, DedupAssumption DEF IInv, TypeOK, LinkSound
            <4> QED BY <3>1, <3>3, <4>1 DEF LinkSound, Trusted, Eligible, KeyOf
        <3> QED BY <3>2, <3>3
    <2> QED BY <2>1, <2>2
<1> QED BY <1>8, <1>9, <1>10, <1>13, <1>14, <1>15, <1>16, <1>17, <1>18 DEF IInv

\* Both places of the loop that take outcomes off the channel commit them so.
LEMMA DrainIInv == IInv /\ (Drain \/ WindDownDrain) => IInv'
<1> SUFFICES ASSUME IInv, Drain \/ WindDownDrain PROVE IInv'
    OBVIOUS
<1>1. PICK B \in SUBSET out : Ingest(B)
    BY DEF Drain, WindDownDrain
<1>2. /\ pc \in {"drain", "windDown"} /\ pc' \in {"toFinished", "windDown"}
      /\ pc' = "windDown" => pc = "windDown"
      /\ UNCHANGED <<corpus, group, feed, work, shutdown, failFastHit, restarts>>
    BY DEF Drain, WindDownDrain
<1> QED BY <1>1, <1>2, IngestIInv

\* A pull hands out undecided members of searching groups that are not marked
\* in flight, so none of them is outstanding already.
LEMMA FeedIInv == IInv /\ Feed => IInv'
<1> SUFFICES ASSUME IInv, Feed PROVE IInv'
    OBVIOUS
<1> DEFINE slice == IF feed = {} THEN Slice(Pending) ELSE feed
<1>1. PICK sent \in SUBSET slice :
          /\ feed' = slice \ sent
          /\ work' = work \cup sent
          /\ inflight' = inflight \cup {p.cand : p \in sent}
          /\ pc' = IF slice = {} /\ work = {} /\ out = {} THEN "windDown" ELSE "drain"
    BY DEF Feed
<1>2. /\ UNCHANGED <<corpus, phase, canonical, check, err, group, out,
                     shutdown, failFastHit, restarts>>
      /\ pc = "feed"
    BY DEF Feed, db
<1>3. \A p \in slice : /\ p \in Pair /\ p.cand \in Files /\ p.canon \in Files
                       /\ Current(p) /\ p.cand \notin inflight
    <2>1. CASE feed = {}
        <3> SUFFICES ASSUME NEW p \in Pending
                     PROVE  /\ p \in Pair /\ p.cand \in Files /\ p.canon \in Files
                            /\ Current(p) /\ p.cand \notin inflight
            BY <2>1 DEF Slice
        <3>1. Active(KeyOf(p.cand)) = {p.canon}
            BY DEF Pending, InGroup, IInv, OneActivePerRound, Singleton
        <3> QED BY <3>1 DEF Pending, Pair, Current, Members
    <2>2. CASE feed # {}
        BY <2>2 DEF IInv, TypeOK, Pair, OutstandingIsCurrent, MarkersCover
    <2> QED BY <2>1, <2>2
<1>4. \A p, q \in slice : p.cand = q.cand => p = q
    BY <1>3 DEF Current, Pair
<1> HIDE DEF slice
<1>5. TypeOK'
    BY <1>1, <1>2, <1>3 DEF IInv, TypeOK, PC, Loop
<1>6. QueuesLive'
    BY <1>1, <1>2 DEF QueuesLive, Loop
<1>7. MarkersCover'
    BY <1>1, <1>2, <1>3, <1>4 DEF IInv, MarkersCover
<1>8. ExactlyOnce'
    BY <1>1, <1>2, <1>3, <1>4 DEF IInv, ExactlyOnce, MarkersCover
<1>9. ModePath' /\ RowsInPhase' /\ BulkAtOnce' /\ GroupsProper' /\ FlagsInRound'
      /\ OneActivePerRound'
    BY <1>1, <1>2 DEF IInv, ModePath, RowsInPhase, BulkAtOnce, GroupsProper, FlagsInRound,
                OneActivePerRound, Eligible, KeyOf, Members, Active, Loop, Tick
<1>10. LinksResolve' /\ OutcomesTrue'
    BY <1>2 DEF IInv, LinksResolve, LinkSound, Eligible, KeyOf, Trusted, OutcomesTrue
<1>11. OutstandingIsCurrent'
    <2>1. \A p \in feed' \cup work' \cup out' : Current(p)
        BY <1>1, <1>2, <1>3 DEF IInv, OutstandingIsCurrent
    <2> QED BY <1>2, <2>1 DEF OutstandingIsCurrent, Current, InGroup, KeyOf, Active, Members
<1> QED BY <1>5, <1>6, <1>7, <1>8, <1>9, <1>10, <1>11 DEF IInv

(***************************************************************************)
(* The tick.  Three of its steps close the round of some finished groups   *)
(* and leave the searching ones alone.                                     *)
(***************************************************************************)
\* Leaving `finished` for a state without a round, with the flags cleared.
LEMMA CloseRoundIInv ==
    ASSUME IInv, TypeOK', pc \in Tick, pc' \in Loop \cup {"windDown"},
           UNCHANGED <<corpus, canonical, err, inflight, work, out>>,
           feed' \subseteq feed, pc' = "windDown" => feed' = {},
           check' \subseteq check,
           \A f \in Files : phase'[f] \in {phase[f], "deduped"},
           \A k \in Keys :
               \/ /\ group'[k] = group[k]
                  /\ group[k] \in {"searching", "finished"} => Members(k)' = Members(k)
               \/ /\ group[k] = "finished"
                  /\ group'[k] \in {"errored", "done", "ready"}
                  /\ Active(k)' = {}
                  /\ \A f \in check' : KeyOf(f) # k,
           \A f \in check' : phase'[f] = phase[f]
    PROVE  IInv'
<1>1. corpus.mode = "Regular"
    BY DEF IInv, ModePath, Loop
<1>2. QueuesLive' /\ MarkersCover' /\ ExactlyOnce'
    BY DEF IInv, QueuesLive, MarkersCover, ExactlyOnce, Loop
<1>3. ModePath' /\ BulkAtOnce' /\ OutcomesTrue'
    BY <1>1 DEF IInv, ModePath, BulkAtOnce, OutcomesTrue, Trusted, KeyOf, Loop, Tick
<1>4. RowsInPhase'
    <2>1. pc \notin {"start", "empty"} /\ pc' \notin {"start", "empty"}
        BY DEF Loop, Tick
    <2> QED BY <2>1 DEF IInv, RowsInPhase, Eligible, KeyOf
<1>5. \A k \in Keys : Members(k)' \subseteq Members(k) /\ Active(k)' \subseteq Active(k)
    BY DEF Members, Active, KeyOf
<1>6. GroupsProper'
    BY <1>5 DEF IInv, GroupsProper, Eligible, KeyOf
<1>7. FlagsInRound'
    BY DEF IInv, FlagsInRound, KeyOf
<1>8. OneActivePerRound'
    <2> SUFFICES ASSUME NEW k \in Keys
                 PROVE  IF group'[k] \in {"searching", "finished"}
                        THEN Singleton(Active(k)') ELSE Active(k)' = {}
        BY DEF OneActivePerRound, Singleton
    <2>1. CASE group'[k] = group[k]
        <3>1. CASE group[k] \in {"searching", "finished"}
            BY <2>1, <3>1 DEF IInv, OneActivePerRound, Active
        <3>2. CASE group[k] \notin {"searching", "finished"}
            BY <1>5, <2>1, <3>2 DEF IInv, OneActivePerRound
        <3> QED BY <3>1, <3>2
    <2>2. CASE group'[k] # group[k]
        BY <2>2
    <2> QED BY <2>1, <2>2
<1>9. LinksResolve'
    BY DEF IInv, LinksResolve, LinkSound, Trusted, Eligible, KeyOf
<1>10. OutstandingIsCurrent'
    <2> SUFFICES ASSUME NEW p \in feed \cup work \cup out PROVE Current(p)'
        BY DEF OutstandingIsCurrent
    <2>1. p.cand \in Files /\ Current(p)
        BY DEF IInv, OutstandingIsCurrent, TypeOK, Pair, Outcome
    <2>2. PICK k \in Keys : /\ k = KeyOf(p.cand)
                            /\ group'[k] = "searching" /\ Members(k)' = Members(k)
        BY <2>1 DEF Current, InGroup
    <2>3. p.cand \in Members(k)
        BY <2>1, <2>2 DEF Current, Members, KeyOf
    <2>4. phase'[p.cand] = "prev" /\ Active(k)' = Active(k)
        BY <2>2, <2>3 DEF Members, Active
    <2> QED BY <2>1, <2>2, <2>4 DEF Current, InGroup, KeyOf
<1> QED BY <1>2, <1>3, <1>4, <1>6, <1>7, <1>8, <1>9, <1>10 DEF IInv

\* A round that has finished has no outstanding pair: each member is checked.
LEMMA SearchingToFinishedIInv == IInv /\ SearchingToFinished => IInv'
<1> SUFFICES ASSUME IInv, SearchingToFinished PROVE IInv'
    OBVIOUS
<1>1. /\ UNCHANGED <<corpus, phase, canonical, check, err, inflight, feed, work, out,
                     shutdown, failFastHit, restarts>>
      /\ pc = "toFinished" /\ pc' = "toError"
      /\ group' \in [Keys -> GroupState]
    BY DEF SearchingToFinished, queues, IInv, TypeOK, GroupState
<1>2. \A k \in Keys : \/ group'[k] = group[k]
                      \/ group[k] = "searching" /\ group'[k] = "finished" /\ Resolved(k)
    BY DEF SearchingToFinished
<1>3. TypeOK'
    BY <1>1 DEF IInv, TypeOK, PC, Loop, Tick
<1>4. QueuesLive' /\ MarkersCover' /\ ExactlyOnce' /\ OutcomesTrue'
    BY <1>1 DEF IInv, QueuesLive, MarkersCover, ExactlyOnce, OutcomesTrue, Trusted, KeyOf,
                Loop, Tick
<1>5. ModePath' /\ RowsInPhase' /\ BulkAtOnce' /\ LinksResolve'
    BY <1>1, <1>2 DEF IInv, ModePath, RowsInPhase, BulkAtOnce, LinksResolve, LinkSound,
                      Trusted, Eligible, KeyOf, Loop, Tick
<1>6. GroupsProper'
    BY <1>1, <1>2 DEF IInv, GroupsProper, Members, Eligible, KeyOf
<1>7. FlagsInRound'
    BY <1>1, <1>2 DEF IInv, FlagsInRound, KeyOf
<1>8. OneActivePerRound'
    BY <1>1, <1>2 DEF IInv, OneActivePerRound, Active, Members, Singleton, KeyOf
<1>9. OutstandingIsCurrent'
    <2> SUFFICES ASSUME NEW p \in feed \cup work \cup out PROVE Current(p)'
        BY <1>1 DEF OutstandingIsCurrent
    <2>1. p.cand \in Files /\ Current(p)
        BY DEF IInv, OutstandingIsCurrent, TypeOK, Pair, Outcome
    <2>2. p.cand \in Members(KeyOf(p.cand)) /\ p.cand \notin Active(KeyOf(p.cand))
        BY <2>1, DedupAssumption DEF Current, Members, Active, KeyOf
    <2>3. ~ Resolved(KeyOf(p.cand))
        BY <2>1, <2>2 DEF Resolved, Current
    <2> QED BY <1>1, <1>2, <2>1, <2>3 DEF Current, InGroup, KeyOf, Active, Members
<1> QED BY <1>3, <1>4, <1>5, <1>6, <1>7, <1>8, <1>9 DEF IInv

\* Giving a finished group up is one way to close its round.
LEMMA FinishToErrorIInv == IInv /\ FinishToError => IInv'
<1> SUFFICES ASSUME IInv, FinishToError PROVE IInv'
    OBVIOUS
<1>1. /\ UNCHANGED <<corpus, canonical, err, inflight, work, out, shutdown, restarts>>
      /\ pc = "toError" /\ pc' \in {"toDone", "windDown"}
      /\ feed' \subseteq feed /\ (pc' = "windDown" => feed' = {})
      /\ failFastHit' \in BOOLEAN
      /\ group' \in [Keys -> GroupState] /\ phase' \in [Files -> {"prev", "deduped"}]
      /\ check' = {f \in check : group'[KeyOf(f)] # "errored"}
    BY DEF FinishToError, IInv, TypeOK, GroupState
<1>2. \A k \in Keys : \/ group'[k] = group[k]
                      \/ group[k] = "finished" /\ group'[k] = "errored"
    BY DEF FinishToError
<1>3. \A f \in Files : phase'[f] = IF KeyOf(f) \in Keys /\ group'[KeyOf(f)] = "errored"
                                   THEN "deduped" ELSE phase[f]
    BY DEF FinishToError
<1>4. TypeOK'
    BY <1>1 DEF IInv, TypeOK, PC, Loop, Tick
<1>5. \A k \in Keys : IF group'[k] = "errored" THEN Members(k)' = {} /\ Active(k)' = {}
                      ELSE Members(k)' = Members(k)
    BY <1>1, <1>3 DEF Members, Active, KeyOf
<1>6. \A f \in check' : phase'[f] = phase[f]
    BY <1>1, <1>3 DEF IInv, TypeOK
<1> QED BY <1>1, <1>2, <1>3, <1>4, <1>5, <1>6, CloseRoundIInv DEF Loop, Tick

\* Retiring a group whose canonical is the last member is another.
LEMMA FinishToDoneIInv == IInv /\ FinishToDone => IInv'
<1> SUFFICES ASSUME IInv, FinishToDone PROVE IInv'
    OBVIOUS
<1>1. /\ UNCHANGED <<corpus, canonical, err, inflight, feed, work, out, shutdown,
                     failFastHit, restarts>>
      /\ pc = "toDone" /\ pc' = "toReady"
      /\ group' \in [Keys -> GroupState] /\ phase' \in [Files -> {"prev", "deduped"}]
      /\ check' = {f \in check : group'[KeyOf(f)] # "done"}
    BY DEF FinishToDone, queues, IInv, TypeOK, GroupState
<1>2. \A k \in Keys : \/ group'[k] = group[k]
                      \/ group[k] = "finished" /\ group'[k] = "done"
    BY DEF FinishToDone
<1>3. \A f \in Files : phase'[f] = IF KeyOf(f) \in Keys /\ group'[KeyOf(f)] = "done"
                                   THEN "deduped" ELSE phase[f]
    BY DEF FinishToDone
<1>4. TypeOK'
    BY <1>1 DEF IInv, TypeOK, PC, Loop, Tick
<1>5. \A k \in Keys : IF group'[k] = "done" THEN Members(k)' = {} /\ Active(k)' = {}
                      ELSE Members(k)' = Members(k)
    BY <1>1, <1>3 DEF Members, Active, KeyOf
<1>6. \A f \in check' : phase'[f] = phase[f]
    BY <1>1, <1>3 DEF IInv, TypeOK
<1> QED BY <1>1, <1>2, <1>3, <1>4, <1>5, <1>6, CloseRoundIInv DEF Loop, Tick

\* The canonical of the round leaves the phase; it carried no check flag.
LEMMA FinishToReadyIInv == IInv /\ FinishToReady => IInv'
<1> SUFFICES ASSUME IInv, FinishToReady PROVE IInv'
    OBVIOUS
<1>1. /\ UNCHANGED <<corpus, canonical, err, inflight, feed, work, out, shutdown,
                     failFastHit, restarts>>
      /\ pc = "toReady" /\ pc' = "toSearching"
      /\ group' \in [Keys -> GroupState] /\ phase' \in [Files -> {"prev", "deduped"}]
      /\ check' = {f \in check : group'[KeyOf(f)] # "ready"}
    BY DEF FinishToReady, queues, IInv, TypeOK, GroupState
<1>2. \A k \in Keys : \/ group'[k] = group[k]
                      \/ group[k] = "finished" /\ group'[k] = "ready"
    BY DEF FinishToReady
<1>3. \A f \in Files : phase'[f] = IF /\ KeyOf(f) \in Keys /\ group'[KeyOf(f)] = "ready"
                                      /\ canonical[f] = f
                                   THEN "deduped" ELSE phase[f]
    BY DEF FinishToReady
<1>4. TypeOK'
    BY <1>1 DEF IInv, TypeOK, PC, Loop, Tick
<1>5. \A k \in Keys : IF group'[k] = "ready" THEN Active(k)' = {}
                      ELSE Members(k)' = Members(k)
    BY <1>1, <1>3 DEF Members, Active, KeyOf
<1>6. \A f \in check' : phase'[f] = phase[f]
    BY <1>1, <1>3, DedupAssumption DEF IInv, TypeOK, FlagsInRound
<1>7. \A f \in Files : phase'[f] \in {phase[f], "deduped"}
    BY <1>3
<1> QED BY <1>1, <1>2, <1>4, <1>5, <1>6, <1>7, CloseRoundIInv DEF Loop, Tick

\* An election touches the ready groups only: each gets its least electable
\* member, or none, and keeps it in the phase only if it starts to search.
LEMMA ReadyToSearchingIInv == IInv /\ ReadyToSearching => IInv'
<1> SUFFICES ASSUME IInv, ReadyToSearching PROVE IInv'
    OBVIOUS
<1> DEFINE ready == {k \in Keys : group[k] = "ready"}
           elected == UNION {Least(Electable(k)) : k \in ready}
           act(k) == Active(k) \cup (elected \cap Members(k))
           searching == {k \in ready :
                            /\ Singleton(act(k))
                            /\ \E f \in Members(k) \ (elected \cup check) :
                                   canonical[f] = NULL}
           retired == UNION {act(k) : k \in ready \ searching}
           closed == {k \in ready \ searching : Members(k) \subseteq retired}
<1>1. /\ UNCHANGED <<corpus, check, err, inflight, work, out, shutdown, failFastHit, restarts>>
      /\ pc = "toSearching" /\ pc' \in {"feed", "windDown"}
      /\ feed' \subseteq feed /\ (pc' = "windDown" => feed' = {})
      /\ canonical' = [f \in Files |-> IF f \in elected THEN f ELSE canonical[f]]
      /\ phase' = [f \in Files |-> IF f \in retired THEN "deduped" ELSE phase[f]]
      /\ group' = [k \in Keys |-> IF k \in searching THEN "searching"
                                  ELSE IF k \in closed THEN "done" ELSE group[k]]
    BY Zenon DEF ReadyToSearching
<1>2. corpus.mode = "Regular"
    BY <1>1 DEF IInv, ModePath, Loop, Tick
<1>3. \A k \in ready : Active(k) = {}
    BY DEF IInv, OneActivePerRound
<1>4. \A f \in elected : /\ f \in Files /\ KeyOf(f) \in ready /\ f \in Members(KeyOf(f))
                         /\ canonical[f] = NULL /\ phase[f] = "prev" /\ f \notin check
                         /\ Eligible(f)
    <2> SUFFICES ASSUME NEW k \in ready, NEW f \in Least(Electable(k))
                 PROVE  /\ f \in Files /\ KeyOf(f) \in ready /\ f \in Members(KeyOf(f))
                        /\ canonical[f] = NULL /\ phase[f] = "prev" /\ f \notin check
                        /\ Eligible(f)
        OBVIOUS
    <2>1. f \in Electable(k)
        BY DEF Least
    <2> QED BY <1>1, <2>1 DEF Electable, Members, KeyOf, IInv, RowsInPhase
<1>5. \A k \in Keys \ ready : elected \cap Members(k) = {}
    BY <1>4 DEF Members, KeyOf
<1>6. \A f \in retired : f \in elected
    BY <1>3
<1>7. \A f \in retired : KeyOf(f) \in ready \ searching
    <2> SUFFICES ASSUME NEW k \in ready \ searching, NEW f \in act(k)
                 PROVE  KeyOf(f) \in ready \ searching
        OBVIOUS
    <2> QED BY DEF Active, Members, KeyOf
<1> HIDE DEF elected, retired, closed
<1>8. \A k \in Keys :
          \/ k \in searching /\ group[k] = "ready" /\ group'[k] = "searching"
          \/ k \notin searching /\ group[k] = "ready" /\ group'[k] \in {"ready", "done"}
          \/ k \notin ready /\ group'[k] = group[k]
    BY <1>1 DEF closed
<1>9. \A k \in Keys \ ready : Members(k)' = Members(k) /\ Active(k)' = Active(k)
    BY <1>1, <1>4, <1>6 DEF Members, Active, KeyOf
<1>10. \A k \in Keys : k \in searching => Active(k)' = act(k)
    <2> SUFFICES ASSUME NEW k \in Keys, k \in searching PROVE Active(k)' = act(k)
        OBVIOUS
    <2>1. Members(k)' = Members(k)
        BY <1>1, <1>7 DEF Members, KeyOf
    <2>2. \A f \in Members(k) : canonical'[f] = f <=> f \in elected
        BY <1>1, <1>3 DEF Active, Members
    <2> QED BY <1>3, <2>1, <2>2 DEF Active
<1>11. \A k \in Keys : k \in ready /\ k \notin searching => Active(k)' = {}
    <2> SUFFICES ASSUME NEW k \in Keys, k \in ready, k \notin searching PROVE Active(k)' = {}
        OBVIOUS
    <2> HIDE DEF searching
    <2>1. \A f \in elected \cap Members(k) : f \in retired
        BY DEF retired
    <2>2. Members(k)' = Members(k) \ retired
        BY <1>1 DEF Members, KeyOf
    <2>3. \A f \in Members(k) : canonical'[f] = f => f \in elected
        BY <1>1, <1>3 DEF Active, Members
    <2> QED BY <2>1, <2>2, <2>3 DEF Active
<1>12. TypeOK'
    <2>1. canonical' \in [Files -> Files \cup {NULL}]
        BY <1>1 DEF IInv, TypeOK
    <2>2. phase' \in [Files -> {"prev", "deduped"}]
        BY <1>1 DEF IInv, TypeOK
    <2>3. group' \in [Keys -> GroupState]
        BY <1>1 DEF IInv, TypeOK, GroupState
    <2> QED BY <1>1, <2>1, <2>2, <2>3 DEF IInv, TypeOK, PC, Loop
<1>13. QueuesLive' /\ MarkersCover' /\ ExactlyOnce' /\ OutcomesTrue'
    BY <1>1 DEF IInv, QueuesLive, MarkersCover, ExactlyOnce, OutcomesTrue, Trusted, KeyOf,
                Loop, Tick
<1>14. ModePath' /\ BulkAtOnce'
    BY <1>1, <1>2 DEF ModePath, BulkAtOnce
<1>15. RowsInPhase'
    BY <1>1, <1>4 DEF IInv, TypeOK, RowsInPhase, Eligible, KeyOf
<1>16. GroupsProper'
    <2>1. \A k \in Keys : Members(k)' \subseteq Members(k)
        BY <1>1 DEF Members, KeyOf
    <2>2. \A k \in Keys : group'[k] # "absent" => group[k] # "absent"
        BY <1>8
    <2> QED BY <1>1, <2>1, <2>2 DEF IInv, GroupsProper, Eligible, KeyOf
<1>17. FlagsInRound'
    BY <1>1, <1>4, <1>6, <1>8 DEF IInv, TypeOK, FlagsInRound, KeyOf
<1>18. OneActivePerRound'
    <2> SUFFICES ASSUME NEW k \in Keys
                 PROVE  IF group'[k] \in {"searching", "finished"}
                        THEN Singleton(Active(k)') ELSE Active(k)' = {}
        BY DEF OneActivePerRound, Singleton
    <2>1. CASE k \in searching
        BY <1>8, <1>10, <2>1
    <2>2. CASE k \in ready \ searching
        BY <1>8, <1>11, <2>2
    <2>3. CASE k \notin ready
        BY <1>8, <1>9, <2>3 DEF IInv, OneActivePerRound
    <2> QED BY <2>1, <2>2, <2>3
<1>19. LinksResolve'
    <2> SUFFICES ASSUME NEW f \in Files PROVE LinkSound(f)'
        BY DEF LinksResolve
    <2>1. CASE f \in elected
        BY <1>1, <1>4, <2>1 DEF LinkSound, Trusted, Eligible, KeyOf
    <2>2. CASE f \notin elected
        BY <1>1, <2>2 DEF IInv, TypeOK, LinksResolve, LinkSound, Trusted, Eligible, KeyOf
    <2> QED BY <2>1, <2>2
<1>20. OutstandingIsCurrent'
    <2> SUFFICES ASSUME NEW p \in feed \cup work \cup out PROVE Current(p)'
        BY <1>1 DEF OutstandingIsCurrent
    <2>1. p.cand \in Files /\ Current(p)
        BY DEF IInv, OutstandingIsCurrent, TypeOK, Pair, Outcome
    <2>2. PICK k \in Keys : k = KeyOf(p.cand) /\ k \notin ready
        BY <2>1 DEF Current, InGroup
    <2>3. p.cand \notin elected /\ p.cand \notin retired
        BY <1>4, <1>6, <2>2
    <2> QED BY <1>1, <1>8, <1>9, <2>1, <2>2, <2>3 DEF Current, InGroup, KeyOf
<1> QED BY <1>12, <1>13, <1>14, <1>15, <1>16, <1>17, <1>18, <1>19, <1>20 DEF IInv

\* The end of the loop drops the temporary tables, when nothing is outstanding.
LEMMA FinishIInv == IInv /\ Finish => IInv'
<1> SUFFICES ASSUME IInv, Finish PROVE IInv'
    OBVIOUS
<1>1. /\ UNCHANGED <<corpus, phase, canonical, check, err, feed, work, out, shutdown,
                     failFastHit, restarts>>
      /\ work = {} /\ out = {} /\ feed = {}
      /\ pc = "windDown" /\ pc' \in {"failed", "interrupted", "verify", "panicked"}
      /\ inflight' \subseteq inflight
    BY DEF Finish, IInv, QueuesLive, Loop, Tick
<1>2. \/ group' = group
      \/ group' = [k \in Keys |-> "absent"] /\ Sane(check, phase)
    BY DEF Finish
<1>3. TypeOK'
    BY <1>1, <1>2 DEF IInv, TypeOK, PC, Settled, GroupState
<1>4. QueuesLive' /\ MarkersCover' /\ ExactlyOnce' /\ OutcomesTrue' /\ OutstandingIsCurrent'
    BY <1>1 DEF QueuesLive, MarkersCover, ExactlyOnce, OutcomesTrue, OutstandingIsCurrent
<1>5. ModePath' /\ RowsInPhase' /\ BulkAtOnce' /\ LinksResolve'
    BY <1>1 DEF IInv, ModePath, RowsInPhase, BulkAtOnce, LinksResolve, LinkSound,
                      Trusted, Eligible, KeyOf, Loop, Tick
<1>6. GroupsProper' /\ FlagsInRound'
    BY <1>1, <1>2 DEF IInv, GroupsProper, FlagsInRound, Members, Eligible, KeyOf, Sane
<1>7. OneActivePerRound'
    <2>1. CASE group' = group
        BY <1>1, <2>1 DEF IInv, OneActivePerRound, Active, Members, KeyOf
    <2>2. CASE group' = [k \in Keys |-> "absent"] /\ Sane(check, phase)
        BY <1>1, <2>2 DEF OneActivePerRound, Active, Members, KeyOf, Sane
    <2> QED BY <1>2, <2>1, <2>2
<1> QED BY <1>3, <1>4, <1>5, <1>6, <1>7 DEF IInv

(***************************************************************************)
(* IInv is inductive.                                                      *)
(***************************************************************************)
LEMMA NextIInv == IInv /\ [Next]_vars => IInv'
BY WorkerCompareIInv, WorkerDropIInv, ControlIInv, PromoteIneligibleIInv,
   PromoteEmptyIInv, PromoteSingletonIInv, PopulateIInv, BulkPromoteIInv,
   StopFeedingIInv, DrainIInv, FeedIInv, SearchingToFinishedIInv,
   FinishToErrorIInv, FinishToDoneIInv, FinishToReadyIInv, ReadyToSearchingIInv,
   FinishIInv
DEF Next, Driver, Worker, TickStep

(***************************************************************************)
(* The inductive invariant holds in every reachable state, whatever        *)
(* crashes, signals and worker schedules the phase meets.                  *)
(***************************************************************************)
THEOREM Invariance == Spec => []IInv
BY InitIInv, NextIInv, PTL DEF Spec

(***************************************************************************)
(* Every reachable state is well typed.                                    *)
(***************************************************************************)
THEOREM TypeCorrect == Spec => []TypeOK
BY Invariance, PTL DEF IInv

(***************************************************************************)
(* A pair that waits in a buffer, in a channel or in a worker still        *)
(* describes the tables when its outcome is committed.                     *)
(***************************************************************************)
THEOREM OutstandingPairsAreCurrent == Spec => []OutstandingIsCurrent
BY Invariance, PTL DEF IInv

(***************************************************************************)
(* The restartable scan never hands out a candidate twice.                 *)
(***************************************************************************)
THEOREM CandidatesOnce == Spec => []ExactlyOnce
BY Invariance, PTL DEF IInv

(***************************************************************************)
(* A group has one active canonical while it searches, and none otherwise. *)
(***************************************************************************)
THEOREM OneCanonicalPerRound == Spec => []OneActivePerRound
BY Invariance, PTL DEF IInv

(***************************************************************************)
(* Every link leads in one step to a kept row with the same bytes, in every*)
(* state a crash can leave behind: no payload is lost to deduplication.    *)
(***************************************************************************)
THEOREM NoPayloadLost == Spec => []LinksResolve
BY Invariance, PTL DEF IInv

(***************************************************************************)
(* No step takes back what an earlier one decided: the updates of          *)
(* files.canonical_id only ever meet rows without one.                     *)
(***************************************************************************)
\* Each step keeps the decisions, given the invariant.
LEMMA NextKeepsDecisions == IInv /\ [Next]_vars => [KeepsDecisions]_vars
<1> SUFFICES ASSUME IInv, Next PROVE KeepsDecisions
    OBVIOUS
<1>1. IInv'
    BY NextIInv
<1>2. \A f \in Files : phase[f] = "deduped" => phase'[f] = "deduped"
    <2>1. CASE Drain \/ WindDownDrain
        BY <2>1 DEF Drain, WindDownDrain, Ingest
    <2>2. CASE ReadyToSearching
        BY <2>2 DEF ReadyToSearching
    <2>3. CASE ~ (Drain \/ WindDownDrain \/ ReadyToSearching)
        BY <2>3 DEF Next, Driver, Worker, TickStep, vars, db, queues,
           PromoteIneligible, PromoteEmpty, PromoteSingleton, Populate, BulkPromote,
           StopFeeding, SearchingToFinished, FinishToError, FinishToDone, FinishToReady,
           Feed, Finish, Verify, WorkerCompare, WorkerDrop, Signal, Restart, Stopped
    <2> QED BY <2>1, <2>2, <2>3
<1>3. \A f \in Files : phase[f] = "deduped" => f \notin check'
    BY <1>1, <1>2 DEF IInv, TypeOK, FlagsInRound
<1>4. \A f \in Files : canonical[f] # NULL => canonical'[f] = canonical[f]
    <2> SUFFICES ASSUME NEW f \in Files, canonical[f] # NULL
                 PROVE  canonical'[f] = canonical[f]
        OBVIOUS
    <2>1. \A k \in Keys : group[k] \notin {"searching", "finished"} /\ f \in Members(k)
              => canonical[f] # f
        BY DEF IInv, OneActivePerRound, Active
    <2>2. phase[f] = "prev" => canonical[f] = f
        BY DEF IInv, RowsInPhase
    <2>3. CASE PromoteEmpty
        <3>1. KeyOf(f) \in ZeroSizeKeys => phase[f] # "prev"
            BY <2>1, <2>2, DedupAssumption DEF IInv, GroupsProper, Members, KeyOf
        <3> QED BY <2>3, <3>1 DEF PromoteEmpty
    <2>4. CASE PromoteSingleton
        BY <2>2, <2>4 DEF PromoteSingleton
    <2>5. CASE BulkPromote
        <3>1. Eligible(f) => KeyOf(f) \in Keys
            BY CorpusFields DEF IInv, TypeOK, Eligible, KeyOf
        <3>2. ~ (phase[f] = "prev" /\ Eligible(f))
            BY <2>1, <2>2, <2>5, <3>1 DEF IInv, ModePath, BulkPromote, Members, KeyOf
        <3> QED BY <2>5, <3>2 DEF BulkPromote
    <2>6. CASE ReadyToSearching
        <3>1. \A k \in Keys : f \notin Least(Electable(k))
            BY DEF Least, Electable
        <3>2. canonical' = [g \in Files |->
                  IF g \in UNION {Least(Electable(k)) : k \in {k \in Keys : group[k] = "ready"}}
                  THEN g ELSE canonical[g]]
            BY <2>6, Zenon DEF ReadyToSearching
        <3> QED BY <3>1, <3>2
    <2>7. CASE Drain \/ WindDownDrain
        <3>1. PICK B \in SUBSET out : Ingest(B)
            BY <2>7 DEF Drain, WindDownDrain
        <3>2. \A o \in B : o.cand # f
            BY DEF IInv, OutstandingIsCurrent, Current
        <3> QED BY <3>1, <3>2 DEF Ingest
    <2>8. CASE ~ (\/ PromoteEmpty \/ PromoteSingleton \/ BulkPromote \/ ReadyToSearching
                  \/ Drain \/ WindDownDrain)
        BY <2>8 DEF Next, Driver, Worker, TickStep, vars, db, queues,
           PromoteIneligible, Populate, StopFeeding, SearchingToFinished, FinishToError,
           FinishToDone, FinishToReady, Feed, Finish, Verify, WorkerCompare, WorkerDrop,
           Signal, Restart, Stopped
    <2> QED BY <2>3, <2>4, <2>5, <2>6, <2>7, <2>8
<1> QED BY <1>2, <1>3, <1>4 DEF KeepsDecisions

\* Decisions are final: no behaviour unlinks a row or takes it back into the
\* phase, whatever the crashes and reruns between the transactions.
THEOREM DecisionsAreFinal == Spec => DecisionsStand
BY InitIInv, NextIInv, NextKeepsDecisions, PTL DEF Spec, DecisionsStand

(***************************************************************************)
(* What the rounds of a Regular phase establish: the second invariant.     *)
(***************************************************************************)
LEMMA InitDInv == Init => DInv
<1> SUFFICES ASSUME Init PROVE DInv
    OBVIOUS
<1>1. \A f \in Files : canonical[f] = NULL /\ phase[f] = "prev"
    BY DEF Init
<1>2. \A k \in Keys : Kept(k) = {}
    BY <1>1, DedupAssumption DEF Kept
<1>3. KeptDiffer /\ UndecidedDiffer
    BY <1>2 DEF KeptDiffer, UndecidedDiffer
<1>4. RoundsComplete /\ LinksInKey /\ EmptyTogether
    BY <1>1 DEF RoundsComplete, LinksInKey, EmptyTogether, Init
<1>5. UnequalTrue /\ DoneIsVerified
    BY DEF UnequalTrue, DoneIsVerified, Init
<1> QED BY <1>3, <1>4, <1>5 DEF DInv

\* Steps that touch no table.
LEMMA QuietDInv ==
    ASSUME DInv, UNCHANGED <<corpus, phase, canonical, check, err>>,
           \A k \in Keys : group'[k] = "finished" =>
               group[k] = "finished" \/ Resolved(k),
           pc' = "done" => DoneIsVerified', UnequalTrue'
    PROVE  DInv'
<1> SUFFICES ASSUME corpus.mode = "Regular"
             PROVE  /\ KeptDiffer' /\ UndecidedDiffer' /\ RoundsComplete' /\ LinksInKey'
                    /\ EmptyTogether' /\ UnequalTrue' /\ DoneIsVerified'
    BY DEF DInv
<1>1. \A k \in Keys : /\ Kept(k)' = Kept(k) /\ Members(k)' = Members(k)
                      /\ Active(k)' = Active(k) /\ Unfailed(k)' = Unfailed(k)
    BY DEF Kept, Members, Active, Unfailed, KeyOf
<1>2. \A f \in Files : Eligible(f)' = Eligible(f) /\ KeyOf(f)' = KeyOf(f)
    BY DEF Eligible, KeyOf
<1>3. KeptDiffer'
    BY <1>1 DEF DInv, KeptDiffer
<1>4. UndecidedDiffer'
    BY <1>1, <1>2 DEF DInv, UndecidedDiffer, Members
<1>5. RoundsComplete'
    BY <1>1 DEF DInv, RoundsComplete, Resolved
<1>6. LinksInKey' /\ EmptyTogether'
    BY <1>2 DEF DInv, LinksInKey, EmptyTogether, KeyOf
<1>7. DoneIsVerified'
    BY DEF DoneIsVerified
<1> QED BY <1>3, <1>4, <1>5, <1>6, <1>7

\* The workers report what they saw.
LEMMA WorkerDInv == DInv /\ (WorkerCompare \/ WorkerDrop) => DInv'
<1> SUFFICES ASSUME DInv, WorkerCompare \/ WorkerDrop PROVE DInv'
    OBVIOUS
<1>1. UNCHANGED <<corpus, phase, canonical, check, err, group, pc>>
    BY DEF WorkerCompare, WorkerDrop, db
<1>2. ASSUME corpus.mode = "Regular" PROVE UnequalTrue'
    <2>1. CASE WorkerDrop
        BY <1>1, <1>2, <2>1 DEF WorkerDrop, DInv, UnequalTrue
    <2>2. CASE WorkerCompare
        <3>1. PICK p \in work, r \in Result :
                  /\ r \in Compare(p)
                  /\ out' = out \cup {[cand |-> p.cand, canon |-> p.canon, result |-> r]}
            BY <2>2 DEF WorkerCompare
        <3>2. r = "unequal" => corpus.bytes[p.cand] # corpus.bytes[p.canon]
            BY <3>1 DEF Compare
        <3> QED BY <1>1, <1>2, <3>1, <3>2 DEF DInv, UnequalTrue
    <2> QED BY <2>1, <2>2
<1>3. pc' = "done" => \A f \in Files : corpus.mode = "Regular" => Accounted(f)
    BY <1>1 DEF DInv, DoneIsVerified
<1>4. ASSUME corpus.mode = "Regular" PROVE DoneIsVerified'
    BY <1>1, <1>3, <1>4 DEF DoneIsVerified, Accounted, Eligible, KeyOf
<1>5. CASE corpus.mode = "Regular"
    BY <1>1, <1>2, <1>4, <1>5, QuietDInv
<1>6. CASE corpus.mode # "Regular"
    BY <1>1, <1>6 DEF DInv
<1> QED BY <1>5, <1>6

\* Signals, crashes, the end of the loop, and the battery.
LEMMA ControlDInv ==
    IInv /\ DInv /\ (\/ Signal \/ Restart \/ Verify \/ Stopped \/ UNCHANGED vars
                     \/ StopFeeding \/ Feed \/ Finish \/ Populate \/ SearchingToFinished)
        => DInv'
<1> SUFFICES ASSUME IInv, DInv,
                    \/ Signal \/ Restart \/ Verify \/ Stopped \/ UNCHANGED vars
                    \/ StopFeeding \/ Feed \/ Finish \/ Populate \/ SearchingToFinished
             PROVE  DInv'
    OBVIOUS
<1>1. UNCHANGED <<corpus, phase, canonical, check, err>>
    BY DEF Signal, Restart, Verify, Stopped, vars, db, queues, StopFeeding, Feed, Finish,
           Populate, SearchingToFinished
<1>2. CASE corpus.mode # "Regular"
    BY <1>1, <1>2 DEF DInv
<1>3. CASE corpus.mode = "Regular"
    <2>1. out' \subseteq out
        BY DEF Signal, Restart, Verify, Stopped, vars, db, queues, StopFeeding, Feed, Finish,
               Populate, SearchingToFinished
    <2>2. UnequalTrue'
        BY <1>1, <1>3, <2>1 DEF DInv, UnequalTrue
    <2>3. ASSUME NEW k \in Keys, group'[k] = "finished"
          PROVE  group[k] = "finished" \/ Resolved(k)
        <3>1. CASE Finish
            BY <2>3, <3>1 DEF Finish
        <3>2. CASE Populate
            BY <2>3, <3>2 DEF Populate
        <3>3. CASE SearchingToFinished
            BY <2>3, <3>3 DEF SearchingToFinished
        <3>4. CASE ~ (Finish \/ Populate \/ SearchingToFinished)
            BY <2>3, <3>4 DEF Signal, Restart, Verify, Stopped, vars, db, queues,
                              StopFeeding, Feed
        <3> QED BY <3>1, <3>2, <3>3, <3>4
    <2>4. pc' = "done" => DoneIsVerified'
        <3>1. pc' = "done" => \A f \in Files : Accounted(f)
            <4>1. CASE Verify
                BY <4>1 DEF Verify
            <4>2. CASE ~ Verify
                <5>1. pc' = "done" => pc = "done"
                    BY <4>2 DEF Signal, Restart, Verify, Stopped, vars, StopFeeding, Feed,
                                Finish, Populate, SearchingToFinished
                <5> QED BY <1>3, <5>1 DEF DInv, DoneIsVerified
            <4> QED BY <4>1, <4>2
        <3> QED BY <1>1, <3>1 DEF DoneIsVerified, Accounted, Eligible, KeyOf
    <2> QED BY <1>1, <2>2, <2>3, <2>4, QuietDInv
<1> QED BY <1>2, <1>3

(***************************************************************************)
(* The bulk updates of the prologue.                                       *)
(***************************************************************************)
\* Rows that leave the phase without a decision disturb nothing, when no
\* finished group loses its flags.
LEMMA PromoteIneligibleDInv == IInv /\ DInv /\ PromoteIneligible => DInv'
<1> SUFFICES ASSUME IInv, DInv, PromoteIneligible PROVE DInv'
    OBVIOUS
<1>1. /\ UNCHANGED <<corpus, canonical, check, err, group, out>>
      /\ pc' = "empty"
      /\ \A f \in Files : phase'[f] = IF Eligible(f) THEN phase[f] ELSE "deduped"
    BY DEF PromoteIneligible, queues
<1> SUFFICES ASSUME corpus.mode = "Regular"
             PROVE  /\ KeptDiffer' /\ UndecidedDiffer' /\ RoundsComplete' /\ LinksInKey'
                    /\ EmptyTogether' /\ UnequalTrue' /\ DoneIsVerified'
    BY <1>1 DEF DInv
<1>2. \A k \in Keys : /\ Kept(k)' = Kept(k) /\ Members(k)' \subseteq Members(k)
                      /\ Unfailed(k)' = Unfailed(k)
    BY <1>1 DEF Kept, Members, Unfailed, KeyOf
<1>3. \A f \in Files : Eligible(f)' = Eligible(f) /\ KeyOf(f)' = KeyOf(f)
    BY <1>1 DEF Eligible, KeyOf
<1>4. KeptDiffer'
    BY <1>1, <1>2 DEF DInv, KeptDiffer
<1>5. \A k \in Keys : \A c \in Kept(k) : phase'[c] = phase[c]
    BY <1>1, DedupAssumption DEF Kept, IInv, RowsInPhase
<1>6. UndecidedDiffer'
    <2> SUFFICES ASSUME NEW k \in Keys \ ZeroSizeKeys, Unfailed(k),
                        NEW c \in Kept(k), NEW f \in Members(k), Eligible(f),
                        canonical[f] = NULL, corpus.bytes[f] = corpus.bytes[c]
                 PROVE  phase'[c] = "prev" /\ f \notin check
        BY <1>1, <1>2, <1>3 DEF UndecidedDiffer, Members
    <2> QED BY <1>5 DEF DInv, UndecidedDiffer
<1>7. RoundsComplete'
    <2>1. \A k \in Keys : \A f \in Members(k)' : f \in Active(k) => f \in Active(k)'
        BY <1>1 DEF Active
    <2> QED BY <1>1, <1>2, <2>1 DEF DInv, RoundsComplete
<1>8. LinksInKey' /\ EmptyTogether'
    <2>1. LinksInKey'
        BY <1>1 DEF DInv, LinksInKey, KeyOf
    <2>2. EmptyTogether'
        BY <1>1, <1>3 DEF DInv, EmptyTogether
    <2> QED BY <2>1, <2>2
<1>9. UnequalTrue' /\ DoneIsVerified'
    BY <1>1 DEF DInv, UnequalTrue, DoneIsVerified
<1> QED BY <1>4, <1>6, <1>7, <1>8, <1>9

\* The empty files go together, and no other row moves.
LEMMA PromoteEmptyDInv == IInv /\ DInv /\ PromoteEmpty => DInv'
<1> SUFFICES ASSUME IInv, DInv, PromoteEmpty PROVE DInv'
    OBVIOUS
<1> DEFINE empty == {f \in Files : phase[f] = "prev" /\ KeyOf(f) \in ZeroSizeKeys}
           least == CHOOSE m \in Least(empty) : TRUE
<1>1. /\ UNCHANGED <<corpus, check, err, group, out>>
      /\ pc = "empty" /\ pc' # "done"
      /\ \A f \in Files : /\ phase'[f] = IF f \in empty THEN "deduped" ELSE phase[f]
                          /\ canonical'[f] = IF f \in empty THEN least ELSE canonical[f]
    BY DEF PromoteEmpty, queues
<1> HIDE DEF least
<1> SUFFICES ASSUME corpus.mode = "Regular"
             PROVE  /\ KeptDiffer' /\ UndecidedDiffer' /\ RoundsComplete' /\ LinksInKey'
                    /\ EmptyTogether' /\ UnequalTrue' /\ DoneIsVerified'
    BY <1>1 DEF DInv
<1>2. \A f \in Files : KeyOf(f) \notin ZeroSizeKeys =>
          phase'[f] = phase[f] /\ canonical'[f] = canonical[f]
    BY <1>1
<1>3. \A k \in Keys \ ZeroSizeKeys : /\ Kept(k)' = Kept(k) /\ Members(k)' = Members(k)
                                     /\ Active(k)' = Active(k)
    BY <1>1, <1>2 DEF Kept, Members, Active, KeyOf
<1>4. \A f \in Files : Eligible(f)' = Eligible(f) /\ KeyOf(f)' = KeyOf(f)
    BY <1>1 DEF Eligible, KeyOf
<1>5. \A k \in Keys : Unfailed(k)' = Unfailed(k)
    BY <1>1 DEF Unfailed, KeyOf
<1>6. KeptDiffer'
    BY <1>1, <1>3, <1>5 DEF DInv, KeptDiffer
<1>7. UndecidedDiffer'
    <2>1. \A k \in Keys \ ZeroSizeKeys : /\ \A c \in Kept(k) : phase'[c] = phase[c]
                                         /\ \A f \in Members(k) : canonical'[f] = canonical[f]
        BY <1>2 DEF Kept, Members, KeyOf
    <2> SUFFICES ASSUME NEW k \in Keys \ ZeroSizeKeys, Unfailed(k),
                        NEW c \in Kept(k), NEW f \in Members(k), Eligible(f),
                        canonical[f] = NULL, corpus.bytes[f] = corpus.bytes[c]
                 PROVE  phase'[c] = "prev" /\ f \notin check
        BY <1>1, <1>3, <1>4, <1>5, <2>1 DEF UndecidedDiffer, Members
    <2> QED BY <2>1 DEF DInv, UndecidedDiffer
<1>8. RoundsComplete'
    BY <1>1, <1>3 DEF DInv, RoundsComplete, IInv, GroupsProper
<1>9. LinksInKey'
    BY <1>1, <1>2 DEF DInv, LinksInKey, KeyOf
<1>10. EmptyTogether'
    <2> SUFFICES ASSUME NEW f \in Files, NEW g \in Files, Eligible(f), Eligible(g),
                        KeyOf(f) \in ZeroSizeKeys, KeyOf(g) \in ZeroSizeKeys
                 PROVE  phase'[f] = phase'[g] /\ canonical'[f] = canonical'[g]
        BY <1>1, <1>4 DEF EmptyTogether
    <2>1. phase[f] = phase[g] /\ canonical[f] = canonical[g]
        BY DEF DInv, EmptyTogether
    <2> QED BY <1>1, <2>1
<1>11. UnequalTrue' /\ DoneIsVerified'
    BY <1>1 DEF DInv, UnequalTrue, DoneIsVerified
<1> QED BY <1>6, <1>7, <1>8, <1>9, <1>10, <1>11

\* A row without a twin is compared with nobody.
LEMMA PromoteSingletonDInv == IInv /\ DInv /\ PromoteSingleton => DInv'
<1> SUFFICES ASSUME IInv, DInv, PromoteSingleton PROVE DInv'
    OBVIOUS
<1> DEFINE unique == {f \in Files : /\ phase[f] = "prev"
                                    /\ KeyOf(f) \in Keys
                                    /\ {g \in Files : KeyOf(g) = KeyOf(f)} = {f}}
<1>1. /\ UNCHANGED <<corpus, check, err, group, out>>
      /\ pc = "singleton" /\ pc' # "done"
      /\ \A f \in Files : /\ phase'[f] = IF f \in unique THEN "deduped" ELSE phase[f]
                          /\ canonical'[f] = IF f \in unique THEN f ELSE canonical[f]
    BY DEF PromoteSingleton, queues
<1>2. \A f \in unique : /\ \A g \in Files : KeyOf(g) = KeyOf(f) => g = f
                        /\ KeyOf(f) \notin ZeroSizeKeys
                        /\ group[KeyOf(f)] = "absent"
    BY <1>1 DEF IInv, RowsInPhase, GroupsProper
<1> HIDE DEF unique
<1> SUFFICES ASSUME corpus.mode = "Regular"
             PROVE  /\ KeptDiffer' /\ UndecidedDiffer' /\ RoundsComplete' /\ LinksInKey'
                    /\ EmptyTogether' /\ UnequalTrue' /\ DoneIsVerified'
    BY <1>1 DEF DInv
<1>3. \A f \in Files : Eligible(f)' = Eligible(f) /\ KeyOf(f)' = KeyOf(f)
    BY <1>1 DEF Eligible, KeyOf
<1>4. \A k \in Keys : Unfailed(k)' = Unfailed(k)
    BY <1>1 DEF Unfailed, KeyOf
<1>5. \A k \in Keys : (\E f \in unique : KeyOf(f) = k) =>
          \A f, g \in Files : KeyOf(f) = k /\ KeyOf(g) = k => f = g
    BY <1>2
<1>6. \A k \in Keys : ~ (\E f \in unique : KeyOf(f) = k) =>
          /\ Kept(k)' = Kept(k) /\ Members(k)' = Members(k) /\ Active(k)' = Active(k)
          /\ \A f \in Files : KeyOf(f) = k =>
                 phase'[f] = phase[f] /\ canonical'[f] = canonical[f]
    BY <1>1 DEF Kept, Members, Active, KeyOf
<1>7. \A k \in Keys : \A f \in Kept(k)' \cup Members(k)' : f \in Files /\ KeyOf(f) = k
    BY <1>1 DEF Kept, Members, KeyOf
<1>8. KeptDiffer'
    <2> SUFFICES ASSUME NEW k \in Keys \ ZeroSizeKeys, Unfailed(k),
                        NEW c \in Kept(k)', NEW d \in Kept(k)', corpus.bytes[c] = corpus.bytes[d]
                 PROVE  c = d
        BY <1>1, <1>4 DEF KeptDiffer
    <2>1. CASE \E f \in unique : KeyOf(f) = k
        BY <1>5, <1>7, <2>1
    <2>2. CASE ~ \E f \in unique : KeyOf(f) = k
        BY <1>6, <2>2 DEF DInv, KeptDiffer
    <2> QED BY <2>1, <2>2
<1>9. UndecidedDiffer'
    <2> SUFFICES ASSUME NEW k \in Keys \ ZeroSizeKeys, Unfailed(k),
                        NEW c \in Kept(k)', NEW f \in Members(k)', Eligible(f),
                        canonical'[f] = NULL, corpus.bytes[f] = corpus.bytes[c]
                 PROVE  phase'[c] = "prev" /\ f \notin check
        BY <1>1, <1>3, <1>4 DEF UndecidedDiffer, Members
    <2>1. CASE \E g \in unique : KeyOf(g) = k
        <3>1. c = f
            BY <1>5, <1>7, <2>1
        <3> QED BY <1>1, <3>1, DedupAssumption DEF Kept
    <2>2. CASE ~ \E g \in unique : KeyOf(g) = k
        BY <1>6, <1>7, <2>2 DEF DInv, UndecidedDiffer
    <2> QED BY <2>1, <2>2
<1>10. RoundsComplete'
    <2> SUFFICES ASSUME NEW k \in Keys, group[k] = "finished"
                 PROVE  Members(k)' \subseteq check \cup Active(k)'
        BY <1>1 DEF RoundsComplete
    <2>1. ~ \E g \in unique : KeyOf(g) = k
        BY <1>2
    <2> QED BY <1>6, <2>1 DEF DInv, RoundsComplete
<1>11. LinksInKey'
    <2> SUFFICES ASSUME NEW f \in Files, canonical'[f] # NULL, KeyOf(f) \notin ZeroSizeKeys
                 PROVE  KeyOf(canonical'[f]) = KeyOf(f)
        BY <1>1 DEF LinksInKey, KeyOf
    <2> QED BY <1>1 DEF DInv, LinksInKey
<1>12. EmptyTogether'
    BY <1>1, <1>2, <1>3 DEF DInv, EmptyTogether
<1>13. UnequalTrue' /\ DoneIsVerified'
    BY <1>1 DEF DInv, UnequalTrue, DoneIsVerified
<1> QED BY <1>8, <1>9, <1>10, <1>11, <1>12, <1>13

\* The bulk modes are another matter.
LEMMA BulkPromoteDInv == IInv /\ BulkPromote => DInv'
BY DEF IInv, ModePath, BulkPromote, DInv

(***************************************************************************)
(* The commit of a batch.                                                  *)
(***************************************************************************)
LEMMA IngestDInv ==
    ASSUME IInv, DInv, pc' # "done", UNCHANGED <<corpus, group>>,
           NEW B \in SUBSET out, Ingest(B)
    PROVE  DInv'
<1> DEFINE linkedTo(f) == {o.canon : o \in {x \in B : x.cand = f /\ x.result = "equal"}}
<1>1. \A o \in out : /\ o.cand \in Files /\ o.canon \in Files /\ o.result \in Result
                     /\ Current(o)
    BY DEF IInv, TypeOK, Outcome, OutstandingIsCurrent
<1>2. \A f \in Files : \A o \in B : o.cand = f /\ o.result = "equal" =>
          phase'[f] = "deduped" /\ canonical'[f] = o.canon
    <2> SUFFICES ASSUME NEW f \in Files, NEW o \in B, o.cand = f, o.result = "equal"
                 PROVE  phase'[f] = "deduped" /\ canonical'[f] = o.canon
        OBVIOUS
    <2>1. linkedTo(f) = {o.canon}
        BY DEF IInv, ExactlyOnce
    <2> QED BY <2>1 DEF Ingest
<1>3. \A f \in Files :
          \/ phase'[f] = phase[f] /\ canonical'[f] = canonical[f]
          \/ \E o \in B : o.cand = f /\ o.result = "equal"
    BY DEF Ingest
<1>4. \A o \in B : /\ KeyOf(o.cand) \in Keys \ ZeroSizeKeys
                   /\ canonical[o.cand] = NULL /\ phase[o.cand] = "prev"
                   /\ Active(KeyOf(o.cand)) = {o.canon}
                   /\ o.canon \in Files /\ KeyOf(o.canon) = KeyOf(o.cand)
                   /\ canonical[o.canon] = o.canon /\ phase[o.canon] = "prev"
                   /\ o.canon # o.cand
    <2> SUFFICES ASSUME NEW o \in B
                 PROVE  /\ KeyOf(o.cand) \in Keys \ ZeroSizeKeys
                        /\ canonical[o.cand] = NULL /\ phase[o.cand] = "prev"
                        /\ Active(KeyOf(o.cand)) = {o.canon}
                        /\ o.canon \in Files /\ KeyOf(o.canon) = KeyOf(o.cand)
                        /\ canonical[o.canon] = o.canon /\ phase[o.canon] = "prev"
                        /\ o.canon # o.cand
        OBVIOUS
    <2>1. /\ phase[o.cand] = "prev" /\ canonical[o.cand] = NULL
          /\ KeyOf(o.cand) \in Keys /\ group[KeyOf(o.cand)] = "searching"
          /\ Active(KeyOf(o.cand)) = {o.canon}
        BY <1>1 DEF Current, InGroup
    <2>2. o.canon \in Active(KeyOf(o.cand))
        BY <2>1
    <2>3. /\ o.canon \in Files /\ KeyOf(o.canon) = KeyOf(o.cand)
          /\ canonical[o.canon] = o.canon /\ phase[o.canon] = "prev"
        BY <2>2 DEF Active, Members, KeyOf
    <2>4. KeyOf(o.cand) \notin ZeroSizeKeys
        BY <2>1 DEF IInv, GroupsProper
    <2>5. o.canon # o.cand
        BY <2>1, <2>3, DedupAssumption
    <2> QED BY <2>1, <2>3, <2>4, <2>5
<1>5. /\ check' = check \cup {o.cand : o \in {x \in B : x.result # "equal"}}
      /\ err' = err \cup {o.canon : o \in {x \in B : x.result = "canonFailed"}}
                    \cup {o.cand : o \in {x \in B : x.result = "candFailed"}}
      /\ out' = out \ B
    BY DEF Ingest
<1>6. \A f \in Files : canonical'[f] = NULL \/ phase'[f] = "prev" =>
          phase'[f] = phase[f] /\ canonical'[f] = canonical[f]
    BY <1>2, <1>3, <1>4, DedupAssumption
<1>7. \A f \in Files : canonical[f] # NULL =>
          phase'[f] = phase[f] /\ canonical'[f] = canonical[f]
    BY <1>3, <1>4
<1>8. \A k \in Keys : Kept(k)' = Kept(k) /\ Members(k)' \subseteq Members(k)
    <2>1. \A f \in Files : canonical'[f] = f <=> canonical[f] = f
        BY <1>2, <1>3, <1>4, <1>7, DedupAssumption
    <2> QED BY <1>6, <2>1 DEF Kept, Members, KeyOf
<1>9. \A k \in Keys : Unfailed(k)' => Unfailed(k)
    BY <1>5 DEF Unfailed, KeyOf
<1>10. \A f \in Files : Eligible(f)' = Eligible(f) /\ KeyOf(f)' = KeyOf(f)
    BY DEF Eligible, KeyOf
<1> SUFFICES ASSUME corpus.mode = "Regular"
             PROVE  /\ KeptDiffer' /\ UndecidedDiffer' /\ RoundsComplete' /\ LinksInKey'
                    /\ EmptyTogether' /\ UnequalTrue' /\ DoneIsVerified'
    BY DEF DInv
<1>11. KeptDiffer'
    BY <1>8, <1>9 DEF DInv, KeptDiffer
<1>12. UndecidedDiffer'
    <2> SUFFICES ASSUME NEW k \in Keys \ ZeroSizeKeys, Unfailed(k)',
                        NEW c \in Kept(k), NEW f \in Members(k)', Eligible(f),
                        canonical'[f] = NULL, corpus.bytes[f] = corpus.bytes[c]
                 PROVE  phase'[c] = "prev" /\ f \notin check'
        BY <1>8, <1>10 DEF UndecidedDiffer, Members
    <2>1. /\ f \in Files /\ f \in Members(k) /\ KeyOf(f) = k
          /\ canonical[f] = NULL /\ Unfailed(k)
        BY <1>6, <1>8, <1>9 DEF Members, KeyOf
    <2>2. phase[c] = "prev" /\ f \notin check
        BY <2>1 DEF DInv, UndecidedDiffer
    <2>3. c \in Files /\ canonical[c] = c /\ phase'[c] = "prev"
        BY <1>7, <2>2, DedupAssumption DEF Kept
    <2>4. ASSUME NEW o \in B, o.result # "equal", o.cand = f PROVE FALSE
        <3>1. o.canon = c
            BY <1>4, <2>1, <2>2, <2>3, <2>4 DEF Active, Members, KeyOf, Kept
        <3>2. o.result \in {"canonFailed", "candFailed"}
            BY <1>1, <2>4, <3>1 DEF DInv, UnequalTrue, Result
        <3>3. o.canon \in err' \/ o.cand \in err'
            BY <1>5, <3>2
        <3>4. KeyOf(o.canon)' = k /\ KeyOf(o.cand)' = k
            BY <1>4, <2>1, <2>4 DEF KeyOf
        <3> QED BY <3>3, <3>4 DEF Unfailed
    <2> QED BY <1>5, <2>2, <2>3, <2>4
<1>13. RoundsComplete'
    <2> SUFFICES ASSUME NEW k \in Keys, group[k] = "finished"
                 PROVE  Members(k)' \subseteq check' \cup Active(k)'
        BY DEF RoundsComplete
    <2>1. \A f \in Members(k)' : f \in Active(k) => f \in Active(k)'
        BY <1>6 DEF Active, Members
    <2> QED BY <1>5, <1>8, <2>1 DEF DInv, RoundsComplete
<1>14. LinksInKey'
    <2> SUFFICES ASSUME NEW f \in Files, canonical'[f] # NULL, KeyOf(f) \notin ZeroSizeKeys
                 PROVE  KeyOf(canonical'[f]) = KeyOf(f)
        BY DEF LinksInKey, KeyOf
    <2> QED BY <1>2, <1>3, <1>4 DEF DInv, LinksInKey
<1>15. EmptyTogether'
    <2>1. \A f \in Files : KeyOf(f) \in ZeroSizeKeys =>
              phase'[f] = phase[f] /\ canonical'[f] = canonical[f]
        BY <1>3, <1>4
    <2> QED BY <1>10, <2>1 DEF DInv, EmptyTogether
<1>16. UnequalTrue' /\ DoneIsVerified'
    BY <1>5 DEF DInv, UnequalTrue, DoneIsVerified
<1> QED BY <1>11, <1>12, <1>13, <1>14, <1>15, <1>16

LEMMA DrainDInv == IInv /\ DInv /\ (Drain \/ WindDownDrain) => DInv'
<1> SUFFICES ASSUME IInv, DInv, Drain \/ WindDownDrain PROVE DInv'
    OBVIOUS
<1>1. PICK B \in SUBSET out : Ingest(B)
    BY DEF Drain, WindDownDrain
<1>2. pc' # "done" /\ UNCHANGED <<corpus, group>>
    BY DEF Drain, WindDownDrain
<1> QED BY <1>1, <1>2, IngestDInv

(***************************************************************************)
(* The tick.                                                               *)
(***************************************************************************)
\* Closing a round takes nobody out of it who was not compared.
LEMMA CloseRoundDInv ==
    ASSUME DInv, UNCHANGED <<corpus, canonical, err, out>>, pc' # "done",
           \A f \in Files : /\ phase'[f] \in {phase[f], "deduped"}
                            /\ phase'[f] # phase[f] => KeyOf(f) \notin ZeroSizeKeys,
           \A k \in Keys :
               \/ /\ group'[k] = group[k] /\ Members(k)' = Members(k)
                  /\ \A f \in Members(k) : f \in check' <=> f \in check
               \/ /\ group'[k] # "finished"
                  /\ \A f \in Members(k)' : canonical[f] = NULL => f \in check
    PROVE  DInv'
<1> SUFFICES ASSUME corpus.mode = "Regular"
             PROVE  /\ KeptDiffer' /\ UndecidedDiffer' /\ RoundsComplete' /\ LinksInKey'
                    /\ EmptyTogether' /\ UnequalTrue' /\ DoneIsVerified'
    BY DEF DInv
<1>1. \A k \in Keys : /\ Kept(k)' = Kept(k) /\ Members(k)' \subseteq Members(k)
                      /\ Unfailed(k)' = Unfailed(k)
    BY DEF Kept, Members, Unfailed, KeyOf
<1>2. \A f \in Files : Eligible(f)' = Eligible(f) /\ KeyOf(f)' = KeyOf(f)
    BY DEF Eligible, KeyOf
<1>3. KeptDiffer'
    BY <1>1 DEF DInv, KeptDiffer
<1>4. UndecidedDiffer'
    <2> SUFFICES ASSUME NEW k \in Keys \ ZeroSizeKeys, Unfailed(k),
                        NEW c \in Kept(k), NEW f \in Members(k)', Eligible(f),
                        canonical[f] = NULL, corpus.bytes[f] = corpus.bytes[c]
                 PROVE  phase'[c] = "prev" /\ f \notin check'
        BY <1>1, <1>2 DEF UndecidedDiffer, Members
    <2>1. phase[c] = "prev" /\ f \notin check /\ f \in Members(k)
        BY <1>1 DEF DInv, UndecidedDiffer
    <2>2. Members(k)' = Members(k) /\ f \notin check'
        BY <2>1
    <2>3. c \in Members(k)'
        BY <2>1, <2>2 DEF Members, Kept, KeyOf
    <2> QED BY <2>2, <2>3 DEF Members
<1>5. RoundsComplete'
    <2> SUFFICES ASSUME NEW k \in Keys, group'[k] = "finished"
                 PROVE  Members(k)' \subseteq check' \cup Active(k)'
        BY DEF RoundsComplete
    <2>1. /\ group[k] = "finished" /\ Members(k)' = Members(k)
          /\ \A f \in Members(k) : f \in check' <=> f \in check
        OBVIOUS
    <2> QED BY <2>1 DEF DInv, RoundsComplete, Active
<1>6. LinksInKey' /\ UnequalTrue' /\ DoneIsVerified'
    BY DEF DInv, LinksInKey, UnequalTrue, DoneIsVerified, KeyOf
<1>7. EmptyTogether'
    BY <1>2 DEF DInv, EmptyTogether
<1> QED BY <1>3, <1>4, <1>5, <1>6, <1>7

\* A group that is given up, or done, leaves nobody behind.
LEMMA FinishToErrorDInv == IInv /\ DInv /\ FinishToError => DInv'
<1> SUFFICES ASSUME IInv, DInv, FinishToError PROVE DInv'
    OBVIOUS
<1>1. /\ UNCHANGED <<corpus, canonical, err, out>>
      /\ pc' # "done"
      /\ check' = {f \in check : group'[KeyOf(f)] # "errored"}
      /\ \A f \in Files : phase'[f] = IF KeyOf(f) \in Keys /\ group'[KeyOf(f)] = "errored"
                                      THEN "deduped" ELSE phase[f]
    BY DEF FinishToError
<1>2. \A k \in Keys : \/ group'[k] = group[k]
                      \/ group[k] = "finished" /\ group'[k] = "errored"
    BY DEF FinishToError
<1>3. \A k \in Keys : IF group'[k] = "errored" THEN Members(k)' = {}
                      ELSE Members(k)' = Members(k)
    BY <1>1 DEF Members, KeyOf
<1>4. \A f \in Files : KeyOf(f) \in ZeroSizeKeys => phase'[f] = phase[f]
    BY <1>1, <1>2 DEF IInv, GroupsProper
<1>5. \A k \in Keys : group'[k] # "errored" =>
          \A f \in Members(k) : f \in check' <=> f \in check
    BY <1>1 DEF Members, KeyOf
<1> QED BY <1>1, <1>2, <1>3, <1>4, <1>5, CloseRoundDInv

LEMMA FinishToDoneDInv == IInv /\ DInv /\ FinishToDone => DInv'
<1> SUFFICES ASSUME IInv, DInv, FinishToDone PROVE DInv'
    OBVIOUS
<1>1. /\ UNCHANGED <<corpus, canonical, err, out>>
      /\ pc' # "done"
      /\ check' = {f \in check : group'[KeyOf(f)] # "done"}
      /\ \A f \in Files : phase'[f] = IF KeyOf(f) \in Keys /\ group'[KeyOf(f)] = "done"
                                      THEN "deduped" ELSE phase[f]
    BY DEF FinishToDone, queues
<1>2. \A k \in Keys : \/ group'[k] = group[k]
                      \/ group[k] = "finished" /\ group'[k] = "done"
    BY DEF FinishToDone
<1>3. \A k \in Keys : IF group'[k] = "done" THEN Members(k)' = {}
                      ELSE Members(k)' = Members(k)
    BY <1>1 DEF Members, KeyOf
<1>4. \A f \in Files : KeyOf(f) \in ZeroSizeKeys => phase'[f] = phase[f]
    BY <1>1, <1>2 DEF IInv, GroupsProper
<1>5. \A k \in Keys : group'[k] # "done" =>
          \A f \in Members(k) : f \in check' <=> f \in check
    BY <1>1 DEF Members, KeyOf
<1> QED BY <1>1, <1>2, <1>3, <1>4, <1>5, CloseRoundDInv

\* The members that stay for another round were all compared in this one.
LEMMA FinishToReadyDInv == IInv /\ DInv /\ FinishToReady => DInv'
<1> SUFFICES ASSUME IInv, DInv, FinishToReady PROVE DInv'
    OBVIOUS
<1>1. /\ UNCHANGED <<corpus, canonical, err, out>>
      /\ pc = "toReady" /\ pc' # "done"
      /\ check' = {f \in check : group'[KeyOf(f)] # "ready"}
      /\ \A f \in Files : phase'[f] = IF /\ KeyOf(f) \in Keys /\ group'[KeyOf(f)] = "ready"
                                         /\ canonical[f] = f
                                      THEN "deduped" ELSE phase[f]
    BY DEF FinishToReady, queues
<1>2. corpus.mode = "Regular"
    BY <1>1 DEF IInv, ModePath, Loop, Tick
<1>3. \A k \in Keys : \/ group'[k] = group[k]
                      \/ group[k] = "finished" /\ group'[k] = "ready"
    BY DEF FinishToReady
<1>4. \A f \in Files : KeyOf(f) \in ZeroSizeKeys => phase'[f] = phase[f]
    BY <1>1, <1>3 DEF IInv, GroupsProper
<1>5. ASSUME NEW k \in Keys, group'[k] = group[k]
      PROVE  /\ Members(k)' = Members(k)
             /\ \A f \in Members(k) : f \in check' <=> f \in check
    <2>1. CASE group[k] = "ready"
        <3>1. \A f \in Members(k) : canonical[f] # f /\ f \notin check
            <4>1. \A f \in Members(k) : f \in Files /\ KeyOf(f) = k
                BY DEF Members, KeyOf
            <4>2. \A f \in Members(k) : f \notin check
                BY <2>1, <4>1 DEF IInv, FlagsInRound
            <4>3. \A f \in Members(k) : canonical[f] # f
                BY <2>1, <4>1 DEF IInv, OneActivePerRound, Active, Members
            <4> QED BY <4>2, <4>3
        <3> QED BY <1>1, <3>1 DEF Members, KeyOf
    <2>2. CASE group[k] # "ready"
        BY <1>1, <1>5, <2>2 DEF Members, KeyOf
    <2> QED BY <2>1, <2>2
<1>6. ASSUME NEW k \in Keys, group[k] = "finished"
      PROVE  \A f \in Members(k)' : canonical[f] = NULL => f \in check
    <2>1. \A f \in Members(k) : f \in check \/ canonical[f] = f
        BY <1>2, <1>6 DEF DInv, RoundsComplete, Active
    <2>2. \A f \in Members(k)' : f \in Files /\ f \in Members(k)
        BY <1>1 DEF Members, KeyOf
    <2> QED BY <2>1, <2>2, DedupAssumption
<1> QED BY <1>1, <1>3, <1>4, <1>5, <1>6, CloseRoundDInv

\* The elected row differs from every earlier canonical of its group, and a
\* group that does not go on has nobody else to compare.
LEMMA ReadyToSearchingDInv == IInv /\ DInv /\ ReadyToSearching => DInv'
<1> SUFFICES ASSUME IInv, DInv, ReadyToSearching PROVE DInv'
    OBVIOUS
<1> DEFINE ready == {k \in Keys : group[k] = "ready"}
           elected == UNION {Least(Electable(k)) : k \in ready}
           act(k) == Active(k) \cup (elected \cap Members(k))
           searching == {k \in ready :
                            /\ Singleton(act(k))
                            /\ \E f \in Members(k) \ (elected \cup check) :
                                   canonical[f] = NULL}
           retired == UNION {act(k) : k \in ready \ searching}
           closed == {k \in ready \ searching : Members(k) \subseteq retired}
<1>1. /\ UNCHANGED <<corpus, check, err, out>>
      /\ pc = "toSearching" /\ pc' # "done"
      /\ canonical' = [f \in Files |-> IF f \in elected THEN f ELSE canonical[f]]
      /\ phase' = [f \in Files |-> IF f \in retired THEN "deduped" ELSE phase[f]]
      /\ group' = [k \in Keys |-> IF k \in searching THEN "searching"
                                  ELSE IF k \in closed THEN "done" ELSE group[k]]
    BY Zenon DEF ReadyToSearching
<1>2. corpus.mode = "Regular"
    BY <1>1 DEF IInv, ModePath, Loop, Tick
<1>3. \A k \in ready : Active(k) = {}
    BY DEF IInv, OneActivePerRound
<1>4. \A f \in elected : /\ f \in Files /\ KeyOf(f) \in ready /\ f \in Members(KeyOf(f))
                         /\ f \in Least(Electable(KeyOf(f)))
                         /\ canonical[f] = NULL /\ phase[f] = "prev" /\ f \notin check
                         /\ Eligible(f) /\ KeyOf(f) \notin ZeroSizeKeys
    <2> SUFFICES ASSUME NEW k \in ready, NEW f \in Least(Electable(k))
                 PROVE  /\ f \in Files /\ KeyOf(f) \in ready /\ f \in Members(KeyOf(f))
                        /\ f \in Least(Electable(KeyOf(f)))
                        /\ canonical[f] = NULL /\ phase[f] = "prev" /\ f \notin check
                        /\ Eligible(f) /\ KeyOf(f) \notin ZeroSizeKeys
        OBVIOUS
    <2>1. f \in Electable(k)
        BY DEF Least
    <2>2. f \in Files /\ KeyOf(f) = k /\ canonical[f] = NULL /\ phase[f] = "prev"
        BY <2>1 DEF Electable, Members, KeyOf
    <2>3. f \in Members(k) /\ Eligible(f) /\ f \notin check /\ k \notin ZeroSizeKeys
        BY <1>1, <2>1, <2>2 DEF Electable, IInv, RowsInPhase, GroupsProper
    <2> QED BY <2>2, <2>3
<1>5. \A f, g \in elected : KeyOf(f) = KeyOf(g) => f = g
    <2> SUFFICES ASSUME NEW f \in elected, NEW g \in elected, KeyOf(f) = KeyOf(g) PROVE f = g
        OBVIOUS
    <2>1. Electable(KeyOf(f)) \subseteq Files
        BY DEF Electable, Members
    <2>2. f \in Least(Electable(KeyOf(f))) /\ g \in Least(Electable(KeyOf(f)))
        BY <1>4
    <2> QED BY <2>1, <2>2, LeastUnique
<1>6. \A f \in retired : f \in elected /\ KeyOf(f) \in ready \ searching
    <2> SUFFICES ASSUME NEW k \in ready \ searching, NEW f \in act(k)
                 PROVE  f \in elected /\ KeyOf(f) \in ready \ searching
        OBVIOUS
    <2>1. f \in elected /\ f \in Members(k)
        BY <1>3
    <2> QED BY <2>1 DEF Members, KeyOf
<1>7. \A k \in ready : \A c \in elected : KeyOf(c) = k => Singleton(act(k))
    <2> SUFFICES ASSUME NEW k \in ready, NEW c \in elected, KeyOf(c) = k
                 PROVE  Singleton(act(k))
        OBVIOUS
    <2>1. c \in elected \cap Members(k)
        BY <1>4
    <2>2. \A f \in elected \cap Members(k) : f = c
        BY <1>5 DEF Members, KeyOf
    <2>3. act(k) = {c}
        BY <1>3, <2>1, <2>2
    <2> QED BY <2>3 DEF Singleton
<1> HIDE DEF elected
<1>8. \A k \in ready : k \notin searching => \A c \in elected : KeyOf(c) = k =>
          \A f \in Members(k) : canonical[f] = NULL => f \in elected \cup check
    BY <1>7
<1>9. \A k \in Keys : group'[k] = "finished" => group[k] = "finished" /\ k \notin ready
    BY <1>1
<1> HIDE DEF retired, closed, searching
<1>10. \A k \in Keys : /\ Kept(k) \subseteq Kept(k)'
                       /\ \A c \in Kept(k)' : c \in Kept(k) \/ (c \in elected /\ KeyOf(c) = k)
                       /\ Members(k)' \subseteq Members(k)
                       /\ Unfailed(k)' = Unfailed(k)
    BY <1>1 DEF Kept, Members, Unfailed, KeyOf
<1>11. \A f \in Files : Eligible(f)' = Eligible(f) /\ KeyOf(f)' = KeyOf(f)
    BY <1>1 DEF Eligible, KeyOf
<1> SUFFICES /\ KeptDiffer' /\ UndecidedDiffer' /\ RoundsComplete' /\ LinksInKey'
             /\ EmptyTogether' /\ UnequalTrue' /\ DoneIsVerified'
    BY DEF DInv
<1>12. ASSUME NEW k \in Keys \ ZeroSizeKeys, Unfailed(k), NEW c \in Kept(k),
              NEW d \in elected, KeyOf(d) = k
       PROVE  corpus.bytes[c] # corpus.bytes[d]
    <2>1. d \in Members(k) /\ Eligible(d) /\ canonical[d] = NULL
        BY <1>4, <1>12
    <2>2. corpus.bytes[d] = corpus.bytes[c] => phase[c] = "prev"
        BY <1>2, <1>12, <2>1 DEF DInv, UndecidedDiffer
    <2>3. phase[c] = "prev" => c \in Active(k)
        BY DEF Active, Members, Kept, KeyOf
    <2>4. Active(k) = {}
        BY <1>3, <1>4, <1>12
    <2> QED BY <2>2, <2>3, <2>4
<1>13. KeptDiffer'
    <2> SUFFICES ASSUME NEW k \in Keys \ ZeroSizeKeys, Unfailed(k),
                        NEW c \in Kept(k)', NEW d \in Kept(k)', corpus.bytes[c] = corpus.bytes[d]
                 PROVE  c = d
        BY <1>1, <1>10 DEF KeptDiffer
    <2>1. CASE c \in Kept(k) /\ d \in Kept(k)
        BY <1>2, <2>1 DEF DInv, KeptDiffer
    <2>2. CASE c \notin Kept(k) /\ d \notin Kept(k)
        BY <1>5, <1>10, <2>2
    <2>3. CASE c \in Kept(k) /\ d \notin Kept(k)
        BY <1>10, <1>12, <2>3
    <2>4. CASE c \notin Kept(k) /\ d \in Kept(k)
        BY <1>10, <1>12, <2>4
    <2> QED BY <2>1, <2>2, <2>3, <2>4
<1>14. UndecidedDiffer'
    <2> SUFFICES ASSUME NEW k \in Keys \ ZeroSizeKeys, Unfailed(k),
                        NEW c \in Kept(k)', NEW f \in Members(k)', Eligible(f),
                        canonical'[f] = NULL, corpus.bytes[f] = corpus.bytes[c]
                 PROVE  phase'[c] = "prev" /\ f \notin check
        BY <1>1, <1>10, <1>11 DEF UndecidedDiffer, Members
    <2>1. /\ f \in Files /\ f \in Members(k) /\ KeyOf(f) = k
          /\ canonical[f] = NULL /\ f \notin elected
        BY <1>1, <1>10, DedupAssumption DEF Members, KeyOf
    <2>2. CASE c \in Kept(k)
        <3>1. phase[c] = "prev" /\ f \notin check
            BY <1>2, <2>1, <2>2 DEF DInv, UndecidedDiffer
        <3>2. c \in Files /\ canonical[c] = c
            BY <2>2 DEF Kept
        <3>3. c \notin retired
            BY <1>4, <1>6, <3>2, DedupAssumption
        <3> QED BY <1>1, <3>1, <3>2, <3>3
    <2>3. CASE c \notin Kept(k)
        <3>1. c \in elected /\ KeyOf(c) = k /\ c \in Files
            BY <1>4, <1>10, <2>3
        <3>2. k \in ready
            BY <1>4, <3>1
        <3>3. f \notin check
            BY <2>1, <3>2 DEF IInv, FlagsInRound
        <3>4. k \in searching
            BY <1>8, <2>1, <3>1, <3>2, <3>3
        <3>5. c \notin retired
            BY <1>6, <3>1, <3>4
        <3> QED BY <1>1, <1>4, <3>1, <3>3, <3>5
    <2> QED BY <2>2, <2>3
<1>15. RoundsComplete'
    <2> SUFFICES ASSUME NEW k \in Keys, group'[k] = "finished"
                 PROVE  Members(k)' \subseteq check \cup Active(k)'
        BY <1>1 DEF RoundsComplete
    <2>1. Members(k) \subseteq check \cup Active(k)
        BY <1>2, <1>9 DEF DInv, RoundsComplete
    <2>2. \A f \in Members(k)' : f \in Active(k) => f \in Active(k)'
        BY <1>1 DEF Active, Members
    <2> QED BY <1>10, <2>1, <2>2
<1>16. LinksInKey'
    <2> SUFFICES ASSUME NEW f \in Files, canonical'[f] # NULL, KeyOf(f) \notin ZeroSizeKeys
                 PROVE  KeyOf(canonical'[f]) = KeyOf(f)
        BY <1>1 DEF LinksInKey, KeyOf
    <2> QED BY <1>1, <1>2 DEF DInv, LinksInKey
<1>17. EmptyTogether'
    <2>1. \A f \in Files : KeyOf(f) \in ZeroSizeKeys =>
              phase'[f] = phase[f] /\ canonical'[f] = canonical[f]
        BY <1>1, <1>4, <1>6
    <2> QED BY <1>2, <1>11, <2>1 DEF DInv, EmptyTogether
<1>18. UnequalTrue' /\ DoneIsVerified'
    BY <1>1, <1>2 DEF DInv, UnequalTrue, DoneIsVerified
<1> QED BY <1>13, <1>14, <1>15, <1>16, <1>17, <1>18

\* DInv is inductive beside IInv.
LEMMA NextDInv == IInv /\ DInv /\ [Next]_vars => DInv'
BY WorkerDInv, ControlDInv, PromoteIneligibleDInv, PromoteEmptyDInv, PromoteSingletonDInv,
   BulkPromoteDInv, DrainDInv, FinishToErrorDInv, FinishToDoneDInv, FinishToReadyDInv,
   ReadyToSearchingDInv
DEF Next, Driver, Worker, TickStep

\* The second invariant holds in every reachable state.
LEMMA RoundsInvariance == Spec => []DInv
<1>1. Init => IInv /\ DInv
    BY InitIInv, InitDInv
<1>2. IInv /\ DInv /\ [Next]_vars => (IInv /\ DInv)'
    BY NextIInv, NextDInv
<1> QED BY <1>1, <1>2, PTL DEF Spec

\* What the two invariants say of a phase that is over.
LEMMA DuplicatesWereFound == IInv /\ DInv => DuplicatesFound
<1> SUFFICES ASSUME IInv, DInv, pc = "done", corpus.mode = "Regular", Trusted,
                    NEW f \in Files, NEW g \in Files,
                    Eligible(f), Eligible(g), KeyOf(f) = KeyOf(g),
                    corpus.bytes[f] = corpus.bytes[g], Unfailed(KeyOf(f))
             PROVE  canonical[f] = canonical[g]
    BY DEF DuplicatesFound
<1>1. CASE KeyOf(f) \in ZeroSizeKeys
    BY <1>1 DEF DInv, EmptyTogether
<1>2. CASE KeyOf(f) \notin ZeroSizeKeys
    <2>1. KeyOf(f) \in Keys
        BY CorpusFields DEF IInv, TypeOK, Eligible, KeyOf
    <2>2. f \notin err /\ g \notin err
        BY DEF Unfailed
    <2>3. canonical[f] # NULL /\ canonical[g] # NULL
        BY <2>2 DEF DInv, DoneIsVerified, Accounted
    <2>4. canonical[f] \in Files /\ canonical[g] \in Files
        BY <2>3 DEF IInv, TypeOK
    <2>5. /\ canonical[canonical[f]] = canonical[f] /\ canonical[canonical[g]] = canonical[g]
          /\ corpus.bytes[canonical[f]] = corpus.bytes[canonical[g]]
        BY <2>3 DEF IInv, LinksResolve, LinkSound
    <2>6. KeyOf(canonical[f]) = KeyOf(f) /\ KeyOf(canonical[g]) = KeyOf(f)
        BY <1>2, <2>3 DEF DInv, LinksInKey
    <2>7. canonical[f] \in Kept(KeyOf(f)) /\ canonical[g] \in Kept(KeyOf(f))
        BY <2>4, <2>5, <2>6 DEF Kept
    <2> QED BY <1>2, <2>1, <2>5, <2>7 DEF DInv, KeptDiffer
<1> QED BY <1>1, <1>2

(***************************************************************************)
(* A Regular phase that ends well has found every duplicate of the groups  *)
(* in which no read failed, over any number of rounds and reruns.          *)
(***************************************************************************)
THEOREM EveryDuplicateIsFound == Spec => []DuplicatesFound
BY Invariance, RoundsInvariance, DuplicatesWereFound, PTL

=============================================================================
