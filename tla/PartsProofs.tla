---------------------------- MODULE PartsProofs ----------------------------
(***************************************************************************)
(* Proofs about three components that share no state: the worker loop that *)
(* every phase rests on (SendReceive), the archive file (Framing) and the  *)
(* inventory over several sources (Sources).                               *)
(*                                                                         *)
(* The loop, for every set of items, every number of workers but none, and *)
(* every capacity.  The argument is the inductive invariant LoopInv: an    *)
(* item is in one place, only an excused loop loses it, and the driver     *)
(* knows enough when it closes the channel of work.                        *)
(*                                                                         *)
(* The file, for every list of members, every snapshot and capacity, all   *)
(* formats, any number of launches, failing writes, signals, crashes and   *)
(* damages.  The argument is the inductive invariant IInv of Framing: the  *)
(* blocks in the file and on their way to it are those that the session    *)
(* was given (Conserved), and where a footer stands in the file, whole or  *)
(* cut off, damaged or not (Footers).                                      *)
(*                                                                         *)
(* The inventory, for every tree, with links in any place and round, every *)
(* list of directories and lines, all options, any number of attempts and  *)
(* names that go while it runs.  The argument is the inductive invariant   *)
(* InventoryInv: what the tables tell was there when the inventory began   *)
(* (Recorded), the directories let through lie apart (Separate), and each  *)
(* name a walk has to meet has been dealt with, or lies at or below one    *)
(* that is still to be met (Walking).  It rests on lemmas about resolving  *)
(* a path in a tree that only loses names (Within, Trees) and about the    *)
(* levels a walk reaches below its root.                                   *)
(***************************************************************************)
EXTENDS SendReceive, Framing, Sources,
        FiniteSetTheorems, SequenceTheorems, WellFoundedInduction, TLAPS

-----------------------------------------------------------------------------
(* The worker loop.                                                        *)

\* With a worker and no excuse, somebody runs as long as the feed is open.
LEMMA SomebodyRuns ==
    ASSUME Workers # {}, LoopInv, ~Excused, ~feedClosed
    PROVE  Running
<1>1. PICK w \in Workers : TRUE
    OBVIOUS
<1>2. thread[w] # "ended" /\ thread[w] # "panicked"
    BY <1>1 DEF LoopInv, Closing, Excused, Panicked
<1> QED BY <1>1, <1>2 DEF Running, Finished

LEMMA InitLoopInv == LoopInit => LoopInv
<1> SUFFICES ASSUME LoopInit PROVE LoopInv
    OBVIOUS
<1> USE SendReceiveAssumption DEF LoopInit
<1>1. LoopTypeOK
    BY DEF LoopTypeOK
<1>2. Applied = {}
    BY DEF Applied
<1>3. OnePlace /\ SomePlace
    BY <1>2 DEF OnePlace, SomePlace
<1>4. Closing
    BY DEF Closing
<1>5. Joined
    BY <1>2, FS_EmptySet DEF Joined
<1> QED BY <1>1, <1>3, <1>4, <1>5 DEF LoopInv

LEMMA TopLoopInv == Workers # {} /\ LoopInv /\ Top => LoopInv'
<1> SUFFICES ASSUME Workers # {}, LoopInv, Top PROVE LoopInv'
    OBVIOUS
<1> USE SendReceiveAssumption DEF Top, CloseFeed, items, counts
<1>1. LoopTypeOK'
    BY DEF LoopInv, LoopTypeOK
<1>2. OnePlace'
    BY DEF LoopInv, LoopTypeOK, OnePlace, Applied
<1>3. SomePlace'
    BY DEF LoopInv, LoopTypeOK, SomePlace, Applied, Excused, Panicked
<1>4. Closing'
    BY DEF LoopInv, LoopTypeOK, Closing, Excused, Panicked
<1>5. Joined'
    BY DEF LoopInv, LoopTypeOK, Joined, Closing, Applied, Running, Finished
<1> QED BY <1>1, <1>2, <1>3, <1>4, <1>5 DEF LoopInv

LEMMA ReceiveLoopInv == Workers # {} /\ LoopInv /\ Receive => LoopInv'
<1> SUFFICES ASSUME Workers # {}, LoopInv, Receive PROVE LoopInv'
    OBVIOUS
<1> USE SendReceiveAssumption DEF Receive, items, counts
<1>1. LoopTypeOK'
    BY DEF LoopInv, LoopTypeOK
<1>2. OnePlace'
    BY DEF LoopInv, LoopTypeOK, OnePlace, Applied
<1>3. SomePlace'
    BY DEF LoopInv, LoopTypeOK, SomePlace, Applied, Excused, Panicked
<1>4. Closing'
    BY DEF LoopInv, LoopTypeOK, Closing, Excused, Panicked
<1>5. Joined'
    <2>1. CASE UNCHANGED <<out, pendingOut, dequeued>>
        BY <2>1 DEF LoopInv, LoopTypeOK, Joined, Applied, Running, Finished
    <2>2. CASE ~UNCHANGED <<out, pendingOut, dequeued>>
        <3>1. PICK i \in out : pendingOut' = pendingOut \cup {i} /\ out' = out \ {i}
            BY <2>2
        <3>2. dequeued' = dequeued + 1 /\ UNCHANGED <<at, stage, thread, commits>>
            BY <2>2
        <3> DEFINE S == pendingOut \cup Applied
        <3>3. IsFiniteSet(S) /\ i \notin S /\ dequeued = Cardinality(S)
            BY FS_Subset DEF LoopInv, LoopTypeOK, OnePlace, Joined, Applied
        <3>4. Cardinality(S \cup {i}) = Cardinality(S) + 1
            BY <3>3, FS_AddElement
        <3>5. Applied' = Applied /\ (pendingOut \cup Applied)' = S \cup {i}
            BY <3>1, <3>2 DEF Applied
        <3> QED BY <3>1, <3>2, <3>3, <3>4, <3>5 DEF LoopInv, Joined, Running, Finished
    <2> QED BY <2>1, <2>2
<1> QED BY <1>1, <1>2, <1>3, <1>4, <1>5 DEF LoopInv

LEMMA DrainedLoopInv == Workers # {} /\ LoopInv /\ Drained => LoopInv'
<1> SUFFICES ASSUME Workers # {}, LoopInv, Drained PROVE LoopInv'
    OBVIOUS
<1> USE SendReceiveAssumption DEF Drained, Full, Override, items, counts
<1>1. LoopTypeOK'
    BY DEF LoopInv, LoopTypeOK
<1>2. OnePlace'
    BY DEF LoopInv, LoopTypeOK, OnePlace, Applied
<1>3. SomePlace'
    BY DEF LoopInv, LoopTypeOK, SomePlace, Applied, Excused, Panicked
<1>4. Closing'
    BY DEF LoopInv, LoopTypeOK, Closing, Excused, Panicked
<1>5. Joined'
    <2>1. (pendingOut \cup Applied)' = pendingOut \cup Applied
        BY DEF LoopInv, LoopTypeOK, Applied
    <2> QED BY <2>1 DEF LoopInv, LoopTypeOK, Joined, Closing, Running, Finished
<1> QED BY <1>1, <1>2, <1>3, <1>4, <1>5 DEF LoopInv

LEMMA PullLoopInv == Workers # {} /\ LoopInv /\ Pull => LoopInv'
<1> SUFFICES ASSUME Workers # {}, LoopInv, Pull PROVE LoopInv'
    OBVIOUS
<1> USE SendReceiveAssumption DEF Pull, items, counts
<1>1. LoopTypeOK'
    BY DEF LoopInv, LoopTypeOK
<1>2. OnePlace'
    BY DEF LoopInv, LoopTypeOK, OnePlace, Applied
<1>3. SomePlace'
    BY DEF LoopInv, LoopTypeOK, SomePlace, Applied, Excused, Panicked
<1>4. Closing'
    BY DEF LoopInv, LoopTypeOK, Closing, Excused, Panicked
<1>5. Joined'
    BY DEF LoopInv, LoopTypeOK, Joined, Closing, Applied, Running, Finished
<1> QED BY <1>1, <1>2, <1>3, <1>4, <1>5 DEF LoopInv

LEMMA SendLoopInv == Workers # {} /\ LoopInv /\ Send => LoopInv'
<1> SUFFICES ASSUME Workers # {}, LoopInv, Send PROVE LoopInv'
    OBVIOUS
<1> USE SendReceiveAssumption DEF Send, CanSend, items, counts
<1>1. LoopTypeOK'
    BY DEF LoopInv, LoopTypeOK
<1>2. OnePlace'
    BY DEF LoopInv, LoopTypeOK, OnePlace, Applied
<1>3. SomePlace'
    BY DEF LoopInv, LoopTypeOK, SomePlace, Applied, Excused, Panicked
<1>4. Closing'
    BY DEF LoopInv, LoopTypeOK, Closing, Excused, Panicked
<1>5. Joined'
    BY DEF LoopInv, LoopTypeOK, Joined, Closing, Applied, Running, Finished
<1> QED BY <1>1, <1>2, <1>3, <1>4, <1>5 DEF LoopInv

LEMMA SendEndLoopInv == Workers # {} /\ LoopInv /\ SendEnd => LoopInv'
<1> SUFFICES ASSUME Workers # {}, LoopInv, SendEnd PROVE LoopInv'
    OBVIOUS
<1> USE SendReceiveAssumption DEF SendEnd, items, counts
<1>1. LoopTypeOK'
    BY DEF LoopInv, LoopTypeOK
<1>2. OnePlace'
    BY DEF LoopInv, LoopTypeOK, OnePlace, Applied
<1>3. SomePlace'
    BY DEF LoopInv, LoopTypeOK, SomePlace, Applied, Excused, Panicked
<1>4. Closing'
    BY DEF LoopInv, LoopTypeOK, Closing, Excused, Panicked
<1>5. Joined'
    BY DEF LoopInv, LoopTypeOK, Joined, Closing, Applied, Running, Finished
<1> QED BY <1>1, <1>2, <1>3, <1>4, <1>5 DEF LoopInv

LEMMA CheckLoopInv == Workers # {} /\ LoopInv /\ Check => LoopInv'
<1> SUFFICES ASSUME Workers # {}, LoopInv, Check PROVE LoopInv'
    OBVIOUS
<1> USE SendReceiveAssumption DEF Check, CloseFeed, Answered, items, counts
<1>1. LoopTypeOK'
    BY DEF LoopInv, LoopTypeOK
<1>2. OnePlace'
    BY DEF LoopInv, LoopTypeOK, OnePlace, Applied
<1>3. SomePlace'
    BY DEF LoopInv, LoopTypeOK, SomePlace, Applied, Excused, Panicked
<1>4. Closing'
    BY SomebodyRuns DEF LoopInv, LoopTypeOK, Closing, Excused, Panicked
<1>5. Joined'
    BY DEF LoopInv, LoopTypeOK, Joined, Closing, Applied, Running, Finished
<1> QED BY <1>1, <1>2, <1>3, <1>4, <1>5 DEF LoopInv

LEMMA JoinLoopInv == Workers # {} /\ LoopInv /\ Join => LoopInv'
<1> SUFFICES ASSUME Workers # {}, LoopInv, Join PROVE LoopInv'
    OBVIOUS
<1> USE SendReceiveAssumption DEF Join, items, counts
<1>1. LoopTypeOK'
    BY DEF LoopInv, LoopTypeOK
<1>2. OnePlace'
    BY DEF LoopInv, LoopTypeOK, OnePlace, Applied
<1>3. SomePlace'
    BY DEF LoopInv, LoopTypeOK, SomePlace, Applied, Excused, Panicked
<1>4. Closing'
    BY DEF LoopInv, LoopTypeOK, Closing, Excused, Panicked
<1>5. Joined'
    BY DEF LoopInv, LoopTypeOK, Joined, Closing, Applied, Running, Finished
<1> QED BY <1>1, <1>2, <1>3, <1>4, <1>5 DEF LoopInv

LEMMA FailLoopInv == Workers # {} /\ LoopInv /\ Fail => LoopInv'
<1> SUFFICES ASSUME Workers # {}, LoopInv, Fail PROVE LoopInv'
    OBVIOUS
<1> USE SendReceiveAssumption DEF Fail, items, counts
<1>1. LoopTypeOK'
    BY DEF LoopInv, LoopTypeOK
<1>2. OnePlace'
    BY DEF LoopInv, LoopTypeOK, OnePlace, Applied
<1>3. SomePlace'
    BY DEF LoopInv, LoopTypeOK, SomePlace, Applied, Excused, Panicked
<1>4. Closing'
    BY DEF LoopInv, LoopTypeOK, Closing, Excused, Panicked
<1>5. Joined'
    BY DEF LoopInv, LoopTypeOK, Joined, Closing, Applied, Running, Finished
<1> QED BY <1>1, <1>2, <1>3, <1>4, <1>5 DEF LoopInv

LEMMA InterruptLoopInv == Workers # {} /\ LoopInv /\ Interrupt => LoopInv'
<1> SUFFICES ASSUME Workers # {}, LoopInv, Interrupt PROVE LoopInv'
    OBVIOUS
<1> USE SendReceiveAssumption DEF Interrupt, items, counts
<1>1. LoopTypeOK'
    BY DEF LoopInv, LoopTypeOK
<1>2. OnePlace'
    BY DEF LoopInv, LoopTypeOK, OnePlace, Applied
<1>3. SomePlace'
    BY DEF LoopInv, LoopTypeOK, SomePlace, Applied, Excused, Panicked
<1>4. Closing'
    BY DEF LoopInv, LoopTypeOK, Closing, Excused, Panicked
<1>5. Joined'
    BY DEF LoopInv, LoopTypeOK, Joined, Closing, Applied, Running, Finished
<1> QED BY <1>1, <1>2, <1>3, <1>4, <1>5 DEF LoopInv

LEMMA TakeLoopInv ==
    ASSUME LoopInv, NEW w \in Workers, Take(w)
    PROVE  LoopInv'
<1> USE SendReceiveAssumption DEF Take, items, counts
<1>1. LoopTypeOK'
    BY DEF LoopInv, LoopTypeOK, Closing
<1>2. OnePlace'
    BY DEF LoopInv, LoopTypeOK, OnePlace, Closing, Applied
<1>3. SomePlace'
    BY DEF LoopInv, LoopTypeOK, OnePlace, SomePlace, Closing, Applied, Excused, Panicked
<1>4. Closing'
    BY DEF LoopInv, LoopTypeOK, Closing, Excused, Panicked
<1>5. Joined'
    BY DEF LoopInv, LoopTypeOK, Joined, Applied, Running, Finished
<1> QED BY <1>1, <1>2, <1>3, <1>4, <1>5 DEF LoopInv

LEMMA LeaveLoopInv ==
    ASSUME LoopInv, NEW w \in Workers, Leave(w)
    PROVE  LoopInv'
<1> USE SendReceiveAssumption DEF Leave, items, counts
<1>1. LoopTypeOK'
    BY DEF LoopInv, LoopTypeOK, Closing
<1>2. OnePlace'
    BY DEF LoopInv, LoopTypeOK, OnePlace, Closing, Applied
<1>3. SomePlace'
    BY DEF LoopInv, LoopTypeOK, OnePlace, SomePlace, Closing, Applied, Excused, Panicked
<1>4. Closing'
    BY DEF LoopInv, LoopTypeOK, Closing, Excused, Panicked
<1>5. Joined'
    BY DEF LoopInv, LoopTypeOK, Joined, Applied, Running, Finished
<1> QED BY <1>1, <1>2, <1>3, <1>4, <1>5 DEF LoopInv

LEMMA AnswerLoopInv ==
    ASSUME LoopInv, NEW w \in Workers, Answer(w)
    PROVE  LoopInv'
<1> USE SendReceiveAssumption DEF Answer, Room, items, counts
<1>1. LoopTypeOK'
    BY DEF LoopInv, LoopTypeOK, Closing
<1>2. OnePlace'
    BY DEF LoopInv, LoopTypeOK, OnePlace, Closing, Applied
<1>3. SomePlace'
    BY DEF LoopInv, LoopTypeOK, OnePlace, SomePlace, Closing, Applied, Excused, Panicked
<1>4. Closing'
    BY DEF LoopInv, LoopTypeOK, Closing, Excused, Panicked
<1>5. Joined'
    BY DEF LoopInv, LoopTypeOK, Joined, Applied, Running, Finished
<1> QED BY <1>1, <1>2, <1>3, <1>4, <1>5 DEF LoopInv

LEMMA AbortLoopInv ==
    ASSUME LoopInv, NEW w \in Workers, Abort(w)
    PROVE  LoopInv'
<1> USE SendReceiveAssumption DEF Abort, items, counts
<1>1. LoopTypeOK'
    BY DEF LoopInv, LoopTypeOK, Closing
<1>2. OnePlace'
    BY DEF LoopInv, LoopTypeOK, OnePlace, Closing, Applied
<1>3. SomePlace'
    BY DEF LoopInv, LoopTypeOK, OnePlace, SomePlace, Closing, Applied, Excused, Panicked
<1>4. Closing'
    BY DEF LoopInv, LoopTypeOK, Closing, Excused, Panicked
<1>5. Joined'
    BY DEF LoopInv, LoopTypeOK, Joined, Applied, Running, Finished
<1> QED BY <1>1, <1>2, <1>3, <1>4, <1>5 DEF LoopInv

LEMMA MarkLoopInv ==
    ASSUME LoopInv, NEW w \in Workers, Mark(w)
    PROVE  LoopInv'
<1> USE SendReceiveAssumption DEF Mark, Room, items, counts
<1>1. LoopTypeOK'
    BY DEF LoopInv, LoopTypeOK, Closing
<1>2. OnePlace'
    BY DEF LoopInv, LoopTypeOK, OnePlace, Closing, Applied
<1>3. SomePlace'
    BY DEF LoopInv, LoopTypeOK, OnePlace, SomePlace, Closing, Applied, Excused, Panicked
<1>4. Closing'
    BY DEF LoopInv, LoopTypeOK, Closing, Excused, Panicked
<1>5. Joined'
    BY DEF LoopInv, LoopTypeOK, Joined, Applied, Running, Finished
<1> QED BY <1>1, <1>2, <1>3, <1>4, <1>5 DEF LoopInv

LEMMA EndLoopInv ==
    ASSUME LoopInv, NEW w \in Workers, End(w)
    PROVE  LoopInv'
<1> USE SendReceiveAssumption DEF End, items, counts
<1>1. LoopTypeOK'
    BY DEF LoopInv, LoopTypeOK, Closing
<1>2. OnePlace'
    BY DEF LoopInv, LoopTypeOK, OnePlace, Closing, Applied
<1>3. SomePlace'
    BY DEF LoopInv, LoopTypeOK, OnePlace, SomePlace, Closing, Applied, Excused, Panicked
<1>4. Closing'
    BY DEF LoopInv, LoopTypeOK, Closing, Excused, Panicked
<1>5. Joined'
    BY DEF LoopInv, LoopTypeOK, Joined, Applied, Running, Finished
<1> QED BY <1>1, <1>2, <1>3, <1>4, <1>5 DEF LoopInv

LEMMA PanicLoopInv ==
    ASSUME LoopInv, NEW w \in Workers, Panic(w)
    PROVE  LoopInv'
<1> USE SendReceiveAssumption DEF Panic, items, counts
<1>1. LoopTypeOK'
    BY DEF LoopInv, LoopTypeOK, Closing
<1>2. OnePlace'
    BY DEF LoopInv, LoopTypeOK, OnePlace, Closing, Applied
<1>3. SomePlace'
    BY DEF LoopInv, LoopTypeOK, OnePlace, SomePlace, Closing, Applied, Excused, Panicked
<1>4. Closing'
    BY DEF LoopInv, LoopTypeOK, Closing, Excused, Panicked
<1>5. Joined'
    BY DEF LoopInv, LoopTypeOK, Joined, Applied, Running, Finished
<1> QED BY <1>1, <1>2, <1>3, <1>4, <1>5 DEF LoopInv

LEMMA NextLoopInv == Workers # {} /\ LoopInv /\ [LoopNext]_loopVars => LoopInv'
<1> SUFFICES ASSUME Workers # {}, LoopInv, [LoopNext]_loopVars PROVE LoopInv'
    OBVIOUS
<1>1. CASE Driver
    BY <1>1, TopLoopInv, ReceiveLoopInv, DrainedLoopInv, PullLoopInv, SendLoopInv,
       SendEndLoopInv, CheckLoopInv, JoinLoopInv DEF Driver
<1>2. CASE Fail \/ Interrupt
    BY <1>2, FailLoopInv, InterruptLoopInv
<1>3. ASSUME NEW w \in Workers, Worker(w) \/ Panic(w) PROVE LoopInv'
    BY <1>3, TakeLoopInv, LeaveLoopInv, AnswerLoopInv, AbortLoopInv, MarkLoopInv, EndLoopInv,
       PanicLoopInv DEF Worker
<1>4. CASE UNCHANGED loopVars
    BY <1>4 DEF loopVars, items, counts, LoopInv, LoopTypeOK, OnePlace, SomePlace, Closing,
                Joined, Applied, Excused, Panicked, Running, Finished
<1> QED BY <1>1, <1>2, <1>3, <1>4 DEF LoopNext

\* The inductive invariant holds in every reachable state: what is where, what
\* the driver knows when it closes the channel, what it has joined and counted.
THEOREM LoopInvariance == Workers # {} => (LoopSpec => []LoopInv)
<1> SUFFICES ASSUME Workers # {} PROVE LoopSpec => []LoopInv
    OBVIOUS
<1>1. LoopInv /\ [LoopNext]_loopVars => LoopInv'
    BY NextLoopInv
<1> QED BY <1>1, InitLoopInv, PTL DEF LoopSpec

\* Every variable of the loop stays in its type.
THEOREM LoopTypeCorrect == Workers # {} => (LoopSpec => []LoopTypeOK)
<1> SUFFICES ASSUME Workers # {} PROVE LoopSpec => []LoopTypeOK
    OBVIOUS
<1>1. LoopInv => LoopTypeOK
    BY DEF LoopInv
<1> QED BY <1>1, LoopInvariance, PTL

\* A loop that nobody has excused has an item nowhere but among those committed
\* when it has joined its threads and drained their channel.
LEMMA AllApplied ==
    ASSUME Workers # {}, LoopInv, ~Excused, stage = "join", out = {}, pendingOut = {}
    PROVE  Applied = Tasks
<1>1. ~Running /\ feedClosed /\ unpulled = {} /\ feed = {}
    BY DEF LoopInv, Joined, Closing
<1>2. \A w \in Workers : thread[w] = "ended" /\ hand[w] = None
    BY <1>1 DEF LoopInv, Closing, Running, Finished, Excused, Panicked
<1>3. work = {}
    BY <1>2 DEF LoopInv, Closing
<1>4. \A i \in Tasks : i \in Applied
    BY <1>1, <1>2, <1>3, SendReceiveAssumption DEF LoopInv, SomePlace
<1> QED BY <1>4 DEF Applied

\* common.rs:308-309: an unexcused loop returns with every item committed,
\* whatever the sizes of channels and chunks and however many workers there are.
THEOREM NothingIsLost == Workers # {} => (LoopSpec => []NothingLost)
<1> SUFFICES ASSUME Workers # {} PROVE LoopSpec => []NothingLost
    OBVIOUS
<1>1. LoopInv => NothingLost
    BY AllApplied DEF NothingLost, LoopInv, Joined
<1> QED BY <1>1, LoopInvariance, PTL

\* common.rs:209-213: no queued outcome is dropped, and the number returned is
\* the number committed, after any signal and any panic.
THEOREM AnswersAreCommitted == Workers # {} => (LoopSpec => []AnswersCommitted)
<1> SUFFICES ASSUME Workers # {} PROVE LoopSpec => []AnswersCommitted
    OBVIOUS
<1>1. LoopInv => AnswersCommitted
    BY DEF AnswersCommitted, LoopInv, Joined
<1> QED BY <1>1, LoopInvariance, PTL

(***************************************************************************)
(* The loop implements WorkPool: a drain that commits is Commit, the check *)
(* that returns is Return, a signal, an error and a panic are Excuse, and  *)
(* no other step is seen.                                                  *)
(***************************************************************************)
pooled == <<commits, Excused, at = "returned">>

LEMMA InitPool == LoopInit => Pool!Init
BY DEF LoopInit, Pool!Init, Excused, Panicked

LEMMA DrainedPool == LoopInv /\ Drained => Pool!Commit \/ UNCHANGED pooled
<1> SUFFICES ASSUME LoopInv, Drained PROVE Pool!Commit \/ UNCHANGED pooled
    OBVIOUS
<1>1. at # "returned" /\ at' # "returned"
    BY DEF Drained
<1>2. Excused' = Excused
    BY DEF Drained, Excused, Panicked
<1>3. CASE Full \/ Override
    <2>1. pendingOut \subseteq {i \in Tasks : commits[i] = 0}
        BY DEF LoopInv, LoopTypeOK, OnePlace, Applied
    <2>2. commits' = [i \in Tasks |-> IF i \in pendingOut THEN commits[i] + 1 ELSE commits[i]]
        BY <1>3 DEF Drained
    <2> QED BY <1>1, <1>2, <2>1, <2>2 DEF Pool!Commit
<1>4. CASE ~(Full \/ Override)
    BY <1>1, <1>2, <1>4 DEF Drained, pooled
<1> QED BY <1>3, <1>4

LEMMA CheckPool == Workers # {} /\ LoopInv /\ Check => Pool!Return \/ UNCHANGED pooled
<1> SUFFICES ASSUME Workers # {}, LoopInv, Check PROVE Pool!Return \/ UNCHANGED pooled
    OBVIOUS
<1>1. UNCHANGED commits /\ Excused' = Excused /\ at = "check"
    BY DEF Check, CloseFeed, items, Excused, Panicked
<1>2. CASE at' = "returned"
    <2>1. stage = "join" /\ out = {} /\ pendingOut = {}
        BY <1>2 DEF Check, CloseFeed, LoopInv, Joined
    <2>2. Excused \/ \A i \in Tasks : commits[i] = 1
        BY <2>1, AllApplied DEF LoopInv, LoopTypeOK, OnePlace, Applied
    <2> QED BY <1>1, <1>2, <2>2 DEF Pool!Return
<1>3. CASE at' # "returned"
    BY <1>1, <1>3 DEF pooled
<1> QED BY <1>2, <1>3

LEMMA ExcusePool ==
    ASSUME UNCHANGED commits, at # "returned" <=> at' # "returned", Excused => Excused'
    PROVE  Pool!Excuse \/ UNCHANGED pooled
BY DEF Pool!Excuse, pooled, Excused

LEMMA DriverPool == Workers # {} /\ LoopInv /\ Driver => Pool!Next \/ UNCHANGED pooled
<1> SUFFICES ASSUME Workers # {}, LoopInv, Driver PROVE Pool!Next \/ UNCHANGED pooled
    OBVIOUS
<1>1. CASE Drained
    BY <1>1, DrainedPool DEF Pool!Next
<1>2. CASE Check
    BY <1>2, CheckPool DEF Pool!Next
<1>3. CASE Top \/ Receive \/ Pull \/ Send \/ SendEnd \/ Join
    <2>1. UNCHANGED <<commits, thread, stop>> /\ at \notin {"returned", "failed"}
          /\ at' \notin {"returned", "failed"}
        BY <1>3 DEF Top, CloseFeed, Receive, Pull, Send, SendEnd, Join, items
    <2> QED BY <2>1 DEF pooled, Excused, Panicked
<1> QED BY <1>1, <1>2, <1>3 DEF Driver

LEMMA NextPool == Workers # {} /\ LoopInv /\ [LoopNext]_loopVars => Pool!Next \/ UNCHANGED pooled
<1> SUFFICES ASSUME Workers # {}, LoopInv, [LoopNext]_loopVars PROVE Pool!Next \/ UNCHANGED pooled
    OBVIOUS
<1>1. CASE Driver
    BY <1>1, DriverPool
<1>2. CASE Fail \/ Interrupt
    <2>1. UNCHANGED commits /\ (at # "returned" <=> at' # "returned") /\ (Excused => Excused')
        BY <1>2 DEF Fail, Interrupt, items, Excused, Panicked
    <2> QED BY <2>1, ExcusePool DEF Pool!Next
<1>3. ASSUME NEW w \in Workers, Worker(w) \/ Panic(w)
      PROVE  Pool!Next \/ UNCHANGED pooled
    <2>1. UNCHANGED <<commits, at, stop>>
        BY <1>3 DEF Worker, Take, Leave, Answer, Abort, Mark, End, Panic, items
    <2>2. \A v \in Workers : thread[v] = "panicked" => thread'[v] = "panicked"
        BY <1>3 DEF Worker, Take, Leave, Answer, Abort, Mark, End, Panic, LoopInv, LoopTypeOK
    <2>3. Excused => Excused'
        BY <2>1, <2>2 DEF Excused, Panicked
    <2> QED BY <2>1, <2>3, ExcusePool DEF Pool!Next
<1>4. CASE UNCHANGED loopVars
    BY <1>4 DEF loopVars, items, pooled, Excused, Panicked
<1> QED BY <1>1, <1>2, <1>3, <1>4 DEF LoopNext

\* The loop keeps the promise of WorkPool: nothing is committed twice, and it
\* returns when everything is committed or somebody has excused it.
THEOREM ImplementsPool == Workers # {} => (LoopSpec => KeepsPromise)
<1> SUFFICES ASSUME Workers # {} PROVE LoopSpec => KeepsPromise
    OBVIOUS
<1>1. LoopSpec => []LoopInv
    BY LoopInvariance
<1>2. LoopInv /\ [LoopNext]_loopVars => [Pool!Next]_Pool!vars
    BY NextPool DEF Pool!vars, pooled
<1> QED BY <1>1, <1>2, InitPool, PTL DEF LoopSpec, KeepsPromise, Pool!Spec

-----------------------------------------------------------------------------
(* The archive file: sequences of tokens.                                  *)

LEMMA IsSequence ==
    ASSUME NEW S, NEW f \in Seq(S)
    PROVE  Sequence(f)
<1>1. DOMAIN f = 1 .. Len(f) /\ Len(f) \in Nat
    BY LenProperties
<1>2. f \in [1 .. Len(f) -> {f[i] : i \in DOMAIN f}]
    BY <1>1
<1> QED BY <1>1, <1>2 DEF Sequence

LEMMA SequenceShape ==
    ASSUME NEW f, Sequence(f)
    PROVE  DOMAIN f = 1 .. Len(f) /\ Len(f) \in Nat
BY LenProperties DEF Sequence

\* Two sequences are sequences over one set.
LEMMA CommonSet ==
    ASSUME NEW f, NEW g, Sequence(f), Sequence(g)
    PROVE  \E S : f \in Seq(S) /\ g \in Seq(S)
<1> DEFINE F == {f[i] : i \in DOMAIN f}
           G == {g[i] : i \in DOMAIN g}
<1> HIDE DEF F, G
<1>1. f \in Seq(F) /\ g \in Seq(G)
    BY DEF Sequence, F, G
<1>2. f \in Seq(F \cup G) /\ g \in Seq(F \cup G)
    BY <1>1, SeqMonotonic
<1> QED BY <1>2

LEMMA SequenceConcat ==
    ASSUME NEW f, NEW g, Sequence(f), Sequence(g)
    PROVE  /\ Sequence(f \o g) /\ Len(f \o g) = Len(f) + Len(g)
           /\ \A i \in 1 .. Len(f) + Len(g) :
                  (f \o g)[i] = IF i <= Len(f) THEN f[i] ELSE g[i - Len(f)]
<1>1. PICK S : f \in Seq(S) /\ g \in Seq(S)
    BY CommonSet
<1>2. /\ f \o g \in Seq(S) /\ Len(f \o g) = Len(f) + Len(g)
      /\ \A i \in 1 .. Len(f) + Len(g) :
             (f \o g)[i] = IF i <= Len(f) THEN f[i] ELSE g[i - Len(f)]
    BY <1>1, ConcatProperties
<1> QED BY <1>2, IsSequence

LEMMA SequenceAppend ==
    ASSUME NEW f, NEW t, Sequence(f)
    PROVE  /\ Sequence(Append(f, t)) /\ Len(Append(f, t)) = Len(f) + 1
           /\ \A i \in 1 .. Len(f) : Append(f, t)[i] = f[i]
           /\ Append(f, t)[Len(f) + 1] = t /\ Append(f, t) = f \o <<t>>
<1> DEFINE S == {f[i] : i \in DOMAIN f}
<1> HIDE DEF S
<1>1. f \in Seq(S) /\ f \in Seq(S \cup {t}) /\ t \in S \cup {t}
    BY SeqMonotonic DEF Sequence, S
<1>2. Append(f, t) \in Seq(S \cup {t})
    BY <1>1, AppendProperties
<1>3. Append(f, t) = f \o <<t>>
    BY <1>1, AppendIsConcat
<1>4. /\ Len(Append(f, t)) = Len(f) + 1
      /\ \A i \in 1 .. Len(f) : Append(f, t)[i] = f[i]
      /\ Append(f, t)[Len(f) + 1] = t
    BY <1>1, AppendProperties
<1> QED BY <1>2, <1>3, <1>4, IsSequence

LEMMA SequenceCut ==
    ASSUME NEW f, Sequence(f), NEW m \in Nat \ {0}, NEW n \in Nat, n <= Len(f)
    PROVE  /\ Sequence(SubSeq(f, m, n))
           /\ Len(SubSeq(f, m, n)) = IF m <= n THEN n - m + 1 ELSE 0
           /\ \A i \in 1 .. n - m + 1 : SubSeq(f, m, n)[i] = f[m + i - 1]
<1> DEFINE S == {f[i] : i \in DOMAIN f}
<1>1. \A i \in m .. n : f[i] \in S
    BY SequenceShape
<1> HIDE DEF S
<1>2. m \in Int /\ n \in Int
    OBVIOUS
<1>3. /\ SubSeq(f, m, n) \in Seq(S)
      /\ Len(SubSeq(f, m, n)) = IF m <= n THEN n - m + 1 ELSE 0
      /\ \A i \in 1 .. n - m + 1 : SubSeq(f, m, n)[i] = f[m + i - 1]
    BY <1>1, <1>2, SubSeqProperties
<1> QED BY <1>3, IsSequence

LEMMA Prefix ==
    ASSUME NEW f, Sequence(f), NEW n \in Nat, n <= Len(f)
    PROVE  /\ Sequence(SubSeq(f, 1, n)) /\ Len(SubSeq(f, 1, n)) = n
           /\ \A i \in 1 .. n : SubSeq(f, 1, n)[i] = f[i]
BY SequenceCut

LEMMA SequenceEqual ==
    ASSUME NEW f, NEW g, Sequence(f), Sequence(g), Len(f) = Len(g),
           \A i \in 1 .. Len(f) : f[i] = g[i]
    PROVE  f = g
<1>1. PICK S : f \in Seq(S) /\ g \in Seq(S)
    BY CommonSet
<1> QED BY <1>1, SeqEqual

LEMMA OneOf ==
    ASSUME NEW f, Sequence(f), NEW k \in 1 .. Len(f)
    PROVE  SubSeq(f, k, k) = <<f[k]>>
<1>1. k \in Nat \ {0} /\ k \in Nat /\ k <= Len(f) /\ k - k + 1 = 1 /\ k + 1 - 1 = k
    BY SequenceShape
<1>2. /\ Sequence(SubSeq(f, k, k)) /\ Len(SubSeq(f, k, k)) = IF k <= k THEN k - k + 1 ELSE 0
      /\ \A i \in 1 .. k - k + 1 : SubSeq(f, k, k)[i] = f[k + i - 1]
    BY <1>1, SequenceCut
<1>3. Len(SubSeq(f, k, k)) = 1 /\ SubSeq(f, k, k)[1] = f[k]
    BY <1>1, <1>2
<1>4. <<f[k]>> \in Seq({f[k]}) /\ Len(<<f[k]>>) = 1 /\ <<f[k]>>[1] = f[k]
    OBVIOUS
<1>5. Sequence(<<f[k]>>)
    BY <1>4, IsSequence
<1>6. \A i \in 1 .. Len(SubSeq(f, k, k)) : SubSeq(f, k, k)[i] = <<f[k]>>[i]
    BY <1>3, <1>4
<1> QED BY <1>2, <1>3, <1>4, <1>5, <1>6, SequenceEqual

-----------------------------------------------------------------------------
(* The blocks of a sequence of tokens.                                     *)

BlocksTo(f) ==
    CHOOSE to : to = [n \in 0 .. Len(f) |->
        IF n = 0 THEN <<>> ELSE IF f[n].kind = "block" THEN Append(to[n - 1], f[n].of)
        ELSE to[n - 1]]
Counts(f, to) == to = [n \in 0 .. Len(f) |->
        IF n = 0 THEN <<>> ELSE IF f[n].kind = "block" THEN Append(to[n - 1], f[n].of)
        ELSE to[n - 1]]

LEMMA BlocksOf ==
    ASSUME NEW f
    PROVE  Blocks(f) = BlocksTo(f)[Len(f)]
BY DEF Blocks, BlocksTo

LEMMA BlocksToCounts ==
    ASSUME NEW f, NEW to, Counts(f, to)
    PROVE  Counts(f, BlocksTo(f))
BY DEF Counts, BlocksTo

LEMMA Smallest ==
    ASSUME NEW T \in SUBSET Nat, T # {}
    PROVE  \E n \in T : \A m \in T : n <= m
<1> DEFINE R == {ss \in Nat \X Nat : ss[1] < ss[2]}
<1>1. IsWellFoundedOn(R, Nat)
    BY NatLessThanWellFounded, Zenon DEF OpToRel
<1> HIDE DEF R
<1>2. PICK n \in T : \A m \in T : ~ (<<m, n>> \in R)
    BY <1>1, WFMin, Zenon
<1>3. \A m \in T : ~ (m < n)
    BY <1>2 DEF R
<1> QED BY <1>3

\* A set of numbers that holds 0 and, with a number, the next one.
LEMMA Climb ==
    ASSUME NEW n \in Nat, NEW T, 0 \in T, \A m \in 0 .. n - 1 : m \in T => m + 1 \in T
    PROVE  \A m \in 0 .. n : m \in T
<1> DEFINE U == (0 .. n) \ T
<1> SUFFICES ASSUME U # {} PROVE FALSE
    OBVIOUS
<1>1. U \in SUBSET Nat
    OBVIOUS
<1>2. PICK k \in U : \A m \in U : k <= m
    BY <1>1, Smallest
<1>3. k \in 0 .. n /\ k \notin T /\ k # 0 /\ k - 1 \in 0 .. n - 1
    OBVIOUS
<1>4. k - 1 \in T
    BY <1>2, <1>3
<1> QED BY <1>3, <1>4

\* There is a count of every sequence.
LEMMA CountsExists ==
    ASSUME NEW f, Sequence(f)
    PROVE  Counts(f, BlocksTo(f))
<1> DEFINE Has(n) == \E to : Counts(SubSeq(f, 1, n), to)
           T == {n \in 0 .. Len(f) : Has(n)}
<1>0. Len(f) \in Nat
    BY SequenceShape
<1>1. Has(0)
    <2>1. SubSeq(f, 1, 0) = <<>>
        BY SubSeqEmpty
    <2>2. Counts(SubSeq(f, 1, 0), [m \in 0 .. 0 |-> <<>>])
        BY <2>1 DEF Counts
    <2> QED BY <2>2
<1>2. ASSUME NEW m \in 0 .. Len(f) - 1, Has(m)
      PROVE  Has(m + 1)
    <2> DEFINE n == m + 1
    <2>0. /\ n \in 1 .. Len(f) /\ Len(SubSeq(f, 1, n)) = n
          /\ \A i \in 1 .. n : SubSeq(f, 1, n)[i] = f[i]
        BY <1>0, SequenceCut
    <2>1. PICK to : Counts(SubSeq(f, 1, m), to)
        BY <1>2
    <2>2. Len(SubSeq(f, 1, m)) = m /\ \A i \in 1 .. m : SubSeq(f, 1, m)[i] = f[i]
        BY <1>0, SequenceCut
    <2> DEFINE longer == [k \in 0 .. n |-> IF k < n THEN to[k]
                              ELSE IF f[n].kind = "block" THEN Append(to[n - 1], f[n].of)
                              ELSE to[n - 1]]
    <2>3. \A k \in 0 .. m : to[k] = IF k = 0 THEN <<>>
                            ELSE IF f[k].kind = "block" THEN Append(to[k - 1], f[k].of)
                            ELSE to[k - 1]
        <3>1. \A k \in 0 .. Len(SubSeq(f, 1, m)) : to[k] = IF k = 0 THEN <<>>
                  ELSE IF SubSeq(f, 1, m)[k].kind = "block"
                       THEN Append(to[k - 1], SubSeq(f, 1, m)[k].of)
                       ELSE to[k - 1]
            BY <2>1 DEF Counts
        <3> QED BY <1>0, <2>2, <3>1
    <2>4. Counts(SubSeq(f, 1, n), longer)
        BY <1>0, <2>0, <2>3 DEF Counts
    <2> QED BY <2>4
<1> HIDE DEF Has
<1>3. 0 \in T /\ \A m \in 0 .. Len(f) - 1 : m \in T => m + 1 \in T
    BY <1>0, <1>1, <1>2
<1> HIDE DEF T
<1>4. \A m \in 0 .. Len(f) : m \in T
    BY <1>0, <1>3, Climb, Zenon
<1>5. Has(Len(f))
    BY <1>0, <1>4 DEF T
<1>6. SubSeq(f, 1, Len(f)) = f
    BY SubSeqFull DEF Sequence
<1> QED BY <1>5, <1>6, BlocksToCounts DEF Has

LEMMA BlocksStep ==
    ASSUME NEW f, Sequence(f)
    PROVE  /\ BlocksTo(f)[0] = <<>>
           /\ \A n \in 1 .. Len(f) : BlocksTo(f)[n] =
                  IF f[n].kind = "block" THEN Append(BlocksTo(f)[n - 1], f[n].of)
                  ELSE BlocksTo(f)[n - 1]
<1>0. Len(f) \in Nat
    BY SequenceShape
<1> DEFINE to == BlocksTo(f)
<1> HIDE DEF to
<1>1. Counts(f, to)
    BY CountsExists DEF to
<1>2. \A n \in 0 .. Len(f) : to[n] = IF n = 0 THEN <<>>
          ELSE IF f[n].kind = "block" THEN Append(to[n - 1], f[n].of)
          ELSE to[n - 1]
    BY <1>1 DEF Counts
<1>3. 0 \in 0 .. Len(f) /\ \A n \in 1 .. Len(f) : n \in 0 .. Len(f) /\ n # 0
    BY <1>0
<1> QED BY <1>2, <1>3 DEF to

\* Where two sequences agree, so do the counts.
LEMMA BlocksAgree ==
    ASSUME NEW f, NEW g, Sequence(f), Sequence(g), NEW n \in Nat, n <= Len(f), n <= Len(g),
           \A i \in 1 .. n : f[i] = g[i]
    PROVE  BlocksTo(f)[n] = BlocksTo(g)[n]
<1> DEFINE T == {m \in 0 .. n : BlocksTo(f)[m] = BlocksTo(g)[m]}
<1>0. Len(f) \in Nat /\ Len(g) \in Nat
    BY SequenceShape
<1>1. 0 \in T
    BY BlocksStep
<1>2. ASSUME NEW m \in 0 .. n - 1, m \in T
      PROVE  m + 1 \in T
    <2>1. m + 1 \in 1 .. Len(f) /\ m + 1 \in 1 .. Len(g) /\ m + 1 - 1 = m /\ m + 1 \in 1 .. n
        BY <1>0
    <2>2. BlocksTo(f)[m + 1] = IF f[m + 1].kind = "block"
              THEN Append(BlocksTo(f)[m], f[m + 1].of) ELSE BlocksTo(f)[m]
        BY <2>1, BlocksStep
    <2>3. BlocksTo(g)[m + 1] = IF g[m + 1].kind = "block"
              THEN Append(BlocksTo(g)[m], g[m + 1].of) ELSE BlocksTo(g)[m]
        BY <2>1, BlocksStep
    <2> QED BY <1>2, <2>1, <2>2, <2>3
<1> HIDE DEF T
<1>3. \A m \in 0 .. n : m \in T
    BY <1>1, <1>2, Climb, Zenon
<1> QED BY <1>3 DEF T

LEMMA BlocksEmpty == Blocks(<<>>) = <<>>
<1>1. Sequence(<<>>) /\ Len(<<>>) = 0
    <2>1. <<>> \in Seq({})
        BY EmptySeq
    <2> QED BY <2>1, IsSequence
<1> QED BY <1>1, BlocksOf, BlocksStep

LEMMA BlocksAppend ==
    ASSUME NEW f, NEW t, Sequence(f)
    PROVE  Blocks(Append(f, t)) =
               IF t.kind = "block" THEN Append(Blocks(f), t.of) ELSE Blocks(f)
<1> DEFINE g == Append(f, t)
<1>0. Len(f) \in Nat
    BY SequenceShape
<1>1. /\ Sequence(g) /\ Len(g) = Len(f) + 1 /\ \A i \in 1 .. Len(f) : g[i] = f[i]
      /\ g[Len(f) + 1] = t
    BY SequenceAppend, ZenonT(30)
<1> HIDE DEF g
<1>2. BlocksTo(f)[Len(f)] = BlocksTo(g)[Len(f)]
    BY <1>0, <1>1, BlocksAgree
<1>3. Len(g) \in 1 .. Len(g) /\ Len(g) - 1 = Len(f)
    BY <1>0, <1>1
<1>4. BlocksTo(g)[Len(g)] = IF t.kind = "block" THEN Append(BlocksTo(g)[Len(f)], t.of)
                            ELSE BlocksTo(g)[Len(f)]
    BY <1>1, <1>3, BlocksStep
<1>5. Blocks(g) = IF t.kind = "block" THEN Append(Blocks(f), t.of) ELSE Blocks(f)
    BY <1>2, <1>4, BlocksOf
<1> QED BY <1>5 DEF g

\* The blocks of a sequence whose block tokens hold elements of B.
LEMMA BlocksTyped ==
    ASSUME NEW f, Sequence(f), NEW B,
           \A i \in 1 .. Len(f) : f[i].kind = "block" => f[i].of \in B
    PROVE  Blocks(f) \in Seq(B)
<1> DEFINE T == {m \in 0 .. Len(f) : BlocksTo(f)[m] \in Seq(B)}
<1>0. Len(f) \in Nat
    BY SequenceShape
<1>1. 0 \in T
    <2>1. BlocksTo(f)[0] = <<>> /\ <<>> \in Seq(B)
        BY BlocksStep, EmptySeq
    <2>2. BlocksTo(f)[0] \in Seq(B)
        BY <2>1, Zenon
    <2>3. 0 \in 0 .. Len(f)
        BY <1>0
    <2> QED BY <2>2, <2>3, Zenon
<1>2. ASSUME NEW m \in 0 .. Len(f) - 1, m \in T
      PROVE  m + 1 \in T
    <2>1. m + 1 \in 1 .. Len(f) /\ m + 1 - 1 = m
        BY <1>0
    <2>2. BlocksTo(f)[m + 1] = IF f[m + 1].kind = "block"
              THEN Append(BlocksTo(f)[m], f[m + 1].of) ELSE BlocksTo(f)[m]
        BY <2>1, BlocksStep
    <2>3. BlocksTo(f)[m] \in Seq(B)
        BY <1>2
    <2>4. BlocksTo(f)[m + 1] \in Seq(B)
        BY <2>1, <2>2, <2>3, AppendProperties
    <2> QED BY <1>0, <2>4
<1> HIDE DEF T
<1>3. \A m \in 0 .. Len(f) : m \in T
    BY <1>0, <1>1, <1>2, Climb, Zenon
<1> QED BY <1>0, <1>3, BlocksOf DEF T

LEMMA EncodedShape ==
    ASSUME NEW B, NEW s \in Seq(B)
    PROVE  /\ Sequence(Encoded(s)) /\ Len(Encoded(s)) = Len(s)
           /\ \A i \in 1 .. Len(s) : Encoded(s)[i] = Token("block", s[i])
<1> DEFINE C == {Token("block", b) : b \in B}
<1>1. Len(s) \in Nat /\ DOMAIN s = 1 .. Len(s) /\ \A i \in 1 .. Len(s) : s[i] \in B
    BY LenProperties
<1>2. Encoded(s) \in [1 .. Len(s) -> C]
    BY <1>1 DEF Encoded
<1> HIDE DEF C
<1>3. Encoded(s) \in Seq(C) /\ Len(Encoded(s)) = Len(s)
    BY <1>1, <1>2
<1>4. \A i \in 1 .. Len(s) : Encoded(s)[i] = Token("block", s[i])
    BY <1>1 DEF Encoded
<1> QED BY <1>3, <1>4, IsSequence

\* What is encoded behind a sequence is what it gains.
LEMMA BlocksEncoded ==
    ASSUME NEW B, NEW f, Sequence(f), NEW s \in Seq(B), Blocks(f) \in Seq(B)
    PROVE  Blocks(f \o Encoded(s)) = Blocks(f) \o s
<1> DEFINE g == f \o Encoded(s)
           T == {m \in 0 .. Len(s) : BlocksTo(g)[Len(f) + m] = Blocks(f) \o SubSeq(s, 1, m)}
<1>0. Len(f) \in Nat /\ Len(s) \in Nat /\ \A i \in 1 .. Len(s) : s[i] \in B
    BY SequenceShape, LenProperties
<1>1. /\ Sequence(g) /\ Len(g) = Len(f) + Len(s)
      /\ \A i \in 1 .. Len(f) : g[i] = f[i]
      /\ \A i \in 1 .. Len(s) : g[Len(f) + i] = Token("block", s[i])
    <2>1. /\ Sequence(Encoded(s)) /\ Len(Encoded(s)) = Len(s)
          /\ \A i \in 1 .. Len(s) : Encoded(s)[i] = Token("block", s[i])
        BY EncodedShape
    <2>2. /\ Sequence(g) /\ Len(g) = Len(f) + Len(s)
          /\ \A i \in 1 .. Len(f) + Len(s) :
                 g[i] = IF i <= Len(f) THEN f[i] ELSE Encoded(s)[i - Len(f)]
        BY <2>1, SequenceConcat
    <2> HIDE DEF g
    <2>3. \A i \in 1 .. Len(s) : Len(f) + i \in 1 .. Len(f) + Len(s) /\ ~(Len(f) + i <= Len(f))
                                 /\ Len(f) + i - Len(f) = i
        BY <1>0
    <2> QED BY <1>0, <2>1, <2>2, <2>3
<1> HIDE DEF g
<1>2. 0 \in T
    <2>1. BlocksTo(g)[Len(f)] = BlocksTo(f)[Len(f)]
        BY <1>0, <1>1, BlocksAgree
    <2>2. Blocks(f) \o SubSeq(s, 1, 0) = Blocks(f)
        BY SubSeqEmpty, ConcatEmptySeq
    <2>3. BlocksTo(g)[Len(f)] = Blocks(f)
        BY <2>1, BlocksOf, Zenon
    <2>4. Len(f) + 0 = Len(f) /\ 0 \in 0 .. Len(s)
        BY <1>0
    <2>5. BlocksTo(g)[Len(f) + 0] = Blocks(f) \o SubSeq(s, 1, 0)
        BY <2>2, <2>3, <2>4, Zenon
    <2> QED BY <2>4, <2>5, Zenon
<1>3. ASSUME NEW m \in 0 .. Len(s) - 1, m \in T
      PROVE  m + 1 \in T
    <2> DEFINE n == Len(f) + m + 1
               head == SubSeq(s, 1, m)
    <2>1. n \in 1 .. Len(g) /\ n - 1 = Len(f) + m /\ m + 1 \in 1 .. Len(s) /\ n = Len(f) + (m + 1)
        BY <1>0, <1>1
    <2>2. g[n] = Token("block", s[m + 1])
        BY <1>1, <2>1
    <2>3. BlocksTo(g)[n] = Append(BlocksTo(g)[Len(f) + m], s[m + 1])
        <3>1. g[n].kind = "block" /\ g[n].of = s[m + 1]
            BY <2>2 DEF Token
        <3> QED BY <1>1, <2>1, <3>1, BlocksStep
    <2>4. BlocksTo(g)[n] = Append(Blocks(f) \o head, s[m + 1])
        BY <1>3, <2>3
    <2>5. head \in Seq(B) /\ s[m + 1] \in B
        BY <1>0, <2>1, SubSeqProperties
    <2>6. SubSeq(s, 1, m + 1) = head \o <<s[m + 1]>>
        BY <1>0, <2>1, SubSeqRecursiveSecond
    <2> HIDE DEF head
    <2>7. Append(Blocks(f) \o head, s[m + 1]) = (Blocks(f) \o head) \o <<s[m + 1]>>
        BY <2>5, ConcatProperties, AppendIsConcat
    <2>8. <<s[m + 1]>> \in Seq(B)
        BY <2>5
    <2>9. (Blocks(f) \o head) \o <<s[m + 1]>> = Blocks(f) \o (head \o <<s[m + 1]>>)
        BY <2>5, <2>8, ConcatAssociative, SMTT(30)
    <2>10. BlocksTo(g)[Len(f) + (m + 1)] = Blocks(f) \o SubSeq(s, 1, m + 1)
        BY <2>1, <2>4, <2>6, <2>7, <2>9
    <2> QED BY <1>0, <2>10
<1> HIDE DEF T
<1>4. \A m \in 0 .. Len(s) : m \in T
    BY <1>0, <1>2, <1>3, Climb, Zenon
<1>5. SubSeq(s, 1, Len(s)) = s
    BY SubSeqFull
<1>6. BlocksTo(g)[Len(f) + Len(s)] = Blocks(f) \o SubSeq(s, 1, Len(s))
    BY <1>0, <1>4 DEF T
<1>7. Blocks(g) = BlocksTo(g)[Len(g)]
    BY BlocksOf
<1>8. Blocks(g) = Blocks(f) \o s
    BY <1>1, <1>5, <1>6, <1>7, Zenon
<1> QED BY <1>8 DEF g

-----------------------------------------------------------------------------
(* The footer and its readers.                                             *)

LEMMA TokenEqual ==
    ASSUME NEW k, NEW a, NEW l, NEW b
    PROVE  /\ Token(k, a).kind = k /\ Token(k, a).of = a
           /\ Token(k, a) = Token(l, b) <=> k = l /\ a = b
BY DEF Token

LEMMA FooterPieces ==
    ASSUME NEW f
    PROVE  /\ Footer(f) = <<Magic, Digest(f), Token("xz", <<>>), Digest(Catalogue), Magic,
                            Token("offset", <<Len(f)>>)>>
           /\ Sequence(Footer(f)) /\ Len(Footer(f)) = 6
<1> DEFINE a == <<Magic, Digest(f)>>
           b == <<Token("xz", <<>>)>>
           c == <<Digest(Catalogue), Magic, Token("offset", <<Len(f)>>)>>
           S == {Magic, Digest(f), Token("xz", <<>>), Digest(Catalogue), Token("offset", <<Len(f)>>)}
           all == <<Magic, Digest(f), Token("xz", <<>>), Digest(Catalogue), Magic,
                    Token("offset", <<Len(f)>>)>>
<1>1. a \in Seq(S) /\ b \in Seq(S) /\ c \in Seq(S) /\ all \in Seq(S)
    OBVIOUS
<1>2. Len(a) = 2 /\ Len(b) = 1 /\ Len(c) = 3 /\ Len(all) = 6
    OBVIOUS
<1>3. /\ a \o b \in Seq(S) /\ Len(a \o b) = 3
      /\ \A i \in 1 .. 3 : (a \o b)[i] = IF i <= 2 THEN a[i] ELSE b[i - 2]
    BY <1>1, <1>2, ConcatProperties
<1>4. /\ (a \o b) \o c \in Seq(S) /\ Len((a \o b) \o c) = 6
      /\ \A i \in 1 .. 6 : ((a \o b) \o c)[i] = IF i <= 3 THEN (a \o b)[i] ELSE c[i - 3]
    BY <1>1, <1>2, <1>3, ConcatProperties
<1>5. \A i \in 1 .. 6 : ((a \o b) \o c)[i] = all[i]
    BY <1>3, <1>4
<1>6. (a \o b) \o c = all
    BY <1>1, <1>2, <1>4, <1>5, SeqEqual
<1>7. Footer(f) = (a \o b) \o c
    BY DEF Footer, Catalogue
<1> QED BY <1>1, <1>2, <1>6, <1>7, IsSequence

\* No offset at the end, no footer.
LEMMA NotLocated ==
    ASSUME NEW f, Sequence(f), Unlocated(f)
    PROVE  LocateFooter(f) = NULL
<1>1. DOMAIN f = 1 .. Len(f) /\ Len(f) \in Nat
    BY SequenceShape
<1>2. ~(Len(f) < 5) => f[Len(f)].kind # "offset"
    BY <1>1 DEF Unlocated
<1> QED BY <1>1, <1>2 DEF LocateFooter, FooterFixedOverhead

LEMMA Located ==
    ASSUME NEW f, Sequence(f), Len(f) >= 6, NEW m \in Nat, f[Len(f)] = Token("offset", <<m>>)
    PROVE  LocateFooter(f) = IF f[Len(f) - 1] # Magic \/ m + 5 > Len(f) THEN NULL
                             ELSE IF f[m + 1] # Magic THEN Len(f) + 1 ELSE m
<1>1. Len(f) \in Nat
    BY SequenceShape
<1>2. f[Len(f)].kind = "offset" /\ f[Len(f)].of[1] = m
    BY DEF Token
<1> QED BY <1>1, <1>2 DEF LocateFooter, FooterFixedOverhead

\* The three readers of a footer agree.
LEMMA ReadersAgree ==
    ASSUME NEW f, Sequence(f)
    PROVE  LET v == VerifyFooter(f)
           IN  /\ (ReadFooter(f) = "installed") = (v \in {"Ok", "ContentMismatch"})
               /\ (ReadFooter(f) = "absent") = (v = "NoFooter")
               /\ (ArchiveIntegrity(f) = "true") = (v \in {"Ok", "DatabaseMismatch"})
               /\ (ExitCode(v) = 0) = (HasValidFooter(f) /\ ArchiveIntegrity(f) = "true")
<1>1. Len(f) \in Nat /\ NULL # Len(f) + 1
    BY SequenceShape, FramingAssumption
<1>2. CASE LocateFooter(f) = NULL
    BY <1>2 DEF VerifyFooter, ReadFooter, ArchiveIntegrity, ExitCode, HasValidFooter
<1>3. CASE LocateFooter(f) # NULL /\ Corrupt(f)
    BY <1>3 DEF VerifyFooter, ReadFooter, ArchiveIntegrity, ExitCode, HasValidFooter
<1>4. CASE LocateFooter(f) # NULL /\ ~Corrupt(f)
    BY <1>4 DEF VerifyFooter, ReadFooter, ArchiveIntegrity, ExitCode, HasValidFooter
<1> QED BY <1>2, <1>3, <1>4

\* The halves of a footer that is found.
LEMMA Halves ==
    ASSUME NEW f, Sequence(f), NEW m \in Nat, m <= Len(f), LocateFooter(f) = m
    PROVE  LET content == f[m + 2] = Digest(SubSeq(f, 1, m))
               database == f[Len(f) - 2] = Digest(SubSeq(f, m + 3, Len(f) - 3))
           IN  /\ FooterLayout(f).xz = SubSeq(f, m + 3, Len(f) - 3)
               /\ VerifyFooter(f) = "Ok" <=> content /\ database
               /\ VerifyFooter(f) \in {"ContentMismatch", "BothMismatch"} <=> ~content
               /\ VerifyFooter(f) \in {"DatabaseMismatch", "BothMismatch"} <=> ~database
               /\ ReadFooter(f) = "installed" <=> database
<1>1. Len(f) \in Nat /\ NULL # m /\ m # Len(f) + 1
    BY SequenceShape, FramingAssumption
<1>2. LocateFooter(f) # NULL /\ ~Corrupt(f)
    BY <1>1 DEF Corrupt
<1>3. /\ FooterLayout(f).content = SubSeq(f, 1, m) /\ FooterLayout(f).digest = f[m + 2]
      /\ FooterLayout(f).xz = SubSeq(f, m + 3, Len(f) - 3)
      /\ FooterLayout(f).xzDigest = f[Len(f) - 2]
    BY DEF FooterLayout
<1> QED BY <1>2, <1>3 DEF VerifyFooter, ReadFooter

\* A finished archive: where its footer is and what it holds.
LEMMA WholeShape ==
    ASSUME Sequence(whole), EndsIn(whole, 6)
    PROVE  \E n \in Nat :
               /\ Len(whole) = n + 6 /\ n = Len(whole) - 6
               /\ whole[n + 1] = Magic /\ whole[n + 2] = Digest(SubSeq(whole, 1, n))
               /\ whole[n + 3] = Token("xz", <<>>) /\ whole[n + 4] = Digest(Catalogue)
               /\ whole[n + 5] = Magic /\ whole[n + 6] = Token("offset", <<n>>)
<1> DEFINE n == Len(whole) - 6
           F == SubSeq(whole, 1, n)
<1>1. Len(whole) \in Nat /\ n \in Nat /\ \A i \in 1 .. 6 : whole[n + i] = Footer(F)[i]
    BY SequenceShape DEF EndsIn
<1>2. Len(F) = n /\ Sequence(F)
    <2>1. n <= Len(whole)
        BY <1>1
    <2> HIDE DEF n
    <2> QED BY <1>1, <2>1, Prefix
<1> HIDE DEF F
<1>3. Footer(F) = <<Magic, Digest(F), Token("xz", <<>>), Digest(Catalogue), Magic,
                    Token("offset", <<Len(F)>>)>>
    BY FooterPieces
<1>4. /\ Footer(F)[1] = Magic /\ Footer(F)[2] = Digest(F) /\ Footer(F)[3] = Token("xz", <<>>)
      /\ Footer(F)[4] = Digest(Catalogue) /\ Footer(F)[5] = Magic
      /\ Footer(F)[6] = Token("offset", <<n>>)
    BY <1>2, <1>3
<1> HIDE DEF n
<1>5. /\ whole[n + 1] = Magic /\ whole[n + 2] = Digest(F) /\ whole[n + 3] = Token("xz", <<>>)
      /\ whole[n + 4] = Digest(Catalogue) /\ whole[n + 5] = Magic
      /\ whole[n + 6] = Token("offset", <<n>>)
    BY <1>1, <1>4
<1>6. Len(whole) = n + 6 /\ n = Len(whole) - 6
    BY <1>1 DEF n
<1> QED BY <1>1, <1>5, <1>6 DEF F

\* The footer of a finished archive is found where it was written.
LEMMA WholeLocated ==
    ASSUME Sequence(whole), EndsIn(whole, 6)
    PROVE  LocateFooter(whole) = Len(whole) - 6
<1>1. PICK n \in Nat :
          /\ Len(whole) = n + 6 /\ n = Len(whole) - 6
          /\ whole[n + 1] = Magic /\ whole[n + 5] = Magic
          /\ whole[n + 6] = Token("offset", <<n>>)
    BY WholeShape
<1>2. LocateFooter(whole) = IF whole[Len(whole) - 1] # Magic \/ n + 5 > Len(whole) THEN NULL
                            ELSE IF whole[n + 1] # Magic THEN Len(whole) + 1 ELSE n
    BY <1>1, Located
<1>3. Len(whole) - 1 = n + 5 /\ ~(n + 5 > Len(whole))
    BY <1>1
<1> QED BY <1>1, <1>2, <1>3

\* What VerdictTells says of a finished archive that is at its length.
WornTells ==
    LET v == VerifyFooter(file)
        o == whole[Len(whole)].of[1]
        content == 1 .. o \cup {o + 2}
        database == o + 3 .. Len(whole) - 2
    IN  /\ (v = "Ok") = (file = whole)
        /\ Damaged \subseteq content \cup database =>
              /\ v \in {"ContentMismatch", "BothMismatch"} <=> Damaged \cap content # {}
              /\ v \in {"DatabaseMismatch", "BothMismatch"} <=> Damaged \cap database # {}
        /\ ReadFooter(file) = "installed" => FooterLayout(file).xz = FooterLayout(whole).xz

LEMMA WornVerdict ==
    ASSUME Sequence(file), Sequence(whole), EndsIn(whole, 6), Worn, Len(file) = Len(whole)
    PROVE  WornTells
<1>1. PICK n \in Nat :
          /\ Len(whole) = n + 6 /\ n = Len(whole) - 6
          /\ whole[n + 1] = Magic /\ whole[n + 2] = Digest(SubSeq(whole, 1, n))
          /\ whole[n + 3] = Token("xz", <<>>) /\ whole[n + 4] = Digest(Catalogue)
          /\ whole[n + 5] = Magic /\ whole[n + 6] = Token("offset", <<n>>)
    BY WholeShape
<1>2. Len(file) = n + 6 /\ DOMAIN file = 1 .. n + 6 /\ DOMAIN whole = 1 .. n + 6
    BY <1>1, SequenceShape
<1>3. \A i \in 1 .. n + 6 :
          \/ file[i] \in {whole[i], Junk}
          \/ i = n + 6 /\ \E k \in 0 .. n + 6 : file[i] = Token("offset", <<k>>)
    BY <1>1, <1>2 DEF Worn
<1>4. whole[Len(whole)].of[1] = n
    BY <1>1 DEF Token
<1>5. Damaged = {i \in 1 .. n + 6 : file[i] # whole[i]}
    BY <1>2 DEF Damaged
<1>6. file = whole <=> Damaged = {}
    BY <1>1, <1>2, <1>5, SequenceEqual
<1>7. LocateFooter(whole) = n
    BY <1>1, WholeLocated
<1>8. FooterLayout(whole).xz = SubSeq(whole, n + 3, n + 3)
    <2>1. n <= Len(whole) /\ Len(whole) - 3 = n + 3
        BY <1>1
    <2> QED BY <1>7, <2>1, Halves
<1>9. CASE ~\E k \in Nat : file[n + 6] = Token("offset", <<k>>)
    <2>1. n + 6 \in Damaged
        BY <1>1, <1>5, <1>9
    <2>2. file[n + 6] = Junk
        BY <1>3, <1>9, <1>1
    <2>3. LocateFooter(file) = NULL
        <3>1. file[Len(file)].kind # "offset"
            BY <1>2, <2>2 DEF Junk, Token
        <3> QED BY <1>2, <3>1 DEF LocateFooter
    <2>4. VerifyFooter(file) = "NoFooter" /\ ReadFooter(file) = "absent"
        BY <2>3 DEF VerifyFooter, ReadFooter
    <2>5. n + 6 \notin (1 .. n \cup {n + 2}) \cup n + 3 .. n + 4
        OBVIOUS
    <2> QED BY <1>1, <1>4, <1>6, <2>1, <2>4, <2>5 DEF WornTells
<1>10. CASE \E k \in Nat : file[n + 6] = Token("offset", <<k>>)
    <2>1. PICK k \in Nat : file[n + 6] = Token("offset", <<k>>)
        BY <1>10
    <2>2. LocateFooter(file) = IF file[n + 5] # Magic \/ k + 5 > n + 6 THEN NULL
                               ELSE IF file[k + 1] # Magic THEN n + 7 ELSE k
        <3>1. Len(file) >= 6 /\ Len(file) - 1 = n + 5 /\ Len(file) + 1 = n + 7
            BY <1>2
        <3> QED BY <1>2, <2>1, <3>1, Located
    <2>3. CASE file[n + 5] # Magic \/ k + 5 > n + 6 \/ file[k + 1] # Magic
        <3>1. VerifyFooter(file) \in {"NoFooter", "InvalidFooter"} /\ ReadFooter(file) # "installed"
            <4>1. LocateFooter(file) = NULL \/ LocateFooter(file) = Len(file) + 1
                <5>1. Len(file) + 1 = n + 7
                    BY <1>2
                <5> QED BY <2>2, <2>3, <5>1
            <4> QED BY <4>1 DEF VerifyFooter, ReadFooter, Corrupt
        <3>2. \E i \in {n + 1, n + 5, n + 6} : i \in Damaged
            <4>1. CASE file[n + 5] # Magic
                BY <1>1, <1>5, <4>1
            <4>2. CASE k # n
                <5>1. Token("offset", <<k>>) # Token("offset", <<n>>)
                    BY <4>2 DEF Token
                <5> QED BY <1>1, <1>5, <2>1, <5>1
            <4>3. CASE k = n /\ file[k + 1] # Magic
                BY <1>1, <1>5, <4>3
            <4> QED BY <2>3, <4>1, <4>2, <4>3
        <3>3. \A i \in {n + 1, n + 5, n + 6} : i \notin (1 .. n \cup {n + 2}) \cup n + 3 .. n + 4
            OBVIOUS
        <3> QED BY <1>1, <1>4, <1>6, <3>1, <3>2, <3>3 DEF WornTells
    <2>4. CASE ~(file[n + 5] # Magic \/ k + 5 > n + 6 \/ file[k + 1] # Magic)
        <3> DEFINE content == file[k + 2] = Digest(SubSeq(file, 1, k))
                   database == file[n + 4] = Digest(SubSeq(file, k + 3, n + 3))
        <3>1. LocateFooter(file) = k /\ k <= n + 1 /\ Len(file) - 2 = n + 4 /\ Len(file) - 3 = n + 3
            BY <1>2, <2>2, <2>4
        <3>2. /\ FooterLayout(file).xz = SubSeq(file, k + 3, n + 3)
              /\ VerifyFooter(file) = "Ok" <=> content /\ database
              /\ VerifyFooter(file) \in {"ContentMismatch", "BothMismatch"} <=> ~content
              /\ VerifyFooter(file) \in {"DatabaseMismatch", "BothMismatch"} <=> ~database
              /\ ReadFooter(file) = "installed" <=> database
            BY <1>2, <3>1, Halves
        <3> HIDE DEF content, database
        <3>3. file[n + 4] \in {Digest(Catalogue), Junk}
            BY <1>1, <1>3
        <3>4. \A s : Junk # Digest(s) /\ (Digest(Catalogue) = Digest(s) <=> s = Catalogue)
            BY DEF Junk, Digest, Token
        <3>5. CASE k # n
            <4>1. SubSeq(file, k + 3, n + 3) # Catalogue
                <5>1. Len(SubSeq(file, k + 3, n + 3)) = IF k + 3 <= n + 3 THEN n + 3 - (k + 3) + 1 ELSE 0
                    BY <1>2, SequenceCut
                <5>2. Len(SubSeq(file, k + 3, n + 3)) # 1
                    BY <3>5, <5>1
                <5> QED BY <5>2 DEF Catalogue
            <4>2. ~database
                BY <3>3, <3>4, <4>1 DEF database
            <4>3. n + 6 \in Damaged
                <5>1. Token("offset", <<k>>) # Token("offset", <<n>>)
                    BY <3>5 DEF Token
                <5> QED BY <1>1, <1>5, <2>1, <5>1
            <4>4. n + 6 \notin (1 .. n \cup {n + 2}) \cup n + 3 .. n + 4
                OBVIOUS
            <4> QED BY <1>1, <1>4, <1>6, <3>2, <4>2, <4>3, <4>4 DEF WornTells
        <3>6. CASE k = n
            <4>1. Damaged \subseteq (1 .. n \cup {n + 2}) \cup n + 3 .. n + 4
                BY <1>1, <1>5, <2>1, <2>4, <3>6
            <4>2. content <=> Damaged \cap (1 .. n \cup {n + 2}) = {}
                <5>1. file[n + 2] \in {whole[n + 2], Junk}
                    BY <1>3
                <5>2. /\ Sequence(SubSeq(file, 1, n)) /\ Len(SubSeq(file, 1, n)) = n
                      /\ \A i \in 1 .. n : SubSeq(file, 1, n)[i] = file[i]
                    BY <1>2, Prefix
                <5>3. /\ Sequence(SubSeq(whole, 1, n)) /\ Len(SubSeq(whole, 1, n)) = n
                      /\ \A i \in 1 .. n : SubSeq(whole, 1, n)[i] = whole[i]
                    BY <1>1, Prefix
                <5>4. SubSeq(file, 1, n) = SubSeq(whole, 1, n) <=> \A i \in 1 .. n : file[i] = whole[i]
                    BY <5>2, <5>3, SequenceEqual
                <5>5. content <=> file[n + 2] = whole[n + 2] /\ SubSeq(file, 1, n) = SubSeq(whole, 1, n)
                    <6>1. \A r, s : Digest(r) = Digest(s) <=> r = s
                        BY DEF Digest, Token
                    <6>2. \A s : Junk # Digest(s)
                        BY <3>4
                    <6> QED BY <1>1, <3>6, <5>1, <6>1, <6>2 DEF content
                <5> QED BY <1>5, <5>4, <5>5
            <4>3. database <=> Damaged \cap n + 3 .. n + 4 = {}
                <5>1. SubSeq(file, n + 3, n + 3) = <<file[n + 3]>>
                    BY <1>2, OneOf
                <5>2. SubSeq(file, n + 3, n + 3) = Catalogue <=> file[n + 3] = whole[n + 3]
                    BY <1>1, <5>1 DEF Catalogue
                <5>3. database <=> file[n + 4] = whole[n + 4] /\ file[n + 3] = whole[n + 3]
                    BY <1>1, <3>3, <3>4, <3>6, <5>2 DEF database
                <5>4. n + 3 .. n + 4 = {n + 3, n + 4}
                    OBVIOUS
                <5> QED BY <1>5, <5>3, <5>4
            <4>4. database => SubSeq(file, n + 3, n + 3) = SubSeq(whole, n + 3, n + 3)
                <5>1. SubSeq(whole, n + 3, n + 3) = Catalogue
                    <6>1. SubSeq(whole, n + 3, n + 3) = <<whole[n + 3]>>
                        BY <1>1, OneOf
                    <6> QED BY <1>1, <6>1 DEF Catalogue
                <5>2. database => SubSeq(file, n + 3, n + 3) = Catalogue
                    BY <3>3, <3>4, <3>6 DEF database
                <5> QED BY <5>1, <5>2
            <4>5. Damaged = {} <=> content /\ database
                BY <4>1, <4>2, <4>3
            <4>6. Len(whole) - 2 = n + 4
                BY <1>1
            <4> QED BY <1>4, <1>6, <1>8, <3>2, <3>6, <4>2, <4>3, <4>4, <4>5, <4>6 DEF WornTells
        <3> QED BY <3>5, <3>6
    <2> QED BY <2>3, <2>4
<1> QED BY <1>9, <1>10

\* VerdictTells follows from the invariant.
LEMMA FootersTell ==
    ASSUME Shapes, Footers
    PROVE  VerdictTells
<1>1. Sequence(file) /\ Sequence(whole)
    BY DEF Shapes, Tokens
<1>2. whole = <<>> => VerifyFooter(file) = "NoFooter"
    BY <1>1, NotLocated DEF Footers, VerifyFooter
<1>3. ASSUME pc = "kept"
      PROVE  LET v == VerifyFooter(file)
                 o == whole[Len(whole)].of[1]
                 content == 1 .. o \cup {o + 2}
                 database == o + 3 .. Len(whole) - 2
             IN  /\ (v = "Ok") = (file = whole)
                 /\ Len(file) < Len(whole) => v = "NoFooter"
                 /\ Len(file) = Len(whole) =>
                       /\ Damaged \subseteq content \cup database =>
                             /\ v \in {"ContentMismatch", "BothMismatch"} <=> Damaged \cap content # {}
                             /\ v \in {"DatabaseMismatch", "BothMismatch"} <=> Damaged \cap database # {}
                       /\ ReadFooter(file) = "installed" =>
                             FooterLayout(file).xz = FooterLayout(whole).xz
    <2>1. Worn /\ EndsIn(whole, 6)
        BY <1>3 DEF Footers
    <2>2. CASE Len(file) = Len(whole)
        <3>1. WornTells
            BY <1>1, <2>1, <2>2, WornVerdict
        <3>2. ~(Len(file) < Len(whole))
            BY <1>1, <2>2, SequenceShape
        <3> QED BY <3>1, <3>2 DEF WornTells
    <2>3. CASE Len(file) # Len(whole)
        <3>1. Unlocated(file)
            BY <2>1, <2>3 DEF Worn
        <3>2. VerifyFooter(file) = "NoFooter"
            BY <1>1, <3>1, NotLocated DEF VerifyFooter
        <3> QED BY <2>3, <3>2
    <2> QED BY <2>2, <2>3
<1>4. LET v == VerifyFooter(file)
      IN  /\ (ReadFooter(file) = "installed") = (v \in {"Ok", "ContentMismatch"})
          /\ (ReadFooter(file) = "absent") = (v = "NoFooter")
          /\ (ArchiveIntegrity(file) = "true") = (v \in {"Ok", "DatabaseMismatch"})
          /\ (ExitCode(v) = 0) = (HasValidFooter(file) /\ ArchiveIntegrity(file) = "true")
    BY <1>1, ReadersAgree
<1> QED BY <1>2, <1>3, <1>4 DEF VerdictTells

-----------------------------------------------------------------------------
(* What the actions do to the file.                                        *)

LEMMA TokensEncoded ==
    ASSUME NEW f, Tokens(f), NEW s \in Seq(Block)
    PROVE  LET g == f \o Encoded(s)
           IN  /\ Tokens(g) /\ Len(g) = Len(f) + Len(s) /\ \A i \in 1 .. Len(f) : g[i] = f[i]
               /\ Unlocated(f) => Unlocated(g)
<1> DEFINE g == f \o Encoded(s)
<1>0. Len(f) \in Nat /\ Len(s) \in Nat /\ DOMAIN f = 1 .. Len(f) /\ \A i \in 1 .. Len(s) : s[i] \in Block
    BY SequenceShape, LenProperties DEF Tokens
<1>1. /\ Sequence(Encoded(s)) /\ Len(Encoded(s)) = Len(s)
      /\ \A i \in 1 .. Len(s) : Encoded(s)[i] = Token("block", s[i])
    BY EncodedShape
<1>2. /\ Sequence(g) /\ Len(g) = Len(f) + Len(s)
      /\ \A i \in 1 .. Len(f) + Len(s) :
             g[i] = IF i <= Len(f) THEN f[i] ELSE Encoded(s)[i - Len(f)]
    BY <1>1, SequenceConcat DEF Tokens
<1> HIDE DEF g
<1>3. DOMAIN g = 1 .. Len(f) + Len(s)
    BY <1>2, SequenceShape
<1>4. \A i \in 1 .. Len(f) : g[i] = f[i]
    BY <1>0, <1>2
<1>5. \A i \in DOMAIN g : \/ i \in DOMAIN f /\ g[i] = f[i]
                          \/ \E b \in Block : g[i] = Token("block", b)
    <2> SUFFICES ASSUME NEW i \in DOMAIN g, i \notin DOMAIN f
                 PROVE  \E b \in Block : g[i] = Token("block", b)
        BY <1>0, <1>4
    <2>1. i - Len(f) \in 1 .. Len(s) /\ ~(i <= Len(f)) /\ i \in 1 .. Len(f) + Len(s)
        BY <1>0, <1>3
    <2>2. g[i] = Token("block", s[i - Len(f)])
        BY <1>1, <1>2, <2>1
    <2> QED BY <1>0, <2>1, <2>2
<1>6. Tokens(g)
    BY <1>2, <1>5 DEF Tokens, Token
<1>7. Unlocated(f) => Unlocated(g)
    BY <1>5 DEF Unlocated, Token
<1> QED BY <1>2, <1>4, <1>6, <1>7 DEF g

LEMMA TokensAppend ==
    ASSUME NEW f, Tokens(f), NEW t, t.kind # "block"
    PROVE  LET g == Append(f, t)
           IN  /\ Tokens(g) /\ Len(g) = Len(f) + 1 /\ \A i \in 1 .. Len(f) : g[i] = f[i]
               /\ g[Len(f) + 1] = t
               /\ Unlocated(f) /\ t.kind # "offset" => Unlocated(g)
<1> DEFINE g == Append(f, t)
<1>0. Len(f) \in Nat /\ DOMAIN f = 1 .. Len(f)
    BY SequenceShape DEF Tokens
<1>1. /\ Sequence(g) /\ Len(g) = Len(f) + 1 /\ \A i \in 1 .. Len(f) : g[i] = f[i]
      /\ g[Len(f) + 1] = t
    BY SequenceAppend, ZenonT(30) DEF Tokens
<1> HIDE DEF g
<1>2. DOMAIN g = 1 .. Len(f) + 1
    BY <1>1, SequenceShape
<1>3. \A i \in DOMAIN g : (i \in DOMAIN f /\ g[i] = f[i]) \/ g[i] = t
    BY <1>0, <1>1, <1>2
<1>4. Tokens(g)
    BY <1>1, <1>3 DEF Tokens
<1>5. Unlocated(f) /\ t.kind # "offset" => Unlocated(g)
    BY <1>3 DEF Unlocated
<1> QED BY <1>1, <1>4, <1>5 DEF g

LEMMA TokensPrefix ==
    ASSUME NEW f, Tokens(f), NEW n \in Nat, n <= Len(f)
    PROVE  LET g == SubSeq(f, 1, n)
           IN  /\ Tokens(g) /\ Len(g) = n /\ \A i \in 1 .. n : g[i] = f[i]
               /\ Unlocated(f) => Unlocated(g)
<1> DEFINE g == SubSeq(f, 1, n)
<1>0. Len(f) \in Nat /\ DOMAIN f = 1 .. Len(f)
    BY SequenceShape DEF Tokens
<1>1. Sequence(g) /\ Len(g) = n /\ \A i \in 1 .. n : g[i] = f[i]
    BY Prefix DEF Tokens
<1> HIDE DEF g
<1>2. DOMAIN g = 1 .. n /\ \A i \in DOMAIN g : i \in DOMAIN f /\ g[i] = f[i]
    BY <1>0, <1>1, SequenceShape
<1>3. Tokens(g) /\ (Unlocated(f) => Unlocated(g))
    BY <1>1, <1>2 DEF Tokens, Unlocated
<1> QED BY <1>1, <1>3 DEF g

\* The file keeps what it had, gains no offset, and stays a file of tokens.
Grows ==
    /\ Tokens(file') /\ Len(file') >= Len(file)
    /\ \A i \in 1 .. Len(file) : file'[i] = file[i]
    /\ Unlocated(file) => Unlocated(file')

LEMMA GrowsUnchanged ==
    ASSUME Tokens(file), UNCHANGED file
    PROVE  Grows
BY SequenceShape DEF Grows, Tokens

LEMMA GrowsEncoded ==
    ASSUME Tokens(file), NEW s \in Seq(Block), file' = file \o Encoded(s)
    PROVE  Grows
<1>1. Len(s) \in Nat /\ Len(file) \in Nat
    BY LenProperties, SequenceShape DEF Tokens
<1> QED BY <1>1, TokensEncoded DEF Grows

LEMMA GrowsAppend ==
    ASSUME Tokens(file), NEW t, t.kind \notin {"block", "offset"}, file' = Append(file, t)
    PROVE  Grows
<1>1. Len(file) \in Nat
    BY SequenceShape DEF Tokens
<1> QED BY <1>1, TokensAppend DEF Grows

\* What the layer takes of the buffer.
LEMMA TakenGrows ==
    ASSUME Shapes, NEW n \in 0 .. Len(buf) - sent, Taken(n)
    PROVE  /\ Grows /\ coder' \in Seq(Block)
           /\ SubSeq(buf, sent + 1, sent + n) \in Seq(Block)
<1> DEFINE s == SubSeq(buf, sent + 1, sent + n)
<1>1. Len(buf) \in Nat /\ sent \in 0 .. Len(buf) /\ \A i \in 1 .. Len(buf) : buf[i] \in Block
    BY LenProperties DEF Shapes, TypeOK
<1>2. s \in Seq(Block)
    <2>1. sent + 1 \in Int /\ sent + n \in Int /\ \A i \in sent + 1 .. sent + n : buf[i] \in Block
        BY <1>1
    <2> QED BY <2>1, SubSeqProperties
<1> HIDE DEF s
<1>3. CASE format = "none"
    <2>1. file' = file \o Encoded(s) /\ UNCHANGED coder
        BY <1>3 DEF Taken, s
    <2> QED BY <1>2, <2>1, GrowsEncoded DEF Shapes, s
<1>4. CASE format # "none"
    <2>1. coder' = coder \o s /\ UNCHANGED file
        BY <1>4 DEF Taken, s
    <2> QED BY <1>2, <2>1, GrowsUnchanged, ConcatProperties DEF Shapes, s
<1> QED BY <1>3, <1>4

LEMMA EmitGrows ==
    ASSUME Shapes, Emit
    PROVE  Grows /\ coder' \in Seq(Block) /\ <<Head(coder)>> \in Seq(Block)
<1>1. Head(coder) \in Block /\ Tail(coder) \in Seq(Block)
    BY HeadTailProperties DEF Shapes, Emit
<1>2. <<Head(coder)>> \in Seq(Block)
    BY <1>1
<1> QED BY <1>1, <1>2, GrowsEncoded DEF Shapes, Emit

LEMMA FinishFile ==
    ASSUME Shapes, file' = file \o Encoded(coder) \o StreamEnd
    PROVE  /\ Grows
           /\ format = "none" => file' = file \o Encoded(coder)
           /\ format # "none" => file' = Append(file \o Encoded(coder), Token("end", <<>>))
<1> DEFINE g == file \o Encoded(coder)
<1>1. /\ Tokens(g) /\ Len(g) >= Len(file) /\ \A i \in 1 .. Len(file) : g[i] = file[i]
      /\ Unlocated(file) => Unlocated(g)
    <2>1. Len(coder) \in Nat /\ Len(file) \in Nat
        BY LenProperties, SequenceShape DEF Shapes, Tokens
    <2> QED BY <2>1, TokensEncoded DEF Shapes
<1> HIDE DEF g
<1>2. CASE format = "none"
    <2>1. g \o <<>> = g
        BY <1>1, ConcatEmptySeq DEF Tokens, Sequence
    <2>2. file' = g
        BY <1>2, <2>1 DEF StreamEnd, g
    <2> QED BY <1>1, <1>2, <2>2 DEF Grows, g
<1>3. CASE format # "none"
    <2>1. file' = Append(g, Token("end", <<>>))
        <3>1. Append(g, Token("end", <<>>)) = g \o <<Token("end", <<>>)>>
            BY <1>1, SequenceAppend DEF Tokens
        <3> QED BY <1>3, <3>1 DEF StreamEnd, g
    <2>2. Token("end", <<>>).kind \notin {"block", "offset"}
        BY DEF Token
    <2>3. /\ Tokens(file') /\ Len(file') = Len(g) + 1 /\ \A i \in 1 .. Len(g) : file'[i] = g[i]
          /\ Unlocated(g) => Unlocated(file')
        BY <1>1, <2>1, <2>2, TokensAppend
    <2>4. Grows
        <3>1. Len(g) \in Nat /\ Len(file) \in Nat
            BY <1>1, SequenceShape DEF Shapes, Tokens
        <3> QED BY <1>1, <2>3, <3>1 DEF Grows
    <2> QED BY <1>3, <2>1, <2>4 DEF g
<1> QED BY <1>2, <1>3

-----------------------------------------------------------------------------
(* Types.                                                                  *)

LEMMA SinkTyped ==
    ASSUME Shapes, NEW b \in Seq(Block), Sink(b)
    PROVE  /\ pending' = pending \o b /\ pending' \in Seq(Block)
           /\ Len(pending') = Len(pending) + Len(b) /\ Len(pending') \in Nat
           /\ Len(pending') <= 2 => input' = NULL
           /\ Len(pending') > 2 =>
                 /\ input' = SubSeq(pending', 1, Len(pending') - 2)
                 /\ input' \in Seq(Block) /\ input' # NULL
<1>1. /\ pending' = pending \o b /\ pending' \in Seq(Block)
      /\ Len(pending') = Len(pending) + Len(b) /\ Len(pending) \in Nat /\ Len(b) \in Nat
    BY ConcatProperties, LenProperties DEF Shapes, Sink, Release
<1>2. Len(TarEof) = 2
    BY DEF TarEof
<1>3. input' = IF Len(pending) + Len(b) - 2 <= 0 THEN NULL
               ELSE SubSeq(pending', 1, Len(pending) + Len(b) - 2)
    BY <1>2 DEF Sink, Release
<1>4. Len(pending') > 2 => SubSeq(pending', 1, Len(pending') - 2) \in Seq(Block)
    <2>1. \A i \in 1 .. Len(pending') - 2 : pending'[i] \in Block
        BY <1>1, LenProperties
    <2> QED BY <1>1, <2>1, SubSeqProperties
<1>5. NULL \notin Seq(Block)
    BY FramingAssumption
<1>6. CASE Len(pending') <= 2
    BY <1>1, <1>3, <1>6
<1>7. CASE Len(pending') > 2
    <2>1. Len(pending) + Len(b) - 2 = Len(pending') - 2 /\ ~(Len(pending') - 2 <= 0)
        BY <1>1, <1>7
    <2>2. input' = SubSeq(pending', 1, Len(pending') - 2)
        BY <1>3, <2>1
    <2>3. ~(Len(pending') <= 2)
        BY <1>1, <1>7
    <2>4. input' \in Seq(Block)
        BY <1>4, <1>7, <2>2
    <2>5. input' # NULL
        BY <1>5, <2>4
    <2> QED BY <1>1, <2>2, <2>3, <2>4, <2>5
<1> QED BY <1>1, <1>6, <1>7

LEMMA HeldTyped ==
    ASSUME Shapes, pc # "flush" => Len(pending) >= 2
    PROVE  /\ Held \in Seq(Block)
           /\ pc = "flush" => Held = <<>>
           /\ pc # "flush" => /\ Held = SubSeq(pending, Len(pending) - 1, Len(pending))
                              /\ Len(Held) = 2
<1>1. Len(pending) \in Nat /\ \A i \in 1 .. Len(pending) : pending[i] \in Block
    BY LenProperties DEF Shapes
<1>2. Len(TarEof) = 2
    BY DEF TarEof
<1>3. CASE pc = "flush"
    BY <1>3, EmptySeq DEF Held
<1>4. CASE pc # "flush"
    <2>1. Held = SubSeq(pending, Len(pending) - 1, Len(pending))
        <3>1. Len(pending) - 2 + 1 = Len(pending) - 1
            BY <1>1
        <3> QED BY <1>2, <1>4, <3>1 DEF Held
    <2>2. Len(pending) - 1 \in Int /\ \A i \in Len(pending) - 1 .. Len(pending) : pending[i] \in Block
        BY <1>1, <1>4
    <2>3. /\ SubSeq(pending, Len(pending) - 1, Len(pending)) \in Seq(Block)
          /\ Len(SubSeq(pending, Len(pending) - 1, Len(pending))) =
                 IF Len(pending) - 1 <= Len(pending) THEN Len(pending) - (Len(pending) - 1) + 1 ELSE 0
        BY <1>1, <2>2, SubSeqProperties
    <2> QED BY <1>1, <1>4, <2>1, <2>3
<1> QED BY <1>3, <1>4

\* A write of the builder is a sequence of blocks.
LEMMA MembersTyped ==
    /\ Snapshot \in Seq(Seq(Block)) /\ Len(Members) \in Nat
    /\ \A i \in 1 .. Len(Members) : Members[i] \in Seq(Seq(Block))
BY FramingAssumption, LenProperties

LEMMA NullNoSeq == NULL \notin Seq(Block) /\ NULL \notin Nat /\ TarEof \in Seq(Block) /\ Len(TarEof) = 2
<1>1. Zero \in Block
    BY DEF Zero, Block
<1> QED BY <1>1, FramingAssumption DEF TarEof

LEMMA InitShapes == Init => Shapes /\ Phases /\ Footers
<1> SUFFICES ASSUME Init PROVE Shapes /\ Phases /\ Footers
    OBVIOUS
<1>1. Tokens(<<>>) /\ Unlocated(<<>>) /\ Len(<<>>) = 0
    <2>1. <<>> \in Seq({})
        BY EmptySeq
    <2>2. Sequence(<<>>)
        BY <2>1, IsSequence
    <2> QED BY <2>2 DEF Tokens, Unlocated
<1>2. <<>> \in Seq(Block) /\ <<>> \in Seq(Seq(Block))
    BY EmptySeq
<1>3. Shapes
    BY <1>1, <1>2, FramingAssumption, MembersTyped DEF Init, Shapes, TypeOK, Working
<1>4. Phases
    BY NullNoSeq DEF Init, Phases, Working
<1>5. Footers
    BY <1>1 DEF Init, Footers
<1> QED BY <1>3, <1>4, <1>5

\* What every action that leaves the tables alone keeps of the types.
LEMMA GrowsTypeOK ==
    ASSUME Shapes, Grows, UNCHANGED <<format, db, taken, launches>>,
           sent' \in 0 .. Len(buf'), Len(buf') <= Capacity,
           shutdown' \in {"running", "graceful", "force"}
    PROVE  TypeOK' /\ Tokens(file') /\ stored' \in Nat /\ taken' \in Nat
<1>1. Len(file) \in Nat /\ Len(file') \in Nat
    BY SequenceShape DEF Shapes, Tokens, Grows
<1> QED BY <1>1 DEF Shapes, Grows, TypeOK, db

Steady == UNCHANGED <<format, db, taken, launches, kept, whole>>

LEMMA NextMemberShapes == Shapes /\ Phases /\ NextMember => Shapes'
<1> SUFFICES ASSUME Shapes, Phases, NextMember PROVE Shapes'
    OBVIOUS
<1>1. taken \in Nat /\ Len(Members) \in Nat /\ taken <= Len(Members)
    BY MembersTyped DEF Shapes, TypeOK
<1>2. todo' \in Seq(Seq(Block)) \/ UNCHANGED todo
    BY <1>1, MembersTyped DEF NextMember, AllTaken
<1>3. taken' \in Nat /\ taken' \in stored .. Len(Members)
    BY <1>1 DEF NextMember, AllTaken, Shapes, TypeOK
<1>4. pc # "trailer" /\ pc' \in {"abandon", "snapshot", "member"}
    BY DEF NextMember, Goto
<1> QED BY <1>2, <1>3, <1>4 DEF NextMember, Shapes, TypeOK, Working, db, env, history

LEMMA WriteShapes == Shapes /\ Phases /\ Write => Shapes'
<1> SUFFICES ASSUME Shapes, Phases, Write PROVE Shapes'
    OBVIOUS
<1>1. todo \in Seq(Seq(Block)) /\ todo # <<>>
    BY DEF Shapes, Write
<1>2. Head(todo) \in Seq(Block) /\ Tail(todo) \in Seq(Seq(Block))
    BY <1>1, HeadTailProperties
<1>3. pending' \in Seq(Block) /\ input' \in Seq(Block) \cup {NULL}
    <2>1. Sink(Head(todo))
        BY DEF Write
    <2>2. /\ pending' \in Seq(Block) /\ Len(pending') \in Nat
          /\ Len(pending') <= 2 => input' = NULL
          /\ Len(pending') > 2 => input' \in Seq(Block)
        BY <1>2, <2>1, SinkTyped
    <2> QED BY <2>2
<1>4. said' \in Seq(Block)
    BY <1>2, ConcatProperties DEF Shapes, Write
<1> QED BY <1>2, <1>3, <1>4 DEF Write, Shapes, TypeOK, db, env

LEMMA WrittenShapes == Shapes /\ Phases /\ Written => Shapes'
BY DEF Written, Goto, Shapes, TypeOK, Working, db, env, session, history

\* A step of the buffer takes the head of what is passed on.
LEMMA BufferMoves ==
    ASSUME Shapes, Phases, Buffer, shutdown # "force"
    PROVE  \E n \in 1 .. Len(input) :
               /\ input \in Seq(Block) /\ input # NULL /\ Len(buf) + n <= Capacity
               /\ SubSeq(input, 1, n) \in Seq(Block) /\ Len(SubSeq(input, 1, n)) = n
               /\ buf' = buf \o SubSeq(input, 1, n)
               /\ \/ n = Len(input) /\ input' = NULL /\ pending' = Held
                  \/ /\ input' = SubSeq(input, n + 1, Len(input)) /\ input' \in Seq(Block)
                     /\ input' # NULL /\ pending' = pending
<1> DEFINE n == Min({Capacity - Len(buf), Len(input)})
<1>1. Capacity \in Nat \ {0} /\ Len(buf) \in Nat /\ Len(buf) < Capacity
    BY FramingAssumption, LenProperties DEF Shapes, TypeOK, Buffer
<1>2. input \in Seq(Block) /\ input # <<>> /\ Len(input) \in Nat \ {0} /\ input # NULL
    BY EmptySeq DEF Shapes, Buffer
<1>3. n \in 1 .. Len(input) /\ n <= Capacity - Len(buf)
    <2>1. \E m \in {Capacity - Len(buf), Len(input)} : \A k \in {Capacity - Len(buf), Len(input)} : m <= k
        BY <1>1, <1>2
    <2>2. n \in {Capacity - Len(buf), Len(input)} /\ \A k \in {Capacity - Len(buf), Len(input)} : n <= k
        BY <2>1 DEF Min
    <2> QED BY <1>1, <1>2, <2>2
<1> HIDE DEF n
<1>4. \A i \in 1 .. Len(input) : input[i] \in Block
    BY <1>2, LenProperties
<1>5. /\ SubSeq(input, 1, n) \in Seq(Block) /\ Len(SubSeq(input, 1, n)) = n
      /\ SubSeq(input, n + 1, Len(input)) \in Seq(Block)
    BY <1>2, <1>3, <1>4, SubSeqProperties
<1>6. SubSeq(input, n + 1, Len(input)) # NULL
    BY <1>5, NullNoSeq
<1>7. /\ buf' = buf \o SubSeq(input, 1, n)
      /\ \/ n = Len(input) /\ input' = NULL /\ pending' = Held
         \/ input' = SubSeq(input, n + 1, Len(input)) /\ pending' = pending
    BY DEF Buffer, n
<1>8. Len(buf) + n <= Capacity
    BY <1>1, <1>3
<1> QED BY <1>2, <1>3, <1>5, <1>6, <1>7, <1>8

LEMMA BufferShapes == Shapes /\ Phases /\ Buffer => Shapes'
<1> SUFFICES ASSUME Shapes, Phases, Buffer PROVE Shapes'
    OBVIOUS
<1>1. CASE shutdown = "force"
    <2>1. pc # "trailer" /\ pc' = "spinning" /\ UNCHANGED <<pending, input, buf>>
        BY <1>1, NullNoSeq DEF Buffer, Goto, Phases
    <2> QED BY <2>1 DEF Buffer, Shapes, TypeOK, Working, db, env, history
<1>2. CASE shutdown # "force"
    <2>1. PICK n \in 1 .. Len(input) :
              /\ input \in Seq(Block) /\ input # NULL /\ Len(buf) + n <= Capacity
              /\ SubSeq(input, 1, n) \in Seq(Block) /\ Len(SubSeq(input, 1, n)) = n
              /\ buf' = buf \o SubSeq(input, 1, n)
              /\ input' \in Seq(Block) \cup {NULL} /\ pending' \in {Held, pending}
        BY <1>2, BufferMoves
    <2>2. Len(buf) \in Nat /\ Len(input) \in Nat /\ sent \in 0 .. Len(buf)
        BY <2>1, LenProperties DEF Shapes, TypeOK
    <2>3. buf' \in Seq(Block) /\ Len(buf') = Len(buf) + n
        BY <2>1, ConcatProperties DEF Shapes
    <2>4. pending' \in Seq(Block)
        <3>1. pc # "flush" => Len(pending) >= 2
            BY NullNoSeq DEF Buffer, Phases
        <3>2. Held \in Seq(Block)
            BY <3>1, HeldTyped
        <3> QED BY <2>1, <3>2 DEF Shapes
    <2>5. sent' \in 0 .. Len(buf') /\ Len(buf') <= Capacity
        BY <2>1, <2>2, <2>3 DEF Buffer
    <2>6. UNCHANGED <<file, db, taken, todo, coder, history, env, pc>>
        BY <1>2 DEF Buffer
    <2> QED BY <2>1, <2>3, <2>4, <2>5, <2>6 DEF Shapes, TypeOK, Working, db, env, history
<1> QED BY <1>1, <1>2

LEMMA FlushBufShapes == Shapes /\ Phases /\ FlushBuf => Shapes'
<1> SUFFICES ASSUME Shapes, Phases, FlushBuf PROVE Shapes'
    OBVIOUS
<1>1. PICK n \in 1 .. Len(buf) - sent :
          /\ Taken(n)
          /\ buf' = IF sent + n = Len(buf) THEN <<>> ELSE buf
          /\ sent' = IF sent + n = Len(buf) THEN 0 ELSE sent + n
          /\ input' \in {NULL, input} /\ pending' \in {Held, pending}
          /\ pending' = pending \/ input # NULL
    <2>1. <<>> # NULL
        BY NullNoSeq, EmptySeq
    <2> QED BY <2>1 DEF FlushBuf
<1>2. Len(buf) \in Nat /\ sent \in 0 .. Len(buf) /\ Len(buf) <= Capacity /\ Capacity \in Nat
    BY FramingAssumption, LenProperties DEF Shapes, TypeOK
<1>3. Grows /\ coder' \in Seq(Block)
    BY <1>1, <1>2, TakenGrows
<1>4. sent' \in 0 .. Len(buf') /\ Len(buf') <= Capacity /\ buf' \in Seq(Block)
    BY <1>1, <1>2, EmptySeq DEF Shapes
<1>5. pending' \in Seq(Block)
    <2>1. CASE input # NULL
        <3>1. pc # "flush" => Len(pending) >= 2
            BY <2>1, NullNoSeq DEF FlushBuf, Flushing, Phases
        <3>2. Held \in Seq(Block)
            BY <3>1, HeldTyped
        <3> QED BY <1>1, <3>2 DEF Shapes
    <2>2. CASE input = NULL
        BY <1>1, <2>2 DEF Shapes
    <2> QED BY <2>1, <2>2
<1>6. TypeOK' /\ Tokens(file') /\ stored' \in Nat /\ taken' \in Nat
    BY <1>3, <1>4, GrowsTypeOK DEF FlushBuf, env, Shapes, TypeOK, db
<1> QED BY <1>1, <1>3, <1>4, <1>5, <1>6 DEF FlushBuf, Shapes, env, history, db

LEMMA ClearedShapes ==
    ASSUME Shapes, Cleared, Grows, UNCHANGED <<format, db, taken, said, kept, whole, launches>>,
           shutdown' \in {"running", "graceful", "force"},
           pc' \in Working \cup {"abandon", "spinning", "recover", "footer", "kept", "ended"}
    PROVE  Shapes'
<1>1. <<>> \in Seq(Block) /\ <<>> \in Seq(Seq(Block)) /\ Len(<<>>) = 0
    BY EmptySeq
<1>2. TypeOK' /\ Tokens(file') /\ stored' \in Nat /\ taken' \in Nat
    BY <1>1, FramingAssumption, GrowsTypeOK DEF Cleared
<1> QED BY <1>1, <1>2 DEF Shapes, Cleared, Working

LEMMA FlushInterruptedShapes == Shapes /\ Phases /\ FlushInterrupted => Shapes'
<1> SUFFICES ASSUME Shapes, Phases, FlushInterrupted PROVE Shapes'
    OBVIOUS
<1>1. CASE input # NULL
    <2>1. pc # "trailer" /\ pc' = "spinning" /\ UNCHANGED session
        BY <1>1 DEF FlushInterrupted, Goto, Phases
    <2> QED BY <2>1 DEF FlushInterrupted, Shapes, TypeOK, Working, db, env, session, history
<1>2. CASE input = NULL
    <2>1. Cleared /\ pc' = "ended" /\ Grows
        BY <1>2, GrowsUnchanged DEF FlushInterrupted, Goto, Shapes
    <2> QED BY <2>1, ClearedShapes DEF FlushInterrupted, env, history, db, Shapes, TypeOK
<1> QED BY <1>1, <1>2

LEMMA WriteFailsShapes == Shapes /\ Phases /\ WriteFails => Shapes'
<1> SUFFICES ASSUME Shapes, Phases, WriteFails PROVE Shapes'
    OBVIOUS
<1>1. PICK n \in 0 .. Len(buf) - sent : Taken(n)
    BY DEF WriteFails
<1>2. Grows /\ coder' \in Seq(Block)
    BY <1>1, TakenGrows
<1>3. Len(buf) \in Nat /\ Len(buf) <= Capacity
    BY LenProperties DEF Shapes, TypeOK
<1>4. TypeOK' /\ Tokens(file') /\ stored' \in Nat /\ taken' \in Nat
    BY <1>2, <1>3, GrowsTypeOK DEF WriteFails, env, Shapes, TypeOK, db
<1>5. <<>> \in Seq(Seq(Block)) /\ pc' \in {"next", "ended"}
    BY EmptySeq DEF WriteFails, Goto
<1> QED BY <1>2, <1>4, <1>5 DEF WriteFails, Shapes, env, db, Working

LEMMA EmitShapes == Shapes /\ Phases /\ Emit => Shapes'
<1> SUFFICES ASSUME Shapes, Phases, Emit PROVE Shapes'
    OBVIOUS
<1>1. Grows
    BY EmitGrows
<1>2. coder' \in Seq(Block)
    BY EmitGrows
<1>3. TypeOK' /\ Tokens(file') /\ stored' \in Nat /\ taken' \in Nat
    BY <1>1, GrowsTypeOK DEF Emit, env, Shapes, TypeOK, db
<1> QED BY <1>2, <1>3 DEF Emit, Shapes, env, db, history

LEMMA EofShapes == Shapes /\ Phases /\ Eof => Shapes'
<1> SUFFICES ASSUME Shapes, Phases, Eof PROVE Shapes'
    OBVIOUS
<1>1. pending' \in Seq(Block) /\ input' \in Seq(Block) \cup {NULL}
    <2>1. Sink(TarEof) /\ TarEof \in Seq(Block)
        BY NullNoSeq DEF Eof
    <2>2. /\ pending' \in Seq(Block) /\ Len(pending') \in Nat
          /\ Len(pending') <= 2 => input' = NULL
          /\ Len(pending') > 2 => input' \in Seq(Block)
        BY <2>1, SinkTyped
    <2> QED BY <2>2
<1> QED BY <1>1 DEF Eof, Goto, Shapes, TypeOK, Working, db, env, history

LEMMA ResolveShapes == Shapes /\ Phases /\ Resolve => Shapes'
<1> SUFFICES ASSUME Shapes, Phases, Resolve PROVE Shapes'
    OBVIOUS
<1>1. pending' \in Seq(Block) /\ input' \in Seq(Block) \cup {NULL}
    BY EmptySeq DEF Resolve, Shapes
<1> QED BY <1>1 DEF Resolve, Goto, Shapes, TypeOK, Working, db, env, history

LEMMA FinishShapes == Shapes /\ Phases /\ Finish => Shapes'
<1> SUFFICES ASSUME Shapes, Phases, Finish PROVE Shapes'
    OBVIOUS
<1>1. Grows
    BY FinishFile, GrowsUnchanged DEF Finish, Shapes
<1>2. pc' \in {"ended", "close"}
    BY DEF Finish, Goto
<1> QED BY <1>1, <1>2, ClearedShapes DEF Finish, env, history, db, Shapes, TypeOK, Working

LEMMA CloseShapes == Shapes /\ Phases /\ Close => Shapes'
<1> SUFFICES ASSUME Shapes, Phases, Close PROVE Shapes'
    OBVIOUS
<1>1. kept' \in Seq(Block)
    BY ConcatProperties DEF Close, Shapes
<1>2. taken' \in stored' .. Len(Members)
    BY MembersTyped DEF Close, Shapes, TypeOK
<1> QED BY <1>1, <1>2 DEF Close, Goto, Shapes, TypeOK, Working, session, env

LEMMA AbandonShapes == Shapes /\ Phases /\ Abandon => Shapes'
<1> SUFFICES ASSUME Shapes, Phases, Abandon PROVE Shapes'
    OBVIOUS
<1>1. CASE pending # <<>>
    BY <1>1 DEF Abandon, Goto, Shapes, TypeOK, Working, db, env, session, history
<1>2. CASE pending = <<>>
    <2>1. Cleared /\ pc' = "ended" /\ Grows
        BY <1>2, GrowsUnchanged DEF Abandon, Goto, Shapes
    <2> QED BY <2>1, ClearedShapes DEF Abandon, env, history, db, Shapes, TypeOK
<1> QED BY <1>1, <1>2

LEMMA BeginFooterShapes == Shapes /\ Phases /\ BeginFooter => Shapes'
BY DEF BeginFooter, Goto, Shapes, TypeOK, Working, db, env, history

LEMMA SignalShapes == Shapes /\ Phases /\ Signal => Shapes'
BY DEF Signal, Shapes, TypeOK, db, session, history

LEMMA RelaunchShapes == Shapes /\ Phases /\ Relaunch => Shapes'
<1> SUFFICES ASSUME Shapes, Phases, Relaunch PROVE Shapes'
    OBVIOUS
<1>1. <<>> \in Seq(Block) /\ <<>> \in Seq(Seq(Block)) /\ Len(<<>>) = 0
    BY EmptySeq
<1>2. launches' \in 1 .. MaxLaunches
    BY FramingAssumption DEF Relaunch, Shapes, TypeOK
<1> QED BY <1>1, <1>2, FramingAssumption DEF Relaunch, Cleared, Goto, Shapes, TypeOK, Working, db, history

LEMMA CrashShapes == Shapes /\ Phases /\ Crash => Shapes'
<1> SUFFICES ASSUME Shapes, Phases, Crash PROVE Shapes'
    OBVIOUS
<1>1. Grows
    <2>1. Junk.kind \notin {"block", "offset"}
        BY DEF Junk, Token
    <2>2. UNCHANGED file \/ file' = Append(file, Junk)
        BY DEF Crash
    <2> QED BY <2>1, <2>2, GrowsUnchanged, GrowsAppend DEF Shapes
<1> QED BY <1>1, ClearedShapes DEF Crash, Goto, env, history, db, Shapes, TypeOK

LEMMA RecoverShapes == Shapes /\ Phases /\ Recover => Shapes'
<1> SUFFICES ASSUME Shapes, Phases, Recover PROVE Shapes'
    OBVIOUS
<1> DEFINE cut == IF base = NULL THEN file ELSE SubSeq(file, 1, base)
<1>1. base # NULL => base \in Nat /\ base <= Len(file)
    BY SequenceShape DEF Shapes, TypeOK, Tokens
<1>2. Tokens(cut) /\ Len(cut) \in Nat
    BY <1>1, TokensPrefix, SequenceShape DEF Shapes, Tokens
<1>3. file' = cut
    BY DEF Recover
<1> HIDE DEF cut
<1>4. Tokens(file') /\ Tokens(whole')
    <2>1. Tokens(<<>>)
        <3>1. <<>> \in Seq({})
            BY EmptySeq
        <3>2. Sequence(<<>>)
            BY <3>1, IsSequence
        <3> QED BY <3>2 DEF Tokens
    <2>2. whole' \in {cut, <<>>, whole}
        BY DEF Recover, cut
    <2> QED BY <1>2, <1>3, <2>1, <2>2 DEF Shapes
<1>5. base' \in {NULL} \cup 0 .. Len(file')
    <2>1. CASE closed = "final"
        <3>1. base = NULL /\ UNCHANGED base
            BY <2>1 DEF Recover, Phases
        <3> QED BY <3>1
    <2>2. CASE closed # "final"
        <3>1. base' = Len(cut)
            BY <2>2 DEF Recover, cut
        <3> QED BY <1>2, <1>3, <3>1
    <2> QED BY <2>1, <2>2
<1>6. taken' \in stored' .. Len(Members) /\ taken' \in Nat /\ stored' \in Nat
    BY MembersTyped DEF Recover, Shapes, TypeOK
<1>7. pc' \in {"kept", "footer", "next"} /\ pc = "recover"
    BY DEF Recover, Goto
<1>8. <<>> \in Seq(Block)
    BY EmptySeq
<1> QED BY <1>4, <1>5, <1>6, <1>7, <1>8 DEF Recover, Shapes, TypeOK, Working, session, env

-----------------------------------------------------------------------------
(* Where the run stands.                                                   *)

LEMMA RecoverPhases == Shapes /\ Phases /\ Footers /\ Recover => Phases'
<1> SUFFICES ASSUME Shapes, Phases, Footers, Recover PROVE Phases'
    OBVIOUS
<1>1. /\ pending' = <<>> /\ input' = NULL /\ buf' = <<>> /\ coder' = <<>>
      /\ UNCHANGED <<closed, kept, format>>
    BY DEF Recover, Phases, session, env
<1>2. CASE closed = "final"
    <2>1. pc' \in {"kept", "footer"} /\ base' = NULL
        BY <1>2 DEF Recover, Goto, Phases
    <2> QED BY <1>1, <1>2, <2>1 DEF Phases, Working
<1>3. CASE closed # "final"
    <2>1. pc' = "next" /\ base' = Len(file')
        BY <1>3 DEF Recover, Goto
    <2>2. base' # NULL
        <3>1. Len(file') \in Nat
            BY RecoverShapes, SequenceShape DEF Shapes, Tokens
        <3> QED BY <2>1, <3>1, NullNoSeq
    <2> QED BY <1>1, <1>3, <2>1, <2>2 DEF Phases, Working
<1> QED BY <1>2, <1>3

LEMMA NextMemberPhases == Shapes /\ Phases /\ NextMember => Phases'
BY DEF NextMember, Goto, Phases, Working, db, history, env

LEMMA WritePhases == Shapes /\ Phases /\ Write => Phases'
<1> SUFFICES ASSUME Shapes, Phases, Write PROVE Phases'
    OBVIOUS
<1>1. Head(todo) \in Seq(Block)
    <2>1. todo \in Seq(Seq(Block)) /\ todo # <<>>
        BY DEF Shapes, Write
    <2> QED BY <2>1, HeadTailProperties
<1>2. input' # NULL => Len(pending') >= 2
    <2>1. Sink(Head(todo))
        BY DEF Write
    <2>2. Len(pending') \in Nat /\ (Len(pending') <= 2 => input' = NULL)
        BY <1>1, <2>1, SinkTyped
    <2> QED BY <2>2
<1> QED BY <1>2, NullNoSeq DEF Write, Phases, Working, db, env

LEMMA WrittenPhases == Shapes /\ Phases /\ Written => Phases'
BY DEF Written, Goto, Phases, Working, db, session, history, env

\* The sink once a release has passed holds the last two blocks, or nothing.
LEMMA DrainedPhases ==
    ASSUME Shapes, Phases, input # NULL, input' = NULL, pending' = Held,
           pc' = pc, pc \notin {"spinning", "recover", "close", "footer", "trailer", "kept"},
           UNCHANGED <<base, closed, kept, format>>, format = "none" => coder' = <<>>
    PROVE  Phases'
<1>1. pc \notin {"next", "abandon", "eof", "ended"}
    BY DEF Phases
<1>2. pc # "flush" => Len(pending) >= 2
    BY NullNoSeq DEF Phases
<1>3. /\ Held \in Seq(Block)
      /\ pc = "flush" => Held = <<>>
      /\ pc # "flush" => Held = SubSeq(pending, Len(pending) - 1, Len(pending)) /\ Len(Held) = 2
    BY <1>2, HeldTyped
<1>4. pc = "resolve" => Len(pending') >= 2 /\ Held' = TarEof /\ pending' = TarEof
    <2> SUFFICES ASSUME pc = "resolve"
                 PROVE  Len(pending') >= 2 /\ Held' = TarEof /\ pending' = TarEof
        OBVIOUS
    <2>1. Held = TarEof /\ pending' = TarEof /\ Len(TarEof) = 2 /\ TarEof \in Seq(Block)
        BY NullNoSeq DEF Phases
    <2>2. SubSeq(TarEof, 1, 2) = TarEof
        BY <2>1, SubSeqFull
    <2>3. Held' = SubSeq(pending', Len(pending') - 2 + 1, Len(pending'))
        BY <2>1 DEF Held
    <2>4. Len(pending') - 2 + 1 = 1 /\ Len(pending') = 2
        BY <2>1
    <2> QED BY <2>1, <2>2, <2>3, <2>4
<1> QED BY <1>1, <1>3, <1>4, NullNoSeq DEF Phases, Working

LEMMA BufferPhases == Shapes /\ Phases /\ Buffer => Phases'
<1> SUFFICES ASSUME Shapes, Phases, Buffer PROVE Phases'
    OBVIOUS
<1>1. input # NULL /\ pc \notin {"spinning", "recover", "close", "footer", "trailer", "kept",
                                 "next", "abandon", "eof", "ended"}
    BY DEF Buffer, Phases
<1>2. CASE shutdown = "force"
    <2>1. pc' = "spinning" /\ UNCHANGED <<pending, input, buf, base, closed, kept, format, coder>>
        BY <1>2 DEF Buffer, Goto, db, history, env
    <2>2. base # NULL
        BY <1>1 DEF Shapes, Phases, Working
    <2> QED BY <2>1, <2>2 DEF Phases, Working
<1>3. CASE shutdown # "force"
    <2>1. /\ (input' = NULL /\ pending' = Held) \/ (input' # NULL /\ pending' = pending)
          /\ pc' = pc /\ UNCHANGED <<base, closed, kept, format, coder>>
        <3>1. (input' = NULL /\ pending' = Held) \/ (input' # NULL /\ pending' = pending)
            BY <1>3, BufferMoves
        <3> QED BY <1>3, <3>1 DEF Buffer, db, history, env
    <2>2. CASE input' = NULL /\ pending' = Held
        <3>1. format = "none" => coder' = <<>>
            BY <2>1 DEF Phases
        <3> QED BY <1>1, <2>1, <2>2, <3>1, DrainedPhases
    <2>3. CASE input' # NULL /\ pending' = pending
        BY <1>1, <2>1, <2>3 DEF Phases, Working, Held
    <2> QED BY <2>1, <2>2, <2>3
<1> QED BY <1>2, <1>3

LEMMA FlushBufPhases == Shapes /\ Phases /\ FlushBuf => Phases'
<1> SUFFICES ASSUME Shapes, Phases, FlushBuf PROVE Phases'
    OBVIOUS
<1>0. <<>> # NULL
    BY NullNoSeq, EmptySeq
<1>1. PICK n \in 1 .. Len(buf) - sent :
          /\ Taken(n)
          /\ \/ input # NULL /\ input' = NULL /\ pending' = Held
             \/ input' = input /\ pending' = pending
    BY <1>0 DEF FlushBuf
<1>2. pc' = pc /\ UNCHANGED <<base, closed, kept, format>>
    BY DEF FlushBuf, db, history, env
<1>3. pc \notin {"spinning", "recover", "close", "footer", "trailer", "kept", "ended"}
    <2>1. pc # "spinning" /\ (input # NULL \/ pc = "flush")
        BY DEF FlushBuf, Flushing
    <2> QED BY <2>1 DEF Phases
<1>4. format = "none" => coder' = <<>>
    BY <1>1 DEF Taken, Phases
<1>5. CASE input # NULL /\ input' = NULL /\ pending' = Held
    BY <1>2, <1>3, <1>4, <1>5, DrainedPhases
<1>6. CASE input' = input /\ pending' = pending
    BY <1>2, <1>3, <1>4, <1>6 DEF Phases, Working, Held
<1> QED BY <1>1, <1>5, <1>6

LEMMA FlushInterruptedPhases == Shapes /\ Phases /\ FlushInterrupted => Phases'
<1> SUFFICES ASSUME Shapes, Phases, FlushInterrupted PROVE Phases'
    OBVIOUS
<1>1. UNCHANGED <<base, closed, kept, format>>
    BY DEF FlushInterrupted, db, history, env
<1>2. CASE input # NULL
    <2>1. pc' = "spinning" /\ UNCHANGED <<pending, input, buf, coder>>
        BY <1>2 DEF FlushInterrupted, Goto, session
    <2>2. base # NULL
        BY <1>2 DEF FlushInterrupted, Flushing, Shapes, Phases, Working
    <2> QED BY <1>1, <2>1, <2>2 DEF Phases, Working
<1>3. CASE input = NULL
    <2>1. pc' = "ended" /\ Cleared
        BY <1>3 DEF FlushInterrupted, Goto
    <2> QED BY <1>1, <2>1 DEF Phases, Working, Cleared
<1> QED BY <1>2, <1>3

LEMMA WriteFailsPhases == Shapes /\ Phases /\ WriteFails => Phases'
<1> SUFFICES ASSUME Shapes, Phases, WriteFails PROVE Phases'
    OBVIOUS
<1>1. PICK n \in 0 .. Len(buf) - sent : Taken(n)
    BY DEF WriteFails
<1>2. UNCHANGED <<base, closed, kept, format, pending>> /\ input' = NULL
    BY DEF WriteFails, db, env
<1>3. format = "none" => coder' = <<>>
    BY <1>1 DEF Taken, Phases
<1>4. (pc' = "next" /\ pc = "member") \/ pc' = "ended"
    BY DEF WriteFails, Goto
<1> QED BY <1>2, <1>3, <1>4 DEF Phases, Working

LEMMA EmitPhases == Shapes /\ Phases /\ Emit => Phases'
<1> SUFFICES ASSUME Shapes, Phases, Emit PROVE Phases'
    OBVIOUS
<1>1. pc \notin {"recover", "close", "footer", "trailer", "kept"} /\ format # "none"
    BY DEF Emit, Phases
<1>2. UNCHANGED <<base, closed, kept, format, pending, input, buf, pc>>
    BY DEF Emit, db, env, history
<1> QED BY <1>1, <1>2 DEF Phases, Working, Held

LEMMA EofPhases == Shapes /\ Phases /\ Eof => Phases'
<1> SUFFICES ASSUME Shapes, Phases, Eof PROVE Phases'
    OBVIOUS
<1>1. TarEof \in Seq(Block) /\ Len(TarEof) = 2
    BY NullNoSeq
<1>2. pending' = pending \o TarEof /\ Len(pending') = Len(pending) + 2
    BY <1>1, SinkTyped DEF Eof
<1>3. Len(pending) \in Nat /\ pending \in Seq(Block)
    BY LenProperties DEF Shapes
<1>4. Held' = TarEof
    <2>1. Held' = SubSeq(pending', Len(pending') - 1, Len(pending'))
        <3>1. Len(pending') - 2 + 1 = Len(pending') - 1
            BY <1>2, <1>3
        <3> QED BY <1>1, <3>1 DEF Held, Eof, Goto
    <2>2. \A a, b \in Len(pending) + 1 .. Len(pending) + Len(TarEof) :
              SubSeq(pending \o TarEof, a, b) = SubSeq(TarEof, a - Len(pending), b - Len(pending))
        BY <1>1, <1>3, SubSeqOfConcat2
    <2>3. /\ Len(pending') - 1 \in Len(pending) + 1 .. Len(pending) + Len(TarEof)
          /\ Len(pending') \in Len(pending) + 1 .. Len(pending) + Len(TarEof)
          /\ Len(pending') - 1 - Len(pending) = 1 /\ Len(pending') - Len(pending) = Len(TarEof)
        BY <1>1, <1>2, <1>3
    <2>4. SubSeq(TarEof, 1, Len(TarEof)) = TarEof
        BY <1>1, SubSeqFull
    <2> QED BY <1>2, <2>1, <2>2, <2>3, <2>4
<1>5. Len(pending') >= 2
    BY <1>2, <1>3
<1>6. input' = NULL => pending' = TarEof
    <2> SUFFICES ASSUME input' = NULL PROVE pending' = TarEof
        OBVIOUS
    <2>1. ~(Len(pending') > 2)
        BY <1>1, SinkTyped DEF Eof
    <2>2. pending = <<>>
        BY <1>2, <1>3, <2>1, EmptySeq
    <2> QED BY <1>1, <1>2, <2>2, ConcatEmptySeq
<1> QED BY <1>1, <1>4, <1>5, <1>6 DEF Eof, Goto, Phases, Working, db, env, history

LEMMA ResolvePhases == Shapes /\ Phases /\ Resolve => Phases'
<1> SUFFICES ASSUME Shapes, Phases, Resolve PROVE Phases'
    OBVIOUS
<1>1. pending # NULL
    BY NullNoSeq DEF Shapes
<1>2. pc' = "flush" /\ (input' = NULL => pending' = <<>>)
    BY <1>1 DEF Resolve, Goto
<1> QED BY <1>2 DEF Resolve, Phases, Working, db, env, history

LEMMA FinishPhases == Shapes /\ Phases /\ Finish => Phases'
BY DEF Finish, Goto, Cleared, Phases, Working, db, env, history

LEMMA ClosePhases == Shapes /\ Phases /\ Close => Phases'
BY DEF Close, Goto, Phases, Working, session, env

LEMMA AbandonPhases == Shapes /\ Phases /\ Abandon => Phases'
BY DEF Abandon, Goto, Cleared, Phases, Working, session, db, env, history

LEMMA BeginFooterPhases == Shapes /\ Phases /\ BeginFooter => Phases'
BY DEF BeginFooter, Goto, Phases, Working, db, env, history

LEMMA WriteFooterPhases == Shapes /\ Phases /\ WriteFooter => Phases'
BY DEF WriteFooter, Goto, Phases, Working, db

LEMMA SignalPhases == Shapes /\ Phases /\ Signal => Phases'
BY DEF Signal, Phases, Working, Held, db, session, history

LEMMA CrashPhases == Shapes /\ Phases /\ Crash => Phases'
BY DEF Crash, Goto, Cleared, Phases, Working, db, env, history

LEMMA RelaunchPhases == Shapes /\ Phases /\ Relaunch => Phases'
BY DEF Relaunch, Goto, Cleared, Phases, Working, db, history

LEMMA DamagePhases == Shapes /\ Phases /\ Damage => Phases'
BY DEF Damage, Phases, Working, Held, db, session, history

-----------------------------------------------------------------------------
(* The footer.                                                             *)

\* A file that has no offset keeps none, and nothing is a finished archive.
LEMMA UnlocatedFooters ==
    ASSUME Shapes, Footers, Grows, UNCHANGED whole, whole = <<>>, pc' \notin {"kept", "trailer"}
    PROVE  Footers'
BY DEF Footers, Grows

LEMMA WholeEmpty ==
    ASSUME Footers, pc \notin {"recover", "kept"}
    PROVE  whole = <<>>
BY DEF Footers

\* An action of the session.
LEMMA SessionFooters ==
    /\ Shapes /\ Phases /\ Footers
    /\ \/ NextMember \/ Write \/ Written \/ Buffer \/ FlushBuf \/ FlushInterrupted
       \/ WriteFails \/ Emit \/ Eof \/ Resolve \/ Finish \/ Close \/ Abandon
    => Footers'
<1> SUFFICES ASSUME Shapes, Phases, Footers,
                    \/ NextMember \/ Write \/ Written \/ Buffer \/ FlushBuf \/ FlushInterrupted
                    \/ WriteFails \/ Emit \/ Eof \/ Resolve \/ Finish \/ Close \/ Abandon
             PROVE  Footers'
    OBVIOUS
<1>0. Tokens(file)
    BY DEF Shapes
<1>1. ASSUME NextMember \/ Write \/ Written \/ Buffer \/ FlushInterrupted \/ Eof \/ Resolve \/ Close \/ Abandon
      PROVE  Grows
    <2>1. UNCHANGED file
        BY <1>1 DEF NextMember, Write, Written, Buffer, FlushInterrupted, Eof, Resolve, Close, Abandon
    <2> QED BY <1>0, <2>1, GrowsUnchanged
<1>2. ASSUME FlushBuf
      PROVE  Grows
    <2>1. PICK n \in 1 .. Len(buf) - sent : Taken(n)
        BY <1>2 DEF FlushBuf
    <2>2. n \in 0 .. Len(buf) - sent
        BY LenProperties DEF Shapes, TypeOK
    <2> QED BY <2>1, <2>2, TakenGrows
<1>3. ASSUME WriteFails
      PROVE  Grows
    BY <1>3, TakenGrows DEF WriteFails
<1>4. ASSUME Emit
      PROVE  Grows
    BY <1>4, EmitGrows
<1>5. ASSUME Finish
      PROVE  Grows
    BY <1>0, <1>5, FinishFile, GrowsUnchanged DEF Finish
<1>6. pc \notin {"recover", "kept"} /\ pc' \notin {"kept", "trailer"} /\ UNCHANGED whole
    BY DEF NextMember, Write, Written, Buffer, FlushBuf, FlushInterrupted, WriteFails, Emit, Eof,
           Resolve, Finish, Close, Abandon, Goto, history, Flushing, Phases
<1>7. Grows
    BY <1>1, <1>2, <1>3, <1>4, <1>5
<1> QED BY <1>6, <1>7, UnlocatedFooters, WholeEmpty

LEMMA SignalFooters == Shapes /\ Phases /\ Footers /\ Signal => Footers'
BY DEF Signal, Footers, Worn, history, db, session

LEMMA RelaunchFooters == Shapes /\ Phases /\ Footers /\ Relaunch => Footers'
<1> SUFFICES ASSUME Shapes, Phases, Footers, Relaunch PROVE Footers'
    OBVIOUS
<1>1. UNCHANGED <<file, whole, base, closed>> /\ pc' = "recover"
    BY DEF Relaunch, Goto, db, history
<1>2. whole # <<>> => pc = "kept" /\ file = whole
    BY DEF Relaunch, Footers
<1> QED BY <1>1, <1>2 DEF Footers

LEMMA CrashFooters == Shapes /\ Phases /\ Footers /\ Crash => Footers'
<1> SUFFICES ASSUME Shapes, Phases, Footers, Crash PROVE Footers'
    OBVIOUS
<1>1. Junk.kind \notin {"block", "offset"}
    BY DEF Junk, Token
<1>2. UNCHANGED file \/ file' = Append(file, Junk)
    BY DEF Crash
<1>3. Grows
    BY <1>1, <1>2, GrowsUnchanged, GrowsAppend DEF Shapes
<1>4. pc \notin {"recover", "kept"} /\ pc' = "ended" /\ UNCHANGED whole
    BY DEF Crash, Idle, Goto, history
<1> QED BY <1>3, <1>4, UnlocatedFooters, WholeEmpty

\* A finished archive has a valid footer.
LEMMA WholeValid ==
    ASSUME Sequence(whole), EndsIn(whole, 6)
    PROVE  HasValidFooter(whole)
<1>1. PICK n \in Nat :
          /\ Len(whole) = n + 6 /\ n = Len(whole) - 6
          /\ whole[n + 3] = Token("xz", <<>>) /\ whole[n + 4] = Digest(Catalogue)
    BY WholeShape
<1>2. LocateFooter(whole) = n
    BY <1>1, WholeLocated
<1>3. Len(whole) - 2 = n + 4 /\ Len(whole) - 3 = n + 3 /\ n <= Len(whole)
    BY <1>1
<1>4. ReadFooter(whole) = "installed" <=> whole[n + 4] = Digest(SubSeq(whole, n + 3, n + 3))
    BY <1>2, <1>3, Halves
<1>5. SubSeq(whole, n + 3, n + 3) = <<whole[n + 3]>>
    BY <1>1, OneOf
<1> QED BY <1>1, <1>4, <1>5 DEF HasValidFooter, Catalogue

LEMMA RecoverFooters == Shapes /\ Phases /\ Footers /\ Recover => Footers'
<1> SUFFICES ASSUME Shapes, Phases, Footers, Recover PROVE Footers'
    OBVIOUS
<1> DEFINE cut == IF base = NULL THEN file ELSE SubSeq(file, 1, base)
<1>0. pc = "recover" /\ file' = cut /\ UNCHANGED closed
    BY DEF Recover
<1>1. CASE whole # <<>>
    <2>1. file = whole /\ base = NULL /\ closed = "final" /\ cut = whole
        BY <1>0, <1>1 DEF Footers
    <2>2. HasValidFooter(cut)
        BY <1>1, <2>1, WholeValid DEF Footers, Shapes, Tokens
    <2>3. pc' = "kept" /\ whole' = whole /\ file' = whole /\ UNCHANGED base
        BY <2>1, <2>2 DEF Recover, Goto
    <2>4. Worn'
        BY <2>3 DEF Worn
    <2> QED BY <1>0, <1>1, <2>1, <2>3, <2>4 DEF Footers, EndsIn, Unlocated
<1>2. CASE whole = <<>>
    <2>1. Unlocated(cut) /\ Sequence(cut)
        <3>1. base # NULL => base \in Nat /\ base <= Len(file)
            BY SequenceShape DEF Shapes, TypeOK, Tokens
        <3> QED BY <1>2, <3>1, TokensPrefix DEF Footers, Shapes, Tokens
    <2>2. ~HasValidFooter(cut)
        BY <2>1, NotLocated DEF HasValidFooter, ReadFooter
    <2>3. whole' = <<>> /\ pc' \in {"footer", "next"}
        BY <1>2, <2>2 DEF Recover, Goto
    <2> QED BY <1>0, <2>1, <2>3 DEF Footers
<1> QED BY <1>1, <1>2

\* The footer of a prefix, where the prefix stays.
LEMMA BeginFooterFooters == Shapes /\ Phases /\ Footers /\ BeginFooter => Footers'
<1> SUFFICES ASSUME Shapes, Phases, Footers, BeginFooter PROVE Footers'
    OBVIOUS
<1>0. whole = <<>> /\ UNCHANGED <<whole, file>> /\ Unlocated(file) /\ Sequence(file)
    BY DEF BeginFooter, Footers, history, Shapes, Tokens
<1>1. CASE shutdown = "force"
    BY <1>0, <1>1 DEF BeginFooter, Goto, Footers
<1>2. CASE shutdown # "force"
    <2>1. pc' = "trailer" /\ todo' = Footer(file)
        BY <1>2 DEF BeginFooter, Goto
    <2>2. Sequence(todo') /\ Len(todo') = 6 /\ DOMAIN todo' = 1 .. 6
        BY <2>1, FooterPieces, SequenceShape
    <2>3. SubSeq(file, 1, Len(file)) = file /\ Len(file) \in Nat
        BY <1>0, SubSeqFull, SequenceShape DEF Sequence
    <2>4. EndsIn(file, 0)
        BY <2>3 DEF EndsIn
    <2>5. \A i \in DOMAIN todo' :
              todo'[i] = Footer(SubSeq(file, 1, Len(file) + Len(todo') - 6))[6 - Len(todo') + i]
        <3>1. Len(file) + 6 - 6 = Len(file) /\ \A i \in 1 .. 6 : 6 - 6 + i = i
            BY <2>3
        <3> QED BY <2>1, <2>2, <2>3, <3>1
    <2>6. 6 - Len(todo') = 0
        BY <2>2
    <2> QED BY <1>0, <2>1, <2>2, <2>4, <2>5, <2>6 DEF Footers
<1> QED BY <1>1, <1>2

\* The piece of the footer that is next.
LEMMA PieceNext ==
    ASSUME Shapes, Phases, Footers, WriteFooter, file' = Append(file, Head(todo)), todo' = Tail(todo)
    PROVE  \E n \in Nat :
               /\ n <= Len(file) /\ Len(file) + Len(todo) = n + 6
               /\ Len(todo) \in 1 .. 6 /\ Len(file) \in Nat
               /\ SubSeq(file', 1, n) = SubSeq(file, 1, n)
               /\ Tokens(file') /\ Len(file') = Len(file) + 1
               /\ Sequence(todo') /\ Len(todo') = Len(todo) - 1
               /\ \A i \in 1 .. 6 - Len(todo) + 1 : file'[n + i] = Footer(SubSeq(file, 1, n))[i]
               /\ \A i \in 1 .. Len(todo') :
                      todo'[i] = Footer(SubSeq(file, 1, n))[6 - Len(todo') + i]
               /\ Unlocated(SubSeq(file, 1, n))
               /\ Len(todo) > 1 => Unlocated(file')
               /\ Head(todo).kind # "block"
<1> DEFINE L == Len(todo)
           n == Len(file) + L - 6
           F == SubSeq(file, 1, n)
           t == Head(todo)
<1>1. /\ Sequence(todo) /\ L \in 1 .. 6 /\ EndsIn(file, 6 - L) /\ whole = <<>> /\ Unlocated(file)
      /\ \A i \in DOMAIN todo : todo[i] = Footer(F)[6 - L + i]
    BY DEF WriteFooter, Footers
<1>2. Tokens(file) /\ Len(file) \in Nat
    BY SequenceShape DEF Shapes, Tokens
<1>3. /\ n \in Nat /\ n <= Len(file) /\ Len(file) + L = n + 6
      /\ Len(file) - (6 - L) = n
    <2>1. Len(file) - (6 - L) \in Nat
        BY <1>1 DEF EndsIn
    <2>2. L \in 1 .. 6
        BY <1>1
    <2> HIDE DEF L
    <2> QED BY <1>2, <2>1, <2>2
<1>4. \A i \in 1 .. 6 - L : file[n + i] = Footer(F)[i]
    BY <1>1, <1>3 DEF EndsIn
<1> HIDE DEF n
<1>5. Tokens(F) /\ Len(F) = n /\ Unlocated(F) /\ \A i \in 1 .. n : F[i] = file[i]
    BY <1>1, <1>2, <1>3, TokensPrefix
<1>6. /\ t = todo[1] /\ Sequence(todo') /\ Len(todo') = L - 1
      /\ \A i \in 1 .. L - 1 : todo'[i] = todo[i + 1]
    <2>1. \A S : todo \in Seq(S) => Tail(todo) \in Seq(S)
        BY <1>1, HeadTailProperties
    <2>2. todo \in Seq({todo[i] : i \in DOMAIN todo}) /\ todo # <<>>
        BY <1>1 DEF Sequence
    <2>3. Tail(todo) \in Seq({todo[i] : i \in DOMAIN todo})
        BY <2>1, <2>2
    <2>4. Sequence(Tail(todo))
        BY <2>3, IsSequence
    <2>5. Head(todo) = todo[1] /\ Len(Tail(todo)) = L - 1 /\ \A i \in 1 .. Len(Tail(todo)) : Tail(todo)[i] = todo[i + 1]
        BY <2>2, HeadTailProperties
    <2> QED BY <2>4, <2>5
<1>7. DOMAIN todo = 1 .. L
    BY <1>1, SequenceShape
<1>8. t = Footer(F)[6 - L + 1]
    <2>1. 1 \in DOMAIN todo
        BY <1>1, <1>7
    <2> QED BY <1>1, <1>6, <2>1
<1> HIDE DEF F, t, L
<1>9. t.kind # "block" /\ (L > 1 => t.kind # "offset")
    <2>1. Footer(F) = <<Magic, Digest(F), Token("xz", <<>>), Digest(Catalogue), Magic,
                        Token("offset", <<Len(F)>>)>>
        BY FooterPieces
    <2>2. \A i \in 1 .. 6 : Footer(F)[i].kind \in {"magic", "digest", "xz", "offset"}
        BY <2>1 DEF Magic, Digest, Token
    <2>3. \A i \in 1 .. 5 : Footer(F)[i].kind \in {"magic", "digest", "xz"}
        BY <2>1 DEF Magic, Digest, Token
    <2>4. 6 - L + 1 \in 1 .. 6 /\ (L > 1 => 6 - L + 1 \in 1 .. 5)
        <3>1. L \in 1 .. 6
            BY <1>1
        <3> QED BY <3>1
    <2> QED BY <1>8, <2>2, <2>3, <2>4
<1>10. /\ Tokens(file') /\ Len(file') = Len(file) + 1 /\ \A i \in 1 .. Len(file) : file'[i] = file[i]
       /\ file'[Len(file) + 1] = t
       /\ L > 1 => Unlocated(file')
    <2>1. file' = Append(file, t)
        BY DEF t
    <2> QED BY <1>1, <1>2, <1>9, <2>1, TokensAppend
<1>11. SubSeq(file', 1, n) = F
    <2>1. Sequence(SubSeq(file', 1, n)) /\ Len(SubSeq(file', 1, n)) = n
          /\ \A i \in 1 .. n : SubSeq(file', 1, n)[i] = file'[i]
        <3>1. Sequence(file') /\ n \in Nat /\ n <= Len(file')
            BY <1>2, <1>3, <1>10 DEF Tokens
        <3> QED BY <3>1, Prefix
    <2>2. \A i \in 1 .. n : SubSeq(file', 1, n)[i] = F[i]
        BY <1>2, <1>3, <1>5, <1>10, <2>1
    <2> QED BY <1>5, <2>1, <2>2, SequenceEqual DEF Tokens
<1>12. \A i \in 1 .. 6 - L + 1 : file'[n + i] = Footer(F)[i]
    <2> SUFFICES ASSUME NEW i \in 1 .. 6 - L + 1 PROVE file'[n + i] = Footer(F)[i]
        OBVIOUS
    <2>1. CASE i = 6 - L + 1
        <3>1. n + i = Len(file) + 1
            BY <1>1, <1>2, <1>3, <2>1
        <3> QED BY <1>8, <1>10, <2>1, <3>1
    <2>2. CASE i # 6 - L + 1
        <3>1. i \in 1 .. 6 - L /\ n + i \in 1 .. Len(file)
            BY <1>1, <1>2, <1>3, <2>2
        <3> QED BY <1>4, <1>10, <3>1
    <2> QED BY <2>1, <2>2
<1>13. \A i \in 1 .. L - 1 : todo'[i] = Footer(F)[6 - (L - 1) + i]
    <2> SUFFICES ASSUME NEW i \in 1 .. L - 1 PROVE todo'[i] = Footer(F)[6 - (L - 1) + i]
        OBVIOUS
    <2>1. i + 1 \in DOMAIN todo /\ 6 - L + (i + 1) = 6 - (L - 1) + i
        BY <1>1, <1>7
    <2> QED BY <1>1, <1>6, <2>1 DEF F
<1>14. \A i \in 1 .. Len(todo') : todo'[i] = Footer(F)[6 - Len(todo') + i]
    BY <1>6, <1>13
<1>15. L = Len(todo) /\ F = SubSeq(file, 1, n)
    BY DEF L, F
<1>16. L \in 1 .. 6
    BY <1>1
<1>17. /\ n \in Nat /\ n <= Len(file) /\ Len(file) + Len(todo) = n + 6
       /\ Len(todo) \in 1 .. 6 /\ Len(file) \in Nat
    BY <1>2, <1>3, <1>15, <1>16
<1>18. /\ SubSeq(file', 1, n) = SubSeq(file, 1, n)
       /\ Tokens(file') /\ Len(file') = Len(file) + 1
       /\ Sequence(todo') /\ Len(todo') = Len(todo) - 1
       /\ Len(todo) > 1 => Unlocated(file')
       /\ Unlocated(SubSeq(file, 1, n))
    BY <1>5, <1>6, <1>10, <1>11, <1>15
<1>19. /\ \A i \in 1 .. 6 - Len(todo) + 1 : file'[n + i] = Footer(SubSeq(file, 1, n))[i]
       /\ \A i \in 1 .. Len(todo') : todo'[i] = Footer(SubSeq(file, 1, n))[6 - Len(todo') + i]
    BY <1>12, <1>14, <1>15
<1>20. Head(todo).kind # "block"
    BY <1>9 DEF t
<1> QED BY <1>17, <1>18, <1>19, <1>20

LEMMA WriteFooterBoth == Shapes /\ Phases /\ Footers /\ WriteFooter => Shapes' /\ Footers'
<1> SUFFICES ASSUME Shapes, Phases, Footers, WriteFooter PROVE Shapes' /\ Footers'
    OBVIOUS
<1>0. /\ pc = "trailer" /\ base = NULL /\ closed = "final" /\ whole = <<>> /\ Unlocated(file)
      /\ Tokens(file) /\ Len(file) \in Nat
      /\ UNCHANGED <<db, taken, pending, input, buf, sent, coder, said, kept, faulty, format, launches>>
    BY SequenceShape DEF WriteFooter, Phases, Footers, Shapes, Tokens
<1>1. CASE UNCHANGED <<file, whole, shutdown>> /\ pc' = "ended" /\ todo' = <<>>
    <2>1. <<>> \in Seq(Seq(Block))
        BY EmptySeq
    <2>2. Shapes'
        BY <1>0, <1>1, <2>1 DEF Shapes, TypeOK, Working, db
    <2>3. Footers'
        BY <1>0, <1>1 DEF Footers
    <2> QED BY <2>2, <2>3
<1>2. CASE /\ file' = Append(file, Head(todo)) /\ todo' = Tail(todo)
           /\ IF Len(todo) = 1 THEN pc' = "kept" /\ whole' = file' /\ shutdown' = "running"
              ELSE UNCHANGED <<pc, whole, shutdown>>
    <2>1. PICK n \in Nat :
               /\ n <= Len(file) /\ Len(file) + Len(todo) = n + 6
               /\ Len(todo) \in 1 .. 6 /\ Len(file) \in Nat
               /\ SubSeq(file', 1, n) = SubSeq(file, 1, n)
               /\ Tokens(file') /\ Len(file') = Len(file) + 1
               /\ Sequence(todo') /\ Len(todo') = Len(todo) - 1
               /\ \A i \in 1 .. 6 - Len(todo) + 1 : file'[n + i] = Footer(SubSeq(file, 1, n))[i]
               /\ \A i \in 1 .. Len(todo') :
                      todo'[i] = Footer(SubSeq(file, 1, n))[6 - Len(todo') + i]
               /\ Unlocated(SubSeq(file, 1, n))
               /\ Len(todo) > 1 => Unlocated(file')
        BY <1>2, PieceNext
    <2>2. Len(file') - (6 - Len(todo')) = n /\ Len(file') + Len(todo') - 6 = n
          /\ 6 - Len(todo') = 6 - Len(todo) + 1
        BY <2>1
    <2>3. EndsIn(file', 6 - Len(todo'))
        BY <2>1, <2>2 DEF EndsIn
    <2>4. TypeOK'
        <3>1. shutdown' \in {"running", "graceful", "force"}
            BY <1>2 DEF Shapes, TypeOK
        <3>2. base' = NULL
            BY <1>0 DEF db
        <3> QED BY <1>0, <3>1, <3>2 DEF Shapes, TypeOK, db
    <2>5. CASE Len(todo) = 1
        <3>1. pc' = "kept" /\ whole' = file' /\ UNCHANGED <<base, closed>>
            BY <1>0, <1>2, <2>5 DEF db
        <3>2. todo' = <<>>
            <4>1. Len(todo') = 0
                BY <2>1, <2>5
            <4> QED BY <2>1, <4>1, EmptySeq DEF Sequence
        <3>3. <<>> \in Seq(Seq(Block))
            BY EmptySeq
        <3>4. Shapes'
            BY <1>0, <2>1, <2>4, <3>1, <3>2, <3>3 DEF Shapes, Working, db
        <3>5. whole' # <<>>
            <4>1. Len(whole') # 0
                BY <2>1, <3>1
            <4> QED BY <4>1
        <3>6. Worn'
            BY <3>1 DEF Worn
        <3>7. EndsIn(whole', 6) /\ Len(whole') - 6 = n
            BY <2>1, <2>2, <2>3, <2>5, <3>1
        <3> QED BY <1>0, <2>1, <3>1, <3>4, <3>5, <3>6, <3>7 DEF Footers
    <2>6. CASE Len(todo) # 1
        <3>1. UNCHANGED <<pc, whole, shutdown, base, closed>> /\ Len(todo) > 1
            <4>1. UNCHANGED <<pc, whole, shutdown>>
                BY <1>2, <2>6
            <4>2. Len(todo) > 1
                BY <2>1, <2>6
            <4> QED BY <1>0, <4>1, <4>2 DEF db
        <3>2. Shapes'
            BY <1>0, <2>1, <2>4, <3>1 DEF Shapes, Working, db
        <3>3. Len(todo') \in 1 .. 6 /\ DOMAIN todo' = 1 .. Len(todo')
            <4>1. Len(todo') = Len(todo) - 1 /\ Len(todo) \in 1 .. 6 /\ Len(todo) > 1
                BY <2>1, <3>1
            <4>2. DOMAIN todo' = 1 .. Len(todo')
                BY <2>1, SequenceShape
            <4> QED BY <4>1, <4>2
        <3>4. \A i \in DOMAIN todo' :
                  todo'[i] = Footer(SubSeq(file', 1, Len(file') + Len(todo') - 6))[6 - Len(todo') + i]
            <4> SUFFICES ASSUME NEW i \in 1 .. Len(todo')
                         PROVE  todo'[i] = Footer(SubSeq(file', 1, n))[6 - Len(todo') + i]
                BY <2>2, <3>3
            <4>1. todo'[i] = Footer(SubSeq(file, 1, n))[6 - Len(todo') + i]
                BY <2>1
            <4> QED BY <2>1, <4>1
        <3> QED BY <1>0, <2>1, <2>3, <3>1, <3>2, <3>3, <3>4 DEF Footers
    <2> QED BY <2>5, <2>6
<1> QED BY <1>1, <1>2 DEF WriteFooter, Goto

LEMMA DamageBoth == Shapes /\ Phases /\ Footers /\ Damage => Shapes' /\ Footers'
<1> SUFFICES ASSUME Shapes, Phases, Footers, Damage PROVE Shapes' /\ Footers'
    OBVIOUS
<1>0. /\ pc = "kept" /\ base = NULL /\ closed = "final" /\ whole # <<>> /\ Worn /\ EndsIn(whole, 6)
      /\ Unlocated(SubSeq(whole, 1, Len(whole) - 6))
      /\ UNCHANGED <<format, db, taken, session, history, shutdown, pc, launches>>
      /\ Len(file) = Len(whole)
    BY DEF Damage, Phases, Footers
<1>1. /\ Tokens(file) /\ Len(file) \in Nat /\ DOMAIN file = 1 .. Len(file)
      /\ DOMAIN whole = 1 .. Len(file)
    BY <1>0, SequenceShape DEF Shapes, Tokens
<1>2. \A i \in 1 .. Len(file) :
          \/ file[i] \in {whole[i], Junk}
          \/ i = Len(file) /\ \E n \in 0 .. Len(file) : file[i] = Token("offset", <<n>>)
    <2>1. \A i \in DOMAIN whole :
              \/ file[i] \in {whole[i], Junk}
              \/ i = Len(whole) /\ \E n \in 0 .. Len(whole) : file[i] = Token("offset", <<n>>)
        <3>1. ~(Len(file) < Len(whole))
            BY <1>0, <1>1
        <3> QED BY <1>0, <3>1 DEF Worn
    <2> QED BY <1>0, <1>1, <2>1
<1>3. Tokens(file') /\ Worn'
    <2>1. CASE \E i \in 1 .. Len(file), t \in {Junk} \cup {Token("offset", <<n>>) : n \in 0 .. Len(file)} :
                   file' = [file EXCEPT ![i] = t] /\ (t = Junk \/ i = Len(file))
        <3>1. PICK i \in 1 .. Len(file), t \in {Junk} \cup {Token("offset", <<n>>) : n \in 0 .. Len(file)} :
                   file' = [file EXCEPT ![i] = t] /\ (t = Junk \/ i = Len(file))
            BY <2>1
        <3>2. t.kind # "block" /\ (t = Junk \/ \E n \in 0 .. Len(file) : t = Token("offset", <<n>>))
            BY DEF Junk, Token
        <3> DEFINE S == {file[j] : j \in DOMAIN file} \cup {t}
        <3>3. file \in Seq(S) /\ t \in S
            BY <1>1, SeqMonotonic DEF Tokens, Sequence
        <3> HIDE DEF S
        <3>4. /\ file' \in Seq(S) /\ Len(file') = Len(file)
              /\ \A j \in 1 .. Len(file) : file'[j] = IF j = i THEN t ELSE file[j]
            BY <1>1, <3>1, <3>3, ExceptSeq
        <3>5. Sequence(file') /\ DOMAIN file' = 1 .. Len(file)
            BY <3>4, IsSequence, LenProperties
        <3>6. Tokens(file')
            BY <1>1, <3>2, <3>4, <3>5 DEF Tokens
        <3>7. \A j \in 1 .. Len(file) :
                  \/ file'[j] \in {whole[j], Junk}
                  \/ j = Len(file) /\ \E n \in 0 .. Len(file) : file'[j] = Token("offset", <<n>>)
            BY <1>2, <3>1, <3>2, <3>4
        <3>8. Worn'
            BY <1>0, <1>1, <3>4, <3>7 DEF Worn, history
        <3> QED BY <3>6, <3>8
    <2>2. CASE \E n \in 0 .. Len(file) - 1 : file' = SubSeq(file, 1, n)
        <3>1. PICK n \in 0 .. Len(file) - 1 : file' = SubSeq(file, 1, n)
            BY <2>2
        <3>2. Tokens(file') /\ Len(file') = n /\ \A i \in 1 .. n : file'[i] = file[i]
            BY <1>1, <3>1, TokensPrefix
        <3>3. PICK m \in Nat :
                  /\ Len(whole) = m + 6 /\ m = Len(whole) - 6
                  /\ whole[m + 1] = Magic /\ whole[m + 2] = Digest(SubSeq(whole, 1, m))
                  /\ whole[m + 3] = Token("xz", <<>>) /\ whole[m + 4] = Digest(Catalogue)
                  /\ whole[m + 5] = Magic
            BY <1>0, WholeShape DEF Shapes, Tokens
        <3>4. \A i \in 1 .. Len(file) - 1 : whole[i].kind # "offset"
            <4> SUFFICES ASSUME NEW i \in 1 .. Len(file) - 1 PROVE whole[i].kind # "offset"
                OBVIOUS
            <4>1. CASE i <= m
                <5>1. /\ Sequence(SubSeq(whole, 1, m)) /\ Len(SubSeq(whole, 1, m)) = m
                      /\ \A j \in 1 .. m : SubSeq(whole, 1, m)[j] = whole[j]
                    BY <3>3, Prefix DEF Shapes, Tokens
                <5>2. i \in DOMAIN SubSeq(whole, 1, m) /\ SubSeq(whole, 1, m)[i] = whole[i]
                    BY <4>1, <5>1, SequenceShape
                <5> QED BY <1>0, <3>3, <5>2 DEF Unlocated
            <4>2. CASE i > m
                <5>1. i \in {m + 1, m + 2, m + 3, m + 4, m + 5}
                    BY <1>0, <3>3, <4>2
                <5> QED BY <3>3, <5>1 DEF Magic, Digest, Token
            <4> QED BY <3>3, <4>1, <4>2
        <3>5. Unlocated(file')
            <4>1. DOMAIN file' = 1 .. n
                BY <3>2, SequenceShape DEF Tokens
            <4>2. \A i \in 1 .. n : file'[i] \in {whole[i], Junk} /\ i \in 1 .. Len(file) - 1
                <5> SUFFICES ASSUME NEW i \in 1 .. n
                             PROVE  file'[i] \in {whole[i], Junk} /\ i \in 1 .. Len(file) - 1
                    OBVIOUS
                <5>1. i \in 1 .. Len(file) - 1 /\ i # Len(file) /\ i \in 1 .. Len(file)
                    <6>1. Len(file) \in Nat /\ n \in 0 .. Len(file) - 1
                        BY <1>1
                    <6> HIDE DEF Sequence
                    <6> QED BY <6>1
                <5> QED BY <1>2, <3>2, <5>1
            <4> QED BY <3>4, <4>1, <4>2 DEF Unlocated, Junk, Token
        <3>6. Len(file') < Len(whole')
            BY <1>0, <1>1, <3>2 DEF history
        <3> QED BY <3>2, <3>5, <3>6 DEF Worn
    <2> QED BY <1>1, <2>1, <2>2 DEF Damage
<1>4. Shapes'
    BY <1>0, <1>3 DEF Shapes, TypeOK, Working, db, session, history
<1>5. Footers'
    BY <1>0, <1>3 DEF Footers, EndsIn, Unlocated, db, history
<1> QED BY <1>4, <1>5

-----------------------------------------------------------------------------
(* The blocks of a session are neither lost nor doubled.                   *)

Rest == SubSeq(buf, sent + 1, Len(buf))
Sunk == IF input = NULL THEN pending ELSE input \o Held
Balance == Blocks(file) \o ((coder \o Rest) \o Sunk) = (kept \o said) \o Trailing

LEMMA InFlightIs == InFlight = (coder \o Rest) \o Sunk
BY DEF InFlight, Rest, Sunk

LEMMA BlockConcat ==
    \A s, t \in Seq(Block) : s \o t \in Seq(Block) /\ Len(s \o t) = Len(s) + Len(t)
BY ConcatProperties

LEMMA BlockAssoc ==
    \A s, t, u \in Seq(Block) : (s \o t) \o u = s \o (t \o u)
BY ConcatAssociative

LEMMA BlockEmpty ==
    /\ <<>> \in Seq(Block)
    /\ \A s \in Seq(Block) : s \o <<>> = s /\ <<>> \o s = s
BY EmptySeq, ConcatEmptySeq

LEMMA FileBlocks ==
    ASSUME NEW f, Tokens(f)
    PROVE  Blocks(f) \in Seq(Block)
<1>1. \A i \in 1 .. Len(f) : f[i].kind = "block" => f[i].of \in Block
    BY SequenceShape DEF Tokens
<1> QED BY <1>1, BlocksTyped DEF Tokens

LEMMA RestTyped ==
    ASSUME Shapes
    PROVE  Rest \in Seq(Block)
<1>1. Len(buf) \in Nat /\ sent \in 0 .. Len(buf) /\ \A i \in 1 .. Len(buf) : buf[i] \in Block
    BY LenProperties DEF Shapes, TypeOK
<1>2. sent + 1 \in Int /\ Len(buf) \in Int /\ \A i \in sent + 1 .. Len(buf) : buf[i] \in Block
    BY <1>1
<1> QED BY <1>2, SubSeqProperties DEF Rest

LEMMA SunkTyped ==
    ASSUME Shapes, Phases, pc # "spinning"
    PROVE  Sunk \in Seq(Block)
<1>1. CASE input = NULL
    BY <1>1 DEF Sunk, Shapes
<1>2. CASE input # NULL
    <2>1. pc # "flush" => Len(pending) >= 2
        BY <1>2, NullNoSeq DEF Phases
    <2>2. Held \in Seq(Block) /\ input \in Seq(Block)
        BY <1>2, <2>1, HeldTyped DEF Shapes
    <2> QED BY <1>2, <2>2, ConcatProperties DEF Sunk
<1> QED BY <1>1, <1>2

\* The sink gains what is written to it.
LEMMA SinkGains ==
    ASSUME Shapes, input = NULL, NEW b \in Seq(Block), Sink(b), pc' # "flush"
    PROVE  Sunk' = pending \o b
<1>1. /\ pending' = pending \o b /\ pending' \in Seq(Block) /\ Len(pending') \in Nat
      /\ Len(pending') <= 2 => input' = NULL
      /\ Len(pending') > 2 => /\ input' = SubSeq(pending', 1, Len(pending') - 2)
                              /\ input' # NULL
    BY SinkTyped
<1>2. CASE Len(pending') <= 2
    BY <1>1, <1>2 DEF Sunk
<1>3. CASE Len(pending') > 2
    <2>1. Held' = SubSeq(pending', Len(pending') - 2 + 1, Len(pending'))
        BY NullNoSeq DEF Held
    <2>2. SubSeq(pending', 1, Len(pending') - 2) \o SubSeq(pending', Len(pending') - 2 + 1, Len(pending'))
              = SubSeq(pending', 1, Len(pending'))
        <3> DEFINE k == Len(pending') - 2
        <3>1. /\ 1 \in 1 .. Len(pending') + 1 /\ k \in 1 - 1 .. Len(pending')
              /\ Len(pending') \in k .. Len(pending')
            BY <1>1, <1>3
        <3> HIDE DEF k
        <3>2. SubSeq(pending', 1, k) \o SubSeq(pending', k + 1, Len(pending')) = SubSeq(pending', 1, Len(pending'))
            BY <1>1, <3>1, ConcatAdjacentSubSeq
        <3> QED BY <3>2 DEF k
    <2>3. SubSeq(pending', 1, Len(pending')) = pending'
        BY <1>1, SubSeqFull
    <2> QED BY <1>1, <1>3, <2>1, <2>2, <2>3 DEF Sunk
<1> QED BY <1>1, <1>2, <1>3

\* What the buffer takes stays behind what it has.
LEMMA BufferBalance ==
    ASSUME Shapes, Phases, Buffer, shutdown # "force"
    PROVE  Rest' \o Sunk' = Rest \o Sunk
<1>1. PICK n \in 1 .. Len(input) :
          /\ input \in Seq(Block) /\ input # NULL
          /\ SubSeq(input, 1, n) \in Seq(Block) /\ Len(SubSeq(input, 1, n)) = n
          /\ buf' = buf \o SubSeq(input, 1, n)
          /\ \/ n = Len(input) /\ input' = NULL /\ pending' = Held
             \/ /\ input' = SubSeq(input, n + 1, Len(input)) /\ input' \in Seq(Block)
                /\ input' # NULL /\ pending' = pending
    BY BufferMoves
<1> DEFINE x == SubSeq(input, 1, n)
<1>2. pc' = pc /\ sent' = sent /\ pc # "spinning"
    BY DEF Buffer
<1>3. Len(buf) \in Nat /\ sent \in 0 .. Len(buf) /\ Len(input) \in Nat /\ buf \in Seq(Block)
    BY <1>1, LenProperties DEF Shapes, TypeOK
<1>4. Held \in Seq(Block)
    <2>1. pc # "flush" => Len(pending) >= 2
        BY <1>1, <1>2, NullNoSeq DEF Phases
    <2> QED BY <2>1, HeldTyped
<1>5. Rest' = Rest \o x
    <2>1. /\ buf' \in Seq(Block) /\ Len(buf') = Len(buf) + n
          /\ \A i \in 1 .. Len(buf) + n : buf'[i] = IF i <= Len(buf) THEN buf[i] ELSE x[i - Len(buf)]
        BY <1>1, <1>3, ConcatProperties
    <2>2. /\ sent + 1 \in Int /\ Len(buf') \in Int /\ Len(buf') - (sent + 1) + 1 = Len(buf) + n - sent
          /\ \A i \in sent + 1 .. Len(buf') : buf'[i] \in Block
        <3>1. \A i \in 1 .. Len(buf') : buf'[i] \in Block
            BY <2>1, LenProperties
        <3> QED BY <1>3, <2>1, <3>1
    <2>3. /\ SubSeq(buf', sent + 1, Len(buf')) \in Seq(Block)
          /\ Len(SubSeq(buf', sent + 1, Len(buf'))) =
                 IF sent + 1 <= Len(buf') THEN Len(buf') - (sent + 1) + 1 ELSE 0
          /\ \A i \in 1 .. Len(buf') - (sent + 1) + 1 :
                 SubSeq(buf', sent + 1, Len(buf'))[i] = buf'[sent + 1 + i - 1]
        BY <2>2, SubSeqProperties
    <2>4. Rest' = SubSeq(buf', sent + 1, Len(buf'))
        BY <1>2 DEF Rest
    <2>5. /\ Rest' \in Seq(Block) /\ Len(Rest') = Len(buf) + n - sent
          /\ \A i \in 1 .. Len(buf) + n - sent : Rest'[i] = buf'[sent + i]
        BY <1>3, <2>1, <2>2, <2>3, <2>4
    <2>6. /\ Rest \in Seq(Block) /\ Len(Rest) = Len(buf) - sent
          /\ \A i \in 1 .. Len(buf) - sent : Rest[i] = buf[sent + i]
        <3>1. sent + 1 \in Int /\ Len(buf) \in Int /\ \A i \in sent + 1 .. Len(buf) : buf[i] \in Block
            BY <1>3, LenProperties
        <3>2. /\ Len(Rest) = IF sent + 1 <= Len(buf) THEN Len(buf) - (sent + 1) + 1 ELSE 0
              /\ \A i \in 1 .. Len(buf) - (sent + 1) + 1 : Rest[i] = buf[sent + 1 + i - 1]
            BY <3>1, SubSeqProperties DEF Rest
        <3> QED BY <1>3, <3>2, RestTyped
    <2> HIDE DEF x
    <2>7. x \in Seq(Block) /\ Len(x) = n
        BY <1>1 DEF x
    <2>8. /\ Rest \o x \in Seq(Block) /\ Len(Rest \o x) = Len(buf) - sent + n
          /\ \A i \in 1 .. Len(buf) - sent + n :
                 (Rest \o x)[i] = IF i <= Len(buf) - sent THEN Rest[i] ELSE x[i - (Len(buf) - sent)]
        <3>1. /\ Rest \o x \in Seq(Block) /\ Len(Rest \o x) = Len(Rest) + Len(x)
              /\ \A i \in 1 .. Len(Rest) + Len(x) :
                     (Rest \o x)[i] = IF i <= Len(Rest) THEN Rest[i] ELSE x[i - Len(Rest)]
            BY <2>6, <2>7, ConcatProperties
        <3> QED BY <2>6, <2>7, <3>1
    <2>9. \A i \in 1 .. Len(Rest') : Rest'[i] = (Rest \o x)[i]
        <3> SUFFICES ASSUME NEW i \in 1 .. Len(buf) + n - sent PROVE Rest'[i] = (Rest \o x)[i]
            BY <2>5
        <3> DEFINE k == sent + i
        <3>1. i \in 1 .. Len(buf) - sent + n /\ k \in 1 .. Len(buf) + n
              /\ (k <= Len(buf) <=> i <= Len(buf) - sent)
              /\ k - Len(buf) = i - (Len(buf) - sent)
            BY <1>3
        <3>2. Rest'[i] = buf'[k] /\ (i <= Len(buf) - sent => Rest[i] = buf[k])
            BY <1>3, <2>5, <2>6
        <3> HIDE DEF k
        <3>3. buf'[k] = IF k <= Len(buf) THEN buf[k] ELSE x[k - Len(buf)]
            BY <2>1, <3>1
        <3>4. (Rest \o x)[i] = IF i <= Len(buf) - sent THEN Rest[i] ELSE x[i - (Len(buf) - sent)]
            BY <2>8, <3>1
        <3> QED BY <3>1, <3>2, <3>3, <3>4, Zenon
    <2>10. Len(Rest') = Len(Rest \o x)
        BY <1>3, <2>5, <2>8
    <2> QED BY <2>5, <2>8, <2>9, <2>10, SeqEqual
<1>6. Rest \in Seq(Block) /\ x \in Seq(Block)
    BY <1>1, RestTyped
<1>7. CASE n = Len(input) /\ input' = NULL /\ pending' = Held
    <2>1. x = input /\ Sunk' = Held /\ Sunk = input \o Held
        BY <1>1, <1>7, SubSeqFull DEF Sunk
    <2> HIDE DEF x
    <2>2. (Rest \o x) \o Held = Rest \o (x \o Held)
        BY <1>4, <1>6, BlockAssoc
    <2> QED BY <1>5, <2>1, <2>2
<1>8. CASE /\ input' = SubSeq(input, n + 1, Len(input)) /\ input' \in Seq(Block)
           /\ input' # NULL /\ pending' = pending
    <2>1. x \o input' = input
        <3>1. 1 \in 1 .. Len(input) + 1 /\ n \in 1 - 1 .. Len(input) /\ Len(input) \in n .. Len(input)
            BY <1>3
        <3>2. SubSeq(input, 1, n) \o SubSeq(input, n + 1, Len(input)) = SubSeq(input, 1, Len(input))
            BY <1>1, <3>1, ConcatAdjacentSubSeq
        <3>3. SubSeq(input, 1, Len(input)) = input
            BY <1>1, SubSeqFull
        <3> QED BY <1>8, <3>2, <3>3
    <2>2. Sunk' = input' \o Held /\ Sunk = (x \o input') \o Held
        BY <1>1, <1>2, <1>8, <2>1 DEF Sunk, Held
    <2> HIDE DEF x
    <2>3. (x \o input') \o Held = x \o (input' \o Held)
        BY <1>4, <1>6, <1>8, BlockAssoc
    <2>4. input' \o Held \in Seq(Block)
        BY <1>4, <1>8, ConcatProperties
    <2>5. (Rest \o x) \o (input' \o Held) = Rest \o (x \o (input' \o Held))
        BY <1>6, <2>4, BlockAssoc
    <2> QED BY <1>5, <2>2, <2>3, <2>5
<1> QED BY <1>1, <1>7, <1>8

\* What leaves the buffer is in the file or the compressor.
LEMMA FlushBalance ==
    ASSUME Shapes, Phases, FlushBuf
    PROVE  /\ Blocks(file') \o (coder' \o Rest') = Blocks(file) \o (coder \o Rest)
           /\ Sunk' = Sunk
<1>0. <<>> # NULL
    BY NullNoSeq, EmptySeq
<1>1. PICK n \in 1 .. Len(buf) - sent :
          /\ Taken(n)
          /\ buf' = IF sent + n = Len(buf) THEN <<>> ELSE buf
          /\ sent' = IF sent + n = Len(buf) THEN 0 ELSE sent + n
          /\ \/ input = <<>> /\ input' = NULL /\ pending' = Held
             \/ input' = input /\ pending' = pending
    BY <1>0 DEF FlushBuf
<1> DEFINE s == SubSeq(buf, sent + 1, sent + n)
<1>2. /\ Len(buf) \in Nat /\ sent \in 0 .. Len(buf) /\ buf \in Seq(Block)
      /\ file' = file' /\ Tokens(file) /\ coder \in Seq(Block)
    BY LenProperties DEF Shapes, TypeOK
<1>3. Grows /\ coder' \in Seq(Block) /\ s \in Seq(Block)
    <2>1. n \in 0 .. Len(buf) - sent
        BY <1>2
    <2> QED BY <1>1, <2>1, TakenGrows
<1>4. Rest' \in Seq(Block) /\ Rest = s \o Rest'
    <2>1. CASE sent + n = Len(buf)
        <3>1. Rest' = SubSeq(<<>>, 1, 0)
            <4>1. buf' = <<>> /\ sent' = 0 /\ Len(<<>>) = 0
                BY <1>1, <2>1
            <4> QED BY <4>1 DEF Rest
        <3>2. Rest' = <<>>
            BY <3>1, SubSeqEmpty
        <3>3. s = Rest
            BY <2>1 DEF Rest
        <3> QED BY <1>3, <3>2, <3>3, BlockEmpty
    <2>2. CASE sent + n # Len(buf)
        <3>1. Rest' = SubSeq(buf, sent + n + 1, Len(buf))
            BY <1>1, <2>2 DEF Rest
        <3>2. /\ sent + 1 \in 1 .. Len(buf) + 1 /\ sent + n \in (sent + 1) - 1 .. Len(buf)
              /\ Len(buf) \in sent + n .. Len(buf)
            BY <1>2
        <3>3. SubSeq(buf, sent + 1, sent + n) \o SubSeq(buf, (sent + n) + 1, Len(buf))
                  = SubSeq(buf, sent + 1, Len(buf))
            BY <1>2, <3>2, ConcatAdjacentSubSeq
        <3>4. SubSeq(buf, sent + n + 1, Len(buf)) \in Seq(Block)
            <4>1. sent + n + 1 \in Int /\ Len(buf) \in Int
                  /\ \A i \in sent + n + 1 .. Len(buf) : buf[i] \in Block
                BY <1>2, LenProperties
            <4> QED BY <4>1, SubSeqProperties
        <3> QED BY <3>1, <3>3, <3>4 DEF Rest
    <2> QED BY <2>1, <2>2
<1>5. Blocks(file) \in Seq(Block) /\ Rest \in Seq(Block)
    BY <1>2, FileBlocks, RestTyped
<1> HIDE DEF s
<1>6. Blocks(file') \o (coder' \o Rest') = Blocks(file) \o (coder \o Rest)
    <2>1. CASE format = "none"
        <3>1. file' = file \o Encoded(s) /\ coder = <<>> /\ coder' = <<>>
            BY <1>1, <2>1 DEF Taken, Phases, s
        <3>2. Blocks(file') = Blocks(file) \o s
            BY <1>2, <1>3, <1>5, <3>1, BlocksEncoded DEF Tokens
        <3>3. coder' \o Rest' = Rest' /\ coder \o Rest = Rest
            BY <1>4, <1>5, <3>1, BlockEmpty
        <3>4. (Blocks(file) \o s) \o Rest' = Blocks(file) \o (s \o Rest')
            BY <1>3, <1>4, <1>5, BlockAssoc, ZenonT(30)
        <3> QED BY <1>4, <3>2, <3>3, <3>4
    <2>2. CASE format # "none"
        <3>1. coder' = coder \o s /\ UNCHANGED file
            BY <1>1, <2>2 DEF Taken, s
        <3>2. (coder \o s) \o Rest' = coder \o (s \o Rest')
            BY <1>2, <1>3, <1>4, BlockAssoc
        <3> QED BY <1>4, <3>1, <3>2
    <2> QED BY <2>1, <2>2
<1>7. Sunk' = Sunk
    <2>1. CASE input = <<>> /\ input' = NULL /\ pending' = Held
        <3>1. Held \in Seq(Block)
            <4>1. pc # "flush" => Len(pending) >= 2
                BY <1>0, <2>1, NullNoSeq DEF FlushBuf, Flushing, Phases
            <4> QED BY <4>1, HeldTyped
        <3> QED BY <1>0, <2>1, <3>1, BlockEmpty DEF Sunk
    <2>2. CASE input' = input /\ pending' = pending
        BY <2>2 DEF Sunk, Held, FlushBuf
    <2> QED BY <1>1, <2>1, <2>2
<1> QED BY <1>6, <1>7

LEMMA EmitBalance ==
    ASSUME Shapes, Emit
    PROVE  Blocks(file') \o (coder' \o Rest') = Blocks(file) \o (coder \o Rest)
<1> DEFINE h == <<Head(coder)>>
<1>1. h \in Seq(Block) /\ coder \in Seq(Block) /\ coder # <<>> /\ Tail(coder) \in Seq(Block)
    BY EmitGrows, HeadTailProperties DEF Emit, Shapes
<1>2. h \o Tail(coder) = coder
    <2>1. /\ Head(coder) = coder[1] /\ Len(Tail(coder)) = Len(coder) - 1 /\ Len(coder) \in Nat
          /\ \A i \in 1 .. Len(Tail(coder)) : Tail(coder)[i] = coder[i + 1]
        BY <1>1, HeadTailProperties, LenProperties
    <2>2. /\ h \o Tail(coder) \in Seq(Block) /\ Len(h \o Tail(coder)) = Len(h) + Len(Tail(coder))
          /\ \A i \in 1 .. Len(h) + Len(Tail(coder)) :
                 (h \o Tail(coder))[i] = IF i <= Len(h) THEN h[i] ELSE Tail(coder)[i - Len(h)]
        BY <1>1, ConcatProperties
    <2>3. Len(h) = 1 /\ h[1] = coder[1]
        BY <2>1
    <2> HIDE DEF h
    <2>4. \A i \in 1 .. Len(h \o Tail(coder)) : (h \o Tail(coder))[i] = coder[i]
        BY <2>1, <2>2, <2>3
    <2>5. Len(h \o Tail(coder)) = Len(coder)
        BY <2>1, <2>2, <2>3
    <2> QED BY <1>1, <2>2, <2>4, <2>5, SeqEqual
<1>3. Tokens(file) /\ Blocks(file) \in Seq(Block) /\ Rest \in Seq(Block) /\ Rest' = Rest
    BY FileBlocks, RestTyped DEF Shapes, Emit, Rest
<1>4. file' = file \o Encoded(h) /\ coder' = Tail(coder)
    BY DEF Emit
<1> HIDE DEF h
<1>5. Blocks(file') = Blocks(file) \o h
    BY <1>1, <1>3, <1>4, BlocksEncoded DEF Tokens
<1>6. Tail(coder) \o Rest \in Seq(Block)
    BY <1>1, <1>3, BlockConcat
<1>7. (Blocks(file) \o h) \o (Tail(coder) \o Rest) = Blocks(file) \o (h \o (Tail(coder) \o Rest))
    BY <1>1, <1>3, <1>6, BlockAssoc, ZenonT(30)
<1>8. (h \o Tail(coder)) \o Rest = h \o (Tail(coder) \o Rest)
    BY <1>1, <1>3, BlockAssoc, ZenonT(30)
<1> QED BY <1>2, <1>3, <1>4, <1>5, <1>7, <1>8

\* What a session does to the file leaves the closed sessions as they were.
LEMMA ArchiveKept ==
    ASSUME Shapes, Grows, base # NULL, UNCHANGED <<base, whole>>, whole = <<>>
    PROVE  Archive' = Archive
<1>1. base \in Nat /\ base <= Len(file) /\ base <= Len(file') /\ Len(file) \in Nat
    BY SequenceShape DEF Shapes, TypeOK, Grows, Tokens
<1>2. /\ Sequence(SubSeq(file, 1, base)) /\ Len(SubSeq(file, 1, base)) = base
      /\ \A i \in 1 .. base : SubSeq(file, 1, base)[i] = file[i]
    BY <1>1, Prefix DEF Shapes, Tokens
<1>3. /\ Sequence(SubSeq(file', 1, base)) /\ Len(SubSeq(file', 1, base)) = base
      /\ \A i \in 1 .. base : SubSeq(file', 1, base)[i] = file'[i]
    BY <1>1, Prefix DEF Grows, Tokens
<1>4. \A i \in 1 .. base : SubSeq(file', 1, base)[i] = SubSeq(file, 1, base)[i]
    BY <1>1, <1>2, <1>3 DEF Grows
<1>5. SubSeq(file', 1, base) = SubSeq(file, 1, base)
    BY <1>2, <1>3, <1>4, SequenceEqual
<1> QED BY <1>5 DEF Archive

LEMMA SessionConserved ==
    ASSUME Shapes, Phases, Footers, Conserved, Grows, pc \in Working \cup {"abandon", "spinning"},
           UNCHANGED <<base, whole, closed, kept, format>>, faulty' = {} => faulty = {},
           faulty = {} /\ pc' \in Working => Balance',
           faulty = {} /\ pc' = "close" /\ format # "none" => Ended(file')
    PROVE  Conserved'
<1>1. base # NULL /\ whole = <<>>
    BY DEF Phases, Footers, Working
<1>2. Archive' = Archive
    BY <1>1, ArchiveKept
<1>3. InFlight' = (coder' \o Rest') \o Sunk'
    BY DEF InFlight, Rest, Sunk
<1>4. Blocks(Archive') = Blocks(Archive) /\ (Ended(Archive') <=> Ended(Archive))
    BY <1>2
<1> QED BY <1>3, <1>4 DEF Conserved, Balance

LEMMA BalanceHolds ==
    ASSUME Conserved, faulty = {}, pc \in Working
    PROVE  Balance
BY InFlightIs DEF Conserved, Balance

\* What each part of a balance is, before a step of a session.
LEMMA PartsTyped ==
    ASSUME Shapes, Phases, pc # "spinning"
    PROVE  /\ Blocks(file) \in Seq(Block) /\ coder \in Seq(Block) /\ Rest \in Seq(Block)
           /\ Sunk \in Seq(Block) /\ kept \in Seq(Block) /\ said \in Seq(Block)
           /\ coder \o Rest \in Seq(Block) /\ kept \o said \in Seq(Block)
<1>1. /\ Blocks(file) \in Seq(Block) /\ coder \in Seq(Block) /\ Rest \in Seq(Block)
      /\ Sunk \in Seq(Block) /\ kept \in Seq(Block) /\ said \in Seq(Block)
    BY FileBlocks, RestTyped, SunkTyped DEF Shapes
<1> QED BY <1>1, BlockConcat

\* The same, of the state after a step.
LEMMA PartsImplied ==
    /\ Shapes => Rest \in Seq(Block)
    /\ Shapes /\ Phases /\ pc # "spinning" => Sunk \in Seq(Block)
BY RestTyped, SunkTyped

LEMMA PartsImpliedNext ==
    (/\ Shapes => Rest \in Seq(Block)
     /\ Shapes /\ Phases /\ pc # "spinning" => Sunk \in Seq(Block))'
BY PartsImplied, PTL

LEMMA PartsTypedNext ==
    ASSUME Shapes', Phases', pc' # "spinning"
    PROVE  /\ Rest' \in Seq(Block) /\ Sunk' \in Seq(Block) /\ coder' \in Seq(Block)
           /\ Blocks(file') \in Seq(Block)
<1>1. Rest' \in Seq(Block)
    BY PartsImpliedNext
<1>2. Sunk' \in Seq(Block)
    BY PartsImpliedNext
<1>3. coder' \in Seq(Block) /\ Tokens(file')
    BY DEF Shapes
<1> QED BY <1>1, <1>2, <1>3, FileBlocks

\* A step that moves blocks on, from one place to the next.
LEMMA BalanceMoved ==
    ASSUME Shapes, Phases, Shapes', Phases', pc # "spinning", pc' # "spinning", Balance,
           Blocks(file') \o (coder' \o Rest') = Blocks(file) \o (coder \o Rest),
           Sunk' = Sunk, UNCHANGED <<kept, said>>, Trailing' = Trailing
    PROVE  Balance'
<1>1. /\ Blocks(file) \in Seq(Block) /\ coder \o Rest \in Seq(Block) /\ Sunk \in Seq(Block)
      /\ Blocks(file') \in Seq(Block) /\ coder' \o Rest' \in Seq(Block) /\ Sunk' \in Seq(Block)
    <2>1. /\ Blocks(file') \in Seq(Block) /\ coder' \in Seq(Block) /\ Rest' \in Seq(Block)
        <3>1. Tokens(file') /\ coder' \in Seq(Block)
            BY DEF Shapes
        <3>2. Blocks(file') \in Seq(Block)
            BY <3>1, FileBlocks
        <3>3. Rest' \in Seq(Block)
            BY PartsImpliedNext
        <3> QED BY <3>1, <3>2, <3>3
    <2> QED BY <2>1, PartsTyped, BlockConcat
<1>2. Blocks(file) \o ((coder \o Rest) \o Sunk) = (Blocks(file) \o (coder \o Rest)) \o Sunk
    BY <1>1, BlockAssoc, ZenonT(30)
<1>3. Blocks(file') \o ((coder' \o Rest') \o Sunk') = (Blocks(file') \o (coder' \o Rest')) \o Sunk'
    BY <1>1, BlockAssoc, ZenonT(30)
<1> QED BY <1>2, <1>3 DEF Balance

\* A step that gives the sink more.
LEMMA BalanceGains ==
    ASSUME Shapes, Phases, pc # "spinning", Balance, NEW b \in Seq(Block), Sunk' = Sunk \o b,
           Trailing = <<>>, UNCHANGED <<file, coder, buf, sent>>
    PROVE  Blocks(file') \o ((coder' \o Rest') \o Sunk') = (kept \o said) \o b
<1>1. /\ Blocks(file) \in Seq(Block) /\ coder \o Rest \in Seq(Block) /\ Sunk \in Seq(Block)
      /\ kept \o said \in Seq(Block) /\ (coder \o Rest) \o Sunk \in Seq(Block)
    BY PartsTyped, BlockConcat
<1>2. Rest' = Rest /\ coder' = coder /\ Blocks(file') = Blocks(file)
    BY DEF Rest
<1>3. Blocks(file) \o ((coder \o Rest) \o Sunk) = kept \o said
    BY <1>1, BlockEmpty DEF Balance
<1> DEFINE c == coder \o Rest
           f == Blocks(file)
<1> HIDE DEF c, f
<1>4. c \o (Sunk \o b) = (c \o Sunk) \o b
    <2>1. c \in Seq(Block)
        BY <1>1 DEF c
    <2> QED BY <1>1, <2>1, BlockAssoc, ZenonT(30)
<1>5. f \o ((c \o Sunk) \o b) = (f \o (c \o Sunk)) \o b
    <2>1. f \in Seq(Block) /\ c \o Sunk \in Seq(Block)
        BY <1>1 DEF c, f
    <2> QED BY <2>1, BlockAssoc, ZenonT(30)
<1> QED BY <1>2, <1>3, <1>4, <1>5 DEF c, f

LEMMA NextMemberConserved == Shapes /\ Phases /\ Footers /\ Conserved /\ NextMember => Conserved'
<1> SUFFICES ASSUME Shapes, Phases, Footers, Conserved, NextMember PROVE Conserved'
    OBVIOUS
<1>1. /\ pc = "next" /\ pc' \in {"abandon", "snapshot", "member"}
      /\ UNCHANGED <<file, db, pending, input, buf, sent, coder, history, env>>
    BY DEF NextMember, Goto
<1>2. Grows
    BY <1>1, GrowsUnchanged DEF Shapes
<1>3. ASSUME faulty = {} PROVE Balance'
    <2>1. Balance
        BY <1>1, <1>3, BalanceHolds DEF Working
    <2>2. Trailing = <<>> /\ Trailing' = <<>> /\ Rest' = Rest
        BY <1>1 DEF Trailing, Rest
    <2>3. Sunk' = Sunk
        BY <1>1 DEF Sunk, Held
    <2> QED BY <1>1, <2>1, <2>2, <2>3 DEF Balance, history
<1> QED BY <1>1, <1>2, <1>3, SessionConserved DEF db, history, env, Working

LEMMA WriteConserved == Shapes /\ Phases /\ Footers /\ Conserved /\ Write => Conserved'
<1> SUFFICES ASSUME Shapes, Phases, Footers, Conserved, Write PROVE Conserved'
    OBVIOUS
<1> DEFINE h == Head(todo)
<1>1. /\ pc \in {"member", "snapshot"} /\ input = NULL /\ Sink(h) /\ said' = said \o h
      /\ UNCHANGED <<file, db, taken, buf, sent, coder, kept, faulty, whole, pc, env>>
    BY DEF Write
<1>2. h \in Seq(Block)
    <2>1. todo \in Seq(Seq(Block)) /\ todo # <<>>
        BY DEF Shapes, Write
    <2> QED BY <2>1, HeadTailProperties
<1> HIDE DEF h
<1>3. Grows
    BY <1>1, GrowsUnchanged DEF Shapes
<1>4. ASSUME faulty = {} PROVE Balance'
    <2>1. Balance
        BY <1>1, <1>4, BalanceHolds DEF Working
    <2>2. Trailing = <<>> /\ Trailing' = <<>> /\ Sunk = pending
        BY <1>1 DEF Trailing, Sunk
    <2>3. Sunk' = Sunk \o h
        BY <1>1, <1>2, <2>2, SinkGains
    <2>4. Blocks(file') \o ((coder' \o Rest') \o Sunk') = (kept \o said) \o h
        BY <1>1, <1>2, <2>1, <2>2, <2>3, BalanceGains
    <2>5. (kept \o said) \o h = kept \o (said \o h) /\ kept \o (said \o h) \in Seq(Block)
        <3>1. kept \in Seq(Block) /\ said \in Seq(Block)
            BY DEF Shapes
        <3>2. (kept \o said) \o h = kept \o (said \o h)
            BY <1>2, <3>1, BlockAssoc, ZenonT(30)
        <3>3. said \o h \in Seq(Block)
            BY <1>2, <3>1, BlockConcat, Zenon
        <3>4. kept \o (said \o h) \in Seq(Block)
            BY <3>1, <3>3, BlockConcat, Zenon
        <3> QED BY <3>2, <3>4
    <2>6. (kept' \o said') \o Trailing' = (kept \o said) \o h
        BY <1>1, <2>2, <2>5, BlockEmpty
    <2> QED BY <2>4, <2>6 DEF Balance
<1> QED BY <1>1, <1>3, <1>4, SessionConserved DEF db, env, Working

LEMMA WrittenConserved == Shapes /\ Phases /\ Footers /\ Conserved /\ Written => Conserved'
<1> SUFFICES ASSUME Shapes, Phases, Footers, Conserved, Written PROVE Conserved'
    OBVIOUS
<1>1. /\ pc \in {"member", "snapshot"} /\ pc' \in {"next", "eof"}
      /\ UNCHANGED <<file, db, taken, session, history, env>>
    BY DEF Written, Goto
<1>2. Grows
    BY <1>1, GrowsUnchanged DEF Shapes
<1>3. ASSUME faulty = {} PROVE Balance'
    <2>1. Balance
        BY <1>1, <1>3, BalanceHolds DEF Working
    <2>2. Trailing = <<>> /\ Trailing' = <<>> /\ Rest' = Rest
        BY <1>1 DEF Trailing, Rest, session
    <2>3. Sunk' = Sunk
        BY <1>1 DEF Sunk, Held, session
    <2> QED BY <1>1, <2>1, <2>2, <2>3 DEF Balance, history, session
<1> QED BY <1>1, <1>2, <1>3, SessionConserved DEF db, history, env, Working

LEMMA PassingOn ==
    ASSUME Shapes, Phases, input # NULL
    PROVE  pc \in Working \cup {"spinning"}
BY DEF Shapes, Phases, Working

LEMMA BufferConserved == Shapes /\ Phases /\ Footers /\ Conserved /\ Buffer => Conserved'
<1> SUFFICES ASSUME Shapes, Phases, Footers, Conserved, Buffer PROVE Conserved'
    OBVIOUS
<1>1. /\ input # NULL /\ pc # "spinning"
      /\ UNCHANGED <<file, db, taken, todo, sent, coder, history, env>>
    BY DEF Buffer
<1>2. Grows /\ pc \in Working
    BY <1>1, GrowsUnchanged, PassingOn DEF Shapes
<1>3. ASSUME faulty = {}, pc' \in Working PROVE Balance'
    <2>1. Balance
        BY <1>2, <1>3, BalanceHolds
    <2>2. shutdown # "force" /\ pc' = pc
        BY <1>3 DEF Buffer, Goto, Working
    <2>3. Rest' \o Sunk' = Rest \o Sunk
        BY <2>2, BufferBalance
    <2>4. Shapes' /\ Phases'
        BY BufferShapes, BufferPhases
    <2>5. Rest' \in Seq(Block) /\ Sunk' \in Seq(Block)
        BY <1>1, <2>2, <2>4, PartsTypedNext
    <2>6. Rest \in Seq(Block) /\ Sunk \in Seq(Block) /\ coder \in Seq(Block)
        BY <1>1, PartsTyped
    <2>7. (coder \o Rest) \o Sunk = (coder \o Rest') \o Sunk'
        <3>1. (coder \o Rest) \o Sunk = coder \o (Rest \o Sunk)
            BY <2>6, BlockAssoc, ZenonT(30)
        <3>2. (coder \o Rest') \o Sunk' = coder \o (Rest' \o Sunk')
            BY <2>5, <2>6, BlockAssoc, ZenonT(30)
        <3> QED BY <2>3, <3>1, <3>2
    <2>8. Trailing' = Trailing
        BY <1>1, <2>2 DEF Trailing, AllTaken
    <2> QED BY <1>1, <2>1, <2>7, <2>8 DEF Balance, history
<1>4. pc' # "close"
    BY <1>1, <1>2 DEF Buffer, Goto, Phases
<1> QED BY <1>1, <1>2, <1>3, <1>4, SessionConserved DEF db, history, env

LEMMA FlushBufConserved == Shapes /\ Phases /\ Footers /\ Conserved /\ FlushBuf => Conserved'
<1> SUFFICES ASSUME Shapes, Phases, Footers, Conserved, FlushBuf PROVE Conserved'
    OBVIOUS
<1>1. /\ pc # "spinning" /\ (input # NULL \/ pc = "flush")
      /\ UNCHANGED <<db, taken, todo, history, pc, env>>
    BY DEF FlushBuf, Flushing
<1>2. pc \in Working /\ pc # "close"
    <2>1. CASE input # NULL
        BY <1>1, <2>1, PassingOn DEF Phases
    <2>2. CASE pc = "flush"
        BY <2>2 DEF Working
    <2> QED BY <1>1, <2>1, <2>2
<1>3. Grows
    <2>1. PICK n \in 1 .. Len(buf) - sent : Taken(n)
        BY DEF FlushBuf
    <2>2. Len(buf) \in Nat /\ sent \in 0 .. Len(buf)
        BY LenProperties DEF Shapes, TypeOK
    <2>3. n \in 0 .. Len(buf) - sent
        BY <2>2
    <2> QED BY <2>1, <2>3, TakenGrows
<1>4. ASSUME faulty = {} PROVE Balance'
    <2>1. Balance
        BY <1>2, <1>4, BalanceHolds
    <2>2. Shapes' /\ Phases'
        BY FlushBufShapes, FlushBufPhases
    <2>3. /\ Blocks(file') \o (coder' \o Rest') = Blocks(file) \o (coder \o Rest)
          /\ Sunk' = Sunk
        BY FlushBalance
    <2>4. Trailing' = Trailing
        BY <1>1 DEF Trailing, AllTaken
    <2> QED BY <1>1, <2>1, <2>2, <2>3, <2>4, BalanceMoved DEF history
<1> QED BY <1>1, <1>2, <1>3, <1>4, SessionConserved DEF db, history, env

LEMMA FlushInterruptedConserved ==
    Shapes /\ Phases /\ Footers /\ Conserved /\ FlushInterrupted => Conserved'
<1> SUFFICES ASSUME Shapes, Phases, Footers, Conserved, FlushInterrupted PROVE Conserved'
    OBVIOUS
<1>1. /\ pc # "spinning" /\ (input # NULL \/ pc = "flush")
      /\ UNCHANGED <<file, db, taken, history, env>> /\ pc' \in {"spinning", "ended"}
    BY DEF FlushInterrupted, Flushing, Goto
<1>2. pc \in Working
    BY <1>1, PassingOn DEF Working
<1>3. Grows
    BY <1>1, GrowsUnchanged DEF Shapes
<1>4. pc' \notin Working /\ pc' # "close"
    BY <1>1 DEF Working
<1> QED BY <1>1, <1>2, <1>3, <1>4, SessionConserved DEF db, history, env

LEMMA WriteFailsConserved == WriteFails => Conserved'
<1> SUFFICES ASSUME WriteFails PROVE Conserved'
    OBVIOUS
<1>1. faulty' # {}
    BY DEF WriteFails
<1> QED BY <1>1 DEF Conserved

LEMMA EmitConserved == Shapes /\ Phases /\ Footers /\ Conserved /\ Emit => Conserved'
<1> SUFFICES ASSUME Shapes, Phases, Footers, Conserved, Emit PROVE Conserved'
    OBVIOUS
<1>1. /\ coder # <<>> /\ pc # "ended"
      /\ UNCHANGED <<db, taken, todo, pending, input, buf, sent, history, pc, env>>
    BY DEF Emit
<1>2. pc \in Working \cup {"abandon", "spinning"} /\ pc # "close"
    BY <1>1 DEF Shapes, Phases
<1>3. Grows
    BY EmitGrows
<1>4. ASSUME faulty = {}, pc' \in Working PROVE Balance'
    <2>1. Balance /\ pc # "spinning"
        BY <1>1, <1>4, BalanceHolds DEF Working
    <2>2. Shapes' /\ Phases'
        BY EmitShapes, EmitPhases
    <2>3. Blocks(file') \o (coder' \o Rest') = Blocks(file) \o (coder \o Rest)
        BY EmitBalance
    <2>4. Trailing' = Trailing /\ Sunk' = Sunk
        BY <1>1 DEF Trailing, AllTaken, Sunk, Held
    <2> QED BY <1>1, <2>1, <2>2, <2>3, <2>4, BalanceMoved DEF history
<1> QED BY <1>1, <1>2, <1>3, <1>4, SessionConserved DEF db, history, env

LEMMA EofConserved == Shapes /\ Phases /\ Footers /\ Conserved /\ Eof => Conserved'
<1> SUFFICES ASSUME Shapes, Phases, Footers, Conserved, Eof PROVE Conserved'
    OBVIOUS
<1>1. /\ pc = "eof" /\ Sink(TarEof) /\ pc' = "resolve"
      /\ UNCHANGED <<file, db, taken, todo, buf, sent, coder, history, env>>
    BY DEF Eof, Goto
<1>2. input = NULL
    BY <1>1 DEF Phases
<1>3. Grows
    BY <1>1, GrowsUnchanged DEF Shapes
<1>4. ASSUME faulty = {} PROVE Balance'
    <2>1. Balance
        BY <1>1, <1>4, BalanceHolds DEF Working
    <2>2. Trailing = <<>> /\ Trailing' = TarEof /\ Sunk = pending
        BY <1>1, <1>2 DEF Trailing, Sunk
    <2>3. Sunk' = Sunk \o TarEof
        BY <1>1, <1>2, <2>2, SinkGains, NullNoSeq
    <2>4. Blocks(file') \o ((coder' \o Rest') \o Sunk') = (kept \o said) \o TarEof
        BY <1>1, <2>1, <2>2, <2>3, BalanceGains, NullNoSeq
    <2> QED BY <1>1, <2>2, <2>4 DEF Balance, history
<1> QED BY <1>1, <1>3, <1>4, SessionConserved DEF db, env, history, Working

LEMMA AbandonConserved == Shapes /\ Phases /\ Footers /\ Conserved /\ Abandon => Conserved'
<1> SUFFICES ASSUME Shapes, Phases, Footers, Conserved, Abandon PROVE Conserved'
    OBVIOUS
<1>1. /\ pc = "abandon" /\ UNCHANGED <<file, db, taken, history, env>>
      /\ pc' \in {"spinning", "ended"}
    BY DEF Abandon, Goto
<1>2. Grows
    BY <1>1, GrowsUnchanged DEF Shapes
<1>3. pc' \notin Working /\ pc' # "close"
    BY <1>1 DEF Working
<1> QED BY <1>1, <1>2, <1>3, SessionConserved DEF db, history, env

LEMMA ResolveConserved == Shapes /\ Phases /\ Footers /\ Conserved /\ Resolve => Conserved'
<1> SUFFICES ASSUME Shapes, Phases, Footers, Conserved, Resolve PROVE Conserved'
    OBVIOUS
<1>1. /\ pc = "resolve" /\ input = NULL /\ pc' = "flush" /\ pending = TarEof
      /\ UNCHANGED <<file, db, taken, todo, buf, sent, coder, history, env>>
    BY DEF Resolve, Goto, Phases
<1>2. Grows
    BY <1>1, GrowsUnchanged DEF Shapes
<1>3. ASSUME faulty = {} PROVE Balance'
    <2>1. Balance
        BY <1>1, <1>3, BalanceHolds DEF Working
    <2>2. Trailing = TarEof /\ Sunk = TarEof /\ Rest' = Rest /\ (AllTaken' <=> AllTaken)
        BY <1>1 DEF Trailing, Sunk, Rest, AllTaken
    <2>3. CASE AllTaken
        <3>1. input' = TarEof /\ Held' = <<>> /\ input' # NULL
            BY <1>1, <2>3, NullNoSeq DEF Resolve, Held
        <3>2. Sunk' = TarEof /\ Trailing' = TarEof
            BY <1>1, <2>2, <2>3, <3>1, NullNoSeq, BlockEmpty DEF Sunk, Trailing
        <3> QED BY <1>1, <2>1, <2>2, <3>2 DEF Balance, history
    <2>4. CASE ~AllTaken
        <3>1. Len(pending) <= Len(TarEof) /\ ToSet(pending) = {Zero}
            <4>1. DOMAIN TarEof = 1 .. 2 /\ TarEof[1] = Zero /\ TarEof[2] = Zero
                BY NullNoSeq, LenProperties DEF TarEof
            <4>2. ToSet(TarEof) = {Zero}
                BY <4>1 DEF ToSet
            <4> QED BY <1>1, <4>2, NullNoSeq
        <3>2. pending' = <<>> /\ input' = NULL
            BY <1>1, <2>4, <3>1 DEF Resolve
        <3>3. Sunk' = <<>> /\ Trailing' = <<>>
            BY <1>1, <2>2, <2>4, <3>2 DEF Sunk, Trailing
        <3> DEFINE c == coder \o Rest
                   f == Blocks(file)
                   k == kept \o said
        <3>4. c \in Seq(Block) /\ f \in Seq(Block) /\ k \in Seq(Block)
            BY <1>1, PartsTyped
        <3>5. f \o (c \o TarEof) = k \o TarEof
            BY <2>1, <2>2 DEF Balance
        <3> HIDE DEF c, f, k
        <3>6. f \o (c \o TarEof) = (f \o c) \o TarEof /\ f \o c \in Seq(Block)
            <4>1. TarEof \in Seq(Block)
                BY NullNoSeq
            <4>2. f \o (c \o TarEof) = (f \o c) \o TarEof
                BY <3>4, <4>1, BlockAssoc, ZenonT(30)
            <4> QED BY <3>4, <4>2, BlockConcat, Zenon
        <3>7. f \o c = k
            <4>1. \A S : \A s, t, v \in Seq(S) : s \o v = t \o v => s = t
                BY ConcatSimplifications
            <4>2. \A s, t, v \in Seq(Block) : s \o v = t \o v => s = t
                BY <4>1
            <4>3. (f \o c) \o TarEof = k \o TarEof /\ f \o c \in Seq(Block)
                BY <3>5, <3>6
            <4>4. TarEof \in Seq(Block)
                BY NullNoSeq
            <4> QED BY <3>4, <4>2, <4>3, <4>4, Zenon
        <3>8. f \o (c \o <<>>) = k \o <<>>
            BY <3>4, <3>7, BlockEmpty
        <3> QED BY <1>1, <2>2, <3>3, <3>8 DEF Balance, history, c, f, k
    <2> QED BY <2>3, <2>4
<1> QED BY <1>1, <1>2, <1>3, SessionConserved DEF db, env, history, Working

LEMMA NothingHeld ==
    ASSUME Shapes, buf = <<>>, pending = <<>>, input = NULL
    PROVE  Rest = <<>> /\ Sunk = <<>>
<1>1. Len(<<>>) = 0
    OBVIOUS
<1>2. sent = 0
    BY <1>1 DEF Shapes, TypeOK
<1> QED BY <1>1, <1>2, SubSeqEmpty DEF Rest, Sunk

LEMMA NothingImplied ==
    Shapes /\ buf = <<>> /\ pending = <<>> /\ input = NULL => Rest = <<>> /\ Sunk = <<>>
BY NothingHeld

LEMMA NothingHeldNext ==
    (Shapes /\ buf = <<>> /\ pending = <<>> /\ input = NULL => Rest = <<>> /\ Sunk = <<>>)'
BY NothingImplied, PTL

LEMMA FinishConserved == Shapes /\ Phases /\ Footers /\ Conserved /\ Finish => Conserved'
<1> SUFFICES ASSUME Shapes, Phases, Footers, Conserved, Finish PROVE Conserved'
    OBVIOUS
<1>1. /\ pc = "flush" /\ input = NULL /\ buf = <<>> /\ pending = <<>> /\ Cleared
      /\ UNCHANGED <<db, taken, history, env>>
    BY DEF Finish, Phases
<1>2. CASE pc' = "ended" /\ UNCHANGED file
    <2>1. Grows
        BY <1>2, GrowsUnchanged DEF Shapes
    <2> QED BY <1>1, <1>2, <2>1, SessionConserved DEF db, env, history, Working
<1>3. CASE pc' = "close" /\ file' = file \o Encoded(coder) \o StreamEnd
    <2>1. /\ Grows
          /\ format = "none" => file' = file \o Encoded(coder)
          /\ format # "none" => file' = Append(file \o Encoded(coder), Token("end", <<>>))
        BY <1>3, FinishFile
    <2>2. Tokens(file) /\ coder \in Seq(Block) /\ Blocks(file) \in Seq(Block)
        BY FileBlocks DEF Shapes
    <2>3. Blocks(file \o Encoded(coder)) = Blocks(file) \o coder /\ Sequence(file \o Encoded(coder))
        BY <2>2, BlocksEncoded, TokensEncoded DEF Tokens
    <2>4. Blocks(file') = Blocks(file) \o coder
        <3>1. Token("end", <<>>).kind # "block"
            BY DEF Token
        <3> QED BY <2>1, <2>3, <3>1, BlocksAppend
    <2>5. format # "none" => Ended(file')
        <3> DEFINE g == file \o Encoded(coder)
        <3> SUFFICES ASSUME format # "none" PROVE Ended(file')
            OBVIOUS
        <3>1. file' = Append(g, Token("end", <<>>)) /\ Sequence(g)
            BY <2>1, <2>3
        <3> HIDE DEF g
        <3>2. /\ Sequence(file') /\ Len(file') = Len(g) + 1 /\ file'[Len(g) + 1] = Token("end", <<>>)
              /\ Len(g) \in Nat
            BY <3>1, SequenceAppend, SequenceShape
        <3>3. DOMAIN file' = 1 .. Len(g) + 1
            BY <3>2, SequenceShape
        <3>4. /\ Len(g) + 1 \in DOMAIN file' /\ file'[Len(g) + 1].kind = "end"
              /\ \A j \in (Len(g) + 1) + 1 .. Len(file') : file'[j].kind # "block"
            BY <3>2, <3>3 DEF Token
        <3> QED BY <3>4 DEF Ended
    <2>6. ASSUME faulty = {} PROVE Balance'
        <3>1. Balance
            BY <1>1, <2>6, BalanceHolds DEF Working
        <3>2. Rest = <<>> /\ Sunk = <<>>
            BY <1>1, NothingHeld
        <3>3. Rest' = <<>> /\ Sunk' = <<>> /\ coder' = <<>>
            <4>1. Shapes' /\ buf' = <<>> /\ pending' = <<>> /\ input' = NULL /\ coder' = <<>>
                BY <1>1, FinishShapes DEF Cleared
            <4> QED BY <4>1, NothingHeldNext
        <3>4. Trailing' = Trailing
            BY <1>1, <1>3 DEF Trailing, AllTaken
        <3>5. Blocks(file) \o coder = (kept \o said) \o Trailing
            <4>1. (coder \o <<>>) \o <<>> = coder
                BY <2>2, BlockEmpty
            <4> QED BY <3>1, <3>2, <4>1 DEF Balance
        <3>6. (<<>> \o <<>>) \o <<>> = <<>> /\ Blocks(file') \in Seq(Block)
            <4>1. <<>> \o <<>> = <<>>
                BY BlockEmpty
            <4> QED BY <2>2, <2>4, <4>1, BlockConcat
        <3>7. Blocks(file') \o <<>> = Blocks(file')
            BY <3>6, BlockEmpty
        <3> QED BY <1>1, <2>4, <3>3, <3>4, <3>5, <3>6, <3>7 DEF Balance, history
    <2> QED BY <1>1, <2>1, <2>5, <2>6, SessionConserved DEF db, env, history, Working
<1> QED BY <1>2, <1>3 DEF Finish, Goto

\* Where the sessions that are closed are not touched.
LEMMA KeptConserved ==
    ASSUME Conserved, Blocks(Archive') = Blocks(Archive), Ended(Archive) => Ended(Archive'),
           UNCHANGED <<closed, format, kept, faulty>>, pc' \notin Working
    PROVE  Conserved'
<1>1. pc' # "close"
    BY DEF Working
<1> QED BY <1>1 DEF Conserved

LEMMA RecoverConserved == Shapes /\ Phases /\ Footers /\ Conserved /\ Recover => Conserved'
<1> SUFFICES ASSUME Shapes, Phases, Footers, Conserved, Recover PROVE Conserved'
    OBVIOUS
<1> DEFINE cut == IF base = NULL THEN file ELSE SubSeq(file, 1, base)
<1>1. /\ pc = "recover" /\ file' = cut /\ said' = <<>>
      /\ UNCHANGED <<closed, stored, session, kept, faulty, env>>
    BY DEF Recover
<1>2. Tokens(cut) /\ Len(cut) \in Nat
    <2>1. base # NULL => base \in Nat /\ base <= Len(file)
        BY SequenceShape DEF Shapes, TypeOK, Tokens
    <2> QED BY <2>1, TokensPrefix, SequenceShape DEF Shapes, Tokens
<1>3. Archive = cut
    <2>1. CASE whole # <<>>
        BY <1>1, <2>1 DEF Archive, Footers
    <2>2. CASE whole = <<>>
        BY <2>2 DEF Archive
    <2> QED BY <2>1, <2>2
<1>4. CASE closed = "final"
    <2>1. pc' \in {"kept", "footer"} /\ whole' \in {cut, <<>>} /\ base' = NULL
        BY <1>4 DEF Recover, Goto, Phases
    <2>2. Archive' = cut
        BY <1>1, <2>1 DEF Archive
    <2> QED BY <1>1, <1>3, <2>1, <2>2, KeptConserved DEF env, Working
<1>5. CASE closed # "final"
    <2>1. pc' = "next" /\ base' = Len(cut) /\ whole' = <<>>
        BY <1>5 DEF Recover, Goto, Footers
    <2>2. Archive' = cut
        <3>1. base' # NULL
            BY <1>2, <2>1, NullNoSeq
        <3>2. Sequence(cut)
            BY <1>2 DEF Tokens
        <3>3. SubSeq(cut, 1, Len(cut)) = cut
            BY <1>2, <3>2, SubSeqFull DEF Sequence
        <3> QED BY <1>1, <2>1, <3>1, <3>3 DEF Archive
    <2>3. ASSUME faulty = {} PROVE Blocks(file') \o InFlight' = kept' \o said' \o Trailing'
        <3>1. Blocks(cut) = kept \o <<>>
            BY <1>3, <1>5, <2>3 DEF Conserved
        <3>2. Rest' = <<>> /\ Sunk' = <<>> /\ coder' = <<>>
            <4>1. Shapes' /\ buf' = <<>> /\ pending' = <<>> /\ input' = NULL /\ coder' = <<>>
                BY <1>1, RecoverShapes DEF Phases, session
            <4> QED BY <4>1, NothingHeldNext
        <3>3. InFlight' = (coder' \o Rest') \o Sunk'
            BY DEF InFlight, Rest, Sunk
        <3>4. InFlight' = <<>>
            BY <3>2, <3>3, BlockEmpty
        <3>5. Trailing' = <<>>
            BY <2>1 DEF Trailing
        <3>6. kept \o <<>> = kept /\ kept \in Seq(Block)
            BY BlockEmpty DEF Shapes
        <3> QED BY <1>1, <3>1, <3>4, <3>5, <3>6, BlockEmpty
    <2> QED BY <1>1, <1>3, <2>1, <2>2, <2>3 DEF Conserved, env
<1> QED BY <1>4, <1>5

LEMMA CloseConserved == Shapes /\ Phases /\ Footers /\ Conserved /\ Close => Conserved'
<1> SUFFICES ASSUME Shapes, Phases, Footers, Conserved, Close PROVE Conserved'
    OBVIOUS
<1>1. /\ pc = "close" /\ base' = NULL /\ closed' = (IF AllTaken THEN "final" ELSE "part")
      /\ kept' = kept \o said /\ pc' \in {"footer", "ended"}
      /\ UNCHANGED <<file, taken, session, said, faulty, whole, env>>
    BY DEF Close, Goto
<1>2. pending = <<>> /\ input = NULL /\ buf = <<>> /\ coder = <<>> /\ whole = <<>>
    BY <1>1 DEF Phases, Footers
<1>3. Archive' = file
    BY <1>1, <1>2 DEF Archive
<1> SUFFICES ASSUME faulty = {}
             PROVE  /\ Blocks(file) = kept' \o (IF closed' = "final" THEN TarEof ELSE <<>>)
                    /\ format # "none" => Ended(file)
    BY <1>1, <1>3 DEF Conserved, Working, env
<1>4. format # "none" => Ended(file)
    BY <1>1 DEF Conserved
<1>5. Blocks(file) = (kept \o said) \o Trailing
    <2>1. Balance
        BY <1>1, BalanceHolds DEF Working
    <2>2. Rest = <<>> /\ Sunk = <<>>
        BY <1>2, NothingHeld
    <2>3. (coder \o Rest) \o Sunk = <<>>
        BY <1>2, <2>2, BlockEmpty
    <2>4. Blocks(file) \in Seq(Block)
        BY FileBlocks DEF Shapes
    <2> QED BY <2>1, <2>3, <2>4, BlockEmpty DEF Balance
<1>6. Trailing = IF closed' = "final" THEN TarEof ELSE <<>>
    BY <1>1 DEF Trailing
<1> QED BY <1>1, <1>4, <1>5, <1>6

\* A token that is not a block, behind the others.
LEMMA Appended ==
    ASSUME NEW f, Sequence(f), NEW t, t.kind # "block"
    PROVE  Blocks(Append(f, t)) = Blocks(f) /\ (Ended(f) => Ended(Append(f, t)))
<1>1. Blocks(Append(f, t)) = Blocks(f)
    BY BlocksAppend
<1> DEFINE g == Append(f, t)
<1>2. /\ Sequence(g) /\ Len(g) = Len(f) + 1 /\ Len(f) \in Nat
      /\ \A i \in 1 .. Len(f) : g[i] = f[i]
      /\ g[Len(f) + 1] = t
    BY SequenceAppend, SequenceShape, ZenonT(30)
<1> HIDE DEF g
<1>3. DOMAIN g = 1 .. Len(f) + 1 /\ DOMAIN f = 1 .. Len(f)
    BY <1>2, SequenceShape
<1>4. ASSUME NEW i \in DOMAIN f, f[i].kind = "end", \A j \in i + 1 .. Len(f): f[j].kind # "block"
      PROVE  Ended(g)
    <2>1. i \in DOMAIN g /\ g[i].kind = "end"
        BY <1>2, <1>3, <1>4
    <2>2. \A j \in i + 1 .. Len(g) : g[j].kind # "block"
        <3> SUFFICES ASSUME NEW j \in i + 1 .. Len(g) PROVE g[j].kind # "block"
            OBVIOUS
        <3>1. CASE j = Len(f) + 1
            BY <1>2, <3>1
        <3>2. CASE j # Len(f) + 1
            <4>1. j \in i + 1 .. Len(f) /\ j \in 1 .. Len(f)
                BY <1>2, <1>3, <3>2
            <4> QED BY <1>2, <1>4, <4>1
        <3> QED BY <3>1, <3>2
    <2> QED BY <2>1, <2>2 DEF Ended
<1>5. Ended(f) => Ended(g)
    BY <1>4 DEF Ended
<1> QED BY <1>1, <1>5 DEF g

LEMMA BeginFooterConserved == Conserved /\ BeginFooter => Conserved'
<1> SUFFICES ASSUME Conserved, BeginFooter PROVE Conserved'
    OBVIOUS
<1>1. pc' \in {"ended", "trailer"} /\ UNCHANGED <<file, db, history, env>>
    BY DEF BeginFooter, Goto
<1>2. Archive' = Archive
    BY <1>1 DEF Archive, db, history
<1> QED BY <1>1, <1>2, KeptConserved DEF db, history, env, Working

LEMMA WriteFooterConserved == Shapes /\ Phases /\ Footers /\ Conserved /\ WriteFooter => Conserved'
<1> SUFFICES ASSUME Shapes, Phases, Footers, Conserved, WriteFooter PROVE Conserved'
    OBVIOUS
<1>0. /\ pc = "trailer" /\ base = NULL /\ whole = <<>> /\ Sequence(file)
      /\ UNCHANGED <<db, taken, pending, input, buf, sent, coder, said, kept, faulty, format, launches>>
    BY DEF WriteFooter, Phases, Footers, Shapes, Tokens
<1>1. Archive = file
    BY <1>0 DEF Archive
<1>2. CASE UNCHANGED <<file, whole>> /\ pc' = "ended"
    <2>1. Archive' = file
        BY <1>0, <1>2 DEF Archive, db
    <2> QED BY <1>0, <1>1, <1>2, <2>1, KeptConserved DEF db, Working
<1>3. CASE /\ file' = Append(file, Head(todo)) /\ todo' = Tail(todo)
           /\ \/ pc' = "kept" /\ whole' = file'
              \/ UNCHANGED <<pc, whole>>
    <2>1. Head(todo).kind # "block"
        BY <1>3, PieceNext
    <2>2. Blocks(file') = Blocks(file) /\ (Ended(file) => Ended(file'))
        BY <1>0, <1>3, <2>1, Appended
    <2>3. Archive' = file'
        BY <1>0, <1>3 DEF Archive, db
    <2>4. pc' \notin Working
        BY <1>0, <1>3 DEF Working
    <2> QED BY <1>0, <1>1, <2>2, <2>3, <2>4, KeptConserved DEF db
<1> QED BY <1>2, <1>3 DEF WriteFooter, Goto

LEMMA SignalConserved == Conserved /\ Signal => Conserved'
<1> SUFFICES ASSUME Conserved, Signal PROVE Conserved'
    OBVIOUS
<1>1. UNCHANGED <<format, file, db, taken, session, history, pc, launches>>
    BY DEF Signal
<1>2. Archive' = Archive /\ InFlight' = InFlight /\ Trailing' = Trailing
    BY <1>1 DEF Archive, InFlight, Held, Trailing, AllTaken, db, session, history
<1> QED BY <1>1, <1>2 DEF Conserved, db, history

LEMMA CrashConserved == Shapes /\ Phases /\ Footers /\ Conserved /\ Crash => Conserved'
<1> SUFFICES ASSUME Shapes, Phases, Footers, Conserved, Crash PROVE Conserved'
    OBVIOUS
<1>1. pc' = "ended" /\ UNCHANGED <<db, taken, history, env>>
    BY DEF Crash, Goto
<1>2. CASE file' = file
    <2>1. Archive' = Archive
        BY <1>1, <1>2 DEF Archive, db, history
    <2> QED BY <1>1, <2>1, KeptConserved DEF db, history, env, Working
<1>3. CASE pc = "trailer" /\ file' = Append(file, Junk)
    <2>1. base = NULL /\ whole = <<>> /\ Sequence(file)
        BY <1>3 DEF Phases, Footers, Shapes, Tokens
    <2>2. Archive = file /\ Archive' = file'
        BY <1>1, <2>1 DEF Archive, db, history
    <2>3. Blocks(file') = Blocks(file) /\ (Ended(file) => Ended(file'))
        BY <1>3, <2>1, Appended DEF Junk, Token
    <2> QED BY <1>1, <2>2, <2>3, KeptConserved DEF db, history, env, Working
<1> QED BY <1>2, <1>3 DEF Crash

LEMMA RelaunchConserved == Conserved /\ Relaunch => Conserved'
<1> SUFFICES ASSUME Conserved, Relaunch PROVE Conserved'
    OBVIOUS
<1>1. pc' = "recover" /\ UNCHANGED <<format, file, db, taken, history>>
    BY DEF Relaunch, Goto
<1>2. Archive' = Archive
    BY <1>1 DEF Archive, db, history
<1> QED BY <1>1, <1>2, KeptConserved DEF db, history, Working

LEMMA DamageConserved == Shapes /\ Phases /\ Footers /\ Conserved /\ Damage => Conserved'
<1> SUFFICES ASSUME Shapes, Phases, Footers, Conserved, Damage PROVE Conserved'
    OBVIOUS
<1>1. /\ pc = "kept" /\ whole # <<>>
      /\ UNCHANGED <<format, db, taken, session, history, shutdown, pc, launches>>
    BY DEF Damage, Footers
<1>2. Archive' = Archive
    BY <1>1 DEF Archive, history
<1> QED BY <1>1, <1>2, KeptConserved DEF db, history, Working

-----------------------------------------------------------------------------
(* The theorems.                                                           *)

LEMMA InitConserved == Init => Conserved
<1> SUFFICES ASSUME Init PROVE Conserved
    OBVIOUS
<1>1. /\ pc = "recover" /\ file = <<>> /\ base = NULL /\ whole = <<>> /\ kept = <<>> /\ closed = "none"
    BY DEF Init
<1>2. Archive = <<>>
    BY <1>1 DEF Archive
<1>3. Blocks(Archive) = kept \o <<>>
    BY <1>1, <1>2, BlocksEmpty, BlockEmpty
<1> QED BY <1>1, <1>3 DEF Conserved, Working

LEMMA StutterIInv == IInv /\ UNCHANGED vars => IInv'
<1> SUFFICES ASSUME IInv, UNCHANGED vars PROVE IInv'
    OBVIOUS
<1>1. /\ UNCHANGED <<format, file, base, closed, stored, taken, todo, pending, input, buf, sent, coder>>
      /\ UNCHANGED <<said, kept, faulty, whole, shutdown, pc, launches>>
    BY DEF vars, session
<1>2. Shapes'
    BY <1>1 DEF IInv, Shapes, TypeOK
<1>3. Phases'
    BY <1>1 DEF IInv, Phases, Held
<1>4. Conserved'
    <2>1. Archive' = Archive /\ InFlight' = InFlight /\ Trailing' = Trailing
        BY <1>1 DEF Archive, InFlight, Held, Trailing, AllTaken
    <2> QED BY <1>1, <2>1 DEF IInv, Conserved
<1>5. Footers'
    <2>1. Worn' <=> Worn
        BY <1>1 DEF Worn
    <2> QED BY <1>1, <2>1 DEF IInv, Footers
<1> QED BY <1>2, <1>3, <1>4, <1>5 DEF IInv

LEMMA NextIInv == IInv /\ Next => IInv'
<1> SUFFICES ASSUME Shapes, Phases, Conserved, Footers, Next PROVE IInv'
    BY DEF IInv
<1>1. CASE Recover
    BY <1>1, RecoverShapes, RecoverPhases, RecoverConserved, RecoverFooters DEF IInv
<1>2. CASE NextMember
    BY <1>2, NextMemberShapes, NextMemberPhases, NextMemberConserved, SessionFooters DEF IInv
<1>3. CASE Write
    BY <1>3, WriteShapes, WritePhases, WriteConserved, SessionFooters DEF IInv
<1>4. CASE Written
    BY <1>4, WrittenShapes, WrittenPhases, WrittenConserved, SessionFooters DEF IInv
<1>5. CASE Buffer
    BY <1>5, BufferShapes, BufferPhases, BufferConserved, SessionFooters DEF IInv
<1>6. CASE FlushBuf
    BY <1>6, FlushBufShapes, FlushBufPhases, FlushBufConserved, SessionFooters DEF IInv
<1>7. CASE FlushInterrupted
    BY <1>7, FlushInterruptedShapes, FlushInterruptedPhases, FlushInterruptedConserved,
       SessionFooters DEF IInv
<1>8. CASE WriteFails
    BY <1>8, WriteFailsShapes, WriteFailsPhases, WriteFailsConserved, SessionFooters DEF IInv
<1>9. CASE Emit
    BY <1>9, EmitShapes, EmitPhases, EmitConserved, SessionFooters DEF IInv
<1>10. CASE Eof
    BY <1>10, EofShapes, EofPhases, EofConserved, SessionFooters DEF IInv
<1>11. CASE Resolve
    BY <1>11, ResolveShapes, ResolvePhases, ResolveConserved, SessionFooters DEF IInv
<1>12. CASE Finish
    BY <1>12, FinishShapes, FinishPhases, FinishConserved, SessionFooters DEF IInv
<1>13. CASE Close
    BY <1>13, CloseShapes, ClosePhases, CloseConserved, SessionFooters DEF IInv
<1>14. CASE Abandon
    BY <1>14, AbandonShapes, AbandonPhases, AbandonConserved, SessionFooters DEF IInv
<1>15. CASE BeginFooter
    BY <1>15, BeginFooterShapes, BeginFooterPhases, BeginFooterConserved, BeginFooterFooters DEF IInv
<1>16. CASE WriteFooter
    BY <1>16, WriteFooterPhases, WriteFooterConserved, WriteFooterBoth DEF IInv
<1>17. CASE Signal
    BY <1>17, SignalShapes, SignalPhases, SignalConserved, SignalFooters DEF IInv
<1>18. CASE Crash
    BY <1>18, CrashShapes, CrashPhases, CrashConserved, CrashFooters DEF IInv
<1>19. CASE Relaunch
    BY <1>19, RelaunchShapes, RelaunchPhases, RelaunchConserved, RelaunchFooters DEF IInv
<1>20. CASE Damage
    BY <1>20, DamagePhases, DamageConserved, DamageBoth DEF IInv
<1> QED
    BY <1>1, <1>2, <1>3, <1>4, <1>5, <1>6, <1>7, <1>8, <1>9, <1>10, <1>11, <1>12, <1>13, <1>14,
       <1>15, <1>16, <1>17, <1>18, <1>19, <1>20 DEF Next

\* The inductive invariant of a session's file: shapes, phases, the balance of
\* what is on its way, and how a footer stands (tar_writer.rs, archive_footer.rs).
THEOREM FramingInvariance == Spec => []IInv
<1>1. Init => IInv
    BY InitShapes, InitConserved DEF IInv
<1>2. IInv /\ [Next]_vars => IInv'
    BY NextIInv, StutterIInv
<1> QED BY <1>1, <1>2, PTL DEF Spec

\* The variables keep their types, and the offsets of buffer and session stay
\* within what they point into (BufferedCompress, TarWriter).
THEOREM FramingTypeCorrect == Spec => []TypeOK
<1>1. IInv => TypeOK
    BY DEF IInv, Shapes
<1> QED BY <1>1, FramingInvariance, PTL

\* Without a write that failed, the archive has the blocks of the closed
\* sessions once and in order, and the end of the tar behind the last alone,
\* whatever the members, the buffer, the codec, signals and crashes
\* (drain_pending_excess, resolve_trailing_eof, finalize_archive_session).
THEOREM FramingStreamWhole == Spec => []StreamWhole
<1>1. IInv => StreamWhole
    BY DEF IInv, Conserved, Phases, StreamWhole
<1> QED BY <1>1, FramingInvariance, PTL

\* A footer is found in a finished archive and in nothing else, the verdict on
\* a damaged one names the half that differs, and the three readers agree
\* (locate_footer, read_footer, verify_archive_integrity, verify_footer).
THEOREM FramingVerdictTells == Spec => []VerdictTells
<1>1. IInv => VerdictTells
    BY FootersTell DEF IInv
<1> QED BY <1>1, FramingInvariance, PTL

-----------------------------------------------------------------------------
(* The inventory: recursive functions.                                     *)

Recurs(f, N, e, g) == f[0] = e /\ \A n \in 1 .. N : f[n] = g[<<n, f[n - 1]>>]

\* A function on 0 .. N that is given by its first value and by a step.
LEMMA RecursionExists ==
    ASSUME NEW N \in Nat, NEW S, NEW e \in S, NEW g \in [(1 .. N) \X S -> S]
    PROVE  \E f \in [0 .. N -> S] : Recurs(f, N, e, g)
<1> DEFINE Good(f, k) == f[0] = e /\ \A n \in 1 .. k : f[n] = g[<<n, f[n - 1]>>]
           T == {k \in 0 .. N : \E f \in [0 .. k -> S] : Good(f, k)}
<1>1. 0 \in T
    <2>1. [n \in 0 .. 0 |-> e] \in [0 .. 0 -> S] /\ Good([n \in 0 .. 0 |-> e], 0)
        OBVIOUS
    <2> HIDE DEF Good
    <2>2. \E f \in [0 .. 0 -> S] : Good(f, 0)
        BY <2>1
    <2> QED BY <2>2
<1>2. ASSUME NEW k \in 0 .. N - 1, k \in T
      PROVE  k + 1 \in T
    <2>1. PICK f \in [0 .. k -> S] : Good(f, k)
        BY <1>2
    <2> DEFINE h == [n \in 0 .. k + 1 |-> IF n <= k THEN f[n] ELSE g[<<k + 1, f[k]>>]]
    <2>2. k + 1 \in 1 .. N /\ f[k] \in S
        OBVIOUS
    <2>3. g[<<k + 1, f[k]>>] \in S
        BY <2>2
    <2>4. h \in [0 .. k + 1 -> S]
        BY <2>3
    <2>5. h[0] = e
        BY <2>1
    <2>6. ASSUME NEW n \in 1 .. k + 1
          PROVE  h[n] = g[<<n, h[n - 1]>>]
        <3>1. n \in 0 .. k + 1 /\ n - 1 \in 0 .. k + 1 /\ n - 1 <= k
            OBVIOUS
        <3>2. h[n - 1] = f[n - 1]
            BY <3>1
        <3>3. CASE n <= k
            <4>1. n \in 1 .. k
                BY <3>3
            <4> QED BY <2>1, <3>1, <3>2, <3>3, <4>1
        <3>4. CASE n = k + 1
            <4>1. h[n] = g[<<k + 1, f[k]>>] /\ n - 1 = k
                BY <3>1, <3>4
            <4> QED BY <3>2, <3>4, <4>1
        <3> QED BY <3>3, <3>4
    <2>7. Good(h, k + 1)
        BY <2>5, <2>6
    <2> HIDE DEF Good, h
    <2>8. \E f1 \in [0 .. k + 1 -> S] : Good(f1, k + 1)
        BY <2>4, <2>7
    <2> QED BY <2>2, <2>8
<1>3. N \in T
    <2> HIDE DEF T
    <2>1. \A m \in 0 .. N : m \in T
        BY <1>1, <1>2, Climb, Zenon
    <2> QED BY <2>1
<1> QED BY <1>3 DEF Recurs

-----------------------------------------------------------------------------
(* Paths.                                                                  *)

FollowTo(t, p) ==
    CHOOSE to : to = [n \in 0 .. MaxLinks |->
        IF n = 0 THEN p
        ELSE IF to[n - 1] \notin DOMAIN t THEN Nothing
        ELSE IF t[to[n - 1]].kind = "link" THEN t[to[n - 1]].target ELSE to[n - 1]]

LEMMA FollowOf ==
    ASSUME NEW t, NEW p
    PROVE  Follow(t, p) =
              IF FollowTo(t, p)[MaxLinks] \in DOMAIN t /\ t[FollowTo(t, p)[MaxLinks]].kind # "link"
              THEN FollowTo(t, p)[MaxLinks] ELSE Nothing
BY DEF Follow, FollowTo

LEMMA FollowSteps ==
    ASSUME NEW t, NEW p
    PROVE  /\ FollowTo(t, p)[0] = p
           /\ \A n \in 1 .. MaxLinks : FollowTo(t, p)[n] =
                 IF FollowTo(t, p)[n - 1] \notin DOMAIN t THEN Nothing
                 ELSE IF t[FollowTo(t, p)[n - 1]].kind = "link" THEN t[FollowTo(t, p)[n - 1]].target
                 ELSE FollowTo(t, p)[n - 1]
<1> DEFINE S == {p, Nothing} \cup {t[q].target : q \in DOMAIN t}
           On(q) == IF q \notin DOMAIN t THEN Nothing
                    ELSE IF t[q].kind = "link" THEN t[q].target ELSE q
           g == [x \in (1 .. MaxLinks) \X S |-> On(x[2])]
<1>0. MaxLinks \in Nat
    BY DEF MaxLinks
<1>1. \A q \in S : On(q) \in S
    OBVIOUS
<1>2. g \in [(1 .. MaxLinks) \X S -> S]
    <2> HIDE DEF S, On
    <2> QED BY <1>1
<1>3. p \in S
    OBVIOUS
<1>4. \A n \in 1 .. MaxLinks : \A q \in S : g[<<n, q>>] = On(q)
    <2> HIDE DEF S, On
    <2> QED OBVIOUS
<1> HIDE DEF g, S
<1>5. PICK f \in [0 .. MaxLinks -> S] : Recurs(f, MaxLinks, p, g)
    BY <1>0, <1>2, <1>3, RecursionExists, Zenon
<1>6. \A n \in 1 .. MaxLinks : f[n] = On(f[n - 1])
    <2>1. \A n \in 1 .. MaxLinks : n - 1 \in 0 .. MaxLinks
        BY <1>0
    <2> HIDE DEF On
    <2> QED BY <1>4, <1>5, <2>1 DEF Recurs
<1> DEFINE F(h) == [n \in 0 .. MaxLinks |-> IF n = 0 THEN p ELSE On(h[n - 1])]
<1>7. f = F(f)
    <2> HIDE DEF On
    <2>1. \A n \in 0 .. MaxLinks : f[n] = F(f)[n]
        BY <1>0, <1>5, <1>6 DEF Recurs
    <2> QED BY <2>1
<1>8. FollowTo(t, p) = F(FollowTo(t, p))
    BY <1>7 DEF FollowTo
<1> DEFINE to == FollowTo(t, p)
<1> HIDE DEF to
<1>9. \A n \in 0 .. MaxLinks : to[n] = IF n = 0 THEN p ELSE On(to[n - 1])
    <2> HIDE DEF On
    <2> QED BY <1>8 DEF to
<1>10. 0 \in 0 .. MaxLinks /\ \A n \in 1 .. MaxLinks : n \in 0 .. MaxLinks /\ n # 0
    BY <1>0
<1> QED BY <1>9, <1>10 DEF to

\* What a name leads to is a node that is no link.
LEMMA FollowTyped ==
    ASSUME NEW t, NEW p
    PROVE  Follow(t, p) = Nothing \/ (Follow(t, p) \in DOMAIN t /\ t[Follow(t, p)].kind # "link")
BY FollowOf

RealTo(t, path) ==
    CHOOSE real : real = [n \in 0 .. Len(path) |->
        IF n = 0 THEN <<>>
        ELSE IF real[n - 1] = Nothing THEN Nothing ELSE Follow(t, Append(real[n - 1], path[n]))]

LEMMA RealOf ==
    ASSUME NEW t, NEW path
    PROVE  RealPath(t, path) = RealTo(t, path)[Len(path)]
BY DEF RealPath, RealTo

LEMMA RealSteps ==
    ASSUME NEW t, NEW path, Len(path) \in Nat
    PROVE  /\ RealTo(t, path)[0] = <<>>
           /\ \A n \in 1 .. Len(path) : RealTo(t, path)[n] =
                 IF RealTo(t, path)[n - 1] = Nothing THEN Nothing
                 ELSE Follow(t, Append(RealTo(t, path)[n - 1], path[n]))
<1> DEFINE S == DOMAIN t \cup {<<>>, Nothing}
           On(n, q) == IF q = Nothing THEN Nothing ELSE Follow(t, Append(q, path[n]))
           g == [x \in (1 .. Len(path)) \X S |-> On(x[1], x[2])]
<1>1. \A n : \A q \in S : On(n, q) \in S
    BY FollowTyped
<1>2. g \in [(1 .. Len(path)) \X S -> S]
    <2> HIDE DEF S, On
    <2> QED BY <1>1
<1>3. <<>> \in S
    OBVIOUS
<1>4. \A n \in 1 .. Len(path) : \A q \in S : g[<<n, q>>] = On(n, q)
    <2> HIDE DEF S, On
    <2> QED OBVIOUS
<1> HIDE DEF g, S
<1>5. PICK f \in [0 .. Len(path) -> S] : Recurs(f, Len(path), <<>>, g)
    BY <1>2, <1>3, RecursionExists, Zenon
<1>6. \A n \in 1 .. Len(path) : f[n] = On(n, f[n - 1])
    <2>1. \A n \in 1 .. Len(path) : n - 1 \in 0 .. Len(path)
        OBVIOUS
    <2> HIDE DEF On
    <2> QED BY <1>4, <1>5, <2>1 DEF Recurs
<1> DEFINE F(h) == [n \in 0 .. Len(path) |-> IF n = 0 THEN <<>> ELSE On(n, h[n - 1])]
<1>7. f = F(f)
    <2> HIDE DEF On
    <2>1. \A n \in 0 .. Len(path) : f[n] = F(f)[n]
        BY <1>5, <1>6 DEF Recurs
    <2> QED BY <2>1
<1>8. RealTo(t, path) = F(RealTo(t, path))
    BY <1>7 DEF RealTo
<1> DEFINE to == RealTo(t, path)
<1> HIDE DEF to
<1>9. \A n \in 0 .. Len(path) : to[n] = IF n = 0 THEN <<>> ELSE On(n, to[n - 1])
    <2> HIDE DEF On
    <2> QED BY <1>8 DEF to
<1>10. 0 \in 0 .. Len(path) /\ \A n \in 1 .. Len(path) : n \in 0 .. Len(path) /\ n # 0
    OBVIOUS
<1> QED BY <1>9, <1>10 DEF to

\* The real path of a prefix is met on the way to that of the path.
LEMMA RealPrefix ==
    ASSUME NEW t, NEW path \in Seq(STRING), NEW n \in 0 .. Len(path)
    PROVE  RealPath(t, SubSeq(path, 1, n)) = RealTo(t, path)[n]
<1> DEFINE q == SubSeq(path, 1, n)
           T == {m \in 0 .. n : RealTo(t, q)[m] = RealTo(t, path)[m]}
<1>0. Len(path) \in Nat /\ n \in Nat /\ Len(q) = n /\ \A i \in 1 .. n : q[i] = path[i]
    <2>1. Len(path) \in Nat /\ \A i \in 1 .. n : path[i] \in STRING
        BY LenProperties, ElementOfSeq
    <2> QED BY <2>1, SubSeqProperties
<1> HIDE DEF q
<1>1. 0 \in T
    BY <1>0, RealSteps
<1>2. ASSUME NEW m \in 0 .. n - 1, m \in T
      PROVE  m + 1 \in T
    <2>1. m + 1 \in 1 .. Len(q) /\ m + 1 \in 1 .. Len(path) /\ m + 1 - 1 = m /\ m + 1 \in 0 .. n
        BY <1>0
    <2>2. RealTo(t, q)[m + 1] = IF RealTo(t, q)[m] = Nothing THEN Nothing
                                ELSE Follow(t, Append(RealTo(t, q)[m], q[m + 1]))
        BY <1>0, <2>1, RealSteps
    <2>3. RealTo(t, path)[m + 1] = IF RealTo(t, path)[m] = Nothing THEN Nothing
                                ELSE Follow(t, Append(RealTo(t, path)[m], path[m + 1]))
        BY <1>0, <2>1, RealSteps
    <2>4. q[m + 1] = path[m + 1]
        BY <1>0
    <2> QED BY <1>2, <2>1, <2>2, <2>3, <2>4
<1> HIDE DEF T
<1>3. \A m \in 0 .. n : m \in T
    BY <1>0, <1>1, <1>2, Climb, Zenon
<1>4. RealTo(t, q)[n] = RealTo(t, path)[n]
    BY <1>0, <1>3 DEF T
<1> QED BY <1>0, <1>4, RealOf DEF q

\* Above a path that leads somewhere every path does.
LEMMA RealUp ==
    ASSUME NEW t, NEW path \in Seq(STRING), NEW n \in 0 .. Len(path), RealPath(t, path) # Nothing
    PROVE  RealPath(t, SubSeq(path, 1, n)) # Nothing
<1> DEFINE T == {m \in 0 .. Len(path) - n : RealTo(t, path)[Len(path) - m] # Nothing}
<1>0. Len(path) \in Nat /\ Len(path) - n \in Nat
    BY LenProperties
<1>1. 0 \in T
    BY <1>0, RealOf
<1>2. ASSUME NEW m \in 0 .. Len(path) - n - 1, m \in T
      PROVE  m + 1 \in T
    <2>1. Len(path) - m \in 1 .. Len(path) /\ Len(path) - m - 1 = Len(path) - (m + 1)
        BY <1>0
    <2>2. RealTo(t, path)[Len(path) - m] =
              IF RealTo(t, path)[Len(path) - (m + 1)] = Nothing THEN Nothing
              ELSE Follow(t, Append(RealTo(t, path)[Len(path) - (m + 1)], path[Len(path) - m]))
        BY <1>0, <2>1, RealSteps
    <2>3. RealTo(t, path)[Len(path) - m] # Nothing
        BY <1>2
    <2>4. RealTo(t, path)[Len(path) - (m + 1)] # Nothing
        BY <2>2, <2>3
    <2> QED BY <1>0, <2>4
<1> HIDE DEF T
<1>3. \A m \in 0 .. Len(path) - n : m \in T
    BY <1>0, <1>1, <1>2, Climb, Zenon
<1>4. Len(path) - n \in T /\ Len(path) - (Len(path) - n) = n
    BY <1>0, <1>3
<1>5. RealTo(t, path)[n] # Nothing
    BY <1>4 DEF T
<1> QED BY <1>5, RealPrefix

\* A real path is a node that is no link, or the root.
LEMMA RealTyped ==
    ASSUME NEW t, NEW path \in Seq(STRING), RealPath(t, path) # Nothing
    PROVE  RealPath(t, path) \in DOMAIN t \cup {<<>>}
<1>0. Len(path) \in Nat
    BY LenProperties
<1>1. CASE Len(path) = 0
    BY <1>0, <1>1, RealOf, RealSteps
<1>2. CASE Len(path) # 0
    <2>1. Len(path) \in 1 .. Len(path)
        BY <1>0, <1>2
    <2> QED BY <1>0, <2>1, RealOf, RealSteps, FollowTyped
<1> QED BY <1>1, <1>2

-----------------------------------------------------------------------------
(* A tree that has lost names.                                             *)

Within(s, t) == DOMAIN s \subseteq DOMAIN t /\ \A p \in DOMAIN s : s[p] = t[p]

LEMMA FollowWithin ==
    ASSUME NEW s, NEW t, Within(s, t), Nothing \notin DOMAIN t, NEW p
    PROVE  Follow(s, p) = Nothing \/ Follow(s, p) = Follow(t, p)
<1> DEFINE T == {n \in 0 .. MaxLinks :
                    FollowTo(s, p)[n] = Nothing \/ FollowTo(s, p)[n] = FollowTo(t, p)[n]}
<1>0. MaxLinks \in Nat
    BY DEF MaxLinks
<1>1. 0 \in T
    BY <1>0, FollowSteps
<1>2. ASSUME NEW n \in 0 .. MaxLinks - 1, n \in T
      PROVE  n + 1 \in T
    <2>1. n + 1 \in 1 .. MaxLinks /\ n + 1 - 1 = n /\ n + 1 \in 0 .. MaxLinks
        BY <1>0
    <2> DEFINE a == FollowTo(s, p)[n]
               b == FollowTo(t, p)[n]
    <2>2. FollowTo(s, p)[n + 1] = IF a \notin DOMAIN s THEN Nothing
                                  ELSE IF s[a].kind = "link" THEN s[a].target ELSE a
        BY <2>1, FollowSteps
    <2>3. FollowTo(t, p)[n + 1] = IF b \notin DOMAIN t THEN Nothing
                                  ELSE IF t[b].kind = "link" THEN t[b].target ELSE b
        BY <2>1, FollowSteps
    <2>4. a = Nothing \/ a = b
        BY <1>2
    <2> HIDE DEF a, b
    <2> QED BY <2>1, <2>2, <2>3, <2>4 DEF Within
<1> HIDE DEF T
<1>3. \A n \in 0 .. MaxLinks : n \in T
    BY <1>0, <1>1, <1>2, Climb, Zenon
<1> DEFINE a == FollowTo(s, p)[MaxLinks]
           b == FollowTo(t, p)[MaxLinks]
<1>4. a = Nothing \/ a = b
    BY <1>0, <1>3 DEF T
<1>5. Follow(s, p) = IF a \in DOMAIN s /\ s[a].kind # "link" THEN a ELSE Nothing
    BY FollowOf
<1>6. Follow(t, p) = IF b \in DOMAIN t /\ t[b].kind # "link" THEN b ELSE Nothing
    BY FollowOf
<1> HIDE DEF a, b
<1> QED BY <1>4, <1>5, <1>6 DEF Within

LEMMA RealWithin ==
    ASSUME NEW s, NEW t, Within(s, t), Nothing \notin DOMAIN t, NEW path \in Seq(STRING)
    PROVE  RealPath(s, path) = Nothing \/ RealPath(s, path) = RealPath(t, path)
<1> DEFINE T == {n \in 0 .. Len(path) :
                    RealTo(s, path)[n] = Nothing \/ RealTo(s, path)[n] = RealTo(t, path)[n]}
<1>0. Len(path) \in Nat
    BY LenProperties
<1>1. 0 \in T
    BY <1>0, RealSteps
<1>2. ASSUME NEW n \in 0 .. Len(path) - 1, n \in T
      PROVE  n + 1 \in T
    <2>1. n + 1 \in 1 .. Len(path) /\ n + 1 - 1 = n /\ n + 1 \in 0 .. Len(path)
        BY <1>0
    <2> DEFINE a == RealTo(s, path)[n]
               b == RealTo(t, path)[n]
    <2>2. RealTo(s, path)[n + 1] = IF a = Nothing THEN Nothing ELSE Follow(s, Append(a, path[n + 1]))
        BY <1>0, <2>1, RealSteps
    <2>3. RealTo(t, path)[n + 1] = IF b = Nothing THEN Nothing ELSE Follow(t, Append(b, path[n + 1]))
        BY <1>0, <2>1, RealSteps
    <2>4. a = Nothing \/ a = b
        BY <1>2
    <2> HIDE DEF a, b
    <2>5. a # Nothing => \/ Follow(s, Append(a, path[n + 1])) = Nothing
                      \/ Follow(s, Append(a, path[n + 1])) = Follow(t, Append(a, path[n + 1]))
        BY FollowWithin
    <2> QED BY <2>1, <2>2, <2>3, <2>4, <2>5
<1> HIDE DEF T
<1>3. \A n \in 0 .. Len(path) : n \in T
    BY <1>0, <1>1, <1>2, Climb, Zenon
<1>4. RealTo(s, path)[Len(path)] = Nothing \/ RealTo(s, path)[Len(path)] = RealTo(t, path)[Len(path)]
    BY <1>0, <1>3 DEF T
<1> QED BY <1>4, RealOf

LEMMA FrontOf ==
    ASSUME NEW p \in Seq(STRING)
    PROVE  /\ Front(p) \in Seq(STRING)
           /\ p # <<>> => /\ Len(Front(p)) = Len(p) - 1 /\ Last(p) \in STRING
                          /\ Front(p) = SubSeq(p, 1, Len(p) - 1)
                          /\ p = Append(Front(p), Last(p))
<1>1. Len(p) \in Nat /\ (p # <<>> => Len(p) # 0) /\ \A i \in 1 .. Len(p) : p[i] \in STRING
    BY LenProperties, EmptySeq, ElementOfSeq
<1>2. /\ Front(p) \in Seq(STRING)
      /\ Len(Front(p)) = IF 1 <= Len(p) - 1 THEN Len(p) - 1 ELSE 0
      /\ \A i \in 1 .. Len(p) - 1 : Front(p)[i] = p[i]
    <2>1. 1 \in Int /\ Len(p) - 1 \in Int /\ \A i \in 1 .. Len(p) - 1 : p[i] \in STRING
        BY <1>1
    <2> QED BY <2>1, SubSeqProperties DEF Front
<1>3. ASSUME p # <<>>
      PROVE  p = Append(Front(p), Last(p)) /\ Last(p) \in STRING /\ Len(Front(p)) = Len(p) - 1
    <2>a. Len(p) \in Nat \ {0}
        BY <1>1, <1>3
    <2>b. Len(Front(p)) = IF 1 <= Len(p) - 1 THEN Len(p) - 1 ELSE 0
        BY <1>2
    <2>0. Len(p) \in Nat \ {0} /\ Len(Front(p)) = Len(p) - 1 /\ Len(p) - 1 \in Nat
        <3> DEFINE L == Len(p)
                   M == Len(Front(p))
        <3>1. L \in Nat \ {0} /\ M = IF 1 <= L - 1 THEN L - 1 ELSE 0
            BY <2>a, <2>b
        <3> HIDE DEF L, M
        <3>2. M = L - 1 /\ L - 1 \in Nat
            BY <3>1
        <3> QED BY <3>1, <3>2 DEF L, M
    <2>1. Last(p) \in STRING
        BY <1>1, <1>3 DEF Last
    <2>2. /\ Append(Front(p), Last(p)) \in Seq(STRING)
          /\ Len(Append(Front(p), Last(p))) = Len(Front(p)) + 1
          /\ \A i \in 1 .. Len(Front(p)) : Append(Front(p), Last(p))[i] = Front(p)[i]
          /\ Append(Front(p), Last(p))[Len(Front(p)) + 1] = Last(p)
        BY <1>2, <2>1, AppendProperties
    <2>3. Len(Append(Front(p), Last(p))) = Len(p)
        BY <2>0, <2>2
    <2>4. \A i \in 1 .. Len(p) : p[i] = Append(Front(p), Last(p))[i]
        BY <1>2, <2>0, <2>2 DEF Last
    <2>5. p = Append(Front(p), Last(p))
        BY <2>2, <2>3, <2>4, SeqEqual
    <2> QED BY <2>0, <2>1, <2>5
<1>4. Front(p) = SubSeq(p, 1, Len(p) - 1)
    BY DEF Front
<1> QED BY <1>2, <1>3, <1>4

LEMMA AppendOf ==
    ASSUME NEW p \in Seq(STRING), NEW x \in STRING
    PROVE  /\ Append(p, x) \in Seq(STRING) /\ Append(p, x) # <<>> /\ Len(Append(p, x)) = Len(p) + 1
           /\ Front(Append(p, x)) = p /\ Last(Append(p, x)) = x
<1>1. /\ Append(p, x) \in Seq(STRING) /\ Append(p, x) # <<>> /\ Len(Append(p, x)) = Len(p) + 1
      /\ Append(p, x)[Len(p) + 1] = x
    BY AppendProperties
<1>2. Append(p, x) = Append(Front(Append(p, x)), Last(Append(p, x)))
    BY <1>1, FrontOf
<1>3. Front(Append(p, x)) \in Seq(STRING) /\ Last(Append(p, x)) \in STRING
    BY <1>1, FrontOf
<1> DEFINE f == Front(Append(p, x))
           l == Last(Append(p, x))
<1> HIDE DEF f, l
<1>4. f \in Seq(STRING) /\ l \in STRING /\ Append(p, x) = Append(f, l)
    BY <1>2, <1>3 DEF f, l
<1>5. p = f /\ x = l
    <2>1. /\ Len(Append(f, l)) = Len(f) + 1 /\ Append(f, l)[Len(f) + 1] = l
          /\ \A i \in 1 .. Len(f) : Append(f, l)[i] = f[i]
        BY <1>4, AppendProperties
    <2>2. \A i \in 1 .. Len(p) : Append(p, x)[i] = p[i]
        BY AppendProperties
    <2>3. Len(p) \in Nat /\ Len(f) \in Nat
        BY <1>4, LenProperties
    <2>4. Len(p) = Len(f)
        BY <1>1, <1>4, <2>1, <2>3
    <2>5. \A i \in 1 .. Len(p) : p[i] = f[i]
        BY <1>4, <2>1, <2>2, <2>4
    <2>6. p = f
        BY <1>4, <2>4, <2>5, SeqEqual
    <2> QED BY <1>1, <1>4, <2>1, <2>4, <2>6
<1> QED BY <1>1, <1>5 DEF f, l

\* Two states of a tree, the second of them the earlier one.
Trees(s, t) ==
    /\ Within(s, t) /\ DOMAIN t \subseteq Seq(STRING) /\ <<>> \in DOMAIN s
    /\ \A p \in DOMAIN t : t[p] \in Nodes

LEMMA NothingIsApart ==
    ASSUME NEW s, NEW t, Trees(s, t)
    PROVE  /\ Nothing \notin DOMAIN t /\ Nothing \notin DOMAIN s /\ DOMAIN s \subseteq Seq(STRING)
           /\ Nothing \notin Seq(STRING) /\ \A p \in DOMAIN t : t[p] # Nothing
           /\ Trees(t, t) /\ Trees(s, s)
BY SourcesAssumption DEF Trees, Within

LEMMA LstatWithin ==
    ASSUME NEW s, NEW t, Trees(s, t), NEW p \in Seq(STRING), Lstat(s, p) # Nothing
    PROVE  Lstat(t, p) = Lstat(s, p) /\ Lstat(t, p) \in Nodes
<1>1. CASE p = <<>>
    BY <1>1, NothingIsApart DEF Lstat, Trees, Within
<1>2. CASE p # <<>>
    <2>1. Front(p) \in Seq(STRING)
        BY FrontOf
    <2>2. RealPath(s, Front(p)) # Nothing /\ Append(RealPath(s, Front(p)), Last(p)) \in DOMAIN s
        BY <1>2 DEF Lstat
    <2>3. RealPath(t, Front(p)) = RealPath(s, Front(p))
        BY <2>1, <2>2, NothingIsApart, RealWithin DEF Trees
    <2> QED BY <1>2, <2>2, <2>3 DEF Lstat, Trees, Within
<1> QED BY <1>1, <1>2

LEMMA RealTrees ==
    ASSUME NEW s, NEW t, Trees(s, t), NEW p \in Seq(STRING), RealPath(s, p) # Nothing
    PROVE  /\ RealPath(t, p) = RealPath(s, p) /\ RealPath(s, p) \in DOMAIN s
           /\ t[RealPath(s, p)] = s[RealPath(s, p)] /\ RealPath(s, p) \in Seq(STRING)
<1>1. RealPath(t, p) = RealPath(s, p)
    BY NothingIsApart, RealWithin DEF Trees
<1>2. RealPath(s, p) \in DOMAIN s
    BY RealTyped DEF Trees
<1> QED BY <1>1, <1>2 DEF Trees, Within

LEMMA PrefixOf ==
    ASSUME NEW a \in Seq(STRING), NEW p \in Seq(STRING)
    PROVE  /\ IsPrefix(a, p) => Len(a) \in 0 .. Len(p) /\ a = SubSeq(p, 1, Len(a))
           /\ \A n \in 0 .. Len(p) : /\ SubSeq(p, 1, n) \in Seq(STRING) /\ Len(SubSeq(p, 1, n)) = n
                                     /\ IsPrefix(SubSeq(p, 1, n), p)
<1>1. Len(a) \in Nat /\ Len(p) \in Nat /\ \A i \in 1 .. Len(p) : p[i] \in STRING
    BY LenProperties, ElementOfSeq
<1>2. SubSeq(a, 1, Len(a)) = a
    BY SubSeqFull
<1>3. ASSUME NEW n \in 0 .. Len(p)
      PROVE  /\ SubSeq(p, 1, n) \in Seq(STRING) /\ Len(SubSeq(p, 1, n)) = n
             /\ IsPrefix(SubSeq(p, 1, n), p)
    <2>1. 1 \in Int /\ n \in Int /\ \A i \in 1 .. n : p[i] \in STRING
        BY <1>1
    <2>2. SubSeq(p, 1, n) \in Seq(STRING) /\ Len(SubSeq(p, 1, n)) = IF 1 <= n THEN n - 1 + 1 ELSE 0
        BY <2>1, SubSeqProperties
    <2>3. Len(SubSeq(p, 1, n)) = n
        BY <1>1, <2>2
    <2>4. SubSeq(SubSeq(p, 1, n), 1, n) = SubSeq(p, 1, n)
        BY <2>2, <2>3, SubSeqFull
    <2>5. n <= Len(p)
        BY <1>1
    <2> QED BY <2>2, <2>3, <2>4, <2>5 DEF IsPrefix
<1> QED BY <1>1, <1>2, <1>3 DEF IsPrefix

\* A walk that does not fail over a name now did not fail before.
LEMMA FailsWithin ==
    ASSUME NEW s, NEW t, Trees(s, t), NEW root \in Seq(STRING), NEW p \in Seq(STRING),
           IsPrefix(root, p), Lstat(s, p) # Nothing, ~WalkFails(s, root, p)
    PROVE  ~WalkFails(t, root, p) /\ Followed(s, root, p) = Followed(t, root, p)
<1>1. Lstat(t, p) = Lstat(s, p)
    BY LstatWithin
<1>2. Followed(s, root, p) = Followed(t, root, p)
    BY <1>1 DEF Followed
<1>3. CASE ~Followed(t, root, p)
    BY <1>1, <1>2, <1>3 DEF WalkFails
<1>4. CASE Followed(t, root, p)
    <2>1. RealPath(s, p) # Nothing /\ \A q \in Above(root, p) : RealPath(s, q) # RealPath(s, p)
        BY <1>2, <1>4 DEF WalkFails
    <2>2. RealPath(t, p) = RealPath(s, p)
        BY <2>1, RealTrees
    <2>3. ASSUME NEW q \in Above(root, p)
          PROVE  RealPath(t, q) # RealPath(t, p)
        <3>1. PICK n \in Len(root) .. Len(p) - 1 : q = SubSeq(p, 1, n)
            BY DEF Above
        <3>2. n \in 0 .. Len(p)
            BY PrefixOf
        <3>3. q \in Seq(STRING) /\ RealPath(s, q) # Nothing
            BY <2>1, <3>1, <3>2, PrefixOf, RealUp
        <3>4. RealPath(t, q) = RealPath(s, q)
            BY <3>3, RealTrees
        <3> QED BY <2>1, <2>2, <3>4
    <2> QED BY <1>1, <1>2, <2>1, <2>2, <2>3 DEF WalkFails
<1> QED BY <1>2, <1>3, <1>4

LEMMA DescendsWithin ==
    ASSUME NEW s, NEW t, Trees(s, t), NEW root \in Seq(STRING), NEW p \in Seq(STRING),
           IsPrefix(root, p), Descends(s, root, p)
    PROVE  /\ Descends(t, root, p) /\ RealPath(s, p) # Nothing /\ RealPath(t, p) = RealPath(s, p)
           /\ Lstat(t, p) = Lstat(s, p) /\ Lstat(s, p) # Nothing
<1>1. /\ Lstat(s, p) # Nothing /\ ~WalkFails(s, root, p) /\ IsDir(s, p)
      /\ (Lstat(s, p).kind = "dir" \/ Followed(s, root, p))
      /\ Opt("noRecursion") => p = root
      /\ Opt("oneFileSystem") /\ p # root =>
            s[RealPath(s, p)].dev = s[RealPath(s, root)].dev
    BY DEF Descends
<1>2. Lstat(t, p) = Lstat(s, p)
    BY <1>1, LstatWithin
<1>3. ~WalkFails(t, root, p) /\ Followed(s, root, p) = Followed(t, root, p)
    BY <1>1, FailsWithin
<1>4. RealPath(s, p) # Nothing /\ s[RealPath(s, p)].kind = "dir"
    BY <1>1 DEF IsDir
<1>5. RealPath(t, p) = RealPath(s, p) /\ t[RealPath(s, p)] = s[RealPath(s, p)]
    BY <1>4, RealTrees
<1>6. RealPath(s, root) # Nothing
    <2>1. Len(root) \in 0 .. Len(p) /\ root = SubSeq(p, 1, Len(root))
        BY PrefixOf
    <2>2. RealPath(s, SubSeq(p, 1, Len(root))) # Nothing
        BY <1>4, <2>1, RealUp
    <2> QED BY <2>1, <2>2
<1>7. RealPath(t, root) = RealPath(s, root) /\ t[RealPath(s, root)] = s[RealPath(s, root)]
    BY <1>6, RealTrees
<1>8. IsDir(t, p)
    BY <1>4, <1>5, NothingIsApart DEF IsDir
<1>9. Descends(t, root, p)
    BY <1>1, <1>2, <1>3, <1>5, <1>7, <1>8 DEF Descends
<1> QED BY <1>1, <1>2, <1>4, <1>5, <1>9

LEMMA ReadsWithin ==
    ASSUME NEW s, NEW t, Trees(s, t), NEW root \in Seq(STRING), NEW p \in Seq(STRING),
           IsPrefix(root, p), ReadsIn(s, root, p)
    PROVE  ReadsIn(t, root, p) /\ RealPath(s, p) # Nothing /\ Listing(s, p) \subseteq Listing(t, p)
<1>1. /\ Descends(t, root, p) /\ RealPath(s, p) # Nothing /\ RealPath(t, p) = RealPath(s, p)
      /\ RealPath(s, p) \notin world.unreadable
    BY DescendsWithin DEF ReadsIn
<1>2. Listing(s, p) \subseteq Listing(t, p)
    BY <1>1 DEF Listing, Trees, Within
<1> QED BY <1>1, <1>2 DEF ReadsIn

\* The names in a directory.
LEMMA ListingOf ==
    ASSUME NEW s, NEW t, Trees(s, t), NEW p \in Seq(STRING), NEW c \in Listing(s, p),
           RealPath(s, p) # Nothing
    PROVE  /\ c \in Seq(STRING) /\ c # <<>> /\ Len(c) = Len(p) + 1 /\ Front(c) = p
           /\ Lstat(s, c) # Nothing /\ Lstat(t, c) # Nothing
<1>1. PICK d \in DOMAIN s \ {<<>>} : Front(d) = RealPath(s, p) /\ c = Append(p, Last(d))
    BY DEF Listing
<1>2. d \in Seq(STRING) /\ d # <<>>
    BY <1>1, NothingIsApart
<1>3. Last(d) \in STRING /\ d = Append(Front(d), Last(d))
    BY <1>2, FrontOf
<1>4. /\ c \in Seq(STRING) /\ c # <<>> /\ Len(c) = Len(p) + 1
      /\ Front(c) = p /\ Last(c) = Last(d)
    BY <1>1, <1>3, AppendOf
<1>5. Append(RealPath(s, Front(c)), Last(c)) \in DOMAIN s
    BY <1>1, <1>3, <1>4
<1>6. Lstat(s, c) = s[Append(RealPath(s, Front(c)), Last(c))]
    BY <1>4, <1>5 DEF Lstat
<1>7. Lstat(s, c) # Nothing
    BY <1>5, <1>6, NothingIsApart DEF Trees, Within
<1>8. Lstat(t, c) # Nothing
    BY <1>4, <1>7, LstatWithin
<1> QED BY <1>4, <1>7, <1>8


LEMMA ListingTyped ==
    ASSUME NEW t, DOMAIN t \subseteq Seq(STRING), NEW p \in Seq(STRING)
    PROVE  Listing(t, p) \in SUBSET Seq(STRING)
<1> SUFFICES ASSUME NEW c \in Listing(t, p) PROVE c \in Seq(STRING)
    OBVIOUS
<1>1. PICK d \in DOMAIN t \ {<<>>} : c = Append(p, Last(d))
    BY DEF Listing
<1>2. Last(d) \in STRING
    BY <1>1, FrontOf
<1> QED BY <1>1, <1>2, AppendOf

LEMMA PrefixStep ==
    ASSUME NEW a \in Seq(STRING), NEW p \in Seq(STRING), p # <<>>, IsPrefix(a, Front(p))
    PROVE  IsPrefix(a, p) /\ Len(a) < Len(p)
<1>1. /\ Front(p) \in Seq(STRING) /\ Len(Front(p)) = Len(p) - 1
      /\ p = Append(Front(p), Last(p)) /\ Last(p) \in STRING
    BY FrontOf
<1> DEFINE f == Front(p)
           l == Last(p)
<1>2. f \in Seq(STRING) /\ l \in STRING /\ p = Append(f, l) /\ IsPrefix(a, f)
    BY <1>1
<1> HIDE DEF f, l
<1>3. Len(a) \in 0 .. Len(f) /\ a = SubSeq(f, 1, Len(a))
    BY <1>2, PrefixOf
<1>4. /\ Len(p) = Len(f) + 1 /\ p \in Seq(STRING)
      /\ \A i \in 1 .. Len(f) : p[i] = f[i]
    BY <1>2, AppendProperties
<1>5. Len(a) \in 0 .. Len(p) /\ Len(a) < Len(p) /\ Len(f) \in Nat
    BY <1>2, <1>3, <1>4, LenProperties
<1>6. SubSeq(p, 1, Len(a)) = a
    <2>1. SubSeq(p, 1, Len(a)) \in Seq(STRING) /\ Len(SubSeq(p, 1, Len(a))) = Len(a)
        BY <1>5, PrefixOf
    <2>2. \A i \in 1 .. Len(a) : SubSeq(p, 1, Len(a))[i] = p[i] /\ SubSeq(f, 1, Len(a))[i] = f[i]
        <3>0. /\ \A i \in 1 .. Len(a) : i \in 1 .. Len(p) /\ i \in 1 .. Len(f)
              /\ Len(a) \in Int
            BY <1>3, <1>4, <1>5
        <3>1. \A i \in 1 .. Len(a) : p[i] \in STRING /\ f[i] \in STRING
            BY <1>2, <1>4, <3>0, ElementOfSeq
        <3> QED BY <3>0, <3>1, SubSeqProperties
    <2>3. \A i \in 1 .. Len(a) : SubSeq(p, 1, Len(a))[i] = a[i]
        BY <1>3, <1>4, <1>5, <2>2
    <2> QED BY <2>1, <2>3, SeqEqual
<1> QED BY <1>5, <1>6 DEF IsPrefix

LEMMA PrefixSelf ==
    ASSUME NEW a \in Seq(STRING)
    PROVE  IsPrefix(a, a)
<1>1. Len(a) \in Nat
    BY LenProperties
<1>2. SubSeq(a, 1, Len(a)) = a
    BY SubSeqFull
<1> QED BY <1>1, <1>2 DEF IsPrefix

\* A prefix is cut off where it ends.
LEMMA PrefixCut ==
    ASSUME NEW p \in Seq(STRING), NEW n \in 0 .. Len(p), NEW m \in 0 .. n
    PROVE  SubSeq(SubSeq(p, 1, n), 1, m) = SubSeq(p, 1, m)
<1> DEFINE q == SubSeq(p, 1, n)
<1>0. Len(p) \in Nat /\ n \in Nat /\ m \in Nat /\ m <= n /\ m \in 0 .. Len(p)
    BY LenProperties
<1>1. q \in Seq(STRING) /\ Len(q) = n
    BY PrefixOf
<1>2. \A i \in 1 .. n : q[i] = p[i]
    <2>1. \A i \in 1 .. n : p[i] \in STRING
        BY <1>0, ElementOfSeq
    <2> QED BY <1>0, <2>1, SubSeqProperties
<1> HIDE DEF q
<1>3. SubSeq(q, 1, m) \in Seq(STRING) /\ Len(SubSeq(q, 1, m)) = m
    BY <1>0, <1>1, PrefixOf
<1>4. SubSeq(p, 1, m) \in Seq(STRING) /\ Len(SubSeq(p, 1, m)) = m
    BY <1>0, PrefixOf
<1>5. \A i \in 1 .. m : SubSeq(q, 1, m)[i] = q[i] /\ SubSeq(p, 1, m)[i] = p[i]
    <2>1. \A i \in 1 .. m : p[i] \in STRING /\ q[i] \in STRING
        BY <1>0, <1>1, ElementOfSeq
    <2> QED BY <1>0, <2>1, SubSeqProperties
<1>6. \A i \in 1 .. m : SubSeq(q, 1, m)[i] = SubSeq(p, 1, m)[i]
    BY <1>0, <1>2, <1>5
<1>7. SubSeq(q, 1, m) = SubSeq(p, 1, m)
    BY <1>3, <1>4, <1>6, SeqEqual
<1> QED BY <1>7 DEF q

\* Of two prefixes of one name one is a prefix of the other.
LEMMA PrefixesMeet ==
    ASSUME NEW a \in Seq(STRING), NEW b \in Seq(STRING), NEW p \in Seq(STRING),
           IsPrefix(a, p), IsPrefix(b, p)
    PROVE  /\ IsPrefix(a, b) \/ IsPrefix(b, a)
           /\ Len(a) = Len(b) => a = b
           /\ Len(a) <= Len(b) => IsPrefix(a, b)
<1>1. /\ Len(a) \in 0 .. Len(p) /\ a = SubSeq(p, 1, Len(a))
      /\ Len(b) \in 0 .. Len(p) /\ b = SubSeq(p, 1, Len(b))
    BY PrefixOf
<1>2. ASSUME NEW x \in Seq(STRING), NEW y \in Seq(STRING), Len(x) \in 0 .. Len(p), x = SubSeq(p, 1, Len(x)),
             Len(y) \in 0 .. Len(p), y = SubSeq(p, 1, Len(y)), Len(x) <= Len(y)
      PROVE  IsPrefix(x, y)
    <2>1. Len(x) \in 0 .. Len(y)
        BY <1>2, LenProperties
    <2>2. SubSeq(y, 1, Len(x)) = x
        BY <1>2, <2>1, PrefixCut
    <2> QED BY <1>2, <2>1, <2>2 DEF IsPrefix
<1>3. Len(a) <= Len(b) => IsPrefix(a, b)
    BY <1>1, <1>2
<1>4. Len(b) <= Len(a) => IsPrefix(b, a)
    BY <1>1, <1>2
<1>5. Len(a) <= Len(b) \/ Len(b) <= Len(a)
    BY <1>1, LenProperties
<1> QED BY <1>1, <1>3, <1>4, <1>5

-----------------------------------------------------------------------------
(* The names a walk comes to.                                              *)

LEMMA LevelSteps ==
    ASSUME NEW t, DOMAIN t \subseteq Seq(STRING), NEW root \in Seq(STRING)
    PROVE  /\ \A n \in 0 .. MaxDepth : Level(t, root)[n] \in SUBSET Seq(STRING)
           /\ Level(t, root)[0] = {root}
           /\ \A n \in 1 .. MaxDepth : Level(t, root)[n] =
                 UNION {Listing(t, p) : p \in {p \in Level(t, root)[n - 1] : ReadsIn(t, root, p)}}
<1> DEFINE S == SUBSET Seq(STRING)
           On(A) == UNION {Listing(t, p) : p \in {p \in A : ReadsIn(t, root, p)}}
           g == [x \in (1 .. MaxDepth) \X S |-> On(x[2])]
<1>0. MaxDepth \in Nat
    BY SourcesAssumption
<1>1. \A A \in S : On(A) \in S
    BY ListingTyped
<1>2. g \in [(1 .. MaxDepth) \X S -> S]
    <2> HIDE DEF S, On
    <2> QED BY <1>1
<1>3. {root} \in S
    OBVIOUS
<1>4. \A n \in 1 .. MaxDepth : \A A \in S : g[<<n, A>>] = On(A)
    <2> HIDE DEF S, On
    <2> QED OBVIOUS
<1> HIDE DEF g, S
<1>5. PICK f \in [0 .. MaxDepth -> S] : Recurs(f, MaxDepth, {root}, g)
    BY <1>0, <1>2, <1>3, RecursionExists, Zenon
<1>6. \A n \in 1 .. MaxDepth : f[n] = On(f[n - 1])
    <2>1. \A n \in 1 .. MaxDepth : n - 1 \in 0 .. MaxDepth
        BY <1>0
    <2> HIDE DEF On
    <2> QED BY <1>4, <1>5, <2>1 DEF Recurs
<1> DEFINE F(h) == [n \in 0 .. MaxDepth |-> IF n = 0 THEN {root} ELSE On(h[n - 1])]
<1>7. f = F(f)
    <2> HIDE DEF On
    <2>1. \A n \in 0 .. MaxDepth : f[n] = F(f)[n]
        BY <1>0, <1>5, <1>6 DEF Recurs
    <2> QED BY <2>1
<1> DEFINE to == CHOOSE h : h = F(h)
<1>8. to = F(to)
    BY <1>7
<1>9. Level(t, root) = to
    BY DEF Level
<1> HIDE DEF to
<1>10. \A n \in 0 .. MaxDepth : to[n] = IF n = 0 THEN {root} ELSE On(to[n - 1])
    <2> HIDE DEF On
    <2> QED BY <1>8
<1>11. 0 \in 0 .. MaxDepth /\ \A n \in 1 .. MaxDepth : n \in 0 .. MaxDepth /\ n # 0
    BY <1>0
<1>12. to[0] = {root} /\ \A n \in 1 .. MaxDepth : to[n] = On(to[n - 1])
    <2> HIDE DEF On
    <2> QED BY <1>10, <1>11
<1>13. \A n \in 0 .. MaxDepth : to[n] \in S
    <2> DEFINE T == {n \in 0 .. MaxDepth : to[n] \in S}
    <2>1. 0 \in T
        BY <1>3, <1>11, <1>12
    <2>2. ASSUME NEW n \in 0 .. MaxDepth - 1, n \in T
          PROVE  n + 1 \in T
        <3>1. n + 1 \in 1 .. MaxDepth /\ n + 1 - 1 = n /\ n + 1 \in 0 .. MaxDepth
            BY <1>0
        <3>2. to[n + 1] = On(to[n])
            <4> HIDE DEF On
            <4> QED BY <1>12, <3>1
        <3>3. to[n] \in S
            BY <2>2
        <3> HIDE DEF On
        <3>4. to[n + 1] \in S
            BY <1>1, <3>2, <3>3
        <3> QED BY <3>1, <3>4
    <2> HIDE DEF T
    <2>3. \A n \in 0 .. MaxDepth : n \in T
        BY <1>0, <2>1, <2>2, Climb, Zenon
    <2> QED BY <2>3 DEF T
<1> QED BY <1>9, <1>12, <1>13 DEF S

\* The names on a level are as far below the root as the level says.
LEMMA LevelNames ==
    ASSUME NEW t, Trees(t, t), NEW root \in Seq(STRING), NEW n \in 0 .. MaxDepth,
           NEW p \in Level(t, root)[n]
    PROVE  p \in Seq(STRING) /\ Len(p) = Len(root) + n /\ IsPrefix(root, p)
<1> DEFINE Good(m, q) == q \in Seq(STRING) /\ Len(q) = Len(root) + m /\ IsPrefix(root, q)
           T == {m \in 0 .. MaxDepth : \A q \in Level(t, root)[m] : Good(m, q)}
<1>0. MaxDepth \in Nat /\ DOMAIN t \subseteq Seq(STRING) /\ Len(root) \in Nat
    BY SourcesAssumption, LenProperties DEF Trees
<1>1. 0 \in T
    <2>1. Level(t, root)[0] = {root}
        BY <1>0, LevelSteps
    <2>2. Good(0, root)
        BY <1>0, PrefixSelf
    <2> HIDE DEF Good
    <2> QED BY <1>0, <2>1, <2>2
<1>2. ASSUME NEW m \in 0 .. MaxDepth - 1, m \in T
      PROVE  m + 1 \in T
    <2>1. m + 1 \in 1 .. MaxDepth /\ m + 1 - 1 = m /\ m + 1 \in 0 .. MaxDepth
        BY <1>0
    <2>2. ASSUME NEW q \in Level(t, root)[m + 1]
          PROVE  Good(m + 1, q)
        <3>1. PICK d \in Level(t, root)[m] : ReadsIn(t, root, d) /\ q \in Listing(t, d)
            BY <1>0, <2>1, LevelSteps
        <3>2. Good(m, d)
            BY <1>2
        <3>3. RealPath(t, d) # Nothing
            BY <3>1, <3>2, ReadsWithin
        <3>4. q \in Seq(STRING) /\ q # <<>> /\ Len(q) = Len(d) + 1 /\ Front(q) = d
            BY <3>1, <3>2, <3>3, ListingOf
        <3>5. IsPrefix(root, q)
            BY <3>2, <3>4, PrefixStep
        <3> QED BY <1>0, <3>2, <3>4, <3>5
    <2> HIDE DEF Good
    <2> QED BY <2>1, <2>2
<1> HIDE DEF T
<1>3. \A m \in 0 .. MaxDepth : m \in T
    BY <1>0, <1>1, <1>2, Climb, Zenon
<1> QED BY <1>3 DEF T

\* A name below the root was listed by its directory, which is on the level above.
LEMMA LevelUp ==
    ASSUME NEW t, Trees(t, t), NEW root \in Seq(STRING), NEW n \in 1 .. MaxDepth,
           NEW p \in Level(t, root)[n]
    PROVE  /\ Front(p) \in Level(t, root)[n - 1] /\ ReadsIn(t, root, Front(p))
           /\ p \in Listing(t, Front(p)) /\ Front(p) = SubSeq(p, 1, Len(p) - 1)
           /\ p # <<>>
<1>0. /\ MaxDepth \in Nat /\ DOMAIN t \subseteq Seq(STRING)
      /\ n - 1 \in 0 .. MaxDepth /\ n \in 0 .. MaxDepth
    BY SourcesAssumption DEF Trees
<1>1. PICK d \in Level(t, root)[n - 1] : ReadsIn(t, root, d) /\ p \in Listing(t, d)
    BY <1>0, LevelSteps
<1>2. d \in Seq(STRING) /\ IsPrefix(root, d)
    BY <1>0, LevelNames
<1>3. RealPath(t, d) # Nothing
    BY <1>1, <1>2, ReadsWithin
<1>4. Front(p) = d /\ p \in Seq(STRING) /\ p # <<>>
    BY <1>1, <1>2, <1>3, ListingOf
<1> QED BY <1>1, <1>4, FrontOf

LEMMA LevelDown ==
    ASSUME NEW t, DOMAIN t \subseteq Seq(STRING), NEW root \in Seq(STRING), NEW n \in 0 .. MaxDepth - 1,
           NEW d \in Level(t, root)[n], ReadsIn(t, root, d), NEW p \in Listing(t, d)
    PROVE  p \in Level(t, root)[n + 1]
<1>1. n + 1 \in 1 .. MaxDepth /\ n + 1 - 1 = n
    BY SourcesAssumption
<1> QED BY <1>1, LevelSteps

\* Every name between the root and a name that the walk reaches is reached.
LEMMA LevelBetween ==
    ASSUME NEW t, Trees(t, t), NEW root \in Seq(STRING), NEW n \in 0 .. MaxDepth,
           NEW p \in Level(t, root)[n], NEW k \in 0 .. n
    PROVE  SubSeq(p, 1, Len(root) + k) \in Level(t, root)[k]
<1> DEFINE cut(m) == SubSeq(p, 1, Len(p) - m)
           T == {m \in 0 .. n - k : cut(m) \in Level(t, root)[n - m]}
<1>0. /\ MaxDepth \in Nat /\ DOMAIN t \subseteq Seq(STRING) /\ n \in Nat /\ k \in Nat /\ n - k \in Nat
      /\ p \in Seq(STRING) /\ Len(p) = Len(root) + n /\ Len(root) \in Nat /\ n <= MaxDepth
    BY SourcesAssumption, LevelNames, LenProperties DEF Trees
<1>1. 0 \in T
    <2>1. SubSeq(p, 1, Len(p)) = p
        BY <1>0, SubSeqFull
    <2>2. n - 0 = n /\ Len(p) - 0 = Len(p) /\ 0 \in 0 .. n - k
        BY <1>0
    <2> QED BY <2>1, <2>2
<1>2. ASSUME NEW m \in 0 .. n - k - 1, m \in T
      PROVE  m + 1 \in T
    <2>1. /\ n - m \in 1 .. MaxDepth /\ n - m - 1 = n - (m + 1) /\ m + 1 \in 0 .. n - k
          /\ Len(p) - m \in 0 .. Len(p) /\ Len(p) - m - 1 \in 0 .. Len(p) - m
          /\ Len(p) - m - 1 = Len(p) - (m + 1)
        BY <1>0
    <2>2. cut(m) \in Level(t, root)[n - m]
        BY <1>2
    <2>3. Len(cut(m)) = Len(p) - m
        BY <1>0, <2>1, PrefixOf
    <2>4. SubSeq(cut(m), 1, Len(p) - m - 1) = SubSeq(p, 1, Len(p) - m - 1)
        BY <1>0, <2>1, PrefixCut
    <2> HIDE DEF cut
    <2>5. Front(cut(m)) \in Level(t, root)[n - m - 1] /\ Front(cut(m)) = SubSeq(cut(m), 1, Len(cut(m)) - 1)
        BY <2>1, <2>2, LevelUp
    <2>6. cut(m + 1) = SubSeq(p, 1, Len(p) - (m + 1))
        BY DEF cut
    <2>7. Front(cut(m)) = cut(m + 1)
        BY <2>1, <2>3, <2>4, <2>5, <2>6
    <2>8. cut(m + 1) \in Level(t, root)[n - (m + 1)]
        BY <2>1, <2>5, <2>7
    <2> QED BY <2>1, <2>8
<1> HIDE DEF T
<1>3. \A m \in 0 .. n - k : m \in T
    BY <1>0, <1>1, <1>2, Climb, Zenon
<1>4. n - k \in T
    BY <1>0, <1>3
<1>5. Len(p) - (n - k) = Len(root) + k /\ n - (n - k) = k
    BY <1>0
<1> QED BY <1>4, <1>5 DEF T

LEMMA ReachedOf ==
    ASSUME NEW t, Trees(t, t), NEW root \in Seq(STRING), NEW p \in Reached(t, root)
    PROVE  /\ p \in Seq(STRING) /\ IsPrefix(root, p) /\ Near(root, p)
           /\ Len(p) - Len(root) \in 0 .. MaxDepth /\ p \in Level(t, root)[Len(p) - Len(root)]
<1>1. PICK n \in 0 .. MaxDepth : p \in Level(t, root)[n]
    BY DEF Reached
<1>2. p \in Seq(STRING) /\ Len(p) = Len(root) + n /\ IsPrefix(root, p)
    BY <1>1, LevelNames
<1>3. MaxDepth \in Nat /\ Len(root) \in Nat
    BY SourcesAssumption, LenProperties
<1>4. Len(p) - Len(root) = n /\ n <= MaxDepth
    BY <1>2, <1>3
<1> QED BY <1>1, <1>2, <1>3, <1>4 DEF Near

LEMMA RootReached ==
    ASSUME NEW t, Trees(t, t), NEW root \in Seq(STRING)
    PROVE  root \in Reached(t, root)
<1>1. DOMAIN t \subseteq Seq(STRING) /\ 0 \in 0 .. MaxDepth
    BY SourcesAssumption DEF Trees
<1> QED BY <1>1, LevelSteps DEF Reached

\* The walk goes on from a name it reaches, through each directory it reads.
LEMMA ReachedDown ==
    ASSUME NEW t, Trees(t, t), NEW root \in Seq(STRING), NEW d \in Reached(t, root),
           ReadsIn(t, root, d), NEW p \in Listing(t, d), Near(root, p)
    PROVE  p \in Reached(t, root)
<1>1. /\ d \in Seq(STRING) /\ IsPrefix(root, d)
      /\ Len(d) - Len(root) \in 0 .. MaxDepth /\ d \in Level(t, root)[Len(d) - Len(root)]
    BY ReachedOf
<1>2. RealPath(t, d) # Nothing
    BY <1>1, ReadsWithin
<1>3. p \in Seq(STRING) /\ Len(p) = Len(d) + 1
    BY <1>1, <1>2, ListingOf
<1>4. Len(d) \in Nat /\ Len(root) \in Nat /\ MaxDepth \in Nat
    BY <1>1, LenProperties, SourcesAssumption
<1>5. Len(d) - Len(root) \in 0 .. MaxDepth - 1 /\ Len(d) - Len(root) + 1 \in 0 .. MaxDepth
    BY <1>1, <1>3, <1>4 DEF Near
<1>6. p \in Level(t, root)[Len(d) - Len(root) + 1]
    BY <1>1, <1>5, LevelDown DEF Trees
<1> QED BY <1>5, <1>6 DEF Reached

\* A name the walk reaches below a name it comes to lies in a directory read on
\* the way: the name it comes to is read, and lists the next name of the way.
LEMMA ReachedUp ==
    ASSUME NEW t, Trees(t, t), NEW root \in Seq(STRING), NEW p \in Reached(t, root),
           NEW q \in Seq(STRING), IsPrefix(root, q), IsPrefix(q, p), q # p
    PROVE  /\ ReadsIn(t, root, q)
           /\ \E c \in Listing(t, q) : IsPrefix(c, p)
<1> DEFINE n == Len(p) - Len(root)
           k == Len(q) + 1 - Len(root)
           c == SubSeq(p, 1, Len(q) + 1)
<1>1. p \in Seq(STRING) /\ n \in 0 .. MaxDepth /\ p \in Level(t, root)[n]
    BY ReachedOf
<1>2. Len(p) \in Nat /\ Len(q) \in Nat /\ Len(root) \in Nat /\ Len(root) <= Len(q) /\ MaxDepth \in Nat
    BY <1>1, LenProperties, PrefixOf, SourcesAssumption
<1>3. Len(q) \in 0 .. Len(p) /\ q = SubSeq(p, 1, Len(q)) /\ Len(q) # Len(p)
    <2>1. SubSeq(p, 1, Len(p)) = p
        BY <1>1, SubSeqFull
    <2> QED BY <1>1, <2>1, PrefixOf
<1>4. /\ k \in 0 .. n /\ k \in 1 .. MaxDepth /\ Len(root) + k = Len(q) + 1
      /\ Len(q) + 1 \in 0 .. Len(p) /\ Len(q) \in 0 .. Len(q) + 1 /\ Len(q) + 1 - 1 = Len(q)
    BY <1>1, <1>2, <1>3
<1>5. SubSeq(p, 1, Len(root) + k) \in Level(t, root)[k]
    <2> HIDE DEF n, k
    <2> QED BY <1>1, <1>4, LevelBetween
<1>6. c \in Level(t, root)[k]
    BY <1>4, <1>5
<1>7. /\ IsPrefix(c, p) /\ Len(c) = Len(q) + 1
      /\ SubSeq(c, 1, Len(q)) = q
    BY <1>1, <1>3, <1>4, PrefixOf, PrefixCut
<1> HIDE DEF n, k, c
<1>8. /\ ReadsIn(t, root, Front(c)) /\ c \in Listing(t, Front(c))
      /\ Front(c) = SubSeq(c, 1, Len(c) - 1)
    BY <1>4, <1>6, LevelUp
<1>9. Front(c) = q
    BY <1>4, <1>7, <1>8
<1> QED BY <1>7, <1>8, <1>9

LEMMA ReachedWithin ==
    ASSUME NEW s, NEW t, Trees(s, t), NEW root \in Seq(STRING), NEW p \in Reached(s, root)
    PROVE  p \in Reached(t, root)
<1> DEFINE T == {n \in 0 .. MaxDepth : Level(s, root)[n] \subseteq Level(t, root)[n]}
<1>0. /\ MaxDepth \in Nat /\ DOMAIN t \subseteq Seq(STRING) /\ DOMAIN s \subseteq Seq(STRING)
      /\ Trees(s, s) /\ Trees(t, t)
    BY SourcesAssumption, NothingIsApart DEF Trees
<1>1. 0 \in T
    BY <1>0, LevelSteps
<1>2. ASSUME NEW n \in 0 .. MaxDepth - 1, n \in T
      PROVE  n + 1 \in T
    <2>1. n + 1 \in 1 .. MaxDepth /\ n + 1 - 1 = n /\ n + 1 \in 0 .. MaxDepth /\ n \in 0 .. MaxDepth
        BY <1>0
    <2>2. ASSUME NEW q \in Level(s, root)[n + 1]
          PROVE  q \in Level(t, root)[n + 1]
        <3>1. PICK d \in Level(s, root)[n] : ReadsIn(s, root, d) /\ q \in Listing(s, d)
            BY <1>0, <2>1, LevelSteps
        <3>2. d \in Seq(STRING) /\ IsPrefix(root, d)
            BY <1>0, <2>1, LevelNames
        <3>3. ReadsIn(t, root, d) /\ q \in Listing(t, d)
            BY <3>1, <3>2, ReadsWithin
        <3>4. d \in Level(t, root)[n]
            BY <1>2
        <3> QED BY <1>0, <3>3, <3>4, LevelDown
    <2> QED BY <2>1, <2>2
<1> HIDE DEF T
<1>3. \A n \in 0 .. MaxDepth : n \in T
    BY <1>0, <1>1, <1>2, Climb, Zenon
<1> QED BY <1>3 DEF Reached, T

LEMMA MetWithin ==
    ASSUME NEW s, NEW t, Trees(s, t), NEW root \in Seq(STRING), NEW p \in Met(s, root)
    PROVE  p \in Met(t, root) /\ Lstat(s, p) = Lstat(t, p) /\ (Legible(s, p) => Legible(t, p))
<1>1. p \in Reached(s, root) /\ Lstat(s, p) # Nothing /\ ~WalkFails(s, root, p)
    BY DEF Met
<1>2. p \in Seq(STRING) /\ IsPrefix(root, p)
    BY <1>1, ReachedOf, NothingIsApart
<1>3. p \in Reached(t, root)
    BY <1>1, ReachedWithin
<1>4. Lstat(s, p) = Lstat(t, p)
    BY <1>1, <1>2, LstatWithin
<1>5. ~WalkFails(t, root, p)
    BY <1>1, <1>2, FailsWithin
<1> QED BY <1>1, <1>3, <1>4, <1>5 DEF Met, Legible

-----------------------------------------------------------------------------
(* What is given.                                                          *)

LEMMA FrontIn ==
    ASSUME NEW X, NEW s \in Seq(X), s # <<>>
    PROVE  Front(s) \in Seq(X) /\ Last(s) \in X
<1>1. Len(s) \in Nat \ {0}
    BY EmptySeq
<1>2. \A i \in 1 .. Len(s) : s[i] \in X
    BY ElementOfSeq
<1>3. 1 \in Int /\ Len(s) - 1 \in Int /\ \A i \in 1 .. Len(s) - 1 : s[i] \in X
    BY <1>1, <1>2
<1>4. Front(s) \in Seq(X)
    BY <1>3, SubSeqProperties DEF Front
<1> QED BY <1>1, <1>2, <1>4 DEF Last

LEMMA FunctionIsSeq ==
    ASSUME NEW X, NEW n \in Nat, NEW f \in [1 .. n -> X]
    PROVE  f \in Seq(X) /\ Len(f) = n
OBVIOUS

Text0 == Seq({"cr"} \cup Seq(STRING))

LEMMA RecordsTyped ==
    ASSUME NEW list \in Seq(Chunks)
    PROVE  Records(list) \in Seq(Text0)
<1> DEFINE S == Seq(Text0) \ {<<>>}
           On(n, q) == IF list[n] = "sep" THEN Append(q, <<>>)
                       ELSE Append(Front(q), Append(Last(q), list[n]))
           g == [x \in (1 .. Len(list)) \X S |-> On(x[1], x[2])]
<1>0. Len(list) \in Nat
    BY LenProperties
<1>1. ASSUME NEW n \in 1 .. Len(list), NEW q \in S
      PROVE  On(n, q) \in S
    <2>1. list[n] \in Chunks
        BY ElementOfSeq
    <2>2. Front(q) \in Seq(Text0) /\ Last(q) \in Text0
        BY FrontIn
    <2>3. CASE list[n] = "sep"
        <3>1. <<>> \in Text0
            BY DEF Text0
        <3>2. Append(q, <<>>) \in Seq(Text0) /\ Append(q, <<>>) # <<>>
            BY <3>1, AppendProperties
        <3> QED BY <2>3, <3>2
    <2>4. CASE list[n] # "sep"
        <3>1. Append(Last(q), list[n]) \in Text0
            BY <2>1, <2>2, <2>4, AppendProperties DEF Text0, Chunks
        <3>2. Append(Front(q), Append(Last(q), list[n])) \in Seq(Text0)
            BY <2>2, <3>1, AppendProperties
        <3>3. Append(Front(q), Append(Last(q), list[n])) # <<>>
            <4>1. /\ Len(Append(Front(q), Append(Last(q), list[n]))) = Len(Front(q)) + 1
                  /\ Len(Front(q)) \in Nat
                BY <2>2, <3>1, AppendProperties, LenProperties
            <4>2. Len(<<>>) = 0
                OBVIOUS
            <4> QED BY <4>1, <4>2
        <3> QED BY <2>4, <3>2, <3>3
    <2> QED BY <2>3, <2>4
<1>2. g \in [(1 .. Len(list)) \X S -> S]
    <2> HIDE DEF S, On
    <2> QED BY <1>1
<1>3. <<<<>>>> \in S
    BY DEF Text0
<1>4. \A n \in 1 .. Len(list) : \A q \in S : g[<<n, q>>] = On(n, q)
    <2> HIDE DEF S, On
    <2> QED OBVIOUS
<1> HIDE DEF g, S
<1>5. PICK f \in [0 .. Len(list) -> S] : Recurs(f, Len(list), <<<<>>>>, g)
    BY <1>0, <1>2, <1>3, RecursionExists, Zenon
<1>6. \A n \in 1 .. Len(list) : f[n] = On(n, f[n - 1])
    <2>1. \A n \in 1 .. Len(list) : n - 1 \in 0 .. Len(list)
        BY <1>0
    <2> HIDE DEF On
    <2> QED BY <1>4, <1>5, <2>1 DEF Recurs
<1> DEFINE F(h) == [n \in 0 .. Len(list) |-> IF n = 0 THEN <<<<>>>> ELSE On(n, h[n - 1])]
<1>7. f = F(f)
    <2> HIDE DEF On
    <2>1. \A n \in 1 .. Len(list) : f[n] = F(f)[n]
        BY <1>0, <1>6
    <2>2. f[0] = F(f)[0]
        BY <1>0, <1>5 DEF Recurs
    <2>3. \A n \in 0 .. Len(list) : f[n] = F(f)[n]
        <3>1. \A n \in 0 .. Len(list) : n = 0 \/ n \in 1 .. Len(list)
            BY <1>0
        <3> HIDE DEF F
        <3> QED BY <2>1, <2>2, <3>1, Zenon
    <2> QED BY <2>3
<1> DEFINE to == CHOOSE h : h = F(h)
<1>8. to = F(to)
    BY <1>7
<1>9. Records(list) = to[Len(list)]
    BY DEF Records
<1> HIDE DEF to
<1>10. \A n \in 0 .. Len(list) : to[n] = IF n = 0 THEN <<<<>>>> ELSE On(n, to[n - 1])
    <2> HIDE DEF On
    <2> QED BY <1>8
<1> DEFINE T == {n \in 0 .. Len(list) : to[n] \in S}
<1>11. 0 \in T
    BY <1>0, <1>3, <1>10
<1>12. ASSUME NEW n \in 0 .. Len(list) - 1, n \in T
       PROVE  n + 1 \in T
    <2>1. n + 1 \in 1 .. Len(list) /\ n + 1 - 1 = n /\ n + 1 \in 0 .. Len(list) /\ n + 1 # 0
        BY <1>0
    <2> HIDE DEF On
    <2>2. to[n + 1] = On(n + 1, to[n])
        BY <1>10, <2>1
    <2>3. to[n] \in S
        BY <1>12
    <2> QED BY <1>1, <2>1, <2>2, <2>3
<1> HIDE DEF T
<1>13. \A n \in 0 .. Len(list) : n \in T
    BY <1>0, <1>11, <1>12, Climb, Zenon
<1>14. to[Len(list)] \in S
    BY <1>0, <1>13 DEF T
<1> QED BY <1>9, <1>14 DEF S

LEMMA TextsTyped ==
    ASSUME NEW list \in [stdin: BOOLEAN, buf: Seq(Chunks)], NEW null
    PROVE  Texts(list, null) \in Seq(Text0)
<1> DEFINE R == Records(list.buf)
<1>1. R \in Seq(Text0)
    BY RecordsTyped
<1>2. Len(R) \in Nat /\ DOMAIN R = 1 .. Len(R) /\ \A n \in 1 .. Len(R) : R[n] \in Text0
    BY <1>1, LenProperties, ElementOfSeq
<1>3. Texts(list, null) = [n \in DOMAIN R |-> IF list.stdin /\ null THEN R[n] ELSE Stripped(R[n])]
    BY DEF Texts
<1> HIDE DEF R
<1>4. \A text \in Text0 : Stripped(text) \in Text0
    BY FrontIn DEF Stripped, Text0
<1>5. Texts(list, null) \in [1 .. Len(R) -> Text0]
    BY <1>2, <1>3, <1>4
<1> QED BY <1>2, <1>5, FunctionIsSeq

LEMMA PathTyped ==
    ASSUME NEW text \in Text0
    PROVE  PathOf(text) \in Seq(STRING)
<1>1. CASE Len(text) = 1 /\ text[1] # "cr"
    <2>1. text[1] \in {"cr"} \cup Seq(STRING)
        BY <1>1, ElementOfSeq DEF Text0
    <2> QED BY <1>1, <2>1 DEF PathOf
<1>2. <<Stray>> \in Seq(STRING)
    BY SourcesAssumption
<1> QED BY <1>1, <1>2 DEF PathOf

GivenFrom(K) == [no: K \X Nat, path: Seq(STRING)]

LEMMA LinesTyped ==
    ASSUME NEW texts \in Seq(Text0), NEW k \in Nat
    PROVE  Lines(texts, k) \in Seq(GivenFrom({k}))
<1> DEFINE S == Seq(GivenFrom({k}))
           On(n, q) == IF texts[n] = <<>> THEN q
                       ELSE Append(q, [no |-> <<k, n>>, path |-> PathOf(texts[n])])
           g == [x \in (1 .. Len(texts)) \X S |-> On(x[1], x[2])]
<1>0. Len(texts) \in Nat
    BY LenProperties
<1>1. ASSUME NEW n \in 1 .. Len(texts), NEW q \in S
      PROVE  On(n, q) \in S
    <2>1. texts[n] \in Text0
        BY ElementOfSeq
    <2>2. PathOf(texts[n]) \in Seq(STRING)
        BY <2>1, PathTyped
    <2>3. [no |-> <<k, n>>, path |-> PathOf(texts[n])] \in GivenFrom({k})
        BY <1>0, <2>2 DEF GivenFrom
    <2>4. Append(q, [no |-> <<k, n>>, path |-> PathOf(texts[n])]) \in S
        BY <2>3, AppendProperties
    <2> QED BY <2>4
<1>2. g \in [(1 .. Len(texts)) \X S -> S]
    <2> HIDE DEF S, On
    <2> QED BY <1>1
<1>3. <<>> \in S
    OBVIOUS
<1>4. \A n \in 1 .. Len(texts) : \A q \in S : g[<<n, q>>] = On(n, q)
    <2> HIDE DEF S, On
    <2> QED OBVIOUS
<1> HIDE DEF g, S
<1>5. PICK f \in [0 .. Len(texts) -> S] : Recurs(f, Len(texts), <<>>, g)
    BY <1>0, <1>2, <1>3, RecursionExists, Zenon
<1>6. \A n \in 1 .. Len(texts) : f[n] = On(n, f[n - 1])
    <2>1. \A n \in 1 .. Len(texts) : n - 1 \in 0 .. Len(texts)
        BY <1>0
    <2> HIDE DEF On
    <2> QED BY <1>4, <1>5, <2>1 DEF Recurs
<1> DEFINE F(h) == [n \in 0 .. Len(texts) |-> IF n = 0 THEN <<>> ELSE On(n, h[n - 1])]
<1>7. f = F(f)
    <2> HIDE DEF On
    <2>1. \A n \in 0 .. Len(texts) : f[n] = F(f)[n]
        BY <1>0, <1>5, <1>6 DEF Recurs
    <2> QED BY <2>1
<1> DEFINE to == CHOOSE h : h = F(h)
<1>8. to = F(to)
    BY <1>7
<1>9. Lines(texts, k) = to[Len(texts)]
    BY DEF Lines
<1> HIDE DEF to
<1>10. \A n \in 0 .. Len(texts) : to[n] = IF n = 0 THEN <<>> ELSE On(n, to[n - 1])
    <2> HIDE DEF On
    <2> QED BY <1>8
<1> DEFINE T == {n \in 0 .. Len(texts) : to[n] \in S}
<1>11. 0 \in T
    <2> HIDE DEF On
    <2>1. 0 \in 0 .. Len(texts) /\ to[0] = <<>>
        BY <1>0, <1>10
    <2> QED BY <1>3, <2>1
<1>12. ASSUME NEW n \in 0 .. Len(texts) - 1, n \in T
       PROVE  n + 1 \in T
    <2>1. n + 1 \in 1 .. Len(texts) /\ n + 1 - 1 = n /\ n + 1 \in 0 .. Len(texts) /\ n + 1 # 0
        BY <1>0
    <2> HIDE DEF On
    <2>2. to[n + 1] = On(n + 1, to[n])
        BY <1>10, <2>1
    <2>3. to[n] \in S
        BY <1>12
    <2> QED BY <1>1, <2>1, <2>2, <2>3
<1> HIDE DEF T
<1>13. \A n \in 0 .. Len(texts) : n \in T
    BY <1>0, <1>11, <1>12, Climb, Zenon
<1>14. to[Len(texts)] \in S
    BY <1>0, <1>13 DEF T
<1> QED BY <1>9, <1>14 DEF S

\* First come the directories of the command line, then lines.
LinesAfter(w) ==
    {s \in Seq(GivenFrom(Nat)) :
        /\ Len(w.inputs) <= Len(s)
        /\ \A i \in 1 .. Len(w.inputs) : s[i] = [no |-> <<0, i>>, path |-> w.inputs[i]]
        /\ \A i \in 1 .. Len(s) : Len(w.inputs) < i => s[i].no[1] # 0}

LEMMA LinesAdded ==
    ASSUME NEW w \in Worlds, NEW q \in LinesAfter(w), NEW k \in Nat \ {0},
           NEW r \in Seq(GivenFrom({k}))
    PROVE  q \o r \in LinesAfter(w)
<1>1. q \in Seq(GivenFrom(Nat)) /\ Len(w.inputs) <= Len(q)
    BY DEF LinesAfter
<1>2. w.inputs \in Seq(Seq(STRING))
    BY SourcesAssumption
<1>3. Len(q) \in Nat /\ Len(r) \in Nat /\ Len(w.inputs) \in Nat
    BY <1>1, <1>2, LenProperties
<1>4. r \in Seq(GivenFrom(Nat))
    <2>1. GivenFrom({k}) \subseteq GivenFrom(Nat)
        BY DEF GivenFrom
    <2> QED BY <2>1, SeqMonotonic
<1>5. \A i \in 1 .. Len(r) : r[i].no[1] = k
    <2>1. \A i \in 1 .. Len(r) : r[i] \in GivenFrom({k})
        BY ElementOfSeq
    <2> QED BY <2>1 DEF GivenFrom
<1>6. /\ q \o r \in Seq(GivenFrom(Nat)) /\ Len(q \o r) = Len(q) + Len(r)
      /\ \A i \in 1 .. Len(q) + Len(r) : (q \o r)[i] = IF i <= Len(q) THEN q[i] ELSE r[i - Len(q)]
    BY <1>1, <1>4, ConcatProperties
<1> DEFINE L == Len(q)
           M == Len(r)
           I == Len(w.inputs)
           v == q \o r
<1> HIDE DEF L, M, I, v
<1>7. L \in Nat /\ M \in Nat /\ I \in Nat /\ I <= L
    BY <1>1, <1>3 DEF L, M, I
<1>8. \A i \in 1 .. L + M : v[i] = IF i <= L THEN q[i] ELSE r[i - L]
    BY <1>6 DEF L, M, v
<1>9. ASSUME NEW i \in 1 .. I
      PROVE  v[i] = [no |-> <<0, i>>, path |-> w.inputs[i]]
    <2>1. i \in 1 .. L + M /\ i <= L
        BY <1>7
    <2>2. q[i] = [no |-> <<0, i>>, path |-> w.inputs[i]]
        BY DEF LinesAfter, I
    <2> QED BY <1>8, <2>1, <2>2
<1>10. ASSUME NEW i \in 1 .. L + M, I < i
       PROVE  v[i].no[1] # 0
    <2>1. CASE i <= L
        <3>1. i \in 1 .. L
            BY <1>7, <2>1
        <3>2. q[i].no[1] # 0
            BY <1>10, <3>1 DEF LinesAfter, I, L
        <3> QED BY <1>8, <2>1, <3>2
    <2>2. CASE ~(i <= L)
        <3>1. i - L \in 1 .. M
            BY <1>7, <2>2
        <3>2. r[i - L].no[1] = k
            BY <1>5, <3>1 DEF M
        <3> QED BY <1>8, <2>2, <3>2
    <2> QED BY <2>1, <2>2
<1>11. v \in Seq(GivenFrom(Nat)) /\ Len(v) = L + M
    BY <1>6 DEF v, L, M
<1>12. I <= Len(v)
    BY <1>7, <1>11
<1> QED BY <1>9, <1>10, <1>11, <1>12 DEF LinesAfter, I, v

LEMMA GivenOf ==
    ASSUME NEW w \in Worlds
    PROVE  GivenBy[w] \in LinesAfter(w)
<1> DEFINE N == Len(w.lists)
           S == LinesAfter(w)
           e == [i \in DOMAIN w.inputs |-> [no |-> <<0, i>>, path |-> w.inputs[i]]]
           more(k) == Lines(Texts(w.lists[k], "null" \in w.opts), k)
           On(k, q) == q \o more(k)
           g == [x \in (1 .. N) \X S |-> On(x[1], x[2])]
<1>a. w.inputs \in Seq(Seq(STRING)) /\ w.lists \in Seq([stdin: BOOLEAN, buf: Seq(Chunks)])
    BY SourcesAssumption
<1>0. N \in Nat
    BY <1>a, LenProperties
<1>1. ASSUME NEW k \in 1 .. N, NEW q \in S
      PROVE  On(k, q) \in S
    <2>1. w.lists[k] \in [stdin: BOOLEAN, buf: Seq(Chunks)]
        BY <1>a, ElementOfSeq
    <2>2. Texts(w.lists[k], "null" \in w.opts) \in Seq(Text0)
        BY <2>1, TextsTyped
    <2>3. k \in Nat \ {0}
        BY <1>0
    <2>4. more(k) \in Seq(GivenFrom({k}))
        BY <2>2, <2>3, LinesTyped
    <2> HIDE DEF more
    <2> QED BY <2>3, <2>4, LinesAdded
<1>2. g \in [(1 .. N) \X S -> S]
    <2> HIDE DEF S, On
    <2> QED BY <1>1
<1>3. e \in S
    <2>1. /\ Len(w.inputs) \in Nat /\ DOMAIN w.inputs = 1 .. Len(w.inputs)
          /\ \A i \in 1 .. Len(w.inputs) : w.inputs[i] \in Seq(STRING)
        BY <1>a, LenProperties, ElementOfSeq
    <2>2. e \in [1 .. Len(w.inputs) -> GivenFrom(Nat)]
        BY <2>1 DEF GivenFrom
    <2>3. e \in Seq(GivenFrom(Nat)) /\ Len(e) = Len(w.inputs)
        <3> HIDE DEF e
        <3> QED BY <2>1, <2>2, FunctionIsSeq
    <2>4. \A i \in 1 .. Len(w.inputs) : e[i] = [no |-> <<0, i>>, path |-> w.inputs[i]]
        BY <2>1
    <2> HIDE DEF e
    <2> QED BY <2>1, <2>3, <2>4 DEF LinesAfter
<1>4. \A n \in 1 .. N : \A q \in S : g[<<n, q>>] = On(n, q)
    <2> HIDE DEF S, On
    <2> QED OBVIOUS
<1> HIDE DEF g, S, e
<1>5. PICK f \in [0 .. N -> S] : Recurs(f, N, e, g)
    <2> HIDE DEF N
    <2> QED BY <1>0, <1>2, <1>3, RecursionExists, Zenon
<1>6. \A n \in 1 .. N : f[n] = On(n, f[n - 1])
    <2>1. \A n \in 1 .. N : n - 1 \in 0 .. N
        BY <1>0
    <2> HIDE DEF On
    <2> QED BY <1>4, <1>5, <2>1 DEF Recurs
<1> DEFINE F(h) == [n \in 0 .. N |-> IF n = 0 THEN e ELSE On(n, h[n - 1])]
<1>7. f = F(f)
    <2> HIDE DEF On
    <2>1. \A n \in 1 .. N : f[n] = F(f)[n]
        BY <1>0, <1>6
    <2>2. f[0] = F(f)[0]
        BY <1>0, <1>5 DEF Recurs
    <2>3. \A n \in 0 .. N : n = 0 \/ n \in 1 .. N
        BY <1>0
    <2>4. \A n \in 0 .. N : f[n] = F(f)[n]
        <3> HIDE DEF F
        <3> QED BY <2>1, <2>2, <2>3, Zenon
    <2> QED BY <2>4
<1> DEFINE to == CHOOSE h : h = F(h)
<1>8. to = F(to)
    BY <1>7
<1>9. GivenBy[w] = to[N]
    BY DEF GivenBy, e
<1> HIDE DEF to
<1>10. \A n \in 0 .. N : to[n] = IF n = 0 THEN e ELSE On(n, to[n - 1])
    <2> HIDE DEF On
    <2> QED BY <1>8
<1> DEFINE T == {n \in 0 .. N : to[n] \in S}
<1>11. 0 \in T
    <2> HIDE DEF On
    <2>1. 0 \in 0 .. N /\ to[0] = e
        BY <1>0, <1>10
    <2> QED BY <1>3, <2>1
<1>12. ASSUME NEW n \in 0 .. N - 1, n \in T
       PROVE  n + 1 \in T
    <2>1. n + 1 \in 1 .. N /\ n + 1 - 1 = n /\ n + 1 \in 0 .. N /\ n + 1 # 0
        BY <1>0
    <2> HIDE DEF On
    <2>2. to[n + 1] = On(n + 1, to[n])
        BY <1>10, <2>1
    <2>3. to[n] \in S
        BY <1>12
    <2> QED BY <1>1, <2>1, <2>2, <2>3
<1> HIDE DEF T
<1>13. \A n \in 0 .. N : n \in T
    <2> HIDE DEF N
    <2> QED BY <1>0, <1>11, <1>12, Climb, Zenon
<1>14. to[N] \in S
    BY <1>0, <1>13 DEF T
<1> QED BY <1>9, <1>14 DEF S

LEMMA GivenFacts ==
    ASSUME world \in Worlds
    PROVE  /\ Given \in Seq(GivenFrom(Nat)) /\ Len(Given) \in Nat /\ DOMAIN Given = 1 .. Len(Given)
           /\ \A k \in DOMAIN Given : Given[k].path \in Seq(STRING) /\ Given[k].no \in Nat \X Nat
           /\ \A k \in DOMAIN world.inputs :
                 k \in DOMAIN Given /\ Given[k] = [no |-> <<0, k>>, path |-> world.inputs[k]]
           /\ \A k \in DOMAIN Given : IsInput(Given[k]) => k \in DOMAIN world.inputs
           /\ \A g \in ToSet(Given) : \E k \in DOMAIN Given : g = Given[k]
           /\ \A k \in DOMAIN Given : Given[k] \in ToSet(Given)
           /\ DOMAIN world.inputs = 1 .. Len(world.inputs) /\ Len(world.inputs) \in Nat
<1>1. Given \in LinesAfter(world)
    BY GivenOf DEF Given
<1>2. world.inputs \in Seq(Seq(STRING))
    BY SourcesAssumption
<1>3. DOMAIN world.inputs = 1 .. Len(world.inputs) /\ Len(world.inputs) \in Nat
    BY <1>2, LenProperties
<1>4. Given \in Seq(GivenFrom(Nat)) /\ Len(world.inputs) <= Len(Given)
    BY <1>1 DEF LinesAfter
<1>5. Len(Given) \in Nat /\ DOMAIN Given = 1 .. Len(Given)
    BY <1>4, LenProperties
<1>6. \A k \in 1 .. Len(Given) : Given[k] \in GivenFrom(Nat)
    BY <1>4, ElementOfSeq
<1>7. \A k \in DOMAIN world.inputs :
          k \in DOMAIN Given /\ Given[k] = [no |-> <<0, k>>, path |-> world.inputs[k]]
    BY <1>1, <1>3, <1>4, <1>5 DEF LinesAfter
<1>8. ASSUME NEW k \in DOMAIN Given, IsInput(Given[k])
      PROVE  k \in DOMAIN world.inputs
    <2>1. Given[k].no[1] = 0
        BY <1>8 DEF IsInput
    <2>2. ~(Len(world.inputs) < k)
        BY <1>1, <1>5, <2>1 DEF LinesAfter
    <2> QED BY <1>3, <1>5, <2>2
<1>9. /\ \A g \in ToSet(Given) : \E k \in DOMAIN Given : g = Given[k]
      /\ \A k \in DOMAIN Given : Given[k] \in ToSet(Given)
    BY DEF ToSet
<1>10. \A k \in DOMAIN Given : Given[k].path \in Seq(STRING) /\ Given[k].no \in Nat \X Nat
    BY <1>5, <1>6 DEF GivenFrom
<1> QED BY <1>3, <1>4, <1>5, <1>7, <1>8, <1>9, <1>10

\* What a step means that leaves what was given as it is.
LEMMA SameWalk ==
    ASSUME world' = world
    PROVE  /\ \A o : Opt(o)' = Opt(o)
           /\ \A t, root, p : /\ Followed(t, root, p)' = Followed(t, root, p)
                              /\ WalkFails(t, root, p)' = WalkFails(t, root, p)
                              /\ Descends(t, root, p)' = Descends(t, root, p)
                              /\ ReadsIn(t, root, p)' = ReadsIn(t, root, p)
                              /\ Unread(t, root, p)' = Unread(t, root, p)
           /\ \A t, p : Legible(t, p)' = Legible(t, p)
           /\ \A a, b : Overlap(a, b)' = Overlap(a, b)
           /\ \A g : Admitted(g)' = Admitted(g)
           /\ Given' = Given
<1>1. \A o : Opt(o)' = Opt(o)
    BY DEF Opt
<1>2. \A t, root, p : Followed(t, root, p)' = Followed(t, root, p)
    BY <1>1 DEF Followed
<1>3. \A t, root, p : WalkFails(t, root, p)' = WalkFails(t, root, p)
    BY <1>2 DEF WalkFails
<1>4. \A t, root, p : Descends(t, root, p)' = Descends(t, root, p)
    BY <1>1, <1>2, <1>3 DEF Descends
<1>5. \A t, root, p : ReadsIn(t, root, p)' = ReadsIn(t, root, p)
    BY <1>4 DEF ReadsIn
<1>6. \A t, root, p : Unread(t, root, p)' = Unread(t, root, p)
    BY <1>3, <1>4, <1>5 DEF Unread
<1>7. \A t, p : Legible(t, p)' = Legible(t, p)
    BY <1>1 DEF Legible
<1>8. \A a, b : Overlap(a, b)' = Overlap(a, b)
    BY <1>1 DEF Overlap
<1>9. \A g : Admitted(g)' = Admitted(g)
    BY <1>1 DEF Admitted
<1>10. Given' = Given
    BY DEF Given
<1> QED BY <1>1, <1>2, <1>3, <1>4, <1>5, <1>6, <1>7, <1>8, <1>9, <1>10

Stepwise(t, root) ==
    /\ Level(t, root)[0] = {root}
    /\ \A n \in 1 .. MaxDepth : Level(t, root)[n] =
          UNION {Listing(t, p) : p \in {p \in Level(t, root)[n - 1] : ReadsIn(t, root, p)}}

LEMMA LevelStepwise ==
    ASSUME NEW t, DOMAIN t \subseteq Seq(STRING), NEW root \in Seq(STRING)
    PROVE  Stepwise(t, root)
BY LevelSteps DEF Stepwise

LEMMA EveryLevel ==
    \A t, root : DOMAIN t \subseteq Seq(STRING) /\ root \in Seq(STRING) => Stepwise(t, root)
BY LevelStepwise

LEMMA EveryLevelNext ==
    (\A t, root : DOMAIN t \subseteq Seq(STRING) /\ root \in Seq(STRING) => Stepwise(t, root))'
BY EveryLevel, PTL

LEMMA SameLevels ==
    ASSUME world' = world, NEW t, DOMAIN t \subseteq Seq(STRING), NEW root \in Seq(STRING)
    PROVE  /\ Reached(t, root)' = Reached(t, root) /\ Met(t, root)' = Met(t, root)
           /\ Failing(t, root)' = Failing(t, root)
<1>1. Stepwise(t, root) /\ Stepwise(t, root)'
    BY EveryLevel, EveryLevelNext
<1> DEFINE A == Level(t, root)
           B == Level(t, root)'
           T == {n \in 0 .. MaxDepth : A[n] = B[n]}
<1>0. MaxDepth \in Nat
    BY SourcesAssumption
<1> DEFINE Names(D) == UNION {Listing(t, p) : p \in D}
<1>2. /\ A[0] = {root}
      /\ \A n \in 1 .. MaxDepth : A[n] = Names({p \in A[n - 1] : ReadsIn(t, root, p)})
    BY <1>1 DEF Stepwise
<1>3. /\ B[0] = {root}
      /\ \A n \in 1 .. MaxDepth : B[n] = Names({p \in B[n - 1] : ReadsIn(t, root, p)'})
    BY <1>1 DEF Stepwise
<1>4. \A p : ReadsIn(t, root, p)' = ReadsIn(t, root, p)
    BY SameWalk
<1> HIDE DEF A, B, Names
<1>5. 0 \in T
    <2>1. A[0] = {root} /\ B[0] = {root}
        BY <1>2, <1>3
    <2>2. 0 \in 0 .. MaxDepth /\ A[0] = B[0]
        BY <1>0, <2>1
    <2> QED BY <2>2
<1>6. ASSUME NEW n \in 0 .. MaxDepth - 1, n \in T
      PROVE  n + 1 \in T
    <2>1. n + 1 \in 1 .. MaxDepth /\ n + 1 - 1 = n /\ n + 1 \in 0 .. MaxDepth
        BY <1>0
    <2>2. A[n] = B[n]
        BY <1>6
    <2>3. {p \in A[n] : ReadsIn(t, root, p)} = {p \in B[n] : ReadsIn(t, root, p)'}
        BY <1>4, <2>2
    <2>4. /\ A[n + 1] = Names({p \in A[n] : ReadsIn(t, root, p)})
          /\ B[n + 1] = Names({p \in B[n] : ReadsIn(t, root, p)'})
        BY <1>2, <1>3, <2>1
    <2>5. A[n + 1] = B[n + 1]
        BY <2>3, <2>4
    <2> QED BY <2>1, <2>5
<1> HIDE DEF T
<1>7. \A n \in 0 .. MaxDepth : n \in T
    BY <1>0, <1>5, <1>6, Climb, Zenon
<1>8. \A n \in 0 .. MaxDepth : A[n] = B[n]
    BY <1>7 DEF T
<1>9. Reached(t, root)' = Reached(t, root)
    BY <1>8 DEF Reached, A, B
<1>10. Met(t, root)' = Met(t, root)
    BY <1>9, SameWalk DEF Met
<1>11. Failing(t, root)' = Failing(t, root)
    BY <1>9, SameWalk DEF Failing
<1> QED BY <1>9, <1>10, <1>11

-----------------------------------------------------------------------------
(* The invariant: what one name of the walk does.                          *)

LEMMA FormedTrees ==
    ASSUME Formed
    PROVE  /\ Trees(tree, world.tree) /\ Trees(tree, tree) /\ Trees(world.tree, world.tree)
           /\ DOMAIN tree \subseteq Seq(STRING) /\ DOMAIN world.tree \subseteq Seq(STRING)
<1>1. /\ DOMAIN world.tree \subseteq Seq(STRING) /\ \A p \in DOMAIN world.tree : world.tree[p] \in Nodes
    BY SourcesAssumption DEF Formed
<1>2. /\ DOMAIN tree \subseteq DOMAIN world.tree /\ <<>> \in DOMAIN tree
      /\ tree = [p \in DOMAIN tree |-> world.tree[p]]
    BY DEF Formed
<1>3. \A p \in DOMAIN tree : tree[p] = world.tree[p]
    <2> DEFINE D == DOMAIN tree
    <2>1. tree = [p \in D |-> world.tree[p]]
        BY <1>2
    <2> HIDE DEF D
    <2>2. \A p \in D : tree[p] = world.tree[p]
        BY <2>1
    <2> QED BY <2>2 DEF D
<1>4. Trees(tree, world.tree)
    BY <1>1, <1>2, <1>3 DEF Trees, Within
<1> QED BY <1>1, <1>2, <1>4, NothingIsApart

LEMMA SourceFacts ==
    ASSUME Formed, Walking, step = "walk"
    PROVE  /\ Source \in DOMAIN sources /\ sources[Source].no = Given[next].no
           /\ sources[Source].path = Root /\ Root \in Seq(STRING)
           /\ Admitted(Given[next]) /\ next \in DOMAIN Given
<1>1. /\ next \in DOMAIN Given /\ Admitted(Given[next])
      /\ \E i \in DOMAIN sources : sources[i].no = Given[next].no /\ sources[i].path = Root
    BY DEF Walking
<1>2. Root \in Seq(STRING)
    BY <1>1, GivenFacts DEF Root, Formed
<1>3. /\ Source \in DOMAIN sources /\ sources[Source].no = Given[next].no /\ sources[Source].path = Root
    BY <1>1 DEF Source
<1> QED BY <1>1, <1>2, <1>3

Open(levels) == UNION {levels[n] : n \in DOMAIN levels}

LEMMA OpenedNames ==
    ASSUME NEW levels \in Seq(SUBSET Seq(STRING)), NEW names \in SUBSET Seq(STRING)
    PROVE  /\ Opened(levels, names) \in Seq(SUBSET Seq(STRING))
           /\ Open(Opened(levels, names)) = Open(levels) \cup names
<1>1. CASE names = {}
    BY <1>1 DEF Opened
<1>2. CASE names # {}
    <2> DEFINE more == Append(levels, names)
    <2>1. /\ more \in Seq(SUBSET Seq(STRING)) /\ Len(more) = Len(levels) + 1
          /\ \A n \in 1 .. Len(levels) : more[n] = levels[n]
          /\ more[Len(levels) + 1] = names
        BY AppendProperties
    <2>2. /\ DOMAIN levels = 1 .. Len(levels) /\ Len(levels) \in Nat
          /\ DOMAIN more = 1 .. Len(more)
        BY <2>1, LenProperties
    <2>3. Opened(levels, names) = more
        BY <1>2 DEF Opened
    <2> HIDE DEF more
    <2>4. \A n \in DOMAIN more : n \in DOMAIN levels \/ n = Len(levels) + 1
        BY <2>1, <2>2
    <2>5. \A n \in DOMAIN levels : n \in DOMAIN more /\ more[n] = levels[n]
        BY <2>1, <2>2
    <2>6. Len(levels) + 1 \in DOMAIN more
        BY <2>1, <2>2
    <2>7. Open(more) = Open(levels) \cup names
        BY <2>1, <2>4, <2>5, <2>6 DEF Open
    <2> QED BY <2>1, <2>3, <2>7
<1> QED BY <1>1, <1>2

LEMMA OpenOf ==
    ASSUME NEW levels \in Seq(SUBSET Seq(STRING)), levels # <<>>
    PROVE  /\ Front(levels) \in Seq(SUBSET Seq(STRING)) /\ Last(levels) \in SUBSET Seq(STRING)
           /\ Open(levels) = Open(Front(levels)) \cup Last(levels)
<1>1. Front(levels) \in Seq(SUBSET Seq(STRING)) /\ Last(levels) \in SUBSET Seq(STRING)
    BY FrontIn
<1>2. Len(levels) \in Nat \ {0} /\ DOMAIN levels = 1 .. Len(levels)
    BY EmptySeq, LenProperties
<1>3. /\ Len(Front(levels)) = Len(levels) - 1 /\ DOMAIN Front(levels) = 1 .. Len(Front(levels))
      /\ \A n \in 1 .. Len(levels) - 1 : Front(levels)[n] = levels[n]
    <2>1. 1 \in Int /\ Len(levels) - 1 \in Int /\ \A i \in 1 .. Len(levels) - 1 : levels[i] \in SUBSET Seq(STRING)
        BY <1>2, ElementOfSeq
    <2>2. /\ Len(Front(levels)) = IF 1 <= Len(levels) - 1 THEN Len(levels) - 1 - 1 + 1 ELSE 0
          /\ \A n \in 1 .. Len(levels) - 1 - 1 + 1 : Front(levels)[n] = levels[1 + n - 1]
        BY <2>1, SubSeqProperties DEF Front
    <2> DEFINE L == Len(levels)
               M == Len(Front(levels))
    <2>3. L \in Nat \ {0} /\ M = IF 1 <= L - 1 THEN L - 1 - 1 + 1 ELSE 0
        BY <1>2, <2>2
    <2> HIDE DEF L, M
    <2>4. M = L - 1
        BY <2>3
    <2>5. Len(levels) - 1 - 1 + 1 = Len(levels) - 1 /\ \A n \in 1 .. Len(levels) - 1 : 1 + n - 1 = n
        BY <1>2
    <2> QED BY <1>1, <2>2, <2>4, <2>5, LenProperties DEF L, M
<1>4. Last(levels) = levels[Len(levels)]
    BY DEF Last
<1>5. \A n \in DOMAIN levels : n \in DOMAIN Front(levels) \/ n = Len(levels)
    BY <1>2, <1>3
<1>6. Len(levels) \in DOMAIN levels /\ \A n \in DOMAIN Front(levels) : n \in DOMAIN levels /\ Front(levels)[n] = levels[n]
    BY <1>2, <1>3
<1>7. Open(levels) = Open(Front(levels)) \cup Last(levels)
    BY <1>4, <1>5, <1>6 DEF Open
<1> QED BY <1>1, <1>7

\* Going on from a name leaves the others open, and opens those in it.
LEMMA WalkOnOpens ==
    ASSUME Formed, walk # <<>>, NEW p \in Last(walk), WalkOn(p)
    PROVE  /\ p \in Seq(STRING) /\ p \in Open(walk) /\ walk' \in Seq(SUBSET Seq(STRING))
           /\ \A q \in Open(walk) : q = p \/ q \in Open(walk')
           /\ \A q \in Open(walk') : q \in Open(walk) \/ (Reads(p) /\ q \in Listing(tree, p))
           /\ Reads(p) => Listing(tree, p) \subseteq Open(walk')
<1>1. walk \in Seq(SUBSET Seq(STRING)) /\ DOMAIN tree \subseteq Seq(STRING)
    BY FormedTrees DEF Formed
<1>2. /\ Front(walk) \in Seq(SUBSET Seq(STRING)) /\ Last(walk) \in SUBSET Seq(STRING)
      /\ Open(walk) = Open(Front(walk)) \cup Last(walk)
    BY <1>1, OpenOf
<1>3. p \in Seq(STRING)
    BY <1>2
<1> DEFINE names == IF Reads(p) THEN Listing(tree, p) ELSE {}
           left == Opened(Front(walk), Last(walk) \ {p})
<1>4. names \in SUBSET Seq(STRING)
    BY <1>1, <1>3, ListingTyped
<1>5. left \in Seq(SUBSET Seq(STRING)) /\ Open(left) = Open(Front(walk)) \cup (Last(walk) \ {p})
    BY <1>2, OpenedNames
<1>6. walk' = Opened(left, names)
    BY DEF WalkOn
<1> HIDE DEF left
<1>7. walk' \in Seq(SUBSET Seq(STRING)) /\ Open(Opened(left, names)) = Open(left) \cup names
    BY <1>4, <1>5, <1>6, OpenedNames
<1>8. Open(walk') = Open(left) \cup names
    BY <1>6, <1>7
<1> QED BY <1>2, <1>3, <1>5, <1>7, <1>8

EntryDoes(p) ==
    /\ p \in Last(walk) /\ walk # <<>> /\ step = "walk"
    /\ world' = world /\ tree' = tree /\ sources' = sources /\ next' = next /\ attempts' = attempts
    /\ \/ rows' = rows /\ refs' = refs
       \/ /\ Attach(p) /\ Lstat(world.tree, p) # Nothing /\ (p \notin Listed => Lstat(tree, p) # Nothing)
          /\ ~WalkFails(world.tree, Root, p)
    /\ \/ errors' = errors
       \/ /\ errors' = errors \cup {<<Source, p>>}
          /\ tree = world.tree => Unread(tree, Root, p)
    /\ \/ Halt("failed")
       \/ /\ WalkOn(p)
          /\ p \in Met(tree, Root) /\ Legible(tree, p) => <<Source, p>> \in refs'
          /\ tree = world.tree /\ p \in Failing(tree, Root) => <<Source, p>> \in errors'

LEMMA EntryIs ==
    ASSUME Formed, Recorded, Walking, Entry
    PROVE  \E p : EntryDoes(p) /\ Below(Root, p)
<1>1. step = "walk" /\ walk # <<>> /\ world' = world /\ tree' = tree /\ sources' = sources /\ attempts' = attempts
    BY DEF Entry
<1>2. PICK p \in Last(walk) :
          \/ EntryGone(p)
          \/ WalkFails(tree, Root, p) /\ WalkError(p) /\ UNCHANGED <<rows, refs>>
          \/ /\ Lstat(tree, p) # Nothing /\ ~WalkFails(tree, Root, p)
             /\ IF Text(p) THEN Attach(p) /\ Proceed(p)
                ELSE Skip(p) /\ UNCHANGED <<rows, refs>>
    BY DEF Entry
<1>3. Below(Root, p) /\ p \in Seq(STRING)
    <2>1. walk \in Seq(SUBSET Seq(STRING))
        BY DEF Formed
    <2>2. Len(walk) \in DOMAIN walk /\ Last(walk) = walk[Len(walk)]
        BY <1>1, <2>1, EmptySeq, LenProperties DEF Last
    <2>3. Last(walk) \in SUBSET Seq(STRING)
        BY <1>1, <2>1, OpenOf
    <2> QED BY <1>1, <2>2, <2>3 DEF Walking
<1>4. IsPrefix(Root, p) /\ Root \in Seq(STRING) /\ Trees(tree, world.tree)
    BY <1>1, <1>3, SourceFacts, FormedTrees DEF Below
<1>5. WalkError(p) => /\ errors' = errors \cup {<<Source, p>>} /\ <<Source, p>> \in errors'
                      /\ next' = next /\ (Halt("failed") \/ WalkOn(p))
    BY DEF WalkError, Halt, WalkOn
<1>6. WalkOn(p) => next' = next
    BY DEF WalkOn
<1>7. Halt("failed") => next' = next
    BY DEF Halt
<1>8. CASE EntryGone(p)
    <2>1. Lstat(tree, p) = Nothing /\ p # Root
        BY <1>8 DEF EntryGone
    <2>2. p \notin Met(tree, Root)
        BY <2>1 DEF Met
    <2>3. Lstat(world.tree, p) # Nothing
        BY <1>3, <2>1 DEF Below
    <2>4. tree # world.tree
        BY <2>1, <2>3
    <2>5. CASE WalkOn(p) /\ UNCHANGED <<rows, refs, errors>>
        BY <1>1, <1>3, <1>6, <2>2, <2>4, <2>5 DEF EntryDoes
    <2>6. CASE WalkError(p) /\ UNCHANGED <<rows, refs>>
        BY <1>1, <1>3, <1>5, <2>2, <2>4, <2>6 DEF EntryDoes
    <2>7. CASE /\ p \in Listed /\ Text(p) /\ ~WalkFails(world.tree, Root, p)
               /\ Attach(p) /\ WalkOn(p) /\ UNCHANGED errors
        BY <1>1, <1>3, <1>6, <2>2, <2>3, <2>4, <2>7 DEF EntryDoes
    <2>8. CASE /\ p \notin Listed
               /\ errors' = errors \cup {<<Source, p>>} /\ Halt("failed") /\ UNCHANGED <<rows, refs>>
        BY <1>1, <1>3, <1>7, <2>4, <2>8 DEF EntryDoes
    <2> QED BY <1>8, <2>5, <2>6, <2>7, <2>8 DEF EntryGone
<1>9. CASE WalkFails(tree, Root, p) /\ WalkError(p) /\ UNCHANGED <<rows, refs>>
    <2>1. p \notin Met(tree, Root) /\ Unread(tree, Root, p)
        BY <1>9 DEF Met, Unread
    <2> QED BY <1>1, <1>3, <1>5, <1>9, <2>1 DEF EntryDoes
<1>10. CASE /\ Lstat(tree, p) # Nothing /\ ~WalkFails(tree, Root, p)
            /\ IF Text(p) THEN Attach(p) /\ Proceed(p)
               ELSE Skip(p) /\ UNCHANGED <<rows, refs>>
    <2>1. Lstat(world.tree, p) # Nothing /\ ~WalkFails(world.tree, Root, p)
        <3>1. Lstat(world.tree, p) \in Nodes
            BY <1>3, <1>4, <1>10, LstatWithin
        <3> QED BY <1>3, <1>4, <1>10, <3>1, FailsWithin, SourcesAssumption
    <2>2. Proceed(p) => \/ WalkError(p) /\ Unread(tree, Root, p)
                        \/ WalkOn(p) /\ errors' = errors /\ p \notin Failing(tree, Root)
        BY <1>10 DEF Proceed, Unread, Failing, Reads
    <2>3. CASE Text(p)
        <3>1. Attach(p) /\ Proceed(p)
            BY <1>10, <2>3
        <3>2. <<Source, p>> \in refs'
            BY <3>1 DEF Attach
        <3> QED BY <1>1, <1>3, <1>5, <1>6, <1>10, <2>1, <2>2, <3>1, <3>2 DEF EntryDoes
    <2>4. CASE ~Text(p)
        <3>1. Skip(p) /\ UNCHANGED <<rows, refs>>
            BY <1>10, <2>4
        <3>2. ~Legible(tree, p)
            BY <2>4 DEF Legible, Text
        <3>3. (Halt("failed") /\ errors' = errors) \/ Proceed(p)
            BY <3>1 DEF Skip
        <3> QED BY <1>1, <1>3, <1>5, <1>6, <1>7, <2>2, <3>1, <3>2, <3>3 DEF EntryDoes
    <2> QED BY <2>3, <2>4
<1> QED BY <1>2, <1>8, <1>9, <1>10

-----------------------------------------------------------------------------
(* The invariant, part by part.                                            *)

Row == [no: Nat \X Nat, path: Seq(STRING), dir: BOOLEAN]

LEMMA ActionCases ==
    ASSUME [InventoryNext]_inventoryVars
    PROVE  \/ UNCHANGED inventoryVars
           \/ Configure \/ Enter \/ AddSource \/ Entry \/ EndSource \/ AllMet \/ Stop \/ Resume \/ Vanish
BY DEF InventoryNext, Work

\* What a new source is, and that the others keep their places.
LEMMA AddedIs ==
    ASSUME Formed, Walking, AddSource
    PROVE  /\ next \in DOMAIN Given /\ world' = world /\ tree' = tree
           /\ rows' = rows /\ refs' = refs /\ errors' = errors /\ attempts' = attempts
           /\ \/ /\ ~Admitted(Given[next]) /\ sources' = sources
                 /\ Halt("failed") \/ (Go("source") /\ next' = next + 1 /\ walk' = walk)
              \/ Halt("overlap") /\ sources' = sources
              \/ /\ Admitted(Given[next]) /\ ~Refused(Given[next])
                 /\ sources' = Added(SourceOf(Given[next], IsInput(Given[next]) \/ IsDir(tree, Given[next].path)))
                 /\ walk' = <<{Given[next].path}>> /\ Go("walk") /\ next' = next
<1>1. step = "source" /\ next <= Len(Given)
    BY DEF AddSource
<1>2. next \in DOMAIN Given
    <2>1. next \in 1 .. Len(Given) + 1
        BY <1>1 DEF Walking
    <2>2. DOMAIN Given = 1 .. Len(Given) /\ Len(Given) \in Nat
        BY GivenFacts DEF Formed
    <2> QED BY <1>1, <2>1, <2>2
<1>3. /\ world' = world /\ tree' = tree
      /\ rows' = rows /\ refs' = refs /\ errors' = errors /\ attempts' = attempts
    BY DEF AddSource
<1> DEFINE g == Given[next]
<1>4. Admitted(g) <=> Decodable(g.path) \/ Opt("relaxUtf8")
    BY DEF Admitted
<1>5. IF ~Decodable(g.path) /\ ~Opt("relaxUtf8")
      THEN /\ IF Opt("failFast") THEN Halt("failed")
              ELSE Go("source") /\ next' = next + 1 /\ UNCHANGED walk
           /\ UNCHANGED sources
      ELSE IF Refused(g) THEN Halt("overlap") /\ UNCHANGED sources
      ELSE /\ sources' = Added(SourceOf(g, IsInput(g) \/ IsDir(tree, g.path)))
           /\ walk' = <<{g.path}>> /\ Go("walk") /\ UNCHANGED next
    BY DEF AddSource
<1> HIDE DEF g
<1>6. \/ /\ ~Admitted(g) /\ sources' = sources
         /\ Halt("failed") \/ (Go("source") /\ next' = next + 1 /\ walk' = walk)
      \/ Halt("overlap") /\ sources' = sources
      \/ /\ Admitted(g) /\ ~Refused(g)
         /\ sources' = Added(SourceOf(g, IsInput(g) \/ IsDir(tree, g.path)))
         /\ walk' = <<{g.path}>> /\ Go("walk") /\ next' = next
    BY <1>4, <1>5
<1> QED BY <1>2, <1>3, <1>6 DEF g

LEMMA AddedKeeps ==
    ASSUME Formed, NEW k \in DOMAIN Given, NEW dir \in BOOLEAN,
           NEW s, s = SourceOf(Given[k], dir), sources' = Added(s)
    PROVE  /\ sources' \in Seq(Row) /\ s \in Row
           /\ \A i \in DOMAIN sources : i \in DOMAIN sources' /\ sources'[i] = sources[i]
           /\ \/ sources' = sources /\ \E i \in DOMAIN sources : sources[i].no = s.no /\ sources[i].path = s.path
              \/ /\ \A i \in DOMAIN sources : ~(sources[i].no = s.no /\ sources[i].path = s.path)
                 /\ Len(sources) + 1 \in DOMAIN sources' /\ sources'[Len(sources) + 1] = s
                 /\ \A i \in DOMAIN sources' : i \in DOMAIN sources \/ i = Len(sources) + 1
                 /\ Len(sources) + 1 \notin DOMAIN sources
           /\ \E i \in DOMAIN sources' : sources'[i].no = s.no /\ sources'[i].path = s.path
<1>1. sources \in Seq(Row)
    BY DEF Formed, Row
<1>2. s \in Row
    BY GivenFacts DEF SourceOf, Row, Formed
<1>3. CASE \E i \in DOMAIN sources : sources[i].no = s.no /\ sources[i].path = s.path
    BY <1>1, <1>2, <1>3 DEF Added
<1>4. CASE ~ \E i \in DOMAIN sources : sources[i].no = s.no /\ sources[i].path = s.path
    <2>1. sources' = Append(sources, s)
        BY <1>4 DEF Added
    <2> DEFINE more == Append(sources, s)
    <2>2. /\ more \in Seq(Row) /\ Len(more) = Len(sources) + 1
          /\ \A n \in 1 .. Len(sources) : more[n] = sources[n]
          /\ more[Len(sources) + 1] = s
        BY <1>1, <1>2, AppendProperties
    <2>3. /\ DOMAIN sources = 1 .. Len(sources) /\ Len(sources) \in Nat
          /\ DOMAIN more = 1 .. Len(more)
        BY <1>1, <2>2, LenProperties
    <2> HIDE DEF more
    <2>4. /\ \A n \in DOMAIN more : n \in DOMAIN sources \/ n = Len(sources) + 1
          /\ \A n \in DOMAIN sources : n \in DOMAIN more /\ more[n] = sources[n]
          /\ Len(sources) + 1 \in DOMAIN more /\ Len(sources) + 1 \notin DOMAIN sources
        BY <2>2, <2>3
    <2>5. sources' = more
        BY <2>1 DEF more
    <2> QED BY <1>2, <1>4, <2>2, <2>4, <2>5
<1> QED BY <1>3, <1>4

FormedTables ==
    /\ sources \in Seq(Row)
    /\ \A i \in DOMAIN sources : \E g \in ToSet(Given) : sources[i].no = g.no /\ sources[i].path = g.path
    /\ rows = [p \in Listed |-> rows[p]]
    /\ refs \subseteq (DOMAIN sources) \X Seq(STRING) /\ errors \subseteq (DOMAIN sources) \X Seq(STRING)
FormedRun ==
    /\ attempts \in 1 .. MaxAttempts
    /\ walk \in Seq(SUBSET Seq(STRING)) /\ next \in Nat
    /\ step \in {"config", "enter", "source", "walk", "ended"}
    /\ outcome \in {Nothing} \cup Outcomes
    /\ (outcome = Nothing) = (step # "ended")
FormedTree ==
    /\ world \in Worlds
    /\ tree = [p \in DOMAIN tree |-> world.tree[p]]
    /\ DOMAIN tree \subseteq DOMAIN world.tree /\ <<>> \in DOMAIN tree

LEMMA FormedParts == Formed <=> FormedTables /\ FormedRun /\ FormedTree
BY DEF Formed, FormedTables, FormedRun, FormedTree, Row

LEMMA FormedTreeStep ==
    ASSUME Formed, [InventoryNext]_inventoryVars
    PROVE  FormedTree' /\ world' = world
<1>1. FormedTree
    BY FormedParts
<1>2. CASE world' = world /\ tree' = tree
    BY <1>1, <1>2 DEF FormedTree
<1>3. CASE Vanish
    <2>1. PICK p \in world.leaving \cap DOMAIN tree : tree' = [q \in DOMAIN tree \ {p} |-> tree[q]]
        BY <1>3 DEF Vanish
    <2>2. p # <<>>
        BY SourcesAssumption, <2>1 DEF Formed
    <2>3. DOMAIN tree' = DOMAIN tree \ {p} /\ \A q \in DOMAIN tree' : tree'[q] = tree[q]
        BY <2>1
    <2>4. \A q \in DOMAIN tree : tree[q] = world.tree[q]
        BY FormedTrees DEF Trees, Within
    <2>5. tree' = [q \in DOMAIN tree' |-> world.tree[q]]
        <3> DEFINE D == DOMAIN tree \ {p}
        <3>1. tree' = [q \in D |-> tree[q]] /\ DOMAIN tree' = D
            BY <2>1, <2>3
        <3>2. \A q \in D : tree[q] = world.tree[q]
            BY <2>4
        <3> HIDE DEF D
        <3>3. [q \in D |-> tree[q]] = [q \in D |-> world.tree[q]]
            BY <3>2
        <3> QED BY <3>1, <3>3
    <2>6. world' = world
        BY <1>3 DEF Vanish
    <2> QED BY <1>1, <2>2, <2>3, <2>5, <2>6 DEF FormedTree
<1>4. (world' = world /\ tree' = tree) \/ Vanish
    BY ActionCases DEF Configure, Enter, AddSource, Entry, EndSource, AllMet, Stop, Resume, inventoryVars
<1> QED BY <1>2, <1>3, <1>4

LEMMA FormedTablesStep ==
    ASSUME Formed, Recorded, Walking, [InventoryNext]_inventoryVars
    PROVE  FormedTables'
<1>0. FormedTables /\ world' = world /\ Given' = Given
    BY FormedParts, FormedTreeStep, SameWalk
<1>1. CASE tables' = tables
    BY <1>0, <1>1 DEF FormedTables, tables, Listed
<1>2. CASE Entry
    <2>1. PICK p : EntryDoes(p) /\ Below(Root, p)
        BY <1>2, EntryIs
    <2>2. step = "walk" /\ sources' = sources /\ p \in Last(walk) /\ walk # <<>>
        BY <2>1 DEF EntryDoes
    <2>3. Source \in DOMAIN sources
        BY <2>2, SourceFacts
    <2>4. p \in Seq(STRING)
        BY <2>2, OpenOf DEF Formed
    <2>5. errors' \subseteq (DOMAIN sources) \X Seq(STRING)
        <3>1. errors' = errors \/ errors' = errors \cup {<<Source, p>>}
            BY <2>1 DEF EntryDoes
        <3> QED BY <1>0, <2>3, <2>4, <3>1 DEF FormedTables
    <2>6. refs' \subseteq (DOMAIN sources) \X Seq(STRING) /\ rows' = [q \in DOMAIN rows' |-> rows'[q]]
        <3>1. CASE rows' = rows /\ refs' = refs
            BY <1>0, <3>1 DEF FormedTables, Listed
        <3>2. CASE Attach(p)
            <4>1. refs' = refs \cup {<<Source, p>>}
                BY <3>2 DEF Attach
            <4>2. rows' = [q \in Listed \cup {p} |-> IF q \in Listed THEN rows[q] ELSE Lstat(tree, p).kind]
                BY <3>2 DEF Attach
            <4>3. rows' = [q \in DOMAIN rows' |-> rows'[q]]
                BY <4>2
            <4> QED BY <1>0, <2>3, <2>4, <4>1, <4>3 DEF FormedTables
        <3> QED BY <2>1, <3>1, <3>2 DEF EntryDoes
    <2> QED BY <1>0, <2>2, <2>5, <2>6 DEF FormedTables, Listed
<1>3. CASE AddSource
    <2>1. rows' = rows /\ refs' = refs /\ errors' = errors /\ next \in DOMAIN Given
        BY <1>3, AddedIs
    <2>2. CASE sources' = sources
        BY <1>1, <2>1, <2>2 DEF tables
    <2>3. CASE sources' = Added(SourceOf(Given[next], IsInput(Given[next]) \/ IsDir(tree, Given[next].path)))
        <3> DEFINE d == IsInput(Given[next]) \/ IsDir(tree, Given[next].path)
                   s == SourceOf(Given[next], d)
        <3>1. s.no = Given[next].no /\ s.path = Given[next].path
            BY DEF SourceOf
        <3>2. d \in BOOLEAN
            BY DEF IsInput, IsDir
        <3>a. sources' = Added(s)
            BY <2>3
        <3> HIDE DEF d
        <3>3. /\ sources' \in Seq(Row)
              /\ \A i \in DOMAIN sources : i \in DOMAIN sources' /\ sources'[i] = sources[i]
              /\ \A i \in DOMAIN sources' : i \in DOMAIN sources \/ sources'[i] = s
            BY <2>1, <3>a, <3>2, AddedKeeps
        <3> HIDE DEF s
        <3>4. Given[next] \in ToSet(Given)
            BY <2>1, GivenFacts DEF Formed
        <3>5. \A i \in DOMAIN sources' : \E g \in ToSet(Given) : sources'[i].no = g.no /\ sources'[i].path = g.path
            <4>1. TAKE i \in DOMAIN sources'
            <4>2. CASE i \in DOMAIN sources
                BY <1>0, <3>3, <4>2 DEF FormedTables
            <4>3. CASE sources'[i] = s
                BY <3>1, <3>4, <4>3
            <4> QED BY <3>3, <4>2, <4>3
        <3>6. refs' \subseteq (DOMAIN sources') \X Seq(STRING) /\ errors' \subseteq (DOMAIN sources') \X Seq(STRING)
            BY <1>0, <2>1, <3>3 DEF FormedTables
        <3> QED BY <1>0, <2>1, <3>3, <3>5, <3>6 DEF FormedTables, Listed
    <2> QED BY <1>3, <2>2, <2>3, AddedIs
<1> QED BY <1>1, <1>2, <1>3, ActionCases DEF Configure, Enter, EndSource, AllMet, Stop, Resume, Vanish, inventoryVars, tables

LEMMA FormedRunStep ==
    ASSUME Formed, Recorded, Walking, [InventoryNext]_inventoryVars
    PROVE  FormedRun'
<1>0. FormedRun
    BY FormedParts
<1>1. ASSUME NEW r \in Outcomes, Halt(r), attempts' = attempts
      PROVE  FormedRun'
    <2>1. step' = "ended" /\ outcome' = r /\ walk' = <<>> /\ next' = next
        BY <1>1 DEF Halt
    <2>2. r # Nothing
        BY SourcesAssumption
    <2> QED BY <1>0, <1>1, <2>1, <2>2 DEF FormedRun
<1>2. CASE attempts' = attempts /\ next' \in Nat /\ walk' \in Seq(SUBSET Seq(STRING)) /\ outcome' = outcome
           /\ step # "ended" /\ step' \in {"enter", "source", "walk"}
    BY <1>0, <1>2 DEF FormedRun
<1>3. CASE UNCHANGED <<attempts, next, walk, outcome, step>>
    BY <1>0, <1>3 DEF FormedRun
<1>4. CASE Configure
    BY <1>0, <1>1, <1>2, <1>4 DEF Configure, Go, FormedRun, Outcomes
<1>5. CASE Enter
    BY <1>0, <1>1, <1>2, <1>5 DEF Enter, Go, FormedRun, Outcomes
<1>6. CASE AddSource
    <2>1. step = "source" /\ next \in DOMAIN Given /\ attempts' = attempts
        BY <1>6, AddedIs DEF AddSource
    <2>2. next + 1 \in Nat
        BY <1>0 DEF FormedRun
    <2>3. <<{Given[next].path}>> \in Seq(SUBSET Seq(STRING))
        <3>1. {Given[next].path} \in SUBSET Seq(STRING)
            BY <2>1, GivenFacts DEF Formed
        <3> QED BY <3>1
    <2>4. CASE Halt("failed") \/ Halt("overlap")
        BY <1>1, <2>1, <2>4 DEF Outcomes
    <2>5. CASE Go("source") /\ next' = next + 1 /\ walk' = walk
        BY <1>0, <1>2, <2>1, <2>2, <2>5 DEF Go, FormedRun
    <2>6. CASE walk' = <<{Given[next].path}>> /\ Go("walk") /\ next' = next
        BY <1>0, <1>2, <2>1, <2>3, <2>6 DEF Go, FormedRun
    <2> QED BY <1>6, <2>4, <2>5, <2>6, AddedIs
<1>7. CASE Entry
    <2>1. PICK p : EntryDoes(p)
        BY <1>7, EntryIs
    <2>2. /\ step = "walk" /\ p \in Last(walk) /\ walk # <<>> /\ attempts' = attempts /\ next' = next
          /\ Halt("failed") \/ WalkOn(p)
        BY <2>1 DEF EntryDoes
    <2>3. WalkOn(p) => walk' \in Seq(SUBSET Seq(STRING))
        BY <2>2, WalkOnOpens
    <2>4. WalkOn(p) => step' = "walk" /\ outcome' = outcome
        BY DEF WalkOn, Go
    <2> QED BY <1>0, <1>1, <1>2, <2>2, <2>3, <2>4 DEF FormedRun, Outcomes
<1>8. CASE EndSource
    BY <1>0, <1>2, <1>8 DEF EndSource, Go, FormedRun
<1>9. CASE AllMet
    BY <1>1, <1>9 DEF AllMet, Outcomes
<1>10. CASE Stop
    BY <1>1, <1>10 DEF Stop, Outcomes
<1>11. CASE Resume
    <2>1. attempts' \in 1 .. MaxAttempts
        BY <1>0, <1>11, SourcesAssumption DEF Resume, FormedRun
    <2> QED BY <1>0, <1>11, <2>1 DEF Resume, FormedRun
<1>12. CASE Vanish
    BY <1>3, <1>12 DEF Vanish
<1> QED BY <1>3, <1>4, <1>5, <1>6, <1>7, <1>8, <1>9, <1>10, <1>11, <1>12, ActionCases DEF inventoryVars

\* The tree only loses names.
LEMMA TreeStep ==
    ASSUME Formed, [InventoryNext]_inventoryVars
    PROVE  /\ Trees(tree', tree) /\ Trees(tree', world.tree)
           /\ tree' = tree \/ (tree' # world.tree /\ tables' = tables)
<1>1. Trees(tree, tree) /\ Trees(tree, world.tree)
    BY FormedTrees
<1>2. CASE tree' = tree
    BY <1>1, <1>2
<1>3. CASE Vanish
    <2>1. PICK p \in world.leaving \cap DOMAIN tree : tree' = [q \in DOMAIN tree \ {p} |-> tree[q]]
        BY <1>3 DEF Vanish
    <2>2. p # <<>>
        BY SourcesAssumption, <2>1 DEF Formed
    <2>3. DOMAIN tree' = DOMAIN tree \ {p} /\ \A q \in DOMAIN tree' : tree'[q] = tree[q]
        BY <2>1
    <2>4. Within(tree', tree) /\ <<>> \in DOMAIN tree'
        BY <1>1, <2>2, <2>3 DEF Within, Trees
    <2>5. Trees(tree', tree)
        BY <1>1, <2>4 DEF Trees
    <2>6. Trees(tree', world.tree)
        BY <1>1, <2>4, <2>5 DEF Trees, Within
    <2>7. p \in DOMAIN world.tree /\ p \notin DOMAIN tree'
        BY <1>1, <2>1, <2>3 DEF Trees, Within
    <2>8. tables' = tables
        BY <1>3 DEF Vanish
    <2> QED BY <2>5, <2>6, <2>7, <2>8
<1>4. tree' = tree \/ Vanish
    BY ActionCases DEF Configure, Enter, AddSource, Entry, EndSource, AllMet, Stop, Resume, inventoryVars
<1> QED BY <1>2, <1>3, <1>4

LEMMA SameBelow ==
    ASSUME Formed, world' = world
    PROVE  \A root \in Seq(STRING) : \A p : Below(root, p)' = Below(root, p)
<1> SUFFICES ASSUME NEW root \in Seq(STRING), NEW p PROVE Below(root, p)' = Below(root, p)
    OBVIOUS
<1>1. Reached(world.tree, root)' = Reached(world.tree, root)
    <2>1. DOMAIN world.tree \subseteq Seq(STRING)
        BY FormedTrees
    <2>2. ASSUME NEW t, DOMAIN t \subseteq Seq(STRING)
          PROVE  Reached(t, root)' = Reached(t, root)
        BY <2>2, SameLevels
    <2> QED BY <2>1, <2>2
<1>2. \A o : Opt(o)' = Opt(o)
    BY SameWalk
<1> QED BY <1>1, <1>2 DEF Below

RecordedRows ==
    \A p \in Listed :
        /\ Lstat(world.tree, p) # Nothing /\ rows[p] = Lstat(world.tree, p).kind
        /\ \E r \in refs : r[2] = p
RecordedRefs ==
    \A r \in refs :
        /\ r[2] \in Listed /\ Below(sources[r[1]].path, r[2])
        /\ ~WalkFails(world.tree, sources[r[1]].path, r[2])
RecordedErrors ==
    \A e \in errors :
        /\ Below(sources[e[1]].path, e[2])
        /\ tree = world.tree => Unread(tree, sources[e[1]].path, e[2])

LEMMA RecordedParts == Recorded <=> RecordedRows /\ RecordedRefs /\ RecordedErrors
BY DEF Recorded, RecordedRows, RecordedRefs, RecordedErrors

LEMMA PathsTyped ==
    ASSUME Formed
    PROVE  \A i \in DOMAIN sources : sources[i].path \in Seq(STRING) /\ sources[i].no \in Nat \X Nat
<1>1. sources \in Seq(Row)
    BY FormedParts DEF FormedTables
<1>2. \A i \in DOMAIN sources : sources[i] \in Row
    BY <1>1, LenProperties, ElementOfSeq
<1> QED BY <1>2 DEF Row

LEMMA RefsTyped ==
    ASSUME Formed
    PROVE  /\ \A r \in refs : r[1] \in DOMAIN sources /\ r[2] \in Seq(STRING) /\ r = <<r[1], r[2]>>
           /\ \A e \in errors : e[1] \in DOMAIN sources /\ e[2] \in Seq(STRING) /\ e = <<e[1], e[2]>>
BY DEF Formed

\* A step that leaves what the tables hold, adding sources at most.
LEMMA RecordedKept ==
    ASSUME Formed, Recorded, [InventoryNext]_inventoryVars,
           rows' = rows, refs' = refs, errors' = errors,
           \A i \in DOMAIN sources : i \in DOMAIN sources' /\ sources'[i] = sources[i]
    PROVE  Recorded'
<1>1. world' = world
    BY FormedTreeStep
<1>2. RecordedRows'
    BY <1>1, RecordedParts DEF RecordedRows, Listed
<1>3. \A r \in refs : sources'[r[1]].path = sources[r[1]].path /\ sources[r[1]].path \in Seq(STRING)
    BY RefsTyped, PathsTyped
<1>4. \A e \in errors : sources'[e[1]].path = sources[e[1]].path /\ sources[e[1]].path \in Seq(STRING)
    BY RefsTyped, PathsTyped
<1>5. \A root \in Seq(STRING) : \A p : Below(root, p)' = Below(root, p)
    BY <1>1, SameBelow
<1>6. \A t, root, p : WalkFails(t, root, p)' = WalkFails(t, root, p) /\ Unread(t, root, p)' = Unread(t, root, p)
    BY <1>1, SameWalk
<1>7. RecordedRefs'
    BY <1>1, <1>3, <1>5, <1>6, RecordedParts DEF RecordedRefs, Listed
<1>8. RecordedErrors'
    BY <1>1, <1>4, <1>5, <1>6, TreeStep, RecordedParts DEF RecordedErrors
<1>9. RecordedRows' /\ RecordedRefs' /\ RecordedErrors' => Recorded'
    BY DEF Recorded, RecordedRows, RecordedRefs, RecordedErrors
<1> QED BY <1>2, <1>7, <1>8, <1>9

LEMMA RecordedStep ==
    ASSUME Formed, Recorded, Walking, [InventoryNext]_inventoryVars
    PROVE  Recorded'
<1>1. CASE tables' = tables
    BY <1>1, RecordedKept DEF tables
<1>2. CASE AddSource
    <2>1. rows' = rows /\ refs' = refs /\ errors' = errors /\ next \in DOMAIN Given
        BY <1>2, AddedIs
    <2>2. \A i \in DOMAIN sources : i \in DOMAIN sources' /\ sources'[i] = sources[i]
        <3>1. CASE sources' = sources
            BY <3>1
        <3>2. CASE sources' = Added(SourceOf(Given[next], IsInput(Given[next]) \/ IsDir(tree, Given[next].path)))
            <4> DEFINE d == IsInput(Given[next]) \/ IsDir(tree, Given[next].path)
                       s == SourceOf(Given[next], d)
            <4>1. d \in BOOLEAN
                BY DEF IsInput, IsDir
            <4>2. sources' = Added(s)
                BY <3>2
            <4> HIDE DEF d
            <4> QED BY <2>1, <4>1, <4>2, AddedKeeps
        <3> QED BY <1>2, <3>1, <3>2, AddedIs
    <2> QED BY <2>1, <2>2, RecordedKept
<1>3. CASE Entry
    <2>1. PICK p : EntryDoes(p) /\ Below(Root, p)
        BY <1>3, EntryIs
    <2>2. /\ step = "walk" /\ world' = world /\ tree' = tree /\ sources' = sources
          /\ p \in Last(walk) /\ walk # <<>>
        BY <2>1 DEF EntryDoes
    <2>3. Source \in DOMAIN sources /\ sources[Source].path = Root /\ Root \in Seq(STRING)
        BY <2>2, SourceFacts
    <2>4. \A root \in Seq(STRING) : \A q : Below(root, q)' = Below(root, q)
        BY <2>2, SameBelow
    <2>5. \A t, root, q : WalkFails(t, root, q)' = WalkFails(t, root, q) /\ Unread(t, root, q)' = Unread(t, root, q)
        BY <2>2, SameWalk
    <2>6. \A r \in refs : sources[r[1]].path \in Seq(STRING)
        BY RefsTyped, PathsTyped
    <2>7. \A e \in errors : sources[e[1]].path \in Seq(STRING)
        BY RefsTyped, PathsTyped
    <2>8. RecordedErrors'
        <3>1. CASE errors' = errors
            BY <2>2, <2>4, <2>5, <2>7, <3>1, RecordedParts DEF RecordedErrors
        <3>2. CASE errors' = errors \cup {<<Source, p>>} /\ (tree = world.tree => Unread(tree, Root, p))
            <4> SUFFICES ASSUME NEW e \in errors'
                         PROVE  (/\ Below(sources[e[1]].path, e[2])
                                 /\ tree = world.tree => Unread(tree, sources[e[1]].path, e[2]))'
                BY DEF RecordedErrors
            <4>2. CASE e \in errors
                BY <2>2, <2>4, <2>5, <2>7, <4>2, RecordedParts DEF RecordedErrors
            <4>3. CASE e = <<Source, p>>
                BY <2>1, <2>2, <2>3, <2>4, <2>5, <3>2, <4>3
            <4> QED BY <3>2, <4>2, <4>3
        <3> QED BY <2>1, <3>1, <3>2 DEF EntryDoes
    <2>9. RecordedRows' /\ RecordedRefs'
        <3>1. CASE rows' = rows /\ refs' = refs
            BY <2>2, <2>4, <2>5, <2>6, <3>1, RecordedParts DEF RecordedRows, RecordedRefs, Listed
        <3>2. CASE /\ Attach(p) /\ Lstat(world.tree, p) # Nothing /\ (p \notin Listed => Lstat(tree, p) # Nothing)
                   /\ ~WalkFails(world.tree, Root, p)
            <4>1. /\ refs' = refs \cup {<<Source, p>>}
                  /\ rows' = [q \in Listed \cup {p} |-> IF q \in Listed THEN rows[q] ELSE Lstat(tree, p).kind]
                BY <3>2 DEF Attach
            <4>2. Listed' = Listed \cup {p}
                BY <4>1 DEF Listed
            <4>3. \A q \in Listed : rows'[q] = rows[q]
                BY <4>1
            <4>4. p \notin Listed => rows'[p] = Lstat(world.tree, p).kind
                <5>1. p \in Seq(STRING)
                    BY <2>2, OpenOf DEF Formed
                <5>2. Lstat(tree, p) # Nothing => Lstat(world.tree, p) = Lstat(tree, p)
                    BY <5>1, FormedTrees, LstatWithin
                <5>3. p \notin Listed => rows'[p] = Lstat(tree, p).kind
                    BY <4>1
                <5> QED BY <3>2, <5>2, <5>3
            <4>5. RecordedRows'
                <5>1. \A q \in Listed' : /\ Lstat(world.tree, q) # Nothing /\ rows'[q] = Lstat(world.tree, q).kind
                                         /\ \E r \in refs' : r[2] = q
                    <6>1. TAKE q \in Listed'
                    <6>2. CASE q \in Listed
                        BY <4>1, <4>3, <6>2, RecordedParts DEF RecordedRows
                    <6>3. CASE q \notin Listed
                        <7>1. q = p /\ <<Source, p>> \in refs' /\ <<Source, p>>[2] = p
                            BY <4>1, <4>2, <6>3
                        <7> QED BY <3>2, <4>4, <6>3, <7>1
                    <6> QED BY <6>2, <6>3
                <5> QED BY <2>2, <5>1 DEF RecordedRows
            <4>6. RecordedRefs'
                <5> SUFFICES ASSUME NEW r \in refs'
                             PROVE  (/\ r[2] \in Listed /\ Below(sources[r[1]].path, r[2])
                                     /\ ~WalkFails(world.tree, sources[r[1]].path, r[2]))'
                    BY DEF RecordedRefs
                <5>2. CASE r \in refs
                    BY <2>2, <2>4, <2>5, <2>6, <4>2, <5>2, RecordedParts DEF RecordedRefs
                <5>3. CASE r = <<Source, p>>
                    BY <2>1, <2>2, <2>3, <2>4, <2>5, <3>2, <4>2, <5>3
                <5> QED BY <4>1, <5>2, <5>3
            <4> QED BY <4>5, <4>6
        <3> QED BY <2>1, <3>1, <3>2 DEF EntryDoes
    <2>10. RecordedRows' /\ RecordedRefs' /\ RecordedErrors' => Recorded'
        BY DEF Recorded, RecordedRows, RecordedRefs, RecordedErrors
    <2> QED BY <2>8, <2>9, <2>10
<1> QED BY <1>1, <1>2, <1>3, ActionCases DEF Configure, Enter, EndSource, AllMet, Stop, Resume, Vanish, inventoryVars, tables

SepDirs == \A i \in DOMAIN sources : IsInput(sources[i]) => sources[i].dir
SepKeys ==
    \A i, j \in DOMAIN sources :
        sources[i].no = sources[j].no /\ sources[i].path = sources[j].path => i = j
SepInputs ==
    (\E i \in DOMAIN sources : ~IsInput(sources[i])) =>
        \A k \in DOMAIN world.inputs :
            Admitted(Given[k]) => \E i \in DOMAIN sources : sources[i].no = Given[k].no
SepEmpty == step = "config" \/ outcome = "refused" => sources = <<>>
InputsApart == \A i \in DOMAIN world.inputs : \A j \in 1 .. i - 1 : ~Overlap(world.inputs[j], world.inputs[i])
SourcesApart ==
    \A i, j \in DOMAIN sources :
        i # j /\ sources[i].dir /\ sources[j].dir => ~Overlap(sources[i].path, sources[j].path)
SepApart ==
    ~Opt("noStrictSeparation") /\ step # "config" /\ outcome # "refused" => InputsApart /\ SourcesApart

LEMMA SeparateParts == Separate <=> SepDirs /\ SepKeys /\ SepInputs /\ SepEmpty /\ SepApart
BY DEF Separate, SepDirs, SepKeys, SepInputs, SepEmpty, SepApart, InputsApart, SourcesApart

LEMMA OverlapEither ==
    ASSUME NEW a, NEW b
    PROVE  Overlap(a, b) <=> Overlap(b, a)
BY DEF Overlap

\* Where in a run the configuration has been accepted.
LEMMA Accepted ==
    ASSUME Formed, Recorded, Walking, [InventoryNext]_inventoryVars
    PROVE  /\ step' = "config" => step = "config"
           /\ outcome' = "refused" => outcome = "refused" \/ step = "config"
           /\ step' # "config" /\ outcome' # "refused" =>
                 \/ step # "config" /\ outcome # "refused"
                 \/ /\ step = "config" /\ sources' = sources
                    /\ ~Opt("noStrictSeparation") => InputsApart
<1>0. (outcome = Nothing) = (step # "ended") /\ "refused" # Nothing
    BY SourcesAssumption DEF Formed, Outcomes
<1>1. CASE UNCHANGED inventoryVars
    BY <1>1 DEF inventoryVars
<1>2. CASE Configure
    <2>1. step = "config" /\ sources' = sources
        BY <1>2 DEF Configure, tables
    <2>2. CASE \E i \in DOMAIN world.inputs :
                  \/ ~IsDir(tree, world.inputs[i])
                  \/ /\ ~Opt("noStrictSeparation")
                     /\ \E j \in 1 .. i - 1 : Overlap(world.inputs[j], world.inputs[i])
        BY <1>2, <2>1, <2>2 DEF Configure, Halt
    <2>3. CASE ~ \E i \in DOMAIN world.inputs :
                  \/ ~IsDir(tree, world.inputs[i])
                  \/ /\ ~Opt("noStrictSeparation")
                     /\ \E j \in 1 .. i - 1 : Overlap(world.inputs[j], world.inputs[i])
        <3>1. ~Opt("noStrictSeparation") => InputsApart
            BY <2>3 DEF InputsApart
        <3>2. outcome' = outcome
            BY <1>2, <2>3 DEF Configure, Go
        <3> QED BY <1>0, <2>1, <3>1, <3>2
    <2> QED BY <2>2, <2>3
<1>3. CASE Enter
    BY <1>0, <1>3 DEF Enter, Halt, Go
<1>4. CASE AddSource
    <2>1. step = "source"
        BY <1>4 DEF AddSource
    <2> QED BY <1>0, <1>4, <2>1, AddedIs DEF Halt, Go
<1>5. CASE Entry
    <2>1. PICK p : EntryDoes(p)
        BY <1>5, EntryIs
    <2>2. step = "walk" /\ (Halt("failed") \/ WalkOn(p))
        BY <2>1 DEF EntryDoes
    <2> QED BY <1>0, <2>2 DEF Halt, WalkOn, Go
<1>6. CASE EndSource
    BY <1>0, <1>6 DEF EndSource, Go
<1>7. CASE AllMet
    BY <1>0, <1>7 DEF AllMet, Halt
<1>8. CASE Stop
    BY <1>0, <1>8 DEF Stop, Halt
<1>9. CASE Resume
    BY <1>0, <1>9 DEF Resume
<1>10. CASE Vanish
    BY <1>0, <1>10 DEF Vanish
<1> QED BY <1>1, <1>2, <1>3, <1>4, <1>5, <1>6, <1>7, <1>8, <1>9, <1>10, ActionCases

LEMMA InputsGiven ==
    ASSUME Formed
    PROVE  /\ \A k \in DOMAIN world.inputs :
                 /\ k \in DOMAIN Given /\ IsInput(Given[k])
                 /\ Given[k].no = <<0, k>> /\ Given[k].path = world.inputs[k]
           /\ \A k \in DOMAIN Given : IsInput(Given[k]) => k \in DOMAIN world.inputs
           /\ DOMAIN world.inputs = 1 .. Len(world.inputs) /\ Len(world.inputs) \in Nat
           /\ DOMAIN Given = 1 .. Len(Given) /\ Len(Given) \in Nat
<1>1. world \in Worlds
    BY DEF Formed
<1>2. /\ \A k \in DOMAIN world.inputs :
            k \in DOMAIN Given /\ Given[k] = [no |-> <<0, k>>, path |-> world.inputs[k]]
      /\ \A k \in DOMAIN Given : IsInput(Given[k]) => k \in DOMAIN world.inputs
      /\ DOMAIN world.inputs = 1 .. Len(world.inputs) /\ Len(world.inputs) \in Nat
      /\ DOMAIN Given = 1 .. Len(Given) /\ Len(Given) \in Nat
    BY <1>1, GivenFacts
<1>3. ASSUME NEW k \in DOMAIN world.inputs
      PROVE  IsInput(Given[k]) /\ Given[k].no = <<0, k>> /\ Given[k].path = world.inputs[k]
    <2>1. Given[k] = [no |-> <<0, k>>, path |-> world.inputs[k]]
        BY <1>2
    <2>2. Given[k].no = <<0, k>> /\ Given[k].path = world.inputs[k]
        BY <2>1
    <2>3. Given[k].no[1] = 0
        BY <2>2
    <2> QED BY <2>2, <2>3 DEF IsInput
<1> QED BY <1>2, <1>3

LEMMA InputOf ==
    ASSUME Formed, NEW i \in DOMAIN sources, IsInput(sources[i])
    PROVE  \E k \in DOMAIN world.inputs :
              sources[i].no = Given[k].no /\ sources[i].path = Given[k].path /\ Given[k].path = world.inputs[k]
<1>1. PICK g \in ToSet(Given) : sources[i].no = g.no /\ sources[i].path = g.path
    BY DEF Formed
<1>2. PICK k \in DOMAIN Given : g = Given[k]
    BY GivenFacts DEF Formed
<1>3. IsInput(Given[k])
    BY <1>1, <1>2 DEF IsInput
<1> QED BY <1>1, <1>2, <1>3, InputsGiven

LEMMA SameInputs ==
    ASSUME world' = world
    PROVE  InputsApart' <=> InputsApart
BY SameWalk DEF InputsApart

LEMMA SeparateKept ==
    ASSUME Formed, Recorded, Separate, Walking, [InventoryNext]_inventoryVars, sources' = sources
    PROVE  Separate'
<1>1. world' = world
    BY FormedTreeStep
<1>2. SepDirs /\ SepKeys /\ SepInputs /\ SepEmpty /\ SepApart
    BY SeparateParts
<1>3. SepDirs' /\ SepKeys'
    BY <1>2 DEF SepDirs, SepKeys
<1>4. SepInputs'
    BY <1>1, <1>2, SameWalk DEF SepInputs
<1>5. SepEmpty'
    BY <1>2, Accepted DEF SepEmpty
<1>6. SepApart'
    <2> SUFFICES ASSUME (~Opt("noStrictSeparation"))', (step # "config")', (outcome # "refused")'
                 PROVE  InputsApart' /\ SourcesApart'
        BY DEF SepApart
    <2>1. ~Opt("noStrictSeparation")
        BY <1>1, SameWalk
    <2>2. CASE step # "config" /\ outcome # "refused"
        <3>1. InputsApart /\ SourcesApart
            BY <1>2, <2>1, <2>2 DEF SepApart
        <3>2. SourcesApart'
            BY <1>1, <3>1, SameWalk DEF SourcesApart
        <3> QED BY <1>1, <3>1, <3>2, SameInputs
    <2>3. CASE step = "config" /\ (~Opt("noStrictSeparation") => InputsApart)
        <3>1. DOMAIN sources' = {}
            <4>1. sources' = <<>>
                BY <1>2, <2>3 DEF SepEmpty
            <4> QED BY <4>1
        <3>2. SourcesApart'
            BY <3>1 DEF SourcesApart
        <3> QED BY <1>1, <2>1, <2>3, <3>2, SameInputs
    <2> QED BY <2>2, <2>3, Accepted
<1>7. SepDirs' /\ SepKeys' /\ SepInputs' /\ SepEmpty' /\ SepApart' => Separate'
    BY DEF Separate, SepDirs, SepKeys, SepInputs, SepEmpty, SepApart, InputsApart, SourcesApart
<1> QED BY <1>3, <1>4, <1>5, <1>6, <1>7

\* The directories before it have been added when a line is.
LEMMA InputsBefore ==
    ASSUME Formed, Walking, AddSource, ~IsInput(Given[next]),
           NEW k \in DOMAIN world.inputs, Admitted(Given[k])
    PROVE  \E i \in DOMAIN sources : sources[i].no = Given[k].no
<1>1. step = "source" /\ next \in DOMAIN Given
    BY AddedIs DEF AddSource
<1>2. k \in DOMAIN Given /\ IsInput(Given[k])
    BY InputsGiven
<1>3. next \notin DOMAIN world.inputs
    BY InputsGiven
<1>4. k \in 1 .. next - 1
    BY <1>1, <1>2, <1>3, InputsGiven
<1>5. Served(Given[k])
    BY <1>1, <1>4 DEF Walking
<1> QED BY <1>5 DEF Served

LEMMA SeparateStep ==
    ASSUME Formed, Recorded, Separate, Walking, [InventoryNext]_inventoryVars
    PROVE  Separate'
<1>1. CASE sources' = sources
    BY <1>1, SeparateKept
<1>2. CASE AddSource /\ sources' # sources
    <2> DEFINE g == Given[next]
               d == IsInput(g) \/ IsDir(tree, g.path)
               s == SourceOf(g, d)
               n == Len(sources) + 1
    <2>1. /\ next \in DOMAIN Given /\ world' = world /\ step = "source"
          /\ Admitted(g) /\ ~Refused(g) /\ sources' = Added(s) /\ Go("walk")
        BY <1>2, AddedIs DEF AddSource
    <2>2. d \in BOOLEAN
        BY DEF IsInput, IsDir
    <2>3. s.no = g.no /\ s.path = g.path /\ s.dir = d
        BY DEF SourceOf
    <2>d. d <=> IsInput(g) \/ IsDir(tree, g.path)
        OBVIOUS
    <2> HIDE DEF d
    <2>4. /\ \A i \in DOMAIN sources : i \in DOMAIN sources' /\ sources'[i] = sources[i]
          /\ \A i \in DOMAIN sources : ~(sources[i].no = s.no /\ sources[i].path = s.path)
          /\ n \in DOMAIN sources' /\ sources'[n] = s /\ n \notin DOMAIN sources
          /\ \A i \in DOMAIN sources' : i \in DOMAIN sources \/ i = n
        BY <1>2, <2>1, <2>2, AddedKeeps
    <2> HIDE DEF s, n
    <2>5. SepDirs /\ SepKeys /\ SepInputs /\ SepEmpty /\ SepApart
        BY SeparateParts
    <2>6. IsInput(s) <=> IsInput(g)
        BY <2>3 DEF IsInput
    <2>7. SepDirs'
        BY <2>3, <2>4, <2>5, <2>6, <2>d DEF SepDirs
    <2>8. SepKeys'
        BY <2>4, <2>5 DEF SepKeys
    <2>9. SepInputs'
        <3> SUFFICES ASSUME NEW j \in DOMAIN sources', ~IsInput(sources'[j]),
                            NEW k \in DOMAIN world.inputs, Admitted(Given[k])
                     PROVE  \E i \in DOMAIN sources' : sources'[i].no = Given[k].no
            BY <2>1, SameWalk DEF SepInputs
        <3>1. \E i \in DOMAIN sources : sources[i].no = Given[k].no
            <4>1. CASE j \in DOMAIN sources
                BY <2>4, <2>5, <4>1 DEF SepInputs
            <4>2. CASE j = n
                <5>1. ~IsInput(Given[next])
                    BY <2>4, <2>6, <4>2
                <5> QED BY <1>2, <5>1, InputsBefore
            <4> QED BY <2>4, <4>1, <4>2
        <3> QED BY <2>4, <3>1
    <2>10. outcome' = outcome /\ step' = "walk" /\ outcome = Nothing /\ Nothing # "refused"
        BY <2>1, SourcesAssumption DEF Go, Formed, Outcomes
    <2>11. SepEmpty'
        BY <2>10 DEF SepEmpty
    <2>12. SepApart'
        <3> SUFFICES ASSUME ~Opt("noStrictSeparation")
                     PROVE  InputsApart' /\ SourcesApart'
            BY <2>1, SameWalk DEF SepApart
        <3>1. InputsApart /\ SourcesApart
            BY <2>1, <2>5, <2>10 DEF SepApart
        <3>2. ASSUME NEW i \in DOMAIN sources, sources[i].dir, d
              PROVE  ~Overlap(sources[i].path, s.path)
            <4>1. CASE ~IsInput(g)
                BY <2>1, <2>3, <2>d, <3>2, <4>1 DEF Refused
            <4>2. CASE IsInput(g) /\ IsInput(sources[i])
                <5>1. PICK k \in DOMAIN world.inputs :
                          sources[i].no = Given[k].no /\ sources[i].path = Given[k].path /\ Given[k].path = world.inputs[k]
                    BY <4>2, InputOf
                <5>2. next \in DOMAIN world.inputs /\ g.path = world.inputs[next]
                    BY <2>1, <4>2, InputsGiven
                <5>3. k # next
                    BY <2>3, <2>4, <5>1
                <5>4. DOMAIN world.inputs = 1 .. Len(world.inputs) /\ Len(world.inputs) \in Nat
                    BY InputsGiven
                <5>5. k \in 1 .. next - 1 \/ next \in 1 .. k - 1
                    BY <5>2, <5>3, <5>4
                <5>6. ~Overlap(world.inputs[k], world.inputs[next])
                    BY <3>1, <5>2, <5>5, OverlapEither DEF InputsApart
                <5> QED BY <2>3, <5>1, <5>2, <5>6
            <4>3. CASE IsInput(g) /\ ~IsInput(sources[i])
                <5>1. next \in DOMAIN world.inputs /\ Given[next].no = <<0, next>>
                    BY <2>1, <4>3, InputsGiven
                <5>2. PICK j \in DOMAIN sources : sources[j].no = Given[next].no
                    BY <2>1, <2>5, <4>3, <5>1 DEF SepInputs
                <5>3. IsInput(sources[j])
                    BY <4>3, <5>2 DEF IsInput
                <5>4. PICK k \in DOMAIN world.inputs :
                          sources[j].no = Given[k].no /\ sources[j].path = Given[k].path
                    BY <5>3, InputOf
                <5>5. Given[k].no = <<0, k>>
                    BY InputsGiven
                <5>6. k = next
                    BY <5>1, <5>2, <5>4, <5>5
                <5> QED BY <2>3, <2>4, <5>2, <5>4, <5>6
            <4> QED BY <4>1, <4>2, <4>3
        <3>3. SourcesApart'
            <4> SUFFICES ASSUME NEW i \in DOMAIN sources', NEW j \in DOMAIN sources',
                                i # j, sources'[i].dir, sources'[j].dir
                         PROVE  ~Overlap(sources'[i].path, sources'[j].path)
                BY <2>1, SameWalk DEF SourcesApart
            <4>1. CASE i \in DOMAIN sources /\ j \in DOMAIN sources
                BY <2>4, <3>1, <4>1 DEF SourcesApart
            <4>2. CASE i \in DOMAIN sources /\ j = n
                BY <2>3, <2>4, <3>2, <4>2
            <4>3. CASE i = n /\ j \in DOMAIN sources
                BY <2>3, <2>4, <3>2, <4>3, OverlapEither
            <4> QED BY <2>4, <4>1, <4>2, <4>3
        <3> QED BY <2>1, <3>1, <3>3, SameInputs
    <2>13. SepDirs' /\ SepKeys' /\ SepInputs' /\ SepEmpty' /\ SepApart' => Separate'
        BY DEF Separate, SepDirs, SepKeys, SepInputs, SepEmpty, SepApart, InputsApart, SourcesApart
    <2> QED BY <2>7, <2>8, <2>9, <2>11, <2>12, <2>13
<1>3. sources' = sources \/ AddSource
    BY ActionCases DEF Configure, Enter, Entry, EndSource, AllMet, Stop, Resume, Vanish, inventoryVars, tables
<1> QED BY <1>1, <1>2, <1>3

LEMMA TablesGrow ==
    ASSUME Formed, Recorded, Walking, [InventoryNext]_inventoryVars
    PROVE  /\ refs \subseteq refs' /\ errors \subseteq errors'
           /\ \A i \in DOMAIN sources : i \in DOMAIN sources' /\ sources'[i] = sources[i]
<1>1. CASE tables' = tables
    BY <1>1 DEF tables
<1>2. CASE Entry
    <2>1. PICK p : EntryDoes(p)
        BY <1>2, EntryIs
    <2>2. sources' = sources /\ (refs' = refs \/ Attach(p)) /\ (errors' = errors \/ errors' = errors \cup {<<Source, p>>})
        BY <2>1 DEF EntryDoes
    <2> QED BY <2>2 DEF Attach
<1>3. CASE AddSource
    <2>1. rows' = rows /\ refs' = refs /\ errors' = errors /\ next \in DOMAIN Given
        BY <1>3, AddedIs
    <2>2. CASE sources' = sources
        BY <2>1, <2>2
    <2>3. CASE sources' = Added(SourceOf(Given[next], IsInput(Given[next]) \/ IsDir(tree, Given[next].path)))
        <3> DEFINE d == IsInput(Given[next]) \/ IsDir(tree, Given[next].path)
                   s == SourceOf(Given[next], d)
        <3>1. d \in BOOLEAN
            BY DEF IsInput, IsDir
        <3>2. sources' = Added(s)
            BY <2>3
        <3> HIDE DEF d
        <3> QED BY <2>1, <3>1, <3>2, AddedKeeps
    <2> QED BY <1>3, <2>2, <2>3, AddedIs
<1> QED BY <1>1, <1>2, <1>3, ActionCases DEF Configure, Enter, EndSource, AllMet, Stop, Resume, Vanish, inventoryVars, tables

LEMMA HandledKept ==
    ASSUME Formed, Recorded, Walking, [InventoryNext]_inventoryVars,
           NEW i \in DOMAIN sources, NEW p, Handled(i, p)
    PROVE  Handled(i, p)'
<1> DEFINE root == sources[i].path
<1>1. /\ world' = world /\ sources'[i] = sources[i] /\ refs \subseteq refs' /\ errors \subseteq errors'
      /\ root \in Seq(STRING)
    BY FormedTreeStep, TablesGrow, PathsTyped
<1>2. /\ p \in Met(tree, root) /\ Legible(tree, p) => <<i, p>> \in refs
      /\ tree = world.tree /\ p \in Failing(tree, root) => <<i, p>> \in errors
    BY DEF Handled
<1>3. Trees(tree', tree) /\ (tree' = tree \/ tree' # world.tree)
    BY TreeStep
<1> HIDE DEF root
<1>4. DOMAIN tree' \subseteq Seq(STRING)
    BY <1>3 DEF Trees, Within
<1>5. /\ Met(tree, root)' = Met(tree', root) /\ Failing(tree, root)' = Failing(tree', root)
    <2>1. root' = root
        BY <1>1 DEF root
    <2>2. ASSUME NEW t, DOMAIN t \subseteq Seq(STRING)
          PROVE  /\ Met(t, sources[i].path)' = Met(t, root)
                 /\ Failing(t, sources[i].path)' = Failing(t, root)
        <3>1. ASSUME NEW r \in Seq(STRING)
              PROVE  Met(t, r)' = Met(t, r) /\ Failing(t, r)' = Failing(t, r)
            BY <1>1, <2>2, SameLevels
        <3> QED BY <1>1, <3>1 DEF root
    <2> QED BY <1>4, <2>2 DEF root
<1>6. Legible(tree, p)' = Legible(tree', p)
    BY <1>1, SameWalk
<1>7. p \in Met(tree', root) /\ Legible(tree', p) => p \in Met(tree, root) /\ Legible(tree, p)
    BY <1>1, <1>3, MetWithin
<1>8. (p \in Met(tree, root) /\ Legible(tree, p) => <<i, p>> \in refs)'
    BY <1>1, <1>2, <1>5, <1>6, <1>7
<1>9. (tree = world.tree /\ p \in Failing(tree, root) => <<i, p>> \in errors)'
    BY <1>1, <1>2, <1>3, <1>5
<1> QED BY <1>8, <1>9 DEF Handled, root

LEMMA ServedKept ==
    ASSUME Formed, Recorded, Walking, [InventoryNext]_inventoryVars,
           NEW g, g.path \in Seq(STRING), Served(g)
    PROVE  Served(g)'
<1>1. world' = world /\ DOMAIN tree' \subseteq Seq(STRING)
    BY FormedTreeStep, TreeStep DEF Trees, Within
<1>2. CASE ~Admitted(g)
    BY <1>1, <1>2, SameWalk DEF Served
<1>3. CASE Admitted(g)
    <2>1. PICK i \in DOMAIN sources :
              /\ sources[i].no = g.no /\ sources[i].path = g.path
              /\ \A p \in Reached(tree, g.path) : Handled(i, p)
        BY <1>3 DEF Served
    <2>2. Reached(tree, g.path)' = Reached(tree', g.path)
        <3>1. \A t : DOMAIN t \subseteq Seq(STRING) => Reached(t, g.path)' = Reached(t, g.path)
            BY <1>1, SameLevels
        <3> QED BY <1>1, <3>1
    <2>3. \A p \in Reached(tree', g.path) : p \in Reached(tree, g.path)
        BY TreeStep, ReachedWithin
    <2>4. \A p \in Reached(tree, g.path)' : Handled(i, p)'
        BY <2>1, <2>2, <2>3, HandledKept
    <2>5. i \in DOMAIN sources' /\ sources'[i] = sources[i]
        BY TablesGrow
    <2> QED BY <2>1, <2>4, <2>5 DEF Served
<1> QED BY <1>2, <1>3

Covered(p) == \E q \in Open(walk) : IsPrefix(q, p)
WalkNow ==
    step = "walk" =>
        /\ next \in DOMAIN Given /\ Admitted(Given[next])
        /\ \E i \in DOMAIN sources : sources[i].no = Given[next].no /\ sources[i].path = Root
        /\ \A q \in Open(walk) : Below(Root, q)
        /\ \A p \in Reached(tree, Root) : Covered(p) \/ Handled(Source, p)
WalkPlace == step = "source" => next \in 1 .. Len(Given) + 1
WalkPast == step \in {"source", "walk"} => \A k \in 1 .. next - 1 : Served(Given[k])
WalkDone == outcome = "done" => \A k \in DOMAIN Given : Served(Given[k])

LEMMA WalkingParts == Walking <=> WalkNow /\ WalkPlace /\ WalkPast /\ WalkDone
<1>1. \A p : Covered(p) <=> \E n \in DOMAIN walk : \E q \in walk[n] : IsPrefix(q, p)
    BY DEF Covered, Open
<1>2. \A root : (\A q \in Open(walk) : Below(root, q)) <=> \A n \in DOMAIN walk : \A q \in walk[n] : Below(root, q)
    BY DEF Open
<1> QED BY <1>1, <1>2 DEF Walking, WalkNow, WalkPlace, WalkPast, WalkDone

LEMMA WalkingPartsNext == (WalkNow /\ WalkPlace /\ WalkPast /\ WalkDone => Walking)'
<1>1. WalkNow /\ WalkPlace /\ WalkPast /\ WalkDone => Walking
    BY WalkingParts
<1> QED BY <1>1, PTL

LEMMA RootBelow ==
    ASSUME Formed, NEW root \in Seq(STRING)
    PROVE  Below(root, root)
<1>1. IsPrefix(root, root)
    BY PrefixSelf
<1>2. root \in Reached(world.tree, root)
    BY FormedTrees, RootReached
<1>3. Len(root) <= Len(root) + 1
    BY LenProperties
<1> QED BY <1>1, <1>2, <1>3 DEF Below

\* The walk comes to the names in a directory that it reads.
LEMMA ChildBelow ==
    ASSUME Formed, NEW root \in Seq(STRING), NEW q \in Seq(STRING), Below(root, q),
           ReadsIn(tree, root, q), NEW c \in Listing(tree, q)
    PROVE  Below(root, c)
<1>0. Trees(tree, world.tree) /\ Trees(world.tree, world.tree)
    BY FormedTrees
<1>1. IsPrefix(root, q) /\ (Near(root, q) => q \in Reached(world.tree, root))
    BY DEF Below
<1>2. /\ ReadsIn(world.tree, root, q) /\ RealPath(tree, q) # Nothing /\ c \in Listing(world.tree, q)
    BY <1>0, <1>1, ReadsWithin
<1>3. /\ c \in Seq(STRING) /\ c # <<>> /\ Len(c) = Len(q) + 1 /\ Front(c) = q
      /\ Lstat(world.tree, c) # Nothing
    BY <1>0, <1>2, ListingOf
<1>4. IsPrefix(root, c)
    BY <1>1, <1>3, PrefixStep
<1>5. Descends(tree, root, q)
    BY DEF ReadsIn
<1>6. Len(q) \in Nat /\ Len(root) \in Nat /\ MaxDepth \in Nat
    BY LenProperties, SourcesAssumption
<1>7. Opt("noRecursion") => Len(c) <= Len(root) + 1
    BY <1>3, <1>5, <1>6 DEF Descends
<1>8. q # root /\ ~Opt("dereference") => Lstat(world.tree, q).kind = "dir"
    <2>1. Lstat(world.tree, q) = Lstat(tree, q)
        BY <1>0, <1>1, <1>5, DescendsWithin
    <2> QED BY <1>5, <2>1 DEF Descends, Followed
<1>9. Near(root, c) => c \in Reached(world.tree, root)
    <2> HAVE Near(root, c)
    <2>1. Near(root, q)
        BY <1>3, <1>6 DEF Near
    <2> QED BY <1>0, <1>1, <1>2, <2>1, ReachedDown
<1> QED BY <1>3, <1>4, <1>7, <1>8, <1>9 DEF Below

LEMMA ReachedNext ==
    ASSUME Formed, [InventoryNext]_inventoryVars, NEW root \in Seq(STRING)
    PROVE  /\ Reached(tree, root)' = Reached(tree', root)
           /\ Reached(tree', root) \subseteq Reached(tree, root)
<1>1. world' = world /\ DOMAIN tree' \subseteq Seq(STRING)
    BY FormedTreeStep, TreeStep DEF Trees, Within
<1>2. \A t : DOMAIN t \subseteq Seq(STRING) => Reached(t, root)' = Reached(t, root)
    BY <1>1, SameLevels
<1>3. Reached(tree', root) \subseteq Reached(tree, root)
    BY TreeStep, ReachedWithin
<1> QED BY <1>1, <1>2, <1>3

LEMMA WalkNowStep ==
    ASSUME Formed, Recorded, Walking, [InventoryNext]_inventoryVars
    PROVE  WalkNow'
<1> SUFFICES ASSUME step' = "walk" PROVE WalkNow'
    BY DEF WalkNow
<1>0. world' = world /\ Given' = Given /\ WalkNow
    BY FormedTreeStep, SameWalk, WalkingParts
<1>1. \A g : Admitted(g)' = Admitted(g)
    BY <1>0, SameWalk
<1>2. \A root \in Seq(STRING) : \A p : Below(root, p)' = Below(root, p)
    BY <1>0, SameBelow
<1>3. CASE step = "walk" /\ next' = next /\ sources' = sources /\ walk' = walk
    <2>1. /\ next \in DOMAIN Given /\ Admitted(Given[next])
          /\ \E i \in DOMAIN sources : sources[i].no = Given[next].no /\ sources[i].path = Root
          /\ \A q \in Open(walk) : Below(Root, q)
          /\ \A p \in Reached(tree, Root) : Covered(p) \/ Handled(Source, p)
          /\ Root \in Seq(STRING) /\ Source \in DOMAIN sources
        BY <1>0, <1>3, SourceFacts DEF WalkNow
    <2>2. Root' = Root /\ Source' = Source
        BY <1>0, <1>3 DEF Root, Source
    <2>3. \A q \in Open(walk)' : Below(Root, q)'
        <3>1. \A q \in Open(walk) : Below(Root, q)'
            BY <1>2, <2>1, <2>2
        <3> QED BY <1>3, <3>1 DEF Open
    <2>4. Reached(tree, Root)' \subseteq Reached(tree, Root)
        BY <2>1, <2>2, ReachedNext
    <2>5. \A p : Covered(p) => Covered(p)'
        BY <1>3 DEF Covered, Open
    <2>6. \A p : Handled(Source, p) => Handled(Source, p)'
        BY <2>1, <2>2, HandledKept
    <2> QED BY <1>0, <1>1, <1>3, <2>1, <2>2, <2>3, <2>4, <2>5, <2>6 DEF WalkNow
<1>4. CASE Entry
    <2>1. PICK q : EntryDoes(q) /\ Below(Root, q)
        BY <1>4, EntryIs
    <2>2. /\ step = "walk" /\ tree' = tree /\ sources' = sources /\ next' = next
          /\ q \in Last(walk) /\ walk # <<>>
        BY <2>1 DEF EntryDoes
    <2>3. ~Halt("failed")
        BY DEF Halt
    <2>4. /\ WalkOn(q)
          /\ q \in Met(tree, Root) /\ Legible(tree, q) => <<Source, q>> \in refs'
          /\ tree = world.tree /\ q \in Failing(tree, Root) => <<Source, q>> \in errors'
        BY <2>1, <2>3 DEF EntryDoes
    <2>5. /\ q \in Seq(STRING) /\ walk' \in Seq(SUBSET Seq(STRING))
          /\ \A x \in Open(walk) : x = q \/ x \in Open(walk')
          /\ \A x \in Open(walk') : x \in Open(walk) \/ (Reads(q) /\ x \in Listing(tree, q))
          /\ Reads(q) => Listing(tree, q) \subseteq Open(walk')
        BY <2>2, <2>4, WalkOnOpens
    <2>6. /\ next \in DOMAIN Given /\ Admitted(Given[next])
          /\ \E i \in DOMAIN sources : sources[i].no = Given[next].no /\ sources[i].path = Root
          /\ \A x \in Open(walk) : Below(Root, x)
          /\ \A p \in Reached(tree, Root) : Covered(p) \/ Handled(Source, p)
          /\ Root \in Seq(STRING) /\ Source \in DOMAIN sources /\ sources[Source].path = Root
        BY <1>0, <2>2, SourceFacts DEF WalkNow
    <2>7. Root' = Root /\ Source' = Source
        BY <1>0, <2>2 DEF Root, Source
    <2>8. \A x \in Open(walk') : Below(Root, x)
        <3>1. ASSUME Reads(q), NEW x \in Listing(tree, q)
              PROVE  Below(Root, x)
            BY <2>1, <2>5, <2>6, <3>1, ChildBelow DEF Reads
        <3> QED BY <2>5, <2>6, <3>1
    <2>9. \A x \in Open(walk)' : Below(Root, x)'
        BY <1>2, <2>6, <2>7, <2>8
    <2>10. Handled(Source, q)'
        <3>1. /\ Met(tree, Root)' = Met(tree, Root) /\ Failing(tree, Root)' = Failing(tree, Root)
            <4>1. DOMAIN tree \subseteq Seq(STRING)
                BY FormedTrees
            <4>2. \A t : DOMAIN t \subseteq Seq(STRING) =>
                      Met(t, Root)' = Met(t, Root) /\ Failing(t, Root)' = Failing(t, Root)
                <5>1. \A r \in Seq(STRING) : \A t : DOMAIN t \subseteq Seq(STRING) =>
                          Met(t, r)' = Met(t, r) /\ Failing(t, r)' = Failing(t, r)
                    BY <1>0, SameLevels
                <5> QED BY <2>6, <2>7, <5>1
            <4> QED BY <2>2, <4>1, <4>2
        <3>2. Legible(tree, q)' = Legible(tree, q)
            BY <1>0, <2>2, SameWalk
        <3>3. sources'[Source'].path = Root
            BY <2>2, <2>6, <2>7
        <3> DEFINE root == sources[Source].path
        <3>4. root' = Root /\ root = Root
            BY <2>6, <3>3
        <3> QED BY <1>0, <2>2, <2>4, <2>6, <2>7, <3>1, <3>2, <3>3 DEF Handled
    <2>11. \A p \in Reached(tree, Root)' : Covered(p)' \/ Handled(Source, p)'
        <3>1. Reached(tree, Root)' \subseteq Reached(tree, Root)
            BY <2>6, <2>7, ReachedNext
        <3> SUFFICES ASSUME NEW p \in Reached(tree, Root) PROVE Covered(p)' \/ Handled(Source, p)'
            BY <3>1
        <3>2. CASE Handled(Source, p)
            BY <2>6, <2>7, <3>2, HandledKept
        <3>3. CASE Covered(p)
            <4>1. PICK x \in Open(walk) : IsPrefix(x, p)
                BY <3>3 DEF Covered
            <4>2. CASE x # q
                <5>1. x \in Open(walk')
                    BY <2>5, <4>2
                <5> QED BY <4>1, <5>1 DEF Covered
            <4>3. CASE x = q /\ q = p
                BY <2>10, <4>3
            <4>4. CASE x = q /\ q # p
                <5>1. IsPrefix(Root, q)
                    BY <2>1 DEF Below
                <5>2. ReadsIn(tree, Root, q) /\ \E c \in Listing(tree, q) : IsPrefix(c, p)
                    BY <2>5, <2>6, <4>1, <4>4, <5>1, FormedTrees, ReachedUp
                <5>3. \E c \in Open(walk') : IsPrefix(c, p)
                    BY <2>5, <5>2 DEF Reads
                <5> QED BY <5>3 DEF Covered
            <4> QED BY <4>2, <4>3, <4>4
        <3> QED BY <2>6, <3>2, <3>3
    <2> QED BY <1>0, <1>1, <2>2, <2>6, <2>7, <2>9, <2>11 DEF WalkNow
<1>5. CASE AddSource
    <2> DEFINE g == Given[next]
               d == IsInput(g) \/ IsDir(tree, g.path)
               s == SourceOf(g, d)
    <2>1. /\ next \in DOMAIN Given /\ tree' = tree
          /\ Admitted(g) /\ sources' = Added(s) /\ next' = next /\ walk' = <<{g.path}>>
        BY <1>5, AddedIs DEF Halt, Go
    <2>2. d \in BOOLEAN
        BY DEF IsInput, IsDir
    <2> HIDE DEF d
    <2>3. \E i \in DOMAIN sources' : sources'[i].no = g.no /\ sources'[i].path = g.path
        <3>1. s.no = g.no /\ s.path = g.path
            BY DEF SourceOf
        <3>2. \E i \in DOMAIN sources' : sources'[i].no = s.no /\ sources'[i].path = s.path
            BY <2>1, <2>2, AddedKeeps
        <3> QED BY <3>1, <3>2
    <2>4. g.path \in Seq(STRING) /\ g' = g /\ Root' = g.path
        BY <1>0, <2>1, GivenFacts DEF Formed, Root
    <2>5. Open(walk') = {g.path}
        <3>1. DOMAIN <<{g.path}>> = {1} /\ <<{g.path}>>[1] = {g.path}
            OBVIOUS
        <3> QED BY <2>1, <3>1 DEF Open
    <2> HIDE DEF g
    <2>6. Below(g.path, g.path)
        BY <2>4, RootBelow
    <2>7. \A q \in Open(walk)' : Below(Root, q)'
        BY <1>2, <2>4, <2>5, <2>6
    <2>8. \A p \in Reached(tree, Root)' : Covered(p)'
        <3>1. \A r \in Seq(STRING) : Reached(tree, r)' \subseteq Reached(tree, r)
            BY ReachedNext
        <3>2. Reached(tree, Root)' \subseteq Reached(tree, g.path)
            BY <2>4, <3>1
        <3>3. \A p \in Reached(tree, g.path) : IsPrefix(g.path, p)
            BY <2>4, FormedTrees, ReachedOf
        <3> QED BY <2>5, <3>2, <3>3 DEF Covered
    <2>9. Given'[next'] = g
        BY <1>0, <2>1 DEF g
    <2> QED BY <1>0, <1>1, <2>1, <2>3, <2>4, <2>7, <2>8, <2>9 DEF WalkNow
<1>6. \/ step = "walk" /\ next' = next /\ sources' = sources /\ walk' = walk
      \/ Entry \/ AddSource
    BY ActionCases DEF Configure, Enter, EndSource, AllMet, Stop, Resume, Vanish, inventoryVars, tables, Halt, Go
<1> QED BY <1>3, <1>4, <1>5, <1>6

LEMMA EndServes ==
    ASSUME Formed, Walking, step = "walk", walk = <<>>
    PROVE  Served(Given[next])
<1>1. \A p \in Reached(tree, Root) : Covered(p) \/ Handled(Source, p)
    BY WalkingParts DEF WalkNow
<1>2. Open(walk) = {}
    <2>1. DOMAIN walk = {}
        OBVIOUS
    <2> QED BY <2>1 DEF Open
<1>3. \A p \in Reached(tree, Root) : Handled(Source, p)
    BY <1>1, <1>2 DEF Covered
<1> QED BY <1>3, SourceFacts DEF Served, Root

LEMMA WalkPlaceStep ==
    ASSUME Formed, Recorded, Walking, [InventoryNext]_inventoryVars
    PROVE  WalkPlace' /\ WalkPast'
<1>0. world' = world /\ Given' = Given /\ WalkNow /\ WalkPlace /\ WalkPast
    BY FormedTreeStep, SameWalk, WalkingParts
<1>a. DOMAIN Given = 1 .. Len(Given) /\ Len(Given) \in Nat /\ next \in Nat
    BY InputsGiven DEF Formed
<1>1. ASSUME NEW k \in DOMAIN Given, Served(Given[k])
      PROVE  Served(Given[k])'
    <2>1. \A g : g.path \in Seq(STRING) /\ Served(g) => Served(g)'
        BY ServedKept
    <2>2. Given[k].path \in Seq(STRING)
        BY GivenFacts DEF Formed
    <2> QED BY <1>0, <1>1, <2>1, <2>2
<1>2. CASE step' \notin {"source", "walk"}
    BY <1>2 DEF WalkPlace, WalkPast
<1>3. CASE step \in {"source", "walk"} /\ next' = next /\ step' = step
    <2>1. next - 1 \in 0 .. Len(Given)
        <3>1. step = "walk" => next \in DOMAIN Given
            BY <1>0 DEF WalkNow
        <3>2. step = "source" => next \in 1 .. Len(Given) + 1
            BY <1>0 DEF WalkPlace
        <3> QED BY <1>3, <1>a, <3>1, <3>2
    <2>2. \A k \in 1 .. next - 1 : k \in DOMAIN Given /\ Served(Given[k])
        BY <1>0, <1>3, <1>a, <2>1 DEF WalkPast
    <2>3. \A k \in 1 .. next - 1 : Served(Given[k])'
        BY <1>1, <2>2
    <2>4. WalkPlace'
        BY <1>0, <1>3 DEF WalkPlace
    <2>5. WalkPast'
        BY <1>0, <1>3, <2>3 DEF WalkPast
    <2> QED BY <2>4, <2>5
<1>4. CASE step = "source" /\ step' = "walk" /\ next' = next
    <2>1. next \in 1 .. Len(Given) + 1
        BY <1>0, <1>4 DEF WalkPlace
    <2>2. \A k \in 1 .. next - 1 : k \in DOMAIN Given /\ Served(Given[k])
        BY <1>0, <1>4, <1>a, <2>1 DEF WalkPast
    <2>3. \A k \in 1 .. next - 1 : Served(Given[k])'
        BY <1>1, <2>2
    <2>4. WalkPlace'
        BY <1>4 DEF WalkPlace
    <2>5. WalkPast'
        BY <1>0, <1>4, <2>3 DEF WalkPast
    <2> QED BY <2>4, <2>5
<1>5. CASE /\ step \in {"source", "walk"} /\ step' = "source" /\ next' = next + 1
           /\ next \in DOMAIN Given /\ Served(Given[next])
    <2>1. \A k \in 1 .. next' - 1 : k \in DOMAIN Given /\ (k \in 1 .. next - 1 \/ k = next)
        BY <1>5, <1>a
    <2>2. \A k \in 1 .. next - 1 : Served(Given[k])
        BY <1>0, <1>5 DEF WalkPast
    <2>3. \A k \in 1 .. next' - 1 : Served(Given[k])'
        BY <1>1, <1>5, <2>1, <2>2
    <2>4. WalkPlace'
        BY <1>0, <1>5, <1>a DEF WalkPlace
    <2>5. WalkPast'
        BY <1>0, <2>3 DEF WalkPast
    <2> QED BY <2>4, <2>5
<1>6. CASE step' = "source" /\ next' = 1
    <2>1. WalkPlace'
        BY <1>0, <1>6, <1>a DEF WalkPlace
    <2>2. \A k \in 1 .. next' - 1 : FALSE
        BY <1>6
    <2>3. WalkPast'
        BY <2>2 DEF WalkPast
    <2> QED BY <2>1, <2>3
<1>7. CASE AddSource
    <2>1. step = "source" /\ next \in DOMAIN Given
        BY <1>7, AddedIs DEF AddSource
    <2>2. ~Admitted(Given[next]) => Served(Given[next])
        BY DEF Served
    <2>3. \/ step' = "ended"
          \/ ~Admitted(Given[next]) /\ step' = "source" /\ next' = next + 1
          \/ step' = "walk" /\ next' = next
        BY <1>7, AddedIs DEF Halt, Go
    <2> QED BY <1>2, <1>4, <1>5, <2>1, <2>2, <2>3
<1>8. CASE Entry
    <2>1. PICK p : EntryDoes(p)
        BY <1>8, EntryIs
    <2>2. step = "walk" /\ next' = next /\ (Halt("failed") \/ WalkOn(p))
        BY <2>1 DEF EntryDoes
    <2>3. step' = "ended" \/ step' = "walk"
        BY <2>2 DEF Halt, WalkOn, Go
    <2> QED BY <1>2, <1>3, <2>2, <2>3
<1>9. CASE EndSource
    <2>1. step = "walk" /\ walk = <<>> /\ step' = "source" /\ next' = next + 1
        BY <1>9 DEF EndSource, Go
    <2>2. next \in DOMAIN Given /\ Served(Given[next])
        BY <1>0, <2>1, EndServes DEF WalkNow
    <2> QED BY <1>5, <2>1, <2>2
<1>10. CASE Configure
    <2>1. step' \notin {"source", "walk"}
        BY <1>10 DEF Configure, Halt, Go
    <2> QED BY <1>2, <2>1
<1>11. CASE Enter
    <2>1. step' = "ended" \/ (step' = "source" /\ next' = 1)
        BY <1>11 DEF Enter, Halt, Go
    <2> QED BY <1>2, <1>6, <2>1
<1>12. CASE AllMet \/ Stop \/ Resume
    <2>1. step' \notin {"source", "walk"}
        BY <1>12 DEF AllMet, Stop, Resume, Halt
    <2> QED BY <1>2, <2>1
<1>13. CASE UNCHANGED inventoryVars \/ Vanish
    <2>1. step' = step /\ next' = next
        BY <1>13 DEF inventoryVars, Vanish
    <2> QED BY <1>2, <1>3, <2>1
<1> QED BY <1>7, <1>8, <1>9, <1>10, <1>11, <1>12, <1>13, ActionCases

LEMMA WalkDoneStep ==
    ASSUME Formed, Recorded, Walking, [InventoryNext]_inventoryVars
    PROVE  WalkDone'
<1> SUFFICES ASSUME outcome' = "done" PROVE WalkDone'
    BY DEF WalkDone
<1>0. world' = world /\ Given' = Given /\ WalkPlace /\ WalkPast /\ WalkDone
    BY FormedTreeStep, SameWalk, WalkingParts
<1>1. "done" # Nothing /\ (outcome = Nothing) = (step # "ended")
    BY SourcesAssumption DEF Formed, Outcomes
<1>2. outcome = "done" \/ AllMet
    <2>1. CASE Entry
        <3>1. PICK p : EntryDoes(p)
            BY <2>1, EntryIs
        <3>2. step = "walk" /\ (Halt("failed") \/ WalkOn(p))
            BY <3>1 DEF EntryDoes
        <3> QED BY <1>1, <3>2 DEF Halt, WalkOn, Go
    <2>2. CASE AddSource
        BY <1>1, <2>2, AddedIs DEF Halt, Go
    <2> QED BY <1>1, <2>1, <2>2, ActionCases DEF Configure, Enter, EndSource, Stop, Resume, Vanish, inventoryVars, Halt, Go
<1>3. \A k \in DOMAIN Given : Served(Given[k])
    <2>1. CASE outcome = "done"
        BY <1>0, <2>1 DEF WalkDone
    <2>2. CASE AllMet
        <3>1. step = "source" /\ next > Len(Given)
            BY <2>2 DEF AllMet
        <3>2. next \in 1 .. Len(Given) + 1
            BY <1>0, <3>1 DEF WalkPlace
        <3>3. DOMAIN Given = 1 .. Len(Given) /\ Len(Given) \in Nat
            BY InputsGiven
        <3>4. \A k \in DOMAIN Given : k \in 1 .. next - 1
            BY <3>1, <3>2, <3>3
        <3> QED BY <1>0, <3>1, <3>4 DEF WalkPast
    <2> QED BY <1>2, <2>1, <2>2
<1>4. \A k \in DOMAIN Given : Served(Given[k])'
    <2>1. \A k \in DOMAIN Given : Given[k].path \in Seq(STRING)
        BY GivenFacts DEF Formed
    <2>2. \A g : g.path \in Seq(STRING) /\ Served(g) => Served(g)'
        BY ServedKept
    <2> QED BY <1>0, <1>3, <2>1, <2>2
<1> QED BY <1>0, <1>4 DEF WalkDone

LEMMA WalkingStep ==
    ASSUME Formed, Recorded, Walking, [InventoryNext]_inventoryVars
    PROVE  Walking'
BY WalkNowStep, WalkPlaceStep, WalkDoneStep, WalkingPartsNext

LEMMA FormedStep ==
    ASSUME Formed, Recorded, Walking, [InventoryNext]_inventoryVars
    PROVE  Formed'
<1>1. FormedTables' /\ FormedRun' /\ FormedTree'
    BY FormedTablesStep, FormedRunStep, FormedTreeStep
<1>2. FormedTables' /\ FormedRun' /\ FormedTree' => Formed'
    BY DEF Formed, FormedTables, FormedRun, FormedTree, Row
<1> QED BY <1>1, <1>2

-----------------------------------------------------------------------------
(* The inventory: theorems.                                                *)

LEMMA InventoryBegins ==
    ASSUME InventoryInit
    PROVE  InventoryInv
<1>0. /\ world \in Worlds /\ tree = world.tree
      /\ sources = <<>> /\ rows = <<>> /\ refs = {} /\ errors = {}
      /\ step = "config" /\ next = 0 /\ walk = <<>> /\ outcome = Nothing
      /\ attempts = 1
    BY DEF InventoryInit
<1>1. Formed
    <2>1. FormedTables
        BY <1>0 DEF FormedTables, Listed
    <2>2. FormedRun
        BY <1>0, SourcesAssumption DEF FormedRun
    <2>3. tree = [p \in DOMAIN tree |-> world.tree[p]]
        <3>1. world.tree \in [DOMAIN world.tree -> Nodes]
            BY <1>0, SourcesAssumption
        <3> QED BY <1>0, <3>1
    <2>4. FormedTree
        BY <1>0, <2>3, SourcesAssumption DEF FormedTree
    <2> QED BY <2>1, <2>2, <2>4, FormedParts
<1>2. DOMAIN sources = {} /\ Listed = {} /\ Nothing # "refused" /\ Nothing # "done"
    BY <1>0, SourcesAssumption DEF Listed, Outcomes
<1>3. Recorded
    BY <1>0, <1>2, RecordedParts DEF RecordedRows, RecordedRefs, RecordedErrors
<1>4. Separate
    BY <1>0, <1>2, SeparateParts DEF SepDirs, SepKeys, SepInputs, SepEmpty, SepApart
<1>5. Walking
    BY <1>0, <1>2, WalkingParts DEF WalkNow, WalkPlace, WalkPast, WalkDone
<1> QED BY <1>1, <1>3, <1>4, <1>5 DEF InventoryInv

LEMMA InventoryGoesOn ==
    ASSUME InventoryInv, [InventoryNext]_inventoryVars
    PROVE  InventoryInv'
BY FormedStep, RecordedStep, SeparateStep, WalkingStep DEF InventoryInv

\* The invariant of the inventory over several sources.
THEOREM InventoryInvariance == InventorySpec => []InventoryInv
<1>1. InventoryInit => InventoryInv
    BY InventoryBegins
<1>2. InventoryInv /\ [InventoryNext]_inventoryVars => InventoryInv'
    BY InventoryGoesOn
<1> QED BY <1>1, <1>2, PTL DEF InventorySpec

\* The tables hold what their columns say, whatever has been met.
THEOREM InventoryTypeCorrect == InventorySpec => []InventoryTypeOK
<1>1. ASSUME InventoryInv
      PROVE  InventoryTypeOK
    <2>1. Formed /\ Recorded
        BY <1>1 DEF InventoryInv
    <2>2. ASSUME NEW p \in Listed
          PROVE  rows[p] \in Kinds
        <3>1. Lstat(world.tree, p) # Nothing /\ rows[p] = Lstat(world.tree, p).kind /\ \E r \in refs : r[2] = p
            BY <2>1, RecordedParts DEF RecordedRows
        <3>2. p \in Seq(STRING)
            BY <2>1, <3>1, RefsTyped
        <3>3. Lstat(world.tree, p) \in Nodes
            BY <2>1, <3>1, <3>2, FormedTrees, LstatWithin
        <3> QED BY <3>1, <3>3 DEF Nodes
    <2>3. refs \subseteq (DOMAIN sources) \X Listed
        BY <2>1, RefsTyped, RecordedParts DEF RecordedRefs
    <2>4. \A e \in errors : e[1] \in DOMAIN sources
        BY <2>1, RefsTyped
    <2>5. /\ world \in Worlds /\ DOMAIN tree \subseteq DOMAIN world.tree /\ outcome \in {Nothing} \cup Outcomes
          /\ \A i \in DOMAIN sources : \E g \in ToSet(Given) : sources[i].no = g.no
        BY <2>1 DEF Formed
    <2> QED BY <2>2, <2>3, <2>4, <2>5 DEF InventoryTypeOK
<1> QED BY <1>1, InventoryInvariance, PTL

\* Under strict separation no name has references of two directories, but for a
\* root that --no-recursion meets as a name in another (find_overlapping_source).
THEOREM TreesAreSeparate == InventorySpec => []SeparateTrees
<1>1. ASSUME InventoryInv
      PROVE  SeparateTrees
    <2>1. Formed /\ Recorded /\ Separate
        BY <1>1 DEF InventoryInv
    <2> SUFFICES ASSUME ~Opt("noStrictSeparation"), NEW r \in refs, NEW s \in refs,
                        r[1] # s[1], r[2] = s[2], sources[r[1]].dir, sources[s[1]].dir
                 PROVE  Opt("noRecursion") /\ r[2] \in {sources[r[1]].path, sources[s[1]].path}
        BY DEF SeparateTrees
    <2> DEFINE a == sources[r[1]].path
               b == sources[s[1]].path
               p == r[2]
    <2>2. /\ r[1] \in DOMAIN sources /\ s[1] \in DOMAIN sources
          /\ a \in Seq(STRING) /\ b \in Seq(STRING) /\ p \in Seq(STRING)
        BY <2>1, RefsTyped, PathsTyped
    <2>3. Below(a, p) /\ Below(b, p)
        BY <2>1, RecordedParts DEF RecordedRefs
    <2>4. ~Overlap(a, b)
        <3>1. step # "config" /\ outcome # "refused"
            <4>1. sources # <<>>
                BY <2>2
            <4> QED BY <2>1, <4>1, SeparateParts DEF SepEmpty
        <3>2. SourcesApart
            BY <2>1, <3>1, SeparateParts DEF SepApart
        <3> QED BY <2>2, <3>2 DEF SourcesApart
    <2> HIDE DEF a, b, p
    <2>5. IsPrefix(a, p) /\ IsPrefix(b, p)
        BY <2>3 DEF Below
    <2>6. Opt("noRecursion")
        BY <2>2, <2>4, <2>5, PrefixesMeet DEF Overlap
    <2>7. a # b /\ Len(p) <= Len(a) + 1 /\ Len(p) <= Len(b) + 1
        BY <2>3, <2>4, <2>6 DEF Overlap, Below
    <2>8. ASSUME p # a, p # b
          PROVE  FALSE
        <3>1. ASSUME NEW x \in Seq(STRING), IsPrefix(x, p), p # x, Len(p) <= Len(x) + 1
              PROVE  Len(x) = Len(p) - 1
            <4>1. Len(x) \in 0 .. Len(p) /\ x = SubSeq(p, 1, Len(x))
                BY <2>2, <3>1, PrefixOf
            <4>2. Len(x) # Len(p)
                <5>1. SubSeq(p, 1, Len(p)) = p
                    BY <2>2, SubSeqFull
                <5> QED BY <3>1, <4>1, <5>1
            <4>3. Len(p) \in Nat /\ Len(x) \in Nat
                BY <2>2, LenProperties
            <4> QED BY <3>1, <4>1, <4>2, <4>3
        <3>2. Len(a) = Len(b)
            BY <2>2, <2>5, <2>7, <2>8, <3>1
        <3> QED BY <2>2, <2>5, <2>7, <3>2, PrefixesMeet
    <2>9. p \in {a, b}
        BY <2>8
    <2> QED BY <2>6, <2>9 DEF a, b, p
<1> QED BY <1>1, InventoryInvariance, PTL

\* A name behind a link is in the table only for --dereference, or for a link or
\* a name behind it that was given.
THEOREM LinksHaveCause == InventorySpec => []BelowLinkHasCause
<1>1. ASSUME InventoryInv
      PROVE  BelowLinkHasCause
    <2>1. Formed /\ Recorded
        BY <1>1 DEF InventoryInv
    <2> SUFFICES ASSUME NEW p \in Listed \ {<<>>}, Front(p) \in Listed, rows[Front(p)] = "link",
                        ~Opt("dereference"), ~ \E i \in DOMAIN sources : sources[i].path \in {p, Front(p)}
                 PROVE  FALSE
        BY DEF BelowLinkHasCause
    <2>2. PICK r \in refs : r[2] = p
        BY <2>1, RecordedParts DEF RecordedRows
    <2>3. r[1] \in DOMAIN sources /\ Below(sources[r[1]].path, p)
        BY <2>1, <2>2, RefsTyped, RecordedParts DEF RecordedRefs
    <2>4. p # sources[r[1]].path /\ Front(p) # sources[r[1]].path
        BY <2>3
    <2>5. Lstat(world.tree, Front(p)).kind = "dir"
        BY <2>3, <2>4 DEF Below
    <2>6. rows[Front(p)] = Lstat(world.tree, Front(p)).kind
        BY <2>1, RecordedParts DEF RecordedRows
    <2> QED BY <2>5, <2>6
<1> QED BY <1>1, InventoryInvariance, PTL

\* A run that ends well has met every name that stood there throughout and none
\* that never did, to any depth, and the errors tell of the others.
THEOREM InventoryIsExhaustive == InventorySpec => []Exhaustive
<1>1. ASSUME InventoryInv
      PROVE  Exhaustive
    <2>1. Formed /\ Recorded /\ Walking
        BY <1>1 DEF InventoryInv
    <2> SUFFICES ASSUME outcome = "done", NEW g \in ToSet(Given), Opt("relaxUtf8") \/ Decodable(g.path)
                 PROVE  \E i \in DOMAIN sources :
                            LET of(table) == {p \in {r[2] : r \in {r \in table : r[1] = i}} : Near(g.path, p)}
                            IN  /\ sources[i].no = g.no /\ sources[i].path = g.path
                                /\ {p \in Met(tree, g.path) : Legible(tree, p)} \subseteq of(refs)
                                /\ of(refs) \subseteq Met(world.tree, g.path)
                                /\ tree = world.tree => of(errors) = Failing(tree, g.path)
        BY DEF Exhaustive
    <2>2. PICK k \in DOMAIN Given : g = Given[k]
        BY <2>1, GivenFacts DEF Formed
    <2>3. Served(g) /\ Admitted(g) /\ g.path \in Seq(STRING)
        BY <2>1, <2>2, WalkingParts, GivenFacts DEF WalkDone, Admitted, Formed
    <2>4. PICK i \in DOMAIN sources :
              /\ sources[i].no = g.no /\ sources[i].path = g.path
              /\ \A p \in Reached(tree, g.path) : Handled(i, p)
        BY <2>3 DEF Served
    <2> DEFINE root == g.path
               of(table) == {p \in {r[2] : r \in {r \in table : r[1] = i}} : Near(root, p)}
    <2>5. /\ Trees(tree, tree) /\ Trees(world.tree, world.tree)
        BY <2>1, FormedTrees
    <2>6. \A p \in Reached(tree, root) :
              /\ Near(root, p)
              /\ p \in Met(tree, root) /\ Legible(tree, p) => <<i, p>> \in refs
              /\ tree = world.tree /\ p \in Failing(tree, root) => <<i, p>> \in errors
        BY <2>3, <2>4, <2>5, ReachedOf DEF Handled
    <2>7. {p \in Met(tree, root) : Legible(tree, p)} \subseteq of(refs)
        <3> SUFFICES ASSUME NEW p \in Met(tree, root), Legible(tree, p) PROVE p \in of(refs)
            OBVIOUS
        <3>1. p \in Reached(tree, root)
            BY DEF Met
        <3>2. <<i, p>> \in refs /\ Near(root, p)
            BY <2>6, <3>1
        <3>3. <<i, p>>[1] = i /\ <<i, p>>[2] = p
            OBVIOUS
        <3> QED BY <3>2, <3>3
    <2>8. of(refs) \subseteq Met(world.tree, root)
        <3> SUFFICES ASSUME NEW r \in refs, r[1] = i, Near(root, r[2]) PROVE r[2] \in Met(world.tree, root)
            OBVIOUS
        <3>1. r[2] \in Listed /\ Below(root, r[2]) /\ ~WalkFails(world.tree, root, r[2])
            BY <2>1, <2>4, RecordedParts DEF RecordedRefs
        <3>2. Lstat(world.tree, r[2]) # Nothing
            BY <2>1, <3>1, RecordedParts DEF RecordedRows
        <3>3. r[2] \in Reached(world.tree, root)
            BY <3>1 DEF Below
        <3> QED BY <3>1, <3>2, <3>3 DEF Met
    <2>9. ASSUME tree = world.tree
          PROVE  of(errors) = Failing(tree, root)
        <3>1. ASSUME NEW p \in Failing(tree, root)
              PROVE  p \in of(errors)
            <4>1. p \in Reached(tree, root)
                BY DEF Failing
            <4>2. <<i, p>> \in errors /\ Near(root, p)
                BY <2>6, <2>9, <4>1
            <4>3. <<i, p>>[1] = i /\ <<i, p>>[2] = p
                OBVIOUS
            <4> QED BY <4>2, <4>3
        <3>2. ASSUME NEW e \in errors, e[1] = i, Near(root, e[2])
              PROVE  e[2] \in Failing(tree, root)
            <4>1. Below(root, e[2]) /\ Unread(tree, root, e[2])
                BY <2>1, <2>4, <2>9, <3>2, RecordedParts DEF RecordedErrors
            <4>2. e[2] \in Reached(tree, root)
                BY <2>9, <3>2, <4>1 DEF Below
            <4> QED BY <4>1, <4>2 DEF Failing, Unread
        <3> QED BY <3>1, <3>2
    <2> QED BY <2>4, <2>7, <2>8, <2>9
<1> QED BY <1>1, InventoryInvariance, PTL

=============================================================================
