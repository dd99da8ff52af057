---------------------------- MODULE SendReceive ----------------------------
(***************************************************************************)
(* The loop under hash, sparsify, dedup, rehash and placement              *)
(* (send_receive_loop of common.rs): one thread feeds a bounded channel of *)
(* work, drains a bounded channel of outcomes and commits them in chunks;  *)
(* worker threads take an item, work on it, answer, and put a marker into  *)
(* the channel of outcomes when they leave.  Nothing is shared but the two *)
(* channels, the shutdown flag, and what the driver can ask of a thread    *)
(* handle: whether the thread has ended.                                   *)
(*                                                                         *)
(* The phase's tick always goes on here; Dedup has the one that does not.  *)
(***************************************************************************)
EXTENDS Integers, FiniteSets

CONSTANTS
    Tasks,           \* work of the phase, each item pulled once
    Workers,         \* worker threads
    None,            \* a worker has no item
    WorkCapacity,    \* ProcessConfig.work_capacity
    OutCapacity,     \* ProcessConfig.out_capacity
    FeedChunk,       \* ProcessConfig.feed_chunk: rows per pull
    DrainChunk,      \* ProcessConfig.drain_chunk: outcomes per transaction
    ApplyOnPartial,  \* dedup commits whatever a drain has found
    MaxPanics,       \* bound on the workers that panic
    StatementsFail   \* a pull or a commit may return an error

ASSUME SendReceiveAssumption ==
    /\ IsFiniteSet(Tasks) /\ IsFiniteSet(Workers)
    /\ None \notin Tasks
    /\ WorkCapacity \in Nat \ {0} /\ OutCapacity \in Nat \ {0}
    /\ FeedChunk \in Nat \ {0} /\ DrainChunk \in Nat \ {0}
    /\ ApplyOnPartial \in BOOLEAN /\ StatementsFail \in BOOLEAN
    /\ MaxPanics \in Nat

VARIABLES
    unpulled,  \* rows that the phase's cursor has not passed
    feed,      \* feed_buf[feed_idx..]
    work,      \* channel of work
    hand,      \* item a worker holds
    thread,    \* state of each worker thread
    out,       \* outcomes in the channel of outcomes
    markers,   \* exit markers in it
    pendingOut, \* pending_out
    commits,   \* how often each item was committed
    fed,       \* feed_total
    dequeued,  \* dequeue_total
    exited,    \* exited_workers
    exhausted, \* feed_exhausted
    feedClosed, \* the driver has dropped its end of the work channel
    stage,     \* which of the loops the driver is in
    at,        \* where in it
    stop       \* Shutdown mode

items == <<unpulled, feed, work, hand, out, pendingOut, commits>>
counts == <<fed, dequeued, exited, exhausted, feedClosed>>
loopVars == <<items, counts, thread, markers, stage, at, stop>>

LoopTypeOK ==
    /\ unpulled \subseteq Tasks /\ feed \subseteq Tasks /\ work \subseteq Tasks
    /\ hand \in [Workers -> Tasks \cup {None}]
    /\ thread \in [Workers -> {"idle", "busy", "leaving", "marked", "ended", "panicked"}]
    /\ out \subseteq Tasks /\ pendingOut \subseteq Tasks /\ commits \in [Tasks -> Nat]
    /\ markers \in Nat /\ fed \in Nat /\ dequeued \in Nat /\ exited \in Nat
    /\ exhausted \in BOOLEAN /\ feedClosed \in BOOLEAN
    /\ stage \in {"feed", "wait", "join"}
    /\ at \in {"top", "drain", "pull", "send", "check", "join", "returned", "failed"}
    /\ stop \in {"running", "graceful", "force"}

LoopInit ==
    /\ unpulled = Tasks /\ feed = {} /\ work = {} /\ out = {} /\ pendingOut = {}
    /\ commits = [i \in Tasks |-> 0]
    /\ hand = [w \in Workers |-> None] /\ thread = [w \in Workers |-> "idle"]
    /\ markers = 0 /\ fed = 0 /\ dequeued = 0 /\ exited = 0
    /\ exhausted = FALSE /\ feedClosed = FALSE
    /\ stage = "feed" /\ at = "top" /\ stop = "running"

Applied == {i \in Tasks : commits[i] > 0}
Finished(w) == thread[w] \in {"ended", "panicked"}
Panicked == {w \in Workers : thread[w] = "panicked"}

\* at_least_one_running
Running == \E w \in Workers : ~Finished(w)

-----------------------------------------------------------------------------
(* The driver.                                                             *)

\* Mutant: the sender is kept until the threads are joined.
CloseFeedLater == UNCHANGED feedClosed /\ stage' = "wait" /\ at' = "check"

\* Phase 1 ends: drop(send).
CloseFeed == feedClosed' = TRUE /\ stage' = "wait" /\ at' = "check"

\* Mutant: no signal stops the feed.
TopDeaf ==
    /\ at = "top" /\ at' = "drain"
    /\ UNCHANGED <<items, counts, thread, markers, stage, stop>>

\* A signal stops the feed.
Top ==
    /\ at = "top"
    /\ IF stop # "running" THEN CloseFeed
       ELSE at' = "drain" /\ UNCHANGED <<feedClosed, stage>>
    /\ UNCHANGED <<items, fed, dequeued, exited, exhausted, thread, markers, stop>>

Full == Cardinality(pendingOut) >= DrainChunk

\* drain: one try_recv.
Receive ==
    /\ at = "drain" /\ ~Full
    /\ \/ /\ \E i \in out : out' = out \ {i} /\ pendingOut' = pendingOut \cup {i}
          /\ dequeued' = dequeued + 1 /\ UNCHANGED <<markers, exited>>
       \/ /\ markers > 0 /\ markers' = markers - 1 /\ exited' = exited + 1
          /\ UNCHANGED <<out, pendingOut, dequeued>>
    /\ UNCHANGED <<unpulled, feed, work, hand, commits, fed, exhausted, feedClosed, thread, stage,
                   at, stop>>

\* Mutant: the last drain commits full chunks only.
OverrideNever == stage = "feed" /\ ApplyOnPartial

\* drain_override
Override == stage = "join" \/ (stage = "feed" /\ ApplyOnPartial)

\* The end of drain: a full chunk is committed, and what there is where it is
\* overridden.
Drained ==
    /\ at = "drain" /\ (Full \/ (out = {} /\ markers = 0))
    /\ IF Full \/ Override
       THEN /\ commits' = [i \in Tasks |-> IF i \in pendingOut THEN commits[i] + 1 ELSE commits[i]]
            /\ pendingOut' = {}
       ELSE UNCHANGED <<commits, pendingOut>>
    /\ at' = IF stage = "feed" THEN "pull" ELSE "check"
    /\ UNCHANGED <<unpulled, feed, work, hand, out, counts, thread, markers, stage, stop>>

\* Mutant: the pull does not wait for the feed buffer to be used up.
PullOver ==
    /\ at = "pull" /\ at' = "send"
    /\ \E S \in SUBSET unpulled :
          /\ S = unpulled \/ Cardinality(S) = FeedChunk
          /\ Cardinality(S) <= FeedChunk
          /\ feed' = S /\ unpulled' = unpulled \ S
    /\ exhausted' = (unpulled = {})
    /\ UNCHANGED <<work, hand, out, pendingOut, commits, fed, dequeued, exited, feedClosed, thread,
                   markers, stage, stop>>

\* A pull when the feed buffer is used up; the phase's cursor never goes back.
Pull ==
    /\ at = "pull" /\ at' = "send"
    /\ IF feed = {}
       THEN /\ \E S \in SUBSET unpulled :
                  /\ S = unpulled \/ Cardinality(S) = FeedChunk
                  /\ Cardinality(S) <= FeedChunk
                  /\ feed' = S /\ unpulled' = unpulled \ S
            /\ exhausted' = (unpulled = {})
       ELSE UNCHANGED <<feed, unpulled, exhausted>>
    /\ UNCHANGED <<work, hand, out, pendingOut, commits, fed, dequeued, exited, feedClosed, thread,
                   markers, stage, stop>>

\* try_send finds room, and a receiver that is left.
CanSend == feed # {} /\ Cardinality(work) < WorkCapacity /\ Running

\* Mutant: the index into the feed buffer stays where it is.
SendAgain ==
    /\ at = "send" /\ CanSend
    /\ \E i \in feed \ work : work' = work \cup {i}
    /\ fed' = fed + 1
    /\ UNCHANGED <<unpulled, feed, hand, out, pendingOut, commits, dequeued, exited, exhausted,
                   feedClosed, thread, markers, stage, at, stop>>

Send ==
    /\ at = "send" /\ CanSend
    /\ \E i \in feed : feed' = feed \ {i} /\ work' = work \cup {i}
    /\ fed' = fed + 1
    /\ UNCHANGED <<unpulled, hand, out, pendingOut, commits, dequeued, exited, exhausted,
                   feedClosed, thread, markers, stage, at, stop>>

SendEnd ==
    /\ at = "send" /\ ~CanSend /\ at' = "check"
    /\ UNCHANGED <<items, counts, thread, markers, stage, stop>>

\* Every row fed, and every row fed answered.
Answered == exhausted /\ feed = {} /\ dequeued = fed

\* The ends of the three loops.
Check ==
    /\ at = "check"
    /\ \/ /\ stage = "feed"
          /\ IF Answered \/ ~Running THEN CloseFeed
             ELSE at' = "top" /\ UNCHANGED <<feedClosed, stage>>
       \/ /\ stage = "wait"
          /\ at' = IF exited = Cardinality(Workers) \/ ~Running THEN "join" ELSE "drain"
          /\ UNCHANGED <<feedClosed, stage>>
       \/ /\ stage = "join"
          /\ at' = IF out = {} /\ markers = 0 THEN "returned" ELSE "drain"
          /\ UNCHANGED <<feedClosed, stage>>
    /\ UNCHANGED <<items, fed, dequeued, exited, exhausted, thread, markers, stop>>

\* join() on every handle, a panicked one included.
Join ==
    /\ at = "join" /\ ~Running
    /\ stage' = "join" /\ at' = "drain"
    /\ UNCHANGED <<items, counts, thread, markers, stop>>

\* The error of a statement leaves the loop at once.
Fail ==
    /\ StatementsFail
    /\ \/ at = "pull" /\ feed = {}
       \/ at = "drain" /\ (Full \/ Override)
    /\ at' = "failed"
    /\ UNCHANGED <<items, counts, thread, markers, stage, stop>>

-----------------------------------------------------------------------------
(* The workers.                                                            *)

Room == Cardinality(out) + markers < OutCapacity

\* recv; after a signal what it returns is dropped.
Take(w) ==
    /\ thread[w] = "idle"
    /\ \E i \in work :
          /\ work' = work \ {i}
          /\ IF stop # "running"
             THEN thread' = [thread EXCEPT ![w] = "leaving"] /\ UNCHANGED hand
             ELSE thread' = [thread EXCEPT ![w] = "busy"] /\ hand' = [hand EXCEPT ![w] = i]
    /\ UNCHANGED <<unpulled, feed, out, pendingOut, commits, counts, markers, stage,
                   at, stop>>

\* The channel of work is closed and empty.
Leave(w) ==
    /\ thread[w] = "idle" /\ feedClosed /\ work = {}
    /\ thread' = [thread EXCEPT ![w] = "leaving"]
    /\ UNCHANGED <<items, counts, markers, stage, at, stop>>

Answer(w) ==
    /\ thread[w] = "busy" /\ Room
    /\ out' = out \cup {hand[w]}
    /\ hand' = [hand EXCEPT ![w] = None] /\ thread' = [thread EXCEPT ![w] = "idle"]
    /\ UNCHANGED <<unpulled, feed, work, pendingOut, commits, counts, markers, stage,
                   at, stop>>

\* check_in_flight: some workers answer with the interruption, others leave.
Abort(w) ==
    /\ thread[w] = "busy" /\ stop = "force"
    /\ hand' = [hand EXCEPT ![w] = None] /\ thread' = [thread EXCEPT ![w] = "leaving"]
    /\ UNCHANGED <<unpulled, feed, work, out, pendingOut, commits, counts, markers, stage,
                   at, stop>>

\* The marker is the last thing that a worker sends.
Mark(w) ==
    /\ thread[w] = "leaving" /\ Room
    /\ markers' = markers + 1 /\ thread' = [thread EXCEPT ![w] = "marked"]
    /\ UNCHANGED <<items, counts, stage, at, stop>>

End(w) ==
    /\ thread[w] = "marked" /\ thread' = [thread EXCEPT ![w] = "ended"]
    /\ UNCHANGED <<items, counts, markers, stage, at, stop>>

\* A panic takes the item along.  When the driver has left with an error the
\* channel of outcomes is closed, and the expect after each send panics.
Panic(w) ==
    /\ \/ thread[w] = "busy" /\ Cardinality(Panicked) < MaxPanics
       \/ thread[w] \in {"busy", "leaving"} /\ at = "failed"
    /\ thread' = [thread EXCEPT ![w] = "panicked"] /\ hand' = [hand EXCEPT ![w] = None]
    /\ UNCHANGED <<unpulled, feed, work, out, pendingOut, commits, counts, markers, stage,
                   at, stop>>

Interrupt ==
    /\ \/ stop = "running" /\ stop' = "graceful"
       \/ stop = "graceful" /\ stop' = "force"
    /\ UNCHANGED <<items, counts, thread, markers, stage, at>>

Driver == Top \/ Receive \/ Drained \/ Pull \/ Send \/ SendEnd \/ Check \/ Join
Worker(w) == Take(w) \/ Leave(w) \/ Answer(w) \/ Abort(w) \/ Mark(w) \/ End(w)
LoopNext == Driver \/ Fail \/ Interrupt \/ \E w \in Workers : Worker(w) \/ Panic(w)

LoopSpec == LoopInit /\ [][LoopNext]_loopVars

\* Threads are scheduled, and work on an item comes to an end.
FairLoop == LoopSpec /\ WF_loopVars(Driver) /\ \A w \in Workers : WF_loopVars(Worker(w))

-----------------------------------------------------------------------------
(* What the loop promises.                                                 *)

Excused == stop # "running" \/ Panicked # {} \/ at = "failed"

\* common.rs:308-309: the loop leaves when every row fed and every handed-out
\* outcome is accounted for.  It says so of two counters; the property says it
\* of the items: when nobody has excused it, the loop returns with every item
\* committed, whatever the sizes of channels and chunks.
NothingLost == at = "returned" /\ ~Excused => Applied = Tasks

\* common.rs:209-213: no queued outcome is ever dropped, however the run was
\* stopped and whoever panicked; what is returned is the number committed.
AnswersCommitted ==
    at = "returned" =>
      /\ out = {} /\ pendingOut = {} /\ markers = 0
      /\ dequeued = Cardinality(Applied)

\* The loop implements WorkPool: what is committed is never committed again.
Pool == INSTANCE WorkPool WITH Items <- Tasks, commits <- commits, excused <- Excused,
                               over <- at = "returned"
KeepsPromise == Pool!Spec

Over == at \in {"returned", "failed"}

\* As long as no worker panics, the loop ends.
Returns == []<>(Over \/ Panicked # {})

\* A signal ends it even then.
StopReturns == stop # "running" ~> Over

\* common.rs:213: a panicked worker is not waited on.
PanicsNotAwaited == <>Over
-----------------------------------------------------------------------------
(* Why it does: the inductive invariant of the proofs.  The loop needs a   *)
(* worker; with none it returns at once, and commits nothing.              *)

\* An item is in one place, and was committed at most once.
OnePlace ==
    /\ unpulled \cap (feed \cup work \cup out \cup pendingOut \cup Applied) = {}
    /\ feed \cap (work \cup out \cup pendingOut \cup Applied) = {}
    /\ work \cap (out \cup pendingOut \cup Applied) = {}
    /\ out \cap (pendingOut \cup Applied) = {}
    /\ pendingOut \cap Applied = {}
    /\ \A w \in Workers : hand[w] \notin
            unpulled \cup feed \cup work \cup out \cup pendingOut \cup Applied
    /\ \A v, w \in Workers : hand[v] = hand[w] /\ hand[v] # None => v = w
    /\ \A i \in Tasks : commits[i] <= 1

\* Only a panic, an interruption and an error lose an item.
SomePlace ==
    ~Excused =>
      \A i \in Tasks : \/ i \in unpulled \cup feed \cup work \cup out \cup pendingOut \cup Applied
                       \/ \E w \in Workers : hand[w] = i

\* What the driver knows when it closes the channel of work.
Closing ==
    /\ feedClosed <=> stage # "feed"
    /\ at \in {"top", "pull", "send"} => stage = "feed"
    /\ at = "join" => stage = "wait"
    /\ exhausted => unpulled = {}
    /\ feedClosed /\ ~Excused => unpulled = {} /\ feed = {}
    /\ \A w \in Workers : hand[w] # None <=> thread[w] = "busy"
    /\ ~Excused => \A w \in Workers :
            thread[w] \in {"leaving", "marked", "ended"} => feedClosed /\ work = {}

\* After the threads are joined nobody answers any more.
Joined ==
    /\ stage = "join" => ~Running
    /\ stage = "join" /\ at = "check" => pendingOut = {}
    /\ at = "returned" => stage = "join" /\ out = {} /\ markers = 0 /\ pendingOut = {}
    /\ dequeued = Cardinality(pendingOut \cup Applied)

LoopInv == LoopTypeOK /\ OnePlace /\ SomePlace /\ Closing /\ Joined
=============================================================================
