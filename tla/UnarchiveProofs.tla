--------------------------- MODULE UnarchiveProofs ---------------------------
(***************************************************************************)
(* Proofs about Unarchive, for every archive, any number of crashes,       *)
(* reruns, signals and failing copies.  What the properties promise is     *)
(* promised without --force; under it only the types are left.             *)
(***************************************************************************)
EXTENDS Unarchive, FiniteSetTheorems, TLAPS

-----------------------------------------------------------------------------
(* The inductive invariant.                                                 *)

Installing == {"copy", "init", "patterns", "eager"}
Scanning == Installing \cup {"open", "load", "member", "payload", "copying", "flag",
                             "apply", "counted", "check", "gate", "scanned"}
Driving == Scanning \cup {"enter", "verify", "filter", "filtered", "rehash", "pool"} \cup Settled
Later == {"unarchived", "filtered", "rehashed"}
Applied == "filters_applied" \in meta

Typed ==
    /\ TypeOK
    /\ arc \in Archives
    /\ installed \in BOOLEAN /\ patterns \in BOOLEAN /\ first \in BOOLEAN /\ buffer \in BOOLEAN
    /\ window \in [ok: SUBSET Files, bad: SUBSET Files]
    /\ pc \in Driving /\ origin \in {"footer", "stream"}
    /\ phase \in {"ScanTar", "Filter", "Rehash", "PlacementPrologue"}
    /\ shutdown \in {"running", "graceful", "force"} /\ restarts \in Nat
    /\ out \subseteq Files \X {"match", "mismatch", "error"}
    /\ at \in Nat \ {0} /\ skip \in Nat

\* The driving thread is in a phase that the saved one allows.
Phases ==
    /\ pc \in Scanning => phase = "ScanTar"
    /\ pc \in {"filter", "filtered"} => phase = "Filter"
    /\ pc \in {"rehash", "pool"} => phase = "Rehash"
    /\ phase = "PlacementPrologue" => pc \in {"enter", "done", "interrupted"}

\* The pass is at the member behind the last one it knows as processed; what
\* is saved is behind neither.
AtMember ==
    \/ pc \in {"apply", "payload", "copying", "flag", "counted"}
    \/ pc \in Installing /\ origin = "stream"
Position ==
    /\ seen.last = IF at <= skip THEN skip ELSE at - 1
    /\ pc = "member" \/ AtMember => saved.last <= skip
    /\ AtMember => at > skip /\ at <= Len(arc.stream)
    /\ pc \in {"payload", "copying", "flag"} => here.kind = "payload"
    /\ pc = "apply" => here.kind = "snapshot"
    /\ pc = "counted" \/ (pc \in Installing /\ origin = "stream") =>
          here.kind \in {"manifest", "snapshot"}

\* Before a catalogue is installed nothing is taken from the stream: a state
\* that has seen a member or the trailer stands over an installed catalogue,
\* to which an eager run has applied its filter.
Ready == installed /\ (On("eager") => Applied)
Provided ==
    /\ seen.last # 0 \/ seen.footer => Ready
    /\ saved.last # 0 \/ saved.footer => Ready
    /\ pc \in {"payload", "copying", "flag", "apply"} => seen.last # 0
    /\ pc = "counted" \/ (pc = "load" /\ first /\ arc.footer) => Ready
    /\ pc \in Installing \cup {"open", "load"} \/ (pc = "enter" /\ phase = "ScanTar") =>
          seen.last = 0 /\ ~seen.footer
    /\ pc = "copy" /\ origin = "footer" => arc.footer /\ ~installed
    /\ pc \in {"init", "patterns", "eager"} =>
          installed /\ saved = NothingSeen /\ \A f \in Files : row[f] \in {"staged", "archived"}
    /\ ~installed => \A f \in Files : cache[f] = "none"
    /\ installed => \A f \in Files : row[f] # "none"
    /\ window = [ok |-> {}, bad |-> {}]
    /\ Applied => chosen = Selected
    /\ pc \in {"init", "patterns", "eager"} => ~Applied

\* A payload has been dealt with: it is extracted and whole, or the eager
\* filter passed over it.
PassedOver(f) == On("eager") /\ ~ShouldExtract(f)
Dealt(n) == \A f \in PayloadsOf(arc, n) : (f \in extracted /\ cache[f] = "full") \/ PassedOver(f)

Scanned == pc \in {"check", "gate", "scanned", "verify"} \/ phase # "ScanTar"
Progress ==
    /\ pc \in Scanning => Dealt(seen.last)
    /\ Dealt(saved.last)
    /\ pc = "copying" => cache[here.file] = "part"
    /\ pc = "flag" => cache[here.file] = "full"
    /\ Scanned => Ready /\ Dealt(Len(arc.stream))
    /\ \A f \in Files : f \in extracted \/ cache[f] # "none" => f \in InStream
    /\ On("eager") => \A f \in errored \ sessioned : cache[f] = "none" /\ f \notin extracted

\* A row is confirmed before it is archived, and has earned what it is later.
Earned ==
    /\ \A f \in Files : row[f] = "archived" => f \in Named(arc)
    /\ \A f \in Files : row[f] \in Later =>
          f \in Named(arc) /\ (f \in extracted \/ (On("eager") /\ f \notin chosen))
    /\ phase # "ScanTar" => \A f \in Files : row[f] \in Later /\ Owned(f)
    /\ phase \in {"Rehash", "PlacementPrologue"} => Applied
    /\ phase = "Filter" /\ pc \in {"filtered", "verify"} => Applied

\* The pool judges elected rows, whose payloads are whole, and a mismatch of
\* this process is not forgotten.
Judging ==
    /\ todo \cup busy \cup {o[1] : o \in out} \subseteq Elected
    /\ pc # "pool" => todo = {} /\ busy = {} /\ out = {}
    /\ \A o \in out : o[2] = Verdict(o[1])
    /\ verified \cap arc.corrupt = {} /\ unread = {}
    /\ restarts = 0 /\ mismatched # {} =>
          "mismatch" \in bad /\ phase = "Rehash" /\ pc \in {"pool", "failed", "interrupted"}

\* What reaches the placement has been judged.
AllJudged == phase = "PlacementPrologue" /\ On("rehash") => \A f \in Files : Judged(f)

Strict == Provided /\ Progress /\ Earned /\ Judging /\ AllJudged
IInv == Typed /\ Phases /\ Position /\ (~On("force") => Strict)

-----------------------------------------------------------------------------
(* The stream.                                                              *)

\* What an archive is made of.
LEMMA ArchiveTypes ==
    ASSUME NEW a \in Archives
    PROVE  /\ a.footer \in BOOLEAN /\ a.set \subseteq Setting
           /\ a.stored \subseteq Files /\ a.excused \subseteq Files /\ a.want \subseteq Files
           /\ Len(a.stream) \in Nat /\ DOMAIN a.stream = 1..Len(a.stream)
           /\ \A i \in 1..Len(a.stream) :
                 /\ a.stream[i] \in Member
                 /\ a.stream[i].kind = "payload" => a.stream[i].file \in Files
BY ScanAssumption DEF Archive

LEMMA PayloadsAreFiles ==
    ASSUME NEW a \in Archives, NEW n
    PROVE  PayloadsOf(a, n) \subseteq Files
BY ScanAssumption DEF PayloadsOf, Archive

LEMMA NoPayloadBefore == ASSUME NEW a \in Archives PROVE PayloadsOf(a, 0) = {}
BY ScanAssumption DEF PayloadsOf, Archive

\* A member adds itself to the payloads before it, if it is one.
LEMMA PayloadsUpToHere ==
    ASSUME NEW a \in Archives, NEW n \in 1..Len(a.stream)
    PROVE  \A f \in PayloadsOf(a, n) :
              f \in PayloadsOf(a, n - 1) \/ (a.stream[n].kind = "payload" /\ f = a.stream[n].file)
BY ScanAssumption DEF PayloadsOf, Archive

\* A payload is in the stream once.
LEMMA PayloadIsNew ==
    ASSUME NEW a \in Archives, NEW n \in 1..Len(a.stream), a.stream[n].kind = "payload"
    PROVE  /\ a.stream[n].file \in PayloadsOf(a, Len(a.stream))
           /\ \A m \in Nat : m < n => a.stream[n].file \notin PayloadsOf(a, m)
BY ScanAssumption DEF PayloadsOf, Archive

LEMMA AllPayloads ==
    ASSUME NEW a \in Archives, NEW n \in Nat, n >= Len(a.stream)
    PROVE  PayloadsOf(a, n) = PayloadsOf(a, Len(a.stream))
BY ScanAssumption DEF PayloadsOf, Archive

LEMMA SnapshotNames ==
    ASSUME NEW a \in Archives, NEW n \in 1..Len(a.stream), a.stream[n].kind = "snapshot"
    PROVE  a.stream[n].upto \subseteq Named(a)
BY ScanAssumption DEF NamedIn, Archive, Named

\* What the placement will take is whole.
LEMMA ElectedWhole ==
    ASSUME Typed, Progress, Earned, phase # "ScanTar"
    PROVE  \A f \in Elected : cache[f] = "full"
BY ArchiveTypes DEF Typed, TypeOK, Progress, Earned, Scanned, Dealt, PassedOver, ShouldExtract,
       Elected, Owned, InStream

\* The end of a member's turn.
LEMMA Turn ==
    ASSUME Typed, NEW state \in ScanState, Next1(state)
    PROVE  /\ seen' \in ScanState /\ seen'.last = at /\ seen'.footer = state.footer
           /\ at' = at + 1 /\ at' \in Nat \ {0} /\ pc' = "member"
BY DEF Typed, Next1, ScanState

-----------------------------------------------------------------------------
(* The invariant, action by action.                                         *)

\* One lemma per action: the types, the phases and the position hold of every run,
\* the five parts of Strict of a run without --force.
LEMMA OpenIInv == ASSUME IInv, Open PROVE IInv'
<1> USE DEF work, pass, pool, Open, On
<1>1. Typed'
    BY DEF IInv, Typed, TypeOK, Driving, Scanning, Installing, Settled
<1>2. Phases'
    BY DEF IInv, Phases, Scanning
<1>3. Position'
    BY DEF IInv, Position, AtMember
<1>4. (~On("force"))' => Strict'
  <2> SUFFICES ASSUME (~On("force"))' PROVE Strict'
      OBVIOUS
  <2>0. ~On("force") /\ Typed /\ Phases /\ Position /\ Strict
      BY DEF IInv
  <2>1. Provided'
      BY <2>0 DEF Strict, Provided, Ready, Applied, Selected
  <2>2. Progress'
      BY <2>0 DEF Strict, Progress, Ready, Applied, Dealt, PassedOver, ShouldExtract, Scanned,
         Scanning, InStream
  <2>3. Earned'
      BY <2>0 DEF Strict, Earned, Applied, Owned
  <2>4. Judging'
      BY <2>0 DEF Strict, Judging
  <2>5. AllJudged'
      BY <2>0 DEF AllJudged, Phases
  <2> QED BY <2>1, <2>2, <2>3, <2>4, <2>5 DEF Strict
<1> QED BY <1>1, <1>2, <1>3, <1>4 DEF IInv

\* The installation wipes what was extracted: nothing has been taken from the stream,
\* so that no saved or seen index speaks of it, and it names what it calls archived.
LEMMA CopyCatalogueIInv == ASSUME IInv, CopyCatalogue PROVE IInv'
<1> USE DEF work, pass, pool
<1>0. Typed
    BY DEF IInv
<1>a. /\ pc = "copy" /\ pc' = "init" /\ installed' = TRUE
      /\ row' \in [Files -> {"staged", "archived"}]
      /\ extracted' = {} /\ failed' = {} /\ verified' = {} /\ mismatched' = {}
      /\ unread' = {} /\ patterns' = FALSE /\ chosen' = {}
      /\ meta' = {"archive_phase", "archive_config"} /\ saved' = NothingSeen
      /\ UNCHANGED <<arc, phase, cache, pass, buffer, pool, shutdown, restarts>>
    BY DEF CopyCatalogue, Source
<1>c. origin = "stream" => here \in Member /\ here.kind \in {"manifest", "snapshot"}
    BY <1>a, ArchiveTypes DEF IInv, Position, AtMember, Installing, here, Typed
<1>d. sessioned' \subseteq Files /\ errored' \subseteq Files
    BY <1>0, <1>c, ArchiveTypes DEF CopyCatalogue, Source, Typed, here, Member
<1>e. \A f \in Files : row'[f] = "archived" => f \in sessioned' \cup errored'
    BY DEF CopyCatalogue, Source
<1>f. origin = "footer" => sessioned' \cup errored' \subseteq arc.stored \cup arc.excused
    BY DEF CopyCatalogue, Source
<1>g. origin = "stream" => /\ errored' = {}
                         /\ sessioned' \subseteq IF here.kind = "manifest" THEN {} ELSE here.upto
    BY DEF CopyCatalogue, Source, here
<1>1. Typed'
  <2>1. Typed
      BY DEF IInv
  <2>2. TypeOK'
      BY <2>1, <1>a, <1>d DEF Typed, TypeOK, ScanState, NothingSeen
  <2> QED BY <2>1, <2>2, <1>a, <1>d DEF Typed, Driving, Scanning, Installing
<1>2. Phases'
    BY <1>a DEF IInv, Phases, Scanning, Installing
<1>3. Position'
    BY <1>a DEF IInv, Typed, NothingSeen, Position, AtMember, Installing, here
<1>4. (~On("force"))' => Strict'
  <2> SUFFICES ASSUME (~On("force"))' PROVE Strict'
      OBVIOUS
  <2>0. ~On("force") /\ Typed /\ Phases /\ Position /\ Strict
      BY <1>a DEF IInv, On
  <2>a. sessioned' \cup errored' \subseteq Named(arc)
    <3>1. CASE origin = "footer"
        BY <2>0, <3>1, <1>a, <1>f DEF Strict, Provided, Named
    <3>2. CASE origin = "stream" /\ here.kind = "snapshot"
        BY <2>0, <3>2, <1>a, <1>g, SnapshotNames DEF Typed, Position, AtMember, Installing, here
    <3> QED BY <3>1, <3>2, <1>c, <1>g, <2>0 DEF Typed
  <2>b. errored' = {} \/ ~installed
      BY <2>0, <1>a, <1>g DEF Typed, Strict, Provided
  <2>c. seen.last = 0 /\ saved'.last = 0 /\ ~saved'.footer
      BY <2>0, <1>a DEF Strict, Provided, NothingSeen, Installing
  <2>d. \A f \in Files : row'[f] = "archived" => f \in Named(arc)
      BY <2>a, <1>e
  <2>1. Provided'
      BY <2>0, <1>a, <2>c DEF Strict, Provided, Applied, Installing
  <2>2. Progress'
      BY <2>0, <1>a, <1>d, <2>b, <2>c, NoPayloadBefore DEF Strict, Typed, Phases, Provided,
         Progress, Dealt, Scanned, Scanning, Installing, InStream
  <2>3. Earned'
      BY <1>2, <1>a, <2>d DEF Phases, Earned, Later, Scanning, Installing
  <2>4. Judging'
      BY <2>0, <1>a DEF Strict, Judging
  <2>5. AllJudged'
      BY <1>2, <1>a DEF AllJudged, Phases
  <2> QED BY <2>1, <2>2, <2>3, <2>4, <2>5 DEF Strict
<1> QED BY <1>1, <1>2, <1>3, <1>4 DEF IInv

LEMMA InitCatalogueIInv == ASSUME IInv, InitCatalogue PROVE IInv'
<1> USE DEF work, pass, pool, InitCatalogue
<1>1. Typed'
    BY DEF IInv, Typed, TypeOK, Driving, Scanning, Installing
<1>2. Phases'
    BY DEF IInv, Phases, Scanning, Installing
<1>3. Position'
    BY DEF IInv, Position, AtMember, Installing, here
<1>4. (~On("force"))' => Strict'
  <2> SUFFICES ASSUME (~On("force"))' PROVE Strict'
      OBVIOUS
  <2>0. ~On("force") /\ Typed /\ Phases /\ Position /\ Strict
      BY DEF IInv, On
  <2>1. Provided'
      BY <2>0 DEF Strict, Provided, Ready, Applied, Installing, On
  <2>2. Progress'
      BY <2>0 DEF Strict, Progress, Ready, Applied, Dealt, PassedOver, ShouldExtract, Scanned,
         Scanning, Installing, InStream, On
  <2>3. Earned'
      BY <2>0 DEF Strict, Earned, Applied, Owned, On
  <2>4. Judging'
      BY <2>0 DEF Strict, Judging
  <2>5. AllJudged'
      BY <1>2 DEF AllJudged, Phases
  <2> QED BY <2>1, <2>2, <2>3, <2>4, <2>5 DEF Strict
<1> QED BY <1>1, <1>2, <1>3, <1>4 DEF IInv

LEMMA StorePatternsIInv == ASSUME IInv, StorePatterns PROVE IInv'
<1> USE DEF work, pass, pool
<1>a. /\ pc' \in {"eager", "load", "counted"} /\ (pc' # "eager" => ~On("eager"))
      /\ pc = "patterns"
      /\ (pc' = "load" => origin = "footer") /\ (pc' = "counted" => origin = "stream")
      /\ patterns' = buffer /\ buffer' = FALSE
      /\ UNCHANGED <<arc, installed, row, sessioned, errored, extracted, failed, verified,
                     mismatched, unread, chosen, meta, saved, phase, cache, pass,
                     pool, shutdown, restarts>>
    BY DEF StorePatterns, IInv, Typed
<1>1. Typed'
  <2>1. Typed
      BY DEF IInv
  <2>2. TypeOK'
      BY <2>1, <1>a DEF Typed, TypeOK
  <2> QED BY <2>1, <2>2, <1>a DEF Typed, Driving, Scanning, Installing
<1>2. Phases'
    BY <1>a DEF IInv, Phases, Scanning, Installing
<1>3. Position'
    BY <1>a DEF IInv, Position, AtMember, Installing, here
<1>4. (~On("force"))' => Strict'
  <2> SUFFICES ASSUME (~On("force"))' PROVE Strict'
      OBVIOUS
  <2>0. ~On("force") /\ Typed /\ Phases /\ Position /\ Strict
      BY <1>a DEF IInv, On
  <2>1. Provided'
      BY <2>0, <1>a DEF Strict, Provided, Ready, Applied, Installing, On
  <2>2. Progress'
      BY <2>0, <1>a DEF Strict, Progress, Ready, Applied, Dealt, PassedOver, ShouldExtract,
         Scanned, Scanning, Installing, InStream, On
  <2>3. Earned'
      BY <2>0, <1>a DEF Strict, Earned, Applied, Owned, On
  <2>4. Judging'
      BY <2>0, <1>a DEF Strict, Judging
  <2>5. AllJudged'
      BY <1>2, <1>a DEF AllJudged, Phases
  <2> QED BY <2>1, <2>2, <2>3, <2>4, <2>5 DEF Strict
<1> QED BY <1>1, <1>2, <1>3, <1>4 DEF IInv

LEMMA EagerFilterIInv == ASSUME IInv, EagerFilter PROVE IInv'
<1> USE DEF work, pass, pool, Selected
<1>a. /\ pc' \in {"load", "counted"} /\ pc = "eager"
      /\ (pc' = "load" => origin = "footer") /\ (pc' = "counted" => origin = "stream")
      /\ chosen' = Selected /\ meta' = meta \cup {"filters_applied"}
      /\ UNCHANGED <<arc, installed, row, sessioned, errored, extracted, failed, verified,
                     mismatched, unread, patterns, saved, phase, cache, pass, buffer,
                     pool, shutdown, restarts>>
    BY DEF EagerFilter, IInv, Typed
<1>1. Typed'
  <2>1. Typed
      BY DEF IInv
  <2>2. TypeOK'
      BY <2>1, <1>a, ArchiveTypes DEF Typed, TypeOK
  <2> QED BY <2>1, <2>2, <1>a, ArchiveTypes DEF Typed, Driving, Scanning
<1>2. Phases'
    BY <1>a DEF IInv, Phases, Scanning, Installing
<1>3. Position'
    BY <1>a DEF IInv, Position, AtMember, Installing, here
<1>4. (~On("force"))' => Strict'
  <2> SUFFICES ASSUME (~On("force"))' PROVE Strict'
      OBVIOUS
  <2>0. ~On("force") /\ Typed /\ Phases /\ Position /\ Strict
      BY <1>a DEF IInv, On
  <2>1. Provided'
      BY <2>0, <1>a DEF Strict, Provided, Ready, Applied, Installing
  <2>2. Progress'
      BY <2>0, <1>a, NoPayloadBefore DEF Strict, Typed, Provided, Progress, Ready, Dealt,
         PassedOver, Scanned, Installing, InStream, On
  <2>3. Earned'
      BY <2>0, <1>a DEF Strict, Provided, Earned, Later
  <2>4. Judging'
      BY <2>0, <1>a DEF Strict, Judging
  <2>5. AllJudged'
      BY <1>2, <1>a DEF AllJudged, Phases
  <2> QED BY <2>1, <2>2, <2>3, <2>4, <2>5 DEF Strict
<1> QED BY <1>1, <1>2, <1>3, <1>4 DEF IInv

LEMMA LoadStateIInv == ASSUME IInv, LoadState PROVE IInv'
<1> USE DEF work, pass, pool, LoadState, On
<1>1. Typed'
    BY DEF IInv, Typed, TypeOK, ScanState, Driving, Scanning
<1>2. Phases'
    BY DEF IInv, Phases, Scanning
<1>3. Position'
    BY <1>1 DEF Typed, Position, AtMember, Installing
<1>4. (~On("force"))' => Strict'
  <2> SUFFICES ASSUME (~On("force"))' PROVE Strict'
      OBVIOUS
  <2>0. ~On("force") /\ Typed /\ Phases /\ Position /\ Strict
      BY DEF IInv
  <2>1. Provided'
      BY <2>0 DEF Strict, Typed, TypeOK, ScanState, Provided, Ready, Applied, Selected,
         Installing
  <2>2. Progress'
      BY <2>0 DEF Strict, Progress, Ready, Applied, Dealt, PassedOver, ShouldExtract, Scanned,
         InStream
  <2>3. Earned'
      BY <2>0 DEF Strict, Earned, Applied, Owned
  <2>4. Judging'
      BY <2>0 DEF Strict, Judging
  <2>5. AllJudged'
      BY <1>2 DEF AllJudged, Phases
  <2> QED BY <2>1, <2>2, <2>3, <2>4, <2>5 DEF Strict
<1> QED BY <1>1, <1>2, <1>3, <1>4 DEF IInv

LEMMA SkipMemberIInv == ASSUME IInv, SkipMember PROVE IInv'
<1> USE DEF work, pass, pool, SkipMember, MoreMembers
<1>1. Typed'
    BY DEF IInv, Typed, TypeOK
<1>2. Phases'
    BY DEF IInv, Phases
<1>3. Position'
    BY DEF IInv, Typed, Position, AtMember
<1>4. (~On("force"))' => Strict'
  <2> SUFFICES ASSUME (~On("force"))' PROVE Strict'
      OBVIOUS
  <2>0. ~On("force") /\ Typed /\ Phases /\ Position /\ Strict
      BY DEF IInv, On
  <2>1. Provided'
      BY <2>0 DEF Strict, Provided, Ready, Applied, Selected, On
  <2>2. Progress'
      BY <2>0 DEF Strict, Progress, Ready, Applied, Dealt, PassedOver, ShouldExtract, Scanned,
         InStream, On
  <2>3. Earned'
      BY <2>0 DEF Strict, Earned, Applied, Owned, On
  <2>4. Judging'
      BY <2>0 DEF Strict, Judging
  <2>5. AllJudged'
      BY <1>2 DEF AllJudged, Phases
  <2> QED BY <2>1, <2>2, <2>3, <2>4, <2>5 DEF Strict
<1> QED BY <1>1, <1>2, <1>3, <1>4 DEF IInv

\* Which member goes where; a snapshot that finds no database is refused before.
LEMMA BeginMemberIInv == ASSUME IInv, BeginMember PROVE IInv'
<1> USE DEF work, pass, pool
<1>a. /\ UNCHANGED <<arc, work, cache, seen, skip, at, first, window, buffer, pool, shutdown,
                    restarts>>
      /\ origin' = "stream" /\ pc = "member" /\ at > skip /\ at <= Len(arc.stream)
    BY DEF BeginMember, Begun, MoreMembers
<1>b. here \in Member /\ (here.kind = "payload" => here.file \in Files)
    BY <1>a, ArchiveTypes DEF IInv, Typed, here
<1>c. pc' \in {"failed", "payload", "copy", "counted", "apply"}
      /\ (pc' = "payload" => here.kind = "payload")
      /\ (pc' = "apply" => here.kind = "snapshot")
      /\ (pc' \in {"copy", "counted"} => here.kind \in {"manifest", "snapshot"})
    BY <1>b DEF BeginMember, Member
<1>1. Typed'
    BY <1>a, <1>c DEF IInv, Typed, TypeOK, Driving, Scanning, Installing, Settled, here
<1>2. Phases'
    BY <1>a, <1>c DEF IInv, Phases, Scanning
<1>3. Position'
    BY <1>a, <1>c DEF IInv, Position, Installing, here
<1>4. (~On("force"))' => Strict'
  <2> SUFFICES ASSUME (~On("force"))' PROVE Strict'
      OBVIOUS
  <2>0. ~On("force") /\ Typed /\ Phases /\ Position /\ Strict
      BY <1>a DEF IInv, On
  <2>a. /\ pc' = "payload" => here.kind = "payload" /\ seen.last # 0
        /\ pc' = "apply" => here.kind = "snapshot" /\ seen.last # 0
        /\ pc' = "copy" => here.kind \in {"manifest", "snapshot"} /\ seen.last = 0 /\ ~seen.footer
        /\ pc' = "counted" => here.kind = "manifest" /\ seen.footer
      BY <2>0, <1>b DEF BeginMember, Member, Refused, NeedsInstall, SawAny, Strict, Provided,
         Ready
  <2>1. Provided'
      BY <2>0, <1>a, <1>c, <2>a DEF Strict, Provided, Ready, Applied, Selected, Installing, On
  <2>2. Progress'
      BY <2>0, <1>a, <1>c DEF Strict, Progress, Ready, Applied, Dealt, PassedOver,
         ShouldExtract, Scanned, Scanning, InStream, On
  <2>3. Earned'
      BY <2>0, <1>a, <1>c DEF Strict, Earned, Applied, Owned, On
  <2>4. Judging'
      BY <2>0, <1>a DEF Strict, Judging
  <2>5. AllJudged'
      BY <1>2, <1>c DEF AllJudged, Phases
  <2> QED BY <2>1, <2>2, <2>3, <2>4, <2>5 DEF Strict
<1> QED BY <1>1, <1>2, <1>3, <1>4 DEF IInv

\* A snapshot of the stream names the rows it confirms.
LEMMA ApplySnapshotIInv == ASSUME IInv, ApplySnapshot PROVE IInv'
<1> USE DEF work, pass, pool, ApplySnapshot, Confirmed, here
<1>1. Typed'
    BY DEF IInv, Typed, TypeOK, Driving, Scanning
<1>2. Phases'
    BY DEF IInv, Phases, Scanning
<1>3. Position'
    BY DEF IInv, Position, AtMember
<1>4. (~On("force"))' => Strict'
  <2> SUFFICES ASSUME (~On("force"))' PROVE Strict'
      OBVIOUS
  <2>0. ~On("force") /\ Typed /\ Phases /\ Position /\ Strict
      BY DEF IInv, On
  <2>a. here.upto \subseteq Named(arc)
      BY <2>0, SnapshotNames DEF Typed, Position, AtMember
  <2>1. Provided'
      BY <2>0 DEF Strict, Provided, Ready, Applied, Selected, Installing, On
  <2>2. Progress'
      BY <2>0 DEF Strict, Progress, Ready, Applied, Dealt, PassedOver, ShouldExtract, Scanned,
         Scanning, InStream, On
  <2>3. Earned'
      BY <2>0, <2>a DEF Strict, Earned, Later, Applied, Owned, On
  <2>4. Judging'
      BY <2>0 DEF Strict, Judging
  <2>5. AllJudged'
      BY <1>2 DEF AllJudged, Phases
  <2> QED BY <2>1, <2>2, <2>3, <2>4, <2>5 DEF Strict
<1> QED BY <1>1, <1>2, <1>3, <1>4 DEF IInv

\* The member at hand is no payload, so that as much is dealt with as before.
LEMMA CountMemberIInv == ASSUME IInv, CountMember PROVE IInv'
<1> USE DEF work, pass, pool
<1>0. Typed
    BY DEF IInv
<1>a. /\ pc = "counted" /\ window' = [ok |-> {}, bad |-> {}]
      /\ extracted' = extracted \cup window.ok /\ failed' = failed \cup window.bad
      /\ UNCHANGED <<arc, installed, row, sessioned, errored, verified, mismatched, unread,
                     patterns, chosen, meta, phase, cache, origin, skip, first,
                     buffer, pool, shutdown, restarts>>
    BY DEF CountMember
<1>b. /\ [seen EXCEPT !.manifest = TRUE] \in ScanState
      /\ [seen EXCEPT !.snapshots = saved.snapshots + 1] \in ScanState
      /\ [seen EXCEPT !.manifest = TRUE].footer = seen.footer
      /\ [seen EXCEPT !.snapshots = saved.snapshots + 1].footer = seen.footer
  <2>1. seen \in ScanState /\ saved \in ScanState
      BY <1>0 DEF Typed, TypeOK
  <2>2. [seen EXCEPT !.manifest = TRUE] \in ScanState
      BY <2>1 DEF ScanState
  <2>3. saved.snapshots + 1 \in Nat
      BY <2>1 DEF ScanState
  <2>4. [seen EXCEPT !.snapshots = saved.snapshots + 1] \in ScanState
      BY <2>1 DEF ScanState
  <2>5. /\ [seen EXCEPT !.manifest = TRUE].footer = seen.footer
        /\ [seen EXCEPT !.snapshots = saved.snapshots + 1].footer = seen.footer
      OBVIOUS
  <2> QED BY <2>2, <2>4, <2>5
<1>c. /\ seen' \in ScanState /\ seen'.last = at /\ seen'.footer = seen.footer
      /\ at' = at + 1 /\ at' \in Nat \ {0} /\ pc' = "member"
    BY <1>0, <1>b, Turn DEF CountMember
<1>d. saved' \in ScanState /\ saved'.last = saved.last /\ saved'.footer = saved.footer
    BY <1>0 DEF CountMember, Typed, TypeOK, ScanState
<1>1. Typed'
  <2>1. Typed
      BY DEF IInv
  <2>2. TypeOK'
      BY <2>1, <1>a, <1>c, <1>d DEF Typed, TypeOK
  <2> QED BY <2>1, <2>2, <1>a, <1>c, <1>d DEF Typed, Driving, Scanning
<1>2. Phases'
    BY <1>a, <1>c DEF IInv, Phases, Scanning
<1>3. Position'
    BY <1>a, <1>c, <1>d DEF IInv, Typed, Position, AtMember, Installing
<1>4. (~On("force"))' => Strict'
  <2> SUFFICES ASSUME (~On("force"))' PROVE Strict'
      OBVIOUS
  <2>0. ~On("force") /\ Typed /\ Phases /\ Position /\ Strict
      BY <1>a DEF IInv, On
  <2>w. extracted' = extracted /\ failed' = failed
      BY <2>0, <1>a DEF Strict, Provided
  <2>u. \A f \in PayloadsOf(arc, at) :
           f \in PayloadsOf(arc, seen.last) \/ (here.kind = "payload" /\ f = here.file)
      BY <2>0, <1>a, PayloadsUpToHere DEF Typed, Position, AtMember, here
  <2>v. here.kind # "payload"
      BY <2>0, <1>a DEF Position
  <2>1. Provided'
      BY <2>0, <1>a, <1>c DEF Strict, Provided, Ready, Applied, Selected, Installing, On
  <2>2. Progress'
      BY <2>0, <1>a, <1>c, <1>d, <2>u, <2>v, <2>w DEF Strict, Progress, Ready, Applied, Dealt,
         PassedOver, ShouldExtract, Scanned, Scanning, InStream, On
  <2>3. Earned'
      BY <2>0, <1>a, <1>c DEF Strict, Earned, Applied, Owned, On
  <2>4. Judging'
      BY <2>0, <1>a DEF Strict, Judging
  <2>5. AllJudged'
      BY <1>2, <1>c DEF AllJudged, Phases
  <2> QED BY <2>1, <2>2, <2>3, <2>4, <2>5 DEF Strict
<1> QED BY <1>1, <1>2, <1>3, <1>4 DEF IInv

\* A payload that is passed over is dealt with; one that is begun damages no other,
\* since its file was in no member before.
LEMMA BeginPayloadIInv == ASSUME IInv, BeginPayload PROVE IInv'
<1> USE DEF work, pass, pool
<1>0. Typed
    BY DEF IInv
<1>a. /\ pc = "payload"
      /\ UNCHANGED <<arc, work, origin, skip, first, window, buffer, pool, shutdown, restarts>>
    BY DEF BeginPayload
<1>c. \/ /\ seen' \in ScanState /\ seen'.last = at /\ seen'.footer = seen.footer
         /\ at' = at + 1 /\ at' \in Nat \ {0} /\ pc' = "member" /\ cache' = cache
         /\ PassedOver(here.file)
      \/ /\ cache' = [cache EXCEPT ![here.file] = "part"]
         /\ pc' = "copying" /\ UNCHANGED <<seen, at>>
         /\ installed => ~PassedOver(here.file)
  <2>1. seen \in ScanState
      BY <1>0 DEF Typed, TypeOK
  <2> QED BY <1>0, <2>1, Turn DEF BeginPayload, PassedOver
<1>1. Typed'
  <2>1. Typed
      BY DEF IInv
  <2>2. TypeOK'
      BY <2>1, <1>a, <1>c DEF Typed, TypeOK
  <2> QED BY <2>1, <2>2, <1>a, <1>c DEF Typed, Driving, Scanning
<1>2. Phases'
    BY <1>a, <1>c DEF IInv, Phases, Scanning
<1>3. Position'
    BY <1>a, <1>c DEF IInv, Typed, Position, AtMember, Installing, here
<1>4. (~On("force"))' => Strict'
  <2> SUFFICES ASSUME (~On("force"))' PROVE Strict'
      OBVIOUS
  <2>0. ~On("force") /\ Typed /\ Phases /\ Position /\ Strict
      BY <1>a DEF IInv, On
  <2>u. \A f \in PayloadsOf(arc, at) :
           f \in PayloadsOf(arc, seen.last) \/ (here.kind = "payload" /\ f = here.file)
      BY <2>0, <1>a, PayloadsUpToHere DEF Typed, Position, AtMember, here
  <2>n. /\ here.file \in Files /\ here.file \in InStream
        /\ here.file \notin PayloadsOf(arc, seen.last)
        /\ here.file \notin PayloadsOf(arc, saved.last)
      BY <2>0, <1>a, ArchiveTypes, PayloadIsNew DEF Typed, TypeOK, ScanState, Position, AtMember,
         here, InStream
  <2>i. installed
      BY <2>0, <1>a DEF Strict, Provided, Ready
  <2>1. Provided'
      BY <2>0, <1>a, <1>c DEF Strict, Provided, Ready, Applied, Selected, Installing, On
  <2>2. Progress'
      BY <2>0, <1>a, <1>c, <2>u, <2>n, <2>i DEF Strict, Typed, TypeOK, Phases, Progress, Dealt,
         PassedOver, ShouldExtract, Scanned, Scanning, InStream, here, On
  <2>3. Earned'
      BY <2>0, <1>a, <1>c DEF Strict, Earned, Applied, Owned, On
  <2>4. Judging'
      BY <2>0, <1>a DEF Strict, Judging
  <2>5. AllJudged'
      BY <1>2, <1>c DEF AllJudged, Phases
  <2> QED BY <2>1, <2>2, <2>3, <2>4, <2>5 DEF Strict
<1> QED BY <1>1, <1>2, <1>3, <1>4 DEF IInv

\* A copy that ends in any way touches its own file only.
LEMMA EndPayloadIInv == ASSUME IInv, EndPayload PROVE IInv'
<1> USE DEF work, pass, pool
<1>0. Typed
    BY DEF IInv
<1>a. /\ pc = "copying"
      /\ UNCHANGED <<arc, installed, row, sessioned, errored, extracted, verified,
                     mismatched, unread, patterns, chosen, meta, saved, phase,
                     origin, skip, first, buffer, pool, shutdown, restarts>>
    BY DEF EndPayload
<1>c. \/ /\ cache' = [cache EXCEPT ![here.file] = "full"]
         /\ pc' = "flag" /\ UNCHANGED <<failed, window, seen, at>>
      \/ pc' = "failed" /\ UNCHANGED <<cache, failed, window, seen, at>>
      \/ /\ seen' \in ScanState /\ seen'.last = at /\ On("force") /\ here.file \in Files
         /\ at' = at + 1
         /\ failed' \subseteq Files /\ window' \in [ok: SUBSET Files, bad: SUBSET Files]
         /\ at' \in Nat \ {0} /\ pc' = "member" /\ cache' = cache
      \/ /\ cache' = cache \/ cache' = [cache EXCEPT ![here.file] = "none"]
         /\ pc' = "interrupted" /\ UNCHANGED <<failed, window, seen, at>>
  <2>1. seen \in ScanState /\ failed \subseteq Files /\ arc.fails \subseteq Files
        /\ window \in [ok: SUBSET Files, bad: SUBSET Files]
      BY <1>0, ScanAssumption DEF Typed, TypeOK, Archive
  <2> QED BY <1>0, <2>1, Turn DEF EndPayload, Tolerated
<1>1. Typed'
  <2>1. Typed
      BY DEF IInv
  <2>2. TypeOK'
      BY <2>1, <1>a, <1>c DEF Typed, TypeOK
  <2> QED BY <2>1, <2>2, <1>a, <1>c DEF Typed, Driving, Scanning, Settled
<1>2. Phases'
    BY <1>a, <1>c DEF IInv, Phases, Scanning
<1>3. Position'
    BY <1>a, <1>c DEF IInv, Typed, Position, AtMember, Installing, here
<1>4. (~On("force"))' => Strict'
  <2> SUFFICES ASSUME (~On("force"))' PROVE Strict'
      OBVIOUS
  <2>0. ~On("force") /\ Typed /\ Phases /\ Position /\ Strict
      BY <1>a DEF IInv, On
  <2>n. /\ here.file \in Files /\ here.file \in InStream
        /\ here.file \notin PayloadsOf(arc, seen.last)
        /\ here.file \notin PayloadsOf(arc, saved.last)
      BY <2>0, <1>a, ArchiveTypes, PayloadIsNew DEF Typed, TypeOK, ScanState, Position, AtMember,
         here, InStream
  <2>1. Provided'
      BY <2>0, <1>a, <1>c DEF Strict, Provided, Ready, Applied, Selected, Installing, On
  <2>2. Progress'
      BY <2>0, <1>a, <1>c, <2>n DEF Strict, Typed, TypeOK, Progress, Ready, Applied, Dealt,
         PassedOver, ShouldExtract, Scanned, Scanning, InStream, here, On
  <2>3. Earned'
      BY <2>0, <1>a, <1>c DEF Strict, Earned, Applied, Owned, On
  <2>4. Judging'
      BY <2>0, <1>a DEF Strict, Judging
  <2>5. AllJudged'
      BY <2>0, <1>a DEF AllJudged, Phases
  <2> QED BY <2>1, <2>2, <2>3, <2>4, <2>5 DEF Strict
<1> QED BY <1>1, <1>2, <1>3, <1>4 DEF IInv

\* The payload at hand is whole and flagged, which extends what is dealt with by it.
LEMMA FlagPayloadIInv == ASSUME IInv, FlagPayload PROVE IInv'
<1> USE DEF work, pass, pool
<1>0. Typed
    BY DEF IInv
<1>a. /\ pc = "flag"
      /\ extracted' = IF installed THEN extracted \cup {here.file} ELSE extracted
      /\ window' = IF installed THEN window ELSE [window EXCEPT !.ok = @ \cup {here.file}]
      /\ UNCHANGED <<arc, installed, row, sessioned, errored, failed, verified, mismatched,
                     unread, patterns, chosen, meta, saved, phase, cache, origin,
                     skip, first, buffer, pool, shutdown, restarts>>
    BY DEF FlagPayload
<1>c. /\ seen' \in ScanState /\ seen'.last = at /\ seen'.footer = seen.footer
      /\ at' = at + 1 /\ at' \in Nat \ {0} /\ pc' = "member"
    BY <1>0, Turn DEF FlagPayload, Typed, TypeOK
<1>d. here.file \in Files
    BY <1>a, ArchiveTypes DEF IInv, Typed, Position, AtMember, here
<1>1. Typed'
  <2>1. Typed
      BY DEF IInv
  <2>2. TypeOK'
      BY <2>1, <1>a, <1>c, <1>d DEF Typed, TypeOK
  <2> QED BY <2>1, <2>2, <1>a, <1>c, <1>d DEF Typed, Driving, Scanning
<1>2. Phases'
    BY <1>a, <1>c DEF IInv, Phases, Scanning
<1>3. Position'
    BY <1>a, <1>c DEF IInv, Typed, Position, AtMember, Installing
<1>4. (~On("force"))' => Strict'
  <2> SUFFICES ASSUME (~On("force"))' PROVE Strict'
      OBVIOUS
  <2>0. ~On("force") /\ Typed /\ Phases /\ Position /\ Strict
      BY <1>a DEF IInv, On
  <2>u. \A f \in PayloadsOf(arc, at) :
           f \in PayloadsOf(arc, seen.last) \/ (here.kind = "payload" /\ f = here.file)
      BY <2>0, <1>a, PayloadsUpToHere DEF Typed, Position, AtMember, here
  <2>n. /\ here.file \in Files /\ here.file \in InStream
        /\ here.file \notin PayloadsOf(arc, seen.last)
        /\ here.file \notin PayloadsOf(arc, saved.last)
      BY <2>0, <1>a, ArchiveTypes, PayloadIsNew DEF Typed, TypeOK, ScanState, Position, AtMember,
         here, InStream
  <2>i. installed
      BY <2>0, <1>a DEF Strict, Provided, Ready
  <2>1. Provided'
      BY <2>0, <1>a, <1>c DEF Strict, Provided, Ready, Applied, Selected, Installing, On
  <2>2. Progress'
      BY <2>0, <1>a, <1>c, <2>u, <2>i DEF Strict, Progress, Ready, Applied, Dealt, PassedOver,
         ShouldExtract, Scanned, Scanning, InStream, On
  <2>3. Earned'
      BY <2>0, <1>a, <1>c DEF Strict, Earned, Applied, Owned, On
  <2>4. Judging'
      BY <2>0, <1>a DEF Strict, Judging
  <2>5. AllJudged'
      BY <1>2, <1>c DEF AllJudged, Phases
  <2> QED BY <2>1, <2>2, <2>3, <2>4, <2>5 DEF Strict
<1> QED BY <1>1, <1>2, <1>3, <1>4 DEF IInv

\* At the end of the stream all payloads have been dealt with; there is a database
\* then, so that the stage is kept.
LEMMA SaveStateIInv == ASSUME IInv, SaveState PROVE IInv'
<1> USE DEF work, pass, pool, SaveState, MoreMembers, Observed, Provenance, On
<1>1. Typed'
    BY DEF IInv, Typed, TypeOK, Driving, Scanning, Settled
<1>2. Phases'
    BY DEF IInv, Phases, Scanning
<1>3. Position'
    BY DEF IInv, Position, AtMember, Installing
<1>4. (~On("force"))' => Strict'
  <2> SUFFICES ASSUME (~On("force"))' PROVE Strict'
      OBVIOUS
  <2>0. ~On("force") /\ Typed /\ Phases /\ Position /\ Strict
      BY DEF IInv
  <2>a. pc' \in {"check", "panicked"} => seen.last # 0 /\ at > Len(arc.stream)
      BY <2>0 DEF Typed
  <2>b. pc' \in {"check", "panicked"} => Ready
      BY <2>0 DEF Strict, Provided
  <2>c. pc' = "check" => seen.last >= Len(arc.stream) /\ seen.last \in Nat
      BY <2>0 DEF Typed, Position
  <2>d. pc' = "check" => Dealt(Len(arc.stream))
      BY <2>0, <2>c, AllPayloads DEF Typed, Strict, Progress, Scanning, Dealt
  <2>e. cache' = cache
      BY <2>0 DEF Strict, Provided, Ready
  <2>1. Provided'
      BY <2>0 DEF Strict, Provided, Ready, Applied, Selected, Installing
  <2>2. Progress'
      BY <2>0, <2>b, <2>d DEF Strict, Progress, Ready, Applied, Dealt, PassedOver,
         ShouldExtract, Scanned, Scanning, InStream
  <2>3. Earned'
      BY <2>0 DEF Strict, Earned, Applied, Owned
  <2>4. Judging'
      BY <2>0 DEF Strict, Judging
  <2>5. AllJudged'
      BY <2>0 DEF AllJudged, Phases
  <2> QED BY <2>1, <2>2, <2>3, <2>4, <2>5 DEF Strict
<1> QED BY <1>1, <1>2, <1>3, <1>4 DEF IInv

LEMMA CheckCacheIInv == ASSUME IInv, CheckCache PROVE IInv'
<1> USE DEF work, pass, pool, CheckCache, On
<1>1. Typed'
    BY DEF IInv, Typed, TypeOK, Driving, Scanning, Settled
<1>2. Phases'
    BY DEF IInv, Phases, Scanning
<1>3. Position'
    BY DEF IInv, Position, AtMember, Installing
<1>4. (~On("force"))' => Strict'
  <2> SUFFICES ASSUME (~On("force"))' PROVE Strict'
      OBVIOUS
  <2>0. ~On("force") /\ Typed /\ Phases /\ Position /\ Strict
      BY DEF IInv
  <2>1. Provided'
      BY <2>0 DEF Strict, Provided, Ready, Applied, Selected, Installing
  <2>2. Progress'
      BY <2>0 DEF Strict, Progress, Ready, Applied, Dealt, PassedOver, ShouldExtract, Scanned,
         Scanning, InStream
  <2>3. Earned'
      BY <2>0 DEF Strict, Earned, Applied, Owned
  <2>4. Judging'
      BY <2>0 DEF Strict, Judging
  <2>5. AllJudged'
      BY <1>2 DEF AllJudged, Phases
  <2> QED BY <2>1, <2>2, <2>3, <2>4, <2>5 DEF Strict
<1> QED BY <1>1, <1>2, <1>3, <1>4 DEF IInv

LEMMA GateIInv == ASSUME IInv, Gate PROVE IInv'
<1> USE DEF work, pass, pool, Gate, Cascaded, Released, Salvaged, Violations, On
<1>1. Typed'
    BY DEF IInv, Typed, TypeOK, Driving, Scanning, Settled
<1>2. Phases'
    BY DEF IInv, Phases, Scanning
<1>3. Position'
    BY DEF IInv, Position, AtMember, Installing
<1>4. (~On("force"))' => Strict'
  <2> SUFFICES ASSUME (~On("force"))' PROVE Strict'
      OBVIOUS
  <2>0. ~On("force") /\ Typed /\ Phases /\ Position /\ Strict
      BY DEF IInv
  <2>1. Provided'
      BY <2>0 DEF Strict, Provided, Ready, Applied, Selected, Installing
  <2>2. Progress'
      BY <2>0 DEF Strict, Progress, Ready, Applied, Dealt, PassedOver, ShouldExtract, Scanned,
         Scanning, InStream
  <2>3. Earned'
      BY <2>0 DEF Strict, Earned, Later, Applied, Owned
  <2>4. Judging'
      BY <2>0 DEF Strict, Judging
  <2>5. AllJudged'
      BY <1>2 DEF AllJudged, Phases
  <2> QED BY <2>1, <2>2, <2>3, <2>4, <2>5 DEF Strict
<1> QED BY <1>1, <1>2, <1>3, <1>4 DEF IInv

LEMMA EnterPhaseIInv == ASSUME IInv, EnterPhase PROVE IInv'
<1> USE DEF work, pass, pool, EnterPhase
<1>1. Typed'
    BY DEF IInv, Typed, TypeOK, Driving, Scanning, Settled
<1>2. Phases'
    BY <1>1 DEF Typed, Phases, Scanning, Installing
<1>3. Position'
    BY DEF IInv, Typed, Position, AtMember, Installing
<1>4. (~On("force"))' => Strict'
  <2> SUFFICES ASSUME (~On("force"))' PROVE Strict'
      OBVIOUS
  <2>0. ~On("force") /\ Typed /\ Phases /\ Position /\ Strict
      BY DEF IInv, On
  <2>1. Provided'
      BY <2>0, <1>2 DEF Strict, Provided, Ready, Applied, Selected, Installing, Scanning,
         Phases, On
  <2>2. Progress'
      BY <2>0, NoPayloadBefore DEF Strict, Typed, Provided, Progress, Ready, Applied, Dealt,
         PassedOver, ShouldExtract, Scanned, Scanning, Installing, InStream, On
  <2>3. Earned'
      BY <2>0 DEF Strict, Earned, Applied, Owned, On
  <2>4. Judging'
      BY <2>0 DEF Strict, Judging
  <2>5. AllJudged'
      BY <2>0 DEF Strict, AllJudged, Judged, Verdicts, Elected, On
  <2> QED BY <2>1, <2>2, <2>3, <2>4, <2>5 DEF Strict
<1> QED BY <1>1, <1>2, <1>3, <1>4 DEF IInv

LEMMA EndScanIInv == ASSUME IInv, EndScan PROVE IInv'
<1> USE DEF work, pass, pool, EndScan
<1>1. Typed'
    BY DEF IInv, Typed, TypeOK, Driving
<1>2. Phases'
    BY DEF IInv, Phases, Scanning
<1>3. Position'
    BY DEF IInv, Position, AtMember, Installing
<1>4. (~On("force"))' => Strict'
  <2> SUFFICES ASSUME (~On("force"))' PROVE Strict'
      OBVIOUS
  <2>0. ~On("force") /\ Typed /\ Phases /\ Position /\ Strict
      BY DEF IInv, On
  <2>1. Provided'
      BY <2>0 DEF Strict, Provided, Ready, Applied, Selected, Installing, On
  <2>2. Progress'
      BY <2>0 DEF Strict, Progress, Ready, Applied, Dealt, PassedOver, ShouldExtract, Scanned,
         Scanning, InStream, On
  <2>3. Earned'
      BY <2>0 DEF Strict, Phases, Earned, Scanning, On
  <2>4. Judging'
      BY <2>0 DEF Strict, Judging
  <2>5. AllJudged'
      BY <1>2 DEF AllJudged, Phases
  <2> QED BY <2>1, <2>2, <2>3, <2>4, <2>5 DEF Strict
<1> QED BY <1>1, <1>2, <1>3, <1>4 DEF IInv

\* The battery lets rows pass that have left staged and archived, with an owner each,
\* and behind the rehash with one verdict each.
LEMMA VerifyIInv == ASSUME IInv, Verify PROVE IInv'
<1> USE DEF work, pass, pool, Following
<1>a. /\ pc = "verify" /\ phase \in {"ScanTar", "Filter", "Rehash"}
      /\ \/ phase' = Following[phase] /\ pc' = "enter" /\ Battery
         \/ phase' = phase /\ pc' = "panicked"
      /\ UNCHANGED <<arc, installed, row, sessioned, errored, extracted, failed, verified,
                     mismatched, unread, patterns, chosen, meta, saved, cache, pass,
                     buffer, pool, shutdown, restarts>>
    BY DEF Verify, IInv, Typed, Phases
<1>b. phase' # "ScanTar" => phase # "ScanTar" \/ Battery
    BY <1>a
<1>1. Typed'
  <2>1. Typed
      BY DEF IInv
  <2>2. TypeOK'
      BY <2>1, <1>a DEF Typed, TypeOK
  <2> QED BY <2>1, <2>2, <1>a DEF Typed, Driving, Settled
<1>2. Phases'
    BY <1>a DEF Phases, Scanning, Installing
<1>3. Position'
    BY <1>a DEF IInv, Position, AtMember, Installing
<1>4. (~On("force"))' => Strict'
  <2> SUFFICES ASSUME (~On("force"))' PROVE Strict'
      OBVIOUS
  <2>0. ~On("force") /\ Typed /\ Phases /\ Position /\ Strict
      BY <1>a DEF IInv, On
  <2>a. Ready
      BY <2>0, <1>a DEF Strict, Progress, Scanned
  <2>b. phase' # "ScanTar" => \A f \in Files : row[f] \in Later /\ Owned(f)
      BY <2>0, <2>a, <1>a DEF Strict, Earned, Provided, Ready, Battery, Typed, TypeOK, Later
  <2>c. phase' = "PlacementPrologue" /\ On("rehash") => \A f \in Files : Judged(f)
      BY <1>a DEF Battery
  <2>1. Provided'
      BY <2>0, <1>a DEF Strict, Provided, Ready, Applied, Selected, Installing, On
  <2>2. Progress'
      BY <2>0, <1>a DEF Strict, Progress, Ready, Applied, Dealt, PassedOver, ShouldExtract,
         Scanned, Scanning, Installing, InStream, On
  <2>3. Earned'
      BY <2>0, <1>a, <2>b DEF Strict, Earned, Applied, Owned, On
  <2>4. Judging'
      BY <2>0, <1>a DEF Strict, Judging
  <2>5. AllJudged'
      BY <1>a, <2>c DEF AllJudged, Judged, Verdicts, Elected, On
  <2> QED BY <2>1, <2>2, <2>3, <2>4, <2>5 DEF Strict
<1> QED BY <1>1, <1>2, <1>3, <1>4 DEF IInv

LEMMA ApplyFilterIInv == ASSUME IInv, ApplyFilter PROVE IInv'
<1> USE DEF work, pass, pool, ApplyFilter, Selected
<1>1. Typed'
    BY ArchiveTypes DEF IInv, Typed, TypeOK, Driving
<1>2. Phases'
    BY DEF IInv, Phases, Scanning, Installing
<1>3. Position'
    BY DEF IInv, Position, AtMember, Installing
<1>4. (~On("force"))' => Strict'
  <2> SUFFICES ASSUME (~On("force"))' PROVE Strict'
      OBVIOUS
  <2>0. ~On("force") /\ Typed /\ Phases /\ Position /\ Strict
      BY DEF IInv, On
  <2>a. On("eager") => Applied
      BY <2>0 DEF Strict, Progress, Scanned, Ready, Phases
  <2>1. Provided'
      BY <2>0, <1>2 DEF Strict, Provided, Ready, Applied, Scanning, Phases
  <2>2. Progress'
      BY <2>0, <2>a DEF Strict, Progress, Ready, Applied, Dealt, PassedOver, ShouldExtract,
         Scanned, Scanning, Installing, InStream, On
  <2>3. Earned'
      BY <2>0, <2>a DEF Strict, Earned, Applied, Owned, On
  <2>4. Judging'
      BY <2>0 DEF Strict, Judging
  <2>5. AllJudged'
      BY <1>2 DEF AllJudged, Phases
  <2> QED BY <2>1, <2>2, <2>3, <2>4, <2>5 DEF Strict
<1> QED BY <1>1, <1>2, <1>3, <1>4 DEF IInv

LEMMA MarkFilteredIInv == ASSUME IInv, MarkFiltered PROVE IInv'
<1> USE DEF work, pass, pool, MarkFiltered
<1>1. Typed'
    BY DEF IInv, Typed, TypeOK, Driving
<1>2. Phases'
    BY DEF IInv, Phases, Scanning, Installing
<1>3. Position'
    BY DEF IInv, Position, AtMember, Installing
<1>4. (~On("force"))' => Strict'
  <2> SUFFICES ASSUME (~On("force"))' PROVE Strict'
      OBVIOUS
  <2>0. ~On("force") /\ Typed /\ Phases /\ Position /\ Strict
      BY DEF IInv, On
  <2>1. Provided'
      BY <2>0, <1>2 DEF Strict, Provided, Ready, Applied, Selected, Scanning, Phases, On
  <2>2. Progress'
      BY <2>0, <1>2 DEF Strict, Phases, Progress, Ready, Applied, Dealt, PassedOver,
         ShouldExtract, Scanned, InStream, On
  <2>3. Earned'
      BY <2>0 DEF Strict, Phases, Earned, Later, Applied, Owned, On
  <2>4. Judging'
      BY <2>0 DEF Strict, Judging
  <2>5. AllJudged'
      BY <1>2 DEF AllJudged, Phases
  <2> QED BY <2>1, <2>2, <2>3, <2>4, <2>5 DEF Strict
<1> QED BY <1>1, <1>2, <1>3, <1>4 DEF IInv

LEMMA OpenRehashIInv == ASSUME IInv, OpenRehash PROVE IInv'
<1> USE DEF work, pass, pool, OpenRehash, SkipRehash, PromoteUnrehashable, Passed, Queued,
   Elected, On
<1>1. Typed'
    BY DEF IInv, Typed, TypeOK, Driving
<1>2. Phases'
    BY DEF IInv, Phases, Scanning, Installing
<1>3. Position'
    BY DEF IInv, Position, AtMember, Installing
<1>4. (~On("force"))' => Strict'
  <2> SUFFICES ASSUME (~On("force"))' PROVE Strict'
      OBVIOUS
  <2>0. ~On("force") /\ Typed /\ Phases /\ Position /\ Strict
      BY DEF IInv
  <2>1. Provided'
      BY <2>0, <1>2 DEF Strict, Provided, Ready, Applied, Selected, Scanning, Phases
  <2>2. Progress'
      BY <2>0, <1>2 DEF Strict, Phases, Progress, Ready, Applied, Dealt, PassedOver,
         ShouldExtract, Scanned, InStream
  <2>3. Earned'
      BY <2>0 DEF Strict, Phases, Earned, Later, Applied, Owned
  <2>4. Judging'
      BY <2>0 DEF Strict, Judging
  <2>5. AllJudged'
      BY <1>2 DEF AllJudged, Phases
  <2> QED BY <2>1, <2>2, <2>3, <2>4, <2>5 DEF Strict
<1> QED BY <1>1, <1>2, <1>3, <1>4 DEF IInv

\* Elected payloads are whole, so that no outcome is an error, and a mismatch among
\* the outcomes is noted as one that ends the run.
LEMMA CommitIInv == ASSUME IInv, Commit PROVE IInv'
<1> USE DEF work, pass, pool, Commit, Chunk, With, Wrong, WorkersGone
<1>1. Typed'
    BY DEF IInv, Typed, TypeOK
<1>2. Phases'
    BY DEF IInv, Phases
<1>3. Position'
    BY DEF IInv, Position, AtMember, here
<1>4. (~On("force"))' => Strict'
  <2> SUFFICES ASSUME (~On("force"))' PROVE Strict'
      OBVIOUS
  <2>0. ~On("force") /\ Typed /\ Phases /\ Position /\ Strict
      BY DEF IInv, On
  <2>a. \A o \in out : o[1] \in Files /\ cache[o[1]] = "full" /\ o[2] = Verdict(o[1])
      BY <2>0, ElectedWhole DEF Strict, Judging, Typed, Phases
  <2>b. PICK B \in SUBSET out :
           /\ out' = out \ B
           /\ verified' = verified \cup With("match", B)
           /\ mismatched' = mismatched \cup With("mismatch", B)
           /\ unread' = unread \cup With("error", B)
           /\ bad' = bad \cup Wrong(B)
      OBVIOUS
  <2>c. \A o \in out : o[2] # "error" /\ (o[2] = "match" => o[1] \notin arc.corrupt)
      BY <2>a DEF Verdict
  <2>d. verified' \cap arc.corrupt = {} /\ unread' = {}
      BY <2>0, <2>c DEF Strict, Judging
  <2>e. bad \subseteq bad' /\ (mismatched' # {} => mismatched # {} \/ "mismatch" \in bad')
      OBVIOUS
  <2>f. pc = "pool" /\ pc' = "pool"
      OBVIOUS
  <2>g. Elected' = Elected /\ out' \subseteq out
      BY DEF Elected
  <2>h. \A o \in out' : (o[2] = Verdict(o[1]))'
      BY <2>a DEF Verdict
  <2>1. Provided'
      BY <2>0 DEF Strict, Provided, Ready, Applied, Selected, On
  <2>2. Progress'
      BY <2>0 DEF Strict, Progress, Ready, Applied, Dealt, PassedOver, ShouldExtract, Scanned,
         InStream, On
  <2>3. Earned'
      BY <2>0 DEF Strict, Phases, Earned, Later, Applied, Owned, On
  <2>4. Judging'
    <3>1. (todo \cup busy \cup {o[1] : o \in out} \subseteq Elected)'
        BY <2>0, <2>g DEF Strict, Strict, Judging
    <3>2. (restarts = 0 /\ mismatched # {} =>
              "mismatch" \in bad /\ phase = "Rehash" /\ pc \in {"pool", "failed", "interrupted"})'
        BY <2>0 DEF Strict, Judging, Phases
    <3> QED BY <3>1, <3>2, <2>d, <2>f, <2>h DEF Judging
  <2>5. AllJudged'
      BY <1>2 DEF AllJudged, Phases
  <2> QED BY <2>1, <2>2, <2>3, <2>4, <2>5 DEF Strict
<1> QED BY <1>1, <1>2, <1>3, <1>4 DEF IInv

LEMMA EndRehashIInv == ASSUME IInv, EndRehash PROVE IInv'
<1> USE DEF work, pass, pool, EndRehash, PoolEnd, WorkersGone, On
<1>1. Typed'
    BY DEF IInv, Typed, TypeOK, Driving, Settled
<1>2. Phases'
    BY DEF IInv, Phases, Scanning, Installing
<1>3. Position'
    BY DEF IInv, Position, AtMember, Installing
<1>4. (~On("force"))' => Strict'
  <2> SUFFICES ASSUME (~On("force"))' PROVE Strict'
      OBVIOUS
  <2>0. ~On("force") /\ Typed /\ Phases /\ Position /\ Strict
      BY DEF IInv
  <2>1. Provided'
      BY <2>0, <1>2 DEF Strict, Provided, Ready, Applied, Selected, Scanning, Phases
  <2>2. Progress'
      BY <2>0, <1>2 DEF Strict, Phases, Progress, Ready, Applied, Dealt, PassedOver,
         ShouldExtract, Scanned, InStream
  <2>3. Earned'
      BY <2>0 DEF Strict, Phases, Earned, Applied, Owned
  <2>4. Judging'
      BY <2>0 DEF Strict, Judging
  <2>5. AllJudged'
      BY <2>0 DEF AllJudged, Phases
  <2> QED BY <2>1, <2>2, <2>3, <2>4, <2>5 DEF Strict
<1> QED BY <1>1, <1>2, <1>3, <1>4 DEF IInv

LEMMA BeginRehashIInv == ASSUME IInv, BeginRehash PROVE IInv'
<1> USE DEF work, pass, pool, BeginRehash
<1>1. Typed'
    BY DEF IInv, Typed, TypeOK
<1>2. Phases'
    BY DEF IInv, Phases
<1>3. Position'
    BY DEF IInv, Position, AtMember, here
<1>4. (~On("force"))' => Strict'
  <2> SUFFICES ASSUME (~On("force"))' PROVE Strict'
      OBVIOUS
  <2>0. ~On("force") /\ Typed /\ Phases /\ Position /\ Strict
      BY DEF IInv, On
  <2>1. Provided'
      BY <2>0 DEF Strict, Provided, Ready, Applied, Selected, On
  <2>2. Progress'
      BY <2>0 DEF Strict, Progress, Ready, Applied, Dealt, PassedOver, ShouldExtract, Scanned,
         InStream, On
  <2>3. Earned'
      BY <2>0 DEF Strict, Earned, Applied, Owned, On
  <2>4. Judging'
      BY <2>0 DEF Strict, Judging, Elected, Verdict
  <2>5. AllJudged'
      BY <1>2 DEF AllJudged, Phases
  <2> QED BY <2>1, <2>2, <2>3, <2>4, <2>5 DEF Strict
<1> QED BY <1>1, <1>2, <1>3, <1>4 DEF IInv

LEMMA FinishRehashIInv == ASSUME IInv, FinishRehash PROVE IInv'
<1> USE DEF work, pass, pool, FinishRehash, Verdict
<1>1. Typed'
    BY DEF IInv, Typed, TypeOK
<1>2. Phases'
    BY DEF IInv, Phases
<1>3. Position'
    BY DEF IInv, Position, AtMember, here
<1>4. (~On("force"))' => Strict'
  <2> SUFFICES ASSUME (~On("force"))' PROVE Strict'
      OBVIOUS
  <2>0. ~On("force") /\ Typed /\ Phases /\ Position /\ Strict
      BY DEF IInv, On
  <2>1. Provided'
      BY <2>0 DEF Strict, Provided, Ready, Applied, Selected, On
  <2>2. Progress'
      BY <2>0 DEF Strict, Progress, Ready, Applied, Dealt, PassedOver, ShouldExtract, Scanned,
         InStream, On
  <2>3. Earned'
      BY <2>0 DEF Strict, Earned, Applied, Owned, On
  <2>4. Judging'
      BY <2>0 DEF Strict, Judging, Elected
  <2>5. AllJudged'
      BY <1>2 DEF AllJudged, Phases
  <2> QED BY <2>1, <2>2, <2>3, <2>4, <2>5 DEF Strict
<1> QED BY <1>1, <1>2, <1>3, <1>4 DEF IInv

LEMMA AbortRehashIInv == ASSUME IInv, AbortRehash PROVE IInv'
<1> USE DEF work, pass, pool, AbortRehash
<1>1. Typed'
    BY DEF IInv, Typed, TypeOK
<1>2. Phases'
    BY DEF IInv, Phases
<1>3. Position'
    BY DEF IInv, Position, AtMember, here
<1>4. (~On("force"))' => Strict'
  <2> SUFFICES ASSUME (~On("force"))' PROVE Strict'
      OBVIOUS
  <2>0. ~On("force") /\ Typed /\ Phases /\ Position /\ Strict
      BY DEF IInv, On
  <2>1. Provided'
      BY <2>0 DEF Strict, Provided, Ready, Applied, Selected, On
  <2>2. Progress'
      BY <2>0 DEF Strict, Progress, Ready, Applied, Dealt, PassedOver, ShouldExtract, Scanned,
         InStream, On
  <2>3. Earned'
      BY <2>0 DEF Strict, Earned, Applied, Owned, On
  <2>4. Judging'
      BY <2>0 DEF Strict, Judging, Elected, Verdict
  <2>5. AllJudged'
      BY <1>2 DEF AllJudged, Phases
  <2> QED BY <2>1, <2>2, <2>3, <2>4, <2>5 DEF Strict
<1> QED BY <1>1, <1>2, <1>3, <1>4 DEF IInv

LEMMA SignalIInv == ASSUME IInv, Signal PROVE IInv'
<1> USE DEF work, pass, pool, Signal, Settled
<1>1. Typed'
    BY DEF IInv, Typed, TypeOK, here
<1>2. Phases'
    BY DEF IInv, Phases
<1>3. Position'
    BY DEF IInv, Position, AtMember, here
<1>4. (~On("force"))' => Strict'
  <2> SUFFICES ASSUME (~On("force"))' PROVE Strict'
      OBVIOUS
  <2>0. ~On("force") /\ Typed /\ Phases /\ Position /\ Strict
      BY DEF IInv, On
  <2>1. Provided'
      BY <2>0 DEF Strict, Provided, Ready, Applied, Selected, On
  <2>2. Progress'
      BY <2>0 DEF Strict, Progress, Ready, Applied, Dealt, PassedOver, ShouldExtract, Scanned,
         InStream, here, On
  <2>3. Earned'
      BY <2>0 DEF Strict, Earned, Applied, Owned, On
  <2>4. Judging'
      BY <2>0 DEF Strict, Judging, Elected, Verdict
  <2>5. AllJudged'
      BY <2>0 DEF Strict, AllJudged, Judged, Verdicts, Elected, On
  <2> QED BY <2>1, <2>2, <2>3, <2>4, <2>5 DEF Strict
<1> QED BY <1>1, <1>2, <1>3, <1>4 DEF IInv

LEMMA RestartIInv == ASSUME IInv, Restart PROVE IInv'
<1> USE DEF work, pass, pool, Restart, NothingSeen
<1>1. Typed'
    BY DEF IInv, Typed, TypeOK, ScanState, Driving
<1>2. Phases'
    BY DEF Phases, Scanning, Installing
<1>3. Position'
    BY DEF Position, AtMember
<1>4. (~On("force"))' => Strict'
  <2> SUFFICES ASSUME (~On("force"))' PROVE Strict'
      OBVIOUS
  <2>0. ~On("force") /\ Typed /\ Phases /\ Position /\ Strict
      BY DEF IInv, On
  <2>1. Provided'
      BY <2>0 DEF Strict, Provided, Ready, Applied, Selected, On
  <2>2. Progress'
      BY <2>0 DEF Strict, Progress, Ready, Applied, Dealt, PassedOver, ShouldExtract, Scanned,
         Scanning, Installing, InStream, On
  <2>3. Earned'
      BY <2>0 DEF Strict, Earned, Applied, Owned, On
  <2>4. Judging'
      BY <2>0 DEF Strict, Typed, Judging
  <2>5. AllJudged'
      BY <2>0 DEF Strict, AllJudged, Judged, Verdicts, Elected, On
  <2> QED BY <2>1, <2>2, <2>3, <2>4, <2>5 DEF Strict
<1> QED BY <1>1, <1>2, <1>3, <1>4 DEF IInv

LEMMA UnchangedIInv == ASSUME IInv, UNCHANGED vars PROVE IInv'
<1> USE DEF work, pass, pool, vars
<1>1. Typed'
    BY DEF IInv, Typed, TypeOK, here
<1>2. Phases'
    BY DEF IInv, Phases
<1>3. Position'
    BY DEF IInv, Position, AtMember, here
<1>4. (~On("force"))' => Strict'
  <2> SUFFICES ASSUME (~On("force"))' PROVE Strict'
      OBVIOUS
  <2>0. ~On("force") /\ Typed /\ Phases /\ Position /\ Strict
      BY DEF IInv, On
  <2>1. Provided'
      BY <2>0 DEF Strict, Provided, Ready, Applied, Selected, On
  <2>2. Progress'
      BY <2>0 DEF Strict, Progress, Ready, Applied, Dealt, PassedOver, ShouldExtract, Scanned,
         InStream, here, On
  <2>3. Earned'
      BY <2>0 DEF Strict, Earned, Applied, Owned, On
  <2>4. Judging'
      BY <2>0 DEF Strict, Judging, Elected, Verdict
  <2>5. AllJudged'
      BY <2>0 DEF Strict, AllJudged, Judged, Verdicts, Elected, On
  <2> QED BY <2>1, <2>2, <2>3, <2>4, <2>5 DEF Strict
<1> QED BY <1>1, <1>2, <1>3, <1>4 DEF IInv

LEMMA InitIInv == Init => IInv
<1> SUFFICES ASSUME Init PROVE IInv
    OBVIOUS
<1> USE DEF Init, NothingSeen
<1>0. TypeOK
    BY DEF TypeOK, ScanState
<1>a. /\ window \in [ok: SUBSET Files, bad: SUBSET Files]
      /\ patterns \in BOOLEAN /\ installed \in BOOLEAN
    OBVIOUS
<1>b. first \in BOOLEAN /\ buffer \in BOOLEAN /\ at \in Nat \ {0} /\ skip \in Nat
    OBVIOUS
<1>c. pc \in Driving /\ origin \in {"footer", "stream"} /\ restarts \in Nat
    BY DEF Driving
<1>1. Typed
    BY <1>0, <1>a, <1>b, <1>c DEF Typed
<1>2. Phases /\ Position
    BY DEF Phases, Position, AtMember, Scanning, Installing, Settled
<1>3. Provided
    BY DEF Provided, Ready, Applied, Installing
<1>4. Dealt(0)
    BY NoPayloadBefore DEF Dealt
<1>5. Progress
    BY <1>4 DEF Progress, Scanned, Scanning, Installing
<1>6. Earned /\ Judging /\ AllJudged
    BY DEF Earned, Later, Judging, AllJudged, Elected
<1> QED BY <1>1, <1>2, <1>3, <1>5, <1>6 DEF IInv, Strict

LEMMA ScanStepIInv == ASSUME IInv, ScanStep PROVE IInv'
BY OpenIInv, CopyCatalogueIInv, InitCatalogueIInv, StorePatternsIInv, EagerFilterIInv,
   LoadStateIInv, SkipMemberIInv, BeginMemberIInv, ApplySnapshotIInv, CountMemberIInv,
   BeginPayloadIInv, EndPayloadIInv, FlagPayloadIInv, SaveStateIInv, CheckCacheIInv, GateIInv
DEF ScanStep

LEMMA DriverIInv == ASSUME IInv, Driver PROVE IInv'
BY ScanStepIInv, EnterPhaseIInv, EndScanIInv, VerifyIInv, ApplyFilterIInv, MarkFilteredIInv,
   OpenRehashIInv, CommitIInv, EndRehashIInv
DEF Driver

LEMMA NextIInv == IInv /\ [Next]_vars => IInv'
<1> SUFFICES ASSUME IInv, [Next]_vars PROVE IInv'
    OBVIOUS
<1>1. CASE Driver
    BY <1>1, DriverIInv
<1>2. CASE Worker
    BY <1>2, BeginRehashIInv, FinishRehashIInv, AbortRehashIInv DEF Worker
<1>3. CASE Signal \/ Restart
    BY <1>3, SignalIInv, RestartIInv
<1>4. CASE UNCHANGED vars
    BY <1>4, UnchangedIInv
<1> QED BY <1>1, <1>2, <1>3, <1>4 DEF Next, Stopped

LEMMA Invariance == Spec => []IInv
<1>1. Init => IInv
    BY InitIInv
<1>2. IInv /\ [Next]_vars => IInv'
    BY NextIInv
<1> QED BY <1>1, <1>2, PTL DEF Spec

-----------------------------------------------------------------------------
(* What the extraction promises.                                            *)

\* Type correctness of the extraction, of its saved states and of the payload
\* the driving thread is at, for every archive and every option.
THEOREM ExtractionTyped == Spec => []TypeOK
<1>1. IInv => TypeOK
    BY DEF IInv, Typed
<1> QED BY <1>1, Invariance, PTL

\* Without --force no row leaves the scan by a promotion it has not earned: a
\* final catalogue or a snapshot names it, and its payload was extracted or the
\* eager filter excluded it (the cascade, the release and the gate of scan.rs).
THEOREM PromotionsEarned == Spec => []OnlyConfirmed
<1>1. IInv => OnlyConfirmed
    BY DEF IInv, Strict, Earned, Later, OnlyConfirmed
<1> QED BY <1>1, Invariance, PTL

\* The index of the last member that is saved for a rerun is truthful: what it
\* lets the rerun skip is extracted and whole, or the filter passed over it.
THEOREM SkippedIsDealtWith == Spec => [](~On("force") => IndexTruthful)
<1>1. IInv => (~On("force") => IndexTruthful)
    BY DEF IInv, Strict, Progress, Dealt, PassedOver, IndexTruthful
<1> QED BY <1>1, Invariance, PTL

\* Without --force every elected row past the scan has its whole payload in the
\* extract cache, whichever pass wrote it.
THEOREM PayloadsAreThere == Spec => []ExtractedIsThere
<1>1. IInv => ExtractedIsThere
    BY ElectedWhole DEF IInv, Strict, ExtractedIsThere
<1> QED BY <1>1, Invariance, PTL

\* What reaches the placement is complete: every stored row that the patterns
\* keep is extracted, and in a first run with --rehash each of them is verified
\* and none differs from its digest.
THEOREM PlacementIsComplete == Spec => []CompleteExtraction
<1>1. IInv => CompleteExtraction
  <2> SUFFICES ASSUME IInv, phase = "PlacementPrologue", ~On("force"), patterns,
                      NEW f \in arc.want \cap sessioned
               PROVE  /\ f \in extracted \cap chosen
                      /\ On("rehash") /\ restarts = 0 =>
                            f \in verified \ (mismatched \cup arc.corrupt)
      BY DEF CompleteExtraction
  <2>1. Typed /\ Strict
      BY DEF IInv
  <2>2. f \in Files
      BY <2>1, ArchiveTypes DEF Typed
  <2>3. f \in chosen
      BY <2>1 DEF Strict, Earned, Provided, Selected
  <2>4. f \in extracted
      BY <2>1, <2>2, <2>3 DEF Strict, Earned
  <2>5. ASSUME On("rehash"), restarts = 0
        PROVE  f \in verified \ (mismatched \cup arc.corrupt)
    <3>1. mismatched = {} /\ unread = {} /\ verified \cap arc.corrupt = {}
        BY <2>1, <2>5 DEF Strict, Judging
    <3>2. Cardinality(Verdicts(f)) = 1
        BY <2>1, <2>2, <2>3, <2>4, <2>5 DEF Strict, AllJudged, Judged, Elected
    <3>3. Verdicts(f) # {}
        BY <3>2, FS_EmptySet
    <3>4. f \in verified
        BY <3>1, <3>3 DEF Verdicts
    <3> QED BY <3>1, <3>4
  <2> QED BY <2>3, <2>4, <2>5
<1> QED BY <1>1, Invariance, PTL
=============================================================================
