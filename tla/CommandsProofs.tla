--------------------------- MODULE CommandsProofs ---------------------------
(***************************************************************************)
(* What settings come to, for any lines, hosts and files, and any number   *)
(* of commands and of crashes: those of an archive are those that were     *)
(* asked for (StrayHasCause), a file gets no owner, group, mode or name    *)
(* that no line asked for (NothingUnasked), and gets an id where validated *)
(* maps speak of it (CliMapsEmit).                                         *)
(*                                                                         *)
(* RunFresh writes the rows one after the other, and a crash leaves what   *)
(* is written.  The first invariant says how many there are at every step  *)
(* of the command, and that between commands there are none, the phase     *)
(* alone, or all of them, or the stray is noted.  The second follows the   *)
(* finished catalogue into the extraction and its database.                *)
(***************************************************************************)
EXTENDS Commands, SequenceTheorems, WellFoundedInduction, TLAPS

-----------------------------------------------------------------------------
(* What the resolution of owners promises for every policy, host and file.  *)

\* A file as the catalogue describes one side of it.
SideOf == [name: Names \cup {NULL}, id: Ids \cup {NULL}]

LEMMA MapOfType ==
    ASSUME NEW p \in Policy, NEW s \in Sides
    PROVE  MapOf(p, s) \in Map
  BY DEF MapOf, EmptyMap, Map, Policy

LEMMA ChosenType ==
    ASSUME NEW f \in SideOf, NEW map \in Map
    PROVE  /\ Chosen(f.name, f.id, map) \in IdentitySpec \cup {NULL}
           /\ Chosen(f.name, f.id, map) # NULL =>
                \/ \E n \in Names: Chosen(f.name, f.id, map) = map.by_name[n]
                \/ \E u \in Ids: Chosen(f.name, f.id, map) = map.by_id[u]
  BY DEF Chosen, OrElse, SideOf, Map

\* A resolution never invents an owner: it answers an id of the map, of the
\* override, of the host or of the archive, or leaves the file alone.
THEOREM ResolvesToId ==
    ASSUME NEW p \in Policy, NEW s \in Sides, NEW f \in SideOf, NEW target \in Targets,
           NEW same \in BOOLEAN, NEW names \in [Names -> Ids \cup {NULL}]
    PROVE  ResolveIdentity(f.name, f.id, MapOf(p, s), p.override[s], target, same, names)
             \in Ids \cup {NULL}
  <1> DEFINE c == Chosen(f.name, f.id, MapOf(p, s))
             o == p.override[s]
  <1>1. c \in IdentitySpec \cup {NULL}
    BY MapOfType, ChosenType
  <1>2. o \in IdentitySpec \cup {NULL}
    BY DEF Policy
  <1>3. f.name \in Names \cup {NULL} /\ f.id \in Ids \cup {NULL}
    BY DEF SideOf
  <1> HIDE DEF c, o
  <1>4. ResolveIds(c, f.id, o, same) \in Ids \cup {NULL}
    BY <1>1, <1>2, <1>3 DEF ResolveIds, OrElse, Field, IdentitySpec
  <1>5. ResolveNames(c, f.name, o, same, names) \in Ids \cup {NULL}
    BY <1>1, <1>2, <1>3 DEF ResolveNames, EffectiveName, OrElse, Field, IdentitySpec
  <1>6. QED
    BY <1>4, <1>5 DEF ResolveIdentity, ResolveNameId, ResolveIdName, OrElse, Targets, c, o

\* --validate-maps keeps its word: once the maps are accepted, every file that a
\* map entry or an override covers gets an id, whatever the target; nothing that
\* was mapped is silently left to the extracting process.
THEOREM ValidatedEmits ==
    ASSUME NEW p \in Policy, NEW s \in Sides, NEW f \in SideOf, NEW target \in Targets,
           NEW same \in BOOLEAN, NEW host \in Lookup,
           ValidateForResolutionMode(p, target, host),
           Chosen(f.name, f.id, MapOf(p, s)) # NULL \/ p.override[s] # NULL
    PROVE  ResolveIdentity(f.name, f.id, MapOf(p, s), p.override[s], target, same, host[s]) # NULL
  <1> DEFINE c == Chosen(f.name, f.id, MapOf(p, s))
             o == p.override[s]
             names == host[s]
  <1>1. MapOf(p, s) \in Map
    BY MapOfType
  <1>2. c \in IdentitySpec \cup {NULL} /\ (c # NULL => c \in Destinations(p, s))
    BY <1>1, ChosenType DEF Destinations
  <1>3. o \in IdentitySpec \cup {NULL} /\ o \in Destinations(p, s)
    BY DEF Policy, Destinations
  <1>4. \A dst \in {c, o} \ {NULL}: CheckDst(dst, target, names)
    BY <1>2, <1>3 DEF ValidateForResolutionMode
  <1>5. names \in [Names -> Ids \cup {NULL}]
    BY DEF Lookup
  <1>6. c # NULL \/ o # NULL
    OBVIOUS
  <1>7. f.name \in Names \cup {NULL} /\ f.id \in Ids \cup {NULL}
    BY DEF SideOf
  <1> HIDE DEF c, o, names
  <1>8. target \notin {"names"} /\ (Field(c, "id") # NULL \/ Field(o, "id") # NULL)
          => ResolveIds(c, f.id, o, same) # NULL
    BY DEF ResolveIds, OrElse
  <1>9. Field(c, "name") # NULL \/ Field(o, "name") # NULL
          => ResolveNames(c, f.name, o, same, names) # NULL
    BY <1>2, <1>3, <1>4 DEF ResolveNames, EffectiveName, OrElse, Field, CheckDst, IdentitySpec
  <1>10. \/ Field(c, "id") # NULL \/ Field(o, "id") # NULL
         \/ Field(c, "name") # NULL \/ Field(o, "name") # NULL
    BY <1>2, <1>3, <1>6 DEF Field, IdentitySpec
  <1>11. CASE target = "ids"
    <2>1. Field(c, "id") # NULL \/ Field(o, "id") # NULL
      BY <1>4, <1>6, <1>11 DEF CheckDst, Field
    <2>2. QED
      BY <1>8, <1>11, <2>1 DEF ResolveIdentity, c, o, names
  <1>12. CASE target = "names"
    <2>1. Field(c, "name") # NULL \/ Field(o, "name") # NULL
      BY <1>4, <1>6, <1>12 DEF CheckDst, Field
    <2>2. QED
      BY <1>9, <1>12, <2>1 DEF ResolveIdentity, c, o, names
  <1>13. CASE target \in {"name-id", "id-name"}
    BY <1>8, <1>9, <1>10, <1>13
       DEF ResolveIdentity, ResolveNameId, ResolveIdName, OrElse, c, o, names
  <1>14. QED
    BY <1>11, <1>12, <1>13 DEF Targets

\* With a target of one kind an accepted map decides alone: neither the override
\* nor the archived owner replaces the destination of a file that the map names.
THEOREM ValidatedMapDecides ==
    ASSUME NEW p \in Policy, NEW s \in Sides, NEW f \in SideOf,
           NEW same \in BOOLEAN, NEW host \in Lookup, NEW target \in {"ids", "names"},
           ValidateForResolutionMode(p, target, host),
           Chosen(f.name, f.id, MapOf(p, s)) # NULL
    PROVE  LET dst == Chosen(f.name, f.id, MapOf(p, s))
           IN  ResolveIdentity(f.name, f.id, MapOf(p, s), p.override[s], target, same, host[s])
                 = IF target = "ids" THEN dst.id ELSE host[s][dst.name]
  <1> DEFINE c == Chosen(f.name, f.id, MapOf(p, s))
  <1>1. c \in Destinations(p, s)
    BY MapOfType, ChosenType DEF Destinations
  <1>2. CheckDst(c, target, host[s])
    BY <1>1 DEF ValidateForResolutionMode
  <1>3. c # NULL
    OBVIOUS
  <1> HIDE DEF c
  <1>4. QED
    BY <1>2, <1>3 DEF ResolveIdentity, ResolveIds, ResolveNames, EffectiveName,
                      OrElse, Field, CheckDst, c

\* Without --same-owner a file that no map entry and no override covers keeps
\* the owner that the extracting process gave it, whatever the archive says.
THEOREM LeftAlone ==
    ASSUME NEW p, NEW s, NEW f, NEW target \in Targets, NEW names,
           Chosen(f.name, f.id, MapOf(p, s)) = NULL, p.override[s] = NULL
    PROVE  ResolveIdentity(f.name, f.id, MapOf(p, s), p.override[s], target, FALSE, names) = NULL
  <1> DEFINE c == Chosen(f.name, f.id, MapOf(p, s))
             o == p.override[s]
  <1>1. c = NULL /\ o = NULL
    OBVIOUS
  <1> HIDE DEF c, o
  <1>2. ResolveIds(c, f.id, o, FALSE) = NULL
    BY <1>1 DEF ResolveIds, OrElse, Field
  <1>3. ResolveNames(c, f.name, o, FALSE, names) = NULL
    BY <1>1 DEF ResolveNames, EffectiveName, OrElse, Field
  <1>4. QED
    BY <1>2, <1>3 DEF ResolveIdentity, ResolveNameId, ResolveIdName, OrElse, Targets, c, o
-----------------------------------------------------------------------------
(* What the command line and the map files come to. *)

LEMMA SpecTyped ==
    ASSUME NEW t \in Text, ParseSpec(t) # Bad
    PROVE  ParseSpec(t) \in IdentitySpec
  BY IdentityAssumption DEF ParseSpec, Text, IdentitySpec

\* A set of numbers has a least one, and the lines of a file a last one.
LEMMA LeastNumber ==
    ASSUME NEW S \in SUBSET Nat, S # {}
    PROVE  \E x \in S: \A y \in S: x <= y
  <1> DEFINE R == {ss \in Nat \X Nat: ss[1] < ss[2]}
  <1>1. IsWellFoundedOn(R, Nat)
    BY NatLessThanWellFounded, Zenon DEF OpToRel
  <1> HIDE DEF R
  <1>2. PICK x \in S: \A y \in S: ~(<<y, x>> \in R)
    BY <1>1, WFMin, Zenon
  <1>3. \A y \in S: ~(y < x)
    BY <1>2 DEF R
  <1> QED BY <1>3

LEMMA LastOf ==
    ASSUME NEW n \in Nat, NEW of \in SUBSET (1..n), of # {}
    PROVE  (CHOOSE i \in of: \A j \in of: j <= i) \in of
  <1> DEFINE S == {n - i: i \in of}
  <1>1. S \in SUBSET Nat /\ S # {}
    <2>1. \A i \in of: i \in 1..n /\ n - i \in Nat
      OBVIOUS
    <2> QED BY <2>1
  <1> HIDE DEF S
  <1>2. PICK x \in S: \A y \in S: x <= y
    BY <1>1, LeastNumber
  <1>3. PICK i \in of: n - i = x
    BY DEF S
  <1>4. \A j \in of: j <= i
    BY <1>2, <1>3 DEF S
  <1> QED BY <1>4

\* A map file that is read is a map.
LEMMA MapTyped ==
    ASSUME NEW lines \in Seq(Seq(Text)), ParseMapFile(lines) # Bad
    PROVE  ParseMapFile(lines) \in Map \cup {NULL}
  <1> DEFINE kept == {i \in DOMAIN lines: lines[i] # <<>>}
             entries == ReadMapFileEntries(lines)
             last(of) == IF of = {} THEN NULL ELSE entries[CHOOSE i \in of: \A j \in of: j <= i][2]
  <1>1. entries # Bad
    BY DEF ParseMapFile
  <1>2. /\ DOMAIN entries = kept
        /\ \A i \in kept: /\ entries[i] = <<ParseSpec(lines[i][1]), ParseSpec(lines[i][2])>>
                          /\ Len(lines[i]) = 2 /\ ParseSpec(lines[i][2]) # Bad
    BY <1>1 DEF ReadMapFileEntries
  <1>3. \A i \in kept: entries[i][2] \in IdentitySpec
    <2>1. SUFFICES ASSUME NEW i \in kept
                   PROVE  entries[i][2] \in IdentitySpec
      OBVIOUS
    <2>2. lines[i] \in Seq(Text) /\ Len(lines[i]) = 2
      BY <1>2
    <2>3. 2 \in 1..Len(lines[i])
      BY <2>2
    <2>4. lines[i][2] \in Text
      BY <2>2, <2>3, ElementOfSeq, Zenon
    <2> QED BY <1>2, <2>4, SpecTyped
  <1>4. \A of \in SUBSET kept: last(of) \in IdentitySpec \cup {NULL}
    <2>1. SUFFICES ASSUME NEW of \in SUBSET kept, of # {}
                   PROVE  (CHOOSE i \in of: \A j \in of: j <= i) \in of
      BY <1>3
    <2>2. of \in SUBSET (1..Len(lines)) /\ Len(lines) \in Nat
      OBVIOUS
    <2> QED BY <2>1, <2>2, LastOf
  <1> HIDE DEF kept, entries
  <1>5. ParseMapFile(lines) \in {NULL, FromEntries(entries)}
    BY <1>1 DEF ParseMapFile, entries
  <1>6. FromEntries(entries) =
           [by_name |-> [n \in Names |-> last({i \in DOMAIN entries: entries[i][1].name = n})],
            by_id |-> [u \in Ids |-> last({i \in DOMAIN entries: entries[i][1].id = u})]]
    BY DEF FromEntries
  <1>7. /\ \A n \in Names: last({i \in DOMAIN entries: entries[i][1].name = n})
                              \in IdentitySpec \cup {NULL}
        /\ \A u \in Ids: last({i \in DOMAIN entries: entries[i][1].id = u})
                              \in IdentitySpec \cup {NULL}
    BY <1>2, <1>4
  <1> HIDE DEF last
  <1>8. FromEntries(entries) \in Map
    BY <1>6, <1>7 DEF Map
  <1> QED BY <1>5, <1>8

\* What a line says of owners and groups is a policy, or nothing, or refused.
LEMMA PolicyTyped ==
    ASSUME NEW texts \in [Sides -> Text \cup {NULL}],
           NEW files \in [Sides -> Seq(Seq(Text)) \cup {NULL}],
           ParseOwnerGroupArgs(texts, files) \notin {Bad, NULL}
    PROVE  ParseOwnerGroupArgs(texts, files) \in Policy
  <1> DEFINE map == [s \in Sides |-> IF files[s] = NULL THEN NULL ELSE ParseMapFile(files[s])]
             override == [s \in Sides |-> IF texts[s] = NULL THEN NULL ELSE ParseSpec(texts[s])]
             p == [map |-> map, override |-> override]
  <1>1. ParseOwnerGroupArgs(texts, files) = PolicyOfParts(p)
    BY DEF ParseOwnerGroupArgs
  <1>2. p.map = map /\ p.override = override
    OBVIOUS
  <1> HIDE DEF p
  <1>3. ParseOwnerGroupArgs(texts, files) = p
    BY <1>1 DEF PolicyOfParts
  <1>4. \A s \in Sides: map[s] # Bad /\ override[s] # Bad
    BY <1>1, <1>2, PolicyOfParts(p) # Bad DEF PolicyOfParts
  <1>5. \A s \in Sides: map[s] \in Map \cup {NULL}
    BY <1>4, MapTyped
  <1>6. \A s \in Sides: override[s] \in IdentitySpec \cup {NULL}
    BY <1>4, SpecTyped
  <1> QED BY <1>3, <1>5, <1>6 DEF p, Policy

-----------------------------------------------------------------------------
(* The commands.                                                           *)

Fields(db) ==
    db = [phase |-> db.phase, config |-> db.config, patterns |-> db.patterns,
          policy |-> db.policy, mode |-> db.mode, transform |-> db.transform,
          file |-> db.file, asked |-> db.asked, strayed |-> db.strayed]

LoopPhases == Phases \ {"done"}

\* How many of the writes of RunFresh are done at a step of the command.
Done(at) ==
    CASE at = "save" -> 0 [] at = "config" -> 1 [] at = "filters" -> 2 [] at = "policy" -> 3
      [] at = "mode" -> 4 [] at = "transform" -> 5 [] OTHER -> 6

\* The first n rows are those of the line, and the others are not there.
Rows(db, n) ==
    LET c == BuildArchive(db.asked)
    IN  /\ db.config = IF n >= 2 THEN c ELSE NULL
        /\ db.patterns = IF n >= 3 THEN c.filter.patterns ELSE {}
        /\ db.policy = IF n >= 4 THEN PolicyOf(c.identity) ELSE NULL
        /\ db.mode = IF n >= 5 THEN c.capture.mode ELSE NULL
        /\ db.transform = IF n >= 6 THEN c.capture.transform ELSE NULL
        /\ IF n = 0 THEN db.phase = NULL
           ELSE IF n < 6 THEN db.phase = "inventory" ELSE db.phase \in Phases
        /\ db.phase \notin {NULL, "inventory"} => db.file = Captured(c)

ArchiveSteps == FreshSteps \cup {"loop", "footer", "cleanup"}
Archiving == proc # NULL /\ proc.cmd = "archive"

ProcShape ==
    proc # NULL =>
        proc = [cmd |-> proc.cmd, config |-> proc.config, line |-> proc.line, at |-> proc.at]

Asked ==
    adb # NULL \/ Archiving =>
        /\ Fields(adb)
        /\ adb.phase \in Phases \cup {NULL}
        /\ adb.phase = NULL => adb.strayed = {}
        /\ adb.strayed = {} =>
              /\ adb.asked \in ArchiveLines
              /\ BuildArchive(adb.asked) = ArchiveConfig(adb.asked)

\* A command that archives works with the configuration of its database.
Works ==
    Archiving =>
        /\ proc.at \in ArchiveSteps
        /\ proc.at \in FreshSteps \ {"save"} => adb.phase = "inventory"
        /\ proc.at = "loop" => adb.phase \in LoopPhases
        /\ proc.at = "footer" => adb.phase = "archive"
        /\ adb.strayed = {} =>
              /\ Rows(adb, Done(proc.at))
              /\ proc.config.capture = BuildArchive(adb.asked).capture
              /\ proc.at \in FreshSteps =>
                    proc.config = BuildArchive(adb.asked) /\ proc.line = NULL

Rests == adb # NULL /\ ~Archiving /\ adb.strayed = {} => \E n \in {0, 1, 6}: Rows(adb, n)

\* Where a configuration is stored, it is one that can be resumed.
Configured(c) == c = NULL \/ "process" \in DOMAIN c

Kept ==
    /\ adb # NULL \/ Archiving => Configured(adb.config)
    /\ Archiving => "process" \in DOMAIN proc.config
    /\ archive # NULL => Configured(archive.config)
    /\ proc # NULL /\ proc.cmd # "archive" => archive # NULL

\* An extraction works on a database of this shape.
Extracting == proc # NULL /\ proc.cmd # "archive" /\ proc.at # "scan"
ExtractShape(db) ==
    /\ db = [meta |-> db.meta, phase |-> db.phase, config |-> db.config,
             patterns |-> db.patterns, transform |-> db.transform, restored |-> db.restored]
    /\ Configured(db.meta.config)
StoredShape == xdb # NULL \/ Extracting => ExtractShape(xdb)

IInv == ProcShape /\ Asked /\ Works /\ Rests /\ Kept /\ StoredShape /\ StrayHasCause

-----------------------------------------------------------------------------
(* Databases and commands are records: what an EXCEPT changes of them. *)

LEMMA Updates ==
    ASSUME NEW db, Fields(db), NEW x
    PROVE  /\ [db EXCEPT !.phase = x] =
                [phase |-> x, config |-> db.config, patterns |-> db.patterns,
                 policy |-> db.policy, mode |-> db.mode, transform |-> db.transform,
                 file |-> db.file, asked |-> db.asked, strayed |-> db.strayed]
           /\ [db EXCEPT !.config = x] =
                [phase |-> db.phase, config |-> x, patterns |-> db.patterns,
                 policy |-> db.policy, mode |-> db.mode, transform |-> db.transform,
                 file |-> db.file, asked |-> db.asked, strayed |-> db.strayed]
           /\ [db EXCEPT !.patterns = x] =
                [phase |-> db.phase, config |-> db.config, patterns |-> x,
                 policy |-> db.policy, mode |-> db.mode, transform |-> db.transform,
                 file |-> db.file, asked |-> db.asked, strayed |-> db.strayed]
           /\ [db EXCEPT !.policy = x] =
                [phase |-> db.phase, config |-> db.config, patterns |-> db.patterns,
                 policy |-> x, mode |-> db.mode, transform |-> db.transform,
                 file |-> db.file, asked |-> db.asked, strayed |-> db.strayed]
           /\ [db EXCEPT !.mode = x] =
                [phase |-> db.phase, config |-> db.config, patterns |-> db.patterns,
                 policy |-> db.policy, mode |-> x, transform |-> db.transform,
                 file |-> db.file, asked |-> db.asked, strayed |-> db.strayed]
           /\ [db EXCEPT !.transform = x] =
                [phase |-> db.phase, config |-> db.config, patterns |-> db.patterns,
                 policy |-> db.policy, mode |-> db.mode, transform |-> x,
                 file |-> db.file, asked |-> db.asked, strayed |-> db.strayed]
           /\ [db EXCEPT !.file = x] =
                [phase |-> db.phase, config |-> db.config, patterns |-> db.patterns,
                 policy |-> db.policy, mode |-> db.mode, transform |-> db.transform,
                 file |-> x, asked |-> db.asked, strayed |-> db.strayed]
           /\ [db EXCEPT !.strayed = x] =
                [phase |-> db.phase, config |-> db.config, patterns |-> db.patterns,
                 policy |-> db.policy, mode |-> db.mode, transform |-> db.transform,
                 file |-> db.file, asked |-> db.asked, strayed |-> x]
  BY DEF Fields

LEMMA Renewed ==
    ASSUME NEW db, Fields(db), NEW x, NEW y
    PROVE  [db EXCEPT !.asked = x, !.strayed = y] =
              [phase |-> db.phase, config |-> db.config, patterns |-> db.patterns,
               policy |-> db.policy, mode |-> db.mode, transform |-> db.transform,
               file |-> db.file, asked |-> x, strayed |-> y]
  <1> DEFINE d == [db EXCEPT !.asked = x, !.strayed = y]
  <1>1. DOMAIN db = {"phase", "config", "patterns", "policy", "mode", "transform", "file",
                     "asked", "strayed"}
    BY DEF Fields
  <1>2. d = [f \in DOMAIN db |-> IF f = "strayed" THEN y ELSE IF f = "asked" THEN x ELSE db[f]]
    BY <1>1
  <1> QED BY <1>1, <1>2

LEMMA Moves ==
    ASSUME ProcShape, proc # NULL, NEW at
    PROVE  [proc EXCEPT !.at = at] =
              [cmd |-> proc.cmd, config |-> proc.config, line |-> proc.line, at |-> at]
  BY DEF ProcShape

\* A configuration that BuildArchive gives is the one that is built.
LEMMA Built ==
    ASSUME NEW line, BuildArchive(line) # Bad
    PROVE  BuildArchive(line) = ArchiveConfig(line)
  BY DEF BuildArchive

\* The overrides of a resume leave what is captured.
LEMMA ResumedCaptures ==
    ASSUME NEW line, NEW over
    PROVE  Resumed(ArchiveConfig(line), over).capture = ArchiveConfig(line).capture
  BY DEF Resumed, ArchiveConfig

LEMMA SameExtraction ==
    ASSUME StoredShape, xdb' = xdb, proc' = NULL \/ proc'.cmd = "archive" \/ proc'.at = "scan"
    PROVE  StoredShape'
  BY DEF StoredShape, ExtractShape, Configured, Extracting

-----------------------------------------------------------------------------
(* The start. *)

LEMMA Initially == Init => IInv
  BY DEF Init, IInv, ProcShape, Asked, Works, Rests, Kept, StoredShape, Extracting, Archiving,
         StrayHasCause

LEMMA BlankRows == Fields(NoRows) /\ NoRows.phase = NULL
  BY DEF NoRows, Fields

\* Without a command, a database that no phase was saved in has none of the rows.
LEMMA NothingWritten ==
    ASSUME IInv, ~Archiving, adb # NULL, adb.phase = NULL
    PROVE  Rows(adb, 0)
  <1>1. PICK n \in {0, 1, 6}: Rows(adb, n)
    BY DEF IInv, Asked, Rests
  <1>2. n = 0
    BY <1>1, CommandsAssumption DEF Rows, Phases
  <1> QED BY <1>1, <1>2

LEMMA ArchiveStarts ==
    ASSUME IInv, ArchiveCommand
    PROVE  IInv'
  <1>1. PICK line \in ArchiveLines:
           BuildArchive(line) # Bad /\ StartArchive(BuildArchive(line), line, TRUE)
    BY DEF ArchiveCommand
  <1> DEFINE c == BuildArchive(line)
             db == IF c.process.start = "fresh" THEN NULL ELSE adb
             rows == IF db = NULL THEN NoRows ELSE db
             action == ResolveStart(c.process.start, Incomplete(db), archive # NULL)
             strayed == IF rows.phase = NULL THEN {} ELSE {"reused"}
  <1>2. c = ArchiveConfig(line)
    BY <1>1, Built
  <1>3. c.process.start \in {"fresh", "create"}
    BY <1>2 DEF ArchiveConfig, ProcessOptions
  <1>4. proc = NULL /\ ~Archiving
    BY DEF ArchiveCommand, Command, Archiving
  <1>5. action \in {"RunFresh", Bad}
    BY <1>3 DEF ResolveStart
  <1>6. /\ action = Bad => proc' = NULL /\ adb' = db
        /\ action = "RunFresh" =>
              /\ proc' = [cmd |-> "archive", config |-> c, line |-> NULL, at |-> "save"]
              /\ adb' = [rows EXCEPT !.asked = line, !.strayed = strayed]
        /\ archive' = archive
    BY <1>1, CommandsAssumption DEF StartArchive
  <1>0. xdb' = xdb /\ "process" \in DOMAIN c
    BY <1>1, <1>2 DEF StartArchive, ArchiveConfig
  <1>7. ProcShape' /\ StrayHasCause'
    <2>1. ProcShape'
      BY <1>5, <1>6 DEF ProcShape
    <2>2. StrayHasCause'
      BY <1>6 DEF StrayHasCause, IInv, AsAsked
    <2> QED BY <2>1, <2>2
  <1>8. CASE action = "RunFresh"
    <2>1. adb' = [rows EXCEPT !.asked = line, !.strayed = strayed]
      BY <1>6, <1>8
    <2>2. Fields(rows) /\ rows.phase \in Phases \cup {NULL}
      BY <1>4, BlankRows DEF IInv, Asked
    <2>3. adb' = [phase |-> rows.phase, config |-> rows.config, patterns |-> rows.patterns,
                  policy |-> rows.policy, mode |-> rows.mode, transform |-> rows.transform,
                  file |-> rows.file, asked |-> line, strayed |-> strayed]
      BY <2>1, <2>2, Renewed
    <2>4. Asked'
      BY <2>2, <2>3, <1>1, <1>2 DEF Asked, Fields
    <2>5. ASSUME adb'.strayed = {} PROVE Rows(adb, 0)'
      <3>1. rows.phase = NULL
        BY <2>3, <2>5
      <3>2. Rows(rows, 0)
        BY <3>1, <1>4, NothingWritten DEF NoRows, Rows
      <3> QED BY <3>1, <3>2, <2>3 DEF Rows
    <2>6. proc' = [cmd |-> "archive", config |-> c, line |-> NULL, at |-> "save"]
      BY <1>6, <1>8
    <2>7. proc'.at = "save" /\ proc'.config = c /\ proc'.line = NULL /\ Done(proc'.at) = 0
      BY <2>6 DEF Done
    <2>8. Works'
      BY <2>3, <2>5, <2>7 DEF Works, ArchiveSteps, FreshSteps
    <2>9. Rests'
      BY <2>5 DEF Rests
    <2>10. Configured(rows.config)
      BY <1>4 DEF IInv, Kept, Configured, NoRows
    <2>11. Kept'
      BY <1>0, <1>6, <2>3, <2>6, <2>10 DEF IInv, Kept, Configured
    <2>12. StoredShape'
      BY <1>0, <2>6, SameExtraction DEF IInv
    <2> QED BY <1>7, <2>4, <2>8, <2>9, <2>11, <2>12 DEF IInv
  <1>9. CASE action = Bad
    <2>1. proc' = NULL /\ adb' = adb
      BY <1>6, <1>9, CommandsAssumption DEF ResolveStart
    <2>2. StoredShape'
      BY <2>1, <1>0, SameExtraction DEF IInv
    <2> QED BY <2>1, <2>2, <1>0, <1>4, <1>6, <1>7
          DEF IInv, Asked, Works, Rests, Kept, Archiving, Fields, Rows, Configured
  <1> QED BY <1>5, <1>8, <1>9

\* A configuration that is resumed: of this database, or of another.
LEMMA Resumes ==
    ASSUME IInv, ResumeCommand, NEW line, NEW stored, NEW own \in BOOLEAN,
           own => adb # NULL /\ adb.config # NULL /\ stored = adb.config,
           "process" \in DOMAIN stored,
           StartArchive(Resumed(stored, line), NULL, own)
    PROVE  IInv'
  <1> DEFINE c == Resumed(stored, line)
             strayed == IF own THEN adb.strayed ELSE adb.strayed \cup {"foreign"}
             action == ResolveStart("resume", Incomplete(adb), archive # NULL)
  <1>0. c.process.start = "resume" /\ "process" \in DOMAIN c
    BY DEF Resumed
  <1>2. proc = NULL /\ ~Archiving
    BY DEF ResumeCommand, Command, Archiving
  <1>3. /\ action = "Resume" /\ adb # NULL /\ adb.phase \in LoopPhases
        \/ action = Bad
    BY <1>2 DEF ResolveStart, Incomplete, IInv, Asked, LoopPhases
  <1>4. /\ action = Bad => proc' = NULL /\ adb' = adb
        /\ action = "Resume" =>
              /\ proc' = [cmd |-> "archive", config |-> c, line |-> NULL, at |-> "loop"]
              /\ adb' = [adb EXCEPT !.strayed = strayed]
        /\ archive' = archive /\ xdb' = xdb
    <2>1. ResolveStart(c.process.start, Incomplete(adb), archive # NULL) = action
      BY <1>0
    <2> HIDE DEF action
    <2>2. /\ adb' = CASE action = "RunFresh" -> adb'
                      [] action = "Resume" ->
                           [IF adb = NULL THEN NoRows ELSE adb EXCEPT
                              !.strayed = IF own THEN @ ELSE @ \cup {"foreign"}]
                      [] OTHER -> adb
          /\ proc' = IF action = Bad THEN NULL
                     ELSE [cmd |-> "archive", config |-> c, line |-> NULL,
                           at |-> IF action = "Resume" THEN "loop" ELSE "save"]
          /\ archive' = archive /\ xdb' = xdb
      BY <1>0, <2>1 DEF StartArchive
    <2> QED BY <1>3, <2>2, CommandsAssumption
  <1>5. ProcShape' /\ StrayHasCause'
    <2>1. ProcShape'
      BY <1>3, <1>4 DEF ProcShape
    <2>2. StrayHasCause'
      BY <1>4 DEF StrayHasCause, IInv, AsAsked
    <2> QED BY <2>1, <2>2
  <1>6. CASE action = Bad
    <2>1. StoredShape'
      BY <1>4, <1>6, SameExtraction DEF IInv
    <2> QED BY <1>2, <1>4, <1>5, <1>6, <2>1
          DEF IInv, Asked, Works, Rests, Kept, Archiving, Fields, Rows, Configured
  <1>7. CASE action = "Resume" /\ adb # NULL /\ adb.phase \in LoopPhases
    <2>1. adb' = [phase |-> adb.phase, config |-> adb.config, patterns |-> adb.patterns,
                  policy |-> adb.policy, mode |-> adb.mode, transform |-> adb.transform,
                  file |-> adb.file, asked |-> adb.asked, strayed |-> strayed]
      BY <1>4, <1>7, Updates DEF IInv, Asked
    <2>2. Asked'
      BY <2>1, <1>7, CommandsAssumption DEF IInv, Asked, Fields, LoopPhases
    <2>3. ASSUME adb'.strayed = {}
          PROVE  Rows(adb, 6) /\ own
      <3>1. own /\ adb.strayed = {}
        BY <2>1, <2>3
      <3>2. PICK n \in {0, 1, 6}: Rows(adb, n)
        BY <3>1, <1>2, <1>7 DEF IInv, Rests
      <3>3. n # 0
        BY <3>2, <1>7, CommandsAssumption DEF Rows, LoopPhases
      <3>4. n # 1
        BY <3>2, <3>1 DEF Rows
      <3> QED BY <3>1, <3>2, <3>3, <3>4
    <2>4. proc'.at = "loop" /\ proc'.config = c /\ Done(proc'.at) = 6
      BY <1>4, <1>7 DEF Done
    <2>5. ASSUME adb'.strayed = {}
          PROVE  Rows(adb, 6)' /\ c.capture = BuildArchive(adb'.asked).capture
      <3>1. stored = BuildArchive(adb.asked) /\ stored = ArchiveConfig(adb.asked)
        BY <2>1, <2>3, <2>5 DEF Rows, IInv, Asked
      <3> QED BY <3>1, <2>1, <2>3, <2>5, ResumedCaptures DEF Rows
    <2>6. Works' /\ Rests'
      BY <2>1, <2>4, <2>5, <1>7 DEF Works, Rests, ArchiveSteps, FreshSteps
    <2>7. Kept'
      BY <1>0, <1>2, <1>4, <1>7, <2>1 DEF IInv, Kept, Configured
    <2>8. StoredShape'
      BY <1>4, <1>7, SameExtraction DEF IInv
    <2> QED BY <1>5, <2>2, <2>6, <2>7, <2>8 DEF IInv
  <1> QED BY <1>3, <1>6, <1>7

LEMMA ResumeStarts ==
    ASSUME IInv, ResumeCommand
    PROVE  IInv'
  <1>1. PICK line \in ResumeLines:
           \/ /\ adb # NULL /\ adb.phase # NULL /\ adb.config # NULL
              /\ StartArchive(Resumed(adb.config, line), NULL, TRUE)
           \/ /\ xdb # NULL /\ xdb.meta.config # NULL
              /\ StartArchive(Resumed(xdb.meta.config, line), NULL, FALSE)
    BY DEF ResumeCommand
  <1>2. CASE /\ adb # NULL /\ adb.config # NULL
             /\ StartArchive(Resumed(adb.config, line), NULL, TRUE)
    <2>1. "process" \in DOMAIN adb.config
      BY <1>2 DEF IInv, Kept, Configured
    <2> QED BY <1>2, <2>1, Resumes
  <1>3. CASE /\ xdb # NULL /\ xdb.meta.config # NULL
             /\ StartArchive(Resumed(xdb.meta.config, line), NULL, FALSE)
    <2>1. "process" \in DOMAIN xdb.meta.config
      BY <1>3 DEF IInv, StoredShape, ExtractShape, Configured
    <2> QED BY <1>3, <2>1, Resumes
  <1> QED BY <1>1, <1>2, <1>3

-----------------------------------------------------------------------------
(* The writes of RunFresh. *)

LEMMA Writes ==
    ASSUME IInv, NEW at \in FreshSteps, NEW next \in (FreshSteps \ {"save"}) \cup {"loop"},
           NEW rows, Write(at, next, rows), Fields(rows), Configured(rows.config),
           rows.asked = adb.asked, rows.strayed = adb.strayed, rows.phase = "inventory",
           adb.strayed = {} => Rows(rows, Done(next))
    PROVE  IInv'
  <1>1. /\ Archiving /\ proc # NULL /\ proc.at = at /\ proc.cmd = "archive"
        /\ adb' = rows /\ archive' = archive /\ xdb' = xdb
    BY DEF Write, Running, Archiving
  <1>2. proc' = [cmd |-> "archive", config |-> proc.config, line |-> proc.line, at |-> next]
    BY <1>1, Moves DEF Write, Goto, IInv
  <1>3. ProcShape' /\ StrayHasCause'
    <2>1. ProcShape'
      BY <1>2 DEF ProcShape
    <2>2. StrayHasCause'
      BY <1>1 DEF StrayHasCause, IInv, AsAsked
    <2> QED BY <2>1, <2>2
  <1>4. Asked'
    BY <1>1, CommandsAssumption DEF Asked, IInv, Fields, Phases
  <1>5. adb.strayed = {} =>
           /\ adb.asked \in ArchiveLines
           /\ proc.config = BuildArchive(adb.asked) /\ proc.line = NULL
    BY <1>1 DEF IInv, Asked, Works
  <1>6. Works'
    BY <1>1, <1>2, <1>5 DEF Works, Rows, ArchiveSteps, LoopPhases, Phases, FreshSteps
  <1>7. Rests'
    <2>1. SUFFICES ASSUME proc' = NULL, adb.strayed = {}
                   PROVE  \E n \in {0, 1, 6}: Rows(rows, n)
      BY <1>1, <1>2 DEF Rests, Rows, Archiving
    <2>2. next = "loop"
      BY <1>2, <1>5, <2>1, CommandsAssumption
    <2> QED BY <2>1, <2>2 DEF Done
  <1>8. Kept'
    BY <1>1, <1>2 DEF IInv, Kept, Configured
  <1>9. StoredShape'
    BY <1>1, <1>2, SameExtraction DEF IInv
  <1> QED BY <1>3, <1>4, <1>6, <1>7, <1>8, <1>9 DEF IInv

\* What an archive command knows at one of its steps.
LEMMA AtStep ==
    ASSUME IInv, NEW at, Running("archive", at)
    PROVE  /\ Archiving /\ proc # NULL /\ proc.at = at /\ proc.cmd = "archive"
           /\ Fields(adb) /\ adb.phase \in Phases \cup {NULL} /\ Configured(adb.config)
           /\ "process" \in DOMAIN proc.config
           /\ at \in FreshSteps \ {"save"} => adb.phase = "inventory"
           /\ adb.strayed = {} =>
                 /\ Rows(adb, Done(at))
                 /\ proc.config.capture = BuildArchive(adb.asked).capture
                 /\ at \in FreshSteps => proc.config = BuildArchive(adb.asked)
  BY DEF Running, Archiving, IInv, Asked, Works, Kept

LEMMA SavesPhase ==
    ASSUME IInv, SaveRuntimeState
    PROVE  IInv'
  <1> DEFINE rows == [adb EXCEPT !.phase = "inventory"]
  <1>1. Running("archive", "save") /\ Write("save", "config", rows)
    BY DEF SaveRuntimeState, Write
  <1>2. rows = [phase |-> "inventory", config |-> adb.config, patterns |-> adb.patterns,
                policy |-> adb.policy, mode |-> adb.mode, transform |-> adb.transform,
                file |-> adb.file, asked |-> adb.asked, strayed |-> adb.strayed]
    BY <1>1, AtStep, Updates
  <1>3. adb.strayed = {} => Rows(rows, Done("config"))
    BY <1>1, <1>2, AtStep DEF Rows, Done
  <1>4. Fields(rows) /\ Configured(rows.config)
    BY <1>1, <1>2, AtStep DEF Fields
  <1> HIDE DEF rows
  <1> QED BY <1>1, <1>2, <1>3, <1>4, Writes DEF FreshSteps

LEMMA SavesConfig ==
    ASSUME IInv, SetArchiveConfig
    PROVE  IInv'
  <1> DEFINE rows == [adb EXCEPT !.config = proc.config]
  <1>1. Running("archive", "config") /\ Write("config", "filters", rows)
    BY DEF SetArchiveConfig, Write
  <1>2. rows = [phase |-> adb.phase, config |-> proc.config, patterns |-> adb.patterns,
                policy |-> adb.policy, mode |-> adb.mode, transform |-> adb.transform,
                file |-> adb.file, asked |-> adb.asked, strayed |-> adb.strayed]
    BY <1>1, AtStep, Updates
  <1>3. adb.strayed = {} => Rows(rows, Done("filters"))
    BY <1>1, <1>2, AtStep DEF Rows, Done, FreshSteps
  <1>4. Fields(rows) /\ Configured(rows.config) /\ rows.phase = "inventory"
    BY <1>1, <1>2, AtStep DEF Fields, Configured, FreshSteps
  <1> HIDE DEF rows
  <1> QED BY <1>1, <1>2, <1>3, <1>4, Writes DEF FreshSteps

LEMMA SavesPatterns ==
    ASSUME IInv, IngestFilters
    PROVE  IInv'
  <1> DEFINE rows == [adb EXCEPT !.patterns = adb.patterns \cup proc.config.filter.patterns]
  <1>1. Running("archive", "filters") /\ Write("filters", "policy", rows)
    BY DEF IngestFilters, Write
  <1>2. rows = [phase |-> adb.phase, config |-> adb.config,
                patterns |-> adb.patterns \cup proc.config.filter.patterns,
                policy |-> adb.policy, mode |-> adb.mode, transform |-> adb.transform,
                file |-> adb.file, asked |-> adb.asked, strayed |-> adb.strayed]
    BY <1>1, AtStep, Updates
  <1>3. adb.strayed = {} => Rows(rows, Done("policy"))
    <2>1. SUFFICES ASSUME adb.strayed = {}
                   PROVE  Rows(rows, Done("policy"))
      OBVIOUS
    <2>2. Rows(adb, 2) /\ proc.config = BuildArchive(adb.asked)
      BY <1>1, <2>1, AtStep DEF Done, FreshSteps
    <2>3. rows.patterns = BuildArchive(adb.asked).filter.patterns
      BY <1>2, <2>2 DEF Rows
    <2> QED BY <1>2, <2>2, <2>3 DEF Rows, Done
  <1>4. Fields(rows) /\ Configured(rows.config) /\ rows.phase = "inventory"
    BY <1>1, <1>2, AtStep DEF Fields, FreshSteps
  <1> HIDE DEF rows
  <1> QED BY <1>1, <1>2, <1>3, <1>4, Writes DEF FreshSteps

LEMMA SavesPolicy ==
    ASSUME IInv, SetOwnerPolicy
    PROVE  IInv'
  <1> DEFINE rows == [adb EXCEPT !.policy = Given(PolicyOf(proc.config.identity), adb.policy)]
  <1>1. Running("archive", "policy") /\ Write("policy", "mode", rows)
    BY DEF SetOwnerPolicy, Write
  <1>2. rows = [phase |-> adb.phase, config |-> adb.config, patterns |-> adb.patterns,
                policy |-> Given(PolicyOf(proc.config.identity), adb.policy),
                mode |-> adb.mode, transform |-> adb.transform,
                file |-> adb.file, asked |-> adb.asked, strayed |-> adb.strayed]
    BY <1>1, AtStep, Updates
  <1>3. adb.strayed = {} => Rows(rows, Done("mode"))
    BY <1>1, <1>2, AtStep DEF Rows, Done, Given, FreshSteps
  <1>4. Fields(rows) /\ Configured(rows.config) /\ rows.phase = "inventory"
    BY <1>1, <1>2, AtStep DEF Fields, FreshSteps
  <1> HIDE DEF rows
  <1> QED BY <1>1, <1>2, <1>3, <1>4, Writes DEF FreshSteps

LEMMA SavesMode ==
    ASSUME IInv, SetModeChanges
    PROVE  IInv'
  <1> DEFINE rows == [adb EXCEPT !.mode = Given(proc.config.capture.mode, adb.mode)]
  <1>1. Running("archive", "mode") /\ Write("mode", "transform", rows)
    BY DEF SetModeChanges, Write
  <1>2. rows = [phase |-> adb.phase, config |-> adb.config, patterns |-> adb.patterns,
                policy |-> adb.policy, mode |-> Given(proc.config.capture.mode, adb.mode),
                transform |-> adb.transform,
                file |-> adb.file, asked |-> adb.asked, strayed |-> adb.strayed]
    BY <1>1, AtStep, Updates
  <1>3. adb.strayed = {} => Rows(rows, Done("transform"))
    BY <1>1, <1>2, AtStep DEF Rows, Done, Given, FreshSteps
  <1>4. Fields(rows) /\ Configured(rows.config) /\ rows.phase = "inventory"
    BY <1>1, <1>2, AtStep DEF Fields, FreshSteps
  <1> HIDE DEF rows
  <1> QED BY <1>1, <1>2, <1>3, <1>4, Writes DEF FreshSteps

LEMMA SavesTransform ==
    ASSUME IInv, SetTransform
    PROVE  IInv'
  <1> DEFINE rows == [adb EXCEPT !.transform =
                        Given(proc.config.capture.transform, adb.transform)]
  <1>1. Running("archive", "transform") /\ Write("transform", "loop", rows)
    BY DEF SetTransform, Write
  <1>2. rows = [phase |-> adb.phase, config |-> adb.config, patterns |-> adb.patterns,
                policy |-> adb.policy, mode |-> adb.mode,
                transform |-> Given(proc.config.capture.transform, adb.transform),
                file |-> adb.file, asked |-> adb.asked, strayed |-> adb.strayed]
    BY <1>1, AtStep, Updates
  <1>3. adb.strayed = {} => Rows(rows, Done("loop"))
    BY <1>1, <1>2, AtStep DEF Rows, Done, Given, FreshSteps, Phases
  <1>4. Fields(rows) /\ Configured(rows.config) /\ rows.phase = "inventory"
    BY <1>1, <1>2, AtStep DEF Fields, FreshSteps
  <1> HIDE DEF rows
  <1> QED BY <1>1, <1>2, <1>3, <1>4, Writes DEF FreshSteps

-----------------------------------------------------------------------------
(* The phases of an archive run. *)

LEMMA Advances ==
    ASSUME IInv, NEW at \in {"loop", "footer", "cleanup"}, Running("archive", at),
           NEW next \in {"loop", "footer", "cleanup"}, NEW rows,
           adb' = rows, proc' = NULL \/ Goto(next), xdb' = xdb,
           Fields(rows), rows.phase \in Phases \ {"inventory"} \/ rows.phase = adb.phase,
           rows.config = adb.config, rows.asked = adb.asked, rows.strayed = adb.strayed,
           next = "loop" => rows.phase \in LoopPhases,
           next = "footer" => rows.phase = "archive",
           adb.strayed = {} => Rows(rows, 6),
           StrayHasCause', archive' # NULL => Configured(archive'.config)
    PROVE  IInv'
  <1>1. /\ Archiving /\ proc # NULL /\ proc.cmd = "archive" /\ "process" \in DOMAIN proc.config
        /\ Configured(adb.config) /\ Fields(adb)
        /\ adb.strayed = {} => proc.config.capture = BuildArchive(adb.asked).capture
    BY AtStep
  <1>2. \/ proc' = NULL
        \/ proc' = [cmd |-> "archive", config |-> proc.config, line |-> proc.line, at |-> next]
    BY <1>1, Moves DEF Goto, IInv
  <1>3. ProcShape'
    BY <1>2 DEF ProcShape
  <1>4. rows.phase \in Phases
    BY <1>1, CommandsAssumption DEF IInv, Works, Running, LoopPhases, Asked, Rows, Phases, Done
  <1>5. Asked'
    BY <1>1, <1>4, CommandsAssumption DEF Asked, IInv, Fields
  <1>6. Works'
    BY <1>1, <1>2 DEF Works, Rows, ArchiveSteps, FreshSteps, Done, Archiving
  <1>7. Rests'
    BY <1>1 DEF Rests, Rows
  <1>8. Kept'
    BY <1>1, <1>2 DEF IInv, Kept, Configured, Archiving
  <1>9. StoredShape'
    BY <1>2, SameExtraction DEF IInv
  <1> QED BY <1>3, <1>5, <1>6, <1>7, <1>8, <1>9 DEF IInv

\* Where a phase leads: never back to the inventory, to done from archive alone.
LEMMA PhaseAfter ==
    ASSUME NEW phase \in LoopPhases, NEW eager
    PROVE  /\ NextPhase(phase, eager) \in Phases \ {"inventory"}
           /\ phase # "archive" => NextPhase(phase, eager) \in LoopPhases
  BY DEF LoopPhases, Phases, NextPhase

LEMMA RunsPhase ==
    ASSUME IInv, RunPhase
    PROVE  IInv'
  <1> DEFINE before == IF adb.phase = "inventory"
                       THEN [adb EXCEPT !.file = Captured(proc.config)] ELSE adb
             next == NextPhase(adb.phase, proc.config.filter.eager)
             rows == [before EXCEPT !.phase = next]
             file == IF adb.phase = "inventory" THEN Captured(proc.config) ELSE adb.file
  <1>1. /\ Running("archive", "loop") /\ adb.phase # "archive"
        /\ adb' = rows /\ (proc' = NULL \/ Goto("loop")) /\ xdb' = xdb /\ archive' = archive
    BY DEF RunPhase, FinishPhase
  <1>2. adb.phase \in LoopPhases /\ Fields(adb)
    BY <1>1, AtStep DEF IInv, Works
  <1>3. next \in LoopPhases /\ next \in Phases \ {"inventory"}
    BY <1>1, <1>2, PhaseAfter
  <1> HIDE DEF next
  <1>4. before = [phase |-> adb.phase, config |-> adb.config, patterns |-> adb.patterns,
                  policy |-> adb.policy, mode |-> adb.mode, transform |-> adb.transform,
                  file |-> file, asked |-> adb.asked, strayed |-> adb.strayed]
    <2>1. CASE adb.phase = "inventory"
      BY <1>2, <2>1, Updates
    <2>2. CASE adb.phase # "inventory"
      BY <1>2, <2>2 DEF Fields
    <2> QED BY <2>1, <2>2
  <1> HIDE DEF before, file
  <1>5. Fields(before)
    BY <1>4 DEF Fields
  <1>6. rows = [phase |-> next, config |-> adb.config, patterns |-> adb.patterns,
                policy |-> adb.policy, mode |-> adb.mode, transform |-> adb.transform,
                file |-> file, asked |-> adb.asked, strayed |-> adb.strayed]
    <2>1. rows = [phase |-> next, config |-> before.config, patterns |-> before.patterns,
                  policy |-> before.policy, mode |-> before.mode,
                  transform |-> before.transform, file |-> before.file,
                  asked |-> before.asked, strayed |-> before.strayed]
      BY <1>5, Updates
    <2> QED BY <1>4, <2>1
  <1> HIDE DEF rows
  <1>7. adb.strayed = {} => Rows(rows, 6)
    <2>1. SUFFICES ASSUME adb.strayed = {}
                   PROVE  Rows(rows, 6)
      OBVIOUS
    <2>2. Rows(adb, 6) /\ proc.config.capture = BuildArchive(adb.asked).capture
      BY <1>1, <2>1, AtStep DEF Done
    <2>3. Captured(proc.config) = Captured(BuildArchive(adb.asked))
      BY <2>2 DEF Captured
    <2>4. file = Captured(BuildArchive(adb.asked))
      BY <1>2, <2>2, <2>3, CommandsAssumption DEF file, Rows, LoopPhases
    <2> QED BY <1>3, <1>6, <2>2, <2>4 DEF Rows
  <1>8. Fields(rows)
    BY <1>6 DEF Fields
  <1>9. StrayHasCause' /\ (archive' # NULL => Configured(archive'.config))
    BY <1>1 DEF IInv, StrayHasCause, AsAsked, Kept, Configured
  <1> QED BY <1>1, <1>3, <1>6, <1>7, <1>8, <1>9, Advances

LEMMA BeginsArchive ==
    ASSUME IInv, BeginArchive
    PROVE  IInv'
  <1>1. /\ Running("archive", "loop") /\ adb.phase = "archive"
        /\ adb' = adb /\ Goto("footer") /\ xdb' = xdb /\ archive' = NULL
    BY DEF BeginArchive
  <1>2. Fields(adb) /\ (adb.strayed = {} => Rows(adb, 6))
    BY <1>1, AtStep DEF Done
  <1>3. StrayHasCause'
    BY <1>1 DEF StrayHasCause
  <1> QED BY <1>1, <1>2, <1>3, Advances

LEMMA FinishesArchive ==
    ASSUME IInv, FinishArchive
    PROVE  IInv'
  <1> DEFINE rows == [adb EXCEPT !.phase = "done"]
  <1>1. Running("archive", "footer") /\ adb.phase = "archive" /\ Fields(adb)
    BY AtStep DEF FinishArchive, IInv, Works, Running
  <1>2. /\ adb' = rows /\ (proc' = NULL \/ Goto("cleanup")) /\ xdb' = xdb /\ archive' = adb
    BY <1>1 DEF FinishArchive, FinishPhase, NextPhase
  <1>3. rows = [phase |-> "done", config |-> adb.config, patterns |-> adb.patterns,
                policy |-> adb.policy, mode |-> adb.mode, transform |-> adb.transform,
                file |-> adb.file, asked |-> adb.asked, strayed |-> adb.strayed]
    BY <1>1, Updates
  <1> HIDE DEF rows
  <1>4. adb.strayed = {} => Rows(adb, 6)
    BY <1>1, AtStep DEF Done
  <1>5. adb.strayed = {} => Rows(rows, 6) /\ AsAsked(adb)
    BY <1>1, <1>3, <1>4, CommandsAssumption DEF Rows, Phases, AsAsked
  <1>6. Fields(rows) /\ rows.phase \in Phases \ {"inventory"}
    BY <1>3 DEF Fields, Phases
  <1>7. StrayHasCause'
    BY <1>2, <1>5 DEF StrayHasCause, AsAsked
  <1>8. archive' # NULL => Configured(archive'.config)
    BY <1>1, <1>2, AtStep
  <1> QED BY <1>1, <1>2, <1>3, <1>5, <1>6, <1>7, <1>8, Advances

LEMMA CleansUp ==
    ASSUME IInv, CleanupArchive
    PROVE  IInv'
  <1>1. adb' = NULL /\ proc' = NULL /\ archive' = archive /\ xdb' = xdb
    BY DEF CleanupArchive
  <1>2. StoredShape'
    BY <1>1, SameExtraction DEF IInv
  <1> QED BY <1>1, <1>2 DEF IInv, ProcShape, Asked, Works, Rests, Kept, Archiving,
                            StrayHasCause, AsAsked, Configured

-----------------------------------------------------------------------------
(* Extractions change neither the archive nor its work database. *)

LEMMA Beside ==
    ASSUME IInv, ~Archiving, adb' = adb, archive' = archive, ProcShape', ~Archiving',
           proc' # NULL => archive # NULL, StoredShape'
    PROVE  IInv'
  <1>1. Asked' /\ Works' /\ Rests'
    BY DEF IInv, Asked, Works, Rests, Rows, Fields, Archiving
  <1>2. StrayHasCause'
    BY DEF IInv, StrayHasCause, AsAsked
  <1>3. Kept'
    BY DEF IInv, Kept, Configured
  <1> QED BY <1>1, <1>2, <1>3 DEF IInv

LEMMA ExtractStarts ==
    ASSUME IInv, ExtractCommand
    PROVE  IInv'
  <1>1. /\ proc = NULL /\ archive # NULL /\ adb' = adb /\ archive' = archive
        /\ xdb' \in {NULL, xdb}
    BY DEF ExtractCommand, Command
  <1>2. PICK line, c:
           proc' \in {NULL, [cmd |-> "extract", config |-> c, line |-> line, at |-> "scan"]}
    BY DEF ExtractCommand
  <1>3. ~Archiving /\ ~Archiving' /\ ProcShape'
    BY <1>1, <1>2 DEF Archiving, ProcShape
  <1>4. StoredShape'
    BY <1>1, <1>2 DEF IInv, StoredShape, ExtractShape, Configured, Extracting
  <1> QED BY <1>1, <1>3, <1>4, Beside DEF IInv

LEMMA Extracts ==
    ASSUME IInv,
           Scan \/ Prepare \/ SetExtractConfig \/ RunExtractPhase \/ CleanupExtract
    PROVE  IInv'
  <1>1. /\ proc # NULL /\ proc.cmd = "extract" /\ adb' = adb /\ archive' = archive
        /\ proc' = NULL \/ \E at: Goto(at)
    BY DEF Scan, Prepare, SetExtractConfig, RunExtractPhase, CleanupExtract, Running
  <1>2. ~Archiving /\ archive # NULL /\ Configured(archive.config)
    BY <1>1 DEF Archiving, IInv, Kept
  <1>3. ProcShape' /\ ~Archiving'
    BY <1>1, Moves DEF IInv, ProcShape, Goto, Archiving
  <1>4. xdb # NULL \/ proc.at # "scan" => ExtractShape(xdb)
    BY <1>1 DEF IInv, StoredShape, Extracting
  <1>5. StoredShape'
    <2>2. CASE Scan
      BY <1>2, <1>4, <2>2 DEF Scan, StoredShape, ExtractShape
    <2>3. CASE Prepare
      BY <1>4, <2>3 DEF Prepare, Running, StoredShape, ExtractShape
    <2>4. CASE SetExtractConfig
      BY <1>4, <2>4 DEF SetExtractConfig, Running, StoredShape, ExtractShape
    <2>5. CASE RunExtractPhase
      <3>1. proc.at # "scan" \/ xdb # NULL
        BY <2>5 DEF RunExtractPhase, NextExtractPhase
      <3> QED BY <1>4, <2>5, <3>1 DEF RunExtractPhase, StoredShape, ExtractShape
    <2>6. CASE CleanupExtract
      BY <1>4, <2>6 DEF CleanupExtract, Running, StoredShape, ExtractShape, Extracting
    <2> QED BY <2>2, <2>3, <2>4, <2>5, <2>6
  <1> QED BY <1>1, <1>2, <1>3, <1>5, Beside

-----------------------------------------------------------------------------
(* Every step. *)

LEMMA Crashes ==
    ASSUME IInv, Crash
    PROVE  IInv'
  <1> DEFINE torn == proc.cmd = "archive" /\ proc.at \in {"filters", "policy", "mode", "transform"}
  <1>1. /\ proc # NULL /\ proc' = NULL /\ archive' = archive /\ xdb' = xdb
        /\ adb' = IF torn THEN [adb EXCEPT !.strayed = adb.strayed \cup {"torn"}] ELSE adb
    BY DEF Crash
  <1>2. ProcShape' /\ StrayHasCause' /\ StoredShape'
    <2>1. ProcShape' /\ StoredShape'
      BY <1>1, SameExtraction DEF IInv, ProcShape
    <2>2. StrayHasCause'
      BY <1>1 DEF StrayHasCause, IInv, AsAsked
    <2> QED BY <2>1, <2>2
  <1>3. CASE torn
    <2>1. Archiving /\ Fields(adb)
      BY <1>1, <1>3 DEF Archiving, IInv, Asked
    <2>2. adb' = [phase |-> adb.phase, config |-> adb.config, patterns |-> adb.patterns,
                  policy |-> adb.policy, mode |-> adb.mode, transform |-> adb.transform,
                  file |-> adb.file, asked |-> adb.asked,
                  strayed |-> adb.strayed \cup {"torn"}]
      BY <1>1, <1>3, <2>1, Updates
    <2>3. adb'.strayed # {}
      BY <2>2
    <2>4. adb.phase = "inventory"
      BY <2>1, <1>3 DEF IInv, Works, FreshSteps
    <2>5. Asked'
      BY <2>1, <2>2, <2>3, <2>4, CommandsAssumption DEF IInv, Asked, Fields, Phases
    <2>6. Works' /\ Rests'
      BY <1>1, <2>3 DEF Works, Rests, Archiving
    <2>7. Kept'
      BY <1>1, <2>1, <2>2 DEF IInv, Kept, Configured, Archiving
    <2> QED BY <1>2, <2>5, <2>6, <2>7 DEF IInv
  <1>4. CASE ~torn
    <2>1. adb' = adb
      BY <1>1, <1>4
    <2>2. Asked'
      BY <2>1, <1>1 DEF IInv, Asked, Fields, Archiving
    <2>3. Works'
      BY <1>1 DEF Works, Archiving
    <2>4. ASSUME Archiving, adb.strayed = {}
          PROVE  \E n \in {0, 1, 6}: Rows(adb, n)
      <3>1. Rows(adb, Done(proc.at))
        BY <2>4 DEF IInv, Works
      <3>2. Done(proc.at) \in {0, 1, 6}
        BY <1>4, <2>4 DEF Done, Archiving, IInv, Works, ArchiveSteps, FreshSteps
      <3> QED BY <3>1, <3>2
    <2>5. Rests'
      BY <2>1, <2>4, <1>1 DEF IInv, Rests, Rows
    <2>6. Kept'
      BY <1>1, <2>1 DEF IInv, Kept, Configured, Archiving
    <2> QED BY <1>2, <2>2, <2>3, <2>5, <2>6 DEF IInv
  <1> QED BY <1>3, <1>4

LEMMA TakesArchive ==
    ASSUME IInv, TakeArchive
    PROVE  IInv'
  <1>1. proc = NULL /\ proc' = NULL /\ archive' = NULL /\ adb' = adb /\ xdb' = xdb
    BY DEF TakeArchive
  <1>2. StoredShape'
    BY <1>1, SameExtraction DEF IInv
  <1> QED BY <1>1, <1>2 DEF IInv, ProcShape, Asked, Works, Rests, Rows, Fields, Kept,
                            Archiving, StrayHasCause, Configured

LEMMA Stutters ==
    ASSUME IInv, UNCHANGED vars
    PROVE  IInv'
  BY DEF IInv, ProcShape, Asked, Works, Rests, Rows, Fields, Kept, Configured, StoredShape,
         ExtractShape, Extracting, Archiving, StrayHasCause, AsAsked, vars

\* The invariant: at every step of every command, the rows that RunFresh has
\* come to are those of the line it was started with, and the others blank.
THEOREM Invariance == Spec => []IInv
  <1>1. ASSUME IInv, [Next]_vars
        PROVE  IInv'
    <2>1. CASE ArchiveCommand \/ ResumeCommand \/ ExtractCommand
      BY <1>1, <2>1, ArchiveStarts, ResumeStarts, ExtractStarts
    <2>2. CASE Work
      <3>1. CASE SaveRuntimeState \/ SetArchiveConfig \/ IngestFilters
        BY <1>1, <3>1, SavesPhase, SavesConfig, SavesPatterns
      <3>2. CASE SetOwnerPolicy \/ SetModeChanges \/ SetTransform
        BY <1>1, <3>2, SavesPolicy, SavesMode, SavesTransform
      <3>3. CASE RunPhase \/ BeginArchive \/ FinishArchive \/ CleanupArchive
        BY <1>1, <3>3, RunsPhase, BeginsArchive, FinishesArchive, CleansUp
      <3>4. CASE Scan \/ Prepare \/ SetExtractConfig \/ RunExtractPhase \/ CleanupExtract
        BY <1>1, <3>4, Extracts
      <3> QED BY <2>2, <3>1, <3>2, <3>3, <3>4 DEF Work
    <2>3. CASE Crash \/ TakeArchive
      BY <1>1, <2>3, Crashes, TakesArchive
    <2>4. CASE UNCHANGED vars
      BY <1>1, <2>4, Stutters
    <2> QED BY <1>1, <2>1, <2>2, <2>3, <2>4 DEF Next
  <1> QED BY <1>1, Initially, PTL DEF Spec

\* The settings in a finished archive are those of the archive command that
\* its run was started with, unless a known cause came between.
THEOREM SettingsStand == Spec => []StrayHasCause
  <1>1. IInv => StrayHasCause
    BY DEF IInv
  <1> QED BY <1>1, Invariance, PTL

-----------------------------------------------------------------------------
(* What extractions do with the settings.  A second invariant, beside the  *)
(* archive's: a catalogue without a stray tells of the line it was asked   *)
(* with wherever it went and knows the file, the running extraction works  *)
(* with what its own line comes to, and the expression it renames with is  *)
(* the one its line resolves to until the file has been restored.          *)

FileType == [name: [Sides -> Names \cup {NULL}], id: [Sides -> Ids \cup {NULL}]]

Filed == adb # NULL \/ Archiving =>
             (adb.phase \notin {NULL, "inventory"} => adb.file \in FileType)

Told(db) ==
    /\ db.strayed = {} => AsAsked(db) /\ BuildArchive(db.asked) = ArchiveConfig(db.asked)
    /\ db.file \in FileType

Catalogued ==
    /\ archive # NULL => Told(archive)
    /\ xdb # NULL \/ Extracting => Told(xdb.meta)

Unarchiving == proc # NULL /\ proc.cmd # "archive"
ExtractSteps == {"scan", "prepare", "config", "cleanup", "remove"} \cup DOMAIN NextExtractPhase

Heeded ==
    Unarchiving =>
        /\ proc.cmd = "extract" /\ proc.at \in ExtractSteps
        /\ proc.line \in ExtractLines
        /\ proc.config = ExtractConfig(proc.line, Root, Host)
        /\ Bad \notin {proc.config.policy, proc.config.mode, proc.config.transform}

\* The file is restored once: a run that is done has restored it, and a run
\* that starts over one that is done finds nothing left to restore.
Once ==
    /\ xdb # NULL \/ Extracting =>
          xdb.restored \in BOOLEAN /\ (xdb.phase = "done" => xdb.restored = TRUE)
    /\ xdb # NULL /\ Unarchiving /\ proc.at = "scan" => xdb.restored = TRUE
    /\ Unarchiving /\ proc.at \in {"cleanup", "remove"} => xdb.restored = TRUE

Renames ==
    Unarchiving /\ proc.at \in {"place", "permissions"} /\ xdb.restored = FALSE =>
        xdb.transform = ResolveText(proc.config.transform, xdb.meta.transform)

EInv == Filed /\ Catalogued /\ Heeded /\ Once /\ Renames /\ NothingUnasked /\ CliMapsEmit

-----------------------------------------------------------------------------
(* The id of one side of a file. *)

LEMMA OneOf ==
    ASSUME NEW p, NEW s \in Sides, NEW name \in Names \cup {NULL}, NEW id \in Ids \cup {NULL},
           NEW target \in Targets, NEW same \in BOOLEAN
    PROVE  ResolveIdentity(name, id, MapOf(p, s), p.override[s], target, same, Host[s])
             \in {NULL} \cup Emitted(Destinations(p, s), s)
                        \cup (IF same THEN Emitted({[name |-> name, id |-> id]}, s) ELSE {})
  <1> DEFINE c == Chosen(name, id, MapOf(p, s))
             o == p.override[s]
             d == Destinations(p, s)
             own == [name |-> name, id |-> id]
  <1>1. c \in d \cup {NULL}
    BY IdentityAssumption DEF Chosen, OrElse, Destinations
  <1>2. o \in d
    BY DEF Destinations
  <1>3. /\ own.name = name /\ own.id = id
        /\ name # NULL \/ id # NULL => own # NULL
    <2>1. own.name = name /\ own.id = id
      OBVIOUS
    <2>2. name # NULL \/ id # NULL => own \in IdentitySpec
      BY DEF IdentitySpec
    <2> QED BY <2>1, <2>2, IdentityAssumption
  <1> DEFINE mine == IF same THEN Emitted({own}, s) ELSE {}
             all == {NULL} \cup Emitted(d, s) \cup mine
  <1> HIDE DEF c, o, d, own
  <1>4. same => id \in mine \cup {NULL} /\ (name # NULL => Host[s][name] \in mine)
    BY <1>3 DEF Emitted, Field
  <1>5. ASSUME NEW x \in {c, o}
        PROVE  /\ Field(x, "id") \in Emitted(d, s) \cup {NULL}
               /\ Field(x, "name") # NULL => Host[s][Field(x, "name")] \in Emitted(d, s)
    BY <1>1, <1>2, <1>5 DEF Emitted, Field
  <1>a. \A x, y, z: OrElse(x, OrElse(y, z)) \in {x, y, z}
    BY DEF OrElse
  <1> HIDE DEF mine
  <1>6. ResolveIds(c, id, o, same) \in all
    <2>1. Field(c, "id") \in all /\ Field(o, "id") \in all /\ (same => id \in all)
      BY <1>4, <1>5
    <2> HIDE DEF all
    <2>2. (IF same THEN id ELSE NULL) \in all
      BY <2>1 DEF all
    <2> QED BY <1>a, <2>1, <2>2 DEF ResolveIds
  <1>7. ResolveNames(c, name, o, same, Host[s]) \in all
    <2> DEFINE n == EffectiveName(c, name, o, same)
    <2>1. n # NULL => \/ n \in {Field(c, "name"), Field(o, "name")}
                      \/ same /\ n = name
      BY DEF EffectiveName, OrElse
    <2>2. n # NULL => Host[s][n] \in all
      BY <1>4, <1>5, <2>1
    <2> QED BY <2>2 DEF ResolveNames
  <1> HIDE DEF all
  <1>8. ResolveIdentity(name, id, MapOf(p, s), o, target, same, Host[s]) \in all
    BY <1>6, <1>7 DEF ResolveIdentity, ResolveNameId, ResolveIdName, OrElse, Targets, c
  <1> QED BY <1>8 DEF all, mine, own, o, d

\* The flag that asks for the stored policy of a side.
StoredFlag(s) == IF s = "owner" THEN "apply-stored-owner-map" ELSE "apply-stored-group-map"

\* What a line that was accepted comes to.
LEMMA Configures ==
    ASSUME NEW line \in ExtractLines, NEW c, c = ExtractConfig(line, Root, Host),
           Bad \notin {c.policy, c.mode, c.transform}
    PROVE  LET a == line.attributes
               p == PolicyOf(line.identity)
           IN  /\ a.target \in Targets /\ c.ownerGroup.target = a.target
               /\ c.ownerGroup.same \in BOOLEAN
               /\ c.ownerGroup.same =>
                     "no-same-owner" \notin a.flags /\ ("same-owner" \in a.flags \/ Root)
               /\ "same-permissions" \in c.attributes => Applies(a.flags, "same-permissions")
               /\ c.mode = [from |-> "none"] \/ c.mode = [from |-> "stored"]
                    \/ c.mode = [from |-> "cli", text |-> a.mode]
               /\ \/ c.transform = [from |-> "none"]
                  \/ c.transform = [from |-> "stored"] /\ Applies(a.flags, "apply-transform")
                  \/ c.transform = [from |-> "cli", text |-> a.transform] /\ a.transform # NULL
               /\ \/ c.policy = [from |-> "none"] /\ (HasCli(line.identity) => p = NULL)
                  \/ /\ c.policy = [from |-> "stored"] /\ ~HasCli(line.identity)
                     /\ \A s \in Sides:
                           c.ownerGroup.apply[s] = Applies(a.flags, StoredFlag(s))
                  \/ /\ c.policy = [from |-> "cli", policy |-> p] /\ HasCli(line.identity)
                     /\ p \notin {Bad, NULL}
                     /\ "validate-maps" \in a.flags => ValidateForResolutionMode(p, a.target, Host)
  <1> DEFINE a == line.attributes
             p == PolicyOf(line.identity)
  <1>1. /\ c.policy = ResolveOwnerPolicy(line, Host)
        /\ c.ownerGroup = OwnerGroupOptions(line, Root, ResolveOwnerPolicy(line, Host))
        /\ c.mode = ResolveTextPolicy(a.mode, Applies(a.flags, "apply-mode"))
        /\ c.transform = ResolveTextPolicy(a.transform, Applies(a.flags, "apply-transform"))
        /\ c.attributes = {f \in {"apply-atime", "apply-mtime", "xattrs", "acls", "selinux",
                                  "same-permissions"} : Applies(a.flags, f)}
    BY DEF ExtractConfig
  <1>2. a.target \in Targets
    BY CommandsAssumption DEF ExtractArgs, AttributeArgs
  <1>3. /\ c.ownerGroup.target = a.target
        /\ c.ownerGroup.same = SameOwner(a.flags, Root)
        /\ c.ownerGroup.apply =
              [s \in Sides |-> c.policy # Bad /\ c.policy.from # "cli"
                                 /\ Applies(a.flags, StoredFlag(s))]
    BY <1>1 DEF OwnerGroupOptions, StoredFlag
  <1>4. /\ SameOwner(a.flags, Root) \in BOOLEAN
        /\ SameOwner(a.flags, Root) =>
              "no-same-owner" \notin a.flags /\ ("same-owner" \in a.flags \/ Root)
    BY CommandsAssumption DEF SameOwner
  <1>5. /\ \/ c.mode = [from |-> "none"] \/ c.mode = [from |-> "stored"]
           \/ c.mode = [from |-> "cli", text |-> a.mode]
        /\ \/ c.transform = [from |-> "none"]
           \/ c.transform = [from |-> "stored"] /\ Applies(a.flags, "apply-transform")
           \/ c.transform = [from |-> "cli", text |-> a.transform] /\ a.transform # NULL
    BY <1>1 DEF ResolveTextPolicy
  <1>6. \/ c.policy = [from |-> "none"] /\ (HasCli(line.identity) => p = NULL)
        \/ c.policy = [from |-> "stored"] /\ ~HasCli(line.identity)
        \/ /\ c.policy = [from |-> "cli", policy |-> p] /\ HasCli(line.identity)
           /\ p \notin {Bad, NULL}
           /\ "validate-maps" \in a.flags => ValidateForResolutionMode(p, a.target, Host)
    BY <1>1 DEF ResolveOwnerPolicy, PolicyOf
  <1>7. c.policy = [from |-> "stored"] =>
           \A s \in Sides: c.ownerGroup.apply[s] = Applies(a.flags, StoredFlag(s))
    BY <1>3 DEF Applies, ResolveBoolFlag
  <1> QED BY <1>1, <1>2, <1>3, <1>4, <1>5, <1>6, <1>7

\* The restoring step gives the file what the lines allow.
LEMMA Restores ==
    ASSUME IInv, EInv, RunExtractPhase, proc.at = "permissions", xdb.restored = FALSE
    PROVE  NothingUnasked' /\ CliMapsEmit'
  <1> DEFINE c == proc.config
             line == proc.line
             meta == xdb.meta
             flags == line.attributes.flags
             p == ResolveOwnerGroupPolicy(c, meta.policy)
             own(s) == [name |-> meta.file.name[s], id |-> meta.file.id[s]]
             id(s) == ResolveIdentity(meta.file.name[s], meta.file.id[s], MapOf(p, s),
                                      p.override[s], c.ownerGroup.target, c.ownerGroup.same,
                                      Host[s])
  <1>1. /\ Unarchiving /\ Extracting /\ line \in ExtractLines
        /\ c = ExtractConfig(line, Root, Host) /\ Bad \notin {c.policy, c.mode, c.transform}
    BY DEF RunExtractPhase, Unarchiving, Extracting, EInv, Heeded
  <1>2. result' = Applied(c, meta, xdb.transform)
    BY DEF RunExtractPhase
  <1>3. Told(meta) /\ xdb.transform = ResolveText(c.transform, meta.transform)
    BY <1>1 DEF EInv, Catalogued, Renames
  <1>4. /\ result'.line = line /\ result'.meta = meta /\ result'.transform = xdb.transform
        /\ result'.ids = IF p = NULL THEN [s \in Sides |-> NULL] ELSE [s \in Sides |-> id(s)]
        /\ result'.mode = IF "same-permissions" \in c.attributes
                          THEN [set |-> TRUE, changes |-> ResolveText(c.mode, meta.mode)]
                          ELSE [set |-> FALSE, changes |-> NULL]
    BY <1>2 DEF Applied, ResolveOwnerGroup
  <1>5. /\ \A f: Flag(f)' <=> f \in flags
        /\ \A f \in AttributeFlags: Asks(f)' <=> Applies(flags, f)
    BY <1>4 DEF Flag, Asks, Applies, ResolveBoolFlag
  <1>6. \A s \in Sides: /\ meta.file.name[s] \in Names \cup {NULL}
                        /\ meta.file.id[s] \in Ids \cup {NULL}
    BY <1>3 DEF Told, FileType
  <1>c. /\ line.attributes.target \in Targets
        /\ c.ownerGroup.target = line.attributes.target /\ c.ownerGroup.same \in BOOLEAN
        /\ c.ownerGroup.same =>
              "no-same-owner" \notin flags /\ ("same-owner" \in flags \/ Root)
        /\ "same-permissions" \in c.attributes => Applies(flags, "same-permissions")
    BY <1>1, Configures
  <1>d. \/ c.policy = [from |-> "none"] /\ (HasCli(line.identity) => PolicyOf(line.identity) = NULL)
        \/ /\ c.policy = [from |-> "stored"] /\ ~HasCli(line.identity)
           /\ \A s \in Sides: c.ownerGroup.apply[s] = Applies(flags, StoredFlag(s))
        \/ /\ c.policy = [from |-> "cli", policy |-> PolicyOf(line.identity)]
           /\ HasCli(line.identity) /\ PolicyOf(line.identity) \notin {Bad, NULL}
           /\ "validate-maps" \in flags =>
                 ValidateForResolutionMode(PolicyOf(line.identity), line.attributes.target, Host)
    BY <1>1, Configures
  <1>e. /\ c.mode = [from |-> "none"] \/ c.mode = [from |-> "stored"]
             \/ c.mode = [from |-> "cli", text |-> line.attributes.mode]
        /\ \/ c.transform = [from |-> "none"]
           \/ c.transform = [from |-> "stored"] /\ Applies(flags, "apply-transform")
           \/ /\ c.transform = [from |-> "cli", text |-> line.attributes.transform]
              /\ line.attributes.transform # NULL
    BY <1>1, Configures
  <1>f. meta.strayed = {} =>
           /\ meta.policy = PolicyOf(meta.asked.identity)
           /\ meta.mode = meta.asked.capture.mode
           /\ meta.transform = meta.asked.capture.transform
    BY <1>3 DEF Told, AsAsked, ArchiveConfig, CaptureOptions
  <1> DEFINE allowed(s) ==
                {NULL} \cup (IF Authority(s)' = NULL THEN {}
                            ELSE Emitted(Destinations(Authority(s)', s), s))
                       \cup (IF ~Flag("no-same-owner")' /\ (Flag("same-owner")' \/ Root)
                             THEN Own(s)' ELSE {})
  <1> HIDE DEF c, line, meta, flags, p
  <1>7. ASSUME NEW s \in Sides, meta.strayed = {}
        PROVE  result'.ids[s] \in allowed(s)
    <2>1. p # NULL =>
             id(s) \in {NULL} \cup Emitted(Destinations(p, s), s)
                            \cup (IF c.ownerGroup.same THEN Emitted({own(s)}, s) ELSE {})
      BY <1>6, <1>c, OneOf
    <2>2. Own(s)' = Emitted({own(s)}, s)
      BY <1>4 DEF Own
    <2>3. (IF c.ownerGroup.same THEN Emitted({own(s)}, s) ELSE {}) \subseteq allowed(s)
      BY <1>5, <1>c, <2>2
    <2>4. result'.ids[s] = IF p = NULL THEN NULL ELSE id(s)
      BY <1>4
    <2> HIDE DEF id, own
    <2>5. CASE p = NULL
      BY <2>4, <2>5
    <2>6. ASSUME p # NULL, Emitted(Destinations(p, s), s) \subseteq allowed(s)
          PROVE  result'.ids[s] \in allowed(s)
      BY <2>1, <2>3, <2>4, <2>6
    <2>7. CASE c.policy = [from |-> "none"]
      BY <2>5, <2>7 DEF p, ResolveOwnerGroupPolicy
    <2>8. CASE c.policy = [from |-> "cli", policy |-> PolicyOf(line.identity)]
               /\ HasCli(line.identity)
      <3>1. p = PolicyOf(line.identity)
        BY <2>8 DEF p, ResolveOwnerGroupPolicy
      <3>2. Authority(s)' = PolicyOf(line.identity)
        BY <1>4, <2>8 DEF Authority
      <3> QED BY <2>5, <2>6, <3>1, <3>2
    <2>9. CASE /\ c.policy = [from |-> "stored"] /\ ~HasCli(line.identity)
               /\ \A t \in Sides: c.ownerGroup.apply[t] = Applies(flags, StoredFlag(t))
      <3> DEFINE q == meta.policy
                 part(f) == [t \in Sides |-> IF c.ownerGroup.apply[t] THEN q[f][t] ELSE NULL]
      <3>1. p = IF q = NULL THEN NULL ELSE [map |-> part("map"), override |-> part("override")]
        BY <2>9 DEF p, ResolveOwnerGroupPolicy
      <3>2. CASE q # NULL /\ Applies(flags, StoredFlag(s))
        <4>1. p.map[s] = q.map[s] /\ p.override[s] = q.override[s]
          BY <2>9, <3>1, <3>2
        <4>2. Destinations(p, s) = Destinations(q, s)
          BY <4>1 DEF Destinations, MapOf
        <4>3. Authority(s)' = q
          <5>1. Asks(StoredFlag(s))' /\ StoredFlag(s) \in AttributeFlags
            BY <1>5, <3>2 DEF StoredFlag, AttributeFlags
          <5> QED BY <1>4, <1>f, <1>7, <2>9, <5>1 DEF Authority, StoredFlag
        <4> QED BY <2>5, <2>6, <3>2, <4>2, <4>3
      <3>3. CASE q # NULL /\ ~Applies(flags, StoredFlag(s))
        <4>1. p.map[s] = NULL /\ p.override[s] = NULL
          BY <2>9, <3>1, <3>3
        <4>2. Destinations(p, s) = {NULL}
          BY <4>1 DEF Destinations, MapOf, EmptyMap
        <4>3. Emitted({NULL}, s) = {NULL}
          BY DEF Emitted, Field
        <4> QED BY <2>5, <2>6, <4>2, <4>3
      <3> QED BY <2>5, <3>1, <3>2, <3>3
    <2> QED BY <1>d, <2>7, <2>8, <2>9
  <1>8. ASSUME meta.strayed = {}
        PROVE  /\ result'.mode.set => Asks("same-permissions")'
               /\ result'.mode.changes
                     \in {NULL, line.attributes.mode, meta.asked.capture.mode}
               /\ result'.transform # NULL /\ line.attributes.transform = NULL =>
                     Asks("apply-transform")' /\ result'.transform = meta.asked.capture.transform
    <2>1. result'.mode.set => Asks("same-permissions")'
      BY <1>4, <1>5, <1>c DEF AttributeFlags
    <2>2. ResolveText(c.mode, meta.mode) \in {NULL, line.attributes.mode, meta.mode}
      BY <1>e DEF ResolveText
    <2>3. result'.mode.changes \in {NULL, line.attributes.mode, meta.asked.capture.mode}
      BY <1>4, <1>8, <1>f, <2>2
    <2>4. ASSUME result'.transform # NULL, line.attributes.transform = NULL
          PROVE  Asks("apply-transform")' /\ result'.transform = meta.asked.capture.transform
      <3>1. c.transform # [from |-> "none"]
        BY <1>3, <1>4, <2>4 DEF ResolveText
      <3>2. c.transform = [from |-> "stored"] /\ Applies(flags, "apply-transform")
        BY <1>e, <2>4, <3>1
      <3> QED BY <1>3, <1>4, <1>5, <1>8, <1>f, <3>2 DEF ResolveText, AttributeFlags
    <2> QED BY <2>1, <2>3, <2>4
  <1>9. NothingUnasked'
    BY <1>4, <1>7, <1>8 DEF NothingUnasked
  <1>10. CliMapsEmit'
    <2>0. PICK q: q = PolicyOf(line.identity)
      OBVIOUS
    <2>1. SUFFICES ASSUME "validate-maps" \in flags, HasCli(line.identity), q # NULL,
                          NEW s \in Sides, Speaks(q, s)'
                   PROVE  result'.ids[s] # NULL
      BY <1>4, <1>5, <2>0 DEF CliMapsEmit, Emits
    <2>2. /\ c.policy = [from |-> "cli", policy |-> q] /\ q \notin {Bad, NULL}
          /\ ValidateForResolutionMode(q, line.attributes.target, Host)
      BY <1>d, <2>0, <2>1
    <2>3. p = q
      BY <2>2 DEF p, ResolveOwnerGroupPolicy
    <2>4. q \in Policy
      <3>1. line.identity \in IdentityArgs
        BY <1>1, CommandsAssumption DEF ExtractArgs, line
      <3> QED BY <2>0, <2>2, <3>1, PolicyTyped DEF PolicyOf, IdentityArgs
    <2>5. result'.ids[s] = id(s)
      BY <1>4, <2>1, <2>3
    <2>6. own(s) \in SideOf /\ own(s).name = meta.file.name[s] /\ own(s).id = meta.file.id[s]
      BY <1>6 DEF SideOf
    <2>7. Chosen(own(s).name, own(s).id, MapOf(q, s)) # NULL \/ q.override[s] # NULL
      BY <1>4, <2>1, <2>6 DEF Speaks
    <2>8. Host \in Lookup
      BY CommandsAssumption
    <2> HIDE DEF own
    <2>9. ResolveIdentity(own(s).name, own(s).id, MapOf(q, s), q.override[s],
                          line.attributes.target, c.ownerGroup.same, Host[s]) # NULL
      BY <1>c, <2>2, <2>4, <2>6, <2>7, <2>8, ValidatedEmits
    <2> QED BY <1>c, <2>3, <2>5, <2>6, <2>9
  <1> QED BY <1>9, <1>10

-----------------------------------------------------------------------------
(* The commands that archive. *)

LEMMA Beginning == Init => EInv
  BY DEF Init, EInv, Filed, Catalogued, Heeded, Once, Renames, NothingUnasked, CliMapsEmit,
         Archiving, Extracting, Unarchiving

\* What is said of a result stays true of it.
LEMMA SameResult ==
    ASSUME EInv, result' = result
    PROVE  NothingUnasked' /\ CliMapsEmit'
  <1>1. NothingUnasked'
    BY DEF EInv, NothingUnasked, Authority, Own, Asks, Flag
  <1>2. CliMapsEmit'
    BY DEF EInv, CliMapsEmit, Emits, Speaks, Flag
  <1> QED BY <1>1, <1>2

\* A step of a command that archives, or of none, uses no extraction.
LEMMA Apart ==
    ASSUME EInv, Filed', ~Unarchiving', xdb' = xdb, result' = result,
           archive' \in {NULL, archive} \/ (archive' # NULL => Told(archive'))
    PROVE  EInv'
  <1>1. NothingUnasked' /\ CliMapsEmit'
    BY SameResult
  <1>2. Heeded' /\ Renames'
    BY DEF Heeded, Renames
  <1>3. Once'
    BY DEF EInv, Once, Unarchiving, Extracting
  <1>4. Catalogued'
    BY DEF EInv, Catalogued, Told, AsAsked, Unarchiving, Extracting
  <1> QED BY <1>1, <1>2, <1>3, <1>4 DEF EInv

LEMMA StartsFiled ==
    ASSUME IInv, EInv, proc = NULL, NEW c, NEW line, NEW own \in BOOLEAN,
           StartArchive(c, line, own)
    PROVE  EInv'
  <1> DEFINE db == IF c.process.start = "fresh" THEN NULL ELSE adb
             rows == IF db = NULL THEN NoRows ELSE db
             action == ResolveStart(c.process.start, Incomplete(db), archive # NULL)
             stray == IF rows.phase = NULL THEN {} ELSE {"reused"}
             more == IF own THEN rows.strayed ELSE rows.strayed \cup {"foreign"}
  <1>1. ~Archiving /\ (db # NULL => db = adb)
    BY DEF Archiving
  <1>2. /\ Fields(rows) /\ (rows.phase \notin {NULL, "inventory"} => rows.file \in FileType)
    BY <1>1, BlankRows DEF IInv, Asked, EInv, Filed
  <1>3. action \in {"RunFresh", "Resume", Bad}
    BY DEF ResolveStart
  <1>4. /\ archive' = archive /\ xdb' = xdb /\ result' = result
        /\ action = "RunFresh" => adb' = [rows EXCEPT !.asked = line, !.strayed = stray]
        /\ action = "Resume" => adb' = [rows EXCEPT !.strayed = more]
        /\ action = Bad => adb' = db /\ proc' = NULL
        /\ action # Bad => proc'.cmd = "archive"
    BY <1>3, CommandsAssumption DEF StartArchive
  <1> HIDE DEF rows, stray, more, action
  <1>5. Filed'
    <2>1. CASE action = "RunFresh"
      <3>1. adb' = [phase |-> rows.phase, config |-> rows.config, patterns |-> rows.patterns,
                    policy |-> rows.policy, mode |-> rows.mode, transform |-> rows.transform,
                    file |-> rows.file, asked |-> line, strayed |-> stray]
        BY <1>2, <1>4, <2>1, Renewed
      <3> QED BY <1>2, <3>1 DEF Filed
    <2>2. CASE action = "Resume"
      <3>1. adb' = [phase |-> rows.phase, config |-> rows.config, patterns |-> rows.patterns,
                    policy |-> rows.policy, mode |-> rows.mode, transform |-> rows.transform,
                    file |-> rows.file, asked |-> rows.asked, strayed |-> more]
        BY <1>2, <1>4, <2>2, Updates
      <3> QED BY <1>2, <3>1 DEF Filed
    <2>3. CASE action = Bad
      BY <1>1, <1>4, <2>3 DEF Filed, Archiving, EInv
    <2> QED BY <1>3, <2>1, <2>2, <2>3
  <1>6. ~Unarchiving'
    BY <1>3, <1>4 DEF Unarchiving
  <1> QED BY <1>4, <1>5, <1>6, Apart

\* While RunFresh writes, no name has been recorded, or the phase says so.
LEMMA WritesFiled ==
    ASSUME IInv, EInv, SaveRuntimeState \/ SetArchiveConfig \/ IngestFilters \/ SetOwnerPolicy
                         \/ SetModeChanges \/ SetTransform
    PROVE  EInv'
  <1>1. /\ proc # NULL /\ proc.cmd = "archive" /\ proc.at \in FreshSteps
        /\ archive' = archive /\ xdb' = xdb /\ result' = result
        /\ \E at: Goto(at)
    BY DEF SaveRuntimeState, SetArchiveConfig, IngestFilters, SetOwnerPolicy, SetModeChanges,
           SetTransform, Write, Running, FreshSteps
  <1>2. Fields(adb) /\ (proc.at # "save" => adb.phase = "inventory")
    BY <1>1 DEF IInv, Asked, Works, Archiving
  <1>3. adb'.phase = "inventory"
    <2>1. CASE SaveRuntimeState
      BY <1>2, <2>1, Updates DEF SaveRuntimeState, Write
    <2>2. CASE ~SaveRuntimeState
      <3>1. proc.at # "save" /\ \E x: adb' \in {[adb EXCEPT !.config = x], [adb EXCEPT !.patterns = x],
                [adb EXCEPT !.policy = x], [adb EXCEPT !.mode = x], [adb EXCEPT !.transform = x]}
        BY <2>2 DEF SetArchiveConfig, IngestFilters, SetOwnerPolicy, SetModeChanges,
                    SetTransform, Write, Running
      <3>2. PICK x: adb' \in {[adb EXCEPT !.config = x], [adb EXCEPT !.patterns = x],
                [adb EXCEPT !.policy = x], [adb EXCEPT !.mode = x], [adb EXCEPT !.transform = x]}
        BY <3>1
      <3>3. adb.phase = "inventory"
        BY <1>2, <3>1
      <3>4. CASE adb' = [adb EXCEPT !.config = x]
        BY <1>2, <3>3, <3>4, Updates
      <3>5. CASE adb' = [adb EXCEPT !.patterns = x]
        BY <1>2, <3>3, <3>5, Updates
      <3>6. CASE adb' = [adb EXCEPT !.policy = x]
        BY <1>2, <3>3, <3>6, Updates
      <3>7. CASE adb' = [adb EXCEPT !.mode = x]
        BY <1>2, <3>3, <3>7, Updates
      <3>8. CASE adb' = [adb EXCEPT !.transform = x]
        BY <1>2, <3>3, <3>8, Updates
      <3> QED BY <3>2, <3>4, <3>5, <3>6, <3>7, <3>8
    <2> QED BY <2>1, <2>2
  <1>4. Filed'
    BY <1>3 DEF Filed
  <1>5. ~Unarchiving'
    BY <1>1, Moves DEF IInv, Unarchiving, Goto
  <1> QED BY <1>1, <1>4, <1>5, Apart

LEMMA PhasesFiled ==
    ASSUME IInv, EInv, IInv', RunPhase \/ BeginArchive \/ FinishArchive \/ CleanupArchive
    PROVE  EInv'
  <1>1. /\ proc # NULL /\ proc.cmd = "archive" /\ xdb' = xdb /\ result' = result
        /\ proc' = NULL \/ \E at: Goto(at)
    BY DEF RunPhase, BeginArchive, FinishArchive, CleanupArchive, FinishPhase, Running
  <1>2. /\ Fields(adb)
        /\ proc.at \in {"loop", "footer"} => adb.phase \in LoopPhases
        /\ adb.phase \notin {NULL, "inventory"} => adb.file \in FileType
    BY <1>1 DEF IInv, Asked, Works, Archiving, EInv, Filed, LoopPhases, Phases
  <1>3. ~Unarchiving'
    BY <1>1, Moves DEF IInv, Unarchiving, Goto
  <1>4. CASE RunPhase
    <2> DEFINE rows == IF adb.phase = "inventory" THEN [adb EXCEPT !.file = Captured(proc.config)]
                                                  ELSE adb
    <2>1. Captured(proc.config) \in FileType
      BY CommandsAssumption DEF Captured, FileType
    <2>2. Fields(rows) /\ rows.file \in FileType
      <3>1. Fields(adb) /\ adb.phase \in LoopPhases
        BY <1>1, <1>2, <1>4 DEF RunPhase, Running
      <3>2. CASE adb.phase = "inventory"
        <4>1. rows = [phase |-> adb.phase, config |-> adb.config, patterns |-> adb.patterns,
                      policy |-> adb.policy, mode |-> adb.mode, transform |-> adb.transform,
                      file |-> Captured(proc.config), asked |-> adb.asked,
                      strayed |-> adb.strayed]
          BY <3>1, <3>2, Updates
        <4> HIDE DEF rows
        <4> QED BY <2>1, <4>1 DEF Fields
      <3>3. CASE adb.phase # "inventory"
        BY <1>2, <3>1, <3>3, CommandsAssumption DEF LoopPhases
      <3> QED BY <3>2, <3>3
    <2>3. \E x: adb' = [rows EXCEPT !.phase = x]
      BY <1>4 DEF RunPhase, FinishPhase
    <2> HIDE DEF rows
    <2>4. adb'.file \in FileType
      BY <2>2, <2>3, Updates
    <2> QED BY <1>1, <1>3, <1>4, <2>4, Apart DEF RunPhase, Filed
  <1>5. CASE BeginArchive
    BY <1>1, <1>3, <1>5, Apart DEF BeginArchive, EInv, Filed, Archiving
  <1>6. CASE FinishArchive
    <2>1. adb.phase = "archive" /\ Fields(adb) /\ archive' = adb
      BY <1>1, <1>2, <1>6 DEF FinishArchive, Running, IInv, Works, Archiving, Asked
    <2>2. adb.file \in FileType
      BY <1>2, <2>1, CommandsAssumption DEF Phases
    <2>3. \E x: adb' = [adb EXCEPT !.phase = x]
      BY <1>6 DEF FinishArchive, FinishPhase
    <2>4. Filed'
      BY <2>1, <2>2, <2>3, Updates DEF Filed
    <2>5. archive' # NULL => Told(archive')
      BY <1>1, <2>1, <2>2 DEF Told, IInv, StrayHasCause, Asked, Archiving, AsAsked
    <2> QED BY <1>1, <1>3, <2>4, <2>5, Apart
  <1>7. CASE CleanupArchive
    BY <1>1, <1>3, <1>7, Apart DEF CleanupArchive, Filed, Archiving
  <1> QED BY <1>4, <1>5, <1>6, <1>7

-----------------------------------------------------------------------------
(* The command that extracts. *)

LEMMA ExtractBegins ==
    ASSUME IInv, EInv, ExtractCommand
    PROVE  EInv'
  <1>1. /\ proc = NULL /\ archive # NULL /\ archive' = archive /\ adb' = adb /\ result' = result
    BY DEF ExtractCommand, Command
  <1>0. PICK line \in ExtractLines: \E c \in {BuildExtract(line, Root, Host)}:
           LET db == IF c.process.start = "fresh" THEN NULL ELSE xdb
               incomplete == db # NULL /\ db.phase # "done"
           IN  /\ c # Bad /\ xdb' = db
               /\ proc' = IF ResolveStart(c.process.start, incomplete, FALSE) = Bad THEN NULL
                          ELSE [cmd |-> "extract", config |-> c, line |-> line, at |-> "scan"]
    BY DEF ExtractCommand
  <1> DEFINE c == BuildExtract(line, Root, Host)
  <1>2. LET db == IF c.process.start = "fresh" THEN NULL ELSE xdb
               incomplete == db # NULL /\ db.phase # "done"
           IN  /\ c # Bad /\ xdb' = db
               /\ proc' = IF ResolveStart(c.process.start, incomplete, FALSE) = Bad THEN NULL
                          ELSE [cmd |-> "extract", config |-> c, line |-> line, at |-> "scan"]
    BY <1>0
  <1>3. c = ExtractConfig(line, Root, Host) /\ Bad \notin {c.policy, c.mode, c.transform}
    BY <1>2 DEF BuildExtract
  <1>4. c.process.start \in {"fresh", "create"}
    BY <1>3 DEF ExtractConfig, ProcessOptions
  <1>5. /\ xdb' \in {NULL, xdb}
        /\ \/ proc' = NULL
           \/ /\ proc' = [cmd |-> "extract", config |-> c, line |-> line, at |-> "scan"]
              /\ xdb' # NULL => xdb.phase = "done"
    BY <1>2, <1>4, CommandsAssumption DEF ResolveStart
  <1>6. Filed'
    BY <1>1, <1>5 DEF EInv, Filed, Archiving
  <1>7. NothingUnasked' /\ CliMapsEmit'
    BY <1>1, SameResult
  <1>8. Catalogued'
    BY <1>1, <1>5 DEF EInv, Catalogued, Told, AsAsked, Extracting
  <1>9. Heeded'
    BY <1>3, <1>5 DEF Heeded, Unarchiving, ExtractSteps
  <1>10. Once' /\ Renames'
    BY <1>5 DEF EInv, Once, Renames, Unarchiving, Extracting
  <1> QED BY <1>6, <1>7, <1>8, <1>9, <1>10 DEF EInv

\* A phase that ends: what was restored stays so, and so does the expression
\* between the phase that resolves it and the one that uses it.
LEMMA ExtractRuns ==
    ASSUME IInv, EInv, RunExtractPhase
    PROVE  EInv'
  <1> DEFINE next == NextExtractPhase[proc.at]
             restored == xdb.restored \/ proc.at = "permissions"
             transform == IF proc.at = "placement_prologue" /\ ~xdb.restored
                          THEN ResolveText(proc.config.transform, xdb.meta.transform)
                          ELSE xdb.transform
  <1>1. /\ Unarchiving /\ Extracting /\ proc.cmd = "extract" /\ proc.at \in DOMAIN NextExtractPhase
        /\ archive' = archive /\ adb' = adb
        /\ proc' = NULL \/ Goto(next)
    BY DEF RunExtractPhase, Unarchiving, Extracting, NextExtractPhase
  <1>2. ExtractShape(xdb) /\ Told(xdb.meta) /\ xdb.restored \in BOOLEAN
    BY <1>1 DEF IInv, StoredShape, EInv, Catalogued, Once
  <1>3. xdb' = [meta |-> xdb.meta, phase |-> next, config |-> xdb.config,
                patterns |-> xdb.patterns, transform |-> transform, restored |-> restored]
    BY <1>2 DEF RunExtractPhase, ExtractShape
  <1>4. \/ proc' = NULL
        \/ proc' = [cmd |-> proc.cmd, config |-> proc.config, line |-> proc.line, at |-> next]
    BY <1>1, Moves DEF Goto, IInv, Unarchiving
  <1>r. restored \in BOOLEAN /\ (proc.at = "permissions" => restored = TRUE)
    BY <1>2
  <1>5. /\ next \in {"filter", "rehash", "placement_prologue", "place", "permissions", "cleanup"}
        /\ next = "cleanup" => proc.at = "permissions"
        /\ next = "permissions" => proc.at = "place"
        /\ next = "place" => proc.at = "placement_prologue"
    BY <1>1 DEF NextExtractPhase
  <1>h. restored = FALSE => xdb.restored = FALSE /\ proc.at # "permissions"
    BY <1>2
  <1> HIDE DEF next, restored
  <1>6. Filed'
    BY <1>1, <1>4 DEF EInv, Filed, Archiving, Unarchiving
  <1>7. Catalogued'
    BY <1>1, <1>2, <1>3 DEF EInv, Catalogued, Told, AsAsked
  <1>8. Heeded'
    BY <1>1, <1>4, <1>5 DEF EInv, Heeded, Unarchiving, ExtractSteps, NextExtractPhase
  <1>9. Once'
    BY <1>3, <1>4, <1>5, <1>r DEF Once, Unarchiving
  <1>10. Renames'
    BY <1>1, <1>2, <1>3, <1>4, <1>5, <1>h DEF EInv, Renames, Unarchiving
  <1>11. NothingUnasked' /\ CliMapsEmit'
    <2>1. CASE proc.at = "permissions" /\ xdb.restored = FALSE
      BY <2>1, Restores
    <2>2. CASE ~(proc.at = "permissions" /\ xdb.restored = FALSE)
      BY <1>2, <2>2, SameResult DEF RunExtractPhase
    <2> QED BY <2>1, <2>2
  <1> QED BY <1>6, <1>7, <1>8, <1>9, <1>10, <1>11 DEF EInv

LEMMA ExtractGoesOn ==
    ASSUME IInv, EInv, Scan \/ Prepare \/ SetExtractConfig \/ CleanupExtract
    PROVE  EInv'
  <1>1. /\ Unarchiving /\ proc.cmd = "extract"
        /\ archive' = archive /\ adb' = adb /\ result' = result
        /\ proc' = NULL \/ \E at \in {"config", "prepare", "scan_tar", "remove"}: Goto(at)
    BY DEF Scan, Prepare, SetExtractConfig, CleanupExtract, Running, Unarchiving
  <1>2. \/ proc' = NULL
        \/ \E at \in {"config", "prepare", "scan_tar", "remove"}:
              proc' = [cmd |-> proc.cmd, config |-> proc.config, line |-> proc.line, at |-> at]
    BY <1>1, Moves DEF Goto, IInv, Unarchiving
  <1>3. /\ xdb # NULL \/ proc.at # "scan" =>
              /\ ExtractShape(xdb) /\ Told(xdb.meta) /\ xdb.restored \in BOOLEAN
              /\ xdb.phase = "done" => xdb.restored = TRUE
        /\ xdb # NULL /\ proc.at = "scan" => xdb.restored = TRUE
        /\ proc.at \in {"cleanup", "remove"} => xdb.restored = TRUE
        /\ archive # NULL /\ Told(archive)
    BY <1>1 DEF IInv, StoredShape, Kept, EInv, Catalogued, Once, Unarchiving, Extracting
  <1>4. Filed'
    BY <1>1, <1>2 DEF EInv, Filed, Archiving, Unarchiving
  <1>5. NothingUnasked' /\ CliMapsEmit'
    BY <1>1, SameResult
  <1>6. Heeded'
    BY <1>1, <1>2 DEF EInv, Heeded, Unarchiving, ExtractSteps, NextExtractPhase
  <1>7. Renames'
    BY <1>2 DEF Renames, Unarchiving
  <1>8. Catalogued' /\ Once'
    <2>1. CASE Scan
      <3>1. proc.at = "scan"
        BY <2>1 DEF Scan, Running
      <3>2. CASE xdb # NULL
        <4>1. xdb' = xdb /\ Goto("config")
          BY <2>1, <3>2 DEF Scan
        <4>2. proc' = [cmd |-> proc.cmd, config |-> proc.config, line |-> proc.line,
                       at |-> "config"]
          BY <1>1, <4>1, Moves DEF Goto, IInv, Unarchiving
        <4> QED BY <1>1, <1>3, <3>1, <3>2, <4>1, <4>2
              DEF Catalogued, Once, Told, AsAsked, Unarchiving
      <3>3. CASE xdb = NULL
        <4>1. /\ xdb' = [meta |-> archive, phase |-> NULL, config |-> NULL, patterns |-> {},
                         transform |-> NULL, restored |-> FALSE]
              /\ Goto("prepare")
          BY <2>1, <3>3 DEF Scan
        <4>2. proc' = [cmd |-> proc.cmd, config |-> proc.config, line |-> proc.line,
                       at |-> "prepare"]
          BY <1>1, <4>1, Moves DEF Goto, IInv, Unarchiving
        <4> QED BY <1>1, <1>3, <4>1, <4>2, CommandsAssumption
              DEF Catalogued, Once, Told, AsAsked, Unarchiving, Phases
      <3> QED BY <3>2, <3>3
    <2>2. CASE Prepare
      <3>1. /\ proc.at = "prepare" /\ Goto("config")
            /\ xdb' = [xdb EXCEPT !.phase = "scan_tar", !.patterns = proc.config.filter.patterns]
        BY <2>2 DEF Prepare, Running
      <3>2. xdb' = [meta |-> xdb.meta, phase |-> "scan_tar", config |-> xdb.config,
                    patterns |-> proc.config.filter.patterns, transform |-> xdb.transform,
                    restored |-> xdb.restored]
        BY <1>3, <3>1 DEF ExtractShape
      <3>3. proc' = [cmd |-> proc.cmd, config |-> proc.config, line |-> proc.line,
                     at |-> "config"]
        BY <1>1, <3>1, Moves DEF Goto, IInv, Unarchiving
      <3> QED BY <1>1, <1>3, <3>1, <3>2, <3>3
            DEF Catalogued, Once, Told, AsAsked, Unarchiving
    <2>3. CASE SetExtractConfig
      <3>1. /\ proc.at = "config" /\ Goto("scan_tar")
            /\ xdb' = [xdb EXCEPT !.config = proc.config]
        BY <2>3 DEF SetExtractConfig, Running
      <3>2. xdb' = [meta |-> xdb.meta, phase |-> xdb.phase, config |-> proc.config,
                    patterns |-> xdb.patterns, transform |-> xdb.transform,
                    restored |-> xdb.restored]
        BY <1>3, <3>1 DEF ExtractShape
      <3>3. proc' = [cmd |-> proc.cmd, config |-> proc.config, line |-> proc.line,
                     at |-> "scan_tar"]
        BY <1>1, <3>1, Moves DEF Goto, IInv, Unarchiving
      <3> QED BY <1>1, <1>3, <3>1, <3>2, <3>3
            DEF Catalogued, Once, Told, AsAsked, Unarchiving
    <2>4. CASE CleanupExtract
      <3>1. CASE proc.at = "cleanup"
        <4>1. Goto("remove") /\ xdb' = [xdb EXCEPT !.phase = "done"]
          BY <2>4, <3>1 DEF CleanupExtract, Running
        <4>2. xdb' = [meta |-> xdb.meta, phase |-> "done", config |-> xdb.config,
                      patterns |-> xdb.patterns, transform |-> xdb.transform,
                      restored |-> xdb.restored]
          BY <1>3, <3>1, <4>1 DEF ExtractShape
        <4>3. proc' = [cmd |-> proc.cmd, config |-> proc.config, line |-> proc.line,
                       at |-> "remove"]
          BY <1>1, <4>1, Moves DEF Goto, IInv, Unarchiving
        <4> QED BY <1>1, <1>3, <3>1, <4>2, <4>3
              DEF Catalogued, Once, Told, AsAsked, Unarchiving
      <3>2. CASE proc.at # "cleanup"
        <4>1. xdb' = NULL /\ proc' = NULL
          BY <2>4, <3>2 DEF CleanupExtract, Running
        <4> QED BY <1>1, <1>3, <4>1
              DEF Catalogued, Once, Told, AsAsked, Unarchiving, Extracting
      <3> QED BY <3>1, <3>2
    <2> QED BY <2>1, <2>2, <2>3, <2>4
  <1> QED BY <1>4, <1>5, <1>6, <1>7, <1>8 DEF EInv

-----------------------------------------------------------------------------
(* Every step. *)

LEMMA StopsOrIdles ==
    ASSUME IInv, EInv, Crash \/ TakeArchive \/ UNCHANGED vars
    PROVE  EInv'
  <1>1. CASE Crash
    <2>1. /\ proc # NULL /\ proc' = NULL /\ archive' = archive /\ xdb' = xdb /\ result' = result
          /\ \/ adb' = adb
             \/ Archiving /\ adb' = [adb EXCEPT !.strayed = adb.strayed \cup {"torn"}]
      BY <1>1 DEF Crash, Archiving
    <2>2. Filed'
      <3>1. CASE adb' = adb
        BY <2>1, <3>1 DEF EInv, Filed, Archiving
      <3>2. CASE Archiving /\ adb' = [adb EXCEPT !.strayed = adb.strayed \cup {"torn"}]
        <4>1. adb' = [phase |-> adb.phase, config |-> adb.config, patterns |-> adb.patterns,
                      policy |-> adb.policy, mode |-> adb.mode, transform |-> adb.transform,
                      file |-> adb.file, asked |-> adb.asked,
                      strayed |-> adb.strayed \cup {"torn"}]
          BY <3>2, Updates DEF IInv, Asked
        <4> QED BY <3>2, <4>1 DEF EInv, Filed
      <3> QED BY <2>1, <3>1, <3>2
    <2> QED BY <2>1, <2>2, Apart DEF Unarchiving
  <1>2. CASE TakeArchive
    <2>1. /\ proc' = NULL /\ archive' = NULL /\ adb' = adb /\ xdb' = xdb /\ result' = result
      BY <1>2 DEF TakeArchive
    <2> QED BY <2>1, Apart DEF EInv, Filed, Archiving, Unarchiving
  <1>3. CASE UNCHANGED vars
    <2>1. NothingUnasked' /\ CliMapsEmit'
      BY <1>3, SameResult DEF vars
    <2>2. Filed' /\ Catalogued' /\ Heeded' /\ Once' /\ Renames'
      BY <1>3 DEF EInv, Filed, Catalogued, Heeded, Once, Renames, Told, AsAsked, Archiving,
                  Extracting, Unarchiving, vars
    <2> QED BY <2>1, <2>2 DEF EInv
  <1> QED BY <1>1, <1>2, <1>3

\* The second invariant: whatever was killed, moved away and asked again, an
\* extraction works with its own line and with the catalogue it has read.
THEOREM ExtractionInvariance == Spec => []EInv
  <1>1. ASSUME IInv, IInv', EInv, [Next]_vars
        PROVE  EInv'
    <2>1. CASE ArchiveCommand
      <3>1. \E line: StartArchive(BuildArchive(line), line, TRUE)
        BY <2>1 DEF ArchiveCommand
      <3> QED BY <1>1, <2>1, <3>1, StartsFiled DEF ArchiveCommand, Command
    <2>2. CASE ResumeCommand
      <3>1. \E c: StartArchive(c, NULL, TRUE) \/ StartArchive(c, NULL, FALSE)
        BY <2>2 DEF ResumeCommand
      <3> QED BY <1>1, <2>2, <3>1, StartsFiled DEF ResumeCommand, Command
    <2>3. CASE ExtractCommand
      BY <1>1, <2>3, ExtractBegins
    <2>4. CASE Work
      BY <1>1, <2>4, WritesFiled, PhasesFiled, ExtractGoesOn, ExtractRuns DEF Work
    <2>5. CASE Crash \/ TakeArchive \/ UNCHANGED vars
      BY <1>1, <2>5, StopsOrIdles
    <2> QED BY <1>1, <2>1, <2>2, <2>3, <2>4, <2>5 DEF Next
  <1> QED BY <1>1, Invariance, Beginning, PTL DEF Spec

\* An extraction gives the file nothing that neither its own line nor, where
\* that asks for it, the line of the archive named.
THEOREM NothingComesUnasked == Spec => []NothingUnasked
  <1>1. EInv => NothingUnasked
    BY DEF EInv
  <1> QED BY <1>1, ExtractionInvariance, PTL

\* With --validate-maps a file that the line speaks of gets an id.
THEOREM ValidatedLinesEmit == Spec => []CliMapsEmit
  <1>1. EInv => CliMapsEmit
    BY DEF EInv
  <1> QED BY <1>1, ExtractionInvariance, PTL
=============================================================================
