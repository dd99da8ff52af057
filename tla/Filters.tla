------------------------------- MODULE Filters -------------------------------
(***************************************************************************)
(* The rules of --include and --exclude (common/filter.rs, db/filter.rs,   *)
(* archive/filter.rs, unarchive/filter.rs): from patterns and pattern      *)
(* files through the table of a work database or the buffer of a scan to   *)
(* the two reasons of a row.  Intake and Unarchive have the phases, with   *)
(* the set of names that the rules keep.                                   *)
(*                                                                         *)
(* A regex is what the properties tell apart: alternatives, each a word    *)
(* that is found anywhere in a path or, after ^, at its start.  A path is  *)
(* a sequence of words; LowerCase maps a word to one that differs in case. *)
(***************************************************************************)
EXTENDS Integers, FiniteSets, SequencesExt

CONSTANTS
    LowerCase,    \* word -> the word in lower case
    NoText        \* the content of a pattern file that cannot be read

Flags == {"anchored", "ignoreCase", "noUnicode", "failFast"}

\* A line of a pattern file, or an argument: its alternatives, the words that
\* follow ^ marked, and the modes in which the regex crate takes it.
Pattern(alts, modes) == [alts |-> alts, modes |-> modes]
Alt(start, word) == [start |-> start, word |-> word]
Everything == Pattern(<<Alt(FALSE, "")>>, {"unicode", "bytes"})  \* .*

Compiles(p, flags) == (IF "noUnicode" \in flags THEN "bytes" ELSE "unicode") \in p.modes

-----------------------------------------------------------------------------
(* The table filter_reason_archive or filter_reason_extract: ids to rules. *)
(* Its row 0 is a dummy.                                                   *)

Rule(from, line, expression) == [from |-> from, line |-> line, expression |-> expression]
Fresh == [id \in {0} |-> Rule("dummy", 0, Everything)]

CountFilters(table, exclude) ==
    Cardinality({id \in DOMAIN table : IF exclude THEN id > 0 ELSE id < 0})

\* INSERT with MIN(id) - 1 or MAX(id) + 1.
AddPattern(table, rule, include) ==
    LET id == IF include THEN Min(DOMAIN table) - 1 ELSE Max(DOMAIN table) + 1
    IN  [i \in DOMAIN table \cup {id} |-> IF i = id THEN rule ELSE table[i]]

\* In the order of the ids: the include rule that was given last comes first.
GetFilters(table, exclude) ==
    LET ids == SetToSortSeq({id \in DOMAIN table : IF exclude THEN id > 0 ELSE id < 0}, <)
    IN  [i \in DOMAIN ids |-> [id |-> ids[i], expression |-> table[ids[i]].expression]]

-----------------------------------------------------------------------------
(* Ingestion, into the table or the buffer of a scan.                      *)

\* A pattern that does not compile is recorded and left out, with --fail-fast too.
HandleQuery(flags, include, table, query) ==
    IF Compiles(query.expression, flags) THEN AddPattern(table, query, include) ELSE table

\* The arguments, then the lines of each file that are not empty.
Queries(operation, patterns, files) ==
    [i \in DOMAIN patterns |-> Rule(operation, i - 1, patterns[i])]
      \o FlattenSeq([k \in DOMAIN files |->
           SelectSeq([i \in DOMAIN files[k] |-> Rule(operation \o "-from", i - 1, files[k][i])],
                     LAMBDA r: r.expression.alts # <<>>)])

HandlePatternSource(flags, include, table, patterns, files) ==
    LET readable == SelectSeq(files, LAMBDA f: f # NoText)
        name == IF include THEN "include" ELSE "exclude"
    IN  FoldLeft(LAMBDA t, q: HandleQuery(flags, include, t, q), table, Queries(name, patterns, readable))

\* With --fail-fast a pattern file that cannot be read ends the run.
Fails(c) == "failFast" \in c.flags /\ NoText \in ToSet(c.includeFrom \o c.excludeFrom)

\* Mutant: the rule of the program is added unless there is any rule.
IngestFiltersLate(c) ==
    LET table == HandlePatternSource(c.flags, FALSE,
                   HandlePatternSource(c.flags, TRUE, Fresh, c.include, c.includeFrom),
                   c.exclude, c.excludeFrom)
    IN  IF Cardinality(DOMAIN table) = 1 THEN AddPattern(table, Rule("internal", 0, Everything), TRUE)
        ELSE table
\* ingest_filters: the includes, a rule of the program's own if none stood the
\* test, then the excludes.
IngestFilters(c) ==
    LET included == HandlePatternSource(c.flags, TRUE, Fresh, c.include, c.includeFrom)
        base == IF CountFilters(included, FALSE) = 0
                THEN AddPattern(included, Rule("internal", 0, Everything), TRUE) ELSE included
    IN  HandlePatternSource(c.flags, FALSE, base, c.exclude, c.excludeFrom)

\* ParseFilterBuffer: the rules of a scan wait in the order they came, and get
\* their ids when there is a database, the includes first.
WriteToDb(table) ==
    LET included == FoldLeft(LAMBDA t, r: AddPattern(t, r, TRUE), Fresh,
                             Reverse([i \in DOMAIN GetFilters(table, FALSE) |-> table[GetFilters(table, FALSE)[i].id]]))
    IN  FoldLeft(LAMBDA t, r: AddPattern(t, r, FALSE), included,
                 [i \in DOMAIN GetFilters(table, TRUE) |-> table[GetFilters(table, TRUE)[i].id]])

-----------------------------------------------------------------------------
(* Matching.                                                               *)

\* parse_filter: ^ is put before the text, unless it starts with one.
Anchored(p, flags) ==
    IF "anchored" \in flags THEN [p EXCEPT !.alts[1].start = TRUE] ELSE p

IsMatch(p, flags, path) ==
    \E a \in ToSet(p.alts):
        LET word(w) == IF "ignoreCase" \in flags THEN LowerCase[w] ELSE w
        IN  \/ a.word = ""
            \/ \E i \in DOMAIN path: (a.start => i = 1) /\ word(path[i]) = word(a.word)

\* Mutant: the ^ is forgotten.
ReasonLoose(rules, flags, path) ==
    LET hits == SelectSeq(rules, LAMBDA r: IsMatch(r.expression, flags, path))
    IN  IF hits = <<>> THEN 0 ELSE hits[1].id
\* The first rule that matches, or 0.
Reason(rules, flags, path) ==
    LET hits == SelectSeq(rules, LAMBDA r: IsMatch(Anchored(r.expression, flags), flags, path))
    IN  IF hits = <<>> THEN 0 ELSE hits[1].id

TestMatch(table, flags, path) ==
    [include |-> Reason(GetFilters(table, FALSE), flags, path),
     exclude |-> Reason(GetFilters(table, TRUE), flags, path)]

\* joint_filter_phase: no row is looked at when there is but the program's rule.
NoFilters(table) ==
    /\ CountFilters(table, FALSE) = 1 /\ CountFilters(table, TRUE) = 0
    /\ table[-1].from = "internal"
FilterResult(table, flags, path) ==
    IF NoFilters(table) THEN [include |-> -1, exclude |-> 0] ELSE TestMatch(table, flags, path)

Selected(result) == result.include < 0 /\ result.exclude = 0

-----------------------------------------------------------------------------
(* Properties.                                                             *)

Wanted(patterns, files) ==
    ToSet(patterns) \cup UNION {ToSet(f) : f \in ToSet(files) \ {NoText}}
AskedFor(p, flags, path) ==
    /\ p.alts # <<>> /\ Compiles(p, flags)
    /\ IsMatch([p EXCEPT !.alts = [i \in DOMAIN @ |-> [@[i] EXCEPT !.start = @ \/ "anchored" \in flags]]],
               flags, path)

\* A path is kept if it matches an include, or none was given, and matches no
\* exclude; for an archive and for an extraction alike; and its reasons name
\* rules of the table that match it, whatever order they came in.  Two causes
\* make the answer another one: no include that was given can be compiled or
\* read, and then everything is included; and --anchored puts its ^ before the
\* whole pattern, where it binds the first of several alternatives.
KeepsAsAsked(c, path) ==
    LET table == IngestFilters(c)
        includes == Wanted(c.include, c.includeFrom)
        excludes == Wanted(c.exclude, c.excludeFrom)
        asked == /\ \/ c.include = <<>> /\ c.includeFrom = <<>>
                    \/ \E p \in includes: AskedFor(p, c.flags, path)
                 /\ ~\E p \in excludes: AskedFor(p, c.flags, path)
        result == FilterResult(table, c.flags, path)
    IN  /\ WriteToDb(table) = table
        /\ \A id \in {result.include, result.exclude} \ {0}:
              /\ id \in DOMAIN table
              /\ IsMatch(Anchored(table[id].expression, c.flags), c.flags, path)
        /\ \/ Selected(result) = asked
           \/ /\ c.include \o c.includeFrom # <<>>
              /\ \A p \in includes: p.alts = <<>> \/ ~Compiles(p, c.flags)
           \/ "anchored" \in c.flags /\ \E p \in includes \cup excludes: Len(p.alts) > 1
=============================================================================
