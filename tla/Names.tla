-------------------------------- MODULE Names --------------------------------
(***************************************************************************)
(* Where a member goes: its path below the extraction root, the sed        *)
(* expression of --transform (common/transform.rs), --strip-components and *)
(* the clamp of the result (unarchive/place_prologue.rs).  OutTree has the *)
(* passes that apply this to every row, with the outcome as a constant.    *)
(*                                                                         *)
(* A text is a sequence of characters.  A path is its names and whether it *)
(* starts at the root; a name is a text.  Patterns are words, with a ^, a  *)
(* group and escaped characters: what else a regex can say is the crate's. *)
(***************************************************************************)
EXTENDS Naturals, SequencesExt

Word == {"_", "a", "b", "c", "s", "x", "A", "0", "1", "2"}  \* the texts' letters and digits
Digit == {"1", "2", "3", "4", "5", "6", "7", "8", "9"}
Dot == <<".">>
Up == <<".", ".">>

Split(text, sep) ==
    FoldLeft(LAMBDA acc, c: IF c = sep THEN Append(acc, <<>>) ELSE [acc EXCEPT ![Len(acc)] = Append(@, c)],
             << <<>> >>, text)
Trim(text) ==
    LET solid == {i \in DOMAIN text : text[i] # " "}
    IN  IF solid = {} THEN <<>> ELSE SubSeq(text, Min(solid), Max(solid))

-----------------------------------------------------------------------------
(* The regex crate, as far as the program uses it.                         *)

Literal(pattern) == SelectSeq(pattern, LAMBDA c: c \notin {"^", "(", ")", "\\"})
OffsetOf(pattern, c) == Len(Literal(SubSeq(pattern, 1, SelectInSeq(pattern, LAMBDA x: x = c))))
Wellformed(pattern) ==
    LET opens == SelectInSeq(pattern, LAMBDA c: c = "(")
        closes == SelectInSeq(pattern, LAMBDA c: c = ")")
    IN  /\ opens = 0 <=> closes = 0
        /\ opens <= closes
Regex(pattern, fold) ==
    [word |-> Literal(pattern), start |-> pattern # <<>> /\ pattern[1] = "^", fold |-> fold,
     groups |-> IF "(" \in ToSet(pattern) THEN {<<OffsetOf(pattern, "(") + 1, OffsetOf(pattern, ")")>>} ELSE {}]

Lower(c) == IF c = "A" THEN "a" ELSE c
IsAt(re, text, i) ==
    /\ i + Len(re.word) - 1 <= Len(text)
    /\ \A k \in DOMAIN re.word:
          IF re.fold THEN Lower(text[i + k - 1]) = Lower(re.word[k]) ELSE text[i + k - 1] = re.word[k]
\* The first match at i or after, or 0.
Find(re, text, i) ==
    LET at == {k \in i..Len(text) : IsAt(re, text, k) /\ (re.start => k = 1)}
    IN  IF at = {} THEN 0 ELSE Min(at)
\* Group 0 is the match.
Groups(re, text, at) ==
    [name \in {<<"0">>} \cup {<<"1">> : g \in re.groups} |->
        IF name = <<"0">> THEN SubSeq(text, at, at + Len(re.word) - 1)
        ELSE LET g == CHOOSE g \in re.groups : TRUE IN SubSeq(text, at + g[1] - 1, at + g[2] - 1)]

\* After $ the longest run of word characters is the name of a group; a group
\* that does not exist is empty.
Expand(template, groups) ==
    LET end(i) == Min({k \in i..Len(template) + 1 : k > Len(template) \/ template[k] \notin Word \cup Digit})
        from[i \in 1..Len(template) + 1] ==
            CASE i > Len(template) -> <<>>
              [] i <= Len(template) /\ template[i] # "$" -> <<template[i]>> \o from[i + 1]
              [] i < Len(template) /\ template[i] = "$" /\ template[i + 1] = "$" -> <<"$">> \o from[i + 2]
              [] OTHER ->
                   LET name == SubSeq(template, i + 1, end(i + 1) - 1)
                   IN  IF name = <<>> THEN <<"$">> \o from[i + 1]
                       ELSE (IF name \in DOMAIN groups THEN groups[name] ELSE <<>>) \o from[end(i + 1)]
    IN  from[1]

\* replace and replace_all, with what stands for a match.
Replace(re, global, text, For(_)) ==
    LET from[i \in 1..Len(text) + 1] ==
            LET at == Find(re, text, i) IN
            IF at = 0 THEN SubSeq(text, i, Len(text))
            ELSE LET end == at + Len(re.word) IN
                 SubSeq(text, i, at - 1) \o For(Groups(re, text, at))
                   \o (IF global THEN from[end] ELSE SubSeq(text, end, Len(text)))
    IN  from[1]

-----------------------------------------------------------------------------
(* common/transform.rs.                                                    *)

\* The first delimiter at start or after that no backslash escapes, or 0.
FindUnescaped(text, delim, start) ==
    LET from[i \in 1..Len(text) + 2] ==
            CASE i > Len(text) -> 0
              [] i <= Len(text) /\ text[i] = "\\" -> from[i + 2]
              [] i <= Len(text) /\ text[i] = delim /\ delim # "\\" -> i
              [] OTHER -> from[i + 1]
    IN  IF start > Len(text) THEN 0 ELSE from[start]

\* Mutant: a $ of the text is left as it is.
TranslateReplacementPlain(repl) ==
    LET next(acc, c) ==
          IF acc.escaped
          THEN [out |-> acc.out \o (CASE c \in {"&", "\\"} -> <<c>>
                                      [] c \in Digit -> <<"$", c>>
                                      [] OTHER -> <<"\\", c>>),
                escaped |-> FALSE]
          ELSE [out |-> acc.out \o (CASE c = "&" -> <<"$", "0">> [] c = "\\" -> <<>> [] OTHER -> <<c>>),
                escaped |-> c = "\\"]
        end == FoldLeft(next, [out |-> <<>>, escaped |-> FALSE], repl)
    IN  IF end.escaped THEN Append(end.out, "\\") ELSE end.out
\* From the replacement of sed to that of the crate.
TranslateReplacement(repl) ==
    LET next(acc, c) ==
          IF acc.escaped
          THEN [out |-> acc.out \o (CASE c \in {"&", "\\"} -> <<c>>
                                      [] c \in Digit -> <<"$", c>>
                                      [] OTHER -> <<"\\", c>>),
                escaped |-> FALSE]
          ELSE [out |-> acc.out \o (CASE c = "&" -> <<"$", "0">> [] c = "\\" -> <<>>
                                      [] c = "$" -> <<"$", "$">> [] OTHER -> <<c>>),
                escaped |-> c = "\\"]
        end == FoldLeft(next, [out |-> <<>>, escaped |-> FALSE], repl)
    IN  IF end.escaped THEN Append(end.out, "\\") ELSE end.out

\* The parts of one clause: none unless it is s, a delimiter, a pattern, a
\* replacement and flags that are known.
Parts(clause) ==
    IF Len(clause) < 3 \/ clause[1] # "s" THEN {}
    ELSE LET patEnd == FindUnescaped(clause, clause[2], 3)
             replEnd == IF patEnd = 0 THEN 0 ELSE FindUnescaped(clause, clause[2], patEnd + 1)
         IN  IF replEnd = 0 THEN {}
             ELSE {[pattern |-> SubSeq(clause, 3, patEnd - 1),
                    repl |-> SubSeq(clause, patEnd + 1, replEnd - 1),
                    flags |-> ToSet(SubSeq(clause, replEnd + 1, Len(clause)))]}
ParseClause(clause) == {p \in Parts(clause) : p.flags \subseteq {"g", "i", "x"} /\ Wellformed(p.pattern)}

\* parse_transform_expr: the clauses between the semicolons, and an error if
\* one is none or there is none.
Clauses(expr) == SelectSeq([i \in DOMAIN Split(expr, ";") |-> Trim(Split(expr, ";")[i])], LAMBDA c: c # <<>>)
Accepted(expr) ==
    /\ Clauses(expr) # <<>>
    /\ \A i \in DOMAIN Clauses(expr): ParseClause(Clauses(expr)[i]) # {}

Step(part, text) ==
    Replace(Regex(part.pattern, "i" \in part.flags), "g" \in part.flags, text,
            LAMBDA groups: Expand(TranslateReplacement(part.repl), groups))
Apply(expr, text) ==
    FoldLeft(LAMBDA out, clause: Step(CHOOSE p \in ParseClause(clause) : TRUE, out), text, Clauses(expr))

-----------------------------------------------------------------------------
(* Paths: std::path and path_clean.                                        *)

Rel(names) == [absolute |-> FALSE, names |-> names]
Abs(names) == [absolute |-> TRUE, names |-> names]
Normal(name) == name \notin {Dot, Up}

\* Path::components: a . stays where it comes first.
PathOfText(text) ==
    LET absolute == text # <<>> /\ text[1] = "/"
        names == SelectSeq(Split(text, "/"), LAMBDA n: n \notin {<<>>, Dot})
    IN  IF ~absolute /\ Split(text, "/")[1] = Dot THEN Rel(<<Dot>> \o names)
        ELSE [absolute |-> absolute, names |-> names]
TextOf(path) ==
    (IF path.absolute THEN <<"/">> ELSE <<>>)
      \o FoldLeft(LAMBDA text, n: IF text = <<>> THEN n ELSE text \o <<"/">> \o n, <<>>, path.names)

Clean(path) ==
    LET next(out, n) ==
          CASE n = Dot -> out
            [] n = Up /\ out # <<>> /\ Last(out) # Up -> Front(out)
            [] n = Up /\ path.absolute /\ out = <<>> -> out
            [] OTHER -> Append(out, n)
        names == FoldLeft(next, <<>>, path.names)
    IN  IF names = <<>> /\ ~path.absolute THEN Rel(<<Dot>>) ELSE [path EXCEPT !.names = names]

-----------------------------------------------------------------------------
(* unarchive/place_prologue.rs.                                            *)

StripLeadingUp(path) == SelectSeq(path.names, Normal)

\* The path below the root without new names: of a source as it was given, or
\* with --absolute-names from /.
RelRelPath(c) ==
    LET given == Clean(c.original)
        prefix == IF given.absolute THEN given.names ELSE StripLeadingUp(given)
    IN  Clean(Rel(prefix \o SubSeq(c.entry.names, Len(c.source.names) + 1, Len(c.entry.names))))
AbsRelPath(c) == Rel(c.entry.names)
Member(c, absolute) == IF absolute THEN AbsRelPath(c) ELSE RelRelPath(c)

\* What strip_relative_member takes; it panics on the rest.
Strippable(text, strip) ==
    strip > 0 => ~PathOfText(text).absolute /\ \A n \in ToSet(PathOfText(text).names): Normal(n)
StripRelativeMember(text, strip) ==
    LET names == PathOfText(text).names IN
    CASE strip = 0 -> text
      [] strip > 0 /\ Len(names) <= strip -> <<>>
      [] OTHER -> TextOf(Rel(SubSeq(names, strip + 1, Len(names))))

\* apply_renames: what a row is called, stripped after the expression as in GNU
\* tar.
NewName(expr, text, strip) == StripRelativeMember(Apply(expr, text), strip)

\* build_new_out_tree_rows: where a row with a new name goes.
Target(newName) == StripLeadingUp(Clean(PathOfText(newName)))

-----------------------------------------------------------------------------
(* Properties.                                                             *)

\* sed reads a clause where the last one ended, whatever stands in between, and
\* a replacement one character or escape after another.
SedClauses(expr) ==
    LET from[i \in 1..Len(expr) + 2] ==
            CASE i > Len(expr) -> <<>>
              [] i <= Len(expr) /\ expr[i] \in {" ", ";"} -> from[i + 1]
              [] OTHER ->
                   LET rest == SubSeq(expr, i, Len(expr))
                       patEnd == IF Len(rest) < 3 THEN 0 ELSE FindUnescaped(rest, rest[2], 3)
                       replEnd == IF patEnd = 0 THEN 0 ELSE FindUnescaped(rest, rest[2], patEnd + 1)
                       ends == {k \in replEnd + 1..Len(rest) : rest[k] = ";"}
                       end == IF ends = {} THEN Len(rest) ELSE Min(ends) - 1
                   IN  IF replEnd = 0 THEN <<Trim(rest)>> ELSE <<Trim(SubSeq(rest, 1, end))>> \o from[i + end]
    IN  from[1]
SedExpand(repl, groups) ==
    LET group(name) == IF name \in DOMAIN groups THEN groups[name] ELSE <<>>
        from[i \in 1..Len(repl) + 2] ==
            CASE i > Len(repl) -> <<>>
              [] i <= Len(repl) /\ repl[i] = "&" -> group(<<"0">>) \o from[i + 1]
              [] i < Len(repl) /\ repl[i] = "\\" ->
                   (IF repl[i + 1] \in Digit THEN group(<<repl[i + 1]>>) ELSE <<repl[i + 1]>>) \o from[i + 2]
              [] OTHER -> <<repl[i]>> \o from[i + 1]
    IN  from[1]
Sed(expr, text) ==
    FoldLeft(LAMBDA out, clause:
               LET p == CHOOSE p \in ParseClause(clause) : TRUE
               IN  Replace(Regex(p.pattern, "i" \in p.flags), "g" \in p.flags, out,
                           LAMBDA groups: SedExpand(p.repl, groups)),
             text, SedClauses(expr))

\* A reference of the replacement that a word character follows.
RunOn(repl) == \E i \in 1..Len(repl) - 1:
    /\ repl[i + 1] \in Word \cup Digit
    /\ \/ repl[i] = "&"
       \/ i > 1 /\ repl[i] \in Digit /\ repl[i - 1] = "\\"
\* A character that is escaped and is neither & nor \ nor a digit.
Escaped(repl) == \E i \in 1..Len(repl) - 1: repl[i] = "\\" /\ repl[i + 1] \notin {"&", "\\"} \cup Digit

\* A member gets the name that sed gives it.  A semicolon inside a clause, which
\* ends it here and not for sed, is refused.  Two causes make the name another
\* one: a reference with a word character after it, which the crate takes for
\* a longer name, and an escaped character, as the delimiter, which keeps its
\* backslash.
NamedBySed(expr, member) ==
    /\ SedClauses(expr) = Clauses(expr)
    /\ \/ Apply(expr, member) = Sed(expr, member)
       \/ \E clause \in ToSet(Clauses(expr)): \E p \in ParseClause(clause): RunOn(p.repl) \/ Escaped(p.repl)

\* It goes below the extraction root whatever .. or / the expression puts into
\* its name.
BelowRoot(expr, member, strip) ==
    Strippable(Apply(expr, member), strip) =>
        \A n \in ToSet(Target(NewName(expr, member, strip))): Normal(n) /\ n # <<>>

\* A name that no expression changes leads where the path does without it, and
\* stripping leaves the names after the first ones.  The one path that cannot
\* be stripped is the dot that the directory of a source is cleaned into when
\* it was given as . or as /.
PlainStripped(c, absolute, strip) ==
    LET plain == TextOf(Member(c, absolute)) IN
    /\ Target(plain) = StripLeadingUp(Clean(Member(c, absolute)))
    /\ Strippable(plain, strip) \/ plain = Dot
    /\ strip > 0 /\ Strippable(plain, strip) =>
          Target(StripRelativeMember(plain, strip)) = SubSeq(Target(plain), strip + 1, Len(Target(plain)))
=============================================================================
