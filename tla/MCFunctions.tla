----------------------------- MODULE MCFunctions -----------------------------
(* The pure functions, one case a state: rules, names and copies.          *)
EXTENDS Filters, Names, SparseCopy

VARIABLE case

-----------------------------------------------------------------------------
(* Rules.  U is a capital u; bad does not compile, and raw only as bytes.  *)

Both == {"unicode", "bytes"}
pu == Pattern(<<Alt(FALSE, "u")>>, Both)
pU == Pattern(<<Alt(FALSE, "U")>>, Both)
pw == Pattern(<<Alt(FALSE, "u"), Alt(FALSE, "w")>>, Both)
pt == Pattern(<<Alt(TRUE, "w")>>, Both)
raw == Pattern(<<Alt(FALSE, "w")>>, {"bytes"})
bad == Pattern(<<Alt(FALSE, "u")>>, {})
blank == Pattern(<<>>, Both)
MCLowerCase == [w \in {"", "u", "U", "w", "v"} |-> IF w = "U" THEN "u" ELSE w]

Rules(include, exclude, includeFrom, excludeFrom, flags) ==
    [include |-> include, exclude |-> exclude, includeFrom |-> includeFrom,
     excludeFrom |-> excludeFrom, flags |-> flags]
Given == {<<>>, <<pu>>, <<pU>>, <<bad>>, <<pt, raw>>, <<pw>>}
FilterCases ==
    {Rules(i, x, <<>>, <<>>, f) : i \in Given, x \in Given, f \in SUBSET {"anchored", "ignoreCase", "noUnicode"}}
      \cup {Rules(i, <<pt>>, <<t, <<blank, pt>>>>, <<t>>, f) :
              i \in {<<>>, <<pu, bad>>}, t \in {NoText, <<>>, <<blank>>, <<pU, blank, raw>>},
              f \in SUBSET {"failFast", "noUnicode"}}
MCPaths == {<<>>, <<"u">>, <<"U", "w">>, <<"w", "u">>, <<"v">>, <<"v", "w">>}

-----------------------------------------------------------------------------
(* Members of sources that were given in every way, and expressions.       *)

na == <<"a">>
nb == <<"b">>
Entry(source, original, entry) == [source |-> Abs(source), original |-> original, entry |-> Abs(entry)]
Entries ==
    {Entry(<<na>>, Rel(<<Up, na>>), <<na>> \o rest) : rest \in {<<>>, <<nb>>, << <<"a", "A">>, <<"b", "a">> >>}}
      \cup {Entry(<<na>>, Rel(<<Dot>>), <<na>> \o rest) : rest \in {<<>>, << <<"a", "$">> >>}}
      \cup {Entry(<<>>, Abs(<<>>), rest) : rest \in {<<>>, <<nb, <<"a", "1">>>>}}
      \cup {Entry(<<na, nb>>, Abs(<<na, Dot, na, Up, nb>>), <<na, nb>>),
            Entry(<<na>>, Rel(<<nb, Up, Up>>), <<na, nb>>)}
Members == {TextOf(Member(e, absolute)) : e \in Entries, absolute \in BOOLEAN}
Strips == 0..2

Sub(pattern, repl, flags) == <<"s", ",">> \o pattern \o <<",">> \o repl \o <<",">> \o flags
Patterns == {na, <<"(", "a", ")", "b">>, <<"^", "a">>, <<"/", "(", "b", ")">>, <<"a", "\\", ",">>, <<"a", "(">>}
Repls == {<<>>, nb, <<"&", "&">>, <<"&", "b">>, <<"\\", "1", "/">>, <<"\\", "1", "0">>,
          <<"\\", "&", "$", "1">>, <<"$", "1">>, <<".", ".", "/">>, <<"/">>, <<"\\", ",">>, <<"a", ";">>,
          <<"\\", "\\", ".">>, <<"$", "$">>, <<"a", "$">>, <<"&", "$", "$", "a">>}
Exprs ==
    {Sub(p, r, f) : p \in Patterns, r \in Repls, f \in {<<>>, <<"i", "g">>, <<"2">>}}
      \cup {Sub(na, r, <<>>) \o <<" ", ";">> \o Sub(nb, q, <<"g">>) : r \in Repls, q \in Repls}
      \cup {<<>>, <<"s">>, <<"y", ",", "a", ",", "b", ",">>, <<"s", ",", "a", ",", "b">>, <<";", " ">>,
            <<"s", "a", "b", "a", "c", "a">>, <<"s", "\\", "b", "\\", "c", "\\">>}

-----------------------------------------------------------------------------
(* Copies: files of up to five bytes over what stood there.                *)

Copies == [data : UNION {[1..n -> {0, 1}] : n \in 0..5}, old : {<<>>, <<2>>, <<2, 0, 2, 2, 2, 2>>},
           sizeIn : {0, 2, 5, 6}, size : 1..3]

-----------------------------------------------------------------------------

Is(kind, of) == [kind |-> kind, of |-> of]
Init == \/ \E c \in FilterCases: case = Is("rules", c)
        \/ \E expr \in Exprs: case = Is("expression", expr)
        \/ \E e \in Entries: case = Is("member", e)
        \/ \E c \in Copies: case = Is("copy", c)
Next == UNCHANGED case
Spec == Init /\ [][Next]_case

\* The rules of --include and --exclude keep what they ask for, in every mode,
\* from arguments and files: KeepsAsAsked.
KeptAsAsked ==
    case.kind = "rules" /\ ~Fails(case.of) => \A path \in MCPaths: KeepsAsAsked(case.of, path)

\* --transform and --strip-components name a member as tar and sed would, and
\* it stays below the extraction root: NamedBySed, BelowRoot, PlainStripped.
RenamedAsAsked ==
    /\ case.kind = "expression" /\ Accepted(case.of) =>
          \A member \in Members:
             /\ NamedBySed(case.of, member)
             /\ \A strip \in Strips: BelowRoot(case.of, member, strip)
    /\ case.kind = "member" =>
          \A absolute \in BOOLEAN: \A strip \in Strips: PlainStripped(case.of, absolute, strip)

\* A sparse copy has every byte of its source, whatever is given up and tried
\* again, and counts the pages that the hashing counted: Exact, Counted,
\* ProgramExact.
CopyExact == case.kind = "copy" => Exact(case.of) /\ Counted(case.of) /\ ProgramExact(case.of)

\* What a member's path is made of can be stripped: "CurDir, ParentDir ->
\* Excluded due to .clean()".  It is not for the directory of a source that was
\* given as . or as /, whose path is cleaned into a single dot.
StripSeesNormal ==
    case.kind = "member" =>
        \A absolute \in BOOLEAN: \A strip \in Strips: Strippable(TextOf(Member(case.of, absolute)), strip)
=============================================================================
