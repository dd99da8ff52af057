------------------------------ MODULE Identity ------------------------------
(***************************************************************************)
(* Owners and groups (common/perms.rs): what the texts of --owner,         *)
(* --group and the map files say, what --validate-maps refuses, and which  *)
(* numeric id a file gets on the extracting host.                          *)
(*                                                                         *)
(* A text is known by its form and by the name and the id in it.  A map    *)
(* file is the sequence of the fields of its lines; a comment or a blank   *)
(* line has none.  The two sides, owner and group, go through the same     *)
(* code with a lookup of their own.                                        *)
(***************************************************************************)
EXTENDS Naturals, Sequences

CONSTANTS
    Names,  \* of users and groups
    Ids,    \* numeric ids
    NULL,   \* None
    Bad     \* a text that does not parse, and the error it ends in

Sides == {"owner", "group"}
Targets == {"ids", "names", "name-id", "id-name"}

\* At least one of the two is there.
IdentitySpec ==
    {s \in [name: Names \cup {NULL}, id: Ids \cup {NULL}] : s.name # NULL \/ s.id # NULL}
ASSUME IdentityAssumption ==
    /\ NULL \notin Names \cup Ids
    /\ Bad \notin Names \cup Ids
    /\ NULL \notin IdentitySpec
    /\ NULL # Bad

Map == [by_name: [Names -> IdentitySpec \cup {NULL}], by_id: [Ids -> IdentitySpec \cup {NULL}]]
Policy == [map: [Sides -> Map \cup {NULL}], override: [Sides -> IdentitySpec \cup {NULL}]]
Lookup == [Sides -> [Names -> Ids \cup {NULL}]]   \* the names a host knows

-----------------------------------------------------------------------------
(* Reading the command line and the map files. *)

Text == [form: {"plus", "bare", "pair"}, name: Names \cup {NULL}, id: Ids \cup {NULL, Bad}]

\* `+UID`, `NAME` (a number is taken for a name), `NAME:UID` with one side left out.
ParseSpec(t) ==
    LET parses == CASE t.form = "plus" -> t.id \in Ids
                    [] t.form = "bare" -> t.name # NULL
                    [] t.form = "pair" -> t.id # Bad /\ (t.name # NULL \/ t.id # NULL)
    IN  IF ~parses THEN Bad
        ELSE [name |-> IF t.form = "plus" THEN NULL ELSE t.name,
              id |-> IF t.form = "bare" THEN NULL ELSE t.id]

\* The lines with fields in them as pairs of specs; one bad line fails the file.
ReadMapFileEntries(lines) ==
    LET kept == {i \in DOMAIN lines: lines[i] # <<>>}
        fits(l) == Len(l) = 2 /\ ParseSpec(l[1]) # Bad /\ ParseSpec(l[2]) # Bad
    IN  IF \A i \in kept: fits(lines[i])
        THEN [i \in kept |-> <<ParseSpec(lines[i][1]), ParseSpec(lines[i][2])>>]
        ELSE Bad

\* The last entry of a source wins; a source with a name and an id is under both.
FromEntries(entries) ==
    LET last(of) == IF of = {} THEN NULL
                    ELSE entries[CHOOSE i \in of: \A j \in of: j <= i][2]
    IN  [by_name |-> [n \in Names |-> last({i \in DOMAIN entries: entries[i][1].name = n})],
         by_id |-> [u \in Ids |-> last({i \in DOMAIN entries: entries[i][1].id = u})]]

ParseMapFile(lines) ==
    LET entries == ReadMapFileEntries(lines)
    IN  IF entries = Bad THEN Bad
        ELSE IF DOMAIN entries = {} THEN NULL ELSE FromEntries(entries)

AtLeastOnePresent(p) == \E s \in Sides: p.map[s] # NULL \/ p.override[s] # NULL

\* An error if a part is one, no policy if no part is there.
PolicyOfParts(p) ==
    CASE \E s \in Sides: p.map[s] = Bad \/ p.override[s] = Bad -> Bad
      [] OTHER -> IF AtLeastOnePresent(p) THEN p ELSE NULL

\* texts and files: what each side was given, or NULL.
ParseOwnerGroupArgs(texts, files) ==
    LET given(parse(_), x) == IF x = NULL THEN NULL ELSE parse(x)
    IN  PolicyOfParts([map |-> [s \in Sides |-> given(ParseMapFile, files[s])],
                       override |-> [s \in Sides |-> given(ParseSpec, texts[s])]])

-----------------------------------------------------------------------------
(* --validate-maps: a destination that the target cannot emit is refused.  *)

\* Wrong: a destination without an id passes where ids are wanted.
CheckDstNamesOnly(dst, target, names) ==
    /\ target = "names" => dst.name # NULL
    /\ dst.name # NULL => names[dst.name] # NULL

CheckDst(dst, target, names) ==
    /\ target = "ids" => dst.id # NULL
    /\ target = "names" => dst.name # NULL
    /\ dst.name # NULL => names[dst.name] # NULL

EmptyMap == [by_name |-> [n \in Names |-> NULL], by_id |-> [u \in Ids |-> NULL]]
MapOf(p, s) == IF p.map[s] = NULL THEN EmptyMap ELSE p.map[s]

Destinations(p, s) ==
    {p.override[s]} \cup {MapOf(p, s).by_name[n] : n \in Names}
                    \cup {MapOf(p, s).by_id[u] : u \in Ids}

ValidateForResolutionMode(p, target, host) ==
    \A s \in Sides: \A dst \in Destinations(p, s) \ {NULL}: CheckDst(dst, target, host[s])

-----------------------------------------------------------------------------
(* Resolution of one side of one file: the map's entry, then the override, *)
(* then, with --same-owner only, what the archive says of the file.        *)

OrElse(x, y) == IF x = NULL THEN y ELSE x
Field(spec, f) == IF spec = NULL THEN NULL ELSE spec[f]

\* The entry of the map that matches, by name before by id.
Chosen(name, id, map) ==
    OrElse(IF name = NULL THEN NULL ELSE map.by_name[name],
           IF id = NULL THEN NULL ELSE map.by_id[id])

ResolveIds(chosen, id, override, same) ==
    OrElse(Field(chosen, "id"), OrElse(Field(override, "id"), IF same THEN id ELSE NULL))

EffectiveName(chosen, name, override, same) ==
    OrElse(Field(chosen, "name"), OrElse(Field(override, "name"), IF same THEN name ELSE NULL))

\* One name is looked up; when the host does not know it, no other is tried.
ResolveNames(chosen, name, override, same, names) ==
    LET n == EffectiveName(chosen, name, override, same)
    IN  IF n = NULL THEN NULL ELSE names[n]

ResolveNameId(chosen, name, id, override, same, names) ==
    OrElse(ResolveNames(chosen, name, override, same, names),
           ResolveIds(chosen, id, override, same))

ResolveIdName(chosen, name, id, override, same, names) ==
    OrElse(ResolveIds(chosen, id, override, same),
           ResolveNames(chosen, name, override, same, names))

ResolveIdentity(name, id, map, override, target, same, names) ==
    LET chosen == Chosen(name, id, map)
    IN  CASE target = "ids" -> ResolveIds(chosen, id, override, same)
          [] target = "names" -> ResolveNames(chosen, name, override, same, names)
          [] target = "name-id" -> ResolveNameId(chosen, name, id, override, same, names)
          [] target = "id-name" -> ResolveIdName(chosen, name, id, override, same, names)

\* The (uid, gid) of one file, NULL where its owner or group is left alone.
ResolveOwnerGroup(file, p, target, same, host) ==
    [s \in Sides |-> ResolveIdentity(file.name[s], file.id[s], MapOf(p, s), p.override[s],
                                     target, same, host[s])]
=============================================================================
