--------------------------- MODULE PlacingProofs ---------------------------
(***************************************************************************)
(* The placement of any catalogue, with any batch size, number of workers, *)
(* signals, crashes and reruns.  The tables of the prologue grow by walks  *)
(* that a crash restarts, so the invariant says what the walk has done     *)
(* behind its cursor (WalkInv) and what holds of every row at any time     *)
(* (TreeInv).  The election is a list of statements, each committed alone, *)
(* and ElectInv says what those that have run leave decided.  PayloadInv   *)
(* says which outcomes and which flags vouch for what is on disk while the *)
(* passes, their pool and a rerun change both.                             *)
(***************************************************************************)
EXTENDS Placing, TLAPS, FiniteSetTheorems, SequenceTheorems

-----------------------------------------------------------------------------
(* Walks.                                                                   *)

Triple == Nat \X Nat \X Nat

LEMMA EarlierOrder ==
    ASSUME NEW a \in Triple, NEW b \in Triple, NEW c \in Triple
    PROVE  /\ Earlier(a, b) /\ Earlier(b, c) => Earlier(a, c)
           /\ ~Earlier(a, a)
           /\ a = b \/ Earlier(a, b) \/ Earlier(b, a)
           /\ ~(Earlier(a, b) /\ Earlier(b, a))
  BY DEF Earlier, Triple

LEMMA FewestExists ==
    ASSUME NEW S, S # {}, NEW Size, \A x \in S : Size[x] \in Nat
    PROVE  \E x \in S : \A y \in S : Size[x] <= Size[y]
  <1> DEFINE sizes == {Size[x] : x \in S}
  <1>1. sizes \subseteq Nat /\ sizes # {}
    OBVIOUS
  <1>2. PICK n \in sizes : \A m \in sizes : <<m, n>> \notin OpToRel(<, Nat)
    BY <1>1, NatLessThanWellFounded, WFMin, Zenon
  <1>3. \A m \in sizes : ~(m < n)
    BY <1>1, <1>2 DEF OpToRel
  <1>4. PICK x \in S : Size[x] = n
    OBVIOUS
  <1> QED BY <1>1, <1>3, <1>4

\* A walk over a finite list has a next entry until it is through.
LEMMA NextExists ==
    ASSUME NEW S \in SUBSET Triple, IsFiniteSet(S), Ahead(S) # {}
    PROVE  \E x \in Ahead(S) : UpTo(S, x) = {x}
  <1> DEFINE size == [x \in Ahead(S) |-> Cardinality(UpTo(S, x))]
  <1>1. Ahead(S) \subseteq Triple /\ IsFiniteSet(Ahead(S))
    BY FS_Subset DEF Ahead
  <1>2. \A x \in Ahead(S) : IsFiniteSet(UpTo(S, x)) /\ size[x] \in Nat
    BY <1>1, FS_Subset, FS_CardinalityType DEF UpTo
  <1>3. PICK x \in Ahead(S) : \A y \in Ahead(S) : size[x] <= size[y]
    <2> HIDE DEF size
    <2> QED BY <1>2, FewestExists
  <1>4. x \in UpTo(S, x)
    BY <1>1, EarlierOrder DEF UpTo
  <1>5. ASSUME NEW y \in UpTo(S, x), y # x PROVE FALSE
    <2>1. y \in Ahead(S) /\ Earlier(y, x)
      BY <1>1, <1>5, EarlierOrder DEF UpTo
    <2>2. UpTo(S, y) \subseteq UpTo(S, x)
      <3> SUFFICES ASSUME NEW z \in UpTo(S, y) PROVE ~Earlier(x, z)
        BY DEF UpTo
      <3> QED BY <1>1, <2>1, EarlierOrder DEF UpTo
    <2>3. x \notin UpTo(S, y)
      BY <2>1 DEF UpTo
    <2>4. Cardinality(UpTo(S, y)) < Cardinality(UpTo(S, x))
      BY <1>2, <1>4, <2>1, <2>2, <2>3, FS_Subset
    <2> QED BY <1>3, <2>1, <2>4, <1>2
  <1> QED BY <1>3, <1>4, <1>5

LEMMA LatestExists ==
    ASSUME NEW S \in SUBSET Triple, IsFiniteSet(S), S # {}
    PROVE  /\ LastOf(S) \in S
           /\ \A y \in S : ~Earlier(LastOf(S), y)
  <1> DEFINE later(x) == {y \in S : Earlier(x, y)}
             size == [x \in S |-> Cardinality(later(x))]
  <1>2. \A x \in S : IsFiniteSet(later(x)) /\ size[x] \in Nat
    BY FS_Subset, FS_CardinalityType
  <1>3. PICK x \in S : \A y \in S : size[x] <= size[y]
    <2> HIDE DEF size
    <2> QED BY <1>2, FewestExists
  <1>5. ASSUME NEW y \in S, Earlier(x, y) PROVE FALSE
    <2>1. later(y) \subseteq later(x)
      BY <1>5, EarlierOrder
    <2>2. y \in later(x) /\ y \notin later(y)
      BY <1>5, EarlierOrder
    <2>3. Cardinality(later(y)) < Cardinality(later(x))
      <3> HIDE DEF later
      <3> QED BY <1>2, <2>1, <2>2, FS_Subset
    <2> QED BY <1>3, <2>3, <1>2
  <1> QED BY <1>5 DEF LastOf

\* A page takes what comes next, never skips an entry, and stays in one list.
LEMMA PageTakes ==
    ASSUME NEW S \in SUBSET Triple, IsFiniteSet(S)
    PROVE  /\ Page(S) \subseteq Ahead(S)
           /\ Page(S) = {} => Ahead(S) = {}
           /\ \A x \in Page(S), y \in Ahead(S) : Earlier(y, x) => y \in Page(S)
           /\ \A x, y \in Page(S) : x[1] = y[1] /\ x[2] = y[2]
  <1>1. Ahead(S) \subseteq Triple /\ IsFiniteSet(Ahead(S))
    BY FS_Subset DEF Ahead
  <1>2. \A x \in Ahead(S) : IsFiniteSet(UpTo(S, x)) /\ Cardinality(UpTo(S, x)) \in Nat
    BY <1>1, FS_Subset, FS_CardinalityType DEF UpTo
  <1>3. Page(S) \subseteq Ahead(S)
    BY DEF Page
  <1>4. Ahead(S) # {} => Page(S) # {}
    <2> SUFFICES ASSUME Ahead(S) # {} PROVE Page(S) # {}
      OBVIOUS
    <2>1. PICK x \in Ahead(S) : UpTo(S, x) = {x}
      BY NextExists
    <2>2. Cardinality({x}) = 1 /\ 1 <= Batch
      BY FS_Singleton, OutTreeAssumption
    <2>3. x \in Page(S)
      BY <2>1, <2>2 DEF Page
    <2> QED BY <2>3
  <1>5. ASSUME NEW x \in Page(S), NEW y \in Ahead(S), Earlier(y, x) PROVE y \in Page(S)
    <2>1. x \in Ahead(S) /\ y \in UpTo(S, x)
      BY <1>1, <1>3, <1>5, EarlierOrder DEF UpTo
    <2>2. UpTo(S, y) \subseteq UpTo(S, x)
      <3> SUFFICES ASSUME NEW z \in UpTo(S, y) PROVE ~Earlier(x, z)
        BY DEF UpTo
      <3> QED BY <1>1, <2>1, <1>5, EarlierOrder DEF UpTo
    <2>3. Cardinality(UpTo(S, y)) <= Cardinality(UpTo(S, x))
      BY <1>2, <2>1, <2>2, FS_Subset
    <2>4. Cardinality(UpTo(S, y)) <= Batch
      BY <2>3, <1>2, <2>1, OutTreeAssumption DEF Page
    <2>5. \A z \in UpTo(S, y) : z[1] = y[1] /\ z[2] = y[2]
      BY <2>1, <2>2 DEF Page
    <2> QED BY <2>4, <2>5 DEF Page
  <1>6. ASSUME NEW x \in Page(S), NEW y \in Page(S) PROVE x[1] = y[1] /\ x[2] = y[2]
    <2>1. x = y \/ y \in UpTo(S, x) \/ x \in UpTo(S, y)
      BY <1>1, <1>3, EarlierOrder DEF UpTo
    <2> QED BY <2>1 DEF Page
  <1> QED BY <1>3, <1>4, <1>5, <1>6

\* Behind the last entry of a page lies what lay ahead, without the page.
LEMMA PageStep ==
    ASSUME NEW S \in SUBSET Triple, IsFiniteSet(S), cursor \in Triple, Page(S) # {},
           cursor' = LastOf(Page(S))
    PROVE  /\ cursor' \in Page(S)
           /\ {x \in S : Earlier(cursor', x)} = Ahead(S) \ Page(S)
  <1>1. Page(S) \subseteq Ahead(S) /\ Ahead(S) \subseteq S /\ IsFiniteSet(Page(S))
    BY PageTakes, FS_Subset DEF Ahead
  <1>2. cursor' \in Page(S) /\ \A y \in Page(S) : ~Earlier(cursor', y)
    BY <1>1, LatestExists
  <1>3. cursor' \in Triple /\ Earlier(cursor, cursor')
    BY <1>1, <1>2 DEF Ahead
  <1>4. ASSUME NEW x \in S, Earlier(cursor', x) PROVE x \in Ahead(S) \ Page(S)
    BY <1>2, <1>3, <1>4, EarlierOrder DEF Ahead
  <1>5. ASSUME NEW x \in Ahead(S), x \notin Page(S) PROVE Earlier(cursor', x)
    BY <1>1, <1>2, <1>3, <1>5, PageTakes, EarlierOrder
  <1> QED BY <1>1, <1>2, <1>4, <1>5

LEMMA EntryStep ==
    ASSUME NEW S \in SUBSET Triple, cursor \in Triple, NEW x, Comes(S, x), cursor' = x
    PROVE  /\ x \in Ahead(S)
           /\ {y \in S : Earlier(cursor', y)} = Ahead(S) \ {x}
           /\ \A y \in S : y \notin Ahead(S) => Earlier(y, x)
  <1>1. x \in Ahead(S) /\ UpTo(S, x) = {x} /\ Ahead(S) \subseteq S
    BY DEF Comes, Ahead
  <1>2. x \in Triple /\ Earlier(cursor, x)
    BY <1>1 DEF Ahead
  <1>3. ASSUME NEW y \in S, Earlier(x, y) PROVE y \in Ahead(S) \ {x}
    BY <1>2, <1>3, EarlierOrder DEF Ahead
  <1>4. ASSUME NEW y \in Ahead(S), y # x PROVE Earlier(x, y)
    BY <1>1, <1>2, <1>4, EarlierOrder DEF UpTo
  <1>5. ASSUME NEW y \in S, y \notin Ahead(S) PROVE Earlier(y, x)
    BY <1>2, <1>5, EarlierOrder DEF Ahead
  <1> QED BY <1>1, <1>3, <1>4, <1>5

-----------------------------------------------------------------------------
(* Orders over finite sets.                                                 *)

\* A list of distinct members, as many as there are, holds every member.
LEMMA ListsAll ==
    ASSUME NEW S, IsFiniteSet(S), NEW n \in Nat, n = Cardinality(S),
           NEW f \in [1..n -> S], \A i, j \in 1..n : f[i] = f[j] => i = j
    PROVE  \A x \in S : \E i \in 1..n : f[i] = x
  <1>1. f \in Injection(1..n, S)
    BY DEF Injection, IsInjective
  <1>2. Cardinality(1..n) = n /\ IsFiniteSet(1..n)
    BY FS_Interval
  <1>3. f \in Surjection(1..n, S)
    BY <1>1, <1>2, FS_Injection
  <1> QED BY <1>3 DEF Surjection

LEMMA AscendingLists ==
    ASSUME NEW S \in SUBSET Nat, IsFiniteSet(S)
    PROVE  /\ Cardinality(S) \in Nat
           /\ Ascending(S) \in [1..Cardinality(S) -> S]
           /\ \A i, j \in 1..Cardinality(S) : Ascending(S)[i] = Ascending(S)[j] => i = j
           /\ \A x \in S : \E i \in 1..Cardinality(S) : Ascending(S)[i] = x
  <1> DEFINE n == Cardinality(S)
             upTo(x) == {y \in S : y <= x}
             rank == [x \in S |-> Cardinality(upTo(x))]
  <1>1. n \in Nat
    BY FS_CardinalityType
  <1>2. \A x \in S : /\ IsFiniteSet(upTo(x)) /\ rank[x] \in 1..n
    <2> TAKE x \in S
    <2>1. IsFiniteSet(upTo(x)) /\ Cardinality(upTo(x)) <= n
      BY FS_Subset
    <2>2. upTo(x) # {}
      OBVIOUS
    <2>3. Cardinality(upTo(x)) \in Nat /\ Cardinality(upTo(x)) # 0
      BY <2>1, <2>2, FS_CardinalityType, FS_EmptySet
    <2> QED BY <1>1, <2>1, <2>3
  <1>3. \A x, y \in S : x < y => rank[x] < rank[y]
    <2> SUFFICES ASSUME NEW x \in S, NEW y \in S, x < y PROVE rank[x] < rank[y]
      OBVIOUS
    <2>a. S \subseteq Nat /\ x \in Nat /\ y \in Nat
      OBVIOUS
    <2>b. (\A z \in S : z <= x => z <= y) /\ y <= y /\ ~(y <= x)
      BY <2>a
    <2>1. upTo(x) \subseteq upTo(y) /\ y \in upTo(y) /\ y \notin upTo(x)
      BY <2>b, Zenon
    <2>2. Cardinality(upTo(x)) # Cardinality(upTo(y)) /\ Cardinality(upTo(x)) <= Cardinality(upTo(y))
      <3> HIDE DEF upTo
      <3> QED BY <1>2, <2>1, FS_Subset
    <2> QED BY <2>2, <1>2
  <1>4. rank \in [S -> 1..n] /\ \A x, y \in S : rank[x] = rank[y] => x = y
    BY <1>2, <1>3
  <1>5. rank \in Surjection(S, 1..n)
    <2> HIDE DEF rank, n
    <2>1. rank \in Injection(S, 1..n)
      BY <1>4 DEF Injection, IsInjective
    <2>2. IsFiniteSet(1..n) /\ Cardinality(1..n) = n
      BY <1>1, FS_Interval
    <2> QED BY <2>1, <2>2, FS_Injection DEF n
  <1>6. \A i \in 1..n : \E x \in S : rank[x] = i
    <2> HIDE DEF rank, n
    <2> QED BY <1>5 DEF Surjection
  <1>7. \A i \in 1..n : Ascending(S)[i] = CHOOSE x \in S : rank[x] = i
    BY DEF Ascending
  <1>8. \A i \in 1..n : Ascending(S)[i] \in S /\ rank[Ascending(S)[i]] = i
    <2> HIDE DEF rank, n
    <2> QED BY <1>6, <1>7
  <1>9. Ascending(S) \in [1..n -> S]
    BY <1>8 DEF Ascending
  <1>10. \A x \in S : Ascending(S)[rank[x]] = x
    <2> HIDE DEF rank, n
    <2> QED BY <1>4, <1>8
  <1> HIDE DEF rank
  <1> QED BY <1>1, <1>4, <1>8, <1>9, <1>10

\* A finite set of numbers has a largest one.
LEMMA LargestExists ==
    ASSUME NEW S \in SUBSET Nat, IsFiniteSet(S), S # {}
    PROVE  Max1(S) \in S /\ \A x \in S : x <= Max1(S)
  <1>3. PICK m \in S : \A x \in S : x <= m
    <2> DEFINE above(x) == {y \in S : y > x}
               size == [x \in S |-> Cardinality(above(x))]
    <2>2. \A x \in S : IsFiniteSet(above(x)) /\ size[x] \in Nat
      BY FS_Subset, FS_CardinalityType
    <2>3. PICK x \in S : \A y \in S : size[x] <= size[y]
      <3> HIDE DEF size
      <3> QED BY <2>2, FewestExists
    <2>5. ASSUME NEW y \in S, y > x PROVE FALSE
      <3>a. S \subseteq Nat /\ x \in Nat /\ y \in Nat
        OBVIOUS
      <3>1. (\A z \in S : z > y => z > x) /\ ~(y > y)
        BY <2>5, <3>a
      <3>2. above(y) \subseteq above(x) /\ y \in above(x) /\ y \notin above(y)
        BY <2>5, <3>1, Zenon
      <3>3. Cardinality(above(y)) < Cardinality(above(x))
        <4> HIDE DEF above
        <4> QED BY <2>2, <3>2, FS_Subset
      <3> QED BY <2>3, <3>3, <2>2
    <2> QED BY <2>5
  <1> QED BY <1>3 DEF Max1

-----------------------------------------------------------------------------
(* The invariant.                                                           *)

Flag == OutTreeFlag \cup {"Interrupted", "AtLinkSource"}
Shape == [path: Paths, file: Files \cup {0}, dir: BOOLEAN, canon: Nat, flags: SUBSET Flag]
Jobs == [id: Nat, flags: SUBSET Flag]

TypeInv ==
    /\ cat \in Catalogues
    /\ tree \in Seq(Shape)
    /\ \A r \in Rows : tree[r].canon \in {0} \cup Rows
    /\ newName \in [Files -> Paths \cup {Unset, NoPath}]
    /\ cursor \in Triple
    /\ todo \subseteq Nat /\ work \subseteq Nat /\ busy \subseteq Jobs /\ out \subseteq Jobs

\* Where the driving thread can be, and what is saved by then.
Inserting == {"insert", "refs", "parents", "built"}
Building == Inserting \cup {"rename", "elect", "finish"}
PlainPasses == {"files", "sweep", "hardlinks", "others"}
PlacePcs == PlainPasses \cup {"clean", "dirs", "flags", "sweep2", "promote", "move", "link"}

PhaseInv ==
    /\ pc \in Building \cup PlacePcs \cup Settled \cup {"enter", "verify"}
    /\ phase \in {"PlacementPrologue", "Place", "Permissions"}
    /\ pc \in Building => phase = "PlacementPrologue" /\ "prologueDone" \notin meta
    /\ pc \in Inserting => "treeBuilt" \notin meta
    /\ pc \in {"elect", "finish"} => "treeBuilt" \in meta
    /\ pc \in PlacePcs => phase = "Place"
    /\ pc \in {"move", "link"} => On("linkTree")
    /\ pc \in PlainPasses => ~On("linkTree")
    /\ pc = "verify" => phase # "Permissions" /\ "prologueDone" \in meta
    /\ phase # "PlacementPrologue" => "prologueDone" \in meta
    /\ "prologueDone" \in meta => "treeBuilt" \in meta

\* The members that claim a path, as entries of the walk, and the path each
\* claims.
Srcs == IF On("absolute") THEN {0} ELSE Sources
Rank(f) == IF cat.kind[f] = "dir" THEN 0 ELSE 1
Entries ==
    {x \in Srcs \X {0, 1} \X Files : <<x[1], x[3]>> \in Claims /\ x[2] = Rank(x[3])}
Goal(x) == Claim(x[1], x[3])
Seen == {f \in Files : \E x \in Members(FALSE) : x[3] = f}

\* A scaffold row is the parent of a row that is no directory.
Bears(r) == \E q \in Rows : ~tree[q].dir /\ tree[r].path = Parent[tree[q].path]

\* Every path has one row, that of its first claimant, and a path that nobody
\* claims has a scaffold row, for a row that needs it.
TreeInv ==
    /\ \A r, q \in Rows : tree[r].path = tree[q].path => r = q
    /\ \A r \in Rows : tree[r].dir = (tree[r].file = 0 \/ cat.kind[tree[r].file] = "dir")
    /\ \A r \in Rows : tree[r].file # 0 =>
          \E x \in Entries : /\ x[3] = tree[r].file /\ Goal(x) = tree[r].path
                             /\ \A y \in Entries : Goal(y) = Goal(x) => y = x \/ Earlier(x, y)
    /\ \A r \in Rows : tree[r].file = 0 =>
          (\A y \in Entries : Goal(y) # tree[r].path) /\ Bears(r)

Filed(x) ==
    \E r \in Rows : /\ tree[r].path = Goal(x)
                    /\ tree[r].file # x[3] => <<x[3], r>> \in conflicts
Linked(x) ==
    x[1] # 0 => \E r \in Rows : tree[r].path = Goal(x) /\ <<r, x[1]>> \in refOut
HasParent(r) == \E q \in Rows : tree[q].path = Parent[tree[r].path]

\* A file is renamed to the name of the last source walked.
Renaming ==
    \A x \in Members(FALSE) \ Ahead(Members(FALSE)) :
        (\A y \in Members(FALSE) \ Ahead(Members(FALSE)) : y[3] = x[3] => y[1] <= x[1])
            => newName[x[3]] = cat.target[x[1]][x[3]]
LastNamed == \A f \in Seen : newName[f] = cat.target[LastSource(f)][f]

WalkInv ==
    /\ \A f \in Files : newName[f] # Unset => f \in Seen
    /\ pc = "rename" => Renaming
    /\ pc \in Inserting /\ On("renames") => LastNamed
    /\ pc = "refs" => refs \subseteq Entries \ Ahead(Entries)
    /\ pc \in {"insert", "refs"} =>
          \A x \in Entries \ Ahead(Entries) :
              Filed(x) /\ (Linked(x) \/ (pc = "refs" /\ x \in refs))
    /\ pc \in {"parents", "built"} \/ "treeBuilt" \in meta =>
          \A x \in Entries : Filed(x) /\ Linked(x)
    /\ pc = "parents" =>
          \A r \in Rows : ~tree[r].dir /\ <<0, 0, r>> \notin Ahead(Plain) => HasParent(r)
    /\ pc = "built" \/ "treeBuilt" \in meta => \A r \in Rows : ~tree[r].dir => HasParent(r)

-----------------------------------------------------------------------------
(* The lists that are walked.                                               *)

LEMMA TriplesFinite ==
    ASSUME NEW A, NEW B, NEW C, IsFiniteSet(A), IsFiniteSet(B), IsFiniteSet(C)
    PROVE  IsFiniteSet(A \X B \X C)
  <1> DEFINE nest == [x \in A \X B \X C |-> <<<<x[1], x[2]>>, x[3]>>]
  <1>1. IsFiniteSet((A \X B) \X C)
    BY FS_Product
  <1>2. nest \in [A \X B \X C -> (A \X B) \X C]
    OBVIOUS
  <1>3. ASSUME NEW x \in A \X B \X C, NEW y \in A \X B \X C, nest[x] = nest[y]
        PROVE  x = y
    BY <1>3
  <1>4. nest \in Injection(A \X B \X C, (A \X B) \X C)
    <2> HIDE DEF nest
    <2> QED BY <1>2, <1>3 DEF Injection, IsInjective
  <1> QED BY <1>1, <1>4, FS_Injection

LEMMA CatalogueTyped ==
    ASSUME cat \in Catalogues
    PROVE  /\ cat \in Catalogue
           /\ cat.kind \in [Files -> {"file", "dir", "link", "special"}]
           /\ cat.inode \in [Files -> Inodes \cup {NoInode}]
           /\ cat.twin \in [Files -> Files \cup {0}]
           /\ cat.covers \in [Sources -> SUBSET Files]
           /\ cat.target \in [Sources \cup {0} -> [Files -> Paths \cup {NoPath}]]
           /\ cat.before \in [Paths -> Node]
           /\ SoundCatalogue(cat)
  BY OutTreeAssumption DEF Catalogue

LEMMA SourcesFinite ==
    ASSUME cat \in Catalogues
    PROVE  /\ IsFiniteSet(Srcs) /\ Srcs \subseteq Nat /\ Srcs \subseteq Sources \cup {0}
           /\ IsFiniteSet(Srcs \X {0, 1} \X Files)
           /\ Srcs \X {0, 1} \X Files \subseteq Triple
  <1>1. IsFiniteSet(Srcs)
    BY OutTreeAssumption, FS_Singleton DEF Srcs
  <1>2. Srcs \subseteq Nat /\ Srcs \subseteq Sources \cup {0} /\ Files \subseteq Nat
    BY OutTreeAssumption DEF Srcs
  <1>3. IsFiniteSet({0, 1})
    <2>1. {0, 1} = {0} \cup {1}
      OBVIOUS
    <2>2. IsFiniteSet({0})
      BY FS_Singleton
    <2>3. IsFiniteSet({0} \cup {1})
      BY <2>2, FS_AddElement
    <2> QED BY <2>1, <2>3
  <1>4. IsFiniteSet(Srcs \X {0, 1} \X Files)
    BY <1>1, <1>3, TriplesFinite, OutTreeAssumption
  <1>5. Srcs \X {0, 1} \X Files \subseteq Triple
    <2>1. {0, 1} \subseteq Nat
      OBVIOUS
    <2> QED BY <1>2, <2>1 DEF Triple
  <1> QED BY <1>1, <1>2, <1>4, <1>5

LEMMA MembersFinite ==
    ASSUME cat \in Catalogues, NEW named \in BOOLEAN
    PROVE  /\ Members(named) \in SUBSET Triple /\ IsFiniteSet(Members(named))
           /\ Members(named) \subseteq Srcs \X {0, 1} \X Files
           /\ Entries \in SUBSET Triple /\ IsFiniteSet(Entries)
           /\ Entries \subseteq Srcs \X {0, 1} \X Files
  <1>1. Members(named) \subseteq Srcs \X {0, 1} \X Files
    BY DEF Members, Srcs
  <1>2. Entries \subseteq Srcs \X {0, 1} \X Files
    BY DEF Entries
  <1> QED BY <1>1, <1>2, SourcesFinite, FS_Subset

LEMMA RowsFinite ==
    ASSUME tree \in Seq(Shape)
    PROVE  /\ Len(tree) \in Nat /\ Rows = 1..Len(tree) /\ IsFiniteSet(Rows)
           /\ Rows \subseteq Nat \ {0}
           /\ \A r \in Rows : tree[r] \in Shape
           /\ Plain \in SUBSET Triple /\ IsFiniteSet(Plain)
  <1>1. Len(tree) \in Nat /\ Rows = 1..Len(tree) /\ \A r \in Rows : tree[r] \in Shape
    BY DEF Rows
  <1>2. IsFiniteSet(Rows)
    BY <1>1, FS_Interval
  <1>3. IsFiniteSet({0} \X {0} \X Rows)
    BY <1>2, TriplesFinite, FS_Singleton
  <1>4. Plain \subseteq {0} \X {0} \X Rows
    BY DEF Plain
  <1>5. {0} \X {0} \X Rows \subseteq Triple
    BY <1>1 DEF Triple
  <1> QED BY <1>1, <1>2, <1>3, <1>4, <1>5, FS_Subset

\* What the names are when the walk that uses them runs.
LEMMA LastSourceCovers ==
    ASSUME cat \in Catalogues, NEW x \in Members(FALSE)
    PROVE  /\ LastSource(x[3]) \in Srcs
           /\ x[1] <= LastSource(x[3])
           /\ LastSource(x[3]) # 0 => x[3] \in cat.covers[LastSource(x[3])]
           /\ <<LastSource(x[3]), x[2], x[3]>> \in Members(FALSE)
  <1> DEFINE f == x[3]
             covering == {s \in Sources : f \in cat.covers[s]}
  <1>1. x \in Srcs \X {0, 1} \X Files
    BY MembersFinite
  <1>2. CASE On("absolute")
    <2>1. x[1] = 0 /\ LastSource(f) = 0 /\ x = <<x[1], x[2], x[3]>>
      BY <1>1, <1>2 DEF LastSource, Srcs
    <2>2. <<LastSource(f), x[2], f>> = x
      BY <2>1
    <2>3. x[1] <= LastSource(f)
      BY <2>1
    <2> QED BY <1>2, <2>1, <2>2, <2>3 DEF Srcs
  <1>3. CASE ~On("absolute")
    <2>1. x[1] \in covering
      BY <1>1, <1>3, OutTreeAssumption DEF Members, Listed, Srcs
    <2>2. covering \in SUBSET Nat /\ IsFiniteSet(covering) /\ covering # {}
      BY <2>1, OutTreeAssumption, FS_Subset
    <2>3. Max1(covering) \in covering /\ x[1] <= Max1(covering)
      BY <2>1, <2>2, LargestExists
    <2>4. LastSource(f) = Max1(covering)
      BY <1>3 DEF LastSource
    <2>5. <<LastSource(f), x[2], f>> \in Members(FALSE)
      BY <1>1, <1>3, <2>3, <2>4 DEF Members, Listed, Srcs
    <2> QED BY <1>3, <2>3, <2>4, <2>5 DEF Srcs
  <1> QED BY <1>2, <1>3

LEMMA EntriesListed ==
    ASSUME cat \in Catalogues, NEW x \in Entries
    PROVE  x \in Members(FALSE) /\ Goal(x) \in Paths
  <1>1. x \in Srcs \X {0, 1} \X Files /\ <<x[1], x[3]>> \in Claims /\ x[2] = Rank(x[3])
    BY DEF Entries
  <1>2. x \in Members(FALSE)
    BY <1>1, CatalogueTyped DEF Members, Listed, Srcs, Claims, Rank
  <1>3. LastSource(x[3]) \in Sources \cup {0} /\ x[1] \in Sources \cup {0} /\ x[3] \in Files
    BY <1>1, <1>2, LastSourceCovers, SourcesFinite
  <1>4. Claim(x[1], x[3]) \in Paths \cup {NoPath}
    BY <1>3, CatalogueTyped DEF Claim
  <1> QED BY <1>1, <1>2, <1>4 DEF Claims, Goal

LEMMA MembersAreEntries ==
    ASSUME TypeInv, On("renames") => LastNamed, \A f \in Files : newName[f] # Unset => f \in Seen
    PROVE  /\ Members(On("renames")) = Entries
           /\ \A x \in Entries : TargetOf(x) = Goal(x)
  <1>0. cat \in Catalogues
    BY DEF TypeInv
  <1> USE <1>0
  <1>1. Members(TRUE) \subseteq Members(FALSE)
    BY DEF Members, Listed
  <1>2. ASSUME NEW x \in Entries
        PROVE  x \in Members(On("renames")) /\ TargetOf(x) = Goal(x)
    <2>1. x \in Members(FALSE) /\ Goal(x) \in Paths /\ x \in Srcs \X {0, 1} \X Files
      BY EntriesListed, MembersFinite
    <2>2. CASE On("renames")
      <3>1. x[3] \in Seen
        BY <2>1 DEF Seen
      <3>2. newName[x[3]] = Goal(x)
        BY <2>2, <3>1 DEF LastNamed, Goal, Claim
      <3>3. newName[x[3]] \notin {Unset, NoPath}
        BY <2>1, <3>2, OutTreeAssumption
      <3>4. x \in Members(TRUE)
        BY <2>1, <3>3 DEF Members, Listed
      <3> QED BY <2>2, <3>2, <3>4 DEF TargetOf
    <2>3. CASE ~On("renames")
      <3>1. On("renames") = FALSE
        BY <2>3 DEF On
      <3> QED BY <2>1, <3>1 DEF TargetOf, Goal, Claim
    <2> QED BY <2>2, <2>3
  <1>3. ASSUME NEW x \in Members(On("renames")) PROVE x \in Entries
    <2>1. x \in Members(FALSE) /\ x \in Srcs \X {0, 1} \X Files
      <3>1. On("renames") \in BOOLEAN
        BY DEF On
      <3> QED BY <1>1, <1>3, <3>1, MembersFinite
    <2>2. Claim(x[1], x[3]) # NoPath
      <3>1. CASE On("renames")
        <4>1. newName[x[3]] \notin {Unset, NoPath} /\ x[3] \in Seen
          BY <1>3, <2>1, <3>1 DEF Members, Listed, Seen
        <4> QED BY <3>1, <4>1 DEF LastNamed, Claim
      <3>2. CASE ~On("renames")
        BY <2>1, <3>2, CatalogueTyped, SourcesFinite DEF SoundCatalogue, Claim, On
      <3> QED BY <3>1, <3>2
    <2>3. x[2] = Rank(x[3]) /\ <<x[1], x[3]>> \in Claims
      BY <2>1, <2>2 DEF Members, Listed, Claims, Srcs, Rank
    <2> QED BY <2>1, <2>3 DEF Entries
  <1> QED BY <1>2, <1>3

-----------------------------------------------------------------------------
(* Where the program is.                                                    *)

LEMMA InitPhase == Init => PhaseInv
  BY DEF Init, PhaseInv, Building, Inserting, PlacePcs, PlainPasses, Settled

LEMMA PhaseStep == PhaseInv /\ [Next]_vars => PhaseInv'
  <1> SUFFICES ASSUME PhaseInv, [Next]_vars PROVE PhaseInv'
    OBVIOUS
  <1> USE DEF PhaseInv, Building, Inserting, PlacePcs, PlainPasses, Settled, On,
              vars, planned, placed, world, walk, pool
  <1>1. CASE EnterPhase
    BY <1>1 DEF EnterPhase
  <1>2. CASE Rename
    BY <1>2 DEF Rename
  <1>3. CASE InsertBatch
    BY <1>3 DEF InsertBatch
  <1>4. CASE InsertRef
    BY <1>4 DEF InsertRef
  <1>5. CASE EnsureParents
    BY <1>5 DEF EnsureParents
  <1>6. CASE SetTreeBuilt
    BY <1>6 DEF SetTreeBuilt
  <1>7. CASE ElectStep
    BY <1>7 DEF ElectStep
  <1>8. CASE FinishPrologue
    BY <1>8 DEF FinishPrologue
  <1>9. CASE VerifyPrologue
    BY <1>9 DEF VerifyPrologue
  <1>10. CASE CleanTarget
    BY <1>10 DEF CleanTarget
  <1>11. CASE BuildDirs
    BY <1>11 DEF BuildDirs, AfterDirs
  <1>12. CASE OpenPass
    BY <1>12 DEF OpenPass, Passes
  <1>13. CASE Feed
    BY <1>13 DEF Feed, Pooled, Passes
  <1>14. CASE Ingest
    BY <1>14 DEF Ingest, Passes
  <1>15. CASE EndPass
    BY <1>15 DEF EndPass, Passes
  <1>16. CASE Sweep
    BY <1>16 DEF Sweep
  <1>17. CASE ApplyFlags
    BY <1>17 DEF ApplyFlags
  <1>18. CASE Promote
    BY <1>18 DEF Promote
  <1>19. CASE VerifyPlace
    BY <1>19 DEF VerifyPlace
  <1>20. CASE OpenMove
    BY <1>20 DEF OpenMove
  <1>21. CASE IngestMove
    BY <1>21 DEF IngestMove
  <1>22. CASE EndMove
    BY <1>22 DEF EndMove
  <1>23. CASE OpenLink
    BY <1>23 DEF OpenLink
  <1>24. CASE LinkOne
    BY <1>24 DEF LinkOne
  <1>25. CASE IngestLinks
    BY <1>25 DEF IngestLinks
  <1>26. CASE WorkerBegin
    BY <1>26 DEF WorkerBegin, Passes
  <1>27. CASE WorkerFinish
    BY <1>27 DEF WorkerFinish, Passes
  <1>28. CASE DropWork
    BY <1>28 DEF DropWork, Pooled, Passes
  <1>29. CASE BeginMove
    BY <1>29 DEF BeginMove
  <1>30. CASE FinishMove
    BY <1>30 DEF FinishMove
  <1>31. CASE Signal
    BY <1>31 DEF Signal
  <1>32. CASE Restart
    BY <1>32 DEF Restart
  <1>33. CASE Stopped
    BY <1>33 DEF Stopped
  <1>34. CASE UNCHANGED vars
    BY <1>34
  <1> QED BY <1>1, <1>2, <1>3, <1>4, <1>5, <1>6, <1>7, <1>8, <1>9, <1>10, <1>11, <1>12, <1>13, <1>14, <1>15, <1>16, <1>17, <1>18, <1>19, <1>20, <1>21, <1>22, <1>23, <1>24, <1>25, <1>26, <1>27, <1>28, <1>29, <1>30, <1>31, <1>32, <1>33, <1>34
          DEF Next, Driver, PrologueStep, PlaceStep, LinkStep, Worker

-----------------------------------------------------------------------------
(* What the steps do to the rows.                                           *)

LEMMA LedByShape ==
    ASSUME NEW row \in Shape, NEW w \in Nat
    PROVE  /\ LedBy(row, w) \in Shape
           /\ LedBy(row, w).canon = w
           /\ LedBy(row, w).path = row.path /\ LedBy(row, w).file = row.file
           /\ LedBy(row, w).dir = row.dir /\ LedBy(row, w).flags = row.flags
  BY DEF LedBy, Shape

LEMMA FlaggedShape ==
    ASSUME NEW row \in Shape, NEW flags \in SUBSET Flag
    PROVE  /\ Flagged(row, flags) \in Shape
           /\ Flagged(row, flags).flags = flags
           /\ Flagged(row, flags).path = row.path /\ Flagged(row, flags).file = row.file
           /\ Flagged(row, flags).dir = row.dir /\ Flagged(row, flags).canon = row.canon
  BY DEF Flagged, Shape

LEMMA NewRowShape ==
    ASSUME cat \in Catalogues, NEW p \in Paths, NEW f \in Files \cup {0}
    PROVE  /\ NewRow(p, f) \in Shape
           /\ NewRow(p, f).path = p /\ NewRow(p, f).file = f /\ NewRow(p, f).canon = 0
           /\ NewRow(p, f).dir = (f = 0 \/ cat.kind[f] = "dir")
           /\ NewRow(p, f).flags = {}
  BY DEF NewRow, Shape

\* Rows are the same up to what the election and the passes write to them.
SameRows ==
    /\ Rows' = Rows
    /\ \A r \in Rows : /\ tree'[r].path = tree[r].path /\ tree'[r].file = tree[r].file
                       /\ tree'[r].dir = tree[r].dir
SameLeaders == \A r \in Rows : tree'[r].canon = tree[r].canon

LEMMA Rewritten ==
    ASSUME tree \in Seq(Shape), tree' \in [Rows -> Shape]
    PROVE  tree' \in Seq(Shape) /\ Rows' = Rows /\ Len(tree') = Len(tree)
  <1>1. Len(tree) \in Nat /\ tree' \in [1..Len(tree) -> Shape]
    BY RowsFinite
  <1> QED BY <1>1, RowsFinite DEF Rows

LEMMA LeastOf ==
    ASSUME NEW S \in SUBSET Nat, S # {}
    PROVE  LET m == CHOOSE w \in S : \A v \in S : w <= v
           IN  m \in S /\ \A v \in S : m <= v
  <1> DEFINE size == [x \in S |-> x]
  <1>1. \A x \in S : size[x] \in Nat
    OBVIOUS
  <1>2. \E x \in S : \A y \in S : size[x] <= size[y]
    <2> HIDE DEF size
    <2> QED BY <1>1, FewestExists
  <1>3. \E x \in S : \A y \in S : x <= y
    BY <1>2
  <1> QED BY <1>3

\* The rows a row may join.
Leaders(r) ==
    {w \in Rows : /\ tree[w].canon = w /\ FileRow(w)
                  /\ cat.twin[tree[w].file] = tree[w].file
                  /\ cat.inode[tree[w].file] # NoInode
                  /\ cat.inode[tree[w].file] = cat.inode[tree[r].file]}
FirstLeader(r) == CHOOSE w \in Leaders(r) : \A v \in Leaders(r) : w <= v

LEMMA FirstLeads ==
    ASSUME tree \in Seq(Shape), NEW r \in Rows, Leaders(r) # {}
    PROVE  FirstLeader(r) \in Leaders(r) /\ \A v \in Leaders(r) : FirstLeader(r) <= v
  <1>1. Leaders(r) \in SUBSET Nat
    BY RowsFinite DEF Leaders
  <1> QED BY <1>1, LeastOf DEF FirstLeader

LEMMA JoinRows ==
    ASSUME NEW s, NEW r \in Rows
    PROVE  Join(s)[r] = IF /\ Undecided(r) /\ FromSource(r, s) /\ tree[r].file # 0
                           /\ Leaders(r) # {}
                        THEN LedBy(tree[r], FirstLeader(r)) ELSE tree[r]
  BY DEF Join, Leaders, FirstLeader

\* A statement of the election decides rows that are undecided, in favour of
\* themselves or of a leader of their inode.
LEMMA RunElects ==
    ASSUME TypeInv, NEW x \in Statements
    PROVE  /\ Run(x) \in [Rows -> Shape]
           /\ \A r \in Rows :
                 \/ Run(x)[r] = tree[r]
                 \/ /\ Undecided(r)
                    /\ \/ Run(x)[r] = LedBy(tree[r], r)
                       \/ /\ tree[r].file # 0 /\ Leaders(r) # {}
                          /\ Run(x)[r] = LedBy(tree[r], FirstLeader(r))
  <1>1. x[2] \in {1, 2, 3, 4}
    <2>1. cat.grouping \in {"None", "Global", "Source"}
      BY CatalogueTyped DEF TypeInv, Catalogue
    <2> QED BY <2>1 DEF Statements
  <1>2. /\ \A r \in Rows : tree[r] \in Shape /\ LedBy(tree[r], r) \in Shape
        /\ \A r \in Rows : Leaders(r) # {} => LedBy(tree[r], FirstLeader(r)) \in Shape
    <2>1. tree \in Seq(Shape)
      BY DEF TypeInv
    <2>2. \A r \in Rows : tree[r] \in Shape /\ r \in Nat
      BY <2>1, RowsFinite
    <2>3. ASSUME NEW r \in Rows, Leaders(r) # {} PROVE FirstLeader(r) \in Nat
      BY <2>1, <2>3, FirstLeads, RowsFinite DEF Leaders
    <2> QED BY <2>2, <2>3, LedByShape
  <1> DEFINE Fits(g) ==
                /\ DOMAIN g = Rows /\ g = [r \in Rows |-> g[r]]
                /\ \A r \in Rows :
                      \/ g[r] = tree[r]
                      \/ /\ Undecided(r)
                         /\ \/ g[r] = LedBy(tree[r], r)
                            \/ /\ tree[r].file # 0 /\ Leaders(r) # {}
                               /\ g[r] = LedBy(tree[r], FirstLeader(r))
  <1>3. Fits(Run(x))
    <2>1. CASE x[2] = 1
      <3>1. Fits(Elect(x[1]))
        BY DEF Elect
      <3> QED BY <2>1, <3>1 DEF Run
    <2>2. CASE x[2] = 2
      <3>1. Join(x[1]) = [r \in Rows |-> Join(x[1])[r]] /\ DOMAIN Join(x[1]) = Rows
        BY DEF Join
      <3>2. Fits(Join(x[1]))
        BY <3>1, JoinRows
      <3> QED BY <2>2, <3>2 DEF Run
    <2>3. CASE x[2] = 3
      <3>1. Fits(ElectRest(x[1]))
        BY DEF ElectRest
      <3> QED BY <2>3, <3>1 DEF Run
    <2>4. CASE x[2] = 4
      <3>1. Fits(MarkAll)
        BY DEF MarkAll
      <3> QED BY <2>4, <3>1 DEF Run
    <2> QED BY <1>1, <2>1, <2>2, <2>3, <2>4
  <1>4. \A r \in Rows : Run(x)[r] \in Shape
    BY <1>2, <1>3
  <1> QED BY <1>3, <1>4

\* A statement leaves paths, files and flags alone, and what is decided.
LEMMA RunKeeps ==
    ASSUME TypeInv, NEW x \in Statements, tree' = Run(x)
    PROVE  /\ tree' \in Seq(Shape) /\ SameRows
           /\ \A r \in Rows : /\ tree'[r].flags = tree[r].flags
                              /\ tree'[r].canon \in {0} \cup Rows
                              /\ tree[r].canon # 0 => tree'[r].canon = tree[r].canon
  <1>1. tree \in Seq(Shape) /\ \A r \in Rows : tree[r].canon \in {0} \cup Rows
    BY DEF TypeInv
  <1>2. tree' \in [Rows -> Shape]
    BY RunElects
  <1>3. tree' \in Seq(Shape) /\ Rows' = Rows
    BY <1>1, <1>2, Rewritten
  <1>4. ASSUME NEW r \in Rows
        PROVE  /\ tree'[r].path = tree[r].path /\ tree'[r].file = tree[r].file
               /\ tree'[r].dir = tree[r].dir /\ tree'[r].flags = tree[r].flags
               /\ tree'[r].canon \in {0} \cup Rows
               /\ tree[r].canon # 0 => tree'[r].canon = tree[r].canon
    <2>1. tree[r] \in Shape /\ r \in Nat
      BY <1>1, RowsFinite
    <2>2. CASE tree'[r] = tree[r]
      BY <2>2, <1>1
    <2>3. CASE Undecided(r) /\ tree'[r] = LedBy(tree[r], r)
      BY <2>1, <2>3, LedByShape DEF Undecided
    <2>4. CASE Undecided(r) /\ Leaders(r) # {} /\ tree'[r] = LedBy(tree[r], FirstLeader(r))
      <3>1. FirstLeader(r) \in Rows /\ FirstLeader(r) \in Nat
        BY <1>1, <2>4, FirstLeads, RowsFinite DEF Leaders
      <3> QED BY <2>1, <2>4, <3>1, LedByShape DEF Undecided
    <2> QED BY <2>2, <2>3, <2>4, RunElects
  <1> QED BY <1>3, <1>4 DEF SameRows

\* Rows that are added: a sequence of new rows behind the old ones.
LEMMA Appended ==
    ASSUME tree \in Seq(Shape), NEW n \in Nat, NEW new \in [1..n -> Shape], tree' = tree \o new
    PROVE  /\ tree' \in Seq(Shape)
           /\ Rows \subseteq Rows' /\ \A r \in Rows : tree'[r] = tree[r]
           /\ Rows' = 1..(Len(tree) + n)
           /\ \A i \in 1..n : Len(tree) + i \in Rows' /\ tree'[Len(tree) + i] = new[i]
           /\ \A r \in Rows' : r \in Rows \/ \E i \in 1..n : r = Len(tree) + i
  <1>1. new \in Seq(Shape) /\ Len(new) = n
    OBVIOUS
  <1>2. /\ tree' \in Seq(Shape) /\ Len(tree') = Len(tree) + n
        /\ \A i \in 1 .. Len(tree) + n : tree'[i] =
                     IF i <= Len(tree) THEN tree[i] ELSE new[i - Len(tree)]
    BY <1>1, ConcatProperties
  <1>3. Rows = 1..Len(tree) /\ Len(tree) \in Nat /\ Rows' = 1..(Len(tree) + n)
    BY <1>2, RowsFinite DEF Rows
  <1>4. \A r \in Rows : tree'[r] = tree[r]
    BY <1>2, <1>3
  <1>5. \A i \in 1..n : Len(tree) + i \in Rows' /\ tree'[Len(tree) + i] = new[i]
    <2> TAKE i \in 1..n
    <2>1. Len(tree) + i \in 1..(Len(tree) + n) /\ ~(Len(tree) + i <= Len(tree))
          /\ (Len(tree) + i) - Len(tree) = i
      BY <1>3
    <2> QED BY <1>2, <1>3, <2>1
  <1>6. \A r \in Rows' : r \in Rows \/ \E i \in 1..n : r = Len(tree) + i
    <2> TAKE r \in Rows'
    <2>1. CASE r > Len(tree)
      <3>1. r - Len(tree) \in 1..n /\ r = Len(tree) + (r - Len(tree))
        BY <1>3, <2>1
      <3> QED BY <3>1
    <2>2. CASE ~(r > Len(tree))
      BY <1>3, <2>2
    <2> QED BY <2>1, <2>2
  <1> QED BY <1>2, <1>3, <1>4, <1>5, <1>6

LEMMA CheckTraces ==
    ASSUME NEW node, NEW f, NEW type
    PROVE  /\ CheckPath(node, f, type).trace \subseteq {"Conflict", "Removed", "Error"}
           /\ CheckPath(node, f, type).go \in BOOLEAN
  BY DEF CheckPath, DiskWins, Exists, Later, On

-----------------------------------------------------------------------------
(* The rows that the prologue adds.                                         *)

LEMMA ImageFinite ==
    ASSUME NEW S, IsFiniteSet(S), NEW f, DOMAIN f = S
    PROVE  IsFiniteSet({f[x] : x \in S})
  <1> DEFINE T == {f[x] : x \in S}
             g == [x \in S |-> f[x]]
  <1>1. g \in Surjection(S, T)
    BY DEF Surjection
  <1> HIDE DEF T, g
  <1>2. IsFiniteSet(T)
    BY <1>1, FS_Surjection
  <1> QED BY <1>2 DEF T

\* The row of a path, when the rows have one.
LEMMA RowOfPath ==
    ASSUME NEW p, Taken(p)
    PROVE  RowAt(p) \in Rows /\ tree[RowAt(p)].path = p
  BY DEF Taken, RowAt

\* A page of members adds one row for each path that no row has, for the
\* member of the page with the smallest id.
LEMMA Inserted ==
    ASSUME TypeInv, WalkInv, InsertBatch, Page(Entries) # {}
    PROVE  /\ tree' \in Seq(Shape)
           /\ Rows \subseteq Rows' /\ \A r \in Rows : tree'[r] = tree[r]
           /\ \A r \in Rows' : r \notin Rows =>
                 \E x \in Fresh(Page(Entries)) : tree'[r] = NewRow(Goal(x), x[3])
           /\ \A x \in Fresh(Page(Entries)) :
                 \E r \in Rows' : r \notin Rows /\ tree'[r] = NewRow(Goal(x), x[3])
           /\ \A r, q \in Rows' :
                 r \notin Rows /\ q \notin Rows /\ tree'[r].path = tree'[q].path => r = q
  <1> DEFINE page == Page(Entries)
             fresh == Fresh(page)
             members == {x[3] : x \in fresh}
             ids == Ascending(members)
             n == Cardinality(members)
             source == LastOf(page)[1]
             new == [i \in DOMAIN ids |-> NewRow(TargetOf(<<source, 0, ids[i]>>), ids[i])]
  <1>1. Members(On("renames")) = Entries /\ \A x \in Entries : TargetOf(x) = Goal(x)
    BY MembersAreEntries DEF WalkInv, InsertBatch, Inserting
  <1>2. cat \in Catalogues /\ tree \in Seq(Shape) /\ cursor \in Triple
    BY DEF TypeInv
  <1>3. /\ Entries \in SUBSET Triple /\ IsFiniteSet(Entries)
        /\ Entries \subseteq Srcs \X {0, 1} \X Files
    BY <1>2, MembersFinite
  <1>4. tree' = tree \o new
    BY <1>1 DEF InsertBatch
  <1>5. page \subseteq Entries /\ IsFiniteSet(page) /\ \A x, y \in page : x[1] = y[1] /\ x[2] = y[2]
    BY <1>3, PageTakes, FS_Subset DEF Ahead
  <1>6. source = LastOf(page)[1] /\ LastOf(page) \in page
    BY <1>3, <1>5, LatestExists
  <1>7. fresh \subseteq page
    BY DEF Fresh
  <1>8. \A x \in fresh : x[1] = source /\ x[3] \in Files /\ Goal(x) \in Paths
                         /\ TargetOf(<<source, 0, x[3]>>) = Goal(x)
    <2> TAKE x \in fresh
    <2>1. x \in Entries /\ x[1] = source /\ TargetOf(x) = Goal(x)
      BY <1>1, <1>5, <1>6, <1>7
    <2>2. x[3] \in Files /\ Goal(x) \in Paths
      BY <1>2, <1>3, <2>1, EntriesListed
    <2>3. TargetOf(<<source, 0, x[3]>>) = TargetOf(x)
      BY <2>1 DEF TargetOf
    <2> QED BY <2>1, <2>2, <2>3
  <1>9. members \in SUBSET Nat /\ members \subseteq Files /\ IsFiniteSet(members)
    <2>1. members \subseteq Files
      BY <1>8
    <2> HIDE DEF members
    <2> QED BY <2>1, OutTreeAssumption, FS_Subset
  <1>9a. \A x \in fresh : /\ NewRow(Goal(x), x[3]) \in Shape
                           /\ NewRow(Goal(x), x[3]).path = Goal(x)
    <2> TAKE x \in fresh
    <2>1. x[3] \in Files \cup {0} /\ Goal(x) \in Paths
      BY <1>8
    <2> QED BY <1>2, <2>1, NewRowShape
  <1>10. /\ n \in Nat /\ ids \in [1..n -> members]
         /\ \A i, j \in 1..n : ids[i] = ids[j] => i = j
         /\ \A f \in members : \E i \in 1..n : ids[i] = f
    BY <1>9, AscendingLists
  <1> HIDE DEF ids, n, source, new
  <1>11. /\ new \in [1..n -> Shape]
         /\ \A i \in 1..n : \E x \in fresh : x[3] = ids[i] /\ new[i] = NewRow(Goal(x), x[3])
    <2>1. DOMAIN new = 1..n /\ new = [i \in 1..n |-> new[i]]
      BY <1>10 DEF new
    <2>2. ASSUME NEW i \in 1..n
          PROVE  \E x \in fresh : /\ x[3] = ids[i] /\ new[i] = NewRow(Goal(x), x[3])
                                  /\ new[i] \in Shape
      <3>1. PICK x \in fresh : x[3] = ids[i]
        BY <1>10
      <3>2. new[i] = NewRow(TargetOf(<<source, 0, ids[i]>>), ids[i])
        BY <1>10 DEF new
      <3>3. new[i] = NewRow(Goal(x), x[3])
        BY <1>8, <3>1, <3>2
      <3> QED BY <1>9a, <3>1, <3>3
    <2> QED BY <2>1, <2>2
  <1>12. /\ tree' \in Seq(Shape)
         /\ Rows \subseteq Rows' /\ \A r \in Rows : tree'[r] = tree[r]
         /\ \A i \in 1..n : Len(tree) + i \in Rows' /\ tree'[Len(tree) + i] = new[i]
         /\ \A r \in Rows' : r \in Rows \/ \E i \in 1..n : r = Len(tree) + i
    BY <1>2, <1>4, <1>10, <1>11, Appended
  <1>13. ASSUME NEW r \in Rows', r \notin Rows
         PROVE  \E x \in fresh : tree'[r] = NewRow(Goal(x), x[3])
    BY <1>11, <1>12, <1>13
  <1>14. ASSUME NEW x \in fresh
         PROVE  \E r \in Rows' : r \notin Rows /\ tree'[r] = NewRow(Goal(x), x[3])
    <2>1. PICK i \in 1..n : ids[i] = x[3]
      BY <1>10, <1>14
    <2>2. PICK y \in fresh : y[3] = ids[i] /\ new[i] = NewRow(Goal(y), y[3])
      BY <1>11
    <2>3. Goal(y) = Goal(x)
      BY <1>8, <1>14, <2>1, <2>2
    <2>4. Len(tree) + i \notin Rows
      BY <1>2, RowsFinite
    <2> QED BY <1>12, <2>1, <2>2, <2>3, <2>4
  <1>15. ASSUME NEW r \in Rows', NEW q \in Rows', r \notin Rows, q \notin Rows,
                tree'[r].path = tree'[q].path
         PROVE  r = q
    <2>1. PICK i \in 1..n, j \in 1..n : r = Len(tree) + i /\ q = Len(tree) + j
      BY <1>12, <1>15
    <2>2. PICK x \in fresh : x[3] = ids[i] /\ new[i] = NewRow(Goal(x), x[3])
      BY <1>11
    <2>3. PICK y \in fresh : y[3] = ids[j] /\ new[j] = NewRow(Goal(y), y[3])
      BY <1>11
    <2>4. Goal(x) = Goal(y)
      BY <1>9a, <1>12, <1>15, <2>1, <2>2, <2>3
    <2>5. TargetOf(x) = TargetOf(y) /\ x \in page /\ y \in page
      BY <1>1, <1>5, <1>7, <2>4
    <2>6. x[3] <= y[3] /\ y[3] <= x[3] /\ x[3] \in Nat /\ y[3] \in Nat
      BY <1>8, <2>5, OutTreeAssumption DEF Fresh
    <2> QED BY <1>10, <2>1, <2>2, <2>3, <2>6
  <1> QED BY <1>12, <1>13, <1>14, <1>15

\* The parents of a page of rows that have no row yet.
Missing ==
    {p \in {Parent[tree[x[3]].path] : x \in Page(Plain)} : ~Taken(p)}

LEMMA OwnedBelowRoot ==
    ASSUME TypeInv, TreeInv, NEW r \in Rows, tree[r].file # 0
    PROVE  tree[r].path \in Paths \ {Root, Up} /\ Parent[tree[r].path] \in Paths \ {Here}
  <1>1. cat \in Catalogues /\ tree[r] \in Shape
    BY RowsFinite DEF TypeInv
  <1>2. PICK x \in Entries : x[3] = tree[r].file /\ Goal(x) = tree[r].path
    BY DEF TreeInv
  <1>3. x \in Srcs \X {0, 1} \X Files /\ LastSource(x[3]) \in Sources \cup {0}
    BY <1>1, MembersFinite, EntriesListed, LastSourceCovers, SourcesFinite
  <1>4. Goal(x) \notin {Root, Up}
    BY <1>1, <1>3, CatalogueTyped, SourcesFinite DEF SoundCatalogue, Goal, Claim
  <1> QED BY <1>1, <1>2, <1>4, OutTreeAssumption DEF Shape

LEMMA PlainBelowRoot ==
    ASSUME TypeInv, TreeInv, NEW r \in Rows, ~tree[r].dir
    PROVE  /\ tree[r].file # 0 /\ tree[r].path \in Paths \ {Root, Up}
           /\ Parent[tree[r].path] \in Paths \ {Here}
  <1>1. tree[r].file # 0
    BY DEF TreeInv
  <1> QED BY <1>1, OwnedBelowRoot

LEMMA Scaffolded ==
    ASSUME TypeInv, TreeInv, EnsureParents, Page(Plain) # {}
    PROVE  /\ tree' \in Seq(Shape)
           /\ Rows \subseteq Rows' /\ \A r \in Rows : tree'[r] = tree[r]
           /\ \A r \in Rows' : r \notin Rows => \E p \in Missing : tree'[r] = NewRow(p, 0)
           /\ \A p \in Missing : \E r \in Rows' : r \notin Rows /\ tree'[r] = NewRow(p, 0)
           /\ \A r, q \in Rows' :
                 r \notin Rows /\ q \notin Rows /\ tree'[r].path = tree'[q].path => r = q
           /\ Missing \subseteq Paths
  <1>1. cat \in Catalogues /\ tree \in Seq(Shape) /\ cursor \in Triple
    BY DEF TypeInv
  <1>2. /\ Page(Plain) \subseteq Plain /\ IsFiniteSet(Page(Plain))
        /\ \A x \in Plain : x[3] \in Rows /\ ~tree[x[3]].dir
    BY <1>1, RowsFinite, PageTakes, FS_Subset DEF Ahead, Plain
  <1>3. Missing \subseteq Paths
    BY <1>2, PlainBelowRoot DEF Missing
  <1>4. IsFiniteSet(Missing)
    <2> DEFINE up == [x \in Page(Plain) |-> Parent[tree[x[3]].path]]
    <2>1. IsFiniteSet({up[x] : x \in Page(Plain)})
      <3> HIDE DEF up
      <3>1. DOMAIN up = Page(Plain)
        BY DEF up
      <3> QED BY <1>2, <3>1, ImageFinite
    <2>2. Missing \subseteq {up[x] : x \in Page(Plain)}
      BY DEF Missing
    <2> QED BY <2>1, <2>2, FS_Subset
  <1> DEFINE n == Cardinality(Missing)
  <1>5. n \in Nat
    BY <1>4, FS_CardinalityType
  <1>6. PICK order \in SetToSeqs(Missing) :
            tree' = tree \o [i \in DOMAIN order |-> NewRow(order[i], 0)]
    BY DEF EnsureParents, Missing
  <1>7. /\ order \in [1..n -> Missing]
        /\ \A i, j \in 1..n : order[i] = order[j] => i = j
    BY <1>6 DEF SetToSeqs
  <1>8. \A p \in Missing : \E i \in 1..n : order[i] = p
    <2> HIDE DEF n
    <2>1. n = Cardinality(Missing)
      BY DEF n
    <2> QED BY <1>4, <1>5, <1>7, <2>1, ListsAll
  <1> DEFINE new == [i \in DOMAIN order |-> NewRow(order[i], 0)]
  <1> HIDE DEF n
  <1>9. new \in [1..n -> Shape] /\ \A i \in 1..n : new[i] = NewRow(order[i], 0) /\ order[i] \in Paths
    BY <1>1, <1>3, <1>7, NewRowShape
  <1> HIDE DEF new
  <1>10. /\ tree' \in Seq(Shape)
         /\ Rows \subseteq Rows' /\ \A r \in Rows : tree'[r] = tree[r]
         /\ \A i \in 1..n : Len(tree) + i \in Rows' /\ tree'[Len(tree) + i] = new[i]
         /\ \A r \in Rows' : r \in Rows \/ \E i \in 1..n : r = Len(tree) + i
    <2>1. tree' = tree \o new
      BY <1>6 DEF new
    <2> QED BY <1>1, <1>5, <1>9, <2>1, Appended
  <1>11. \A i \in 1..n : Len(tree) + i \notin Rows
    BY <1>1, <1>5, RowsFinite
  <1>12. ASSUME NEW r \in Rows', NEW q \in Rows', r \notin Rows, q \notin Rows,
                tree'[r].path = tree'[q].path
         PROVE  r = q
    <2>1. PICK i \in 1..n, j \in 1..n : r = Len(tree) + i /\ q = Len(tree) + j
      BY <1>10, <1>12
    <2>2. order[i] = order[j]
      BY <1>1, <1>9, <1>10, <1>12, <2>1, NewRowShape
    <2> QED BY <1>7, <2>1, <2>2
  <1> QED BY <1>3, <1>7, <1>8, <1>9, <1>10, <1>11, <1>12

-----------------------------------------------------------------------------
(* Types.                                                                   *)

LEMMA InitType == Init => TypeInv
  <1> SUFFICES ASSUME Init PROVE TypeInv
    OBVIOUS
  <1>1. tree = <<>> /\ tree \in Seq(Shape) /\ Rows = {}
    BY DEF Init, Rows
  <1>2. cursor \in Triple
    BY DEF Init, Start, Triple
  <1> QED BY <1>1, <1>2 DEF Init, TypeInv

\* Everything but the rows and the pool.
TypeRest ==
    /\ cat \in Catalogues
    /\ newName \in [Files -> Paths \cup {Unset, NoPath}]
    /\ cursor \in Triple
TypeTree == tree \in Seq(Shape) /\ \A r \in Rows : tree[r].canon \in {0} \cup Rows
TypePool == todo \subseteq Nat /\ work \subseteq Nat /\ busy \subseteq Jobs /\ out \subseteq Jobs

LEMMA TypeParts == TypeInv <=> TypeRest /\ TypeTree /\ TypePool
  BY DEF TypeInv, TypeRest, TypeTree, TypePool

LEMMA CursorMoves ==
    ASSUME TypeInv, WalkInv, InsertBatch \/ EnsureParents \/ Rename \/ ElectStep
    PROVE  cursor' \in Triple
  <1>1. Start \in Triple
    BY DEF Start, Triple
  <1>2. cat \in Catalogues /\ tree \in Seq(Shape) /\ cursor \in Triple
    BY DEF TypeInv
  <1>3. CASE InsertBatch
    <2>1. Members(On("renames")) = Entries
      BY <1>3, MembersAreEntries DEF WalkInv, InsertBatch, Inserting
    <2>2. Entries \in SUBSET Triple /\ IsFiniteSet(Entries)
      BY <1>2, MembersFinite
    <2>3. CASE Page(Entries) = {}
      BY <1>1, <1>3, <2>1, <2>3 DEF InsertBatch
    <2>4. CASE Page(Entries) # {}
      <3>1. cursor' = LastOf(Page(Entries))
        BY <1>3, <2>1, <2>4 DEF InsertBatch
      <3>2. cursor' \in Page(Entries)
        BY <1>2, <2>2, <2>4, <3>1, PageStep
      <3> QED BY <2>2, <3>2, PageTakes DEF Ahead
    <2> QED BY <2>3, <2>4
  <1>4. CASE EnsureParents
    <2>2. Plain \in SUBSET Triple /\ IsFiniteSet(Plain)
      BY <1>2, RowsFinite
    <2>3. CASE Page(Plain) = {}
      BY <1>1, <1>4, <2>3 DEF EnsureParents
    <2>4. CASE Page(Plain) # {}
      <3>1. cursor' = LastOf(Page(Plain))
        BY <1>4, <2>4 DEF EnsureParents
      <3>2. cursor' \in Page(Plain)
        BY <1>2, <2>2, <2>4, <3>1, PageStep
      <3> QED BY <2>2, <3>2, PageTakes DEF Ahead
    <2> QED BY <2>3, <2>4
  <1>5. CASE Rename
    <2>1. Members(FALSE) \in SUBSET Triple
      BY <1>2, MembersFinite
    <2> QED BY <1>1, <1>5, <2>1 DEF Rename
  <1>6. CASE ElectStep
    <2>1. Statements \subseteq Triple
      BY <1>2, OutTreeAssumption, CatalogueTyped DEF Statements, Triple, Catalogue
    <2> QED BY <1>1, <1>6, <2>1 DEF ElectStep
  <1> QED BY <1>3, <1>4, <1>5, <1>6

LEMMA TypeTreeStep ==
    ASSUME TypeInv, TreeInv, WalkInv, [Next]_vars
    PROVE  TypeTree'
  <1>1. /\ cat \in Catalogues /\ tree \in Seq(Shape) /\ \A r \in Rows : tree[r].canon \in {0} \cup Rows
        /\ busy \subseteq Jobs /\ out \subseteq Jobs
    BY DEF TypeInv
  <1>2. CASE UNCHANGED tree
    BY <1>1, <1>2 DEF TypeTree, Rows
  <1>3. CASE InsertBatch
    <2>1. Members(On("renames")) = Entries
      BY <1>3, MembersAreEntries DEF WalkInv, InsertBatch, Inserting
    <2>2. CASE Page(Entries) = {}
      BY <1>2, <1>3, <2>1, <2>2 DEF InsertBatch
    <2>3. CASE Page(Entries) # {}
      <3>1. /\ tree' \in Seq(Shape)
            /\ Rows \subseteq Rows' /\ \A r \in Rows : tree'[r] = tree[r]
            /\ \A r \in Rows' : r \notin Rows =>
                  \E x \in Fresh(Page(Entries)) : tree'[r] = NewRow(Goal(x), x[3])
        BY <1>3, <2>3, Inserted
      <3>a. \A p, f : NewRow(p, f).canon = 0
        BY DEF NewRow
      <3>2. \A r \in Rows' : r \notin Rows => tree'[r].canon = 0
        BY <3>1, <3>a
      <3> QED BY <1>1, <3>1, <3>2 DEF TypeTree
    <2> QED BY <2>2, <2>3
  <1>4. CASE EnsureParents
    <2>2. CASE Page(Plain) = {}
      BY <1>2, <1>4, <2>2 DEF EnsureParents
    <2>3. CASE Page(Plain) # {}
      <3>1. /\ tree' \in Seq(Shape)
            /\ Rows \subseteq Rows' /\ \A r \in Rows : tree'[r] = tree[r]
            /\ \A r \in Rows' : r \notin Rows => \E p \in Missing : tree'[r] = NewRow(p, 0)
        BY <1>4, <2>3, Scaffolded
      <3>a. \A p, f : NewRow(p, f).canon = 0
        BY DEF NewRow
      <3>2. \A r \in Rows' : r \notin Rows => tree'[r].canon = 0
        BY <3>1, <3>a
      <3> QED BY <1>1, <3>1, <3>2 DEF TypeTree
    <2> QED BY <2>2, <2>3
  <1>5. CASE ElectStep
    <2>1. CASE UNCHANGED tree
      BY <1>2, <2>1
    <2>2. ASSUME NEW x \in Statements, tree' = Run(x) PROVE TypeTree'
      BY <2>2, RunKeeps DEF TypeTree, SameRows
    <2> QED BY <1>5, <2>1, <2>2 DEF ElectStep
  <1>6. CASE Ingest
    <2>1. PICK B \in SUBSET out : tree' = [r \in Rows |-> Flagged(tree[r], Applied(r, B))]
      BY <1>6 DEF Ingest
    <2>2. \A r \in Rows : Applied(r, B) \in SUBSET Flag
      <3> TAKE r \in Rows
      <3>1. tree[r].flags \subseteq Flag
        BY <1>1, RowsFinite DEF Shape
      <3>2. (\E x \in B : x.id = r) => (CHOOSE x \in B : x.id = r).flags \subseteq Flag
        BY <1>1 DEF Jobs
      <3> QED BY <3>1, <3>2 DEF Applied
    <2>3. tree' \in [Rows -> Shape] /\ \A r \in Rows : tree'[r].canon = tree[r].canon
      BY <1>1, <2>1, <2>2, RowsFinite, FlaggedShape
    <2> QED BY <1>1, <2>3, Rewritten DEF TypeTree
  <1>7. CASE IngestLinks
    <2> DEFINE flags(r) == tree[r].flags \cup UNION {o.flags : o \in {x \in out : x.id = r}}
    <2>1. tree' = [r \in Rows |-> Flagged(tree[r], flags(r))]
      BY <1>7 DEF IngestLinks
    <2>2. \A r \in Rows : flags(r) \in SUBSET Flag
      BY <1>1, RowsFinite DEF Shape, Jobs
    <2> HIDE DEF flags
    <2>3. tree' \in [Rows -> Shape] /\ \A r \in Rows : tree'[r].canon = tree[r].canon
      BY <1>1, <2>1, <2>2, RowsFinite, FlaggedShape
    <2> QED BY <1>1, <2>3, Rewritten DEF TypeTree
  <1>8. CASE Driver /\ ~InsertBatch /\ ~EnsureParents /\ ~ElectStep /\ ~Ingest /\ ~IngestLinks
    BY <1>2, <1>8 DEF Driver, PrologueStep, PlaceStep, LinkStep, EnterPhase, Rename, InsertRef,
        SetTreeBuilt, FinishPrologue, VerifyPrologue, CleanTarget, BuildDirs, OpenPass, Feed,
        EndPass, Sweep, ApplyFlags, Promote, VerifyPlace, OpenMove, IngestMove, EndMove, OpenLink,
        LinkOne, planned
  <1>9. CASE Worker
    BY <1>2, <1>9 DEF Worker, WorkerBegin, WorkerFinish, DropWork, BeginMove, FinishMove, planned
  <1>10. CASE Signal \/ Restart \/ Stopped \/ UNCHANGED vars
    BY <1>2, <1>10 DEF Signal, Restart, Stopped, vars, planned
  <1> QED BY <1>3, <1>4, <1>5, <1>6, <1>7, <1>8, <1>9, <1>10 DEF Next

LEMMA TypeRestStep ==
    ASSUME TypeInv, TreeInv, WalkInv, [Next]_vars
    PROVE  TypeRest'
  <1>1. cat \in Catalogues /\ newName \in [Files -> Paths \cup {Unset, NoPath}] /\ cursor \in Triple
    BY DEF TypeInv
  <1>2. Start \in Triple
    BY DEF Start, Triple
  <1>3. CASE Rename
    <2>1. ASSUME NEW x \in Members(FALSE), newName' = [newName EXCEPT ![x[3]] = cat.target[x[1]][x[3]]]
          PROVE  newName' \in [Files -> Paths \cup {Unset, NoPath}]
      <3>1. x[1] \in Sources \cup {0} /\ x[3] \in Files
        BY <1>1, MembersFinite, SourcesFinite
      <3> QED BY <1>1, <2>1, <3>1, CatalogueTyped
    <2> QED BY <1>1, <1>3, <2>1, CursorMoves DEF Rename, TypeRest
  <1>4. CASE InsertBatch
    BY <1>1, <1>4, CursorMoves DEF InsertBatch, TypeRest
  <1>5. CASE EnsureParents
    BY <1>1, <1>5, CursorMoves DEF EnsureParents, TypeRest
  <1>6. CASE ElectStep
    BY <1>1, <1>6, CursorMoves DEF ElectStep, TypeRest
  <1>7. CASE Driver /\ ~InsertBatch /\ ~EnsureParents /\ ~ElectStep /\ ~Rename
    BY <1>1, <1>2, <1>7 DEF Driver, PrologueStep, PlaceStep, LinkStep, EnterPhase, InsertRef,
        SetTreeBuilt, FinishPrologue, VerifyPrologue, CleanTarget, BuildDirs, OpenPass, Feed,
        EndPass, Sweep, ApplyFlags, Promote, VerifyPlace, OpenMove, IngestMove, EndMove, OpenLink,
        LinkOne, Ingest, IngestLinks, planned, walk, TypeRest
  <1>8. CASE Worker
    BY <1>1, <1>8 DEF Worker, WorkerBegin, WorkerFinish, DropWork, BeginMove, FinishMove,
        planned, walk, TypeRest
  <1>9. CASE Signal \/ Restart \/ Stopped \/ UNCHANGED vars
    BY <1>1, <1>2, <1>9 DEF Signal, Restart, Stopped, vars, planned, walk, TypeRest
  <1> QED BY <1>3, <1>4, <1>5, <1>6, <1>7, <1>8, <1>9 DEF Next

LEMMA TypePoolStep ==
    ASSUME TypeInv, [Next]_vars
    PROVE  TypePool'
  <1>1. /\ cat \in Catalogues /\ tree \in Seq(Shape)
        /\ todo \subseteq Nat /\ work \subseteq Nat /\ busy \subseteq Jobs /\ out \subseteq Jobs
    BY DEF TypeInv
  <1>2. Rows \subseteq Nat /\ Files \subseteq Nat
    BY <1>1, RowsFinite, OutTreeAssumption
  <1>3. \A r \in Nat, flags \in SUBSET Flag : Outcome(r, flags) \in Jobs
    BY DEF Outcome, Jobs
  <1>4. \A job \in busy : job.id \in Nat /\ job.flags \in SUBSET Flag
    BY <1>1 DEF Jobs
  <1> USE DEF Flag, OutTreeFlag
  <1>5. CASE WorkerBegin
    <2>1. PICK r \in work : /\ work' = work \ {r}
                            /\ IF pc = "files" THEN BeginCopy(r) ELSE BeginMake(r)
      BY <1>5 DEF WorkerBegin
    <2>2. busy' \subseteq Jobs /\ out' \subseteq Jobs
      <3>1. CASE pc = "files"
        <4> DEFINE trace == CheckPath(CacheNode(Payload(r)), Payload(r), cat.kind[Payload(r)]).trace
        <4>1. trace \subseteq {"Conflict", "Removed", "Error"}
          BY CheckTraces
        <4>2. \A o \in out' \cup busy' : \/ o \in out \cup busy
                                         \/ \E flags \in SUBSET Flag : o = Outcome(r, flags)
          BY <2>1, <3>1, <4>1 DEF BeginCopy
        <4> QED BY <1>1, <1>3, <2>1, <4>2
      <3>2. CASE pc # "files"
        <4> DEFINE trace == CheckPath(Found(tree[r].path), tree[r].file, cat.kind[tree[r].file]).trace
        <4>1. trace \subseteq {"Conflict", "Removed", "Error"}
          BY CheckTraces
        <4>2. \A o \in out' \cup busy' : \/ o \in out \cup busy
                                         \/ \E flags \in SUBSET Flag : o = Outcome(r, flags)
          BY <2>1, <3>2, <4>1 DEF BeginMake
        <4> QED BY <1>1, <1>3, <2>1, <4>2
      <3> QED BY <3>1, <3>2
    <2> QED BY <1>1, <1>5, <2>1, <2>2 DEF WorkerBegin, TypePool
  <1>6. CASE WorkerFinish
    <2>1. PICK job \in busy : /\ busy' = busy \ {job}
                              /\ IF pc = "files" THEN FinishCopy(job) ELSE FinishMake(job)
      BY <1>6 DEF WorkerFinish
    <2>2. \A o \in out' : o \in out \/ \E flags \in SUBSET Flag : o = Outcome(job.id, flags)
      <3>1. CASE pc = "files"
        BY <1>4, <2>1, <3>1 DEF FinishCopy
      <3>2. CASE pc # "files"
        BY <1>4, <2>1, <3>2 DEF FinishMake
      <3> QED BY <3>1, <3>2
    <2> QED BY <1>1, <1>3, <1>4, <1>6, <2>1, <2>2 DEF WorkerFinish, TypePool
  <1>7. CASE BeginMove
    <2>1. \A o \in out' \cup busy' : o \in out \cup busy \/ o \in Jobs
      BY <1>1, <1>3, <1>7 DEF BeginMove, Moved, NotMoved
    <2> QED BY <1>1, <1>7, <2>1 DEF BeginMove, TypePool
  <1>8. CASE FinishMove
    <2>1. out' \subseteq Jobs
      BY <1>1, <1>3, <1>4, <1>8 DEF FinishMove, Moved, NotMoved
    <2> QED BY <1>1, <1>8, <2>1 DEF FinishMove, TypePool
  <1>9. CASE LinkOne
    <2>1. PICK r \in todo : \/ todo' = {} /\ UNCHANGED out
                            \/ UNCHANGED <<out, todo>>
                            \/ /\ todo' = todo \ {r}
                               /\ \E flags \in SUBSET Flag : out' = out \cup {Outcome(r, flags)}
      BY <1>9 DEF LinkOne
    <2> QED BY <1>1, <1>3, <1>9, <2>1 DEF LinkOne, TypePool
  <1>10. CASE OpenPass \/ OpenMove \/ OpenLink
    <2>1. PendingFiles \cup HardlinkRows \cup OtherRows \cup ToLink \subseteq Nat
      BY <1>2 DEF PendingFiles, HardlinkRows, OtherRows, ToLink
    <2>2. ToMove \subseteq Nat
      BY <1>1, <1>2, CatalogueTyped DEF ToMove, Catalogue
    <2>3. CASE OpenPass
      BY <1>1, <2>1, <2>3 DEF OpenPass, Passes, TypePool
    <2>4. CASE OpenMove
      BY <1>1, <2>2, <2>4 DEF OpenMove, TypePool
    <2>5. CASE OpenLink
      BY <1>1, <2>1, <2>5 DEF OpenLink, TypePool
    <2> QED BY <1>10, <2>3, <2>4, <2>5
  <1>11. CASE Feed \/ DropWork \/ Ingest \/ IngestMove \/ IngestLinks
    <2>1. CASE Feed
      <3>1. CASE shutdown # "running"
        BY <1>1, <2>1, <3>1 DEF Feed, TypePool
      <3>2. CASE shutdown = "running"
        <4>1. todo # {} /\ todo \in SUBSET Nat
          BY <1>1, <2>1 DEF Feed
        <4>2. (CHOOSE x \in todo : \A y \in todo : x <= y) \in todo
          BY <4>1, LeastOf
        <4> QED BY <1>1, <2>1, <3>2, <4>2 DEF Feed, TypePool
      <3> QED BY <3>1, <3>2
    <2>2. CASE DropWork \/ Ingest \/ IngestMove \/ IngestLinks
      BY <1>1, <2>2 DEF DropWork, Ingest, IngestMove, IngestLinks, TypePool
    <2> QED BY <1>11, <2>1, <2>2
  <1>12. CASE Restart
    BY <1>12 DEF Restart, TypePool
  <1>13. CASE PrologueStep
    BY <1>1, <1>13 DEF PrologueStep, EnterPhase, Rename, InsertBatch, InsertRef, EnsureParents,
        SetTreeBuilt, ElectStep, FinishPrologue, VerifyPrologue, pool, TypePool
  <1>14. CASE CleanTarget \/ BuildDirs \/ EndPass \/ Sweep \/ ApplyFlags \/ Promote \/ VerifyPlace
              \/ EndMove \/ Signal \/ Stopped \/ UNCHANGED vars
    BY <1>1, <1>14 DEF CleanTarget, BuildDirs, EndPass, Sweep, ApplyFlags, Promote, VerifyPlace,
        EndMove, Signal, Stopped, vars, pool, TypePool
  <1> QED BY <1>5, <1>6, <1>7, <1>8, <1>9, <1>10, <1>11, <1>12, <1>13, <1>14
          DEF Next, Driver, PlaceStep, LinkStep, Worker

-----------------------------------------------------------------------------
(* The tree.                                                                *)

LEMMA CatFixed ==
    ASSUME cat' = cat
    PROVE  /\ Entries' = Entries /\ Members(FALSE)' = Members(FALSE) /\ Seen' = Seen
           /\ \A x \in Entries : Goal(x)' = Goal(x)
           /\ \A f \in Files : LastSource(f)' = LastSource(f)
           /\ \A s : On(s)' = On(s)
  BY DEF Entries, Members, Seen, Goal, Claim, Claims, Listed, LastSource, On, Srcs, Rank

LEMMA StartAhead ==
    ASSUME TypeInv, cursor = Start
    PROVE  Ahead(Entries) = Entries /\ Ahead(Members(FALSE)) = Members(FALSE) /\ Ahead(Plain) = Plain
  <1>1. cat \in Catalogues /\ tree \in Seq(Shape)
    BY DEF TypeInv
  <1>2. Entries \cup Members(FALSE) \subseteq Srcs \X {0, 1} \X Files /\ Srcs \subseteq Nat
    BY <1>1, MembersFinite, SourcesFinite
  <1>3. \A x \in Srcs \X {0, 1} \X Files : Earlier(Start, x)
    <2> TAKE x \in Srcs \X {0, 1} \X Files
    <2>1. x[1] \in Srcs /\ x[2] \in {0, 1} /\ x[3] \in Files
      OBVIOUS
    <2>2. Files \subseteq Nat \ {0}
      BY OutTreeAssumption
    <2>3. x[1] \in Nat /\ x[3] \in Nat /\ x[3] # 0
      BY <1>2, <2>1, <2>2
    <2>4. x[2] \in Nat
      BY <2>1
    <2> QED BY <2>3, <2>4 DEF Earlier, Start
  <1>4. \A x \in Plain : Earlier(Start, x)
    BY <1>1, RowsFinite DEF Plain, Earlier, Start
  <1> QED BY <1>2, <1>3, <1>4 DEF Ahead

LEMMA TreeKept ==
    ASSUME TreeInv, SameRows, cat' = cat
    PROVE  TreeInv'
  <1>1. Entries' = Entries /\ \A x \in Entries : Goal(x)' = Goal(x)
    BY CatFixed
  <1>2. \A r \in Rows : Bears(r) => Bears(r)'
    BY DEF Bears, SameRows
  <1> QED BY <1>1, <1>2 DEF TreeInv, SameRows

LEMMA TreeInserted ==
    ASSUME TypeInv, TreeInv, WalkInv, InsertBatch, Page(Entries) # {}
    PROVE  TreeInv'
  <1> DEFINE page == Page(Entries)
  <1>1. Members(On("renames")) = Entries /\ \A x \in Entries : TargetOf(x) = Goal(x)
    BY MembersAreEntries DEF WalkInv, InsertBatch, Inserting
  <1>2. cat \in Catalogues /\ tree \in Seq(Shape) /\ cursor \in Triple /\ cat' = cat
    BY DEF TypeInv, InsertBatch
  <1>3. /\ Entries \in SUBSET Triple /\ IsFiniteSet(Entries)
        /\ Entries \subseteq Srcs \X {0, 1} \X Files
    BY <1>2, MembersFinite
  <1>4. page \subseteq Ahead(Entries) /\ Ahead(Entries) \subseteq Entries
    BY <1>3, PageTakes DEF Ahead
  <1>5. Entries' = Entries /\ \A x \in Entries : Goal(x)' = Goal(x)
    BY <1>2, CatFixed
  <1>6. /\ Rows \subseteq Rows' /\ \A r \in Rows : tree'[r] = tree[r]
        /\ \A r \in Rows' : r \notin Rows => \E x \in Fresh(page) : tree'[r] = NewRow(Goal(x), x[3])
        /\ \A r, q \in Rows' :
              r \notin Rows /\ q \notin Rows /\ tree'[r].path = tree'[q].path => r = q
    BY Inserted
  <1>7. \A x \in Fresh(page) :
          /\ x \in page /\ x \in Entries /\ ~Taken(Goal(x)) /\ x[3] \in Files /\ x[3] # 0
          /\ \A y \in page : Goal(y) = Goal(x) => x[3] <= y[3]
    BY <1>1, <1>3, <1>4, OutTreeAssumption DEF Fresh
  <1>8. ASSUME NEW r \in Rows', r \notin Rows
        PROVE  \E x \in Fresh(page) :
                 /\ tree'[r].path = Goal(x) /\ tree'[r].file = x[3]
                 /\ tree'[r].dir = (tree'[r].file = 0 \/ cat.kind[tree'[r].file] = "dir")
    <2>1. PICK x \in Fresh(page) : tree'[r] = NewRow(Goal(x), x[3])
      BY <1>6, <1>8
    <2>2. x[3] \in Files \cup {0} /\ Goal(x) \in Paths
      BY <1>2, <1>7, EntriesListed
    <2> QED BY <1>2, <2>1, <2>2, NewRowShape
  <1>9. \A r, q \in Rows' : tree'[r].path = tree'[q].path => r = q
    <2> SUFFICES ASSUME NEW r \in Rows', NEW q \in Rows', tree'[r].path = tree'[q].path
                 PROVE  r = q
      OBVIOUS
    <2>1. CASE r \in Rows /\ q \in Rows
      BY <1>6, <2>1 DEF TreeInv
    <2>2. CASE r \in Rows /\ q \notin Rows
      BY <1>6, <1>7, <1>8, <2>2 DEF Taken
    <2>3. CASE r \notin Rows /\ q \in Rows
      BY <1>6, <1>7, <1>8, <2>3 DEF Taken
    <2>4. CASE r \notin Rows /\ q \notin Rows
      BY <1>6, <2>4
    <2> QED BY <2>1, <2>2, <2>3, <2>4
  <1>10. ASSUME NEW x \in Fresh(page), NEW y \in Entries, Goal(y) = Goal(x), y # x
         PROVE  Earlier(x, y)
    <2>1. SUFFICES ASSUME Earlier(y, x) PROVE FALSE
      BY <1>3, <1>7, <1>10, EarlierOrder
    <2>2. CASE y \notin Ahead(Entries)
      <3>1. Filed(y)
        BY <1>10, <2>2 DEF WalkInv, InsertBatch
      <3> QED BY <1>7, <1>10, <3>1 DEF Filed, Taken
    <2>3. CASE y \in Ahead(Entries)
      <3>1. y \in page
        BY <1>3, <1>7, <2>1, <2>3, PageTakes
      <3>2. y[1] = x[1] /\ y[2] = x[2] /\ x[3] <= y[3]
        BY <1>3, <1>7, <1>10, <3>1, PageTakes
      <3>3. x[1] \in Nat /\ x[2] \in Nat /\ x[3] \in Nat /\ y[3] \in Nat
        BY <1>3, <1>7 DEF Triple
      <3> QED BY <2>1, <3>2, <3>3 DEF Earlier
    <2> QED BY <2>2, <2>3
  <1>11. ASSUME NEW r \in Rows'
         PROVE  /\ tree'[r].dir = (tree'[r].file = 0 \/ cat.kind[tree'[r].file] = "dir")
                /\ tree'[r].file # 0 =>
                      \E x \in Entries :
                         /\ x[3] = tree'[r].file /\ Goal(x) = tree'[r].path
                         /\ \A y \in Entries : Goal(y) = Goal(x) => y = x \/ Earlier(x, y)
                /\ tree'[r].file = 0 => (\A y \in Entries : Goal(y) # tree'[r].path) /\ Bears(r)'
    <2>1. CASE r \in Rows
      <3>1. Bears(r) => Bears(r)'
        BY <1>6, <2>1 DEF Bears
      <3> QED BY <1>6, <2>1, <3>1 DEF TreeInv
    <2>2. CASE r \notin Rows
      BY <1>7, <1>8, <1>10, <2>2
    <2> QED BY <2>1, <2>2
  <1> QED BY <1>2, <1>5, <1>9, <1>11 DEF TreeInv

LEMMA TreeScaffolded ==
    ASSUME TypeInv, TreeInv, WalkInv, EnsureParents, Page(Plain) # {}
    PROVE  TreeInv'
  <1>2. cat \in Catalogues /\ cat' = cat
    BY DEF TypeInv, EnsureParents
  <1>5. Entries' = Entries /\ \A x \in Entries : Goal(x)' = Goal(x)
    BY <1>2, CatFixed
  <1>6. /\ Rows \subseteq Rows' /\ \A r \in Rows : tree'[r] = tree[r]
        /\ \A r \in Rows' : r \notin Rows => \E p \in Missing : tree'[r] = NewRow(p, 0)
        /\ \A r, q \in Rows' :
              r \notin Rows /\ q \notin Rows /\ tree'[r].path = tree'[q].path => r = q
        /\ Missing \subseteq Paths
    BY Scaffolded
  <1>7. \A y \in Entries : Taken(Goal(y))
    BY DEF WalkInv, EnsureParents, Filed, Taken
  <1>8. ASSUME NEW r \in Rows', r \notin Rows
        PROVE  /\ ~Taken(tree'[r].path) /\ tree'[r].file = 0 /\ tree'[r].dir
               /\ \A y \in Entries : Goal(y) # tree'[r].path
               /\ Bears(r)'
    <2>1. PICK p \in Missing : tree'[r] = NewRow(p, 0)
      BY <1>6, <1>8
    <2>2. tree'[r].path = p /\ tree'[r].file = 0 /\ tree'[r].dir
      <3>1. p \in Paths /\ 0 \in Files \cup {0}
        BY <1>6
      <3>2. /\ NewRow(p, 0).path = p /\ NewRow(p, 0).file = 0
            /\ NewRow(p, 0).dir = (0 = 0 \/ cat.kind[0] = "dir")
        BY <1>2, <3>1, NewRowShape
      <3> QED BY <2>1, <3>2
    <2>3. ~Taken(p)
      BY DEF Missing
    <2>4. PICK x \in Page(Plain) : p = Parent[tree[x[3]].path]
      BY DEF Missing
    <2>5. x[3] \in Rows /\ ~tree[x[3]].dir
      <3>1. tree \in Seq(Shape) /\ cursor \in Triple
        BY DEF TypeInv
      <3>2. x \in Plain
        BY <3>1, RowsFinite, PageTakes DEF Ahead
      <3> QED BY <3>2 DEF Plain
    <2>6. Bears(r)'
      BY <1>6, <2>2, <2>4, <2>5 DEF Bears
    <2> QED BY <1>7, <2>2, <2>3, <2>6
  <1>9. \A r, q \in Rows' : tree'[r].path = tree'[q].path => r = q
    <2> SUFFICES ASSUME NEW r \in Rows', NEW q \in Rows', tree'[r].path = tree'[q].path
                 PROVE  r = q
      OBVIOUS
    <2>1. CASE r \in Rows /\ q \in Rows
      BY <1>6, <2>1 DEF TreeInv
    <2>2. CASE r \in Rows /\ q \notin Rows
      BY <1>6, <1>8, <2>2 DEF Taken
    <2>3. CASE r \notin Rows /\ q \in Rows
      BY <1>6, <1>8, <2>3 DEF Taken
    <2>4. CASE r \notin Rows /\ q \notin Rows
      BY <1>6, <2>4
    <2> QED BY <2>1, <2>2, <2>3, <2>4
  <1>11. ASSUME NEW r \in Rows'
         PROVE  /\ tree'[r].dir = (tree'[r].file = 0 \/ cat.kind[tree'[r].file] = "dir")
                /\ tree'[r].file # 0 =>
                      \E x \in Entries :
                         /\ x[3] = tree'[r].file /\ Goal(x) = tree'[r].path
                         /\ \A y \in Entries : Goal(y) = Goal(x) => y = x \/ Earlier(x, y)
                /\ tree'[r].file = 0 => (\A y \in Entries : Goal(y) # tree'[r].path) /\ Bears(r)'
    <2>1. CASE r \in Rows
      <3>1. Bears(r) => Bears(r)'
        BY <1>6, <2>1 DEF Bears
      <3> QED BY <1>6, <2>1, <3>1 DEF TreeInv
    <2>2. CASE r \notin Rows
      BY <1>8, <2>2
    <2> QED BY <2>1, <2>2
  <1> QED BY <1>2, <1>5, <1>9, <1>11 DEF TreeInv

LEMMA FlagsKeepRows ==
    ASSUME TypeInv, Ingest \/ IngestLinks
    PROVE  /\ SameRows /\ SameLeaders
           /\ Ingest => \E B \in SUBSET out :
                 /\ IsBatch(B) /\ out' = out \ B
                 /\ \A r \in Rows : tree'[r].flags = Applied(r, B)
                 /\ On("failFast") /\ (\E o \in B : "Error" \in o.flags) => pc' = "failed"
  <1>1. tree \in Seq(Shape) /\ out \subseteq Jobs
    BY DEF TypeInv
  <1>2. CASE Ingest
    <2>1. PICK B \in SUBSET out : /\ tree' = [r \in Rows |-> Flagged(tree[r], Applied(r, B))]
                                  /\ IsBatch(B) /\ out' = out \ B
                                  /\ pc' = IF On("failFast") /\ \E o \in B : "Error" \in o.flags
                                           THEN "failed" ELSE pc
      BY <1>2 DEF Ingest
    <2>2. \A r \in Rows : Applied(r, B) \in SUBSET Flag
      <3> TAKE r \in Rows
      <3>1. tree[r].flags \subseteq Flag
        BY <1>1, RowsFinite DEF Shape
      <3>2. (\E x \in B : x.id = r) => (CHOOSE x \in B : x.id = r).flags \subseteq Flag
        BY <1>1 DEF Jobs
      <3> QED BY <3>1, <3>2 DEF Applied
    <2>3. \A r \in Rows : /\ tree'[r].canon = tree[r].canon /\ tree'[r].path = tree[r].path
                          /\ tree'[r].file = tree[r].file /\ tree'[r].dir = tree[r].dir
                          /\ tree'[r].flags = Applied(r, B)
      BY <1>1, <2>1, <2>2, RowsFinite, FlaggedShape
    <2>4. Rows' = Rows
      BY <2>1 DEF Rows
    <2>5. ~IngestLinks
      BY <1>2, <2>1 DEF Ingest, IngestLinks, Passes
    <2> QED BY <2>1, <2>3, <2>4 DEF SameRows, SameLeaders
  <1>3. CASE IngestLinks
    <2> DEFINE flags(r) == tree[r].flags \cup UNION {o.flags : o \in {x \in out : x.id = r}}
    <2>1. tree' = [r \in Rows |-> Flagged(tree[r], flags(r))]
      BY <1>3 DEF IngestLinks
    <2>2. \A r \in Rows : flags(r) \in SUBSET Flag
      BY <1>1, RowsFinite DEF Shape, Jobs
    <2> HIDE DEF flags
    <2>3. \A r \in Rows : /\ tree'[r].canon = tree[r].canon /\ tree'[r].path = tree[r].path
                          /\ tree'[r].file = tree[r].file /\ tree'[r].dir = tree[r].dir
      BY <1>1, <2>1, <2>2, RowsFinite, FlaggedShape
    <2>4. Rows' = Rows
      BY <2>1 DEF Rows
    <2>5. ~Ingest
      BY <1>3 DEF Ingest, IngestLinks, Passes
    <2> QED BY <2>3, <2>4, <2>5 DEF SameRows, SameLeaders
  <1> QED BY <1>2, <1>3

\* The steps outside the prologue, and those of the prologue that leave its
\* tables alone.
LEMMA OthersKeepTables ==
    ASSUME PhaseInv, \/ PlaceStep \/ LinkStep \/ Worker \/ Restart
                     \/ EnterPhase \/ FinishPrologue \/ VerifyPrologue
    PROVE  /\ UNCHANGED <<cat, newName, refOut, conflicts>>
           /\ tree' = tree \/ Ingest \/ IngestLinks
           /\ ~EnterPhase => pc' \notin Inserting \cup {"rename", "elect"}
           /\ ("treeBuilt" \in meta') = ("treeBuilt" \in meta)
  <1> USE DEF Inserting, PhaseInv, Building, PlacePcs, PlainPasses, planned
  <1>1. CASE EnterPhase \/ FinishPrologue \/ VerifyPrologue \/ Restart
    BY <1>1 DEF EnterPhase, FinishPrologue, VerifyPrologue, Restart
  <1>2. CASE Ingest \/ IngestLinks
    BY <1>2 DEF Ingest, IngestLinks, Passes
  <1>3. CASE CleanTarget \/ BuildDirs \/ OpenPass \/ Feed \/ EndPass \/ Sweep \/ ApplyFlags \/ Promote
             \/ VerifyPlace
    BY <1>3 DEF CleanTarget, BuildDirs, OpenPass, Feed, EndPass, Sweep, ApplyFlags, Promote,
        VerifyPlace, AfterDirs, Pooled, Passes
  <1>4. CASE OpenMove \/ IngestMove \/ EndMove \/ OpenLink \/ LinkOne
    BY <1>4 DEF OpenMove, IngestMove, EndMove, OpenLink, LinkOne
  <1>5. CASE Worker
    BY <1>5 DEF Worker, WorkerBegin, WorkerFinish, DropWork, BeginMove, FinishMove, Pooled, Passes
  <1> QED BY <1>1, <1>2, <1>3, <1>4, <1>5 DEF PlaceStep, LinkStep

LEMMA TreeStep ==
    ASSUME TypeInv, PhaseInv, TreeInv, WalkInv, [Next]_vars
    PROVE  TreeInv'
  <1>1. ASSUME UNCHANGED <<cat, tree>> PROVE TreeInv'
    <2>1. SameRows
      BY <1>1 DEF SameRows, Rows
    <2> QED BY <1>1, <2>1, TreeKept
  <1>2. CASE InsertBatch
    <2>1. Members(On("renames")) = Entries
      BY <1>2, MembersAreEntries DEF WalkInv, InsertBatch, Inserting
    <2>2. CASE Page(Entries) = {}
      BY <1>1, <1>2, <2>1, <2>2 DEF InsertBatch
    <2>3. CASE Page(Entries) # {}
      BY <1>2, <2>3, TreeInserted
    <2> QED BY <2>2, <2>3
  <1>3. CASE EnsureParents
    <2>2. CASE Page(Plain) = {}
      BY <1>1, <1>3, <2>2 DEF EnsureParents
    <2>3. CASE Page(Plain) # {}
      BY <1>3, <2>3, TreeScaffolded
    <2> QED BY <2>2, <2>3
  <1>4. CASE ElectStep
    <2>1. CASE UNCHANGED tree
      BY <1>1, <1>4, <2>1 DEF ElectStep
    <2>2. ASSUME NEW x \in Statements, tree' = Run(x) PROVE TreeInv'
      BY <1>4, <2>2, RunKeeps, TreeKept DEF ElectStep
    <2> QED BY <1>4, <2>1, <2>2 DEF ElectStep
  <1>5. CASE Ingest \/ IngestLinks
    BY <1>5, FlagsKeepRows, TreeKept DEF Ingest, IngestLinks
  <1>6. CASE Rename \/ InsertRef \/ SetTreeBuilt \/ Signal \/ Stopped \/ UNCHANGED vars
    BY <1>1, <1>6 DEF Rename, InsertRef, SetTreeBuilt, Signal, Stopped, vars, planned
  <1>7. CASE \/ PlaceStep \/ LinkStep \/ Worker \/ Restart
             \/ EnterPhase \/ FinishPrologue \/ VerifyPrologue
    BY <1>1, <1>5, <1>7, OthersKeepTables
  <1> QED BY <1>2, <1>3, <1>4, <1>6, <1>7 DEF Next, Driver, PrologueStep

-----------------------------------------------------------------------------
(* The walks of the prologue.                                               *)

\* What the walks have written stands while the tables are left alone.
LEMMA RowsStand ==
    ASSUME SameRows, UNCHANGED <<cat, refOut, conflicts>>
    PROVE  /\ \A x \in Entries : Filed(x) => Filed(x)'
           /\ \A x \in Entries : Linked(x) => Linked(x)'
           /\ \A r \in Rows : HasParent(r) => HasParent(r)'
  BY CatFixed DEF SameRows, Filed, Linked, HasParent

LEMMA WalkKept ==
    ASSUME WalkInv, SameRows, UNCHANGED <<cat, newName, refOut, conflicts>>,
           pc' \notin Inserting \cup {"rename"}, "treeBuilt" \in meta' => "treeBuilt" \in meta
    PROVE  WalkInv'
  <1>1. Entries' = Entries /\ Seen' = Seen
    BY CatFixed
  <1>2. \A f \in Files : newName'[f] # Unset => f \in Seen'
    BY <1>1 DEF WalkInv
  <1>3. "treeBuilt" \in meta' =>
          /\ \A x \in Entries' : Filed(x)' /\ Linked(x)'
          /\ \A r \in Rows' : ~tree'[r].dir => HasParent(r)'
    BY <1>1, RowsStand DEF WalkInv, SameRows
  <1>4. pc' \notin {"rename", "insert", "refs", "parents", "built"}
    BY DEF Inserting
  <1> QED BY <1>2, <1>3, <1>4 DEF WalkInv, Inserting

LEMMA WalkRenamed ==
    ASSUME TypeInv, PhaseInv, WalkInv, Rename
    PROVE  WalkInv'
  <1> DEFINE M == Members(FALSE)
  <1>1. cat \in Catalogues /\ cursor \in Triple /\ cat' = cat
        /\ newName \in [Files -> Paths \cup {Unset, NoPath}]
        /\ UNCHANGED <<refOut, conflicts, tree, meta>> /\ pc = "rename" /\ SameRows
    BY DEF TypeInv, Rename, SameRows, Rows
  <1>2. /\ M \in SUBSET Triple /\ M \subseteq Srcs \X {0, 1} \X Files
        /\ M' = M /\ Seen' = Seen /\ Entries' = Entries
        /\ \A f \in Files : LastSource(f)' = LastSource(f)
    BY <1>1, MembersFinite, CatFixed
  <1>3. "treeBuilt" \in meta' =>
          /\ \A x \in Entries' : Filed(x)' /\ Linked(x)'
          /\ \A r \in Rows' : ~tree'[r].dir => HasParent(r)'
    BY <1>1, <1>2, RowsStand DEF WalkInv, SameRows
  <1>4. CASE Ahead(M) = {} /\ newName' = newName /\ cursor' = Start /\ pc' \in {"insert", "elect"}
    <2>1. ASSUME NEW f \in Seen PROVE newName[f] = cat.target[LastSource(f)][f]
      <3>1. PICK x \in M : x[3] = f
        BY DEF Seen
      <3>2. /\ <<LastSource(f), x[2], f>> \in M
            /\ \A y \in M : y[3] = f => y[1] <= LastSource(f)
        BY <1>1, <3>1, LastSourceCovers
      <3> DEFINE y == <<LastSource(f), x[2], f>>
      <3>3. y \in M \ Ahead(M) /\ \A z \in M \ Ahead(M) : z[3] = y[3] => z[1] <= y[1]
        BY <1>4, <3>2
      <3>4. newName[y[3]] = cat.target[y[1]][y[3]]
        BY <1>1, <3>3 DEF WalkInv, Renaming
      <3> QED BY <3>4
    <2>2. LastNamed'
      BY <1>1, <1>2, <1>4, <2>1 DEF LastNamed, Seen
    <2>3. \A f \in Files : newName'[f] # Unset => f \in Seen'
      BY <1>2, <1>4 DEF WalkInv
    <2>4. pc' = "insert" => Ahead(Entries)' = Entries'
      <3>1. Ahead(Entries)' = {x \in Entries : Earlier(Start, x)}
        BY <1>2, <1>4 DEF Ahead
      <3>2. \A x \in Entries : Earlier(Start, x)
        <4> TAKE x \in Entries
        <4>1. x[1] \in Srcs /\ x[2] \in {0, 1} /\ x[3] \in Files
          BY <1>1, MembersFinite
        <4>2. Files \subseteq Nat \ {0} /\ Srcs \subseteq Nat
          BY <1>1, OutTreeAssumption, SourcesFinite
        <4>3. x[1] \in Nat /\ x[3] \in Nat /\ x[3] # 0
          BY <4>1, <4>2
        <4>4. x[2] \in Nat
          BY <4>1
        <4> QED BY <4>3, <4>4 DEF Earlier, Start
      <3> QED BY <1>2, <3>1, <3>2
    <2>5. pc' # "rename" /\ pc' # "refs" /\ pc' # "parents" /\ pc' # "built"
      BY <1>4
    <2> QED BY <1>3, <2>2, <2>3, <2>4, <2>5 DEF WalkInv, Inserting
  <1>5. ASSUME NEW x \in M, Comes(M, x), cursor' = x, pc' = pc,
               newName' = [newName EXCEPT ![x[3]] = cat.target[x[1]][x[3]]]
        PROVE  WalkInv'
    <2>1. /\ x \in Ahead(M) /\ {y \in M : Earlier(cursor', y)} = Ahead(M) \ {x}
          /\ \A y \in M : y \notin Ahead(M) => Earlier(y, x)
      BY <1>1, <1>2, <1>5, EntryStep
    <2>2. Ahead(M)' = Ahead(M) \ {x}
      BY <1>2, <2>1 DEF Ahead
    <2>3. x[3] \in Files /\ x[3] \in Seen /\ \A y \in M : y[1] \in Nat /\ y[2] \in Nat /\ y[3] \in Nat
      BY <1>2 DEF Seen, Triple
    <2>4. \A f \in Files : newName'[f] # Unset => f \in Seen'
      BY <1>1, <1>2, <1>5, <2>3 DEF WalkInv
    <2>5. ASSUME NEW z \in M \ Ahead(M)',
                 \A y \in M \ Ahead(M)' : y[3] = z[3] => y[1] <= z[1]
          PROVE  newName'[z[3]] = cat.target[z[1]][z[3]]
      <3>1. CASE z = x
        BY <1>1, <1>5, <2>3, <3>1
      <3>2. CASE z # x
        <4>1. z \in M \ Ahead(M) /\ Earlier(z, x) /\ x \in M \ Ahead(M)'
          BY <2>1, <2>2, <2>5, <3>2
        <4>2. z[3] # x[3]
          <5> SUFFICES ASSUME z[3] = x[3] PROVE FALSE
            OBVIOUS
          <5>a. /\ z[1] \in Nat /\ z[2] \in Nat /\ z[3] \in Nat
                /\ x[1] \in Nat /\ x[2] \in Nat /\ x[3] \in Nat
            <6>1. x \in M /\ z \in M
              BY <4>1
            <6> HIDE DEF M
            <6> QED BY <2>3, <6>1
          <5>b. x[1] <= z[1]
            BY <2>5, <4>1
          <5>1. z[1] = x[1]
            BY <5>a, <5>b, <4>1 DEF Earlier
          <5>2. z[2] = x[2]
            BY <1>2, <4>1, <5>1 DEF Members, Listed
          <5> QED BY <5>a, <4>1, <5>1, <5>2 DEF Earlier
        <4>3. newName[z[3]] = cat.target[z[1]][z[3]]
          BY <1>1, <2>2, <2>5, <4>1 DEF WalkInv, Renaming
        <4>4. newName'[z[3]] = newName[z[3]]
          BY <1>1, <1>2, <1>5, <4>1, <4>2
        <4> QED BY <4>3, <4>4
      <3> QED BY <3>1, <3>2
    <2>6. Renaming'
      BY <1>1, <1>2, <2>5 DEF Renaming
    <2> QED BY <1>1, <1>3, <1>5, <2>4, <2>6 DEF WalkInv, Inserting
  <1> QED BY <1>1, <1>4, <1>5 DEF Rename

LEMMA WalkInserted ==
    ASSUME TypeInv, PhaseInv, WalkInv, InsertBatch
    PROVE  WalkInv'
  <1> DEFINE page == Page(Entries)
  <1>1. /\ Members(On("renames")) = Entries /\ \A x \in Entries : TargetOf(x) = Goal(x)
        /\ On("renames") => LastNamed
    BY MembersAreEntries DEF WalkInv, InsertBatch, Inserting
  <1>2. cat \in Catalogues /\ tree \in Seq(Shape) /\ cursor \in Triple /\ cat' = cat
        /\ UNCHANGED <<newName, refOut, meta>> /\ pc = "insert" /\ "treeBuilt" \notin meta
    BY DEF TypeInv, InsertBatch, PhaseInv, Inserting
  <1>3. /\ Entries \in SUBSET Triple /\ IsFiniteSet(Entries)
        /\ Entries \subseteq Srcs \X {0, 1} \X Files
    BY <1>2, MembersFinite
  <1>4. page \subseteq Ahead(Entries) /\ Ahead(Entries) \subseteq Entries
        /\ (page = {} => Ahead(Entries) = {})
    BY <1>3, PageTakes DEF Ahead
  <1>5. Entries' = Entries /\ Seen' = Seen /\ (\A x \in Entries : Goal(x)' = Goal(x))
        /\ (\A f \in Files : LastSource(f)' = LastSource(f)) /\ On("renames")' = On("renames")
    BY <1>2, CatFixed
  <1>6. \A f \in Files : newName'[f] # Unset => f \in Seen'
    BY <1>2, <1>5 DEF WalkInv
  <1>7. On("renames")' => LastNamed'
    BY <1>1, <1>2, <1>5 DEF LastNamed, Seen
  <1>8. CASE page = {}
    <2>1. pc' = "parents" /\ cursor' = Start /\ UNCHANGED <<tree, conflicts, refs>>
      BY <1>1, <1>8 DEF InsertBatch
    <2>2. SameRows
      BY <2>1 DEF SameRows, Rows
    <2>3. \A x \in Entries : Filed(x) /\ Linked(x)
      BY <1>2, <1>4, <1>8 DEF WalkInv
    <2>4. \A x \in Entries' : Filed(x)' /\ Linked(x)'
      BY <1>2, <1>5, <2>1, <2>2, <2>3, RowsStand
    <2>5. \A r \in Rows' : <<0, 0, r>> \in Plain' => <<0, 0, r>> \in Ahead(Plain)'
      <3>1. \A r \in Rows' : Earlier(Start, <<0, 0, r>>)
        BY <1>2, <2>2, RowsFinite DEF SameRows, Earlier, Start
      <3> QED BY <2>1, <3>1 DEF Ahead
    <2>6. \A r \in Rows' : ~tree'[r].dir => <<0, 0, r>> \in Plain'
      BY DEF Plain
    <2> QED BY <1>2, <1>6, <1>7, <2>1, <2>4, <2>5, <2>6 DEF WalkInv, Inserting
  <1>9. CASE page # {}
    <2>1. /\ pc' = "refs" /\ cursor' = LastOf(page)
          /\ refs' = IF On("absolute") THEN {} ELSE page
          /\ conflicts' = conflicts \cup
                      {c \in Files \X DOMAIN tree' :
                          \E x \in page : /\ x[3] = c[1]
                                          /\ tree'[c[2]].path = TargetOf(x)
                                          /\ tree'[c[2]].file # x[3]}
      BY <1>1, <1>9 DEF InsertBatch
    <2>2. /\ Rows \subseteq Rows' /\ \A r \in Rows : tree'[r] = tree[r]
          /\ \A x \in Fresh(page) :
                 \E r \in Rows' : r \notin Rows /\ tree'[r] = NewRow(Goal(x), x[3])
      BY <1>9, Inserted
    <2>3. {x \in Entries : Earlier(cursor', x)} = Ahead(Entries) \ page
      BY <1>2, <1>3, <1>9, <2>1, PageStep
    <2>4. Ahead(Entries)' = Ahead(Entries) \ page
      BY <1>5, <2>3 DEF Ahead
    <2>5. ASSUME NEW x \in Entries, x \notin Ahead(Entries)
          PROVE  Filed(x)' /\ Linked(x)'
      <3>1. Filed(x) /\ Linked(x)
        BY <1>2, <2>5 DEF WalkInv
      <3>2. Filed(x)'
        BY <1>5, <2>1, <2>2, <3>1 DEF Filed
      <3>3. Linked(x)'
        BY <1>2, <1>5, <2>2, <3>1 DEF Linked
      <3> QED BY <3>2, <3>3
    <2>6. ASSUME NEW x \in page
          PROVE  \E r \in Rows' : tree'[r].path = Goal(x)
      <3>1. CASE Taken(Goal(x))
        BY <2>2, <3>1 DEF Taken
      <3>2. CASE ~Taken(Goal(x))
        <4> DEFINE rivals == {y \in page : Goal(y) = Goal(x)}
                   size == [y \in rivals |-> y[3]]
        <4>1. \A y \in rivals : size[y] \in Nat
          BY <1>3, <1>4 DEF Triple
        <4>2. PICK y \in rivals : \A z \in rivals : size[y] <= size[z]
          <5>1. rivals # {}
            OBVIOUS
          <5> HIDE DEF size, rivals
          <5> QED BY <4>1, <5>1, FewestExists
        <4>3. y \in Fresh(page)
          BY <1>1, <1>4, <3>2, <4>2 DEF Fresh
        <4>4. PICK r \in Rows' : tree'[r] = NewRow(Goal(y), y[3])
          BY <2>2, <4>3
        <4>5. Goal(y) \in Paths /\ y[3] \in Files \cup {0}
          BY <1>2, <1>3, <1>4, EntriesListed
        <4>6. tree'[r].path = Goal(x)
          BY <1>2, <4>4, <4>5, NewRowShape
        <4> QED BY <4>6
      <3> QED BY <3>1, <3>2
    <2>7. ASSUME NEW x \in page PROVE Filed(x)'
      <3>1. PICK r \in Rows' : tree'[r].path = Goal(x)
        BY <2>6
      <3>2. x \in Entries /\ x[3] \in Files /\ TargetOf(x) = Goal(x) /\ Goal(x)' = Goal(x)
        BY <1>1, <1>3, <1>4, <1>5
      <3>3. tree'[r].file # x[3] => <<x[3], r>> \in conflicts'
        BY <2>1, <3>1, <3>2 DEF Rows
      <3> QED BY <3>1, <3>2, <3>3 DEF Filed
    <2>8. ASSUME NEW x \in page PROVE Linked(x)' \/ x \in refs'
      <3>1. CASE On("absolute")
        BY <1>3, <1>4, <3>1 DEF Linked, Srcs
      <3>2. CASE ~On("absolute")
        BY <2>1, <3>2
      <3> QED BY <3>1, <3>2
    <2>9. refs' \subseteq Entries' \ Ahead(Entries)'
      BY <1>4, <1>5, <2>1, <2>4
    <2>10. \A x \in Entries' \ Ahead(Entries)' : Filed(x)' /\ (Linked(x)' \/ x \in refs')
      BY <1>5, <2>4, <2>5, <2>7, <2>8
    <2> QED BY <1>2, <1>6, <1>7, <2>1, <2>9, <2>10 DEF WalkInv, Inserting
  <1> QED BY <1>8, <1>9

LEMMA WalkReferred ==
    ASSUME TypeInv, PhaseInv, WalkInv, InsertRef
    PROVE  WalkInv'
  <1>1. /\ \A x \in Entries : TargetOf(x) = Goal(x)
        /\ On("renames") => LastNamed
    BY MembersAreEntries DEF WalkInv, InsertRef, Inserting
  <1>2. cat \in Catalogues /\ cat' = cat
        /\ UNCHANGED <<newName, tree, conflicts, meta, cursor>> /\ pc = "refs" /\ "treeBuilt" \notin meta
    BY DEF TypeInv, InsertRef, PhaseInv, Inserting
  <1>5. Entries' = Entries /\ Seen' = Seen /\ (\A x \in Entries : Goal(x)' = Goal(x))
        /\ (\A f \in Files : LastSource(f)' = LastSource(f)) /\ On("renames")' = On("renames")
    BY <1>2, CatFixed
  <1>6. \A f \in Files : newName'[f] # Unset => f \in Seen'
    BY <1>2, <1>5 DEF WalkInv
  <1>7. On("renames")' => LastNamed'
    BY <1>1, <1>2, <1>5 DEF LastNamed, Seen
  <1>8. Ahead(Entries)' = Ahead(Entries) /\ Rows' = Rows
    BY <1>2, <1>5 DEF Ahead, Rows
  <1>9. \A x \in Entries : (Filed(x) => Filed(x)') /\ (refOut \subseteq refOut' /\ Linked(x) => Linked(x)')
    BY <1>2, <1>5, <1>8 DEF Filed, Linked
  <1>10. refs \subseteq Entries \ Ahead(Entries)
         /\ \A x \in Entries \ Ahead(Entries) : Filed(x) /\ (Linked(x) \/ x \in refs)
    BY <1>2 DEF WalkInv
  <1>11. CASE refs = {} /\ pc' = "insert" /\ UNCHANGED <<refOut, refs>>
    BY <1>2, <1>5, <1>6, <1>7, <1>8, <1>9, <1>10, <1>11 DEF WalkInv, Inserting
  <1>12. ASSUME NEW x \in refs, refOut' = refOut \cup {<<RowAt(TargetOf(x)), x[1]>>},
                refs' = refs \ {x}, pc' = pc
         PROVE  WalkInv'
    <2>1. x \in Entries /\ Filed(x) /\ TargetOf(x) = Goal(x)
      BY <1>1, <1>10
    <2>2. RowAt(Goal(x)) \in Rows /\ tree[RowAt(Goal(x))].path = Goal(x)
      BY <2>1, RowOfPath DEF Filed, Taken
    <2>3. Linked(x)'
      BY <1>2, <1>5, <1>8, <1>12, <2>1, <2>2 DEF Linked
    <2>4. \A y \in Entries' \ Ahead(Entries)' : Filed(y)' /\ (Linked(y)' \/ y \in refs')
      BY <1>5, <1>8, <1>9, <1>10, <1>12, <2>3
    <2> QED BY <1>2, <1>5, <1>6, <1>7, <1>8, <1>10, <1>12, <2>4 DEF WalkInv, Inserting
  <1> QED BY <1>11, <1>12 DEF InsertRef

LEMMA WalkParents ==
    ASSUME TypeInv, PhaseInv, TreeInv, WalkInv, EnsureParents
    PROVE  WalkInv'
  <1>2. cat \in Catalogues /\ tree \in Seq(Shape) /\ cursor \in Triple /\ cat' = cat
        /\ UNCHANGED <<newName, refOut, conflicts, meta>> /\ pc = "parents" /\ "treeBuilt" \notin meta
    BY DEF TypeInv, EnsureParents, PhaseInv, Inserting
  <1>5. Entries' = Entries /\ Seen' = Seen /\ (\A x \in Entries : Goal(x)' = Goal(x))
        /\ (\A f \in Files : LastSource(f)' = LastSource(f)) /\ On("renames")' = On("renames")
    BY <1>2, CatFixed
  <1>6. \A f \in Files : newName'[f] # Unset => f \in Seen'
    BY <1>2, <1>5 DEF WalkInv
  <1>7. On("renames")' => LastNamed'
    BY <1>2, <1>5 DEF WalkInv, Inserting, LastNamed, Seen
  <1>8. Plain \in SUBSET Triple /\ IsFiniteSet(Plain)
    BY <1>2, RowsFinite
  <1>9. Page(Plain) \subseteq Ahead(Plain) /\ (Page(Plain) = {} => Ahead(Plain) = {})
    BY <1>8, PageTakes
  <1>10. (\A x \in Entries : Filed(x) /\ Linked(x))
         /\ \A r \in Rows : ~tree[r].dir /\ <<0, 0, r>> \notin Ahead(Plain) => HasParent(r)
    BY <1>2 DEF WalkInv
  <1>11. CASE Page(Plain) = {}
    <2>1. pc' = "built" /\ UNCHANGED tree
      BY <1>11 DEF EnsureParents
    <2>2. SameRows
      BY <2>1 DEF SameRows, Rows
    <2>3. \A x \in Entries' : Filed(x)' /\ Linked(x)'
      BY <1>2, <1>5, <1>10, <2>2, RowsStand
    <2>4. \A r \in Rows' : ~tree'[r].dir => HasParent(r)'
      BY <1>2, <1>9, <1>10, <1>11, <2>2, RowsStand DEF SameRows
    <2> QED BY <1>2, <1>6, <1>7, <2>1, <2>3, <2>4 DEF WalkInv, Inserting
  <1>12. CASE Page(Plain) # {}
    <2>1. pc' = pc /\ cursor' = LastOf(Page(Plain))
      BY <1>12 DEF EnsureParents
    <2>2. /\ Rows \subseteq Rows' /\ \A r \in Rows : tree'[r] = tree[r]
          /\ \A r \in Rows' : r \notin Rows => \E p \in Missing : tree'[r] = NewRow(p, 0)
          /\ \A p \in Missing : \E r \in Rows' : r \notin Rows /\ tree'[r] = NewRow(p, 0)
          /\ Missing \subseteq Paths
      BY <1>12, Scaffolded
    <2>3. \A p \in Missing : NewRow(p, 0).path = p /\ NewRow(p, 0).dir
      <3> TAKE p \in Missing
      <3>1. p \in Paths /\ 0 \in Files \cup {0}
        BY <2>2
      <3>2. NewRow(p, 0).path = p /\ NewRow(p, 0).dir = (0 = 0 \/ cat.kind[0] = "dir")
        BY <1>2, <3>1, NewRowShape
      <3> QED BY <3>2
    <2>4. Plain' = Plain
      BY <2>2, <2>3 DEF Plain
    <2>5. {x \in Plain : Earlier(cursor', x)} = Ahead(Plain) \ Page(Plain)
      BY <1>2, <1>8, <1>12, <2>1, PageStep
    <2>6. Ahead(Plain)' = Ahead(Plain) \ Page(Plain)
      BY <2>4, <2>5 DEF Ahead
    <2>7. ASSUME NEW r \in Rows', ~tree'[r].dir, <<0, 0, r>> \notin Ahead(Plain)'
          PROVE  HasParent(r)'
      <3>1. r \in Rows /\ tree'[r] = tree[r]
        BY <2>2, <2>3, <2>7
      <3>2. CASE <<0, 0, r>> \notin Ahead(Plain)
        <4>1. HasParent(r)
          BY <1>10, <2>7, <3>1, <3>2
        <4> QED BY <2>2, <3>1, <4>1 DEF HasParent
      <3>3. CASE <<0, 0, r>> \in Page(Plain)
        <4> DEFINE p == Parent[tree[r].path]
        <4>1. CASE Taken(p)
          BY <2>2, <3>1, <4>1 DEF Taken, HasParent
        <4>2. CASE ~Taken(p)
          <5>1. p \in Missing
            <6>1. p = Parent[tree[<<0, 0, r>>[3]].path]
              OBVIOUS
            <6> QED BY <3>3, <4>2, <6>1 DEF Missing
          <5>2. PICK q \in Rows' : tree'[q] = NewRow(p, 0)
            BY <2>2, <5>1
          <5> QED BY <2>3, <3>1, <5>1, <5>2 DEF HasParent
        <4> QED BY <4>1, <4>2
      <3> QED BY <2>6, <2>7, <3>2, <3>3
    <2>8. \A x \in Entries' : Filed(x)' /\ Linked(x)'
      <3> SUFFICES ASSUME NEW x \in Entries PROVE Filed(x)' /\ Linked(x)'
        BY <1>5
      <3>1. Filed(x) /\ Linked(x) /\ Goal(x)' = Goal(x)
        BY <1>5, <1>10
      <3> QED BY <1>2, <2>2, <3>1 DEF Filed, Linked
    <2> QED BY <1>2, <1>6, <1>7, <2>1, <2>7, <2>8 DEF WalkInv, Inserting
  <1> QED BY <1>11, <1>12

LEMMA WalkStep ==
    ASSUME TypeInv, PhaseInv, TreeInv, WalkInv, [Next]_vars
    PROVE  WalkInv'
  <1>1. CASE EnterPhase
    <2>1. /\ UNCHANGED <<cat, newName, refOut, conflicts, tree, meta>> /\ cursor' = Start
          /\ pc' \notin {"refs", "parents", "built"}
          /\ pc' = "insert" => ~On("renames")
      <3>1. phase \in {"PlacementPrologue", "Place", "Permissions"}
        BY DEF PhaseInv
      <3>2. UNCHANGED <<cat, newName, refOut, conflicts, tree, meta>> /\ cursor' = Start
        BY <1>1 DEF EnterPhase, planned
      <3>3. pc' \in {"interrupted", "clean", "done", "verify", "rename", "elect"}
            \/ (pc' = "insert" /\ ~On("renames"))
        BY <1>1, <3>1 DEF EnterPhase
      <3> QED BY <3>2, <3>3
    <2>2. SameRows
      BY <2>1 DEF SameRows, Rows
    <2>3. Entries' = Entries /\ Members(FALSE)' = Members(FALSE) /\ Seen' = Seen
          /\ On("renames")' = On("renames")
      BY <2>1, CatFixed
    <2>4. Ahead(Entries)' = Entries /\ Ahead(Members(FALSE))' = Members(FALSE)
      <3>1. cat \in Catalogues
        BY DEF TypeInv
      <3>2. \A x \in Srcs \X {0, 1} \X Files : Earlier(Start, x)
        <4> TAKE x \in Srcs \X {0, 1} \X Files
        <4>1. x[1] \in Srcs /\ x[2] \in {0, 1} /\ x[3] \in Files
          OBVIOUS
        <4>2. Files \subseteq Nat \ {0} /\ Srcs \subseteq Nat
          BY <3>1, OutTreeAssumption, SourcesFinite
        <4>3. x[1] \in Nat /\ x[3] \in Nat /\ x[3] # 0
          BY <4>1, <4>2
        <4>4. x[2] \in Nat
          BY <4>1
        <4> QED BY <4>3, <4>4 DEF Earlier, Start
      <3>3. Entries \subseteq Srcs \X {0, 1} \X Files /\ Members(FALSE) \subseteq Srcs \X {0, 1} \X Files
        BY <3>1, MembersFinite
      <3> QED BY <2>1, <2>3, <3>2, <3>3 DEF Ahead
    <2>5. Renaming'
      BY <2>3, <2>4 DEF Renaming
    <2>6. \A f \in Files : newName'[f] # Unset => f \in Seen'
      BY <2>1, <2>3 DEF WalkInv
    <2>7. "treeBuilt" \in meta' =>
            /\ \A x \in Entries' : Filed(x)' /\ Linked(x)'
            /\ \A r \in Rows' : ~tree'[r].dir => HasParent(r)'
      BY <2>1, <2>2, <2>3, RowsStand DEF WalkInv, SameRows
    <2>8. pc' \in Inserting => pc' = "insert"
      BY <2>1 DEF Inserting
    <2> QED BY <2>1, <2>3, <2>4, <2>5, <2>6, <2>7, <2>8 DEF WalkInv
  <1>2. CASE SetTreeBuilt
    <2>1. /\ UNCHANGED <<cat, newName, refOut, conflicts, tree>> /\ pc = "built" /\ pc' = "elect"
      BY <1>2 DEF SetTreeBuilt, planned
    <2>2. SameRows
      BY <2>1 DEF SameRows, Rows
    <2>3. Entries' = Entries /\ Seen' = Seen
      BY <2>1, CatFixed
    <2>4. \A f \in Files : newName'[f] # Unset => f \in Seen'
      BY <2>1, <2>3 DEF WalkInv
    <2>5. /\ \A x \in Entries' : Filed(x)' /\ Linked(x)'
          /\ \A r \in Rows' : ~tree'[r].dir => HasParent(r)'
      BY <2>1, <2>2, <2>3, RowsStand DEF WalkInv, SameRows
    <2> QED BY <2>1, <2>4, <2>5 DEF WalkInv, Inserting
  <1>3. CASE ElectStep
    <2>1. /\ UNCHANGED <<cat, newName, refOut, conflicts, meta>> /\ pc' \in {"elect", "finish"}
      BY <1>3 DEF ElectStep
    <2>2. SameRows
      <3>1. CASE UNCHANGED tree
        BY <3>1 DEF SameRows, Rows
      <3>2. ASSUME NEW x \in Statements, tree' = Run(x) PROVE SameRows
        BY <3>2, RunKeeps
      <3> QED BY <1>3, <3>1, <3>2 DEF ElectStep
    <2>3. pc' \notin Inserting \cup {"rename"}
      BY <2>1 DEF Inserting
    <2> QED BY <2>1, <2>2, <2>3, WalkKept
  <1>4. CASE Signal \/ Stopped \/ UNCHANGED vars
    <2>1. UNCHANGED <<cat, newName, tree, refOut, conflicts, meta, pc, cursor, refs>>
      BY <1>4 DEF Signal, Stopped, vars, planned, walk
    <2>2. Entries' = Entries /\ Members(FALSE)' = Members(FALSE) /\ Seen' = Seen /\ Rows' = Rows
          /\ Plain' = Plain
      BY <2>1, CatFixed DEF Rows, Plain
    <2>3. Ahead(Entries)' = Ahead(Entries) /\ Ahead(Members(FALSE))' = Ahead(Members(FALSE))
          /\ Ahead(Plain)' = Ahead(Plain)
      BY <2>1, <2>2 DEF Ahead
    <2>4. SameRows
      BY <2>1, <2>2 DEF SameRows
    <2>5. (Renaming => Renaming') /\ (LastNamed => LastNamed') /\ (On("renames")' = On("renames"))
      BY <2>1, <2>2, <2>3, CatFixed DEF Renaming, LastNamed, Seen
    <2>6. /\ \A x \in Entries : (Filed(x) => Filed(x)') /\ (Linked(x) => Linked(x)')
          /\ \A r \in Rows : HasParent(r) => HasParent(r)'
      BY <2>1, <2>4, RowsStand
    <2> QED BY <2>1, <2>2, <2>3, <2>5, <2>6 DEF WalkInv
  <1>5. CASE ~EnterPhase /\ (PlaceStep \/ LinkStep \/ Worker \/ Restart \/ FinishPrologue \/ VerifyPrologue)
    <2>1. /\ UNCHANGED <<cat, newName, refOut, conflicts>>
          /\ tree' = tree \/ Ingest \/ IngestLinks
          /\ pc' \notin Inserting \cup {"rename", "elect"}
          /\ ("treeBuilt" \in meta') = ("treeBuilt" \in meta)
      BY <1>5, OthersKeepTables
    <2>2. SameRows
      <3>1. CASE tree' = tree
        BY <3>1 DEF SameRows, Rows
      <3> QED BY <2>1, <3>1, FlagsKeepRows
    <2> QED BY <2>1, <2>2, WalkKept
  <1> QED BY <1>1, <1>2, <1>3, <1>4, <1>5, WalkRenamed, WalkInserted, WalkReferred, WalkParents
          DEF Next, Driver, PrologueStep

-----------------------------------------------------------------------------
(* The tree once it is built.                                               *)

PlanInv == TypeInv /\ PhaseInv /\ TreeInv /\ WalkInv

LEMMA InitPlan == Init => PlanInv
  <1> SUFFICES ASSUME Init PROVE PlanInv
    OBVIOUS
  <1>1. Rows = {}
    BY DEF Init, Rows
  <1>2. TreeInv
    BY <1>1 DEF TreeInv
  <1>3. WalkInv
    BY DEF Init, WalkInv, Inserting
  <1> QED BY <1>2, <1>3, InitType, InitPhase DEF PlanInv

LEMMA PlanStep == PlanInv /\ [Next]_vars => PlanInv'
  <1> SUFFICES ASSUME PlanInv, [Next]_vars PROVE PlanInv'
    OBVIOUS
  <1>1. TypeInv /\ PhaseInv /\ TreeInv /\ WalkInv
    BY DEF PlanInv
  <1>2. TypeRest' /\ TypeTree' /\ TypePool'
    BY <1>1, TypeRestStep, TypeTreeStep, TypePoolStep
  <1>3. TypeInv'
    BY <1>2 DEF TypeInv, TypeRest, TypeTree, TypePool
  <1>4. TreeInv' /\ WalkInv' /\ PhaseInv'
    BY <1>1, TreeStep, WalkStep, PhaseStep
  <1> QED BY <1>3, <1>4 DEF PlanInv

\* The invariant of the prologue's tables holds at every step, whatever is
\* signalled, killed and started again.
THEOREM PlanInvariance == Spec => []PlanInv
  BY InitPlan, PlanStep, PTL DEF Spec

\* A claim and the entry of the walk that makes it.
EntryOf(c) == <<c[1], Rank(c[2]), c[2]>>

LEMMA ClaimsAreEntries ==
    ASSUME NEW c \in Claims
    PROVE  /\ EntryOf(c) \in Entries /\ Goal(EntryOf(c)) = Claim(c[1], c[2])
           /\ EntryOf(c)[1] = c[1] /\ EntryOf(c)[3] = c[2] /\ c = <<c[1], c[2]>>
  <1>1. c \in Srcs \X Files
    BY DEF Claims, Srcs
  <1>2. Rank(c[2]) \in {0, 1}
    BY DEF Rank
  <1> QED BY <1>1, <1>2 DEF EntryOf, Entries, Goal

LEMMA EntriesAreClaims ==
    ASSUME NEW x \in Entries
    PROVE  <<x[1], x[3]>> \in Claims /\ EntryOf(<<x[1], x[3]>>) = x
  <1>1. x \in Srcs \X {0, 1} \X Files /\ <<x[1], x[3]>> \in Claims /\ x[2] = Rank(x[3])
    BY DEF Entries
  <1> QED BY <1>1 DEF EntryOf

LEMMA BeforeIsEarlier ==
    ASSUME NEW c \in Claims, NEW o \in Claims
    PROVE  Before(c, o) <=> Earlier(EntryOf(c), EntryOf(o))
  <1>1. /\ EntryOf(c)[1] = c[1] /\ EntryOf(c)[2] = Rank(c[2]) /\ EntryOf(c)[3] = c[2]
        /\ EntryOf(o)[1] = o[1] /\ EntryOf(o)[2] = Rank(o[2]) /\ EntryOf(o)[3] = o[2]
    BY DEF EntryOf
  <1> QED BY <1>1 DEF Before, Earlier, Rank

LEMMA RowsHaveOwners ==
    ASSUME PlanInv, NEW r \in Rows
    PROVE  {c[2] : c \in Owner(tree[r].path)} = {tree[r].file} \ {0}
  <1>1. TypeInv /\ TreeInv /\ cat \in Catalogues /\ tree \in Seq(Shape)
    BY DEF PlanInv, TypeInv
  <1>2. Entries \in SUBSET Triple
    BY <1>1, MembersFinite
  <1> DEFINE p == tree[r].path
  <1>3. CASE tree[r].file = 0
    <2>1. \A c \in Claims : Claim(c[1], c[2]) # p
      BY <1>1, <1>3, ClaimsAreEntries DEF TreeInv
    <2>2. Owner(p) = {}
      BY <2>1 DEF Owner
    <2> QED BY <1>3, <2>2
  <1>4. CASE tree[r].file # 0
    <2>1. PICK x \in Entries : /\ x[3] = tree[r].file /\ Goal(x) = p
                               /\ \A y \in Entries : Goal(y) = Goal(x) => y = x \/ Earlier(x, y)
      BY <1>1, <1>4 DEF TreeInv
    <2> DEFINE o == <<x[1], x[3]>>
    <2>2. o \in Claims /\ EntryOf(o) = x /\ Claim(o[1], o[2]) = p /\ o[2] = tree[r].file
      BY <2>1, EntriesAreClaims DEF Goal
    <2> HIDE DEF o
    <2>3. ASSUME NEW c \in Claims, Claim(c[1], c[2]) = p PROVE o = c \/ Before(o, c)
      <3>1. EntryOf(c) = x \/ Earlier(x, EntryOf(c))
        BY <2>1, <2>3, ClaimsAreEntries
      <3>2. CASE EntryOf(c) = x
        BY <2>2, <3>2, ClaimsAreEntries
      <3>3. CASE Earlier(x, EntryOf(c))
        BY <2>2, <3>3, BeforeIsEarlier
      <3> QED BY <3>1, <3>2, <3>3
    <2>4. o \in Owner(p)
      BY <2>2, <2>3 DEF Owner
    <2>5. ASSUME NEW c \in Owner(p) PROVE c = o
      <3>1. c \in Claims /\ Claim(c[1], c[2]) = p /\ (c = o \/ Before(c, o))
        BY <2>2, <2>5 DEF Owner
      <3>2. EntryOf(c) \in Triple /\ EntryOf(o) \in Triple
        BY <1>2, <2>2, <3>1, ClaimsAreEntries
      <3>3. ~(Before(o, c) /\ Before(c, o))
        BY <2>2, <3>1, <3>2, BeforeIsEarlier, EarlierOrder
      <3> QED BY <2>3, <3>1, <3>3
    <2>6. Owner(p) = {o}
      BY <2>4, <2>5
    <2> QED BY <1>4, <2>2, <2>6
  <1> QED BY <1>3, <1>4

LEMMA PlanIsSound == PlanInv => TreeSound
  <1> SUFFICES ASSUME PlanInv, "treeBuilt" \in meta PROVE TreeSound
    BY DEF TreeSound
  <1>1. TreeInv /\ WalkInv
    BY DEF PlanInv
  <1>2. \A r, q \in Rows : tree[r].path = tree[q].path => r = q
    BY <1>1 DEF TreeInv
  <1>3. (\A x \in Entries : Filed(x) /\ Linked(x)) /\ \A r \in Rows : ~tree[r].dir => HasParent(r)
    BY <1>1 DEF WalkInv
  <1>4. ASSUME NEW c \in Claims
        PROVE  \E r \in Rows :
                 /\ tree[r].path = Claim(c[1], c[2])
                 /\ tree[r].file # c[2] => <<c[2], r>> \in conflicts
                 /\ c[1] # 0 => <<r, c[1]>> \in refOut
    <2> DEFINE x == EntryOf(c)
    <2>1. /\ x \in Entries /\ Goal(x) = Claim(c[1], c[2]) /\ x[1] = c[1] /\ x[3] = c[2]
          /\ Filed(x) /\ Linked(x)
      BY <1>3, ClaimsAreEntries
    <2> HIDE DEF x
    <2>2. PICK r \in Rows : tree[r].path = Goal(x) /\ (tree[r].file # x[3] => <<x[3], r>> \in conflicts)
      BY <2>1 DEF Filed
    <2>3. c[1] # 0 => <<r, c[1]>> \in refOut
      BY <1>2, <2>1, <2>2 DEF Linked
    <2> QED BY <2>1, <2>2, <2>3
  <1>5. \A r \in Rows : {c[2] : c \in Owner(tree[r].path)} = {tree[r].file} \ {0}
    BY RowsHaveOwners
  <1>6. \A r \in Rows : tree[r].file = 0 => Bears(r)
    BY <1>1 DEF TreeInv
  <1>7. ASSUME NEW r \in Rows, tree[r].path = Here PROVE tree[r].file # 0
    <2>1. SUFFICES ASSUME tree[r].file = 0 PROVE FALSE
      OBVIOUS
    <2>2. PICK q \in Rows : ~tree[q].dir /\ Here = Parent[tree[q].path]
      BY <1>6, <1>7, <2>1 DEF Bears
    <2> QED BY <1>1, <2>2, PlainBelowRoot DEF PlanInv
  <1>8. ASSUME NEW r \in Rows, NEW q \in Rows, Place(tree[r].path) = Place(tree[q].path), r # q
        PROVE  \E x \in {r, q} : tree[x].path = Here /\ tree[x].file # 0
    <2>1. tree[r].path = Here \/ tree[q].path = Here
      BY <1>2, <1>8 DEF Place
    <2> QED BY <1>7, <2>1
  <1>9. ASSUME NEW r \in Rows, tree[r].path = Up
        PROVE  \E q \in Rows : tree[q].path = Here /\ ~tree[q].dir
    <2>1. tree[r].file = 0
      BY <1>1, <1>9, OwnedBelowRoot DEF PlanInv
    <2>2. PICK q \in Rows : ~tree[q].dir /\ Up = Parent[tree[q].path]
      BY <1>6, <1>9, <2>1 DEF Bears
    <2>3. tree[q].path \in Paths \ {Root, Up}
      BY <1>1, <2>2, PlainBelowRoot DEF PlanInv
    <2> QED BY <2>2, <2>3, OutTreeAssumption
  <1> QED BY <1>2, <1>3, <1>4, <1>5, <1>6, <1>8, <1>9 DEF TreeSound, HasParent, Bears

\* A path has one row, that of its first claimant, the others are recorded as
\* conflicts, no parent and no source of a row is missing, no scaffold is
\* without a row that needs it, and only a member mapped to the root gives that
\* directory a second row: for all catalogues and page sizes, wherever insert_out_tree_rows, ref_out and
\* ensure_parent were interrupted.
THEOREM TreeIsSound == Spec => []TreeSound
  BY PlanInvariance, PlanIsSound, PTL

-----------------------------------------------------------------------------
(* The election of the canonicals.                                          *)

\* A row that joins another has its inode, and that other one is elected.
Joined ==
    \A r \in Rows : tree[r].canon \notin {0, r} =>
        /\ tree[tree[r].canon].canon = tree[r].canon
        /\ FileRow(tree[r].canon)
        /\ cat.inode[tree[r].file] # NoInode
        /\ cat.inode[tree[tree[r].canon].file] = cat.inode[tree[r].file]

\* What a statement of the election leaves decided.
Ran(x) ==
    /\ x[2] = 3 => \A r \in Rows : FileRow(r) /\ FromSource(r, x[1]) => tree[r].canon # 0
    /\ x[2] = 4 => \A r \in Rows : ~tree[r].dir => tree[r].canon # 0
AllElected ==
    \A r \in Rows :
        FileRow(r) /\ (On("absolute") => cat.grouping # "Source") => tree[r].canon # 0

\* The first row of the content stored under an inode, when it is a name of
\* that inode itself, and the names that go with it.
Firstling(r) ==
    /\ FileRow(r) /\ cat.inode[tree[r].file] # NoInode /\ Payload(r) = tree[r].file
    /\ \A x \in Rows : FileRow(x) /\ Payload(x) # 0
          /\ cat.inode[Payload(x)] = cat.inode[Payload(r)] => r <= x
NamesOf(r) ==
    {q \in Rows : /\ FileRow(q) /\ cat.inode[tree[q].file] = cat.inode[tree[r].file]
                  /\ Payload(q) \in {0, Payload(r)}}

\* The election in one go: nothing is decided, then a first row leads itself
\* and nobody else leads its names, then they have joined it.
Untouched == \A r \in Rows : tree[r].canon = 0
Primed ==
    \A r \in Rows : Firstling(r) =>
        /\ tree[r].canon = r
        /\ \A w \in Rows :
              tree[w].canon = w /\ FileRow(w) /\ cat.twin[tree[w].file] = tree[w].file
              /\ cat.inode[tree[w].file] = cat.inode[tree[r].file] => w = r
        /\ \A q \in NamesOf(r) : q # r => tree[q].canon = 0
Together == \A r \in Rows : Firstling(r) => \A q \in NamesOf(r) : tree[q].canon = r

InOneGo == restarts = 0 /\ cat.grouping = "Global" /\ ~On("linkTree")
Untried ==
    \/ pc \in Inserting \cup {"rename"}
    \/ pc = "enter" /\ phase = "PlacementPrologue"
    \/ pc = "elect" /\ cursor = Start
Over == pc = "finish" \/ "prologueDone" \in meta

ElectInv ==
    /\ restarts \in Nat
    /\ Joined
    /\ pc = "built" => cursor = Start
    /\ pc = "elect" => \A x \in Statements : x \notin Ahead(Statements) => Ran(x)
    /\ ~On("linkTree") /\ Over => AllElected
    /\ InOneGo /\ Untried => Untouched
    /\ InOneGo /\ pc = "elect" => cursor \in {Start} \cup Statements
    /\ InOneGo /\ pc = "elect" /\ cursor = <<0, 1, 0>> => Primed
    /\ InOneGo /\ (Over \/ (pc = "elect" /\ cursor \in {<<0, 2, 0>>, <<0, 3, 0>>})) => Together

LEMMA StatementsTyped ==
    ASSUME TypeInv
    PROVE  /\ Statements \in SUBSET Triple
           /\ \A x \in Statements : x[1] \in Sources \cup {0} /\ x[2] \in 1..4 /\ x[3] = 0
           /\ \A x \in Statements : Earlier(Start, x)
           /\ InOneGo => Statements = {0} \X (1..3) \X {0}
  <1>1. cat \in Catalogues /\ cat.grouping \in {"None", "Global", "Source"}
    BY CatalogueTyped DEF TypeInv, Catalogue
  <1>2. Sources \subseteq Nat
    BY OutTreeAssumption
  <1>3. \A x \in Statements : /\ x \in (Sources \cup {0}) \X (1..4) \X {0}
                              /\ x[1] \in Sources \cup {0} /\ x[2] \in 1..4 /\ x[3] = 0
    BY <1>1 DEF Statements
  <1>4. Statements \in SUBSET Triple
    <2>1. (Sources \cup {0}) \X (1..4) \X {0} \subseteq Triple
      <3>1. 1..4 \subseteq Nat /\ Sources \cup {0} \subseteq Nat /\ {0} \subseteq Nat
        BY <1>2
      <3> QED BY <3>1 DEF Triple
    <2> QED BY <1>3, <2>1
  <1>5. \A x \in Statements : Earlier(Start, x)
    <2> TAKE x \in Statements
    <2>1. x[1] \in Sources \cup {0} /\ x[2] \in 1..4 /\ x[3] = 0
      BY <1>3, Zenon
    <2>2. x[1] \in Nat
      <3>1. \A s \in Sources \cup {0} : s \in Nat
        BY <1>2
      <3> QED BY <2>1, <3>1, Zenon
    <2> QED BY <2>1, <2>2 DEF Earlier, Start
  <1>6. InOneGo => Statements = {0} \X (1..3) \X {0}
    BY DEF InOneGo, Statements
  <1> QED BY <1>3, <1>4, <1>5, <1>6

\* What is decided stands while rows only change their flags.
LEMMA ElectionStands ==
    ASSUME TypeInv, SameRows, SameLeaders, cat' = cat
    PROVE  /\ Joined => Joined'
           /\ AllElected => AllElected'
           /\ Untouched => Untouched'
           /\ Primed => Primed'
           /\ Together => Together'
           /\ refOut' = refOut => \A x : Ran(x) => Ran(x)'
  <1>1. /\ Rows' = Rows
        /\ \A r \in Rows : /\ tree'[r].file = tree[r].file /\ tree'[r].dir = tree[r].dir
                           /\ tree'[r].canon = tree[r].canon
                           /\ tree[r].canon \in {0} \cup Rows
    BY DEF TypeInv, SameRows, SameLeaders
  <1>2. \A r \in Rows : FileRow(r)' = FileRow(r)
    BY <1>1 DEF FileRow
  <1>3. \A r \in Rows : Payload(r)' = Payload(r)
    BY <1>1 DEF Payload
  <1>4. \A r \in Rows : Firstling(r)' = Firstling(r) /\ NamesOf(r)' = NamesOf(r)
    BY <1>1, <1>2, <1>3 DEF Firstling, NamesOf
  <1>5. \A r \in Rows : NamesOf(r) \subseteq Rows
    BY DEF NamesOf
  <1>6. Joined => Joined'
    BY <1>1, <1>2 DEF Joined
  <1>7. AllElected => AllElected'
    BY <1>1, <1>2 DEF AllElected, On
  <1>8. Untouched => Untouched'
    BY <1>1 DEF Untouched
  <1>9. Primed => Primed'
    BY <1>1, <1>2, <1>4, <1>5 DEF Primed
  <1>10. Together => Together'
    BY <1>1, <1>4, <1>5 DEF Together
  <1>11. refOut' = refOut => \A x : Ran(x) => Ran(x)'
    BY <1>1, <1>2 DEF Ran, FromSource
  <1> QED BY <1>6, <1>7, <1>8, <1>9, <1>10, <1>11

\* A row that is added is undecided and joined by none.
LEMMA RowsAdded ==
    ASSUME TypeInv, cat' = cat, Rows \subseteq Rows', \A r \in Rows : tree'[r] = tree[r],
           \A r \in Rows' : r \notin Rows => tree'[r].canon = 0
    PROVE  (Joined => Joined') /\ (Untouched => Untouched')
  <1>1. \A r \in Rows : tree[r].canon \in {0} \cup Rows
    BY DEF TypeInv
  <1>2. \A r \in Rows : FileRow(r)' = FileRow(r)
    BY DEF FileRow
  <1> QED BY <1>1, <1>2 DEF Joined, Untouched

\* One statement.
LEMMA StatementJoins ==
    ASSUME TypeInv, NEW x \in Statements, tree' = Run(x), cat' = cat, Joined
    PROVE  Joined'
  <1>1. /\ SameRows /\ tree \in Seq(Shape) /\ Rows \subseteq Nat \ {0}
        /\ \A r \in Rows : /\ tree[r] \in Shape /\ tree[r].canon \in {0} \cup Rows
                           /\ tree[r].canon # 0 => tree'[r].canon = tree[r].canon
    BY RunKeeps, RowsFinite DEF TypeInv
  <1>2. \A r \in Rows : FileRow(r)' = FileRow(r)
    BY <1>1 DEF SameRows, FileRow
  <1>3. ASSUME NEW r \in Rows, NEW w \in Rows, tree[w].canon = w, FileRow(w),
               tree'[r].canon = w,
               cat.inode[tree[r].file] # NoInode,
               cat.inode[tree[w].file] = cat.inode[tree[r].file]
        PROVE  /\ tree'[tree'[r].canon].canon = tree'[r].canon
               /\ FileRow(tree[r].canon)'
               /\ cat'.inode[tree'[r].file] # NoInode
               /\ cat'.inode[tree'[tree'[r].canon].file] = cat'.inode[tree'[r].file]
    <2>1. tree'[w].canon = w
      BY <1>1, <1>3
    <2> QED BY <1>1, <1>2, <1>3, <2>1 DEF SameRows
  <1>4. ASSUME NEW r \in Rows, tree'[r].canon \notin {0, r}
        PROVE  /\ tree'[tree'[r].canon].canon = tree'[r].canon
               /\ FileRow(tree[r].canon)'
               /\ cat'.inode[tree'[r].file] # NoInode
               /\ cat'.inode[tree'[tree'[r].canon].file] = cat'.inode[tree'[r].file]
    <2>1. CASE tree'[r] = tree[r]
      <3>1. tree[r].canon \in Rows
        BY <1>1, <1>4, <2>1
      <3> QED BY <1>3, <1>4, <2>1, <3>1 DEF Joined
    <2>2. CASE tree'[r] = LedBy(tree[r], r)
      <3>1. tree'[r].canon = r
        BY <1>1, <2>2, LedByShape
      <3> QED BY <1>4, <3>1
    <2>3. CASE Leaders(r) # {} /\ tree'[r] = LedBy(tree[r], FirstLeader(r))
      <3>1. FirstLeader(r) \in Leaders(r)
        BY <1>1, <2>3, FirstLeads
      <3>2. FirstLeader(r) \in Rows /\ FirstLeader(r) \in Nat
        BY <1>1, <3>1 DEF Leaders
      <3>3. tree'[r].canon = FirstLeader(r)
        <4>1. tree[r] \in Shape
          BY <1>1
        <4> QED BY <2>3, <3>2, <4>1, LedByShape
      <3> QED BY <1>3, <3>1, <3>2, <3>3 DEF Leaders
    <2> QED BY <2>1, <2>2, <2>3, RunElects
  <1> QED BY <1>1, <1>4 DEF Joined, SameRows

LEMMA StatementDecides ==
    ASSUME TypeInv, NEW x \in Statements, tree' = Run(x), cat' = cat, refOut' = refOut
    PROVE  /\ Ran(x)'
           /\ \A y : Ran(y) => Ran(y)'
  <1>1. /\ SameRows /\ tree \in Seq(Shape) /\ Rows \subseteq Nat \ {0} /\ Rows' = Rows
        /\ \A r \in Rows : /\ tree[r] \in Shape
                           /\ tree[r].canon # 0 => tree'[r].canon = tree[r].canon
    BY RunKeeps, RowsFinite DEF TypeInv, SameRows
  <1>2. \A r \in Rows : /\ FileRow(r)' = FileRow(r) /\ tree'[r].dir = tree[r].dir
                        /\ \A s : FromSource(r, s)' = FromSource(r, s)
    BY <1>1 DEF SameRows, FileRow, FromSource
  <1>3. \A r \in Rows : LedBy(tree[r], r).canon # 0
    BY <1>1, LedByShape
  <1>4. ASSUME x[2] = 3, NEW r \in Rows, FileRow(r), FromSource(r, x[1]) PROVE tree'[r].canon # 0
    <2>1. tree' = ElectRest(x[1])
      BY <1>4 DEF Run
    <2>2. tree'[r] = IF Undecided(r) THEN LedBy(tree[r], r) ELSE tree[r]
      BY <1>4, <2>1 DEF ElectRest
    <2> QED BY <1>3, <2>2 DEF Undecided
  <1>5. ASSUME x[2] = 4, NEW r \in Rows, ~tree[r].dir PROVE tree'[r].canon # 0
    <2>1. tree' = MarkAll
      BY <1>5 DEF Run
    <2>2. tree'[r] = IF Undecided(r) THEN LedBy(tree[r], r) ELSE tree[r]
      BY <1>5, <2>1 DEF MarkAll
    <2> QED BY <1>3, <2>2 DEF Undecided
  <1>6. Ran(x)'
    BY <1>1, <1>2, <1>4, <1>5 DEF Ran
  <1>7. ASSUME NEW y, Ran(y) PROVE Ran(y)'
    BY <1>1, <1>2, <1>7 DEF Ran
  <1> QED BY <1>6, <1>7

\* The file whose inode groups a row, if there is one.
LEMMA Grouped ==
    ASSUME TypeInv, NEW q \in Rows
    PROVE  /\ \A c \in DedupCanonical(q) :
                 /\ FileRow(q) /\ c = Payload(q) /\ c \in Files /\ c # 0
                 /\ cat.twin[c] = c /\ cat.inode[c] # NoInode
           /\ \A c \in Files : FileRow(q) /\ c = Payload(q) /\ cat.twin[c] = c /\ cat.inode[c] # NoInode
                 => DedupCanonical(q) = {c}
  <1>1. \A c \in Files : c # 0
    BY OutTreeAssumption
  <1> QED BY <1>1 DEF DedupCanonical, Payload

\* The first statement of an election in one go elects the first row of a
\* content, and only it.
LEMMA FirstElected ==
    ASSUME TypeInv, Untouched, NEW x \in Statements, x[1] = 0, x[2] = 1, tree' = Run(x), cat' = cat
    PROVE  Primed'
  <1> DEFINE group(r) == {cat.inode[c] : c \in DedupCanonical(r)}
             able == {r \in Rows : group(r) # {}}
             first(r) == r \in able /\ \A q \in able : group(q) = group(r) => r <= q
  <1>1. tree' = [r \in Rows |-> IF first(r) THEN LedBy(tree[r], r) ELSE tree[r]]
    <2>1. tree' = Elect(0)
      BY DEF Run
    <2>2. \A r \in Rows : Undecided(r) /\ FromSource(r, 0)
      BY DEF Untouched, Undecided, FromSource
    <2>3. {r \in Rows : Undecided(r) /\ FromSource(r, 0) /\ group(r) # {}} = able
      BY <2>2
    <2> HIDE DEF group
    <2>4. Elect(0) = [r \in Rows |-> IF r \in {s \in able : \A q \in able : group(q) = group(s) => s <= q}
                                     THEN LedBy(tree[r], r) ELSE tree[r]]
      BY <2>3 DEF Elect, group
    <2> QED BY <2>1, <2>4
  <1> HIDE DEF group, able
  <1>2. /\ tree \in Seq(Shape) /\ SameRows /\ Rows \subseteq Nat \ {0} /\ \A r \in Rows : tree[r] \in Shape
    BY RunKeeps, RowsFinite DEF TypeInv
  <1>3. \A r \in Rows : tree'[r].canon = IF first(r) THEN r ELSE 0
    <2> TAKE r \in Rows
    <2>1. tree[r] \in Shape /\ r \in Nat /\ tree[r].canon = 0
      BY <1>2 DEF Untouched
    <2>2. LedBy(tree[r], r).canon = r
      BY <2>1, LedByShape
    <2> QED BY <1>1, <2>1, <2>2
  <1>4. /\ \A r \in Rows : FileRow(r)' = FileRow(r) /\ Payload(r)' = Payload(r) /\ tree'[r].file = tree[r].file
        /\ Rows' = Rows
    BY <1>2 DEF SameRows, FileRow, Payload
  <1>5. \A r \in Rows : Firstling(r)' = Firstling(r) /\ NamesOf(r)' = NamesOf(r)
    BY <1>4 DEF Firstling, NamesOf
  <1>6. \A r \in Rows : FileRow(r) => tree[r].file \in Files
    BY <1>2 DEF FileRow, Shape
  <1>7. \A c \in Files, r \in Rows :
          FileRow(r) /\ c = Payload(r) /\ cat.twin[c] = c /\ cat.inode[c] # NoInode
              => r \in able /\ group(r) = {cat.inode[c]}
    BY Grouped DEF group, able
  <1>8. \A r \in able : /\ r \in Rows /\ FileRow(r) /\ Payload(r) # 0 /\ group(r) = {cat.inode[Payload(r)]}
    BY Grouped DEF group, able
  <1>9. ASSUME NEW r \in Rows, Firstling(r)
        PROVE  /\ tree'[r].canon = r
               /\ \A w \in Rows :
                     tree'[w].canon = w /\ FileRow(w) /\ cat.twin[tree[w].file] = tree[w].file
                     /\ cat.inode[tree[w].file] = cat.inode[tree[r].file] => w = r
               /\ \A q \in NamesOf(r) : q # r => tree'[q].canon = 0
    <2> DEFINE f == tree[r].file
    <2>1. /\ FileRow(r) /\ f \in Files /\ Payload(r) = f /\ cat.twin[f] = f /\ cat.inode[f] # NoInode
          /\ r \in able /\ group(r) = {cat.inode[f]}
      BY <1>6, <1>7, <1>9 DEF Firstling, Payload
    <2>2. ASSUME NEW q \in able, group(q) = group(r) PROVE r <= q
      <3>1. FileRow(q) /\ Payload(q) # 0 /\ cat.inode[Payload(q)] = cat.inode[Payload(r)] /\ q \in Rows
        BY <1>8, <2>1, <2>2
      <3> QED BY <1>9, <3>1 DEF Firstling
    <2>3. first(r)
      BY <2>1, <2>2
    <2>4. ASSUME NEW w \in Rows, first(w), group(w) = group(r) PROVE w = r
      <3>1. w \in able /\ w <= r /\ r <= w
        BY <2>1, <2>2, <2>4
      <3> QED BY <1>2, <3>1
    <2>5. ASSUME NEW w \in Rows, tree'[w].canon = w, FileRow(w), cat.twin[tree[w].file] = tree[w].file,
                 cat.inode[tree[w].file] = cat.inode[f]
          PROVE  w = r
      <3>1. first(w)
        BY <1>2, <1>3, <2>5
      <3>2. group(w) = group(r)
        <4>1. tree[w].file \in Files /\ Payload(w) = tree[w].file
          BY <1>6, <2>5 DEF Payload
        <4> QED BY <1>7, <2>1, <2>5, <4>1
      <3> QED BY <2>4, <3>1, <3>2
    <2>6. ASSUME NEW q \in NamesOf(r), q # r PROVE tree'[q].canon = 0
      <3>1. q \in Rows /\ FileRow(q) /\ Payload(q) \in {0, f}
        BY <2>1, <2>6 DEF NamesOf
      <3>2. ~first(q)
        <4>1. CASE Payload(q) = 0
          BY <1>8, <4>1
        <4>2. CASE Payload(q) = f
          <5>1. group(q) = group(r)
            BY <1>7, <2>1, <3>1, <4>2
          <5> QED BY <2>4, <2>6, <3>1, <5>1
        <4> QED BY <3>1, <4>1, <4>2
      <3> QED BY <1>3, <3>1, <3>2
    <2> QED BY <1>3, <2>3, <2>5, <2>6
  <1> QED BY <1>4, <1>5, <1>9 DEF Primed

\* The second one lets its names join it.
LEMMA NamesJoin ==
    ASSUME TypeInv, Primed, NEW x \in Statements, x[1] = 0, x[2] = 2, tree' = Run(x), cat' = cat
    PROVE  Together'
  <1>1. tree' = Join(0)
    BY DEF Run
  <1>2. /\ tree \in Seq(Shape) /\ SameRows /\ Rows \subseteq Nat \ {0} /\ \A r \in Rows : tree[r] \in Shape
        /\ \A r \in Rows : tree[r].canon # 0 => tree'[r].canon = tree[r].canon
    BY RunKeeps, RowsFinite DEF TypeInv
  <1>4. /\ \A r \in Rows : FileRow(r)' = FileRow(r) /\ Payload(r)' = Payload(r) /\ tree'[r].file = tree[r].file
        /\ Rows' = Rows
    BY <1>2 DEF SameRows, FileRow, Payload
  <1>5. \A r \in Rows : Firstling(r)' = Firstling(r) /\ NamesOf(r)' = NamesOf(r)
    BY <1>4 DEF Firstling, NamesOf
  <1>6. ASSUME NEW r \in Rows, Firstling(r), NEW q \in NamesOf(r) PROVE tree'[q].canon = r
    <2>1. tree[r].canon = r /\ r # 0
      BY <1>2, <1>6 DEF Primed
    <2>2. CASE q = r
      BY <1>2, <2>1, <2>2
    <2>3. CASE q # r
      <3>1. /\ q \in Rows /\ tree[q].canon = 0 /\ tree[q].file # 0
            /\ cat.inode[tree[q].file] = cat.inode[tree[r].file]
        BY <1>6, <2>3 DEF Primed, NamesOf, FileRow
      <3>2. r \in Leaders(q)
        BY <1>6, <2>1, <3>1 DEF Leaders, Firstling, Payload
      <3>3. \A w \in Leaders(q) : w = r
        BY <1>6, <3>1 DEF Primed, Leaders
      <3>4. FirstLeader(q) = r
        <4>1. FirstLeader(q) \in Leaders(q)
          BY <1>2, <3>1, <3>2, FirstLeads
        <4> QED BY <3>3, <4>1
      <3>5. tree'[q] = LedBy(tree[q], r)
        <4>1. Undecided(q) /\ FromSource(q, 0)
          BY <3>1 DEF Undecided, FromSource
        <4>2. Join(0)[q] = LedBy(tree[q], FirstLeader(q))
          BY <3>1, <3>2, <4>1, JoinRows
        <4> QED BY <1>1, <3>4, <4>2
      <3>6. tree[q] \in Shape /\ r \in Nat
        BY <1>2, <3>1
      <3> QED BY <3>5, <3>6, LedByShape
    <2> QED BY <2>2, <2>3
  <1> QED BY <1>4, <1>5, <1>6 DEF Together

\* What has joined stays.
LEMMA NamesStay ==
    ASSUME TypeInv, Together, NEW x \in Statements, tree' = Run(x), cat' = cat
    PROVE  Together'
  <1>2. /\ tree \in Seq(Shape) /\ SameRows /\ Rows \subseteq Nat \ {0}
        /\ \A r \in Rows : tree[r].canon # 0 => tree'[r].canon = tree[r].canon
    BY RunKeeps, RowsFinite DEF TypeInv
  <1>4. /\ \A r \in Rows : FileRow(r)' = FileRow(r) /\ Payload(r)' = Payload(r) /\ tree'[r].file = tree[r].file
        /\ Rows' = Rows
    BY <1>2 DEF SameRows, FileRow, Payload
  <1>5. \A r \in Rows : Firstling(r)' = Firstling(r) /\ NamesOf(r)' = NamesOf(r) /\ NamesOf(r) \subseteq Rows
    BY <1>4 DEF Firstling, NamesOf
  <1>6. ASSUME NEW r \in Rows, Firstling(r), NEW q \in NamesOf(r) PROVE tree'[q].canon = r
    <2>1. tree[q].canon = r /\ r # 0 /\ q \in Rows
      BY <1>2, <1>5, <1>6 DEF Together
    <2> QED BY <1>2, <2>1
  <1> QED BY <1>4, <1>5, <1>6 DEF Together

LEMMA InitElect == Init => ElectInv
  <1> SUFFICES ASSUME Init PROVE ElectInv
    OBVIOUS
  <1>1. Rows = {}
    BY DEF Init, Rows
  <1>2. Joined /\ Untouched
    BY <1>1 DEF Joined, Untouched
  <1> QED BY <1>2 DEF Init, ElectInv, Over

\* When all statements have run, every file row is decided.
LEMMA AllRan ==
    ASSUME PlanInv, "treeBuilt" \in meta, ~On("linkTree"), \A x \in Statements : Ran(x)
    PROVE  AllElected
  <1>1. TypeInv /\ TreeInv /\ WalkInv /\ cat \in Catalogues
        /\ cat.grouping \in {"None", "Global", "Source"}
    BY CatalogueTyped DEF PlanInv, TypeInv, Catalogue
  <1> SUFFICES ASSUME NEW r \in Rows, FileRow(r), On("absolute") => cat.grouping # "Source"
               PROVE  tree[r].canon # 0
    BY DEF AllElected
  <1>2. CASE cat.grouping = "None"
    <2>1. <<0, 4, 0>> \in Statements
      BY <1>2 DEF Statements
    <2>2. ~tree[r].dir
      BY <1>1 DEF TreeInv, FileRow
    <2> QED BY <2>1, <2>2 DEF Ran
  <1>3. CASE cat.grouping = "Global"
    <2>1. <<0, 3, 0>> \in Statements
      BY <1>3 DEF Statements
    <2>2. FromSource(r, 0)
      BY DEF FromSource
    <2> QED BY <2>1, <2>2 DEF Ran
  <1>4. CASE cat.grouping = "Source"
    <2>1. PICK x \in Entries : Goal(x) = tree[r].path
      BY <1>1 DEF TreeInv, FileRow
    <2>2. x[1] \in Sources /\ x[1] # 0
      BY <1>1, <1>4, <2>1, MembersFinite, OutTreeAssumption DEF Srcs
    <2>3. PICK q \in Rows : tree[q].path = Goal(x) /\ <<q, x[1]>> \in refOut
      BY <1>1, <2>2 DEF WalkInv, Linked
    <2>4. q = r
      BY <1>1, <2>1, <2>3 DEF TreeInv
    <2>5. <<x[1], 3, 0>> \in Statements
      BY <1>4, <2>2 DEF Statements
    <2>6. FromSource(r, x[1])
      BY <2>3, <2>4 DEF FromSource
    <2> QED BY <2>5, <2>6 DEF Ran
  <1> QED BY <1>1, <1>2, <1>3, <1>4

LEMMA ElectionOver ==
    ASSUME PlanInv, ElectInv, ElectStep, Ahead(Statements) = {}, UNCHANGED tree, pc' = "finish"
    PROVE  ElectInv'
  <1>1. TypeInv /\ pc = "elect" /\ "treeBuilt" \in meta /\ "prologueDone" \notin meta
        /\ UNCHANGED <<cat, refOut, meta, phase, restarts>>
    BY DEF PlanInv, ElectStep, PhaseInv, Building
  <1>2. SameRows /\ SameLeaders
    BY DEF SameRows, SameLeaders, Rows
  <1>3. ~On("linkTree") => AllElected
    BY <1>1, AllRan DEF ElectInv
  <1>4. ASSUME InOneGo PROVE Together
    <2>1. Statements = {0} \X (1..3) \X {0} /\ cursor \in {Start} \cup Statements
      BY <1>1, <1>4, StatementsTyped DEF ElectInv
    <2>2. <<0, 3, 0>> \in Statements
      BY <2>1
    <2>3. ~Earlier(cursor, <<0, 3, 0>>)
      BY <2>2 DEF Ahead
    <2>4. cursor = <<0, 3, 0>>
      <3>1. cursor = Start \/ cursor \in {<<0, 1, 0>>, <<0, 2, 0>>, <<0, 3, 0>>}
        BY <2>1
      <3>2. Earlier(Start, <<0, 3, 0>>) /\ Earlier(<<0, 1, 0>>, <<0, 3, 0>>) /\ Earlier(<<0, 2, 0>>, <<0, 3, 0>>)
        BY DEF Earlier, Start
      <3> QED BY <2>3, <3>1, <3>2
    <2> QED BY <1>1, <1>4, <2>4 DEF ElectInv
  <1>5. (On("linkTree")' = On("linkTree")) /\ (InOneGo' = InOneGo) /\ ~Untried' /\ Over'
    BY <1>1 DEF On, InOneGo, Untried, Inserting, Over
  <1>6. Joined' /\ (~On("linkTree") => AllElected') /\ (InOneGo => Together')
    BY <1>1, <1>2, <1>3, <1>4, ElectionStands DEF ElectInv
  <1> QED BY <1>1, <1>5, <1>6 DEF ElectInv

LEMMA ElectionGoesOn ==
    ASSUME PlanInv, ElectInv, ElectStep, NEW x \in Statements, Comes(Statements, x),
           tree' = Run(x), cursor' = x, pc' = pc
    PROVE  ElectInv'
  <1>1. TypeInv /\ pc = "elect" /\ "treeBuilt" \in meta /\ "prologueDone" \notin meta
        /\ UNCHANGED <<cat, refOut, meta, phase, restarts>> /\ cursor \in Triple
    BY DEF PlanInv, ElectStep, PhaseInv, Building, TypeInv
  <1>2. Statements \in SUBSET Triple /\ Statements' = Statements
        /\ x[1] \in Sources \cup {0} /\ x[2] \in 1..4 /\ x[3] = 0
    BY <1>1, StatementsTyped DEF Statements, On
  <1>3. /\ x \in Ahead(Statements)
        /\ {y \in Statements : Earlier(cursor', y)} = Ahead(Statements) \ {x}
    BY <1>1, <1>2, EntryStep
  <1>4. Ahead(Statements)' = Ahead(Statements) \ {x}
    BY <1>2, <1>3 DEF Ahead
  <1>5. \A y \in Statements' : y \notin Ahead(Statements)' => Ran(y)'
    BY <1>1, <1>2, <1>4, StatementDecides DEF ElectInv
  <1>6. Joined'
    BY <1>1, StatementJoins DEF ElectInv
  <1>7. /\ InOneGo' = InOneGo /\ cursor' # Start /\ ~Over'
        /\ ~Untried'
    <2>1. x # Start
      BY <1>2 DEF Start
    <2> QED BY <1>1, <2>1 DEF InOneGo, On, Untried, Inserting, Over
  <1>8. ASSUME InOneGo
        PROVE  /\ cursor' \in Statements'
               /\ cursor' = <<0, 1, 0>> => Primed'
               /\ cursor' \in {<<0, 2, 0>>, <<0, 3, 0>>} => Together'
    <2>1. Statements = {0} \X (1..3) \X {0} /\ cursor \in {Start} \cup Statements
      BY <1>1, <1>8, StatementsTyped DEF ElectInv
    <2>2. Earlier(cursor, x) /\ \A y \in Statements : Earlier(cursor, y) => y = x \/ Earlier(x, y)
      BY <1>3 DEF Comes, Ahead, UpTo
    <2>3. /\ x \in {<<0, 1, 0>>, <<0, 2, 0>>, <<0, 3, 0>>}
          /\ cursor \in {Start, <<0, 1, 0>>, <<0, 2, 0>>, <<0, 3, 0>>}
          /\ {<<0, 1, 0>>, <<0, 2, 0>>, <<0, 3, 0>>} \subseteq Statements
      BY <2>1
    <2>4. \/ cursor = Start /\ x = <<0, 1, 0>>
          \/ cursor = <<0, 1, 0>> /\ x = <<0, 2, 0>>
          \/ cursor = <<0, 2, 0>> /\ x = <<0, 3, 0>>
      BY <2>2, <2>3 DEF Earlier, Start
    <2>5. CASE cursor = Start /\ x = <<0, 1, 0>>
      <3>1. Untouched
        BY <1>1, <1>8, <2>5 DEF ElectInv, Untried
      <3>2. Primed'
        BY <1>1, <2>5, <3>1, FirstElected
      <3> QED BY <1>2, <2>5, <3>2
    <2>6. CASE cursor = <<0, 1, 0>> /\ x = <<0, 2, 0>>
      <3>1. Primed
        BY <1>1, <1>8, <2>6 DEF ElectInv
      <3>2. Together'
        BY <1>1, <2>6, <3>1, NamesJoin
      <3> QED BY <1>2, <2>6, <3>2
    <2>7. CASE cursor = <<0, 2, 0>> /\ x = <<0, 3, 0>>
      <3>1. Together
        BY <1>1, <1>8, <2>7 DEF ElectInv
      <3>2. Together'
        BY <1>1, <3>1, NamesStay
      <3> QED BY <1>2, <2>7, <3>2
    <2> QED BY <2>4, <2>5, <2>6, <2>7
  <1> QED BY <1>1, <1>5, <1>6, <1>7, <1>8 DEF ElectInv

\* Steps that add rows, before the election.
LEMMA ElectAppended ==
    ASSUME PlanInv, ElectInv, InsertBatch \/ EnsureParents
    PROVE  ElectInv'
  <1>1. /\ TypeInv /\ TreeInv /\ WalkInv /\ pc \in Inserting /\ pc' \in Inserting
        /\ "prologueDone" \notin meta
        /\ UNCHANGED <<cat, meta, phase, restarts>>
        /\ pc' = "built" => cursor' = Start
    BY DEF PlanInv, InsertBatch, EnsureParents, PhaseInv, Building, Inserting
  <1>2. /\ Rows \subseteq Rows' /\ \A r \in Rows : tree'[r] = tree[r]
        /\ \A r \in Rows' : r \notin Rows => tree'[r].canon = 0
    <2>1. CASE UNCHANGED tree
      BY <2>1 DEF Rows
    <2>2. CASE InsertBatch /\ ~UNCHANGED tree
      <3>1. Members(On("renames")) = Entries
        BY <1>1, <2>2, MembersAreEntries DEF WalkInv, InsertBatch, Inserting
      <3>2. Page(Entries) # {}
        BY <2>2, <3>1 DEF InsertBatch
      <3>3. \A y \in Fresh(Page(Entries)) : NewRow(Goal(y), y[3]).canon = 0
        BY DEF NewRow
      <3> QED BY <1>1, <2>2, <3>2, <3>3, Inserted
    <2>3. CASE EnsureParents /\ ~UNCHANGED tree
      <3>1. Page(Plain) # {}
        BY <2>3 DEF EnsureParents
      <3>2. \A p \in Missing : NewRow(p, 0).canon = 0
        BY DEF NewRow
      <3> QED BY <1>1, <2>3, <3>1, <3>2, Scaffolded
    <2> QED BY <2>1, <2>2, <2>3
  <1>3. Joined' /\ (Untouched => Untouched')
    BY <1>1, <1>2, RowsAdded DEF ElectInv
  <1>4. InOneGo' = InOneGo /\ Untried /\ ~Over' /\ pc' \notin {"elect", "finish"}
    BY <1>1 DEF InOneGo, On, Untried, Over, Inserting
  <1> QED BY <1>1, <1>3, <1>4 DEF ElectInv

\* Steps that leave the election alone.
LEMMA ElectKept ==
    ASSUME PlanInv, ElectInv, SameRows, SameLeaders, cat' = cat, restarts' \in Nat,
           Over' => Over,
           InOneGo' => InOneGo,
           InOneGo' /\ Untried' => Untried,
           pc' = "built" => cursor' = Start,
           pc' = "elect" => cursor' = Start \/ UNCHANGED <<pc, cursor, refOut>>
    PROVE  ElectInv'
  <1>1. TypeInv
    BY DEF PlanInv
  <1>2. /\ Joined' /\ (AllElected => AllElected') /\ (Untouched => Untouched')
        /\ (Primed => Primed') /\ (Together => Together')
        /\ refOut' = refOut => \A x : Ran(x) => Ran(x)'
    BY <1>1, ElectionStands DEF ElectInv
  <1>3. Statements' = Statements /\ On("linkTree")' = On("linkTree")
    BY DEF Statements, On
  <1>4. ASSUME pc' = "elect"
        PROVE  /\ \A x \in Statements' : x \notin Ahead(Statements)' => Ran(x)'
               /\ InOneGo' => cursor' \in {Start} \cup Statements'
               /\ InOneGo' /\ cursor' = <<0, 1, 0>> => Primed'
               /\ InOneGo' /\ cursor' \in {<<0, 2, 0>>, <<0, 3, 0>>} => Together'
    <2>1. CASE cursor' = Start
      <3>1. \A x \in Statements' : x \in Ahead(Statements)'
        BY <1>1, <1>3, <2>1, StatementsTyped DEF Ahead
      <3>2. cursor' \notin {<<0, 1, 0>>, <<0, 2, 0>>, <<0, 3, 0>>}
        BY <2>1 DEF Start
      <3> QED BY <2>1, <3>1, <3>2
    <2>2. CASE UNCHANGED <<pc, cursor, refOut>>
      <3>1. Ahead(Statements)' = Ahead(Statements)
        BY <1>3, <2>2 DEF Ahead
      <3> QED BY <1>2, <1>3, <1>4, <2>2, <3>1 DEF ElectInv
    <2> QED BY <1>4, <2>1, <2>2
  <1>5. ~On("linkTree")' /\ Over' => AllElected'
    BY <1>2, <1>3 DEF ElectInv
  <1>6. InOneGo' /\ Untried' => Untouched'
    BY <1>2 DEF ElectInv
  <1>7. InOneGo' /\ Over' => Together'
    BY <1>2 DEF ElectInv
  <1> QED BY <1>2, <1>4, <1>5, <1>6, <1>7 DEF ElectInv

LEMMA PrologueElects ==
    ASSUME PlanInv, ElectInv,
           EnterPhase \/ Rename \/ InsertRef \/ SetTreeBuilt \/ FinishPrologue \/ VerifyPrologue
    PROVE  ElectInv'
  <1>1. UNCHANGED <<cat, tree, restarts>>
    BY DEF EnterPhase, Rename, InsertRef, SetTreeBuilt, FinishPrologue, VerifyPrologue, planned
  <1>2. SameRows /\ SameLeaders
    BY <1>1 DEF SameRows, SameLeaders, Rows
  <1>3. PhaseInv /\ restarts' \in Nat /\ InOneGo' = InOneGo
    BY <1>1 DEF PlanInv, ElectInv, InOneGo, On
  <1>4. /\ Over' => Over
        /\ Untried' => Untried
        /\ pc' = "built" => cursor' = Start
        /\ pc' = "elect" => cursor' = Start
    <2> USE <1>3 DEF Over, Untried, Inserting, PhaseInv, Building
    <2>1. CASE EnterPhase
      BY <2>1 DEF EnterPhase
    <2>2. CASE Rename
      BY <2>2 DEF Rename
    <2>3. CASE InsertRef
      BY <2>3 DEF InsertRef
    <2>4. CASE SetTreeBuilt
      BY <2>4 DEF SetTreeBuilt, ElectInv, walk
    <2>5. CASE FinishPrologue
      BY <2>5 DEF FinishPrologue
    <2>6. CASE VerifyPrologue
      BY <2>6 DEF VerifyPrologue
    <2> QED BY <2>1, <2>2, <2>3, <2>4, <2>5, <2>6
  <1> QED BY <1>1, <1>2, <1>3, <1>4, ElectKept

LEMMA PlacingElects ==
    ASSUME PlanInv, ElectInv, PlaceStep \/ LinkStep \/ Worker
    PROVE  ElectInv'
  <1>1. TypeInv /\ PhaseInv
    BY DEF PlanInv
  <1>2. /\ UNCHANGED <<cat, refOut>> /\ (tree' = tree \/ Ingest \/ IngestLinks)
    BY <1>1, OthersKeepTables
  <1>3. SameRows /\ SameLeaders
    <2>1. CASE tree' = tree
      BY <2>1 DEF SameRows, SameLeaders, Rows
    <2> QED BY <1>1, <1>2, <2>1, FlagsKeepRows
  <1>4. /\ restarts' = restarts
        /\ pc' \notin Inserting \cup {"rename", "elect", "finish"}
        /\ pc' = "enter" => phase' # "PlacementPrologue"
        /\ ("prologueDone" \in meta') = ("prologueDone" \in meta)
    <2> USE <1>1 DEF PhaseInv, Building, PlacePcs, PlainPasses, Inserting, planned
    <2>1. CASE CleanTarget \/ BuildDirs \/ OpenPass \/ Feed \/ EndPass \/ Sweep \/ ApplyFlags
               \/ Promote \/ VerifyPlace
      BY <2>1 DEF CleanTarget, BuildDirs, OpenPass, Feed, EndPass, Sweep, ApplyFlags, Promote,
                  VerifyPlace, Passes, Pooled, AfterDirs
    <2>2. CASE Ingest
      BY <2>2 DEF Ingest, Passes
    <2>3. CASE LinkStep
      BY <2>3 DEF LinkStep, OpenMove, IngestMove, EndMove, OpenLink, LinkOne, IngestLinks
    <2>4. CASE Worker
      BY <2>4 DEF Worker, WorkerBegin, WorkerFinish, DropWork, BeginMove, FinishMove, Passes, Pooled
    <2> QED BY <2>1, <2>2, <2>3, <2>4 DEF PlaceStep
  <1>5. /\ Over' => Over
        /\ InOneGo' = InOneGo /\ restarts' \in Nat
        /\ ~Untried'
    BY <1>2, <1>4 DEF Over, InOneGo, On, Untried, ElectInv, Inserting
  <1>6. pc' # "elect" /\ pc' # "built"
    BY <1>4 DEF Inserting
  <1> QED BY <1>2, <1>3, <1>5, <1>6, ElectKept

LEMMA ElectInvStep == PlanInv /\ ElectInv /\ [Next]_vars => ElectInv'
  <1> SUFFICES ASSUME PlanInv, ElectInv, [Next]_vars PROVE ElectInv'
    OBVIOUS
  <1>1. CASE ElectStep
    BY <1>1, ElectionOver, ElectionGoesOn DEF ElectStep
  <1>2. CASE Signal \/ Stopped \/ UNCHANGED vars
    <2>1. UNCHANGED <<cat, tree, refOut, meta, phase, pc, cursor, restarts>>
      BY <1>2 DEF Signal, Stopped, vars, planned, walk
    <2>2. SameRows /\ SameLeaders
      BY <2>1 DEF SameRows, SameLeaders, Rows
    <2>3. Over' = Over /\ InOneGo' = InOneGo /\ Untried' = Untried /\ restarts' \in Nat
      BY <2>1 DEF Over, InOneGo, On, Untried, Inserting, ElectInv
    <2>4. pc' = "built" => cursor' = Start
      BY <2>1 DEF ElectInv
    <2> QED BY <2>1, <2>2, <2>3, <2>4, ElectKept
  <1>3. CASE Restart
    <2>1. UNCHANGED <<cat, tree, refOut, meta>> /\ pc' \in {"enter", "lost"} /\ restarts' = restarts + 1
      BY <1>3 DEF Restart, planned
    <2>2. SameRows /\ SameLeaders
      BY <2>1 DEF SameRows, SameLeaders, Rows
    <2>3. restarts' \in Nat /\ restarts' # 0 /\ (Over' => Over)
      BY <2>1 DEF ElectInv, Over
    <2>4. ~InOneGo'
      BY <2>3 DEF InOneGo
    <2> QED BY <2>1, <2>2, <2>3, <2>4, ElectKept
  <1> QED BY <1>1, <1>2, <1>3, ElectAppended, PrologueElects, PlacingElects
          DEF Next, Driver, PrologueStep

\* The statements of the election, each committed alone, between crashes: a
\* row joins only an elected row of its inode, what a statement had to decide
\* stays decided, and the first names of an inode lead the others.
THEOREM ElectInvariance == Spec => [](PlanInv /\ ElectInv)
  <1>1. Init => PlanInv /\ ElectInv
    BY InitPlan, InitElect
  <1>2. (PlanInv /\ ElectInv) /\ [Next]_vars => (PlanInv /\ ElectInv)'
    BY PlanStep, ElectInvStep
  <1> QED BY <1>1, <1>2, PTL DEF Spec

LEMMA ElectionIsSound == PlanInv /\ ElectInv => LinksSound
  <1> SUFFICES ASSUME PlanInv, ElectInv, "prologueDone" \in meta, ~On("linkTree") PROVE LinksSound
    BY DEF LinksSound
  <1>1. Joined /\ AllElected /\ (InOneGo => Together)
    BY DEF ElectInv, Over
  <1>2. ASSUME NEW r \in Rows, NEW q \in Rows,
               restarts = 0, cat.grouping = "Global", FileRow(r), FileRow(q),
               cat.inode[tree[r].file] = cat.inode[tree[q].file],
               cat.inode[tree[r].file] # NoInode,
               Payload(r) = tree[r].file,
               \A x \in Rows : FileRow(x) /\ Payload(x) # 0
                    /\ cat.inode[Payload(x)] = cat.inode[Payload(r)] => r <= x,
               Payload(q) \in {0, Payload(r)}
        PROVE  tree[r].canon = r /\ tree[q].canon = r
    <2>1. Together /\ Firstling(r)
      BY <1>1, <1>2 DEF InOneGo, Firstling
    <2>2. q \in NamesOf(r) /\ r \in NamesOf(r)
      BY <1>2 DEF NamesOf
    <2> QED BY <2>1, <2>2 DEF Together
  <1> QED BY <1>1, <1>2 DEF LinksSound, Joined, AllElected

\* A link target is elected itself and has the inode of what joins it, every
\* file row is decided once the prologue is done, and without a crash the names
\* of an inode come together: for all catalogues, groupings and interruptions.
THEOREM LinksAreSound == Spec => []LinksSound
  BY ElectInvariance, ElectionIsSound, PTL

-----------------------------------------------------------------------------
(* The payloads.                                                            *)

\* Outside the case that the property leaves out.
Unwiped == ~On("linkTree") /\ ~(On("clean") /\ restarts > 0)

Marked(r) == "Placed" \in tree[r].flags
Whole(r) == [kind |-> "payload", of |-> Payload(r), by |-> r]
LinkKind == {"link", "dangling"}
DirsDone == "dirsBuilt" \in meta \/ On("noCreateDir")
InPool == pc \in Passes /\ at = 2
Ids(jobs) == {o.id : o \in jobs}

\* The rows a pass may have at hand.
PassRows ==
    CASE pc = "files" -> {r \in Rows : FileRow(r) /\ tree[r].canon = r}
      [] pc = "hardlinks" -> HardlinkRows
      [] pc = "others" -> OtherRows

\* A row is in one place of the pool; no job in hand is marked yet.
OneHand ==
    /\ todo \cup work \cup Ids(busy) \cup Ids(out) \subseteq PassRows
    /\ todo \cap work = {} /\ (todo \cup work) \cap Ids(busy) = {}
    /\ (todo \cup work \cup Ids(busy)) \cap Ids(out) = {}
    /\ \A i, j \in busy : i.id = j.id => i = j
    /\ \A o \in busy : o.flags \cap {"Placed", "Interrupted"} = {}
    /\ pc # "files" => \A o \in out : "Interrupted" \notin o.flags
    /\ pc = "files" => \A r \in todo \cup work \cup Ids(busy) : ~Marked(r)

\* What a marked row has on disk: an elected one its payload, a joined one,
\* once its pass has come to it, what is at the path of the row it joined.
Stands(r) ==
    tree[r].canon = r /\ ~Through(r) => disk[tree[r].path] = Whole(r)
Follows(r) == disk[tree[r].path] = disk[tree[tree[r].canon].path]
Passed(r) ==
    \/ phase = "Permissions"
    \/ pc \in {"others", "flags", "sweep2", "promote"}
    \/ pc = "verify" /\ phase = "Place"
    \/ /\ pc = "hardlinks" /\ at = 2 /\ shutdown = "running"
       /\ r \notin todo \cup work \cup Ids(busy) \cup Ids(out)

DiskInv ==
    /\ disk \in [Paths -> Node]
    /\ \A p \in Paths : disk[p].kind \in LinkKind =>
          \/ cat.before[p].kind \in LinkKind
          \/ \E q \in Rows : tree[q].path = p /\ tree[q].canon # q
    /\ phase = "PlacementPrologue" =>
          disk = cat.before /\ \A r \in Rows : ~Marked(r)
    /\ restarts = 0 /\ (pc \in {"clean", "dirs"} \/ (pc = "enter" /\ phase = "Place")) =>
          \A r \in Rows : ~Marked(r)
    /\ pc \in PlainPasses \/ (\E r \in Rows : Marked(r)) => DirsDone

PoolInv ==
    /\ pc = "sweep" => at = 1
    /\ pc \notin Settled /\ ~InPool => todo = {} /\ work = {} /\ busy = {} /\ out = {}
    /\ InPool => OneHand

RowMarks ==
    \A r \in Rows : FileRow(r) /\ Marked(r) =>
        /\ tree[r].canon # 0
        /\ Stands(r)
        /\ tree[r].canon # r /\ Passed(r) => Follows(r)
JobMarks ==
    InPool => \A o \in out : "Placed" \in o.flags =>
        /\ pc = "files" => Stands(o.id)
        /\ pc = "hardlinks" => Follows(o.id)

PayloadInv == Unwiped => DiskInv /\ PoolInv /\ RowMarks /\ JobMarks

\* What the invariants say of a row once the prologue is over.
LEMMA RowFacts ==
    ASSUME PlanInv, ElectInv
    PROVE  /\ cat \in Catalogues /\ tree \in Seq(Shape) /\ Rows \subseteq Nat \ {0}
           /\ \A r \in Rows : /\ tree[r] \in Shape /\ tree[r].path \in Paths
                              /\ tree[r].canon \in {0} \cup Rows
                              /\ FileRow(r) => tree[r].file \in Files /\ Payload(r) \in Files \cup {0}
           /\ \A r, q \in Rows : tree[r].path = tree[q].path => r = q
           /\ \A r \in Rows : tree[r].canon \notin {0, r} =>
                 tree[r].canon \in Rows /\ tree[tree[r].canon].canon = tree[r].canon
  <1>1. /\ cat \in Catalogues /\ tree \in Seq(Shape) /\ Rows \subseteq Nat \ {0}
        /\ \A r \in Rows : tree[r] \in Shape /\ tree[r].canon \in {0} \cup Rows
    BY RowsFinite DEF PlanInv, TypeInv
  <1>2. \A r \in Rows : tree[r].path \in Paths /\ tree[r].file \in Files \cup {0}
    BY <1>1 DEF Shape
  <1>3. \A r \in Rows : FileRow(r) => tree[r].file \in Files /\ Payload(r) \in Files \cup {0}
    BY <1>1, <1>2, CatalogueTyped DEF FileRow, Payload
  <1>4. \A r, q \in Rows : tree[r].path = tree[q].path => r = q
    BY DEF PlanInv, TreeInv
  <1>5. \A r \in Rows : tree[r].canon \notin {0, r} =>
                 tree[r].canon \in Rows /\ tree[tree[r].canon].canon = tree[r].canon
    BY <1>1 DEF ElectInv, Joined
  <1> QED BY <1>1, <1>2, <1>3, <1>4, <1>5

LEMMA NodesTyped ==
    /\ \A k \in NodeKind : Bare(k) \in Node /\ Bare(k).kind = k
    /\ \A k \in NodeKind, f \in Files \cup {0}, r \in Nat : [kind |-> k, of |-> f, by |-> r] \in Node
    /\ {"none", "dir", "old", "link", "dangling", "half", "payload", "special"} \subseteq NodeKind
  BY DEF Bare, Node, NodeKind

LEMMA InitPayload == Init => PayloadInv
  <1> SUFFICES ASSUME Init PROVE PayloadInv
    OBVIOUS
  <1>1. Rows = {} /\ cat \in Catalogues
    BY DEF Init, Rows
  <1>2. disk \in [Paths -> Node]
    BY <1>1, CatalogueTyped DEF Init
  <1>3. DiskInv
    BY <1>1, <1>2 DEF Init, DiskInv, PlainPasses
  <1>4. PoolInv
    BY DEF Init, PoolInv, InPool, Passes
  <1>5. RowMarks /\ JobMarks
    BY <1>1 DEF Init, RowMarks, JobMarks, InPool, Passes
  <1> QED BY <1>3, <1>4, <1>5 DEF PayloadInv

\* Steps that leave the rows and the target alone.
LEMMA DiskRests ==
    ASSUME DiskInv, UNCHANGED <<cat, tree, disk>>, meta \subseteq meta',
           phase' = "PlacementPrologue" => phase = "PlacementPrologue",
           pc' \in PlainPasses => DirsDone',
           restarts' = 0 /\ (pc' \in {"clean", "dirs"} \/ (pc' = "enter" /\ phase' = "Place")) =>
               \A r \in Rows : ~Marked(r)
    PROVE  DiskInv'
  <1>1. Rows' = Rows /\ \A r \in Rows : Marked(r)' = Marked(r)
    BY DEF Rows, Marked
  <1>2. DirsDone => DirsDone'
    BY DEF DirsDone, On
  <1> QED BY <1>1, <1>2 DEF DiskInv

LEMMA MarksRest ==
    ASSUME RowMarks, UNCHANGED <<cat, tree, disk>>,
           \A r \in Rows : FileRow(r) /\ Marked(r) /\ tree[r].canon \notin {0, r} /\ Passed(r)'
               => Passed(r)
    PROVE  RowMarks'
  <1>1. Rows' = Rows
    BY DEF Rows
  <1>2. \A r \in Rows : /\ Marked(r)' = Marked(r) /\ FileRow(r)' = FileRow(r)
                        /\ Stands(r)' = Stands(r) /\ Follows(r)' = Follows(r)
    BY DEF Marked, FileRow, Stands, Follows, Through, Whole, Payload
  <1> QED BY <1>1, <1>2 DEF RowMarks

LEMMA UnwipedBefore ==
    ASSUME ElectInv, cat' = cat, restarts' = restarts \/ restarts' = restarts + 1
    PROVE  Unwiped' => Unwiped
  BY DEF ElectInv, Unwiped, On

\* Outside the pool there is nothing of a job.
LEMMA PoolRests ==
    ASSUME todo' = {}, work' = {}, busy' = {}, out' = {}, ~InPool', pc' = "sweep" => at' = 1
    PROVE  PoolInv' /\ JobMarks'
  BY DEF PoolInv, JobMarks

\* One job goes from the channel to a worker or, refused, to the results.
LEMMA JobTaken ==
    ASSUME OneHand, NEW r \in work, NEW o, o.id = r, o.flags \cap {"Interrupted"} = {},
           UNCHANGED <<cat, tree, pc, todo>>, work' = work \ {r},
           \/ busy' = busy \cup {o} /\ out' = out /\ "Placed" \notin o.flags
           \/ out' = out \cup {o} /\ busy' = busy
    PROVE  /\ OneHand'
           /\ (todo \cup work \cup Ids(busy) \cup Ids(out))' =
                  todo \cup work \cup Ids(busy) \cup Ids(out)
  <1>1. PassRows' = PassRows /\ \A q : Marked(q)' = Marked(q)
    BY DEF PassRows, Marked, HardlinkRows, OtherRows, FileRow, Rows
  <1>2. r \notin todo /\ r \notin Ids(busy) /\ r \notin Ids(out) /\ r \in PassRows
        /\ (pc = "files" => ~Marked(r))
    BY DEF OneHand
  <1>3. CASE busy' = busy \cup {o} /\ out' = out /\ "Placed" \notin o.flags
    <2>1. Ids(busy') = Ids(busy) \cup {r}
      BY <1>3 DEF Ids
    <2>2. \A i \in busy : i.id # r
      BY <1>2 DEF Ids
    <2>3. \A i, j \in busy' : i.id = j.id => i = j
      BY <1>3, <2>2 DEF OneHand
    <2>4. \A i \in busy' : i.flags \cap {"Placed", "Interrupted"} = {}
      BY <1>3 DEF OneHand
    <2>5. Ids(busy)' = Ids(busy) \cup {r} /\ Ids(out)' = Ids(out)
      BY <1>3, <2>1 DEF Ids
    <2> QED BY <1>1, <1>2, <1>3, <2>3, <2>4, <2>5 DEF OneHand
  <1>4. CASE out' = out \cup {o} /\ busy' = busy
    <2>1. Ids(busy)' = Ids(busy) /\ Ids(out)' = Ids(out) \cup {r}
      BY <1>4 DEF Ids
    <2>2. pc # "files" => \A i \in out' : "Interrupted" \notin i.flags
      BY <1>4 DEF OneHand
    <2> QED BY <1>1, <1>2, <1>4, <2>1, <2>2 DEF OneHand
  <1> QED BY <1>3, <1>4

\* A worker hands a job back.
LEMMA JobDone ==
    ASSUME OneHand, NEW job \in busy, NEW o, o.id = job.id,
           pc # "files" => "Interrupted" \notin o.flags,
           UNCHANGED <<cat, tree, pc, todo, work>>, busy' = busy \ {job}, out' = out \cup {o}
    PROVE  /\ OneHand'
           /\ (todo \cup work \cup Ids(busy) \cup Ids(out))' =
                  todo \cup work \cup Ids(busy) \cup Ids(out)
  <1>1. PassRows' = PassRows /\ \A q : Marked(q)' = Marked(q)
    BY DEF PassRows, Marked, HardlinkRows, OtherRows, FileRow, Rows
  <1>2. job.id \in Ids(busy) /\ job.id \notin Ids(out) /\ job.id \notin todo \cup work
        /\ job.id \in PassRows
    BY DEF OneHand, Ids
  <1>3. Ids(busy)' = Ids(busy) \ {job.id}
    <2>1. \A i \in busy : i.id = job.id => i = job
      BY DEF OneHand
    <2> QED BY <2>1 DEF Ids
  <1>4. Ids(out)' = Ids(out) \cup {job.id}
    BY DEF Ids
  <1>5. /\ \A i, j \in busy' : i.id = j.id => i = j
        /\ \A i \in busy' : i.flags \cap {"Placed", "Interrupted"} = {}
        /\ pc # "files" => \A i \in out' : "Interrupted" \notin i.flags
    BY DEF OneHand
  <1>6. (todo \cup work \cup Ids(busy) \cup Ids(out))' = todo \cup work \cup Ids(busy) \cup Ids(out)
    BY <1>2, <1>3, <1>4
  <1>7. /\ (todo \cup work) \cap Ids(busy)' = {}
        /\ (todo \cup work \cup Ids(busy)') \cap Ids(out)' = {}
    BY <1>2, <1>3, <1>4 DEF OneHand
  <1>8. pc = "files" => \A q \in todo \cup work \cup Ids(busy)' : ~Marked(q)'
    BY <1>1, <1>3 DEF OneHand
  <1> QED BY <1>1, <1>5, <1>6, <1>7, <1>8 DEF OneHand

\* Where the rows of the passes are.
LEMMA PassFacts ==
    ASSUME PlanInv, ElectInv, pc \in Passes
    PROVE  /\ phase = "Place" /\ PassRows \subseteq Rows
           /\ \A r \in PassRows : /\ pc = "files" => FileRow(r) /\ tree[r].canon = r
                                  /\ pc = "hardlinks" => FileRow(r) /\ tree[r].canon \notin {0, r}
                                  /\ pc = "others" => ~FileRow(r) /\ tree[r].canon = 0
                                  /\ tree[r].file # 0
           /\ pc # "files" => \A r \in PassRows : tree[r].canon # r
  <1>1. phase = "Place"
    BY DEF PlanInv, PhaseInv, PlacePcs, PlainPasses, Passes
  <1>2. PassRows \subseteq Rows
        /\ \A r \in PassRows : /\ pc = "files" => FileRow(r) /\ tree[r].canon = r
                               /\ pc = "hardlinks" => FileRow(r) /\ tree[r].canon \notin {0, r}
                               /\ pc = "others" => ~FileRow(r) /\ tree[r].canon = 0
                               /\ tree[r].file # 0
    <2>1. CASE pc = "files"
      BY <2>1 DEF PassRows, FileRow
    <2>2. CASE pc = "hardlinks"
      BY <2>2 DEF PassRows, HardlinkRows, FileRow
    <2>3. CASE pc = "others"
      BY <2>3 DEF PassRows, OtherRows, FileRow
    <2> QED BY <2>1, <2>2, <2>3 DEF Passes
  <1>3. \A r \in Rows : r # 0
    BY RowFacts
  <1> QED BY <1>1, <1>2, <1>3 DEF Passes

\* A write at the path of the row at hand disturbs no other row.
LEMMA OneWritten ==
    ASSUME PlanInv, ElectInv, DiskInv, RowMarks, JobMarks, OneHand, InPool,
           UNCHANGED <<cat, tree, meta, phase, restarts, pc, at, shutdown>>,
           NEW r \in work \cup Ids(busy), NEW node \in Node,
           disk' = [disk EXCEPT ![tree[r].path] = node],
           node.kind \in LinkKind => disk[tree[r].path].kind \in LinkKind \/ pc # "files",
           (todo \cup work \cup Ids(busy) \cup Ids(out))' =
               todo \cup work \cup Ids(busy) \cup Ids(out),
           \A o \in out' : \/ o \in out
                           \/ /\ o.id = r
                              /\ "Placed" \in o.flags =>
                                    /\ pc = "files" => Stands(r)'
                                    /\ pc = "hardlinks" => Follows(r)'
    PROVE  DiskInv' /\ RowMarks' /\ JobMarks'
  <1> DEFINE p == tree[r].path
  <1>0. pc \in Passes /\ at = 2 /\ InPool'
    BY DEF InPool
  <1>1. /\ r \in PassRows /\ PassRows \subseteq Rows /\ phase = "Place" /\ r \in Rows
        /\ pc # "files" => tree[r].canon # r
        /\ pc = "files" => FileRow(r) /\ tree[r].canon = r
        /\ pc = "hardlinks" => tree[r].canon \notin {0, r}
        /\ pc = "others" => ~FileRow(r) /\ tree[r].canon = 0
    BY <1>0, PassFacts DEF OneHand
  <1>2. /\ p \in Paths /\ disk \in [Paths -> Node]
        /\ \A q \in Rows : tree[q].path \in Paths
        /\ \A q, s \in Rows : tree[q].path = tree[s].path => q = s
        /\ \A q \in Rows : tree[q].canon \notin {0, q} =>
              tree[q].canon \in Rows /\ tree[tree[q].canon].canon = tree[q].canon
    BY <1>1, RowFacts DEF DiskInv
  <1>3. /\ disk' \in [Paths -> Node] /\ disk'[p] = node
        /\ \A q \in Rows : q # r => disk'[tree[q].path] = disk[tree[q].path]
        /\ \A q \in Paths : q # p => disk'[q] = disk[q]
    BY <1>1, <1>2
  <1>4. Rows' = Rows /\ On("noCreateDir")' = On("noCreateDir")
        /\ \A q \in Rows : Marked(q)' = Marked(q) /\ FileRow(q)' = FileRow(q)
                           /\ Through(q)' = Through(q) /\ Whole(q)' = Whole(q)
    BY DEF Rows, Marked, FileRow, Through, Whole, Payload, On
  <1> HIDE DEF p
  <1>5. DiskInv'
    <2>1. \A q \in Paths : disk'[q].kind \in LinkKind =>
             \/ cat.before[q].kind \in LinkKind
             \/ \E s \in Rows : tree[s].path = q /\ tree[s].canon # s
      <3> SUFFICES ASSUME NEW q \in Paths, disk'[q].kind \in LinkKind
                   PROVE  \/ disk[q].kind \in LinkKind
                          \/ \E s \in Rows : tree[s].path = q /\ tree[s].canon # s
        BY DEF DiskInv
      <3>1. CASE q # p
        BY <1>3, <3>1
      <3>2. CASE q = p
        <4>1. CASE disk[p].kind \in LinkKind
          BY <3>2, <4>1
        <4>2. CASE pc # "files"
          BY <1>1, <3>2, <4>2 DEF p
        <4> QED BY <1>3, <3>2, <4>1, <4>2 DEF p
      <3> QED BY <3>1, <3>2
    <2>2. DirsDone /\ DirsDone'
      BY <1>0, <1>4 DEF DiskInv, DirsDone, Passes, PlainPasses
    <2>3. pc \notin {"clean", "dirs", "enter"}
      BY <1>0 DEF Passes
    <2> QED BY <1>1, <1>3, <1>4, <2>1, <2>2, <2>3 DEF DiskInv
  \* What other rows have is untouched.
  <1>6. ASSUME NEW q \in Rows, q # r, Stands(q) PROVE Stands(q)'
    BY <1>3, <1>4, <1>6 DEF Stands
  <1>7. ASSUME NEW q \in Rows, q # r, tree[q].canon # 0, tree[q].canon # q, pc # "files", Follows(q)
        PROVE  Follows(q)'
    <2>1. tree[q].canon \in Rows /\ tree[q].canon # r
      BY <1>1, <1>2, <1>7
    <2> QED BY <1>3, <1>7, <2>1 DEF Follows
  <1>8. RowMarks'
    <2> SUFFICES ASSUME NEW q \in Rows, FileRow(q), Marked(q)
                 PROVE  /\ tree[q].canon # 0
                        /\ Stands(q)'
                        /\ tree[q].canon # q /\ Passed(q)' => Follows(q)'
      BY <1>4 DEF RowMarks
    <2>1. tree[q].canon # 0 /\ Stands(q) /\ (tree[q].canon # q /\ Passed(q) => Follows(q))
      BY DEF RowMarks
    <2>2. Stands(q)'
      <3>1. CASE q = r
        <4>1. pc # "files"
          BY <3>1 DEF OneHand
        <4> QED BY <1>1, <3>1, <4>1 DEF Stands
      <3> QED BY <1>6, <2>1, <3>1
    <2>3. ASSUME tree[q].canon # q, Passed(q)' PROVE Follows(q)'
      <3>1. pc # "files" /\ Passed(q)
        BY <1>0, <1>1, <2>3 DEF Passed, Passes
      <3>2. q # r
        <4>1. CASE pc = "hardlinks"
          BY <1>1, <3>1, <4>1 DEF Passed
        <4>2. CASE pc = "others"
          BY <1>1, <4>2
        <4> QED BY <1>0, <3>1, <4>1, <4>2 DEF Passes
      <3> QED BY <1>7, <2>1, <2>3, <3>1, <3>2
    <2> QED BY <2>1, <2>2, <2>3
  <1>9. JobMarks'
    <2> SUFFICES ASSUME NEW o \in out', "Placed" \in o.flags
                 PROVE  /\ pc = "files" => Stands(o.id)'
                        /\ pc = "hardlinks" => Follows(o.id)'
      BY DEF JobMarks
    <2>1. CASE o \in out
      <3>1. o.id \in PassRows /\ o.id # r
        BY <2>1 DEF OneHand, Ids
      <3>2. CASE pc = "files"
        BY <1>1, <1>6, <2>1, <3>1, <3>2 DEF JobMarks
      <3>3. CASE pc = "hardlinks"
        <4>1. tree[o.id].canon \notin {0, o.id}
          BY <1>0, <3>1, <3>3, PassFacts
        <4>2. Follows(o.id)
          BY <2>1, <3>3 DEF JobMarks
        <4> QED BY <1>1, <1>7, <3>1, <3>3, <4>1, <4>2
      <3> QED BY <3>2, <3>3
    <2> QED BY <2>1
  <1> QED BY <1>5, <1>8, <1>9

-----------------------------------------------------------------------------
(* What the workers write.                                                  *)

\* The node that a write to a row's path leaves there.
Leaves(r, node) ==
    /\ node \in Node
    /\ disk' = [disk EXCEPT ![tree[r].path] = node]
    /\ node.kind \in LinkKind => disk[tree[r].path].kind \in LinkKind \/ pc # "files"

LEMMA LeftAlone ==
    ASSUME disk \in [Paths -> Node], NEW r, tree[r].path \in Paths, disk' = disk
    PROVE  Leaves(r, disk[tree[r].path])
  BY DEF Leaves

LEMMA BeginCopyWrites ==
    ASSUME PlanInv, ElectInv, DiskInv, pc = "files", NEW r \in PassRows, BeginCopy(r)
    PROVE  \E node, o :
              /\ Leaves(r, node) /\ o.id = r /\ "Interrupted" \notin o.flags
              /\ \/ busy' = busy \cup {o} /\ out' = out /\ "Placed" \notin o.flags
                 \/ /\ out' = out \cup {o} /\ busy' = busy
                    /\ "Placed" \in o.flags => node = Whole(r)
  <1> DEFINE p == tree[r].path
             c == Payload(r)
             check == CheckPath(CacheNode(c), c, cat.kind[c])
             left == IF check.unlink THEN cache \ {c} ELSE cache
  <1>1. r \in Rows /\ r \in Nat /\ p \in Paths /\ c \in Files \cup {0} /\ disk \in [Paths -> Node]
    <2>1. r \in Rows /\ FileRow(r)
      BY PassFacts DEF Passes
    <2> QED BY <2>1, RowFacts DEF DiskInv
  <1>2. check.trace \subseteq {"Conflict", "Removed", "Error"} /\ check.go \in BOOLEAN
    BY CheckTraces
  <1>3. \A flags : Outcome(r, flags).id = r /\ Outcome(r, flags).flags = flags
    BY DEF Outcome
  <1>4. disk[p] \in Node
    BY <1>1
  <1>5. CASE ~check.go
    <2>1. out' = out \cup {Outcome(r, check.trace \cup {"RefLink"})} /\ disk' = disk /\ busy' = busy
      BY <1>5 DEF BeginCopy
    <2>2. Leaves(r, disk[p])
      BY <1>1, <2>1, LeftAlone
    <2> HIDE DEF check
    <2> QED BY <1>2, <1>3, <2>1, <2>2
  <1>6. CASE check.go /\ (c \notin left \/ ~Reachable(p) \/ disk[p].kind = "dir")
    <2> DEFINE node == IF Reachable(p) THEN Unlinked(disk[p]) ELSE disk[p]
    <2>1. /\ out' = out \cup {Outcome(r, check.trace \cup {"RefLink", "Error"})} /\ busy' = busy
          /\ disk' = [disk EXCEPT ![p] = node]
      BY <1>6 DEF BeginCopy
    <2>2. node \in Node /\ (node.kind \in LinkKind => disk[p].kind \in LinkKind)
      BY <1>4, NodesTyped DEF Unlinked, LinkKind
    <2>3. Leaves(r, node)
      BY <2>1, <2>2 DEF Leaves
    <2> HIDE DEF check, node
    <2> QED BY <1>2, <1>3, <2>1, <2>3
  <1>7. CASE /\ check.go /\ ~(c \notin left \/ ~Reachable(p) \/ disk[p].kind = "dir")
             /\ On("reflinks") /\ disk[p].kind = "none"
    <2>1. /\ out' = out \cup {Outcome(r, check.trace \cup {"RefLink", "Placed"})} /\ busy' = busy
          /\ disk' = [disk EXCEPT ![p] = Whole(r)]
      BY <1>7 DEF BeginCopy, Whole
    <2>2. Whole(r) \in Node /\ Whole(r).kind \notin LinkKind
      BY <1>1, NodesTyped DEF Whole, LinkKind
    <2>3. Leaves(r, Whole(r))
      BY <2>1, <2>2 DEF Leaves
    <2> HIDE DEF check
    <2> QED BY <1>2, <1>3, <2>1, <2>3
  <1>8. CASE /\ check.go /\ ~(c \notin left \/ ~Reachable(p) \/ disk[p].kind = "dir")
             /\ ~(On("reflinks") /\ disk[p].kind = "none")
    <2> DEFINE node == Written(disk[p], [kind |-> "half", of |-> c, by |-> r])
    <2>1. /\ busy' = busy \cup {Outcome(r, check.trace)} /\ out' = out
          /\ disk' = [disk EXCEPT ![p] = node]
      BY <1>8 DEF BeginCopy
    <2>2. node \in Node /\ (node.kind \in LinkKind => disk[p].kind \in LinkKind)
      BY <1>1, <1>4, NodesTyped DEF Written, LinkKind
    <2>3. Leaves(r, node)
      BY <2>1, <2>2 DEF Leaves
    <2> HIDE DEF check, node
    <2> QED BY <1>2, <1>3, <2>1, <2>3
  <1> QED BY <1>5, <1>6, <1>7, <1>8

LEMMA BeginMakeWrites ==
    ASSUME PlanInv, ElectInv, DiskInv, pc \in {"hardlinks", "others"}, NEW r \in PassRows, BeginMake(r)
    PROVE  \E node, o :
              /\ Leaves(r, node) /\ o.id = r /\ o.flags \cap {"Interrupted", "Placed"} = {}
              /\ \/ busy' = busy \cup {o} /\ out' = out
                 \/ out' = out \cup {o} /\ busy' = busy
  <1> DEFINE p == tree[r].path
             check == CheckPath(Found(p), tree[r].file, cat.kind[tree[r].file])
             always == IF pc = "hardlinks" THEN {"IsHardlink"} ELSE {}
             o == Outcome(r, check.trace \cup always)
  <1>1. r \in Rows /\ p \in Paths /\ disk \in [Paths -> Node]
    <2>1. r \in Rows
      BY PassFacts DEF Passes
    <2> QED BY <2>1, RowFacts DEF DiskInv
  <1>2. check.trace \subseteq {"Conflict", "Removed", "Error"}
    BY CheckTraces
  <1>3. o.id = r /\ o.flags \cap {"Interrupted", "Placed"} = {}
    BY <1>2 DEF Outcome
  <1>4. \/ busy' = busy \cup {o} /\ out' = out
        \/ out' = out \cup {o} /\ busy' = busy
    <2>1. check.go \in BOOLEAN
      BY CheckTraces
    <2>2. IF ~check.go
          THEN out' = out \cup {o} /\ UNCHANGED busy
          ELSE busy' = busy \cup {o} /\ UNCHANGED out
      BY Zenon DEF BeginMake
    <2> QED BY <2>1, <2>2
  <1>5. \E node : Leaves(r, node)
    <2>1. disk' = disk \/ disk' = [disk EXCEPT ![p] = Bare("none")]
      BY DEF BeginMake
    <2>2. CASE disk' = disk
      BY <1>1, <2>2, LeftAlone
    <2>3. CASE disk' = [disk EXCEPT ![p] = Bare("none")]
      BY <2>3, NodesTyped DEF Leaves, LinkKind
    <2> QED BY <2>1, <2>2, <2>3
  <1> HIDE DEF o
  <1> QED BY <1>3, <1>4, <1>5

LEMMA FinishCopyWrites ==
    ASSUME PlanInv, ElectInv, DiskInv, pc = "files", NEW job, job.id \in PassRows,
           job.flags \cap {"Placed", "Interrupted"} = {}, FinishCopy(job)
    PROVE  \E node, o :
              /\ Leaves(job.id, node) /\ o.id = job.id /\ out' = out \cup {o}
              /\ "Placed" \in o.flags /\ ~Through(job.id) => node = Whole(job.id)
  <1> DEFINE r == job.id
             p == tree[r].path
  <1>1. /\ r \in Rows /\ r \in Nat /\ p \in Paths /\ Payload(r) \in Files \cup {0}
        /\ disk \in [Paths -> Node] /\ tree[r].canon = r
        /\ \A q \in Rows : tree[q].path = p => q = r
    <2>1. r \in Rows /\ FileRow(r) /\ tree[r].canon = r
      BY PassFacts DEF Passes
    <2> QED BY <2>1, RowFacts DEF DiskInv
  <1>3. \A flags : Outcome(r, flags).id = r /\ Outcome(r, flags).flags = flags
    BY DEF Outcome
  <1>4. disk[p] \in Node
    BY <1>1
  <1>5. CASE /\ out' = out \cup {Outcome(job.id, job.flags \cup {"Placed"})}
             /\ disk' = [disk EXCEPT ![p] = Written(@, [kind |-> "payload", of |-> Payload(job.id), by |-> job.id])]
    <2> DEFINE node == Written(disk[p], Whole(r))
    <2>1. disk' = [disk EXCEPT ![p] = node]
      BY <1>5 DEF Whole
    <2>2. Whole(r) \in Node /\ Whole(r).kind \notin LinkKind
      BY <1>1, NodesTyped DEF Whole, LinkKind
    <2>3. node \in Node /\ (node.kind \in LinkKind => disk[p].kind \in LinkKind)
      BY <1>4, <2>2 DEF Written, LinkKind
    <2>4. ~Through(r) => node = Whole(r)
      <3>1. ~Through(r) => disk[p].kind \notin LinkKind
        BY <1>1 DEF DiskInv, Through, LinkKind
      <3> QED BY <3>1 DEF Written, LinkKind
    <2>5. Leaves(r, node)
      BY <2>1, <2>3 DEF Leaves
    <2> HIDE DEF node
    <2> QED BY <1>3, <1>5, <2>4, <2>5
  <1>6. CASE \E flags : /\ "Placed" \notin flags
                        /\ out' = out \cup {Outcome(job.id, flags)}
                        /\ disk' = [disk EXCEPT ![p] = Unlinked(@)]
    <2> DEFINE node == Unlinked(disk[p])
    <2>1. node \in Node /\ (node.kind \in LinkKind => disk[p].kind \in LinkKind)
      BY <1>4, NodesTyped DEF Unlinked, LinkKind
    <2>2. Leaves(r, node)
      BY <1>6, <2>1 DEF Leaves
    <2> HIDE DEF node
    <2> QED BY <1>3, <1>6, <2>2
  <1> QED BY <1>5, <1>6 DEF FinishCopy

LEMMA FinishMakeWrites ==
    ASSUME PlanInv, ElectInv, DiskInv, tree' = tree, pc \in {"hardlinks", "others"}, NEW job, job.id \in PassRows,
           job.flags \cap {"Placed", "Interrupted"} = {}, FinishMake(job)
    PROVE  \E node, o :
              /\ Leaves(job.id, node) /\ o.id = job.id /\ out' = out \cup {o}
              /\ "Interrupted" \notin o.flags
              /\ "Placed" \in o.flags /\ pc = "hardlinks" => Follows(job.id)'
  <1> DEFINE r == job.id
             p == tree[r].path
             from == tree[tree[r].canon].path
             free == Reachable(p) /\ disk[p].kind = "none"
             able == IF pc = "hardlinks" THEN Found(from).kind \notin {"none", "dir"} ELSE TRUE
             skipped == pc = "others" /\ Skipped(r)
             o == Outcome(r, job.flags \cup IF skipped \/ (free /\ able) THEN {"Placed"} ELSE {"Error"})
  <1>1. /\ r \in Rows /\ r \in Nat /\ p \in Paths /\ disk \in [Paths -> Node]
        /\ tree[r].file \in Files
        /\ pc = "others" => cat.kind[tree[r].file] \in NodeKind
    <2>1. r \in Rows /\ tree[r].file # 0 /\ (pc = "others" => r \in OtherRows)
      BY PassFacts DEF Passes, PassRows
    <2>2. tree[r].file \in Files
      BY <2>1, RowFacts DEF Shape
    <2>3. pc = "others" => cat.kind[tree[r].file] \in {"link", "special"}
      BY <2>1 DEF OtherRows
    <2> QED BY <2>1, <2>2, <2>3, RowFacts, NodesTyped DEF DiskInv
  <1>2. pc = "hardlinks" => from \in Paths /\ from # p
    <2>1. pc = "hardlinks" => tree[r].canon \notin {0, r}
      BY PassFacts DEF Passes
    <2> QED BY <1>1, <2>1, RowFacts
  <1>3. o.id = r /\ "Interrupted" \notin o.flags /\ out' = out \cup {o}
    BY DEF FinishMake, Outcome
  <1>4. CASE free /\ able /\ ~skipped
    <2> DEFINE node == IF pc = "hardlinks" THEN disk[from] ELSE Made(r)
    <2>1. disk' = [disk EXCEPT ![p] = node]
      BY <1>4 DEF FinishMake
    <2>2. node \in Node
      <3>1. CASE pc = "hardlinks"
        BY <1>1, <1>2, <3>1
      <3>2. CASE pc # "hardlinks"
        BY <1>1, <3>2, NodesTyped DEF Made
      <3> QED BY <3>1, <3>2
    <2>3. pc = "hardlinks" => Follows(r)'
      <3> SUFFICES ASSUME pc = "hardlinks" PROVE disk'[p] = disk'[from]
        BY DEF Follows
      <3> QED BY <1>1, <1>2, <2>1
    <2>4. Leaves(r, node)
      BY <2>1, <2>2 DEF Leaves
    <2> HIDE DEF node, o
    <2> QED BY <1>3, <2>3, <2>4
  <1>5. CASE ~(free /\ able /\ ~skipped)
    <2>1. disk' = disk
      BY <1>5 DEF FinishMake
    <2>2. Leaves(r, disk[p])
      BY <1>1, <2>1, LeftAlone
    <2>3. pc = "hardlinks" => "Placed" \notin o.flags
      BY <1>5 DEF Outcome
    <2> HIDE DEF o
    <2> QED BY <1>3, <2>2, <2>3
  <1> QED BY <1>4, <1>5

\* What a step has to show of the invariant, and the worker's steps.
Payloads == DiskInv /\ PoolInv /\ RowMarks /\ JobMarks

LEMMA WorkerBegins ==
    ASSUME PlanInv, ElectInv, Payloads, WorkerBegin
    PROVE  Payloads'
  <1>1. /\ pc \in Passes /\ InPool /\ OneHand /\ InPool' /\ pc' # "sweep"
        /\ UNCHANGED <<cat, tree, meta, phase, restarts, pc, at, shutdown, todo>>
    BY DEF WorkerBegin, InPool, Payloads, PoolInv, Passes, planned
  <1>2. PICK r \in work : /\ work' = work \ {r}
                          /\ IF pc = "files" THEN BeginCopy(r) ELSE BeginMake(r)
    BY DEF WorkerBegin
  <1>3. r \in PassRows /\ r \in Rows
    BY <1>1, <1>2, PassFacts DEF OneHand
  <1>4. PICK node, o :
           /\ Leaves(r, node) /\ o.id = r /\ "Interrupted" \notin o.flags
           /\ \/ busy' = busy \cup {o} /\ out' = out /\ "Placed" \notin o.flags
              \/ /\ out' = out \cup {o} /\ busy' = busy
                 /\ "Placed" \in o.flags => pc = "files" /\ node = Whole(r)
    <2>1. CASE pc = "files"
      BY <1>2, <1>3, <2>1, BeginCopyWrites DEF Payloads
    <2>2. CASE pc # "files"
      BY <1>1, <1>2, <1>3, <2>2, BeginMakeWrites DEF Payloads, Passes
    <2> QED BY <2>1, <2>2
  <1>5. /\ OneHand'
        /\ (todo \cup work \cup Ids(busy) \cup Ids(out))' =
               todo \cup work \cup Ids(busy) \cup Ids(out)
    BY <1>1, <1>2, <1>4, JobTaken
  <1>6. node = Whole(r) => Stands(r)'
    <2>1. disk \in [Paths -> Node] /\ tree[r].path \in Paths /\ Whole(r)' = Whole(r)
      BY <1>1, <1>3, RowFacts DEF Payloads, DiskInv, Whole, Payload
    <2> QED BY <1>1, <1>4, <2>1 DEF Leaves, Stands
  <1>7. \A i \in out' : \/ i \in out
                        \/ /\ i.id = r
                           /\ "Placed" \in i.flags => /\ pc = "files" => Stands(r)'
                                                      /\ pc = "hardlinks" => Follows(r)'
    BY <1>4, <1>6
  <1>8. DiskInv' /\ RowMarks' /\ JobMarks'
    BY <1>1, <1>2, <1>4, <1>5, <1>7, OneWritten DEF Payloads, Leaves
  <1> QED BY <1>1, <1>5, <1>8 DEF Payloads, PoolInv

LEMMA WorkerFinishes ==
    ASSUME PlanInv, ElectInv, Payloads, WorkerFinish
    PROVE  Payloads'
  <1>1. /\ pc \in Passes /\ InPool /\ OneHand /\ InPool' /\ pc' # "sweep"
        /\ UNCHANGED <<cat, tree, meta, phase, restarts, pc, at, shutdown, todo, work>>
    BY DEF WorkerFinish, InPool, Payloads, PoolInv, Passes, planned
  <1>2. PICK job \in busy : /\ busy' = busy \ {job}
                            /\ IF pc = "files" THEN FinishCopy(job) ELSE FinishMake(job)
    BY DEF WorkerFinish
  <1>3. /\ job.id \in PassRows /\ job.id \in Rows /\ job.id \in Ids(busy)
        /\ job.flags \cap {"Placed", "Interrupted"} = {}
    BY <1>1, <1>2, PassFacts DEF OneHand, Ids
  <1>4. PICK node, o :
           /\ Leaves(job.id, node) /\ o.id = job.id /\ out' = out \cup {o}
           /\ pc # "files" => "Interrupted" \notin o.flags
           /\ "Placed" \in o.flags /\ pc = "files" /\ ~Through(job.id) => node = Whole(job.id)
           /\ "Placed" \in o.flags /\ pc = "hardlinks" => Follows(job.id)'
    <2>1. CASE pc = "files"
      BY <1>2, <1>3, <2>1, FinishCopyWrites DEF Payloads
    <2>2. CASE pc # "files"
      BY <1>1, <1>2, <1>3, <2>2, FinishMakeWrites DEF Payloads, Passes
    <2> QED BY <2>1, <2>2
  <1>5. /\ OneHand'
        /\ (todo \cup work \cup Ids(busy) \cup Ids(out))' =
               todo \cup work \cup Ids(busy) \cup Ids(out)
    BY <1>1, <1>2, <1>4, JobDone
  <1>6. (~Through(job.id) => node = Whole(job.id)) => Stands(job.id)'
    <2>1. disk \in [Paths -> Node] /\ tree[job.id].path \in Paths
          /\ Whole(job.id)' = Whole(job.id) /\ Through(job.id)' = Through(job.id)
      BY <1>1, <1>3, RowFacts DEF Payloads, DiskInv, Whole, Payload, Through
    <2> QED BY <1>1, <1>4, <2>1 DEF Leaves, Stands
  <1>7. \A i \in out' : \/ i \in out
                        \/ /\ i.id = job.id
                           /\ "Placed" \in i.flags => /\ pc = "files" => Stands(job.id)'
                                                      /\ pc = "hardlinks" => Follows(job.id)'
    BY <1>4, <1>6
  <1>8. DiskInv' /\ RowMarks' /\ JobMarks'
    BY <1>1, <1>3, <1>4, <1>5, <1>7, OneWritten DEF Payloads, Leaves
  <1> QED BY <1>1, <1>5, <1>8 DEF Payloads, PoolInv

-----------------------------------------------------------------------------
(* The passes.                                                              *)

LEMMA OutcomesApplied ==
    ASSUME PlanInv, ElectInv, Payloads, Ingest
    PROVE  Payloads'
  <1>1. /\ pc \in Passes /\ at = 2 /\ InPool /\ OneHand /\ pc' \in {pc, "failed"} /\ at' = at
        /\ UNCHANGED <<cat, meta, phase, restarts, shutdown, todo, work, busy, disk>>
    BY DEF Ingest, InPool, Payloads, PoolInv, world
  <1>2. SameRows /\ SameLeaders
    BY FlagsKeepRows DEF PlanInv
  <1>3. PICK B \in SUBSET out : out' = out \ B /\ \A r \in Rows : tree'[r].flags = Applied(r, B)
    BY FlagsKeepRows DEF PlanInv
  <1>4. /\ phase = "Place" /\ PassRows \subseteq Rows
        /\ \A r \in PassRows : /\ pc = "files" => FileRow(r) /\ tree[r].canon = r
                               /\ pc = "hardlinks" => FileRow(r) /\ tree[r].canon \notin {0, r}
                               /\ pc = "others" => ~FileRow(r) /\ tree[r].canon = 0
        /\ \A r \in Rows : r # 0
        /\ \A r \in Rows : tree[r].canon \in {0} \cup Rows
    BY <1>1, PassFacts, RowFacts
  <1>5. /\ Rows' = Rows
        /\ \A r \in Rows : /\ FileRow(r)' = FileRow(r) /\ Stands(r)' = Stands(r)
                           /\ tree'[r].canon = tree[r].canon
    <2>1. \A r \in Rows : /\ tree'[r].path = tree[r].path /\ tree'[r].file = tree[r].file
                          /\ tree'[r].canon = tree[r].canon
      BY <1>2 DEF SameRows, SameLeaders
    <2> QED BY <1>1, <1>2, <2>1 DEF SameRows, FileRow, Stands, Through, Whole, Payload
  <1>6. \A r \in Rows : tree[r].canon # 0 => Follows(r)' = Follows(r)
    <2>1. \A r \in Rows : tree'[r].path = tree[r].path
      BY <1>2 DEF SameRows
    <2> QED BY <1>1, <1>4, <1>5, <2>1 DEF Follows
  \* A row that the batch marks, and the others.
  <1>7. ASSUME NEW r \in Rows, Marked(r)'
        PROVE  \/ \E o \in B : o.id = r /\ "Placed" \in o.flags
               \/ Marked(r) /\ (pc # "files" => \A o \in B : o.id # r)
    <2> DEFINE o == CHOOSE x \in B : x.id = r
    <2>1. "Placed" \in Applied(r, B)
      BY <1>3, <1>7 DEF Marked
    <2>2. CASE \E x \in B : x.id = r /\ x.flags # {"Interrupted"}
      <3>1. o \in B /\ o.id = r
        BY <2>2
      <3> HIDE DEF o
      <3>2. Applied(r, B) \subseteq {"Error", "IsHardlink", "RefLink"} \cup o.flags
        BY <2>2 DEF Applied, o
      <3> QED BY <2>1, <3>1, <3>2
    <2>3. CASE ~\E x \in B : x.id = r /\ x.flags # {"Interrupted"}
      <3>1. Marked(r)
        BY <2>1, <2>3 DEF Applied, Marked
      <3>2. pc # "files" => \A x \in B : "Interrupted" \notin x.flags
        BY <1>1 DEF OneHand
      <3> QED BY <2>3, <3>1, <3>2
    <2> QED BY <2>2, <2>3
  <1>8. \A o \in B : o.id \in PassRows /\ o.id \in Ids(out) /\ o \in out
    BY <1>1 DEF OneHand, Ids
  <1>9. DiskInv'
    <2>1. DirsDone /\ DirsDone'
      BY <1>1 DEF Payloads, DiskInv, DirsDone, Passes, PlainPasses, On
    <2>2. pc' \notin {"clean", "dirs", "enter"}
      BY <1>1 DEF Passes
    <2>3. \A r \in Rows : tree'[r].path = tree[r].path
      BY <1>2 DEF SameRows
    <2> QED BY <1>1, <1>4, <1>5, <2>1, <2>2, <2>3 DEF Payloads, DiskInv
  <1>10. RowMarks'
    <2> SUFFICES ASSUME NEW r \in Rows, FileRow(r), Marked(r)'
                 PROVE  /\ tree[r].canon # 0 /\ Stands(r)
                        /\ tree[r].canon # r /\ Passed(r)' => Follows(r)'
      BY <1>5 DEF RowMarks
    <2>1. CASE \E o \in B : o.id = r /\ "Placed" \in o.flags
      <3>1. r \in PassRows
        BY <1>8, <2>1
      <3>2. CASE pc = "files"
        BY <1>1, <1>4, <1>8, <2>1, <3>1, <3>2 DEF Payloads, JobMarks
      <3>3. CASE pc = "hardlinks"
        <4>1. tree[r].canon \notin {0, r} /\ Follows(r)
          BY <1>1, <1>4, <1>8, <2>1, <3>1, <3>3 DEF Payloads, JobMarks
        <4> QED BY <1>6, <4>1 DEF Stands
      <3> QED BY <1>1, <1>4, <3>1, <3>2, <3>3 DEF Passes
    <2>2. CASE Marked(r) /\ (pc # "files" => \A o \in B : o.id # r)
      <3>1. tree[r].canon # 0 /\ Stands(r) /\ (tree[r].canon # r /\ Passed(r) => Follows(r))
        BY <2>2 DEF Payloads, RowMarks
      <3>2. ASSUME tree[r].canon # r, Passed(r)' PROVE Passed(r)
        <4>1. pc' = pc /\ pc # "files"
          BY <1>1, <1>4, <3>2 DEF Passed, Passes
        <4>2. CASE pc = "others"
          BY <4>2 DEF Passed
        <4>3. CASE pc = "hardlinks"
          <5>1. shutdown = "running" /\ r \notin todo \cup work \cup Ids(busy) \cup Ids(out')
            BY <1>1, <1>4, <3>2, <4>1, <4>3 DEF Passed, Ids
          <5>2. r \notin Ids(out)
            BY <1>3, <2>2, <4>1, <5>1 DEF Ids
          <5> QED BY <1>1, <4>3, <5>1, <5>2 DEF Passed
        <4> QED BY <1>1, <4>1, <4>2, <4>3 DEF Passes
      <3> QED BY <1>6, <3>1, <3>2
    <2> QED BY <1>7, <2>1, <2>2
  <1>11. CASE pc' = "failed"
    <2>1. PoolInv' /\ JobMarks'
      BY <1>11 DEF PoolInv, JobMarks, InPool, Passes, Settled
    <2> QED BY <1>9, <1>10, <2>1 DEF Payloads
  <1>12. CASE pc' = pc
    <2>1. PassRows' = PassRows
      <3>1. \A r \in Rows : tree'[r].file = tree[r].file
        BY <1>2 DEF SameRows
      <3> QED BY <1>1, <1>5, <1>12, <3>1 DEF PassRows, HardlinkRows, OtherRows, Passes
    <2>2. Ids(busy)' = Ids(busy) /\ Ids(out)' \subseteq Ids(out) /\ out' \subseteq out
      BY <1>1, <1>3 DEF Ids
    <2>3. pc = "files" => \A r \in todo \cup work \cup Ids(busy) : ~Marked(r)'
      <3>1. \A r \in todo \cup work \cup Ids(busy) : r \in Rows /\ r \notin Ids(out)
        BY <1>1, <1>4 DEF OneHand
      <3>2. ASSUME NEW r \in todo \cup work \cup Ids(busy), pc = "files", Marked(r)' PROVE FALSE
        <4>1. Marked(r)
          BY <1>7, <1>8, <3>1, <3>2
        <4> QED BY <1>1, <3>2, <4>1 DEF OneHand
      <3> QED BY <3>2
    <2>4. OneHand'
      BY <1>1, <1>12, <2>1, <2>2, <2>3 DEF OneHand
    <2>5. InPool' /\ pc' # "sweep"
      BY <1>1, <1>12 DEF InPool, Passes
    <2>6. JobMarks'
      <3> SUFFICES ASSUME NEW o \in out', "Placed" \in o.flags
                   PROVE  /\ pc = "files" => Stands(o.id)'
                          /\ pc = "hardlinks" => Follows(o.id)'
        BY <1>12 DEF JobMarks
      <3>1. o \in out /\ o.id \in PassRows
        BY <1>1, <2>2 DEF OneHand, Ids
      <3> QED BY <1>1, <1>4, <1>5, <1>6, <3>1 DEF Payloads, JobMarks
    <2> QED BY <1>9, <1>10, <2>4, <2>5, <2>6 DEF Payloads, PoolInv
  <1> QED BY <1>1, <1>11, <1>12

\* The list, the channel and the end of a pass.
LEMMA PassMoves ==
    ASSUME PlanInv, ElectInv, Payloads, OpenPass \/ (pc \in Passes /\ (Feed \/ DropWork)) \/ EndPass
    PROVE  Payloads'
  <1>1. /\ pc \in Passes /\ UNCHANGED <<cat, tree, meta, phase, restarts, shutdown, disk>>
    BY DEF OpenPass, Feed, DropWork, EndPass, planned, world
  <1>2. phase = "Place" /\ DirsDone
    BY <1>1, PassFacts DEF Payloads, DiskInv, Passes, PlainPasses
  <1>3. /\ \A r \in Rows : tree[r].path \in Paths /\ tree[r].canon \in {0} \cup Rows /\ r \in Nat \ {0}
        /\ todo \subseteq Nat
    BY RowFacts DEF PlanInv, TypeInv
  <1>4. PassRows' = PassRows \/ pc' # pc
    BY <1>1 DEF PassRows, HardlinkRows, OtherRows, FileRow, Rows
  <1>5. \A r : Marked(r)' = Marked(r)
    BY <1>1 DEF Marked
  <1>6. CASE OpenPass
    <2>1. /\ pc' = pc /\ at = 1 /\ at' = 2 /\ ~InPool /\ InPool' /\ pc \notin Settled
          /\ work' = {} /\ busy' = {} /\ out' = {} /\ todo' \subseteq PassRows'
          /\ pc = "files" => \A r \in todo' : ~Marked(r)
          /\ pc = "hardlinks" => todo' = HardlinkRows
      <3>1. /\ pc' = pc /\ at = 1 /\ at' = 2 /\ ~InPool /\ InPool' /\ pc \notin Settled
            /\ UNCHANGED <<work, busy, out>>
        BY <1>1, <1>6 DEF OpenPass, InPool, Settled, Passes
      <3>2. work = {} /\ busy = {} /\ out = {}
        BY <3>1 DEF Payloads, PoolInv
      <3>3. CASE pc = "files"
        BY <1>4, <1>6, <3>1, <3>2, <3>3 DEF OpenPass, PassRows, PendingFiles, Marked
      <3>4. CASE pc = "hardlinks"
        BY <1>4, <1>6, <3>1, <3>2, <3>4 DEF OpenPass, PassRows
      <3>5. CASE pc = "others"
        BY <1>4, <1>6, <3>1, <3>2, <3>5 DEF OpenPass, PassRows
      <3> QED BY <1>1, <3>3, <3>4, <3>5 DEF Passes
    <2>2. Ids(work)' = {} /\ Ids(busy)' = {} /\ Ids(out)' = {}
      BY <2>1 DEF Ids
    <2>3. OneHand'
      BY <1>5, <2>1, <2>2 DEF OneHand
    <2>4. DiskInv'
      BY <1>1, <1>2, <2>1, DiskRests DEF Payloads, DirsDone, On, Passes
    <2>5. RowMarks'
      <3>1. ASSUME NEW r \in Rows, FileRow(r), Marked(r), tree[r].canon \notin {0, r}, Passed(r)'
            PROVE  Passed(r)
        <4>1. pc # "files"
          BY <1>1, <1>2, <2>1, <3>1 DEF Passed, Passes
        <4>2. pc # "hardlinks"
          BY <1>1, <1>2, <2>1, <3>1 DEF Passed, Passes, HardlinkRows
        <4> QED BY <1>1, <4>1, <4>2 DEF Passed, Passes
      <3> QED BY <1>1, <3>1, MarksRest DEF Payloads
    <2> QED BY <1>1, <2>1, <2>3, <2>4, <2>5 DEF Payloads, PoolInv, JobMarks, Passes
  <1>7. CASE pc \in Passes /\ (Feed \/ DropWork)
    <2>1. /\ pc' = pc /\ at' = at /\ InPool /\ InPool' /\ UNCHANGED <<busy, out>>
          /\ OneHand /\ PassRows' = PassRows
      BY <1>4, <1>7 DEF Feed, DropWork, InPool, Payloads, PoolInv
    <2>2. /\ todo' \cup work' \subseteq todo \cup work
          /\ todo' \cap work' = {}
          /\ shutdown = "running" => todo' \cup work' = todo \cup work
      <3>1. CASE Feed /\ shutdown = "running"
        <4>1. todo # {} /\ todo \in SUBSET Nat
          BY <1>3, <3>1 DEF Feed
        <4>2. PICK x \in todo : todo' = todo \ {x} /\ work' = work \cup {x}
          BY <3>1, <4>1, LeastOf DEF Feed
        <4> QED BY <2>1, <4>2 DEF OneHand
      <3>2. CASE Feed /\ shutdown # "running"
        BY <3>2 DEF Feed
      <3>3. CASE DropWork
        BY <3>3 DEF DropWork
      <3> QED BY <1>7, <3>1, <3>2, <3>3
    <2>3. Ids(busy)' = Ids(busy) /\ Ids(out)' = Ids(out)
      BY <2>1 DEF Ids
    <2>4. OneHand'
      BY <1>5, <2>1, <2>2, <2>3 DEF OneHand
    <2>5. DiskInv'
      BY <1>1, <1>2, <2>1, DiskRests DEF Payloads, DirsDone, On, Passes
    <2>6. RowMarks'
      <3>1. \A r \in Rows : Passed(r)' => Passed(r)
        BY <1>1, <2>1, <2>2, <2>3 DEF Passed
      <3> QED BY <1>1, <3>1, MarksRest DEF Payloads
    <2>7. JobMarks'
      <3>1. \A o \in out : Stands(o.id)' = Stands(o.id) /\ Follows(o.id)' = Follows(o.id)
        BY <1>1 DEF Stands, Follows, Through, Whole, Payload
      <3> QED BY <2>1, <3>1 DEF Payloads, JobMarks
    <2> QED BY <1>1, <2>1, <2>4, <2>5, <2>6, <2>7 DEF Payloads, PoolInv, Passes
  <1>8. CASE EndPass
    <2>1. /\ todo = {} /\ work = {} /\ busy = {} /\ out = {} /\ at' = 1 /\ ~InPool'
          /\ UNCHANGED <<todo, work, busy, out>>
          /\ pc' \in {"interrupted", "sweep", "others", "flags"}
          /\ pc' \in {"others", "flags"} => shutdown = "running" /\ at = 2 /\ pc \in {"hardlinks", "others"}
      BY <1>1, <1>8 DEF EndPass, InPool, pool, Passes
    <2>2. PoolInv' /\ JobMarks'
      BY <2>1, PoolRests
    <2>3. DiskInv'
      BY <1>1, <1>2, <2>1, DiskRests DEF Payloads, DirsDone, On
    <2>4. Ids(busy) = {} /\ Ids(out) = {}
      BY <2>1 DEF Ids
    <2>5. \A r \in Rows : Passed(r)' => Passed(r)
      BY <1>1, <1>2, <2>1, <2>4 DEF Passed
    <2> QED BY <1>1, <2>2, <2>3, <2>5, MarksRest DEF Payloads
  <1> QED BY <1>6, <1>7, <1>8

-----------------------------------------------------------------------------
(* Before and after the passes.                                             *)

\* While the prologue runs, nothing is on disk and no row is placed.
LEMMA PrologueIsBare ==
    ASSUME PlanInv, ElectInv, Payloads, PrologueStep, PlanInv'
    PROVE  Payloads'
  <1>1. /\ UNCHANGED <<cat, disk, todo, work, busy, out, restarts, shutdown>>
        /\ meta \subseteq meta' /\ pc \notin Settled /\ ~InPool
        /\ pc' \notin PlainPasses \cup {"dirs"} /\ ~InPool'
        /\ phase = "PlacementPrologue" \/ EnterPhase
    <2> USE DEF planned, world, pool, Settled, InPool, Passes, PlainPasses
    <2>0. PhaseInv
      BY DEF PlanInv
    <2>1. CASE EnterPhase
      <3>1. pc' \in {"interrupted", "clean", "done", "verify", "rename", "elect", "insert"}
        BY <2>0, <2>1 DEF EnterPhase, PhaseInv
      <3> QED BY <2>1, <3>1 DEF EnterPhase
    <2>2. CASE Rename
      BY <2>0, <2>2 DEF Rename, PhaseInv, Building, Inserting
    <2>3. CASE InsertBatch
      BY <2>0, <2>3 DEF InsertBatch, PhaseInv, Building, Inserting
    <2>4. CASE InsertRef
      BY <2>0, <2>4 DEF InsertRef, PhaseInv, Building, Inserting
    <2>5. CASE EnsureParents
      BY <2>0, <2>5 DEF EnsureParents, PhaseInv, Building, Inserting
    <2>6. CASE SetTreeBuilt
      BY <2>0, <2>6 DEF SetTreeBuilt, PhaseInv, Building, Inserting
    <2>7. CASE ElectStep
      BY <2>0, <2>7 DEF ElectStep, PhaseInv, Building, Inserting
    <2>8. CASE FinishPrologue
      BY <2>0, <2>8 DEF FinishPrologue, PhaseInv, Building, Inserting
    <2>9. CASE VerifyPrologue
      BY <2>0, <2>9 DEF VerifyPrologue, PhaseInv, Building, Inserting
    <2> QED BY <2>1, <2>2, <2>3, <2>4, <2>5, <2>6, <2>7, <2>8, <2>9 DEF PrologueStep
  <1>2. todo' = {} /\ work' = {} /\ busy' = {} /\ out' = {}
    BY <1>1 DEF Payloads, PoolInv
  <1>3. PoolInv' /\ JobMarks'
    BY <1>1, <1>2, PoolRests DEF PlainPasses
  <1>4. CASE EnterPhase
    <2>1. UNCHANGED <<tree, meta, phase>> /\ pc = "enter" /\ at' = 1
      BY <1>4 DEF EnterPhase, planned
    <2>2. restarts' = 0 /\ (pc' \in {"clean", "dirs"} \/ (pc' = "enter" /\ phase' = "Place"))
             => \A r \in Rows : ~Marked(r)
      <3>1. phase \in {"PlacementPrologue", "Place", "Permissions"}
        BY DEF PlanInv, PhaseInv
      <3> QED BY <1>1, <1>4, <2>1, <3>1 DEF EnterPhase, Payloads, DiskInv
    <2>3. DiskInv'
      BY <1>1, <2>1, <2>2, DiskRests DEF Payloads
    <2>4. \A r \in Rows : Passed(r)' => Passed(r)
      <3>1. phase \in {"PlacementPrologue", "Place", "Permissions"}
        BY DEF PlanInv, PhaseInv
      <3> QED BY <1>1, <1>4, <2>1, <3>1 DEF EnterPhase, Passed
    <2> QED BY <1>1, <1>3, <2>1, <2>3, <2>4, MarksRest DEF Payloads
  <1>5. CASE ~EnterPhase
    <2>1. phase = "PlacementPrologue" /\ disk = cat.before /\ \A r \in Rows : ~Marked(r)
      BY <1>1, <1>5 DEF Payloads, DiskInv
    <2>2. \A r \in Rows' : ~Marked(r)'
      <3>1. CASE UNCHANGED tree
        BY <2>1, <3>1 DEF Rows, Marked
      <3>2. CASE InsertBatch /\ ~UNCHANGED tree
        <4>1. TypeInv /\ WalkInv /\ Members(On("renames")) = Entries
          BY <3>2, MembersAreEntries DEF PlanInv, WalkInv, InsertBatch, Inserting
        <4>2. Page(Entries) # {}
          BY <3>2, <4>1 DEF InsertBatch
        <4>3. \A y \in Fresh(Page(Entries)) : NewRow(Goal(y), y[3]).flags = {}
          BY DEF NewRow
        <4>4. /\ \A r \in Rows : tree'[r] = tree[r]
              /\ \A r \in Rows' : r \notin Rows => tree'[r].flags = {}
          BY <3>2, <4>1, <4>2, <4>3, Inserted
        <4> QED BY <2>1, <4>4 DEF Marked
      <3>3. CASE EnsureParents /\ ~UNCHANGED tree
        <4>1. TypeInv /\ TreeInv /\ Page(Plain) # {}
          BY <3>3 DEF EnsureParents, PlanInv
        <4>2. \A p \in Missing : NewRow(p, 0).flags = {}
          BY DEF NewRow
        <4>3. /\ \A r \in Rows : tree'[r] = tree[r]
              /\ \A r \in Rows' : r \notin Rows => tree'[r].flags = {}
          BY <3>3, <4>1, <4>2, Scaffolded
        <4> QED BY <2>1, <4>3 DEF Marked
      <3>4. CASE ElectStep /\ ~UNCHANGED tree
        <4>1. PICK x \in Statements : tree' = Run(x)
          BY <3>4 DEF ElectStep
        <4>2. SameRows /\ \A r \in Rows : tree'[r].flags = tree[r].flags
          BY <4>1, RunKeeps DEF PlanInv
        <4> QED BY <2>1, <4>2 DEF Marked, SameRows
      <3>5. InsertBatch \/ EnsureParents \/ ElectStep \/ UNCHANGED tree
        BY <1>5 DEF PrologueStep, Rename, InsertRef, SetTreeBuilt, FinishPrologue, VerifyPrologue, planned
      <3> QED BY <3>1, <3>2, <3>3, <3>4, <3>5
    <2>3. cat.before \in [Paths -> Node]
      BY CatalogueTyped DEF PlanInv, TypeInv
    <2>4. DiskInv'
      BY <1>1, <2>1, <2>2, <2>3 DEF DiskInv
    <2>5. RowMarks'
      BY <2>2 DEF RowMarks
    <2> QED BY <1>3, <2>4, <2>5 DEF Payloads
  <1> QED BY <1>4, <1>5

LEMMA TargetCleaned ==
    ASSUME PlanInv, ElectInv, Payloads, Unwiped, CleanTarget
    PROVE  Payloads'
  <1>1. /\ pc = "clean" /\ pc' \in {"failed", "dirs"} /\ at' = 1
        /\ UNCHANGED <<cat, tree, meta, phase, restarts, todo, work, busy, out>>
        /\ phase = "Place"
    BY DEF CleanTarget, planned, pool, PlanInv, PhaseInv, PlacePcs
  <1>2. PoolInv' /\ JobMarks'
    <2>1. todo' = {} /\ work' = {} /\ busy' = {} /\ out' = {}
      BY <1>1 DEF Payloads, PoolInv, InPool, Passes, Settled
    <2> QED BY <1>1, <2>1, PoolRests DEF InPool, Passes
  <1>3. /\ disk' = disk \/ (disk' = Wiped /\ On("clean"))
        /\ restarts \in Nat
    BY DEF CleanTarget, ElectInv
  <1>4. CASE disk' = disk
    <2>1. restarts' = 0 => \A r \in Rows : ~Marked(r)
      BY <1>1 DEF Payloads, DiskInv
    <2>2. DiskInv'
      BY <1>1, <1>4, <2>1, DiskRests DEF Payloads, PlainPasses
    <2>3. \A r \in Rows : Passed(r)' => Passed(r)
      BY <1>1 DEF Passed
    <2> QED BY <1>1, <1>2, <1>4, <2>2, <2>3, MarksRest DEF Payloads
  <1>5. CASE disk' = Wiped /\ On("clean")
    <2>1. restarts = 0 /\ \A r \in Rows : ~Marked(r)
      BY <1>1, <1>3, <1>5 DEF Unwiped, Payloads, DiskInv
    <2>2. Rows' = Rows /\ \A r \in Rows : ~Marked(r)'
      BY <1>1, <2>1 DEF Rows, Marked
    <2>3. disk \in [Paths -> Node]
      BY DEF Payloads, DiskInv
    <2>4. /\ disk' \in [Paths -> Node]
          /\ \A p \in Paths : disk'[p].kind \in LinkKind => disk'[p] = disk[p]
      BY <1>5, <2>3, NodesTyped DEF Wiped, LinkKind
    <2>5. DiskInv'
      BY <1>1, <2>1, <2>2, <2>4 DEF Payloads, DiskInv, PlainPasses
    <2>6. RowMarks'
      BY <2>2 DEF RowMarks
    <2> QED BY <1>2, <2>5, <2>6 DEF Payloads
  <1> QED BY <1>3, <1>4, <1>5

LEMMA DirsMade ==
    ASSUME PlanInv, ElectInv, Payloads, Unwiped, BuildDirs
    PROVE  Payloads'
  <1>1. /\ pc = "dirs" /\ pc' \in {"dirs", "files", "failed", "interrupted", "panicked"}
        /\ pc' = "files" => at' = 1 /\ DirsDone'
        /\ UNCHANGED <<cat, tree, phase, restarts, todo, work, busy, out>>
        /\ phase = "Place" /\ meta \subseteq meta'
    <2>1. AfterDirs = "files"
      BY DEF AfterDirs, Unwiped
    <2> QED BY <2>1 DEF BuildDirs, planned, pool, PlanInv, PhaseInv, PlacePcs, DirsDone, On
  <1>2. PoolInv' /\ JobMarks'
    <2>1. todo' = {} /\ work' = {} /\ busy' = {} /\ out' = {}
      BY <1>1 DEF Payloads, PoolInv, InPool, Passes, Settled
    <2> QED BY <1>1, <2>1, PoolRests DEF InPool, Passes
  <1>3. CASE disk' = disk
    <2>1. restarts' = 0 => \A r \in Rows : ~Marked(r)
      BY <1>1 DEF Payloads, DiskInv
    <2>2. pc' \in PlainPasses => DirsDone'
      BY <1>1 DEF PlainPasses
    <2>3. DiskInv'
      BY <1>1, <1>3, <2>1, <2>2, DiskRests DEF Payloads
    <2>4. \A r \in Rows : Passed(r)' => Passed(r)
      BY <1>1 DEF Passed
    <2> QED BY <1>1, <1>2, <1>3, <2>3, <2>4, MarksRest DEF Payloads
  <1>4. CASE ~DirsDone /\ \E p : disk' = MadeDir(p) /\ pc' = pc
    <2>1. \A r \in Rows : ~Marked(r)
      BY <1>4 DEF Payloads, DiskInv
    <2>2. Rows' = Rows /\ \A r \in Rows : ~Marked(r)'
      BY <1>1, <2>1 DEF Rows, Marked
    <2>3. disk \in [Paths -> Node]
      BY DEF Payloads, DiskInv
    <2>4. /\ disk' \in [Paths -> Node]
          /\ \A p \in Paths : disk'[p].kind \in LinkKind => disk'[p] = disk[p]
      BY <1>4, <2>3, NodesTyped DEF MadeDir, LinkKind
    <2>5. DiskInv'
      BY <1>1, <1>4, <2>2, <2>4 DEF Payloads, DiskInv, PlainPasses
    <2>6. RowMarks'
      BY <2>2 DEF RowMarks
    <2> QED BY <1>2, <2>5, <2>6 DEF Payloads
  <1> QED BY <1>3, <1>4 DEF BuildDirs, DirsDone

LEMMA PhaseEnds ==
    ASSUME PlanInv, ElectInv, Payloads, Sweep \/ ApplyFlags \/ Promote \/ VerifyPlace
    PROVE  Payloads'
  <1>1. /\ UNCHANGED <<cat, tree, meta, disk, restarts, todo, work, busy, out, at>>
        /\ phase = "Place"
        /\ pc \in {"sweep", "flags", "sweep2", "promote", "verify"}
    BY DEF Sweep, ApplyFlags, Promote, VerifyPlace, planned, pool, world,
           PlanInv, PhaseInv, PlacePcs, PlainPasses
  <1>2. /\ pc' \in {"hardlinks", "sweep2", "promote", "verify", "enter", "failed", "panicked"}
        /\ pc' = "hardlinks" => pc = "sweep"
        /\ pc # "sweep" \/ pc' \in {"hardlinks", "failed"}
        /\ pc' = "enter" => phase' = "Permissions"
        /\ phase' \in {"Place", "Permissions"} /\ (phase' # phase => pc = "verify")
    <2>1. CASE Sweep
      BY <1>1, <2>1 DEF Sweep
    <2>2. CASE ApplyFlags \/ Promote
      BY <1>1, <2>2 DEF ApplyFlags, Promote
    <2>3. CASE VerifyPlace
      BY <1>1, <2>3 DEF VerifyPlace
    <2> QED BY <2>1, <2>2, <2>3
  <1>3. PoolInv' /\ JobMarks'
    <2>1. todo' = {} /\ work' = {} /\ busy' = {} /\ out' = {} /\ (pc' = "hardlinks" => at' = 1)
      BY <1>1, <1>2 DEF Payloads, PoolInv, InPool, Passes, Settled
    <2> QED BY <1>2, <2>1, PoolRests DEF InPool, Passes
  <1>4. DiskInv'
    <2>1. pc' \in PlainPasses => DirsDone'
      BY <1>1, <1>2 DEF Payloads, DiskInv, PlainPasses, DirsDone, On
    <2> QED BY <1>1, <1>2, <2>1, DiskRests DEF Payloads
  <1>5. \A r \in Rows : Passed(r)' => Passed(r)
    <2>1. pc = "sweep" => ~(\E r \in Rows : Passed(r)')
      BY <1>1, <1>2, <1>3 DEF Passed, Payloads, PoolInv
    <2>2. pc # "sweep" => \A r \in Rows : Passed(r)
      BY <1>1 DEF Passed
    <2> QED BY <2>1, <2>2
  <1> QED BY <1>1, <1>3, <1>4, <1>5, MarksRest DEF Payloads

LEMMA RunsAgain ==
    ASSUME PlanInv, ElectInv, Payloads, Signal \/ Restart \/ Stopped \/ UNCHANGED vars
    PROVE  Payloads'
  <1>1. UNCHANGED <<cat, tree, meta, disk, phase>> /\ restarts \in Nat
    BY DEF Signal, Restart, Stopped, vars, planned, world, ElectInv
  <1>2. CASE Restart
    <2>1. /\ todo' = {} /\ work' = {} /\ busy' = {} /\ out' = {} /\ at' = 1
          /\ pc' \in {"enter", "lost"} /\ restarts' # 0
      BY <1>1, <1>2 DEF Restart
    <2>2. PoolInv' /\ JobMarks'
      BY <2>1, PoolRests DEF InPool, Passes
    <2>3. DiskInv'
      BY <1>1, <2>1, DiskRests DEF Payloads, PlainPasses
    <2>4. \A r \in Rows : Passed(r)' => Passed(r)
      BY <1>1, <2>1 DEF Passed
    <2> QED BY <1>1, <2>2, <2>3, <2>4, MarksRest DEF Payloads
  <1>3. CASE Signal \/ Stopped \/ UNCHANGED vars
    <2>1. /\ UNCHANGED <<pc, at, todo, work, busy, out, restarts>>
          /\ shutdown' = "running" => shutdown = "running"
      BY <1>3 DEF Signal, Stopped, vars, pool
    <2>2. DiskInv'
      BY <1>1, <2>1, DiskRests DEF Payloads, DiskInv, DirsDone, On
    <2>3. Ids(busy)' = Ids(busy) /\ Ids(out)' = Ids(out)
      BY <2>1 DEF Ids
    <2>4. \A r \in Rows : Passed(r)' => Passed(r)
      BY <1>1, <2>1, <2>3 DEF Passed
    <2>5. RowMarks'
      BY <1>1, <2>4, MarksRest DEF Payloads
    <2>6. InPool' = InPool /\ OneHand' = OneHand
      <3>1. PassRows' = PassRows /\ \A r : Marked(r)' = Marked(r)
        BY <1>1, <2>1 DEF PassRows, HardlinkRows, OtherRows, FileRow, Rows, Marked
      <3> QED BY <2>1, <2>3, <3>1 DEF InPool, OneHand
    <2>7. PoolInv'
      BY <2>1, <2>6 DEF Payloads, PoolInv
    <2>8. JobMarks'
      <3>1. \A o \in out : Stands(o.id)' = Stands(o.id) /\ Follows(o.id)' = Follows(o.id)
        BY <1>1 DEF Stands, Follows, Through, Whole, Payload
      <3> QED BY <2>1, <2>6, <3>1 DEF Payloads, JobMarks
    <2> QED BY <2>2, <2>5, <2>7, <2>8 DEF Payloads
  <1> QED BY <1>2, <1>3

LEMMA PayloadStep == PlanInv /\ ElectInv /\ PayloadInv /\ [Next]_vars => PayloadInv'
  <1> SUFFICES ASSUME PlanInv, ElectInv, PayloadInv, [Next]_vars, Unwiped' PROVE Payloads'
    BY DEF PayloadInv, Payloads
  <1>1. TypeInv /\ PhaseInv /\ PlanInv'
    BY PlanStep DEF PlanInv
  <1>2. cat' = cat /\ (restarts' = restarts \/ restarts' = restarts + 1)
    <2>1. CASE Restart
      BY <2>1 DEF Restart
    <2>2. CASE PrologueStep
      BY <2>2 DEF PrologueStep, EnterPhase, Rename, InsertBatch, InsertRef, EnsureParents,
                  SetTreeBuilt, ElectStep, FinishPrologue, VerifyPrologue
    <2>3. CASE PlaceStep
      BY <2>3 DEF PlaceStep, CleanTarget, BuildDirs, OpenPass, Feed, Ingest, EndPass, Sweep,
                  ApplyFlags, Promote, VerifyPlace
    <2>4. CASE LinkStep
      BY <2>4 DEF LinkStep, OpenMove, IngestMove, EndMove, OpenLink, LinkOne, IngestLinks
    <2>5. CASE Worker
      BY <2>5 DEF Worker, WorkerBegin, WorkerFinish, DropWork, BeginMove, FinishMove
    <2>6. CASE Signal \/ Stopped \/ UNCHANGED vars
      BY <2>6 DEF Signal, Stopped, vars
    <2> QED BY <2>1, <2>2, <2>3, <2>4, <2>5, <2>6 DEF Next, Driver
  <1>3. Unwiped /\ Payloads
    BY <1>2, UnwipedBefore DEF PayloadInv, Payloads
  <1>4. pc \notin {"move", "link"}
    BY <1>1, <1>3 DEF PhaseInv, Unwiped
  <1>5. CASE PrologueStep
    BY <1>1, <1>3, <1>5, PrologueIsBare
  <1>6. CASE PlaceStep
    <2>1. Feed => pc \in Passes
      BY <1>4 DEF Feed, Pooled
    <2> QED BY <1>3, <1>6, <2>1, TargetCleaned, DirsMade, PassMoves, OutcomesApplied, PhaseEnds
            DEF PlaceStep
  <1>7. CASE LinkStep
    BY <1>4, <1>7 DEF LinkStep, OpenMove, IngestMove, EndMove, OpenLink, LinkOne, IngestLinks
  <1>8. CASE Worker
    <2>1. ~BeginMove /\ ~FinishMove /\ (DropWork => pc \in Passes)
      BY <1>4 DEF BeginMove, FinishMove, DropWork, Pooled
    <2> QED BY <1>3, <1>8, <2>1, WorkerBegins, WorkerFinishes, PassMoves DEF Worker
  <1>9. CASE Signal \/ Restart \/ Stopped \/ UNCHANGED vars
    BY <1>3, <1>9, RunsAgain
  <1> QED BY <1>5, <1>6, <1>7, <1>8, <1>9 DEF Next, Driver

\* Whatever is interrupted: no two jobs have one row, an elected row marked
\* Placed has its payload on disk from the moment its outcome is out, and a
\* row that joined another is what its leader's path holds once the hard-link
\* pass has come to it (apply_result_flags after materialize_worker's steps).
THEOREM PayloadInvariance == Spec => [](PlanInv /\ ElectInv /\ PayloadInv)
  <1>1. Init => PlanInv /\ ElectInv /\ PayloadInv
    BY InitPlan, InitElect, InitPayload
  <1>2. (PlanInv /\ ElectInv /\ PayloadInv) /\ [Next]_vars => (PlanInv /\ ElectInv /\ PayloadInv)'
    BY PlanStep, ElectInvStep, PayloadStep
  <1> QED BY <1>1, <1>2, PTL DEF Spec

LEMMA PayloadsAreSound == PlanInv /\ ElectInv /\ PayloadInv => PlacedIsThere
  <1> SUFFICES ASSUME PlanInv, ElectInv, PayloadInv, phase = "Permissions", Unwiped,
                      NEW r \in Rows, FileRow(r), "Placed" \in tree[r].flags
               PROVE  /\ tree[r].canon \in Rows
                      /\ tree[r].canon = r /\ ~Through(r) =>
                            disk[tree[r].path] = [kind |-> "payload", of |-> Payload(r), by |-> r]
                      /\ tree[r].canon # r =>
                            disk[tree[r].path] = disk[tree[tree[r].canon].path]
    BY DEF PlacedIsThere, Unwiped
  <1>1. /\ tree[r].canon # 0 /\ Stands(r) /\ (tree[r].canon # r /\ Passed(r) => Follows(r))
    BY DEF PayloadInv, RowMarks, Marked
  <1>2. Passed(r)
    BY DEF Passed
  <1>3. tree[r].canon \in {0} \cup Rows
    BY RowFacts
  <1> QED BY <1>1, <1>2, <1>3 DEF Stands, Follows, Whole

\* When the phase is over, a row marked Placed by whatever runs, batches and
\* workers has its payload, complete and its own, or is a name of what its
\* leader's path holds: for all catalogues, pool sizes and crashes.
THEOREM PlacedRowsAreThere == Spec => []PlacedIsThere
  BY PayloadInvariance, PayloadsAreSound, PTL
=============================================================================
