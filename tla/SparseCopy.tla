------------------------------ MODULE SparseCopy ------------------------------
(***************************************************************************)
(* The copies that leave holes (crates/sparse-cp), which the placement     *)
(* falls back to, the sparsifier and the scan use, and the program         *)
(* sparse-cp offers; the plain copy of the scan; and the count of empty    *)
(* pages that the hashing takes along and the sparsifier chooses by.       *)
(*                                                                         *)
(* A file is a sequence of bytes, 0 and others.  Metadata, progress and    *)
(* the allocated size are left out.                                        *)
(***************************************************************************)
EXTENDS Naturals, SequencesExt

IsAllZero(chunk) == \A i \in DOMAIN chunk: chunk[i] = 0

\* ftruncate, and a write at an offset: both fill with zeros.
SetLen(file, n) == [i \in 1..n |-> IF i \in DOMAIN file THEN file[i] ELSE 0]
WriteAt(file, pos, chunk) ==
    [i \in 1..Max({Len(file), pos + Len(chunk)}) |->
        CASE i \in pos + 1..pos + Len(chunk) -> chunk[i - pos]
          [] i \notin pos + 1..pos + Len(chunk) /\ i \in DOMAIN file -> file[i]
          [] OTHER -> 0]

\* read_fullish: full blocks, and a short one at the end.
Blocks(data, size) ==
    [k \in 1..(Len(data) + size - 1) \div size |->
        SubSeq(data, (k - 1) * size + 1, Min({k * size, Len(data)}))]

SparsePageCount(data, size) ==
    Len(SelectSeq(Blocks(data, size), LAMBDA b: Len(b) = size /\ IsAllZero(b)))

-----------------------------------------------------------------------------
(* sparse_copy_reader: the destination is opened as it is and brought to   *)
(* the length that the caller expects, before and after.                   *)

Opened(old, sizeIn) == [file |-> SetLen(old, sizeIn), pos |-> 0, zeroBlocks |-> 0, saved |-> 0]

\* Mutant: the offset stays where the zero block begins.
CopyBlockInPlace(s, chunk, size) ==
    IF IsAllZero(chunk)
    THEN [s EXCEPT !.saved = @ + Len(chunk), !.zeroBlocks = @ + (IF Len(chunk) = size THEN 1 ELSE 0)]
    ELSE [s EXCEPT !.file = WriteAt(@, s.pos, chunk), !.pos = @ + Len(chunk)]
CopyBlock(s, chunk, size) ==
    IF IsAllZero(chunk)
    THEN [s EXCEPT !.pos = @ + Len(chunk), !.saved = @ + Len(chunk),
                   !.zeroBlocks = @ + (IF Len(chunk) = size THEN 1 ELSE 0)]
    ELSE [s EXCEPT !.file = WriteAt(@, s.pos, chunk), !.pos = @ + Len(chunk)]

\* What stands in the destination when the copy is given up after n blocks.
GivenUp(data, old, sizeIn, size, n) ==
    FoldLeft(LAMBDA s, b: CopyBlock(s, b, size), Opened(old, sizeIn), SubSeq(Blocks(data, size), 1, n)).file
SparseCopyReader(data, old, sizeIn, size) ==
    LET end == FoldLeft(LAMBDA s, b: CopyBlock(s, b, size), Opened(old, sizeIn), Blocks(data, size))
    IN  [end EXCEPT !.file = SetLen(@, sizeIn)]

\* sparse_copy: the length is taken, the destination emptied, and then the
\* source read; a source that is the destination is empty by then, and read as
\* the zeros that stand there.
SparseCopy(source, sizeIn, size, same) ==
    SparseCopyReader(IF same THEN SetLen(<<>>, sizeIn) ELSE source, <<>>, sizeIn, size)

\* copy_reader_batched: the destination is emptied, and filled batch by batch.
CopyReaderBatched(data, batch) ==
    FoldLeft(LAMBDA file, b: WriteAt(file, Len(file), b), <<>>, Blocks(data, batch))

-----------------------------------------------------------------------------
(* hash_one: what a read gives is cut into pages, and a page that it ends  *)
(* in is carried over as a length and whether it is zero so far.           *)

HashRead(s, bytes, page) ==
    LET need == page - s.carryLen
        goesOn == s.carryLen > 0 /\ Len(bytes) < need
        first == IF s.carryLen > 0 THEN need ELSE 0
        rest == Blocks(SubSeq(bytes, first + 1, Len(bytes)), page)
        whole == SelectSeq(rest, LAMBDA b: Len(b) = page)
        cut == SelectSeq(rest, LAMBDA b: Len(b) < page)
        carried == s.carryLen > 0 /\ s.carryZero /\ IsAllZero(SubSeq(bytes, 1, need))
    IN  IF goesOn
        THEN [s EXCEPT !.carryLen = @ + Len(bytes), !.carryZero = @ /\ IsAllZero(bytes)]
        ELSE [zeroBlocks |-> s.zeroBlocks + (IF carried THEN 1 ELSE 0) + Len(SelectSeq(whole, IsAllZero)),
              carryLen |-> IF cut = <<>> THEN 0 ELSE Len(cut[1]),
              carryZero |-> cut = <<>> \/ IsAllZero(cut[1])]
HashOne(reads, page) ==
    FoldLeft(LAMBDA s, bytes: HashRead(s, bytes, page),
             [zeroBlocks |-> 0, carryLen |-> 0, carryZero |-> TRUE], reads).zeroBlocks

-----------------------------------------------------------------------------
(* sparse-cp's main: files is a function from paths to contents.           *)

Run(files, args) ==
    CASE args.blockSize = 0 -> [files |-> files, out |-> "refused"]
      [] args.blockSize > 0 /\ args.listOnly ->
           [files |-> files, out |-> SparsePageCount(files[args.input], args.blockSize)]
      [] OTHER ->
           LET source == files[args.input]
               copy == SparseCopy(source, Len(source), args.blockSize, args.input = args.output)
           IN  [files |-> [p \in DOMAIN files \cup {args.output} |-> IF p = args.output THEN copy.file ELSE files[p]],
                out |-> copy.saved]

-----------------------------------------------------------------------------
(* Properties of one copy: c has the data, what stood in the destination,  *)
(* the length that was expected and the block size.                        *)

\* The ways in which reads can cut the data.
Reads(data) ==
    LET piece(cuts, k) == SubSeq(data, (IF k = 1 THEN 0 ELSE SetToSortSeq(cuts, <)[k - 1]) + 1,
                                 IF k > Len(SetToSortSeq(cuts, <)) THEN Len(data) ELSE SetToSortSeq(cuts, <)[k])
    IN  {[k \in 1..Cardinality(cuts) + 1 |-> piece(cuts, k)] : cuts \in SUBSET (1..Len(data) - 1)}

\* A copy over nothing or over an earlier attempt at the same copy that was
\* given up is exact, and one over other bytes is wrong in zero blocks only; a
\* source that grew or shrank since its length was taken is cut or filled up.
Exact(c) ==
    LET zeros == {i \in DOMAIN c.data : IsAllZero(Blocks(c.data, c.size)[(i - 1) \div c.size + 1])}
        over(old) == SparseCopyReader(c.data, old, c.sizeIn, c.size)
    IN  /\ SparseCopy(c.data, c.sizeIn, c.size, FALSE).file = SetLen(c.data, c.sizeIn)
        /\ \A n \in 0..Len(Blocks(c.data, c.size)):
              over(GivenUp(c.data, <<>>, c.sizeIn, c.size, n)).file = SetLen(c.data, c.sizeIn)
        /\ \A i \in 1..c.sizeIn:
              over(c.old).file[i] =
                 IF i \in DOMAIN c.old /\ (i \in zeros \/ i > Len(c.data)) THEN c.old[i] ELSE SetLen(c.data, c.sizeIn)[i]
        /\ \A batch \in 1..3: CopyReaderBatched(c.data, batch) = c.data

\* The pages that are counted before a copy, while hashing however the reads
\* fall, and by the copy are the same; and the bytes it saves are the zeros in
\* them and in a last short block.
Counted(c) ==
    LET copy == SparseCopy(c.data, c.sizeIn, c.size, FALSE)
        zeros == SelectSeq(Blocks(c.data, c.size), IsAllZero)
    IN  /\ copy.zeroBlocks = SparsePageCount(c.data, c.size)
        /\ \A reads \in Reads(c.data): HashOne(reads, c.size) = copy.zeroBlocks
        /\ copy.saved = Len(FlattenSeq(zeros))

\* The program does to the output what it is asked to and nothing to another
\* file, but a file that is copied onto itself is lost: it is all zeros then.
ProgramExact(c) ==
    \A args \in [input : {"in"}, output : {"in", "out"}, blockSize : {0, c.size}, listOnly : BOOLEAN]:
        LET files == [p \in {"in", "out"} |-> IF p = "in" THEN c.data ELSE c.old]
            run == Run(files, args)
        IN  /\ args.output # "in" \/ args.listOnly \/ args.blockSize = 0 => run.files["in"] = c.data
            /\ args.listOnly \/ args.blockSize = 0 => run.files = files
            /\ ~args.listOnly /\ args.blockSize > 0 =>
                  run.files[args.output] = IF args.output = "in" THEN SetLen(<<>>, Len(c.data)) ELSE c.data
=============================================================================
