----------------------------- MODULE TypedArrays -----------------------------
(***************************************************************************)
(* The value of an array type (TypedArrayCore, ArrayType): dimension       *)
(* lengths, and one block of memory that holds the elements.               *)
(*                                                                         *)
(* Dimensions are listed from the innermost to the outermost, as in the    *)
(* code; offsets are counted in elements, from 0.  A block that is         *)
(* allocated or grown holds Junk where nothing has been stored yet.  There *)
(* is memory enough; and nothing is stored behind the end of a block: what *)
(* happens then is undefined, and operations whose result does not fit an  *)
(* array of bounded size are used only where it fits (Fits).               *)
(***************************************************************************)
EXTENDS Integers, Sequences, FiniteSets, FiniteSetsExt, SequencesExt

CONSTANTS
  Variable,  \* the length of a dimension of a type that is not bounded
  Default,   \* the default value of an element
  Junk       \* what memory holds that nobody has initialized

\* A type lists, for each dimension, Variable, the length of a dimension of
\* fixed length, or the negative of a bound.
IsVariable(d) == d = Variable
IsFixed(d) == d >= 0
IsBounded(d) == d < 0 /\ ~ IsVariable(d)

RECURSIVE Product(_)
Product(s) == IF s = << >> THEN 1 ELSE Head(s) * Product(Tail(s))

\* Rank and InternalCalculateLength.
ArrayRank(a) == Len(a.dims)
ArrayLen(a) == Product(a.dims)
Capacity(a) == Len(a.mem)

\* What a dimension takes in memory.
DimCapacity(d, len) == IF IsFixed(d) THEN d ELSE IF IsVariable(d) THEN len ELSE -d
DimLength(d, len) ==
  IF IsFixed(d) THEN d ELSE IF IsVariable(d) THEN len ELSE Min({len, -d})

\* SlabLengths, in elements: a bounded dimension takes its bound.
Slabs(a) ==
  [i \in DOMAIN a.dims |-> Product([k \in 1 .. i - 1 |-> DimCapacity(a.type[k], a.dims[k])])]

Cell(a, at) == IF at \in 0 .. Capacity(a) - 1 THEN a.mem[at + 1] ELSE Junk
Cells(a, at, n) == [k \in 1 .. n |-> Cell(a, at + k - 1)]
Contents(a) == Cells(a, 0, ArrayLen(a))

\* CopyData of a run of elements.
Stored(a, at, xs) ==
  [a EXCEPT !.mem = [k \in DOMAIN @ |-> IF k - at \in DOMAIN xs THEN xs[k - at] ELSE @[k]]]

Defaults(n) == [k \in 1 .. n |-> Default]

\* The lengths asked for; where too few are given, inner dimensions stay as they are.
Untouched(a, lens) == Max({0, ArrayRank(a) - Len(lens)})
Requested(a, lens) ==
  [i \in DOMAIN a.dims |-> IF i <= Untouched(a, lens) THEN a.dims[i] ELSE lens[i - Untouched(a, lens)]]

\* AQRealloc: what fits of the old block is kept.
Reallocated(a, n) == [a EXCEPT !.mem = [k \in 1 .. n |-> IF k \in DOMAIN @ THEN @[k] ELSE Junk]]

(***************************************************************************)
(* ResizeDimensions.  A request beyond a fixed length is refused, yet the  *)
(* lengths are set; a request beyond a bound is cut.  Without preserve all *)
(* elements are initialized, with it those that are new, unless noInit.    *)
(***************************************************************************)
FixedFits(a, req) == \A i \in DOMAIN a.dims : IsFixed(a.type[i]) => req[i] <= a.type[i]
ResizeFits(a, lens) == FixedFits(a, Requested(a, lens))

LengthsFor(a, req) == [i \in DOMAIN req |-> DimLength(a.type[i], req[i])]
CapacityFor(a, req) == Product([i \in DOMAIN req |-> DimCapacity(a.type[i], req[i])])

\* The block moves only where it must: with noInit a smaller one stays.
MovedTo(a, cap, noInit) ==
  IF IF noInit THEN cap > Capacity(a) ELSE cap # Capacity(a) THEN Reallocated(a, cap) ELSE a

ResizedBlock(a, req, fits, noInit) ==
  [(IF fits THEN MovedTo(a, CapacityFor(a, req), noInit) ELSE a) EXCEPT !.dims = LengthsFor(a, req)]

InitializedFrom(a, at) == Stored(a, at, Defaults(ArrayLen(a) - at))

Initialized(a, old, preserve, noInit) ==
  IF ~ preserve THEN InitializedFrom(a, 0)
  ELSE IF ArrayLen(a) > old /\ ~ noInit THEN InitializedFrom(a, old) ELSE a

\* Mutants: the new length is taken for the old one; a bound does not cut a request.
ResizeDimensionsCommitted(a, lens, preserve, noInit) ==
  LET b == ResizedBlock(a, Requested(a, lens), ResizeFits(a, lens), noInit)
  IN  Initialized(b, ArrayLen(b), preserve, noInit)

ResizeDimensionsUncut(a, lens, preserve, noInit) ==
  LET req == Requested(a, lens)
  IN  Initialized([MovedTo(a, CapacityFor(a, req), noInit) EXCEPT !.dims = req], ArrayLen(a), preserve, noInit)

ResizeDimensions(a, lens, preserve, noInit) ==
  LET fits == ResizeFits(a, lens)
  IN  Initialized(ResizedBlock(a, Requested(a, lens), fits, noInit), ArrayLen(a), preserve, noInit \/ ~ fits)

Resize1D(a, n) == ResizeDimensions(a, << n >>, TRUE, FALSE)
Resize1DNoInit(a, n) == ResizeDimensions(a, << n >>, TRUE, TRUE)

\* TypedArrayCore::TypedArrayCore: all dimensions of length 0 where the type allows.
NewArray(type) ==
  ResizeDimensions([type |-> type, dims |-> [i \in DOMAIN type |-> 0], mem |-> << >>],
                   [i \in DOMAIN type |-> 0], FALSE, FALSE)

\* A vector can take n elements.
Fits(a, n) == IF IsVariable(a.type[1]) THEN TRUE ELSE n <= DimCapacity(a.type[1], n)

End == -1

\* Insert1D: room is made at the end, and the tail moved into it.
Position(a, position) == IF position = End THEN ArrayLen(a) ELSE position
Spread(a, at, xs) ==
  Stored(Stored(Resize1DNoInit(a, ArrayLen(a) + Len(xs)), at + Len(xs), Cells(a, at, ArrayLen(a) - at)), at, xs)
Insert1D(a, position, xs) ==
  IF xs = << >> \/ ~ ResizeFits(a, << ArrayLen(a) + Len(xs) >>) THEN a ELSE Spread(a, Position(a, position), xs)

\* Remove1D: the tail is moved down before the array is made smaller.
Remove1D(a, position, n) ==
  Resize1D(Stored(a, position, Cells(a, position + n, ArrayLen(a) - (position + n))), ArrayLen(a) - n)

\* Replace1D: elements are added or cut off at the end, then all are copied.
ReachingTo(a, old, need, truncate) ==
  IF need > old THEN Insert1D(a, old, [k \in 1 .. need - old |-> Junk])
  ELSE IF truncate /\ need < old THEN Remove1D(a, need, old - need) ELSE a
Replace1D(a, position, xs, truncate) ==
  LET at == Position(a, position)
  IN  Stored(ReachingTo(a, ArrayLen(a), at + Len(xs), truncate), at, xs)

NoCell == -1

Dot(t, slabs) == MapThenSumSet(LAMBDA i : t[i] * slabs[i], DOMAIN t)

\* BeginAtND: the offset of an element, the dot product of the indexes and the slab
\* lengths; there is none if an index is out of its dimension.
Offset(a, index) ==
  IF Len(index) <= ArrayRank(a) /\ \A i \in DOMAIN index : index[i] \in 0 .. a.dims[i] - 1
  THEN Dot(index, Slabs(a))
  ELSE NoCell

\* ArrayType::CopyData: the elements are copied as one block.
CopiedArray(src, dst) ==
  IF ArrayRank(src) # ArrayRank(dst) \/ ~ ResizeFits(dst, src.dims) THEN dst
  ELSE Stored(ResizeDimensions(dst, src.dims, TRUE, FALSE), 0, Contents(src))

\* The index tuples of a block of these lengths.
IndexTuples(lens) ==
  {t \in [DOMAIN lens -> 0 .. Max({0} \cup ToSet(lens))] : \A i \in DOMAIN lens : t[i] < lens[i]}

\* ArrayToArrayCopyHelper: dst, from offset at on with the slab lengths dslabs, gets
\* the block of src that begins at offset from.
CopiedBlock(dst, at, dslabs, src, from, lens, sslabs) ==
  LET moves == {<< at + Dot(t, dslabs), from + Dot(t, sslabs) >> : t \in IndexTuples(lens)}
  IN  [dst EXCEPT !.mem = [k \in DOMAIN @ |->
         IF \E m \in moves : m[1] = k - 1
         THEN Cell(src, (CHOOSE m \in moves : m[1] = k - 1)[2]) ELSE @[k]]]
=============================================================================
