------------------------------- MODULE Arrays -------------------------------
(***************************************************************************)
(* The array instructions (source/core/Array.cpp).                         *)
(*                                                                         *)
(* A heap h maps the names of the variables of a program to their arrays;  *)
(* a scalar is an array of rank 0.  An instruction works on names, and two *)
(* of its operands may have the same one: it then works in place, and what *)
(* it writes it reads again.  Its outcome is the heap it leaves, and       *)
(* whether execution goes on or is stopped.                                *)
(*                                                                         *)
(* Indexes and lengths may be Unwired: the instruction gets no pointer.    *)
(* Lists of indexes are in the order of the instruction's arguments.       *)
(***************************************************************************)
EXTENDS TypedArrays

CONSTANT Unwired  \* an argument that is not given

Wired(x) == x # Unwired
Given(x, otherwise) == IF Wired(x) THEN x ELSE otherwise
AtLeast0(n) == Max({n, 0})

Goes(h) == [h |-> h, ok |-> TRUE]
Stops(h) == [h |-> h, ok |-> FALSE]

Scalar(v) == [type |-> << >>, dims |-> << >>, mem |-> << v >>]
SetScalar(h, x, v) == [h EXCEPT ![x] = Stored(@, 0, << v >>)]
Value(h, x) == Cell(h[x], 0)
IsScalar(h, x) == ArrayRank(h[x]) = 0

\* A vector is resized; elements are copied between variables.
Resized(h, x, n) == [h EXCEPT ![x] = Resize1D(@, n)]
Put(h, x, at, xs) == [h EXCEPT ![x] = Stored(@, at, xs)]
Copied(h, src, dst) == IF src = dst THEN h ELSE [h EXCEPT ![dst] = CopiedArray(h[src], @)]

-----------------------------------------------------------------------------
(* Sizes.                                                                   *)

\* ArrayLengthN and ArrayDimensions list the lengths from the outermost and from
\* the innermost dimension on.
ArrayLengthN(h, in, out) ==
  Goes([h EXCEPT ![out] = Stored(Resize1D(@, ArrayRank(h[in])), 0, Reverse(h[in].dims))])

ArrayDimensions(h, in, out) == Goes([h EXCEPT ![out] = Replace1D(@, 0, h[in].dims, TRUE)])

ArrayResizeDimensions(h, x, lens) ==
  Goes([h EXCEPT ![x] = ResizeDimensions(@, lens, FALSE, FALSE)])

IsEmptyArray(h, x) == ArrayLen(h[x]) = 0

ArrayFill(h, x, n, v) ==
  IF ResizeFits(h[x], << AtLeast0(n) >>)
  THEN Goes(Put(Resized(h, x, AtLeast0(n)), x, 0, [k \in 1 .. AtLeast0(n) |-> v]))
  ELSE Goes(Resized(h, x, AtLeast0(n)))

ArrayFillNDV(h, x, v, lens) ==
  LET b == ResizeDimensions(h[x], [i \in DOMAIN lens |-> AtLeast0(Given(lens[i], 0))], FALSE, FALSE)
  IN  Goes([h EXCEPT ![x] = Stored(b, 0, [k \in 1 .. ArrayLen(b) |-> v])])

-----------------------------------------------------------------------------
(* Elements.                                                                *)

ArrayIndexElt(h, in, index, out) ==
  Goes(SetScalar(h, out, IF index \in 0 .. ArrayLen(h[in]) - 1 THEN Cell(h[in], index) ELSE Default))

\* BeginAtNDIndirect takes an index that is not wired for 0.
OffsetIndirect(a, index) == Offset(a, [i \in DOMAIN index |-> Given(index[i], 0)])

ArrayIndexEltNDV(h, in, out, index) ==
  LET at == OffsetIndirect(h[in], index)
  IN  Goes(SetScalar(h, out, IF at = NoCell THEN Default ELSE Cell(h[in], at)))

ArrayReplaceEltNDV(h, out, in, elt, index) ==
  LET g == Copied(h, in, out)
      at == OffsetIndirect(g[out], index)
  IN  Goes(IF at = NoCell THEN g ELSE Put(g, out, at, << Value(g, elt) >>))

ArrayReplaceElt(h, out, in, index, elt) ==
  LET g == Copied(h, in, out)
  IN  Goes(IF index \in 0 .. ArrayLen(h[in]) - 1 THEN Put(g, out, index, << Value(g, elt) >>) ELSE g)

ArrayAppendElt(h, x, elt) ==
  Goes([h EXCEPT ![x] = Insert1D(@, ArrayLen(@), << Value(h, elt) >>)])

ArrayInsertElt(h, out, in, index, elt) ==
  LET at == Given(index, ArrayLen(h[in]))
      g == Copied(h, in, out)
  IN  Goes(IF at \in 0 .. ArrayLen(h[in]) THEN [g EXCEPT ![out] = Insert1D(@, at, << Value(g, elt) >>)]
           ELSE g)

\* Row and column c of a matrix, whose indexes are given column first.
RowOf(a, r) == [k \in 1 .. a.dims[1] |-> Cell(a, Offset(a, << k - 1, r >>))]
ColumnOf(a, c) == [k \in 1 .. a.dims[2] |-> Cell(a, Offset(a, << c, k - 1 >>))]

\* An element, a column or a row; out of bounds the output is left as it is.
ArrayIndexElt2DV(h, in, row, col, out) ==
  LET a == h[in]
      r == Given(row, 0)
      inRows == r \in 0 .. a.dims[2] - 1
      inCols == col \in 0 .. a.dims[1] - 1
      vector(xs) == Put(Resized(h, out, Len(xs)), out, 0, xs)
  IN  Goes(CASE Wired(row) /\ Wired(col) ->
                  IF inRows /\ inCols THEN SetScalar(h, out, Cell(a, Offset(a, << col, r >>))) ELSE h
             [] Wired(col) /\ ~ Wired(row) -> IF inCols THEN vector(ColumnOf(a, col)) ELSE h
             [] OTHER -> IF inRows THEN vector(RowOf(a, r)) ELSE h)

-----------------------------------------------------------------------------
(* Sub-arrays: in a list of indexes those that are not wired stand for a    *)
(* whole dimension.  If none is wired the first of them is 0.               *)

NoneWired(index) == \A k \in DOMAIN index : ~ Wired(index[k])
FreeDims(index) == {k \in DOMAIN index : ~ Wired(index[k]) /\ ~ (k = 1 /\ NoneWired(index))}
IndexAt(index) == [k \in DOMAIN index |-> Given(index[k], 0)]

\* The values of f at the free places, the innermost first.
RECURSIVE FreeUpTo(_, _, _)
FreeUpTo(index, f, k) ==
  IF k = 0 THEN << >>
  ELSE (IF k \in FreeDims(index) THEN << f[k] >> ELSE << >>) \o FreeUpTo(index, f, k - 1)
FreeOf(index, f) == FreeUpTo(index, f, Len(index))

ArrayIndexND(h, in, out, index) ==
  LET a == h[in]
      outermost == Reverse(a.dims)
      at == IndexAt(index)
      out_of_range(k) == at[k] \notin 0 .. outermost[k] - 1
      from(k) == \E i \in 1 .. k : out_of_range(i)
      empty == \E k \in DOMAIN index : out_of_range(k)
      lens == FreeOf(index, [k \in DOMAIN index |-> IF from(k) THEN 0 ELSE outermost[k] - at[k]])
      n == Len(lens)
      start == Offset(a, Reverse(at))
      resized == ResizeDimensions(h[out], [j \in 1 .. n |-> IF empty /\ j = n THEN 0 ELSE lens[j]],
                                  FALSE, FALSE)
  IN  CASE Len(index) # ArrayRank(a) -> Stops(h)
        [] Len(index) = ArrayRank(a) /\ n = 0 ->
             Goes(SetScalar(h, out, IF empty THEN Default ELSE Cell(a, start)))
        [] Len(index) = ArrayRank(a) /\ n > 0 /\ ArrayRank(h[out]) # n -> Stops(h)
        [] OTHER ->
             Goes([h EXCEPT ![out] = IF empty THEN resized
               ELSE CopiedBlock(resized, 0, Slabs(resized), a, start, lens,
                                FreeOf(index, Reverse(Slabs(a))))])

(***************************************************************************)
(* ArrayReplaceSubset: pairs of an index and the name of what to put there *)
(* (an element, or as much of a vector as fits).  An index that is not     *)
(* wired is the one behind the last one.                                   *)
(***************************************************************************)
NextIndex(last) == IF last >= 0 THEN last + 1 ELSE 0

ReplacedPart(acc, out, index, new) ==
  LET idx == Given(index, NextIndex(acc.idx))
      a == acc.h[out]
      xs == IF IsScalar(acc.h, new) THEN << Value(acc.h, new) >> ELSE Contents(acc.h[new])
      n == Min({Len(xs), ArrayLen(a) - idx})
  IN  IF ~ acc.ok THEN acc
      ELSE IF out = new THEN [acc EXCEPT !.ok = FALSE]
      ELSE [acc EXCEPT !.idx = idx,
              !.h = IF idx \in 0 .. ArrayLen(a) - 1 THEN Put(@, out, idx, SubSeq(xs, 1, n)) ELSE @]

ArrayReplaceSubset(h, out, in, pairs) ==
  LET done == FoldLeft(LAMBDA acc, p : ReplacedPart(acc, out, p.index, p.new),
                       [h |-> Copied(h, in, out), idx |-> -1, ok |-> TRUE], pairs)
  IN  [h |-> done.h, ok |-> done.ok]

\* replace2dArray: a column if there is one, else a row, or an element.
Replaced2D(h, out, in, new, row, col) ==
  LET lens == h[in].dims
      xs == Contents(h[new])
      r == IF row < -1 THEN 0 ELSE row
      element(acc, c, w, x) == Put(acc, out, Offset(acc[out], << c, w >>), << x >>)
  IN  IF IsScalar(h, new)
      THEN IF col \in 0 .. lens[1] - 1 /\ row \in 0 .. lens[2] - 1
           THEN element(h, col, row, Value(h, new)) ELSE h
      ELSE IF col >= 0
      THEN IF col >= lens[1] THEN h
           ELSE FoldLeftDomain(LAMBDA acc, k : element(acc, col, k - 1, xs[k]),
                               h, SubSeq(xs, 1, Min({lens[2], Len(xs)})))
      ELSE IF r >= lens[2] THEN h
      ELSE FoldLeftDomain(LAMBDA acc, k : element(acc, k - 1, r, xs[k]),
                          h, SubSeq(xs, 1, Min({lens[1], Len(xs)})))

\* ArrayReplaceSubset2DV: triples of row, column and what to put there.
Replaced2DPart(acc, out, in, p) ==
  LET row == Given(p.row, NextIndex(acc.row))
      col == Given(p.col, NextIndex(acc.col))
      none == ~ Wired(p.row) /\ ~ Wired(p.col)
      scalar == IsScalar(acc.h, p.new)
      r == IF scalar /\ none THEN (IF row > 0 THEN row - 1 ELSE 0) ELSE row
      c == IF ~ scalar /\ ~ Wired(p.col) THEN -1 ELSE col
  IN  [h |-> Replaced2D(acc.h, out, in, p.new, r, c), row |-> r, col |-> c]

ArrayReplaceSubset2DV(h, out, in, parts) ==
  Goes(FoldLeft(LAMBDA acc, p : Replaced2DPart(acc, out, in, p),
                [h |-> Copied(h, in, out), row |-> -1, col |-> -1], parts).h)

\* ArrayReplaceSubsetND: one block; indexes are brought into the array.
Clipped(index, outermost) == [k \in DOMAIN index |-> Min({AtLeast0(IndexAt(index)[k]), outermost[k]})]

BlockReplaced(a, index, start, new, room) ==
  IF room = << >> THEN Stored(a, start, << Cell(new, 0) >>)
  ELSE CopiedBlock(a, start, FreeOf(index, Reverse(Slabs(a))), new, 0,
                   [j \in DOMAIN room |-> Min({new.dims[j], room[j]})], Slabs(new))

\* Nothing is replaced where an index is behind the end.
ReplacedAt(a, index, at, new) ==
  IF \E k \in DOMAIN at : at[k] = a.dims[Len(at) + 1 - k] THEN a
  ELSE BlockReplaced(a, index, Offset(a, Reverse(at)), new, FreeOf(index, Reverse(a.dims)))

ReplacedND(g, out, index, new) ==
  IF Len(index) # ArrayRank(g[out]) \/ ArrayRank(g[new]) # Cardinality(FreeDims(index)) THEN Stops(g)
  ELSE Goes([g EXCEPT ![out] = ReplacedAt(@, index, Clipped(index, Reverse(@.dims)), g[new])])

ArrayReplaceSubsetND(h, out, in, index, new) ==
  IF ArrayRank(h[out]) = 1 THEN ArrayReplaceSubset(h, out, in, << [index |-> index[1], new |-> new] >>)
  ELSE ReplacedND(Copied(h, in, out), out, index, new)
=============================================================================
