----------------------------- MODULE ArrayLaws -----------------------------
(***************************************************************************)
(* What the array instructions promise, said of index tuples and elements  *)
(* and not of the memory they work on.                                     *)
(***************************************************************************)
EXTENDS GenericLaws

Moved(t, i) == [k \in DOMAIN t |-> t[k] + i[k]]
Shift(t, d, n) == [t EXCEPT ![d] = @ + n]
Dimension(a, dim) == ArrayRank(a) - Given(dim, 0)

\* ArrayIndexND: the places that are not wired are what is left of the index.
PartAt(c, h, t) ==
  LET n == Len(c.index)
      free == FreeOf(c.index, [k \in 1 .. n |-> k])
  IN  [i \in 1 .. n |-> IF \E j \in DOMAIN free : free[j] = n + 1 - i
                        THEN t[CHOOSE j \in DOMAIN free : free[j] = n + 1 - i]
                        ELSE Given(c.index[n + 1 - i], 0)]

IsPart(c, h, g) ==
  LET lens == FreeOf(c.index, Reverse(h[c.in].dims))
  IN  (\A k \in DOMAIN c.index : Given(c.index[k], 0) \in 0 .. h[c.in].dims[Len(c.index) + 1 - k] - 1)
        => Shows(g[c.out], lens, LAMBDA t : At(h[c.in], PartAt(c, h, t)))

\* ArraySubsetND, which in place leaves nothing but defaults.
IsSubset(c, h, g) ==
  LET n == ArrayRank(h[c.in])
      idx == [i \in 1 .. n |-> AtLeast0(Given(c.index[n + 1 - i], 0))]
      lens == [i \in 1 .. n |-> PartLength(h[c.in].dims[i], idx[i], c.lens[n + 1 - i])]
  IN  c.out # c.in => Shows(g[c.out], lens, LAMBDA t : At(h[c.in], Moved(t, idx)))

\* ArrayInsertSubsetND: what does not fit is cut off, what is missing is zero.
IsInserted(c, h, g) ==
  LET a == h[c.in]
      d == Dimension(a, c.dim)
      idx == Given(c.index, a.dims[d])
      new == h[c.new]
      row(t) == IF ArrayRank(new) = ArrayRank(a) THEN Shift(t, d, -idx) ELSE RemoveAt(t, d)
      n == IF ArrayRank(new) = ArrayRank(a) THEN new.dims[d] ELSE 1
  IN  d \in DOMAIN a.dims /\ ArrayLen(a) > 0 /\ idx \in 0 .. a.dims[d] /\ n > 0 =>
        Shows(g[c.out], [a.dims EXCEPT ![d] = @ + n],
              LAMBDA t : IF t[d] < idx THEN At(a, t)
                         ELSE IF t[d] >= idx + n THEN At(a, Shift(t, d, -n))
                         ELSE IF row(t) \in IndexTuples(new.dims) THEN At(new, row(t)) ELSE 0)

\* ArrayDeleteND: the rows from the first to the last that is deleted.
IsDeleted(c, h, g) ==
  LET a == h[c.in]
      d == Dimension(a, c.dim)
      len == Given(c.length, 1)
      off == Given(c.index, a.dims[d] - len)
      inside == {i \in 0 .. a.dims[d] - 1 : i >= off /\ i < off + len}
      rows == IF ArrayRank(h[c.part]) < ArrayRank(a) /\ inside # {} THEN {Min(inside)} ELSE inside
      n == Cardinality(rows)
  IN  d \in DOMAIN a.dims /\ ArrayLen(a) > 0 /\ (ArrayRank(a) > 1 \/ c.in # c.out) =>
        /\ Shows(g[c.out], [a.dims EXCEPT ![d] = @ - n],
                 LAMBDA t : At(a, IF \E i \in rows : i <= t[d] THEN Shift(t, d, n) ELSE t))
        /\ n > 0 => IF ArrayRank(h[c.part]) = ArrayRank(a)
                    THEN Shows(g[c.part], [a.dims EXCEPT ![d] = n],
                               LAMBDA t : At(a, Shift(t, d, Min(rows))))
                    ELSE Shows(g[c.part], RemoveAt(a.dims, d),
                               LAMBDA t : At(a, InsertAt(t, d, Min(rows))))

\* ArrayReplaceSubsetND: the block of the new elements that fits.
IsReplaced(c, h, g) ==
  LET a == h[c.in]
      n == ArrayRank(a)
      free == FreeOf(c.index, [k \in 1 .. n |-> n + 1 - k])
      at == [i \in 1 .. n |-> AtLeast0(Given(c.index[n + 1 - i], 0))]
      from(t) == [j \in DOMAIN free |-> t[free[j]] - at[free[j]]]
      inside(t) == /\ \A i \in 1 .. n : i \in ToSet(free) \/ t[i] = at[i]
                   /\ from(t) \in IndexTuples(h[c.new].dims)
  IN  Shows(g[c.out], a.dims, LAMBDA t : IF inside(t) THEN At(h[c.new], from(t)) ELSE At(a, t))

\* Where an element stands if all are listed, the innermost dimension first.
PlaceOf(t, lens) == Dot(t, [i \in DOMAIN lens |-> Product(SubSeq(lens, 1, i - 1))])

\* ArrayReshape: each element keeps its place, and new ones have the default value.
IsReshaped(c, h, g) ==
  LET a == h[c.in]
      lens == Reverse(c.lens)
      same(t) == {u \in IndexTuples(a.dims) : PlaceOf(u, a.dims) = PlaceOf(t, lens)}
  IN  c.out # c.in /\ (\A k \in DOMAIN lens : Given(lens[k], 0) > 0)
        => Shows(g[c.out], lens, LAMBDA t : IF same(t) = {} THEN Default ELSE At(a, CHOOSE u \in same(t) : TRUE))

IsTransposed(c, h, g) ==
  c.out # c.in => Shows(g[c.out], Reverse(h[c.in].dims), LAMBDA t : At(h[c.in], Reverse(t)))

IsRotated(c, h, g) ==
  LET n == ArrayLen(h[c.in])
  IN  /\ ArrayLen(g[c.out]) = n
      /\ \A i \in 0 .. n - 1 : Cell(g[c.out], (i + c.index) % n) = Cell(h[c.in], i)

IsSortedCopy(c, h, g) ==
  LET xs == Contents(g[c.out])
      count(ys, x) == Cardinality({k \in DOMAIN ys : ys[k] = x})
  IN  c.out # c.in =>
        /\ \A k \in 1 .. Len(xs) - 1 : ~ LT(xs[k + 1], xs[k])
        /\ \A x \in ToSet(xs) \cup ToSet(Contents(h[c.in])) : count(xs, x) = count(Contents(h[c.in]), x)

\* ArrayMaxMinInternal: where it points there is an element that no other exceeds.
IsExtreme(c, h, g) ==
  LET a == h[c.in]
      numbers == ToSet(Contents(a)) \ {NaN}
  IN  numbers # {} /\ ArrayRank(a) = 2 =>
        /\ At(a, Reverse(Contents(g[c.maxIndex]))) = Value(g, c.max)
        /\ At(a, Reverse(Contents(g[c.minIndex]))) = Value(g, c.min)
        /\ \A x \in numbers : ~ LT(Value(g, c.max), x) /\ ~ LT(x, Value(g, c.min))

\* The instructions that work on the memory of matrices and cubes do what they do to
\* rows, columns and pages; sorting and searching keep and find all elements; what is
\* done to arrays and clusters of any type is done to each of their elements.
ArraysAsDefined ==
  [][running' =>
       CASE call'.op = "ArrayIndexND" -> IsPart(call', heap, heap')
         [] call'.op = "ArraySubsetND" -> IsSubset(call', heap, heap')
         [] call'.op = "ArrayInsertSubsetND" -> IsInserted(call', heap, heap')
         [] call'.op = "ArrayDeleteND" -> IsDeleted(call', heap, heap')
         [] call'.op = "ArrayReplaceSubsetND" -> IsReplaced(call', heap, heap')
         [] call'.op = "ArrayReshape" -> IsReshaped(call', heap, heap')
         [] call'.op = "ArrayTranspose" -> IsTransposed(call', heap, heap')
         [] call'.op = "ArrayRotate" -> IsRotated(call', heap, heap')
         [] call'.op = "Sort1DArrayInternal" -> IsSortedCopy(call', heap, heap')
         [] call'.op = "ArrayMaxMinInternal" -> IsExtreme(call', heap, heap')
         [] OTHER -> GenericAsDefined(call', heap, heap', answer')]_dataVars

\* The instructions that take one array, or string, for input and output.
WorksInPlace ==
  {"ArrayReplaceElt", "ArrayReplaceEltNDV", "ArrayReplaceSubset", "ArrayReplaceSubset2DV",
   "ArrayReplaceSubsetND", "ArrayInsertElt", "ArrayInsertSubset", "ArrayInsertSubsetND",
   "ArraySubset", "SearchSplitString", "StringToUpper", "StringToLower", "UnaryOp"}

\* A matrix is resized to the lengths of the result before its elements are read.
KeepsLengths(c) ==
  c.out \in {c.in, c.other} /\ (ArrayRank(heap[c.out]) < 2 \/ heap[c.out].dims = CommonLengths(heap, {c.in, c.other}))

InPlace(c) ==
  \/ c.op \in WorksInPlace /\ c.in = c.out
  \/ c.op = "ArrayDeleteND" /\ c.in = c.out /\ ArrayRank(heap[c.in]) > 1 /\ ArrayLen(heap[c.in]) > 0
  \/ c.op = "BinaryOp" /\ KeepsLengths(c)
  \/ c.op = "ArrayConcatenateInternal" /\ c.out \in ToSet(c.ins)

SameArray(a, b) == a.dims = b.dims /\ Shown(a) = Shown(b)

\* An instruction whose output is its input, and which is not refused, leaves there
\* what it would have stored in another variable.
SameInPlace ==
  [][running' /\ InPlace(call') =>
       \A apart \in {Outcome(heap, [call' EXCEPT !.out = Twin[call'.out]])} :
         SameArray(heap'[call'.out], apart.h[Twin[call'.out]])]_dataVars

\* The index at which a rising vector reaches a value is the one at which it is
\* interpolated to that value.
ThresholdInverts(c, h, a) ==
  LET xs == Contents(h[c.in])
      inverse == ArrayInterpolate(xs, a)
  IN  /\ Len(xs) > 1 /\ ~ Wired(c.index)
      /\ \A k \in 1 .. Len(xs) - 1 : LT(xs[k], xs[k + 1])
      /\ ~ LT(c.value, xs[1]) /\ ~ LT(xs[Len(xs)], c.value)
      => inverse[1] = c.value * inverse[2]
=============================================================================
