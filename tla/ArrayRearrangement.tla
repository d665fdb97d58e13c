------------------------- MODULE ArrayRearrangement -------------------------
(***************************************************************************)
(* The instructions that cut, join, reorder and search arrays              *)
(* (source/core/Array.cpp).  Operands are names in a heap, as in Arrays.   *)
(* Rows and columns are put in and taken out only where the type has no    *)
(* bounded dimension: the code moves cells as if there were no gaps.  Two  *)
(* things are undefined, and are not asked of them: the insertion into a   *)
(* vector beyond its ends (ArrayInsertSubsetND), and the deletion of less  *)
(* than no rows with a part of the same rank.                              *)
(***************************************************************************)
EXTENDS Arrays

CONSTANTS
  NaN,       \* an element of a floating point type that is no number
  Infinity   \* and one that is greater than all others

LT(x, y) == x # NaN /\ y # NaN /\ x # Infinity /\ (y = Infinity \/ x < y)

-----------------------------------------------------------------------------
(* Parts.                                                                   *)

\* How much of n elements a sub-array takes that begins at idx.
PartLength(n, idx, len) == LET max == AtLeast0(n - idx) IN Min({AtLeast0(Given(len, max)), max})

\* Mutant: nothing stops an instruction that would have to move elements in place.
ArraySubsetAnywhere(h, out, in, index, length) ==
  LET idx == AtLeast0(Given(index, 0))
      n == PartLength(ArrayLen(h[in]), idx, length)
      g == Resized(h, out, n)
  IN  Goes(IF idx < ArrayLen(g[in]) /\ out # in THEN Put(g, out, 0, Cells(h[in], idx, n)) ELSE g)

ArraySubset(h, out, in, index, length) ==
  LET idx == AtLeast0(Given(index, 0))
      n == PartLength(ArrayLen(h[in]), idx, length)
      g == Resized(h, out, n)
  IN  IF out = in /\ idx # 0 THEN Stops(h)
      ELSE Goes(IF idx < ArrayLen(g[in]) /\ out # in THEN Put(g, out, 0, Cells(h[in], idx, n)) ELSE g)

\* Where the output is the input it is cleared, and nothing is copied.
ArraySubsetND(h, out, in, index, length) ==
  LET a == h[in]
      n == ArrayRank(h[out])
      idx == [i \in 1 .. n |-> AtLeast0(Given(index[n + 1 - i], 0))]
      lens == [i \in 1 .. n |-> PartLength(a.dims[i], idx[i], length[n + 1 - i])]
      b == ResizeDimensions(h[out], lens, FALSE, FALSE)
  IN  IF n < 2 \/ Len(index) # n \/ (out = in /\ \E i \in 1 .. n : idx[i] # 0) THEN Stops(h)
      ELSE Goes([h EXCEPT ![out] =
             IF out = in \/ \E i \in 1 .. n : lens[i] = 0 THEN b
             ELSE CopiedBlock(b, 0, Slabs(b), a, Offset(a, idx), lens, Slabs(a))])

ArraySplit(h, first, second, in, index) ==
  LET all == Contents(h[in])
      n == Min({AtLeast0(index), Len(all)})
      g == Put(Resized(h, first, n), first, 0, SubSeq(all, 1, n))
  IN  Goes(Put(Resized(g, second, Len(all) - n), second, 0, SubSeq(all, n + 1, Len(all))))

-----------------------------------------------------------------------------
(* Insertion.                                                               *)

Joined(h, out, in, idx, new) ==
  LET xs == Contents(h[new])
      old == Contents(h[in])
  IN  IF out = in THEN [h EXCEPT ![out] = Insert1D(@, idx, xs)]
      ELSE Put(Resized(h, out, Len(old) + Len(xs)), out, 0,
               SubSeq(old, 1, idx) \o xs \o SubSeq(old, idx + 1, Len(old)))

ArrayInsertSubset(h, out, in, index, new) ==
  LET idx == Given(index, ArrayLen(h[in]))
  IN  IF ArrayRank(h[out]) # 1 \/ out = new THEN Stops(h)
      ELSE Goes(IF idx \in 0 .. ArrayLen(h[in]) THEN Joined(h, out, in, idx, new)
                ELSE Copied(h, in, out))

Lengthened(dims, d, n) == [i \in DOMAIN dims |-> IF i = d THEN dims[i] + n ELSE dims[i]]

\* Mutant: the dimension itself is counted among the inner ones.
InnerAndItself(dims, d) == Product(SubSeq(dims, 1, d))

\* Which row of dimension d (from 1, the innermost) a cell is in.
Inner(dims, d) == Product(SubSeq(dims, 1, d - 1))
RowOfCell(dims, d, k) == (k \div Inner(dims, d)) % dims[d]

\* Array a with n rows of zeroed memory put before row idx of dimension d.
RowCell(dims, d, page, row, k) == (page * dims[d] + row) * Inner(dims, d) + (k % Inner(dims, d))
CellBefore(a, dims, d, idx, n, row, k) ==
  IF row \in idx .. idx + n - 1 THEN 0
  ELSE Cell(a, RowCell(a.dims, d, k \div (Inner(dims, d) * dims[d]), IF row < idx THEN row ELSE row - n, k))
OpenedIn(a, b, d, idx, n) ==
  [b EXCEPT !.mem = [k \in DOMAIN @ |-> CellBefore(a, b.dims, d, idx, n, RowOfCell(b.dims, d, k - 1), k - 1)]]
Opened(a, d, idx, n) == OpenedIn(a, ResizeDimensions(a, Lengthened(a.dims, d, n), TRUE, FALSE), d, idx, n)

\* A part of the same rank, or of one less, which is one row.
AsRows(new, d, rank) ==
  IF ArrayRank(new) = rank THEN [lens |-> new.dims, slabs |-> Slabs(new)]
  ELSE [lens |-> InsertAt(new.dims, d, 1),
        slabs |-> [i \in 1 .. rank |->
                     IF i <= d THEN (Append(Slabs(new), ArrayLen(new)))[i] ELSE Slabs(new)[i - 1]]]

\* A matrix without elements is made larger, but the part is not copied into it.
CopiedRows(b, dims, d, idx, new, rows) ==
  LET cut == [i \in DOMAIN dims |-> IF i = d THEN rows.lens[i] ELSE Min({rows.lens[i], dims[i]})]
  IN  CopiedBlock(b, idx * Slabs(b)[d], Slabs(b), new, 0, cut, rows.slabs)

Inserted(a, d, idx, new, rows) ==
  IF rows.lens[d] <= 0 \/ idx \notin 0 .. a.dims[d] THEN a
  ELSE IF ArrayLen(a) = 0 THEN ResizeDimensions(a, Lengthened(a.dims, d, rows.lens[d]), TRUE, FALSE)
  ELSE CopiedRows(Opened(a, d, idx, rows.lens[d]), a.dims, d, idx, new, rows)

InsertedND(g, out, d, index, new, n) ==
  IF d \notin 1 .. n THEN g
  ELSE [g EXCEPT ![out] = Inserted(@, d, Given(index, @.dims[d]), g[new], AsRows(g[new], d, n))]

ArrayInsertSubsetND(h, out, in, index, rankIdx, new) ==
  LET n == ArrayRank(h[in])
  IN  IF out = new THEN Stops(h)
      ELSE IF n = 1 THEN Goes(Joined(h, out, in, Given(index, ArrayLen(h[in])), new))
      ELSE Goes(InsertedND(Copied(h, in, out), out, n - Given(rankIdx, 0), index, new, n))

-----------------------------------------------------------------------------
(* Deletion.                                                                *)

\* What is deleted of n elements: [start, end).
Deleted(n, length, offset) ==
  LET len == Given(length, 1)
      off == Min({Given(offset, n - len), n})
      start == AtLeast0(off)
  IN  [start |-> start, end |-> Max({start, Min({off + len, n})})]

\* The output gets its length before anything is copied.
HeadKept(h, out, in, cut) == Put(h, out, 0, Cells(h[in], 0, cut.start))
PartTaken(h, part, gone) ==
  IF ~ IsScalar(h, part) THEN Put(Resized(h, part, Len(gone)), part, 0, gone)
  ELSE SetScalar(h, part, IF gone = << >> THEN Default ELSE gone[1])
CutTaken(h, part, in, cut) == PartTaken(h, part, Cells(h[in], cut.start, cut.end - cut.start))
TailMoved(h, out, in, cut, keep) ==
  IF cut.end < ArrayLen(h[in]) THEN Put(h, out, cut.start, Cells(h[in], cut.end, keep - cut.start)) ELSE h
ArrayDelete1D(h, out, part, in, cut) ==
  LET keep == ArrayLen(h[in]) - (cut.end - cut.start)
  IN  TailMoved(CutTaken(HeadKept(Resized(h, out, keep), out, in, cut), part, in, cut), out, in, cut, keep)

ArrayDelete(h, out, part, in, length, offset) ==
  IF ArrayRank(h[out]) # 1 \/ ArrayRank(h[in]) # 1 THEN Stops(h)
  ELSE Goes(ArrayDelete1D(h, out, part, in, Deleted(ArrayLen(h[in]), length, offset)))

\* The cells of rows first .. first + n - 1 of dimension d, and the others.
RowCells(a, d, first, n, inside) ==
  LET rows == IF inside THEN first .. first + n - 1 ELSE (0 .. a.dims[d] - 1) \ (first .. first + n - 1)
      places == SelectSeq([k \in 1 .. ArrayLen(a) |-> k - 1], LAMBDA k : RowOfCell(a.dims, d, k) \in rows)
  IN  [j \in DOMAIN places |-> Cell(a, places[j])]

WithLengths(h, x, lens, preserve) == [h EXCEPT ![x] = ResizeDimensions(@, lens, preserve, FALSE)]

\* The output and the part get their lengths first; in place, the output gets them last.
PartSized(h, part, a, d, rows) ==
  WithLengths(h, part, IF ArrayRank(h[part]) = ArrayRank(a) THEN Lengthened(a.dims, d, rows - a.dims[d])
                       ELSE RemoveAt(a.dims, d), FALSE)
OutSized(h, out, in, kept) ==
  IF in # out /\ ArrayLen(h[in]) # 0 THEN WithLengths(h, out, kept, FALSE) ELSE h
RowsMoved(g, out, part, a, d, first, rows) ==
  Put(Put(g, out, 0, RowCells(a, d, first, rows, FALSE)), part, 0, RowCells(a, d, first, rows, TRUE))
OutCut(g, out, in, kept) == IF in = out THEN WithLengths(g, out, kept, TRUE) ELSE g

RowsDeleted(h, out, part, in, d, first, rows) ==
  LET kept == Lengthened(h[in].dims, d, -rows)
  IN  OutCut(RowsMoved(OutSized(PartSized(h, part, h[in], d, rows), out, in, kept), out, part, h[in], d, first, rows),
             out, in, kept)

\* A part of lower rank takes one row; less than none are none.
RowsOf(n, partRank, asked, cut) ==
  AtLeast0(Min({asked, cut.end - cut.start, IF partRank < n THEN 1 ELSE asked}))
CutDeleted(h, out, part, in, d, cut, rows) ==
  IF ArrayRank(h[in]) = 1 THEN ArrayDelete1D(h, out, part, in, cut)
  ELSE RowsDeleted(h, out, part, in, d, IF rows = 0 THEN 0 ELSE cut.start, rows)

\* Nothing is deleted if there is no such dimension.
ArrayDeleteND(h, out, part, in, length, offset, dim) ==
  LET n == ArrayRank(h[in])
      inRange == Given(dim, 0) \in 0 .. n - 1
      d == IF inRange THEN n - Given(dim, 0) ELSE n
      asked == IF inRange THEN Given(length, 1) ELSE 0
      cut == Deleted(h[in].dims[d], asked, offset)
  IN  Goes(CutDeleted(h, out, part, in, d, cut, RowsOf(n, ArrayRank(h[part]), asked, cut)))

-----------------------------------------------------------------------------
(* Order.                                                                   *)

ArrayReverse(h, out, in) ==
  IF out = in THEN Stops(h)
  ELSE Goes(Put(Resized(h, out, ArrayLen(h[in])), out, 0, Reverse(Contents(h[in]))))

ArrayRotate(h, out, in, offset) ==
  LET xs == Contents(h[in])
      n == Len(xs)
      by == IF n = 0 THEN 0 ELSE offset % n
  IN  IF out = in THEN Stops(h)
      ELSE Goes(Put(Resized(h, out, n), out, 0, SubSeq(xs, n - by + 1, n) \o SubSeq(xs, 1, n - by)))

\* The elements are copied one by one, in the order of sorted pointers.
Sort1DArrayInternal(h, out, in) ==
  LET n == ArrayLen(h[in])
      at == SortSeq([k \in 1 .. n |-> k - 1], LAMBDA i, j : LT(Cell(h[in], i), Cell(h[in], j)))
  IN  Goes(FoldLeftDomain(LAMBDA g, k : Put(g, out, k - 1, << Cell(g[in], at[k]) >>),
                          Resized(h, out, n), at))

ArrayReshape(h, out, in, lens) ==
  LET n == ArrayRank(h[out])
      empty == \E k \in DOMAIN lens : Given(lens[k], 0) <= 0
      g == [h EXCEPT ![out] = ResizeDimensions(@, IF empty THEN [i \in 1 .. n |-> 0] ELSE Reverse(lens),
                                               FALSE, FALSE)]
  IN  Goes(IF empty THEN g
           ELSE Put(g, out, 0, SubSeq(Contents(g[in]), 1, Min({ArrayLen(g[in]), ArrayLen(g[out])}))))

\* Between two arrays; in place the elements overwrite each other.
ArrayTranspose(h, out, in) ==
  LET a == h[in]
      b == ResizeDimensions(h[out], Reverse(a.dims), TRUE, FALSE)
  IN  Goes([h EXCEPT ![out] =
        IF ArrayLen(a) = 0 THEN b ELSE CopiedBlock(b, 0, Reverse(Slabs(b)), a, 0, a.dims, Slabs(a))])

ArrayInterleave(h, out, ins) ==
  LET n == Min({ArrayLen(h[ins[k]]) : k \in DOMAIN ins})
      count == Len(ins)
  IN  IF ArrayRank(h[out]) # 1 THEN Stops(h)
      ELSE Goes(Put(Resized(h, out, n * count), out, 0,
                    [i \in 1 .. n * count |-> Cell(h[ins[((i - 1) % count) + 1]], (i - 1) \div count)]))

ArrayDecimate(h, outs, in) ==
  LET count == Len(outs)
      n == ArrayLen(h[in]) \div count
      every(k) == [i \in 1 .. n |-> Cell(h[in], (i - 1) * count + k - 1)]
  IN  IF ArrayRank(h[in]) # 1 THEN Stops(h)
      ELSE Goes(FoldLeftDomain(LAMBDA g, k : Put(Resized(g, outs[k], n), outs[k], 0, every(k)), h, outs))

-----------------------------------------------------------------------------
(* Search.                                                                  *)

\* The last of the cells found: a cell replaces the best so far if it is better.
Best(xs, better(_, _), first) ==
  FoldLeftDomain(LAMBDA best, k : IF better(xs[k], IF best = 0 THEN xs[Len(xs)] ELSE xs[best]) THEN k ELSE best,
                 first, xs)

FirstNumber(xs) == IF \A k \in DOMAIN xs : xs[k] = NaN THEN 0 ELSE SelectInSeq(xs, LAMBDA x : x # NaN)

\* The index of an element in each dimension, the outermost first: the code divides
\* by the length of the next dimension only, which is right up to rank 2.
IndexVector(dims, at) ==
  LET n == Len(dims)
      size(i) == IF i = n THEN 1 ELSE dims[n - i]
      rest == FoldLeftDomain(LAMBDA acc, i : Append(acc, IF acc[i] < 0 THEN acc[i] ELSE acc[i] % size(i)),
                             << at >>, dims)
  IN  [i \in 1 .. n |-> IF rest[i] < 0 THEN rest[i] ELSE rest[i] \div size(i)]

ArrayMaxMinInternal(h, in, max, maxIndex, min, minIndex) ==
  LET xs == Contents(h[in])
      first == FirstNumber(xs)
      most == Best(xs, LAMBDA x, y : LT(y, x), first)
      least == Best(xs, LT, first)
      value(k) == IF first = 0 THEN Default ELSE xs[k]
      g == SetScalar(SetScalar(h, min, value(least)), max, value(most))
      index(f, x, k) == IF ArrayRank(h[in]) = 1 THEN SetScalar(f, x, k - 1)
        ELSE Put([f EXCEPT ![x] = ResizeDimensions(@, << ArrayRank(h[in]) >>, FALSE, FALSE)], x, 0,
                 IndexVector(h[in].dims, k - 1))
  IN  Goes(index(index(g, minIndex, least), maxIndex, most))

-----------------------------------------------------------------------------
(* Interpolation: a number is a fraction << n, d >> with d > 0.             *)

NotANumber == << 0, 0 >>
Below(p, q) == p[1] * q[2] < q[1] * p[2]
Between(lo, p, hi) == IF Below(p, lo) THEN lo ELSE IF Below(hi, p) THEN hi ELSE p

\* The value at x on the line through two points with integer coordinates.
Weighted(x, left, right) ==
  IF NaN \in {left.y, right.y} THEN NotANumber
  ELSE << left.y * (right.x * x[2] - x[1]) + right.y * (x[1] - left.x * x[2]), (right.x - left.x) * x[2] >>

\* A vector: one of length 1 has no two neighbours, and the weights divide by 0.
ArrayInterpolate(xs, x) ==
  LET last == Len(xs) - 1
      at == Between(<< 0, 1 >>, x, << last, 1 >>)
      left == Min({at[1] \div at[2], last - 1})
  IN  IF last <= 0 THEN NotANumber
      ELSE Weighted(at, [x |-> left, y |-> xs[left + 1]], [x |-> left + 1, y |-> xs[left + 2]])

\* A vector of points, in the order of x.
ArrayInterpolatePoints(ps, x) ==
  LET reached == {k \in DOMAIN ps : ~ Below(<< ps[k].x, 1 >>, x)}
      r == IF reached = {} THEN Len(ps) ELSE Min(reached)
      left == IF r = 1 THEN ps[1] ELSE ps[r - 1]
      at == Between(<< left.x, 1 >>, x, << ps[r].x, 1 >>)
  IN  IF ps = << >> THEN NotANumber
      ELSE IF ps[r].x = left.x THEN << left.y, 1 >> ELSE Weighted(at, left, ps[r])

\* From start on, the first element that is not less than y; elements are points, or
\* have their index for x.
ArrayThresholdPoints(ps, y, startIndex) ==
  LET start == AtLeast0(Given(startIndex, 0)) + 1
      found == {k \in start .. Len(ps) : ~ LT(ps[k].y, y)}
      r == Min(found)
      left == ps[r - 1]
      right == ps[r]
  IN  IF start > Len(ps) THEN NotANumber
      ELSE IF found = {} THEN << ps[Len(ps)].x, 1 >>
      ELSE IF r = start \/ left.x = right.x THEN << right.x, 1 >>
      ELSE IF left.y = right.y THEN << left.x + right.x, 2 >>
      ELSE IF right.y = Infinity THEN << left.x, 1 >>
      ELSE IF right.y = NaN THEN << right.x, 1 >>
      ELSE Weighted(<< y, 1 >>, [x |-> left.y, y |-> left.x], [x |-> right.y, y |-> right.x])

ArrayThreshold(xs, y, startIndex) ==
  ArrayThresholdPoints([k \in DOMAIN xs |-> [x |-> k - 1, y |-> xs[k]]], y, startIndex)

-----------------------------------------------------------------------------
(* Clusters: the fields of a cluster are a sequence.                        *)

ClusterToArray(h, out, fields) == Goes(Put(Resized(h, out, Len(fields)), out, 0, fields))

ArrayToCluster(a, fields) ==
  [k \in DOMAIN fields |-> IF k <= ArrayLen(a) THEN Cell(a, k - 1) ELSE fields[k]]

\* One cluster for each position that all arrays have; what the clusters hold of
\* fields without an array is left.
IndexBundleClusterArray(ins) ==
  [i \in 1 .. Min({ArrayLen(ins[d]) : d \in DOMAIN ins}) |-> [d \in DOMAIN ins |-> Cell(ins[d], i - 1)]]

BuildClusterArray(elements) == [i \in DOMAIN elements |-> << elements[i] >>]

-----------------------------------------------------------------------------
(* Numbers of a width in bits, and vectors of truth values.                 *)

NumberToBooleanArray(number, width) ==
  [i \in 1 .. width |-> (number \div 2 ^ (i - 1)) % 2 = 1]

BooleanArrayToNumber(bits, width, signed) ==
  LET n == Min({Len(bits), width})
      set == {i \in 1 .. n : bits[i]}
      sum == MapThenSumSet(LAMBDA i : 2 ^ (i - 1), set)
  IN  IF n > 0 /\ n \in set /\ signed THEN sum - 2 ^ n ELSE sum
=============================================================================
