------------------------------ MODULE Aggregates ------------------------------
(***************************************************************************)
(* Instructions that take arrays and clusters as a whole                   *)
(* (source/core/GenericFunctions.cpp): comparing, searching, summing,      *)
(* joining, and limiting them; enumerations and error clusters.            *)
(***************************************************************************)
EXTENDS GenericFunctions

(* Comparing: the first pair of elements that differ decides.               *)

\* Each accumulator stops at such a pair: if the comparison, or that with the operands
\* swapped, comes out as it cannot for equal elements.
IsEQAccumulator(x, y) == ~ EQ(x, y)
IsNEAccumulator(x, y) == ~ EQ(x, y)
IsLTAccumulator(x, y) == LT(x, y) \/ LT(y, x)
IsGTAccumulator(x, y) == LT(y, x) \/ LT(x, y)
IsLEAccumulator(x, y) == ~ Comparison("IsLE", x, y) \/ ~ Comparison("IsLE", y, x)
IsGEAccumulator(x, y) == ~ Comparison("IsGE", x, y) \/ ~ Comparison("IsGE", y, x)

Decides(op, x, y) ==
  CASE op = "IsEQ" -> IsEQAccumulator(x, y)
    [] op = "IsNE" -> IsNEAccumulator(x, y)
    [] op = "IsLT" -> IsLTAccumulator(x, y)
    [] op = "IsGT" -> IsGTAccumulator(x, y)
    [] op = "IsLE" -> IsLEAccumulator(x, y)
    [] op = "IsGE" -> IsGEAccumulator(x, y)

\* Where none decides, the sequence that ends first is the smaller one.
Compared(op, xs, ys) ==
  LET deciding == {k \in DOMAIN xs \cap DOMAIN ys : Decides(op, xs[k], ys[k])}
  IN  IF deciding = {} THEN Comparison(op, Len(xs), Len(ys))
      ELSE Comparison(op, xs[Min(deciding)], ys[Min(deciding)])

\* The dimensions of matrices are not looked at.
VectorVectorBinaryAccumulatorOp(h, op, x, y, out) ==
  Goes(SetScalar(h, out, Bit(Compared(op, Contents(h[x]), Contents(h[y])))))

Values(h, xs) == [k \in DOMAIN xs |-> Value(h, xs[k])]
ClusterAggBinaryOp(h, op, xs, ys, out) ==
  Goes(SetScalar(h, out, Bit(Compared(op, Values(h, xs), Values(h, ys)))))

LessThan(h, x, y) == Compared("IsLT", Contents(h[x]), Contents(h[y]))

\* The minimum is stored before the maximum is read.
MaxMinValueInternal(h, x, y, max, min) ==
  IF LessThan(h, x, y) THEN Goes(Copied(Copied(h, x, min), y, max))
  ELSE Goes(Copied(Copied(h, y, min), x, max))

-----------------------------------------------------------------------------
(* Limits: x is to be between lo and hi, c.includeLo and c.includeHi say    *)
(* whether a limit itself is in the range.                                  *)

Limited(x, lo, hi) == IF LT(x, lo) THEN lo ELSE IF LT(hi, x) THEN hi ELSE x
Coerced(x, lo, hi) ==
  IF NaN \in {x, lo, hi} THEN NaN ELSE IF LT(hi, lo) THEN Limited(x, hi, lo) ELSE Limited(x, lo, hi)
InRange(x, lo, hi, includeLo, includeHi) ==
  /\ LT(lo, x) \/ (includeLo /\ EQ(x, lo))
  /\ LT(x, hi) \/ (includeHi /\ EQ(x, hi))

\* Of elements: the operands are read again after the coerced value was stored.
InRangeAndCoerce(h, c, x, lo, hi, coerced, out, t) ==
  LET g == StoredAt(h, coerced, t, Coerced(ElementAt(h, x, t), ElementAt(h, lo, t), ElementAt(h, hi, t)))
  IN  StoredAt(g, out, t,
        Bit(InRange(ElementAt(g, x, t), ElementAt(g, lo, t), ElementAt(g, hi, t), c.includeLo, c.includeHi)))

VectorOrScalarInRangeOp(h, c, x, lo, hi, coerced, out) ==
  LET lens == GetMinimumArrayDimensions(h, {x, lo, hi})
  IN  FoldLeft(LAMBDA g, t : InRangeAndCoerce(g, c, x, lo, hi, coerced, out, t),
               WithLengths(WithLengths(h, out, lens, TRUE), coerced, lens, TRUE), Walk(lens))

ClusterInRangeOp(h, c, xs, los, his, coerced, outs) ==
  FoldLeftDomain(LAMBDA g, k : VectorOrScalarInRangeOp(g, c, xs[k], los[k], his[k], coerced[k], outs[k]), h, outs)

\* Of arrays as a whole, in the order of LessThan.
InRangeAccumulator(h, c, x, lo, hi, coerced, out) ==
  LET below == LessThan(h, x, lo) \/ (~ c.includeLo /\ ~ LessThan(h, lo, x))
      above == LessThan(h, hi, x) \/ (~ c.includeHi /\ ~ LessThan(h, x, hi))
  IN  Copied(SetScalar(h, out, Bit(~ below /\ ~ above)),
             IF below THEN lo ELSE IF above THEN hi ELSE x, coerced)

\* A Boolean output asks for the arrays as a whole.
EmitGenericInRangeAndCoerceInstruction(h, c, x, lo, hi, coerced, out) ==
  IF IsScalar(h, out) /\ ~ IsScalar(h, x) THEN Goes(InRangeAccumulator(h, c, x, lo, hi, coerced, out))
  ELSE Goes(VectorOrScalarInRangeOp(h, c, x, lo, hi, coerced, out))

-----------------------------------------------------------------------------
(* Searching and summing.                                                   *)

\* NaN is found, too.
Search1DArrayInternal(h, in, x, startIndex, out) ==
  LET found == {k \in AtLeast0(Given(startIndex, 0)) .. ArrayLen(h[in]) - 1 : Cell(h[in], k) = Value(h, x)}
  IN  Goes(SetScalar(h, out, IF found = {} THEN -1 ELSE Min(found)))

ScalarOpOf(op) ==
  CASE op = "AddElements" -> "Add" [] op = "MultiplyElements" -> "Mul"
    [] op = "AndElements" -> "And" [] op = "OrElements" -> "Or"
Identity(op) == IF op \in {"MultiplyElements", "AndElements"} THEN 1 ELSE 0

VectorOpInternal(h, op, in, out) ==
  Goes(FoldLeft(LAMBDA g, x : SetScalar(g, out, Applied(ScalarOpOf(op), x, Value(g, out))),
                SetScalar(h, out, Identity(op)), Contents(h[in])))

-----------------------------------------------------------------------------
(* Joining arrays along the outermost dimension.                            *)

\* Vectors and elements, one behind the other.  The output may be the first of them.
Appended(acc, out, x, first, old) ==
  IF x # out THEN [acc EXCEPT !.h = Put(@, out, acc.at, Contents(acc.h[x])), !.at = @ + ArrayLen(acc.h[x])]
  ELSE IF first THEN [acc EXCEPT !.at = @ + old] ELSE [acc EXCEPT !.ok = FALSE]

ConcatenatedVectors(h, out, ins) ==
  LET total == FoldLeft(LAMBDA n, x : n + ArrayLen(h[x]), 0, ins)
      done == FoldLeftDomain(LAMBDA acc, i : IF acc.ok THEN Appended(acc, out, ins[i], i = 1, ArrayLen(h[out])) ELSE acc,
                             [h |-> Resized(h, out, total), at |-> 0, ok |-> TRUE], ins)
  IN  [h |-> done.h, ok |-> done.ok]

\* An input has the rank of the output, or one less: it is then one row.
OuterLength(a, rank) == IF ArrayRank(a) = rank THEN a.dims[rank] ELSE 1
ConcatenatedLengths(h, ins, rank) ==
  Append([j \in 1 .. rank - 1 |-> Max({h[x].dims[j] : x \in ToSet(ins)})],
         FoldLeft(LAMBDA n, x : n + OuterLength(h[x], rank), 0, ins))

\* The block of array a at offset at of b; what it does not fill is default already.
CopiedInto(b, at, a) == CopiedBlock(b, at, SubSeq(Slabs(b), 1, ArrayRank(a)), a, 0, a.dims, Slabs(a))

\* The ends of the rows: what is behind the cells of each innermost row in a block of these lengths.
RowEnds(lens, slabs) ==
  {Dot(t, slabs) + k : t \in {u \in IndexTuples(lens) : u[1] = 0}, k \in lens[1] .. slabs[2] - 1}

\* ArrayToArrayCopyHelperRev: b is array a with longer rows.  The last row is moved first,
\* so that none is overwritten before; where rows get further apart in other dimensions
\* nothing is cleared.
MovedApart(a, b) ==
  LET moved == CopiedBlock(b, 0, Slabs(b), b, 0, a.dims, Slabs(a))
  IN  [moved EXCEPT !.mem = [k \in DOMAIN @ |-> IF k - 1 \in RowEnds(a.dims, Slabs(b)) THEN Default ELSE @[k]]]

\* One input, which is put at offset acc.at.  a: what the output was before.
Joining(acc, out, x, a, grows) ==
  LET b == acc.h[out]
      slab == Slabs(b)[ArrayRank(b)]
      input == IF x = out THEN a ELSE acc.h[x]
  IN  IF OuterLength(input, ArrayRank(b)) = 0 THEN acc
      ELSE [h |-> [acc.h EXCEPT ![out] =
                     IF x # out THEN CopiedInto(b, acc.at, input) ELSE IF grows THEN MovedApart(a, b) ELSE b],
            at |-> acc.at + OuterLength(input, ArrayRank(b)) * slab]

ConcatenatedRows(h, out, ins) ==
  LET rank == ArrayRank(h[out])
      lens == ConcatenatedLengths(h, ins, rank)
      grows == \E j \in 1 .. rank - 1 : lens[j] > h[ins[1]].dims[j]
  IN  IF \E i \in 2 .. Len(ins) : ins[i] = out THEN Stops(h)
      ELSE Goes(FoldLeft(LAMBDA acc, x : Joining(acc, out, x, h[out], grows),
                         [h |-> WithLengths(h, out, lens, ins[1] = out), at |-> 0], ins).h)

ArrayConcatenateInternal(h, out, ins) ==
  IF ArrayRank(h[out]) = 1 THEN ConcatenatedVectors(h, out, ins) ELSE ConcatenatedRows(h, out, ins)

-----------------------------------------------------------------------------
(* Enumerations, errors, buttons.                                           *)

\* The item for a number, a signed or unsigned integer of width bits or a floating point
\* number without its fraction.  An unsigned number is read as a signed one, and the
\* other way round: what is negative then is behind the last item, and of a signed
\* number only if it has 32 bits it is before the first one.
ConvertEnum(n, kind, width, items) ==
  LET past == kind = "UInt" /\ n >= 2 ^ (width - 1)
      val == IF kind = "Int" /\ n < 0 /\ width < 32 THEN n + 2 ^ width ELSE AtLeast0(n)
  IN  IF past THEN items - 1 ELSE Min({val, items - 1})

HasError(e) == e.status
HasWarning(e) == ~ e.status /\ e.code # 0
NoErrorCluster == [status |-> FALSE, code |-> 0, source |-> << >>]

UpdateOutputAndCheckIfErrorWasFound(out, e) ==
  IF ~ HasError(out) /\ (HasError(e) \/ (HasWarning(e) /\ ~ HasWarning(out))) THEN e ELSE out

\* Each input is a list of clusters, which is empty if it is not wired.  The first
\* cluster of the first input is kept if there is nothing worse.
MergeErrors(inputs) ==
  FoldLeft(UpdateOutputAndCheckIfErrorWasFound,
           IF inputs = << >> \/ inputs[1] = << >> THEN NoErrorCluster ELSE inputs[1][1],
           FlattenSeq(inputs))

ConvertErrorClusterToBoolean(e) == e.status

\* A latched button: read and put back in one instruction.
CopyAndReset(h, source, destination, newValue) ==
  LET g == SetScalar(h, destination, Value(h, source))
  IN  Goes(SetScalar(g, source, Value(g, newValue)))
=============================================================================
