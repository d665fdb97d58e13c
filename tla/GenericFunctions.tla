--------------------------- MODULE GenericFunctions ---------------------------
(***************************************************************************)
(* Instructions that work on values of any type                            *)
(* (source/core/GenericFunctions.cpp): what is defined for two elements is *)
(* done to all elements of arrays and to all fields of clusters.           *)
(*                                                                         *)
(* An element is an unsigned integer of IntWidth bits, a Boolean (0 or 1), *)
(* or a number of a floating point type, which may be NaN.  A cluster is a *)
(* list of the names of its fields; an operand that is no cluster is then  *)
(* repeated.  Where types do not fit, or are not those of a primitive, no  *)
(* instruction is emitted: those programs are not executed.                *)
(***************************************************************************)
EXTENDS ArrayRearrangement

IntWidth == 8
Narrowed(n) == IF n = NaN THEN NaN ELSE n % 2 ^ IntWidth
Bit(b) == IF b THEN 1 ELSE 0

-----------------------------------------------------------------------------
(* Elements (source/core/Math.cpp).                                         *)

Arithmetic(op, x, y) ==
  IF NaN \in {x, y} THEN NaN
  ELSE Narrowed(CASE op = "Add" -> x + y [] op = "Sub" -> x - y [] op = "Mul" -> x * y)

EQ(x, y) == x = y /\ x # NaN

Comparison(op, x, y) ==
  CASE op = "IsLT" -> LT(x, y)
    [] op = "IsGT" -> LT(y, x)
    [] op = "IsLE" -> LT(x, y) \/ EQ(x, y)
    [] op = "IsGE" -> LT(y, x) \/ EQ(x, y)
    [] op = "IsEQ" -> EQ(x, y)
    [] op = "IsNE" -> ~ EQ(x, y)

Logical(op, x, y) ==
  CASE op = "And" -> x * y [] op = "Or" -> Max({x, y}) [] op = "Xor" -> (x + y) % 2

\* The high and the low half of an integer; the parts of a complex number are coded so too.
Join(x, y) == x * 2 ^ IntWidth + y
High(z) == z \div 2 ^ IntWidth
Low(z) == z % 2 ^ IntWidth

Applied(op, x, y) ==
  CASE op \in {"Add", "Sub", "Mul"} -> Arithmetic(op, x, y)
    [] op \in {"IsLT", "IsGT", "IsLE", "IsGE", "IsEQ", "IsNE"} -> Bit(Comparison(op, x, y))
    [] op \in {"And", "Or", "Xor"} -> Logical(op, x, y)
    [] op = "Join" -> Join(x, y)

Unary(op, x) ==
  CASE op = "Sign" -> Bit(LT(0, x))
    [] op = "Negate" -> Arithmetic("Sub", 0, x)
    [] op = "Increment" -> Arithmetic("Add", x, 1)
    [] op = "Decrement" -> Arithmetic("Sub", x, 1)
    [] op = "Not" -> 1 - x
    [] op = "Convert" -> Narrowed(x)

\* Of signed integers: division is towards 0, and corrected where the signs differ.
Abs(x) == IF x < 0 THEN -x ELSE x
Truncated(x, y) == IF (x < 0) = (y < 0) THEN Abs(x) \div Abs(y) ELSE -(Abs(x) \div Abs(y))
Corrected(x, y, q) == (x - y * q) # 0 /\ (x > 0) # (y > 0)

Quotient(x, y) ==
  LET q == Truncated(x, y)
  IN  IF y = 0 THEN 0 ELSE IF Corrected(x, y, q) THEN q - 1 ELSE q

Remainder(x, y) ==
  LET q == Truncated(x, y)
  IN  IF y = 0 THEN x ELSE IF Corrected(x, y, q) THEN x - y * q + y ELSE x - y * q

-----------------------------------------------------------------------------
(* Walking over arrays: element by element, on memory as the elements       *)
(* before have left it.                                                     *)

\* ArrayIterator: index tuples, the innermost index first; a scalar has the empty one.
Walk(lens) == [k \in 1 .. Product(lens) |-> [d \in DOMAIN lens |-> RowOfCell(lens, d, k - 1)]]

Place(h, x, t) == IF IsScalar(h, x) THEN 0 ELSE Offset(h[x], t)
ElementAt(h, x, t) == Cell(h[x], Place(h, x, t))
StoredAt(h, x, t, v) == Put(h, x, Place(h, x, t), << v >>)

\* The dimensions of all arrays among the operands, which have the same rank.
GetMinimumArrayDimensions(h, operands) ==
  LET dims == {h[x].dims : x \in operands} \ {<< >>}
  IN  IF dims = {} THEN << >>
      ELSE [i \in DOMAIN (CHOOSE d \in dims : TRUE) |-> Min({d[i] : d \in dims})]

\* VectorOpConvertArgs: one operand has another type and is converted into a buffer.
\* The code then walks over memory, not indexes: used where all dimensions agree.
ArgumentAt(h, x, t, convert) == IF convert THEN Narrowed(ElementAt(h, x, t)) ELSE ElementAt(h, x, t)

BinaryAt(h, op, wide, x, y, out, t) ==
  StoredAt(h, out, t, Applied(op, ArgumentAt(h, x, t, wide = "x"), ArgumentAt(h, y, t, wide = "y")))

Elementwise(h, op, wide, x, y, out, lens) ==
  FoldLeft(LAMBDA g, t : BinaryAt(g, op, wide, x, y, out, t), WithLengths(h, out, lens, TRUE), Walk(lens))

VectorVectorBinaryOp(h, op, wide, x, y, out) ==
  Elementwise(h, op, wide, x, y, out, GetMinimumArrayDimensions(h, {x, y}))
ScalarVectorBinaryOp(h, op, wide, x, y, out) == Elementwise(h, op, wide, x, y, out, h[y].dims)
VectorScalarBinaryOp(h, op, wide, x, y, out) == Elementwise(h, op, wide, x, y, out, h[x].dims)
ScalarScalarConvertBinaryOp(h, op, wide, x, y, out) == Elementwise(h, op, wide, x, y, out, << >>)

\* A scalar is converted into the output, unless that is the other operand.
ScalarBinaryOp(h, op, wide, x, y, out) ==
  IF wide = "x" /\ out # y
  THEN ScalarScalarConvertBinaryOp(SetScalar(h, out, Narrowed(Value(h, x))), op, "none", out, y, out)
  ELSE IF wide = "y" /\ out # x
  THEN ScalarScalarConvertBinaryOp(SetScalar(h, out, Narrowed(Value(h, y))), op, "none", x, out, out)
  ELSE ScalarScalarConvertBinaryOp(h, op, wide, x, y, out)

EmitGenericBinOpInstruction(h, op, wide, x, y, out) ==
  CASE ~ IsScalar(h, x) /\ ~ IsScalar(h, y) -> VectorVectorBinaryOp(h, op, wide, x, y, out)
    [] ~ IsScalar(h, x) /\ IsScalar(h, y) -> VectorScalarBinaryOp(h, op, wide, x, y, out)
    [] IsScalar(h, x) /\ ~ IsScalar(h, y) -> ScalarVectorBinaryOp(h, op, wide, x, y, out)
    [] OTHER -> ScalarBinaryOp(h, op, wide, x, y, out)

VectorVectorSplitOp(h, x, high, low) ==
  LET sized == WithLengths(WithLengths(h, high, h[x].dims, TRUE), low, h[x].dims, TRUE)
      half(g, t) == StoredAt(g, high, t, High(ElementAt(g, x, t)))
  IN  FoldLeft(LAMBDA g, t : StoredAt(half(g, t), low, t, Low(ElementAt(half(g, t), x, t))), sized, Walk(h[x].dims))

\* The element that is converted for field k of a cluster: the conversion forgets where
\* its operand is once it was executed, and then takes the first field.
Converted(xs, k, again) == IF again THEN xs[1] ELSE xs[k]

ClusterField(g, op, wide, xs, ys, outs, k, again) ==
  IF wide = "none" \/ ~ IsScalar(g, outs[k])
  THEN EmitGenericBinOpInstruction(g, op, wide, xs[k], ys[k], outs[k])
  ELSE ScalarScalarConvertBinaryOp(g, op, wide,
         IF wide = "x" THEN Converted(xs, k, again) ELSE xs[k],
         IF wide = "y" THEN Converted(ys, k, again) ELSE ys[k], outs[k])

\* wides[k]: which operand of field k has another type; again: the instruction has
\* been executed before.
ClusterBinaryOp(h, op, wides, xs, ys, outs, again) ==
  FoldLeftDomain(LAMBDA g, k : ClusterField(g, op, wides[k], xs, ys, outs, k, again), h, outs)

-----------------------------------------------------------------------------
(* One operand.                                                             *)

VectorUnaryOp(h, op, x, out) ==
  FoldLeft(LAMBDA g, t : StoredAt(g, out, t, Unary(op, ElementAt(g, x, t))),
           WithLengths(h, out, h[x].dims, TRUE), Walk(h[x].dims))

\* A conversion between equal types is a copy.
EmitGenericUnOpInstruction(h, op, sameType, x, out) ==
  IF op = "Convert" /\ sameType THEN Copied(h, x, out) ELSE VectorUnaryOp(h, op, x, out)

ClusterUnaryOp(h, op, xs, outs) ==
  FoldLeftDomain(LAMBDA g, k : EmitGenericUnOpInstruction(g, op, FALSE, xs[k], outs[k]), h, outs)

\* The parts of complex numbers.
VectorUnary2OutputOp(h, x, re, im) == VectorVectorSplitOp(h, x, re, im)
ClusterUnary2OutputOp(h, xs, res, ims) ==
  FoldLeftDomain(LAMBDA g, k : VectorUnary2OutputOp(g, xs[k], res[k], ims[k]), h, xs)

-----------------------------------------------------------------------------
(* Maximum and minimum.                                                     *)

\* Of two elements: NaN loses.  The minimum is read after the maximum was stored.
MaxAndMinElts(h, x, y, max, min, t) ==
  LET a == ElementAt(h, x, t)
      b == ElementAt(h, y, t)
      second == a = NaN \/ LT(a, b)
      greater == IF second THEN y ELSE x
      least == IF a = NaN \/ (b # NaN /\ ~ second) THEN y ELSE x
      g == StoredAt(h, max, t, ElementAt(h, greater, t))
  IN  StoredAt(g, min, t, ElementAt(g, least, t))

MaxMinElements(h, x, y, max, min, lens) ==
  FoldLeft(LAMBDA g, t : MaxAndMinElts(g, x, y, max, min, t),
           WithLengths(WithLengths(h, max, lens, TRUE), min, lens, TRUE), Walk(lens))

VectorMaxMinOp(h, x, y, max, min) ==
  MaxMinElements(h, x, y, max, min, GetMinimumArrayDimensions(h, {x, y}))
ScalarVectorMaxMinOp(h, x, y, max, min) == MaxMinElements(h, x, y, max, min, h[y].dims)
VectorScalarMaxMinOp(h, x, y, max, min) == MaxMinElements(h, x, y, max, min, h[x].dims)

EmitMaxMinElementsInstruction(h, x, y, max, min) ==
  CASE ~ IsScalar(h, x) /\ ~ IsScalar(h, y) -> VectorMaxMinOp(h, x, y, max, min)
    [] ~ IsScalar(h, x) /\ IsScalar(h, y) -> VectorScalarMaxMinOp(h, x, y, max, min)
    [] OTHER -> ScalarVectorMaxMinOp(h, x, y, max, min)

ClusterMaxMinOp(h, xs, ys, maxs, mins) ==
  FoldLeftDomain(LAMBDA g, k : EmitMaxMinElementsInstruction(g, xs[k], ys[k], maxs[k], mins[k]), h, xs)
=============================================================================
