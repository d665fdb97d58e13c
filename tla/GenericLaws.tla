---------------------------- MODULE GenericLaws ----------------------------
(***************************************************************************)
(* What the instructions that work on values of any type promise.  An      *)
(* array is shown as a function from its index tuples, in the order of its *)
(* dimensions.                                                             *)
(***************************************************************************)
EXTENDS DataProgram

At(a, t) == Cell(a, Offset(a, t))
Shown(a) == [t \in IndexTuples(a.dims) |-> At(a, t)]
Shows(a, lens, f(_)) == a.dims = lens /\ \A t \in IndexTuples(lens) : At(a, t) = f(t)

-----------------------------------------------------------------------------
(* Element by element.                                                      *)

Operand(h, x, t) == IF IsScalar(h, x) THEN Value(h, x) ELSE At(h[x], t)
ShowsElements(h, x, lens, f(_)) == IF lens = << >> THEN Value(h, x) = f(lens) ELSE Shows(h[x], lens, f)

\* The indexes that all arrays among the operands have.
CommonLengths(h, xs) ==
  LET arrays == {x \in xs : ~ IsScalar(h, x)}
  IN  IF arrays = {} THEN << >>
      ELSE [i \in 1 .. ArrayRank(h[CHOOSE x \in arrays : TRUE]) |-> Min({h[x].dims[i] : x \in arrays})]

IsPointwise(h, g, name, wide, x, y, out) ==
  out \notin {x, y} =>
    ShowsElements(g, out, CommonLengths(h, {x, y}),
      LAMBDA t : Applied(name, IF wide = "x" THEN Narrowed(Operand(h, x, t)) ELSE Operand(h, x, t),
                               IF wide = "y" THEN Narrowed(Operand(h, y, t)) ELSE Operand(h, y, t)))

\* Once the conversions of a cluster are executed again they are not those of its fields.
IsFieldwise(c, h, g) ==
  \A k \in DOMAIN c.outs :
    ~ c.again => IsPointwise(h, g, c.name, c.wides[k], c.ins[k], c.others[k], c.outs[k])

IsUnary(h, g, name, sameType, x, out) ==
  out # x => ShowsElements(g, out, h[x].dims,
               LAMBDA t : IF name = "Convert" /\ sameType THEN Operand(h, x, t) ELSE Unary(name, Operand(h, x, t)))

\* A number and its halves.
IsHalved(h, g, x, high, low) ==
  ShowsElements(h, x, h[x].dims, LAMBDA t : Join(Operand(g, high, t), Operand(g, low, t)))

\* The greater and the lesser of two elements, of which NaN is neither.
IsMaxAndMin(h, g, x, y, max, min) ==
  {max, min} \cap {x, y} = {} =>
    \A t \in IndexTuples(CommonLengths(h, {x, y})) :
      LET pair == {Operand(h, x, t), Operand(h, y, t)}
          found == {Operand(g, max, t), Operand(g, min, t)}
      IN  /\ ~ LT(Operand(g, max, t), Operand(g, min, t))
          /\ found = IF pair = {NaN} THEN pair ELSE pair \ {NaN}

-----------------------------------------------------------------------------
(* In the order of words in a dictionary.                                   *)

Precedes(xs, ys) ==
  \E n \in 0 .. Min({Len(xs), Len(ys)}) :
    /\ SubSeq(xs, 1, n) = SubSeq(ys, 1, n)
    /\ IF n = Len(xs) THEN n < Len(ys) ELSE n < Len(ys) /\ LT(xs[n + 1], ys[n + 1])

Ordered(name, xs, ys) ==
  CASE name = "IsLT" -> Precedes(xs, ys)
    [] name = "IsGT" -> Precedes(ys, xs)
    [] name = "IsLE" -> ~ Precedes(ys, xs)
    [] name = "IsGE" -> ~ Precedes(xs, ys)
    [] name = "IsEQ" -> xs = ys
    [] name = "IsNE" -> xs # ys

IsComparison(name, xs, ys, result) ==
  NaN \notin ToSet(xs) \cup ToSet(ys) => result = Bit(Ordered(name, xs, ys))

IsMaxAndMinValue(c, h, g) ==
  LET xs == {Contents(h[c.in]), Contents(h[c.other])}
      max == Contents(g[c.max])
      min == Contents(g[c.min])
  IN  {c.max, c.min} \cap {c.in, c.other} = {} /\ (\A s \in xs : NaN \notin ToSet(s))
        => {max, min} = xs /\ ~ Precedes(max, min)

\* What is coerced is unchanged if it is within its limits, and a limit may be excluded.
IsRange(c, x, lo, hi, coerced, inRange) ==
  inRange = Bit(coerced = x /\ (c.includeLo \/ x # lo) /\ (c.includeHi \/ x # hi))

IsWithin(x, lo, hi, coerced, inRange, c) ==
  NaN \notin {x, lo, hi} /\ ~ LT(hi, lo) =>
    /\ ~ LT(coerced, lo) /\ ~ LT(hi, coerced)
    /\ coerced \in {x, lo, hi}
    /\ IsRange(c, x, lo, hi, coerced, inRange)

IsInRange(c, h, g, x, lo, hi, coerced, out) ==
  coerced # x =>
    \A t \in IndexTuples(CommonLengths(h, {x, lo, hi})) :
      IsWithin(Operand(h, x, t), Operand(h, lo, t), Operand(h, hi, t), Operand(g, coerced, t), Operand(g, out, t), c)

IsInRangeAsWhole(c, h, g) ==
  LET x == Contents(h[c.in])
      lo == Contents(h[c.lo])
      hi == Contents(h[c.hi])
      coerced == Contents(g[c.coerced])
  IN  NaN \notin ToSet(x) \cup ToSet(lo) \cup ToSet(hi) /\ ~ Precedes(hi, lo) =>
        /\ ~ Precedes(coerced, lo) /\ ~ Precedes(hi, coerced)
        /\ IsRange(c, x, lo, hi, coerced, Value(g, c.out))

-----------------------------------------------------------------------------
(* Whole arrays.                                                            *)

IsFirst(c, h, g) ==
  LET xs == Contents(h[c.in])
      at == Value(g, c.out)
      start == AtLeast0(Given(c.index, 0))
      equal(k) == k \in 0 .. Len(xs) - 1 /\ xs[k + 1] = Value(h, c.element)
  IN  IF at = -1 THEN \A k \in start .. Len(xs) : ~ equal(k)
      ELSE at >= start /\ equal(at) /\ \A k \in start .. at - 1 : ~ equal(k)

IsTotal(c, h, g) ==
  LET xs == Contents(h[c.in])
  IN  NaN \notin ToSet(xs) =>
        Value(g, c.out) =
          CASE c.name = "AddElements" -> FoldLeft(LAMBDA n, x : n + x, 0, xs) % 2 ^ IntWidth
            [] c.name = "MultiplyElements" -> FoldLeft(LAMBDA n, x : n * x, 1, xs) % 2 ^ IntWidth
            [] c.name = "AndElements" -> Bit(\A k \in DOMAIN xs : xs[k] = 1)
            [] c.name = "OrElements" -> Bit(\E k \in DOMAIN xs : xs[k] = 1)

\* Every row of the output is a row of one input, filled up with zeros.
IsConcatenated(c, h, g) ==
  LET n == ArrayRank(h[c.out])
      rows(i) == IF ArrayRank(h[c.ins[i]]) = n THEN h[c.ins[i]].dims[n] ELSE 1
      before[i \in 0 .. Len(c.ins)] == IF i = 0 THEN 0 ELSE before[i - 1] + rows(i)
      input(t) == CHOOSE i \in DOMAIN c.ins : before[i - 1] <= t[n] /\ t[n] < before[i]
      place(t) == LET i == input(t)
                  IN  IF ArrayRank(h[c.ins[i]]) = n THEN [t EXCEPT ![n] = @ - before[i - 1]] ELSE Front(t)
  IN  /\ g[c.out].dims[n] = before[Len(c.ins)]
      /\ \A t \in IndexTuples(g[c.out].dims) :
           At(g[c.out], t) = IF place(t) \in IndexTuples(h[c.ins[input(t)]].dims)
                             THEN Operand(h, c.ins[input(t)], place(t)) ELSE Default

-----------------------------------------------------------------------------
(* Answers.                                                                 *)

\* Division is towards minus infinity: what remains has the sign of the divisor.
IsDivision(x, y, quotient, remainder) ==
  y # 0 => /\ x = y * quotient + remainder
           /\ IF y > 0 THEN remainder \in 0 .. y - 1 ELSE remainder \in y + 1 .. 0

IsItem(n, items, item) == item \in 0 .. items - 1 /\ (n \in 0 .. items - 1 => item = n)

\* The first error, or else the first warning.
IsWorst(inputs, merged) ==
  LET all == FlattenSeq(inputs)
      first(P(_)) == \E k \in DOMAIN all : P(all[k]) /\ merged = all[k] /\ \A j \in 1 .. k - 1 : ~ P(all[j])
      some(P(_)) == \E k \in DOMAIN all : P(all[k])
      worst(P(_)) == some(P) /\ first(P)
  IN  \/ worst(HasError)
      \/ ~ some(HasError) /\ worst(HasWarning)
      \/ ~ some(HasError) /\ ~ some(HasWarning) /\ ~ HasError(merged) /\ ~ HasWarning(merged)

GenericAsDefined(c, h, g, a) ==
  CASE c.op = "BinaryOp" -> IsPointwise(h, g, c.name, c.wide, c.in, c.other, c.out)
    [] c.op = "ClusterBinaryOp" -> IsFieldwise(c, h, g)
    [] c.op = "UnaryOp" -> IsUnary(h, g, c.name, c.sameType, c.in, c.out)
    [] c.op = "ClusterUnaryOp" ->
         \A k \in DOMAIN c.ins : IsUnary(h, g, c.name, FALSE, c.ins[k], c.outs[k])
    [] c.op = "SplitOp" -> IsHalved(h, g, c.in, c.high, c.low)
    [] c.op = "ClusterUnary2OutputOp" -> \A k \in DOMAIN c.ins : IsHalved(h, g, c.ins[k], c.res[k], c.ims[k])
    [] c.op = "MaxMinElements" -> IsMaxAndMin(h, g, c.in, c.other, c.max, c.min)
    [] c.op = "ClusterMaxMinOp" ->
         \A k \in DOMAIN c.ins : IsMaxAndMin(h, g, c.ins[k], c.others[k], c.maxs[k], c.mins[k])
    [] c.op = "BinaryAccumulatorOp" ->
         IsComparison(c.name, Contents(h[c.in]), Contents(h[c.other]), Value(g, c.out))
    [] c.op = "ClusterAggBinaryOp" ->
         IsComparison(c.name, Values(h, c.ins), Values(h, c.others), Value(g, c.out))
    [] c.op = "MaxMinValueInternal" -> IsMaxAndMinValue(c, h, g)
    [] c.op = "InRangeAndCoerce" ->
         IF IsScalar(h, c.out) /\ ~ IsScalar(h, c.in) THEN IsInRangeAsWhole(c, h, g)
         ELSE IsInRange(c, h, g, c.in, c.lo, c.hi, c.coerced, c.out)
    [] c.op = "ClusterInRangeOp" ->
         \A k \in DOMAIN c.ins : IsInRange(c, h, g, c.ins[k], c.los[k], c.his[k], c.coerced[k], c.outs[k])
    [] c.op = "Search1DArrayInternal" -> IsFirst(c, h, g)
    [] c.op = "VectorOpInternal" -> IsTotal(c, h, g)
    [] c.op = "ArrayConcatenateInternal" -> IsConcatenated(c, h, g)
    [] c.op = "Divide" -> IsDivision(c.x, c.y, a[1], a[2])
    [] c.op = "ConvertEnum" -> IsItem(c.n, c.items, a[1])
    [] c.op = "MergeErrors" -> IsWorst(c.inputs, a[1]) /\ a[2] = HasError(a[1])
    [] OTHER -> TRUE
=============================================================================
