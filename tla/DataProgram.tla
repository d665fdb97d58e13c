---------------------------- MODULE DataProgram ----------------------------
(***************************************************************************)
(* Programs of data instructions: one instruction after another works on   *)
(* the variables of a VI.  Two variables of each kind are enough for an    *)
(* instruction to have its operands distinct, or to work in place.  An     *)
(* instruction that stops ends the program.                                *)
(***************************************************************************)
EXTENDS Spreadsheets, Aggregates

CONSTANTS
  Twin,        \* Twin[x]: the other variable of the same type
  FirstHeaps,  \* what the variables hold at first
  Calls,       \* Calls[k]: what the k-th instruction of a program may be
  MaxLength    \* no variable gets more elements than this

VARIABLES
  heap,      \* the arrays of the variables
  call,      \* the last instruction
  answer,    \* what it returned besides
  running,   \* execution has not been stopped
  calls      \* how many instructions have been executed

dataVars == << heap, call, answer, running, calls >>

-----------------------------------------------------------------------------
(* What an instruction does: some change the heap, some give an answer.     *)

GenericOutcome(h, c) ==
  CASE c.op = "BinaryOp" -> Goes(EmitGenericBinOpInstruction(h, c.name, c.wide, c.in, c.other, c.out))
    [] c.op = "SplitOp" -> Goes(VectorVectorSplitOp(h, c.in, c.high, c.low))
    [] c.op = "ClusterBinaryOp" -> Goes(ClusterBinaryOp(h, c.name, c.wides, c.ins, c.others, c.outs, c.again))
    [] c.op = "UnaryOp" -> Goes(EmitGenericUnOpInstruction(h, c.name, c.sameType, c.in, c.out))
    [] c.op = "ClusterUnaryOp" -> Goes(ClusterUnaryOp(h, c.name, c.ins, c.outs))
    [] c.op = "ClusterUnary2OutputOp" -> Goes(ClusterUnary2OutputOp(h, c.ins, c.res, c.ims))
    [] c.op = "MaxMinElements" -> Goes(EmitMaxMinElementsInstruction(h, c.in, c.other, c.max, c.min))
    [] c.op = "ClusterMaxMinOp" -> Goes(ClusterMaxMinOp(h, c.ins, c.others, c.maxs, c.mins))
    [] c.op = "BinaryAccumulatorOp" -> VectorVectorBinaryAccumulatorOp(h, c.name, c.in, c.other, c.out)
    [] c.op = "ClusterAggBinaryOp" -> ClusterAggBinaryOp(h, c.name, c.ins, c.others, c.out)
    [] c.op = "MaxMinValueInternal" -> MaxMinValueInternal(h, c.in, c.other, c.max, c.min)
    [] c.op = "InRangeAndCoerce" ->
         EmitGenericInRangeAndCoerceInstruction(h, c, c.in, c.lo, c.hi, c.coerced, c.out)
    [] c.op = "ClusterInRangeOp" -> Goes(ClusterInRangeOp(h, c, c.ins, c.los, c.his, c.coerced, c.outs))
    [] c.op = "Search1DArrayInternal" -> Search1DArrayInternal(h, c.in, c.element, c.index, c.out)
    [] c.op = "VectorOpInternal" -> VectorOpInternal(h, c.name, c.in, c.out)
    [] c.op = "ArrayConcatenateInternal" -> ArrayConcatenateInternal(h, c.out, c.ins)
    [] c.op = "CopyAndReset" -> CopyAndReset(h, c.in, c.out, c.new)
    [] OTHER -> Goes(h)

StringOutcome(h, c) ==
  CASE c.op = "StringViaDecode" -> StringViaDecode(h, c.out, c.in)
    [] c.op = "ReplaceSubstring" -> ReplaceSubstring(h, c.out, c.replaced, c.in, c.new, c.offset, c.length)
    [] c.op = "SearchAndReplaceString" ->
         SearchAndReplaceString(h, c.out, c.count, c.past, c.in, c.search, c.new, c.offset, c.all, c.ignoreCase)
    [] c.op = "SearchSplitString" ->
         SearchSplitString(h, c.out, c.rest, c.past, c.in, c.search, c.offset)
    [] c.op = "StringLength" -> StringLength(h, c.out, c.in)
    [] c.op = "StringIndexChar" -> StringIndexChar(h, c.out, c.in, c.n)
    [] c.op = "StringToUpper" -> StringToUpper(h, c.out, c.in)
    [] c.op = "StringToLower" -> StringToLower(h, c.out, c.in)
    [] c.op = "StringToUpperInt" -> StringToUpperInt(h, c.out, c.char)
    [] c.op = "StringToLowerInt" -> StringToLowerInt(h, c.out, c.char)
    [] c.op = "StringReverse" -> StringReverse(h, c.out, c.in)
    [] c.op = "StringRotate" -> StringRotate(h, c.out, c.in)
    [] c.op = "StringTrim" -> StringTrim(h, c.out, c.in, c.location)
    [] c.op = "StringConcatenate" -> StringConcatenate(h, c.out, c.inputs)
    [] c.op = "StringPickLine" -> StringPickLine(h, c.out, c.init, c.in, c.n)
    [] c.op = "MaxAndMinElts" -> MaxAndMinEltsString(h, c.in, c.other, c.max, c.min)
    [] c.op = "MatchPattern" ->
         MatchPattern(h, c.in, c.pattern, c.offset, c.before, c.match, c.after, c.past)
    [] c.op = "StringFormat" -> StringFormat(h, c.out, c.format, c.args, c.failed)
    [] c.op = "StringFormatValue" -> StringFormatValue(h, c.out, c.format, c.arg)
    [] c.op = "ByteArrayToString" -> ByteArrayToString(h, c.out, c.in, c.encoding, c.failed)
    [] c.op = "StringToByteArray" -> StringToByteArray(h, c.out, c.in, c.encoding, c.failed)
    [] c.op = "ArraySpreadsheet" -> ArraySpreadsheet(h, c.out, c.format, c.delimiter, c.in)
    [] c.op = "SpreadsheetStringtoArray" -> SpreadsheetStringtoArray(h, c.in, c.format, c.delimiter, c.out)
    [] c.op = "SpreadsheetStringtoArrayWithArrayDelim" ->
         SpreadsheetStringtoArrayWithArrayDelim(h, c.in, c.format, c.delimiters, c.out)
    [] OTHER -> GenericOutcome(h, c)

Outcome(h, c) ==
  CASE c.op = "ArrayLengthN" -> ArrayLengthN(h, c.in, c.out)
    [] c.op = "ArrayDimensions" -> ArrayDimensions(h, c.in, c.out)
    [] c.op = "ArrayResizeDimensions" -> ArrayResizeDimensions(h, c.out, c.lens)
    [] c.op = "ArrayFill" -> ArrayFill(h, c.out, c.n, c.value)
    [] c.op = "ArrayFillNDV" -> ArrayFillNDV(h, c.out, c.value, c.lens)
    [] c.op = "ArrayIndexElt" -> ArrayIndexElt(h, c.in, c.index, c.out)
    [] c.op = "ArrayIndexEltNDV" -> ArrayIndexEltNDV(h, c.in, c.out, c.index)
    [] c.op = "ArrayIndexElt2DV" -> ArrayIndexElt2DV(h, c.in, c.row, c.col, c.out)
    [] c.op = "ArrayIndexND" -> ArrayIndexND(h, c.in, c.out, c.index)
    [] c.op = "ArrayReplaceElt" -> ArrayReplaceElt(h, c.out, c.in, c.index, c.new)
    [] c.op = "ArrayReplaceEltNDV" -> ArrayReplaceEltNDV(h, c.out, c.in, c.new, c.index)
    [] c.op = "ArrayReplaceSubset" -> ArrayReplaceSubset(h, c.out, c.in, c.pairs)
    [] c.op = "ArrayReplaceSubset2DV" -> ArrayReplaceSubset2DV(h, c.out, c.in, c.parts)
    [] c.op = "ArrayReplaceSubsetND" -> ArrayReplaceSubsetND(h, c.out, c.in, c.index, c.new)
    [] c.op = "ArrayAppendElt" -> ArrayAppendElt(h, c.out, c.new)
    [] c.op = "ArrayInsertElt" -> ArrayInsertElt(h, c.out, c.in, c.index, c.new)
    [] c.op = "ArrayInsertSubset" -> ArrayInsertSubset(h, c.out, c.in, c.index, c.new)
    [] c.op = "ArrayInsertSubsetND" -> ArrayInsertSubsetND(h, c.out, c.in, c.index, c.dim, c.new)
    [] c.op = "ArraySubset" -> ArraySubset(h, c.out, c.in, c.index, c.length)
    [] c.op = "ArraySubsetND" -> ArraySubsetND(h, c.out, c.in, c.index, c.lens)
    [] c.op = "ArraySplit" -> ArraySplit(h, c.out, c.part, c.in, c.index)
    [] c.op = "ArrayDelete" -> ArrayDelete(h, c.out, c.part, c.in, c.length, c.index)
    [] c.op = "ArrayDeleteND" -> ArrayDeleteND(h, c.out, c.part, c.in, c.length, c.index, c.dim)
    [] c.op = "ArrayReverse" -> ArrayReverse(h, c.out, c.in)
    [] c.op = "ArrayRotate" -> ArrayRotate(h, c.out, c.in, c.index)
    [] c.op = "Sort1DArrayInternal" -> Sort1DArrayInternal(h, c.out, c.in)
    [] c.op = "ArrayReshape" -> ArrayReshape(h, c.out, c.in, c.lens)
    [] c.op = "ArrayTranspose" -> ArrayTranspose(h, c.out, c.in)
    [] c.op = "ArrayInterleave" -> ArrayInterleave(h, c.out, c.ins)
    [] c.op = "ArrayDecimate" -> ArrayDecimate(h, c.outs, c.in)
    [] c.op = "ArrayMaxMinInternal" ->
         ArrayMaxMinInternal(h, c.in, c.max, c.maxIndex, c.min, c.minIndex)
    [] c.op = "ClusterToArray" -> ClusterToArray(h, c.out, c.fields)
    [] OTHER -> StringOutcome(h, c)

NoAnswer == << >>

StringAnswer(h, c) ==
  CASE c.op = "Compare" ->
         LET s == Text(h, c.in)
             t == Text(h, c.other)
         IN  << BranchIfLTString(s, t), BranchIfEQString(s, t), BranchIfGTString(s, t),
                BranchIfLEString(s, t), BranchIfGEString(s, t) >>
    [] c.op = "Classify" ->
         LET s == Text(h, c.in)
         IN  << IsEmptyString(s), IsNotANumPathRefnum(s), IsDecimalDigit(s), IsHexDigit(s),
                IsOctalDigit(s), IsPrintable(s), IsWhiteSpace(s) >>
    [] c.op = "ClassifyInt" ->
         << IsDecimalDigitInt(c.n), IsHexDigitInt(c.n), IsOctalDigitInt(c.n), IsPrintableInt(c.n),
            IsWhiteSpaceInt(c.n) >>
    [] c.op = "Path" -> << IsEmptyPath(c.components, c.type), IsNotAPath(c.components, c.type) >>
    [] c.op = "StringFormat" -> << IF c.failed THEN NoFormatError ELSE FormatInto(c.format, c.args).error >>
    [] c.op \in {"ByteArrayToString", "StringToByteArray"} ->
         << ConversionError(Text(h, c.in), c.encoding, c.failed) >>
    [] OTHER -> NoAnswer

\* Reading and coding of text, which the instructions and the codecs are built from.
TextAnswer(c) ==
  CASE c.op = "UnEscape" -> UnEscape(c.text, c.length)
    [] c.op = "ProcessEscapes" -> ProcessEscapes(c.text)
    [] c.op = "AppendEscapeEncoded" ->
         IF c.inPlace THEN AppendEscapeEncodedInPlace(c.text, c.from)
         ELSE AppendEscapeEncoded(Taken(c.text, c.from), Rest(c.text, c.from))
    [] c.op = "PercentEncode" -> PercentEncoded(c.text)
    [] c.op = "PercentDecode" -> PercentDecoded(c.text)
    [] c.op = "ReadToken" -> ReadToken(c.text, c.suppressInfNaN)
    [] c.op = "ClassifyNextToken" -> << ClassifyNextToken(c.text) >>
    [] c.op = "ReadSubexpressionToken" -> ReadSubexpressionToken(c.text)
    [] c.op = "ReadNameToken" -> ReadNameToken(c.text)
    [] c.op = "ReadInt" -> ReadInt(c.text, c.width)
    [] c.op = "ReadIntWithBase" -> ReadIntWithBase(c.text, c.base, c.width)
    [] c.op = "ReadIntDim" -> ReadIntDim(c.text, c.width, c.templates, c.lengths)
    [] c.op = "SplitString" -> SplitString(c.text, c.separator)
    [] c.op = "EatToEol" -> EatToEol(c.text)
    [] c.op = "TrimQuotedString" -> TrimQuotedString(ReadToken(c.text, FALSE).token, ReadToken(c.text, FALSE).kind)
    [] c.op = "StringScan" -> StringScan(c.text, c.format, c.at, c.args, c.failed)
    [] c.op = "StringScanValue" -> StringScanValue(c.text, c.format, c.arg)

Answer(h, c) ==
  IF "text" \in DOMAIN c THEN TextAnswer(c) ELSE
  CASE c.op = "IsEmptyArray" -> << IsEmptyArray(h, c.in) >>
    [] c.op = "ArrayInterpolate" -> ArrayInterpolate(Contents(h[c.in]), c.at)
    [] c.op = "ArrayInterpolatePoints" -> ArrayInterpolatePoints(c.points, c.at)
    [] c.op = "ArrayThreshold" -> ArrayThreshold(Contents(h[c.in]), c.value, c.index)
    [] c.op = "ArrayThresholdPoints" -> ArrayThresholdPoints(c.points, c.value, c.index)
    [] c.op = "ArrayToCluster" -> ArrayToCluster(h[c.in], c.fields)
    [] c.op = "IndexBundleClusterArray" ->
         IndexBundleClusterArray([k \in DOMAIN c.ins |-> h[c.ins[k]]])
    [] c.op = "BuildClusterArray" -> BuildClusterArray(c.elements)
    [] c.op = "NumberToBooleanArray" -> NumberToBooleanArray(c.number, c.width)
    [] c.op = "BooleanArrayToNumber" -> << BooleanArrayToNumber(c.bits, c.width, c.signed) >>
    [] c.op = "Divide" -> << Quotient(c.x, c.y), Remainder(c.x, c.y) >>
    [] c.op = "ConvertEnum" -> << ConvertEnum(c.n, c.kind, c.width, c.items) >>
    [] c.op = "MergeErrors" ->
         LET merged == MergeErrors(c.inputs)
         IN  << merged, ConvertErrorClusterToBoolean(merged) >>
    [] OTHER -> StringAnswer(h, c)

Init ==
  /\ heap \in FirstHeaps
  /\ call = [op |-> "none"]
  /\ answer = NoAnswer
  /\ running = TRUE
  /\ calls = 0

Leaves(outcome) ==
  /\ \A x \in DOMAIN heap : ArrayLen(outcome.h[x]) <= MaxLength
  /\ heap' = outcome.h
  /\ running' = outcome.ok

Execute(c) ==
  /\ running
  /\ \E outcome \in {Outcome(heap, c)} : Leaves(outcome)
  /\ answer' = Answer(heap, c)
  /\ call' = c
  /\ calls' = calls + 1

Next == calls < Len(Calls) /\ \E c \in Calls[calls + 1] : Execute(c)

DataSpec == Init /\ [][Next]_dataVars

-----------------------------------------------------------------------------
\* Type correctness: an array has the lengths its type allows, and memory for them.
DataTypeOK ==
  \A x \in DOMAIN heap :
    LET a == heap[x]
    IN  /\ \A i \in DOMAIN a.type : a.dims[i] = DimLength(a.type[i], a.dims[i]) /\ a.dims[i] >= 0
        /\ Capacity(a) >= Product([i \in DOMAIN a.type |-> DimCapacity(a.type[i], a.dims[i])])

\* No instruction shows memory that was allocated and never given a value: rows are
\* moved apart before they are filled, and arrays grow without being initialized.
NothingUninitialized == \A x \in DOMAIN heap : Junk \notin ToSet(Contents(heap[x]))
=============================================================================
