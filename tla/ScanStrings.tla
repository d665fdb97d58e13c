----------------------------- MODULE ScanStrings -----------------------------
(***************************************************************************)
(* Values from text (FormatScan and its instructions,                      *)
(* source/core/NumericString.cpp).  Arguments are those of FormatStrings;  *)
(* the conversions of real numbers and times are left out, and integers of *)
(* 32 and 64 bits, whose ranges are cut in another way.                    *)
(***************************************************************************)
EXTENDS FormatStrings

-----------------------------------------------------------------------------
(* What a specifier reads: whether it did, how much, and the value stored,  *)
(* which may be changed although nothing was read.                          *)

Read(n, value) == [ok |-> n > 0, n |-> n, value |-> value]
Unread(arg) == Read(0, arg.value)

\* strtoll and strtoull of the C library.
HexPrefix(s, base) ==
  IF base = 16 /\ Len(s) > 2 /\ s[1] = Zero /\ s[2] \in {Charx, CharX} /\ s[3] \in HexChars THEN 2 ELSE 0
Counted(s, before, n, sign, base) ==
  IF n = 0 THEN Read(0, 0) ELSE Read(before + n, sign * DigitsValue(Taken(s, n), base))
DigitsFrom(s, before, sign, base) == Counted(s, before, SpanLength(s, DigitChars(base)), sign, base)
Unprefixed(s, before, sign, base) ==
  DigitsFrom(Rest(s, HexPrefix(s, base)), before + HexPrefix(s, base), sign, base)
SignRead(s, before, base) ==
  IF Begins(s, {Plus, Minus}) THEN Unprefixed(Tail(s), before + 1, IF s[1] = Minus THEN -1 ELSE 1, base)
  ELSE Unprefixed(s, before, 1, base)
Strtoll(s, base) == SignRead(Rest(s, SpanLength(s, SpaceChars)), SpanLength(s, SpaceChars), base)

\* Only a small x reads hexadecimal digits.
ScanIntBase(char) ==
  CASE char = Charx -> 16 [] char = Charo -> 8 [] char \in {Charb, CharB} -> 2 [] OTHER -> 10


\* A value beyond the range of its type becomes the end of the range.
ConvertNumericRange(kind, width, n) ==
  IF kind = "Int" THEN Max({-(2 ^ (width - 1)), Min({n, 2 ^ (width - 1) - 1})})
  ELSE Max({0, Min({n, 2 ^ width - 1})})

IntScanString(s, o, arg) ==
  LET read == Strtoll(s, ScanIntBase(o.char))
  IN  [read EXCEPT !.value = ConvertNumericRange(arg.kind, arg.width, @)]

\* A word counts only if nothing follows it.
TrueWords == {<< 121 >>, << 116 >>, TrueText, << 111, 110 >>, << 121, 101, 115 >>}
FalseWords == {<< 110 >>, << 102 >>, FalseText, << 111, 102, 102 >>, << 110, 111 >>}
BooleanScanString(s) ==
  Read(IF LowerText(s) \in TrueWords \cup FalseWords THEN Len(s) ELSE 0, IF LowerText(s) \in TrueWords THEN 1 ELSE 0)

\* The longest item that begins the text.
EnumScanString(s, o, arg) ==
  LET found == {i \in DOMAIN arg.items : StartsWith(s, arg.items[i])}
      longest == CHOOSE i \in found : \A j \in found : Len(arg.items[j]) <= Len(arg.items[i])
  IN  IF o.char # Chars THEN IntScanString(s, o, arg)
      ELSE IF found = {} THEN Unread(arg) ELSE Read(Len(arg.items[longest]), longest - 1)

\* A set of characters and ranges.
RECURSIVE CharSet(_)
CharSet(s) ==
  IF s = << >> THEN {}
  ELSE IF Len(s) > 2 /\ s[2] = Minus THEN s[1] .. s[3] \cup CharSet(Rest(s, 3))
  ELSE {s[1]} \cup CharSet(Tail(s))

\* The first run of characters of a set, as far as the width goes.
ReadRun(s, chars, width, arg) ==
  LET start == SpanLength(s, 0 .. 255 \ chars)
      run == SpanLength(Rest(s, start), chars)
      n == IF width > 0 THEN Min({run, width}) ELSE run
  IN  IF run = 0 THEN Unread(arg) ELSE Read(start + n, SubSeq(s, start + 1, start + n))

\* The set is what a specifier has between its first and its last character, which is
\* not the set alone if there is a width.
TextScanString(s, o, arg) ==
  LET set == SubSeq(o.spec, 2, Len(o.spec) - 1)
      inverted == Begins(set, {Caret})
      chars == IF inverted THEN 0 .. 255 \ CharSet(set) ELSE CharSet(set)
  IN  IF o.char = Chars THEN ReadRun(s, 0 .. 255 \ SpaceChars, o.width, arg)
      ELSE IF o.char # Bracket \/ set \in {<< >>, << Caret >>} THEN Unread(arg)
      ELSE ReadRun(s, chars, o.width, arg)

\* A width counts from the first character that is not blank.
TypedScanString(in, o, arg) ==
  LET s == IF o.width > 0 THEN Taken(in, o.width + SpanLength(in, SpaceChars)) ELSE in
  IN  CASE arg.kind = "Boolean" -> BooleanScanString(s)
        [] arg.kind = "Enum" -> EnumScanString(s, o, arg)
        [] arg.kind = "String" -> TextScanString(s, o, arg)
        [] OTHER -> IntScanString(s, o, arg)

-----------------------------------------------------------------------------
(* FormatScan: f is what is left of the format, in of the input, offset how *)
(* much has been read, index the next argument.                             *)

CharsOfReals == {69, 70, 101, 102, 103, 112}

Reset(st, error, text) == [st EXCEPT !.error = error, !.in = text, !.offset = 0]
Stopped(st, error) == [st EXCEPT !.error = error, !.can = FALSE]
Passed(st, n) == [st EXCEPT !.in = Rest(@, n), !.offset = @ + n]

StoredArgument(st, o, read) ==
  LET now == [st EXCEPT !.args[st.index].value = read.value, !.index = @ + 1]
      mismatch == o.char \in NumberConversions /\ IsText(st.args[st.index])
  IN  IF read.ok THEN Passed(now, read.n)
      ELSE Stopped(now, IF mismatch THEN FormatTypeMismatch ELSE FormatScanFailed)
ScanArgument(st, o) == StoredArgument(st, o, TypedScanString(st.in, o, st.args[st.index]))

\* A specifier without argument or input gives an error, and scanning goes on with the
\* rest of the format at the start of the input.
ScanWith(st, o, text) ==
  IF ~ o.valid THEN Stopped(st, FormatCodeUnknown)
  ELSE IF (st.index > Len(st.args) /\ ConsumesArgument(o)) \/ st.in = << >>
  THEN Reset(st, FormatTooManyFormatSpecs, text)
  ELSE IF o.char = Percent THEN [Passed(st, 1) EXCEPT !.can = st.in[1] = Percent]
  ELSE IF o.char \in NumberConversions \cup CharsOfReals \cup {Chars, Bracket} THEN ScanArgument(st, o)
  ELSE Stopped(st, FormatScanFailed)
ScanPast(st, o, text) == ScanWith([st EXCEPT !.f = o.rest], o, text)
ScanSpecifier(st, text) == ScanPast(st, ReadPercentFormatOptions(st.f), text)

ScanStep(st, text) ==
  LET c == st.f[1]
      now == [st EXCEPT !.f = Tail(@)]
      separator == LocalizedSeparatorLength(now.f)
  IN  IF c \in SpaceChars THEN Passed(now, SpanLength(st.in, SpaceChars))
      ELSE IF c = Percent /\ separator > 0 THEN [now EXCEPT !.f = Rest(@, separator)]
      ELSE IF c = Percent THEN ScanSpecifier(now, text)
      ELSE IF st.in = << >> THEN Stopped(now, FormatScanFailed)
      ELSE IF st.in[1] = c THEN Passed(now, 1) ELSE [now EXCEPT !.can = FALSE]

RECURSIVE Scanning(_, _)
Scanning(st, text) == IF st.f = << >> \/ ~ st.can THEN st ELSE Scanning(ScanStep(st, text), text)

Scanned(st, text) ==
  IF st.can /\ st.index <= Len(st.args) THEN Reset(st, FormatTooFewFormatSpecs, text) ELSE st
FormatScan(text, format, args) ==
  Scanned(Scanning([f |-> IF format = << >> THEN << Percent, 103 >> ELSE format, in |-> text, offset |-> 0,
                    args |-> args, index |-> 1, error |-> NoFormatError, can |-> TRUE], text), text)

-----------------------------------------------------------------------------
(* The instructions.                                                        *)

\* The blank behind the last specifier is removed again.
MakeFormatString(args) == DefaultFormatCode(args)

\* After an error nothing is scanned, and what remains is what there was.
ScanAnswer(st, at) == [rest |-> st.in, offset |-> at + st.offset, args |-> st.args, error |-> st.error]
StringScan(text, format, initialPos, args, failed) ==
  LET at == Min({initialPos, Len(text)})
  IN  IF failed THEN [rest |-> Rest(text, at), offset |-> at, args |-> args, error |-> NoFormatError]
      ELSE ScanAnswer(FormatScan(Rest(text, at), IF format = << >> THEN MakeFormatString(args) ELSE format, args), at)

ValueAnswer(st) == [rest |-> st.in, arg |-> st.args[1]]
StringScanValue(text, format, arg) == ValueAnswer(FormatScan(text, format, << arg >>))

-----------------------------------------------------------------------------
(* Strings and arrays of bytes.                                             *)

InvalidUTF8CharErr == 1
CannotConvertErr == 1396

\* utf8::is_valid: no byte out of place, no code point that a shorter form has, no
\* surrogate and none beyond the last.
LeastCode == << 0, 128, 2048, 65536 >>
RECURSIVE IsValidUtf8(_)
IsValidUtf8(s) ==
  LET n == CharLength(s[1])
      code == ReadUtf32(s)
  IN  s # << >> =>
        /\ s[1] < 128 \/ (n > 1 /\ code >= LeastCode[n] /\ code \notin 55296 .. 57343 /\ code <= 1114111)
        /\ IsValidUtf8(Rest(s, n))

ConversionError(s, encoding, failed) ==
  IF failed THEN NoFormatError
  ELSE IF encoding # 0 THEN CannotConvertErr
  ELSE IF ~ IsValidUtf8(s) THEN InvalidUTF8CharErr ELSE NoFormatError

ByteArrayToString(h, out, in, encoding, failed) ==
  LET s == Text(h, in)
  IN  Goes(IF failed THEN h
           ELSE Assigned(h, out, IF ConversionError(s, encoding, failed) = NoFormatError THEN s ELSE << >>))

\* Bytes are stored even if they are no text.
StringToByteArray(h, out, in, encoding, failed) ==
  Goes(IF failed THEN h ELSE Assigned(h, out, IF encoding # 0 THEN << >> ELSE Text(h, in)))
=============================================================================
