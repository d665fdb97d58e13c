---------------------------- MODULE FormatStrings ----------------------------
(***************************************************************************)
(* Values as text (Format and its instructions,                            *)
(* source/core/NumericString.cpp).  An argument is                         *)
(*   [kind, width, value]                                                  *)
(* of kind "Int", "UInt", "Boolean", "Enum" (with its items) or "String";  *)
(* an integer has a width in bits.  Real, complex and time values and      *)
(* their conversions are left out, and so are formats that end within a    *)
(* specifier: the conversion is then that of the specifier before.         *)
(***************************************************************************)
EXTENDS MatchPattern

Conversions ==
  {37, 65, 66, 69, 70, 71, 84, 88, 97, 98, 99, 100, 101, 102, 103, 105, 111, 112, 115, 116, 117, 120, 122}
LengthConversions == {66, 69, 70, 71, 88, 98, 100, 101, 102, 103, 111, 112, 117, 120}
CharB == 66
CharT == 84
CharX == 88
Charb == 98
Chard == 100
Charo == 111
Chars == 115
Chart == 116
Charu == 117
Charx == 120
Charz == 122
Semicolon == 59
Hash == 35

\* Numbers in a format are far below the end of this width.
FormatIntWidth == 16

NoFormatError == 0
FormatTypeMismatch == 81
FormatCodeUnknown == 82
FormatTooFewFormatSpecs == 83
FormatTooManyFormatSpecs == 84
FormatScanFailed == 85

IsText(arg) == arg.kind = "String"

-----------------------------------------------------------------------------
(* Format specifiers.                                                       *)

NoOptions ==
  [valid |-> TRUE, char |-> 0, showSign |-> FALSE, left |-> FALSE, alternate |-> FALSE, utc |-> FALSE,
   zero |-> FALSE, precise |-> FALSE, width |-> 0, precision |-> -1, significant |-> -1, order |-> -1, rest |-> << >>]

Invalid(o, c, rest) == [o EXCEPT !.valid = FALSE, !.char = c, !.rest = rest]

\* A set, and a time in angle brackets: s is what follows the bracket, end the other one.
SetGiven(o, s, end) ==
  IF end = NoMatch THEN Invalid(o, Bracket, s) ELSE [o EXCEPT !.char = Bracket, !.rest = Rest(s, end + 1)]
TimeGiven(o, s, end) ==
  IF end = NoMatch THEN Invalid(o, Less, s)
  ELSE IF Begins(Rest(s, end + 1), {Chart, CharT}) THEN [o EXCEPT !.char = s[end + 2], !.rest = Rest(s, end + 2)]
  ELSE Invalid(o, Less, Rest(s, end + 2))

\* What follows the percent sign, flag by flag: c is the next one, s what follows it.  A
\* number is taken for the position of an argument if there is a dollar sign anywhere
\* behind it.  A precision that is no number takes the next character with it.
RECURSIVE ReadFlags(_, _), Flag(_, _, _), PrecisionGiven(_, _), SignificantGiven(_, _), NumberGiven(_, _, _, _)
ReadFlags(s, o) == IF s = << >> THEN o ELSE Flag(s[1], Tail(s), o)
PrecisionGiven(o, n) ==
  IF n.ok THEN ReadFlags(n.rest, [o EXCEPT !.precision = n.value, !.precise = TRUE])
  ELSE Invalid(o, Point, Rest(n.rest, 1))
SignificantGiven(o, n) ==
  ReadFlags(n.rest, [o EXCEPT !.significant = IF n.ok THEN n.value ELSE @, !.precise = TRUE])
NumberGiven(c, s, o, n) ==
  IF Dollar \in ToSet(s) THEN ReadFlags(n.rest, [o EXCEPT !.order = n.value])
  ELSE IF c = Zero THEN ReadFlags(s, [o EXCEPT !.zero = TRUE])
  ELSE ReadFlags(n.rest, [o EXCEPT !.width = n.value])
Flag(c, s, o) ==
  IF c \in Conversions THEN [o EXCEPT !.char = c, !.rest = s]
  ELSE IF c = Bracket THEN SetGiven(o, s, FindFirstMatch(s, << CloseBracket >>, 0, FALSE))
  ELSE IF c = Less THEN TimeGiven(o, s, FindFirstMatch(s, << Greater >>, 0, FALSE))
  ELSE IF c = Plus THEN ReadFlags(s, [o EXCEPT !.showSign = TRUE])
  ELSE IF c = Minus THEN ReadFlags(s, [o EXCEPT !.left = TRUE])
  ELSE IF c = Hash THEN ReadFlags(s, [o EXCEPT !.alternate = TRUE])
  ELSE IF c = Caret THEN ReadFlags(s, [o EXCEPT !.utc = TRUE])
  ELSE IF c = Point THEN PrecisionGiven(o, ReadInt(s, FormatIntWidth))
  ELSE IF c = Underscore THEN SignificantGiven(o, ReadInt(s, FormatIntWidth))
  ELSE IF c = Dollar \/ (c = Star /\ o.precise) THEN ReadFlags(s, o)
  ELSE IF c \in {104, 108} THEN IF Begins(s, LengthConversions) THEN ReadFlags(s, o) ELSE Invalid(o, c, s)
  ELSE IF c \in Digits THEN NumberGiven(c, s, o, ReadInt(<< c >> \o s, FormatIntWidth))
  ELSE Invalid(o, c, s)

WithSpec(s, o) == o @@ [spec |-> Taken(s, Len(s) - Len(o.rest))]
ReadPercentFormatOptions(s) == WithSpec(s, ReadFlags(s, NoOptions))

ConsumesArgument(o) == o.char # Percent

\* How much there is of a decimal separator, which only real numbers have.
LocalizedSeparatorLength(s) ==
  IF Begins(s, {Semicolon}) THEN 1
  ELSE IF Len(s) > 1 /\ s[2] = Semicolon /\ s[1] \in {Comma, Point} THEN 2 ELSE 0

-----------------------------------------------------------------------------
(* Numbers.                                                                 *)

RECURSIVE DigitsOf(_, _)
DigitsOf(n, base) ==
  IF n < base THEN << HexDigit(n) >> ELSE Append(DigitsOf(n \div base, base), HexDigit(n % base))
DecimalText(n) == IF n < 0 THEN << Minus >> \o DigitsOf(-n, 10) ELSE DigitsOf(n, 10)

Repeated(c, n) == [k \in 1 .. AtLeast0(n) |-> c]

\* What leads a number stays in front of zeros and behind blanks.
GenerateFinalNumeric(o, leading, number, zero) ==
  LET n == o.width - Len(leading) - Len(number)
  IN  IF o.left THEN leading \o number \o Repeated(Blank, n)
      ELSE IF zero THEN leading \o Repeated(Zero, n) \o number
      ELSE Repeated(Blank, n) \o leading \o number

SignOf(o, negative) == IF negative THEN << Minus >> ELSE IF o.showSign THEN << Plus >> ELSE << >>

\* The number of significant digits is at least one; a half is rounded away from zero.
RefactorLVNumeric(o, n) ==
  LET abs == IF n < 0 THEN -n ELSE n
      surplus == 10 ^ AtLeast0(Len(DigitsOf(abs, 10)) - (IF o.significant = 0 THEN 1 ELSE o.significant))
      rounded == IF surplus = 1 THEN abs ELSE ((abs + surplus \div 2) \div surplus) * surplus
  IN  GenerateFinalNumeric(o, SignOf(o, n < 0), DigitsOf(rounded, 10), o.zero)

\* printf of the C library.
Printed(o, base, n) ==
  LET abs == IF n < 0 THEN -n ELSE n
      digits == IF abs = 0 /\ o.precision = 0 THEN << >> ELSE DigitsOf(abs, base)
      number == Repeated(Zero, o.precision - Len(digits)) \o digits
      octal == IF base = 8 /\ o.alternate /\ ~ Begins(number, {Zero}) THEN << Zero >> \o number ELSE number
      leading == IF o.char = Chard THEN SignOf(o, n < 0)
                 ELSE IF base = 16 /\ o.alternate /\ n # 0 THEN << Zero, CharX >> ELSE << >>
  IN  GenerateFinalNumeric(o, leading, octal, o.zero /\ o.precision < 0)

BitsOf(arg) == arg.value % 2 ^ arg.width

IntegerText(o, arg) ==
  IF o.char \in {Charb, CharB}
  THEN GenerateFinalNumeric(o, SignOf(o, FALSE), DigitsOf(BitsOf(arg), 2), o.zero)
  ELSE IF o.char = Chard /\ o.significant >= 0 THEN RefactorLVNumeric(o, arg.value)
  ELSE IF o.char = Chard THEN Printed(o, 10, arg.value)
  ELSE Printed(o, IF o.char = Charo THEN 8 ELSE IF o.char = Charu THEN 10 ELSE 16, BitsOf(arg))

-----------------------------------------------------------------------------
(* Arguments as text.                                                       *)

UpperText(s) == [k \in DOMAIN s |-> Upper(s[k])]

\* TDViaFormatter::FormatData; the value of an enumeration may be out of its range.
FormatData(arg, upper) ==
  LET truth == IF arg.value = 1 THEN TrueText ELSE FalseText
  IN  CASE arg.kind = "String" -> arg.value
        [] arg.kind = "Boolean" -> IF upper THEN UpperText(truth) ELSE truth
        [] arg.kind = "Enum" ->
             IF arg.value < Len(arg.items) THEN arg.items[arg.value + 1]
             ELSE << Less >> \o DecimalText(arg.value) \o << Greater >>
        [] OTHER -> DecimalText(arg.value)

\* The precision cuts bytes, and none if it is 0.
StringText(o, arg, upper) ==
  LET s == FormatData(arg, upper)
      part == IF o.precision > 0 THEN Taken(s, o.precision) ELSE s
  IN  GenerateFinalNumeric(o, << >>, part, FALSE)

NumberConversions == {Charb, CharB, Chard, Charo, Charu, Charx, CharX}

Mismatch(o, arg) ==
  \/ o.char \in {Chard, Charo, Charu, Charx, CharX} /\ IsText(arg)
  \/ o.char = Chars /\ arg.kind \notin {"String", "Boolean", "Enum"}

ArgumentText(o, arg, upper) ==
  IF o.char \in NumberConversions THEN IntegerText(o, arg) ELSE StringText(o, arg, upper)

-----------------------------------------------------------------------------
(* Format: f is what is left of the format, index the next argument, used   *)
(* how many specifiers there were, those that take no argument included.    *)

FormatEscapes == [c \in DOMAIN BackslashChar \cup {Backslash} |-> IF c = Backslash THEN c ELSE BackslashChar[c]]
HexEscapeChars == Digits \cup UpperCase

\* strtol: what is no hexadecimal digit ends the number.
HexEscaped(s) == DigitsValue(Taken(s, SpanLength(s, HexChars)), 16)

Failed(st, error) == [st EXCEPT !.buffer = << >>, !.error = error, !.valid = FALSE]

FormatArgument(st, o, arg, upper) ==
  IF Mismatch(o, arg) THEN Failed(st, FormatTypeMismatch)
  ELSE [st EXCEPT !.buffer = @ \o ArgumentText(o, arg, upper), !.index = @ + 1]
FormatWith(st, o, args, upper) ==
  IF ~ o.valid THEN Failed(st, FormatCodeUnknown)
  ELSE IF ConsumesArgument(o) /\ st.index > Len(args) THEN Failed(st, FormatTooManyFormatSpecs)
  ELSE IF o.char = Percent THEN [st EXCEPT !.buffer = Append(@, Percent)]
  ELSE IF o.char \notin NumberConversions \cup {Chars, Charz} THEN st
  ELSE FormatArgument(st, o, args[st.index], upper)
FormatPast(st, o, args, upper) ==
  FormatWith([st EXCEPT !.f = o.rest, !.index = IF o.order > 0 THEN o.order ELSE @, !.used = @ + 1], o, args, upper)
FormatSpecifier(st, args, upper) == FormatPast(st, ReadPercentFormatOptions(st.f), args, upper)

FormatStep(st, args, upper) ==
  LET c == st.f[1]
      t == Rest(st.f, 1)
      separator == LocalizedSeparatorLength(t)
      shown(s, rest) == [st EXCEPT !.buffer = @ \o s, !.f = rest]
  IN  IF c = Backslash /\ Len(t) > 1 /\ ToSet(Taken(t, 2)) \subseteq HexEscapeChars
      THEN shown(<< HexEscaped(Taken(t, 2)) >>, Rest(t, 2))
      ELSE IF c = Backslash /\ t # << >>
      THEN shown(IF t[1] \in DOMAIN FormatEscapes THEN << FormatEscapes[t[1]] >> ELSE << >>, Tail(t))
      ELSE IF c # Percent THEN shown(<< c >>, t)
      ELSE IF separator > 0 THEN shown(<< >>, Rest(t, separator))
      ELSE FormatSpecifier([st EXCEPT !.f = t], args, upper)

RECURSIVE Formatting(_, _, _)
Formatting(st, args, upper) ==
  IF st.f = << >> \/ ~ st.valid THEN st ELSE Formatting(FormatStep(st, args, upper), args, upper)

\* Arguments are unused if some follow the last one and the specifiers are not as many
\* as the arguments; this error takes the place of an earlier one.
Finished(st, args) ==
  IF st.index <= Len(args) /\ st.used # Len(args) THEN Failed(st, FormatTooFewFormatSpecs) ELSE st
Format(format, args, upper) ==
  Finished(Formatting([f |-> format, buffer |-> << >>, index |-> 1, used |-> 0, error |-> NoFormatError, valid |-> TRUE],
                      args, upper), args)

DefaultCode(arg) ==
  << Percent, IF arg.kind = "UInt" THEN Charu ELSE IF arg.kind = "Int" THEN Chard ELSE Chars >>
DefaultFormatCode(args) ==
  FlattenSeq([k \in DOMAIN args |-> (IF k = 1 THEN << >> ELSE << Blank >>) \o DefaultCode(args[k])])

-----------------------------------------------------------------------------
(* The instructions.                                                        *)

FormatInto(format, args) == Format(IF format = << >> THEN DefaultFormatCode(args) ELSE format, args, TRUE)

\* Nothing is done after an error.
StringFormat(h, out, format, args, failed) ==
  Goes(IF failed THEN h ELSE Assigned(h, out, FormatInto(format, args).buffer))

\* The format up to its first specifier of an argument, and what follows it: shown as
\* it is.  A specifier that is not valid gives way to the default one, behind the
\* percent sign that it began with.
RECURSIVE FirstSpecifier(_, _, _), SpecifierAt(_, _, _), UpToSpecifier(_, _, _, _)
FirstSpecifier(format, from, arg) ==
  SpecifierAt(format, from + SpanLength(Rest(format, from), 0 .. 255 \ {Percent}) + 1, arg)
SpecifierAt(format, begin, arg) ==
  IF begin > Len(format) THEN [head |-> << >>, tail |-> << >>]
  ELSE UpToSpecifier(format, begin, arg, ReadPercentFormatOptions(Rest(format, begin)))
UpToSpecifier(format, begin, arg, o) ==
  LET end == Len(format) - Len(o.rest)
  IN  IF ~ o.valid THEN [head |-> Taken(format, begin) \o DefaultCode(arg), tail |-> o.rest]
      ELSE IF ConsumesArgument(o) THEN [head |-> Taken(format, end), tail |-> o.rest]
      ELSE FirstSpecifier(format, end, arg)

InParts(parts, arg) == Format(parts.head, << arg >>, FALSE).buffer \o parts.tail
DefaultFormatValue(format, arg) ==
  InParts(IF format = << >> THEN [head |-> DefaultCode(arg), tail |-> << >>] ELSE FirstSpecifier(format, 0, arg), arg)

StringFormatValue(h, out, format, arg) == Goes(Assigned(h, out, DefaultFormatValue(format, arg)))
=============================================================================
