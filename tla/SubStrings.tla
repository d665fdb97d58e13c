----------------------------- MODULE SubStrings -----------------------------
(***************************************************************************)
(* Reading of UTF-8 text (SubString and the percent codecs,                *)
(* source/core/StringUtilities.cpp).  A text is a sequence of bytes; the   *)
(* code moves the begin of a SubString forward, an operator here returns   *)
(* the rest.  Where the code would read behind the end of a text that      *)
(* breaks off within a character or an escape, the text simply ends.       *)
(***************************************************************************)
EXTENDS Integers, Sequences, FiniteSets, FiniteSetsExt, SequencesExt

Bell == 7
Backspace == 8
Tab == 9
LineFeed == 10
FormFeed == 12
Return == 13
Blank == 32
DoubleQuote == 34
Dollar == 36
Percent == 37
SingleQuote == 39
OpenParen == 40
CloseParen == 41
Star == 42
Plus == 43
Comma == 44
Minus == 45
Point == 46
Slash == 47
Zero == 48
Less == 60
Greater == 62
AtSign == 64
Backslash == 92
Caret == 94
Underscore == 95

\* The classes of AsciiCharTraits.
Digits == 48 .. 57
OctalDigits == 48 .. 55
UpperCase == 65 .. 90
LowerCase == 97 .. 122
LetterChars == UpperCase \cup LowerCase
HexChars == Digits \cup 65 .. 70 \cup 97 .. 102
SpaceChars == 9 .. 13 \cup {Blank}
EolChars == {LineFeed, Return}
PunctuationChars == {33, 35, 38, 40, 41, 44, 47, 58, 60, 62, 91, 92, 93, 123, 124, 125, 126}
IdentifierChars ==
  Digits \cup LetterChars \cup {Dollar, Percent, Star, Plus, Minus, Point, Caret, Underscore} \cup 128 .. 255

Rest(s, n) == [k \in 1 .. Len(s) - n |-> s[k + n]]
Taken(s, n) == [k \in 1 .. n \cap DOMAIN s |-> s[k]]
StartsWith(s, t) == Taken(s, Len(t)) = t

\* How many of the first characters are of a set.
RECURSIVE SpanLength(_, _)
SpanLength(s, chars) == IF s = << >> \/ s[1] \notin chars THEN 0 ELSE 1 + SpanLength(Tail(s), chars)

Lower(c) == IF c \in UpperCase THEN c + 32 ELSE c
Upper(c) == IF c \in LowerCase THEN c - 32 ELSE c
LowerText(s) == [k \in DOMAIN s |-> Lower(s[k])]

-----------------------------------------------------------------------------
(* Characters.                                                              *)

\* How many bytes the character takes that a byte leads; a bad lead is a character.
CharLength(c) ==
  IF c \in 192 .. 223 THEN 2 ELSE IF c \in 224 .. 239 THEN 3 ELSE IF c \in 240 .. 247 THEN 4 ELSE 1

NoDigit == -1
DigitValue(c, base) ==
  LET value == IF c \in Digits THEN c - 48 ELSE IF c \in 97 .. 102 THEN c - 87
               ELSE IF c \in 65 .. 70 THEN c - 55 ELSE NoDigit
  IN  IF value >= base THEN NoDigit ELSE value

SameText(s, t, ignoreCase) == IF ignoreCase THEN LowerText(s) = LowerText(t) ELSE s = t

\* The code takes for the second byte of a character the first one plus 1: all
\* characters led by hexadecimal CC are joined to the one before.
RECURSIVE ClusterLength(_)
ClusterLength(s) ==
  LET n == CharLength(s[1])
      rest == Rest(s, n)
      joined == IF s[1] = Return THEN rest[1] = LineFeed ELSE s[1] # LineFeed /\ rest[1] = 204
  IN  IF rest = << >> THEN n ELSE IF joined THEN n + ClusterLength(rest) ELSE n

RECURSIVE GraphemeClusters(_)
GraphemeClusters(s) ==
  IF s = << >> THEN << >>
  ELSE << Taken(s, ClusterLength(s)) >> \o GraphemeClusters(Rest(s, ClusterLength(s)))

RECURSIVE StringLengthOf(_)
StringLengthOf(s) == IF s = << >> THEN 0 ELSE 1 + StringLengthOf(Rest(s, CharLength(s[1])))

\* The count is compared with the number of bytes, then characters are skipped.
RECURSIVE SkippedChars(_, _)
SkippedChars(s, count) ==
  IF s = << >> \/ count <= 0 THEN s ELSE SkippedChars(Rest(s, CharLength(s[1])), count - 1)
EatRawChars(s, count) == IF count < 0 \/ count >= Len(s) THEN << >> ELSE SkippedChars(s, count)

\* 0 stands for what is no code point.
ReadUtf32(s) ==
  LET n == CharLength(s[1])
      lead == s[1] % (IF n = 1 THEN 128 ELSE 2 ^ (7 - n))
      follow == [k \in 1 .. n - 1 |-> IF k < Len(s) THEN s[k + 1] ELSE 0]
  IN  IF s = << >> \/ (n = 1 /\ s[1] >= 128) \/ \E k \in DOMAIN follow : follow[k] \notin 128 .. 191 THEN 0
      ELSE FoldLeft(LAMBDA code, c : code * 64 + c - 128, lead, follow)

-----------------------------------------------------------------------------
(* Lines and parts.                                                         *)

ReadLine(s) ==
  LET n == SpanLength(s, 0 .. 255 \ EolChars)
      end == IF n = Len(s) THEN 0 ELSE IF s[n + 1] = Return /\ n + 1 < Len(s) /\ s[n + 2] = LineFeed THEN 2 ELSE 1
  IN  [ok |-> s # << >>, token |-> Taken(s, n), rest |-> Rest(s, n + end)]

EatToEol(s) == LET t == Rest(s, SpanLength(s, 0 .. 255 \ EolChars)) IN Rest(t, SpanLength(t, EolChars))

SplitString(s, separator) ==
  LET n == SpanLength(s, 0 .. 255 \ {separator})
  IN  [ok |-> n < Len(s), before |-> Taken(s, n), after |-> Rest(s, n + 1)]

CountMatches(s, c) == Cardinality({k \in DOMAIN s : s[k] = c})

NoMatch == -1

\* Places are tried character by character; there is none in an empty text, and none
\* for an empty one at the end.
RECURSIVE MatchFrom(_, _, _, _)
MatchFrom(s, search, at, ignoreCase) ==
  IF at >= (IF search = << >> THEN Len(s) ELSE Len(s) - Len(search) + 1) THEN NoMatch
  ELSE IF SameText(SubSeq(s, at + 1, at + Len(search)), search, ignoreCase) THEN at
  ELSE MatchFrom(s, search, at + CharLength(s[at + 1]), ignoreCase)

\* Mutant: a text is not found where it is the whole string.
FindFirstMatchShorter(s, search, offset, ignoreCase) ==
  IF s = << >> \/ Len(search) >= Len(s) THEN NoMatch ELSE MatchFrom(s, search, Max({offset, 0}), ignoreCase)

FindFirstMatch(s, search, offset, ignoreCase) ==
  IF s = << >> \/ Len(search) > Len(s) THEN NoMatch ELSE MatchFrom(s, search, Max({offset, 0}), ignoreCase)

-----------------------------------------------------------------------------
(* Escapes.                                                                 *)

\* What follows a backslash and belongs to the escape.
EscapeLength(s) ==
  IF s = << >> THEN 0 ELSE IF s[1] = 120 THEN 3 ELSE IF s[1] = 117 THEN 5
  ELSE IF s[1] \in OctalDigits THEN Min({3, SpanLength(s, OctalDigits)}) ELSE 1

RECURSIVE DigitsValue(_, _)
DigitsValue(s, base) ==
  IF s = << >> THEN 0 ELSE DigitsValue(Front(s), base) * base + DigitValue(Last(s), base)

EscapedLetter == [c \in {110, 114, 116, 102, 98} |->
  CASE c = 110 -> LineFeed [] c = 114 -> Return [] c = 116 -> Tab [] c = 102 -> FormFeed [] c = 98 -> Backspace]

\* An octal escape that does not begin with 0 to 3 stands for the backslash itself.
EscapedChar(token) ==
  LET c == token[1]
      hex == Taken(Rest(token, 1), SpanLength(Rest(token, 1), HexChars))
  IN  IF c \in 48 .. 51 THEN DigitsValue(token, 8)
      ELSE IF c \in OctalDigits THEN Backslash
      ELSE IF Len(token) > 1 THEN DigitsValue(hex, 16) % 256
      ELSE IF c \in DOMAIN EscapedLetter THEN EscapedLetter[c] ELSE c

RECURSIVE LengthAfterProcessingEscapes(_)
LengthAfterProcessingEscapes(s) ==
  IF s = << >> THEN 0
  ELSE IF s[1] # Backslash THEN 1 + LengthAfterProcessingEscapes(Tail(s))
  ELSE (IF Len(s) > 1 THEN 1 ELSE 0) + LengthAfterProcessingEscapes(Rest(s, 1 + EscapeLength(Tail(s))))

RECURSIVE ProcessEscapes(_)
ProcessEscapes(s) ==
  IF s = << >> THEN << >>
  ELSE IF s[1] # Backslash THEN << s[1] >> \o ProcessEscapes(Tail(s))
  ELSE (IF Len(s) > 1 THEN << EscapedChar(Taken(Tail(s), EscapeLength(Tail(s)))) >> ELSE << >>)
         \o ProcessEscapes(Rest(s, 1 + EscapeLength(Tail(s))))

Unescaped == [c \in {7, 8, 9, 10, 12, 13, 34, 39, 92} |->
  CASE c = 7 -> 97 [] c = 8 -> 98 [] c = 9 -> 116 [] c = 10 -> 110 [] c = 12 -> 102 [] c = 13 -> 114 [] OTHER -> c]

\* As many bytes as the buffer takes.
UnEscape(s, length) ==
  LET one(c) == IF c \in DOMAIN Unescaped THEN << Backslash, Unescaped[c] >> ELSE << c >>
  IN  Taken(FlattenSeq([k \in DOMAIN s |-> one(s[k])]), length)

-----------------------------------------------------------------------------
(* Percent codes.                                                           *)


HexDigit(d) == IF d < 10 THEN d + 48 ELSE d + 55
PercentEncodedChar(c) == << Percent, HexDigit(c \div 16), HexDigit(c % 16) >>
ReservedChars == {Plus, Star, Underscore, Minus, Dollar}
NeedsEncoding(c) == c \notin Digits \cup LetterChars \cup ReservedChars

PercentEncoded(s) ==
  FlattenSeq([k \in DOMAIN s |-> IF IF k = 1 THEN s[k] \in LetterChars ELSE ~ NeedsEncoding(s[k])
                                 THEN << s[k] >> ELSE PercentEncodedChar(s[k])])

ReadHex2(s) == IF Len(s) >= 2 /\ {s[1], s[2]} \subseteq HexChars THEN DigitsValue(Taken(s, 2), 16) ELSE NoDigit

\* A percent sign that is not followed by two digits is an ordinary character.
RECURSIVE Decoded(_, _)
Decoded(s, plusIsBlank) ==
  IF s = << >> THEN << >>
  ELSE IF s[1] = Percent /\ ReadHex2(Tail(s)) # NoDigit
  THEN << ReadHex2(Tail(s)) >> \o Decoded(Rest(s, 3), plusIsBlank)
  ELSE << IF plusIsBlank /\ s[1] = Plus THEN Blank ELSE s[1] >> \o Decoded(Tail(s), plusIsBlank)

\* The length is counted without a look at the digits: only this much is kept.
DecodedLength(s) == Len(s) - 2 * Cardinality({k \in DOMAIN s : s[k] = Percent /\ k + 2 <= Len(s)})
PercentDecoded(s) == Taken(Decoded(s, TRUE), DecodedLength(s))

CompareViaEncodedString(s, encoded) == s = Decoded(encoded, TRUE)

-----------------------------------------------------------------------------
(* Tokens of VIA text.                                                      *)

\* White space and comments.
RECURSIVE EatLeadingSpaces(_)
EatLeadingSpaces(s) ==
  LET comment == {k \in 3 .. Len(s) - 1 : s[k] = Star /\ s[k + 1] = Slash}
  IN  IF s = << >> THEN s
      ELSE IF s[1] \in SpaceChars THEN EatLeadingSpaces(Tail(s))
      ELSE IF StartsWith(s, << Slash, Slash >>)
      THEN EatLeadingSpaces(Rest(s, SpanLength(s, 0 .. 255 \ EolChars)))
      ELSE IF StartsWith(s, << Slash, Star >>)
      THEN IF comment = {} THEN << >> ELSE EatLeadingSpaces(Rest(s, Min(comment) + 1))
      ELSE s

CharEaten(s, c) ==
  IF s # << >> /\ s[1] = c THEN [ok |-> TRUE, rest |-> Tail(s)] ELSE [ok |-> FALSE, rest |-> s]
EatChar(s, c) == CharEaten(EatLeadingSpaces(s), c)

\* What is left of an identifier after a number without its sign, and what it is.
PowerToken(s) ==
  LET t == IF s # << >> /\ s[1] \in {Plus, Minus} THEN Tail(s) ELSE s
      power == SpanLength(t, Digits)
  IN  [kind |-> IF power > 0 /\ power = Len(t) THEN "IEEE754" ELSE "Unrecognized", rest |-> Rest(t, power)]

FractionToken(s, digits) ==
  LET t == Rest(s, digits)
  IN  IF digits > 0 /\ t = << >> THEN [kind |-> "IEEE754", rest |-> << >>]
      ELSE IF t # << >> /\ t[1] \in {69, 101} THEN PowerToken(Tail(t))
      ELSE [kind |-> "Unrecognized", rest |-> t]

AfterLead(point) == FractionToken(point.rest, IF point.ok THEN SpanLength(point.rest, Digits) ELSE 0)
NumberToken(id) ==
  LET lead == SpanLength(id, Digits)
  IN  IF lead > 0 /\ lead = Len(id) THEN [kind |-> "Integer", rest |-> << >>]
      ELSE AfterLead(EatChar(Rest(id, lead), Point))

InfinityText == << 105, 110, 102, 105, 110, 105, 116, 121 >>
InfText == << 105, 110, 102 >>
NaNText == << 110, 97, 110 >>
TrueText == << 116, 114, 117, 101 >>
FalseText == << 102, 97, 108, 115, 101 >>
SpecialIEEEVals == {InfinityText, << Minus >> \o InfinityText, InfText, << Minus >> \o InfText, NaNText}

\* How long the special value is that begins the identifier (the code has the longer
\* ones first in its table), if the identifier ends there, or a sign or an i follows.
EndsAfter(id, n) ==
  \/ Len(id) = n
  \/ Len(id) = n + 1 /\ Lower(id[n + 1]) = 105
  \/ Len(id) > n /\ id[n + 1] \in {Plus, Minus}

SpecialLength(id) ==
  LET n == Max({0} \cup {Len(t) : t \in {t \in SpecialIEEEVals : StartsWith(LowerText(id), t)}})
  IN  IF EndsAfter(id, n) THEN n ELSE 0

\* The kind of an identifier, and how much of it is the token.
UpTo(id, t) == [kind |-> t.kind, n |-> Len(id) - Len(t.rest)]
Classified(id, special) ==
  LET signed == id[1] \in {Plus, Minus} /\ Len(id) > 1
      hex == Rest(id, 2)
  IN  IF special > 0 THEN [kind |-> "IEEE754", n |-> special]
      ELSE IF id \in {TrueText, FalseText} THEN [kind |-> "Boolean", n |-> Len(id)]
      ELSE IF StartsWith(id, << Zero, 120 >>)
      THEN [kind |-> IF hex # << >> /\ SpanLength(hex, HexChars) = Len(hex) THEN "Integer" ELSE "Unrecognized",
            n |-> Len(id)]
      ELSE IF id[1] \in Digits \/ signed THEN UpTo(id, NumberToken(IF signed THEN Tail(id) ELSE id))
      ELSE [kind |-> "SymbolName", n |-> Len(id)]
ClassifyIdentifier(id, suppressInfNaN) == Classified(id, IF suppressInfNaN THEN 0 ELSE SpecialLength(id))

\* How long a quoted text is whose first quote has been read.
RECURSIVE QuotedLength(_, _, _)
QuotedLength(s, quote, allowEscapes) ==
  IF s = << >> THEN 0
  ELSE IF s[1] = Backslash /\ allowEscapes
  THEN LET n == Min({1 + EscapeLength(Tail(s)), Len(s)}) IN n + QuotedLength(Rest(s, n), quote, allowEscapes)
  ELSE IF s[1] = quote THEN 1 ELSE 1 + QuotedLength(Tail(s), quote, allowEscapes)

Quotes == {SingleQuote, DoubleQuote}
Extent(s, suppressInfNaN) ==
  LET c == s[1]
      of(kind, n) == [kind |-> kind, n |-> n]
  IN  IF s = << >> THEN of("Unrecognized", 0)
      ELSE IF c \in PunctuationChars THEN of(IF c = OpenParen THEN "NestedExpression" ELSE "Punctuation", 1)
      ELSE IF c = AtSign /\ Len(s) > 1 /\ s[2] \in Quotes
      THEN of("VerbatimString", 2 + QuotedLength(Rest(s, 2), s[2], FALSE))
      ELSE IF c \in Quotes THEN of("String", 1 + QuotedLength(Tail(s), c, TRUE))
      ELSE IF c = Star THEN of("WildCard", 1)
      ELSE IF c \in IdentifierChars
      THEN ClassifyIdentifier(Taken(s, SpanLength(s, IdentifierChars)), suppressInfNaN)
      ELSE of("Unrecognized", 1)

TokenOf(s, t) == [kind |-> t.kind, token |-> Taken(s, t.n), rest |-> Rest(s, t.n)]
TokenFrom(s, suppressInfNaN) == TokenOf(s, Extent(s, suppressInfNaN))
ReadToken(text, suppressInfNaN) == TokenFrom(EatLeadingSpaces(text), suppressInfNaN)

KindBefore(t) == IF StartsWith(t.rest, << Less >>) THEN "TemplateExpression" ELSE t.kind
ClassifyNextToken(s) == KindBefore(ReadToken(s, FALSE))

\* Tokens up to the closing parenthesis of the first one, then template arguments.
NestedKind(t) == IF t.token = << CloseParen >> THEN "NestedExpression" ELSE t.kind
NestedDepth(t, depth) ==
  IF t.token = << OpenParen >> THEN depth + 1 ELSE IF t.token = << CloseParen >> THEN depth - 1 ELSE depth

RECURSIVE ReadNested(_, _), AfterNestedToken(_, _), ReadTemplates(_), ReadArguments(_), NextArgument(_), AfterArgument(_)
ReadNested(s, depth) == AfterNestedToken(ReadToken(s, FALSE), depth)
AfterNestedToken(t, depth) ==
  IF NestedKind(t) # "Unrecognized" /\ NestedDepth(t, depth) > 0 THEN ReadNested(t.rest, NestedDepth(t, depth))
  ELSE [kind |-> NestedKind(t), rest |-> t.rest]
ReadTemplates(t) ==
  IF StartsWith(t.rest, << Less >>)
  THEN ReadTemplates([kind |-> "TemplateExpression", rest |-> ReadArguments(Tail(t.rest))]) ELSE t
ReadArguments(s) == NextArgument(EatChar(s, Greater))
NextArgument(end) == IF end.ok THEN end.rest ELSE AfterArgument(ReadTemplates(ReadNested(end.rest, 0)))
AfterArgument(t) == IF t.kind = "Unrecognized" THEN t.rest ELSE ReadArguments(t.rest)

UpToRest(s, t) == [kind |-> t.kind, token |-> Taken(s, Len(s) - Len(t.rest)), rest |-> t.rest]
SubexpressionFrom(s) == UpToRest(s, ReadTemplates(ReadNested(s, 0)))
ReadSubexpressionToken(text) == SubexpressionFrom(EatLeadingSpaces(text))

Colon == 58

NameToken(s, t) ==
  LET end == EatChar(t.rest, Colon)
  IN  IF t.kind # "Unrecognized" /\ end.ok THEN [ok |-> TRUE, token |-> t.token, rest |-> end.rest]
      ELSE [ok |-> FALSE, token |-> << >>, rest |-> EatLeadingSpaces(s)]
ReadNameToken(s) == NameToken(s, ReadToken(s, FALSE))

TrimQuotedString(s, kind) ==
  IF kind = "String" /\ Len(s) >= 2 THEN SubSeq(s, 2, Len(s) - 1)
  ELSE IF kind = "VerbatimString" /\ Len(s) >= 3 THEN SubSeq(s, 3, Len(s) - 1) ELSE s

-----------------------------------------------------------------------------
(* Integers of a width in bits.                                             *)

Signed(n, width) == ((n + 2 ^ (width - 1)) % 2 ^ width) - 2 ^ (width - 1)

\* Overflow is seen only when the new value is less than the one before.
OneMore(read, digit, base, width) ==
  LET new == (read.value * base + digit) % 2 ^ width
  IN  [value |-> new, overflow |-> read.overflow \/ new < read.value]
RECURSIVE Accumulated(_, _, _)
Accumulated(digits, base, width) ==
  IF digits = << >> THEN [value |-> 0, overflow |-> FALSE]
  ELSE OneMore(Accumulated(Front(digits), base, width), DigitValue(Last(digits), base), base, width)

\* The sign of a decimal number, and what follows it.
SignEaten(s, minus) ==
  [base |-> 10, minus |-> minus.ok, rest |-> IF minus.ok THEN minus.rest ELSE EatChar(s, Plus).rest]
AfterSign(s) == SignEaten(s, EatChar(s, Minus))
Unsigned(s, base) == [base |-> base, minus |-> FALSE, rest |-> s]

DigitChars(base) == {c \in HexChars : DigitValue(c, base) # NoDigit}

NumberRead(t, n, read, width) ==
  [ok |-> n > 0, overflow |-> read.overflow, rest |-> Rest(t.rest, n),
   value |-> Signed(IF t.minus THEN -read.value ELSE read.value, width)]
FirstDigits(t, n, width) == NumberRead(t, n, Accumulated(Taken(t.rest, n), t.base, width), width)
ReadDigits(t, width) == FirstDigits(t, SpanLength(t.rest, DigitChars(t.base)), width)

IntFrom(s, width) ==
  ReadDigits(IF StartsWith(s, << Zero, 120 >>) THEN Unsigned(Rest(s, 2), 16) ELSE AfterSign(s), width)
ReadInt(text, width) == IntFrom(EatLeadingSpaces(text), width)

WithBaseFrom(s, base, width) == ReadDigits(IF base = 10 THEN AfterSign(s) ELSE Unsigned(s, base), width)
ReadIntWithBase(text, base, width) == WithBaseFrom(Rest(text, SpanLength(text, SpaceChars)), base, width)

\* A dimension: * for a variable length, $n for a parameter, a number in the range of
\* lengths and bounds.
NoDim(rest) == [ok |-> FALSE, dim |-> << 0 >>, rest |-> rest]
TemplateDim(s, inner, templates) ==
  IF inner.ok /\ inner.value < templates
  THEN [ok |-> TRUE, dim |-> << "template", inner.value >>, rest |-> inner.rest] ELSE NoDim(s)
NumberDim(number, lengths) ==
  IF number.ok /\ number.value \in lengths
  THEN [ok |-> TRUE, dim |-> << number.value >>, rest |-> number.rest] ELSE NoDim(number.rest)

DimFrom(s, width, templates, lengths) ==
  IF s = << >> THEN NoDim(s)
  ELSE IF s[1] = Star THEN [ok |-> TRUE, dim |-> << "variable" >>, rest |-> Tail(s)]
  ELSE IF s[1] = Dollar THEN TemplateDim(s, ReadInt(Tail(s), width), templates)
  ELSE NumberDim(ReadInt(s, width), lengths)
ReadIntDim(text, width, templates, lengths) == DimFrom(EatLeadingSpaces(text), width, templates, lengths)
=============================================================================
