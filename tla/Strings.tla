------------------------------ MODULE Strings ------------------------------
(***************************************************************************)
(* The string instructions (source/core/String.cpp).  A string is a vector *)
(* of bytes in the heap of Arrays, so that operands may be the same one.   *)
(* Operands that the code asserts to be distinct are taken to be so, and   *)
(* so are those of the loops that read a string while they write another.  *)
(* An output that is not wired has a name that is not in the heap.         *)
(***************************************************************************)
EXTENDS ArrayRearrangement, SubStrings

Has(h, x) == x \in DOMAIN h
Text(h, x) == Contents(h[x])
TextOrNone(h, x) == IF Has(h, x) THEN Text(h, x) ELSE << >>
Assigned(h, x, s) == IF Has(h, x) THEN Put(Resized(h, x, Len(s)), x, 0, s) ELSE h
Number(h, x, n) == IF Has(h, x) THEN SetScalar(h, x, n) ELSE h

-----------------------------------------------------------------------------
(* Encodings.                                                               *)

\* Where the text to append is the end of the string, it is replaced by its encoding.
ControlChars == 0 .. 31
EscapeEncoded(s) ==
  LET two == {Backspace, Tab, LineFeed, FormFeed, Return, Backslash, DoubleQuote}
      hex(d) == HexDigit(d)
      one(c) == IF c \in two THEN << Backslash, Unescaped[c] >>
                ELSE IF c \in ControlChars
                THEN << Backslash, 117, Zero, Zero, hex(c \div 16), hex(c % 16) >> ELSE << c >>
  IN  FlattenSeq([k \in DOMAIN s |-> one(s[k])])

AppendEscapeEncoded(s, source) == s \o EscapeEncoded(source)
AppendEscapeEncodedInPlace(s, from) == Taken(s, from) \o EscapeEncoded(Rest(s, from))

AppendViaDecoded(s, source) == s \o Decoded(source, FALSE)
StringViaDecode(h, out, in) == Goes(Assigned(h, out, AppendViaDecoded(<< >>, Text(h, in))))

-----------------------------------------------------------------------------
(* Substitution.                                                            *)

ReplaceSubstring(h, out, replaced, in, new, offset, length) ==
  LET s == Text(h, in)
      r == TextOrNone(h, new)
      at == Given(offset, 0)
      n == AtLeast0(Min({Given(length, Len(r)), Len(s) - at}))
  IN  Goes(IF at \in 0 .. Len(s)
           THEN Assigned(Assigned(h, replaced, SubSeq(s, at + 1, at + n)), out,
                         Taken(s, at) \o r \o Rest(s, at + n))
           ELSE Assigned(Assigned(h, out, s), replaced, << >>))

\* After an empty match a byte is copied, or the loop would stay there.
RECURSIVE ReplacedFrom(_, _, _, _, _, _, _)
ReplacedFrom(s, search, new, offset, done, all, ignoreCase) ==
  LET at == FindFirstMatch(s, search, offset, ignoreCase)
      step == IF search = << >> THEN 1 ELSE 0
      next == at + Len(search) + step
      text == done.text \o SubSeq(s, offset + 1, at) \o new \o SubSeq(s, next - step + 1, next)
      now == [text |-> text, count |-> done.count + 1, past |-> Len(text)]
  IN  IF at = NoMatch THEN [done EXCEPT !.text = @ \o Rest(s, offset)]
      ELSE IF all THEN ReplacedFrom(s, search, new, next, now, all, ignoreCase)
      ELSE [now EXCEPT !.text = @ \o Rest(s, next)]

SearchAndReplaceString(h, out, count, past, in, search, new, offset, all, ignoreCase) ==
  LET s == Text(h, in)
      at == AtLeast0(Min({Given(offset, 0), Len(s)}))
      done == ReplacedFrom(s, Text(h, search), TextOrNone(h, new), at,
                           [text |-> Taken(s, at), count |-> 0, past |-> NoMatch], all, ignoreCase)
  IN  Goes(Number(Number(Assigned(h, out, done.text), count, done.count), past, done.past))

\* The second part is copied first: the first one may be the input.
SearchSplitString(h, before, rest, matchOffset, in, search, offset) ==
  LET s == Text(h, in)
      at == FindFirstMatch(s, Text(h, search), AtLeast0(Min({Given(offset, 0), Len(s)})), FALSE)
      n == IF at = NoMatch THEN Len(s) ELSE at
      g == Assigned(h, rest, Rest(s, n))
      cut == IF ~ Has(g, before) THEN g
             ELSE IF before = in THEN Resized(g, before, n) ELSE Assigned(g, before, Taken(s, n))
  IN  Goes(Number(cut, matchOffset, at))

-----------------------------------------------------------------------------
(* Characters.                                                              *)

StringLength(h, out, in) == Goes(SetScalar(h, out, StringLengthOf(Text(h, in))))
StringIndexChar(h, out, in, n) == Goes(SetScalar(h, out, ReadUtf32(EatRawChars(Text(h, in), n))))

StringToUpper(h, out, in) ==
  LET s == Text(h, in) IN Goes(Assigned(h, out, [k \in DOMAIN s |-> Upper(s[k])]))
StringToLower(h, out, in) == Goes(Assigned(h, out, LowerText(Text(h, in))))
StringToUpperInt(h, out, c) == Goes(SetScalar(h, out, Upper(c)))
StringToLowerInt(h, out, c) == Goes(SetScalar(h, out, Lower(c)))

StringReverse(h, out, in) ==
  Goes(Assigned(h, out, FlattenSeq(Reverse(GraphemeClusters(Text(h, in))))))

StringRotate(h, out, in) ==
  LET s == Text(h, in)
      n == IF s = << >> THEN 0 ELSE ClusterLength(s)
  IN  Goes(Assigned(h, out, Rest(s, n) \o Taken(s, n)))

\* Location 0 is both ends, 1 the start, 2 the end, and any other value none.
StringTrim(h, out, in, location) ==
  LET s == Text(h, in)
      leading == SpanLength(s, SpaceChars)
      trailing == SpanLength(Reverse(s), SpaceChars)
      from == IF location \in {0, 1} THEN leading ELSE 0
      to == Len(s) - (IF location \in {0, 2} THEN trailing ELSE 0)
  IN  Goes(Assigned(h, out, IF leading = Len(s) THEN << >> ELSE SubSeq(s, from + 1, to)))

-----------------------------------------------------------------------------
(* Questions about a string, or about its first character.                  *)

IsEmptyString(s) == s = << >>
IsNotANumPathRefnum(s) == s = << >>
IsEmptyPath(components, type) == components = << >> /\ type # << >>
IsNotAPath(components, type) == components = << >> /\ type = << >>

Begins(s, chars) == s # << >> /\ s[1] \in chars
IsDecimalDigit(s) == Begins(s, Digits)
IsHexDigit(s) == Begins(s, HexChars)
IsOctalDigit(s) == Begins(s, OctalDigits)
IsPrintable(s) == Begins(s, 32 .. 126)
IsWhiteSpace(s) == Begins(s, SpaceChars)

\* The number is cut to a byte.
IsDecimalDigitInt(n) == n % 256 \in Digits
IsHexDigitInt(n) == n % 256 \in HexChars
IsOctalDigitInt(n) == n % 256 \in OctalDigits
IsPrintableInt(n) == n % 256 \in 32 .. 126
IsWhiteSpaceInt(n) == n % 256 \in SpaceChars

\* memcmp of what both have, then the lengths.
Differences(s, t) == {k \in 1 .. Min({Len(s), Len(t)}) : s[k] # t[k]}
Memcmp(s, t) == LET d == Differences(s, t) IN IF d = {} THEN 0 ELSE s[Min(d)] - t[Min(d)]
BranchIfEQString(s, t) == s = t
BranchIfLTString(s, t) == Memcmp(s, t) < 0 \/ (Memcmp(s, t) = 0 /\ Len(s) < Len(t))
BranchIfGTString(s, t) == Memcmp(s, t) > 0 \/ (Memcmp(s, t) = 0 /\ Len(s) > Len(t))
BranchIfLEString(s, t) == Memcmp(s, t) < 0 \/ (Memcmp(s, t) = 0 /\ Len(s) <= Len(t))
BranchIfGEString(s, t) == Memcmp(s, t) > 0 \/ (Memcmp(s, t) = 0 /\ Len(s) >= Len(t))

\* Only what both strings have is compared; the larger is stored first.
MaxAndMinEltsString(h, x, y, max, min) ==
  LET most == IF Memcmp(Text(h, x), Text(h, y)) < 0 THEN y ELSE x
      g == Assigned(h, max, Text(h, most))
  IN  Goes(Assigned(g, min, Text(g, IF most = x THEN y ELSE x)))

-----------------------------------------------------------------------------
(* Composition.                                                             *)

\* An input is a string, or an array of strings; the output may be the first one.
Concatenated(h, inputs) ==
  [k \in DOMAIN inputs |-> IF "texts" \in DOMAIN inputs[k] THEN FlattenSeq(inputs[k].texts)
                           ELSE Text(h, inputs[k].var)]

StringConcatenate(h, out, inputs) ==
  LET parts == Concatenated(h, inputs)
      isOut(k) == "var" \in DOMAIN inputs[k] /\ inputs[k].var = out
      again == {k \in DOMAIN inputs : k > 1 /\ isOut(k)}
      copied == IF again = {} THEN parts ELSE SubSeq(parts, 1, Min(again) - 1)
      g == Resized(h, out, Len(FlattenSeq(parts)))
      filled == Put(g, out, 0, FlattenSeq(copied))
  IN  IF again = {} THEN Goes(filled) ELSE Stops(filled)

RECURSIVE AfterLines(_, _)
AfterLines(s, n) == IF n = 0 \/ s = << >> THEN s ELSE AfterLines(ReadLine(s).rest, n - 1)

StringPickLine(h, out, init, in, n) ==
  Goes(Assigned(h, out, TextOrNone(h, init)
                          \o (IF n >= 0 THEN ReadLine(AfterLines(Text(h, in), n)).token ELSE << >>)))
=============================================================================
