----------------------------- MODULE StringLaws -----------------------------
(***************************************************************************)
(* What the string instructions promise.                                   *)
(***************************************************************************)
EXTENDS ArrayLaws

Occurs(s, search, at, ignoreCase) ==
  at + Len(search) <= Len(s) /\ SameText(SubSeq(s, at + 1, at + Len(search)), search, ignoreCase)

\* Where a character of well-formed text begins.
Boundary(s, at) == at = Len(s) \/ s[at + 1] \notin 128 .. 191

\* The first occurrence from an offset on, as SearchSplitString and
\* SearchAndReplaceString find it.
FirstOccurrence(s, search, from, ignoreCase) ==
  LET places == {at \in from .. Len(s) - 1 : Boundary(s, at) /\ Occurs(s, search, at, ignoreCase)}
  IN  IF places = {} THEN NoMatch ELSE Min(places)

From(c, s) == AtLeast0(Min({Given(c.offset, 0), Len(s)}))

IsSplit(c, h, g) ==
  LET s == Text(h, c.in)
      at == FirstOccurrence(s, Text(h, c.search), From(c, s), FALSE)
  IN  /\ Text(g, c.out) \o Text(g, c.rest) = s
      /\ Value(g, c.past) = at
      /\ ArrayLen(g[c.out]) = IF at = NoMatch THEN Len(s) ELSE at

\* The text is cut into pieces that have no occurrence, and the replacements joined
\* between them; the case of an empty search text is in ReplacedFrom.
RECURSIVE Pieces(_, _, _, _)
Pieces(s, search, from, ignoreCase) ==
  LET at == FirstOccurrence(s, search, from, ignoreCase)
  IN  IF at = NoMatch THEN << Rest(s, from) >>
      ELSE << SubSeq(s, from + 1, at) >> \o Pieces(s, search, at + Len(search), ignoreCase)

IsSubstituted(c, h, g) ==
  LET s == Text(h, c.in)
      new == TextOrNone(h, c.new)
      search == Text(h, c.search)
      from == From(c, s)
      pieces == Pieces(s, search, from, c.ignoreCase)
      joined == FoldLeft(LAMBDA t, p : t \o new \o p, Taken(s, from) \o pieces[1], Tail(pieces))
  IN  search # << >> =>
        IF c.all
        THEN /\ Text(g, c.out) = joined
             /\ Value(g, c.count) = Len(pieces) - 1
             /\ Value(g, c.past) = IF Len(pieces) = 1 THEN NoMatch ELSE Len(joined) - Len(pieces[Len(pieces)])
        ELSE Value(g, c.count) = IF Len(pieces) = 1 THEN 0 ELSE 1

IsCut(c, h, g) ==
  LET s == Text(h, c.in)
      at == Given(c.offset, 0)
  IN  Given(c.length, 0) >= 0 /\ at \in 0 .. Len(s) =>
        Taken(s, at) \o Text(g, c.replaced) \o Rest(Text(g, c.out), at + ArrayLen(h[c.new])) = s

\* Characters in the reverse order, each with its bytes as they were.
IsReversed(c, h, g) ==
  LET s == Text(h, c.in)
      t == Text(g, c.out)
  IN  /\ StringLengthOf(s) = StringLengthOf(t)
      /\ \A x \in ToSet(s) \cup ToSet(t) : CountMatches(s, x) = CountMatches(t, x)
      /\ ToSet(s) \subseteq 14 .. 127 => t = Reverse(s)

IsTrimmed(c, h, g) ==
  LET s == Text(h, c.in)
      t == Text(g, c.out)
      spaces(x) == ToSet(x) \subseteq SpaceChars
  IN  \/ spaces(s) /\ t = << >>
      \/ \E i, j \in 0 .. Len(s) :
           /\ i <= j /\ t = SubSeq(s, i + 1, j)
           /\ IF c.location \in {0, 1} THEN spaces(Taken(s, i)) /\ t[1] \notin SpaceChars ELSE i = 0
           /\ IF c.location \in {0, 2} THEN spaces(Rest(s, j)) /\ t[Len(t)] \notin SpaceChars ELSE j = Len(s)

\* A line has no end of line, and the text that was in front of it has as many lines.
IsLine(c, h, g) ==
  LET s == Text(h, c.in)
      line == Rest(Text(g, c.out), Len(TextOrNone(h, c.init)))
      ends(x) == Cardinality({k \in DOMAIN x : x[k] = LineFeed \/ (x[k] = Return /\ (k = Len(x) \/ x[k + 1] # LineFeed))})
  IN  /\ ToSet(line) \cap EolChars = {}
      /\ line # << >> => \E k \in 0 .. Len(s) :
           /\ ends(Taken(s, k)) = c.n
           /\ k > 0 => s[k] \in EolChars
           /\ StartsWith(Rest(s, k), line)
           /\ k + Len(line) < Len(s) => s[k + Len(line) + 1] \in EolChars

\* The larger of two strings of equal length is the greater one in the order of bytes.
AreMaxAndMin(c, h, g) ==
  LET s == Text(h, c.in)
      t == Text(h, c.other)
  IN  /\ {Text(g, c.max), Text(g, c.min)} = {s, t}
      /\ Len(s) = Len(t) => ~ BranchIfLTString(Text(g, c.max), Text(g, c.min))

\* Less, equal and greater exclude each other, and the branches that include equality
\* are their complements.
IsOrder(c, h) ==
  LET lt == call'.op = "Compare" /\ answer'[1]
      eq == answer'[2]
      gt == answer'[3]
  IN  /\ Cardinality({k \in 1 .. 3 : answer'[k]}) = 1
      /\ answer'[4] = ~ gt /\ answer'[5] = ~ lt
      /\ gt = BranchIfLTString(Text(h, c.other), Text(h, c.in))

\* The texts a pattern stands for: each item accepts its part.
RECURSIVE InLanguage(_, _, _)
InLanguage(items, t, atEnd) ==
  LET item == Head(items)
      counts == CASE item.kind = "EOS" -> {0}
                  [] item.repeat = Once -> {1}
                  [] item.repeat = Question -> {0, 1}
                  [] item.repeat = Plus -> 1 .. Len(t)
                  [] OTHER -> 0 .. Len(t)
  IN  IF items = << >> THEN t = << >>
      ELSE \E n \in counts : /\ n <= Len(t) /\ \A k \in 1 .. n : Accepts(item, t[k])
                             /\ item.kind = "EOS" => t = << >> /\ atEnd
                             /\ InLanguage(Tail(items), Rest(t, n), atEnd)

\* MatchPattern, which gives up a way to match as soon as an item fails, cuts the
\* string at the leftmost place where the pattern has a match at all, if there is one.
Matches(items, s, starts) ==
  {m \in starts \X (0 .. Len(s)) : m[1] <= m[2] /\ InLanguage(items, SubSeq(s, m[1] + 1, m[2]), m[2] = Len(s))}
AllMatches(items, s, from) ==
  IF items # << >> /\ items[1].kind = "BOL" THEN Matches(Tail(items), s, {from} \cap 0 .. Len(s))
  ELSE Matches(items, s, from .. Len(s) - 1)
IsLeftmost(found, past, at, to) ==
  IF past = NoMatch THEN found = {} ELSE past = to /\ << at, to >> \in found /\ \A m \in found : m[1] >= at
IsMatch(c, h, g) ==
  LET s == Text(h, c.in)
      at == Len(Text(g, c.before))
  IN  /\ Text(g, c.before) \o Text(g, c.match) \o Text(g, c.after) = s
      /\ IsLeftmost(AllMatches(MakePat(TextOrNone(h, c.pattern)), s, AtLeast0(Given(c.offset, 0))),
                    Value(g, c.past), at, at + Len(Text(g, c.match)))

\* A format that fails leaves nothing of what it had written, and one that does not
\* has used each argument; a position in the format or a percent sign to be shown is
\* counted for an argument, and may hide one that is not used.
IsFormatted(c, g, a) ==
  LET plain == c.format # << >> /\ {Dollar, Semicolon} \cap ToSet(c.format) = {}
               /\ \A k \in 2 .. Len(c.format) : SubSeq(c.format, k - 1, k) # << Percent, Percent >>
  IN  ~ c.failed =>
        /\ a[1] # NoFormatError => Text(g, c.out) = << >>
        /\ a[1] = NoFormatError /\ plain => CountMatches(c.format, Percent) = Len(c.args)

\* The offset that is returned is where the remaining text begins, and no argument gets
\* a value that its type does not have.
IsScanned(c, a) ==
  /\ Rest(c.text, a.offset) = a.rest
  /\ \A k \in DOMAIN a.args :
       /\ a.args[k].kind = "Int" => a.args[k].value = Signed(a.args[k].value, a.args[k].width)
       /\ a.args[k].kind = "UInt" => a.args[k].value \in 0 .. 2 ^ a.args[k].width - 1

\* Bytes that become a string are characters, none without its lead or cut off.
IsCharacters(c, g, a) ==
  ~ c.failed /\ a[1] = NoFormatError =>
    StringLengthOf(Text(g, c.out)) = Cardinality({k \in 1 .. ArrayLen(g[c.out]) : Text(g, c.out)[k] \notin 128 .. 191})

\* The string instructions do to texts what they are named for: they find the first
\* occurrence, lose no byte and invent none, and the order of strings is one.
StringsAsDefined ==
  [][running' =>
       CASE call'.op = "SearchSplitString" -> IsSplit(call', heap, heap')
         [] call'.op = "SearchAndReplaceString" -> IsSubstituted(call', heap, heap')
         [] call'.op = "ReplaceSubstring" -> IsCut(call', heap, heap')
         [] call'.op = "StringReverse" -> IsReversed(call', heap, heap')
         [] call'.op = "StringTrim" -> IsTrimmed(call', heap, heap')
         [] call'.op = "StringPickLine" -> IsLine(call', heap, heap')
         [] call'.op = "MaxAndMinElts" -> AreMaxAndMin(call', heap, heap')
         [] call'.op = "Compare" -> IsOrder(call', heap)
         [] call'.op = "MatchPattern" -> IsMatch(call', heap, heap')
         [] call'.op = "StringFormat" -> IsFormatted(call', heap', answer')
         [] call'.op = "StringScan" -> IsScanned(call', answer')
         [] call'.op = "ByteArrayToString" -> IsCharacters(call', heap', answer')
         [] OTHER -> TRUE]_dataVars

-----------------------------------------------------------------------------
(* Reading undoes writing.                                                  *)

\* A bell is written as an escape that is not read.
EscapesInvert(c, a) ==
  Bell \notin ToSet(c.text) /\ c.length >= 2 * Len(c.text) =>
    ProcessEscapes(a) = c.text /\ LengthAfterProcessingEscapes(a) = Len(c.text)

\* A plus sign is written as it is, and read as a blank.
PercentInverts(c, a) == Plus \notin ToSet(c.text) => PercentDecoded(a) = c.text /\ CompareViaEncodedString(c.text, a)

\* A token that is recognized is recognized alone: what it is does not depend on what
\* follows it.
TokenStands(c, a) ==
  /\ IsSuffix(a.token \o a.rest, c.text)
  /\ a.kind # "Unrecognized" =>
       ReadToken(a.token, c.suppressInfNaN) = [a EXCEPT !.rest = << >>]

\* An expression ends where its parentheses are closed.
IsBalanced(c, a) ==
  a.kind = "NestedExpression" /\ {SingleQuote, DoubleQuote} \cap ToSet(a.token) = {} /\ a.token[1] = OpenParen =>
    /\ CountMatches(a.token, OpenParen) = CountMatches(a.token, CloseParen)
    /\ \A k \in 1 .. Len(a.token) - 1 :
         CountMatches(Taken(a.token, k), OpenParen) > CountMatches(Taken(a.token, k), CloseParen)

\* The text of a number, read with a width that holds it.
NumberText(n, base) == IF n < 0 THEN << Minus >> \o DigitsOf(-n, base) ELSE DigitsOf(n, base)
ReadsBack(c, a, base) ==
  \A n \in (IF base = 10 THEN -(2 ^ (c.width - 1)) ELSE 0) .. 2 ^ (c.width - 1) - 1 :
    c.text = NumberText(n, base) => a.ok /\ a.value = n /\ a.rest = << >>

\* Specifiers whose text a scan with the same specifier reads, one or two with a blank
\* between them: numbers that are not negative or shown with a sign, and words.
ReadableSpecifiers ==
  {<< Percent, Chard >>, << Percent, Charu >>, << Percent, Charo >>, << Percent, Charb >>, << Percent, Charx >>,
   << Percent, Chars >>, << Percent, 53, Chard >>, << Percent, Minus, 53, Chard >>, << Percent, Zero, 53, Chard >>,
   << Percent, Plus, Chard >>}
IsReadable(arg, specifier) ==
  IF specifier[Len(specifier)] = Chars
  THEN /\ arg.kind \in {"String", "Enum"}
       /\ FormatData(arg, TRUE) # << >> /\ ToSet(FormatData(arg, TRUE)) \cap SpaceChars = {}
  ELSE arg.kind \in {"Int", "UInt"} /\ (arg.value >= 0 \/ specifier[Len(specifier)] = Chard)
ArgumentsReadBack(c, g) ==
  Len(c.args) <= 2 => \A specifiers \in [DOMAIN c.args -> ReadableSpecifiers] :
    /\ c.format = WithDelimiters(specifiers, << Blank >>)
    /\ \A k \in DOMAIN c.args : IsReadable(c.args[k], specifiers[k])
    => FormatScan(Text(g, c.out), c.format,
                  [k \in DOMAIN c.args |-> [c.args[k] EXCEPT !.value = IF IsText(c.args[k]) THEN << >> ELSE 0]]).args
         = c.args

\* An array is read back from its spreadsheet text, if its rows have two elements at
\* least: a single one is not read.
SameContents(a, b) == a.dims = b.dims /\ Contents(a) = Contents(b)
SpreadsheetInverts(c, h, g) ==
  LET a == h[c.in]
  IN  a.dims[1] >= 2 /\ ArrayLen(a) > 0 =>
        SameContents(a, ScanSpreadsheet(NewArray(a.type), Text(g, c.out), c.format,
                                        << DelimiterOrTab(c.delimiter) >>, FALSE))

\* A list of delimiters is read as if one stood for each of them: for the longest that
\* begins at a place, unless the end of a line cuts one off.
RECURSIVE WithTabs(_, _)
WithTabs(s, delimiters) ==
  LET found == {d \in ToSet(delimiters) : StartsWith(s, d)}
  IN  IF s = << >> THEN s
      ELSE IF found = {} THEN << s[1] >> \o WithTabs(Tail(s), delimiters)
      ELSE << Tab >> \o WithTabs(Rest(s, Max({Len(d) : d \in found})), delimiters)
CutsOff(line, d) == \E n \in 1 .. Len(d) - 1 : IsSuffix(Taken(d, n), line)
DelimitersAgree(c, h, g) ==
  LET s == Text(h, c.in)
  IN  /\ c.delimiters # << >> /\ Tab \notin ToSet(s)
      /\ \A line \in {s} \cup ToSet(Lines(s)) : \A d \in ToSet(c.delimiters) : ~ CutsOff(line, d)
      => SameContents(g[c.out], ScanSpreadsheet(NewArray(g[c.out].type), WithTabs(s, c.delimiters), c.format,
                                                << << Tab >> >>, FALSE))

=============================================================================
