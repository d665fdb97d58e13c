----------------------------- MODULE Spreadsheets -----------------------------
(***************************************************************************)
(* Arrays of numbers as text with delimiters (ArraySpreadsheet and         *)
(* SpreadsheetStringtoArray, source/core/NumericString.cpp).  Elements are *)
(* integers of ElementWidth bits.  The array that is read has no fixed or  *)
(* bounded dimension and at most three; there are no empty delimiters in   *)
(* a list, for which the search would never end, and no more pages of a    *)
(* cube than its index lines name.                                         *)
(***************************************************************************)
EXTENDS ScanStrings

ElementWidth == 8
Element(x) == [kind |-> "Int", width |-> ElementWidth, value |-> x]

-----------------------------------------------------------------------------
(* Writing.                                                                 *)

WithDelimiters(texts, delimiter) ==
  FlattenSeq([k \in DOMAIN texts |-> (IF k = 1 THEN << >> ELSE delimiter) \o texts[k]])

\* In front of a matrix of a larger array: all indexes, the outermost first.
IndexLine(index) ==
  << Bracket >> \o WithDelimiters(Reverse([k \in DOMAIN index |-> DecimalText(index[k])]), << Comma >>)
    \o << CloseBracket, LineFeed >>

RECURSIVE SpreadsheetDimension(_, _, _, _, _)
SpreadsheetDimension(a, format, delimiter, dimension, index) ==
  LET at(i) == [k \in DOMAIN index |-> IF k = dimension THEN i - 1 ELSE IF k < dimension THEN 0 ELSE index[k]]
      cell(i) == DefaultFormatValue(format, Element(Cell(a, Offset(a, at(i)))))
      part(i) == SpreadsheetDimension(a, format, delimiter, dimension - 1, at(i))
      page == dimension = 2 /\ ArrayRank(a) >= 3
  IN  IF dimension = 1 THEN Append(WithDelimiters([i \in 1 .. a.dims[1] |-> cell(i)], delimiter), LineFeed)
      ELSE (IF page /\ a.dims[2] > 0 THEN IndexLine(index) ELSE << >>)
             \o FlattenSeq([i \in 1 .. a.dims[dimension] |-> part(i)])
             \o (IF page THEN << LineFeed >> ELSE << >>)

DelimiterOrTab(delimiter) == IF delimiter = << >> THEN << Tab >> ELSE delimiter

SpreadsheetText(a, format, delimiter) ==
  SpreadsheetDimension(a, format, DelimiterOrTab(delimiter), ArrayRank(a), [k \in DOMAIN a.dims |-> 0])

ArraySpreadsheet(h, out, format, delimiter, in) == Goes(Assigned(h, out, SpreadsheetText(h[in], format, delimiter)))

-----------------------------------------------------------------------------
(* Delimiters: one, or a list of them.                                      *)

NoDelimiter == [at |-> NoMatch, past |-> NoMatch, partial |-> FALSE]

\* Of a list the first match counts, and of equal ones the longest; but none does if
\* the end of the input is the beginning of a delimiter that does not fit any more.
BestDelimiter(input, delimiters, offset) ==
  LET better(best, d) ==
        LET match == FindFirstMatch(input, d, offset, FALSE)
            left == Len(input) - offset
            past == match + Len(d)
        IN  IF best.partial THEN best
            ELSE IF match # NoMatch /\ (best.at = NoMatch \/ match < best.at \/ (match = best.at /\ past > best.past))
            THEN [at |-> match, past |-> past, partial |-> FALSE]
            ELSE IF left < Len(d) /\ FindFirstMatch(input, Taken(d, left), offset, FALSE) # NoMatch
            THEN [NoDelimiter EXCEPT !.partial = TRUE] ELSE best
  IN  FoldLeft(better, NoDelimiter, delimiters)

FindDelimiter(input, delimiters, offset, isList) ==
  LET match == FindFirstMatch(input, delimiters[1], offset, FALSE)
  IN  IF isList THEN BestDelimiter(input, delimiters, offset)
      ELSE IF match = NoMatch THEN NoDelimiter
      ELSE [NoDelimiter EXCEPT !.at = match, !.past = match + Len(delimiters[1])]

RECURSIVE Cuts(_, _, _, _), CutsFrom(_, _, _, _)
Cuts(line, delimiters, from, isList) ==
  CutsFrom(line, delimiters, FindDelimiter(line, delimiters, from, isList), isList)
CutsFrom(line, delimiters, cut, isList) ==
  IF cut.at = NoMatch THEN << >> ELSE << cut >> \o Cuts(line, delimiters, cut.past, isList)

Columns(line, delimiters, isList) == Len(Cuts(line, delimiters, 0, isList)) + 1

\* The elements of a row that are read: none if it has no delimiter, and not the last
\* one if it is empty.
TextsBetween(line, cuts) ==
  LET from(k) == IF k = 1 THEN 0 ELSE cuts[k - 1].past
      last == Rest(line, from(Len(cuts) + 1))
  IN  [k \in DOMAIN cuts |-> SubSeq(line, from(k) + 1, cuts[k].at)]
        \o (IF cuts = << >> \/ last = << >> THEN << >> ELSE << last >>)
RowTexts(line, delimiters, isList) == TextsBetween(line, Cuts(line, delimiters, 0, isList))

-----------------------------------------------------------------------------
(* Reading.                                                                 *)

RECURSIVE Lines(_)
Lines(s) == LET line == ReadLine(s) IN IF line.ok THEN << line.token >> \o Lines(line.rest) ELSE << >>

\* The numbers of an index line, whatever stands between them.
RECURSIVE IndexNumbers(_), AndFollowing(_)
IndexNumbers(s) == AndFollowing(ReadInt(EatRawChars(s, 1), FormatIntWidth))
AndFollowing(number) == IF number.ok THEN << number.value >> \o IndexNumbers(number.rest) ELSE << >>

\* Where the lines stand in the pages of a cube: the first line of each is an index line.
LineNumbers(lines) ==
  [k \in DOMAIN lines |->
     LET blank == {j \in 1 .. k : lines[j] = << >>} IN k - (IF blank = {} THEN 0 ELSE Max(blank)) - 1]

LargestOf(S) == Max(S \cup {0})

\* Blank lines of a matrix are rows, and between pages they are not.
FilledRows(lines) == {k \in DOMAIN lines : lines[k] # << >>}
DataRows(lines, number) == {k \in FilledRows(lines) : number[k] > 0}
RowLengths(lines, delimiters, isList) ==
  [k \in DOMAIN lines |-> IF lines[k] = << >> THEN 0 ELSE Columns(lines[k], delimiters, isList)]
LargestAt(xs, S) == LargestOf({xs[k] : k \in S})

MatrixLengths(lengths) == << LargestAt(lengths, DOMAIN lengths), Len(lengths) >>
IndexedLength(lines, number, place) ==
  LargestOf({IndexNumbers(lines[k])[place] + 1 : k \in FilledRows(lines) \ DataRows(lines, number)})
CubeLengths(lines, number, lengths, rank) ==
  [i \in 1 .. rank |->
     Max({1, IndexedLength(lines, number, rank + 1 - i),
          IF i = 1 THEN LargestAt(lengths, DataRows(lines, number))
          ELSE IF i = 2 THEN LargestAt(number, DataRows(lines, number)) ELSE 0})]
LengthsOfLines(lines, rank, lengths) ==
  IF rank = 2 THEN MatrixLengths(lengths) ELSE CubeLengths(lines, LineNumbers(lines), lengths, rank)
LinesLengths(lines, rank, delimiters, isList) ==
  LengthsOfLines(lines, rank, RowLengths(lines, delimiters, isList))
SpreadsheetLengths(text, rank, delimiters, isList) ==
  IF rank = 1 THEN << Columns(text, delimiters, isList) >> ELSE LinesLengths(Lines(text), rank, delimiters, isList)

\* The rows and where they are stored; a page ends with a blank line.
PageOf(lines, k) == Cardinality({j \in 1 .. k : lines[j] = << >>})
CubeRows(lines, number) ==
  {[line |-> lines[k], at |-> << number[k] - 1, PageOf(lines, k) >>] : k \in DataRows(lines, number)}
LinesStored(lines, rank) ==
  IF rank = 2 THEN {[line |-> lines[k], at |-> << k - 1 >>] : k \in DOMAIN lines}
  ELSE CubeRows(lines, LineNumbers(lines))
SpreadsheetRows(text, rank) ==
  IF rank = 1 THEN {[line |-> text, at |-> << >>]} ELSE LinesStored(Lines(text), rank)

ScannedElement(text, format) == FormatScan(text, format, << Element(Default) >>).args[1].value

RowStored(a, at, texts, format) ==
  IF texts = << >> THEN a
  ELSE Stored(a, Offset(a, << 0 >> \o at), [k \in DOMAIN texts |-> ScannedElement(texts[k], format)])

\* Elements that are not read have the default value.
ScanSpreadsheet(a, text, format, delimiters, isList) ==
  FoldSet(LAMBDA row, b : RowStored(b, row.at, RowTexts(row.line, delimiters, isList), format),
          ResizeDimensions(a, SpreadsheetLengths(text, ArrayRank(a), delimiters, isList), FALSE, FALSE),
          SpreadsheetRows(text, ArrayRank(a)))

SpreadsheetStringtoArray(h, in, format, delimiter, out) ==
  Goes([h EXCEPT ![out] = ScanSpreadsheet(@, Text(h, in), format, << DelimiterOrTab(delimiter) >>, FALSE)])

\* Without any delimiter it is a tab.
SpreadsheetStringtoArrayWithArrayDelim(h, in, format, delimiters, out) ==
  Goes([h EXCEPT ![out] = ScanSpreadsheet(@, Text(h, in), format, IF delimiters = << >> THEN << << Tab >> >> ELSE delimiters,
                                          delimiters # << >>)])
=============================================================================
