---------------------------- MODULE MatchPattern ----------------------------
(***************************************************************************)
(* The MatchPattern instruction (source/core/MatchPat.cpp): an expression  *)
(* is compiled to a pattern, here a sequence of items, and the pattern is  *)
(* matched by trying the longest repetition first.                         *)
(***************************************************************************)
EXTENDS Strings

Bracket == 91
CloseBracket == 93
Question == 63
Tilde == 126
Repeats == {Star, Plus, Question}

\* The class of a character that may bound a range.
LexClass(c) == IF c \in Digits THEN 3 ELSE IF c \in UpperCase THEN 4 ELSE IF c \in LowerCase THEN 5 ELSE 0

PatternDigits == Digits \cup 65 .. 70
BackslashChar == [c \in {98, 102, 110, 114, 115, 116} |-> IF c = 115 THEN Blank ELSE EscapedLetter[c]]

\* What a text that begins with a backslash stands for, and how many bytes that takes.
ScanForBackslash(s) ==
  IF Len(s) = 1 THEN [c |-> Backslash, n |-> 1]
  ELSE IF s[2] \in PatternDigits
  THEN LET n == Min({2, SpanLength(Tail(s), PatternDigits)})
       IN  [c |-> DigitsValue(SubSeq(s, 2, n + 1), 16), n |-> n + 1]
  ELSE [c |-> IF s[2] \in DOMAIN BackslashChar THEN BackslashChar[s[2]] ELSE s[2], n |-> 2]

\* The members of a set up to its closing bracket, and how many bytes they take.
RECURSIVE SetMembers(_)
SetMembers(s) ==
  LET first == IF s[1] = Backslash THEN ScanForBackslash(s) ELSE [c |-> s[1], n |-> 1]
      others == SetMembers(Rest(s, first.n))
  IN  IF s = << >> THEN [chars |-> << >>, n |-> 0]
      ELSE IF s[1] = CloseBracket THEN [chars |-> << >>, n |-> 1]
      ELSE [chars |-> << first.c >> \o others.chars, n |-> first.n + others.n]

Once == 0
Item(kind, chars) == [kind |-> kind, chars |-> chars, repeat |-> Once]
Literal(c) == Item("Chr", << c >>)

\* A repetition applies to the last item, unless there is none or it has one already;
\* after a character of several bytes it applies to the item before that.
RECURSIVE PatternFrom(_, _, _)
PatternFrom(s, items, last) ==
  LET c == s[1]
      bytes == CharLength(c)
      here == Len(items) + 1
      then(item, n) == PatternFrom(Rest(s, n), Append(items, item), here)
      escaped == ScanForBackslash(s)
      members == SetMembers(Tail(s))
  IN  IF s = << >> THEN items
      ELSE IF bytes > 1
      THEN LET cut == Taken(s, bytes) IN PatternFrom(Rest(s, bytes), items \o [k \in DOMAIN cut |-> Literal(cut[k])], last)
      ELSE IF c \in Repeats
      THEN PatternFrom(Tail(s), IF last = 0 THEN Append(items, Literal(c)) ELSE [items EXCEPT ![last].repeat = c], 0)
      ELSE IF c = Caret /\ items = << >> THEN then(Item("BOL", << >>), 1)
      ELSE IF c = Point THEN then(Item("Any", << >>), 1)
      ELSE IF c = Dollar /\ Len(s) = 1 THEN then(Item("EOS", << >>), 1)
      ELSE IF c = Backslash THEN then(Literal(escaped.c), escaped.n)
      ELSE IF c = Bracket THEN then(Item("CCL", members.chars), 1 + members.n)
      ELSE then(Literal(c), 1)

MakePat(s) == PatternFrom(s, << >>, 0)

\* Whether one of the members is c, or a range from one to another has it.
RECURSIVE Listed(_, _)
Listed(c, members) ==
  LET range == /\ Len(members) > 2 /\ members[2] = Minus /\ members[1] <= members[3]
               /\ LexClass(members[1]) \in 3 .. 5 /\ LexClass(members[1]) = LexClass(members[3])
  IN  IF members = << >> THEN FALSE
      ELSE IF range THEN c \in members[1] .. members[3] \/ Listed(c, Rest(members, 3))
      ELSE c = members[1] \/ Listed(c, Tail(members))

\* A set may be negated, by ^ without the control characters.
InSet(c, members) ==
  LET negated == members # << >> /\ members[1] \in {Caret, Tilde}
  IN  IF negated THEN ~ Listed(c, Tail(members)) /\ ~ (members[1] = Caret /\ c < Blank) ELSE Listed(c, members)

Accepts(item, c) ==
  CASE item.kind = "Any" -> TRUE
    [] item.kind = "Chr" -> c = item.chars[1]
    [] item.kind = "CCL" -> InSet(c, item.chars)
    [] OTHER -> FALSE

\* How often an item may be repeated at a place: as far as it accepts the characters.
RunLength(item, s, at) ==
  LET stops == {k \in at + 1 .. Len(s) : ~ Accepts(item, s[k])}
  IN  IF stops = {} THEN AtLeast0(Len(s) - at) ELSE Min(stops) - 1 - at
Repetitions(item, run) ==
  (IF item.repeat \in {Once, Plus} THEN 1 ELSE 0)
    .. (IF item.repeat \in {Once, Question} THEN Min({1, run}) ELSE run)

EndOfLongest(found) ==
  IF found = {} THEN NoMatch ELSE (CHOOSE t \in found : \A u \in found : u.n <= t.n).end
Longest(tries) == EndOfLongest({t \in tries : t.end # NoMatch})

\* Where a match of the items that starts at an offset ends.
RECURSIVE AMatch(_, _, _)
AMatch(items, s, at) ==
  LET item == Head(items)
  IN  IF items = << >> THEN at
      ELSE IF item.kind = "BOL" \/ (item.kind = "EOS" /\ at # Len(s)) THEN NoMatch
      ELSE Longest({[n |-> k, end |-> AMatch(Tail(items), s, at + k)] :
                      k \in IF item.kind = "EOS" THEN {0} ELSE Repetitions(item, RunLength(item, s, at))})

MatchesAt(items, s, places) == {[begin |-> at, end |-> AMatch(items, s, at)] : at \in places}
First(s, found) ==
  IF found = {} THEN [begin |-> Len(s), end |-> NoMatch]
  ELSE CHOOSE m \in found : \A n \in found : m.begin <= n.begin

\* An expression that begins with ^ is tried at the offset only, another one at each
\* place before the end.
AtBegin(items) == items # << >> /\ items[1].kind = "BOL" /\ items[1].repeat = Once
Tried(items, s, from) ==
  IF AtBegin(items) THEN MatchesAt(Tail(items), s, {from} \cap 0 .. Len(s))
  ELSE MatchesAt(items, s, from .. Len(s) - 1)
MatchPat(items, s, offset) == First(s, {m \in Tried(items, s, AtLeast0(offset)) : m.end # NoMatch})

\* The parts before the match, of it, and behind it.
PartsStored(h, s, found, last, before, match, after) ==
  Assigned(Assigned(Assigned(h, before, Taken(s, found.begin)), match, SubSeq(s, found.begin + 1, last)),
           after, Rest(s, last))
MatchStored(h, s, found, before, match, after, past) ==
  Goes(Number(PartsStored(h, s, found, IF found.end = NoMatch THEN Len(s) ELSE found.end, before, match, after),
              past, found.end))
MatchPattern(h, in, pattern, offset, before, match, after, past) ==
  LET s == Text(h, in)
  IN  MatchStored(h, s, MatchPat(MakePat(TextOrNone(h, pattern)), s, Given(offset, 0)), before, match, after, past)
=============================================================================
