------------------------------- MODULE MCData -------------------------------
(***************************************************************************)
(* Variables and instructions for DataProgram: matrices of two to three    *)
(* rows, vectors of up to three elements, and a cube.                      *)
(***************************************************************************)
EXTENDS StringLaws

MinusNine == -9
MinusTen == -10
MinusEleven == -11
MinusTwelve == -12
VariableLength == -99

Rows(outermost, xs) ==
  [type |-> [i \in DOMAIN outermost |-> Variable], dims |-> Reverse(outermost), mem |-> xs]
New(rank) == NewArray([i \in 1 .. rank |-> Variable])

Twins == ("m1" :> "m2" @@ "m2" :> "m1" @@ "v1" :> "v2" @@ "v2" :> "v1" @@ "c1" :> "c2" @@ "c2" :> "c1"
          @@ "b1" :> "b2" @@ "b2" :> "b1" @@ "s1" :> "s2" @@ "s2" :> "s1"
          @@ "v3" :> "v2" @@ "e" :> "n3" @@ "n1" :> "n3" @@ "n3" :> "n4")

Patterns ==
  "p0" :> << 97 >> @@ "p1" :> << 97, 42, 98 >> @@ "p2" :> << 46, 43, 97 >> @@ "p3" :> << 94, 97, 63, 98 >>
    @@ "p4" :> << 91, 97, 45, 98, 93, 43, 36 >> @@ "p5" :> << 91, 94, 97, 93 >> @@ "p6" :> << 91, 126, 97, 93, 43, 99 >>
    @@ "p7" :> << 92, 115, 42, 65 >> @@ "p8" :> << 98, 63, 97, 42, 98, 36 >> @@ "p9" :> << 42, 97 >>

\* s is cut, searched and joined; f and r are a text to find and its replacement.
Texts(s, t, f, r) ==
  "s1" :> Rows(<< Len(s) >>, s) @@ "s2" :> Rows(<< Len(t) >>, t) @@ "f" :> Rows(<< Len(f) >>, f)
    @@ "r" :> Rows(<< Len(r) >>, r) @@ "o1" :> New(1) @@ "o2" :> New(1) @@ "o3" :> New(1)
    @@ [x \in DOMAIN Patterns |-> Rows(<< Len(Patterns[x]) >>, Patterns[x])]

\* Spreadsheet texts.
Sheets ==
  "t1" :> Rows(<< 10 >>, << 49, 44, 50, 10, 10, 51, 44, 52, 44, 53 >>) @@ "t2" :> Rows(<< 4 >>, << 55, 10, 56, 10 >>)
    @@ "t3" :> Rows(<< 30 >>, << 91, 48, 44, 48, 44, 48, 93, 10, 49, 44, 50, 10, 51, 44, 52, 10, 10, 91, 49, 44, 48, 44, 48, 93, 10, 53, 44, 54, 10, 10 >>)
    @@ "t4" :> Rows(<< 7 >>, << 49, 59, 50, 44, 59, 51, 59 >>) @@ "t5" :> Rows(<< 4 >>, << 49, 44, 50, 59 >>)

Heap(matrix, vector, part, cube) ==
  "m1" :> matrix @@ "m2" :> New(2) @@ "m3" :> part
    @@ "v1" :> vector @@ "v2" :> New(1) @@ "v3" :> Rows(<< 2 >>, << 8, 9 >>)
    @@ "b1" :> [type |-> << -3 >>, dims |-> << 2 >>, mem |-> << 3, 4, Junk >>] @@ "b2" :> NewArray(<< -3 >>)
    @@ "v4" :> New(1) @@ "m4" :> New(2)
    @@ "w1" :> [vector EXCEPT !.mem = [k \in DOMAIN @ |-> 513 * k]] @@ "d1" :> Rows(<< 3 >>, << 1, 0, 1 >>) @@ "d2" :> New(1)
    @@ "n1" :> Scalar(2) @@ "n2" :> Scalar(261) @@ "n3" :> Scalar(0) @@ "n4" :> Scalar(0)
    @@ Sheets @@ "c1" :> cube @@ "c2" :> New(3) @@ "e" :> Scalar(7) @@ "s" :> Scalar(0)

Heaps ==
  {Heap(Rows(<< 2, 3 >>, << 1, 2, 3, 4, 5, 6 >>), Rows(<< 3 >>, << 2, 4, 7 >>), Rows(<< 1, 2 >>, << 8, 9 >>),
        Rows(<< 2, 2, 2 >>, << 1, 2, 3, 4, 5, 6, 7, 8 >>))
     @@ Texts(<< 97, 98, 97, 98, 97 >>, << 97, 98 >>, << 97, 98 >>, << 98 >>),
   Heap(Rows(<< 3, 1 >>, << 3, 1, 3 >>), Rows(<< 2 >>, << 3, 1 >>), Rows(<< 2, 2 >>, << 6, 7, 8, 9 >>),
        Rows(<< 1, 2, 1 >>, << 1, 2 >>))
     @@ Texts(<< 32, 65, 195, 169, 204, 129, 97, 9 >>, << 195, 169, 97, 97 >>, << 97 >>, << >>),
   Heap(Rows(<< 2, 2 >>, << 1, NaN, 4, 2 >>), Rows(<< 3 >>, << NaN, 2, 2 >>), Rows(<< 3, 3 >>, << 1, 2, 3, 4, 5, 6, 7, 8, 9 >>),
        Rows(<< 2, 1, 2 >>, << 1, 2, 3, 4 >>))
     @@ Texts(<< 97, 13, 10, 66, 10, 99 >>, << 66, 37, 52, 49 >>, << >>, << 97, 97 >>)}

-----------------------------------------------------------------------------
(* The instructions.  What stops, or takes no array, is executed once.      *)

Index == {Unwired, -1, 0, 1, 2}
Matrix == {"m1", "m2"}
Vector == {"v1", "v2"}
Cube == {"c1", "c2"}

Op(names, fields) == {[op |-> n] @@ f : n \in names, f \in fields}

MatrixCalls ==
  [op : {"ArrayIndexND"}, in : {"m1"}, out : {"v2"}, index : {<< Unwired, 1 >>, << 1, Unwired >>, << 2, Unwired >>, << Unwired, Unwired >>}]
    \cup [op : {"ArrayIndexND"}, in : {"m1"}, out : {"e"}, index : {<< 1, 0 >>, << 0, 1 >>}]
    \cup [op : {"ArrayIndexND"}, in : {"c1"}, out : {"v2", "m2"}, index : {<< 1, Unwired, 0 >>, << Unwired, 1, Unwired >>}]
    \cup [op : {"ArrayIndexElt2DV"}, in : {"m1"}, out : {"v2"}, row : {Unwired, 1}, col : {Unwired}]
    \cup [op : {"ArrayIndexElt2DV"}, in : {"m1"}, out : {"v2"}, row : {Unwired}, col : {0, 1}]
    \cup [op : {"ArrayIndexElt2DV"}, in : {"m1"}, out : {"e"}, row : {1}, col : {0, 1}]
    \cup [op : {"ArrayIndexEltNDV"}, in : {"m1"}, out : {"e"}, index : {<< 0, 1 >>, << Unwired, 1 >>}]
    \cup [op : {"ArraySubsetND"}, in : {"m1"}, out : Matrix, index : {<< 0, 0 >>, << 1, Unwired >>, << Unwired, 1 >>},
          lens : {<< Unwired, 1 >>, << 1, Unwired >>, << 2, 2 >>}]
    \cup [op : {"ArraySubsetND"}, in : {"c1"}, out : {"c2"}, index : {<< 1, 0, 0 >>, << 0, Unwired, 1 >>},
          lens : {<< 1, 1, Unwired >>, << Unwired, Unwired, 1 >>}]
    \cup [op : {"ArrayInsertSubsetND"}, in : {"m1"}, out : Matrix, index : {Unwired, 0, 1}, dim : {Unwired, 0, 1, 2},
          new : {"m3", "v3"}]
    \cup [op : {"ArrayInsertSubsetND"}, in : {"c1"}, out : Cube, index : {0, 1}, dim : {0, 1, 2}, new : {"m3"}]
    \cup [op : {"ArrayDeleteND"}, in : {"m1"}, out : Matrix, part : {"m3", "v3"}, length : {Unwired, 0, 2},
          index : {Unwired, 0, 1, 4}, dim : {Unwired, 1, 2}]
    \cup [op : {"ArrayDeleteND"}, in : {"m1"}, out : Matrix, part : {"v3"}, length : {-1}, index : {Unwired, -1, 1}, dim : {0, 1}]
    \cup [op : {"ArrayDeleteND"}, in : {"c1"}, out : Cube, part : {"m3"}, length : {1}, index : {0, 1}, dim : {0, 1, 2}]
    \cup [op : {"ArrayReplaceSubsetND"}, in : {"m1"}, out : Matrix, index : {<< 1, Unwired >>, << Unwired, 1 >>, << Unwired, Unwired >>},
          new : {"v3"}]
    \cup [op : {"ArrayReplaceSubsetND"}, in : {"m1"}, out : Matrix, index : {<< 1, 0 >>, << 2, 1 >>}, new : {"e"}]
    \cup [op : {"ArrayReplaceSubsetND"}, in : {"c1"}, out : Cube, index : {<< 0, Unwired, Unwired >>, << Unwired, 1, Unwired >>}, new : {"m3"}]
    \cup [op : {"ArrayReplaceEltNDV"}, in : {"m1"}, out : Matrix, index : {<< 0, 1 >>, << 3, 1 >>}, new : {"e"}]
    \cup [op : {"ArrayReplaceSubset2DV"}, in : {"m1"}, out : Matrix,
          parts : {<< [row |-> 1, col |-> Unwired, new |-> "v3"], [row |-> Unwired, col |-> Unwired, new |-> "v3"] >>,
                   << [row |-> Unwired, col |-> 0, new |-> "v3"], [row |-> 0, col |-> 1, new |-> "e"] >>}]
    \cup [op : {"ArrayTranspose", "ArrayDimensions", "ArrayLengthN"}, in : {"m1"}, out : {"m2"}]
    \cup [op : {"ArrayReshape"}, in : {"m1", "v1", "c1"}, out : {"m2"}, lens : {<< 3, 2 >>, << 1, 2 >>, << 0, 2 >>}]
    \cup [op : {"ArrayResizeDimensions"}, out : {"m2"}, lens : {<< 2, 1 >>}]
    \cup [op : {"ArrayFillNDV"}, out : {"m2"}, value : {5}, lens : {<< 2, 2 >>, << Unwired, 2 >>}]
    \cup [op : {"ArrayMaxMinInternal"}, in : {"m1"}, max : {"e"}, maxIndex : {"v2"}, min : {"s"}, minIndex : {"v3"}]

VectorCalls ==
  [op : {"ArrayIndexElt"}, in : {"v1"}, out : {"e"}, index : {-1, 1}]
    \cup [op : {"ArrayReplaceElt", "ArrayInsertElt"}, in : {"v1", "b1"}, out : {"v1", "v2"}, index : {-1, 0, 1, 2}, new : {"e"}]
    \cup [op : {"ArrayInsertElt"}, in : {"v1"}, out : Vector, index : {Unwired}, new : {"e"}]
    \cup [op : {"ArrayInsertElt"}, in : {"b1"}, out : {"b1", "b2"}, index : {0, 1}, new : {"e"}]
    \cup [op : {"ArrayAppendElt"}, out : {"v2", "b2"}, new : {"e"}]
    \cup [op : {"ArrayReplaceSubset"}, in : {"v1"}, out : Vector,
          pairs : {<< [index |-> 1, new |-> "v3"] >>, << [index |-> 0, new |-> "e"], [index |-> Unwired, new |-> "v3"] >>,
                   << [index |-> Unwired, new |-> "v1"] >>}]
    \cup [op : {"ArrayInsertSubset"}, in : {"v1"}, out : Vector, index : {Unwired, 0, 1, 9}, new : {"v3"}]
    \cup [op : {"ArraySubset"}, in : {"v1"}, out : Vector, index : {Unwired, 1}, length : {Unwired, 1, 5}]
    \cup [op : {"ArraySplit"}, in : {"v1"}, out : {"v2"}, part : {"v3"}, index : {-1, 1, 5}]
    \cup [op : {"ArrayDelete"}, in : {"v1"}, out : {"v2"}, part : {"v3", "e"}, length : {Unwired, 2}, index : {Unwired, 0, 1, 7}]
    \cup [op : {"ArrayDeleteND"}, in : {"v1"}, out : {"v2"}, part : {"v3"}, length : {Unwired, -1, 2}, index : {Unwired, -1, 1, 7}, dim : {Unwired}]
    \cup [op : {"ArrayInsertSubsetND"}, in : {"v1"}, out : Vector, index : {Unwired, 0, 1}, dim : {Unwired}, new : {"v3"}]
    \cup [op : {"ArrayReverse"}, in : {"v1"}, out : Vector]
    \cup [op : {"ArrayRotate"}, in : {"v1"}, out : Vector, index : {-4, 1}]
    \cup [op : {"Sort1DArrayInternal"}, in : {"v1", "v3"}, out : {"v2"}]
    \cup [op : {"ArrayInterleave"}, ins : {<< "v1", "v3" >>}, out : {"v2"}]
    \cup [op : {"ArrayDecimate"}, in : {"v1"}, outs : {<< "v2", "v3" >>}]
    \cup [op : {"ArrayFill"}, out : {"v2", "b2"}, n : {-1, 2, 3}, value : {5}]
    \cup [op : {"ClusterToArray"}, out : {"v2"}, fields : {<< 1, 2 >>}]

Points(xs, ys) == [k \in DOMAIN xs |-> [x |-> xs[k], y |-> ys[k]]]
SomePoints == {Points(<< 0, 2, 6 >>, << 1, 5, 7 >>), Points(<< 0, 0, 3 >>, << 1, 1, NaN >>), Points(<< 1, 4 >>, << 2, Infinity >>)}

AnswerCalls ==
  [op : {"ArrayThreshold"}, in : {"v1"}, value : 0 .. 8, index : {Unwired, 1}]
    \cup [op : {"ArrayInterpolate"}, in : {"v1"}, at : {<< -1, 2 >>, << 3, 2 >>, << 9, 1 >>}]
    \cup [op : {"ArrayInterpolatePoints"}, points : SomePoints, at : {<< 1, 1 >>, << 5, 2 >>}]
    \cup [op : {"ArrayThresholdPoints"}, points : SomePoints, value : {1, 6}, index : {Unwired}]
    \cup [op : {"ArrayToCluster"}, in : {"v1"}, fields : {<< 0, 0 >>}]
    \cup [op : {"IndexBundleClusterArray"}, ins : {<< "v1", "v3" >>}]
    \cup [op : {"BuildClusterArray"}, elements : {<< 1, 2 >>}]
    \cup [op : {"IsEmptyArray"}, in : {"v2"}]
    \cup [op : {"NumberToBooleanArray"}, number : {5}, width : {4}]
    \cup [op : {"BooleanArrayToNumber"}, bits : {<< TRUE, FALSE, TRUE >>}, width : {4}, signed : BOOLEAN]

NoVar == "none"
StringCalls ==
  [op : {"StringViaDecode", "StringReverse", "StringRotate"}, in : {"s1", "s2"}, out : {"o1"}]
    \cup [op : {"StringToUpper", "StringToLower"}, in : {"s1"}, out : {"s1", "s2"}]
    \cup [op : {"ReplaceSubstring"}, in : {"s1"}, new : {"r"}, out : {"o1"}, replaced : {"o2"},
          offset : {Unwired, -1, 1, 5, 9}, length : {Unwired, 0, 3}]
    \cup [op : {"SearchAndReplaceString"}, in : {"s1", "s2"}, search : {"f"}, new : {"r", NoVar}, out : {"o1"},
          offset : {Unwired, 1, 9}, all : BOOLEAN, ignoreCase : BOOLEAN, count : {"e"}, past : {"s"}]
    \cup [op : {"SearchSplitString"}, in : {"s1"}, search : {"f"}, out : {"s1", "s2"}, rest : {"o2"}, past : {"s"},
          offset : {Unwired, 1, 2, 9}]
    \cup [op : {"StringLength"}, in : {"s1"}, out : {"e"}]
    \cup [op : {"StringIndexChar"}, in : {"s1"}, out : {"e"}, n : {-1, 0, 2, 5}]
    \cup [op : {"StringToUpperInt", "StringToLowerInt"}, out : {"e"}, char : {65, 97}]
    \cup [op : {"StringTrim"}, in : {"s1", "f"}, out : {"o1"}, location : 0 .. 3]
    \cup [op : {"StringConcatenate"}, out : {"s1"},
          inputs : {<< [var |-> "s1"], [var |-> "f"], [var |-> "f"] >>, << [var |-> "s2"], [var |-> "s1"] >>,
                    << [texts |-> << << 97 >>, << >>, << 98, 99 >> >>] >>}]
    \cup [op : {"StringPickLine"}, in : {"s1"}, init : {"r", NoVar}, out : {"o1"}, n : -1 .. 3]
    \cup [op : {"MaxAndMinElts"}, in : {"s1"}, other : {"s2", "f"}, max : {"o1"}, min : {"o2"}]
    \cup [op : {"Compare"}, in : {"s1", "f"}, other : {"s2", "r"}]
    \cup [op : {"Classify"}, in : {"s1", "s2", "f"}]
    \cup [op : {"ClassifyInt"}, n : {48, 97, 256 + 32}]
    \cup [op : {"Path"}, components : {<< >>, << << 97 >> >>}, type : {<< >>, << 97 >>}]
    \cup [op : {"MatchPattern"}, in : {"s1"}, pattern : DOMAIN Patterns, offset : {Unwired, 1, 9},
          before : {"o1"}, match : {"o2"}, after : {"o3"}, past : {"s"}]

SomeTexts ==
  {<< >>, << 97 >>, << 7, 10, 34, 92 >>, << 49, 43, 32, 195, 169 >>, << 97, 42, 37, 90 >>, << 9, 31, 39, 98 >>}
TokenTexts ==
  {<< 32, 49, 50, 32 >>, << 45, 49, 46, 53, 101, 43, 51, 41 >>, << 49, 46, 120 >>, << 105, 110, 102, 105 >>,
   << 73, 78, 70, 45, 49 >>, << 105, 110, 102, 120 >>, << 48, 120, 65, 70, 44 >>, << 48, 120, 71 >>,
   << 64, 39, 92, 39, 97 >>, << 39, 92, 39, 97, 39, 98 >>, << 34, 97, 98 >>, << 42, 97 >>, << 47, 47, 97, 10, 98 >>,
   << 47, 42, 97, 42, 47, 43, 120 >>, << 116, 114, 117, 101 >>, << 97, 58, 98 >>, << 43, 101, 53 >>, << 59, 97 >>,
   << 40, 97, 40, 41, 32, 98, 41, 99 >>, << 40, 40, 97, 41 >>, << 97, 60, 98, 32, 40, 41, 62, 60, 99, 62, 100 >>,
   << 97, 32, 58, 32, 49 >>, << 36, 50, 32 >>, << 42 >>, << 45, 52, 32 >>, << >>}
IntTexts == {NumberText(n, 10) : n \in {-9, -8, -1, 0, 5, 7, 8, 15, 16, 25}} \cup {<< 48, 120, 55 >>, << 49, 49, 48 >>, << 45, 32 >>, << 43, 51, 97 >>}

TextCalls ==
  [op : {"UnEscape"}, text : SomeTexts, length : {3, 20}]
    \cup [op : {"ProcessEscapes"}, text : {<< 92, 120, 52, 49 >>, << 92, 49, 48, 49, 55 >>, << 92, 55 >>, << 97, 92 >>}]
    \cup [op : {"AppendEscapeEncoded"}, text : SomeTexts, from : {0, 1}, inPlace : BOOLEAN]
    \cup [op : {"PercentEncode"}, text : SomeTexts]
    \cup [op : {"PercentDecode"}, text : {<< 37, 52, 49, 43 >>, << 37, 90, 90 >>, << 97, 37, 49 >>}]
    \cup [op : {"ReadToken"}, text : TokenTexts, suppressInfNaN : BOOLEAN]
    \cup [op : {"ClassifyNextToken", "ReadSubexpressionToken", "ReadNameToken"}, text : TokenTexts]
    \cup [op : {"ReadInt"}, text : IntTexts, width : {4}]
    \cup [op : {"ReadIntWithBase"}, text : IntTexts, base : {2, 10}, width : {4}]
    \cup [op : {"ReadIntDim"}, text : TokenTexts, width : {8}, templates : {3}, lengths : {-5 .. 15}]
    \cup [op : {"SplitString"}, text : SomeTexts, separator : {10, 97}]
    \cup [op : {"EatToEol"}, text : TokenTexts]

-----------------------------------------------------------------------------
(* Formats and values.                                                      *)

IntArg(n) == [kind |-> "Int", width |-> 8, value |-> n]
UIntArg(n) == [kind |-> "UInt", width |-> 8, value |-> n]
BooleanArg(n) == [kind |-> "Boolean", width |-> 8, value |-> n]
StringArg(s) == [kind |-> "String", width |-> 0, value |-> s]
EnumArg(n) == [kind |-> "Enum", width |-> 8, value |-> n, items |-> << << 97 >>, << 97, 98 >>, << 99 >> >>]

Case(format, args) == [format |-> format, args |-> args]
FormatCases ==
  {Case(<< 37, 100, 32, 37, 117 >>, << IntArg(5), UIntArg(200) >>),  \* "%d %u"
   Case(<< 37, 100, 32, 37, 100 >>, << IntArg(-128), IntArg(127) >>),  \* "%d %d"
   Case(<< 37, 120, 32, 37, 111 >>, << IntArg(26), IntArg(9) >>),  \* "%x %o"
   Case(<< 37, 120, 32, 37, 98 >>, << IntArg(-3), IntArg(-3) >>),  \* "%x %b"
   Case(<< 37, 98, 32, 37, 115 >>, << UIntArg(5), StringArg(<< 97, 98 >>) >>),  \* "%b %s"
   Case(<< 37, 53, 100, 32, 37, 45, 53, 100 >>, << IntArg(-7), IntArg(7) >>),  \* "%5d %-5d"
   Case(<< 37, 48, 53, 100, 32, 37, 43, 100 >>, << IntArg(-7), IntArg(7) >>),  \* "%05d %+d"
   Case(<< 37, 95, 49, 100, 44, 37, 46, 51, 100 >>, << IntArg(95), IntArg(-4) >>),  \* "%_1d,%.3d"
   Case(<< 37, 35, 120, 37, 35, 111 >>, << IntArg(26), IntArg(9) >>),  \* "%#x%#o"
   Case(<< 37, 48, 52, 98, 32, 37, 88 >>, << IntArg(3), UIntArg(250) >>),  \* "%04b %X"
   Case(<< 37, 115, 32, 37, 115 >>, << StringArg(<< 97, 32, 98 >>), BooleanArg(1) >>),  \* "%s %s"
   Case(<< 37, 115, 32, 37, 115 >>, << EnumArg(1), StringArg(<< 120 >>) >>),  \* "%s %s"
   Case(<< 37, 46, 49, 115, 37, 52, 115, 37, 45, 51, 115, 124 >>, << StringArg(<< 97, 98 >>), EnumArg(2), EnumArg(9) >>),  \* "%.1s%4s%-3s|"
   Case(<< 37, 50, 36, 100, 32, 37, 49, 36, 100 >>, << IntArg(1), IntArg(2) >>),  \* "%2$d %1$d"
   Case(<< 37, 100, 37, 37 >>, << IntArg(1), IntArg(2) >>),  \* "%d%%"
   Case(<< 37, 100, 32, 37, 113 >>, << IntArg(1), IntArg(2) >>),  \* "%d %q"
   Case(<< 37, 113 >>, << IntArg(1), IntArg(2) >>),  \* "%q"
   Case(<< 37, 100 >>, << StringArg(<< 97 >>) >>),  \* "%d"
   Case(<< 37, 115 >>, << IntArg(1) >>),  \* "%s"
   Case(<< 37, 100, 32, 37, 100 >>, << IntArg(1) >>),  \* "%d %d"
   Case(<< 37, 100 >>, << IntArg(1), IntArg(2) >>),  \* "%d"
   Case(<< 37, 53, 100, 32, 36 >>, << IntArg(1) >>),  \* "%5d $"
   Case(<< 92, 110, 92, 52, 49, 92, 115, 92, 113, 37, 46, 59, 37, 100, 92 >>, << IntArg(1) >>),  \* "\n\41\s\q%.;%d\"
   Case(<< 37, 59, 37, 100 >>, << IntArg(1) >>),  \* "%;%d"
   Case(<< >>, << UIntArg(3), EnumArg(0), StringArg(<< 97, 98 >>), BooleanArg(0), IntArg(-1) >>),  \* ""
   Case(<< 37, 122, 37, 105 >>, << IntArg(4) >>),  \* "%z%i"
   Case(<< 37, 91, 97, 98, 93 >>, << IntArg(1) >>),  \* "%[ab]"
   Case(<< 37, 91, 97, 98 >>, << IntArg(1) >>),  \* "%[ab"
   Case(<< 37, 60, 97, 62, 120 >>, << IntArg(1) >>),  \* "%<a>x"
   Case(<< 37, 60, 97 >>, << IntArg(1) >>),  \* "%<a"
   Case(<< 37, 46, 100 >>, << IntArg(1) >>),  \* "%.d"
   Case(<< 37, 95, 42, 100 >>, << IntArg(1) >>),  \* "%_*d"
   Case(<< 37, 108, 113 >>, << IntArg(1) >>),  \* "%lq"
   Case(<< 37, 94, 32, 100 >>, << IntArg(1) >>),  \* "%^ d"
   Case(<< >>, <<  >>)}  \* ""
FormatValueCases ==
  {[format |-> << >>, arg |-> IntArg(-4)],
   [format |-> << 60, 37, 51, 100, 62, 37, 37 >>, arg |-> IntArg(7)],
   [format |-> << 37, 37, 120 >>, arg |-> IntArg(7)],
   [format |-> << 37, 37, 37, 100 >>, arg |-> UIntArg(9)],
   [format |-> << 97, 37, 113, 45 >>, arg |-> IntArg(7)],
   [format |-> << 37, 115, 33 >>, arg |-> BooleanArg(1)],
   [format |-> << 37, 115 >>, arg |-> IntArg(1)],
   [format |-> << 97, 37, 46, 100, 53 >>, arg |-> IntArg(7)]}
ScanCase(text, format, args) == [text |-> text, format |-> format, args |-> args]
ScanCases ==
  {ScanCase(<< 49, 50, 32, 97, 98 >>, << 37, 100, 32, 37, 115 >>, << IntArg(0), StringArg(<< >>) >>),  \* "12 ab" by "%d %s"
   ScanCase(<< 45, 53 >>, << 37, 117 >>, << UIntArg(1) >>),  \* "-5" by "%u"
   ScanCase(<< 51, 48, 48, 32, 45, 51, 48, 48 >>, << 37, 100, 32, 37, 100 >>, << IntArg(0), IntArg(0) >>),  \* "300 -300" by "%d %d"
   ScanCase(<< 45, 49, 50, 56 >>, << 37, 100 >>, << IntArg(0) >>),  \* "-128" by "%d"
   ScanCase(<< 48, 120, 102, 70 >>, << 37, 120 >>, << UIntArg(0) >>),  \* "0xfF" by "%x"
   ScanCase(<< 70, 70 >>, << 37, 88 >>, << UIntArg(7) >>),  \* "FF" by "%X"
   ScanCase(<< 32, 49, 48, 49 >>, << 37, 98 >>, << IntArg(0) >>),  \* " 101" by "%b"
   ScanCase(<< 56 >>, << 37, 111 >>, << IntArg(7) >>),  \* "8" by "%o"
   ScanCase(<< 121, 101, 115 >>, << 37, 115 >>, << BooleanArg(0) >>),  \* "yes" by "%s"
   ScanCase(<< 79, 102, 102 >>, << 37, 115 >>, << BooleanArg(1) >>),  \* "Off" by "%s"
   ScanCase(<< 121, 101, 115, 44, 32, 49 >>, << 37, 115, 44, 32, 37, 100 >>, << BooleanArg(1), IntArg(0) >>),  \* "yes, 1" by "%s, %d"
   ScanCase(<< 97, 98, 120 >>, << 37, 115, 120 >>, << EnumArg(2) >>),  \* "abx" by "%sx"
   ScanCase(<< 100 >>, << 37, 115 >>, << EnumArg(2) >>),  \* "d" by "%s"
   ScanCase(<< 49 >>, << 37, 100 >>, << EnumArg(2) >>),  \* "1" by "%d"
   ScanCase(<< 97, 49 >>, << 97, 37, 100, 37, 100, 97 >>, << IntArg(0) >>),  \* "a1" by "a%d%da"
   ScanCase(<< 49 >>, << 37, 100, 32, 37, 100 >>, << IntArg(0), IntArg(0) >>),  \* "1" by "%d %d"
   ScanCase(<< 120 >>, << 121 >>, <<  >>),  \* "x" by "y"
   ScanCase(<< 37, 53 >>, << 37, 37, 37, 100 >>, << IntArg(0) >>),  \* "%5" by "%%%d"
   ScanCase(<< 120, 53 >>, << 37, 37, 37, 100 >>, << IntArg(0) >>),  \* "x5" by "%%%d"
   ScanCase(<< 99, 97, 97, 98, 49 >>, << 37, 91, 97, 45, 98, 93, 37, 91, 94, 48, 45, 57, 93, 37, 100 >>, << StringArg(<< >>), StringArg(<< >>), IntArg(0) >>),  \* "caab1" by "%[a-b]%[^0-9]%d"
   ScanCase(<< 98, 98, 49 >>, << 37, 91, 97, 45, 98, 93, 37, 100 >>, << StringArg(<< >>), IntArg(0) >>),  \* "bb1" by "%[a-b]%d"
   ScanCase(<< 97, 98, 91 >>, << 37, 50, 91, 97, 93 >>, << StringArg(<< >>) >>),  \* "ab[" by "%2[a]"
   ScanCase(<< 32, 32, 97, 98, 99 >>, << 37, 50, 115 >>, << StringArg(<< >>) >>),  \* "  abc" by "%2s"
   ScanCase(<< >>, << 37, 100 >>, << IntArg(1) >>),  \* "" by "%d"
   ScanCase(<< 32, 32 >>, << 37, 115 >>, << StringArg(<< 113 >>) >>),  \* "  " by "%s"
   ScanCase(<< 49 >>, << 37, 105 >>, << IntArg(0) >>),  \* "1" by "%i"
   ScanCase(<< 49 >>, << >>, << IntArg(0) >>),  \* "1" by ""
   ScanCase(<< 97 >>, << >>, << StringArg(<< >>) >>),  \* "a" by ""
   ScanCase(<< 53 >>, << 37, 46, 59, 37, 100 >>, << IntArg(0) >>),  \* "5" by "%.;%d"
   ScanCase(<< 49 >>, << 37, 100, 37, 113 >>, << IntArg(0), IntArg(0) >>),  \* "1" by "%d%q"
   ScanCase(<< 49 >>, << 37, 100 >>, << StringArg(<< >>) >>),  \* "1" by "%d"
   ScanCase(<< 49, 50 >>, << 37, 49, 100, 37, 100 >>, << IntArg(0), IntArg(0) >>),  \* "12" by "%1d%d"
   ScanCase(<< 49 >>, << 37, 100, 122 >>, << IntArg(0) >>),  \* "1" by "%dz"
   ScanCase(<< 49 >>, << 37, 91, 93 >>, << StringArg(<< >>) >>),  \* "1" by "%[]"
   ScanCase(<< 55 >>, << >>, << UIntArg(0) >>),  \* "7" by ""
   ScanCase(<< 49, 32, 50 >>, << 37, 100 >>, << IntArg(0), IntArg(0) >>)}  \* "1 2" by "%d"
ScanValueCases ==
  {[text |-> << 52, 50, 97 >>, format |-> f, arg |-> IntArg(1)] : f \in {<< >>, << 37, 100 >>, << 37, 49, 100 >>}}

CommaBlank == << 44, 32 >>
OneComma == << 44 >>
NumberFormats == {<< >>, << 37, 100 >>, << 40, 37, 100, 41 >>}
DelimiterLists == {<< >>, << << 59 >>, << 44, 59 >>, << 44 >> >>, << << 44 >>, << 59, 59 >> >>, << << 44 >>, << 44, 59 >> >>}
Bytes == {"s1", "s2", "b1"} 

FormatCalls ==
  [op : {"StringFormat"}, out : {"o1"}, failed : BOOLEAN, format : {<< 37, 100 >>}, args : {<< IntArg(3) >>}]
    \cup Op({"StringFormat"}, {[out |-> "o1", failed |-> FALSE] @@ c : c \in FormatCases})
    \cup Op({"StringFormatValue"}, {[out |-> "o1"] @@ c : c \in FormatValueCases})
    \cup Op({"StringScan"}, {[at |-> 0, failed |-> FALSE] @@ c : c \in ScanCases})
    \cup [op : {"StringScan"}, text : {<< 49, 50 >>}, format : {<< >>}, args : {<< IntArg(0) >>}, at : {1, 9}, failed : BOOLEAN]
    \cup Op({"StringScanValue"}, ScanValueCases)
    \cup [op : {"ByteArrayToString", "StringToByteArray"}, in : Bytes, out : {"o1"}, encoding : {0, 1}, failed : BOOLEAN]
    \cup [op : {"TrimQuotedString"}, text : TokenTexts]
    \cup [op : {"ArraySpreadsheet"}, in : {"m1", "m3", "v1", "c1"}, out : {"o1"}, format : NumberFormats, delimiter : {<< >>, CommaBlank}]
    \cup [op : {"SpreadsheetStringtoArray"}, in : {"t1", "t2", "t4", "f"}, out : {"v2", "m2"}, format : NumberFormats, delimiter : {OneComma}]
    \cup [op : {"SpreadsheetStringtoArray"}, in : {"t3"}, out : {"c2"}, format : {<< >>}, delimiter : {OneComma, << >>}]
    \cup [op : {"SpreadsheetStringtoArrayWithArrayDelim"}, in : {"t4", "t5"}, out : {"v2", "m2"}, format : {<< >>}, delimiters : DelimiterLists]

-----------------------------------------------------------------------------
(* Elements of arrays and fields of clusters: w1 and n2 have more bits than *)
(* the others, d1 and d2 are Boolean.                                       *)

Comparisons == {"IsLT", "IsGT", "IsLE", "IsGE", "IsEQ", "IsNE"}

ElementCalls ==
  [op : {"BinaryOp"}, name : {"Add", "Sub", "Mul"} \cup Comparisons, wide : {"none"}, in : {"v1"}, other : {"v3"}, out : {"v2"}]
    \cup [op : {"BinaryOp"}, name : {"Sub"}, wide : {"none"}, in : {"v1", "e"}, other : {"v1", "v3"}, out : {"v1", "v2", "v3"}]
    \cup [op : {"BinaryOp"}, name : {"Sub"}, wide : {"none"}, in : {"m1", "e"}, other : {"m1", "m3"}, out : {"m1", "m2"}]
    \cup [op : {"BinaryOp"}, name : {"Sub"}, wide : {"none"}, in : {"c1"}, other : {"c1", "e"}, out : Cube]
    \cup [op : {"BinaryOp"}, name : {"Sub"}, wide : {"none"}, in : {"e"}, other : {"e", "n1"}, out : {"e", "n1", "n3"}]
    \cup [op : {"BinaryOp"}, name : {"Add"}, wide : {"x"}, in : {"w1", "n2"}, other : {"v1"}, out : Vector]
    \cup [op : {"BinaryOp"}, name : {"Sub"}, wide : {"y"}, in : {"v1"}, other : {"w1", "n2"}, out : Vector]
    \cup [op : {"BinaryOp"}, name : {"Sub"}, wide : {"x"}, in : {"n2"}, other : {"e"}, out : {"e", "n3"}]
    \cup [op : {"BinaryOp"}, name : {"Sub"}, wide : {"y"}, in : {"e"}, other : {"n2"}, out : {"e", "n3"}]
    \cup [op : {"BinaryOp"}, name : {"And", "Or", "Xor"}, wide : {"none"}, in : {"d1"}, other : {"d1"}, out : {"d2"}]
    \cup [op : {"BinaryOp"}, name : {"Join"}, wide : {"none"}, in : {"v3"}, other : {"v3", "e"}, out : {"v2"}]
    \cup [op : {"SplitOp"}, in : {"w1"}, high : {"v2"}, low : {"v3"}]
    \cup [op : {"UnaryOp"}, name : {"Sign", "Negate", "Increment", "Decrement", "Convert"}, sameType : BOOLEAN, in : {"v1"}, out : Vector]
    \cup [op : {"UnaryOp"}, name : {"Convert"}, sameType : {FALSE}, in : {"w1"}, out : {"v2"}]
    \cup [op : {"UnaryOp"}, name : {"Negate"}, sameType : {TRUE}, in : {"c1"}, out : Cube]
    \cup [op : {"UnaryOp"}, name : {"Not"}, sameType : {TRUE}, in : {"d1"}, out : {"d2"}]
    \cup [op : {"UnaryOp"}, name : {"Negate"}, sameType : {TRUE}, in : {"e"}, out : {"e", "n3"}]
    \cup [op : {"MaxMinElements"}, in : {"v1", "e"}, other : {"v3"}, max : {"v1", "v2"}, min : {"v4"}]
    \cup [op : {"MaxMinElements"}, in : {"v1"}, other : {"e"}, max : {"v2"}, min : {"v4"}]
    \cup [op : {"MaxMinElements"}, in : {"m1"}, other : {"m3", "e"}, max : {"m2"}, min : {"m4"}]
    \cup [op : {"InRangeAndCoerce"}, in : {"v1"}, lo : {"n1", "v3"}, hi : {"e", "v3"}, coerced : {"v2"}, out : {"d2"},
          includeLo : BOOLEAN, includeHi : BOOLEAN]
    \cup [op : {"InRangeAndCoerce"}, in : {"e"}, lo : {"n1"}, hi : {"e"}, coerced : {"n3"}, out : {"n4"},
          includeLo : BOOLEAN, includeHi : BOOLEAN]

ClusterCalls ==
  [op : {"ClusterBinaryOp"}, name : {"Sub", "IsLE"}, wides : {<< "none", "y", "none" >>}, ins : {<< "e", "s", "v1" >>},
   others : {<< "n1", "n2", "v3" >>}, outs : {<< "n3", "n4", "v2" >>, << "e", "s", "v1" >>}, again : BOOLEAN]
    \cup [op : {"ClusterBinaryOp"}, name : {"Sub"}, wides : {<< "x", "x" >>}, ins : {<< "n2", "w1" >>}, others : {<< "e", "v1" >>},
          outs : {<< "n3", "v2" >>}, again : BOOLEAN]
    \cup [op : {"ClusterUnaryOp"}, name : {"Negate"}, ins : {<< "e", "v1" >>}, outs : {<< "n3", "v2" >>}]
    \cup [op : {"ClusterUnary2OutputOp"}, ins : {<< "n2", "w1" >>}, res : {<< "n3", "v2" >>}, ims : {<< "n4", "v4" >>}]
    \cup [op : {"ClusterMaxMinOp"}, ins : {<< "e", "v1" >>}, others : {<< "n1", "v3" >>}, maxs : {<< "n3", "v2" >>}, mins : {<< "n4", "v4" >>}]
    \cup [op : {"ClusterAggBinaryOp"}, name : Comparisons, ins : {<< "e", "s" >>}, others : {<< "e", "n1" >>, << "e", "s" >>}, out : {"n3"}]
    \cup [op : {"ClusterInRangeOp"}, ins : {<< "e", "v1" >>}, los : {<< "s", "n1" >>}, his : {<< "n1", "e" >>},
          coerced : {<< "n3", "v2" >>}, outs : {<< "n4", "d2" >>}, includeLo : {TRUE}, includeHi : BOOLEAN]

Error(code) == [status |-> TRUE, code |-> code, source |-> << 97 >>]
Warning(code) == [status |-> FALSE, code |-> code, source |-> << 98 >>]

AggregateCalls ==
  [op : {"BinaryAccumulatorOp"}, name : Comparisons, in : {"v1"}, other : {"v1", "v3", "v4"}, out : {"n3"}]
    \cup [op : {"BinaryAccumulatorOp"}, name : Comparisons, in : {"m1"}, other : {"m3"}, out : {"n3"}]
    \cup [op : {"MaxMinValueInternal"}, in : {"v1"}, other : {"v3", "v4"}, max : Vector, min : {"v4"}]
    \cup [op : {"InRangeAndCoerce"}, in : {"v1"}, lo : {"v3", "v4"}, hi : {"v1", "v3"}, coerced : {"v2"}, out : {"n3"},
          includeLo : BOOLEAN, includeHi : BOOLEAN]
    \cup [op : {"Search1DArrayInternal"}, in : {"v1"}, element : {"e", "n1"}, index : {Unwired, -1, 1, 5}, out : {"n3"}]
    \cup [op : {"VectorOpInternal"}, name : {"AddElements", "MultiplyElements"}, in : {"v1", "w1", "m1"}, out : {"n3"}]
    \cup [op : {"VectorOpInternal"}, name : {"AndElements", "OrElements"}, in : {"d1", "d2"}, out : {"n3"}]
    \cup [op : {"ArrayConcatenateInternal"}, out : Vector, ins : {<< "v1", "e", "v3" >>, << "v3", "v1" >>, << >>}]
    \cup [op : {"ArrayConcatenateInternal"}, out : Matrix, ins : {<< "m1", "m3" >>, << "m3", "m1" >>, << "m1", "v3", "m4" >>}]
    \cup [op : {"ArrayConcatenateInternal"}, out : {"c2"}, ins : {<< "c1", "m3" >>, << "m3", "c1" >>}]
    \cup [op : {"CopyAndReset"}, in : {"n1"}, out : {"n3"}, new : {"s", "n3"}]
    \cup [op : {"Divide"}, x : {-7, -6, 0, 5, 6}, y : {-3, 0, 3, 9}]
    \cup [op : {"ConvertEnum"}, n : {0, 2, 3, 200}, kind : {"UInt"}, width : {8}, items : {3}]
    \cup [op : {"ConvertEnum"}, n : {-1, 0, 2, 100}, kind : {"Int", "Float"}, width : {8, 32}, items : {3}]
    \cup [op : {"MergeErrors"},
          inputs : {<< << Warning(0) >>, << Warning(1) >> >>, << << >>, << Warning(2), Error(3), Error(4) >> >>, << >>,
                    << << Error(5) >>, << Warning(1) >>, << Error(6) >> >>, << << Warning(3) >>, << Warning(1) >> >>}]

\* Every instruction on what is there at first, and a few on what they leave.
SecondCalls ==
  [op : {"ArrayInsertElt"}, in : {"b1"}, out : {"b1"}, index : {0}, new : {"e"}]
    \cup [op : {"ArrayAppendElt"}, out : {"v2", "b2"}, new : {"e"}]
    \cup [op : {"ArrayDeleteND"}, in : {"m2"}, out : {"m2"}, part : {"v3"}, length : {1}, index : {0}, dim : {1}]
    \cup [op : {"ArrayInsertSubsetND"}, in : {"m2"}, out : {"m1", "m2"}, index : {1}, dim : {1}, new : {"v3"}]
    \cup [op : {"ArrayResizeDimensions"}, out : {"v1", "m2"}, lens : {<< 4 >>}]

DataCalls == << MatrixCalls \cup VectorCalls \cup AnswerCalls \cup StringCalls \cup TextCalls \cup FormatCalls
  \cup ElementCalls \cup ClusterCalls \cup AggregateCalls, SecondCalls >>
=============================================================================
