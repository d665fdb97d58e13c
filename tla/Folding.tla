------------------------------- MODULE Folding -------------------------------
(***************************************************************************)
(* What is common to all folds over sequences: a fold goes through a list  *)
(* of intermediate results, one for each element.  Step is the operator    *)
(* that is folded; a module instantiates this one for each of its folds.   *)
(* It extends as little as possible, for an instance brings all of that    *)
(* with it: FoldLeft is written out, as it is in the library, and the      *)
(* induction over the natural numbers is a premise (SetInduction).         *)
(***************************************************************************)
EXTENDS Naturals

CONSTANT Step(_, _)

Greatest(T) == CHOOSE x \in T : \A y \in T : x >= y

\* FoldLeft(Step, base, seq).
Folded(base, seq) ==
  LET iter[T \in SUBSET DOMAIN seq] ==
        IF T = {} THEN base
        ELSE LET x == Greatest(T)
             IN  Step(iter[T \ {x}], seq[x])
  IN  iter[DOMAIN seq]

NaturalInduction == \A S : 0 \in S /\ (\A n \in Nat : n \in S => n + 1 \in S) => Nat \subseteq S

\* What the elements with the numbers in T give, the greatest number last.
Results(base, seq, n, f) ==
  f = [T \in SUBSET (1 .. n) |->
         IF T = {} THEN base ELSE Step(f[T \ {Greatest(T)}], seq[Greatest(T)])]

LEMMA GreatestOfInterval == \A n \in Nat : n > 0 => Greatest(1 .. n) = n /\ (1 .. n) \ {n} = 1 .. n - 1
<1> TAKE n \in Nat
<1> HAVE n > 0
<1>1. n \in 1 .. n /\ \A y \in 1 .. n : n >= y
  OBVIOUS
<1>2. \A x \in 1 .. n : (\A y \in 1 .. n : x >= y) => x = n
  OBVIOUS
<1>3. Greatest(1 .. n) = n
  BY <1>1, <1>2 DEF Greatest
<1> QED BY <1>3

\* The greatest element of a set of numbers that has the greatest possible one.
LEMMA GreatestIsGreatest ==
  ASSUME NEW n \in Nat, NEW T \in SUBSET (1 .. n), n \in T
  PROVE  Greatest(T) = n
<1>1. \A y \in T : n >= y
  OBVIOUS
<1>2. \A x \in T : (\A y \in T : x >= y) => x = n
  OBVIOUS
<1> QED BY <1>1, <1>2 DEF Greatest

LEMMA GreatestIsMember ==
  ASSUME NaturalInduction, NEW n \in Nat, NEW T \in SUBSET (1 .. n), T # {}
  PROVE  Greatest(T) \in T
<1>1. \E x \in T : \A y \in T : x >= y
  <2> DEFINE N == {m \in Nat : \A U \in SUBSET (1 .. m) : U # {} => \E x \in U : \A y \in U : x >= y}
  <2>1. 0 \in N
    <3>1. 1 .. 0 = {}
      OBVIOUS
    <3> QED BY <3>1
  <2>2. ASSUME NEW m \in Nat, m \in N PROVE m + 1 \in N
    <3> SUFFICES ASSUME NEW U \in SUBSET (1 .. m + 1), U # {}
                 PROVE  \E x \in U : \A y \in U : x >= y
      OBVIOUS
    <3>1. CASE m + 1 \in U
      BY <3>1
    <3>2. CASE m + 1 \notin U
      <4>1. U \in SUBSET (1 .. m)
        BY <3>2
      <4> QED BY <4>1, <2>2
    <3> QED BY <3>1, <3>2
  <2> HIDE DEF N
  <2>3. Nat \subseteq N
    BY <2>1, <2>2 DEF NaturalInduction
  <2> QED BY <2>3 DEF N
<1> QED BY <1>1 DEF Greatest

\* There is such a function, so that the fold is what its definition says.
LEMMA ResultsExist ==
  ASSUME NaturalInduction, NEW base, NEW seq
  PROVE  \A n \in Nat : \E f : Results(base, seq, n, f)
<1> DEFINE N == {n \in Nat : \E f : Results(base, seq, n, f)}
<1>1. 0 \in N
  <2> DEFINE f == [T \in {{}} |-> base]
  <2>1. SUBSET (1 .. 0) = {{}}
    OBVIOUS
  <2>2. Results(base, seq, 0, f)
    BY <2>1 DEF Results
  <2> QED BY <2>2
<1>2. ASSUME NEW n \in Nat, n \in N PROVE n + 1 \in N
  <2>1. PICK f : Results(base, seq, n, f)
    BY <1>2
  <2> DEFINE top == n + 1
             value(T) == IF top \in T THEN Step(f[T \ {top}], seq[top]) ELSE f[T]
             g == [T \in SUBSET (1 .. top) |-> value(T)]
  <2>2. ASSUME NEW T \in SUBSET (1 .. top)
        PROVE  g[T] = IF T = {} THEN base ELSE Step(g[T \ {Greatest(T)}], seq[Greatest(T)])
    <3>1. CASE top \in T
      <4>1. Greatest(T) = top
        BY <3>1, GreatestIsGreatest
      <4>2. T \ {top} \in SUBSET (1 .. n) /\ T \ {top} \in SUBSET (1 .. top)
        OBVIOUS
      <4>3. g[T \ {top}] = f[T \ {top}]
        BY <4>2
      <4>4. g[T] = Step(f[T \ {top}], seq[top])
        BY <3>1
      <4> HIDE DEF g
      <4> QED BY <3>1, <4>1, <4>3, <4>4
    <3>2. CASE top \notin T
      <4>1. T \in SUBSET (1 .. n)
        BY <3>2
      <4>2. g[T] = f[T]
        BY <3>2
      <4>3. f[T] = IF T = {} THEN base ELSE Step(f[T \ {Greatest(T)}], seq[Greatest(T)])
        BY <2>1, <4>1 DEF Results
      <4>4. T # {} => g[T \ {Greatest(T)}] = f[T \ {Greatest(T)}]
        <5> SUFFICES ASSUME T # {} PROVE g[T \ {Greatest(T)}] = f[T \ {Greatest(T)}]
          OBVIOUS
        <5> DEFINE U == T \ {Greatest(T)}
        <5>1. top \notin U /\ U \in SUBSET (1 .. top)
          BY <3>2
        <5>2. g[U] = f[U]
          <6> HIDE DEF U
          <6> QED BY <5>1
        <5> QED BY <5>2
      <4> HIDE DEF g
      <4> QED BY <4>2, <4>3, <4>4
    <3> QED BY <3>1, <3>2
  <2>3. DOMAIN g = SUBSET (1 .. top) /\ g = [T \in DOMAIN g |-> g[T]]
    OBVIOUS
  <2>4. Results(base, seq, top, g)
    <3> HIDE DEF g
    <3> QED BY <2>2, <2>3 DEF Results
  <2> HIDE DEF g
  <2> QED BY <2>4
<1> HIDE DEF N
<1>3. Nat \subseteq N
  BY <1>1, <1>2 DEF NaturalInduction
<1> QED BY <1>3 DEF N

\* f lists the intermediate results of a fold.
Stages(base, seq, n, f) ==
  /\ Folded(base, seq) = f[n]
  /\ f[0] = base
  /\ \A k \in 1 .. n : f[k] = Step(f[k - 1], seq[k])

LEMMA FoldSteps ==
  ASSUME NaturalInduction, NEW base, NEW seq, NEW n \in Nat, DOMAIN seq = 1 .. n
  PROVE  \E f : Stages(base, seq, n, f)
<1> DEFINE iter == CHOOSE h : h = [T \in SUBSET (1 .. n) |->
                     IF T = {} THEN base ELSE Step(h[T \ {Greatest(T)}], seq[Greatest(T)])]
           f == [k \in 0 .. n |-> iter[1 .. k]]
<1>1. \E h : h = [T \in SUBSET (1 .. n) |->
                    IF T = {} THEN base ELSE Step(h[T \ {Greatest(T)}], seq[Greatest(T)])]
  <2>1. PICK h : Results(base, seq, n, h)
    BY ResultsExist
  <2> QED BY <2>1 DEF Results
<1>2. iter = [T \in SUBSET (1 .. n) |->
                IF T = {} THEN base ELSE Step(iter[T \ {Greatest(T)}], seq[Greatest(T)])]
  BY <1>1
<1>3. Folded(base, seq) = iter[1 .. n]
  BY DEF Folded
<1> HIDE DEF iter
<1>4. f[0] = base
  <2>1. 1 .. 0 = {}
    OBVIOUS
  <2>2. iter[{}] = base
    BY <1>2
  <2> QED BY <2>1, <2>2
<1>5. ASSUME NEW k \in 1 .. n PROVE f[k] = Step(f[k - 1], seq[k])
  <2>1. 1 .. k # {} /\ 1 .. k \in SUBSET (1 .. n)
    OBVIOUS
  <2>2. iter[1 .. k] = Step(iter[(1 .. k) \ {Greatest(1 .. k)}], seq[Greatest(1 .. k)])
    BY <1>2, <2>1
  <2>3. Greatest(1 .. k) = k /\ (1 .. k) \ {k} = 1 .. k - 1
    BY GreatestOfInterval
  <2>4. f[k] = iter[1 .. k] /\ f[k - 1] = iter[1 .. k - 1]
    OBVIOUS
  <2> HIDE DEF f
  <2> QED BY <2>2, <2>3, <2>4
<1>6. f[n] = iter[1 .. n]
  OBVIOUS
<1> HIDE DEF f
<1> QED BY <1>3, <1>4, <1>5, <1>6 DEF Stages
=============================================================================
