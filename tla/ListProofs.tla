----------------------------- MODULE ListProofs -----------------------------
(***************************************************************************)
(* Lemmas about lists and sums, and the induction over the natural numbers *)
(* that what a recursive function computes is proved by.                   *)
(***************************************************************************)
EXTENDS Lists, Functions, FiniteSetTheorems, WellFoundedInduction, TLAPS

-----------------------------------------------------------------------------
(* Induction.                                                               *)

\* Induction over the natural numbers, for a set.
LEMMA SetInduction ==
  ASSUME NEW S, 0 \in S, \A n \in Nat : n \in S => n + 1 \in S
  PROVE  Nat \subseteq S
<1> DEFINE rest == Nat \ S
           less == {ss \in Nat \X Nat : ss[1] < ss[2]}
<1>1. IsWellFoundedOn(less, Nat)
  BY NatLessThanWellFounded DEF OpToRel
<1>2. SUFFICES ASSUME rest # {} PROVE FALSE
  OBVIOUS
<1>3. PICK m \in rest : \A k \in rest : ~ (<< k, m >> \in less)
  <2> rest \subseteq Nat
    OBVIOUS
  <2> HIDE DEF less, rest
  <2> QED BY <1>1, <1>2, WFMin
<1>4. m # 0 /\ m - 1 \in Nat
  OBVIOUS
<1>5. << m - 1, m >> \in less
  BY <1>4
<1>6. m - 1 \in S
  BY <1>3, <1>4, <1>5
<1> QED BY <1>3, <1>4, <1>6

-----------------------------------------------------------------------------
(* Sequences as lists of distinct elements.                                 *)

\* The empty list has no elements.
LEMMA EmptyElements == Elements(<< >>) = {} /\ IsInjective(<< >>)
BY DEF Elements, IsInjective

\* An element of a list is a member of the set the list ranges over.
LEMMA ElementsType ==
  ASSUME NEW S, NEW s \in Seq(S)
  PROVE  Elements(s) \subseteq S
BY DEF Elements

\* Appending adds the new element, and keeps a list of distinct elements so.
LEMMA AppendElements ==
  ASSUME NEW S, NEW s \in Seq(S), NEW x \in S
  PROVE  /\ Append(s, x) \in Seq(S)
         /\ Append(s, x) # << >>
         /\ Elements(Append(s, x)) = Elements(s) \cup {x}
         /\ IsInjective(s) /\ x \notin Elements(s) => IsInjective(Append(s, x))
<1>1. Append(s, x) \in Seq(S) /\ Append(s, x) # << >>
  <2>1. Append(s, x) \in Seq(S) /\ Len(Append(s, x)) = Len(s) + 1
    OBVIOUS
  <2>2. Len(<< >>) = 0 /\ Len(s) + 1 # 0
    OBVIOUS
  <2> QED BY <2>1, <2>2
<1>2. Elements(Append(s, x)) = Elements(s) \cup {x}
  BY DEF Elements
<1>3. IsInjective(s) /\ x \notin Elements(s) => IsInjective(Append(s, x))
  BY DEF Elements, IsInjective
<1> QED BY <1>1, <1>2, <1>3

\* Concatenation unites the elements.
LEMMA ConcatElements ==
  ASSUME NEW S, NEW s \in Seq(S), NEW t \in Seq(S)
  PROVE  /\ s \o t \in Seq(S)
         /\ Elements(s \o t) = Elements(s) \cup Elements(t)
         /\ IsInjective(s) /\ IsInjective(t) /\ Elements(s) \cap Elements(t) = {}
              => IsInjective(s \o t)
<1>1. s \o t \in Seq(S)
  OBVIOUS
<1>2. Elements(s \o t) = Elements(s) \cup Elements(t)
  <2>1. Elements(s \o t) \subseteq Elements(s) \cup Elements(t)
    BY DEF Elements
  <2>2. Elements(s) \subseteq Elements(s \o t)
    BY DEF Elements
  <2>3. Elements(t) \subseteq Elements(s \o t)
    <3> SUFFICES ASSUME NEW i \in 1 .. Len(t)
                 PROVE  t[i] \in Elements(s \o t)
      BY DEF Elements
    <3>1. (s \o t)[Len(s) + i] = t[i] /\ Len(s) + i \in 1 .. Len(s \o t)
      OBVIOUS
    <3> QED BY <3>1 DEF Elements
  <2> QED BY <2>1, <2>2, <2>3
<1>3. ASSUME IsInjective(s), IsInjective(t), Elements(s) \cap Elements(t) = {}
      PROVE  IsInjective(s \o t)
  <2> SUFFICES ASSUME NEW i \in 1 .. Len(s \o t), NEW k \in 1 .. Len(s \o t),
                      (s \o t)[i] = (s \o t)[k]
               PROVE  i = k
    BY DEF IsInjective
  <2>1. CASE i <= Len(s) /\ k <= Len(s)
    BY <1>3, <2>1 DEF IsInjective
  <2>2. CASE i > Len(s) /\ k > Len(s)
    <3>1. /\ i - Len(s) \in 1 .. Len(t) /\ k - Len(s) \in 1 .. Len(t)
          /\ t[i - Len(s)] = t[k - Len(s)]
      BY <2>2
    <3> QED BY <3>1, <1>3, <2>2 DEF IsInjective
  <2>3. CASE i <= Len(s) /\ k > Len(s)
    <3>1. s[i] \in Elements(s) /\ t[k - Len(s)] \in Elements(t) /\ s[i] = t[k - Len(s)]
      BY <2>3 DEF Elements
    <3> QED BY <3>1, <1>3
  <2>4. CASE i > Len(s) /\ k <= Len(s)
    <3>1. s[k] \in Elements(s) /\ t[i - Len(s)] \in Elements(t) /\ s[k] = t[i - Len(s)]
      BY <2>4 DEF Elements
    <3> QED BY <3>1, <1>3
  <2> QED BY <2>1, <2>2, <2>3, <2>4
<1> QED BY <1>1, <1>2, <1>3

\* Taking the head off a list of distinct elements removes exactly that one.
LEMMA HeadTailElements ==
  ASSUME NEW S, NEW s \in Seq(S), s # << >>
  PROVE  /\ Head(s) \in S /\ Tail(s) \in Seq(S)
         /\ Elements(s) = {Head(s)} \cup Elements(Tail(s))
         /\ IsInjective(s) => Head(s) \notin Elements(Tail(s)) /\ IsInjective(Tail(s))
<1>1. Head(s) \in S /\ Tail(s) \in Seq(S) /\ Len(s) >= 1
  OBVIOUS
<1>2. /\ Len(Tail(s)) = Len(s) - 1
      /\ \A i \in 1 .. Len(s) - 1 : Tail(s)[i] = s[i + 1]
      /\ Head(s) = s[1]
  OBVIOUS
<1>3. Elements(s) = {Head(s)} \cup Elements(Tail(s))
  <2>1. \A i \in 1 .. Len(s) : i = 1 \/ (i - 1 \in 1 .. Len(Tail(s)) /\ Tail(s)[i - 1] = s[i])
    BY <1>1, <1>2
  <2>2. \A i \in 1 .. Len(Tail(s)) : i + 1 \in 1 .. Len(s) /\ Tail(s)[i] = s[i + 1]
    BY <1>1, <1>2
  <2>3. 1 \in 1 .. Len(s)
    BY <1>1
  <2> QED BY <2>1, <2>2, <2>3, <1>2, SMTT(20) DEF Elements
<1>4. IsInjective(s) => Head(s) \notin Elements(Tail(s)) /\ IsInjective(Tail(s))
  BY <1>1, <1>2 DEF Elements, IsInjective
<1> QED BY <1>1, <1>3, <1>4

-----------------------------------------------------------------------------
(* Taking members off a list.                                               *)

\* chosen[k] is what has been chosen of the first k members.
ChosenUpTo(s, S, n, chosen) ==
  chosen = [k \in 0 .. n |->
              IF k = 0 THEN << >>
              ELSE IF s[k] \in S THEN Append(chosen[k - 1], s[k]) ELSE chosen[k - 1]]

LEMMA ChosenUpToExists ==
  ASSUME NEW s, NEW S
  PROVE  \A n \in Nat : \E chosen : ChosenUpTo(s, S, n, chosen)
<1> DEFINE N == {n \in Nat : \E chosen : ChosenUpTo(s, S, n, chosen)}
<1>1. 0 \in N
  <2>1. ChosenUpTo(s, S, 0, [k \in 0 .. 0 |-> << >>])
    BY DEF ChosenUpTo
  <2> QED BY <2>1
<1>2. ASSUME NEW n \in Nat, n \in N
      PROVE  n + 1 \in N
  <2>1. PICK chosen : ChosenUpTo(s, S, n, chosen)
    BY <1>2
  <2> DEFINE next == IF s[n + 1] \in S THEN Append(chosen[n], s[n + 1]) ELSE chosen[n]
             longer == [k \in 0 .. n + 1 |-> IF k = n + 1 THEN next ELSE chosen[k]]
  <2>2. \A k \in 0 .. n : longer[k] = chosen[k]
    OBVIOUS
  <2>3. longer[n + 1] = IF s[n + 1] \in S THEN Append(longer[n], s[n + 1]) ELSE longer[n]
    BY <2>2
  <2>4. ASSUME NEW k \in 1 .. n
        PROVE  chosen[k] = IF s[k] \in S THEN Append(chosen[k - 1], s[k]) ELSE chosen[k - 1]
    <3>1. k \in 0 .. n /\ k # 0
      OBVIOUS
    <3> QED BY <2>1, <3>1, Zenon DEF ChosenUpTo
  <2>5. chosen[0] = << >>
    BY <2>1 DEF ChosenUpTo
  <2>6. longer = [k \in 0 .. n + 1 |-> longer[k]]
    OBVIOUS
  <2> HIDE DEF longer, next
  <2>7. ASSUME NEW k \in 0 .. n + 1
        PROVE  longer[k] = IF k = 0 THEN << >>
                           ELSE IF s[k] \in S THEN Append(longer[k - 1], s[k])
                                ELSE longer[k - 1]
    <3>1. CASE k = 0
      BY <2>2, <2>5, <3>1
    <3>2. CASE k \in 1 .. n
      <4>1. k - 1 \in 0 .. n /\ k \in 0 .. n /\ k # 0
        BY <3>2
      <4> QED BY <2>2, <2>4, <3>2, <4>1
    <3>3. CASE k = n + 1
      <4>1. k # 0 /\ k - 1 = n
        BY <3>3
      <4> QED BY <2>3, <3>3, <4>1
    <3> QED BY <3>1, <3>2, <3>3
  <2>8. ChosenUpTo(s, S, n + 1, longer)
    BY <2>6, <2>7 DEF ChosenUpTo
  <2> QED BY <2>8
<1> HIDE DEF N
<1>3. Nat \subseteq N
  BY <1>1, <1>2, SetInduction
<1> QED BY <1>3 DEF N

\* What is chosen of a list, member by member.
LEMMA ChosenSteps ==
  ASSUME NEW T, NEW s \in Seq(T), NEW S
  PROVE  \E chosen :
           /\ Chosen(s, S) = chosen[Len(s)] /\ chosen[0] = << >>
           /\ \A k \in 1 .. Len(s) :
                chosen[k] = IF s[k] \in S THEN Append(chosen[k - 1], s[k]) ELSE chosen[k - 1]
<1> DEFINE len == Len(s)
           chosen == CHOOSE f : f = [k \in 0 .. len |->
                       IF k = 0 THEN << >>
                       ELSE IF s[k] \in S THEN Append(f[k - 1], s[k]) ELSE f[k - 1]]
<1>1. len \in Nat
  OBVIOUS
<1>2. Chosen(s, S) = chosen[len]
  BY DEF Chosen
<1> HIDE DEF len
<1>3. \E f : f = [k \in 0 .. len |->
                    IF k = 0 THEN << >>
                    ELSE IF s[k] \in S THEN Append(f[k - 1], s[k]) ELSE f[k - 1]]
  <2>1. PICK f : ChosenUpTo(s, S, len, f)
    BY <1>1, ChosenUpToExists
  <2>2. f = [k \in 0 .. len |->
                    IF k = 0 THEN << >>
                    ELSE IF s[k] \in S THEN Append(f[k - 1], s[k]) ELSE f[k - 1]]
    BY <2>1 DEF ChosenUpTo
  <2> QED BY <2>2, Zenon
<1>4. chosen = [k \in 0 .. len |->
                  IF k = 0 THEN << >>
                  ELSE IF s[k] \in S THEN Append(chosen[k - 1], s[k]) ELSE chosen[k - 1]]
  BY <1>3
<1> HIDE DEF chosen
<1>5. chosen[0] = << >>
  <2>1. 0 \in 0 .. len
    BY <1>1
  <2> QED BY <1>4, <2>1, Zenon
<1>6. ASSUME NEW k \in 1 .. len
      PROVE  chosen[k] = IF s[k] \in S THEN Append(chosen[k - 1], s[k]) ELSE chosen[k - 1]
  <2>1. k \in 0 .. len /\ k # 0
    BY <1>1
  <2> QED BY <1>4, <2>1, Zenon
<1> QED BY <1>2, <1>5, <1>6 DEF len

\* The members of s have different keys.
Distinct(s, key) == \A i, j \in 1 .. Len(s) : key[s[i]] = key[s[j]] => i = j

\* What is chosen of a list is on it, and nothing is chosen twice.
LEMMA ChosenElements ==
  ASSUME NEW T, NEW s \in Seq(T), NEW S, NEW key
  PROVE  /\ Chosen(s, S) \in Seq(T)
         /\ Elements(Chosen(s, S)) = Elements(s) \cap S
         /\ Distinct(s, key) => Distinct(Chosen(s, S), key)
<1> DEFINE len == Len(s)
<1>1. len \in Nat
  OBVIOUS
<1>2. PICK chosen :
        /\ Chosen(s, S) = chosen[len] /\ chosen[0] = << >>
        /\ \A k \in 1 .. len :
             chosen[k] = IF s[k] \in S THEN Append(chosen[k - 1], s[k]) ELSE chosen[k - 1]
  BY ChosenSteps
<1> HIDE DEF len
<1> DEFINE Good(k) == /\ chosen[k] \in Seq(T)
                      /\ Elements(chosen[k]) = {s[i] : i \in 1 .. k} \cap S
                      /\ Distinct(s, key) => Distinct(chosen[k], key)
           N == {k \in Nat : k <= len => Good(k)}
<1>5. 0 \in N
  <2>1. chosen[0] = << >>
    BY <1>2
  <2>2. Elements(<< >>) = {} /\ Distinct(<< >>, key) /\ {s[i] : i \in 1 .. 0} = {}
    BY DEF Elements, Distinct
  <2>3. << >> \in Seq(T)
    OBVIOUS
  <2>4. Good(0)
    BY <2>1, <2>2, <2>3
  <2> QED BY <2>4
<1>6. ASSUME NEW k \in Nat, k \in N
      PROVE  k + 1 \in N
  <2>1. SUFFICES ASSUME k + 1 <= len PROVE Good(k + 1)
    OBVIOUS
  <2> DEFINE r == chosen[k]
             x == s[k + 1]
  <2>2. chosen[k + 1] = IF x \in S THEN Append(r, x) ELSE r
    <3>1. k + 1 \in 1 .. len /\ (k + 1) - 1 = k
      BY <1>1, <2>1
    <3> QED BY <1>2, <3>1
  <2>3. Good(k) /\ x \in T
    BY <1>1, <1>6, <2>1 DEF len
  <2>4. {s[i] : i \in 1 .. k + 1} = {s[i] : i \in 1 .. k} \cup {x}
    <3>1. 1 .. k + 1 = (1 .. k) \cup {k + 1}
      OBVIOUS
    <3> QED BY <3>1
  <2> HIDE DEF r, x
  <2>5. r \in Seq(T) /\ Elements(r) = {s[i] : i \in 1 .. k} \cap S
        /\ (Distinct(s, key) => Distinct(r, key))
    BY <2>3 DEF r
  <2>6. CASE x \notin S
    BY <2>2, <2>4, <2>5, <2>6
  <2>7. CASE x \in S
    <3>1. /\ Append(r, x) \in Seq(T)
          /\ Elements(Append(r, x)) = Elements(r) \cup {x}
      BY <2>3, <2>5, AppendElements
    <3>2. ASSUME Distinct(s, key) PROVE Distinct(Append(r, x), key)
      <4>1. \A i \in 1 .. k : key[s[i]] # key[x]
        BY <1>1, <2>1, <3>2 DEF Distinct, x, len
      <4>2. \A i \in 1 .. Len(r) : r[i] \in Elements(r)
        BY DEF Elements
      <4>3. \A i \in 1 .. Len(r) : key[r[i]] # key[x]
        BY <2>5, <4>1, <4>2
      <4>4. /\ Len(Append(r, x)) = Len(r) + 1 /\ Len(r) \in Nat
            /\ \A i \in 1 .. Len(r) : Append(r, x)[i] = r[i]
            /\ Append(r, x)[Len(r) + 1] = x
        BY <2>3, <2>5
      <4>5. Distinct(r, key)
        BY <2>5, <3>2
      <4> QED BY <4>3, <4>4, <4>5 DEF Distinct
    <3> QED BY <2>2, <2>4, <2>5, <2>7, <3>1, <3>2
  <2> QED BY <2>6, <2>7
<1> HIDE DEF N
<1>7. len \in N
  BY <1>1, <1>5, <1>6, SetInduction
<1>8. Good(len)
  BY <1>1, <1>7 DEF N
<1> QED BY <1>2, <1>8 DEF len, Elements

\* What is chosen of a list is in the same order.
LEMMA ChosenOrdered ==
  ASSUME NEW T, NEW s \in Seq(T), NEW S, NEW R, \A i, j \in 1 .. Len(s) : i < j => << s[i], s[j] >> \in R
  PROVE  \A i, j \in 1 .. Len(Chosen(s, S)) : i < j => << Chosen(s, S)[i], Chosen(s, S)[j] >> \in R
<1> DEFINE len == Len(s)
           Ordered(r) == \A i, j \in 1 .. Len(r) : i < j => << r[i], r[j] >> \in R
<1>1. len \in Nat
  OBVIOUS
<1>2. PICK chosen :
        /\ Chosen(s, S) = chosen[len] /\ chosen[0] = << >>
        /\ \A k \in 1 .. len :
             chosen[k] = IF s[k] \in S THEN Append(chosen[k - 1], s[k]) ELSE chosen[k - 1]
  BY ChosenSteps
<1>3. \A k \in 1 .. len : s[k] \in T
  OBVIOUS
<1>4. \A i, j \in 1 .. len : i < j => << s[i], s[j] >> \in R
  OBVIOUS
<1> HIDE DEF len
<1> DEFINE Good(k) == /\ chosen[k] \in Seq(T)
                      /\ \A i \in 1 .. Len(chosen[k]) : chosen[k][i] \in {s[j] : j \in 1 .. k}
                      /\ Ordered(chosen[k])
           N == {k \in Nat : k <= len => Good(k)}
<1>5. 0 \in N
  <2>1. chosen[0] = << >> /\ Len(<< >>) = 0 /\ << >> \in Seq(T)
    BY <1>2
  <2>2. Good(0)
    BY <2>1
  <2> QED BY <2>2
<1>6. ASSUME NEW k \in Nat, k \in N
      PROVE  k + 1 \in N
  <2>1. SUFFICES ASSUME k + 1 <= len PROVE Good(k + 1)
    OBVIOUS
  <2> DEFINE r == chosen[k]
             x == s[k + 1]
  <2>2. chosen[k + 1] = IF x \in S THEN Append(r, x) ELSE r
    <3>1. k + 1 \in 1 .. len /\ (k + 1) - 1 = k
      BY <1>1, <2>1
    <3> QED BY <1>2, <3>1
  <2>3. Good(k) /\ x \in T
    BY <1>1, <1>3, <1>6, <2>1
  <2>4. \A y \in {s[j] : j \in 1 .. k} : << y, x >> \in R
    <3>1. \A j \in 1 .. k : j \in 1 .. len /\ k + 1 \in 1 .. len /\ j < k + 1
      BY <1>1, <2>1
    <3> QED BY <1>4, <3>1
  <2>5. {s[j] : j \in 1 .. k} \cup {x} = {s[j] : j \in 1 .. k + 1}
    <3>1. 1 .. k + 1 = (1 .. k) \cup {k + 1}
      OBVIOUS
    <3> QED BY <3>1
  <2> HIDE DEF x
  <2>6. CASE x \notin S
    BY <2>2, <2>3, <2>5, <2>6
  <2>7. CASE x \in S
    <3>1. r \in Seq(T) /\ Ordered(r) /\ \A i \in 1 .. Len(r) : r[i] \in {s[j] : j \in 1 .. k}
      BY <2>3
    <3> DEFINE J == {s[j] : j \in 1 .. k}
               longer == Append(r, x)
    <3> HIDE DEF r, J
    <3>2. /\ longer \in Seq(T) /\ Len(longer) = Len(r) + 1 /\ Len(r) \in Nat
          /\ \A i \in 1 .. Len(r) : longer[i] = r[i]
          /\ longer[Len(r) + 1] = x
      BY <2>3, <3>1
    <3> HIDE DEF longer
    <3>3. \A i \in 1 .. Len(longer) : longer[i] \in J \cup {x}
      BY <3>1, <3>2 DEF J
    <3>4. Ordered(longer)
      <4> SUFFICES ASSUME NEW i \in 1 .. Len(longer), NEW j \in 1 .. Len(longer), i < j
                   PROVE  << longer[i], longer[j] >> \in R
        OBVIOUS
      <4>1. i \in 1 .. Len(r) /\ (j \in 1 .. Len(r) \/ j = Len(r) + 1)
        BY <3>2
      <4>2. CASE j \in 1 .. Len(r)
        BY <3>1, <3>2, <4>1, <4>2
      <4>3. CASE j = Len(r) + 1
        BY <2>4, <3>1, <3>2, <4>1, <4>3
      <4> QED BY <4>1, <4>2, <4>3
    <3>5. chosen[k + 1] = longer
      BY <2>2, <2>7 DEF longer
    <3> QED BY <2>5, <3>2, <3>3, <3>4, <3>5 DEF J
  <2> QED BY <2>6, <2>7
<1> HIDE DEF N
<1>7. len \in N
  BY <1>1, <1>5, <1>6, SetInduction
<1>8. Good(len)
  BY <1>1, <1>7 DEF N
<1> QED BY <1>2, <1>8

\* Where as many are chosen as there are, everybody is.
LEMMA ChosenAll ==
  ASSUME NEW T, NEW s \in Seq(T), NEW S, Len(Chosen(s, S)) = Len(s)
  PROVE  Chosen(s, S) = s
<1> DEFINE len == Len(s)
<1>1. len \in Nat
  OBVIOUS
<1>2. PICK chosen :
        /\ Chosen(s, S) = chosen[len] /\ chosen[0] = << >>
        /\ \A k \in 1 .. len :
             chosen[k] = IF s[k] \in S THEN Append(chosen[k - 1], s[k]) ELSE chosen[k - 1]
  BY ChosenSteps
<1>3. \A k \in 1 .. len : s[k] \in T
  OBVIOUS
<1> HIDE DEF len
<1> DEFINE Good(k) == /\ chosen[k] \in Seq(T) /\ Len(chosen[k]) <= k
                      /\ Len(chosen[k]) = k => \A i \in 1 .. k : chosen[k][i] = s[i]
           N == {k \in Nat : k <= len => Good(k)}
<1>4. 0 \in N
  <2>1. chosen[0] = << >> /\ Len(<< >>) = 0 /\ << >> \in Seq(T)
    BY <1>2
  <2>2. Good(0)
    BY <2>1
  <2> QED BY <2>2
<1>5. ASSUME NEW k \in Nat, k \in N
      PROVE  k + 1 \in N
  <2>1. SUFFICES ASSUME k + 1 <= len PROVE Good(k + 1)
    OBVIOUS
  <2> DEFINE r == chosen[k]
             x == s[k + 1]
             longer == Append(r, x)
  <2>2. chosen[k + 1] = IF x \in S THEN longer ELSE r
    <3>1. k + 1 \in 1 .. len /\ (k + 1) - 1 = k
      BY <1>1, <2>1
    <3> QED BY <1>2, <3>1
  <2>3. Good(k) /\ x \in T
    BY <1>1, <1>3, <1>5, <2>1
  <2>4. /\ longer \in Seq(T) /\ Len(longer) = Len(r) + 1 /\ Len(r) \in Nat
        /\ \A i \in 1 .. Len(r) : longer[i] = r[i]
        /\ longer[Len(r) + 1] = x
    <3> HIDE DEF x
    <3> QED BY <2>3
  <2> HIDE DEF longer
  <2>5. CASE x \notin S
    BY <2>2, <2>3, <2>4, <2>5
  <2>6. CASE x \in S
    <3>1. chosen[k + 1] = longer
      BY <2>2, <2>6
    <3>2. Len(longer) <= k + 1
      BY <2>3, <2>4
    <3>3. ASSUME Len(longer) = k + 1 PROVE \A i \in 1 .. k + 1 : longer[i] = s[i]
      BY <2>3, <2>4, <3>3
    <3> QED BY <2>4, <3>1, <3>2, <3>3
  <2> QED BY <2>5, <2>6
<1> HIDE DEF N
<1>6. len \in N
  BY <1>1, <1>4, <1>5, SetInduction
<1>7. Good(len)
  BY <1>1, <1>6 DEF N
<1> DEFINE c == chosen[len]
<1>8. c \in Seq(T) /\ Len(c) = Len(s) /\ \A i \in 1 .. Len(s) : c[i] = s[i]
  BY <1>2, <1>7 DEF len
<1>9. c = s
  <2> HIDE DEF c
  <2> QED BY <1>8
<1> QED BY <1>2, <1>9

\* How far the members of A go at the front of 1 .. len.
LEMMA FrontExists ==
  ASSUME NEW len \in Nat, NEW A
  PROVE  \E n \in 0 .. len : (1 .. n) \subseteq A /\ (n < len => n + 1 \notin A)
<1> SUFFICES ASSUME \A n \in 0 .. len : (1 .. n) \subseteq A => n < len /\ n + 1 \in A
             PROVE  FALSE
  OBVIOUS
<1> DEFINE N == {n \in Nat : n <= len => (1 .. n) \subseteq A}
<1>1. 0 \in N
  OBVIOUS
<1>2. ASSUME NEW n \in Nat, n \in N
      PROVE  n + 1 \in N
  <2>1. SUFFICES ASSUME n + 1 <= len PROVE (1 .. n + 1) \subseteq A
    OBVIOUS
  <2>2. n \in 0 .. len /\ (1 .. n) \subseteq A
    BY <1>2, <2>1
  <2>3. n + 1 \in A
    BY <2>2
  <2> QED BY <2>2, <2>3
<1> HIDE DEF N
<1>3. len \in N
  BY <1>1, <1>2, SetInduction
<1>4. (1 .. len) \subseteq A /\ len \in 0 .. len
  BY <1>3 DEF N
<1> QED BY <1>4

-----------------------------------------------------------------------------
(* Finite sets and sums.                                                    *)

\* Induction over a finite set, for a set of sets.
LEMMA FiniteInduction ==
  ASSUME NEW S, IsFiniteSet(S), NEW G, {} \in G,
         \A T \in SUBSET S : T # {} /\ (\A x \in T : T \ {x} \in G) => T \in G
  PROVE  S \in G
<1> DEFINE N == {n \in Nat : \A T \in SUBSET S : Cardinality(T) = n => T \in G}
<1>1. \A T \in SUBSET S : IsFiniteSet(T) /\ Cardinality(T) \in Nat
  BY FS_Subset, FS_CardinalityType
<1>2. 0 \in N
  BY <1>1, FS_EmptySet
<1>3. ASSUME NEW n \in Nat, n \in N PROVE n + 1 \in N
  <2> SUFFICES ASSUME NEW T \in SUBSET S, Cardinality(T) = n + 1 PROVE T \in G
    OBVIOUS
  <2>1. T # {}
    <3>1. Cardinality({}) = 0
      BY FS_EmptySet
    <3> QED BY <3>1
  <2>2. ASSUME NEW x \in T PROVE T \ {x} \in G
    <3>1. Cardinality(T \ {x}) = n /\ T \ {x} \in SUBSET S
      BY <1>1, FS_RemoveElement
    <3> QED BY <1>3, <3>1
  <2> QED BY <2>1, <2>2
<1> HIDE DEF N
<1>4. Nat \subseteq N
  BY <1>2, <1>3, SetInduction
<1> QED BY <1>1, <1>4 DEF N

\* A nonempty set of natural numbers has a least element.
LEMMA LeastExists ==
  ASSUME NEW S \in SUBSET Nat, S # {}
  PROVE  \E x \in S : \A y \in S : x <= y
<1> SUFFICES ASSUME \A x \in S : \E y \in S : y < x PROVE FALSE
  OBVIOUS
<1> DEFINE N == {n \in Nat : \A x \in S : n < x}
<1>1. 0 \in N
  OBVIOUS
<1>2. ASSUME NEW n \in Nat, n \in N PROVE n + 1 \in N
  BY <1>2
<1> HIDE DEF N
<1>3. Nat \subseteq N
  BY <1>1, <1>2, SetInduction
<1>4. PICK x \in S : TRUE
  OBVIOUS
<1>5. x \in N
  BY <1>3
<1> QED BY <1>4, <1>5 DEF N

\* Some member of a set.
Some(T) == CHOOSE x \in T : TRUE

\* What the sums of f over the members of D are.
IsSums(f, D, h) == h = [T \in D |-> IF T = {} THEN 0 ELSE f[Some(T)] + h[T \ {Some(T)}]]

LEMMA SumsExist ==
  ASSUME NEW f, NEW S, IsFiniteSet(S)
  PROVE  \E h : IsSums(f, SUBSET S, h)
<1> DEFINE D(n) == {T \in SUBSET S : Cardinality(T) <= n}
           N == {n \in Nat : \E h : IsSums(f, D(n), h)}
<1>1. \A T \in SUBSET S : IsFiniteSet(T) /\ Cardinality(T) \in Nat /\ Cardinality(T) <= Cardinality(S)
  BY FS_Subset, FS_CardinalityType
<1>2. 0 \in N
  <2> DEFINE h == [T \in {{}} |-> 0]
  <2>1. D(0) = {{}}
    BY <1>1, FS_EmptySet
  <2> HIDE DEF D
  <2>2. IsSums(f, D(0), h)
    BY <2>1 DEF IsSums
  <2> HIDE DEF h
  <2> QED BY <2>2
<1>3. ASSUME NEW n \in Nat, n \in N PROVE n + 1 \in N
  <2>1. PICK h : IsSums(f, D(n), h)
    BY <1>3
  <2> DEFINE value(T) == IF T = {} THEN 0 ELSE f[Some(T)] + h[T \ {Some(T)}]
             g == [T \in D(n + 1) |-> value(T)]
  <2>2. \A T \in D(n) : T \in D(n + 1) /\ h[T] = value(T)
    <3>1. \A T \in D(n) : h[T] = value(T)
      <4> HIDE DEF D
      <4> QED BY <2>1 DEF IsSums
    <3> QED BY <1>1, <3>1
  <2>3. \A T \in D(n) : g[T] = h[T]
    <3> HIDE DEF D
    <3> QED BY <2>2
  <2>4. \A T \in D(n + 1) : T # {} => T \ {Some(T)} \in D(n)
    <3> TAKE T \in D(n + 1)
    <3> HAVE T # {}
    <3>1. Some(T) \in T
      BY DEF Some
    <3>2. Cardinality(T \ {Some(T)}) = Cardinality(T) - 1
      BY <1>1, <3>1, FS_RemoveElement
    <3> QED BY <1>1, <3>2
  <2>5. \A T \in D(n + 1) : g[T] = IF T = {} THEN 0 ELSE f[Some(T)] + g[T \ {Some(T)}]
    <3> HIDE DEF D, g
    <3>1. \A T \in D(n + 1) : g[T] = value(T)
      BY DEF g
    <3> QED BY <2>3, <2>4, <3>1
  <2>6. IsSums(f, D(n + 1), g)
    <3>1. g = [T \in D(n + 1) |-> g[T]]
      OBVIOUS
    <3> HIDE DEF D, g
    <3> QED BY <2>5, <3>1 DEF IsSums
  <2> HIDE DEF g, D
  <2> QED BY <2>6
<1>4. Nat \subseteq N
  <2> HIDE DEF N
  <2> QED BY <1>2, <1>3, SetInduction
<1>5. D(Cardinality(S)) = SUBSET S
  BY <1>1
<1>6. Cardinality(S) \in N
  <2> HIDE DEF N
  <2> QED BY <1>4, FS_CardinalityType
<1> HIDE DEF D
<1> QED BY <1>5, <1>6

\* A sum is the value of some member and the sum over the others.
LEMMA SumOfSome ==
  ASSUME NEW f, NEW S, IsFiniteSet(S)
  PROVE  /\ SumFunctionOnSet(f, {}) = 0
         /\ \A T \in SUBSET S : T # {} =>
              SumFunctionOnSet(f, T) = f[Some(T)] + SumFunctionOnSet(f, T \ {Some(T)})
<1>1. ASSUME NEW T \in SUBSET S
      PROVE  \E h : IsSums(f, SUBSET T, h) /\ SumFunctionOnSet(f, T) = h[T]
  <2> DEFINE h == CHOOSE h : h = [U \in SUBSET T |->
                    IF U = {} THEN 0 ELSE f[CHOOSE x \in U : TRUE] + h[U \ {CHOOSE x \in U : TRUE}]]
  <2>1. SumFunctionOnSet(f, T) = h[T]
    BY DEF SumFunctionOnSet, FoldFunctionOnSet, MapThenFoldSet
  <2>2. PICK g : IsSums(f, SUBSET T, g)
    BY SumsExist, FS_Subset
  <2>3. g = [U \in SUBSET T |->
               IF U = {} THEN 0 ELSE f[CHOOSE x \in U : TRUE] + g[U \ {CHOOSE x \in U : TRUE}]]
    BY <2>2 DEF IsSums, Some
  <2>4. h = [U \in SUBSET T |->
               IF U = {} THEN 0 ELSE f[CHOOSE x \in U : TRUE] + h[U \ {CHOOSE x \in U : TRUE}]]
    BY <2>3
  <2>5. IsSums(f, SUBSET T, h)
    <3> HIDE DEF h
    <3> QED BY <2>4 DEF IsSums, Some
  <2> HIDE DEF h
  <2> QED BY <2>1, <2>5
<1>2. PICK all : IsSums(f, SUBSET S, all)
  BY SumsExist
<1>3. \A T \in SUBSET S : all[T] = IF T = {} THEN 0 ELSE f[Some(T)] + all[T \ {Some(T)}]
  BY <1>2 DEF IsSums
<1>4. ASSUME NEW T \in SUBSET S PROVE SumFunctionOnSet(f, T) = all[T]
  <2>1. PICK h : IsSums(f, SUBSET T, h) /\ SumFunctionOnSet(f, T) = h[T]
    BY <1>1
  <2>2. \A U \in SUBSET T : h[U] = IF U = {} THEN 0 ELSE f[Some(U)] + h[U \ {Some(U)}]
    BY <2>1 DEF IsSums
  <2> DEFINE G == {U \in SUBSET T : h[U] = all[U]}
  <2>3. {} \in G
    BY <1>3, <2>2
  <2>4. ASSUME NEW U \in SUBSET T, U # {}, \A x \in U : U \ {x} \in G PROVE U \in G
    <3>1. Some(U) \in U
      BY <2>4 DEF Some
    <3>2. h[U \ {Some(U)}] = all[U \ {Some(U)}]
      BY <2>4, <3>1
    <3>3. U \in SUBSET S
      OBVIOUS
    <3> QED BY <1>3, <2>2, <2>4, <3>2, <3>3
  <2> HIDE DEF G
  <2>5. T \in G
    BY <2>3, <2>4, FiniteInduction, FS_Subset
  <2> QED BY <2>1, <2>5 DEF G
<1>6. ASSUME NEW T \in SUBSET S, T # {}
      PROVE  SumFunctionOnSet(f, T) = f[Some(T)] + SumFunctionOnSet(f, T \ {Some(T)})
  <2>1. T \ {Some(T)} \in SUBSET S
    OBVIOUS
  <2>2. SumFunctionOnSet(f, T \ {Some(T)}) = all[T \ {Some(T)}]
    BY <1>4, <2>1
  <2> QED BY <1>3, <1>4, <1>6, <2>2
<1>7. SumFunctionOnSet(f, {}) = 0
  <2>1. {} \in SUBSET S
    OBVIOUS
  <2> QED BY <1>3, <1>4, <2>1
<1> QED BY <1>6, <1>7

\* A sum of natural numbers is one.
LEMMA SumIsNat ==
  ASSUME NEW f, NEW S, IsFiniteSet(S), \A x \in S : f[x] \in Nat
  PROVE  SumFunctionOnSet(f, S) \in Nat
<1> DEFINE G == {T \in SUBSET S : SumFunctionOnSet(f, T) \in Nat}
<1>1. {} \in G
  <2>1. SumFunctionOnSet(f, {}) = 0
    BY SumOfSome
  <2> QED BY <2>1
<1>2. ASSUME NEW T \in SUBSET S, T # {}, \A x \in T : T \ {x} \in G PROVE T \in G
  <2>1. Some(T) \in T
    BY <1>2 DEF Some
  <2>2. SumFunctionOnSet(f, T) = f[Some(T)] + SumFunctionOnSet(f, T \ {Some(T)})
    BY <1>2, SumOfSome
  <2> QED BY <1>2, <2>1, <2>2
<1> HIDE DEF G
<1>3. S \in G
  BY <1>1, <1>2, FiniteInduction
<1> QED BY <1>3 DEF G

\* A sum of zeros.
LEMMA SumOfZeros ==
  ASSUME NEW f, NEW S, IsFiniteSet(S), \A x \in S : f[x] = 0
  PROVE  SumFunctionOnSet(f, S) = 0
<1> DEFINE G == {T \in SUBSET S : SumFunctionOnSet(f, T) = 0}
<1>1. {} \in G
  <2>1. SumFunctionOnSet(f, {}) = 0
    BY SumOfSome
  <2> QED BY <2>1
<1>2. ASSUME NEW T \in SUBSET S, T # {}, \A x \in T : T \ {x} \in G PROVE T \in G
  <2>1. Some(T) \in T
    BY <1>2 DEF Some
  <2>2. SumFunctionOnSet(f, T) = f[Some(T)] + SumFunctionOnSet(f, T \ {Some(T)})
    BY <1>2, SumOfSome
  <2> QED BY <1>2, <2>1, <2>2
<1> HIDE DEF G
<1>3. S \in G
  BY <1>1, <1>2, FiniteInduction
<1> QED BY <1>3 DEF G

\* A sum of natural numbers is the value of any member and the sum over the others.
LEMMA SumOfMember ==
  ASSUME NEW f, NEW S, IsFiniteSet(S), \A x \in S : f[x] \in Nat
  PROVE  /\ SumFunctionOnSet(f, S) \in Nat
         /\ \A x \in S : /\ SumFunctionOnSet(f, S \ {x}) \in Nat
                       /\ SumFunctionOnSet(f, S) = f[x] + SumFunctionOnSet(f, S \ {x})
<1> DEFINE sum(T) == SumFunctionOnSet(f, T)
           Splits(T) == sum(T) \in Nat /\ \A x \in T : sum(T) = f[x] + sum(T \ {x})
           G == {T \in SUBSET S : Splits(T)}
<1> HIDE DEF sum
<1>1. sum({}) = 0 /\ \A T \in SUBSET S : T # {} => sum(T) = f[Some(T)] + sum(T \ {Some(T)})
  BY SumOfSome DEF sum
<1>2. {} \in G
  BY <1>1
<1>3. ASSUME NEW T \in SUBSET S, T # {}, \A x \in T : T \ {x} \in G PROVE T \in G
  <2> DEFINE c == Some(T)
  <2>1. c \in T
    BY <1>3 DEF Some
  <2> HIDE DEF c
  <2>2. sum(T) = f[c] + sum(T \ {c})
    BY <1>1, <1>3 DEF c
  <2>3. \A x \in T : sum(T \ {x}) \in Nat /\ \A y \in T \ {x} : sum(T \ {x}) = f[y] + sum((T \ {x}) \ {y})
    BY <1>3
  <2>4. ASSUME NEW x \in T PROVE sum(T) = f[x] + sum(T \ {x})
    <3>1. CASE x = c
      BY <2>2, <3>1
    <3>2. CASE x # c
      <4> DEFINE rest == sum((T \ {c}) \ {x})
      <4>1. (T \ {x}) \ {c} = (T \ {c}) \ {x}
        OBVIOUS
      <4>2. sum(T \ {c}) = f[x] + rest /\ sum(T \ {x}) = f[c] + sum((T \ {x}) \ {c})
        BY <2>1, <2>3, <3>2
      <4>3. sum(T \ {x}) = f[c] + rest
        BY <4>1, <4>2
      <4>4. sum((T \ {c}) \ {x}) \in Nat
        <5>1. IsFiniteSet((T \ {c}) \ {x}) /\ (T \ {c}) \ {x} \in SUBSET S
          BY FS_Subset
        <5> QED BY <5>1, SumIsNat DEF sum
      <4>5. f[x] \in Nat /\ f[c] \in Nat
        BY <2>1
      <4> HIDE DEF sum
      <4> QED BY <2>2, <4>2, <4>3, <4>4, <4>5
    <3> QED BY <3>1, <3>2
  <2>5. sum(T) \in Nat
    BY <2>1, <2>2, <2>3
  <2> HIDE DEF sum
  <2> QED BY <2>4, <2>5
<1>4. S \in G
  <2> HIDE DEF G
  <2> QED BY <1>2, <1>3, FiniteInduction
<1>5. ASSUME NEW x \in S PROVE sum(S \ {x}) \in Nat
  BY FS_RemoveElement, SumIsNat DEF sum
<1> QED BY <1>4, <1>5 DEF sum

\* The same of one member, in terms that are matched as they stand.
NatValued(f, S) == IsFiniteSet(S) /\ \A y \in S : f[y] \in Nat

SumSplits(f, S, x) ==
  SumFunctionOnSet(f, S \ {x}) \in Nat /\ SumFunctionOnSet(f, S) = f[x] + SumFunctionOnSet(f, S \ {x})

LEMMA SumWithout ==
  ASSUME NEW f, NEW S, NatValued(f, S), NEW x \in S
  PROVE  SumSplits(f, S, x)
<1>1. \A y \in S : /\ SumFunctionOnSet(f, S \ {y}) \in Nat
                   /\ SumFunctionOnSet(f, S) = f[y] + SumFunctionOnSet(f, S \ {y})
  BY SumOfMember DEF NatValued
<1> QED BY <1>1 DEF SumSplits

\* The sum over fewer members, of no greater values, is no greater.
LEMMA SumMonotone ==
  ASSUME NEW f, NEW g, NEW T, IsFiniteSet(T), \A x \in T : g[x] \in Nat,
         NEW S \in SUBSET T, \A x \in S : f[x] \in Nat /\ f[x] <= g[x]
  PROVE  SumFunctionOnSet(f, S) <= SumFunctionOnSet(g, T)
<1> DEFINE fsum(U) == SumFunctionOnSet(f, U)
           gsum(U) == SumFunctionOnSet(g, U)
           G == {U \in SUBSET T : fsum(U \cap S) <= gsum(U)}
<1> HIDE DEF fsum, gsum
<1>1. {} \in G
  <2>1. fsum({}) = 0 /\ gsum({}) = 0
    BY SumOfSome DEF fsum, gsum
  <2> QED BY <2>1
<1>2. ASSUME NEW U \in SUBSET T, U # {}, \A x \in U : U \ {x} \in G PROVE U \in G
  <2>1. PICK x \in U : TRUE
    BY <1>2
  <2>2. IsFiniteSet(U) /\ IsFiniteSet(U \cap S)
    BY FS_Subset
  <2>3. gsum(U) = g[x] + gsum(U \ {x}) /\ gsum(U \ {x}) \in Nat
    <3>1. x \in U /\ NatValued(g, U)
      BY <2>1, <2>2 DEF NatValued
    <3>2. SumSplits(g, U, x)
      BY ONLY <3>1, SumWithout
    <3> QED BY <3>2 DEF gsum, SumSplits
  <2>4. fsum((U \ {x}) \cap S) <= gsum(U \ {x})
    BY <1>2
  <2>5. CASE x \in S
    <3>1. fsum(U \cap S) = f[x] + fsum((U \cap S) \ {x}) /\ fsum((U \cap S) \ {x}) \in Nat
      <4> DEFINE W == U \cap S
      <4>1. x \in W /\ NatValued(f, W)
        BY <2>2, <2>5 DEF NatValued
      <4> HIDE DEF W
      <4>2. SumSplits(f, W, x)
        BY ONLY <4>1, SumWithout
      <4> QED BY <4>2 DEF W, fsum, SumSplits
    <3>2. (U \cap S) \ {x} = (U \ {x}) \cap S
      OBVIOUS
    <3>3. f[x] \in Nat /\ g[x] \in Nat /\ f[x] <= g[x]
      BY <2>5
    <3> DEFINE a == fsum((U \ {x}) \cap S)
               b == gsum(U \ {x})
    <3>4. fsum(U \cap S) = f[x] + a /\ a \in Nat /\ gsum(U) = g[x] + b /\ b \in Nat /\ a <= b
      BY <2>3, <2>4, <3>1, <3>2
    <3> HIDE DEF a, b
    <3> QED BY <3>3, <3>4
  <2>6. CASE x \notin S
    <3>1. (U \ {x}) \cap S = U \cap S
      BY <2>6
    <3>2. fsum(U \cap S) \in Nat
      BY <2>2, SumIsNat DEF fsum
    <3> DEFINE a == fsum(U \cap S)
               b == gsum(U \ {x})
    <3>3. g[x] \in Nat /\ gsum(U) = g[x] + b /\ b \in Nat /\ a \in Nat /\ a <= b
      BY <2>3, <2>4, <3>1, <3>2
    <3>4. a <= gsum(U)
      <4> HIDE DEF a, b
      <4> QED BY <3>3
    <3> QED BY <3>4
  <2> QED BY <2>5, <2>6
<1>3. T \in G
  <2> HIDE DEF G
  <2> QED BY <1>1, <1>2, FiniteInduction
<1>4. T \cap S = S
  OBVIOUS
<1> QED BY <1>3, <1>4 DEF fsum, gsum

\* Functions that agree have the same sum.
LEMMA SumOfSame ==
  ASSUME NEW f, NEW g, NEW S, IsFiniteSet(S), \A x \in S : f[x] \in Nat /\ g[x] = f[x]
  PROVE  SumFunctionOnSet(f, S) = SumFunctionOnSet(g, S)
<1> DEFINE x == SumFunctionOnSet(f, S)
           y == SumFunctionOnSet(g, S)
<1>1. x \in Nat /\ y \in Nat
  BY SumIsNat
<1>2. x <= y
  <2>1. S \in SUBSET S /\ (\A z \in S : g[z] \in Nat) /\ \A z \in S : f[z] \in Nat /\ f[z] <= g[z]
    OBVIOUS
  <2> QED BY <2>1, SumMonotone
<1>3. y <= x
  <2>1. S \in SUBSET S /\ (\A z \in S : f[z] \in Nat) /\ \A z \in S : g[z] \in Nat /\ g[z] <= f[z]
    OBVIOUS
  <2> QED BY <2>1, SumMonotone
<1> HIDE DEF x, y
<1> QED BY <1>1, <1>2, <1>3 DEF x, y

\* A sum of ones counts.
LEMMA SumOfOnes ==
  ASSUME NEW f, NEW n \in Nat, \A k \in 1 .. n : f[k] = 1
  PROVE  SumFunctionOnSet(f, 1 .. n) = n
<1> DEFINE sum(k) == SumFunctionOnSet(f, 1 .. k)
           N == {k \in Nat : k <= n => sum(k) = k}
<1>1. 0 \in N
  <2>1. 1 .. 0 = {} /\ IsFiniteSet({})
    BY FS_EmptySet
  <2>2. SumFunctionOnSet(f, {}) = 0
    BY <2>1, SumOfSome
  <2> QED BY <2>1, <2>2
<1>2. ASSUME NEW k \in Nat, k \in N PROVE k + 1 \in N
  <2> SUFFICES ASSUME k + 1 <= n PROVE sum(k + 1) = k + 1
    OBVIOUS
  <2> DEFINE I == 1 .. k + 1
             last == k + 1
  <2>1. IsFiniteSet(I) /\ last \in I /\ I \ {last} = 1 .. k /\ \A y \in I : f[y] = 1 /\ f[y] \in Nat
    <3>1. IsFiniteSet(I)
      BY FS_Interval
    <3>2. last \in I /\ I \ {last} = 1 .. k
      OBVIOUS
    <3>3. \A y \in I : y \in 1 .. n
      OBVIOUS
    <3>4. \A y \in I : f[y] = 1 /\ f[y] \in Nat
      BY <3>3
    <3> QED BY <3>1, <3>2, <3>4
  <2>2. sum(k) = k
    BY <1>2
  <2> HIDE DEF I, last
  <2>3. \A y \in I : SumFunctionOnSet(f, I) = f[y] + SumFunctionOnSet(f, I \ {y})
    BY ONLY <2>1, SumOfMember
  <2>4. SumFunctionOnSet(f, I) = 1 + sum(k)
    BY <2>1, <2>3
  <2>5. sum(k + 1) = SumFunctionOnSet(f, I)
    BY DEF I
  <2> HIDE DEF sum
  <2> QED BY <2>2, <2>4, <2>5
<1> HIDE DEF N
<1>3. n \in N
  BY <1>1, <1>2, SetInduction
<1> QED BY <1>3 DEF N

\* The sum over two sets without a common member.
LEMMA SumOfUnion ==
  ASSUME NEW f, NEW S, NEW T, IsFiniteSet(S), IsFiniteSet(T), S \cap T = {},
         \A x \in S \cup T : f[x] \in Nat
  PROVE  SumFunctionOnSet(f, S \cup T) = SumFunctionOnSet(f, S) + SumFunctionOnSet(f, T)
<1> DEFINE sum(U) == SumFunctionOnSet(f, U)
           G == {U \in SUBSET T : sum(S \cup U) = sum(S) + sum(U)}
<1> HIDE DEF sum
<1>1. sum(S) \in Nat
  BY SumIsNat DEF sum
<1>2. {} \in G
  <2>1. sum({}) = 0
    BY SumOfSome DEF sum
  <2>2. S \cup {} = S
    OBVIOUS
  <2> QED BY <1>1, <2>1, <2>2
<1>3. ASSUME NEW U \in SUBSET T, U # {}, \A x \in U : U \ {x} \in G PROVE U \in G
  <2>1. PICK x \in U : TRUE
    BY <1>3
  <2>2. IsFiniteSet(U) /\ IsFiniteSet(S \cup U)
    BY FS_Subset, FS_Union
  <2>3. sum(U) = f[x] + sum(U \ {x}) /\ sum(U \ {x}) \in Nat
    <3>1. \A y \in U : f[y] \in Nat
      OBVIOUS
    <3> QED BY <2>2, <3>1, SumOfMember DEF sum
  <2>4. sum(S \cup U) = f[x] + sum((S \cup U) \ {x})
    <3>1. x \in S \cup U /\ \A y \in S \cup U : f[y] \in Nat
      OBVIOUS
    <3> QED BY <2>2, <3>1, SumOfMember DEF sum
  <2>5. (S \cup U) \ {x} = S \cup (U \ {x})
    OBVIOUS
  <2>6. sum(S \cup (U \ {x})) = sum(S) + sum(U \ {x})
    BY <1>3
  <2>7. f[x] \in Nat
    OBVIOUS
  <2> QED BY <1>1, <2>3, <2>4, <2>5, <2>6, <2>7
<1>4. T \in G
  <2> HIDE DEF G
  <2> QED BY <1>2, <1>3, FiniteInduction
<1> QED BY <1>4 DEF sum
=============================================================================
