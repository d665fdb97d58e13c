--------------------------- MODULE QueueCoreProofs ---------------------------
(***************************************************************************)
(* Proofs about QueueCore, for every set of elements, every bound and      *)
(* every amount of memory: the indexes agree, and the circular buffer      *)
(* implements a bounded deque.                                             *)
(***************************************************************************)
EXTENDS QueueCore, SequenceTheorems, TLAPS

Value == Element \cup {NoElement}

-----------------------------------------------------------------------------
(* Arithmetic of the ring.                                                  *)

LEMMA SmallRemainder ==
  ASSUME NEW n \in Nat, NEW i \in 0 .. n - 1
  PROVE  (i + 1 - 1) % n = i
OBVIOUS

\* The neighbours of an index of the ring, without remainders; the ring is
\* closed exactly when the buffer is full.
LEMMA Neighbours ==
  ASSUME IndexesAgree, count > 0
  PROVE  /\ length \in Nat \ {0} /\ count \in 1 .. length
         /\ front \in Slots
         /\ back = IF front + count - 1 < length THEN front + count - 1
                   ELSE front + count - 1 - length
         /\ back \in Slots
         /\ After(back) = IF back + 1 = length THEN 0 ELSE back + 1
         /\ After(front) = IF front + 1 = length THEN 0 ELSE front + 1
         /\ Before(front) = IF front = 0 THEN length - 1 ELSE front - 1
         /\ After(back) = front <=> count = length
         /\ Before(front) = back <=> count = length
<1>1. length \in Nat \ {0} /\ count \in 1 .. length /\ front \in Slots
  BY DEF IndexesAgree, Slots
<1>2. back = IF front + count - 1 < length THEN front + count - 1
             ELSE front + count - 1 - length
  <2>1. back = (front + count - 1) % length
    BY DEF IndexesAgree
  <2> QED BY <1>1, <2>1 DEF Slots
<1>3. back \in Slots
  BY <1>1, <1>2 DEF Slots
<1>4. After(back) = IF back + 1 = length THEN 0 ELSE back + 1
  BY <1>1, <1>3 DEF Slots, After
<1>5. After(front) = IF front + 1 = length THEN 0 ELSE front + 1
  BY <1>1 DEF Slots, After
<1>6. Before(front) = IF front = 0 THEN length - 1 ELSE front - 1
  BY DEF Before
<1>7. After(back) = front <=> count = length
  BY <1>1, <1>2, <1>4 DEF Slots
<1>8. Before(front) = back <=> count = length
  BY <1>1, <1>2, <1>6 DEF Slots
<1> QED BY <1>1, <1>2, <1>3, <1>4, <1>5, <1>6, <1>7, <1>8

-----------------------------------------------------------------------------
(* The elements in their order.                                             *)

\* The slot of the element that has i - 1 others in front of it.
SlotOf(i) == (front + i - 1) % length

\* The same, without remainders.
LEMMA SlotOfElement ==
  ASSUME IndexesAgree, NEW i \in 1 .. count
  PROVE  /\ SlotOf(i) = IF front + i - 1 < length THEN front + i - 1 ELSE front + i - 1 - length
         /\ SlotOf(i) \in Slots
<1>1. length \in Nat \ {0} /\ count \in 1 .. length /\ front \in Slots
  BY DEF IndexesAgree, Slots
<1>2. SlotOf(i) = IF front + i - 1 < length THEN front + i - 1 ELSE front + i - 1 - length
  BY <1>1 DEF Slots, SlotOf
<1> QED BY <1>1, <1>2 DEF Slots

\* What the buffer holds, as the refinement mapping has it.
Contents == [i \in 1 .. count |-> elements[(front + i - 1) % length]]

LEMMA ContentsType ==
  ASSUME IndexesAgree
  PROVE  /\ Contents \in Seq(Value)
         /\ Len(Contents) = count
         /\ \A i \in 1 .. count : Contents[i] = elements[SlotOf(i)]
<1>1. count \in Nat
  BY DEF IndexesAgree
<1>2. \A i \in 1 .. count : elements[(front + i - 1) % length] \in Value
  BY SlotOfElement DEF SlotOf, Value, IndexesAgree
<1>3. Contents \in [1 .. count -> Value]
  BY <1>2 DEF Contents
<1> QED BY <1>1, <1>3 DEF Contents, SlotOf

-----------------------------------------------------------------------------
(* The effects of Store, of an array that has been grown or not.            *)

\* A state after Store, if the new indexes agree with the new count.
LEMMA StoreAgrees ==
  ASSUME IndexesAgree,
         NEW e \in Element, NEW n \in Nat \ {0}, NEW f \in 0 .. n - 1, NEW b, NEW p \in 0 .. n - 1,
         NEW array \in [0 .. n - 1 -> Value],
         n <= Memory, maxSize # Growable => n <= maxSize,
         count + 1 <= n, b = (f + count) % n,
         Store(array, n, f, b, p, e)
  PROVE  IndexesAgree'
<1>1. elements' \in [0 .. length' - 1 -> Value]
  BY DEF Store, Value
<1>2. count' \in 0 .. length' /\ count' > 0
  <2>1. count \in Nat
    BY DEF IndexesAgree
  <2> QED BY <2>1 DEF Store
<1>3. front' \in 0 .. length' - 1 /\ back' = (front' + count' - 1) % length'
  <2>1. front' + count' - 1 = f + count
    BY DEF Store, IndexesAgree
  <2> QED BY <2>1 DEF Store
<1> QED BY <1>1, <1>2, <1>3 DEF Store, IndexesAgree, Slots, Value

\* Insert1D adds a slot anywhere.
LEMMA InsertedType ==
  ASSUME IndexesAgree, NEW p \in 0 .. length
  PROVE  /\ Inserted(p) \in [0 .. length -> Value]
         /\ \A i \in 0 .. length : i < p => Inserted(p)[i] = elements[i]
         /\ \A i \in 0 .. length : i > p => Inserted(p)[i] = elements[i - 1]
BY DEF IndexesAgree, Inserted, Slots, Value

-----------------------------------------------------------------------------
(* Sequences as functions.                                                  *)

\* A sequence with an element more at its end.
LEMMA AppendIsFunction ==
  ASSUME NEW S, NEW s \in Seq(S), NEW e \in S, NEW n \in Nat, n = Len(s)
  PROVE  Append(s, e) = [i \in 1 .. n + 1 |-> IF i = n + 1 THEN e ELSE s[i]]
<1>1. /\ Append(s, e) \in Seq(S) /\ Len(Append(s, e)) = n + 1
      /\ \A i \in 1 .. n + 1 : Append(s, e)[i] = IF i = n + 1 THEN e ELSE s[i]
  OBVIOUS
<1>2. Append(s, e) = [i \in 1 .. n + 1 |-> Append(s, e)[i]]
  BY <1>1, LenProperties
<1> QED BY <1>1, <1>2

\* A sequence with an element more in front of it.
LEMMA ConsIsFunction ==
  ASSUME NEW S, NEW s \in Seq(S), NEW e \in S, NEW n \in Nat, n = Len(s)
  PROVE  << e >> \o s = [i \in 1 .. n + 1 |-> IF i = 1 THEN e ELSE s[i - 1]]
<1>1. /\ << e >> \o s \in Seq(S) /\ Len(<< e >> \o s) = n + 1
      /\ \A i \in 1 .. n + 1 : (<< e >> \o s)[i] = IF i = 1 THEN e ELSE s[i - 1]
  OBVIOUS
<1>2. << e >> \o s = [i \in 1 .. n + 1 |-> (<< e >> \o s)[i]]
  BY <1>1, LenProperties
<1> QED BY <1>1, <1>2

\* A sequence without its first element.
LEMMA TailIsFunction ==
  ASSUME NEW S, NEW s \in Seq(S), s # << >>, NEW n \in Nat, n = Len(s)
  PROVE  Tail(s) = [i \in 1 .. n - 1 |-> s[i + 1]]
<1>1. /\ Tail(s) \in Seq(S) /\ Len(Tail(s)) = n - 1
      /\ \A i \in 1 .. n - 1 : Tail(s)[i] = s[i + 1]
  BY HeadTailProperties
<1>2. Tail(s) = [i \in 1 .. n - 1 |-> Tail(s)[i]]
  BY <1>1, LenProperties
<1> QED BY <1>1, <1>2

-----------------------------------------------------------------------------
(* The contents after a step, from what it leaves in the slots.             *)

\* The elements stay in their order and a new one is behind them.
LEMMA BackContents ==
  ASSUME IndexesAgree, IndexesAgree', NEW e \in Value, count' = count + 1,
         \A i \in 1 .. count : elements'[(front' + i - 1) % length'] = elements[SlotOf(i)],
         elements'[back'] = e
  PROVE  Contents' = Append(Contents, e)
<1>1. count \in Nat /\ Len(Contents) = count /\ Contents \in Seq(Value)
  BY ContentsType DEF IndexesAgree
<1>2. back' = (front' + (count + 1) - 1) % length'
  BY <1>1 DEF IndexesAgree
<1>3. Contents' = [i \in 1 .. count + 1 |-> elements'[(front' + i - 1) % length']]
  BY DEF Contents
<1>4. Append(Contents, e) = [i \in 1 .. count + 1 |-> IF i = count + 1 THEN e ELSE Contents[i]]
  BY <1>1, AppendIsFunction
<1>5. ASSUME NEW i \in 1 .. count + 1
      PROVE  elements'[(front' + i - 1) % length'] = IF i = count + 1 THEN e ELSE Contents[i]
  <2>1. CASE i = count + 1
    BY <2>1, <1>2
  <2>2. CASE i # count + 1
    <3>1. i \in 1 .. count
      BY <2>2, <1>1
    <3> QED BY <2>2, <3>1, ContentsType
  <2> QED BY <2>1, <2>2
<1> QED BY <1>3, <1>4, <1>5

\* The elements stay in their order and a new one is in front of them.
LEMMA FrontContents ==
  ASSUME IndexesAgree, IndexesAgree', NEW e \in Value, count' = count + 1,
         \A i \in 1 .. count : elements'[(front' + i) % length'] = elements[SlotOf(i)],
         elements'[front'] = e
  PROVE  Contents' = << e >> \o Contents
<1>1. count \in Nat /\ Len(Contents) = count /\ Contents \in Seq(Value)
  BY ContentsType DEF IndexesAgree
<1>2. count' > 0 /\ length' \in Nat /\ front' \in 0 .. length' - 1
  BY <1>1 DEF IndexesAgree, Slots
<1>3. Contents' = [i \in 1 .. count + 1 |-> elements'[(front' + i - 1) % length']]
  BY DEF Contents
<1>4. << e >> \o Contents = [i \in 1 .. count + 1 |-> IF i = 1 THEN e ELSE Contents[i - 1]]
  BY <1>1, ConsIsFunction
<1>5. ASSUME NEW i \in 1 .. count + 1
      PROVE  elements'[(front' + i - 1) % length'] = IF i = 1 THEN e ELSE Contents[i - 1]
  <2>1. CASE i = 1
    <3>1. (front' + i - 1) % length' = front'
      BY <2>1, <1>2, SmallRemainder, Zenon
    <3> QED BY <2>1, <3>1
  <2>2. CASE i # 1
    <3>1. i - 1 \in 1 .. count
      BY <2>2, <1>1
    <3>2. elements'[(front' + (i - 1)) % length'] = elements[SlotOf(i - 1)]
      BY <3>1
    <3>3. front' + (i - 1) = front' + i - 1
      BY <1>1 DEF IndexesAgree, Slots
    <3> QED BY <2>2, <3>1, <3>2, <3>3, ContentsType
  <2> QED BY <2>1, <2>2
<1> QED BY <1>3, <1>4, <1>5

\* The front element is gone and the others stay in their order.
LEMMA TailContents ==
  ASSUME IndexesAgree, IndexesAgree', count > 0, count' = count - 1,
         \A i \in 1 .. count - 1 : elements'[(front' + i - 1) % length'] = elements[SlotOf(i + 1)]
  PROVE  Contents' = Tail(Contents)
<1>1. count \in Nat /\ Len(Contents) = count /\ Contents \in Seq(Value) /\ Contents # << >>
  BY ContentsType DEF IndexesAgree
<1>2. Contents' = [i \in 1 .. count - 1 |-> elements'[(front' + i - 1) % length']]
  BY DEF Contents
<1>3. Tail(Contents) = [i \in 1 .. count - 1 |-> Contents[i + 1]]
  BY <1>1, TailIsFunction
<1>4. ASSUME NEW i \in 1 .. count - 1
      PROVE  elements'[(front' + i - 1) % length'] = Contents[i + 1]
  <2>1. i + 1 \in 1 .. count
    BY <1>1
  <2> QED BY <2>1, ContentsType
<1> QED BY <1>2, <1>3, <1>4

-----------------------------------------------------------------------------
(* The methods, branch by branch.                                           *)

\* What growing needs: there is memory, and the bound allows a longer buffer.
LEMMA Growth ==
  ASSUME IndexesAgree, CanGrow, count = length
  PROVE  length + 1 <= Memory /\ (maxSize # Growable => length + 1 <= maxSize)
<1>1. Memory \in Nat /\ length \in Nat
  BY QueueAssumption DEF IndexesAgree
<1>2. maxSize # Growable => maxSize \in Nat
  BY QueueAssumption DEF IndexesAgree
<1> QED BY <1>1, <1>2 DEF CanGrow, Full, IndexesAgree

\* The first element of an empty queue.
LEMMA FirstStored ==
  ASSUME IndexesAgree, count = 0, NEW e \in Element,
         \/ length > 0 /\ Store(elements, length, 0, 0, 0, e)
         \/ length = 0 /\ CanGrow /\ Store(Inserted(0), length + 1, 0, 0, 0, e)
  PROVE  /\ IndexesAgree'
         /\ Contents' = Append(Contents, e)
         /\ Contents' = << e >> \o Contents
<1>1. length \in Nat /\ elements \in [0 .. length - 1 -> Value]
  BY DEF IndexesAgree, Slots, Value
<1>2. IndexesAgree'
  <2>1. CASE length > 0 /\ Store(elements, length, 0, 0, 0, e)
    <3>1. 0 = (0 + count) % length
      BY <1>1, <2>1
    <3>2. length <= Memory /\ (maxSize # Growable => length <= maxSize)
      BY DEF IndexesAgree
    <3> QED BY <1>1, <2>1, <3>1, <3>2, StoreAgrees
  <2>2. CASE length = 0 /\ CanGrow /\ Store(Inserted(0), length + 1, 0, 0, 0, e)
    <3>1. 0 = (0 + count) % (length + 1)
      BY <1>1, <2>2
    <3>2. Inserted(0) \in [0 .. length -> Value]
      BY <1>1, InsertedType
    <3>3. length + 1 \in Nat \ {0} /\ count + 1 <= length + 1
      BY <1>1, <2>2
    <3>4. length + 1 <= Memory /\ (maxSize # Growable => length + 1 <= maxSize)
      BY <2>2, Growth
    <3>5. 0 \in 0 .. length + 1 - 1
      BY <1>1, <2>2
    <3>6. Store(Inserted(0), length + 1, 0, 0, 0, e)
      BY <2>2
    <3> DEFINE n == length + 1
               array == Inserted(0)
    <3>7. n \in Nat \ {0} /\ 0 \in 0 .. n - 1
      BY <1>1, <3>3, <3>5
    <3>8. array \in [0 .. n - 1 -> Value]
    <4>1. n - 1 = length
      BY <1>1
    <4> QED BY <3>2, <4>1
    <3>9. n <= Memory /\ (maxSize # Growable => n <= maxSize)
      BY <3>4
    <3>10. count + 1 <= n
      BY <3>3
    <3>11. 0 = (0 + count) % n
      BY <3>1
    <3>12. Store(array, n, 0, 0, 0, e)
      BY <3>6
    <3> HIDE DEF n, array
    <3> QED BY <3>7, <3>8, <3>9, <3>10, <3>11, <3>12, StoreAgrees
  <2> QED BY <2>1, <2>2
<1>3. count' = count + 1 /\ front' = 0 /\ back' = 0 /\ elements'[0] = e
  <2>1. Inserted(0) \in [0 .. length -> Value]
    BY <1>1, InsertedType
  <2> QED BY <1>1, <2>1 DEF Store
<1>4. e \in Value
  BY DEF Value
<1> QED BY <1>2, <1>3, <1>4, BackContents, FrontContents

\* A new back in a free slot.
LEMMA BackStored ==
  ASSUME IndexesAgree, count > 0, NEW e \in Element, After(back) # front,
         Store(elements, length, front, After(back), After(back), e)
  PROVE  IndexesAgree' /\ Contents' = Append(Contents, e)
<1>1. /\ length \in Nat \ {0} /\ count \in 1 .. length - 1 /\ front \in 0 .. length - 1
      /\ After(back) = IF front + count < length THEN front + count ELSE front + count - length
  BY Neighbours DEF Slots
<1>2. IndexesAgree'
  <2>1. After(back) = (front + count) % length
    BY <1>1
  <2>2. length <= Memory /\ (maxSize # Growable => length <= maxSize)
    BY DEF IndexesAgree
  <2>3. elements \in [0 .. length - 1 -> Value]
    BY DEF IndexesAgree, Slots, Value
  <2> QED BY <1>1, <2>1, <2>2, <2>3, StoreAgrees
<1>3. elements'[back'] = e
  BY <1>1 DEF Store, IndexesAgree, Slots
<1>4. ASSUME NEW i \in 1 .. count
      PROVE  elements'[(front' + i - 1) % length'] = elements[SlotOf(i)]
  <2>1. SlotOf(i) # After(back) /\ SlotOf(i) \in Slots
    BY <1>1, SlotOfElement
  <2>2. (front' + i - 1) % length' = SlotOf(i)
    BY DEF Store, SlotOf
  <2> QED BY <2>1, <2>2 DEF Store, IndexesAgree
<1> QED BY <1>2, <1>3, <1>4, BackContents DEF Store, Value

\* A new back where the ring is closed, in a slot that is inserted there.
LEMMA BackInserted ==
  ASSUME IndexesAgree, count > 0, NEW e \in Element, After(back) = front, CanGrow,
         Store(Inserted(BackSlot), length + 1, FrontAfterGrowth, BackSlot, BackSlot, e)
  PROVE  IndexesAgree' /\ Contents' = Append(Contents, e)
<1>1. /\ length \in Nat \ {0} /\ count = length /\ front \in 0 .. length - 1
      /\ BackSlot = IF front = 0 THEN length ELSE front
      /\ FrontAfterGrowth = IF front = 0 THEN 0 ELSE front + 1
  BY Neighbours DEF Slots, BackSlot, FrontAfterGrowth
<1>2. IndexesAgree'
  <2>1. BackSlot = (FrontAfterGrowth + count) % (length + 1)
    BY <1>1
  <2>2. Inserted(BackSlot) \in [0 .. length + 1 - 1 -> Value]
    BY <1>1, InsertedType
  <2> QED BY <1>1, <2>1, <2>2, Growth, StoreAgrees
<1>3. /\ \A k \in 0 .. length : k < BackSlot => elements'[k] = elements[k]
      /\ \A k \in 0 .. length : k > BackSlot => elements'[k] = elements[k - 1]
      /\ elements'[BackSlot] = e
  BY <1>1, InsertedType DEF Store
<1>4. ASSUME NEW i \in 1 .. count
      PROVE  elements'[(front' + i - 1) % length'] = elements[SlotOf(i)]
  <2>1. SlotOf(i) = IF front + i - 1 < length THEN front + i - 1 ELSE front + i - 1 - length
    BY SlotOfElement
  <2>2. (front' + i - 1) % length' =
          IF front = 0 THEN i - 1
          ELSE IF front + i <= length THEN front + i ELSE front + i - length - 1
    BY <1>1 DEF Store
  <2> QED BY <1>1, <1>3, <2>1, <2>2
<1> QED BY <1>2, <1>3, <1>4, BackContents DEF Store, Value

\* A new front in a free slot.
LEMMA FrontStored ==
  ASSUME IndexesAgree, count > 0, NEW e \in Element, Before(front) # back,
         Store(elements, length, Before(front), back, Before(front), e)
  PROVE  IndexesAgree' /\ Contents' = << e >> \o Contents
<1>1. /\ length \in Nat \ {0} /\ count \in 1 .. length - 1 /\ front \in 0 .. length - 1
      /\ Before(front) = IF front = 0 THEN length - 1 ELSE front - 1
  BY Neighbours DEF Slots
<1>2. IndexesAgree'
  <2>1. back = (Before(front) + count) % length
    BY <1>1, Neighbours
  <2>2. length <= Memory /\ (maxSize # Growable => length <= maxSize)
    BY DEF IndexesAgree
  <2>3. elements \in [0 .. length - 1 -> Value]
    BY DEF IndexesAgree, Slots, Value
  <2> QED BY <1>1, <2>1, <2>2, <2>3, StoreAgrees
<1>3. elements'[front'] = e
  BY <1>1 DEF Store, IndexesAgree, Slots
<1>4. ASSUME NEW i \in 1 .. count
      PROVE  elements'[(front' + i) % length'] = elements[SlotOf(i)]
  <2>1. /\ SlotOf(i) = IF front + i - 1 < length THEN front + i - 1 ELSE front + i - 1 - length
        /\ SlotOf(i) \in Slots
    BY SlotOfElement
  <2>2. SlotOf(i) # Before(front)
    BY <1>1, <2>1
  <2>3. (front' + i) % length' = SlotOf(i)
    BY <1>1, <2>1 DEF Store
  <2> QED BY <2>1, <2>2, <2>3 DEF Store, IndexesAgree
<1> QED BY <1>2, <1>3, <1>4, FrontContents DEF Store, Value

\* A new front where the ring is closed, in a slot that is inserted there.
LEMMA FrontInserted ==
  ASSUME IndexesAgree, count > 0, NEW e \in Element, Before(front) = back, CanGrow,
         Store(Inserted(After(Before(front))), length + 1, FrontSlot, BackAfterGrowth, FrontSlot, e)
  PROVE  IndexesAgree' /\ Contents' = << e >> \o Contents
<1>1. /\ length \in Nat \ {0} /\ count = length /\ front \in 0 .. length - 1
      /\ back = IF front = 0 THEN length - 1 ELSE front - 1
  BY Neighbours DEF Slots
<1>2. After(Before(front)) = front /\ FrontSlot = front
  <2>1. After(back) = front
    BY <1>1, Neighbours
  <2>2. front = back => Before(front) = front
    OBVIOUS
  <2> QED BY <2>1, <2>2 DEF FrontSlot
<1>3. BackAfterGrowth = IF front = 0 THEN length ELSE front - 1
  BY <1>1, <1>2 DEF BackAfterGrowth
<1>4. IndexesAgree'
  <2>1. BackAfterGrowth = (front + count) % (length + 1)
    BY <1>1, <1>3
  <2>2. Inserted(front) \in [0 .. length + 1 - 1 -> Value]
    BY <1>1, InsertedType
  <2>3. length + 1 <= Memory /\ (maxSize # Growable => length + 1 <= maxSize)
    BY <1>1, Growth
  <2> QED BY <1>1, <1>2, <2>1, <2>2, <2>3, StoreAgrees
<1>5. /\ \A k \in 0 .. length : k < front => elements'[k] = elements[k]
      /\ \A k \in 0 .. length : k > front => elements'[k] = elements[k - 1]
      /\ elements'[front] = e
  BY <1>1, <1>2, InsertedType DEF Store
<1>6. ASSUME NEW i \in 1 .. count
      PROVE  elements'[(front' + i) % length'] = elements[SlotOf(i)]
  <2>1. SlotOf(i) = IF front + i - 1 < length THEN front + i - 1 ELSE front + i - 1 - length
    BY SlotOfElement
  <2>2. (front' + i) % length' =
          IF front + i <= length THEN front + i ELSE front + i - length - 1
    BY <1>1, <1>2 DEF Store
  <2> QED BY <1>1, <1>5, <2>1, <2>2
<1> QED BY <1>2, <1>4, <1>5, <1>6, FrontContents DEF Store, Value

\* The front element is taken.
LEMMA FrontTaken ==
  ASSUME IndexesAgree, Dequeue
  PROVE  /\ IndexesAgree'
         /\ count > 0 /\ output' = elements[SlotOf(1)]
         /\ Contents' = Tail(Contents)
<1>1. count > 0 /\ count' = count - 1 /\ length' = length /\ elements' = elements
  BY DEF Dequeue, IndexesAgree
<1>2. /\ length \in Nat \ {0} /\ count \in 1 .. length /\ front \in 0 .. length - 1
      /\ After(front) = IF front + 1 = length THEN 0 ELSE front + 1
      /\ back = IF front + count - 1 < length THEN front + count - 1
                ELSE front + count - 1 - length
  BY <1>1, Neighbours DEF Slots
<1>3. output' = elements[SlotOf(1)]
  <2>1. SlotOf(1) = front
    BY <1>2, SlotOfElement
  <2> QED BY <2>1 DEF Dequeue
<1>4. \/ count = 1 /\ front' = -1 /\ back' = -1
      \/ count > 1 /\ front' = After(front) /\ back' = back
  BY <1>2 DEF Dequeue
<1>5. IndexesAgree'
  <2>1. \/ count' = 0 /\ front' = -1 /\ back' = -1
        \/ count' > 0 /\ front' \in Slots' /\ back' = (front' + count' - 1) % length'
    BY <1>1, <1>2, <1>4 DEF Slots
  <2>2. count' \in 0 .. length'
    BY <1>1, <1>2
  <2>3. output' \in Value
    BY <1>2, <1>3, SlotOfElement DEF IndexesAgree, Value
  <2> QED BY <1>1, <2>1, <2>2, <2>3 DEF IndexesAgree, Dequeue, Slots, Value
<1>6. ASSUME NEW i \in 1 .. count - 1
      PROVE  elements'[(front' + i - 1) % length'] = elements[SlotOf(i + 1)]
  <2>1. i + 1 \in 1 .. count /\ count > 1
    BY <1>2
  <2>2. SlotOf(i + 1) = IF front + i < length THEN front + i ELSE front + i - length
    BY <1>2, <2>1, SlotOfElement
  <2>3. (front' + i - 1) % length' = SlotOf(i + 1)
    BY <1>1, <1>2, <1>4, <2>1, <2>2
  <2> QED BY <1>1, <2>3
<1> QED BY <1>1, <1>3, <1>5, <1>6, TailContents

-----------------------------------------------------------------------------
(* The state after an operation that adds nothing.                          *)

\* A refusal, an operation on an empty queue.
LEMMA NothingChanges ==
  ASSUME IndexesAgree, UNCHANGED << maxSize, buffer >>,
         done' \in BOOLEAN, output' \in Value
  PROVE  IndexesAgree' /\ Contents' = Contents
BY DEF buffer, IndexesAgree, Slots, Contents, Value

\* Peek shows an element of the contents.
LEMMA ElementShown ==
  ASSUME IndexesAgree, NEW index \in 0 .. count - 1, Peek(index)
  PROVE  /\ IndexesAgree' /\ Contents' = Contents
         /\ output' = Contents[index + 1]
<1>1. count \in Nat /\ index + 1 \in 1 .. count
  BY DEF IndexesAgree
<1>2. front + index = front + (index + 1) - 1
  BY <1>1, Neighbours DEF Slots
<1>3. output' = elements[SlotOf(index + 1)]
  BY <1>2 DEF Peek, SlotOf
<1>4. output' \in Value
  BY <1>1, <1>3, SlotOfElement DEF IndexesAgree, Value
<1>5. output' = Contents[index + 1]
  BY <1>1, <1>3, ContentsType
<1> QED BY <1>4, <1>5, NothingChanges DEF Peek

-----------------------------------------------------------------------------
(* The invariant.                                                           *)

\* Enqueue adds the element behind the others, or refuses it and keeps them.
LEMMA EnqueueEffect ==
  ASSUME IndexesAgree, NEW e \in Element, Enqueue(e)
  PROVE  \/ /\ IndexesAgree' /\ Contents' = Append(Contents, e)
            /\ count < length \/ CanGrow
            /\ length' = IF count = length THEN length + 1 ELSE length
            /\ count' = count + 1 /\ done' = TRUE /\ UNCHANGED << maxSize, output >>
         \/ /\ IndexesAgree' /\ Contents' = Contents
            /\ count = length /\ Refuse
<1>1. back = -1 <=> count = 0
  BY Neighbours DEF IndexesAgree, Slots
<1>2. length \in Nat /\ count \in Nat
  BY DEF IndexesAgree
<1>3. ASSUME Refuse
      PROVE  IndexesAgree' /\ Contents' = Contents
  <2>1. output \in Value
    BY DEF IndexesAgree, Value
  <2> QED BY <1>3, <2>1, NothingChanges DEF Refuse
<1>4. CASE back = -1 /\ StoreFirst(e)
  <2>1. CASE length > 0 /\ Store(elements, length, 0, 0, 0, e)
    <3>1. IndexesAgree' /\ Contents' = Append(Contents, e)
      BY <1>1, <1>4, <2>1, FirstStored
    <3>2. count < length
      BY <1>1, <1>4, <2>1
    <3>3. length' = length /\ count' = count + 1 /\ done' = TRUE /\ UNCHANGED << maxSize, output >>
      BY <2>1 DEF Store
    <3> QED BY <1>2, <3>1, <3>2, <3>3
  <2>2. CASE length = 0 /\ CanGrow /\ Store(Inserted(0), 1, 0, 0, 0, e)
    <3>1. Store(Inserted(0), length + 1, 0, 0, 0, e)
      BY <2>2
    <3>2. IndexesAgree' /\ Contents' = Append(Contents, e)
      BY <1>1, <1>4, <2>2, <3>1, FirstStored
    <3> QED BY <1>1, <1>4, <2>2, <3>2 DEF Store
  <2>3. CASE length = 0 /\ Refuse
    BY <1>1, <1>3, <1>4, <2>3
  <2> QED BY <1>4, <2>1, <2>2, <2>3 DEF StoreFirst
<1>5. CASE /\ back # -1 /\ After(back) # front
           /\ Store(elements, length, front, After(back), After(back), e)
  <2>1. count > 0 /\ count < length
    BY <1>1, <1>5, Neighbours DEF IndexesAgree
  <2>2. IndexesAgree' /\ Contents' = Append(Contents, e)
    BY <1>5, <2>1, BackStored
  <2>3. length' = length /\ count' = count + 1 /\ done' = TRUE /\ UNCHANGED << maxSize, output >>
    BY <1>5 DEF Store
  <2> QED BY <1>2, <2>1, <2>2, <2>3
<1>6. CASE back # -1 /\ After(back) = front
  <2>1. count > 0 /\ count = length
    BY <1>1, <1>6, Neighbours DEF IndexesAgree
  <2>2. CASE CanGrow /\ Store(Inserted(BackSlot), length + 1, FrontAfterGrowth, BackSlot, BackSlot, e)
    BY <1>6, <2>1, <2>2, BackInserted DEF Store
  <2>3. CASE Refuse
    BY <1>3, <2>1, <2>3
  <2> QED BY <1>6, <2>2, <2>3 DEF Enqueue
<1> QED BY <1>4, <1>5, <1>6 DEF Enqueue

\* PushFront adds the element in front of the others, or refuses it and keeps
\* them.
LEMMA PushFrontEffect ==
  ASSUME IndexesAgree, NEW e \in Element, PushFront(e)
  PROVE  \/ /\ IndexesAgree' /\ Contents' = << e >> \o Contents
            /\ count < length \/ CanGrow
            /\ length' = IF count = length THEN length + 1 ELSE length
            /\ count' = count + 1 /\ done' = TRUE /\ UNCHANGED << maxSize, output >>
         \/ /\ IndexesAgree' /\ Contents' = Contents
            /\ count = length /\ Refuse
<1>1. front = -1 <=> count = 0
  BY Neighbours DEF IndexesAgree, Slots
<1>2. length \in Nat /\ count \in Nat
  BY DEF IndexesAgree
<1>3. ASSUME Refuse
      PROVE  IndexesAgree' /\ Contents' = Contents
  <2>1. output \in Value
    BY DEF IndexesAgree, Value
  <2> QED BY <1>3, <2>1, NothingChanges DEF Refuse
<1>4. CASE front = -1 /\ StoreFirst(e)
  <2>1. CASE length > 0 /\ Store(elements, length, 0, 0, 0, e)
    <3>1. IndexesAgree' /\ Contents' = << e >> \o Contents
      BY <1>1, <1>4, <2>1, FirstStored
    <3>2. count < length
      BY <1>1, <1>4, <2>1
    <3>3. length' = length /\ count' = count + 1 /\ done' = TRUE /\ UNCHANGED << maxSize, output >>
      BY <2>1 DEF Store
    <3> QED BY <1>2, <3>1, <3>2, <3>3
  <2>2. CASE length = 0 /\ CanGrow /\ Store(Inserted(0), 1, 0, 0, 0, e)
    <3>1. Store(Inserted(0), length + 1, 0, 0, 0, e)
      BY <2>2
    <3>2. IndexesAgree' /\ Contents' = << e >> \o Contents
      BY <1>1, <1>4, <2>2, <3>1, FirstStored
    <3> QED BY <1>1, <1>4, <2>2, <3>2 DEF Store
  <2>3. CASE length = 0 /\ Refuse
    BY <1>1, <1>3, <1>4, <2>3
  <2> QED BY <1>4, <2>1, <2>2, <2>3 DEF StoreFirst
<1>5. CASE /\ front # -1 /\ Before(front) # back
           /\ Store(elements, length, Before(front), back, Before(front), e)
  <2>1. count > 0 /\ count < length
    BY <1>1, <1>5, Neighbours DEF IndexesAgree
  <2>2. IndexesAgree' /\ Contents' = << e >> \o Contents
    BY <1>5, <2>1, FrontStored
  <2>3. length' = length /\ count' = count + 1 /\ done' = TRUE /\ UNCHANGED << maxSize, output >>
    BY <1>5 DEF Store
  <2> QED BY <1>2, <2>1, <2>2, <2>3
<1>6. CASE front # -1 /\ Before(front) = back
  <2>1. count > 0 /\ count = length
    BY <1>1, <1>6, Neighbours DEF IndexesAgree
  <2>2. CASE /\ CanGrow
             /\ Store(Inserted(After(Before(front))), length + 1, FrontSlot, BackAfterGrowth, FrontSlot, e)
    BY <1>6, <2>1, <2>2, FrontInserted DEF Store
  <2>3. CASE Refuse
    BY <1>3, <2>1, <2>3
  <2> QED BY <1>6, <2>2, <2>3 DEF PushFront
<1> QED BY <1>4, <1>5, <1>6 DEF PushFront

\* Initially the queue is empty.
LEMMA InitAgrees ==
  ASSUME QueueInit
  PROVE  IndexesAgree /\ Contents = << >>
<1>1. Memory \in Nat /\ \A m \in MaxSizes : m # Growable => m \in Nat
  BY QueueAssumption
<1>2. 0 .. -1 = {} /\ 1 .. 0 = {}
  OBVIOUS
<1>3. [i \in {} |-> NoElement] \in [{} -> Element \cup {NoElement}]
  OBVIOUS
<1>4. IndexesAgree
  <2>1. elements \in [Slots -> Element \cup {NoElement}]
    BY <1>2, <1>3 DEF QueueInit, Slots
  <2>2. length \in Nat /\ length <= Memory /\ count \in 0 .. length
    BY <1>1 DEF QueueInit
  <2>3. maxSize \in MaxSizes /\ (maxSize # Growable => length <= maxSize)
    BY <1>1 DEF QueueInit
  <2> QED BY <2>1, <2>2, <2>3 DEF QueueInit, IndexesAgree
<1>5. Contents \in Seq(Value) /\ Len(Contents) = 0
  BY <1>4, ContentsType DEF QueueInit
<1> QED BY <1>4, <1>5, EmptySeq

\* Every operation keeps the indexes in agreement.
LEMMA StepAgrees ==
  ASSUME IndexesAgree, [QueueNext]_queueVars
  PROVE  IndexesAgree'
<1>1. ASSUME NEW e \in Element, Enqueue(e)
      PROVE  IndexesAgree'
  BY <1>1, EnqueueEffect
<1>2. ASSUME NEW e \in Element, PushFront(e)
      PROVE  IndexesAgree'
  BY <1>2, PushFrontEffect
<1>3. CASE Dequeue
  BY <1>3, FrontTaken
<1>4. ASSUME NEW index \in 0 .. count - 1, Peek(index)
      PROVE  IndexesAgree'
  BY <1>4, ElementShown
<1>5. CASE NothingThere
  BY <1>5, NothingChanges DEF NothingThere, Value
<1>6. CASE UNCHANGED queueVars
  BY <1>6, NothingChanges DEF queueVars, IndexesAgree, Value
<1> QED BY <1>1, <1>2, <1>3, <1>4, <1>5, <1>6 DEF QueueNext

(***************************************************************************)
(* The indexes of QueueCore always agree with its count, and neither the   *)
(* buffer nor the count exceeds its bound (the asserts of QueueCore).      *)
(***************************************************************************)
THEOREM IndexesAlwaysAgree == QueueSpec => []IndexesAgree
<1>1. QueueInit => IndexesAgree
  BY InitAgrees
<1>2. IndexesAgree /\ [QueueNext]_queueVars => IndexesAgree'
  BY StepAgrees
<1> QED BY <1>1, <1>2, PTL DEF QueueSpec

(***************************************************************************)
(* An element more makes the buffer longer only if it was full, and no     *)
(* operation makes it shorter: what Synchronization relies on.             *)
(***************************************************************************)
THEOREM CountsAreAsAssumed == QueueSpec => CountsAsAssumed
<1> DEFINE CountStep ==
      \/ count' = count + 1 /\ length' = IF count = length THEN length + 1 ELSE length
      \/ count' = count - 1 /\ length' = length
      \/ UNCHANGED << count, length >>
<1>1. ASSUME IndexesAgree, [QueueNext]_queueVars
      PROVE  CountStep
  <2>1. ASSUME NEW e \in Element, Enqueue(e)
        PROVE  CountStep
    BY <1>1, <2>1, EnqueueEffect DEF Refuse, buffer
  <2>2. ASSUME NEW e \in Element, PushFront(e)
        PROVE  CountStep
    BY <1>1, <2>2, PushFrontEffect DEF Refuse, buffer
  <2>3. CASE Dequeue
    BY <2>3 DEF Dequeue
  <2>4. ASSUME NEW index \in 0 .. count - 1, Peek(index)
        PROVE  CountStep
    BY <2>4 DEF Peek, buffer
  <2>5. CASE NothingThere
    BY <2>5 DEF NothingThere, buffer
  <2>6. CASE UNCHANGED queueVars
    BY <2>6 DEF queueVars, buffer
  <2> QED BY <1>1, <2>1, <2>2, <2>3, <2>4, <2>5, <2>6 DEF QueueNext
<1>2. IndexesAgree /\ [QueueNext]_queueVars => [CountStep]_queueVars
  BY <1>1
<1> HIDE DEF CountStep
<1>3. QueueSpec => [][CountStep]_queueVars
  BY <1>2, IndexesAlwaysAgree, PTL DEF QueueSpec
<1> QED BY <1>3 DEF CountsAsAssumed, CountStep

-----------------------------------------------------------------------------
(* The refinement.                                                          *)

\* How many elements the queue may hold, as the refinement mapping has it.
Capacity == IF maxSize = Growable \/ maxSize > Memory THEN Memory ELSE maxSize

\* A queue that can take an element is below its capacity, and one that can
\* neither grow nor has a free slot is at its capacity.
LEMMA AtCapacity ==
  ASSUME IndexesAgree
  PROVE  /\ count < length \/ CanGrow => count # Capacity
         /\ count = length /\ ~ CanGrow => count = Capacity
<1>1. /\ Memory \in Nat /\ length \in Nat /\ count \in 0 .. length /\ length <= Memory
      /\ maxSize # Growable => maxSize \in Nat \ {0} /\ length <= maxSize
  BY QueueAssumption DEF IndexesAgree
<1>2. CASE maxSize = Growable
  BY <1>1, <1>2 DEF Capacity, CanGrow, Full
<1>3. CASE maxSize # Growable
  BY <1>1, <1>3 DEF Capacity, CanGrow, Full
<1> QED BY <1>2, <1>3

\* The initial states are initial states of a deque.
LEMMA InitRefines ==
  ASSUME QueueInit
  PROVE  Deque!DequeInit
<1>1. Capacity \in 0 .. Memory
  BY QueueAssumption DEF QueueInit, Capacity
<1>2. Contents = << >>
  BY InitAgrees
<1> QED BY <1>1, <1>2 DEF QueueInit, Deque!DequeInit, Capacity, Contents

\* Every operation is an operation of the deque, or leaves it as it is.
LEMMA StepRefines ==
  ASSUME IndexesAgree, [QueueNext]_queueVars
  PROVE  [Deque!DequeNext]_Deque!dequeVars
<1>1. /\ Contents \in Seq(Value) /\ Len(Contents) = count
      /\ Deque!HoldsAllItMay <=> count = Capacity
  BY ContentsType DEF Deque!HoldsAllItMay, Contents, Capacity
<1>2. ASSUME Refuse, count = length, Contents' = Contents
      PROVE  Deque!TakesNothing
  <2>1. count = Capacity
    BY <1>2, AtCapacity DEF Refuse
  <2>2. Capacity' = Capacity
    BY <1>2 DEF Refuse, Capacity
  <2> QED BY <1>1, <1>2, <2>1, <2>2 DEF Refuse, Deque!TakesNothing, Contents, Capacity
<1>3. ASSUME count < length \/ CanGrow, UNCHANGED maxSize
      PROVE  ~ Deque!HoldsAllItMay /\ Capacity' = Capacity
  BY <1>1, <1>3, AtCapacity DEF Capacity
<1>4. ASSUME NEW e \in Element, Enqueue(e)
      PROVE  Deque!DequeNext
  <2>1. CASE /\ Contents' = Append(Contents, e)
             /\ count < length \/ CanGrow
             /\ done' = TRUE /\ UNCHANGED << maxSize, output >>
    <3>1. ~ Deque!HoldsAllItMay /\ Capacity' = Capacity
      BY <1>3, <2>1
    <3>2. Deque!TakesBack(e)
      BY <2>1, <3>1 DEF Deque!TakesBack, Deque!Takes, Contents, Capacity
    <3> QED BY <3>2 DEF Deque!DequeNext
  <2>2. CASE Contents' = Contents /\ count = length /\ Refuse
    BY <1>2, <2>2 DEF Deque!DequeNext
  <2> QED BY <1>4, <2>1, <2>2, EnqueueEffect
<1>5. ASSUME NEW e \in Element, PushFront(e)
      PROVE  Deque!DequeNext
  <2>1. CASE /\ Contents' = << e >> \o Contents
             /\ count < length \/ CanGrow
             /\ done' = TRUE /\ UNCHANGED << maxSize, output >>
    <3>1. ~ Deque!HoldsAllItMay /\ Capacity' = Capacity
      BY <1>3, <2>1
    <3>2. Deque!TakesFront(e)
      BY <2>1, <3>1 DEF Deque!TakesFront, Deque!Takes, Contents, Capacity
    <3> QED BY <3>2 DEF Deque!DequeNext
  <2>2. CASE Contents' = Contents /\ count = length /\ Refuse
    BY <1>2, <2>2 DEF Deque!DequeNext
  <2> QED BY <1>5, <2>1, <2>2, PushFrontEffect
<1>6. CASE Dequeue
  <2>1. count > 0 /\ output' = elements[SlotOf(1)] /\ Contents' = Tail(Contents)
    BY <1>6, FrontTaken
  <2>2. Contents # << >> /\ Head(Contents) = elements[SlotOf(1)]
    BY <1>1, <2>1, ContentsType
  <2>3. Capacity' = Capacity /\ done' = TRUE
    BY <1>6 DEF Dequeue, Capacity
  <2>4. Deque!GivesFront
    BY <2>1, <2>2, <2>3 DEF Deque!GivesFront, Contents, Capacity
  <2> QED BY <2>4 DEF Deque!DequeNext
<1>7. ASSUME NEW index \in 0 .. count - 1, Peek(index)
      PROVE  Deque!DequeNext
  <2>1. Contents' = Contents /\ output' = Contents[index + 1]
    BY <1>7, ElementShown
  <2>2. Capacity' = Capacity /\ done' = TRUE /\ index < count
    BY <1>7 DEF Peek, Capacity
  <2>3. Deque!Shows(index)
    BY <1>1, <2>1, <2>2 DEF Deque!Shows, Contents, Capacity
  <2>4. index \in 0 .. Len(Contents) - 1
    BY <1>1
  <2> QED BY <2>3, <2>4 DEF Deque!DequeNext, Contents
<1>8. CASE NothingThere
  <2>1. count = 0 /\ output' \in Value /\ done' \in BOOLEAN
    <3>1. front = -1 /\ output' = NoElement /\ done' = FALSE
      BY <1>8 DEF NothingThere
    <3>2. count = 0
      BY <3>1 DEF IndexesAgree, Slots
    <3> QED BY <3>1, <3>2 DEF Value
  <2>2. Contents' = Contents /\ Contents = << >>
    BY <1>1, <1>8, <2>1, NothingChanges, EmptySeq DEF NothingThere
  <2>3. Capacity' = Capacity
    BY <1>8 DEF NothingThere, Capacity
  <2>4. Deque!GivesNothing
    BY <1>8, <2>2, <2>3 DEF Deque!GivesNothing, NothingThere, Contents, Capacity
  <2> QED BY <2>4 DEF Deque!DequeNext
<1>9. CASE UNCHANGED queueVars
  <2>1. Contents' = Contents /\ Capacity' = Capacity /\ UNCHANGED << done, output >>
    BY <1>9 DEF queueVars, buffer, Contents, Capacity
  <2> QED BY <2>1 DEF Deque!dequeVars, Contents, Capacity
<1> QED BY <1>4, <1>5, <1>6, <1>7, <1>8, <1>9 DEF QueueNext

(***************************************************************************)
(* The circular buffer implements a bounded deque: elements come out in    *)
(* order however the ring has grown, and are refused only at the bound.    *)
(***************************************************************************)
THEOREM BufferIsADeque == QueueSpec => IsADeque
<1>1. QueueInit => Deque!DequeInit
  BY InitRefines
<1>2. IndexesAgree /\ [QueueNext]_queueVars => [Deque!DequeNext]_Deque!dequeVars
  BY StepRefines
<1> QED BY <1>1, <1>2, IndexesAlwaysAgree, PTL DEF QueueSpec, IsADeque, Deque!DequeSpec

=============================================================================
