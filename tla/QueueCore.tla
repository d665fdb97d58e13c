------------------------------ MODULE QueueCore ------------------------------
(***************************************************************************)
(* The circular buffer of a queue: the class QueueCore of source/core/     *)
(* Synchronization.cpp.  The buffer starts empty and grows by one element  *)
(* at a time, where the ring is closed, when an element is added to a full *)
(* buffer; it never shrinks.  The wakeups of ObserveStateChange belong to  *)
(* the module Synchronization, which keeps only count and length.          *)
(***************************************************************************)
EXTENDS Integers, Sequences

CONSTANTS
  Element,    \* what can be put into the queue
  NoElement,  \* the default value of the element type (InitData)
  MaxSizes,   \* the bounds considered: Growable, or the size asked for
  Memory      \* bound: elements there is memory for, beyond which Insert1D fails

Growable == -1

(***************************************************************************)
(* QueueRef_Obtain passes on a positive size or -1 (SetMaxSize).           *)
(***************************************************************************)
ASSUME QueueAssumption ==
  /\ MaxSizes \subseteq (Nat \ {0}) \cup {Growable}
  /\ Memory \in Nat

VARIABLES
  maxSize,   \* _maxSize
  elements,  \* _elements: a function from indexes to elements
  length,    \* _elements->Length()
  front,     \* _front, -1 in an empty queue
  back,      \* _back, -1 in an empty queue
  count,     \* _count
  done,      \* what the last operation returned
  output     \* what the last Dequeue or Peek wrote to its output

buffer == << elements, length, front, back, count >>
queueVars == << maxSize, buffer, done, output >>

Slots == 0 .. length - 1

QueueInit ==
  /\ maxSize \in MaxSizes
  /\ elements = [i \in {} |-> NoElement]
  /\ length = 0
  /\ front = -1
  /\ back = -1
  /\ count = 0
  /\ done = FALSE
  /\ output = NoElement

-----------------------------------------------------------------------------
(* The indexes.                                                             *)

After(i) == (i + 1) % length
Before(i) == IF i = 0 THEN length - 1 ELSE i - 1

Full == maxSize # Growable /\ count = maxSize
CanGrow == ~ Full /\ length < Memory

\* TypedArrayCore::Insert1D: one default element more, before position.
Inserted(position) ==
  [i \in 0 .. length |-> IF i < position THEN elements[i]
                         ELSE IF i = position THEN NoElement ELSE elements[i - 1]]

\* CopyDataToQueueElement, with the array and the indexes it is called with.
Store(array, newLength, newFront, newBack, position, e) ==
  /\ elements' = [array EXCEPT ![position] = e]
  /\ length' = newLength
  /\ front' = newFront
  /\ back' = newBack
  /\ count' = count + 1
  /\ done' = TRUE
  /\ UNCHANGED << maxSize, output >>

\* The bound, or the memory, leaves no room: nothing changes.
Refuse ==
  /\ ~ CanGrow
  /\ done' = FALSE
  /\ UNCHANGED << maxSize, buffer, output >>

\* Mutated: an empty queue grows even if its buffer has room.
StoreFirstGrows(e) ==
  \/ CanGrow /\ Store(Inserted(0), length + 1, 0, 0, 0, e)
  \/ Refuse

\* The first element goes to index 0 (ResizeInternalBufferIfEmpty).
StoreFirst(e) ==
  \/ length > 0 /\ Store(elements, length, 0, 0, 0, e)
  \/ length = 0 /\ CanGrow /\ Store(Inserted(0), 1, 0, 0, 0, e)
  \/ length = 0 /\ Refuse

-----------------------------------------------------------------------------
(* Operations.                                                              *)

\* Enqueue in a full buffer: the new back is inserted in front of the front,
\* or at the end of the array.
BackSlot == IF After(back) = 0 THEN length ELSE After(back)

\* Mutated: the front, behind the insertion, is not moved with its element.
FrontAfterGrowthKept == front
FrontAfterGrowth == IF front >= BackSlot THEN front + 1 ELSE front

Enqueue(e) ==
  \/ back = -1 /\ StoreFirst(e)
  \/ /\ back # -1 /\ After(back) # front
     /\ Store(elements, length, front, After(back), After(back), e)
  \/ /\ back # -1 /\ After(back) = front /\ CanGrow
     /\ Store(Inserted(BackSlot), length + 1, FrontAfterGrowth, BackSlot, BackSlot, e)
  \/ back # -1 /\ After(back) = front /\ Refuse

\* PushFront in a full buffer: the new front is inserted behind the back.  If
\* there is one element only, front and back are the same.
FrontSlot == IF front = back THEN Before(front) ELSE After(Before(front))

\* Mutated: the back, behind the insertion, is not moved with its element.
BackAfterGrowthKept == back
BackAfterGrowth == IF back >= FrontSlot THEN back + 1 ELSE back

PushFront(e) ==
  \/ front = -1 /\ StoreFirst(e)
  \/ /\ front # -1 /\ Before(front) # back
     /\ Store(elements, length, Before(front), back, Before(front), e)
  \/ /\ front # -1 /\ Before(front) = back /\ CanGrow
     /\ Store(Inserted(After(Before(front))), length + 1, FrontSlot, BackAfterGrowth, FrontSlot, e)
  \/ front # -1 /\ Before(front) = back /\ Refuse

\* Dequeue takes the front element; the last one leaves the queue empty.
Dequeue ==
  /\ front # -1
  /\ output' = elements[front]
  /\ \/ front = back /\ front' = -1 /\ back' = -1
     \/ front # back /\ front' = After(front) /\ back' = back
  /\ count' = count - 1
  /\ done' = TRUE
  /\ UNCHANGED << maxSize, elements, length >>

\* Peek looks at the element index places behind the front.
Peek(index) ==
  /\ index < count
  /\ output' = elements[(front + index) % length]
  /\ done' = TRUE
  /\ UNCHANGED << maxSize, buffer >>

\* Dequeue or Peek of an empty queue.
NothingThere ==
  /\ front = -1
  /\ output' = NoElement
  /\ done' = FALSE
  /\ UNCHANGED << maxSize, buffer >>

QueueNext ==
  \/ \E e \in Element : Enqueue(e) \/ PushFront(e)
  \/ Dequeue
  \/ \E index \in 0 .. count - 1 : Peek(index)
  \/ NothingThere

QueueSpec == QueueInit /\ [][QueueNext]_queueVars

-----------------------------------------------------------------------------
(* Properties.                                                              *)

(***************************************************************************)
(* Types, and what the asserts of QueueCore demand of its indexes: the     *)
(* elements fill the ring from the front to the back, count tells how many *)
(* they are, -1 stands for an empty queue, and neither the elements exceed *)
(* the buffer nor the buffer its bound.                                    *)
(***************************************************************************)
IndexesAgree ==
  /\ maxSize \in MaxSizes
  /\ length \in Nat /\ length <= Memory
  /\ elements \in [Slots -> Element \cup {NoElement}]
  /\ count \in 0 .. length
  /\ maxSize # Growable => length <= maxSize
  /\ \/ count = 0 /\ front = -1 /\ back = -1
     \/ count > 0 /\ front \in Slots /\ back = (front + count - 1) % length
  /\ done \in BOOLEAN
  /\ output \in Element \cup {NoElement}

(***************************************************************************)
(* The queue is a bounded deque: wherever the ring is closed and however   *)
(* it has grown, elements come out in the order in which they went in, and *)
(* an element is refused only by a queue that holds as many as its bound,  *)
(* or the memory, allows.                                                  *)
(***************************************************************************)
Deque == INSTANCE BoundedDeque WITH
  Capacities <- 0 .. Memory,
  capacity <- IF maxSize = Growable \/ maxSize > Memory THEN Memory ELSE maxSize,
  contents <- [i \in 1 .. count |-> elements[(front + i - 1) % length]],
  accepted <- done

IsADeque == Deque!DequeSpec

(***************************************************************************)
(* What Synchronization relies on: an element more makes the buffer longer *)
(* only if it was full, an element less never makes it shorter, and no     *)
(* other operation changes either.                                         *)
(***************************************************************************)
CountsAsAssumed ==
  [][\/ count' = count + 1 /\ length' = IF count = length THEN length + 1 ELSE length
     \/ count' = count - 1 /\ length' = length
     \/ UNCHANGED << count, length >>]_queueVars
=============================================================================
