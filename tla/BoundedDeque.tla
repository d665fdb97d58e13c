---------------------------- MODULE BoundedDeque ----------------------------
(***************************************************************************)
(* What a queue promises its users: a sequence that takes elements at both *)
(* ends until it holds as many as its capacity, and gives them back from   *)
(* the front.                                                              *)
(***************************************************************************)
EXTENDS Integers, Sequences

CONSTANTS
  Element,    \* what can be put into the queue
  NoElement,  \* the default value of the element type
  Capacities  \* the capacities considered

VARIABLES
  capacity,  \* how many elements the queue may hold
  contents,  \* the elements, the front one first
  accepted,  \* the answer of the last operation
  output     \* the element that the last operation returned

dequeVars == << capacity, contents, accepted, output >>

DequeInit ==
  /\ capacity \in Capacities
  /\ contents = << >>
  /\ accepted = FALSE
  /\ output = NoElement

HoldsAllItMay == Len(contents) = capacity

Takes(s) ==
  /\ ~ HoldsAllItMay
  /\ contents' = s
  /\ accepted' = TRUE
  /\ UNCHANGED << capacity, output >>

TakesBack(e) == Takes(Append(contents, e))
TakesFront(e) == Takes(<< e >> \o contents)

TakesNothing ==
  /\ HoldsAllItMay
  /\ accepted' = FALSE
  /\ UNCHANGED << capacity, contents, output >>

GivesFront ==
  /\ contents # << >>
  /\ output' = Head(contents)
  /\ contents' = Tail(contents)
  /\ accepted' = TRUE
  /\ UNCHANGED capacity

\* The element that has index others in front of it.
Shows(index) ==
  /\ index < Len(contents)
  /\ output' = contents[index + 1]
  /\ accepted' = TRUE
  /\ UNCHANGED << capacity, contents >>

GivesNothing ==
  /\ contents = << >>
  /\ output' = NoElement
  /\ accepted' = FALSE
  /\ UNCHANGED << capacity, contents >>

DequeNext ==
  \/ \E e \in Element : TakesBack(e) \/ TakesFront(e)
  \/ TakesNothing
  \/ GivesFront
  \/ \E index \in 0 .. Len(contents) - 1 : Shows(index)
  \/ GivesNothing

DequeSpec == DequeInit /\ [][DequeNext]_dequeVars
=============================================================================
