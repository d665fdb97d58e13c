-------------------------- MODULE MCSynchronization --------------------------
(***************************************************************************)
(* Programs for model checking Synchronization: one VI of three parallel   *)
(* clumps, of which a starts the others.                                   *)
(***************************************************************************)
EXTENDS Synchronization, TLC

CONSTANTS a, b, c, o, q

Clumps == {a, b, c}
OneTrigger == [d \in Clumps |-> 1]
SizeOne == [x \in {q} |-> 1]
SizeTwo == [x \in {q} |-> 2]

Op(op, arg) == [op |-> op, arg |-> arg]
OnQueue(op, timeout) == [op |-> op, arg |-> q, timeout |-> timeout]
WaitOcc(timeout, ignorePrevious) ==
  [op |-> "WaitOnOccurrence", arg |-> o, timeout |-> timeout, ignorePrevious |-> ignorePrevious]
Timer(op, timeout) == [op |-> op, arg |-> 0, timeout |-> timeout]

Code(steps) == Append(steps, Op("Done", 0))
Bodies(steps, n) == UNION {[1 .. k -> steps] : k \in 1 .. n}

\* The clump that starts the others, goes on with its own body and waits for
\* the others to be done.
Starter(body) ==
  << Op("Trigger", b), Op("Trigger", c) >> \o body \o << Op("Wait", b), Op("Wait", c) >>

Instructions ==
  {Op(op, x) : op \in {"Trigger", "Wait", "Done", "SetOccurrence", "FlushQueue", "Branch"},
               x \in {a, b, c, o, q} \cup 0 .. 1}
    \cup {OnQueue(op, t) : op \in {"Enqueue", "LossyEnqueue", "Dequeue", "PeekQueue"}, t \in -1 .. 2}
    \cup {WaitOcc(t, i) : t \in 0 .. 2, i \in BOOLEAN}
    \cup {Timer(op, t) : op \in {"WaitTicks", "WaitMultiple"}, t \in 0 .. 2}

Family(as, bs, cs) ==
  {(a :> Code(Starter(sa))) @@ (b :> Code(sb)) @@ (c :> Code(sc)) : sa \in as, sb \in bs, sc \in cs}

Enq == OnQueue("Enqueue", -1)
Deq == OnQueue("Dequeue", -1)
Peek == OnQueue("PeekQueue", -1)
Set == Op("SetOccurrence", o)
Delay(t) == Timer("WaitTicks", t)

-----------------------------------------------------------------------------
(* Queues without timers: one clump of up to two queue operations of every  *)
(* kind, one of up to two blocking ones and one of a single blocking one.   *)

Trying == {OnQueue("Enqueue", 0), OnQueue("Dequeue", 0), OnQueue("LossyEnqueue", 0),
           Op("FlushQueue", q)}

QueuePrograms ==
  Family(Bodies({Enq, Deq} \cup Trying, 2), {<< Enq >>, << Deq >>, << Enq, Enq >>, << Deq, Deq >>},
         Bodies({Enq, Deq}, 1))

-----------------------------------------------------------------------------
(* Programs in which every wait can end.                                    *)

\* Waits for time of every length, zero included.
TimerPrograms ==
  Family(Bodies({Delay(0), Delay(1), Timer("WaitMultiple", 0)}, 1),
         Bodies({Delay(1), Delay(2)}, 2),
         {<< Delay(2) >>, << Timer("WaitMultiple", 2) >>})

\* One producer and one consumer, while another clump waits for time.
TransferPrograms ==
  Family({<< >>, << Delay(1) >>}, {<< Enq, Enq, Enq >>, << Enq, Delay(1), Enq, Enq >>},
         {<< Deq, Deq, Deq >>, << Deq, Deq, Peek >>, << Delay(2), Peek, Deq, Deq >>})

\* Waits for an occurrence that count what happened before, without timeouts,
\* and somebody who sets it.
OccurrencePrograms ==
  LET w == WaitOcc(0, FALSE)
  IN  Family({<< Set >>, << Set, w >>, << Delay(1), Set >>},
             {<< w >>, << Delay(1), w >>},
             {<< w >>, << Set, w >>, << Delay(2), Set >>})

FinishingPrograms == TimerPrograms \cup TransferPrograms \cup OccurrencePrograms

-----------------------------------------------------------------------------
(* Timeouts on queues and occurrences.                                      *)

BriefWaits == {OnQueue("Enqueue", 1), OnQueue("Dequeue", 1), WaitOcc(1, TRUE)}

TimeoutPrograms ==
  Family(Bodies({OnQueue("Enqueue", 1), OnQueue("Dequeue", 1), Set}, 2) , Bodies(BriefWaits, 1),
         {<< Enq >>, << Deq >>, << WaitOcc(2, FALSE) >>})

\* Queue operations with and without timeouts, and occurrences.
WaitingPrograms == QueuePrograms \cup TimeoutPrograms

-----------------------------------------------------------------------------
(* Programs for which the code departs from what its comments say.          *)

\* A wait with a timeout, and a clump that adds an element or sets.
RacePrograms ==
  Family({<< >>}, {<< OnQueue("Dequeue", 1) >>, << WaitOcc(1, TRUE) >>}, {<< Enq >>, << Set >>})

\* Two clumps that dequeue without a timeout, and one that adds an element.
StolenPrograms == Family({<< Deq >>}, {<< Deq >>}, {<< Enq >>})
=============================================================================
