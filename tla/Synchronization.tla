--------------------------- MODULE Synchronization ---------------------------
(***************************************************************************)
(* Timers, occurrences and the waiting side of queues, on top of the clump *)
(* scheduler (source/core/Synchronization.cpp and the observation states   *)
(* of VIClump in VirtualInstrument.cpp).                                   *)
(*                                                                         *)
(* A clump that waits has up to two observation states: the first is in    *)
(* the timer list of the execution context, the second in the observer     *)
(* list of an occurrence or a queue.  Whichever goes off first enqueues    *)
(* the clump, which then executes its instruction a second time; the       *)
(* retry reads from the first state whether the timer is still running.    *)
(* _observationStates[0]._info is 0 exactly when the clump is not in       *)
(* timers, so the model keeps only the list.                               *)
(*                                                                         *)
(* Of a queue the model keeps how many elements it holds and how long its  *)
(* buffer has become; which elements they are is left to a module of its   *)
(* own.  Time is the time left to each timer, which passes at any moment.  *)
(***************************************************************************)
EXTENDS ClumpScheduler, FiniteSets

CONSTANTS
  Occurrence,   \* the occurrences
  Queue,        \* the queues
  MaxSize,      \* MaxSize[q]: bound of a queue, Growable if it has none
  Forever,      \* the time left to a timer that never expires
  MaxHostCalls  \* bound: how often the host starts a VI or sets an occurrence

Growable == -1

(***************************************************************************)
(* Finitely many clumps are loaded, occurrences and queues are different   *)
(* objects, and a bounded queue has room for an element (QueueRef_Obtain   *)
(* refuses size zero).                                                     *)
(***************************************************************************)
ASSUME ObjectAssumption ==
  /\ IsFiniteSet(Clump)
  /\ Occurrence \cap Queue = {}
  /\ MaxSize \in [Queue -> (Nat \ {0}) \cup {Growable}]
  /\ MaxHostCalls \in Nat

TimerOps == {"WaitTicks", "WaitMultiple"}
OccurrenceOps == {"SetOccurrence", "WaitOnOccurrence"}
QueueOps == {"Enqueue", "LossyEnqueue", "Dequeue", "PeekQueue", "FlushQueue"}

(***************************************************************************)
(* The operands of an instruction are of the type that its definition in   *)
(* Synchronization.cpp gives them, time has a length that is not negative, *)
(* and a timer that never expires is beyond every timeout of a program.    *)
(***************************************************************************)
ASSUME WaitAssumption ==
  /\ Forever \in Nat \ {0}
  /\ \A p \in Programs : \A c \in Clump : \A n \in 1 .. Len(p[c]) :
       LET i == p[c][n]
       IN  /\ i.op \in OccurrenceOps => i.arg \in Occurrence
           /\ i.op \in QueueOps => i.arg \in Queue
           /\ i.op \in TimerOps \cup {"WaitOnOccurrence"} => i.timeout \in 0 .. Forever - 1
           /\ i.op \in {"Enqueue", "Dequeue", "PeekQueue"} =>
                i.timeout \in Int /\ i.timeout < Forever

VARIABLES
  timers,     \* Timer::_observerList: [clump, left], left in ticks
  observers,  \* the _observerList of each object: [clump, info]
  observing,  \* _observationCount of each clump
  setCount,   \* OccurrenceCore::_setCount
  seen,       \* the staticCount of each clump's WaitOnOccurrence
  timedOut,   \* the timedOut output of each clump's WaitOnOccurrence
  count,      \* QueueCore::_count
  length,     \* _elements->Length() of each queue: it grows and never shrinks
  hostCalls   \* host calls so far

objectVars == << setCount, seen, timedOut, count, length >>
waitVars == << timers, observers, observing >>
syncVars == << waitVars, objectVars, hostCalls >>
vars == << schedVars, syncVars >>

Object == Occurrence \cup Queue

\* The observer infos of a queue: who waits for an element, who waits for room.
DequeueInfo == 1
EnqueueInfo == -1

SyncInit ==
  /\ SchedInit
  /\ timers = << >>
  /\ observers = [x \in Object |-> << >>]
  /\ observing = [c \in Clump |-> 0]
  /\ setCount = [o \in Occurrence |-> 0]
  /\ seen = [c \in Clump |-> 0]
  /\ timedOut = [c \in Clump |-> FALSE]
  /\ count = [q \in Queue |-> 0]
  /\ length = [q \in Queue |-> 0]
  /\ hostCalls = 0

-----------------------------------------------------------------------------
(* The lists.                                                               *)

ClumpsOf(s) == [i \in 1 .. Len(s) |-> s[i].clump]
Listed(s) == Elements(ClumpsOf(s))

Without(s, clumps) == Chosen(s, {e \in Elements(s) : e.clump \notin clumps})

\* The object that the running clump's instruction names.
Operand == Instr(running).arg

\* How many timers at the front of s have less than the given time left.
Leading(s, left) ==
  CHOOSE n \in 0 .. Len(s) :
    /\ \A i \in 1 .. n : s[i].left < left
    /\ n < Len(s) => s[n + 1].left >= left

\* Timer::InitObservableTimerState: before the first timer that is not earlier.
InsertTimer(c, left) ==
  LET n == Leading(timers, left)
  IN  SubSeq(timers, 1, n) \o << [clump |-> c, left |-> left] >>
        \o SubSeq(timers, n + 1, Len(timers))

\* Mutated: only the first timer that is due is enqueued.
DueFirstOnly == SubSeq(timers, 1, IF Leading(timers, 1) = 0 THEN 0 ELSE 1)

\* Timer::CheckTimers pops the timers at the front that are due.
Due == SubSeq(timers, 1, Leading(timers, 1))
NotDue == SubSeq(timers, Leading(timers, 1) + 1, Len(timers))

\* ObservableCore::InsertObserver: at the end of the list of x.
InsertObserver(x, info) ==
  [observers EXCEPT ![x] = Append(@, [clump |-> running, info |-> info])]

\* ReserveObservationStatesWithTimeout(2, ..) and InsertObserver: wait for the
\* object and for the timer, then retry.
WaitOn(x, info, left) ==
  /\ observing[running] = 0
  /\ observing' = [observing EXCEPT ![running] = 2]
  /\ timers' = InsertTimer(running, left)
  /\ observers' = InsertObserver(x, info)
  /\ Suspend(savePc, runQueue)
  /\ UNCHANGED << shortCount, caller, waiting >>

\* The clumps that ObserveStateChange(info, wakeAll) takes off the list of x.
Matching(x, info) ==
  ClumpsOf(Chosen(observers[x], {e \in Elements(observers[x]) : e.info = info}))

\* Mutated: a queue never tells the clumps that wait for room.
FirstMatchingNoRoom(x, info) ==
  LET m == Matching(x, info)
  IN  IF m = << >> \/ info = EnqueueInfo THEN << >> ELSE << Head(m) >>

FirstMatching(x, info) ==
  LET m == Matching(x, info) IN IF m = << >> THEN << >> ELSE << Head(m) >>

\* Its asserts, and those of EnqueueRunQueue, on the clumps that it wakes.
MayWake(clumps) ==
  /\ IsInjective(clumps)
  /\ \A i \in 1 .. Len(clumps) :
       shortCount[clumps[i]] = 0 /\ MayLink(clumps[i]) /\ observing[clumps[i]] = 2

\* Mutated: the timers of the woken clumps go on; the woken clumps, or the one
\* whose wait is over, stay on the list of the object.
TimersLeftRunning(clumps, done) == Without(timers, done)
ObserversLeftWoken(x, clumps, done) == Without(observers[x], done)

TimersLeft(clumps, done) == Without(timers, Elements(clumps) \cup done)
ObserversLeft(x, clumps, done) == Without(observers[x], Elements(clumps) \cup done)

\* It enqueues them and stops their timers.  Then the running clump, if it is
\* the one waking, clears what is left of its own wait (ClearObservationStates).
Wake(clumps, done) ==
  /\ MayWake(clumps)
  /\ runQueue' = runQueue \o clumps
  /\ timers' = TimersLeft(clumps, done)
  /\ observers' = [x \in Object |-> ObserversLeft(x, clumps, done)]
  /\ observing' = [c \in Clump |-> IF c \in done THEN 0 ELSE observing[c]]
  /\ UNCHANGED << shortCount, caller, waiting >>

\* The wait is over without waking anyone.
ClearObservationStates == Wake(<< >>, {running})

-----------------------------------------------------------------------------
(* Waiting for time.                                                        *)

\* WaitUntilTickCount: the timer is the only state and nothing is retried.
WaitUntil(left) ==
  /\ observing[running] = 0
  /\ NextIsNull(running) /\ shortCount[running] = 0
  /\ timers' = InsertTimer(running, left)
  /\ Suspend([savePc EXCEPT ![running] = @ + 1], runQueue)
  /\ UNCHANGED << shortCount, caller, waiting, observers, observing >>

\* WaitTickCount, WaitMicroseconds, WaitMilliseconds, WaitUntilMicroseconds.
WaitTicks ==
  /\ Executes("WaitTicks")
  /\ WaitUntil(Instr(running).timeout)
  /\ UNCHANGED << objectVars, hostCalls >>

\* The WaitUntil...Multiple functions: until the next multiple, which is never
\* now; a multiple of zero only ends the burst early.
WaitMultiple ==
  /\ Executes("WaitMultiple")
  /\ \/ \E left \in 1 .. Instr(running).timeout : WaitUntil(left)
     \/ /\ Instr(running).timeout = 0
        /\ Continue
        /\ UNCHANGED << shortCount, caller, waiting, runQueue, waitVars >>
  /\ UNCHANGED << objectVars, hostCalls >>

\* Time passes.  An expired timer keeps its order: overdue (-1) before due (0).
Tick ==
  /\ \E i \in 1 .. Len(timers) : timers[i].left \in 0 .. Forever - 1
  /\ timers' = [i \in 1 .. Len(timers) |->
                  [timers[i] EXCEPT !.left = IF @ \in 0 .. Forever - 1 THEN @ - 1 ELSE @]]
  /\ UNCHANGED << schedVars, observers, observing, objectVars, hostCalls >>

-----------------------------------------------------------------------------
(* Occurrences.                                                             *)

\* OccurrenceCore::SetOccurrence counts and wakes every clump that waits.
SetOccurrence(o) ==
  /\ setCount' = [setCount EXCEPT ![o] = @ + 1]
  /\ Wake(Matching(o, setCount[o] + 1), {})
  /\ UNCHANGED << seen, timedOut, count, length >>

SetInstruction ==
  /\ Executes("SetOccurrence")
  /\ SetOccurrence(Operand)
  /\ Continue
  /\ UNCHANGED hostCalls

\* Occurrence_Set, called by the host when an asynchronous operation completes.
HostSets(o) ==
  /\ phase = "host"
  /\ hostCalls < MaxHostCalls
  /\ hostCalls' = hostCalls + 1
  /\ SetOccurrence(o)
  /\ UNCHANGED << prog, savePc, running, phase, reply, stopped >>

\* Mutated: off by one.
HasOccurredTwice(o) == ~ Instr(running).ignorePrevious /\ setCount[o] > seen[running] + 1

\* HasOccurred, for a wait that does not ignore what happened before.
HasOccurred(o) == ~ Instr(running).ignorePrevious /\ setCount[o] > seen[running]

\* A timeout of 0 makes a timer that never expires.
OccurrenceTimeout == IF Instr(running).timeout = 0 THEN Forever ELSE Instr(running).timeout

WaitOnOccurrence ==
  /\ Executes("WaitOnOccurrence")
  /\ ~ HasOccurred(Operand) /\ observing[running] = 0
  /\ WaitOn(Operand, setCount[Operand] + 1, OccurrenceTimeout)
  /\ UNCHANGED << objectVars, hostCalls >>

\* Woken, or with an occurrence already seen, the wait ends.  It reports a
\* timeout if the list of the occurrence is not empty.
OccurrenceEnds ==
  /\ Executes("WaitOnOccurrence")
  /\ HasOccurred(Operand) \/ observing[running] # 0
  /\ seen' = [seen EXCEPT ![running] = setCount[Operand]]
  /\ timedOut' = [timedOut EXCEPT ![running] = observers[Operand] # << >>]
  /\ ClearObservationStates
  /\ Continue
  /\ UNCHANGED << setCount, count, length, hostCalls >>

-----------------------------------------------------------------------------
(* Queues.                                                                  *)

\* Mutated: off by one.
IsOverfull(q) == MaxSize[q] # Growable /\ count[q] > MaxSize[q]

IsFull(q) == MaxSize[q] # Growable /\ count[q] = MaxSize[q]

\* QueueCore::HasRoom looks at the length of the buffer.
HasRoom(q) == MaxSize[q] # Growable /\ length[q] + 1 <= MaxSize[q]

Add(q) ==
  /\ count' = [count EXCEPT ![q] = @ + 1]
  /\ length' = [length EXCEPT ![q] = IF count[q] = @ THEN @ + 1 ELSE @]

\* Enqueue and EnqueueFront with room: add the element and wake one clump that
\* waits to dequeue.
Enqueue ==
  /\ Executes("Enqueue")
  /\ ~ IsFull(Operand)
  /\ Add(Operand)
  /\ Wake(FirstMatching(Operand, DequeueInfo), {running})
  /\ Continue
  /\ UNCHANGED << setCount, seen, timedOut, hostCalls >>

\* LossyEnqueue: with no room it first drops the front element, waking nobody.
LossyEnqueue ==
  /\ Executes("LossyEnqueue")
  /\ IF MaxSize[Operand] # Growable /\ ~ HasRoom(Operand) /\ count[Operand] > 0
     THEN UNCHANGED << count, length >>
     ELSE Add(Operand)
  /\ Wake(FirstMatching(Operand, DequeueInfo), {running})
  /\ Continue
  /\ UNCHANGED << setCount, seen, timedOut, hostCalls >>

\* Dequeue with an element: take it and wake one clump that waits for room.
Dequeue ==
  /\ Executes("Dequeue")
  /\ count[Operand] > 0
  /\ count' = [count EXCEPT ![Operand] = @ - 1]
  /\ Wake(FirstMatching(Operand, EnqueueInfo), {running})
  /\ Continue
  /\ UNCHANGED << length, setCount, seen, timedOut, hostCalls >>

\* PeekQueue with an element only looks.
PeekQueue ==
  /\ Executes("PeekQueue")
  /\ count[Operand] > 0
  /\ ClearObservationStates
  /\ Continue
  /\ UNCHANGED << objectVars, hostCalls >>

\* FlushQueue dequeues element after element, each waking one enqueuer.
FlushQueue ==
  /\ Executes("FlushQueue")
  /\ count' = [count EXCEPT ![Operand] = 0]
  /\ LET m == Matching(Operand, EnqueueInfo)
     IN  Wake(SubSeq(m, 1, IF count[Operand] < Len(m) THEN count[Operand] ELSE Len(m)), {})
  /\ Continue
  /\ UNCHANGED << length, setCount, seen, timedOut, hostCalls >>

\* What a queue operation waits for when it cannot complete.
Blocked(info) ==
  \/ info = EnqueueInfo /\ Executes("Enqueue") /\ IsFull(Operand)
  \/ /\ info = DequeueInfo
     /\ Executes("Dequeue") \/ Executes("PeekQueue")
     /\ count[Operand] = 0

QueueTimeout == IF Instr(running).timeout < 0 THEN Forever ELSE Instr(running).timeout

\* HandleQueueReschedule, the first time: wait, for ever if the timeout is
\* negative.
WaitOnQueue ==
  /\ \E info \in {EnqueueInfo, DequeueInfo} :
       /\ Blocked(info)
       /\ observing[running] = 0 /\ Instr(running).timeout # 0
       /\ WaitOn(Operand, info, QueueTimeout)
  /\ UNCHANGED << objectVars, hostCalls >>

\* The retry of a clump whose timer has stopped, or a zero timeout: give up.
GiveUpOnQueue ==
  /\ \E info \in {EnqueueInfo, DequeueInfo} : Blocked(info)
  /\ \/ observing[running] # 0 /\ running \notin Listed(timers)
     \/ observing[running] = 0 /\ Instr(running).timeout = 0
  /\ ClearObservationStates
  /\ Continue
  /\ UNCHANGED << objectVars, hostCalls >>

-----------------------------------------------------------------------------
(* The composition with the scheduler.                                      *)

SyncInstruction ==
  \/ ClumpInstruction /\ UNCHANGED syncVars
  \/ WaitTicks
  \/ WaitMultiple
  \/ SetInstruction
  \/ WaitOnOccurrence
  \/ OccurrenceEnds
  \/ Enqueue
  \/ LossyEnqueue
  \/ Dequeue
  \/ PeekQueue
  \/ FlushQueue
  \/ WaitOnQueue
  \/ GiveUpOnQueue

\* CheckTimers enqueues the clumps that are due, on entry and after each burst.
CheckTimers ==
  /\ IsInjective(ClumpsOf(Due))
  /\ \A c \in Listed(Due) : shortCount[c] = 0 /\ MayLink(c)
  /\ timers' = NotDue
  /\ UNCHANGED << observers, observing, objectVars, hostCalls >>

ExecuteSlicesWithTimers ==
  CheckTimers /\ EnterSlices(runQueue \o ClumpsOf(Due), NotDue # << >>)

EndBurstWithTimers ==
  CheckTimers /\ LeaveBurst(runQueue \o ClumpsOf(Due), NotDue # << >>)

HostStarts(c) ==
  /\ hostCalls < MaxHostCalls
  /\ hostCalls' = hostCalls + 1
  /\ PressGo(c)
  /\ UNCHANGED << waitVars, objectVars >>

SyncNext ==
  \/ SyncInstruction
  \/ Tick
  \/ \E c \in TopVI : HostStarts(c)
  \/ \E o \in Occurrence : HostSets(o)
  \/ ExecuteSlicesWithTimers
  \/ EndBurstWithTimers

SyncSpec == SyncInit /\ [][SyncNext]_vars

(***************************************************************************)
(* Fairness: that of the scheduler; and the clock does not stop.  The host *)
(* calls again after the delay ExecuteSlices asks for, kMaxExecWakeUpTime  *)
(* at most, as long as the answer is not Finished.                         *)
(***************************************************************************)
FairSyncSpec ==
  /\ SyncSpec
  /\ WF_vars(SyncInstruction)
  /\ WF_vars(EndBurstWithTimers)
  /\ WF_vars(ExecuteSlicesWithTimers)
  /\ WF_vars(Tick)
-----------------------------------------------------------------------------
(* Properties.                                                              *)

(***************************************************************************)
(* Types of the waiting state; a queue is never beyond its buffer, nor its *)
(* buffer beyond its bound (the asserts of CopyDataToQueueElement).        *)
(***************************************************************************)
SyncTypeOK ==
  /\ SchedTypeOK
  /\ timers \in Seq([clump : Clump, left : -1 .. Forever])
  /\ observers \in [Object -> Seq([clump : Clump, info : Int])]
  /\ observing \in [Clump -> {0, 2}]
  /\ setCount \in [Occurrence -> Nat]
  /\ seen \in [Clump -> Nat]
  /\ timedOut \in [Clump -> BOOLEAN]
  /\ count \in [Queue -> Nat]
  /\ length \in [Queue -> Nat]
  /\ \A q \in Queue :
       count[q] <= length[q] /\ (MaxSize[q] # Growable => length[q] <= MaxSize[q])
  /\ hostCalls \in 0 .. MaxHostCalls

(***************************************************************************)
(* No clump is lost or scheduled twice, waiting included: a suspended      *)
(* waiter is in the timer list, once, and in none of the scheduler's       *)
(* places; every active clump is in one of them.                           *)
(***************************************************************************)
OnePlaceOrTimer ==
  /\ LinkedOnce
  /\ IsInjective(ClumpsOf(timers))
  /\ \A c \in Clump :
       /\ shortCount[c] = 0 <=>
            c \in Listed(timers) \/ \E place \in Whereabouts : IsAt(place, c)
       /\ \A place \in Whereabouts : IsAt(place, c) => c \notin Listed(timers)
       /\ \A here, there \in Whereabouts : IsAt(here, c) /\ IsAt(there, c) => here = there

(***************************************************************************)
(* No wakeup is lost: while a clump sleeps waiting for an element, every   *)
(* element of the queue has a clump that was woken for it and has not yet  *)
(* tried again; and so for every free place and a clump waiting for room.  *)
(***************************************************************************)
Woken(q, op) ==
  {c \in Clump : observing[c] = 2 /\ c \notin Listed(timers)
                   /\ Instr(c).op = op /\ Instr(c).arg = q}

Asleep(q, op) == {c \in Listed(observers[q]) : Instr(c).op = op /\ c \in Listed(timers)}

NoLostWakeup ==
  \A q \in Queue :
    /\ Asleep(q, "Dequeue") # {} => count[q] <= Cardinality(Woken(q, "Dequeue"))
    /\ Asleep(q, "Enqueue") # {} => MaxSize[q] - count[q] <= Cardinality(Woken(q, "Enqueue"))

(***************************************************************************)
(* The asserts met by the next instruction when it wakes the clumps that   *)
(* wait for its object: none of them is in the run queue already           *)
(* (VIClumpQueue::Enqueue: "The clump should not be in any other queue").  *)
(***************************************************************************)
WakeAssertsHold ==
  running # NoClump =>
    LET op == Instr(running).op
    IN  /\ op = "SetOccurrence" => MayWake(Matching(Operand, setCount[Operand] + 1))
        /\ op \in {"Enqueue", "LossyEnqueue"} => MayWake(FirstMatching(Operand, DequeueInfo))
        /\ op = "Dequeue" => MayWake(FirstMatching(Operand, EnqueueInfo))
        /\ op = "FlushQueue" => MayWake(Matching(Operand, EnqueueInfo))

(***************************************************************************)
(* In a program whose waits have no finite timeout those asserts hold: a   *)
(* clump is woken by one state change, and whatever woke it has taken it   *)
(* off every list from which another could wake it.                        *)
(***************************************************************************)
WaitsWithoutTimers ==
  \A c \in Clump : \A i \in 1 .. Len(prog[c]) :
    /\ prog[c][i].op \in {"Enqueue", "Dequeue", "PeekQueue"} => prog[c][i].timeout <= 0
    /\ prog[c][i].op = "WaitOnOccurrence" => prog[c][i].timeout = 0

WokenByOneOnly == WaitsWithoutTimers => WakeAssertsHold

(***************************************************************************)
(* The running clump leaves its instruction op in this step.               *)
(***************************************************************************)
Passes(op) ==
  running # NoClump /\ Instr(running).op = op /\ savePc'[running] # savePc[running]

(***************************************************************************)
(* A Dequeue with a negative timeout goes on only with an element          *)
(* (HandleQueueReschedule: "-1 will wait forever").                        *)
(***************************************************************************)
ForeverWaits ==
  [][Passes("Dequeue") /\ Instr(running).timeout < 0 =>
       count'[Operand] = count[Operand] - 1]_vars

(***************************************************************************)
(* A timed wait ends: the clump of every finite timer runs again.          *)
(***************************************************************************)
TimedWaitsEnd ==
  \A c \in Clump :
    (\E i \in 1 .. Len(timers) : timers[i].clump = c /\ timers[i].left < Forever)
      ~> running = c

(***************************************************************************)
(* Every clump that has been started runs to its Done.                     *)
(***************************************************************************)
EveryoneFinishes == \A c \in Clump : shortCount[c] = 0 ~> shortCount[c] = FireCount[c]
=============================================================================
