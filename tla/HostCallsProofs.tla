-------------------------- MODULE HostCallsProofs --------------------------
(***************************************************************************)
(* Proofs about HostCalls, for any clumps, any programs and any number of  *)
(* rounds: the pump never stops while a clump has something to do, and a   *)
(* clump that waits for an answer gets its own.                            *)
(***************************************************************************)
EXTENDS HostCalls, ListProofs, FiniteSetTheorems

\* A queue of whatever: what is proved needs no types of requests.
IsASequence(q) == q \in Seq(ToSet(q))

\* The tasks by which the pump goes on or ends are never given out twice.
PumpTasks(bag) == {t \in DOMAIN bag : t.kind # "set"}
OnceEach(bag) == \A t \in PumpTasks(bag) : bag[t] = 1

EndTasks == {t \in BagToSet(tasks) : t.kind \in {"resolve", "reject"}}

HostTypes ==
  /\ prog \in Programs
  /\ IsASequence(queue)
  /\ inside \in {NotInside, "begun", "worked"}
  /\ promise \in {"none", "pending", "resolved", "rejected"}
  /\ token \in Nat
  /\ pc \in [Clump -> Nat] /\ \A c \in Clump : pc[c] \in DOMAIN prog[c]
  /\ round \in [Clump -> Nat]
  /\ observer \in [Clump -> Nat]
  /\ DOMAIN setCount = Clump /\ \A c \in Clump : setCount[c] \in [DOMAIN prog[c] -> Nat]
  /\ OnceEach(tasks)

\* By which task the pump goes on.
NextSlices(t) ==
  /\ SlicesTasks = {t} /\ EndTasks = {}
  /\ token = t.token /\ token # 0
  /\ running = NoClump
  /\ t.sleeps => queue = << >>

TheEnd(t) ==
  /\ EndTasks = {t} /\ SlicesTasks = {}
  /\ token = 0
  /\ t = [kind |-> "resolve"] => \A c \in Clump : Finished(c)

PumpState ==
  /\ inside # NotInside => promise = "pending"
  /\ promise # "pending" => token = 0
  /\ promise # "pending" \/ inside # NotInside => SlicesTasks = {} /\ EndTasks = {}
  /\ promise = "none" => running = NoClump
  /\ promise = "pending" /\ inside = NotInside => \E t : NextSlices(t) \/ TheEnd(t)

\* A clump that has not finished is ready, or waits with a timer.
NobodyForgotten == \A c \in Clump : Finished(c) \/ c \in Ready \/ observer[c] # 0

HostInv == HostTypes /\ PumpState /\ NobodyForgotten

-----------------------------------------------------------------------------
(* Queues and bags.                                                         *)

LEMMA Sequences ==
  ASSUME NEW S, NEW q \in Seq(S)
  PROVE  IsASequence(q)
<1>1. q \in [1 .. Len(q) -> S] /\ Len(q) \in Nat
  OBVIOUS
<1>2. q \in [1 .. Len(q) -> ToSet(q)]
  BY <1>1 DEF ToSet
<1> QED BY <1>1, <1>2 DEF IsASequence

LEMMA Appended ==
  ASSUME NEW q, IsASequence(q), NEW c
  PROVE  /\ IsASequence(Append(q, c))
         /\ ToSet(Append(q, c)) = ToSet(q) \cup {c}
         /\ Append(q, c) # << >>
<1> DEFINE S == ToSet(q) \cup {c}
           r == Append(q, c)
<1>1. q \in Seq(S) /\ c \in S
  BY DEF IsASequence
<1>2. r \in Seq(S) /\ Len(r) = Len(q) + 1 /\ Len(q) \in Nat
      /\ \A i \in 1 .. Len(r) : r[i] = IF i = Len(q) + 1 THEN c ELSE q[i]
  BY <1>1
<1>3. DOMAIN r = 1 .. Len(r) /\ DOMAIN q = 1 .. Len(q)
  BY <1>1, <1>2
<1>4. ToSet(r) = S
  <2>1. \A i \in DOMAIN r : r[i] \in S
    BY <1>2
  <2>2. \A i \in DOMAIN q : i \in DOMAIN r /\ r[i] = q[i]
    BY <1>2, <1>3
  <2>3. Len(r) \in DOMAIN r /\ r[Len(r)] = c
    BY <1>2, <1>3
  <2> QED BY <2>1, <2>2, <2>3 DEF ToSet
<1>5. IsASequence(r)
  <2> HIDE DEF S, r
  <2> QED BY <1>2, Sequences
<1>6. r # << >>
  BY <1>2
<1> QED BY <1>4, <1>5, <1>6

LEMMA Taken ==
  ASSUME NEW q, IsASequence(q), q # << >>
  PROVE  IsASequence(Tail(q)) /\ ToSet(q) = ToSet(Tail(q)) \cup {Head(q)}
<1> DEFINE S == ToSet(q)
           r == Tail(q)
<1>1. q \in Seq(S) /\ Len(q) \in Nat /\ Len(q) # 0
  BY DEF IsASequence
<1>2. r \in Seq(S) /\ Len(r) = Len(q) - 1 /\ \A i \in 1 .. Len(r) : r[i] = q[i + 1]
  BY <1>1
<1>3. DOMAIN r = 1 .. Len(r) /\ DOMAIN q = 1 .. Len(q) /\ Head(q) = q[1]
  BY <1>1, <1>2
<1>4. \A i \in DOMAIN q : i = 1 \/ (i - 1 \in DOMAIN r /\ r[i - 1] = q[i])
  BY <1>1, <1>2, <1>3
<1>5. \A i \in DOMAIN r : i + 1 \in DOMAIN q /\ r[i] = q[i + 1]
  BY <1>1, <1>2, <1>3
<1>6. 1 \in DOMAIN q
  BY <1>1, <1>3
<1>7. IsASequence(r)
  <2> HIDE DEF S, r
  <2> QED BY <1>2, Sequences
<1>8. S = {q[i] : i \in DOMAIN q} /\ ToSet(r) = {r[i] : i \in DOMAIN r}
  BY DEF ToSet
<1>9. ToSet(r) \subseteq S /\ Head(q) \in S
  BY <1>3, <1>5, <1>6, <1>8
<1>10. S \subseteq ToSet(r) \cup {Head(q)}
  BY <1>3, <1>4, <1>8
<1> QED BY <1>7, <1>9, <1>10

\* Who is in the queue runs now, or is in the queue still.
LEMMA Dequeued ==
  ASSUME NEW q, IsASequence(q), Dequeue(q)
  PROVE  /\ IsASequence(queue')
         /\ \A c \in Clump : c \in ToSet(q) => c \in Ready'
         /\ (running' = NoClump /\ q = << >>) \/ q # << >>
<1>1. CASE q = << >>
  <2>1. ToSet(q) = {}
    BY <1>1 DEF ToSet
  <2> QED BY <1>1, <2>1 DEF Dequeue
<1>2. CASE q # << >>
  BY <1>2, Taken, HostAssumption DEF Dequeue, Ready
<1> QED BY <1>1, <1>2

LEMMA PumpTaskAdded ==
  ASSUME NEW t, t.kind # "set", t \notin PumpTasks(tasks), OnceEach(tasks), tasks' = tasks (+) Timeout(t)
  PROVE  PumpTasks(tasks') = PumpTasks(tasks) \cup {t} /\ OnceEach(tasks')
BY DEF PumpTasks, OnceEach, Timeout, SetToBag, (+)

LEMMA SetTasksAdded ==
  ASSUME NEW bag, \A t \in DOMAIN bag : t.kind = "set", OnceEach(tasks), tasks' = tasks (+) bag
  PROVE  PumpTasks(tasks') = PumpTasks(tasks) /\ OnceEach(tasks')
BY DEF PumpTasks, OnceEach, (+)

LEMMA TaskTaken ==
  ASSUME NEW t \in DOMAIN tasks, OnceEach(tasks), NEW left, left = tasks (-) Timeout(t)
  PROVE  PumpTasks(left) = PumpTasks(tasks) \ {t} /\ OnceEach(left)
<1> DEFINE less == [e \in DOMAIN tasks |-> IF e = t THEN tasks[e] - 1 ELSE tasks[e]]
<1>1. left = [e \in {d \in DOMAIN less : less[d] > 0} |-> less[e]]
  BY DEF Timeout, SetToBag, (-)
<1>2. DOMAIN left = {d \in DOMAIN tasks : less[d] > 0}
  BY <1>1
<1>3. \A e \in PumpTasks(tasks) : less[e] = IF e = t THEN 0 ELSE 1
  BY DEF PumpTasks, OnceEach
<1>4. \A e \in DOMAIN left : e \in DOMAIN tasks /\ left[e] = less[e]
  BY <1>1, <1>2
<1> HIDE DEF less
<1>5. \A e \in DOMAIN tasks : e.kind # "set" => (e \in DOMAIN left <=> e # t)
  BY <1>2, <1>3 DEF PumpTasks
<1> QED BY <1>3, <1>4, <1>5 DEF PumpTasks, OnceEach

LEMMA SameTasks ==
  ASSUME PumpTasks(tasks') = PumpTasks(tasks)
  PROVE  SlicesTasks' = SlicesTasks /\ EndTasks' = EndTasks
BY DEF PumpTasks, SlicesTasks, EndTasks, BagToSet

-----------------------------------------------------------------------------
(* What steps have in common.                                               *)

\* Inside of ExecuteSlices the pump has nothing given to setTimeout.
LEMMA StillInside ==
  ASSUME PumpState, inside # NotInside, inside' # NotInside, UNCHANGED << promise, token >>,
         PumpTasks(tasks') = PumpTasks(tasks)
  PROVE  PumpState'
BY SameTasks DEF PumpState

\* Nothing that the pump looks at has changed.
LEMMA StillOutside ==
  ASSUME PumpState, inside = NotInside, UNCHANGED << inside, promise, token, running, queue, round >>,
         PumpTasks(tasks') = PumpTasks(tasks)
  PROVE  PumpState'
BY SameTasks DEF PumpState, NextSlices, TheEnd, Finished

\* _NextInstruction: the clump goes on, or has finished.
LEMMA GoesOn ==
  ASSUME HostTypes, NEW c \in Clump, NEW err, running = c, Goes(c, err), UNCHANGED prog
  PROVE  /\ pc' \in [Clump -> Nat] /\ \A d \in Clump : pc'[d] \in DOMAIN prog'[d]
         /\ round' \in [Clump -> Nat]
         /\ IsASequence(queue')
         /\ \A d \in Clump : Finished(d) \/ d \in Ready => Finished(d)' \/ d \in Ready'
<1> DEFINE last == pc[c] = Len(prog[c])
           done == last /\ round[c] + 1 = Rounds
<1>1. \A d \in Clump : prog[d] \in Seq(ToSet(prog[d])) /\ prog[d] # << >>
  BY HostAssumption DEF HostTypes
<1>2. \A d \in Clump : Len(prog[d]) \in Nat /\ Len(prog[d]) # 0 /\ DOMAIN prog[d] = 1 .. Len(prog[d])
  BY <1>1
<1>3. pc[c] \in 1 .. Len(prog[c]) /\ (~ last => pc[c] + 1 \in 1 .. Len(prog[c])) /\ 1 \in 1 .. Len(prog[c])
  BY <1>2 DEF HostTypes
<1>4. pc' = [pc EXCEPT ![c] = IF last THEN 1 ELSE @ + 1] /\ round' = [round EXCEPT ![c] = IF last THEN @ + 1 ELSE @]
  BY DEF Goes
<1>5. pc' \in [Clump -> Nat] /\ \A d \in Clump : pc'[d] \in DOMAIN prog'[d]
  BY <1>2, <1>3, <1>4 DEF HostTypes
<1>6. round' \in [Clump -> Nat] /\ \A d \in Clump : d # c => round'[d] = round[d]
  BY <1>4 DEF HostTypes
<1>7. CASE done
  <2>1. Finished(c)'
    BY <1>4, <1>7 DEF Finished, HostTypes
  <2>2. Dequeue(queue) /\ IsASequence(queue)
    BY <1>7 DEF Goes, HostTypes
  <2>3. IsASequence(queue') /\ \A d \in Clump : d \in ToSet(queue) => d \in Ready'
    BY <2>2, Dequeued
  <2> QED BY <1>5, <1>6, <2>1, <2>3 DEF Ready, Finished
<1>8. CASE ~ done
  <2>1. UNCHANGED << running, queue >>
    BY <1>8 DEF Goes
  <2>2. Ready' = Ready /\ c \in Ready
    BY <2>1, HostAssumption DEF Ready
  <2> QED BY <1>5, <1>6, <2>1, <2>2 DEF Finished, HostTypes
<1> QED BY <1>7, <1>8

\* An instruction that has done its work at once.
LEMMA PassesOn ==
  ASSUME HostInv, NEW c \in Clump, NEW err, Working(c), Goes(c, err),
         UNCHANGED << prog, observer, setCount, promise, token, tasks >>
  PROVE  HostInv'
<1>1. running = c /\ inside # NotInside /\ inside' = "worked" /\ inside' # NotInside
  BY DEF Working, NotInside
<1>2. PumpState'
  BY <1>1, StillInside DEF HostInv
<1>3. HostTypes /\ HostTypes'
  BY <1>1, GoesOn DEF HostInv, HostTypes
<1>4. NobodyForgotten'
  BY <1>1, <1>3, GoesOn DEF HostInv, NobodyForgotten
<1> QED BY <1>2, <1>3, <1>4 DEF HostInv

\* An instruction that waits: the clump leaves the processor, by its observer or by the
\* run queue.
LEMMA Suspends ==
  ASSUME HostInv, NEW c \in Clump, running = c, inside # NotInside, inside' = "worked",
         UNCHANGED << prog, pc, round, promise, token >>,
         NEW q, Dequeue(q), q = queue \/ q = Append(queue, c),
         observer' \in [Clump -> Nat], \A d \in Clump : d # c => observer'[d] = observer[d],
         observer'[c] # 0 \/ q = Append(queue, c),
         DOMAIN setCount' = Clump, \A d \in Clump : setCount'[d] \in [DOMAIN prog[d] -> Nat],
         PumpTasks(tasks') = PumpTasks(tasks), OnceEach(tasks')
  PROVE  HostInv'
<1>1. PumpState'
  BY StillInside DEF HostInv, NotInside
<1>2. IsASequence(queue) /\ IsASequence(q) /\ ToSet(queue) \subseteq ToSet(q)
      /\ (q = Append(queue, c) => c \in ToSet(q))
  BY Appended DEF HostInv, HostTypes
<1>3. IsASequence(queue') /\ \A d \in Clump : d \in ToSet(q) => d \in Ready'
  BY <1>2, Dequeued
<1>4. HostTypes'
  BY <1>3 DEF HostInv, HostTypes
<1>5. \A d \in Clump : Finished(d) => Finished(d)'
  BY DEF Finished
<1>6. \A d \in Clump : d # c /\ d \in Ready => d \in ToSet(q)
  BY <1>2 DEF Ready
<1>7. NobodyForgotten'
  <2> SUFFICES ASSUME NEW d \in Clump
               PROVE  Finished(d)' \/ d \in Ready' \/ observer'[d] # 0
    BY DEF NobodyForgotten
  <2>2. CASE d = c
    BY <2>2, <1>2, <1>3
  <2>3. CASE d # c
    BY <2>3, <1>3, <1>5, <1>6 DEF HostInv, NobodyForgotten
  <2> QED BY <2>2, <2>3
<1> QED BY <1>1, <1>4, <1>7 DEF HostInv

\* What happens outside of ExecuteSlices leaves the clumps as they are, and gives
\* setTimeout no task of the pump.
LEMMA Outside ==
  ASSUME HostInv, inside = NotInside,
         UNCHANGED << prog, queue, running, pc, round, observer, setCount, inside, promise, token >>,
         PumpTasks(tasks') = PumpTasks(tasks), OnceEach(tasks')
  PROVE  HostInv'
<1>1. PumpState'
  BY StillOutside DEF HostInv
<1>2. HostTypes'
  BY DEF HostInv, HostTypes
<1>3. NobodyForgotten'
  BY DEF HostInv, NobodyForgotten, Finished, Ready
<1> QED BY <1>1, <1>2, <1>3 DEF HostInv

\* setOccurrenceAsync only adds tasks that set occurrences.
LEMMA OccurrencesAreNoPumpTasks ==
  ASSUME HostInv, NEW calls, tasks' = SetOccurrencesAsync(calls)
  PROVE  PumpTasks(tasks') = PumpTasks(tasks) /\ OnceEach(tasks')
<1> DEFINE added == {SetTask(calls[k]) : k \in DOMAIN calls}
           bag == [task \in added |-> Cardinality({k \in DOMAIN calls : SetTask(calls[k]) = task})]
<1>1. \A t \in added : t.kind = "set"
  BY DEF SetTask
<1>2. DOMAIN bag = added
  OBVIOUS
<1>3. tasks' = tasks (+) bag
  BY DEF SetOccurrencesAsync
<1> HIDE DEF added, bag
<1> QED BY <1>1, <1>2, <1>3, SetTasksAdded DEF HostInv, HostTypes

-----------------------------------------------------------------------------
(* The steps of the pump.                                                   *)

\* No task is a slices task and an end.
LEMMA TwoKinds ==
  ASSUME NEW t \in PumpTasks(tasks), t.kind \in {"slices", "resolve", "reject"}
  PROVE  t \in SlicesTasks \/ t \in EndTasks
BY DEF PumpTasks, SlicesTasks, EndTasks, BagToSet

LEMMA StartKeeps ==
  ASSUME HostInv, ExecuteSlicesUntilClumpsFinished
  PROVE  HostInv'
<1>1. Dequeue(queue) /\ IsASequence(queue) /\ inside' = "begun" /\ promise' = "pending" /\ running = NoClump
  BY DEF ExecuteSlicesUntilClumpsFinished, HostInv, HostTypes, PumpState
<1>2. IsASequence(queue') /\ \A c \in Clump : c \in ToSet(queue) => c \in Ready'
  BY <1>1, Dequeued
<1>3. UNCHANGED << prog, stepVars, token, tasks >> /\ promise # "pending"
  BY DEF ExecuteSlicesUntilClumpsFinished
<1>4. HostTypes'
  BY <1>1, <1>2, <1>3 DEF HostInv, HostTypes, stepVars
<1>5. PumpState'
  BY <1>1, <1>3, SameTasks DEF HostInv, PumpState, NotInside
<1>6. NobodyForgotten'
  BY <1>1, <1>2, <1>3 DEF HostInv, NobodyForgotten, Ready, Finished, stepVars
<1> QED BY <1>4, <1>5, <1>6 DEF HostInv

LEMMA RotateKeeps ==
  ASSUME HostInv, Rotate
  PROVE  HostInv'
<1>1. /\ queue # << >> /\ running # NoClump /\ inside # NotInside
      /\ running' = Head(queue) /\ queue' = Append(Tail(queue), running)
      /\ UNCHANGED << prog, pc, round, observer, setCount, inside, promise, token, tasks >>
  BY DEF Rotate, stepVars, pumpVars, NotInside
<1>2. IsASequence(Tail(queue)) /\ ToSet(queue) = ToSet(Tail(queue)) \cup {Head(queue)}
  BY <1>1, Taken DEF HostInv, HostTypes
<1>3. IsASequence(queue') /\ ToSet(queue') = ToSet(Tail(queue)) \cup {running}
  BY <1>1, <1>2, Appended
<1>4. HostTypes'
  BY <1>1, <1>3 DEF HostInv, HostTypes
<1>5. PumpState'
  BY <1>1, StillInside DEF HostInv
<1>6. \A c \in Clump : c \in Ready => c \in Ready'
  BY <1>1, <1>2, <1>3, HostAssumption DEF Ready
<1>7. NobodyForgotten'
  BY <1>1, <1>6 DEF HostInv, NobodyForgotten, Finished
<1> QED BY <1>4, <1>5, <1>7 DEF HostInv

\* The answer of ExecuteSlices is one task: slices that sleep if nobody is ready, or the
\* end, if nobody waits either, and then everybody has finished.
LEMMA EndKeeps ==
  ASSUME HostInv, SlicesEnd
  PROVE  HostInv'
<1> DEFINE ready == IF running = NoClump THEN queue ELSE Append(queue, running)
           waiting == \E c \in Clump : observer[c] # 0
           finished == ready = << >> /\ ~ waiting
           next == Slices(NewToken, ready = << >>)
           given == IF finished THEN [kind |-> "resolve"] ELSE next
<1>1. /\ inside # NotInside /\ inside' = NotInside
      /\ queue' = ready /\ running' = NoClump
      /\ token' = IF finished THEN 0 ELSE next.token
      /\ tasks' = tasks (+) Timeout(given)
      /\ UNCHANGED << prog, pc, round, observer, setCount, promise >>
  BY DEF SlicesEnd, stepVars, NotInside
<1>2. promise = "pending" /\ SlicesTasks = {} /\ EndTasks = {}
  BY <1>1 DEF HostInv, PumpState
<1>3. NewToken = 1
  <2>1. Cardinality(SlicesTasks) = 0
    BY <1>2, FS_EmptySet
  <2>2. \A k : k \in 1 .. Cardinality(SlicesTasks) + 1 <=> k = 1
    BY <2>1
  <2>3. NewToken \in 1 .. Cardinality(SlicesTasks) + 1
    BY <1>2, <2>2 DEF NewToken
  <2> QED BY <2>2, <2>3
<1>4. next = [kind |-> "slices", token |-> 1, sleeps |-> (ready = << >>)]
  BY <1>3 DEF Slices
<1>5. given.kind \in {"slices", "resolve"} /\ given.kind # "set"
  BY <1>4
<1>6. given \notin PumpTasks(tasks)
  BY <1>2, <1>5, TwoKinds
<1>7. PumpTasks(tasks') = PumpTasks(tasks) \cup {given} /\ OnceEach(tasks')
  <2> HIDE DEF given
  <2> QED BY <1>1, <1>5, <1>6, PumpTaskAdded DEF HostInv, HostTypes
<1>8. SlicesTasks' = IF finished THEN {} ELSE {next}
  BY <1>2, <1>4, <1>7 DEF SlicesTasks, PumpTasks, BagToSet
<1>9. EndTasks' = IF finished THEN {given} ELSE {}
  BY <1>2, <1>4, <1>7 DEF EndTasks, PumpTasks, BagToSet
<1>10. IsASequence(ready) /\ ToSet(queue) \subseteq ToSet(ready) /\ (running # NoClump => running \in ToSet(ready))
  BY Appended DEF HostInv, HostTypes
<1>11. HostTypes'
  <2>1. token' \in Nat /\ inside' \in {NotInside, "begun", "worked"} /\ IsASequence(queue')
    BY <1>1, <1>4, <1>10
  <2> HIDE DEF ready, waiting, finished, next, given
  <2> QED BY <1>1, <1>7, <2>1 DEF HostInv, HostTypes
<1>12. \A c \in Clump : c \in Ready => c \in Ready' /\ c \in ToSet(ready)
  BY <1>1, <1>10, HostAssumption DEF Ready
<1>13. NobodyForgotten'
  BY <1>1, <1>12 DEF HostInv, NobodyForgotten, Finished
<1>14. PumpState'
  <2> PICK t : t = given
    OBVIOUS
  <2>1. CASE finished
    <3>1. ToSet(ready) = {}
      BY <2>1 DEF ToSet
    <3>2. \A c \in Clump : Finished(c)'
      BY <1>1, <1>12, <2>1, <3>1 DEF HostInv, NobodyForgotten, Finished
    <3>3. TheEnd(t)'
      BY <1>1, <1>8, <1>9, <2>1, <3>2 DEF TheEnd
    <3> QED BY <1>1, <1>2, <3>3 DEF PumpState
  <2>2. CASE ~ finished
    <3>1. t.token = 1 /\ (t.sleeps <=> ready = << >>) /\ token' = t.token /\ SlicesTasks' = {t} /\ EndTasks' = {}
      <4>1. t = next /\ given = next
        BY <2>2
      <4> HIDE DEF ready, waiting, finished, given
      <4>2. t.token = 1
        BY <1>4, <4>1
      <4>3. t.sleeps = (ready = << >>)
        BY <1>4, <4>1
      <4> HIDE DEF next
      <4> QED BY <1>1, <1>8, <1>9, <2>2, <4>1, <4>2, <4>3
    <3>2. queue' = ready /\ running' = NoClump
      BY <1>1
    <3>3. NextSlices(t)'
      <4> HIDE DEF ready, waiting, finished, next, given
      <4> QED BY <3>1, <3>2 DEF NextSlices
    <3> QED BY <1>1, <1>2, <3>3 DEF PumpState
  <2> QED BY <2>1, <2>2
<1> QED BY <1>11, <1>13, <1>14 DEF HostInv

LEMMA TimerKeeps ==
  ASSUME HostInv, inside = NotInside, NEW task \in BagToSet(tasks), RunTimer(task)
  PROVE  HostInv'
<1>1. /\ task.kind = "slices"
      /\ tasks' = tasks (-) Timeout(task)
      /\ inside' = "begun" /\ inside' # NotInside
      /\ Dequeue(queue) /\ IsASequence(queue)
      /\ UNCHANGED << prog, pc, round, observer, setCount, promise, token >>
  BY DEF RunTimer, stepVars, HostInv, HostTypes, NotInside
<1>2. task \in SlicesTasks
  BY <1>1 DEF SlicesTasks
<1>3. promise = "pending" /\ running = NoClump /\ SlicesTasks = {task} /\ EndTasks = {}
  BY <1>2 DEF HostInv, PumpState, NextSlices, TheEnd
<1>4. PumpTasks(tasks') = PumpTasks(tasks) \ {task} /\ OnceEach(tasks')
  BY <1>1, TaskTaken DEF HostInv, HostTypes, BagToSet
<1>5. SlicesTasks' = {} /\ EndTasks' = {}
  BY <1>3, <1>4 DEF SlicesTasks, EndTasks, PumpTasks, BagToSet
<1>6. IsASequence(queue') /\ \A c \in Clump : c \in ToSet(queue) => c \in Ready'
  BY <1>1, Dequeued
<1>7. HostTypes'
  BY <1>1, <1>4, <1>6 DEF HostInv, HostTypes
<1>8. PumpState'
  BY <1>1, <1>3, <1>5 DEF PumpState
<1>9. NobodyForgotten'
  BY <1>1, <1>3, <1>6 DEF HostInv, NobodyForgotten, Ready, Finished
<1> QED BY <1>7, <1>8, <1>9 DEF HostInv

LEMMA SettleKeeps ==
  ASSUME HostInv, inside = NotInside, NEW task \in BagToSet(tasks), RunSettle(task)
  PROVE  HostInv'
<1>1. /\ task.kind \in {"resolve", "reject"}
      /\ promise' \in {"resolved", "rejected"} /\ promise' # "pending" /\ promise' # "none"
      /\ tasks' = tasks (-) Timeout(task)
      /\ UNCHANGED << prog, queue, running, pc, round, observer, setCount, inside, token >>
  BY DEF RunSettle, clumpVars, stepVars
<1>2. task \in EndTasks
  BY <1>1 DEF EndTasks
<1>3. token = 0 /\ SlicesTasks = {} /\ EndTasks = {task}
  BY <1>2 DEF HostInv, PumpState, NextSlices, TheEnd
<1>4. PumpTasks(tasks') = PumpTasks(tasks) \ {task} /\ OnceEach(tasks')
  BY <1>1, TaskTaken DEF HostInv, HostTypes, BagToSet
<1>5. SlicesTasks' = {} /\ EndTasks' = {}
  BY <1>3, <1>4 DEF SlicesTasks, EndTasks, PumpTasks, BagToSet
<1>6. HostTypes'
  BY <1>1, <1>4 DEF HostInv, HostTypes
<1>7. PumpState'
  BY <1>1, <1>3, <1>5 DEF PumpState
<1>8. NobodyForgotten'
  BY <1>1 DEF HostInv, NobodyForgotten, Ready, Finished
<1> QED BY <1>6, <1>7, <1>8 DEF HostInv

\* An occurrence is set: its observer is woken, and the pump with it if it sleeps.
LEMMA OccurrenceKeeps ==
  ASSUME HostInv, inside = NotInside, NEW task \in BagToSet(tasks), RunSetOccurrence(task)
  PROVE  HostInv'
<1> DEFINE c == task.call.clump
           wakes == Wakes(c, task.at)
           ready == IF wakes THEN Append(queue, c) ELSE queue
           left == tasks (-) Timeout(task)
<1>1. /\ task.kind = "set"
      /\ setCount' = [setCount EXCEPT ![c][task.at] = @ + 1]
      /\ observer' = IF wakes THEN [observer EXCEPT ![c] = 0] ELSE observer
      /\ WakeUpCallback(left)
      /\ IF inside' = "begun" THEN Dequeue(ready) ELSE queue' = ready /\ UNCHANGED running
      /\ UNCHANGED << prog, pc, round, promise >>
  BY DEF RunSetOccurrence
<1>2. setCount' = [setCount EXCEPT ![c] = [setCount[c] EXCEPT ![task.at] = setCount[c][task.at] + 1]]
  BY <1>1
<1> HIDE DEF c, wakes, left
<1>3. DOMAIN setCount' = Clump /\ \A d \in Clump : setCount'[d] \in [DOMAIN prog[d] -> Nat]
  <2>1. ASSUME NEW d \in Clump
        PROVE  setCount'[d] \in [DOMAIN prog[d] -> Nat]
    <3>1. setCount[d] \in [DOMAIN prog[d] -> Nat]
      BY DEF HostInv, HostTypes
    <3>2. CASE d = c
      <4>1. setCount'[d] = [setCount[d] EXCEPT ![task.at] = setCount[d][task.at] + 1]
        BY <1>2, <3>2 DEF HostInv, HostTypes
      <4>2. \A i \in DOMAIN prog[d] : setCount[d][i] \in Nat
        BY <3>1
      <4>3. \A i \in DOMAIN prog[d] : setCount'[d][i] = IF i = task.at THEN setCount[d][i] + 1 ELSE setCount[d][i]
        BY <3>1, <4>1
      <4>4. setCount'[d] = [i \in DOMAIN prog[d] |-> setCount'[d][i]]
        BY <3>1, <4>1
      <4>5. \A i \in DOMAIN prog[d] : setCount'[d][i] \in Nat
        BY <4>2, <4>3
      <4> QED BY <4>4, <4>5
    <3>3. CASE d # c
      BY <1>2, <3>1, <3>3 DEF HostInv, HostTypes
    <3> QED BY <3>2, <3>3
  <2> QED BY <1>2, <2>1 DEF HostInv, HostTypes
<1>4. observer' \in [Clump -> Nat] /\ \A d \in Clump : observer'[d] = observer[d] \/ (d = c /\ wakes)
  BY <1>1 DEF HostInv, HostTypes
<1>5. IsASequence(ready) /\ ToSet(queue) \subseteq ToSet(ready) /\ (wakes => c \in ToSet(ready))
  BY Appended DEF HostInv, HostTypes
<1>6. PumpTasks(left) = PumpTasks(tasks) /\ OnceEach(left)
  <2>1. PumpTasks(left) = PumpTasks(tasks) \ {task} /\ OnceEach(left)
    BY TaskTaken DEF left, HostInv, HostTypes, BagToSet
  <2> QED BY <1>1, <2>1 DEF PumpTasks
<1>7. CASE promise # "pending" \/ token = 0
  <2>1. tasks' = left /\ UNCHANGED << inside, token >>
    BY <1>1, <1>7 DEF WakeUpCallback
  <2>2. queue' = ready /\ running' = running
    BY <1>1, <2>1 DEF NotInside
  <2>3. HostTypes'
    BY <1>1, <1>3, <1>4, <1>5, <1>6, <2>1, <2>2 DEF HostInv, HostTypes
  <2>4. SlicesTasks' = SlicesTasks /\ EndTasks' = EndTasks
    BY <1>6, <2>1, SameTasks
  <2>5. PumpState'
    <3>1. CASE promise # "pending"
      BY <1>1, <2>1, <2>2, <2>4, <3>1 DEF HostInv, PumpState
    <3>2. CASE promise = "pending"
      <4>1. PICK t : TheEnd(t)
        BY <1>7, <3>2 DEF HostInv, PumpState, NextSlices
      <4>2. TheEnd(t)'
        BY <1>1, <2>1, <2>4, <4>1 DEF TheEnd, Finished
      <4> QED BY <1>1, <2>1, <3>2, <4>2 DEF PumpState
    <3> QED BY <3>1, <3>2
  <2>6. \A d \in Clump : d \in Ready => d \in Ready'
    BY <1>5, <2>2 DEF Ready
  <2>7. \A d \in Clump : d = c /\ wakes => d \in Ready'
    BY <1>5, <2>2 DEF Ready
  <2>8. NobodyForgotten'
    BY <1>1, <1>4, <2>6, <2>7 DEF HostInv, NobodyForgotten, Finished
  <2> QED BY <2>3, <2>5, <2>8 DEF HostInv
<1>8. CASE promise = "pending" /\ token # 0
  <2>1. /\ tasks' = [t \in {u \in DOMAIN left : ~ (u.kind = "slices" /\ u.token = token)} |-> left[t]]
        /\ token' = 0 /\ inside' = "begun" /\ inside' # NotInside
    BY <1>1, <1>8 DEF WakeUpCallback, NotInside
  <2>2. PICK t : NextSlices(t)
    BY <1>8 DEF HostInv, PumpState, TheEnd
  <2>3. \A u \in PumpTasks(tasks') : u \in PumpTasks(tasks) /\ tasks'[u] = left[u]
                                     /\ ~ (u.kind = "slices" /\ u.token = token)
    BY <1>6, <2>1 DEF PumpTasks
  <2>4. OnceEach(tasks')
    BY <1>6, <2>3 DEF OnceEach
  <2>5. SlicesTasks' = {} /\ EndTasks' = {}
    <3>1. \A u \in PumpTasks(tasks') : u.kind # "slices"
      BY <2>2, <2>3 DEF NextSlices, SlicesTasks, PumpTasks, BagToSet
    <3>2. \A u \in PumpTasks(tasks') : u.kind \notin {"resolve", "reject"}
      BY <2>2, <2>3 DEF NextSlices, EndTasks, PumpTasks, BagToSet
    <3> QED BY <3>1, <3>2 DEF SlicesTasks, EndTasks, PumpTasks, BagToSet
  <2>6. Dequeue(ready)
    BY <1>1, <2>1
  <2>7. IsASequence(queue') /\ \A d \in Clump : d \in ToSet(ready) => d \in Ready'
    <3> HIDE DEF ready
    <3> QED BY <1>5, <2>6, Dequeued
  <2>8. running = NoClump
    BY <2>2 DEF NextSlices
  <2>9. HostTypes'
    BY <1>1, <1>3, <1>4, <2>1, <2>4, <2>7 DEF HostInv, HostTypes
  <2>10. PumpState'
    BY <1>1, <1>8, <2>1, <2>5 DEF PumpState
  <2>11. NobodyForgotten'
    BY <1>1, <1>4, <1>5, <2>7, <2>8 DEF HostInv, NobodyForgotten, Finished, Ready
  <2> QED BY <2>9, <2>10, <2>11 DEF HostInv
<1> QED BY <1>7, <1>8

-----------------------------------------------------------------------------
(* The instructions.                                                        *)

LEMMA MethodKeeps ==
  ASSUME HostInv, NEW c \in Clump, HttpClientMethod(c)
  PROVE  HostInv'
<1>1. Working(c) /\ running = c /\ inside # NotInside /\ inside' = "worked"
      /\ UNCHANGED << prog, setCount, promise, token >>
  BY DEF HttpClientMethod, Working
<1>2. CASE error[c] # NoError
  BY <1>1, <1>2, PassesOn DEF HttpClientMethod
<1>3. CASE error[c] = NoError
  <2>1. /\ \E calls : tasks' = SetOccurrencesAsync(calls)
        /\ observer' = [observer EXCEPT ![c] = CountAwaited(c)]
        /\ Dequeue(queue)
        /\ UNCHANGED << pc, round >>
    BY <1>3 DEF HttpClientMethod
  <2>2. PumpTasks(tasks') = PumpTasks(tasks) /\ OnceEach(tasks')
    BY <2>1, OccurrencesAreNoPumpTasks
  <2>3. CountAwaited(c) \in Nat /\ CountAwaited(c) # 0
    BY DEF CountAwaited, HostInv, HostTypes
  <2>4. /\ observer' \in [Clump -> Nat] /\ \A d \in Clump : d # c => observer'[d] = observer[d]
        /\ observer'[c] # 0
    BY <2>1, <2>3 DEF HostInv, HostTypes
  <2>5. DOMAIN setCount' = Clump /\ \A d \in Clump : setCount'[d] \in [DOMAIN prog[d] -> Nat]
    BY <1>1 DEF HostInv, HostTypes
  <2> QED BY <1>1, <2>1, <2>2, <2>4, <2>5, Suspends
<1> QED BY <1>2, <1>3

\* A call that throws leaves its clump running, and the pump ends by it.
LEMMA ThrowKeeps ==
  ASSUME HostInv, NEW c \in Clump, running = c, inside # NotInside, inside' = NotInside, token' = 0,
         UNCHANGED << prog, pc, round, running, queue, promise >>,
         tasks' = tasks (+) Timeout([kind |-> "reject"]),
         observer' \in [Clump -> Nat], \A d \in Clump : d # c => observer'[d] = observer[d],
         DOMAIN setCount' = Clump, \A d \in Clump : setCount'[d] \in [DOMAIN prog[d] -> Nat]
  PROVE  HostInv'
<1> PICK end : end = [kind |-> "reject"]
  OBVIOUS
<1>1. end.kind = "reject"
  OBVIOUS
<1>2. promise = "pending" /\ SlicesTasks = {} /\ EndTasks = {}
  BY DEF HostInv, PumpState
<1>3. end \notin PumpTasks(tasks)
  BY <1>1, <1>2, TwoKinds
<1>4. PumpTasks(tasks') = PumpTasks(tasks) \cup {end} /\ OnceEach(tasks')
  BY <1>1, <1>3, PumpTaskAdded DEF HostInv, HostTypes
<1>5. SlicesTasks' = {} /\ EndTasks' = {end}
  BY <1>1, <1>2, <1>4 DEF SlicesTasks, EndTasks, PumpTasks, BagToSet
<1>6. HostTypes'
  BY <1>4 DEF HostInv, HostTypes
<1>7. TheEnd(end)'
  BY <1>1, <1>5 DEF TheEnd
<1>8. PumpState'
  BY <1>2, <1>7 DEF PumpState
<1>9. NobodyForgotten'
  BY HostAssumption DEF HostInv, NobodyForgotten, Ready, Finished
<1> QED BY <1>6, <1>8, <1>9 DEF HostInv

LEMMA InvokeKeeps ==
  ASSUME HostInv, NEW c \in Clump, JavaScriptInvoke(c)
  PROVE  HostInv'
<1> DEFINE i == Instr(c)
           skips == i.errorWired /\ error[c] # NoError
<1>1. CASE skips
  <2>1. Working(c) /\ Goes(c, error[c]) /\ UNCHANGED << prog, observer, setCount, promise, token, tasks >>
    BY <1>1 DEF JavaScriptInvoke
  <2> QED BY <2>1, PassesOn
<1>2. CASE ~ skips
  <2>1. PICK s :
          /\ inside # NotInside /\ running = c
          /\ observer' = [observer EXCEPT ![c] = IF s.set THEN 0 ELSE CountAwaited(c)]
          /\ setCount' = IF s.set THEN [setCount EXCEPT ![c][pc[c]] = @ + 1] ELSE setCount
          /\ IF s.throws
             THEN /\ inside' = NotInside /\ token' = 0
                  /\ tasks' = tasks (+) Timeout([kind |-> "reject"])
                  /\ UNCHANGED << running, queue >>
             ELSE /\ inside' = "worked"
                  /\ Dequeue(IF s.set THEN Append(queue, c) ELSE queue)
                  /\ UNCHANGED << token, tasks >>
          /\ UNCHANGED << prog, pc, round, promise >>
    BY <1>2 DEF JavaScriptInvoke
  <2>2. CountAwaited(c) \in Nat /\ CountAwaited(c) # 0
    BY DEF CountAwaited, HostInv, HostTypes
  <2>3. /\ observer' \in [Clump -> Nat] /\ \A d \in Clump : d # c => observer'[d] = observer[d]
        /\ s.set \/ observer'[c] # 0
    BY <2>1, <2>2 DEF HostInv, HostTypes
  <2>4. DOMAIN setCount' = Clump /\ \A d \in Clump : setCount'[d] \in [DOMAIN prog[d] -> Nat]
    BY <2>1 DEF HostInv, HostTypes
  <2>5. CASE s.throws
    BY <2>1, <2>3, <2>4, <2>5, ThrowKeeps
  <2>6. CASE ~ s.throws
    <3> DEFINE q == IF s.set THEN Append(queue, c) ELSE queue
    <3>1. Dequeue(q) /\ (q = queue \/ q = Append(queue, c)) /\ (s.set => q = Append(queue, c))
      BY <2>1, <2>6
    <3>2. PumpTasks(tasks') = PumpTasks(tasks) /\ OnceEach(tasks')
      BY <2>1, <2>6 DEF HostInv, HostTypes
    <3> HIDE DEF q
    <3> QED BY <2>1, <2>3, <2>4, <2>6, <3>1, <3>2, Suspends
  <2> QED BY <2>5, <2>6
<1> QED BY <1>1, <1>2

LEMMA ResumeKeeps ==
  ASSUME HostInv, NEW c \in Clump, Resume(c)
  PROVE  HostInv'
<1>1. /\ running = c /\ inside # NotInside /\ inside' = "worked" /\ inside' # NotInside
      /\ observer' = [observer EXCEPT ![c] = 0]
      /\ Goes(c, error[c])
      /\ UNCHANGED << prog, setCount, promise, token, tasks >>
  BY DEF Resume, Working, NotInside
<1>2. /\ pc' \in [Clump -> Nat] /\ \A d \in Clump : pc'[d] \in DOMAIN prog'[d]
      /\ round' \in [Clump -> Nat]
      /\ IsASequence(queue')
      /\ \A d \in Clump : Finished(d) \/ d \in Ready => Finished(d)' \/ d \in Ready'
  BY <1>1, GoesOn DEF HostInv
<1>3. observer' \in [Clump -> Nat] /\ \A d \in Clump : d # c => observer'[d] = observer[d]
  BY <1>1 DEF HostInv, HostTypes
<1>4. c \in Ready
  BY <1>1, HostAssumption DEF Ready
<1>5. HostTypes'
  BY <1>1, <1>2, <1>3 DEF HostInv, HostTypes
<1>6. PumpState'
  BY <1>1, StillInside DEF HostInv
<1>7. NobodyForgotten'
  BY <1>2, <1>3, <1>4 DEF HostInv, NobodyForgotten
<1> QED BY <1>5, <1>6, <1>7 DEF HostInv

LEMMA ExecuteKeeps ==
  ASSUME HostInv, NEW c \in Clump, Execute(c)
  PROVE  HostInv'
<1>1. CASE HttpClientSimple(c)
  BY <1>1, PassesOn DEF HttpClientSimple
<1>2. CASE HttpClientClose(c)
  BY <1>2, PassesOn DEF HttpClientClose
<1>3. CASE CloseJavaScriptRefNum(c)
  BY <1>3, PassesOn DEF CloseJavaScriptRefNum
<1>4. CASE IsNotAJavaScriptRefnum(c)
  BY <1>4, PassesOn DEF IsNotAJavaScriptRefnum
<1> QED BY <1>1, <1>2, <1>3, <1>4, MethodKeeps, InvokeKeeps, ResumeKeeps DEF Execute

-----------------------------------------------------------------------------
(* The browser.                                                             *)

LEMMA AnsweredKeeps ==
  ASSUME HostInv, inside = NotInside, NEW m, Answered(m)
  PROVE  HostInv'
<1>1. PumpTasks(tasks') = PumpTasks(tasks) /\ OnceEach(tasks')
  BY OccurrencesAreNoPumpTasks DEF Answered
<1> QED BY <1>1, Outside DEF Answered

LEMMA PromiseKeeps ==
  ASSUME HostInv, NEW id, Settle(id)
  PROVE  HostInv'
<1>1. /\ inside = NotInside
      /\ tasks' = tasks (+) Timeout(SetTask(id)) \/ tasks' = tasks
      /\ UNCHANGED << prog, queue, running, pc, round, observer, setCount, inside, promise, token >>
  BY DEF Settle
<1>2. CASE tasks' = tasks
  BY <1>1, <1>2, Outside DEF HostInv, HostTypes
<1>3. CASE tasks' = tasks (+) Timeout(SetTask(id))
  <2>1. \A t \in DOMAIN Timeout(SetTask(id)) : t.kind = "set"
    BY DEF Timeout, SetToBag, SetTask
  <2>2. PumpTasks(tasks') = PumpTasks(tasks) /\ OnceEach(tasks')
    BY <1>3, <2>1, SetTasksAdded DEF HostInv, HostTypes
  <2> QED BY <1>1, <2>2, Outside
<1> QED BY <1>1, <1>2, <1>3

-----------------------------------------------------------------------------
(* The theorem.                                                             *)

LEMMA InitHolds == Init => HostInv
<1> SUFFICES ASSUME Init PROVE HostInv
  OBVIOUS
<1>1. queue \in [1 .. Cardinality(Clump) -> Clump] /\ ToSet(queue) = Clump
  <2> DEFINE n == Cardinality(Clump)
  <2>1. n \in Nat
    BY HostAssumption, FS_CardinalityType
  <2>2. \E f \in [1 .. n -> Clump] : IsInjective(f)
    <3>1. PICK m \in Nat : ExistsBijection(1 .. m, Clump)
      BY HostAssumption, FS_NatBijection
    <3>2. m = n
      BY <3>1, FS_CountingElements
    <3> QED BY <3>1, <3>2 DEF ExistsBijection, Bijection, Injection, IsInjective
  <2>3. queue \in [1 .. n -> Clump] /\ IsInjective(queue)
    BY <2>2 DEF Init, SetToSeq
  <2>4. queue \in Injection(1 .. n, Clump)
    BY <2>3 DEF Injection, IsInjective
  <2>5. IsFiniteSet(1 .. n) /\ Cardinality(1 .. n) = n
    BY <2>1, FS_Interval
  <2>6. queue \in Surjection(1 .. n, Clump)
    BY <2>4, <2>5, FS_Injection, HostAssumption
  <2> QED BY <2>3, <2>6 DEF Surjection, ToSet
<1>2. IsASequence(queue)
  <2>1. Cardinality(Clump) \in Nat
    BY HostAssumption, FS_CardinalityType
  <2> QED BY <1>1, <2>1 DEF IsASequence
<1>3. \A c \in Clump : prog[c] \in Seq(ToSet(prog[c])) /\ prog[c] # << >>
  BY HostAssumption DEF Init
<1>4. DOMAIN tasks = {}
  BY DEF Init, EmptyBag, SetToBag
<1>5. HostTypes
  BY <1>2, <1>3, <1>4 DEF Init, HostTypes, OnceEach, PumpTasks, NotInside
<1>6. PumpState
  BY <1>4 DEF Init, PumpState, SlicesTasks, EndTasks, BagToSet, NotInside
<1>7. NobodyForgotten
  BY <1>1 DEF NobodyForgotten, Ready
<1> QED BY <1>5, <1>6, <1>7 DEF HostInv

LEMMA NextKeeps == HostInv /\ [Next]_hostVars => HostInv'
<1> SUFFICES ASSUME HostInv, [Next]_hostVars PROVE HostInv'
  OBVIOUS
<1>1. CASE ExecuteSlicesUntilClumpsFinished
  BY <1>1, StartKeeps
<1>2. CASE SlicesEnd
  BY <1>2, EndKeeps
<1>3. CASE Rotate
  BY <1>3, RotateKeeps
<1>4. CASE AbortAllRunningRequests
  BY <1>4, AnsweredKeeps DEF AbortAllRunningRequests
<1>5. ASSUME NEW task \in BagToSet(tasks), RunTask(task) PROVE HostInv'
  BY <1>5, TimerKeeps, OccurrenceKeeps, SettleKeeps DEF RunTask
<1>6. ASSUME NEW c \in Clump, Execute(c) PROVE HostInv'
  BY <1>6, ExecuteKeeps
<1>7. ASSUME NEW id \in DOMAIN promises, Settle(id) PROVE HostInv'
  BY <1>7, PromiseKeeps
<1>8. ASSUME NEW r \in ToSet(http.tracker), RequestEvent(r) PROVE HostInv'
  BY <1>8, AnsweredKeeps DEF RequestEvent
<1>9. CASE UNCHANGED hostVars
  <2>1. /\ UNCHANGED << prog, queue, running, pc, round, observer, setCount >>
        /\ UNCHANGED << inside, promise, token, tasks >>
    BY <1>9 DEF hostVars, clumpVars, stepVars, pumpVars
  <2>2. HostTypes'
    BY <2>1 DEF HostInv, HostTypes
  <2>3. PumpState'
    BY <2>1 DEF HostInv, PumpState, NextSlices, TheEnd, SlicesTasks, EndTasks, Finished
  <2>4. NobodyForgotten'
    BY <2>1 DEF HostInv, NobodyForgotten, Finished, Ready
  <2> QED BY <2>2, <2>3, <2>4 DEF HostInv
<1> QED BY <1>1, <1>2, <1>3, <1>4, <1>5, <1>6, <1>7, <1>8, <1>9 DEF Next

LEMMA GoesOnAsStated == HostInv => PumpGoesOn
<1> SUFFICES ASSUME HostInv, promise = "pending"
             PROVE  IF inside # NotInside THEN SlicesTasks = {} /\ EndTasks = {}
                    ELSE /\ Cardinality(SlicesTasks) + Cardinality(EndTasks) = 1
                         /\ \A t \in SlicesTasks : t.token = token /\ (t.sleeps => queue = << >>)
                         /\ [kind |-> "resolve"] \in EndTasks => \A c \in Clump : Finished(c)
  BY DEF PumpGoesOn, EndTasks
<1>1. CASE inside # NotInside
  BY <1>1 DEF HostInv, PumpState
<1>2. CASE inside = NotInside
  <2>1. PICK t : NextSlices(t) \/ TheEnd(t)
    BY <1>2 DEF HostInv, PumpState
  <2>2. Cardinality({t}) = 1 /\ Cardinality({}) = 0
    BY FS_Singleton, FS_EmptySet
  <2>3. CASE NextSlices(t)
    BY <1>2, <2>2, <2>3 DEF NextSlices
  <2>4. CASE TheEnd(t)
    BY <1>2, <2>2, <2>4 DEF TheEnd
  <2> QED BY <2>1, <2>3, <2>4
<1> QED BY <1>1, <1>2

\* While executeSlicesUntilClumpsFinished has not settled its promise, exactly one task
\* of the event loop continues it; it does not sleep while a clump is ready, and resolves
\* only when every clump has finished: whatever requests and functions do, and when.
THEOREM PumpNeverStops == HostSpec => []PumpGoesOn
<1>1. HostSpec => []HostInv
  BY InitHolds, NextKeeps, PTL DEF HostSpec
<1> QED BY <1>1, GoesOnAsStated, PTL

-----------------------------------------------------------------------------
(* The calls a clump waits for: every call is answered once at most, the    *)
(* answer finds the clump in the call it belongs to, and a clump that goes  *)
(* on has it.                                                               *)


\* Who has been asked and has not answered.
Requested(c) == \E r \in Elements(http.tracker) : r.id.clump = c
Promised(c) == \E id \in DOMAIN promises : id.clump = c
Asked(c) == Requested(c) \/ Promised(c)

\* The answer of a clump that has not been passed to its occurrence yet.
SetTasks(c) == {t \in DOMAIN tasks : t.kind = "set" /\ t.call.clump = c}

\* A clump that waits waits for one answer, which somebody has still to give, or which is
\* on its way in one task of the event loop.  One that has been woken has its answer.
Place(c) ==
  /\ observer[c] # 0 => observing[c] /\ observer[c] = CountAwaited(c)
  /\ observing[c] /\ observer[c] = 0 => answered[c]
  /\ answered[c] => observing[c]
  /\ SetTasks(c) = IF answered[c] /\ observer[c] # 0 THEN {SetTask(Call(c))} ELSE {}
  /\ Asked(c) => observing[c] /\ ~ answered[c] /\ c \notin Ready
  /\ ~ (Requested(c) /\ Promised(c))
  /\ observer[c] # 0 /\ c \in Ready => Crashed /\ ~ answered[c]

SetTasksOnce == \A t \in DOMAIN tasks : t.kind = "set" => t.call.clump \in Clump /\ tasks[t] = 1

RunsOnce ==
  /\ queue \in Seq(Clump) /\ IsInjective(queue)
  /\ running \in Clump \cup {NoClump} /\ running \notin Elements(queue)

\* A manager of requests: what it has completed it does not track, and nobody is told twice.
Manager(m) ==
  /\ m = [clients |-> m.clients, next |-> m.next, tracker |-> m.tracker,
          completed |-> m.completed, responses |-> m.responses]
  /\ IsASequence(m.tracker) /\ IsASequence(m.responses)
  /\ \A r \in Elements(m.tracker) : r.id \notin m.completed
  /\ \A k \in 1 .. Len(m.responses) : m.responses[k].id \in m.completed
  /\ \A j, k \in 1 .. Len(m.responses) : m.responses[j].id = m.responses[k].id => j = k

Told(m) == {m.responses[k].id : k \in 1 .. Len(m.responses)}

HandlesOK(m) == m.next \in Nat \ {0} /\ \A h \in DOMAIN m.clients : h \in 1 .. m.next - 1

RequestsOK ==
  /\ Manager(http) /\ http.responses = << >>
  /\ \A r \in Elements(http.tracker) : r.id.clump \in Clump /\ r.id = Call(r.id.clump)
  /\ \A id \in http.completed :
       /\ id.clump \in Clump /\ id.n \in Nat /\ id.n <= Call(id.clump).n
       /\ id.n = Call(id.clump).n => observing[id.clump]

PromisesOK == \A id \in DOMAIN promises : id.clump \in Clump /\ id = Call(id.clump)

RefnumsOK(r) ==
  /\ r = [next |-> r.next, static |-> r.static, dynamic |-> r.dynamic]
  /\ r.next \in Nat
  /\ \A k \in DOMAIN r.dynamic \cup StaticCookies(r) : k \in 1 .. r.next
  /\ DOMAIN r.dynamic \cap StaticCookies(r) = {}

CallTypes == observing \in [Clump -> BOOLEAN] /\ answered \in [Clump -> BOOLEAN]

CallInv ==
  /\ CallTypes /\ SetTasksOnce /\ RunsOnce /\ RequestsOK /\ PromisesOK
  /\ HandlesOK(http) /\ RefnumsOK(refs)
  /\ \A c \in Clump : Place(c)

-----------------------------------------------------------------------------
(* Numbers of calls.                                                        *)

LEMMA CallNumbers ==
  ASSUME HostTypes, NEW c \in Clump
  PROVE  /\ Len(prog[c]) \in Nat \ {0} /\ pc[c] \in 1 .. Len(prog[c]) /\ round[c] \in Nat
         /\ Call(c).clump = c /\ Call(c).n = round[c] * Len(prog[c]) + pc[c]
         /\ Call(c).n \in Nat
<1>1. prog[c] \in Seq(ToSet(prog[c])) /\ prog[c] # << >>
  BY HostAssumption DEF HostTypes
<1>2. Len(prog[c]) \in Nat /\ Len(prog[c]) # 0 /\ DOMAIN prog[c] = 1 .. Len(prog[c])
  BY <1>1
<1>3. pc[c] \in 1 .. Len(prog[c]) /\ round[c] \in Nat
  BY <1>2 DEF HostTypes
<1> QED BY <1>2, <1>3 DEF Call

LEMMA Remainder ==
  ASSUME NEW L \in Nat, L # 0, NEW r \in Nat, NEW p \in 0 .. L - 1
  PROVE  (r * L + p) % L = p
OBVIOUS

\* The task of a call finds the instruction of the call.
LEMMA TaskFindsInstruction ==
  ASSUME HostTypes, NEW c \in Clump
  PROVE  /\ SetTask(Call(c)) = [kind |-> "set", call |-> Call(c), at |-> pc[c]]
         /\ SetTask(Call(c)).kind = "set" /\ SetTask(Call(c)).call.clump = c
<1> DEFINE L == Len(prog[c])
<1>1. L \in Nat /\ L # 0 /\ pc[c] - 1 \in 0 .. L - 1 /\ round[c] \in Nat /\ Call(c).clump = c
  BY CallNumbers
<1>2. Call(c).n - 1 = round[c] * L + (pc[c] - 1) /\ pc[c] \in Nat
  BY CallNumbers
<1> HIDE DEF L
<1>3. (Call(c).n - 1) % L = pc[c] - 1
  BY <1>1, <1>2, Remainder
<1>4. ((Call(c).n - 1) % L) + 1 = pc[c]
  BY <1>2, <1>3
<1> QED BY <1>1, <1>4 DEF SetTask, L

LEMMA OneMoreRound == \A r, l \in Nat : (r + 1) * l = r * l + l
OBVIOUS

\* The next instruction, of the same round or the next, is the next call.
LEMMA NextCall ==
  ASSUME HostTypes, NEW c \in Clump, NEW err, Goes(c, err), UNCHANGED prog
  PROVE  /\ Call(c)'.clump = c /\ Call(c)'.n = Call(c).n + 1
         /\ \A d \in Clump : d # c => Call(d)' = Call(d) /\ pc'[d] = pc[d]
<1> DEFINE L == Len(prog[c])
<1>1. L \in Nat \ {0} /\ pc[c] \in 1 .. L /\ round[c] \in Nat /\ Call(c).n = round[c] * L + pc[c]
  BY CallNumbers
<1>2. /\ pc' = [pc EXCEPT ![c] = IF pc[c] = L THEN 1 ELSE @ + 1]
      /\ round' = [round EXCEPT ![c] = IF pc[c] = L THEN @ + 1 ELSE @]
  BY DEF Goes
<1>3. Call(c)'.clump = c /\ Call(c)'.n = round'[c] * L + pc'[c]
  BY DEF Call
<1>4. CASE pc[c] = L
  <2>1. round'[c] = round[c] + 1 /\ pc'[c] = 1
    BY <1>2, <1>4 DEF HostTypes
  <2>2. (round[c] + 1) * L = round[c] * L + L
    BY <1>1, OneMoreRound
  <2> QED BY <1>1, <1>2, <1>3, <1>4, <2>1, <2>2 DEF Call, HostTypes
<1>5. CASE pc[c] # L
  <2>1. round'[c] = round[c] /\ pc'[c] = pc[c] + 1
    BY <1>2, <1>5 DEF HostTypes
  <2> QED BY <1>1, <1>2, <1>3, <1>5, <2>1 DEF Call, HostTypes
<1> QED BY <1>4, <1>5

-----------------------------------------------------------------------------
(* The run queue.                                                           *)

LEMMA SameElements == \A q : IsASequence(q) => ToSet(q) = Elements(q) /\ DOMAIN q = 1 .. Len(q)
<1> SUFFICES ASSUME NEW q, IsASequence(q)
             PROVE  ToSet(q) = Elements(q) /\ DOMAIN q = 1 .. Len(q)
  OBVIOUS
<1>1. DOMAIN q = 1 .. Len(q)
  BY DEF IsASequence
<1> QED BY <1>1 DEF ToSet, Elements

LEMMA ReadyElements ==
  ASSUME RunsOnce
  PROVE  Ready = Elements(queue) \cup ({running} \ {NoClump})
<1>1. IsASequence(queue)
  BY Sequences DEF RunsOnce
<1> QED BY <1>1, SameElements DEF Ready

\* Whoever was in the queue is ready, and nobody else.
LEMMA DequeuedOnce ==
  ASSUME NEW q \in Seq(Clump), IsInjective(q), Dequeue(q)
  PROVE  RunsOnce' /\ Ready' = Elements(q)
<1>1. RunsOnce' /\ Elements(q) = Elements(queue') \cup ({running'} \ {NoClump})
  <2>1. CASE q = << >>
    BY <2>1, EmptyElements DEF Dequeue, RunsOnce
  <2>2. CASE q # << >>
    <3>1. queue' = Tail(q) /\ running' = Head(q)
      BY <2>2 DEF Dequeue
    <3>2. /\ Head(q) \in Clump /\ Tail(q) \in Seq(Clump)
          /\ Elements(q) = {Head(q)} \cup Elements(Tail(q))
          /\ Head(q) \notin Elements(Tail(q)) /\ IsInjective(Tail(q))
      BY <2>2, HeadTailElements
    <3>3. Head(q) # NoClump
      BY <3>2, HostAssumption
    <3> QED BY <3>1, <3>2, <3>3 DEF RunsOnce
  <2> QED BY <2>1, <2>2
<1>2. IsASequence(queue')
  BY <1>1, Sequences DEF RunsOnce
<1>3. ToSet(queue') = Elements(queue')
  BY <1>2, SameElements
<1> QED BY <1>1, <1>3 DEF Ready

\* A clump that is not ready may be put into the queue.
LEMMA QueuedOnce ==
  ASSUME RunsOnce, NEW c \in Clump, c \notin Elements(queue)
  PROVE  /\ Append(queue, c) \in Seq(Clump) /\ IsInjective(Append(queue, c))
         /\ Elements(Append(queue, c)) = Elements(queue) \cup {c}
BY AppendElements DEF RunsOnce

-----------------------------------------------------------------------------
(* The manager of requests.                                                 *)

LEMMA Removed ==
  ASSUME NEW q, IsASequence(q), NEW id
  PROVE  /\ IsASequence(removeRequest(q, id))
         /\ Elements(removeRequest(q, id)) = {r \in Elements(q) : r.id # id}
<1> DEFINE T == ToSet(q)
           S == {r \in Elements(q) : r.id # id}
           left == Chosen(q, S)
<1>1. q \in Seq(T)
  BY DEF IsASequence
<1> HIDE DEF T, S
<1>2. left \in Seq(T) /\ Elements(left) = Elements(q) \cap S
  <2> PICK key : key = 0
    OBVIOUS
  <2> QED BY <1>1, ChosenElements
<1>3. IsASequence(left)
  <2> HIDE DEF left
  <2> QED BY <1>2, Sequences
<1> QED BY <1>2, <1>3 DEF S, removeRequest

\* A response is added to those there are.
LEMMA ResponseAdded ==
  ASSUME NEW q, IsASequence(q), NEW r
  PROVE  /\ IsASequence(Append(q, r)) /\ Len(q) \in Nat
         /\ Len(Append(q, r)) = Len(q) + 1
         /\ \A k \in 1 .. Len(q) : Append(q, r)[k] = q[k]
         /\ Append(q, r)[Len(q) + 1] = r
<1>1. q \in Seq(ToSet(q) \cup {r})
  BY DEF IsASequence
<1>2. IsASequence(Append(q, r))
  BY Appended
<1> QED BY <1>1, <1>2

\* completeRequest: the request is not tracked any more and has been answered, now or before.
LEMMA Completes ==
  ASSUME NEW m, Manager(m), NEW id, NEW answer
  PROVE  LET n == completeRequest(m, id, answer)
         IN  /\ Manager(n) /\ n.clients = m.clients /\ n.next = m.next
             /\ n.completed = m.completed \cup {id}
             /\ Elements(n.tracker) = {r \in Elements(m.tracker) : r.id # id}
             /\ Told(n) = Told(m) \cup ({id} \ m.completed)
<1>1. CASE id \in m.completed
  <2>1. completeRequest(m, id, answer) = m
    BY <1>1 DEF completeRequest
  <2>2. Elements(m.tracker) = {r \in Elements(m.tracker) : r.id # id}
    BY <1>1 DEF Manager
  <2> QED BY <1>1, <2>1, <2>2
<1>2. CASE id \notin m.completed
  <2> DEFINE r == [id |-> id, error |-> answer]
  <2>1. PICK n : n = completeRequest(m, id, answer)
    OBVIOUS
  <2>2. /\ n.clients = m.clients /\ n.next = m.next
        /\ n.completed = m.completed \cup {id}
        /\ n.tracker = removeRequest(m.tracker, id)
        /\ n.responses = Append(m.responses, r)
        /\ n = [clients |-> n.clients, next |-> n.next, tracker |-> n.tracker,
                completed |-> n.completed, responses |-> n.responses]
    BY <1>2, <2>1 DEF completeRequest, Manager
  <2>3. IsASequence(n.tracker) /\ Elements(n.tracker) = {t \in Elements(m.tracker) : t.id # id}
    BY <2>2, Removed DEF Manager
  <2>4. r.id = id
    OBVIOUS
  <2> HIDE DEF r
  <2>5. /\ IsASequence(n.responses) /\ Len(m.responses) \in Nat
        /\ Len(n.responses) = Len(m.responses) + 1
        /\ \A k \in 1 .. Len(m.responses) : n.responses[k] = m.responses[k]
        /\ n.responses[Len(m.responses) + 1].id = id
    BY <2>2, <2>4, ResponseAdded DEF Manager
  <2>6. \A k \in 1 .. Len(n.responses) : k \in 1 .. Len(m.responses) \/ k = Len(m.responses) + 1
    BY <2>5
  <2>7. \A k \in 1 .. Len(m.responses) : n.responses[k].id \in m.completed /\ k \in 1 .. Len(n.responses)
    BY <2>5 DEF Manager
  <2>8. \A k \in 1 .. Len(n.responses) : n.responses[k].id \in n.completed
    BY <2>2, <2>5, <2>6, <2>7
  <2>9. \A j, k \in 1 .. Len(n.responses) : n.responses[j].id = n.responses[k].id => j = k
    BY <1>2, <2>5, <2>6, <2>7 DEF Manager
  <2>10. Manager(n)
    BY <2>2, <2>3, <2>5, <2>8, <2>9 DEF Manager
  <2>11. Told(n) = Told(m) \cup {id}
    <3>1. Told(n) \subseteq Told(m) \cup {id}
      BY <2>5, <2>6 DEF Told
    <3>2. Told(m) \subseteq Told(n)
      BY <2>5, <2>7 DEF Told
    <3>3. Len(m.responses) + 1 \in 1 .. Len(n.responses)
      BY <2>5
    <3>4. id \in Told(n)
      BY <2>5, <3>3 DEF Told
    <3> QED BY <3>1, <3>2, <3>4
  <2> QED BY <1>2, <2>1, <2>2, <2>3, <2>10, <2>11
<1> QED BY <1>1, <1>2

\* f[k] is the manager when the first k requests of the copy have been aborted.
AbortedUpTo(m, n, f) ==
  f = [k \in 0 .. n |->
         IF k = 0 THEN m ELSE completeRequest(f[k - 1], m.tracker[k].id, "aborted")]

LEMMA AbortedUpToExists ==
  ASSUME NEW m
  PROVE  \A n \in Nat : \E f : AbortedUpTo(m, n, f)
<1> DEFINE N == {n \in Nat : \E f : AbortedUpTo(m, n, f)}
<1>1. 0 \in N
  <2>1. AbortedUpTo(m, 0, [k \in 0 .. 0 |-> m])
    BY DEF AbortedUpTo
  <2> QED BY <2>1
<1>2. ASSUME NEW n \in Nat, n \in N
      PROVE  n + 1 \in N
  <2>1. PICK f : AbortedUpTo(m, n, f)
    BY <1>2
  <2> DEFINE next == completeRequest(f[n], m.tracker[n + 1].id, "aborted")
             longer == [k \in 0 .. n + 1 |-> IF k = n + 1 THEN next ELSE f[k]]
  <2>2. \A k \in 0 .. n : longer[k] = f[k]
    OBVIOUS
  <2>3. longer[n + 1] = completeRequest(longer[n], m.tracker[n + 1].id, "aborted")
    <3>1. longer[n + 1] = next /\ longer[n] = f[n]
      BY <2>2
    <3> QED BY <3>1
  <2>4. ASSUME NEW k \in 1 .. n
        PROVE  f[k] = completeRequest(f[k - 1], m.tracker[k].id, "aborted")
    <3>1. k \in 0 .. n /\ k # 0
      OBVIOUS
    <3> QED BY <2>1, <3>1, Zenon DEF AbortedUpTo
  <2>5. f[0] = m
    <3>1. 0 \in 0 .. n
      OBVIOUS
    <3> QED BY <2>1, <3>1, Zenon DEF AbortedUpTo
  <2>6. longer = [k \in 0 .. n + 1 |-> longer[k]]
    OBVIOUS
  <2> HIDE DEF longer, next
  <2>7. ASSUME NEW k \in 0 .. n + 1
        PROVE  longer[k] = IF k = 0 THEN m
                           ELSE completeRequest(longer[k - 1], m.tracker[k].id, "aborted")
    <3>1. CASE k = 0
      BY <2>2, <2>5, <3>1
    <3>2. CASE k \in 1 .. n
      <4>1. k - 1 \in 0 .. n /\ k \in 0 .. n /\ k # 0
        BY <3>2
      <4>2. longer[k] = f[k] /\ longer[k - 1] = f[k - 1]
        BY <2>2, <4>1
      <4> QED BY <2>4, <3>2, <4>1, <4>2
    <3>3. CASE k = n + 1
      <4>1. k # 0 /\ k - 1 = n
        BY <3>3
      <4> QED BY <2>3, <3>3, <4>1
    <3> QED BY <3>1, <3>2, <3>3
  <2>8. AbortedUpTo(m, n + 1, longer)
    BY <2>6, <2>7 DEF AbortedUpTo
  <2> QED BY <2>8
<1> HIDE DEF N
<1>3. Nat \subseteq N
  BY <1>1, <1>2, SetInduction
<1> QED BY <1>3 DEF N

\* All that run are ended, and the callers of exactly these are told, each once.
LEMMA Aborts ==
  ASSUME NEW m, Manager(m), m.responses = << >>
  PROVE  LET n == abortAllRunningRequests(m)
         IN  /\ Manager(n) /\ n.clients = m.clients /\ n.next = m.next
             /\ n.tracker = << >>
             /\ Told(n) = {r.id : r \in Elements(m.tracker)}
             /\ n.completed = m.completed \cup Told(n)
<1> DEFINE len == Len(m.tracker)
           f == CHOOSE g : g = [k \in 0 .. len |->
                  IF k = 0 THEN m ELSE completeRequest(g[k - 1], m.tracker[k].id, "aborted")]
<1>1. len \in Nat /\ IsASequence(m.tracker)
  BY DEF IsASequence, Manager
<1>2. abortAllRunningRequests(m) = f[len]
  BY DEF abortAllRunningRequests
<1> HIDE DEF len
<1>3. \E g : g = [k \in 0 .. len |->
                    IF k = 0 THEN m ELSE completeRequest(g[k - 1], m.tracker[k].id, "aborted")]
  <2>1. PICK g : AbortedUpTo(m, len, g)
    BY <1>1, AbortedUpToExists
  <2>2. g = [k \in 0 .. len |->
                    IF k = 0 THEN m ELSE completeRequest(g[k - 1], m.tracker[k].id, "aborted")]
    BY <2>1 DEF AbortedUpTo
  <2> QED BY <2>2, Zenon
<1>4. f = [k \in 0 .. len |->
             IF k = 0 THEN m ELSE completeRequest(f[k - 1], m.tracker[k].id, "aborted")]
  BY <1>3
<1> HIDE DEF f
<1> DEFINE ids(k) == {m.tracker[i].id : i \in 1 .. k}
           Good(k) == /\ Manager(f[k]) /\ f[k].clients = m.clients /\ f[k].next = m.next
                      /\ f[k].completed = m.completed \cup ids(k)
                      /\ Elements(f[k].tracker) = {r \in Elements(m.tracker) : r.id \notin ids(k)}
                      /\ Told(f[k]) = ids(k)
           N == {k \in Nat : k <= len => Good(k)}
<1>5. 0 \in N
  <2>1. f[0] = m
    <3>1. 0 \in 0 .. len
      BY <1>1
    <3> QED BY <1>4, <3>1, Zenon
  <2>2. ids(0) = {} /\ Told(m) = {}
    BY DEF Told
  <2>3. Good(0)
    BY <2>1, <2>2
  <2> QED BY <2>3
<1>6. ASSUME NEW k \in Nat, k \in N
      PROVE  k + 1 \in N
  <2>1. SUFFICES ASSUME k + 1 <= len PROVE Good(k + 1)
    OBVIOUS
  <2>2. Good(k)
    BY <1>1, <1>6, <2>1
  <2>3. f[k + 1] = completeRequest(f[k], m.tracker[k + 1].id, "aborted")
    <3>1. k + 1 \in 0 .. len /\ k + 1 # 0 /\ (k + 1) - 1 = k
      BY <1>1, <2>1
    <3>2. f[k + 1] = completeRequest(f[(k + 1) - 1], m.tracker[k + 1].id, "aborted")
      BY <1>4, <3>1, Zenon
    <3> QED BY <3>1, <3>2
  <2>4. ids(k + 1) = ids(k) \cup {m.tracker[k + 1].id}
    <3>1. 1 .. k + 1 = (1 .. k) \cup {k + 1}
      OBVIOUS
    <3> QED BY <3>1
  <2>5. m.tracker[k + 1] \in Elements(m.tracker)
    BY <1>1, <2>1 DEF Elements, len
  <2>6. m.tracker[k + 1].id \notin m.completed
    BY <2>5 DEF Manager
  <2> PICK id : id = m.tracker[k + 1].id
    OBVIOUS
  <2> HIDE DEF ids
  <2>7. /\ Manager(f[k + 1]) /\ f[k + 1].clients = m.clients /\ f[k + 1].next = m.next
        /\ f[k + 1].completed = f[k].completed \cup {id}
        /\ Elements(f[k + 1].tracker) = {r \in Elements(f[k].tracker) : r.id # id}
        /\ Told(f[k + 1]) = Told(f[k]) \cup ({id} \ f[k].completed)
    BY <2>2, <2>3, Completes
  <2>8. f[k].completed = m.completed \cup ids(k) /\ Told(f[k]) = ids(k)
        /\ Elements(f[k].tracker) = {r \in Elements(m.tracker) : r.id \notin ids(k)}
    BY <2>2
  <2>9. Told(f[k + 1]) = ids(k + 1)
    BY <2>4, <2>7, <2>8, <2>6
  <2>10. f[k + 1].completed = m.completed \cup ids(k + 1)
    BY <2>4, <2>7, <2>8
  <2>11. Elements(f[k + 1].tracker) = {r \in Elements(m.tracker) : r.id \notin ids(k + 1)}
    BY <2>4, <2>7, <2>8
  <2> QED BY <2>2, <2>7, <2>9, <2>10, <2>11
<1> HIDE DEF N
<1>7. len \in N
  BY <1>1, <1>5, <1>6, SetInduction
<1>8. Good(len)
  BY <1>1, <1>7 DEF N
<1>9. ids(len) = {r.id : r \in Elements(m.tracker)}
  BY DEF Elements, len
<1> HIDE DEF ids
<1>10. Elements(f[len].tracker) = {}
  BY <1>8, <1>9
<1>11. f[len].tracker = << >>
  <2>1. f[len].tracker \in Seq(ToSet(f[len].tracker))
    BY <1>8 DEF Manager, IsASequence
  <2>2. \A T : \A q \in Seq(T) : Elements(q) = {} => q = << >>
    <3> SUFFICES ASSUME NEW T, NEW q \in Seq(T), Elements(q) = {}
                 PROVE  q = << >>
      OBVIOUS
    <3>1. Len(q) \in Nat /\ (Len(q) # 0 => 1 \in 1 .. Len(q))
      OBVIOUS
    <3>2. Len(q) = 0
      BY <3>1 DEF Elements
    <3> QED BY <3>2
  <2> QED BY <1>10, <2>1, <2>2
<1> QED BY <1>2, <1>8, <1>9, <1>11

\* A request that is made is tracked, or its caller has been told already.
LEMMA Creates ==
  ASSUME NEW m, Manager(m), m.responses = << >>, NEW id, id \notin m.completed, NEW timeout,
         NEW client, NEW browser \in BrowserOutcomes(client)
  PROVE  LET n == createRequest(m, id, timeout, browser)
         IN  /\ Manager(n) /\ n.clients = m.clients /\ n.next = m.next
             /\ Told(n) \subseteq {id}
             /\ n.completed = m.completed \cup Told(n)
             /\ Elements(n.tracker) =
                  {r \in Elements(m.tracker) \cup {[id |-> id, timeout |-> timeout]} : r.id \notin Told(n)}
<1> DEFINE request == [id |-> id, timeout |-> timeout]
<1>1. request.id = id
  OBVIOUS
<1> HIDE DEF request
<1>2. PICK tracked : tracked = [m EXCEPT !.tracker = Append(@, request)]
  OBVIOUS
<1>3. /\ tracked.clients = m.clients /\ tracked.next = m.next
      /\ tracked.tracker = Append(m.tracker, request)
      /\ tracked.completed = m.completed /\ tracked.responses = << >>
      /\ tracked = [clients |-> tracked.clients, next |-> tracked.next, tracker |-> tracked.tracker,
                    completed |-> tracked.completed, responses |-> tracked.responses]
  BY <1>2 DEF Manager
<1>4. /\ IsASequence(tracked.tracker) /\ IsASequence(m.tracker)
      /\ Elements(tracked.tracker) = Elements(m.tracker) \cup {request}
  <2>1. IsASequence(tracked.tracker) /\ ToSet(tracked.tracker) = ToSet(m.tracker) \cup {request}
        /\ IsASequence(m.tracker)
    BY <1>3, Appended DEF Manager
  <2> QED BY <2>1, SameElements
<1>5. Manager(tracked) /\ Told(tracked) = {}
  <2>1. Manager(tracked)
    BY <1>1, <1>3, <1>4 DEF Manager
  <2> QED BY <1>3, <2>1 DEF Told
<1>6. ASSUME NEW answer
      PROVE  LET n == completeRequest(tracked, id, answer)
             IN  /\ Manager(n) /\ n.clients = m.clients /\ n.next = m.next
                 /\ Told(n) = {id}
                 /\ n.completed = m.completed \cup {id}
                 /\ Elements(n.tracker) = {r \in Elements(m.tracker) \cup {request} : r.id # id}
  <2>1. PICK n : n = completeRequest(tracked, id, answer)
    OBVIOUS
  <2>2. /\ Manager(n) /\ n.clients = tracked.clients /\ n.next = tracked.next
        /\ n.completed = tracked.completed \cup {id}
        /\ Elements(n.tracker) = {r \in Elements(tracked.tracker) : r.id # id}
        /\ Told(n) = Told(tracked) \cup ({id} \ tracked.completed)
    BY <2>1, <1>5, Completes
  <2>3. Told(n) = {id}
    BY <1>3, <1>5, <2>2
  <2> QED BY <1>3, <1>4, <2>1, <2>2, <2>3
<1>7. ASSUME NEW n, n = createRequest(m, id, timeout, browser)
      PROVE  n = tracked \/ \E answer : n = completeRequest(tracked, id, answer)
  <2>1. /\ browser = "open throws" => n = completeRequest(tracked, id, "could not connect")
        /\ browser = "header throws" => n = completeRequest(tracked, id, "header invalid")
        /\ browser = "send throws" => n = completeRequest(tracked, id, "network error")
        /\ browser = "error and send throws" =>
             n = completeRequest(completeRequest(tracked, id, "network error"), id, "network error")
        /\ browser = "sent" => n = tracked
    BY <1>2, <1>7 DEF createRequest, request
  <2>2. browser \in {"open throws", "header throws", "send throws", "error and send throws", "sent"}
    BY DEF BrowserOutcomes
  <2>3. PICK failed : failed = completeRequest(tracked, id, "network error")
    OBVIOUS
  <2>4. id \in failed.completed
    BY <1>6, <2>3
  <2>5. completeRequest(failed, id, "network error") = failed
    BY <2>4 DEF completeRequest
  <2> QED BY <2>1, <2>2, <2>3, <2>5
<1>8. PICK n : n = createRequest(m, id, timeout, browser)
  OBVIOUS
<1>9. CASE n = tracked
  BY <1>3, <1>4, <1>5, <1>8, <1>9 DEF request
<1>10. CASE \E answer : n = completeRequest(tracked, id, answer)
  BY <1>6, <1>8, <1>10 DEF request
<1> QED BY <1>7, <1>8, <1>9, <1>10

-----------------------------------------------------------------------------
(* The tasks of answers.                                                    *)

\* Every call that is answered gets one task, if none of them has one.
LEMMA AnswersGetTasks ==
  ASSUME HostTypes, SetTasksOnce, NEW rs, IsASequence(rs),
         \A j, k \in 1 .. Len(rs) : rs[j].id = rs[k].id => j = k,
         NEW told, told = {rs[k].id : k \in 1 .. Len(rs)},
         \A id \in told : id.clump \in Clump /\ id = Call(id.clump) /\ SetTasks(id.clump) = {},
         tasks' = SetOccurrencesAsync(Answers(rs)), UNCHANGED << prog, pc, round >>
  PROVE  /\ SetTasksOnce'
         /\ \A c \in Clump : SetTasks(c)' = SetTasks(c) \cup {SetTask(id) : id \in told \cap {Call(c)}}
<1> DEFINE calls == Answers(rs)
           added == {SetTask(calls[k]) : k \in DOMAIN calls}
           bag == [task \in added |-> Cardinality({k \in DOMAIN calls : SetTask(calls[k]) = task})]
<1>1. DOMAIN calls = 1 .. Len(rs) /\ \A k \in DOMAIN calls : calls[k] = rs[k].id
  BY SameElements DEF Answers
<1>2. tasks' = tasks (+) bag
  BY DEF SetOccurrencesAsync
<1> HIDE DEF calls
<1>3. added = {SetTask(id) : id \in told}
  BY <1>1
<1>4. \A id : SetTask(id).kind = "set" /\ SetTask(id).call = id
  BY DEF SetTask
<1>5. ASSUME NEW task \in added
      PROVE  bag[task] = 1
  <2>1. PICK k \in DOMAIN calls : task = SetTask(calls[k])
    OBVIOUS
  <2>2. {j \in DOMAIN calls : SetTask(calls[j]) = task} = {k}
    <3>1. \A j \in DOMAIN calls : SetTask(calls[j]) = task => calls[j] = calls[k]
      BY <1>4, <2>1
    <3> QED BY <1>1, <2>1, <3>1
  <2> QED BY <2>2, FS_Singleton
<1>6. DOMAIN bag = added
  OBVIOUS
<1> HIDE DEF added, bag
<1>7. \A task \in added : task.kind = "set" /\ task.call \in told /\ task \notin DOMAIN tasks
  <2>1. \A id \in told : SetTask(id) \notin DOMAIN tasks
    BY <1>4 DEF SetTasks
  <2> QED BY <1>3, <1>4, <2>1
<1>8. DOMAIN tasks' = DOMAIN tasks \cup added
  BY <1>2, <1>6 DEF (+)
<1>9. \A t \in DOMAIN tasks : t \notin added /\ t.kind = "set" => tasks'[t] = tasks[t]
  <2>1. tasks' = [e \in DOMAIN tasks \cup added |->
                    (IF e \in DOMAIN tasks THEN tasks[e] ELSE 0) + (IF e \in added THEN bag[e] ELSE 0)]
    BY <1>2, <1>6 DEF (+)
  <2> QED BY <2>1 DEF SetTasksOnce
<1>10. \A t \in added : tasks'[t] = 1
  BY <1>2, <1>5, <1>6, <1>7 DEF (+)
<1>11. SetTasksOnce'
  BY <1>7, <1>8, <1>9, <1>10 DEF SetTasksOnce
<1>12. ASSUME NEW c \in Clump
       PROVE  SetTasks(c)' = SetTasks(c) \cup {SetTask(id) : id \in told \cap {Call(c)}}
  <2>1. SetTasks(c)' = SetTasks(c) \cup {t \in added : t.call.clump = c}
    BY <1>7, <1>8 DEF SetTasks
  <2>2. {t \in added : t.call.clump = c} = {SetTask(id) : id \in {i \in told : i.clump = c}}
    BY <1>3, <1>4
  <2>3. {i \in told : i.clump = c} = told \cap {Call(c)}
    BY CallNumbers
  <2> QED BY <2>1, <2>2, <2>3
<1> QED BY <1>11, <1>12

-----------------------------------------------------------------------------
(* What steps have in common.                                               *)

\* A clump of which nothing changes keeps its place.
LEMMA PlaceFrame ==
  ASSUME NEW c \in Clump, Place(c),
         observing'[c] = observing[c], observer'[c] = observer[c], answered'[c] = answered[c],
         UNCHANGED prog, pc'[c] = pc[c], round'[c] = round[c], setCount'[c] = setCount[c],
         SetTasks(c)' = SetTasks(c), Requested(c)' <=> Requested(c), Promised(c)' <=> Promised(c),
         c \in Ready' => c \in Ready, Crashed => Crashed'
  PROVE  Place(c)'
<1>1. Call(c)' = Call(c) /\ CountAwaited(c)' = CountAwaited(c)
  BY DEF Call, CountAwaited
<1>2. SetTask(Call(c))' = SetTask(Call(c))
  BY <1>1, CallNumbers DEF SetTask
<1> QED BY <1>1, <1>2 DEF Place, Asked

\* The bag has the answers that are on their way, as they were.
SameSetTasks(left) ==
  \A t : t.kind = "set" =>
    /\ t \in DOMAIN left <=> t \in DOMAIN tasks
    /\ t \in DOMAIN tasks => left[t] = tasks[t]

\* The pump moves, and no call is concerned.
LEMMA PumpMoves ==
  ASSUME CallInv, UNCHANGED << prog, stepVars, callVars >>, RunsOnce',
         SameSetTasks(tasks'),
         \A c \in Clump : c \in Ready' => c \in Ready, Crashed => Crashed'
  PROVE  CallInv'
<1>1. SetTasksOnce' /\ \A c : SetTasks(c)' = SetTasks(c)
  BY DEF CallInv, SetTasksOnce, SetTasks, SameSetTasks
<1>2. \A c : Call(c)' = Call(c)
  BY DEF Call, stepVars
<1>3. CallTypes' /\ RequestsOK' /\ PromisesOK' /\ HandlesOK(http)' /\ RefnumsOK(refs)'
  BY <1>2 DEF CallInv, CallTypes, RequestsOK, PromisesOK, stepVars, callVars
<1>4. ASSUME NEW c \in Clump
      PROVE  Place(c)'
  <2>1. Place(c) /\ SetTasks(c)' = SetTasks(c)
    BY <1>1 DEF CallInv
  <2>2. (Requested(c)' <=> Requested(c)) /\ (Promised(c)' <=> Promised(c))
    BY DEF Requested, Promised, callVars
  <2> QED BY <2>1, <2>2, PlaceFrame DEF stepVars
<1> QED BY <1>1, <1>3, <1>4 DEF CallInv

\* A task of the pump that comes or goes leaves the others.
LEMMA OtherTasks ==
  ASSUME SetTasksOnce, NEW task, task.kind # "set",
         NEW left, left = tasks (+) Timeout(task) \/ left = tasks (-) Timeout(task)
  PROVE  SameSetTasks(left)
<1>1. DOMAIN Timeout(task) = {task}
  BY DEF Timeout, SetToBag
<1> SUFFICES ASSUME NEW t, t.kind = "set"
             PROVE  /\ t \in DOMAIN left <=> t \in DOMAIN tasks
                    /\ t \in DOMAIN tasks => left[t] = tasks[t]
  BY DEF SameSetTasks
<1>2. t # task /\ (t \in DOMAIN tasks => tasks[t] = 1)
  BY DEF SetTasksOnce
<1>3. CASE left = tasks (+) Timeout(task)
  BY <1>1, <1>2, <1>3 DEF (+)
<1>4. CASE left = tasks (-) Timeout(task)
  <2> DEFINE less == [e \in DOMAIN tasks |-> IF e \in DOMAIN Timeout(task) THEN tasks[e] - Timeout(task)[e] ELSE tasks[e]]
  <2>1. left = [e \in {d \in DOMAIN less : less[d] > 0} |-> less[e]]
    BY <1>4 DEF (-)
  <2>2. t \in DOMAIN tasks => less[t] = 1
    BY <1>1, <1>2
  <2>3. DOMAIN less = DOMAIN tasks
    OBVIOUS
  <2> HIDE DEF less
  <2> QED BY <1>2, <2>1, <2>2, <2>3
<1> QED BY <1>3, <1>4

LEMMA SameRuns ==
  ASSUME RunsOnce, UNCHANGED << queue, running >>
  PROVE  RunsOnce' /\ Ready' = Ready
BY DEF RunsOnce, Ready

-----------------------------------------------------------------------------
(* The steps of the pump.                                                   *)

LEMMA StartCalls ==
  ASSUME HostInv, CallInv, ExecuteSlicesUntilClumpsFinished
  PROVE  CallInv'
<1>1. Dequeue(queue) /\ running = NoClump /\ UNCHANGED << prog, stepVars, callVars, tasks >>
  BY DEF ExecuteSlicesUntilClumpsFinished, HostInv, PumpState
<1>2. RunsOnce /\ queue \in Seq(Clump) /\ IsInjective(queue)
  BY DEF CallInv, RunsOnce
<1>3. RunsOnce' /\ Ready' = Elements(queue)
  BY <1>1, <1>2, DequeuedOnce
<1>4. Ready' = Ready
  BY <1>1, <1>2, <1>3, ReadyElements
<1>5. SameSetTasks(tasks') /\ ~ Crashed
  BY <1>1 DEF SameSetTasks, Crashed
<1> QED BY <1>1, <1>3, <1>4, <1>5, PumpMoves

LEMMA RotateCalls ==
  ASSUME HostInv, CallInv, Rotate
  PROVE  CallInv'
<1>1. /\ queue # << >> /\ running # NoClump /\ inside # NotInside
      /\ running' = Head(queue) /\ queue' = Append(Tail(queue), running)
      /\ UNCHANGED << prog, stepVars, callVars, tasks >>
  BY DEF Rotate, pumpVars, NotInside
<1>2. /\ RunsOnce /\ queue \in Seq(Clump) /\ IsInjective(queue)
      /\ running \in Clump /\ running \notin Elements(queue)
  BY <1>1 DEF CallInv, RunsOnce
<1>3. /\ Head(queue) \in Clump /\ Tail(queue) \in Seq(Clump)
      /\ Elements(queue) = {Head(queue)} \cup Elements(Tail(queue))
      /\ Head(queue) \notin Elements(Tail(queue)) /\ IsInjective(Tail(queue))
  BY <1>1, <1>2, HeadTailElements
<1>4. /\ Append(Tail(queue), running) \in Seq(Clump) /\ IsInjective(Append(Tail(queue), running))
      /\ Elements(Append(Tail(queue), running)) = Elements(Tail(queue)) \cup {running}
  <2>1. PICK tail : tail = Tail(queue)
    OBVIOUS
  <2>2. tail \in Seq(Clump) /\ IsInjective(tail) /\ running \in Clump /\ running \notin Elements(tail)
    BY <1>2, <1>3, <2>1
  <2>3. /\ Append(tail, running) \in Seq(Clump) /\ IsInjective(Append(tail, running))
        /\ Elements(Append(tail, running)) = Elements(tail) \cup {running}
    BY <2>2, AppendElements
  <2> QED BY <2>1, <2>3
<1>5. RunsOnce' /\ Elements(queue') = Elements(Tail(queue)) \cup {running}
  BY <1>1, <1>2, <1>3, <1>4 DEF RunsOnce
<1>6. Ready' = Elements(queue') \cup ({running'} \ {NoClump})
  <2>1. IsASequence(queue')
    BY <1>5, Sequences DEF RunsOnce
  <2>2. ToSet(queue') = Elements(queue')
    BY <2>1, SameElements
  <2> QED BY <2>2 DEF Ready
<1>7. Ready = Elements(queue) \cup ({running} \ {NoClump})
  BY <1>2, ReadyElements
<1>8. \A c \in Clump : c \in Ready' => c \in Ready
  BY <1>1, <1>3, <1>5, <1>6, <1>7
<1>9. SameSetTasks(tasks') /\ ~ Crashed
  BY <1>1 DEF SameSetTasks, Crashed
<1> QED BY <1>1, <1>5, <1>8, <1>9, PumpMoves

LEMMA EndCalls ==
  ASSUME HostInv, CallInv, SlicesEnd
  PROVE  CallInv'
<1> DEFINE ready == IF running = NoClump THEN queue ELSE Append(queue, running)
<1>1. PICK task : /\ inside # NotInside /\ queue' = ready /\ running' = NoClump
                  /\ task.kind # "set" /\ tasks' = tasks (+) Timeout(task)
                  /\ UNCHANGED << prog, stepVars, callVars >>
  BY DEF SlicesEnd, Slices, NotInside
<1>2. RunsOnce /\ queue \in Seq(Clump) /\ IsInjective(queue) /\ running \notin Elements(queue)
  BY DEF CallInv, RunsOnce
<1>3. ready \in Seq(Clump) /\ IsInjective(ready) /\ Elements(ready) = Elements(queue) \cup ({running} \ {NoClump})
  <2>1. CASE running = NoClump
    BY <1>2, <2>1
  <2>2. CASE running # NoClump
    BY <1>2, <2>2, QueuedOnce DEF RunsOnce
  <2> QED BY <2>1, <2>2
<1> HIDE DEF ready
<1>4. RunsOnce'
  <2>1. NoClump \notin Elements(ready)
    BY <1>3, ElementsType, HostAssumption
  <2> QED BY <1>1, <1>3, <2>1 DEF RunsOnce
<1>5. Ready' = Ready
  <2>1. ToSet(ready) = Elements(ready)
    BY <1>3, Sequences, SameElements
  <2> QED BY <1>1, <1>2, <1>3, <2>1, ReadyElements DEF Ready
<1>6. SameSetTasks(tasks') /\ ~ Crashed
  BY <1>1, OtherTasks DEF CallInv, Crashed
<1> QED BY <1>1, <1>4, <1>5, <1>6, PumpMoves

LEMMA TimerCalls ==
  ASSUME HostInv, CallInv, inside = NotInside, NEW task \in BagToSet(tasks), RunTimer(task)
  PROVE  CallInv'
<1>1. /\ task.kind = "slices" /\ task.kind # "set" /\ tasks' = tasks (-) Timeout(task)
      /\ Dequeue(queue) /\ UNCHANGED << prog, stepVars, callVars >>
  BY DEF RunTimer
<1>2. running = NoClump
  BY <1>1 DEF HostInv, PumpState, NextSlices, TheEnd, SlicesTasks
<1>3. RunsOnce /\ queue \in Seq(Clump) /\ IsInjective(queue)
  BY DEF CallInv, RunsOnce
<1>4. RunsOnce' /\ Ready' = Elements(queue)
  BY <1>1, <1>3, DequeuedOnce
<1>5. Ready' = Ready
  BY <1>2, <1>3, <1>4, ReadyElements
<1>6. SameSetTasks(tasks') /\ ~ Crashed
  BY <1>1, <1>2, OtherTasks DEF CallInv, Crashed
<1> QED BY <1>1, <1>4, <1>5, <1>6, PumpMoves

LEMMA SettleCalls ==
  ASSUME HostInv, CallInv, NEW task \in BagToSet(tasks), RunSettle(task)
  PROVE  CallInv'
<1>1. /\ task.kind # "set" /\ tasks' = tasks (-) Timeout(task)
      /\ UNCHANGED << prog, queue, running, stepVars, callVars, inside >>
  BY DEF RunSettle, clumpVars
<1>2. RunsOnce' /\ Ready' = Ready
  BY <1>1, SameRuns DEF CallInv
<1>3. SameSetTasks(tasks') /\ (Crashed => Crashed')
  BY <1>1, OtherTasks DEF CallInv, Crashed
<1> QED BY <1>1, <1>2, <1>3, PumpMoves

\* The task of an answer is taken; the others stay.
LEMMA AnswerTaken ==
  ASSUME SetTasksOnce, NEW task \in DOMAIN tasks, task.kind = "set",
         NEW left, left = tasks (-) Timeout(task)
  PROVE  /\ task \notin DOMAIN left
         /\ \A t : t.kind = "set" /\ t # task =>
              (t \in DOMAIN left <=> t \in DOMAIN tasks) /\ (t \in DOMAIN tasks => left[t] = tasks[t])
<1> DEFINE less == [e \in DOMAIN tasks |-> IF e = task THEN tasks[e] - 1 ELSE tasks[e]]
<1>1. left = [e \in {d \in DOMAIN less : less[d] > 0} |-> less[e]]
  BY DEF Timeout, SetToBag, (-)
<1>2. less[task] = 0 /\ \A t \in DOMAIN tasks : t.kind = "set" /\ t # task => less[t] = tasks[t] /\ less[t] > 0
  BY DEF SetTasksOnce
<1>3. DOMAIN less = DOMAIN tasks
  OBVIOUS
<1> HIDE DEF less
<1> QED BY <1>1, <1>2, <1>3

\* An occurrence is set by the answer of the call that its clump is in: the clump waits
\* for this count, and is woken.
LEMMA OccurrenceCalls ==
  ASSUME HostInv, CallInv, inside = NotInside, NEW task \in BagToSet(tasks), RunSetOccurrence(task)
  PROVE  CallInv'
<1> DEFINE c == task.call.clump
           ready == Append(queue, c)
           left == tasks (-) Timeout(task)
<1>1. task \in DOMAIN tasks /\ task.kind = "set" /\ c \in Clump
  BY DEF BagToSet, RunSetOccurrence, CallInv, SetTasksOnce
<1>2. task \in SetTasks(c) /\ Place(c) /\ HostTypes
  BY <1>1 DEF SetTasks, CallInv, HostInv
<1>3. /\ SetTasks(c) = {SetTask(Call(c))} /\ task = SetTask(Call(c))
      /\ answered[c] /\ observing[c] /\ observer[c] # 0 /\ observer[c] = CountAwaited(c)
      /\ c \notin Ready /\ ~ Asked(c)
  BY <1>2 DEF Place
<1>4. task.at = pc[c]
  BY <1>1, <1>2, <1>3, TaskFindsInstruction
<1>5. Wakes(c, task.at)
  BY <1>3, <1>4 DEF Wakes, CountAwaited
<1>6. /\ setCount' = [setCount EXCEPT ![c][task.at] = @ + 1]
      /\ observer' = [observer EXCEPT ![c] = 0]
      /\ WakeUpCallback(left)
      /\ IF inside' = "begun" THEN Dequeue(ready) ELSE queue' = ready /\ UNCHANGED running
      /\ UNCHANGED << prog, pc, round, observing, answered, callVars, promise >>
  BY <1>5 DEF RunSetOccurrence
<1> HIDE DEF c, ready, left
<1>7. /\ observer'[c] = 0
      /\ \A d \in Clump : d # c => observer'[d] = observer[d] /\ setCount'[d] = setCount[d]
  BY <1>1, <1>6 DEF HostInv, HostTypes
<1>8. /\ task \notin DOMAIN tasks'
      /\ \A t : t.kind = "set" /\ t # task =>
           (t \in DOMAIN tasks' <=> t \in DOMAIN tasks) /\ (t \in DOMAIN tasks => tasks'[t] = tasks[t])
  <2>1. /\ task \notin DOMAIN left
        /\ \A t : t.kind = "set" /\ t # task =>
             (t \in DOMAIN left <=> t \in DOMAIN tasks) /\ (t \in DOMAIN tasks => left[t] = tasks[t])
    BY <1>1, AnswerTaken DEF left, CallInv
  <2>2. \/ tasks' = left
        \/ tasks' = [t \in {u \in DOMAIN left : ~ (u.kind = "slices" /\ u.token = token)} |-> left[t]]
    BY <1>6 DEF WakeUpCallback
  <2> QED BY <2>1, <2>2
<1>9. SetTasksOnce'
  BY <1>8 DEF CallInv, SetTasksOnce
<1>10. SetTasks(c)' = {} /\ \A d \in Clump : d # c => SetTasks(d)' = SetTasks(d)
  <2>1. \A d : SetTasks(d)' = SetTasks(d) \ {task}
    BY <1>8 DEF SetTasks
  <2> QED BY <1>3, <2>1 DEF SetTasks, c
<1>11. RunsOnce /\ c \notin Elements(queue)
  BY <1>3, ReadyElements DEF CallInv
<1>12. ready \in Seq(Clump) /\ IsInjective(ready) /\ Elements(ready) = Elements(queue) \cup {c}
  BY <1>1, <1>11, QueuedOnce DEF ready
<1>13. /\ RunsOnce'
       /\ \A d \in Clump : d # c /\ d \in Ready' => d \in Ready
       /\ Crashed => Crashed'
  <2>1. CASE inside' = "begun"
    <3>1. running = NoClump
      <4>1. promise = "pending" /\ token # 0
        BY <1>6, <2>1 DEF WakeUpCallback, NotInside
      <4> QED BY <4>1 DEF HostInv, PumpState, NextSlices, TheEnd
    <3>2. RunsOnce' /\ Ready' = Elements(ready)
      BY <1>6, <1>12, <2>1, DequeuedOnce
    <3> QED BY <1>11, <1>12, <3>1, <3>2, ReadyElements DEF Crashed
  <2>2. CASE inside' # "begun"
    <3>1. queue' = ready /\ running' = running /\ inside' = inside
      BY <1>6, <2>2 DEF WakeUpCallback
    <3>2. running # c
      BY <1>1, <1>3, HostAssumption DEF Ready
    <3>3. RunsOnce'
      BY <1>11, <1>12, <3>1, <3>2 DEF RunsOnce
    <3>4. ToSet(ready) = Elements(ready)
      BY <1>12, Sequences, SameElements
    <3> QED BY <1>11, <1>12, <3>1, <3>3, <3>4, ReadyElements DEF Ready, Crashed
  <2> QED BY <2>1, <2>2
<1>14. \A d : Call(d)' = Call(d) /\ (Requested(d)' <=> Requested(d)) /\ (Promised(d)' <=> Promised(d))
  BY <1>6 DEF Call, Requested, Promised, callVars
<1>15. CallTypes' /\ RequestsOK' /\ PromisesOK' /\ HandlesOK(http)' /\ RefnumsOK(refs)'
  BY <1>6, <1>14 DEF CallInv, CallTypes, RequestsOK, PromisesOK, callVars
<1>16. ASSUME NEW d \in Clump
       PROVE  Place(d)'
  <2>1. CASE d = c
    BY <1>3, <1>6, <1>7, <1>10, <1>14, <2>1 DEF Place, Asked
  <2>2. CASE d # c
    <3>1. Place(d)
      BY DEF CallInv
    <3> QED BY <1>6, <1>7, <1>10, <1>13, <1>14, <2>2, <3>1, PlaceFrame
  <2> QED BY <2>1, <2>2
<1> QED BY <1>9, <1>13, <1>15, <1>16 DEF CallInv

-----------------------------------------------------------------------------
(* Instructions that go on at once.                                         *)

\* Clients come, go and change; requests do not.
OnlyClients(m, n) ==
  /\ Manager(n) /\ HandlesOK(n)
  /\ n.tracker = m.tracker /\ n.completed = m.completed /\ n.responses = m.responses

\* Clumps that do not wait have nothing asked and nothing on its way.
LEMMA RunningIsFree ==
  ASSUME CallInv, NEW c \in Clump, running = c, inside # NotInside
  PROVE  /\ ~ Asked(c) /\ SetTasks(c) = {} /\ observer[c] = 0 /\ c \in Ready /\ ~ Crashed
         /\ observing[c] <=> answered[c]
         /\ ~ observing[c] => /\ observing = [observing EXCEPT ![c] = FALSE]
                              /\ answered = [answered EXCEPT ![c] = FALSE]
<1>1. Place(c) /\ CallTypes
  BY DEF CallInv
<1>2. c \in Ready /\ ~ Crashed
  BY HostAssumption DEF Ready, Crashed
<1>3. ~ Asked(c) /\ observer[c] = 0 /\ SetTasks(c) = {} /\ (observing[c] <=> answered[c])
  BY <1>1, <1>2 DEF Place, CallTypes
<1>4. ASSUME ~ observing[c]
      PROVE  observing = [observing EXCEPT ![c] = FALSE] /\ answered = [answered EXCEPT ![c] = FALSE]
  BY <1>1, <1>3, <1>4 DEF CallTypes
<1> QED BY <1>2, <1>3, <1>4

LEMMA Passes ==
  ASSUME HostInv, CallInv, NEW c \in Clump, NEW err, Working(c), Goes(c, err),
         UNCHANGED << prog, setCount, promises, tasks >>, observer'[c] = 0,
         \A d \in Clump : d # c => observer'[d] = observer[d],
         observing' = [observing EXCEPT ![c] = FALSE], answered' = [answered EXCEPT ![c] = FALSE],
         OnlyClients(http, http'), RefnumsOK(refs')
  PROVE  CallInv'
<1>1. running = c /\ inside # NotInside /\ inside' = "worked" /\ inside' # NotInside
  BY DEF Working, NotInside
<1>2. ~ Asked(c) /\ SetTasks(c) = {} /\ ~ Crashed
  BY <1>1, RunningIsFree
<1>3. /\ Call(c)'.clump = c /\ Call(c)'.n = Call(c).n + 1 /\ Call(c).n \in Nat
      /\ \A d \in Clump : d # c => Call(d)' = Call(d) /\ pc'[d] = pc[d]
  BY NextCall, CallNumbers DEF HostInv
<1>4. RunsOnce' /\ \A d \in Clump : d \in Ready' => d \in Ready
  <2>1. RunsOnce /\ queue \in Seq(Clump) /\ IsInjective(queue)
    BY DEF CallInv, RunsOnce
  <2>2. CASE Dequeue(queue)
    BY <2>1, <2>2, DequeuedOnce, ReadyElements
  <2>3. CASE UNCHANGED << queue, running >>
    BY <2>1, <2>3, SameRuns
  <2> QED BY <2>2, <2>3 DEF Goes
<1>5. \A d : SetTasks(d)' = SetTasks(d) /\ (Requested(d)' <=> Requested(d)) /\ (Promised(d)' <=> Promised(d))
  BY DEF SetTasks, Requested, Promised, OnlyClients
<1>6. CallTypes' /\ SetTasksOnce'
  BY DEF CallInv, CallTypes, SetTasksOnce
<1>7. RequestsOK'
  <2>1. Manager(http') /\ http'.responses = << >>
    BY DEF CallInv, RequestsOK, OnlyClients
  <2>2. ASSUME NEW r \in Elements(http'.tracker)
        PROVE  r.id.clump \in Clump /\ r.id = Call(r.id.clump)'
    <3>1. r \in Elements(http.tracker) /\ r.id.clump \in Clump /\ r.id = Call(r.id.clump)
      BY DEF CallInv, RequestsOK, OnlyClients
    <3>2. r.id.clump # c
      BY <1>2, <3>1 DEF Asked, Requested
    <3> QED BY <1>3, <3>1, <3>2
  <2>3. ASSUME NEW id \in http'.completed
        PROVE  /\ id.clump \in Clump /\ id.n \in Nat /\ id.n <= Call(id.clump)'.n
               /\ id.n = Call(id.clump)'.n => observing'[id.clump]
    <3>1. /\ id.clump \in Clump /\ id.n \in Nat /\ id.n <= Call(id.clump).n
          /\ id.n = Call(id.clump).n => observing[id.clump]
      BY DEF CallInv, RequestsOK, OnlyClients
    <3>2. CASE id.clump = c
      BY <1>3, <3>1, <3>2
    <3>3. CASE id.clump # c
      BY <1>3, <3>1, <3>3 DEF CallInv, CallTypes
    <3> QED BY <3>1, <3>2, <3>3
  <2> QED BY <2>1, <2>2, <2>3 DEF RequestsOK
<1>8. PromisesOK'
  <2> SUFFICES ASSUME NEW id \in DOMAIN promises
               PROVE  id.clump \in Clump /\ id = Call(id.clump)'
    BY DEF PromisesOK
  <2>1. id.clump \in Clump /\ id = Call(id.clump) /\ id.clump # c
    BY <1>2 DEF CallInv, PromisesOK, Asked, Promised
  <2> QED BY <1>3, <2>1
<1>9. ASSUME NEW d \in Clump
      PROVE  Place(d)'
  <2>1. CASE d = c
    BY <1>2, <1>5, <2>1 DEF Place, Asked, CallInv, CallTypes
  <2>2. CASE d # c
    <3>1. Place(d) /\ CallTypes
      BY DEF CallInv
    <3>2. round'[d] = round[d]
      BY <2>2 DEF Goes, HostInv, HostTypes
    <3> QED BY <1>2, <1>3, <1>4, <1>5, <2>2, <3>1, <3>2, PlaceFrame DEF CallTypes
  <2> QED BY <2>1, <2>2
<1>10. HandlesOK(http)' /\ RefnumsOK(refs)'
  BY DEF OnlyClients
<1> QED BY <1>4, <1>6, <1>7, <1>8, <1>9, <1>10 DEF CallInv

\* An instruction that is not one that waits.
LEMMA PassesFree ==
  ASSUME HostInv, CallInv, NEW c \in Clump, NEW err, Working(c), Goes(c, err), ~ observing[c],
         UNCHANGED << prog, observing, observer, answered, setCount, promises, tasks >>,
         OnlyClients(http, http'), RefnumsOK(refs')
  PROVE  CallInv'
<1>1. running = c /\ inside # NotInside
  BY DEF Working
<1>2. /\ observer[c] = 0 /\ observing = [observing EXCEPT ![c] = FALSE]
      /\ answered = [answered EXCEPT ![c] = FALSE]
  BY <1>1, RunningIsFree
<1> QED BY <1>2, Passes

LEMMA SameClients == CallInv => OnlyClients(http, http)
BY DEF OnlyClients, CallInv, RequestsOK

-----------------------------------------------------------------------------
(* The instructions that go on at once.                                     *)

LEMMA ClientCreated ==
  ASSUME NEW m, Manager(m), HandlesOK(m)
  PROVE  OnlyClients(m, create(m))
<1> PICK n : n = create(m)
  OBVIOUS
<1>1. /\ n.clients = [h \in DOMAIN m.clients \cup {m.next} |-> IF h = m.next THEN NewHttpClient ELSE m.clients[h]]
      /\ n.next = m.next + 1 /\ n.tracker = m.tracker /\ n.completed = m.completed /\ n.responses = m.responses
      /\ n = [clients |-> n.clients, next |-> n.next, tracker |-> n.tracker,
              completed |-> n.completed, responses |-> n.responses]
  BY DEF create, Manager
<1>2. HandlesOK(n)
  BY <1>1 DEF HandlesOK
<1>3. Manager(n)
  BY <1>1 DEF Manager
<1> QED BY <1>1, <1>2, <1>3 DEF OnlyClients

LEMMA ClientDestroyed ==
  ASSUME NEW m, Manager(m), HandlesOK(m), NEW h
  PROVE  OnlyClients(m, destroy(m, h))
<1> PICK n : n = destroy(m, h)
  OBVIOUS
<1>1. /\ DOMAIN n.clients = DOMAIN m.clients \ {h}
      /\ n.next = m.next /\ n.tracker = m.tracker /\ n.completed = m.completed /\ n.responses = m.responses
      /\ n = [clients |-> n.clients, next |-> n.next, tracker |-> n.tracker,
              completed |-> n.completed, responses |-> n.responses]
  BY DEF destroy, Manager
<1>2. HandlesOK(n) /\ Manager(n)
  BY <1>1 DEF HandlesOK, Manager
<1> QED BY <1>1, <1>2 DEF OnlyClients

LEMMA ClientChanged ==
  ASSUME NEW m, Manager(m), HandlesOK(m), NEW h, NEW client
  PROVE  OnlyClients(m, [m EXCEPT !.clients[h] = client])
<1> PICK n : n = [m EXCEPT !.clients[h] = client]
  OBVIOUS
<1>1. /\ DOMAIN n.clients = DOMAIN m.clients
      /\ n.next = m.next /\ n.tracker = m.tracker /\ n.completed = m.completed /\ n.responses = m.responses
      /\ n = [clients |-> n.clients, next |-> n.next, tracker |-> n.tracker,
              completed |-> n.completed, responses |-> n.responses]
  BY DEF Manager
<1>2. HandlesOK(n) /\ Manager(n)
  BY <1>1 DEF HandlesOK, Manager
<1> QED BY <1>1, <1>2 DEF OnlyClients

LEMMA SimpleReplies ==
  ASSUME CallInv, NEW c \in Clump, Instr(c).op \in SimpleOps
  PROVE  OnlyClients(http, Replied(c).m)
<1> DEFINE i == Instr(c)
           h == handle[c]
           Same(reply) == reply.m = http \/ reply.m = create(http)
                          \/ \E client : reply.m = [http EXCEPT !.clients[h] = client]
<1>1. Manager(http) /\ HandlesOK(http)
  BY DEF CallInv, RequestsOK
<1> HIDE DEF i, h
<1>2. Same(jsHttpClientOpen(http, i.cookieFile, i.verifyServer))
  BY DEF jsHttpClientOpen, Reply
<1>3. Same(jsHttpClientAddHeader(http, h, i.name, i.value))
  BY DEF jsHttpClientAddHeader, OnClient, Changed, Reply
<1>4. Same(jsHttpClientRemoveHeader(http, h, i.name))
  BY DEF jsHttpClientRemoveHeader, OnClient, Changed, Reply
<1>5. Same(jsHttpClientGetHeader(http, h, i.name))
  BY DEF jsHttpClientGetHeader, OnClient, Reply
<1>6. Same(jsHttpClientHeaderExists(http, h, i.name))
  BY DEF jsHttpClientHeaderExists, OnClient, Reply
<1>7. Same(jsHttpClientListHeaders(http, h))
  BY DEF jsHttpClientListHeaders, OnClient, Reply
<1>8. Same(jsHttpClientConfigCORS(http, h, i.include))
  BY DEF jsHttpClientConfigCORS, OnClient, Changed, Reply
<1> HIDE DEF Same
<1>9. Same(Replied(c))
  BY <1>2, <1>3, <1>4, <1>5, <1>6, <1>7, <1>8 DEF Replied, SimpleOps, i, h
<1>10. PICK n : n = Replied(c).m
  OBVIOUS
<1>11. \/ n = http
       \/ n = create(http)
       \/ \E client : n = [http EXCEPT !.clients[h] = client]
  BY <1>9, <1>10, Zenon DEF Same
<1>12. OnlyClients(http, n)
  BY <1>1, <1>11, SameClients, ClientCreated, ClientChanged
<1> QED BY <1>10, <1>12

LEMMA SimpleCalls ==
  ASSUME HostInv, CallInv, NEW c \in Clump, ~ observing[c], HttpClientSimple(c)
  PROVE  CallInv'
<1>1. PICK err : Working(c) /\ Goes(c, err)
  BY DEF HttpClientSimple
<1>2. UNCHANGED << prog, observing, observer, answered, setCount, promises, tasks, refs >>
  BY DEF HttpClientSimple
<1>3. http' = http \/ http' = Replied(c).m
  BY DEF HttpClientSimple
<1>4. OnlyClients(http, http')
  BY <1>3, SameClients, SimpleReplies DEF HttpClientSimple
<1>5. RefnumsOK(refs')
  BY <1>2 DEF CallInv
<1> QED BY <1>1, <1>2, <1>4, <1>5, PassesFree

LEMMA CloseCalls ==
  ASSUME HostInv, CallInv, NEW c \in Clump, ~ observing[c], HttpClientClose(c)
  PROVE  CallInv'
<1>1. PICK err : Working(c) /\ Goes(c, err)
  BY DEF HttpClientClose
<1>2. /\ UNCHANGED << prog, observing, observer, answered, setCount, promises, tasks, refs >>
      /\ http' = destroy(http, handle[c])
  BY DEF HttpClientClose, jsHttpClientClose, Reply
<1>3. Manager(http) /\ HandlesOK(http) /\ RefnumsOK(refs')
  BY <1>2 DEF CallInv, RequestsOK
<1>4. OnlyClients(http, http')
  BY <1>2, <1>3, ClientDestroyed
<1> QED BY <1>1, <1>2, <1>3, <1>4, PassesFree

LEMMA CloseRefnumCalls ==
  ASSUME HostInv, CallInv, NEW c \in Clump, ~ observing[c], CloseJavaScriptRefNum(c)
  PROVE  CallInv'
<1>1. PICK err : Working(c) /\ Goes(c, err)
  BY DEF CloseJavaScriptRefNum
<1>2. /\ UNCHANGED << prog, observing, observer, answered, setCount, promises, tasks, http >>
      /\ refs' = clearJavaScriptRefNum(refs, cookie[c], Instr(c).static)
  BY DEF CloseJavaScriptRefNum, jsCloseJavaScriptRefNum
<1>3. RefnumsOK(refs')
  <2>1. RefnumsOK(refs)
    BY DEF CallInv
  <2>2. refs' = refs \/ (/\ refs' = [next |-> refs'.next, static |-> refs'.static, dynamic |-> refs'.dynamic]
                         /\ refs'.next = refs.next /\ refs'.static = refs.static
                         /\ DOMAIN refs'.dynamic \subseteq DOMAIN refs.dynamic)
    BY <1>2, <2>1 DEF clearJavaScriptRefNum, RefnumsOK
  <2> QED BY <2>1, <2>2 DEF RefnumsOK, StaticCookies
<1>4. OnlyClients(http, http')
  BY <1>2, SameClients
<1> QED BY <1>1, <1>2, <1>3, <1>4, PassesFree

LEMMA IsNotCalls ==
  ASSUME HostInv, CallInv, NEW c \in Clump, ~ observing[c], IsNotAJavaScriptRefnum(c)
  PROVE  CallInv'
<1>1. /\ Working(c) /\ Goes(c, error[c])
      /\ UNCHANGED << prog, observing, observer, answered, setCount, promises, tasks, http, refs >>
  BY DEF IsNotAJavaScriptRefnum, callVars
<1>2. RefnumsOK(refs') /\ OnlyClients(http, http')
  BY <1>1, SameClients DEF CallInv
<1> QED BY <1>1, <1>2, PassesFree

LEMMA ResumeCalls ==
  ASSUME HostInv, CallInv, NEW c \in Clump, Resume(c)
  PROVE  CallInv'
<1>1. /\ Working(c) /\ Goes(c, error[c])
      /\ UNCHANGED << prog, setCount, promises, tasks, http, refs >>
      /\ observing' = [observing EXCEPT ![c] = FALSE]
      /\ observer' = [observer EXCEPT ![c] = 0]
      /\ answered' = [answered EXCEPT ![c] = FALSE]
  BY DEF Resume, callVars
<1>2. RefnumsOK(refs') /\ OnlyClients(http, http')
  BY <1>1, SameClients DEF CallInv
<1>3. observer'[c] = 0 /\ \A d \in Clump : d # c => observer'[d] = observer[d]
  BY <1>1 DEF HostInv, HostTypes
<1> QED BY <1>1, <1>2, <1>3, Passes

-----------------------------------------------------------------------------
(* Requests.                                                                *)

\* What the callbacks of requests write of the clumps that wait.
LEMMA AnsweredBy ==
  ASSUME CallTypes, NEW rs, IsASequence(rs), NEW told, told = {rs[k].id : k \in 1 .. Len(rs)},
         answered' = AnsweredAfter(rs)
  PROVE  /\ answered' \in [Clump -> BOOLEAN]
         /\ \A d \in Clump : answered'[d] <=> answered[d] \/ Call(d) \in told
<1>1. DOMAIN rs = 1 .. Len(rs)
  BY SameElements
<1>2. \A d \in Clump : answered'[d] <=> answered[d] \/ Call(d) \in told
  BY <1>1 DEF AnsweredAfter
<1>3. answered' = [d \in Clump |-> answered[d] \/ \E k \in DOMAIN rs : rs[k].id = Call(d)]
  BY DEF AnsweredAfter
<1> QED BY <1>2, <1>3 DEF CallTypes

\* The manager without the responses that have been given to the callbacks.
LEMMA ResponsesGiven ==
  ASSUME NEW n, Manager(n), NEW m, m = [n EXCEPT !.responses = << >>]
  PROVE  /\ Manager(m) /\ m.responses = << >> /\ m.clients = n.clients /\ m.next = n.next
         /\ m.tracker = n.tracker /\ m.completed = n.completed
<1>1. /\ m = [clients |-> m.clients, next |-> m.next, tracker |-> m.tracker,
              completed |-> m.completed, responses |-> m.responses]
      /\ m.responses = << >> /\ m.clients = n.clients /\ m.next = n.next
      /\ m.tracker = n.tracker /\ m.completed = n.completed
  BY DEF Manager
<1>2. IsASequence(<< >>)
  BY DEF IsASequence
<1> QED BY <1>1, <1>2 DEF Manager

\* A request that is refused, fails at once or is sent: the clump waits, and either it has
\* been answered and its task is given out, or its request is tracked.
LEMMA MethodAsks ==
  ASSUME HostInv, CallInv, NEW c \in Clump, ~ observing[c], running = c, inside # NotInside,
         Dequeue(queue), UNCHANGED << prog, pc, round, setCount, promises, refs >>,
         observing' = [observing EXCEPT ![c] = TRUE],
         observer' = [observer EXCEPT ![c] = CountAwaited(c)],
         NEW rs, IsASequence(rs), \A j, k \in 1 .. Len(rs) : rs[j].id = rs[k].id => j = k,
         NEW told, told = {rs[k].id : k \in 1 .. Len(rs)}, told \subseteq {Call(c)},
         answered' = AnsweredAfter(rs), tasks' = SetOccurrencesAsync(Answers(rs)),
         Manager(http'), HandlesOK(http'), http'.responses = << >>,
         http'.completed \subseteq http.completed \cup told,
         \A r \in Elements(http'.tracker) :
           r \in Elements(http.tracker) \/ (r.id = Call(c) /\ Call(c) \notin told),
         Elements(http.tracker) \subseteq Elements(http'.tracker)
  PROVE  CallInv'
<1>1. /\ ~ Asked(c) /\ SetTasks(c) = {} /\ ~ Crashed /\ ~ answered[c]
      /\ HostTypes /\ CallTypes /\ SetTasksOnce
  BY RunningIsFree DEF HostInv, CallInv
<1>2. Call(c).clump = c /\ Call(c).n \in Nat /\ \A d : Call(d)' = Call(d)
  BY <1>1, CallNumbers DEF Call
<1>3. /\ SetTasksOnce'
      /\ \A d \in Clump : SetTasks(d)' = SetTasks(d) \cup {SetTask(id) : id \in told \cap {Call(d)}}
  <2>1. \A id \in told : id.clump \in Clump /\ id = Call(id.clump) /\ SetTasks(id.clump) = {}
    BY <1>1, <1>2
  <2> QED BY <1>1, <2>1, AnswersGetTasks
<1>4. /\ answered' \in [Clump -> BOOLEAN]
      /\ \A d \in Clump : answered'[d] <=> answered[d] \/ Call(d) \in told
  BY <1>1, AnsweredBy, ZenonT(40)
<1>5. /\ RunsOnce' /\ Ready' = Elements(queue) /\ c \notin Elements(queue)
      /\ \A d \in Clump : d \in Ready' => d \in Ready
  <2>1. RunsOnce /\ queue \in Seq(Clump) /\ IsInjective(queue) /\ c \notin Elements(queue)
    BY DEF CallInv, RunsOnce
  <2> QED BY <2>1, DequeuedOnce, ReadyElements
<1>6. CallTypes'
  BY <1>1, <1>4 DEF CallTypes
<1>7. \A d \in Clump : d # c => Call(d) \notin told /\ observing'[d] = observing[d] /\ observer'[d] = observer[d]
  BY <1>1, <1>2, CallNumbers DEF CallTypes, HostTypes
<1>8. RequestsOK'
  <2>1. \A r \in Elements(http'.tracker) : r.id.clump \in Clump /\ r.id = Call(r.id.clump)'
    BY <1>2 DEF CallInv, RequestsOK
  <2>2. ASSUME NEW id \in http'.completed
        PROVE  /\ id.clump \in Clump /\ id.n \in Nat /\ id.n <= Call(id.clump)'.n
               /\ id.n = Call(id.clump)'.n => observing'[id.clump]
    <3>1. CASE id \in http.completed
      <4>1. /\ id.clump \in Clump /\ id.n \in Nat /\ id.n <= Call(id.clump).n
            /\ id.n = Call(id.clump).n => observing[id.clump]
        BY <3>1 DEF CallInv, RequestsOK
      <4> QED BY <1>1, <1>2, <4>1 DEF CallTypes
    <3>2. CASE id = Call(c)
      BY <1>1, <1>2, <3>2 DEF CallTypes
    <3> QED BY <3>1, <3>2
  <2> QED BY <2>1, <2>2 DEF RequestsOK
<1>9. PromisesOK' /\ RefnumsOK(refs)' /\ HandlesOK(http)'
  BY <1>2 DEF CallInv, PromisesOK
<1>10. ASSUME NEW d \in Clump
       PROVE  Place(d)'
  <2>1. CASE d = c
    <3>1. CountAwaited(c)' = CountAwaited(c) /\ CountAwaited(c) # 0 /\ observer'[c] = CountAwaited(c) /\ observing'[c]
      <4>1. setCount[c] \in [DOMAIN prog[c] -> Nat] /\ pc[c] \in DOMAIN prog[c]
        BY <1>1 DEF HostTypes
      <4>2. setCount[c][pc[c]] \in Nat
        BY <4>1
      <4> QED BY <1>1, <4>2 DEF CountAwaited, HostTypes, CallTypes
    <3>2. answered'[c] <=> Call(c) \in told
      BY <1>1, <1>4
    <3>3. SetTasks(c)' = IF answered'[c] THEN {SetTask(Call(c))} ELSE {}
      BY <1>1, <1>3, <3>2
    <3>4. SetTask(Call(c))' = SetTask(Call(c))
      BY <1>2 DEF SetTask
    <3>5. ~ Promised(c)' /\ (Requested(c)' => ~ answered'[c])
      BY <1>1, <3>2 DEF Asked, Promised, Requested
    <3> QED BY <1>5, <2>1, <3>1, <3>3, <3>4, <3>5 DEF Place, Asked
  <2>2. CASE d # c
    <3>1. Place(d)
      BY DEF CallInv
    <3>2. SetTasks(d)' = SetTasks(d) /\ (answered'[d] <=> answered[d])
      <4>1. Call(d) \notin told
        BY <1>7, <2>2
      <4>2. {SetTask(id) : id \in told \cap {Call(d)}} = {}
        BY <4>1
      <4> QED BY <1>3, <1>4, <4>1, <4>2
    <3>3. answered'[d] = answered[d]
      BY <1>1, <1>4, <3>2 DEF CallTypes
    <3>4. (Requested(d)' <=> Requested(d)) /\ (Promised(d)' <=> Promised(d))
      BY <1>2, <2>2 DEF Requested, Promised
    <3> QED BY <1>1, <1>5, <1>7, <2>2, <3>1, <3>2, <3>3, <3>4, PlaceFrame
  <2> QED BY <2>1, <2>2
<1> QED BY <1>3, <1>5, <1>6, <1>8, <1>9, <1>10 DEF CallInv

LEMMA MethodCalls ==
  ASSUME HostInv, CallInv, NEW c \in Clump, HttpClientMethod(c)
  PROVE  CallInv'
<1> DEFINE i == Instr(c)
           refused == MethodError(http, handle[c], i.outputFile)
<1>1. ~ observing[c] /\ Working(c) /\ running = c /\ inside # NotInside
      /\ UNCHANGED << prog, setCount, promises, refs >>
  BY DEF HttpClientMethod, Working
<1>2. Manager(http) /\ http.responses = << >> /\ HandlesOK(http)
  BY DEF CallInv, RequestsOK
<1>3. CASE error[c] # NoError
  <2>1. Goes(c, error[c]) /\ UNCHANGED << observing, observer, answered, http, tasks >>
    BY <1>3 DEF HttpClientMethod
  <2>2. OnlyClients(http, http') /\ RefnumsOK(refs')
    BY <1>1, <2>1, SameClients DEF CallInv
  <2> QED BY <1>1, <2>1, <2>2, PassesFree
<1>4. CASE error[c] = NoError
  <2>1. PICK browser \in IF refused # NoError THEN {"sent"} ELSE BrowserOutcomes(MethodClient(http, handle[c])) :
          LET m == IF refused = NoError THEN createRequest(http, Call(c), XhrTimeout(i.timeout), browser) ELSE http
              rs == IF refused = NoError THEN m.responses ELSE << [id |-> Call(c), error |-> refused] >>
          IN  /\ http' = [m EXCEPT !.responses = << >>]
              /\ answered' = AnsweredAfter(rs)
              /\ tasks' = SetOccurrencesAsync(Answers(rs))
              /\ observing' = [observing EXCEPT ![c] = TRUE]
              /\ observer' = [observer EXCEPT ![c] = CountAwaited(c)]
              /\ Dequeue(queue)
              /\ UNCHANGED << pc, round >>
    BY <1>4 DEF HttpClientMethod
  <2> HIDE DEF i, refused
  <2>2. CASE refused = NoError
    <3>1. PICK n : n = createRequest(http, Call(c), XhrTimeout(i.timeout), browser)
      OBVIOUS
    <3>2. browser \in BrowserOutcomes(MethodClient(http, handle[c]))
      BY <2>1, <2>2
    <3>3. Call(c) \notin http.completed
      <4>1. Call(c).clump = c
        BY CallNumbers DEF HostInv
      <4> QED BY <1>1, <4>1 DEF CallInv, RequestsOK
    <3>4. PICK request : request = [id |-> Call(c), timeout |-> XhrTimeout(i.timeout)]
      OBVIOUS
    <3>5. request.id = Call(c)
      BY <3>4
    <3>6. /\ Manager(n) /\ n.clients = http.clients /\ n.next = http.next
          /\ Told(n) \subseteq {Call(c)}
          /\ n.completed = http.completed \cup Told(n)
          /\ Elements(n.tracker) = {r \in Elements(http.tracker) \cup {request} : r.id \notin Told(n)}
      BY <1>2, <3>1, <3>2, <3>3, <3>4, Creates
    <3>7. /\ http' = [n EXCEPT !.responses = << >>]
          /\ answered' = AnsweredAfter(n.responses)
          /\ tasks' = SetOccurrencesAsync(Answers(n.responses))
          /\ observing' = [observing EXCEPT ![c] = TRUE]
          /\ observer' = [observer EXCEPT ![c] = CountAwaited(c)]
          /\ Dequeue(queue)
          /\ UNCHANGED << pc, round >>
      BY <2>1, <2>2, <3>1
    <3>8. /\ Manager(http') /\ http'.responses = << >> /\ http'.tracker = n.tracker
          /\ http'.completed = n.completed /\ http'.clients = http.clients /\ http'.next = http.next
      BY <3>6, <3>7, ResponsesGiven
    <3>9. HandlesOK(http')
      BY <1>2, <3>8 DEF HandlesOK
    <3>10. /\ IsASequence(n.responses)
           /\ \A j, k \in 1 .. Len(n.responses) : n.responses[j].id = n.responses[k].id => j = k
      BY <3>6 DEF Manager
    <3>11. \A r \in Elements(http.tracker) : r.id # Call(c)
      <4>1. ~ Asked(c) /\ Call(c).clump = c
        BY <1>1, RunningIsFree, CallNumbers DEF HostInv
      <4> QED BY <4>1 DEF Asked, Requested
    <3>12. /\ \A r \in Elements(http'.tracker) :
                r \in Elements(http.tracker) \/ (r.id = Call(c) /\ Call(c) \notin Told(n))
           /\ Elements(http.tracker) \subseteq Elements(http'.tracker)
      BY <3>5, <3>6, <3>8, <3>11
    <3>13. PICK told : told = Told(n)
      OBVIOUS
    <3>14. told = {n.responses[k].id : k \in 1 .. Len(n.responses)}
      BY <3>13 DEF Told
    <3> QED BY <1>1, <3>6, <3>7, <3>8, <3>9, <3>10, <3>12, <3>13, <3>14, MethodAsks
  <2>3. CASE refused # NoError
    <3>1. PICK rs : rs = << [id |-> Call(c), error |-> refused] >>
      OBVIOUS
    <3>2. /\ http' = [http EXCEPT !.responses = << >>]
          /\ answered' = AnsweredAfter(rs)
          /\ tasks' = SetOccurrencesAsync(Answers(rs))
          /\ observing' = [observing EXCEPT ![c] = TRUE]
          /\ observer' = [observer EXCEPT ![c] = CountAwaited(c)]
          /\ Dequeue(queue)
          /\ UNCHANGED << pc, round >>
      BY <2>1, <2>3, <3>1
    <3>3. Len(rs) = 1 /\ rs[1].id = Call(c)
      BY <3>1
    <3>4. IsASequence(rs)
      <4>1. PICK r : r = [id |-> Call(c), error |-> refused]
        OBVIOUS
      <4>2. rs \in Seq({r})
        BY <3>1, <4>1
      <4> QED BY <4>2, Sequences
    <3>5. /\ \A j, k \in 1 .. Len(rs) : rs[j].id = rs[k].id => j = k
          /\ {rs[k].id : k \in 1 .. Len(rs)} = {Call(c)}
      BY <3>3
    <3>6. /\ Manager(http') /\ http'.responses = << >> /\ http'.tracker = http.tracker
          /\ http'.completed = http.completed /\ http'.clients = http.clients /\ http'.next = http.next
      BY <1>2, <3>2, ResponsesGiven
    <3>7. HandlesOK(http')
      BY <1>2, <3>6 DEF HandlesOK
    <3>8. PICK told : told = {rs[k].id : k \in 1 .. Len(rs)}
      OBVIOUS
    <3> QED BY <1>1, <3>2, <3>4, <3>5, <3>6, <3>7, <3>8, MethodAsks
  <2> QED BY <2>2, <2>3
<1> QED BY <1>3, <1>4

\* Requests end outside of ExecuteSlices: their callers, who wait, are told.
LEMMA AnsweredCalls ==
  ASSUME HostInv, CallInv, inside = NotInside, NEW m, Manager(m), Answered(m),
         m.clients = http.clients, m.next = http.next,
         Told(m) \subseteq {r.id : r \in Elements(http.tracker)},
         m.completed \subseteq http.completed \cup {r.id : r \in Elements(http.tracker)},
         Elements(m.tracker) = {r \in Elements(http.tracker) : r.id \notin Told(m)}
  PROVE  CallInv'
<1>15. PICK rs : rs = m.responses
  OBVIOUS
<1>16. PICK told : told = Told(m)
  OBVIOUS
<1>1. /\ http' = [m EXCEPT !.responses = << >>]
      /\ answered' = AnsweredAfter(rs) /\ tasks' = SetOccurrencesAsync(Answers(rs))
      /\ UNCHANGED << prog, queue, running, pc, round, observing, observer, setCount, promises, refs, inside >>
  BY <1>15 DEF Answered
<1>2. /\ IsASequence(rs) /\ \A j, k \in 1 .. Len(rs) : rs[j].id = rs[k].id => j = k
      /\ told = {rs[k].id : k \in 1 .. Len(rs)}
  BY <1>15, <1>16 DEF Manager, Told
<1>3. HostTypes /\ CallTypes /\ SetTasksOnce /\ RequestsOK /\ HandlesOK(http)
  BY DEF HostInv, CallInv
<1>4. \A d : Call(d)' = Call(d)
  BY <1>1 DEF Call
<1>5. \A id \in told : id.clump \in Clump /\ id = Call(id.clump) /\ Requested(id.clump)
  BY <1>3, <1>16 DEF RequestsOK, Requested
<1>6. ASSUME NEW d \in Clump, Requested(d)
      PROVE  /\ observing[d] /\ ~ answered[d] /\ observer[d] # 0 /\ SetTasks(d) = {}
             /\ ~ Promised(d) /\ d \notin Ready
  <2>1. Place(d)
    BY DEF CallInv
  <2> QED BY <1>6, <2>1 DEF Place, Asked
<1>7. /\ SetTasksOnce'
      /\ \A d \in Clump : SetTasks(d)' = SetTasks(d) \cup {SetTask(id) : id \in told \cap {Call(d)}}
  <2>1. \A id \in told : id.clump \in Clump /\ id = Call(id.clump) /\ SetTasks(id.clump) = {}
    BY <1>5, <1>6
  <2> QED BY <1>1, <1>2, <1>3, <2>1, AnswersGetTasks
<1>8. /\ answered' \in [Clump -> BOOLEAN]
      /\ \A d \in Clump : answered'[d] <=> answered[d] \/ Call(d) \in told
  BY <1>1, <1>2, <1>3, AnsweredBy
<1>9. /\ Manager(http') /\ http'.responses = << >> /\ http'.tracker = m.tracker
      /\ http'.completed = m.completed /\ http'.clients = http.clients /\ http'.next = http.next
  BY <1>1, ResponsesGiven
<1>10. RequestsOK'
  <2>1. \A r \in Elements(http'.tracker) : r.id.clump \in Clump /\ r.id = Call(r.id.clump)'
    BY <1>3, <1>4, <1>9 DEF RequestsOK
  <2>2. ASSUME NEW id \in http'.completed
        PROVE  /\ id.clump \in Clump /\ id.n \in Nat /\ id.n <= Call(id.clump)'.n
               /\ id.n = Call(id.clump)'.n => observing'[id.clump]
    <3>1. CASE id \in http.completed
      BY <1>1, <1>3, <1>4, <3>1 DEF RequestsOK
    <3>2. CASE \E r \in Elements(http.tracker) : id = r.id
      <4>1. id.clump \in Clump /\ id = Call(id.clump) /\ Requested(id.clump)
        BY <1>3, <3>2 DEF RequestsOK, Requested
      <4>2. Call(id.clump).n \in Nat
        BY <1>3, <4>1, CallNumbers
      <4> QED BY <1>1, <1>4, <1>6, <4>1, <4>2
    <3> QED BY <1>9, <3>1, <3>2
  <2> QED BY <1>9, <2>1, <2>2 DEF RequestsOK
<1>11. CallTypes' /\ PromisesOK' /\ HandlesOK(http)' /\ RefnumsOK(refs)' /\ RunsOnce' /\ Ready' = Ready
  BY <1>1, <1>3, <1>4, <1>8, <1>9, SameRuns DEF CallTypes, CallInv, PromisesOK, HandlesOK
<1>12. ASSUME NEW d \in Clump
       PROVE  Place(d)'
  <2>1. Place(d)
    BY DEF CallInv
  <2>2. CASE Call(d) \in told
    <3>1. Requested(d) /\ Call(d).clump = d
      BY <1>3, <1>5, <2>2, CallNumbers
    <3>2. /\ observing[d] /\ ~ answered[d] /\ observer[d] # 0 /\ SetTasks(d) = {}
          /\ ~ Promised(d) /\ d \notin Ready
      BY <1>6, <3>1
    <3>3. observing'[d] /\ answered'[d] /\ observer'[d] = observer[d] /\ CountAwaited(d)' = CountAwaited(d)
      BY <1>1, <1>8, <2>2, <3>2 DEF CountAwaited
    <3>4. SetTasks(d)' = {SetTask(Call(d))}
      <4>1. told \cap {Call(d)} = {Call(d)}
        BY <2>2
      <4> QED BY <1>7, <3>2, <4>1
    <3>5. SetTask(Call(d))' = SetTask(Call(d))
      BY <1>1, <1>4 DEF SetTask
    <3>6. ~ Requested(d)'
      <4> SUFFICES ASSUME NEW r \in Elements(m.tracker), r.id.clump = d PROVE FALSE
        BY <1>9 DEF Requested
      <4>1. r \in Elements(http.tracker) /\ r.id \notin told
        BY <1>16
      <4>2. r.id = Call(d)
        BY <1>3, <4>1 DEF RequestsOK
      <4> QED BY <2>2, <4>1, <4>2
    <3>7. ~ Promised(d)'
      BY <1>1, <3>2 DEF Promised
    <3> QED BY <1>11, <2>1, <3>2, <3>3, <3>4, <3>5, <3>6, <3>7 DEF Place, Asked
  <2>3. CASE Call(d) \notin told
    <3>1. SetTasks(d)' = SetTasks(d)
      <4>1. {SetTask(id) : id \in told \cap {Call(d)}} = {}
        BY <2>3
      <4> QED BY <1>7, <4>1
    <3>2. answered'[d] = answered[d]
      BY <1>3, <1>8, <2>3 DEF CallTypes
    <3>3. Requested(d)' <=> Requested(d)
      <4>1. \A r \in Elements(http.tracker) : r.id.clump = d => r.id \notin told
        BY <1>3, <2>3 DEF RequestsOK
      <4> QED BY <1>16, <1>9, <4>1 DEF Requested
    <3>4. Promised(d)' <=> Promised(d)
      BY <1>1 DEF Promised
    <3>5. Crashed => Crashed'
      BY <1>1 DEF Crashed
    <3> QED BY <1>1, <1>11, <2>1, <3>1, <3>2, <3>3, <3>4, <3>5, PlaceFrame
  <2> QED BY <2>2, <2>3
<1> QED BY <1>7, <1>10, <1>11, <1>12 DEF CallInv

LEMMA EventCalls ==
  ASSUME HostInv, CallInv, NEW r \in ToSet(http.tracker), RequestEvent(r)
  PROVE  CallInv'
<1>1. PICK answer : inside = NotInside /\ Answered(completeRequest(http, r.id, answer))
  BY DEF RequestEvent
<1>2. PICK m : m = completeRequest(http, r.id, answer)
  OBVIOUS
<1>3. Manager(http) /\ http.responses = << >>
  BY DEF CallInv, RequestsOK
<1>4. r \in Elements(http.tracker)
  BY <1>3, SameElements DEF Manager
<1>5. /\ Manager(m) /\ m.clients = http.clients /\ m.next = http.next
      /\ m.completed = http.completed \cup {r.id}
      /\ Elements(m.tracker) = {t \in Elements(http.tracker) : t.id # r.id}
      /\ Told(m) = Told(http) \cup ({r.id} \ http.completed)
  BY <1>2, <1>3, Completes
<1>6. Told(m) = {r.id}
  <2>1. Told(http) = {} /\ r.id \notin http.completed
    BY <1>3, <1>4 DEF Told, Manager
  <2> QED BY <1>5, <2>1
<1> QED BY <1>1, <1>2, <1>4, <1>5, <1>6, AnsweredCalls

LEMMA AbortCalls ==
  ASSUME HostInv, CallInv, AbortAllRunningRequests
  PROVE  CallInv'
<1>1. PICK m : m = abortAllRunningRequests(http)
  OBVIOUS
<1>2. Manager(http) /\ http.responses = << >> /\ inside = NotInside /\ Answered(m)
  BY <1>1 DEF CallInv, RequestsOK, AbortAllRunningRequests
<1>3. /\ Manager(m) /\ m.clients = http.clients /\ m.next = http.next /\ m.tracker = << >>
      /\ Told(m) = {r.id : r \in Elements(http.tracker)}
      /\ m.completed = http.completed \cup Told(m)
  BY <1>1, <1>2, Aborts
<1>4. Elements(m.tracker) = {r \in Elements(http.tracker) : r.id \notin Told(m)}
  BY <1>3, EmptyElements
<1> QED BY <1>2, <1>3, <1>4, AnsweredCalls

-----------------------------------------------------------------------------
(* Calls of JavaScript functions.                                           *)

\* A value that is returned is given a cookie which nothing else has.
LEMMA ReturnKeepsRefnums ==
  ASSUME NEW r, RefnumsOK(r), NEW type, NEW value, NEW err, NEW old
  PROVE  RefnumsOK(ReturnWritten(r, type, value, err, old).refs)
<1>1. RefnumsOK(createCookie(r, value))
  <2>1. PICK n : n = createCookie(r, value)
    OBVIOUS
  <2>2. /\ n = [next |-> n.next, static |-> n.static, dynamic |-> n.dynamic]
        /\ n.next = r.next + 1 /\ n.static = r.static
        /\ DOMAIN n.dynamic = DOMAIN r.dynamic \cup {r.next + 1}
    BY <2>1 DEF createCookie, RefnumsOK
  <2> QED BY <2>1, <2>2 DEF RefnumsOK, StaticCookies
<1>2. RefnumsOK(createStaticCookie(r, value))
  <2>1. PICK n : n = createStaticCookie(r, value)
    OBVIOUS
  <2>2. CASE value \in DOMAIN r.static
    BY <2>1, <2>2 DEF createStaticCookie
  <2>3. CASE value \notin DOMAIN r.static
    <3>1. /\ n = [next |-> n.next, static |-> n.static, dynamic |-> n.dynamic]
          /\ n.next = r.next + 1 /\ n.dynamic = r.dynamic
          /\ n.static = [v \in DOMAIN r.static \cup {value} |-> IF v = value THEN r.next + 1 ELSE r.static[v]]
      BY <2>1, <2>3 DEF createStaticCookie, RefnumsOK
    <3>2. StaticCookies(n) = StaticCookies(r) \cup {r.next + 1}
      BY <2>3, <3>1 DEF StaticCookies
    <3> QED BY <2>1, <3>1, <3>2 DEF RefnumsOK
  <2> QED BY <2>2, <2>3
<1>3. ReturnWritten(r, type, value, err, old).refs \in {r, createCookie(r, value), createStaticCookie(r, value)}
  BY DEF ReturnWritten
<1> QED BY <1>1, <1>2, <1>3

\* What the functions on the way from a call to its end share.
IsCallState(s) ==
  /\ s = [refs |-> s.refs, internal |-> s.internal, type |-> s.type, out |-> s.out, set |-> s.set,
          throws |-> s.throws, error |-> s.error, status |-> s.status]
  /\ RefnumsOK(s.refs) /\ s.set \in BOOLEAN /\ s.throws \in BOOLEAN

LEMMA EndKeepsState ==
  ASSUME NEW s, IsCallState(s), NEW value
  PROVE  IsCallState(Ended(s, value))
<1>1. PICK written : written = ReturnWritten(s.refs, s.type, value, s.error, s.out)
  OBVIOUS
<1>2. RefnumsOK(written.refs)
  BY <1>1, ReturnKeepsRefnums DEF IsCallState
<1>3. PICK e : e = Ended(s, value)
  OBVIOUS
<1>4. /\ e = [refs |-> e.refs, internal |-> e.internal, type |-> e.type, out |-> e.out, set |-> e.set,
              throws |-> e.throws, error |-> e.error, status |-> e.status]
      /\ e.refs = s.refs \/ e.refs = written.refs
      /\ e.set = s.set
      /\ e.throws = s.throws \/ e.throws = (value # Undefined)
  BY <1>1, <1>3 DEF Ended, IsCallState
<1> QED BY <1>2, <1>3, <1>4 DEF IsCallState

LEMMA SetKeepsState ==
  ASSUME NEW s, IsCallState(s), NEW set \in BOOLEAN
  PROVE  IsCallState([s EXCEPT !.set = set]) /\ [s EXCEPT !.set = set].set = set
                                             /\ [s EXCEPT !.set = set].throws = s.throws
                                             /\ [s EXCEPT !.set = set].status = s.status
BY DEF IsCallState

LEMMA CompletionKeepsState ==
  ASSUME NEW s, IsCallState(s), NEW value
  PROVE  IsCallState(completionCallback(s, value)) /\ IsCallState(PromiseSettled(s, value))
<1>1. ASSUME NEW v
      PROVE  IsCallState(completionCallback(s, v))
  <2>1. IsCallState([s EXCEPT !.throws = TRUE])
    <3>1. PICK n : n = [s EXCEPT !.throws = TRUE]
      OBVIOUS
    <3>2. /\ n = [refs |-> n.refs, internal |-> n.internal, type |-> n.type, out |-> n.out, set |-> n.set,
                  throws |-> n.throws, error |-> n.error, status |-> n.status]
          /\ n.refs = s.refs /\ n.set = s.set /\ n.throws = TRUE
      BY <3>1 DEF IsCallState
    <3> QED BY <3>1, <3>2 DEF IsCallState
  <2>2. PICK e : e = Ended(s, v)
    OBVIOUS
  <2>3. IsCallState(e)
    BY <2>2, EndKeepsState
  <2>4. IsCallState([e EXCEPT !.set = ~ e.throws])
    BY <2>3 DEF IsCallState
  <2> QED BY <2>1, <2>2, <2>4 DEF completionCallback
<1> QED BY <1>1 DEF PromiseSettled

LEMMA CallStateHolds ==
  ASSUME CallInv, NEW c \in Clump, NEW i
  PROVE  /\ IsCallState(CallState(c, i))
         /\ ~ CallState(c, i).set /\ ~ CallState(c, i).throws
         /\ CallState(c, i).status = NewStatus
<1>1. RefnumsOK(refs)
  BY DEF CallInv
<1> QED BY <1>1 DEF CallState, IsCallState

\* A call that has given its clump to a promise has neither set the occurrence nor thrown.
LEMMA InvokeKeepsState ==
  ASSUME NEW s, IsCallState(s), ~ s.set, ~ s.throws, s.status = NewStatus, NEW arguments, NEW does
  PROVE  LET n == jsJavaScriptInvoke(s, arguments, does)
         IN  /\ IsCallState(n)
             /\ n.throws => ~ n.set
             /\ n.status.retrieval = "retrieved" => ~ n.set /\ ~ n.throws
<1> DEFINE failed(err) == [s EXCEPT !.error = MergedErrors(@, err), !.set = TRUE]
           valid == \A k \in DOMAIN arguments : isJavaScriptRefNumValid(s.refs, arguments[k], FALSE)
           ended == Ended(s, does.value)
<1>1. PICK n : n = jsJavaScriptInvoke(s, arguments, does)
  OBVIOUS
<1>2. \/ n = [s EXCEPT !.throws = TRUE]
      \/ \E err : n = failed(err)
      \/ n = [s EXCEPT !.status.retrieval = "retrieved"]
      \/ n = [ended EXCEPT !.set = ~ ended.throws]
  BY <1>1 DEF jsJavaScriptInvoke
<1>3. IsCallState(ended) /\ (ended.status = NewStatus \/ \E invocation : ended.status = Settled(invocation))
  BY EndKeepsState DEF Ended, IsCallState
<1>4. NewStatus.retrieval # "retrieved" /\ \A invocation : Settled(invocation).retrieval # "retrieved"
  BY DEF NewStatus, Settled
<1> HIDE DEF ended
<1>5. CASE n = [s EXCEPT !.throws = TRUE]
  <2>1. /\ n = [refs |-> n.refs, internal |-> n.internal, type |-> n.type, out |-> n.out, set |-> n.set,
                throws |-> n.throws, error |-> n.error, status |-> n.status]
        /\ n.refs = s.refs /\ n.set = s.set /\ n.throws = TRUE /\ n.status = s.status
    BY <1>5 DEF IsCallState
  <2>2. IsCallState(n)
    BY <2>1 DEF IsCallState
  <2> QED BY <1>1, <1>4, <2>1, <2>2
<1>6. ASSUME NEW err, n = failed(err)
      PROVE  IsCallState(n) /\ ~ n.throws /\ n.status = NewStatus
  <2>1. /\ n = [refs |-> n.refs, internal |-> n.internal, type |-> n.type, out |-> n.out, set |-> n.set,
                throws |-> n.throws, error |-> n.error, status |-> n.status]
        /\ n.refs = s.refs /\ n.set = TRUE /\ n.throws = s.throws /\ n.status = s.status
    BY <1>6 DEF IsCallState
  <2> QED BY <2>1 DEF IsCallState
<1>7. CASE n = [s EXCEPT !.status.retrieval = "retrieved"]
  <2>1. /\ n = [refs |-> n.refs, internal |-> n.internal, type |-> n.type, out |-> n.out, set |-> n.set,
                throws |-> n.throws, error |-> n.error, status |-> n.status]
        /\ n.refs = s.refs /\ n.set = s.set /\ n.throws = s.throws
    BY <1>7 DEF IsCallState
  <2>2. IsCallState(n)
    BY <2>1 DEF IsCallState
  <2> QED BY <1>1, <2>1, <2>2
<1>8. CASE n = [ended EXCEPT !.set = ~ ended.throws]
  <2>1. /\ n = [refs |-> n.refs, internal |-> n.internal, type |-> n.type, out |-> n.out, set |-> n.set,
                throws |-> n.throws, error |-> n.error, status |-> n.status]
        /\ n.refs = ended.refs /\ n.set = ~ ended.throws /\ n.throws = ended.throws /\ n.status = ended.status
    BY <1>3, <1>8 DEF IsCallState
  <2>2. IsCallState(n)
    BY <1>3, <2>1 DEF IsCallState
  <2>3. n.status.retrieval # "retrieved"
    BY <1>3, <1>4, <2>1
  <2>4. n.throws => ~ n.set
    BY <2>1
  <2> QED BY <1>1, <2>2, <2>3, <2>4
<1> QED BY <1>1, <1>2, <1>4, <1>5, <1>6, <1>7, <1>8

\* The observer is inserted first: a function that ends at once wakes the clump, one that
\* gives a promise leaves it waiting, and one that throws leaves it running for ever.
LEMMA InvokeAsks ==
  ASSUME HostInv, CallInv, NEW c \in Clump, ~ observing[c], running = c, inside # NotInside,
         UNCHANGED << prog, pc, round, http >>,
         NEW s, IsCallState(s), s.throws => ~ s.set, s.status.retrieval = "retrieved" => ~ s.set /\ ~ s.throws,
         refs' = s.refs,
         observing' = [observing EXCEPT ![c] = TRUE],
         answered' = [answered EXCEPT ![c] = s.set],
         DOMAIN promises' = DOMAIN promises \cup (IF s.status.retrieval = "retrieved" THEN {Call(c)} ELSE {}),
         observer' = [observer EXCEPT ![c] = IF s.set THEN 0 ELSE CountAwaited(c)],
         setCount' = IF s.set THEN [setCount EXCEPT ![c][pc[c]] = @ + 1] ELSE setCount,
         IF s.throws
         THEN /\ inside' = NotInside
              /\ tasks' = tasks (+) Timeout([kind |-> "reject"])
              /\ UNCHANGED << running, queue >>
         ELSE /\ Dequeue(IF s.set THEN Append(queue, c) ELSE queue)
              /\ UNCHANGED tasks
  PROVE  CallInv'
<1> DEFINE q == IF s.set THEN Append(queue, c) ELSE queue
<1>1. /\ ~ Asked(c) /\ SetTasks(c) = {} /\ ~ Crashed /\ ~ answered[c] /\ c \in Ready
      /\ HostTypes /\ CallTypes /\ SetTasksOnce /\ RunsOnce
  BY RunningIsFree DEF HostInv, CallInv
<1>2. Call(c).clump = c /\ \A d : Call(d)' = Call(d)
  BY <1>1, CallNumbers DEF Call
<1>3. SameSetTasks(tasks')
  <2>1. CASE s.throws
    <3>1. PICK task : task = [kind |-> "reject"]
      OBVIOUS
    <3> QED BY <1>1, <2>1, <3>1, OtherTasks
  <2>2. CASE ~ s.throws
    BY <2>2 DEF SameSetTasks
  <2> QED BY <2>1, <2>2
<1>4. SetTasksOnce' /\ \A d : SetTasks(d)' = SetTasks(d)
  BY <1>1, <1>3 DEF SetTasksOnce, SetTasks, SameSetTasks
<1>5. c \notin Elements(queue) /\ queue \in Seq(Clump) /\ IsInjective(queue)
  BY <1>1 DEF RunsOnce
<1>6. q \in Seq(Clump) /\ IsInjective(q) /\ Elements(q) = Elements(queue) \cup (IF s.set THEN {c} ELSE {})
  BY <1>1, <1>5, QueuedOnce
<1> HIDE DEF q
<1>7. /\ RunsOnce' /\ \A d \in Clump : d # c /\ d \in Ready' => d \in Ready
      /\ c \in Ready' => s.set \/ s.throws
      /\ s.throws => Crashed'
  <2>1. CASE s.throws
    <3>1. RunsOnce' /\ Ready' = Ready
      BY <1>1, <2>1, SameRuns
    <3> QED BY <2>1, <3>1, HostAssumption DEF Crashed
  <2>2. CASE ~ s.throws
    <3>1. Dequeue(q)
      BY <2>2 DEF q
    <3>2. RunsOnce' /\ Ready' = Elements(q)
      BY <1>6, <3>1, DequeuedOnce
    <3> QED BY <1>1, <1>5, <1>6, <2>2, <3>2, ReadyElements
  <2> QED BY <2>1, <2>2
<1>8. CallTypes' /\ observing'[c] /\ answered'[c] = s.set
  BY <1>1 DEF CallTypes, IsCallState
<1>9. \A d \in Clump : d # c =>
        /\ observing'[d] = observing[d] /\ observer'[d] = observer[d] /\ answered'[d] = answered[d]
        /\ setCount'[d] = setCount[d]
  BY <1>1 DEF CallTypes, HostTypes
<1>10. RequestsOK' /\ HandlesOK(http)' /\ RefnumsOK(refs)'
  BY <1>2, <1>8, <1>9 DEF CallInv, RequestsOK, IsCallState
<1>11. PromisesOK'
  BY <1>2 DEF CallInv, PromisesOK
<1>12. ASSUME NEW d \in Clump
       PROVE  Place(d)'
  <2>1. CASE d = c
    <3>1. CountAwaited(c) \in Nat /\ CountAwaited(c) # 0
      <4>1. setCount[c] \in [DOMAIN prog[c] -> Nat] /\ pc[c] \in DOMAIN prog[c]
        BY <1>1 DEF HostTypes
      <4>2. setCount[c][pc[c]] \in Nat
        BY <4>1
      <4> QED BY <4>2 DEF CountAwaited
    <3>2. ~ Requested(c)' /\ (Promised(c)' => s.status.retrieval = "retrieved")
      BY <1>1 DEF Asked, Requested, Promised
    <3>3. SetTasks(c)' = {}
      BY <1>1, <1>4
    <3>4. CASE s.set
      <4>1. observer'[c] = 0 /\ answered'[c] /\ ~ Promised(c)'
        BY <1>1, <1>8, <3>2, <3>4 DEF HostTypes
      <4> QED BY <1>8, <2>1, <3>2, <3>3, <4>1 DEF Place, Asked
    <3>5. CASE ~ s.set
      <4>1. observer'[c] = CountAwaited(c) /\ CountAwaited(c)' = CountAwaited(c) /\ ~ answered'[c]
        BY <1>1, <1>8, <3>5 DEF HostTypes, CountAwaited
      <4>2. Asked(c)' => c \notin Ready'
        BY <1>7, <3>2, <3>5 DEF Asked
      <4> QED BY <1>7, <1>8, <2>1, <3>1, <3>2, <3>3, <3>5, <4>1, <4>2 DEF Place, Asked
    <3> QED BY <3>4, <3>5 DEF IsCallState
  <2>2. CASE d # c
    <3>1. Place(d) /\ SetTasks(d)' = SetTasks(d)
      BY <1>4 DEF CallInv
    <3>2. (Requested(d)' <=> Requested(d)) /\ (Promised(d)' <=> Promised(d))
      BY <1>2, <2>2 DEF Requested, Promised
    <3> QED BY <1>1, <1>7, <1>9, <2>2, <3>1, <3>2, PlaceFrame
  <2> QED BY <2>1, <2>2
<1> QED BY <1>4, <1>7, <1>8, <1>10, <1>11, <1>12 DEF CallInv

LEMMA InvokeCalls ==
  ASSUME HostInv, CallInv, NEW c \in Clump, JavaScriptInvoke(c)
  PROVE  CallInv'
<1> DEFINE i == Instr(c)
           arguments == [k \in 1 .. i.refnums |-> cookie[c]]
           skips == i.errorWired /\ error[c] # NoError
<1>1. ~ observing[c] /\ UNCHANGED << prog, http >>
  BY DEF JavaScriptInvoke
<1>2. CASE skips
  <2>1. Working(c) /\ Goes(c, error[c]) /\ UNCHANGED << observing, observer, setCount, answered, promises, refs, tasks >>
    BY <1>2 DEF JavaScriptInvoke
  <2>2. OnlyClients(http, http') /\ RefnumsOK(refs')
    BY <1>1, <2>1, SameClients DEF CallInv
  <2> QED BY <1>1, <2>1, <2>2, PassesFree
<1>3. CASE ~ skips
  <2>1. PICK does :
          LET s == jsJavaScriptInvoke(CallState(c, i), arguments, does)
          IN  /\ inside # NotInside /\ running = c
              /\ refs' = s.refs
              /\ observing' = [observing EXCEPT ![c] = TRUE]
              /\ answered' = [answered EXCEPT ![c] = s.set]
              /\ promises' = IF s.status.retrieval = "retrieved"
                             THEN [k \in DOMAIN promises \cup {Call(c)} |->
                                     IF k = Call(c) THEN [internal |-> i.internal, returns |-> i.returns, errorWired |-> i.errorWired,
                                                          with |-> does.settles] ELSE promises[k]]
                             ELSE promises
              /\ observer' = [observer EXCEPT ![c] = IF s.set THEN 0 ELSE CountAwaited(c)]
              /\ setCount' = IF s.set THEN [setCount EXCEPT ![c][pc[c]] = @ + 1] ELSE setCount
              /\ IF s.throws
                 THEN /\ inside' = NotInside
                      /\ tasks' = tasks (+) Timeout([kind |-> "reject"])
                      /\ UNCHANGED << running, queue >>
                 ELSE /\ Dequeue(IF s.set THEN Append(queue, c) ELSE queue)
                      /\ UNCHANGED tasks
              /\ UNCHANGED << pc, round >>
    BY <1>3 DEF JavaScriptInvoke
  <2>2. PICK s : s = jsJavaScriptInvoke(CallState(c, i), arguments, does)
    OBVIOUS
  <2>3. /\ inside # NotInside /\ running = c
        /\ refs' = s.refs
        /\ observing' = [observing EXCEPT ![c] = TRUE]
        /\ answered' = [answered EXCEPT ![c] = s.set]
        /\ DOMAIN promises' = DOMAIN promises \cup (IF s.status.retrieval = "retrieved" THEN {Call(c)} ELSE {})
        /\ observer' = [observer EXCEPT ![c] = IF s.set THEN 0 ELSE CountAwaited(c)]
        /\ setCount' = IF s.set THEN [setCount EXCEPT ![c][pc[c]] = @ + 1] ELSE setCount
        /\ IF s.throws
           THEN /\ inside' = NotInside
                /\ tasks' = tasks (+) Timeout([kind |-> "reject"])
                /\ UNCHANGED << running, queue >>
           ELSE /\ Dequeue(IF s.set THEN Append(queue, c) ELSE queue)
                /\ UNCHANGED tasks
        /\ UNCHANGED << pc, round >>
    BY <2>1, <2>2
  <2> HIDE DEF i, arguments
  <2>4. PICK start : start = CallState(c, i)
    OBVIOUS
  <2>5. IsCallState(start) /\ ~ start.set /\ ~ start.throws /\ start.status = NewStatus
    BY <2>4, CallStateHolds
  <2>6. /\ IsCallState(s)
        /\ s.throws => ~ s.set
        /\ s.status.retrieval = "retrieved" => ~ s.set /\ ~ s.throws
    BY <2>2, <2>4, <2>5, InvokeKeepsState
  <2> QED BY <1>1, <2>3, <2>6, InvokeAsks
<1> QED BY <1>2, <1>3

\* A promise is settled: its clump waits in the call, and is told by a task.
LEMMA PromiseCalls ==
  ASSUME HostInv, CallInv, NEW id \in DOMAIN promises, Settle(id)
  PROVE  CallInv'
<1> DEFINE p == promises[id]
           c == id.clump
<1>1. PICK value :
        LET s == PromiseSettled(CallState(c, p), value)
        IN  /\ refs' = s.refs
            /\ answered' = [answered EXCEPT ![c] = s.set /\ id = Call(c)]
            /\ tasks' = IF s.set THEN tasks (+) Timeout(SetTask(id)) ELSE tasks
  BY DEF Settle
<1>2. /\ DOMAIN promises' = DOMAIN promises \ {id}
      /\ UNCHANGED << prog, queue, running, pc, round, observing, observer, setCount, http, inside >>
  BY DEF Settle
<1> HIDE DEF p
<1>3. c \in Clump /\ id = Call(c) /\ Promised(c) /\ Place(c)
  BY DEF CallInv, PromisesOK, Promised
<1>4. HostTypes /\ CallTypes /\ SetTasksOnce /\ RunsOnce
  BY DEF HostInv, CallInv
<1>5. /\ observing[c] /\ ~ answered[c] /\ observer[c] # 0 /\ observer[c] = CountAwaited(c)
      /\ SetTasks(c) = {} /\ ~ Requested(c) /\ c \notin Ready
  BY <1>3 DEF Place, Asked
<1>6. PICK start : start = CallState(c, p)
  OBVIOUS
<1>7. PICK s : s = PromiseSettled(start, value)
  OBVIOUS
<1>8. IsCallState(s)
  <2>1. IsCallState(start)
    BY <1>3, <1>6, CallStateHolds
  <2> QED BY <1>7, <2>1, CompletionKeepsState
<1>9. /\ refs' = s.refs /\ s.set \in BOOLEAN
      /\ answered' = [answered EXCEPT ![c] = s.set]
      /\ tasks' = IF s.set THEN tasks (+) Timeout(SetTask(id)) ELSE tasks
  BY <1>1, <1>3, <1>6, <1>7, <1>8 DEF IsCallState
<1> HIDE DEF c
<1>10. \A d : Call(d)' = Call(d) /\ SetTask(Call(d))' = SetTask(Call(d)) /\ (Requested(d)' <=> Requested(d))
  BY <1>2 DEF Call, SetTask, Requested
<1>11. SetTask(id).kind = "set" /\ SetTask(id).call.clump = c
  BY <1>3, <1>4, TaskFindsInstruction
<1>12. /\ SetTasksOnce'
       /\ \A d : SetTasks(d)' = SetTasks(d) \cup (IF s.set /\ d = c THEN {SetTask(id)} ELSE {})
  <2>1. CASE s.set
    <3>1. PICK task : task = SetTask(id)
      OBVIOUS
    <3>2. task \notin DOMAIN tasks /\ task.kind = "set" /\ task.call.clump = c
      BY <1>5, <1>11, <3>1 DEF SetTasks
    <3>3. /\ DOMAIN tasks' = DOMAIN tasks \cup {task} /\ tasks'[task] = 1
          /\ \A t \in DOMAIN tasks : t.kind = "set" => tasks'[t] = tasks[t]
      BY <1>4, <1>9, <2>1, <3>1, <3>2 DEF Timeout, SetToBag, (+), SetTasksOnce
    <3>4. SetTasksOnce'
      BY <1>3, <1>4, <3>2, <3>3 DEF SetTasksOnce
    <3> QED BY <2>1, <3>1, <3>2, <3>3, <3>4 DEF SetTasks
  <2>2. CASE ~ s.set
    BY <1>4, <1>9, <2>2 DEF SetTasksOnce, SetTasks
  <2> QED BY <1>9, <2>1, <2>2
<1>13. CallTypes' /\ RunsOnce' /\ Ready' = Ready
  BY <1>2, <1>4, <1>9, SameRuns DEF CallTypes
<1>14. RequestsOK' /\ PromisesOK' /\ HandlesOK(http)' /\ RefnumsOK(refs)'
  BY <1>2, <1>8, <1>9, <1>10 DEF CallInv, RequestsOK, PromisesOK, IsCallState
<1>15. ASSUME NEW d \in Clump
       PROVE  Place(d)'
  <2>1. CASE d = c
    <3>1. ~ Promised(c)'
      <4> SUFFICES ASSUME NEW k \in DOMAIN promises, k # id, k.clump = c PROVE FALSE
        BY <1>2 DEF Promised
      <4>1. k = Call(k.clump)
        BY DEF CallInv, PromisesOK
      <4> QED BY <1>3, <4>1
    <3>2. /\ answered'[c] = s.set /\ observing'[c] /\ observer'[c] = observer[c]
          /\ CountAwaited(c)' = CountAwaited(c)
      BY <1>2, <1>3, <1>4, <1>5, <1>9 DEF CallTypes, CountAwaited
    <3>3. SetTasks(c)' = IF s.set THEN {SetTask(Call(c))} ELSE {}
      BY <1>3, <1>5, <1>12
    <3> QED BY <1>5, <1>9, <1>10, <1>13, <2>1, <3>1, <3>2, <3>3 DEF Place, Asked
  <2>2. CASE d # c
    <3>1. Place(d) /\ SetTasks(d)' = SetTasks(d) /\ answered'[d] = answered[d]
      BY <1>4, <1>9, <1>12, <2>2 DEF CallInv, CallTypes
    <3>2. Promised(d)' <=> Promised(d)
      BY <1>2, <2>2 DEF Promised, c
    <3>3. Crashed => Crashed'
      BY <1>2 DEF Crashed
    <3> QED BY <1>2, <1>10, <1>13, <2>2, <3>1, <3>2, <3>3, PlaceFrame
  <2> QED BY <2>1, <2>2
<1> QED BY <1>12, <1>13, <1>14, <1>15 DEF CallInv

-----------------------------------------------------------------------------
(* The theorems.                                                            *)

LEMMA InitCalls == Init => CallInv
<1> SUFFICES ASSUME Init PROVE CallInv
  OBVIOUS
<1>1. HostInv
  BY InitHolds
<1>2. DOMAIN tasks = {}
  BY DEF Init, EmptyBag, SetToBag
<1>3. RunsOnce
  <2> DEFINE n == Cardinality(Clump)
  <2>1. n \in Nat
    BY HostAssumption, FS_CardinalityType
  <2>2. \E f \in [1 .. n -> Clump] : IsInjective(f)
    <3>1. PICK m \in Nat : ExistsBijection(1 .. m, Clump)
      BY HostAssumption, FS_NatBijection
    <3>2. m = n
      BY <3>1, FS_CountingElements
    <3> QED BY <3>1, <3>2 DEF ExistsBijection, Bijection, Injection, IsInjective
  <2>3. queue \in [1 .. n -> Clump] /\ IsInjective(queue)
    BY <2>2 DEF Init, SetToSeq
  <2>4. queue \in Seq(Clump)
    BY <2>1, <2>3
  <2>5. NoClump \notin Elements(queue)
    BY <2>4, ElementsType, HostAssumption
  <2> QED BY <2>3, <2>4, <2>5 DEF Init, RunsOnce
<1>4. CallTypes /\ SetTasksOnce /\ PromisesOK
  BY <1>2 DEF Init, CallTypes, SetTasksOnce, PromisesOK
<1>5. http.tracker = << >> /\ http.responses = << >> /\ http.completed = {} /\ http.clients = << >> /\ http.next = 1
      /\ http = [clients |-> http.clients, next |-> http.next, tracker |-> http.tracker,
                 completed |-> http.completed, responses |-> http.responses]
  BY DEF Init, NewHttpClientManager
<1>6. RequestsOK /\ HandlesOK(http)
  <2>1. IsASequence(<< >>)
    BY DEF IsASequence
  <2>2. Elements(<< >>) = {}
    BY EmptyElements
  <2>3. Manager(http)
    BY <1>5, <2>1, <2>2 DEF Manager
  <2> QED BY <1>5, <2>2, <2>3 DEF RequestsOK, HandlesOK
<1>7. RefnumsOK(refs)
  BY DEF Init, NewRefnums, RefnumsOK, StaticCookies
<1>8. ASSUME NEW c \in Clump
      PROVE  Place(c)
  <2>1. ~ observing[c] /\ observer[c] = 0 /\ ~ answered[c]
    BY DEF Init
  <2>2. SetTasks(c) = {} /\ ~ Promised(c)
    BY <1>2 DEF Init, SetTasks, Promised
  <2>3. ~ Requested(c)
    BY <1>5, EmptyElements DEF Requested
  <2> QED BY <2>1, <2>2, <2>3 DEF Place, Asked
<1> QED BY <1>3, <1>4, <1>6, <1>7, <1>8 DEF CallInv

LEMMA StepCalls ==
  ASSUME HostInv, CallInv, [Next]_hostVars
  PROVE  CallInv'
<1>1. CASE ExecuteSlicesUntilClumpsFinished
  BY <1>1, StartCalls
<1>2. CASE SlicesEnd
  BY <1>2, EndCalls
<1>3. CASE Rotate
  BY <1>3, RotateCalls
<1>4. CASE AbortAllRunningRequests
  BY <1>4, AbortCalls
<1>5. CASE \E task \in BagToSet(tasks) : RunTask(task)
  BY <1>5, TimerCalls, OccurrenceCalls, SettleCalls DEF RunTask
<1>6. CASE \E c \in Clump : Execute(c)
  BY <1>6, SimpleCalls, CloseCalls, CloseRefnumCalls, IsNotCalls, MethodCalls, InvokeCalls, ResumeCalls DEF Execute
<1>7. CASE \E id \in DOMAIN promises : Settle(id)
  BY <1>7, PromiseCalls
<1>8. CASE \E r \in ToSet(http.tracker) : RequestEvent(r)
  BY <1>8, EventCalls
<1>9. CASE UNCHANGED hostVars
  <2>1. RunsOnce' /\ Ready' = Ready
    BY <1>9, SameRuns DEF CallInv, hostVars, clumpVars
  <2>2. SameSetTasks(tasks') /\ (Crashed => Crashed')
    BY <1>9 DEF SameSetTasks, Crashed, hostVars, clumpVars, pumpVars
  <2> QED BY <1>9, <2>1, <2>2, PumpMoves DEF hostVars, clumpVars
<1> QED BY <1>1, <1>2, <1>3, <1>4, <1>5, <1>6, <1>7, <1>8, <1>9 DEF Next

\* What both sides know of the calls, in every state.
THEOREM CallsInvariant == HostSpec => [](HostInv /\ CallInv)
<1>1. HostInv /\ [Next]_hostVars => HostInv'
  BY NextKeeps
<1>2. HostInv /\ CallInv /\ [Next]_hostVars => CallInv'
  BY StepCalls
<1> QED BY <1>1, <1>2, InitHolds, InitCalls, PTL DEF HostSpec

\* A clump that goes on after it has waited, for a request or for a function, has the
\* answer to its own call: no answer of an earlier one wakes it, none comes twice, and
\* nobody wakes it without (vireo.eventHelpers.js and module_httpClient.js rely on it).
THEOREM AnswersAreOwn == HostSpec => []OwnAnswer
<1>1. ASSUME CallInv, ~ Crashed, NEW c \in Ready, observing[c]
      PROVE  answered[c]
  <2>1. Ready = Elements(queue) \cup ({running} \ {NoClump})
    BY <1>1, ReadyElements DEF CallInv
  <2>2. c \in Clump
    BY <1>1, <2>1 DEF CallInv, RunsOnce, Elements
  <2> QED BY <1>1, <2>2 DEF CallInv, Place
<1>2. CallInv => OwnAnswer
  BY <1>1 DEF OwnAnswer
<1> QED BY <1>2, CallsInvariant, PTL

\* Counters are ahead of all handles and cookies that have been given out, requests and
\* promises belong to the call that their clump is in, and no clump is in the run queue twice.
THEOREM HostTypesHold == HostSpec => []HostTypeOK
<1>1. ASSUME CallInv
      PROVE  \A c \in Clump : Cardinality({k \in DOMAIN queue : queue[k] = c}) + (IF running = c THEN 1 ELSE 0) \in {0, 1}
  <2> SUFFICES ASSUME NEW c \in Clump
               PROVE  Cardinality({k \in DOMAIN queue : queue[k] = c}) + (IF running = c THEN 1 ELSE 0) \in {0, 1}
    OBVIOUS
  <2> DEFINE at == {k \in DOMAIN queue : queue[k] = c}
  <2>1. queue \in Seq(Clump) /\ IsInjective(queue) /\ running \notin Elements(queue) /\ DOMAIN queue = 1 .. Len(queue)
    BY <1>1 DEF CallInv, RunsOnce
  <2>2. at = {} \/ \E k : at = {k} /\ running # c
    BY <2>1, ZenonT(40) DEF IsInjective, Elements
  <2>3. Cardinality(at) = 0 \/ (Cardinality(at) = 1 /\ running # c)
    BY <2>2, FS_EmptySet, FS_Singleton
  <2> DEFINE runs == IF running = c THEN 1 ELSE 0
  <2>4. runs \in {0, 1} /\ (running # c => runs = 0)
    OBVIOUS
  <2> HIDE DEF at, runs
  <2>5. Cardinality(at) + runs \in {0, 1}
    BY <2>3, <2>4
  <2> QED BY <2>5 DEF at, runs
<1>2. ASSUME CallInv PROVE HostTypeOK
  <2>1. ToSet(http.tracker) = Elements(http.tracker)
    BY <1>2, SameElements DEF CallInv, RequestsOK, Manager
  <2>2. \A r \in Elements(http.tracker) : r.id = Call(r.id.clump) /\ observing[r.id.clump]
    BY <1>2 DEF CallInv, RequestsOK, Place, Asked, Requested
  <2>3. \A id \in DOMAIN promises : id = Call(id.clump) /\ observing[id.clump]
    BY <1>2 DEF CallInv, PromisesOK, Place, Asked, Promised
  <2> QED BY <1>1, <1>2, <2>1, <2>2, <2>3 DEF HostTypeOK, CallInv, HandlesOK, RefnumsOK
<1> QED BY <1>2, CallsInvariant, PTL

\* When the host aborts all requests none goes on, and every clump that waited for one has
\* been told: abort changes the list of running requests under the loop over its copy.
THEOREM AbortsAreComplete == HostSpec => AbortEndsAll
<1>1. ASSUME HostInv, CallInv, AbortAllRunningRequests
      PROVE  http'.tracker = << >> /\ \A r \in ToSet(http.tracker) : answered'[r.id.clump]
  <2>1. PICK m : m = abortAllRunningRequests(http)
    OBVIOUS
  <2>2. Manager(http) /\ http.responses = << >> /\ Answered(m) /\ CallTypes
    BY <1>1, <2>1 DEF CallInv, RequestsOK, AbortAllRunningRequests
  <2>3. /\ Manager(m) /\ m.tracker = << >>
        /\ Told(m) = {r.id : r \in Elements(http.tracker)}
    BY <2>1, <2>2, Aborts
  <2>4. http' = [m EXCEPT !.responses = << >>] /\ answered' = AnsweredAfter(m.responses)
    BY <2>2 DEF Answered
  <2>5. http'.tracker = << >>
    BY <2>3, <2>4, ResponsesGiven
  <2>6. PICK rs : rs = m.responses
    OBVIOUS
  <2>7. PICK told : told = Told(m)
    OBVIOUS
  <2>8. IsASequence(rs) /\ told = {rs[k].id : k \in 1 .. Len(rs)} /\ answered' = AnsweredAfter(rs)
    BY <2>3, <2>4, <2>6, <2>7 DEF Manager, Told
  <2>9. \A d \in Clump : answered'[d] <=> answered[d] \/ Call(d) \in told
    BY <2>2, <2>8, AnsweredBy
  <2>10. \A r \in Elements(http.tracker) : r.id.clump \in Clump /\ r.id = Call(r.id.clump) /\ r.id \in told
    BY <1>1, <2>3, <2>7 DEF CallInv, RequestsOK
  <2>11. ToSet(http.tracker) = Elements(http.tracker)
    BY <2>2, SameElements DEF Manager
  <2> QED BY <2>5, <2>9, <2>10, <2>11
<1>2. HostInv /\ CallInv => [AbortAllRunningRequests =>
         http'.tracker = << >> /\ \A r \in ToSet(http.tracker) : answered'[r.id.clump]]_hostVars
  BY <1>1
<1> QED BY <1>2, CallsInvariant, PTL DEF AbortEndsAll
=============================================================================
