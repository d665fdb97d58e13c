----------------------- MODULE SynchronizationProofs -----------------------
(***************************************************************************)
(* Proofs about Synchronization, for any clumps, occurrences, queues and   *)
(* bounds, any timeouts and any family of well-formed programs.            *)
(*                                                                         *)
(* To the scheduler a clump that waits for a timer is out of play, like    *)
(* one that a Stop has dropped: what ClumpSchedulerProofs says of stopped  *)
(* is used here of stopped and the clumps in timers together.              *)
(***************************************************************************)
EXTENDS Synchronization, ListProofs, FiniteSetTheorems

Away == stopped \cup Listed(timers)

Sched == INSTANCE ClumpSchedulerProofs WITH stopped <- Away

-----------------------------------------------------------------------------
(* Lists of records that name a clump.                                      *)

NamesClumps(T) == \A e \in T : e.clump \in Clump

\* The clumps of a list.
LEMMA ListedElements ==
  ASSUME NEW T, NamesClumps(T), NEW s \in Seq(T)
  PROVE  /\ ClumpsOf(s) \in Seq(Clump) /\ Len(ClumpsOf(s)) = Len(s)
         /\ Listed(s) = {s[i].clump : i \in 1 .. Len(s)}
         /\ Listed(s) = {e.clump : e \in Elements(s)}
         /\ Listed(s) \subseteq Clump
         /\ IsInjective(ClumpsOf(s)) <=>
              \A i, j \in 1 .. Len(s) : s[i].clump = s[j].clump => i = j
<1>1. \A i \in 1 .. Len(s) : s[i] \in T /\ s[i].clump \in Clump
  BY DEF NamesClumps
<1>2. /\ ClumpsOf(s) \in Seq(Clump) /\ Len(ClumpsOf(s)) = Len(s)
      /\ DOMAIN ClumpsOf(s) = 1 .. Len(s)
      /\ \A i \in 1 .. Len(s) : ClumpsOf(s)[i] = s[i].clump
  BY <1>1 DEF ClumpsOf
<1>3. Listed(s) = {s[i].clump : i \in 1 .. Len(s)}
  BY <1>2 DEF Listed, Elements
<1>4. {s[i].clump : i \in 1 .. Len(s)} = {e.clump : e \in Elements(s)}
  BY DEF Elements
<1>5. IsInjective(ClumpsOf(s)) <=> \A i, j \in 1 .. Len(s) : s[i].clump = s[j].clump => i = j
  BY <1>2 DEF IsInjective
<1>6. Listed(s) \subseteq Clump
  BY <1>1, <1>3
<1> QED BY <1>2, <1>3, <1>4, <1>5, <1>6

\* What is chosen of a list, and of its clumps.
LEMMA ChosenList ==
  ASSUME NEW T, NamesClumps(T), NEW s \in Seq(T), NEW S
  PROVE  /\ Chosen(s, S) \in Seq(T)
         /\ Elements(Chosen(s, S)) = Elements(s) \cap S
         /\ IsInjective(ClumpsOf(s)) => IsInjective(ClumpsOf(Chosen(s, S)))
<1> DEFINE key == [e \in T |-> e.clump]
           r == Chosen(s, S)
<1>1. /\ r \in Seq(T) /\ Elements(r) = Elements(s) \cap S
      /\ Distinct(s, key) => Distinct(r, key)
  BY ChosenElements
<1> HIDE DEF r
<1>2. ASSUME NEW t \in Seq(T)
      PROVE  Distinct(t, key) <=> IsInjective(ClumpsOf(t))
  <2>1. \A i \in 1 .. Len(t) : key[t[i]] = t[i].clump
    OBVIOUS
  <2> HIDE DEF key
  <2>2. Distinct(t, key) <=> \A i, j \in 1 .. Len(t) : t[i].clump = t[j].clump => i = j
    BY <2>1 DEF Distinct
  <2> QED BY <2>2, ListedElements
<1> QED BY <1>1, <1>2 DEF r

\* A list without some of its clumps.
LEMMA WithoutList ==
  ASSUME NEW T, NamesClumps(T), NEW s \in Seq(T), NEW clumps
  PROVE  /\ Without(s, clumps) \in Seq(T)
         /\ Elements(Without(s, clumps)) = {e \in Elements(s) : e.clump \notin clumps}
         /\ Listed(Without(s, clumps)) = Listed(s) \ clumps
         /\ IsInjective(ClumpsOf(s)) => IsInjective(ClumpsOf(Without(s, clumps)))
<1> DEFINE r == Without(s, clumps)
<1>1. /\ r \in Seq(T)
      /\ Elements(r) = Elements(s) \cap {e \in Elements(s) : e.clump \notin clumps}
      /\ IsInjective(ClumpsOf(s)) => IsInjective(ClumpsOf(r))
  BY ChosenList DEF Without
<1> HIDE DEF r
<1>2. Elements(r) = {e \in Elements(s) : e.clump \notin clumps}
  BY <1>1
<1>3. Listed(r) = {e.clump : e \in Elements(r)} /\ Listed(s) = {e.clump : e \in Elements(s)}
  BY <1>1, ListedElements
<1>4. Listed(r) = Listed(s) \ clumps
  BY <1>2, <1>3
<1> QED BY <1>1, <1>2, <1>4 DEF r

\* A list cut in two.
LEMMA SplitList ==
  ASSUME NEW T, NamesClumps(T), NEW s \in Seq(T), NEW n \in 0 .. Len(s)
  PROVE  LET front == SubSeq(s, 1, n)
             back == SubSeq(s, n + 1, Len(s))
         IN  /\ front \in Seq(T) /\ back \in Seq(T)
             /\ Len(front) = n /\ \A i \in 1 .. n : front[i] = s[i]
             /\ Elements(s) = Elements(front) \cup Elements(back)
             /\ Listed(s) = Listed(front) \cup Listed(back)
             /\ IsInjective(ClumpsOf(s)) =>
                  /\ IsInjective(ClumpsOf(front)) /\ IsInjective(ClumpsOf(back))
                  /\ Listed(front) \cap Listed(back) = {}
<1> DEFINE front == SubSeq(s, 1, n)
           back == SubSeq(s, n + 1, Len(s))
<1>1. /\ front \in Seq(T) /\ Len(front) = n /\ n \in Nat /\ Len(s) \in Nat
      /\ \A i \in 1 .. n : front[i] = s[i]
  OBVIOUS
<1>2. /\ back \in Seq(T) /\ Len(back) = Len(s) - n
      /\ \A i \in 1 .. Len(s) - n : back[i] = s[n + i]
  OBVIOUS
<1> HIDE DEF front, back
<1>3. \A i \in 1 .. Len(s) : i \in 1 .. n \/ (i - n \in 1 .. Len(s) - n /\ s[i] = back[i - n])
  BY <1>1, <1>2
<1>4. \A i \in 1 .. Len(s) - n : n + i \in 1 .. Len(s)
  BY <1>1
<1>5. \A i \in 1 .. n : i \in 1 .. Len(s)
  BY <1>1
<1>6. Elements(s) = Elements(front) \cup Elements(back)
  <2>1. Elements(front) \subseteq Elements(s)
    BY <1>1, <1>5 DEF Elements
  <2>2. Elements(back) \subseteq Elements(s)
    BY <1>2, <1>4 DEF Elements
  <2>3. ASSUME NEW i \in 1 .. Len(s)
        PROVE  s[i] \in Elements(front) \cup Elements(back)
    <3>1. CASE i \in 1 .. n
      BY <1>1, <3>1 DEF Elements
    <3>2. CASE i \notin 1 .. n
      BY <1>2, <1>3, <3>2 DEF Elements
    <3> QED BY <3>1, <3>2
  <2> QED BY <2>1, <2>2, <2>3 DEF Elements
<1>7. /\ Listed(s) = {e.clump : e \in Elements(s)}
      /\ Listed(front) = {e.clump : e \in Elements(front)}
      /\ Listed(back) = {e.clump : e \in Elements(back)}
  BY <1>1, <1>2, ListedElements
<1>8. Listed(s) = Listed(front) \cup Listed(back)
  BY <1>6, <1>7
<1>9. ASSUME IsInjective(ClumpsOf(s))
      PROVE  /\ IsInjective(ClumpsOf(front)) /\ IsInjective(ClumpsOf(back))
             /\ Listed(front) \cap Listed(back) = {}
  <2>1. \A i, j \in 1 .. Len(s) : s[i].clump = s[j].clump => i = j
    BY <1>9, ListedElements
  <2>2. \A i, j \in 1 .. Len(front) : front[i].clump = front[j].clump => i = j
    BY <1>1, <1>5, <2>1
  <2>3. \A i, j \in 1 .. Len(back) : back[i].clump = back[j].clump => i = j
    <3> SUFFICES ASSUME NEW i \in 1 .. Len(back), NEW j \in 1 .. Len(back),
                        back[i].clump = back[j].clump
                 PROVE  i = j
      OBVIOUS
    <3>1. n + i \in 1 .. Len(s) /\ back[i] = s[n + i]
      BY <1>2, <1>4
    <3>2. n + j \in 1 .. Len(s) /\ back[j] = s[n + j]
      BY <1>2, <1>4
    <3>3. n + i = n + j
      BY <2>1, <3>1, <3>2
    <3> QED BY <1>1, <3>3
  <2>4. \A i \in 1 .. Len(front), j \in 1 .. Len(back) : front[i].clump # back[j].clump
    <3> SUFFICES ASSUME NEW i \in 1 .. Len(front), NEW j \in 1 .. Len(back),
                        front[i].clump = back[j].clump
                 PROVE  FALSE
      OBVIOUS
    <3>1. i \in 1 .. Len(s) /\ front[i] = s[i] /\ i <= n
      BY <1>1, <1>5
    <3>2. n + j \in 1 .. Len(s) /\ back[j] = s[n + j] /\ n + j > n
      BY <1>1, <1>2, <1>4
    <3>3. i = n + j
      BY <2>1, <3>1, <3>2
    <3> QED BY <1>1, <3>1, <3>2, <3>3
  <2>5. /\ Listed(front) = {front[i].clump : i \in 1 .. Len(front)}
        /\ Listed(back) = {back[i].clump : i \in 1 .. Len(back)}
    BY <1>1, <1>2, ListedElements
  <2>6. Listed(front) \cap Listed(back) = {}
    BY <2>4, <2>5
  <2> QED BY <1>1, <1>2, <2>2, <2>3, <2>6, ListedElements
<1> QED BY <1>1, <1>2, <1>6, <1>8, <1>9 DEF front, back

\* Two lists, one behind the other.
LEMMA JoinedList ==
  ASSUME NEW T, NamesClumps(T), NEW s \in Seq(T), NEW t \in Seq(T)
  PROVE  /\ s \o t \in Seq(T)
         /\ Elements(s \o t) = Elements(s) \cup Elements(t)
         /\ ClumpsOf(s \o t) = ClumpsOf(s) \o ClumpsOf(t)
         /\ Listed(s \o t) = Listed(s) \cup Listed(t)
         /\ IsInjective(ClumpsOf(s)) /\ IsInjective(ClumpsOf(t)) /\ Listed(s) \cap Listed(t) = {}
              => IsInjective(ClumpsOf(s \o t))
<1> DEFINE st == s \o t
           cs == ClumpsOf(s)
           ct == ClumpsOf(t)
           both == ClumpsOf(st)
<1>1. st \in Seq(T) /\ Elements(st) = Elements(s) \cup Elements(t)
  BY ConcatElements
<1>2. /\ Len(st) = Len(s) + Len(t)
      /\ \A i \in 1 .. Len(st) : st[i] = IF i <= Len(s) THEN s[i] ELSE t[i - Len(s)]
  OBVIOUS
<1> HIDE DEF st
<1>3. /\ cs \in Seq(Clump) /\ Len(cs) = Len(s) /\ \A i \in 1 .. Len(s) : cs[i] = s[i].clump
      /\ ct \in Seq(Clump) /\ Len(ct) = Len(t) /\ \A i \in 1 .. Len(t) : ct[i] = t[i].clump
      /\ both \in Seq(Clump) /\ Len(both) = Len(st) /\ \A i \in 1 .. Len(st) : both[i] = st[i].clump
  BY <1>1, ListedElements DEF ClumpsOf
<1> HIDE DEF cs, ct, both
<1>4. both = cs \o ct
  <2>1. Len(both) = Len(cs \o ct)
    BY <1>2, <1>3
  <2>2. ASSUME NEW i \in 1 .. Len(both) PROVE both[i] = (cs \o ct)[i]
    <3>1. CASE i <= Len(s)
      BY <1>2, <1>3, <3>1
    <3>2. CASE i > Len(s)
      <4>1. i - Len(s) \in 1 .. Len(t)
        BY <1>2, <1>3, <3>2
      <4>2. st[i] = t[i - Len(s)] /\ both[i] = st[i].clump
        BY <1>2, <1>3, <3>2
      <4>3. (cs \o ct)[i] = ct[i - Len(s)]
        BY <1>2, <1>3, <3>2
      <4> QED BY <1>3, <4>1, <4>2, <4>3
    <3>3. i \in Int /\ Len(s) \in Int
      BY <1>3
    <3>4. i <= Len(s) \/ i > Len(s)
      BY <3>3
    <3> QED BY <3>1, <3>2, <3>4
  <2> QED BY <1>3, <2>1, <2>2
<1>5. /\ Elements(both) = Elements(cs) \cup Elements(ct)
      /\ IsInjective(cs) /\ IsInjective(ct) /\ Elements(cs) \cap Elements(ct) = {}
           => IsInjective(both)
  BY <1>3, <1>4, ConcatElements
<1> QED BY <1>1, <1>4, <1>5 DEF Listed, st, cs, ct, both

\* A list of one.
LEMMA SingleList ==
  ASSUME NEW T, NamesClumps(T), NEW e \in T
  PROVE  /\ << e >> \in Seq(T) /\ Elements(<< e >>) = {e} /\ Listed(<< e >>) = {e.clump}
         /\ IsInjective(ClumpsOf(<< e >>))
<1> DEFINE one == << e >>
<1>1. one \in Seq(T) /\ Len(one) = 1 /\ one[1] = e
  OBVIOUS
<1> HIDE DEF one
<1>2. 1 .. Len(one) = {1}
  BY <1>1
<1>3. Elements(one) = {e}
  BY <1>1, <1>2 DEF Elements
<1>4. Listed(one) = {f.clump : f \in Elements(one)}
  BY <1>1, ListedElements
<1>5. IsInjective(ClumpsOf(one))
  <2>1. \A i, j \in 1 .. Len(one) : one[i].clump = one[j].clump => i = j
    BY <1>2
  <2> QED BY <1>1, <2>1, ListedElements
<1>6. Listed(one) = {e.clump}
  BY <1>3, <1>4
<1> QED BY <1>1, <1>3, <1>5, <1>6 DEF one

-----------------------------------------------------------------------------
(* The list of timers.                                                      *)

TimerEntry == [clump : Clump, left : -1 .. Forever]
ObserverEntry == [clump : Clump, info : Int]

LEMMA EntriesNameClumps == NamesClumps(TimerEntry) /\ NamesClumps(ObserverEntry)
BY DEF NamesClumps, TimerEntry, ObserverEntry

\* The clump of an entry.
LEMMA EntryClump ==
  ASSUME NEW T, NamesClumps(T), NEW s \in Seq(T), NEW e \in Elements(s)
  PROVE  e.clump \in Clump /\ e.clump \in Listed(s)
<1>1. e \in T
  BY ElementsType
<1>2. Listed(s) = {f.clump : f \in Elements(s)}
  BY ListedElements
<1> QED BY <1>1, <1>2 DEF NamesClumps

LEMMA ForeverType == Forever \in Nat \ {0}
BY WaitAssumption

\* Leading counts the timers at the front with less than the time given.
LEMMA LeadingTimers ==
  ASSUME NEW s \in Seq(TimerEntry), NEW left \in Int
  PROVE  /\ Leading(s, left) \in 0 .. Len(s)
         /\ \A i \in 1 .. Leading(s, left) : s[i].left < left
<1> DEFINE A == {i \in 1 .. Len(s) : s[i].left < left}
<1>1. PICK n \in 0 .. Len(s) : (1 .. n) \subseteq A /\ (n < Len(s) => n + 1 \notin A)
  <2>1. Len(s) \in Nat
    OBVIOUS
  <2> HIDE DEF A
  <2> QED BY <2>1, FrontExists
<1>2. ASSUME NEW i \in 1 .. Len(s) PROVE s[i].left \in Int
  <2>1. s[i] \in TimerEntry
    OBVIOUS
  <2> QED BY <2>1, ForeverType DEF TimerEntry
<1>3. n < Len(s) => s[n + 1].left >= left
  BY <1>1, <1>2
<1>4. \A i \in 1 .. n : s[i].left < left
  BY <1>1
<1> QED BY <1>1, <1>3, <1>4 DEF Leading

\* A timer that is set is in the list, and nothing else changes.
LEMMA InsertedTimer ==
  ASSUME timers \in Seq(TimerEntry), NEW c \in Clump, NEW left \in 0 .. Forever
  PROVE  /\ InsertTimer(c, left) \in Seq(TimerEntry)
         /\ Elements(InsertTimer(c, left)) = Elements(timers) \cup {[clump |-> c, left |-> left]}
         /\ Listed(InsertTimer(c, left)) = Listed(timers) \cup {c}
         /\ IsInjective(ClumpsOf(timers)) /\ c \notin Listed(timers)
              => IsInjective(ClumpsOf(InsertTimer(c, left)))
<1> USE EntriesNameClumps
<1> DEFINE n == Leading(timers, left)
           front == SubSeq(timers, 1, n)
           back == SubSeq(timers, n + 1, Len(timers))
           e == [clump |-> c, left |-> left]
           one == << e >>
<1>1. left \in Int /\ e \in TimerEntry /\ e.clump = c
  BY ForeverType DEF TimerEntry
<1>2. n \in 0 .. Len(timers)
  BY <1>1, LeadingTimers
<1>3. /\ front \in Seq(TimerEntry) /\ back \in Seq(TimerEntry)
      /\ Elements(timers) = Elements(front) \cup Elements(back)
      /\ Listed(timers) = Listed(front) \cup Listed(back)
      /\ IsInjective(ClumpsOf(timers)) =>
           /\ IsInjective(ClumpsOf(front)) /\ IsInjective(ClumpsOf(back))
           /\ Listed(front) \cap Listed(back) = {}
  BY <1>2, SplitList
<1>4. /\ one \in Seq(TimerEntry) /\ Elements(one) = {e} /\ Listed(one) = {c}
      /\ IsInjective(ClumpsOf(one))
  BY <1>1, SingleList
<1>5. InsertTimer(c, left) = (front \o one) \o back
  BY DEF InsertTimer
<1> HIDE DEF front, back, one, e, n
<1> DEFINE start == front \o one
<1>6. /\ start \in Seq(TimerEntry)
      /\ Elements(start) = Elements(front) \cup {e}
      /\ Listed(start) = Listed(front) \cup {c}
      /\ IsInjective(ClumpsOf(front)) /\ c \notin Listed(front) => IsInjective(ClumpsOf(start))
  BY <1>3, <1>4, JoinedList
<1> HIDE DEF start
<1>7. /\ start \o back \in Seq(TimerEntry)
      /\ Elements(start \o back) = Elements(start) \cup Elements(back)
      /\ Listed(start \o back) = Listed(start) \cup Listed(back)
      /\ IsInjective(ClumpsOf(start)) /\ IsInjective(ClumpsOf(back))
           /\ Listed(start) \cap Listed(back) = {} => IsInjective(ClumpsOf(start \o back))
  BY <1>3, <1>6, JoinedList
<1>8. InsertTimer(c, left) = start \o back
  BY <1>5 DEF start
<1> QED BY <1>3, <1>6, <1>7, <1>8 DEF e

-----------------------------------------------------------------------------
(* The scheduler below: its operators are those of this module.             *)

LEMMA SameElements == \A s : Sched!Elements(s) = Elements(s)
BY DEF Sched!Elements, Elements

LEMMA SameInjective == \A s : Sched!IsInjective(s) <=> IsInjective(s)
BY DEF Sched!IsInjective, IsInjective

LEMMA SameLinks ==
  /\ \A s : Sched!AllButLast(s) = AllButLast(s)
  /\ \A c : Sched!NextIsNull(c) <=> NextIsNull(c)
  /\ \A c : Sched!MayLink(c) <=> MayLink(c)
<1>1. \A s : Sched!AllButLast(s) = AllButLast(s)
  BY DEF Sched!AllButLast, AllButLast
<1>2. \A c : Sched!NextIsNull(c) <=> NextIsNull(c)
  BY <1>1 DEF Sched!NextIsNull, NextIsNull
<1> QED BY <1>1, <1>2, SameElements DEF Sched!MayLink, MayLink

LEMMA SameInstr == \A c : Sched!Instr(c) = Instr(c)
BY DEF Sched!Instr, Instr

LEMMA SameExecutes == \A op : Sched!Executes(op) <=> Executes(op)
BY SameInstr DEF Sched!Executes, Executes

LEMMA SameTrigger ==
  \A c : /\ Sched!MayTrigger(c) <=> MayTrigger(c)
         /\ Sched!Triggered(c) = Triggered(c)
         /\ Sched!Fired(c) = Fired(c)
BY SameLinks DEF Sched!MayTrigger, MayTrigger, Sched!Triggered, Triggered, Sched!Fired, Fired

LEMMA SameResumed ==
  \A c : /\ Sched!Resumed(c) = Resumed(c)
         /\ Sched!PcsAfterDone(c) = PcsAfterDone(c)
         /\ Sched!CallersAfterDone(c) = CallersAfterDone(c)
         /\ Sched!Rearmed(c) = Rearmed(c)
BY DEF Sched!Resumed, Resumed, Sched!Callers, Callers, Sched!PcsAfterDone, PcsAfterDone,
       Sched!CallersAfterDone, CallersAfterDone, Sched!Rearmed, Rearmed

LEMMA SameMayResume == \A s : Sched!MayResume(s) <=> MayResume(s)
BY SameElements, SameInjective DEF Sched!MayResume, MayResume

LEMMA SameDequeueFrom == \A rq : Sched!DequeueFrom(rq) <=> DequeueFrom(rq)
BY DEF Sched!DequeueFrom, DequeueFrom

\* An instruction that leaves the timers alone does to the scheduler what it
\* does without timers.
LEMMA InstructionOfScheduler ==
  ASSUME ClumpInstruction, timers' = timers
  PROVE  Sched!ClumpInstruction
<1>1. Listed(timers)' = Listed(timers)
  BY DEF Listed, ClumpsOf, Elements
<1>2. stopped' = stopped => Away' = Away
  BY <1>1 DEF Away
<1>3. Continue => Sched!Continue
  BY <1>2 DEF Sched!Continue, Continue, Sched!ReturnToLoop, ReturnToLoop
<1>4. \A pcs, rq : Suspend(pcs, rq) => Sched!Suspend(pcs, rq)
  BY <1>2, SameDequeueFrom DEF Sched!Suspend, Suspend, Sched!ReturnToLoop, ReturnToLoop
<1> USE SameInstr, SameExecutes DEF Sched!ClumpInstruction
<1>5. CASE Trigger
  BY <1>3, <1>5, SameTrigger DEF Trigger, Sched!Trigger
<1>6. CASE WaitForDone
  BY <1>4, <1>6, SameLinks
  DEF WaitForDone, Sched!WaitForDone, InsertIntoWaitList, Sched!InsertIntoWaitList
<1>7. CASE WaitIsOver
  BY <1>3, <1>7 DEF WaitIsOver, Sched!WaitIsOver
<1>8. CASE CallIdleVI
  BY <1>4, <1>8, SameTrigger DEF CallIdleVI, Sched!CallIdleVI
<1>9. CASE CallBusyVI
  BY <1>4, <1>9, SameLinks DEF CallBusyVI, Sched!CallBusyVI, AppendToWaitList, Sched!AppendToWaitList
<1>10. CASE Branch
  BY <1>2, <1>10 DEF Branch, Sched!Branch, ReturnToLoop, Sched!ReturnToLoop
<1>11. CASE Done
  BY <1>4, <1>11, SameResumed, SameMayResume DEF Done, Sched!Done
<1>12. CASE Stop
  <2>1. Away' = Away \cup {running}
    BY <1>1, <1>12 DEF Stop, Away
  <2> QED BY <1>12, <2>1 DEF Stop, Sched!Stop, ReturnToLoop, Sched!ReturnToLoop
<1>13. CASE NoStop
  BY <1>3, <1>13 DEF NoStop, Sched!NoStop
<1> QED
  BY <1>5, <1>6, <1>7, <1>8, <1>9, <1>10, <1>11, <1>12, <1>13 DEF ClumpInstruction

-----------------------------------------------------------------------------
(* The inductive invariant.                                                 *)

WaitTypeOK ==
  /\ timers \in Seq(TimerEntry)
  /\ observers \in [Object -> Seq(ObserverEntry)]
  /\ observing \in [Clump -> {0, 2}]

ObjectTypeOK ==
  /\ setCount \in [Occurrence -> Nat]
  /\ seen \in [Clump -> Nat]
  /\ timedOut \in [Clump -> BOOLEAN]
  /\ count \in [Queue -> Nat]
  /\ length \in [Queue -> Nat]
  /\ \A q \in Queue :
       count[q] <= length[q] /\ (MaxSize[q] # Growable => length[q] <= MaxSize[q])
  /\ hostCalls \in 0 .. MaxHostCalls

\* Nobody waits for two timers, and who waits has not been stopped.
TimersApart == stopped \cap Listed(timers) = {} /\ IsInjective(ClumpsOf(timers))

\* Who has observation states stands at the instruction that made them, and
\* waits for its timer or has been woken.
WaitingOps == {"Enqueue", "Dequeue", "PeekQueue", "WaitOnOccurrence"}

WaiterStays(c) ==
  /\ Instr(c).op \in WaitingOps
  /\ c \in Listed(timers) \/ c \in Elements(runQueue) \/ c = running

WaitersStay == \A c \in Clump : observing[c] = 2 => WaiterStays(c)

\* Who is on the list of an object waits for it, for the right reason, once.
WaitsFor(e, x) ==
  /\ observing[e.clump] = 2
  /\ Instr(e.clump).arg = x
  /\ x \in Queue => e.info = IF Instr(e.clump).op = "Enqueue" THEN EnqueueInfo ELSE DequeueInfo

ObserversWait ==
  \A x \in Object :
    /\ IsInjective(ClumpsOf(observers[x]))
    /\ \A e \in Elements(observers[x]) : WaitsFor(e, x)

\* Without timeouts, no timer of a waiting clump ever expires.
TimerNeverEnds(e) == observing[e.clump] = 2 => e.left = Forever

TimersNeverEnd ==
  WaitsWithoutTimers =>
    /\ \A e \in Elements(timers) : TimerNeverEnds(e)
    /\ \A x \in Object : Listed(observers[x]) \subseteq Listed(timers)

WaitInv == TimersApart /\ WaitersStay /\ ObserversWait /\ TimersNeverEnd

SyncInv == Sched!IInv /\ WaitTypeOK /\ ObjectTypeOK /\ WaitInv

-----------------------------------------------------------------------------
(* What the invariant says of a state.                                      *)

\* The scheduler's part.
LEMMA SchedulerFacts ==
  ASSUME Sched!IInv
  PROVE  /\ prog \in Programs
         /\ savePc \in [Clump -> Nat \ {0}]
         /\ shortCount \in [Clump -> Nat]
         /\ runQueue \in Seq(Clump) /\ IsInjective(runQueue)
         /\ running \in Clump \cup {NoClump}
         /\ phase \in {"host", "burst", "ran"}
         /\ reply \in {"none", "InRunQueue", "Waiting", "Finished"}
         /\ phase = "host" => running = NoClump
         /\ Away \subseteq Clump
         /\ Sched!Configuration(shortCount, caller, waiting, runQueue, running, Away)
<1>1. Sched!SchedTypeOK /\ Sched!Now /\ Sched!HostIsIdle
  BY DEF Sched!IInv
<1>2. IsInjective(runQueue)
  BY <1>1, SameInjective DEF Sched!Now, Sched!Configuration, Sched!Placement
<1> QED BY <1>1, <1>2 DEF Sched!SchedTypeOK, Sched!Now, Sched!HostIsIdle

\* Who is away is active, in no list and not running.
LEMMA AwayFacts ==
  ASSUME Sched!IInv, NEW c \in Away
  PROVE  c \in Clump /\ shortCount[c] = 0 /\ c \notin Elements(runQueue) /\ c # running
<1>1. /\ Sched!Configuration(shortCount, caller, waiting, runQueue, running, Away)
      /\ Away \subseteq Clump
  BY SchedulerFacts
<1>2. c \in Clump /\ shortCount[c] = 0 /\ c # running
  BY <1>1, ClumpAssumption DEF Sched!Configuration, Sched!Placement
<1>3. c \notin Sched!Elements(runQueue)
  BY <1>1 DEF Sched!Configuration, Sched!Placement
<1> QED BY <1>2, <1>3, SameElements

\* The running clump is active and nowhere else.
LEMMA RunningFacts ==
  ASSUME Sched!IInv, running \in Clump
  PROVE  shortCount[running] = 0 /\ running \notin Elements(runQueue) /\ running \notin Away
<1>1. Sched!Configuration(shortCount, caller, waiting, runQueue, running, Away)
  BY SchedulerFacts
<1>2. shortCount[running] = 0 /\ running \notin Away
  BY <1>1, ClumpAssumption DEF Sched!Configuration, Sched!Placement
<1>3. running \notin Sched!Elements(runQueue)
  BY <1>1 DEF Sched!Configuration, Sched!Placement
<1> QED BY <1>2, <1>3, SameElements

\* The operands of the instruction that a clump stands at.
LEMMA Operands ==
  ASSUME Sched!IInv, NEW c \in Clump
  PROVE  /\ savePc[c] \in 1 .. Len(prog[c])
         /\ Instr(c).op \in OccurrenceOps => Instr(c).arg \in Occurrence
         /\ Instr(c).op \in QueueOps => Instr(c).arg \in Queue
         /\ Instr(c).op \in TimerOps \cup {"WaitOnOccurrence"} => Instr(c).timeout \in 0 .. Forever - 1
         /\ Instr(c).op \in {"Enqueue", "Dequeue", "PeekQueue"} =>
              Instr(c).timeout \in Int /\ Instr(c).timeout < Forever
<1>1. prog \in Programs /\ savePc[c] \in 1 .. Len(prog[c])
  BY DEF Sched!IInv, Sched!SchedTypeOK
<1> QED BY <1>1, WaitAssumption DEF Instr

\* An instruction runs on a clump.
LEMMA Running ==
  ASSUME Sched!IInv, NEW op, Executes(op)
  PROVE  running \in Clump /\ Instr(running).op = op
BY SchedulerFacts DEF Executes

\* After an instruction that is not Done the clump has another one.
LEMMA MovesOn ==
  ASSUME Sched!IInv, running \in Clump, Instr(running).op # "Done"
  PROVE  LET pcs == [savePc EXCEPT ![running] = @ + 1]
         IN  /\ pcs \in [Clump -> Nat]
             /\ \A c \in Clump : pcs[c] \in 1 .. Len(prog[c])
             /\ \A c \in Clump : c # running => pcs[c] = savePc[c]
<1>1. Sched!Instr(running).op # "Done"
  BY SameInstr
<1> QED BY <1>1, Sched!NextPc, ClumpAssumption, ProgramAssumption
        DEF WellFormed, Sched!WellFormed, ClumpOps, Sched!ClumpOps, BranchOps, Sched!BranchOps

-----------------------------------------------------------------------------
(* What a step keeps.                                                       *)

\* A step that makes no caller and ends no call keeps the scheduler's part.
LEMMA SchedulerKeeps ==
  ASSUME Sched!IInv,
         Sched!Configuration(shortCount', caller', waiting', runQueue', running', Away'),
         UNCHANGED << prog, caller >>,
         phase' \in {"host", "burst", "ran"}, phase' = "host" => running' = NoClump,
         reply' \in {"none", "InRunQueue", "Waiting", "Finished"},
         \A c \in Clump : shortCount[c] = 0 => shortCount'[c] = 0,
         savePc' \in [Clump -> Nat],
         \A c \in Clump : savePc'[c] \in 1 .. Len(prog[c]),
         \A c \in Clump : c # running => savePc'[c] = savePc[c]
  PROVE  Sched!IInv'
<1>1. Sched!Now' /\ Sched!HostIsIdle'
  BY DEF Sched!Now, Sched!HostIsIdle
<1> QED BY <1>1, Sched!QuietStep, ClumpAssumption, ProgramAssumption
        DEF WellFormed, Sched!WellFormed, ClumpOps, Sched!ClumpOps, BranchOps, Sched!BranchOps

\* The running clump, if there is one, moves on; nobody else does.
OnlyRunningMoves ==
  /\ UNCHANGED << prog, running, stopped, reply >>
  /\ phase' = phase \/ (phase' = "ran" /\ running \in Clump)
  /\ savePc' \in [Clump -> Nat]
  /\ \A c \in Clump : savePc'[c] \in 1 .. Len(prog[c])
  /\ \A c \in Clump : c # running => savePc'[c] = savePc[c]

LEMMA Continues ==
  ASSUME Sched!IInv, running \in Clump, Instr(running).op # "Done", Continue
  PROVE  OnlyRunningMoves
BY MovesOn DEF Continue, ReturnToLoop, OnlyRunningMoves

LEMMA OthersKeepInstr ==
  ASSUME prog' = prog, NEW c, savePc'[c] = savePc[c]
  PROVE  Instr(c)' = Instr(c)
BY DEF Instr

LEMMA SameTimeouts ==
  ASSUME prog' = prog
  PROVE  WaitsWithoutTimers' <=> WaitsWithoutTimers
BY DEF WaitsWithoutTimers

LEMMA ObserverLists ==
  ASSUME WaitTypeOK, NEW x \in Object
  PROVE  observers[x] \in Seq(ObserverEntry)
BY DEF WaitTypeOK

\* Who wakes up leaves the timers for the run queue, and every list of
\* observers; the clumps in done only have nothing more to wait for.
LEMMA WakeStep ==
  ASSUME SyncInv, OnlyRunningMoves,
         NEW clumps \in Seq(Clump), Elements(clumps) \subseteq Listed(timers),
         NEW done, done \in {{}, {running}}, done \cap Listed(timers) = {},
         running \in Clump /\ observing[running] = 2 => running \in done,
         Wake(clumps, done)
  PROVE  Sched!IInv' /\ WaitTypeOK' /\ WaitInv'
<1> USE EntriesNameClumps
<1> DEFINE gone == Elements(clumps) \cup done
<1>1. /\ Sched!IInv /\ WaitTypeOK /\ WaitInv
      /\ timers \in Seq(TimerEntry) /\ observers \in [Object -> Seq(ObserverEntry)]
      /\ observing \in [Clump -> {0, 2}]
      /\ TimersApart
  BY DEF SyncInv, WaitTypeOK, WaitInv
<1>2. /\ IsInjective(clumps)
      /\ runQueue' = runQueue \o clumps
      /\ timers' = Without(timers, gone)
      /\ observers' = [x \in Object |-> Without(observers[x], gone)]
      /\ observing' = [c \in Clump |-> IF c \in done THEN 0 ELSE observing[c]]
      /\ UNCHANGED << shortCount, caller, waiting >>
  BY DEF Wake, MayWake, TimersLeft, ObserversLeft
<1>3. /\ UNCHANGED << prog, running, stopped, reply >>
      /\ phase' = phase \/ (phase' = "ran" /\ running \in Clump)
      /\ savePc' \in [Clump -> Nat]
      /\ \A c \in Clump : savePc'[c] \in 1 .. Len(prog[c])
      /\ \A c \in Clump : c # running => savePc'[c] = savePc[c]
  BY DEF OnlyRunningMoves
<1>4. /\ runQueue \in Seq(Clump)
      /\ Elements(runQueue') = Elements(runQueue) \cup Elements(clumps)
  BY <1>1, <1>2, SchedulerFacts, ConcatElements
<1> HIDE DEF gone
<1>5. /\ timers' \in Seq(TimerEntry)
      /\ Elements(timers') = {e \in Elements(timers) : e.clump \notin gone}
      /\ Listed(timers') = Listed(timers) \ gone
      /\ IsInjective(ClumpsOf(timers'))
  BY <1>1, <1>2, WithoutList DEF TimersApart
<1>6. ASSUME NEW x \in Object
      PROVE  /\ observers'[x] \in Seq(ObserverEntry)
             /\ Elements(observers'[x]) = {e \in Elements(observers[x]) : e.clump \notin gone}
             /\ Listed(observers'[x]) = Listed(observers[x]) \ gone
             /\ IsInjective(ClumpsOf(observers[x])) => IsInjective(ClumpsOf(observers'[x]))
  <2>1. observers'[x] = Without(observers[x], gone)
    BY <1>2
  <2> QED BY <1>1, <2>1, ObserverLists, WithoutList
<1>7. Sched!IInv'
  <2>1. Away' = Away \ Elements(clumps)
    BY <1>1, <1>3, <1>5 DEF Away, TimersApart, gone
  <2>2. Sched!Elements(clumps) = Elements(clumps) /\ Elements(clumps) \subseteq Away
    BY SameElements DEF Away
  <2>3. /\ Sched!Configuration(shortCount, caller, waiting, runQueue, running, Away)
        /\ phase \in {"host", "burst", "ran"} /\ (phase = "host" => running = NoClump)
        /\ reply \in {"none", "InRunQueue", "Waiting", "Finished"}
    BY <1>1, SchedulerFacts
  <2>4. Sched!IsInjective(clumps)
    BY <1>2, SameInjective
  <2> HIDE DEF Away
  <2>5. Sched!Configuration(shortCount, caller, waiting, runQueue \o clumps, running, Away \ Elements(clumps))
    BY <2>2, <2>3, <2>4, Sched!Awoken, ClumpAssumption, ProgramAssumption
    DEF WellFormed, Sched!WellFormed, ClumpOps, Sched!ClumpOps, BranchOps, Sched!BranchOps
  <2>6. Sched!Configuration(shortCount', caller', waiting', runQueue', running', Away')
    BY <1>2, <1>3, <2>1, <2>5
  <2>7. /\ phase' \in {"host", "burst", "ran"} /\ (phase' = "host" => running' = NoClump)
        /\ reply' \in {"none", "InRunQueue", "Waiting", "Finished"}
    BY <1>3, <2>3
  <2> QED BY <1>1, <1>2, <1>3, <2>6, <2>7, SchedulerKeeps
<1>8. WaitTypeOK'
  <2>1. observers' \in [Object -> Seq(ObserverEntry)]
    BY <1>2, <1>6
  <2>2. observing' \in [Clump -> {0, 2}]
    BY <1>1, <1>2
  <2> QED BY <1>5, <2>1, <2>2 DEF WaitTypeOK
<1>9. ASSUME NEW c \in Clump, observing'[c] = 2
      PROVE  observing[c] = 2 /\ c \notin done /\ c # running /\ Instr(c)' = Instr(c)
  <2>1. observing[c] = 2 /\ c \notin done
    BY <1>2, <1>9
  <2>2. c # running
    BY <2>1
  <2> QED BY <1>3, <2>1, <2>2, OthersKeepInstr
<1>10. TimersApart'
  BY <1>1, <1>3, <1>5 DEF TimersApart
<1>11. WaitersStay'
  <2> SUFFICES ASSUME NEW c \in Clump, observing'[c] = 2
               PROVE  WaiterStays(c)'
    BY DEF WaitersStay
  <2>1. WaiterStays(c)
    BY <1>1, <1>9 DEF WaitInv, WaitersStay
  <2> QED BY <1>3, <1>4, <1>5, <1>9, <2>1 DEF WaiterStays, gone
<1>12. ObserversWait'
  <2> SUFFICES ASSUME NEW x \in Object
               PROVE  /\ IsInjective(ClumpsOf(observers'[x]))
                      /\ \A e \in Elements(observers'[x]) : WaitsFor(e, x)'
    BY DEF ObserversWait
  <2>1. IsInjective(ClumpsOf(observers[x])) /\ \A e \in Elements(observers[x]) : WaitsFor(e, x)
    BY <1>1 DEF WaitInv, ObserversWait
  <2>2. ASSUME NEW e \in Elements(observers'[x])
        PROVE  WaitsFor(e, x)'
    <3>1. e \in Elements(observers[x]) /\ e.clump \notin gone
      BY <1>6
    <3>2. WaitsFor(e, x)
      BY <2>1, <3>1
    <3>3. e.clump \in Clump
      BY <1>1, <3>1, EntryClump, ObserverLists
    <3>4. observing'[e.clump] = 2
      BY <1>2, <3>1, <3>2, <3>3 DEF WaitsFor, gone
    <3> QED BY <1>9, <3>2, <3>3, <3>4 DEF WaitsFor
  <2> QED BY <1>6, <2>1, <2>2
<1>13. TimersNeverEnd'
  <2> SUFFICES ASSUME WaitsWithoutTimers
               PROVE  /\ \A e \in Elements(timers') : TimerNeverEnds(e)'
                      /\ \A x \in Object : Listed(observers'[x]) \subseteq Listed(timers')
    BY <1>3, SameTimeouts DEF TimersNeverEnd
  <2>1. /\ \A e \in Elements(timers) : TimerNeverEnds(e)
        /\ \A x \in Object : Listed(observers[x]) \subseteq Listed(timers)
    BY <1>1 DEF WaitInv, TimersNeverEnd
  <2>2. ASSUME NEW e \in Elements(timers')
        PROVE  TimerNeverEnds(e)'
    <3>1. e \in Elements(timers) /\ e.clump \in Clump
      BY <1>1, <1>5, EntryClump
    <3> QED BY <1>9, <2>1, <3>1 DEF TimerNeverEnds
  <2> QED BY <1>5, <1>6, <2>1, <2>2
<1> QED BY <1>7, <1>8, <1>10, <1>11, <1>12, <1>13 DEF WaitInv

-----------------------------------------------------------------------------
(* Who is woken.                                                            *)

\* The clumps on the list of x that wait for this.
LEMMA MatchingClumps ==
  ASSUME WaitTypeOK, ObserversWait, NEW x \in Object, NEW info
  PROVE  /\ Matching(x, info) \in Seq(Clump) /\ IsInjective(Matching(x, info))
         /\ Elements(Matching(x, info)) =
              {e.clump : e \in {f \in Elements(observers[x]) : f.info = info}}
<1> USE EntriesNameClumps
<1> DEFINE S == {e \in Elements(observers[x]) : e.info = info}
           r == Chosen(observers[x], S)
<1>1. observers[x] \in Seq(ObserverEntry) /\ IsInjective(ClumpsOf(observers[x]))
  BY ObserverLists DEF ObserversWait
<1>2. /\ r \in Seq(ObserverEntry) /\ Elements(r) = Elements(observers[x]) \cap S
      /\ IsInjective(ClumpsOf(r))
  BY <1>1, ChosenList
<1>3. Matching(x, info) = ClumpsOf(r)
  BY DEF Matching
<1> HIDE DEF r
<1>4. ClumpsOf(r) \in Seq(Clump) /\ Elements(ClumpsOf(r)) = {e.clump : e \in Elements(r)}
  BY <1>2, ListedElements DEF Listed
<1>5. Elements(r) = S
  BY <1>2
<1> QED BY <1>2, <1>3, <1>4, <1>5

\* At most one of them.
LEMMA FirstMatchingClumps ==
  ASSUME WaitTypeOK, ObserversWait, NEW x \in Object, NEW info
  PROVE  /\ FirstMatching(x, info) \in Seq(Clump)
         /\ Elements(FirstMatching(x, info)) \subseteq Elements(Matching(x, info))
         /\ Elements(Matching(x, info)) # {} =>
              \E c \in Elements(Matching(x, info)) : Elements(FirstMatching(x, info)) = {c}
<1> DEFINE m == Matching(x, info)
<1>1. m \in Seq(Clump)
  BY MatchingClumps
<1>2. FirstMatching(x, info) = IF m = << >> THEN << >> ELSE << Head(m) >>
  BY DEF FirstMatching
<1> HIDE DEF m
<1>3. CASE m = << >>
  <2>1. << >> \in Seq(Clump)
    OBVIOUS
  <2> QED BY <1>2, <1>3, <2>1, EmptyElements DEF m
<1>4. CASE m # << >>
  <2>1. Head(m) \in Clump /\ Head(m) \in Elements(m)
    BY <1>1, <1>4, HeadTailElements
  <2>2. << Head(m) >> \in Seq(Clump) /\ Elements(<< Head(m) >>) = {Head(m)}
    BY <2>1 DEF Elements
  <2> QED BY <1>2, <1>4, <2>1, <2>2 DEF m
<1> QED BY <1>3, <1>4

\* Who is on the list of an object stands at a waiting instruction for it, and
\* is not the running clump if that does something else.
LEMMA MatchingWaits ==
  ASSUME SyncInv, NEW x \in Object, NEW info, NEW c \in Elements(Matching(x, info))
  PROVE  /\ c \in Clump /\ observing[c] = 2
         /\ Instr(c).arg = x /\ Instr(c).op \in WaitingOps
         /\ x \in Queue => info = IF Instr(c).op = "Enqueue" THEN EnqueueInfo ELSE DequeueInfo
         /\ c \in Listed(observers[x])
<1>1. WaitTypeOK /\ ObserversWait /\ WaitersStay
  BY DEF SyncInv, WaitInv
<1>2. PICK e \in Elements(observers[x]) : e.clump = c /\ e.info = info
  BY <1>1, MatchingClumps
<1>3. WaitsFor(e, x)
  BY <1>1 DEF ObserversWait
<1>4. c \in Clump /\ c \in Listed(observers[x])
  BY <1>1, <1>2, EntryClump, EntriesNameClumps, ObserverLists
<1> QED BY <1>1, <1>2, <1>3, <1>4 DEF WaitsFor, WaitersStay, WaiterStays

\* Whom the asserts allow to be woken waits for its timer, unless it runs.
LEMMA WokenFromTimers ==
  ASSUME SyncInv, NEW clumps \in Seq(Clump), MayWake(clumps), running \notin Elements(clumps)
  PROVE  Elements(clumps) \subseteq Listed(timers)
<1> SUFFICES ASSUME NEW i \in 1 .. Len(clumps) PROVE clumps[i] \in Listed(timers)
  BY DEF Elements
<1> DEFINE c == clumps[i]
<1>1. c \in Clump /\ c # running
  BY DEF Elements
<1>2. observing[c] = 2 /\ c \notin Elements(runQueue)
  BY DEF MayWake, MayLink
<1> QED BY <1>1, <1>2 DEF SyncInv, WaitInv, WaitersStay, WaiterStays

\* The running clump is in no list of timers.
LEMMA RunningHasNoTimer ==
  ASSUME SyncInv
  PROVE  running \notin Listed(timers)
BY AwayFacts DEF SyncInv, Away

\* The running clump ends its wait and wakes others.
LEMMA RunningWakes ==
  ASSUME SyncInv, OnlyRunningMoves,
         NEW clumps \in Seq(Clump), running \notin Elements(clumps),
         Wake(clumps, {running})
  PROVE  Sched!IInv' /\ WaitTypeOK' /\ WaitInv'
BY WakeStep, WokenFromTimers, RunningHasNoTimer DEF Wake

\* Others are woken by who does not wait.
LEMMA OthersWoken ==
  ASSUME SyncInv, OnlyRunningMoves,
         NEW clumps \in Seq(Clump), running \notin Elements(clumps),
         running \in Clump => observing[running] # 2,
         Wake(clumps, {})
  PROVE  Sched!IInv' /\ WaitTypeOK' /\ WaitInv'
BY WakeStep, WokenFromTimers DEF Wake

\* Who stands at another instruction does not wait.
LEMMA NotWaiting ==
  ASSUME SyncInv, running \in Clump, Instr(running).op \notin WaitingOps
  PROVE  observing[running] # 2
BY DEF SyncInv, WaitInv, WaitersStay, WaiterStays

\* The list of nobody.
LEMMA NobodyWoken == << >> \in Seq(Clump) /\ running \notin Elements(<< >>)
BY EmptyElements

-----------------------------------------------------------------------------
(* Occurrences.                                                             *)

LEMMA ObjectFacts ==
  ASSUME ObjectTypeOK
  PROVE  /\ setCount \in [Occurrence -> Nat] /\ seen \in [Clump -> Nat]
         /\ timedOut \in [Clump -> BOOLEAN]
         /\ count \in [Queue -> Nat] /\ length \in [Queue -> Nat]
         /\ hostCalls \in 0 .. MaxHostCalls
BY DEF ObjectTypeOK

\* Setting an occurrence.
LEMMA OccurrenceSet ==
  ASSUME SyncInv, NEW o \in Occurrence, SetOccurrence(o), OnlyRunningMoves,
         running \in Clump => Instr(running).op \notin WaitingOps,
         hostCalls' \in 0 .. MaxHostCalls
  PROVE  SyncInv'
<1> DEFINE clumps == Matching(o, setCount[o] + 1)
<1>1. o \in Object
  BY DEF Object
<1>2. clumps \in Seq(Clump)
  BY <1>1, MatchingClumps DEF SyncInv, WaitInv
<1>3. running \notin Elements(clumps)
  BY <1>1, MatchingWaits
<1>4. running \in Clump => observing[running] # 2
  BY NotWaiting
<1>5. Wake(clumps, {})
  BY DEF SetOccurrence
<1> HIDE DEF clumps
<1>6. Sched!IInv' /\ WaitTypeOK' /\ WaitInv'
  BY <1>2, <1>3, <1>4, <1>5, OthersWoken
<1>7. ObjectTypeOK'
  <2>1. setCount' \in [Occurrence -> Nat]
    BY ObjectFacts DEF SyncInv, SetOccurrence
  <2> QED BY <2>1 DEF SyncInv, ObjectTypeOK, SetOccurrence
<1> QED BY <1>6, <1>7 DEF SyncInv

LEMMA SetInstructionStep == SyncInv /\ SetInstruction => SyncInv'
<1> SUFFICES ASSUME SyncInv, SetInstruction PROVE SyncInv'
  OBVIOUS
<1>1. running \in Clump /\ Instr(running).op = "SetOccurrence" /\ Sched!IInv
  BY Running DEF SetInstruction, SyncInv
<1>2. Operand \in Occurrence
  BY <1>1, Operands DEF Operand, OccurrenceOps
<1>3. OnlyRunningMoves
  BY <1>1, Continues DEF SetInstruction
<1>4. Instr(running).op \notin WaitingOps
  BY <1>1 DEF WaitingOps
<1>5. SetOccurrence(Operand) /\ hostCalls' \in 0 .. MaxHostCalls
  BY ObjectFacts DEF SetInstruction, SyncInv
<1> QED BY <1>2, <1>3, <1>4, <1>5, OccurrenceSet

LEMMA HostSetsStep == \A o \in Occurrence : SyncInv /\ HostSets(o) => SyncInv'
<1> SUFFICES ASSUME NEW o \in Occurrence, SyncInv, HostSets(o) PROVE SyncInv'
  OBVIOUS
<1>1. /\ Sched!IInv /\ running \notin Clump
      /\ savePc \in [Clump -> Nat \ {0}]
      /\ \A c \in Clump : savePc[c] \in 1 .. Len(prog[c])
  BY SchedulerFacts, Operands, ClumpAssumption DEF SyncInv, HostSets
<1>2. OnlyRunningMoves
  BY <1>1 DEF HostSets, OnlyRunningMoves
<1>3. SetOccurrence(o)
  BY DEF HostSets
<1>4. hostCalls' \in 0 .. MaxHostCalls
  BY ObjectFacts, ObjectAssumption DEF HostSets, SyncInv
<1> QED BY <1>1, <1>2, <1>3, <1>4, OccurrenceSet

\* The wait for an occurrence ends.
LEMMA OccurrenceEndsStep == SyncInv /\ OccurrenceEnds => SyncInv'
<1> SUFFICES ASSUME SyncInv, OccurrenceEnds PROVE SyncInv'
  OBVIOUS
<1>1. running \in Clump /\ Instr(running).op = "WaitOnOccurrence" /\ Sched!IInv
  BY Running DEF OccurrenceEnds, SyncInv
<1>2. Operand \in Occurrence
  BY <1>1, Operands DEF Operand, OccurrenceOps
<1>3. OnlyRunningMoves
  BY <1>1, Continues DEF OccurrenceEnds
<1>4. Wake(<< >>, {running})
  BY DEF OccurrenceEnds, ClearObservationStates
<1>5. Sched!IInv' /\ WaitTypeOK' /\ WaitInv'
  BY <1>3, <1>4, RunningWakes, NobodyWoken
<1>6. ObjectTypeOK'
  <2>1. setCount[Operand] \in Nat
    BY <1>2, ObjectFacts DEF SyncInv
  <2>2. seen' \in [Clump -> Nat] /\ timedOut' \in [Clump -> BOOLEAN]
    BY <2>1, ObjectFacts DEF SyncInv, OccurrenceEnds
  <2> QED BY <2>2 DEF SyncInv, ObjectTypeOK, OccurrenceEnds
<1> QED BY <1>5, <1>6 DEF SyncInv

-----------------------------------------------------------------------------
(* Queues.                                                                  *)

\* A queue operation that completes: what it does to the queue keeps the
\* queue inside its buffer, and it wakes only clumps of the other kind.
LEMMA QueueCompletes ==
  ASSUME SyncInv, running \in Clump, Instr(running).op \in QueueOps, Continue,
         NEW clumps \in Seq(Clump), running \notin Elements(clumps),
         NEW done, done \in {{}, {running}}, observing[running] = 2 => running \in done,
         Wake(clumps, done),
         count' \in [Queue -> Nat], length' \in [Queue -> Nat],
         \A q \in Queue :
           count'[q] <= length'[q] /\ (MaxSize[q] # Growable => length'[q] <= MaxSize[q]),
         UNCHANGED << setCount, seen, timedOut, hostCalls >>
  PROVE  SyncInv'
<1>1. OnlyRunningMoves
  BY Continues DEF SyncInv, QueueOps
<1>2. Sched!IInv' /\ WaitTypeOK' /\ WaitInv'
  BY <1>1, RunningWakes, OthersWoken
<1>3. ObjectTypeOK'
  BY DEF SyncInv, ObjectTypeOK
<1> QED BY <1>2, <1>3 DEF SyncInv

\* Adding an element to a queue that may take one.
LEMMA Added ==
  ASSUME ObjectTypeOK, NEW q \in Queue, Add(q),
         MaxSize[q] # Growable => count[q] < MaxSize[q]
  PROVE  /\ count' \in [Queue -> Nat] /\ length' \in [Queue -> Nat]
         /\ \A x \in Queue :
              count'[x] <= length'[x] /\ (MaxSize[x] # Growable => length'[x] <= MaxSize[x])
<1>1. /\ count' = [count EXCEPT ![q] = count[q] + 1]
      /\ length' = [length EXCEPT ![q] = IF count[q] = length[q] THEN length[q] + 1 ELSE length[q]]
  BY DEF Add
<1>2. /\ count \in [Queue -> Nat] /\ length \in [Queue -> Nat]
      /\ \A x \in Queue :
           count[x] <= length[x] /\ (MaxSize[x] # Growable => length[x] <= MaxSize[x])
  BY DEF ObjectTypeOK
<1>3. count' \in [Queue -> Nat] /\ length' \in [Queue -> Nat]
  BY <1>1, <1>2
<1>4. MaxSize[q] # Growable => MaxSize[q] \in Nat
  BY ObjectAssumption
<1>5. ASSUME NEW x \in Queue
      PROVE  count'[x] <= length'[x] /\ (MaxSize[x] # Growable => length'[x] <= MaxSize[x])
  <2>1. CASE x # q
    BY <1>1, <1>2, <2>1
  <2>2. CASE x = q
    <3>1. /\ count'[q] = count[q] + 1
          /\ length'[q] = IF count[q] = length[q] THEN length[q] + 1 ELSE length[q]
      BY <1>1, <1>2
    <3>2. count[q] \in Nat /\ length[q] \in Nat /\ count[q] <= length[q]
          /\ (MaxSize[q] # Growable => length[q] <= MaxSize[q])
      BY <1>2
    <3> QED BY <1>4, <2>2, <3>1, <3>2
  <2> QED BY <2>1, <2>2
<1> QED BY <1>3, <1>5

LEMMA EnqueueStep == SyncInv /\ Enqueue => SyncInv'
<1> SUFFICES ASSUME SyncInv, Enqueue PROVE SyncInv'
  OBVIOUS
<1> DEFINE clumps == FirstMatching(Operand, DequeueInfo)
<1>1. running \in Clump /\ Instr(running).op = "Enqueue" /\ Sched!IInv
  BY Running DEF Enqueue, SyncInv
<1>2. Operand \in Queue /\ Operand \in Object
  BY <1>1, Operands DEF Operand, QueueOps, Object
<1>3. /\ clumps \in Seq(Clump)
      /\ Elements(clumps) \subseteq Elements(Matching(Operand, DequeueInfo))
  BY <1>2, FirstMatchingClumps DEF SyncInv, WaitInv
<1>4. running \notin Elements(clumps)
  BY <1>1, <1>2, <1>3, MatchingWaits DEF EnqueueInfo, DequeueInfo
<1>5. Wake(clumps, {running}) /\ Continue /\ Add(Operand) /\ ~ IsFull(Operand)
      /\ UNCHANGED << setCount, seen, timedOut, hostCalls >>
  BY DEF Enqueue
<1> HIDE DEF clumps
<1>6. MaxSize[Operand] # Growable => count[Operand] < MaxSize[Operand]
  <2>1. count[Operand] \in Nat /\ length[Operand] \in Nat /\ count[Operand] <= length[Operand]
        /\ (MaxSize[Operand] # Growable => length[Operand] <= MaxSize[Operand])
    BY <1>2 DEF SyncInv, ObjectTypeOK
  <2>2. MaxSize[Operand] # Growable => MaxSize[Operand] \in Nat
    BY <1>2, ObjectAssumption
  <2> QED BY <1>5, <2>1, <2>2 DEF IsFull
<1>7. /\ count' \in [Queue -> Nat] /\ length' \in [Queue -> Nat]
      /\ \A x \in Queue :
           count'[x] <= length'[x] /\ (MaxSize[x] # Growable => length'[x] <= MaxSize[x])
  BY <1>2, <1>5, <1>6, Added DEF SyncInv
<1> QED BY <1>1, <1>3, <1>4, <1>5, <1>7, QueueCompletes DEF QueueOps

LEMMA LossyEnqueueStep == SyncInv /\ LossyEnqueue => SyncInv'
<1> SUFFICES ASSUME SyncInv, LossyEnqueue PROVE SyncInv'
  OBVIOUS
<1> DEFINE clumps == FirstMatching(Operand, DequeueInfo)
<1>1. running \in Clump /\ Instr(running).op = "LossyEnqueue" /\ Sched!IInv
  BY Running DEF LossyEnqueue, SyncInv
<1>2. Operand \in Queue /\ Operand \in Object
  BY <1>1, Operands DEF Operand, QueueOps, Object
<1>3. /\ clumps \in Seq(Clump)
      /\ Elements(clumps) \subseteq Elements(Matching(Operand, DequeueInfo))
  BY <1>2, FirstMatchingClumps DEF SyncInv, WaitInv
<1>4. running \notin Elements(clumps)
  BY <1>1, <1>3, <1>2, MatchingWaits DEF WaitingOps
<1>5. /\ Wake(clumps, {running}) /\ Continue /\ UNCHANGED << setCount, seen, timedOut, hostCalls >>
      /\ \/ UNCHANGED << count, length >>
         \/ /\ Add(Operand)
            /\ ~ (MaxSize[Operand] # Growable /\ ~ HasRoom(Operand) /\ count[Operand] > 0)
  BY DEF LossyEnqueue
<1> HIDE DEF clumps
<1>6. ObjectTypeOK
  BY DEF SyncInv
<1>7. ASSUME ~ (MaxSize[Operand] # Growable /\ ~ HasRoom(Operand) /\ count[Operand] > 0)
      PROVE  MaxSize[Operand] # Growable => count[Operand] < MaxSize[Operand]
  <2>1. count[Operand] \in Nat /\ length[Operand] \in Nat /\ count[Operand] <= length[Operand]
    BY <1>2, <1>6 DEF ObjectTypeOK
  <2>2. MaxSize[Operand] # Growable => MaxSize[Operand] \in Nat \ {0}
    BY <1>2, ObjectAssumption
  <2> QED BY <1>7, <2>1, <2>2 DEF HasRoom
<1>8. /\ count' \in [Queue -> Nat] /\ length' \in [Queue -> Nat]
      /\ \A x \in Queue :
           count'[x] <= length'[x] /\ (MaxSize[x] # Growable => length'[x] <= MaxSize[x])
  <2>1. CASE UNCHANGED << count, length >>
    BY <1>6, <2>1 DEF ObjectTypeOK
  <2>2. CASE Add(Operand) /\ ~ (MaxSize[Operand] # Growable /\ ~ HasRoom(Operand) /\ count[Operand] > 0)
    BY <1>2, <1>6, <1>7, <2>2, Added
  <2> QED BY <1>5, <2>1, <2>2
<1> QED BY <1>1, <1>3, <1>4, <1>5, <1>8, QueueCompletes DEF QueueOps

\* Fewer elements in a queue, and the same buffer.
LEMMA Removed ==
  ASSUME ObjectTypeOK, NEW q \in Queue, NEW n \in Nat, n <= count[q],
         count' = [count EXCEPT ![q] = n], length' = length
  PROVE  /\ count' \in [Queue -> Nat] /\ length' \in [Queue -> Nat]
         /\ \A x \in Queue :
              count'[x] <= length'[x] /\ (MaxSize[x] # Growable => length'[x] <= MaxSize[x])
<1>1. /\ count \in [Queue -> Nat] /\ length \in [Queue -> Nat]
      /\ \A x \in Queue :
           count[x] <= length[x] /\ (MaxSize[x] # Growable => length[x] <= MaxSize[x])
  BY DEF ObjectTypeOK
<1>2. \A x \in Queue : count'[x] = IF x = q THEN n ELSE count[x]
  BY <1>1
<1>3. \A x \in Queue : count[x] \in Nat /\ length[x] \in Nat
  BY <1>1
<1>4. \A x \in Queue : count'[x] <= length'[x]
  BY <1>1, <1>2, <1>3
<1> QED BY <1>1, <1>4

LEMMA DequeueStep == SyncInv /\ Dequeue => SyncInv'
<1> SUFFICES ASSUME SyncInv, Dequeue PROVE SyncInv'
  OBVIOUS
<1> DEFINE clumps == FirstMatching(Operand, EnqueueInfo)
<1>1. running \in Clump /\ Instr(running).op = "Dequeue" /\ Sched!IInv
  BY Running DEF Dequeue, SyncInv
<1>2. Operand \in Queue /\ Operand \in Object
  BY <1>1, Operands DEF Operand, QueueOps, Object
<1>3. /\ clumps \in Seq(Clump)
      /\ Elements(clumps) \subseteq Elements(Matching(Operand, EnqueueInfo))
  BY <1>2, FirstMatchingClumps DEF SyncInv, WaitInv
<1>4. running \notin Elements(clumps)
  BY <1>1, <1>2, <1>3, MatchingWaits DEF EnqueueInfo, DequeueInfo
<1>5. /\ Wake(clumps, {running}) /\ Continue /\ count[Operand] > 0
      /\ count' = [count EXCEPT ![Operand] = count[Operand] - 1]
      /\ UNCHANGED << length, setCount, seen, timedOut, hostCalls >>
  BY DEF Dequeue
<1> HIDE DEF clumps
<1>6. count[Operand] - 1 \in Nat /\ count[Operand] - 1 <= count[Operand]
  <2>1. count[Operand] \in Nat
    BY <1>2, ObjectFacts DEF SyncInv
  <2> QED BY <1>5, <2>1
<1>7. /\ count' \in [Queue -> Nat] /\ length' \in [Queue -> Nat]
      /\ \A x \in Queue :
           count'[x] <= length'[x] /\ (MaxSize[x] # Growable => length'[x] <= MaxSize[x])
  BY <1>2, <1>5, <1>6, Removed DEF SyncInv
<1> QED BY <1>1, <1>3, <1>4, <1>5, <1>7, QueueCompletes DEF QueueOps

\* The wait of the running clump ends, and the queue stays as it is.
LEMMA WaitEnds ==
  ASSUME SyncInv, running \in Clump, Instr(running).op \in QueueOps,
         ClearObservationStates, Continue, UNCHANGED << objectVars, hostCalls >>
  PROVE  SyncInv'
<1>1. Wake(<< >>, {running})
  BY DEF ClearObservationStates
<1>2. OnlyRunningMoves
  BY Continues DEF SyncInv, QueueOps
<1>3. Sched!IInv' /\ WaitTypeOK' /\ WaitInv'
  BY <1>1, <1>2, RunningWakes, NobodyWoken
<1>4. ObjectTypeOK'
  BY DEF SyncInv, ObjectTypeOK, objectVars
<1> QED BY <1>3, <1>4 DEF SyncInv

LEMMA PeekQueueStep == SyncInv /\ PeekQueue => SyncInv'
<1> SUFFICES ASSUME SyncInv, PeekQueue PROVE SyncInv'
  OBVIOUS
<1>1. running \in Clump /\ Instr(running).op = "PeekQueue"
  BY Running DEF PeekQueue, SyncInv
<1> QED BY <1>1, WaitEnds DEF PeekQueue, QueueOps

LEMMA BlockedOps ==
  ASSUME SyncInv, NEW info, Blocked(info)
  PROVE  /\ running \in Clump /\ Instr(running).op \in {"Enqueue", "Dequeue", "PeekQueue"}
         /\ info = IF Instr(running).op = "Enqueue" THEN EnqueueInfo ELSE DequeueInfo
         /\ Operand \in Queue
<1>1. running \in Clump /\ Sched!IInv
  BY Running DEF Blocked, SyncInv
<1>2. Instr(running).op \in {"Enqueue", "Dequeue", "PeekQueue"}
  BY Running DEF Blocked, SyncInv
<1>3. info = IF Instr(running).op = "Enqueue" THEN EnqueueInfo ELSE DequeueInfo
  BY Running DEF Blocked, SyncInv
<1> QED BY <1>1, <1>2, <1>3, Operands DEF Operand, QueueOps

LEMMA GiveUpStep == SyncInv /\ GiveUpOnQueue => SyncInv'
<1> SUFFICES ASSUME SyncInv, GiveUpOnQueue PROVE SyncInv'
  OBVIOUS
<1>1. PICK info \in {EnqueueInfo, DequeueInfo} : Blocked(info)
  BY DEF GiveUpOnQueue
<1>2. running \in Clump /\ Instr(running).op \in QueueOps
  BY <1>1, BlockedOps DEF QueueOps
<1> QED BY <1>2, WaitEnds DEF GiveUpOnQueue

\* The first clumps of a list of distinct ones.
LEMMA FirstClumps ==
  ASSUME NEW s \in Seq(Clump), NEW n \in 0 .. Len(s)
  PROVE  /\ SubSeq(s, 1, n) \in Seq(Clump) /\ Len(SubSeq(s, 1, n)) = n
         /\ Elements(SubSeq(s, 1, n)) \subseteq Elements(s)
<1> DEFINE front == SubSeq(s, 1, n)
<1>1. /\ front \in Seq(Clump) /\ Len(front) = n /\ n \in Nat /\ Len(s) \in Nat
      /\ \A i \in 1 .. n : front[i] = s[i]
  OBVIOUS
<1> HIDE DEF front
<1>2. \A i \in 1 .. n : i \in 1 .. Len(s)
  BY <1>1
<1>3. Elements(front) \subseteq Elements(s)
  BY <1>1, <1>2 DEF Elements
<1> QED BY <1>1, <1>3 DEF front

LEMMA FlushQueueStep == SyncInv /\ FlushQueue => SyncInv'
<1> SUFFICES ASSUME SyncInv, FlushQueue PROVE SyncInv'
  OBVIOUS
<1> DEFINE m == Matching(Operand, EnqueueInfo)
           n == IF count[Operand] < Len(m) THEN count[Operand] ELSE Len(m)
           clumps == SubSeq(m, 1, n)
<1>1. running \in Clump /\ Instr(running).op = "FlushQueue" /\ Sched!IInv
  BY Running DEF FlushQueue, SyncInv
<1>2. Operand \in Queue /\ Operand \in Object
  BY <1>1, Operands DEF Operand, QueueOps, Object
<1>3. m \in Seq(Clump) /\ count[Operand] \in Nat
  BY <1>2, MatchingClumps, ObjectFacts DEF SyncInv, WaitInv
<1>4. running \notin Elements(m)
  BY <1>1, <1>2, MatchingWaits DEF WaitingOps
<1>5. /\ Wake(clumps, {}) /\ Continue
      /\ count' = [count EXCEPT ![Operand] = 0]
      /\ UNCHANGED << length, setCount, seen, timedOut, hostCalls >>
  BY DEF FlushQueue
<1> HIDE DEF m
<1>6. n \in 0 .. Len(m)
  BY <1>3
<1> HIDE DEF n
<1>7. clumps \in Seq(Clump) /\ running \notin Elements(clumps)
  BY <1>3, <1>4, <1>6, FirstClumps
<1>8. /\ count' \in [Queue -> Nat] /\ length' \in [Queue -> Nat]
      /\ \A x \in Queue :
           count'[x] <= length'[x] /\ (MaxSize[x] # Growable => length'[x] <= MaxSize[x])
  <2>1. 0 \in Nat /\ 0 <= count[Operand] /\ length' = length /\ ObjectTypeOK
    BY <1>3, <1>5 DEF SyncInv
  <2> QED BY <1>2, <1>5, <2>1, Removed
<1>9. observing[running] # 2
  BY <1>1, NotWaiting DEF WaitingOps
<1> HIDE DEF clumps
<1> QED BY <1>1, <1>5, <1>7, <1>8, <1>9, QueueCompletes DEF QueueOps

-----------------------------------------------------------------------------
(* Going to wait.                                                           *)

\* Whoever is ready stays in the run queue or runs next.
LEMMA ReadyStays ==
  ASSUME NEW rq \in Seq(Clump), DequeueFrom(rq), NEW c \in Elements(rq)
  PROVE  c \in Elements(runQueue') \/ c = running'
<1>1. CASE rq = << >>
  BY <1>1, EmptyElements
<1>2. CASE rq # << >>
  <2>1. Elements(rq) = {Head(rq)} \cup Elements(Tail(rq))
    BY <1>2, HeadTailElements
  <2>2. running' = Head(rq) /\ runQueue' = Tail(rq)
    BY <1>2 DEF DequeueFrom
  <2>3. c = running' \/ c \in Elements(Tail(rq))
    BY <2>1, <2>2
  <2> QED BY <2>2, <2>3
<1> QED BY <1>1, <1>2

\* The scheduler's part, when the running clump goes to wait for a timer.
LEMMA SuspendedOnTimer ==
  ASSUME SyncInv, running \in Clump, NEW left \in 0 .. Forever, NEW pcs,
         timers' = InsertTimer(running, left), Suspend(pcs, runQueue),
         UNCHANGED << shortCount, caller, waiting >>,
         pcs \in [Clump -> Nat], \A c \in Clump : pcs[c] \in 1 .. Len(prog[c]),
         \A c \in Clump : c # running => pcs[c] = savePc[c]
  PROVE  /\ Sched!IInv' /\ TimersApart'
         /\ timers' \in Seq(TimerEntry)
         /\ Elements(timers') = Elements(timers) \cup {[clump |-> running, left |-> left]}
         /\ Listed(timers') = Listed(timers) \cup {running}
         /\ prog' = prog /\ savePc' = pcs
         /\ \A c \in Elements(runQueue) : c \in Elements(runQueue') \/ c = running'
<1>1. /\ Sched!IInv /\ TimersApart /\ timers \in Seq(TimerEntry)
      /\ running \notin Listed(timers)
  BY RunningHasNoTimer DEF SyncInv, WaitTypeOK, WaitInv
<1>2. /\ timers' \in Seq(TimerEntry)
      /\ Elements(timers') = Elements(timers) \cup {[clump |-> running, left |-> left]}
      /\ Listed(timers') = Listed(timers) \cup {running}
      /\ IsInjective(ClumpsOf(timers'))
  BY <1>1, InsertedTimer DEF TimersApart
<1>3. /\ savePc' = pcs /\ DequeueFrom(runQueue) /\ stopped' = stopped
      /\ prog' = prog /\ reply' = reply /\ phase' = "ran"
  BY DEF Suspend, ReturnToLoop
<1>4. Away' = Away \cup {running} /\ running \notin Away
  BY <1>1, <1>2, <1>3, RunningFacts DEF Away
<1>5. TimersApart'
  BY <1>1, <1>2, <1>3, <1>4 DEF TimersApart, Away
<1>6. Sched!IInv'
  <2>1. /\ Sched!Configuration(shortCount, caller, waiting, runQueue, running, Away)
        /\ reply \in {"none", "InRunQueue", "Waiting", "Finished"}
    BY <1>1, SchedulerFacts
  <2> USE ClumpAssumption, ProgramAssumption
      DEF WellFormed, Sched!WellFormed, ClumpOps, Sched!ClumpOps, BranchOps, Sched!BranchOps
  <2> HIDE DEF Away
  <2>2. Sched!Configuration(shortCount, caller, waiting, runQueue, NoClump, Away \cup {running})
    BY <2>1, Sched!TakenOut
  <2>3. Sched!DequeueFrom(runQueue)
    BY <1>3, SameDequeueFrom
  <2>4. Sched!Configuration(shortCount, caller, waiting, runQueue', running', Away \cup {running})
    BY <2>2, <2>3, Sched!Dispatched
  <2>5. Sched!Configuration(shortCount', caller', waiting', runQueue', running', Away')
    BY <1>4, <2>4
  <2> QED BY <1>1, <1>3, <2>1, <2>5, SchedulerKeeps
<1>7. \A c \in Elements(runQueue) : c \in Elements(runQueue') \/ c = running'
  BY <1>1, <1>3, ReadyStays, SchedulerFacts
<1> QED BY <1>2, <1>3, <1>5, <1>6, <1>7

\* A clump that waits for the time only.
LEMMA WaitUntilKeeps ==
  ASSUME SyncInv, running \in Clump, Instr(running).op # "Done",
         NEW left \in 0 .. Forever, WaitUntil(left), UNCHANGED << objectVars, hostCalls >>
  PROVE  SyncInv'
<1> DEFINE pcs == [savePc EXCEPT ![running] = @ + 1]
<1>1. /\ Sched!IInv /\ WaitTypeOK /\ WaitersStay /\ ObserversWait /\ TimersNeverEnd
  BY DEF SyncInv, WaitInv
<1>2. /\ pcs \in [Clump -> Nat] /\ \A c \in Clump : pcs[c] \in 1 .. Len(prog[c])
      /\ \A c \in Clump : c # running => pcs[c] = savePc[c]
  BY <1>1, MovesOn
<1> HIDE DEF pcs
<1>3. /\ observing[running] = 0
      /\ timers' = InsertTimer(running, left) /\ Suspend(pcs, runQueue)
      /\ UNCHANGED << shortCount, caller, waiting, observers, observing >>
  BY DEF WaitUntil, pcs
<1>4. /\ Sched!IInv' /\ TimersApart'
      /\ timers' \in Seq(TimerEntry)
      /\ Elements(timers') = Elements(timers) \cup {[clump |-> running, left |-> left]}
      /\ Listed(timers') = Listed(timers) \cup {running}
      /\ prog' = prog /\ savePc' = pcs
      /\ \A c \in Elements(runQueue) : c \in Elements(runQueue') \/ c = running'
  BY <1>2, <1>3, SuspendedOnTimer
<1>5. ASSUME NEW c \in Clump, observing[c] = 2
      PROVE  c # running /\ Instr(c)' = Instr(c)
  <2>1. c # running
    BY <1>3, <1>5
  <2> QED BY <1>2, <1>4, <2>1, OthersKeepInstr
<1>6. WaitersStay'
  <2> SUFFICES ASSUME NEW c \in Clump, observing[c] = 2 PROVE WaiterStays(c)'
    BY <1>3 DEF WaitersStay
  <2> QED BY <1>1, <1>4, <1>5 DEF WaitersStay, WaiterStays
<1>7. ObserversWait'
  <2> SUFFICES ASSUME NEW x \in Object, NEW e \in Elements(observers[x]) PROVE WaitsFor(e, x)'
    BY <1>1, <1>3 DEF ObserversWait
  <2>1. e.clump \in Clump /\ WaitsFor(e, x)
    BY <1>1, EntryClump, EntriesNameClumps, ObserverLists DEF ObserversWait
  <2> QED BY <1>3, <1>5, <2>1 DEF WaitsFor
<1>8. TimersNeverEnd'
  <2> SUFFICES ASSUME WaitsWithoutTimers
               PROVE  /\ \A e \in Elements(timers') : TimerNeverEnds(e)'
                      /\ \A x \in Object : Listed(observers[x]) \subseteq Listed(timers')
    BY <1>3, <1>4, SameTimeouts DEF TimersNeverEnd
  <2> QED BY <1>1, <1>3, <1>4 DEF TimersNeverEnd, TimerNeverEnds
<1>9. WaitTypeOK' /\ ObjectTypeOK'
  BY <1>1, <1>3, <1>4 DEF WaitTypeOK, SyncInv, ObjectTypeOK, objectVars
<1> QED BY <1>4, <1>6, <1>7, <1>8, <1>9 DEF SyncInv, WaitInv

LEMMA WaitTicksStep == SyncInv /\ WaitTicks => SyncInv'
<1> SUFFICES ASSUME SyncInv, WaitTicks PROVE SyncInv'
  OBVIOUS
<1>1. running \in Clump /\ Instr(running).op = "WaitTicks" /\ Sched!IInv
  BY Running DEF WaitTicks, SyncInv
<1>2. Instr(running).timeout \in 0 .. Forever
  BY <1>1, Operands, ForeverType DEF TimerOps
<1> QED BY <1>1, <1>2, WaitUntilKeeps DEF WaitTicks

\* An instruction that only goes on to the next one.
LEMMA GoesOn ==
  ASSUME SyncInv, running \in Clump, Instr(running).op \notin WaitingOps \cup {"Done"},
         Continue, UNCHANGED << shortCount, caller, waiting, runQueue, waitVars, objectVars, hostCalls >>
  PROVE  SyncInv'
<1>1. OnlyRunningMoves /\ observing[running] # 2
  BY Continues, NotWaiting DEF SyncInv
<1>2. /\ Sched!IInv /\ WaitTypeOK /\ TimersApart /\ WaitersStay /\ ObserversWait /\ TimersNeverEnd
  BY DEF SyncInv, WaitInv
<1>3. /\ UNCHANGED << prog, running, stopped, reply, timers, observers, observing >>
      /\ phase' = "ran" /\ savePc' \in [Clump -> Nat]
      /\ \A c \in Clump : savePc'[c] \in 1 .. Len(prog[c])
      /\ \A c \in Clump : c # running => savePc'[c] = savePc[c]
  BY <1>1 DEF OnlyRunningMoves, Continue, ReturnToLoop, waitVars
<1>4. Listed(timers') = Listed(timers) /\ Elements(timers') = Elements(timers)
      /\ Elements(runQueue') = Elements(runQueue)
  BY <1>3
<1>5. Sched!IInv'
  <2>1. /\ Sched!Configuration(shortCount, caller, waiting, runQueue, running, Away)
        /\ reply \in {"none", "InRunQueue", "Waiting", "Finished"}
    BY <1>2, SchedulerFacts
  <2>2. Away' = Away
    BY <1>3, <1>4 DEF Away
  <2> HIDE DEF Away
  <2>3. Sched!Configuration(shortCount', caller', waiting', runQueue', running', Away')
    BY <1>3, <2>1, <2>2
  <2> QED BY <1>2, <1>3, <2>1, <2>3, SchedulerKeeps
<1>6. ASSUME NEW c \in Clump, observing[c] = 2
      PROVE  Instr(c)' = Instr(c)
  BY <1>1, <1>3, <1>6, OthersKeepInstr
<1>7. WaitersStay'
  <2> SUFFICES ASSUME NEW c \in Clump, observing[c] = 2 PROVE WaiterStays(c)'
    BY <1>3 DEF WaitersStay
  <2> QED BY <1>2, <1>3, <1>4, <1>6 DEF WaitersStay, WaiterStays
<1>8. ObserversWait'
  <2> SUFFICES ASSUME NEW x \in Object, NEW e \in Elements(observers[x]) PROVE WaitsFor(e, x)'
    BY <1>2, <1>3 DEF ObserversWait
  <2>1. e.clump \in Clump /\ WaitsFor(e, x)
    BY <1>2, EntryClump, EntriesNameClumps, ObserverLists DEF ObserversWait
  <2> QED BY <1>3, <1>6, <2>1 DEF WaitsFor
<1>9. TimersApart' /\ TimersNeverEnd' /\ WaitTypeOK'
  BY <1>2, <1>3, SameTimeouts DEF TimersApart, TimersNeverEnd, TimerNeverEnds, WaitTypeOK
<1>10. ObjectTypeOK'
  BY DEF SyncInv, ObjectTypeOK, objectVars
<1> QED BY <1>5, <1>7, <1>8, <1>9, <1>10 DEF SyncInv, WaitInv

LEMMA WaitMultipleStep == SyncInv /\ WaitMultiple => SyncInv'
<1> SUFFICES ASSUME SyncInv, WaitMultiple PROVE SyncInv'
  OBVIOUS
<1>1. running \in Clump /\ Instr(running).op = "WaitMultiple" /\ Sched!IInv
  BY Running DEF WaitMultiple, SyncInv
<1>2. Instr(running).timeout \in 0 .. Forever - 1
  BY <1>1, Operands DEF TimerOps
<1>3. UNCHANGED << objectVars, hostCalls >>
  BY DEF WaitMultiple
<1>4. CASE \E left \in 1 .. Instr(running).timeout : WaitUntil(left)
  <2>1. PICK left \in 1 .. Instr(running).timeout : WaitUntil(left)
    BY <1>4
  <2>2. left \in 0 .. Forever
    BY <1>2, ForeverType
  <2> QED BY <1>1, <1>3, <2>1, <2>2, WaitUntilKeeps
<1>5. CASE /\ Continue
           /\ UNCHANGED << shortCount, caller, waiting, runQueue, waitVars >>
  BY <1>1, <1>3, <1>5, GoesOn DEF WaitingOps
<1> QED BY <1>4, <1>5 DEF WaitMultiple

\* A clump that waits for an object as well.
LEMMA WaitOnKeeps ==
  ASSUME SyncInv, running \in Clump, Instr(running).op \in WaitingOps,
         NEW x \in Object, Instr(running).arg = x, NEW info \in Int,
         x \in Queue => info = IF Instr(running).op = "Enqueue" THEN EnqueueInfo ELSE DequeueInfo,
         NEW left \in 0 .. Forever, WaitsWithoutTimers => left = Forever,
         WaitOn(x, info, left), UNCHANGED << objectVars, hostCalls >>
  PROVE  SyncInv'
<1> USE EntriesNameClumps
<1>0. PICK me \in Clump : me = running
  OBVIOUS
<1> DEFINE mine == [clump |-> me, info |-> info]
<1>1. /\ Sched!IInv /\ WaitTypeOK /\ WaitersStay /\ ObserversWait /\ TimersNeverEnd
      /\ TimersApart
  BY DEF SyncInv, WaitInv
<1>2. /\ savePc \in [Clump -> Nat] /\ \A c \in Clump : savePc[c] \in 1 .. Len(prog[c])
  BY <1>1, SchedulerFacts, Operands
<1>3. /\ observing[running] = 0
      /\ observing' = [observing EXCEPT ![running] = 2]
      /\ timers' = InsertTimer(running, left)
      /\ observers' = [observers EXCEPT ![x] = Append(@, mine)]
      /\ Suspend(savePc, runQueue)
      /\ UNCHANGED << shortCount, caller, waiting >>
  BY <1>0 DEF WaitOn, InsertObserver
<1>4. /\ Sched!IInv' /\ TimersApart'
      /\ timers' \in Seq(TimerEntry)
      /\ Elements(timers') = Elements(timers) \cup {[clump |-> me, left |-> left]}
      /\ Listed(timers') = Listed(timers) \cup {running}
      /\ prog' = prog /\ savePc' = savePc
      /\ \A c \in Elements(runQueue) : c \in Elements(runQueue') \/ c = running'
  BY <1>0, <1>2, <1>3, SuspendedOnTimer
<1>5. /\ observing \in [Clump -> {0, 2}] /\ observers \in [Object -> Seq(ObserverEntry)]
      /\ mine \in ObserverEntry /\ mine.clump = running /\ mine.info = info
  BY <1>0, <1>1 DEF WaitTypeOK, ObserverEntry
<1>6. \A c : Instr(c)' = Instr(c)
  BY <1>4, OthersKeepInstr
<1>7. \A c \in Clump : observing'[c] = IF c = running THEN 2 ELSE observing[c]
  BY <1>3, <1>5
<1>8. ASSUME NEW y \in Object, NEW e \in Elements(observers[y])
      PROVE  e.clump \in Clump /\ e.clump # running /\ WaitsFor(e, y)
  <2>1. e.clump \in Clump /\ WaitsFor(e, y)
    BY <1>1, EntryClump, ObserverLists DEF ObserversWait
  <2> QED BY <1>3, <2>1 DEF WaitsFor
<1>9. running \notin Listed(observers[x])
  BY <1>5, <1>8, ListedElements
<1>10. /\ observers'[x] \in Seq(ObserverEntry)
       /\ Elements(observers'[x]) = Elements(observers[x]) \cup {mine}
       /\ Listed(observers'[x]) = Listed(observers[x]) \cup {running}
       /\ IsInjective(ClumpsOf(observers'[x]))
  <2> DEFINE one == << mine >>
  <2>1. observers'[x] = observers[x] \o one
    <3>1. observers[x] \in Seq(ObserverEntry) /\ observers'[x] = Append(observers[x], mine)
      BY <1>3, <1>5
    <3> HIDE DEF mine
    <3> QED BY <1>5, <3>1
  <2>2. /\ one \in Seq(ObserverEntry) /\ Elements(one) = {mine} /\ Listed(one) = {running}
        /\ IsInjective(ClumpsOf(one))
    BY <1>5, SingleList
  <2> HIDE DEF one, mine
  <2>3. observers[x] \in Seq(ObserverEntry) /\ IsInjective(ClumpsOf(observers[x]))
    BY <1>1, <1>5 DEF ObserversWait
  <2> QED BY <1>9, <2>1, <2>2, <2>3, JoinedList
<1>11. \A y \in Object : y # x => observers'[y] = observers[y]
  BY <1>3, <1>5
<1> HIDE DEF mine
<1>12. WaitTypeOK'
  <2>1. observers' \in [Object -> Seq(ObserverEntry)]
    BY <1>3, <1>5, <1>10
  <2>2. observing' \in [Clump -> {0, 2}]
    BY <1>3, <1>5
  <2> QED BY <1>4, <2>1, <2>2 DEF WaitTypeOK
<1>13. WaitersStay'
  <2> SUFFICES ASSUME NEW c \in Clump, observing'[c] = 2 PROVE WaiterStays(c)'
    BY DEF WaitersStay
  <2>1. CASE c = running
    BY <1>4, <1>6, <2>1 DEF WaiterStays
  <2>2. CASE c # running
    <3>1. WaiterStays(c)
      BY <1>1, <1>7, <2>2 DEF WaitersStay
    <3> QED BY <1>4, <1>6, <2>2, <3>1 DEF WaiterStays
  <2> QED BY <2>1, <2>2
<1>14. ObserversWait'
  <2>1. ASSUME NEW y \in Object, NEW e \in Elements(observers[y])
        PROVE  WaitsFor(e, y)'
    BY <1>6, <1>7, <1>8 DEF WaitsFor
  <2>2. WaitsFor(mine, x)'
    BY <1>0, <1>5, <1>6, <1>7 DEF WaitsFor
  <2>3. ASSUME NEW y \in Object
        PROVE  /\ IsInjective(ClumpsOf(observers'[y]))
               /\ \A e \in Elements(observers'[y]) : WaitsFor(e, y)'
    <3>1. CASE y = x
      BY <1>10, <2>1, <2>2, <3>1
    <3>2. CASE y # x
      BY <1>1, <1>11, <2>1, <3>2 DEF ObserversWait
    <3> QED BY <3>1, <3>2
  <2> QED BY <2>3 DEF ObserversWait
<1>15. TimersNeverEnd'
  <2> SUFFICES ASSUME WaitsWithoutTimers
               PROVE  /\ \A e \in Elements(timers') : TimerNeverEnds(e)'
                      /\ \A y \in Object : Listed(observers'[y]) \subseteq Listed(timers')
    BY <1>4, SameTimeouts DEF TimersNeverEnd
  <2>1. ASSUME NEW e \in Elements(timers)
        PROVE  TimerNeverEnds(e)'
    <3>1. e.clump \in Clump /\ e.clump \in Listed(timers) /\ TimerNeverEnds(e)
      BY <1>1, EntryClump DEF TimersNeverEnd, WaitTypeOK
    <3>2. e.clump # running
      BY <3>1, RunningHasNoTimer
    <3> QED BY <1>7, <3>1, <3>2 DEF TimerNeverEnds
  <2>2. TimerNeverEnds([clump |-> me, left |-> left])'
    BY DEF TimerNeverEnds
  <2>3. ASSUME NEW y \in Object
        PROVE  Listed(observers'[y]) \subseteq Listed(timers')
    <3>1. Listed(observers[y]) \subseteq Listed(timers)
      BY <1>1 DEF TimersNeverEnd
    <3> QED BY <1>4, <1>10, <1>11, <3>1
  <2> QED BY <1>4, <2>1, <2>2, <2>3
<1>16. ObjectTypeOK'
  BY DEF SyncInv, ObjectTypeOK, objectVars
<1> QED BY <1>4, <1>12, <1>13, <1>14, <1>15, <1>16 DEF SyncInv, WaitInv

\* Without timeouts who stands at a waiting instruction has none.
LEMMA NoTimeouts ==
  ASSUME SyncInv, WaitsWithoutTimers, NEW c \in Clump
  PROVE  /\ Instr(c).op \in {"Enqueue", "Dequeue", "PeekQueue"} => Instr(c).timeout <= 0
         /\ Instr(c).op = "WaitOnOccurrence" => Instr(c).timeout = 0
<1>1. savePc[c] \in 1 .. Len(prog[c])
  BY Operands DEF SyncInv
<1> QED BY <1>1 DEF WaitsWithoutTimers, Instr

LEMMA WaitOnOccurrenceStep == SyncInv /\ WaitOnOccurrence => SyncInv'
<1> SUFFICES ASSUME SyncInv, WaitOnOccurrence PROVE SyncInv'
  OBVIOUS
<1> DEFINE info == setCount[Operand] + 1
<1>1. running \in Clump /\ Instr(running).op = "WaitOnOccurrence" /\ Sched!IInv
  BY Running DEF WaitOnOccurrence, SyncInv
<1>2. Operand \in Occurrence /\ Operand \in Object /\ Operand \notin Queue
  BY <1>1, Operands, ObjectAssumption DEF Operand, OccurrenceOps, Object
<1>3. info \in Int
  BY <1>2, ObjectFacts DEF SyncInv
<1>4. OccurrenceTimeout \in 0 .. Forever
  BY <1>1, Operands, ForeverType DEF OccurrenceTimeout
<1>5. WaitsWithoutTimers => OccurrenceTimeout = Forever
  BY <1>1, NoTimeouts DEF OccurrenceTimeout
<1>6. WaitOn(Operand, info, OccurrenceTimeout) /\ UNCHANGED << objectVars, hostCalls >>
  BY DEF WaitOnOccurrence
<1> HIDE DEF info
<1>7. Instr(running).arg = Operand /\ Instr(running).op \in WaitingOps
  BY <1>1 DEF Operand, WaitingOps
<1> QED BY <1>1, <1>2, <1>3, <1>4, <1>5, <1>6, <1>7, WaitOnKeeps

LEMMA WaitOnQueueStep == SyncInv /\ WaitOnQueue => SyncInv'
<1> SUFFICES ASSUME SyncInv, WaitOnQueue PROVE SyncInv'
  OBVIOUS
<1>1. PICK info \in {EnqueueInfo, DequeueInfo} :
        /\ Blocked(info) /\ observing[running] = 0 /\ Instr(running).timeout # 0
        /\ WaitOn(Operand, info, QueueTimeout)
  BY DEF WaitOnQueue
<1>2. /\ running \in Clump /\ Instr(running).op \in {"Enqueue", "Dequeue", "PeekQueue"}
      /\ info = IF Instr(running).op = "Enqueue" THEN EnqueueInfo ELSE DequeueInfo
      /\ Operand \in Queue
  BY <1>1, BlockedOps
<1>3. Operand \in Object /\ info \in Int
  BY <1>2 DEF Object, EnqueueInfo, DequeueInfo
<1>4. Instr(running).timeout \in Int /\ Instr(running).timeout < Forever
  BY <1>2, Operands DEF SyncInv
<1>5. QueueTimeout \in 0 .. Forever
  BY <1>4, ForeverType DEF QueueTimeout
<1>6. WaitsWithoutTimers => QueueTimeout = Forever
  BY <1>1, <1>2, <1>4, NoTimeouts DEF QueueTimeout
<1>7. Instr(running).arg = Operand /\ Instr(running).op \in WaitingOps
  BY <1>2 DEF Operand, WaitingOps
<1>8. UNCHANGED << objectVars, hostCalls >>
  BY DEF WaitOnQueue
<1> QED BY <1>1, <1>2, <1>3, <1>5, <1>6, <1>7, <1>8, WaitOnKeeps

-----------------------------------------------------------------------------
(* Steps that neither begin nor end a wait.                                 *)

\* A step that leaves the observation states alone, moves nobody who has some
\* and leaves them a timer, a place in the run queue or the processor.
LEMMA WaitsKept ==
  ASSUME SyncInv, UNCHANGED << prog, observers, observing >>,
         timers' \in Seq(TimerEntry), IsInjective(ClumpsOf(timers')),
         stopped' \cap Listed(timers') = {},
         \A c \in Clump : WaiterStays(c) =>
           /\ c \in Listed(timers') \/ c \in Elements(runQueue') \/ c = running'
           /\ savePc'[c] = savePc[c],
         TimersNeverEnd'
  PROVE  WaitTypeOK' /\ WaitInv'
<1>1. WaitTypeOK /\ WaitersStay /\ ObserversWait
  BY DEF SyncInv, WaitInv
<1>2. ASSUME NEW c \in Clump, observing[c] = 2
      PROVE  Instr(c)' = Instr(c) /\ WaiterStays(c)'
  <2>1. WaiterStays(c)
    BY <1>1, <1>2 DEF WaitersStay
  <2>2. Instr(c)' = Instr(c)
    BY <2>1, OthersKeepInstr
  <2> QED BY <2>1, <2>2 DEF WaiterStays
<1>3. WaitersStay'
  BY <1>2 DEF WaitersStay
<1>4. ObserversWait'
  <2> SUFFICES ASSUME NEW x \in Object, NEW e \in Elements(observers[x]) PROVE WaitsFor(e, x)'
    BY <1>1 DEF ObserversWait
  <2>1. e.clump \in Clump /\ WaitsFor(e, x)
    BY <1>1, EntryClump, EntriesNameClumps, ObserverLists DEF ObserversWait
  <2> QED BY <1>2, <2>1 DEF WaitsFor
<1>5. WaitTypeOK'
  BY <1>1 DEF WaitTypeOK
<1> QED BY <1>3, <1>4, <1>5 DEF WaitInv, TimersApart

\* Among them, with the timers as they are.
LEMMA WaitsKeptWithTimers ==
  ASSUME SyncInv, UNCHANGED << prog, timers, observers, observing >>,
         stopped' \cap Listed(timers) = {},
         \A c \in Clump : WaiterStays(c) =>
           /\ c \in Listed(timers) \/ c \in Elements(runQueue') \/ c = running'
           /\ savePc'[c] = savePc[c]
  PROVE  WaitTypeOK' /\ WaitInv'
<1>1. timers \in Seq(TimerEntry) /\ TimersApart /\ TimersNeverEnd
  BY DEF SyncInv, WaitTypeOK, WaitInv
<1>2. TimersNeverEnd'
  BY <1>1, SameTimeouts DEF TimersNeverEnd, TimerNeverEnds
<1> QED BY <1>1, <1>2, WaitsKept DEF TimersApart

\* What the scheduler's instructions do to the clumps that wait.
LEMMA InstructionLeavesWaiters ==
  ASSUME SyncInv, ClumpInstruction
  PROVE  /\ prog' = prog /\ running \in Clump /\ Instr(running).op \notin WaitingOps
         /\ stopped' \subseteq stopped \cup {running}
         /\ \A c \in Elements(runQueue) : c \in Elements(runQueue') \/ c = running'
         /\ \A c \in Clump : c # running /\ Instr(c).op # "CallVI" => savePc'[c] = savePc[c]
<1>1. /\ Sched!IInv /\ runQueue \in Seq(Clump) /\ savePc \in [Clump -> Nat \ {0}]
      /\ Sched!Configuration(shortCount, caller, waiting, runQueue, running, Away)
  BY SchedulerFacts DEF SyncInv
<1>2. ASSUME Continue, running \in Clump
      PROVE  /\ prog' = prog /\ stopped' = stopped /\ running' = running
             /\ \A c \in Clump : c # running => savePc'[c] = savePc[c]
  BY <1>1, <1>2 DEF Continue, ReturnToLoop
<1>3. ASSUME NEW pcs, NEW rq \in Seq(Clump), Suspend(pcs, rq)
      PROVE  /\ prog' = prog /\ stopped' = stopped /\ savePc' = pcs
             /\ \A c \in Elements(rq) : c \in Elements(runQueue') \/ c = running'
  BY <1>3, ReadyStays DEF Suspend, ReturnToLoop
<1>4. ASSUME NEW c \in Clump
      PROVE  Fired(c) \in Seq(Clump) /\ Elements(runQueue) \subseteq Elements(Fired(c))
  BY <1>1, AppendElements DEF Fired
<1>5. ASSUME running \in Clump, Instr(running).op = "Done"
      PROVE  /\ runQueue \o Resumed(running) \in Seq(Clump)
             /\ Elements(runQueue) \subseteq Elements(runQueue \o Resumed(running))
             /\ \A c \in Clump : c # running /\ Instr(c).op # "CallVI" =>
                  PcsAfterDone(running)[c] = savePc[c]
  <2>1. Resumed(running) \in Seq(Clump)
    <3>1. /\ caller \in [Clump -> Clump \cup {NoClump}] /\ waiting[running] \in Seq(Clump)
      BY <1>1, <1>5 DEF Sched!Configuration
    <3>2. Callers(running) \in Seq(Clump)
      BY <1>5, <3>1 DEF Callers
    <3> QED BY <3>1, <3>2 DEF Resumed
  <2>2. ASSUME NEW c \in Clump, c # running, Instr(c).op # "CallVI"
        PROVE  PcsAfterDone(running)[c] = savePc[c]
    <3>1. c # caller[running]
      <4> SUFFICES ASSUME c = caller[running] PROVE FALSE
        OBVIOUS
      <4>1. caller[running] # NoClump
        BY ClumpAssumption
      <4>2. Sched!Instr(c).op = "CallVI"
        BY <1>1, <1>5, <4>1, Sched!CallerElsewhere, ClumpAssumption, ProgramAssumption
        DEF WellFormed, Sched!WellFormed, ClumpOps, Sched!ClumpOps, BranchOps, Sched!BranchOps
      <4> QED BY <2>2, <4>2, SameInstr
    <3> QED BY <2>2, <3>1 DEF PcsAfterDone
  <2> QED BY <1>1, <2>1, <2>2, ConcatElements
<1> USE DEF WaitingOps
<1>6. CASE Trigger
  <2>1. running \in Clump /\ Instr(running).op = "Trigger"
    BY <1>1, <1>6, Running DEF Trigger
  <2>2. Instr(running).arg \in Clump
    BY <1>1, <2>1, SameInstr, Sched!AtInstruction, ClumpAssumption, ProgramAssumption
    DEF Sched!IInv, WellFormed, Sched!WellFormed, ClumpOps, Sched!ClumpOps, BranchOps, Sched!BranchOps
  <2> QED BY <1>2, <1>4, <1>6, <2>1, <2>2 DEF Trigger
<1>7. CASE WaitForDone
  <2>1. running \in Clump /\ Instr(running).op = "Wait"
    BY <1>1, <1>7, Running DEF WaitForDone
  <2> DEFINE pcs == [savePc EXCEPT ![running] = @ + 1]
  <2>2. \A c \in Clump : c # running => pcs[c] = savePc[c]
    BY <1>1
  <2>3. Suspend(pcs, runQueue)
    BY <1>7 DEF WaitForDone
  <2> HIDE DEF pcs
  <2> QED BY <1>1, <1>3, <2>1, <2>2, <2>3
<1>8. CASE WaitIsOver
  <2>1. running \in Clump /\ Instr(running).op = "Wait"
    BY <1>1, <1>8, Running DEF WaitIsOver
  <2> QED BY <1>2, <1>8, <2>1 DEF WaitIsOver
<1>9. CASE CallIdleVI
  <2>1. running \in Clump /\ Instr(running).op = "CallVI"
    BY <1>1, <1>9, Running DEF CallIdleVI
  <2>2. Instr(running).arg \in Clump
    BY <1>1, <2>1, SameInstr, Sched!AtInstruction, ClumpAssumption, ProgramAssumption
    DEF Sched!IInv, WellFormed, Sched!WellFormed, ClumpOps, Sched!ClumpOps, BranchOps, Sched!BranchOps
  <2>3. Suspend(savePc, Fired(Instr(running).arg))
    BY <1>9 DEF CallIdleVI
  <2> QED BY <1>3, <1>4, <2>1, <2>2, <2>3
<1>10. CASE CallBusyVI
  <2>1. running \in Clump /\ Instr(running).op = "CallVI"
    BY <1>1, <1>10, Running DEF CallBusyVI
  <2> QED BY <1>1, <1>3, <1>10, <2>1 DEF CallBusyVI
<1>11. CASE Branch
  <2>1. running \in Clump /\ Instr(running).op = "Branch"
    BY <1>1, <1>11, Running DEF Branch
  <2>2. \A c \in Clump : c # running => savePc'[c] = savePc[c]
    BY <1>1, <1>11 DEF Branch
  <2> QED BY <1>11, <2>1, <2>2 DEF Branch, ReturnToLoop
<1>12. CASE Done
  <2>1. running \in Clump /\ Instr(running).op = "Done"
    BY <1>1, <1>12, Running DEF Done
  <2>2. Suspend(PcsAfterDone(running), runQueue \o Resumed(running))
    BY <1>12 DEF Done
  <2> DEFINE rq == runQueue \o Resumed(running)
             pcs == PcsAfterDone(running)
  <2>3. /\ rq \in Seq(Clump) /\ Elements(runQueue) \subseteq Elements(rq)
        /\ \A c \in Clump : c # running /\ Instr(c).op # "CallVI" => pcs[c] = savePc[c]
    BY <1>5, <2>1
  <2>4. Suspend(pcs, rq)
    BY <2>2
  <2> HIDE DEF rq, pcs
  <2> QED BY <1>3, <2>1, <2>3, <2>4
<1>13. CASE Stop
  <2>1. running \in Clump /\ Instr(running).op = "Stop"
    BY <1>1, <1>13, Running DEF Stop
  <2> QED BY <1>13, <2>1 DEF Stop, ReturnToLoop
<1>14. CASE NoStop
  <2>1. running \in Clump /\ Instr(running).op = "Stop"
    BY <1>1, <1>14, Running DEF NoStop
  <2> QED BY <1>2, <1>14, <2>1 DEF NoStop
<1> QED
  BY <1>6, <1>7, <1>8, <1>9, <1>10, <1>11, <1>12, <1>13, <1>14 DEF ClumpInstruction

LEMMA ClumpInstructionStep == SyncInv /\ ClumpInstruction /\ UNCHANGED syncVars => SyncInv'
<1> SUFFICES ASSUME SyncInv, ClumpInstruction, UNCHANGED syncVars PROVE SyncInv'
  OBVIOUS
<1>1. UNCHANGED << timers, observers, observing, setCount, seen, timedOut, count, length, hostCalls >>
  BY DEF syncVars, waitVars, objectVars
<1>2. Sched!IInv'
  <2>1. Sched!IInv /\ Sched!ClumpInstruction
    BY <1>1, InstructionOfScheduler DEF SyncInv
  <2> QED BY <2>1, Sched!InstructionStep, ClumpAssumption, ProgramAssumption
          DEF WellFormed, Sched!WellFormed, ClumpOps, Sched!ClumpOps, BranchOps, Sched!BranchOps
<1>3. /\ prog' = prog /\ running \in Clump /\ Instr(running).op \notin WaitingOps
      /\ stopped' \subseteq stopped \cup {running}
      /\ \A c \in Elements(runQueue) : c \in Elements(runQueue') \/ c = running'
      /\ \A c \in Clump : c # running /\ Instr(c).op # "CallVI" => savePc'[c] = savePc[c]
  BY InstructionLeavesWaiters
<1>4. stopped' \cap Listed(timers) = {}
  BY <1>3, RunningHasNoTimer DEF SyncInv, WaitInv, TimersApart
<1>5. ASSUME NEW c \in Clump, WaiterStays(c)
      PROVE  /\ c \in Listed(timers) \/ c \in Elements(runQueue') \/ c = running'
             /\ savePc'[c] = savePc[c]
  BY <1>3, <1>5 DEF WaiterStays, WaitingOps
<1>6. WaitTypeOK' /\ WaitInv'
  BY <1>1, <1>3, <1>4, <1>5, WaitsKeptWithTimers
<1>7. ObjectTypeOK'
  BY <1>1 DEF SyncInv, ObjectTypeOK
<1> QED BY <1>2, <1>6, <1>7 DEF SyncInv

\* The host starts a top VI.
LEMMA HostStartsStep == \A c \in TopVI : SyncInv /\ HostStarts(c) => SyncInv'
<1> SUFFICES ASSUME NEW c \in TopVI, SyncInv, HostStarts(c) PROVE SyncInv'
  OBVIOUS
<1>1. /\ UNCHANGED << timers, observers, observing, setCount, seen, timedOut, count, length >>
      /\ hostCalls < MaxHostCalls /\ hostCalls' = hostCalls + 1
      /\ PressGo(c)
  BY DEF HostStarts, waitVars, objectVars
<1>2. /\ UNCHANGED << prog, savePc, caller, waiting, running, phase, reply, stopped >>
      /\ runQueue' = Fired(c)
  BY <1>1 DEF PressGo
<1>3. Sched!IInv'
  <2>1. Away' = Away
    BY <1>1, <1>2 DEF Away
  <2>2. Sched!PressGo(c)
    BY <1>1, <1>2, <2>1, SameTrigger DEF PressGo, Sched!PressGo
  <2> QED BY <2>2, Sched!PressGoStep, ClumpAssumption, ProgramAssumption
          DEF SyncInv, WellFormed, Sched!WellFormed, ClumpOps, Sched!ClumpOps, BranchOps, Sched!BranchOps
<1>4. Elements(runQueue) \subseteq Elements(runQueue')
  <2>1. runQueue \in Seq(Clump) /\ c \in Clump
    BY SchedulerFacts, ClumpAssumption DEF SyncInv
  <2> QED BY <1>2, <2>1, AppendElements DEF Fired
<1>5. WaitTypeOK' /\ WaitInv'
  <2>1. stopped' \cap Listed(timers) = {}
    BY <1>2 DEF SyncInv, WaitInv, TimersApart
  <2>2. ASSUME NEW d \in Clump, WaiterStays(d)
        PROVE  /\ d \in Listed(timers) \/ d \in Elements(runQueue') \/ d = running'
               /\ savePc'[d] = savePc[d]
    BY <1>2, <1>4, <2>2 DEF WaiterStays
  <2> QED BY <1>1, <1>2, <2>1, <2>2, WaitsKeptWithTimers
<1>6. ObjectTypeOK'
  <2>1. hostCalls' \in 0 .. MaxHostCalls
    BY <1>1, ObjectFacts, ObjectAssumption DEF SyncInv
  <2> QED BY <1>1, <2>1 DEF SyncInv, ObjectTypeOK
<1> QED BY <1>3, <1>5, <1>6 DEF SyncInv

-----------------------------------------------------------------------------
(* Time and the loop.                                                       *)

\* Time passes: the timers stay who they are, in their order.
LEMMA TickedTimers ==
  ASSUME WaitTypeOK, Tick
  PROVE  /\ timers' \in Seq(TimerEntry) /\ Len(timers') = Len(timers)
         /\ ClumpsOf(timers') = ClumpsOf(timers)
         /\ \A i \in 1 .. Len(timers) :
              /\ timers'[i].clump = timers[i].clump
              /\ timers[i].left = Forever => timers'[i].left = Forever
<1> DEFINE later(left) == IF left \in 0 .. Forever - 1 THEN left - 1 ELSE left
<1>1. timers \in Seq(TimerEntry) /\ Forever \in Nat \ {0}
  BY ForeverType DEF WaitTypeOK
<1>2. timers' = [i \in 1 .. Len(timers) |-> [timers[i] EXCEPT !.left = later(timers[i].left)]]
  BY DEF Tick
<1>3. ASSUME NEW i \in 1 .. Len(timers)
      PROVE  timers[i].clump \in Clump /\ timers[i].left \in -1 .. Forever
  <2>1. timers[i] \in TimerEntry
    BY <1>1
  <2> QED BY <2>1 DEF TimerEntry
<1>4. \A left \in -1 .. Forever : later(left) \in -1 .. Forever /\ later(Forever) = Forever
  BY <1>1
<1> HIDE DEF later
<1>5. ASSUME NEW i \in 1 .. Len(timers)
      PROVE  timers'[i] = [clump |-> timers[i].clump, left |-> later(timers[i].left)]
  <2>1. timers[i] \in TimerEntry
    BY <1>1
  <2> QED BY <1>2, <2>1 DEF TimerEntry
<1>6. ASSUME NEW i \in 1 .. Len(timers)
      PROVE  /\ timers'[i] \in TimerEntry
             /\ timers'[i].clump = timers[i].clump
             /\ timers[i].left = Forever => timers'[i].left = Forever
  <2>1. later(timers[i].left) \in -1 .. Forever
    BY <1>3, <1>4
  <2>2. timers[i].left = Forever => later(timers[i].left) = Forever
    BY <1>3, <1>4
  <2> DEFINE left == later(timers[i].left)
             e == [clump |-> timers[i].clump, left |-> left]
  <2>3. timers'[i] = e
    BY <1>5
  <2> HIDE DEF left
  <2>4. e \in TimerEntry
    BY <1>3, <2>1 DEF TimerEntry, left
  <2>5. e.clump = timers[i].clump /\ e.left = left
    OBVIOUS
  <2>6. timers[i].left = Forever => left = Forever
    BY <2>2 DEF left
  <2> HIDE DEF e
  <2> QED BY <2>3, <2>4, <2>5, <2>6
<1>7. timers' \in Seq(TimerEntry) /\ Len(timers') = Len(timers)
  <2> DEFINE t == [i \in 1 .. Len(timers) |-> [timers[i] EXCEPT !.left = later(timers[i].left)]]
  <2>1. timers' = t /\ DOMAIN t = 1 .. Len(timers) /\ \A i \in 1 .. Len(timers) : t[i] = timers'[i]
    BY <1>2
  <2>2. t = [i \in 1 .. Len(timers) |-> t[i]] /\ Len(timers) \in Nat
    BY <1>1
  <2> HIDE DEF t
  <2>3. t \in [1 .. Len(timers) -> TimerEntry]
    BY <1>6, <2>1, <2>2
  <2> QED BY <2>1, <2>2, <2>3
<1>8. ClumpsOf(timers') = ClumpsOf(timers)
  BY <1>6, <1>7 DEF ClumpsOf
<1> QED BY <1>6, <1>7, <1>8

LEMMA TickStep == SyncInv /\ Tick => SyncInv'
<1> SUFFICES ASSUME SyncInv, Tick PROVE SyncInv'
  OBVIOUS
<1> USE EntriesNameClumps
<1>1. /\ Sched!IInv /\ WaitTypeOK /\ TimersApart /\ TimersNeverEnd
      /\ timers \in Seq(TimerEntry)
  BY DEF SyncInv, WaitInv, WaitTypeOK
<1>2. /\ UNCHANGED << prog, savePc, shortCount, caller, waiting, runQueue, running, phase,
                      reply, stopped, observers, observing >>
      /\ UNCHANGED << setCount, seen, timedOut, count, length, hostCalls >>
  BY DEF Tick, schedVars, objectVars
<1>3. /\ timers' \in Seq(TimerEntry) /\ Len(timers') = Len(timers)
      /\ ClumpsOf(timers') = ClumpsOf(timers)
      /\ \A i \in 1 .. Len(timers) :
           /\ timers'[i].clump = timers[i].clump
           /\ timers[i].left = Forever => timers'[i].left = Forever
  BY <1>1, TickedTimers
<1>4. Listed(timers') = Listed(timers)
  BY <1>3 DEF Listed
<1>5. Sched!IInv'
  <2>1. Away' = Away
    BY <1>2, <1>4 DEF Away
  <2>2. /\ Sched!Configuration(shortCount, caller, waiting, runQueue, running, Away)
        /\ reply \in {"none", "InRunQueue", "Waiting", "Finished"}
        /\ phase \in {"host", "burst", "ran"} /\ (phase = "host" => running = NoClump)
        /\ savePc \in [Clump -> Nat]
    BY <1>1, SchedulerFacts
  <2>3. \A c \in Clump : savePc[c] \in 1 .. Len(prog[c])
    BY <1>1, Operands
  <2> HIDE DEF Away
  <2>4. Sched!Configuration(shortCount', caller', waiting', runQueue', running', Away')
    BY <1>2, <2>1, <2>2
  <2> QED BY <1>1, <1>2, <2>2, <2>3, <2>4, SchedulerKeeps
<1>6. TimersNeverEnd'
  <2> SUFFICES ASSUME WaitsWithoutTimers
               PROVE  /\ \A e \in Elements(timers') : TimerNeverEnds(e)'
                      /\ \A x \in Object : Listed(observers[x]) \subseteq Listed(timers')
    BY <1>2, SameTimeouts DEF TimersNeverEnd
  <2>1. /\ \A e \in Elements(timers) : TimerNeverEnds(e)
        /\ \A x \in Object : Listed(observers[x]) \subseteq Listed(timers)
    BY <1>1 DEF TimersNeverEnd
  <2>2. ASSUME NEW e \in Elements(timers')
        PROVE  TimerNeverEnds(e)'
    <3>1. PICK i \in 1 .. Len(timers) : e = timers'[i]
      BY <1>3 DEF Elements
    <3>2. TimerNeverEnds(timers[i])
      BY <2>1 DEF Elements
    <3> QED BY <1>2, <1>3, <3>1, <3>2 DEF TimerNeverEnds
  <2> QED BY <1>4, <2>1, <2>2
<1>7. IsInjective(ClumpsOf(timers')) /\ stopped' \cap Listed(timers') = {}
  BY <1>1, <1>2, <1>3, <1>4 DEF TimersApart
<1>8. ASSUME NEW c \in Clump, WaiterStays(c)
      PROVE  /\ c \in Listed(timers') \/ c \in Elements(runQueue') \/ c = running'
             /\ savePc'[c] = savePc[c]
  BY <1>2, <1>4, <1>8 DEF WaiterStays
<1>9. WaitTypeOK' /\ WaitInv'
  BY <1>2, <1>3, <1>6, <1>7, <1>8, WaitsKept
<1>10. ObjectTypeOK'
  BY <1>2 DEF SyncInv, ObjectTypeOK
<1> QED BY <1>5, <1>9, <1>10 DEF SyncInv

\* The timers that are due, at the front of the list.
LEMMA DueTimers ==
  ASSUME SyncInv, CheckTimers
  PROVE  /\ ClumpsOf(Due) \in Seq(Clump) /\ IsInjective(ClumpsOf(Due))
         /\ timers' = NotDue /\ timers' \in Seq(TimerEntry) /\ IsInjective(ClumpsOf(timers'))
         /\ Elements(timers') \subseteq Elements(timers)
         /\ Listed(timers) = Elements(ClumpsOf(Due)) \cup Listed(timers')
         /\ Elements(ClumpsOf(Due)) \cap Listed(timers') = {}
         /\ \A c \in Elements(ClumpsOf(Due)) :
              \E e \in Elements(timers) : e.clump = c /\ e.left < 1
<1> USE EntriesNameClumps
<1> DEFINE n == Leading(timers, 1)
<1>1. timers \in Seq(TimerEntry) /\ IsInjective(ClumpsOf(timers))
  BY DEF SyncInv, WaitInv, WaitTypeOK, TimersApart
<1>2. n \in 0 .. Len(timers) /\ \A i \in 1 .. n : timers[i].left < 1
  BY <1>1, LeadingTimers
<1>3. Due = SubSeq(timers, 1, n) /\ NotDue = SubSeq(timers, n + 1, Len(timers))
  BY DEF Due, NotDue
<1> HIDE DEF n
<1>4. /\ Due \in Seq(TimerEntry) /\ NotDue \in Seq(TimerEntry)
      /\ Len(Due) = n /\ \A i \in 1 .. n : Due[i] = timers[i]
      /\ Elements(timers) = Elements(Due) \cup Elements(NotDue)
      /\ Listed(timers) = Listed(Due) \cup Listed(NotDue)
      /\ IsInjective(ClumpsOf(Due)) /\ IsInjective(ClumpsOf(NotDue))
      /\ Listed(Due) \cap Listed(NotDue) = {}
  BY <1>1, <1>2, <1>3, SplitList
<1>5. ClumpsOf(Due) \in Seq(Clump) /\ Listed(Due) = {Due[i].clump : i \in 1 .. Len(Due)}
  BY <1>4, ListedElements
<1>6. ASSUME NEW c \in Listed(Due)
      PROVE  \E e \in Elements(timers) : e.clump = c /\ e.left < 1
  <2>1. PICK i \in 1 .. n : Due[i].clump = c
    BY <1>4, <1>5
  <2>2. timers[i] \in Elements(timers) /\ timers[i].clump = c /\ timers[i].left < 1
    BY <1>2, <1>4, <2>1 DEF Elements
  <2> QED BY <2>2
<1>7. timers' = NotDue
  BY DEF CheckTimers
<1> QED BY <1>4, <1>5, <1>6, <1>7 DEF Listed

\* The loop goes on with the clumps whose timers are due behind the others, or
\* returns to the host.
LEMMA LoopStep ==
  ASSUME SyncInv, CheckTimers, NEW rq, NEW timerPending \in BOOLEAN,
         rq = Requeued(runQueue \o ClumpsOf(Due)),
         NextClump(rq, timerPending) \/ LeaveLoop(rq, timerPending),
         UNCHANGED << prog, savePc, shortCount, caller, waiting, stopped >>
  PROVE  SyncInv'
<1> DEFINE list == ClumpsOf(Due)
           ready == runQueue \o list
<1>1. /\ list \in Seq(Clump) /\ IsInjective(list)
      /\ timers' \in Seq(TimerEntry) /\ IsInjective(ClumpsOf(timers'))
      /\ Elements(timers') \subseteq Elements(timers)
      /\ Listed(timers) = Elements(list) \cup Listed(timers')
      /\ Elements(list) \cap Listed(timers') = {}
      /\ \A c \in Elements(list) : \E e \in Elements(timers) : e.clump = c /\ e.left < 1
  BY DueTimers
<1> HIDE DEF list
<1>2. /\ Sched!IInv /\ WaitTypeOK /\ TimersApart /\ TimersNeverEnd
      /\ Sched!Configuration(shortCount, caller, waiting, runQueue, running, Away)
      /\ runQueue \in Seq(Clump) /\ running \in Clump \cup {NoClump}
      /\ savePc \in [Clump -> Nat]
  BY SchedulerFacts DEF SyncInv, WaitInv
<1>3. \A c \in Clump : savePc[c] \in 1 .. Len(prog[c])
  BY <1>2, Operands
<1>4. UNCHANGED << observers, observing, setCount, seen, timedOut, count, length, hostCalls >>
  BY DEF CheckTimers, objectVars
<1>5. /\ ready \in Seq(Clump) /\ Elements(ready) = Elements(runQueue) \cup Elements(list)
      /\ rq = IF running = NoClump THEN ready ELSE Append(ready, running)
  BY <1>1, <1>2, ConcatElements DEF Requeued, list
<1>6. Away' = Away \ Elements(list)
  BY <1>1, <1>2 DEF Away, TimersApart
<1> HIDE DEF Away
<1> USE ClumpAssumption, ProgramAssumption
    DEF WellFormed, Sched!WellFormed, ClumpOps, Sched!ClumpOps, BranchOps, Sched!BranchOps
<1>7. Sched!Configuration(shortCount, caller, waiting, ready, running, Away')
  <2>1. /\ Sched!IsInjective(list) /\ Sched!Elements(list) = Elements(list)
        /\ Sched!Elements(list) \subseteq Away
    BY <1>1, SameInjective, SameElements DEF Away
  <2>2. /\ Sched!Configuration(shortCount, caller, waiting, runQueue, running, Away)
        /\ list \in Seq(Clump) /\ Elements(list) \subseteq Away
    BY <1>1, <1>2, <2>1
  <2>3. Sched!Configuration(shortCount, caller, waiting, runQueue \o list, running, Away \ Elements(list))
    BY <2>1, <2>2, Sched!Awoken
  <2> QED BY <1>6, <2>3
<1> HIDE DEF ready
<1>8. /\ Sched!Configuration(shortCount, caller, waiting, rq, NoClump, Away')
      /\ rq \in Seq(Clump)
      /\ \A c \in Clump : c \in Elements(ready) \/ c = running => c \in Elements(rq)
  <2>1. CASE running = NoClump
    BY <1>5, <1>7, <2>1
  <2>2. CASE running # NoClump
    <3>1. running \in Clump /\ rq = Append(ready, running)
      BY <1>2, <1>5, <2>2
    <3>2. Elements(rq) = Elements(ready) \cup {running} /\ rq \in Seq(Clump)
      BY <1>5, <3>1, AppendElements
    <3>3. Sched!Configuration(shortCount, caller, waiting, Append(ready, running), NoClump, Away')
      BY <1>7, <3>1, Sched!PutBack
    <3> QED BY <3>1, <3>2, <3>3
  <2> QED BY <2>1, <2>2
<1>9. /\ Sched!Configuration(shortCount', caller', waiting', runQueue', running', Away')
      /\ phase' \in {"host", "burst", "ran"} /\ (phase' = "host" => running' = NoClump)
      /\ reply' \in {"none", "InRunQueue", "Waiting", "Finished"}
      /\ \A c \in Elements(rq) : c \in Elements(runQueue') \/ c = running'
  <2>1. CASE LeaveLoop(rq, timerPending)
    <3>1. /\ runQueue' = rq /\ running' = NoClump /\ phase' = "host"
          /\ reply' \in {"InRunQueue", "Waiting", "Finished"}
      BY <2>1 DEF LeaveLoop, Answer
    <3> QED BY <1>8, <3>1
  <2>2. CASE rq # << >> /\ DequeueFrom(rq) /\ phase' = "burst" /\ reply' = "none"
    <3>1. Sched!Configuration(shortCount, caller, waiting, runQueue', running', Away')
      BY <1>8, <2>2, SameDequeueFrom, Sched!Dispatched
    <3>2. \A c \in Elements(rq) : c \in Elements(runQueue') \/ c = running'
      BY <1>8, <2>2, ReadyStays
    <3> QED BY <2>2, <3>1, <3>2
  <2> QED BY <2>1, <2>2 DEF NextClump
<1>10. Sched!IInv'
  BY <1>2, <1>3, <1>9, SchedulerKeeps
<1>11. TimersNeverEnd'
  <2> SUFFICES ASSUME WaitsWithoutTimers
               PROVE  /\ \A e \in Elements(timers') : TimerNeverEnds(e)'
                      /\ \A x \in Object : Listed(observers[x]) \subseteq Listed(timers')
    BY <1>4, SameTimeouts DEF TimersNeverEnd
  <2>1. /\ \A e \in Elements(timers) : TimerNeverEnds(e)
        /\ \A x \in Object : Listed(observers[x]) \subseteq Listed(timers)
    BY <1>2 DEF TimersNeverEnd
  <2>2. \A e \in Elements(timers') : TimerNeverEnds(e)'
    BY <1>1, <1>4, <2>1 DEF TimerNeverEnds
  <2>3. ASSUME NEW x \in Object, NEW c \in Listed(observers[x])
        PROVE  c \notin Elements(list)
    <3> SUFFICES ASSUME c \in Elements(list) PROVE FALSE
      OBVIOUS
    <3>1. PICK e \in Elements(timers) : e.clump = c /\ e.left < 1
      BY <1>1
    <3>2. PICK f \in Elements(observers[x]) : f.clump = c
      <4>1. Listed(observers[x]) = {f.clump : f \in Elements(observers[x])}
        BY <1>2, ObserverLists, EntriesNameClumps, ListedElements
      <4> QED BY <4>1
    <3>3. observing[c] = 2
      BY <3>2 DEF SyncInv, WaitInv, ObserversWait, WaitsFor
    <3> QED BY <2>1, <3>1, <3>3, ForeverType DEF TimerNeverEnds
  <2> QED BY <1>1, <2>1, <2>2, <2>3
<1>12. ASSUME NEW c \in Clump, WaiterStays(c)
       PROVE  /\ c \in Listed(timers') \/ c \in Elements(runQueue') \/ c = running'
              /\ savePc'[c] = savePc[c]
  BY <1>1, <1>5, <1>8, <1>9, <1>12 DEF WaiterStays
<1>13. WaitTypeOK' /\ WaitInv'
  <2>1. stopped' \cap Listed(timers') = {}
    BY <1>1, <1>2 DEF TimersApart
  <2> QED BY <1>1, <1>4, <1>11, <1>12, <2>1, WaitsKept
<1>14. ObjectTypeOK'
  BY <1>4 DEF SyncInv, ObjectTypeOK
<1> QED BY <1>10, <1>13, <1>14 DEF SyncInv

LEMMA ExecuteSlicesWithTimersStep == SyncInv /\ ExecuteSlicesWithTimers => SyncInv'
<1> SUFFICES ASSUME SyncInv, ExecuteSlicesWithTimers PROVE SyncInv'
  OBVIOUS
<1> DEFINE ready == runQueue \o ClumpsOf(Due)
           pending == NotDue # << >>
<1>1. /\ CheckTimers /\ phase = "host" /\ NextClump(ready, pending)
      /\ UNCHANGED << prog, savePc, shortCount, caller, waiting, stopped >>
  BY DEF ExecuteSlicesWithTimers, EnterSlices
<1>2. ready = Requeued(ready)
  BY <1>1, SchedulerFacts DEF SyncInv, Requeued
<1>3. pending \in BOOLEAN
  OBVIOUS
<1> HIDE DEF pending
<1> QED BY <1>1, <1>2, <1>3, LoopStep

LEMMA EndBurstWithTimersStep == SyncInv /\ EndBurstWithTimers => SyncInv'
<1> SUFFICES ASSUME SyncInv, EndBurstWithTimers PROVE SyncInv'
  OBVIOUS
<1> DEFINE rq == Requeued(runQueue \o ClumpsOf(Due))
           pending == NotDue # << >>
<1>1. /\ CheckTimers
      /\ NextClump(rq, pending) \/ LeaveLoop(rq, pending)
      /\ UNCHANGED << prog, savePc, shortCount, caller, waiting, stopped >>
  BY DEF EndBurstWithTimers, LeaveBurst
<1>2. pending \in BOOLEAN
  OBVIOUS
<1> HIDE DEF pending
<1> QED BY <1>1, <1>2, LoopStep

-----------------------------------------------------------------------------
(* The theorems.                                                            *)

\* Initially nobody waits, and no clump runs.
LEMMA InitSyncInv == SyncInit => SyncInv
<1> SUFFICES ASSUME SyncInit PROVE SyncInv
  OBVIOUS
<1> USE EntriesNameClumps
<1>1. /\ SchedInit /\ timers = << >> /\ observers = [x \in Object |-> << >>]
      /\ observing = [c \in Clump |-> 0]
      /\ stopped = {}
  BY DEF SyncInit, SchedInit
<1>2. Listed(timers) = {} /\ Elements(timers) = {} /\ IsInjective(ClumpsOf(timers))
      /\ timers \in Seq(TimerEntry)
  <2>1. /\ << >> \in Seq(TimerEntry) /\ Len(<< >>) = 0
    OBVIOUS
  <2>2. ClumpsOf(<< >>) = << >>
    BY <2>1 DEF ClumpsOf
  <2> QED BY <1>1, <2>1, <2>2, EmptyElements DEF Listed
<1>3. Sched!IInv
  <2>1. Away = {}
    BY <1>1, <1>2 DEF Away
  <2>2. Sched!SchedInit
    BY <1>1, <2>1 DEF SchedInit, Sched!SchedInit
  <2> QED BY <2>2, Sched!InitIInv, ClumpAssumption, ProgramAssumption
          DEF WellFormed, Sched!WellFormed, ClumpOps, Sched!ClumpOps, BranchOps, Sched!BranchOps
<1>4. WaitTypeOK
  BY <1>1, <1>2 DEF WaitTypeOK
<1>5. ObjectTypeOK
  BY ObjectAssumption DEF SyncInit, ObjectTypeOK, Growable
<1>6. ASSUME NEW x \in Object
      PROVE  /\ observers[x] = << >> /\ Elements(observers[x]) = {}
             /\ Listed(observers[x]) = {} /\ IsInjective(ClumpsOf(observers[x]))
  BY <1>1, <1>2
<1>7. WaitersStay
  BY <1>1 DEF WaitersStay
<1>8. ObserversWait
  BY <1>6 DEF ObserversWait
<1>9. TimersNeverEnd
  BY <1>2, <1>6 DEF TimersNeverEnd
<1>10. TimersApart
  BY <1>1, <1>2 DEF TimersApart
<1> QED BY <1>3, <1>4, <1>5, <1>7, <1>8, <1>9, <1>10 DEF SyncInv, WaitInv

\* Every step keeps the invariant.
LEMMA NextKeepsSyncInv == SyncInv /\ [SyncNext]_vars => SyncInv'
<1> SUFFICES ASSUME SyncInv, [SyncNext]_vars PROVE SyncInv'
  OBVIOUS
<1>1. CASE SyncInstruction
  BY <1>1, ClumpInstructionStep, WaitTicksStep, WaitMultipleStep, SetInstructionStep,
     WaitOnOccurrenceStep, OccurrenceEndsStep, EnqueueStep, LossyEnqueueStep, DequeueStep,
     PeekQueueStep, FlushQueueStep, WaitOnQueueStep, GiveUpStep DEF SyncInstruction
<1>2. CASE SyncNext /\ ~ SyncInstruction
  BY <1>2, TickStep, HostStartsStep, HostSetsStep, ExecuteSlicesWithTimersStep,
     EndBurstWithTimersStep DEF SyncNext
<1>3. CASE UNCHANGED vars
  <2>1. /\ UNCHANGED << prog, savePc, shortCount, caller, waiting, runQueue, running, phase,
                        reply, stopped, timers, observers, observing >>
        /\ UNCHANGED << setCount, seen, timedOut, count, length, hostCalls >>
    BY <1>3 DEF vars, schedVars, syncVars, waitVars, objectVars
  <2>2. Sched!IInv'
    <3>1. Away' = Away
      BY <2>1 DEF Away
    <3>2. UNCHANGED Sched!schedVars
      BY <2>1, <3>1 DEF Sched!schedVars
    <3> QED BY <3>2, Sched!NextKeepsIInv, ClumpAssumption, ProgramAssumption
            DEF SyncInv, WellFormed, Sched!WellFormed, ClumpOps, Sched!ClumpOps, BranchOps, Sched!BranchOps
  <2>3. WaitTypeOK' /\ WaitInv'
    <3>1. stopped' \cap Listed(timers) = {}
      BY <2>1 DEF SyncInv, WaitInv, TimersApart
    <3>2. ASSUME NEW d \in Clump, WaiterStays(d)
          PROVE  /\ d \in Listed(timers) \/ d \in Elements(runQueue') \/ d = running'
                 /\ savePc'[d] = savePc[d]
      BY <2>1, <3>2 DEF WaiterStays
    <3> QED BY <2>1, <3>1, <3>2, WaitsKeptWithTimers
  <2>4. ObjectTypeOK'
    BY <2>1 DEF SyncInv, ObjectTypeOK
  <2> QED BY <2>2, <2>3, <2>4 DEF SyncInv
<1> QED BY <1>1, <1>2, <1>3

(***************************************************************************)
(* The inductive invariant of scheduling and waiting together.             *)
(***************************************************************************)
THEOREM WaitingInvariance == SyncSpec => []SyncInv
BY InitSyncInv, NextKeepsSyncInv, PTL DEF SyncSpec

(***************************************************************************)
(* The state keeps its types, and no queue holds more elements than its    *)
(* buffer nor a buffer more than its bound (CopyDataToQueueElement), for   *)
(* any programs, timeouts and bounds.                                      *)
(***************************************************************************)
THEOREM WaitTypesHold == SyncSpec => []SyncTypeOK
<1>1. SyncInv => SyncTypeOK
  <2> SUFFICES ASSUME SyncInv PROVE SyncTypeOK
    OBVIOUS
  <2>1. SchedTypeOK
    <3>1. Sched!SchedTypeOK /\ stopped \subseteq Clump
      BY SchedulerFacts DEF SyncInv, Sched!IInv, Away
    <3> QED BY <3>1 DEF SchedTypeOK, Sched!SchedTypeOK
  <2>2. WaitTypeOK /\ ObjectTypeOK
    BY DEF SyncInv
  <2> QED BY <2>1, <2>2 DEF SyncTypeOK, WaitTypeOK, ObjectTypeOK, TimerEntry, ObserverEntry
<1> QED BY <1>1, WaitingInvariance, PTL

(***************************************************************************)
(* No clump is lost or scheduled twice when clumps also wait for time,     *)
(* occurrences and queues: every active clump is in exactly one place, the *)
(* timer list being one of them (the _next link and the observation states *)
(* of VIClump in VirtualInstrument.cpp and Synchronization.cpp).           *)
(***************************************************************************)
THEOREM WaitersInOnePlace == SyncSpec => []OnePlaceOrTimer
<1>1. SyncInv => OnePlaceOrTimer
  <2> SUFFICES ASSUME SyncInv PROVE OnePlaceOrTimer
    OBVIOUS
  <2>1. Sched!OnePlace
    BY Sched!PlacementIsOnePlace, ClumpAssumption, ProgramAssumption
    DEF SyncInv, Sched!IInv, WellFormed, Sched!WellFormed, ClumpOps, Sched!ClumpOps,
        BranchOps, Sched!BranchOps
  <2>2. LinkedOnce
    BY <2>1, SameInjective, SameElements DEF Sched!OnePlace, Sched!LinkedOnce, LinkedOnce
  <2>3. TimersApart
    BY DEF SyncInv, WaitInv
  <2>4. \A place, c : Sched!IsAt(place, c) <=> IsAt(place, c) \/ (place = "stopped" /\ c \in Listed(timers))
    BY SameElements DEF Sched!IsAt, IsAt, Away
  <2>5. ASSUME NEW c \in Clump
        PROVE  /\ shortCount[c] = 0 <=>
                    c \in Listed(timers) \/ \E place \in Whereabouts : IsAt(place, c)
               /\ \A place \in Whereabouts : IsAt(place, c) => c \notin Listed(timers)
               /\ \A here, there \in Whereabouts : IsAt(here, c) /\ IsAt(there, c) => here = there
    <3>1. /\ shortCount[c] = 0 <=> \E place \in Whereabouts : Sched!IsAt(place, c)
          /\ \A here, there \in Whereabouts : Sched!IsAt(here, c) /\ Sched!IsAt(there, c) => here = there
      BY <2>1 DEF Sched!OnePlace, Sched!Whereabouts, Whereabouts
    <3>2. "stopped" \in Whereabouts
      BY DEF Whereabouts
    <3>3. IsAt("stopped", c) => c \notin Listed(timers)
      BY <2>3 DEF IsAt, TimersApart
    <3> HIDE DEF IsAt, Whereabouts
    <3>4. shortCount[c] = 0 <=>
            c \in Listed(timers) \/ \E place \in Whereabouts : IsAt(place, c)
      BY <2>4, <3>1, <3>2
    <3>5. \A place \in Whereabouts : IsAt(place, c) => c \notin Listed(timers)
      BY <2>4, <3>1, <3>2, <3>3
    <3>6. \A here, there \in Whereabouts : IsAt(here, c) /\ IsAt(there, c) => here = there
      BY <2>4, <3>1
    <3> QED BY <3>4, <3>5, <3>6
  <2> QED BY <2>2, <2>3, <2>5 DEF OnePlaceOrTimer, TimersApart
<1> QED BY <1>1, WaitingInvariance, PTL

\* Without timeouts, whoever is on the list of an object may be woken.
LEMMA MatchingMayWake ==
  ASSUME SyncInv, WaitsWithoutTimers, NEW x \in Object, NEW info,
         NEW clumps \in Seq(Clump), IsInjective(clumps),
         Elements(clumps) \subseteq Elements(Matching(x, info))
  PROVE  MayWake(clumps)
<1> SUFFICES ASSUME NEW c \in Elements(clumps)
             PROVE  shortCount[c] = 0 /\ MayLink(c) /\ observing[c] = 2
  BY DEF MayWake, Elements
<1>1. c \in Clump /\ observing[c] = 2 /\ c \in Listed(observers[x])
  BY MatchingWaits
<1>2. c \in Listed(timers)
  BY <1>1 DEF SyncInv, WaitInv, TimersNeverEnd
<1>3. shortCount[c] = 0 /\ c \notin Elements(runQueue)
  BY <1>2, AwayFacts DEF SyncInv, Away
<1>4. NextIsNull(c)
  <2>1. c \notin AllButLast(runQueue)
    <3>1. \A i \in 1 .. Len(runQueue) - 1 : i \in 1 .. Len(runQueue)
      BY SchedulerFacts DEF SyncInv
    <3> QED BY <1>3, <3>1 DEF AllButLast, Elements
  <2>2. ASSUME NEW d \in Clump PROVE c \notin AllButLast(waiting[d])
    <3>1. Sched!Configuration(shortCount, caller, waiting, runQueue, running, Away) /\ c \in Away
      BY <1>2, SchedulerFacts DEF SyncInv, Away
    <3>2. c \notin Elements(waiting[d]) /\ waiting[d] \in Seq(Clump)
      BY <3>1, SameElements DEF Sched!Configuration, Sched!Placement
    <3>3. \A i \in 1 .. Len(waiting[d]) - 1 : i \in 1 .. Len(waiting[d])
      BY <3>2
    <3> QED BY <3>2, <3>3 DEF AllButLast, Elements
  <2> QED BY <2>1, <2>2 DEF NextIsNull
<1> QED BY <1>1, <1>3, <1>4 DEF MayLink

(***************************************************************************)
(* In a program whose waits have no finite timeout no assert of            *)
(* ObserveStateChange and of VIClumpQueue::Enqueue fails when clumps are   *)
(* woken, whatever the program does with its occurrences and queues.       *)
(***************************************************************************)
THEOREM OneWakerOnly == SyncSpec => []WokenByOneOnly
<1>1. SyncInv => WokenByOneOnly
  <2> SUFFICES ASSUME SyncInv, WaitsWithoutTimers, running # NoClump PROVE WakeAssertsHold
    BY DEF WokenByOneOnly, WakeAssertsHold
  <2>1. running \in Clump /\ WaitTypeOK /\ ObserversWait /\ Sched!IInv
    BY SchedulerFacts DEF SyncInv, WaitInv
  <2>2. ASSUME NEW x \in Object, NEW info
        PROVE  MayWake(Matching(x, info)) /\ MayWake(FirstMatching(x, info))
    <3>1. Matching(x, info) \in Seq(Clump) /\ IsInjective(Matching(x, info))
      BY <2>1, MatchingClumps
    <3>2. /\ FirstMatching(x, info) \in Seq(Clump)
          /\ Elements(FirstMatching(x, info)) \subseteq Elements(Matching(x, info))
      BY <2>1, FirstMatchingClumps
    <3>3. IsInjective(FirstMatching(x, info))
      BY EmptyElements DEF FirstMatching, IsInjective
    <3> QED BY <3>1, <3>2, <3>3, MatchingMayWake
  <2>3. Instr(running).op \in OccurrenceOps \cup QueueOps => Operand \in Object
    BY <2>1, Operands DEF Operand, Object
  <2> QED BY <2>2, <2>3 DEF WakeAssertsHold, OccurrenceOps, QueueOps
<1> QED BY <1>1, WaitingInvariance, PTL

-----------------------------------------------------------------------------
(* No wakeup of a queue is lost, for any clumps, queues and programs that   *)
(* only take from their queues what they wait for.                          *)
(*                                                                          *)
(* PeekQueue is excluded, and has to be: it waits on the same list and with *)
(* the same info as Dequeue, so the wakeup of a new element may go to a     *)
(* clump that only looks at it, and one that waits behind it sleeps on.     *)


NoPeeks == \A c \in Clump : \A i \in 1 .. Len(prog[c]) : prog[c][i].op # "PeekQueue"

\* What those who sleep are owed: a wakeup for every element, or free place.
Owed(q, op) == IF op = "Dequeue" THEN count[q] ELSE MaxSize[q] - count[q]

Repaid(q, op) == Asleep(q, op) # {} => Owed(q, op) <= Cardinality(Woken(q, op))

AllRepaid == \A q \in Queue : \A op \in {"Dequeue", "Enqueue"} : Repaid(q, op)

LEMMA RepaidMeansNoneLost == AllRepaid <=> NoLostWakeup
<1>1. \A q \in Queue : (\A op \in {"Dequeue", "Enqueue"} : Repaid(q, op)) <=>
        Repaid(q, "Dequeue") /\ Repaid(q, "Enqueue")
  OBVIOUS
<1> QED BY <1>1 DEF AllRepaid, NoLostWakeup, Repaid, Owed

-----------------------------------------------------------------------------
(* Counting.                                                                *)

LEMMA FiniteWoken ==
  ASSUME NEW q, NEW op
  PROVE  IsFiniteSet(Woken(q, op)) /\ Cardinality(Woken(q, op)) \in Nat
<1>1. Woken(q, op) \subseteq Clump
  BY DEF Woken
<1>2. IsFiniteSet(Woken(q, op))
  BY <1>1, ObjectAssumption, FS_Subset
<1> QED BY <1>2, FS_CardinalityType

LEMMA OwedType ==
  ASSUME SyncInv, NEW q \in Queue, NEW op
  PROVE  Owed(q, op) \in Int
<1>1. count[q] \in Nat /\ MaxSize[q] \in Int
  BY ObjectFacts, ObjectAssumption DEF SyncInv, Growable
<1> QED BY <1>1 DEF Owed

\* More woken clumps.
LEMMA MoreWoken ==
  ASSUME NEW S \in SUBSET Clump, NEW T \in SUBSET Clump, S \subseteq T
  PROVE  /\ Cardinality(S) \in Nat /\ Cardinality(T) \in Nat
         /\ Cardinality(S) <= Cardinality(T)
<1>1. IsFiniteSet(S) /\ IsFiniteSet(T)
  BY ObjectAssumption, FS_Subset
<1> QED BY <1>1, FS_Subset, FS_CardinalityType

\* One more, and one less.
LEMMA OneMoreWoken ==
  ASSUME NEW S \in SUBSET Clump, NEW T \in SUBSET Clump, NEW c \in T, c \notin S, S \subseteq T
  PROVE  Cardinality(S) + 1 <= Cardinality(T)
<1>1. IsFiniteSet(S) /\ S \cup {c} \in SUBSET Clump /\ S \cup {c} \subseteq T
  BY ObjectAssumption, FS_Subset
<1>2. Cardinality(S \cup {c}) = Cardinality(S) + 1
  BY <1>1, FS_AddElement
<1> QED BY <1>1, <1>2, MoreWoken

LEMMA OneLessWoken ==
  ASSUME NEW S \in SUBSET Clump, NEW T \in SUBSET Clump, NEW c, S \subseteq T \cup {c}
  PROVE  Cardinality(S) - 1 <= Cardinality(T)
<1>1. IsFiniteSet(T) /\ IsFiniteSet(S)
  BY ObjectAssumption, FS_Subset
<1>2. IsFiniteSet(T \cup {c}) /\ Cardinality(T \cup {c}) <= Cardinality(T) + 1
      /\ Cardinality(T) \in Nat
  <2>1. /\ IsFiniteSet(T \cup {c})
        /\ Cardinality(T \cup {c}) = IF c \in T THEN Cardinality(T) ELSE Cardinality(T) + 1
    BY <1>1, FS_AddElement
  <2>2. Cardinality(T) \in Nat
    BY <1>1, FS_CardinalityType
  <2> QED BY <2>1, <2>2
<1>3. Cardinality(S) <= Cardinality(T \cup {c}) /\ Cardinality(S) \in Nat
  BY <1>1, <1>2, FS_Subset, FS_CardinalityType
<1>4. Cardinality(T \cup {c}) \in Nat
  BY <1>2, FS_CardinalityType
<1> QED BY <1>2, <1>3, <1>4

\* A list of distinct clumps has as many members as its length.
LEMMA ListCardinality ==
  ASSUME NEW s \in Seq(Clump), IsInjective(s)
  PROVE  IsFiniteSet(Elements(s)) /\ Cardinality(Elements(s)) = Len(s)
<1>1. /\ Len(s) \in Nat /\ IsFiniteSet(1 .. Len(s)) /\ Cardinality(1 .. Len(s)) = Len(s)
  <2>1. Len(s) \in Nat /\ 1 \in Int
    OBVIOUS
  <2> QED BY <2>1, FS_Interval
<1>2. s \in [1 .. Len(s) -> Elements(s)]
  BY DEF Elements
<1>3. s \in Bijection(1 .. Len(s), Elements(s))
  BY <1>2 DEF IsInjective, Elements, Bijection, Injection, Surjection
<1>4. ExistsBijection(1 .. Len(s), Elements(s))
  BY <1>3 DEF ExistsBijection
<1> QED BY <1>1, <1>4, FS_Bijection

-----------------------------------------------------------------------------
(* How the account of a queue changes.                                      *)

\* Nothing new is owed, and nobody who was woken is lost.
LEMMA Quiet ==
  ASSUME SyncInv, SyncInv', NEW q \in Queue, NEW op, Repaid(q, op),
         Owed(q, op)' <= Owed(q, op),
         Asleep(q, op)' \subseteq Asleep(q, op),
         Woken(q, op) \subseteq Woken(q, op)'
  PROVE  Repaid(q, op)'
<1> SUFFICES ASSUME Asleep(q, op)' # {}
             PROVE  Owed(q, op)' <= Cardinality(Woken(q, op))'
  BY DEF Repaid
<1>1. Woken(q, op) \in SUBSET Clump /\ Woken(q, op)' \in SUBSET Clump
  BY DEF Woken
<1>2. Cardinality(Woken(q, op)) \in Nat /\ Cardinality(Woken(q, op)') \in Nat
      /\ Cardinality(Woken(q, op)) <= Cardinality(Woken(q, op)')
  BY <1>1, MoreWoken
<1>3. Owed(q, op) \in Int /\ Owed(q, op)' \in Int
  <2>1. count[q] \in Nat /\ count'[q] \in Nat /\ MaxSize[q] \in Int
    BY ObjectFacts, ObjectAssumption DEF SyncInv, ObjectTypeOK, Growable
  <2> QED BY <2>1 DEF Owed
<1>4. Owed(q, op) <= Cardinality(Woken(q, op))
  BY DEF Repaid
<1>5. Owed(q, op)' <= Cardinality(Woken(q, op)')
  BY <1>2, <1>3, <1>4
<1> QED BY <1>5

\* One more is owed, and one more is woken.
LEMMA OneMoreOwed ==
  ASSUME SyncInv, SyncInv', NEW q \in Queue, NEW op, Repaid(q, op),
         Owed(q, op)' <= Owed(q, op) + 1,
         Asleep(q, op)' \subseteq Asleep(q, op),
         Woken(q, op) \subseteq Woken(q, op)',
         Asleep(q, op) # {} => \E c \in Woken(q, op)' : c \notin Woken(q, op)
  PROVE  Repaid(q, op)'
<1> SUFFICES ASSUME Asleep(q, op)' # {}
             PROVE  Owed(q, op)' <= Cardinality(Woken(q, op))'
  BY DEF Repaid
<1>1. Woken(q, op) \in SUBSET Clump /\ Woken(q, op)' \in SUBSET Clump
  BY DEF Woken
<1>2. /\ Cardinality(Woken(q, op)) \in Nat /\ Cardinality(Woken(q, op)') \in Nat
      /\ Cardinality(Woken(q, op)) + 1 <= Cardinality(Woken(q, op)')
  BY <1>1, OneMoreWoken, MoreWoken
<1>3. Owed(q, op) \in Int /\ Owed(q, op)' \in Int
  <2>1. count[q] \in Nat /\ count'[q] \in Nat /\ MaxSize[q] \in Int
    BY ObjectFacts, ObjectAssumption DEF SyncInv, ObjectTypeOK, Growable
  <2> QED BY <2>1 DEF Owed
<1>4. Owed(q, op) <= Cardinality(Woken(q, op))
  BY DEF Repaid
<1>5. Owed(q, op)' <= Cardinality(Woken(q, op)')
  BY <1>2, <1>3, <1>4
<1> QED BY <1>5

\* One that was woken takes what it was woken for.
LEMMA OneLessOwed ==
  ASSUME SyncInv, SyncInv', NEW q \in Queue, NEW op, Repaid(q, op),
         Owed(q, op)' <= Owed(q, op) - 1,
         Asleep(q, op)' \subseteq Asleep(q, op),
         NEW c, Woken(q, op) \subseteq Woken(q, op)' \cup {c}
  PROVE  Repaid(q, op)'
<1> SUFFICES ASSUME Asleep(q, op)' # {}
             PROVE  Owed(q, op)' <= Cardinality(Woken(q, op))'
  BY DEF Repaid
<1>1. Woken(q, op) \in SUBSET Clump /\ Woken(q, op)' \in SUBSET Clump
  BY DEF Woken
<1>2. /\ Cardinality(Woken(q, op)) \in Nat /\ Cardinality(Woken(q, op)') \in Nat
      /\ Cardinality(Woken(q, op)) - 1 <= Cardinality(Woken(q, op)')
  <2>1. Cardinality(Woken(q, op)) - 1 <= Cardinality(Woken(q, op)')
    BY <1>1, OneLessWoken
  <2> QED BY <1>1, <2>1, MoreWoken
<1>3. Owed(q, op) \in Int /\ Owed(q, op)' \in Int
  <2>1. count[q] \in Nat /\ count'[q] \in Nat /\ MaxSize[q] \in Int
    BY ObjectFacts, ObjectAssumption DEF SyncInv, ObjectTypeOK, Growable
  <2> QED BY <2>1 DEF Owed
<1>4. Owed(q, op) <= Cardinality(Woken(q, op))
  BY DEF Repaid
<1>5. Owed(q, op)' <= Cardinality(Woken(q, op)')
  BY <1>2, <1>3, <1>4
<1> QED BY <1>5

\* Nothing is owed.
LEMMA NothingOwed ==
  ASSUME SyncInv', NEW q \in Queue, NEW op, Owed(q, op)' <= 0
  PROVE  Repaid(q, op)'
<1>1. Cardinality(Woken(q, op)') \in Nat
  <2>1. Woken(q, op)' \in SUBSET Clump
    BY DEF Woken
  <2> QED BY <2>1, MoreWoken
<1>2. Owed(q, op)' \in Int
  <2>1. count'[q] \in Nat /\ MaxSize[q] \in Int
    BY ObjectAssumption DEF SyncInv, ObjectTypeOK, Growable
  <2> QED BY <2>1 DEF Owed
<1>3. Owed(q, op)' <= Cardinality(Woken(q, op)')
  BY <1>1, <1>2
<1> QED BY <1>3 DEF Repaid

-----------------------------------------------------------------------------
(* Who sleeps and who was woken, after a step.                              *)

\* Whoever is on the list of a queue has observation states.
LEMMA AsleepObserves ==
  ASSUME SyncInv, NEW q \in Queue, NEW c \in Listed(observers[q])
  PROVE  /\ c \in Clump /\ observing[c] = 2 /\ Instr(c).arg = q
         /\ c \in Elements(Matching(q, IF Instr(c).op = "Enqueue" THEN EnqueueInfo ELSE DequeueInfo))
<1>1. q \in Object /\ WaitTypeOK /\ ObserversWait /\ observers[q] \in Seq(ObserverEntry)
  BY ObserverLists DEF Object, SyncInv, WaitInv
<1>2. PICK e \in Elements(observers[q]) : e.clump = c
  <2>1. Listed(observers[q]) = {e.clump : e \in Elements(observers[q])}
    BY <1>1, EntriesNameClumps, ListedElements
  <2> QED BY <2>1
<1>3. WaitsFor(e, q) /\ c \in Clump
  BY <1>1, <1>2, EntryClump, EntriesNameClumps DEF ObserversWait
<1> QED BY <1>1, <1>2, <1>3, MatchingClumps DEF WaitsFor

\* Without PeekQueue, the two infos tell the two operations apart.
LEMMA SleepersMatch ==
  ASSUME SyncInv, NoPeeks, NEW q \in Queue, NEW op \in {"Dequeue", "Enqueue"},
         NEW info, info = IF op = "Enqueue" THEN EnqueueInfo ELSE DequeueInfo
  PROVE  /\ Asleep(q, op) \subseteq Elements(Matching(q, info))
         /\ \A c \in Elements(Matching(q, info)) : Instr(c).op = op /\ Instr(c).arg = q
<1>1. Asleep(q, op) \subseteq Elements(Matching(q, info))
  BY AsleepObserves DEF Asleep
<1>2. ASSUME NEW c \in Elements(Matching(q, info))
      PROVE  Instr(c).op = op /\ Instr(c).arg = q
  <2>1. /\ c \in Clump /\ Instr(c).arg = q /\ Instr(c).op \in WaitingOps
        /\ info = IF Instr(c).op = "Enqueue" THEN EnqueueInfo ELSE DequeueInfo
    BY MatchingWaits DEF Object
  <2>2. savePc[c] \in 1 .. Len(prog[c]) /\ (Instr(c).op = "WaitOnOccurrence" => Instr(c).arg \in Occurrence)
    BY <2>1, Operands DEF SyncInv, OccurrenceOps
  <2>3. Instr(c).op # "PeekQueue"
    BY <2>1, <2>2 DEF NoPeeks, Instr
  <2>4. Instr(c).op # "WaitOnOccurrence"
    BY <2>1, <2>2, ObjectAssumption
  <2> QED BY <2>1, <2>3, <2>4 DEF WaitingOps, EnqueueInfo, DequeueInfo
<1> QED BY <1>1, <1>2

\* A wakeup moves clumps from the sleeping to the woken.
LEMMA AfterWake ==
  ASSUME SyncInv, OnlyRunningMoves, NEW clumps \in Seq(Clump), running \notin Elements(clumps),
         NEW done, done \in {{}, {running}},
         running \in Clump /\ observing[running] = 2 => running \in done,
         Wake(clumps, done),
         NEW q \in Queue, NEW op
  PROVE  /\ Woken(q, op)' = (Woken(q, op) \ done)
              \cup {c \in Elements(clumps) : Instr(c).op = op /\ Instr(c).arg = q}
         /\ Asleep(q, op)' \subseteq Asleep(q, op) \ Elements(clumps)
         /\ Elements(clumps) \subseteq Listed(timers)
<1> USE EntriesNameClumps
<1> DEFINE gone == Elements(clumps) \cup done
<1>1. /\ timers \in Seq(TimerEntry) /\ observers \in [Object -> Seq(ObserverEntry)]
      /\ observing \in [Clump -> {0, 2}] /\ q \in Object
      /\ Elements(clumps) \subseteq Clump
  BY ElementsType DEF SyncInv, WaitTypeOK, Object
<1>2. /\ timers' = Without(timers, gone) /\ observers'[q] = Without(observers[q], gone)
      /\ \A c \in Clump : observing'[c] = IF c \in done THEN 0 ELSE observing[c]
      /\ \A i \in 1 .. Len(clumps) : observing[clumps[i]] = 2
  BY <1>1 DEF Wake, MayWake, TimersLeft, ObserversLeft
<1>3. Elements(clumps) \subseteq Listed(timers)
  BY WokenFromTimers DEF Wake
<1> HIDE DEF gone
<1>4. Listed(timers') = Listed(timers) \ gone /\ Listed(observers'[q]) = Listed(observers[q]) \ gone
  BY <1>1, <1>2, WithoutList
<1>5. ASSUME NEW c \in Clump, observing[c] = 2, c \notin done
      PROVE  Instr(c)' = Instr(c)
  <2>1. c # running
    BY <1>5
  <2> QED BY <2>1, OthersKeepInstr DEF OnlyRunningMoves
<1>6. \A c \in Elements(clumps) : observing[c] = 2 /\ c \notin done
  BY <1>2 DEF Elements
<1>7. Woken(q, op)' = (Woken(q, op) \ done)
        \cup {c \in Elements(clumps) : Instr(c).op = op /\ Instr(c).arg = q}
  <2>1. ASSUME NEW c \in Clump
        PROVE  c \in Woken(q, op)' <=>
                 \/ c \in Woken(q, op) /\ c \notin done
                 \/ c \in Elements(clumps) /\ Instr(c).op = op /\ Instr(c).arg = q
    <3>1. CASE c \in done \/ observing[c] # 2
      BY <1>2, <1>6, <3>1 DEF Woken
    <3>2. CASE c \notin done /\ observing[c] = 2
      <4>1. Instr(c)' = Instr(c) /\ observing'[c] = 2
        BY <1>2, <1>5, <3>2
      <4>2. c \in Listed(timers') <=> c \in Listed(timers) /\ c \notin Elements(clumps)
        BY <1>4, <3>2 DEF gone
      <4>3. c \in Woken(q, op)' <=> c \notin Listed(timers') /\ Instr(c).op = op /\ Instr(c).arg = q
        BY <4>1 DEF Woken
      <4>4. c \in Woken(q, op) <=> c \notin Listed(timers) /\ Instr(c).op = op /\ Instr(c).arg = q
        BY <3>2 DEF Woken
      <4> QED BY <3>2, <4>2, <4>3, <4>4
    <3> QED BY <3>1, <3>2
  <2>2. Woken(q, op)' \subseteq Clump /\ Woken(q, op) \subseteq Clump
    BY DEF Woken
  <2> QED BY <1>1, <2>1, <2>2
<1>8. Asleep(q, op)' \subseteq Asleep(q, op) \ Elements(clumps)
  <2> SUFFICES ASSUME NEW c \in Asleep(q, op)' PROVE c \in Asleep(q, op) \ Elements(clumps)
    OBVIOUS
  <2>1. /\ c \in Listed(observers'[q]) /\ c \in Listed(timers')
        /\ Instr(c)'.op = op
    BY DEF Asleep
  <2>2. c \in Listed(observers[q]) /\ c \in Listed(timers) /\ c \notin gone
    BY <1>4, <2>1
  <2>3. Instr(c)' = Instr(c)
    BY <1>5, <2>2, AsleepObserves DEF gone
  <2> QED BY <2>1, <2>2, <2>3 DEF Asleep, gone
<1> QED BY <1>3, <1>7, <1>8

-----------------------------------------------------------------------------
(* The steps that wake somebody or end a wait.                              *)

\* The operation of a clump, and the queue that it is about.
LEMMA OwnAccount ==
  ASSUME NEW q, NEW op, running \in Woken(q, op)
  PROVE  Instr(running).op = op /\ Instr(running).arg = q /\ observing[running] = 2
BY DEF Woken

\* An occurrence wakes nobody who waits for a queue, and loses nobody either.
LEMMA OthersAreWoken ==
  ASSUME SyncInv, SyncInv', AllRepaid, OnlyRunningMoves,
         NEW clumps \in Seq(Clump), running \notin Elements(clumps),
         running \in Clump => observing[running] # 2,
         Wake(clumps, {}), count' = count
  PROVE  AllRepaid'
<1> SUFFICES ASSUME NEW q \in Queue, NEW op \in {"Dequeue", "Enqueue"} PROVE Repaid(q, op)'
  BY DEF AllRepaid
<1>1. /\ Woken(q, op)' = (Woken(q, op) \ {})
           \cup {c \in Elements(clumps) : Instr(c).op = op /\ Instr(c).arg = q}
      /\ Asleep(q, op)' \subseteq Asleep(q, op) \ Elements(clumps)
  BY AfterWake
<1>2. Woken(q, op) \subseteq Woken(q, op)' /\ Asleep(q, op)' \subseteq Asleep(q, op)
  BY <1>1
<1>3. Owed(q, op)' <= Owed(q, op)
  <2>1. Owed(q, op)' = Owed(q, op) /\ Owed(q, op) \in Int
    BY OwedType DEF Owed
  <2> QED BY <2>1
<1>4. Repaid(q, op)
  BY DEF AllRepaid
<1> QED BY <1>2, <1>3, <1>4, Quiet

LEMMA SetKeepsAccounts ==
  SyncInv /\ SyncInv' /\ AllRepaid /\ (SetInstruction \/ \E o \in Occurrence : HostSets(o))
    => AllRepaid'
<1> SUFFICES ASSUME SyncInv, SyncInv', AllRepaid,
                    SetInstruction \/ \E o \in Occurrence : HostSets(o)
             PROVE  AllRepaid'
  OBVIOUS
<1>1. ASSUME NEW o \in Occurrence, SetOccurrence(o), OnlyRunningMoves,
             running \in Clump => Instr(running).op \notin WaitingOps
      PROVE  AllRepaid'
  <2> DEFINE clumps == Matching(o, setCount[o] + 1)
  <2>1. o \in Object /\ clumps \in Seq(Clump)
    BY MatchingClumps DEF SyncInv, WaitInv, Object
  <2>2. running \notin Elements(clumps)
    BY <1>1, <2>1, MatchingWaits
  <2>3. Wake(clumps, {}) /\ count' = count
    BY <1>1 DEF SetOccurrence
  <2>4. running \in Clump => observing[running] # 2
    BY <1>1, NotWaiting
  <2> HIDE DEF clumps
  <2> QED BY <1>1, <2>1, <2>2, <2>3, <2>4, OthersAreWoken
<1>2. CASE SetInstruction
  <2>1. running \in Clump /\ Instr(running).op = "SetOccurrence" /\ Sched!IInv
    BY <1>2, Running DEF SetInstruction, SyncInv
  <2>2. Operand \in Occurrence
    BY <2>1, Operands DEF Operand, OccurrenceOps
  <2>3. OnlyRunningMoves /\ SetOccurrence(Operand)
    BY <1>2, <2>1, Continues DEF SetInstruction
  <2> QED BY <1>1, <2>1, <2>2, <2>3 DEF WaitingOps
<1>3. CASE \E o \in Occurrence : HostSets(o)
  <2>1. PICK o \in Occurrence : HostSets(o)
    BY <1>3
  <2>2. /\ Sched!IInv /\ running \notin Clump
        /\ savePc \in [Clump -> Nat \ {0}]
        /\ \A c \in Clump : savePc[c] \in 1 .. Len(prog[c])
    BY <2>1, SchedulerFacts, Operands, ClumpAssumption DEF SyncInv, HostSets
  <2>3. OnlyRunningMoves /\ SetOccurrence(o)
    BY <2>1, <2>2 DEF HostSets, OnlyRunningMoves
  <2> QED BY <1>1, <2>2, <2>3
<1> QED BY <1>2, <1>3

\* A wait that ends without waking anybody, when nothing is owed to those who
\* wait for the same.
LEMMA EndedWaits ==
  ASSUME SyncInv, SyncInv', AllRepaid, running \in Clump, OnlyRunningMoves,
         ClearObservationStates, count' = count,
         Instr(running).op \in {"Dequeue", "Enqueue"} =>
           Operand \in Queue /\ Owed(Operand, Instr(running).op) <= 0
  PROVE  AllRepaid'
<1> SUFFICES ASSUME NEW q \in Queue, NEW op \in {"Dequeue", "Enqueue"} PROVE Repaid(q, op)'
  BY DEF AllRepaid
<1> DEFINE nobody == << >>
<1>1. /\ Wake(nobody, {running}) /\ nobody \in Seq(Clump)
      /\ Elements(nobody) = {} /\ running \notin Elements(nobody)
  BY EmptyElements DEF ClearObservationStates
<1> HIDE DEF nobody
<1>2. Owed(q, op)' = Owed(q, op) /\ Owed(q, op) \in Int /\ Repaid(q, op)
  BY OwedType DEF Owed, AllRepaid
<1>3. CASE running \in Woken(q, op)
  <2>1. Owed(q, op) <= 0
    BY <1>3, OwnAccount DEF Operand
  <2> QED BY <1>2, <2>1, NothingOwed
<1>4. CASE running \notin Woken(q, op)
  <2>1. /\ Woken(q, op)' = (Woken(q, op) \ {running})
             \cup {c \in Elements(nobody) : Instr(c).op = op /\ Instr(c).arg = q}
        /\ Asleep(q, op)' \subseteq Asleep(q, op) \ Elements(nobody)
    BY <1>1, AfterWake
  <2>2. Woken(q, op) \subseteq Woken(q, op)' /\ Asleep(q, op)' \subseteq Asleep(q, op)
    BY <1>1, <1>4, <2>1
  <2>3. Owed(q, op)' <= Owed(q, op)
    BY <1>2
  <2> QED BY <1>2, <2>2, <2>3, Quiet
<1> QED BY <1>3, <1>4

LEMMA EndsKeepAccounts ==
  SyncInv /\ SyncInv' /\ AllRepaid /\ (OccurrenceEnds \/ PeekQueue \/ GiveUpOnQueue)
    => AllRepaid'
<1> SUFFICES ASSUME SyncInv, SyncInv', AllRepaid, OccurrenceEnds \/ PeekQueue \/ GiveUpOnQueue
             PROVE  AllRepaid'
  OBVIOUS
<1>1. CASE OccurrenceEnds
  <2>1. running \in Clump /\ Instr(running).op = "WaitOnOccurrence" /\ Sched!IInv
    BY <1>1, Running DEF OccurrenceEnds, SyncInv
  <2>2. OnlyRunningMoves
    BY <1>1, <2>1, Continues DEF OccurrenceEnds
  <2> QED BY <1>1, <2>1, <2>2, EndedWaits DEF OccurrenceEnds
<1>2. CASE PeekQueue
  <2>1. running \in Clump /\ Instr(running).op = "PeekQueue" /\ Sched!IInv
    BY <1>2, Running DEF PeekQueue, SyncInv
  <2>2. OnlyRunningMoves
    BY <1>2, <2>1, Continues DEF PeekQueue
  <2> QED BY <1>2, <2>1, <2>2, EndedWaits DEF PeekQueue, objectVars
<1>3. CASE GiveUpOnQueue
  <2>1. PICK info \in {EnqueueInfo, DequeueInfo} : Blocked(info)
    BY <1>3 DEF GiveUpOnQueue
  <2>2. /\ running \in Clump /\ Instr(running).op \in {"Enqueue", "Dequeue", "PeekQueue"}
        /\ Operand \in Queue /\ Sched!IInv
    BY <2>1, BlockedOps DEF SyncInv
  <2>3. OnlyRunningMoves /\ ClearObservationStates /\ count' = count
    BY <1>3, <2>2, Continues DEF GiveUpOnQueue, objectVars
  <2>4. /\ Instr(running).op = "Enqueue" => IsFull(Operand)
        /\ Instr(running).op = "Dequeue" => count[Operand] = 0
    BY <2>1 DEF Blocked, Executes
  <2>5. count[Operand] \in Nat /\ MaxSize[Operand] \in Int
    BY <2>2, ObjectFacts, ObjectAssumption DEF SyncInv, Growable
  <2>6. Instr(running).op \in {"Dequeue", "Enqueue"} => Owed(Operand, Instr(running).op) <= 0
    BY <2>4, <2>5 DEF Owed, IsFull
  <2> QED BY <2>2, <2>3, <2>6, EndedWaits
<1> QED BY <1>1, <1>2, <1>3

\* An operation of a queue gives something to those on its list who wait for
\* it, waking the first of them, and may take what it was woken for itself.
LEMMA GivesAndTakes ==
  ASSUME SyncInv, SyncInv', AllRepaid, NoPeeks, running \in Clump, OnlyRunningMoves,
         NEW x \in Queue, Instr(running).arg = x,
         NEW given \in {"Dequeue", "Enqueue"}, NEW taken \in {"Dequeue", "Enqueue"},
         given # taken, Instr(running).op # given,
         NEW info, info = IF given = "Enqueue" THEN EnqueueInfo ELSE DequeueInfo,
         Wake(FirstMatching(x, info), {running}),
         Owed(x, given)' <= Owed(x, given) + 1,
         Owed(x, taken)' <= IF Instr(running).op = taken THEN Owed(x, taken) - 1 ELSE Owed(x, taken),
         \A q \in Queue : q # x => count'[q] = count[q]
  PROVE  AllRepaid'
<1> SUFFICES ASSUME NEW q \in Queue, NEW op \in {"Dequeue", "Enqueue"} PROVE Repaid(q, op)'
  BY DEF AllRepaid
<1> DEFINE clumps == FirstMatching(x, info)
<1>1. /\ clumps \in Seq(Clump) /\ Elements(clumps) \subseteq Elements(Matching(x, info))
      /\ Elements(Matching(x, info)) # {} =>
           \E c \in Elements(Matching(x, info)) : Elements(clumps) = {c}
  BY FirstMatchingClumps DEF SyncInv, WaitInv, Object
<1>2. /\ Asleep(x, given) \subseteq Elements(Matching(x, info))
      /\ \A c \in Elements(Matching(x, info)) : Instr(c).op = given /\ Instr(c).arg = x
  BY SleepersMatch
<1>3. running \notin Elements(clumps)
  BY <1>1, <1>2
<1>4. Wake(clumps, {running})
  OBVIOUS
<1> HIDE DEF clumps
<1>5. /\ Woken(q, op)' = (Woken(q, op) \ {running})
           \cup {c \in Elements(clumps) : Instr(c).op = op /\ Instr(c).arg = q}
      /\ Asleep(q, op)' \subseteq Asleep(q, op) \ Elements(clumps)
      /\ Elements(clumps) \subseteq Listed(timers)
  BY <1>1, <1>3, <1>4, AfterWake
<1>6. Repaid(q, op) /\ Owed(q, op) \in Int
  BY OwedType DEF AllRepaid
<1>7. Asleep(q, op)' \subseteq Asleep(q, op)
  BY <1>5
<1>8. CASE q = x /\ op = given
  <2>1. Woken(q, op) \subseteq Woken(q, op)'
    BY <1>5, <1>8, OwnAccount
  <2>2. ASSUME Asleep(q, op) # {} PROVE \E c \in Woken(q, op)' : c \notin Woken(q, op)
    <3>1. PICK c \in Elements(Matching(x, info)) : Elements(clumps) = {c}
      BY <1>1, <1>2, <1>8, <2>2
    <3>2. c \in Woken(q, op)' /\ c \in Listed(timers)
      BY <1>2, <1>5, <1>8, <3>1
    <3>3. c \notin Woken(q, op)
      BY <3>2 DEF Woken
    <3> QED BY <3>2, <3>3
  <2> QED BY <1>6, <1>7, <1>8, <2>1, <2>2, OneMoreOwed
<1>9. CASE q = x /\ op = taken
  <2>1. CASE Instr(running).op = taken
    <3>1. Woken(q, op) \subseteq Woken(q, op)' \cup {running}
      BY <1>5
    <3> QED BY <1>6, <1>7, <1>9, <2>1, <3>1, OneLessOwed
  <2>2. CASE Instr(running).op # taken
    <3>1. Woken(q, op) \subseteq Woken(q, op)'
      BY <1>5, <1>9, <2>2, OwnAccount
    <3> QED BY <1>6, <1>7, <1>9, <2>2, <3>1, Quiet
  <2> QED BY <2>1, <2>2
<1>10. CASE q # x
  <2>1. Woken(q, op) \subseteq Woken(q, op)'
    BY <1>5, <1>10, OwnAccount
  <2>2. Owed(q, op)' <= Owed(q, op)
    <3>1. Owed(q, op)' = Owed(q, op)
      BY <1>10 DEF Owed
    <3> QED BY <1>6, <3>1
  <2> QED BY <1>6, <1>7, <2>1, <2>2, Quiet
<1> QED BY <1>8, <1>9, <1>10

\* The operand of a queue operation, as the queue that a step is about.
LEMMA TheQueue ==
  ASSUME SyncInv, NEW op \in QueueOps, Executes(op)
  PROVE  /\ running \in Clump /\ Instr(running).op = op /\ Sched!IInv
         /\ Operand \in Queue /\ Instr(running).arg = Operand
         /\ count[Operand] \in Nat /\ MaxSize[Operand] \in Int
<1>1. running \in Clump /\ Instr(running).op = op /\ Sched!IInv
  BY Running DEF SyncInv
<1>2. Operand \in Queue /\ Instr(running).arg = Operand
  BY <1>1, Operands DEF Operand
<1> QED BY <1>1, <1>2, ObjectFacts, ObjectAssumption DEF SyncInv, Growable

\* An element more: one more is owed to those who wait for an element.
LEMMA AddKeepsAccounts ==
  SyncInv /\ SyncInv' /\ AllRepaid /\ NoPeeks /\ (Enqueue \/ LossyEnqueue) => AllRepaid'
<1> SUFFICES ASSUME SyncInv, SyncInv', AllRepaid, NoPeeks, Enqueue \/ LossyEnqueue
             PROVE  AllRepaid'
  OBVIOUS
<1>1. PICK op \in {"Enqueue", "LossyEnqueue"} : Executes(op)
  BY DEF Enqueue, LossyEnqueue
<1>2. /\ running \in Clump /\ Instr(running).op = op /\ Sched!IInv
      /\ Operand \in Queue /\ Instr(running).arg = Operand
      /\ count[Operand] \in Nat /\ MaxSize[Operand] \in Int
  BY <1>1, TheQueue DEF QueueOps
<1>3. PICK x \in Queue : x = Operand
  BY <1>2
<1>4. Continue /\ Wake(FirstMatching(x, DequeueInfo), {running})
  BY <1>3 DEF Enqueue, LossyEnqueue
<1>5. OnlyRunningMoves
  BY <1>1, <1>2, <1>4, Continues
<1>6. /\ Add(x) \/ (op = "LossyEnqueue" /\ count' = count)
      /\ count \in [Queue -> Nat]
  BY <1>2, <1>3, ObjectFacts DEF Enqueue, LossyEnqueue, Executes, SyncInv
<1>7. /\ count'[x] = count[x] + 1 \/ (op = "LossyEnqueue" /\ count'[x] = count[x])
      /\ \A q \in Queue : q # x => count'[q] = count[q]
  BY <1>6 DEF Add
<1>8. /\ Owed(x, "Dequeue")' <= Owed(x, "Dequeue") + 1
      /\ Owed(x, "Enqueue")' <= IF Instr(running).op = "Enqueue" THEN Owed(x, "Enqueue") - 1
                                ELSE Owed(x, "Enqueue")
  BY <1>2, <1>3, <1>7 DEF Owed
<1>9. DequeueInfo = IF "Dequeue" = "Enqueue" THEN EnqueueInfo ELSE DequeueInfo
  OBVIOUS
<1> QED BY <1>1, <1>2, <1>3, <1>4, <1>5, <1>7, <1>8, <1>9, GivesAndTakes

\* An element less: one more is owed to those who wait for room.
LEMMA DequeueKeepsAccounts ==
  SyncInv /\ SyncInv' /\ AllRepaid /\ NoPeeks /\ Dequeue => AllRepaid'
<1> SUFFICES ASSUME SyncInv, SyncInv', AllRepaid, NoPeeks, Dequeue PROVE AllRepaid'
  OBVIOUS
<1>1. Executes("Dequeue")
  BY DEF Dequeue
<1>2. /\ running \in Clump /\ Instr(running).op = "Dequeue" /\ Sched!IInv
      /\ Operand \in Queue /\ Instr(running).arg = Operand
      /\ count[Operand] \in Nat /\ MaxSize[Operand] \in Int
  BY <1>1, TheQueue DEF QueueOps
<1>3. PICK x \in Queue : x = Operand
  BY <1>2
<1>4. Continue /\ Wake(FirstMatching(x, EnqueueInfo), {running})
  BY <1>3 DEF Dequeue
<1>5. OnlyRunningMoves
  BY <1>2, <1>4, Continues
<1>6. count' = [count EXCEPT ![x] = @ - 1] /\ count \in [Queue -> Nat]
  BY <1>3, ObjectFacts DEF Dequeue, SyncInv
<1>7. /\ count'[x] = count[x] - 1
      /\ \A q \in Queue : q # x => count'[q] = count[q]
  BY <1>6
<1>8. /\ Owed(x, "Enqueue")' <= Owed(x, "Enqueue") + 1
      /\ Owed(x, "Dequeue")' <= IF Instr(running).op = "Dequeue" THEN Owed(x, "Dequeue") - 1
                                ELSE Owed(x, "Dequeue")
  BY <1>2, <1>3, <1>7 DEF Owed
<1> QED BY <1>2, <1>3, <1>4, <1>5, <1>7, <1>8, GivesAndTakes

\* FlushQueue wakes as many of those who wait for room as it makes places, or
\* all of them.
LEMMA FlushKeepsAccounts ==
  SyncInv /\ SyncInv' /\ AllRepaid /\ NoPeeks /\ FlushQueue => AllRepaid'
<1> SUFFICES ASSUME SyncInv, SyncInv', AllRepaid, NoPeeks, FlushQueue,
                    NEW q \in Queue, NEW op \in {"Dequeue", "Enqueue"}
             PROVE  Repaid(q, op)'
  BY DEF AllRepaid
<1>1. Executes("FlushQueue")
  BY DEF FlushQueue
<1>2. /\ running \in Clump /\ Instr(running).op = "FlushQueue" /\ Sched!IInv
      /\ Operand \in Queue /\ Instr(running).arg = Operand
      /\ count[Operand] \in Nat /\ MaxSize[Operand] \in Int
  BY <1>1, TheQueue DEF QueueOps
<1>3. PICK x \in Queue : x = Operand
  BY <1>2
<1> DEFINE m == Matching(x, EnqueueInfo)
           n == IF count[x] < Len(m) THEN count[x] ELSE Len(m)
           clumps == SubSeq(m, 1, n)
<1>4. Continue /\ Wake(clumps, {}) /\ count' = [count EXCEPT ![x] = 0]
  BY <1>3 DEF FlushQueue
<1>5. OnlyRunningMoves
  BY <1>2, <1>4, Continues
<1>6. /\ m \in Seq(Clump) /\ IsInjective(m)
      /\ Asleep(x, "Enqueue") \subseteq Elements(m)
      /\ \A c \in Elements(m) : Instr(c).op = "Enqueue" /\ Instr(c).arg = x
  BY MatchingClumps, SleepersMatch DEF SyncInv, WaitInv, Object
<1> HIDE DEF m
<1>7. n \in 0 .. Len(m) /\ (n = count[x] \/ n = Len(m))
  BY <1>2, <1>3, <1>6
<1> HIDE DEF n
<1>8. /\ clumps \in Seq(Clump) /\ Len(clumps) = n /\ Elements(clumps) \subseteq Elements(m)
      /\ IsInjective(clumps)
  BY <1>4, <1>6, <1>7, FirstClumps DEF Wake, MayWake
<1>9. n = Len(m) => clumps = m
  BY <1>6, <1>7
<1> HIDE DEF clumps
<1>10. running \notin Elements(clumps) /\ observing[running] # 2
  BY <1>2, <1>6, <1>8, NotWaiting DEF WaitingOps
<1>11. /\ Woken(q, op)' = (Woken(q, op) \ {})
            \cup {c \in Elements(clumps) : Instr(c).op = op /\ Instr(c).arg = q}
       /\ Asleep(q, op)' \subseteq Asleep(q, op) \ Elements(clumps)
       /\ Elements(clumps) \subseteq Listed(timers)
  BY <1>4, <1>5, <1>8, <1>10, AfterWake
<1>12. /\ Repaid(q, op) /\ Owed(q, op) \in Int
       /\ count'[x] = 0 /\ \A y \in Queue : y # x => count'[y] = count[y]
  BY <1>4, OwedType, ObjectFacts DEF AllRepaid, SyncInv
<1>13. CASE q # x
  <2>1. Woken(q, op) \subseteq Woken(q, op)' /\ Asleep(q, op)' \subseteq Asleep(q, op)
    BY <1>11
  <2>2. Owed(q, op)' <= Owed(q, op)
    <3>1. Owed(q, op)' = Owed(q, op)
      BY <1>12, <1>13 DEF Owed
    <3> QED BY <1>12, <3>1
  <2> QED BY <1>12, <2>1, <2>2, Quiet
<1>14. CASE q = x /\ op = "Dequeue"
  <2>1. Owed(q, op)' <= 0
    BY <1>12, <1>14 DEF Owed
  <2> QED BY <2>1, NothingOwed
<1>15. CASE q = x /\ op = "Enqueue"
  <2> SUFFICES ASSUME Asleep(q, op)' # {}
               PROVE  Owed(q, op)' <= Cardinality(Woken(q, op))'
    BY DEF Repaid
  <2>1. n = count[x] /\ Asleep(q, op) # {}
    BY <1>6, <1>7, <1>9, <1>11, <1>15
  <2>2. /\ Woken(q, op)' = Woken(q, op) \cup Elements(clumps)
        /\ Woken(q, op) \cap Elements(clumps) = {}
    BY <1>6, <1>8, <1>11, <1>15 DEF Woken
  <2>3. IsFiniteSet(Elements(clumps)) /\ Cardinality(Elements(clumps)) = count[x]
    BY <1>8, <2>1, ListCardinality
  <2>4. IsFiniteSet(Woken(q, op)) /\ Cardinality(Woken(q, op)) \in Nat
    BY FiniteWoken
  <2>5. Cardinality(Woken(q, op)') = Cardinality(Woken(q, op)) + count[x]
    <3>1. Cardinality(Woken(q, op) \cup Elements(clumps)) =
            Cardinality(Woken(q, op)) + Cardinality(Elements(clumps)) - Cardinality({})
      BY <2>2, <2>3, <2>4, FS_Union
    <3> QED BY <1>2, <1>3, <2>2, <2>3, <2>4, <3>1, FS_EmptySet
  <2>6. Owed(q, op)' = Owed(q, op) + count[x]
    BY <1>2, <1>3, <1>12, <1>15 DEF Owed
  <2>7. Owed(q, op) <= Cardinality(Woken(q, op))
    BY <1>12, <2>1 DEF Repaid
  <2>8. Owed(q, op)' <= Cardinality(Woken(q, op)')
    BY <1>2, <1>3, <1>12, <2>4, <2>5, <2>6, <2>7
  <2> QED BY <2>8
<1> QED BY <1>13, <1>14, <1>15

-----------------------------------------------------------------------------
(* The steps that wake nobody.                                              *)

\* Nobody who waits moves, or begins to wait for a timer.
LEMMA Undisturbed ==
  ASSUME SyncInv, SyncInv', AllRepaid,
         UNCHANGED << prog, observers, observing, count >>,
         \A c \in Clump : observing[c] = 2 =>
           savePc'[c] = savePc[c] /\ (c \in Listed(timers') => c \in Listed(timers))
  PROVE  AllRepaid'
<1> SUFFICES ASSUME NEW q \in Queue, NEW op \in {"Dequeue", "Enqueue"} PROVE Repaid(q, op)'
  BY DEF AllRepaid
<1>1. ASSUME NEW c \in Clump, observing[c] = 2
      PROVE  Instr(c)' = Instr(c) /\ (c \in Listed(timers') => c \in Listed(timers))
  BY <1>1, OthersKeepInstr
<1>2. Woken(q, op) \subseteq Woken(q, op)'
  BY <1>1 DEF Woken
<1>3. Asleep(q, op)' \subseteq Asleep(q, op)
  <2> SUFFICES ASSUME NEW c \in Asleep(q, op)' PROVE c \in Asleep(q, op)
    OBVIOUS
  <2>1. c \in Listed(observers[q]) /\ c \in Listed(timers') /\ Instr(c)'.op = op
    BY DEF Asleep
  <2> QED BY <1>1, <2>1, AsleepObserves DEF Asleep
<1>4. Repaid(q, op) /\ Owed(q, op)' <= Owed(q, op)
  <2>1. Owed(q, op)' = Owed(q, op) /\ Owed(q, op) \in Int
    BY OwedType DEF Owed
  <2> QED BY <2>1 DEF AllRepaid
<1> QED BY <1>2, <1>3, <1>4, Quiet

\* A clump goes to wait for a queue only if nothing is owed to its kind.
LEMMA WaitsWithNothingOwed ==
  ASSUME SyncInv, SyncInv', AllRepaid, running \in Clump,
         NEW x \in Object, NEW info \in Int, NEW left \in 0 .. Forever,
         WaitOn(x, info, left), UNCHANGED << objectVars, hostCalls >>,
         x = Operand,
         x \in Queue /\ Instr(running).op \in {"Dequeue", "Enqueue"} =>
           Owed(x, Instr(running).op) <= 0
  PROVE  AllRepaid'
<1> SUFFICES ASSUME NEW q \in Queue, NEW op \in {"Dequeue", "Enqueue"} PROVE Repaid(q, op)'
  BY DEF AllRepaid
<1> USE EntriesNameClumps
<1>1. /\ timers \in Seq(TimerEntry) /\ observers \in [Object -> Seq(ObserverEntry)]
      /\ observing \in [Clump -> {0, 2}] /\ q \in Object
  BY DEF SyncInv, WaitTypeOK, Object
<1>2. /\ observing[running] = 0 /\ observing' = [observing EXCEPT ![running] = 2]
      /\ timers' = InsertTimer(running, left) /\ observers' = InsertObserver(x, info)
      /\ prog' = prog /\ savePc' = savePc /\ count' = count
  BY DEF WaitOn, Suspend, ReturnToLoop, objectVars
<1>3. \A c : Instr(c)' = Instr(c)
  BY <1>2, OthersKeepInstr
<1>4. Listed(timers') = Listed(timers) \cup {running}
  BY <1>1, <1>2, InsertedTimer
<1>5. Repaid(q, op) /\ Owed(q, op)' = Owed(q, op) /\ Owed(q, op) \in Int
  BY <1>2, OwedType DEF AllRepaid, Owed
<1>6. CASE Instr(running).op = op /\ x = q
  <2>1. Owed(q, op)' <= 0
    BY <1>5, <1>6
  <2> QED BY <2>1, NothingOwed
<1>7. CASE ~ (Instr(running).op = op /\ x = q)
  <2>1. Woken(q, op) \subseteq Woken(q, op)'
    <3> SUFFICES ASSUME NEW c \in Woken(q, op) PROVE c \in Woken(q, op)'
      OBVIOUS
    <3>1. c \in Clump /\ observing[c] = 2 /\ c # running
      BY <1>2 DEF Woken
    <3> QED BY <1>1, <1>2, <1>3, <1>4, <3>1 DEF Woken
  <2>2. Asleep(q, op)' \subseteq Asleep(q, op)
    <3> SUFFICES ASSUME NEW c \in Asleep(q, op)' PROVE c \in Asleep(q, op)
      OBVIOUS
    <3>1. /\ c \in Listed(observers'[q]) /\ c \in Listed(timers') /\ Instr(c).op = op
      BY <1>3 DEF Asleep
    <3>2. observers'[q] \in Seq(ObserverEntry) /\ observers[q] \in Seq(ObserverEntry)
      BY <1>1 DEF SyncInv, WaitTypeOK
    <3>3. Listed(observers'[q]) \subseteq
            IF x = q THEN Listed(observers[q]) \cup {running} ELSE Listed(observers[q])
      <4>1. CASE x # q
        BY <1>1, <1>2, <4>1 DEF InsertObserver
      <4>2. CASE x = q
        <5> DEFINE e == [clump |-> running, info |-> info]
        <5>1. e \in ObserverEntry /\ e.clump = running
          BY DEF ObserverEntry
        <5>2. observers'[q] = Append(observers[q], e)
          BY <1>1, <1>2, <4>2 DEF InsertObserver
        <5> HIDE DEF e
        <5>3. Elements(observers'[q]) = Elements(observers[q]) \cup {e}
          BY <3>2, <5>1, <5>2, AppendElements
        <5>4. /\ Listed(observers'[q]) = {f.clump : f \in Elements(observers'[q])}
              /\ Listed(observers[q]) = {f.clump : f \in Elements(observers[q])}
          BY <3>2, ListedElements
        <5> QED BY <4>2, <5>1, <5>3, <5>4
      <4> QED BY <4>1, <4>2
    <3>4. c \in Listed(observers[q]) /\ c # running
      <4>1. CASE c = running
        <5>1. Instr(running).op = op /\ c \in Listed(observers[q])
          BY <1>7, <3>1, <3>3, <4>1
        <5>2. observing[running] = 2
          BY <4>1, <5>1, AsleepObserves
        <5> QED BY <1>2, <5>2
      <4>2. CASE c # running
        BY <3>1, <3>3, <4>2
      <4> QED BY <4>1, <4>2
    <3> QED BY <1>4, <3>1, <3>4 DEF Asleep
  <2>3. Owed(q, op)' <= Owed(q, op)
    BY <1>5
  <2> QED BY <1>5, <2>1, <2>2, <2>3, Quiet
<1> QED BY <1>6, <1>7

LEMMA WaitsKeepAccounts ==
  SyncInv /\ SyncInv' /\ AllRepaid /\ (WaitOnQueue \/ WaitOnOccurrence) => AllRepaid'
<1> SUFFICES ASSUME SyncInv, SyncInv', AllRepaid, WaitOnQueue \/ WaitOnOccurrence
             PROVE  AllRepaid'
  OBVIOUS
<1>1. CASE WaitOnQueue
  <2>1. PICK info \in {EnqueueInfo, DequeueInfo} :
          /\ Blocked(info) /\ observing[running] = 0 /\ Instr(running).timeout # 0
          /\ WaitOn(Operand, info, QueueTimeout)
    BY <1>1 DEF WaitOnQueue
  <2>2. /\ running \in Clump /\ Instr(running).op \in {"Enqueue", "Dequeue", "PeekQueue"}
        /\ info = IF Instr(running).op = "Enqueue" THEN EnqueueInfo ELSE DequeueInfo
        /\ Operand \in Queue
    BY <2>1, BlockedOps
  <2>3. Operand \in Object /\ info \in Int
    BY <2>2 DEF Object, EnqueueInfo, DequeueInfo
  <2>4. Instr(running).timeout \in Int /\ Instr(running).timeout < Forever
    BY <2>2, Operands DEF SyncInv
  <2>5. QueueTimeout \in 0 .. Forever
    BY <2>4, ForeverType DEF QueueTimeout
  <2>6. /\ Instr(running).op = "Enqueue" => IsFull(Operand)
        /\ Instr(running).op = "Dequeue" => count[Operand] = 0
    BY <2>1 DEF Blocked, Executes
  <2>7. count[Operand] \in Nat /\ MaxSize[Operand] \in Int
    BY <2>2, ObjectFacts, ObjectAssumption DEF SyncInv, Growable
  <2>8. Instr(running).op \in {"Dequeue", "Enqueue"} => Owed(Operand, Instr(running).op) <= 0
    BY <2>6, <2>7 DEF Owed, IsFull
  <2>9. UNCHANGED << objectVars, hostCalls >>
    BY <1>1 DEF WaitOnQueue
  <2> QED BY <2>1, <2>2, <2>3, <2>5, <2>8, <2>9, WaitsWithNothingOwed
<1>2. CASE WaitOnOccurrence
  <2> DEFINE info == setCount[Operand] + 1
  <2>1. running \in Clump /\ Instr(running).op = "WaitOnOccurrence" /\ Sched!IInv
    BY <1>2, Running DEF WaitOnOccurrence, SyncInv
  <2>2. Operand \in Occurrence /\ Operand \in Object
    BY <2>1, Operands DEF Operand, OccurrenceOps, Object
  <2>3. info \in Int
    BY <2>2, ObjectFacts DEF SyncInv
  <2>4. OccurrenceTimeout \in 0 .. Forever
    BY <2>1, Operands, ForeverType DEF OccurrenceTimeout
  <2>5. WaitOn(Operand, info, OccurrenceTimeout) /\ UNCHANGED << objectVars, hostCalls >>
    BY <1>2 DEF WaitOnOccurrence
  <2> HIDE DEF info
  <2> QED BY <2>1, <2>2, <2>3, <2>4, <2>5, WaitsWithNothingOwed
<1> QED BY <1>1, <1>2

\* A clump that waits for the time had no observation states before.
LEMMA TimeKeepsAccounts ==
  SyncInv /\ SyncInv' /\ AllRepaid /\ (WaitTicks \/ WaitMultiple) => AllRepaid'
<1> SUFFICES ASSUME SyncInv, SyncInv', AllRepaid, WaitTicks \/ WaitMultiple PROVE AllRepaid'
  OBVIOUS
<1>1. PICK op \in TimerOps : Executes(op)
  BY DEF WaitTicks, WaitMultiple, TimerOps
<1>2. running \in Clump /\ Instr(running).op = op /\ savePc \in [Clump -> Nat \ {0}]
  BY <1>1, Running, SchedulerFacts DEF SyncInv
<1>3. Instr(running).timeout \in 0 .. Forever - 1
  BY <1>2, Operands DEF SyncInv
<1>4. observing[running] # 2 /\ count' = count
  BY <1>2, NotWaiting DEF WaitingOps, TimerOps, WaitTicks, WaitMultiple, objectVars
<1>5. ASSUME NEW left \in 0 .. Forever, WaitUntil(left)
      PROVE  AllRepaid'
  <2>1. /\ UNCHANGED << prog, observers, observing >>
        /\ savePc' = [savePc EXCEPT ![running] = @ + 1]
        /\ timers' = InsertTimer(running, left)
    BY <1>5 DEF WaitUntil, Suspend, ReturnToLoop
  <2>2. Listed(timers') = Listed(timers) \cup {running}
    BY <1>2, <2>1, InsertedTimer DEF SyncInv, WaitTypeOK
  <2>3. \A c \in Clump : c # running => savePc'[c] = savePc[c]
    BY <1>2, <2>1
  <2> QED BY <1>4, <2>1, <2>2, <2>3, Undisturbed
<1>6. CASE \E left \in 0 .. Forever : WaitUntil(left)
  BY <1>5, <1>6
<1>7. CASE Continue /\ UNCHANGED waitVars
  <2>1. /\ UNCHANGED << prog, observers, observing, timers >>
        /\ savePc' = [savePc EXCEPT ![running] = @ + 1]
    BY <1>7 DEF Continue, ReturnToLoop, waitVars
  <2>2. \A c \in Clump : c # running => savePc'[c] = savePc[c]
    BY <1>2, <2>1
  <2> QED BY <1>4, <2>1, <2>2, Undisturbed
<1>8. \A left \in 1 .. Instr(running).timeout : left \in 0 .. Forever
  BY <1>3, ForeverType
<1>9. Instr(running).timeout \in 0 .. Forever
  BY <1>3, ForeverType
<1> QED BY <1>6, <1>7, <1>8, <1>9 DEF WaitTicks, WaitMultiple

\* The scheduler, the host and the clock.
LEMMA OthersKeepAccounts ==
  SyncInv /\ SyncInv' /\ AllRepaid
    /\ (\/ ClumpInstruction /\ UNCHANGED syncVars
        \/ \E c \in TopVI : HostStarts(c)
        \/ Tick
        \/ ExecuteSlicesWithTimers
        \/ EndBurstWithTimers
        \/ UNCHANGED vars)
    => AllRepaid'
<1> SUFFICES ASSUME SyncInv, SyncInv', AllRepaid PROVE
      (\/ ClumpInstruction /\ UNCHANGED syncVars
       \/ \E c \in TopVI : HostStarts(c)
       \/ Tick
       \/ ExecuteSlicesWithTimers
       \/ EndBurstWithTimers
       \/ UNCHANGED vars) => AllRepaid'
  OBVIOUS
<1>1. ASSUME UNCHANGED << prog, savePc, observers, observing, count >>,
             Listed(timers') \subseteq Listed(timers)
      PROVE  AllRepaid'
  BY <1>1, Undisturbed
<1>2. ASSUME ClumpInstruction, UNCHANGED syncVars PROVE AllRepaid'
  <2>1. UNCHANGED << timers, observers, observing, count >>
    BY <1>2 DEF syncVars, waitVars, objectVars
  <2>2. /\ prog' = prog /\ running \in Clump /\ Instr(running).op \notin WaitingOps
        /\ \A c \in Clump : c # running /\ Instr(c).op # "CallVI" => savePc'[c] = savePc[c]
    BY <1>2, InstructionLeavesWaiters
  <2>3. ASSUME NEW c \in Clump, observing[c] = 2 PROVE savePc'[c] = savePc[c]
    <3>1. Instr(c).op \in WaitingOps
      BY <2>3 DEF SyncInv, WaitInv, WaitersStay, WaiterStays
    <3> QED BY <2>2, <3>1 DEF WaitingOps
  <2> QED BY <2>1, <2>2, <2>3, Undisturbed
<1>3. ASSUME NEW c \in TopVI, HostStarts(c) PROVE AllRepaid'
  BY <1>1, <1>3 DEF HostStarts, PressGo, waitVars, objectVars
<1>4. ASSUME Tick PROVE AllRepaid'
  <2>1. Listed(timers') = Listed(timers)
    BY <1>4, TickedTimers DEF SyncInv, Listed
  <2> QED BY <1>1, <1>4, <2>1 DEF Tick, schedVars, objectVars
<1>5. ASSUME CheckTimers, UNCHANGED << prog, savePc >> PROVE AllRepaid'
  <2>1. Listed(timers') \subseteq Listed(timers)
    BY <1>5, DueTimers
  <2> QED BY <1>1, <1>5, <2>1 DEF CheckTimers, objectVars
<1>6. ASSUME ExecuteSlicesWithTimers \/ EndBurstWithTimers PROVE AllRepaid'
  BY <1>5, <1>6 DEF ExecuteSlicesWithTimers, EndBurstWithTimers, EnterSlices, LeaveBurst
<1>7. ASSUME UNCHANGED vars PROVE AllRepaid'
  BY <1>1, <1>7 DEF vars, schedVars, syncVars, waitVars, objectVars
<1> QED BY <1>2, <1>3, <1>4, <1>6, <1>7

-----------------------------------------------------------------------------
(* The theorem.                                                             *)

LEMMA ProgramStays == SyncInv /\ [SyncNext]_vars => prog' = prog
<1> SUFFICES ASSUME SyncInv, [SyncNext]_vars PROVE prog' = prog
  OBVIOUS
<1>1. CASE SyncNext
  <2>1. ClumpInstruction => prog' = prog
    BY InstructionLeavesWaiters
  <2> QED BY <1>1, <2>1
      DEF SyncNext, SyncInstruction, WaitTicks, WaitMultiple, WaitUntil, WaitOn, SetInstruction,
          WaitOnOccurrence, OccurrenceEnds, Enqueue, LossyEnqueue, Dequeue, PeekQueue,
          FlushQueue, WaitOnQueue, GiveUpOnQueue, Suspend, Continue, ReturnToLoop, Tick,
          HostStarts, PressGo, HostSets, ExecuteSlicesWithTimers, EnterSlices,
          EndBurstWithTimers, LeaveBurst, schedVars
<1>2. CASE UNCHANGED vars
  BY <1>2 DEF vars, schedVars
<1> QED BY <1>1, <1>2

AccountInv == SyncInv /\ (NoPeeks => AllRepaid)

LEMMA NextKeepsAccounts == AccountInv /\ [SyncNext]_vars => AccountInv'
<1> SUFFICES ASSUME AccountInv, [SyncNext]_vars PROVE AccountInv'
  OBVIOUS
<1>1. SyncInv /\ SyncInv'
  BY NextKeepsSyncInv DEF AccountInv
<1>2. prog' = prog
  BY <1>1, ProgramStays DEF AccountInv
<1>3. ASSUME NoPeeks PROVE AllRepaid'
  <2>1. AllRepaid
    BY <1>3 DEF AccountInv
  <2>2. CASE SyncInstruction
    BY <1>1, <1>3, <2>1, <2>2, OthersKeepAccounts, TimeKeepsAccounts, SetKeepsAccounts,
       WaitsKeepAccounts, EndsKeepAccounts, AddKeepsAccounts, DequeueKeepsAccounts,
       FlushKeepsAccounts DEF SyncInstruction
  <2>3. CASE SyncNext /\ ~ SyncInstruction
    BY <1>1, <2>1, <2>3, OthersKeepAccounts, SetKeepsAccounts DEF SyncNext
  <2>4. CASE UNCHANGED vars
    BY <1>1, <2>1, <2>4, OthersKeepAccounts
  <2> QED BY <2>2, <2>3, <2>4
<1>4. NoPeeks' <=> NoPeeks
  BY <1>2 DEF NoPeeks
<1> QED BY <1>1, <1>3, <1>4 DEF AccountInv

LEMMA InitAccounts == SyncInit => AccountInv
<1> SUFFICES ASSUME SyncInit PROVE AccountInv
  OBVIOUS
<1>1. SyncInv
  BY InitSyncInv
<1>2. ASSUME NEW q \in Queue, NEW op PROVE Asleep(q, op) = {}
  <2>1. \A c \in Clump : observing[c] = 0
    BY DEF SyncInit
  <2>2. \A c \in Listed(observers[q]) : c \in Clump /\ observing[c] = 2
    BY <1>1, AsleepObserves
  <2> QED BY <2>1, <2>2 DEF Asleep
<1>3. AllRepaid
  BY <1>2 DEF AllRepaid, Repaid
<1> QED BY <1>1, <1>3 DEF AccountInv

(***************************************************************************)
(* No wakeup of a queue is lost, for any number of clumps and queues, any  *)
(* bounds and timeouts and any program without PeekQueue: while a clump    *)
(* sleeps on Dequeue every element has a clump that was woken for it, and  *)
(* while one sleeps on Enqueue every free place has one (Enqueue, Dequeue, *)
(* FlushQueue and HandleQueueReschedule in Synchronization.cpp wake one    *)
(* waiter for each change and let a retry find the queue as it is).        *)
(***************************************************************************)
THEOREM NoWakeupLost == SyncSpec => [](NoPeeks => NoLostWakeup)
<1>1. AccountInv => (NoPeeks => NoLostWakeup)
  BY RepaidMeansNoneLost DEF AccountInv
<1> QED BY <1>1, InitAccounts, NextKeepsAccounts, PTL DEF SyncSpec
-----------------------------------------------------------------------------
(* Waiting for ever.  A Dequeue with a negative timeout gives up only when  *)
(* it is retried and finds the queue empty: another clump has then taken    *)
(* the element it was woken for.  If nobody else takes from its queue, the  *)
(* element is there.                                                        *)

\* No other clump dequeues or flushes what a clump waits for without a timeout.
SoleTakers ==
  \A c, d \in Clump : \A i \in 1 .. Len(prog[c]) : \A j \in 1 .. Len(prog[d]) :
    /\ prog[c][i].op = "Dequeue" /\ prog[c][i].timeout < 0
    /\ c # d /\ prog[d][j].op \in {"Dequeue", "FlushQueue"}
    => prog[c][i].arg # prog[d][j].arg

TakesForever(c) == observing[c] = 2 /\ Instr(c).op = "Dequeue" /\ Instr(c).timeout < 0

\* Its timer does not expire.
Endless(e) == TakesForever(e.clump) => e.left = Forever

\* Once woken, it finds an element.
Supplied(c) == TakesForever(c) /\ c \notin Listed(timers) => count[Instr(c).arg] > 0

Served == (\A e \in Elements(timers) : Endless(e)) /\ (\A c \in Clump : Supplied(c))

ServedInv == SyncInv /\ (SoleTakers => Served)

LEMMA TakenQueue ==
  ASSUME SyncInv, NEW c \in Clump, TakesForever(c)
  PROVE  /\ Instr(c).arg \in Queue /\ count[Instr(c).arg] \in Nat
         /\ prog[c][savePc[c]] = Instr(c) /\ savePc[c] \in 1 .. Len(prog[c])
<1>1. Instr(c).arg \in Queue /\ savePc[c] \in 1 .. Len(prog[c])
  BY Operands DEF SyncInv, TakesForever, QueueOps
<1> QED BY <1>1, ObjectFacts DEF SyncInv, Instr

\* What another clump dequeues or flushes is not its queue.
LEMMA AloneThere ==
  ASSUME SyncInv, SoleTakers, NEW c \in Clump, TakesForever(c), running \in Clump, c # running,
         Instr(running).op \in {"Dequeue", "FlushQueue"}
  PROVE  Instr(c).arg # Operand
<1>1. prog[c][savePc[c]] = Instr(c) /\ savePc[c] \in 1 .. Len(prog[c])
  BY TakenQueue
<1>2. savePc[running] \in 1 .. Len(prog[running])
  BY Operands DEF SyncInv
<1> QED BY <1>1, <1>2 DEF SoleTakers, TakesForever, Instr, Operand

\* Who is on a list of observers and waits for an element waits for it there.
LEMMA WokenTaker ==
  ASSUME SyncInv, NEW x \in Object, NEW info, NEW c \in Elements(Matching(x, info)), TakesForever(c)
  PROVE  x \in Queue /\ info = DequeueInfo /\ Instr(c).arg = x
<1>1. /\ c \in Clump /\ Instr(c).arg = x
      /\ x \in Queue => info = IF Instr(c).op = "Enqueue" THEN EnqueueInfo ELSE DequeueInfo
  BY MatchingWaits
<1>2. Instr(c).arg \in Queue
  BY <1>1, TakenQueue
<1> QED BY <1>1, <1>2 DEF TakesForever

\* Others are woken, or the running clump ends its wait: those who are woken find
\* an element, and nobody loses one.
LEMMA WakeServes ==
  ASSUME SyncInv, SyncInv', Served, OnlyRunningMoves,
         NEW clumps \in Seq(Clump), running \notin Elements(clumps),
         NEW done, done \in {{}, {running}},
         running \in Clump /\ observing[running] = 2 => running \in done,
         Wake(clumps, done),
         \A c \in Elements(clumps) : TakesForever(c) => count'[Instr(c).arg] > 0,
         \A c \in Clump : c # running /\ TakesForever(c) => count'[Instr(c).arg] >= count[Instr(c).arg]
  PROVE  Served'
<1> USE EntriesNameClumps
<1> DEFINE gone == Elements(clumps) \cup done
<1>1. timers \in Seq(TimerEntry) /\ observing \in [Clump -> {0, 2}] /\ Elements(clumps) \subseteq Clump
  BY ElementsType DEF SyncInv, WaitTypeOK
<1>2. /\ timers' = Without(timers, gone)
      /\ \A c \in Clump : observing'[c] = IF c \in done THEN 0 ELSE observing[c]
  BY DEF Wake, TimersLeft
<1> HIDE DEF gone
<1>3. /\ Elements(timers') = {e \in Elements(timers) : e.clump \notin gone}
      /\ Listed(timers') = Listed(timers) \ gone
  BY <1>1, <1>2, WithoutList
<1>4. ASSUME NEW c \in Clump, TakesForever(c)'
      PROVE  TakesForever(c) /\ c # running /\ c \notin done /\ Instr(c)' = Instr(c)
  <2>1. observing[c] = 2 /\ c \notin done
    BY <1>2, <1>4 DEF TakesForever
  <2>2. c # running
    BY <2>1
  <2>3. Instr(c)' = Instr(c)
    BY <2>2, OthersKeepInstr DEF OnlyRunningMoves
  <2> QED BY <1>4, <2>1, <2>2, <2>3 DEF TakesForever
<1>5. ASSUME NEW e \in Elements(timers') PROVE Endless(e)'
  <2>1. e \in Elements(timers) /\ e.clump \in Clump
    BY <1>1, <1>3, EntryClump
  <2> QED BY <1>4, <2>1 DEF Endless, Served
<1>6. ASSUME NEW c \in Clump PROVE Supplied(c)'
  <2> SUFFICES ASSUME TakesForever(c)', c \notin Listed(timers') PROVE count'[Instr(c)'.arg] > 0
    BY DEF Supplied
  <2>1. TakesForever(c) /\ c # running /\ c \notin done /\ Instr(c)' = Instr(c)
    BY <1>4
  <2>2. CASE c \in Elements(clumps)
    BY <2>1, <2>2
  <2>3. CASE c \notin Elements(clumps)
    <3>1. c \notin Listed(timers)
      BY <1>3, <2>1, <2>3 DEF gone
    <3>2. count[Instr(c).arg] > 0 /\ count'[Instr(c).arg] >= count[Instr(c).arg]
      BY <2>1, <3>1 DEF Served, Supplied
    <3>3. count[Instr(c).arg] \in Nat /\ count'[Instr(c)'.arg] \in Nat
      BY <2>1, TakenQueue, ObjectFacts DEF SyncInv, ObjectTypeOK
    <3> QED BY <2>1, <3>2, <3>3
  <2> QED BY <2>2, <2>3
<1> QED BY <1>5, <1>6 DEF Served
\* An occurrence wakes nobody who waits for an element.
LEMMA SetServes ==
  SyncInv /\ SyncInv' /\ Served /\ (SetInstruction \/ \E o \in Occurrence : HostSets(o)) => Served'
<1> SUFFICES ASSUME SyncInv, SyncInv', Served, SetInstruction \/ \E o \in Occurrence : HostSets(o)
             PROVE  Served'
  OBVIOUS
<1>1. ASSUME NEW o \in Occurrence, SetOccurrence(o), OnlyRunningMoves,
             running \in Clump => Instr(running).op \notin WaitingOps
      PROVE  Served'
  <2> DEFINE clumps == Matching(o, setCount[o] + 1)
  <2>1. o \in Object /\ o \notin Queue /\ clumps \in Seq(Clump) /\ Elements(clumps) \subseteq Clump
    BY MatchingClumps, ObjectAssumption, ElementsType DEF SyncInv, WaitInv, Object
  <2>2. running \notin Elements(clumps)
    BY <1>1, <2>1, MatchingWaits
  <2>3. Wake(clumps, {}) /\ count' = count
    BY <1>1 DEF SetOccurrence
  <2>4. running \in Clump => observing[running] # 2
    BY <1>1, NotWaiting
  <2>5. \A c \in Elements(clumps) : ~ TakesForever(c)
    BY <2>1, WokenTaker
  <2>6. \A c \in Clump : TakesForever(c) => count'[Instr(c).arg] >= count[Instr(c).arg]
    <3> SUFFICES ASSUME NEW c \in Clump, TakesForever(c) PROVE count'[Instr(c).arg] >= count[Instr(c).arg]
      OBVIOUS
    <3> QED BY <2>3, TakenQueue
  <2> HIDE DEF clumps
  <2> QED BY <1>1, <2>1, <2>2, <2>3, <2>4, <2>5, <2>6, WakeServes
<1>2. CASE SetInstruction
  <2>1. running \in Clump /\ Instr(running).op = "SetOccurrence" /\ Sched!IInv
    BY <1>2, Running DEF SetInstruction, SyncInv
  <2>2. Operand \in Occurrence
    BY <2>1, Operands DEF Operand, OccurrenceOps
  <2>3. OnlyRunningMoves /\ SetOccurrence(Operand)
    BY <1>2, <2>1, Continues DEF SetInstruction
  <2> QED BY <1>1, <2>1, <2>2, <2>3 DEF WaitingOps
<1>3. CASE \E o \in Occurrence : HostSets(o)
  <2>1. PICK o \in Occurrence : HostSets(o)
    BY <1>3
  <2>2. /\ Sched!IInv /\ running \notin Clump
        /\ savePc \in [Clump -> Nat \ {0}]
        /\ \A c \in Clump : savePc[c] \in 1 .. Len(prog[c])
    BY <2>1, SchedulerFacts, Operands, ClumpAssumption DEF SyncInv, HostSets
  <2>3. OnlyRunningMoves /\ SetOccurrence(o)
    BY <2>1, <2>2 DEF HostSets, OnlyRunningMoves
  <2> QED BY <1>1, <2>2, <2>3
<1> QED BY <1>2, <1>3

\* A wait ends and the queues stay as they are.
LEMMA EndServes ==
  SyncInv /\ SyncInv' /\ Served /\ (OccurrenceEnds \/ PeekQueue \/ GiveUpOnQueue) => Served'
<1> SUFFICES ASSUME SyncInv, SyncInv', Served, OccurrenceEnds \/ PeekQueue \/ GiveUpOnQueue
             PROVE  Served'
  OBVIOUS
<1>1. running \in Clump /\ Instr(running).op \in WaitingOps
  <2>1. CASE GiveUpOnQueue
    BY <2>1, BlockedOps DEF GiveUpOnQueue, WaitingOps
  <2>2. CASE OccurrenceEnds \/ PeekQueue
    BY <2>2, Running DEF OccurrenceEnds, PeekQueue, SyncInv, WaitingOps
  <2> QED BY <2>1, <2>2
<1>2. Continue /\ ClearObservationStates /\ count' = count
  BY DEF OccurrenceEnds, PeekQueue, GiveUpOnQueue, objectVars
<1>3. OnlyRunningMoves
  BY <1>1, <1>2, Continues DEF SyncInv, WaitingOps
<1> DEFINE nobody == << >>
<1>4. /\ Wake(nobody, {running}) /\ nobody \in Seq(Clump)
      /\ Elements(nobody) = {} /\ running \notin Elements(nobody)
  BY <1>2, EmptyElements DEF ClearObservationStates
<1> HIDE DEF nobody
<1>5. ASSUME NEW c \in Clump, TakesForever(c) PROVE count'[Instr(c).arg] >= count[Instr(c).arg]
  BY <1>2, <1>5, TakenQueue
<1> QED BY <1>3, <1>4, <1>5, WakeServes

\* Who adds an element wakes a clump that finds it.
LEMMA AddServes ==
  SyncInv /\ SyncInv' /\ Served /\ (Enqueue \/ LossyEnqueue) => Served'
<1> SUFFICES ASSUME SyncInv, SyncInv', Served, Enqueue \/ LossyEnqueue PROVE Served'
  OBVIOUS
<1>1. PICK op \in {"Enqueue", "LossyEnqueue"} : Executes(op)
  BY DEF Enqueue, LossyEnqueue
<1>2. /\ running \in Clump /\ Instr(running).op = op /\ Sched!IInv
      /\ Operand \in Queue /\ Instr(running).arg = Operand
      /\ count[Operand] \in Nat
  BY <1>1, TheQueue DEF QueueOps
<1>3. PICK x \in Queue : x = Operand
  BY <1>2
<1>4. Continue /\ Wake(FirstMatching(x, DequeueInfo), {running})
  BY <1>3 DEF Enqueue, LossyEnqueue
<1>5. OnlyRunningMoves
  BY <1>1, <1>2, <1>4, Continues
<1>6. /\ Add(x) \/ (count' = count /\ count[x] > 0)
      /\ count \in [Queue -> Nat]
  BY <1>2, <1>3, ObjectFacts DEF Enqueue, LossyEnqueue, Executes, SyncInv
<1>7. count'[x] > 0 /\ \A q \in Queue : count'[q] >= count[q]
  <2>1. \A q \in Queue : count[q] \in Nat
    BY <1>6
  <2>2. CASE Add(x)
    <3>1. count' = [count EXCEPT ![x] = count[x] + 1]
      BY <2>2 DEF Add
    <3>2. \A q \in Queue : count'[q] = IF q = x THEN count[q] + 1 ELSE count[q]
      BY <1>6, <3>1
    <3> QED BY <2>1, <3>2
  <2>3. CASE count' = count /\ count[x] > 0
    BY <2>1, <2>3
  <2> QED BY <1>6, <2>2, <2>3
<1> DEFINE clumps == FirstMatching(x, DequeueInfo)
<1>8. /\ x \in Object /\ clumps \in Seq(Clump) /\ Elements(clumps) \subseteq Clump
      /\ Elements(clumps) \subseteq Elements(Matching(x, DequeueInfo))
  BY FirstMatchingClumps, ElementsType DEF SyncInv, WaitInv, Object
<1>9. running \notin Elements(clumps)
  <2> SUFFICES ASSUME running \in Elements(Matching(x, DequeueInfo)) PROVE FALSE
    BY <1>8
  <2>1. Instr(running).op \in WaitingOps /\ Instr(running).op # "Enqueue"
    BY <1>8, MatchingWaits DEF EnqueueInfo, DequeueInfo
  <2> QED BY <1>2, <2>1 DEF WaitingOps
<1>10. Wake(clumps, {running})
  BY <1>4
<1> HIDE DEF clumps
<1>11. \A c \in Elements(clumps) : TakesForever(c) => count'[Instr(c).arg] > 0
  BY <1>7, <1>8, WokenTaker
<1>12. \A c \in Clump : TakesForever(c) => count'[Instr(c).arg] >= count[Instr(c).arg]
  BY <1>7, TakenQueue
<1> QED BY <1>5, <1>8, <1>9, <1>10, <1>11, <1>12, WakeServes

\* Who takes elements takes none that another waits for.
LEMMA TakeServes ==
  SyncInv /\ SyncInv' /\ SoleTakers /\ Served /\ (Dequeue \/ FlushQueue) => Served'
<1> SUFFICES ASSUME SyncInv, SyncInv', SoleTakers, Served, Dequeue \/ FlushQueue PROVE Served'
  OBVIOUS
<1>1. PICK op \in {"Dequeue", "FlushQueue"} : Executes(op)
  BY DEF Dequeue, FlushQueue
<1>2. /\ running \in Clump /\ Instr(running).op = op /\ Sched!IInv
      /\ Operand \in Queue /\ Instr(running).arg = Operand
      /\ count[Operand] \in Nat
  BY <1>1, TheQueue DEF QueueOps
<1>3. PICK x \in Queue : x = Operand
  BY <1>2
<1>4. /\ Continue
      /\ \E n \in Nat : count' = [count EXCEPT ![x] = n]
      /\ \/ Dequeue /\ Wake(FirstMatching(x, EnqueueInfo), {running})
         \/ /\ FlushQueue
            /\ \E n \in 0 .. Len(Matching(x, EnqueueInfo)) : Wake(SubSeq(Matching(x, EnqueueInfo), 1, n), {})
  <2>1. CASE Dequeue
    <3>1. /\ Continue /\ Wake(FirstMatching(x, EnqueueInfo), {running}) /\ count[x] > 0
          /\ count' = [count EXCEPT ![x] = count[x] - 1]
      BY <1>3, <2>1 DEF Dequeue
    <3>2. count[x] - 1 \in Nat
      BY <1>2, <1>3, <3>1
    <3> QED BY <2>1, <3>1, <3>2
  <2>2. CASE FlushQueue
    <3> DEFINE m == Matching(x, EnqueueInfo)
               n == IF count[x] < Len(m) THEN count[x] ELSE Len(m)
    <3>1. m \in Seq(Clump)
      BY MatchingClumps DEF SyncInv, WaitInv, Object
    <3>2. Continue /\ Wake(SubSeq(m, 1, n), {}) /\ count' = [count EXCEPT ![x] = 0]
      BY <1>3, <2>2 DEF FlushQueue
    <3> HIDE DEF m
    <3>3. n \in 0 .. Len(m)
      BY <1>2, <1>3, <3>1
    <3> QED BY <2>2, <3>2, <3>3 DEF m
  <2> QED BY <2>1, <2>2
<1>5. OnlyRunningMoves
  BY <1>1, <1>2, <1>4, Continues
<1>6. \A q \in Queue \ {x} : count'[q] = count[q]
  <2>1. count \in [Queue -> Nat]
    BY ObjectFacts DEF SyncInv
  <2> QED BY <1>4, <2>1
<1>7. ASSUME NEW c \in Clump, c # running, TakesForever(c)
      PROVE  count'[Instr(c).arg] >= count[Instr(c).arg]
  <2>1. Instr(c).arg # x
    BY <1>1, <1>2, <1>3, <1>7, AloneThere
  <2> QED BY <1>6, <1>7, <2>1, TakenQueue
<1>8. ASSUME NEW clumps \in Seq(Clump), Elements(clumps) \subseteq Elements(Matching(x, EnqueueInfo)),
             NEW done, done \in {{}, {running}}, observing[running] = 2 => running \in done,
             Wake(clumps, done)
      PROVE  Served'
  <2>1. x \in Object /\ Elements(clumps) \subseteq Clump
    BY <1>8, ElementsType DEF Object
  <2>2. running \notin Elements(clumps)
    <3> SUFFICES ASSUME running \in Elements(Matching(x, EnqueueInfo)) PROVE FALSE
      BY <1>8
    <3>1. Instr(running).op = "Enqueue"
      BY <2>1, MatchingWaits DEF EnqueueInfo, DequeueInfo
    <3> QED BY <1>1, <1>2, <3>1
  <2>3. \A c \in Elements(clumps) : ~ TakesForever(c)
    BY <1>8, <2>1, WokenTaker DEF EnqueueInfo, DequeueInfo
  <2> QED BY <1>5, <1>7, <1>8, <2>2, <2>3, WakeServes
<1>9. CASE Dequeue /\ Wake(FirstMatching(x, EnqueueInfo), {running})
  <2>1. /\ FirstMatching(x, EnqueueInfo) \in Seq(Clump)
        /\ Elements(FirstMatching(x, EnqueueInfo)) \subseteq Elements(Matching(x, EnqueueInfo))
    BY FirstMatchingClumps DEF SyncInv, WaitInv, Object
  <2> QED BY <1>8, <1>9, <2>1
<1>10. ASSUME FlushQueue, NEW n \in 0 .. Len(Matching(x, EnqueueInfo)),
              Wake(SubSeq(Matching(x, EnqueueInfo), 1, n), {})
       PROVE  Served'
  <2> DEFINE m == Matching(x, EnqueueInfo)
             clumps == SubSeq(m, 1, n)
  <2>1. m \in Seq(Clump)
    BY MatchingClumps DEF SyncInv, WaitInv, Object
  <2>2. clumps \in Seq(Clump) /\ Elements(clumps) \subseteq Elements(m)
    <3> HIDE DEF m
    <3> QED BY <1>10, <2>1, FirstClumps DEF m
  <2>3. Instr(running).op = "FlushQueue"
    BY <1>10, Running DEF FlushQueue, SyncInv
  <2>4. observing[running] # 2
    BY <1>2, <2>3, NotWaiting DEF WaitingOps
  <2>5. Wake(clumps, {})
    BY <1>10
  <2> HIDE DEF clumps
  <2> QED BY <1>8, <2>2, <2>4, <2>5
<1> QED BY <1>4, <1>9, <1>10
\* Nobody who waits moves, is disturbed by its timer or loses an element.
LEMMA QuietServes ==
  ASSUME SyncInv, SyncInv', Served, UNCHANGED << prog, observing, count >>,
         \A c \in Clump : observing[c] = 2 => savePc'[c] = savePc[c],
         \A e \in Elements(timers') :
           observing[e.clump] = 2 =>
             \E f \in Elements(timers) : f.clump = e.clump /\ (f.left = Forever => e.left = Forever),
         \A c \in Clump : TakesForever(c) /\ c \in Listed(timers) => c \in Listed(timers')
  PROVE  Served'
<1>1. ASSUME NEW c \in Clump PROVE (TakesForever(c)' <=> TakesForever(c)) /\ (TakesForever(c) => Instr(c)' = Instr(c))
  <2>1. observing[c] = 2 => Instr(c)' = Instr(c)
    BY OthersKeepInstr
  <2> QED BY <2>1 DEF TakesForever
<1>2. ASSUME NEW e \in Elements(timers') PROVE Endless(e)'
  <2>1. e.clump \in Clump
    BY EntryClump, EntriesNameClumps DEF SyncInv, WaitTypeOK
  <2> QED BY <1>1, <2>1 DEF Endless, Served, TakesForever
<1>3. ASSUME NEW c \in Clump PROVE Supplied(c)'
  BY <1>1 DEF Supplied, Served
<1> QED BY <1>2, <1>3 DEF Served

\* Who goes to wait for an element without a timeout sets a timer that never expires.
LEMMA WaitServes ==
  ASSUME SyncInv, SyncInv', Served, running \in Clump,
         NEW x, NEW info, NEW left \in 0 .. Forever,
         WaitOn(x, info, left), count' = count,
         Instr(running).op = "Dequeue" /\ Instr(running).timeout < 0 => left = Forever
  PROVE  Served'
<1>1. /\ observing' = [observing EXCEPT ![running] = 2] /\ observing \in [Clump -> {0, 2}]
      /\ timers' = InsertTimer(running, left) /\ timers \in Seq(TimerEntry)
      /\ prog' = prog /\ savePc' = savePc
  BY DEF WaitOn, Suspend, ReturnToLoop, SyncInv, WaitTypeOK
<1>2. \A c : Instr(c)' = Instr(c)
  BY <1>1, OthersKeepInstr
<1>3. /\ Elements(timers') = Elements(timers) \cup {[clump |-> running, left |-> left]}
      /\ Listed(timers') = Listed(timers) \cup {running}
  BY <1>1, InsertedTimer
<1>4. \A c \in Clump : c # running => (TakesForever(c)' <=> TakesForever(c))
  BY <1>1, <1>2 DEF TakesForever
<1>5. running \notin Listed(timers)
  BY RunningHasNoTimer
<1>6. ASSUME NEW e \in Elements(timers') PROVE Endless(e)'
  <2>1. CASE e \in Elements(timers)
    <3>1. e.clump \in Clump /\ e.clump \in Listed(timers)
      BY <1>1, <2>1, EntryClump, EntriesNameClumps
    <3> QED BY <1>4, <1>5, <2>1, <3>1 DEF Endless, Served
  <2>2. CASE e = [clump |-> running, left |-> left]
    <3>1. e.clump = running /\ e.left = left
      BY <2>2
    <3> QED BY <1>2, <3>1 DEF Endless, TakesForever
  <2> QED BY <1>3, <2>1, <2>2
<1>7. ASSUME NEW c \in Clump PROVE Supplied(c)'
  BY <1>2, <1>3, <1>4 DEF Supplied, Served
<1> QED BY <1>6, <1>7 DEF Served

LEMMA WaitsServe ==
  SyncInv /\ SyncInv' /\ Served /\ (WaitOnQueue \/ WaitOnOccurrence) => Served'
<1> SUFFICES ASSUME SyncInv, SyncInv', Served, WaitOnQueue \/ WaitOnOccurrence PROVE Served'
  OBVIOUS
<1>1. CASE WaitOnQueue
  <2>1. PICK info \in {EnqueueInfo, DequeueInfo} :
          /\ Blocked(info) /\ WaitOn(Operand, info, QueueTimeout)
    BY <1>1 DEF WaitOnQueue
  <2>2. /\ running \in Clump /\ Instr(running).op \in {"Enqueue", "Dequeue", "PeekQueue"}
    BY <2>1, BlockedOps
  <2>3. Instr(running).timeout \in Int /\ Instr(running).timeout < Forever
    BY <2>2, Operands DEF SyncInv
  <2>4. QueueTimeout \in 0 .. Forever /\ (Instr(running).timeout < 0 => QueueTimeout = Forever)
    BY <2>3, ForeverType DEF QueueTimeout
  <2>5. count' = count
    BY <1>1 DEF WaitOnQueue, objectVars
  <2> QED BY <2>1, <2>2, <2>4, <2>5, WaitServes
<1>2. CASE WaitOnOccurrence
  <2>1. running \in Clump /\ Instr(running).op = "WaitOnOccurrence" /\ Sched!IInv
    BY <1>2, Running DEF WaitOnOccurrence, SyncInv
  <2>2. OccurrenceTimeout \in 0 .. Forever
    BY <2>1, Operands, ForeverType DEF OccurrenceTimeout
  <2>3. WaitOn(Operand, setCount[Operand] + 1, OccurrenceTimeout) /\ count' = count
    BY <1>2 DEF WaitOnOccurrence, objectVars
  <2> QED BY <2>1, <2>2, <2>3, WaitServes
<1> QED BY <1>1, <1>2

LEMMA TimeServes ==
  SyncInv /\ SyncInv' /\ Served /\ (WaitTicks \/ WaitMultiple) => Served'
<1> SUFFICES ASSUME SyncInv, SyncInv', Served, WaitTicks \/ WaitMultiple PROVE Served'
  OBVIOUS
<1>1. PICK op \in TimerOps : Executes(op)
  BY DEF WaitTicks, WaitMultiple, TimerOps
<1>2. running \in Clump /\ Instr(running).op = op /\ savePc \in [Clump -> Nat \ {0}]
  BY <1>1, Running, SchedulerFacts DEF SyncInv
<1>3. Instr(running).timeout \in 0 .. Forever - 1
  BY <1>2, Operands DEF SyncInv
<1>4. observing[running] # 2 /\ count' = count
  BY <1>2, NotWaiting DEF WaitingOps, TimerOps, WaitTicks, WaitMultiple, objectVars
<1>5. ASSUME NEW left \in 0 .. Forever, WaitUntil(left)
      PROVE  Served'
  <2>1. /\ UNCHANGED << prog, observing >>
        /\ savePc' = [savePc EXCEPT ![running] = @ + 1]
        /\ timers' = InsertTimer(running, left)
    BY <1>5 DEF WaitUntil, Suspend, ReturnToLoop
  <2>2. /\ Elements(timers') = Elements(timers) \cup {[clump |-> running, left |-> left]}
        /\ Listed(timers') = Listed(timers) \cup {running}
    BY <1>2, <2>1, InsertedTimer DEF SyncInv, WaitTypeOK
  <2>3. \A c \in Clump : observing[c] = 2 => savePc'[c] = savePc[c]
    BY <1>2, <1>4, <2>1
  <2>4. \A e \in Elements(timers') : observing[e.clump] = 2 => e \in Elements(timers)
    BY <1>4, <2>2
  <2> QED BY <1>4, <2>1, <2>2, <2>3, <2>4, QuietServes
<1>6. CASE \E left \in 0 .. Forever : WaitUntil(left)
  BY <1>5, <1>6
<1>7. CASE Continue /\ UNCHANGED waitVars
  <2>1. /\ UNCHANGED << prog, observing, timers >>
        /\ savePc' = [savePc EXCEPT ![running] = @ + 1]
    BY <1>7 DEF Continue, ReturnToLoop, waitVars
  <2>2. \A c \in Clump : observing[c] = 2 => savePc'[c] = savePc[c]
    BY <1>2, <1>4, <2>1
  <2> QED BY <1>4, <2>1, <2>2, QuietServes
<1>8. \A left \in 1 .. Instr(running).timeout : left \in 0 .. Forever
  BY <1>3, ForeverType
<1>9. Instr(running).timeout \in 0 .. Forever
  BY <1>3, ForeverType
<1> QED BY <1>6, <1>7, <1>8, <1>9 DEF WaitTicks, WaitMultiple

\* The scheduler, the host and the clock.
LEMMA OthersServe ==
  SyncInv /\ SyncInv' /\ Served
    /\ (\/ ClumpInstruction /\ UNCHANGED syncVars
        \/ \E c \in TopVI : HostStarts(c)
        \/ Tick
        \/ ExecuteSlicesWithTimers
        \/ EndBurstWithTimers
        \/ UNCHANGED vars)
    => Served'
<1> SUFFICES ASSUME SyncInv, SyncInv', Served PROVE
      (\/ ClumpInstruction /\ UNCHANGED syncVars
       \/ \E c \in TopVI : HostStarts(c)
       \/ Tick
       \/ ExecuteSlicesWithTimers
       \/ EndBurstWithTimers
       \/ UNCHANGED vars) => Served'
  OBVIOUS
<1>1. ASSUME UNCHANGED << prog, savePc, timers, observing, count >> PROVE Served'
  BY <1>1, QuietServes
<1>2. ASSUME ClumpInstruction, UNCHANGED syncVars PROVE Served'
  <2>1. UNCHANGED << timers, observing, count >>
    BY <1>2 DEF syncVars, waitVars, objectVars
  <2>2. /\ prog' = prog /\ running \in Clump /\ Instr(running).op \notin WaitingOps
        /\ \A c \in Clump : c # running /\ Instr(c).op # "CallVI" => savePc'[c] = savePc[c]
    BY <1>2, InstructionLeavesWaiters
  <2>3. ASSUME NEW c \in Clump, observing[c] = 2 PROVE savePc'[c] = savePc[c]
    <3>1. Instr(c).op \in WaitingOps
      BY <2>3 DEF SyncInv, WaitInv, WaitersStay, WaiterStays
    <3> QED BY <2>2, <3>1 DEF WaitingOps
  <2> QED BY <2>1, <2>2, <2>3, QuietServes
<1>3. ASSUME NEW c \in TopVI, HostStarts(c) PROVE Served'
  BY <1>1, <1>3 DEF HostStarts, PressGo, waitVars, objectVars
<1>4. ASSUME Tick PROVE Served'
  <2>1. UNCHANGED << prog, savePc, observing, count >>
    BY <1>4 DEF Tick, schedVars, objectVars
  <2>2. /\ timers' \in Seq(TimerEntry) /\ Len(timers') = Len(timers)
        /\ Listed(timers') = Listed(timers)
        /\ \A i \in 1 .. Len(timers) :
             timers'[i].clump = timers[i].clump /\ (timers[i].left = Forever => timers'[i].left = Forever)
    BY <1>4, TickedTimers DEF SyncInv, Listed
  <2>3. ASSUME NEW e \in Elements(timers')
        PROVE  \E f \in Elements(timers) : f.clump = e.clump /\ (f.left = Forever => e.left = Forever)
    <3>1. PICK i \in 1 .. Len(timers) : e = timers'[i]
      BY <2>2 DEF Elements
    <3>2. timers[i] \in Elements(timers)
      BY DEF Elements
    <3> QED BY <2>2, <3>1, <3>2
  <2> QED BY <2>1, <2>2, <2>3, QuietServes
<1>5. ASSUME CheckTimers, UNCHANGED << prog, savePc >> PROVE Served'
  <2>1. /\ Elements(timers') \subseteq Elements(timers)
        /\ Listed(timers) = Elements(ClumpsOf(Due)) \cup Listed(timers')
        /\ \A c \in Elements(ClumpsOf(Due)) : \E e \in Elements(timers) : e.clump = c /\ e.left < 1
    BY <1>5, DueTimers
  <2>2. UNCHANGED << observing, count >>
    BY <1>5 DEF CheckTimers, objectVars
  <2>3. ASSUME NEW c \in Clump, TakesForever(c), c \in Listed(timers) PROVE c \in Listed(timers')
    <3> SUFFICES ASSUME c \in Elements(ClumpsOf(Due)) PROVE FALSE
      BY <2>1, <2>3
    <3>1. PICK e \in Elements(timers) : e.clump = c /\ e.left < 1
      BY <2>1
    <3>2. e.left = Forever
      BY <2>3, <3>1 DEF Served, Endless
    <3> QED BY <3>1, <3>2, ForeverType
  <2> QED BY <1>5, <2>1, <2>2, <2>3, QuietServes
<1>6. ASSUME ExecuteSlicesWithTimers \/ EndBurstWithTimers PROVE Served'
  BY <1>5, <1>6 DEF ExecuteSlicesWithTimers, EndBurstWithTimers, EnterSlices, LeaveBurst
<1>7. ASSUME UNCHANGED vars PROVE Served'
  BY <1>1, <1>7 DEF vars, schedVars, syncVars, waitVars, objectVars
<1> QED BY <1>2, <1>3, <1>4, <1>6, <1>7
LEMMA NextServes == ServedInv /\ [SyncNext]_vars => ServedInv'
<1> SUFFICES ASSUME ServedInv, [SyncNext]_vars PROVE ServedInv'
  OBVIOUS
<1>1. SyncInv /\ SyncInv'
  BY NextKeepsSyncInv DEF ServedInv
<1>2. SoleTakers' <=> SoleTakers
  BY <1>1, ProgramStays DEF SoleTakers
<1>3. ASSUME SoleTakers PROVE Served'
  <2>1. Served
    BY <1>3 DEF ServedInv
  <2>2. CASE SyncInstruction
    BY <1>1, <1>3, <2>1, <2>2, OthersServe, TimeServes, SetServes, WaitsServe, EndServes,
       AddServes, TakeServes DEF SyncInstruction
  <2>3. CASE SyncNext /\ ~ SyncInstruction
    BY <1>1, <2>1, <2>3, OthersServe, SetServes DEF SyncNext
  <2>4. CASE UNCHANGED vars
    BY <1>1, <2>1, <2>4, OthersServe
  <2> QED BY <2>2, <2>3, <2>4
<1> QED BY <1>1, <1>2, <1>3 DEF ServedInv

LEMMA InitServed == SyncInit => ServedInv
<1> SUFFICES ASSUME SyncInit PROVE ServedInv
  OBVIOUS
<1>1. SyncInv
  BY InitSyncInv
<1>2. \A c \in Clump : ~ TakesForever(c)
  BY DEF SyncInit, TakesForever
<1>3. Elements(timers) = {}
  BY EmptyElements DEF SyncInit
<1> QED BY <1>1, <1>2, <1>3 DEF ServedInv, Served, Supplied

\* Only two actions move a clump past a Dequeue.
LEMMA PassingDequeue ==
  ASSUME SyncInv, SyncNext, Passes("Dequeue")
  PROVE  Dequeue \/ GiveUpOnQueue
<1>1. running \in Clump /\ Instr(running).op = "Dequeue" /\ savePc'[running] # savePc[running]
  BY SchedulerFacts DEF Passes, SyncInv
<1>2. \A op : Executes(op) => op = "Dequeue"
  BY <1>1 DEF Executes
<1>3. ~ ClumpInstruction
  BY <1>1, InstructionLeavesWaiters DEF WaitingOps
<1>4. savePc' # savePc
  BY <1>1
<1>5. ~ WaitOnQueue
  BY <1>4 DEF WaitOnQueue, WaitOn, Suspend, ReturnToLoop
<1>6. /\ ~ WaitTicks /\ ~ WaitMultiple /\ ~ SetInstruction /\ ~ WaitOnOccurrence /\ ~ OccurrenceEnds
      /\ ~ Enqueue /\ ~ LossyEnqueue /\ ~ PeekQueue /\ ~ FlushQueue
  BY <1>2 DEF WaitTicks, WaitMultiple, SetInstruction, WaitOnOccurrence, OccurrenceEnds,
              Enqueue, LossyEnqueue, PeekQueue, FlushQueue
<1>7. /\ ~ Tick /\ (\A c \in TopVI : ~ HostStarts(c)) /\ (\A o \in Occurrence : ~ HostSets(o))
      /\ ~ ExecuteSlicesWithTimers /\ ~ EndBurstWithTimers
  BY <1>4 DEF Tick, schedVars, HostStarts, PressGo, HostSets, ExecuteSlicesWithTimers, EnterSlices,
              EndBurstWithTimers, LeaveBurst
<1> QED BY <1>3, <1>5, <1>6, <1>7 DEF SyncNext, SyncInstruction

\* The step of a clump past a Dequeue without a timeout takes an element.
LEMMA TakesAnElement ==
  ASSUME ServedInv, SoleTakers, SyncNext, Passes("Dequeue"), Instr(running).timeout < 0
  PROVE  count'[Operand] = count[Operand] - 1
<1>1. SyncInv /\ Served /\ (Dequeue \/ GiveUpOnQueue)
  BY PassingDequeue DEF ServedInv
<1>2. running \in Clump /\ Instr(running).op = "Dequeue" /\ Operand \in Queue
  <2>1. running \in Clump /\ Instr(running).op = "Dequeue"
    BY <1>1, SchedulerFacts DEF Passes, SyncInv
  <2> QED BY <1>1, <2>1, Operands DEF Operand, QueueOps, SyncInv
<1>3. CASE Dequeue
  <2>1. count' = [count EXCEPT ![Operand] = count[Operand] - 1] /\ count \in [Queue -> Nat]
    BY <1>1, <1>3, ObjectFacts DEF Dequeue, SyncInv
  <2> QED BY <1>2, <2>1
<1>4. CASE GiveUpOnQueue
  <2>1. count[Operand] = 0
    BY <1>2, <1>4 DEF GiveUpOnQueue, Blocked, Executes
  <2>2. observing[running] # 0 /\ running \notin Listed(timers)
    BY <1>4 DEF GiveUpOnQueue
  <2>3. observing[running] = 2
    BY <1>1, <1>2, <2>2 DEF SyncInv, WaitTypeOK
  <2>4. count[Operand] > 0
    BY <1>1, <1>2, <2>2, <2>3 DEF Served, Supplied, TakesForever, Operand
  <2> QED BY <2>1, <2>4
<1> QED BY <1>1, <1>3, <1>4

(***************************************************************************)
(* A Dequeue with a negative timeout goes on only with an element          *)
(* (HandleQueueReschedule: "-1 will wait forever"), in any program in      *)
(* which no other clump dequeues or flushes its queue: whoever wakes the   *)
(* clump has just added an element, its timer never wakes it, and the      *)
(* element stays until the clump is retried.  With a second clump that     *)
(* takes from the queue this is false.                                     *)
(***************************************************************************)
THEOREM SoleTakersWaitForever == SyncSpec /\ []SoleTakers => ForeverWaits
<1>1. ServedInv /\ SoleTakers /\ [SyncNext]_vars =>
        [Passes("Dequeue") /\ Instr(running).timeout < 0 =>
           count'[Operand] = count[Operand] - 1]_vars
  BY TakesAnElement
<1> QED BY <1>1, InitServed, NextServes, PTL DEF SyncSpec, ForeverWaits
=============================================================================
