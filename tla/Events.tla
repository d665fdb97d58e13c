------------------------------- MODULE Events -------------------------------
(***************************************************************************)
(* Event structures (source/core/Events.cpp): event queues, the static and *)
(* dynamic registrations that fill them, and the instruction               *)
(* WaitForEventsAndDispatch, which sleeps on the occurrence of its         *)
(* structure and then hands out the oldest event of its queues.            *)
(*                                                                         *)
(* An event structure is the clump that executes it, again and again while *)
(* its VI runs; the other clumps of the VI register, generate and destroy  *)
(* at any moment.  Of the scheduler the module keeps whether that clump is *)
(* asleep on its observation states, and whether it is in the run queue    *)
(* because one of them has gone off.  Refnums are values that are never    *)
(* given out twice (RefNumStorage says when that is so).                   *)
(*                                                                         *)
(* What a program does with events is data: which registrations are wired  *)
(* to which structure, what is registered, and which instructions occur.   *)
(***************************************************************************)
EXTENDS Integers, Sequences, FiniteSets, FiniteSetsExt, SequencesExt, Lists

CONSTANTS
  VI,           \* the loaded VIs, in the order of their loading
  Structure,    \* the event structures, in the order of the Events cluster
  NoStructure,  \* no occurrence to fire
  Owner,        \* Owner[s]: the VI of structure s
  RegVar,       \* the variables that hold event registration refnums
  UserEvent,    \* the user event refnums, in the order of their creation
  ControlRef,   \* the control refnums of the static event specs
  ControlUID,   \* ControlUID[r]: the number behind control refnum r
  JSRef,        \* static JavaScript refnums
  Programs,     \* the programs considered
  FirstSeq,     \* the sequence number of the first event
  SeqNumbers,   \* how many sequence numbers there are (2^32 in the code)
  MaxBehind     \* bound: how far the count of a structure is kept ahead of its occurrence

UIEvents == {"ValueChange", "MouseDown"}
EventType == UIEvents \cup {"UserEvent"}

\* kNotAQueueID, kAppEventOracleIdx, and 0 as "no refnum".
NoQueue == 0
AppIndex == 0
NoRef == 0

\* How a program passes refnums to one item of RegisterForEvents.
Kinds == {"scalar", "array", "cluster"}

(***************************************************************************)
(* A program.  For each structure: wired, the registrations wired to it;   *)
(* specs, its event specs (the type, the control refnum or NoRef, the      *)
(* dynamic index or 0); timed, what its timeout may be when it goes to     *)
(* sleep, finite (TRUE) or not: the terminal is read at each execution.    *)
(* For each registration: kinds, the kinds of its items; inputs, what is   *)
(* passed to RegisterForEvents, for each item the refnums in it; by, the   *)
(* VI that does it.  Of VIs: makes, those that create user events; starts  *)
(* and ends, those that do.  And tasks, the instructions and host calls    *)
(* that occur; two bounds, on the events generated (one for each queue)    *)
(* and on the registers, the registration refnums given out.  There are    *)
(* far more sequence numbers than events at any time.                      *)
(***************************************************************************)
ASSUME EventsAssumption ==
  /\ NoStructure \notin ToSet(Structure)
  /\ VI \in Seq(ToSet(VI)) /\ Structure \in Seq(ToSet(Structure))
  /\ Owner \in [ToSet(Structure) -> ToSet(VI)]
  /\ UserEvent \in Seq(Nat) /\ ControlRef \cup JSRef \subseteq Nat /\ ControlUID \in [ControlRef -> Nat]
  /\ SeqNumbers \in Nat /\ FirstSeq \in 0 .. SeqNumbers - 1 /\ MaxBehind \in Nat
  /\ \A p \in Programs :
       /\ p.wired \in [ToSet(Structure) -> Seq(RegVar)]
       /\ p.specs \in [ToSet(Structure) -> Seq([type : EventType, ref : Nat, dyn : Nat])]
       /\ p.timed \in [ToSet(Structure) -> SUBSET BOOLEAN \ {{}}]
       /\ p.kinds \in [RegVar -> Seq(Kinds)]
       /\ \A x \in RegVar : \A input \in p.inputs[x] :
            /\ input \in Seq(Seq(Nat)) /\ Len(input) = Len(p.kinds[x])
            /\ \A k \in DOMAIN input : p.kinds[x][k] = "scalar" => Len(input[k]) <= 1
       /\ p.events \in Nat /\ p.events < SeqNumbers \div 2 /\ p.events <= MaxBehind

VARIABLES
  prog,     \* the program
  running,  \* running[v]: VI v has been started and not finished
  es,       \* EventStructInfo of each structure and the state of its clump
  specs,    \* the event specs of each structure, which ConfigureEventSpecJSRef changes
  queue,    \* EventOracle::_qObject: events, wakeUp, active
  bucket,   \* EventOracle::_eventReg: uid, ref, and the lists of registrations
  info,     \* controlIDInfoMap of each VI: from refnums to bucket and uid
  regVar,   \* the registration refnum each variable holds
  regs,     \* the registration refnums given out: DynamicEventRegInfo, and whether valid
  userRefs, \* the valid user event refnums
  created,  \* history: user event refnums created so far
  cleanup,  \* the cleanup records of each VI that concern events
  count,    \* _s_eventSequenceNumber, without the wrap
  listening, \* the host's view: control events registered with JavaScript
  handled   \* the case and the event data node of each structure, until it waits again

eventVars == << prog, running, es, specs, queue, bucket, info, regVar, regs, userRefs,
                created, cleanup, count, listening, handled >>

Structures == ToSet(Structure)
StructuresOf(v) == Chosen(Structure, {s \in Structures : Owner[s] = v})

-----------------------------------------------------------------------------
(* Registration.  The oracle is the pair of the queues and the buckets; a   *)
(* bucket lists, for each type of event, who listens: a queue and the       *)
(* refnum it listens to.                                                    *)

NoLists == [t \in EventType |-> << >>]
NewQueue == [events |-> << >>, wakeUp |-> NoStructure, active |-> TRUE]

\* Mutated: a refnum is listed once, whoever listens to it.
InsertedOnce(b, t, entry) ==
  IF \E e \in ToSet(b.lists[t]) : e.ref = entry.ref THEN b
  ELSE [b EXCEPT !.lists[t] = Append(@, entry)]

\* EventListInsert: nothing is listed twice.
Inserted(b, t, entry) ==
  IF entry \in ToSet(b.lists[t]) THEN b ELSE [b EXCEPT !.lists[t] = Append(@, entry)]

\* EventListRemove.
Removed(b, t, entry) == [b EXCEPT !.lists[t] = Chosen(@, ToSet(@) \ {entry})]

\* The bucket RegisterForEvent finds for a control: the first that is not in use
\* or is the control's own, or a new one.
IndexFor(bs, uid) ==
  LET usable == {i \in DOMAIN bs \ {AppIndex} : bs[i].lists = NoLists \/ bs[i].uid = uid}
  IN  IF usable = {} THEN Cardinality(DOMAIN bs)
      ELSE CHOOSE i \in usable : \A k \in usable : i <= k

Extended(f, i, x) == [k \in DOMAIN f \cup {i} |-> IF k = i THEN x ELSE f[k]]

\* The buckets with one that has the control's number and latest refnum at i.
WithControl(bs, i, uid, ref) ==
  Extended(bs, i, [uid |-> uid, ref |-> ref,
                   lists |-> IF i \in DOMAIN bs THEN bs[i].lists ELSE NoLists])

\* Mutated: a new queue is numbered after it has been counted.
FreeQueueAfter(qs) ==
  LET free == {q \in DOMAIN qs \ {NoQueue} : ~ qs[q].active}
  IN  IF free = {} THEN Cardinality(DOMAIN qs) + 1 ELSE CHOOSE q \in free : TRUE

\* GetNewQueueObject: the first free queue, or a new one; nobody is woken by it.
FreeQueue(qs) ==
  LET free == {q \in DOMAIN qs \ {NoQueue} : ~ qs[q].active}
  IN  IF free = {} THEN Cardinality(DOMAIN qs) ELSE CHOOSE q \in free : \A r \in free : q <= r

WithNewQueue(qs, q) ==
  Extended(qs, q, IF q \in DOMAIN qs THEN [qs[q] EXCEPT !.active = TRUE, !.wakeUp = NoStructure]
                  ELSE NewQueue)

(***************************************************************************)
(* What static registration works on: o.bucket, o.queue, o.info, o.es and  *)
(* o.listening, as in the variables of these names.                        *)
(***************************************************************************)

\* RegisterForControlEvent; with callback, JavaScript is told of a combination
\* of control and type that nobody has registered before.
RegisteredControl(o, v, t, q, uid, ref, callback) ==
  LET i == IndexFor(o.bucket, uid)
      bs == WithControl(o.bucket, i, uid, ref)
      isNew == bs[i].lists[t] = << >>
  IN  [o EXCEPT
        !.bucket = [bs EXCEPT ![i] = Inserted(@, t, [q |-> q, ref |-> ref])],
        !.info[v] = IF isNew THEN Extended(@, ref, [index |-> i, uid |-> uid]) ELSE @,
        !.listening = IF isNew /\ callback
                      THEN @ \cup {[vi |-> v, uid |-> uid, type |-> t, index |-> i]} ELSE @]

\* The specs of s, each with its structure.
SpecsOf(ss, s) == [k \in DOMAIN ss[s] |-> [s |-> s, spec |-> ss[s][k]]]

\* One spec, if it names a control.
SpecRegistered(o, i) ==
  IF i.spec.ref \notin ControlRef THEN o
  ELSE RegisteredControl(o, Owner[i.s], i.spec.type, o.es[i.s].q, ControlUID[i.spec.ref],
                         i.spec.ref, TRUE)

\* One structure: a queue of its own, and its specs.
RegisteredStructure(o, s) ==
  LET q == FreeQueue(o.queue)
  IN  FoldLeft(SpecRegistered,
               [o EXCEPT !.queue = WithNewQueue(@, q), !.es[s].q = q, !.es[s].count = 0],
               SpecsOf(prog.specs, s))

\* RegisterForStaticEvents, when the parser has loaded the VI.
RegisterForStaticEvents(o, v) == FoldLeft(RegisteredStructure, o, StructuresOf(v))

Idle == [asleep |-> FALSE, timer |-> FALSE, listed |-> FALSE, ready |-> FALSE,
         q |-> NoQueue, count |-> 0, set |-> 0, late |-> 0]

EmptyOracle ==
  [bucket |-> [i \in {AppIndex} |-> [uid |-> NoRef, ref |-> NoRef, lists |-> NoLists]],
   queue |-> [q \in {NoQueue} |-> [NewQueue EXCEPT !.active = FALSE]],
   info |-> [v \in ToSet(VI) |-> [r \in {} |-> NoRef]],
   es |-> [s \in Structures |-> Idle],
   listening |-> {}]

TimeoutEvent == [type |-> "Timeout", ref |-> NoRef, n |-> 0]
Nothing == [case |-> 0, event |-> TimeoutEvent]

EventsInit ==
  /\ prog \in Programs
  /\ LET o == FoldLeft(RegisterForStaticEvents, EmptyOracle, VI)
     IN  /\ bucket = o.bucket
         /\ queue = o.queue
         /\ info = o.info
         /\ es = o.es
         /\ listening = o.listening
  /\ running = [v \in ToSet(VI) |-> FALSE]
  /\ specs = prog.specs
  /\ regVar = [x \in RegVar |-> 0]
  /\ regs = << >>
  /\ userRefs = {}
  /\ created = 0
  /\ cleanup = [v \in ToSet(VI) |-> {}]
  /\ count = 0
  /\ handled = [s \in Structures |-> Nothing]

-----------------------------------------------------------------------------
(* Generating events.                                                       *)

Has(task) == task \in prog.tasks

Valid(r) == r \in DOMAIN regs /\ regs[r].valid

\* Mutated: whoever is listed is taken off the list only.
FiredQuietly(e, k) ==
  IF k > 0 /\ e.listed THEN [e EXCEPT !.set = @ + k, !.listed = FALSE, !.timer = FALSE]
  ELSE [e EXCEPT !.set = @ + k]

\* SetOccurrence k times: whoever is listed is woken, and his timer stopped.
Fired(e, k) ==
  IF k > 0 /\ e.listed
  THEN [e EXCEPT !.set = @ + k, !.listed = FALSE, !.timer = FALSE, !.ready = TRUE]
  ELSE [e EXCEPT !.set = @ + k]

\* The assertion of VIClumpQueue::Enqueue: a structure whose timer has gone off
\* is in the run queue, and still listed.
MayFire(k) == \A s \in Structures : k[s] > 0 /\ es[s].listed => ~ es[s].ready

\* The queues that EventOracle::OccurEvent finds, in their order.
Listening(i, t, ref) ==
  LET listed == bucket[i].lists[t]
      matching == Chosen(listed, {e \in ToSet(listed) : e.ref = ref})
  IN  [k \in DOMAIN matching |-> matching[k].q]

\* The queues qs with p.event at the end of p.q.
Posted(qs, p) == [qs EXCEPT ![p.q].events = Append(@, p.event)]

\* EventOracle::OccurEvent and EventQueueObject::OccurEvent: each queue gets an
\* event of its own, with a number of its own, and fires its occurrence.
Broadcast(i, t, ref) ==
  LET qs == Listening(i, t, ref)
      posts == [k \in DOMAIN qs |-> [q |-> qs[k], event |-> [type |-> t, ref |-> ref, n |-> count + k]]]
      fires == [s \in Structures |-> Quantify(DOMAIN qs, LAMBDA k : queue[qs[k]].wakeUp = s)]
  IN  /\ count + Len(qs) <= prog.events
      /\ MayFire(fires)
      /\ queue' = FoldLeft(Posted, queue, posts)
      /\ count' = count + Len(qs)
      /\ es' = [s \in Structures |-> Fired(es[s], fires[s])]

\* GenerateUserEvent, by any clump of a running VI.
GenerateUserEvent(u) ==
  /\ Has("generate") /\ \E v \in DOMAIN running : running[v]
  /\ u \in userRefs
  /\ Broadcast(AppIndex, "UserEvent", u)
  /\ UNCHANGED << prog, running, specs, bucket, info, regVar, regs, userRefs, created, cleanup,
                  listening, handled >>

\* controlIDInfoMap[ref], which makes an entry where there is none.
WithInfo(v, ref) ==
  IF ref \in DOMAIN info[v] THEN info[v] ELSE Extended(info[v], ref, [index |-> AppIndex, uid |-> NoRef])

\* _OccurEvent: a clump fires a control event itself.
OccurControlEvent(v, ref, t) ==
  /\ Has("occur") /\ running[v]
  /\ Broadcast(WithInfo(v, ref)[ref].index, t, ref)
  /\ info' = [info EXCEPT ![v] = WithInfo(v, ref)]
  /\ UNCHANGED << prog, running, specs, bucket, regVar, regs, userRefs, created, cleanup,
                  listening, handled >>

\* OccurEvent, called by the host for a control event that it was told to listen to.
HostOccursEvent(l) ==
  /\ Has("host")
  /\ l.index # AppIndex /\ bucket[l.index].uid = l.uid
  /\ Broadcast(l.index, l.type, bucket[l.index].ref)
  /\ UNCHANGED << prog, running, specs, bucket, info, regVar, regs, userRefs, created, cleanup,
                  listening, handled >>

-----------------------------------------------------------------------------
(* User events and dynamic registration.                                    *)

CreateUserEvent(v) ==
  /\ running[v] /\ v \in prog.makes /\ created < Len(UserEvent)
  /\ created' = created + 1
  /\ userRefs' = userRefs \cup {UserEvent[created + 1]}
  /\ cleanup' = [cleanup EXCEPT ![v] = @ \cup {[kind |-> "user", ref |-> UserEvent[created + 1]]}]
  /\ UNCHANGED << prog, running, es, specs, queue, bucket, info, regVar, regs, count,
                  listening, handled >>

DestroyUserEvent(u) ==
  /\ Has("destroy") /\ \E v \in DOMAIN running : running[v]
  /\ u \in userRefs
  /\ userRefs' = userRefs \ {u}
  /\ UNCHANGED << prog, running, es, specs, queue, bucket, info, regVar, regs, created, cleanup,
                  count, listening, handled >>

\* The refnums that may be passed to RegisterForEvents: those created so far.
Known(refs) == ToSet(refs) \subseteq {UserEvent[k] : k \in 1 .. created} \cup {NoRef}

\* The application's bucket after a queue has been listed with a refnum.
Listed(b, entry) == IF entry.ref = NoRef THEN b ELSE Inserted(b, "UserEvent", entry)

\* The same after RegisterForEventsCore has gone through one item: the queue
\* listens to each refnum of it.
ItemRegistered(b, i) ==
  FoldLeft(Listed, b, [j \in DOMAIN i.refs |-> [q |-> i.q, ref |-> i.refs[j]]])

\* RegisterForEvents with a refnum that is not valid: a queue and a refnum of its
\* own, which the VI is to dispose when it finishes.
RegisterForEvents(v, x, input) ==
  LET q == FreeQueue(queue)
      r == Len(regs) + 1
      entries == [k \in DOMAIN input |-> [kind |-> prog.kinds[x][k], refs |-> input[k]]]
  IN  /\ running[v] /\ v = prog.by[x] /\ ~ Valid(regVar[x])
      /\ r <= prog.registers
      /\ \A k \in DOMAIN input : Known(input[k]) /\ input[k] # << >>
      /\ queue' = WithNewQueue(queue, q)
      /\ regs' = Append(regs, [valid |-> TRUE, q |-> q, entries |-> entries,
                               born |-> count, replaced |-> {}])
      /\ regVar' = [regVar EXCEPT ![x] = r]
      /\ cleanup' = [cleanup EXCEPT ![v] = @ \cup {[kind |-> "reg", ref |-> r]}]
      /\ bucket' = [bucket EXCEPT ![AppIndex] =
                      FoldLeft(ItemRegistered, @, [k \in DOMAIN input |-> [q |-> q, refs |-> input[k]]])]
      /\ UNCHANGED << prog, running, es, specs, info, userRefs, created, count, listening, handled >>

\* One item of a re-registration, number i.k: the queue stops listening to the
\* item's old refnum, whatever its other items say, and listens to the new one.
ItemReregistered(acc, i) ==
  LET old == acc.entries[i.k].refs[1]
      new == i.refs[1]
      without == Removed(acc.b, "UserEvent", [q |-> i.q, ref |-> old])
  IN  IF i.refs = << >> \/ new = old THEN acc
      ELSE [b |-> Listed(without, [q |-> i.q, ref |-> new]),
            entries |-> [acc.entries EXCEPT ![i.k].refs = << new >>],
            replaced |-> acc.replaced \cup {old}]

\* RegisterForEvents with a valid refnum, all of whose items are scalar (what
\* happens to arrays and clusters is undefined); << >> is the wildcard.
ReregisterForEvents(v, x, input) ==
  LET r == regVar[x]
      after == FoldLeft(ItemReregistered,
                 [b |-> bucket[AppIndex], entries |-> regs[r].entries, replaced |-> regs[r].replaced],
                 [k \in DOMAIN input |-> [q |-> regs[r].q, k |-> k, refs |-> input[k]]])
  IN  /\ Has("reregister") /\ running[v] /\ v = prog.by[x] /\ Valid(r)
      /\ \A k \in DOMAIN input : prog.kinds[x][k] = "scalar" /\ Known(input[k])
      /\ bucket' = [bucket EXCEPT ![AppIndex] = after.b]
      /\ regs' = [regs EXCEPT ![r].entries = after.entries, ![r].replaced = after.replaced]
      /\ cleanup' = [cleanup EXCEPT ![v] = @ \cup {[kind |-> "reg", ref |-> r]}]
      /\ UNCHANGED << prog, running, es, specs, queue, info, regVar, userRefs, created, count,
                      listening, handled >>

Disposed == [valid |-> FALSE, q |-> NoQueue, entries |-> << >>, born |-> 0, replaced |-> {}]

\* DeleteEventQueue: its events are discarded; who is woken by it stays noted.
DeletedQueue(qq) == [events |-> << >>, wakeUp |-> qq.wakeUp, active |-> FALSE]

\* Mutated: only the first item is taken off the list.
UnregisteredFirst(o, r) ==
  LET gone == [q |-> o.regs[r].q, ref |-> o.regs[r].entries[1].refs[1]]
  IN  IF ~ o.regs[r].valid THEN o
      ELSE [queue |-> [o.queue EXCEPT ![o.regs[r].q] = DeletedQueue(@)],
            b |-> Removed(o.b, "UserEvent", gone),
            regs |-> [o.regs EXCEPT ![r] = Disposed]]

\* UnregisterForEventsAux; o has the queues, the application's bucket and the
\* registrations.  Of an item that is no scalar the code reads the address of
\* the copied data as a refnum, which nobody is listed with.
Unregistered(o, r) ==
  LET gone == {[q |-> o.regs[r].q, ref |-> e.refs[1]] :
                 e \in {f \in ToSet(o.regs[r].entries) : f.kind = "scalar"}}
  IN  IF ~ o.regs[r].valid THEN o
      ELSE [queue |-> [o.queue EXCEPT ![o.regs[r].q] = DeletedQueue(@)],
            b |-> [o.b EXCEPT !.lists["UserEvent"] = Chosen(@, ToSet(@) \ gone)],
            regs |-> [o.regs EXCEPT ![r] = Disposed]]

UnregisterForEvents(x) ==
  LET o == Unregistered([queue |-> queue, b |-> bucket[AppIndex], regs |-> regs], regVar[x])
  IN  /\ Has("unregister") /\ \E v \in DOMAIN running : running[v]
      /\ Valid(regVar[x])
      /\ queue' = o.queue
      /\ bucket' = [bucket EXCEPT ![AppIndex] = o.b]
      /\ regs' = o.regs
      /\ UNCHANGED << prog, running, es, specs, info, regVar, userRefs, created, cleanup, count,
                      listening, handled >>

-----------------------------------------------------------------------------
(* WaitForEventsAndDispatch.                                                *)

\* The valid registrations wired to s, in their order.
WiredRegs(s) ==
  Chosen([k \in DOMAIN prog.wired[s] |-> regVar[prog.wired[s][k]]], {r \in DOMAIN regs : regs[r].valid})

\* The queues s observes, its own first.
ObservedQueues(s) ==
  (IF es[s].q = NoQueue THEN << >> ELSE << es[s].q >>)
    \o [k \in DOMAIN WiredRegs(s) |-> regs[WiredRegs(s)[k]].q]

\* Mutated: the occurrence is not fired for what is in a queue already.
MissedNone(s) == 0

\* SetObserver: the occurrence is fired for what is in a queue already.
Missed(s) ==
  LET unobserved == {q \in ToSet(ObservedQueues(s)) : queue[q].wakeUp # s}
  IN  SumFunctionOnSet([q \in DOMAIN queue |-> Len(queue[q].events)], unobserved)

Observed(qq, s) ==
  LET mine == ToSet(ObservedQueues(s))
  IN  [q \in DOMAIN qq |-> IF q \in mine THEN [qq[q] EXCEPT !.wakeUp = s] ELSE qq[q]]

HasOccurred(s) == es[s].set + Missed(s) > es[s].count

\* Nothing has happened since: the structure goes to sleep, with the timeout that
\* its terminal has now.  (A timeout of -1 is read as 2^32 - 1 ms, and is no timer here.)
SleepForEvents(s) ==
  /\ running[Owner[s]] /\ ~ es[s].asleep
  /\ ~ HasOccurred(s)
  /\ \E timed \in prog.timed[s] :
       es' = [es EXCEPT ![s] = [Fired(@, Missed(s)) EXCEPT
                !.asleep = TRUE, !.listed = TRUE, !.timer = timed]]
  /\ queue' = Observed(queue, s)
  /\ handled' = [handled EXCEPT ![s] = Nothing]
  /\ UNCHANGED << prog, running, specs, bucket, info, regVar, regs, userRefs, created, cleanup,
                  count, listening >>

\* An event's number as it is stored.
SeqNumber(n) == (FirstSeq + n) % SeqNumbers

\* Mutated: the numbers are compared as they are.
IsSmaller(m, n) == SeqNumber(m) < SeqNumber(n)

\* EventTimeSeqCompare: the difference, read as a signed number, is negative.
IsEarlier(m, n) == (SeqNumber(m) - SeqNumber(n)) % SeqNumbers >= SeqNumbers \div 2

\* Mutated: each registration counts as one item.
RegistrationsBefore(s, k) == k

\* The items of the first k registrations wired to s that are valid: by so many
\* their numbers are below those of the next.
ItemsBefore(s, k) ==
  SumFunctionOnSet([i \in 1 .. k |-> Len(regs[WiredRegs(s)[i]].entries)], 1 .. k)

\* The queues that hold something: the structure's own, then those of its valid
\* registrations.
Offers(s) ==
  LET own == IF es[s].q = NoQueue THEN << >> ELSE << [q |-> es[s].q, reg |-> 0, base |-> 0] >>
      dynamic == [k \in DOMAIN WiredRegs(s) |->
                    LET r == WiredRegs(s)[k]
                    IN  [q |-> regs[r].q, reg |-> r, base |-> ItemsBefore(s, k - 1)]]
      observed == own \o dynamic
  IN  Chosen(observed, {o \in ToSet(observed) : queue[o.q].events # << >>})

\* GetPendingEventInfo: the first of them whose event is the earliest.
Pending(offers) ==
  LET n(k) == Head(queue[offers[k].q].events).n
      earliest == CHOOSE k \in DOMAIN offers :
                    \A i \in DOMAIN offers \ {k} :
                      IF i < k THEN IsEarlier(n(k), n(i)) ELSE ~ IsEarlier(n(i), n(k))
  IN  offers[earliest]

\* How far DynamicEventMatch counts for an item that does not match.  A cluster
\* counts for itself, for each of its elements, and once more at its end.
ItemWidth(e) == IF e.kind = "cluster" THEN Len(e.refs) + 2 ELSE 1

PlaceIn(e, ref) ==
  IF e.kind = "cluster" THEN CHOOSE j \in DOMAIN e.refs :
                               e.refs[j] = ref /\ \A i \in 1 .. j - 1 : e.refs[i] # ref
  ELSE 0

\* DynamicEventMatch: the index of the first item with this refnum, or 0.
DynamicEventMatch(entries, ref) ==
  LET holding == {k \in DOMAIN entries : ref \in ToSet(entries[k].refs)}
      first == CHOOSE k \in holding : \A i \in holding : k <= i
  IN  IF holding = {} THEN 0
      ELSE 1 + SumFunctionOnSet([k \in DOMAIN entries |-> ItemWidth(entries[k])], 1 .. first - 1)
             + PlaceIn(entries[first], ref)

EventMatch(event, spec, dyn) ==
  event.type = spec.type /\ spec.ref \in {NoRef, event.ref} /\ spec.dyn = dyn

\* The first case that matches, or 0.
CaseFor(s, event, dyn) ==
  LET matching == {k \in DOMAIN specs[s] : EventMatch(event, specs[s][k], dyn)}
  IN  IF matching = {} THEN 0 ELSE CHOOSE k \in matching : \A i \in matching : k <= i

\* After a timeout s is still listed; if it now observes a queue that holds
\* something, it enqueues itself while it runs.  The scheduler is not made for
\* that, and the model ends there.
EnqueuesItself(s) == es[s].listed /\ es[s].ready /\ Missed(s) > 0

\* GetEventData, also of queue 0, which is asked where no other holds anything.
EventOf(q) == IF queue[q].events = << >> THEN TimeoutEvent ELSE Head(queue[q].events)

\* Something has happened, or a sleeping structure has been woken: it takes the
\* earliest event, or a timeout where there is none, and goes to its case.  It
\* counts one more in any case; late is how often it did so for nothing.
Dispatch(s) ==
  LET set == es[s].set + Missed(s)
      o == IF Offers(s) = << >> THEN [q |-> NoQueue, reg |-> 0, base |-> 0] ELSE Pending(Offers(s))
      event == EventOf(o.q)
      dyn == IF o.reg = 0 THEN 0 ELSE o.base + DynamicEventMatch(regs[o.reg].entries, event.ref)
      counted == Min({es[s].count + 1, set + MaxBehind})
      inVain == ~ HasOccurred(s) /\ o.q = NoQueue /\ counted > es[s].count
  IN  /\ running[Owner[s]]
      /\ IF es[s].asleep THEN es[s].ready ELSE HasOccurred(s)
      /\ ~ EnqueuesItself(s)
      /\ es' = [es EXCEPT ![s] = [@ EXCEPT !.set = set, !.count = counted,
                                           !.late = es[s].late + (IF inVain THEN 1 ELSE 0),
                                           !.asleep = FALSE, !.timer = FALSE, !.listed = FALSE,
                                           !.ready = FALSE]]
      /\ queue' = [Observed(queue, s) EXCEPT ![o.q].events = IF @ = << >> THEN @ ELSE Tail(@)]
      /\ handled' = [handled EXCEPT ![s] = [case |-> CaseFor(s, event, dyn), event |-> event]]
      /\ UNCHANGED << prog, running, specs, bucket, info, regVar, regs, userRefs, created, cleanup,
                      count, listening >>

\* CheckTimers: the timeout has passed; the structure stays on the list of its
\* occurrence.
TimerExpires(s) ==
  /\ es[s].timer
  /\ es' = [es EXCEPT ![s].timer = FALSE, ![s].ready = TRUE]
  /\ UNCHANGED << prog, running, specs, queue, bucket, info, regVar, regs, userRefs, created,
                  cleanup, count, listening, handled >>

-----------------------------------------------------------------------------
(* JavaScript references, and the life of a VI.                             *)

\* ConfigureEventSpecJSRef: the spec, so far with the number of a control, gets
\* the JavaScript refnum through which the program knows that control.
ConfigureEventSpecJSRef(s, k, j) ==
  LET v == Owner[s]
      uid == specs[s][k].ref
      o == RegisteredControl([bucket |-> bucket, info |-> info, listening |-> listening],
             v, specs[s][k].type, es[s].q, uid, j, FALSE)
  IN  /\ Has("configure") /\ running[v]
      /\ uid \notin JSRef \cup ControlRef \cup {NoRef}
      /\ specs' = [specs EXCEPT ![s][k].ref = j]
      /\ bucket' = o.bucket
      /\ info' = o.info
      /\ UNCHANGED << prog, running, es, queue, regVar, regs, userRefs, created, cleanup, count,
                      listening, handled >>

\* RegisterForJSEvent: JavaScript is told to listen to the control behind j.
RegisterForJSEvent(v, j, t) ==
  /\ Has("configure") /\ running[v]
  /\ info' = [info EXCEPT ![v] = WithInfo(v, j)]
  /\ listening' = listening \cup
       {[vi |-> v, uid |-> info'[v][j].uid, type |-> t, index |-> info'[v][j].index]}
  /\ UNCHANGED << prog, running, es, specs, queue, bucket, regVar, regs, userRefs, created, cleanup,
                  count, handled >>

\* PressGo; what was registered when the VI was loaded is not registered again.
StartVI(v) ==
  /\ v \in prog.starts /\ ~ running[v]
  /\ running' = [running EXCEPT ![v] = TRUE]
  /\ UNCHANGED << prog, es, specs, queue, bucket, info, regVar, regs, userRefs, created, cleanup,
                  count, listening, handled >>

\* One spec of UnregisterForStaticEvents: the entry of the map goes with the
\* first spec that has the refnum.
SpecUnregistered(o, i) ==
  LET v == Owner[i.s]
      ref == i.spec.ref
      known == o.info[v][ref]
  IN  IF ref \notin DOMAIN o.info[v] THEN o
      ELSE [bucket |-> [o.bucket EXCEPT ![known.index] =
                          Removed(@, i.spec.type, [q |-> es[i.s].q, ref |-> ref])],
            info |-> [o.info EXCEPT ![v] = Restrict(@, DOMAIN @ \ {ref})],
            listening |-> o.listening \ {[vi |-> v, uid |-> known.uid, type |-> i.spec.type,
                                          index |-> known.index]}]

StructureUnregistered(o, s) == FoldLeft(SpecUnregistered, o, SpecsOf(specs, s))

\* GoIsDone: UnregisterForStaticEvents, then the cleanup of user events and of
\* registrations.
FinishVI(v) ==
  LET static == FoldLeft(StructureUnregistered,
                  [bucket |-> bucket, info |-> info, listening |-> listening], StructuresOf(v))
      mine == {c.ref : c \in {d \in cleanup[v] : d.kind = "reg"}}
      o == FoldLeft(Unregistered,
                    [queue |-> queue, b |-> static.bucket[AppIndex], regs |-> regs], SetToSeq(mine))
  IN  /\ running[v] /\ v \in prog.ends
      /\ \A s \in ToSet(StructuresOf(v)) : ~ es[s].asleep
      /\ running' = [running EXCEPT ![v] = FALSE]
      /\ bucket' = [static.bucket EXCEPT ![AppIndex] = o.b]
      /\ info' = static.info
      /\ listening' = static.listening
      /\ queue' = o.queue
      /\ regs' = o.regs
      /\ userRefs' = userRefs \ {c.ref : c \in {d \in cleanup[v] : d.kind = "user"}}
      /\ cleanup' = [cleanup EXCEPT ![v] = {}]
      /\ es' = [s \in Structures |->
                  IF Owner[s] = v THEN [es[s] EXCEPT !.q = NoQueue, !.count = 0, !.late = 0] ELSE es[s]]
      /\ UNCHANGED << prog, specs, regVar, created, count, handled >>

-----------------------------------------------------------------------------
StructureStep(s) == SleepForEvents(s) \/ Dispatch(s) \/ TimerExpires(s)

UserEventStep ==
  \/ \E v \in ToSet(VI) : CreateUserEvent(v)
  \/ \E u \in ToSet(UserEvent) : GenerateUserEvent(u) \/ DestroyUserEvent(u)

RegistrationStep ==
  \E x \in RegVar :
    \/ UnregisterForEvents(x)
    \/ \E v \in ToSet(VI), input \in prog.inputs[x] :
         RegisterForEvents(v, x, input) \/ ReregisterForEvents(v, x, input)

ControlStep ==
  \/ \E l \in listening : HostOccursEvent(l)
  \/ \E v \in ToSet(VI), r \in ControlRef \cup JSRef, t \in UIEvents : OccurControlEvent(v, r, t)
  \/ \E s \in Structures, j \in JSRef :
       \E k \in DOMAIN specs[s] : ConfigureEventSpecJSRef(s, k, j)
  \/ \E v \in ToSet(VI), j \in JSRef, t \in UIEvents : RegisterForJSEvent(v, j, t)

LifeStep == \E v \in ToSet(VI) : StartVI(v) \/ FinishVI(v)

EventsNext ==
  \/ \E s \in Structures : StructureStep(s)
  \/ UserEventStep
  \/ RegistrationStep
  \/ ControlStep
  \/ LifeStep

EventsSpec == EventsInit /\ [][EventsNext]_eventVars

\* A structure's clump has a step to make: it is awake, or in the run queue.
MayRun(s) ==
  /\ running[Owner[s]]
  /\ es[s].asleep => es[s].ready
  /\ ~ EnqueuesItself(s)

\* A structure's clump is executed while its VI runs, and timers expire.  (The
\* first is weak fairness of its two steps; MayRun is when one is enabled.)
FairEventsSpec ==
  /\ EventsSpec
  /\ \A s \in Structures :
       /\ []<>(~ MayRun(s)) \/ []<><< SleepForEvents(s) \/ Dispatch(s) >>_eventVars
       /\ WF_eventVars(TimerExpires(s))

-----------------------------------------------------------------------------
\* Properties.

\* Types of the state; queues are numbered from 0 on, and every queue, bucket and registration that something
\* refers to is there.
EventsTypeOK ==
  /\ DOMAIN queue = 0 .. Cardinality(DOMAIN queue) - 1
  /\ \A s \in Structures : es[s].q \in DOMAIN queue /\ {es[s].count, es[s].set, es[s].late} \subseteq Nat
  /\ \A i \in DOMAIN bucket, t \in EventType : \A e \in ToSet(bucket[i].lists[t]) : e.q \in DOMAIN queue
  /\ \A v \in ToSet(VI) : \A r \in DOMAIN info[v] : info[v][r].index \in DOMAIN bucket
  /\ \A x \in RegVar : regVar[x] \in 0 .. Len(regs)
  /\ \A q \in DOMAIN queue : \A e \in ToSet(queue[q].events) : e.n \in 1 .. count
  /\ count \in 0 .. prog.events

\* The queues that are to wake s, and how many events they hold.
Waking(s) == {q \in ToSet(ObservedQueues(s)) : queue[q].wakeUp = s}
Waiting(s) == SumFunctionOnSet([q \in DOMAIN queue |-> Len(queue[q].events)], Waking(s))

\* A structure sleeps beside no more events, in the queues that are to wake it,
\* than it has gone on without an event before; one that has not sleeps beside
\* none.  The queues set the occurrence once for each event, also for those that
\* were there before the structure first waited for them; the structure counts
\* the events, and every timeout as if it had been one.
NoStrandedEvent ==
  \A s \in Structures : es[s].asleep /\ ~ es[s].ready => Waiting(s) <= es[s].late

DispatchedBy(s) == es'[s].count = es[s].count + 1

\* Events are handled in the order of their generation, across all queues that a
\* structure observes, also when the sequence numbers start over; and the timeout
\* case is for when there is none.
OldestFirst ==
  [][\A s \in Structures : DispatchedBy(s) =>
       \A q \in ToSet(ObservedQueues(s)) : \A e \in ToSet(queue[q].events) :
         handled'[s].event # TimeoutEvent /\ handled'[s].event.n <= e.n]_eventVars

ScalarOnly == \A x \in RegVar : ToSet(prog.kinds[x]) \subseteq {"scalar"}

\* Who is listed for user events is a valid registration with that refnum: what
\* UnregisterForEvents, cleanup and re-registration leave behind would put events
\* into the queue that is given out next.  And a queue that is used again holds no
\* event from before its registration.
NothingStray ==
  ScalarOnly =>
    /\ \A e \in ToSet(bucket[AppIndex].lists["UserEvent"]) :
         \E r \in DOMAIN regs : regs[r].valid /\ regs[r].q = e.q
           /\ \E k \in DOMAIN regs[r].entries : regs[r].entries[k].refs = << e.ref >>
    /\ \A r \in DOMAIN regs : regs[r].valid =>
         \A e \in ToSet(queue[regs[r].q].events) : e.n > regs[r].born

\* A valid registration hears of every refnum it has been registered for, whoever
\* else registers for it and unregisters.  (A re-registration stops listening to a
\* refnum even if another item has it too, so those are left out.)
Heard ==
  \A r \in DOMAIN regs : regs[r].valid =>
    \A k \in DOMAIN regs[r].entries : \A u \in ToSet(regs[r].entries[k].refs) \ {NoRef} :
      u \notin regs[r].replaced =>
        [q |-> regs[r].q, ref |-> u] \in ToSet(bucket[AppIndex].lists["UserEvent"])

\* The number of the item, over all registrations wired to s, that holds ref.
ItemNumber(s, r, ref) ==
  LET before == {k \in DOMAIN prog.wired[s] :
                   \A i \in 1 .. k : regVar[prog.wired[s][i]] # r}
      item == CHOOSE k \in DOMAIN regs[r].entries :
                /\ ref \in ToSet(regs[r].entries[k].refs)
                /\ \A i \in 1 .. k - 1 : ref \notin ToSet(regs[r].entries[i].refs)
  IN  SumFunctionOnSet([k \in DOMAIN prog.wired[s] |-> Len(prog.kinds[prog.wired[s][k]])], before) + item

\* An event goes to the case made for the item that registered it: the static
\* numbering of all items of all registrations wired to a structure agrees with
\* what the runtime counts from the registrations it finds, if all are valid.
RightCase ==
  [][\A s \in Structures : DispatchedBy(s) /\ handled'[s].case # 0 =>
       \A r \in ToSet(WiredRegs(s)) :
         ( /\ Len(WiredRegs(s)) = Len(prog.wired[s])
           /\ queue'[regs[r].q].events # queue[regs[r].q].events
           /\ \A k \in DOMAIN regs[r].entries : regs[r].entries[k].kind # "cluster"
           /\ DynamicEventMatch(regs[r].entries, handled'[s].event.ref) # 0 )
         => specs[s][handled'[s].case].dyn = ItemNumber(s, r, handled'[s].event.ref)]_eventVars

\* Asleep without a timer, after a timeout that has been counted.
MayOversleep(s) == es[s].asleep /\ ~ es[s].ready /\ ~ es[s].timer /\ es[s].late > 0

\* Every event in the queue of a structure itself is handled while its VI runs,
\* unless the structure enqueues itself, or has timed out before and now waits
\* without a timeout.
QueuedIsHandled ==
  \A s \in Structures :
    running[Owner[s]] /\ es[s].q # NoQueue /\ queue[es[s].q].events # << >>
      ~> \/ ~ running[Owner[s]] \/ queue[es[s].q].events = << >>
         \/ EnqueuesItself(s) \/ MayOversleep(s)

\* JavaScript is told of the end of every combination of control and event that
\* it was told to listen to: when a VI has finished, it listens to none of it.
ListeningEnds ==
  [][\A v \in ToSet(VI) : running[v] /\ ~ running'[v] => \A l \in listening' : l.vi # v]_eventVars

=============================================================================
