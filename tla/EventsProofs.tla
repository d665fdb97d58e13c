---------------------------- MODULE EventsProofs ----------------------------
(***************************************************************************)
(* What holds of event structures for all programs, structures and         *)
(* registrations.                                                          *)
(***************************************************************************)
EXTENDS Events, ListProofs, TLAPS

-----------------------------------------------------------------------------
(* The folds of the module, each as the list of its intermediate results.   *)

Posting == INSTANCE Folding WITH Step <- Posted
Listing == INSTANCE Folding WITH Step <- Listed
Items == INSTANCE Folding WITH Step <- ItemRegistered
Again == INSTANCE Folding WITH Step <- ItemReregistered
Disposal == INSTANCE Folding WITH Step <- Unregistered
Specs == INSTANCE Folding WITH Step <- SpecRegistered
StaticStructures == INSTANCE Folding WITH Step <- RegisteredStructure
StaticVIs == INSTANCE Folding WITH Step <- RegisterForStaticEvents
SpecsGone == INSTANCE Folding WITH Step <- SpecUnregistered
StructuresGone == INSTANCE Folding WITH Step <- StructureUnregistered

-----------------------------------------------------------------------------
(* The inductive invariant, in layers.  First the types.                    *)

Event == [type : EventType, ref : Nat, n : Nat]
Queue == [events : Seq(Event), wakeUp : Structures \cup {NoStructure}, active : BOOLEAN]

IsQueues(qs) == \E n \in Nat \ {0} : qs \in [0 .. n - 1 -> Queue]

Entry(Q) == [q : Q, ref : Nat]
Bucket(Q) == [uid : Nat, ref : Nat, lists : [EventType -> Seq(Entry(Q))]]

IsBuckets(bs, Q) == \E n \in Nat \ {0} : bs \in [0 .. n - 1 -> Bucket(Q)]

Where(B) == [index : B, uid : Nat]

IsInfo(inf, B) ==
  /\ DOMAIN inf = ToSet(VI)
  /\ \A v \in ToSet(VI) : \A ref \in DOMAIN inf[v] : inf[v][ref] \in Where(B)

Heed(B) == [vi : ToSet(VI), uid : Nat, type : EventType, index : B]

Clump(Q) == [asleep : BOOLEAN, timer : BOOLEAN, listed : BOOLEAN, ready : BOOLEAN,
             q : Q, count : Nat, set : Nat, late : Nat]

Spec == [type : EventType, ref : Nat, dyn : Nat]
Item == [kind : Kinds, refs : Seq(Nat)]
Reg(Q) == [valid : BOOLEAN, q : Q, entries : Seq(Item), born : Nat, replaced : SUBSET Nat]
Record == [kind : {"user", "reg"}, ref : Nat]

Types ==
  /\ prog \in Programs
  /\ IsQueues(queue)
  /\ IsBuckets(bucket, DOMAIN queue)
  /\ IsInfo(info, DOMAIN bucket)
  /\ listening \subseteq Heed(DOMAIN bucket)
  /\ es \in [Structures -> Clump(DOMAIN queue)]
  /\ specs \in [Structures -> Seq(Spec)]
  /\ regs \in Seq(Reg(DOMAIN queue))
  /\ regVar \in [RegVar -> 0 .. Len(regs)]
  /\ cleanup \in [ToSet(VI) -> SUBSET Record]
  /\ \A v \in ToSet(VI) : \A c \in cleanup[v] : c.kind = "reg" => c.ref \in 1 .. Len(regs)
  /\ count \in 0 .. prog.events
  /\ created \in Nat

\* Events are queued in the order of their numbers.
InOrder(qs, n) ==
  \A q \in DOMAIN qs :
    /\ \A k \in DOMAIN qs[q].events : qs[q].events[k].n \in 1 .. n
    /\ \A j, k \in DOMAIN qs[q].events : j < k => qs[q].events[j].n < qs[q].events[k].n

\* A valid registration has an active queue of its own.
OwnQueues(qs, rs) ==
  /\ NoQueue \in DOMAIN qs /\ ~ qs[NoQueue].active
  /\ \A r \in DOMAIN rs : rs[r].valid => qs[rs[r].q].active
  /\ \A r, t \in DOMAIN rs : rs[r].valid /\ rs[t].valid /\ rs[r].q = rs[t].q => r = t

\* The queue of a structure, which is no registration's.
Static(q, qs, rs) ==
  \/ q = NoQueue
  \/ q \in DOMAIN qs /\ qs[q].active /\ \A r \in DOMAIN rs : rs[r].valid => rs[r].q # q

\* Who listens to a control is a structure; the application has no control events.
StaticBuckets(bs, qs, rs) ==
  /\ \A i \in DOMAIN bs \ {AppIndex} : \A t \in EventType :
       \A e \in ToSet(bs[i].lists[t]) : Static(e.q, qs, rs)
  /\ \A t \in UIEvents : bs[AppIndex].lists[t] = << >>

Owners ==
  /\ OwnQueues(queue, regs)
  /\ \A s \in Structures : Static(es[s].q, queue, regs)
  /\ StaticBuckets(bucket, queue, regs)

\* A scalar item has one refnum.
SingleRefs(entries) == \A k \in DOMAIN entries : entries[k].kind = "scalar" => Len(entries[k].refs) = 1
AllScalar(entries) == \A k \in DOMAIN entries : entries[k].kind = "scalar"

AllScalarIn(rs) == \A r \in DOMAIN rs : AllScalar(rs[r].entries)
SingleRefsIn(rs) == \A r \in DOMAIN rs : SingleRefs(rs[r].entries)

Scalars ==
  /\ SingleRefsIn(regs)
  /\ ScalarOnly => AllScalarIn(regs)
  /\ \A r \in DOMAIN regs : regs[r].born <= count

\* The registration in a variable has the items that the program says.
RightKinds(rv, rs) ==
  \A x \in RegVar : rv[x] \in DOMAIN rs /\ rs[rv[x]].valid =>
    /\ Len(rs[rv[x]].entries) = Len(prog.kinds[x])
    /\ \A k \in DOMAIN rs[rv[x]].entries : rs[rv[x]].entries[k].kind = prog.kinds[x][k]

\* Who is listed for user events.
Listeners(b) == ToSet(b.lists["UserEvent"])

\* q is listed with every refnum of the entries that has not been replaced.
HeardBy(q, entries, replaced, b) ==
  \A k \in DOMAIN entries : \A u \in ToSet(entries[k].refs) \ {NoRef} :
    u \notin replaced => [q |-> q, ref |-> u] \in Listeners(b)

\* Every valid registration hears of what it has been registered for.
HeardIn(rs, b) ==
  \A r \in DOMAIN rs : rs[r].valid => HeardBy(rs[r].q, rs[r].entries, rs[r].replaced, b)

\* Who is listed for user events is a valid registration.
KnownIn(rs, b) ==
  \A e \in Listeners(b) : \E r \in DOMAIN rs :
    /\ rs[r].valid /\ rs[r].q = e.q
    /\ \E k \in DOMAIN rs[r].entries : rs[r].entries[k].refs = << e.ref >>

\* Queues that are not in use are empty.
EmptyIn(qs) == \A q \in DOMAIN qs \ {NoQueue} : ~ qs[q].active => qs[q].events = << >>

\* Events in the queue of a valid registration are younger than it is.
YoungIn(qs, rs) ==
  \A r \in DOMAIN rs : rs[r].valid => \A e \in ToSet(qs[rs[r].q].events) : e.n > rs[r].born

Strays == ScalarOnly => KnownIn(regs, bucket[AppIndex]) /\ EmptyIn(queue) /\ YoungIn(queue, regs)

Inv ==
  /\ Types /\ Owners /\ InOrder(queue, count)
  /\ Scalars /\ RightKinds(regVar, regs)
  /\ HeardIn(regs, bucket[AppIndex]) /\ Strays

\* How many events there are in the queues of S.
LengthsOf(qs) == [q \in DOMAIN qs |-> Len(qs[q].events)]
SumOf(qs, S) == SumFunctionOnSet(LengthsOf(qs), S)

\* The structure is in the run queue when its occurrence has gone off while it sleeps.
Timely(u) ==
  /\ es[u].asleep /\ ~ es[u].ready => es[u].listed /\ es[u].set <= es[u].count
  /\ ~ es[u].asleep => ~ es[u].listed /\ ~ es[u].ready /\ ~ es[u].timer
  /\ es[u].late <= es[u].count /\ es[u].count <= es[u].set + MaxBehind

\* The occurrence of a structure has gone off once for each event in a queue that is
\* to wake the structure, and that is not yet handled; but for what the structure has
\* counted without an event.
Paid(u) == SumOf(queue, Waking(u)) <= es[u].set - es[u].count + es[u].late

Woken == \A u \in Structures : Timely(u) /\ Paid(u)

-----------------------------------------------------------------------------
(* Lists, queues and buckets.                                               *)

LEMMA ChosenSet ==
  ASSUME NEW T, NEW s \in Seq(T), NEW S
  PROVE  Chosen(s, S) \in Seq(T) /\ ToSet(Chosen(s, S)) = ToSet(s) \cap S
<1>1. Chosen(s, S) \in Seq(T) /\ Elements(Chosen(s, S)) = Elements(s) \cap S
  BY ChosenElements
<1>2. \A u \in Seq(T) : ToSet(u) = Elements(u)
  BY DEF ToSet, Elements
<1> QED BY <1>1, <1>2

LEMMA AppendSet ==
  ASSUME NEW T, NEW s \in Seq(T), NEW x \in T
  PROVE  Append(s, x) \in Seq(T) /\ ToSet(Append(s, x)) = ToSet(s) \cup {x}
<1>1. Append(s, x) \in Seq(T) /\ Elements(Append(s, x)) = Elements(s) \cup {x}
  BY AppendElements
<1>2. \A u \in Seq(T) : ToSet(u) = Elements(u)
  BY DEF ToSet, Elements
<1> QED BY <1>1, <1>2

LEMMA SetOfEmpty ==
  ASSUME NEW T, NEW s \in Seq(T)
  PROVE  ToSet(s) = {} <=> s = << >>
<1>1. CASE s = << >>
  BY <1>1 DEF ToSet
<1>2. CASE s # << >>
  <2>1. 1 \in DOMAIN s
    BY <1>2
  <2> QED BY <1>2, <2>1 DEF ToSet
<1> QED BY <1>1, <1>2

\* The queue that is given out is not in use, or a new one; it is active then,
\* and wakes nobody.
QueueAdded(qs, q, after) ==
  /\ IsQueues(after)
  /\ DOMAIN after = DOMAIN qs \cup {q} /\ q # NoQueue
  /\ q \in DOMAIN qs => ~ qs[q].active /\ after[q].events = qs[q].events
  /\ q \notin DOMAIN qs => after[q].events = << >>
  /\ after[q].active /\ after[q].wakeUp = NoStructure
  /\ \A p \in DOMAIN qs \ {q} : after[p] = qs[p]

LEMMA NewQueueFacts ==
  ASSUME NEW qs, IsQueues(qs), NEW q, q = FreeQueue(qs), NEW after, after = WithNewQueue(qs, q)
  PROVE  QueueAdded(qs, q, after)
<1>1. PICK n \in Nat \ {0} : qs \in [0 .. n - 1 -> Queue]
  BY DEF IsQueues
<1>2. Cardinality(DOMAIN qs) = n
  BY <1>1, FS_Interval
<1> DEFINE free == {r \in DOMAIN qs \ {NoQueue} : ~ qs[r].active}
<1>3. q \in 1 .. n /\ (q < n => ~ qs[q].active)
  <2>1. CASE free = {}
    BY <1>1, <1>2, <2>1 DEF FreeQueue
  <2>2. CASE free # {}
    <3>1. free \in SUBSET Nat
      BY <1>1
    <3>2. \E x \in free : \A y \in free : x <= y
      BY <2>2, <3>1, LeastExists
    <3>3. q \in free
      BY <2>2, <3>2 DEF FreeQueue
    <3> QED BY <1>1, <3>3 DEF NoQueue
  <2> QED BY <2>1, <2>2
<1> USE DEF QueueAdded
<1>4. NewQueue \in Queue
  BY DEF NewQueue, Queue
<1>5. CASE q \in DOMAIN qs
  <2>1. after = [k \in DOMAIN qs |-> IF k = q THEN [qs[q] EXCEPT !.active = TRUE, !.wakeUp = NoStructure]
                                   ELSE qs[k]]
    <3>1. DOMAIN qs \cup {q} = DOMAIN qs
      BY <1>5
    <3> QED BY <1>5, <3>1 DEF WithNewQueue, Extended
  <2>2. qs[q] \in Queue
    BY <1>1, <1>5
  <2>3. [qs[q] EXCEPT !.active = TRUE, !.wakeUp = NoStructure] \in Queue
    BY <2>2 DEF Queue
  <2>4. after \in [0 .. n - 1 -> Queue]
    BY <1>1, <2>1, <2>3
  <2>5. IsQueues(after)
    BY <2>4 DEF IsQueues
  <2>6. DOMAIN after = DOMAIN qs /\ \A p \in DOMAIN qs \ {q} : after[p] = qs[p]
    BY <2>1
  <2>7. after[q].active /\ after[q].wakeUp = NoStructure /\ after[q].events = qs[q].events
    BY <1>5, <2>1, <2>2 DEF Queue
  <2> QED BY <1>1, <1>3, <1>5, <2>5, <2>6, <2>7 DEF NoQueue
<1>6. CASE q \notin DOMAIN qs
  <2>1. q = n
    BY <1>1, <1>3, <1>6
  <2>2. after = [k \in DOMAIN qs \cup {q} |-> IF k = q THEN NewQueue ELSE qs[k]]
    BY <1>6 DEF WithNewQueue, Extended
  <2>3. DOMAIN qs \cup {q} = 0 .. (n + 1) - 1
    BY <1>1, <2>1
  <2>4. after \in [0 .. (n + 1) - 1 -> Queue]
    BY <1>1, <1>4, <2>2, <2>3
  <2>5. IsQueues(after)
    <3>1. n + 1 \in Nat \ {0}
      OBVIOUS
    <3> QED BY <2>4, <3>1 DEF IsQueues
  <2>6. after[q] = NewQueue /\ \A p \in DOMAIN qs \ {q} : after[p] = qs[p]
    BY <2>2
  <2> QED BY <1>3, <1>6, <2>2, <2>5, <2>6 DEF NewQueue, NoQueue
<1> QED BY <1>5, <1>6

\* What refers to a queue still does when there are more.
LEMMA MoreQueues ==
  ASSUME NEW Q, NEW R, Q \subseteq R
  PROVE  /\ Bucket(Q) \subseteq Bucket(R)
         /\ Clump(Q) \subseteq Clump(R)
         /\ Reg(Q) \subseteq Reg(R)
         /\ \A bs : IsBuckets(bs, Q) => IsBuckets(bs, R)
<1>1. Entry(Q) \subseteq Entry(R)
  BY DEF Entry
<1>2. Seq(Entry(Q)) \subseteq Seq(Entry(R))
  BY <1>1
<1>3. Bucket(Q) \subseteq Bucket(R)
  BY <1>2 DEF Bucket
<1>4. Clump(Q) \subseteq Clump(R)
  BY DEF Clump
<1>5. Reg(Q) \subseteq Reg(R)
  BY DEF Reg
<1>6. \A bs : IsBuckets(bs, Q) => IsBuckets(bs, R)
  BY <1>3 DEF IsBuckets
<1> QED BY <1>3, <1>4, <1>5, <1>6

LEMMA InsertedFacts ==
  ASSUME NEW Q, NEW b \in Bucket(Q), NEW t \in EventType, NEW e \in Entry(Q)
  PROVE  /\ Inserted(b, t, e) \in Bucket(Q)
         /\ ToSet(Inserted(b, t, e).lists[t]) = ToSet(b.lists[t]) \cup {e}
         /\ \A u \in EventType \ {t} : Inserted(b, t, e).lists[u] = b.lists[u]
<1>1. b.lists \in [EventType -> Seq(Entry(Q))] /\ b.lists[t] \in Seq(Entry(Q))
  BY DEF Bucket
<1>2. Append(b.lists[t], e) \in Seq(Entry(Q)) /\ ToSet(Append(b.lists[t], e)) = ToSet(b.lists[t]) \cup {e}
  BY <1>1, AppendSet
<1>3. CASE e \in ToSet(b.lists[t])
  BY <1>3 DEF Inserted
<1>4. CASE e \notin ToSet(b.lists[t])
  <2>1. Inserted(b, t, e) = [b EXCEPT !.lists[t] = Append(b.lists[t], e)]
    BY <1>4 DEF Inserted
  <2> QED BY <1>1, <1>2, <2>1 DEF Bucket
<1> QED BY <1>3, <1>4

LEMMA RemovedFacts ==
  ASSUME NEW Q, NEW b \in Bucket(Q), NEW t \in EventType, NEW e
  PROVE  /\ Removed(b, t, e) \in Bucket(Q)
         /\ ToSet(Removed(b, t, e).lists[t]) = ToSet(b.lists[t]) \ {e}
         /\ \A u \in EventType \ {t} : Removed(b, t, e).lists[u] = b.lists[u]
<1>1. b.lists \in [EventType -> Seq(Entry(Q))] /\ b.lists[t] \in Seq(Entry(Q))
  BY DEF Bucket
<1> DEFINE rest == Chosen(b.lists[t], ToSet(b.lists[t]) \ {e})
<1>2. rest \in Seq(Entry(Q)) /\ ToSet(rest) = ToSet(b.lists[t]) \ {e}
  BY <1>1, ChosenSet
<1>3. Removed(b, t, e) = [b EXCEPT !.lists[t] = rest]
  BY DEF Removed
<1> HIDE DEF rest
<1> QED BY <1>1, <1>2, <1>3 DEF Bucket

\* The lists of b and r agree, but for those of user events.
OthersKept(b, r) == \A t \in EventType \ {"UserEvent"} : r.lists[t] = b.lists[t]

LEMMA ListedFacts ==
  ASSUME NEW Q, NEW b \in Bucket(Q), NEW e \in Entry(Q)
  PROVE  /\ Listed(b, e) \in Bucket(Q) /\ OthersKept(b, Listed(b, e))
         /\ Listeners(Listed(b, e)) = Listeners(b) \cup (IF e.ref = NoRef THEN {} ELSE {e})
<1>1. "UserEvent" \in EventType
  BY DEF EventType
<1> QED BY <1>1, InsertedFacts DEF Listed, OthersKept, Listeners

\* The entries of q for the refnums in refs.
Entries(q, refs) == {[q |-> q, ref |-> u] : u \in refs \ {NoRef}}

LEMMA ItemRegisteredFacts ==
  ASSUME NEW Q, NEW b \in Bucket(Q), NEW q \in Q, NEW refs \in Seq(Nat),
         NEW r, r = ItemRegistered(b, [q |-> q, refs |-> refs])
  PROVE  /\ r \in Bucket(Q) /\ OthersKept(b, r)
         /\ Listeners(r) = Listeners(b) \cup Entries(q, ToSet(refs))
<1> DEFINE n == Len(refs)
           entries == [j \in DOMAIN refs |-> [q |-> q, ref |-> refs[j]]]
<1>1. n \in Nat /\ DOMAIN entries = 1 .. n
  OBVIOUS
<1>2. \A k \in 1 .. n : refs[k] \in Nat /\ entries[k] = [q |-> q, ref |-> refs[k]] /\ entries[k] \in Entry(Q)
  BY DEF Entry
<1>3. r = Listing!Folded(b, entries)
  BY DEF ItemRegistered, Listing!Folded, Listing!Greatest, FoldLeft, MapThenFoldSet, Max
<1> HIDE DEF entries, n
<1>4. PICK f : Listing!Stages(b, entries, n, f)
  BY <1>1, SetInduction, Listing!FoldSteps DEF Listing!NaturalInduction
<1>5. r = f[n] /\ f[0] = b /\ \A k \in 1 .. n : f[k] = Listed(f[k - 1], entries[k])
  BY <1>3, <1>4 DEF Listing!Stages
<1> DEFINE upTo(k) == Entries(q, {refs[j] : j \in 1 .. k})
           Good(k) ==
             /\ f[k] \in Bucket(Q) /\ OthersKept(b, f[k])
             /\ Listeners(f[k]) = Listeners(b) \cup upTo(k)
           N == {k \in Nat : k <= n => Good(k)}
<1>a. upTo(0) = {} /\ \A k \in Nat : upTo(k + 1) = upTo(k) \cup Entries(q, {refs[k + 1]})
  <2>1. upTo(0) = {}
    BY DEF Entries
  <2>2. ASSUME NEW k \in Nat PROVE upTo(k + 1) = upTo(k) \cup Entries(q, {refs[k + 1]})
    <3>1. {refs[j] : j \in 1 .. k + 1} = {refs[j] : j \in 1 .. k} \cup {refs[k + 1]}
      OBVIOUS
    <3> QED BY <3>1 DEF Entries
  <2> QED BY <2>1, <2>2
<1>b. upTo(n) = Entries(q, ToSet(refs))
  <2>1. {refs[j] : j \in 1 .. n} = ToSet(refs)
    BY DEF ToSet, n
  <2> QED BY <2>1
<1> HIDE DEF upTo
<1>6. 0 \in N
  BY <1>5, <1>a DEF OthersKept
<1>7. ASSUME NEW k \in Nat, k \in N PROVE k + 1 \in N
  <2> SUFFICES ASSUME k + 1 <= n PROVE Good(k + 1)
    OBVIOUS
  <2>1. Good(k) /\ k + 1 \in 1 .. n /\ f[k + 1] = Listed(f[k], entries[k + 1])
    BY <1>1, <1>5, <1>7
  <2> DEFINE e == entries[k + 1]
             new == IF e.ref = NoRef THEN {} ELSE {e}
  <2>2. e = [q |-> q, ref |-> refs[k + 1]] /\ e \in Entry(Q) /\ f[k + 1] = Listed(f[k], e) /\ f[k] \in Bucket(Q)
    BY <1>2, <2>1
  <2> HIDE DEF e
  <2>3. f[k + 1] \in Bucket(Q) /\ OthersKept(f[k], f[k + 1]) /\ Listeners(f[k + 1]) = Listeners(f[k]) \cup new
    BY <2>2, ListedFacts
  <2>a. new = Entries(q, {refs[k + 1]})
    BY <2>2 DEF Entries
  <2>5. upTo(k + 1) = upTo(k) \cup Entries(q, {refs[k + 1]})
    BY <1>a
  <2>6. OthersKept(b, f[k + 1])
    BY <2>1, <2>3 DEF OthersKept
  <2> HIDE DEF new
  <2> QED BY <2>1, <2>3, <2>a, <2>5, <2>6
<1>8. Good(n)
  <2> HIDE DEF N
  <2>1. n \in N
    BY <1>1, <1>6, <1>7, SetInduction
  <2> QED BY <1>1, <2>1 DEF N
<1> QED BY <1>5, <1>8, <1>b

\* The same for all items of a registration.
ItemsListed(Q, q, input, b, r) ==
  /\ r \in Bucket(Q) /\ OthersKept(b, r)
  /\ Listeners(r) = Listeners(b) \cup UNION {Entries(q, ToSet(input[k])) : k \in DOMAIN input}

LEMMA ItemsRegisteredFacts ==
  ASSUME NEW Q, NEW b \in Bucket(Q), NEW q \in Q, NEW input \in Seq(Seq(Nat)),
         NEW r, r = FoldLeft(ItemRegistered, b, [k \in DOMAIN input |-> [q |-> q, refs |-> input[k]]])
  PROVE  ItemsListed(Q, q, input, b, r)
<1> DEFINE n == Len(input)
           items == [k \in DOMAIN input |-> [q |-> q, refs |-> input[k]]]
<1>1. n \in Nat /\ DOMAIN items = 1 .. n /\ DOMAIN input = 1 .. n
  OBVIOUS
<1>2. \A k \in 1 .. n : input[k] \in Seq(Nat) /\ items[k] = [q |-> q, refs |-> input[k]]
  OBVIOUS
<1> HIDE DEF items, n
<1>3. r = Items!Folded(b, items)
  BY DEF items, Items!Folded, Items!Greatest, FoldLeft, MapThenFoldSet, Max
<1>4. PICK f : Items!Stages(b, items, n, f)
  BY <1>1, SetInduction, Items!FoldSteps DEF Items!NaturalInduction
<1>5. r = f[n] /\ f[0] = b /\ \A k \in 1 .. n : f[k] = ItemRegistered(f[k - 1], items[k])
  BY <1>3, <1>4 DEF Items!Stages
<1> DEFINE all(k) == UNION {Entries(q, ToSet(input[j])) : j \in 1 .. k}
<1>a. all(0) = {} /\ all(n) = UNION {Entries(q, ToSet(input[k])) : k \in DOMAIN input}
  BY <1>1
<1>b. \A k \in Nat : all(k + 1) = all(k) \cup Entries(q, ToSet(input[k + 1]))
  <2> TAKE k \in Nat
  <2>1. 1 .. k + 1 = (1 .. k) \cup {k + 1}
    OBVIOUS
  <2> DEFINE F(j) == Entries(q, ToSet(input[j]))
  <2> HIDE DEF F
  <2>2. UNION {F(j) : j \in (1 .. k) \cup {k + 1}} = (UNION {F(j) : j \in 1 .. k}) \cup F(k + 1)
    OBVIOUS
  <2> QED BY <2>1, <2>2 DEF F
<1> HIDE DEF all
<1> DEFINE Good(k) == /\ f[k] \in Bucket(Q) /\ OthersKept(b, f[k])
                      /\ Listeners(f[k]) = Listeners(b) \cup all(k)
           N == {k \in Nat : k <= n => Good(k)}
<1>6. 0 \in N
  BY <1>5, <1>a DEF OthersKept
<1>7. ASSUME NEW k \in Nat, k \in N PROVE k + 1 \in N
  <2> SUFFICES ASSUME k + 1 <= n PROVE Good(k + 1)
    OBVIOUS
  <2>1. Good(k) /\ k + 1 \in 1 .. n /\ f[k + 1] = ItemRegistered(f[k], items[k + 1])
    BY <1>1, <1>5, <1>7
  <2> DEFINE refs == input[k + 1]
  <2>a. refs \in Seq(Nat) /\ f[k + 1] = ItemRegistered(f[k], [q |-> q, refs |-> refs]) /\ f[k] \in Bucket(Q)
    BY <1>2, <2>1
  <2> HIDE DEF refs
  <2>2. /\ f[k + 1] \in Bucket(Q) /\ OthersKept(f[k], f[k + 1])
        /\ Listeners(f[k + 1]) = Listeners(f[k]) \cup Entries(q, ToSet(refs))
    BY <2>a, ItemRegisteredFacts
  <2>3. all(k + 1) = all(k) \cup Entries(q, ToSet(refs))
    BY <1>b DEF refs
  <2>4. OthersKept(b, f[k + 1])
    BY <2>1, <2>2 DEF OthersKept
  <2> QED BY <2>1, <2>2, <2>3, <2>4
<1>8. Good(n)
  <2> HIDE DEF N
  <2>1. n \in N
    BY <1>1, <1>6, <1>7, SetInduction
  <2> QED BY <1>1, <2>1 DEF N
<1> QED BY <1>5, <1>8, <1>a DEF ItemsListed

\* What q is listed with is an entry.
KnownTo(q, entries, b) ==
  \A e \in Listeners(b) : e.q = q => \E k \in DOMAIN entries : entries[k].refs = << e.ref >>

\* What a re-registration for q has come to.
Reregistering(Q, q, acc) ==
  /\ acc.b \in Bucket(Q) /\ acc.entries \in Seq(Item) /\ acc.replaced \in SUBSET Nat
  /\ SingleRefs(acc.entries)
  /\ HeardBy(q, acc.entries, acc.replaced, acc.b)

\* What it leaves alone.
Beside(q, acc, next) ==
  /\ OthersKept(acc.b, next.b)
  /\ Len(next.entries) = Len(acc.entries)
  /\ \A k \in DOMAIN acc.entries : next.entries[k].kind = acc.entries[k].kind
  /\ \A e \in Listeners(acc.b) : e.q # q => e \in Listeners(next.b)
  /\ \A e \in Listeners(next.b) : e.q # q => e \in Listeners(acc.b)

LEMMA ItemReregisteredFacts ==
  ASSUME NEW Q, NEW q \in Q, NEW acc, Reregistering(Q, q, acc),
         NEW refs \in Seq(Nat), NEW k \in DOMAIN acc.entries, acc.entries[k].kind = "scalar",
         NEW next, next = ItemReregistered(acc, [q |-> q, k |-> k, refs |-> refs])
  PROVE  /\ Reregistering(Q, q, next) /\ Beside(q, acc, next)
         /\ AllScalar(acc.entries) /\ KnownTo(q, acc.entries, acc.b) => KnownTo(q, next.entries, next.b)
<1> DEFINE old == acc.entries[k].refs[1]
           new == refs[1]
           without == Removed(acc.b, "UserEvent", [q |-> q, ref |-> old])
           b == Listed(without, [q |-> q, ref |-> new])
           entries == [acc.entries EXCEPT ![k].refs = << new >>]
<1>1. CASE refs = << >> \/ new = old
  <2>1. next = acc
    BY <1>1 DEF ItemReregistered
  <2> QED BY <2>1 DEF Beside, OthersKept
<1>2. CASE ~ (refs = << >> \/ new = old)
  <2>1. next = [b |-> b, entries |-> entries, replaced |-> acc.replaced \cup {old}]
    BY <1>2 DEF ItemReregistered
  <2>2. /\ acc.b \in Bucket(Q) /\ acc.entries \in Seq(Item) /\ acc.replaced \in SUBSET Nat
        /\ acc.entries[k] \in Item /\ Len(acc.entries[k].refs) = 1
    BY DEF Reregistering, SingleRefs
  <2>3. acc.entries[k].refs \in Seq(Nat) /\ old \in Nat /\ acc.entries[k].refs = << old >>
    BY <2>2 DEF Item
  <2>4. new \in Nat /\ new # old
    BY <1>2
  <2> HIDE DEF old, new
  <2>5. /\ without \in Bucket(Q) /\ OthersKept(acc.b, without)
        /\ Listeners(without) = Listeners(acc.b) \ {[q |-> q, ref |-> old]}
    <3> DEFINE gone == [q |-> q, ref |-> old]
    <3> HIDE DEF gone
    <3>1. "UserEvent" \in EventType
      BY DEF EventType
    <3>2. /\ Removed(acc.b, "UserEvent", gone) \in Bucket(Q)
          /\ ToSet(Removed(acc.b, "UserEvent", gone).lists["UserEvent"]) = ToSet(acc.b.lists["UserEvent"]) \ {gone}
          /\ \A t \in EventType \ {"UserEvent"} : Removed(acc.b, "UserEvent", gone).lists[t] = acc.b.lists[t]
      <4> DEFINE base == acc.b
      <4>1. base \in Bucket(Q)
        BY <2>2
      <4> HIDE DEF base
      <4>2. /\ Removed(base, "UserEvent", gone) \in Bucket(Q)
            /\ ToSet(Removed(base, "UserEvent", gone).lists["UserEvent"]) = ToSet(base.lists["UserEvent"]) \ {gone}
            /\ \A t \in EventType \ {"UserEvent"} : Removed(base, "UserEvent", gone).lists[t] = base.lists[t]
        BY <3>1, <4>1, RemovedFacts
      <4> QED BY <4>2 DEF base
    <3>3. without = Removed(acc.b, "UserEvent", gone)
      BY DEF gone
    <3> HIDE DEF without
    <3>4. Listeners(without) = Listeners(acc.b) \ {gone}
      BY <3>2, <3>3 DEF Listeners
    <3> QED BY <3>2, <3>3, <3>4 DEF OthersKept, gone
  <2> DEFINE added == IF new = NoRef THEN {} ELSE {[q |-> q, ref |-> new]}
  <2>6. /\ b \in Bucket(Q) /\ OthersKept(without, b)
        /\ Listeners(b) = Listeners(without) \cup added
    <3> DEFINE e == [q |-> q, ref |-> new]
    <3>1. e \in Entry(Q) /\ e.ref = new
      BY <2>4 DEF Entry
    <3> HIDE DEF without, e
    <3>2. /\ Listed(without, e) \in Bucket(Q) /\ OthersKept(without, Listed(without, e))
          /\ Listeners(Listed(without, e)) = Listeners(without) \cup (IF e.ref = NoRef THEN {} ELSE {e})
      BY <2>5, <3>1, ListedFacts
    <3> QED BY <3>1, <3>2 DEF e
  <2> HIDE DEF without, b
  <2>7. /\ entries \in Seq(Item) /\ Len(entries) = Len(acc.entries)
        /\ entries[k].refs = << new >> /\ entries[k].kind = acc.entries[k].kind
        /\ \A j \in DOMAIN acc.entries \ {k} : entries[j] = acc.entries[j]
    <3>1. << new >> \in Seq(Nat)
      BY <2>4
    <3>2. [acc.entries[k] EXCEPT !.refs = << new >>] \in Item
      BY <2>2, <3>1 DEF Item
    <3> QED BY <2>2, <3>2 DEF Item
  <2>8. DOMAIN entries = DOMAIN acc.entries
    BY <2>2, <2>7
  <2> HIDE DEF entries
  <2>9. SingleRefs(entries)
    <3>1. Len(<< new >>) = 1
      OBVIOUS
    <3> QED BY <2>7, <2>8, <3>1 DEF Reregistering, SingleRefs
  <2>10. HeardBy(q, entries, acc.replaced \cup {old}, b)
    <3> SUFFICES ASSUME NEW j \in DOMAIN entries, NEW u \in ToSet(entries[j].refs) \ {NoRef},
                        u \notin acc.replaced, u # old
                 PROVE  [q |-> q, ref |-> u] \in Listeners(b)
      BY DEF HeardBy
    <3>1. CASE j = k
      <4>1. u = new
        BY <2>7, <3>1 DEF ToSet
      <4> QED BY <2>6, <4>1
    <3>2. CASE j # k
      <4>1. [q |-> q, ref |-> u] \in Listeners(acc.b)
        BY <2>7, <2>8, <3>2 DEF Reregistering, HeardBy
      <4> QED BY <2>5, <2>6, <4>1
    <3> QED BY <3>1, <3>2
  <2>11. Beside(q, acc, next)
    <3>1. \A e \in added : e.q = q
      OBVIOUS
    <3> HIDE DEF added
    <3>2. Listeners(b) = (Listeners(acc.b) \ {[q |-> q, ref |-> old]}) \cup added
      BY <2>5, <2>6
    <3>3. /\ \A e \in Listeners(acc.b) : e.q # q => e \in Listeners(b)
          /\ \A e \in Listeners(b) : e.q # q => e \in Listeners(acc.b)
      BY <3>1, <3>2
    <3>4. OthersKept(acc.b, b)
      BY <2>5, <2>6 DEF OthersKept
    <3>5. \A j \in DOMAIN acc.entries : entries[j].kind = acc.entries[j].kind
      BY <2>7
    <3>6. next.b = b /\ next.entries = entries
      BY <2>1
    <3> QED BY <2>7, <3>3, <3>4, <3>5, <3>6 DEF Beside
  <2>12. ASSUME AllScalar(acc.entries), KnownTo(q, acc.entries, acc.b), NEW e \in Listeners(b), e.q = q
         PROVE  \E j \in DOMAIN entries : entries[j].refs = << e.ref >>
    <3>1. CASE e \in added
      <4>1. e.ref = new
        BY <3>1
      <4> QED BY <2>7, <2>8, <4>1
    <3>2. CASE e \notin added
      <4>1. e \in Listeners(acc.b) /\ e # [q |-> q, ref |-> old]
        BY <2>5, <2>6, <3>2
      <4>2. e \in Entry(Q)
        <5>1. acc.b.lists["UserEvent"] \in Seq(Entry(Q))
          BY <2>2 DEF Bucket, EventType
        <5> QED BY <4>1, <5>1 DEF Listeners, ToSet
      <4>3. e.ref # old
        BY <2>12, <4>1, <4>2 DEF Entry
      <4>4. PICK j \in DOMAIN acc.entries : acc.entries[j].refs = << e.ref >>
        BY <2>12, <4>1 DEF KnownTo
      <4>5. j # k
        BY <2>3, <4>3, <4>4
      <4> QED BY <2>7, <2>8, <4>4, <4>5
    <3> QED BY <3>1, <3>2
  <2>13. Reregistering(Q, q, next)
    <3>1. next.b = b /\ next.entries = entries /\ next.replaced = acc.replaced \cup {old}
      BY <2>1
    <3>2. next.replaced \in SUBSET Nat
      BY <2>2, <2>3, <3>1
    <3> QED BY <2>6, <2>7, <2>9, <2>10, <3>1, <3>2 DEF Reregistering
  <2>14. next.b = b /\ next.entries = entries
    BY <2>1
  <2> QED BY <2>11, <2>12, <2>13, <2>14 DEF KnownTo
<1> QED BY <1>1, <1>2

\* The whole re-registration.
LEMMA ReregisteredFacts ==
  ASSUME NEW Q, NEW q \in Q, NEW base, Reregistering(Q, q, base),
         NEW input \in Seq(Seq(Nat)), Len(input) = Len(base.entries),
         \A k \in DOMAIN input : base.entries[k].kind = "scalar",
         NEW after,
         after = FoldLeft(ItemReregistered, base,
                          [k \in DOMAIN input |-> [q |-> q, k |-> k, refs |-> input[k]]])
  PROVE  /\ Reregistering(Q, q, after) /\ Beside(q, base, after)
         /\ AllScalar(base.entries) /\ KnownTo(q, base.entries, base.b) => KnownTo(q, after.entries, after.b)
<1> DEFINE n == Len(input)
           items == [k \in DOMAIN input |-> [q |-> q, k |-> k, refs |-> input[k]]]
<1>1. n \in Nat /\ DOMAIN items = 1 .. n /\ DOMAIN input = 1 .. n
  OBVIOUS
<1>2. \A k \in 1 .. n : input[k] \in Seq(Nat) /\ items[k] = [q |-> q, k |-> k, refs |-> input[k]]
  OBVIOUS
<1>3. after = Again!Folded(base, items)
  BY DEF Again!Folded, Again!Greatest, FoldLeft, MapThenFoldSet, Max
<1>4. base.entries \in Seq(Item) /\ Len(base.entries) = n /\ DOMAIN base.entries = 1 .. n
  BY DEF Reregistering
<1> HIDE DEF items, n
<1>5. PICK f : Again!Stages(base, items, n, f)
  BY <1>1, SetInduction, Again!FoldSteps DEF Again!NaturalInduction
<1>6. after = f[n] /\ f[0] = base /\ \A k \in 1 .. n : f[k] = ItemReregistered(f[k - 1], items[k])
  BY <1>3, <1>5 DEF Again!Stages
<1> DEFINE Good(k) ==
             /\ Reregistering(Q, q, f[k]) /\ Beside(q, base, f[k])
             /\ AllScalar(base.entries) /\ KnownTo(q, base.entries, base.b) => KnownTo(q, f[k].entries, f[k].b)
           N == {k \in Nat : k <= n => Good(k)}
<1>7. 0 \in N
  BY <1>6 DEF Beside, OthersKept
<1>8. ASSUME NEW k \in Nat, k \in N PROVE k + 1 \in N
  <2> SUFFICES ASSUME k + 1 <= n PROVE Good(k + 1)
    OBVIOUS
  <2>1. Good(k) /\ k + 1 \in 1 .. n /\ f[k + 1] = ItemReregistered(f[k], items[k + 1])
    BY <1>1, <1>6, <1>8
  <2> DEFINE acc == f[k]
             next == f[k + 1]
             refs == input[k + 1]
  <2>2. acc.entries \in Seq(Item) /\ Len(acc.entries) = n /\ DOMAIN acc.entries = 1 .. n
    BY <1>4, <2>1 DEF Reregistering, Beside
  <2>3. k + 1 \in DOMAIN acc.entries /\ acc.entries[k + 1].kind = "scalar"
    BY <1>1, <1>4, <2>1, <2>2 DEF Beside
  <2>4. refs \in Seq(Nat) /\ next = ItemReregistered(acc, [q |-> q, k |-> k + 1, refs |-> refs])
    BY <1>2, <2>1
  <2>5. Reregistering(Q, q, acc) /\ Beside(q, base, acc)
    BY <2>1
  <2>6. AllScalar(base.entries) => AllScalar(acc.entries)
    BY <1>4, <2>2, <2>5 DEF Beside, AllScalar
  <2> HIDE DEF acc, next, refs
  <2>7. /\ Reregistering(Q, q, next) /\ Beside(q, acc, next)
        /\ AllScalar(acc.entries) /\ KnownTo(q, acc.entries, acc.b) => KnownTo(q, next.entries, next.b)
    BY <2>3, <2>4, <2>5, ItemReregisteredFacts
  <2>8. Beside(q, base, next)
    BY <1>4, <2>2, <2>5, <2>7 DEF Beside, OthersKept
  <2> QED BY <2>1, <2>6, <2>7, <2>8 DEF acc, next
<1>9. Good(n)
  <2> HIDE DEF N
  <2>1. n \in N
    BY <1>1, <1>7, <1>8, SetInduction
  <2> QED BY <1>1, <2>1 DEF N
<1> QED BY <1>6, <1>9

\* The queues, the application's bucket and the registrations agree.
Agreeing(o) ==
  /\ IsQueues(o.queue) /\ o.b \in Bucket(DOMAIN o.queue) /\ o.regs \in Seq(Reg(DOMAIN o.queue))
  /\ OwnQueues(o.queue, o.regs)
  /\ HeardIn(o.regs, o.b)

\* They still do, and some registrations have been disposed of.
Fewer(o, n) ==
  /\ DOMAIN n.queue = DOMAIN o.queue /\ Len(n.regs) = Len(o.regs)
  /\ OthersKept(o.b, n.b)
  /\ \A q \in DOMAIN o.queue :
       n.queue[q] = o.queue[q] \/ (n.queue[q].events = << >> /\ n.queue[q].wakeUp = o.queue[q].wakeUp)
  /\ \A r \in DOMAIN o.regs : n.regs[r] = o.regs[r] \/ n.regs[r] = Disposed
  /\ \A q : Static(q, o.queue, o.regs) => Static(q, n.queue, n.regs)

LEMMA UnregisteredFacts ==
  ASSUME NEW o, Agreeing(o), NEW r \in DOMAIN o.regs, NEW n, n = Unregistered(o, r)
  PROVE  /\ Agreeing(n) /\ Fewer(o, n)
         /\ EmptyIn(o.queue) => EmptyIn(n.queue)
         /\ AllScalarIn(o.regs) => AllScalarIn(n.regs)
         /\ SingleRefsIn(o.regs) => SingleRefsIn(n.regs)
         /\ AllScalarIn(o.regs) /\ SingleRefsIn(o.regs) /\ KnownIn(o.regs, o.b) => KnownIn(n.regs, n.b)
<1>1. CASE ~ o.regs[r].valid
  <2>1. n = o
    BY <1>1 DEF Unregistered
  <2> QED BY <2>1 DEF Fewer, OthersKept
<1>2. CASE o.regs[r].valid
  <2> DEFINE Q == DOMAIN o.queue
             q == o.regs[r].q
             gone == {[q |-> q, ref |-> e.refs[1]] : e \in {f \in ToSet(o.regs[r].entries) : f.kind = "scalar"}}
             list == o.b.lists["UserEvent"]
             rest == Chosen(list, ToSet(list) \ gone)
  <2>1. n = [queue |-> [o.queue EXCEPT ![q] = DeletedQueue(@)],
             b |-> [o.b EXCEPT !.lists["UserEvent"] = rest],
             regs |-> [o.regs EXCEPT ![r] = Disposed]]
    BY <1>2 DEF Unregistered
  <2>2. /\ o.b \in Bucket(Q) /\ o.regs \in Seq(Reg(Q)) /\ OwnQueues(o.queue, o.regs) /\ IsQueues(o.queue)
        /\ HeardIn(o.regs, o.b)
    BY DEF Agreeing
  <2>3. o.regs[r] \in Reg(Q) /\ q \in Q /\ o.queue[q].active /\ NoQueue \in Q /\ ~ o.queue[NoQueue].active
    <3>1. o.regs[r] \in Reg(Q)
      <4> HIDE DEF Q
      <4> QED BY <2>2
    <3>2. q \in Q
      <4> HIDE DEF Q
      <4> QED BY <3>1 DEF Reg
    <3>3. o.queue[q].active /\ NoQueue \in Q /\ ~ o.queue[NoQueue].active
      BY <1>2, <2>2 DEF OwnQueues
    <3> QED BY <3>1, <3>2, <3>3
  <2>4. \A t \in DOMAIN o.regs : o.regs[t].valid /\ t # r => o.regs[t].q # q
    BY <1>2, <2>2 DEF OwnQueues
  <2>5. \A e \in gone : e.q = q
    OBVIOUS
  <2>6. \A k \in DOMAIN o.regs[r].entries :
          o.regs[r].entries[k].kind = "scalar" => [q |-> q, ref |-> o.regs[r].entries[k].refs[1]] \in gone
    BY DEF ToSet
  <2>7. "UserEvent" \in EventType /\ o.b.lists \in [EventType -> Seq(Entry(Q))] /\ list \in Seq(Entry(Q))
    BY <2>2 DEF Bucket, EventType
  <2> HIDE DEF gone
  <2>8. rest \in Seq(Entry(Q)) /\ ToSet(rest) = ToSet(list) \cap (ToSet(list) \ gone)
    BY <2>7, ChosenSet
  <2> HIDE DEF rest, q, Q
  <2>9. n.b \in Bucket(Q) /\ n.b.lists["UserEvent"] = rest /\ OthersKept(o.b, n.b)
    <3> DEFINE b == o.b
    <3>1. n.b = [b EXCEPT !.lists["UserEvent"] = rest] /\ b \in Bucket(Q)
      BY <2>1, <2>2
    <3>2. "UserEvent" \in EventType
      BY DEF EventType
    <3> HIDE DEF b
    <3>3. n.b \in Bucket(Q) /\ n.b.lists["UserEvent"] = rest
      BY <2>8, <3>1, <3>2, SMTT(30) DEF Bucket
    <3>4. OthersKept(b, n.b)
      BY <3>1, <3>2 DEF Bucket, OthersKept
    <3> QED BY <3>3, <3>4 DEF b
  <2>10. Listeners(n.b) = Listeners(o.b) \ gone
    BY <2>8, <2>9 DEF Listeners
  <2>11. Disposed \in Reg(Q)
    BY <2>3 DEF Disposed, Reg
  <2>12. /\ n.regs \in Seq(Reg(Q)) /\ Len(n.regs) = Len(o.regs) /\ DOMAIN n.regs = DOMAIN o.regs
         /\ n.regs[r] = Disposed
         /\ \A t \in DOMAIN o.regs \ {r} : n.regs[t] = o.regs[t]
    BY <2>1, <2>2, <2>11
  <2>13. PICK m \in Nat \ {0} : o.queue \in [0 .. m - 1 -> Queue]
    BY <2>2 DEF IsQueues
  <2>14. o.queue[q] \in Queue /\ Q = 0 .. m - 1
    BY <2>3, <2>13 DEF Q
  <2>15. DeletedQueue(o.queue[q]) \in Queue /\ DeletedQueue(o.queue[q]).events = << >>
         /\ DeletedQueue(o.queue[q]).wakeUp = o.queue[q].wakeUp /\ ~ DeletedQueue(o.queue[q]).active
    <3> DEFINE qq == o.queue[q]
    <3>1. qq \in Queue
      BY <2>14
    <3> HIDE DEF qq
    <3>2. DeletedQueue(qq) = [events |-> << >>, wakeUp |-> qq.wakeUp, active |-> FALSE]
      BY DEF DeletedQueue
    <3>3. qq.wakeUp \in Structures \cup {NoStructure} /\ << >> \in Seq(Event)
      BY <3>1 DEF Queue
    <3>4. DeletedQueue(qq) \in Queue
      BY <3>2, <3>3 DEF Queue
    <3>5. /\ DeletedQueue(qq).events = << >>
          /\ DeletedQueue(qq).wakeUp = qq.wakeUp /\ ~ DeletedQueue(qq).active
      BY <3>2
    <3> QED BY <3>4, <3>5 DEF qq
  <2>16. /\ n.queue \in [0 .. m - 1 -> Queue] /\ DOMAIN n.queue = Q
         /\ n.queue[q] = DeletedQueue(o.queue[q])
         /\ \A p \in Q \ {q} : n.queue[p] = o.queue[p]
    BY <2>1, <2>3, <2>13, <2>14, <2>15
  <2>17. IsQueues(n.queue)
    BY <2>16 DEF IsQueues
  <2>18. q # NoQueue
    BY <2>3
  <2>19. OwnQueues(n.queue, n.regs)
    <3> DEFINE qs == o.queue
               new == n.queue
               rs == o.regs
               left == n.regs
    <3>1. /\ DOMAIN left = DOMAIN rs /\ ~ left[r].valid
          /\ \A t \in DOMAIN rs \ {r} : left[t] = rs[t]
      BY <2>12 DEF Disposed
    <3>2. OwnQueues(qs, rs)
      BY <2>2
    <3>3. \A p \in DOMAIN qs \ {q} : new[p] = qs[p]
      BY <2>16 DEF Q
    <3>4. DOMAIN new = DOMAIN qs
      BY <2>16 DEF Q
    <3>5. \A t \in DOMAIN rs : rs[t].valid /\ t # r => rs[t].q # q
      BY <2>4
    <3>6. \A t \in DOMAIN rs : rs[t].q \in DOMAIN qs
      <4>1. rs \in Seq(Reg(Q))
        BY <2>2
      <4> HIDE DEF rs, Q
      <4>2. \A t \in DOMAIN rs : rs[t] \in Reg(Q)
        BY <4>1
      <4>3. \A t \in DOMAIN rs : rs[t].q \in Q
        BY <4>2 DEF Reg
      <4> QED BY <4>3 DEF Q
    <3> HIDE DEF qs, new, rs, left
    <3>7. OwnQueues(new, left)
      BY <2>18, <3>1, <3>2, <3>3, <3>4, <3>5, <3>6 DEF OwnQueues
    <3> QED BY <3>7 DEF new, left
  <2>20. HeardIn(n.regs, n.b)
    <3> SUFFICES ASSUME NEW t \in DOMAIN n.regs, n.regs[t].valid
                 PROVE  HeardBy(n.regs[t].q, n.regs[t].entries, n.regs[t].replaced, n.b)
      BY DEF HeardIn
    <3>1. t # r /\ n.regs[t] = o.regs[t] /\ t \in DOMAIN o.regs
      BY <2>12 DEF Disposed
    <3>2. o.regs[t].q # q /\ HeardBy(o.regs[t].q, o.regs[t].entries, o.regs[t].replaced, o.b)
      BY <2>2, <2>4, <3>1 DEF HeardIn
    <3> QED BY <2>5, <2>10, <3>1, <3>2 DEF HeardBy
  <2>21. Agreeing(n)
    BY <2>9, <2>12, <2>16, <2>17, <2>19, <2>20 DEF Agreeing
  <2>22. ASSUME NEW p, Static(p, o.queue, o.regs) PROVE Static(p, n.queue, n.regs)
    <3>1. CASE p = NoQueue
      BY <3>1 DEF Static
    <3>2. CASE p # NoQueue
      <4>1. p \in Q /\ o.queue[p].active /\ \A t \in DOMAIN o.regs : o.regs[t].valid => o.regs[t].q # p
        BY <2>22, <3>2 DEF Static, Q
      <4>2. p # q
        BY <1>2, <4>1 DEF q
      <4>3. p \in DOMAIN n.queue /\ n.queue[p].active
        BY <2>16, <4>1, <4>2
      <4>4. ASSUME NEW t \in DOMAIN n.regs, n.regs[t].valid PROVE n.regs[t].q # p
        <5>1. t # r
          BY <2>12, <4>4 DEF Disposed
        <5> QED BY <2>12, <4>1, <4>4, <5>1
      <4> QED BY <4>3, <4>4 DEF Static
    <3> QED BY <3>1, <3>2
  <2>23. Fewer(o, n)
    BY <2>9, <2>12, <2>15, <2>16, <2>22 DEF Fewer, Q
  <2>24. EmptyIn(o.queue) => EmptyIn(n.queue)
    BY <2>15, <2>16 DEF EmptyIn, Q
  <2>25. (AllScalarIn(o.regs) => AllScalarIn(n.regs)) /\ (SingleRefsIn(o.regs) => SingleRefsIn(n.regs))
    <3>1. Disposed.entries = << >> /\ DOMAIN << >> = {}
      BY DEF Disposed
    <3> QED BY <2>12, <3>1 DEF AllScalarIn, SingleRefsIn, AllScalar, SingleRefs
  <2>26. ASSUME AllScalarIn(o.regs), SingleRefsIn(o.regs), KnownIn(o.regs, o.b) PROVE KnownIn(n.regs, n.b)
    <3> SUFFICES ASSUME NEW e \in Listeners(n.b)
                 PROVE  \E t \in DOMAIN n.regs :
                          /\ n.regs[t].valid /\ n.regs[t].q = e.q
                          /\ \E k \in DOMAIN n.regs[t].entries : n.regs[t].entries[k].refs = << e.ref >>
      BY DEF KnownIn
    <3>1. e \in Listeners(o.b) /\ e \notin gone
      BY <2>10
    <3>2. PICK t \in DOMAIN o.regs :
            /\ o.regs[t].valid /\ o.regs[t].q = e.q
            /\ \E k \in DOMAIN o.regs[t].entries : o.regs[t].entries[k].refs = << e.ref >>
      BY <2>26, <3>1 DEF KnownIn
    <3>3. PICK k \in DOMAIN o.regs[t].entries : o.regs[t].entries[k].refs = << e.ref >>
      BY <3>2
    <3>4. t # r
      <4> SUFFICES ASSUME t = r PROVE FALSE
        OBVIOUS
      <4>1. o.regs[r].entries[k].kind = "scalar"
        BY <2>26, <3>3 DEF AllScalarIn, AllScalar
      <4>2. [q |-> q, ref |-> e.ref] \in gone
        BY <2>6, <3>3, <4>1
      <4>3. e \in Entry(Q)
        <5>1. e \in ToSet(list)
          BY <3>1 DEF Listeners
        <5> HIDE DEF list
        <5> QED BY <2>7, <5>1 DEF ToSet
      <4>4. e = [q |-> q, ref |-> e.ref]
        BY <3>2, <4>3 DEF Entry, q
      <4> QED BY <3>1, <4>2, <4>4
    <3> QED BY <2>12, <3>2, <3>4
  <2> QED BY <2>21, <2>23, <2>24, <2>25, <2>26
<1> QED BY <1>1, <1>2

\* All registrations of a list.
LEMMA AllUnregisteredFacts ==
  ASSUME NEW o, Agreeing(o), NEW n \in Nat, NEW rs, DOMAIN rs = 1 .. n, \A k \in 1 .. n : rs[k] \in DOMAIN o.regs,
         NEW after, after = FoldLeft(Unregistered, o, rs)
  PROVE  /\ Agreeing(after) /\ Fewer(o, after)
         /\ EmptyIn(o.queue) => EmptyIn(after.queue)
         /\ AllScalarIn(o.regs) => AllScalarIn(after.regs)
         /\ SingleRefsIn(o.regs) => SingleRefsIn(after.regs)
         /\ AllScalarIn(o.regs) /\ SingleRefsIn(o.regs) /\ KnownIn(o.regs, o.b) => KnownIn(after.regs, after.b)
<1>1. after = Disposal!Folded(o, rs)
  BY DEF Disposal!Folded, Disposal!Greatest, FoldLeft, MapThenFoldSet, Max
<1>2. PICK f : Disposal!Stages(o, rs, n, f)
  BY SetInduction, Disposal!FoldSteps DEF Disposal!NaturalInduction
<1>3. after = f[n] /\ f[0] = o /\ \A k \in 1 .. n : f[k] = Unregistered(f[k - 1], rs[k])
  BY <1>1, <1>2 DEF Disposal!Stages
<1> DEFINE Good(p) ==
             /\ Agreeing(p) /\ Fewer(o, p)
             /\ EmptyIn(o.queue) => EmptyIn(p.queue)
             /\ AllScalarIn(o.regs) => AllScalarIn(p.regs)
             /\ SingleRefsIn(o.regs) => SingleRefsIn(p.regs)
             /\ AllScalarIn(o.regs) /\ SingleRefsIn(o.regs) /\ KnownIn(o.regs, o.b) => KnownIn(p.regs, p.b)
           N == {k \in Nat : k <= n => Good(f[k])}
<1>4. 0 \in N
  BY <1>3 DEF Fewer, OthersKept
<1>5. ASSUME NEW k \in Nat, k \in N PROVE k + 1 \in N
  <2> SUFFICES ASSUME k + 1 <= n PROVE Good(f[k + 1])
    OBVIOUS
  <2> DEFINE p == f[k]
             next == f[k + 1]
             r == rs[k + 1]
  <2>1. Good(p) /\ k + 1 \in 1 .. n /\ next = Unregistered(p, r)
    BY <1>3, <1>5
  <2>2. Agreeing(p) /\ Fewer(o, p)
    BY <2>1
  <2>3. DOMAIN p.regs = DOMAIN o.regs
    BY <2>2 DEF Fewer, Agreeing
  <2>4. r \in DOMAIN p.regs
    BY <2>1, <2>3
  <2> HIDE DEF p, next, r
  <2>5. /\ Agreeing(next) /\ Fewer(p, next)
        /\ EmptyIn(p.queue) => EmptyIn(next.queue)
        /\ AllScalarIn(p.regs) => AllScalarIn(next.regs)
        /\ SingleRefsIn(p.regs) => SingleRefsIn(next.regs)
        /\ AllScalarIn(p.regs) /\ SingleRefsIn(p.regs) /\ KnownIn(p.regs, p.b) => KnownIn(next.regs, next.b)
    BY <2>1, <2>2, <2>4, UnregisteredFacts
  <2>6. Fewer(o, next)
    <3>1. OthersKept(o.b, next.b)
      BY <2>2, <2>5 DEF Fewer, OthersKept
    <3>2. Fewer(o, p) /\ Fewer(p, next)
      BY <2>2, <2>5
    <3> QED BY <2>3, <3>1, <3>2 DEF Fewer
  <2> QED BY <2>1, <2>5, <2>6 DEF next
<1>6. Good(f[n])
  <2> HIDE DEF N
  <2>1. n \in N
    BY <1>4, <1>5, SetInduction
  <2> QED BY <2>1 DEF N
<1> QED BY <1>3, <1>6

-----------------------------------------------------------------------------
(* Broadcasting.                                                            *)

LEMMA QueuesFinite ==
  ASSUME NEW qs, IsQueues(qs)
  PROVE  /\ \A S \in SUBSET DOMAIN qs : IsFiniteSet(S)
         /\ \A q \in DOMAIN qs : qs[q] \in Queue /\ qs[q].events \in Seq(Event)
         /\ \A q \in DOMAIN qs : LengthsOf(qs)[q] = Len(qs[q].events) /\ LengthsOf(qs)[q] \in Nat
         /\ DOMAIN qs \subseteq Nat /\ NoQueue \in DOMAIN qs
<1>1. PICK n \in Nat \ {0} : qs \in [0 .. n - 1 -> Queue]
  BY DEF IsQueues
<1>2. IsFiniteSet(DOMAIN qs)
  BY <1>1, FS_Interval
<1>3. \A S \in SUBSET DOMAIN qs : IsFiniteSet(S)
  BY <1>2, FS_Subset
<1>4. \A q \in DOMAIN qs : qs[q] \in Queue
  BY <1>1
<1>5. \A q \in DOMAIN qs : qs[q].events \in Seq(Event)
  BY <1>4 DEF Queue
<1>6. \A q \in DOMAIN qs : LengthsOf(qs)[q] = Len(qs[q].events) /\ LengthsOf(qs)[q] \in Nat
  BY <1>5 DEF LengthsOf
<1>7. DOMAIN qs \subseteq Nat /\ NoQueue \in DOMAIN qs
  BY <1>1 DEF NoQueue
<1> QED BY <1>3, <1>4, <1>5, <1>6, <1>7

\* One event more.
LEMMA PostedOnce ==
  ASSUME NEW qs, IsQueues(qs), NEW q \in DOMAIN qs, NEW e \in Event,
         NEW after, after = Posted(qs, [q |-> q, event |-> e])
  PROVE  /\ IsQueues(after) /\ DOMAIN after = DOMAIN qs
         /\ \A p \in DOMAIN qs : after[p].wakeUp = qs[p].wakeUp /\ after[p].active = qs[p].active
         /\ \A p \in DOMAIN qs \ {q} : after[p] = qs[p]
         /\ after[q].events = Append(qs[q].events, e)
         /\ \A c \in Nat : InOrder(qs, c) /\ e.n = c + 1 => InOrder(after, c + 1)
         /\ \A S \in SUBSET DOMAIN qs :
              SumOf(after, S) <= SumOf(qs, S) + (IF q \in S THEN 1 ELSE 0) /\ SumOf(after, S) \in Nat
<1>1. PICK n \in Nat \ {0} : qs \in [0 .. n - 1 -> Queue]
  BY DEF IsQueues
<1> DEFINE list == Append(qs[q].events, e)
           D == DOMAIN qs
<1>2. qs[q] \in Queue /\ qs[q].events \in Seq(Event) /\ D = 0 .. n - 1
  BY <1>1, QueuesFinite
<1>3. list \in Seq(Event) /\ Len(list) = Len(qs[q].events) + 1
  BY <1>2
<1>4. after = [qs EXCEPT ![q] = [qs[q] EXCEPT !.events = list]]
  BY <1>1, <1>2 DEF Posted
<1> HIDE DEF list
<1>5. /\ [qs[q] EXCEPT !.events = list] \in Queue
      /\ [qs[q] EXCEPT !.events = list].events = list
      /\ [qs[q] EXCEPT !.events = list].wakeUp = qs[q].wakeUp
      /\ [qs[q] EXCEPT !.events = list].active = qs[q].active
  <2> DEFINE qq == qs[q]
  <2>1. qq \in Queue
    BY <1>2
  <2> HIDE DEF qq
  <2>2. /\ [qq EXCEPT !.events = list] \in Queue
        /\ [qq EXCEPT !.events = list].events = list
        /\ [qq EXCEPT !.events = list].wakeUp = qq.wakeUp
        /\ [qq EXCEPT !.events = list].active = qq.active
    BY <1>3, <2>1 DEF Queue
  <2> QED BY <2>2 DEF qq
<1> DEFINE qn == [qs[q] EXCEPT !.events = list]
<1> HIDE DEF qn
<1>6. after = [qs EXCEPT ![q] = qn] /\ qn \in Queue /\ qn.events = list /\ qn.wakeUp = qs[q].wakeUp /\ qn.active = qs[q].active
  BY <1>4, <1>5 DEF qn
<1>7. /\ after \in [0 .. n - 1 -> Queue] /\ DOMAIN after = D /\ after[q] = qn
      /\ \A p \in D \ {q} : after[p] = qs[p]
  BY <1>1, <1>2, <1>6
<1>8. IsQueues(after) /\ after[q].events = list
  BY <1>6, <1>7 DEF IsQueues
<1>9. \A p \in D : after[p].wakeUp = qs[p].wakeUp /\ after[p].active = qs[p].active
  BY <1>6, <1>7
<1>10. ASSUME NEW c \in Nat, InOrder(qs, c), e.n = c + 1 PROVE InOrder(after, c + 1)
  <2>1. \A p \in D : qs[p].events \in Seq(Event)
    BY QueuesFinite
  <2> SUFFICES ASSUME NEW p \in D
               PROVE  /\ \A k \in DOMAIN after[p].events : after[p].events[k].n \in 1 .. c + 1
                      /\ \A j, k \in DOMAIN after[p].events :
                           j < k => after[p].events[j].n < after[p].events[k].n
    BY <1>7 DEF InOrder
  <2>2. /\ \A k \in DOMAIN qs[p].events : qs[p].events[k].n \in 1 .. c
        /\ \A j, k \in DOMAIN qs[p].events : j < k => qs[p].events[j].n < qs[p].events[k].n
    BY <1>10 DEF InOrder
  <2>3. CASE p # q
    BY <1>7, <2>2, <2>3
  <2>4. CASE p = q
    <3> DEFINE old == qs[q].events
    <3>1. old \in Seq(Event) /\ after[p].events = list /\ list = Append(old, e)
      BY <1>2, <1>8, <2>4 DEF list
    <3>2. /\ \A k \in DOMAIN old : old[k].n \in 1 .. c
          /\ \A j, k \in DOMAIN old : j < k => old[j].n < old[k].n
      BY <2>2, <2>4
    <3> HIDE DEF old
    <3>3. /\ DOMAIN list = 1 .. Len(old) + 1 /\ Len(old) \in Nat /\ DOMAIN old = 1 .. Len(old)
          /\ \A k \in 1 .. Len(old) : list[k] = old[k]
          /\ list[Len(old) + 1] = e
      BY <3>1
    <3>4. \A k \in DOMAIN list : k \in DOMAIN old \/ k = Len(old) + 1
      BY <3>3
    <3>5. \A k \in DOMAIN list : list[k].n \in 1 .. c + 1
      BY <1>10, <3>2, <3>3, <3>4
    <3>6. ASSUME NEW j \in DOMAIN list, NEW k \in DOMAIN list, j < k PROVE list[j].n < list[k].n
      <4>1. j \in DOMAIN old /\ list[j] = old[j] /\ old[j].n \in 1 .. c
        BY <3>2, <3>3, <3>6
      <4>2. CASE k = Len(old) + 1
        BY <1>10, <3>3, <4>1, <4>2
      <4>3. CASE k \in DOMAIN old
        BY <3>2, <3>3, <3>6, <4>1, <4>3
      <4> QED BY <3>4, <4>2, <4>3
    <3> QED BY <3>1, <3>5, <3>6
  <2> QED BY <2>3, <2>4
<1>11. ASSUME NEW S \in SUBSET D
       PROVE  SumOf(after, S) <= SumOf(qs, S) + (IF q \in S THEN 1 ELSE 0) /\ SumOf(after, S) \in Nat
  <2> DEFINE f == LengthsOf(after)
             g == LengthsOf(qs)
  <2>1. IsFiniteSet(S)
    BY QueuesFinite
  <2>2. \A p \in D : f[p] \in Nat /\ f[p] = Len(after[p].events) /\ g[p] \in Nat /\ g[p] = Len(qs[p].events)
    BY <1>7, <1>8, QueuesFinite
  <2>3. \A p \in D \ {q} : f[p] = g[p]
    BY <1>7, <2>2
  <2>4. f[q] = g[q] + 1
    BY <1>3, <1>8, <2>2
  <2> HIDE DEF f, g, D
  <2>5. SumFunctionOnSet(f, S) \in Nat /\ SumFunctionOnSet(g, S) \in Nat
    <3>1. \A p \in S : f[p] \in Nat /\ g[p] \in Nat
      BY <2>2
    <3> QED BY <2>1, <3>1, SumIsNat
  <2>6. CASE q \notin S
    <3>1. \A p \in S : g[p] \in Nat /\ f[p] \in Nat /\ f[p] <= g[p]
      BY <2>2, <2>3, <2>6
    <3>2. SumFunctionOnSet(f, S) <= SumFunctionOnSet(g, S)
      BY <2>1, <3>1, SumMonotone
    <3> QED BY <2>5, <2>6, <3>2 DEF SumOf, f, g
  <2>7. CASE q \in S
    <3>1. \A p \in S : g[p] \in Nat /\ f[p] \in Nat
      BY <2>2
    <3> DEFINE T == S \ {q}
    <3>2. SumFunctionOnSet(f, S) = f[q] + SumFunctionOnSet(f, T) /\ SumFunctionOnSet(f, T) \in Nat
      BY <2>1, <2>7, <3>1, SumOfMember
    <3>3. SumFunctionOnSet(g, S) = g[q] + SumFunctionOnSet(g, T) /\ SumFunctionOnSet(g, T) \in Nat
      BY <2>1, <2>7, <3>1, SumOfMember
    <3>4. \A p \in T : g[p] \in Nat /\ f[p] \in Nat /\ f[p] <= g[p]
      BY <2>2, <2>3
    <3>5. IsFiniteSet(T)
      BY <2>1, FS_Subset
    <3> HIDE DEF T
    <3>6. SumFunctionOnSet(f, T) <= SumFunctionOnSet(g, T)
      BY <3>4, <3>5, SumMonotone
    <3>7. g[q] \in Nat
      BY <2>7, <3>1
    <3> QED BY <2>4, <2>5, <2>7, <3>2, <3>3, <3>6, <3>7 DEF SumOf, f, g
  <2> QED BY <2>6, <2>7
<1> QED BY <1>7, <1>8, <1>9, <1>10, <1>11 DEF list

\* Of an event posted to all queues of a list.
Posts(list, t, ref, c) == [k \in DOMAIN list |-> [q |-> list[k], event |-> [type |-> t, ref |-> ref, n |-> c + k]]]

PostedTo(qs, list, c, after) ==
  /\ IsQueues(after) /\ DOMAIN after = DOMAIN qs
  /\ \A p \in DOMAIN qs : after[p].wakeUp = qs[p].wakeUp /\ after[p].active = qs[p].active
  /\ \A p \in DOMAIN qs : p \notin ToSet(list) => after[p] = qs[p]
  /\ \A p \in DOMAIN qs : \A e \in ToSet(after[p].events) : e \in ToSet(qs[p].events) \/ e.n > c
  /\ InOrder(qs, c) => InOrder(after, c + Len(list))
  /\ \A S \in SUBSET DOMAIN qs :
       /\ SumOf(after, S) \in Nat
       /\ SumOf(after, S) <= SumOf(qs, S) + Cardinality({k \in DOMAIN list : list[k] \in S})

LEMMA PostedFacts ==
  ASSUME NEW qs, IsQueues(qs), NEW list \in Seq(DOMAIN qs), NEW t \in EventType, NEW ref \in Nat, NEW c \in Nat,
         NEW after, after = FoldLeft(Posted, qs, Posts(list, t, ref, c))
  PROVE  PostedTo(qs, list, c, after)
<1> DEFINE n == Len(list)
           posts == Posts(list, t, ref, c)
           D == DOMAIN qs
<1>1. n \in Nat /\ DOMAIN list = 1 .. n /\ DOMAIN posts = 1 .. n
  BY DEF Posts
<1>2. \A k \in 1 .. n : list[k] \in D
  OBVIOUS
<1>3. \A k \in 1 .. n : posts[k] = [q |-> list[k], event |-> [type |-> t, ref |-> ref, n |-> c + k]]
  BY DEF Posts
<1>4. after = Posting!Folded(qs, posts)
  BY DEF Posting!Folded, Posting!Greatest, FoldLeft, MapThenFoldSet, Max
<1> HIDE DEF posts, n
<1>5. PICK f : Posting!Stages(qs, posts, n, f)
  BY <1>1, SetInduction, Posting!FoldSteps DEF Posting!NaturalInduction
<1>6. after = f[n] /\ f[0] = qs /\ \A k \in 1 .. n : f[k] = Posted(f[k - 1], posts[k])
  BY <1>4, <1>5 DEF Posting!Stages
<1> DEFINE hits(k, S) == {j \in 1 .. k : list[j] \in S}
           Same(p) == /\ DOMAIN p = D
                      /\ \A q \in D : p[q].wakeUp = qs[q].wakeUp /\ p[q].active = qs[q].active
           News(p, k) == \A q \in D :
                           /\ (\A j \in 1 .. k : list[j] # q) => p[q] = qs[q]
                           /\ \A e \in ToSet(p[q].events) : e \in ToSet(qs[q].events) \/ e.n > c
           Sums(p, k) == \A S \in SUBSET D :
                           /\ SumOf(p, S) \in Nat
                           /\ SumOf(p, S) <= SumOf(qs, S) + Cardinality(hits(k, S))
           Good(k) == IsQueues(f[k]) /\ Same(f[k]) /\ News(f[k], k) /\ (InOrder(qs, c) => InOrder(f[k], c + k)) /\ Sums(f[k], k)
           N == {k \in Nat : k <= n => Good(k)}
<1>a. \A k \in Nat : \A S : IsFiniteSet(hits(k, S)) /\ Cardinality(hits(k, S)) \in Nat
  <2> TAKE k \in Nat
  <2> TAKE S
  <2>1. IsFiniteSet(1 .. k) /\ hits(k, S) \subseteq 1 .. k
    BY FS_Interval
  <2> QED BY <2>1, FS_Subset, FS_CardinalityType
<1>b. \A k \in Nat : \A S : Cardinality(hits(k + 1, S)) =
                          Cardinality(hits(k, S)) + (IF list[k + 1] \in S THEN 1 ELSE 0)
  <2> TAKE k \in Nat
  <2> TAKE S
  <2>1. CASE list[k + 1] \in S
    <3>1. hits(k + 1, S) = hits(k, S) \cup {k + 1} /\ k + 1 \notin hits(k, S)
      BY <2>1
    <3> DEFINE h == hits(k, S)
    <3>2. IsFiniteSet(h) /\ k + 1 \notin h
      BY <1>a, <3>1
    <3> HIDE DEF h
    <3>3. Cardinality(h \cup {k + 1}) = Cardinality(h) + 1
      BY <3>2, FS_AddElement
    <3> QED BY <2>1, <3>1, <3>3 DEF h
  <2>2. CASE list[k + 1] \notin S
    <3>1. hits(k + 1, S) = hits(k, S)
      BY <2>2
    <3>2. Cardinality(hits(k, S)) \in Nat
      BY <1>a
    <3> HIDE DEF hits
    <3> QED BY <2>2, <3>1, <3>2
  <2> QED BY <2>1, <2>2
<1> HIDE DEF hits
<1>7. 0 \in N
  <2>1. Sums(qs, 0)
    <3> SUFFICES ASSUME NEW S \in SUBSET D PROVE SumOf(qs, S) \in Nat /\ SumOf(qs, S) <= SumOf(qs, S) + Cardinality(hits(0, S))
      OBVIOUS
    <3>1. IsFiniteSet(S) /\ \A q \in S : LengthsOf(qs)[q] \in Nat
      BY QueuesFinite
    <3>2. SumOf(qs, S) \in Nat
      BY <3>1, SumIsNat DEF SumOf
    <3>3. Cardinality(hits(0, S)) \in Nat
      BY <1>a
    <3> QED BY <3>2, <3>3
  <2>2. Same(qs) /\ News(qs, 0)
    OBVIOUS
  <2>3. InOrder(qs, c) => InOrder(qs, c + 0)
    OBVIOUS
  <2> HIDE DEF Same, News, Sums
  <2> QED BY <1>6, <2>1, <2>2, <2>3
<1>8. ASSUME NEW k \in Nat, k \in N PROVE k + 1 \in N
  <2> SUFFICES ASSUME k + 1 <= n PROVE Good(k + 1)
    OBVIOUS
  <2> DEFINE p == f[k]
             next == f[k + 1]
             q == list[k + 1]
             e == [type |-> t, ref |-> ref, n |-> c + (k + 1)]
  <2>1. Good(k) /\ k + 1 \in 1 .. n /\ next = Posted(p, posts[k + 1])
    BY <1>1, <1>6, <1>8
  <2>2. next = Posted(p, [q |-> q, event |-> e]) /\ q \in D
    BY <1>2, <1>3, <2>1
  <2>3. e \in Event /\ e.n = (c + k) + 1 /\ c + k \in Nat
    BY DEF Event
  <2>4. IsQueues(p) /\ Same(p) /\ News(p, k) /\ (InOrder(qs, c) => InOrder(p, c + k)) /\ Sums(p, k)
    BY <2>1
  <2>5. DOMAIN p = D
    BY <2>4
  <2>a. next = f[k + 1] /\ list[k + 1] = q
    OBVIOUS
  <2> HIDE DEF p, next, q, e
  <2>6. /\ IsQueues(next) /\ DOMAIN next = DOMAIN p
        /\ \A r \in DOMAIN p : next[r].wakeUp = p[r].wakeUp /\ next[r].active = p[r].active
        /\ \A r \in DOMAIN p \ {q} : next[r] = p[r]
        /\ next[q].events = Append(p[q].events, e)
        /\ \A d \in Nat : InOrder(p, d) /\ e.n = d + 1 => InOrder(next, d + 1)
        /\ \A S \in SUBSET DOMAIN p :
              SumOf(next, S) <= SumOf(p, S) + (IF q \in S THEN 1 ELSE 0) /\ SumOf(next, S) \in Nat
    <3>1. IsQueues(p)
      BY <2>4
    <3>2. q \in DOMAIN p
      BY <2>2, <2>5
    <3>3. e \in Event /\ next = Posted(p, [q |-> q, event |-> e])
      BY <2>2, <2>3
    <3> QED BY <3>1, <3>2, <3>3, PostedOnce
  <2>7. Same(next)
    BY <2>4, <2>5, <2>6
  <2>8. News(next, k + 1)
    <3> SUFFICES ASSUME NEW r \in D
                 PROVE  /\ (\A j \in 1 .. k + 1 : list[j] # r) => next[r] = qs[r]
                        /\ \A x \in ToSet(next[r].events) : x \in ToSet(qs[r].events) \/ x.n > c
      OBVIOUS
    <3>1. CASE r # q
      <4>1. next[r] = p[r]
        BY <2>5, <2>6, <3>1
      <4>2. (\A j \in 1 .. k + 1 : list[j] # r) => (\A j \in 1 .. k : list[j] # r)
        OBVIOUS
      <4> QED BY <2>4, <4>1, <4>2
    <3>2. CASE r = q
      <4>1. ~ (\A j \in 1 .. k + 1 : list[j] # r)
        BY <2>a, <3>2
      <4>2. p[q].events \in Seq(Event)
        BY <2>2, <2>4, <2>5, QueuesFinite
      <4>3. ToSet(next[q].events) = ToSet(p[q].events) \cup {e}
        BY <2>3, <2>6, <4>2, AppendSet
      <4>4. e.n > c
        BY <2>3
      <4> QED BY <2>4, <3>2, <4>1, <4>3, <4>4
    <3> QED BY <3>1, <3>2
  <2>9. InOrder(qs, c) => InOrder(next, c + (k + 1))
    <3>1. (c + k) + 1 = c + (k + 1)
      OBVIOUS
    <3> QED BY <2>3, <2>4, <2>6, <3>1
  <2>10. Sums(next, k + 1)
    <3> SUFFICES ASSUME NEW S \in SUBSET D
                 PROVE  SumOf(next, S) \in Nat /\ SumOf(next, S) <= SumOf(qs, S) + Cardinality(hits(k + 1, S))
      OBVIOUS
    <3>1. SumOf(next, S) \in Nat /\ SumOf(next, S) <= SumOf(p, S) + (IF q \in S THEN 1 ELSE 0)
      BY <2>5, <2>6
    <3>2. SumOf(p, S) \in Nat /\ SumOf(p, S) <= SumOf(qs, S) + Cardinality(hits(k, S))
      BY <2>4
    <3>3. SumOf(qs, S) \in Nat
      <4>1. IsFiniteSet(S) /\ \A r \in S : LengthsOf(qs)[r] \in Nat
        BY QueuesFinite
      <4> QED BY <4>1, SumIsNat DEF SumOf
    <3>4. Cardinality(hits(k + 1, S)) = Cardinality(hits(k, S)) + (IF q \in S THEN 1 ELSE 0)
      BY <1>b, <2>a
    <3>5. Cardinality(hits(k, S)) \in Nat
      BY <1>a
    <3> QED BY <3>1, <3>2, <3>3, <3>4, <3>5
  <2> HIDE DEF Same, News, Sums
  <2> QED BY <2>6, <2>7, <2>8, <2>9, <2>10, <2>a
<1>9. Good(n)
  <2> HIDE DEF N
  <2>1. n \in N
    BY <1>1, <1>7, <1>8, SetInduction
  <2> QED BY <1>1, <2>1 DEF N
<1>10. \A p \in D : p \notin ToSet(list) => \A j \in 1 .. n : list[j] # p
  BY <1>1 DEF ToSet
<1>11. \A S : hits(n, S) = {k \in DOMAIN list : list[k] \in S}
  BY <1>1 DEF hits
<1> QED BY <1>6, <1>9, <1>10, <1>11, ZenonT(60) DEF n, PostedTo

-----------------------------------------------------------------------------
(* Static registration.                                                     *)

\* Nobody else is listed in the new buckets than in the old ones, but for Q; and
\* the application's is the same.
OnlyMore(old, new, Q) ==
  /\ DOMAIN old \subseteq DOMAIN new /\ new[AppIndex] = old[AppIndex]
  /\ \A i \in DOMAIN new \ {AppIndex} : \A t \in EventType : \A e \in ToSet(new[i].lists[t]) :
       (i \in DOMAIN old /\ e \in ToSet(old[i].lists[t])) \/ e.q \in Q

LEMMA NoListsFacts ==
  ASSUME NEW Q
  PROVE  /\ NoLists \in [EventType -> Seq(Entry(Q))]
         /\ \A t \in EventType : NoLists[t] = << >> /\ ToSet(NoLists[t]) = {}
<1>1. << >> \in Seq(Entry(Q)) /\ ToSet(<< >>) = {}
  BY DEF ToSet
<1>2. \A t \in EventType : NoLists[t] = << >>
  BY DEF NoLists
<1>3. NoLists \in [EventType -> Seq(Entry(Q))]
  BY <1>1 DEF NoLists
<1> QED BY <1>1, <1>2, <1>3

\* The other buckets are the same, and nobody is new in this one.
OthersSame(old, new, i) == \A j \in DOMAIN old \ {i} : new[j] = old[j]
NobodyNew(old, new, i) ==
  \A t \in EventType : \A e \in ToSet(new[i].lists[t]) : i \in DOMAIN old /\ e \in ToSet(old[i].lists[t])

\* The buckets with one for a control.
LEMMA WithControlFacts ==
  ASSUME NEW Q, NEW bs, IsBuckets(bs, Q), NEW uid \in Nat, NEW ref \in Nat,
         NEW i, i = IndexFor(bs, uid), NEW new, new = WithControl(bs, i, uid, ref)
  PROVE  /\ IsBuckets(new, Q) /\ DOMAIN new = DOMAIN bs \cup {i} /\ i # AppIndex
         /\ OthersSame(bs, new, i) /\ NobodyNew(bs, new, i)
<1>1. PICK n \in Nat \ {0} : bs \in [0 .. n - 1 -> Bucket(Q)]
  BY DEF IsBuckets
<1>2. Cardinality(DOMAIN bs) = n
  BY <1>1, FS_Interval
<1> DEFINE usable == {j \in DOMAIN bs \ {AppIndex} : bs[j].lists = NoLists \/ bs[j].uid = uid}
<1>3. i \in 1 .. n
  <2>1. CASE usable = {}
    BY <1>1, <1>2, <2>1 DEF IndexFor
  <2>2. CASE usable # {}
    <3>1. usable \in SUBSET Nat
      BY <1>1
    <3>2. \E x \in usable : \A y \in usable : x <= y
      BY <2>2, <3>1, LeastExists
    <3>3. i \in usable
      BY <2>2, <3>2 DEF IndexFor
    <3> QED BY <1>1, <3>3 DEF AppIndex
  <2> QED BY <2>1, <2>2
<1> DEFINE b == [uid |-> uid, ref |-> ref, lists |-> IF i \in DOMAIN bs THEN bs[i].lists ELSE NoLists]
<1>4. new = [k \in DOMAIN bs \cup {i} |-> IF k = i THEN b ELSE bs[k]]
  BY DEF WithControl, Extended
<1>5. b \in Bucket(Q)
  <2>1. CASE i \in DOMAIN bs
    <3>1. bs[i] \in Bucket(Q)
      BY <1>1, <2>1
    <3> QED BY <2>1, <3>1 DEF Bucket
  <2>2. CASE i \notin DOMAIN bs
    BY <2>2, NoListsFacts DEF Bucket
  <2> QED BY <2>1, <2>2
<1>6. b.lists = IF i \in DOMAIN bs THEN bs[i].lists ELSE NoLists
  OBVIOUS
<1> HIDE DEF b
<1>7. DOMAIN new = DOMAIN bs \cup {i} /\ new[i] = b /\ \A j \in DOMAIN bs \ {i} : new[j] = bs[j]
  BY <1>4
<1>8. IsBuckets(new, Q)
  <2>1. CASE i < n
    <3>1. new \in [0 .. n - 1 -> Bucket(Q)]
      BY <1>1, <1>3, <1>4, <1>5, <2>1
    <3> QED BY <3>1 DEF IsBuckets
  <2>2. CASE i = n
    <3>1. DOMAIN bs \cup {i} = 0 .. (n + 1) - 1
      BY <1>1, <2>2
    <3>2. new \in [0 .. (n + 1) - 1 -> Bucket(Q)]
      BY <1>1, <1>4, <1>5, <3>1
    <3>3. n + 1 \in Nat \ {0}
      OBVIOUS
    <3> QED BY <3>2, <3>3 DEF IsBuckets
  <2> QED BY <1>3, <2>1, <2>2
<1>9. ASSUME NEW t \in EventType, NEW e \in ToSet(new[i].lists[t])
      PROVE  i \in DOMAIN bs /\ e \in ToSet(bs[i].lists[t])
  <2>1. ~ (i \in DOMAIN bs) => ToSet(new[i].lists[t]) = {}
    BY <1>6, <1>7, NoListsFacts
  <2> QED BY <1>6, <1>7, <1>9, <2>1
<1> QED BY <1>3, <1>7, <1>8, <1>9 DEF AppIndex, OthersSame, NobodyNew

\* The types of what static registration changes.
Registering(o, Q) ==
  /\ IsBuckets(o.bucket, Q) /\ IsInfo(o.info, DOMAIN o.bucket) /\ o.listening \subseteq Heed(DOMAIN o.bucket)

Fields == {"bucket", "info", "listening"}

ControlRegistered(o, n, q, Q) ==
  /\ Registering(n, Q) /\ DOMAIN n = DOMAIN o
  /\ \A x \in DOMAIN o \ Fields : n[x] = o[x]
  /\ OnlyMore(o.bucket, n.bucket, {q})

LEMMA RegisteredControlFacts ==
  ASSUME NEW Q, NEW o, Registering(o, Q), Fields \subseteq DOMAIN o,
         NEW v \in ToSet(VI), NEW t \in EventType, NEW q \in Q, NEW uid \in Nat, NEW ref \in Nat, NEW callback \in BOOLEAN,
         NEW n, n = RegisteredControl(o, v, t, q, uid, ref, callback)
  PROVE  ControlRegistered(o, n, q, Q)
<1> DEFINE i == IndexFor(o.bucket, uid)
           bs == WithControl(o.bucket, i, uid, ref)
           isNew == bs[i].lists[t] = << >>
           entry == [q |-> q, ref |-> ref]
           b == Inserted(bs[i], t, entry)
           bucket1 == [bs EXCEPT ![i] = b]
           info1 == [o.info EXCEPT ![v] = IF isNew THEN Extended(@, ref, [index |-> i, uid |-> uid]) ELSE @]
           listening1 == IF isNew /\ callback
                         THEN o.listening \cup {[vi |-> v, uid |-> uid, type |-> t, index |-> i]} ELSE o.listening
<1>1. n = [o EXCEPT !.bucket = bucket1, !.info = info1, !.listening = listening1]
  BY DEF RegisteredControl
<1>2. entry \in Entry(Q)
  BY DEF Entry
<1>3. IsBuckets(o.bucket, Q) /\ IsInfo(o.info, DOMAIN o.bucket) /\ o.listening \subseteq Heed(DOMAIN o.bucket)
  BY DEF Registering
<1>4. i = IndexFor(o.bucket, uid) /\ bs = WithControl(o.bucket, i, uid, ref) /\ b = Inserted(bs[i], t, entry)
  OBVIOUS
<1> HIDE DEF i, bs, b, entry
<1>5. /\ IsBuckets(bs, Q) /\ DOMAIN bs = DOMAIN o.bucket \cup {i} /\ i # AppIndex
      /\ \A j \in DOMAIN o.bucket \ {i} : bs[j] = o.bucket[j]
      /\ \A u \in EventType : \A e \in ToSet(bs[i].lists[u]) :
           i \in DOMAIN o.bucket /\ e \in ToSet(o.bucket[i].lists[u])
  <2> DEFINE ob == o.bucket
  <2>1. IsBuckets(ob, Q) /\ i = IndexFor(ob, uid) /\ bs = WithControl(ob, i, uid, ref)
    BY <1>3, <1>4
  <2> HIDE DEF ob
  <2>2. /\ IsBuckets(bs, Q) /\ DOMAIN bs = DOMAIN ob \cup {i} /\ i # AppIndex
        /\ \A j \in DOMAIN ob \ {i} : bs[j] = ob[j]
        /\ \A u \in EventType : \A e \in ToSet(bs[i].lists[u]) : i \in DOMAIN ob /\ e \in ToSet(ob[i].lists[u])
    <3>1. IsBuckets(ob, Q)
      BY <2>1
    <3>2. i = IndexFor(ob, uid)
      BY <2>1
    <3>3. bs = WithControl(ob, i, uid, ref)
      BY <2>1
    <3>4. /\ IsBuckets(bs, Q) /\ DOMAIN bs = DOMAIN ob \cup {i} /\ i # AppIndex
          /\ OthersSame(ob, bs, i) /\ NobodyNew(ob, bs, i)
      BY <3>1, <3>2, <3>3, WithControlFacts
    <3> QED BY <3>4 DEF OthersSame, NobodyNew
  <2> QED BY <2>2 DEF ob
<1>6. PICK m \in Nat \ {0} : bs \in [0 .. m - 1 -> Bucket(Q)]
  BY <1>5 DEF IsBuckets
<1>7. i \in 0 .. m - 1 /\ bs[i] \in Bucket(Q)
  BY <1>5, <1>6
<1>8. /\ b \in Bucket(Q)
      /\ ToSet(b.lists[t]) = ToSet(bs[i].lists[t]) \cup {entry}
      /\ \A u \in EventType \ {t} : b.lists[u] = bs[i].lists[u]
  <2> DEFINE bi == bs[i]
  <2>1. bi \in Bucket(Q) /\ b = Inserted(bi, t, entry)
    BY <1>4, <1>7
  <2> HIDE DEF bi
  <2>2. /\ b \in Bucket(Q)
        /\ ToSet(b.lists[t]) = ToSet(bi.lists[t]) \cup {entry}
        /\ \A u \in EventType \ {t} : b.lists[u] = bi.lists[u]
    BY <1>2, <2>1, InsertedFacts
  <2> QED BY <2>2 DEF bi
<1>9. /\ bucket1 \in [0 .. m - 1 -> Bucket(Q)] /\ DOMAIN bucket1 = DOMAIN bs
      /\ bucket1[i] = b /\ \A j \in DOMAIN bs \ {i} : bucket1[j] = bs[j]
  BY <1>6, <1>7, <1>8
<1> HIDE DEF bucket1
<1>10. IsBuckets(bucket1, Q)
  BY <1>9 DEF IsBuckets
<1>11. OnlyMore(o.bucket, bucket1, {q})
  <2>1. AppIndex \in DOMAIN o.bucket
    BY <1>3 DEF IsBuckets, AppIndex
  <2>2. DOMAIN o.bucket \subseteq DOMAIN bucket1 /\ bucket1[AppIndex] = o.bucket[AppIndex]
    BY <1>5, <1>9, <2>1
  <2>3. ASSUME NEW j \in DOMAIN bucket1 \ {AppIndex}, NEW u \in EventType, NEW e \in ToSet(bucket1[j].lists[u])
        PROVE  (j \in DOMAIN o.bucket /\ e \in ToSet(o.bucket[j].lists[u])) \/ e.q \in {q}
    <3>1. CASE j # i
      <4>1. bucket1[j] = o.bucket[j] /\ j \in DOMAIN o.bucket
        BY <1>5, <1>9, <2>3, <3>1
      <4> QED BY <2>3, <4>1
    <3>2. CASE j = i
      <4>1. entry.q = q
        BY DEF entry
      <4>2. e \in ToSet(b.lists[u])
        BY <1>9, <2>3, <3>2
      <4>3. e = entry \/ e \in ToSet(bs[i].lists[u])
        BY <1>8, <4>2
      <4> QED BY <1>5, <3>2, <4>1, <4>3
    <3> QED BY <3>1, <3>2
  <2> QED BY <2>2, <2>3 DEF OnlyMore
<1>12. i \in DOMAIN bucket1 /\ DOMAIN o.bucket \subseteq DOMAIN bucket1
  BY <1>5, <1>9
<1>13. IsInfo(info1, DOMAIN bucket1)
  <2> DEFINE inf == o.info
             w == [index |-> i, uid |-> uid]
             B == DOMAIN bucket1
             A == DOMAIN o.bucket
  <2>1. IsInfo(inf, A) /\ A \subseteq B
    BY <1>3, <1>12
  <2>2. w \in Where(B)
    BY <1>12 DEF Where
  <2>3. Where(A) \subseteq Where(B)
    BY <2>1 DEF Where
  <2> HIDE DEF inf, A, B, w
  <2>4. info1 = [inf EXCEPT ![v] = IF isNew THEN Extended(inf[v], ref, w) ELSE inf[v]]
    BY <2>1 DEF inf, w, IsInfo
  <2> HIDE DEF info1, isNew
  <2>5. DOMAIN info1 = ToSet(VI) /\ (\A u \in ToSet(VI) \ {v} : info1[u] = inf[u])
        /\ info1[v] = IF isNew THEN Extended(inf[v], ref, w) ELSE inf[v]
    BY <2>1, <2>4 DEF IsInfo
  <2>6. \A x \in DOMAIN inf[v] : inf[v][x] \in Where(B)
    BY <2>1, <2>3 DEF IsInfo
  <2>7. \A x \in DOMAIN Extended(inf[v], ref, w) : Extended(inf[v], ref, w)[x] \in Where(B)
    BY <2>2, <2>6 DEF Extended
  <2>8. \A x \in DOMAIN info1[v] : info1[v][x] \in Where(B)
    BY <2>5, <2>6, <2>7
  <2>9. \A u \in ToSet(VI) : \A x \in DOMAIN info1[u] : info1[u][x] \in Where(B)
    BY <2>1, <2>3, <2>5, <2>8 DEF IsInfo
  <2> QED BY <2>5, <2>9 DEF IsInfo, B
<1>14. listening1 \subseteq Heed(DOMAIN bucket1)
  <2>1. Heed(DOMAIN o.bucket) \subseteq Heed(DOMAIN bucket1)
    BY <1>12 DEF Heed
  <2>2. [vi |-> v, uid |-> uid, type |-> t, index |-> i] \in Heed(DOMAIN bucket1)
    BY <1>12 DEF Heed
  <2> QED BY <1>3, <2>1, <2>2
<1> HIDE DEF info1, listening1
<1>15. /\ DOMAIN n = DOMAIN o /\ n.bucket = bucket1 /\ n.info = info1 /\ n.listening = listening1
       /\ \A x \in DOMAIN o \ Fields : n[x] = o[x]
  BY <1>1 DEF Fields
<1>16. Registering(n, Q)
  BY <1>10, <1>13, <1>14, <1>15 DEF Registering
<1> QED BY <1>11, <1>15, <1>16 DEF ControlRegistered

\* What loading the VIs comes to: nobody waits, no queue holds anything, and who
\* is listed has a queue in use.
Served(q, qs) == q = NoQueue \/ (q \in DOMAIN qs /\ qs[q].active)
AtRest(e) ==
  ~ e.asleep /\ ~ e.timer /\ ~ e.listed /\ ~ e.ready /\ e.count = 0 /\ e.set = 0 /\ e.late = 0

NoneActiveLost(old, new) == DOMAIN old \subseteq DOMAIN new /\ \A q : Served(q, old) => Served(q, new)

AllServed(bs, qs) ==
  /\ bs[AppIndex].lists = NoLists
  /\ \A i \in DOMAIN bs \ {AppIndex} : \A t \in EventType : \A e \in ToSet(bs[i].lists[t]) : Served(e.q, qs)

ClumpsAtRest(e, qs) == \A s \in Structures : AtRest(e[s]) /\ Served(e[s].q, qs)
NoneQueued(qs) == \A q \in DOMAIN qs : qs[q].events = << >>

Loaded(o) ==
  /\ DOMAIN o = Fields \cup {"queue", "es"}
  /\ IsQueues(o.queue) /\ Registering(o, DOMAIN o.queue) /\ o.es \in [Structures -> Clump(DOMAIN o.queue)]
  /\ NoneQueued(o.queue) /\ ~ o.queue[NoQueue].active
  /\ ClumpsAtRest(o.es, o.queue) /\ AllServed(o.bucket, o.queue)

IsSpec(i) == i.s \in Structures /\ i.spec \in Spec

LEMMA AllServedMore ==
  ASSUME NEW old, NEW new, NEW q, NEW qs, AllServed(old, qs), OnlyMore(old, new, {q}), Served(q, qs)
  PROVE  AllServed(new, qs)
BY DEF AllServed, OnlyMore

LEMMA SpecRegisteredFacts ==
  ASSUME NEW o, Loaded(o), NEW i, IsSpec(i), NEW n, n = SpecRegistered(o, i)
  PROVE  Loaded(n)
<1>1. CASE i.spec.ref \notin ControlRef
  <2>1. n = o
    BY <1>1 DEF SpecRegistered
  <2> QED BY <2>1
<1>2. CASE i.spec.ref \in ControlRef
  <2> DEFINE v == Owner[i.s]
             t == i.spec.type
             q == o.es[i.s].q
             ref == i.spec.ref
             uid == ControlUID[ref]
             Q == DOMAIN o.queue
  <2>1. n = RegisteredControl(o, v, t, q, uid, ref, TRUE)
    BY <1>2 DEF SpecRegistered
  <2>2. i.s \in Structures /\ i.spec \in Spec
    BY DEF IsSpec
  <2>3. v \in ToSet(VI)
    BY <2>2, EventsAssumption DEF Structures
  <2>4. t \in EventType /\ ref \in Nat /\ uid \in Nat
    BY <1>2, <2>2, EventsAssumption DEF Spec
  <2>5. Served(q, o.queue)
    BY <2>2 DEF Loaded, ClumpsAtRest
  <2>6. q \in Q
    <3>1. o.es \in [Structures -> Clump(Q)]
      BY DEF Loaded
    <3> HIDE DEF Q
    <3>2. o.es[i.s] \in Clump(Q)
      BY <2>2, <3>1
    <3> QED BY <3>2 DEF Clump
  <2>7. Registering(o, Q) /\ Fields \subseteq DOMAIN o /\ DOMAIN o = Fields \cup {"queue", "es"}
    BY DEF Loaded
  <2> HIDE DEF v, t, q, uid, ref, Q
  <2>8. /\ Registering(n, Q) /\ DOMAIN n = DOMAIN o
        /\ \A x \in DOMAIN o \ Fields : n[x] = o[x]
        /\ OnlyMore(o.bucket, n.bucket, {q})
    <3>1. Registering(o, Q)
      BY <2>7
    <3>2. Fields \subseteq DOMAIN o
      BY <2>7
    <3>3. TRUE \in BOOLEAN
      OBVIOUS
    <3>4. ControlRegistered(o, n, q, Q)
      BY <2>1, <2>3, <2>4, <2>6, <3>1, <3>2, <3>3, RegisteredControlFacts
    <3> QED BY <3>4 DEF ControlRegistered
  <2>9. n.queue = o.queue /\ n.es = o.es
    <3>1. "queue" \in DOMAIN o \ Fields /\ "es" \in DOMAIN o \ Fields
      BY <2>7 DEF Fields
    <3> QED BY <2>8, <3>1
  <2>10. AllServed(n.bucket, o.queue)
    <3> DEFINE old == o.bucket
               new == n.bucket
               qs == o.queue
    <3>1. AllServed(old, qs) /\ OnlyMore(old, new, {q}) /\ Served(q, qs)
      BY <2>5, <2>8 DEF Loaded
    <3> HIDE DEF old, new, qs
    <3>2. AllServed(new, qs)
      BY <3>1, AllServedMore
    <3> QED BY <3>2 DEF new, qs
  <2> QED BY <2>7, <2>8, <2>9, <2>10 DEF Loaded, Q
<1> QED BY <1>1, <1>2

LEMMA SpecsRegisteredFacts ==
  ASSUME NEW o, Loaded(o), NEW n \in Nat, NEW list, DOMAIN list = 1 .. n, \A k \in 1 .. n : IsSpec(list[k]),
         NEW after, after = FoldLeft(SpecRegistered, o, list)
  PROVE  Loaded(after)
<1>1. after = Specs!Folded(o, list)
  BY DEF Specs!Folded, Specs!Greatest, FoldLeft, MapThenFoldSet, Max
<1>2. PICK f : Specs!Stages(o, list, n, f)
  BY SetInduction, Specs!FoldSteps DEF Specs!NaturalInduction
<1>3. after = f[n] /\ f[0] = o /\ \A k \in 1 .. n : f[k] = SpecRegistered(f[k - 1], list[k])
  BY <1>1, <1>2 DEF Specs!Stages
<1> DEFINE N == {k \in Nat : k <= n => Loaded(f[k])}
<1>4. 0 \in N
  BY <1>3
<1>5. ASSUME NEW k \in Nat, k \in N PROVE k + 1 \in N
  <2> SUFFICES ASSUME k + 1 <= n PROVE Loaded(f[k + 1])
    OBVIOUS
  <2> DEFINE p == f[k]
             i == list[k + 1]
             next == f[k + 1]
  <2>1. Loaded(p) /\ IsSpec(i) /\ next = SpecRegistered(p, i)
    <3>1. k + 1 \in 1 .. n /\ (k + 1) - 1 = k
      OBVIOUS
    <3> QED BY <1>3, <1>5, <3>1
  <2> HIDE DEF p, i, next
  <2>2. Loaded(next)
    BY <2>1, SpecRegisteredFacts
  <2> QED BY <2>2 DEF next
<1>6. Loaded(f[n])
  <2> HIDE DEF N
  <2>1. n \in N
    BY <1>4, <1>5, SetInduction
  <2> QED BY <2>1 DEF N
<1> QED BY <1>3, <1>6

LEMMA RegisteredStructureFacts ==
  ASSUME NEW o, Loaded(o), NEW s \in Structures, prog \in Programs, NEW n, n = RegisteredStructure(o, s)
  PROVE  Loaded(n)
<1> DEFINE q == FreeQueue(o.queue)
           qs == o.queue
           after == WithNewQueue(qs, q)
           e == o.es
           e1 == [e EXCEPT ![s].q = q, ![s].count = 0]
           o1 == [o EXCEPT !.queue = WithNewQueue(@, q), !.es[s].q = q, !.es[s].count = 0]
           list == SpecsOf(prog.specs, s)
           Q == DOMAIN qs
           R == DOMAIN after
<1>1. n = FoldLeft(SpecRegistered, o1, list)
  BY DEF RegisteredStructure
<1>2. /\ DOMAIN o = Fields \cup {"queue", "es"}
      /\ IsQueues(qs) /\ Registering(o, Q) /\ e \in [Structures -> Clump(Q)]
      /\ NoneQueued(qs) /\ ~ qs[NoQueue].active
      /\ ClumpsAtRest(e, qs) /\ AllServed(o.bucket, qs)
  BY DEF Loaded
<1>3. o1 = [o EXCEPT !.queue = after, !.es = e1]
  BY <1>2 DEF Fields
<1>4. q = FreeQueue(qs) /\ after = WithNewQueue(qs, q)
  OBVIOUS
<1> HIDE DEF o1, qs, q, after, e1, e, list
<1>5. /\ IsQueues(after)
      /\ DOMAIN after = DOMAIN qs \cup {q} /\ q # NoQueue
      /\ q \in DOMAIN qs => ~ qs[q].active /\ after[q].events = qs[q].events
      /\ q \notin DOMAIN qs => after[q].events = << >>
      /\ after[q].active /\ after[q].wakeUp = NoStructure
      /\ \A p \in DOMAIN qs \ {q} : after[p] = qs[p]
  <2>1. IsQueues(qs)
    BY <1>2
  <2>2. QueueAdded(qs, q, after)
    BY <1>4, <2>1, NewQueueFacts
  <2> QED BY <2>2 DEF QueueAdded
<1>6. NoneQueued(after) /\ ~ after[NoQueue].active
  <2>1. NoQueue \in DOMAIN qs
    BY <1>2, QueuesFinite
  <2> QED BY <1>2, <1>5, <2>1 DEF NoneQueued
<1>7. \A p : Served(p, qs) => Served(p, after)
  BY <1>5 DEF Served
<1>8. e1 \in [Structures -> Clump(R)] /\ ClumpsAtRest(e1, after)
  <2>1. Q \subseteq R /\ q \in R /\ Served(q, after)
    BY <1>5 DEF Served
  <2> HIDE DEF Q, R
  <2>2. e \in [Structures -> Clump(R)]
    BY <1>2, <2>1, MoreQueues
  <2>3. e1 = [e EXCEPT ![s] = [e[s] EXCEPT !.q = q, !.count = 0]]
    BY <2>2 DEF e1
  <2> DEFINE c == e[s]
             d == [c EXCEPT !.q = q, !.count = 0]
  <2>4. c \in Clump(R)
    BY <2>2
  <2>5. e1 = [e EXCEPT ![s] = d]
    BY <2>3
  <2> HIDE DEF c
  <2>6. /\ d \in Clump(R) /\ d.q = q /\ d.count = 0 /\ d.asleep = c.asleep /\ d.timer = c.timer
        /\ d.listed = c.listed /\ d.ready = c.ready /\ d.set = c.set /\ d.late = c.late
    BY <2>1, <2>4 DEF Clump
  <2> HIDE DEF d
  <2>7. e1 \in [Structures -> Clump(R)] /\ e1[s] = d /\ \A u \in Structures \ {s} : e1[u] = e[u]
    BY <2>2, <2>5, <2>6
  <2>8. AtRest(c)
    BY <1>2 DEF ClumpsAtRest, c
  <2>9. AtRest(d)
    BY <2>6, <2>8 DEF AtRest
  <2>10. \A u \in Structures : AtRest(e1[u]) /\ Served(e1[u].q, after)
    BY <1>2, <1>7, <2>1, <2>6, <2>7, <2>9 DEF ClumpsAtRest
  <2> QED BY <2>7, <2>10 DEF ClumpsAtRest
<1>9. /\ DOMAIN o1 = Fields \cup {"queue", "es"} /\ o1.queue = after /\ o1.es = e1
      /\ o1.bucket = o.bucket /\ o1.info = o.info /\ o1.listening = o.listening
  BY <1>2, <1>3 DEF Fields
<1>10. Registering(o1, R)
  <2>1. Q \subseteq R
    BY <1>5
  <2>2. IsBuckets(o.bucket, Q)
    BY <1>2 DEF Registering
  <2> HIDE DEF Q, R
  <2>3. IsBuckets(o.bucket, R)
    BY <2>1, <2>2, MoreQueues
  <2> QED BY <1>2, <1>9, <2>3 DEF Registering
<1>11. AllServed(o1.bucket, after)
  BY <1>2, <1>7, <1>9 DEF AllServed
<1>12. Loaded(o1)
  BY <1>5, <1>6, <1>8, <1>9, <1>10, <1>11 DEF Loaded
<1>13. prog.specs[s] \in Seq(Spec)
  BY EventsAssumption DEF Spec, Structures
<1> DEFINE m == Len(prog.specs[s])
<1>14. m \in Nat /\ DOMAIN list = 1 .. m
  BY <1>13 DEF list, SpecsOf
<1>15. \A k \in 1 .. m : IsSpec(list[k])
  <2> SUFFICES ASSUME NEW k \in 1 .. m PROVE IsSpec(list[k])
    OBVIOUS
  <2> DEFINE spec == prog.specs[s][k]
  <2>1. list[k] = [s |-> s, spec |-> spec] /\ spec \in Spec
    BY <1>13 DEF list, SpecsOf
  <2> HIDE DEF spec
  <2>2. list[k].s = s /\ list[k].spec = spec
    BY <2>1
  <2> QED BY <2>1, <2>2 DEF IsSpec
<1> HIDE DEF m
<1> QED BY <1>1, <1>12, <1>14, <1>15, SpecsRegisteredFacts

LEMMA RegisterForStaticEventsFacts ==
  ASSUME NEW o, Loaded(o), NEW v \in ToSet(VI), prog \in Programs, NEW after, after = RegisterForStaticEvents(o, v)
  PROVE  Loaded(after)
<1> DEFINE list == StructuresOf(v)
           n == Len(list)
<1>1. list \in Seq(Structures)
  <2>1. Structure \in Seq(Structures)
    BY EventsAssumption DEF Structures
  <2> QED BY <2>1, ChosenSet DEF StructuresOf
<1>2. n \in Nat /\ DOMAIN list = 1 .. n /\ \A k \in 1 .. n : list[k] \in Structures
  BY <1>1
<1>3. after = FoldLeft(RegisteredStructure, o, list)
  BY DEF RegisterForStaticEvents
<1> HIDE DEF n, list
<1>4. after = StaticStructures!Folded(o, list)
  BY <1>3 DEF StaticStructures!Folded, StaticStructures!Greatest, FoldLeft, MapThenFoldSet, Max
<1>5. PICK f : StaticStructures!Stages(o, list, n, f)
  BY <1>2, SetInduction, StaticStructures!FoldSteps DEF StaticStructures!NaturalInduction
<1>6. after = f[n] /\ f[0] = o /\ \A k \in 1 .. n : f[k] = RegisteredStructure(f[k - 1], list[k])
  BY <1>4, <1>5 DEF StaticStructures!Stages
<1> DEFINE N == {k \in Nat : k <= n => Loaded(f[k])}
<1>7. 0 \in N
  BY <1>6
<1>8. ASSUME NEW k \in Nat, k \in N PROVE k + 1 \in N
  <2> SUFFICES ASSUME k + 1 <= n PROVE Loaded(f[k + 1])
    OBVIOUS
  <2> DEFINE p == f[k]
             s == list[k + 1]
             next == f[k + 1]
  <2>1. Loaded(p) /\ s \in Structures /\ next = RegisteredStructure(p, s)
    <3>1. k + 1 \in 1 .. n /\ (k + 1) - 1 = k
      BY <1>2
    <3> QED BY <1>2, <1>6, <1>8, <3>1
  <2> HIDE DEF p, s, next
  <2>2. Loaded(next)
    BY <2>1, RegisteredStructureFacts
  <2> QED BY <2>2 DEF next
<1>9. Loaded(f[n])
  <2> HIDE DEF N
  <2>1. n \in N
    BY <1>2, <1>7, <1>8, SetInduction
  <2> QED BY <1>2, <2>1 DEF N
<1> QED BY <1>6, <1>9

LEMMA EmptyOracleLoaded == Loaded(EmptyOracle)
<1> DEFINE b == [uid |-> NoRef, ref |-> NoRef, lists |-> NoLists]
           bs == [i \in {AppIndex} |-> b]
           z == [NewQueue EXCEPT !.active = FALSE]
           qs == [q \in {NoQueue} |-> z]
           inf == [v \in ToSet(VI) |-> [r \in {} |-> NoRef]]
           e == [s \in Structures |-> Idle]
           Q == DOMAIN qs
<1>1. EmptyOracle = [bucket |-> bs, queue |-> qs, info |-> inf, es |-> e, listening |-> {}]
  BY DEF EmptyOracle
<1> DEFINE new == NewQueue
<1>a. new \in Queue /\ new.events = << >>
  BY DEF NewQueue, Queue
<1>b. z = [new EXCEPT !.active = FALSE]
  OBVIOUS
<1> HIDE DEF new
<1>2. z \in Queue /\ z.events = << >> /\ ~ z.active
  BY <1>a, <1>b DEF Queue
<1>3. {NoQueue} = 0 .. 1 - 1 /\ {AppIndex} = 0 .. 1 - 1 /\ 1 \in Nat \ {0}
  BY DEF NoQueue, AppIndex
<1>4. z \in Queue
  BY <1>2
<1> HIDE DEF z
<1>5. DOMAIN qs = 0 .. 1 - 1 /\ qs \in [0 .. 1 - 1 -> Queue]
  BY <1>3, <1>4
<1>6. IsQueues(qs) /\ NoneQueued(qs) /\ ~ qs[NoQueue].active /\ NoQueue \in Q
  BY <1>2, <1>3, <1>5 DEF IsQueues, NoneQueued
<1>7. b \in Bucket(Q)
  <2> HIDE DEF Q
  <2> QED BY NoListsFacts DEF Bucket, NoRef
<1> HIDE DEF b
<1>8. bs \in [0 .. 1 - 1 -> Bucket(Q)]
  BY <1>3, <1>7
<1>9. IsBuckets(bs, Q)
  BY <1>3, <1>8 DEF IsBuckets
<1>10. AllServed(bs, qs)
  <2>1. b.lists = NoLists
    BY DEF b
  <2> QED BY <2>1 DEF AllServed
<1>11. IsInfo(inf, DOMAIN bs)
  BY DEF IsInfo
<1>12. e \in [Structures -> Clump(Q)] /\ ClumpsAtRest(e, qs)
  <2> HIDE DEF Q
  <2>1. Idle \in Clump(Q)
    BY <1>6 DEF Idle, Clump
  <2>2. /\ ~ Idle.asleep /\ ~ Idle.timer /\ ~ Idle.listed /\ ~ Idle.ready
        /\ Idle.count = 0 /\ Idle.set = 0 /\ Idle.late = 0 /\ Idle.q = NoQueue
    BY DEF Idle
  <2>3. AtRest(Idle) /\ Served(Idle.q, qs)
    BY <2>2 DEF AtRest, Served
  <2> QED BY <2>1, <2>3 DEF ClumpsAtRest
<1> DEFINE o == EmptyOracle
<1>13. /\ DOMAIN o = Fields \cup {"queue", "es"} /\ o.queue = qs /\ o.bucket = bs /\ o.info = inf
       /\ o.es = e /\ o.listening = {}
  BY <1>1 DEF Fields
<1> HIDE DEF bs, qs, inf, e, o
<1>14. Loaded(o)
  BY <1>6, <1>9, <1>10, <1>11, <1>12, <1>13 DEF Loaded, Registering
<1> QED BY <1>14 DEF o

LEMMA LoadedFacts ==
  ASSUME prog \in Programs, NEW after, after = FoldLeft(RegisterForStaticEvents, EmptyOracle, VI)
  PROVE  Loaded(after)
<1> DEFINE o == EmptyOracle
           n == Len(VI)
<1>1. n \in Nat /\ DOMAIN VI = 1 .. n /\ \A k \in 1 .. n : VI[k] \in ToSet(VI)
  BY EventsAssumption
<1>2. Loaded(o) /\ after = FoldLeft(RegisterForStaticEvents, o, VI)
  BY EmptyOracleLoaded
<1> HIDE DEF o, n
<1>3. after = StaticVIs!Folded(o, VI)
  BY <1>2 DEF StaticVIs!Folded, StaticVIs!Greatest, FoldLeft, MapThenFoldSet, Max
<1>4. PICK f : StaticVIs!Stages(o, VI, n, f)
  BY <1>1, SetInduction, StaticVIs!FoldSteps DEF StaticVIs!NaturalInduction
<1>5. after = f[n] /\ f[0] = o /\ \A k \in 1 .. n : f[k] = RegisterForStaticEvents(f[k - 1], VI[k])
  BY <1>3, <1>4 DEF StaticVIs!Stages
<1> DEFINE N == {k \in Nat : k <= n => Loaded(f[k])}
<1>6. 0 \in N
  BY <1>2, <1>5
<1>7. ASSUME NEW k \in Nat, k \in N PROVE k + 1 \in N
  <2> SUFFICES ASSUME k + 1 <= n PROVE Loaded(f[k + 1])
    OBVIOUS
  <2> DEFINE p == f[k]
             v == VI[k + 1]
             next == f[k + 1]
  <2>1. Loaded(p) /\ v \in ToSet(VI) /\ next = RegisterForStaticEvents(p, v)
    <3>1. k + 1 \in 1 .. n /\ (k + 1) - 1 = k
      BY <1>1
    <3> QED BY <1>1, <1>5, <1>7, <3>1
  <2> HIDE DEF p, v, next
  <2>2. Loaded(next)
    BY <2>1, RegisterForStaticEventsFacts
  <2> QED BY <2>2 DEF next
<1>8. Loaded(f[n])
  <2> HIDE DEF N
  <2>1. n \in N
    BY <1>1, <1>6, <1>7, SetInduction
  <2> QED BY <1>1, <2>1 DEF N
<1> QED BY <1>5, <1>8

\* What unregistering leaves behind: nothing is listed that has not been, and of
\* the application's lists only the queues of structures are taken off.
Unlisted(o, n, Q) ==
  /\ Registering(n, Q) /\ DOMAIN n.bucket = DOMAIN o.bucket
  /\ \A i \in DOMAIN o.bucket : \A t \in EventType : ToSet(n.bucket[i].lists[t]) \subseteq ToSet(o.bucket[i].lists[t])
  /\ \A e \in Listeners(o.bucket[AppIndex]) :
       e \in Listeners(n.bucket[AppIndex]) \/ (\E s \in Structures : e.q = es[s].q)

LEMMA SpecUnregisteredFacts ==
  ASSUME NEW Q, NEW o, Registering(o, Q), NEW i, IsSpec(i), NEW n, n = SpecUnregistered(o, i)
  PROVE  Unlisted(o, n, Q)
<1> DEFINE v == Owner[i.s]
           t == i.spec.type
           ref == i.spec.ref
           bs == o.bucket
           inf == o.info
           B == DOMAIN bs
           known == inf[v][ref]
           j == known.index
           e == [q |-> es[i.s].q, ref |-> ref]
           b == Removed(bs[j], t, e)
           inf1 == [inf EXCEPT ![v] = Restrict(inf[v], DOMAIN inf[v] \ {ref})]
           gone == {[vi |-> v, uid |-> known.uid, type |-> t, index |-> j]}
<1>1. i.s \in Structures /\ i.spec \in Spec
  BY DEF IsSpec
<1>2. v \in ToSet(VI) /\ t \in EventType
  BY <1>1, EventsAssumption DEF Structures, Spec
<1>3. IsBuckets(bs, Q) /\ IsInfo(inf, B) /\ o.listening \subseteq Heed(B)
  BY DEF Registering
<1>4. CASE ref \notin DOMAIN inf[v]
  <2>1. n = o
    BY <1>4 DEF SpecUnregistered
  <2> QED BY <2>1 DEF Unlisted
<1>5. CASE ref \in DOMAIN inf[v]
  <2>1. n = [bucket |-> [bs EXCEPT ![j] = b], info |-> inf1, listening |-> o.listening \ gone]
    BY <1>2, <1>3, <1>5 DEF SpecUnregistered, IsInfo
  <2>2. known \in Where(B)
    BY <1>2, <1>3, <1>5 DEF IsInfo
  <2>3. j \in B
    <3> HIDE DEF B, known
    <3> QED BY <2>2 DEF Where
  <2>4. PICK m \in Nat \ {0} : bs \in [0 .. m - 1 -> Bucket(Q)]
    BY <1>3 DEF IsBuckets
  <2>5. B = 0 .. m - 1
    BY <2>4
  <2>a. e.q = es[i.s].q
    OBVIOUS
  <2> HIDE DEF v, t, ref, known, j, e, gone
  <2>6. b \in Bucket(Q) /\ ToSet(b.lists[t]) = ToSet(bs[j].lists[t]) \ {e}
        /\ \A u \in EventType \ {t} : b.lists[u] = bs[j].lists[u]
    <3> DEFINE old == bs[j]
    <3>1. old \in Bucket(Q) /\ b = Removed(old, t, e)
      BY <2>3, <2>4, <2>5
    <3> HIDE DEF old, b
    <3>2. b \in Bucket(Q) /\ ToSet(b.lists[t]) = ToSet(old.lists[t]) \ {e}
          /\ \A u \in EventType \ {t} : b.lists[u] = old.lists[u]
      BY <1>2, <3>1, RemovedFacts
    <3> QED BY <3>2 DEF old
  <2> HIDE DEF b
  <2> DEFINE bs1 == [bs EXCEPT ![j] = b]
  <2>7. bs1 \in [0 .. m - 1 -> Bucket(Q)] /\ DOMAIN bs1 = B /\ bs1[j] = b /\ \A k \in B \ {j} : bs1[k] = bs[k]
    BY <2>3, <2>4, <2>5, <2>6
  <2> HIDE DEF bs1
  <2>8. IsBuckets(bs1, Q)
    BY <2>7 DEF IsBuckets
  <2>9. IsInfo(inf1, B)
    <3> DEFINE inf2 == Restrict(inf[v], DOMAIN inf[v] \ {ref})
    <3>1. \A x \in DOMAIN inf2 : inf2[x] \in Where(B)
      BY <1>2, <1>3 DEF IsInfo, Restrict
    <3> HIDE DEF inf2
    <3>2. inf1 = [inf EXCEPT ![v] = inf2]
      BY DEF inf2
    <3> HIDE DEF inf1
    <3>3. DOMAIN inf1 = ToSet(VI) /\ inf1[v] = inf2 /\ \A u \in ToSet(VI) \ {v} : inf1[u] = inf[u]
      BY <1>2, <1>3, <3>2 DEF IsInfo
    <3>4. \A u \in ToSet(VI) : \A x \in DOMAIN inf1[u] : inf1[u][x] \in Where(B)
      BY <1>3, <3>1, <3>3 DEF IsInfo
    <3> QED BY <3>3, <3>4 DEF IsInfo
  <2> HIDE DEF inf1
  <2>10. n.bucket = bs1 /\ n.info = inf1 /\ n.listening = o.listening \ gone
    BY <2>1 DEF bs1
  <2>11. Registering(n, Q)
    BY <1>3, <2>7, <2>8, <2>9, <2>10 DEF Registering
  <2>12. ASSUME NEW k \in B, NEW u \in EventType
         PROVE  ToSet(bs1[k].lists[u]) \subseteq ToSet(bs[k].lists[u])
    <3>1. CASE k # j
      BY <2>7, <3>1
    <3>2. CASE k = j
      BY <2>6, <2>7, <3>2
    <3> QED BY <3>1, <3>2
  <2>13. ASSUME NEW x \in Listeners(bs[AppIndex])
         PROVE  x \in Listeners(bs1[AppIndex]) \/ (\E s \in Structures : x.q = es[s].q)
    <3>1. CASE x = e
      BY <1>1, <2>a, <3>1
    <3>2. CASE x # e
      <4>1. AppIndex \in B /\ "UserEvent" \in EventType
        BY <2>5 DEF AppIndex, EventType
      <4>2. CASE AppIndex = j
        BY <2>6, <2>7, <2>13, <3>2, <4>1, <4>2 DEF Listeners
      <4>3. CASE AppIndex # j
        BY <2>7, <2>13, <4>1, <4>3
      <4> QED BY <4>2, <4>3
    <3> QED BY <3>1, <3>2
  <2> QED BY <2>7, <2>10, <2>11, <2>12, <2>13 DEF Unlisted
<1> QED BY <1>4, <1>5

LEMMA UnlistedMore ==
  ASSUME NEW Q, NEW o, NEW p, NEW n, Unlisted(o, p, Q), Unlisted(p, n, Q)
  PROVE  Unlisted(o, n, Q)
<1>1. Registering(n, Q) /\ DOMAIN n.bucket = DOMAIN o.bucket
  BY DEF Unlisted
<1>2. \A i \in DOMAIN o.bucket : \A t \in EventType : ToSet(n.bucket[i].lists[t]) \subseteq ToSet(o.bucket[i].lists[t])
  BY DEF Unlisted
<1>3. \A e \in Listeners(o.bucket[AppIndex]) :
        e \in Listeners(n.bucket[AppIndex]) \/ (\E s \in Structures : e.q = es[s].q)
  BY DEF Unlisted
<1> QED BY <1>1, <1>2, <1>3 DEF Unlisted

LEMMA UnlistedNothing ==
  ASSUME NEW Q, NEW o, Registering(o, Q)
  PROVE  Unlisted(o, o, Q)
BY DEF Unlisted

LEMMA StructureUnregisteredFacts ==
  ASSUME specs \in [Structures -> Seq(Spec)], NEW Q, NEW o, Registering(o, Q), NEW s \in Structures,
         NEW after, after = StructureUnregistered(o, s)
  PROVE  Unlisted(o, after, Q)
<1> DEFINE list == SpecsOf(specs, s)
           n == Len(specs[s])
<1>1. after = FoldLeft(SpecUnregistered, o, list)
  BY DEF StructureUnregistered
<1>2. specs[s] \in Seq(Spec)
  OBVIOUS
<1>3. n \in Nat /\ DOMAIN list = 1 .. n
  BY <1>2 DEF SpecsOf
<1>4. \A k \in 1 .. n : IsSpec(list[k])
  <2> SUFFICES ASSUME NEW k \in 1 .. n PROVE IsSpec(list[k])
    OBVIOUS
  <2> DEFINE spec == specs[s][k]
  <2>1. list[k] = [s |-> s, spec |-> spec] /\ spec \in Spec
    BY <1>2 DEF SpecsOf
  <2> HIDE DEF spec, list
  <2>2. list[k].s = s /\ list[k].spec = spec
    BY <2>1
  <2> QED BY <2>1, <2>2 DEF IsSpec
<1> HIDE DEF n, list
<1>5. after = SpecsGone!Folded(o, list)
  BY <1>1 DEF SpecsGone!Folded, SpecsGone!Greatest, FoldLeft, MapThenFoldSet, Max
<1>6. PICK f : SpecsGone!Stages(o, list, n, f)
  BY <1>3, SetInduction, SpecsGone!FoldSteps DEF SpecsGone!NaturalInduction
<1>7. after = f[n] /\ f[0] = o /\ \A k \in 1 .. n : f[k] = SpecUnregistered(f[k - 1], list[k])
  BY <1>5, <1>6 DEF SpecsGone!Stages
<1> DEFINE N == {k \in Nat : k <= n => Unlisted(o, f[k], Q)}
<1>8. 0 \in N
  BY <1>7, UnlistedNothing
<1>9. ASSUME NEW k \in Nat, k \in N PROVE k + 1 \in N
  <2> SUFFICES ASSUME k + 1 <= n PROVE Unlisted(o, f[k + 1], Q)
    OBVIOUS
  <2> DEFINE p == f[k]
             i == list[k + 1]
             next == f[k + 1]
  <2>1. Unlisted(o, p, Q) /\ IsSpec(i) /\ next = SpecUnregistered(p, i)
    <3>1. k + 1 \in 1 .. n /\ (k + 1) - 1 = k
      BY <1>3
    <3> QED BY <1>3, <1>4, <1>7, <1>9, <3>1
  <2> HIDE DEF p, i, next
  <2>2. Registering(p, Q)
    BY <2>1 DEF Unlisted
  <2>3. Unlisted(p, next, Q)
    BY <2>1, <2>2, SpecUnregisteredFacts
  <2>4. Unlisted(o, next, Q)
    BY <2>1, <2>3, UnlistedMore
  <2> QED BY <2>4 DEF next
<1>10. Unlisted(o, f[n], Q)
  <2> HIDE DEF N
  <2>1. n \in N
    BY <1>3, <1>8, <1>9, SetInduction
  <2> QED BY <1>3, <2>1 DEF N
<1> QED BY <1>7, <1>10

\* All structures of a VI.
LEMMA StructuresUnregisteredFacts ==
  ASSUME specs \in [Structures -> Seq(Spec)], NEW Q, NEW o, Registering(o, Q), NEW v \in ToSet(VI),
         NEW after, after = FoldLeft(StructureUnregistered, o, StructuresOf(v))
  PROVE  Unlisted(o, after, Q)
<1> DEFINE list == StructuresOf(v)
           n == Len(list)
<1>1. list \in Seq(Structures)
  <2>1. Structure \in Seq(Structures)
    BY EventsAssumption DEF Structures
  <2> QED BY <2>1, ChosenSet DEF StructuresOf
<1>2. n \in Nat /\ DOMAIN list = 1 .. n /\ \A k \in 1 .. n : list[k] \in Structures
  BY <1>1
<1>3. after = FoldLeft(StructureUnregistered, o, list)
  OBVIOUS
<1> HIDE DEF n, list
<1>4. after = StructuresGone!Folded(o, list)
  BY <1>3 DEF StructuresGone!Folded, StructuresGone!Greatest, FoldLeft, MapThenFoldSet, Max
<1>5. PICK f : StructuresGone!Stages(o, list, n, f)
  BY <1>2, SetInduction, StructuresGone!FoldSteps DEF StructuresGone!NaturalInduction
<1>6. after = f[n] /\ f[0] = o /\ \A k \in 1 .. n : f[k] = StructureUnregistered(f[k - 1], list[k])
  BY <1>4, <1>5 DEF StructuresGone!Stages
<1> DEFINE N == {k \in Nat : k <= n => Unlisted(o, f[k], Q)}
<1>7. 0 \in N
  BY <1>6, UnlistedNothing
<1>8. ASSUME NEW k \in Nat, k \in N PROVE k + 1 \in N
  <2> SUFFICES ASSUME k + 1 <= n PROVE Unlisted(o, f[k + 1], Q)
    OBVIOUS
  <2> DEFINE p == f[k]
             s == list[k + 1]
             next == f[k + 1]
  <2>1. Unlisted(o, p, Q) /\ s \in Structures /\ next = StructureUnregistered(p, s)
    <3>1. k + 1 \in 1 .. n /\ (k + 1) - 1 = k
      BY <1>2
    <3> QED BY <1>2, <1>6, <1>8, <3>1
  <2> HIDE DEF p, s, next
  <2>2. Registering(p, Q)
    BY <2>1 DEF Unlisted
  <2>3. Unlisted(p, next, Q)
    BY <2>1, <2>2, StructureUnregisteredFacts
  <2>4. Unlisted(o, next, Q)
    BY <2>1, <2>3, UnlistedMore
  <2> QED BY <2>4 DEF next
<1>9. Unlisted(o, f[n], Q)
  <2> HIDE DEF N
  <2>1. n \in N
    BY <1>2, <1>7, <1>8, SetInduction
  <2> QED BY <1>2, <2>1 DEF N
<1> QED BY <1>6, <1>9

-----------------------------------------------------------------------------
(* The invariant: at first, and after every step.                           *)

LEMMA InitInv ==
  ASSUME EventsInit
  PROVE  Inv
<1> DEFINE o == FoldLeft(RegisterForStaticEvents, EmptyOracle, VI)
<1>1. prog \in Programs
  BY DEF EventsInit
<1>2. o = FoldLeft(RegisterForStaticEvents, EmptyOracle, VI)
  OBVIOUS
<1>3. /\ bucket = o.bucket /\ queue = o.queue /\ info = o.info /\ es = o.es /\ listening = o.listening
      /\ specs = prog.specs /\ regVar = [x \in RegVar |-> 0] /\ regs = << >>
      /\ cleanup = [v \in ToSet(VI) |-> {}] /\ count = 0 /\ created = 0
  BY DEF EventsInit
<1> HIDE DEF o
<1>4. Loaded(o)
  BY <1>1, <1>2, LoadedFacts
<1>5. /\ IsQueues(queue) /\ IsBuckets(bucket, DOMAIN queue) /\ IsInfo(info, DOMAIN bucket)
      /\ listening \subseteq Heed(DOMAIN bucket) /\ es \in [Structures -> Clump(DOMAIN queue)]
      /\ NoneQueued(queue) /\ ~ queue[NoQueue].active
      /\ ClumpsAtRest(es, queue) /\ AllServed(bucket, queue)
  BY <1>3, <1>4 DEF Loaded, Registering
<1>6. DOMAIN regs = {} /\ Len(regs) = 0
  BY <1>3
<1>7. \A q : Served(q, queue) => Static(q, queue, regs)
  BY <1>6 DEF Served, Static
<1>8. Types
  <2>1. prog.events \in Nat /\ prog.specs \in [ToSet(Structure) -> Seq([type : EventType, ref : Nat, dyn : Nat])]
    BY <1>1, EventsAssumption
  <2>2. specs \in [Structures -> Seq(Spec)]
    BY <1>3, <2>1 DEF Structures, Spec
  <2>3. regs \in Seq(Reg(DOMAIN queue)) /\ regVar \in [RegVar -> 0 .. Len(regs)] /\ count \in 0 .. prog.events
    BY <1>3, <1>6, <2>1
  <2>4. /\ cleanup \in [ToSet(VI) -> SUBSET Record]
        /\ \A v \in ToSet(VI) : \A c \in cleanup[v] : c.kind = "reg" => c.ref \in 1 .. Len(regs)
    BY <1>3
  <2> QED BY <1>1, <1>3, <1>5, <2>2, <2>3, <2>4 DEF Types
<1>a. AppIndex \in DOMAIN bucket /\ bucket[AppIndex].lists = NoLists
  BY <1>5 DEF AllServed, IsBuckets, AppIndex
<1>b. \A t \in EventType : bucket[AppIndex].lists[t] = << >> /\ ToSet(bucket[AppIndex].lists[t]) = {}
  BY <1>a, NoListsFacts
<1>9. Owners
  <2>1. OwnQueues(queue, regs)
    BY <1>5, <1>6, QueuesFinite DEF OwnQueues
  <2>2. \A s \in Structures : Static(es[s].q, queue, regs)
    BY <1>5, <1>7 DEF ClumpsAtRest
  <2>3. StaticBuckets(bucket, queue, regs)
    BY <1>5, <1>7, <1>b DEF StaticBuckets, AllServed, EventType
  <2> QED BY <2>1, <2>2, <2>3 DEF Owners
<1>10. InOrder(queue, count)
  BY <1>5 DEF InOrder, NoneQueued
<1>11. Scalars /\ RightKinds(regVar, regs) /\ HeardIn(regs, bucket[AppIndex])
  BY <1>6 DEF Scalars, RightKinds, HeardIn, SingleRefsIn, AllScalarIn
<1>12. Strays
  <2>1. Listeners(bucket[AppIndex]) = {}
    BY <1>b DEF Listeners, EventType
  <2> QED BY <1>5, <1>6, <2>1 DEF Strays, KnownIn, EmptyIn, YoungIn, NoneQueued
<1> QED BY <1>8, <1>9, <1>10, <1>11, <1>12 DEF Inv

\* What the invariant is about does not change, but for the types.
LEMMA FrameInv ==
  ASSUME Inv, Types',
         queue' = queue, bucket' = bucket, regs' = regs, regVar' = regVar, count' = count, prog' = prog,
         \A s \in Structures : es'[s].q = es[s].q
  PROVE  Inv'
<1>1. Owners' /\ InOrder(queue, count)' /\ Scalars' /\ RightKinds(regVar, regs)'
  BY DEF Inv, Owners, Scalars, RightKinds, ScalarOnly
<1>2. HeardIn(regs, bucket[AppIndex])' /\ Strays'
  BY DEF Inv, Strays, ScalarOnly
<1> QED BY <1>1, <1>2 DEF Inv

LEMMA ProgramFacts ==
  ASSUME NEW p \in Programs
  PROVE  /\ p.wired \in [Structures -> Seq(RegVar)] /\ p.kinds \in [RegVar -> Seq(Kinds)]
         /\ p.events \in Nat /\ p.events < SeqNumbers \div 2 /\ p.events <= MaxBehind
         /\ p.timed \in [Structures -> SUBSET BOOLEAN \ {{}}]
         /\ \A x \in RegVar : \A input \in p.inputs[x] :
              /\ input \in Seq(Seq(Nat)) /\ Len(input) = Len(p.kinds[x])
              /\ \A k \in DOMAIN input : p.kinds[x][k] = "scalar" => Len(input[k]) <= 1
BY EventsAssumption DEF Structures

LEMMA CreateInv ==
  ASSUME Inv, NEW v \in ToSet(VI), CreateUserEvent(v)
  PROVE  Inv'
<1> DEFINE c == [kind |-> "user", ref |-> UserEvent[created + 1]]
<1>1. /\ prog' = prog /\ es' = es /\ specs' = specs /\ queue' = queue /\ bucket' = bucket /\ info' = info
      /\ regVar' = regVar /\ regs' = regs /\ count' = count /\ listening' = listening
      /\ cleanup' = [cleanup EXCEPT ![v] = @ \cup {c}] /\ created < Len(UserEvent)
  BY DEF CreateUserEvent
<1>2. Types
  BY DEF Inv
<1>3. c \in Record /\ c.kind # "reg"
  <2>1. UserEvent[created + 1] \in Nat
    <3>1. UserEvent \in Seq(Nat) /\ created \in Nat
      BY <1>2, EventsAssumption DEF Types
    <3>2. created + 1 \in 1 .. Len(UserEvent)
      BY <1>1, <3>1
    <3> QED BY <3>1, <3>2
  <2> QED BY <2>1 DEF Record
<1> HIDE DEF c
<1>4. /\ cleanup' \in [ToSet(VI) -> SUBSET Record]
      /\ \A w \in ToSet(VI) : \A d \in cleanup'[w] : d.kind = "reg" => d.ref \in 1 .. Len(regs)
  <2>1. /\ cleanup \in [ToSet(VI) -> SUBSET Record]
        /\ \A w \in ToSet(VI) : \A d \in cleanup[w] : d.kind = "reg" => d.ref \in 1 .. Len(regs)
    BY <1>2 DEF Types
  <2> QED BY <1>1, <1>3, <2>1
<1>5. Types'
  BY <1>1, <1>2, <1>4 DEF Types, CreateUserEvent
<1> QED BY <1>1, <1>5, FrameInv

\* Steps that change nothing that the invariant is about.
LEMMA QuietInv ==
  ASSUME Inv,
         UNCHANGED << prog, es, specs, queue, bucket, info, regVar, regs, created, cleanup, count, listening >>
  PROVE  Inv'
<1>1. Types'
  BY DEF Inv, Types
<1> QED BY <1>1, FrameInv

LEMMA TimerInv ==
  ASSUME Inv, NEW s \in Structures, TimerExpires(s)
  PROVE  Inv'
<1>1. Types /\ es' = [es EXCEPT ![s].timer = FALSE, ![s].ready = TRUE]
  BY DEF Inv, TimerExpires
<1>2. es \in [Structures -> Clump(DOMAIN queue)]
  BY <1>1 DEF Types
<1> DEFINE Q == DOMAIN queue
           e == es[s]
           d == [e EXCEPT !.timer = FALSE, !.ready = TRUE]
<1>3. e \in Clump(Q) /\ es' = [es EXCEPT ![s] = d]
  BY <1>1, <1>2
<1> HIDE DEF Q, e
<1>4. d \in Clump(Q) /\ d.q = e.q
  BY <1>3 DEF Clump
<1> HIDE DEF d
<1>5. es' \in [Structures -> Clump(Q)] /\ \A u \in Structures : es'[u].q = es[u].q
  BY <1>2, <1>3, <1>4 DEF Q, e
<1>6. Types'
  BY <1>1, <1>5 DEF Types, TimerExpires, Q
<1> QED BY <1>5, <1>6, FrameInv DEF TimerExpires

LEMMA InfoFacts ==
  ASSUME NEW B, AppIndex \in B, IsInfo(info, B), NEW v \in ToSet(VI), NEW ref
  PROVE  /\ \A x \in DOMAIN WithInfo(v, ref) : WithInfo(v, ref)[x] \in Where(B)
         /\ ref \in DOMAIN WithInfo(v, ref)
         /\ IsInfo([info EXCEPT ![v] = WithInfo(v, ref)], B)
<1> DEFINE w == [index |-> AppIndex, uid |-> NoRef]
           inf == WithInfo(v, ref)
<1>1. w \in Where(B)
  BY DEF Where, NoRef
<1> HIDE DEF w
<1>2. inf = IF ref \in DOMAIN info[v] THEN info[v] ELSE Extended(info[v], ref, w)
  BY DEF WithInfo, w
<1>3. \A x \in DOMAIN info[v] : info[v][x] \in Where(B)
  BY DEF IsInfo
<1>4. (\A x \in DOMAIN inf : inf[x] \in Where(B)) /\ ref \in DOMAIN inf
  BY <1>1, <1>2, <1>3 DEF Extended
<1> HIDE DEF inf
<1> DEFINE info1 == [info EXCEPT ![v] = inf]
<1>5. DOMAIN info1 = ToSet(VI) /\ info1[v] = inf /\ \A u \in ToSet(VI) \ {v} : info1[u] = info[u]
  BY DEF IsInfo
<1> HIDE DEF info1
<1>6. \A u \in ToSet(VI) : \A x \in DOMAIN info1[u] : info1[u][x] \in Where(B)
  BY <1>4, <1>5 DEF IsInfo
<1>7. IsInfo(info1, B)
  BY <1>5, <1>6 DEF IsInfo
<1> QED BY <1>4, <1>7 DEF info1, inf

LEMMA ListenInv ==
  ASSUME Inv, NEW v \in ToSet(VI), NEW j \in JSRef, NEW t \in UIEvents, RegisterForJSEvent(v, j, t)
  PROVE  Inv'
<1> DEFINE B == DOMAIN bucket
           inf == WithInfo(v, j)
<1>1. Types /\ IsBuckets(bucket, DOMAIN queue) /\ IsInfo(info, B) /\ listening \subseteq Heed(B)
  BY DEF Inv, Types
<1>2. AppIndex \in B
  BY <1>1 DEF IsBuckets, AppIndex
<1>3. info' = [info EXCEPT ![v] = inf]
      /\ listening' = listening \cup {[vi |-> v, uid |-> info'[v][j].uid, type |-> t, index |-> info'[v][j].index]}
  BY DEF RegisterForJSEvent
<1>4. (\A x \in DOMAIN inf : inf[x] \in Where(B)) /\ j \in DOMAIN inf /\ IsInfo(info', B)
  BY <1>1, <1>2, <1>3, InfoFacts
<1>5. info'[v][j] \in Where(B)
  <2>1. info'[v] = inf
    BY <1>1, <1>3 DEF IsInfo
  <2> QED BY <1>4, <2>1
<1>6. info'[v][j].uid \in Nat /\ info'[v][j].index \in B
  <2> DEFINE w == info'[v][j]
  <2>1. w \in Where(B)
    BY <1>5
  <2> HIDE DEF w, B
  <2>2. w.uid \in Nat /\ w.index \in B
    BY <2>1 DEF Where
  <2> QED BY <2>2 DEF w
<1>7. listening' \subseteq Heed(B)
  <2> DEFINE w == info'[v][j]
             h == [vi |-> v, uid |-> w.uid, type |-> t, index |-> w.index]
  <2>1. w.uid \in Nat /\ w.index \in B /\ t \in EventType
    BY <1>6 DEF EventType
  <2>2. listening' = listening \cup {h}
    BY <1>3
  <2> HIDE DEF w, B
  <2>3. h \in Heed(B)
    BY <2>1 DEF Heed
  <2> QED BY <1>1, <2>2, <2>3
<1>8. Types'
  BY <1>1, <1>4, <1>7 DEF Types, RegisterForJSEvent
<1> QED BY <1>8, FrameInv DEF RegisterForJSEvent

LEMMA FiredFacts ==
  ASSUME NEW Q, NEW e \in Clump(Q), NEW k \in Nat, NEW d, d = Fired(e, k)
  PROVE  /\ d \in Clump(Q) /\ d.q = e.q /\ d.count = e.count /\ d.late = e.late /\ d.asleep = e.asleep
         /\ d.set = e.set + k
         /\ IF k > 0 /\ e.listed THEN ~ d.listed /\ ~ d.timer /\ d.ready
            ELSE d.listed = e.listed /\ d.timer = e.timer /\ d.ready = e.ready
<1>1. CASE k > 0 /\ e.listed
  <2> DEFINE a == [e EXCEPT !.set = @ + k]
             c == [a EXCEPT !.listed = FALSE]
  <2>1. d = [c EXCEPT !.timer = FALSE, !.ready = TRUE]
    BY <1>1 DEF Fired
  <2>a. /\ a \in Clump(Q) /\ a.q = e.q /\ a.count = e.count /\ a.late = e.late /\ a.asleep = e.asleep
        /\ a.set = e.set + k
    BY DEF Clump
  <2> HIDE DEF a
  <2>2. /\ c \in Clump(Q) /\ c.q = e.q /\ c.count = e.count /\ c.late = e.late /\ c.asleep = e.asleep
        /\ c.set = e.set + k /\ ~ c.listed
    BY <2>a DEF Clump
  <2> HIDE DEF c
  <2>3. /\ d \in Clump(Q) /\ d.q = c.q /\ d.count = c.count /\ d.late = c.late /\ d.asleep = c.asleep
        /\ d.set = c.set /\ d.listed = c.listed /\ ~ d.timer /\ d.ready
    BY <2>1, <2>2 DEF Clump
  <2> QED BY <1>1, <2>2, <2>3
<1>2. CASE ~ (k > 0 /\ e.listed)
  <2>1. d = [e EXCEPT !.set = @ + k]
    BY <1>2 DEF Fired
  <2> QED BY <1>2, <2>1 DEF Clump
<1> QED BY <1>1, <1>2

\* Queues change what they hold and whom they wake, and nothing else.
SameQueues(qs, new) ==
  IsQueues(new) /\ DOMAIN new = DOMAIN qs /\ \A q \in DOMAIN qs : new[q].active = qs[q].active

LEMMA OwnersKept ==
  ASSUME Inv, SameQueues(queue, queue'), bucket' = bucket, regs' = regs,
         \A s \in Structures : es'[s].q = es[s].q
  PROVE  Owners'
<1>1. Owners /\ Types
  BY DEF Inv
<1>2. DOMAIN queue' = DOMAIN queue /\ \A q \in DOMAIN queue : queue'[q].active = queue[q].active
  BY DEF SameQueues
<1>3. \A r \in DOMAIN regs : regs[r].q \in DOMAIN queue
  <2>1. regs \in Seq(Reg(DOMAIN queue))
    BY <1>1 DEF Types
  <2> DEFINE Q == DOMAIN queue
  <2>2. \A r \in DOMAIN regs : regs[r] \in Reg(Q)
    BY <2>1
  <2> HIDE DEF Q
  <2>3. \A r \in DOMAIN regs : regs[r].q \in Q
    BY <2>2 DEF Reg
  <2> QED BY <2>3 DEF Q
<1>4. OwnQueues(queue', regs)
  BY <1>1, <1>2, <1>3 DEF Owners, OwnQueues
<1>5. \A q : Static(q, queue, regs) => Static(q, queue', regs)
  BY <1>2 DEF Static
<1>6. \A s \in Structures : Static(es'[s].q, queue', regs)
  BY <1>1, <1>5 DEF Owners
<1>7. StaticBuckets(bucket, queue', regs)
  BY <1>1, <1>5 DEF Owners, StaticBuckets
<1> QED BY <1>4, <1>6, <1>7 DEF Owners

\* The types, when queues, clumps, the count of events and the map of controls change.
LEMMA TypesKept ==
  ASSUME Inv, SameQueues(queue, queue'), es' \in [Structures -> Clump(DOMAIN queue)], count' \in 0 .. prog.events,
         IsInfo(info', DOMAIN bucket),
         UNCHANGED << prog, specs, bucket, regVar, regs, created, cleanup, listening >>
  PROVE  Types'
BY DEF Inv, Types, SameQueues

LEMMA ListeningFacts ==
  ASSUME Inv, NEW i \in DOMAIN bucket, NEW t \in EventType, NEW ref
  PROVE  /\ Listening(i, t, ref) \in Seq(DOMAIN queue)
         /\ \A q \in ToSet(Listening(i, t, ref)) : \E e \in ToSet(bucket[i].lists[t]) : e.q = q
<1> DEFINE Q == DOMAIN queue
           listed == bucket[i].lists[t]
           matching == Chosen(listed, {e \in ToSet(listed) : e.ref = ref})
           list == Listening(i, t, ref)
<1>1. IsBuckets(bucket, Q)
  BY DEF Inv, Types
<1> HIDE DEF Q
<1>2. bucket[i] \in Bucket(Q)
  BY <1>1 DEF IsBuckets
<1>3. listed \in Seq(Entry(Q))
  BY <1>2 DEF Bucket
<1>4. list = [k \in DOMAIN matching |-> matching[k].q]
  BY DEF Listening
<1> HIDE DEF listed, list
<1>5. matching \in Seq(Entry(Q)) /\ ToSet(matching) \subseteq ToSet(listed)
  BY <1>3, ChosenSet
<1> HIDE DEF matching
<1>6. \A k \in DOMAIN matching : matching[k] \in Entry(Q) /\ matching[k].q \in Q /\ matching[k] \in ToSet(listed)
  <2> SUFFICES ASSUME NEW k \in DOMAIN matching PROVE matching[k] \in Entry(Q) /\ matching[k].q \in Q /\ matching[k] \in ToSet(listed)
    OBVIOUS
  <2>1. matching[k] \in Entry(Q)
    BY <1>5
  <2>2. matching[k] \in ToSet(matching)
    BY DEF ToSet
  <2> QED BY <1>5, <2>1, <2>2 DEF Entry
<1>7. list \in Seq(Q)
  BY <1>4, <1>5, <1>6
<1>8. \A q \in ToSet(list) : \E k \in DOMAIN matching : q = matching[k].q
  BY <1>4 DEF ToSet
<1>9. \A q \in ToSet(list) : \E e \in ToSet(listed) : e.q = q
  BY <1>6, <1>8
<1> QED BY <1>7, <1>9 DEF Q, list, listed

\* What Broadcast does.
LEMMA BroadcastFacts ==
  ASSUME Inv, NEW i \in DOMAIN bucket, NEW t \in EventType, NEW ref \in Nat, Broadcast(i, t, ref)
  PROVE  \E list \in Seq(DOMAIN queue) :
           /\ \A q \in ToSet(list) : \E e \in ToSet(bucket[i].lists[t]) : e.q = q
           /\ count' = count + Len(list) /\ count' <= prog.events
           /\ queue' = FoldLeft(Posted, queue, Posts(list, t, ref, count))
           /\ \A s \in Structures :
                LET fires == Cardinality({k \in DOMAIN list : queue[list[k]].wakeUp = s})
                IN  /\ es'[s] = Fired(es[s], fires)
                    /\ fires > 0 /\ es[s].listed => ~ es[s].ready
           /\ es' = [s \in Structures |-> es'[s]]
<1> DEFINE list == Listening(i, t, ref)
           fires == [s \in Structures |-> Quantify(DOMAIN list, LAMBDA k : queue[list[k]].wakeUp = s)]
<1>1. list \in Seq(DOMAIN queue) /\ \A q \in ToSet(list) : \E e \in ToSet(bucket[i].lists[t]) : e.q = q
  BY ListeningFacts
<1>2. /\ count + Len(list) <= prog.events /\ MayFire(fires)
      /\ queue' = FoldLeft(Posted, queue, Posts(list, t, ref, count))
      /\ count' = count + Len(list)
      /\ es' = [s \in Structures |-> Fired(es[s], fires[s])]
  BY DEF Broadcast, Posts
<1>3. \A s \in Structures : fires[s] = Cardinality({k \in DOMAIN list : queue[list[k]].wakeUp = s})
  BY DEF Quantify
<1> HIDE DEF list, fires
<1>4. \A s \in Structures : es'[s] = Fired(es[s], fires[s]) /\ (fires[s] > 0 /\ es[s].listed => ~ es[s].ready)
  BY <1>2 DEF MayFire
<1>5. \A s \in Structures :
        LET f == Cardinality({k \in DOMAIN list : queue[list[k]].wakeUp = s})
        IN  es'[s] = Fired(es[s], f) /\ (f > 0 /\ es[s].listed => ~ es[s].ready)
  BY <1>3, <1>4
<1>6. es' = [s \in Structures |-> es'[s]]
  BY <1>2
<1> QED BY <1>1, <1>2, <1>5, <1>6

LEMMA BroadcastInv ==
  ASSUME Inv, NEW i \in DOMAIN bucket, NEW t \in EventType, NEW ref \in Nat, Broadcast(i, t, ref),
         IsInfo(info', DOMAIN bucket),
         UNCHANGED << prog, specs, bucket, regVar, regs, created, cleanup, listening >>
  PROVE  Inv'
<1> DEFINE Q == DOMAIN queue
           qs == queue
           new == queue'
           c == count
<1>1. /\ Types /\ Owners /\ InOrder(qs, c) /\ Scalars /\ RightKinds(regVar, regs)
      /\ HeardIn(regs, bucket[AppIndex]) /\ Strays
  BY DEF Inv
<1>2. PICK list \in Seq(Q) :
           /\ \A q \in ToSet(list) : \E e \in ToSet(bucket[i].lists[t]) : e.q = q
           /\ count' = c + Len(list) /\ count' <= prog.events
           /\ new = FoldLeft(Posted, qs, Posts(list, t, ref, c))
           /\ \A s \in Structures :
                es'[s] = Fired(es[s], Cardinality({k \in DOMAIN list : qs[list[k]].wakeUp = s}))
           /\ es' = [s \in Structures |-> es'[s]]
  BY BroadcastFacts
<1>3. IsQueues(qs) /\ c \in Nat /\ es \in [Structures -> Clump(Q)] /\ count' \in 0 .. prog.events
  <2>1. prog.events \in Nat /\ c \in 0 .. prog.events /\ IsQueues(qs) /\ es \in [Structures -> Clump(Q)]
    BY <1>1, ProgramFacts DEF Types
  <2>2. Len(list) \in Nat
    BY <1>2
  <2> QED BY <1>2, <2>1, <2>2
<1> HIDE DEF qs, c, new
<1>4. /\ IsQueues(new) /\ DOMAIN new = DOMAIN qs
      /\ \A p \in DOMAIN qs : new[p].wakeUp = qs[p].wakeUp /\ new[p].active = qs[p].active
      /\ \A p \in DOMAIN qs : p \notin ToSet(list) => new[p] = qs[p]
      /\ \A p \in DOMAIN qs : \A e \in ToSet(new[p].events) : e \in ToSet(qs[p].events) \/ e.n > c
      /\ InOrder(qs, c) => InOrder(new, c + Len(list))
  <2>1. list \in Seq(DOMAIN qs) /\ new = FoldLeft(Posted, qs, Posts(list, t, ref, c))
    BY <1>2 DEF qs
  <2>2. PostedTo(qs, list, c, new)
    BY <1>3, <2>1, PostedFacts
  <2> QED BY <2>2 DEF PostedTo
<1>5. SameQueues(queue, queue')
  BY <1>4 DEF SameQueues, qs, new
<1>6. \A s \in Structures : es'[s] \in Clump(Q) /\ es'[s].q = es[s].q
  <2> SUFFICES ASSUME NEW s \in Structures PROVE es'[s] \in Clump(Q) /\ es'[s].q = es[s].q
    OBVIOUS
  <2> DEFINE hits == {k \in DOMAIN list : qs[list[k]].wakeUp = s}
             f == Cardinality(hits)
             e == es[s]
             d == es'[s]
  <2>1. IsFiniteSet(DOMAIN list)
    <3>1. DOMAIN list = 1 .. Len(list) /\ Len(list) \in Nat
      BY <1>2
    <3> QED BY <3>1, FS_Interval
  <2>2. f \in Nat
    BY <2>1, FS_Subset, FS_CardinalityType
  <2>3. e \in Clump(Q) /\ d = Fired(e, f)
    BY <1>2, <1>3
  <2> HIDE DEF e, d, f, Q
  <2>4. d \in Clump(Q) /\ d.q = e.q
    BY ONLY <2>2, <2>3, FiredFacts
  <2> QED BY <2>4 DEF e, d
<1>7. es' \in [Structures -> Clump(Q)]
  BY <1>2, <1>6
<1>8. Types'
  BY <1>3, <1>5, <1>7, TypesKept
<1>9. Owners'
  BY <1>5, <1>6, OwnersKept
<1>10. InOrder(queue, count)'
  BY <1>1, <1>2, <1>4 DEF new
<1>11. Scalars'
  <2>1. count' \in Nat /\ count <= count'
    <3>1. Len(list) \in Nat
      BY <1>2
    <3> QED BY <1>2, <1>3, <3>1 DEF c
  <2>2. \A r \in DOMAIN regs : regs[r].born \in Nat
    <3> DEFINE R == Reg(DOMAIN queue)
    <3>1. regs \in Seq(R)
      BY <1>1 DEF Types
    <3> HIDE DEF R
    <3>2. \A r \in DOMAIN regs : regs[r] \in R
      BY <3>1
    <3> QED BY <3>2 DEF R, Reg
  <2>3. \A r \in DOMAIN regs : regs[r].born <= count'
    BY <1>1, <1>3, <2>1, <2>2 DEF Scalars, c
  <2> QED BY <1>1, <2>3 DEF Scalars, ScalarOnly
<1>12. RightKinds(regVar, regs)' /\ HeardIn(regs, bucket[AppIndex])'
  BY <1>1 DEF RightKinds
<1>13. ASSUME ScalarOnly PROVE KnownIn(regs, bucket[AppIndex]) /\ EmptyIn(new) /\ YoungIn(new, regs)
  <2>1. KnownIn(regs, bucket[AppIndex]) /\ EmptyIn(qs) /\ YoungIn(qs, regs)
    BY <1>1, <1>13 DEF Strays, qs
  <2>2. \A q \in ToSet(list) : q = NoQueue \/ qs[q].active
    <3> SUFFICES ASSUME NEW q \in ToSet(list) PROVE q = NoQueue \/ qs[q].active
      OBVIOUS
    <3>1. PICK e \in ToSet(bucket[i].lists[t]) : e.q = q
      BY <1>2
    <3>2. CASE i # AppIndex
      BY <1>1, <3>1, <3>2 DEF Owners, StaticBuckets, Static, qs
    <3>3. CASE i = AppIndex /\ t \in UIEvents
      <4>1. bucket[i].lists[t] = << >>
        BY <1>1, <3>3 DEF Owners, StaticBuckets
      <4> QED BY <3>1, <4>1 DEF ToSet
    <3>4. CASE i = AppIndex /\ t = "UserEvent"
      <4>1. e \in Listeners(bucket[AppIndex])
        BY <3>1, <3>4 DEF Listeners
      <4>2. PICK r \in DOMAIN regs : regs[r].valid /\ regs[r].q = e.q
        BY <2>1, <4>1 DEF KnownIn
      <4> QED BY <1>1, <3>1, <4>2 DEF Owners, OwnQueues, qs
    <3> QED BY <3>2, <3>3, <3>4 DEF EventType
  <2>3. EmptyIn(new)
    BY <1>4, <2>1, <2>2 DEF EmptyIn
  <2>4. YoungIn(new, regs)
    <3> SUFFICES ASSUME NEW r \in DOMAIN regs, regs[r].valid, NEW e \in ToSet(new[regs[r].q].events)
                 PROVE  e.n > regs[r].born
      BY DEF YoungIn
    <3>1. regs[r] \in Reg(Q) /\ regs[r].born <= c
      <4>1. regs \in Seq(Reg(Q))
        BY <1>1 DEF Types
      <4> HIDE DEF Q
      <4> QED BY <1>1, <4>1 DEF Scalars, c
    <3>2. regs[r].q \in DOMAIN qs /\ regs[r].born \in Nat
      <4> DEFINE g == regs[r]
      <4>1. g \in Reg(Q)
        BY <3>1
      <4> HIDE DEF g, Q
      <4>2. g.q \in Q /\ g.born \in Nat
        BY <4>1 DEF Reg
      <4> QED BY <4>2 DEF g, Q, qs
    <3>3. CASE e \in ToSet(qs[regs[r].q].events)
      BY <2>1, <3>3 DEF YoungIn
    <3>4. CASE e \notin ToSet(qs[regs[r].q].events)
      <4>1. e.n > c /\ e \in Event
        <5>1. new[regs[r].q].events \in Seq(Event)
          BY <1>4, <3>2, QueuesFinite
        <5>2. e \in Event
          BY <5>1 DEF ToSet
        <5> QED BY <1>4, <3>2, <3>4, <5>2
      <4>2. e.n \in Nat
        BY <4>1 DEF Event
      <4> QED BY <1>3, <3>1, <3>2, <4>1, <4>2
    <3> QED BY <3>3, <3>4
  <2> QED BY <2>1, <2>3, <2>4
<1>14. Strays'
  BY <1>13 DEF Strays, ScalarOnly, new
<1> QED BY <1>8, <1>9, <1>10, <1>11, <1>12, <1>14 DEF Inv

LEMMA GenerateInv ==
  ASSUME Inv, NEW u \in ToSet(UserEvent), GenerateUserEvent(u)
  PROVE  Inv'
<1>1. Broadcast(AppIndex, "UserEvent", u)
      /\ UNCHANGED << prog, specs, bucket, info, regVar, regs, created, cleanup, listening >>
  BY DEF GenerateUserEvent
<1>2. u \in Nat /\ "UserEvent" \in EventType
  BY EventsAssumption DEF ToSet, EventType
<1>3. AppIndex \in DOMAIN bucket /\ IsInfo(info, DOMAIN bucket)
  BY DEF Inv, Types, IsBuckets, AppIndex
<1>4. IsInfo(info', DOMAIN bucket)
  BY <1>1, <1>3
<1> QED BY <1>1, <1>2, <1>3, <1>4, BroadcastInv

LEMMA OccurBroadcasts ==
  ASSUME Inv, NEW v \in ToSet(VI), NEW ref \in ControlRef \cup JSRef, NEW t \in UIEvents,
         OccurControlEvent(v, ref, t)
  PROVE  IsInfo(info', DOMAIN bucket) /\ \E i \in DOMAIN bucket, x \in EventType, y \in Nat : Broadcast(i, x, y)
<1> DEFINE inf == WithInfo(v, ref)
           B == DOMAIN bucket
           i == inf[ref].index
<1>1. Broadcast(i, t, ref) /\ info' = [info EXCEPT ![v] = inf]
      /\ UNCHANGED << prog, specs, bucket, regVar, regs, created, cleanup, listening >>
  BY DEF OccurControlEvent
<1>2. AppIndex \in B /\ IsInfo(info, B)
  BY DEF Inv, Types, IsBuckets, AppIndex
<1>3. (\A x \in DOMAIN inf : inf[x] \in Where(B)) /\ ref \in DOMAIN inf /\ IsInfo(info', B)
  BY <1>1, <1>2, InfoFacts
<1>4. i \in B
  <2> DEFINE w == inf[ref]
  <2>1. w \in Where(B)
    BY <1>3
  <2> HIDE DEF w, B
  <2>2. w.index \in B
    BY <2>1 DEF Where
  <2> QED BY <2>2 DEF w
<1>5. ref \in Nat /\ t \in EventType
  BY EventsAssumption DEF EventType
<1> HIDE DEF i, inf
<1> QED BY <1>1, <1>3, <1>4, <1>5

LEMMA OccurInv ==
  ASSUME Inv, NEW v \in ToSet(VI), NEW ref \in ControlRef \cup JSRef, NEW t \in UIEvents,
         OccurControlEvent(v, ref, t)
  PROVE  Inv'
<1>1. IsInfo(info', DOMAIN bucket) /\ \E i \in DOMAIN bucket, x \in EventType, y \in Nat : Broadcast(i, x, y)
  BY OccurBroadcasts
<1>2. UNCHANGED << prog, specs, bucket, regVar, regs, created, cleanup, listening >>
  BY DEF OccurControlEvent
<1> QED BY <1>1, <1>2, BroadcastInv

LEMMA HostBroadcasts ==
  ASSUME Inv, NEW l \in listening, HostOccursEvent(l)
  PROVE  IsInfo(info', DOMAIN bucket) /\ \E i \in DOMAIN bucket, x \in EventType, y \in Nat : Broadcast(i, x, y)
<1> DEFINE B == DOMAIN bucket
           i == l.index
           t == l.type
           ref == bucket[i].ref
<1>1. Broadcast(i, t, ref)
      /\ UNCHANGED << prog, specs, bucket, info, regVar, regs, created, cleanup, listening >>
  BY DEF HostOccursEvent
<1>2. IsBuckets(bucket, DOMAIN queue) /\ IsInfo(info, B) /\ l \in Heed(B)
  BY DEF Inv, Types
<1>3. i \in B /\ t \in EventType
  <2> HIDE DEF B
  <2> QED BY <1>2 DEF Heed
<1>4. ref \in Nat
  <2> DEFINE Q == DOMAIN queue
             b == bucket[i]
  <2>1. b \in Bucket(Q)
    BY <1>2, <1>3 DEF IsBuckets
  <2> HIDE DEF b, Q
  <2>2. b.ref \in Nat
    BY <2>1 DEF Bucket
  <2> QED BY <2>2 DEF b
<1>5. IsInfo(info', B)
  BY <1>1, <1>2
<1> HIDE DEF i, t, ref
<1> QED BY <1>1, <1>3, <1>4, <1>5

LEMMA HostInv ==
  ASSUME Inv, NEW l \in listening, HostOccursEvent(l)
  PROVE  Inv'
<1>1. IsInfo(info', DOMAIN bucket) /\ \E i \in DOMAIN bucket, x \in EventType, y \in Nat : Broadcast(i, x, y)
  BY HostBroadcasts
<1>2. UNCHANGED << prog, specs, bucket, regVar, regs, created, cleanup, listening >>
  BY DEF HostOccursEvent
<1> QED BY <1>1, <1>2, BroadcastInv

-----------------------------------------------------------------------------
(* The queues that a structure observes.                                    *)

\* WiredRegs and ObservedQueues, of any state.
WiredOf(w, rv, rs) == Chosen([k \in DOMAIN w |-> rv[w[k]]], {r \in DOMAIN rs : rs[r].valid})

ObservedOf(w, q, rv, rs) ==
  LET wired == WiredOf(w, rv, rs)
  IN  (IF q = NoQueue THEN << >> ELSE << q >>) \o [k \in DOMAIN wired |-> rs[wired[k]].q]

WiredIn(w, rv, rs) == {r \in DOMAIN rs : rs[r].valid /\ \E k \in DOMAIN w : rv[w[k]] = r}

ObservedSet(w, q, rv, rs) == ({q} \ {NoQueue}) \cup {rs[r].q : r \in WiredIn(w, rv, rs)}

LEMMA ConcatSet ==
  ASSUME NEW T, NEW s \in Seq(T), NEW t \in Seq(T)
  PROVE  s \o t \in Seq(T) /\ ToSet(s \o t) = ToSet(s) \cup ToSet(t)
<1>1. s \o t \in Seq(T) /\ Elements(s \o t) = Elements(s) \cup Elements(t)
  BY ConcatElements
<1>2. \A u \in Seq(T) : ToSet(u) = Elements(u)
  BY DEF ToSet, Elements
<1> QED BY <1>1, <1>2

LEMMA WiredRegsAre ==
  ASSUME NEW Q, NEW w \in Seq(RegVar), NEW rv \in [RegVar -> Nat], NEW rs \in Seq(Reg(Q)),
         NEW wired, wired = WiredOf(w, rv, rs)
  PROVE  wired \in Seq(Nat) /\ ToSet(wired) = WiredIn(w, rv, rs)
<1> DEFINE all == [k \in DOMAIN w |-> rv[w[k]]]
           valid == {r \in DOMAIN rs : rs[r].valid}
<1>1. all \in Seq(Nat)
  <2>1. \A k \in DOMAIN w : rv[w[k]] \in Nat
    OBVIOUS
  <2> QED BY <2>1
<1>2. ToSet(all) = {rv[w[k]] : k \in DOMAIN w}
  BY DEF ToSet
<1>3. wired = Chosen(all, valid)
  BY DEF WiredOf
<1> HIDE DEF all
<1>4. wired \in Seq(Nat) /\ ToSet(wired) = ToSet(all) \cap valid
  <2> HIDE DEF valid
  <2>1. Chosen(all, valid) \in Seq(Nat)
    BY ONLY <1>1, ChosenSet
  <2>2. ToSet(Chosen(all, valid)) = ToSet(all) \cap valid
    BY ONLY <1>1, ChosenSet
  <2> QED BY ONLY <1>3, <2>1, <2>2
<1>5. {rv[w[k]] : k \in DOMAIN w} \cap valid = WiredIn(w, rv, rs)
  BY DEF WiredIn
<1> QED BY <1>2, <1>4, <1>5

LEMMA ObservedAre ==
  ASSUME NEW Q, NEW w \in Seq(RegVar), NEW q \in Q, NEW rv \in [RegVar -> Nat], NEW rs \in Seq(Reg(Q))
  PROVE  ToSet(ObservedOf(w, q, rv, rs)) = ObservedSet(w, q, rv, rs) /\ ObservedSet(w, q, rv, rs) \subseteq Q
<1> DEFINE wired == WiredOf(w, rv, rs)
           own == IF q = NoQueue THEN << >> ELSE << q >>
           dynamic == [k \in DOMAIN wired |-> rs[wired[k]].q]
           W == WiredIn(w, rv, rs)
<1>1. wired \in Seq(Nat) /\ ToSet(wired) = W
  BY WiredRegsAre
<1>2. ObservedOf(w, q, rv, rs) = own \o dynamic
  BY DEF ObservedOf
<1> HIDE DEF wired
<1>3. own \in Seq(Q) /\ ToSet(own) = {q} \ {NoQueue}
  BY DEF ToSet
<1>4. \A r \in W : rs[r].q \in Q
  <2> SUFFICES ASSUME NEW r \in W PROVE rs[r].q \in Q
    OBVIOUS
  <2> DEFINE g == rs[r]
  <2>1. g \in Reg(Q)
    BY DEF WiredIn
  <2> HIDE DEF g
  <2>2. g.q \in Q
    BY <2>1 DEF Reg
  <2> QED BY <2>2 DEF g
<1>5. \A k \in DOMAIN wired : wired[k] \in W
  BY <1>1 DEF ToSet
<1>6. dynamic \in Seq(Q)
  <2>1. \A k \in DOMAIN wired : rs[wired[k]].q \in Q
    <3> HIDE DEF W
    <3> QED BY <1>4, <1>5
  <2>2. DOMAIN wired = 1 .. Len(wired) /\ Len(wired) \in Nat
    BY <1>1
  <2>3. \A k \in 1 .. Len(wired) : k \in DOMAIN wired
    BY <2>2
  <2>4. DOMAIN dynamic = 1 .. Len(wired)
    BY <2>2
  <2> QED BY <2>1, <2>2, <2>4
<1>7. ToSet(dynamic) = {rs[r].q : r \in W}
  <2>1. ToSet(dynamic) = {rs[wired[k]].q : k \in DOMAIN wired}
    BY DEF ToSet
  <2>2. W = {wired[k] : k \in DOMAIN wired}
    BY <1>1 DEF ToSet
  <2> HIDE DEF W, dynamic
  <2> QED BY <2>1, <2>2
<1> HIDE DEF own, dynamic
<1>8. ToSet(own \o dynamic) = ToSet(own) \cup ToSet(dynamic)
  BY <1>3, <1>6, ConcatSet
<1>9. ToSet(ObservedOf(w, q, rv, rs)) = ObservedSet(w, q, rv, rs)
  BY <1>2, <1>3, <1>7, <1>8 DEF ObservedSet
<1>10. ObservedSet(w, q, rv, rs) \subseteq Q
  BY <1>4 DEF ObservedSet
<1> QED BY <1>9, <1>10

LEMMA ObservedNow ==
  ASSUME Inv, NEW s \in Structures
  PROVE  /\ ToSet(ObservedQueues(s)) = ObservedSet(prog.wired[s], es[s].q, regVar, regs)
         /\ ToSet(ObservedQueues(s)) \subseteq DOMAIN queue
         /\ NoQueue \notin ToSet(ObservedQueues(s))
<1> DEFINE Q == DOMAIN queue
           w == prog.wired[s]
           q == es[s].q
<1>1. Types /\ Owners
  BY DEF Inv
<1>2. w \in Seq(RegVar)
  BY <1>1, ProgramFacts DEF Types
<1>3. regVar \in [RegVar -> Nat] /\ regs \in Seq(Reg(Q)) /\ es \in [Structures -> Clump(Q)]
  BY <1>1 DEF Types
<1>4. q \in Q
  <2> DEFINE e == es[s]
  <2>1. e \in Clump(Q)
    BY <1>3
  <2> HIDE DEF e, Q
  <2>2. e.q \in Q
    BY <2>1 DEF Clump
  <2> QED BY <2>2 DEF e
<1>5. ObservedQueues(s) = ObservedOf(w, q, regVar, regs)
  BY DEF ObservedQueues, WiredRegs, WiredOf, ObservedOf
<1>6. NoQueue \notin ObservedSet(w, q, regVar, regs)
  <2>1. \A r \in DOMAIN regs : regs[r].valid => regs[r].q # NoQueue
    BY <1>1 DEF Owners, OwnQueues
  <2> QED BY <2>1 DEF ObservedSet, WiredIn
<1> HIDE DEF w, q, Q
<1>7. ToSet(ObservedOf(w, q, regVar, regs)) = ObservedSet(w, q, regVar, regs) /\ ObservedSet(w, q, regVar, regs) \subseteq Q
  BY <1>2, <1>3, <1>4, ObservedAre
<1> QED BY <1>5, <1>6, <1>7 DEF w, q, Q

\* A structure notes that it is to be woken by the queues it observes.
LEMMA ObservedFacts ==
  ASSUME NEW qs, IsQueues(qs), NEW s \in Structures, NEW new, new = Observed(qs, s)
  PROVE  /\ SameQueues(qs, new)
         /\ \A q \in DOMAIN qs : new[q].events = qs[q].events
         /\ \A q \in DOMAIN qs : new[q].wakeUp = IF q \in ToSet(ObservedQueues(s)) THEN s ELSE qs[q].wakeUp
<1> DEFINE mine == ToSet(ObservedQueues(s))
<1>1. PICK n \in Nat \ {0} : qs \in [0 .. n - 1 -> Queue]
  BY DEF IsQueues
<1>2. new = [q \in DOMAIN qs |-> IF q \in mine THEN [qs[q] EXCEPT !.wakeUp = s] ELSE qs[q]]
  BY DEF Observed
<1> HIDE DEF mine
<1>3. ASSUME NEW q \in DOMAIN qs
      PROVE  /\ new[q] \in Queue /\ new[q].events = qs[q].events /\ new[q].active = qs[q].active
             /\ new[q].wakeUp = IF q \in mine THEN s ELSE qs[q].wakeUp
  <2> DEFINE qq == qs[q]
             d == [qq EXCEPT !.wakeUp = s]
  <2>1. qq \in Queue
    BY <1>1
  <2>2. new[q] = IF q \in mine THEN d ELSE qq
    BY <1>2
  <2> HIDE DEF qq
  <2>3. d \in Queue /\ d.events = qq.events /\ d.active = qq.active /\ d.wakeUp = s
    BY <2>1 DEF Queue
  <2> QED BY <2>1, <2>2, <2>3 DEF qq
<1>4. new \in [0 .. n - 1 -> Queue] /\ DOMAIN new = DOMAIN qs
  BY <1>1, <1>2, <1>3
<1>5. IsQueues(new)
  BY <1>4 DEF IsQueues
<1> QED BY <1>3, <1>4, <1>5 DEF SameQueues, mine

\* What is left of an invariant when the queues hold less.
LEMMA FewerEventsInv ==
  ASSUME Inv, SameQueues(queue, queue'), es' \in [Structures -> Clump(DOMAIN queue)],
         \A s \in Structures : es'[s].q = es[s].q,
         \A q \in DOMAIN queue : queue'[q].events \in {queue[q].events, Tail(queue[q].events)},
         \A q \in DOMAIN queue : queue[q].events = << >> => queue'[q].events = << >>,
         UNCHANGED << prog, specs, bucket, info, regVar, regs, created, cleanup, listening, count >>
  PROVE  Inv'
<1>1. /\ Types /\ Owners /\ InOrder(queue, count) /\ Scalars /\ RightKinds(regVar, regs)
      /\ HeardIn(regs, bucket[AppIndex]) /\ Strays
  BY DEF Inv
<1>2. Types'
  <2>1. count' \in 0 .. prog.events /\ IsInfo(info', DOMAIN bucket)
    BY <1>1 DEF Types
  <2> QED BY <2>1, TypesKept
<1>3. Owners'
  BY OwnersKept
<1>4. Scalars' /\ RightKinds(regVar, regs)' /\ HeardIn(regs, bucket[AppIndex])'
  BY <1>1 DEF Scalars, ScalarOnly, RightKinds
<1>5. DOMAIN queue' = DOMAIN queue /\ \A q \in DOMAIN queue : queue'[q].active = queue[q].active
  BY DEF SameQueues
<1>6. ASSUME NEW q \in DOMAIN queue
      PROVE  \E f \in {0, 1} :
               /\ DOMAIN queue'[q].events \subseteq Nat
               /\ \A k \in DOMAIN queue'[q].events :
                    k + f \in DOMAIN queue[q].events /\ queue'[q].events[k] = queue[q].events[k + f]
  <2> DEFINE old == queue[q].events
             new == queue'[q].events
  <2>1. old \in Seq(Event)
    BY <1>1, QueuesFinite DEF Types
  <2>2. new = old \/ (new = Tail(old) /\ old # << >>)
    <3>1. new \in {old, Tail(old)} /\ (old = << >> => new = << >>)
      OBVIOUS
    <3> QED BY <3>1
  <2> HIDE DEF old, new
  <2>3. CASE new = old
    <3>1. \A k \in DOMAIN new : k \in Nat /\ k + 0 \in DOMAIN old /\ new[k] = old[k + 0]
      BY <2>1, <2>3
    <3> QED BY <3>1 DEF old, new
  <2>4. CASE new = Tail(old) /\ old # << >>
    <3>1. \A k \in DOMAIN new : k \in Nat /\ k + 1 \in DOMAIN old /\ new[k] = old[k + 1]
      BY <2>1, <2>4
    <3> QED BY <3>1 DEF old, new
  <2> QED BY <2>2, <2>3, <2>4
<1>7. InOrder(queue, count)'
  <2> SUFFICES ASSUME NEW q \in DOMAIN queue
               PROVE  /\ \A k \in DOMAIN queue'[q].events : queue'[q].events[k].n \in 1 .. count
                      /\ \A j, k \in DOMAIN queue'[q].events :
                           j < k => queue'[q].events[j].n < queue'[q].events[k].n
    BY <1>5 DEF InOrder
  <2> DEFINE old == queue[q].events
             new == queue'[q].events
  <2>1. /\ \A k \in DOMAIN old : old[k].n \in 1 .. count
        /\ \A j, k \in DOMAIN old : j < k => old[j].n < old[k].n
    BY <1>1 DEF InOrder
  <2>2. PICK f \in {0, 1} : /\ DOMAIN new \subseteq Nat
                            /\ \A k \in DOMAIN new : k + f \in DOMAIN old /\ new[k] = old[k + f]
    BY <1>6
  <2> HIDE DEF old, new
  <2>3. \A k \in DOMAIN new : new[k].n \in 1 .. count
    BY <2>1, <2>2
  <2>4. \A j, k \in DOMAIN new : j < k => new[j].n < new[k].n
    <3> SUFFICES ASSUME NEW j \in DOMAIN new, NEW k \in DOMAIN new, j < k PROVE new[j].n < new[k].n
      OBVIOUS
    <3>1. j + f < k + f
      BY <2>2
    <3> QED BY <2>1, <2>2, <3>1
  <2> QED BY <2>3, <2>4 DEF new
<1>8. \A q \in DOMAIN queue : ToSet(queue'[q].events) \subseteq ToSet(queue[q].events)
  <2> TAKE q \in DOMAIN queue
  <2> DEFINE old == queue[q].events
             new == queue'[q].events
  <2>1. PICK f \in {0, 1} : \A k \in DOMAIN new : k + f \in DOMAIN old /\ new[k] = old[k + f]
    BY <1>6
  <2> QED BY <2>1 DEF ToSet
<1>9. ASSUME ScalarOnly PROVE EmptyIn(queue') /\ YoungIn(queue', regs)
  <2>1. EmptyIn(queue) /\ YoungIn(queue, regs)
    BY <1>1, <1>9 DEF Strays
  <2>2. EmptyIn(queue')
    BY <1>5, <2>1 DEF EmptyIn
  <2>3. \A r \in DOMAIN regs : regs[r].q \in DOMAIN queue
    <3> SUFFICES ASSUME NEW r \in DOMAIN regs PROVE regs[r].q \in DOMAIN queue
      OBVIOUS
    <3> DEFINE g == regs[r]
               Q == DOMAIN queue
    <3>1. g \in Reg(Q)
      BY <1>1 DEF Types
    <3> HIDE DEF g, Q
    <3>2. g.q \in Q
      BY <3>1 DEF Reg
    <3> QED BY <3>2 DEF g, Q
  <2>4. YoungIn(queue', regs)
    BY <1>8, <2>1, <2>3 DEF YoungIn
  <2> QED BY <2>2, <2>4
<1>10. Strays'
  BY <1>1, <1>9 DEF Strays, ScalarOnly
<1> QED BY <1>2, <1>3, <1>4, <1>7, <1>10 DEF Inv

-----------------------------------------------------------------------------
(* Going to sleep, and handing out an event.                                *)

Unobserved(s) == {q \in ToSet(ObservedQueues(s)) : queue[q].wakeUp # s}

LEMMA MissedFacts ==
  ASSUME Inv, NEW s \in Structures
  PROVE  Missed(s) = SumOf(queue, Unobserved(s)) /\ Missed(s) \in Nat /\ Unobserved(s) \subseteq DOMAIN queue
<1>1. Missed(s) = SumOf(queue, Unobserved(s))
  BY DEF Missed, SumOf, Unobserved, LengthsOf
<1>2. Unobserved(s) \subseteq DOMAIN queue
  BY ObservedNow DEF Unobserved
<1>3. IsQueues(queue)
  BY DEF Inv, Types
<1> DEFINE S == Unobserved(s)
           f == LengthsOf(queue)
<1>4. IsFiniteSet(S) /\ \A q \in S : f[q] \in Nat
  BY <1>2, <1>3, QueuesFinite
<1> HIDE DEF S, f
<1>5. SumFunctionOnSet(f, S) \in Nat
  BY <1>4, SumIsNat
<1> QED BY <1>1, <1>2, <1>5 DEF SumOf, S, f

\* The structure s becomes d, and the others stay as they are.
Becomes(s, d) ==
  /\ es' \in [Structures -> Clump(DOMAIN queue)]
  /\ es'[s] = d /\ d.q = es[s].q
  /\ \A u \in Structures \ {s} : es'[u] = es[u]

Slept(s) ==
  /\ Becomes(s, es'[s])
  /\ es'[s].count = es[s].count /\ es'[s].late = es[s].late /\ es'[s].set = es[s].set + Missed(s)
  /\ es'[s].asleep /\ es'[s].listed
  /\ es[s].ready \/ (Missed(s) > 0 /\ es[s].listed) \/ ~ es'[s].ready
  /\ queue' = Observed(queue, s)

LEMMA SleepFacts ==
  ASSUME Inv, NEW s \in Structures, SleepForEvents(s)
  PROVE  Slept(s)
<1>1. Types
  BY DEF Inv
<1>2. PICK timed \in prog.timed[s] :
        es' = [es EXCEPT ![s] = [Fired(@, Missed(s)) EXCEPT !.asleep = TRUE, !.listed = TRUE, !.timer = timed]]
  BY DEF SleepForEvents
<1> DEFINE Q == DOMAIN queue
           e == es[s]
           m == Missed(s)
           a == Fired(e, m)
           b == [a EXCEPT !.asleep = TRUE]
           c == [b EXCEPT !.listed = TRUE]
           d == [c EXCEPT !.timer = timed]
<1>3. es \in [Structures -> Clump(Q)] /\ e \in Clump(Q)
  BY <1>1 DEF Types
<1>4. timed \in BOOLEAN
  BY <1>1, <1>2, ProgramFacts DEF Types
<1>5. m \in Nat
  BY MissedFacts
<1>6. es' = [es EXCEPT ![s] = d] /\ queue' = Observed(queue, s)
  BY <1>2 DEF SleepForEvents
<1> HIDE DEF Q, e, m
<1>7. /\ a \in Clump(Q) /\ a.q = e.q /\ a.count = e.count /\ a.late = e.late /\ a.set = e.set + m
      /\ a.ready = e.ready \/ (m > 0 /\ e.listed)
  BY <1>3, <1>5, FiredFacts
<1> HIDE DEF a
<1>8. /\ b \in Clump(Q) /\ b.q = a.q /\ b.count = a.count /\ b.late = a.late /\ b.set = a.set
      /\ b.ready = a.ready /\ b.asleep
  BY <1>7 DEF Clump
<1> HIDE DEF b
<1>9. /\ c \in Clump(Q) /\ c.q = b.q /\ c.count = b.count /\ c.late = b.late /\ c.set = b.set
      /\ c.ready = b.ready /\ c.asleep /\ c.listed
  BY <1>8 DEF Clump
<1> HIDE DEF c
<1>10. /\ d \in Clump(Q) /\ d.q = c.q /\ d.count = c.count /\ d.late = c.late /\ d.set = c.set
       /\ d.ready = c.ready /\ d.asleep /\ d.listed
  BY <1>4, <1>9 DEF Clump
<1> HIDE DEF d
<1>11. es' \in [Structures -> Clump(Q)] /\ es'[s] = d /\ \A u \in Structures \ {s} : es'[u] = es[u]
  BY <1>3, <1>6, <1>10
<1>12. e.ready \/ (m > 0 /\ e.listed) \/ ~ d.ready
  <2>1. d.ready = a.ready
    BY <1>8, <1>9, <1>10
  <2> QED BY <1>7, <2>1
<1>13. d.q = e.q /\ d.count = e.count /\ d.late = e.late /\ d.set = e.set + m
  BY <1>7, <1>8, <1>9, <1>10
<1>14. Becomes(s, es'[s])
  BY <1>11, <1>13 DEF Becomes, Q, e
<1> QED BY <1>6, <1>10, <1>11, <1>12, <1>13, <1>14 DEF Slept, e, m

LEMMA SleepInv ==
  ASSUME Inv, NEW s \in Structures, SleepForEvents(s)
  PROVE  Inv'
<1>1. Slept(s) /\ IsQueues(queue)
  BY SleepFacts DEF Inv, Types
<1>2. queue' = Observed(queue, s) /\ Becomes(s, es'[s])
  BY <1>1 DEF Slept
<1>3. /\ SameQueues(queue, queue')
      /\ \A q \in DOMAIN queue : queue'[q].events = queue[q].events
  BY <1>1, <1>2, ObservedFacts
<1>4. es' \in [Structures -> Clump(DOMAIN queue)] /\ \A u \in Structures : es'[u].q = es[u].q
  BY <1>2 DEF Becomes
<1>5. UNCHANGED << prog, specs, bucket, info, regVar, regs, created, cleanup, listening, count >>
  BY DEF SleepForEvents
<1> QED BY <1>3, <1>4, <1>5, FewerEventsInv

\* The numbers of two events are in the order of their generation, wherever the
\* sequence numbers start over: there are far more of them than events.
LEMMA EarlierFacts ==
  ASSUME NEW b \in Nat, b < SeqNumbers \div 2, NEW m \in 1 .. b, NEW n \in 1 .. b
  PROVE  IsEarlier(m, n) <=> m < n
<1>1. SeqNumbers \in Nat /\ FirstSeq \in 0 .. SeqNumbers - 1
  BY EventsAssumption
<1> DEFINE z == SeqNumbers
           x == SeqNumber(m)
           y == SeqNumber(n)
           over(k) == IF FirstSeq + k < z THEN FirstSeq + k ELSE FirstSeq + k - z
<1>2. b < z /\ z > 0 /\ z \div 2 \in Nat /\ \A a \in Nat : a <= b => z - a >= z \div 2
  <2>1. \A a \in Nat : a < z \div 2 => a < z /\ z - a >= z \div 2 /\ z \div 2 \in Nat /\ z > 0
    BY <1>1
  <2> QED BY <2>1
<1>3. \A k \in 1 .. b : (FirstSeq + k) % z = over(k)
  <2> TAKE k \in 1 .. b
  <2>1. CASE FirstSeq + k < z
    BY <1>1, <2>1
  <2>2. CASE ~ (FirstSeq + k < z)
    <3> DEFINE a == FirstSeq + k - z
    <3>1. a \in Nat /\ a < z /\ FirstSeq + k = a + z
      BY <1>1, <1>2, <2>2
    <3> HIDE DEF a
    <3>2. (a + z) % z = a
      BY <1>1, <1>2, <3>1
    <3> QED BY <2>2, <3>1, <3>2 DEF a
  <2> QED BY <2>1, <2>2
<1>4. x = over(m) /\ y = over(n)
  BY <1>3 DEF SeqNumber
<1>5. x \in 0 .. z - 1 /\ y \in 0 .. z - 1
  BY <1>1, <1>2, <1>4
<1>6. x - y \in {m - n, m - n + z, m - n - z}
  BY <1>1, <1>4
<1> HIDE DEF x, y, over
<1>7. (x - y) % z = IF m < n THEN z - (n - m) ELSE m - n
  <2>1. \A a, c \in Int : a \in 0 .. z - 1 /\ c \in {a, a - z} => c % z = a
    <3> SUFFICES ASSUME NEW a \in 0 .. z - 1 PROVE a % z = a /\ (a - z) % z = a
      OBVIOUS
    <3>1. a % z = a
      BY <1>1
    <3>2. (a - z) % z = a
      BY <1>1
    <3> QED BY <3>1, <3>2
  <2>2. CASE m < n
    <3> DEFINE a == z - (n - m)
    <3>1. a \in 0 .. z - 1 /\ x - y \in {a, a - z}
      BY <1>1, <1>2, <1>5, <1>6, <2>2
    <3>2. (x - y) % z = a
      BY <1>5, <2>1, <3>1
    <3> QED BY <2>2, <3>2
  <2>3. CASE ~ (m < n)
    <3> DEFINE a == m - n
    <3>1. a \in 0 .. z - 1 /\ x - y \in {a, a - z}
      BY <1>1, <1>2, <1>5, <1>6, <2>3
    <3>2. (x - y) % z = a
      BY <1>5, <2>1, <3>1
    <3> QED BY <2>3, <3>2
  <2> QED BY <2>2, <2>3
<1>8. IsEarlier(m, n) <=> (x - y) % z >= z \div 2
  BY DEF IsEarlier, x, y
<1>9. CASE m < n
  <2>1. n - m \in Nat /\ n - m <= b
    BY <1>9
  <2>2. z - (n - m) >= z \div 2
    BY <1>2, <2>1
  <2> QED BY <1>7, <1>8, <1>9, <2>2
<1>10. CASE ~ (m < n)
  <2>1. m - n < z \div 2
    BY <1>2, <1>10
  <2> QED BY <1>2, <1>7, <1>8, <1>10, <2>1
<1> QED BY <1>9, <1>10

\* What a queue holds is numbered from the earliest on.
LEMMA HeadFacts ==
  ASSUME Inv, NEW q \in DOMAIN queue, queue[q].events # << >>
  PROVE  /\ Head(queue[q].events) \in Event /\ Head(queue[q].events).n \in 1 .. count
         /\ \A e \in ToSet(queue[q].events) : Head(queue[q].events).n <= e.n
<1> DEFINE list == queue[q].events
<1>1. list \in Seq(Event)
  BY QueuesFinite DEF Inv, Types
<1>2. /\ \A k \in DOMAIN list : list[k].n \in 1 .. count
      /\ \A j, k \in DOMAIN list : j < k => list[j].n < list[k].n
  BY DEF Inv, InOrder
<1>3. count \in Nat
  BY ProgramFacts DEF Inv, Types
<1>4. list # << >>
  OBVIOUS
<1> HIDE DEF list
<1>5. 1 \in DOMAIN list /\ Head(list) = list[1] /\ list[1] \in Event
  BY <1>1, <1>4
<1>6. ASSUME NEW e \in ToSet(list) PROVE list[1].n <= e.n
  <2>1. PICK k \in DOMAIN list : e = list[k]
    BY DEF ToSet
  <2>2. k = 1 \/ 1 < k
    BY <1>1
  <2>3. list[1].n \in Nat /\ list[k].n \in Nat
    BY <1>2, <1>5
  <2> QED BY <1>2, <1>5, <2>1, <2>2, <2>3
<1> QED BY <1>2, <1>5, <1>6 DEF list

\* The first of the offers that are earliest.
Earliest(offers) ==
  \E k \in DOMAIN offers :
    /\ Pending(offers) = offers[k]
    /\ \A i \in DOMAIN offers :
         Head(queue[offers[k].q].events).n <= Head(queue[offers[i].q].events).n
    /\ \A i \in DOMAIN offers :
         i < k => Head(queue[offers[i].q].events).n # Head(queue[offers[k].q].events).n

LEMMA PendingFacts ==
  ASSUME Inv, NEW T, NEW offers \in Seq(T), offers # << >>,
         \A k \in DOMAIN offers : offers[k].q \in DOMAIN queue /\ queue[offers[k].q].events # << >>
  PROVE  Earliest(offers)
<1> DEFINE n(k) == Head(queue[offers[k].q].events).n
           first(k) == \A i \in DOMAIN offers \ {k} :
                         IF i < k THEN IsEarlier(n(k), n(i)) ELSE ~ IsEarlier(n(i), n(k))
           earliest == CHOOSE k \in DOMAIN offers : first(k)
           D == DOMAIN offers
<1>1. Pending(offers) = offers[earliest]
  BY DEF Pending
<1>2. \A k \in D : n(k) \in 1 .. count
  BY HeadFacts
<1>3. count \in Nat /\ count < SeqNumbers \div 2
  <2>1. prog.events \in Nat /\ prog.events < SeqNumbers \div 2 /\ count \in 0 .. prog.events
    BY ProgramFacts DEF Inv, Types
  <2>2. SeqNumbers \div 2 \in Int
    BY EventsAssumption
  <2> QED BY <2>1, <2>2
<1>4. D \subseteq Nat /\ D # {}
  <2>1. DOMAIN offers = 1 .. Len(offers) /\ Len(offers) \in Nat /\ Len(offers) # 0
    OBVIOUS
  <2> QED BY <2>1
<1> HIDE DEF n
<1>5. \A i, k \in D : IsEarlier(n(i), n(k)) <=> n(i) < n(k)
  BY <1>2, <1>3, EarlierFacts
<1>6. PICK m \in {n(k) : k \in D} : \A i \in D : m <= n(i)
  <2> DEFINE V == {n(k) : k \in D}
  <2>1. V \in SUBSET Nat /\ V # {}
    BY <1>2, <1>4
  <2> HIDE DEF V
  <2>2. \E x \in V : \A y \in V : x <= y
    BY <2>1, LeastExists
  <2> QED BY <2>2 DEF V
<1> DEFINE K == {k \in D : n(k) = m}
<1>7. PICK k \in K : \A i \in K : k <= i
  <2>1. K \in SUBSET Nat /\ K # {}
    BY <1>4
  <2> HIDE DEF K
  <2> QED BY <2>1, LeastExists
<1>8. first(k)
  <2> SUFFICES ASSUME NEW i \in D \ {k}
               PROVE  IF i < k THEN IsEarlier(n(k), n(i)) ELSE ~ IsEarlier(n(i), n(k))
    OBVIOUS
  <2>1. k \in D /\ n(k) = m /\ n(i) \in Nat /\ m \in Nat /\ m <= n(i)
    BY <1>2, <1>6
  <2>2. CASE i < k
    <3>1. n(i) # m
      BY <1>4, <1>7, <2>2
    <3> QED BY <1>5, <2>1, <2>2, <3>1
  <2>3. CASE ~ (i < k)
    BY <1>5, <2>1, <2>3
  <2> QED BY <2>2, <2>3
<1>9. earliest \in D /\ first(earliest)
  <2>1. \E j \in DOMAIN offers : first(j)
    BY <1>8
  <2> HIDE DEF first
  <2> QED BY <2>1
<1> HIDE DEF earliest
<1>10. \A i \in D : n(earliest) <= n(i)
  <2> SUFFICES ASSUME NEW i \in D PROVE n(earliest) <= n(i)
    OBVIOUS
  <2>1. n(earliest) \in Nat /\ n(i) \in Nat
    BY <1>2, <1>9
  <2>2. CASE i = earliest
    BY <2>1, <2>2
  <2>3. CASE i # earliest
    BY <1>5, <1>9, <2>1, <2>3
  <2> QED BY <2>2, <2>3
<1>11. \A i \in D : i < earliest => n(i) # n(earliest)
  <2> SUFFICES ASSUME NEW i \in D, i < earliest PROVE n(i) # n(earliest)
    OBVIOUS
  <2>1. n(earliest) \in Nat /\ n(i) \in Nat /\ i # earliest
    BY <1>2, <1>4, <1>9
  <2>2. n(earliest) < n(i)
    BY <1>5, <1>9, <2>1
  <2> QED BY <2>1, <2>2
<1> QED BY <1>1, <1>9, <1>10, <1>11 DEF Earliest, n

\* The queues offered are the observed queues that hold something.
Offering(s, offers) ==
  /\ \A k \in DOMAIN offers : offers[k].q \in ToSet(ObservedQueues(s)) /\ queue[offers[k].q].events # << >>
  /\ \A q \in ToSet(ObservedQueues(s)) : queue[q].events # << >> => \E k \in DOMAIN offers : offers[k].q = q

LEMMA OffersFacts ==
  ASSUME Inv, NEW s \in Structures
  PROVE  Offering(s, Offers(s)) /\ \E T : Offers(s) \in Seq(T)
<1> DEFINE Q == DOMAIN queue
           wired == WiredRegs(s)
           W == WiredIn(prog.wired[s], regVar, regs)
           base == [q |-> es[s].q, reg |-> 0, base |-> 0]
           own == IF es[s].q = NoQueue THEN << >> ELSE << base >>
           offer(k) == [q |-> regs[wired[k]].q, reg |-> wired[k], base |-> ItemsBefore(s, k - 1)]
           dynamic == [k \in DOMAIN wired |-> offer(k)]
           observed == own \o dynamic
           T == {base} \cup {offer(k) : k \in DOMAIN wired}
           full == {o \in ToSet(observed) : queue[o.q].events # << >>}
<1>1. Offers(s) = Chosen(observed, full)
  BY DEF Offers
<1>2. wired \in Seq(Nat) /\ ToSet(wired) = W
  <2>1. prog.wired[s] \in Seq(RegVar) /\ regVar \in [RegVar -> Nat] /\ regs \in Seq(Reg(Q))
    BY ProgramFacts DEF Inv, Types
  <2> DEFINE w == prog.wired[s]
  <2>2. wired = WiredOf(w, regVar, regs)
    BY DEF WiredRegs, WiredOf
  <2> HIDE DEF w, wired, Q
  <2>3. wired \in Seq(Nat) /\ ToSet(wired) = WiredIn(w, regVar, regs)
    BY ONLY <2>1, <2>2, WiredRegsAre DEF w
  <2> QED BY <2>3 DEF w
<1>3. ToSet(ObservedQueues(s)) = ({es[s].q} \ {NoQueue}) \cup {regs[r].q : r \in W}
  BY ObservedNow DEF ObservedSet
<1> HIDE DEF wired, W
<1>4. base.q = es[s].q /\ \A k \in DOMAIN wired : offer(k).q = regs[wired[k]].q
  OBVIOUS
<1> HIDE DEF base, offer
<1>5. own \in Seq(T) /\ ToSet(own) = IF es[s].q = NoQueue THEN {} ELSE {base}
  <2>1. base \in T /\ own = IF es[s].q = NoQueue THEN << >> ELSE << base >>
    OBVIOUS
  <2> HIDE DEF T, own
  <2>2. CASE es[s].q = NoQueue
    BY <2>1, <2>2 DEF ToSet
  <2>3. CASE es[s].q # NoQueue
    <3>1. own = << base >> /\ DOMAIN own = {1} /\ own[1] = base
      BY <2>1, <2>3
    <3> QED BY <2>1, <2>3, <3>1 DEF ToSet
  <2> QED BY <2>2, <2>3
<1>6. dynamic \in Seq(T) /\ ToSet(dynamic) = {offer(k) : k \in DOMAIN wired}
  <2>1. DOMAIN wired = 1 .. Len(wired) /\ Len(wired) \in Nat
    BY <1>2
  <2>2. \A k \in DOMAIN wired : offer(k) \in T
    OBVIOUS
  <2> HIDE DEF T
  <2> QED BY <2>1, <2>2 DEF ToSet
<1> HIDE DEF own, dynamic, T
<1>7. observed \in Seq(T) /\ ToSet(observed) = ToSet(own) \cup ToSet(dynamic)
  BY <1>5, <1>6, ConcatSet
<1> HIDE DEF observed
<1>8. Offers(s) \in Seq(T) /\ ToSet(Offers(s)) = ToSet(observed) \cap full
  <2> HIDE DEF full
  <2>1. Chosen(observed, full) \in Seq(T)
    BY ONLY <1>7, ChosenSet
  <2>2. ToSet(Chosen(observed, full)) = ToSet(observed) \cap full
    BY ONLY <1>7, ChosenSet
  <2> QED BY ONLY <1>1, <2>1, <2>2
<1>9. {regs[wired[k]].q : k \in DOMAIN wired} = {regs[r].q : r \in W}
  <2>1. W = {wired[k] : k \in DOMAIN wired}
    BY <1>2 DEF ToSet
  <2> QED BY <2>1
<1>10. ASSUME NEW o \in ToSet(observed) PROVE o.q \in ToSet(ObservedQueues(s))
  <2>1. CASE o \in ToSet(own)
    BY <1>3, <1>4, <1>5, <2>1
  <2>2. CASE o \in ToSet(dynamic)
    <3>1. PICK k \in DOMAIN wired : o = offer(k)
      BY <1>6, <2>2
    <3>2. o.q \in {regs[r].q : r \in W}
      BY <1>4, <1>9, <3>1
    <3> QED BY <1>3, <3>2
  <2> QED BY <1>7, <2>1, <2>2
<1>11. ASSUME NEW q \in ToSet(ObservedQueues(s)) PROVE \E o \in ToSet(observed) : o.q = q
  <2>1. CASE q = es[s].q /\ q # NoQueue
    BY <1>4, <1>5, <1>7, <2>1
  <2>2. CASE q \in {regs[r].q : r \in W}
    <3>1. PICK k \in DOMAIN wired : q = regs[wired[k]].q
      BY <1>9, <2>2
    <3> QED BY <1>4, <1>6, <1>7, <3>1
  <2> QED BY <1>3, <2>1, <2>2
<1>12. \A k \in DOMAIN Offers(s) : Offers(s)[k] \in full /\ Offers(s)[k] \in ToSet(observed)
  BY <1>8 DEF ToSet
<1>13. ASSUME NEW q \in ToSet(ObservedQueues(s)), queue[q].events # << >>
       PROVE  \E k \in DOMAIN Offers(s) : Offers(s)[k].q = q
  <2>1. PICK o \in ToSet(observed) : o.q = q
    BY <1>11
  <2>2. o \in ToSet(Offers(s))
    BY <1>8, <1>13, <2>1
  <2> QED BY <2>1, <2>2 DEF ToSet
<1> HIDE DEF full
<1>14. \A k \in DOMAIN Offers(s) : queue[Offers(s)[k].q].events # << >>
  BY <1>12 DEF full
<1> QED BY <1>8, <1>10, <1>12, <1>13, <1>14 DEF Offering

\* The queue that s takes an event from: none, if no queue that it observes holds
\* anything, else the one whose event is the earliest of all.
TakesFrom(s, q) ==
  /\ q \in DOMAIN queue
  /\ queue' = [Observed(queue, s) EXCEPT ![q].events = IF @ = << >> THEN @ ELSE Tail(@)]
  /\ handled'[s].event = EventOf(q)
  /\ \/ q = NoQueue /\ \A p \in ToSet(ObservedQueues(s)) : queue[p].events = << >>
     \/ /\ q \in ToSet(ObservedQueues(s)) /\ queue[q].events # << >>
        /\ \A p \in ToSet(ObservedQueues(s)) : \A e \in ToSet(queue[p].events) :
             Head(queue[q].events).n <= e.n

\* The offer that s takes.
Taken(s) == IF Offers(s) = << >> THEN [q |-> NoQueue, reg |-> 0, base |-> 0] ELSE Pending(Offers(s))

LEMMA DispatchTakes ==
  ASSUME Inv, NEW s \in Structures, DOMAIN handled = Structures, Dispatch(s)
  PROVE  TakesFrom(s, Taken(s).q) /\ Taken(s).q \in Nat /\ (Offers(s) # << >> => Earliest(Offers(s)))
<1> DEFINE offers == Offers(s)
           o == IF offers = << >> THEN [q |-> NoQueue, reg |-> 0, base |-> 0] ELSE Pending(offers)
           dyn == IF o.reg = 0 THEN 0 ELSE o.base + DynamicEventMatch(regs[o.reg].entries, EventOf(o.q).ref)
           h == [case |-> CaseFor(s, EventOf(o.q), dyn), event |-> EventOf(o.q)]
<1>1. /\ queue' = [Observed(queue, s) EXCEPT ![o.q].events = IF @ = << >> THEN @ ELSE Tail(@)]
      /\ handled' = [handled EXCEPT ![s] = h]
  BY DEF Dispatch
<1>2. PICK T : offers \in Seq(T)
  BY OffersFacts
<1>3. Offering(s, offers)
  BY OffersFacts
<1>4. h.event = EventOf(o.q)
  OBVIOUS
<1> SUFFICES TakesFrom(s, o.q) /\ o.q \in Nat /\ (offers # << >> => Earliest(offers))
  BY DEF Taken
<1> HIDE DEF offers, h
<1>5. handled'[s].event = EventOf(o.q)
  <2>1. handled'[s] = h
    BY <1>1
  <2> QED BY <1>4, <2>1
<1>6. \A p \in ToSet(ObservedQueues(s)) : p \in DOMAIN queue /\ p \in Nat
  BY ObservedNow, QueuesFinite DEF Inv, Types
<1>7. CASE offers = << >>
  <2>1. o.q = NoQueue
    BY <1>7
  <2>2. DOMAIN offers = {}
    BY <1>7
  <2>3. \A p \in ToSet(ObservedQueues(s)) : queue[p].events = << >>
    BY <1>3, <2>2 DEF Offering
  <2>4. NoQueue \in DOMAIN queue /\ NoQueue \in Nat
    BY QueuesFinite DEF Inv, Types
  <2> HIDE DEF o
  <2> QED BY <1>1, <1>5, <1>7, <2>1, <2>3, <2>4 DEF TakesFrom
<1>8. CASE offers # << >>
  <2>1. o = Pending(offers)
    BY <1>8
  <2> HIDE DEF o
  <2>2. \A k \in DOMAIN offers : offers[k].q \in DOMAIN queue /\ queue[offers[k].q].events # << >>
    BY <1>3, <1>6 DEF Offering
  <2>3. Earliest(offers)
    BY <1>2, <1>8, <2>2, PendingFacts
  <2>4. PICK k \in DOMAIN offers :
          /\ o = offers[k]
          /\ \A i \in DOMAIN offers :
               Head(queue[offers[k].q].events).n <= Head(queue[offers[i].q].events).n
    BY <2>1, <2>3, Zenon DEF Earliest
  <2>5. o.q \in ToSet(ObservedQueues(s)) /\ queue[o.q].events # << >>
    BY <1>3, <2>4 DEF Offering
  <2>6. ASSUME NEW p \in ToSet(ObservedQueues(s)), NEW e \in ToSet(queue[p].events)
        PROVE  Head(queue[o.q].events).n <= e.n
    <3>1. p \in DOMAIN queue /\ queue[p].events \in Seq(Event) /\ o.q \in DOMAIN queue
      BY <1>6, <2>5, QueuesFinite DEF Inv, Types
    <3>2. queue[p].events # << >> /\ e \in Event
      BY <2>6, <3>1 DEF ToSet
    <3>3. PICK i \in DOMAIN offers : offers[i].q = p
      BY <1>3, <3>2 DEF Offering
    <3>4. Head(queue[o.q].events).n <= Head(queue[p].events).n
      BY <2>4, <3>3
    <3>5. Head(queue[p].events).n \in Nat /\ Head(queue[p].events).n <= e.n
      BY <2>6, <3>1, <3>2, HeadFacts
    <3>6. Head(queue[o.q].events).n \in Nat
      BY <2>5, <3>1, HeadFacts
    <3>7. e.n \in Nat
      BY <3>2 DEF Event
    <3> QED BY <3>4, <3>5, <3>6, <3>7
  <2>7. o.q \in DOMAIN queue /\ o.q \in Nat
    BY <1>6, <2>5
  <2> QED BY <1>1, <1>5, <2>3, <2>5, <2>6, <2>7 DEF TakesFrom
<1> QED BY <1>7, <1>8

\* s goes on without an event, its occurrence not having gone off, and counts it.
InVain(s) == Taken(s).q = NoQueue /\ ~ HasOccurred(s) /\ es'[s].count > es[s].count

Dispatched(s) ==
  /\ Becomes(s, es'[s])
  /\ es'[s].set = es[s].set + Missed(s)
  /\ es'[s].count <= es[s].count + 1 /\ es'[s].count <= es'[s].set + MaxBehind
  /\ es[s].count < es'[s].set => es'[s].count = es[s].count + 1
  /\ es[s].count <= es'[s].set + MaxBehind => es[s].count <= es'[s].count
  /\ es'[s].late = IF InVain(s) THEN es[s].late + 1 ELSE es[s].late
  /\ ~ es'[s].asleep /\ ~ es'[s].timer /\ ~ es'[s].listed /\ ~ es'[s].ready

LEMMA DispatchFacts ==
  ASSUME Inv, NEW s \in Structures, Dispatch(s)
  PROVE  Dispatched(s)
<1> DEFINE Q == DOMAIN queue
           e == es[s]
           set == e.set + Missed(s)
           n == Min({e.count + 1, set + MaxBehind})
           vain == ~ HasOccurred(s) /\ Taken(s).q = NoQueue /\ n > e.count
           l == e.late + (IF vain THEN 1 ELSE 0)
           a == [e EXCEPT !.set = set]
           b == [a EXCEPT !.count = n]
           f == [b EXCEPT !.late = l]
           c == [f EXCEPT !.asleep = FALSE, !.timer = FALSE]
           d == [c EXCEPT !.listed = FALSE, !.ready = FALSE]
<1>1. Types
  BY DEF Inv
<1>2. es \in [Structures -> Clump(Q)] /\ e \in Clump(Q)
  BY <1>1 DEF Types
<1>3. es' = [es EXCEPT ![s] = [e EXCEPT !.set = set, !.count = n, !.late = l, !.asleep = FALSE, !.timer = FALSE,
                                        !.listed = FALSE, !.ready = FALSE]]
  BY DEF Dispatch, Taken
<1>4. Missed(s) \in Nat /\ MaxBehind \in Nat
  BY MissedFacts, EventsAssumption
<1>5. e.count \in Nat /\ e.set \in Nat /\ e.late \in Nat
  <2> HIDE DEF e, Q
  <2> QED BY <1>2 DEF Clump
<1>6. set \in Nat
  BY <1>4, <1>5
<1> HIDE DEF Q, e, set
<1>7. /\ n \in Nat /\ n <= e.count + 1 /\ n <= set + MaxBehind /\ (e.count < set => n = e.count + 1)
      /\ e.count <= set + MaxBehind => e.count <= n
  <2> DEFINE x == e.count + 1
             y == set + MaxBehind
  <2>1. x \in Nat /\ y \in Nat
    BY <1>4, <1>5, <1>6
  <2>2. e.count < set => x <= y
    BY <1>4, <1>5, <1>6
  <2>3. e.count <= x
    BY <1>5
  <2> HIDE DEF x, y
  <2>4. Min({x, y}) \in {x, y} /\ Min({x, y}) <= x /\ Min({x, y}) <= y
    <3>1. \E m \in {x, y} : \A k \in {x, y} : m <= k
      BY <2>1
    <3> QED BY <3>1 DEF Min
  <2>5. x <= y => Min({x, y}) = x
    BY <2>1, <2>4
  <2>6. /\ Min({x, y}) \in Nat /\ Min({x, y}) <= x /\ Min({x, y}) <= y /\ (e.count < set => Min({x, y}) = x)
        /\ e.count <= y => e.count <= Min({x, y})
    BY <2>1, <2>2, <2>3, <2>4, <2>5
  <2> QED BY <2>6 DEF x, y
<1> HIDE DEF n
<1>8. a \in Clump(Q) /\ a.q = e.q /\ a.set = set /\ l \in Nat
  BY <1>2, <1>5, <1>6 DEF Clump
<1>9. es' = [es EXCEPT ![s] = d]
  BY <1>2, <1>3 DEF Clump
<1> HIDE DEF a
<1>10. b \in Clump(Q) /\ b.q = e.q /\ b.set = set /\ b.count = n
  BY <1>7, <1>8 DEF Clump
<1> HIDE DEF b, l
<1>11. f \in Clump(Q) /\ f.q = e.q /\ f.set = set /\ f.count = n /\ f.late = l
  BY <1>8, <1>10 DEF Clump
<1> HIDE DEF f
<1>12. c \in Clump(Q) /\ c.q = e.q /\ c.set = set /\ c.count = n /\ c.late = l /\ ~ c.asleep /\ ~ c.timer
  BY <1>11 DEF Clump
<1> HIDE DEF c
<1>13. /\ d \in Clump(Q) /\ d.q = e.q /\ d.set = set /\ d.count = n /\ d.late = l
       /\ ~ d.asleep /\ ~ d.timer /\ ~ d.listed /\ ~ d.ready
  BY <1>12 DEF Clump
<1> HIDE DEF d
<1>14. es' \in [Structures -> Clump(Q)] /\ es'[s] = d /\ \A u \in Structures \ {s} : es'[u] = es[u]
  BY <1>2, <1>9, <1>13
<1>15. Becomes(s, es'[s])
  BY <1>13, <1>14 DEF Becomes, Q, e
<1>16. es'[s].late = IF InVain(s) THEN es[s].late + 1 ELSE es[s].late
  <2>1. vain <=> InVain(s)
    <3>1. es'[s].count = n /\ es[s] = e
      BY <1>13, <1>14 DEF e
    <3> QED BY <3>1 DEF InVain
  <2>2. es'[s].late = l
    BY <1>13, <1>14
  <2>3. l = IF vain THEN e.late + 1 ELSE e.late
    BY <1>5 DEF l
  <2> QED BY <2>1, <2>2, <2>3 DEF e
<1>17. /\ es'[s].set = set /\ es'[s].count = n
       /\ ~ es'[s].asleep /\ ~ es'[s].timer /\ ~ es'[s].listed /\ ~ es'[s].ready
  BY <1>13, <1>14
<1> QED BY <1>7, <1>15, <1>16, <1>17 DEF Dispatched, e, set

\* What is in the queues after an event has been taken from q.
LEMMA TakenFacts ==
  ASSUME Inv, NEW s \in Structures, NEW q, TakesFrom(s, q)
  PROVE  /\ SameQueues(queue, queue')
         /\ \A p \in DOMAIN queue \ {q} : queue'[p].events = queue[p].events
         /\ queue'[q].events = IF queue[q].events = << >> THEN << >> ELSE Tail(queue[q].events)
         /\ \A p \in DOMAIN queue :
              queue'[p].wakeUp = IF p \in ToSet(ObservedQueues(s)) THEN s ELSE queue[p].wakeUp
<1> DEFINE new == Observed(queue, s)
           list == new[q].events
           rest == IF list = << >> THEN list ELSE Tail(list)
           d == [new[q] EXCEPT !.events = rest]
<1>1. IsQueues(queue)
  BY DEF Inv, Types
<1>2. /\ SameQueues(queue, new)
      /\ \A p \in DOMAIN queue : new[p].events = queue[p].events
      /\ \A p \in DOMAIN queue : new[p].wakeUp = IF p \in ToSet(ObservedQueues(s)) THEN s ELSE queue[p].wakeUp
  BY <1>1, ObservedFacts
<1>3. queue' = [new EXCEPT ![q] = d] /\ q \in DOMAIN queue
  BY DEF TakesFrom
<1> HIDE DEF new
<1>4. PICK n \in Nat \ {0} : new \in [0 .. n - 1 -> Queue]
  BY <1>2 DEF SameQueues, IsQueues
<1>5. DOMAIN new = DOMAIN queue /\ new[q] \in Queue
  BY <1>2, <1>3, <1>4 DEF SameQueues
<1>6. list \in Seq(Event)
  BY <1>5 DEF Queue
<1>7. rest \in Seq(Event)
  BY <1>6
<1> HIDE DEF rest
<1>8. d \in Queue /\ d.events = rest /\ d.active = new[q].active /\ d.wakeUp = new[q].wakeUp
  BY <1>5, <1>7 DEF Queue
<1> HIDE DEF d
<1>9. /\ queue' \in [0 .. n - 1 -> Queue] /\ DOMAIN queue' = DOMAIN queue
      /\ queue'[q] = d /\ \A p \in DOMAIN queue \ {q} : queue'[p] = new[p]
  BY <1>3, <1>4, <1>5, <1>8
<1>10. IsQueues(queue')
  BY <1>9 DEF IsQueues
<1>11. \A p \in DOMAIN queue : queue'[p].active = queue[p].active /\ queue'[p].wakeUp = new[p].wakeUp
  BY <1>2, <1>3, <1>8, <1>9 DEF SameQueues
<1>12. SameQueues(queue, queue')
  BY <1>9, <1>10, <1>11 DEF SameQueues
<1>13. queue'[q].events = IF queue[q].events = << >> THEN << >> ELSE Tail(queue[q].events)
  <2>1. queue'[q].events = rest /\ list = queue[q].events
    BY <1>2, <1>3, <1>8, <1>9
  <2> QED BY <2>1 DEF rest
<1> QED BY <1>2, <1>9, <1>11, <1>12, <1>13

LEMMA DispatchInv ==
  ASSUME Inv, NEW s \in Structures, DOMAIN handled = Structures, Dispatch(s)
  PROVE  Inv'
<1>1. PICK q \in Nat : TakesFrom(s, q)
  BY DispatchTakes
<1>2. /\ SameQueues(queue, queue')
      /\ \A p \in DOMAIN queue \ {q} : queue'[p].events = queue[p].events
      /\ queue'[q].events = IF queue[q].events = << >> THEN << >> ELSE Tail(queue[q].events)
  BY <1>1, TakenFacts
<1>3. \A p \in DOMAIN queue : queue'[p].events \in {queue[p].events, Tail(queue[p].events)}
  BY <1>2
<1>4. \A p \in DOMAIN queue : queue[p].events = << >> => queue'[p].events = << >>
  BY <1>2
<1>5. es' \in [Structures -> Clump(DOMAIN queue)] /\ \A u \in Structures : es'[u].q = es[u].q
  BY DispatchFacts DEF Dispatched, Becomes
<1>6. UNCHANGED << prog, specs, bucket, info, regVar, regs, created, cleanup, listening, count >>
  BY DEF Dispatch
<1> QED BY <1>2, <1>3, <1>4, <1>5, <1>6, FewerEventsInv

-----------------------------------------------------------------------------
(* Registrations are disposed of.                                           *)

\* n is o without some registrations, and nothing that held of o is lost.
Disposing(o, n) ==
  /\ Agreeing(o) /\ Agreeing(n) /\ Fewer(o, n)
  /\ EmptyIn(o.queue) => EmptyIn(n.queue)
  /\ AllScalarIn(o.regs) => AllScalarIn(n.regs)
  /\ SingleRefsIn(o.regs) => SingleRefsIn(n.regs)
  /\ AllScalarIn(o.regs) /\ SingleRefsIn(o.regs) /\ KnownIn(o.regs, o.b) => KnownIn(n.regs, n.b)

LEMMA DisposingInv ==
  ASSUME Inv, NEW bs, IsBuckets(bs, DOMAIN queue), DOMAIN bs = DOMAIN bucket,
         StaticBuckets(bs, queue, regs), ScalarOnly => KnownIn(regs, bs[AppIndex]),
         NEW o, o.queue = queue, o.b = bs[AppIndex], o.regs = regs,
         NEW n, Disposing(o, n),
         queue' = n.queue, regs' = n.regs, bucket' = [bs EXCEPT ![AppIndex] = n.b],
         es' \in [Structures -> Clump(DOMAIN queue)],
         \A s \in Structures : es'[s].q \in {es[s].q, NoQueue},
         IsInfo(info', DOMAIN bucket), listening' \subseteq Heed(DOMAIN bucket),
         \A v \in ToSet(VI) : cleanup'[v] \subseteq cleanup[v], DOMAIN cleanup' = ToSet(VI),
         cleanup' \in [ToSet(VI) -> SUBSET Record],
         UNCHANGED << prog, specs, regVar, created, count >>
  PROVE  Inv'
<1> DEFINE Q == DOMAIN queue
<1>1. Types /\ Owners /\ InOrder(queue, count) /\ Scalars /\ RightKinds(regVar, regs) /\ Strays
  BY DEF Inv
<1>2. Agreeing(n) /\ Fewer(o, n)
  BY DEF Disposing
<1>3. /\ IsQueues(queue') /\ DOMAIN queue' = Q /\ regs' \in Seq(Reg(Q)) /\ Len(regs') = Len(regs)
      /\ n.b \in Bucket(Q)
  BY <1>2 DEF Agreeing, Fewer
<1>4. /\ regs \in Seq(Reg(Q)) /\ DOMAIN regs' = DOMAIN regs /\ DOMAIN regs = 1 .. Len(regs)
      /\ count \in Nat /\ count \in 0 .. prog.events
  BY <1>1, <1>3, ProgramFacts DEF Types
<1>5. /\ \A q \in Q : queue'[q].events \in {queue[q].events, << >>}
      /\ \A r \in DOMAIN regs : regs'[r] = regs[r] \/ regs'[r] = Disposed
      /\ \A q : Static(q, queue, regs) => Static(q, queue', regs')
      /\ OthersKept(bs[AppIndex], n.b)
  BY <1>2 DEF Fewer
<1>6. /\ \A r \in DOMAIN regs : regs'[r].valid => regs'[r] = regs[r]
      /\ \A r \in DOMAIN regs : regs'[r].born = regs[r].born \/ regs'[r].born = 0
  BY <1>5 DEF Disposed
<1>7. AppIndex \in DOMAIN bs
  BY DEF IsBuckets, AppIndex
<1>8. /\ DOMAIN bucket' = DOMAIN bucket /\ bucket'[AppIndex] = n.b
      /\ \A i \in DOMAIN bucket \ {AppIndex} : bucket'[i] = bs[i]
  BY <1>7
<1>9. IsBuckets(bucket', Q)
  <2>1. PICK m \in Nat \ {0} : bs \in [0 .. m - 1 -> Bucket(Q)]
    BY DEF IsBuckets
  <2> HIDE DEF Q
  <2>2. bucket' \in [0 .. m - 1 -> Bucket(Q)]
    BY <1>3, <2>1
  <2> QED BY <2>2 DEF IsBuckets
<1>10. Types'
  <2>1. regVar' \in [RegVar -> 0 .. Len(regs')] /\ count' \in 0 .. prog'.events
    BY <1>1, <1>3, <1>4 DEF Types
  <2>2. \A v \in ToSet(VI) : \A c \in cleanup'[v] : c.kind = "reg" => c.ref \in 1 .. Len(regs')
    <3>1. \A v \in ToSet(VI) : \A c \in cleanup[v] : c.kind = "reg" => c.ref \in 1 .. Len(regs)
      BY <1>1 DEF Types
    <3> QED BY <1>3, <3>1
  <2> QED BY <1>1, <1>3, <1>8, <1>9, <2>1, <2>2 DEF Types
<1>11. Owners'
  <2>1. OwnQueues(queue', regs')
    BY <1>2 DEF Agreeing
  <2>2. \A s \in Structures : Static(es'[s].q, queue', regs')
    BY <1>1, <1>5 DEF Owners, Static
  <2>3. StaticBuckets(bucket', queue', regs')
    <3>1. \A i \in DOMAIN bucket' \ {AppIndex} : \A t \in EventType :
            \A e \in ToSet(bucket'[i].lists[t]) : Static(e.q, queue', regs')
      BY <1>5, <1>8 DEF StaticBuckets
    <3>2. \A t \in UIEvents : bucket'[AppIndex].lists[t] = << >>
      BY <1>5, <1>8 DEF StaticBuckets, OthersKept, UIEvents, EventType
    <3> QED BY <3>1, <3>2 DEF StaticBuckets
  <2> QED BY <2>1, <2>2, <2>3 DEF Owners
<1>12. InOrder(queue, count)'
  <2> SUFFICES ASSUME NEW q \in Q
               PROVE  /\ \A k \in DOMAIN queue'[q].events : queue'[q].events[k].n \in 1 .. count
                      /\ \A j, k \in DOMAIN queue'[q].events :
                           j < k => queue'[q].events[j].n < queue'[q].events[k].n
    BY <1>3 DEF InOrder
  <2>1. CASE queue'[q].events = queue[q].events
    BY <1>1, <2>1 DEF InOrder
  <2>2. CASE queue'[q].events = << >>
    BY <2>2
  <2> QED BY <1>5, <2>1, <2>2
<1>13. Scalars'
  <2>1. SingleRefsIn(regs')
    BY <1>1 DEF Scalars, Disposing
  <2>2. ScalarOnly' => AllScalarIn(regs')
    BY <1>1 DEF Scalars, ScalarOnly, Disposing
  <2>3. \A r \in DOMAIN regs : regs[r].born <= count /\ 0 <= count
    BY <1>1, <1>4 DEF Scalars
  <2>4. \A r \in DOMAIN regs' : regs'[r].born <= count'
    BY <1>4, <1>6, <2>3
  <2> QED BY <2>1, <2>2, <2>4 DEF Scalars
<1>14. RightKinds(regVar, regs)'
  <2> SUFFICES ASSUME NEW x \in RegVar, regVar[x] \in DOMAIN regs, regs'[regVar[x]].valid
               PROVE  /\ Len(regs'[regVar[x]].entries) = Len(prog.kinds[x])
                      /\ \A k \in DOMAIN regs'[regVar[x]].entries :
                           regs'[regVar[x]].entries[k].kind = prog.kinds[x][k]
    BY <1>4 DEF RightKinds
  <2>1. regs'[regVar[x]] = regs[regVar[x]]
    BY <1>6
  <2> QED BY <1>1, <2>1 DEF RightKinds
<1>15. HeardIn(regs, bucket[AppIndex])'
  BY <1>2, <1>8 DEF Agreeing
<1>16. ASSUME ScalarOnly
       PROVE  KnownIn(regs', n.b) /\ EmptyIn(queue') /\ YoungIn(queue', regs')
  <2>1. AllScalarIn(regs) /\ SingleRefsIn(regs) /\ EmptyIn(queue) /\ YoungIn(queue, regs)
        /\ KnownIn(regs, bs[AppIndex])
    BY <1>1, <1>16 DEF Scalars, Strays
  <2>2. KnownIn(regs', n.b) /\ EmptyIn(queue')
    BY <2>1 DEF Disposing
  <2>3. \A r \in DOMAIN regs : regs[r].q \in Q
    <3> SUFFICES ASSUME NEW r \in DOMAIN regs PROVE regs[r].q \in Q
      OBVIOUS
    <3> DEFINE g == regs[r]
    <3>1. g \in Reg(Q)
      BY <1>4
    <3> HIDE DEF g, Q
    <3>2. g.q \in Q
      BY <3>1 DEF Reg
    <3> QED BY <3>2 DEF g
  <2>4. \A q \in Q : ToSet(queue'[q].events) \subseteq ToSet(queue[q].events)
    BY <1>5 DEF ToSet
  <2>5. YoungIn(queue', regs')
    <3> SUFFICES ASSUME NEW r \in DOMAIN regs, regs'[r].valid, NEW e \in ToSet(queue'[regs'[r].q].events)
                 PROVE  e.n > regs'[r].born
      BY <1>4 DEF YoungIn
    <3>1. regs'[r] = regs[r] /\ regs[r].valid
      BY <1>6
    <3>2. e \in ToSet(queue[regs[r].q].events)
      BY <2>3, <2>4, <3>1
    <3>3. e.n > regs[r].born
      BY <2>1, <3>1, <3>2 DEF YoungIn
    <3> QED BY <3>1, <3>3
  <2> QED BY <2>2, <2>5
<1>17. Strays'
  BY <1>8, <1>16 DEF Strays, ScalarOnly
<1> QED BY <1>10, <1>11, <1>12, <1>13, <1>14, <1>15, <1>17 DEF Inv

\* Queues, application bucket and registrations agree, in every state.
LEMMA AgreeingNow ==
  ASSUME Inv, NEW o, o.queue = queue, o.b = bucket[AppIndex], o.regs = regs
  PROVE  Agreeing(o)
<1> DEFINE Q == DOMAIN queue
           b == bucket[AppIndex]
<1>1. /\ IsQueues(queue) /\ IsBuckets(bucket, Q) /\ regs \in Seq(Reg(Q)) /\ OwnQueues(queue, regs)
      /\ HeardIn(regs, b)
  BY DEF Inv, Types, Owners
<1>2. b \in Bucket(Q)
  <2> HIDE DEF Q
  <2> QED BY <1>1 DEF IsBuckets, AppIndex
<1> QED BY <1>1, <1>2 DEF Agreeing

\* A step that disposes of registrations, after the buckets have become bs.
Disposes(bs) ==
  \E o, n :
    /\ o.queue = queue /\ o.b = bs[AppIndex] /\ o.regs = regs
    /\ Disposing(o, n)
    /\ queue' = n.queue /\ regs' = n.regs /\ bucket' = [bs EXCEPT ![AppIndex] = n.b]

LEMMA UnregisterDisposes ==
  ASSUME Inv, NEW x \in RegVar, UnregisterForEvents(x)
  PROVE  Disposes(bucket)
<1> DEFINE o == [queue |-> queue, b |-> bucket[AppIndex], regs |-> regs]
           r == regVar[x]
           n == Unregistered(o, r)
<1>1. /\ queue' = n.queue /\ regs' = n.regs /\ bucket' = [bucket EXCEPT ![AppIndex] = n.b]
      /\ r \in DOMAIN regs
  BY DEF UnregisterForEvents, Valid
<1>2. o.queue = queue /\ o.b = bucket[AppIndex] /\ o.regs = regs
  OBVIOUS
<1>4. n = Unregistered(o, r)
  OBVIOUS
<1> HIDE DEF o, n
<1>5. Agreeing(o) /\ r \in DOMAIN o.regs
  BY <1>1, <1>2, AgreeingNow
<1> HIDE DEF r
<1>6. Disposing(o, n)
  BY <1>4, <1>5, UnregisteredFacts DEF Disposing
<1> QED BY <1>1, <1>2, <1>6 DEF Disposes

LEMMA UnregisterInv ==
  ASSUME Inv, NEW x \in RegVar, UnregisterForEvents(x)
  PROVE  Inv'
<1>1. PICK o, n :
        /\ o.queue = queue /\ o.b = bucket[AppIndex] /\ o.regs = regs
        /\ Disposing(o, n)
        /\ queue' = n.queue /\ regs' = n.regs /\ bucket' = [bucket EXCEPT ![AppIndex] = n.b]
  BY UnregisterDisposes DEF Disposes
<1>2. UNCHANGED << prog, es, specs, info, regVar, created, cleanup, count, listening >>
  BY DEF UnregisterForEvents
<1>3. /\ IsBuckets(bucket, DOMAIN queue) /\ StaticBuckets(bucket, queue, regs)
      /\ ScalarOnly => KnownIn(regs, bucket[AppIndex])
  BY DEF Inv, Types, Owners, Strays
<1>4. /\ es' \in [Structures -> Clump(DOMAIN queue)] /\ \A s \in Structures : es'[s].q \in {es[s].q, NoQueue}
      /\ IsInfo(info', DOMAIN bucket) /\ listening' \subseteq Heed(DOMAIN bucket)
      /\ \A v \in ToSet(VI) : cleanup'[v] \subseteq cleanup[v]
      /\ DOMAIN cleanup' = ToSet(VI) /\ cleanup' \in [ToSet(VI) -> SUBSET Record]
  BY <1>2 DEF Inv, Types
<1> QED BY <1>1, <1>2, <1>3, <1>4, DisposingInv

-----------------------------------------------------------------------------
(* Event specs with JavaScript refnums.                                     *)

LEMMA ConfigureInv ==
  ASSUME Inv, NEW s \in Structures, NEW j \in JSRef, NEW k \in DOMAIN specs[s],
         ConfigureEventSpecJSRef(s, k, j)
  PROVE  Inv'
<1> DEFINE Q == DOMAIN queue
           v == Owner[s]
           spec == specs[s][k]
           t == spec.type
           uid == spec.ref
           q == es[s].q
           o == [bucket |-> bucket, info |-> info, listening |-> listening]
           n == RegisteredControl(o, v, t, q, uid, j, FALSE)
<1>1. /\ bucket' = n.bucket /\ info' = n.info /\ specs' = [specs EXCEPT ![s][k].ref = j]
      /\ UNCHANGED << prog, es, queue, regVar, regs, created, cleanup, count, listening >>
  BY DEF ConfigureEventSpecJSRef
<1>2. Types /\ Owners /\ StaticBuckets(bucket, queue, regs) /\ Static(q, queue, regs)
  BY DEF Inv, Owners
<1>3. v \in ToSet(VI) /\ j \in Nat
  BY EventsAssumption DEF Structures
<1>4. specs[s] \in Seq(Spec)
  BY <1>2 DEF Types
<1>5. spec \in Spec
  BY <1>4
<1>6. t \in EventType /\ uid \in Nat
  <2> HIDE DEF spec
  <2> QED BY <1>5 DEF Spec
<1>7. q \in Q
  <2> DEFINE e == es[s]
  <2>1. e \in Clump(Q)
    BY <1>2 DEF Types
  <2> HIDE DEF e, Q
  <2>2. e.q \in Q
    BY <2>1 DEF Clump
  <2> QED BY <2>2 DEF e
<1>8. Registering(o, Q) /\ DOMAIN o = Fields /\ o.bucket = bucket
  BY <1>2 DEF Registering, Types, Fields
<1>9. n = RegisteredControl(o, v, t, q, uid, j, FALSE) /\ FALSE \in BOOLEAN
  OBVIOUS
<1> HIDE DEF v, t, uid, q, o, n, Q
<1>10. ControlRegistered(o, n, q, Q)
  <2>1. Fields \subseteq DOMAIN o
    BY <1>8
  <2>2. Registering(o, Q)
    BY <1>8
  <2> QED BY <1>3, <1>6, <1>7, <1>9, <2>1, <2>2, RegisteredControlFacts
<1>11. Registering(n, Q) /\ OnlyMore(bucket, bucket', {q})
  BY <1>1, <1>8, <1>10 DEF ControlRegistered
<1>12. IsBuckets(bucket', Q) /\ IsInfo(info', DOMAIN bucket') /\ DOMAIN bucket \subseteq DOMAIN bucket'
       /\ bucket'[AppIndex] = bucket[AppIndex]
  BY <1>1, <1>11 DEF Registering, OnlyMore
<1>13. specs' \in [Structures -> Seq(Spec)]
  <2> DEFINE d == [spec EXCEPT !.ref = j]
             list == specs[s]
             list1 == [list EXCEPT ![k] = d]
  <2>1. d \in Spec
    <3> HIDE DEF spec
    <3> QED BY <1>3, <1>5 DEF Spec
  <2>2. specs' = [specs EXCEPT ![s] = list1]
    BY <1>1
  <2> HIDE DEF d
  <2>3. list1 \in Seq(Spec)
    BY <1>4, <2>1
  <2> HIDE DEF list1
  <2>4. specs \in [Structures -> Seq(Spec)]
    BY <1>2 DEF Types
  <2> QED BY <2>2, <2>3, <2>4
<1>14. listening' \subseteq Heed(DOMAIN bucket')
  <2>1. listening \subseteq Heed(DOMAIN bucket)
    BY <1>2 DEF Types
  <2>2. Heed(DOMAIN bucket) \subseteq Heed(DOMAIN bucket')
    BY <1>12 DEF Heed
  <2> QED BY <1>1, <2>1, <2>2
<1>15. Types'
  BY <1>1, <1>2, <1>12, <1>13, <1>14 DEF Types, Q
<1>16. Owners'
  <2>1. StaticBuckets(bucket', queue, regs)
    <3>1. \A i \in DOMAIN bucket' \ {AppIndex} : \A u \in EventType :
            \A e \in ToSet(bucket'[i].lists[u]) : Static(e.q, queue, regs)
      <4> SUFFICES ASSUME NEW i \in DOMAIN bucket' \ {AppIndex}, NEW u \in EventType,
                          NEW e \in ToSet(bucket'[i].lists[u])
                   PROVE  Static(e.q, queue, regs)
        OBVIOUS
      <4>1. (i \in DOMAIN bucket /\ e \in ToSet(bucket[i].lists[u])) \/ e.q = q
        BY <1>11 DEF OnlyMore
      <4> QED BY <1>2, <4>1 DEF StaticBuckets, q
    <3> QED BY <1>2, <1>12, <3>1 DEF StaticBuckets
  <2> QED BY <1>1, <1>2, <2>1 DEF Owners
<1>17. InOrder(queue, count)' /\ Scalars' /\ RightKinds(regVar, regs)'
  BY <1>1 DEF Inv, Scalars, ScalarOnly, RightKinds
<1>18. HeardIn(regs, bucket[AppIndex])' /\ Strays'
  BY <1>1, <1>12 DEF Inv, Strays, ScalarOnly
<1> QED BY <1>15, <1>16, <1>17, <1>18 DEF Inv

-----------------------------------------------------------------------------
(* Registering again.                                                       *)

LEMMA ReregisterInv ==
  ASSUME Inv, NEW v \in ToSet(VI), NEW x \in RegVar, NEW input \in prog.inputs[x],
         ReregisterForEvents(v, x, input)
  PROVE  Inv'
<1> DEFINE Q == DOMAIN queue
           r == regVar[x]
           g == regs[r]
           q == g.q
           b == bucket[AppIndex]
           base == [b |-> b, entries |-> g.entries, replaced |-> g.replaced]
           after == FoldLeft(ItemReregistered, base,
                             [k \in DOMAIN input |-> [q |-> q, k |-> k, refs |-> input[k]]])
<1>1. /\ bucket' = [bucket EXCEPT ![AppIndex] = after.b]
      /\ regs' = [regs EXCEPT ![r].entries = after.entries, ![r].replaced = after.replaced]
      /\ cleanup' = [cleanup EXCEPT ![v] = @ \cup {[kind |-> "reg", ref |-> r]}]
      /\ UNCHANGED << prog, es, specs, queue, info, regVar, created, count, listening >>
      /\ r \in DOMAIN regs /\ g.valid
      /\ \A k \in DOMAIN input : prog.kinds[x][k] = "scalar"
  BY DEF ReregisterForEvents, Valid
<1>2. Types /\ Owners /\ Scalars /\ RightKinds(regVar, regs) /\ HeardIn(regs, b) /\ Strays
  BY DEF Inv
<1>3. /\ regs \in Seq(Reg(Q)) /\ g \in Reg(Q) /\ IsBuckets(bucket, Q) /\ IsQueues(queue)
      /\ DOMAIN regs = 1 .. Len(regs)
  <2>1. regs \in Seq(Reg(Q)) /\ IsBuckets(bucket, Q) /\ IsQueues(queue)
    BY <1>2 DEF Types
  <2> HIDE DEF Q
  <2> QED BY <1>1, <2>1
<1>4. input \in Seq(Seq(Nat)) /\ Len(input) = Len(prog.kinds[x])
  BY <1>2, ProgramFacts DEF Types
<1>5. Len(g.entries) = Len(prog.kinds[x]) /\ \A k \in DOMAIN g.entries : g.entries[k].kind = prog.kinds[x][k]
  BY <1>1, <1>2 DEF RightKinds
<1>6. SingleRefs(g.entries) /\ (ScalarOnly => AllScalar(g.entries))
  BY <1>1, <1>2 DEF Scalars, SingleRefsIn, AllScalarIn
<1>7. HeardBy(q, g.entries, g.replaced, b)
  BY <1>1, <1>2 DEF HeardIn
<1>8. after = FoldLeft(ItemReregistered, base, [k \in DOMAIN input |-> [q |-> q, k |-> k, refs |-> input[k]]])
  OBVIOUS
<1>9. ASSUME ScalarOnly PROVE KnownTo(q, g.entries, b)
  <2> SUFFICES ASSUME NEW e \in Listeners(b), e.q = q
               PROVE  \E k \in DOMAIN g.entries : g.entries[k].refs = << e.ref >>
    BY DEF KnownTo
  <2>1. KnownIn(regs, b)
    BY <1>2, <1>9 DEF Strays
  <2>2. PICK t \in DOMAIN regs : /\ regs[t].valid /\ regs[t].q = e.q
                                 /\ \E k \in DOMAIN regs[t].entries : regs[t].entries[k].refs = << e.ref >>
    BY <2>1 DEF KnownIn
  <2>3. t = r
    BY <1>1, <1>2, <2>2 DEF Owners, OwnQueues
  <2> QED BY <2>2, <2>3
<1> HIDE DEF after, b, q, g
<1>10. q \in Q /\ g.entries \in Seq(Item) /\ g.replaced \in SUBSET Nat
  <2> HIDE DEF Q
  <2> QED BY <1>3 DEF Reg, q
<1>11. b \in Bucket(Q) /\ AppIndex \in DOMAIN bucket
  <2> HIDE DEF Q
  <2> QED BY <1>3 DEF IsBuckets, AppIndex, b
<1> HIDE DEF Q
<1>12. base.b = b /\ base.entries = g.entries /\ base.replaced = g.replaced
  OBVIOUS
<1> HIDE DEF base
<1>13. Reregistering(Q, q, base)
  BY <1>6, <1>7, <1>10, <1>11, <1>12 DEF Reregistering
<1>14. Len(input) = Len(base.entries) /\ \A k \in DOMAIN input : base.entries[k].kind = "scalar"
  <2>1. DOMAIN input = DOMAIN g.entries
    BY <1>4, <1>5, <1>10
  <2> QED BY <1>1, <1>4, <1>5, <1>12, <2>1
<1>15. /\ Reregistering(Q, q, after) /\ Beside(q, base, after)
       /\ AllScalar(base.entries) /\ KnownTo(q, base.entries, base.b) => KnownTo(q, after.entries, after.b)
  <2>1. input \in Seq(Seq(Nat)) /\ Len(input) = Len(base.entries)
    BY <1>4, <1>14
  <2> QED BY <1>8, <1>10, <1>13, <1>14, <2>1, ReregisteredFacts
<1>16. /\ after.b \in Bucket(Q) /\ after.entries \in Seq(Item) /\ after.replaced \in SUBSET Nat
       /\ SingleRefs(after.entries) /\ HeardBy(q, after.entries, after.replaced, after.b)
       /\ OthersKept(b, after.b) /\ Len(after.entries) = Len(g.entries)
       /\ DOMAIN after.entries = DOMAIN g.entries
       /\ \A k \in DOMAIN g.entries : after.entries[k].kind = g.entries[k].kind
       /\ \A e \in Listeners(b) : e.q # q => e \in Listeners(after.b)
       /\ \A e \in Listeners(after.b) : e.q # q => e \in Listeners(b)
  <2>1. /\ after.b \in Bucket(Q) /\ after.entries \in Seq(Item) /\ after.replaced \in SUBSET Nat
        /\ SingleRefs(after.entries) /\ HeardBy(q, after.entries, after.replaced, after.b)
    BY <1>15 DEF Reregistering
  <2>2. /\ OthersKept(b, after.b) /\ Len(after.entries) = Len(g.entries)
        /\ \A k \in DOMAIN g.entries : after.entries[k].kind = g.entries[k].kind
        /\ \A e \in Listeners(b) : e.q # q => e \in Listeners(after.b)
        /\ \A e \in Listeners(after.b) : e.q # q => e \in Listeners(b)
    BY <1>12, <1>15 DEF Beside
  <2>3. DOMAIN after.entries = DOMAIN g.entries
    BY <1>10, <2>1, <2>2
  <2> QED BY <2>1, <2>2, <2>3
<1> DEFINE g1 == [g EXCEPT !.entries = after.entries]
           g2 == [g1 EXCEPT !.replaced = after.replaced]
<1>17. regs' = [regs EXCEPT ![r] = g2]
  BY <1>1, <1>3 DEF g, Reg
<1>18. g1 \in Reg(Q) /\ g1.q = q /\ g1.valid = g.valid /\ g1.born = g.born /\ g1.entries = after.entries
  BY <1>3, <1>16 DEF Reg, q
<1> HIDE DEF g1
<1>19. /\ g2 \in Reg(Q) /\ g2.q = q /\ g2.valid = g.valid /\ g2.born = g.born
       /\ g2.entries = after.entries /\ g2.replaced = after.replaced
  BY <1>16, <1>18 DEF Reg
<1> HIDE DEF g2, r
<1>20. /\ regs' \in Seq(Reg(Q)) /\ Len(regs') = Len(regs) /\ DOMAIN regs' = DOMAIN regs /\ regs'[r] = g2
       /\ \A t \in DOMAIN regs \ {r} : regs'[t] = regs[t]
  <2>1. r \in DOMAIN regs /\ g2 \in Reg(Q) /\ regs \in Seq(Reg(Q))
    BY <1>1, <1>3, <1>19
  <2> QED BY <1>17, <2>1
<1>21. regs[r] = g
  BY DEF g, r
<1>22. \A t \in DOMAIN regs : regs'[t].q = regs[t].q /\ regs'[t].valid = regs[t].valid /\ regs'[t].born = regs[t].born
  BY <1>19, <1>20, <1>21 DEF q
<1>23. /\ DOMAIN bucket' = DOMAIN bucket /\ bucket'[AppIndex] = after.b
       /\ \A i \in DOMAIN bucket \ {AppIndex} : bucket'[i] = bucket[i]
  BY <1>1, <1>11
<1>24. IsBuckets(bucket', Q)
  <2>1. PICK m \in Nat \ {0} : bucket \in [0 .. m - 1 -> Bucket(Q)]
    BY <1>3 DEF IsBuckets
  <2>2. bucket' \in [0 .. m - 1 -> Bucket(Q)]
    BY <1>1, <1>16, <2>1
  <2> QED BY <2>2 DEF IsBuckets
<1>25. /\ cleanup' \in [ToSet(VI) -> SUBSET Record]
       /\ \A w \in ToSet(VI) : \A c \in cleanup'[w] : c.kind = "reg" => c.ref \in 1 .. Len(regs)
  <2> DEFINE c == [kind |-> "reg", ref |-> r]
  <2>1. c \in Record /\ c.ref \in 1 .. Len(regs)
    BY <1>1, <1>3 DEF Record, r
  <2>2. cleanup' = [cleanup EXCEPT ![v] = @ \cup {c}]
    BY <1>1
  <2> HIDE DEF c
  <2>3. /\ cleanup \in [ToSet(VI) -> SUBSET Record]
        /\ \A w \in ToSet(VI) : \A d \in cleanup[w] : d.kind = "reg" => d.ref \in 1 .. Len(regs)
    BY <1>2 DEF Types
  <2> QED BY <2>1, <2>2, <2>3
<1>26. Types'
  BY <1>1, <1>2, <1>20, <1>23, <1>24, <1>25 DEF Types, Q
<1>27. \A p : Static(p, queue, regs) => Static(p, queue, regs')
  BY <1>20, <1>22 DEF Static
<1>28. Owners'
  <2>1. OwnQueues(queue, regs')
    BY <1>2, <1>20, <1>22 DEF Owners, OwnQueues
  <2>2. StaticBuckets(bucket', queue, regs')
    <3>1. \A i \in DOMAIN bucket' \ {AppIndex} : \A t \in EventType :
            \A e \in ToSet(bucket'[i].lists[t]) : Static(e.q, queue, regs')
      BY <1>2, <1>23, <1>27 DEF Owners, StaticBuckets
    <3>2. \A t \in UIEvents : bucket'[AppIndex].lists[t] = << >>
      BY <1>2, <1>16, <1>23 DEF Owners, StaticBuckets, OthersKept, UIEvents, EventType, b
    <3> QED BY <3>1, <3>2 DEF StaticBuckets
  <2> QED BY <1>1, <1>2, <1>27, <2>1, <2>2 DEF Owners
<1>29. Scalars'
  <2>1. \A t \in DOMAIN regs' : SingleRefs(regs'[t].entries) /\ regs'[t].born <= count
    BY <1>2, <1>16, <1>19, <1>20, <1>22 DEF Scalars, SingleRefsIn
  <2>2. ASSUME ScalarOnly PROVE \A t \in DOMAIN regs' : AllScalar(regs'[t].entries)
    <3>1. AllScalar(after.entries)
      BY <1>6, <1>16, <2>2 DEF AllScalar
    <3> QED BY <1>2, <1>19, <1>20, <2>2, <3>1 DEF Scalars, AllScalarIn
  <2> QED BY <1>1, <2>1, <2>2 DEF Scalars, SingleRefsIn, AllScalarIn, ScalarOnly
<1>30. RightKinds(regVar, regs)'
  <2> SUFFICES ASSUME NEW y \in RegVar, regVar[y] \in DOMAIN regs, regs'[regVar[y]].valid
               PROVE  /\ Len(regs'[regVar[y]].entries) = Len(prog.kinds[y])
                      /\ \A k \in DOMAIN regs'[regVar[y]].entries :
                           regs'[regVar[y]].entries[k].kind = prog.kinds[y][k]
    BY <1>1, <1>20 DEF RightKinds
  <2>1. /\ Len(regs[regVar[y]].entries) = Len(prog.kinds[y])
        /\ \A k \in DOMAIN regs[regVar[y]].entries : regs[regVar[y]].entries[k].kind = prog.kinds[y][k]
    BY <1>2, <1>22 DEF RightKinds
  <2>2. CASE regVar[y] = r
    BY <1>16, <1>19, <1>20, <1>21, <2>1, <2>2
  <2>3. CASE regVar[y] # r
    BY <1>20, <2>1, <2>3
  <2> QED BY <2>2, <2>3
<1>31. HeardIn(regs, bucket[AppIndex])'
  <2> SUFFICES ASSUME NEW t \in DOMAIN regs, regs'[t].valid
               PROVE  HeardBy(regs'[t].q, regs'[t].entries, regs'[t].replaced, after.b)
    BY <1>20, <1>23 DEF HeardIn
  <2>1. CASE t = r
    BY <1>16, <1>19, <1>20, <2>1
  <2>2. CASE t # r
    <3>1. regs'[t] = regs[t] /\ regs[t].q # q
      BY <1>1, <1>2, <1>20, <1>21, <2>2 DEF Owners, OwnQueues, q
    <3>2. HeardBy(regs[t].q, regs[t].entries, regs[t].replaced, b)
      BY <1>2, <3>1 DEF HeardIn
    <3> QED BY <1>16, <3>1, <3>2 DEF HeardBy
  <2> QED BY <2>1, <2>2
<1>32. ASSUME ScalarOnly PROVE KnownIn(regs', after.b) /\ YoungIn(queue, regs')
  <2>1. KnownIn(regs, b) /\ YoungIn(queue, regs)
    BY <1>2, <1>32 DEF Strays, b
  <2>2. KnownTo(q, after.entries, after.b)
    BY <1>6, <1>9, <1>12, <1>15, <1>32
  <2>3. ASSUME NEW e \in Listeners(after.b)
        PROVE  \E t \in DOMAIN regs' :
                 /\ regs'[t].valid /\ regs'[t].q = e.q
                 /\ \E k \in DOMAIN regs'[t].entries : regs'[t].entries[k].refs = << e.ref >>
    <3>1. CASE e.q = q
      <4>1. \E k \in DOMAIN after.entries : after.entries[k].refs = << e.ref >>
        BY <2>2, <3>1 DEF KnownTo
      <4>2. r \in DOMAIN regs' /\ g.valid
        BY <1>1, <1>20
      <4>3. regs'[r].valid /\ regs'[r].q = e.q
        BY <1>19, <1>20, <3>1, <4>2
      <4>4. regs'[r].entries = after.entries
        BY <1>19, <1>20
      <4> QED BY <4>1, <4>2, <4>3, <4>4
    <3>2. CASE e.q # q
      <4>1. PICK t \in DOMAIN regs : /\ regs[t].valid /\ regs[t].q = e.q
                                     /\ \E k \in DOMAIN regs[t].entries : regs[t].entries[k].refs = << e.ref >>
        BY <1>16, <2>1, <3>2 DEF KnownIn
      <4>2. t # r
        BY <1>21, <3>2, <4>1 DEF q
      <4> QED BY <1>20, <4>1, <4>2
    <3> QED BY <3>1, <3>2
  <2>4. YoungIn(queue, regs')
    BY <1>20, <1>22, <2>1 DEF YoungIn
  <2> QED BY <2>3, <2>4 DEF KnownIn
<1>33. Strays'
  BY <1>1, <1>2, <1>23, <1>32 DEF Strays, ScalarOnly
<1>34. InOrder(queue, count)'
  BY <1>1 DEF Inv
<1> QED BY <1>26, <1>28, <1>29, <1>30, <1>31, <1>33, <1>34 DEF Inv

-----------------------------------------------------------------------------
(* Registering.                                                             *)

\* What becomes of the queues, when q is added to them.
LEMMA AddedFacts ==
  ASSUME Inv, NEW q, QueueAdded(queue, q, queue')
  PROVE  /\ IsQueues(queue') /\ DOMAIN queue' = DOMAIN queue \cup {q}
         /\ \A p : Static(p, queue, regs) => p # q
         /\ \A t \in DOMAIN regs : regs[t].q \in DOMAIN queue /\ (regs[t].valid => regs[t].q # q)
         /\ NoQueue \in DOMAIN queue' /\ ~ queue'[NoQueue].active
         /\ \A p \in DOMAIN queue \ {q} : queue'[p] = queue[p]
         /\ \A p \in DOMAIN queue : queue'[p].events = queue[p].events
         /\ q \notin DOMAIN queue => queue'[q].events = << >>
         /\ InOrder(queue', count)
         /\ EmptyIn(queue) => EmptyIn(queue') /\ queue'[q].events = << >>
<1> DEFINE Q == DOMAIN queue
<1>1. Types /\ OwnQueues(queue, regs) /\ InOrder(queue, count)
  BY DEF Inv, Owners
<1>2. /\ IsQueues(queue') /\ DOMAIN queue' = Q \cup {q} /\ q # NoQueue
      /\ q \in Q => ~ queue[q].active /\ queue'[q].events = queue[q].events
      /\ q \notin Q => queue'[q].events = << >>
      /\ queue'[q].active
      /\ \A p \in Q \ {q} : queue'[p] = queue[p]
  BY DEF QueueAdded
<1>3. \A p : Static(p, queue, regs) => p # q
  BY <1>2 DEF Static
<1>4. \A t \in DOMAIN regs : regs[t].q \in Q
  <2> SUFFICES ASSUME NEW t \in DOMAIN regs PROVE regs[t].q \in Q
    OBVIOUS
  <2> DEFINE g == regs[t]
  <2>1. g \in Reg(Q)
    BY <1>1 DEF Types
  <2> HIDE DEF g, Q
  <2>2. g.q \in Q
    BY <2>1 DEF Reg
  <2> QED BY <2>2 DEF g
<1>5. \A t \in DOMAIN regs : regs[t].valid => regs[t].q # q
  BY <1>1, <1>2, <1>4 DEF OwnQueues
<1>6. NoQueue \in DOMAIN queue' /\ ~ queue'[NoQueue].active
  BY <1>1, <1>2 DEF OwnQueues
<1>7. \A p \in Q : queue'[p].events = queue[p].events
  BY <1>2
<1>8. InOrder(queue', count)
  <2> SUFFICES ASSUME NEW p \in Q \cup {q}
               PROVE  /\ \A k \in DOMAIN queue'[p].events : queue'[p].events[k].n \in 1 .. count
                      /\ \A j, k \in DOMAIN queue'[p].events :
                           j < k => queue'[p].events[j].n < queue'[p].events[k].n
    BY <1>2 DEF InOrder
  <2>1. CASE p \in Q
    BY <1>1, <1>7, <2>1 DEF InOrder
  <2>2. CASE p \notin Q
    BY <1>2, <2>2
  <2> QED BY <2>1, <2>2
<1>9. ASSUME EmptyIn(queue) PROVE EmptyIn(queue') /\ queue'[q].events = << >>
  BY <1>2, <1>9 DEF EmptyIn
<1> QED BY <1>2, <1>3, <1>4, <1>5, <1>6, <1>7, <1>8, <1>9

LEMMA RegisterInv ==
  ASSUME Inv, NEW v \in ToSet(VI), NEW x \in RegVar, NEW input \in prog.inputs[x],
         RegisterForEvents(v, x, input)
  PROVE  Inv'
<1> DEFINE Q == DOMAIN queue
           P == DOMAIN queue'
           q == FreeQueue(queue)
           r == Len(regs) + 1
           b == bucket[AppIndex]
           entries == [k \in DOMAIN input |-> [kind |-> prog.kinds[x][k], refs |-> input[k]]]
           g == [valid |-> TRUE, q |-> q, entries |-> entries, born |-> count, replaced |-> {}]
           c == [kind |-> "reg", ref |-> r]
           after == FoldLeft(ItemRegistered, b, [k \in DOMAIN input |-> [q |-> q, refs |-> input[k]]])
<1>1. /\ queue' = WithNewQueue(queue, q) /\ regs' = Append(regs, g)
      /\ regVar' = [regVar EXCEPT ![x] = r] /\ cleanup' = [cleanup EXCEPT ![v] = @ \cup {c}]
      /\ bucket' = [bucket EXCEPT ![AppIndex] = after]
      /\ UNCHANGED << prog, es, specs, info, created, count, listening >>
      /\ \A k \in DOMAIN input : input[k] # << >>
  BY DEF RegisterForEvents
<1>2. Types /\ Owners /\ Scalars /\ RightKinds(regVar, regs) /\ HeardIn(regs, b) /\ Strays /\ IsQueues(queue)
  BY DEF Inv, Types
<1>3. QueueAdded(queue, q, queue')
  BY <1>1, <1>2, NewQueueFacts
<1>4. after = FoldLeft(ItemRegistered, b, [k \in DOMAIN input |-> [q |-> q, refs |-> input[k]]])
  OBVIOUS
<1>5. /\ input \in Seq(Seq(Nat)) /\ Len(input) = Len(prog.kinds[x]) /\ prog.kinds[x] \in Seq(Kinds)
      /\ \A k \in DOMAIN input : prog.kinds[x][k] = "scalar" => Len(input[k]) <= 1
      /\ count \in Nat
  BY <1>2, ProgramFacts DEF Types
<1>6. /\ regs \in Seq(Reg(Q)) /\ DOMAIN regs = 1 .. Len(regs) /\ Len(regs) \in Nat /\ r \in Nat
      /\ regVar \in [RegVar -> 0 .. Len(regs)]
  BY <1>2 DEF Types
<1> HIDE DEF after, q
<1>7. /\ IsQueues(queue') /\ P = Q \cup {q}
      /\ \A p : Static(p, queue, regs) => p # q
      /\ \A t \in DOMAIN regs : regs[t].q \in Q /\ (regs[t].valid => regs[t].q # q)
      /\ NoQueue \in P /\ ~ queue'[NoQueue].active
      /\ \A p \in Q \ {q} : queue'[p] = queue[p]
      /\ InOrder(queue', count)
      /\ EmptyIn(queue) => EmptyIn(queue') /\ queue'[q].events = << >>
  BY <1>3, AddedFacts
<1>8. queue'[q].active
  BY <1>3 DEF QueueAdded
<1>9. b \in Bucket(P) /\ AppIndex \in DOMAIN bucket /\ IsBuckets(bucket, P) /\ Clump(Q) \subseteq Clump(P)
      /\ Reg(Q) \subseteq Reg(P)
  <2>1. IsBuckets(bucket, Q) /\ Q \subseteq P
    BY <1>2, <1>7 DEF Types
  <2> HIDE DEF Q, P
  <2>2. IsBuckets(bucket, P) /\ Clump(Q) \subseteq Clump(P) /\ Reg(Q) \subseteq Reg(P)
    BY <2>1, MoreQueues
  <2> QED BY <2>2 DEF IsBuckets, AppIndex
<1>10. q \in P
  BY <1>7
<1> HIDE DEF b, Q, P
<1>11. /\ after \in Bucket(P) /\ OthersKept(b, after)
       /\ Listeners(after) = Listeners(b) \cup UNION {Entries(q, ToSet(input[k])) : k \in DOMAIN input}
  <2>1. input \in Seq(Seq(Nat)) /\ b \in Bucket(P)
    BY <1>5, <1>9
  <2>2. ItemsListed(P, q, input, b, after)
    BY <1>4, <1>10, <2>1, ItemsRegisteredFacts
  <2> QED BY <2>2 DEF ItemsListed
<1>12. /\ entries \in Seq(Item) /\ DOMAIN entries = DOMAIN input /\ Len(entries) = Len(prog.kinds[x])
       /\ \A k \in DOMAIN input : entries[k].kind = prog.kinds[x][k] /\ entries[k].refs = input[k]
  <2>1. DOMAIN input = 1 .. Len(input) /\ Len(input) \in Nat /\ DOMAIN prog.kinds[x] = 1 .. Len(input)
    BY <1>5
  <2>2. \A k \in DOMAIN input : prog.kinds[x][k] \in Kinds /\ input[k] \in Seq(Nat)
    BY <1>5, <2>1
  <2>3. \A k \in DOMAIN input : entries[k] = [kind |-> prog.kinds[x][k], refs |-> input[k]]
    OBVIOUS
  <2>4. DOMAIN entries = DOMAIN input
    OBVIOUS
  <2> HIDE DEF entries
  <2>5. \A k \in DOMAIN input : entries[k] \in Item
    <3> SUFFICES ASSUME NEW k \in DOMAIN input PROVE entries[k] \in Item
      OBVIOUS
    <3> DEFINE kind == prog.kinds[x][k]
               refs == input[k]
    <3>1. kind \in Kinds /\ refs \in Seq(Nat) /\ entries[k] = [kind |-> kind, refs |-> refs]
      BY <2>2, <2>3
    <3> HIDE DEF kind, refs
    <3> QED BY <3>1 DEF Item
  <2>6. entries \in Seq(Item) /\ Len(entries) = Len(input)
    <3>1. entries = [k \in 1 .. Len(input) |-> entries[k]]
      BY <2>1, <2>4 DEF entries
    <3> QED BY <2>1, <2>5, <3>1
  <2> QED BY <1>5, <2>3, <2>4, <2>6
<1>13. SingleRefs(entries) /\ (ScalarOnly => AllScalar(entries))
  <2>1. \A k \in DOMAIN entries : entries[k].kind = "scalar" => Len(entries[k].refs) = 1
    <3> HIDE DEF entries
    <3> SUFFICES ASSUME NEW k \in DOMAIN entries, entries[k].kind = "scalar" PROVE Len(entries[k].refs) = 1
      OBVIOUS
    <3> DEFINE refs == input[k]
    <3>a. k \in DOMAIN input /\ entries[k].refs = refs /\ entries[k].kind = prog.kinds[x][k]
      BY <1>12
    <3>b. Len(refs) <= 1
      BY <1>5, <3>a
    <3>c. refs \in Seq(Nat)
      BY <1>5, <3>a
    <3>d. refs # << >>
      BY <1>1, <3>a
    <3>1. refs \in Seq(Nat) /\ refs # << >> /\ Len(refs) <= 1 /\ entries[k].refs = refs
      BY <3>a, <3>b, <3>c, <3>d
    <3> HIDE DEF refs
    <3>2. Len(refs) # 0
      BY <3>1
    <3>3. Len(refs) \in Nat /\ Len(refs) <= 1
      BY <3>1
    <3> DEFINE m == Len(refs)
    <3>4. m = 1
      <4>1. m \in Nat /\ m <= 1 /\ m # 0
        BY <3>2, <3>3
      <4> HIDE DEF m
      <4> QED BY <4>1
    <3>5. Len(entries[k].refs) = m
      BY <3>1
    <3> QED BY <3>4, <3>5
  <2>2. ASSUME ScalarOnly, NEW k \in DOMAIN entries PROVE entries[k].kind = "scalar"
    <3>1. DOMAIN prog.kinds[x] = DOMAIN input
      BY <1>5
    <3>2. prog.kinds[x][k] \in ToSet(prog.kinds[x])
      BY <1>12, <3>1, <2>2 DEF ToSet
    <3> QED BY <1>12, <2>2, <3>2 DEF ScalarOnly
  <2> HIDE DEF entries
  <2> QED BY <2>1, <2>2 DEF SingleRefs, AllScalar
<1> HIDE DEF entries
<1>14. g \in Reg(P) /\ g.valid /\ g.q = q /\ g.entries = entries /\ g.born = count /\ g.replaced = {}
  BY <1>5, <1>10, <1>12 DEF Reg
<1> HIDE DEF g
<1>15. /\ regs' \in Seq(Reg(P)) /\ Len(regs') = r /\ DOMAIN regs' = DOMAIN regs \cup {r} /\ r \notin DOMAIN regs
       /\ regs'[r] = g /\ \A t \in DOMAIN regs : regs'[t] = regs[t] /\ t # r
  <2>1. regs \in Seq(Reg(P))
    BY <1>6, <1>9
  <2> QED BY <1>1, <1>6, <1>14, <2>1
<1>16. /\ DOMAIN bucket' = DOMAIN bucket /\ bucket'[AppIndex] = after
       /\ \A i \in DOMAIN bucket \ {AppIndex} : bucket'[i] = bucket[i]
  BY <1>1, <1>9
<1>17. IsBuckets(bucket', P)
  <2>1. PICK m \in Nat \ {0} : bucket \in [0 .. m - 1 -> Bucket(P)]
    BY <1>9 DEF IsBuckets
  <2>2. bucket' \in [0 .. m - 1 -> Bucket(P)]
    BY <1>1, <1>11, <2>1
  <2> QED BY <2>2 DEF IsBuckets
<1>18. regVar' \in [RegVar -> 0 .. Len(regs')] /\ regVar'[x] = r /\ \A y \in RegVar \ {x} : regVar'[y] = regVar[y]
  BY <1>1, <1>6, <1>15
<1>19. /\ cleanup' \in [ToSet(VI) -> SUBSET Record]
       /\ \A w \in ToSet(VI) : \A d \in cleanup'[w] : d.kind = "reg" => d.ref \in 1 .. Len(regs')
  <2>1. c \in Record /\ c.ref \in 1 .. r
    BY <1>6 DEF Record
  <2>2. cleanup' = [cleanup EXCEPT ![v] = @ \cup {c}]
    BY <1>1
  <2> HIDE DEF c
  <2>3. /\ cleanup \in [ToSet(VI) -> SUBSET Record]
        /\ \A w \in ToSet(VI) : \A d \in cleanup[w] : d.kind = "reg" => d.ref \in 1 .. Len(regs)
    BY <1>2 DEF Types
  <2>4. \A i \in 1 .. Len(regs) : i \in 1 .. r
    BY <1>6
  <2>5. cleanup' \in [ToSet(VI) -> SUBSET Record]
    BY <2>1, <2>2, <2>3
  <2>6. ASSUME NEW w \in ToSet(VI), NEW d \in cleanup'[w], d.kind = "reg" PROVE d.ref \in 1 .. r
    <3>1. d \in cleanup[w] \/ d = c
      BY <2>2, <2>3
    <3> QED BY <2>1, <2>3, <2>4, <2>6, <3>1
  <2> QED BY <1>15, <2>5, <2>6
<1>20. Types'
  <2>1. es' \in [Structures -> Clump(P)]
    BY <1>1, <1>2, <1>9 DEF Types, Q
  <2>2. IsInfo(info', DOMAIN bucket') /\ listening' \subseteq Heed(DOMAIN bucket')
    BY <1>1, <1>2, <1>16 DEF Types
  <2> QED BY <1>1, <1>2, <1>7, <1>15, <1>17, <1>18, <1>19, <2>1, <2>2 DEF Types, P
<1>21. \A p : Static(p, queue, regs) => Static(p, queue', regs')
  <2> SUFFICES ASSUME NEW p, Static(p, queue, regs), p # NoQueue
               PROVE  p \in P /\ queue'[p].active /\ \A t \in DOMAIN regs' : regs'[t].valid => regs'[t].q # p
    BY DEF Static, P
  <2>1. p \in Q /\ queue[p].active /\ (\A t \in DOMAIN regs : regs[t].valid => regs[t].q # p) /\ p # q
    BY <1>7 DEF Static, Q
  <2>2. p \in P /\ queue'[p].active
    BY <1>7, <2>1
  <2>3. \A t \in DOMAIN regs' : regs'[t].valid => regs'[t].q # p
    BY <1>14, <1>15, <2>1
  <2> QED BY <2>2, <2>3
<1>22. Owners'
  <2>1. OwnQueues(queue', regs')
    <3>1. OwnQueues(queue, regs)
      BY <1>2 DEF Owners
    <3>2. \A t \in DOMAIN regs' : regs'[t].valid => queue'[regs'[t].q].active
      BY <1>7, <1>8, <1>14, <1>15, <3>1 DEF OwnQueues
    <3>3. \A t, u \in DOMAIN regs' : regs'[t].valid /\ regs'[u].valid /\ regs'[t].q = regs'[u].q => t = u
      BY <1>7, <1>14, <1>15, <3>1 DEF OwnQueues
    <3> QED BY <1>7, <3>2, <3>3 DEF OwnQueues, P
  <2>2. \A s \in Structures : Static(es'[s].q, queue', regs')
    BY <1>1, <1>2, <1>21 DEF Owners
  <2>3. StaticBuckets(bucket', queue', regs')
    <3>1. \A i \in DOMAIN bucket' \ {AppIndex} : \A t \in EventType :
            \A e \in ToSet(bucket'[i].lists[t]) : Static(e.q, queue', regs')
      BY <1>2, <1>16, <1>21 DEF Owners, StaticBuckets
    <3>2. \A t \in UIEvents : bucket'[AppIndex].lists[t] = << >>
      BY <1>2, <1>11, <1>16 DEF Owners, StaticBuckets, OthersKept, UIEvents, EventType, b
    <3> QED BY <3>1, <3>2 DEF StaticBuckets
  <2> QED BY <2>1, <2>2, <2>3 DEF Owners
<1>23. Scalars'
  <2>1. \A t \in DOMAIN regs' : SingleRefs(regs'[t].entries) /\ regs'[t].born <= count
    BY <1>2, <1>5, <1>13, <1>14, <1>15 DEF Scalars, SingleRefsIn
  <2>2. ASSUME ScalarOnly PROVE \A t \in DOMAIN regs' : AllScalar(regs'[t].entries)
    BY <1>2, <1>13, <1>14, <1>15, <2>2 DEF Scalars, AllScalarIn
  <2> QED BY <1>1, <2>1, <2>2 DEF Scalars, SingleRefsIn, AllScalarIn, ScalarOnly
<1>24. RightKinds(regVar, regs)'
  <2> SUFFICES ASSUME NEW y \in RegVar, regVar'[y] \in DOMAIN regs', regs'[regVar'[y]].valid
               PROVE  /\ Len(regs'[regVar'[y]].entries) = Len(prog.kinds[y])
                      /\ \A k \in DOMAIN regs'[regVar'[y]].entries :
                           regs'[regVar'[y]].entries[k].kind = prog.kinds[y][k]
    BY <1>1 DEF RightKinds
  <2>1. CASE y = x
    BY <1>12, <1>14, <1>15, <1>18, <2>1
  <2>2. CASE y # x
    <3>1. regVar'[y] = regVar[y] /\ regVar[y] \in DOMAIN regs
      BY <1>6, <1>15, <1>18, <2>2
    <3> QED BY <1>2, <1>15, <3>1 DEF RightKinds
  <2> QED BY <2>1, <2>2
<1>25. HeardIn(regs, bucket[AppIndex])'
  <2> SUFFICES ASSUME NEW t \in DOMAIN regs', regs'[t].valid
               PROVE  HeardBy(regs'[t].q, regs'[t].entries, regs'[t].replaced, after)
    BY <1>16 DEF HeardIn
  <2>1. CASE t = r
    <3> SUFFICES ASSUME NEW k \in DOMAIN entries, NEW u \in ToSet(entries[k].refs) \ {NoRef}
                 PROVE  [q |-> q, ref |-> u] \in Listeners(after)
      BY <1>14, <1>15, <2>1 DEF HeardBy
    <3>1. k \in DOMAIN input /\ u \in ToSet(input[k]) \ {NoRef}
      BY <1>12
    <3>2. [q |-> q, ref |-> u] \in Entries(q, ToSet(input[k]))
      BY <3>1 DEF Entries
    <3> QED BY <1>11, <3>1, <3>2
  <2>2. CASE t # r
    <3>1. regs'[t] = regs[t] /\ t \in DOMAIN regs
      BY <1>15, <2>2
    <3>2. HeardBy(regs[t].q, regs[t].entries, regs[t].replaced, b)
      BY <1>2, <3>1 DEF HeardIn
    <3> QED BY <1>11, <3>1, <3>2 DEF HeardBy
  <2> QED BY <2>1, <2>2
<1>26. ASSUME ScalarOnly PROVE KnownIn(regs', after) /\ EmptyIn(queue') /\ YoungIn(queue', regs')
  <2>1. KnownIn(regs, b) /\ EmptyIn(queue) /\ YoungIn(queue, regs)
    BY <1>2, <1>26 DEF Strays, b
  <2>2. EmptyIn(queue') /\ queue'[q].events = << >>
    BY <1>7, <2>1
  <2>3. ASSUME NEW e \in Listeners(after)
        PROVE  \E t \in DOMAIN regs' :
                 /\ regs'[t].valid /\ regs'[t].q = e.q
                 /\ \E k \in DOMAIN regs'[t].entries : regs'[t].entries[k].refs = << e.ref >>
    <3>1. CASE e \in Listeners(b)
      <4>1. PICK t \in DOMAIN regs : /\ regs[t].valid /\ regs[t].q = e.q
                                     /\ \E k \in DOMAIN regs[t].entries : regs[t].entries[k].refs = << e.ref >>
        BY <2>1, <3>1 DEF KnownIn
      <4> QED BY <1>15, <4>1
    <3>2. CASE e \notin Listeners(b)
      <4>1. PICK k \in DOMAIN input : e \in Entries(q, ToSet(input[k]))
        BY <1>11, <3>2
      <4>2. PICK u \in ToSet(input[k]) : e.q = q /\ e.ref = u
        BY <4>1 DEF Entries
      <4>3. Len(input[k]) = 1 /\ input[k] \in Seq(Nat)
        <5>1. k \in DOMAIN entries /\ entries[k].refs = input[k]
          BY <1>12
        <5>2. entries[k].kind = "scalar"
          BY <1>13, <1>26, <5>1 DEF AllScalar
        <5>3. Len(entries[k].refs) = 1
          BY <1>13, <5>1, <5>2 DEF SingleRefs
        <5> QED BY <1>5, <5>1, <5>3
      <4>4. input[k] = << u >>
        BY <4>2, <4>3 DEF ToSet
      <4>5. k \in DOMAIN entries /\ entries[k].refs = << e.ref >>
        BY <1>12, <4>2, <4>4
      <4> QED BY <1>14, <1>15, <4>2, <4>5
    <3> QED BY <3>1, <3>2
  <2>4. YoungIn(queue', regs')
    <3> SUFFICES ASSUME NEW t \in DOMAIN regs', regs'[t].valid, NEW e \in ToSet(queue'[regs'[t].q].events)
                 PROVE  e.n > regs'[t].born
      BY DEF YoungIn
    <3>1. CASE t = r
      <4>1. queue'[regs'[t].q].events = << >>
        BY <1>14, <1>15, <2>2, <3>1
      <4> QED BY <4>1 DEF ToSet
    <3>2. CASE t # r
      <4>1. regs'[t] = regs[t] /\ t \in DOMAIN regs
        BY <1>15, <3>2
      <4>2. queue'[regs[t].q] = queue[regs[t].q]
        BY <1>7, <4>1
      <4> QED BY <2>1, <4>1, <4>2 DEF YoungIn
    <3> QED BY <3>1, <3>2
  <2> QED BY <2>2, <2>3, <2>4 DEF KnownIn
<1>27. Strays'
  BY <1>1, <1>16, <1>26 DEF Strays, ScalarOnly
<1>28. InOrder(queue, count)'
  BY <1>1, <1>7
<1> QED BY <1>20, <1>22, <1>23, <1>24, <1>25, <1>27, <1>28 DEF Inv

-----------------------------------------------------------------------------
(* The end of a VI.                                                         *)

LEMMA SetToSeqFacts ==
  ASSUME NEW S, IsFiniteSet(S)
  PROVE  \E n \in Nat : SetToSeq(S) \in [1 .. n -> S]
<1> DEFINE n == Cardinality(S)
<1>1. n \in Nat /\ ExistsBijection(1 .. n, S)
  BY FS_CardinalityType
<1>2. PICK f : f \in Bijection(1 .. n, S)
  BY <1>1 DEF ExistsBijection
<1>3. f \in [1 .. n -> S] /\ IsInjective(f)
  BY <1>2 DEF Bijection, Injection
<1>4. SetToSeq(S) \in [1 .. n -> S]
  BY <1>3 DEF SetToSeq
<1> QED BY <1>1, <1>4

LEMMA FinishDisposes ==
  ASSUME Inv, NEW v \in ToSet(VI), FinishVI(v)
  PROVE  \E bs : /\ IsBuckets(bs, DOMAIN queue) /\ DOMAIN bs = DOMAIN bucket
                 /\ StaticBuckets(bs, queue, regs) /\ (ScalarOnly => KnownIn(regs, bs[AppIndex]))
                 /\ Disposes(bs)
                 /\ IsInfo(info', DOMAIN bucket) /\ listening' \subseteq Heed(DOMAIN bucket)
<1> DEFINE Q == DOMAIN queue
           o0 == [bucket |-> bucket, info |-> info, listening |-> listening]
           static == FoldLeft(StructureUnregistered, o0, StructuresOf(v))
           mine == {c.ref : c \in {d \in cleanup[v] : d.kind = "reg"}}
           rs == SetToSeq(mine)
           bs == static.bucket
           o == [queue |-> queue, b |-> bs[AppIndex], regs |-> regs]
           n == FoldLeft(Unregistered, o, rs)
<1>1. /\ bucket' = [bs EXCEPT ![AppIndex] = n.b] /\ queue' = n.queue /\ regs' = n.regs
      /\ info' = static.info /\ listening' = static.listening
  BY DEF FinishVI
<1>2. Types /\ Owners /\ HeardIn(regs, bucket[AppIndex]) /\ (ScalarOnly => KnownIn(regs, bucket[AppIndex]))
  BY DEF Inv, Strays
<1>3. specs \in [Structures -> Seq(Spec)] /\ Registering(o0, Q) /\ o0.bucket = bucket /\ IsQueues(queue)
      /\ regs \in Seq(Reg(Q)) /\ DOMAIN regs = 1 .. Len(regs) /\ Len(regs) \in Nat
  BY <1>2 DEF Types, Registering
<1>4. static = FoldLeft(StructureUnregistered, o0, StructuresOf(v)) /\ n = FoldLeft(Unregistered, o, rs)
      /\ rs = SetToSeq(mine)
  OBVIOUS
<1>5. o.queue = queue /\ o.b = bs[AppIndex] /\ o.regs = regs
  OBVIOUS
<1>6. mine \subseteq DOMAIN regs
  BY <1>2, <1>3 DEF Types
<1> HIDE DEF static, o0, mine, o, n, Q, rs
<1>7. Unlisted(o0, static, Q)
  BY <1>3, <1>4, StructuresUnregisteredFacts
<1>8. /\ IsBuckets(bs, Q) /\ IsInfo(static.info, DOMAIN bs) /\ static.listening \subseteq Heed(DOMAIN bs)
      /\ DOMAIN bs = DOMAIN bucket
      /\ \A i \in DOMAIN bucket : \A t \in EventType : ToSet(bs[i].lists[t]) \subseteq ToSet(bucket[i].lists[t])
      /\ \A e \in Listeners(bucket[AppIndex]) :
           e \in Listeners(bs[AppIndex]) \/ (\E s \in Structures : e.q = es[s].q)
  BY <1>3, <1>7 DEF Unlisted, Registering
<1> HIDE DEF bs
<1>9. AppIndex \in DOMAIN bs /\ bs[AppIndex] \in Bucket(Q)
  BY <1>8 DEF IsBuckets, AppIndex
<1>10. StaticBuckets(bs, queue, regs)
  <2>1. \A i \in DOMAIN bs \ {AppIndex} : \A t \in EventType :
          \A e \in ToSet(bs[i].lists[t]) : Static(e.q, queue, regs)
    BY <1>2, <1>8 DEF Owners, StaticBuckets
  <2>2. ASSUME NEW t \in UIEvents PROVE bs[AppIndex].lists[t] = << >>
    <3> DEFINE b == bs[AppIndex]
               list == b.lists[t]
    <3>1. t \in EventType
      BY DEF EventType
    <3>2. list \in Seq(Entry(Q))
      <4>1. b \in Bucket(Q)
        BY <1>9
      <4> HIDE DEF b
      <4> QED BY <3>1, <4>1 DEF Bucket
    <3>3. ToSet(bucket[AppIndex].lists[t]) = {}
      BY <1>2 DEF Owners, StaticBuckets, ToSet
    <3>4. ToSet(list) = {}
      BY <1>8, <1>9, <3>1, <3>3
    <3> HIDE DEF list
    <3>5. list = << >>
      BY <3>2, <3>4, SetOfEmpty
    <3> QED BY <3>5 DEF list
  <2> QED BY <2>1, <2>2 DEF StaticBuckets
<1>11. Listeners(bs[AppIndex]) \subseteq Listeners(bucket[AppIndex])
  BY <1>8, <1>9 DEF Listeners, EventType
<1>12. ScalarOnly => KnownIn(regs, bs[AppIndex])
  BY <1>2, <1>11 DEF KnownIn
<1>13. HeardIn(regs, bs[AppIndex])
  <2> SUFFICES ASSUME NEW r \in DOMAIN regs, regs[r].valid, NEW k \in DOMAIN regs[r].entries,
                      NEW u \in ToSet(regs[r].entries[k].refs) \ {NoRef}, u \notin regs[r].replaced
               PROVE  [q |-> regs[r].q, ref |-> u] \in Listeners(bs[AppIndex])
    BY DEF HeardIn, HeardBy
  <2>1. [q |-> regs[r].q, ref |-> u] \in Listeners(bucket[AppIndex])
    BY <1>2 DEF HeardIn, HeardBy
  <2>2. ASSUME NEW s \in Structures PROVE regs[r].q # es[s].q
    <3>1. Static(es[s].q, queue, regs) /\ OwnQueues(queue, regs)
      BY <1>2 DEF Owners
    <3>2. regs[r].q # NoQueue
      BY <3>1 DEF OwnQueues
    <3> QED BY <3>1, <3>2 DEF Static
  <2> DEFINE e == [q |-> regs[r].q, ref |-> u]
  <2>3. e.q = regs[r].q
    OBVIOUS
  <2> HIDE DEF e
  <2>4. e \in Listeners(bs[AppIndex])
    BY <1>8, <2>1, <2>2, <2>3 DEF e
  <2> QED BY <2>4 DEF e
<1>14. Agreeing(o)
  BY <1>2, <1>3, <1>5, <1>9, <1>13 DEF Agreeing, Owners, Q
<1>15. PICK m \in Nat : rs \in [1 .. m -> mine]
  <2>1. IsFiniteSet(DOMAIN regs)
    BY <1>3, FS_Interval
  <2>2. IsFiniteSet(mine)
    BY <1>6, <2>1, FS_Subset
  <2> QED BY <1>4, <2>2, SetToSeqFacts
<1>16. DOMAIN rs = 1 .. m /\ \A k \in 1 .. m : rs[k] \in DOMAIN o.regs
  BY <1>5, <1>6, <1>15
<1>17. Disposing(o, n)
  BY <1>4, <1>14, <1>16, AllUnregisteredFacts DEF Disposing
<1>18. IsInfo(info', DOMAIN bucket) /\ listening' \subseteq Heed(DOMAIN bucket)
  BY <1>1, <1>8
<1>19. IsBuckets(bs, DOMAIN queue)
  BY <1>8 DEF Q
<1>20. Disposes(bs)
  BY <1>1, <1>5, <1>17 DEF Disposes
<1> QED BY <1>8, <1>10, <1>12, <1>18, <1>19, <1>20

\* What becomes of the structures of the VI, and of the others.
LEMMA FinishStructures ==
  ASSUME Inv, NEW v \in ToSet(VI), FinishVI(v), NEW s \in Structures
  PROVE  /\ es'[s] \in Clump(DOMAIN queue) /\ es'[s].q \in {es[s].q, NoQueue}
         /\ es'[s].set = es[s].set /\ es'[s].timer = es[s].timer /\ es'[s].asleep = es[s].asleep
         /\ es'[s].ready = es[s].ready /\ es'[s].listed = es[s].listed
         /\ \/ es'[s].count = es[s].count /\ es'[s].late = es[s].late
            \/ es'[s].count = 0 /\ es'[s].late = 0 /\ Owner[s] = v
<1> DEFINE Q == DOMAIN queue
           e == es[s]
           a == [e EXCEPT !.q = NoQueue]
           b == [a EXCEPT !.count = 0]
           d == [b EXCEPT !.late = 0]
<1>1. es'[s] = IF Owner[s] = v THEN d ELSE e
  BY DEF FinishVI
<1>2. e \in Clump(Q) /\ NoQueue \in Q
  BY QueuesFinite DEF Inv, Types
<1> HIDE DEF e, Q
<1>3. /\ a \in Clump(Q) /\ a.q = NoQueue /\ a.set = e.set /\ a.timer = e.timer /\ a.asleep = e.asleep
      /\ a.ready = e.ready /\ a.listed = e.listed
  BY <1>2 DEF Clump
<1> HIDE DEF a
<1>4. /\ b \in Clump(Q) /\ b.q = NoQueue /\ b.set = e.set /\ b.timer = e.timer /\ b.asleep = e.asleep
      /\ b.ready = e.ready /\ b.listed = e.listed /\ b.count = 0
  BY <1>3 DEF Clump
<1> HIDE DEF b
<1>5. /\ d \in Clump(Q) /\ d.q = NoQueue /\ d.set = e.set /\ d.timer = e.timer /\ d.asleep = e.asleep
      /\ d.ready = e.ready /\ d.listed = e.listed /\ d.count = 0 /\ d.late = 0
  BY <1>4 DEF Clump
<1> HIDE DEF d
<1>6. CASE Owner[s] = v
  BY <1>1, <1>5, <1>6 DEF e, Q
<1>7. CASE Owner[s] # v
  BY <1>1, <1>2, <1>7 DEF e, Q
<1> QED BY <1>6, <1>7

LEMMA FinishInv ==
  ASSUME Inv, NEW v \in ToSet(VI), FinishVI(v)
  PROVE  Inv'
<1>1. PICK bs : /\ IsBuckets(bs, DOMAIN queue) /\ DOMAIN bs = DOMAIN bucket
                /\ StaticBuckets(bs, queue, regs) /\ (ScalarOnly => KnownIn(regs, bs[AppIndex]))
                /\ Disposes(bs)
                /\ IsInfo(info', DOMAIN bucket) /\ listening' \subseteq Heed(DOMAIN bucket)
  BY FinishDisposes
<1>2. PICK o, n :
        /\ o.queue = queue /\ o.b = bs[AppIndex] /\ o.regs = regs
        /\ Disposing(o, n)
        /\ queue' = n.queue /\ regs' = n.regs /\ bucket' = [bs EXCEPT ![AppIndex] = n.b]
  BY <1>1 DEF Disposes
<1>3. UNCHANGED << prog, specs, regVar, created, count >> /\ cleanup' = [cleanup EXCEPT ![v] = {}]
  BY DEF FinishVI
<1>4. /\ es' \in [Structures -> Clump(DOMAIN queue)]
      /\ \A s \in Structures : es'[s].q \in {es[s].q, NoQueue}
  <2>1. es' = [s \in Structures |-> es'[s]]
    BY DEF FinishVI
  <2> QED BY <2>1, FinishStructures
<1>5. /\ \A w \in ToSet(VI) : cleanup'[w] \subseteq cleanup[w]
      /\ DOMAIN cleanup' = ToSet(VI) /\ cleanup' \in [ToSet(VI) -> SUBSET Record]
  BY <1>3 DEF Inv, Types
<1> QED BY <1>1, <1>2, <1>3, <1>4, <1>5, DisposingInv

-----------------------------------------------------------------------------
(* Every step.                                                              *)

EventsInv == Inv /\ DOMAIN handled = Structures

LEMMA InitEventsInv == EventsInit => EventsInv
<1>1. EventsInit => Inv
  BY InitInv
<1>2. EventsInit => DOMAIN handled = Structures
  BY DEF EventsInit
<1> QED BY <1>1, <1>2 DEF EventsInv

LEMMA NextKeepsEventsInv == EventsInv /\ [EventsNext]_eventVars => EventsInv'
<1> SUFFICES ASSUME Inv, DOMAIN handled = Structures, [EventsNext]_eventVars
             PROVE  Inv' /\ DOMAIN handled' = Structures
  BY DEF EventsInv
<1>1. CASE UNCHANGED eventVars
  BY <1>1, QuietInv DEF eventVars
<1>2. ASSUME NEW s \in Structures, StructureStep(s) PROVE Inv' /\ DOMAIN handled' = Structures
  <2>1. CASE SleepForEvents(s)
    BY <2>1, SleepInv DEF SleepForEvents
  <2>2. CASE Dispatch(s)
    <3>1. DOMAIN handled' = DOMAIN handled
      BY <2>2 DEF Dispatch
    <3> QED BY <2>2, <3>1, DispatchInv
  <2>3. CASE TimerExpires(s)
    BY <2>3, TimerInv DEF TimerExpires
  <2> QED BY <1>2, <2>1, <2>2, <2>3 DEF StructureStep
<1>3. CASE UserEventStep
  <2>1. ASSUME NEW v \in ToSet(VI), CreateUserEvent(v) PROVE Inv' /\ DOMAIN handled' = Structures
    BY <2>1, CreateInv DEF CreateUserEvent
  <2>2. ASSUME NEW u \in ToSet(UserEvent), GenerateUserEvent(u) PROVE Inv' /\ DOMAIN handled' = Structures
    BY <2>2, GenerateInv DEF GenerateUserEvent
  <2>3. ASSUME NEW u \in ToSet(UserEvent), DestroyUserEvent(u) PROVE Inv' /\ DOMAIN handled' = Structures
    BY <2>3, QuietInv DEF DestroyUserEvent
  <2> QED BY <1>3, <2>1, <2>2, <2>3 DEF UserEventStep
<1>4. CASE RegistrationStep
  <2>1. ASSUME NEW x \in RegVar, UnregisterForEvents(x) PROVE Inv' /\ DOMAIN handled' = Structures
    BY <2>1, UnregisterInv DEF UnregisterForEvents
  <2>2. ASSUME NEW x \in RegVar, NEW v \in ToSet(VI), NEW input \in prog.inputs[x], RegisterForEvents(v, x, input)
        PROVE  Inv' /\ DOMAIN handled' = Structures
    <3>1. handled' = handled
      BY <2>2 DEF RegisterForEvents
    <3> QED BY <2>2, <3>1, RegisterInv
  <2>3. ASSUME NEW x \in RegVar, NEW v \in ToSet(VI), NEW input \in prog.inputs[x], ReregisterForEvents(v, x, input)
        PROVE  Inv' /\ DOMAIN handled' = Structures
    <3>1. handled' = handled
      BY <2>3 DEF ReregisterForEvents
    <3> QED BY <2>3, <3>1, ReregisterInv
  <2> QED BY <1>4, <2>1, <2>2, <2>3 DEF RegistrationStep
<1>5. CASE ControlStep
  <2>1. ASSUME NEW l \in listening, HostOccursEvent(l) PROVE Inv' /\ DOMAIN handled' = Structures
    BY <2>1, HostInv DEF HostOccursEvent
  <2>2. ASSUME NEW v \in ToSet(VI), NEW r \in ControlRef \cup JSRef, NEW t \in UIEvents, OccurControlEvent(v, r, t)
        PROVE  Inv' /\ DOMAIN handled' = Structures
    BY <2>2, OccurInv DEF OccurControlEvent
  <2>3. ASSUME NEW s \in Structures, NEW j \in JSRef, NEW k \in DOMAIN specs[s], ConfigureEventSpecJSRef(s, k, j)
        PROVE  Inv' /\ DOMAIN handled' = Structures
    <3>1. handled' = handled
      BY <2>3 DEF ConfigureEventSpecJSRef
    <3> QED BY <2>3, <3>1, ConfigureInv
  <2>4. ASSUME NEW v \in ToSet(VI), NEW j \in JSRef, NEW t \in UIEvents, RegisterForJSEvent(v, j, t)
        PROVE  Inv' /\ DOMAIN handled' = Structures
    BY <2>4, ListenInv DEF RegisterForJSEvent
  <2> QED BY <1>5, <2>1, <2>2, <2>3, <2>4 DEF ControlStep
<1>6. CASE LifeStep
  <2>1. ASSUME NEW v \in ToSet(VI), StartVI(v) PROVE Inv' /\ DOMAIN handled' = Structures
    BY <2>1, QuietInv DEF StartVI
  <2>2. ASSUME NEW v \in ToSet(VI), FinishVI(v) PROVE Inv' /\ DOMAIN handled' = Structures
    <3>1. handled' = handled
      BY <2>2 DEF FinishVI
    <3> QED BY <2>2, <3>1, FinishInv
  <2> QED BY <1>6, <2>1, <2>2 DEF LifeStep
<1> QED BY <1>1, <1>2, <1>3, <1>4, <1>5, <1>6 DEF EventsNext

(***************************************************************************)
(* The inductive invariant of event structures: who owns which queue, who  *)
(* is listed where and for what, and what the queues hold.                 *)
(***************************************************************************)
THEOREM EventsInvariance == EventsSpec => []EventsInv
BY InitEventsInv, NextKeepsEventsInv, PTL DEF EventsSpec

(***************************************************************************)
(* The state keeps its types: every queue, bucket and registration that a  *)
(* structure, a list of registrations, the map of controls or a variable   *)
(* refers to is there, and events have the numbers counted so far, for all *)
(* programs (EventOracle, DynamicEventRegInfo and EventStructInfo in       *)
(* Events.cpp).                                                            *)
(***************************************************************************)
THEOREM EventTypesHold == EventsSpec => []EventsTypeOK
<1>1. EventsInv => EventsTypeOK
  <2> SUFFICES ASSUME Inv PROVE EventsTypeOK
    BY DEF EventsInv
  <2> DEFINE Q == DOMAIN queue
             B == DOMAIN bucket
  <2>1. Types /\ InOrder(queue, count)
    BY DEF Inv
  <2>2. PICK n \in Nat \ {0} : queue \in [0 .. n - 1 -> Queue]
    BY <2>1 DEF Types, IsQueues
  <2>3. Q = 0 .. Cardinality(Q) - 1
    <3>1. Cardinality(0 .. n - 1) = n
      BY <2>2, FS_Interval
    <3>2. Q = 0 .. n - 1
      BY <2>2
    <3> QED BY <3>1, <3>2
  <2>4. ASSUME NEW s \in Structures PROVE es[s].q \in Q /\ {es[s].count, es[s].set, es[s].late} \subseteq Nat
    <3> DEFINE e == es[s]
    <3>1. e \in Clump(Q)
      BY <2>1 DEF Types
    <3> HIDE DEF e, Q
    <3>2. e.q \in Q /\ e.count \in Nat /\ e.set \in Nat /\ e.late \in Nat
      BY <3>1 DEF Clump
    <3> QED BY <3>2 DEF e
  <2>5. ASSUME NEW i \in B, NEW t \in EventType, NEW e \in ToSet(bucket[i].lists[t]) PROVE e.q \in Q
    <3> DEFINE b == bucket[i]
               list == b.lists[t]
    <3>1. PICK m \in Nat \ {0} : bucket \in [0 .. m - 1 -> Bucket(Q)]
      BY <2>1 DEF Types, IsBuckets
    <3>2. b \in Bucket(Q)
      BY <3>1
    <3> HIDE DEF b, Q
    <3>3. list \in Seq(Entry(Q))
      BY <3>2 DEF Bucket
    <3>4. e \in ToSet(list)
      BY <2>5 DEF b
    <3> HIDE DEF list
    <3>5. e \in Entry(Q)
      BY <3>3, <3>4 DEF ToSet
    <3> QED BY <3>5 DEF Entry
  <2>6. ASSUME NEW v \in ToSet(VI), NEW r \in DOMAIN info[v] PROVE info[v][r].index \in B
    <3> DEFINE w == info[v][r]
    <3>1. w \in Where(B)
      BY <2>1 DEF Types, IsInfo
    <3> HIDE DEF w, B
    <3>2. w.index \in B
      BY <3>1 DEF Where
    <3> QED BY <3>2 DEF w
  <2>7. \A x \in RegVar : regVar[x] \in 0 .. Len(regs)
    BY <2>1 DEF Types
  <2>8. \A q \in Q : \A e \in ToSet(queue[q].events) : e.n \in 1 .. count
    BY <2>1 DEF InOrder, ToSet
  <2>9. count \in 0 .. prog.events
    BY <2>1 DEF Types
  <2> QED BY <2>3, <2>4, <2>5, <2>6, <2>7, <2>8, <2>9 DEF EventsTypeOK
<1> QED BY <1>1, EventsInvariance, PTL

(***************************************************************************)
(* Nothing stray is left behind: who is listed for user events is a valid  *)
(* registration with that refnum, and no queue that is given out again     *)
(* holds events from before its registration, for all programs whose items *)
(* are scalars (UnregisterForEventsAux, RegisterForEventsCore and          *)
(* GetNewQueueObject in Events.cpp).                                       *)
(***************************************************************************)
THEOREM NothingIsStray == EventsSpec => []NothingStray
<1>1. EventsInv => NothingStray
  BY DEF EventsInv, Inv, Strays, KnownIn, YoungIn, Listeners, NothingStray
<1> QED BY <1>1, EventsInvariance, PTL

(***************************************************************************)
(* A valid registration hears of every refnum it has been registered for,  *)
(* whoever else registers for it, unregisters or finishes, for all         *)
(* programs (EventListInsert and EventListRemove in Events.cpp).           *)
(***************************************************************************)
THEOREM EverythingIsHeard == EventsSpec => []Heard
<1>1. EventsInv => Heard
  BY DEF EventsInv, Inv, HeardIn, HeardBy, Listeners, Heard
<1> QED BY <1>1, EventsInvariance, PTL

-----------------------------------------------------------------------------
(* Events are handed out in the order of their generation.                  *)

LEMMA FiredCount ==
  ASSUME NEW Q, NEW e \in Clump(Q), NEW k
  PROVE  Fired(e, k).count = e.count
<1>1. CASE k > 0 /\ e.listed
  <2> DEFINE a == [e EXCEPT !.set = @ + k]
             d == [e EXCEPT !.set = @ + k, !.listed = FALSE, !.timer = FALSE, !.ready = TRUE]
  <2>1. Fired(e, k) = d
    BY <1>1 DEF Fired
  <2>2. d.count = e.count
    BY DEF Clump
  <2> QED BY <2>1, <2>2
<1>2. CASE ~ (k > 0 /\ e.listed)
  <2>1. Fired(e, k) = [e EXCEPT !.set = @ + k]
    BY <1>2 DEF Fired
  <2> QED BY <2>1 DEF Clump
<1> QED BY <1>1, <1>2

LEMMA BroadcastCounts ==
  ASSUME Inv, NEW i, NEW t, NEW ref, Broadcast(i, t, ref), NEW s \in Structures
  PROVE  es'[s].count = es[s].count
<1> DEFINE Q == DOMAIN queue
           list == Listening(i, t, ref)
           fires == [u \in Structures |-> Quantify(DOMAIN list, LAMBDA k : queue[list[k]].wakeUp = u)]
<1>1. es[s] \in Clump(Q)
  BY DEF Inv, Types
<1>2. es' = [u \in Structures |-> Fired(es[u], fires[u])]
  BY DEF Broadcast
<1> HIDE DEF fires
<1>3. es'[s] = Fired(es[s], fires[s])
  BY <1>2
<1> HIDE DEF Q
<1> QED BY <1>1, <1>3, FiredCount

\* A structure counts an event only when it takes one.
LEMMA CountsKept ==
  ASSUME EventsInv, [EventsNext]_eventVars, NEW s \in Structures
  PROVE  Dispatch(s) \/ es'[s].count \in {es[s].count, 0}
<1>1. Inv
  BY DEF EventsInv
<1>2. CASE UNCHANGED eventVars
  BY <1>2 DEF eventVars
<1>3. ASSUME NEW u \in Structures, StructureStep(u) PROVE Dispatch(s) \/ es'[s].count = es[s].count
  <2>1. CASE SleepForEvents(u)
    <3>1. es'[u].count = es[u].count /\ Becomes(u, es'[u])
      BY <1>1, <2>1, SleepFacts DEF Slept
    <3> QED BY <3>1 DEF Becomes
  <2>2. CASE Dispatch(u) /\ u # s
    <3>1. Becomes(u, es'[u])
      BY <1>1, <2>2, DispatchFacts DEF Dispatched
    <3> QED BY <2>2, <3>1 DEF Becomes
  <2>3. CASE TimerExpires(u)
    <3> DEFINE Q == DOMAIN queue
               e == es[u]
               d == [e EXCEPT !.timer = FALSE, !.ready = TRUE]
    <3>1. es' = [es EXCEPT ![u].timer = FALSE, ![u].ready = TRUE] /\ es \in [Structures -> Clump(Q)]
      BY <1>1, <2>3 DEF TimerExpires, Inv, Types
    <3>2. es' = [es EXCEPT ![u] = d] /\ e \in Clump(Q)
      BY <3>1
    <3> HIDE DEF e, Q
    <3>3. d.count = e.count
      BY <3>2 DEF Clump
    <3> HIDE DEF d
    <3>4. es'[s] = IF s = u THEN d ELSE es[s]
      BY <3>1, <3>2
    <3> QED BY <3>3, <3>4 DEF e
  <2> QED BY <1>3, <2>1, <2>2, <2>3 DEF StructureStep
<1>4. CASE UserEventStep
  <2>1. ASSUME NEW u \in ToSet(UserEvent), GenerateUserEvent(u) PROVE es'[s].count = es[s].count
    BY <1>1, <2>1, BroadcastCounts DEF GenerateUserEvent
  <2>2. ASSUME NEW v \in ToSet(VI), CreateUserEvent(v) PROVE es' = es
    BY <2>2 DEF CreateUserEvent
  <2>3. ASSUME NEW u \in ToSet(UserEvent), DestroyUserEvent(u) PROVE es' = es
    BY <2>3 DEF DestroyUserEvent
  <2> QED BY <1>4, <2>1, <2>2, <2>3 DEF UserEventStep
<1>5. CASE RegistrationStep
  <2>1. ASSUME NEW x \in RegVar, UnregisterForEvents(x) PROVE es' = es
    BY <2>1 DEF UnregisterForEvents
  <2>2. ASSUME NEW x \in RegVar, NEW v \in ToSet(VI), NEW input \in prog.inputs[x], RegisterForEvents(v, x, input)
        PROVE  es' = es
    BY <2>2 DEF RegisterForEvents
  <2>3. ASSUME NEW x \in RegVar, NEW v \in ToSet(VI), NEW input \in prog.inputs[x], ReregisterForEvents(v, x, input)
        PROVE  es' = es
    BY <2>3 DEF ReregisterForEvents
  <2> QED BY <1>5, <2>1, <2>2, <2>3 DEF RegistrationStep
<1>6. CASE ControlStep
  <2>1. ASSUME NEW l \in listening, HostOccursEvent(l) PROVE es'[s].count = es[s].count
    BY <1>1, <2>1, BroadcastCounts DEF HostOccursEvent
  <2>2. ASSUME NEW v \in ToSet(VI), NEW r \in ControlRef \cup JSRef, NEW t \in UIEvents, OccurControlEvent(v, r, t)
        PROVE  es'[s].count = es[s].count
    <3>1. PICK i : Broadcast(i, t, r)
      BY <2>2 DEF OccurControlEvent
    <3> QED BY <1>1, <3>1, BroadcastCounts
  <2>3. ASSUME NEW u \in Structures, NEW j \in JSRef, NEW k \in DOMAIN specs[u], ConfigureEventSpecJSRef(u, k, j)
        PROVE  es' = es
    BY <2>3 DEF ConfigureEventSpecJSRef
  <2>4. ASSUME NEW v \in ToSet(VI), NEW j \in JSRef, NEW t \in UIEvents, RegisterForJSEvent(v, j, t)
        PROVE  es' = es
    BY <2>4 DEF RegisterForJSEvent
  <2> QED BY <1>6, <2>1, <2>2, <2>3, <2>4 DEF ControlStep
<1>7. CASE LifeStep
  <2>1. ASSUME NEW v \in ToSet(VI), StartVI(v) PROVE es' = es
    BY <2>1 DEF StartVI
  <2>2. ASSUME NEW v \in ToSet(VI), FinishVI(v) PROVE es'[s].count \in {es[s].count, 0}
    <3> DEFINE Q == DOMAIN queue
               e == es[s]
               d == [e EXCEPT !.q = NoQueue, !.count = 0, !.late = 0]
    <3>1. es'[s] = IF Owner[s] = v THEN d ELSE e
      BY <2>2 DEF FinishVI
    <3>2. e \in Clump(Q)
      BY <1>1 DEF Inv, Types
    <3> HIDE DEF e, Q
    <3>3. d.count = 0
      BY <3>2 DEF Clump
    <3> HIDE DEF d
    <3> QED BY <3>1, <3>3 DEF e
  <2> QED BY <1>7, <2>1, <2>2 DEF LifeStep
<1> QED BY <1>2, <1>3, <1>4, <1>5, <1>6, <1>7 DEF EventsNext

LEMMA CountsDispatch ==
  ASSUME EventsInv, [EventsNext]_eventVars, NEW s \in Structures, DispatchedBy(s)
  PROVE  Dispatch(s)
<1>1. es[s].count \in Nat
  <2> DEFINE c == es[s]
             Q == DOMAIN queue
  <2>1. c \in Clump(Q)
    BY DEF EventsInv, Inv, Types
  <2> HIDE DEF c, Q
  <2>2. c.count \in Nat
    BY <2>1 DEF Clump
  <2> QED BY <2>2 DEF c
<1>2. es'[s].count # es[s].count /\ es'[s].count # 0
  BY <1>1 DEF DispatchedBy
<1> QED BY <1>2, CountsKept

(***************************************************************************)
(* Events are handled in the order of their generation, across all queues  *)
(* that a structure observes, also when the sequence numbers start over;   *)
(* and the timeout case is for when no queue holds anything, for all       *)
(* programs (EventTimeSeqCompare and GetPendingEventInfo in Events.cpp).   *)
(***************************************************************************)
THEOREM EventsInTheirOrder == EventsSpec => OldestFirst
<1>1. ASSUME EventsInv, [EventsNext]_eventVars
      PROVE  [\A s \in Structures : DispatchedBy(s) =>
                \A q \in ToSet(ObservedQueues(s)) : \A e \in ToSet(queue[q].events) :
                  handled'[s].event # TimeoutEvent /\ handled'[s].event.n <= e.n]_eventVars
  <2> SUFFICES ASSUME NEW s \in Structures, DispatchedBy(s),
                      NEW p \in ToSet(ObservedQueues(s)), NEW e \in ToSet(queue[p].events)
               PROVE  handled'[s].event # TimeoutEvent /\ handled'[s].event.n <= e.n
    OBVIOUS
  <2>1. Inv /\ DOMAIN handled = Structures
    BY <1>1 DEF EventsInv
  <2>3. Dispatch(s)
    BY <1>1, CountsDispatch
  <2>4. PICK q \in Nat : TakesFrom(s, q)
    BY <2>1, <2>3, DispatchTakes
  <2>5. queue[p].events # << >>
    <3>1. CASE queue[p].events = << >>
      BY <3>1 DEF ToSet
    <3> QED BY <3>1
  <2>6. /\ handled'[s].event = EventOf(q) /\ q \in DOMAIN queue /\ queue[q].events # << >>
        /\ Head(queue[q].events).n <= e.n
    BY <2>4, <2>5 DEF TakesFrom
  <2>7. Head(queue[q].events) \in Event
    <3>1. queue[q].events \in Seq(Event)
      BY <2>1, <2>6, QueuesFinite DEF Inv, Types
    <3> DEFINE list == queue[q].events
    <3>2. list \in Seq(Event) /\ list # << >>
      BY <2>6, <3>1
    <3> HIDE DEF list
    <3>3. Head(list) \in Event
      BY <3>2
    <3> QED BY <3>3 DEF list
  <2>8. handled'[s].event = Head(queue[q].events)
    BY <2>6 DEF EventOf
  <2>9. Head(queue[q].events) # TimeoutEvent
    BY <2>7 DEF Event, EventType, UIEvents, TimeoutEvent
  <2> QED BY <2>6, <2>8, <2>9
<1> QED BY <1>1, EventsInvariance, PTL DEF EventsSpec, OldestFirst

-----------------------------------------------------------------------------
(* No wakeup is lost.                                                       *)

LEMMA ClumpFacts ==
  ASSUME Inv, NEW u \in Structures
  PROVE  /\ es[u].count \in Nat /\ es[u].set \in Nat /\ es[u].late \in Nat
         /\ es[u].asleep \in BOOLEAN /\ es[u].ready \in BOOLEAN /\ es[u].listed \in BOOLEAN /\ es[u].timer \in BOOLEAN
<1> DEFINE Q == DOMAIN queue
           e == es[u]
<1>1. e \in Clump(Q)
  BY DEF Inv, Types
<1> HIDE DEF e, Q
<1>2. /\ e.count \in Nat /\ e.set \in Nat /\ e.late \in Nat
      /\ e.asleep \in BOOLEAN /\ e.ready \in BOOLEAN /\ e.listed \in BOOLEAN /\ e.timer \in BOOLEAN
  BY <1>1 DEF Clump
<1> QED BY <1>2 DEF e

\* The sums over queues are numbers, and grow with the queues.
LEMMA SumOfFewer ==
  ASSUME NEW qs, IsQueues(qs), NEW T \in SUBSET DOMAIN qs,
         NEW new, IsQueues(new), NEW S \in SUBSET DOMAIN new, S \subseteq T,
         \A q \in S : Len(new[q].events) <= Len(qs[q].events)
  PROVE  SumOf(new, S) \in Nat /\ SumOf(qs, T) \in Nat /\ SumOf(new, S) <= SumOf(qs, T)
<1> DEFINE f == LengthsOf(new)
           g == LengthsOf(qs)
<1>1. IsFiniteSet(T) /\ IsFiniteSet(S) /\ \A x \in T : g[x] = Len(qs[x].events) /\ g[x] \in Nat
  BY QueuesFinite
<1>2. \A x \in S : f[x] = Len(new[x].events) /\ f[x] \in Nat
  BY QueuesFinite
<1>3. \A x \in S : f[x] \in Nat /\ f[x] <= g[x]
  BY <1>1, <1>2
<1> HIDE DEF f, g
<1>4. SumFunctionOnSet(f, S) <= SumFunctionOnSet(g, T)
  <2>1. S \in SUBSET T /\ \A x \in T : g[x] \in Nat
    BY <1>1
  <2> QED BY <1>1, <1>3, <2>1, SumMonotone
<1>5. SumFunctionOnSet(f, S) \in Nat /\ SumFunctionOnSet(g, T) \in Nat
  BY <1>1, <1>3, SumIsNat
<1> QED BY <1>4, <1>5 DEF SumOf, f, g

\* What a structure observes after a step.
LEMMA ObservedNext ==
  ASSUME Inv', prog' = prog, NEW s \in Structures
  PROVE  /\ ToSet(ObservedQueues(s)') = ObservedSet(prog.wired[s], es'[s].q, regVar', regs')
         /\ ToSet(ObservedQueues(s)') \subseteq DOMAIN queue'
<1> DEFINE Q == DOMAIN queue'
           w == prog.wired[s]
           q == es'[s].q
<1>1. Types'
  BY DEF Inv
<1>2. w \in Seq(RegVar)
  BY <1>1, ProgramFacts DEF Types
<1>3. regVar' \in [RegVar -> Nat] /\ regs' \in Seq(Reg(Q)) /\ es' \in [Structures -> Clump(Q)]
  BY <1>1 DEF Types
<1>4. q \in Q
  <2> DEFINE e == es'[s]
  <2>1. e \in Clump(Q)
    BY <1>3
  <2> HIDE DEF e, Q
  <2>2. e.q \in Q
    BY <2>1 DEF Clump
  <2> QED BY <2>2 DEF e
<1>5. ObservedQueues(s)' = ObservedOf(w, q, regVar', regs')
  BY DEF ObservedQueues, WiredRegs, WiredOf, ObservedOf
<1> HIDE DEF w, q, Q
<1>6. ToSet(ObservedOf(w, q, regVar', regs')) = ObservedSet(w, q, regVar', regs') /\ ObservedSet(w, q, regVar', regs') \subseteq Q
  BY <1>2, <1>3, <1>4, ObservedAre
<1> QED BY <1>5, <1>6 DEF w, q, Q

\* Nobody observes anything else.
LEMMA ObservedSame ==
  ASSUME Inv, Inv', prog' = prog, regVar' = regVar, regs' = regs, NEW s \in Structures, es'[s].q = es[s].q
  PROVE  ToSet(ObservedQueues(s)') = ToSet(ObservedQueues(s))
BY ObservedNow, ObservedNext

\* A structure counts as before, or starts to count anew.
Counted(u) ==
  \/ es'[u].count = es[u].count /\ es'[u].late = es[u].late
  \/ es'[u].count = 0 /\ es'[u].late = 0

\* A structure that stays as it is, and is woken for no more than before.
LEMMA PaidStill ==
  ASSUME Inv, Inv', prog' = prog, NEW u \in Structures, Timely(u), Paid(u), es'[u].set = es[u].set, Counted(u),
         Waking(u)' \subseteq Waking(u),
         \A q \in Waking(u)' : Len(queue'[q].events) <= Len(queue[q].events)
  PROVE  Paid(u)'
<1> DEFINE S == Waking(u)'
           T == Waking(u)
<1>1. IsQueues(queue) /\ IsQueues(queue')
  BY DEF Inv, Types
<1>2. T \in SUBSET DOMAIN queue
  BY ObservedNow DEF Waking
<1>3. S \in SUBSET DOMAIN queue'
  <2>1. ToSet(ObservedQueues(u)') \subseteq DOMAIN queue'
    BY ObservedNext
  <2> QED BY <2>1 DEF Waking
<1> HIDE DEF S, T
<1>4. SumOf(queue', S) \in Nat /\ SumOf(queue, T) \in Nat /\ SumOf(queue', S) <= SumOf(queue, T)
  BY <1>1, <1>2, <1>3, SumOfFewer DEF S, T
<1>5. es[u].count \in Nat /\ es[u].set \in Nat /\ es[u].late \in Nat /\ es[u].late <= es[u].count
  BY ClumpFacts DEF Timely
<1>6. SumOf(queue, T) <= es[u].set - es[u].count + es[u].late
  BY DEF Paid, T
<1>7. SumOf(queue', S) <= es'[u].set - es'[u].count + es'[u].late
  <2>1. CASE es'[u].count = es[u].count /\ es'[u].late = es[u].late
    BY <1>4, <1>5, <1>6, <2>1
  <2>2. CASE es'[u].count = 0 /\ es'[u].late = 0
    BY <1>4, <1>5, <1>6, <2>2
  <2> QED BY <2>1, <2>2 DEF Counted
<1> QED BY <1>7 DEF Paid, S

\* Steps that only change what Woken is not about.
LEMMA QuietWoken ==
  ASSUME Woken, UNCHANGED << prog, es, queue, regVar, regs >>
  PROVE  Woken'
<1>1. ASSUME NEW s \in Structures
      PROVE  Waking(s)' = Waking(s)
  <2>1. WiredRegs(s)' = WiredRegs(s)
    BY DEF WiredRegs
  <2>2. ObservedQueues(s)' = ObservedQueues(s)
    BY <2>1 DEF ObservedQueues
  <2> QED BY <2>2 DEF Waking
<1>2. \A s \in Structures : SumOf(queue, Waking(s))' = SumOf(queue, Waking(s))
  BY <1>1
<1> QED BY <1>2 DEF Woken, Timely, Paid

LEMMA TimerWoken ==
  ASSUME Inv, Inv', Woken, NEW s \in Structures, TimerExpires(s)
  PROVE  Woken'
<1>1. UNCHANGED << prog, queue, regVar, regs >> /\ es[s].timer /\ es' = [es EXCEPT ![s].timer = FALSE, ![s].ready = TRUE]
  BY DEF TimerExpires
<1>2. es \in [Structures -> Clump(DOMAIN queue)]
  BY DEF Inv, Types
<1>3. ASSUME NEW u \in Structures
      PROVE  /\ es'[u].q = es[u].q /\ es'[u].set = es[u].set /\ es'[u].count = es[u].count /\ es'[u].late = es[u].late
             /\ es'[u].asleep = es[u].asleep /\ es'[u].listed = es[u].listed
             /\ u = s => es'[u].ready
             /\ u # s => es'[u] = es[u]
  <2> DEFINE Q == DOMAIN queue
             e == es[s]
             a == [e EXCEPT !.timer = FALSE]
             d == [a EXCEPT !.ready = TRUE]
  <2>1. e \in Clump(Q)
    BY <1>2
  <2>2. es' = [es EXCEPT ![s] = d]
    BY <1>1, <1>2
  <2> HIDE DEF e, Q
  <2>3. /\ a \in Clump(Q) /\ a.q = e.q /\ a.set = e.set /\ a.count = e.count /\ a.late = e.late /\ a.asleep = e.asleep
        /\ a.listed = e.listed
    BY <2>1 DEF Clump
  <2> HIDE DEF a
  <2>4. /\ d.q = a.q /\ d.set = a.set /\ d.count = a.count /\ d.late = a.late /\ d.asleep = a.asleep
        /\ d.listed = a.listed /\ d.ready
    BY <2>3 DEF Clump
  <2> HIDE DEF d
  <2>5. es'[u] = IF u = s THEN d ELSE es[u]
    BY <1>2, <2>2
  <2> QED BY <2>3, <2>4, <2>5 DEF e
<1>4. ASSUME NEW u \in Structures PROVE Timely(u)' /\ Paid(u)'
  <2>1. Timely(u) /\ Paid(u)
    BY DEF Woken
  <2>2. ToSet(ObservedQueues(u)') = ToSet(ObservedQueues(u))
    BY <1>1, <1>3, ObservedSame
  <2>3. Waking(u)' = Waking(u)
    BY <1>1, <2>2 DEF Waking
  <2>4. \A q \in Waking(u) : Len(queue[q].events) <= Len(queue[q].events)
    <3>1. Waking(u) \subseteq DOMAIN queue
      BY ObservedNow DEF Waking
    <3>2. \A q \in DOMAIN queue : queue[q].events \in Seq(Event)
      BY QueuesFinite DEF Inv, Types
    <3> QED BY <3>1, <3>2
  <2>5. Paid(u)'
    BY <1>1, <1>3, <2>1, <2>3, <2>4, PaidStill DEF Counted
  <2>6. CASE u = s
    <3>1. es[u].asleep
      BY <1>1, <2>1, <2>6 DEF Timely
    <3> QED BY <1>3, <2>1, <2>5, <2>6, <3>1 DEF Timely
  <2>7. CASE u # s
    BY <1>3, <2>1, <2>5, <2>7 DEF Timely
  <2> QED BY <2>6, <2>7
<1> QED BY <1>4 DEF Woken, Timely, Paid

\* An event fires the occurrence once for each queue that is to wake the structure.
LEMMA BroadcastWoken ==
  ASSUME Inv, Inv', Woken, NEW i \in DOMAIN bucket, NEW t \in EventType, NEW ref \in Nat, Broadcast(i, t, ref),
         UNCHANGED << prog, regVar, regs >>
  PROVE  Woken'
<1> DEFINE Q == DOMAIN queue
           fires(u, list) == {k \in DOMAIN list : queue[list[k]].wakeUp = u}
<1>1. PICK list \in Seq(DOMAIN queue) :
        /\ queue' = FoldLeft(Posted, queue, Posts(list, t, ref, count))
        /\ \A s \in Structures : /\ es'[s] = Fired(es[s], Cardinality(fires(s, list)))
                                 /\ Cardinality(fires(s, list)) > 0 /\ es[s].listed => ~ es[s].ready
  BY BroadcastFacts
<1>2. IsQueues(queue) /\ count \in Nat /\ es \in [Structures -> Clump(Q)]
  BY ProgramFacts DEF Inv, Types
<1>3. PostedTo(queue, list, count, queue')
  BY <1>1, <1>2, PostedFacts
<1>4. ASSUME NEW u \in Structures PROVE Timely(u)' /\ Paid(u)'
  <2> DEFINE F == fires(u, list)
             n == Cardinality(F)
             e == es[u]
             d == es'[u]
             W == Waking(u)
             hits == {k \in DOMAIN list : list[k] \in W}
  <2>1. Timely(u) /\ Paid(u)
    BY DEF Woken
  <2>2. d = Fired(e, n) /\ (n > 0 /\ e.listed => ~ e.ready)
    BY <1>1
  <2>3. e \in Clump(Q)
    BY <1>2
  <2>4. IsFiniteSet(F) /\ n \in Nat /\ hits \subseteq F
    <3>1. IsFiniteSet(1 .. Len(list)) /\ DOMAIN list = 1 .. Len(list)
      BY FS_Interval
    <3>2. F \subseteq 1 .. Len(list) /\ hits \subseteq F
      BY <3>1 DEF Waking
    <3> HIDE DEF F
    <3> QED BY <3>1, <3>2, FS_Subset, FS_CardinalityType
  <2>5. Cardinality(hits) <= n /\ Cardinality(hits) \in Nat
    <3> HIDE DEF F, hits
    <3> QED BY <2>4, FS_Subset, FS_CardinalityType
  <2> HIDE DEF F, n, Q
  <2>6. /\ d.q = e.q /\ d.count = e.count /\ d.late = e.late /\ d.asleep = e.asleep /\ d.set = e.set + n
        /\ IF n > 0 /\ e.listed THEN ~ d.listed /\ ~ d.timer /\ d.ready
           ELSE d.listed = e.listed /\ d.timer = e.timer /\ d.ready = e.ready
    <3> HIDE DEF e, d
    <3>1. e \in Clump(Q) /\ n \in Nat /\ d = Fired(e, n)
      BY <2>2, <2>3, <2>4
    <3>2. d.q = e.q /\ d.count = e.count /\ d.late = e.late /\ d.asleep = e.asleep /\ d.set = e.set + n
      BY ONLY <3>1, FiredFacts
    <3>3. IF n > 0 /\ e.listed THEN ~ d.listed /\ ~ d.timer /\ d.ready
          ELSE d.listed = e.listed /\ d.timer = e.timer /\ d.ready = e.ready
      BY ONLY <3>1, FiredFacts
    <3> QED BY <3>2, <3>3
  <2>7. ToSet(ObservedQueues(u)') = ToSet(ObservedQueues(u)) /\ ToSet(ObservedQueues(u)) \subseteq DOMAIN queue
    BY <2>6, ObservedSame, ObservedNow
  <2>8. Waking(u)' = W /\ W \in SUBSET DOMAIN queue
    BY <1>3, <2>7 DEF Waking, PostedTo
  <2>9. SumOf(queue', W) \in Nat /\ SumOf(queue', W) <= SumOf(queue, W) + Cardinality(hits)
    BY <1>3, <2>8 DEF PostedTo
  <2>10. e.count \in Nat /\ e.set \in Nat /\ e.late \in Nat
    BY ClumpFacts
  <2>11. SumOf(queue, W) <= e.set - e.count + e.late /\ SumOf(queue, W) \in Nat
    <3>1. SumOf(queue, W) <= e.set - e.count + e.late
      BY <2>1 DEF Paid
    <3>2. IsFiniteSet(W) /\ \A q \in W : LengthsOf(queue)[q] \in Nat
      BY <1>2, <2>8, QueuesFinite
    <3> HIDE DEF W
    <3> QED BY <3>1, <3>2, SumIsNat DEF SumOf
  <2>12. Timely(u)'
    <3>1. /\ e.asleep /\ ~ e.ready => e.listed /\ e.set <= e.count
          /\ ~ e.asleep => ~ e.listed /\ ~ e.ready /\ ~ e.timer
          /\ e.late <= e.count /\ e.count <= e.set + MaxBehind
      BY <2>1 DEF Timely
    <3>2. /\ e.asleep \in BOOLEAN /\ e.ready \in BOOLEAN /\ e.listed \in BOOLEAN /\ e.timer \in BOOLEAN
          /\ MaxBehind \in Nat
      BY ClumpFacts, EventsAssumption
    <3> HIDE DEF e, d
    <3>3. d.late <= d.count /\ d.count <= d.set + MaxBehind
      BY <2>4, <2>6, <2>10, <3>1, <3>2
    <3>4. d.asleep /\ ~ d.ready => d.listed /\ d.set <= d.count
      BY <2>4, <2>6, <2>10, <3>1, <3>2
    <3>5. ~ d.asleep => ~ d.listed /\ ~ d.ready /\ ~ d.timer
      BY <2>6, <3>1, <3>2
    <3> QED BY <3>3, <3>4, <3>5 DEF Timely, d
  <2>13. SumOf(queue', W) <= d.set - d.count + d.late
    <3> DEFINE x == SumOf(queue', W)
               y == SumOf(queue, W)
               h == Cardinality(hits)
    <3>1. /\ x \in Nat /\ y \in Nat /\ h \in Nat /\ x <= y + h /\ y <= e.set - e.count + e.late /\ h <= n
          /\ d.set = e.set + n /\ d.count = e.count /\ d.late = e.late
      BY <2>5, <2>6, <2>9, <2>11
    <3> HIDE DEF x, y, h, e, d
    <3> QED BY <2>4, <2>10, <3>1 DEF x
  <2> QED BY <2>8, <2>12, <2>13 DEF Paid
<1> QED BY <1>4 DEF Woken, Timely, Paid

\* What a structure is to be woken for, and what it missed, is all that it observes.
LEMMA ObservedSum ==
  ASSUME Inv, NEW s \in Structures
  PROVE  /\ SumOf(queue, ToSet(ObservedQueues(s))) = SumOf(queue, Waking(s)) + Missed(s)
         /\ SumOf(queue, Waking(s)) \in Nat /\ Missed(s) \in Nat
<1> DEFINE O == ToSet(ObservedQueues(s))
           W == Waking(s)
           U == Unobserved(s)
           f == LengthsOf(queue)
<1>1. O \subseteq DOMAIN queue
  BY ObservedNow
<1>2. O = W \cup U /\ W \cap U = {}
  BY DEF Waking, Unobserved
<1>3. IsQueues(queue)
  BY DEF Inv, Types
<1> HIDE DEF O, W, U
<1>4. IsFiniteSet(W) /\ IsFiniteSet(U) /\ \A q \in W \cup U : f[q] \in Nat
  BY <1>1, <1>2, <1>3, QueuesFinite
<1> HIDE DEF f
<1>5. SumFunctionOnSet(f, W \cup U) = SumFunctionOnSet(f, W) + SumFunctionOnSet(f, U)
  BY <1>2, <1>4, SumOfUnion
<1>6. SumFunctionOnSet(f, W) \in Nat
  BY <1>4, SumIsNat
<1>7. Missed(s) = SumFunctionOnSet(f, U) /\ Missed(s) \in Nat
  BY MissedFacts DEF SumOf, U, f
<1> QED BY <1>2, <1>5, <1>6, <1>7 DEF SumOf, O, W, f

\* A structure has gone to sleep or handed out an event, and its queues are to wake it.
Observes(s) ==
  /\ Becomes(s, es'[s]) /\ UNCHANGED << prog, regVar, regs >>
  /\ SameQueues(queue, queue')
  /\ \A p \in DOMAIN queue :
       queue'[p].wakeUp = IF p \in ToSet(ObservedQueues(s)) THEN s ELSE queue[p].wakeUp

LEMMA ObserverWaking ==
  ASSUME Inv, Inv', NEW s \in Structures, Observes(s)
  PROVE  Waking(s)' = ToSet(ObservedQueues(s))
<1>1. ToSet(ObservedQueues(s)') = ToSet(ObservedQueues(s))
  BY ObservedSame DEF Observes, Becomes
<1>2. ToSet(ObservedQueues(s)) \subseteq DOMAIN queue
  BY ObservedNow
<1> QED BY <1>1, <1>2 DEF Waking, Observes

\* The other structures are woken for no more than before.
LEMMA OthersWoken ==
  ASSUME Inv, Inv', NEW s \in Structures, Observes(s),
         \A p \in DOMAIN queue : Len(queue'[p].events) <= Len(queue[p].events),
         NEW u \in Structures \ {s}, Timely(u), Paid(u)
  PROVE  Timely(u)' /\ Paid(u)'
<1>1. es'[u] = es[u] /\ UNCHANGED << prog, regVar, regs >>
  BY DEF Observes, Becomes
<1>2. ToSet(ObservedQueues(u)') = ToSet(ObservedQueues(u)) /\ ToSet(ObservedQueues(u)) \subseteq DOMAIN queue
  BY <1>1, ObservedSame, ObservedNow
<1>3. Waking(u)' \subseteq Waking(u) /\ Waking(u) \subseteq DOMAIN queue
  BY <1>2 DEF Waking, Observes
<1>4. Paid(u)'
  BY <1>1, <1>3, PaidStill DEF Counted
<1> QED BY <1>1, <1>4 DEF Timely

LEMMA SleepWoken ==
  ASSUME Inv, Inv', Woken, NEW s \in Structures, SleepForEvents(s)
  PROVE  Woken'
<1>1. Slept(s) /\ IsQueues(queue)
  BY SleepFacts DEF Inv, Types
<1>2. queue' = Observed(queue, s) /\ UNCHANGED << prog, regVar, regs >>
  BY DEF SleepForEvents
<1>3. /\ SameQueues(queue, queue')
      /\ \A q \in DOMAIN queue : queue'[q].events = queue[q].events
      /\ \A q \in DOMAIN queue : queue'[q].wakeUp = IF q \in ToSet(ObservedQueues(s)) THEN s ELSE queue[q].wakeUp
  BY <1>1, <1>2, ObservedFacts
<1>4. Observes(s)
  BY <1>1, <1>2, <1>3 DEF Observes, Slept
<1>5. \A q \in DOMAIN queue : Len(queue'[q].events) <= Len(queue[q].events)
  <2>1. \A q \in DOMAIN queue : queue[q].events \in Seq(Event)
    BY <1>1, QueuesFinite
  <2> QED BY <1>3, <2>1
<1>6. ASSUME NEW u \in Structures \ {s} PROVE Timely(u)' /\ Paid(u)'
  BY <1>4, <1>5, <1>6, OthersWoken DEF Woken
<1>7. Timely(s)' /\ Paid(s)'
  <2> DEFINE e == es[s]
             d == es'[s]
             m == Missed(s)
             W == Waking(s)
  <2>1. Timely(s) /\ Paid(s)
    BY DEF Woken
  <2>2. ~ e.asleep /\ ~ (e.set + m > e.count)
    BY DEF SleepForEvents, HasOccurred
  <2>3. /\ d.count = e.count /\ d.late = e.late /\ d.set = e.set + m /\ d.asleep /\ d.listed
        /\ e.ready \/ (m > 0 /\ e.listed) \/ ~ d.ready
    BY <1>1 DEF Slept
  <2>4. ~ e.listed /\ ~ e.ready /\ e.late <= e.count /\ e.count <= e.set + MaxBehind
    BY <2>1, <2>2 DEF Timely
  <2>5. e.count \in Nat /\ e.set \in Nat /\ e.late \in Nat /\ MaxBehind \in Nat
    BY ClumpFacts, EventsAssumption
  <2>6. SumOf(queue, ToSet(ObservedQueues(s))) = SumOf(queue, W) + m /\ SumOf(queue, W) \in Nat /\ m \in Nat
    BY ObservedSum
  <2>7. SumOf(queue, W) <= e.set - e.count + e.late
    BY <2>1 DEF Paid
  <2> HIDE DEF e, d, m, W
  <2>8. /\ d.asleep /\ ~ d.ready /\ d.listed /\ d.set <= d.count
        /\ d.late <= d.count /\ d.count <= d.set + MaxBehind
    BY <2>2, <2>3, <2>4, <2>5, <2>6
  <2>9. LengthsOf(queue') = LengthsOf(queue)
    BY <1>3 DEF LengthsOf, SameQueues
  <2>10. Waking(s)' = ToSet(ObservedQueues(s))
    BY <1>4, ObserverWaking
  <2>11. SumOf(queue', Waking(s)') = SumOf(queue, W) + m
    BY <2>6, <2>9, <2>10 DEF SumOf
  <2>12. SumOf(queue', Waking(s)') <= d.set - d.count + d.late
    BY <2>3, <2>5, <2>6, <2>7, <2>11
  <2> QED BY <2>8, <2>12 DEF Timely, Paid, d
<1> QED BY <1>6, <1>7 DEF Woken, Timely, Paid

LEMMA DispatchWoken ==
  ASSUME Inv, Inv', Woken, NEW s \in Structures, DOMAIN handled = Structures, Dispatch(s)
  PROVE  Woken'
<1>1. Dispatched(s) /\ IsQueues(queue) /\ UNCHANGED << prog, regVar, regs >>
  BY DispatchFacts DEF Inv, Types, Dispatch
<1> DEFINE q == Taken(s).q
<1>2. TakesFrom(s, q) /\ q \in Nat
  BY DispatchTakes
<1> HIDE DEF q
<1>3. /\ SameQueues(queue, queue') /\ q \in DOMAIN queue
      /\ \A p \in DOMAIN queue \ {q} : queue'[p].events = queue[p].events
      /\ queue'[q].events = IF queue[q].events = << >> THEN << >> ELSE Tail(queue[q].events)
      /\ \A p \in DOMAIN queue : queue'[p].wakeUp = IF p \in ToSet(ObservedQueues(s)) THEN s ELSE queue[p].wakeUp
  BY <1>2, TakenFacts DEF TakesFrom
<1>4. Observes(s)
  BY <1>1, <1>3 DEF Observes, Dispatched
<1>5. \A p \in DOMAIN queue : queue[p].events \in Seq(Event)
  BY <1>1, QueuesFinite
<1>6. Len(queue'[q].events) = IF queue[q].events = << >> THEN 0 ELSE Len(queue[q].events) - 1
  <2> DEFINE list == queue[q].events
  <2>1. list \in Seq(Event) /\ queue'[q].events = IF list = << >> THEN << >> ELSE Tail(list)
    BY <1>3, <1>5
  <2> HIDE DEF list
  <2>2. Len(queue'[q].events) = IF list = << >> THEN 0 ELSE Len(list) - 1
    BY <2>1
  <2> QED BY <2>2 DEF list
<1>7. \A p \in DOMAIN queue : Len(queue'[p].events) <= Len(queue[p].events)
  <2> SUFFICES ASSUME NEW p \in DOMAIN queue PROVE Len(queue'[p].events) <= Len(queue[p].events)
    OBVIOUS
  <2> DEFINE list == queue[p].events
  <2>1. list \in Seq(Event)
    BY <1>5
  <2>2. p # q => queue'[p].events = list
    BY <1>3
  <2>3. p = q => Len(queue'[p].events) = IF list = << >> THEN 0 ELSE Len(list) - 1
    BY <1>6
  <2> HIDE DEF list
  <2>4. Len(list) \in Nat
    BY <2>1
  <2>5. Len(queue'[p].events) <= Len(list)
    BY <2>2, <2>3, <2>4
  <2> QED BY <2>5 DEF list
<1>8. ASSUME NEW u \in Structures \ {s} PROVE Timely(u)' /\ Paid(u)'
  BY <1>4, <1>7, <1>8, OthersWoken DEF Woken
<1>a. es'[s].count \in Nat /\ es'[s].late \in Nat
  <2> DEFINE P == DOMAIN queue'
             c == es'[s]
  <2>1. c \in Clump(P)
    BY DEF Inv, Types
  <2> HIDE DEF c, P
  <2>2. c.count \in Nat /\ c.late \in Nat
    BY <2>1 DEF Clump
  <2> QED BY <2>2 DEF c
<1>9. Timely(s)' /\ Paid(s)'
  <2> DEFINE e == es[s]
             d == es'[s]
             m == Missed(s)
             W == Waking(s)
             O == ToSet(ObservedQueues(s))
  <2>1. Timely(s) /\ Paid(s)
    BY DEF Woken
  <2>2. HasOccurred(s) <=> e.set + m > e.count
    BY DEF HasOccurred
  <2>3. /\ d.set = e.set + m /\ d.count <= e.count + 1 /\ d.count <= d.set + MaxBehind
        /\ e.count < d.set => d.count = e.count + 1
        /\ e.count <= d.set + MaxBehind => e.count <= d.count
        /\ d.late = IF q = NoQueue /\ ~ HasOccurred(s) /\ d.count > e.count THEN e.late + 1 ELSE e.late
        /\ ~ d.asleep /\ ~ d.timer /\ ~ d.listed /\ ~ d.ready
    BY <1>1 DEF Dispatched, InVain, q
  <2>4. e.late <= e.count /\ e.count <= e.set + MaxBehind
    BY <2>1 DEF Timely
  <2>5. e.count \in Nat /\ e.set \in Nat /\ e.late \in Nat /\ MaxBehind \in Nat /\ d.count \in Nat /\ d.late \in Nat
    BY ClumpFacts, EventsAssumption, <1>a
  <2>6. SumOf(queue, O) = SumOf(queue, W) + m /\ SumOf(queue, W) \in Nat /\ m \in Nat
    BY ObservedSum
  <2>7. SumOf(queue, W) <= e.set - e.count + e.late
    BY <2>1 DEF Paid
  <2>8. O \subseteq DOMAIN queue
    BY ObservedNow
  <2>9. \/ q = NoQueue /\ \A p \in O : queue[p].events = << >>
        \/ q \in O /\ queue[q].events # << >>
    BY <1>2 DEF TakesFrom
  <2>10. Waking(s)' = O
    BY <1>4, ObserverWaking
  <2> HIDE DEF e, d, m, W, O
  <2>11. e.count <= d.count /\ (d.late = e.late \/ (d.late = e.late + 1 /\ d.count = e.count + 1))
    BY <2>2, <2>3, <2>4, <2>5, <2>6
  <2>12. d.late <= d.count /\ d.count <= d.set + MaxBehind
    BY <2>3, <2>4, <2>5, <2>11
  <2> DEFINE f == LengthsOf(queue)
             g == LengthsOf(queue')
  <2>13. DOMAIN queue' = DOMAIN queue /\ IsQueues(queue')
    BY <1>3 DEF SameQueues
  <2>14. /\ IsFiniteSet(O) /\ \A p \in O : f[p] = Len(queue[p].events) /\ f[p] \in Nat
         /\ \A p \in O : g[p] = Len(queue'[p].events) /\ g[p] \in Nat
    BY <1>1, <2>8, <2>13, QueuesFinite
  <2>15. SumOf(queue', O) <= d.set - d.count + d.late
    <3>1. CASE q = NoQueue /\ \A p \in O : queue[p].events = << >>
      <4>1. \A p \in O : g[p] = 0
        <5>1. \A p \in O : queue'[p].events = << >>
          BY <1>3, <2>8, <3>1
        <5> QED BY <2>14, <5>1
      <4>2. SumFunctionOnSet(g, O) = 0
        <5> HIDE DEF g
        <5> QED BY <2>14, <4>1, SumOfZeros
      <4> DEFINE w == SumOf(queue, W)
      <4>3. w \in Nat /\ w <= e.set - e.count + e.late
        BY <2>6, <2>7
      <4> HIDE DEF w
      <4>4. 0 <= d.set - d.count + d.late
        <5>1. CASE HasOccurred(s)
          BY <2>2, <2>3, <2>5, <2>6, <5>1
        <5>2. CASE ~ (d.count > e.count)
          BY <2>3, <2>5, <2>6, <2>11, <4>3, <5>2
        <5>3. CASE ~ HasOccurred(s) /\ d.count > e.count
          <6>1. d.late = e.late + 1
            BY <2>3, <3>1, <5>3
          <6> QED BY <2>3, <2>5, <2>6, <4>3, <6>1
        <5> QED BY <5>1, <5>2, <5>3
      <4> QED BY <4>2, <4>4 DEF SumOf
    <3>2. CASE q \in O /\ queue[q].events # << >>
      <4> DEFINE R == O \ {q}
      <4>1. \A p \in R : g[p] = f[p]
        BY <1>3, <2>8, <2>14
      <4>2. g[q] = f[q] - 1
        BY <1>6, <2>14, <3>2
      <4>3. /\ SumFunctionOnSet(f, O) = f[q] + SumFunctionOnSet(f, R)
            /\ SumFunctionOnSet(g, O) = g[q] + SumFunctionOnSet(g, R)
            /\ SumFunctionOnSet(f, R) \in Nat /\ SumFunctionOnSet(g, R) \in Nat
        <5> HIDE DEF f, g
        <5>1. SumSplits(f, O, q)
          <6>1. q \in O /\ NatValued(f, O)
            BY <2>14, <3>2 DEF NatValued
          <6> QED BY ONLY <6>1, SumWithout
        <5>2. SumSplits(g, O, q)
          <6>1. q \in O /\ NatValued(g, O)
            BY <2>14, <3>2 DEF NatValued
          <6> QED BY ONLY <6>1, SumWithout
        <5> QED BY <5>1, <5>2 DEF SumSplits
      <4>4. SumFunctionOnSet(g, R) <= SumFunctionOnSet(f, R)
        <5>1. IsFiniteSet(R)
          BY <2>14, FS_RemoveElement
        <5>2. \A p \in R : f[p] \in Nat /\ g[p] \in Nat /\ g[p] <= f[p]
          BY <2>14, <4>1
        <5> HIDE DEF f, g, R
        <5>3. R \in SUBSET R
          OBVIOUS
        <5> QED BY <5>1, <5>2, <5>3, SumMonotone
      <4>5. f[q] \in Nat /\ g[q] \in Nat
        BY <2>14, <3>2
      <4> DEFINE x == SumFunctionOnSet(f, R)
                 y == SumFunctionOnSet(g, R)
                 a == f[q]
                 b == g[q]
                 w == SumOf(queue, W)
      <4>6. /\ a + x = w + m /\ SumOf(queue', O) = b + y /\ b = a - 1 /\ y <= x
            /\ x \in Nat /\ y \in Nat /\ a \in Nat /\ w \in Nat
        BY <2>6, <4>2, <4>3, <4>4, <4>5 DEF SumOf
      <4> HIDE DEF x, y, a, b, w
      <4>7. w <= e.set - e.count + e.late
        BY <2>7 DEF w
      <4> QED BY <2>3, <2>5, <2>6, <2>11, <4>6, <4>7
    <3> QED BY <2>9, <3>1, <3>2
  <2> QED BY <2>3, <2>10, <2>12, <2>15 DEF Timely, Paid, d
<1> QED BY <1>8, <1>9 DEF Woken, Timely, Paid

\* A step that fires no occurrence, and after which every structure observes no
\* more than before; a structure that is awake may start to count anew.
LEMMA StillWoken ==
  ASSUME Inv, Inv', Woken, prog' = prog,
         \A u \in Structures :
           /\ es'[u].set = es[u].set /\ es'[u].timer = es[u].timer /\ es'[u].asleep = es[u].asleep
           /\ es'[u].ready = es[u].ready /\ es'[u].listed = es[u].listed
           /\ Counted(u) /\ (es[u].asleep => es'[u].count = es[u].count)
           /\ Waking(u)' \subseteq Waking(u)
           /\ \A q \in Waking(u)' : queue'[q].events \in {queue[q].events, << >>}
  PROVE  Woken'
<1>1. ASSUME NEW u \in Structures PROVE Timely(u)' /\ Paid(u)'
  <2>1. Timely(u) /\ Paid(u)
    BY DEF Woken
  <2>2. es[u].count \in Nat /\ es[u].set \in Nat /\ es[u].late \in Nat /\ MaxBehind \in Nat
    BY ClumpFacts, EventsAssumption
  <2>3. \A q \in Waking(u)' : Len(queue'[q].events) <= Len(queue[q].events)
    <3> SUFFICES ASSUME NEW q \in Waking(u)' PROVE Len(queue'[q].events) <= Len(queue[q].events)
      OBVIOUS
    <3> DEFINE list == queue[q].events
    <3>1. q \in DOMAIN queue
      BY ObservedNow DEF Waking
    <3>2. list \in Seq(Event)
      BY <3>1, QueuesFinite DEF Inv, Types
    <3>3. queue'[q].events \in {list, << >>}
      OBVIOUS
    <3> HIDE DEF list
    <3>4. Len(list) \in Nat /\ Len(<< >>) = 0
      BY <3>2
    <3>5. Len(queue'[q].events) <= Len(list)
      BY <3>3, <3>4
    <3> QED BY <3>5 DEF list
  <2>4. Paid(u)'
    <3>1. Counted(u) /\ es'[u].set = es[u].set /\ Waking(u)' \subseteq Waking(u)
      OBVIOUS
    <3> QED BY <2>1, <2>3, <3>1, PaidStill
  <2>5. Timely(u)'
    <3> DEFINE e == es[u]
               d == es'[u]
    <3>1. /\ e.asleep /\ ~ e.ready => e.listed /\ e.set <= e.count
          /\ ~ e.asleep => ~ e.listed /\ ~ e.ready /\ ~ e.timer
          /\ e.late <= e.count /\ e.count <= e.set + MaxBehind
      BY <2>1 DEF Timely
    <3>2. /\ d.set = e.set /\ d.timer = e.timer /\ d.asleep = e.asleep /\ d.ready = e.ready /\ d.listed = e.listed
          /\ e.asleep => d.count = e.count
          /\ (d.count = e.count /\ d.late = e.late) \/ (d.count = 0 /\ d.late = 0)
          /\ e.count \in Nat /\ e.set \in Nat /\ e.late \in Nat
      BY <2>2 DEF Counted
    <3> HIDE DEF e, d
    <3>3. /\ d.asleep /\ ~ d.ready => d.listed /\ d.set <= d.count
          /\ ~ d.asleep => ~ d.listed /\ ~ d.ready /\ ~ d.timer
      BY <3>1, <3>2
    <3>4. d.late <= d.count /\ d.count <= d.set + MaxBehind
      BY <2>2, <3>1, <3>2
    <3> QED BY <3>3, <3>4 DEF Timely, d
  <2> QED BY <2>4, <2>5
<1> QED BY <1>1 DEF Woken, Timely, Paid

LEMMA RegisterWoken ==
  ASSUME Inv, Inv', Woken, NEW v \in ToSet(VI), NEW x \in RegVar, NEW input \in prog.inputs[x],
         RegisterForEvents(v, x, input)
  PROVE  Woken'
<1> DEFINE Q == DOMAIN queue
           q == FreeQueue(queue)
           r == Len(regs) + 1
<1>1. PICK g : /\ regs' = Append(regs, g) /\ g.q = q
               /\ queue' = WithNewQueue(queue, q) /\ regVar' = [regVar EXCEPT ![x] = r]
               /\ es' = es /\ prog' = prog
  BY DEF RegisterForEvents
<1>2. regs \in Seq(Reg(Q)) /\ regVar \in [RegVar -> 0 .. Len(regs)] /\ IsQueues(queue)
  BY DEF Inv, Types
<1>3. QueueAdded(queue, q, queue')
  BY <1>1, <1>2, NewQueueFacts
<1>4. /\ DOMAIN queue' = Q \cup {q}
      /\ \A p \in Q \ {q} : queue'[p] = queue[p]
      /\ queue'[q].wakeUp = NoStructure
  BY <1>3 DEF QueueAdded
<1>5. /\ DOMAIN regs = 1 .. Len(regs) /\ DOMAIN regs' = 1 .. r /\ regs'[r] = g
      /\ \A t \in 1 .. Len(regs) : regs'[t] = regs[t]
  <2> HIDE DEF Q
  <2> QED BY <1>1, <1>2
<1>6. \A y \in RegVar : y # x => regVar'[y] = regVar[y]
  BY <1>1, <1>2
<1>7. regVar'[x] = r
  BY <1>1, <1>2
<1> HIDE DEF q
<1>8. ASSUME NEW u \in Structures, NEW p \in Waking(u)' PROVE p \in Waking(u) /\ queue'[p] = queue[p]
  <2> DEFINE w == prog.wired[u]
  <2>1. /\ p \in ObservedSet(w, es[u].q, regVar', regs') /\ p \in DOMAIN queue' /\ queue'[p].wakeUp = u
    BY <1>1, <1>8, ObservedNext DEF Waking
  <2>2. p # q
    BY <1>4, <2>1, EventsAssumption DEF Structures
  <2>3. queue'[p] = queue[p]
    BY <1>4, <2>1, <2>2
  <2>4. p \in ObservedSet(w, es[u].q, regVar, regs)
    <3>1. CASE p \in {es[u].q} \ {NoQueue}
      BY <3>1 DEF ObservedSet
    <3>2. CASE p \in {regs'[t].q : t \in WiredIn(w, regVar', regs')}
      <4>1. PICK t \in DOMAIN regs' : p = regs'[t].q /\ regs'[t].valid /\ \E k \in DOMAIN w : regVar'[w[k]] = t
        BY <3>2 DEF WiredIn
      <4>2. t # r
        BY <1>1, <1>5, <2>2, <4>1
      <4>3. t \in DOMAIN regs /\ regs'[t] = regs[t]
        BY <1>2, <1>5, <4>1, <4>2
      <4>4. PICK k \in DOMAIN w : regVar'[w[k]] = t
        BY <4>1
      <4>5. w[k] \in RegVar
        BY ProgramFacts DEF Inv, Types
      <4>6. regVar[w[k]] = t
        BY <1>6, <1>7, <4>2, <4>4, <4>5
      <4> QED BY <4>1, <4>3, <4>6 DEF ObservedSet, WiredIn
    <3> QED BY <2>1, <3>1, <3>2 DEF ObservedSet
  <2> QED BY <2>1, <2>3, <2>4, ObservedNow DEF Waking
<1>9. \A u \in Structures : /\ Waking(u)' \subseteq Waking(u)
                            /\ \A p \in Waking(u)' : queue'[p].events \in {queue[p].events, << >>}
  BY <1>8
<1> QED BY <1>1, <1>9, StillWoken DEF Counted

\* After registrations have been disposed of, nobody observes more than before.
LEMMA DisposedObserved ==
  ASSUME Inv, Inv', NEW bs, Disposes(bs), prog' = prog, regVar' = regVar,
         NEW u \in Structures, es'[u].q \in {es[u].q, NoQueue}
  PROVE  /\ Waking(u)' \subseteq Waking(u)
         /\ \A p \in Waking(u)' : queue'[p].events \in {queue[p].events, << >>}
<1> DEFINE w == prog.wired[u]
<1>1. PICK o, n : /\ o.queue = queue /\ o.regs = regs /\ Disposing(o, n) /\ queue' = n.queue /\ regs' = n.regs
  BY DEF Disposes
<1>2. /\ DOMAIN queue' = DOMAIN queue /\ Len(regs') = Len(regs)
      /\ \A p \in DOMAIN queue :
           queue'[p] = queue[p] \/ (queue'[p].events = << >> /\ queue'[p].wakeUp = queue[p].wakeUp)
      /\ \A r \in DOMAIN regs : regs'[r] = regs[r] \/ regs'[r] = Disposed
  BY <1>1 DEF Disposing, Fewer
<1>3. DOMAIN regs' = DOMAIN regs
  <2> DEFINE Q == DOMAIN queue
             P == DOMAIN queue'
  <2>1. regs \in Seq(Reg(Q)) /\ regs' \in Seq(Reg(P))
    BY DEF Inv, Types
  <2> HIDE DEF Q, P
  <2> QED BY <1>2, <2>1
<1>4. ASSUME NEW p \in Waking(u)' PROVE p \in Waking(u) /\ queue'[p].events \in {queue[p].events, << >>}
  <2>1. p \in ObservedSet(w, es'[u].q, regVar, regs') /\ p \in DOMAIN queue /\ queue'[p].wakeUp = u
    BY <1>2, <1>4, ObservedNext DEF Waking
  <2>2. queue[p].wakeUp = u /\ queue'[p].events \in {queue[p].events, << >>}
    BY <1>2, <2>1
  <2>3. p \in ObservedSet(w, es[u].q, regVar, regs)
    <3>1. CASE p \in {es'[u].q} \ {NoQueue}
      BY <3>1 DEF ObservedSet
    <3>2. CASE p \in {regs'[t].q : t \in WiredIn(w, regVar, regs')}
      <4>1. PICK t \in DOMAIN regs : p = regs'[t].q /\ regs'[t].valid /\ \E k \in DOMAIN w : regVar[w[k]] = t
        BY <1>3, <3>2 DEF WiredIn
      <4>2. regs'[t] = regs[t]
        BY <1>2, <4>1 DEF Disposed
      <4> QED BY <4>1, <4>2 DEF ObservedSet, WiredIn
    <3> QED BY <2>1, <3>1, <3>2 DEF ObservedSet
  <2> QED BY <2>2, <2>3, ObservedNow DEF Waking
<1> QED BY <1>4

LEMMA UnregisterWoken ==
  ASSUME Inv, Inv', Woken, NEW x \in RegVar, UnregisterForEvents(x)
  PROVE  Woken'
<1>1. UNCHANGED << prog, es, regVar >>
  BY DEF UnregisterForEvents
<1>2. Disposes(bucket)
  BY UnregisterDisposes
<1>3. \A u \in Structures : /\ Waking(u)' \subseteq Waking(u)
                            /\ \A p \in Waking(u)' : queue'[p].events \in {queue[p].events, << >>}
  <2> SUFFICES ASSUME NEW u \in Structures
               PROVE  /\ Waking(u)' \subseteq Waking(u)
                      /\ \A p \in Waking(u)' : queue'[p].events \in {queue[p].events, << >>}
    OBVIOUS
  <2>1. es'[u].q \in {es[u].q, NoQueue}
    BY <1>1
  <2> QED BY <1>1, <1>2, <2>1, DisposedObserved
<1> QED BY <1>1, <1>3, StillWoken DEF Counted

LEMMA FinishWoken ==
  ASSUME Inv, Inv', Woken, NEW v \in ToSet(VI), FinishVI(v)
  PROVE  Woken'
<1>1. UNCHANGED << prog, regVar >> /\ \A s \in ToSet(StructuresOf(v)) : ~ es[s].asleep
  BY DEF FinishVI
<1>2. PICK bs : Disposes(bs)
  BY FinishDisposes
<1>3. ASSUME NEW u \in Structures
      PROVE  /\ es'[u].set = es[u].set /\ es'[u].timer = es[u].timer /\ es'[u].asleep = es[u].asleep
             /\ es'[u].ready = es[u].ready /\ es'[u].listed = es[u].listed
             /\ Counted(u) /\ (es[u].asleep => es'[u].count = es[u].count)
             /\ Waking(u)' \subseteq Waking(u)
             /\ \A p \in Waking(u)' : queue'[p].events \in {queue[p].events, << >>}
  <2>1. Owner[u] = v => ~ es[u].asleep
    <3>1. Structure \in Seq(Structures)
      BY EventsAssumption DEF Structures
    <3> DEFINE mine == {s \in Structures : Owner[s] = v}
    <3>2. ToSet(Chosen(Structure, mine)) = ToSet(Structure) \cap mine
      <4> HIDE DEF mine
      <4> QED BY ONLY <3>1, ChosenSet
    <3>3. Owner[u] = v => u \in ToSet(StructuresOf(v))
      BY <3>2 DEF StructuresOf, Structures
    <3> QED BY <1>1, <3>3
  <2>2. /\ es'[u].q \in {es[u].q, NoQueue}
        /\ es'[u].set = es[u].set /\ es'[u].timer = es[u].timer /\ es'[u].asleep = es[u].asleep
        /\ es'[u].ready = es[u].ready /\ es'[u].listed = es[u].listed
        /\ Counted(u) /\ (es'[u].count = es[u].count \/ Owner[u] = v)
    BY FinishStructures DEF Counted
  <2>3. /\ Waking(u)' \subseteq Waking(u)
        /\ \A p \in Waking(u)' : queue'[p].events \in {queue[p].events, << >>}
    BY <1>1, <1>2, <2>2, DisposedObserved
  <2> QED BY <2>1, <2>2, <2>3
<1> QED BY <1>1, <1>3, StillWoken

LEMMA ReregisterWoken ==
  ASSUME Inv, Inv', Woken, NEW v \in ToSet(VI), NEW x \in RegVar, NEW input \in prog.inputs[x],
         ReregisterForEvents(v, x, input)
  PROVE  Woken'
<1> DEFINE Q == DOMAIN queue
           r == regVar[x]
<1>1. /\ UNCHANGED << prog, es, queue, regVar >>
      /\ \E new, gone : regs' = [regs EXCEPT ![r].entries = new, ![r].replaced = gone]
  BY DEF ReregisterForEvents
<1>2. PICK new, gone : regs' = [regs EXCEPT ![r].entries = new, ![r].replaced = gone]
  BY <1>1
<1>3. regs \in Seq(Reg(Q)) /\ r \in DOMAIN regs
  BY DEF Inv, Types, ReregisterForEvents, Valid
<1>4. DOMAIN regs' = DOMAIN regs /\ \A t \in DOMAIN regs : regs'[t].q = regs[t].q /\ regs'[t].valid = regs[t].valid
  <2> DEFINE g == regs[r]
             g1 == [g EXCEPT !.entries = new]
             g2 == [g1 EXCEPT !.replaced = gone]
  <2>1. g \in Reg(Q)
    <3> HIDE DEF Q, r
    <3> QED BY <1>3
  <2>2. regs' = [regs EXCEPT ![r] = g2]
    BY <1>2, <1>3, <2>1 DEF Reg
  <2> HIDE DEF g
  <2>3. g1.q = g.q /\ g1.valid = g.valid /\ DOMAIN g1 = DOMAIN g
    BY <2>1 DEF Reg
  <2> HIDE DEF g1
  <2>4. g2.q = g1.q /\ g2.valid = g1.valid
    BY <2>1, <2>3 DEF Reg
  <2> HIDE DEF g2, r, Q
  <2>5. g2.q = regs[r].q /\ g2.valid = regs[r].valid
    BY <2>3, <2>4 DEF g
  <2>6. DOMAIN regs' = DOMAIN regs /\ \A t \in DOMAIN regs : regs'[t] = IF t = r THEN g2 ELSE regs[t]
    BY <1>3, <2>2
  <2> QED BY <2>5, <2>6
<1>5. ASSUME NEW u \in Structures
      PROVE  /\ Waking(u)' \subseteq Waking(u)
             /\ \A p \in Waking(u)' : queue'[p].events \in {queue[p].events, << >>}
  <2> DEFINE w == prog.wired[u]
  <2>1. WiredIn(w, regVar, regs') = WiredIn(w, regVar, regs)
    BY <1>4 DEF WiredIn
  <2>2. ObservedSet(w, es[u].q, regVar, regs') = ObservedSet(w, es[u].q, regVar, regs)
    <3>1. \A t \in WiredIn(w, regVar, regs) : regs'[t].q = regs[t].q
      BY <1>4 DEF WiredIn
    <3> HIDE DEF w
    <3> QED BY <2>1, <3>1 DEF ObservedSet
  <2>3. ToSet(ObservedQueues(u)') = ToSet(ObservedQueues(u))
    <3>1. ToSet(ObservedQueues(u)') = ObservedSet(w, es[u].q, regVar, regs')
      BY <1>1, ObservedNext
    <3> QED BY <2>2, <3>1, ObservedNow
  <2> QED BY <1>1, <2>3 DEF Waking
<1> QED BY <1>1, <1>5, StillWoken DEF Counted

LEMMA InitWoken == EventsInit => Woken
<1> SUFFICES ASSUME EventsInit PROVE Woken
  OBVIOUS
<1> DEFINE o == FoldLeft(RegisterForStaticEvents, EmptyOracle, VI)
<1>1. Inv
  BY InitInv
<1>2. prog \in Programs /\ queue = o.queue /\ es = o.es
  BY DEF EventsInit
<1>3. o = FoldLeft(RegisterForStaticEvents, EmptyOracle, VI)
  OBVIOUS
<1> HIDE DEF o
<1>4. Loaded(o)
  BY <1>2, <1>3, LoadedFacts
<1>5. IsQueues(queue) /\ NoneQueued(queue) /\ \A s \in Structures : AtRest(es[s])
  BY <1>2, <1>4 DEF Loaded, ClumpsAtRest
<1>6. ASSUME NEW s \in Structures PROVE Timely(s) /\ Paid(s)
  <2> DEFINE W == Waking(s)
             f == LengthsOf(queue)
  <2>1. AtRest(es[s])
    BY <1>5
  <2>2. Timely(s)
    BY <2>1, EventsAssumption DEF Timely, AtRest
  <2>3. W \in SUBSET DOMAIN queue
    BY <1>1, ObservedNow DEF Waking
  <2> HIDE DEF W
  <2>4. IsFiniteSet(W) /\ \A p \in W : f[p] = 0
    <3>1. \A p \in W : queue[p].events = << >>
      BY <1>5, <2>3 DEF NoneQueued
    <3> QED BY <1>5, <2>3, <3>1, QueuesFinite
  <2> HIDE DEF f
  <2>5. SumFunctionOnSet(f, W) = 0
    BY <2>4, SumOfZeros
  <2>6. Paid(s)
    BY <2>1, <2>5 DEF Paid, AtRest, SumOf, W, f
  <2> QED BY <2>2, <2>6
<1> QED BY <1>6 DEF Woken

EventsWoken == EventsInv /\ Woken

LEMMA NextKeepsEventsWoken == EventsWoken /\ [EventsNext]_eventVars => EventsWoken'
<1> SUFFICES ASSUME Inv, DOMAIN handled = Structures, Woken, [EventsNext]_eventVars
             PROVE  EventsInv' /\ Woken'
  BY DEF EventsWoken, EventsInv
<1>1. EventsInv'
  BY NextKeepsEventsInv DEF EventsInv
<1> SUFFICES Woken'
  BY <1>1
<1>2. Inv' /\ Types
  BY <1>1 DEF EventsInv, Inv
<1>3. CASE UNCHANGED eventVars
  BY <1>3, QuietWoken DEF eventVars
<1>4. ASSUME NEW s \in Structures, StructureStep(s) PROVE Woken'
  <2>1. CASE SleepForEvents(s)
    BY <1>2, <2>1, SleepWoken
  <2>2. CASE Dispatch(s)
    BY <1>2, <2>2, DispatchWoken
  <2>3. CASE TimerExpires(s)
    BY <1>2, <2>3, TimerWoken
  <2> QED BY <1>4, <2>1, <2>2, <2>3 DEF StructureStep
<1>5. CASE UserEventStep
  <2>1. ASSUME NEW v \in ToSet(VI), CreateUserEvent(v) PROVE Woken'
    BY <2>1, QuietWoken DEF CreateUserEvent
  <2>2. ASSUME NEW u \in ToSet(UserEvent), GenerateUserEvent(u) PROVE Woken'
    <3>1. AppIndex \in DOMAIN bucket /\ u \in Nat /\ "UserEvent" \in EventType
      BY <1>2, EventsAssumption DEF Types, IsBuckets, AppIndex, EventType, ToSet
    <3>2. Broadcast(AppIndex, "UserEvent", u) /\ UNCHANGED << prog, regVar, regs >>
      BY <2>2 DEF GenerateUserEvent
    <3> QED BY <1>2, <3>1, <3>2, BroadcastWoken
  <2>3. ASSUME NEW u \in ToSet(UserEvent), DestroyUserEvent(u) PROVE Woken'
    BY <2>3, QuietWoken DEF DestroyUserEvent
  <2> QED BY <1>5, <2>1, <2>2, <2>3 DEF UserEventStep
<1>6. CASE RegistrationStep
  <2>1. ASSUME NEW x \in RegVar, UnregisterForEvents(x) PROVE Woken'
    BY <1>2, <2>1, UnregisterWoken
  <2>2. ASSUME NEW x \in RegVar, NEW v \in ToSet(VI), NEW input \in prog.inputs[x], RegisterForEvents(v, x, input)
        PROVE  Woken'
    BY <1>2, <2>2, RegisterWoken
  <2>3. ASSUME NEW x \in RegVar, NEW v \in ToSet(VI), NEW input \in prog.inputs[x], ReregisterForEvents(v, x, input)
        PROVE  Woken'
    BY <1>2, <2>3, ReregisterWoken
  <2> QED BY <1>6, <2>1, <2>2, <2>3 DEF RegistrationStep
<1>7. CASE ControlStep
  <2>1. ASSUME NEW l \in listening, HostOccursEvent(l) PROVE Woken'
    <3>1. PICK i \in DOMAIN bucket, t \in EventType, ref \in Nat : Broadcast(i, t, ref)
      BY <2>1, HostBroadcasts
    <3>2. UNCHANGED << prog, regVar, regs >>
      BY <2>1 DEF HostOccursEvent
    <3> QED BY <1>2, <3>1, <3>2, BroadcastWoken
  <2>2. ASSUME NEW v \in ToSet(VI), NEW r \in ControlRef \cup JSRef, NEW t \in UIEvents, OccurControlEvent(v, r, t)
        PROVE  Woken'
    <3>1. PICK i \in DOMAIN bucket, k \in EventType, ref \in Nat : Broadcast(i, k, ref)
      BY <2>2, OccurBroadcasts
    <3>2. UNCHANGED << prog, regVar, regs >>
      BY <2>2 DEF OccurControlEvent
    <3> QED BY <1>2, <3>1, <3>2, BroadcastWoken
  <2>3. ASSUME NEW s \in Structures, NEW j \in JSRef, NEW k \in DOMAIN specs[s], ConfigureEventSpecJSRef(s, k, j)
        PROVE  Woken'
    <3>1. UNCHANGED << prog, es, queue, regVar, regs >>
      BY <2>3 DEF ConfigureEventSpecJSRef
    <3> QED BY <3>1, QuietWoken
  <2>4. ASSUME NEW v \in ToSet(VI), NEW j \in JSRef, NEW t \in UIEvents, RegisterForJSEvent(v, j, t)
        PROVE  Woken'
    BY <2>4, QuietWoken DEF RegisterForJSEvent
  <2> QED BY <1>7, <2>1, <2>2, <2>3, <2>4 DEF ControlStep
<1>8. CASE LifeStep
  <2>1. ASSUME NEW v \in ToSet(VI), StartVI(v) PROVE Woken'
    BY <2>1, QuietWoken DEF StartVI
  <2>2. ASSUME NEW v \in ToSet(VI), FinishVI(v) PROVE Woken'
    BY <1>2, <2>2, FinishWoken
  <2> QED BY <1>8, <2>1, <2>2 DEF LifeStep
<1> QED BY <1>3, <1>4, <1>5, <1>6, <1>7, <1>8 DEF EventsNext

LEMMA WokenStrandsNothing == EventsWoken => NoStrandedEvent
<1> SUFFICES ASSUME Inv, Woken, NEW s \in Structures, es[s].asleep, ~ es[s].ready
             PROVE  Waiting(s) <= es[s].late
  BY DEF EventsWoken, EventsInv, NoStrandedEvent
<1>1. es[s].set <= es[s].count /\ SumOf(queue, Waking(s)) <= es[s].set - es[s].count + es[s].late
  BY DEF Woken, Timely, Paid
<1>2. es[s].set \in Nat /\ es[s].count \in Nat /\ es[s].late \in Nat
  BY ClumpFacts
<1>3. Waiting(s) = SumOf(queue, Waking(s)) /\ Waiting(s) \in Nat
  BY ObservedSum DEF Waiting, SumOf, LengthsOf
<1> QED BY <1>1, <1>2, <1>3

(***************************************************************************)
(* A structure sleeps beside no more events, in the queues that are to     *)
(* wake it, than it has gone on without an event, whatever its timeouts    *)
(* have been and are now: no wakeup is lost but to a timeout.  It rests on *)
(* the count of Woken: the occurrence has gone off once for each such      *)
(* event that is not handled yet, less what the structure has counted      *)
(* without one (WaitForEventsAndDispatch, SetObserver and                  *)
(* EventQueueObject::OccurEvent in Events.cpp).                            *)
(***************************************************************************)
THEOREM NothingIsStranded == EventsSpec => []NoStrandedEvent
<1>1. EventsInit => EventsWoken
  BY InitEventsInv, InitWoken DEF EventsWoken
<1> QED BY <1>1, NextKeepsEventsWoken, WokenStrandsNothing, PTL DEF EventsSpec

-----------------------------------------------------------------------------
(* Events and their cases.                                                  *)

\* All registrations wired to s are there.
AllWired(s) ==
  LET w == prog.wired[s]
  IN  /\ WiredRegs(s) = [k \in DOMAIN w |-> regVar[w[k]]]
      /\ \A k \in DOMAIN w : regVar[w[k]] \in DOMAIN regs /\ regs[regVar[w[k]]].valid

\* The registrations wired to such a structure are live.
LEMMA WiredMember ==
  ASSUME NEW s, AllWired(s), NEW r \in ToSet(WiredRegs(s))
  PROVE  r \in DOMAIN regs /\ regs[r].valid
<1> DEFINE w == prog.wired[s]
           list == WiredRegs(s)
<1>1. /\ list = [k \in DOMAIN w |-> regVar[w[k]]]
      /\ \A k \in DOMAIN w : regVar[w[k]] \in DOMAIN regs /\ regs[regVar[w[k]]].valid
  BY DEF AllWired
<1> HIDE DEF w, list
<1>2. PICK k \in DOMAIN list : r = list[k]
  BY DEF ToSet, list
<1>3. k \in DOMAIN w /\ r = regVar[w[k]]
  BY <1>1, <1>2
<1> QED BY <1>1, <1>3

LEMMA WiredAll ==
  ASSUME Inv, NEW s \in Structures, Len(WiredRegs(s)) = Len(prog.wired[s])
  PROVE  AllWired(s)
<1> DEFINE w == prog.wired[s]
           all == [k \in DOMAIN w |-> regVar[w[k]]]
           valid == {r \in DOMAIN regs : regs[r].valid}
<1>1. w \in Seq(RegVar) /\ regVar \in [RegVar -> Nat]
  BY ProgramFacts DEF Inv, Types
<1>2. all \in Seq(Nat) /\ Len(all) = Len(w) /\ DOMAIN all = DOMAIN w
  <2> HIDE DEF w
  <2>1. DOMAIN w = 1 .. Len(w) /\ Len(w) \in Nat /\ \A k \in DOMAIN w : regVar[w[k]] \in Nat
    BY <1>1
  <2> QED BY <2>1
<1>3. WiredRegs(s) = Chosen(all, valid)
  BY DEF WiredRegs
<1>4. Len(Chosen(all, valid)) = Len(all)
  BY <1>2, <1>3
<1>5. \A k \in DOMAIN all : all[k] = regVar[w[k]]
  OBVIOUS
<1> HIDE DEF all
<1>6. Chosen(all, valid) = all
  BY ONLY <1>2, <1>4, ChosenAll
<1>7. ToSet(all) \subseteq valid
  <2> HIDE DEF valid
  <2>1. ToSet(Chosen(all, valid)) = ToSet(all) \cap valid
    BY ONLY <1>2, ChosenSet
  <2> QED BY <1>6, <2>1
<1>8. ASSUME NEW k \in DOMAIN w PROVE regVar[w[k]] \in valid
  BY <1>2, <1>5, <1>7, <1>8 DEF ToSet
<1> QED BY <1>3, <1>6, <1>8 DEF AllWired, all

\* The numbers of items of the registrations wired to s.
WiredItems(s) == [k \in DOMAIN prog.wired[s] |-> Len(prog.kinds[prog.wired[s][k]])]

\* The items before a registration are counted as the program numbers them.
ItemsCounted(s) ==
  /\ \A k \in 0 .. Len(prog.wired[s]) :
       ItemsBefore(s, k) \in Nat /\ ItemsBefore(s, k) = SumFunctionOnSet(WiredItems(s), 1 .. k)
  /\ \A j, k \in 0 .. Len(prog.wired[s]) : j <= k => ItemsBefore(s, j) <= ItemsBefore(s, k)

LEMMA ItemsBeforeFacts ==
  ASSUME Inv, NEW s \in Structures, AllWired(s)
  PROVE  ItemsCounted(s)
<1> DEFINE w == prog.wired[s]
           g == WiredItems(s)
           f(k) == [i \in 1 .. k |-> Len(regs[WiredRegs(s)[i]].entries)]
<1>1. w \in Seq(RegVar) /\ prog.kinds \in [RegVar -> Seq(Kinds)] /\ regVar \in [RegVar -> Nat]
  BY ProgramFacts DEF Inv, Types
<1>2. DOMAIN w = 1 .. Len(w) /\ Len(w) \in Nat
  BY <1>1
<1>3. \A i \in DOMAIN w : g[i] = Len(prog.kinds[w[i]])
  BY DEF WiredItems
<1>4. ASSUME NEW i \in DOMAIN w PROVE g[i] \in Nat /\ Len(regs[WiredRegs(s)[i]].entries) = g[i]
  <2> DEFINE x == w[i]
  <2>1. x \in RegVar
    BY <1>1
  <2>2. WiredRegs(s)[i] = regVar[x] /\ regVar[x] \in DOMAIN regs /\ regs[regVar[x]].valid
    BY DEF AllWired
  <2>3. g[i] = Len(prog.kinds[x])
    BY <1>3
  <2> HIDE DEF x, w
  <2>4. Len(regs[regVar[x]].entries) = Len(prog.kinds[x])
    BY <2>1, <2>2 DEF Inv, RightKinds
  <2>5. prog.kinds[x] \in Seq(Kinds)
    BY <1>1, <2>1
  <2>6. Len(prog.kinds[x]) \in Nat
    BY <2>5
  <2> QED BY <2>2, <2>3, <2>4, <2>6
<1> HIDE DEF g, w
<1>5. ASSUME NEW k \in 0 .. Len(w)
      PROVE  /\ IsFiniteSet(1 .. k) /\ \A i \in 1 .. k : i \in DOMAIN w /\ g[i] \in Nat
             /\ ItemsBefore(s, k) = SumFunctionOnSet(g, 1 .. k)
  <2>1. IsFiniteSet(1 .. k)
    BY <1>2, FS_Interval
  <2>2. \A i \in 1 .. k : i \in DOMAIN w
    BY <1>2
  <2>3. \A i \in 1 .. k : f(k)[i] \in Nat /\ g[i] = f(k)[i]
    BY <1>4, <2>2
  <2>4. ItemsBefore(s, k) = SumFunctionOnSet(f(k), 1 .. k)
    BY DEF ItemsBefore
  <2> DEFINE h == f(k)
             I == 1 .. k
  <2>5. \A i \in I : h[i] \in Nat /\ g[i] = h[i]
    BY <2>3
  <2>6. IsFiniteSet(I)
    BY <2>1
  <2> HIDE DEF h, I
  <2>7. SumFunctionOnSet(h, I) = SumFunctionOnSet(g, I)
    BY ONLY <2>5, <2>6, SumOfSame
  <2> QED BY <1>4, <2>1, <2>2, <2>4, <2>7 DEF h, I
<1>6. ASSUME NEW k \in 0 .. Len(w) PROVE ItemsBefore(s, k) \in Nat
  <2> DEFINE I == 1 .. k
  <2>1. IsFiniteSet(I) /\ \A i \in I : g[i] \in Nat
    BY <1>5
  <2> HIDE DEF I
  <2>2. SumFunctionOnSet(g, I) \in Nat
    BY ONLY <2>1, SumIsNat
  <2> QED BY <1>5, <2>2 DEF I
<1>7. ASSUME NEW j \in 0 .. Len(w), NEW k \in 0 .. Len(w), j <= k PROVE ItemsBefore(s, j) <= ItemsBefore(s, k)
  <2> DEFINE I == 1 .. j
             J == 1 .. k
  <2>1. IsFiniteSet(J) /\ \A i \in J : g[i] \in Nat
    BY <1>5
  <2>2. I \in SUBSET J /\ \A i \in I : g[i] \in Nat /\ g[i] <= g[i]
    <3>1. I \in SUBSET J
      BY <1>2, <1>7
    <3> QED BY <2>1, <3>1
  <2> HIDE DEF I, J
  <2>3. SumFunctionOnSet(g, I) <= SumFunctionOnSet(g, J)
    BY ONLY <2>1, <2>2, SumMonotone
  <2> QED BY <1>5, <2>3 DEF I, J
<1> QED BY <1>5, <1>6, <1>7 DEF ItemsCounted, g, w

\* The first item of entries that has the refnum.
FirstItem(entries, ref, k) ==
  /\ k \in DOMAIN entries /\ ref \in ToSet(entries[k].refs)
  /\ \A i \in 1 .. k - 1 : ref \notin ToSet(entries[i].refs)

\* DynamicEventMatch finds it, where no item is a cluster.
LEMMA MatchIsItem ==
  ASSUME NEW entries \in Seq(Item), NEW ref, DynamicEventMatch(entries, ref) # 0,
         \A k \in DOMAIN entries : entries[k].kind # "cluster"
  PROVE  /\ DynamicEventMatch(entries, ref) \in Nat
         /\ DynamicEventMatch(entries, ref) = CHOOSE k \in DOMAIN entries :
              /\ ref \in ToSet(entries[k].refs)
              /\ \A i \in 1 .. k - 1 : ref \notin ToSet(entries[i].refs)
<1> DEFINE holding == {k \in DOMAIN entries : ref \in ToSet(entries[k].refs)}
           isFirst(k) == \A i \in holding : k <= i
           first == CHOOSE k \in holding : isFirst(k)
           widths == [k \in DOMAIN entries |-> ItemWidth(entries[k])]
<1>1. DOMAIN entries = 1 .. Len(entries) /\ Len(entries) \in Nat
  OBVIOUS
<1>2. DynamicEventMatch(entries, ref) =
        IF holding = {} THEN 0
        ELSE 1 + SumFunctionOnSet(widths, 1 .. first - 1) + PlaceIn(entries[first], ref)
  BY DEF DynamicEventMatch
<1>3. holding # {}
  BY <1>2
<1>4. holding \in SUBSET Nat /\ holding \subseteq DOMAIN entries
  BY <1>1
<1>5. \A k \in Nat : FirstItem(entries, ref, k) <=> k \in holding /\ isFirst(k)
  BY <1>1 DEF FirstItem
<1>6. \A k \in DOMAIN entries : widths[k] = 1
  BY DEF ItemWidth
<1> HIDE DEF widths, holding
<1>7. first \in holding /\ isFirst(first)
  <2>1. \E k \in holding : isFirst(k)
    BY <1>3, <1>4, LeastExists
  <2> HIDE DEF isFirst
  <2> QED BY <2>1
<1> DEFINE m == first
<1>8. m \in DOMAIN entries /\ m \in Nat /\ FirstItem(entries, ref, m)
  BY <1>4, <1>5, <1>7
<1> HIDE DEF first, m
<1>9. \A k \in DOMAIN entries : FirstItem(entries, ref, k) => k = m
  BY <1>1, <1>8 DEF FirstItem
<1>10. PlaceIn(entries[m], ref) = 0
  BY <1>8 DEF PlaceIn
<1>11. SumFunctionOnSet(widths, 1 .. m - 1) = m - 1
  <2> DEFINE n == m - 1
  <2>1. n \in Nat /\ \A k \in 1 .. n : widths[k] = 1
    BY <1>1, <1>6, <1>8
  <2> HIDE DEF n
  <2>2. SumFunctionOnSet(widths, 1 .. n) = n
    BY ONLY <2>1, SumOfOnes
  <2> QED BY <2>2 DEF n
<1>12. DynamicEventMatch(entries, ref) = m
  <2>1. DynamicEventMatch(entries, ref) = 1 + SumFunctionOnSet(widths, 1 .. m - 1) + PlaceIn(entries[m], ref)
    BY <1>2, <1>3 DEF m
  <2> QED BY <1>8, <1>10, <1>11, <2>1
<1>13. m = CHOOSE k \in DOMAIN entries :
              /\ ref \in ToSet(entries[k].refs)
              /\ \A i \in 1 .. k - 1 : ref \notin ToSet(entries[i].refs)
  BY <1>8, <1>9 DEF FirstItem
<1> QED BY <1>8, <1>12, <1>13

\* What s offers itself from, and what from the registration wired to it as number j.
OwnOffer(s) == [q |-> es[s].q, reg |-> 0, base |-> 0]
WiredOffer(s, j) ==
  LET r == regVar[prog.wired[s][j]]
  IN  [q |-> regs[r].q, reg |-> r, base |-> ItemsBefore(s, j - 1)]

\* The offers are those of s and of the registrations wired to it, in their order.
Placed(s, offers) ==
  /\ \A k \in DOMAIN offers :
       (offers[k] = OwnOffer(s) /\ es[s].q # NoQueue) \/ \E j \in DOMAIN prog.wired[s] : offers[k] = WiredOffer(s, j)
  /\ \A j \in DOMAIN prog.wired[s] :
       queue[WiredOffer(s, j).q].events # << >> => \E k \in DOMAIN offers : offers[k] = WiredOffer(s, j)
  /\ \A i, k \in DOMAIN offers : i < k => offers[i].base <= offers[k].base

LEMMA OffersPlaced ==
  ASSUME Inv, NEW s \in Structures, AllWired(s)
  PROVE  Placed(s, Offers(s))
<1> DEFINE w == prog.wired[s]
           wired == WiredRegs(s)
           base == OwnOffer(s)
           own == IF es[s].q = NoQueue THEN << >> ELSE << base >>
           offer(k) == WiredOffer(s, k)
           dynamic == [k \in DOMAIN w |-> offer(k)]
           observed == own \o dynamic
           T == {base} \cup {offer(k) : k \in DOMAIN w}
           full == {o \in ToSet(observed) : queue[o.q].events # << >>}
           R == {p \in T \X T : p[1].base <= p[2].base}
<1>1. w \in Seq(RegVar)
  BY ProgramFacts DEF Inv, Types
<1>2. DOMAIN w = 1 .. Len(w) /\ Len(w) \in Nat
  BY <1>1
<1>3. ItemsCounted(s)
  BY ItemsBeforeFacts
<1>4. Offers(s) = Chosen(observed, full)
  <2>1. DOMAIN wired = DOMAIN w /\ \A k \in DOMAIN w : wired[k] = regVar[w[k]]
    BY DEF AllWired
  <2>2. dynamic = [k \in DOMAIN wired |->
                     LET r == wired[k] IN [q |-> regs[r].q, reg |-> r, base |-> ItemsBefore(s, k - 1)]]
    BY <2>1 DEF WiredOffer
  <2>3. Offers(s) =
          LET ones == IF es[s].q = NoQueue THEN << >> ELSE << [q |-> es[s].q, reg |-> 0, base |-> 0] >>
              others == [k \in DOMAIN wired |->
                     LET r == wired[k] IN [q |-> regs[r].q, reg |-> r, base |-> ItemsBefore(s, k - 1)]]
          IN  Chosen(ones \o others, {o \in ToSet(ones \o others) : queue[o.q].events # << >>})
    BY DEF Offers
  <2> HIDE DEF wired, w
  <2> QED BY <2>2, <2>3 DEF OwnOffer
<1>5. base.base = 0 /\ \A k \in DOMAIN w : offer(k).base = ItemsBefore(s, k - 1)
  BY DEF OwnOffer, WiredOffer
<1>6. \A k \in DOMAIN w : offer(k).base \in Nat
  <2> SUFFICES ASSUME NEW k \in DOMAIN w PROVE offer(k).base \in Nat
    OBVIOUS
  <2>1. k - 1 \in 0 .. Len(w)
    BY <1>2
  <2> QED BY <1>3, <1>5, <2>1 DEF ItemsCounted
<1>7. \A j, k \in DOMAIN w : j < k => offer(j).base <= offer(k).base
  <2> SUFFICES ASSUME NEW j \in DOMAIN w, NEW k \in DOMAIN w, j < k PROVE offer(j).base <= offer(k).base
    OBVIOUS
  <2>1. j - 1 \in 0 .. Len(w) /\ k - 1 \in 0 .. Len(w) /\ j - 1 <= k - 1
    BY <1>2
  <2>2. ItemsBefore(s, j - 1) <= ItemsBefore(s, k - 1)
    BY <1>3, <2>1 DEF ItemsCounted
  <2> QED BY <1>5, <2>2
<1> HIDE DEF base, offer, w
<1>8. own \in Seq(T) /\ Len(own) \in {0, 1} /\ (Len(own) = 1 => own[1] = base /\ es[s].q # NoQueue)
  <2>1. base \in T
    OBVIOUS
  <2> HIDE DEF T
  <2> QED BY <2>1
<1>9. dynamic \in Seq(T) /\ Len(dynamic) = Len(w) /\ \A k \in DOMAIN w : dynamic[k] = offer(k)
  <2>1. \A k \in DOMAIN w : offer(k) \in T
    OBVIOUS
  <2> HIDE DEF T
  <2> QED BY <1>2, <2>1
<1> HIDE DEF own, dynamic
<1>10. /\ observed \in Seq(T) /\ Len(observed) = Len(own) + Len(w)
       /\ \A k \in 1 .. Len(own) : observed[k] = own[k]
       /\ \A k \in 1 .. Len(w) : observed[Len(own) + k] = dynamic[k]
  <2> HIDE DEF T
  <2> QED BY <1>2, <1>8, <1>9
<1> HIDE DEF observed
<1>11. ASSUME NEW i \in 1 .. Len(observed)
       PROVE  \/ i = 1 /\ Len(own) = 1 /\ observed[i] = base /\ es[s].q # NoQueue
              \/ i - Len(own) \in DOMAIN w /\ observed[i] = offer(i - Len(own))
  <2>1. CASE i <= Len(own)
    BY <1>8, <1>10, <2>1
  <2>2. CASE ~ (i <= Len(own))
    <3> DEFINE j == i - Len(own)
    <3>1. j \in 1 .. Len(w) /\ i = Len(own) + j
      BY <1>2, <1>8, <1>10, <2>2
    <3> HIDE DEF j
    <3>2. observed[i] = offer(j)
      BY <1>2, <1>9, <1>10, <3>1
    <3> QED BY <1>2, <3>1, <3>2 DEF j
  <2> QED BY <1>8, <2>1, <2>2
<1>12. ASSUME NEW i \in 1 .. Len(observed), NEW j \in 1 .. Len(observed), i < j
       PROVE  << observed[i], observed[j] >> \in R
  <2>1. observed[i] \in T /\ observed[j] \in T
    <3> HIDE DEF T
    <3> QED BY <1>10
  <2>2. observed[i].base <= observed[j].base
    <3>1. j - Len(own) \in DOMAIN w /\ observed[j] = offer(j - Len(own))
      BY <1>2, <1>8, <1>11, <1>12
    <3>2. CASE observed[i] = base
      BY <1>5, <1>6, <3>1, <3>2
    <3>3. CASE i - Len(own) \in DOMAIN w /\ observed[i] = offer(i - Len(own))
      <4>1. i - Len(own) < j - Len(own)
        BY <1>8, <1>10, <1>12
      <4> QED BY <1>7, <3>1, <3>3, <4>1
    <3> QED BY <1>11, <3>2, <3>3
  <2> QED BY <2>1, <2>2
<1>13. /\ Chosen(observed, full) \in Seq(T)
       /\ ToSet(Chosen(observed, full)) = ToSet(observed) \cap full
       /\ \A i, j \in 1 .. Len(Chosen(observed, full)) :
            i < j => << Chosen(observed, full)[i], Chosen(observed, full)[j] >> \in R
  <2> HIDE DEF full, R, T
  <2>1. Chosen(observed, full) \in Seq(T)
    BY ONLY <1>10, ChosenSet
  <2>2. ToSet(Chosen(observed, full)) = ToSet(observed) \cap full
    BY ONLY <1>10, ChosenSet
  <2>3. observed \in Seq(T) /\ \A i, j \in 1 .. Len(observed) : i < j => << observed[i], observed[j] >> \in R
    BY <1>10, <1>12
  <2>4. \A i, j \in 1 .. Len(Chosen(observed, full)) :
          i < j => << Chosen(observed, full)[i], Chosen(observed, full)[j] >> \in R
    BY ONLY <2>3, ChosenOrdered
  <2> QED BY <2>1, <2>2, <2>4
<1> DEFINE offers == Chosen(observed, full)
<1>14. DOMAIN offers = 1 .. Len(offers)
  <2> HIDE DEF T, full
  <2> QED BY <1>13
<1>15. ASSUME NEW k \in DOMAIN offers
       PROVE  (offers[k] = base /\ es[s].q # NoQueue) \/ \E j \in DOMAIN w : offers[k] = offer(j)
  <2>1. offers[k] \in ToSet(observed)
    <3> HIDE DEF full
    <3> QED BY <1>13 DEF ToSet
  <2>2. PICK i \in DOMAIN observed : offers[k] = observed[i]
    <3> HIDE DEF offers
    <3> QED BY <2>1 DEF ToSet
  <2>3. i \in 1 .. Len(observed)
    <3> HIDE DEF T
    <3> QED BY <1>10
  <2> QED BY <1>11, <2>2, <2>3
<1>16. ASSUME NEW j \in DOMAIN w, queue[offer(j).q].events # << >>
       PROVE  \E k \in DOMAIN offers : offers[k] = offer(j)
  <2>1. Len(own) + j \in 1 .. Len(observed) /\ observed[Len(own) + j] = offer(j)
    BY <1>2, <1>8, <1>9, <1>10
  <2>2. Len(own) + j \in DOMAIN observed
    <3> HIDE DEF T
    <3> QED BY <1>10, <2>1
  <2>3. offer(j) \in ToSet(observed)
    BY <2>1, <2>2 DEF ToSet
  <2>4. offer(j) \in full
    BY <1>16, <2>3
  <2>5. offer(j) \in ToSet(offers)
    BY <1>13, <2>3, <2>4
  <2> HIDE DEF offers
  <2> QED BY <2>5 DEF ToSet
<1>17. ASSUME NEW i \in DOMAIN offers, NEW k \in DOMAIN offers, i < k PROVE offers[i].base <= offers[k].base
  <2>1. << offers[i], offers[k] >> \in R
    <3> HIDE DEF R, full, T
    <3> QED BY <1>13, <1>14, <1>17
  <2> HIDE DEF offers
  <2> QED BY <2>1
<1> HIDE DEF offers
<1>18. Offers(s) = offers
  BY <1>4 DEF offers
<1> QED BY <1>15, <1>16, <1>17, <1>18 DEF Placed, base, offer, w

\* What s takes from the queue of a registration is numbered from where the items
\* of the registrations before it end.
TakenFrom(s, r) ==
  /\ Taken(s).reg = r
  /\ Taken(s).base =
       SumFunctionOnSet(WiredItems(s), {k \in DOMAIN prog.wired[s] :
                                          \A i \in 1 .. k : regVar[prog.wired[s][i]] # r})
  /\ Taken(s).base \in Nat

LEMMA OfferOfReg ==
  ASSUME Inv, NEW s \in Structures, AllWired(s), Offers(s) # << >>, Earliest(Offers(s)),
         NEW r \in DOMAIN regs, regs[r].valid, Taken(s).q = regs[r].q
  PROVE  TakenFrom(s, r)
<1> DEFINE w == prog.wired[s]
           offers == Offers(s)
           o == Taken(s)
           D == DOMAIN offers
           mine(j) == regVar[w[j]] = r
           n(k) == Head(queue[offers[k].q].events).n
           before == {k \in DOMAIN w : \A i \in 1 .. k : ~ mine(i)}
<1>1. w \in Seq(RegVar)
  BY ProgramFacts DEF Inv, Types
<1>2. DOMAIN w = 1 .. Len(w) /\ Len(w) \in Nat
  BY <1>1
<1>3. \A j \in DOMAIN w : regVar[w[j]] \in DOMAIN regs /\ regs[regVar[w[j]]].valid
  BY DEF AllWired
<1>4. ItemsCounted(s) /\ Placed(s, offers) /\ Offering(s, offers)
  BY ItemsBeforeFacts, OffersPlaced, OffersFacts
<1>5. \A j \in DOMAIN w : /\ WiredOffer(s, j).q = regs[regVar[w[j]]].q /\ WiredOffer(s, j).reg = regVar[w[j]]
                          /\ WiredOffer(s, j).base = ItemsBefore(s, j - 1)
  BY DEF WiredOffer
<1>6. OwnOffer(s).q = es[s].q
  BY DEF OwnOffer
<1>7. PICK T : offers \in Seq(T)
  BY OffersFacts
<1>8. D \subseteq Nat
  BY <1>7
<1>9. o = Pending(offers) /\ o.q = regs[r].q
  BY DEF Taken
<1> HIDE DEF o, offers
<1>10. PICK k \in D : o = offers[k] /\ \A i \in D : i < k => n(i) # n(k)
  BY <1>9, Zenon DEF Earliest, offers
<1>11. PICK j \in DOMAIN w : offers[k] = WiredOffer(s, j)
  <2>1. es[s].q # regs[r].q
    BY DEF Inv, Owners, Static, OwnQueues
  <2>2. offers[k].q = regs[r].q
    BY <1>9, <1>10
  <2> QED BY <1>4, <1>6, <2>1, <2>2 DEF Placed
<1>12. mine(j)
  <2>1. regs[regVar[w[j]]].q = regs[r].q
    BY <1>5, <1>9, <1>10, <1>11
  <2> QED BY <1>3, <2>1 DEF Inv, Owners, OwnQueues
<1> DEFINE J == {i \in DOMAIN w : mine(i)}
<1>13. PICK K \in J : \A i \in J : K <= i
  <2>1. J \in SUBSET Nat /\ J # {}
    BY <1>2, <1>12
  <2> HIDE DEF J
  <2> QED BY <2>1, LeastExists
<1>14. K \in DOMAIN w /\ mine(K) /\ K <= j
  BY <1>12, <1>13
<1>15. \A i \in DOMAIN w : i < K => ~ mine(i)
  BY <1>2, <1>13
<1>16. before = 1 .. K - 1
  <2>1. \A x \in DOMAIN w : x <= K - 1 => x \in before
    BY <1>2, <1>14, <1>15
  <2>2. \A x \in before : x <= K - 1
    BY <1>2, <1>14
  <2> QED BY <1>2, <1>14, <2>1, <2>2
<1> HIDE DEF J, w, mine
<1>17. offers[k].base = ItemsBefore(s, K - 1)
  <2>1. WiredOffer(s, K).q = regs[r].q
    BY <1>5, <1>14 DEF mine
  <2>2. queue[WiredOffer(s, K).q].events # << >>
    BY <1>4, <1>9, <1>10, <2>1 DEF Offering
  <2>3. PICK i \in D : offers[i] = WiredOffer(s, K)
    BY <1>4, <1>14, <2>2 DEF Placed, w
  <2>4. n(i) = n(k)
    BY <1>9, <1>10, <2>1, <2>3
  <2>5. ~ (i < k)
    BY <1>10, <2>4
  <2>6. offers[i].base = ItemsBefore(s, K - 1) /\ offers[k].base = ItemsBefore(s, j - 1)
    BY <1>5, <1>11, <1>14, <2>3
  <2>7. /\ ItemsBefore(s, K - 1) \in Nat /\ ItemsBefore(s, j - 1) \in Nat
        /\ ItemsBefore(s, K - 1) <= ItemsBefore(s, j - 1)
    <3>1. K - 1 \in 0 .. Len(w) /\ j - 1 \in 0 .. Len(w) /\ K - 1 <= j - 1
      BY <1>2, <1>14
    <3> QED BY <1>4, <3>1 DEF ItemsCounted, w
  <2>8. CASE i = k
    BY <2>6, <2>8
  <2>9. CASE k < i
    <3>1. offers[k].base <= offers[i].base
      BY <1>4, <2>9 DEF Placed
    <3> QED BY <2>6, <2>7, <3>1
  <2> QED BY <1>8, <2>5, <2>8, <2>9
<1>18. ItemsBefore(s, K - 1) \in Nat /\ ItemsBefore(s, K - 1) = SumFunctionOnSet(WiredItems(s), 1 .. K - 1)
  <2>1. K - 1 \in 0 .. Len(w)
    BY <1>2, <1>14
  <2> QED BY <1>4, <2>1 DEF ItemsCounted, w
<1>19. o.reg = r
  BY <1>5, <1>10, <1>11, <1>12 DEF mine
<1>20. before = {x \in DOMAIN prog.wired[s] : \A i \in 1 .. x : regVar[prog.wired[s][i]] # r}
  BY DEF mine, w
<1> HIDE DEF before
<1> QED BY <1>10, <1>16, <1>17, <1>18, <1>19, <1>20 DEF TakenFrom, o

LEMMA DispatchCase ==
  ASSUME Inv, NEW s \in Structures, DOMAIN handled = Structures, Dispatch(s), handled'[s].case # 0,
         NEW r \in ToSet(WiredRegs(s)),
         Len(WiredRegs(s)) = Len(prog.wired[s]),
         queue'[regs[r].q].events # queue[regs[r].q].events,
         \A k \in DOMAIN regs[r].entries : regs[r].entries[k].kind # "cluster",
         DynamicEventMatch(regs[r].entries, handled'[s].event.ref) # 0
  PROVE  specs[s][handled'[s].case].dyn = ItemNumber(s, r, handled'[s].event.ref)
<1> DEFINE Q == DOMAIN queue
           o == Taken(s)
           event == EventOf(o.q)
           dyn == IF o.reg = 0 THEN 0 ELSE o.base + DynamicEventMatch(regs[o.reg].entries, event.ref)
           case == CaseFor(s, event, dyn)
           h == [case |-> case, event |-> event]
           matching == {k \in DOMAIN specs[s] : EventMatch(event, specs[s][k], dyn)}
<1>1. AllWired(s)
  BY WiredAll, SMTT(30)
<1>2. r \in DOMAIN regs /\ regs[r].valid
  BY <1>1, WiredMember
<1>3. regs[r].q \in Q /\ regs[r].entries \in Seq(Item) /\ r # 0
  <2> DEFINE g == regs[r]
  <2>1. g \in Reg(Q) /\ r \in Nat \ {0}
    BY <1>2 DEF Inv, Types
  <2> HIDE DEF g, Q
  <2>2. g.q \in Q /\ g.entries \in Seq(Item)
    BY <2>1 DEF Reg
  <2> QED BY <2>1, <2>2 DEF g
<1>4. handled' = [handled EXCEPT ![s] = h]
  BY DEF Dispatch, Taken
<1>5. TakesFrom(s, o.q) /\ (Offers(s) # << >> => Earliest(Offers(s)))
  BY DispatchTakes
<1>6. Offers(s) = << >> => o.q = NoQueue
  BY DEF Taken
<1> HIDE DEF o, h
<1>7. handled'[s] = h
  BY <1>4
<1>8. o.q = regs[r].q
  BY <1>3, <1>5, TakenFacts
<1>9. regs[r].q # NoQueue
  BY <1>2 DEF Inv, Owners, OwnQueues
<1>10. TakenFrom(s, r)
  BY <1>1, <1>2, <1>5, <1>6, <1>8, <1>9, OfferOfReg DEF o
<1>11. handled'[s].case = case /\ handled'[s].event = event
  BY <1>7 DEF h
<1>12. specs[s][case].dyn = dyn
  <2>1. matching \in SUBSET Nat
    <3>1. specs[s] \in Seq(Spec)
      BY DEF Inv, Types
    <3> QED BY <3>1
  <2>2. case = IF matching = {} THEN 0 ELSE CHOOSE k \in matching : \A i \in matching : k <= i
    BY DEF CaseFor
  <2>3. matching # {}
    BY <1>11, <2>2
  <2> HIDE DEF matching, case
  <2>4. case \in matching
    <3>1. \E k \in matching : \A i \in matching : k <= i
      BY <2>1, <2>3, LeastExists
    <3> QED BY <2>2, <2>3, <3>1
  <2> HIDE DEF dyn, event
  <2> QED BY <2>4 DEF matching, EventMatch
<1> HIDE DEF case
<1> DEFINE ref == event.ref
           item == CHOOSE k \in DOMAIN regs[r].entries :
                     /\ ref \in ToSet(regs[r].entries[k].refs)
                     /\ \A i \in 1 .. k - 1 : ref \notin ToSet(regs[r].entries[i].refs)
           before == {k \in DOMAIN prog.wired[s] : \A i \in 1 .. k : regVar[prog.wired[s][i]] # r}
<1>13. dyn = o.base + DynamicEventMatch(regs[r].entries, ref)
  BY <1>3, <1>10 DEF TakenFrom, o
<1>14. ItemNumber(s, r, ref) = SumFunctionOnSet(WiredItems(s), before) + item
  BY DEF ItemNumber, WiredItems
<1>15. o.base = SumFunctionOnSet(WiredItems(s), before)
  BY <1>10 DEF TakenFrom, o
<1>16. DynamicEventMatch(regs[r].entries, ref) = item
  <2> DEFINE entries == regs[r].entries
             u == ref
  <2>1. /\ entries \in Seq(Item) /\ DynamicEventMatch(entries, u) # 0
        /\ \A k \in DOMAIN entries : entries[k].kind # "cluster"
    BY <1>3, <1>11
  <2>2. item = CHOOSE k \in DOMAIN entries :
                 u \in ToSet(entries[k].refs) /\ \A i \in 1 .. k - 1 : u \notin ToSet(entries[i].refs)
    OBVIOUS
  <2> HIDE DEF entries, u, item
  <2>3. DynamicEventMatch(entries, u) = CHOOSE k \in DOMAIN entries :
          u \in ToSet(entries[k].refs) /\ \A i \in 1 .. k - 1 : u \notin ToSet(entries[i].refs)
    BY ONLY <2>1, MatchIsItem
  <2> QED BY <2>2, <2>3 DEF entries, u
<1> HIDE DEF item, before, dyn, event
<1> QED BY <1>11, <1>12, <1>13, <1>14, <1>15, <1>16

(***************************************************************************)
(* An event goes to the case made for the item that registered it, for all *)
(* programs: what DynamicEventMatch and GetPendingEventInfo count from the *)
(* registrations they find agrees with the numbering of the items of all   *)
(* the registrations wired to a structure, where those are all valid       *)
(* (WaitForEventsAndDispatch in Events.cpp).                               *)
(***************************************************************************)
THEOREM EventsToTheirCases == EventsSpec => RightCase
<1>1. ASSUME EventsInv, [EventsNext]_eventVars
      PROVE  [\A s \in Structures : DispatchedBy(s) /\ handled'[s].case # 0 =>
                \A r \in ToSet(WiredRegs(s)) :
                  ( /\ Len(WiredRegs(s)) = Len(prog.wired[s])
                    /\ queue'[regs[r].q].events # queue[regs[r].q].events
                    /\ \A k \in DOMAIN regs[r].entries : regs[r].entries[k].kind # "cluster"
                    /\ DynamicEventMatch(regs[r].entries, handled'[s].event.ref) # 0 )
                  => specs[s][handled'[s].case].dyn = ItemNumber(s, r, handled'[s].event.ref)]_eventVars
  <2> SUFFICES ASSUME NEW s \in Structures, DispatchedBy(s), handled'[s].case # 0,
                      NEW r \in ToSet(WiredRegs(s)),
                      Len(WiredRegs(s)) = Len(prog.wired[s]),
                      queue'[regs[r].q].events # queue[regs[r].q].events,
                      \A k \in DOMAIN regs[r].entries : regs[r].entries[k].kind # "cluster",
                      DynamicEventMatch(regs[r].entries, handled'[s].event.ref) # 0
               PROVE  specs[s][handled'[s].case].dyn = ItemNumber(s, r, handled'[s].event.ref)
    OBVIOUS
  <2>1. Inv /\ DOMAIN handled = Structures
    BY <1>1 DEF EventsInv
  <2>2. Dispatch(s)
    BY <1>1, CountsDispatch
  <2> QED BY <2>1, <2>2, DispatchCase
<1> QED BY <1>1, EventsInvariance, PTL DEF EventsSpec, RightCase
=============================================================================
