------------------------ MODULE ClumpSchedulerProofs ------------------------
(***************************************************************************)
(* Proofs about ClumpScheduler, for every set of clumps and every family   *)
(* of well-formed programs.                                                *)
(***************************************************************************)
EXTENDS ClumpScheduler, ListProofs

-----------------------------------------------------------------------------
(* Placement: OnePlace, place by place.  Who is in the run queue, linked on *)
(* a waiting list, suspended in a call, on the processor or out of play is  *)
(* active and nowhere else, and every active clump is somewhere.  It is     *)
(* stated of a configuration, so that a handler is a composition of moves.  *)

Somewhere(c, cl, wt, rq, run, out) ==
  \/ c \in Elements(rq)
  \/ \E d \in Clump : c \in Elements(wt[d])
  \/ \E d \in Clump : cl[d] = c
  \/ run = c
  \/ c \in out

Placement(sc, cl, wt, rq, run, out) ==
  /\ IsInjective(rq)
  /\ \A d \in Clump : IsInjective(wt[d])
  /\ \A d, e \in Clump : d # e =>
       /\ Elements(wt[d]) \cap Elements(wt[e]) = {}
       /\ cl[d] = cl[e] => cl[d] = NoClump
  /\ \A c \in Elements(rq) :
       /\ sc[c] = 0
       /\ c # run
       /\ c \notin out
       /\ \A d \in Clump : c \notin Elements(wt[d]) /\ cl[d] # c
  /\ \A d \in Clump : \A c \in Elements(wt[d]) :
       /\ sc[c] = 0
       /\ c # run
       /\ c \notin out
       /\ \A e \in Clump : cl[e] # c
  /\ \A d \in Clump : cl[d] # NoClump =>
       sc[cl[d]] = 0 /\ cl[d] # run /\ cl[d] \notin out
  /\ run # NoClump => sc[run] = 0 /\ run \notin out
  /\ \A c \in out : sc[c] = 0
  /\ \A c \in Clump : sc[c] = 0 => Somewhere(c, cl, wt, rq, run, out)

Configuration(sc, cl, wt, rq, run, out) ==
  /\ sc \in [Clump -> Nat]
  /\ cl \in [Clump -> Clump \cup {NoClump}]
  /\ wt \in [Clump -> Seq(Clump)]
  /\ rq \in Seq(Clump)
  /\ run \in Clump \cup {NoClump}
  /\ out \subseteq Clump
  /\ Placement(sc, cl, wt, rq, run, out)

\* A clump that gets its last trigger joins the run queue.
LEMMA Enqueued ==
  ASSUME NEW sc, NEW cl, NEW wt, NEW rq, NEW run, NEW out,
         Configuration(sc, cl, wt, rq, run, out),
         NEW c \in Clump, sc[c] # 0,
         NEW sc2 \in [Clump -> Nat], sc2[c] = 0,
         \A d \in Clump \ {c} : sc2[d] = sc[d]
  PROVE  Configuration(sc2, cl, wt, Append(rq, c), run, out)
<1> USE ClumpAssumption
<1>1. c \notin Elements(rq)
  BY DEF Configuration, Placement
<1>2. /\ Append(rq, c) \in Seq(Clump) /\ IsInjective(Append(rq, c))
      /\ Elements(Append(rq, c)) = Elements(rq) \cup {c}
  BY <1>1, AppendElements DEF Configuration, Placement
<1>3. /\ c # run /\ c \notin out
      /\ \A d \in Clump : c \notin Elements(wt[d]) /\ cl[d] # c
  BY DEF Configuration, Placement
<1>4. \A d \in Clump : Elements(wt[d]) \subseteq Clump
  BY ElementsType DEF Configuration
<1>5. Elements(rq) \subseteq Clump
  BY ElementsType DEF Configuration
<1>6. \A d \in Clump : sc2[d] = 0 => Somewhere(d, cl, wt, Append(rq, c), run, out)
  BY <1>2 DEF Configuration, Placement, Somewhere
<1>7. Placement(sc2, cl, wt, Append(rq, c), run, out)
  BY <1>1, <1>2, <1>3, <1>4, <1>5, <1>6 DEF Configuration, Placement
<1> QED BY <1>2, <1>7 DEF Configuration

\* A clump that still lacks triggers stays where it is, which is nowhere.
LEMMA CountedDown ==
  ASSUME NEW sc, NEW cl, NEW wt, NEW rq, NEW run, NEW out,
         Configuration(sc, cl, wt, rq, run, out),
         NEW c \in Clump, sc[c] # 0,
         NEW sc2 \in [Clump -> Nat], sc2[c] # 0,
         \A d \in Clump \ {c} : sc2[d] = sc[d]
  PROVE  Configuration(sc2, cl, wt, rq, run, out)
<1> USE ClumpAssumption
<1>1. \A d \in Clump : Elements(wt[d]) \subseteq Clump
  BY ElementsType DEF Configuration
<1>2. Elements(rq) \subseteq Clump
  BY ElementsType DEF Configuration
<1>3. \A d \in Clump : sc2[d] = 0 => Somewhere(d, cl, wt, rq, run, out)
  BY DEF Configuration, Placement
<1>4. Placement(sc2, cl, wt, rq, run, out)
  BY <1>1, <1>2, <1>3 DEF Configuration, Placement
<1> QED BY <1>4 DEF Configuration

\* Dequeuing splits the queue into the clump that runs and the rest.
LEMMA Dequeued ==
  ASSUME NEW rq \in Seq(Clump), IsInjective(rq), DequeueFrom(rq)
  PROVE  /\ runQueue' \in Seq(Clump) /\ IsInjective(runQueue')
         /\ running' \in Clump \cup {NoClump}
         /\ \A c : c \in Elements(runQueue') => c \in Elements(rq) /\ c # running'
         /\ running' # NoClump => running' \in Elements(rq)
         /\ \A c : c \in Elements(rq) => c \in Elements(runQueue') \/ c = running'
<1> USE ClumpAssumption
<1>1. CASE rq = << >>
  BY <1>1, EmptyElements DEF DequeueFrom
<1>2. CASE rq # << >>
  <2>1. running' = Head(rq) /\ runQueue' = Tail(rq)
    BY <1>2 DEF DequeueFrom
  <2> QED BY <1>2, <2>1, HeadTailElements
<1> QED BY <1>1, <1>2

\* With the processor free, the next ready clump takes it.
LEMMA Dispatched ==
  ASSUME NEW sc, NEW cl, NEW wt, NEW rq, NEW out,
         Configuration(sc, cl, wt, rq, NoClump, out),
         DequeueFrom(rq)
  PROVE  Configuration(sc, cl, wt, runQueue', running', out)
<1> USE ClumpAssumption
<1>1. rq \in Seq(Clump) /\ IsInjective(rq)
  BY DEF Configuration, Placement
<1>2. /\ runQueue' \in Seq(Clump) /\ IsInjective(runQueue')
      /\ running' \in Clump \cup {NoClump}
      /\ \A c : c \in Elements(runQueue') => c \in Elements(rq) /\ c # running'
      /\ running' # NoClump => running' \in Elements(rq)
      /\ \A c : c \in Elements(rq) => c \in Elements(runQueue') \/ c = running'
  BY <1>1, Dequeued
<1>3. \A d \in Clump : sc[d] = 0 => Somewhere(d, cl, wt, runQueue', running', out)
  BY <1>2 DEF Configuration, Placement, Somewhere
<1>4. /\ \A d \in Clump : \A c \in Elements(wt[d]) : c # running'
      /\ \A d \in Clump : cl[d] # NoClump => cl[d] # running'
  BY <1>2 DEF Configuration, Placement
<1>5. Placement(sc, cl, wt, runQueue', running', out)
  BY <1>2, <1>3, <1>4 DEF Configuration, Placement
<1> QED BY <1>2, <1>5 DEF Configuration

\* The running clump links itself on a waiting list.
LEMMA Linked ==
  ASSUME NEW sc, NEW cl, NEW wt, NEW rq, NEW run \in Clump, NEW out,
         Configuration(sc, cl, wt, rq, run, out),
         NEW d \in Clump, NEW list,
         list = Append(wt[d], run) \/ list = << run >> \o wt[d]
  PROVE  Configuration(sc, cl, [wt EXCEPT ![d] = list], rq, NoClump, out)
<1> USE ClumpAssumption
<1> DEFINE wt2 == [wt EXCEPT ![d] = list]
<1>1. wt[d] \in Seq(Clump) /\ IsInjective(wt[d]) /\ run \notin Elements(wt[d])
  BY DEF Configuration, Placement
<1>2. list \in Seq(Clump) /\ IsInjective(list) /\ Elements(list) = Elements(wt[d]) \cup {run}
  <2>1. /\ << run >> \in Seq(Clump) /\ IsInjective(<< run >>)
        /\ Elements(<< run >>) = {run}
    BY DEF Elements, IsInjective
  <2>2. CASE list = Append(wt[d], run)
    BY <1>1, <2>2, AppendElements
  <2>3. CASE list = << run >> \o wt[d]
    <3> DEFINE front == << run >>
    <3>1. front \in Seq(Clump) /\ IsInjective(front) /\ Elements(front) = {run}
      BY <2>1
    <3>2. list = front \o wt[d]
      BY <2>3
    <3> HIDE DEF front
    <3>3. Elements(front) \cap Elements(wt[d]) = {}
      BY <1>1, <3>1
    <3> QED BY <1>1, <3>1, <3>2, <3>3, ConcatElements
  <2> QED BY <2>2, <2>3
<1>3. wt2 \in [Clump -> Seq(Clump)] /\ wt2[d] = list /\ \A e \in Clump \ {d} : wt2[e] = wt[e]
  BY <1>2 DEF Configuration
<1> HIDE DEF wt2
<1>4. \A c \in Clump : sc[c] = 0 => Somewhere(c, cl, wt2, rq, NoClump, out)
  BY <1>2, <1>3 DEF Configuration, Placement, Somewhere
<1>5. /\ run \notin Elements(rq) /\ run \notin out /\ sc[run] = 0
      /\ \A e \in Clump : run \notin Elements(wt[e]) /\ cl[e] # run
  BY DEF Configuration, Placement
<1>6. NoClump \notin Elements(rq) /\ \A e \in Clump : NoClump \notin Elements(wt2[e])
  BY <1>3, ElementsType DEF Configuration
<1>7. ASSUME NEW e \in Clump, NEW f \in Clump, e # f
      PROVE  Elements(wt2[e]) \cap Elements(wt2[f]) = {}
  <2>1. Elements(wt[e]) \cap Elements(wt[f]) = {}
    BY <1>7 DEF Configuration, Placement
  <2>2. Elements(wt2[e]) \subseteq Elements(wt[e]) \cup (IF e = d THEN {run} ELSE {})
    BY <1>2, <1>3
  <2>3. Elements(wt2[f]) \subseteq Elements(wt[f]) \cup (IF f = d THEN {run} ELSE {})
    BY <1>2, <1>3
  <2> QED BY <1>5, <1>7, <2>1, <2>2, <2>3
<1>8. ASSUME NEW e \in Clump, NEW c \in Elements(wt2[e])
      PROVE  /\ sc[c] = 0 /\ c \notin out /\ c \notin Elements(rq)
             /\ \A f \in Clump : cl[f] # c
  <2>1. c \in Elements(wt[e]) \/ c = run
    BY <1>2, <1>3, <1>8
  <2> QED BY <1>5, <2>1 DEF Configuration, Placement
<1>9. \A e \in Clump : IsInjective(wt2[e])
  BY <1>2, <1>3 DEF Configuration, Placement
<1>10. Placement(sc, cl, wt2, rq, NoClump, out)
  <2>1. /\ IsInjective(rq)
        /\ \A e, f \in Clump : e # f => (cl[e] = cl[f] => cl[e] = NoClump)
        /\ \A c \in Elements(rq) : sc[c] = 0 /\ c \notin out /\ \A e \in Clump : cl[e] # c
        /\ \A e \in Clump : cl[e] # NoClump => sc[cl[e]] = 0 /\ cl[e] \notin out
        /\ \A c \in out : sc[c] = 0
    BY DEF Configuration, Placement
  <2>2. /\ \A c \in Elements(rq) : c # NoClump /\ \A e \in Clump : c \notin Elements(wt2[e])
        /\ \A e \in Clump : \A c \in Elements(wt2[e]) : c # NoClump
    BY <1>6, <1>8
  <2> QED BY <1>4, <1>7, <1>8, <1>9, <2>1, <2>2 DEF Placement
<1> QED BY <1>3, <1>10 DEF Configuration, wt2

\* The running clump becomes the caller of a clump that has none.
LEMMA Called ==
  ASSUME NEW sc, NEW cl, NEW wt, NEW rq, NEW run \in Clump, NEW out,
         Configuration(sc, cl, wt, rq, run, out),
         NEW d \in Clump, cl[d] = NoClump
  PROVE  Configuration(sc, [cl EXCEPT ![d] = run], wt, rq, NoClump, out)
<1> USE ClumpAssumption
<1> DEFINE cl2 == [cl EXCEPT ![d] = run]
<1>1. /\ cl2 \in [Clump -> Clump \cup {NoClump}] /\ cl2[d] = run
      /\ \A e \in Clump \ {d} : cl2[e] = cl[e]
  BY DEF Configuration
<1> HIDE DEF cl2
<1>2. /\ run \notin Elements(rq) /\ run \notin out /\ sc[run] = 0
      /\ \A e \in Clump : run \notin Elements(wt[e]) /\ cl[e] # run
  BY DEF Configuration, Placement
<1>3. NoClump \notin Elements(rq) /\ \A e \in Clump : NoClump \notin Elements(wt[e])
  BY ElementsType DEF Configuration
<1>4. ASSUME NEW c \in Clump, sc[c] = 0
      PROVE  Somewhere(c, cl2, wt, rq, NoClump, out)
  <2>1. Somewhere(c, cl, wt, rq, run, out)
    BY <1>4 DEF Configuration, Placement
  <2>2. \A e \in Clump : cl[e] = c => cl2[e] = c
    BY <1>1
  <2> QED BY <1>1, <2>1, <2>2 DEF Somewhere
<1>5. ASSUME NEW e \in Clump, NEW f \in Clump, e # f, cl2[e] = cl2[f]
      PROVE  cl2[e] = NoClump
  <2>1. cl[e] = cl[f] => cl[e] = NoClump
    BY <1>5 DEF Configuration, Placement
  <2> QED BY <1>1, <1>2, <1>5, <2>1
<1>6. ASSUME NEW e \in Clump, cl2[e] # NoClump
      PROVE  sc[cl2[e]] = 0 /\ cl2[e] \notin out
  <2>1. cl[e] # NoClump => sc[cl[e]] = 0 /\ cl[e] \notin out
    BY DEF Configuration, Placement
  <2> QED BY <1>1, <1>2, <1>6, <2>1
<1>7. /\ \A c \in Elements(rq) : \A e \in Clump : cl2[e] # c
      /\ \A e \in Clump : \A c \in Elements(wt[e]) : \A f \in Clump : cl2[f] # c
  BY <1>1, <1>2 DEF Configuration, Placement
<1>8. Placement(sc, cl2, wt, rq, NoClump, out)
  BY <1>3, <1>4, <1>5, <1>6, <1>7 DEF Configuration, Placement
<1> QED BY <1>1, <1>8 DEF Configuration, cl2

\* The running clump leaves the processor for good, or for a place outside
\* the scheduler's lists.
LEMMA TakenOut ==
  ASSUME NEW sc, NEW cl, NEW wt, NEW rq, NEW run \in Clump, NEW out,
         Configuration(sc, cl, wt, rq, run, out)
  PROVE  Configuration(sc, cl, wt, rq, NoClump, out \cup {run})
<1> USE ClumpAssumption
<1>1. /\ run \notin Elements(rq) /\ sc[run] = 0
      /\ \A e \in Clump : run \notin Elements(wt[e]) /\ cl[e] # run
  BY DEF Configuration, Placement
<1>2. NoClump \notin Elements(rq) /\ \A e \in Clump : NoClump \notin Elements(wt[e])
  BY ElementsType DEF Configuration
<1> DEFINE away == out \cup {run}
<1>3. /\ away \subseteq Clump
      /\ \A c : c \in away <=> c \in out \/ c = run
  BY DEF Configuration
<1> HIDE DEF away
<1>4. \A c \in Clump : sc[c] = 0 => Somewhere(c, cl, wt, rq, NoClump, away)
  BY <1>3 DEF Configuration, Placement, Somewhere
<1>5. Placement(sc, cl, wt, rq, NoClump, away)
  BY <1>1, <1>2, <1>3, <1>4 DEF Configuration, Placement
<1> QED BY <1>3, <1>5 DEF Configuration, away

\* Clumps that are out of play come back, behind the ready ones.
LEMMA Awoken ==
  ASSUME NEW sc, NEW cl, NEW wt, NEW rq, NEW run, NEW out,
         Configuration(sc, cl, wt, rq, run, out),
         NEW list \in Seq(Clump), IsInjective(list), Elements(list) \subseteq out
  PROVE  Configuration(sc, cl, wt, rq \o list, run, out \ Elements(list))
<1> USE ClumpAssumption
<1> DEFINE rest == out \ Elements(list)
<1>1. rest \subseteq Clump /\ \A c : c \in rest <=> c \in out /\ c \notin Elements(list)
  BY DEF Configuration
<1> HIDE DEF rest
<1>2. /\ rq \in Seq(Clump) /\ IsInjective(rq)
      /\ \A c \in Elements(list) : c \notin Elements(rq)
  BY DEF Configuration, Placement
<1>3. /\ rq \o list \in Seq(Clump) /\ IsInjective(rq \o list)
      /\ Elements(rq \o list) = Elements(rq) \cup Elements(list)
  BY <1>2, ConcatElements
<1>4. ASSUME NEW c \in Clump, sc[c] = 0
      PROVE  Somewhere(c, cl, wt, rq \o list, run, rest)
  <2>1. Somewhere(c, cl, wt, rq, run, out)
    BY <1>4 DEF Configuration, Placement
  <2> QED BY <1>1, <1>3, <2>1 DEF Somewhere
<1>5. /\ \A c \in Elements(list) : c \in Clump /\ sc[c] = 0 /\ c # run
      /\ \A c \in Elements(list) : \A d \in Clump : c \notin Elements(wt[d]) /\ cl[d] # c
  BY DEF Configuration, Placement
<1>6. Placement(sc, cl, wt, rq \o list, run, rest)
  BY <1>1, <1>3, <1>4, <1>5 DEF Configuration, Placement
<1> QED BY <1>1, <1>3, <1>6 DEF Configuration, rest

\* The running clump goes behind the ready ones.
LEMMA PutBack ==
  ASSUME NEW sc, NEW cl, NEW wt, NEW rq, NEW run \in Clump, NEW out,
         Configuration(sc, cl, wt, rq, run, out)
  PROVE  Configuration(sc, cl, wt, Append(rq, run), NoClump, out)
<1> USE ClumpAssumption
<1>1. /\ run \notin Elements(rq) /\ run \notin out /\ sc[run] = 0
      /\ \A e \in Clump : run \notin Elements(wt[e]) /\ cl[e] # run
  BY DEF Configuration, Placement
<1>2. /\ Append(rq, run) \in Seq(Clump) /\ IsInjective(Append(rq, run))
      /\ Elements(Append(rq, run)) = Elements(rq) \cup {run}
  BY <1>1, AppendElements DEF Configuration, Placement
<1>3. NoClump \notin Elements(rq) /\ \A e \in Clump : NoClump \notin Elements(wt[e])
  BY ElementsType DEF Configuration
<1>4. \A c \in Clump : sc[c] = 0 => Somewhere(c, cl, wt, Append(rq, run), NoClump, out)
  BY <1>2 DEF Configuration, Placement, Somewhere
<1>5. Placement(sc, cl, wt, Append(rq, run), NoClump, out)
  BY <1>1, <1>2, <1>3, <1>4 DEF Configuration, Placement
<1> QED BY <1>2, <1>5 DEF Configuration

\* A caller gets its callee's return and joins the run queue.
LEMMA Returned ==
  ASSUME NEW sc, NEW cl, NEW wt, NEW rq, NEW run, NEW out,
         Configuration(sc, cl, wt, rq, run, out),
         NEW d \in Clump, cl[d] # NoClump
  PROVE  Configuration(sc, [cl EXCEPT ![d] = NoClump], wt, Append(rq, cl[d]), run, out)
<1> USE ClumpAssumption
<1> DEFINE cl2 == [cl EXCEPT ![d] = NoClump]
           back == cl[d]
<1>1. /\ cl2 \in [Clump -> Clump \cup {NoClump}] /\ cl2[d] = NoClump
      /\ \A e \in Clump \ {d} : cl2[e] = cl[e]
      /\ back \in Clump /\ back = cl[d]
  BY DEF Configuration
<1> HIDE DEF cl2, back
<1>2. /\ back \notin Elements(rq) /\ back \notin out /\ sc[back] = 0 /\ back # run
      /\ \A e \in Clump : back \notin Elements(wt[e])
      /\ \A e \in Clump : cl2[e] # back
  <2>1. /\ back \notin Elements(rq) /\ back \notin out /\ sc[back] = 0 /\ back # run
        /\ \A e \in Clump : back \notin Elements(wt[e])
    BY <1>1 DEF Configuration, Placement
  <2>2. ASSUME NEW e \in Clump PROVE cl2[e] # back
    <3>1. e # d => cl[e] # cl[d] \/ cl[e] = NoClump
      BY DEF Configuration, Placement
    <3> QED BY <1>1, <3>1
  <2> QED BY <2>1, <2>2
<1>3. /\ Append(rq, back) \in Seq(Clump) /\ IsInjective(Append(rq, back))
      /\ Elements(Append(rq, back)) = Elements(rq) \cup {back}
  BY <1>1, <1>2, AppendElements DEF Configuration, Placement
<1>4. ASSUME NEW c \in Clump, sc[c] = 0
      PROVE  Somewhere(c, cl2, wt, Append(rq, back), run, out)
  <2>1. Somewhere(c, cl, wt, rq, run, out)
    BY <1>4 DEF Configuration, Placement
  <2>2. \A e \in Clump : cl[e] = c => cl2[e] = c \/ c = back
    BY <1>1
  <2> QED BY <1>3, <2>1, <2>2 DEF Somewhere
<1>5. ASSUME NEW e \in Clump, NEW f \in Clump, e # f, cl2[e] = cl2[f]
      PROVE  cl2[e] = NoClump
  <2>1. cl[e] = cl[f] => cl[e] = NoClump
    BY <1>5 DEF Configuration, Placement
  <2> QED BY <1>1, <1>5, <2>1
<1>6. ASSUME NEW e \in Clump, cl2[e] # NoClump
      PROVE  sc[cl2[e]] = 0 /\ cl2[e] # run /\ cl2[e] \notin out
  <2>1. cl[e] # NoClump => sc[cl[e]] = 0 /\ cl[e] # run /\ cl[e] \notin out
    BY DEF Configuration, Placement
  <2> QED BY <1>1, <1>6, <2>1
<1>7. /\ \A c \in Elements(rq) : \A e \in Clump : cl2[e] # c
      /\ \A e \in Clump : \A c \in Elements(wt[e]) : \A f \in Clump : cl2[f] # c
  <2>1. NoClump \notin Elements(rq) /\ \A e \in Clump : NoClump \notin Elements(wt[e])
    BY ElementsType DEF Configuration
  <2> QED BY <1>1, <2>1, SMTT(20) DEF Configuration, Placement
<1>8. Placement(sc, cl2, wt, Append(rq, back), run, out)
  BY <1>2, <1>3, <1>4, <1>5, <1>6, <1>7 DEF Configuration, Placement
<1> QED BY <1>1, <1>3, <1>8 DEF Configuration, cl2

\* A whole waiting list joins the run queue, in its order.
LEMMA Released ==
  ASSUME NEW sc, NEW cl, NEW wt, NEW rq, NEW run, NEW out,
         Configuration(sc, cl, wt, rq, run, out),
         NEW d \in Clump
  PROVE  Configuration(sc, cl, [wt EXCEPT ![d] = << >>], rq \o wt[d], run, out)
<1> USE ClumpAssumption
<1> DEFINE wt2 == [wt EXCEPT ![d] = << >>]
           list == wt[d]
<1>1. /\ wt2 \in [Clump -> Seq(Clump)] /\ wt2[d] = << >>
      /\ \A e \in Clump \ {d} : wt2[e] = wt[e]
      /\ list \in Seq(Clump) /\ list = wt[d] /\ IsInjective(list)
  BY DEF Configuration, Placement
<1> HIDE DEF wt2, list
<1>2. Elements(list) \cap Elements(rq) = {}
  BY <1>1 DEF Configuration, Placement
<1>3. /\ rq \o list \in Seq(Clump) /\ IsInjective(rq \o list)
      /\ Elements(rq \o list) = Elements(rq) \cup Elements(list)
  BY <1>1, <1>2, ConcatElements DEF Configuration, Placement
<1>4. \A c \in Clump : sc[c] = 0 => Somewhere(c, cl, wt2, rq \o list, run, out)
  BY <1>1, <1>3 DEF Configuration, Placement, Somewhere
<1>5. \A e \in Clump : \A c \in Elements(wt2[e]) : e # d /\ c \in Elements(wt[e])
  BY <1>1, EmptyElements
<1>6. \A e \in Clump : IsInjective(wt2[e])
  BY <1>1, EmptyElements DEF Configuration, Placement
<1>7. \A e \in Clump : \A c \in Elements(wt2[e]) : c \notin Elements(rq \o list)
  BY <1>1, <1>3, <1>5 DEF Configuration, Placement
<1>8. \A e, f \in Clump : e # f => Elements(wt2[e]) \cap Elements(wt2[f]) = {}
  <2>1. \A e, f \in Clump : e # f => Elements(wt[e]) \cap Elements(wt[f]) = {}
    BY DEF Configuration, Placement
  <2>2. \A e \in Clump : Elements(wt2[e]) \subseteq Elements(wt[e])
    BY <1>5
  <2> QED BY <2>1, <2>2
<1>9. \A c \in Elements(rq \o list) :
         sc[c] = 0 /\ c # run /\ c \notin out /\ \A e \in Clump : cl[e] # c
  BY <1>1, <1>3 DEF Configuration, Placement
<1>10. Placement(sc, cl, wt2, rq \o list, run, out)
  BY <1>3, <1>4, <1>5, <1>6, <1>7, <1>8, <1>9 DEF Configuration, Placement
<1> QED BY <1>1, <1>3, <1>10 DEF Configuration, wt2

\* The running clump is done: re-armed, it is nowhere.
LEMMA Retired ==
  ASSUME NEW sc, NEW cl, NEW wt, NEW rq, NEW run \in Clump, NEW out,
         Configuration(sc, cl, wt, rq, run, out),
         NEW n \in Nat \ {0}
  PROVE  Configuration([sc EXCEPT ![run] = n], cl, wt, rq, NoClump, out)
<1> USE ClumpAssumption
<1> DEFINE sc2 == [sc EXCEPT ![run] = n]
<1>1. /\ sc2 \in [Clump -> Nat] /\ sc2[run] # 0
      /\ \A e \in Clump \ {run} : sc2[e] = sc[e]
  BY DEF Configuration
<1> HIDE DEF sc2
<1>2. /\ run \notin Elements(rq) /\ run \notin out
      /\ \A e \in Clump : run \notin Elements(wt[e]) /\ cl[e] # run
  BY DEF Configuration, Placement
<1>3. /\ NoClump \notin Elements(rq) /\ Elements(rq) \subseteq Clump
      /\ \A e \in Clump : NoClump \notin Elements(wt[e]) /\ Elements(wt[e]) \subseteq Clump
  BY ElementsType DEF Configuration
<1>4. \A c \in Clump : sc2[c] = 0 => Somewhere(c, cl, wt, rq, NoClump, out)
  BY <1>1 DEF Configuration, Placement, Somewhere
<1>5. /\ \A c \in Elements(rq) : sc2[c] = 0
      /\ \A d \in Clump : \A c \in Elements(wt[d]) : sc2[c] = 0
      /\ \A d \in Clump : cl[d] # NoClump => sc2[cl[d]] = 0
      /\ \A c \in out : sc2[c] = 0
  BY <1>1, <1>2, <1>3 DEF Configuration, Placement
<1>6. Placement(sc2, cl, wt, rq, NoClump, out)
  BY <1>3, <1>4, <1>5 DEF Configuration, Placement
<1> QED BY <1>1, <1>6 DEF Configuration, sc2

-----------------------------------------------------------------------------
(* The inductive invariant.                                                 *)

Now == Configuration(shortCount, caller, waiting, runQueue, running, stopped)
HostIsIdle == phase = "host" => running = NoClump
IInv == SchedTypeOK /\ Now /\ CallersAtTheirCall /\ HostIsIdle

\* Placement is OnePlace: the list properties are LinkedOnce, and the places
\* exclude each other.
LEMMA PlacementIsOnePlace ==
  ASSUME Now
  PROVE  OnePlace
<1> USE ClumpAssumption
<1>1. LinkedOnce
  BY DEF Now, Configuration, Placement, LinkedOnce
<1>2. ASSUME NEW c \in Clump
      PROVE  shortCount[c] = 0 <=> \E place \in Whereabouts : IsAt(place, c)
  <2>1. shortCount[c] = 0 <=> Somewhere(c, caller, waiting, runQueue, running, stopped)
    <3>1. shortCount[c] = 0 => Somewhere(c, caller, waiting, runQueue, running, stopped)
      BY DEF Now, Configuration, Placement
    <3>2. ASSUME Somewhere(c, caller, waiting, runQueue, running, stopped)
          PROVE  shortCount[c] = 0
      <4>1. /\ c \in Elements(runQueue) => shortCount[c] = 0
            /\ \A d \in Clump : c \in Elements(waiting[d]) => shortCount[c] = 0
        BY DEF Now, Configuration, Placement
      <4>2. /\ \A d \in Clump : caller[d] = c => shortCount[c] = 0
            /\ running = c => shortCount[c] = 0
            /\ c \in stopped => shortCount[c] = 0
        BY DEF Now, Configuration, Placement
      <4> QED BY <3>2, <4>1, <4>2 DEF Somewhere
    <3> QED BY <3>1, <3>2
  <2>2. Somewhere(c, caller, waiting, runQueue, running, stopped)
          <=> \E place \in Whereabouts : IsAt(place, c)
    BY DEF Somewhere, Whereabouts, IsAt
  <2> QED BY <2>1, <2>2
<1>3. ASSUME NEW c \in Clump,
             NEW here \in Whereabouts, NEW there \in Whereabouts,
             IsAt(here, c), IsAt(there, c)
      PROVE  here = there
  <2>1. IsAt("run queue", c) =>
          /\ ~ IsAt("waiting list", c) /\ ~ IsAt("call", c)
          /\ ~ IsAt("processor", c) /\ ~ IsAt("stopped", c)
    BY DEF Now, Configuration, Placement, IsAt
  <2>2. IsAt("waiting list", c) =>
          ~ IsAt("call", c) /\ ~ IsAt("processor", c) /\ ~ IsAt("stopped", c)
    BY DEF Now, Configuration, Placement, IsAt
  <2>3. IsAt("call", c) => ~ IsAt("processor", c) /\ ~ IsAt("stopped", c)
    BY DEF Now, Configuration, Placement, IsAt
  <2>4. IsAt("processor", c) => ~ IsAt("stopped", c)
    BY DEF Now, Configuration, Placement, IsAt
  <2>5. /\ here \in {"run queue", "waiting list", "call", "processor", "stopped"}
        /\ there \in {"run queue", "waiting list", "call", "processor", "stopped"}
    BY DEF Whereabouts
  <2> HIDE DEF IsAt
  <2>6. CASE here = "run queue"
    BY <1>3, <2>1, <2>5, <2>6
  <2>7. CASE here = "waiting list"
    BY <1>3, <2>1, <2>2, <2>5, <2>7
  <2>8. CASE here = "call"
    BY <1>3, <2>1, <2>2, <2>3, <2>5, <2>8
  <2>9. CASE here = "processor"
    BY <1>3, <2>1, <2>2, <2>3, <2>4, <2>5, <2>9
  <2>10. CASE here = "stopped"
    BY <1>3, <2>1, <2>2, <2>3, <2>4, <2>5, <2>10
  <2> QED BY <2>5, <2>6, <2>7, <2>8, <2>9, <2>10
<1> QED BY <1>1, <1>2, <1>3 DEF OnePlace

\* Initially every clump is idle at its first instruction.
LEMMA InitIInv == SchedInit => IInv
<1> USE ClumpAssumption, ProgramAssumption
<1> SUFFICES ASSUME SchedInit PROVE IInv
  OBVIOUS
<1>1. SchedTypeOK
  <2>1. \A c \in Clump : 1 \in 1 .. Len(prog[c])
    BY DEF SchedInit, WellFormed
  <2> QED BY <2>1 DEF SchedInit, SchedTypeOK
<1>2. Now
  <2>1. \A c \in Clump : shortCount[c] # 0 /\ caller[c] = NoClump /\ waiting[c] = << >>
    BY DEF SchedInit
  <2>2. Placement(shortCount, caller, waiting, runQueue, running, stopped)
    BY <2>1, EmptyElements DEF SchedInit, Placement
  <2> QED BY <1>1, <2>2 DEF Now, Configuration, SchedTypeOK
<1>3. CallersAtTheirCall
  BY DEF SchedInit, CallersAtTheirCall
<1>4. HostIsIdle
  BY DEF SchedInit, HostIsIdle
<1> QED BY <1>1, <1>2, <1>3, <1>4 DEF IInv

\* What a clump finds at its program counter.
LEMMA AtInstruction ==
  ASSUME SchedTypeOK, NEW c \in Clump
  PROVE  /\ savePc[c] \in 1 .. Len(prog[c]) /\ Len(prog[c]) \in Nat
         /\ 1 \in 1 .. Len(prog[c])
         /\ Instr(c).op # "Done" => savePc[c] + 1 \in 1 .. Len(prog[c])
         /\ Instr(c).op \in ClumpOps => Instr(c).arg \in Clump
         /\ Instr(c).op \in BranchOps => Instr(c).arg \in 1 .. Len(prog[c])
<1>1. WellFormed(prog[c])
  BY ProgramAssumption DEF SchedTypeOK
<1>2. savePc[c] \in 1 .. Len(prog[c])
  BY DEF SchedTypeOK
<1>3. Len(prog[c]) \in Nat /\ 1 \in 1 .. Len(prog[c])
  BY <1>1 DEF WellFormed
<1>4. savePc[c] # Len(prog[c]) \/ Instr(c).op = "Done"
  BY <1>1 DEF WellFormed, Instr
<1>5. savePc[c] # Len(prog[c]) => savePc[c] + 1 \in 1 .. Len(prog[c])
  BY <1>2, <1>3
<1> QED BY <1>1, <1>2, <1>3, <1>4, <1>5 DEF WellFormed, Instr

-----------------------------------------------------------------------------
(* What every step preserves.                                               *)

\* A caller is not running and stands at the CallVI of its active callee.
LEMMA CallerElsewhere ==
  ASSUME IInv, NEW c \in Clump, caller[c] # NoClump
  PROVE  /\ shortCount[c] = 0
         /\ caller[c] \in Clump /\ caller[c] # running
         /\ Instr(caller[c]).op = "CallVI" /\ Instr(caller[c]).arg = c
BY DEF IInv, CallersAtTheirCall, Now, Configuration, Placement

\* A step keeps the invariant if the lists stay in order, every program counter
\* stays inside its clump and whoever is a caller afterwards has not moved.
LEMMA StepKeeps ==
  ASSUME IInv, Now', prog' = prog,
         phase' \in {"host", "burst", "ran"}, HostIsIdle',
         reply' \in {"none", "InRunQueue", "Waiting", "Finished"},
         savePc' \in [Clump -> Nat],
         \A c \in Clump : savePc'[c] \in 1 .. Len(prog[c]),
         \A c \in Clump : caller'[c] # NoClump =>
           /\ shortCount'[c] = 0
           /\ savePc'[caller'[c]] = savePc[caller'[c]]
           /\ Instr(caller'[c]).op = "CallVI" /\ Instr(caller'[c]).arg = c
  PROVE  IInv'
<1>1. SchedTypeOK'
  <2>1. savePc' \in [Clump -> Nat \ {0}]
    <3>1. \A c \in Clump : savePc'[c] \in Nat \ {0}
      <4> TAKE c \in Clump
      <4>1. Len(prog[c]) \in Nat /\ savePc'[c] \in 1 .. Len(prog[c])
        BY AtInstruction DEF IInv
      <4> QED BY <4>1
    <3> QED BY <3>1
  <2> QED BY <2>1 DEF IInv, SchedTypeOK, Now, Configuration
<1>2. CallersAtTheirCall'
  BY DEF CallersAtTheirCall, Instr
<1> QED BY <1>1, <1>2 DEF IInv

\* One trigger less to wait for, and into the run queue at zero.
LEMMA Triggering ==
  ASSUME IInv, NEW c \in Clump, MayTrigger(c)
  PROVE  /\ Configuration(Triggered(c), caller, waiting, Fired(c), running, stopped)
         /\ \A d \in Clump : shortCount[d] = 0 => Triggered(c)[d] = 0
         /\ shortCount[c] = 1 => Triggered(c)[c] = 0
<1> DEFINE sc2 == Triggered(c)
<1>1. /\ shortCount \in [Clump -> Nat] /\ shortCount[c] > 0
      /\ Configuration(shortCount, caller, waiting, runQueue, running, stopped)
  BY DEF IInv, Now, SchedTypeOK, MayTrigger
<1>2. /\ sc2 \in [Clump -> Nat] /\ sc2[c] = shortCount[c] - 1
      /\ \A d \in Clump \ {c} : sc2[d] = shortCount[d]
  BY <1>1 DEF Triggered
<1>3. \A d \in Clump : shortCount[d] = 0 => sc2[d] = 0
  BY <1>1, <1>2
<1> HIDE DEF sc2
<1>4. CASE shortCount[c] = 1
  <2>1. Configuration(sc2, caller, waiting, Append(runQueue, c), running, stopped)
    BY <1>1, <1>2, <1>4, Enqueued
  <2> QED BY <1>2, <1>3, <1>4, <2>1 DEF Fired, sc2
<1>5. CASE shortCount[c] # 1
  <2>1. sc2[c] # 0
    BY <1>1, <1>2, <1>5
  <2>2. Configuration(sc2, caller, waiting, runQueue, running, stopped)
    BY <1>1, <1>2, <2>1, CountedDown
  <2> QED BY <1>3, <1>5, <2>2 DEF Fired, sc2
<1> QED BY <1>4, <1>5

\* An instruction runs on a clump; unless it is Done it has a successor.
LEMMA Executing ==
  ASSUME IInv, NEW op, Executes(op)
  PROVE  running \in Clump /\ Instr(running).op = op
BY DEF Executes, IInv, SchedTypeOK

\* The running clump moves on to an instruction of its own code.
LEMMA OwnPc ==
  ASSUME IInv, running \in Clump, NEW to \in 1 .. Len(prog[running])
  PROVE  LET pcs == [savePc EXCEPT ![running] = to]
         IN  /\ pcs \in [Clump -> Nat]
             /\ \A c \in Clump : pcs[c] \in 1 .. Len(prog[c])
             /\ \A c \in Clump : c # running => pcs[c] = savePc[c]
BY AtInstruction DEF IInv, SchedTypeOK

\* Its next instruction, in particular.
LEMMA NextPc ==
  ASSUME IInv, running \in Clump, Instr(running).op # "Done"
  PROVE  LET pcs == [savePc EXCEPT ![running] = @ + 1]
         IN  /\ pcs \in [Clump -> Nat]
             /\ \A c \in Clump : pcs[c] \in 1 .. Len(prog[c])
             /\ \A c \in Clump : c # running => pcs[c] = savePc[c]
<1>1. savePc[running] + 1 \in 1 .. Len(prog[running])
  BY AtInstruction DEF IInv
<1>2. [savePc EXCEPT ![running] = @ + 1] = [savePc EXCEPT ![running] = savePc[running] + 1]
  OBVIOUS
<1> QED BY <1>1, <1>2, OwnPc

\* A step that makes no caller, ends no call and moves only the running clump.
LEMMA QuietStep ==
  ASSUME IInv, Now', UNCHANGED << prog, caller >>,
         phase' \in {"host", "burst", "ran"}, HostIsIdle',
         reply' \in {"none", "InRunQueue", "Waiting", "Finished"},
         \A c \in Clump : shortCount[c] = 0 => shortCount'[c] = 0,
         savePc' \in [Clump -> Nat],
         \A c \in Clump : savePc'[c] \in 1 .. Len(prog[c]),
         \A c \in Clump : c # running => savePc'[c] = savePc[c]
  PROVE  IInv'
<1>1. ASSUME NEW c \in Clump, caller'[c] # NoClump
      PROVE  /\ shortCount'[c] = 0
             /\ savePc'[caller'[c]] = savePc[caller'[c]]
             /\ Instr(caller'[c]).op = "CallVI" /\ Instr(caller'[c]).arg = c
  <2>1. caller[c] # NoClump /\ caller'[c] = caller[c]
    BY <1>1
  <2> QED BY <2>1, CallerElsewhere
<1> QED BY <1>1, StepKeeps

\* The program counters as they are.
LEMMA SamePcs ==
  ASSUME IInv
  PROVE  savePc \in [Clump -> Nat] /\ \A c \in Clump : savePc[c] \in 1 .. Len(prog[c])
BY DEF IInv, SchedTypeOK

\* The answers and phases of the loop are those of SchedTypeOK.
LEMMA LoopType ==
  ASSUME IInv
  PROVE  /\ reply \in {"none", "InRunQueue", "Waiting", "Finished"}
         /\ Configuration(shortCount, caller, waiting, runQueue, running, stopped)
         /\ shortCount \in [Clump -> Nat]
BY DEF IInv, SchedTypeOK, Now

-----------------------------------------------------------------------------
(* The actions, one by one.                                                 *)

\* Trigger: the target counts down, and joins the run queue at zero.
LEMMA TriggerStep == IInv /\ Trigger => IInv'
<1> SUFFICES ASSUME IInv, Trigger PROVE IInv'
  OBVIOUS
<1> DEFINE target == Instr(running).arg
<1>1. running \in Clump /\ Instr(running).op = "Trigger"
  BY Executing DEF Trigger
<1>2. target \in Clump
  BY <1>1, AtInstruction DEF IInv, ClumpOps
<1>3. /\ Configuration(Triggered(target), caller, waiting, Fired(target), running, stopped)
      /\ \A d \in Clump : shortCount[d] = 0 => Triggered(target)[d] = 0
  BY <1>2, Triggering DEF Trigger
<1>4. /\ shortCount' = Triggered(target) /\ runQueue' = Fired(target)
      /\ savePc' = [savePc EXCEPT ![running] = @ + 1]
      /\ UNCHANGED << prog, reply, caller, waiting, running, stopped >> /\ phase' = "ran"
  BY DEF Trigger, Continue, ReturnToLoop
<1>5. Now'
  BY <1>3, <1>4 DEF Now
<1> QED BY <1>1, <1>3, <1>4, <1>5, NextPc, LoopType, QuietStep DEF HostIsIdle

\* Wait on an active clump: the running clump joins its waiting list.
LEMMA WaitForDoneStep == IInv /\ WaitForDone => IInv'
<1> SUFFICES ASSUME IInv, WaitForDone PROVE IInv'
  OBVIOUS
<1> DEFINE target == Instr(running).arg
           waiting2 == [waiting EXCEPT ![target] = << running >> \o @]
<1>1. running \in Clump /\ Instr(running).op = "Wait"
  BY Executing DEF WaitForDone
<1>2. target \in Clump
  BY <1>1, AtInstruction DEF IInv, ClumpOps
<1>3. Configuration(shortCount, caller, waiting2, runQueue, NoClump, stopped)
  <2> DEFINE list == << running >> \o waiting[target]
  <2>1. waiting2 = [waiting EXCEPT ![target] = list]
    OBVIOUS
  <2>2. Configuration(shortCount, caller, [waiting EXCEPT ![target] = list], runQueue, NoClump, stopped)
    BY <1>1, <1>2, LoopType, Linked
  <2> QED BY <2>1, <2>2
<1>4. /\ waiting' = waiting2 /\ DequeueFrom(runQueue)
      /\ savePc' = [savePc EXCEPT ![running] = @ + 1]
      /\ UNCHANGED << prog, reply, shortCount, caller, stopped >> /\ phase' = "ran"
  BY DEF WaitForDone, Suspend, ReturnToLoop, InsertIntoWaitList
<1> HIDE DEF waiting2
<1>5. Now'
  BY <1>3, <1>4, Dispatched DEF Now
<1> QED BY <1>1, <1>4, <1>5, NextPc, LoopType, QuietStep DEF HostIsIdle

\* Wait on a finished clump moves nothing but the program counter.
LEMMA WaitIsOverStep == IInv /\ WaitIsOver => IInv'
<1> SUFFICES ASSUME IInv, WaitIsOver PROVE IInv'
  OBVIOUS
<1>1. running \in Clump /\ Instr(running).op = "Wait"
  BY Executing DEF WaitIsOver
<1>2. /\ savePc' = [savePc EXCEPT ![running] = @ + 1] /\ phase' = "ran"
      /\ UNCHANGED << prog, reply, shortCount, caller, waiting, runQueue, running, stopped >>
  BY DEF WaitIsOver, Continue, ReturnToLoop
<1>3. Now'
  BY <1>2, LoopType DEF Now
<1> QED BY <1>1, <1>2, <1>3, NextPc, LoopType, QuietStep DEF HostIsIdle

\* Stop with a false input moves nothing but the program counter.
LEMMA NoStopStep == IInv /\ NoStop => IInv'
<1> SUFFICES ASSUME IInv, NoStop PROVE IInv'
  OBVIOUS
<1>1. running \in Clump /\ Instr(running).op = "Stop"
  BY Executing DEF NoStop
<1>2. /\ savePc' = [savePc EXCEPT ![running] = @ + 1] /\ phase' = "ran"
      /\ UNCHANGED << prog, reply, shortCount, caller, waiting, runQueue, running, stopped >>
  BY DEF NoStop, Continue, ReturnToLoop
<1>3. Now'
  BY <1>2, LoopType DEF Now
<1> QED BY <1>1, <1>2, <1>3, NextPc, LoopType, QuietStep DEF HostIsIdle

\* Branch moves nothing but the program counter, inside the clump.
LEMMA BranchStep == IInv /\ Branch => IInv'
<1> SUFFICES ASSUME IInv, Branch PROVE IInv'
  OBVIOUS
<1>1. running \in Clump /\ Instr(running).op = "Branch"
  BY Executing DEF Branch
<1>2. PICK to \in {Instr(running).arg, savePc[running] + 1} :
        savePc' = [savePc EXCEPT ![running] = to]
  BY DEF Branch
<1>3. to \in 1 .. Len(prog[running])
  BY <1>1, AtInstruction DEF IInv, BranchOps
<1>4. /\ phase' = "ran"
      /\ UNCHANGED << prog, reply, shortCount, caller, waiting, runQueue, running, stopped >>
  BY DEF Branch, ReturnToLoop
<1>5. Now'
  BY <1>4, LoopType DEF Now
<1> QED BY <1>1, <1>2, <1>3, <1>4, <1>5, OwnPc, LoopType, QuietStep DEF HostIsIdle

\* CallVI on an active VI: the running clump joins its waiting list.
LEMMA CallBusyStep == IInv /\ CallBusyVI => IInv'
<1> SUFFICES ASSUME IInv, CallBusyVI PROVE IInv'
  OBVIOUS
<1> DEFINE target == Instr(running).arg
           waiting2 == [waiting EXCEPT ![target] = Append(@, running)]
<1>1. running \in Clump /\ Instr(running).op = "CallVI"
  BY Executing DEF CallBusyVI
<1>2. target \in Clump
  BY <1>1, AtInstruction DEF IInv, ClumpOps
<1>3. Configuration(shortCount, caller, waiting2, runQueue, NoClump, stopped)
  <2> DEFINE list == Append(waiting[target], running)
  <2>1. waiting2 = [waiting EXCEPT ![target] = list]
    OBVIOUS
  <2>2. Configuration(shortCount, caller, [waiting EXCEPT ![target] = list], runQueue, NoClump, stopped)
    BY <1>1, <1>2, LoopType, Linked
  <2> QED BY <2>1, <2>2
<1>4. /\ waiting' = waiting2 /\ DequeueFrom(runQueue)
      /\ UNCHANGED << prog, savePc, reply, shortCount, caller, stopped >> /\ phase' = "ran"
  BY DEF CallBusyVI, Suspend, ReturnToLoop, AppendToWaitList
<1> HIDE DEF waiting2
<1>5. Now'
  BY <1>3, <1>4, Dispatched DEF Now
<1> QED BY <1>4, <1>5, SamePcs, LoopType, QuietStep DEF HostIsIdle

\* CallVI on an idle VI: the running clump becomes its caller and stays there.
LEMMA CallIdleStep == IInv /\ CallIdleVI => IInv'
<1> SUFFICES ASSUME IInv, CallIdleVI PROVE IInv'
  OBVIOUS
<1> USE ClumpAssumption
<1> DEFINE callee == Instr(running).arg
           caller2 == [caller EXCEPT ![callee] = running]
           sc2 == Triggered(callee)
           rq2 == Fired(callee)
<1>1. running \in Clump /\ Instr(running).op = "CallVI"
  BY Executing DEF CallIdleVI
<1>2. callee \in Clump
  BY <1>1, AtInstruction DEF IInv, ClumpOps
<1>3. shortCount[callee] = 1 /\ caller[callee] = NoClump /\ MayTrigger(callee)
  BY DEF CallIdleVI
<1>4. /\ Configuration(sc2, caller, waiting, rq2, running, stopped)
      /\ \A d \in Clump : shortCount[d] = 0 => sc2[d] = 0
      /\ sc2[callee] = 0
  BY <1>2, <1>3, Triggering
<1> HIDE DEF sc2, rq2
<1>5. Configuration(sc2, caller2, waiting, rq2, NoClump, stopped)
  BY <1>1, <1>2, <1>3, <1>4, Called
<1>6. /\ caller' = caller2 /\ DequeueFrom(rq2) /\ shortCount' = sc2
      /\ UNCHANGED << prog, savePc, reply, waiting, stopped >> /\ phase' = "ran"
  BY DEF CallIdleVI, Suspend, ReturnToLoop, sc2, rq2
<1>7. Now'
  BY <1>5, <1>6, Dispatched DEF Now
<1>8. ASSUME NEW c \in Clump, caller'[c] # NoClump
      PROVE  /\ shortCount'[c] = 0
             /\ savePc'[caller'[c]] = savePc[caller'[c]]
             /\ Instr(caller'[c]).op = "CallVI" /\ Instr(caller'[c]).arg = c
  <2>1. CASE c = callee
    <3>1. caller'[c] = running
      BY <1>2, <1>6, <2>1, LoopType DEF Configuration
    <3> QED BY <1>1, <1>4, <1>6, <2>1, <3>1
  <2>2. CASE c # callee
    <3>1. caller'[c] = caller[c]
      BY <1>2, <1>6, <2>2, LoopType DEF Configuration
    <3> QED BY <1>4, <1>6, <1>8, <3>1, CallerElsewhere
  <2> QED BY <2>1, <2>2
<1> QED BY <1>6, <1>7, <1>8, SamePcs, LoopType, StepKeeps DEF HostIsIdle

\* Done: the caller returns, the waiting clumps are released and the clump is
\* re-armed, in the order of the code's resume loop.
LEMMA DoneStep == IInv /\ Done => IInv'
<1> SUFFICES ASSUME IInv, Done PROVE IInv'
  OBVIOUS
<1> USE ClumpAssumption
<1> DEFINE k == caller[running]
           caller2 == [caller EXCEPT ![running] = NoClump]
           waiting2 == [waiting EXCEPT ![running] = << >>]
           sc2 == [shortCount EXCEPT ![running] = FireCount[running]]
           rq2 == runQueue \o Callers(running)
           rq3 == runQueue \o Resumed(running)
           pcs == PcsAfterDone(running)
<1>1. running \in Clump /\ Instr(running).op = "Done"
  BY Executing DEF Done
<1>2. /\ caller' = caller2 /\ waiting' = waiting2 /\ shortCount' = sc2 /\ savePc' = pcs
      /\ DequeueFrom(rq3) /\ UNCHANGED << prog, reply, stopped >> /\ phase' = "ran"
  BY DEF Done, Suspend, ReturnToLoop, CallersAfterDone, Rearmed
<1>3. Configuration(shortCount, caller2, waiting, rq2, running, stopped)
  <2>1. runQueue \in Seq(Clump) /\ caller \in [Clump -> Clump \cup {NoClump}]
    BY LoopType DEF Configuration
  <2>2. CASE k = NoClump
    <3>1. caller2 = caller
      BY <2>1, <2>2
    <3>2. rq2 = runQueue
      BY <2>1, <2>2 DEF Callers
    <3> QED BY <3>1, <3>2, LoopType
  <2>3. CASE k # NoClump
    <3>1. rq2 = Append(runQueue, k)
      BY <1>1, <2>1, <2>3 DEF Callers
    <3>2. Configuration(shortCount, caller2, waiting, Append(runQueue, k), running, stopped)
      BY <1>1, <2>3, LoopType, Returned
    <3> QED BY <3>1, <3>2
  <2> QED BY <2>2, <2>3
<1>4. rq3 = rq2 \o waiting[running]
  <2> DEFINE first == Callers(running)
             list == waiting[running]
  <2>1. runQueue \in Seq(Clump) /\ list \in Seq(Clump) /\ first \in Seq(Clump)
    BY <1>1, LoopType DEF Configuration, Callers
  <2>2. Resumed(running) = first \o list
    BY DEF Resumed
  <2> HIDE DEF first, list
  <2>3. runQueue \o (first \o list) = (runQueue \o first) \o list
    BY <2>1, SMTT(20)
  <2> QED BY <2>2, <2>3 DEF first, list
<1> HIDE DEF rq2, rq3, caller2
<1>5. Configuration(shortCount, caller2, waiting2, rq3, running, stopped)
  BY <1>1, <1>3, <1>4, Released
<1> HIDE DEF waiting2
<1>6. Configuration(sc2, caller2, waiting2, rq3, NoClump, stopped)
  <2>1. FireCount[running] \in Nat \ {0}
    BY <1>1
  <2> QED BY <1>1, <1>5, <2>1, Retired
<1> HIDE DEF sc2
<1>7. Now'
  BY <1>2, <1>6, Dispatched DEF Now
<1>8. ASSUME NEW c \in Clump
      PROVE  pcs[c] \in 1 .. Len(prog[c]) /\ (c # running /\ c # k => pcs[c] = savePc[c])
  <2>1. CASE c = running
    BY <1>1, <2>1, AtInstruction DEF PcsAfterDone, IInv
  <2>2. CASE c # running /\ c = k
    <3>1. Instr(c).op = "CallVI"
      BY <1>1, <2>2, CallerElsewhere
    <3> QED BY <2>2, <3>1, AtInstruction DEF PcsAfterDone, IInv
  <2>3. CASE c # running /\ c # k
    BY <2>3, AtInstruction DEF PcsAfterDone, IInv
  <2> QED BY <2>1, <2>2, <2>3
<1>9. pcs \in [Clump -> Nat]
  <2>1. \A c \in Clump : pcs[c] \in Nat
    <3> TAKE c \in Clump
    <3>1. Len(prog[c]) \in Nat /\ pcs[c] \in 1 .. Len(prog[c])
      BY <1>8, AtInstruction DEF IInv
    <3> QED BY <3>1
  <2>2. pcs = [c \in Clump |-> pcs[c]]
    BY DEF PcsAfterDone
  <2> QED BY <2>1, <2>2
<1>10. ASSUME NEW c \in Clump, caller'[c] # NoClump
       PROVE  /\ shortCount'[c] = 0
              /\ savePc'[caller'[c]] = savePc[caller'[c]]
              /\ Instr(caller'[c]).op = "CallVI" /\ Instr(caller'[c]).arg = c
  <2>1. c # running /\ caller'[c] = caller[c]
    BY <1>1, <1>2, <1>10, LoopType DEF caller2, Configuration
  <2>2. caller[c] # running /\ caller[c] \in Clump /\ shortCount[c] = 0
    BY <1>10, <2>1, CallerElsewhere
  <2>3. caller[c] # k
    BY <1>1, <1>10, <2>1, LoopType DEF Configuration, Placement
  <2>4. shortCount'[c] = 0
    BY <1>1, <1>2, <2>1, <2>2, LoopType DEF sc2
  <2> QED BY <1>2, <1>8, <1>10, <2>1, <2>2, <2>3, <2>4, CallerElsewhere
<1> QED BY <1>2, <1>7, <1>8, <1>9, <1>10, LoopType, StepKeeps DEF HostIsIdle

\* Stop drops the running clump.
LEMMA StopStep == IInv /\ Stop => IInv'
<1> SUFFICES ASSUME IInv, Stop PROVE IInv'
  OBVIOUS
<1>1. running \in Clump /\ Instr(running).op = "Stop"
  BY Executing DEF Stop
<1>2. /\ running' = NoClump /\ stopped' = stopped \cup {running} /\ phase' = "ran"
      /\ UNCHANGED << prog, savePc, reply, shortCount, caller, waiting, runQueue >>
  BY DEF Stop, ReturnToLoop
<1>3. Now'
  BY <1>1, <1>2, LoopType, TakenOut DEF Now
<1> QED BY <1>2, <1>3, SamePcs, LoopType, QuietStep DEF HostIsIdle

\* Every instruction keeps the invariant.
LEMMA InstructionStep == IInv /\ ClumpInstruction => IInv'
BY TriggerStep, WaitForDoneStep, WaitIsOverStep, CallIdleStep, CallBusyStep, BranchStep,
   DoneStep, StopStep, NoStopStep DEF ClumpInstruction

\* Starting a top VI is a trigger while nothing runs.
LEMMA PressGoStep == \A c \in TopVI : IInv /\ PressGo(c) => IInv'
<1> SUFFICES ASSUME NEW c \in TopVI, IInv, PressGo(c) PROVE IInv'
  OBVIOUS
<1>1. c \in Clump
  BY ClumpAssumption
<1>2. /\ Configuration(Triggered(c), caller, waiting, Fired(c), running, stopped)
      /\ \A d \in Clump : shortCount[d] = 0 => Triggered(c)[d] = 0
  BY <1>1, Triggering DEF PressGo
<1>3. /\ shortCount' = Triggered(c) /\ runQueue' = Fired(c)
      /\ UNCHANGED << prog, savePc, caller, waiting, running, phase, reply, stopped >>
  BY DEF PressGo
<1>4. Now'
  BY <1>2, <1>3 DEF Now
<1>5. phase' \in {"host", "burst", "ran"} /\ HostIsIdle'
  BY <1>3 DEF IInv, SchedTypeOK, HostIsIdle
<1> QED BY <1>2, <1>3, <1>4, <1>5, SamePcs, LoopType, QuietStep

\* The loop goes on with the next ready clump, or returns to the host.
LEMMA LoopKeeps ==
  ASSUME IInv, NEW rq, NEW timerPending \in BOOLEAN,
         Configuration(shortCount, caller, waiting, rq, NoClump, stopped),
         NextClump(rq, timerPending) \/ LeaveLoop(rq, timerPending),
         UNCHANGED << prog, savePc, shortCount, caller, waiting, stopped >>
  PROVE  IInv'
<1>1. CASE LeaveLoop(rq, timerPending)
  <2>1. /\ runQueue' = rq /\ running' = NoClump /\ phase' = "host"
        /\ reply' \in {"InRunQueue", "Waiting", "Finished"}
    BY <1>1 DEF LeaveLoop, Answer
  <2>2. Now'
    BY <2>1 DEF Now
  <2> QED BY <2>1, <2>2, SamePcs, QuietStep DEF HostIsIdle
<1>2. CASE rq # << >> /\ DequeueFrom(rq) /\ phase' = "burst" /\ reply' = "none"
  <2>1. Now'
    BY <1>2, Dispatched DEF Now
  <2> QED BY <1>2, <2>1, SamePcs, QuietStep DEF HostIsIdle
<1> QED BY <1>1, <1>2 DEF NextClump

\* Entering ExecuteSlices dispatches the first ready clump.
LEMMA ExecuteSlicesStep == IInv /\ ExecuteSlices => IInv'
<1> SUFFICES ASSUME IInv, ExecuteSlices PROVE IInv'
  OBVIOUS
<1>1. running = NoClump /\ NextClump(runQueue, FALSE)
  BY DEF IInv, HostIsIdle, ExecuteSlices, EnterSlices
<1>2. UNCHANGED << prog, savePc, shortCount, caller, waiting, stopped >>
  BY DEF ExecuteSlices, EnterSlices
<1> QED BY <1>1, <1>2, LoopType, LoopKeeps

\* After a burst the running clump goes back before the loop goes on.
LEMMA EndBurstStep == IInv /\ EndBurst => IInv'
<1> SUFFICES ASSUME IInv, EndBurst PROVE IInv'
  OBVIOUS
<1> DEFINE rq2 == Requeued(runQueue)
<1>1. Configuration(shortCount, caller, waiting, rq2, NoClump, stopped)
  <2>1. CASE running = NoClump
    BY <2>1, LoopType DEF Requeued
  <2>2. CASE running # NoClump
    <3>1. running \in Clump
      BY <2>2, LoopType DEF Configuration
    <3>2. rq2 = Append(runQueue, running)
      BY <2>2 DEF Requeued
    <3> QED BY <3>1, <3>2, LoopType, PutBack
  <2> QED BY <2>1, <2>2
<1> QED BY <1>1, LoopKeeps DEF EndBurst, LeaveBurst

-----------------------------------------------------------------------------
(* The theorems.                                                            *)

\* Every step of the scheduler keeps the invariant.
LEMMA NextKeepsIInv == IInv /\ [Next]_schedVars => IInv'
<1> SUFFICES ASSUME IInv, [Next]_schedVars PROVE IInv'
  OBVIOUS
<1>1. CASE Next
  BY <1>1, InstructionStep, PressGoStep, ExecuteSlicesStep, EndBurstStep DEF Next
<1>2. CASE UNCHANGED schedVars
  BY <1>2 DEF schedVars, IInv, SchedTypeOK, Now, CallersAtTheirCall, HostIsIdle, Instr
<1> QED BY <1>1, <1>2

(***************************************************************************)
(* The inductive invariant holds in every reachable state: the types, the  *)
(* placement of every clump, the callers at their calls, and an idle       *)
(* processor while the host is in control (ExecuteSlices asserts it).      *)
(***************************************************************************)
THEOREM Invariance == Spec => []IInv
BY InitIInv, NextKeepsIInv, PTL DEF Spec

(***************************************************************************)
(* The scheduler's state keeps its types; in particular no program counter *)
(* leaves the code of its clump.                                           *)
(***************************************************************************)
THEOREM TypeCorrect == Spec => []SchedTypeOK
<1>1. IInv => SchedTypeOK
  BY DEF IInv
<1> QED BY <1>1, Invariance, PTL

(***************************************************************************)
(* No clump is lost or scheduled twice, for any number of clumps and any   *)
(* program, shared and recursive calls included: every active clump is in  *)
(* exactly one list, call, queue or processor (Queue.cpp,                  *)
(* VirtualInstrument.cpp: one _next link serves them all).                 *)
(***************************************************************************)
THEOREM ActiveClumpsInOnePlace == Spec => []OnePlace
<1>1. IInv => OnePlace
  BY PlacementIsOnePlace DEF IInv
<1> QED BY <1>1, Invariance, PTL

(***************************************************************************)
(* Done always finds its caller at the CallVI that started the callee.     *)
(***************************************************************************)
THEOREM ReturnsReachTheCall == Spec => []CallersAtTheirCall
<1>1. IInv => CallersAtTheirCall
  BY DEF IInv
<1> QED BY <1>1, Invariance, PTL

\* Whoever is active and not running is in no list twice.
LEMMA Unlinked ==
  ASSUME IInv, NEW c \in Clump,
         c \notin Elements(runQueue), \A d \in Clump : c \notin Elements(waiting[d])
  PROVE  MayLink(c)
<1>1. /\ runQueue \in Seq(Clump) /\ \A d \in Clump : waiting[d] \in Seq(Clump)
  BY DEF IInv, SchedTypeOK
<1>2. c \notin AllButLast(runQueue)
  BY <1>1 DEF AllButLast, Elements
<1>3. ASSUME NEW d \in Clump PROVE c \notin AllButLast(waiting[d])
  BY <1>1 DEF AllButLast, Elements
<1> QED BY <1>2, <1>3 DEF MayLink, NextIsNull

\* What Done resumes is active, in no queue, and listed once.
LEMMA ResumedClumps ==
  ASSUME IInv, running \in Clump
  PROVE  MayResume(Resumed(running))
<1> USE ClumpAssumption
<1> DEFINE first == Callers(running)
           list == waiting[running]
<1>1. /\ first \in Seq(Clump) /\ list \in Seq(Clump)
      /\ IsInjective(first) /\ IsInjective(list)
      /\ \A c \in Elements(first) : c = caller[running] /\ c # NoClump
  <2>1. list \in Seq(Clump) /\ IsInjective(list) /\ caller[running] \in Clump \cup {NoClump}
    BY LoopType DEF Configuration, Placement
  <2>2. CASE caller[running] = NoClump
    BY <2>1, <2>2, EmptyElements DEF Callers
  <2>3. CASE caller[running] # NoClump
    <3>1. first = << caller[running] >>
      BY <2>3 DEF Callers
    <3>2. /\ << caller[running] >> \in Seq(Clump) /\ IsInjective(<< caller[running] >>)
          /\ Elements(<< caller[running] >>) = {caller[running]}
      BY <2>1, <2>3 DEF IsInjective, Elements
    <3> QED BY <2>1, <2>3, <3>1, <3>2
  <2> QED BY <2>2, <2>3
<1>2. ASSUME NEW c \in Elements(first)
      PROVE  shortCount[c] = 0 /\ c \notin Elements(runQueue) /\ c \notin Elements(list)
  <2>1. c = caller[running] /\ c # NoClump
    BY <1>1
  <2> HIDE DEF first
  <2> QED BY <2>1, LoopType DEF Configuration, Placement
<1>3. ASSUME NEW c \in Elements(list)
      PROVE  shortCount[c] = 0 /\ c \notin Elements(runQueue)
  BY LoopType DEF Configuration, Placement
<1> HIDE DEF first, list
<1>4. /\ first \o list \in Seq(Clump) /\ IsInjective(first \o list)
      /\ Elements(first \o list) = Elements(first) \cup Elements(list)
  BY <1>1, <1>2, ConcatElements
<1>5. \A i \in 1 .. Len(first \o list) : (first \o list)[i] \in Elements(first \o list)
  BY <1>4 DEF Elements
<1> QED BY <1>2, <1>3, <1>4, <1>5 DEF MayResume, Resumed, first, list

(***************************************************************************)
(* No assert of the lists fails, whatever the program: what is enqueued,   *)
(* linked, called or resumed is never linked already.                      *)
(***************************************************************************)
THEOREM NoListAssertFails == Spec => []AssertsHold
<1>1. ASSUME IInv PROVE AssertsHold
  <2> USE ClumpAssumption
  <2> SUFFICES ASSUME running # NoClump
               PROVE  /\ shortCount[running] = 0
                      /\ MayLink(running)
                      /\ LET i == Instr(running)
                         IN  /\ i.op = "CallVI" /\ shortCount[i.arg] = 1 =>
                                  caller[i.arg] = NoClump /\ MayTrigger(i.arg)
                             /\ i.op = "Done" => MayResume(Resumed(running))
    BY DEF AssertsHold
  <2>1. running \in Clump
    BY <1>1, LoopType DEF Configuration
  <2>2. shortCount[running] = 0 /\ MayLink(running)
    <3>1. /\ shortCount[running] = 0 /\ running \notin Elements(runQueue)
          /\ \A d \in Clump : running \notin Elements(waiting[d])
      BY <1>1, <2>1, LoopType DEF Configuration, Placement
    <3> QED BY <1>1, <2>1, <3>1, Unlinked
  <2>3. ASSUME Instr(running).op = "CallVI", shortCount[Instr(running).arg] = 1
        PROVE  caller[Instr(running).arg] = NoClump /\ MayTrigger(Instr(running).arg)
    <3> DEFINE callee == Instr(running).arg
    <3>1. callee \in Clump
      BY <1>1, <2>1, <2>3, AtInstruction DEF IInv, ClumpOps
    <3>2. /\ callee \notin Elements(runQueue)
          /\ \A d \in Clump : callee \notin Elements(waiting[d])
      BY <1>1, <2>3, <3>1, LoopType DEF Configuration, Placement
    <3>3. MayLink(callee)
      BY <1>1, <3>1, <3>2, Unlinked
    <3>4. caller[callee] = NoClump
      BY <1>1, <2>3, <3>1, CallerElsewhere
    <3> QED BY <2>3, <3>3, <3>4 DEF MayTrigger
  <2>4. MayResume(Resumed(running))
    BY <1>1, <2>1, ResumedClumps
  <2> QED BY <2>2, <2>3, <2>4
<1> QED BY <1>1, Invariance, PTL

\* The program counters a step may change.
MovesOthersRightly ==
  \A c \in Clump : savePc'[c] # savePc[c] /\ c # running =>
    running # NoClump /\ caller[running] = c /\ savePc'[c] = savePc[c] + 1

(***************************************************************************)
(* A suspended clump stays at its instruction: only the Done of its callee *)
(* moves it, and by exactly one instruction.                               *)
(***************************************************************************)
THEOREM SuspendedStaysPut == Spec => OnlyDoneMovesAnother
<1>1. ASSUME IInv, [Next]_schedVars PROVE [MovesOthersRightly]_schedVars
  <2> SUFFICES ASSUME NEW c \in Clump, savePc'[c] # savePc[c], c # running
               PROVE  running # NoClump /\ caller[running] = c /\ savePc'[c] = savePc[c] + 1
    BY DEF MovesOthersRightly
  <2>1. savePc' # savePc
    OBVIOUS
  <2>2. savePc \in [Clump -> Nat]
    BY <1>1, SamePcs
  <2>3. ASSUME NEW to, savePc' = [savePc EXCEPT ![running] = to] PROVE FALSE
    BY <2>2, <2>3
  <2>4. CASE Done
    <3>1. running \in Clump /\ savePc' = PcsAfterDone(running)
      BY <1>1, <2>4, Executing DEF Done, Suspend
    <3> QED BY <3>1, ClumpAssumption DEF PcsAfterDone
  <2>5. CASE ClumpInstruction /\ ~ Done
    <3>1. CASE Trigger \/ WaitIsOver \/ NoStop
      BY <2>3, <3>1 DEF Trigger, WaitIsOver, NoStop, Continue
    <3>2. CASE WaitForDone
      BY <2>3, <3>2 DEF WaitForDone, Suspend
    <3>3. CASE Branch
      BY <2>3, <3>3 DEF Branch
    <3>4. CASE CallIdleVI \/ CallBusyVI \/ Stop
      BY <2>1, <3>4 DEF CallIdleVI, CallBusyVI, Stop, Suspend
    <3> QED BY <2>5, <3>1, <3>2, <3>3, <3>4 DEF ClumpInstruction
  <2>6. CASE \E d \in TopVI : PressGo(d)
    BY <2>1, <2>6 DEF PressGo
  <2>7. CASE ExecuteSlices \/ EndBurst
    BY <2>1, <2>7 DEF ExecuteSlices, EnterSlices, EndBurst, LeaveBurst
  <2>8. CASE UNCHANGED schedVars
    BY <2>1, <2>8 DEF schedVars
  <2> QED BY <1>1, <2>4, <2>5, <2>6, <2>7, <2>8 DEF Next
<1>2. Spec => [][MovesOthersRightly]_schedVars
  BY <1>1, Invariance, PTL DEF Spec
<1> QED BY <1>2 DEF OnlyDoneMovesAnother, MovesOthersRightly
-----------------------------------------------------------------------------
(* Finished.  Who waits, waits for a clump that has not finished, and every *)
(* wait is for a clump that some instruction names: in a program whose      *)
(* calls and waits are layered nobody can be left waiting.                  *)

\* A clump at index pc of its code stands at a CallVI of d, or behind a Wait for d.
WaitsFor(code, pc, d) ==
  \/ code[pc].op = "CallVI" /\ code[pc].arg = d
  \/ pc > 1 /\ code[pc - 1].op = "Wait" /\ code[pc - 1].arg = d

\* Whoever is on a waiting list waits for a clump that is not at its full count.
WaitersAtTheirTarget ==
  \A d \in Clump : \A c \in Elements(waiting[d]) :
    shortCount[d] # FireCount[d] /\ WaitsFor(prog[c], savePc[c], d)

\* No clump waits for more triggers than it was armed with.
CountsDown == \A c \in Clump : shortCount[c] <= FireCount[c]

\* There is an answer only while the host is in control.
AnswersToHost == phase # "host" => reply = "none"

WaitInv == WaitersAtTheirTarget /\ CountsDown /\ AnswersToHost

\* A step keeps the waiters at their targets if whoever waits afterwards waited
\* there before and has not moved, or has come to wait for the right clump.
LEMMA WaitersKept ==
  ASSUME WaitInv, prog' = prog,
         \A d \in Clump : shortCount'[d] <= FireCount[d],
         phase' # "host" => reply' = "none",
         \A d \in Clump : \A c \in Elements(waiting'[d]) :
           /\ \/ c \in Elements(waiting[d]) /\ savePc'[c] = savePc[c]
              \/ shortCount[d] # FireCount[d] /\ WaitsFor(prog[c], savePc'[c], d)
           /\ shortCount[d] # FireCount[d] => shortCount'[d] # FireCount[d]
  PROVE  WaitInv'
<1>1. WaitersAtTheirTarget'
  BY DEF WaitInv, WaitersAtTheirTarget
<1> QED BY <1>1 DEF WaitInv, CountsDown, AnswersToHost

\* The running clump is on no waiting list.
LEMMA RunningWaitsNowhere ==
  ASSUME IInv, NEW d \in Clump
  PROVE  running \notin Elements(waiting[d])
<1>1. NoClump \notin Elements(waiting[d])
  BY LoopType, ElementsType, ClumpAssumption DEF Configuration
<1> QED BY <1>1, LoopType DEF Configuration, Placement

\* A trigger brings its target further from its full count.
LEMMA TriggerCounts ==
  ASSUME IInv, WaitInv, NEW c \in Clump, MayTrigger(c), NEW d \in Clump
  PROVE  /\ Triggered(c)[d] <= FireCount[d]
         /\ shortCount[d] # FireCount[d] => Triggered(c)[d] # FireCount[d]
<1>1. shortCount \in [Clump -> Nat] /\ FireCount[d] \in Nat /\ shortCount[d] <= FireCount[d]
  BY LoopType, ClumpAssumption DEF WaitInv, CountsDown
<1>2. shortCount[d] \in Nat /\ Triggered(c)[d] = IF d = c THEN shortCount[d] - 1 ELSE shortCount[d]
  BY <1>1 DEF Triggered
<1> QED BY <1>1, <1>2

\* A step that leaves the waiting lists alone moves at most the running clump.
LEMMA QuietWaits ==
  ASSUME IInv, WaitInv, UNCHANGED << prog, waiting >>,
         \A d \in Clump : /\ shortCount'[d] <= FireCount[d]
                          /\ shortCount[d] # FireCount[d] => shortCount'[d] # FireCount[d],
         phase' # "host" => reply' = "none",
         \A c \in Clump : c # running => savePc'[c] = savePc[c]
  PROVE  WaitInv'
<1>1. ASSUME NEW d \in Clump, NEW c \in Elements(waiting'[d])
      PROVE  c \in Elements(waiting[d]) /\ savePc'[c] = savePc[c]
  <2>1. c \in Clump /\ c # running
    BY RunningWaitsNowhere, LoopType, ElementsType DEF Configuration
  <2> QED BY <1>1, <2>1
<1> QED BY <1>1, WaitersKept

\* The running clump links itself behind its Wait, or at its CallVI.
LEMMA LinkedWaits ==
  ASSUME IInv, WaitInv, running \in Clump, NEW d \in Clump, NEW list,
         list = Append(waiting[d], running) \/ list = << running >> \o waiting[d],
         waiting' = [waiting EXCEPT ![d] = list],
         UNCHANGED << prog, shortCount >>, shortCount[d] # FireCount[d],
         phase' # "host" => reply' = "none",
         \A c \in Clump : c # running => savePc'[c] = savePc[c],
         WaitsFor(prog[running], savePc'[running], d)
  PROVE  WaitInv'
<1>1. waiting \in [Clump -> Seq(Clump)]
  BY LoopType DEF Configuration
<1>2. Elements(list) \subseteq Elements(waiting[d]) \cup {running}
  <2>1. waiting[d] \in Seq(Clump)
    BY <1>1
  <2> HIDE <1>1
  <2>2. CASE list = Append(waiting[d], running)
    BY <2>1, <2>2, AppendElements
  <2>3. CASE list = << running >> \o waiting[d]
    <3> DEFINE front == << running >>
    <3>1. front \in Seq(Clump) /\ Elements(front) = {running}
      BY DEF Elements
    <3>2. list = front \o waiting[d]
      BY <2>3
    <3> HIDE DEF front
    <3> QED BY <2>1, <3>1, <3>2, ConcatElements
  <2> QED BY <2>2, <2>3
<1>3. ASSUME NEW e \in Clump, NEW c \in Elements(waiting'[e])
      PROVE  /\ \/ c \in Elements(waiting[e]) /\ savePc'[c] = savePc[c]
                \/ shortCount[e] # FireCount[e] /\ WaitsFor(prog[c], savePc'[c], e)
             /\ shortCount[e] # FireCount[e] => shortCount'[e] # FireCount[e]
  <2>1. \/ c \in Elements(waiting[e])
        \/ c = running /\ e = d
    BY <1>1, <1>2, <1>3
  <2>2. CASE c \in Elements(waiting[e])
    <3>1. c \in Clump /\ c # running
      BY <2>2, RunningWaitsNowhere, LoopType, ElementsType DEF Configuration
    <3> QED BY <2>2, <3>1
  <2>3. CASE c = running /\ e = d
    BY <2>3
  <2> QED BY <2>1, <2>2, <2>3
<1>4. \A e \in Clump : shortCount'[e] <= FireCount[e]
  BY DEF WaitInv, CountsDown
<1> QED BY <1>3, <1>4, WaitersKept

\* Wait: behind the instruction that named the target.
LEMMA WaitForDoneWaits == IInv /\ WaitInv /\ WaitForDone => WaitInv'
<1> SUFFICES ASSUME IInv, WaitInv, WaitForDone PROVE WaitInv'
  OBVIOUS
<1> DEFINE target == Instr(running).arg
           list == << running >> \o waiting[target]
<1>1. running \in Clump /\ Instr(running).op = "Wait" /\ target \in Clump
  BY Executing, AtInstruction DEF WaitForDone, IInv, ClumpOps
<1>2. /\ waiting' = [waiting EXCEPT ![target] = list]
      /\ savePc' = [savePc EXCEPT ![running] = @ + 1]
      /\ UNCHANGED << prog, reply, shortCount >> /\ phase' = "ran" /\ phase # "host"
      /\ shortCount[target] # FireCount[target]
  BY DEF WaitForDone, Executes, Suspend, ReturnToLoop, InsertIntoWaitList
<1>3. WaitsFor(prog[running], savePc'[running], target)
  <2>1. savePc[running] \in Nat \ {0} /\ savePc'[running] = savePc[running] + 1
    BY <1>1, <1>2 DEF IInv, SchedTypeOK
  <2>2. savePc'[running] > 1 /\ savePc'[running] - 1 = savePc[running]
    BY <2>1
  <2> QED BY <1>1, <2>2 DEF WaitsFor, Instr
<1>4. reply' = "none" /\ \A c \in Clump : c # running => savePc'[c] = savePc[c]
  BY <1>2, SamePcs DEF WaitInv, AnswersToHost
<1> HIDE DEF list, target
<1> QED BY <1>1, <1>2, <1>3, <1>4, LinkedWaits DEF list

\* CallVI of an active VI: at the call itself.
LEMMA CallBusyWaits == IInv /\ WaitInv /\ CallBusyVI => WaitInv'
<1> SUFFICES ASSUME IInv, WaitInv, CallBusyVI PROVE WaitInv'
  OBVIOUS
<1> DEFINE target == Instr(running).arg
           list == Append(waiting[target], running)
<1>1. running \in Clump /\ Instr(running).op = "CallVI" /\ target \in Clump
  BY Executing, AtInstruction DEF CallBusyVI, IInv, ClumpOps
<1>2. /\ waiting' = [waiting EXCEPT ![target] = list]
      /\ UNCHANGED << prog, savePc, reply, shortCount >> /\ phase' = "ran" /\ phase # "host"
      /\ shortCount[target] = 0
  BY DEF CallBusyVI, Executes, Suspend, ReturnToLoop, AppendToWaitList
<1>3. WaitsFor(prog[running], savePc'[running], target)
  BY <1>1, <1>2 DEF WaitsFor, Instr
<1>4. reply' = "none" /\ shortCount[target] # FireCount[target]
  BY <1>1, <1>2, ClumpAssumption DEF WaitInv, AnswersToHost
<1> HIDE DEF list, target
<1> QED BY <1>1, <1>2, <1>3, <1>4, LinkedWaits DEF list

\* Done releases everyone who waits for the clump it re-arms, and the caller it
\* moves on is on no list.
LEMMA DoneWaits == IInv /\ WaitInv /\ Done => WaitInv'
<1> SUFFICES ASSUME IInv, WaitInv, Done PROVE WaitInv'
  OBVIOUS
<1>1. running \in Clump
  BY Executing DEF Done
<1>2. /\ waiting' = [waiting EXCEPT ![running] = << >>]
      /\ shortCount' = Rearmed(running) /\ savePc' = PcsAfterDone(running)
      /\ UNCHANGED << prog, reply >> /\ phase' = "ran" /\ phase # "host"
  BY DEF Done, Executes, Suspend, ReturnToLoop
<1>3. ASSUME NEW d \in Clump, NEW c \in Elements(waiting'[d])
      PROVE  /\ c \in Elements(waiting[d]) /\ savePc'[c] = savePc[c]
             /\ shortCount'[d] = shortCount[d]
  <2>1. d # running /\ c \in Elements(waiting[d]) /\ c \in Clump
    BY <1>1, <1>2, <1>3, EmptyElements, LoopType, ElementsType DEF Configuration
  <2>2. c # running /\ c # caller[running]
    BY <1>1, <2>1, RunningWaitsNowhere, LoopType DEF Configuration, Placement
  <2>3. shortCount'[d] = shortCount[d]
    BY <1>1, <1>2, <2>1, LoopType DEF Rearmed
  <2> QED BY <1>2, <2>1, <2>2, <2>3 DEF PcsAfterDone
<1>4. ASSUME NEW d \in Clump PROVE shortCount'[d] <= FireCount[d]
  <2>1. shortCount'[d] = IF d = running THEN FireCount[d] ELSE shortCount[d]
    BY <1>1, <1>2, LoopType DEF Rearmed
  <2>2. FireCount[d] \in Nat /\ shortCount[d] <= FireCount[d]
    BY ClumpAssumption DEF WaitInv, CountsDown
  <2> QED BY <2>1, <2>2
<1>5. reply' = "none"
  BY <1>2 DEF WaitInv, AnswersToHost
<1> QED BY <1>2, <1>3, <1>4, <1>5, WaitersKept

\* The other instructions leave the lists alone.
LEMMA InstructionWaits == IInv /\ WaitInv /\ ClumpInstruction => WaitInv'
<1> SUFFICES ASSUME IInv, WaitInv, ClumpInstruction PROVE WaitInv'
  OBVIOUS
<1>1. ASSUME NEW to, savePc' = [savePc EXCEPT ![running] = to]
      PROVE  \A c \in Clump : c # running => savePc'[c] = savePc[c]
  BY <1>1, SamePcs
<1>2. phase # "host" => reply = "none"
  BY DEF WaitInv, AnswersToHost
<1>3. \A d \in Clump : shortCount[d] <= FireCount[d]
  BY DEF WaitInv, CountsDown
<1>4. CASE Trigger
  <2>1. running \in Clump /\ Instr(running).arg \in Clump
    BY <1>4, Executing, AtInstruction DEF Trigger, IInv, ClumpOps
  <2>2. /\ MayTrigger(Instr(running).arg) /\ shortCount' = Triggered(Instr(running).arg)
        /\ savePc' = [savePc EXCEPT ![running] = @ + 1] /\ phase # "host"
        /\ UNCHANGED << prog, reply, waiting >>
    BY <1>4 DEF Trigger, Executes, Continue, ReturnToLoop
  <2> QED BY <1>1, <1>2, <2>1, <2>2, TriggerCounts, QuietWaits
<1>5. CASE CallIdleVI
  <2>1. running \in Clump /\ Instr(running).arg \in Clump
    BY <1>5, Executing, AtInstruction DEF CallIdleVI, IInv, ClumpOps
  <2>2. /\ MayTrigger(Instr(running).arg) /\ shortCount' = Triggered(Instr(running).arg)
        /\ phase # "host" /\ UNCHANGED << prog, savePc, reply, waiting >>
    BY <1>5 DEF CallIdleVI, Executes, Suspend, ReturnToLoop
  <2> QED BY <1>2, <2>1, <2>2, TriggerCounts, QuietWaits
<1>6. CASE WaitIsOver \/ NoStop
  <2>1. /\ savePc' = [savePc EXCEPT ![running] = @ + 1] /\ phase # "host"
        /\ UNCHANGED << prog, reply, shortCount, waiting >>
    BY <1>6 DEF WaitIsOver, NoStop, Executes, Continue, ReturnToLoop
  <2> QED BY <1>1, <1>2, <1>3, <2>1, QuietWaits
<1>7. CASE Branch
  <2>1. /\ \E to : savePc' = [savePc EXCEPT ![running] = to]
        /\ phase # "host" /\ UNCHANGED << prog, reply, shortCount, waiting >>
    BY <1>7 DEF Branch, Executes, ReturnToLoop
  <2> QED BY <1>1, <1>2, <1>3, <2>1, QuietWaits
<1>8. CASE Stop
  <2>1. phase # "host" /\ UNCHANGED << prog, savePc, reply, shortCount, waiting >>
    BY <1>8 DEF Stop, Executes, ReturnToLoop
  <2> QED BY <1>2, <1>3, <2>1, QuietWaits
<1> QED BY <1>4, <1>5, <1>6, <1>7, <1>8, WaitForDoneWaits, CallBusyWaits, DoneWaits
     DEF ClumpInstruction

\* The host and the loop move nobody; a trigger of the host counts as any other.
LEMMA LoopWaits ==
  IInv /\ WaitInv /\ ((\E c \in TopVI : PressGo(c)) \/ ExecuteSlices \/ EndBurst) => WaitInv'
<1> SUFFICES ASSUME IInv, WaitInv, (\E c \in TopVI : PressGo(c)) \/ ExecuteSlices \/ EndBurst
             PROVE  WaitInv'
  OBVIOUS
<1>1. CASE \E c \in TopVI : PressGo(c)
  <2>1. PICK c \in TopVI : PressGo(c)
    BY <1>1
  <2>2. /\ c \in Clump /\ MayTrigger(c) /\ shortCount' = Triggered(c) /\ phase' = "host"
        /\ UNCHANGED << prog, savePc, waiting >>
    BY <2>1, ClumpAssumption DEF PressGo
  <2> QED BY <2>2, TriggerCounts, QuietWaits
<1>2. CASE ExecuteSlices \/ EndBurst
  <2>1. UNCHANGED << prog, savePc, shortCount, waiting >>
    BY <1>2 DEF ExecuteSlices, EnterSlices, EndBurst, LeaveBurst
  <2>2. phase' = "host" \/ reply' = "none"
    BY <1>2 DEF ExecuteSlices, EnterSlices, EndBurst, LeaveBurst, NextClump, LeaveLoop
  <2>3. \A d \in Clump : shortCount[d] <= FireCount[d]
    BY DEF WaitInv, CountsDown
  <2> QED BY <2>1, <2>2, <2>3, QuietWaits
<1> QED BY <1>1, <1>2

\* Nobody waits, everybody is fully armed and there is no answer at first.
LEMMA InitWaits == SchedInit => WaitInv
<1> SUFFICES ASSUME SchedInit PROVE WaitInv
  OBVIOUS
<1>1. \A d \in Clump : FireCount[d] \in Nat /\ waiting[d] = << >> /\ shortCount[d] = FireCount[d]
  BY ClumpAssumption DEF SchedInit
<1>2. WaitersAtTheirTarget
  BY <1>1, EmptyElements DEF WaitersAtTheirTarget
<1>3. CountsDown
  BY <1>1 DEF CountsDown
<1> QED BY <1>2, <1>3 DEF SchedInit, WaitInv, AnswersToHost

\* Every step keeps the waiters at their targets.
LEMMA WaitInvariance == Spec => []WaitInv
<1>1. IInv /\ WaitInv /\ [Next]_schedVars => WaitInv'
  <2> SUFFICES ASSUME IInv, WaitInv, [Next]_schedVars PROVE WaitInv'
    OBVIOUS
  <2>1. CASE Next
    BY <2>1, InstructionWaits, LoopWaits DEF Next
  <2>2. CASE UNCHANGED schedVars
    BY <2>2 DEF schedVars, WaitInv, WaitersAtTheirTarget, CountsDown, AnswersToHost
  <2> QED BY <2>1, <2>2
<1> QED BY <1>1, InitWaits, Invariance, PTL DEF Spec

(***************************************************************************)
(* A clump linked on a waiting list stands at its CallVI of the list's     *)
(* clump or just behind its Wait for it, and that clump still has its Done *)
(* before it: nobody is linked where nobody will come by (Wait,            *)
(* CallVI and Done in VirtualInstrument.cpp and Queue.cpp).                *)
(***************************************************************************)
THEOREM WaitersAreWaitedFor == Spec => []WaitersAtTheirTarget
<1>1. WaitInv => WaitersAtTheirTarget
  BY DEF WaitInv
<1> QED BY <1>1, WaitInvariance, PTL

\* The calls and waits of the program are layered: no clump can come to wait,
\* through others, for itself.
LayeredCalls ==
  \E rank \in [Clump -> Nat] : \A c \in Clump : \A i \in 1 .. Len(prog[c]) :
    prog[c][i].op \in {"CallVI", "Wait"} => rank[prog[c][i].arg] < rank[c]

\* No join has some of its triggers and lacks others.
JoinsComplete == \A c \in Clump : shortCount[c] \in {0, FireCount[c]}

\* With nothing to run, an active clump waits for another active clump.
LEMMA EveryoneWaits ==
  ASSUME IInv, WaitInv, JoinsComplete, stopped = {}, runQueue = << >>, running = NoClump,
         NEW c \in Clump, shortCount[c] = 0
  PROVE  \E d \in Clump : \E i \in 1 .. Len(prog[c]) :
           shortCount[d] = 0 /\ prog[c][i].op \in {"CallVI", "Wait"} /\ prog[c][i].arg = d
<1>1. Somewhere(c, caller, waiting, runQueue, running, stopped)
  BY LoopType DEF Configuration, Placement
<1>2. savePc[c] \in 1 .. Len(prog[c]) /\ Len(prog[c]) \in Nat
  BY AtInstruction DEF IInv
<1>3. CASE \E d \in Clump : c \in Elements(waiting[d])
  <2>1. PICK d \in Clump : c \in Elements(waiting[d])
    BY <1>3
  <2>2. shortCount[d] # FireCount[d] /\ WaitsFor(prog[c], savePc[c], d)
    BY <2>1 DEF WaitInv, WaitersAtTheirTarget
  <2>3. shortCount[d] = 0
    BY <2>2 DEF JoinsComplete
  <2>4. \E i \in 1 .. Len(prog[c]) : prog[c][i].op \in {"CallVI", "Wait"} /\ prog[c][i].arg = d
    <3>1. CASE prog[c][savePc[c]].op = "CallVI" /\ prog[c][savePc[c]].arg = d
      BY <1>2, <3>1
    <3>2. CASE savePc[c] > 1 /\ prog[c][savePc[c] - 1].op = "Wait"
                 /\ prog[c][savePc[c] - 1].arg = d
      <4>1. savePc[c] - 1 \in 1 .. Len(prog[c])
        BY <1>2, <3>2
      <4> QED BY <3>2, <4>1
    <3> QED BY <2>2, <3>1, <3>2 DEF WaitsFor
  <2> QED BY <2>3, <2>4
<1>4. CASE \E d \in Clump : caller[d] = c
  <2>1. PICK d \in Clump : caller[d] = c
    BY <1>4
  <2>2. shortCount[d] = 0 /\ Instr(c).op = "CallVI" /\ Instr(c).arg = d
    BY <2>1, CallerElsewhere, ClumpAssumption
  <2> QED BY <1>2, <2>2 DEF Instr
<1> QED BY <1>1, <1>3, <1>4, EmptyElements, ClumpAssumption DEF Somewhere

(***************************************************************************)
(* Finished is true, for any number of clumps and any program whose calls  *)
(* and waits are layered: unless a Stop dropped a clump or a join still    *)
(* lacks triggers, whoever has been started has run to its Done when       *)
(* ExecuteSlices gives that answer.  Without layers two clumps may wait    *)
(* for each other and the answer is given all the same.                    *)
(***************************************************************************)
THEOREM FinishedIsTrue == Spec => [](LayeredCalls /\ JoinsComplete => FinishedMeansDone)
<1>1. ASSUME IInv, WaitInv, LayeredCalls, JoinsComplete,
             reply = "Finished", runQueue = << >>, stopped = {}
      PROVE  \A c \in Clump : shortCount[c] = FireCount[c]
  <2>1. running = NoClump
    BY <1>1 DEF WaitInv, AnswersToHost, IInv, HostIsIdle
  <2>2. PICK rank \in [Clump -> Nat] : \A c \in Clump : \A i \in 1 .. Len(prog[c]) :
          prog[c][i].op \in {"CallVI", "Wait"} => rank[prog[c][i].arg] < rank[c]
    BY <1>1 DEF LayeredCalls
  <2> DEFINE idle == {n \in Nat : \A c \in Clump : rank[c] < n => shortCount[c] # 0}
  <2>3. 0 \in idle
    BY <2>2
  <2>4. ASSUME NEW n \in Nat, n \in idle PROVE n + 1 \in idle
    <3> SUFFICES ASSUME NEW c \in Clump, rank[c] < n + 1, shortCount[c] = 0 PROVE FALSE
      OBVIOUS
    <3>1. PICK d \in Clump : \E i \in 1 .. Len(prog[c]) :
            shortCount[d] = 0 /\ prog[c][i].op \in {"CallVI", "Wait"} /\ prog[c][i].arg = d
      BY <1>1, <2>1, EveryoneWaits
    <3>2. rank[d] < rank[c] /\ shortCount[d] = 0
      BY <2>2, <3>1
    <3>3. rank[d] < n
      BY <2>2, <3>2
    <3> QED BY <2>4, <3>2, <3>3
  <2>5. Nat \subseteq idle
    <3> HIDE DEF idle
    <3> QED BY <2>3, <2>4, SetInduction
  <2>6. ASSUME NEW c \in Clump PROVE shortCount[c] # 0
    <3>1. rank[c] + 1 \in idle /\ rank[c] \in Nat
      BY <2>2, <2>5
    <3> QED BY <3>1
  <2> QED BY <1>1, <2>6 DEF JoinsComplete
<1>2. IInv /\ WaitInv => (LayeredCalls /\ JoinsComplete => FinishedMeansDone)
  BY <1>1 DEF FinishedMeansDone
<1> QED BY <1>2, Invariance, WaitInvariance, PTL
-----------------------------------------------------------------------------
(* Triggers.  In a program that forks and joins, a clump that has been      *)
(* triggered in this round owes a Wait to its target until the target has   *)
(* run; there are as many of these as triggers have come.  The program is   *)
(* a parameter p here, as it is the same before and after a step.           *)

\* Where c stands between its Trigger of t and its Wait for t.
Owing(p, c, t) == CHOOSE owing \in SUBSET (1 .. Len(p[c])) : OwesWait(p[c], t, owing)

\* Those who have triggered t and not yet seen it done.
Owers(p, t) ==
  {c \in Triggerers(p, t) : savePc[c] \in Owing(p, c, t) \/ c \in Elements(waiting[t])}

\* The triggers that have come for t are of different clumps.
RoundCounts(p, t) ==
  Triggerers(p, t) # {} => FireCount[t] - shortCount[t] <= Cardinality(Owers(p, t))

TriggersInv ==
  \A p \in Programs : prog = p /\ ForksAndJoins(p) => \A t \in Clump : RoundCounts(p, t)

\* How the code goes on while its clump owes a Wait.
LEMMA OwingFlows ==
  ASSUME IInv, ForksAndJoins(prog), NEW c \in Clump, NEW t \in Clump
  PROVE  LET i == Instr(c)
             pc == savePc[c]
             owing == Owing(prog, c, t)
         IN  /\ i.op = "Trigger" /\ i.arg = t => pc \notin owing /\ pc + 1 \in owing
             /\ pc \in owing => \/ i.op = "Wait" /\ i.arg = t
                                \/ /\ i.op # "Done" /\ pc + 1 \in owing
                                   /\ i.op \in BranchOps => i.arg \in owing
<1>1. \E owing \in SUBSET (1 .. Len(prog[c])) : OwesWait(prog[c], t, owing)
  BY DEF ForksAndJoins
<1>2. OwesWait(prog[c], t, Owing(prog, c, t))
  BY <1>1 DEF Owing
<1>3. savePc[c] \in 1 .. Len(prog[c])
  BY AtInstruction DEF IInv
<1> HIDE DEF Owing
<1> QED BY <1>2, <1>3 DEF OwesWait, Instr

\* There are never more of them than triggers are needed.
LEMMA OwersFinite ==
  ASSUME NEW p, ForksAndJoins(p), NEW t \in Clump, NEW owers \in SUBSET Triggerers(p, t)
  PROVE  /\ IsFiniteSet(owers) /\ Cardinality(owers) \in Nat
         /\ \A c \in Triggerers(p, t) \ owers :
              /\ Cardinality(owers) < FireCount[t]
              /\ Cardinality(owers \cup {c}) = Cardinality(owers) + 1
<1> DEFINE all == Triggerers(p, t)
<1>1. IsFiniteSet(all) /\ Cardinality(all) <= FireCount[t] /\ FireCount[t] \in Nat
  BY ClumpAssumption DEF ForksAndJoins
<1> HIDE DEF all
<1>2. owers \subseteq all
  BY DEF all
<1>3. IsFiniteSet(owers) /\ Cardinality(owers) \in Nat /\ Cardinality(all) \in Nat
  BY <1>1, <1>2, FS_Subset, FS_CardinalityType
<1>4. ASSUME NEW c \in all \ owers
      PROVE  Cardinality(owers) < FireCount[t] /\ Cardinality(owers \cup {c}) = Cardinality(owers) + 1
  <2>1. Cardinality(owers \cup {c}) = Cardinality(owers) + 1
    BY <1>3, <1>4, FS_AddElement
  <2>2. owers \cup {c} \subseteq all
    BY <1>2, <1>4
  <2>3. Cardinality(owers \cup {c}) <= Cardinality(all)
    BY <1>1, <2>2, FS_Subset
  <2> QED BY <1>1, <1>3, <2>1, <2>3
<1> QED BY <1>3, <1>4 DEF all

\* A step that brings t no trigger and releases none of its owers.
LEMMA RoundKept ==
  ASSUME IInv, NEW p, ForksAndJoins(p), NEW t \in Clump, RoundCounts(p, t),
         shortCount'[t] = shortCount[t], Owers(p, t) \subseteq Owers(p, t)'
  PROVE  RoundCounts(p, t)'
<1> DEFINE before == Owers(p, t)
           after == Owers(p, t)'
<1>1. before \in SUBSET Triggerers(p, t) /\ after \in SUBSET Triggerers(p, t)
  BY DEF Owers
<1>2. shortCount[t] \in Nat /\ FireCount[t] \in Nat
  BY LoopType, ClumpAssumption
<1> HIDE DEF before, after
<1>3. before \subseteq after
  BY DEF before, after
<1>4. Cardinality(before) <= Cardinality(after) /\ Cardinality(before) \in Nat /\ Cardinality(after) \in Nat
  BY <1>1, <1>3, OwersFinite, FS_Subset
<1>5. Triggerers(p, t) # {} => FireCount[t] - shortCount[t] <= Cardinality(before)
  BY DEF RoundCounts, before
<1>6. Triggerers(p, t) # {} => FireCount[t] - shortCount'[t] <= Cardinality(after)
  BY <1>2, <1>4, <1>5
<1> QED BY <1>6 DEF RoundCounts, after

\* The running clump goes on, and releases none but perhaps the target of a Wait
\* that is over; whoever else moves, moves on from a CallVI.
LEMMA OwersStay ==
  ASSUME IInv, ForksAndJoins(prog), NEW t \in Clump,
         \A c \in Clump : c \in Elements(waiting[t]) => c \in Elements(waiting'[t]),
         \A c \in Clump : \/ savePc'[c] = savePc[c]
                          \/ c \in Elements(waiting'[t])
                          \/ Instr(c).op = "Branch" /\ savePc'[c] = Instr(c).arg
                          \/ savePc'[c] = savePc[c] + 1 /\ ~ (Instr(c).op = "Wait" /\ Instr(c).arg = t)
                          \/ Instr(c).op = "Done"
  PROVE  Owers(prog, t) \subseteq {c \in Triggerers(prog, t) :
           savePc'[c] \in Owing(prog, c, t) \/ c \in Elements(waiting'[t])}
<1> SUFFICES ASSUME NEW c \in Triggerers(prog, t), c \notin Elements(waiting'[t]),
                    savePc[c] \in Owing(prog, c, t) \/ c \in Elements(waiting[t])
             PROVE  savePc'[c] \in Owing(prog, c, t)
  BY DEF Owers
<1>1. c \in Clump /\ savePc[c] \in Owing(prog, c, t)
  BY DEF Triggerers
<1>2. CASE Instr(c).op = "Wait" /\ Instr(c).arg = t
  BY <1>1, <1>2
<1>3. CASE ~ (Instr(c).op = "Wait" /\ Instr(c).arg = t)
  BY <1>1, <1>3, OwingFlows DEF BranchOps
<1> QED BY <1>2, <1>3
\* No trigger has come for a clump that has been armed again.
LEMMA RoundOver ==
  ASSUME NEW p, ForksAndJoins(p), NEW t \in Clump, shortCount'[t] = FireCount[t]
  PROVE  RoundCounts(p, t)'
<1> DEFINE after == Owers(p, t)'
<1>1. after \in SUBSET Triggerers(p, t)
  BY DEF Owers
<1> HIDE DEF after
<1>2. Cardinality(after) \in Nat /\ FireCount[t] \in Nat
  BY <1>1, OwersFinite, ClumpAssumption
<1>3. FireCount[t] - shortCount'[t] <= Cardinality(after)
  BY <1>2
<1> QED BY <1>3 DEF RoundCounts, after

\* What the steps that trigger nobody have in common.
LEMMA RoundsKept ==
  ASSUME IInv, TriggersInv, prog' = prog,
         ForksAndJoins(prog) =>
           \A t \in Clump : Triggerers(prog, t) # {} =>
             \/ shortCount'[t] = FireCount[t]
             \/ /\ shortCount'[t] = shortCount[t]
                /\ \A c \in Clump : c \in Elements(waiting[t]) => c \in Elements(waiting'[t])
                /\ \A c \in Clump :
                     \/ savePc'[c] = savePc[c]
                     \/ c \in Elements(waiting'[t])
                     \/ Instr(c).op = "Branch" /\ savePc'[c] = Instr(c).arg
                     \/ savePc'[c] = savePc[c] + 1 /\ ~ (Instr(c).op = "Wait" /\ Instr(c).arg = t)
                     \/ Instr(c).op = "Done"
  PROVE  TriggersInv'
<1> SUFFICES ASSUME NEW p \in Programs, prog' = p, ForksAndJoins(p), NEW t \in Clump
             PROVE  RoundCounts(p, t)'
  BY DEF TriggersInv
<1>1. prog = p /\ ForksAndJoins(prog) /\ RoundCounts(p, t)
  BY DEF TriggersInv
<1>2. CASE Triggerers(p, t) = {}
  BY <1>2 DEF RoundCounts
<1>3. CASE Triggerers(p, t) # {} /\ shortCount'[t] = FireCount[t]
  BY <1>3, RoundOver
<1>4. CASE Triggerers(p, t) # {} /\ shortCount'[t] # FireCount[t]
  <2>1. shortCount'[t] = shortCount[t]
    BY <1>1, <1>4
  <2>2. Owers(prog, t) \subseteq {c \in Triggerers(prog, t) :
           savePc'[c] \in Owing(prog, c, t) \/ c \in Elements(waiting'[t])}
    BY <1>1, <1>4, OwersStay
  <2>3. Owers(p, t) \subseteq Owers(p, t)'
    BY <1>1, <2>2 DEF Owers
  <2> QED BY <1>1, <2>1, <2>3, RoundKept
<1> QED BY <1>2, <1>3, <1>4

\* A trigger is counted with the clump that now owes a Wait for it.
LEMMA TriggerRounds == IInv /\ TriggersInv /\ Trigger => TriggersInv'
<1> SUFFICES ASSUME IInv, TriggersInv, Trigger,
                    NEW p \in Programs, prog' = p, ForksAndJoins(p), NEW t \in Clump
             PROVE  RoundCounts(p, t)'
  BY DEF TriggersInv
<1> DEFINE target == Instr(running).arg
<1>1. running \in Clump /\ Instr(running).op = "Trigger" /\ target \in Clump
  BY Executing, AtInstruction DEF Trigger, IInv, ClumpOps
<1>2. /\ MayTrigger(target) /\ shortCount' = Triggered(target)
      /\ savePc' = [savePc EXCEPT ![running] = @ + 1] /\ UNCHANGED << prog, waiting >>
  BY DEF Trigger, Continue, ReturnToLoop
<1>3. prog = p /\ ForksAndJoins(prog) /\ RoundCounts(p, t)
  BY <1>2 DEF TriggersInv
<1>4. \A c \in Clump : savePc'[c] = IF c = running THEN savePc[c] + 1 ELSE savePc[c]
  BY <1>1, <1>2, SamePcs
<1>5. shortCount'[t] = IF t = target THEN shortCount[t] - 1 ELSE shortCount[t]
  BY <1>2, LoopType DEF Triggered
<1>6. Owers(p, t) \subseteq Owers(p, t)'
  <2>1. Owers(prog, t) \subseteq {c \in Triggerers(prog, t) :
           savePc'[c] \in Owing(prog, c, t) \/ c \in Elements(waiting'[t])}
    BY <1>1, <1>2, <1>3, <1>4, OwersStay
  <2> QED BY <1>3, <2>1 DEF Owers
<1>7. CASE t # target
  BY <1>3, <1>5, <1>6, <1>7, RoundKept
<1>8. CASE t = target
  <2> DEFINE before == Owers(p, t)
             after == Owers(p, t)'
  <2>1. before \in SUBSET Triggerers(p, t) /\ after \in SUBSET Triggerers(p, t)
    BY DEF Owers
  <2>2. running \in Triggerers(p, t)
    BY <1>1, <1>3, <1>8, AtInstruction DEF Triggerers, Instr, IInv
  <2>3. running \notin before /\ running \in after
    <3>1. savePc[running] \notin Owing(p, running, t) /\ savePc'[running] \in Owing(p, running, t)
      BY <1>1, <1>3, <1>4, <1>8, OwingFlows
    <3>2. running \notin Elements(waiting[t])
      BY RunningWaitsNowhere
    <3> QED BY <2>2, <3>1, <3>2 DEF Owers
  <2>4. shortCount[t] \in Nat /\ FireCount[t] \in Nat /\ FireCount[t] - shortCount[t] <= Cardinality(before)
    BY <1>3, <2>2, LoopType, ClumpAssumption DEF RoundCounts
  <2>5. before \subseteq after
    BY <1>6
  <2> HIDE DEF before, after
  <2>6. Cardinality(before \cup {running}) = Cardinality(before) + 1
    BY <2>1, <2>2, <2>3, OwersFinite
  <2>7. IsFiniteSet(after) /\ Cardinality(after) \in Nat /\ Cardinality(before) \in Nat
    BY <2>1, OwersFinite
  <2>8. Cardinality(before \cup {running}) <= Cardinality(after)
    BY <2>3, <2>5, <2>7, FS_Subset
  <2>9. FireCount[t] - shortCount'[t] <= Cardinality(after)
    BY <1>5, <1>8, <2>4, <2>6, <2>7, <2>8
  <2> QED BY <2>9 DEF RoundCounts, after
<1> QED BY <1>7, <1>8
\* Whoever links itself behind its Wait still owes it, now on the list; a Wait that
\* is over was for a clump that has been armed again.
LEMMA WaitRounds == IInv /\ TriggersInv /\ (WaitForDone \/ WaitIsOver) => TriggersInv'
<1> SUFFICES ASSUME IInv, TriggersInv, WaitForDone \/ WaitIsOver PROVE TriggersInv'
  OBVIOUS
<1> DEFINE target == Instr(running).arg
<1>1. running \in Clump /\ target \in Clump
  BY Executing, AtInstruction DEF WaitForDone, WaitIsOver, IInv, ClumpOps
<1>2. savePc' = [savePc EXCEPT ![running] = @ + 1] /\ UNCHANGED << prog, shortCount >>
  BY DEF WaitForDone, WaitIsOver, Continue, Suspend, ReturnToLoop
<1>3. \A c \in Clump : savePc'[c] = IF c = running THEN savePc[c] + 1 ELSE savePc[c]
  BY <1>1, <1>2, SamePcs
<1>4. CASE WaitForDone
  <2> DEFINE front == << running >>
  <2>1. waiting' = [waiting EXCEPT ![target] = front \o waiting[target]]
    BY <1>4 DEF WaitForDone, InsertIntoWaitList
  <2>2. waiting \in [Clump -> Seq(Clump)] /\ front \in Seq(Clump) /\ Elements(front) = {running}
    BY <1>1, LoopType DEF Configuration, Elements
  <2> HIDE DEF front
  <2>3. Elements(front \o waiting[target]) = {running} \cup Elements(waiting[target])
    BY <1>1, <2>2, ConcatElements
  <2>4. \A t \in Clump : Elements(waiting'[t]) =
          IF t = target THEN {running} \cup Elements(waiting[t]) ELSE Elements(waiting[t])
    BY <1>1, <2>1, <2>2, <2>3
  <2> QED BY <1>1, <1>2, <1>3, <2>4, RoundsKept
<1>5. CASE WaitIsOver
  <2>1. waiting' = waiting /\ shortCount[target] = FireCount[target]
    BY <1>5 DEF WaitIsOver
  <2> QED BY <1>1, <1>2, <1>3, <2>1, RoundsKept
<1> QED BY <1>4, <1>5

\* A call counts down a root clump, which nobody triggers.
LEMMA CallRounds == IInv /\ TriggersInv /\ (CallIdleVI \/ CallBusyVI) => TriggersInv'
<1> SUFFICES ASSUME IInv, TriggersInv, CallIdleVI \/ CallBusyVI PROVE TriggersInv'
  OBVIOUS
<1> DEFINE callee == Instr(running).arg
<1>1. running \in Clump /\ callee \in Clump /\ Instr(running).op = "CallVI"
  BY Executing, AtInstruction DEF CallIdleVI, CallBusyVI, IInv, ClumpOps
<1>2. UNCHANGED << prog, savePc >>
  BY DEF CallIdleVI, CallBusyVI, Suspend, ReturnToLoop
<1>3. CASE CallIdleVI
  <2>1. shortCount' = Triggered(callee) /\ waiting' = waiting
    BY <1>3 DEF CallIdleVI
  <2>2. \A t \in Clump : t # callee => shortCount'[t] = shortCount[t]
    BY <2>1, LoopType DEF Triggered
  <2>3. callee \in RootClumps(prog)
    BY <1>1, AtInstruction DEF RootClumps, Instr, IInv
  <2>4. ForksAndJoins(prog) => Triggerers(prog, callee) = {}
    BY <2>3 DEF ForksAndJoins
  <2> QED BY <1>2, <2>1, <2>2, <2>4, RoundsKept
<1>4. CASE CallBusyVI
  <2>1. shortCount' = shortCount /\ waiting' = [waiting EXCEPT ![callee] = Append(@, running)]
    BY <1>4 DEF CallBusyVI, AppendToWaitList
  <2>2. waiting \in [Clump -> Seq(Clump)]
    BY LoopType DEF Configuration
  <2>3. Elements(Append(waiting[callee], running)) = Elements(waiting[callee]) \cup {running}
    BY <1>1, <2>2, AppendElements
  <2>4. \A t \in Clump : \A c \in Clump : c \in Elements(waiting[t]) => c \in Elements(waiting'[t])
    BY <1>1, <2>1, <2>2, <2>3
  <2> QED BY <1>2, <2>1, <2>4, RoundsKept
<1> QED BY <1>3, <1>4

\* Whoever is done owes nothing; its own round is over, and its caller moves on.
LEMMA DoneRounds == IInv /\ TriggersInv /\ Done => TriggersInv'
<1> SUFFICES ASSUME IInv, TriggersInv, Done PROVE TriggersInv'
  OBVIOUS
<1>1. running \in Clump /\ Instr(running).op = "Done"
  BY Executing DEF Done
<1>2. /\ waiting' = [waiting EXCEPT ![running] = << >>]
      /\ shortCount' = Rearmed(running) /\ savePc' = PcsAfterDone(running) /\ prog' = prog
  BY DEF Done, Suspend, ReturnToLoop
<1>3. /\ shortCount'[running] = FireCount[running]
      /\ \A t \in Clump : t # running => shortCount'[t] = shortCount[t] /\ waiting'[t] = waiting[t]
  BY <1>1, <1>2, LoopType DEF Rearmed, Configuration
<1>4. ASSUME NEW c \in Clump
      PROVE  \/ savePc'[c] = savePc[c]
             \/ Instr(c).op = "CallVI" /\ savePc'[c] = savePc[c] + 1
             \/ Instr(c).op = "Done"
  <2>1. CASE c = caller[running] /\ c # running
    <3>1. Instr(c).op = "CallVI"
      BY <1>1, <2>1, CallerElsewhere, ClumpAssumption
    <3> QED BY <1>2, <2>1, <3>1 DEF PcsAfterDone
  <2>2. CASE c # caller[running] \/ c = running
    BY <1>1, <1>2, <2>2 DEF PcsAfterDone
  <2> QED BY <2>1, <2>2
<1> QED BY <1>2, <1>3, <1>4, RoundsKept

\* The other instructions trigger nobody and wait for nobody.
LEMMA InstructionRounds == IInv /\ TriggersInv /\ ClumpInstruction => TriggersInv'
<1> SUFFICES ASSUME IInv, TriggersInv, ClumpInstruction PROVE TriggersInv'
  OBVIOUS
<1>1. CASE NoStop
  <2>1. running \in Clump /\ Instr(running).op = "Stop"
    BY <1>1, Executing DEF NoStop
  <2>2. savePc' = [savePc EXCEPT ![running] = @ + 1] /\ UNCHANGED << prog, shortCount, waiting >>
    BY <1>1 DEF NoStop, Continue, ReturnToLoop
  <2>3. \A c \in Clump : savePc'[c] = IF c = running THEN savePc[c] + 1 ELSE savePc[c]
    BY <2>1, <2>2, SamePcs
  <2> QED BY <2>1, <2>2, <2>3, RoundsKept
<1>2. CASE Branch
  <2>1. running \in Clump /\ Instr(running).op = "Branch"
    BY <1>2, Executing DEF Branch
  <2>2. PICK to \in {Instr(running).arg, savePc[running] + 1} :
          savePc' = [savePc EXCEPT ![running] = to]
    BY <1>2 DEF Branch
  <2>3. UNCHANGED << prog, shortCount, waiting >>
    BY <1>2 DEF Branch, ReturnToLoop
  <2>4. \A c \in Clump : savePc'[c] = IF c = running THEN to ELSE savePc[c]
    BY <2>1, <2>2, SamePcs
  <2> QED BY <2>1, <2>3, <2>4, RoundsKept
<1>3. CASE Stop
  <2>1. UNCHANGED << prog, savePc, shortCount, waiting >>
    BY <1>3 DEF Stop, ReturnToLoop
  <2> QED BY <2>1, RoundsKept
<1> QED BY <1>1, <1>2, <1>3, TriggerRounds, WaitRounds, CallRounds, DoneRounds DEF ClumpInstruction

\* The host starts root clumps only, and the loop triggers nobody.
LEMMA LoopRounds ==
  IInv /\ TriggersInv /\ ((\E c \in TopVI : PressGo(c)) \/ ExecuteSlices \/ EndBurst) => TriggersInv'
<1> SUFFICES ASSUME IInv, TriggersInv, (\E c \in TopVI : PressGo(c)) \/ ExecuteSlices \/ EndBurst
             PROVE  TriggersInv'
  OBVIOUS
<1>1. CASE \E c \in TopVI : PressGo(c)
  <2>1. PICK c \in TopVI : PressGo(c)
    BY <1>1
  <2>2. shortCount' = Triggered(c) /\ UNCHANGED << prog, savePc, waiting >>
    BY <2>1 DEF PressGo
  <2>3. \A t \in Clump : t # c => shortCount'[t] = shortCount[t]
    BY <2>2, LoopType DEF Triggered
  <2>4. ForksAndJoins(prog) => Triggerers(prog, c) = {}
    BY DEF ForksAndJoins, RootClumps
  <2> QED BY <2>2, <2>3, <2>4, RoundsKept
<1>2. CASE ExecuteSlices \/ EndBurst
  <2>1. UNCHANGED << prog, savePc, shortCount, waiting >>
    BY <1>2 DEF ExecuteSlices, EnterSlices, EndBurst, LeaveBurst
  <2> QED BY <2>1, RoundsKept
<1> QED BY <1>1, <1>2

\* No trigger has come at first, and every step keeps count.
LEMMA TriggersInvariance == Spec => []TriggersInv
<1>1. SchedInit => TriggersInv
  <2> SUFFICES ASSUME SchedInit, NEW p \in Programs, ForksAndJoins(p), NEW t \in Clump
               PROVE  RoundCounts(p, t)
    BY DEF TriggersInv
  <2>1. shortCount[t] = FireCount[t] /\ FireCount[t] \in Nat
    BY ClumpAssumption DEF SchedInit
  <2>2. Owers(p, t) \in SUBSET Triggerers(p, t)
    BY DEF Owers
  <2>3. Cardinality(Owers(p, t)) \in Nat
    BY <2>2, OwersFinite
  <2>4. FireCount[t] - shortCount[t] <= Cardinality(Owers(p, t))
    BY <2>1, <2>3
  <2> QED BY <2>4 DEF RoundCounts
<1>2. IInv /\ TriggersInv /\ [Next]_schedVars => TriggersInv'
  <2> SUFFICES ASSUME IInv, TriggersInv, [Next]_schedVars PROVE TriggersInv'
    OBVIOUS
  <2>1. CASE Next
    BY <2>1, InstructionRounds, LoopRounds DEF Next
  <2>2. CASE UNCHANGED schedVars
    BY <2>2, RoundsKept DEF schedVars
  <2> QED BY <2>1, <2>2
<1> QED BY <1>1, <1>2, Invariance, PTL DEF Spec

(***************************************************************************)
(* In every program that forks and joins, loops included, Trigger finds a  *)
(* trigger left to count down and CallVI a VI that fires on one trigger    *)
(* (the asserts of VIClump::Trigger and of CallVI in VirtualInstrument     *)
(* .cpp): Done arms a clump again after all its triggers have come and     *)
(* before those of the next round.                                         *)
(***************************************************************************)
THEOREM ForksFindTriggersLeft == Spec => [](ForksAndJoins(prog) => TriggersLeft)
<1>1. ASSUME IInv, WaitInv, TriggersInv, ForksAndJoins(prog), running # NoClump
      PROVE  /\ Instr(running).op = "Trigger" => MayTrigger(Instr(running).arg)
             /\ Instr(running).op = "CallVI" => shortCount[Instr(running).arg] \in {0, 1}
  <2> DEFINE t == Instr(running).arg
             owers == Owers(prog, t)
  <2>1. running \in Clump
    BY <1>1, LoopType DEF Configuration
  <2>2. savePc[running] \in 1 .. Len(prog[running])
    BY <1>1, <2>1, AtInstruction DEF IInv
  <2>3. ASSUME Instr(running).op \in {"Trigger", "CallVI"}
        PROVE  t \in Clump /\ shortCount[t] \in Nat /\ FireCount[t] \in Nat
    BY <1>1, <2>1, <2>3, AtInstruction, LoopType, ClumpAssumption DEF IInv, ClumpOps
  <2>4. ASSUME Instr(running).op = "Trigger" PROVE MayTrigger(t)
    <3>1. running \in Triggerers(prog, t)
      BY <2>1, <2>2, <2>4 DEF Triggerers, Instr
    <3>2. running \notin owers
      <4>1. savePc[running] \notin Owing(prog, running, t)
        BY <1>1, <2>1, <2>3, <2>4, OwingFlows
      <4>2. running \notin Elements(waiting[t])
        BY <1>1, <2>3, <2>4, RunningWaitsNowhere
      <4> QED BY <4>1, <4>2 DEF Owers
    <3>3. prog \in Programs
      BY <1>1 DEF IInv, SchedTypeOK
    <3>4. FireCount[t] - shortCount[t] <= Cardinality(owers)
      BY <1>1, <2>3, <2>4, <3>1, <3>3 DEF TriggersInv, RoundCounts
    <3>5. owers \in SUBSET Triggerers(prog, t)
      BY DEF Owers
    <3> HIDE DEF owers
    <3>6. Cardinality(owers) < FireCount[t] /\ Cardinality(owers) \in Nat
      BY <1>1, <2>3, <2>4, <3>1, <3>2, <3>5, OwersFinite
    <3>7. shortCount[t] > 0
      BY <2>3, <2>4, <3>4, <3>6
    <3>8. t \notin Elements(runQueue) /\ \A d \in Clump : t \notin Elements(waiting[d])
      BY <1>1, <2>3, <2>4, <3>7, LoopType DEF Configuration, Placement
    <3>9. MayLink(t)
      BY <1>1, <2>3, <2>4, <3>8, Unlinked
    <3> QED BY <3>7, <3>9 DEF MayTrigger
  <2>5. ASSUME Instr(running).op = "CallVI" PROVE shortCount[t] \in {0, 1}
    <3>1. t \in RootClumps(prog)
      BY <2>1, <2>2, <2>3, <2>5 DEF RootClumps, Instr
    <3>2. FireCount[t] = 1 /\ shortCount[t] <= FireCount[t]
      BY <1>1, <2>3, <2>5, <3>1 DEF ForksAndJoins, WaitInv, CountsDown
    <3> QED BY <2>3, <2>5, <3>2
  <2> QED BY <2>4, <2>5
<1>2. IInv /\ WaitInv /\ TriggersInv => (ForksAndJoins(prog) => TriggersLeft)
  BY <1>1 DEF TriggersLeft
<1> QED BY <1>2, Invariance, WaitInvariance, TriggersInvariance, PTL
=============================================================================
