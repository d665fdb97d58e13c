-------------------------- MODULE MCClumpScheduler --------------------------
(***************************************************************************)
(* Program families for model checking ClumpScheduler: two top VIs a and b *)
(* that share the subVIs s and t, and a top VI with parallel clumps.       *)
(***************************************************************************)
EXTENDS ClumpScheduler, TLC

CONSTANTS a, b, s, t, p, j

Op(op, arg) == [op |-> op, arg |-> arg]
DoneOp == Op("Done", 0)
StopOp == Op("Stop", 0)
Code(steps) == Append(steps, DoneOp)

SeqsUpTo(S, n) == UNION {[1 .. k -> S] : k \in 1 .. n}

Instructions ==
  {Op(op, x) : op \in {"Trigger", "Wait", "CallVI", "Branch", "Stop", "Done"},
               x \in {a, b, s, t, p, j} \cup 0 .. 3}

-----------------------------------------------------------------------------
(* Every program is over the same six clumps; those a program does not name *)
(* have nothing but their Done.  Two top VIs a and b, subVIs s and t, a     *)
(* parallel clump p and a join j that needs two triggers.                   *)

AllClumps == {a, b, s, t, p, j}
FireCounts == [c \in AllClumps |-> IF c = j THEN 2 ELSE 1]
Unused == [c \in AllClumps |-> Code(<< >>)]

\* Calls: every pair of top VIs of at most two steps, each a call, a branch
\* back or a stop, over subVIs of which s may call t.
CallSteps == {Op("CallVI", s), Op("CallVI", t), Op("Branch", 1)}
Bodies(steps, n) == {Code(q) : q \in SeqsUpTo(steps, n)}

CallPrograms ==
  {(a :> ca) @@ (b :> cb) @@ (s :> cs) @@ Unused :
     ca \in Bodies(CallSteps, 2),
     cb \in Bodies(CallSteps, 2) \cup {Code(<< Op("CallVI", s), StopOp >>)},
     cs \in {Code(<< >>), Code(<< Op("CallVI", t) >>), Code(<< StopOp >>)}}

\* Parallel clumps: a starts p, and j needs the triggers of both a and p; all
\* of them share the subVI s.
ParallelPrograms ==
  {(a :> Code(<< Op("Trigger", p), Op("Trigger", j) >> \o ends))
     @@ (p :> Code(before \o << Op("Trigger", j) >> \o after))
     @@ (j :> Code(join)) @@ Unused :
       ends \in {<< Op("Wait", p), Op("Wait", j) >>,
                 << Op("CallVI", s), Op("Wait", j), Op("Wait", p) >>},
       before \in {<< >>, << Op("CallVI", s) >>, << Op("Branch", 1) >>},
       after \in {<< >>, << Op("CallVI", s) >>},
       join \in {<< >>, << Op("CallVI", s) >>, << Op("Wait", p), Op("CallVI", s) >>}}

\* The same with everybody waiting for what it has triggered, in a loop.
ForkJoinPrograms ==
  {(a :> Code(<< Op("Trigger", p), Op("Trigger", j) >> \o ends))
     @@ (p :> Code(before \o << Op("Trigger", j), Op("Wait", j) >>))
     @@ (j :> Code(join)) @@ Unused :
       ends \in {<< Op("Wait", j), Op("Wait", p), Op("Branch", 1) >>,
                 << Op("Wait", p), Op("Branch", 3), Op("Wait", j), Op("Branch", 1) >>},
       before \in {<< >>, << Op("CallVI", s) >>},
       join \in {<< >>, << Op("CallVI", s) >>}}

ASSUME ForkJoinAssumption == \A program \in ForkJoinPrograms : ForksAndJoins(program)

SchedulerPrograms == CallPrograms \cup ParallelPrograms \cup ForkJoinPrograms
=============================================================================
