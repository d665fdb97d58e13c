--------------------------- MODULE ClumpScheduler ---------------------------
(***************************************************************************)
(* The cooperative clump scheduler of the Vireo runtime: ExecutionContext  *)
(* and the clump half of VirtualInstrument (source/core/ExecutionContext   *)
(* .cpp, VirtualInstrument.cpp, Queue.cpp).                                *)
(*                                                                         *)
(* A VI is a set of clumps; a clump is a sequence of instructions that     *)
(* runs when its short count has been triggered down to zero.  One thread  *)
(* runs every clump: it takes clumps from the run queue in turn, executes  *)
(* a burst of instructions, and hands control back to its host between     *)
(* calls of ExecuteSlices.                                                 *)
(*                                                                         *)
(* The program is data: prog[c] is the instruction list of clump c, chosen *)
(* initially from Programs and never changed, so one run covers a family   *)
(* of programs.  The build modelled is the one with VIREO_ASSERT enabled   *)
(* (the default of make-it/Makefile, and of VIREO_DEBUG).  An assertion    *)
(* that fails ends the process, so what a handler asserts is a guard of    *)
(* its action, and AssertsHold says that no such guard ever stops it.      *)
(***************************************************************************)
EXTENDS Integers, FiniteSets, Lists, Functions

CONSTANTS
  Clump,      \* the clumps of every loaded VI
  NoClump,    \* the null clump pointer
  TopVI,      \* root clumps of the VIs the host starts (PressGo)
  FireCount,  \* FireCount[c]: triggers needed before clump c runs
  Instruction, \* the instructions: records with fields op and arg, and others
  Programs    \* the programs considered: functions from clumps to code

ClumpOps == {"Trigger", "Wait", "CallVI"}
BranchOps == {"Branch"}

(***************************************************************************)
(* NoClump is not a clump, every clump needs at least one trigger          *)
(* (VirtualInstrument::Init and the fireCount field of the VIA clump), and *)
(* the host starts only clumps that fire on one trigger.                   *)
(***************************************************************************)
ASSUME ClumpAssumption ==
  /\ NoClump \notin Clump
  /\ FireCount \in [Clump -> Nat \ {0}]
  /\ TopVI \subseteq Clump
  /\ \A c \in TopVI : FireCount[c] = 1

(***************************************************************************)
(* What the VIA parser guarantees of the code of a clump: it ends with     *)
(* Done, branches stay inside the clump and every clump operand names a    *)
(* clump of the program.                                                   *)
(***************************************************************************)
WellFormed(code) ==
  /\ code \in Seq(Instruction)
  /\ code # << >>
  /\ code[Len(code)].op = "Done"
  /\ \A i \in 1 .. Len(code) :
       /\ code[i].op \in ClumpOps => code[i].arg \in Clump
       /\ code[i].op \in BranchOps => code[i].arg \in 1 .. Len(code)

ASSUME ProgramAssumption ==
  \A p \in Programs : DOMAIN p = Clump /\ \A c \in Clump : WellFormed(p[c])

VARIABLES
  prog,        \* the loaded program
  savePc,      \* index of the instruction each clump executes next (_savePc)
  shortCount,  \* triggers left before the clump runs (_shortCount)
  caller,      \* clump suspended in the CallVI that started this one (_caller)
  waiting,     \* clumps linked on this clump's _waitingClumps list
  runQueue,    \* ExecutionContext::_runQueue
  running,     \* ExecutionContext::_runningQueueElt
  phase,       \* "host": outside ExecuteSlices; "burst", "ran": inside it
  reply,       \* the last answer of ExecuteSlices, "none" while it runs
  stopped      \* history: the clumps that a Stop instruction has dropped

schedVars == << prog, savePc, shortCount, caller, waiting, runQueue, running,
                phase, reply, stopped >>

SchedInit ==
  /\ prog \in Programs
  /\ savePc = [c \in Clump |-> 1]
  /\ shortCount = FireCount
  /\ caller = [c \in Clump |-> NoClump]
  /\ waiting = [c \in Clump |-> << >>]
  /\ runQueue = << >>
  /\ running = NoClump
  /\ phase = "host"
  /\ reply = "none"
  /\ stopped = {}

-----------------------------------------------------------------------------
(* The intrusive lists.  A clump has one _next link, shared by the run      *)
(* queue and the waiting lists; it is non-null for every member of a list   *)
(* but the last.                                                            *)

AllButLast(s) == {s[i] : i \in 1 .. Len(s) - 1}

NextIsNull(c) ==
  /\ c \notin AllButLast(runQueue)
  /\ \A d \in Clump : c \notin AllButLast(waiting[d])

\* What VIClumpQueue::Enqueue asserts of the clump it adds.
MayLink(c) == NextIsNull(c) /\ c \notin Elements(runQueue)

\* Mutated: the only element of the queue is not taken off.
DequeueFromKeepsLast(rq) ==
  \/ rq = << >> /\ running' = NoClump /\ runQueue' = rq
  \/ rq # << >> /\ running' = Head(rq) /\ runQueue' = IF Len(rq) = 1 THEN rq ELSE Tail(rq)

\* Take the next clump to run from rq (VIClumpQueue::Dequeue).
DequeueFrom(rq) ==
  \/ rq = << >> /\ running' = NoClump /\ runQueue' = rq
  \/ rq # << >> /\ running' = Head(rq) /\ runQueue' = Tail(rq)

Instr(c) == prog[c][savePc[c]]

\* The thread is inside the loop of ExecuteSlices and executes op next.
Executes(op) == phase # "host" /\ running # NoClump /\ Instr(running).op = op

\* Every instruction function returns to the loop of ExecuteSlices.
ReturnToLoop ==
  /\ phase' = "ran"
  /\ UNCHANGED << prog, reply >>

\* The instruction returns _NextInstruction() and its clump stays running.
Continue ==
  /\ savePc' = [savePc EXCEPT ![running] = @ + 1]
  /\ UNCHANGED << running, stopped >>
  /\ ReturnToLoop

\* SuspendRunningQueueElt: remember where to resume, run something else.
Suspend(pcs, rq) ==
  /\ savePc' = pcs
  /\ DequeueFrom(rq)
  /\ UNCHANGED stopped
  /\ ReturnToLoop

-----------------------------------------------------------------------------
(* Instructions.                                                            *)

\* VIClump::Trigger: one trigger less to wait for; at zero the clump is ready.
MayTrigger(c) == shortCount[c] > 0 /\ (shortCount[c] = 1 => MayLink(c))
Triggered(c) == [shortCount EXCEPT ![c] = @ - 1]
Fired(c) == IF shortCount[c] = 1 THEN Append(runQueue, c) ELSE runQueue

Trigger ==
  /\ Executes("Trigger")
  /\ MayTrigger(Instr(running).arg)
  /\ shortCount' = Triggered(Instr(running).arg)
  /\ runQueue' = Fired(Instr(running).arg)
  /\ Continue
  /\ UNCHANGED << caller, waiting >>

\* Wait: a target at its full count has finished; otherwise link the clump at
\* the head of the target's waiting list and resume after the instruction.
InsertIntoWaitList(c) == [waiting EXCEPT ![c] = << running >> \o @]

WaitForDone ==
  /\ Executes("Wait")
  /\ LET target == Instr(running).arg
     IN  /\ shortCount[target] # FireCount[target]
         /\ NextIsNull(running)
         /\ waiting' = InsertIntoWaitList(target)
  /\ Suspend([savePc EXCEPT ![running] = @ + 1], runQueue)
  /\ UNCHANGED << shortCount, caller >>

WaitIsOver ==
  /\ Executes("Wait")
  /\ shortCount[Instr(running).arg] = FireCount[Instr(running).arg]
  /\ Continue
  /\ UNCHANGED << shortCount, caller, waiting, runQueue >>

\* CallVI on an idle VI: become its caller, trigger it and stay at the call
\* instruction until Done moves past it.
CallIdleVI ==
  /\ Executes("CallVI")
  /\ LET callee == Instr(running).arg
     IN  /\ shortCount[callee] = 1
         /\ caller[callee] = NoClump
         /\ MayTrigger(callee)
         /\ caller' = [caller EXCEPT ![callee] = running]
         /\ shortCount' = Triggered(callee)
         /\ Suspend(savePc, Fired(callee))
  /\ UNCHANGED waiting

\* CallVI on an active VI: queue behind its other callers and retry later.
AppendToWaitList(c) == [waiting EXCEPT ![c] = Append(@, running)]

CallBusyVI ==
  /\ Executes("CallVI")
  /\ shortCount[Instr(running).arg] = 0
  /\ NextIsNull(running)
  /\ waiting' = AppendToWaitList(Instr(running).arg)
  /\ Suspend(savePc, runQueue)
  /\ UNCHANGED << shortCount, caller >>

\* Branch and the conditional branches: to the target or to the next
\* instruction, whichever the data says.
Branch ==
  /\ Executes("Branch")
  /\ \E to \in {Instr(running).arg, savePc[running] + 1} :
       savePc' = [savePc EXCEPT ![running] = to]
  /\ ReturnToLoop
  /\ UNCHANGED << shortCount, caller, waiting, runQueue, running, stopped >>

\* Done resumes the caller after its CallVI, then every clump waiting for this
\* one in list order, re-arms the clump and runs something else.
Callers(c) == IF caller[c] = NoClump THEN << >> ELSE << caller[c] >>

\* Mutated: the caller, or the waiting clumps, are forgotten.
ResumedWithoutCaller(c) == waiting[c]
ResumedWithoutWaiting(c) == Callers(c)

Resumed(c) == Callers(c) \o waiting[c]

MayResume(s) ==
  /\ \A i \in 1 .. Len(s) : shortCount[s[i]] = 0 /\ s[i] \notin Elements(runQueue)
  /\ IsInjective(s)

\* Mutated: Done does not start the clump over, or does not move its caller.
PcsAfterDoneNoReset(c) ==
  [d \in Clump |-> IF d = c \/ d = caller[c] THEN savePc[d] + 1 ELSE savePc[d]]
PcsAfterDoneStay(c) == [savePc EXCEPT ![c] = 1]

PcsAfterDone(c) ==
  [d \in Clump |-> IF d = c THEN 1
                   ELSE IF d = caller[c] THEN savePc[d] + 1 ELSE savePc[d]]

\* Mutated: the caller stays recorded; the clump is re-armed for one trigger.
CallersAfterDoneKept(c) == caller
RearmedForOne(c) == [shortCount EXCEPT ![c] = 1]

CallersAfterDone(c) == [caller EXCEPT ![c] = NoClump]
Rearmed(c) == [shortCount EXCEPT ![c] = FireCount[c]]

Done ==
  /\ Executes("Done")
  /\ MayResume(Resumed(running))
  /\ caller' = CallersAfterDone(running)
  /\ waiting' = [waiting EXCEPT ![running] = << >>]
  /\ shortCount' = Rearmed(running)
  /\ Suspend(PcsAfterDone(running), runQueue \o Resumed(running))

\* Stop, when its input says so, forgets the running clump: it is in no list
\* and never reaches its Done.
Stop ==
  /\ Executes("Stop")
  /\ running' = NoClump
  /\ stopped' = stopped \cup {running}
  /\ ReturnToLoop
  /\ UNCHANGED << savePc, shortCount, caller, waiting, runQueue >>

NoStop ==
  /\ Executes("Stop")
  /\ Continue
  /\ UNCHANGED << shortCount, caller, waiting, runQueue >>

ClumpInstruction ==
  \/ Trigger
  \/ WaitForDone
  \/ WaitIsOver
  \/ CallIdleVI
  \/ CallBusyVI
  \/ Branch
  \/ Done
  \/ Stop
  \/ NoStop

-----------------------------------------------------------------------------
(* The loop of ExecuteSlices and its host.  rq is the run queue after the   *)
(* timers have been checked, timerPending whether any timer is left.        *)

\* VirtualInstrument::PressGo: the host starts a top VI that is not running.
PressGo(c) ==
  /\ phase = "host"
  /\ shortCount[c] >= 1
  /\ MayTrigger(c)
  /\ shortCount' = Triggered(c)
  /\ runQueue' = Fired(c)
  /\ UNCHANGED << prog, savePc, caller, waiting, running, phase, reply, stopped >>

\* The answer of ExecuteSlices.
Answer(rq, timerPending) ==
  IF rq # << >> THEN "InRunQueue"
  ELSE IF timerPending THEN "Waiting" ELSE "Finished"

LeaveLoop(rq, timerPending) ==
  /\ runQueue' = rq
  /\ running' = NoClump
  /\ phase' = "host"
  /\ reply' = Answer(rq, timerPending)

\* Start a burst of the next ready clump; with none ready the loop ends.
NextClump(rq, timerPending) ==
  \/ /\ rq # << >>
     /\ DequeueFrom(rq)
     /\ phase' = "burst"
     /\ reply' = "none"
  \/ rq = << >> /\ LeaveLoop(rq, timerPending)

\* Mutated: the running clump goes to the front.
RequeuedInFront(rq) == IF running = NoClump THEN rq ELSE << running >> \o rq

\* The end of a burst.  With time left the running clump, if there is one,
\* goes behind the others (alone it just goes on); with no time left it goes
\* back to the run queue and the host gets its answer.
Requeued(rq) == IF running = NoClump THEN rq ELSE Append(rq, running)

LeaveBurst(rq, timerPending) ==
  /\ phase # "host"
  /\ phase = "ran" \/ running = NoClump
  /\ NextIsNull(running) /\ running \notin Elements(rq)
  /\ \/ NextClump(Requeued(rq), timerPending)
     \/ LeaveLoop(Requeued(rq), timerPending)
  /\ UNCHANGED << prog, savePc, shortCount, caller, waiting, stopped >>

EnterSlices(rq, timerPending) ==
  /\ phase = "host"
  /\ NextClump(rq, timerPending)
  /\ UNCHANGED << prog, savePc, shortCount, caller, waiting, stopped >>

ExecuteSlices == EnterSlices(runQueue, FALSE)
EndBurst == LeaveBurst(runQueue, FALSE)

Next ==
  \/ ClumpInstruction
  \/ \E c \in TopVI : PressGo(c)
  \/ ExecuteSlices
  \/ EndBurst

Spec == SchedInit /\ [][Next]_schedVars

(***************************************************************************)
(* Fairness: the loop executes its instructions, its breakout count ends   *)
(* every burst, and the host calls ExecuteSlices again while it is told    *)
(* that clumps are in the run queue (RunExec in CommandLine/main.cpp,      *)
(* executeSlicesUntilClumpsFinished in io/module_eggShell.js).             *)
(***************************************************************************)
FairSpec ==
  /\ Spec
  /\ WF_schedVars(ClumpInstruction)
  /\ WF_schedVars(EndBurst)
  /\ WF_schedVars(ExecuteSlices)
-----------------------------------------------------------------------------
(* Properties.                                                              *)

(***************************************************************************)
(* Types of the scheduler's state.                                         *)
(***************************************************************************)
SchedTypeOK ==
  /\ prog \in Programs
  /\ savePc \in [Clump -> Nat \ {0}]
  /\ \A c \in Clump : savePc[c] \in 1 .. Len(prog[c])
  /\ shortCount \in [Clump -> Nat]
  /\ caller \in [Clump -> Clump \cup {NoClump}]
  /\ waiting \in [Clump -> Seq(Clump)]
  /\ runQueue \in Seq(Clump)
  /\ running \in Clump \cup {NoClump}
  /\ phase \in {"host", "burst", "ran"}
  /\ reply \in {"none", "InRunQueue", "Waiting", "Finished"}
  /\ stopped \subseteq Clump

(***************************************************************************)
(* No clump is lost and none is scheduled twice: an active clump (no       *)
(* triggers left to wait for) is in exactly one of the run queue, the      *)
(* waiting lists, the suspended callers, the processor and the clumps that *)
(* a Stop has dropped, and there only once; any other clump is in none.    *)
(* This is what the shared _next link relies on in every list operation of *)
(* Queue.cpp and VirtualInstrument.cpp.                                    *)
(***************************************************************************)
Whereabouts == {"run queue", "waiting list", "call", "processor", "stopped"}

IsAt(place, c) ==
  \/ place = "run queue" /\ c \in Elements(runQueue)
  \/ place = "waiting list" /\ \E d \in Clump : c \in Elements(waiting[d])
  \/ place = "call" /\ \E d \in Clump : caller[d] = c
  \/ place = "processor" /\ running = c
  \/ place = "stopped" /\ c \in stopped

LinkedOnce ==
  /\ IsInjective(runQueue)
  /\ \A d \in Clump : IsInjective(waiting[d])
  /\ \A d, e \in Clump : d # e =>
       /\ Elements(waiting[d]) \cap Elements(waiting[e]) = {}
       /\ caller[d] = caller[e] => caller[d] = NoClump

OnePlace ==
  /\ LinkedOnce
  /\ \A c \in Clump :
       /\ shortCount[c] = 0 <=> \E place \in Whereabouts : IsAt(place, c)
       /\ \A here, there \in Whereabouts : IsAt(here, c) /\ IsAt(there, c) => here = there

(***************************************************************************)
(* No VIREO_ASSERT on the scheduling path fails, whatever the program: the *)
(* running clump is linked nowhere, an idle callee has no caller and is in *)
(* no list, and everything that Done resumes can join the run queue.       *)
(***************************************************************************)
AssertsHold ==
  running # NoClump =>
    /\ shortCount[running] = 0
    /\ MayLink(running)
    /\ LET i == Instr(running)
       IN  /\ i.op = "CallVI" /\ shortCount[i.arg] = 1 =>
                caller[i.arg] = NoClump /\ MayTrigger(i.arg)
           /\ i.op = "Done" => MayResume(Resumed(running))

(***************************************************************************)
(* The two asserts that rest on the program: Trigger finds a trigger left  *)
(* to count down and CallVI a root clump that fires on one trigger.  In    *)
(* the programs of the runs every clump triggers its successors once per   *)
(* run, so a failure would mean that a clump ran twice, or was re-armed    *)
(* before its triggers came.                                               *)
(***************************************************************************)
TriggersLeft ==
  running # NoClump =>
    LET i == Instr(running)
    IN  /\ i.op = "Trigger" => MayTrigger(i.arg)
        /\ i.op = "CallVI" => shortCount[i.arg] \in {0, 1}

(***************************************************************************)
(* A family of programs in which they hold, that of the VIA code that is   *)
(* written for parallel loops and branches (test-it/ViaTests/Parallel.via  *)
(* and others): whoever triggers a clump waits for it before it triggers   *)
(* it again or is done, and there are no more clumps that trigger it than  *)
(* it needs triggers.  The clumps that the host starts or a CallVI names   *)
(* are root clumps, which fire on one trigger and are triggered by nobody. *)
(***************************************************************************)
Triggerers(p, t) ==
  {c \in Clump : \E i \in 1 .. Len(p[c]) : p[c][i].op = "Trigger" /\ p[c][i].arg = t}

RootClumps(p) ==
  TopVI \cup {t \in Clump : \E c \in Clump : \E i \in 1 .. Len(p[c]) :
                              p[c][i].op = "CallVI" /\ p[c][i].arg = t}

\* owing has the instructions between a Trigger of t and the Wait for it, whichever
\* way the code branches.
OwesWait(code, t, owing) ==
  \A i \in 1 .. Len(code) :
    /\ code[i].op = "Trigger" /\ code[i].arg = t => i \notin owing /\ i + 1 \in owing
    /\ i \in owing => \/ code[i].op = "Wait" /\ code[i].arg = t
                     \/ /\ code[i].op # "Done" /\ i + 1 \in owing
                        /\ code[i].op \in BranchOps => code[i].arg \in owing

ForksAndJoins(p) ==
  /\ \A c \in RootClumps(p) : FireCount[c] = 1 /\ Triggerers(p, c) = {}
  /\ \A t \in Clump : IsFiniteSet(Triggerers(p, t)) /\ Cardinality(Triggerers(p, t)) <= FireCount[t]
  /\ \A t, c \in Clump : \E owing \in SUBSET (1 .. Len(p[c])) : OwesWait(p[c], t, owing)

(***************************************************************************)
(* Done finds its caller where it left it: a clump recorded as a caller is *)
(* still suspended at the CallVI of this very callee, and the callee is    *)
(* active.  Done casts the caller's _savePc to a CallVIInstruction, runs   *)
(* its copy-out code and moves it on.                                      *)
(***************************************************************************)
CallersAtTheirCall ==
  \A c \in Clump : caller[c] # NoClump =>
    /\ shortCount[c] = 0
    /\ Instr(caller[c]).op = "CallVI"
    /\ Instr(caller[c]).arg = c

(***************************************************************************)
(* The answer Finished (the comment in ExecuteSlices: "the VI is           *)
(* completely finished and nothing is waiting to be scheduled") is true:   *)
(* unless a Stop dropped a clump, or a join still lacks triggers, every    *)
(* clump has run to its Done when the host is told so.                     *)
(***************************************************************************)
FinishedMeansDone ==
  reply = "Finished" /\ runQueue = << >> /\ stopped = {} =>
    \A c \in Clump : shortCount[c] = FireCount[c]

(***************************************************************************)
(* A clump that does not run stays at its instruction: the only step that  *)
(* moves another clump's _savePc is the Done of the VI it called.          *)
(***************************************************************************)
OnlyDoneMovesAnother ==
  [][\A c \in Clump : savePc'[c] # savePc[c] /\ c # running =>
       running # NoClump /\ caller[running] = c /\ savePc'[c] = savePc[c] + 1]_schedVars

(***************************************************************************)
(* Every ready clump gets the processor, even when others loop forever:    *)
(* bursts end, and a clump that is rotated out goes behind the others.     *)
(***************************************************************************)
ReadyRuns == \A c \in Clump : c \in Elements(runQueue) ~> running = c

(***************************************************************************)
(* In a program without loops and stops every top VI finishes once it is   *)
(* started, however its calls of shared subVIs collide with those of other *)
(* VIs: a caller that finds its callee busy tries again when the callee is *)
(* done, and is not overtaken for ever by callers that came later.         *)
(***************************************************************************)
RunsToItsEnd ==
  \A c \in Clump : \A i \in 1 .. Len(prog[c]) : prog[c][i].op \notin BranchOps \cup {"Stop"}

StartedFinishes ==
  \A c \in TopVI : RunsToItsEnd /\ shortCount[c] = 0 ~> shortCount[c] = FireCount[c]
=============================================================================
