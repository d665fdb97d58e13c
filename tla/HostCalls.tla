----------------------------- MODULE HostCalls -----------------------------
(***************************************************************************)
(* Vireo on its host: the pump that executes slices from the event loop of *)
(* JavaScript, and clumps that wait for HTTP requests and JavaScript       *)
(* functions (source/io).                                                  *)
(*                                                                         *)
(* JavaScript runs to completion: tasks are begun only outside of          *)
(* ExecuteSlices.  Zero timers and others are taken in any order, since    *)
(* the event loop lengthens nested ones.                                   *)
(*                                                                         *)
(* A clump executes its program Rounds times.  Each instruction has an     *)
(* occurrence of its own, inserted by the compiler.  The error cluster is  *)
(* passed from instruction to instruction, and is new in every round.      *)
(***************************************************************************)
EXTENDS JavaScriptInvoke, Bags

CONSTANTS
  Clump,     \* the clumps
  Programs,  \* what the clumps may execute: functions from Clump to sequences of instructions
  Rounds     \* bound: how often each executes its program

NoClump == "no clump"

\* A program has instructions for each clump.
ASSUME HostAssumption ==
  /\ IsFiniteSet(Clump) /\ NoClump \notin Clump
  /\ \A p \in Programs : \A c \in Clump : p[c] \in Seq(ToSet(p[c])) /\ p[c] # << >>
  /\ Rounds \in Nat

NotInside == "outside"

VARIABLES
  prog,       \* the programs of this behaviour
  queue,      \* the run queue
  running,    \* the running clump, or NoClump
  pc,         \* where each clump is in its program
  round,      \* which round it is in
  observing,  \* it has reserved observation states
  observer,   \* the count of its occurrence that its observer waits for, 0 if none
  setCount,   \* of the occurrence of each instruction
  error,      \* the error cluster of each clump
  out,        \* the output of its last HTTP function, with the function
  returned,   \* what the last JavaScript function has returned
  handle,     \* the HTTP handle it has
  cookie,     \* the JavaScript refnum it has
  answered,   \* the call it is in has ended
  promises,   \* the calls whose promise has not been settled
  stuck,      \* calls of internal functions that failed later: nobody is told
  http,       \* the manager of HTTP clients
  refs,       \* the managers of JavaScript refnums
  inside,     \* whether ExecuteSlices is on the stack, and has executed an instruction
  promise,    \* what executeSlicesUntilClumpsFinished has returned
  token,      \* timerToken, 0 if undefined
  tasks       \* what setTimeout has been given

stepVars == << pc, round, observing, observer, setCount, error, out, returned, handle, cookie, answered >>
clumpVars == << queue, running, stepVars >>
callVars == << promises, stuck, http, refs >>
pumpVars == << inside, promise, token, tasks >>
hostVars == << prog, clumpVars, callVars, pumpVars >>

Instr(c) == prog[c][pc[c]]
Call(c) == [clump |-> c, n |-> round[c] * Len(prog[c]) + pc[c]]
Finished(c) == round[c] = Rounds
Ready == ToSet(queue) \cup ({running} \ {NoClump})

Init ==
  /\ prog \in Programs
  /\ queue = SetToSeq(Clump)
  /\ running = NoClump
  /\ pc = [c \in Clump |-> 1] /\ round = [c \in Clump |-> 0]
  /\ observing = [c \in Clump |-> FALSE] /\ observer = [c \in Clump |-> 0]
  /\ setCount = [c \in Clump |-> [i \in DOMAIN prog[c] |-> 0]]
  /\ error = [c \in Clump |-> NoError] /\ out = [c \in Clump |-> << Nothing, Nothing >>]
  /\ returned = [c \in Clump |-> Undefined]
  /\ handle = [c \in Clump |-> InvalidHandle] /\ cookie = [c \in Clump |-> 0]
  /\ answered = [c \in Clump |-> FALSE]
  /\ promises = << >> /\ stuck = {}
  /\ http = NewHttpClientManager /\ refs = NewRefnums
  /\ inside = NotInside /\ promise = "none" /\ token = 0 /\ tasks = EmptyBag

-----------------------------------------------------------------------------
(* The pump.                                                                *)

\* RunQueue.Dequeue: what runs next.
Dequeue(q) ==
  IF q = << >> THEN running' = NoClump /\ queue' = q ELSE running' = Head(q) /\ queue' = Tail(q)

Timeout(task) == SetToBag({task})
Slices(k, sleeps) == [kind |-> "slices", token |-> k, sleeps |-> sleeps]
SlicesTasks == {t \in BagToSet(tasks) : t.kind = "slices"}
NewToken == CHOOSE k \in 1 .. Cardinality(SlicesTasks) + 1 : \A t \in SlicesTasks : t.token # k

\* executeSlicesUntilClumpsFinished: a microtask executes the first slices.
ExecuteSlicesUntilClumpsFinished ==
  /\ promise = "none"
  /\ promise' = "pending" /\ inside' = "begun"
  /\ Dequeue(queue)
  /\ UNCHANGED << prog, stepVars, callVars, token, tasks >>

\* ExecuteSlices returns, because time is up or nothing runs; the pump goes on by the
\* answer: at once, when a timer is due (each clump that waits has one), or not at all.
SlicesEnd ==
  LET ready == IF running = NoClump THEN queue ELSE Append(queue, running)
      waiting == \E c \in Clump : observer[c] # 0
      finished == ready = << >> /\ ~ waiting
      next == Slices(NewToken, ready = << >>)
  IN  /\ inside = "worked" \/ (inside = "begun" /\ running = NoClump)
      /\ inside' = NotInside
      /\ queue' = ready /\ running' = NoClump
      /\ token' = IF finished THEN 0 ELSE next.token
      /\ tasks' = tasks (+) Timeout(IF finished THEN [kind |-> "resolve"] ELSE next)
      /\ UNCHANGED << prog, stepVars, callVars, promise >>

\* Clumps take turns.
Rotate ==
  /\ inside = "worked" /\ running # NoClump /\ queue # << >>
  /\ running' = Head(queue) /\ queue' = Append(Tail(queue), running)
  /\ UNCHANGED << prog, stepVars, callVars, pumpVars >>

\* Mutant: without clearTimeout.
WakeUpCallbackUncleared(left) ==
  IF promise # "pending" \/ token = 0
  THEN tasks' = left /\ UNCHANGED << inside, token >>
  ELSE tasks' = left /\ token' = 0 /\ inside' = "begun"

\* The wake-up callback of the pump; once the promise is settled, the one before it.
WakeUpCallback(left) ==
  IF promise # "pending" \/ token = 0
  THEN tasks' = left /\ UNCHANGED << inside, token >>
  ELSE /\ tasks' = [t \in {u \in DOMAIN left : ~ (u.kind = "slices" /\ u.token = token)} |-> left[t]]
       /\ token' = 0
       /\ inside' = "begun"

\* SetOccurrence: the observer that waits for this count is woken.
Wakes(c, i) == observer[c] = setCount[c][i] + 1 /\ pc[c] = i

RunTimer(task) ==
  /\ task.kind = "slices"
  /\ tasks' = tasks (-) Timeout(task)
  /\ inside' = "begun"
  /\ Dequeue(queue)
  /\ UNCHANGED << prog, stepVars, callVars, promise, token >>

\* setOccurrenceAsync, after its timeout.
RunSetOccurrence(task) ==
  LET c == task.call.clump
      wakes == Wakes(c, task.at)
      ready == IF wakes THEN Append(queue, c) ELSE queue
  IN  /\ task.kind = "set"
      /\ setCount' = [setCount EXCEPT ![c][task.at] = @ + 1]
      /\ observer' = IF wakes THEN [observer EXCEPT ![c] = 0] ELSE observer
      /\ WakeUpCallback(tasks (-) Timeout(task))
      /\ IF inside' = "begun" THEN Dequeue(ready) ELSE queue' = ready /\ UNCHANGED running
      /\ UNCHANGED << prog, pc, round, observing, error, out, returned, handle, cookie, answered, callVars, promise >>

RunSettle(task) ==
  /\ task.kind \in {"resolve", "reject"}
  /\ promise' = IF task.kind = "resolve" THEN "resolved" ELSE "rejected"
  /\ tasks' = tasks (-) Timeout(task)
  /\ UNCHANGED << prog, clumpVars, callVars, inside, token >>

RunTask(task) == inside = NotInside /\ (RunTimer(task) \/ RunSetOccurrence(task) \/ RunSettle(task))

-----------------------------------------------------------------------------
(* Instructions of the running clump.                                       *)

Working(c) == inside # NotInside /\ running = c /\ inside' = "worked"

\* _NextInstruction; the last instruction is followed by the next round, or CulDeSac.
Goes(c, err) ==
  LET last == pc[c] = Len(prog[c])
      done == last /\ round[c] + 1 = Rounds
  IN  /\ pc' = [pc EXCEPT ![c] = IF last THEN 1 ELSE @ + 1]
      /\ round' = [round EXCEPT ![c] = IF last THEN @ + 1 ELSE @]
      /\ error' = [error EXCEPT ![c] = IF last THEN NoError ELSE err]
      /\ IF done THEN Dequeue(queue) ELSE UNCHANGED << running, queue >>

\* Functions that do not wait.  With an error all but Close are passed over.
Replied(c) ==
  LET i == Instr(c)
      h == handle[c]
  IN  CASE i.op = "HttpClientOpen" -> jsHttpClientOpen(http, i.cookieFile, i.verifyServer)
        [] i.op = "HttpClientAddHeader" -> jsHttpClientAddHeader(http, h, i.name, i.value)
        [] i.op = "HttpClientRemoveHeader" -> jsHttpClientRemoveHeader(http, h, i.name)
        [] i.op = "HttpClientGetHeader" -> jsHttpClientGetHeader(http, h, i.name)
        [] i.op = "HttpClientHeaderExists" -> jsHttpClientHeaderExists(http, h, i.name)
        [] i.op = "HttpClientListHeaders" -> jsHttpClientListHeaders(http, h)
        [] i.op = "HttpClientConfigCORS" -> jsHttpClientConfigCORS(http, h, i.include)

SimpleOps ==
  {"HttpClientOpen", "HttpClientAddHeader", "HttpClientRemoveHeader", "HttpClientGetHeader",
   "HttpClientHeaderExists", "HttpClientListHeaders", "HttpClientConfigCORS"}

HttpClientSimple(c) ==
  LET skips == error[c] # NoError
      reply == Replied(c)
  IN  /\ Instr(c).op \in SimpleOps
      /\ Working(c)
      /\ IF skips THEN UNCHANGED << http, out, handle >>
         ELSE /\ http' = reply.m
              /\ out' = [out EXCEPT ![c] = << Instr(c).op, reply.out >>]
              /\ handle' = IF Instr(c).op = "HttpClientOpen" THEN [handle EXCEPT ![c] = reply.out] ELSE handle
      /\ Goes(c, IF skips THEN error[c] ELSE reply.error)
      /\ UNCHANGED << prog, observing, observer, setCount, returned, cookie, answered, promises, stuck, refs, promise, token, tasks >>

HttpClientClose(c) ==
  LET reply == jsHttpClientClose(http, handle[c], error[c])
  IN  /\ Instr(c).op = "HttpClientClose"
      /\ Working(c)
      /\ http' = reply.m
      /\ Goes(c, reply.error)
      /\ UNCHANGED << prog, observing, observer, setCount, out, returned, handle, cookie, answered, promises, stuck, refs, promise,
                      token, tasks >>

CloseJavaScriptRefNum(c) ==
  LET closed == jsCloseJavaScriptRefNum(refs, cookie[c], Instr(c).static, error[c])
  IN  /\ Instr(c).op = "CloseJavaScriptRefNum"
      /\ Working(c)
      /\ refs' = closed.refs
      /\ Goes(c, closed.error)
      /\ UNCHANGED << prog, observing, observer, setCount, out, returned, handle, cookie, answered, promises, stuck, http, promise,
                      token, tasks >>

IsNotAJavaScriptRefnum(c) ==
  /\ Instr(c).op = "IsNotAJavaScriptRefnum"
  /\ Working(c)
  /\ LET valid == isJavaScriptRefNumValid(refs, cookie[c], Instr(c).static)
     IN  returned' = [returned EXCEPT ![c] = [type |-> "Boolean", id |-> IF valid THEN 0 ELSE 1]]
  /\ Goes(c, error[c])
  /\ UNCHANGED << prog, observing, observer, setCount, out, handle, cookie, answered, callVars, promise, token, tasks >>

\* An instruction that waits has been woken: it gives back its observation states.
Resume(c) ==
  /\ observing[c]
  /\ Working(c)
  /\ observing' = [observing EXCEPT ![c] = FALSE]
  /\ observer' = [observer EXCEPT ![c] = 0]
  /\ answered' = [answered EXCEPT ![c] = FALSE]
  /\ Goes(c, error[c])
  /\ UNCHANGED << prog, setCount, out, returned, handle, cookie, callVars, promise, token, tasks >>

SetTask(call) == [kind |-> "set", call |-> call, at |-> ((call.n - 1) % Len(prog[call.clump])) + 1]

\* setOccurrenceAsync: a timeout.
SetOccurrencesAsync(calls) ==
  tasks (+) [task \in {SetTask(calls[k]) : k \in DOMAIN calls} |->
               Cardinality({k \in DOMAIN calls : SetTask(calls[k]) = task})]

\* The callbacks of requests, in their order: outputs, error, occurrence.
Answers(responses) == [k \in DOMAIN responses |-> responses[k].id]
ErrorsAfter(responses) ==
  FoldLeft(LAMBDA e, r : [e EXCEPT ![r.id.clump] = MergedErrors(@, r.error)], error, responses)
OutputsAfter(responses) == FoldLeft(LAMBDA o, r : [o EXCEPT ![r.id.clump] = << "HttpClientMethod", r.error >>], out, responses)
AnsweredAfter(responses) ==
  [c \in Clump |-> answered[c] \/ \E k \in DOMAIN responses : responses[k].id = Call(c)]

\* Mutant: the count after the next.
CountAwaitedLate(c) == setCount[c][pc[c]] + 2

\* InsertObserver(pObserver + 1, Count() + 1).
CountAwaited(c) == setCount[c][pc[c]] + 1

\* A method, with an error, is passed over; else JavaScript is called, and only then
\* the observer is inserted.  It waits also when the request could not be made.
HttpClientMethod(c) ==
  LET i == Instr(c)
      refused == MethodError(http, handle[c], i.outputFile)
      responses(m) == IF refused = NoError THEN m.responses ELSE << [id |-> Call(c), error |-> refused] >>
  IN  /\ i.op = "HttpClientMethod" /\ ~ observing[c]
      /\ Working(c)
      /\ IF error[c] # NoError
         THEN /\ Goes(c, error[c])
              /\ UNCHANGED << observing, observer, out, answered, http, tasks >>
         ELSE \E browser \in IF refused # NoError THEN {"sent"} ELSE BrowserOutcomes(MethodClient(http, handle[c])) :
                LET m == IF refused = NoError THEN createRequest(http, Call(c), XhrTimeout(i.timeout), browser) ELSE http
                    rs == responses(m)
                IN  /\ http' = [m EXCEPT !.responses = << >>]
                    /\ error' = ErrorsAfter(rs) /\ out' = OutputsAfter(rs) /\ answered' = AnsweredAfter(rs)
                    /\ tasks' = SetOccurrencesAsync(Answers(rs))
                    /\ observing' = [observing EXCEPT ![c] = TRUE]
                    /\ observer' = [observer EXCEPT ![c] = CountAwaited(c)]
                    /\ Dequeue(queue)
                    /\ UNCHANGED << pc, round >>
      /\ UNCHANGED << prog, setCount, returned, handle, cookie, promises, stuck, refs, promise, token >>

-----------------------------------------------------------------------------
(* Calls of JavaScript functions.                                           *)

\* What the functions on the way from a call to its end share.
CallState(c, i) ==
  [refs |-> refs, internal |-> i.internal, type |-> i.returns, out |-> returned[c], set |-> FALSE, throws |-> FALSE,
   error |-> IF i.errorWired THEN error[c] ELSE NoError, status |-> NewStatus]

\* The observer is inserted first, so that a function which returns at once wakes the
\* clump before it has been suspended.  An exception leaves everything as it is, with the
\* clump running, and the promise of the pump is rejected.
JavaScriptInvoke(c) ==
  LET i == Instr(c)
      arguments == [k \in 1 .. i.refnums |-> cookie[c]]
      skips == i.errorWired /\ error[c] # NoError
  IN  /\ i.op = "JavaScriptInvoke" /\ ~ observing[c]
      /\ IF skips
         THEN /\ Working(c) /\ Goes(c, error[c])
              /\ UNCHANGED << observing, observer, setCount, returned, cookie, answered, promises, refs, promise, token, tasks >>
         ELSE \E does \in i.does :
                LET s == jsJavaScriptInvoke(CallState(c, i), arguments, does)
                IN  /\ inside # NotInside /\ running = c
                    /\ refs' = s.refs
                    /\ returned' = [returned EXCEPT ![c] = s.out]
                    /\ cookie' = [cookie EXCEPT ![c] = IF s.out.type = "refnum" THEN s.out.id ELSE @]
                    /\ error' = IF i.errorWired THEN [error EXCEPT ![c] = s.error] ELSE error
                    /\ observing' = [observing EXCEPT ![c] = TRUE]
                    /\ answered' = [answered EXCEPT ![c] = s.set]
                    /\ promises' = IF s.status.retrieval = "retrieved"
                                   THEN [k \in DOMAIN promises \cup {Call(c)} |->
                                           IF k = Call(c) THEN [internal |-> i.internal, returns |-> i.returns, errorWired |-> i.errorWired,
                                                                with |-> does.settles] ELSE promises[k]]
                                   ELSE promises
                    /\ observer' = [observer EXCEPT ![c] = IF s.set THEN 0 ELSE CountAwaited(c)]
                    /\ setCount' = IF s.set THEN [setCount EXCEPT ![c][pc[c]] = @ + 1] ELSE setCount
                    /\ IF s.throws
                       THEN /\ inside' = NotInside /\ token' = 0
                            /\ tasks' = tasks (+) Timeout([kind |-> "reject"])
                            /\ UNCHANGED << running, queue >>
                       ELSE /\ inside' = "worked"
                            /\ Dequeue(IF s.set THEN Append(queue, c) ELSE queue)
                            /\ UNCHANGED << token, tasks >>
                    /\ UNCHANGED << pc, round, promise >>
      /\ UNCHANGED << prog, out, handle, stuck, http >>

Crashed == running # NoClump /\ inside = NotInside

\* The promise of a function is settled with one of the values it may have.
Settle(id) ==
  LET p == promises[id]
      c == id.clump
  IN  /\ inside = NotInside
      /\ \E value \in p.with :
           LET s == PromiseSettled(CallState(c, p), value)
           IN  /\ refs' = s.refs
               /\ returned' = [returned EXCEPT ![c] = s.out]
               /\ cookie' = [cookie EXCEPT ![c] = IF s.out.type = "refnum" THEN s.out.id ELSE @]
               /\ error' = IF p.errorWired THEN [error EXCEPT ![c] = s.error] ELSE error
               /\ answered' = [answered EXCEPT ![c] = s.set /\ id = Call(c)]
               /\ stuck' = IF s.set THEN stuck ELSE stuck \cup {id}
               /\ tasks' = IF s.set THEN tasks (+) Timeout(SetTask(id)) ELSE tasks
      /\ promises' = [k \in DOMAIN promises \ {id} |-> promises[k]]
      /\ UNCHANGED << prog, queue, running, pc, round, observing, observer, setCount, out, handle, http, inside, promise, token >>

-----------------------------------------------------------------------------
(* What happens to requests outside of ExecuteSlices.                       *)

Answered(m) ==
  /\ http' = [m EXCEPT !.responses = << >>]
  /\ error' = ErrorsAfter(m.responses) /\ out' = OutputsAfter(m.responses) /\ answered' = AnsweredAfter(m.responses)
  /\ tasks' = SetOccurrencesAsync(Answers(m.responses))
  /\ UNCHANGED << prog, queue, running, pc, round, observing, observer, setCount, returned, handle, cookie, promises, stuck, refs,
                  inside, promise, token >>

RequestEvent(r) ==
  inside = NotInside /\ \E response \in EventOutcomes(r) : Answered(completeRequest(http, r.id, response))

\* The host aborts all requests.
AbortAllRunningRequests == inside = NotInside /\ http.tracker # << >> /\ Answered(abortAllRunningRequests(http))

Execute(c) ==
  /\ ~ observing[c] /\ (HttpClientSimple(c) \/ HttpClientClose(c) \/ CloseJavaScriptRefNum(c) \/ IsNotAJavaScriptRefnum(c)
                        \/ HttpClientMethod(c) \/ JavaScriptInvoke(c))
  \/ Resume(c)

Next ==
  \/ ExecuteSlicesUntilClumpsFinished \/ SlicesEnd \/ Rotate \/ AbortAllRunningRequests
  \/ \E task \in BagToSet(tasks) : RunTask(task)
  \/ \E c \in Clump : Execute(c)
  \/ \E id \in DOMAIN promises : Settle(id)
  \/ \E r \in ToSet(http.tracker) : RequestEvent(r)

(***************************************************************************)
(* The event loop takes every task in the end, instructions are executed   *)
(* while slices are, promises of functions are settled, and one event      *)
(* comes for each request that has been sent.                              *)
(***************************************************************************)
Fairness ==
  /\ WF_hostVars(ExecuteSlicesUntilClumpsFinished) /\ WF_hostVars(SlicesEnd)
  /\ WF_hostVars(\E c \in Clump : Execute(c))
  /\ SF_hostVars(\E task \in BagToSet(tasks) : task.kind # "set" /\ RunTask(task))
  /\ \A c \in Clump :
       /\ SF_hostVars(\E task \in BagToSet(tasks) : task.kind = "set" /\ task.call.clump = c /\ RunTask(task))
       /\ SF_hostVars(\E id \in DOMAIN promises : id.clump = c /\ Settle(id))
       /\ SF_hostVars(\E r \in ToSet(http.tracker) : r.id.clump = c /\ RequestEvent(r))

HostSpec == Init /\ [][Next]_hostVars /\ Fairness

-----------------------------------------------------------------------------
\* Type correctness: counters are ahead of all that has been given out, and what the
\* two sides know of a call agrees.
HostTypeOK ==
  /\ \A h \in DOMAIN http.clients : h \in 1 .. http.next - 1
  /\ \A k \in DOMAIN refs.dynamic \cup StaticCookies(refs) : k \in 1 .. refs.next
  /\ DOMAIN refs.dynamic \cap StaticCookies(refs) = {}
  /\ \A r \in ToSet(http.tracker) : r.id = Call(r.id.clump) /\ observing[r.id.clump]
  /\ \A id \in DOMAIN promises : id = Call(id.clump) /\ observing[id.clump]
  /\ \A c \in Clump : Cardinality({k \in DOMAIN queue : queue[k] = c}) + (IF running = c THEN 1 ELSE 0) \in {0, 1}

\* A clump that waited for a request or a function runs again when its own call, and no
\* earlier one, has ended and the outputs have been written.
OwnAnswer == ~ Crashed => \A c \in Ready : observing[c] => answered[c]

\* While the pump has not finished there is exactly one thing by which it goes on, and it
\* does not sleep while a clump is ready.  It finishes when all clumps have.
PumpGoesOn ==
  LET ends == {t \in BagToSet(tasks) : t.kind \in {"resolve", "reject"}}
  IN  promise = "pending" =>
        IF inside # NotInside THEN SlicesTasks = {} /\ ends = {}
        ELSE /\ Cardinality(SlicesTasks) + Cardinality(ends) = 1
             /\ \A t \in SlicesTasks : t.token = token /\ (t.sleeps => queue = << >>)
             /\ [kind |-> "resolve"] \in ends => \A c \in Clump : Finished(c)

\* No request goes on that was running when all were aborted, and each caller is told.
AbortEndsAll ==
  [][AbortAllRunningRequests =>
       http'.tracker = << >> /\ \A r \in ToSet(http.tracker) : answered'[r.id.clump]]_hostVars

\* Every clump that waits goes on, unless the pump has been rejected, or the promise of an
\* internal function failed, of which nobody is told.
CallsReturn ==
  \A c \in Clump : observing[c] ~> ~ observing[c] \/ promise = "rejected" \/ \E id \in stuck : id.clump = c
=============================================================================
