----------------------------- MODULE HttpClient -----------------------------
(***************************************************************************)
(* HTTP clients (source/io/module_httpClient.js), which live on the side   *)
(* of JavaScript: a manager m keeps the clients by their handles and the   *)
(* requests that are running.  Each function is an operator that returns   *)
(* the manager, the error and the output it leaves.                        *)
(*                                                                         *)
(* The browser is external: what becomes of a request is one of the        *)
(* outcomes that the code has a handler for.  Addresses, bodies and texts  *)
(* of errors are left out; header names and values are compared only.      *)
(***************************************************************************)
EXTENDS Integers, Sequences, FiniteSets, SequencesExt, Lists

NoError == "no error"

\* coreHelpers.mergeErrors: the first error stays.
MergedErrors(error, new) == IF error = NoError THEN new ELSE error

InvalidHandle == 0
Nothing == "nothing"

\* responses: what the callbacks of requests have been given in this step.
NewHttpClientManager == [clients |-> << >>, next |-> 1, tracker |-> << >>, completed |-> {}, responses |-> << >>]
NewHttpClient == [headers |-> << >>, includeCredentials |-> FALSE]

Reply(m, error, out) == [m |-> m, error |-> error, out |-> out]
HasClient(m, handle) == handle \in DOMAIN m.clients

-----------------------------------------------------------------------------
(* Clients.                                                                 *)

create(m) ==
  [m EXCEPT !.clients = [h \in DOMAIN @ \cup {m.next} |-> IF h = m.next THEN NewHttpClient ELSE @[h]],
            !.next = @ + 1]

\* Requests of the client go on.
destroy(m, handle) == [m EXCEPT !.clients = [h \in DOMAIN @ \ {handle} |-> @[h]]]

jsHttpClientOpen(m, cookieFile, verifyServer) ==
  CASE cookieFile -> Reply(m, "cookie file unsupported", InvalidHandle)
    [] ~ cookieFile /\ ~ verifyServer -> Reply(m, "verify server unsupported", InvalidHandle)
    [] OTHER -> Reply(create(m), NoError, m.next)

\* Called in spite of an error.
jsHttpClientClose(m, handle, error) ==
  Reply(destroy(m, handle), IF HasClient(m, handle) THEN error ELSE MergedErrors(error, "invalid refnum"), Nothing)

HeaderAt(headers, name) == {i \in DOMAIN headers : headers[i].name = name}

\* A Map: a name keeps its place when it gets another value.
WithHeader(headers, name, value) ==
  IF HeaderAt(headers, name) = {} THEN Append(headers, [name |-> name, value |-> value])
  ELSE [i \in DOMAIN headers |-> IF headers[i].name = name THEN [headers[i] EXCEPT !.value = value] ELSE headers[i]]

\* findhttpClientOrWriteError, then the function on the client of the handle.
OnClient(m, handle, default, f(_)) ==
  IF HasClient(m, handle) THEN f(m.clients[handle]) ELSE Reply(m, "invalid argument", default)

Changed(m, handle, client) == Reply([m EXCEPT !.clients[handle] = client], NoError, Nothing)

jsHttpClientAddHeader(m, handle, name, value) ==
  OnClient(m, handle, Nothing,
           LAMBDA c : Changed(m, handle, [c EXCEPT !.headers = WithHeader(@, name, value)]))

jsHttpClientRemoveHeader(m, handle, name) ==
  OnClient(m, handle, Nothing,
           LAMBDA c : Changed(m, handle, [c EXCEPT !.headers = SelectSeq(@, LAMBDA h : h.name # name)]))

ValueOf(client, name) ==
  LET at == HeaderAt(client.headers, name)
  IN  IF at = {} THEN Nothing ELSE client.headers[CHOOSE i \in at : TRUE].value

jsHttpClientGetHeader(m, handle, name) ==
  OnClient(m, handle, Nothing,
           LAMBDA c : Reply(m, IF HeaderAt(c.headers, name) = {} THEN "header does not exist" ELSE NoError,
                            ValueOf(c, name)))

jsHttpClientHeaderExists(m, handle, name) ==
  OnClient(m, handle, Nothing, LAMBDA c : Reply(m, NoError, ValueOf(c, name)))

jsHttpClientListHeaders(m, handle) ==
  OnClient(m, handle, << >>, LAMBDA c : Reply(m, NoError, c.headers))

jsHttpClientConfigCORS(m, handle, include) ==
  OnClient(m, handle, Nothing, LAMBDA c : Changed(m, handle, [c EXCEPT !.includeCredentials = include]))

-----------------------------------------------------------------------------
(* Requests.                                                                *)

\* A request leaves the list of those that run.
removeRequest(requests, id) == Chosen(requests, {r \in Elements(requests) : r.id # id})

\* Mutant: without the flag requestCompleted.
completeRequestAgain(m, id, response) ==
  [m EXCEPT !.tracker = removeRequest(@, id), !.responses = Append(@, [id |-> id, error |-> response])]

\* completeRequest: once for each request, whoever calls it.
completeRequest(m, id, response) ==
  IF id \in m.completed THEN m
  ELSE [m EXCEPT !.completed = @ \cup {id},
                 !.tracker = removeRequest(@, id),
                 !.responses = Append(@, [id |-> id, error |-> response])]

\* What the browser does with a request: open, setRequestHeader or send may throw;
\* a legacy browser raises the error event before send throws.
BrowserOutcomes(client) ==
  {"open throws", "send throws", "error and send throws", "sent"}
    \cup (IF client.headers = << >> THEN {} ELSE {"header throws"})

createRequest(m, id, timeout, browser) ==
  LET tracked == [m EXCEPT !.tracker = Append(@, [id |-> id, timeout |-> timeout])]
      failed == completeRequest(tracked, id, "network error")
  IN  CASE browser = "open throws" -> completeRequest(tracked, id, "could not connect")
        [] browser = "header throws" -> completeRequest(tracked, id, "header invalid")
        [] browser = "send throws" -> failed
        [] browser = "error and send throws" -> completeRequest(failed, id, "network error")
        [] browser = "sent" -> tracked

\* The event handlers.  A request without a timeout gets no timeout event.
EventOutcomes(request) ==
  {NoError, "undefined error", "network error"} \cup (IF request.timeout = 0 THEN {} ELSE {"timeout"})

\* Mutant: on the list itself, whose elements move forward under the loop.
abortAllRunningRequestsLive(m) ==
  FoldLeft(LAMBDA acc, k : IF k % 2 = 1 THEN completeRequest(acc, m.tracker[k].id, "aborted") ELSE acc,
           m, [k \in DOMAIN m.tracker |-> k])

\* abort runs the abort handler at once, on a copy of the list.
abortAllRunningRequests(m) ==
  LET aborted[n \in 0 .. Len(m.tracker)] ==
        IF n = 0 THEN m ELSE completeRequest(aborted[n - 1], m.tracker[n].id, "aborted")
  IN  aborted[Len(m.tracker)]

\* Vireo waits for ever with -1, a request with 0; << >> is a terminal that is not wired.
XhrTimeout(timeout) ==
  IF timeout = << >> THEN 10000 ELSE IF timeout[1] < 0 THEN 0 ELSE IF timeout[1] = 0 THEN 1 ELSE timeout[1]

\* The error that prevents a request, and the headers it would be made with: handle 0
\* stands for a client that is made for this request.
MethodError(m, handle, outputFile) ==
  IF outputFile THEN "output file unsupported"
  ELSE IF handle # InvalidHandle /\ ~ HasClient(m, handle) THEN "invalid argument" ELSE NoError

MethodClient(m, handle) == IF handle = InvalidHandle THEN NewHttpClient ELSE m.clients[handle]
=============================================================================
