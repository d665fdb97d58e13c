-------------------------- MODULE JavaScriptInvoke --------------------------
(***************************************************************************)
(* Calls of JavaScript functions (source/io/module_javaScriptInvoke.js)    *)
(* and the refnums by which a VI holds JavaScript values.                  *)
(*                                                                         *)
(* The functions are external: one may be missing, throw, return a value   *)
(* or return a promise.  A value is [type, id]; numbers, strings and       *)
(* arrays are told apart by their type only, and an element of an array    *)
(* of refnums is treated as a refnum.                                      *)
(***************************************************************************)
EXTENDS HttpClient

NewRefnums == [next |-> 0, static |-> << >>, dynamic |-> << >>]

CookieOf(refs, value) == IF value \in DOMAIN refs.static THEN refs.static[value] ELSE refs.next + 1

\* Mutant: the counter stays, and the next refnum has the same cookie.
createCookieUncounted(refs, value) ==
  [refs EXCEPT !.dynamic = [k \in DOMAIN @ \cup {refs.next + 1} |-> IF k = refs.next + 1 THEN value ELSE @[k]]]

\* Static refnums share a cookie for a value, each dynamic one gets its own.
createStaticCookie(refs, value) ==
  IF value \in DOMAIN refs.static THEN refs
  ELSE [refs EXCEPT !.next = @ + 1,
                    !.static = [v \in DOMAIN @ \cup {value} |-> IF v = value THEN refs.next + 1 ELSE @[v]]]

createCookie(refs, value) ==
  [refs EXCEPT !.next = @ + 1,
               !.dynamic = [k \in DOMAIN @ \cup {refs.next + 1} |-> IF k = refs.next + 1 THEN value ELSE @[k]]]

StaticCookies(refs) == {refs.static[v] : v \in DOMAIN refs.static}
isJavaScriptRefNumValid(refs, cookie, isStatic) ==
  cookie \in IF isStatic THEN StaticCookies(refs) ELSE DOMAIN refs.dynamic

\* A static refnum is never closed.
clearJavaScriptRefNum(refs, cookie, isStatic) ==
  IF isStatic THEN refs ELSE [refs EXCEPT !.dynamic = [k \in DOMAIN @ \ {cookie} |-> @[k]]]

jsCloseJavaScriptRefNum(refs, cookie, isStatic, error) ==
  [refs |-> clearJavaScriptRefNum(refs, cookie, isStatic),
   error |-> IF isStatic \/ cookie \in DOMAIN refs.dynamic THEN error ELSE MergedErrors(error, "invalid reference")]

-----------------------------------------------------------------------------
(* The value a function returns.                                            *)

Undefined == [type |-> "undefined", id |-> 0]
ErrorValue == [type |-> "Error", id |-> 0]
Refnum(cookie) == [type |-> "refnum", id |-> cookie]
hasExecutionError(value) == value.type = "Error"

\* What is written for a value: refs, error and output.  A result that is not wired
\* takes any value; a refnum any value, a static one none that is undefined.
ReturnWritten(refs, type, value, error, out) ==
  LET mismatch == [refs |-> refs, out |-> out, error |-> MergedErrors(error, "type mismatch")]
      unable == [refs |-> refs, out |-> out, error |-> MergedErrors(error, "unable to set return value")]
  IN  CASE type = Nothing -> [refs |-> refs, out |-> out, error |-> error]
        [] type = "dynamic" -> [refs |-> createCookie(refs, value), out |-> Refnum(refs.next + 1), error |-> error]
        [] type = "static" /\ value = Undefined -> unable
        [] type = "static" /\ value # Undefined ->
             [refs |-> createStaticCookie(refs, value), out |-> Refnum(CookieOf(refs, value)), error |-> error]
        [] type \notin {Nothing, "dynamic", "static"} /\ type # value.type -> mismatch
        [] OTHER -> [refs |-> refs, out |-> value, error |-> error]

\* completionCallbackStatus.
NewStatus == [retrieval |-> "available", invocation |-> "pending"]
Settled(invocation) == [retrieval |-> "unretrievable", invocation |-> invocation]

(***************************************************************************)
(* The end of a call with a value: reportExecutionError, or                *)
(* updateReturnValue.  An internal function must not fail, nor return      *)
(* anything: an exception comes out of Vireo then.                         *)
(***************************************************************************)
Ended(s, value) ==
  LET written == ReturnWritten(s.refs, s.type, value, s.error, s.out)
  IN  IF s.internal THEN [s EXCEPT !.throws = value # Undefined]
      ELSE IF hasExecutionError(value)
      THEN [s EXCEPT !.error = MergedErrors(@, "exception in function"), !.status = Settled("rejected")]
      ELSE [s EXCEPT !.refs = written.refs, !.error = written.error, !.out = written.out,
                     !.status = Settled("fulfilled")]

(***************************************************************************)
(* jsJavaScriptInvoke.  The function does one of: it is "missing", it      *)
(* returns a value (an Error if it throws), or it returns a "promise" and  *)
(* is completed later.  set tells whether the occurrence is set before     *)
(* the call returns.                                                       *)
(***************************************************************************)
jsJavaScriptInvoke(s, arguments, does) ==
  LET failed(error) == [s EXCEPT !.error = MergedErrors(@, error), !.set = TRUE]
      valid == \A k \in DOMAIN arguments : isJavaScriptRefNumValid(s.refs, arguments[k], FALSE)
      ended == Ended(s, does.value)
  IN  CASE does.kind = "missing" -> IF s.internal THEN [s EXCEPT !.throws = TRUE] ELSE failed("function not found")
        [] does.kind # "missing" /\ ~ s.internal /\ ~ valid -> failed("invalid reference")
        [] does.kind = "promise" /\ (s.internal \/ valid) -> [s EXCEPT !.status.retrieval = "retrieved"]
        [] OTHER -> [ended EXCEPT !.set = ~ ended.throws]

\* completionCallback: a second use throws.
completionCallback(s, value) ==
  IF s.status.invocation # "pending" THEN [s EXCEPT !.throws = TRUE]
  ELSE LET ended == Ended(s, value) IN [ended EXCEPT !.set = ~ ended.throws]

\* then(completionCallback).catch(completionCallback(coerceToError)).
PromiseSettled(s, value) ==
  LET first == completionCallback(s, value)
  IN  IF hasExecutionError(value) THEN first
      ELSE IF first.throws THEN completionCallback(s, ErrorValue) ELSE first
=============================================================================
