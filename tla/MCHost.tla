------------------------------- MODULE MCHost -------------------------------
(***************************************************************************)
(* Small programs for HostCalls: two clumps with clients of their own,     *)
(* with requests at the same time, with functions of every kind.           *)
(***************************************************************************)
EXTENDS HostCalls

CONSTANTS a, b

Clumps == {a, b}

Plain(op) == [op |-> op]
Open == [op |-> "HttpClientOpen", cookieFile |-> FALSE, verifyServer |-> TRUE]
Add(name, value) == [op |-> "HttpClientAddHeader", name |-> name, value |-> value]
Named(op, name) == [op |-> op, name |-> name]
Get(timeout) == [op |-> "HttpClientMethod", outputFile |-> FALSE, timeout |-> timeout]
Closes(static) == [op |-> "CloseJavaScriptRefNum", static |-> static]
IsNot(static) == [op |-> "IsNotAJavaScriptRefnum", static |-> static]

Number(id) == [type |-> "Int32", id |-> id]
Object(id) == [type |-> "object", id |-> id]
Missing == [kind |-> "missing"]
Gives(value) == [kind |-> "returns", value |-> value]
Promises(values) == [kind |-> "promise", settles |-> values]
User(returns, refnums, does) ==
  [op |-> "JavaScriptInvoke", internal |-> FALSE, returns |-> returns, refnums |-> refnums, errorWired |-> TRUE,
   does |-> does]
Unwired(invoke) == [invoke EXCEPT !.errorWired = FALSE]
Internal(does) == [User(Nothing, 0, does) EXCEPT !.internal = TRUE]

\* A client with headers, whose requests the browser may refuse because of them.
HeadersProgram ==
  (a :> << Open, Add("x", "1"), Add("y", "2"), Add("x", "3"), Named("HttpClientGetHeader", "x"),
           Named("HttpClientRemoveHeader", "x"), Named("HttpClientHeaderExists", "x"), Plain("HttpClientListHeaders"),
           Get(<< 50 >>) >>
   @@ b :> << Named("HttpClientGetHeader", "x") >>)

\* Requests at the same time, with and without a timeout.
RequestsProgram == (a :> << Get(<< -1 >>) >> @@ b :> << Get(<< 0 >>) >>)

\* Refusals.
RefusalsProgram ==
  (a :> << [Open EXCEPT !.verifyServer = FALSE], Get(<< >>), Plain("HttpClientClose") >>
   @@ b :> << Open, [op |-> "HttpClientConfigCORS", include |-> TRUE], Plain("HttpClientClose"), Get(<< 50 >>) >>)

UnsupportedProgram ==
  (a :> << [Open EXCEPT !.cookieFile = TRUE], Add("x", "1") >>
   @@ b :> << [Get(<< 50 >>) EXCEPT !.outputFile = TRUE], Named("HttpClientRemoveHeader", "x") >>)

\* User functions: refnums, promises, exceptions, types that do not match.
FunctionsProgram ==
  (a :> << User("dynamic", 0, {Promises({Object(1), ErrorValue}), Gives(Object(1))}), IsNot(FALSE), Closes(FALSE),
           User("Int32", 1, {Gives(Number(1))}) >>
   @@ b :> << User("dynamic", 0, {Gives(Object(1)), Gives(ErrorValue)}) >>)

ResultsProgram ==
  (a :> << User("Int32", 0, {Promises({Number(2), Object(1)}), Gives(Object(1)), Missing}) >>
   @@ b :> << Unwired(User("Int32", 0, {Gives(ErrorValue), Promises({Number(1)})})), User("Int32", 0, {Gives(Number(1))}) >>)

StaticProgram ==
  (a :> << User("static", 0, {Gives(Object(1)), Gives(Undefined), Promises({Object(1), Object(2)})}), IsNot(TRUE), Closes(TRUE),
           Closes(FALSE) >>
   @@ b :> << User("static", 0, {Gives(Object(1))}) >>)

\* Internal functions, which may fail in ways that nobody handles.
InternalProgram ==
  (a :> << Internal({Gives(Undefined), Missing, Promises({Undefined}), Gives(Number(1))}), Internal({Promises({Undefined, ErrorValue})}) >>
   @@ b :> << Get(<< >>) >>)

HostPrograms ==
  {HeadersProgram, RequestsProgram, RefusalsProgram, UnsupportedProgram, FunctionsProgram, ResultsProgram, StaticProgram, InternalProgram}
=============================================================================
