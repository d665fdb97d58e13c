------------------------------ MODULE MCEvents ------------------------------
(***************************************************************************)
(* Small programs for Events: static and dynamic registrations in one and  *)
(* two structures, registrations that come and go, and JavaScript refnums. *)
(***************************************************************************)
EXTENDS Events

CONSTANTS s1, s2, x, y

TwoVIs == << "a", "b" >>
TwoStructures == << s1, s2 >>
Owners == (s1 :> "a" @@ s2 :> "b")
Users == << 1, 2 >>
Controls == {11}
UIDs == (11 :> 111)
JavaScript == {21}

Spec(t, r, d) == [type |-> t, ref |-> r, dyn |-> d]
Case(d) == Spec("UserEvent", NoRef, d)

Quiet ==
  [wired |-> (s1 :> << >> @@ s2 :> << >>), specs |-> (s1 :> << >> @@ s2 :> << >>),
   timed |-> (s1 :> {FALSE} @@ s2 :> {FALSE}),
   kinds |-> (x :> << "scalar", "scalar" >> @@ y :> << "scalar" >>),
   inputs |-> (x :> {<< <<1>>, <<2>> >>} @@ y :> {<< <<1>> >>, << <<2>> >>}),
   by |-> (x :> "a" @@ y :> "a"), makes |-> {"a"}, starts |-> {"a"}, ends |-> {"a"},
   tasks |-> {}, events |-> 2, registers |-> 2]

\* One structure with its own events and two registrations, with a timeout or
\* without, and with one that changes.
OneStructure ==
  {[Quiet EXCEPT !.wired[s1] = << x, y >>, !.timed[s1] = t,
                 !.specs[s1] = << Spec("ValueChange", 11, 0), Case(1), Case(2), Case(3) >>,
                 !.inputs[y] = {<< <<2>> >>},
                 !.tasks = {"generate", "host"}, !.events = IF TRUE \in t THEN 2 ELSE 3] : t \in {{FALSE}, {TRUE}, BOOLEAN}}

\* Registrations of two VIs that end while others go on, queues used again.
TwoListeners ==
  {[Quiet EXCEPT !.wired[s1] = << y >>, !.wired[s2] = << x >>, !.starts = {"a", "b"},
                 !.by[x] = "b", !.ends = {"b"},
                 !.specs[s1] = << Case(1) >>, !.specs[s2] = << Case(2), Case(1) >>,
                 !.inputs[y] = {<< <<1>> >>},
                 !.tasks = {"generate", "unregister"}, !.registers = 3]}

\* Registering again with another refnum, none, or a wildcard.
Again ==
  {[Quiet EXCEPT !.wired[s1] = << x >>, !.specs[s1] = << Case(2), Case(1) >>, !.ends = {},
                 !.inputs[x] = {<< <<1>>, <<2>> >>, << <<2>>, <<1>> >>, << << >>, <<NoRef>> >>},
                 !.tasks = {"generate", "reregister"}]}

\* An item that is an array, and one that is a cluster.
Compound ==
  {[Quiet EXCEPT !.wired[s1] = << x, y >>, !.specs[s1] = << Case(1), Case(2), Case(3) >>,
                 !.kinds[x] = << k, "scalar" >>, !.ends = {},
                 !.inputs[x] = {<< <<1, 2>>, <<2>> >>, << <<1>>, <<2>> >>},
                 !.tasks = {"generate", "unregister", "destroy"}] : k \in {"array", "cluster"}}

\* A structure with an event of a control by number, to be bound to a refnum.
Bound ==
  {[Quiet EXCEPT !.specs[s1] = << Spec("ValueChange", 112, 0), Spec("MouseDown", NoRef, 0) >>,
                 !.specs[s2] = << Spec("ValueChange", 11, 0) >>, !.starts = {"a", "b"},
                 !.makes = {}, !.registers = 0, !.tasks = {"configure", "occur", "host"}]}

EventPrograms == OneStructure \cup TwoListeners \cup Again \cup Compound \cup Bound

\* Two events of one control.
TwoEvents ==
  {[Quiet EXCEPT !.specs[s1] = << Spec("ValueChange", 11, 0), Spec("MouseDown", 11, 0) >>]}
=============================================================================
