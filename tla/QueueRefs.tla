----------------------------- MODULE QueueRefs -----------------------------
(***************************************************************************)
(* The refnums of queues: QueueRefNumManager of source/core/               *)
(* Synchronization.cpp and the cleanup lists of RefNumManager (source/     *)
(* core/RefNum.cpp).  A queue without a name is used by its refnum.  A     *)
(* queue with a name is reached by aliases of its refnum, one for every    *)
(* time it was obtained; its refnum stays with the name.  A queue ends     *)
(* when it is released, by its last alias if it has a name; what a VI has  *)
(* obtained is also given back when the VI finishes.                       *)
(*                                                                         *)
(* VIs run one at a time as far as refnums are concerned: an operation and *)
(* the cleanup of a VI are one step each.  Refnums can be passed between   *)
(* VIs and used for as long as anybody likes.                              *)
(***************************************************************************)
EXTENDS RefNumStorage, SequencesExt

CONSTANTS
  VI,          \* the top level VIs
  Name,        \* names of queues
  FirstMagics, \* the magic numbers to start with that are considered
  MaxObtains   \* bound: how often a queue is obtained

ASSUME QueueRefsAssumption ==
  /\ IsFiniteSet(VI)
  /\ FirstMagics \subseteq 1 .. MagicNumbers - 1
  /\ MaxObtains \in Nat

VARIABLES
  manager,  \* the manager: its storage, _namedRefMap and _refAliasMap
  records,  \* _s_CleanupMap: the refnums to be cleaned up after each VI
  active,   \* the VIs that run
  obtains,  \* how often a queue has been obtained
  known,    \* history: the refnums that VIs have been given
  clash     \* history: a refnum was given out that meant something before

refVars == << manager, records, active, obtains, known, clash >>

QueueRefsInit ==
  /\ \E magic \in FirstMagics :
       manager = [storage |-> EmptyStorage(magic), named |-> [n \in {} |-> 0], alias |-> [a \in {} |-> 0]]
  /\ records = [v \in VI |-> << >>]
  /\ active = {}
  /\ obtains = 0
  /\ known = {}
  /\ clash = FALSE

-----------------------------------------------------------------------------
(* The manager.                                                             *)

Aliases(mgr, real) == {a \in DOMAIN mgr.alias : mgr.alias[a] = real}
NamesOf(mgr, real) == {n \in DOMAIN mgr.named : mgr.named[n] = real}

Without(f, x) == Restrict(f, DOMAIN f \ {x})

LookupAlias(mgr, r) == IF r \in DOMAIN mgr.alias THEN mgr.alias[r] ELSE r

\* LookupQueueRef succeeds.
IsAQueue(mgr, r) == HasData(mgr.storage, LookupAlias(mgr, r))

\* The k-th clone is the first that is not an alias yet.
FirstFreshClone(mgr, real, k) ==
  /\ CloneRefNum(real, k) \notin DOMAIN mgr.alias
  /\ \A j \in 1 .. k - 1 : CloneRefNum(real, j) \in DOMAIN mgr.alias

\* The clones start over after MagicNumbers of them, and the last of these is
\* the refnum itself.  If all are aliases, NewRefnumAlias searches forever.
HasFreshAlias(mgr, real) ==
  \E k \in 1 .. MagicNumbers : CloneRefNum(real, k) \notin DOMAIN mgr.alias

\* NewRefnumAlias
FreshAlias(mgr, real) ==
  CloneRefNum(real, CHOOSE k \in 1 .. MagicNumbers : FirstFreshClone(mgr, real, k))

\* Mutated: the alias is not counted.
WithAliasUncounted(mgr, real) ==
  [mgr EXCEPT !.alias = With(@, FreshAlias(mgr, real), real)]

WithAlias(mgr, real) ==
  [mgr EXCEPT !.storage = Acquired(@, real),
              !.alias = With(@, FreshAlias(mgr, real), real)]

\* GetQueueRefName, deleting: one name of the refnum goes.  (The map's first
\* one; more than one name takes a clash.)
NameErased(mgr, r) ==
  LET found == NamesOf(mgr, LookupAlias(mgr, r)) IN
  IF r = NotARefNum \/ found = {} THEN mgr
  ELSE [mgr EXCEPT !.named = Without(@, CHOOSE n \in found : TRUE)]

\* Mutated: the count that names and aliases share is off by one.
LastAliasEarly(mgr, r) == CountBefore(mgr.storage, mgr.alias[r]) <= 3

\* Only the reference of the name is left, or nothing.
LastAlias(mgr, r) == CountBefore(mgr.storage, mgr.alias[r]) <= 2

\* DisposeAlias, of an alias.
AliasDisposed(mgr, r) ==
  LET less == [mgr EXCEPT !.storage = Released(@, mgr.alias[r])]
      last == [NameErased(less, r) EXCEPT !.storage = Disposed(@, mgr.alias[r])]
  IN  [IF LastAlias(mgr, r) THEN last ELSE less EXCEPT !.alias = Without(@, r)]

\* An alias is disposed as one, any other refnum as what it is.
\* (CleanUpQueueRefNum; also the end of QueueRef_Release.)
CleanedUp(mgr, r) ==
  IF r \in DOMAIN mgr.alias
  THEN AliasDisposed(mgr, r)
  ELSE [mgr EXCEPT !.storage = Disposed(@, r)]

-----------------------------------------------------------------------------
(* The operations of a VI.                                                  *)

\* Mutated: a VI has one record only.
RecordedOnce(v, r) ==
  records' = IF records[v] # << >> THEN records ELSE [records EXCEPT ![v] = Append(@, r)]

\* AddCleanupProc
Recorded(v, r) ==
  records' = IF r \in Range(records[v]) THEN records ELSE [records EXCEPT ![v] = Append(@, r)]

\* The VI gets r.  It is a clash if r, or the refnum of a new queue behind it,
\* was known before, if r is the refnum behind a name, or if r reads as no
\* refnum at all.
Gives(v, r, real) ==
  /\ Recorded(v, r)
  /\ known' = known \cup {r}
  /\ clash' = \/ clash
              \/ {r, real} \cap (known \cup {NotARefNum}) # {}
              \/ r \in Range(manager'.named)
  /\ obtains' = obtains + 1
  /\ UNCHANGED active

MayObtain(v) == v \in active /\ obtains < MaxObtains

\* There is a queue by that name.
Found(n) == n \in DOMAIN manager.named /\ HasData(manager.storage, manager.named[n])

\* QueueRef_Obtain finds a queue of that name, of the type asked for.
ObtainNamed(v, n) ==
  /\ MayObtain(v)
  /\ Found(n)
  /\ LET real == manager.named[n] IN
       /\ HasFreshAlias(manager, real)
       /\ manager' = WithAlias(manager, real)
       /\ Gives(v, FreshAlias(manager, real), FreshAlias(manager, real))

\* QueueRef_Obtain makes a queue with a name.
ObtainNewNamed(v, n) ==
  /\ MayObtain(v)
  /\ ~ Found(n)
  /\ CanCreate(manager.storage)
  /\ LET real == CreatedRefNum(manager.storage)
         made == [manager EXCEPT !.storage = Created(@), !.named = With(@, n, real)]
     IN  /\ HasFreshAlias(made, real)
         /\ manager' = WithAlias(made, real)
         /\ Gives(v, FreshAlias(made, real), real)

\* QueueRef_Obtain makes a queue without a name.
ObtainUnnamed(v) ==
  /\ MayObtain(v)
  /\ CanCreate(manager.storage)
  /\ manager' = [manager EXCEPT !.storage = Created(@)]
  /\ Gives(v, CreatedRefNum(manager.storage), CreatedRefNum(manager.storage))

\* QueueRef_Obtain makes no queue, since there is no slot.  The refnum it
\* returns, which is none, is recorded all the same.
ObtainNothing(v) ==
  /\ MayObtain(v)
  /\ ~ CanCreate(manager.storage)
  /\ Recorded(v, NotARefNum)
  /\ obtains' = obtains + 1
  /\ UNCHANGED << manager, active, known, clash >>

\* QueueRef_Release, which leaves the record of the refnum alone.
Release(v, r) ==
  /\ v \in active
  /\ IsAQueue(manager, r)
  /\ manager' = CleanedUp(manager, r)
  /\ UNCHANGED << records, active, obtains, known, clash >>

\* The host starts a VI.
Start(v) ==
  /\ v \notin active
  /\ obtains < MaxObtains
  /\ active' = active \cup {v}
  /\ UNCHANGED << manager, records, obtains, known, clash >>

\* RunCleanupProcs: one record after the other.
AllCleanedUp(mgr, recs) ==
  LET after[k \in 0 .. Len(recs)] ==
        IF k = 0 THEN mgr ELSE CleanedUp(after[k - 1], recs[k])
  IN  after[Len(recs)]

\* GoIsDone: RunCleanupProcs takes the records in their order.
Finish(v) ==
  /\ v \in active
  /\ active' = active \ {v}
  /\ manager' = AllCleanedUp(manager, records[v])
  /\ records' = [records EXCEPT ![v] = << >>]
  /\ UNCHANGED << obtains, known, clash >>

QueueRefsNext ==
  \E v \in VI :
    \/ Start(v)
    \/ Finish(v)
    \/ ObtainUnnamed(v)
    \/ ObtainNothing(v)
    \/ \E n \in Name : ObtainNamed(v, n) \/ ObtainNewNamed(v, n)
    \/ \E r \in known : Release(v, r)

QueueRefsSpec == QueueRefsInit /\ [][QueueRefsNext]_refVars

-----------------------------------------------------------------------------
(* Properties.                                                              *)

\* Types.  In particular no slot in use has the magic number 0, with which
\* ValidateRefNumIndex would turn its own refnum down.
QueueRefsTypeOK ==
  /\ IsStorage(manager.storage)
  /\ \A i \in UsedIndexes(manager.storage) : manager.storage.slot[i].magic # 0
  /\ \A n \in DOMAIN manager.named : n \in Name /\ manager.named[n] \in RefNum
  /\ \A a \in DOMAIN manager.alias : a \in RefNum /\ manager.alias[a] \in RefNum
  /\ \A v \in VI : Range(records[v]) \subseteq RefNum /\ IsInjective(records[v])
  /\ active \subseteq VI
  /\ known \subseteq RefNum
  /\ clash \in BOOLEAN

\* The free list holds every slot that is not in use, once, and ends at the
\* first index without a slot; and the slots in use are as many as _numUsed
\* says.  So NewRefNum never meets a slot in use and no slot is lost, however
\* refnums are used or misused.
FreeListComplete ==
  /\ HasFreeList(manager.storage)
  /\ manager.storage.numUsed = Cardinality(UsedIndexes(manager.storage))

\* As long as no refnum has clashed, the count of a slot is what holds it: one
\* for the refnum itself, and one for each of its aliases; and no alias leads
\* to a queue that is gone.
CountsMatchAliases ==
  ~ clash =>
    /\ \A r \in RefNumsInUse(manager.storage) :
         manager.storage.slot[r.index].count = 1 + Cardinality(Aliases(manager, r))
    /\ \A a \in DOMAIN manager.alias : IsARefNum(manager.storage, manager.alias[a])

\* The refnums by which a queue is reached.
HandlesOf(real) == {real} \cup Aliases(manager, real)

\* "Manage automatic cleanup of Queue refnums when a top-level VI completes"
\* (RefNum.h:153): as long as no refnum has clashed, the cleanup of a VI ends
\* no queue that another running VI has obtained and that is still there.
CleanupSparesOthers ==
  [][\A v \in VI : Finish(v) /\ ~ clash =>
       \A r \in RefNumsInUse(manager.storage) \ RefNumsInUse(manager'.storage) :
         \A w \in VI \ {v} : Range(records[w]) \cap HandlesOf(r) = {}]_refVars

\* The assertion of Uninit, _numUsed == 0: as long as no refnum has clashed,
\* nothing is left once every VI has finished, no slot, name or alias.
NothingLeft ==
  active = {} /\ ~ clash =>
    /\ manager.storage.numUsed = 0
    /\ DOMAIN manager.alias = {}
    /\ DOMAIN manager.named = {}

\* "Resulting refnum is not valid to look up storage" (RefNum.cpp:79): no alias
\* in use is also the refnum of something in the storage.
AliasIsNoRefNum == \A a \in DOMAIN manager.alias : ~ IsARefNum(manager.storage, a)
=============================================================================
