--------------------------- MODULE RefNumStorage ---------------------------
(***************************************************************************)
(* The storage behind refnums: RefNumStorageBase and TypedRefNum of        *)
(* source/core/RefNum.cpp and source/include/RefNum.h.  A refnum is an     *)
(* index and a magic number, packed into one word; the storage is a map    *)
(* from indexes to slots, whose unused ones form a free list.  A storage   *)
(* is a record here, and every method a function of it, for the managers   *)
(* that own one.                                                           *)
(*                                                                         *)
(* The count of a slot shares its word with the magic number and has as    *)
(* many bits as an index (2^20 values); that it overflows is not modelled. *)
(***************************************************************************)
EXTENDS Integers, FiniteSets

CONSTANTS
  MagicNumbers,  \* kMaxMagicNumber + 1, a power of two: 2^12 in the code
  MaxIndex       \* kMaxIndex: 2^20 - 1 in the code

ASSUME StorageAssumption ==
  /\ MagicNumbers \in Nat /\ MagicNumbers > 1
  /\ MaxIndex \in Nat

Index == 0 .. MaxIndex
MagicMask(mn) == mn % MagicNumbers

RefNum == [index : Index, magic : 0 .. MagicNumbers - 1]
MakeRefNum(index, magic) == [index |-> index, magic |-> MagicMask(magic)]
NotARefNum == MakeRefNum(0, 0)

\* A map with one entry put in.
With(map, key, value) ==
  [k \in DOMAIN map \cup {key} |-> IF k = key THEN value ELSE map[k]]

InUse == -1   \* the nextFree of a slot in use

Slot == [magic : 0 .. MagicNumbers - 1, count : Nat, nextFree : {InUse} \cup 0 .. MaxIndex + 1]

\* The types of a storage.
IsStorage(st) ==
  /\ st \in [slot : {st.slot}, firstFree : 0 .. MaxIndex + 1, numUsed : Nat,
             nextMagic : 1 .. MagicNumbers - 1]
  /\ st.slot \in [DOMAIN st.slot -> Slot]
  /\ DOMAIN st.slot \subseteq Index

\* The storage at its start; the first magic number is taken from the clock.
EmptyStorage(firstMagic) ==
  [slot |-> [i \in {} |-> 0], firstFree |-> 0, numUsed |-> 0, nextMagic |-> firstMagic]

-----------------------------------------------------------------------------
(* Looking up.                                                              *)

UsedIndexes(st) == {i \in DOMAIN st.slot : st.slot[i].nextFree = InUse}
FreeIndexes(st) == DOMAIN st.slot \ UsedIndexes(st)

\* ValidateRefNumIndex
IsARefNum(st, r) ==
  /\ r.index \in UsedIndexes(st)
  /\ r.magic # 0
  /\ st.slot[r.index].magic = r.magic

\* GetRefNumData succeeds.
HasData(st, r) == IsARefNum(st, r) /\ st.slot[r.index].count > 0

RefNumsInUse(st) == {MakeRefNum(i, st.slot[i].magic) : i \in UsedIndexes(st)}

-----------------------------------------------------------------------------
(* Changing the storage.                                                    *)

\* NewRefNum finds a slot: a free one, or an index there is no slot for yet.
CanCreate(st) == st.firstFree \in Index \ UsedIndexes(st)

CreatedRefNum(st) == MakeRefNum(st.firstFree, st.nextMagic)

\* Mutated: the magic number that is no magic number is not left out.
MagicAfterNoSkip(mn) == MagicMask(mn + 1)

MagicAfter(mn) == IF MagicMask(mn + 1) = 0 THEN 1 ELSE MagicMask(mn + 1)

\* NewRefNum
Created(st) ==
  LET i == st.firstFree IN
  [st EXCEPT
     !.slot = With(@, i, [magic |-> MagicMask(st.nextMagic), count |-> 1, nextFree |-> InUse]),
     !.firstFree = IF i \in DOMAIN st.slot THEN st.slot[i].nextFree ELSE i + 1,
     !.numUsed = @ + 1,
     !.nextMagic = MagicAfter(@)]

\* Mutated: the slots that were free before are forgotten.
DisposedUnlinked(st, r) ==
  IF ~ IsARefNum(st, r) THEN st
  ELSE [st EXCEPT !.slot[r.index] = [magic |-> 0, count |-> 0, nextFree |-> r.index],
                  !.numUsed = @ - 1,
                  !.firstFree = r.index]

\* DisposeRefNum
Disposed(st, r) ==
  IF ~ IsARefNum(st, r) THEN st
  ELSE [st EXCEPT !.slot[r.index] = [magic |-> 0, count |-> 0, nextFree |-> st.firstFree],
                  !.numUsed = @ - 1,
                  !.firstFree = r.index]

\* AcquireRefNumRights
Acquired(st, r) ==
  IF ~ HasData(st, r) THEN st ELSE [st EXCEPT !.slot[r.index].count = @ + 1]

\* What ReleaseRefNumRights returns: the count before, 0 if it did nothing.
CountBefore(st, r) == IF HasData(st, r) THEN st.slot[r.index].count ELSE 0

\* ReleaseRefNumRights
Released(st, r) ==
  LET fewer == [st EXCEPT !.slot[r.index].count = @ - 1] IN
  CASE CountBefore(st, r) = 0 -> st
    [] CountBefore(st, r) = 1 -> Disposed(fewer, r)
    [] OTHER -> fewer

\* CloneRefNum, k times: the same index with a later magic number, maybe 0.
CloneRefNum(r, k) == MakeRefNum(r.index, r.magic + k)

-----------------------------------------------------------------------------
(* What keeps the storage whole.                                            *)

\* The list of the free slots starts at firstFree, goes along nextFree, meets
\* each of them once and ends at n, the first index that has no slot.
FreeList(st, n, len, list) ==
  /\ list[1] = st.firstFree
  /\ list[len + 1] = n
  /\ \A k \in 1 .. len : list[k] \in FreeIndexes(st) /\ st.slot[list[k]].nextFree = list[k + 1]
  /\ \A i \in FreeIndexes(st) : \E k \in 1 .. len : list[k] = i
  /\ \A j, k \in 1 .. len : list[j] = list[k] => j = k

HasFreeList(st) ==
  \E n \in 0 .. MaxIndex + 1 :
    /\ DOMAIN st.slot = 0 .. n - 1
    /\ LET len == Cardinality(FreeIndexes(st))
       IN  \E list \in [1 .. len + 1 -> 0 .. n] : FreeList(st, n, len, list)
=============================================================================
