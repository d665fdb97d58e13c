-------------------------- MODULE QueueRefsProofs --------------------------
(***************************************************************************)
(* Proofs about QueueRefs, for any VIs, any names and any use of refnums.  *)
(*                                                                         *)
(* However refnums are used, the storage keeps its types and no slot is    *)
(* lost or given out twice.  The rest holds for as long as no refnum is    *)
(* given out that meant something before (clash): the counts are those of  *)
(* the aliases, a cleanup takes nothing from another VI, and when all VIs  *)
(* have finished nothing is left.  It follows from UseInv, which says who  *)
(* knows, names, counts and records what.  Names can make refnums clash:   *)
(* when a queue with a name is released, what its alias was can become the *)
(* refnum of a new queue.  Without names, none clashes (NamelessInv).      *)
(***************************************************************************)
EXTENDS QueueRefs, ListProofs, FiniteSetTheorems

\* What every method of the storage keeps.
Sound(st) ==
  /\ IsStorage(st)
  /\ HasFreeList(st)
  /\ st.numUsed = Cardinality(UsedIndexes(st))

-----------------------------------------------------------------------------
(* Finite sets of indexes.                                                  *)

LEMMA IndexesAreFinite ==
  ASSUME NEW st, NEW n \in Nat, DOMAIN st.slot = 0 .. n - 1
  PROVE  /\ IsFiniteSet(UsedIndexes(st)) /\ Cardinality(UsedIndexes(st)) \in Nat
         /\ IsFiniteSet(FreeIndexes(st)) /\ Cardinality(FreeIndexes(st)) \in Nat
<1>1. IsFiniteSet(0 .. n - 1)
  BY FS_Interval
<1>2. UsedIndexes(st) \subseteq 0 .. n - 1 /\ FreeIndexes(st) \subseteq 0 .. n - 1
  BY DEF UsedIndexes, FreeIndexes
<1> QED BY <1>1, <1>2, FS_Subset, FS_CardinalityType

-----------------------------------------------------------------------------
(* The methods of the storage.                                              *)

\* A storage with the links of another.
LEMMA SameLinks ==
  ASSUME NEW st, NEW st2, Sound(st), IsStorage(st2),
         DOMAIN st2.slot = DOMAIN st.slot,
         \A i \in DOMAIN st.slot : st2.slot[i].nextFree = st.slot[i].nextFree,
         st2.firstFree = st.firstFree, st2.numUsed = st.numUsed
  PROVE  Sound(st2)
<1>1. UsedIndexes(st2) = UsedIndexes(st) /\ FreeIndexes(st2) = FreeIndexes(st)
  BY DEF UsedIndexes, FreeIndexes
<1>2. ASSUME NEW n, NEW len, NEW list, FreeList(st, n, len, list)
      PROVE  FreeList(st2, n, len, list)
  <2>1. \A k \in 1 .. len : list[k] \in DOMAIN st.slot
    BY <1>2 DEF FreeList, FreeIndexes
  <2> QED BY <1>1, <1>2, <2>1 DEF FreeList
<1>3. HasFreeList(st2)
  BY <1>1, <1>2 DEF HasFreeList, Sound
<1> QED BY <1>1, <1>3 DEF Sound

\* NewRefNum takes the head of the free list, or makes a slot if it is empty.
LEMMA CreatedSound ==
  ASSUME NEW st, Sound(st), CanCreate(st)
  PROVE  Sound(Created(st))
<1> DEFINE i == st.firstFree
           st2 == Created(st)
           fresh == [magic |-> MagicMask(st.nextMagic), count |-> 1, nextFree |-> InUse]
           used == UsedIndexes(st)
           free == FreeIndexes(st)
<1>1. i \in Index /\ i \notin used
  BY DEF CanCreate
<1>2. /\ st2.slot = With(st.slot, i, fresh)
      /\ st2.firstFree = IF i \in DOMAIN st.slot THEN st.slot[i].nextFree ELSE i + 1
      /\ st2.numUsed = st.numUsed + 1
      /\ st2.nextMagic = MagicAfter(st.nextMagic)
      /\ st2 \in [slot : {st2.slot}, firstFree : {st2.firstFree}, numUsed : {st2.numUsed},
                  nextMagic : {st2.nextMagic}]
  BY DEF Created, Sound, IsStorage
<1>3. st2.slot = [j \in {i} \cup DOMAIN st.slot |-> IF j = i THEN fresh ELSE st.slot[j]]
  BY <1>2 DEF With
<1> HIDE DEF st2
<1>4. fresh \in Slot
  BY StorageAssumption DEF Slot, Sound, IsStorage, MagicMask, InUse
<1>5. MagicAfter(st.nextMagic) \in 1 .. MagicNumbers - 1
  BY StorageAssumption DEF MagicAfter, MagicMask, Sound, IsStorage
<1>6. st2.slot \in [DOMAIN st2.slot -> Slot] /\ DOMAIN st2.slot = {i} \cup DOMAIN st.slot
  BY <1>3, <1>4 DEF Sound, IsStorage
<1> HIDE DEF fresh
<1>7. PICK n \in 0 .. MaxIndex + 1 :
         /\ DOMAIN st.slot = 0 .. n - 1
         /\ \E list \in [1 .. Cardinality(free) + 1 -> 0 .. n] : FreeList(st, n, Cardinality(free), list)
  BY DEF Sound, HasFreeList
<1>8. n \in Nat /\ IsFiniteSet(used) /\ IsFiniteSet(free) /\ Cardinality(free) \in Nat
  BY <1>7, IndexesAreFinite, StorageAssumption
<1> DEFINE len == Cardinality(free)
<1>9. PICK list \in [1 .. len + 1 -> 0 .. n] : FreeList(st, n, len, list)
  BY <1>7
<1>10. fresh.nextFree = InUse
  BY DEF fresh
<1>11. UsedIndexes(st2) = used \cup {i} /\ FreeIndexes(st2) = free \ {i}
  BY <1>1, <1>3, <1>6, <1>10 DEF UsedIndexes, FreeIndexes
<1>12. st2.numUsed = Cardinality(UsedIndexes(st2))
  <2>1. Cardinality(used \cup {i}) = Cardinality(used) + 1
    BY <1>1, <1>8, FS_AddElement
  <2> QED BY <1>2, <1>11, <2>1 DEF Sound
<1>13. st2.firstFree \in 0 .. MaxIndex + 1 /\ HasFreeList(st2)
  <2>1. CASE len = 0
    <3>1. free = {}
      BY <1>8, <2>1, FS_EmptySet
    <3>2. i = n
      BY <1>9, <2>1 DEF FreeList
    <3>3. i \notin DOMAIN st.slot /\ DOMAIN st2.slot = 0 .. n
      BY <1>6, <1>7, <3>2
    <3>4. st2.firstFree = n + 1 /\ n + 1 \in 0 .. MaxIndex + 1
      BY <1>1, <1>2, <1>8, <3>2, <3>3, StorageAssumption DEF Index
    <3> DEFINE list2 == [k \in 1 .. 1 |-> n + 1]
    <3>5. Cardinality(FreeIndexes(st2)) = 0 /\ FreeIndexes(st2) = {}
      BY <1>11, <3>1, FS_EmptySet
    <3>6. FreeList(st2, n + 1, 0, list2) /\ list2 \in [1 .. 1 -> 0 .. n + 1]
      BY <1>8, <3>4, <3>5 DEF FreeList
    <3> HIDE DEF list2
    <3> QED BY <1>8, <3>3, <3>4, <3>5, <3>6 DEF HasFreeList
  <2>2. CASE len > 0
    <3>1. i \in free /\ st.slot[i].nextFree = list[2] /\ list[1] = i
      BY <1>8, <1>9, <2>2 DEF FreeList
    <3>2. i \in DOMAIN st.slot /\ DOMAIN st2.slot = 0 .. n - 1
      BY <1>6, <1>7, <3>1 DEF FreeIndexes
    <3>3. st2.firstFree = list[2] /\ list[2] \in 0 .. n
      BY <1>2, <1>8, <1>9, <2>2, <3>1, <3>2
    <3> DEFINE list2 == [k \in 1 .. len |-> list[k + 1]]
    <3>4. Cardinality(FreeIndexes(st2)) = len - 1
      BY <1>8, <1>11, <3>1, FS_RemoveElement
    <3>5. list2 \in [1 .. len -> 0 .. n]
      BY <1>8, <1>9
    <3>6. FreeList(st2, n, len - 1, list2)
      <4>1. list2[1] = st2.firstFree /\ list2[len] = n
        BY <1>8, <1>9, <2>2, <3>3 DEF FreeList
      <4>2. ASSUME NEW k \in 1 .. len - 1
            PROVE  list2[k] \in FreeIndexes(st2) /\ st2.slot[list2[k]].nextFree = list2[k + 1]
        <5>1. k + 1 \in 1 .. len /\ 1 \in 1 .. len /\ k + 1 # 1
          BY <1>8, <2>2
        <5>2. list[k + 1] \in free /\ st.slot[list[k + 1]].nextFree = list[k + 1 + 1] /\ list[k + 1] # i
          BY <1>9, <5>1, <3>1 DEF FreeList
        <5>3. list2[k] = list[k + 1] /\ list2[k + 1] = list[k + 1 + 1]
          BY <1>8
        <5>4. list[k + 1] \in DOMAIN st.slot
          BY <5>2 DEF FreeIndexes
        <5> QED BY <1>3, <1>11, <5>2, <5>3, <5>4
      <4>3. \A j \in FreeIndexes(st2) : \E k \in 1 .. len - 1 : list2[k] = j
        <5>1. TAKE j \in FreeIndexes(st2)
        <5>2. PICK k \in 1 .. len : list[k] = j
          BY <1>9, <1>11 DEF FreeList
        <5>3. k # 1
          BY <1>11, <3>1, <5>2
        <5>4. k - 1 \in 1 .. len - 1 /\ list2[k - 1] = list[k]
          BY <1>8, <5>3
        <5> QED BY <5>2, <5>4
      <4>4. \A j, k \in 1 .. len - 1 : list2[j] = list2[k] => j = k
        <5>1. \A j, k \in 1 .. len : list[j] = list[k] => j = k
          BY <1>9 DEF FreeList
        <5> QED BY <1>8, <5>1
      <4> HIDE DEF list2
      <4>5. len - 1 + 1 = len
        BY <1>8
      <4> QED BY <4>1, <4>2, <4>3, <4>4, <4>5 DEF FreeList
    <3> HIDE DEF list2
    <3>7. len - 1 + 1 = len
      BY <1>8
    <3>8. \E l \in [1 .. Cardinality(FreeIndexes(st2)) + 1 -> 0 .. n] :
             FreeList(st2, n, Cardinality(FreeIndexes(st2)), l)
      BY <3>4, <3>5, <3>6, <3>7, Zenon
    <3>9. HasFreeList(st2)
      BY <1>7, <3>2, <3>8 DEF HasFreeList
    <3>10. st2.firstFree \in 0 .. MaxIndex + 1
      BY <1>7, <1>8, <3>3, StorageAssumption
    <3> QED BY <3>9, <3>10
  <2> QED BY <1>8, <2>1, <2>2
<1>14. IsStorage(st2)
  <2>1. DOMAIN st2.slot \subseteq Index
    BY <1>1, <1>6 DEF Sound, IsStorage
  <2>2. st2.numUsed \in Nat
    BY <1>2 DEF Sound, IsStorage
  <2> QED BY <1>2, <1>5, <1>6, <1>13, <2>1, <2>2 DEF IsStorage
<1> QED BY <1>12, <1>13, <1>14 DEF Sound, st2

\* DisposeRefNum puts the slot in front of the free list.
LEMMA DisposedSound ==
  ASSUME NEW st, Sound(st), NEW r
  PROVE  Sound(Disposed(st, r))
<1>1. SUFFICES ASSUME IsARefNum(st, r) PROVE Sound(Disposed(st, r))
  BY DEF Disposed
<1> DEFINE i == r.index
           st2 == Disposed(st, r)
           empty == [magic |-> 0, count |-> 0, nextFree |-> st.firstFree]
           used == UsedIndexes(st)
           free == FreeIndexes(st)
           len == Cardinality(free)
<1>2. i \in used /\ i \in DOMAIN st.slot /\ i \notin free
  BY <1>1 DEF IsARefNum, UsedIndexes, FreeIndexes
<1>3. /\ st2.slot = [st.slot EXCEPT ![i] = empty]
      /\ st2.firstFree = i
      /\ st2.numUsed = st.numUsed - 1
      /\ st2.nextMagic = st.nextMagic
      /\ st2 \in [slot : {st2.slot}, firstFree : {st2.firstFree}, numUsed : {st2.numUsed},
                  nextMagic : {st2.nextMagic}]
  BY <1>1 DEF Disposed, Sound, IsStorage
<1> HIDE DEF st2
<1>4. empty \in Slot /\ empty.nextFree = st.firstFree /\ st.firstFree # InUse
  BY StorageAssumption DEF Slot, Sound, IsStorage, InUse
<1>5. /\ st2.slot \in [DOMAIN st2.slot -> Slot] /\ DOMAIN st2.slot = DOMAIN st.slot
      /\ st2.slot[i].nextFree = st.firstFree
      /\ \A j \in DOMAIN st.slot \ {i} : st2.slot[j] = st.slot[j]
  BY <1>2, <1>3, <1>4 DEF Sound, IsStorage
<1> HIDE DEF empty
<1>6. PICK n \in 0 .. MaxIndex + 1 :
         /\ DOMAIN st.slot = 0 .. n - 1
         /\ \E list \in [1 .. Cardinality(free) + 1 -> 0 .. n] : FreeList(st, n, Cardinality(free), list)
  BY DEF Sound, HasFreeList
<1>7. n \in Nat /\ IsFiniteSet(used) /\ IsFiniteSet(free) /\ len \in Nat /\ Cardinality(used) \in Nat
  BY <1>6, IndexesAreFinite, StorageAssumption
<1>8. PICK list \in [1 .. len + 1 -> 0 .. n] : FreeList(st, n, len, list)
  BY <1>6
<1>9. UsedIndexes(st2) = used \ {i} /\ FreeIndexes(st2) = free \cup {i}
  BY <1>2, <1>4, <1>5 DEF UsedIndexes, FreeIndexes
<1>10. /\ Cardinality(UsedIndexes(st2)) = Cardinality(used) - 1
       /\ Cardinality(UsedIndexes(st2)) \in Nat
  BY <1>2, <1>7, <1>9, FS_RemoveElement, FS_CardinalityType
<1>11. Cardinality(FreeIndexes(st2)) = len + 1
  BY <1>2, <1>7, <1>9, FS_AddElement
<1> HIDE DEF len
<1> DEFINE list2 == [k \in 1 .. len + 2 |-> IF k = 1 THEN i ELSE list[k - 1]]
<1>12. list2 \in [1 .. len + 2 -> 0 .. n]
  BY <1>2, <1>6, <1>7, <1>8
<1>13. /\ list2[1] = i /\ list2[len + 2] = list[len + 1]
       /\ \A k \in 2 .. len + 2 : list2[k] = list[k - 1]
  BY <1>7
<1>14. list[1] = st.firstFree
  BY <1>8 DEF FreeList
<1> HIDE DEF list2
<1>15. FreeList(st2, n, len + 1, list2)
  <2>1. list2[1] = st2.firstFree /\ list2[len + 2] = n
    <3>1. list[len + 1] = n
      BY <1>8 DEF FreeList
    <3> QED BY <1>3, <1>13, <3>1
  <2>2. ASSUME NEW k \in 1 .. len + 1
        PROVE  list2[k] \in FreeIndexes(st2) /\ st2.slot[list2[k]].nextFree = list2[k + 1]
    <3>1. CASE k = 1
      <4>1. list2[k + 1] = list[1] /\ list2[k] = i
        BY <1>7, <1>13, <3>1
      <4> QED BY <1>5, <1>9, <1>14, <4>1
    <3>2. CASE k # 1
      <4> k - 1 \in 1 .. len /\ k \in 2 .. len + 2 /\ k + 1 \in 2 .. len + 2
        BY <1>7, <3>2
      <4> k + 1 - 1 = k - 1 + 1
        BY <1>7
      <4>1. k - 1 \in 1 .. len /\ list2[k] = list[k - 1] /\ list2[k + 1] = list[k - 1 + 1]
        BY <1>13
      <4>2. list[k - 1] \in free /\ st.slot[list[k - 1]].nextFree = list[k - 1 + 1]
        BY <1>8, <4>1 DEF FreeList
      <4>3. list[k - 1] \in DOMAIN st.slot \ {i}
        BY <1>2, <4>2 DEF FreeIndexes
      <4> QED BY <1>5, <1>9, <4>1, <4>2, <4>3
    <3> QED BY <3>1, <3>2
  <2>3. \A j \in FreeIndexes(st2) : \E k \in 1 .. len + 1 : list2[k] = j
    <3>1. TAKE j \in FreeIndexes(st2)
    <3>2. CASE j = i
      BY <1>7, <1>13, <3>2
    <3>3. CASE j # i
      <4>1. PICK k \in 1 .. len : list[k] = j
        BY <1>8, <1>9, <3>3 DEF FreeList
      <4>2. k + 1 \in 1 .. len + 1 /\ list2[k + 1] = list[k]
        BY <1>7, <1>13
      <4> QED BY <4>1, <4>2
    <3> QED BY <3>2, <3>3
  <2>4. \A j, k \in 1 .. len + 1 : list2[j] = list2[k] => j = k
    <3>1. TAKE j, k \in 1 .. len + 1
    <3>2. \A l \in 2 .. len + 1 : list2[l] # i
      <4>1. TAKE l \in 2 .. len + 1
      <4>2. l - 1 \in 1 .. len /\ list2[l] = list[l - 1]
        BY <1>7, <1>13
      <4> QED BY <1>2, <1>8, <4>2 DEF FreeList
    <3>3. CASE j = 1 \/ k = 1
      BY <1>7, <1>13, <3>2, <3>3
    <3>4. CASE j # 1 /\ k # 1
      <4>1. /\ j - 1 \in 1 .. len /\ list2[j] = list[j - 1]
            /\ k - 1 \in 1 .. len /\ list2[k] = list[k - 1]
        BY <1>7, <1>13, <3>4
      <4>2. \A l, m \in 1 .. len : list[l] = list[m] => l = m
        BY <1>8 DEF FreeList
      <4>3. list2[j] = list2[k] => j - 1 = k - 1
        BY <4>1, <4>2
      <4> QED BY <4>3
    <3> QED BY <3>3, <3>4
  <2>5. len + 1 + 1 = len + 2
    BY <1>7
  <2> QED BY <2>1, <2>2, <2>3, <2>4, <2>5 DEF FreeList
<1>16. HasFreeList(st2)
  <2>1. len + 1 + 1 = len + 2
    BY <1>7
  <2>2. \E l \in [1 .. Cardinality(FreeIndexes(st2)) + 1 -> 0 .. n] :
           FreeList(st2, n, Cardinality(FreeIndexes(st2)), l)
    BY <1>11, <1>12, <1>15, <2>1, Zenon
  <2> QED BY <1>5, <1>6, <2>2 DEF HasFreeList
<1>17. IsStorage(st2) /\ st2.numUsed = Cardinality(UsedIndexes(st2))
  <2>1. st2.numUsed = Cardinality(UsedIndexes(st2)) /\ st2.numUsed \in Nat
    BY <1>3, <1>10 DEF Sound
  <2>2. i \in 0 .. MaxIndex + 1
    BY <1>2, <1>6, StorageAssumption
  <2> QED BY <1>3, <1>5, <2>1, <2>2 DEF IsStorage, Sound
<1> QED BY <1>16, <1>17 DEF Sound, st2

\* AcquireRefNumRights changes a count.
LEMMA AcquiredSound ==
  ASSUME NEW st, Sound(st), NEW r
  PROVE  Sound(Acquired(st, r))
<1>1. SUFFICES ASSUME HasData(st, r) PROVE Sound(Acquired(st, r))
  BY DEF Acquired
<1> DEFINE i == r.index
           st2 == Acquired(st, r)
           held == [st.slot[i] EXCEPT !.count = @ + 1]
<1>2. i \in DOMAIN st.slot /\ st.slot[i] \in Slot
  BY <1>1 DEF HasData, IsARefNum, UsedIndexes, Sound, IsStorage
<1>3. held \in Slot /\ held.nextFree = st.slot[i].nextFree
  BY <1>2 DEF Slot
<1>4. st2 = [st EXCEPT !.slot = [st.slot EXCEPT ![i] = held]]
  BY <1>1, <1>2 DEF Acquired
<1> HIDE DEF held, st2
<1>5. /\ st2.slot = [st.slot EXCEPT ![i] = held]
      /\ st2.firstFree = st.firstFree /\ st2.numUsed = st.numUsed
      /\ st2 \in [slot : {st2.slot}, firstFree : {st.firstFree}, numUsed : {st.numUsed},
                  nextMagic : {st.nextMagic}]
  BY <1>4 DEF Sound, IsStorage
<1>6. /\ st2.slot \in [DOMAIN st2.slot -> Slot] /\ DOMAIN st2.slot = DOMAIN st.slot
      /\ \A j \in DOMAIN st.slot : st2.slot[j].nextFree = st.slot[j].nextFree
  BY <1>2, <1>3, <1>5 DEF Sound, IsStorage
<1>7. IsStorage(st2)
  BY <1>5, <1>6 DEF Sound, IsStorage
<1> QED BY <1>5, <1>6, <1>7, SameLinks DEF st2

\* ReleaseRefNumRights changes a count, and disposes what nobody holds.
LEMMA ReleasedSound ==
  ASSUME NEW st, Sound(st), NEW r
  PROVE  Sound(Released(st, r))
<1> DEFINE i == r.index
           st2 == [st EXCEPT !.slot[r.index].count = @ - 1]
           less == [st.slot[i] EXCEPT !.count = @ - 1]
<1>1. CASE CountBefore(st, r) = 0
  BY <1>1 DEF Released
<1>2. CASE CountBefore(st, r) # 0
  <2>1. HasData(st, r)
    BY <1>2 DEF CountBefore
  <2>2. i \in DOMAIN st.slot /\ st.slot[i] \in Slot /\ st.slot[i].count > 0
    BY <2>1 DEF HasData, IsARefNum, UsedIndexes, Sound, IsStorage
  <2>3. less \in Slot /\ less.nextFree = st.slot[i].nextFree
    BY <2>2 DEF Slot
  <2>4. st2 = [st EXCEPT !.slot = [st.slot EXCEPT ![i] = less]]
    BY <2>2
  <2>5. Released(st, r) = IF CountBefore(st, r) = 1 THEN Disposed(st2, r) ELSE st2
    BY <1>2 DEF Released
  <2> HIDE DEF less, st2
  <2>6. /\ st2.slot = [st.slot EXCEPT ![i] = less]
        /\ st2.firstFree = st.firstFree /\ st2.numUsed = st.numUsed
        /\ st2 \in [slot : {st2.slot}, firstFree : {st.firstFree}, numUsed : {st.numUsed},
                    nextMagic : {st.nextMagic}]
    BY <2>4 DEF Sound, IsStorage
  <2>7. /\ st2.slot \in [DOMAIN st2.slot -> Slot] /\ DOMAIN st2.slot = DOMAIN st.slot
        /\ \A j \in DOMAIN st.slot : st2.slot[j].nextFree = st.slot[j].nextFree
    BY <2>2, <2>3, <2>6 DEF Sound, IsStorage
  <2>8. IsStorage(st2)
    BY <2>6, <2>7 DEF Sound, IsStorage
  <2>9. Sound(st2)
    BY <2>6, <2>7, <2>8, SameLinks
  <2> QED BY <2>5, <2>9, DisposedSound
<1> QED BY <1>1, <1>2

-----------------------------------------------------------------------------
(* The manager.                                                             *)

SoundManager(mgr) ==
  /\ mgr \in [storage : {mgr.storage}, named : {mgr.named}, alias : {mgr.alias}]
  /\ Sound(mgr.storage)

LEMMA AliasGivenSound ==
  ASSUME NEW mgr, SoundManager(mgr), NEW real
  PROVE  SoundManager(WithAlias(mgr, real))
<1>1. WithAlias(mgr, real).storage = Acquired(mgr.storage, real)
  BY DEF WithAlias, SoundManager
<1>2. Sound(WithAlias(mgr, real).storage)
  BY <1>1, AcquiredSound DEF SoundManager
<1> QED BY <1>2 DEF WithAlias, SoundManager

LEMMA NameErasedSound ==
  ASSUME NEW mgr, SoundManager(mgr), NEW r
  PROVE  SoundManager(NameErased(mgr, r)) /\ NameErased(mgr, r).storage = mgr.storage
BY DEF NameErased, SoundManager

LEMMA CleanedUpSound ==
  ASSUME NEW mgr, SoundManager(mgr), NEW r
  PROVE  SoundManager(CleanedUp(mgr, r))
<1> DEFINE less == [mgr EXCEPT !.storage = Released(@, mgr.alias[r])]
           last == [NameErased(less, r) EXCEPT !.storage = Disposed(@, mgr.alias[r])]
<1>1. SoundManager(less)
  BY ReleasedSound DEF SoundManager
<1>2. SoundManager(last)
  <2> HIDE DEF less
  <2>1. SoundManager(NameErased(less, r))
    BY <1>1, NameErasedSound
  <2> QED BY <2>1, DisposedSound DEF SoundManager
<1>3. SoundManager(AliasDisposed(mgr, r))
  <2>1. AliasDisposed(mgr, r) = [IF LastAlias(mgr, r) THEN last ELSE less EXCEPT !.alias = Without(@, r)]
    BY DEF AliasDisposed
  <2> HIDE DEF less, last
  <2> QED BY <1>1, <1>2, <2>1 DEF SoundManager
<1>4. SoundManager([mgr EXCEPT !.storage = Disposed(@, r)])
  BY DisposedSound DEF SoundManager
<1> QED BY <1>3, <1>4 DEF CleanedUp

-----------------------------------------------------------------------------
(* The cleanup of a VI, record by record.                                   *)

\* After(mgr, recs, n, after): after[k] is the manager after k records.
After(mgr, recs, n, after) ==
  after = [k \in 0 .. n |-> IF k = 0 THEN mgr ELSE CleanedUp(after[k - 1], recs[k])]

LEMMA AfterExists ==
  ASSUME NEW mgr, NEW recs
  PROVE  \A n \in Nat : \E after : After(mgr, recs, n, after)
<1> DEFINE S == {n \in Nat : \E after : After(mgr, recs, n, after)}
<1>1. 0 \in S
  <2>1. After(mgr, recs, 0, [k \in 0 .. 0 |-> mgr])
    BY DEF After
  <2> QED BY <2>1
<1>2. ASSUME NEW n \in Nat, n \in S
      PROVE  n + 1 \in S
  <2>1. PICK after : After(mgr, recs, n, after)
    BY <1>2
  <2> DEFINE longer ==
        [k \in 0 .. n + 1 |-> IF k = n + 1 THEN CleanedUp(after[n], recs[n + 1]) ELSE after[k]]
  <2>2. \A k \in 0 .. n : longer[k] = after[k]
    OBVIOUS
  <2>3. longer[n + 1] = CleanedUp(longer[n], recs[n + 1])
    BY <2>2
  <2>4. \A k \in 1 .. n : after[k] = CleanedUp(after[k - 1], recs[k])
    BY <2>1 DEF After
  <2>5. after[0] = mgr
    BY <2>1 DEF After
  <2>6. longer = [k \in 0 .. n + 1 |-> longer[k]]
    OBVIOUS
  <2> HIDE DEF longer
  <2>7. \A k \in 0 .. n + 1 :
           longer[k] = IF k = 0 THEN mgr ELSE CleanedUp(longer[k - 1], recs[k])
    <3>1. TAKE k \in 0 .. n + 1
    <3>2. CASE k = 0
      BY <2>2, <2>5, <3>2
    <3>3. CASE k \in 1 .. n
      <4>1. k - 1 \in 0 .. n /\ k \in 0 .. n /\ k # 0
        BY <3>3
      <4> QED BY <2>2, <2>4, <3>3, <4>1
    <3>4. CASE k = n + 1
      <4>1. k # 0 /\ k - 1 = n
        BY <3>4
      <4> QED BY <2>3, <3>4, <4>1
    <3> QED BY <3>2, <3>3, <3>4
  <2>8. After(mgr, recs, n + 1, longer)
    BY <2>6, <2>7 DEF After
  <2> QED BY <2>8
<1> HIDE DEF S
<1>3. Nat \subseteq S
  BY <1>1, <1>2, SetInduction
<1> QED BY <1>3 DEF S

LEMMA CleanedUpInSteps ==
  ASSUME NEW mgr, NEW R, NEW recs \in Seq(R)
  PROVE  \E after : /\ after[0] = mgr /\ AllCleanedUp(mgr, recs) = after[Len(recs)]
                    /\ \A k \in 1 .. Len(recs) : after[k] = CleanedUp(after[k - 1], recs[k])
<1> DEFINE len == Len(recs)
           after == CHOOSE f : f = [k \in 0 .. len |->
                      IF k = 0 THEN mgr ELSE CleanedUp(f[k - 1], recs[k])]
<1>1. len \in Nat
  OBVIOUS
<1>2. AllCleanedUp(mgr, recs) = after[len]
  BY DEF AllCleanedUp
<1> HIDE DEF len
<1>3. \E f : f = [k \in 0 .. len |-> IF k = 0 THEN mgr ELSE CleanedUp(f[k - 1], recs[k])]
  <2>1. PICK f : After(mgr, recs, len, f)
    BY <1>1, AfterExists
  <2>2. f = [k \in 0 .. len |-> IF k = 0 THEN mgr ELSE CleanedUp(f[k - 1], recs[k])]
    BY <2>1 DEF After
  <2> QED BY <2>2, Zenon
<1>4. after = [k \in 0 .. len |-> IF k = 0 THEN mgr ELSE CleanedUp(after[k - 1], recs[k])]
  BY <1>3
<1> HIDE DEF after
<1>5. after[0] = mgr /\ \A k \in 1 .. len : after[k] = CleanedUp(after[k - 1], recs[k])
  BY <1>1, <1>4
<1> QED BY <1>2, <1>5 DEF len

LEMMA AllCleanedUpSound ==
  ASSUME NEW mgr, SoundManager(mgr), NEW R, NEW recs \in Seq(R)
  PROVE  SoundManager(AllCleanedUp(mgr, recs))
<1>1. PICK after : /\ after[0] = mgr /\ AllCleanedUp(mgr, recs) = after[Len(recs)]
                   /\ \A k \in 1 .. Len(recs) : after[k] = CleanedUp(after[k - 1], recs[k])
  BY CleanedUpInSteps
<1> DEFINE S == {k \in Nat : k <= Len(recs) => SoundManager(after[k])}
<1>2. 0 \in S
  BY <1>1
<1>3. ASSUME NEW k \in Nat, k \in S
      PROVE  k + 1 \in S
  <2>1. SUFFICES ASSUME k + 1 <= Len(recs) PROVE SoundManager(after[k + 1])
    OBVIOUS
  <2>2. after[k + 1] = CleanedUp(after[k], recs[k + 1])
    BY <1>1, <2>1
  <2>3. SoundManager(after[k])
    BY <1>3, <2>1
  <2> QED BY <2>2, <2>3, CleanedUpSound
<1> HIDE DEF S
<1>4. Nat \subseteq S
  BY <1>2, <1>3, SetInduction
<1> QED BY <1>1, <1>4 DEF S

-----------------------------------------------------------------------------
(* The storage of queue refnums.                                            *)

\* The inductive invariant.  Of the records no more is needed than that they
\* are sequences.
RefsInv ==
  /\ SoundManager(manager)
  /\ records \in [VI -> {records[v] : v \in VI}]
  /\ \A v \in VI : \E R : records[v] \in Seq(R)

LEMMA InitSound ==
  ASSUME QueueRefsInit
  PROVE  RefsInv
<1>1. PICK magic \in FirstMagics :
        manager = [storage |-> EmptyStorage(magic), named |-> [n \in {} |-> 0], alias |-> [a \in {} |-> 0]]
  BY DEF QueueRefsInit
<1> DEFINE st == EmptyStorage(magic)
<1>2. IsStorage(st) /\ DOMAIN st.slot = {} /\ st.firstFree = 0 /\ st.numUsed = 0
  BY StorageAssumption, QueueRefsAssumption DEF EmptyStorage, IsStorage, Slot
<1> HIDE DEF st
<1>3. UsedIndexes(st) = {} /\ FreeIndexes(st) = {}
  BY <1>2 DEF UsedIndexes, FreeIndexes
<1>4. HasFreeList(st)
  <2> DEFINE list == [k \in 1 .. 1 |-> 0]
  <2>1. FreeList(st, 0, 0, list) /\ list \in [1 .. 0 + 1 -> 0 .. 0]
    BY <1>2, <1>3 DEF FreeList
  <2>2. DOMAIN st.slot = 0 .. 0 - 1
    BY <1>2
  <2>3. Cardinality(FreeIndexes(st)) = 0
    BY <1>3, FS_EmptySet
  <2>4. 0 \in 0 .. MaxIndex + 1
    BY StorageAssumption
  <2> HIDE DEF list
  <2> QED BY <2>1, <2>2, <2>3, <2>4 DEF HasFreeList
<1>5. Sound(st)
  BY <1>2, <1>3, <1>4, FS_EmptySet DEF Sound
<1>6. SoundManager(manager)
  BY <1>1, <1>5 DEF SoundManager, st
<1> QED BY <1>6 DEF RefsInv, QueueRefsInit

\* AddCleanupProc appends to the records of a VI, or leaves them.
LEMMA RecordedSequences ==
  ASSUME RefsInv, NEW v \in VI, NEW r, Recorded(v, r)
  PROVE  /\ records' \in [VI -> {records'[w] : w \in VI}]
         /\ \A w \in VI : \E R : records'[w] \in Seq(R)
<1>1. CASE records' = records
  BY <1>1 DEF RefsInv
<1>2. CASE records' = [records EXCEPT ![v] = Append(@, r)]
  <2>1. records' = [w \in VI |-> IF w = v THEN Append(records[v], r) ELSE records[w]]
    BY <1>2 DEF RefsInv
  <2>2. PICK R : records[v] \in Seq(R)
    BY DEF RefsInv
  <2>3. records[v] \in Seq(R \cup {r})
    BY <2>2
  <2>4. Append(records[v], r) \in Seq(R \cup {r})
    BY <2>3
  <2>5. \A w \in VI : \E Q : records'[w] \in Seq(Q)
    BY <2>1, <2>4 DEF RefsInv
  <2> QED BY <2>1, <2>5
<1> QED BY <1>1, <1>2 DEF Recorded

\* Every operation keeps the storage sound.
LEMMA StepSound ==
  ASSUME RefsInv, [QueueRefsNext]_refVars
  PROVE  RefsInv'
<1>1. CASE UNCHANGED refVars
  BY <1>1 DEF RefsInv, refVars, SoundManager
<1>2. ASSUME NEW v \in VI, Start(v)
      PROVE  RefsInv'
  BY <1>2 DEF Start, RefsInv, SoundManager
<1>3. ASSUME NEW v \in VI, Finish(v)
      PROVE  RefsInv'
  <2>1. SoundManager(manager')
    BY <1>3, AllCleanedUpSound DEF Finish, RefsInv
  <2>2. records' = [w \in VI |-> IF w = v THEN << >> ELSE records[w]]
    BY <1>3 DEF Finish, RefsInv
  <2>3. << >> \in Seq({})
    OBVIOUS
  <2>4. \A w \in VI : \E R : records'[w] \in Seq(R)
    BY <2>2, <2>3 DEF RefsInv
  <2> QED BY <2>1, <2>2, <2>4 DEF RefsInv
<1>4. ASSUME NEW v \in VI, ObtainUnnamed(v)
      PROVE  RefsInv'
  <2>1. SoundManager(manager')
    BY <1>4, CreatedSound DEF ObtainUnnamed, RefsInv, SoundManager
  <2> QED BY <1>4, <2>1, RecordedSequences DEF ObtainUnnamed, Gives, RefsInv
<1>5. ASSUME NEW v \in VI, ObtainNothing(v)
      PROVE  RefsInv'
  <2>1. SoundManager(manager')
    BY <1>5 DEF ObtainNothing, RefsInv, SoundManager
  <2> QED BY <1>5, <2>1, RecordedSequences DEF ObtainNothing, RefsInv
<1>6. ASSUME NEW v \in VI, NEW n \in Name, ObtainNamed(v, n)
      PROVE  RefsInv'
  <2>1. SoundManager(manager')
    BY <1>6, AliasGivenSound DEF ObtainNamed, RefsInv
  <2> QED BY <1>6, <2>1, RecordedSequences DEF ObtainNamed, Gives, RefsInv
<1>7. ASSUME NEW v \in VI, NEW n \in Name, ObtainNewNamed(v, n)
      PROVE  RefsInv'
  <2> DEFINE real == CreatedRefNum(manager.storage)
             made == [manager EXCEPT !.storage = Created(@), !.named = With(@, n, real)]
  <2>1. SoundManager(made)
    BY <1>7, CreatedSound DEF ObtainNewNamed, RefsInv, SoundManager
  <2>2. manager' = WithAlias(made, real) /\ Recorded(v, FreshAlias(made, real))
    BY <1>7 DEF ObtainNewNamed, Gives
  <2> HIDE DEF made, real
  <2>3. SoundManager(manager')
    BY <2>1, <2>2, AliasGivenSound
  <2> QED BY <2>2, <2>3, RecordedSequences DEF RefsInv
<1>8. ASSUME NEW v \in VI, NEW r \in known, Release(v, r)
      PROVE  RefsInv'
  BY <1>8, CleanedUpSound DEF Release, RefsInv
<1> QED BY <1>1, <1>2, <1>3, <1>4, <1>5, <1>6, <1>7, <1>8 DEF QueueRefsNext

\* The free list and the count of slots in use are right in every state, for
\* any VIs, names, numbers of slots and magic numbers, whether refnums are used
\* as meant or after their end, and even if they clash.
THEOREM NoSlotIsLost == QueueRefsSpec => []FreeListComplete
<1>1. QueueRefsInit => RefsInv
  BY InitSound
<1>2. RefsInv /\ [QueueRefsNext]_refVars => RefsInv'
  BY StepSound
<1>3. RefsInv => FreeListComplete
  BY DEF RefsInv, SoundManager, Sound, FreeListComplete
<1> QED BY <1>1, <1>2, <1>3, PTL DEF QueueRefsSpec

-----------------------------------------------------------------------------
(* The refnums in use.                                                      *)

NonzeroMagics(st) == \A i \in UsedIndexes(st) : st.slot[i].magic # 0

CountOf(st, r) == st.slot[r.index].count

LEMMA InUseIsARefNum ==
  ASSUME NEW st, IsStorage(st)
  PROVE  /\ RefNumsInUse(st) \subseteq RefNum
         /\ \A r \in RefNumsInUse(st) :
              /\ r.index \in UsedIndexes(st) /\ r.index \in DOMAIN st.slot
              /\ r.magic = st.slot[r.index].magic
         /\ \A r, q \in RefNumsInUse(st) : r.index = q.index => r = q
         /\ \A r \in RefNum : r.index \in UsedIndexes(st) /\ r.magic = st.slot[r.index].magic =>
              r \in RefNumsInUse(st)
<1>1. ASSUME NEW i \in UsedIndexes(st)
      PROVE  /\ MakeRefNum(i, st.slot[i].magic) = [index |-> i, magic |-> st.slot[i].magic]
             /\ [index |-> i, magic |-> st.slot[i].magic] \in RefNum
             /\ i \in DOMAIN st.slot
  <2>1. i \in DOMAIN st.slot /\ i \in Index /\ st.slot[i].magic \in 0 .. MagicNumbers - 1
    BY DEF UsedIndexes, IsStorage, Slot
  <2>2. MagicMask(st.slot[i].magic) = st.slot[i].magic
    BY <2>1, StorageAssumption DEF MagicMask
  <2> QED BY <2>1, <2>2 DEF MakeRefNum, RefNum
<1>2. RefNumsInUse(st) = {[index |-> i, magic |-> st.slot[i].magic] : i \in UsedIndexes(st)}
  BY <1>1 DEF RefNumsInUse
<1>3. \A r \in RefNum : r = [index |-> r.index, magic |-> r.magic]
  BY DEF RefNum
<1> QED BY <1>1, <1>2, <1>3

LEMMA LookingUp ==
  ASSUME NEW st, IsStorage(st), NonzeroMagics(st), NEW r \in RefNum
  PROVE  IsARefNum(st, r) <=> r \in RefNumsInUse(st)
<1>1. ASSUME r \in RefNumsInUse(st) PROVE IsARefNum(st, r)
  BY <1>1, InUseIsARefNum DEF IsARefNum, NonzeroMagics
<1>2. ASSUME IsARefNum(st, r) PROVE r \in RefNumsInUse(st)
  BY <1>2, InUseIsARefNum DEF IsARefNum
<1> QED BY <1>1, <1>2

\* Two storages whose slots in use differ in their counts only.
LEMMA SameRefNums ==
  ASSUME NEW st, NEW st2, UsedIndexes(st2) = UsedIndexes(st),
         \A i \in UsedIndexes(st) : st2.slot[i].magic = st.slot[i].magic
  PROVE  RefNumsInUse(st2) = RefNumsInUse(st) /\ (NonzeroMagics(st) => NonzeroMagics(st2))
BY DEF RefNumsInUse, NonzeroMagics

LEMMA Creating ==
  ASSUME NEW st, Sound(st), NonzeroMagics(st), CanCreate(st)
  PROVE  /\ CreatedRefNum(st) \in RefNum /\ CreatedRefNum(st) # NotARefNum
         /\ CreatedRefNum(st) \notin RefNumsInUse(st)
         /\ RefNumsInUse(Created(st)) = RefNumsInUse(st) \cup {CreatedRefNum(st)}
         /\ NonzeroMagics(Created(st))
         /\ CountOf(Created(st), CreatedRefNum(st)) = 1
         /\ \A r \in RefNumsInUse(st) : CountOf(Created(st), r) = CountOf(st, r)
<1> DEFINE i == st.firstFree
           st2 == Created(st)
           fresh == [magic |-> MagicMask(st.nextMagic), count |-> 1, nextFree |-> InUse]
<1>1. i \in Index /\ i \notin UsedIndexes(st)
  BY DEF CanCreate
<1>2. st2.slot = With(st.slot, i, fresh)
  BY DEF Created, Sound, IsStorage
<1>3. MagicMask(st.nextMagic) = st.nextMagic /\ st.nextMagic \in 1 .. MagicNumbers - 1
  BY StorageAssumption DEF MagicMask, Sound, IsStorage
<1>4. CreatedRefNum(st) = [index |-> i, magic |-> st.nextMagic]
  BY <1>3 DEF CreatedRefNum, MakeRefNum
<1>5. CreatedRefNum(st) \in RefNum /\ CreatedRefNum(st) # NotARefNum
  <2>1. NotARefNum.magic = 0
    BY StorageAssumption DEF NotARefNum, MakeRefNum, MagicMask
  <2> QED BY <1>1, <1>3, <1>4, <2>1, StorageAssumption DEF RefNum
<1>6. CreatedRefNum(st) \notin RefNumsInUse(st)
  BY <1>1, <1>4, InUseIsARefNum DEF Sound
<1>7. st2.slot = [j \in DOMAIN st.slot \cup {i} |-> IF j = i THEN fresh ELSE st.slot[j]]
  BY <1>2 DEF With
<1>8. fresh.nextFree = InUse /\ fresh.count = 1 /\ fresh.magic = st.nextMagic
  BY <1>3
<1> HIDE DEF st2, fresh
<1>9. UsedIndexes(st2) = UsedIndexes(st) \cup {i}
  BY <1>1, <1>7, <1>8 DEF UsedIndexes
<1>10. /\ st2.slot[i].magic = st.nextMagic /\ st2.slot[i].count = 1
       /\ \A j \in UsedIndexes(st) : st2.slot[j] = st.slot[j]
  BY <1>1, <1>7, <1>8 DEF UsedIndexes
<1>11. MakeRefNum(i, st2.slot[i].magic) = CreatedRefNum(st)
  BY <1>10 DEF CreatedRefNum
<1>12. RefNumsInUse(st2) = RefNumsInUse(st) \cup {CreatedRefNum(st)}
  BY <1>9, <1>10, <1>11 DEF RefNumsInUse
<1>13. NonzeroMagics(st2)
  BY <1>3, <1>9, <1>10 DEF NonzeroMagics
<1>14. CountOf(st2, CreatedRefNum(st)) = 1
  BY <1>4, <1>10 DEF CountOf
<1>15. \A r \in RefNumsInUse(st) : CountOf(st2, r) = CountOf(st, r)
  BY <1>10, InUseIsARefNum DEF CountOf, Sound
<1> QED BY <1>5, <1>6, <1>12, <1>13, <1>14, <1>15 DEF st2

LEMMA Disposing ==
  ASSUME NEW st, Sound(st), NonzeroMagics(st), NEW r \in RefNum
  PROVE  /\ RefNumsInUse(Disposed(st, r)) = RefNumsInUse(st) \ {r}
         /\ NonzeroMagics(Disposed(st, r))
         /\ \A q \in RefNumsInUse(st) \ {r} : CountOf(Disposed(st, r), q) = CountOf(st, q)
<1> DEFINE i == r.index
           st2 == Disposed(st, r)
           empty == [magic |-> 0, count |-> 0, nextFree |-> st.firstFree]
<1>1. CASE ~ IsARefNum(st, r)
  <2>1. st2 = st /\ r \notin RefNumsInUse(st)
    BY <1>1, LookingUp DEF Disposed, Sound
  <2> QED BY <2>1
<1>2. CASE IsARefNum(st, r)
  <2>1. i \in UsedIndexes(st) /\ i \in DOMAIN st.slot /\ r \in RefNumsInUse(st)
    BY <1>2, LookingUp DEF IsARefNum, UsedIndexes, Sound
  <2>2. st2.slot = [st.slot EXCEPT ![i] = empty]
    BY <1>2 DEF Disposed, Sound, IsStorage
  <2>3. empty.nextFree # InUse
    BY StorageAssumption DEF Sound, IsStorage, InUse
  <2> HIDE DEF st2, empty
  <2>4. /\ DOMAIN st2.slot = DOMAIN st.slot /\ st2.slot[i] = empty
        /\ \A j \in DOMAIN st.slot \ {i} : st2.slot[j] = st.slot[j]
    BY <2>1, <2>2 DEF Sound, IsStorage
  <2>5. UsedIndexes(st2) = UsedIndexes(st) \ {i}
    BY <2>3, <2>4 DEF UsedIndexes
  <2>6. \A j \in UsedIndexes(st) \ {i} : st2.slot[j] = st.slot[j]
    BY <2>4 DEF UsedIndexes
  <2>7. \A q \in RefNumsInUse(st) \ {r} : q.index \in UsedIndexes(st) \ {i}
    BY <2>1, InUseIsARefNum DEF Sound
  <2>8. MakeRefNum(i, st.slot[i].magic) = r
    <3>1. MakeRefNum(i, st.slot[i].magic) \in RefNumsInUse(st) /\ MakeRefNum(i, st.slot[i].magic).index = i
      BY <2>1 DEF RefNumsInUse, MakeRefNum
    <3> QED BY <2>1, <3>1, InUseIsARefNum DEF Sound
  <2>9. RefNumsInUse(st2) = RefNumsInUse(st) \ {r}
    <3>1. \A j \in UsedIndexes(st) \ {i} : MakeRefNum(j, st.slot[j].magic) # r
      BY DEF MakeRefNum
    <3> QED BY <2>5, <2>6, <2>8, <3>1 DEF RefNumsInUse
  <2>10. NonzeroMagics(st2)
    BY <2>5, <2>6 DEF NonzeroMagics
  <2>11. \A q \in RefNumsInUse(st) \ {r} : CountOf(st2, q) = CountOf(st, q)
    BY <2>6, <2>7 DEF CountOf
  <2> QED BY <2>9, <2>10, <2>11 DEF st2
<1> QED BY <1>1, <1>2

\* One reference more, or one less of several.
LEMMA Counting ==
  ASSUME NEW st, Sound(st), NonzeroMagics(st), NEW r \in RefNumsInUse(st),
         NEW n \in Nat, NEW st2, st2 = [st EXCEPT !.slot[r.index].count = n]
  PROVE  /\ RefNumsInUse(st2) = RefNumsInUse(st) /\ NonzeroMagics(st2)
         /\ CountOf(st2, r) = n
         /\ \A q \in RefNumsInUse(st) \ {r} : CountOf(st2, q) = CountOf(st, q)
<1> DEFINE i == r.index
           held == [st.slot[i] EXCEPT !.count = n]
<1>1. i \in UsedIndexes(st) /\ i \in DOMAIN st.slot /\ st.slot[i] \in Slot
  BY InUseIsARefNum DEF Sound, IsStorage
<1>2. held.count = n /\ held.magic = st.slot[i].magic /\ held.nextFree = st.slot[i].nextFree
  BY <1>1 DEF Slot
<1>3. st2.slot = [st.slot EXCEPT ![i] = held]
  BY <1>1 DEF Sound, IsStorage
<1> HIDE DEF held
<1>4. /\ DOMAIN st2.slot = DOMAIN st.slot /\ st2.slot[i] = held
      /\ \A j \in DOMAIN st.slot \ {i} : st2.slot[j] = st.slot[j]
  BY <1>1, <1>3 DEF Sound, IsStorage
<1>5. UsedIndexes(st2) = UsedIndexes(st)
  BY <1>2, <1>4 DEF UsedIndexes
<1>6. \A j \in UsedIndexes(st) : st2.slot[j].magic = st.slot[j].magic
  BY <1>2, <1>4 DEF UsedIndexes
<1>7. RefNumsInUse(st2) = RefNumsInUse(st) /\ NonzeroMagics(st2)
  BY <1>5, <1>6, SameRefNums
<1>8. CountOf(st2, r) = n
  BY <1>2, <1>4 DEF CountOf
<1>9. \A q \in RefNumsInUse(st) \ {r} : q.index # i /\ q.index \in DOMAIN st.slot
  BY InUseIsARefNum DEF Sound
<1> QED BY <1>4, <1>7, <1>8, <1>9 DEF CountOf

LEMMA Acquiring ==
  ASSUME NEW st, Sound(st), NonzeroMagics(st), NEW r \in RefNum
  PROVE  /\ RefNumsInUse(Acquired(st, r)) = RefNumsInUse(st)
         /\ NonzeroMagics(Acquired(st, r))
         /\ r \in RefNumsInUse(st) /\ CountOf(st, r) > 0 => CountOf(Acquired(st, r), r) = CountOf(st, r) + 1
         /\ \A q \in RefNumsInUse(st) \ {r} : CountOf(Acquired(st, r), q) = CountOf(st, q)
<1>1. CASE ~ HasData(st, r)
  <2>1. Acquired(st, r) = st
    BY <1>1 DEF Acquired
  <2>2. ~ (r \in RefNumsInUse(st) /\ CountOf(st, r) > 0)
    BY <1>1, LookingUp DEF HasData, CountOf, Sound
  <2> QED BY <2>1, <2>2
<1>2. CASE HasData(st, r)
  <2>1. r \in RefNumsInUse(st) /\ st.slot[r.index].count \in Nat
    BY <1>2, LookingUp, InUseIsARefNum DEF HasData, Sound, IsStorage, Slot
  <2>2. PICK n : n = st.slot[r.index].count + 1
    OBVIOUS
  <2>3. n \in Nat
    BY <2>1, <2>2
  <2>4. Acquired(st, r) = [st EXCEPT !.slot[r.index].count = n]
    BY <1>2, <2>1, <2>2 DEF Acquired, Sound, IsStorage
  <2>5. PICK st2 : st2 = Acquired(st, r)
    OBVIOUS
  <2>6. /\ RefNumsInUse(st2) = RefNumsInUse(st) /\ NonzeroMagics(st2)
        /\ CountOf(st2, r) = n
        /\ \A q \in RefNumsInUse(st) \ {r} : CountOf(st2, q) = CountOf(st, q)
    BY <2>1, <2>3, <2>4, <2>5, Counting
  <2>7. n = CountOf(st, r) + 1
    BY <2>2 DEF CountOf
  <2> QED BY <2>5, <2>6, <2>7
<1> QED BY <1>1, <1>2

LEMMA Releasing ==
  ASSUME NEW st, Sound(st), NonzeroMagics(st), NEW r \in RefNum
  PROVE  /\ NonzeroMagics(Released(st, r))
         /\ r \in RefNumsInUse(st) /\ CountOf(st, r) > 1 =>
              /\ CountBefore(st, r) = CountOf(st, r)
              /\ RefNumsInUse(Released(st, r)) = RefNumsInUse(st)
              /\ CountOf(Released(st, r), r) = CountOf(st, r) - 1
              /\ \A q \in RefNumsInUse(st) \ {r} : CountOf(Released(st, r), q) = CountOf(st, q)
<1> DEFINE fewer == [st EXCEPT !.slot[r.index].count = @ - 1]
<1>1. CASE ~ HasData(st, r)
  <2>1. Released(st, r) = st
    BY <1>1 DEF Released, CountBefore
  <2>2. ~ (r \in RefNumsInUse(st) /\ CountOf(st, r) > 1)
    <3>1. SUFFICES ASSUME r \in RefNumsInUse(st), CountOf(st, r) > 1 PROVE FALSE
      OBVIOUS
    <3>2. st.slot[r.index].count \in Nat
      BY <3>1, InUseIsARefNum DEF Sound, IsStorage, Slot
    <3> QED BY <1>1, <3>1, <3>2, LookingUp DEF HasData, CountOf, Sound
  <2> QED BY <2>1, <2>2
<1>2. CASE HasData(st, r)
  <2>1. r \in RefNumsInUse(st) /\ st.slot[r.index].count \in Nat /\ st.slot[r.index].count > 0
    BY <1>2, LookingUp, InUseIsARefNum DEF HasData, Sound, IsStorage, Slot
  <2>2. CountBefore(st, r) = CountOf(st, r)
    BY <1>2 DEF CountBefore, CountOf
  <2>3. PICK n : n = st.slot[r.index].count - 1
    OBVIOUS
  <2>4. n \in Nat /\ CountOf(st, r) = n + 1
    BY <2>1, <2>3 DEF CountOf
  <2>5. fewer = [st EXCEPT !.slot[r.index].count = n]
    BY <2>1, <2>3 DEF Sound, IsStorage
  <2>6. Released(st, r) = IF n = 0 THEN Disposed(fewer, r) ELSE fewer
    BY <2>2, <2>4 DEF Released
  <2> HIDE DEF fewer
  <2>7. /\ RefNumsInUse(fewer) = RefNumsInUse(st) /\ NonzeroMagics(fewer)
        /\ CountOf(fewer, r) = n
        /\ \A q \in RefNumsInUse(st) \ {r} : CountOf(fewer, q) = CountOf(st, q)
    BY <2>1, <2>4, <2>5, Counting
  <2>8. CASE n = 0
    <3>1. Sound(fewer)
      <4>1. \A q : Sound(Released(st, q))
        BY ReleasedSound
      <4>2. r.index \in DOMAIN st.slot /\ st.slot[r.index] \in Slot
        BY <2>1, InUseIsARefNum DEF Sound, IsStorage
      <4> DEFINE held == [st.slot[r.index] EXCEPT !.count = n]
      <4>3. held \in Slot /\ held.nextFree = st.slot[r.index].nextFree
        BY <2>4, <4>2 DEF Slot
      <4>4. fewer = [st EXCEPT !.slot = [st.slot EXCEPT ![r.index] = held]]
        BY <2>5, <4>2
      <4> HIDE DEF held
      <4>5. /\ fewer.slot = [st.slot EXCEPT ![r.index] = held]
            /\ fewer.firstFree = st.firstFree /\ fewer.numUsed = st.numUsed
            /\ fewer \in [slot : {fewer.slot}, firstFree : {st.firstFree}, numUsed : {st.numUsed},
                          nextMagic : {st.nextMagic}]
        BY <4>4 DEF Sound, IsStorage
      <4>6. /\ fewer.slot \in [DOMAIN fewer.slot -> Slot] /\ DOMAIN fewer.slot = DOMAIN st.slot
            /\ \A j \in DOMAIN st.slot : fewer.slot[j].nextFree = st.slot[j].nextFree
        BY <4>2, <4>3, <4>5 DEF Sound, IsStorage
      <4>7. IsStorage(fewer)
        BY <4>5, <4>6 DEF Sound, IsStorage
      <4> QED BY <4>5, <4>6, <4>7, SameLinks
    <3>2. NonzeroMagics(Disposed(fewer, r))
      BY <2>7, <3>1, Disposing
    <3> QED BY <2>4, <2>6, <2>8, <3>2
  <2>9. CASE n # 0
    BY <2>2, <2>4, <2>6, <2>7, <2>9
  <2> QED BY <2>8, <2>9
<1> QED BY <1>1, <1>2

-----------------------------------------------------------------------------
(* The types of the manager.                                                *)

TypedManager(mgr) ==
  /\ SoundManager(mgr)
  /\ NonzeroMagics(mgr.storage)
  /\ \A n \in DOMAIN mgr.named : n \in Name /\ mgr.named[n] \in RefNum
  /\ \A a \in DOMAIN mgr.alias : a \in RefNum /\ mgr.alias[a] \in RefNum

\* Of the clones that are no aliases there is a first one.
LEMMA FreshAliasFound ==
  ASSUME NEW mgr, NEW real \in RefNum, HasFreshAlias(mgr, real)
  PROVE  FreshAlias(mgr, real) \in RefNum \ DOMAIN mgr.alias
<1> DEFINE Taken(k) == CloneRefNum(real, k) \in DOMAIN mgr.alias
           S == {n \in Nat : (\A k \in 1 .. n : Taken(k)) \/ \E k \in 1 .. n : FirstFreshClone(mgr, real, k)}
<1>1. 0 \in S
  OBVIOUS
<1>2. ASSUME NEW n \in Nat, n \in S
      PROVE  n + 1 \in S
  <2>1. CASE \E k \in 1 .. n : FirstFreshClone(mgr, real, k)
    BY <2>1
  <2>2. CASE (\A k \in 1 .. n : Taken(k)) /\ Taken(n + 1)
    <3>1. \A k \in 1 .. n + 1 : Taken(k)
      <4>1. TAKE k \in 1 .. n + 1
      <4>2. k \in 1 .. n \/ k = n + 1
        OBVIOUS
      <4> QED BY <2>2, <4>2
    <3> QED BY <3>1
  <2>3. CASE (\A k \in 1 .. n : Taken(k)) /\ ~ Taken(n + 1)
    <3>1. FirstFreshClone(mgr, real, n + 1)
      BY <2>3 DEF FirstFreshClone
    <3> QED BY <3>1
  <2> QED BY <1>2, <2>1, <2>2, <2>3
<1> HIDE DEF S
<1>3. MagicNumbers \in S
  BY <1>1, <1>2, SetInduction, StorageAssumption
<1>4. \E k \in 1 .. MagicNumbers : FirstFreshClone(mgr, real, k)
  BY <1>3 DEF S, HasFreshAlias
<1>5. PICK k \in 1 .. MagicNumbers : FirstFreshClone(mgr, real, k) /\ FreshAlias(mgr, real) = CloneRefNum(real, k)
  BY <1>4 DEF FreshAlias
<1>6. CloneRefNum(real, k) \in RefNum
  BY StorageAssumption DEF CloneRefNum, MakeRefNum, MagicMask, RefNum
<1> QED BY <1>5, <1>6 DEF FirstFreshClone

LEMMA WithDomain ==
  ASSUME NEW map, NEW key, NEW value
  PROVE  /\ DOMAIN With(map, key, value) = DOMAIN map \cup {key}
         /\ With(map, key, value)[key] = value
         /\ \A k \in DOMAIN map \ {key} : With(map, key, value)[k] = map[k]
BY DEF With

LEMMA WithoutDomain ==
  ASSUME NEW map, NEW key
  PROVE  /\ DOMAIN Without(map, key) = DOMAIN map \ {key}
         /\ \A k \in DOMAIN map \ {key} : Without(map, key)[k] = map[k]
BY DEF Without, Restrict

LEMMA AliasGiven ==
  ASSUME NEW mgr, TypedManager(mgr), NEW real \in RefNum, HasFreshAlias(mgr, real)
  PROVE  /\ TypedManager(WithAlias(mgr, real))
         /\ WithAlias(mgr, real).storage = Acquired(mgr.storage, real)
         /\ WithAlias(mgr, real).named = mgr.named
         /\ WithAlias(mgr, real).alias = With(mgr.alias, FreshAlias(mgr, real), real)
<1>1. /\ WithAlias(mgr, real).storage = Acquired(mgr.storage, real)
      /\ WithAlias(mgr, real).named = mgr.named
      /\ WithAlias(mgr, real).alias = With(mgr.alias, FreshAlias(mgr, real), real)
  BY DEF WithAlias, TypedManager, SoundManager
<1>2. PICK a : a = FreshAlias(mgr, real) /\ a \in RefNum
  BY FreshAliasFound
<1>3. SoundManager(WithAlias(mgr, real))
  BY AliasGivenSound DEF TypedManager
<1>4. NonzeroMagics(WithAlias(mgr, real).storage)
  BY <1>1, Acquiring DEF TypedManager, SoundManager
<1>5. \A b \in DOMAIN With(mgr.alias, a, real) : b \in RefNum /\ With(mgr.alias, a, real)[b] \in RefNum
  <2>1. PICK f : f = With(mgr.alias, a, real)
    OBVIOUS
  <2>2. /\ DOMAIN f = DOMAIN mgr.alias \cup {a} /\ f[a] = real
        /\ \A b \in DOMAIN mgr.alias \ {a} : f[b] = mgr.alias[b]
    BY <2>1 DEF With
  <2> QED BY <1>2, <2>1, <2>2 DEF TypedManager
<1> QED BY <1>1, <1>2, <1>3, <1>4, <1>5 DEF TypedManager

LEMMA QueueMade ==
  ASSUME NEW mgr, TypedManager(mgr), CanCreate(mgr.storage)
  PROVE  TypedManager([mgr EXCEPT !.storage = Created(@)])
<1> DEFINE made == [mgr EXCEPT !.storage = Created(@)]
<1>1. made.storage = Created(mgr.storage) /\ made.named = mgr.named /\ made.alias = mgr.alias
  BY DEF TypedManager, SoundManager
<1>2. SoundManager(made)
  BY <1>1, CreatedSound DEF TypedManager, SoundManager
<1> HIDE DEF made
<1>3. NonzeroMagics(made.storage)
  BY <1>1, Creating DEF TypedManager, SoundManager
<1>4. TypedManager(made)
  BY <1>1, <1>2, <1>3 DEF TypedManager
<1> QED BY <1>4 DEF made

LEMMA NamedQueueMade ==
  ASSUME NEW mgr, TypedManager(mgr), CanCreate(mgr.storage), NEW n \in Name,
         NEW made,
         made = [mgr EXCEPT !.storage = Created(@), !.named = With(@, n, CreatedRefNum(mgr.storage))]
  PROVE  /\ TypedManager(made)
         /\ made.storage = Created(mgr.storage) /\ made.alias = mgr.alias
         /\ made.named = With(mgr.named, n, CreatedRefNum(mgr.storage))
<1>1. /\ made.storage = Created(mgr.storage) /\ made.alias = mgr.alias
      /\ made.named = With(mgr.named, n, CreatedRefNum(mgr.storage))
  BY DEF TypedManager, SoundManager
<1>2. SoundManager(made)
  BY <1>1, CreatedSound DEF TypedManager, SoundManager
<1>3. PICK real : real = CreatedRefNum(mgr.storage)
  OBVIOUS
<1>4. NonzeroMagics(made.storage) /\ real \in RefNum
  BY <1>1, <1>3, Creating DEF TypedManager, SoundManager
<1>5. \A m \in DOMAIN With(mgr.named, n, real) : m \in Name /\ With(mgr.named, n, real)[m] \in RefNum
  <2>1. PICK f : f = With(mgr.named, n, real)
    OBVIOUS
  <2>2. /\ DOMAIN f = DOMAIN mgr.named \cup {n} /\ f[n] = real
        /\ \A m \in DOMAIN mgr.named \ {n} : f[m] = mgr.named[m]
    BY <2>1 DEF With
  <2> QED BY <1>4, <2>1, <2>2 DEF TypedManager
<1> QED BY <1>1, <1>2, <1>3, <1>4, <1>5 DEF TypedManager

LEMMA NameErasedParts ==
  ASSUME NEW mgr, TypedManager(mgr), NEW r
  PROVE  /\ TypedManager(NameErased(mgr, r))
         /\ NameErased(mgr, r).storage = mgr.storage /\ NameErased(mgr, r).alias = mgr.alias
         /\ r # NotARefNum /\ NamesOf(mgr, LookupAlias(mgr, r)) # {} =>
              \E n \in NamesOf(mgr, LookupAlias(mgr, r)) : NameErased(mgr, r).named = Without(mgr.named, n)
<1> DEFINE found == NamesOf(mgr, LookupAlias(mgr, r))
           less == NameErased(mgr, r)
<1>1. SoundManager(less) /\ less.storage = mgr.storage
  BY NameErasedSound DEF TypedManager
<1>2. CASE r = NotARefNum \/ found = {}
  BY <1>1, <1>2 DEF NameErased
<1>3. CASE r # NotARefNum /\ found # {}
  <2>1. PICK n \in found : n = CHOOSE m \in found : TRUE
    BY <1>3
  <2>2. less.alias = mgr.alias /\ less.named = Without(mgr.named, n)
    BY <1>3, <2>1 DEF NameErased, TypedManager, SoundManager
  <2>3. PICK f : f = Without(mgr.named, n)
    OBVIOUS
  <2>4. DOMAIN f = DOMAIN mgr.named \ {n} /\ \A m \in DOMAIN mgr.named \ {n} : f[m] = mgr.named[m]
    BY <2>3, WithoutDomain
  <2> HIDE DEF less
  <2>5. TypedManager(less)
    BY <1>1, <2>2, <2>3, <2>4 DEF TypedManager
  <2> QED BY <1>1, <2>2, <2>5 DEF less
<1> QED BY <1>2, <1>3

\* A storage that replaces another.
LEMMA StorageReplaced ==
  ASSUME NEW mgr, TypedManager(mgr), NEW st, Sound(st), NonzeroMagics(st),
         NEW m, m = [mgr EXCEPT !.storage = st]
  PROVE  TypedManager(m) /\ m.storage = st /\ m.named = mgr.named /\ m.alias = mgr.alias
<1>1. m.storage = st /\ m.named = mgr.named /\ m.alias = mgr.alias
  BY DEF TypedManager, SoundManager
<1>2. SoundManager(m)
  BY <1>1 DEF TypedManager, SoundManager
<1> QED BY <1>1, <1>2 DEF TypedManager

\* What is left of the names: all, or all but one of those of the queue.
NameLeft(mgr, r, named) ==
  IF r # NotARefNum /\ NamesOf(mgr, LookupAlias(mgr, r)) # {}
  THEN \E n \in NamesOf(mgr, LookupAlias(mgr, r)) : named = Without(mgr.named, n)
  ELSE TRUE

LEMMA AliasDisposedParts ==
  ASSUME NEW mgr, TypedManager(mgr), NEW r \in DOMAIN mgr.alias,
         NEW real, real = mgr.alias[r], NEW m, m = AliasDisposed(mgr, r)
  PROVE  /\ TypedManager(m)
         /\ m.alias = Without(mgr.alias, r)
         /\ ~ LastAlias(mgr, r) => m.storage = Released(mgr.storage, real) /\ m.named = mgr.named
         /\ LastAlias(mgr, r) =>
              /\ m.storage = Disposed(Released(mgr.storage, real), real)
              /\ NameLeft(mgr, r, m.named)
<1>1. real \in RefNum /\ Sound(mgr.storage) /\ NonzeroMagics(mgr.storage)
  BY DEF TypedManager, SoundManager
<1>2. PICK st : st = Released(mgr.storage, real)
  OBVIOUS
<1>3. Sound(st) /\ NonzeroMagics(st)
  BY <1>1, <1>2, ReleasedSound, Releasing
<1>4. PICK less : less = [mgr EXCEPT !.storage = st]
  OBVIOUS
<1>5. less = [mgr EXCEPT !.storage = Released(@, mgr.alias[r])]
  BY <1>2, <1>4 DEF TypedManager, SoundManager
<1>6. TypedManager(less) /\ less.storage = st /\ less.named = mgr.named /\ less.alias = mgr.alias
  BY <1>3, <1>4, StorageReplaced
<1>7. PICK erased : erased = NameErased(less, r)
  OBVIOUS
<1>8. TypedManager(erased) /\ erased.storage = st /\ erased.alias = mgr.alias
  BY <1>6, <1>7, NameErasedParts
<1>9. NameLeft(mgr, r, erased.named)
  <2>1. NamesOf(less, LookupAlias(less, r)) = NamesOf(mgr, LookupAlias(mgr, r))
    BY <1>6 DEF NamesOf, LookupAlias
  <2> QED BY <1>6, <1>7, <2>1, NameErasedParts DEF NameLeft
<1>10. PICK st2 : st2 = Disposed(st, real)
  OBVIOUS
<1>11. Sound(st2) /\ NonzeroMagics(st2)
  BY <1>1, <1>3, <1>10, DisposedSound, Disposing
<1>12. PICK last : last = [erased EXCEPT !.storage = st2]
  OBVIOUS
<1>13. last = [NameErased(less, r) EXCEPT !.storage = Disposed(@, mgr.alias[r])]
  BY <1>7, <1>8, <1>10, <1>12 DEF TypedManager, SoundManager
<1>14. TypedManager(last) /\ last.storage = st2 /\ last.named = erased.named /\ last.alias = mgr.alias
  BY <1>8, <1>11, <1>12, StorageReplaced
<1>15. m = [IF LastAlias(mgr, r) THEN last ELSE less EXCEPT !.alias = Without(@, r)]
  BY <1>5, <1>13 DEF AliasDisposed
<1>16. PICK f : f = Without(mgr.alias, r)
  OBVIOUS
<1>17. DOMAIN f = DOMAIN mgr.alias \ {r} /\ \A a \in DOMAIN mgr.alias \ {r} : f[a] = mgr.alias[a]
  BY <1>16, WithoutDomain
<1>18. ASSUME NEW o, TypedManager(o), o.alias = mgr.alias, m = [o EXCEPT !.alias = Without(@, r)]
       PROVE  TypedManager(m) /\ m.storage = o.storage /\ m.named = o.named /\ m.alias = f
  <2>1. m.storage = o.storage /\ m.named = o.named /\ m.alias = f
    BY <1>16, <1>18 DEF TypedManager, SoundManager
  <2>2. SoundManager(m)
    BY <1>18, <2>1 DEF TypedManager, SoundManager
  <2> QED BY <1>17, <1>18, <2>1, <2>2 DEF TypedManager
<1>19. CASE LastAlias(mgr, r)
  <2>1. TypedManager(m) /\ m.storage = st2 /\ m.named = erased.named /\ m.alias = f
    BY <1>14, <1>15, <1>18, <1>19
  <2> QED BY <1>2, <1>9, <1>10, <1>16, <1>19, <2>1
<1>20. CASE ~ LastAlias(mgr, r)
  <2>1. TypedManager(m) /\ m.storage = st /\ m.named = mgr.named /\ m.alias = f
    BY <1>6, <1>15, <1>18, <1>20
  <2> QED BY <1>2, <1>16, <1>20, <2>1
<1> QED BY <1>19, <1>20

LEMMA CleanedUpTypes ==
  ASSUME NEW mgr, TypedManager(mgr), NEW r \in RefNum
  PROVE  TypedManager(CleanedUp(mgr, r))
<1>1. CASE r \in DOMAIN mgr.alias
  BY <1>1, AliasDisposedParts DEF CleanedUp
<1>2. CASE r \notin DOMAIN mgr.alias
  <2>1. PICK st : st = Disposed(mgr.storage, r)
    OBVIOUS
  <2>2. Sound(st) /\ NonzeroMagics(st)
    BY <2>1, DisposedSound, Disposing DEF TypedManager, SoundManager
  <2>3. CleanedUp(mgr, r) = [mgr EXCEPT !.storage = st]
    BY <1>2, <2>1 DEF CleanedUp, TypedManager, SoundManager
  <2> QED BY <2>2, <2>3, StorageReplaced
<1> QED BY <1>1, <1>2

-----------------------------------------------------------------------------
(* What holds while no refnum clashes.                                      *)

\* The queues that have no name.
Unnamed(mgr) == RefNumsInUse(mgr.storage) \ Range(mgr.named)

\* K are the refnums that VIs know.  They know a queue either by its refnum or
\* by aliases, and then it has one name; each alias is counted.
Consistent(mgr, K) ==
  /\ IsFiniteSet(DOMAIN mgr.alias)
  /\ DOMAIN mgr.alias \subseteq K \ RefNumsInUse(mgr.storage)
  /\ Unnamed(mgr) \subseteq K
  /\ \A a \in DOMAIN mgr.alias : mgr.alias[a] \in Range(mgr.named)
  /\ \A n \in DOMAIN mgr.named :
       /\ mgr.named[n] \in RefNumsInUse(mgr.storage) \ K
       /\ Aliases(mgr, mgr.named[n]) # {}
  /\ \A m, n \in DOMAIN mgr.named : mgr.named[m] = mgr.named[n] => m = n
  /\ \A r \in RefNumsInUse(mgr.storage) : CountOf(mgr.storage, r) = 1 + Cardinality(Aliases(mgr, r))

LEMMA AliasesAreFinite ==
  ASSUME NEW mgr, IsFiniteSet(DOMAIN mgr.alias), NEW r
  PROVE  IsFiniteSet(Aliases(mgr, r)) /\ Cardinality(Aliases(mgr, r)) \in Nat
<1>1. Aliases(mgr, r) \subseteq DOMAIN mgr.alias
  BY DEF Aliases
<1> QED BY <1>1, FS_Subset, FS_CardinalityType

\* An alias that goes takes its count with it, and the last one takes its queue
\* with its name.
LEMMA AliasGone ==
  ASSUME NEW mgr, TypedManager(mgr), NEW K, NotARefNum \notin K, Consistent(mgr, K),
         NEW r \in DOMAIN mgr.alias, NEW m, m = AliasDisposed(mgr, r)
  PROVE  /\ Consistent(m, K)
         /\ m.alias = Without(mgr.alias, r)
         /\ Unnamed(m) = Unnamed(mgr)
<1>1. PICK real : real = mgr.alias[r]
  OBVIOUS
<1>2. PICK n0 \in DOMAIN mgr.named : mgr.named[n0] = real
  BY <1>1 DEF Consistent, Range
<1>3. PICK st : st = mgr.storage
  OBVIOUS
<1>4. Sound(st) /\ NonzeroMagics(st) /\ real \in RefNum /\ real \in RefNumsInUse(st) \ K
  BY <1>1, <1>2, <1>3 DEF TypedManager, SoundManager, Consistent
<1>5. PICK count : count = CountOf(st, real)
  OBVIOUS
<1>6. /\ IsFiniteSet(Aliases(mgr, real)) /\ Cardinality(Aliases(mgr, real)) \in Nat
      /\ r \in Aliases(mgr, real)
  <2>1. IsFiniteSet(DOMAIN mgr.alias)
    BY DEF Consistent
  <2>2. r \in Aliases(mgr, real)
    BY <1>1 DEF Aliases
  <2> QED BY <2>1, <2>2, AliasesAreFinite
<1>7. count = 1 + Cardinality(Aliases(mgr, real)) /\ count \in Nat /\ count > 1
  <2>1. count = 1 + Cardinality(Aliases(mgr, real))
    BY <1>3, <1>4, <1>5 DEF Consistent
  <2>2. Cardinality(Aliases(mgr, real)) # 0
    BY <1>6, FS_EmptySet
  <2> QED BY <1>6, <2>1, <2>2
<1>8. PICK st1 : st1 = Released(st, real)
  OBVIOUS
<1>9. /\ CountBefore(st, real) = count
      /\ Sound(st1) /\ NonzeroMagics(st1)
      /\ RefNumsInUse(st1) = RefNumsInUse(st)
      /\ CountOf(st1, real) = count - 1
      /\ \A q \in RefNumsInUse(st) \ {real} : CountOf(st1, q) = CountOf(st, q)
  BY <1>4, <1>5, <1>7, <1>8, Releasing, ReleasedSound
<1>10. /\ m.alias = Without(mgr.alias, r)
       /\ ~ LastAlias(mgr, r) => m.storage = st1 /\ m.named = mgr.named
       /\ LastAlias(mgr, r) => m.storage = Disposed(st1, real) /\ NameLeft(mgr, r, m.named)
  BY <1>1, <1>3, <1>8, AliasDisposedParts
<1>11. /\ DOMAIN m.alias = DOMAIN mgr.alias \ {r}
       /\ \A a \in DOMAIN mgr.alias \ {r} : m.alias[a] = mgr.alias[a]
  BY <1>10 DEF Without, Restrict
<1>12. IsFiniteSet(DOMAIN m.alias)
  BY <1>11, FS_Subset DEF Consistent
<1>13. Aliases(m, real) = Aliases(mgr, real) \ {r} /\ \A q : q # real => Aliases(m, q) = Aliases(mgr, q)
  BY <1>1, <1>11 DEF Aliases
<1>14. Cardinality(Aliases(m, real)) = count - 2
  <2>1. PICK others : others = Aliases(mgr, real)
    OBVIOUS
  <2>2. Cardinality(others \ {r}) = Cardinality(others) - 1
    BY <1>6, <2>1, FS_RemoveElement
  <2> QED BY <1>6, <1>7, <1>13, <2>1, <2>2
<1>15. LastAlias(mgr, r) <=> count = 2
  BY <1>1, <1>3, <1>7, <1>9 DEF LastAlias
<1>16. CASE count # 2
  <2>1. m.storage = st1 /\ m.named = mgr.named
    BY <1>10, <1>15, <1>16
  <2>2. RefNumsInUse(m.storage) = RefNumsInUse(st)
    BY <1>9, <2>1
  <2>3. Unnamed(m) = Unnamed(mgr)
    BY <1>3, <2>1, <2>2 DEF Unnamed
  <2>4. DOMAIN m.alias \subseteq K \ RefNumsInUse(m.storage) /\ Unnamed(m) \subseteq K
    BY <1>3, <1>11, <2>2, <2>3 DEF Consistent
  <2>5. \A a \in DOMAIN m.alias : m.alias[a] \in Range(m.named)
    BY <1>11, <2>1 DEF Consistent
  <2>6. ASSUME NEW n \in DOMAIN m.named
        PROVE  m.named[n] \in RefNumsInUse(m.storage) \ K /\ Aliases(m, m.named[n]) # {}
    <3>1. m.named[n] \in RefNumsInUse(m.storage) \ K /\ Aliases(mgr, m.named[n]) # {}
      BY <1>3, <2>1, <2>2 DEF Consistent
    <3>2. Aliases(m, real) # {}
      <4>1. Cardinality({}) = 0
        BY FS_EmptySet
      <4>2. Cardinality(Aliases(m, real)) # 0
        BY <1>7, <1>14, <1>16
      <4> QED BY <4>1, <4>2
    <3> QED BY <1>13, <3>1, <3>2
  <2>7. \A k, n \in DOMAIN m.named : m.named[k] = m.named[n] => k = n
    BY <2>1 DEF Consistent
  <2>8. ASSUME NEW q \in RefNumsInUse(m.storage)
        PROVE  CountOf(m.storage, q) = 1 + Cardinality(Aliases(m, q))
    <3>1. CASE q = real
      BY <1>7, <1>9, <1>14, <2>1, <3>1
    <3>2. CASE q # real
      BY <1>3, <1>9, <1>13, <2>1, <2>2, <3>2 DEF Consistent
    <3> QED BY <3>1, <3>2
  <2> QED BY <1>10, <1>12, <2>3, <2>4, <2>5, <2>6, <2>7, <2>8 DEF Consistent
<1>17. CASE count = 2
  <2>1. m.storage = Disposed(st1, real) /\ NameLeft(mgr, r, m.named)
    BY <1>10, <1>15, <1>17
  <2>2. /\ RefNumsInUse(m.storage) = RefNumsInUse(st) \ {real}
        /\ \A q \in RefNumsInUse(st) \ {real} : CountOf(m.storage, q) = CountOf(st, q)
    BY <1>4, <1>9, <2>1, Disposing
  <2>3. m.named = Without(mgr.named, n0)
    <3>1. LookupAlias(mgr, r) = real
      BY <1>1 DEF LookupAlias
    <3>2. NamesOf(mgr, LookupAlias(mgr, r)) = {n0}
      BY <1>2, <3>1 DEF NamesOf, Consistent
    <3>3. r # NotARefNum
      BY DEF Consistent
    <3> QED BY <2>1, <3>2, <3>3 DEF NameLeft
  <2>4. /\ DOMAIN m.named = DOMAIN mgr.named \ {n0}
        /\ \A n \in DOMAIN mgr.named \ {n0} : m.named[n] = mgr.named[n]
    BY <2>3 DEF Without, Restrict
  <2>5. Aliases(mgr, real) = {r} /\ Aliases(m, real) = {}
    <3>1. PICK left : left = Aliases(m, real)
      OBVIOUS
    <3>2. IsFiniteSet(left) /\ Cardinality(left) = 0
      BY <1>12, <1>14, <1>17, <3>1, AliasesAreFinite
    <3>3. left = {}
      BY <3>2, FS_EmptySet
    <3> QED BY <1>6, <1>13, <3>1, <3>3
  <2>6. Range(m.named) = Range(mgr.named) \ {real}
    BY <1>2, <2>4 DEF Range, Consistent
  <2>7. Unnamed(m) = Unnamed(mgr)
    <3>1. real \in Range(mgr.named)
      BY <1>2 DEF Range
    <3> QED BY <1>3, <2>2, <2>6, <3>1 DEF Unnamed
  <2>8. DOMAIN m.alias \subseteq K \ RefNumsInUse(m.storage) /\ Unnamed(m) \subseteq K
    BY <1>3, <1>11, <2>2, <2>7 DEF Consistent
  <2>9. \A a \in DOMAIN m.alias : m.alias[a] \in Range(m.named)
    <3>1. TAKE a \in DOMAIN m.alias
    <3>2. m.alias[a] # real
      BY <2>5 DEF Aliases
    <3> QED BY <1>11, <2>6, <3>2 DEF Consistent
  <2>10. ASSUME NEW n \in DOMAIN m.named
         PROVE  m.named[n] \in RefNumsInUse(m.storage) \ K /\ Aliases(m, m.named[n]) # {}
    <3>1. n \in DOMAIN mgr.named /\ m.named[n] = mgr.named[n] /\ m.named[n] # real
      BY <1>2, <2>4 DEF Consistent
    <3> QED BY <1>3, <1>13, <2>2, <3>1 DEF Consistent
  <2>11. \A k, n \in DOMAIN m.named : m.named[k] = m.named[n] => k = n
    BY <2>4 DEF Consistent
  <2>12. \A q \in RefNumsInUse(m.storage) : CountOf(m.storage, q) = 1 + Cardinality(Aliases(m, q))
    BY <1>3, <1>13, <2>2 DEF Consistent
  <2> QED BY <1>10, <1>12, <2>7, <2>8, <2>9, <2>10, <2>11, <2>12 DEF Consistent
<1> QED BY <1>16, <1>17

\* A refnum that is no alias is that of a queue without a name, or of none.
LEMMA UnnamedGone ==
  ASSUME NEW mgr, TypedManager(mgr), NEW K, Consistent(mgr, K),
         NEW r \in RefNum, r \notin DOMAIN mgr.alias, r \in K \/ r = NotARefNum,
         NEW m, m = [mgr EXCEPT !.storage = Disposed(@, r)]
  PROVE  /\ Consistent(m, K)
         /\ m.alias = mgr.alias
         /\ Unnamed(m) = Unnamed(mgr) \ {r}
<1>1. PICK st : st = mgr.storage
  OBVIOUS
<1>2. Sound(st) /\ NonzeroMagics(st)
  BY <1>1 DEF TypedManager, SoundManager
<1>3. m.storage = Disposed(st, r) /\ m.named = mgr.named /\ m.alias = mgr.alias
  BY <1>1 DEF TypedManager, SoundManager
<1>4. /\ RefNumsInUse(m.storage) = RefNumsInUse(st) \ {r}
      /\ \A q \in RefNumsInUse(st) \ {r} : CountOf(m.storage, q) = CountOf(st, q)
  BY <1>2, <1>3, Disposing
<1>5. Unnamed(m) = Unnamed(mgr) \ {r}
  BY <1>1, <1>3, <1>4 DEF Unnamed
<1>6. r \notin Range(mgr.named)
  <2>1. r # NotARefNum \/ r \notin RefNumsInUse(st)
    <3>1. NotARefNum.magic = 0
      BY StorageAssumption DEF NotARefNum, MakeRefNum, MagicMask
    <3> QED BY <1>2, <3>1, InUseIsARefNum DEF NonzeroMagics, Sound
  <2> QED BY <1>1, <2>1 DEF Range, Consistent
<1>7. \A q : Aliases(m, q) = Aliases(mgr, q)
  BY <1>3 DEF Aliases
<1>8. \A n \in DOMAIN mgr.named : mgr.named[n] # r
  BY <1>6 DEF Range
<1> QED BY <1>1, <1>3, <1>4, <1>5, <1>7, <1>8 DEF Consistent

\* The cleanup of a refnum that is known, or of none, ends what it leads to.
LEMMA CleanedUpConsistent ==
  ASSUME NEW mgr, TypedManager(mgr), NEW K, NotARefNum \notin K, Consistent(mgr, K),
         NEW r \in RefNum, r \in K \/ r = NotARefNum, NEW m, m = CleanedUp(mgr, r)
  PROVE  /\ Consistent(m, K)
         /\ DOMAIN m.alias = DOMAIN mgr.alias \ {r}
         /\ \A a \in DOMAIN mgr.alias \ {r} : m.alias[a] = mgr.alias[a]
         /\ Unnamed(m) = Unnamed(mgr) \ {r}
<1>1. CASE r \in DOMAIN mgr.alias
  <2>1. m = AliasDisposed(mgr, r)
    BY <1>1 DEF CleanedUp
  <2>2. Consistent(m, K) /\ m.alias = Without(mgr.alias, r) /\ Unnamed(m) = Unnamed(mgr)
    BY <1>1, <2>1, AliasGone
  <2>3. r \notin Unnamed(mgr)
    BY <1>1 DEF Unnamed, Consistent
  <2>4. /\ DOMAIN m.alias = DOMAIN mgr.alias \ {r}
        /\ \A a \in DOMAIN mgr.alias \ {r} : m.alias[a] = mgr.alias[a]
    BY <2>2 DEF Without, Restrict
  <2> QED BY <2>2, <2>3, <2>4
<1>2. CASE r \notin DOMAIN mgr.alias
  <2>1. m = [mgr EXCEPT !.storage = Disposed(@, r)]
    BY <1>2 DEF CleanedUp
  <2> QED BY <1>2, <2>1, UnnamedGone
<1> QED BY <1>1, <1>2

LEMMA AllCleanedUpTypes ==
  ASSUME NEW mgr, TypedManager(mgr), NEW recs \in Seq(RefNum)
  PROVE  TypedManager(AllCleanedUp(mgr, recs))
<1>1. PICK after : /\ after[0] = mgr /\ AllCleanedUp(mgr, recs) = after[Len(recs)]
                   /\ \A k \in 1 .. Len(recs) : after[k] = CleanedUp(after[k - 1], recs[k])
  BY CleanedUpInSteps
<1> DEFINE S == {k \in Nat : k <= Len(recs) => TypedManager(after[k])}
<1>2. 0 \in S
  BY <1>1
<1>3. ASSUME NEW k \in Nat, k \in S
      PROVE  k + 1 \in S
  <2>1. SUFFICES ASSUME k + 1 <= Len(recs) PROVE TypedManager(after[k + 1])
    OBVIOUS
  <2>2. after[k + 1] = CleanedUp(after[k], recs[k + 1]) /\ recs[k + 1] \in RefNum
    BY <1>1, <2>1
  <2>3. TypedManager(after[k])
    BY <1>3, <2>1
  <2> QED BY <2>2, <2>3, CleanedUpTypes
<1> HIDE DEF S
<1>4. Nat \subseteq S
  BY <1>2, <1>3, SetInduction
<1> QED BY <1>1, <1>4 DEF S

\* m is what is left of mgr when all of R has been cleaned up.
CleanedOf(mgr, R, m) ==
  /\ DOMAIN m.alias = DOMAIN mgr.alias \ R
  /\ \A a \in DOMAIN mgr.alias \ R : m.alias[a] = mgr.alias[a]
  /\ Unnamed(m) = Unnamed(mgr) \ R

\* The cleanup of all records of a VI ends what they lead to, and nothing else.
LEMMA AllCleanedUpConsistent ==
  ASSUME NEW mgr, TypedManager(mgr), NEW K, NotARefNum \notin K, Consistent(mgr, K),
         NEW recs \in Seq(RefNum), Range(recs) \subseteq K \cup {NotARefNum}
  PROVE  /\ Consistent(AllCleanedUp(mgr, recs), K)
         /\ CleanedOf(mgr, Range(recs), AllCleanedUp(mgr, recs))
<1>1. PICK after : /\ after[0] = mgr /\ AllCleanedUp(mgr, recs) = after[Len(recs)]
                   /\ \A k \in 1 .. Len(recs) : after[k] = CleanedUp(after[k - 1], recs[k])
  BY CleanedUpInSteps
<1> DEFINE First(k) == {recs[j] : j \in 1 .. k}
           Holds(k) == TypedManager(after[k]) /\ Consistent(after[k], K) /\ CleanedOf(mgr, First(k), after[k])
           S == {k \in Nat : k <= Len(recs) => Holds(k)}
<1>2. 0 \in S
  <2>1. First(0) = {}
    OBVIOUS
  <2>2. CleanedOf(mgr, {}, mgr)
    BY DEF CleanedOf
  <2> QED BY <1>1, <2>1, <2>2
<1>3. ASSUME NEW k \in Nat, k \in S
      PROVE  k + 1 \in S
  <2>1. SUFFICES ASSUME k + 1 <= Len(recs) PROVE Holds(k + 1)
    OBVIOUS
  <2>2. PICK r : r = recs[k + 1]
    OBVIOUS
  <2>3. r \in RefNum /\ (r \in K \/ r = NotARefNum)
    BY <2>1, <2>2 DEF Range
  <2>4. PICK before : before = after[k]
    OBVIOUS
  <2>5. TypedManager(before) /\ Consistent(before, K) /\ CleanedOf(mgr, First(k), before)
    BY <1>3, <2>1, <2>4
  <2>6. PICK m : m = after[k + 1]
    OBVIOUS
  <2>7. m = CleanedUp(before, r)
    BY <1>1, <2>1, <2>2, <2>4, <2>6
  <2>8. First(k + 1) = First(k) \cup {r}
    <3>1. \A j \in 1 .. k + 1 : j \in 1 .. k \/ j = k + 1
      OBVIOUS
    <3> QED BY <2>2, <3>1
  <2> HIDE DEF First
  <2>9. /\ Consistent(m, K)
        /\ DOMAIN m.alias = DOMAIN before.alias \ {r}
        /\ \A a \in DOMAIN before.alias \ {r} : m.alias[a] = before.alias[a]
        /\ Unnamed(m) = Unnamed(before) \ {r}
    BY <2>3, <2>5, <2>7, CleanedUpConsistent
  <2>10. TypedManager(m)
    BY <2>3, <2>5, <2>7, CleanedUpTypes
  <2>11. CleanedOf(mgr, First(k) \cup {r}, m)
    BY <2>5, <2>9 DEF CleanedOf
  <2> QED BY <2>6, <2>8, <2>9, <2>10, <2>11
<1>4. First(Len(recs)) = Range(recs)
  BY DEF Range
<1> HIDE DEF S, Holds, First
<1>5. Nat \subseteq S
  BY <1>2, <1>3, SetInduction
<1>6. Holds(Len(recs))
  BY <1>5 DEF S
<1> QED BY <1>1, <1>4, <1>6 DEF Holds

-----------------------------------------------------------------------------
(* New queues and aliases.                                                  *)

\* The alias a of the queue behind name n.
LEMMA AliasMade ==
  ASSUME NEW mgr, TypedManager(mgr), NEW K, Consistent(mgr, K),
         NEW n \in DOMAIN mgr.named, HasFreshAlias(mgr, mgr.named[n]),
         NEW m, m = WithAlias(mgr, mgr.named[n]),
         NEW a, a = FreshAlias(mgr, mgr.named[n]), a \notin K, a \notin Range(mgr.named)
  PROVE  /\ Consistent(m, K \cup {a})
         /\ DOMAIN m.alias = DOMAIN mgr.alias \cup {a}
         /\ Unnamed(m) = Unnamed(mgr)
         /\ m.named = mgr.named
<1>1. PICK real : real = mgr.named[n]
  OBVIOUS
<1>2. PICK st : st = mgr.storage
  OBVIOUS
<1>3. /\ Sound(st) /\ NonzeroMagics(st) /\ real \in RefNum /\ real \in RefNumsInUse(st) \ K
      /\ real \in Range(mgr.named)
  BY <1>1, <1>2 DEF TypedManager, SoundManager, Consistent, Range
<1>4. m.storage = Acquired(st, real) /\ m.named = mgr.named /\ m.alias = With(mgr.alias, a, real)
  BY <1>1, <1>2, <1>3, AliasGiven
<1>5. a \in RefNum \ DOMAIN mgr.alias /\ a # real
  BY <1>1, <1>3, FreshAliasFound
<1>6. /\ DOMAIN m.alias = DOMAIN mgr.alias \cup {a} /\ m.alias[a] = real
      /\ \A b \in DOMAIN mgr.alias : m.alias[b] = mgr.alias[b]
  BY <1>4, <1>5 DEF With
<1>7. /\ IsFiniteSet(Aliases(mgr, real)) /\ Cardinality(Aliases(mgr, real)) \in Nat
      /\ CountOf(st, real) = 1 + Cardinality(Aliases(mgr, real))
  <2>1. IsFiniteSet(DOMAIN mgr.alias)
    BY DEF Consistent
  <2>2. CountOf(st, real) = 1 + Cardinality(Aliases(mgr, real))
    BY <1>2, <1>3 DEF Consistent
  <2> QED BY <2>1, <2>2, AliasesAreFinite
<1>8. /\ RefNumsInUse(m.storage) = RefNumsInUse(st)
      /\ CountOf(m.storage, real) = CountOf(st, real) + 1
      /\ \A q \in RefNumsInUse(st) \ {real} : CountOf(m.storage, q) = CountOf(st, q)
  <2>1. CountOf(st, real) > 0
    BY <1>7
  <2> QED BY <1>3, <1>4, <2>1, Acquiring
<1>9. Aliases(m, real) = Aliases(mgr, real) \cup {a} /\ \A q : q # real => Aliases(m, q) = Aliases(mgr, q)
  BY <1>5, <1>6 DEF Aliases
<1>10. CountOf(m.storage, real) = 1 + Cardinality(Aliases(m, real))
  <2>1. PICK others : others = Aliases(mgr, real)
    OBVIOUS
  <2>2. a \notin others
    BY <1>5, <2>1 DEF Aliases
  <2>3. Cardinality(others \cup {a}) = Cardinality(others) + 1
    BY <1>7, <2>1, <2>2, FS_AddElement
  <2> QED BY <1>7, <1>8, <1>9, <2>1, <2>3
<1>11. Unnamed(m) = Unnamed(mgr)
  BY <1>2, <1>4, <1>8 DEF Unnamed
<1>12. IsFiniteSet(DOMAIN m.alias)
  BY <1>6, FS_AddElement DEF Consistent
<1>13. a \notin RefNumsInUse(st)
  BY <1>2 DEF Unnamed, Consistent
<1>14. DOMAIN m.alias \subseteq (K \cup {a}) \ RefNumsInUse(m.storage)
  BY <1>2, <1>6, <1>8, <1>13 DEF Consistent
<1>15. \A b \in DOMAIN m.alias : m.alias[b] \in Range(m.named)
  BY <1>3, <1>4, <1>6 DEF Consistent
<1>16. ASSUME NEW k \in DOMAIN m.named
       PROVE  m.named[k] \in RefNumsInUse(m.storage) \ (K \cup {a}) /\ Aliases(m, m.named[k]) # {}
  <2>1. mgr.named[k] \in RefNumsInUse(st) \ K /\ Aliases(mgr, mgr.named[k]) # {} /\ mgr.named[k] # a
    BY <1>2, <1>4 DEF Consistent, Range
  <2> QED BY <1>4, <1>8, <1>9, <2>1
<1>17. \A q \in RefNumsInUse(m.storage) : CountOf(m.storage, q) = 1 + Cardinality(Aliases(m, q))
  <2>1. TAKE q \in RefNumsInUse(m.storage)
  <2>2. CASE q = real
    BY <1>10, <2>2
  <2>3. CASE q # real
    BY <1>2, <1>8, <1>9, <2>3 DEF Consistent
  <2> QED BY <2>2, <2>3
<1>18. Unnamed(m) \subseteq K \cup {a} /\ \A k, l \in DOMAIN m.named : m.named[k] = m.named[l] => k = l
  BY <1>4, <1>11 DEF Consistent
<1>19. Consistent(m, K \cup {a})
  BY <1>12, <1>14, <1>15, <1>16, <1>17, <1>18 DEF Consistent
<1> QED BY <1>4, <1>6, <1>11, <1>19

LEMMA UnnamedMade ==
  ASSUME NEW mgr, TypedManager(mgr), NEW K, Consistent(mgr, K), CanCreate(mgr.storage),
         NEW real, real = CreatedRefNum(mgr.storage), real \notin K,
         NEW m, m = [mgr EXCEPT !.storage = Created(@)]
  PROVE  /\ Consistent(m, K \cup {real})
         /\ m.alias = mgr.alias
         /\ Unnamed(m) = Unnamed(mgr) \cup {real}
<1>1. PICK st : st = mgr.storage
  OBVIOUS
<1>2. Sound(st) /\ NonzeroMagics(st)
  BY <1>1 DEF TypedManager, SoundManager
<1>3. m.storage = Created(st) /\ m.named = mgr.named /\ m.alias = mgr.alias
  BY <1>1 DEF TypedManager, SoundManager
<1>4. /\ real \notin RefNumsInUse(st)
      /\ RefNumsInUse(m.storage) = RefNumsInUse(st) \cup {real}
      /\ CountOf(m.storage, real) = 1
      /\ \A q \in RefNumsInUse(st) : CountOf(m.storage, q) = CountOf(st, q)
  BY <1>1, <1>2, <1>3, Creating
<1>5. real \notin Range(mgr.named) /\ real \notin DOMAIN mgr.alias
  BY <1>1, <1>4 DEF Range, Consistent
<1>6. \A q : Aliases(m, q) = Aliases(mgr, q)
  BY <1>3 DEF Aliases
<1>7. Aliases(m, real) = {}
  BY <1>5, <1>6 DEF Aliases, Consistent
<1>8. CountOf(m.storage, real) = 1 + Cardinality(Aliases(m, real))
  <2>1. Cardinality({}) = 0
    BY FS_EmptySet
  <2> QED BY <1>4, <1>7, <2>1
<1>9. Unnamed(m) = Unnamed(mgr) \cup {real}
  BY <1>1, <1>3, <1>4, <1>5 DEF Unnamed
<1>10. \A q \in RefNumsInUse(m.storage) : CountOf(m.storage, q) = 1 + Cardinality(Aliases(m, q))
  BY <1>1, <1>4, <1>6, <1>8 DEF Consistent
<1>11. \A n \in DOMAIN m.named :
         /\ m.named[n] \in RefNumsInUse(m.storage) \ (K \cup {real})
         /\ Aliases(m, m.named[n]) # {}
  BY <1>1, <1>3, <1>4, <1>6 DEF Consistent
<1>12. DOMAIN m.alias \subseteq (K \cup {real}) \ RefNumsInUse(m.storage)
  BY <1>1, <1>3, <1>4, <1>5 DEF Consistent
<1> QED BY <1>3, <1>9, <1>10, <1>11, <1>12 DEF Consistent

\* A queue with a new name, and its first alias a.
LEMMA NamedMade ==
  ASSUME NEW mgr, TypedManager(mgr), NEW K, Consistent(mgr, K), CanCreate(mgr.storage),
         NEW n \in Name, n \notin DOMAIN mgr.named,
         NEW real, real = CreatedRefNum(mgr.storage), real \notin K,
         NEW made, TypedManager(made), made.storage = Created(mgr.storage),
         made.alias = mgr.alias, made.named = With(mgr.named, n, real),
         HasFreshAlias(made, real),
         NEW m, m = WithAlias(made, real),
         NEW a, a = FreshAlias(made, real), a \notin K, a \notin Range(m.named)
  PROVE  /\ Consistent(m, K \cup {a})
         /\ DOMAIN m.alias = DOMAIN mgr.alias \cup {a}
         /\ Unnamed(m) = Unnamed(mgr)
<1>1. PICK st : st = mgr.storage
  OBVIOUS
<1>2. PICK st1 : st1 = made.storage
  OBVIOUS
<1>3. Sound(st) /\ NonzeroMagics(st)
  BY <1>1 DEF TypedManager, SoundManager
<1>4. st1 = Created(st)
  BY <1>1, <1>2
<1>5. Sound(st1) /\ NonzeroMagics(st1)
  BY <1>2, <1>4 DEF TypedManager, SoundManager
<1>6. /\ real \in RefNum /\ real \notin RefNumsInUse(st)
      /\ RefNumsInUse(st1) = RefNumsInUse(st) \cup {real}
      /\ CountOf(st1, real) = 1
      /\ \A q \in RefNumsInUse(st) : CountOf(st1, q) = CountOf(st, q)
  BY <1>1, <1>3, <1>4, Creating
<1>7. m.storage = Acquired(st1, real) /\ m.named = made.named /\ m.alias = With(mgr.alias, a, real)
  BY <1>2, <1>4, <1>6, AliasGiven
<1>8. /\ RefNumsInUse(m.storage) = RefNumsInUse(st1)
      /\ CountOf(m.storage, real) = CountOf(st1, real) + 1
      /\ \A q \in RefNumsInUse(st1) \ {real} : CountOf(m.storage, q) = CountOf(st1, q)
  <2>1. CountOf(st1, real) > 0 /\ real \in RefNumsInUse(st1)
    BY <1>6
  <2> QED BY <1>5, <1>6, <1>7, <2>1, Acquiring
<1>9. /\ DOMAIN m.named = DOMAIN mgr.named \cup {n} /\ m.named[n] = real
      /\ \A k \in DOMAIN mgr.named : m.named[k] = mgr.named[k]
  BY <1>4, <1>7 DEF With
<1>10. Range(m.named) = Range(mgr.named) \cup {real}
  BY <1>9 DEF Range
<1>11. a \in RefNum /\ a \notin DOMAIN mgr.alias /\ a # real
  BY <1>4, <1>6, <1>10, FreshAliasFound
<1>12. /\ DOMAIN m.alias = DOMAIN mgr.alias \cup {a} /\ m.alias[a] = real
       /\ \A b \in DOMAIN mgr.alias : m.alias[b] = mgr.alias[b]
  BY <1>7, <1>11 DEF With
<1>13. real \notin Range(mgr.named)
  BY <1>1, <1>6 DEF Range, Consistent
<1>14. Aliases(m, real) = {a} /\ \A q : q # real => Aliases(m, q) = Aliases(mgr, q)
  BY <1>11, <1>12, <1>13 DEF Aliases, Consistent
<1>15. CountOf(m.storage, real) = 1 + Cardinality(Aliases(m, real))
  <2>1. Cardinality({a}) = 1
    BY FS_Singleton
  <2> QED BY <1>6, <1>8, <1>14, <2>1
<1>16. Unnamed(m) = Unnamed(mgr)
  BY <1>1, <1>6, <1>8, <1>10 DEF Unnamed
<1>17. IsFiniteSet(DOMAIN m.alias)
  BY <1>12, FS_AddElement DEF Consistent
<1>18. a \notin RefNumsInUse(st) /\ real \notin DOMAIN mgr.alias
  <2>1. real \notin DOMAIN mgr.alias
    BY DEF Consistent
  <2>2. a \notin RefNumsInUse(st)
    BY <1>1, <1>10 DEF Unnamed, Consistent
  <2> QED BY <2>1, <2>2
<1>19. DOMAIN m.alias \subseteq (K \cup {a}) \ RefNumsInUse(m.storage)
  BY <1>1, <1>6, <1>8, <1>11, <1>12, <1>18 DEF Consistent
<1>20. \A b \in DOMAIN m.alias : m.alias[b] \in Range(m.named)
  BY <1>10, <1>12 DEF Consistent
<1>21. ASSUME NEW k \in DOMAIN m.named
       PROVE  m.named[k] \in RefNumsInUse(m.storage) \ (K \cup {a}) /\ Aliases(m, m.named[k]) # {}
  <2>1. CASE k = n
    BY <1>6, <1>8, <1>9, <1>11, <1>14, <2>1
  <2>2. CASE k # n
    <3>1. mgr.named[k] \in RefNumsInUse(st) \ K /\ Aliases(mgr, mgr.named[k]) # {} /\ m.named[k] = mgr.named[k]
      BY <1>1, <1>9, <2>2 DEF Consistent
    <3>2. m.named[k] # a
      BY DEF Range
    <3> QED BY <1>6, <1>8, <1>14, <3>1, <3>2
  <2> QED BY <2>1, <2>2
<1>22. \A q \in RefNumsInUse(m.storage) : CountOf(m.storage, q) = 1 + Cardinality(Aliases(m, q))
  <2>1. TAKE q \in RefNumsInUse(m.storage)
  <2>2. CASE q = real
    BY <1>15, <2>2
  <2>3. CASE q # real
    BY <1>1, <1>6, <1>8, <1>14, <2>3 DEF Consistent
  <2> QED BY <2>2, <2>3
<1>23. \A k, l \in DOMAIN m.named : m.named[k] = m.named[l] => k = l
  <2>1. \A k \in DOMAIN mgr.named : mgr.named[k] # real
    BY <1>13 DEF Range
  <2> QED BY <1>9, <2>1 DEF Consistent
<1>24. Unnamed(m) \subseteq K \cup {a}
  BY <1>16 DEF Consistent
<1>25. Consistent(m, K \cup {a})
  BY <1>17, <1>19, <1>20, <1>21, <1>22, <1>23, <1>24 DEF Consistent
<1> QED BY <1>12, <1>16, <1>25

-----------------------------------------------------------------------------
(* Types.                                                                   *)

TypesInv ==
  /\ TypedManager(manager)
  /\ records \in [VI -> Seq(RefNum)]
  /\ \A v \in VI : IsInjective(records[v])
  /\ active \subseteq VI
  /\ known \subseteq RefNum
  /\ clash \in BOOLEAN

LEMMA NoneIsARefNum == NotARefNum \in RefNum
BY StorageAssumption DEF NotARefNum, MakeRefNum, MagicMask, RefNum, Index

LEMMA RecordedTypes ==
  ASSUME TypesInv, NEW v \in VI, NEW r \in RefNum, Recorded(v, r)
  PROVE  /\ records' \in [VI -> Seq(RefNum)]
         /\ \A w \in VI : IsInjective(records'[w])
         /\ Range(records'[v]) = Range(records[v]) \cup {r}
         /\ \A w \in VI \ {v} : records'[w] = records[w]
<1>1. CASE r \in Range(records[v])
  BY <1>1 DEF Recorded, TypesInv
<1>2. CASE r \notin Range(records[v])
  <2>1. PICK q : q = records[v]
    OBVIOUS
  <2>2. q \in Seq(RefNum) /\ IsInjective(q) /\ r \notin Range(q)
    BY <1>2, <2>1 DEF TypesInv
  <2>3. records' = [records EXCEPT ![v] = Append(q, r)]
    BY <1>2, <2>1 DEF Recorded, TypesInv
  <2>4. /\ Append(q, r) \in Seq(RefNum) /\ Len(Append(q, r)) = Len(q) + 1
        /\ Append(q, r)[Len(q) + 1] = r
        /\ \A k \in 1 .. Len(q) : Append(q, r)[k] = q[k]
    BY <2>2
  <2>5. PICK q2 : q2 = Append(q, r)
    OBVIOUS
  <2>6. /\ DOMAIN q = 1 .. Len(q) /\ DOMAIN q2 = 1 .. Len(q) + 1 /\ Len(q) \in Nat
        /\ q2[Len(q) + 1] = r /\ \A k \in 1 .. Len(q) : q2[k] = q[k]
    BY <2>2, <2>4, <2>5
  <2>7. \A k \in DOMAIN q2 : k \in DOMAIN q \/ k = Len(q) + 1
    BY <2>6
  <2>8. IsInjective(q2)
    BY <2>2, <2>6, <2>7 DEF IsInjective, Range
  <2>9. Range(q2) = Range(q) \cup {r}
    BY <2>6, <2>7 DEF Range
  <2> QED BY <2>1, <2>3, <2>4, <2>5, <2>8, <2>9 DEF TypesInv
<1> QED BY <1>1, <1>2

LEMMA InitTypes ==
  ASSUME QueueRefsInit
  PROVE  TypesInv
<1>1. PICK magic \in FirstMagics :
        manager = [storage |-> EmptyStorage(magic), named |-> [n \in {} |-> 0], alias |-> [a \in {} |-> 0]]
  BY DEF QueueRefsInit
<1>2. UsedIndexes(EmptyStorage(magic)) = {}
  BY DEF UsedIndexes, EmptyStorage
<1>3. TypedManager(manager)
  BY <1>1, <1>2, InitSound DEF TypedManager, RefsInv, NonzeroMagics
<1>4. << >> \in Seq(RefNum) /\ IsInjective(<< >>)
  BY DEF IsInjective
<1> QED BY <1>3, <1>4 DEF TypesInv, QueueRefsInit

LEMMA GivesTypes ==
  ASSUME TypesInv, NEW v \in VI, NEW r \in RefNum, NEW real, TypedManager(manager'), Gives(v, r, real)
  PROVE  TypesInv'
<1>1. known' \subseteq RefNum /\ active' \subseteq VI /\ clash' \in BOOLEAN
  BY DEF Gives, TypesInv
<1>2. records' \in [VI -> Seq(RefNum)] /\ \A w \in VI : IsInjective(records'[w])
  BY RecordedTypes DEF Gives
<1> QED BY <1>1, <1>2 DEF TypesInv

LEMMA StepTypes ==
  ASSUME TypesInv, [QueueRefsNext]_refVars
  PROVE  TypesInv'
<1>1. CASE UNCHANGED refVars
  BY <1>1 DEF TypesInv, refVars
<1>2. ASSUME NEW v \in VI, Start(v)
      PROVE  TypesInv'
  BY <1>2 DEF Start, TypesInv
<1>3. ASSUME NEW v \in VI, Finish(v)
      PROVE  TypesInv'
  <2>1. records[v] \in Seq(RefNum)
    BY DEF TypesInv
  <2>2. TypedManager(manager')
    BY <1>3, <2>1, AllCleanedUpTypes DEF Finish, TypesInv
  <2>3. << >> \in Seq(RefNum) /\ IsInjective(<< >>)
    BY DEF IsInjective
  <2>4. records' = [w \in VI |-> IF w = v THEN << >> ELSE records[w]]
    BY <1>3 DEF Finish, TypesInv
  <2>5. records' \in [VI -> Seq(RefNum)] /\ \A w \in VI : IsInjective(records'[w])
    BY <2>3, <2>4 DEF TypesInv
  <2> QED BY <1>3, <2>2, <2>5 DEF Finish, TypesInv
<1>4. ASSUME NEW v \in VI, ObtainUnnamed(v)
      PROVE  TypesInv'
  <2>1. TypedManager(manager') /\ CreatedRefNum(manager.storage) \in RefNum
    BY <1>4, QueueMade, Creating DEF ObtainUnnamed, TypesInv, TypedManager, SoundManager
  <2> QED BY <1>4, <2>1, GivesTypes DEF ObtainUnnamed
<1>5. ASSUME NEW v \in VI, ObtainNothing(v)
      PROVE  TypesInv'
  <2>1. records' \in [VI -> Seq(RefNum)] /\ \A w \in VI : IsInjective(records'[w])
    BY <1>5, NoneIsARefNum, RecordedTypes DEF ObtainNothing
  <2> QED BY <1>5, <2>1 DEF ObtainNothing, TypesInv
<1>6. ASSUME NEW v \in VI, NEW n \in Name, ObtainNamed(v, n)
      PROVE  TypesInv'
  <2>1. PICK real : real = manager.named[n]
    OBVIOUS
  <2>2. /\ real \in RefNum /\ HasFreshAlias(manager, real)
        /\ manager' = WithAlias(manager, real)
        /\ Gives(v, FreshAlias(manager, real), FreshAlias(manager, real))
    BY <1>6, <2>1 DEF ObtainNamed, Found, TypesInv, TypedManager
  <2>3. TypedManager(manager') /\ FreshAlias(manager, real) \in RefNum
    BY <2>2, AliasGiven, FreshAliasFound DEF TypesInv
  <2> QED BY <2>2, <2>3, GivesTypes
<1>7. ASSUME NEW v \in VI, NEW n \in Name, ObtainNewNamed(v, n)
      PROVE  TypesInv'
  <2>1. PICK real, made : /\ real = CreatedRefNum(manager.storage)
                          /\ made = [manager EXCEPT !.storage = Created(@), !.named = With(@, n, real)]
    OBVIOUS
  <2>2. /\ CanCreate(manager.storage) /\ HasFreshAlias(made, real)
        /\ manager' = WithAlias(made, real) /\ Gives(v, FreshAlias(made, real), real)
    BY <1>7, <2>1 DEF ObtainNewNamed
  <2>3. TypedManager(made) /\ real \in RefNum
    BY <2>1, <2>2, NamedQueueMade, Creating DEF TypesInv, TypedManager, SoundManager
  <2>4. TypedManager(manager') /\ FreshAlias(made, real) \in RefNum
    BY <2>2, <2>3, AliasGiven, FreshAliasFound
  <2> QED BY <2>2, <2>4, GivesTypes
<1>8. ASSUME NEW v \in VI, NEW r \in known, Release(v, r)
      PROVE  TypesInv'
  <2>1. TypedManager(manager')
    BY <1>8, CleanedUpTypes DEF Release, TypesInv
  <2> QED BY <1>8, <2>1 DEF Release, TypesInv
<1> QED BY <1>1, <1>2, <1>3, <1>4, <1>5, <1>6, <1>7, <1>8 DEF QueueRefsNext

-----------------------------------------------------------------------------
(* Who holds what.                                                          *)

\* The refnums by which VIs hold queues.
Held(mgr) == DOMAIN mgr.alias \cup Unnamed(mgr)

\* Each of them is recorded for one VI, which runs.
Recordings ==
  /\ \A v \in VI : Range(records[v]) \subseteq known \cup {NotARefNum}
  /\ \A v, w \in VI : v # w => Range(records[v]) \cap Range(records[w]) \subseteq {NotARefNum}
  /\ \A r \in Held(manager) : \E v \in active : r \in Range(records[v])

UseInv ==
  ~ clash => NotARefNum \notin known /\ Consistent(manager, known) /\ Recordings

LEMMA InitUse ==
  ASSUME QueueRefsInit
  PROVE  UseInv
<1>1. PICK magic \in FirstMagics :
        manager = [storage |-> EmptyStorage(magic), named |-> [n \in {} |-> 0], alias |-> [a \in {} |-> 0]]
  BY DEF QueueRefsInit
<1>2. RefNumsInUse(manager.storage) = {} /\ DOMAIN manager.alias = {} /\ DOMAIN manager.named = {}
  BY <1>1 DEF RefNumsInUse, UsedIndexes, EmptyStorage
<1>3. Unnamed(manager) = {}
  BY <1>2 DEF Unnamed
<1>4. IsFiniteSet({})
  BY FS_EmptySet
<1>5. Consistent(manager, {})
  BY <1>2, <1>3, <1>4 DEF Consistent
<1>6. Held(manager) = {}
  BY <1>2, <1>3 DEF Held
<1>7. \A v \in VI : Range(records[v]) = {}
  BY DEF QueueRefsInit, Range
<1> QED BY <1>5, <1>6, <1>7 DEF UseInv, Recordings, QueueRefsInit

\* A refnum that does not clash is new to all, and recorded for the VI it is given to.
LEMMA GivesUse ==
  ASSUME TypesInv, UseInv, NEW v \in active, NEW r \in RefNum, NEW real, Gives(v, r, real),
         ~ clash' => Consistent(manager', known \cup {r}) /\ Held(manager') = Held(manager) \cup {r}
  PROVE  UseInv'
<1>1. SUFFICES ASSUME ~ clash' PROVE UseInv'
  BY DEF UseInv
<1>2. ~ clash /\ r \notin known /\ r # NotARefNum /\ known' = known \cup {r} /\ active' = active /\ v \in VI
  BY <1>1 DEF Gives, TypesInv
<1>3. /\ Range(records'[v]) = Range(records[v]) \cup {r}
      /\ \A w \in VI \ {v} : records'[w] = records[w]
  BY <1>2, RecordedTypes DEF Gives
<1>4. Recordings /\ NotARefNum \notin known
  BY <1>2 DEF UseInv
<1>5. \A w \in VI : Range(records[w]) \subseteq Range(records'[w]) /\ Range(records'[w]) \subseteq Range(records[w]) \cup {r}
  <2>1. TAKE w \in VI
  <2>2. CASE w = v
    BY <1>3, <2>2
  <2>3. CASE w # v
    BY <1>3, <2>3
  <2> QED BY <2>2, <2>3
<1>6. \A w \in VI : Range(records'[w]) \subseteq known' \cup {NotARefNum}
  BY <1>2, <1>4, <1>5 DEF Recordings
<1>7. \A u, w \in VI : u # w => Range(records'[u]) \cap Range(records'[w]) \subseteq {NotARefNum}
  <2>1. \A w \in VI : r \notin Range(records[w])
    BY <1>2, <1>4 DEF Recordings
  <2>2. \A w \in VI \ {v} : Range(records'[v]) \cap Range(records'[w]) \subseteq {NotARefNum}
    BY <1>2, <1>3, <1>4, <2>1 DEF Recordings
  <2>3. \A u, w \in VI \ {v} : u # w => Range(records'[u]) \cap Range(records'[w]) \subseteq {NotARefNum}
    BY <1>3, <1>4 DEF Recordings
  <2> QED BY <2>2, <2>3
<1>8. \A h \in Held(manager') : \E w \in active' : h \in Range(records'[w])
  <2>1. TAKE h \in Held(manager')
  <2>2. CASE h = r
    BY <1>2, <1>3, <2>2
  <2>3. CASE h # r
    <3>1. h \in Held(manager)
      BY <1>1, <2>3
    <3>2. PICK w \in active : h \in Range(records[w])
      BY <1>4, <3>1 DEF Recordings
    <3> QED BY <1>2, <1>5, <3>2 DEF TypesInv
  <2> QED BY <2>2, <2>3
<1>9. Recordings'
  BY <1>6, <1>7, <1>8 DEF Recordings
<1> QED BY <1>1, <1>2, <1>4, <1>9 DEF UseInv

\* The cleanup of a VI ends what it holds.
LEMMA FinishCleans ==
  ASSUME TypesInv, UseInv, ~ clash, NEW v \in VI, Finish(v)
  PROVE  /\ Consistent(manager', known)
         /\ CleanedOf(manager, Range(records[v]), manager')
<1>1. records[v] \in Seq(RefNum) /\ TypedManager(manager)
  BY DEF TypesInv
<1>2. NotARefNum \notin known /\ Consistent(manager, known) /\ Range(records[v]) \subseteq known \cup {NotARefNum}
  BY DEF UseInv, Recordings
<1>3. manager' = AllCleanedUp(manager, records[v])
  BY DEF Finish
<1> QED BY <1>1, <1>2, <1>3, AllCleanedUpConsistent

LEMMA StepUse ==
  ASSUME TypesInv, UseInv, [QueueRefsNext]_refVars
  PROVE  UseInv'
<1>1. CASE UNCHANGED refVars
  BY <1>1 DEF UseInv, Recordings, refVars
<1>2. ASSUME NEW v \in VI, Start(v)
      PROVE  UseInv'
  BY <1>2 DEF Start, UseInv, Recordings
<1>3. ASSUME NEW v \in VI, Finish(v)
      PROVE  UseInv'
  <2>1. SUFFICES ASSUME ~ clash' PROVE UseInv'
    BY DEF UseInv
  <2>2. ~ clash /\ known' = known /\ active' = active \ {v}
    BY <1>3, <2>1 DEF Finish
  <2>3. Consistent(manager', known) /\ CleanedOf(manager, Range(records[v]), manager')
    BY <1>3, <2>2, FinishCleans
  <2>4. Held(manager') = Held(manager) \ Range(records[v])
    BY <2>3 DEF Held, CleanedOf
  <2>5. records' = [w \in VI |-> IF w = v THEN << >> ELSE records[w]]
    BY <1>3 DEF Finish, TypesInv
  <2>6. Range(<< >>) = {}
    BY DEF Range
  <2>7. Recordings /\ NotARefNum \notin known
    BY <2>2 DEF UseInv
  <2>8. \A h \in Held(manager') : \E w \in active' : h \in Range(records'[w])
    <3>1. TAKE h \in Held(manager')
    <3>2. PICK w \in active : h \in Range(records[w])
      BY <2>4, <2>7 DEF Recordings
    <3>3. w # v /\ w \in VI
      BY <2>4, <3>2 DEF TypesInv
    <3> QED BY <2>2, <2>5, <3>2, <3>3
  <2>9. \A w \in VI : Range(records'[w]) \subseteq Range(records[w])
    BY <2>5, <2>6
  <2>10. Recordings'
    BY <2>2, <2>7, <2>8, <2>9 DEF Recordings
  <2> QED BY <2>2, <2>3, <2>7, <2>10 DEF UseInv
<1>4. ASSUME NEW v \in VI, ObtainUnnamed(v)
      PROVE  UseInv'
  <2>1. PICK real : real = CreatedRefNum(manager.storage)
    OBVIOUS
  <2>2. /\ v \in active /\ CanCreate(manager.storage)
        /\ manager' = [manager EXCEPT !.storage = Created(@)] /\ Gives(v, real, real)
    BY <1>4, <2>1 DEF ObtainUnnamed, MayObtain
  <2>3. real \in RefNum /\ TypedManager(manager)
    BY <2>1, <2>2, Creating DEF TypesInv, TypedManager, SoundManager
  <2>4. ASSUME ~ clash'
        PROVE  Consistent(manager', known \cup {real}) /\ Held(manager') = Held(manager) \cup {real}
    <3>1. Consistent(manager, known) /\ real \notin known
      BY <2>2, <2>4 DEF Gives, UseInv
    <3>2. /\ Consistent(manager', known \cup {real}) /\ manager'.alias = manager.alias
          /\ Unnamed(manager') = Unnamed(manager) \cup {real}
      BY <2>1, <2>2, <2>3, <3>1, UnnamedMade
    <3> QED BY <3>2 DEF Held
  <2> QED BY <2>2, <2>3, <2>4, GivesUse
<1>5. ASSUME NEW v \in VI, ObtainNothing(v)
      PROVE  UseInv'
  <2>1. /\ Range(records'[v]) = Range(records[v]) \cup {NotARefNum}
        /\ \A w \in VI \ {v} : records'[w] = records[w]
    BY <1>5, NoneIsARefNum, RecordedTypes DEF ObtainNothing
  <2>2. \A w \in VI : Range(records[w]) \subseteq Range(records'[w])
                      /\ Range(records'[w]) \subseteq Range(records[w]) \cup {NotARefNum}
    <3>1. TAKE w \in VI
    <3>2. CASE w = v
      BY <2>1, <3>2
    <3>3. CASE w # v
      BY <2>1, <3>3
    <3> QED BY <3>2, <3>3
  <2>3. UNCHANGED << manager, active, known, clash >>
    BY <1>5 DEF ObtainNothing
  <2>4. ASSUME Recordings PROVE Recordings'
    BY <2>2, <2>3, <2>4 DEF Recordings, TypesInv
  <2> QED BY <2>3, <2>4 DEF UseInv
<1>6. ASSUME NEW v \in VI, NEW n \in Name, ObtainNamed(v, n)
      PROVE  UseInv'
  <2>1. PICK real, a : real = manager.named[n] /\ a = FreshAlias(manager, real)
    OBVIOUS
  <2>2. /\ v \in active /\ n \in DOMAIN manager.named /\ HasFreshAlias(manager, real)
        /\ manager' = WithAlias(manager, real) /\ Gives(v, a, a)
    BY <1>6, <2>1 DEF ObtainNamed, MayObtain, Found
  <2>3. TypedManager(manager) /\ real \in RefNum /\ a \in RefNum
    BY <2>1, <2>2, FreshAliasFound DEF TypesInv, TypedManager
  <2>4. ASSUME ~ clash'
        PROVE  Consistent(manager', known \cup {a}) /\ Held(manager') = Held(manager) \cup {a}
    <3>1. Consistent(manager, known) /\ a \notin known /\ a \notin Range(manager'.named)
      BY <2>2, <2>4 DEF Gives, UseInv
    <3>2. manager'.named = manager.named
      BY <2>2, <2>3, AliasGiven
    <3>3. /\ Consistent(manager', known \cup {a})
          /\ DOMAIN manager'.alias = DOMAIN manager.alias \cup {a}
          /\ Unnamed(manager') = Unnamed(manager)
      BY <2>1, <2>2, <2>3, <3>1, <3>2, AliasMade
    <3> QED BY <3>3 DEF Held
  <2> QED BY <2>2, <2>3, <2>4, GivesUse
<1>7. ASSUME NEW v \in VI, NEW n \in Name, ObtainNewNamed(v, n)
      PROVE  UseInv'
  <2>1. PICK real, made : /\ real = CreatedRefNum(manager.storage)
                          /\ made = [manager EXCEPT !.storage = Created(@), !.named = With(@, n, real)]
    OBVIOUS
  <2>2. PICK a : a = FreshAlias(made, real)
    OBVIOUS
  <2>3. /\ v \in active /\ ~ Found(n) /\ CanCreate(manager.storage) /\ HasFreshAlias(made, real)
        /\ manager' = WithAlias(made, real) /\ Gives(v, a, real)
    BY <1>7, <2>1, <2>2 DEF ObtainNewNamed, MayObtain
  <2>4. /\ TypedManager(manager)
        /\ TypedManager(made) /\ made.storage = Created(manager.storage)
        /\ made.alias = manager.alias /\ made.named = With(manager.named, n, real)
    BY <2>1, <2>3, NamedQueueMade DEF TypesInv
  <2>5. real \in RefNum
    BY <2>1, <2>3, Creating DEF TypesInv, TypedManager, SoundManager
  <2>6. a \in RefNum
    BY <2>2, <2>3, <2>5, FreshAliasFound
  <2>7. ASSUME ~ clash'
        PROVE  Consistent(manager', known \cup {a}) /\ Held(manager') = Held(manager) \cup {a}
    <3>1. Consistent(manager, known) /\ real \notin known /\ a \notin known /\ a \notin Range(manager'.named)
      BY <2>3, <2>7 DEF Gives, UseInv
    <3>2. n \notin DOMAIN manager.named
      <4>1. SUFFICES ASSUME n \in DOMAIN manager.named PROVE FALSE
        OBVIOUS
      <4>2. PICK r : r = manager.named[n]
        OBVIOUS
      <4>3. r \in RefNumsInUse(manager.storage) /\ CountOf(manager.storage, r) = 1 + Cardinality(Aliases(manager, r))
        BY <3>1, <4>1, <4>2 DEF Consistent
      <4>4. Cardinality(Aliases(manager, r)) \in Nat
        <5>1. IsFiniteSet(DOMAIN manager.alias)
          BY <3>1 DEF Consistent
        <5> QED BY <5>1, AliasesAreFinite
      <4>5. IsARefNum(manager.storage, r)
        BY <4>3, LookingUp, InUseIsARefNum DEF TypesInv, TypedManager, SoundManager, Sound
      <4> QED BY <2>3, <4>1, <4>2, <4>3, <4>4, <4>5 DEF Found, HasData, CountOf
    <3>3. /\ Consistent(manager', known \cup {a})
          /\ DOMAIN manager'.alias = DOMAIN manager.alias \cup {a}
          /\ Unnamed(manager') = Unnamed(manager)
      <4>1. real = CreatedRefNum(manager.storage)
        BY <2>1
      <4> QED BY <2>2, <2>3, <2>4, <3>1, <3>2, <4>1, NamedMade
    <3> QED BY <3>3 DEF Held
  <2> QED BY <2>3, <2>6, <2>7, GivesUse
<1>8. ASSUME NEW v \in VI, NEW r \in known, Release(v, r)
      PROVE  UseInv'
  <2>1. SUFFICES ASSUME ~ clash' PROVE UseInv'
    BY DEF UseInv
  <2>2. /\ manager' = CleanedUp(manager, r) /\ r \in RefNum /\ TypedManager(manager)
        /\ UNCHANGED << records, active, known, clash >>
    BY <1>8 DEF Release, TypesInv
  <2>3. NotARefNum \notin known /\ Consistent(manager, known) /\ Recordings
    BY <2>1, <2>2 DEF UseInv
  <2>4. /\ Consistent(manager', known)
        /\ DOMAIN manager'.alias = DOMAIN manager.alias \ {r}
        /\ Unnamed(manager') = Unnamed(manager) \ {r}
    BY <2>2, <2>3, CleanedUpConsistent
  <2>5. Held(manager') \subseteq Held(manager)
    BY <2>4 DEF Held
  <2>6. Recordings'
    BY <2>2, <2>3, <2>5 DEF Recordings
  <2> QED BY <2>2, <2>3, <2>4, <2>6 DEF UseInv
<1> QED BY <1>1, <1>2, <1>3, <1>4, <1>5, <1>6, <1>7, <1>8 DEF QueueRefsNext

-----------------------------------------------------------------------------
(* The theorems.                                                            *)

\* Refnums, names, aliases and records keep their types, and no slot in use has
\* the magic number that means none (NewRefNum leaves it out when the magic
\* numbers start over).
THEOREM RefnumTypesHold == QueueRefsSpec => []QueueRefsTypeOK
<1>1. TypesInv /\ [QueueRefsNext]_refVars => TypesInv'
  BY StepTypes
<1>2. ASSUME TypesInv PROVE QueueRefsTypeOK
  <2>1. IsStorage(manager.storage) /\ \A i \in UsedIndexes(manager.storage) : manager.storage.slot[i].magic # 0
    BY <1>2 DEF TypesInv, TypedManager, SoundManager, Sound, NonzeroMagics
  <2>2. ASSUME NEW v \in VI PROVE Range(records[v]) \subseteq RefNum
    BY <1>2 DEF TypesInv, Range
  <2> QED BY <1>2, <2>1, <2>2 DEF TypesInv, TypedManager, QueueRefsTypeOK
<1>3. TypesInv => QueueRefsTypeOK
  BY <1>2
<1> QED BY <1>1, <1>3, InitTypes, PTL DEF QueueRefsSpec

\* What the aliases, names and records say of the storage, while no refnum clashes.
THEOREM UseInvariant == QueueRefsSpec => [](TypesInv /\ UseInv)
<1>1. TypesInv /\ UseInv /\ [QueueRefsNext]_refVars => TypesInv' /\ UseInv'
  BY StepTypes, StepUse
<1> QED BY <1>1, InitTypes, InitUse, PTL DEF QueueRefsSpec

\* The count of a queue is one for its refnum and one for each alias, and every
\* alias leads to a queue, however VIs obtain, release and finish, as long as no
\* refnum has clashed.
THEOREM CountsAreExact == QueueRefsSpec => []CountsMatchAliases
<1>1. ASSUME TypesInv, UseInv, ~ clash
      PROVE  /\ \A r \in RefNumsInUse(manager.storage) :
                  manager.storage.slot[r.index].count = 1 + Cardinality(Aliases(manager, r))
             /\ \A a \in DOMAIN manager.alias : IsARefNum(manager.storage, manager.alias[a])
  <2>1. Consistent(manager, known)
    BY <1>1 DEF UseInv
  <2>2. IsStorage(manager.storage) /\ NonzeroMagics(manager.storage)
    BY <1>1 DEF TypesInv, TypedManager, SoundManager, Sound
  <2>3. ASSUME NEW a \in DOMAIN manager.alias
        PROVE  IsARefNum(manager.storage, manager.alias[a])
    <3>1. manager.alias[a] \in RefNumsInUse(manager.storage)
      BY <2>1 DEF Consistent, Range
    <3>2. manager.alias[a] \in RefNum
      BY <1>1 DEF TypesInv, TypedManager
    <3> QED BY <2>2, <3>1, <3>2, LookingUp
  <2> QED BY <2>1, <2>3 DEF Consistent, CountOf
<1>2. TypesInv /\ UseInv => CountsMatchAliases
  BY <1>1 DEF CountsMatchAliases
<1> QED BY <1>2, UseInvariant, PTL

\* When all VIs have finished, and no refnum has clashed, no slot is in use and no
\* name or alias is left: the assertion of the storage's Uninit.
THEOREM AllIsGivenBack == QueueRefsSpec => []NothingLeft
<1>1. ASSUME TypesInv, UseInv, active = {}, ~ clash
      PROVE  manager.storage.numUsed = 0 /\ DOMAIN manager.alias = {} /\ DOMAIN manager.named = {}
  <2>1. Held(manager) = {} /\ Consistent(manager, known)
    BY <1>1 DEF UseInv, Recordings
  <2>2. DOMAIN manager.alias = {} /\ Unnamed(manager) = {}
    BY <2>1 DEF Held
  <2>3. DOMAIN manager.named = {}
    BY <2>1, <2>2 DEF Consistent, Aliases
  <2>4. RefNumsInUse(manager.storage) = {}
    BY <2>2, <2>3 DEF Unnamed, Range
  <2>5. UsedIndexes(manager.storage) = {}
    BY <2>4 DEF RefNumsInUse
  <2>6. manager.storage.numUsed = Cardinality({})
    BY <1>1, <2>5 DEF TypesInv, TypedManager, SoundManager, Sound
  <2> QED BY <2>2, <2>3, <2>6, FS_EmptySet
<1>2. TypesInv /\ UseInv => NothingLeft
  BY <1>1 DEF NothingLeft
<1> QED BY <1>2, UseInvariant, PTL

\* The cleanup of a VI ends no queue that another VI has obtained, as long as no
\* refnum has clashed.
THEOREM CleanupIsOwn == QueueRefsSpec => CleanupSparesOthers
<1>1. ASSUME TypesInv, UseInv, ~ clash, NEW v \in VI, Finish(v),
             NEW r \in RefNumsInUse(manager.storage) \ RefNumsInUse(manager'.storage), NEW w \in VI \ {v}
      PROVE  Range(records[w]) \cap HandlesOf(r) = {}
  <2>1. NotARefNum \notin known /\ Consistent(manager, known) /\ Recordings
    BY <1>1 DEF UseInv
  <2>2. Consistent(manager', known) /\ CleanedOf(manager, Range(records[v]), manager')
    BY <1>1, FinishCleans
  <2>3. r # NotARefNum
    <3>1. IsStorage(manager.storage) /\ NonzeroMagics(manager.storage) /\ NotARefNum.magic = 0
      BY <1>1, StorageAssumption
         DEF TypesInv, TypedManager, SoundManager, Sound, NotARefNum, MakeRefNum, MagicMask
    <3> QED BY <3>1, InUseIsARefNum DEF NonzeroMagics
  <2>4. \A h \in Range(records[w]) : h # NotARefNum => h \in known /\ h \notin Range(records[v])
    BY <2>1 DEF Recordings
  <2>5. r \notin Range(records[w])
    <3>1. SUFFICES ASSUME r \in Range(records[w]) PROVE FALSE
      OBVIOUS
    <3>2. r \in known /\ r \notin Range(records[v])
      BY <2>3, <2>4, <3>1
    <3>3. r \in Unnamed(manager)
      BY <2>1, <3>2 DEF Unnamed, Consistent, Range
    <3>4. r \in Unnamed(manager')
      BY <2>2, <3>2, <3>3 DEF CleanedOf
    <3> QED BY <3>4 DEF Unnamed
  <2>6. ASSUME NEW h \in Aliases(manager, r), h \in Range(records[w])
        PROVE  FALSE
    <3>1. h \in DOMAIN manager.alias /\ manager.alias[h] = r
      BY DEF Aliases
    <3>2. h \notin Range(records[v])
      BY <2>1, <2>4, <2>6, <3>1 DEF Consistent
    <3>3. h \in DOMAIN manager'.alias /\ manager'.alias[h] = r
      BY <2>2, <3>1, <3>2 DEF CleanedOf
    <3>4. r \in RefNumsInUse(manager'.storage)
      BY <2>2, <3>3 DEF Consistent, Range
    <3> QED BY <3>4
  <2> QED BY <2>5, <2>6 DEF HandlesOf
<1>2. TypesInv /\ UseInv =>
        [\A v \in VI : Finish(v) /\ ~ clash =>
           \A r \in RefNumsInUse(manager.storage) \ RefNumsInUse(manager'.storage) :
             \A w \in VI \ {v} : Range(records[w]) \cap HandlesOf(r) = {}]_refVars
  BY <1>1
<1> QED BY <1>2, UseInvariant, PTL DEF CleanupSparesOthers

\* What the comment of CloneRefNum says, "not valid to look up storage", is true
\* while no refnum has clashed.
THEOREM AliasesAreNoRefNums == QueueRefsSpec => [](~ clash => AliasIsNoRefNum)
<1>1. ASSUME TypesInv, UseInv, ~ clash, NEW a \in DOMAIN manager.alias
      PROVE  ~ IsARefNum(manager.storage, a)
  <2>1. a \notin RefNumsInUse(manager.storage)
    BY <1>1 DEF UseInv, Consistent
  <2>2. IsStorage(manager.storage) /\ NonzeroMagics(manager.storage) /\ a \in RefNum
    BY <1>1 DEF TypesInv, TypedManager, SoundManager, Sound
  <2> QED BY <2>1, <2>2, LookingUp
<1>2. TypesInv /\ UseInv => (~ clash => AliasIsNoRefNum)
  BY <1>1 DEF AliasIsNoRefNum
<1> QED BY <1>2, UseInvariant, PTL

-----------------------------------------------------------------------------
(* Programs whose queues have no names: no refnum clashes, and what is      *)
(* above for as long as none has holds of them without that condition.      *)

\* How many magic numbers NewRefNum has given out since it gave out m, if next
\* is the one that comes: MagicNumbers - 1 when m itself comes again.
Since(m, next) == IF next > m THEN next - m ELSE next - m + MagicNumbers - 1

\* There are neither names nor aliases, and every refnum that is known was made
\* by one of the obtains so far.
NamelessInv ==
  /\ ~ clash
  /\ obtains \in 0 .. MaxObtains
  /\ DOMAIN manager.named = {} /\ DOMAIN manager.alias = {}
  /\ \A r \in known : r.magic # 0 /\ Since(r.magic, manager.storage.nextMagic) <= obtains

\* The cleanup of a refnum that is no alias leaves the names, the aliases and
\* the magic number that comes.
LEMMA NamelessCleanedUp ==
  ASSUME NEW mgr, TypedManager(mgr), DOMAIN mgr.alias = {}, NEW r \in RefNum, NEW m, m = CleanedUp(mgr, r)
  PROVE  m.named = mgr.named /\ m.alias = mgr.alias /\ m.storage.nextMagic = mgr.storage.nextMagic
<1>1. m = [mgr EXCEPT !.storage = Disposed(mgr.storage, r)]
  BY DEF CleanedUp
<1>2. m.named = mgr.named /\ m.alias = mgr.alias /\ m.storage = Disposed(mgr.storage, r)
  BY <1>1 DEF TypedManager, SoundManager
<1>3. Disposed(mgr.storage, r).nextMagic = mgr.storage.nextMagic
  BY DEF Disposed, TypedManager, SoundManager, Sound, IsStorage
<1> QED BY <1>2, <1>3

LEMMA NamelessAllCleanedUp ==
  ASSUME NEW mgr, TypedManager(mgr), DOMAIN mgr.alias = {}, NEW recs \in Seq(RefNum),
         NEW m, m = AllCleanedUp(mgr, recs)
  PROVE  m.named = mgr.named /\ m.alias = mgr.alias /\ m.storage.nextMagic = mgr.storage.nextMagic
<1>1. PICK after : /\ after[0] = mgr /\ AllCleanedUp(mgr, recs) = after[Len(recs)]
                   /\ \A k \in 1 .. Len(recs) : after[k] = CleanedUp(after[k - 1], recs[k])
  BY CleanedUpInSteps
<1> DEFINE Same(x) == /\ x.named = mgr.named /\ x.alias = mgr.alias
                      /\ x.storage.nextMagic = mgr.storage.nextMagic
           S == {k \in Nat : k <= Len(recs) => TypedManager(after[k]) /\ Same(after[k])}
<1>2. 0 \in S
  BY <1>1
<1>3. ASSUME NEW k \in Nat, k \in S
      PROVE  k + 1 \in S
  <2>1. SUFFICES ASSUME k + 1 <= Len(recs) PROVE TypedManager(after[k + 1]) /\ Same(after[k + 1])
    OBVIOUS
  <2>2. after[k + 1] = CleanedUp(after[k], recs[k + 1]) /\ recs[k + 1] \in RefNum
    BY <1>1, <2>1
  <2>3. TypedManager(after[k]) /\ Same(after[k])
    BY <1>3, <2>1
  <2>4. TypedManager(after[k + 1])
    BY <2>2, <2>3, CleanedUpTypes
  <2>5. Same(after[k + 1])
    BY <2>2, <2>3, NamelessCleanedUp
  <2> QED BY <2>4, <2>5
<1> HIDE DEF S
<1>4. Nat \subseteq S
  BY <1>2, <1>3, SetInduction
<1> QED BY <1>1, <1>4 DEF S

LEMMA InitNameless ==
  ASSUME QueueRefsInit
  PROVE  NamelessInv
<1>1. PICK magic \in FirstMagics :
        manager = [storage |-> EmptyStorage(magic), named |-> [n \in {} |-> 0], alias |-> [a \in {} |-> 0]]
  BY DEF QueueRefsInit
<1> QED BY <1>1, QueueRefsAssumption DEF NamelessInv, QueueRefsInit

\* A queue is made: its magic number comes again only after all the others.
LEMMA ObtainNameless ==
  ASSUME MaxObtains < MagicNumbers, TypesInv, NamelessInv, NEW v \in VI, ObtainUnnamed(v)
  PROVE  NamelessInv'
<1> DEFINE st == manager.storage
           r == CreatedRefNum(st)
<1>1. /\ MayObtain(v) /\ manager' = [manager EXCEPT !.storage = Created(st)]
      /\ Gives(v, r, r)
  BY DEF ObtainUnnamed
<1>2. /\ manager'.named = manager.named /\ manager'.alias = manager.alias
      /\ manager'.storage = Created(st)
  BY <1>1 DEF TypesInv, TypedManager, SoundManager
<1>3. st.nextMagic \in 1 .. MagicNumbers - 1 /\ Created(st).nextMagic = MagicAfter(st.nextMagic)
  BY DEF Created, TypesInv, TypedManager, SoundManager, Sound, IsStorage
<1>4. r.magic = st.nextMagic
  BY <1>3, StorageAssumption DEF CreatedRefNum, MakeRefNum, MagicMask
<1>5. \A q \in known : q.magic \in 1 .. MagicNumbers - 1 /\ Since(q.magic, st.nextMagic) <= obtains
  BY StorageAssumption DEF NamelessInv, TypesInv, RefNum
<1>6. obtains \in Nat /\ obtains < MaxObtains /\ MaxObtains \in Nat /\ MagicNumbers \in Nat
  BY <1>1, QueueRefsAssumption, StorageAssumption DEF NamelessInv, MayObtain
<1> HIDE DEF r
<1>7. r \notin known
  <2>1. SUFFICES ASSUME r \in known PROVE FALSE
    OBVIOUS
  <2>2. Since(st.nextMagic, st.nextMagic) <= obtains
    BY <1>4, <1>5, <2>1
  <2> QED BY <1>3, <1>6, <2>2 DEF Since
<1>8. r # NotARefNum
  BY <1>3, <1>4, StorageAssumption DEF NotARefNum, MakeRefNum, MagicMask
<1>9. Range(manager'.named) = {}
  BY <1>2 DEF NamelessInv, Range
<1>10. ~ clash' /\ known' = known \cup {r} /\ obtains' = obtains + 1
  BY <1>1, <1>7, <1>8, <1>9 DEF Gives, NamelessInv
<1>11. MagicAfter(st.nextMagic) = IF st.nextMagic = MagicNumbers - 1 THEN 1 ELSE st.nextMagic + 1
  BY <1>3, <1>6 DEF MagicAfter, MagicMask
<1>12. ASSUME NEW q \in known'
       PROVE  q.magic # 0 /\ Since(q.magic, MagicAfter(st.nextMagic)) <= obtains + 1
  <2>1. CASE q = r
    BY <1>3, <1>4, <1>6, <1>11, <2>1 DEF Since
  <2>2. CASE q \in known
    BY <1>3, <1>5, <1>6, <1>11, <2>2 DEF Since
  <2> QED BY <1>10, <1>12, <2>1, <2>2
<1> QED BY <1>2, <1>3, <1>6, <1>10, <1>12 DEF NamelessInv

LEMMA StepNameless ==
  ASSUME Name = {}, MaxObtains < MagicNumbers, TypesInv, NamelessInv, [QueueRefsNext]_refVars
  PROVE  NamelessInv'
<1>1. CASE UNCHANGED refVars
  BY <1>1 DEF NamelessInv, refVars
<1>2. ASSUME NEW v \in VI, Start(v)
      PROVE  NamelessInv'
  BY <1>2 DEF Start, NamelessInv
<1>3. ASSUME NEW v \in VI, Finish(v)
      PROVE  NamelessInv'
  <2>1. records[v] \in Seq(RefNum) /\ TypedManager(manager)
    BY DEF TypesInv
  <2>2. manager' = AllCleanedUp(manager, records[v]) /\ UNCHANGED << obtains, known, clash >>
    BY <1>3 DEF Finish
  <2>3. /\ manager'.named = manager.named /\ manager'.alias = manager.alias
        /\ manager'.storage.nextMagic = manager.storage.nextMagic
    BY <2>1, <2>2, NamelessAllCleanedUp DEF NamelessInv
  <2> QED BY <2>2, <2>3 DEF NamelessInv
<1>4. ASSUME NEW v \in VI, ObtainUnnamed(v)
      PROVE  NamelessInv'
  BY <1>4, ObtainNameless
<1>5. ASSUME NEW v \in VI, ObtainNothing(v)
      PROVE  NamelessInv'
  BY <1>5, QueueRefsAssumption, StorageAssumption
     DEF ObtainNothing, MayObtain, NamelessInv, Since, TypesInv, TypedManager, SoundManager, Sound, IsStorage, RefNum
<1>6. ASSUME NEW v \in VI, NEW r \in known, Release(v, r)
      PROVE  NamelessInv'
  <2>1. manager' = CleanedUp(manager, r) /\ UNCHANGED << obtains, known, clash >>
    BY <1>6 DEF Release
  <2>2. r \in RefNum /\ TypedManager(manager)
    BY DEF TypesInv
  <2>3. /\ manager'.named = manager.named /\ manager'.alias = manager.alias
        /\ manager'.storage.nextMagic = manager.storage.nextMagic
    BY <2>1, <2>2, NamelessCleanedUp DEF NamelessInv
  <2> QED BY <2>1, <2>3 DEF NamelessInv
<1> QED BY <1>1, <1>2, <1>3, <1>4, <1>5, <1>6 DEF QueueRefsNext

\* If no queue has a name, and no more are obtained than there are magic numbers
\* without 0, no refnum is ever given out twice.
THEOREM NamelessNeverClash ==
  ASSUME Name = {}, MaxObtains < MagicNumbers
  PROVE  QueueRefsSpec => []~ clash
<1>1. TypesInv /\ NamelessInv /\ [QueueRefsNext]_refVars => TypesInv' /\ NamelessInv'
  BY StepTypes, StepNameless
<1>2. QueueRefsInit => TypesInv /\ NamelessInv
  BY InitTypes, InitNameless
<1>3. NamelessInv => ~ clash
  BY DEF NamelessInv
<1> QED BY <1>1, <1>2, <1>3, PTL DEF QueueRefsSpec

\* So such programs leave nothing behind, whatever they release themselves.
THEOREM NamelessLeaveNothing ==
  ASSUME Name = {}, MaxObtains < MagicNumbers
  PROVE  QueueRefsSpec => [](active = {} => manager.storage.numUsed = 0)
<1>1. NothingLeft /\ ~ clash => (active = {} => manager.storage.numUsed = 0)
  BY DEF NothingLeft
<1> QED BY <1>1, AllIsGivenBack, NamelessNeverClash, PTL

\* And the cleanup of a VI ends no queue of a running VI.
THEOREM NamelessCleanupIsOwn ==
  ASSUME Name = {}, MaxObtains < MagicNumbers
  PROVE  QueueRefsSpec =>
           [][\A v \in VI : Finish(v) =>
                \A r \in RefNumsInUse(manager.storage) \ RefNumsInUse(manager'.storage) :
                  \A w \in VI \ {v} : r \notin Range(records[w])]_refVars
<1> DEFINE Conditional ==
             \A v \in VI : Finish(v) /\ ~ clash =>
               \A r \in RefNumsInUse(manager.storage) \ RefNumsInUse(manager'.storage) :
                 \A w \in VI \ {v} : Range(records[w]) \cap HandlesOf(r) = {}
           Spares ==
             \A v \in VI : Finish(v) =>
               \A r \in RefNumsInUse(manager.storage) \ RefNumsInUse(manager'.storage) :
                 \A w \in VI \ {v} : r \notin Range(records[w])
<1>1. ~ clash /\ [Conditional]_refVars => [Spares]_refVars
  BY DEF HandlesOf
<1>2. QueueRefsSpec => [][Conditional]_refVars
  BY CleanupIsOwn DEF CleanupSparesOthers
<1> QED BY <1>1, <1>2, NamelessNeverClash, PTL
=============================================================================
