-------------------------- MODULE SharedStoreProofs --------------------------
(***************************************************************************)
(* Proofs about the shared store, for every set of clients, keys and objects  *)
(* and every bound on the counts.                                           *)
(***************************************************************************)
EXTENDS SharedStore, FiniteSetTheorems, TLAPS

(* Only the client with the lock is inside a call. *)
LockIsHeld ==
  \A c \in Clients : pc[c] \in {"find", "store", "release"} <=> shared_object_map_mutex_ = c

(* A client that stores does so under a key that is still absent, and one that releases   *)
(* has something to release.                                                        *)
StoresUnderNewKey ==
  \A c \in Clients : /\ pc[c] = "store" => ~Has(key[c])
                     /\ pc[c] = "release" => object[c] # nullptr

IInv ==
  /\ TypeOK /\ LockIsHeld /\ StoresUnderNewKey
  /\ RefcountIsHolders /\ HeldObjectsAreShared /\ EveryObjectHasOneKey

-----------------------------------------------------------------------------
(* The clients that have an object are finitely many: the count of the store is a number. *)
LEMMA HoldersFinite == \A o : IsFiniteSet(Holders(o)) /\ Cardinality(Holders(o)) \in Nat
<1> TAKE o
<1>1. Holders(o) \subseteq Clients
  BY DEF Holders
<1> QED
  BY <1>1, ClientsAssumption, FS_Subset, FS_CardinalityType

(* One more client: the count that IncrementRefCountOfObject adds one to. *)
LEMMA OneMore ==
  ASSUME NEW S, IsFiniteSet(S), NEW c, c \notin S
  PROVE  Cardinality(S \cup {c}) = Cardinality(S) + 1
BY FS_AddElement

(* One client fewer: the count that Release takes one from. *)
LEMMA OneFewer ==
  ASSUME NEW S, IsFiniteSet(S), NEW c \in S
  PROVE  Cardinality(S \ {c}) = Cardinality(S) - 1
BY FS_RemoveElement

(* The last client is alone: Release deletes only what nobody else has. *)
LEMMA LastIsAlone ==
  ASSUME NEW S, IsFiniteSet(S), Cardinality(S) = 1, NEW c \in S, NEW d \in S
  PROVE  c = d
<1>1. IsFiniteSet(S \ {c}) /\ Cardinality(S \ {c}) = 0
  BY FS_RemoveElement
<1>2. S \ {c} = {}
  BY <1>1, FS_EmptySet
<1> QED
  BY <1>2

(* What a client has is stored, once, and is counted: no other key has it. *)
LEMMA HeldIsStored ==
  ASSUME IInv, NEW c \in Clients, pc[c] \in {"has", "release"}, object[c] # nullptr
  PROVE  /\ object[c] \in Stored
         /\ \A k \in Keys : Has(k) /\ shared_object_map_[k].object = object[c] => k = key[c]
<1>1. key[c] \in Keys /\ Has(key[c]) /\ shared_object_map_[key[c]].object = object[c]
  BY DEF IInv, TypeOK, HeldObjectsAreShared
<1> QED
  BY <1>1 DEF IInv, EveryObjectHasOneKey, Stored

(* Steps that leave the map and the objects of the clients in a state of having as they are *)
(* leave the counts and the sharing as they are.                                       *)
LEMMA CountsUnchanged ==
  ASSUME IInv, UNCHANGED shared_object_map_,
         \A o \in Objects : Holders(o)' = Holders(o)
  PROVE  RefcountIsHolders'
<1> SUFFICES ASSUME NEW k \in Keys, Has(k)', shared_object_map_[k].object # nullptr
             PROVE  shared_object_map_[k].refcount
                      = Cardinality(Holders(shared_object_map_[k].object)')
  BY Zenon DEF RefcountIsHolders
<1>1. Has(k) /\ shared_object_map_[k].object \in Objects
  BY DEF IInv, TypeOK, Has
<1> QED
  BY <1>1, Zenon DEF IInv, RefcountIsHolders

(* Taking the lock for a Get changes no count. *)
LEMMA LockStep ==
  ASSUME IInv, NEW c \in Clients, Lock(c)
  PROVE  IInv'
<1> USE DEF IInv, Lock
<1>1. TypeOK'
  BY DEF TypeOK
<1>2. LockIsHeld'
  BY ClientsAssumption DEF LockIsHeld, TypeOK
<1>3. StoresUnderNewKey'
  BY DEF StoresUnderNewKey, LockIsHeld, TypeOK, Has
<1>4. RefcountIsHolders'
  <2>1. \A o : Holders(o)' = Holders(o)
    BY DEF Holders, TypeOK
  <2> QED
    BY <2>1, CountsUnchanged
<1>5. HeldObjectsAreShared'
  BY DEF HeldObjectsAreShared, Has, TypeOK
<1>6. EveryObjectHasOneKey'
  <2>1. Stored' = Stored
    BY DEF Stored, Has
  <2>2. {d \in Clients : pc[d] = "store"}' = {d \in Clients : pc[d] = "store"}
    BY DEF TypeOK
  <2> QED
    BY <2>1, <2>2 DEF EveryObjectHasOneKey, Has
<1> QED
  BY <1>1, <1>2, <1>3, <1>4, <1>5, <1>6

(* IncrementRefCountOfObject counts the client that it returns the object to. *)
LEMMA IncrementStep ==
  ASSUME IInv, NEW c \in Clients, IncrementRefCountOfObject(c)
  PROVE  IInv'
<1> DEFINE o == shared_object_map_[key[c]].object
           n == shared_object_map_[key[c]].refcount
<1> USE DEF IInv, IncrementRefCountOfObject, Return
<1>0. /\ pc[c] = "find" /\ key[c] \in Keys /\ Has(key[c])
      /\ o \in Objects \cup {nullptr} /\ n \in Nat /\ n > 0
      /\ key' = key /\ heap' = heap
      /\ pc'[c] \in {"has", "died"} /\ (o # nullptr => pc'[c] = "has") /\ object'[c] = o
      /\ \A d \in Clients : d # c => pc'[d] = pc[d] /\ object'[d] = object[d]
      /\ shared_object_map_'[key[c]] = [object |-> o, refcount |-> n + 1]
      /\ \A k \in Keys : k # key[c] => shared_object_map_'[k] = shared_object_map_[k]
  BY DEF TypeOK, Has
<1>1. TypeOK'
  <2>1. shared_object_map_' \in [Keys -> [object : Objects \cup {nullptr}, refcount : Nat]]
    BY <1>0 DEF TypeOK
  <2>2. /\ pc' \in [Clients -> {"idle", "find", "store", "has", "release", "stale", "died"}]
        /\ call' \in [Clients -> Calls] /\ object' \in [Clients -> Objects \cup {nullptr}]
    BY <1>0 DEF TypeOK, Calls
  <2> QED
    BY <1>0, <2>1, <2>2 DEF TypeOK
<1>2. LockIsHeld'
  BY <1>0, ClientsAssumption DEF LockIsHeld, TypeOK
<1>3. \A k \in Keys : (Has(k)' <=> Has(k)) /\ shared_object_map_'[k].object = shared_object_map_[k].object
  BY <1>0 DEF Has
<1>4. StoresUnderNewKey'
  BY <1>0, <1>3 DEF StoresUnderNewKey, TypeOK, LockIsHeld
<1>5. RefcountIsHolders'
  <2> SUFFICES ASSUME NEW k \in Keys, NEW p, Has(k)', p = shared_object_map_'[k].object, p # nullptr
               PROVE  shared_object_map_'[k].refcount = Cardinality(Holders(p)')
    BY Zenon DEF RefcountIsHolders, Holders
  <2>0. p = shared_object_map_[k].object /\ Has(k)
    BY <1>3
  <2>1. shared_object_map_[k].refcount = Cardinality(Holders(p))
    BY <2>0, Zenon DEF RefcountIsHolders
  <2>2. CASE k = key[c]
    <3>1. c \notin Holders(p) /\ Holders(p)' = Holders(p) \cup {c}
      BY <1>0, <2>0, <2>2 DEF Holders
    <3>2. Cardinality(Holders(p)') = Cardinality(Holders(p)) + 1
      BY <3>1, HoldersFinite, OneMore, Zenon
    <3>3. shared_object_map_'[k].refcount = shared_object_map_[k].refcount + 1
      BY <1>0, <2>2
    <3> QED
      BY <3>2, <3>3, <2>1, Zenon
  <2>3. CASE k # key[c]
    <3>1. p # o
      BY <1>0, <2>0, <2>3 DEF EveryObjectHasOneKey
    <3>2. Holders(p)' = Holders(p)
      BY <1>0, <3>1 DEF Holders
    <3>3. shared_object_map_'[k].refcount = shared_object_map_[k].refcount
      BY <1>0, <2>3
    <3> QED
      BY <3>2, <3>3, <2>1, Zenon
  <2> QED
    BY <2>2, <2>3
<1>6. Stored' = Stored
  BY <1>3 DEF Stored
<1>7. {d \in Clients : pc[d] = "store"} = {} /\ {d \in Clients : pc[d] = "store"}' = {}
  BY <1>0 DEF LockIsHeld
<1>8. EveryObjectHasOneKey'
  BY <1>0, <1>3, <1>6, <1>7 DEF EveryObjectHasOneKey
<1>9. HeldObjectsAreShared'
  <2>1. o # nullptr => o \in heap
    BY <1>0 DEF EveryObjectHasOneKey, Stored
  <2> QED
    BY <2>1, <1>0, <1>3 DEF HeldObjectsAreShared, TypeOK
<1> QED
  BY <1>1, <1>2, <1>4, <1>5, <1>8, <1>9

(* Create counts nothing yet: the object is in nobody's hands. *)
LEMMA CreateStep ==
  ASSUME IInv, NEW c \in Clients, Create(c)
  PROVE  IInv'
<1> USE DEF IInv, Create
<1>0. /\ pc[c] = "find" /\ pc' = [pc EXCEPT ![c] = "store"]
      /\ shared_object_map_mutex_ = c
      /\ \A d \in Clients : d # c => pc'[d] = pc[d] /\ object'[d] = object[d]
      /\ object'[c] \in Objects \cup {nullptr} /\ object' \in [Clients -> Objects \cup {nullptr}]
      /\ heap \subseteq heap' /\ heap' = (heap \cup {object'[c]}) \ {nullptr}
      /\ pc'[c] = "store"
  <2>1. Stored \subseteq heap
    BY DEF EveryObjectHasOneKey, Stored
  <2>2. nullptr \notin heap
    BY ObjectsAssumption DEF TypeOK
  <2> QED
    BY <2>1, <2>2, ObjectsAssumption DEF TypeOK, LockIsHeld
<1>1. TypeOK'
  BY <1>0 DEF TypeOK
<1>2. LockIsHeld'
  BY <1>0 DEF LockIsHeld, TypeOK
<1>3. StoresUnderNewKey'
  BY <1>0 DEF StoresUnderNewKey, Has
<1>4. RefcountIsHolders'
  <2>1. \A o : Holders(o)' = Holders(o)
    BY <1>0 DEF Holders
  <2> QED
    BY <2>1, CountsUnchanged
<1>5. HeldObjectsAreShared'
  BY <1>0 DEF HeldObjectsAreShared, Has
<1>6. EveryObjectHasOneKey'
  <2>1. Stored' = Stored
    BY DEF Stored, Has
  <2>2. {d \in Clients : pc[d] = "store"} = {} /\ {d \in Clients : pc[d] = "store"}' = {c}
    BY <1>0 DEF LockIsHeld
  <2>3. heap = Stored \ {nullptr}
    BY <2>2 DEF EveryObjectHasOneKey
  <2>4. {object[d] : d \in {e \in Clients : pc[e] = "store"}}' = {object'[c]}
    BY <2>2
  <2> QED
    BY <1>0, <2>1, <2>3, <2>4 DEF EveryObjectHasOneKey, Has
<1> QED
  BY <1>1, <1>2, <1>3, <1>4, <1>5, <1>6

(* StoreObject counts its client as the first and only one. *)
LEMMA StoreStep ==
  ASSUME IInv, NEW c \in Clients, StoreObject(c)
  PROVE  IInv'
<1> DEFINE o == IF object[c] \in Stored THEN nullptr ELSE object[c]
<1> USE DEF IInv, StoreObject, Return
<1>0. /\ pc[c] = "store" /\ key[c] \in Keys /\ ~Has(key[c])
      /\ o \in Objects \cup {nullptr} /\ o \notin Stored
      /\ key' = key /\ heap' = heap
      /\ pc'[c] \in {"has", "died"} /\ (o # nullptr => pc'[c] = "has") /\ object'[c] = o
      /\ \A d \in Clients : d # c => pc'[d] = pc[d] /\ object'[d] = object[d]
      /\ shared_object_map_'[key[c]] = [object |-> o, refcount |-> 1]
      /\ \A k \in Keys : k # key[c] => shared_object_map_'[k] = shared_object_map_[k]
  BY DEF TypeOK, StoresUnderNewKey, Stored
<1> HIDE DEF o
<1>1. TypeOK'
  <2>1. shared_object_map_' \in [Keys -> [object : Objects \cup {nullptr}, refcount : Nat]]
    BY <1>0 DEF TypeOK, o
  <2>2. /\ pc' \in [Clients -> {"idle", "find", "store", "has", "release", "stale", "died"}]
        /\ call' \in [Clients -> Calls] /\ object' \in [Clients -> Objects \cup {nullptr}]
    BY <1>0 DEF TypeOK, Calls, o
  <2> QED
    BY <1>0, <2>1, <2>2 DEF TypeOK
<1>2. LockIsHeld'
  BY <1>0, ClientsAssumption DEF LockIsHeld, TypeOK
<1>3. \A k \in Keys : k # key[c] => (Has(k)' <=> Has(k))
  BY <1>0 DEF Has
<1>4. Has(key[c])'
  BY <1>0 DEF Has
<1>5. \A d \in Clients : pc'[d] # "store"
  BY <1>0 DEF LockIsHeld
<1>6. StoresUnderNewKey'
  BY <1>0, <1>5 DEF StoresUnderNewKey
<1>7. \A k \in Keys : k # key[c] /\ Has(k) /\ shared_object_map_[k].object # nullptr
                        => shared_object_map_[k].object # o
  BY <1>0 DEF Stored
<1>8. RefcountIsHolders'
  <2> SUFFICES ASSUME NEW k \in Keys, NEW p, Has(k)', p = shared_object_map_'[k].object, p # nullptr
               PROVE  shared_object_map_'[k].refcount = Cardinality(Holders(p)')
    BY Zenon DEF RefcountIsHolders, Holders
  <2>1. CASE k = key[c]
    <3>1. p = o
      BY <1>0, <2>1
    <3>2. \A d \in Clients : pc[d] \in {"has", "release"} => object[d] # p
      BY <1>0, <3>1 DEF HeldObjectsAreShared, Stored, TypeOK
    <3>3. Holders(p)' = {c}
      BY <1>0, <3>1, <3>2 DEF Holders
    <3>4. Cardinality({c}) = 1
      BY Zenon, FS_Singleton
    <3>5. shared_object_map_'[k].refcount = 1
      BY <1>0, <2>1
    <3> QED
      BY <3>3, <3>4, <3>5, Zenon
  <2>2. CASE k # key[c]
    <3>0. p = shared_object_map_[k].object /\ Has(k)
      BY <1>0, <1>3, <2>2
    <3>1. p # o
      BY <1>7, <2>2, <3>0
    <3>2. Holders(p)' = Holders(p)
      BY <1>0, <3>1 DEF Holders
    <3>3. shared_object_map_'[k].refcount = shared_object_map_[k].refcount
      BY <1>0, <2>2
    <3>4. shared_object_map_[k].refcount = Cardinality(Holders(p))
      BY <3>0, Zenon DEF RefcountIsHolders
    <3> QED
      BY <3>2, <3>3, <3>4, Zenon
  <2> QED
    BY <2>1, <2>2
<1>9. {d \in Clients : pc[d] = "store"} = {c} /\ {d \in Clients : pc[d] = "store"}' = {}
  BY <1>0, <1>5 DEF LockIsHeld
<1>10. heap = (Stored \cup {o}) \ {nullptr}
  <2>1. heap = (Stored \cup {object[c]}) \ {nullptr}
    BY <1>9 DEF EveryObjectHasOneKey
  <2> QED
    BY <2>1 DEF o
<1>11. Stored' = (Stored \cup {o}) \ {nullptr}
  <2>1. Stored' \subseteq (Stored \cup {o}) \ {nullptr}
    BY <1>0, <1>3, <1>4 DEF Stored
  <2>2. (Stored \cup {o}) \ {nullptr} \subseteq Stored'
    BY <1>0, <1>3, <1>4 DEF Stored
  <2> QED
    BY <2>1, <2>2
<1>12. EveryObjectHasOneKey'
  <2>1. heap' = (Stored' \cup {object'[d] : d \in {e \in Clients : pc'[e] = "store"}}) \ {nullptr}
    BY <1>0, <1>9, <1>10, <1>11
  <2>2. \A j, k \in Keys :
          Has(j)' /\ Has(k)' /\ shared_object_map_'[j].object = shared_object_map_'[k].object
            => j = k \/ shared_object_map_'[k].object = nullptr
    BY <1>0, <1>3, <1>7 DEF EveryObjectHasOneKey
  <2> QED
    BY <2>1, <2>2 DEF EveryObjectHasOneKey
<1>13. HeldObjectsAreShared'
  BY <1>0, <1>3, <1>4, <1>10 DEF HeldObjectsAreShared, TypeOK
<1> QED
  BY <1>1, <1>2, <1>6, <1>8, <1>12, <1>13

(* Release of a null, and taking the lock for one that is not, change no count. *)
LEMMA ReleaseNullStep ==
  ASSUME IInv, NEW c \in Clients, ReleaseNull(c) \/ LockForRelease(c)
  PROVE  IInv'
<1> USE DEF IInv, ReleaseNull, LockForRelease
<1>1. TypeOK'
  BY SMTT(60) DEF TypeOK
<1>2. LockIsHeld'
  BY ClientsAssumption DEF LockIsHeld, TypeOK
<1>3. StoresUnderNewKey'
  BY DEF StoresUnderNewKey, TypeOK, Has
<1>4. RefcountIsHolders'
  <2>1. \A o \in Objects : Holders(o)' = Holders(o)
    BY ObjectsAssumption DEF Holders, TypeOK
  <2> QED
    BY <2>1, CountsUnchanged
<1>5. HeldObjectsAreShared'
  BY DEF HeldObjectsAreShared, Has, TypeOK
<1>6. EveryObjectHasOneKey'
  <2>1. Stored' = Stored
    BY DEF Stored, Has
  <2>2. {d \in Clients : pc[d] = "store"}' = {d \in Clients : pc[d] = "store"}
    BY DEF TypeOK
  <2> QED
    BY <2>1, <2>2 DEF EveryObjectHasOneKey, Has
<1> QED
  BY <1>1, <1>2, <1>3, <1>4, <1>5, <1>6

(* What Release leaves in the map: one reference fewer, or no entry. *)
LEMMA DecrementedEntry ==
  ASSUME TypeOK, NEW k \in Keys, Has(k)
  PROVE  /\ Decremented(k) \in [Keys -> [object : Objects \cup {nullptr}, refcount : Nat]]
         /\ \A j \in Keys : j # k => Decremented(k)[j] = shared_object_map_[j]
         /\ Decremented(k)[k].refcount = shared_object_map_[k].refcount - 1
         /\ shared_object_map_[k].refcount # 1 =>
              Decremented(k)[k].object = shared_object_map_[k].object
<1> DEFINE Entry == [object : Objects \cup {nullptr}, refcount : Nat]
           e == shared_object_map_[k]
           f == IF e.refcount = 1 THEN Absent ELSE [object |-> e.object, refcount |-> e.refcount - 1]
<1>1. shared_object_map_ \in [Keys -> Entry] /\ e \in Entry /\ e.refcount \in Nat /\ e.refcount > 0
  BY DEF TypeOK, Has
<1>2. f \in Entry /\ f.refcount = e.refcount - 1 /\ (e.refcount # 1 => f.object = e.object)
  <2>1. CASE e.refcount = 1
    BY <2>1 DEF Absent
  <2>2. CASE e.refcount # 1
    BY <1>1, <2>2
  <2> QED
    BY <2>1, <2>2
<1>3. Decremented(k) = [shared_object_map_ EXCEPT ![k] = f]
  BY DEF Decremented
<1> HIDE DEF f, Entry
<1>4. /\ Decremented(k) \in [Keys -> Entry] /\ Decremented(k)[k] = f
      /\ \A j \in Keys : j # k => Decremented(k)[j] = shared_object_map_[j]
  BY <1>1, <1>2, <1>3
<1> QED
  BY <1>2, <1>4 DEF Entry

(* Release finds the entry of its object, and deletes the object if nobody else has it. *)
LEMMA ReleaseStep ==
  ASSUME IInv, NEW c \in Clients, Release(c)
  PROVE  IInv'
<1> DEFINE k == key[c]
           o == object[c]
           n == shared_object_map_[key[c]].refcount
<1> USE DEF IInv
<1>0. /\ pc[c] = "release" /\ k \in Keys /\ Has(k) /\ shared_object_map_[k].object = o
      /\ o \in Objects /\ o # nullptr /\ o \in heap /\ o \in Stored /\ n \in Nat /\ n > 0
  <2>1. pc[c] = "release" /\ object[c] # nullptr
    BY DEF Release, StoresUnderNewKey
  <2> QED
    BY <2>1, HeldIsStored DEF TypeOK, HeldObjectsAreShared, Has
<1>1. \A j \in Keys : Has(j) /\ shared_object_map_[j].object = o => j = k
  BY <1>0, HeldIsStored
<1>2. /\ key' = key /\ call' = call /\ shared_object_map_mutex_' = nobody
      /\ pc' = [pc EXCEPT ![c] = "idle"] /\ object' = [object EXCEPT ![c] = nullptr]
      /\ pc'[c] = "idle"
      /\ \A d \in Clients : d # c => pc'[d] = pc[d] /\ object'[d] = object[d]
      /\ shared_object_map_' = Decremented(k)
      /\ heap' = IF n = 1 THEN heap \ {o} ELSE heap
  BY <1>0, <1>1 DEF Release, TypeOK
<1>3. /\ shared_object_map_' \in [Keys -> [object : Objects \cup {nullptr}, refcount : Nat]]
      /\ \A j \in Keys : j # k => shared_object_map_'[j] = shared_object_map_[j]
      /\ shared_object_map_'[k].refcount = n - 1
      /\ n # 1 => shared_object_map_'[k].object = o
  BY <1>0, <1>2, DecrementedEntry
<1>4. /\ \A j \in Keys : j # k => (Has(j)' <=> Has(j))
      /\ Has(k)' <=> n # 1
      /\ \A j \in Keys : Has(j)' => Has(j) /\ shared_object_map_'[j].object = shared_object_map_[j].object
  BY <1>0, <1>2, <1>3 DEF Has
<1>5. \A d \in Clients : pc[d] # "store" /\ pc'[d] # "store"
  BY <1>0, <1>2 DEF LockIsHeld
<1>6. TypeOK'
  BY <1>0, <1>2, <1>3 DEF TypeOK
<1>7. LockIsHeld'
  BY <1>0, <1>2, ClientsAssumption DEF LockIsHeld, TypeOK
<1>8. StoresUnderNewKey'
  BY <1>2, <1>5 DEF StoresUnderNewKey
<1>9. n = Cardinality(Holders(o)) /\ c \in Holders(o)
  BY <1>0, Zenon DEF RefcountIsHolders, Holders
<1>10. RefcountIsHolders'
  <2> SUFFICES ASSUME NEW j \in Keys, NEW p, Has(j)', p = shared_object_map_'[j].object, p # nullptr
               PROVE  shared_object_map_'[j].refcount = Cardinality(Holders(p)')
    BY Zenon DEF RefcountIsHolders, Holders
  <2>0. p = shared_object_map_[j].object /\ Has(j)
    BY <1>4
  <2>1. CASE j = k
    <3>1. p = o /\ shared_object_map_'[j].refcount = n - 1
      BY <1>0, <1>3, <1>4, <2>0, <2>1
    <3>2. Holders(p)' = Holders(p) \ {c} /\ c \in Holders(p)
      BY <1>0, <1>2, <3>1 DEF Holders
    <3>3. n = Cardinality(Holders(p))
      BY <1>9, <3>1
    <3>4. Cardinality(Holders(p) \ {c}) = Cardinality(Holders(p)) - 1
      BY <3>2, HoldersFinite, OneFewer, Zenon
    <3> QED
      BY <3>1, <3>2, <3>3, <3>4, Zenon
  <2>2. CASE j # k
    <3>1. p # o
      BY <1>1, <2>0, <2>2
    <3>2. Holders(p)' = Holders(p)
      BY <1>0, <1>2, <3>1 DEF Holders
    <3>3. shared_object_map_'[j].refcount = shared_object_map_[j].refcount
      BY <1>3, <2>2
    <3>4. shared_object_map_[j].refcount = Cardinality(Holders(p))
      BY <2>0, Zenon DEF RefcountIsHolders
    <3> QED
      BY <3>2, <3>3, <3>4, Zenon
  <2> QED
    BY <2>1, <2>2
<1>11. HeldObjectsAreShared'
  <2> SUFFICES ASSUME NEW d \in Clients, pc'[d] \in {"has", "release"}
               PROVE  /\ Has(key[d])' /\ shared_object_map_'[key[d]].object = object'[d]
                      /\ object'[d] # nullptr => object'[d] \in heap'
    BY <1>2 DEF HeldObjectsAreShared
  <2>1. d # c /\ pc[d] = pc'[d] /\ object[d] = object'[d] /\ key[d] \in Keys
    BY <1>2 DEF TypeOK
  <2>2. /\ Has(key[d]) /\ shared_object_map_[key[d]].object = object[d]
        /\ object[d] # nullptr => object[d] \in heap
    BY <2>1 DEF HeldObjectsAreShared
  <2>3. n = 1 => object[d] # o
    <3> SUFFICES ASSUME n = 1, object[d] = o PROVE FALSE
      OBVIOUS
    <3>1. d \in Holders(o)
      BY <2>1 DEF Holders
    <3>2. IsFiniteSet(Holders(o)) /\ Cardinality(Holders(o)) = 1
      BY <1>9, HoldersFinite, SMTT(60)
    <3> QED
      BY <1>9, <3>1, <3>2, <2>1, LastIsAlone, Zenon
  <2>4. Has(key[d])'
    BY <1>0, <1>2, <1>4, <2>1, <2>2, <2>3, SMTT(60)
  <2> QED
    BY <1>2, <1>4, <2>1, <2>2, <2>3, <2>4
<1>12. EveryObjectHasOneKey'
  <2>1. Stored' = IF n = 1 THEN Stored \ {o} ELSE Stored
    <3>1. Stored' \subseteq Stored
      BY <1>4, SMTT(60) DEF Stored
    <3>2. n = 1 => o \notin Stored'
      BY <1>0, <1>1, <1>2, <1>4, SMTT(60) DEF Stored
    <3>3. \A q \in Stored : q # o => q \in Stored'
      BY SMTT(60), <1>0, <1>3, <1>4 DEF Stored
    <3>4. n # 1 => o \in Stored'
      BY <1>0, <1>2, <1>3, <1>4, ObjectsAssumption DEF Stored
    <3> QED
      BY <3>1, <3>2, <3>3, <3>4, SMTT(60)
  <2>2. heap = Stored /\ heap' = Stored'
    <3>1. heap = Stored \ {nullptr}
      BY <1>5 DEF EveryObjectHasOneKey
    <3> QED
      BY <1>2, <2>1, <3>1 DEF Stored
  <2>3. heap' = (Stored' \cup {object'[d] : d \in {e \in Clients : pc'[e] = "store"}}) \ {nullptr}
    BY <1>5, <2>2 DEF Stored
  <2>4. \A i, j \in Keys :
          Has(i)' /\ Has(j)' /\ shared_object_map_'[i].object = shared_object_map_'[j].object
            => i = j \/ shared_object_map_'[j].object = nullptr
    BY <1>4 DEF EveryObjectHasOneKey
  <2> QED
    BY <2>3, <2>4 DEF EveryObjectHasOneKey
<1> QED
  BY <1>6, <1>7, <1>8, <1>10, <1>11, <1>12

(* Clear leaves nothing, and makes stale what clients had. *)
LEMMA ClearStep ==
  ASSUME IInv, Clear
  PROVE  IInv'
<1> USE DEF IInv, Clear
<1>1. TypeOK'
  BY DEF TypeOK, Absent
<1>2. LockIsHeld' /\ StoresUnderNewKey' /\ HeldObjectsAreShared'
  BY ClientsAssumption DEF LockIsHeld, StoresUnderNewKey, HeldObjectsAreShared
<1>3. \A k \in Keys : ~Has(k)'
  BY DEF Has, Absent
<1>4. RefcountIsHolders'
  BY <1>3 DEF RefcountIsHolders
<1>5. EveryObjectHasOneKey'
  <2>1. \A c \in Clients : pc[c] # "store" /\ pc'[c] # "store"
    BY ClientsAssumption DEF LockIsHeld
  <2>2. heap = Stored \ {nullptr} /\ Stored' = {}
    BY <1>3, <2>1 DEF EveryObjectHasOneKey, Stored
  <2> QED
    BY <1>3, <2>1, <2>2 DEF EveryObjectHasOneKey
<1> QED
  BY <1>1, <1>2, <1>4, <1>5

-----------------------------------------------------------------------------
(* The inductive invariant of the store: counts, sharing and the lock together. *)
THEOREM StoreInvariant == Spec => []IInv
<1>1. Init => IInv
  <2> SUFFICES ASSUME Init PROVE IInv
    OBVIOUS
  <2> USE DEF Init
  <2>1. TypeOK
    BY DEF TypeOK, Absent, Calls
  <2>2. LockIsHeld /\ StoresUnderNewKey /\ HeldObjectsAreShared
    BY ClientsAssumption DEF LockIsHeld, StoresUnderNewKey, HeldObjectsAreShared
  <2>3. \A k \in Keys : ~Has(k)
    BY DEF Has, Absent
  <2>4. RefcountIsHolders
    BY <2>3 DEF RefcountIsHolders
  <2>5. EveryObjectHasOneKey
    BY <2>3 DEF EveryObjectHasOneKey, Stored
  <2> QED
    BY <2>1, <2>2, <2>4, <2>5 DEF IInv
<1>2. IInv /\ [Next]_vars => IInv'
  <2> SUFFICES ASSUME IInv, [Next]_vars PROVE IInv'
    OBVIOUS
  <2>1. CASE UNCHANGED vars
    BY <2>1 DEF IInv, TypeOK, LockIsHeld, StoresUnderNewKey, RefcountIsHolders,
       HeldObjectsAreShared, EveryObjectHasOneKey, Holders, Stored, Has, vars, clientVars
  <2>2. CASE Clear
    BY <2>2, ClearStep
  <2>3. ASSUME NEW c \in Clients, Step(c) PROVE IInv'
    BY <2>3, LockStep, IncrementStep, CreateStep, StoreStep, ReleaseNullStep, ReleaseStep DEF Step
  <2> QED
    BY <2>1, <2>2, <2>3 DEF Next
<1> QED
  BY <1>1, <1>2, PTL DEF Spec

(* Types of the map, the lock and the clients. *)
THEOREM StoreTypes == Spec => []TypeOK
<1>1. IInv => TypeOK
  BY DEF IInv
<1> QED
  BY <1>1, StoreInvariant, PTL

(* The reference count that Release tests is the number of clients that have the object. *)
THEOREM StoreCounts == Spec => []RefcountIsHolders
<1>1. IInv => RefcountIsHolders
  BY DEF IInv
<1> QED
  BY <1>1, StoreInvariant, PTL

(* Until a Clear, no Release deletes an object that another client has, and all clients of a  *)
(* key have the same one.  Rests on the callers' contract on Clear that SharedStore states.   *)
THEOREM StoreShares == Spec => []HeldObjectsAreShared
<1>1. IInv => HeldObjectsAreShared
  BY DEF IInv
<1> QED
  BY <1>1, StoreInvariant, PTL

(* The search by pointer in Release is unambiguous, and no object is lost without a key. *)
THEOREM StoreIsInjective == Spec => []EveryObjectHasOneKey
<1>1. IInv => EveryObjectHasOneKey
  BY DEF IInv
<1> QED
  BY <1>1, StoreInvariant, PTL
=============================================================================
