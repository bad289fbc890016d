----------------------------- MODULE SharedStore -----------------------------
(***************************************************************************)
(* The process-wide store of shared resources, syntaxnet/shared_store.h and    *)
(* .cc: term maps, affix tables and label sets, by key (type and name), each    *)
(* with a count of the references given out.  A client is a feature, a           *)
(* transition system or an op kernel that gets one object in Init and releases   *)
(* it in its destructor, on any thread.                                      *)
(*                                                                         *)
(* Clear deletes objects that clients may still point to.  What the callers of   *)
(* Clear owe the store is therefore part of the model: a client whose pointer     *)
(* is from before a Clear (pc "stale") neither uses nor releases it.  It may get   *)
(* an object anew.  Nothing in the code enforces this; the tests, the only        *)
(* callers of Clear, keep to it.                                             *)
(***************************************************************************)
EXTENDS Integers, FiniteSets

CONSTANTS
  Clients, Keys,
  Objects,    \* addresses; one that was deleted may be given to a new object
  nullptr, nobody,
  MaxRefcount \* a bound of the model: the count of a null only grows

ASSUME ClientsAssumption == IsFiniteSet(Clients) /\ nobody \notin Clients
ASSUME ObjectsAssumption == nullptr \notin Objects

VARIABLES
  shared_object_map_,         \* for each key its object and the count, 0 if absent
  shared_object_map_mutex_,   \* who has the lock
  heap,                       \* the objects that are constructed and not deleted
  pc, call, key, object       \* for each client, what it does and what it has

clientVars == <<pc, call, key, object>>
vars == <<shared_object_map_, shared_object_map_mutex_, heap, clientVars>>

Absent == [object |-> nullptr, refcount |-> 0]
Calls == {"Get", "ClosureGet", "ClosureGetOrDie"}
Has(k) == shared_object_map_[k].refcount > 0
Stored == {shared_object_map_[k].object : k \in {j \in Keys : Has(j)}} \ {nullptr}
Holders(o) == {c \in Clients : pc[c] \in {"has", "release"} /\ object[c] = o}

-----------------------------------------------------------------------------
(* Get, ClosureGet and ClosureGetOrDie take the lock and look for the key. *)
Lock(c) ==
  /\ pc[c] \in {"idle", "stale"} /\ shared_object_map_mutex_ = nobody
  /\ \E f \in Calls, k \in Keys :
       /\ shared_object_map_[k].refcount < MaxRefcount
       /\ call' = [call EXCEPT ![c] = f] /\ key' = [key EXCEPT ![c] = k]
  /\ shared_object_map_mutex_' = c
  /\ pc' = [pc EXCEPT ![c] = "find"]
  /\ UNCHANGED <<shared_object_map_, heap, object>>

(* The return to the client: ClosureGetOrDie CHECKs what it got. *)
Return(c, o) ==
  /\ object' = [object EXCEPT ![c] = o]
  /\ pc' = [pc EXCEPT ![c] = IF call[c] = "ClosureGetOrDie" /\ o = nullptr THEN "died" ELSE "has"]
  /\ call' = [call EXCEPT ![c] = "Get"]
  /\ shared_object_map_mutex_' = nobody

(* Mutant: the object is returned, but not counted. *)
IncrementForgotten(c) ==
  /\ pc[c] = "find" /\ Has(key[c])
  /\ Return(c, shared_object_map_[key[c]].object)
  /\ UNCHANGED <<shared_object_map_, heap, key>>
IncrementRefCountOfObject(c) ==
  /\ pc[c] = "find" /\ Has(key[c])
  /\ shared_object_map_' = [shared_object_map_ EXCEPT ![key[c]].refcount = @ + 1]
  /\ Return(c, shared_object_map_[key[c]].object)
  /\ UNCHANGED <<heap, key>>

(* new T, or the closure: a new object, none, or one that is already stored.  Mutant:   *)
(* the lock is not held meanwhile.                                                  *)
CreateUnlocked(c) ==
  /\ pc[c] = "find" /\ ~Has(key[c])
  /\ \E o \in Objects \ heap : object' = [object EXCEPT ![c] = o] /\ heap' = heap \cup {o}
  /\ pc' = [pc EXCEPT ![c] = "store"]
  /\ shared_object_map_mutex_' = nobody
  /\ UNCHANGED <<shared_object_map_, call, key>>
Create(c) ==
  /\ pc[c] = "find" /\ ~Has(key[c])
  /\ \/ \E o \in Objects \ heap : object' = [object EXCEPT ![c] = o] /\ heap' = heap \cup {o}
     \/ /\ call[c] # "Get"
        /\ \E o \in Stored \cup {nullptr} : object' = [object EXCEPT ![c] = o]
        /\ UNCHANGED heap
  /\ pc' = [pc EXCEPT ![c] = "store"]
  /\ UNCHANGED <<shared_object_map_, shared_object_map_mutex_, call, key>>

(* StoreObject; ClosureGet stores a null in place of a pointer it has already. *)
StoreObject(c) ==
  /\ pc[c] = "store"
  /\ LET o == IF object[c] \in Stored THEN nullptr ELSE object[c]
     IN  /\ shared_object_map_' =
              [shared_object_map_ EXCEPT ![key[c]] = [object |-> o, refcount |-> 1]]
         /\ Return(c, o)
  /\ UNCHANGED <<heap, key>>

(* Release: nothing is done for null; otherwise the object is looked for.  Mutant: it is  *)
(* deleted while others have it.                                                  *)
ReleaseNull(c) ==
  /\ pc[c] = "has" /\ object[c] = nullptr
  /\ pc' = [pc EXCEPT ![c] = "idle"]
  /\ UNCHANGED <<shared_object_map_, shared_object_map_mutex_, heap, call, key, object>>
LockForRelease(c) ==
  /\ pc[c] = "has" /\ object[c] # nullptr /\ shared_object_map_mutex_ = nobody
  /\ shared_object_map_mutex_' = c
  /\ pc' = [pc EXCEPT ![c] = "release"]
  /\ UNCHANGED <<shared_object_map_, heap, call, key, object>>
Decremented(k) ==
  [shared_object_map_ EXCEPT ![k] =
     IF @.refcount = 1 THEN Absent
     ELSE [object |-> @.object, refcount |-> @.refcount - 1]]
ReleaseDeletes(c) ==
  /\ pc[c] = "release"
  /\ \E k \in Keys :
       /\ Has(k) /\ shared_object_map_[k].object = object[c]
       /\ shared_object_map_' = Decremented(k)
       /\ heap' = heap \ {object[c]}
  /\ pc' = [pc EXCEPT ![c] = "idle"] /\ object' = [object EXCEPT ![c] = nullptr]
  /\ shared_object_map_mutex_' = nobody
  /\ UNCHANGED <<call, key>>
Release(c) ==
  /\ pc[c] = "release"
  /\ IF object[c] \notin Stored THEN UNCHANGED <<shared_object_map_, heap>>
     ELSE \E k \in Keys :
            /\ Has(k) /\ shared_object_map_[k].object = object[c]
            /\ shared_object_map_' = Decremented(k)
            /\ heap' = IF shared_object_map_[k].refcount = 1 THEN heap \ {object[c]} ELSE heap
  /\ pc' = [pc EXCEPT ![c] = "idle"] /\ object' = [object EXCEPT ![c] = nullptr]
  /\ shared_object_map_mutex_' = nobody
  /\ UNCHANGED <<call, key>>

(* Clear deletes every object, counted or not, and empties the map.  No client is told:   *)
(* what they had is left dangling, and becomes stale.                               *)
Clear ==
  /\ shared_object_map_mutex_ = nobody
  /\ shared_object_map_' = [k \in Keys |-> Absent]
  /\ heap' = heap \ Stored
  /\ pc' = [c \in Clients |-> IF pc[c] = "has" THEN "stale" ELSE pc[c]]
  /\ UNCHANGED <<shared_object_map_mutex_, call, key, object>>

-----------------------------------------------------------------------------
Init ==
  /\ shared_object_map_ = [k \in Keys |-> Absent]
  /\ shared_object_map_mutex_ = nobody
  /\ heap = {}
  /\ pc = [c \in Clients |-> "idle"]
  /\ call = [c \in Clients |-> "Get"]
  /\ key \in [Clients -> Keys]
  /\ object = [c \in Clients |-> nullptr]

Step(c) ==
  \/ Lock(c) \/ IncrementRefCountOfObject(c) \/ Create(c) \/ StoreObject(c)
  \/ ReleaseNull(c) \/ LockForRelease(c) \/ Release(c)
Next ==
  /\ \A c \in Clients : pc[c] # "died"
  /\ (\E c \in Clients : Step(c)) \/ Clear

Spec == Init /\ [][Next]_vars

-----------------------------------------------------------------------------
(* The types; a count of references has no bound in the code. *)
TypeOK ==
  /\ shared_object_map_ \in [Keys -> [object : Objects \cup {nullptr}, refcount : Nat]]
  /\ shared_object_map_mutex_ \in Clients \cup {nobody}
  /\ heap \subseteq Objects
  /\ pc \in [Clients -> {"idle", "find", "store", "has", "release", "stale", "died"}]
  /\ call \in [Clients -> Calls]
  /\ key \in [Clients -> Keys]
  /\ object \in [Clients -> Objects \cup {nullptr}]

(* The count of an object is the number of clients that have it: Release deletes it when  *)
(* the last of them is gone, and not before.  A stale pointer is not counted, also when a  *)
(* new object has its address.                                                       *)
RefcountIsHolders ==
  \A k \in Keys :
    Has(k) /\ shared_object_map_[k].object # nullptr =>
      shared_object_map_[k].refcount = Cardinality(Holders(shared_object_map_[k].object))

(* What a client got since the last Clear is not deleted by what other clients get and       *)
(* release, and is what its key still stands for: all of them share one object, also if      *)
(* that is null.  Clear gives no such promise: it deletes under its holders, and what they   *)
(* have is stale.                                                                  *)
HeldObjectsAreShared ==
  \A c \in Clients :
    pc[c] \in {"has", "release"} =>
      /\ Has(key[c]) /\ shared_object_map_[key[c]].object = object[c]
      /\ object[c] # nullptr => object[c] \in heap

(* Every object that is not deleted is under exactly one key, or about to be: the search   *)
(* by pointer in Release finds the right entry, and none is lost.                        *)
EveryObjectHasOneKey ==
  /\ \A j, k \in Keys :
       Has(j) /\ Has(k) /\ shared_object_map_[j].object = shared_object_map_[k].object
         => j = k \/ shared_object_map_[k].object = nullptr
  /\ heap = (Stored \cup {object[c] : c \in {d \in Clients : pc[d] = "store"}}) \ {nullptr}

=============================================================================
