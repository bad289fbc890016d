---------------------------- MODULE PoolCreation -----------------------------
(***************************************************************************)
(* How GetSession finds or creates the ComputeSessionPool of a container,   *)
(* and with which MasterSpec.                                               *)
(*                                                                         *)
(* Every graph (training, annotation, ...) has a GetSession kernel of its    *)
(* own, with its own copy of the MasterSpec and its own lock_; graphs built   *)
(* by one MasterBuilder name the same container, and one kernel may be run    *)
(* with several containers.  So runs of one kernel exclude each other here,   *)
(* but runs of different kernels race to create the same pool.               *)
(***************************************************************************)
EXTENDS Integers, FiniteSets

CONSTANTS
  Runs,        \* threads that execute a GetSession op
  Kernels,     \* GetSession kernels, one per graph
  Containers,  \* ResourceMgr containers
  None

(* A pool: the run that built it, how often a base path was prepended in the *)
(* spec it was built from, and whether the asset base was registered when    *)
(* that run started.                                                        *)
Pool == [by : Runs, prefixes : Nat, early : BOOLEAN]
ASSUME NoneAssumption == None \notin Pool

VARIABLES
  pc,          \* pc[r]: where run r is in GetSession::Compute
  kernel,      \* kernel[r]: the kernel run r executes
  container,   \* container[r]: its input
  early,       \* early[r]: the asset base was registered when r started
  made,        \* made[r]: the pool r has built and not yet registered
  got,         \* got[r]: the pool LookupOrCreate returned to r
  lock_,       \* lock_[k]: the run that holds the mutex of kernel k
  has_overwritten_spec_,  \* of kernel k
  prefixes,    \* how often a base path was prepended in master_spec_ of k
  base,        \* kBasePathTag is registered in kGlobalContainer
  pools        \* pools[c]: the "pool" resource of container c, or None

vars == <<pc, kernel, container, early, made, got, lock_, has_overwritten_spec_,
          prefixes, base, pools>>
runVars == <<kernel, container, early>>
specVars == <<has_overwritten_spec_, prefixes>>

Init ==
  /\ pc = [r \in Runs |-> "idle"]
  /\ kernel \in [Runs -> Kernels]
  /\ container \in [Runs -> Containers]
  /\ early = [r \in Runs |-> FALSE]
  /\ made = [r \in Runs |-> None]
  /\ got = [r \in Runs |-> None]
  /\ lock_ = [k \in Kernels |-> None]
  /\ has_overwritten_spec_ = [k \in Kernels |-> FALSE]
  /\ prefixes = [k \in Kernels |-> 0]
  /\ base = FALSE
  /\ pools = [c \in Containers |-> None]

(* The SetAssetDirectory op of a restored SavedModel.  Create() fails when   *)
(* the tag exists already, and leaves it as it was.                          *)
SetAssetDirectory ==
  /\ base' = TRUE
  /\ UNCHANGED <<pc, runVars, made, got, lock_, specVars, pools>>

(* A run reaches its GetSession op. *)
Start(r) ==
  /\ pc[r] = "idle"
  /\ \E k \in Kernels, c \in Containers :
       /\ kernel' = [kernel EXCEPT ![r] = k]
       /\ container' = [container EXCEPT ![r] = c]
  /\ early' = [early EXCEPT ![r] = base]
  /\ pc' = [pc EXCEPT ![r] = "lock"]
  /\ UNCHANGED <<made, got, lock_, specVars, base, pools>>

(* mutex_lock lock(lock_). *)
Lock(r) ==
  /\ pc[r] = "lock"
  /\ lock_[kernel[r]] = None
  /\ lock_' = [lock_ EXCEPT ![kernel[r]] = r]
  /\ pc' = [pc EXCEPT ![r] = "lookup"]
  /\ UNCHANGED <<runVars, made, got, specVars, base, pools>>

(* LookupOrCreate returns pool p: the mutex goes out of scope. *)
ReturnPool(r, p) ==
  /\ got' = [got EXCEPT ![r] = p]
  /\ lock_' = [lock_ EXCEPT ![kernel[r]] = None]
  /\ pc' = [pc EXCEPT ![r] = "done"]

(* LookupOrCreate, top of the loop: Lookup(container, "pool"). *)
LookupPool(r) ==
  /\ pc[r] = "lookup"
  /\ LET p == pools[container[r]]
     IN  IF p # None
         THEN ReturnPool(r, p)
         ELSE pc' = [pc EXCEPT ![r] = "create"] /\ UNCHANGED <<got, lock_>>
  /\ UNCHANGED <<runVars, made, specVars, base, pools>>

(* RewriteMasterSpec: the base path is prepended to every file pattern. *)
RewriteMasterSpec(k) ==
  /\ prefixes' = [prefixes EXCEPT ![k] = @ + 1]
  /\ has_overwritten_spec_' = [has_overwritten_spec_ EXCEPT ![k] = TRUE]

(* LookupOrCreate calls create_pool: the spec is rewritten if a base path is  *)
(* registered and this kernel has not rewritten its spec before; then the     *)
(* pool is built from the spec.                                              *)
BuildPool(r) ==
  /\ made' = [made EXCEPT ![r] = [by |-> r, prefixes |-> prefixes'[kernel[r]],
                                  early |-> early[r]]]
  /\ pc' = [pc EXCEPT ![r] = "insert"]
  /\ UNCHANGED <<runVars, got, lock_, base, pools>>

(* Mutant: the spec is rewritten for every pool. *)
create_poolAlwaysRewrites(r) ==
  /\ pc[r] = "create"
  /\ IF base THEN RewriteMasterSpec(kernel[r]) ELSE UNCHANGED specVars
  /\ BuildPool(r)

create_pool(r) ==
  /\ pc[r] = "create"
  /\ IF ~has_overwritten_spec_[kernel[r]] /\ base
     THEN RewriteMasterSpec(kernel[r])
     ELSE UNCHANGED specVars
  /\ BuildPool(r)

(* Mutants: a lost race returns the run's own pool; it builds another pool. *)
InsertPoolKeepsOwn(r) ==
  /\ pc[r] = "insert"
  /\ ReturnPool(r, made[r])
  /\ pools' = [pools EXCEPT ![container[r]] = IF @ = None THEN made[r] ELSE @]
  /\ made' = [made EXCEPT ![r] = None]
  /\ UNCHANGED <<runVars, specVars, base>>
InsertPoolRebuilds(r) ==
  /\ pc[r] = "insert"
  /\ made' = [made EXCEPT ![r] = None]
  /\ IF pools[container[r]] = None
     THEN ReturnPool(r, made[r]) /\ pools' = [pools EXCEPT ![container[r]] = made[r]]
     ELSE pc' = [pc EXCEPT ![r] = "create"] /\ UNCHANGED <<got, lock_, pools>>
  /\ UNCHANGED <<runVars, specVars, base>>

(* LookupOrCreate, end of the loop: Create(container, "pool").  When another  *)
(* kernel has registered a pool meanwhile, this one is destroyed and the      *)
(* lookup redone.                                                            *)
InsertPool(r) ==
  /\ pc[r] = "insert"
  /\ made' = [made EXCEPT ![r] = None]
  /\ IF pools[container[r]] = None
     THEN ReturnPool(r, made[r]) /\ pools' = [pools EXCEPT ![container[r]] = made[r]]
     ELSE pc' = [pc EXCEPT ![r] = "lookup"] /\ UNCHANGED <<got, lock_, pools>>
  /\ UNCHANGED <<runVars, specVars, base>>

(* The rest of the run (SessionPool.tla); afterwards it may run again. *)
Finish(r) ==
  /\ pc[r] = "done"
  /\ pc' = [pc EXCEPT ![r] = "idle"]
  /\ got' = [got EXCEPT ![r] = None]
  /\ UNCHANGED <<runVars, made, lock_, specVars, base, pools>>

LookupOrCreate(r) == LookupPool(r) \/ create_pool(r) \/ InsertPool(r)

Next ==
  \/ SetAssetDirectory
  \/ \E r \in Runs : Start(r) \/ Lock(r) \/ LookupOrCreate(r) \/ Finish(r)

(* A run that holds the mutex keeps running; nothing is assumed of the order  *)
(* in which the mutex is granted.                                            *)
Spec == Init /\ [][Next]_vars /\ \A r \in Runs : WF_vars(LookupOrCreate(r))

-----------------------------------------------------------------------------
(* A pool created by a run that started after SetAssetDirectory looks for    *)
(* its resources under the asset directory.  RewriteMasterSpec changes a      *)
(* kernel's spec in place, but however many containers one kernel creates     *)
(* pools for, none is built from a spec with the base path prepended twice.   *)
AssetsHonoured ==
  \A c \in Containers :
    pools[c] # None => /\ pools[c].prefixes <= 1
                       /\ pools[c].early => pools[c].prefixes = 1

(* All runs on a container share one pool, whichever kernel created it, and  *)
(* a lost creation race is not visible.                                      *)
OnePoolPerContainer ==
  \A r \in Runs : pc[r] = "done" => got[r] = pools[container[r]]

(* The redo-the-lookup loop ends: a kernel's mutex is always given up again. *)
LockReleased == \A k \in Kernels : (lock_[k] # None) ~> (lock_[k] = None)
=============================================================================
