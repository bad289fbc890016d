-------------------------- MODULE PoolCreationProofs -------------------------
(***************************************************************************)
(* For any number of runs, kernels and containers: every pool is built from  *)
(* a spec with the base path prepended at most once, and once if it had to   *)
(* be; all runs on a container get the same pool.                            *)
(*                                                                         *)
(* The inductive invariant ties the two pieces of state of a kernel together  *)
(* (the flag has_overwritten_spec_ counts the prefixes of its spec) and        *)
(* follows a pool from create_pool over Create to the runs that got it.       *)
(***************************************************************************)
EXTENDS PoolCreation, TLAPS

(* A pool that looks for its resources where it should. *)
Honoured(p) == p \in Pool /\ p.prefixes <= 1 /\ (p.early => p.prefixes = 1)

Types ==
  /\ pc \in [Runs -> {"idle", "lock", "lookup", "create", "insert", "done"}]
  /\ kernel \in [Runs -> Kernels]
  /\ container \in [Runs -> Containers]
  /\ early \in [Runs -> BOOLEAN]
  /\ made \in [Runs -> Pool \cup {None}]
  /\ got \in [Runs -> Pool \cup {None}]
  /\ has_overwritten_spec_ \in [Kernels -> BOOLEAN]
  /\ prefixes \in [Kernels -> 0 .. 1]
  /\ base \in BOOLEAN
  /\ pools \in [Containers -> Pool \cup {None}]

(* The flag of a kernel tells whether its spec has the prefix; a spec is only   *)
(* rewritten, and a run only early, when there is a base path.                *)
FlagCounts == \A k \in Kernels : prefixes[k] = 1 <=> has_overwritten_spec_[k]
EarlyBase == \A r \in Runs : early[r] => base

MadeHonoured == \A r \in Runs : pc[r] = "insert" => Honoured(made[r])
PoolsHonoured == \A c \in Containers : pools[c] = None \/ Honoured(pools[c])
GotRegistered ==
  \A r \in Runs : pc[r] = "done" => got[r] = pools[container[r]] /\ got[r] # None

IndInv ==
  Types /\ FlagCounts /\ EarlyBase /\ MadeHonoured /\ PoolsHonoured /\ GotRegistered

LEMMA InitIndInv == Init => IndInv
<1> SUFFICES ASSUME Init PROVE IndInv
  OBVIOUS
<1>1. Types
  <2>1. early \in [Runs -> BOOLEAN] /\ has_overwritten_spec_ \in [Kernels -> BOOLEAN]
    BY Zenon DEF Init
  <2>2. /\ prefixes \in [Kernels -> 0 .. 1]
        /\ pc \in [Runs -> {"idle", "lock", "lookup", "create", "insert", "done"}]
    BY DEF Init
  <2>3. /\ made \in [Runs -> Pool \cup {None}] /\ got \in [Runs -> Pool \cup {None}]
        /\ pools \in [Containers -> Pool \cup {None}]
    BY DEF Init
  <2> QED
    BY <2>1, <2>2, <2>3, Zenon DEF Init, Types
<1>2. FlagCounts /\ EarlyBase
  BY DEF Init, FlagCounts, EarlyBase
<1>3. MadeHonoured /\ PoolsHonoured /\ GotRegistered
  BY DEF Init, MadeHonoured, PoolsHonoured, GotRegistered
<1> QED
  BY <1>1, <1>2, <1>3 DEF IndInv

(* create_pool leaves the spec with the prefix iff a base path is registered   *)
(* or was when the spec was rewritten, and builds the pool from that spec.     *)
LEMMA create_poolIndInv ==
  ASSUME IndInv, NEW r \in Runs, create_pool(r)
  PROVE  IndInv'
<1> DEFINE k == kernel[r]
<1>1. k \in Kernels
  BY DEF IndInv, Types
<1>2. /\ has_overwritten_spec_' \in [Kernels -> BOOLEAN]
      /\ prefixes' \in [Kernels -> 0 .. 1]
      /\ FlagCounts'
      /\ base => prefixes'[k] = 1
  <2>1. CASE ~has_overwritten_spec_[k] /\ base
    <3>1. /\ prefixes' = [prefixes EXCEPT ![k] = prefixes[k] + 1]
          /\ has_overwritten_spec_' = [has_overwritten_spec_ EXCEPT ![k] = TRUE]
      BY <2>1 DEF create_pool, RewriteMasterSpec
    <3>2. prefixes[k] = 0
      BY <1>1, <2>1 DEF IndInv, Types, FlagCounts
    <3> QED
      BY <1>1, <3>1, <3>2 DEF IndInv, Types, FlagCounts
  <2>2. CASE ~(~has_overwritten_spec_[k] /\ base)
    <3>1. UNCHANGED <<prefixes, has_overwritten_spec_>>
      BY <2>2 DEF create_pool, specVars
    <3> QED
      BY <1>1, <2>2, <3>1 DEF IndInv, Types, FlagCounts
  <2> QED
    BY <2>1, <2>2
<1>3. /\ made' = [made EXCEPT ![r] = [by |-> r, prefixes |-> prefixes'[k], early |-> early[r]]]
      /\ pc' = [pc EXCEPT ![r] = "insert"]
      /\ UNCHANGED <<kernel, container, early, got, base, pools>>
  BY DEF create_pool, BuildPool, runVars
<1>4. Honoured(made'[r])
  <2>1. made'[r] = [by |-> r, prefixes |-> prefixes'[k], early |-> early[r]]
    BY <1>3 DEF IndInv, Types
  <2>2. prefixes'[k] \in 0 .. 1 /\ early[r] \in BOOLEAN /\ (early[r] => prefixes'[k] = 1)
    BY <1>1, <1>2 DEF IndInv, Types, EarlyBase
  <2> QED
    BY <2>1, <2>2 DEF Honoured, Pool
<1>5. Types'
  BY <1>2, <1>3, <1>4 DEF IndInv, Types, Honoured
<1>6. MadeHonoured'
  BY <1>3, <1>4 DEF IndInv, Types, MadeHonoured
<1>7. EarlyBase' /\ PoolsHonoured' /\ GotRegistered'
  BY <1>3 DEF IndInv, Types, EarlyBase, PoolsHonoured, GotRegistered
<1> QED
  BY <1>2, <1>5, <1>6, <1>7 DEF IndInv

(* Create registers the pool only where there was none, so that no run that    *)
(* has got a pool sees another one in its place.                             *)
LEMMA InsertPoolIndInv ==
  ASSUME IndInv, NEW r \in Runs, InsertPool(r)
  PROVE  IndInv'
<1> DEFINE c == container[r]
<1>1. /\ c \in Containers /\ Honoured(made[r]) /\ made[r] # None
  BY NoneAssumption DEF IndInv, Types, MadeHonoured, Honoured, InsertPool
<1>2. /\ made' = [made EXCEPT ![r] = None]
      /\ UNCHANGED <<kernel, container, early, has_overwritten_spec_, prefixes, base>>
  BY DEF InsertPool, runVars, specVars
<1>3. FlagCounts' /\ EarlyBase'
  BY <1>2 DEF IndInv, FlagCounts, EarlyBase
<1>4. CASE pools[c] = None
  <2>1. /\ pools' = [pools EXCEPT ![c] = made[r]]
        /\ got' = [got EXCEPT ![r] = made[r]]
        /\ pc' = [pc EXCEPT ![r] = "done"]
    BY <1>4 DEF InsertPool, ReturnPool
  <2>2. Types'
    BY <1>1, <1>2, <2>1 DEF IndInv, Types, Honoured
  <2>3. MadeHonoured' /\ PoolsHonoured'
    BY <1>1, <1>2, <2>1 DEF IndInv, Types, MadeHonoured, PoolsHonoured
  <2>4. GotRegistered'
    BY <1>1, <1>2, <1>4, <2>1 DEF IndInv, Types, GotRegistered
  <2> QED
    BY <1>3, <2>2, <2>3, <2>4 DEF IndInv
<1>5. CASE pools[c] # None
  <2>1. pc' = [pc EXCEPT ![r] = "lookup"] /\ UNCHANGED <<got, pools>>
    BY <1>5 DEF InsertPool
  <2>2. Types' /\ MadeHonoured' /\ PoolsHonoured' /\ GotRegistered'
    BY SMTT(60), <1>2, <2>1 DEF IndInv, Types, MadeHonoured, PoolsHonoured, GotRegistered
  <2> QED
    BY <1>3, <2>2 DEF IndInv
<1> QED
  BY <1>4, <1>5

LEMMA NextIndInv == IndInv /\ [Next]_vars => IndInv'
<1> SUFFICES ASSUME IndInv, [Next]_vars PROVE IndInv'
  OBVIOUS
<1> USE DEF IndInv, Types, FlagCounts, EarlyBase, MadeHonoured, PoolsHonoured, GotRegistered
<1>1. CASE SetAssetDirectory
  BY <1>1 DEF SetAssetDirectory, runVars, specVars
<1>2. ASSUME NEW r \in Runs, Start(r) PROVE IndInv'
  BY <1>2 DEF Start, specVars
<1>3. ASSUME NEW r \in Runs, Lock(r) PROVE IndInv'
  BY <1>3 DEF Lock, runVars, specVars
<1>4. ASSUME NEW r \in Runs, LookupPool(r) PROVE IndInv'
  BY <1>4 DEF LookupPool, ReturnPool, runVars, specVars
<1>5. ASSUME NEW r \in Runs, Finish(r) PROVE IndInv'
  BY <1>5 DEF Finish, runVars, specVars
<1>6. CASE UNCHANGED vars
  BY <1>6 DEF vars
<1> QED
  BY <1>1, <1>2, <1>3, <1>4, <1>5, <1>6, create_poolIndInv, InsertPoolIndInv
  DEF Next, LookupOrCreate

(* The inductive invariant holds in every behaviour. *)
THEOREM CreationInvariant == Spec => []IndInv
BY InitIndInv, NextIndInv, PTL DEF Spec

(* However many kernels, each with its own copy of the MasterSpec, create pools *)
(* for however many containers: no pool is built from a spec that              *)
(* RewriteMasterSpec has changed twice, and one built by a run that started     *)
(* after SetAssetDirectory is built from a spec that it has changed.           *)
THEOREM PoolsHonourAssets == Spec => []AssetsHonoured
<1>1. IndInv => AssetsHonoured
  BY DEF IndInv, PoolsHonoured, Honoured, AssetsHonoured
<1> QED
  BY <1>1, CreationInvariant, PTL

(* All runs that LookupOrCreate has given a pool of a container have the one   *)
(* that is registered there, whichever kernels raced to create it.            *)
THEOREM RunsShareThePool == Spec => []OnePoolPerContainer
<1>1. IndInv => OnePoolPerContainer
  BY DEF IndInv, GotRegistered, OnePoolPerContainer
<1> QED
  BY <1>1, CreationInvariant, PTL
=============================================================================
