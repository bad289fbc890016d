----------------------------- MODULE SessionPool -----------------------------
(***************************************************************************)
(* Concurrent DRAGNN graph runs sharing one ComputeSessionPool.            *)
(*                                                                         *)
(* A run is one session->Run() call on a graph that starts with the        *)
(* GetSession op and ends with the ReleaseSession op.  Between the two it   *)
(* owns a ComputeSession, which it names by a handle <<container, id>> in   *)
(* the TensorFlow ResourceMgr.  Each action below is one step that other    *)
(* runs can interleave with: a critical section of the pool mutex, a call   *)
(* on the ResourceMgr (which has its own mutex), or work on a session the   *)
(* run holds.  One container is modelled: pools of different containers     *)
(* share nothing (PoolCreation.tla models how the pool comes to exist).     *)
(***************************************************************************)
EXTENDS Integers, Sequences, FiniteSets

CONSTANTS
  Runs,          \* the threads that call session->Run()
  None,          \* the handle of a run that holds no session
  Tracing,       \* the graphs that are run: TRUE for one built with tracing
  Monitored,     \* whether a monitoring run asks for GetSessionCounts
  MaxFailures    \* bound: how many runs may fail while they hold a session

ASSUME RunsAssumption == IsFiniteSet(Runs)
ASSUME NoneAssumption == None \notin Nat
ASSUME GraphsAssumption == Tracing \subseteq BOOLEAN /\ Monitored \in BOOLEAN
ASSUME MaxFailuresAssumption == MaxFailures \in Nat

VARIABLES
  pc,                   \* pc[r]: where run r is, in its chain of ops
  traced,               \* traced[r]: the graph of run r has a SetTracing op
  hold,                 \* hold[r]: id of the session run r owns, or None
  pool,                 \* the "pool" resource exists in the ResourceMgr
  sessions_,            \* ComputeSessionPool::sessions_, the idle sessions
  num_unique_sessions_, \* ComputeSessionPool::num_unique_sessions_
  resources,            \* ids with a ComputeSessionResource in the ResourceMgr
  session,              \* the ComputeSessions built so far, by id
  failures,             \* number of runs that failed holding a session
  counts,               \* the GetSessionCounts op of a monitoring run
  peak                  \* history: most runs ever in flight at one time

poolVars == <<pool, sessions_, num_unique_sessions_>>
vars == <<pc, traced, hold, pool, sessions_, num_unique_sessions_, resources,
          session, failures, counts, peak>>

(* The steps of a run, in the order of the chain of ops. *)
Errors == {"already_exists", "not_found", "check_failed"}
Steps == {"idle", "get", "new", "reused", "ready", "open", "tracing", "attached",
          "computed", "found", "deleted"} \cup Errors

(* What of a ComputeSessionImpl the pool can get wrong: whether Init() has   *)
(* run, whose data input_data_ and the components hold, and do_tracing_.     *)
SessionState == [init : BOOLEAN, data : Runs \cup {None}, do_tracing_ : BOOLEAN]
NewSession == [init |-> FALSE, data |-> None, do_tracing_ |-> FALSE]

Ids == 0 .. num_unique_sessions_ - 1
Pooled == {sessions_[n] : n \in 1 .. Len(sessions_)}
InFlight == {r \in Runs : hold[r] # None}
Leaked == {i \in resources : \A r \in Runs : hold[r] # i}
Bigger(a, b) == IF a < b THEN b ELSE a

Init ==
  /\ pc = [r \in Runs |-> "idle"]
  /\ traced = [r \in Runs |-> FALSE]
  /\ hold = [r \in Runs |-> None]
  /\ pool = FALSE
  /\ sessions_ = <<>>
  /\ num_unique_sessions_ = 0
  /\ resources = {}
  /\ session = [i \in Ids |-> NewSession]
  /\ failures = 0
  /\ counts = [pc |-> "idle", unique |-> 0, outstanding |-> 0]
  /\ peak = 0

(***************************************************************************)
(* The GetSession op.                                                      *)
(***************************************************************************)

(* Compute() of GetSession: the pool is looked up, or created empty. *)
GetSessionLookupPool(r) ==
  /\ pc[r] = "idle"
  /\ \E t \in Tracing : traced' = [traced EXCEPT ![r] = t]
  /\ pool' = TRUE
  /\ pc' = [pc EXCEPT ![r] = "get"]
  /\ UNCHANGED <<hold, sessions_, num_unique_sessions_, resources, session,
                 failures, counts, peak>>

(* Mutant: the session is handed out but not popped. *)
PopSessionKeepsIt(r) ==
  /\ pc[r] = "get"
  /\ sessions_ # <<>>
  /\ hold' = [hold EXCEPT ![r] = sessions_[Len(sessions_)]]
  /\ pc' = [pc EXCEPT ![r] = "reused"]
  /\ peak' = Bigger(peak, Cardinality(InFlight) + 1)
  /\ UNCHANGED <<traced, poolVars, resources, session, failures, counts>>

(* ComputeSessionPool::GetSession, inside lock_: an idle session is popped  *)
(* off the back of sessions_.                                               *)
PopSession(r) ==
  /\ pc[r] = "get"
  /\ sessions_ # <<>>
  /\ hold' = [hold EXCEPT ![r] = sessions_[Len(sessions_)]]
  /\ sessions_' = SubSeq(sessions_, 1, Len(sessions_) - 1)
  /\ pc' = [pc EXCEPT ![r] = "reused"]
  /\ peak' = Bigger(peak, Cardinality(InFlight) + 1)
  /\ UNCHANGED <<traced, pool, num_unique_sessions_, resources, session,
                 failures, counts>>

(* ComputeSessionPool::GetSession, inside lock_: when no session is idle,    *)
(* session_builder_ builds one, numbered num_unique_sessions_.               *)
Build(r, unique) ==
  /\ pc[r] = "get"
  /\ hold' = [hold EXCEPT ![r] = num_unique_sessions_]
  /\ num_unique_sessions_' = unique
  /\ session' = [i \in 0 .. num_unique_sessions_ |->
                   IF i = num_unique_sessions_ THEN NewSession ELSE session[i]]
  /\ pc' = [pc EXCEPT ![r] = "new"]
  /\ peak' = Bigger(peak, Cardinality(InFlight) + 1)
  /\ UNCHANGED <<traced, pool, sessions_, resources, failures, counts>>

(* Mutants: idle sessions are not reused; a pool of at most one session makes *)
(* the others wait.                                                          *)
BuildSessionAlways(r) == num_unique_sessions_ < 5 /\ Build(r, num_unique_sessions_ + 1)
BuildSessionCapped(r) ==
  sessions_ = <<>> /\ num_unique_sessions_ = 0 /\ Build(r, 1)

BuildSession(r) == sessions_ = <<>> /\ Build(r, num_unique_sessions_ + 1)

(* ComputeSessionPool::GetSession, after lock_ is released: Init() on a new  *)
(* session.                                                                  *)
InitSession(r) ==
  /\ pc[r] = "new"
  /\ session' = [session EXCEPT ![hold[r]].init = TRUE]
  /\ pc' = [pc EXCEPT ![r] = "ready"]
  /\ UNCHANGED <<traced, hold, poolVars, resources, failures, counts, peak>>

(* Mutant: a reused session is not reset. *)
ResetSessionSkipped(r) ==
  /\ pc[r] = "reused"
  /\ pc' = [pc EXCEPT ![r] = "ready"]
  /\ UNCHANGED <<traced, hold, poolVars, resources, session, failures, counts,
                 peak>>

(* ... or ResetSession() on a reused one: every component is reset and the   *)
(* input data dropped; do_tracing_ is left alone.                            *)
ResetSession(r) ==
  /\ pc[r] = "reused"
  /\ session' = [session EXCEPT ![hold[r]].data = None]
  /\ pc' = [pc EXCEPT ![r] = "ready"]
  /\ UNCHANGED <<traced, hold, poolVars, resources, failures, counts, peak>>

(* rmgr->Create<ComputeSessionResource>(container, id, ...): registers the   *)
(* session under its id.  Create() fails with AlreadyExists when the name is  *)
(* taken: it then destroys the session and the run fails.                    *)
CreateResource(r) ==
  /\ pc[r] = "ready"
  /\ IF hold[r] \in resources
     THEN /\ pc' = [pc EXCEPT ![r] = "already_exists"]
          /\ hold' = [hold EXCEPT ![r] = None]
          /\ UNCHANGED resources
     ELSE /\ pc' = [pc EXCEPT ![r] = "open"]
          /\ resources' = resources \cup {hold[r]}
          /\ UNCHANGED hold
  /\ UNCHANGED <<traced, poolVars, session, failures, counts, peak>>

(***************************************************************************)
(* The ops between GetSession and ReleaseSession.                           *)
(***************************************************************************)

(* ComputeSessionOp::Compute, common to all of them: the handle is looked up; *)
(* the run fails when it is not registered.                                  *)
OpStep(r, next) ==
  pc' = [pc EXCEPT ![r] = IF hold[r] \in resources THEN next ELSE "not_found"]

(* SetTracing(handle, true): only a graph built with tracing has this op. *)
SetTracing(r) ==
  /\ pc[r] = "open" /\ traced[r]
  /\ OpStep(r, "tracing")
  /\ session' = [session EXCEPT ![hold[r]].do_tracing_ = TRUE]
  /\ UNCHANGED <<traced, hold, poolVars, resources, failures, counts, peak>>

(* AttachDataReader: SetInputData() gives the session the run's batch. *)
AttachDataReader(r) ==
  /\ pc[r] = IF traced[r] THEN "tracing" ELSE "open"
  /\ OpStep(r, "attached")
  /\ session' = [session EXCEPT ![hold[r]].data = r]
  /\ UNCHANGED <<traced, hold, poolVars, resources, failures, counts, peak>>

(* The component ops (InitComponentData, AdvanceFrom..., WriteAnnotations,   *)
(* EmitAnnotations, ...) read and write that session, and succeed.           *)
ComponentOps(r) ==
  /\ pc[r] = "attached"
  /\ OpStep(r, "computed")
  /\ UNCHANGED <<traced, hold, poolVars, resources, session, failures, counts,
                 peak>>

(* An op of the run fails (AdvanceFromPrediction reports an Internal error,  *)
(* for one): TensorFlow aborts the run and ReleaseSession is not executed,    *)
(* so the session stays in the ResourceMgr, owned by nobody.                  *)
RunFails(r) ==
  /\ pc[r] \in {"open", "tracing", "attached", "computed"}
  /\ failures < MaxFailures
  /\ failures' = failures + 1
  /\ hold' = [hold EXCEPT ![r] = None]
  /\ pc' = [pc EXCEPT ![r] = "idle"]
  /\ UNCHANGED <<traced, poolVars, resources, session, counts, peak>>

(***************************************************************************)
(* The ReleaseSession op.  TF_CHECK_OK aborts when a lookup fails.          *)
(***************************************************************************)
ReleaseLookup(r) ==
  /\ pc[r] = "computed"
  /\ pc' = [pc EXCEPT ![r] = IF pool /\ hold[r] \in resources
                             THEN "found" ELSE "check_failed"]
  /\ UNCHANGED <<traced, hold, poolVars, resources, session, failures, counts,
                 peak>>

(* Mutant: the resource is not deleted. *)
ReleaseDeleteSkipped(r) ==
  /\ pc[r] = "found"
  /\ pc' = [pc EXCEPT ![r] = "deleted"]
  /\ UNCHANGED <<traced, hold, poolVars, resources, session, failures, counts,
                 peak>>

ReleaseDelete(r) ==
  /\ pc[r] = "found"
  /\ pc' = [pc EXCEPT ![r] = IF hold[r] \in resources
                             THEN "deleted" ELSE "check_failed"]
  /\ resources' = resources \ {hold[r]}
  /\ UNCHANGED <<traced, hold, poolVars, session, failures, counts, peak>>

(* ComputeSessionPool::ReturnSession, inside lock_. *)
ReturnSession(r) ==
  /\ pc[r] = "deleted"
  /\ sessions_' = Append(sessions_, hold[r])
  /\ hold' = [hold EXCEPT ![r] = None]
  /\ pc' = [pc EXCEPT ![r] = "idle"]
  /\ UNCHANGED <<traced, pool, num_unique_sessions_, resources, session,
                 failures, counts, peak>>

(***************************************************************************)
(* The GetSessionCounts op: two accessors, each with its own lock_ section. *)
(***************************************************************************)
CountsLookupPool ==
  /\ Monitored
  /\ counts.pc \in {"idle", "reported"}
  /\ counts' = [pc |-> IF pool THEN "unique" ELSE "reported",
                unique |-> 0, outstanding |-> 0]
  /\ UNCHANGED <<pc, traced, hold, poolVars, resources, session, failures, peak>>

num_unique_sessions ==
  /\ counts.pc = "unique"
  /\ counts' = [counts EXCEPT !.pc = "outstanding",
                              !.unique = num_unique_sessions_]
  /\ UNCHANGED <<pc, traced, hold, poolVars, resources, session, failures, peak>>

num_outstanding_sessions ==
  /\ counts.pc = "outstanding"
  /\ counts' = [counts EXCEPT !.pc = "reported",
                              !.outstanding = num_unique_sessions_ - Len(sessions_)]
  /\ UNCHANGED <<pc, traced, hold, poolVars, resources, session, failures, peak>>

GetSessionCounts ==
  CountsLookupPool \/ num_unique_sessions \/ num_outstanding_sessions

GetSession(r) ==
  \/ PopSession(r) \/ BuildSession(r) \/ InitSession(r) \/ ResetSession(r)
  \/ CreateResource(r)
Compute(r) ==
  SetTracing(r) \/ AttachDataReader(r) \/ ComponentOps(r) \/ RunFails(r)
ReleaseSession(r) == ReleaseLookup(r) \/ ReleaseDelete(r) \/ ReturnSession(r)

(* The steps of a run that has started. *)
Continue(r) == GetSession(r) \/ Compute(r) \/ ReleaseSession(r)

Next ==
  \/ \E r \in Runs : GetSessionLookupPool(r) \/ Continue(r)
  \/ GetSessionCounts

Spec == Init /\ [][Next]_vars

(* TensorFlow's executor keeps scheduling the ops of a started run; nobody   *)
(* promises that another run is ever started or the counts ever asked for.   *)
FairSpec == Spec /\ \A r \in Runs : WF_vars(Continue(r))

-----------------------------------------------------------------------------
(* The types of the variables. *)
TypeOK ==
  /\ pc \in [Runs -> Steps]
  /\ traced \in [Runs -> BOOLEAN]
  /\ num_unique_sessions_ \in Nat
  /\ hold \in [Runs -> Ids \cup {None}]
  /\ pool \in BOOLEAN
  /\ sessions_ \in Seq(Ids)
  /\ resources \in SUBSET Ids
  /\ session \in [Ids -> SessionState]
  /\ failures \in 0 .. MaxFailures
  /\ counts \in [pc : {"idle", "unique", "outstanding", "reported"},
                 unique : Nat, outstanding : Int]
  /\ peak \in Nat

(* The thread safety that GetSession and ReleaseSession promise together: a  *)
(* ComputeSession belongs to one run, or lies in the pool once, or is stuck   *)
(* in the ResourceMgr after a failed run, and never two of these.             *)
SessionExclusive ==
  /\ \A r, s \in InFlight : hold[r] = hold[s] => r = s
  /\ \A m, n \in 1 .. Len(sessions_) : sessions_[m] = sessions_[n] => m = n
  /\ \A r \in InFlight : hold[r] \notin Pooled
  /\ Pooled \cap resources = {}

(* GetSession never meets AlreadyExists when it registers a session, no op   *)
(* misses its handle and no TF_CHECK_OK of ReleaseSession aborts, whatever    *)
(* the interleaving: this is what the Delete-before-ReturnSession order that  *)
(* ReleaseSession's comment calls critical is for.                            *)
NoStepFails == \A r \in Runs : pc[r] \notin Errors

(* A run gets an initialized session without another run's input, and from   *)
(* AttachDataReader to the end computes on its own input only.               *)
OwnDataOnly ==
  \A r \in Runs :
    /\ pc[r] \in {"ready", "open", "tracing"} =>
         session[hold[r]].init /\ session[hold[r]].data = None
    /\ pc[r] \in {"attached", "computed", "found"} => session[hold[r]].data = r

(* "As long as we end with ReleaseSession, then memory usage will be         *)
(* constrained to the maximum number of concurrent requests": beyond that     *)
(* only runs that fail before ReleaseSession cost a session each.             *)
BoundedByConcurrency == num_unique_sessions_ <= peak + failures

(* The inductive invariant behind the properties above: which steps hold a   *)
(* session, which of these have it registered, that an idle session is       *)
(* initialized, and the count that BoundedByConcurrency rests on.            *)
Owning == Steps \ ({"idle", "get"} \cup Errors)
Registered == {"open", "tracing", "attached", "computed", "found"}
StepsAgree ==
  \A r \in Runs :
    /\ hold[r] # None <=> pc[r] \in Owning
    /\ pc[r] # "idle" => pool
    /\ pc[r] \in Registered => hold[r] \in resources
    /\ pc[r] \in Owning \ Registered => hold[r] \notin resources
    /\ pc[r] = "new" => session[hold[r]].data = None
    /\ pc[r] \in Owning \ {"new"} => session[hold[r]].init
PooledReady ==  \A n \in 1 .. Len(sessions_) : session[sessions_[n]].init
Counted ==
  /\ num_unique_sessions_ = Len(sessions_) + Cardinality(InFlight) + failures
  /\ Cardinality(InFlight) <= peak
IndInv ==
  /\ TypeOK /\ SessionExclusive /\ NoStepFails /\ StepsAgree /\ PooledReady
  /\ OwnDataOnly /\ Counted /\ BoundedByConcurrency

(* Every run that asks for a session gets one, and ends: nothing in the      *)
(* chain GetSession ... ReleaseSession waits for another run.                 *)
RunsFinish == \A r \in Runs : (pc[r] # "idle") ~> (pc[r] = "idle")

(* The pool is a session allocator: every step of the ops is an atomic step   *)
(* of the abstract one, or invisible to it.                                   *)
Allocator == INSTANCE SessionAllocator
  WITH free <- Pooled, created <- num_unique_sessions_, lost <- Leaked
ImplementsAllocator == Allocator!Spec
=============================================================================
