-------------------------- MODULE SessionPoolProofs --------------------------
(***************************************************************************)
(* Proofs about SessionPool, for any finite set of runs and any number of   *)
(* failures: the properties the TLC runs check on two runs follow from    *)
(* the inductive invariant IndInv.                                          *)
(***************************************************************************)
EXTENDS SessionPool, FiniteSetTheorems, SequenceTheorems, TLAPS

(* The runs in flight are finitely many, and a run that starts or stops to   *)
(* hold a session changes their number by one.                               *)
LEMMA InFlightCount ==
  ASSUME NEW r \in Runs, TypeOK
  PROVE  /\ Cardinality(InFlight) \in Nat
         /\ hold' = hold => Cardinality(InFlight') = Cardinality(InFlight)
         /\ \A i \in Nat : hold[r] = None /\ hold' = [hold EXCEPT ![r] = i] =>
              Cardinality(InFlight') = Cardinality(InFlight) + 1
         /\ hold[r] # None /\ hold' = [hold EXCEPT ![r] = None] =>
              Cardinality(InFlight') = Cardinality(InFlight) - 1
<1>1. IsFiniteSet(InFlight)
  BY RunsAssumption, FS_Subset DEF InFlight
<1>2. Cardinality(InFlight) \in Nat
  BY <1>1, FS_CardinalityType
<1>3. hold' = hold => InFlight' = InFlight
  BY DEF InFlight
<1>4. \A i \in Nat : hold[r] = None /\ hold' = [hold EXCEPT ![r] = i] =>
        InFlight' = InFlight \cup {r} /\ r \notin InFlight
  BY NoneAssumption DEF TypeOK, InFlight
<1>5. hold[r] # None /\ hold' = [hold EXCEPT ![r] = None] =>
        InFlight' = InFlight \ {r} /\ r \in InFlight
  BY DEF TypeOK, InFlight
<1> QED
  BY <1>1, <1>2, <1>3, <1>4, <1>5, FS_AddElement, FS_RemoveElement

(* IndInv holds before the first run. *)
LEMMA InitIndInv == Init => IndInv
<1> SUFFICES ASSUME Init PROVE IndInv
  OBVIOUS
<1> USE DEF Init, Ids
<1>1. TypeOK
  <2>1. session \in [Ids -> SessionState]
    BY DEF SessionState, NewSession
  <2>2. sessions_ \in Seq(Ids) /\ failures \in 0 .. MaxFailures
    BY MaxFailuresAssumption
  <2>3. counts \in [pc : {"idle", "unique", "outstanding", "reported"},
                   unique : Nat, outstanding : Int]
    OBVIOUS
  <2>4. pc \in [Runs -> Steps]
    BY DEF Steps
  <2> QED
    BY Zenon, <2>1, <2>2, <2>3, <2>4 DEF TypeOK
<1>2. InFlight = {} /\ Cardinality(InFlight) = 0
  BY Zenon, FS_EmptySet DEF InFlight
<1>3. SessionExclusive /\ NoStepFails /\ StepsAgree /\ PooledReady /\ OwnDataOnly
  BY DEF SessionExclusive, NoStepFails, StepsAgree, PooledReady, OwnDataOnly,
         InFlight, Pooled, Owning, Registered, Steps, Errors
<1>4. Counted /\ BoundedByConcurrency
  BY <1>2, MaxFailuresAssumption DEF Counted, BoundedByConcurrency
<1> QED
  BY <1>1, <1>3, <1>4 DEF IndInv
(* What popping the last element of a sequence leaves. *)
LEMMA PopFacts ==
  ASSUME NEW S, NEW s \in Seq(S), s # <<>>
  PROVE  LET t == SubSeq(s, 1, Len(s) - 1)
         IN  /\ Len(s) \in Nat \ {0} /\ s[Len(s)] \in S
             /\ t \in Seq(S) /\ Len(t) = Len(s) - 1
             /\ \A n \in 1 .. Len(t) : t[n] = s[n]
<1> DEFINE t == SubSeq(s, 1, Len(s) - 1)
<1>1. Len(s) \in Nat /\ s \in [1 .. Len(s) -> S]
  OBVIOUS
<1>2. Len(s) # 0
  BY EmptySeq
<1>3. t \in Seq(S) /\ Len(t) = Len(s) - 1
  BY <1>1, <1>2, SubSeqProperties
<1>4. \A n \in 1 .. Len(t) : t[n] = s[n]
  BY <1>1, <1>2, <1>3, SubSeqProperties
<1> QED
  BY <1>1, <1>2, <1>3, <1>4

(* A step of one run on the session it holds: the run moves on to step p,    *)
(* the session's state becomes st and the handle is registered exactly in    *)
(* the steps where it should be.  Such a step preserves IndInv if st is what  *)
(* a session in step p may look like.                                        *)
LEMMA OwnStep ==
  ASSUME IndInv,
         NEW r \in Runs, pc[r] \in Owning,
         NEW p \in Owning \ {"new"}, pc' = [pc EXCEPT ![r] = p],
         NEW st \in SessionState, session' = [session EXCEPT ![hold[r]] = st],
         resources' = IF p \in Registered THEN resources \cup {hold[r]}
                                          ELSE resources \ {hold[r]},
         UNCHANGED <<traced, hold, pool, sessions_, num_unique_sessions_,
                     failures, counts, peak>>,
         st.init,
         p \in {"ready", "open", "tracing"} => st.data = None,
         p \in {"attached", "computed", "found"} => st.data = r
  PROVE  IndInv'
<1> USE DEF IndInv
<1>1. /\ hold[r] \in Ids /\ hold[r] # None
      /\ \A q \in Runs \ {r} : hold[q] # hold[r]
      /\ \A m \in 1 .. Len(sessions_) : sessions_[m] # hold[r]
  BY DEF StepsAgree, TypeOK, SessionExclusive, InFlight, Pooled
<1>2. /\ pc'[r] = p /\ session'[hold[r]] = st
      /\ \A q \in Runs \ {r} : pc'[q] = pc[q]
      /\ \A i \in Ids \ {hold[r]} : session'[i] = session[i]
  BY <1>1 DEF TypeOK
<1>3. TypeOK'
  BY Zenon, <1>1 DEF TypeOK, Ids, Owning, Steps
<1>4. SessionExclusive'
  BY <1>1 DEF SessionExclusive, InFlight, Pooled
<1>5. NoStepFails'
  BY <1>2 DEF NoStepFails, Owning, Steps, Errors
<1>6. \A q \in Runs \ {r} : hold[q] # None => session'[hold[q]] = session[hold[q]]
  BY <1>1, <1>2, SMTT(60) DEF TypeOK
<1>7. StepsAgree'
  <2> SUFFICES ASSUME NEW q \in Runs PROVE StepsAgree!(q)'
    BY DEF StepsAgree
  <2>1. CASE q = r
    BY <1>1, <1>2, <2>1, SMTT(60) DEF StepsAgree, Owning, Steps
  <2>2. CASE q # r
    BY <1>1, <1>2, <1>6, <2>2, SMTT(60) DEF StepsAgree, Owning, Registered, Steps, Errors
  <2> QED
    BY <2>1, <2>2, SMTT(60)
<1>8. PooledReady'
  BY <1>1, <1>2 DEF PooledReady, TypeOK
<1>9. OwnDataOnly'
  <2>1. \A q \in Runs \ {r} : pc[q] \in Owning => session'[hold[q]] = session[hold[q]]
    BY <1>6 DEF StepsAgree
  <2> QED
    BY <1>2, <2>1 DEF OwnDataOnly, Owning, Steps, Errors
<1>10. Counted' /\ BoundedByConcurrency'
  BY SMTT(60) DEF Counted, BoundedByConcurrency, InFlight
<1> QED
  BY <1>3, <1>4, <1>5, <1>7, <1>8, <1>9, <1>10, SMTT(60)

(* Every step of the ops preserves IndInv. *)
LEMMA NextIndInv == IndInv /\ [Next]_vars => IndInv'
<1> SUFFICES ASSUME IndInv, [Next]_vars PROVE IndInv'
  OBVIOUS
<1> USE DEF IndInv
<1> USE NoneAssumption
<1>1. ASSUME NEW r \in Runs, GetSessionLookupPool(r) PROVE IndInv'
  <2> USE <1>1 DEF GetSessionLookupPool
  <2>1. TypeOK'
    BY GraphsAssumption DEF TypeOK, Ids, Steps
  <2>2. SessionExclusive' /\ PooledReady' /\ Counted' /\ BoundedByConcurrency'
    BY DEF SessionExclusive, PooledReady, Counted, BoundedByConcurrency, InFlight,
           Pooled
  <2>3. NoStepFails' /\ OwnDataOnly'
    BY DEF NoStepFails, OwnDataOnly, TypeOK, Errors
  <2>4. StepsAgree'
    BY DEF StepsAgree, TypeOK, Owning, Registered, Steps, Errors
  <2> QED
    BY <2>1, <2>2, <2>3, <2>4
<1>2. ASSUME NEW r \in Runs, PopSession(r) PROVE IndInv'
  <2> DEFINE i == sessions_[Len(sessions_)]
  <2>1. /\ Len(sessions_) \in Nat \ {0} /\ i \in Ids
        /\ sessions_' \in Seq(Ids) /\ Len(sessions_') = Len(sessions_) - 1
        /\ \A m \in 1 .. Len(sessions_') : sessions_'[m] = sessions_[m]
    <3>1. sessions_ \in Seq(Ids) /\ sessions_ # <<>>
      BY <1>2 DEF TypeOK, PopSession
    <3>2. sessions_' = SubSeq(sessions_, 1, Len(sessions_) - 1)
      BY <1>2 DEF PopSession
    <3> QED
      BY ONLY <3>1, <3>2, PopFacts
  <2>2. i \in Nat /\ i # None /\ hold[r] = None
    BY <1>2, <2>1 DEF Ids, TypeOK, PopSession, StepsAgree, Owning, Steps
  <2>3. i \notin resources /\ session[i].init /\ \A q \in Runs : hold[q] # i
    BY <2>1, <2>2 DEF SessionExclusive, PooledReady, InFlight, Pooled
  <2>4. \A m \in 1 .. Len(sessions_') : sessions_'[m] # i
    BY <2>1 DEF SessionExclusive
  <2>5. /\ Cardinality(InFlight) \in Nat
        /\ Cardinality(InFlight') = Cardinality(InFlight) + 1
    BY Zenon, <1>2, <2>2, InFlightCount DEF PopSession
  <2>6. /\ pc[r] = "get" /\ pc' = [pc EXCEPT ![r] = "reused"]
        /\ hold' = [hold EXCEPT ![r] = i]
        /\ peak' = Bigger(peak, Cardinality(InFlight) + 1)
        /\ UNCHANGED <<traced, pool, num_unique_sessions_, resources, session,
                       failures, counts>>
    BY <1>2 DEF PopSession
  <2> HIDE DEF i
  <2>7. TypeOK'
    BY SMTT(60), <2>1, <2>5, <2>6 DEF TypeOK, Ids, Steps, Bigger
  <2>8. SessionExclusive'
    BY SMTT(60), <2>1, <2>2, <2>3, <2>4, <2>6 DEF SessionExclusive, TypeOK, InFlight, Pooled
  <2>9. NoStepFails' /\ PooledReady'
    BY SMTT(60), <2>1, <2>6 DEF NoStepFails, PooledReady, TypeOK, Errors
  <2>10. StepsAgree'
    BY <2>2, <2>3, <2>6, SMTT(60) DEF StepsAgree, TypeOK, Owning, Registered, Steps, Errors
  <2>11. OwnDataOnly'
    BY <2>6 DEF OwnDataOnly, TypeOK
  <2>12. Counted' /\ BoundedByConcurrency'
    <3>1. peak <= peak' /\ Cardinality(InFlight) + 1 <= peak'
      BY <2>5, <2>6 DEF TypeOK, Bigger
    <3>2. peak \in Nat /\ peak' \in Nat /\ failures \in Nat /\ num_unique_sessions_ \in Nat
      BY <2>7, MaxFailuresAssumption DEF TypeOK
    <3> QED
      BY SMTT(60), <2>1, <2>5, <2>6, <3>1, <3>2 DEF Counted, BoundedByConcurrency
  <2> QED
    BY <2>7, <2>8, <2>9, <2>10, <2>11, <2>12
<1>3. ASSUME NEW r \in Runs, BuildSession(r) PROVE IndInv'
  <2> DEFINE i == num_unique_sessions_
  <2>1. Ids' = Ids \cup {i} /\ i \notin Ids /\ i \in Nat
    BY <1>3 DEF BuildSession, Build, TypeOK, Ids
  <2>2. /\ pc[r] = "get" /\ pc' = [pc EXCEPT ![r] = "new"]
        /\ hold' = [hold EXCEPT ![r] = i]
        /\ peak' = Bigger(peak, Cardinality(InFlight) + 1)
        /\ num_unique_sessions_' = i + 1
        /\ sessions_ = <<>> /\ sessions_' = <<>>
        /\ UNCHANGED <<traced, pool, resources, failures, counts>>
    BY <1>3 DEF BuildSession, Build
  <2>3. /\ session' \in [Ids' -> SessionState]
        /\ session'[i] = NewSession
        /\ \A k \in Ids : session'[k] = session[k]
    <3>1. session' = [k \in Ids' |-> IF k = i THEN NewSession ELSE session[k]]
      BY <1>3 DEF BuildSession, Build, TypeOK, Ids
    <3>2. NewSession \in SessionState
      BY DEF NewSession, SessionState
    <3> QED
      BY <2>1, <3>1, <3>2 DEF TypeOK
  <2>4. hold[r] = None /\ i # None /\ i \notin resources /\ \A q \in Runs : hold[q] # i
    BY <2>1, <2>2 DEF StepsAgree, TypeOK, Owning, Steps
  <2>5. /\ Cardinality(InFlight) \in Nat
        /\ Cardinality(InFlight') = Cardinality(InFlight) + 1
    BY Zenon, <2>1, <2>2, <2>4, InFlightCount
  <2>6. Len(sessions_) = 0 /\ Len(sessions_') = 0 /\ sessions_' \in Seq(Ids')
    BY <2>2
  <2>7. TypeOK'
    BY <2>1, <2>2, <2>3, <2>5, <2>6, SMTT(60) DEF TypeOK, Steps, Bigger
  <2>8. SessionExclusive' /\ PooledReady'
    BY SMTT(60), <2>2, <2>4, <2>6 DEF SessionExclusive, PooledReady, TypeOK, InFlight, Pooled
  <2>9. NoStepFails'
    BY <2>2, SMTT(60) DEF NoStepFails, TypeOK, Errors
  <2>10. StepsAgree'
    <3>1. NewSession.data = None
      BY DEF NewSession
    <3>2. \A q \in Runs \ {r} : hold'[q] = hold[q] /\ pc'[q] = pc[q]
      BY <2>2 DEF TypeOK
    <3>3. \A q \in Runs : hold[q] # None => session'[hold[q]] = session[hold[q]]
      BY <2>3 DEF TypeOK
    <3> QED
      BY SMTT(60), <2>2, <2>3, <2>4, <3>1, <3>2, <3>3
      DEF StepsAgree, TypeOK, Owning, Registered, Steps, Errors
  <2>11. OwnDataOnly'
    <3>1. \A q \in Runs \ {r} : hold'[q] = hold[q] /\ pc'[q] = pc[q]
      BY <2>2 DEF TypeOK
    <3>2. \A q \in Runs : pc[q] \in Owning => session'[hold[q]] = session[hold[q]]
      BY <2>3 DEF TypeOK, StepsAgree
    <3>3. pc'[r] = "new"
      BY <2>2 DEF TypeOK
    <3> QED
      BY <3>1, <3>2, <3>3, SMTT(60) DEF OwnDataOnly, Owning, Steps, Errors
  <2>12. Counted' /\ BoundedByConcurrency'
    BY SMTT(60), <2>1, <2>2, <2>5, <2>6, MaxFailuresAssumption
    DEF Counted, BoundedByConcurrency, TypeOK, Bigger
  <2> QED
    BY <2>7, <2>8, <2>9, <2>10, <2>11, <2>12
<1>4. ASSUME NEW r \in Runs, InitSession(r) PROVE IndInv'
  <2> DEFINE st == [session[hold[r]] EXCEPT !.init = TRUE]
  <2>1. /\ pc[r] \in Owning
        /\ hold[r] \in Ids /\ session[hold[r]] \in SessionState
        /\ hold[r] \notin resources
    BY <1>4 DEF InitSession, StepsAgree, TypeOK, Owning, Registered, Steps, Errors
  <2>2. st \in SessionState /\ st.init /\ st.data = None
    BY Zenon, <1>4, <2>1
    DEF InitSession, StepsAgree, OwnDataOnly, SessionState, Owning, Steps, Errors
  <2>3. /\ pc' = [pc EXCEPT ![r] = "ready"]
        /\ session' = [session EXCEPT ![hold[r]] = st]
        /\ resources' = resources
        /\ UNCHANGED <<traced, hold, pool, sessions_, num_unique_sessions_,
                       failures, counts, peak>>
    BY <1>4, <2>1 DEF InitSession, poolVars, TypeOK
  <2>4. /\ "ready" \in Owning \ {"new"}
        /\ resources' = IF "ready" \in Registered THEN resources \cup {hold[r]}
                                             ELSE resources \ {hold[r]}
    BY <2>1, <2>3, SMTT(60) DEF Owning, Registered, Steps, Errors
  <2> HIDE DEF st, IndInv
  <2> QED
    BY Zenon, <2>1, <2>2, <2>3, <2>4, OwnStep
<1>5. ASSUME NEW r \in Runs, ResetSession(r) PROVE IndInv'
  <2> DEFINE st == [session[hold[r]] EXCEPT !.data = None]
  <2>1. /\ pc[r] \in Owning
        /\ hold[r] \in Ids /\ session[hold[r]] \in SessionState
        /\ hold[r] \notin resources
    BY <1>5 DEF ResetSession, StepsAgree, TypeOK, Owning, Registered, Steps, Errors
  <2>2. st \in SessionState /\ st.init /\ st.data = None
    BY <1>5, <2>1
    DEF ResetSession, StepsAgree, OwnDataOnly, SessionState, Owning, Steps, Errors
  <2>3. /\ pc' = [pc EXCEPT ![r] = "ready"]
        /\ session' = [session EXCEPT ![hold[r]] = st]
        /\ resources' = resources
        /\ UNCHANGED <<traced, hold, pool, sessions_, num_unique_sessions_,
                       failures, counts, peak>>
    BY <1>5, <2>1 DEF ResetSession, poolVars, TypeOK
  <2>4. /\ "ready" \in Owning \ {"new"}
        /\ resources' = IF "ready" \in Registered THEN resources \cup {hold[r]}
                                             ELSE resources \ {hold[r]}
    BY <2>1, <2>3 DEF Owning, Registered, Steps, Errors
  <2> HIDE DEF st, IndInv
  <2> QED
    BY Zenon, <2>1, <2>2, <2>3, <2>4, OwnStep
<1>6. ASSUME NEW r \in Runs, CreateResource(r) PROVE IndInv'
  <2> DEFINE st == session[hold[r]]
  <2>1. /\ pc[r] \in Owning
        /\ hold[r] \in Ids /\ session[hold[r]] \in SessionState
        /\ hold[r] \notin resources
    BY <1>6, SMTT(60) DEF CreateResource, StepsAgree, TypeOK, Owning, Registered, Steps, Errors
  <2>2. st \in SessionState /\ st.init /\ st.data = None
    BY <1>6, <2>1, SMTT(60)
    DEF CreateResource, StepsAgree, OwnDataOnly, SessionState, Owning, Steps, Errors
  <2>3. /\ pc' = [pc EXCEPT ![r] = "open"]
        /\ session' = [session EXCEPT ![hold[r]] = st]
        /\ resources' = resources \cup {hold[r]}
        /\ UNCHANGED <<traced, hold, pool, sessions_, num_unique_sessions_,
                       failures, counts, peak>>
    BY <1>6, <2>1 DEF CreateResource, poolVars, TypeOK
  <2>4. /\ "open" \in Owning \ {"new"}
        /\ resources' = IF "open" \in Registered THEN resources \cup {hold[r]}
                                             ELSE resources \ {hold[r]}
    BY <2>1, <2>3 DEF Owning, Registered, Steps, Errors
  <2> HIDE DEF st, IndInv
  <2> QED
    BY Zenon, <2>1, <2>2, <2>3, <2>4, OwnStep
<1>7. ASSUME NEW r \in Runs, SetTracing(r) PROVE IndInv'
  <2> DEFINE st == [session[hold[r]] EXCEPT !.do_tracing_ = TRUE]
  <2>1. /\ pc[r] \in Owning
        /\ hold[r] \in Ids /\ session[hold[r]] \in SessionState
        /\ hold[r] \in resources
    BY <1>7 DEF SetTracing, StepsAgree, TypeOK, Owning, Registered, Steps, Errors
  <2>2. st \in SessionState /\ st.init /\ st.data = None
    BY Zenon, <1>7, <2>1
    DEF SetTracing, StepsAgree, OwnDataOnly, SessionState, Owning, Steps, Errors
  <2>3. /\ pc' = [pc EXCEPT ![r] = "tracing"]
        /\ session' = [session EXCEPT ![hold[r]] = st]
        /\ resources' = resources \cup {hold[r]}
        /\ UNCHANGED <<traced, hold, pool, sessions_, num_unique_sessions_,
                       failures, counts, peak>>
    BY <1>7, <2>1 DEF SetTracing, OpStep, poolVars, TypeOK
  <2>4. /\ "tracing" \in Owning \ {"new"}
        /\ resources' = IF "tracing" \in Registered THEN resources \cup {hold[r]}
                                             ELSE resources \ {hold[r]}
    BY <2>1, <2>3 DEF Owning, Registered, Steps, Errors
  <2> HIDE DEF st, IndInv
  <2> QED
    BY Zenon, <2>1, <2>2, <2>3, <2>4, OwnStep
<1>8. ASSUME NEW r \in Runs, AttachDataReader(r) PROVE IndInv'
  <2> DEFINE st == [session[hold[r]] EXCEPT !.data = r]
  <2>1. /\ pc[r] \in Owning
        /\ hold[r] \in Ids /\ session[hold[r]] \in SessionState
        /\ hold[r] \in resources
    BY <1>8 DEF AttachDataReader, StepsAgree, TypeOK, Owning, Registered, Steps, Errors
  <2>2. st \in SessionState /\ st.init /\ st.data = r
    BY <1>8, <2>1
    DEF AttachDataReader, StepsAgree, OwnDataOnly, SessionState, Owning, Steps, Errors
  <2>3. /\ pc' = [pc EXCEPT ![r] = "attached"]
        /\ session' = [session EXCEPT ![hold[r]] = st]
        /\ resources' = resources \cup {hold[r]}
        /\ UNCHANGED <<traced, hold, pool, sessions_, num_unique_sessions_,
                       failures, counts, peak>>
    BY <1>8, <2>1 DEF AttachDataReader, OpStep, poolVars, TypeOK
  <2>4. /\ "attached" \in Owning \ {"new"}
        /\ resources' = IF "attached" \in Registered THEN resources \cup {hold[r]}
                                             ELSE resources \ {hold[r]}
    BY <2>1, <2>3 DEF Owning, Registered, Steps, Errors
  <2> HIDE DEF st, IndInv
  <2> QED
    BY Zenon, <2>1, <2>2, <2>3, <2>4, OwnStep
<1>9. ASSUME NEW r \in Runs, ComponentOps(r) PROVE IndInv'
  <2> DEFINE st == session[hold[r]]
  <2>1. /\ pc[r] \in Owning
        /\ hold[r] \in Ids /\ session[hold[r]] \in SessionState
        /\ hold[r] \in resources
    BY <1>9, SMTT(60) DEF ComponentOps, StepsAgree, TypeOK, Owning, Registered, Steps, Errors
  <2>2. st \in SessionState /\ st.init /\ st.data = r
    BY <1>9, <2>1, SMTT(60)
    DEF ComponentOps, StepsAgree, OwnDataOnly, SessionState, Owning, Steps, Errors
  <2>3. /\ pc' = [pc EXCEPT ![r] = "computed"]
        /\ session' = [session EXCEPT ![hold[r]] = st]
        /\ resources' = resources \cup {hold[r]}
        /\ UNCHANGED <<traced, hold, pool, sessions_, num_unique_sessions_,
                       failures, counts, peak>>
    BY <1>9, <2>1 DEF ComponentOps, OpStep, poolVars, TypeOK
  <2>4. /\ "computed" \in Owning \ {"new"}
        /\ resources' = IF "computed" \in Registered THEN resources \cup {hold[r]}
                                             ELSE resources \ {hold[r]}
    BY <2>1, <2>3 DEF Owning, Registered, Steps, Errors
  <2> HIDE DEF st, IndInv
  <2> QED
    BY Zenon, <2>1, <2>2, <2>3, <2>4, OwnStep
<1>10. ASSUME NEW r \in Runs, RunFails(r) PROVE IndInv'
  <2> USE <1>10 DEF RunFails, poolVars
  <2>1. hold[r] # None
    BY DEF StepsAgree, Owning, Steps, Errors
  <2>2. /\ Cardinality(InFlight) \in Nat
        /\ Cardinality(InFlight') = Cardinality(InFlight) - 1
    BY Zenon, <2>1, InFlightCount
  <2>3. TypeOK'
    BY MaxFailuresAssumption DEF TypeOK, Ids, Steps
  <2>4. SessionExclusive' /\ PooledReady'
    BY DEF SessionExclusive, PooledReady, TypeOK, InFlight, Pooled
  <2>5. NoStepFails' /\ OwnDataOnly'
    BY DEF NoStepFails, OwnDataOnly, TypeOK, Errors
  <2>6. StepsAgree'
    BY SMTT(60) DEF StepsAgree, TypeOK, Owning, Registered, Steps, Errors
  <2>7. Counted' /\ BoundedByConcurrency'
    BY SMTT(60), <2>2, MaxFailuresAssumption DEF Counted, BoundedByConcurrency, TypeOK
  <2> QED
    BY <2>3, <2>4, <2>5, <2>6, <2>7, SMTT(60)
<1>11. ASSUME NEW r \in Runs, ReleaseLookup(r) PROVE IndInv'
  <2> DEFINE st == session[hold[r]]
  <2>1. /\ pc[r] \in Owning
        /\ hold[r] \in Ids /\ session[hold[r]] \in SessionState
        /\ hold[r] \in resources /\ pool
    BY <1>11, SMTT(60) DEF ReleaseLookup, StepsAgree, TypeOK, Owning, Registered, Steps, Errors
  <2>2. st \in SessionState /\ st.init /\ st.data = r
    BY <1>11, <2>1
    DEF ReleaseLookup, StepsAgree, OwnDataOnly, SessionState, Owning, Steps, Errors
  <2>3. /\ pc' = [pc EXCEPT ![r] = "found"]
        /\ session' = [session EXCEPT ![hold[r]] = st]
        /\ resources' = resources \cup {hold[r]}
        /\ UNCHANGED <<traced, hold, pool, sessions_, num_unique_sessions_,
                       failures, counts, peak>>
    BY <1>11, <2>1 DEF ReleaseLookup, poolVars, TypeOK
  <2>4. /\ "found" \in Owning \ {"new"}
        /\ resources' = IF "found" \in Registered THEN resources \cup {hold[r]}
                                             ELSE resources \ {hold[r]}
    BY <2>1, <2>3 DEF Owning, Registered, Steps, Errors
  <2> HIDE DEF st, IndInv
  <2> QED
    BY Zenon, <2>1, <2>2, <2>3, <2>4, OwnStep
<1>12. ASSUME NEW r \in Runs, ReleaseDelete(r) PROVE IndInv'
  <2> DEFINE st == session[hold[r]]
  <2>1. /\ pc[r] \in Owning
        /\ hold[r] \in Ids /\ session[hold[r]] \in SessionState
        /\ hold[r] \in resources
    BY <1>12, SMTT(60) DEF ReleaseDelete, StepsAgree, TypeOK, Owning, Registered, Steps, Errors
  <2>2. st \in SessionState /\ st.init
    BY <1>12, <2>1
    DEF ReleaseDelete, StepsAgree, OwnDataOnly, SessionState, Owning, Steps, Errors
  <2>3. /\ pc' = [pc EXCEPT ![r] = "deleted"]
        /\ session' = [session EXCEPT ![hold[r]] = st]
        /\ resources' = resources \ {hold[r]}
        /\ UNCHANGED <<traced, hold, pool, sessions_, num_unique_sessions_,
                       failures, counts, peak>>
    BY <1>12, <2>1 DEF ReleaseDelete, poolVars, TypeOK
  <2>4. /\ "deleted" \in Owning \ {"new"}
        /\ resources' = IF "deleted" \in Registered THEN resources \cup {hold[r]}
                                             ELSE resources \ {hold[r]}
    BY <2>1, <2>3 DEF Owning, Registered, Steps, Errors
  <2> HIDE DEF st, IndInv
  <2> QED
    BY Zenon, <2>1, <2>2, <2>3, <2>4, OwnStep
<1>13. ASSUME NEW r \in Runs, ReturnSession(r) PROVE IndInv'
  <2> DEFINE i == hold[r]
  <2>1. /\ i \in Ids /\ i # None /\ i \notin resources /\ session[i].init
        /\ \A q \in Runs \ {r} : hold[q] # i
    BY SMTT(60), <1>13 DEF ReturnSession, StepsAgree, TypeOK, SessionExclusive, InFlight,
       Owning, Registered, Steps, Errors
  <2>2. \A m \in 1 .. Len(sessions_) : sessions_[m] # i
    BY <2>1 DEF SessionExclusive, InFlight, Pooled
  <2>3. /\ Len(sessions_) \in Nat
        /\ sessions_' \in Seq(Ids) /\ Len(sessions_') = Len(sessions_) + 1
        /\ sessions_'[Len(sessions_')] = i
        /\ \A m \in 1 .. Len(sessions_) : sessions_'[m] = sessions_[m]
    <3>1. sessions_ \in Seq(Ids) /\ sessions_' = Append(sessions_, i)
      BY <1>13 DEF TypeOK, ReturnSession
    <3> QED
      BY ONLY <2>1, <3>1, AppendProperties, LenProperties
  <2>4. /\ Cardinality(InFlight) \in Nat
        /\ Cardinality(InFlight') = Cardinality(InFlight) - 1
    BY Zenon, <1>13, <2>1, InFlightCount DEF ReturnSession
  <2>5. /\ pc[r] = "deleted" /\ pc' = [pc EXCEPT ![r] = "idle"]
        /\ hold' = [hold EXCEPT ![r] = None]
        /\ UNCHANGED <<traced, pool, num_unique_sessions_, resources, session,
                       failures, counts, peak>>
    BY <1>13 DEF ReturnSession
  <2> HIDE DEF i
  <2>6. TypeOK'
    BY <2>3, <2>5, SMTT(60) DEF TypeOK, Ids, Steps
  <2>7. SessionExclusive'
    <3>1. \A m \in 1 .. Len(sessions_') :
            IF m = Len(sessions_') THEN sessions_'[m] = i
            ELSE m \in 1 .. Len(sessions_) /\ sessions_'[m] = sessions_[m]
      BY <2>3
    <3>2. \A q \in Runs : hold'[q] # None => q # r /\ hold'[q] = hold[q]
      BY <2>5 DEF TypeOK
    <3> QED
      BY SMTT(60), <2>1, <2>2, <2>5, <3>1, <3>2 DEF SessionExclusive, InFlight, Pooled
  <2>8. NoStepFails'
    BY SMTT(60), <2>5 DEF NoStepFails, TypeOK, Errors
  <2>9. StepsAgree'
    BY SMTT(60), <2>5 DEF StepsAgree, TypeOK, Owning, Registered, Steps, Errors
  <2>10. PooledReady'
    <3>1. \A m \in 1 .. Len(sessions_') :
            m = Len(sessions_') \/ m \in 1 .. Len(sessions_)
      BY <2>3
    <3> QED
      BY <2>1, <2>3, <2>5, <3>1 DEF PooledReady
  <2>11. OwnDataOnly'
    BY <2>5 DEF OwnDataOnly, TypeOK
  <2>12. Counted' /\ BoundedByConcurrency'
    BY SMTT(60), <2>3, <2>4, <2>5, MaxFailuresAssumption
    DEF Counted, BoundedByConcurrency, TypeOK
  <2> QED
    BY SMTT(60), <2>6, <2>7, <2>8, <2>9, <2>10, <2>11, <2>12
<1>14. CASE GetSessionCounts
  <2> USE <1>14 DEF GetSessionCounts, CountsLookupPool, num_unique_sessions,
        num_outstanding_sessions, poolVars
  <2>1. counts' \in [pc : {"idle", "unique", "outstanding", "reported"},
                    unique : Nat, outstanding : Int]
    <3>1. Len(sessions_) \in Nat
      BY DEF TypeOK
    <3>2. CASE CountsLookupPool
      BY <3>2 DEF TypeOK
    <3>3. CASE num_unique_sessions
      BY Zenon, <3>3 DEF TypeOK
    <3>4. CASE num_outstanding_sessions
      <4>1. num_unique_sessions_ - Len(sessions_) \in Int
        BY <3>1 DEF TypeOK
      <4> QED
        BY Zenon, <3>4, <4>1 DEF TypeOK
    <3> QED
      BY <3>2, <3>3, <3>4
  <2>2. TypeOK'
    BY <2>1 DEF TypeOK, Ids
  <2>3. InFlight' = InFlight
    BY DEF InFlight
  <2>4. Counted' /\ BoundedByConcurrency'
    BY <2>3 DEF Counted, BoundedByConcurrency
  <2>5. SessionExclusive' /\ NoStepFails' /\ StepsAgree' /\ PooledReady' /\ OwnDataOnly'
    BY SMTT(60) DEF SessionExclusive, NoStepFails, StepsAgree, PooledReady, OwnDataOnly,
           InFlight, Pooled
  <2> QED
    BY <2>2, <2>4, <2>5
<1>15. CASE UNCHANGED vars
  BY SMTT(60), <1>15 DEF vars, TypeOK, Ids, SessionExclusive, NoStepFails, StepsAgree,
    PooledReady, OwnDataOnly, Counted, BoundedByConcurrency, InFlight, Pooled
<1> QED
  BY SMTT(60), <1>1, <1>2, <1>3, <1>4, <1>5, <1>6, <1>7, <1>8, <1>9, <1>10, <1>11, <1>12, <1>13, <1>14, <1>15
  DEF Next, Continue, GetSession, Compute, ReleaseSession

(* IndInv holds in every reachable state. *)
THEOREM PoolInvariant == Spec => []IndInv
<1>1. Init => IndInv
  BY InitIndInv
<1>2. IndInv /\ [Next]_vars => IndInv'
  BY NextIndInv
<1> QED
  BY <1>1, <1>2, PTL DEF Spec

(* GetSession and ReleaseSession are thread-safe: for any number of runs, a   *)
(* ComputeSession never belongs to two of them, nor to one and the pool.      *)
THEOREM PoolExclusive == Spec => []SessionExclusive
<1>1. IndInv => SessionExclusive
  BY DEF IndInv
<1> QED
  BY <1>1, PoolInvariant, PTL

(* No Create of GetSession meets AlreadyExists and no lookup of an op or of   *)
(* ReleaseSession fails: deleting the resource before the session is returned *)
(* is enough.                                                                 *)
THEOREM PoolNoStepFails == Spec => []NoStepFails
<1>1. IndInv => NoStepFails
  BY DEF IndInv
<1> QED
  BY <1>1, PoolInvariant, PTL

(* ResetSession and the exclusive handout keep each run to its own input. *)
THEOREM PoolOwnData == Spec => []OwnDataOnly
<1>1. IndInv => OwnDataOnly
  BY DEF IndInv
<1> QED
  BY <1>1, PoolInvariant, PTL

(* The number of ComputeSessions ever built is at most the largest number of  *)
(* concurrent runs, plus one for each run that failed before ReleaseSession.  *)
THEOREM PoolBounded == Spec => []BoundedByConcurrency
<1>1. IndInv => BoundedByConcurrency
  BY DEF IndInv
<1> QED
  BY <1>1, PoolInvariant, PTL

(* Types of the pool, the ResourceMgr and the runs. *)
THEOREM PoolTypes == Spec => []TypeOK
<1>1. IndInv => TypeOK
  BY DEF IndInv
<1> QED
  BY <1>1, PoolInvariant, PTL
-----------------------------------------------------------------------------
(* A step that hands no session over, and at most registers or deletes the     *)
(* session of a run that owns it, is invisible to the allocator.              *)
LEMMA InvisibleStep ==
  ASSUME UNCHANGED <<hold, sessions_, num_unique_sessions_>>,
         NEW r \in Runs,
         resources \ {hold[r]} = resources' \ {hold[r]}
  PROVE  UNCHANGED Allocator!vars
<1>1. Pooled' = Pooled
  BY DEF Pooled
<1>2. Leaked' = Leaked
  BY DEF Leaked
<1> QED
  BY <1>1, <1>2, Zenon DEF Allocator!vars

(* The names in the ResourceMgr are those of sessions that were built. *)
LEMMA RegisteredIds ==
  ASSUME IndInv
  PROVE  None \notin resources /\ num_unique_sessions_ \notin resources
<1>1. num_unique_sessions_ \in Nat /\ resources \subseteq 0 .. num_unique_sessions_ - 1
  BY Zenon DEF IndInv, TypeOK, Ids
<1>2. \A i \in 0 .. num_unique_sessions_ - 1 : i \in Nat /\ i # num_unique_sessions_
  BY <1>1
<1> QED
  BY <1>1, <1>2, NoneAssumption, Zenon

(* GetSession takes the last of the idle sessions: one less is idle, and none   *)
(* of a failed run was among them.                                           *)
LEMMA PopIsReuse ==
  ASSUME IndInv, NEW r \in Runs, PopSession(r)
  PROVE  Allocator!Reuse(r)
<1> DEFINE i == sessions_[Len(sessions_)]
<1>1. hold[r] = None
  BY DEF IndInv, StepsAgree, PopSession, Owning
<1>2. /\ hold' = [hold EXCEPT ![r] = i]
      /\ sessions_' = SubSeq(sessions_, 1, Len(sessions_) - 1)
      /\ UNCHANGED <<num_unique_sessions_, resources>>
  BY DEF PopSession
<1>3. /\ Len(sessions_) \in Nat \ {0} /\ Len(sessions_') = Len(sessions_) - 1
      /\ \A n \in 1 .. Len(sessions_') : sessions_'[n] = sessions_[n]
  BY <1>2, PopFacts, SMTT(60) DEF IndInv, TypeOK, PopSession
<1>4. i \in Pooled /\ i \notin resources
  BY <1>3 DEF Pooled, IndInv, SessionExclusive
<1>5. Pooled' = Pooled \ {i}
  BY <1>3 DEF Pooled, IndInv, SessionExclusive
<1>6. Leaked' = Leaked
  <2>1. \A s \in Runs : hold'[s] = IF s = r THEN i ELSE hold[s]
    BY <1>2 DEF IndInv, TypeOK
  <2>2. None \notin resources
    BY RegisteredIds
  <2> QED
    BY <1>1, <1>2, <1>4, <2>1, <2>2, SMTT(60) DEF Leaked
<1> QED
  BY <1>1, <1>2, <1>4, <1>5, <1>6, Zenon DEF Allocator!Reuse

(* When none is idle it builds one, with a number that no session has. *)
LEMMA BuildIsCreate ==
  ASSUME IndInv, NEW r \in Runs, BuildSession(r)
  PROVE  Allocator!Create(r)
<1>1. hold[r] = None
  BY DEF IndInv, StepsAgree, BuildSession, Build, Owning
<1>2. /\ hold' = [hold EXCEPT ![r] = num_unique_sessions_]
      /\ num_unique_sessions_' = num_unique_sessions_ + 1
      /\ UNCHANGED <<sessions_, resources>> /\ sessions_ = <<>>
  BY DEF BuildSession, Build
<1>3. Pooled = {} /\ Pooled' = Pooled
  BY <1>2 DEF Pooled
<1>4. Leaked' = Leaked
  <2>1. \A s \in Runs : hold'[s] = IF s = r THEN num_unique_sessions_ ELSE hold[s]
    BY <1>2 DEF IndInv, TypeOK
  <2>2. None \notin resources /\ num_unique_sessions_ \notin resources
    BY RegisteredIds
  <2> QED
    BY <1>1, <1>2, <2>1, <2>2 DEF Leaked
<1> QED
  BY <1>1, <1>2, <1>3, <1>4, Zenon DEF Allocator!Create

(* ReturnSession gives back what the ResourceMgr has no handle for any more. *)
LEMMA ReturnIsReturn ==
  ASSUME IndInv, NEW r \in Runs, ReturnSession(r)
  PROVE  Allocator!Return(r)
<1>1. hold[r] # None /\ hold[r] \notin resources
  <2>1. pc[r] \in Owning /\ pc[r] \in Owning \ Registered
    BY DEF ReturnSession, Owning, Registered, Steps, Errors
  <2> QED
    BY <2>1 DEF IndInv, StepsAgree
<1>2. /\ hold' = [hold EXCEPT ![r] = None]
      /\ sessions_' = Append(sessions_, hold[r])
      /\ UNCHANGED <<num_unique_sessions_, resources>>
  BY DEF ReturnSession
<1>3. Pooled' = Pooled \cup {hold[r]}
  <2>1. hold[r] \in Ids /\ sessions_ \in Seq(Ids)
    BY <1>1 DEF IndInv, TypeOK
  <2>2. /\ Len(sessions_') = Len(sessions_) + 1 /\ Len(sessions_) \in Nat
        /\ \A n \in 1 .. Len(sessions_) : sessions_'[n] = sessions_[n]
        /\ sessions_'[Len(sessions_) + 1] = hold[r]
    BY <1>2, <2>1, AppendProperties, LenProperties
  <2> QED
    BY <2>2 DEF Pooled
<1>4. Leaked' = Leaked
  <2>1. \A s \in Runs : hold'[s] = IF s = r THEN None ELSE hold[s]
    BY <1>2 DEF IndInv, TypeOK
  <2>2. None \notin resources
    BY RegisteredIds
  <2> QED
    BY <1>1, <1>2, <2>1, <2>2 DEF Leaked
<1> QED
  BY <1>1, <1>2, <1>3, <1>4, Zenon DEF Allocator!Return

(* The session of a failed run stays registered, and nobody else has it. *)
LEMMA FailIsLose ==
  ASSUME IndInv, NEW r \in Runs, RunFails(r)
  PROVE  Allocator!Lose(r)
<1>1. hold[r] # None /\ hold[r] \in resources
  BY DEF IndInv, StepsAgree, RunFails, Owning, Registered, Steps, Errors
<1>2. /\ hold' = [hold EXCEPT ![r] = None]
      /\ UNCHANGED <<sessions_, num_unique_sessions_, resources>>
  BY DEF RunFails, poolVars
<1>3. Pooled' = Pooled
  BY <1>2 DEF Pooled
<1>4. Leaked' = Leaked \cup {hold[r]}
  <2>1. \A s \in Runs : hold'[s] = IF s = r THEN None ELSE hold[s]
    BY <1>2 DEF IndInv, TypeOK
  <2>2. None \notin resources
    BY RegisteredIds
  <2>3. \A s \in Runs : hold[s] = hold[r] => s = r
    BY <1>1 DEF IndInv, SessionExclusive, InFlight
  <2> QED
    BY <1>1, <1>2, <2>1, <2>2, <2>3 DEF Leaked
<1> QED
  BY <1>1, <1>2, <1>3, <1>4, Zenon DEF Allocator!Lose

(* Every step of the ops is a step of the allocator or invisible to it. *)
LEMMA NextRefines == IndInv /\ [Next]_vars => [Allocator!Next]_(Allocator!vars)
<1> SUFFICES ASSUME IndInv, [Next]_vars PROVE [Allocator!Next]_(Allocator!vars)
  OBVIOUS
<1>1. ASSUME NEW r \in Runs,
             \/ PopSession(r) \/ BuildSession(r) \/ ReturnSession(r) \/ RunFails(r)
      PROVE  Allocator!Next
  BY <1>1, PopIsReuse, BuildIsCreate, ReturnIsReturn, FailIsLose, Zenon DEF Allocator!Next
<1>2. ASSUME NEW r \in Runs,
             \/ GetSessionLookupPool(r) \/ InitSession(r) \/ ResetSession(r)
             \/ SetTracing(r) \/ AttachDataReader(r) \/ ComponentOps(r) \/ ReleaseLookup(r)
      PROVE  UNCHANGED Allocator!vars
  <2>1. UNCHANGED <<hold, sessions_, num_unique_sessions_, resources>>
    BY <1>2, Zenon DEF GetSessionLookupPool, InitSession, ResetSession, SetTracing,
       AttachDataReader, ComponentOps, ReleaseLookup, poolVars
  <2> QED
    BY <2>1, InvisibleStep
<1>3. ASSUME NEW r \in Runs, CreateResource(r) \/ ReleaseDelete(r)
      PROVE  UNCHANGED Allocator!vars
  <2>1. pc[r] = "ready" => hold[r] \notin resources
    <3>1. "ready" \in Owning \ Registered
      BY DEF Owning, Registered, Steps, Errors
    <3> QED
      BY <3>1 DEF IndInv, StepsAgree
  <2>2. UNCHANGED <<hold, sessions_, num_unique_sessions_>>
    BY <1>3, <2>1 DEF CreateResource, ReleaseDelete, poolVars
  <2>3. resources \ {hold[r]} = resources' \ {hold[r]}
    BY <1>3 DEF CreateResource, ReleaseDelete
  <2> QED
    BY <2>2, <2>3, InvisibleStep
<1>4. CASE GetSessionCounts \/ UNCHANGED vars
  <2>1. UNCHANGED <<hold, sessions_, num_unique_sessions_, resources>>
    BY <1>4, Zenon DEF GetSessionCounts, CountsLookupPool, num_unique_sessions,
       num_outstanding_sessions, poolVars, vars
  <2> QED
    BY <2>1, Zenon DEF Allocator!vars, Pooled, Leaked
<1> QED
  BY <1>1, <1>2, <1>3, <1>4, Zenon
  DEF Next, Continue, GetSession, Compute, ReleaseSession

(* The pool implements the allocator: however the critical sections of any     *)
(* number of GetSession and ReleaseSession ops interleave, what the runs see   *)
(* are atomic hand-outs of an idle or, if there is none, a new session, and    *)
(* atomic returns.                                                           *)
THEOREM PoolIsAllocator == Spec => ImplementsAllocator
<1>1. Init => Allocator!Init
  BY DEF Init, Allocator!Init, Pooled, Leaked
<1>2. IndInv /\ [Next]_vars => [Allocator!Next]_(Allocator!vars)
  BY NextRefines
<1> QED
  BY <1>1, <1>2, PoolInvariant, PTL DEF Spec, ImplementsAllocator, Allocator!Spec
=============================================================================
