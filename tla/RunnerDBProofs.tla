--------------------------- MODULE RunnerDBProofs ---------------------------
(***************************************************************************)
(* Machine-checked theorems about RunnerDB, for every set of tenants,      *)
(* releases, keys, run ids and leases and every retention.                 *)
(***************************************************************************)
EXTENDS RunnerDB, TLAPS

USE DEF Exists

-----------------------------------------------------------------------------
(* Rows: the state column tells which columns are set. *)

\* A row of idempotency_keys has the columns that its state promises.
LEMMA KeyRows ==
    ASSUME TypeOK, NEW k \in KeyId
    PROVE  /\ keys[k].state = "RUNNING" => keys[k] \in RunningKey
           /\ keys[k].state = "DONE" => keys[k] \in DoneKey
           /\ keys[k].state = "ABSENT" => keys[k] = Absent
           /\ keys[k].state \in {"RUNNING", "DONE", "ABSENT"}
BY DEF TypeOK, RunningKey, DoneKey, Absent

\* A row of runs has the columns that its state promises.
LEMMA RunRows ==
    ASSUME TypeOK, NEW r \in RunIds
    PROVE  /\ runs[r].state = "RUNNING" => runs[r] \in RunningRun
           /\ runs[r].state \in {"DONE", "ABANDONED"} => runs[r] \in ClosedRun
           /\ runs[r].state = "ABSENT" => runs[r] = Absent
           /\ runs[r].state \in {"RUNNING", "DONE", "ABANDONED", "ABSENT"}
BY DEF TypeOK, RunningRun, ClosedRun, Absent

\* A caller that holds a run id knows the request, and so the key, it was claimed for.
LEMMA ClaimRows ==
    ASSUME TypeOK, NEW r \in RunIds, Exists(claims[r])
    PROVE  claims[r] \in Claim /\ claims[r].req \in Request /\ KeyOf(claims[r].req) \in KeyId
BY DEF TypeOK, Claim, Absent, Request, KeyOf, KeyId

\* A lease that exists has a tenant, a project, a release and an expiry.
LEMMA LeaseRows ==
    ASSUME TypeOK, NEW l \in LeaseIds, Exists(leases[l])
    PROVE  leases[l] \in LeaseRow
BY DEF TypeOK, LeaseRow, Absent

\* The four answers of begin_run: it claims the key exactly when it neither replays a result
\* nor raises IDEMPOTENCY_CONFLICT or RUN_IN_PROGRESS.
LEMMA BeginAnswers ==
    ASSUME TypeOK, NEW req \in Request
    PROVE  BeginClaims(req) <=> ~(BeginConflict(req) \/ BeginInProgress(req) \/ BeginReplays(req))
<1>1. KeyOf(req) \in KeyId
  BY DEF Request, KeyOf, KeyId
<1>2. keys[KeyOf(req)].state \in {"RUNNING", "DONE", "ABSENT"}
  BY <1>1, KeyRows
<1> QED
  BY <1>2 DEF BeginClaims, BeginConflict, BeginInProgress, BeginReplays, CacheValid

-----------------------------------------------------------------------------
(* Type correctness *)

\* Every method of RunnerDB leaves well-formed rows behind.
LEMMA TypeStep == TypeOK /\ [Next]_dbVars => TypeOK'
<1> SUFFICES ASSUME TypeOK, [Next]_dbVars PROVE TypeOK'
    OBVIOUS
<1>1. CASE Tick
  BY <1>1 DEF Tick, TypeOK, leaseVars, runVars
<1>2. ASSUME NEW l \in LeaseIds, NEW t \in Tenants, NEW p \in Projects, NEW rel \in Releases,
             CreateLease(l, t, p, rel)
      PROVE  TypeOK'
  <2>1. now + LeaseTTL \in Nat
    BY DBAssumption DEF TypeOK
  <2>2. leases' \in [LeaseIds -> LeaseRow \cup {Absent}]
    BY <1>2, <2>1 DEF CreateLease, TypeOK, LeaseRow
  <2> QED
    BY <1>2, <2>2 DEF CreateLease, TypeOK, runVars
<1>3. ASSUME NEW l \in LeaseIds, NEW t \in Tenants, RenewLeaseCheck(l, t)
      PROVE  TypeOK'
  BY <1>3 DEF RenewLeaseCheck, TypeOK, runVars
<1>4. ASSUME NEW l \in LeaseIds, NEW t \in Tenants, RenewLeaseUpdate(l, t)
      PROVE  TypeOK'
  <2>1. now + LeaseTTL \in Nat
    BY DBAssumption DEF TypeOK
  <2>2. \A i \in LeaseIds : Exists(leases[i]) =>
            [leases[i] EXCEPT !.expires = now + LeaseTTL] \in LeaseRow
    BY <2>1, LeaseRows DEF LeaseRow
  <2>3. leases' \in [LeaseIds -> LeaseRow \cup {Absent}]
    BY <1>4, <2>2 DEF RenewLeaseUpdate, TypeOK
  <2> QED
    BY <1>4, <2>3 DEF RenewLeaseUpdate, TypeOK, runVars
<1>5. ASSUME NEW l \in LeaseIds, NEW t \in Tenants, DeleteLease(l, t)
      PROVE  TypeOK'
  BY <1>5 DEF DeleteLease, TypeOK, runVars
<1>6. CASE PurgeExpiredLeases
  BY <1>6 DEF PurgeExpiredLeases, TypeOK, runVars
<1>7. ASSUME NEW req \in Request, NEW r \in RunIds, BeginRun(req, r)
      PROVE  TypeOK'
  <2>1. KeyOf(req) \in KeyId /\ req.fp \in Fingerprints
    BY DEF Request, KeyOf, KeyId
  <2>2. keys' \in [KeyId -> RunningKey \cup DoneKey \cup {Absent}]
    BY <1>7, <2>1 DEF BeginRun, TypeOK, RunningKey
  <2>3. runs' \in [RunIds -> RunningRun \cup ClosedRun \cup {Absent}]
    BY <1>7 DEF BeginRun, TypeOK, RunningRun
  <2>4. claims' \in [RunIds -> Claim \cup {Absent}]
    BY <1>7 DEF BeginRun, TypeOK, Claim
  <2> QED
    BY <1>7, <2>2, <2>3, <2>4 DEF BeginRun, TypeOK, leaseVars
<1>8. ASSUME NEW r \in RunIds, NEW res \in Result, FinishRun(r, res)
      PROVE  TypeOK'
  <2>1. ExpiresAt(res) \in Nat /\ OutcomeClass(res) \in Outcomes /\ res.retryable \in BOOLEAN
    BY DBAssumption DEF TypeOK, ExpiresAt, OutcomeClass, Outcomes, Result
  <2>2. KeyOf(claims[r].req) \in KeyId /\ claims[r].req \in Request
    BY <1>8, ClaimRows DEF FinishRun, FinishRunAccepts
  <2>3. keys[KeyOf(claims[r].req)].fp \in Fingerprints
    BY <1>8, <2>2, KeyRows DEF FinishRun, FinishRunAccepts, OwnsKey, RunningKey
  <2>4. [state |-> "DONE", fp |-> keys[KeyOf(claims[r].req)].fp, run |-> r,
             replayable |-> ~res.retryable, result |-> res, expires |-> ExpiresAt(res)]
                \in DoneKey
    BY <2>1, <2>3 DEF DoneKey
  <2>5. keys' \in [KeyId -> RunningKey \cup DoneKey \cup {Absent}]
    BY <1>8, <2>2, <2>4 DEF FinishRun, TypeOK
  <2>6. [state |-> "DONE", req |-> claims[r].req, outcome |-> OutcomeClass(res),
             replayable |-> ~res.retryable, expires |-> ExpiresAt(res), completed |-> now]
                \in ClosedRun
    BY <2>1, <2>2 DEF ClosedRun, TypeOK
  <2>7. runs' \in [RunIds -> RunningRun \cup ClosedRun \cup {Absent}]
    BY <1>8, <2>6 DEF FinishRun, TypeOK
  <2> QED
    BY <1>8, <2>5, <2>7 DEF FinishRun, TypeOK, leaseVars
<1>a. ASSUME NEW req \in Request PROVE Abandoned(req) \in ClosedRun
  BY DEF TypeOK, Abandoned, ClosedRun, Outcomes
<1>9. ASSUME NEW r \in RunIds, AbandonRun(r)
      PROVE  TypeOK'
  <2>1. claims[r].req \in Request /\ Abandoned(claims[r].req) \in ClosedRun
    BY <1>9, <1>a, ClaimRows DEF AbandonRun
  <2>2. runs' \in [RunIds -> RunningRun \cup ClosedRun \cup {Absent}]
    BY <1>9, <2>1 DEF AbandonRun, TypeOK
  <2>3. keys' \in [KeyId -> RunningKey \cup DoneKey \cup {Absent}]
    BY <1>9 DEF AbandonRun, TypeOK
  <2> QED
    BY <1>9, <2>2, <2>3 DEF AbandonRun, TypeOK, leaseVars
<1>10. CASE ResetRunning
  <2>1. \A r \in RunIds : runs[r].state = "RUNNING" => Abandoned(runs[r].req) \in ClosedRun
    BY <1>a, RunRows DEF RunningRun
  <2>2. runs' \in [RunIds -> RunningRun \cup ClosedRun \cup {Absent}]
    BY <1>10, <2>1 DEF ResetRunning, TypeOK
  <2> QED
    BY <1>10, <2>2 DEF ResetRunning, TypeOK, leaseVars
<1>11. CASE PurgeExpiredIdempotency
  BY <1>11 DEF PurgeExpiredIdempotency, TypeOK, leaseVars
<1>12. CASE PurgeOldRuns
  BY <1>12 DEF PurgeOldRuns, TypeOK, leaseVars
<1>13. CASE UNCHANGED dbVars
  BY <1>13 DEF dbVars, TypeOK
<1> QED
  BY <1>1, <1>2, <1>3, <1>4, <1>5, <1>6, <1>7, <1>8, <1>9, <1>10, <1>11, <1>12, <1>13 DEF Next

\* Every row of the three tables always has exactly the columns its state column promises.
THEOREM TypeCorrect == Spec => []TypeOK
<1>1. Init => TypeOK
  BY DEF Init, TypeOK
<1> QED
  BY <1>1, TypeStep, PTL DEF Spec

-----------------------------------------------------------------------------
(* The inductive invariant *)

\* A row of runs or idempotency_keys only exists for a run id that begin_run handed out,
\* and it carries the request that run was claimed for.
RowsClaimed ==
    /\ \A r \in RunIds : Exists(runs[r]) =>
            Exists(claims[r]) /\ runs[r].req = claims[r].req
    /\ \A k \in KeyId : Exists(keys[k]) =>
            /\ Exists(claims[keys[k].run])
            /\ KeyOf(claims[keys[k].run].req) = k
            /\ claims[keys[k].run].req.fp = keys[k].fp

\* A result within its retention has its audit row, and the two agree.
ResultsBacked ==
    \A k \in KeyId : keys[k].state = "DONE" =>
        /\ keys[k].replayable = ~keys[k].result.retryable
        /\ keys[k].expires > now =>
              /\ runs[keys[k].run].state = "DONE"
              /\ runs[keys[k].run].expires = keys[k].expires
              /\ runs[keys[k].run].outcome = OutcomeClass(keys[k].result)

IInv == TypeOK /\ RowsClaimed /\ ClaimsInStep /\ ResultsBacked

\* Empty tables satisfy the invariant.
LEMMA InvInit == Init => IInv
<1>1. Init => TypeOK
  BY DEF Init, TypeOK
<1>2. Init => RowsClaimed /\ ClaimsInStep /\ ResultsBacked
  BY DEF Init, RowsClaimed, ClaimsInStep, ResultsBacked, Absent
<1> QED
  BY <1>1, <1>2 DEF IInv

\* The run a key names is a run id, and the key a run names is a key.
LEMMA References ==
    ASSUME IInv
    PROVE  /\ \A k \in KeyId : Exists(keys[k]) => keys[k].run \in RunIds
           /\ \A r \in RunIds : Exists(runs[r]) => KeyOf(runs[r].req) \in KeyId
<1>1. ASSUME NEW k \in KeyId, Exists(keys[k]) PROVE keys[k].run \in RunIds
  BY <1>1, KeyRows DEF IInv, RunningKey, DoneKey
<1>2. ASSUME NEW r \in RunIds, Exists(runs[r]) PROVE KeyOf(runs[r].req) \in KeyId
  BY <1>2, ClaimRows DEF IInv, RowsClaimed
<1> QED
  BY <1>1, <1>2

\* The lease methods touch neither table of runs, and time only ends retentions.
LEMMA LeaseSteps == IInv /\ UNCHANGED runVars /\ now' \in Nat /\ now' >= now =>
                        (RowsClaimed /\ ClaimsInStep /\ ResultsBacked)'
<1> SUFFICES ASSUME IInv, UNCHANGED runVars, now' \in Nat, now' >= now
             PROVE  (RowsClaimed /\ ClaimsInStep /\ ResultsBacked)'
    OBVIOUS
<1>1. RowsClaimed' /\ ClaimsInStep'
  BY DEF IInv, runVars, RowsClaimed, ClaimsInStep
<1>2. ASSUME NEW k \in KeyId, keys[k].state = "DONE", keys[k].expires > now'
      PROVE  keys[k].expires > now
  BY <1>2, KeyRows DEF IInv, TypeOK, DoneKey
<1>3. ResultsBacked'
  BY <1>2 DEF IInv, runVars, ResultsBacked, OutcomeClass
<1> QED
  BY <1>1, <1>3

\* begin_run only overwrites a key that no execution holds, with a fresh run id.
LEMMA BeginRunStep ==
    ASSUME IInv, NEW req \in Request, NEW r \in RunIds, BeginRun(req, r)
    PROVE  (RowsClaimed /\ ClaimsInStep /\ ResultsBacked)'
<1> DEFINE k == KeyOf(req)
<1>1. k \in KeyId
  BY DEF Request, KeyOf, KeyId
<1>2. keys' = [keys EXCEPT ![k] = [state |-> "RUNNING", fp |-> req.fp, run |-> r]]
  BY DEF BeginRun
<1>3. runs' = [runs EXCEPT ![r] = [state |-> "RUNNING", req |-> req]]
  BY DEF BeginRun
<1>4. claims' = [claims EXCEPT ![r] = [state |-> "CLAIMED", req |-> req]]
  BY DEF BeginRun
<1>5. ~Exists(claims[r]) /\ ~Exists(runs[r]) /\ keys[k].state # "RUNNING"
  BY DEF BeginRun, BeginClaims, IInv, RowsClaimed
<1>6. \A i \in KeyId : Exists(keys[i]) => keys[i].run # r /\ keys[i].run \in RunIds
  BY <1>5, References DEF IInv, RowsClaimed
<1>7. \A x \in RunIds : runs[x].state = "RUNNING" => KeyOf(runs[x].req) # k
  BY <1>5 DEF IInv, ClaimsInStep
<1>t. DOMAIN keys = KeyId /\ DOMAIN runs = RunIds /\ DOMAIN claims = RunIds
  BY DEF IInv, TypeOK
<1> HIDE DEF k
<1>8. RowsClaimed'
  <2>1. ASSUME NEW x \in RunIds, Exists(runs'[x])
        PROVE  Exists(claims'[x]) /\ runs'[x].req = claims'[x].req
    BY <2>1, <1>3, <1>4, <1>t DEF IInv, RowsClaimed
  <2>2. ASSUME NEW i \in KeyId, Exists(keys'[i])
        PROVE  /\ Exists(claims'[keys'[i].run])
               /\ KeyOf(claims'[keys'[i].run].req) = i
               /\ claims'[keys'[i].run].req.fp = keys'[i].fp
    BY <2>2, <1>1, <1>2, <1>4, <1>6, <1>t DEF IInv, RowsClaimed, k
  <2> QED
    BY <2>1, <2>2 DEF RowsClaimed
<1>9. ClaimsInStep'
  <2>1. ASSUME NEW i \in KeyId, keys'[i].state = "RUNNING"
        PROVE  /\ runs'[keys'[i].run].state = "RUNNING"
               /\ KeyOf(runs'[keys'[i].run].req) = i
               /\ runs'[keys'[i].run].req.fp = keys'[i].fp
    BY <2>1, <1>1, <1>2, <1>3, <1>6, <1>t DEF IInv, ClaimsInStep, k
  <2>2. ASSUME NEW x \in RunIds, runs'[x].state = "RUNNING"
        PROVE  /\ keys'[KeyOf(runs'[x].req)].state = "RUNNING"
               /\ keys'[KeyOf(runs'[x].req)].run = x
    <3>1. CASE x = r
      BY <3>1, <1>1, <1>2, <1>3, <1>t DEF k
    <3>2. CASE x # r
      <4>1. runs'[x] = runs[x] /\ KeyOf(runs[x].req) \in KeyId
        BY <3>2, <2>2, <1>3, <1>t, References
      <4> QED
        BY <4>1, <2>2, <1>2, <1>7, <1>t DEF IInv, ClaimsInStep
    <3> QED
      BY <3>1, <3>2
  <2> QED
    BY <2>1, <2>2 DEF ClaimsInStep
<1>10. ResultsBacked'
  <2>1. ASSUME NEW i \in KeyId, keys'[i].state = "DONE"
        PROVE  keys'[i] = keys[i] /\ runs'[keys[i].run] = runs[keys[i].run]
    BY <2>1, <1>1, <1>2, <1>3, <1>6, <1>t
  <2>2. now' = now
    BY DEF BeginRun
  <2> QED
    BY <2>1, <2>2 DEF IInv, ResultsBacked, OutcomeClass
<1> QED
  BY <1>8, <1>9, <1>10

\* finish_run closes the run and its key in one transaction, with one expiry.
LEMMA FinishRunStep ==
    ASSUME IInv, NEW r \in RunIds, NEW res \in Result, FinishRun(r, res)
    PROVE  (RowsClaimed /\ ClaimsInStep /\ ResultsBacked)'
<1> DEFINE k == KeyOf(claims[r].req)
           key == [state |-> "DONE", fp |-> keys[k].fp, run |-> r,
                   replayable |-> ~res.retryable, result |-> res, expires |-> ExpiresAt(res)]
           run == [state |-> "DONE", req |-> claims[r].req, outcome |-> OutcomeClass(res),
                   replayable |-> ~res.retryable, expires |-> ExpiresAt(res),
                   completed |-> now]
<1>1. k \in KeyId /\ Exists(claims[r])
  BY ClaimRows DEF FinishRun, FinishRunAccepts, IInv
<1>2. keys' = [keys EXCEPT ![k] = key] /\ runs' = [runs EXCEPT ![r] = run]
  BY DEF FinishRun
<1>3. claims' = claims /\ now' = now
  BY DEF FinishRun
<1>4. runs[r].state = "RUNNING" /\ keys[k].state = "RUNNING" /\ keys[k].run = r
  BY DEF FinishRun, FinishRunAccepts, OwnsKey
<1>t. DOMAIN keys = KeyId /\ DOMAIN runs = RunIds
  BY DEF IInv, TypeOK
<1>5. /\ key.state = "DONE" /\ key.fp = keys[k].fp /\ key.run = r
      /\ key.replayable = ~res.retryable /\ key.result = res /\ key.expires = ExpiresAt(res)
      /\ run.state = "DONE" /\ run.req = claims[r].req /\ run.expires = ExpiresAt(res)
      /\ run.outcome = OutcomeClass(res)
  OBVIOUS
<1> HIDE DEF k, key, run
<1>6. RowsClaimed'
  <2>1. ASSUME NEW x \in RunIds, Exists(runs'[x])
        PROVE  Exists(claims[x]) /\ runs'[x].req = claims[x].req
    BY <2>1, <1>1, <1>2, <1>5, <1>t DEF IInv, RowsClaimed
  <2>2. ASSUME NEW i \in KeyId, Exists(keys'[i])
        PROVE  /\ Exists(claims[keys'[i].run])
               /\ KeyOf(claims[keys'[i].run].req) = i
               /\ claims[keys'[i].run].req.fp = keys'[i].fp
    <3>1. keys'[i].run = keys[i].run /\ keys'[i].fp = keys[i].fp /\ Exists(keys[i])
      BY <2>2, <1>1, <1>2, <1>4, <1>5, <1>t
    <3> QED
      BY <3>1 DEF IInv, RowsClaimed
  <2> QED
    BY <2>1, <2>2, <1>3 DEF RowsClaimed
<1>7. ClaimsInStep'
  <2>1. ASSUME NEW i \in KeyId, keys'[i].state = "RUNNING"
        PROVE  /\ runs'[keys'[i].run].state = "RUNNING"
               /\ KeyOf(runs'[keys'[i].run].req) = i
               /\ runs'[keys'[i].run].req.fp = keys'[i].fp
    <3>1. i # k /\ keys'[i] = keys[i]
      BY <2>1, <1>1, <1>2, <1>5, <1>t
    <3>2. keys[i].run # r
      BY <3>1, <2>1, <1>4 DEF IInv, ClaimsInStep, RowsClaimed, k
    <3>3. runs'[keys[i].run] = runs[keys[i].run]
      BY <3>2, <1>2, <1>t
    <3> QED
      BY <3>1, <3>3, <2>1 DEF IInv, ClaimsInStep
  <2>2. ASSUME NEW x \in RunIds, runs'[x].state = "RUNNING"
        PROVE  /\ keys'[KeyOf(runs'[x].req)].state = "RUNNING"
               /\ keys'[KeyOf(runs'[x].req)].run = x
    <3>1. x # r /\ runs'[x] = runs[x]
      BY <2>2, <1>2, <1>5, <1>t
    <3>2. KeyOf(runs[x].req) # k
      BY <3>1, <2>2, <1>4 DEF IInv, ClaimsInStep
    <3>3. keys'[KeyOf(runs[x].req)] = keys[KeyOf(runs[x].req)]
      BY <3>1, <3>2, <2>2, <1>2, <1>t
    <3> QED
      BY <3>1, <3>3, <2>2 DEF IInv, ClaimsInStep
  <2> QED
    BY <2>1, <2>2 DEF ClaimsInStep
<1>8. ResultsBacked'
  <2>1. ASSUME NEW i \in KeyId, keys'[i].state = "DONE"
        PROVE  /\ keys'[i].replayable = ~keys'[i].result.retryable
               /\ keys'[i].expires > now =>
                     /\ runs'[keys'[i].run].state = "DONE"
                     /\ runs'[keys'[i].run].expires = keys'[i].expires
                     /\ runs'[keys'[i].run].outcome = OutcomeClass(keys'[i].result)
    <3>1. CASE i = k
      BY <3>1, <1>1, <1>2, <1>5, <1>t
    <3>2. CASE i # k
      <4>1. keys'[i] = keys[i]
        BY <3>2, <1>2, <1>t
      <4>2. keys[i].run # r
        BY <4>1, <3>2, <2>1 DEF IInv, RowsClaimed, k
      <4>3. runs'[keys[i].run] = runs[keys[i].run]
        BY <4>2, <1>2, <1>t
      <4> QED
        BY <4>1, <4>3, <2>1 DEF IInv, ResultsBacked
    <3> QED
      BY <3>1, <3>2
  <2> QED
    BY <2>1, <1>3 DEF ResultsBacked, OutcomeClass
<1> QED
  BY <1>6, <1>7, <1>8

\* What abandon_run, reset_running and the two purges have in common: a row of runs stays,
\* is purged when it is over, or goes from RUNNING to ABANDONED; a key row stays or goes.
LEMMA ClosingStep ==
    ASSUME IInv, UNCHANGED <<now, claims>>,
           \A r \in RunIds :
              \/ runs'[r] = runs[r]
              \/ ~Exists(runs'[r]) /\ runs[r].state # "RUNNING"
              \/ runs'[r] = Abandoned(runs[r].req) /\ runs[r].state = "RUNNING",
           \A k \in KeyId : keys'[k] = keys[k] \/ keys'[k] = Absent,
           \A r \in RunIds : runs[r].state = "RUNNING" =>
              (keys'[KeyOf(runs[r].req)] = Absent <=> runs'[r].state # "RUNNING"),
           \A k \in KeyId : keys'[k].state = "DONE" /\ keys'[k].expires > now =>
              runs'[keys[k].run] = runs[keys[k].run]
    PROVE  (RowsClaimed /\ ClaimsInStep /\ ResultsBacked)'
<1>0. \A req : Abandoned(req).state = "ABANDONED" /\ Abandoned(req).req = req
  BY DEF Abandoned
<1>1. RowsClaimed'
  <2>1. ASSUME NEW x \in RunIds, Exists(runs'[x])
        PROVE  Exists(claims[x]) /\ runs'[x].req = claims[x].req
    BY <2>1, <1>0 DEF IInv, RowsClaimed
  <2>2. ASSUME NEW i \in KeyId, Exists(keys'[i])
        PROVE  /\ Exists(claims[keys'[i].run])
               /\ KeyOf(claims[keys'[i].run].req) = i
               /\ claims[keys'[i].run].req.fp = keys'[i].fp
    BY <2>2 DEF IInv, RowsClaimed, Absent
  <2> QED
    BY <2>1, <2>2 DEF RowsClaimed
<1>2. ClaimsInStep'
  <2>1. ASSUME NEW i \in KeyId, keys'[i].state = "RUNNING"
        PROVE  /\ runs'[keys'[i].run].state = "RUNNING"
               /\ KeyOf(runs'[keys'[i].run].req) = i
               /\ runs'[keys'[i].run].req.fp = keys'[i].fp
    <3>1. keys'[i] = keys[i] /\ keys[i].run \in RunIds
      BY <2>1, References DEF Absent
    <3>2. /\ runs[keys[i].run].state = "RUNNING" /\ KeyOf(runs[keys[i].run].req) = i
          /\ runs[keys[i].run].req.fp = keys[i].fp
      BY <2>1, <3>1 DEF IInv, ClaimsInStep
    <3>3. runs'[keys[i].run].state = "RUNNING"
      BY <3>1, <3>2, <2>1 DEF Absent
    <3>4. runs'[keys[i].run] = runs[keys[i].run]
      BY <3>1, <3>3, <1>0
    <3> QED
      BY <3>1, <3>2, <3>4
  <2>2. ASSUME NEW x \in RunIds, runs'[x].state = "RUNNING"
        PROVE  /\ keys'[KeyOf(runs'[x].req)].state = "RUNNING"
               /\ keys'[KeyOf(runs'[x].req)].run = x
    <3>1. runs'[x] = runs[x]
      BY <2>2, <1>0
    <3>2. KeyOf(runs[x].req) \in KeyId /\ keys'[KeyOf(runs[x].req)] # Absent
      BY <2>2, <3>1, References
    <3> QED
      BY <2>2, <3>1, <3>2 DEF IInv, ClaimsInStep
  <2> QED
    BY <2>1, <2>2 DEF ClaimsInStep
<1>3. ResultsBacked'
  <2>1. ASSUME NEW i \in KeyId, keys'[i].state = "DONE"
        PROVE  /\ keys'[i].replayable = ~keys'[i].result.retryable
               /\ keys'[i].expires > now =>
                     /\ runs'[keys'[i].run].state = "DONE"
                     /\ runs'[keys'[i].run].expires = keys'[i].expires
                     /\ runs'[keys'[i].run].outcome = OutcomeClass(keys'[i].result)
    <3>1. keys'[i] = keys[i]
      BY <2>1 DEF Absent
    <3> QED
      BY <2>1, <3>1 DEF IInv, ResultsBacked
  <2> QED
    BY <2>1 DEF ResultsBacked, OutcomeClass
<1> QED
  BY <1>1, <1>2, <1>3

\* abandon_run closes the run and deletes the key only when that key is still its own.
LEMMA AbandonRunStep ==
    ASSUME IInv, NEW r \in RunIds, AbandonRun(r)
    PROVE  (RowsClaimed /\ ClaimsInStep /\ ResultsBacked)'
<1>1. KeyOf(claims[r].req) \in KeyId /\ Exists(claims[r])
  BY ClaimRows DEF AbandonRun, IInv
<1>2. DOMAIN keys = KeyId /\ DOMAIN runs = RunIds
  BY DEF IInv, TypeOK
<1>3. runs[r].state = "RUNNING" => runs[r].req = claims[r].req /\ OwnsKey(r)
  BY DEF IInv, RowsClaimed, ClaimsInStep, OwnsKey
<1>4. OwnsKey(r) => runs[r].state = "RUNNING"
  BY <1>1 DEF IInv, ClaimsInStep, OwnsKey
<1>5. \A x \in RunIds :
         \/ runs'[x] = runs[x]
         \/ x = r /\ runs'[x] = Abandoned(runs[x].req) /\ runs[x].state = "RUNNING"
  BY <1>2, <1>3 DEF AbandonRun
<1>6. \A k \in KeyId : keys'[k] = IF k = KeyOf(claims[r].req) /\ OwnsKey(r)
                                 THEN Absent ELSE keys[k]
  BY <1>1, <1>2 DEF AbandonRun
<1>7. ASSUME NEW x \in RunIds, runs[x].state = "RUNNING"
      PROVE  keys'[KeyOf(runs[x].req)] = Absent <=> runs'[x].state # "RUNNING"
  <2>1. /\ KeyOf(runs[x].req) \in KeyId /\ keys[KeyOf(runs[x].req)].state = "RUNNING"
        /\ keys[KeyOf(runs[x].req)].run = x
    BY <1>7, References DEF IInv, ClaimsInStep
  <2>2. CASE x = r
    BY <2>1, <2>2, <1>2, <1>3, <1>6, <1>7 DEF AbandonRun, Abandoned
  <2>3. CASE x # r
    <3>1. ~(KeyOf(runs[x].req) = KeyOf(claims[r].req) /\ OwnsKey(r))
      BY <2>1, <2>3 DEF OwnsKey
    <3> QED
      BY <3>1, <2>1, <2>3, <1>5, <1>6, <1>7 DEF Absent
  <2> QED
    BY <2>2, <2>3
<1>8. ASSUME NEW k \in KeyId, keys'[k].state = "DONE", keys'[k].expires > now
      PROVE  runs'[keys[k].run] = runs[keys[k].run]
  <2>1. keys'[k] = keys[k] /\ keys[k].run \in RunIds
    BY <1>6, <1>8, References DEF Absent
  <2>2. runs[keys[k].run].state = "DONE"
    BY <2>1, <1>8 DEF IInv, ResultsBacked
  <2> QED
    BY <2>1, <2>2, <1>5
<1>9. UNCHANGED <<now, claims>>
  BY DEF AbandonRun
<1> QED
  BY <1>5, <1>6, <1>7, <1>8, <1>9, ClosingStep

\* reset_running ends every RUNNING row of both tables.
LEMMA ResetRunningStep ==
    ASSUME IInv, ResetRunning
    PROVE  (RowsClaimed /\ ClaimsInStep /\ ResultsBacked)'
<1>1. \A x \in RunIds : runs'[x] = IF runs[x].state = "RUNNING"
                                 THEN Abandoned(runs[x].req) ELSE runs[x]
  BY DEF ResetRunning
<1>2. \A k \in KeyId : keys'[k] = IF keys[k].state = "RUNNING" THEN Absent ELSE keys[k]
  BY DEF ResetRunning
<1>3. ASSUME NEW x \in RunIds, runs[x].state = "RUNNING"
      PROVE  keys'[KeyOf(runs[x].req)] = Absent /\ runs'[x].state # "RUNNING"
  <2>1. KeyOf(runs[x].req) \in KeyId /\ keys[KeyOf(runs[x].req)].state = "RUNNING"
    BY <1>3, References DEF IInv, ClaimsInStep
  <2>2. runs'[x].state = "ABANDONED"
    <3>1. runs'[x] = Abandoned(runs[x].req)
      BY <1>1, <1>3
    <3>2. Abandoned(runs[x].req).state = "ABANDONED"
      BY DEF Abandoned
    <3> QED
      BY <3>1, <3>2
  <2> QED
    BY <2>1, <2>2, <1>2
<1>4. ASSUME NEW k \in KeyId, keys'[k].state = "DONE", keys'[k].expires > now
      PROVE  runs'[keys[k].run] = runs[keys[k].run]
  BY <1>1, <1>2, <1>4, References DEF IInv, ResultsBacked, Absent
<1>5. UNCHANGED <<now, claims>>
  BY DEF ResetRunning
<1> QED
  BY <1>1, <1>2, <1>3, <1>4, <1>5, ClosingStep

\* The purges delete expired keys, and runs no unexpired key refers to.
LEMMA PurgeStep ==
    ASSUME IInv, PurgeExpiredIdempotency \/ PurgeOldRuns
    PROVE  (RowsClaimed /\ ClaimsInStep /\ ResultsBacked)'
<1>1. CASE PurgeExpiredIdempotency
  <2>1. \A k \in KeyId : keys'[k] = IF keys[k].state = "DONE" /\ keys[k].expires <= now
                                   THEN Absent ELSE keys[k]
    BY <1>1 DEF PurgeExpiredIdempotency
  <2>2. runs' = runs /\ UNCHANGED <<now, claims>>
    BY <1>1 DEF PurgeExpiredIdempotency
  <2>3. ASSUME NEW x \in RunIds, runs[x].state = "RUNNING"
        PROVE  keys'[KeyOf(runs[x].req)] # Absent
    BY <2>1, <2>3, References DEF IInv, ClaimsInStep, Absent
  <2> QED
    BY <2>1, <2>2, <2>3, ClosingStep
<1>2. CASE PurgeOldRuns
  <2>1. \A x \in RunIds :
          \/ runs'[x] = runs[x]
          \/ /\ runs'[x] = Absent /\ runs[x].state \in {"DONE", "ABANDONED"}
             /\ ~StillReplayed(x)
    BY <1>2 DEF PurgeOldRuns
  <2>2. keys' = keys /\ UNCHANGED <<now, claims>>
    BY <1>2 DEF PurgeOldRuns
  <2>3. ASSUME NEW x \in RunIds, runs[x].state = "RUNNING"
        PROVE  keys'[KeyOf(runs[x].req)] # Absent /\ runs'[x].state = "RUNNING"
    BY <2>1, <2>2, <2>3, References DEF IInv, ClaimsInStep, Absent
  <2>4. ASSUME NEW k \in KeyId, keys'[k].state = "DONE", keys'[k].expires > now
        PROVE  runs'[keys[k].run] = runs[keys[k].run]
    BY <2>1, <2>2, <2>4, References DEF StillReplayed
  <2>5. Absent.state = "ABSENT"
    BY DEF Absent
  <2> QED
    BY <2>1, <2>2, <2>3, <2>4, <2>5, ClosingStep
<1> QED
  BY <1>1, <1>2

\* Every method of RunnerDB preserves the invariant.
LEMMA InvStep == IInv /\ [Next]_dbVars => IInv'
<1> SUFFICES ASSUME IInv, [Next]_dbVars PROVE IInv'
    OBVIOUS
<1> DEFINE Rest == RowsClaimed /\ ClaimsInStep /\ ResultsBacked
<1>1. TypeOK'
  BY TypeStep DEF IInv
<1>2. UNCHANGED runVars /\ now' \in Nat /\ now' >= now => Rest'
  BY LeaseSteps
<1>3. now \in Nat
  BY DEF IInv, TypeOK
<1> SUFFICES Rest'
    BY <1>1 DEF IInv
<1> HIDE DEF Rest
<1>4. CASE Tick
  BY <1>2, <1>3, <1>4 DEF Tick, runVars, leaseVars
<1>5. ASSUME NEW l \in LeaseIds, NEW t \in Tenants, NEW p \in Projects, NEW rel \in Releases,
             CreateLease(l, t, p, rel)
      PROVE  Rest'
  BY <1>2, <1>3, <1>5 DEF CreateLease, runVars
<1>6. ASSUME NEW l \in LeaseIds, NEW t \in Tenants,
             RenewLeaseCheck(l, t) \/ RenewLeaseUpdate(l, t) \/ DeleteLease(l, t)
      PROVE  Rest'
  BY <1>2, <1>3, <1>6 DEF RenewLeaseCheck, RenewLeaseUpdate, DeleteLease, runVars
<1>7. CASE PurgeExpiredLeases
  BY <1>2, <1>3, <1>7 DEF PurgeExpiredLeases, runVars
<1>8. ASSUME NEW req \in Request, NEW r \in RunIds, BeginRun(req, r) PROVE Rest'
  BY <1>8, BeginRunStep DEF Rest
<1>9. ASSUME NEW r \in RunIds, NEW res \in Result, FinishRun(r, res) PROVE Rest'
  BY <1>9, FinishRunStep DEF Rest
<1>10. ASSUME NEW r \in RunIds, AbandonRun(r) PROVE Rest'
  BY <1>10, AbandonRunStep DEF Rest
<1>11. CASE ResetRunning
  BY <1>11, ResetRunningStep DEF Rest
<1>12. CASE PurgeExpiredIdempotency \/ PurgeOldRuns
  BY <1>12, PurgeStep DEF Rest
<1>13. CASE UNCHANGED dbVars
  BY <1>2, <1>3, <1>13 DEF dbVars, runVars
<1> QED
  BY <1>4, <1>5, <1>6, <1>7, <1>8, <1>9, <1>10, <1>11, <1>12, <1>13 DEF Next

\* The tables stay in step: the inductive invariant behind all the properties below.
THEOREM Invariance == Spec => []IInv
BY InvInit, InvStep, PTL DEF Spec

-----------------------------------------------------------------------------
(* The properties *)

\* One logical request never has two executions in progress, and none is blocked by an
\* execution that is over.
THEOREM ClaimsStayInStep == Spec => []ClaimsInStep
<1>1. IInv => ClaimsInStep
  BY DEF IInv
<1> QED
  BY <1>1, Invariance, PTL

\* The invariant says what is behind every result that may be replayed.
LEMMA InvBacked == IInv => ReplayBacked
<1>1. ASSUME IInv, NEW k \in KeyId, keys[k].state = "DONE", CacheValid(keys[k])
      PROVE  /\ runs[keys[k].run].state = "DONE"
             /\ KeyOf(runs[keys[k].run].req) = k
             /\ runs[keys[k].run].req.fp = keys[k].fp
             /\ runs[keys[k].run].expires = keys[k].expires
             /\ runs[keys[k].run].outcome = OutcomeClass(keys[k].result)
             /\ ~keys[k].result.retryable
  <2>1. keys[k] \in DoneKey /\ keys[k].run \in RunIds
    BY <1>1, KeyRows, References DEF IInv
  <2>2. /\ runs[keys[k].run].state = "DONE"
        /\ runs[keys[k].run].expires = keys[k].expires
        /\ runs[keys[k].run].outcome = OutcomeClass(keys[k].result)
        /\ keys[k].replayable = ~keys[k].result.retryable
    BY <1>1 DEF IInv, ResultsBacked, CacheValid
  <2>3. KeyOf(runs[keys[k].run].req) = k /\ runs[keys[k].run].req.fp = keys[k].fp
    BY <1>1, <2>1, <2>2 DEF IInv, RowsClaimed
  <2>4. keys[k].result.retryable \in BOOLEAN /\ keys[k].replayable
    BY <1>1, <2>1 DEF DoneKey, Result, CacheValid
  <2> QED
    BY <2>2, <2>3, <2>4
<1> QED
  BY <1>1 DEF ReplayBacked

\* Whatever begin_run replays is backed by the history of the run that produced it.
THEOREM ReplaysStayBacked == Spec => []ReplayBacked
BY InvBacked, Invariance, PTL

\* DONE and ABANDONED are final: no late finish_run or abandon_run rewrites history.
THEOREM RunsFreeze == Spec => TerminalRunsFrozen
<1>1. ASSUME IInv, [Next]_dbVars, NEW r \in RunIds, runs[r].state \in {"DONE", "ABANDONED"}
      PROVE  runs'[r] \in {runs[r], Absent}
  <2> USE <1>1
  <2>1. DOMAIN runs = RunIds
    BY DEF IInv, TypeOK
  <2>2. CASE Tick
    BY <2>2 DEF Tick, runVars
  <2>3. ASSUME NEW l \in LeaseIds, NEW t \in Tenants, NEW p \in Projects,
               NEW rel \in Releases, CreateLease(l, t, p, rel)
        PROVE  runs' = runs
    BY <2>3 DEF CreateLease, runVars
  <2>4. ASSUME NEW l \in LeaseIds, NEW t \in Tenants,
               RenewLeaseCheck(l, t) \/ RenewLeaseUpdate(l, t) \/ DeleteLease(l, t)
        PROVE  runs' = runs
    BY <2>4 DEF RenewLeaseCheck, RenewLeaseUpdate, DeleteLease, runVars
  <2>5. CASE PurgeExpiredLeases
    BY <2>5 DEF PurgeExpiredLeases, runVars
  <2>6. ASSUME NEW req \in Request, NEW x \in RunIds, BeginRun(req, x)
        PROVE  runs'[r] = runs[r]
    <3>1. Exists(claims[r]) /\ ~Exists(claims[x])
      BY <2>6 DEF BeginRun, IInv, RowsClaimed
    <3> QED
      BY <2>1, <2>6, <3>1 DEF BeginRun
  <2>7. ASSUME NEW x \in RunIds, NEW res \in Result, FinishRun(x, res)
        PROVE  runs'[r] = runs[r]
    BY <2>1, <2>7 DEF FinishRun, FinishRunAccepts
  <2>8. ASSUME NEW x \in RunIds, AbandonRun(x)
        PROVE  runs'[r] = runs[r]
    BY <2>1, <2>8 DEF AbandonRun
  <2>9. CASE ResetRunning
    BY <2>9 DEF ResetRunning
  <2>10. CASE PurgeExpiredIdempotency
    BY <2>10 DEF PurgeExpiredIdempotency
  <2>11. CASE PurgeOldRuns
    BY <2>11 DEF PurgeOldRuns
  <2>12. CASE UNCHANGED dbVars
    BY <2>12 DEF dbVars
  <2> QED
    BY <2>2, <2>3, <2>4, <2>5, <2>6, <2>7, <2>8, <2>9, <2>10, <2>11, <2>12 DEF Next
<1>2. IInv /\ [Next]_dbVars =>
        [\A r \in RunIds : runs[r].state \in {"DONE", "ABANDONED"} =>
            runs'[r] \in {runs[r], Absent}]_dbVars
  BY <1>1
<1> QED
  BY <1>2, Invariance, PTL DEF Spec, TerminalRunsFrozen

\* A replayable result survives purges, restarts and late callers until it expires.
THEOREM ReplayWindowsKept == Spec => ReplayWindowKept
<1>1. ASSUME IInv, [Next]_dbVars, NEW k \in KeyId, keys[k].state = "DONE", CacheValid(keys[k])
      PROVE  keys'[k] = keys[k]
  <2> USE <1>1
  <2>1. DOMAIN keys = KeyId
    BY DEF IInv, TypeOK
  <2>2. CASE Tick
    BY <2>2 DEF Tick, runVars
  <2>3. ASSUME NEW l \in LeaseIds, NEW t \in Tenants, NEW p \in Projects,
               NEW rel \in Releases, CreateLease(l, t, p, rel)
        PROVE  keys' = keys
    BY <2>3 DEF CreateLease, runVars
  <2>4. ASSUME NEW l \in LeaseIds, NEW t \in Tenants,
               RenewLeaseCheck(l, t) \/ RenewLeaseUpdate(l, t) \/ DeleteLease(l, t)
        PROVE  keys' = keys
    BY <2>4 DEF RenewLeaseCheck, RenewLeaseUpdate, DeleteLease, runVars
  <2>5. CASE PurgeExpiredLeases
    BY <2>5 DEF PurgeExpiredLeases, runVars
  <2>6. ASSUME NEW req \in Request, NEW x \in RunIds, BeginRun(req, x)
        PROVE  keys'[k] = keys[k]
    <3>1. k # KeyOf(req)
      BY <2>6 DEF BeginRun, BeginClaims
    <3> QED
      BY <2>1, <2>6, <3>1 DEF BeginRun
  <2>7. ASSUME NEW x \in RunIds, NEW res \in Result, FinishRun(x, res)
        PROVE  keys'[k] = keys[k]
    BY <2>1, <2>7 DEF FinishRun, FinishRunAccepts, OwnsKey
  <2>8. ASSUME NEW x \in RunIds, AbandonRun(x)
        PROVE  keys'[k] = keys[k]
    BY <2>1, <2>8 DEF AbandonRun, OwnsKey
  <2>9. CASE ResetRunning
    BY <2>9 DEF ResetRunning
  <2>10. CASE PurgeExpiredIdempotency
    <3>1. keys[k].expires \in Nat /\ now \in Nat /\ keys[k].expires > now
      BY KeyRows DEF IInv, TypeOK, DoneKey, CacheValid
    <3>2. ~(keys[k].expires <= now)
      BY <3>1
    <3> QED
      BY <2>10, <3>2 DEF PurgeExpiredIdempotency
  <2>11. CASE PurgeOldRuns
    BY <2>11 DEF PurgeOldRuns
  <2>12. CASE UNCHANGED dbVars
    BY <2>12 DEF dbVars
  <2> QED
    BY <2>2, <2>3, <2>4, <2>5, <2>6, <2>7, <2>8, <2>9, <2>10, <2>11, <2>12 DEF Next
<1>2. IInv /\ [Next]_dbVars =>
        [\A k \in KeyId :
            (keys[k].state = "DONE" /\ CacheValid(keys[k])) => keys'[k] = keys[k]]_dbVars
  BY <1>1
<1> QED
  BY <1>2, Invariance, PTL DEF Spec, ReplayWindowKept

\* A released or purged lease never comes back, and no lease changes its tenant or release,
\* although renew_lease checks in one transaction and updates in the next.
THEOREM LeasesStayGone == Spec => LeasesNeverReturn
<1> DEFINE Kept(l) == /\ ~Exists(leases[l]) => ~Exists(leases'[l])
                      /\ Exists(leases[l]) /\ Exists(leases'[l]) =>
                            /\ leases'[l].tenant = leases[l].tenant
                            /\ leases'[l].release = leases[l].release
<1>1. ASSUME TypeOK, [Next]_dbVars, NEW l \in leased PROVE Kept(l)
  <2> USE <1>1
  <2>1. l \in LeaseIds /\ DOMAIN leases = LeaseIds
    BY DEF TypeOK
  <2>2. CASE UNCHANGED leases
    BY <2>2
  <2>3. ASSUME NEW m \in LeaseIds, NEW t \in Tenants, NEW p \in Projects,
               NEW rel \in Releases, CreateLease(m, t, p, rel)
        PROVE  Kept(l)
    BY <2>1, <2>3 DEF CreateLease
  <2>4. ASSUME NEW m \in LeaseIds, NEW t \in Tenants, RenewLeaseCheck(m, t)
        PROVE  Kept(l)
    BY <2>2, <2>4 DEF RenewLeaseCheck
  <2>5. ASSUME NEW m \in LeaseIds, NEW t \in Tenants, RenewLeaseUpdate(m, t)
        PROVE  Kept(l)
    <3>1. CASE leases'[l] = leases[l]
      BY <3>1
    <3>2. CASE Exists(leases[l]) /\ leases'[l] = [leases[l] EXCEPT !.expires = now + LeaseTTL]
      BY <3>2, LeaseRows, <2>1 DEF LeaseRow
    <3> QED
      BY <2>1, <2>5, <3>1, <3>2 DEF RenewLeaseUpdate
  <2>6. ASSUME NEW m \in LeaseIds, NEW t \in Tenants, DeleteLease(m, t)
        PROVE  Kept(l)
    BY <2>1, <2>6 DEF DeleteLease, Absent
  <2>7. CASE PurgeExpiredLeases
    BY <2>1, <2>7 DEF PurgeExpiredLeases, Absent
  <2>8. ASSUME NEW req \in Request, NEW r \in RunIds, BeginRun(req, r) PROVE Kept(l)
    BY <2>2, <2>8 DEF BeginRun, leaseVars
  <2>9. ASSUME NEW r \in RunIds, NEW res \in Result, FinishRun(r, res) PROVE Kept(l)
    BY <2>2, <2>9 DEF FinishRun, leaseVars
  <2>10. ASSUME NEW r \in RunIds, AbandonRun(r) PROVE Kept(l)
    BY <2>2, <2>10 DEF AbandonRun, leaseVars
  <2>11. CASE Tick \/ ResetRunning \/ PurgeExpiredIdempotency \/ PurgeOldRuns
    BY <2>2, <2>11 DEF Tick, ResetRunning, PurgeExpiredIdempotency, PurgeOldRuns, leaseVars
  <2>12. CASE UNCHANGED dbVars
    BY <2>2, <2>12 DEF dbVars
  <2> QED
    BY <2>3, <2>4, <2>5, <2>6, <2>7, <2>8, <2>9, <2>10, <2>11, <2>12 DEF Next
<1>2. TypeOK /\ [Next]_dbVars => [\A l \in leased : Kept(l)]_dbVars
  BY <1>1
<1> QED
  BY <1>2, TypeCorrect, PTL DEF Spec, LeasesNeverReturn

-----------------------------------------------------------------------------
(* RunnerDB implements IdempotentRequests *)

\* The abstract state is a function of the two tables, the clock and the claims.
LEMMA AbstractUnchanged ==
    ASSUME UNCHANGED <<now, keys, claims>>
    PROVE  UNCHANGED Requests!vars
BY DEF Requests!vars, RequestOf, CacheValid

\* A step that leaves the clock alone leaves every abstract request alone whose row it keeps.
LEMMA AbstractKept ==
    ASSUME now' = now, NEW k \in KeyId, keys'[k] = keys[k]
    PROVE  RequestOf(k)' = RequestOf(k)
BY DEF RequestOf, CacheValid

\* begin_run starts an execution of a request that has neither an execution nor an answer.
LEMMA BeginRunStarts ==
    ASSUME IInv, NEW req \in Request, NEW r \in RunIds, BeginRun(req, r)
    PROVE  Requests!Start(KeyOf(req), req.fp, r)
<1> DEFINE k == KeyOf(req)
<1>1. k \in KeyId
  BY DEF Request, KeyOf, KeyId
<1>2. keys' = [keys EXCEPT ![k] = [state |-> "RUNNING", fp |-> req.fp, run |-> r]]
  BY DEF BeginRun
<1>3. claims' = [claims EXCEPT ![r] = [state |-> "CLAIMED", req |-> req]]
  BY DEF BeginRun
<1>4. now' = now /\ ~Exists(claims[r])
  BY DEF BeginRun
<1>5. DOMAIN keys = KeyId /\ DOMAIN claims = RunIds
  BY DEF IInv, TypeOK
<1>6. keys[k].state # "RUNNING" /\ ~CacheValid(keys[k])
  BY DEF BeginRun, BeginClaims, CacheValid
<1> HIDE DEF k
<1>7. RequestOf(k) = [phase |-> "FREE"]
  BY <1>6 DEF RequestOf
<1>8. RequestOf(k)' = [phase |-> "RUNNING", content |-> req.fp, by |-> r]
  <2>1. keys'[k] = [state |-> "RUNNING", fp |-> req.fp, run |-> r]
    BY <1>1, <1>2, <1>5
  <2> QED
    BY <2>1 DEF RequestOf
<1>9. ASSUME NEW i \in KeyId, i # k PROVE RequestOf(i)' = RequestOf(i)
  BY <1>2, <1>4, <1>5, <1>9, AbstractKept
<1>10. [i \in KeyId |-> RequestOf(i)]' =
         [[i \in KeyId |-> RequestOf(i)] EXCEPT
            ![k] = [phase |-> "RUNNING", content |-> req.fp, by |-> r]]
  BY <1>8, <1>9
<1>11. {x \in RunIds : Exists(claims[x])}' = {x \in RunIds : Exists(claims[x])} \cup {r}
  BY <1>3, <1>5
<1> QED
  BY <1>1, <1>4, <1>7, <1>10, <1>11 DEF Requests!Start, Requests!Free, Requests!Running, k

\* finish_run answers the request, or frees it when its result is not kept.
LEMMA FinishRunAnswers ==
    ASSUME IInv, NEW r \in RunIds, NEW res \in Result, FinishRun(r, res)
    PROVE  Requests!Next
<1>k. PICK k \in KeyId : k = KeyOf(claims[r].req)
  BY ClaimRows DEF FinishRun, FinishRunAccepts, IInv
<1> DEFINE row == [state |-> "DONE", fp |-> keys[k].fp, run |-> r,
                   replayable |-> ~res.retryable, result |-> res, expires |-> ExpiresAt(res)]
<1>2. keys' = [keys EXCEPT ![k] = row]
  BY <1>k DEF FinishRun
<1>3. now' = now /\ claims' = claims
  BY DEF FinishRun
<1>4. keys[k].state = "RUNNING" /\ keys[k].run = r
  BY <1>k DEF FinishRun, FinishRunAccepts, OwnsKey
<1>5. DOMAIN keys = KeyId
  BY DEF IInv, TypeOK
<1>6. /\ row.state = "DONE" /\ row.fp = keys[k].fp /\ row.run = r /\ row.result = res
      /\ row.replayable = ~res.retryable /\ row.expires = ExpiresAt(res)
  OBVIOUS
<1> HIDE DEF row
<1>7. keys'[k] = row
  BY <1>2, <1>5
<1>8. ASSUME NEW i \in KeyId, i # k PROVE RequestOf(i)' = RequestOf(i)
  BY <1>2, <1>3, <1>5, <1>8, AbstractKept
<1>9. RequestOf(k) = [phase |-> "RUNNING", content |-> keys[k].fp, by |-> r]
  BY <1>4 DEF RequestOf
<1>10. CASE CacheValid(row)
  <2>1. ~res.retryable
    BY <1>6, <1>10 DEF CacheValid
  <2>2. ExpiresAt(res) = now + Retention
    BY <2>1 DEF ExpiresAt
  <2>3. RequestOf(k)' = [phase |-> "ANSWERED", content |-> keys[k].fp, by |-> r,
                         answer |-> res, until |-> now + Retention]
    BY <1>3, <1>6, <1>7, <1>10, <2>2 DEF RequestOf, CacheValid
  <2> DEFINE f == [i \in KeyId |-> RequestOf(i)]
  <2>4. /\ f[k].phase = "RUNNING" /\ f[k].content = keys[k].fp /\ f[k].by = r
        /\ \A i \in KeyId \ {k} : f'[i] = f[i]
    BY <1>8, <1>9
  <2>5. f'[k] = Requests!Answered(f[k].content, f[k].by, res, now + Retention)
    BY <2>3, <2>4 DEF Requests!Answered
  <2>6. f' = [f EXCEPT ![k] = Requests!Answered(f[k].content, f[k].by, res, now + Retention)]
    BY <2>4, <2>5
  <2>7. UNCHANGED <<now, {x \in RunIds : Exists(claims[x])}>>
    BY <1>3
  <2>8. Requests!Answer(k, res)
    BY <2>4, <2>6, <2>7, Zenon DEF Requests!Answer
  <2> QED
    BY <2>1, <2>8 DEF Requests!Next
<1>11. CASE ~CacheValid(row)
  <2>1. RequestOf(k)' = [phase |-> "FREE"]
    BY <1>3, <1>6, <1>7, <1>11 DEF RequestOf, CacheValid
  <2>2. Requests!GiveUp({k})
    BY <1>3, <1>8, <1>9, <2>1 DEF Requests!GiveUp, Requests!Free
  <2> QED
    BY <2>2 DEF Requests!Next
<1> QED
  BY <1>10, <1>11

\* abandon_run and reset_running give up executions that are still in progress, no others.
LEMMA KeysGivenUp ==
    ASSUME UNCHANGED <<now, claims>>, NEW S \in SUBSET KeyId,
           \A k \in S : keys[k].state = "RUNNING" /\ keys'[k] = Absent,
           \A k \in KeyId \ S : keys'[k] = keys[k]
    PROVE  Requests!Next
<1>1. ASSUME NEW k \in KeyId \ S PROVE RequestOf(k)' = RequestOf(k)
  BY AbstractKept
<1>2. ASSUME NEW k \in S PROVE RequestOf(k)' = [phase |-> "FREE"]
  BY DEF RequestOf, CacheValid, Absent
<1>3. ASSUME NEW k \in S PROVE RequestOf(k).phase = "RUNNING"
  BY DEF RequestOf
<1>4. Requests!GiveUp(S)
  BY <1>1, <1>2, <1>3 DEF Requests!GiveUp, Requests!Free
<1> QED
  BY <1>4 DEF Requests!Next

\* Time ends the answers whose retention is over, and changes no other request.
LEMMA TickPasses ==
    ASSUME IInv, Tick
    PROVE  Requests!Pass
<1>1. now' = now + 1 /\ now \in Nat /\ keys' = keys /\ claims' = claims
  BY DEF Tick, runVars, IInv, TypeOK
<1>2. ASSUME NEW k \in KeyId
      PROVE  RequestOf(k)' = IF RequestOf(k).phase = "ANSWERED" /\ RequestOf(k).until <= now + 1
                             THEN [phase |-> "FREE"] ELSE RequestOf(k)
  <2>1. CASE keys[k].state = "RUNNING"
    BY <1>1, <2>1 DEF RequestOf
  <2>2. CASE keys[k].state = "DONE" /\ CacheValid(keys[k])
    <3>1. keys[k].expires \in Nat
      BY <2>2, KeyRows DEF IInv, DoneKey
    <3>2. RequestOf(k).phase = "ANSWERED" /\ RequestOf(k).until = keys[k].expires
      BY <2>2 DEF RequestOf
    <3>3. CASE keys[k].expires <= now + 1
      BY <1>1, <2>2, <3>1, <3>2, <3>3 DEF RequestOf, CacheValid
    <3>4. CASE ~(keys[k].expires <= now + 1)
      BY <1>1, <2>2, <3>1, <3>2, <3>4 DEF RequestOf, CacheValid
    <3> QED
      BY <3>3, <3>4
  <2>3. CASE keys[k].state # "RUNNING" /\ ~CacheValid(keys[k])
    <3>1. ~(CacheValid(keys[k])')
      <4>1. CASE keys[k].state = "DONE"
        <5>1. keys[k].expires \in Nat
          BY <4>1, KeyRows DEF IInv, DoneKey
        <5> QED
          BY <1>1, <2>3, <5>1 DEF CacheValid
      <4>2. CASE keys[k].state # "DONE"
        BY <1>1, <4>2 DEF CacheValid
      <4> QED
        BY <4>1, <4>2
    <3> QED
      BY <1>1, <2>3, <3>1 DEF RequestOf
  <2> QED
    BY <2>1, <2>2, <2>3 DEF CacheValid
<1>3. {r \in RunIds : Exists(claims[r])}' = {r \in RunIds : Exists(claims[r])}
  BY <1>1
<1>4. [k \in KeyId |-> RequestOf(k)]' =
        [k \in KeyId |-> IF RequestOf(k).phase = "ANSWERED" /\ RequestOf(k).until <= now + 1
                         THEN [phase |-> "FREE"] ELSE RequestOf(k)]
  BY <1>2
<1> QED
  BY <1>1, <1>3, <1>4 DEF Requests!Pass, Requests!Over, Requests!Free

\* Each method of RunnerDB is one step of IdempotentRequests or none.
LEMMA PromiseStep ==
    IInv /\ [Next]_dbVars => [Requests!Next]_(Requests!vars)
<1> SUFFICES ASSUME IInv, [Next]_dbVars PROVE Requests!Next \/ UNCHANGED Requests!vars
    OBVIOUS
<1>1. CASE Tick
  BY <1>1, TickPasses DEF Requests!Next
<1>2. ASSUME NEW l \in LeaseIds, NEW t \in Tenants, NEW p \in Projects, NEW rel \in Releases,
             CreateLease(l, t, p, rel)
      PROVE  UNCHANGED Requests!vars
  BY <1>2, AbstractUnchanged DEF CreateLease, runVars
<1>3. ASSUME NEW l \in LeaseIds, NEW t \in Tenants,
             RenewLeaseCheck(l, t) \/ RenewLeaseUpdate(l, t) \/ DeleteLease(l, t)
      PROVE  UNCHANGED Requests!vars
  BY <1>3, AbstractUnchanged DEF RenewLeaseCheck, RenewLeaseUpdate, DeleteLease, runVars
<1>4. CASE PurgeExpiredLeases
  BY <1>4, AbstractUnchanged DEF PurgeExpiredLeases, runVars
<1>5. ASSUME NEW req \in Request, NEW r \in RunIds, BeginRun(req, r)
      PROVE  Requests!Next
  <2>1. KeyOf(req) \in KeyId /\ req.fp \in Fingerprints
    BY DEF Request, KeyOf, KeyId
  <2> QED
    BY <1>5, <2>1, BeginRunStarts DEF Requests!Next
<1>6. ASSUME NEW r \in RunIds, NEW res \in Result, FinishRun(r, res)
      PROVE  Requests!Next
  BY <1>6, FinishRunAnswers
<1>7. ASSUME NEW r \in RunIds, AbandonRun(r)
      PROVE  Requests!Next
  <2> DEFINE k == KeyOf(claims[r].req)
             S == IF OwnsKey(r) THEN {k} ELSE {}
  <2>1. k \in KeyId /\ DOMAIN keys = KeyId
    BY <1>7, ClaimRows DEF AbandonRun, IInv, TypeOK
  <2>2. keys' = [keys EXCEPT ![k] = IF OwnsKey(r) THEN Absent ELSE keys[k]]
    BY <1>7 DEF AbandonRun
  <2>3. UNCHANGED <<now, claims>>
    BY <1>7 DEF AbandonRun
  <2>4. OwnsKey(r) => keys[k].state = "RUNNING"
    BY DEF OwnsKey
  <2>5. S \in SUBSET KeyId
    BY <2>1
  <2> HIDE DEF k
  <2>6. \A i \in S : keys[i].state = "RUNNING" /\ keys'[i] = Absent
    BY <2>1, <2>2, <2>4
  <2>7. \A i \in KeyId \ S : keys'[i] = keys[i]
    BY <2>1, <2>2
  <2> HIDE DEF S
  <2> QED
    BY <2>3, <2>5, <2>6, <2>7, KeysGivenUp
<1>8. CASE ResetRunning
  <2> DEFINE S == {k \in KeyId : keys[k].state = "RUNNING"}
  <2>1. UNCHANGED <<now, claims>>
    BY <1>8 DEF ResetRunning
  <2>2. \A k \in S : keys[k].state = "RUNNING" /\ keys'[k] = Absent
    BY <1>8 DEF ResetRunning
  <2>3. \A k \in KeyId \ S : keys'[k] = keys[k]
    BY <1>8 DEF ResetRunning
  <2>4. S \in SUBSET KeyId
    OBVIOUS
  <2> HIDE DEF S
  <2> QED
    BY <2>1, <2>2, <2>3, <2>4, KeysGivenUp
<1>9. CASE PurgeExpiredIdempotency
  <2>1. UNCHANGED <<now, claims>>
    BY <1>9 DEF PurgeExpiredIdempotency
  <2>2. ASSUME NEW k \in KeyId PROVE RequestOf(k)' = RequestOf(k)
    <3>1. CASE keys'[k] = keys[k]
      BY <2>1, <3>1, AbstractKept
    <3>2. CASE keys'[k] # keys[k]
      <4>1. keys[k].state = "DONE" /\ keys[k].expires <= now /\ keys'[k] = Absent
        BY <1>9, <3>2 DEF PurgeExpiredIdempotency
      <4>2. keys[k].expires \in Nat /\ now \in Nat
        BY <4>1, KeyRows DEF IInv, TypeOK, DoneKey
      <4>3. ~CacheValid(keys[k])
        BY <4>1, <4>2 DEF CacheValid
      <4> QED
        BY <4>1, <4>3 DEF RequestOf, CacheValid, Absent
    <3> QED
      BY <3>1, <3>2
  <2> QED
    BY <2>1, <2>2 DEF Requests!vars
<1>10. CASE PurgeOldRuns
  BY <1>10, AbstractUnchanged DEF PurgeOldRuns
<1>11. CASE UNCHANGED dbVars
  BY <1>11, AbstractUnchanged DEF dbVars
<1> QED
  BY <1>1, <1>2, <1>3, <1>4, <1>5, <1>6, <1>7, <1>8, <1>9, <1>10, <1>11 DEF Next

\* Empty tables: every request is free.
LEMMA PromiseInit == Init => Requests!Init
BY DEF Init, Requests!Init, Requests!Free, RequestOf, CacheValid, Absent

\* The Runner's tables implement the promise made to the client of an idempotency key, for
\* every retention, whatever callers that outlived a restart still do: at most one execution
\* at a time, and the recorded answer, unchanged, for exactly the retention.
THEOREM PromiseKept == Spec => KeepsPromise
BY PromiseInit, PromiseStep, Invariance, PTL DEF Spec, KeepsPromise, Requests!Spec
=============================================================================
