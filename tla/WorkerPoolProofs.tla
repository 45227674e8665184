-------------------------- MODULE WorkerPoolProofs --------------------------
(***************************************************************************)
(* Machine-checked theorems about WorkerPool, for every set of tenants,    *)
(* releases, workers and threads, every limit and every set of faults.     *)
(***************************************************************************)
EXTENDS WorkerPool, FiniteSetTheorems, SequenceTheorems, TLAPS

-----------------------------------------------------------------------------
(* The inductive invariant *)

Deleting == {"backend", "release_live", "release_live_raise"}

Creating == {"slot", "create", "bootstrap", "undo", "unreserve"}

Stales == AcquireCall \cup RetireCall

\* The locals c that a thread may have at place p.
Fits(p, c) ==
    /\ p \in {"ready", "raised"} => c = NoCall
    /\ p \in {"using", "append"} => c \in UseCall
    /\ p = "ref" => c \in RefCall
    /\ p = "stale" => c \in Stales
    /\ p \in Deleting => c \in Stales /\ c.stale # <<>>
    /\ p \in Creating \cup {"install"} => c \in AcquireCall /\ c.stale = <<>>
    /\ p \in {"slot", "create"} => c.w = NoWorker
    /\ p \in {"install", "bootstrap", "undo"} => c.w \in Workers

Locals == \A t \in Threads : Fits(pc[t], call[t])

\* The threads that have a permit of the creation semaphore.
SlotThreads == {t \in Threads : pc[t] \in {"create", "bootstrap"}}

\* Every permit that is taken is given back by the thread that took it.
Slots == creating = Cardinality(SlotThreads)

Typed == TypeOK /\ Locals /\ Slots

-----------------------------------------------------------------------------
(* Sequences, and the locals of one thread *)

\* _destroy takes the next worker of a list that is not empty.
LEMMA StaleParts ==
    ASSUME NEW s \in Seq(Workers), s # <<>>
    PROVE  /\ Head(s) \in Workers /\ Tail(s) \in Seq(Workers)
           /\ ToSet(s) = {Head(s)} \cup ToSet(Tail(s))
<1>1. Len(s) \in Nat \ {0} /\ 1 \in DOMAIN s /\ s[1] = Head(s) /\ Head(s) \in Workers
  OBVIOUS
<1>2. Tail(s) \in Seq(Workers) /\ DOMAIN Tail(s) = 1..(Len(s) - 1)
  BY <1>1
<1>3. \A i \in DOMAIN Tail(s) : Tail(s)[i] = s[i + 1] /\ i + 1 \in DOMAIN s
  BY <1>1, <1>2
<1>4. \A i \in DOMAIN s : i = 1 \/ (i - 1 \in DOMAIN Tail(s) /\ Tail(s)[i - 1] = s[i])
  BY <1>1, <1>2
<1>5. ToSet(Tail(s)) \subseteq ToSet(s)
  BY <1>3 DEF ToSet
<1>6. ToSet(s) \subseteq {Head(s)} \cup ToSet(Tail(s))
  BY <1>1, <1>4 DEF ToSet
<1> QED
  BY <1>1, <1>2, <1>5, <1>6 DEF ToSet

\* A list of one worker.
LEMMA StaleOne ==
    ASSUME NEW w \in Workers
    PROVE  <<w>> \in Seq(Workers) /\ <<w>> # <<>> /\ Head(<<w>>) = w /\ ToSet(<<w>>) = {w}
BY DEF ToSet

\* A function on 1..n is a list.
LEMMA ListOf ==
    ASSUME NEW n \in Nat, NEW f \in [1..n -> Workers]
    PROVE  f \in Seq(Workers) /\ Len(f) = n /\ DOMAIN f = 1..n
BY SeqDef

\* An empty list.
LEMMA StaleNone == <<>> \in Seq(Workers) /\ ToSet(<<>>) = {}
BY DEF ToSet

\* Whatever place a thread is at, its locals have the type of TypeOK.
LEMMA FitsTyped ==
    ASSUME NEW p \in Places, NEW c, Fits(p, c)
    PROVE  c \in AcquireCall \cup UseCall \cup RetireCall \cup RefCall \cup {NoCall}
BY DEF Places, Fits, Stales, Deleting, Creating

\* A step of one thread that leaves it with fitting locals.
LEMMA ThreadMoves ==
    ASSUME TypeOK, Locals, NEW t \in Threads, NEW p \in Places, NEW c, Fits(p, c),
           pc' = [pc EXCEPT ![t] = p], call' = [call EXCEPT ![t] = c]
    PROVE  /\ pc' \in [Threads -> Places]
           /\ call' \in [Threads ->
                 AcquireCall \cup UseCall \cup RetireCall \cup RefCall \cup {NoCall}]
           /\ Locals'
<1>1. c \in AcquireCall \cup UseCall \cup RetireCall \cup RefCall \cup {NoCall}
  BY FitsTyped
<1>2. \A u \in Threads : pc'[u] = IF u = t THEN p ELSE pc[u]
  BY DEF TypeOK
<1>3. \A u \in Threads : call'[u] = IF u = t THEN c ELSE call[u]
  BY DEF TypeOK
<1>4. Locals'
  BY <1>2, <1>3 DEF Locals
<1> QED
  BY <1>1, <1>4 DEF TypeOK

\* A step of one thread that keeps its locals.
LEMMA ThreadGoes ==
    ASSUME TypeOK, Locals, NEW t \in Threads, NEW p \in Places, Fits(p, call[t]),
           pc' = [pc EXCEPT ![t] = p], call' = call
    PROVE  /\ pc' \in [Threads -> Places]
           /\ call' \in [Threads ->
                 AcquireCall \cup UseCall \cup RetireCall \cup RefCall \cup {NoCall}]
           /\ Locals'
<1>1. \A u \in Threads : pc'[u] = IF u = t THEN p ELSE pc[u]
  BY DEF TypeOK
<1>2. Locals'
  BY <1>1 DEF Locals
<1> QED
  BY <1>2 DEF TypeOK

-----------------------------------------------------------------------------
(* Type correctness *)

\* The key of a worker that does not exist yet is one.
LEMMA AnyKeyTyped == AnyKey \in PoolKey
<1>1. PICK n \in Tenants, f \in Flavors : TRUE
  BY PoolAssumption
<1>2. <<n, f>> \in PoolKey
  BY DEF PoolKey
<1> QED
  BY <1>2 DEF AnyKey

\* A pool that has just started.
LEMMA TypeInit == Init => TypeOK /\ Locals
<1> SUFFICES ASSUME Init PROVE TypeOK /\ Locals
    OBVIOUS
<1>2. idle \in [PoolKey -> Seq(Workers)] /\ home \in [Workers -> PoolKey]
  BY AnyKeyTyped DEF Init
<1>3. Locals
  BY DEF Init, Locals, Fits, Deleting, Creating
<1> QED
  BY <1>2, <1>3 DEF Init, TypeOK, NoCall, Places

\* The counters keep their types.
LEMMA QuotaTyped ==
    ASSUME TypeOK, NEW n \in Tenants, ReserveLive(n) \/ ReleaseLive(n)
    PROVE  live' \in Int /\ tenantLive' \in [Tenants -> Nat] /\ creating' = creating
BY DEF TypeOK, ReserveLive, ReleaseLive

\* The worker that a thread is deleting, and its tenant.
LEMMA DeletingHead ==
    ASSUME TypeOK, Locals, NEW t \in Threads,
           pc[t] \in Deleting \/ (pc[t] = "stale" /\ call[t].stale # <<>>)
    PROVE  /\ call[t] \in Stales
           /\ call[t].stale \in Seq(Workers) /\ call[t].stale # <<>>
           /\ Head(call[t].stale) \in Workers
           /\ home[Head(call[t].stale)] \in PoolKey /\ home[Head(call[t].stale)][1] \in Tenants
<1>1. call[t] \in Stales /\ call[t].stale # <<>>
  BY DEF Locals, Fits
<1>2. call[t].stale \in Seq(Workers)
  BY <1>1 DEF Stales, AcquireCall, RetireCall
<1>3. Head(call[t].stale) \in Workers
  BY <1>1, <1>2, StaleParts
<1> QED
  BY <1>1, <1>2, <1>3 DEF TypeOK, PoolKey

\* A list of stale workers that has lost its first is still one.
LEMMA ShorterFits ==
    ASSUME TypeOK, Locals, NEW t \in Threads, call[t] \in Stales, call[t].stale # <<>>
    PROVE  Fits("stale", [call[t] EXCEPT !.stale = Tail(call[t].stale)])
<1>1. call[t].stale \in Seq(Workers)
  BY DEF Stales, AcquireCall, RetireCall
<1>2. Tail(call[t].stale) \in Seq(Workers)
  BY <1>1, StaleParts
<1> QED
  BY <1>2 DEF Fits, Stales, AcquireCall, RetireCall, Deleting, Creating

\* Every step of a call leaves well-typed state and fitting locals.
LEMMA StepTyped ==
    ASSUME TypeOK, Locals, NEW t \in Threads, Step(t), creating' \in Nat
    PROVE  TypeOK' /\ Locals'
<1> USE DEF workerVars, quotaVars
<1> DEFINE Moved == /\ pc' \in [Threads -> Places]
                    /\ call' \in [Threads ->
                          AcquireCall \cup UseCall \cup RetireCall \cup RefCall \cup {NoCall}]
                    /\ Locals'
<1>0. Fits(pc[t], call[t])
  BY DEF Locals
<1>r. \A p \in {"ready", "raised"} : Return(t, p) => Moved
  <2> SUFFICES ASSUME NEW p \in {"ready", "raised"}, Return(t, p) PROVE Moved
      OBVIOUS
  <2>1. Fits(p, NoCall) /\ p \in Places
    BY DEF Fits, Deleting, Creating, Places
  <2> QED
    BY <2>1, ThreadMoves DEF Return
<1>1. CASE EnsureSandboxTTL(t)
  <2>1. Fits("install", call[t]) /\ "install" \in Places
    BY <1>0, <1>1 DEF EnsureSandboxTTL, PastStale, Fits, Deleting, Creating, Places,
        Stales, AcquireCall, RetireCall
  <2>2. Moved
    BY <1>1, <2>1, ThreadGoes DEF EnsureSandboxTTL, Goto
  <2> QED
    BY <1>1, <2>2 DEF EnsureSandboxTTL, TypeOK
<1>2. CASE RenewFails(t) \/ InstallFails(t)
  <2>1. call[t].w \in Workers
    BY <1>0, <1>2 DEF RenewFails, InstallFails, PastStale, Fits, Stales, AcquireCall, RetireCall
  <2>2. Fits("stale", [op |-> "fail", stale |-> <<call[t].w>>]) /\ "stale" \in Places
    BY <2>1, StaleOne DEF Fits, Deleting, Creating, Places, Stales, RetireCall
  <2>3. AcquireFails(t)
    BY <1>2 DEF RenewFails, InstallFails
  <2>4. Moved
    BY <2>2, <2>3, ThreadMoves DEF AcquireFails, Goto
  <2> QED
    BY <2>3, <2>4 DEF AcquireFails, TypeOK
<1>3. CASE EnsureRelease(t)
  <2>1. call[t] \in AcquireCall /\ call[t].w \in Workers
    BY <1>0, <1>3 DEF EnsureRelease, Fits
  <2> DEFINE c == [op |-> "use", tenant |-> call[t].tenant, rel |-> call[t].rel, w |-> call[t].w]
  <2>2. Fits("using", c) /\ "using" \in Places
    BY <2>1 DEF Fits, Deleting, Creating, Places, UseCall, AcquireCall
  <2>3. call' = [call EXCEPT ![t] = c] /\ pc' = [pc EXCEPT ![t] = "using"]
    BY <1>3 DEF EnsureRelease, Goto, TypeOK
  <2>4. Moved
    BY <2>2, <2>3, ThreadMoves
  <2>5. installed' \in [Workers -> SUBSET Releases]
    BY <1>3, <2>1 DEF EnsureRelease, TypeOK, AcquireCall
  <2> QED
    BY <1>3, <2>4, <2>5 DEF EnsureRelease, TypeOK
<1>4. CASE ReserveFails(t)
  BY <1>4, <1>r DEF ReserveFails, TypeOK
<1>5. CASE Reserve(t)
  <2>1. Fits("slot", call[t]) /\ "slot" \in Places /\ call[t].tenant \in Tenants
    BY <1>0, <1>5 DEF Reserve, PastStale, Fits, Deleting, Creating, Places,
        Stales, AcquireCall, RetireCall
  <2>2. Moved
    BY <1>5, <2>1, ThreadGoes DEF Reserve, Goto
  <2> QED
    BY <1>5, <2>1, <2>2, QuotaTyped DEF Reserve, TypeOK
<1>6. CASE CreationSlot(t)
  <2>1. Fits("create", call[t]) /\ "create" \in Places
    BY <1>0, <1>6 DEF CreationSlot, Fits, Deleting, Creating, Places
  <2>2. Moved
    BY <1>6, <2>1, ThreadGoes DEF CreationSlot, Goto
  <2> QED
    BY <1>6, <2>2 DEF CreationSlot, TypeOK
<1>7. ASSUME NEW w \in Workers, Create(t, w) PROVE TypeOK' /\ Locals'
  <2>1. call[t] \in AcquireCall /\ call[t].stale = <<>>
    BY <1>0, <1>7 DEF Create, Fits, Creating
  <2> DEFINE c == [call[t] EXCEPT !.w = w]
  <2>2. Fits("bootstrap", c) /\ "bootstrap" \in Places
    BY <2>1 DEF Fits, Deleting, Creating, Places, AcquireCall
  <2>3. call' = [call EXCEPT ![t] = c] /\ pc' = [pc EXCEPT ![t] = "bootstrap"]
    BY <1>7 DEF Create, Goto, TypeOK
  <2>4. Moved
    BY <2>2, <2>3, ThreadMoves
  <2>5. home' \in [Workers -> PoolKey]
    BY <1>7, <2>1, PoolAssumption DEF Create, TypeOK, AcquireCall, PoolKey
  <2>6. installed' \in [Workers -> SUBSET Releases]
    BY <1>7 DEF Create, TypeOK
  <2> QED
    BY <1>7, <2>4, <2>5, <2>6 DEF Create, TypeOK
<1>8. CASE CreateFails(t)
  <2>1. Fits("unreserve", call[t]) /\ "unreserve" \in Places
    BY <1>0, <1>8 DEF CreateFails, Fits, Deleting, Creating, Places
  <2>2. Moved
    BY <1>8, <2>1, ThreadGoes DEF CreateFails, Goto
  <2> QED
    BY <1>8, <2>2 DEF CreateFails, TypeOK
<1>9. CASE Bootstrap(t)
  <2>1. call[t] \in AcquireCall /\ call[t].w \in Workers
    BY <1>0, <1>9 DEF Bootstrap, Fits, Creating
  <2> DEFINE c == [op |-> "use", tenant |-> call[t].tenant, rel |-> call[t].rel, w |-> call[t].w]
  <2>2. Fits("using", c) /\ "using" \in Places
    BY <2>1 DEF Fits, Deleting, Creating, Places, UseCall, AcquireCall
  <2>3. call' = [call EXCEPT ![t] = c] /\ pc' = [pc EXCEPT ![t] = "using"]
    BY <1>9 DEF Bootstrap, Goto, TypeOK
  <2>4. Moved
    BY <2>2, <2>3, ThreadMoves
  <2>5. installed' \in [Workers -> SUBSET Releases]
    BY <1>9, <2>1 DEF Bootstrap, TypeOK, AcquireCall
  <2> QED
    BY <1>9, <2>1, <2>4, <2>5 DEF Bootstrap, TypeOK
<1>10. CASE BootstrapFails(t)
  <2>1. Fits("undo", call[t]) /\ "undo" \in Places
    BY <1>0, <1>10 DEF BootstrapFails, Fits, Deleting, Creating, Places
  <2>2. Moved
    BY <1>10, <2>1, ThreadGoes DEF BootstrapFails, Goto
  <2> QED
    BY <1>10, <2>2 DEF BootstrapFails, TypeOK
<1>11. CASE UndoCreate(t)
  <2>1. Fits("unreserve", call[t]) /\ "unreserve" \in Places
    BY <1>0, <1>11 DEF UndoCreate, Fits, Deleting, Creating, Places
  <2>2. Moved
    BY <1>11, <2>1, ThreadGoes DEF UndoCreate, Goto
  <2> QED
    BY <1>11, <2>2 DEF UndoCreate, TypeOK
<1>12. CASE Unreserve(t)
  <2>1. call[t].tenant \in Tenants
    BY <1>0, <1>12 DEF Unreserve, Fits, Creating, AcquireCall
  <2> QED
    BY <1>12, <2>1, <1>r, QuotaTyped DEF Unreserve, TypeOK
<1>13. CASE ReleaseAppend(t)
  <2>1. call[t].w \in Workers
    BY <1>0, <1>13 DEF ReleaseAppend, Fits, UseCall
  <2>2. home[call[t].w] \in PoolKey
    BY <2>1 DEF TypeOK
  <2>3. Append(idle[home[call[t].w]], call[t].w) \in Seq(Workers)
    BY <2>1, <2>2 DEF TypeOK
  <2>4. idle' \in [PoolKey -> Seq(Workers)]
    BY <1>13, <2>3 DEF ReleaseAppend, TypeOK
  <2> QED
    BY <1>13, <2>4, <1>r DEF ReleaseAppend, TypeOK
<1>14. CASE DestroySkip(t)
  <2>1. call[t] \in Stales /\ call[t].stale # <<>>
    BY <1>14, DeletingHead DEF DestroySkip, Busy
  <2> DEFINE c == [call[t] EXCEPT !.stale = Tail(call[t].stale)]
  <2>2. Fits("stale", c) /\ "stale" \in Places
    BY <2>1, ShorterFits DEF Places
  <2>3. call' = [call EXCEPT ![t] = c] /\ pc' = [pc EXCEPT ![t] = "stale"]
    BY <1>14 DEF DestroySkip, NextStale, Busy, TypeOK
  <2>4. Moved
    BY <2>2, <2>3, ThreadMoves
  <2> QED
    BY <1>14, <2>4 DEF DestroySkip, TypeOK
<1>15. CASE DestroyMark(t)
  <2>1. Fits("backend", call[t]) /\ "backend" \in Places
    BY <1>0, <1>15 DEF DestroyMark, Busy, Fits, Deleting, Creating, Places
  <2>2. Moved
    BY <1>15, <2>1, ThreadGoes DEF DestroyMark, Goto
  <2> QED
    BY <1>15, <2>2 DEF DestroyMark, TypeOK
<1>16. CASE DestroyBackend(t)
  <2>1. Fits("release_live", call[t]) /\ "release_live" \in Places
    BY <1>0, <1>16 DEF DestroyBackend, Fits, Deleting, Creating, Places
  <2>2. Moved
    BY <1>16, <2>1, ThreadGoes DEF DestroyBackend, Goto
  <2> QED
    BY <1>16, <2>2 DEF DestroyBackend, TypeOK
<1>17. CASE DestroyBackendFails(t)
  <2>1. Fits("release_live_raise", call[t]) /\ "release_live_raise" \in Places
    BY <1>0, <1>17 DEF DestroyBackendFails, Fits, Deleting, Creating, Places
  <2>2. Moved
    BY <1>17, <2>1, ThreadGoes DEF DestroyBackendFails, Goto
  <2> QED
    BY <1>17, <2>2 DEF DestroyBackendFails, TypeOK
<1>18. CASE DestroyReleaseLive(t)
  <2>1. call[t] \in Stales /\ call[t].stale # <<>> /\ home[Head(call[t].stale)][1] \in Tenants
    BY <1>18, DeletingHead DEF DestroyReleaseLive, Deleting
  <2> DEFINE c == [call[t] EXCEPT !.stale = Tail(call[t].stale)]
  <2>2. Fits("stale", c) /\ "stale" \in Places
    BY <2>1, ShorterFits DEF Places
  <2>3. call' = [call EXCEPT ![t] = c] /\ pc' = [pc EXCEPT ![t] = "stale"]
    BY <1>18 DEF DestroyReleaseLive, NextStale, Goto, TypeOK
  <2>4. Moved
    BY <2>2, <2>3, ThreadMoves
  <2> QED
    BY <1>18, <2>1, <2>4, QuotaTyped DEF DestroyReleaseLive, TypeOK
<1>19. CASE DestroyReleaseLiveRaise(t)
  <2>1. home[Head(call[t].stale)][1] \in Tenants
    BY <1>19, DeletingHead DEF DestroyReleaseLiveRaise, Deleting
  <2> QED
    BY <1>19, <2>1, <1>r, QuotaTyped DEF DestroyReleaseLiveRaise, TypeOK
<1>20. CASE RetireDone(t)
  <2>1. Moved
    BY <1>20, <1>r DEF RetireDone
  <2> QED
    BY <1>20, <2>1 DEF RetireDone, TypeOK
<1>21. CASE Handled(t)
  <2>1. Fits("ready", call[t]) /\ "ready" \in Places
    BY <1>0, <1>21 DEF Handled, Fits, Deleting, Creating, Places
  <2>2. Moved
    BY <1>21, <2>1, ThreadGoes DEF Handled, Goto
  <2> QED
    BY <1>21, <2>2 DEF Handled, TypeOK
<1> QED
  BY <1>1, <1>2, <1>3, <1>4, <1>5, <1>6, <1>7, <1>8, <1>9, <1>10, <1>11, <1>12, <1>13, <1>14,
     <1>15, <1>16, <1>17, <1>18, <1>19, <1>20, <1>21 DEF Step

\* The creation semaphore: only creation_slot takes a permit, and every way out of it gives the
\* permit back, once.
LEMMA StepSlots ==
    ASSUME TypeOK, Slots, NEW t \in Threads, Step(t)
    PROVE  Slots' /\ creating' \in Nat
<1> USE DEF workerVars, quotaVars
<1>1. IsFiniteSet(Threads)
  BY PoolAssumption, FS_AddElement DEF Threads
<1>2. IsFiniteSet(SlotThreads) /\ Cardinality(SlotThreads) \in Nat
  BY <1>1, FS_Subset, FS_CardinalityType DEF SlotThreads
<1>3. \A u \in Threads : u # t => pc'[u] = pc[u]
  BY DEF TypeOK, Step, EnsureSandboxTTL, RenewFails, InstallFails, AcquireFails, EnsureRelease,
      ReserveFails, Reserve, CreationSlot, Create, CreateFails, Bootstrap, BootstrapFails,
      UndoCreate, Unreserve, ReleaseAppend, DestroySkip, DestroyMark, DestroyBackend,
      DestroyBackendFails, DestroyReleaseLive, DestroyReleaseLiveRaise, RetireDone, Handled,
      Goto, Return
<1>4. CASE CreationSlot(t)
  <2>1. t \notin SlotThreads /\ SlotThreads' = SlotThreads \cup {t}
    BY <1>3, <1>4 DEF CreationSlot, SlotThreads, Goto, TypeOK
  <2>2. Cardinality(SlotThreads') = Cardinality(SlotThreads) + 1
    BY <1>2, <2>1, FS_AddElement
  <2> QED
    BY <1>2, <1>4, <2>2 DEF CreationSlot, Slots
<1>5. CASE CreateFails(t) \/ Bootstrap(t) \/ BootstrapFails(t)
  <2>1. t \in SlotThreads /\ SlotThreads' = SlotThreads \ {t}
    BY <1>3, <1>5 DEF CreateFails, Bootstrap, BootstrapFails, SlotThreads, Goto, TypeOK
  <2>2. Cardinality(SlotThreads') = Cardinality(SlotThreads) - 1
    BY <1>2, <2>1, FS_RemoveElement
  <2>3. Cardinality(SlotThreads) # 0
    BY <1>2, <2>1, FS_EmptySet
  <2> QED
    BY <1>2, <1>5, <2>2, <2>3 DEF CreateFails, Bootstrap, BootstrapFails, Slots
<1>6. CASE ~(CreationSlot(t) \/ CreateFails(t) \/ Bootstrap(t) \/ BootstrapFails(t))
  <2>1. creating' = creating /\ (pc'[t] \in {"create", "bootstrap"} <=> pc[t] \in {"create", "bootstrap"})
    <3>1. CASE \E w \in Workers : Create(t, w)
      BY <3>1 DEF Create, Goto, TypeOK
    <3>2. CASE Reserve(t) \/ Unreserve(t) \/ DestroyReleaseLive(t) \/ DestroyReleaseLiveRaise(t)
      BY <3>2 DEF Reserve, Unreserve, DestroyReleaseLive, DestroyReleaseLiveRaise, ReserveLive,
          ReleaseLive, PastStale, Goto, Return, TypeOK
    <3>3. CASE EnsureSandboxTTL(t) \/ RenewFails(t) \/ InstallFails(t) \/ EnsureRelease(t)
               \/ ReserveFails(t) \/ UndoCreate(t) \/ ReleaseAppend(t)
      BY <3>3 DEF EnsureSandboxTTL, RenewFails, InstallFails, AcquireFails, EnsureRelease,
          ReserveFails, UndoCreate, ReleaseAppend, PastStale, Goto, Return, TypeOK
    <3>4. CASE DestroySkip(t) \/ DestroyMark(t) \/ DestroyBackend(t) \/ DestroyBackendFails(t)
               \/ RetireDone(t) \/ Handled(t)
      BY <3>4 DEF DestroySkip, DestroyMark, DestroyBackend, DestroyBackendFails, RetireDone,
          Handled, Busy, Goto, Return, TypeOK
    <3> QED
      BY <1>6, <3>1, <3>2, <3>3, <3>4 DEF Step
  <2>2. SlotThreads' = SlotThreads
    BY <1>3, <2>1 DEF SlotThreads
  <2> QED
    BY <2>1, <2>2 DEF Slots, TypeOK
<1> QED
  BY <1>4, <1>5, <1>6

-----------------------------------------------------------------------------
(* Buckets *)

\* acquire: what is popped behind the candidate is stale, what is in front of it stays.
LEMMA PoppedBucket ==
    ASSUME NEW b \in Seq(Workers), NEW i \in 0..Len(b)
    PROVE  LET stale == Reverse(SubSeq(b, i + 1, Len(b)))
               left  == SubSeq(b, 1, i - 1)
           IN  /\ stale \in Seq(Workers) /\ left \in Seq(Workers)
               /\ ToSet(stale) = {b[j] : j \in (i + 1)..Len(b)}
               /\ DOMAIN left = 1..(i - 1) /\ \A j \in 1..(i - 1) : left[j] = b[j]
               /\ 1..(i - 1) \subseteq DOMAIN b
<1> DEFINE s == SubSeq(b, i + 1, Len(b))
           left == SubSeq(b, 1, i - 1)
<1>1. Len(b) \in Nat /\ DOMAIN b = 1..Len(b) /\ i \in Nat /\ i <= Len(b)
  OBVIOUS
<1>2. \A j \in (i + 1)..Len(b) : b[j] \in Workers
  BY <1>1
<1>3. left \in Seq(Workers) /\ DOMAIN left = 1..(i - 1) /\ \A j \in 1..(i - 1) : left[j] = b[j]
  <2>1. CASE i = 0
    BY <1>1, <2>1
  <2>2. CASE i # 0
    BY <1>1, <2>2
  <2> QED
    BY <2>1, <2>2
<1>a. /\ s \in Seq(Workers)
      /\ Len(s) = IF i + 1 <= Len(b) THEN Len(b) - (i + 1) + 1 ELSE 0
      /\ \A j \in 1..(Len(b) - (i + 1) + 1) : s[j] = b[(i + 1) + j - 1]
  BY <1>1, <1>2, SubSeqProperties
<1> HIDE DEF s, left
<1>b. Len(s) = Len(b) - i
  <2>1. CASE i < Len(b)
    <3>1. i + 1 <= Len(b)
      BY <1>1, <2>1
    <3>2. Len(s) = Len(b) - (i + 1) + 1
      BY <1>a, <3>1
    <3> QED
      BY <1>1, <3>2
  <2>2. CASE i = Len(b)
    <3>1. ~(i + 1 <= Len(b)) /\ Len(b) - i = 0
      BY <1>1, <2>2
    <3> QED
      BY <1>a, <3>1
  <2>3. i < Len(b) \/ i = Len(b)
    <3>1. Len(b) \in Nat /\ i \in 0..Len(b)
      BY <1>1
    <3> QED
      BY <3>1
  <2> QED
    BY <2>1, <2>2, <2>3
<1>c. \A j \in 1..Len(s) : s[j] = b[j + i]
  <2> SUFFICES ASSUME NEW j \in 1..Len(s) PROVE s[j] = b[j + i]
      OBVIOUS
  <2>1. j \in 1..(Len(b) - (i + 1) + 1) /\ (i + 1) + j - 1 = j + i
    BY <1>1, <1>b
  <2> QED
    BY <1>a, <2>1
<1>4. Reverse(s) = [j \in 1..Len(s) |-> s[(Len(s) - j) + 1]]
  BY DEF Reverse
<1>5. \A j \in 1..Len(s) : (Len(s) - j) + 1 \in 1..Len(s)
  <2>1. Len(s) \in Nat
    BY <1>a
  <2> QED
    BY <2>1
<1>6. Reverse(s) \in Seq(Workers) /\ DOMAIN Reverse(s) = 1..Len(s)
  <2>1. Len(s) \in Nat /\ s \in [1..Len(s) -> Workers]
    BY <1>a, LenProperties
  <2>2. Reverse(s) \in [1..Len(s) -> Workers]
    BY <1>4, <1>5, <2>1
  <2> QED
    BY <2>1, <2>2, ListOf
<1>7. ToSet(Reverse(s)) = {b[j] : j \in (i + 1)..Len(b)}
  <2>1. ASSUME NEW j \in 1..Len(s)
        PROVE  Reverse(s)[j] = b[(Len(b) - j) + 1] /\ (Len(b) - j) + 1 \in (i + 1)..Len(b)
    <3>1. Reverse(s)[j] = b[((Len(s) - j) + 1) + i]
      BY <1>c, <1>4, <1>5
    <3>2. ((Len(s) - j) + 1) + i = (Len(b) - j) + 1 /\ (Len(b) - j) + 1 \in (i + 1)..Len(b)
      BY <1>1, <1>b
    <3> QED
      BY <3>1, <3>2
  <2>2. ASSUME NEW j \in (i + 1)..Len(b)
        PROVE  (Len(b) - j) + 1 \in 1..Len(s) /\ Reverse(s)[(Len(b) - j) + 1] = b[j]
    <3>1. (Len(b) - j) + 1 \in 1..Len(s)
      BY <1>1, <1>b
    <3>2. Reverse(s)[(Len(b) - j) + 1] = b[(Len(b) - ((Len(b) - j) + 1)) + 1]
      BY <2>1, <3>1
    <3>3. (Len(b) - ((Len(b) - j) + 1)) + 1 = j
      BY <1>1
    <3> QED
      BY <3>1, <3>2, <3>3
  <2>3. ToSet(Reverse(s)) = {Reverse(s)[j] : j \in 1..Len(s)}
    BY <1>6 DEF ToSet
  <2>4. ASSUME NEW x \in ToSet(Reverse(s)) PROVE x \in {b[j] : j \in (i + 1)..Len(b)}
    <3>1. PICK j \in 1..Len(s) : x = Reverse(s)[j]
      BY <2>3
    <3>2. PICK m \in (i + 1)..Len(b) : m = (Len(b) - j) + 1
      BY <2>1
    <3>3. x = b[m]
      BY <2>1, <3>1, <3>2
    <3> QED
      BY <3>3
  <2>5. ASSUME NEW x \in {b[j] : j \in (i + 1)..Len(b)} PROVE x \in ToSet(Reverse(s))
    <3>1. PICK j \in (i + 1)..Len(b) : x = b[j]
      OBVIOUS
    <3>2. PICK m \in 1..Len(s) : m = (Len(b) - j) + 1
      BY <2>2
    <3>3. x = Reverse(s)[m]
      BY <2>2, <3>1, <3>2
    <3> QED
      BY <2>3, <3>3
  <2> QED
    BY <2>4, <2>5
<1>8. 1..(i - 1) \subseteq DOMAIN b
  BY <1>1
<1> QED
  BY <1>3, <1>6, <1>7, <1>8 DEF s, left

\* reap: the positions that are kept, in order.
LEMMA KeptBucket ==
    ASSUME NEW b \in Seq(Workers)
    PROVE  /\ Kept(b) \in Seq(Workers)
           /\ ToSet(Kept(b)) = {b[i] : i \in {j \in DOMAIN b : ~IdleExpired(b[j])}}
           /\ \E pos \in [DOMAIN Kept(b) -> DOMAIN b] :
                 /\ \A m, n \in DOMAIN Kept(b) : pos[m] = pos[n] => m = n
                 /\ \A n \in DOMAIN Kept(b) : Kept(b)[n] = b[pos[n]] /\ ~IdleExpired(b[pos[n]])
<1> DEFINE kept == {i \in DOMAIN b : ~IdleExpired(b[i])}
           below(i) == {j \in kept : j <= i}
           rank(i) == Cardinality(below(i))
           N == Cardinality(kept)
           f == [i \in kept |-> rank(i)]
           at(n) == CHOOSE i \in kept : rank(i) = n
           pos == [n \in 1..N |-> at(n)]
<1>1. Len(b) \in Nat /\ DOMAIN b = 1..Len(b) /\ kept \subseteq 1..Len(b)
  OBVIOUS
<1>2. IsFiniteSet(1..Len(b))
  BY <1>1, FS_Interval
<1>3. IsFiniteSet(kept) /\ N \in Nat
  BY <1>1, <1>2, FS_Subset, FS_CardinalityType
<1>4. \A i \in kept : IsFiniteSet(below(i)) /\ rank(i) \in 1..N
  <2> SUFFICES ASSUME NEW i \in kept PROVE IsFiniteSet(below(i)) /\ rank(i) \in 1..N
      OBVIOUS
  <2>1. IsFiniteSet(below(i)) /\ rank(i) <= N /\ rank(i) \in Nat
    BY <1>3, FS_Subset, FS_CardinalityType
  <2>2. i \in below(i)
    BY <1>1
  <2>3. rank(i) # 0
    BY <2>1, <2>2, FS_EmptySet
  <2> QED
    BY <1>3, <2>1, <2>3
<1>5. \A i, j \in kept : i < j => rank(i) # rank(j)
  <2> SUFFICES ASSUME NEW i \in kept, NEW j \in kept, i < j PROVE rank(i) # rank(j)
      OBVIOUS
  <2>1. below(i) \subseteq below(j) /\ j \in below(j) /\ j \notin below(i)
    BY <1>1
  <2>2. below(i) # below(j)
    BY <2>1
  <2> QED
    BY <1>4, <2>1, <2>2, FS_Subset
<1>6. f \in Injection(kept, 1..N)
  <2>1. f \in [kept -> 1..N]
    BY <1>4
  <2>2. \A i, j \in kept : f[i] = f[j] => i = j
    BY <1>1, <1>5
  <2> QED
    BY <2>1, <2>2 DEF Injection, IsInjective
<1>7. f \in Surjection(kept, 1..N)
  <2>1. IsFiniteSet(1..N) /\ Cardinality(1..N) = N
    BY <1>3, FS_Interval
  <2> QED
    BY <1>3, <1>6, <2>1, FS_Injection
<1>8. \A n \in 1..N : \E i \in kept : rank(i) = n
  BY <1>7 DEF Surjection
<1>9. \A n \in 1..N : pos[n] \in kept /\ rank(pos[n]) = n
  BY <1>8
<1>10. Kept(b) = [n \in 1..N |-> b[pos[n]]]
  BY DEF Kept
<1>11. \A i \in kept : pos[rank(i)] = i /\ rank(i) \in 1..N
  BY <1>1, <1>4, <1>5, <1>9
<1>12. Kept(b) \in Seq(Workers) /\ DOMAIN Kept(b) = 1..N
  <2>1. b \in [1..Len(b) -> Workers]
    BY LenProperties
  <2>2. Kept(b) \in [1..N -> Workers]
    BY <1>1, <1>9, <1>10, <2>1
  <2> QED
    BY <1>3, <2>2, ListOf
<1>13. ToSet(Kept(b)) = {b[i] : i \in kept}
  <2>1. \A n \in 1..N : Kept(b)[n] \in {b[i] : i \in kept}
    BY <1>9, <1>10
  <2>2. \A i \in kept : \E n \in 1..N : Kept(b)[n] = b[i]
    <3> SUFFICES ASSUME NEW i \in kept PROVE \E n \in 1..N : Kept(b)[n] = b[i]
        OBVIOUS
    <3> DEFINE n == rank(i)
    <3>1. n \in 1..N /\ pos[n] = i
      BY <1>11
    <3> HIDE DEF n, pos
    <3>2. Kept(b)[n] = b[i]
      BY <1>10, <3>1
    <3> QED
      BY <3>1, <3>2
  <2> QED
    BY <1>12, <2>1, <2>2 DEF ToSet
<1>14. pos \in [DOMAIN Kept(b) -> DOMAIN b]
  BY <1>9, <1>12
<1>15. \A m, n \in DOMAIN Kept(b) : pos[m] = pos[n] => m = n
  BY <1>9, <1>12
<1>16. \A n \in DOMAIN Kept(b) : Kept(b)[n] = b[pos[n]] /\ ~IdleExpired(b[pos[n]])
  BY <1>9, <1>10, <1>12
<1> HIDE DEF pos
<1> QED
  BY <1>12, <1>13, <1>14, <1>15, <1>16

-----------------------------------------------------------------------------
(* The other steps *)

\* The process is gone, and with it the counters, the buckets and the locals.
LEMMA ForgetTyped ==
    ASSUME Forget, sandboxes' \subseteq Workers
    PROVE  Typed'
<1>1. idle' \in [PoolKey -> Seq(Workers)] /\ home' \in [Workers -> PoolKey]
  BY AnyKeyTyped DEF Forget
<1>2. TypeOK'
  BY <1>1 DEF Forget, TypeOK, NoCall, Places
<1>3. Locals'
  BY DEF Forget, Locals, Fits, Deleting, Creating
<1>4. SlotThreads' = {}
  BY DEF Forget, SlotThreads
<1>5. Slots'
  BY <1>4, FS_EmptySet DEF Forget, Slots
<1> QED
  BY <1>2, <1>3, <1>5 DEF Typed

\* acquire, release, invalidate, cancel and reap begin; time passes; the Runner restarts.
LEMMA NextTyped ==
    ASSUME Typed, Next
    PROVE  Typed'
<1> USE DEF workerVars, quotaVars
<1> DEFINE Moved == /\ pc' \in [Threads -> Places]
                    /\ call' \in [Threads ->
                          AcquireCall \cup UseCall \cup RetireCall \cup RefCall \cup {NoCall}]
                    /\ Locals'
<1>0. TypeOK /\ Locals /\ Slots /\ Callers \subseteq Threads /\ Reaper \in Threads
  BY DEF Typed, Threads
<1>s. ASSUME NEW t \in Threads, creating' = creating, \A u \in Threads : u # t => pc'[u] = pc[u],
             pc[t] \notin {"create", "bootstrap"}, pc'[t] \notin {"create", "bootstrap"}
      PROVE  Slots'
  <2>1. SlotThreads' = SlotThreads
    BY <1>s DEF SlotThreads
  <2> QED
    BY <1>0, <1>s, <2>1 DEF Slots
<1>1. ASSUME NEW t \in Callers, NEW n \in Tenants, NEW rel \in Releases, AcquirePop(t, n, rel)
      PROVE  Typed'
  <2>1. KeyFor(n, rel) \in PoolKey
    BY PoolAssumption DEF KeyFor, PoolKey
  <2> DEFINE b == idle[KeyFor(n, rel)]
  <2>2. b \in Seq(Workers)
    BY <1>0, <2>1 DEF TypeOK
  <2>3. PICK i \in 0..Len(b) : /\ AcquireWith(t, n, rel, b, i)
                               /\ idle' = [idle EXCEPT ![KeyFor(n, rel)] = SubSeq(b, 1, i - 1)]
    BY <1>0, <1>1, <2>1 DEF AcquirePop, TypeOK
  <2>4. i # 0 => b[i] \in Workers
    BY <2>2
  <2> DEFINE st == Reverse(SubSeq(b, i + 1, Len(b)))
             c == [op |-> "acquire", tenant |-> n, rel |-> rel,
                   w |-> IF i = 0 THEN NoWorker ELSE b[i], stale |-> st]
  <2>5. st \in Seq(Workers) /\ SubSeq(b, 1, i - 1) \in Seq(Workers)
    BY <2>2, PoppedBucket
  <2>6. pc' = [pc EXCEPT ![t] = "stale"] /\ call' = [call EXCEPT ![t] = c] /\ pc[t] = "ready"
    BY <2>3 DEF AcquireWith, Goto
  <2> HIDE DEF b, st
  <2>7. Fits("stale", c) /\ "stale" \in Places
    BY <2>4, <2>5 DEF Fits, Deleting, Creating, Places, Stales, AcquireCall
  <2> HIDE DEF c
  <2>8. Moved
    BY <1>0, <2>6, <2>7, ThreadMoves
  <2>9. idle' \in [PoolKey -> Seq(Workers)]
    BY <1>0, <2>1, <2>3, <2>5 DEF TypeOK
  <2>10. TypeOK'
    BY <1>0, <2>3, <2>8, <2>9 DEF AcquireWith, TypeOK
  <2>11. Slots'
    BY <1>0, <1>s, <2>3, <2>6 DEF AcquireWith, TypeOK
  <2> QED
    BY <2>8, <2>10, <2>11 DEF Typed
<1>2. ASSUME NEW t \in Callers, Release(t) PROVE Typed'
  <2>1. call[t] \in UseCall /\ call[t].w \in Workers
    BY <1>0, <1>2 DEF Release, Locals, Fits, UseCall
  <2>2. Fits("stale", [op |-> "retire", stale |-> <<call[t].w>>]) /\ "stale" \in Places
    BY <2>1, StaleOne DEF Fits, Deleting, Creating, Places, Stales, RetireCall
  <2>3. Fits("append", call[t]) /\ "append" \in Places
    BY <2>1 DEF Fits, Deleting, Creating, Places
  <2>4. CASE call' = call /\ pc' = [pc EXCEPT ![t] = "append"]
    <3>1. Moved
      BY <1>0, <2>3, <2>4, ThreadGoes
    <3>2. TypeOK'
      BY <1>0, <1>2, <3>1 DEF Release, TypeOK
    <3>3. Slots'
      BY <1>0, <1>2, <1>s, <2>4 DEF Release, TypeOK
    <3> QED
      BY <3>1, <3>2, <3>3 DEF Typed
  <2>5. CASE /\ call' = [call EXCEPT ![t] = [op |-> "retire", stale |-> <<call[t].w>>]]
             /\ pc' = [pc EXCEPT ![t] = "stale"]
    <3>1. Moved
      BY <1>0, <2>2, <2>5, ThreadMoves
    <3>2. TypeOK'
      BY <1>0, <1>2, <3>1 DEF Release, TypeOK
    <3>3. Slots'
      BY <1>0, <1>2, <1>s, <2>5 DEF Release, TypeOK
    <3> QED
      BY <3>1, <3>2, <3>3 DEF Typed
  <2> QED
    BY <1>2, <2>4, <2>5 DEF Release, Goto
<1>3. ASSUME NEW t \in Callers, Invalidate(t) PROVE Typed'
  <2>1. call[t].w \in Workers
    BY <1>0, <1>3 DEF Invalidate, Locals, Fits, UseCall, RefCall
  <2>2. Fits("stale", [op |-> "retire", stale |-> <<call[t].w>>]) /\ "stale" \in Places
    BY <2>1, StaleOne DEF Fits, Deleting, Creating, Places, Stales, RetireCall
  <2>3. Moved
    BY <1>0, <1>3, <2>2, ThreadMoves DEF Invalidate, Goto
  <2>4. TypeOK'
    BY <1>0, <1>3, <2>3 DEF Invalidate, TypeOK
  <2>5. Slots'
    BY <1>0, <1>3, <1>s DEF Invalidate, Goto, TypeOK
  <2> QED
    BY <2>3, <2>4, <2>5 DEF Typed
<1>4. ASSUME NEW t \in Callers, NEW w \in Workers \ Unreturned, CancelRef(t, w) PROVE Typed'
  <2>1. Fits("ref", [op |-> "ref", w |-> w]) /\ "ref" \in Places
    BY <1>0 DEF Fits, Deleting, Creating, Places, RefCall, TypeOK
  <2>2. Moved
    BY <1>0, <1>4, <2>1, ThreadMoves DEF CancelRef, Goto
  <2>3. TypeOK'
    BY <1>0, <1>4, <2>2 DEF CancelRef, TypeOK
  <2>4. Slots'
    BY <1>0, <1>4, <1>s DEF CancelRef, Goto, TypeOK
  <2> QED
    BY <2>2, <2>3, <2>4 DEF Typed
<1>5. ASSUME NEW t \in Threads, Step(t) PROVE Typed'
  BY <1>0, <1>5, StepTyped, StepSlots DEF Typed
<1>6. CASE Reap
  <2> DEFINE expired == {w \in IdleWorkers : IdleExpired(w)}
  <2>1. IdleWorkers \subseteq Workers
    BY <1>0 DEF IdleWorkers, ToSet, TypeOK
  <2>2. IsFiniteSet(expired)
    BY <2>1, PoolAssumption, FS_Subset
  <2>3. PICK order \in SetToSeqs(expired) :
            call' = [call EXCEPT ![Reaper] = [op |-> "reap", stale |-> order]]
    BY <1>6 DEF Reap
  <2>4. order \in [1..Cardinality(expired) -> Workers] /\ Cardinality(expired) \in Nat
    BY <2>1, <2>2, FS_CardinalityType DEF SetToSeqs
  <2>5. order \in Seq(Workers)
    BY <2>4, ListOf
  <2>6. Fits("stale", [op |-> "reap", stale |-> order]) /\ "stale" \in Places
    BY <2>5 DEF Fits, Deleting, Creating, Places, Stales, RetireCall
  <2>7. Moved
    BY <1>0, <1>6, <2>3, <2>6, ThreadMoves DEF Reap, Goto
  <2>8. idle' \in [PoolKey -> Seq(Workers)]
    BY <1>0, <1>6, KeptBucket DEF Reap, TypeOK
  <2>9. TypeOK'
    BY <1>0, <1>6, <2>7, <2>8 DEF Reap, TypeOK
  <2>10. Slots'
    BY <1>0, <1>6, <1>s DEF Reap, Goto, TypeOK
  <2> QED
    BY <2>7, <2>9, <2>10 DEF Typed
<1>7. ASSUME NEW w \in Workers, Age(w) \/ SandboxExpires(w) PROVE Typed'
  <2>1. TypeOK' /\ Locals'
    BY <1>0, <1>7 DEF Age, SandboxExpires, TypeOK, Locals
  <2>2. Slots'
    BY <1>0, <1>7 DEF Age, SandboxExpires, Slots, SlotThreads
  <2> QED
    BY <2>1, <2>2 DEF Typed
<1>8. ASSUME NEW left \in SUBSET sandboxes, Restart(left) PROVE Typed'
  BY <1>0, <1>8, ForgetTyped DEF Restart, TypeOK
<1> QED
  BY <1>1, <1>2, <1>3, <1>4, <1>5, <1>6, <1>7, <1>8 DEF Next

\* A pool that has just started has taken no permit.
LEMMA InitTyped ==
    ASSUME Init
    PROVE  Typed
<1>1. SlotThreads = {}
  BY DEF Init, SlotThreads
<1>2. Slots
  BY <1>1, FS_EmptySet DEF Init, Slots
<1> QED
  BY <1>2, TypeInit DEF Typed

\* Nothing about the types depends on what did not change.
LEMMA StutterTyped ==
    ASSUME Typed, UNCHANGED poolVars
    PROVE  Typed'
BY DEF poolVars, Typed, TypeOK, Locals, Slots, SlotThreads

\* The pool keeps its types, its locals and its creation permits in order, whatever fails.
LEMMA PoolTyped == Spec => []Typed
<1>1. Init => Typed
  BY InitTyped
<1>2. Typed /\ [Next]_poolVars => Typed'
  BY NextTyped, StutterTyped
<1> QED
  BY <1>1, <1>2, PTL DEF Spec

\* Type correctness of the pool: the counters never fall below zero, and a thread never looks
\* for a local that the place it is at does not have.
THEOREM TypeCorrect == Spec => []TypeOK
<1>1. Typed => TypeOK
  BY DEF Typed
<1> QED
  BY <1>1, PoolTyped, PTL

-----------------------------------------------------------------------------
(* Who owns a worker: the second part of the inductive invariant *)

\* Where acquire has a worker that it has created and not yet returned.
Unborn == {"bootstrap", "undo", "unreserve"}

\* A held worker belongs to the tenant and has the flavor it was asked for.
HeldHome ==
    \A t \in Threads, w \in Workers : t \in Holders(w) =>
        home[w] = KeyFor(call[t].tenant, call[t].rel)

\* A bucket holds workers of its own key only.
IdleHome == \A k \in PoolKey : \A i \in DOMAIN idle[k] : home[idle[k][i]] = k

\* The release is installed once acquire has returned, and fits until then.
Fitting ==
    \A t \in Threads, w \in Workers : t \in Holders(w) =>
        IF call[t].op = "use" THEN call[t].rel \in installed[w] ELSE ~Full(w, call[t].rel)

Bounded ==
    \A w \in Workers : IsFiniteSet(installed[w]) /\ Cardinality(installed[w]) <= MaxInstalled

\* Only the thread that created a worker refers to it until acquire returns it.
Fresh ==
    \A t \in Threads : pc[t] \in Unborn /\ call[t].w \in Workers =>
        /\ call[t].w \notin alive
        /\ \A u \in Threads : u # t => call[t].w \notin RefersTo(u)

\* A worker that is being deleted stays marked as destroyed.
Marked == \A t \in Threads : pc[t] \in Deleting => Head(call[t].stale) \notin alive

Owned == Exclusive /\ HeldHome /\ IdleHome /\ Fitting /\ Bounded /\ Fresh /\ Marked

\* A thread that holds a worker refers to it, and so does one that deletes it.
LEMMA HeldReferred ==
    ASSUME TypeOK, Locals, NEW t \in Threads
    PROVE  /\ \A w \in Workers : t \in Holders(w) => w \in RefersTo(t)
           /\ pc[t] \in Deleting => Head(call[t].stale) \in RefersTo(t)
           /\ pc[t] \in Unborn /\ call[t].w \in Workers => t \in Holders(call[t].w)
<1>1. \A w \in Workers : t \in Holders(w) => w \in RefersTo(t)
  <2> SUFFICES ASSUME NEW w \in Workers, t \in Holders(w) PROVE w \in RefersTo(t)
      OBVIOUS
  <2> QED
    BY DEF Holders, RefersTo
<1>2. ASSUME pc[t] \in Deleting PROVE Head(call[t].stale) \in RefersTo(t)
  <2>1. call[t] \in Stales /\ Head(call[t].stale) \in ToSet(call[t].stale)
    BY <1>2, DeletingHead, StaleParts
  <2> QED
    BY <2>1 DEF RefersTo, Stales, AcquireCall, RetireCall
<1>3. ASSUME pc[t] \in Unborn, call[t].w \in Workers PROVE t \in Holders(call[t].w)
  <2>1. Fits(pc[t], call[t]) /\ pc[t] \in Creating
    BY <1>3 DEF Locals, Unborn, Creating
  <2>2. call[t] \in AcquireCall
    BY <2>1 DEF Fits
  <2> QED
    BY <2>2 DEF Holders, AcquireCall
<1> QED
  BY <1>1, <1>2, <1>3

\* What the other threads hold and refer to does not change when one thread moves.
LEMMA OthersHold ==
    ASSUME NEW t \in Threads, \A u \in Threads : u # t => call'[u] = call[u]
    PROVE  \A u \in Threads : u # t =>
              /\ RefersTo(u)' = RefersTo(u)
              /\ \A w \in Workers : u \in Holders(w)' <=> u \in Holders(w)
<1> SUFFICES ASSUME NEW u \in Threads, u # t
             PROVE  /\ RefersTo(u)' = RefersTo(u)
                    /\ \A w \in Workers : u \in Holders(w)' <=> u \in Holders(w)
    OBVIOUS
<1>1. call'[u] = call[u]
  OBVIOUS
<1>2. RefersTo(u)' = RefersTo(u)
  BY <1>1 DEF RefersTo
<1>3. \A w \in Workers : u \in Holders(w)' <=> u \in Holders(w)
  BY <1>1 DEF Holders
<1> QED
  BY <1>2, <1>3

\* A step of thread t that hands no worker over and takes none.
Quiet(t) ==
    /\ UNCHANGED <<idle, home, installed>>
    /\ alive' \subseteq alive
    /\ \A u \in Threads : u # t => pc'[u] = pc[u] /\ call'[u] = call[u]
    /\ RefersTo(t)' \subseteq RefersTo(t)
    /\ \A w \in Workers : t \in Holders(w)' =>
          /\ t \in Holders(w)
          /\ call'[t].op = call[t].op
          /\ call'[t].tenant = call[t].tenant
          /\ call'[t].rel = call[t].rel
    /\ pc'[t] \in Unborn /\ call'[t].w \in Workers =>
          pc[t] \in Unborn /\ call'[t].w = call[t].w
    /\ pc'[t] \in Deleting => Head(call'[t].stale) \notin alive'

\* Such a step leaves every worker with its owner.
LEMMA QuietKeeps ==
    ASSUME Typed, Owned, NEW t \in Threads, Quiet(t)
    PROVE  Owned'
<1>0. /\ TypeOK /\ Locals
      /\ Exclusive /\ HeldHome /\ IdleHome /\ Fitting /\ Bounded /\ Fresh /\ Marked
      /\ idle' = idle /\ home' = home /\ installed' = installed /\ alive' \subseteq alive
  BY DEF Typed, Owned, Quiet
<1>1. \A u \in Threads : u # t => pc'[u] = pc[u] /\ call'[u] = call[u]
  BY DEF Quiet
<1>2. \A u \in Threads : u # t =>
              /\ RefersTo(u)' = RefersTo(u)
              /\ \A w \in Workers : u \in Holders(w)' <=> u \in Holders(w)
  BY <1>1, OthersHold
<1>3. \A u \in Threads : RefersTo(u)' \subseteq RefersTo(u)
  BY <1>2 DEF Quiet
<1>4. \A u \in Threads, w \in Workers : u \in Holders(w)' =>
          /\ u \in Holders(w)
          /\ call'[u].op = call[u].op
          /\ call'[u].tenant = call[u].tenant
          /\ call'[u].rel = call[u].rel
  BY <1>1, <1>2 DEF Quiet
<1>5. \A w \in Workers : Holders(w)' \subseteq Holders(w) /\ Holders(w) \subseteq Threads
  BY <1>4 DEF Holders
<1>6. Exclusive'
  <2>1. IdleWorkers' = IdleWorkers
    BY <1>0 DEF IdleWorkers
  <2>2. \A w \in Workers : (\A x, y \in Holders(w)' : x = y)
                           /\ (Holders(w)' # {} => w \notin IdleWorkers')
    BY <1>0, <1>5, <2>1 DEF Exclusive
  <2> QED
    BY <1>0, <2>2 DEF Exclusive
<1>7. HeldHome' /\ IdleHome'
  BY <1>0, <1>4 DEF HeldHome, IdleHome, KeyFor
<1>8. Fitting' /\ Bounded'
  BY <1>0, <1>4 DEF Fitting, Bounded, Full
<1>9. Fresh'
  <2> SUFFICES ASSUME NEW u \in Threads, pc'[u] \in Unborn, call'[u].w \in Workers
               PROVE  /\ call'[u].w \notin alive'
                      /\ \A v \in Threads : v # u => call'[u].w \notin RefersTo(v)'
      BY DEF Fresh
  <2>1. pc[u] \in Unborn /\ call'[u].w = call[u].w
    BY <1>1 DEF Quiet
  <2> QED
    BY <1>0, <1>3, <2>1 DEF Fresh
<1>10. Marked'
  BY <1>0, <1>1 DEF Marked, Quiet
<1> QED
  BY <1>6, <1>7, <1>8, <1>9, <1>10 DEF Owned

\* A thread goes on with the same locals.
LEMMA QuietGoes ==
    ASSUME TypeOK, NEW t \in Threads, NEW p \in Places,
           pc' = [pc EXCEPT ![t] = p], call' = call, alive' \subseteq alive,
           UNCHANGED <<idle, home, installed>>,
           p \in Unborn /\ call[t].w \in Workers => pc[t] \in Unborn,
           p \in Deleting => Head(call[t].stale) \notin alive'
    PROVE  Quiet(t)
<1>1. pc'[t] = p /\ call'[t] = call[t] /\ \A u \in Threads : u # t => pc'[u] = pc[u]
  BY DEF TypeOK
<1>2. RefersTo(t)' = RefersTo(t) /\ \A w \in Workers : Holders(w)' = Holders(w)
  BY DEF RefersTo, Holders
<1> QED
  BY <1>1, <1>2 DEF Quiet

\* A call is over and its locals are gone.
LEMMA QuietReturns ==
    ASSUME TypeOK, NEW t \in Threads, NEW p \in {"ready", "raised"}, Return(t, p),
           UNCHANGED <<idle, home, installed, alive>>
    PROVE  Quiet(t)
<1>1. /\ pc'[t] = p /\ call'[t] = NoCall
      /\ \A u \in Threads : u # t => pc'[u] = pc[u] /\ call'[u] = call[u]
  BY DEF TypeOK, Return
<1>2. RefersTo(t)' = {}
  BY <1>1 DEF RefersTo, NoCall
<1>3. \A w \in Workers : t \notin Holders(w)'
  BY <1>1 DEF Holders, NoCall
<1>4. p \notin Unborn /\ p \notin Deleting
  BY DEF Unborn, Deleting
<1> QED
  BY <1>1, <1>2, <1>3, <1>4 DEF Quiet

\* A thread gives its worker up in order to destroy it.
LEMMA QuietRetires ==
    ASSUME TypeOK, NEW t \in Threads, NEW x \in {"retire", "fail"},
           call[t].op \in {"acquire", "use", "ref"}, call[t].w \in Workers,
           pc' = [pc EXCEPT ![t] = "stale"],
           call' = [call EXCEPT ![t] = [op |-> x, stale |-> <<call[t].w>>]],
           UNCHANGED <<idle, home, installed, alive>>
    PROVE  Quiet(t)
<1>1. /\ pc'[t] = "stale" /\ call'[t] = [op |-> x, stale |-> <<call[t].w>>]
      /\ \A u \in Threads : u # t => pc'[u] = pc[u] /\ call'[u] = call[u]
  BY DEF TypeOK
<1>2. RefersTo(t)' = {call[t].w}
  BY <1>1, StaleOne DEF RefersTo
<1>3. call[t].w \in RefersTo(t)
  BY DEF RefersTo
<1>4. \A w \in Workers : t \notin Holders(w)'
  BY <1>1 DEF Holders
<1> QED
  BY <1>1, <1>2, <1>3, <1>4 DEF Quiet, Unborn, Deleting

\* _destroy is through with the first worker of the list.
LEMMA QuietShorter ==
    ASSUME TypeOK, NEW t \in Threads, call[t] \in Stales, call[t].stale # <<>>,
           pc' = [pc EXCEPT ![t] = "stale"], call' = NextStale(t),
           UNCHANGED <<idle, home, installed, alive>>
    PROVE  Quiet(t)
<1>1. /\ pc'[t] = "stale" /\ call'[t] = [call[t] EXCEPT !.stale = Tail(call[t].stale)]
      /\ \A u \in Threads : u # t => pc'[u] = pc[u] /\ call'[u] = call[u]
  BY DEF TypeOK, NextStale
<1>2. call[t].stale \in Seq(Workers)
  BY DEF Stales, AcquireCall, RetireCall
<1>3. ToSet(Tail(call[t].stale)) \subseteq ToSet(call[t].stale)
  BY <1>2, StaleParts
<1>4. /\ call'[t].op = call[t].op /\ call'[t].stale = Tail(call[t].stale)
      /\ call[t].op = "acquire" =>
            /\ call'[t].w = call[t].w
            /\ call'[t].tenant = call[t].tenant
            /\ call'[t].rel = call[t].rel
      /\ call[t].op \in {"acquire", "reap", "retire", "fail"}
  BY <1>1 DEF Stales, AcquireCall, RetireCall
<1>5. RefersTo(t)' \subseteq RefersTo(t)
  BY <1>3, <1>4 DEF RefersTo
<1>6. \A w \in Workers : t \in Holders(w)' => t \in Holders(w) /\ call[t].op = "acquire"
  BY <1>4 DEF Holders
<1> QED
  BY <1>1, <1>4, <1>5, <1>6 DEF Quiet, Unborn, Deleting

\* The steps of a call that leave every worker where it is.
LEMMA StepQuiet ==
    ASSUME Typed, Marked, NEW t \in Threads, Step(t), ~EnsureRelease(t),
           ~(\E w \in Workers : Create(t, w)), ~Bootstrap(t), ~ReleaseAppend(t)
    PROVE  Quiet(t)
<1> USE DEF workerVars, quotaVars
<1>0. TypeOK /\ Locals /\ Fits(pc[t], call[t])
  BY DEF Typed, Locals
<1>1. CASE EnsureSandboxTTL(t)
  BY <1>0, <1>1, QuietGoes DEF EnsureSandboxTTL, Goto, Places, Unborn, Deleting
<1>2. CASE RenewFails(t) \/ InstallFails(t)
  <2>1. call[t].w \in Workers /\ call[t].op = "acquire"
    BY <1>0, <1>2 DEF RenewFails, InstallFails, PastStale, Fits, Stales, AcquireCall, RetireCall
  <2> QED
    BY <1>0, <1>2, <2>1, QuietRetires DEF RenewFails, InstallFails, AcquireFails, Goto
<1>3. CASE ReserveFails(t)
  BY <1>0, <1>3, QuietReturns DEF ReserveFails
<1>4. CASE Reserve(t)
  BY <1>0, <1>4, QuietGoes DEF Reserve, Goto, Places, Unborn, Deleting
<1>5. CASE CreationSlot(t)
  BY <1>0, <1>5, QuietGoes DEF CreationSlot, Goto, Places, Unborn, Deleting
<1>6. CASE CreateFails(t)
  <2>1. call[t].w = NoWorker
    BY <1>0, <1>6 DEF CreateFails, Fits
  <2> QED
    BY <1>0, <1>6, <2>1, PoolAssumption, QuietGoes DEF CreateFails, Goto, Places, Unborn, Deleting
<1>7. CASE BootstrapFails(t)
  BY <1>0, <1>7, QuietGoes DEF BootstrapFails, Goto, Places, Unborn, Deleting
<1>8. CASE UndoCreate(t)
  BY <1>0, <1>8, QuietGoes DEF UndoCreate, Goto, Places, Unborn, Deleting
<1>9. CASE Unreserve(t)
  BY <1>0, <1>9, QuietReturns DEF Unreserve
<1>10. CASE DestroySkip(t)
  <2>1. call[t] \in Stales /\ call[t].stale # <<>>
    BY <1>0, <1>10, DeletingHead DEF DestroySkip, Busy
  <2>2. pc' = [pc EXCEPT ![t] = "stale"]
    BY <1>0, <1>10 DEF DestroySkip, Busy, TypeOK
  <2> QED
    BY <1>0, <1>10, <2>1, <2>2, QuietShorter DEF DestroySkip
<1>11. CASE DestroyMark(t)
  <2>1. Head(call[t].stale) \notin alive' /\ alive' \subseteq alive
    BY <1>11 DEF DestroyMark
  <2> QED
    BY <1>0, <1>11, <2>1, QuietGoes DEF DestroyMark, Goto, Places, Unborn
<1>12. CASE DestroyBackend(t) \/ DestroyBackendFails(t)
  <2>1. pc[t] = "backend" /\ alive' = alive /\ Head(call[t].stale) \notin alive
    BY <1>12 DEF DestroyBackend, DestroyBackendFails, Marked, Deleting
  <2>2. PICK p \in {"release_live", "release_live_raise"} : Goto(t, p)
    BY <1>12 DEF DestroyBackend, DestroyBackendFails
  <2> QED
    BY <1>0, <1>12, <2>1, <2>2, QuietGoes
      DEF DestroyBackend, DestroyBackendFails, Goto, Places, Unborn
<1>13. CASE DestroyReleaseLive(t)
  <2>1. call[t] \in Stales /\ call[t].stale # <<>>
    BY <1>0, <1>13, DeletingHead DEF DestroyReleaseLive, Deleting
  <2> QED
    BY <1>0, <1>13, <2>1, QuietShorter DEF DestroyReleaseLive, Goto
<1>14. CASE DestroyReleaseLiveRaise(t)
  BY <1>0, <1>14, QuietReturns DEF DestroyReleaseLiveRaise
<1>15. CASE RetireDone(t)
  BY <1>0, <1>15, QuietReturns DEF RetireDone
<1>16. CASE Handled(t)
  BY <1>0, <1>16, QuietGoes DEF Handled, Goto, Places, Unborn, Deleting
<1> QED
  BY <1>1, <1>2, <1>3, <1>4, <1>5, <1>6, <1>7, <1>8, <1>9, <1>10, <1>11, <1>12, <1>13, <1>14,
     <1>15, <1>16 DEF Step

\* release and invalidate begin.
LEMMA RetireQuiet ==
    ASSUME Typed, NEW t \in Callers, Release(t) \/ Invalidate(t)
    PROVE  Quiet(t)
<1> USE DEF workerVars, quotaVars
<1>0. TypeOK /\ Locals /\ t \in Threads /\ Fits(pc[t], call[t])
  BY DEF Typed, Locals, Threads
<1>1. call[t].w \in Workers /\ call[t].op \in {"acquire", "use", "ref"}
  BY <1>0 DEF Release, Invalidate, Fits, UseCall, RefCall
<1>2. UNCHANGED <<idle, home, installed, alive>>
  BY DEF Release, Invalidate
<1>3. \/ call' = call /\ pc' = [pc EXCEPT ![t] = "append"]
      \/ /\ call' = [call EXCEPT ![t] = [op |-> "retire", stale |-> <<call[t].w>>]]
         /\ pc' = [pc EXCEPT ![t] = "stale"]
  BY DEF Release, Invalidate, Goto
<1>4. CASE call' = call /\ pc' = [pc EXCEPT ![t] = "append"]
  BY <1>0, <1>2, <1>4, QuietGoes DEF Places, Unborn, Deleting
<1>5. CASE /\ call' = [call EXCEPT ![t] = [op |-> "retire", stale |-> <<call[t].w>>]]
           /\ pc' = [pc EXCEPT ![t] = "stale"]
  BY <1>0, <1>1, <1>2, <1>5, QuietRetires
<1> QED
  BY <1>3, <1>4, <1>5

\* The candidate gets the release installed and is returned.
LEMMA EnsureKeeps ==
    ASSUME Typed, Owned, NEW t \in Threads, EnsureRelease(t)
    PROVE  Owned'
<1> DEFINE w == call[t].w
           rel == call[t].rel
<1>0. /\ TypeOK /\ Locals
      /\ Exclusive /\ HeldHome /\ IdleHome /\ Fitting /\ Bounded /\ Fresh /\ Marked
      /\ idle' = idle /\ home' = home /\ alive' = alive
  BY DEF Typed, Owned, EnsureRelease
<1>1. call[t] \in AcquireCall /\ w \in Workers /\ rel \in Releases
  BY <1>0 DEF EnsureRelease, Locals, Fits, Creating, AcquireCall
<1>2. /\ pc'[t] = "using"
      /\ call'[t] = [op |-> "use", tenant |-> call[t].tenant, rel |-> rel, w |-> w]
      /\ \A u \in Threads : u # t => pc'[u] = pc[u] /\ call'[u] = call[u]
  BY <1>0 DEF EnsureRelease, Goto, TypeOK
<1>3. \A u \in Threads : u # t =>
              /\ RefersTo(u)' = RefersTo(u)
              /\ \A x \in Workers : u \in Holders(x)' <=> u \in Holders(x)
  BY <1>2, OthersHold
<1>4. \A x \in Workers : (t \in Holders(x)' <=> x = w) /\ (t \in Holders(x) <=> x = w)
  BY <1>1, <1>2 DEF Holders, AcquireCall
<1>5. \A x \in Workers : Holders(x)' = Holders(x)
  BY <1>3, <1>4 DEF Holders
<1>6. RefersTo(t)' = {w} /\ w \in RefersTo(t)
  BY <1>1, <1>2 DEF RefersTo, AcquireCall
<1>7. /\ installed'[w] = installed[w] \cup {rel}
      /\ \A x \in Workers : x # w => installed'[x] = installed[x]
  BY <1>0, <1>1 DEF EnsureRelease, TypeOK
<1>8. Exclusive'
  BY <1>0, <1>5 DEF Exclusive, IdleWorkers
<1>9. HeldHome' /\ IdleHome'
  <2>1. \A u \in Threads : call'[u].tenant = call[u].tenant /\ call'[u].rel = call[u].rel
    BY <1>2
  <2> QED
    BY <1>0, <1>5, <2>1 DEF HeldHome, IdleHome, KeyFor
<1>10. Fitting'
  <2> SUFFICES ASSUME NEW u \in Threads, NEW x \in Workers, u \in Holders(x)'
               PROVE  IF call'[u].op = "use" THEN call'[u].rel \in installed'[x]
                                             ELSE ~Full(x, call[u].rel)'
      BY DEF Fitting, Full
  <2>1. CASE u = t
    <3>1. x = w
      BY <1>4, <2>1
    <3> QED
      BY <1>2, <1>7, <2>1, <3>1
  <2>2. CASE u # t
    <3>1. x # w /\ call'[u] = call[u] /\ u \in Holders(x)
      <4>1. u \in Holders(x) /\ t \in Holders(w)
        BY <1>1, <1>4, <1>5
      <4> QED
        BY <1>0, <1>1, <1>2, <2>2, <4>1 DEF Exclusive
    <3> QED
      BY <1>0, <1>7, <3>1 DEF Fitting, Full
  <2> QED
    BY <2>1, <2>2
<1>11. Bounded'
  <2>1. t \in Holders(w) /\ call[t].op = "acquire"
    BY <1>1, <1>4 DEF AcquireCall
  <2>2. IsFiniteSet(installed[w]) /\ Cardinality(installed[w]) \in Nat
        /\ Cardinality(installed[w]) <= MaxInstalled
    BY <1>0, <1>1, FS_CardinalityType DEF Bounded
  <2>3. rel \in installed[w] \/ ~(Cardinality(installed[w]) >= MaxInstalled)
    BY <1>0, <1>1, <2>1 DEF Fitting, Full
  <2>4. IsFiniteSet(installed[w] \cup {rel})
        /\ Cardinality(installed[w] \cup {rel}) <= MaxInstalled
    <3>1. CASE rel \in installed[w]
      <4>1. installed[w] \cup {rel} = installed[w]
        BY <3>1
      <4> QED
        BY <2>2, <4>1
    <3>2. CASE rel \notin installed[w]
      <4>1. /\ IsFiniteSet(installed[w] \cup {rel})
            /\ Cardinality(installed[w] \cup {rel}) = Cardinality(installed[w]) + 1
        BY <2>2, <3>2, FS_AddElement
      <4> QED
        BY <2>2, <2>3, <3>2, <4>1, PoolAssumption
    <3> QED
      BY <3>1, <3>2
  <2> QED
    BY <1>0, <1>7, <2>4 DEF Bounded
<1>12. Fresh'
  <2> SUFFICES ASSUME NEW u \in Threads, pc'[u] \in Unborn, call'[u].w \in Workers
               PROVE  /\ call'[u].w \notin alive'
                      /\ \A v \in Threads : v # u => call'[u].w \notin RefersTo(v)'
      BY DEF Fresh
  <2>1. u # t /\ pc[u] \in Unborn /\ call'[u] = call[u]
    BY <1>2 DEF Unborn
  <2> QED
    BY <1>0, <1>3, <1>6, <2>1 DEF Fresh
<1>13. Marked'
  BY <1>0, <1>2 DEF Marked, Deleting
<1> QED
  BY <1>8, <1>9, <1>10, <1>11, <1>12, <1>13 DEF Owned

\* backend.create answers: nobody has heard of the new worker.
LEMMA CreateKeeps ==
    ASSUME Typed, Owned, NEW t \in Threads, NEW w \in Workers, Create(t, w)
    PROVE  Owned'
<1>0. /\ TypeOK /\ Locals
      /\ Exclusive /\ HeldHome /\ IdleHome /\ Fitting /\ Bounded /\ Fresh /\ Marked
      /\ idle' = idle /\ alive' = alive
  BY DEF Typed, Owned, Create
<1>1. call[t] \in AcquireCall /\ call[t].w = NoWorker /\ call[t].stale = <<>>
  BY <1>0 DEF Create, Locals, Fits, Creating
<1>2. /\ pc'[t] = "bootstrap"
      /\ call'[t] = [call[t] EXCEPT !.w = w]
      /\ \A u \in Threads : u # t => pc'[u] = pc[u] /\ call'[u] = call[u]
  BY <1>0 DEF Create, Goto, TypeOK
<1>3. /\ call'[t].op = "acquire" /\ call'[t].w = w /\ call'[t].stale = <<>>
      /\ call'[t].tenant = call[t].tenant /\ call'[t].rel = call[t].rel
  BY <1>1, <1>2 DEF AcquireCall
<1>4. w \notin alive /\ w \notin IdleWorkers /\ \A u \in Threads : w \notin RefersTo(u)
  BY DEF Create, Referenced
<1>5. \A u \in Threads : u \notin Holders(w)
  BY <1>0, <1>4, HeldReferred
<1>6. \A u \in Threads : u # t =>
              /\ RefersTo(u)' = RefersTo(u)
              /\ \A x \in Workers : u \in Holders(x)' <=> u \in Holders(x)
  BY <1>2, OthersHold
<1>7. \A x \in Workers : (t \in Holders(x)' <=> x = w) /\ t \notin Holders(x)
  BY <1>1, <1>3, PoolAssumption DEF Holders
<1>8. RefersTo(t)' = {w}
  BY <1>3, StaleNone DEF RefersTo
<1>9. /\ home'[w] = KeyFor(call[t].tenant, call[t].rel) /\ installed'[w] = {}
      /\ \A x \in Workers : x # w => home'[x] = home[x] /\ installed'[x] = installed[x]
  BY <1>0 DEF Create, TypeOK, KeyFor
<1>10. Exclusive'
  <2>1. IdleWorkers' = IdleWorkers
    BY <1>0 DEF IdleWorkers
  <2>2. ASSUME NEW x \in Workers
        PROVE  (\A u, v \in Holders(x)' : u = v) /\ (Holders(x)' # {} => x \notin IdleWorkers')
    <3>0. Holders(x) \subseteq Threads /\ Holders(x)' \subseteq Threads
      BY DEF Holders
    <3>1. CASE x = w
      <4>1. Holders(x)' = {t}
        BY <1>5, <1>6, <1>7, <3>0, <3>1
      <4> QED
        BY <1>4, <2>1, <3>1, <4>1
    <3>2. CASE x # w
      <4>1. Holders(x)' = Holders(x)
        BY <1>6, <1>7, <3>0, <3>2
      <4> QED
        BY <1>0, <2>1, <4>1 DEF Exclusive
    <3> QED
      BY <3>1, <3>2
  <2> QED
    BY <1>0, <2>2 DEF Exclusive
<1>11. HeldHome'
  <2> SUFFICES ASSUME NEW u \in Threads, NEW x \in Workers, u \in Holders(x)'
               PROVE  home'[x] = KeyFor(call'[u].tenant, call'[u].rel)
      BY DEF HeldHome, KeyFor
  <2>1. CASE u = t
    BY <1>3, <1>7, <1>9, <2>1
  <2>2. CASE u # t
    BY <1>0, <1>2, <1>5, <1>6, <1>9, <2>2 DEF HeldHome
  <2> QED
    BY <2>1, <2>2
<1>12. IdleHome'
  <2> SUFFICES ASSUME NEW k \in PoolKey, NEW i \in DOMAIN idle[k] PROVE home'[idle[k][i]] = k
      BY <1>0 DEF IdleHome
  <2>1. idle[k][i] \in IdleWorkers /\ idle[k][i] \in Workers
    BY <1>0 DEF IdleWorkers, ToSet, TypeOK
  <2> QED
    BY <1>0, <1>4, <1>9, <2>1 DEF IdleHome
<1>13. Fitting'
  <2> SUFFICES ASSUME NEW u \in Threads, NEW x \in Workers, u \in Holders(x)'
               PROVE  IF call'[u].op = "use" THEN call'[u].rel \in installed'[x]
                                             ELSE ~Full(x, call[u].rel)'
      BY DEF Fitting, Full
  <2>1. CASE u = t
    <3>1. Cardinality(installed'[x]) = 0
      BY <1>7, <1>9, <2>1, FS_EmptySet
    <3> QED
      BY <1>3, <2>1, <3>1, PoolAssumption DEF Full
  <2>2. CASE u # t
    <3>1. u \in Holders(x) /\ x # w /\ call'[u] = call[u]
      BY <1>2, <1>5, <1>6, <2>2
    <3> QED
      BY <1>0, <1>9, <3>1 DEF Fitting, Full
  <2> QED
    BY <2>1, <2>2
<1>14. Bounded'
  <2>1. IsFiniteSet({}) /\ Cardinality({}) <= MaxInstalled
    BY FS_EmptySet, PoolAssumption
  <2> QED
    BY <1>0, <1>9, <2>1 DEF Bounded
<1>15. Fresh'
  <2> SUFFICES ASSUME NEW u \in Threads, pc'[u] \in Unborn, call'[u].w \in Workers
               PROVE  /\ call'[u].w \notin alive'
                      /\ \A v \in Threads : v # u => call'[u].w \notin RefersTo(v)'
      BY DEF Fresh
  <2>1. CASE u = t
    BY <1>0, <1>3, <1>4, <1>6, <2>1
  <2>2. CASE u # t
    <3>1. pc[u] \in Unborn /\ call'[u] = call[u] /\ call[u].w # w
      <4>1. pc[u] \in Unborn /\ call'[u] = call[u]
        BY <1>2, <2>2
      <4> QED
        BY <1>0, <1>5, <4>1, HeldReferred
    <3> QED
      BY <1>0, <1>6, <1>8, <3>1 DEF Fresh
  <2> QED
    BY <2>1, <2>2
<1>16. Marked'
  BY <1>0, <1>2 DEF Marked, Deleting
<1> QED
  BY <1>10, <1>11, <1>12, <1>13, <1>14, <1>15, <1>16 DEF Owned

\* The new worker has its release and is returned.
LEMMA BootstrapKeeps ==
    ASSUME Typed, Owned, NEW t \in Threads, Bootstrap(t)
    PROVE  Owned'
<1> DEFINE w == call[t].w
           rel == call[t].rel
<1>0. /\ TypeOK /\ Locals
      /\ Exclusive /\ HeldHome /\ IdleHome /\ Fitting /\ Bounded /\ Fresh /\ Marked
      /\ idle' = idle /\ home' = home /\ alive' = alive \cup {w}
  BY DEF Typed, Owned, Bootstrap
<1>1. call[t] \in AcquireCall /\ w \in Workers /\ rel \in Releases /\ pc[t] \in Unborn
  BY <1>0 DEF Bootstrap, Locals, Fits, Creating, AcquireCall, Unborn
<1>2. /\ pc'[t] = "using"
      /\ call'[t] = [op |-> "use", tenant |-> call[t].tenant, rel |-> rel, w |-> w]
      /\ \A u \in Threads : u # t => pc'[u] = pc[u] /\ call'[u] = call[u]
  BY <1>0 DEF Bootstrap, Goto, TypeOK
<1>3. \A u \in Threads : u # t =>
              /\ RefersTo(u)' = RefersTo(u)
              /\ \A x \in Workers : u \in Holders(x)' <=> u \in Holders(x)
  BY <1>2, OthersHold
<1>4. \A x \in Workers : (t \in Holders(x)' <=> x = w) /\ (t \in Holders(x) <=> x = w)
  BY <1>1, <1>2 DEF Holders, AcquireCall
<1>5. \A x \in Workers : Holders(x)' = Holders(x)
  BY <1>3, <1>4 DEF Holders
<1>6. RefersTo(t)' = {w} /\ w \in RefersTo(t)
  BY <1>1, <1>2 DEF RefersTo, AcquireCall
<1>7. /\ installed'[w] = {rel}
      /\ \A x \in Workers : x # w => installed'[x] = installed[x]
  BY <1>0, <1>1 DEF Bootstrap, TypeOK
<1>8. Exclusive'
  BY <1>0, <1>5 DEF Exclusive, IdleWorkers
<1>9. HeldHome' /\ IdleHome'
  <2>1. \A u \in Threads : call'[u].tenant = call[u].tenant /\ call'[u].rel = call[u].rel
    BY <1>2
  <2> QED
    BY <1>0, <1>5, <2>1 DEF HeldHome, IdleHome, KeyFor
<1>10. Fitting'
  <2> SUFFICES ASSUME NEW u \in Threads, NEW x \in Workers, u \in Holders(x)'
               PROVE  IF call'[u].op = "use" THEN call'[u].rel \in installed'[x]
                                             ELSE ~Full(x, call[u].rel)'
      BY DEF Fitting, Full
  <2>1. CASE u = t
    <3>1. x = w
      BY <1>4, <2>1
    <3> QED
      BY <1>2, <1>7, <2>1, <3>1
  <2>2. CASE u # t
    <3>1. x # w /\ call'[u] = call[u] /\ u \in Holders(x)
      <4>1. u \in Holders(x) /\ t \in Holders(w)
        BY <1>1, <1>4, <1>5
      <4> QED
        BY <1>0, <1>1, <1>2, <2>2, <4>1 DEF Exclusive
    <3> QED
      BY <1>0, <1>7, <3>1 DEF Fitting, Full
  <2> QED
    BY <2>1, <2>2
<1>11. Bounded'
  <2>1. IsFiniteSet({rel}) /\ Cardinality({rel}) = 1
    BY FS_Singleton
  <2>2. 1 <= MaxInstalled
    BY PoolAssumption
  <2> QED
    BY <1>0, <1>7, <2>1, <2>2 DEF Bounded
<1>12. Fresh'
  <2> SUFFICES ASSUME NEW u \in Threads, pc'[u] \in Unborn, call'[u].w \in Workers
               PROVE  /\ call'[u].w \notin alive'
                      /\ \A v \in Threads : v # u => call'[u].w \notin RefersTo(v)'
      BY DEF Fresh
  <2>1. u # t /\ pc[u] \in Unborn /\ call'[u] = call[u]
    BY <1>2 DEF Unborn
  <2>2. call[u].w \notin alive /\ call[u].w \notin RefersTo(t)
    BY <1>0, <2>1 DEF Fresh
  <2> QED
    BY <1>0, <1>3, <1>6, <2>1, <2>2 DEF Fresh
<1>13. Marked'
  <2> SUFFICES ASSUME NEW u \in Threads, pc'[u] \in Deleting
               PROVE  Head(call'[u].stale) \notin alive'
      BY DEF Marked
  <2>1. u # t /\ pc[u] \in Deleting /\ call'[u] = call[u]
    BY <1>2 DEF Deleting
  <2>2. Head(call[u].stale) \in RefersTo(u) /\ w \notin RefersTo(u)
    BY <1>0, <1>1, <2>1, HeldReferred DEF Fresh
  <2> QED
    BY <1>0, <2>1, <2>2 DEF Marked
<1> QED
  BY <1>8, <1>9, <1>10, <1>11, <1>12, <1>13 DEF Owned

\* release puts the worker at the end of its bucket.
LEMMA AppendKeeps ==
    ASSUME Typed, Owned, NEW t \in Threads, ReleaseAppend(t)
    PROVE  Owned'
<1>0. /\ TypeOK /\ Locals
      /\ Exclusive /\ HeldHome /\ IdleHome /\ Fitting /\ Bounded /\ Fresh /\ Marked
      /\ home' = home /\ alive' = alive /\ installed' = installed
  BY DEF Typed, Owned, ReleaseAppend, workerVars
<1>a. call[t] \in UseCall /\ call[t].w \in Workers /\ home[call[t].w] \in PoolKey
  BY <1>0 DEF ReleaseAppend, Locals, Fits, UseCall, TypeOK
<1>w. PICK w \in Workers, key \in PoolKey : w = call[t].w /\ key = home[w]
  BY <1>a
<1>1. t \in Holders(w)
  BY <1>a, <1>w DEF Holders, UseCall
<1>2. /\ pc'[t] = "ready" /\ call'[t] = NoCall
      /\ \A u \in Threads : u # t => pc'[u] = pc[u] /\ call'[u] = call[u]
  BY <1>0 DEF ReleaseAppend, Return, TypeOK
<1>3. \A u \in Threads : u # t =>
              /\ RefersTo(u)' = RefersTo(u)
              /\ \A x \in Workers : u \in Holders(x)' <=> u \in Holders(x)
  BY <1>2, OthersHold
<1>4. RefersTo(t)' = {} /\ \A x \in Workers : t \notin Holders(x)'
  BY <1>2 DEF RefersTo, Holders, NoCall
<1>5. \A x \in Workers : Holders(x)' \subseteq Holders(x) \ {t} /\ Holders(x) \subseteq Threads
  BY <1>3, <1>4 DEF Holders
<1>6. w \notin IdleWorkers /\ Holders(w)' = {}
  BY <1>0, <1>1, <1>5 DEF Exclusive
<1> DEFINE b == idle[key]
<1>7. b \in Seq(Workers) /\ Len(b) \in Nat /\ DOMAIN b = 1..Len(b)
  BY <1>0, <1>1 DEF TypeOK
<1>8. /\ DOMAIN Append(b, w) = 1..(Len(b) + 1)
      /\ Append(b, w)[Len(b) + 1] = w
      /\ \A i \in DOMAIN b : Append(b, w)[i] = b[i]
  BY <1>1, <1>7
<1>9. /\ idle'[key] = Append(b, w)
      /\ \A k \in PoolKey : k # key => idle'[k] = idle[k]
  BY <1>0, <1>w DEF ReleaseAppend, TypeOK
<1> HIDE DEF b
\* A position of a bucket held its worker before, or is the new one.
<1>10. \A k \in PoolKey : \A i \in DOMAIN idle'[k] :
          \/ i \in DOMAIN idle[k] /\ idle'[k][i] = idle[k][i]
          \/ k = key /\ i = Len(b) + 1 /\ idle'[k][i] = w
  <2> SUFFICES ASSUME NEW k \in PoolKey, NEW i \in DOMAIN idle'[k]
               PROVE  \/ i \in DOMAIN idle[k] /\ idle'[k][i] = idle[k][i]
                      \/ k = key /\ i = Len(b) + 1 /\ idle'[k][i] = w
      OBVIOUS
  <2>1. CASE k # key
    BY <1>9, <2>1
  <2>2. CASE k = key
    <3>1. i \in 1..(Len(b) + 1)
      BY <1>8, <1>9, <2>2
    <3>2. i = Len(b) + 1 \/ i \in 1..Len(b)
      BY <1>7, <3>1
    <3> QED
      BY <1>7, <1>8, <1>9, <2>2, <3>2 DEF b
  <2> QED
    BY <2>1, <2>2
<1>11. \A k \in PoolKey : \A i \in DOMAIN idle[k] : idle[k][i] \in IdleWorkers /\ idle[k][i] # w
  BY <1>6 DEF IdleWorkers, ToSet
<1>12. IdleWorkers' \subseteq IdleWorkers \cup {w}
  <2> SUFFICES ASSUME NEW k \in PoolKey, NEW i \in DOMAIN idle'[k]
               PROVE  idle'[k][i] \in IdleWorkers \cup {w}
      BY DEF IdleWorkers, ToSet
  <2> QED
    BY <1>10, <1>11
<1>13. Exclusive'
  <2>1. ASSUME NEW x \in Workers
        PROVE  (\A u, v \in Holders(x)' : u = v) /\ (Holders(x)' # {} => x \notin IdleWorkers')
    BY <1>0, <1>5, <1>6, <1>12 DEF Exclusive
  <2>2. ASSUME NEW k \in PoolKey, NEW m \in PoolKey, NEW i \in DOMAIN idle'[k],
               NEW j \in DOMAIN idle'[m], idle'[k][i] = idle'[m][j]
        PROVE  k = m /\ i = j
    <3>1. CASE i \in DOMAIN idle[k] /\ idle'[k][i] = idle[k][i]
      <4>1. idle[k][i] # w
        BY <1>11, <3>1
      <4>2. j \in DOMAIN idle[m] /\ idle'[m][j] = idle[m][j]
        BY <1>10, <2>2, <3>1, <4>1
      <4>3. idle[k][i] = idle[m][j]
        BY <2>2, <3>1, <4>2
      <4> QED
        BY <1>0, <3>1, <4>2, <4>3 DEF Exclusive
    <3>2. CASE k = key /\ i = Len(b) + 1 /\ idle'[k][i] = w
      BY <1>10, <1>11, <2>2, <3>2
    <3> QED
      BY <1>10, <3>1, <3>2
  <2> QED
    BY <2>1, <2>2 DEF Exclusive
<1>14. HeldHome' /\ Fitting' /\ Bounded'
  <2>1. \A u \in Threads, x \in Workers : u \in Holders(x)' => u \in Holders(x) /\ call'[u] = call[u]
    BY <1>2, <1>3, <1>4
  <2> QED
    BY <1>0, <2>1 DEF HeldHome, Fitting, Bounded, KeyFor, Full
<1>15. IdleHome'
  BY <1>0, <1>w, <1>10 DEF IdleHome
<1>16. Fresh'
  <2> SUFFICES ASSUME NEW u \in Threads, pc'[u] \in Unborn, call'[u].w \in Workers
               PROVE  /\ call'[u].w \notin alive'
                      /\ \A v \in Threads : v # u => call'[u].w \notin RefersTo(v)'
      BY DEF Fresh
  <2>1. u # t /\ pc[u] \in Unborn /\ call'[u] = call[u]
    BY <1>2 DEF Unborn
  <2> QED
    BY <1>0, <1>3, <1>4, <2>1 DEF Fresh
<1>17. Marked'
  BY <1>0, <1>2 DEF Marked, Deleting
<1> QED
  BY <1>13, <1>14, <1>15, <1>16, <1>17 DEF Owned

\* cancel takes a reference to a worker that acquire has returned, destroyed or not.
LEMMA CancelKeeps ==
    ASSUME Typed, Owned, NEW t \in Callers, NEW w \in Workers \ Unreturned, CancelRef(t, w)
    PROVE  Owned'
<1>0. /\ TypeOK /\ Locals /\ t \in Threads /\ w \in Workers
      /\ Exclusive /\ HeldHome /\ IdleHome /\ Fitting /\ Bounded /\ Fresh /\ Marked
      /\ idle' = idle /\ home' = home /\ alive' = alive /\ installed' = installed
  BY DEF Typed, Owned, CancelRef, workerVars, Threads, TypeOK
<1>1. /\ pc'[t] = "ref" /\ call'[t] = [op |-> "ref", w |-> w]
      /\ \A u \in Threads : u # t => pc'[u] = pc[u] /\ call'[u] = call[u]
  BY <1>0 DEF CancelRef, Goto, TypeOK
<1>2. \A u \in Threads : u # t =>
              /\ RefersTo(u)' = RefersTo(u)
              /\ \A x \in Workers : u \in Holders(x)' <=> u \in Holders(x)
  BY <1>0, <1>1, OthersHold
<1>3. RefersTo(t)' = {w} /\ \A x \in Workers : t \notin Holders(x)'
  BY <1>0, <1>1 DEF RefersTo, Holders
<1>4. \A u \in Threads, x \in Workers : u \in Holders(x)' => u \in Holders(x) /\ call'[u] = call[u]
  BY <1>1, <1>2, <1>3
<1>5. \A x \in Workers : Holders(x)' \subseteq Holders(x) /\ Holders(x) \subseteq Threads
  BY <1>4 DEF Holders
<1>6. Exclusive'
  <2>1. IdleWorkers' = IdleWorkers
    BY <1>0 DEF IdleWorkers
  <2>2. ASSUME NEW x \in Workers
        PROVE  (\A u, v \in Holders(x)' : u = v) /\ (Holders(x)' # {} => x \notin IdleWorkers')
    BY <1>0, <1>5, <2>1 DEF Exclusive
  <2> QED
    BY <1>0, <2>2 DEF Exclusive
<1>7. HeldHome' /\ Fitting' /\ Bounded' /\ IdleHome'
  BY <1>0, <1>4 DEF HeldHome, Fitting, Bounded, IdleHome, KeyFor, Full
<1>8. Fresh'
  <2> SUFFICES ASSUME NEW u \in Threads, pc'[u] \in Unborn, call'[u].w \in Workers
               PROVE  /\ call'[u].w \notin alive'
                      /\ \A v \in Threads : v # u => call'[u].w \notin RefersTo(v)'
      BY DEF Fresh
  <2>1. u # t /\ pc[u] \in Unborn /\ call'[u] = call[u]
    BY <1>1 DEF Unborn
  <2>2. call[u].w # w
    BY <2>1 DEF Unreturned, Unborn
  <2> QED
    BY <1>0, <1>2, <1>3, <2>1, <2>2 DEF Fresh
<1>9. Marked'
  BY <1>0, <1>1 DEF Marked, Deleting
<1> QED
  BY <1>6, <1>7, <1>8, <1>9 DEF Owned

\* Workers move from the buckets to one thread, which may hold one of them.
Takes(t) ==
    /\ UNCHANGED <<home, installed, alive>>
    /\ \A u \in Threads : u # t => pc'[u] = pc[u] /\ call'[u] = call[u]
    /\ pc'[t] = "stale"
    /\ RefersTo(t)' \subseteq IdleWorkers
    /\ \A w \in Workers : t \in Holders(w)' =>
          /\ w \in IdleWorkers /\ w \notin IdleWorkers'
          /\ home[w] = KeyFor(call'[t].tenant, call'[t].rel)
          /\ call'[t].op = "acquire" /\ ~Full(w, call'[t].rel)
          /\ \A x \in Workers : t \in Holders(x)' => x = w
    /\ \A k \in PoolKey :
          \E pos \in [DOMAIN idle'[k] -> DOMAIN idle[k]] :
             /\ \A i \in DOMAIN idle'[k] : idle'[k][i] = idle[k][pos[i]]
             /\ \A i, j \in DOMAIN idle'[k] : pos[i] = pos[j] => i = j

\* Such a step leaves every worker with one owner.
LEMMA TakesKeeps ==
    ASSUME Typed, Owned, NEW t \in Threads, Takes(t)
    PROVE  Owned'
<1>0. /\ TypeOK /\ Locals
      /\ Exclusive /\ HeldHome /\ IdleHome /\ Fitting /\ Bounded /\ Fresh /\ Marked
      /\ home' = home /\ alive' = alive /\ installed' = installed
  BY DEF Typed, Owned, Takes
<1>1. /\ pc'[t] = "stale"
      /\ \A u \in Threads : u # t => pc'[u] = pc[u] /\ call'[u] = call[u]
  BY DEF Takes
<1>2. \A u \in Threads : u # t =>
              /\ RefersTo(u)' = RefersTo(u)
              /\ \A x \in Workers : u \in Holders(x)' <=> u \in Holders(x)
  BY <1>1, OthersHold
<1>3. \A k \in PoolKey : \A i \in DOMAIN idle'[k] :
          \E n \in DOMAIN idle[k] : idle'[k][i] = idle[k][n]
  BY DEF Takes
<1>4. IdleWorkers' \subseteq IdleWorkers
  <2> SUFFICES ASSUME NEW k \in PoolKey, NEW i \in DOMAIN idle'[k]
               PROVE  idle'[k][i] \in IdleWorkers
      BY DEF IdleWorkers, ToSet
  <2> QED
    BY <1>3 DEF IdleWorkers, ToSet
<1>5. \A x \in Workers : Holders(x)' \subseteq Threads /\ Holders(x) \subseteq Threads
  BY DEF Holders
<1>6. \A x \in Workers : t \in Holders(x)' => x \in IdleWorkers /\ x \notin IdleWorkers'
  BY DEF Takes
<1>7. Exclusive'
  <2>1. ASSUME NEW x \in Workers
        PROVE  (\A u, v \in Holders(x)' : u = v) /\ (Holders(x)' # {} => x \notin IdleWorkers')
    <3>1. CASE t \in Holders(x)'
      <4>1. Holders(x) = {}
        BY <1>0, <1>6, <3>1 DEF Exclusive
      <4>2. Holders(x)' = {t}
        BY <1>2, <1>5, <3>1, <4>1
      <4> QED
        BY <1>6, <3>1, <4>2
    <3>2. CASE t \notin Holders(x)'
      <4>1. Holders(x)' \subseteq Holders(x)
        BY <1>2, <1>5, <3>2
      <4> QED
        BY <1>0, <1>4, <4>1 DEF Exclusive
    <3> QED
      BY <3>1, <3>2
  <2>2. ASSUME NEW k \in PoolKey, NEW m \in PoolKey, NEW i \in DOMAIN idle'[k],
               NEW j \in DOMAIN idle'[m], idle'[k][i] = idle'[m][j]
        PROVE  k = m /\ i = j
    <3>1. k = m
      BY <1>0, <1>3, <2>2 DEF Exclusive
    <3>2. PICK pos \in [DOMAIN idle'[k] -> DOMAIN idle[k]] :
              /\ \A n \in DOMAIN idle'[k] : idle'[k][n] = idle[k][pos[n]]
              /\ \A n, o \in DOMAIN idle'[k] : pos[n] = pos[o] => n = o
      BY DEF Takes
    <3>3. pos[i] = pos[j]
      BY <1>0, <2>2, <3>1, <3>2 DEF Exclusive
    <3> QED
      BY <3>1, <3>2, <3>3
  <2> QED
    BY <2>1, <2>2 DEF Exclusive
<1>8. HeldHome'
  BY <1>0, <1>1, <1>2 DEF Takes, HeldHome, KeyFor
<1>9. Fitting' /\ Bounded'
  <2>1. ASSUME NEW u \in Threads, NEW x \in Workers, u \in Holders(x)'
        PROVE  IF call'[u].op = "use" THEN call'[u].rel \in installed[x]
                                      ELSE ~Full(x, call'[u].rel)
    <3>1. CASE u = t
      BY <2>1, <3>1 DEF Takes
    <3>2. CASE u # t
      BY <1>0, <1>1, <1>2, <2>1, <3>2 DEF Fitting
    <3> QED
      BY <3>1, <3>2
  <2> QED
    BY <1>0, <2>1 DEF Fitting, Bounded, Full
<1>10. IdleHome'
  BY <1>0, <1>3 DEF IdleHome
<1>11. Fresh'
  <2> SUFFICES ASSUME NEW u \in Threads, pc'[u] \in Unborn, call'[u].w \in Workers
               PROVE  /\ call'[u].w \notin alive'
                      /\ \A v \in Threads : v # u => call'[u].w \notin RefersTo(v)'
      BY DEF Fresh
  <2>1. u # t /\ pc[u] \in Unborn /\ call'[u] = call[u]
    BY <1>1 DEF Unborn
  <2>2. call[u].w \notin IdleWorkers
    <3>1. u \in Holders(call[u].w)
      BY <1>0, <2>1, HeldReferred
    <3> QED
      BY <1>0, <2>1, <3>1 DEF Exclusive
  <2>3. call[u].w \notin RefersTo(t)'
    BY <2>2 DEF Takes
  <2> QED
    BY <1>0, <1>2, <2>1, <2>3 DEF Fresh
<1>12. Marked'
  BY <1>0, <1>1 DEF Marked, Deleting
<1> QED
  BY <1>7, <1>8, <1>9, <1>10, <1>11, <1>12 DEF Owned

\* acquire pops the candidate and the stale workers behind it.
LEMMA PopTakes ==
    ASSUME Typed, Owned, NEW t \in Callers, NEW n \in Tenants, NEW rel \in Releases,
           AcquirePop(t, n, rel)
    PROVE  Takes(t) /\ \A w \in Workers : t \in Holders(w)' => w \in alive
<1>0. TypeOK /\ Locals /\ Exclusive /\ IdleHome /\ t \in Threads
  BY DEF Typed, Owned, Threads
<1>k. PICK key \in PoolKey : key = KeyFor(n, rel)
  BY PoolAssumption DEF KeyFor, PoolKey
<1>b. PICK b \in Seq(Workers) : b = idle[key]
  BY <1>0 DEF TypeOK
<1>1. PICK i \in 0..Len(b) : /\ AcquireWith(t, n, rel, b, i)
                             /\ idle' = [idle EXCEPT ![key] = SubSeq(b, 1, i - 1)]
  BY <1>k, <1>b DEF AcquirePop
<1>l. PICK left : left = SubSeq(b, 1, i - 1)
  OBVIOUS
<1>s. PICK st : st = Reverse(SubSeq(b, i + 1, Len(b)))
  OBVIOUS
<1>2. /\ ToSet(st) = {b[j] : j \in (i + 1)..Len(b)}
      /\ DOMAIN left = 1..(i - 1) /\ \A j \in 1..(i - 1) : left[j] = b[j]
      /\ 1..(i - 1) \subseteq DOMAIN b
  BY <1>l, <1>s, PoppedBucket
<1>3. Len(b) \in Nat /\ DOMAIN b = 1..Len(b) /\ i \in Nat /\ i <= Len(b)
  OBVIOUS
<1>4. /\ pc'[t] = "stale"
      /\ call'[t] = [op |-> "acquire", tenant |-> n, rel |-> rel,
                     w |-> IF i = 0 THEN NoWorker ELSE b[i], stale |-> st]
      /\ \A u \in Threads : u # t => pc'[u] = pc[u] /\ call'[u] = call[u]
  BY <1>0, <1>1, <1>s DEF AcquireWith, Goto, TypeOK
<1>5. idle'[key] = left /\ \A k \in PoolKey : k # key => idle'[k] = idle[k]
  BY <1>0, <1>1, <1>l DEF TypeOK
<1>6. \A j \in DOMAIN b : b[j] \in IdleWorkers /\ b[j] \in Workers /\ home[b[j]] = key
  BY <1>0, <1>b DEF IdleWorkers, ToSet, IdleHome
<1>7. i # 0 => i \in DOMAIN b
  BY <1>3
<1>8. RefersTo(t)' \subseteq IdleWorkers
  <2>1. \A j \in (i + 1)..Len(b) : j \in DOMAIN b
    BY <1>3
  <2>2. ToSet(st) \subseteq IdleWorkers
    BY <1>2, <1>6, <2>1
  <2>3. {IF i = 0 THEN NoWorker ELSE b[i]} \cap Workers \subseteq IdleWorkers
    BY <1>6, <1>7, PoolAssumption
  <2> QED
    BY <1>4, <2>2, <2>3 DEF RefersTo
<1>9. \A k \in PoolKey : \A j \in DOMAIN idle'[k] :
          j \in DOMAIN idle[k] /\ idle'[k][j] = idle[k][j] /\ (k = key => j # i)
  <2> SUFFICES ASSUME NEW k \in PoolKey, NEW j \in DOMAIN idle'[k]
               PROVE  j \in DOMAIN idle[k] /\ idle'[k][j] = idle[k][j] /\ (k = key => j # i)
      OBVIOUS
  <2>1. CASE k = key
    <3>1. j \in 1..(i - 1)
      BY <1>2, <1>5, <2>1
    <3>2. j # i
      BY <1>3, <3>1
    <3> QED
      BY <1>b, <1>2, <1>5, <2>1, <3>1, <3>2
  <2>2. CASE k # key
    BY <1>5, <2>2
  <2> QED
    BY <2>1, <2>2
<1>10. ASSUME NEW w \in Workers, t \in Holders(w)'
       PROVE  /\ w \in IdleWorkers /\ w \notin IdleWorkers'
              /\ home[w] = KeyFor(call'[t].tenant, call'[t].rel)
              /\ call'[t].op = "acquire" /\ ~Full(w, call'[t].rel)
              /\ \A x \in Workers : t \in Holders(x)' => x = w
  <2>1. i # 0 /\ w = b[i] /\ i \in DOMAIN b
    BY <1>4, <1>7, <1>10, PoolAssumption DEF Holders
  <2>2. w \in IdleWorkers /\ home[w] = key
    BY <1>6, <2>1
  <2>3. w \notin IdleWorkers'
    <3> SUFFICES ASSUME NEW k \in PoolKey, NEW j \in DOMAIN idle'[k], idle'[k][j] = w
                 PROVE  FALSE
        BY DEF IdleWorkers, ToSet
    <3>1. j \in DOMAIN idle[k] /\ idle[k][j] = idle[key][i] /\ i \in DOMAIN idle[key]
      BY <1>b, <1>9, <2>1
    <3>2. k = key /\ j = i
      BY <1>0, <3>1 DEF Exclusive
    <3> QED
      BY <1>9, <3>2
  <2>4. Usable(b[i], rel)
    BY <1>1, <2>1 DEF AcquireWith, IsCandidate
  <2>5. ~Full(w, rel)
    BY <2>1, <2>4 DEF Usable
  <2>6. call'[t].op = "acquire" /\ call'[t].tenant = n /\ call'[t].rel = rel
    BY <1>4
  <2>7. \A x \in Workers : t \in Holders(x)' => x = w
    BY <1>10 DEF Holders
  <2> QED
    BY <1>k, <2>2, <2>3, <2>5, <2>6, <2>7
<1>11. ASSUME NEW k \in PoolKey
       PROVE  \E pos \in [DOMAIN idle'[k] -> DOMAIN idle[k]] :
                 /\ \A j \in DOMAIN idle'[k] : idle'[k][j] = idle[k][pos[j]]
                 /\ \A j, m \in DOMAIN idle'[k] : pos[j] = pos[m] => j = m
  <2>1. PICK same : same = [j \in DOMAIN idle'[k] |-> j]
    OBVIOUS
  <2>2. same \in [DOMAIN idle'[k] -> DOMAIN idle[k]]
    BY <1>9, <2>1
  <2> QED
    BY <1>9, <2>1, <2>2
<1>12. Takes(t)
  <2>1. UNCHANGED <<home, installed, alive>>
    BY <1>1 DEF AcquireWith, workerVars
  <2> QED
    BY <1>4, <1>8, <1>10, <1>11, <2>1 DEF Takes
<1>13. ASSUME NEW w \in Workers, t \in Holders(w)' PROVE w \in alive
  <2>1. i # 0 /\ w = b[i]
    BY <1>4, <1>13, PoolAssumption DEF Holders
  <2> QED
    BY <1>1, <2>1 DEF AcquireWith, IsCandidate, Usable, IdleExpired
<1> QED
  BY <1>12, <1>13

\* reap takes the expired workers out of the buckets.
LEMMA ReapTakes ==
    ASSUME Typed, Owned, Reap
    PROVE  /\ Takes(Reaper) /\ call'[Reaper].op = "reap"
           /\ \A w \in ToSet(call'[Reaper].stale) : w \in IdleWorkers /\ w \notin IdleWorkers'
<1>0. TypeOK /\ Locals /\ Reaper \in Threads
  BY DEF Typed, Threads
<1>e. PICK expired \in SUBSET IdleWorkers : expired = {w \in IdleWorkers : IdleExpired(w)}
  OBVIOUS
<1>1. PICK order \in SetToSeqs(expired) :
          call' = [call EXCEPT ![Reaper] = [op |-> "reap", stale |-> order]]
  BY <1>e DEF Reap
<1>2. /\ pc'[Reaper] = "stale" /\ call'[Reaper] = [op |-> "reap", stale |-> order]
      /\ \A u \in Threads : u # Reaper => pc'[u] = pc[u] /\ call'[u] = call[u]
  BY <1>0, <1>1 DEF Reap, Goto, TypeOK
<1>3. ToSet(order) \subseteq expired
  BY DEF SetToSeqs, ToSet
<1>4. RefersTo(Reaper)' \subseteq IdleWorkers
  BY <1>2, <1>3 DEF RefersTo
<1>5. \A w \in Workers : Reaper \notin Holders(w)'
  BY <1>2 DEF Holders
<1>6. ASSUME NEW k \in PoolKey
      PROVE  \E pos \in [DOMAIN idle'[k] -> DOMAIN idle[k]] :
                /\ \A i \in DOMAIN idle'[k] : idle'[k][i] = idle[k][pos[i]]
                /\ \A i, j \in DOMAIN idle'[k] : pos[i] = pos[j] => i = j
  <2>1. idle'[k] = Kept(idle[k]) /\ idle[k] \in Seq(Workers)
    BY <1>0 DEF Reap, TypeOK
  <2>2. PICK pos \in [DOMAIN Kept(idle[k]) -> DOMAIN idle[k]] :
                 /\ \A m, o \in DOMAIN Kept(idle[k]) : pos[m] = pos[o] => m = o
                 /\ \A o \in DOMAIN Kept(idle[k]) : Kept(idle[k])[o] = idle[k][pos[o]]
    BY <2>1, KeptBucket
  <2> QED
    BY <2>1, <2>2
<1>7. Takes(Reaper)
  <2>1. UNCHANGED <<home, installed, alive>>
    BY DEF Reap, workerVars
  <2> QED
    BY <1>2, <1>4, <1>5, <1>6, <2>1 DEF Takes
<1>8. ASSUME NEW w \in ToSet(order) PROVE w \in IdleWorkers /\ w \notin IdleWorkers'
  <2>1. w \in IdleWorkers /\ IdleExpired(w)
    BY <1>e, <1>3
  <2>2. ASSUME NEW k \in PoolKey, w \in ToSet(idle'[k]) PROVE FALSE
    <3>1. idle'[k] = Kept(idle[k]) /\ idle[k] \in Seq(Workers)
      BY <1>0 DEF Reap, TypeOK
    <3>2. ToSet(Kept(idle[k])) = {idle[k][i] : i \in {j \in DOMAIN idle[k] : ~IdleExpired(idle[k][j])}}
      BY <3>1, KeptBucket
    <3> QED
      BY <2>1, <2>2, <3>1, <3>2
  <2> QED
    BY <2>1, <2>2 DEF IdleWorkers
<1> QED
  BY <1>2, <1>7, <1>8

\* A Runner that has just started owns nothing.
LEMMA NothingOwned ==
    ASSUME pc = [t \in Threads |-> "ready"], call = [t \in Threads |-> NoCall],
           idle = [k \in PoolKey |-> <<>>], installed = [w \in Workers |-> {}]
    PROVE  Owned
<1>1. \A w \in Workers : Holders(w) = {}
  BY DEF Holders, NoCall
<1>2. \A k \in PoolKey : idle[k] = <<>> /\ DOMAIN idle[k] = {}
  OBVIOUS
<1>3. Exclusive /\ HeldHome /\ IdleHome /\ Fitting
  BY <1>1, <1>2 DEF Exclusive, HeldHome, IdleHome, Fitting
<1>4. Bounded
  BY FS_EmptySet, PoolAssumption DEF Bounded
<1>5. Fresh /\ Marked
  BY DEF Fresh, Marked, Unborn, Deleting
<1> QED
  BY <1>3, <1>4, <1>5 DEF Owned

\* Nor does anybody own anything after the process died.
LEMMA ForgetOwned ==
    ASSUME Forget
    PROVE  Owned'
<1>1. /\ pc' = [t \in Threads |-> "ready"] /\ call' = [t \in Threads |-> NoCall]
      /\ idle' = [k \in PoolKey |-> <<>>] /\ installed' = [w \in Workers |-> {}]
  BY DEF Forget
<1>2. \A w \in Workers : Holders(w)' = {}
  BY <1>1 DEF Holders, NoCall
<1>3. \A k \in PoolKey : idle'[k] = <<>> /\ DOMAIN idle'[k] = {}
  BY <1>1
<1>4. Exclusive' /\ HeldHome' /\ IdleHome' /\ Fitting'
  BY <1>2, <1>3 DEF Exclusive, HeldHome, IdleHome, Fitting
<1>5. Bounded'
  BY <1>1, FS_EmptySet, PoolAssumption DEF Bounded
<1>6. Fresh' /\ Marked'
  BY <1>1 DEF Fresh, Marked, Unborn, Deleting
<1> QED
  BY <1>4, <1>5, <1>6 DEF Owned

\* Every step of the pool leaves every worker with one owner.
LEMMA NextOwned ==
    ASSUME Typed, Owned, Next
    PROVE  Owned'
<1>1. ASSUME NEW t \in Callers, NEW n \in Tenants, NEW rel \in Releases, AcquirePop(t, n, rel)
      PROVE  Owned'
  BY <1>1, PopTakes, TakesKeeps DEF Threads
<1>2. ASSUME NEW t \in Callers, Release(t) \/ Invalidate(t) PROVE Owned'
  BY <1>2, RetireQuiet, QuietKeeps DEF Threads
<1>3. ASSUME NEW t \in Callers, NEW w \in Workers \ Unreturned, CancelRef(t, w) PROVE Owned'
  BY <1>3, CancelKeeps
<1>4. ASSUME NEW t \in Threads, Step(t) PROVE Owned'
  <2>1. CASE EnsureRelease(t)
    BY <2>1, EnsureKeeps
  <2>2. ASSUME NEW w \in Workers, Create(t, w) PROVE Owned'
    BY <2>2, CreateKeeps
  <2>3. CASE Bootstrap(t)
    BY <2>3, BootstrapKeeps
  <2>4. CASE ReleaseAppend(t)
    BY <2>4, AppendKeeps
  <2>5. CASE /\ ~EnsureRelease(t) /\ ~(\E w \in Workers : Create(t, w))
             /\ ~Bootstrap(t) /\ ~ReleaseAppend(t)
    BY <1>4, <2>5, StepQuiet, QuietKeeps DEF Owned
  <2> QED
    BY <2>1, <2>2, <2>3, <2>4, <2>5
<1>5. CASE Reap
  BY <1>5, ReapTakes, TakesKeeps DEF Threads
<1>6. ASSUME NEW w \in Workers, Age(w) \/ SandboxExpires(w) PROVE Owned'
  <2>1. UNCHANGED <<pc, call, idle, home, installed, alive>>
    BY <1>6 DEF Age, SandboxExpires, workerVars
  <2>2. Reaper \in Threads /\ Quiet(Reaper)
    <3>1. Reaper \in Threads
      BY DEF Threads
    <3>2. pc' = [pc EXCEPT ![Reaper] = pc[Reaper]] /\ pc[Reaper] \in Places
      BY <2>1, <3>1 DEF Typed, TypeOK
    <3>3. pc[Reaper] \in Deleting => Head(call[Reaper].stale) \notin alive'
      BY <2>1, <3>1 DEF Owned, Marked
    <3> QED
      BY <2>1, <3>1, <3>2, <3>3, QuietGoes DEF Typed
  <2> QED
    BY <2>2, QuietKeeps
<1>7. ASSUME NEW left \in SUBSET sandboxes, Restart(left) PROVE Owned'
  BY <1>7, ForgetOwned DEF Restart
<1> QED
  BY <1>1, <1>2, <1>3, <1>4, <1>5, <1>6, <1>7 DEF Next

\* Nothing about owners depends on what did not change.
LEMMA StutterOwned ==
    ASSUME Owned, UNCHANGED poolVars
    PROVE  Owned'
BY DEF poolVars, Owned, Exclusive, HeldHome, IdleHome, Fitting, Bounded, Fresh, Marked, Holders,
       IdleWorkers, RefersTo, Full

\* The inductive invariant of the pool so far.
LEMMA PoolOwned == Spec => [](Typed /\ Owned)
<1>1. Init => Owned
  BY NothingOwned DEF Init
<1>2. Typed /\ Owned /\ [Next]_poolVars => Owned'
  BY NextOwned, StutterOwned
<1> QED
  BY <1>1, <1>2, PoolTyped, PTL DEF Spec

\* Whatever fails and however acquire, release, invalidate, cancel and reap interleave, a worker
\* is in one bucket once or held by one thread, never both.
THEOREM ExclusiveAlways == Spec => []Exclusive
<1>1. Owned => Exclusive
  BY DEF Owned
<1> QED
  BY <1>1, PoolOwned, PTL

\* What a thread uses is its own.
LEMMA OwnedIsolation == Typed /\ Owned => Isolation
<1> SUFFICES ASSUME Typed, Owned PROVE Isolation
    OBVIOUS
<1>1. ASSUME NEW t \in Threads, pc[t] = "using"
      PROVE  /\ home[call[t].w] = <<call[t].tenant, FlavorOf[call[t].rel]>>
             /\ call[t].rel \in installed[call[t].w]
  <2>1. Fits("using", call[t])
    BY <1>1 DEF Typed, Locals
  <2>2. call[t].op = "use" /\ call[t].w \in Workers
    BY <2>1 DEF Fits, UseCall
  <2>3. t \in Holders(call[t].w)
    BY <2>2 DEF Holders
  <2> QED
    BY <2>2, <2>3 DEF Owned, HeldHome, Fitting, KeyFor
<1>2. \A w \in Workers : Cardinality(installed[w]) <= MaxInstalled
  BY DEF Owned, Bounded
<1> QED
  BY <1>1, <1>2 DEF Isolation

\* A caller is only ever given a worker of its own tenant and flavor, with its release installed,
\* and no worker exceeds max_installed_releases.
THEOREM IsolationAlways == Spec => []Isolation
BY OwnedIsolation, PoolOwned, PTL

-----------------------------------------------------------------------------
(* Quota: every token has an owner *)

TokenPlaces == Creating \cup Deleting

\* The threads that have a token, for whatever tenant.
Tokens == {t \in Threads : pc[t] \in TokenPlaces}

\* The tenant that a thread's token was reserved for.
Payer(t) ==
    IF pc[t] \in Creating THEN call[t].tenant ELSE home[Head(call[t].stale)][1]

\* QuotaExact, with the threads that have a token counted without going over the tenants.
Counted ==
    /\ \A n \in Tenants :
          /\ tenantLive[n] = Cardinality(TokenThreads(n)) + Cardinality(TokenWorkers(n))
          /\ tenantLive[n] <= MaxLivePerTenant
    /\ live = Cardinality(Tokens) + Cardinality(alive)
    /\ live <= MaxLive

\* A token of tenant n is a token whose payer is n.
LEMMA TokensOf == \A n : TokenThreads(n) = {t \in Tokens : Payer(t) = n}
BY DEF TokenThreads, Tokens, TokenPlaces, Creating, Deleting, Payer

\* The same after a step.
LEMMA TokensOfNext == (\A n : TokenThreads(n) = {t \in Tokens : Payer(t) = n})'
BY TokensOf, PTL

\* The sets that the quota counts are finite.
LEMMA TokensFinite ==
    ASSUME TypeOK
    PROVE  /\ IsFiniteSet(Tokens) /\ Cardinality(Tokens) \in Nat
           /\ IsFiniteSet(alive) /\ Cardinality(alive) \in Nat
           /\ \A n : /\ IsFiniteSet(TokenThreads(n)) /\ Cardinality(TokenThreads(n)) \in Nat
                     /\ IsFiniteSet(TokenWorkers(n)) /\ Cardinality(TokenWorkers(n)) \in Nat
<1>1. IsFiniteSet(Callers \cup {Reaper})
  BY PoolAssumption, FS_AddElement
<1>2. IsFiniteSet(Threads) /\ IsFiniteSet(Workers)
  BY <1>1, PoolAssumption DEF Threads
<1>3. /\ Tokens \subseteq Threads /\ alive \subseteq Workers
      /\ \A n : TokenThreads(n) \subseteq Threads /\ TokenWorkers(n) \subseteq Workers
  BY DEF Tokens, TokenThreads, TokenWorkers, TypeOK
<1> QED
  BY <1>2, <1>3, FS_Subset, FS_CardinalityType

\* Thread t moves; the tokens of the other threads stay what they are.
OthersPay(t) ==
    \A u \in Threads : u # t =>
        /\ u \in Tokens' <=> u \in Tokens
        /\ u \in Tokens => Payer(u)' = Payer(u)

\* A step of t that touches neither the locals nor the workers of other threads.
LEMMA OthersPayOf ==
    ASSUME NEW t \in Threads, home' = home,
           \A u \in Threads : u # t => pc'[u] = pc[u] /\ call'[u] = call[u]
    PROVE  OthersPay(t)
BY DEF OthersPay, Tokens, Payer

\* Nobody gains or loses a token.
LEMMA TokensKept ==
    ASSUME NEW t \in Threads, OthersPay(t), t \in Tokens' <=> t \in Tokens,
           t \in Tokens => Payer(t)' = Payer(t)
    PROVE  Tokens' = Tokens /\ \A n : TokenThreads(n)' = TokenThreads(n)
<1>1. Tokens' = Tokens
  BY DEF OthersPay, Tokens
<1>2. \A u \in Tokens : u \in Threads
  BY DEF Tokens
<1>3. \A u \in Tokens : Payer(u)' = Payer(u)
  BY <1>2 DEF OthersPay
<1>4. \A n : TokenThreads(n)' = {u \in Tokens' : Payer(u)' = n}
  BY TokensOfNext
<1> QED
  BY <1>1, <1>3, <1>4, TokensOf

\* t gets a token of tenant n.
LEMMA TokenGained ==
    ASSUME TypeOK, NEW t \in Threads, NEW n, OthersPay(t),
           t \notin Tokens, t \in Tokens', Payer(t)' = n
    PROVE  /\ Cardinality(Tokens') = Cardinality(Tokens) + 1
           /\ Cardinality(TokenThreads(n)') = Cardinality(TokenThreads(n)) + 1
           /\ \A m : m # n => TokenThreads(m)' = TokenThreads(m)
<1>1. Tokens' = Tokens \cup {t}
  BY DEF OthersPay, Tokens
<1>2. \A u \in Tokens : u \in Threads /\ u # t
  BY DEF Tokens
<1>3. \A u \in Tokens : Payer(u)' = Payer(u)
  BY <1>2 DEF OthersPay
<1>4. \A m : TokenThreads(m)' = {u \in Tokens' : Payer(u)' = m}
  BY TokensOfNext
<1>5. TokenThreads(n)' = TokenThreads(n) \cup {t} /\ t \notin TokenThreads(n)
  BY <1>1, <1>3, <1>4, TokensOf
<1>6. \A m : m # n => TokenThreads(m)' = TokenThreads(m)
  BY <1>1, <1>3, <1>4, TokensOf
<1>7. IsFiniteSet(Tokens) /\ IsFiniteSet(TokenThreads(n))
  BY TokensFinite
<1>8. Cardinality(Tokens') = Cardinality(Tokens) + 1
  BY <1>1, <1>7, FS_AddElement
<1>9. Cardinality(TokenThreads(n)') = Cardinality(TokenThreads(n)) + 1
  BY <1>5, <1>7, FS_AddElement
<1> QED
  BY <1>6, <1>8, <1>9

\* t gives up its token, of tenant n.
LEMMA TokenLost ==
    ASSUME TypeOK, NEW t \in Threads, NEW n, OthersPay(t),
           t \in Tokens, Payer(t) = n, t \notin Tokens'
    PROVE  /\ Cardinality(Tokens') = Cardinality(Tokens) - 1
           /\ Cardinality(TokenThreads(n)') = Cardinality(TokenThreads(n)) - 1
           /\ Cardinality(TokenThreads(n)) > 0
           /\ \A m : m # n => TokenThreads(m)' = TokenThreads(m)
<1>1. Tokens' = Tokens \ {t}
  BY DEF OthersPay, Tokens
<1>2. \A u \in Tokens' : u \in Tokens /\ u \in Threads /\ u # t
  BY <1>1 DEF Tokens
<1>3. \A u \in Tokens' : Payer(u)' = Payer(u)
  BY <1>2 DEF OthersPay
<1>4. \A m : TokenThreads(m)' = {u \in Tokens' : Payer(u)' = m}
  BY TokensOfNext
<1>5. TokenThreads(n)' = TokenThreads(n) \ {t} /\ t \in TokenThreads(n)
  BY <1>1, <1>3, <1>4, TokensOf
<1>6. \A m : m # n => TokenThreads(m)' = TokenThreads(m)
  BY <1>1, <1>3, <1>4, TokensOf
<1>7. /\ IsFiniteSet(Tokens) /\ IsFiniteSet(TokenThreads(n))
      /\ Cardinality(TokenThreads(n)) \in Nat
  BY TokensFinite
<1>8. Cardinality(Tokens') = Cardinality(Tokens) - 1
  BY <1>1, <1>7, FS_RemoveElement
<1>9. Cardinality(TokenThreads(n)') = Cardinality(TokenThreads(n)) - 1
  BY <1>5, <1>7, FS_RemoveElement
<1>10. Cardinality(TokenThreads(n)) # 0
  BY <1>5, <1>7, FS_EmptySet
<1> QED
  BY <1>6, <1>7, <1>8, <1>9, <1>10

\* No counted worker comes, goes or moves to another tenant.
LEMMA WorkersKept ==
    ASSUME alive' = alive, \A w \in alive : home'[w] = home[w]
    PROVE  \A n : TokenWorkers(n)' = TokenWorkers(n)
BY DEF TokenWorkers

\* Neither the counters nor what they count change.
LEMMA CountedSame ==
    ASSUME Counted, NEW t \in Threads, OthersPay(t), t \in Tokens' <=> t \in Tokens,
           t \in Tokens => Payer(t)' = Payer(t), alive' = alive,
           \A w \in alive : home'[w] = home[w], UNCHANGED <<live, tenantLive>>
    PROVE  Counted'
<1>1. Tokens' = Tokens /\ \A n : TokenThreads(n)' = TokenThreads(n)
  BY TokensKept
<1>2. \A n : TokenWorkers(n)' = TokenWorkers(n)
  BY WorkersKept
<1> QED
  BY <1>1, <1>2 DEF Counted

\* release_live gives back the token that t had.
LEMMA CountedRelease ==
    ASSUME TypeOK, Counted, NEW t \in Threads, NEW n \in Tenants, OthersPay(t),
           t \in Tokens, Payer(t) = n, t \notin Tokens', ReleaseLive(n),
           alive' = alive, home' = home
    PROVE  Counted'
<1>1. /\ Cardinality(Tokens') = Cardinality(Tokens) - 1
      /\ Cardinality(TokenThreads(n)') = Cardinality(TokenThreads(n)) - 1
      /\ Cardinality(TokenThreads(n)) > 0
      /\ \A m : m # n => TokenThreads(m)' = TokenThreads(m)
  BY TokenLost
<1>2. \A m : TokenWorkers(m)' = TokenWorkers(m)
  BY WorkersKept
<1>3. /\ Cardinality(Tokens) \in Nat /\ Cardinality(alive) \in Nat
      /\ Cardinality(TokenThreads(n)) \in Nat /\ Cardinality(TokenWorkers(n)) \in Nat
  BY TokensFinite
<1>4. tenantLive[n] > 0
  BY <1>1, <1>3 DEF Counted
<1>5. live' = live - 1 /\ tenantLive' = [tenantLive EXCEPT ![n] = tenantLive[n] - 1]
  BY <1>3, <1>4 DEF ReleaseLive, TypeOK
<1>6. live' = Cardinality(Tokens') + Cardinality(alive') /\ live' <= MaxLive
  BY <1>1, <1>3, <1>5, PoolAssumption DEF Counted, TypeOK
<1>7. ASSUME NEW m \in Tenants
      PROVE  /\ tenantLive'[m] = Cardinality(TokenThreads(m)') + Cardinality(TokenWorkers(m)')
             /\ tenantLive'[m] <= MaxLivePerTenant
  <2>1. CASE m = n
    <3>1. tenantLive'[n] = tenantLive[n] - 1
      BY <1>5 DEF TypeOK
    <3>2. TokenWorkers(n)' = TokenWorkers(n)
      BY <1>2
    <3>3. /\ tenantLive[n] = Cardinality(TokenThreads(n)) + Cardinality(TokenWorkers(n))
          /\ tenantLive[n] <= MaxLivePerTenant
      BY DEF Counted
    <3>4. tenantLive'[n] = Cardinality(TokenThreads(n)') + Cardinality(TokenWorkers(n)')
      BY <1>1, <1>3, <3>1, <3>2, <3>3
    <3>5. tenantLive'[n] <= MaxLivePerTenant
      BY <1>3, <3>1, <3>3, PoolAssumption
    <3> QED
      BY <2>1, <3>4, <3>5
  <2>2. CASE m # n
    BY <1>1, <1>2, <1>5, <2>2 DEF Counted, TypeOK
  <2> QED
    BY <2>1, <2>2
<1> QED
  BY <1>6, <1>7 DEF Counted

\* reserve_live, below both limits.
LEMMA CountedReserve ==
    ASSUME TypeOK, Counted, NEW t \in Threads, NEW n \in Tenants, OthersPay(t),
           t \notin Tokens, t \in Tokens', Payer(t)' = n, ~QuotaReached(n), ReserveLive(n),
           alive' = alive, home' = home
    PROVE  Counted'
<1>1. /\ Cardinality(Tokens') = Cardinality(Tokens) + 1
      /\ Cardinality(TokenThreads(n)') = Cardinality(TokenThreads(n)) + 1
      /\ \A m : m # n => TokenThreads(m)' = TokenThreads(m)
  BY TokenGained
<1>2. \A m : TokenWorkers(m)' = TokenWorkers(m)
  BY WorkersKept
<1>3. /\ Cardinality(Tokens) \in Nat /\ Cardinality(alive) \in Nat
      /\ Cardinality(TokenThreads(n)) \in Nat /\ Cardinality(TokenWorkers(n)) \in Nat
  BY TokensFinite
<1>4. ~(live >= MaxLive) /\ ~(tenantLive[n] >= MaxLivePerTenant)
  BY DEF QuotaReached
<1>5. live' = live + 1 /\ tenantLive' = [tenantLive EXCEPT ![n] = tenantLive[n] + 1]
  BY DEF ReserveLive, TypeOK
<1>6. live' = Cardinality(Tokens') + Cardinality(alive') /\ live' <= MaxLive
  BY <1>1, <1>3, <1>4, <1>5, PoolAssumption DEF Counted, TypeOK
<1>7. ASSUME NEW m \in Tenants
      PROVE  /\ tenantLive'[m] = Cardinality(TokenThreads(m)') + Cardinality(TokenWorkers(m)')
             /\ tenantLive'[m] <= MaxLivePerTenant
  <2>1. CASE m = n
    <3>1. tenantLive'[n] = tenantLive[n] + 1
      BY <1>5 DEF TypeOK
    <3>2. TokenWorkers(n)' = TokenWorkers(n)
      BY <1>2
    <3>3. tenantLive[n] = Cardinality(TokenThreads(n)) + Cardinality(TokenWorkers(n))
      BY DEF Counted
    <3>4. tenantLive'[n] = Cardinality(TokenThreads(n)') + Cardinality(TokenWorkers(n)')
      BY <1>1, <1>3, <3>1, <3>2, <3>3
    <3>5. tenantLive'[n] <= MaxLivePerTenant
      BY <1>3, <1>4, <3>1, <3>3, PoolAssumption
    <3> QED
      BY <2>1, <3>4, <3>5
  <2>2. CASE m # n
    BY <1>1, <1>2, <1>5, <2>2 DEF Counted, TypeOK
  <2> QED
    BY <2>1, <2>2
<1> QED
  BY <1>6, <1>7 DEF Counted

\* acquire returns a new worker: the token passes from the thread to the worker.
LEMMA CountedBirth ==
    ASSUME TypeOK, Counted, NEW t \in Threads, NEW n \in Tenants, NEW w \in Workers, OthersPay(t),
           t \in Tokens, Payer(t) = n, t \notin Tokens', UNCHANGED <<live, tenantLive>>,
           w \notin alive, alive' = alive \cup {w}, home[w][1] = n, home' = home
    PROVE  Counted'
<1>1. /\ Cardinality(Tokens') = Cardinality(Tokens) - 1
      /\ Cardinality(TokenThreads(n)') = Cardinality(TokenThreads(n)) - 1
      /\ \A m : m # n => TokenThreads(m)' = TokenThreads(m)
  BY TokenLost
<1>2. /\ TokenWorkers(n)' = TokenWorkers(n) \cup {w} /\ w \notin TokenWorkers(n)
      /\ \A m : m # n => TokenWorkers(m)' = TokenWorkers(m)
  BY DEF TokenWorkers
<1>3. /\ IsFiniteSet(alive) /\ IsFiniteSet(TokenWorkers(n))
      /\ Cardinality(Tokens) \in Nat /\ Cardinality(alive) \in Nat
      /\ Cardinality(TokenThreads(n)) \in Nat /\ Cardinality(TokenWorkers(n)) \in Nat
  BY TokensFinite
<1>4. Cardinality(alive') = Cardinality(alive) + 1
  BY <1>3, FS_AddElement
<1>5. Cardinality(TokenWorkers(n)') = Cardinality(TokenWorkers(n)) + 1
  BY <1>2, <1>3, FS_AddElement
<1>6. live' = Cardinality(Tokens') + Cardinality(alive') /\ live' <= MaxLive
  BY <1>1, <1>3, <1>4 DEF Counted
<1>7. ASSUME NEW m \in Tenants
      PROVE  /\ tenantLive'[m] = Cardinality(TokenThreads(m)') + Cardinality(TokenWorkers(m)')
             /\ tenantLive'[m] <= MaxLivePerTenant
  <2>1. CASE m = n
    BY <1>1, <1>3, <1>5, <2>1 DEF Counted
  <2>2. CASE m # n
    BY <1>1, <1>2, <2>2 DEF Counted
  <2> QED
    BY <2>1, <2>2
<1> QED
  BY <1>6, <1>7 DEF Counted

\* A worker is marked as destroyed: its token passes to the thread that will release it.
LEMMA CountedMark ==
    ASSUME TypeOK, Counted, NEW t \in Threads, NEW n \in Tenants, NEW w \in alive, OthersPay(t),
           t \notin Tokens, t \in Tokens', Payer(t)' = n, UNCHANGED <<live, tenantLive>>,
           alive' = alive \ {w}, home[w][1] = n, home' = home
    PROVE  Counted'
<1>1. /\ Cardinality(Tokens') = Cardinality(Tokens) + 1
      /\ Cardinality(TokenThreads(n)') = Cardinality(TokenThreads(n)) + 1
      /\ \A m : m # n => TokenThreads(m)' = TokenThreads(m)
  BY TokenGained
<1>2. /\ TokenWorkers(n)' = TokenWorkers(n) \ {w} /\ w \in TokenWorkers(n)
      /\ \A m : m # n => TokenWorkers(m)' = TokenWorkers(m)
  BY DEF TokenWorkers
<1>3. /\ IsFiniteSet(alive) /\ IsFiniteSet(TokenWorkers(n))
      /\ Cardinality(Tokens) \in Nat /\ Cardinality(alive) \in Nat
      /\ Cardinality(TokenThreads(n)) \in Nat /\ Cardinality(TokenWorkers(n)) \in Nat
  BY TokensFinite
<1>4. Cardinality(alive') = Cardinality(alive) - 1
  BY <1>3, FS_RemoveElement
<1>5. Cardinality(TokenWorkers(n)') = Cardinality(TokenWorkers(n)) - 1
  BY <1>2, <1>3, FS_RemoveElement
<1>6. live' = Cardinality(Tokens') + Cardinality(alive') /\ live' <= MaxLive
  BY <1>1, <1>3, <1>4 DEF Counted
<1>7. ASSUME NEW m \in Tenants
      PROVE  /\ tenantLive'[m] = Cardinality(TokenThreads(m)') + Cardinality(TokenWorkers(m)')
             /\ tenantLive'[m] <= MaxLivePerTenant
  <2>1. CASE m = n
    BY <1>1, <1>3, <1>5, <2>1 DEF Counted
  <2>2. CASE m # n
    BY <1>1, <1>2, <2>2 DEF Counted
  <2> QED
    BY <2>1, <2>2
<1> QED
  BY <1>6, <1>7 DEF Counted

\* A step of t that neither takes nor gives back a token.
LEMMA CountedIdle ==
    ASSUME Typed, Counted, NEW t \in Threads, UNCHANGED <<home, alive, live, tenantLive>>,
           \A u \in Threads : u # t => pc'[u] = pc[u] /\ call'[u] = call[u],
           pc[t] \notin TokenPlaces, pc'[t] \notin TokenPlaces
    PROVE  Counted'
<1>1. OthersPay(t)
  BY OthersPayOf
<1>2. t \notin Tokens /\ t \notin Tokens'
  BY DEF Tokens
<1> QED
  BY <1>1, <1>2, CountedSame

\* Every step of a call keeps the quota exact.
LEMMA StepCounted ==
    ASSUME Typed, Owned, Counted, NEW t \in Threads, Step(t)
    PROVE  Counted'
<1> USE DEF workerVars, quotaVars
<1>0. /\ TypeOK /\ Locals /\ Fits(pc[t], call[t])
      /\ (\A p \in {"stale", "install", "using", "append", "ref", "ready", "raised"} :
              p \notin TokenPlaces)
      /\ (\A p \in Creating \cup Deleting : p \in TokenPlaces)
  BY DEF Typed, Locals, TokenPlaces, Creating, Deleting
<1>2. CASE EnsureSandboxTTL(t) \/ RenewFails(t) \/ EnsureRelease(t) \/ InstallFails(t)
           \/ ReserveFails(t) \/ ReleaseAppend(t)
  <2>1. /\ UNCHANGED <<home, alive, live, tenantLive>>
        /\ pc[t] \in {"stale", "install", "append"}
        /\ pc'[t] \in {"install", "stale", "using", "raised", "ready"}
        /\ \A u \in Threads : u # t => pc'[u] = pc[u] /\ call'[u] = call[u]
    BY <1>0, <1>2 DEF EnsureSandboxTTL, RenewFails, EnsureRelease, InstallFails, ReserveFails,
        ReleaseAppend, AcquireFails, PastStale, Goto, Return, TypeOK
  <2> QED
    BY <1>0, <2>1, CountedIdle
<1>3. CASE DestroySkip(t) \/ RetireDone(t) \/ Handled(t)
  <2>1. /\ UNCHANGED <<home, alive, live, tenantLive>>
        /\ pc[t] \in {"stale", "raised"}
        /\ pc'[t] \in {"stale", "raised", "ready"}
        /\ \A u \in Threads : u # t => pc'[u] = pc[u] /\ call'[u] = call[u]
    BY <1>0, <1>3 DEF DestroySkip, NextStale, Busy, RetireDone, Handled, Goto, Return, TypeOK
  <2> QED
    BY <1>0, <2>1, CountedIdle
<1>4. CASE CreationSlot(t) \/ CreateFails(t) \/ BootstrapFails(t) \/ UndoCreate(t)
  <2>1. /\ UNCHANGED <<home, alive, live, tenantLive, call>>
        /\ pc[t] \in Creating /\ pc'[t] \in Creating
        /\ \A u \in Threads : u # t => pc'[u] = pc[u]
    BY <1>0, <1>4 DEF CreationSlot, CreateFails, BootstrapFails, UndoCreate, Goto, Creating, TypeOK
  <2>2. t \in Tokens /\ t \in Tokens' /\ Payer(t)' = Payer(t)
    BY <1>0, <2>1 DEF Tokens, Payer
  <2> QED
    BY <2>1, <2>2, OthersPayOf, CountedSame
<1>5. CASE DestroyBackend(t) \/ DestroyBackendFails(t)
  <2>1. /\ UNCHANGED <<home, alive, live, tenantLive, call>>
        /\ pc[t] \in Deleting /\ pc'[t] \in Deleting
        /\ \A u \in Threads : u # t => pc'[u] = pc[u]
    BY <1>0, <1>5 DEF DestroyBackend, DestroyBackendFails, Goto, Deleting, TypeOK
  <2>2. pc[t] \notin Creating /\ pc'[t] \notin Creating
    BY <2>1 DEF Deleting, Creating
  <2>3. t \in Tokens /\ t \in Tokens' /\ Payer(t)' = Payer(t)
    BY <1>0, <2>1, <2>2 DEF Tokens, Payer
  <2> QED
    BY <2>1, <2>3, OthersPayOf, CountedSame
<1>6. CASE Reserve(t)
  <2>1. call[t].tenant \in Tenants
    BY <1>0, <1>6 DEF Reserve, PastStale, Fits, Stales, AcquireCall, RetireCall
  <2>2. /\ pc[t] = "stale" /\ pc'[t] = "slot" /\ call' = call /\ home' = home /\ alive' = alive
        /\ \A u \in Threads : u # t => pc'[u] = pc[u]
    BY <1>0, <1>6 DEF Reserve, PastStale, Goto, TypeOK
  <2>3. t \notin Tokens /\ t \in Tokens' /\ Payer(t)' = call[t].tenant
    BY <1>0, <2>2 DEF Tokens, Payer, Creating
  <2>4. OthersPay(t)
    BY <2>2, OthersPayOf
  <2>5. ~QuotaReached(call[t].tenant) /\ ReserveLive(call[t].tenant)
    BY <1>6 DEF Reserve
  <2> QED
    BY <1>0, <2>1, <2>2, <2>3, <2>4, <2>5, CountedReserve
<1>7. ASSUME NEW w \in Workers, Create(t, w) PROVE Counted'
  <2>1. /\ pc[t] = "create" /\ pc'[t] = "bootstrap" /\ call[t] \in AcquireCall
        /\ call'[t] = [call[t] EXCEPT !.w = w]
        /\ \A u \in Threads : u # t => pc'[u] = pc[u] /\ call'[u] = call[u]
    BY <1>0, <1>7 DEF Create, Goto, Fits, Creating, TypeOK
  <2>2. call'[t].tenant = call[t].tenant
    BY <2>1 DEF AcquireCall
  <2>3. t \in Tokens /\ t \in Tokens' /\ Payer(t)' = Payer(t)
    BY <2>1, <2>2 DEF Tokens, TokenPlaces, Payer, Creating
  <2>4. \A x \in Workers : x # w => home'[x] = home[x]
    BY <1>0, <1>7 DEF Create, TypeOK
  <2>5. w \notin alive /\ \A u \in Threads : w \notin RefersTo(u)
    BY <1>7 DEF Create, Referenced
  <2>6. OthersPay(t)
    <3> SUFFICES ASSUME NEW u \in Threads, u # t
                 PROVE  /\ u \in Tokens' <=> u \in Tokens
                        /\ u \in Tokens => Payer(u)' = Payer(u)
        BY DEF OthersPay
    <3>1. pc'[u] = pc[u] /\ call'[u] = call[u]
      BY <2>1
    <3>2. ASSUME u \in Tokens PROVE Payer(u)' = Payer(u)
      <4>1. CASE pc[u] \in Creating
        BY <3>1, <4>1 DEF Payer
      <4>2. CASE pc[u] \notin Creating
        <5>1. pc[u] \in Deleting
          BY <3>2, <4>2 DEF Tokens, TokenPlaces
        <5>2. Head(call[u].stale) \in Workers /\ Head(call[u].stale) # w
          BY <1>0, <2>5, <5>1, DeletingHead, HeldReferred
        <5> QED
          BY <2>4, <3>1, <4>2, <5>2 DEF Payer
      <4> QED
        BY <4>1, <4>2
    <3> QED
      BY <3>1, <3>2 DEF Tokens
  <2>7. alive' = alive /\ UNCHANGED <<live, tenantLive>> /\ \A x \in alive : home'[x] = home[x]
    BY <1>0, <1>7, <2>4, <2>5 DEF Create, TypeOK
  <2> QED
    BY <2>3, <2>6, <2>7, CountedSame
<1>8. CASE Bootstrap(t)
  <2>1. PICK w \in Workers : w = call[t].w
    BY <1>0, <1>8 DEF Bootstrap, Fits
  <2>2. call[t] \in AcquireCall /\ call[t].tenant \in Tenants
    BY <1>0, <1>8 DEF Bootstrap, Fits, Creating, AcquireCall
  <2>3. /\ pc[t] = "bootstrap" /\ pc'[t] = "using" /\ home' = home /\ alive' = alive \cup {w}
        /\ UNCHANGED <<live, tenantLive>>
        /\ \A u \in Threads : u # t => pc'[u] = pc[u] /\ call'[u] = call[u]
    BY <1>0, <1>8, <2>1 DEF Bootstrap, Goto, TypeOK
  <2>4. t \in Tokens /\ t \notin Tokens' /\ Payer(t) = call[t].tenant
    BY <2>3 DEF Tokens, TokenPlaces, Payer, Creating, Deleting
  <2>5. w \notin alive /\ t \in Holders(w)
    BY <1>0, <2>1, <2>3, HeldReferred DEF Owned, Fresh, Unborn
  <2>6. home[w][1] = call[t].tenant
    BY <2>5 DEF Owned, HeldHome, KeyFor
  <2>7. OthersPay(t)
    BY <2>3, OthersPayOf
  <2> QED
    BY <1>0, <2>2, <2>3, <2>4, <2>5, <2>6, <2>7, CountedBirth
<1>9. CASE DestroyMark(t)
  <2>1. PICK w \in alive : w = Head(call[t].stale)
    BY <1>9 DEF DestroyMark
  <2>2. home[w][1] \in Tenants
    BY <1>0, <1>9, <2>1, DeletingHead DEF DestroyMark, Busy
  <2>3. /\ pc[t] = "stale" /\ pc'[t] = "backend" /\ home' = home /\ alive' = alive \ {w}
        /\ UNCHANGED <<live, tenantLive>> /\ call' = call
        /\ \A u \in Threads : u # t => pc'[u] = pc[u]
    BY <1>0, <1>9, <2>1 DEF DestroyMark, Busy, Goto, TypeOK
  <2>4. t \notin Tokens /\ t \in Tokens' /\ Payer(t)' = home[w][1]
    BY <2>1, <2>3 DEF Tokens, TokenPlaces, Payer, Creating, Deleting
  <2>5. OthersPay(t)
    BY <2>3, OthersPayOf
  <2> QED
    BY <1>0, <2>2, <2>3, <2>4, <2>5, CountedMark
<1>10. CASE Unreserve(t)
  <2>1. call[t].tenant \in Tenants
    BY <1>0, <1>10 DEF Unreserve, Fits, Creating, AcquireCall
  <2>2. /\ pc[t] = "unreserve" /\ pc'[t] = "raised" /\ home' = home /\ alive' = alive
        /\ \A u \in Threads : u # t => pc'[u] = pc[u] /\ call'[u] = call[u]
    BY <1>0, <1>10 DEF Unreserve, Return, TypeOK
  <2>3. t \in Tokens /\ t \notin Tokens' /\ Payer(t) = call[t].tenant
    BY <2>2 DEF Tokens, TokenPlaces, Payer, Creating, Deleting
  <2>4. OthersPay(t) /\ ReleaseLive(call[t].tenant)
    BY <1>10, <2>2, OthersPayOf DEF Unreserve
  <2> QED
    BY <1>0, <2>1, <2>2, <2>3, <2>4, CountedRelease
<1>11. CASE DestroyReleaseLive(t) \/ DestroyReleaseLiveRaise(t)
  <2>1. pc[t] \in {"release_live", "release_live_raise"} /\ pc'[t] \in {"stale", "raised"}
        /\ home' = home /\ alive' = alive
        /\ \A u \in Threads : u # t => pc'[u] = pc[u] /\ call'[u] = call[u]
    BY <1>0, <1>11
      DEF DestroyReleaseLive, DestroyReleaseLiveRaise, NextStale, Goto, Return, TypeOK
  <2>2. PICK n \in Tenants : n = home[Head(call[t].stale)][1]
    BY <1>0, <2>1, DeletingHead DEF Deleting
  <2>3. t \in Tokens /\ t \notin Tokens' /\ Payer(t) = n
    BY <2>1, <2>2 DEF Tokens, TokenPlaces, Payer, Creating, Deleting
  <2>4. OthersPay(t) /\ ReleaseLive(n)
    BY <1>11, <2>1, <2>2, OthersPayOf DEF DestroyReleaseLive, DestroyReleaseLiveRaise
  <2> QED
    BY <1>0, <2>1, <2>3, <2>4, CountedRelease
<1> QED
  BY <1>2, <1>3, <1>4, <1>5, <1>6, <1>7, <1>8, <1>9, <1>10, <1>11 DEF Step

\* Every step of the pool keeps the quota exact.
LEMMA NextCounted ==
    ASSUME Typed, Owned, Counted, Next
    PROVE  Counted'
<1> USE DEF workerVars, quotaVars
<1>0. /\ TypeOK /\ Locals /\ Callers \subseteq Threads /\ Reaper \in Threads
      /\ (\A p \in {"stale", "install", "using", "append", "ref", "ready", "raised"} :
              p \notin TokenPlaces)
  BY DEF Typed, Threads, TokenPlaces, Creating, Deleting
<1>1. ASSUME NEW t \in Callers, NEW n \in Tenants, NEW rel \in Releases, AcquirePop(t, n, rel)
      PROVE  Counted'
  <2>1. /\ UNCHANGED <<home, alive, live, tenantLive>> /\ pc[t] = "ready" /\ pc'[t] = "stale"
        /\ \A u \in Threads : u # t => pc'[u] = pc[u] /\ call'[u] = call[u]
    BY <1>0, <1>1 DEF AcquirePop, AcquireWith, Goto, TypeOK
  <2> QED
    BY <1>0, <2>1, CountedIdle
<1>2. ASSUME NEW t \in Callers, Release(t) \/ Invalidate(t) PROVE Counted'
  <2>1. /\ UNCHANGED <<home, alive, live, tenantLive>>
        /\ pc[t] \in {"using", "ref"} /\ pc'[t] \in {"stale", "append"}
    BY <1>0, <1>2 DEF Release, Invalidate, Goto, TypeOK
  <2>2. \A u \in Threads : u # t => pc'[u] = pc[u] /\ call'[u] = call[u]
    BY <1>2, RetireQuiet DEF Quiet
  <2> QED
    BY <1>0, <2>1, <2>2, CountedIdle
<1>3. ASSUME NEW t \in Callers, NEW w \in Workers \ Unreturned, CancelRef(t, w) PROVE Counted'
  <2>1. /\ UNCHANGED <<home, alive, live, tenantLive>> /\ pc[t] = "ready" /\ pc'[t] = "ref"
        /\ \A u \in Threads : u # t => pc'[u] = pc[u] /\ call'[u] = call[u]
    BY <1>0, <1>3 DEF CancelRef, Goto, TypeOK
  <2> QED
    BY <1>0, <2>1, CountedIdle
<1>4. ASSUME NEW t \in Threads, Step(t) PROVE Counted'
  BY <1>4, StepCounted
<1>5. CASE Reap
  <2>1. /\ UNCHANGED <<home, alive, live, tenantLive>>
        /\ pc[Reaper] = "ready" /\ pc'[Reaper] = "stale"
        /\ \A u \in Threads : u # Reaper => pc'[u] = pc[u] /\ call'[u] = call[u]
    BY <1>0, <1>5 DEF Reap, Goto, TypeOK
  <2> QED
    BY <1>0, <2>1, CountedIdle
<1>6. ASSUME NEW w \in Workers, Age(w) \/ SandboxExpires(w) PROVE Counted'
  <2>1. UNCHANGED <<pc, call, home, alive, live, tenantLive>>
    BY <1>6 DEF Age, SandboxExpires
  <2>2. Payer(Reaper)' = Payer(Reaper) /\ Tokens' = Tokens
    BY <2>1 DEF Payer, Tokens
  <2> QED
    BY <1>0, <2>1, <2>2, OthersPayOf, CountedSame
<1>7. ASSUME NEW left \in SUBSET sandboxes, Restart(left) PROVE Counted'
  <2>1. /\ pc' = [t \in Threads |-> "ready"] /\ alive' = {}
        /\ live' = 0 /\ tenantLive' = [n \in Tenants |-> 0]
    BY <1>7 DEF Restart, Forget
  <2>2. Tokens' = {} /\ \A n : TokenThreads(n)' = {} /\ TokenWorkers(n)' = {}
    BY <2>1 DEF Tokens, TokenPlaces, Creating, Deleting, TokenThreads, TokenWorkers
  <2>3. Cardinality({}) = 0 /\ 0 <= MaxLive /\ 0 <= MaxLivePerTenant
    BY FS_EmptySet, PoolAssumption
  <2> QED
    BY <2>1, <2>2, <2>3 DEF Counted
<1> QED
  BY <1>1, <1>2, <1>3, <1>4, <1>5, <1>6, <1>7 DEF Next

\* The inductive invariant of the pool.
LEMMA PoolCounted == Spec => [](Typed /\ Owned /\ Counted)
<1>1. Init => Counted
  <2> SUFFICES ASSUME Init PROVE Counted
      OBVIOUS
  <2>1. Tokens = {} /\ \A n : TokenThreads(n) = {} /\ TokenWorkers(n) = {}
    BY DEF Init, Tokens, TokenPlaces, Creating, Deleting, TokenThreads, TokenWorkers
  <2>2. Cardinality({}) = 0 /\ alive = {} /\ live = 0 /\ tenantLive = [n \in Tenants |-> 0]
    BY FS_EmptySet DEF Init
  <2>3. 0 <= MaxLive /\ 0 <= MaxLivePerTenant
    BY PoolAssumption
  <2> QED
    BY <2>1, <2>2, <2>3 DEF Counted
<1>2. Typed /\ Owned /\ Counted /\ [Next]_poolVars => Counted'
  <2> SUFFICES ASSUME Typed, Owned, Counted, [Next]_poolVars PROVE Counted'
      OBVIOUS
  <2>1. CASE Next
    BY <2>1, NextCounted
  <2>2. CASE UNCHANGED poolVars
    <3>1. Tokens' = Tokens /\ alive' = alive /\ live' = live /\ tenantLive' = tenantLive
      BY <2>2 DEF poolVars, Tokens
    <3>2. \A n : TokenThreads(n)' = TokenThreads(n) /\ TokenWorkers(n)' = TokenWorkers(n)
      BY <2>2 DEF poolVars, TokenThreads, TokenWorkers
    <3> QED
      BY <3>1, <3>2 DEF Counted
  <2> QED
    BY <2>1, <2>2
<1> QED
  BY <1>1, <1>2, PoolOwned, PTL DEF Spec

\* Whatever fails, whoever races to destroy a worker and whenever the Runner restarts, the
\* counters of Quota are exactly the tokens that are out, per tenant and in total, and within
\* max_live_per_tenant and max_live.
THEOREM QuotaAlwaysExact == Spec => []QuotaExact
<1>1. Typed /\ Counted => QuotaExact
  <2> SUFFICES ASSUME Typed, Counted PROVE QuotaExact
      OBVIOUS
  <2>0. TypeOK /\ Locals
    BY DEF Typed
  <2>1. \A t \in Tokens : Payer(t) \in Tenants
    <3> SUFFICES ASSUME NEW t \in Tokens PROVE Payer(t) \in Tenants
        OBVIOUS
    <3>1. t \in Threads /\ (pc[t] \in Creating \/ pc[t] \in Deleting)
      BY DEF Tokens, TokenPlaces
    <3>2. CASE pc[t] \in Creating
      <4>1. call[t] \in AcquireCall
        BY <2>0, <3>1, <3>2 DEF Locals, Fits
      <4> QED
        BY <3>2, <4>1 DEF Payer, AcquireCall
    <3>3. CASE pc[t] \notin Creating
      BY <2>0, <3>1, <3>3, DeletingHead DEF Payer
    <3> QED
      BY <3>2, <3>3
  <2>2. UNION {TokenThreads(n) : n \in Tenants} = Tokens
    BY <2>1, TokensOf
  <2> QED
    BY <2>2 DEF Counted, QuotaExact
<1> QED
  BY <1>1, PoolCounted, PTL

-----------------------------------------------------------------------------
(* What the pool loses *)

\* The step loses no worker that is not destroyed.
NoneLost == Lost' \subseteq Lost

\* What the pool loses of a worker that is not destroyed, thread t has, and the other way round.
LEMMA LeakKept ==
    ASSUME NEW t \in Threads, \A u \in Threads : u # t => call'[u] = call[u],
           alive' \subseteq alive \cup RefersTo(t)',
           \A w \in alive' : w \in IdleWorkers \cup RefersTo(t) =>
                                w \in IdleWorkers' \cup RefersTo(t)'
    PROVE  NoneLost
<1>1. \A u \in Threads : u # t => RefersTo(u)' = RefersTo(u)
  BY OthersHold
<1> SUFFICES ASSUME NEW w \in alive', w \notin IdleWorkers',
                    \A u \in Threads : w \notin RefersTo(u)'
             PROVE  w \in alive /\ w \notin IdleWorkers /\ \A u \in Threads : w \notin RefersTo(u)
    BY DEF NoneLost, Lost, Referenced
<1>2. w \notin IdleWorkers /\ w \notin RefersTo(t) /\ w \in alive
  OBVIOUS
<1> QED
  BY <1>1, <1>2

\* A thread between two calls refers to nothing.
LEMMA ReadyRefers ==
    ASSUME TypeOK, Locals, NEW t \in Threads, pc[t] \in {"ready", "raised"}
    PROVE  RefersTo(t) = {}
<1>1. call[t] = NoCall
  BY DEF Locals, Fits
<1> QED
  BY <1>1 DEF RefersTo, NoCall

\* Every step of a call keeps hold of the workers that are not destroyed.
LEMMA StepLeak ==
    ASSUME Typed, Owned, NEW t \in Threads, Step(t), pc[t] # "release_live_raise"
    PROVE  NoneLost
<1> USE DEF workerVars, quotaVars
<1>0. TypeOK /\ Locals /\ Fits(pc[t], call[t]) /\ Fresh /\ Marked
  BY DEF Typed, Locals, Owned
\* A step that keeps the locals and the buckets.
<1>g. ASSUME call' = call, idle' = idle, alive' \subseteq alive PROVE NoneLost
  BY <1>g DEF NoneLost, Lost, Referenced, RefersTo, IdleWorkers
\* A call that ends with nothing left to destroy.
<1>r. ASSUME Return(t, "raised") \/ Return(t, "ready"), idle' = idle, alive' = alive,
             RefersTo(t) \cap alive = {}
      PROVE  NoneLost
  <2>1. \A u \in Threads : u # t => call'[u] = call[u]
    BY <1>r, <1>0 DEF Return, TypeOK
  <2>2. IdleWorkers' = IdleWorkers
    BY <1>r DEF IdleWorkers
  <2> QED
    BY <1>r, <2>1, <2>2, LeakKept
\* acquire has one worker and no list.
<1>a. ASSUME call[t].op = "acquire", call[t].stale = <<>>
      PROVE  RefersTo(t) = {call[t].w} \cap Workers
  BY <1>a, StaleNone DEF RefersTo
<1>1. CASE EnsureSandboxTTL(t) \/ Reserve(t) \/ CreationSlot(t) \/ CreateFails(t)
           \/ BootstrapFails(t) \/ UndoCreate(t)
  BY <1>g, <1>1
    DEF EnsureSandboxTTL, Reserve, CreationSlot, CreateFails, BootstrapFails, UndoCreate
<1>2. CASE DestroyMark(t) \/ DestroyBackend(t) \/ DestroyBackendFails(t) \/ Handled(t)
  BY <1>g, <1>2 DEF DestroyMark, DestroyBackend, DestroyBackendFails, Handled
<1>3. CASE RenewFails(t) \/ InstallFails(t)
  <2>1. call[t].w \in Workers /\ call[t].op = "acquire" /\ call[t].stale = <<>>
    BY <1>0, <1>3 DEF RenewFails, InstallFails, PastStale, Fits, Stales, AcquireCall, RetireCall
  <2>2. AcquireFails(t)
    BY <1>3 DEF RenewFails, InstallFails
  <2>3. /\ call'[t] = [op |-> "fail", stale |-> <<call[t].w>>]
        /\ \A u \in Threads : u # t => call'[u] = call[u]
    BY <1>0, <2>2 DEF AcquireFails, TypeOK
  <2>4. RefersTo(t)' = RefersTo(t)
    BY <1>a, <2>1, <2>3, StaleOne DEF RefersTo
  <2>5. alive' = alive /\ IdleWorkers' = IdleWorkers
    BY <2>2 DEF AcquireFails, IdleWorkers
  <2> QED
    BY <2>3, <2>4, <2>5, LeakKept
<1>4. CASE EnsureRelease(t) \/ Bootstrap(t)
  <2>1. call[t] \in AcquireCall /\ call[t].w \in Workers /\ call[t].stale = <<>>
    BY <1>0, <1>4 DEF EnsureRelease, Bootstrap, Fits, Creating
  <2>2. /\ call'[t] = [op |-> "use", tenant |-> call[t].tenant, rel |-> call[t].rel, w |-> call[t].w]
        /\ \A u \in Threads : u # t => call'[u] = call[u]
        /\ alive' \subseteq alive \cup {call[t].w} /\ idle' = idle
    BY <1>0, <1>4 DEF EnsureRelease, Bootstrap, TypeOK
  <2>3. RefersTo(t) = {call[t].w} /\ RefersTo(t)' = {call[t].w}
    BY <1>a, <2>1, <2>2 DEF RefersTo, AcquireCall
  <2>4. IdleWorkers' = IdleWorkers
    BY <2>2 DEF IdleWorkers
  <2> QED
    BY <2>2, <2>3, <2>4, LeakKept
<1>5. CASE ReserveFails(t)
  <2>1. RefersTo(t) = {}
    BY <1>a, <1>5, PoolAssumption DEF ReserveFails, PastStale
  <2> QED
    BY <1>5, <1>r, <2>1 DEF ReserveFails
<1>6. ASSUME NEW w \in Workers, Create(t, w) PROVE NoneLost
  <2>1. call[t] \in AcquireCall /\ call[t].w = NoWorker /\ call[t].stale = <<>>
    BY <1>0, <1>6 DEF Create, Fits, Creating
  <2>2. RefersTo(t) = {}
    BY <1>a, <2>1, PoolAssumption DEF AcquireCall
  <2>3. (\A u \in Threads : u # t => call'[u] = call[u]) /\ idle' = idle /\ alive' = alive
    BY <1>0, <1>6 DEF Create, TypeOK
  <2>4. IdleWorkers' = IdleWorkers
    BY <2>3 DEF IdleWorkers
  <2> QED
    BY <2>2, <2>3, <2>4, LeakKept
<1>7. CASE Unreserve(t)
  <2>1. call[t] \in AcquireCall /\ call[t].stale = <<>> /\ pc[t] \in Unborn
    BY <1>0, <1>7 DEF Unreserve, Fits, Creating, Unborn
  <2>2. RefersTo(t) = {call[t].w} \cap Workers
    BY <1>a, <2>1 DEF AcquireCall
  <2>3. RefersTo(t) \cap alive = {}
    BY <1>0, <2>1, <2>2 DEF Fresh
  <2> QED
    BY <1>7, <1>r, <2>3 DEF Unreserve
<1>8. CASE ReleaseAppend(t)
  <2>1. PICK w \in Workers, key \in PoolKey : w = call[t].w /\ key = home[w]
    BY <1>0, <1>8 DEF ReleaseAppend, Fits, UseCall, TypeOK
  <2>2. RefersTo(t) = {w}
    BY <1>0, <1>8, <2>1 DEF ReleaseAppend, Fits, UseCall, RefersTo
  <2>3. /\ idle'[key] = Append(idle[key], w) /\ idle[key] \in Seq(Workers)
        /\ \A k \in PoolKey : k # key => idle'[k] = idle[k]
        /\ \A u \in Threads : u # t => call'[u] = call[u]
        /\ alive' = alive
    BY <1>0, <1>8, <2>1 DEF ReleaseAppend, Return, TypeOK
  <2>4. /\ \A i \in DOMAIN idle[key] : i \in DOMAIN idle'[key] /\ idle'[key][i] = idle[key][i]
        /\ \E i \in DOMAIN idle'[key] : idle'[key][i] = w
    <3>1. PICK b \in Seq(Workers) : b = idle[key]
      BY <2>3
    <3>2. Len(b) \in Nat /\ DOMAIN b = 1..Len(b) /\ DOMAIN Append(b, w) = 1..(Len(b) + 1)
      OBVIOUS
    <3>3. Append(b, w)[Len(b) + 1] = w /\ \A i \in DOMAIN b : Append(b, w)[i] = b[i]
      BY <3>2
    <3>4. Len(b) + 1 \in 1..(Len(b) + 1) /\ \A i \in 1..Len(b) : i \in 1..(Len(b) + 1)
      BY <3>2
    <3> QED
      BY <2>3, <3>1, <3>2, <3>3, <3>4
  <2>5. IdleWorkers \cup {w} \subseteq IdleWorkers'
    <3>1. \A k \in PoolKey : \A i \in DOMAIN idle[k] :
              i \in DOMAIN idle'[k] /\ idle'[k][i] = idle[k][i]
      BY <2>3, <2>4
    <3>2. IdleWorkers \subseteq IdleWorkers'
      BY <3>1 DEF IdleWorkers, ToSet
    <3>3. w \in IdleWorkers'
      BY <2>4 DEF IdleWorkers, ToSet
    <3> QED
      BY <3>2, <3>3
  <2> QED
    BY <2>2, <2>3, <2>5, LeakKept
<1>9. CASE DestroySkip(t) \/ DestroyReleaseLive(t)
  <2>1. pc[t] \in Deleting \/ (pc[t] = "stale" /\ call[t].stale # <<>>)
    BY <1>9 DEF DestroySkip, DestroyReleaseLive, Busy, Deleting
  <2>2. /\ call[t] \in Stales /\ call[t].stale \in Seq(Workers) /\ call[t].stale # <<>>
    BY <1>0, <2>1, DeletingHead
  <2>3. Head(call[t].stale) \notin alive
    BY <1>0, <1>9 DEF DestroySkip, DestroyReleaseLive, Marked, Deleting
  <2>4. /\ call'[t] = [call[t] EXCEPT !.stale = Tail(call[t].stale)]
        /\ \A u \in Threads : u # t => call'[u] = call[u]
        /\ alive' = alive /\ idle' = idle
    BY <1>0, <1>9 DEF DestroySkip, DestroyReleaseLive, NextStale, TypeOK
  <2>5. ToSet(call[t].stale) = {Head(call[t].stale)} \cup ToSet(Tail(call[t].stale))
    BY <2>2, StaleParts
  <2>6. /\ call'[t].op = call[t].op /\ call'[t].stale = Tail(call[t].stale)
        /\ call[t].op = "acquire" => call'[t].w = call[t].w
        /\ call[t].op \in {"acquire", "reap", "retire", "fail"}
    BY <2>2, <2>4 DEF Stales, AcquireCall, RetireCall
  <2>7. RefersTo(t) \subseteq RefersTo(t)' \cup {Head(call[t].stale)}
    BY <2>5, <2>6 DEF RefersTo
  <2>8. IdleWorkers' = IdleWorkers
    BY <2>4 DEF IdleWorkers
  <2> QED
    BY <2>3, <2>4, <2>7, <2>8, LeakKept
<1>10. CASE DestroyReleaseLiveRaise(t)
  BY <1>10 DEF DestroyReleaseLiveRaise
<1>11. CASE RetireDone(t)
  <2>1. call[t] \in RetireCall /\ call[t].stale = <<>>
    BY <1>0, <1>11 DEF RetireDone, Fits, Stales, AcquireCall
  <2>2. RefersTo(t) = {}
    BY <2>1, StaleNone DEF RefersTo, RetireCall
  <2> QED
    BY <1>11, <1>r, <2>2 DEF RetireDone
<1> QED
  BY <1>1, <1>2, <1>3, <1>4, <1>5, <1>6, <1>7, <1>8, <1>9, <1>10, <1>11 DEF Step

\* After a failed deletion the only step of the thread is the one that raises.
LEMMA RaisingStep ==
    ASSUME NEW t \in Threads, Step(t), pc[t] = "release_live_raise"
    PROVE  DestroyReleaseLiveRaise(t)
BY DEF Step, EnsureSandboxTTL, RenewFails, EnsureRelease, InstallFails, ReserveFails, Reserve,
    CreationSlot, Create, CreateFails, Bootstrap, BootstrapFails, UndoCreate, Unreserve,
    ReleaseAppend, DestroySkip, DestroyMark, DestroyBackend, DestroyBackendFails,
    DestroyReleaseLive, RetireDone, Handled, PastStale, Busy

\* acquire keeps hold of every worker it pops.
LEMMA PopLeak ==
    ASSUME Typed, NEW t \in Callers, NEW n \in Tenants, NEW rel \in Releases,
           AcquirePop(t, n, rel)
    PROVE  NoneLost
<1>0. TypeOK /\ Locals /\ t \in Threads
  BY DEF Typed, Threads
<1>k. PICK key \in PoolKey : key = KeyFor(n, rel)
  BY PoolAssumption DEF KeyFor, PoolKey
<1>b. PICK b \in Seq(Workers) : b = idle[key]
  BY <1>0 DEF TypeOK
<1>1. PICK i \in 0..Len(b) : /\ AcquireWith(t, n, rel, b, i)
                             /\ idle' = [idle EXCEPT ![key] = SubSeq(b, 1, i - 1)]
  BY <1>k, <1>b DEF AcquirePop
<1>l. PICK left : left = SubSeq(b, 1, i - 1)
  OBVIOUS
<1>s. PICK st : st = Reverse(SubSeq(b, i + 1, Len(b)))
  OBVIOUS
<1>2. /\ ToSet(st) = {b[j] : j \in (i + 1)..Len(b)}
      /\ DOMAIN left = 1..(i - 1) /\ \A j \in 1..(i - 1) : left[j] = b[j]
  BY <1>l, <1>s, PoppedBucket
<1>3. Len(b) \in Nat /\ DOMAIN b = 1..Len(b) /\ i \in Nat /\ i <= Len(b)
  OBVIOUS
<1>4. /\ call'[t] = [op |-> "acquire", tenant |-> n, rel |-> rel,
                     w |-> IF i = 0 THEN NoWorker ELSE b[i], stale |-> st]
      /\ \A u \in Threads : u # t => call'[u] = call[u]
      /\ alive' = alive /\ pc[t] = "ready"
  BY <1>0, <1>1, <1>s DEF AcquireWith, Goto, TypeOK, workerVars
<1>5. idle'[key] = left /\ \A k \in PoolKey : k # key => idle'[k] = idle[k]
  BY <1>0, <1>1, <1>l DEF TypeOK
<1>6. IdleWorkers \subseteq IdleWorkers' \cup RefersTo(t)'
  <2> SUFFICES ASSUME NEW k \in PoolKey, NEW j \in DOMAIN idle[k]
               PROVE  idle[k][j] \in IdleWorkers' \cup RefersTo(t)'
      BY DEF IdleWorkers, ToSet
  <2>1. CASE k # key
    BY <1>5, <2>1 DEF IdleWorkers, ToSet
  <2>2. CASE k = key
    <3>1. j \in 1..Len(b) /\ idle[k][j] = b[j] /\ b[j] \in Workers
      BY <1>b, <1>3, <2>2
    <3>2. CASE j < i
      <4>1. j \in 1..(i - 1)
        BY <1>3, <3>1, <3>2
      <4>2. j \in DOMAIN idle'[key] /\ idle'[key][j] = b[j]
        BY <1>2, <1>5, <4>1
      <4> QED
        BY <2>2, <3>1, <4>2 DEF IdleWorkers, ToSet
    <3>3. CASE j = i
      <4>1. i # 0
        BY <3>1, <3>3
      <4>2. call'[t].op = "acquire" /\ call'[t].w = b[j]
        BY <1>4, <3>3, <4>1
      <4> QED
        BY <3>1, <4>2 DEF RefersTo
    <3>4. CASE j > i
      <4>1. j \in (i + 1)..Len(b)
        BY <1>3, <3>1, <3>4
      <4>2. b[j] \in ToSet(st) /\ call'[t].op = "acquire" /\ call'[t].stale = st
        BY <1>2, <1>4, <4>1
      <4> QED
        BY <3>1, <4>2 DEF RefersTo
    <3>5. j < i \/ j = i \/ j > i
      BY <1>3, <3>1
    <3> QED
      BY <3>2, <3>3, <3>4, <3>5
  <2> QED
    BY <2>1, <2>2
<1>7. RefersTo(t) = {}
  BY <1>0, <1>4, ReadyRefers
<1> QED
  BY <1>0, <1>4, <1>6, <1>7, LeakKept

\* reap keeps hold of every worker it takes out.
LEMMA ReapLeak ==
    ASSUME Typed, Reap
    PROVE  NoneLost
<1>0. TypeOK /\ Locals /\ Reaper \in Threads
  BY DEF Typed, Threads
<1>e. PICK expired \in SUBSET IdleWorkers : expired = {w \in IdleWorkers : IdleExpired(w)}
  OBVIOUS
<1>1. PICK order \in SetToSeqs(expired) :
          call' = [call EXCEPT ![Reaper] = [op |-> "reap", stale |-> order]]
  BY <1>e DEF Reap
<1>2. /\ call'[Reaper] = [op |-> "reap", stale |-> order] /\ pc[Reaper] = "ready"
      /\ \A u \in Threads : u # Reaper => call'[u] = call[u]
      /\ alive' = alive
  BY <1>0, <1>1 DEF Reap, TypeOK, workerVars
<1>3. ToSet(order) = expired
  <2>1. IdleWorkers \subseteq Workers
    BY <1>0 DEF IdleWorkers, ToSet, TypeOK
  <2>2. IsFiniteSet(expired) /\ Cardinality(expired) \in Nat
    BY <2>1, PoolAssumption, FS_Subset, FS_CardinalityType
  <2>3. order \in Injection(1..Cardinality(expired), expired)
    BY DEF SetToSeqs, Injection, IsInjective
  <2>4. Cardinality(1..Cardinality(expired)) = Cardinality(expired)
    BY <2>2, FS_Interval
  <2>5. order \in Surjection(1..Cardinality(expired), expired)
    BY <2>2, <2>3, <2>4, FS_Injection
  <2> QED
    BY <2>5 DEF Surjection, ToSet
<1>4. RefersTo(Reaper)' = expired
  BY <1>2, <1>3 DEF RefersTo
<1>5. IdleWorkers \subseteq IdleWorkers' \cup expired
  <2> SUFFICES ASSUME NEW k \in PoolKey, NEW i \in DOMAIN idle[k], ~IdleExpired(idle[k][i])
               PROVE  idle[k][i] \in IdleWorkers'
      BY <1>e DEF IdleWorkers, ToSet
  <2>1. idle'[k] = Kept(idle[k]) /\ idle[k] \in Seq(Workers)
    BY <1>0 DEF Reap, TypeOK
  <2>2. idle[k][i] \in ToSet(idle'[k])
    BY <2>1, KeptBucket
  <2> QED
    BY <2>2 DEF IdleWorkers
<1>6. RefersTo(Reaper) = {}
  BY <1>0, <1>2, ReadyRefers
<1> QED
  BY <1>0, <1>2, <1>4, <1>5, <1>6, LeakKept

\* Every other step of the pool keeps hold of the workers that are not destroyed.
LEMMA NextLeak ==
    ASSUME Typed, Owned, Next, \A t \in Threads : ~DestroyReleaseLiveRaise(t)
    PROVE  NoneLost
<1> USE DEF workerVars, quotaVars
<1>0. /\ TypeOK /\ Locals /\ Callers \subseteq Threads /\ Reaper \in Threads
  BY DEF Typed, Threads
<1>1. ASSUME NEW t \in Callers, NEW n \in Tenants, NEW rel \in Releases, AcquirePop(t, n, rel)
      PROVE  NoneLost
  BY <1>1, PopLeak
<1>2. ASSUME NEW t \in Callers, Release(t) \/ Invalidate(t) PROVE NoneLost
  <2>1. /\ call[t] \in UseCall \cup RefCall
        /\ idle' = idle /\ alive' = alive
        /\ \/ call' = call
           \/ call' = [call EXCEPT ![t] = [op |-> "retire", stale |-> <<call[t].w>>]]
    BY <1>0, <1>2 DEF Release, Invalidate, Locals, Fits
  <2>2. call[t].w \in Workers /\ RefersTo(t) = {call[t].w}
    BY <2>1 DEF UseCall, RefCall, RefersTo
  <2>3. RefersTo(t)' = {call[t].w}
    <3>1. CASE call' = call
      BY <2>2, <3>1 DEF RefersTo
    <3>2. CASE call' = [call EXCEPT ![t] = [op |-> "retire", stale |-> <<call[t].w>>]]
      <4>1. call'[t] = [op |-> "retire", stale |-> <<call[t].w>>]
        BY <1>0, <3>2 DEF TypeOK
      <4> QED
        BY <2>2, <4>1, StaleOne DEF RefersTo
    <3> QED
      BY <2>1, <3>1, <3>2
  <2>4. \A u \in Threads : u # t => call'[u] = call[u]
    BY <1>0, <2>1 DEF TypeOK
  <2>5. IdleWorkers' = IdleWorkers
    BY <2>1 DEF IdleWorkers
  <2> QED
    BY <1>0, <2>1, <2>2, <2>3, <2>4, <2>5, LeakKept
<1>3. ASSUME NEW t \in Callers, NEW w \in Workers \ Unreturned, CancelRef(t, w) PROVE NoneLost
  <2>1. /\ pc[t] = "ready" /\ alive' = alive /\ idle' = idle
        /\ \A u \in Threads : u # t => call'[u] = call[u]
    BY <1>0, <1>3 DEF CancelRef, TypeOK
  <2>2. RefersTo(t) = {} /\ IdleWorkers' = IdleWorkers
    BY <1>0, <2>1, ReadyRefers DEF IdleWorkers
  <2> QED
    BY <1>0, <2>1, <2>2, LeakKept
<1>4. ASSUME NEW t \in Threads, Step(t) PROVE NoneLost
  <2>1. CASE pc[t] # "release_live_raise"
    BY <1>4, <2>1, StepLeak
  <2>2. CASE pc[t] = "release_live_raise"
    BY <1>4, <2>2, RaisingStep
  <2> QED
    BY <2>1, <2>2
<1>5. CASE Reap
  BY <1>5, ReapLeak
<1>6. ASSUME NEW w \in Workers, Age(w) \/ SandboxExpires(w) PROVE NoneLost
  BY <1>6 DEF Age, SandboxExpires, NoneLost, Lost, Referenced, RefersTo, IdleWorkers
<1>7. ASSUME NEW left \in SUBSET sandboxes, Restart(left) PROVE NoneLost
  BY <1>7 DEF Restart, Forget, NoneLost, Lost
<1> QED
  BY <1>1, <1>2, <1>3, <1>4, <1>5, <1>6, <1>7 DEF Next

\* What the exception of a failing deletion loses, its thread referred to.
LEMMA RaiseLoses ==
    ASSUME Typed, NEW t \in Threads, DestroyReleaseLiveRaise(t), NEW w \in Lost', w \notin Lost
    PROVE  pc[t] = "release_live_raise" /\ pc'[t] = "raised" /\ w \in RefersTo(t)
<1>1. /\ pc[t] = "release_live_raise" /\ pc'[t] = "raised"
      /\ \A u \in Threads : u # t => call'[u] = call[u]
      /\ alive' = alive /\ idle' = idle
  BY DEF DestroyReleaseLiveRaise, Return, Typed, TypeOK, workerVars
<1>2. \A u \in Threads : u # t => RefersTo(u)' = RefersTo(u)
  BY <1>1, OthersHold
<1>3. IdleWorkers' = IdleWorkers
  BY <1>1 DEF IdleWorkers
<1>4. w \in alive /\ w \notin IdleWorkers /\ \A u \in Threads : u # t => w \notin RefersTo(u)
  BY <1>1, <1>2, <1>3 DEF Lost, Referenced
<1>5. w \in RefersTo(t)
  BY <1>4 DEF Lost, Referenced
<1> QED
  BY <1>1, <1>5

\* Whatever fails, a worker that is not destroyed falls out of the pool only by the exception of
\* a failing deletion, and only when the thread that raises had it on its list or as its
\* candidate: every other failure of acquire, release, invalidate, reap and cancel keeps it.
THEOREM OnlyRaisesLose == Spec => LostOnlyByRaise
<1>1. ASSUME Typed, Owned, [Next]_poolVars, NEW w \in Lost' \ Lost
      PROVE  \E t \in Threads :
                pc[t] = "release_live_raise" /\ pc'[t] = "raised" /\ w \in RefersTo(t)
  <2>1. CASE UNCHANGED poolVars
    <3>1. Lost' = Lost
      BY <2>1 DEF poolVars, Lost, Referenced, RefersTo, IdleWorkers
    <3> QED
      BY <1>1, <3>1
  <2>2. CASE Next /\ \A t \in Threads : ~DestroyReleaseLiveRaise(t)
    <3>1. NoneLost
      BY <1>1, <2>2, NextLeak
    <3> QED
      BY <1>1, <3>1 DEF NoneLost
  <2>3. ASSUME NEW t \in Threads, DestroyReleaseLiveRaise(t)
        PROVE  pc[t] = "release_live_raise" /\ pc'[t] = "raised" /\ w \in RefersTo(t)
    BY <1>1, <2>3, RaiseLoses
  <2> QED
    BY <1>1, <2>1, <2>2, <2>3
<1>2. Typed /\ Owned /\ [Next]_poolVars =>
        [\A w \in Lost' \ Lost :
            \E t \in Threads :
                pc[t] = "release_live_raise" /\ pc'[t] = "raised" /\ w \in RefersTo(t)]_poolVars
  BY <1>1
<1> QED
  BY <1>2, PoolOwned, PTL DEF Spec, LostOnlyByRaise

\* No deletion has raised.
NoRaise == \A t \in Threads : pc[t] # "release_live_raise"

\* A deletion raises only where the backend may fail to delete.
LEMMA NextRaise ==
    ASSUME Typed, NoRaise, Next, "destroy" \notin Faults, "reap" \notin Faults
    PROVE  NoRaise'
<1> USE DEF workerVars, quotaVars
<1>0. TypeOK /\ Locals /\ Callers \subseteq Threads /\ Reaper \in Threads
  BY DEF Typed, Threads
\* Whatever happens, no thread goes to release_live_raise.
<1>g. ASSUME NEW t \in Threads, NEW p \in Places, p # "release_live_raise",
             pc' = [pc EXCEPT ![t] = p]
      PROVE  NoRaise'
  BY <1>0, <1>g DEF NoRaise, TypeOK
<1>1. ASSUME NEW t \in Callers, NEW n \in Tenants, NEW rel \in Releases, AcquirePop(t, n, rel)
      PROVE  NoRaise'
  BY <1>0, <1>1, <1>g DEF AcquirePop, AcquireWith, Goto, Places
<1>2. ASSUME NEW t \in Callers, Release(t) \/ Invalidate(t) PROVE NoRaise'
  BY <1>0, <1>2, <1>g DEF Release, Invalidate, Goto, Places
<1>3. ASSUME NEW t \in Callers, NEW w \in Workers \ Unreturned, CancelRef(t, w) PROVE NoRaise'
  BY <1>0, <1>3, <1>g DEF CancelRef, Goto, Places
<1>4. ASSUME NEW t \in Threads, Step(t) PROVE NoRaise'
  <2>1. CASE EnsureSandboxTTL(t) \/ RenewFails(t) \/ EnsureRelease(t) \/ InstallFails(t)
             \/ ReserveFails(t) \/ Reserve(t) \/ CreationSlot(t)
    BY <1>g, <2>1 DEF EnsureSandboxTTL, RenewFails, EnsureRelease, InstallFails, ReserveFails,
        Reserve, CreationSlot, AcquireFails, Goto, Return, Places
  <2>2. CASE (\E w \in Workers : Create(t, w)) \/ CreateFails(t) \/ Bootstrap(t)
             \/ BootstrapFails(t) \/ UndoCreate(t) \/ Unreserve(t) \/ ReleaseAppend(t)
    BY <1>g, <2>2 DEF Create, CreateFails, Bootstrap, BootstrapFails, UndoCreate, Unreserve,
        ReleaseAppend, Goto, Return, Places
  <2>3. CASE DestroyMark(t) \/ DestroyBackend(t) \/ DestroyReleaseLive(t)
             \/ DestroyReleaseLiveRaise(t) \/ RetireDone(t) \/ Handled(t)
    BY <1>g, <2>3 DEF DestroyMark, DestroyBackend, DestroyReleaseLive, DestroyReleaseLiveRaise,
        RetireDone, Handled, Goto, Return, Places
  <2>4. CASE DestroySkip(t)
    BY <2>4 DEF DestroySkip, NoRaise
  <2>5. CASE DestroyBackendFails(t)
    BY <2>5 DEF DestroyBackendFails
  <2> QED
    BY <1>4, <2>1, <2>2, <2>3, <2>4, <2>5 DEF Step
<1>5. CASE Reap
  BY <1>0, <1>5, <1>g DEF Reap, Goto, Places
<1>6. ASSUME NEW w \in Workers, Age(w) \/ SandboxExpires(w) PROVE NoRaise'
  BY <1>6 DEF Age, SandboxExpires, NoRaise
<1>7. ASSUME NEW left \in SUBSET sandboxes, Restart(left) PROVE NoRaise'
  BY <1>7 DEF Restart, Forget, NoRaise
<1> QED
  BY <1>1, <1>2, <1>3, <1>4, <1>5, <1>6, <1>7 DEF Next

\* When the backend deletes what it is asked to delete, no worker that is not destroyed is ever
\* lost: it is in a bucket or some thread will give it back or destroy it.  A deletion that
\* raises loses the rest of its thread's list, which is why the theorem needs its assumption.
THEOREM NothingLeaks ==
    ASSUME "destroy" \notin Faults, "reap" \notin Faults
    PROVE  Spec => []NoLeak
<1>1. Init => NoLeak /\ NoRaise
  BY DEF Init, NoLeak, NoRaise
<1>2. Typed /\ Owned /\ NoLeak /\ NoRaise /\ [Next]_poolVars => NoLeak' /\ NoRaise'
  <2> SUFFICES ASSUME Typed, Owned, NoLeak, NoRaise, [Next]_poolVars
               PROVE  NoLeak' /\ NoRaise'
      OBVIOUS
  <2>1. CASE Next
    <3>1. \A t \in Threads : ~DestroyReleaseLiveRaise(t)
      BY DEF DestroyReleaseLiveRaise, NoRaise
    <3>2. NoneLost
      BY <2>1, <3>1, NextLeak
    <3>3. NoLeak'
      BY <3>2 DEF NoneLost, Lost, NoLeak
    <3> QED
      BY <2>1, <3>3, NextRaise
  <2>2. CASE UNCHANGED poolVars
    BY <2>2 DEF poolVars, NoLeak, NoRaise, Referenced, RefersTo, IdleWorkers
  <2> QED
    BY <2>1, <2>2
<1> QED
  BY <1>1, <1>2, PoolOwned, PTL DEF Spec

-----------------------------------------------------------------------------
(* The sandboxes that exist, when no creation and no deletion fails *)

\* The worker whose sandbox the token of thread t stands for.
Standing(t) == IF pc[t] = "backend" THEN Head(call[t].stale) ELSE call[t].w

StandingPlaces == {"bootstrap", "undo", "backend"}

\* Every sandbox belongs to a worker that holds a token, or to a thread that does.
Covered ==
    \A w \in sandboxes : \/ w \in alive
                         \/ \E t \in Threads : pc[t] \in StandingPlaces /\ Standing(t) = w

\* A step of t that creates no sandbox, and ends neither with a worker nor with its cover.
LEMMA CoverKept ==
    ASSUME Covered, NEW t \in Threads, sandboxes' \subseteq sandboxes, alive \subseteq alive',
           \A u \in Threads : u # t => pc'[u] = pc[u] /\ call'[u] = call[u],
           pc[t] \in StandingPlaces /\ Standing(t) \in sandboxes' =>
               \/ Standing(t) \in alive'
               \/ pc'[t] \in StandingPlaces /\ Standing(t)' = Standing(t)
    PROVE  Covered'
<1> SUFFICES ASSUME NEW w \in sandboxes'
             PROVE  \/ w \in alive'
                    \/ \E u \in Threads : pc'[u] \in StandingPlaces /\ Standing(u)' = w
    BY DEF Covered
<1>1. CASE w \in alive
  BY <1>1
<1>2. CASE w \notin alive
  <2>1. PICK u \in Threads : pc[u] \in StandingPlaces /\ Standing(u) = w
    BY <1>2 DEF Covered
  <2>2. CASE u = t
    BY <2>1, <2>2
  <2>3. CASE u # t
    <3>1. pc'[u] = pc[u] /\ Standing(u)' = Standing(u)
      BY <2>3 DEF Standing
    <3> QED
      BY <2>1, <3>1
  <2> QED
    BY <2>2, <2>3
<1> QED
  BY <1>1, <1>2

\* Every step of the pool leaves each sandbox with a token.
LEMMA NextCovered ==
    ASSUME Typed, Covered, Next, "create" \notin Faults,
           "destroy" \notin Faults, "reap" \notin Faults, "cleanup" \notin Faults
    PROVE  Covered'
<1> USE DEF workerVars, quotaVars
<1>0. TypeOK /\ Locals /\ Callers \subseteq Threads /\ Reaper \in Threads
  BY DEF Typed, Threads
\* A step of a thread that stands for nothing, and creates and deletes nothing.
<1>g. ASSUME NEW t \in Threads, pc[t] \notin StandingPlaces, sandboxes' = sandboxes,
             alive' = alive, \A u \in Threads : u # t => pc'[u] = pc[u] /\ call'[u] = call[u]
      PROVE  Covered'
  BY <1>g, CoverKept
<1>1. ASSUME NEW t \in Callers, NEW n \in Tenants, NEW rel \in Releases, AcquirePop(t, n, rel)
      PROVE  Covered'
  <2>1. /\ pc[t] = "ready" /\ sandboxes' = sandboxes /\ alive' = alive
        /\ \A u \in Threads : u # t => pc'[u] = pc[u] /\ call'[u] = call[u]
    BY <1>0, <1>1 DEF AcquirePop, AcquireWith, Goto, TypeOK
  <2> QED
    BY <1>0, <1>g, <2>1 DEF StandingPlaces
<1>2. ASSUME NEW t \in Callers, Release(t) \/ Invalidate(t) PROVE Covered'
  <2>1. \A u \in Threads : u # t => pc'[u] = pc[u] /\ call'[u] = call[u]
    BY <1>2, RetireQuiet DEF Quiet
  <2>2. pc[t] \in {"using", "ref"} /\ sandboxes' = sandboxes /\ alive' = alive
    BY <1>2 DEF Release, Invalidate
  <2> QED
    BY <1>0, <1>g, <2>1, <2>2 DEF StandingPlaces
<1>3. ASSUME NEW t \in Callers, NEW w \in Workers \ Unreturned, CancelRef(t, w) PROVE Covered'
  <2>1. /\ pc[t] = "ready" /\ sandboxes' = sandboxes /\ alive' = alive
        /\ \A u \in Threads : u # t => pc'[u] = pc[u] /\ call'[u] = call[u]
    BY <1>0, <1>3 DEF CancelRef, Goto, TypeOK
  <2> QED
    BY <1>0, <1>g, <2>1 DEF StandingPlaces
<1>4. ASSUME NEW t \in Threads, Step(t) PROVE Covered'
  <2>0. Fits(pc[t], call[t])
    BY <1>0 DEF Locals
  <2>1. CASE EnsureSandboxTTL(t) \/ RenewFails(t) \/ EnsureRelease(t) \/ InstallFails(t)
             \/ ReserveFails(t) \/ Reserve(t) \/ CreationSlot(t)
    <3>1. /\ pc[t] \in {"stale", "install", "slot"} /\ sandboxes' = sandboxes /\ alive' = alive
          /\ \A u \in Threads : u # t => pc'[u] = pc[u] /\ call'[u] = call[u]
      BY <1>0, <2>1 DEF EnsureSandboxTTL, RenewFails, EnsureRelease, InstallFails, ReserveFails,
          Reserve, CreationSlot, PastStale, AcquireFails, Goto, Return, TypeOK
    <3> QED
      BY <1>g, <3>1 DEF StandingPlaces
  <2>c. CASE CreateFails(t)
    BY <2>c DEF CreateFails
  <2>2. CASE Unreserve(t) \/ ReleaseAppend(t) \/ DestroySkip(t)
             \/ DestroyReleaseLive(t) \/ DestroyReleaseLiveRaise(t) \/ RetireDone(t) \/ Handled(t)
    <3>1. /\ pc[t] \notin StandingPlaces /\ sandboxes' = sandboxes /\ alive' = alive
          /\ \A u \in Threads : u # t => pc'[u] = pc[u] /\ call'[u] = call[u]
      BY <1>0, <2>2 DEF Unreserve, ReleaseAppend, DestroySkip, DestroyReleaseLive,
          DestroyReleaseLiveRaise, RetireDone, Handled, Busy, NextStale, Goto, Return, TypeOK,
          StandingPlaces
    <3> QED
      BY <1>g, <3>1
  <2>3. ASSUME NEW w \in Workers, Create(t, w) PROVE Covered'
    <3>1. /\ pc'[t] = "bootstrap" /\ pc[t] = "create" /\ alive' = alive
          /\ sandboxes' = sandboxes \cup {w} /\ call[t] \in AcquireCall
          /\ call'[t] = [call[t] EXCEPT !.w = w]
          /\ \A u \in Threads : u # t => pc'[u] = pc[u] /\ call'[u] = call[u]
      BY <1>0, <2>0, <2>3 DEF Create, Goto, Fits, Creating, TypeOK
    <3>2. Standing(t)' = w /\ pc'[t] \in StandingPlaces /\ pc[t] \notin StandingPlaces
      BY <3>1 DEF Standing, StandingPlaces, AcquireCall
    <3>3. ASSUME NEW x \in sandboxes, x \notin alive
          PROVE  \E u \in Threads : pc'[u] \in StandingPlaces /\ Standing(u)' = x
      <4>1. PICK u \in Threads : pc[u] \in StandingPlaces /\ Standing(u) = x
        BY <3>3 DEF Covered
      <4>2. pc'[u] = pc[u] /\ call'[u] = call[u]
        BY <3>1, <3>2, <4>1
      <4> QED
        BY <4>1, <4>2 DEF Standing
    <3> QED
      BY <3>1, <3>2, <3>3 DEF Covered
  <2>4. CASE Bootstrap(t)
    <3>1. /\ pc[t] = "bootstrap" /\ alive' = alive \cup {call[t].w} /\ sandboxes' = sandboxes
          /\ \A u \in Threads : u # t => pc'[u] = pc[u] /\ call'[u] = call[u]
      BY <1>0, <2>4 DEF Bootstrap, Goto, TypeOK
    <3> QED
      BY <3>1, CoverKept DEF Standing
  <2>5. CASE BootstrapFails(t)
    <3>1. /\ pc[t] = "bootstrap" /\ pc'[t] = "undo" /\ call' = call /\ alive' = alive
          /\ sandboxes' = sandboxes /\ \A u \in Threads : u # t => pc'[u] = pc[u]
      BY <1>0, <2>5 DEF BootstrapFails, Goto, TypeOK
    <3> QED
      BY <3>1, CoverKept DEF Standing, StandingPlaces
  <2>6. CASE UndoCreate(t)
    <3>1. /\ pc[t] = "undo" /\ call' = call /\ alive' = alive
          /\ sandboxes' = sandboxes \ {call[t].w} /\ \A u \in Threads : u # t => pc'[u] = pc[u]
      BY <1>0, <2>6 DEF UndoCreate, Goto, TypeOK
    <3> QED
      BY <3>1, CoverKept DEF Standing
  <2>7. CASE DestroyBackend(t)
    <3>1. /\ pc[t] = "backend" /\ call' = call /\ alive' = alive
          /\ sandboxes' = sandboxes \ {Head(call[t].stale)}
          /\ \A u \in Threads : u # t => pc'[u] = pc[u]
      BY <1>0, <2>7 DEF DestroyBackend, Goto, TypeOK
    <3> QED
      BY <3>1, CoverKept DEF Standing
  <2>8. CASE DestroyBackendFails(t)
    BY <2>8 DEF DestroyBackendFails
  <2>9. CASE DestroyMark(t)
    <3>1. /\ pc[t] = "stale" /\ pc'[t] = "backend" /\ call' = call /\ sandboxes' = sandboxes
          /\ alive' = alive \ {Head(call[t].stale)}
          /\ \A u \in Threads : u # t => pc'[u] = pc[u]
      BY <1>0, <2>9 DEF DestroyMark, Busy, Goto, TypeOK
    <3>2. Standing(t)' = Head(call[t].stale) /\ pc'[t] \in StandingPlaces
          /\ pc[t] \notin StandingPlaces
      BY <3>1 DEF Standing, StandingPlaces
    <3>3. ASSUME NEW x \in sandboxes, x \notin alive
          PROVE  \E u \in Threads : pc'[u] \in StandingPlaces /\ Standing(u)' = x
      <4>1. PICK u \in Threads : pc[u] \in StandingPlaces /\ Standing(u) = x
        BY <3>3 DEF Covered
      <4>2. pc'[u] = pc[u] /\ call' = call
        BY <3>1, <3>2, <4>1
      <4> QED
        BY <4>1, <4>2 DEF Standing
    <3> QED
      BY <3>1, <3>2, <3>3 DEF Covered
  <2> QED
    BY <1>4, <2>1, <2>c, <2>2, <2>3, <2>4, <2>5, <2>6, <2>7, <2>8, <2>9 DEF Step
<1>5. CASE Reap
  <2>1. /\ pc[Reaper] = "ready" /\ sandboxes' = sandboxes /\ alive' = alive
        /\ \A u \in Threads : u # Reaper => pc'[u] = pc[u] /\ call'[u] = call[u]
    BY <1>0, <1>5 DEF Reap, Goto, TypeOK
  <2> QED
    BY <1>0, <1>g, <2>1 DEF StandingPlaces
<1>6. ASSUME NEW w \in Workers, Age(w) \/ SandboxExpires(w) PROVE Covered'
  BY <1>6 DEF Age, SandboxExpires, Covered, Standing
<1>7. ASSUME NEW left \in SUBSET sandboxes, Restart(left) PROVE Covered'
  BY <1>7 DEF Restart, Covered
<1> QED
  BY <1>1, <1>2, <1>3, <1>4, <1>5, <1>6, <1>7 DEF Next

\* When every creation is answered, the backend deletes what it is asked to delete and the
\* clean-up after a restart finds every sandbox, max_live bounds the sandboxes that exist, not
\* only the ones that are counted, although installs and renewals fail and sandboxes vanish.  A
\* creation whose answer is lost (opensandbox.py:162) or a deletion that raises breaks the bound.
THEOREM SandboxesBounded ==
    ASSUME "create" \notin Faults, "destroy" \notin Faults, "reap" \notin Faults,
           "cleanup" \notin Faults
    PROVE  Spec => []LiveBounded
<1>1. Init => Covered
  BY DEF Init, Covered
<1>2. Typed /\ Covered /\ [Next]_poolVars => Covered'
  <2> SUFFICES ASSUME Typed, Covered, [Next]_poolVars PROVE Covered'
      OBVIOUS
  <2>1. CASE Next
    BY <2>1, NextCovered
  <2>2. CASE UNCHANGED poolVars
    BY <2>2 DEF poolVars, Covered, Standing
  <2> QED
    BY <2>1, <2>2
<1>3. Typed /\ Counted /\ Covered => LiveBounded
  <2> SUFFICES ASSUME Typed, Counted, Covered PROVE LiveBounded
      OBVIOUS
  <2>0. TypeOK
    BY DEF Typed
  <2> DEFINE f == [t \in Tokens |-> Standing(t)]
             image == {Standing(t) : t \in Tokens}
  <2>1. f \in Surjection(Tokens, image)
    BY DEF Surjection
  <2>2. /\ IsFiniteSet(Tokens) /\ Cardinality(Tokens) \in Nat
        /\ IsFiniteSet(alive) /\ Cardinality(alive) \in Nat
    BY <2>0, TokensFinite
  <2>3. IsFiniteSet(image) /\ Cardinality(image) <= Cardinality(Tokens)
    BY <2>1, <2>2, FS_Surjection
  <2>4. sandboxes \subseteq alive \cup image
    BY DEF Covered, Tokens, TokenPlaces, StandingPlaces, Creating, Deleting
  <2> HIDE DEF f, image
  <2>5. /\ IsFiniteSet(alive \cup image) /\ IsFiniteSet(alive \cap image)
        /\ Cardinality(alive \cup image) =
              Cardinality(alive) + Cardinality(image) - Cardinality(alive \cap image)
    BY <2>2, <2>3, FS_Union, FS_Subset
  <2>6. IsFiniteSet(sandboxes) /\ Cardinality(sandboxes) <= Cardinality(alive \cup image)
    BY <2>4, <2>5, FS_Subset
  <2>7. /\ Cardinality(image) \in Nat /\ Cardinality(alive \cap image) \in Nat
        /\ Cardinality(alive \cup image) \in Nat /\ Cardinality(sandboxes) \in Nat
    BY <2>3, <2>5, <2>6, FS_CardinalityType
  <2>8. live = Cardinality(Tokens) + Cardinality(alive) /\ live <= MaxLive /\ MaxLive \in Nat
    BY PoolAssumption DEF Counted
  <2>9. Cardinality(sandboxes) <= MaxLive
    BY <2>2, <2>3, <2>5, <2>6, <2>7, <2>8
  <2> QED
    BY <2>9 DEF LiveBounded
<1> QED
  BY <1>1, <1>2, <1>3, PoolCounted, PTL DEF Spec

=============================================================================
