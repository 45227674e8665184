------------------------- MODULE BuildServiceProofs -------------------------
(***************************************************************************)
(* Machine-checked theorems about BuildService, for any set of locks, of   *)
(* packages and of request threads.                                        *)
(***************************************************************************)
EXTENDS BuildService, TLAPS

-----------------------------------------------------------------------------
(* The inductive invariant *)

Status == {"ABSENT", "PENDING", "BUILDING", "VERIFYING", "READY", "FAILED"}

Tasks == [key: Specs, env: Specs \cup {NoSpec}, spec: Specs,
          seen: Status,
          job: JobIds \cup {NoRow}, image: Image \cup {NoImage}]

\* The places of a thread that has chosen its environment.
Chosen == {"bind_superset", "bind_exact", "reset", "claim"} \cup Building

\* The rows.
Rows ==
    /\ envs \in [Specs -> Env \cup {Absent}]
    /\ created \in Seq(Specs)
    /\ aliases \in [Specs -> Specs \cup {NoSpec}]
    /\ jobs \in [JobIds -> Job \cup {NoRow}]
    /\ pc \in [Callers -> Places]
    /\ task \in [Callers -> Tasks \cup {NoTask}]

\* The locals of a thread.
Locals(t) ==
    /\ pc[t] # "idle" => task[t] \in Tasks
    /\ pc[t] \in Chosen => task[t].env \in Specs
    /\ pc[t] \in Building => task[t].job \in JobIds
    /\ pc[t] \in {"mark_verifying", "verify", "mark_ready"} => task[t].image \in Image

Typed == Rows /\ \A t \in Callers : Locals(t)

\* What the thread that builds an environment knows of its rows: it is alone.
Owner(t) ==
    LET e == task[t].env
        j == task[t].job IN
    pc[t] \in Building =>
        /\ jobs[j].env = e /\ jobs[j].status = envs[e].status
        /\ pc[t] \in {"build", "mark_verifying"} => envs[e].status = "BUILDING"
        /\ pc[t] \in {"verify", "mark_ready"} => envs[e].status = "VERIFYING"
        /\ envs[e].status = "READY" => pc[t] = "mark_failed" /\ "ready" \in BuildFaults
        /\ envs[e].status \in {"BUILDING", "VERIFYING", "READY"}

Alone == \A t, u \in Callers :
    pc[t] \in Building /\ pc[u] \in Building /\ task[t].env = task[u].env => t = u

Open(j) == jobs[j].status \in {"BUILDING", "VERIFYING"}

\* JobsInStep, job by job.
Paired ==
    /\ \A j \in JobIds : Open(j) => envs[jobs[j].env].status = jobs[j].status
    /\ \A j, k \in JobIds : Open(j) /\ Open(k) /\ jobs[j].env = jobs[k].env => j = k
    /\ \A e \in Specs : envs[e].status \in {"BUILDING", "VERIFYING"} =>
            \E j \in JobIds : Open(j) /\ jobs[j].env = e

Owned == (\A t \in Callers : Owner(t)) /\ Alone /\ Paired

\* The environment e may answer for s: it is the one made for s, or READY for good.
Fits(s, e) ==
    /\ envs[e].status # "ABSENT"
    /\ \/ e = s
       \/ /\ envs[e].status = "READY"
          /\ PlatformOf[e] = PlatformOf[s]
          /\ PackagesOf[s] \subseteq PackagesOf[e]

\* What a thread is about to bind, build or mark.
Purpose(t) ==
    /\ pc[t] \in {"bind_superset", "bind_exact"} => Fits(task[t].key, task[t].env)
    /\ pc[t] \in {"reset", "claim"} \cup Building => task[t].spec = task[t].env
    /\ pc[t] \in {"lookup", "superset", "exact", "bind_superset", "bind_exact"} =>
            task[t].spec = task[t].key
    /\ pc[t] = "bind_exact" => task[t].env = task[t].key
    /\ pc[t] = "mark_ready" => PackagesOf[task[t].env] \subseteq task[t].image.pkgs

Filled == \A e \in Specs : envs[e].status = "READY" =>
    envs[e].image \in Image /\ PackagesOf[e] \subseteq envs[e].image.pkgs

\* image_ref UNIQUE
Distinct == \A d, e \in Specs :
    envs[d].image = envs[e].image /\ envs[e].image # NoImage => d = e

Bound == \A s \in Specs : aliases[s] # NoSpec => Fits(s, aliases[s])

Served == (\A t \in Callers : Purpose(t)) /\ Filled /\ Distinct /\ Bound

Inv == Typed /\ Owned

-----------------------------------------------------------------------------
(* Type correctness *)

\* A step of a thread touches its own place and locals only.
Moves(t) ==
    /\ pc' = [pc EXCEPT ![t] = pc'[t]]
    /\ task' = [task EXCEPT ![t] = task'[t]]

\* A thread that moves leaves the places and the locals of all threads well typed.
LEMMA MovesTyped ==
    ASSUME Typed, NEW t \in Callers, Moves(t),
           pc'[t] \in Places, task'[t] \in Tasks \cup {NoTask}, Locals(t)'
    PROVE  /\ pc' \in [Callers -> Places] /\ task' \in [Callers -> Tasks \cup {NoTask}]
           /\ \A u \in Callers : Locals(u)'
<1>1. pc' \in [Callers -> Places] /\ task' \in [Callers -> Tasks \cup {NoTask}]
  BY DEF Moves, Typed, Rows
<1>2. ASSUME NEW u \in Callers, u # t PROVE Locals(u)'
  <2>1. pc'[u] = pc[u] /\ task'[u] = task[u]
    BY <1>2 DEF Moves, Typed, Rows
  <2> QED
    BY <2>1 DEF Typed, Locals
<1> QED
  BY <1>1, <1>2

\* The end of a request.
LEMMA EndTyped ==
    ASSUME Typed, NEW t \in Callers, End(t)
    PROVE  /\ pc' \in [Callers -> Places] /\ task' \in [Callers -> Tasks \cup {NoTask}]
           /\ \A u \in Callers : Locals(u)'
           /\ Moves(t) /\ pc'[t] = "idle"
<1>1. pc'[t] = "idle" /\ task'[t] = NoTask /\ Moves(t)
  BY DEF End, Moves, Typed, Rows
<1>2. Locals(t)'
  BY <1>1 DEF Locals, Chosen, Building
<1> QED
  BY <1>1, <1>2, MovesTyped DEF Places

\* A thread that goes on has kept its locals.
LEMMA GotoTyped ==
    ASSUME Typed, NEW t \in Callers, NEW place \in Places \ {"idle"}, Goto(t, place),
           task' = task, pc[t] # "idle", place \in Chosen => task[t].env \in Specs,
           place \in Building => task[t].job \in JobIds,
           place \in {"mark_verifying", "verify", "mark_ready"} => task[t].image \in Image
    PROVE  /\ pc' \in [Callers -> Places] /\ task' \in [Callers -> Tasks \cup {NoTask}]
           /\ \A u \in Callers : Locals(u)'
           /\ Moves(t) /\ pc'[t] = place
<1>1. pc'[t] = place /\ task'[t] = task[t] /\ Moves(t)
  BY DEF Goto, Moves, Typed, Rows
<1>2. task[t] \in Tasks
  BY DEF Typed, Locals
<1>3. Locals(t)'
  BY <1>1, <1>2 DEF Locals
<1> QED
  BY <1>1, <1>2, <1>3, MovesTyped

\* A thread that assigns to its locals, in any record r that is well typed.
LEMMA AssignTyped ==
    ASSUME Typed, NEW t \in Callers, NEW place \in Places \ {"idle"}, Goto(t, place),
           NEW r \in Tasks, task' = [task EXCEPT ![t] = r],
           place \in Chosen => r.env \in Specs,
           place \in Building => r.job \in JobIds,
           place \in {"mark_verifying", "verify", "mark_ready"} => r.image \in Image
    PROVE  /\ pc' \in [Callers -> Places] /\ task' \in [Callers -> Tasks \cup {NoTask}]
           /\ \A u \in Callers : Locals(u)'
           /\ Moves(t) /\ pc'[t] = place /\ task'[t] = r
<1>1. pc'[t] = place /\ task'[t] = r /\ Moves(t)
  BY DEF Goto, Moves, Typed, Rows
<1>2. Locals(t)'
  BY <1>1 DEF Locals
<1> QED
  BY <1>1, <1>2, MovesTyped

\* The locals of a thread that is under way, with one of them replaced.
LEMMA EnvReplaced ==
    ASSUME NEW q \in Tasks, NEW e \in Specs
    PROVE  \E r \in Tasks : /\ r = [q EXCEPT !.env = e]
                            /\ r.env = e /\ r.key = q.key /\ r.spec = q.spec
<1>1. [q EXCEPT !.env = e] \in Tasks
  BY DEF Tasks
<1>2. /\ [q EXCEPT !.env = e].env = e /\ [q EXCEPT !.env = e].key = q.key
      /\ [q EXCEPT !.env = e].spec = q.spec
  BY DEF Tasks
<1> QED
  BY <1>1, <1>2

\* The same of the status that was read.
LEMMA SeenReplaced ==
    ASSUME NEW q \in Tasks, NEW st \in Status
    PROVE  \E r \in Tasks : /\ r = [q EXCEPT !.seen = st]
                            /\ r.env = q.env /\ r.key = q.key /\ r.spec = q.spec
<1>1. [q EXCEPT !.seen = st] \in Tasks
  BY DEF Tasks
<1>2. /\ [q EXCEPT !.seen = st].env = q.env /\ [q EXCEPT !.seen = st].key = q.key
      /\ [q EXCEPT !.seen = st].spec = q.spec
  BY DEF Tasks
<1> QED
  BY <1>1, <1>2

\* The same of the spec.
LEMMA SpecReplaced ==
    ASSUME NEW q \in Tasks, NEW e \in Specs
    PROVE  \E r \in Tasks : r = [q EXCEPT !.spec = e] /\ r.spec = e /\ r.env = q.env
<1>1. [q EXCEPT !.spec = e] \in Tasks
  BY DEF Tasks
<1>2. [q EXCEPT !.spec = e].spec = e /\ [q EXCEPT !.spec = e].env = q.env
  BY DEF Tasks
<1> QED
  BY <1>1, <1>2

\* The same of the job.
LEMMA JobReplaced ==
    ASSUME NEW q \in Tasks, NEW j \in JobIds
    PROVE  \E r \in Tasks : /\ r = [q EXCEPT !.job = j]
                            /\ r.job = j /\ r.env = q.env /\ r.spec = q.spec
<1>1. [q EXCEPT !.job = j] \in Tasks
  BY DEF Tasks
<1>2. /\ [q EXCEPT !.job = j].job = j /\ [q EXCEPT !.job = j].env = q.env
      /\ [q EXCEPT !.job = j].spec = q.spec
  BY DEF Tasks
<1> QED
  BY <1>1, <1>2

\* The same of the image.
LEMMA ImageReplaced ==
    ASSUME NEW q \in Tasks, NEW i \in Image
    PROVE  \E r \in Tasks : /\ r = [q EXCEPT !.image = i]
                            /\ r.image = i /\ r.env = q.env /\ r.spec = q.spec
                            /\ r.job = q.job
<1>1. [q EXCEPT !.image = i] \in Tasks
  BY DEF Tasks
<1>2. /\ [q EXCEPT !.image = i].image = i /\ [q EXCEPT !.image = i].env = q.env
      /\ [q EXCEPT !.image = i].spec = q.spec /\ [q EXCEPT !.image = i].job = q.job
  BY DEF Tasks
<1> QED
  BY <1>1, <1>2

\* The locals of a new request.
LEMMA NewTask ==
    ASSUME NEW s \in Specs
    PROVE  Task(s) \in Tasks /\ Task(s).key = s /\ Task(s).spec = s
BY DEF Task, Tasks, Status

-----------------------------------------------------------------------------
(* The effects of the actions on the thread that takes them *)

\* A thread that has claimed a build has an environment and a job that exist.
LEMMA OwnRows ==
    ASSUME Inv, NEW t \in Callers, pc[t] \in Building
    PROVE  /\ task[t] \in Tasks /\ task[t].env \in Specs /\ task[t].job \in JobIds
           /\ jobs[task[t].job] \in Job /\ envs[task[t].env] \in Env
<1>1. task[t] \in Tasks /\ task[t].env \in Specs /\ task[t].job \in JobIds
  BY DEF Inv, Typed, Locals, Chosen, Building
<1>2. jobs[task[t].job] # NoRow
  BY <1>1, BuildAssumption DEF Inv, Owned, Owner, NoRow
<1>3. envs[task[t].env] # Absent
  BY <1>1 DEF Inv, Owned, Owner, Absent
<1> QED
  BY <1>1, <1>2, <1>3 DEF Inv, Typed, Rows

\* mark_verifying, mark_ready and mark_failed write well-typed rows, and only the thread's own.
LEMMA MarkRows ==
    ASSUME Inv, NEW t \in Callers, pc[t] \in Building,
           NEW status \in {"BUILDING", "VERIFYING", "READY", "FAILED"},
           NEW image \in Image \cup {NoImage}, Mark(t, status, image)
    PROVE  /\ envs' \in [Specs -> Env \cup {Absent}] /\ jobs' \in [JobIds -> Job \cup {NoRow}]
           /\ envs'[task[t].env].status = status /\ envs'[task[t].env].image = image
           /\ \A e \in Specs \ {task[t].env} : envs'[e] = envs[e]
           /\ jobs'[task[t].job].status = status
           /\ jobs'[task[t].job].env = task[t].env
           /\ \A j \in JobIds \ {task[t].job} : jobs'[j] = jobs[j]
<1> PICK e \in Specs : e = task[t].env
  BY OwnRows
<1> PICK j \in JobIds : j = task[t].job
  BY OwnRows
<1>1. jobs[j] \in Job /\ jobs[j].env = e /\ jobs \in [JobIds -> Job \cup {NoRow}]
      /\ envs \in [Specs -> Env \cup {Absent}]
  BY OwnRows DEF Inv, Typed, Rows, Owned, Owner
<1>2. /\ envs' = [envs EXCEPT ![e] = [status |-> status, image |-> image]]
      /\ jobs' = [jobs EXCEPT ![j].status = status]
  BY DEF Mark
<1>3. [status |-> status, image |-> image] \in Env
  BY DEF Env
<1>4. /\ [jobs[j] EXCEPT !.status = status] \in Job
      /\ [jobs[j] EXCEPT !.status = status].status = status
      /\ [jobs[j] EXCEPT !.status = status].env = e
  BY <1>1 DEF Job
<1> QED
  BY <1>1, <1>2, <1>3, <1>4

\* claim_build writes well-typed rows, of an environment that nobody has begun to build.
LEMMA ClaimRows ==
    ASSUME Typed, NEW e \in Specs, NEW j \in JobIds, Claimed(e, j)
    PROVE  /\ envs' \in [Specs -> Env \cup {Absent}] /\ jobs' \in [JobIds -> Job \cup {NoRow}]
           /\ envs'[e].status = "BUILDING" /\ envs'[e].image = envs[e].image
           /\ \A d \in Specs \ {e} : envs'[d] = envs[d]
           /\ jobs'[j].status = "BUILDING" /\ jobs'[j].env = e
           /\ \A k \in JobIds \ {j} : jobs'[k] = jobs[k]
<1>1. envs[e] \in Env /\ jobs \in [JobIds -> Job \cup {NoRow}] /\ envs \in [Specs -> Env \cup {Absent}]
  BY DEF Typed, Rows, Claimed, Absent
<1>2. /\ [envs[e] EXCEPT !.status = "BUILDING"] \in Env
      /\ [envs[e] EXCEPT !.status = "BUILDING"].status = "BUILDING"
      /\ [envs[e] EXCEPT !.status = "BUILDING"].image = envs[e].image
  BY <1>1 DEF Env
<1>3. [status |-> "BUILDING", env |-> e] \in Job
  BY DEF Job
<1> QED
  BY <1>1, <1>2, <1>3 DEF Claimed

\* The first step of resolve.
LEMMA ResolveMoves ==
    ASSUME Typed, NEW t \in Callers, NEW s \in Specs, Resolve(t, s)
    PROVE  /\ Typed' /\ Moves(t) /\ pc'[t] = "lookup"
           /\ task'[t].key = s /\ task'[t].spec = s
<1>1. Task(s) \in Tasks /\ Task(s).key = s /\ Task(s).spec = s
  BY NewTask
<1>2. "lookup" \in Places \ {"idle"} /\ "lookup" \notin Chosen \cup Building
  BY DEF Places, Chosen, Building
<1>3. task' = [task EXCEPT ![t] = Task(s)] /\ Goto(t, "lookup")
  BY DEF Resolve
<1>4. /\ pc' \in [Callers -> Places] /\ task' \in [Callers -> Tasks \cup {NoTask}]
      /\ \A u \in Callers : Locals(u)'
      /\ Moves(t) /\ pc'[t] = "lookup" /\ task'[t] = Task(s)
  BY <1>1, <1>2, <1>3, AssignTyped
<1> QED
  BY <1>1, <1>4 DEF Resolve, Typed, Rows

\* The first step of retry.
LEMMA RetryMoves ==
    ASSUME Typed, NEW t \in Callers, NEW s \in Specs, Retry(t, s)
    PROVE  /\ Typed' /\ Moves(t) /\ pc'[t] = "reset"
           /\ task'[t].key = s /\ task'[t].spec = s /\ task'[t].env = aliases[s]
<1>1. Task(s) \in Tasks /\ Task(s).key = s /\ Task(s).spec = s /\ aliases[s] \in Specs
  BY NewTask DEF Retry, Typed, Rows
<1> PICK r \in Tasks : r = [Task(s) EXCEPT !.env = aliases[s]]
  BY <1>1, EnvReplaced
<1>2. r.key = s /\ r.spec = s /\ r.env = aliases[s]
  BY <1>1 DEF Task
<1>3. "reset" \in Places \ {"idle"} /\ "reset" \notin Building
  BY DEF Places, Building
<1>4. task' = [task EXCEPT ![t] = r] /\ Goto(t, "reset")
  BY DEF Retry
<1>5. /\ pc' \in [Callers -> Places] /\ task' \in [Callers -> Tasks \cup {NoTask}]
      /\ \A u \in Callers : Locals(u)'
      /\ Moves(t) /\ pc'[t] = "reset" /\ task'[t] = r
  BY <1>1, <1>2, <1>3, <1>4, AssignTyped
<1> QED
  BY <1>2, <1>5 DEF Retry, Typed, Rows

\* A request that ends leaves well-typed state if its rows are.
LEMMA EndMoves ==
    ASSUME Typed, NEW t \in Callers, End(t),
           envs' \in [Specs -> Env \cup {Absent}], created' = created,
           aliases' \in [Specs -> Specs \cup {NoSpec}], jobs' \in [JobIds -> Job \cup {NoRow}]
    PROVE  Typed' /\ Moves(t) /\ pc'[t] = "idle"
BY EndTyped DEF Typed, Rows

\* A request that finds no binding goes on with its locals as they are.
LEMMA LookupMissesMoves ==
    ASSUME Typed, NEW t \in Callers, LookupMisses(t)
    PROVE  Typed' /\ Moves(t) /\ pc'[t] \in {"superset", "exact"} /\ task'[t] = task[t]
<1> PICK place \in {"superset", "exact"} : Goto(t, place)
  BY DEF LookupMisses
<1>1. place \in Places \ {"idle"} /\ place \notin Chosen \cup Building
  BY DEF Places, Chosen, Building
<1>2. pc[t] # "idle" /\ task' = task
  BY DEF LookupMisses
<1> QED
  BY <1>1, <1>2, GotoTyped DEF LookupMisses, Typed, Rows

ChoosesEnv(t, e) == task' = [task EXCEPT ![t].env = e]

\* A thread that goes to a place with another environment in its locals.
LEMMA EnvAssigned ==
    ASSUME Typed, NEW t \in Callers, pc[t] # "idle", NEW e \in Specs,
           NEW place \in {"bind_superset", "claim"}, Goto(t, place),
           ChoosesEnv(t, e), UNCHANGED <<envs, created, aliases, jobs>>
    PROVE  /\ Typed' /\ Moves(t) /\ pc'[t] = place
           /\ task'[t].env = e /\ task'[t].key = task[t].key /\ task'[t].spec = task[t].spec
<1>1. task[t] \in Tasks
  BY DEF Typed, Locals
<1> PICK r \in Tasks : /\ r = [task[t] EXCEPT !.env = e]
                       /\ r.env = e /\ r.key = task[t].key /\ r.spec = task[t].spec
  BY <1>1, EnvReplaced
<1>2. place \in Places \ {"idle"} /\ place \notin Building
  BY DEF Places, Building
<1>3. task' = [task EXCEPT ![t] = r]
  BY DEF ChoosesEnv
<1>4. /\ pc' \in [Callers -> Places] /\ task' \in [Callers -> Tasks \cup {NoTask}]
      /\ \A u \in Callers : Locals(u)'
      /\ Moves(t) /\ pc'[t] = place /\ task'[t] = r
  BY <1>2, <1>3, AssignTyped
<1> QED
  BY <1>4 DEF Typed, Rows

\* get_or_create_exact writes a well-typed row, and goes on with that row.
LEMMA GetOrCreateExactMoves ==
    ASSUME Typed, NEW t \in Callers, GetOrCreateExact(t)
    PROVE  /\ Typed' /\ Moves(t) /\ pc'[t] = "bind_exact" /\ task[t].key \in Specs
           /\ task'[t].env = task[t].key /\ task'[t].key = task[t].key
           /\ task'[t].spec = task[t].spec
<1>1. task[t] \in Tasks
  BY DEF Typed, Locals, GetOrCreateExact
<1> PICK s \in Specs : s = task[t].key
  BY <1>1 DEF Tasks
<1>2. envs' \in [Specs -> Env \cup {Absent}] /\ created' \in Seq(Specs)
  <2>1. CASE envs[s].status = "ABSENT"
    <3>1. [status |-> "PENDING", image |-> NoImage] \in Env
      BY DEF Env
    <3>2. /\ envs' = [envs EXCEPT ![s] = [status |-> "PENDING", image |-> NoImage]]
          /\ created' = Append(created, s)
      BY <2>1 DEF GetOrCreateExact
    <3> QED
      BY <3>1, <3>2 DEF Typed, Rows
  <2>2. CASE envs[s].status # "ABSENT"
    BY <2>2 DEF GetOrCreateExact, Typed, Rows
  <2> QED
    BY <2>1, <2>2
<1>3. envs'[s].status \in Status
  BY <1>2 DEF Env, Absent, Status
<1> PICK st \in Status :
         st = envs'[s].status
  BY <1>3
<1>4. PICK q \in Tasks : /\ q = [task[t] EXCEPT !.env = s]
                        /\ q.env = s /\ q.key = s /\ q.spec = task[t].spec
  BY <1>1, EnvReplaced
<1>5. PICK r \in Tasks : /\ r = [q EXCEPT !.seen = st]
                        /\ r.env = q.env /\ r.key = q.key /\ r.spec = q.spec
  BY SeenReplaced
<1>6. task' = [task EXCEPT ![t] = r]
  <2>1. task' = [task EXCEPT ![t].env = s, ![t].seen = st]
    BY DEF GetOrCreateExact
  <2> QED
    BY <1>4, <1>5, <2>1 DEF Typed, Rows
<1>7. r.env = s /\ r.key = s /\ r.spec = task[t].spec
  BY <1>4, <1>5
<1>8. "bind_exact" \in Places \ {"idle"} /\ "bind_exact" \notin Building
      /\ Goto(t, "bind_exact") /\ UNCHANGED <<aliases, jobs>>
  BY DEF Places, Building, GetOrCreateExact
<1>9. /\ pc' \in [Callers -> Places] /\ task' \in [Callers -> Tasks \cup {NoTask}]
      /\ \A u \in Callers : Locals(u)'
      /\ Moves(t) /\ pc'[t] = "bind_exact" /\ task'[t] = r
  BY <1>6, <1>7, <1>8, AssignTyped
<1> QED
  BY <1>2, <1>7, <1>8, <1>9 DEF Typed, Rows

\* A binding is well typed.
LEMMA BindRows ==
    ASSUME Typed, NEW s \in Specs, NEW e \in Specs, aliases' = BindRequest(s, e)
    PROVE  /\ aliases' \in [Specs -> Specs \cup {NoSpec}]
           /\ aliases'[s] = IF aliases[s] = NoSpec THEN e ELSE aliases[s]
           /\ \A r \in Specs \ {s} : aliases'[r] = aliases[r]
BY DEF BindRequest, Typed, Rows

\* bind_request, for the environment that was just read or created.
LEMMA BindExactMoves ==
    ASSUME Typed, NEW t \in Callers, BindExact(t)
    PROVE  /\ Typed' /\ Moves(t)
           /\ task[t].key \in Specs /\ task[t].env \in Specs
           /\ pc'[t] = "idle" \/ (pc'[t] = "claim" /\ task'[t] = task[t])
<1>1. task[t].key \in Specs /\ task[t].env \in Specs
  BY DEF BindExact, Typed, Locals, Chosen, Tasks
<1>2. aliases' \in [Specs -> Specs \cup {NoSpec}]
  BY <1>1, BindRows DEF BindExact
<1>3. CASE End(t)
  BY <1>1, <1>2, <1>3, EndMoves DEF BindExact, Typed, Rows
<1>4. CASE Goto(t, "claim") /\ task' = task
  <2>1. "claim" \in Places \ {"idle"} /\ "claim" \notin Building /\ pc[t] # "idle"
    BY DEF Places, Building, BindExact
  <2>2. /\ pc' \in [Callers -> Places] /\ task' \in [Callers -> Tasks \cup {NoTask}]
        /\ \A u \in Callers : Locals(u)'
        /\ Moves(t) /\ pc'[t] = "claim"
    BY <1>1, <1>4, <2>1, GotoTyped
  <2> QED
    BY <1>1, <1>2, <1>4, <2>2 DEF BindExact, Typed, Rows
<1> QED
  BY <1>3, <1>4 DEF BindExact

\* reset_failed writes a well-typed row and goes on with its own spec.
LEMMA ResetFailedMoves ==
    ASSUME Typed, NEW t \in Callers, ResetFailed(t), envs[task[t].env].status = "FAILED"
    PROVE  /\ Typed' /\ Moves(t) /\ pc'[t] = "claim" /\ task[t].env \in Specs
           /\ task'[t].env = task[t].env /\ task'[t].spec = task[t].env
           /\ envs' = [envs EXCEPT ![task[t].env] = [status |-> "PENDING", image |-> NoImage]]
<1>1. task[t] \in Tasks /\ task[t].env \in Specs
  BY DEF Typed, Locals, ResetFailed, Chosen
<1> PICK e \in Specs : e = task[t].env
  BY <1>1
<1> PICK r \in Tasks : r = [task[t] EXCEPT !.spec = e] /\ r.env = e /\ r.spec = e
  BY <1>1, SpecReplaced
<1>2. task' = [task EXCEPT ![t] = r] /\ Goto(t, "claim")
      /\ envs' = [envs EXCEPT ![e] = [status |-> "PENDING", image |-> NoImage]]
  BY DEF ResetFailed
<1>3. [status |-> "PENDING", image |-> NoImage] \in Env
  BY DEF Env
<1>4. "claim" \in Places \ {"idle"} /\ "claim" \notin Building
  BY DEF Places, Building
<1>5. /\ pc' \in [Callers -> Places] /\ task' \in [Callers -> Tasks \cup {NoTask}]
      /\ \A u \in Callers : Locals(u)'
      /\ Moves(t) /\ pc'[t] = "claim" /\ task'[t] = r
  BY <1>2, <1>4, AssignTyped
<1> QED
  BY <1>2, <1>3, <1>5 DEF ResetFailed, Typed, Rows

\* claim_build, answered.
LEMMA ClaimBuildMoves ==
    ASSUME Typed, NEW t \in Callers, NEW j \in JobIds, ClaimBuild(t, j)
    PROVE  /\ Typed' /\ Moves(t) /\ pc'[t] = "build" /\ task[t].env \in Specs
           /\ task'[t].env = task[t].env /\ task'[t].spec = task[t].spec /\ task'[t].job = j
<1>1. task[t] \in Tasks /\ task[t].env \in Specs
  BY DEF Typed, Locals, ClaimBuild, Chosen
<1> PICK r \in Tasks : /\ r = [task[t] EXCEPT !.job = j]
                       /\ r.env = task[t].env /\ r.spec = task[t].spec /\ r.job = j
  BY <1>1, JobReplaced
<1>2. task' = [task EXCEPT ![t] = r] /\ Goto(t, "build") /\ UNCHANGED <<created, aliases>>
  BY DEF ClaimBuild
<1>3. envs' \in [Specs -> Env \cup {Absent}] /\ jobs' \in [JobIds -> Job \cup {NoRow}]
  BY <1>1, ClaimRows DEF ClaimBuild
<1>4. "build" \in Places \ {"idle"}
  BY DEF Places, Building
<1>5. /\ pc' \in [Callers -> Places] /\ task' \in [Callers -> Tasks \cup {NoTask}]
      /\ \A u \in Callers : Locals(u)'
      /\ Moves(t) /\ pc'[t] = "build" /\ task'[t] = r
  BY <1>1, <1>2, <1>4, AssignTyped
<1> QED
  BY <1>1, <1>2, <1>3, <1>5 DEF Typed, Rows

\* docker buildx build, with an image that holds the packages of the spec.
LEMMA BuildImageMoves ==
    ASSUME Typed, NEW t \in Callers, NEW salt \in Salts, BuildRuntimeImage(t, salt)
    PROVE  /\ Typed' /\ Moves(t) /\ pc'[t] = "mark_verifying"
           /\ task'[t].env = task[t].env /\ task'[t].spec = task[t].spec
           /\ task'[t].job = task[t].job
<1>1. task[t] \in Tasks /\ task[t].env \in Specs /\ task[t].job \in JobIds
  BY DEF Typed, Locals, BuildRuntimeImage, Chosen, Building
<1>2. [pkgs |-> PackagesOf[task[t].spec], salt |-> salt] \in Image
  BY <1>1, BuildAssumption DEF Tasks, Image
<1> PICK i \in Image : i = [pkgs |-> PackagesOf[task[t].spec], salt |-> salt]
  BY <1>2
<1> PICK r \in Tasks : /\ r = [task[t] EXCEPT !.image = i]
                       /\ r.env = task[t].env /\ r.spec = task[t].spec
                       /\ r.job = task[t].job /\ r.image = i
  BY <1>1, ImageReplaced
<1>3. task' = [task EXCEPT ![t] = r] /\ Goto(t, "mark_verifying")
      /\ UNCHANGED <<envs, created, aliases, jobs>>
  BY DEF BuildRuntimeImage
<1>4. "mark_verifying" \in Places \ {"idle"}
  BY DEF Places, Building
<1>5. /\ pc' \in [Callers -> Places] /\ task' \in [Callers -> Tasks \cup {NoTask}]
      /\ \A u \in Callers : Locals(u)'
      /\ Moves(t) /\ pc'[t] = "mark_verifying" /\ task'[t] = r
  BY <1>1, <1>3, <1>4, AssignTyped
<1> QED
  BY <1>3, <1>5 DEF Typed, Rows

\* The steps from one place of a build to another.
LEMMA BuildingMoves ==
    ASSUME Inv, NEW t \in Callers, pc[t] \in Building, NEW place \in Building, Goto(t, place),
           place \in {"mark_verifying", "verify", "mark_ready"} =>
               pc[t] \in {"mark_verifying", "verify", "mark_ready"},
           UNCHANGED <<created, aliases, task>>,
           envs' \in [Specs -> Env \cup {Absent}], jobs' \in [JobIds -> Job \cup {NoRow}]
    PROVE  Typed' /\ Moves(t) /\ pc'[t] = place
<1>1. place \in Places \ {"idle"} /\ pc[t] # "idle"
  BY DEF Places, Building
<1>2. /\ task[t].env \in Specs /\ task[t].job \in JobIds
      /\ place \in {"mark_verifying", "verify", "mark_ready"} => task[t].image \in Image
  BY OwnRows DEF Inv, Typed, Locals
<1>3. /\ pc' \in [Callers -> Places] /\ task' \in [Callers -> Tasks \cup {NoTask}]
      /\ \A u \in Callers : Locals(u)'
      /\ Moves(t) /\ pc'[t] = place
  BY <1>1, <1>2, GotoTyped DEF Inv
<1> QED
  BY <1>3 DEF Inv, Typed, Rows

-----------------------------------------------------------------------------
(* Ownership *)

\* A thread that does not move is the owner it was, if its rows are as they were.
LEMMA OthersOwn ==
    ASSUME Inv, NEW t \in Callers, Moves(t), NEW u \in Callers, u # t,
           pc[u] \in Building => /\ envs'[task[u].env] = envs[task[u].env]
                                 /\ jobs'[task[u].job] = jobs[task[u].job]
    PROVE  /\ pc'[u] = pc[u] /\ task'[u] = task[u]
           /\ Owner(u)'
<1>1. pc'[u] = pc[u] /\ task'[u] = task[u]
  BY DEF Moves, Inv, Typed, Rows
<1> QED
  BY <1>1 DEF Inv, Owned, Owner

\* A step that leaves the rows alone, and does not take a build up.
LEMMA QuietOwned ==
    ASSUME Inv, NEW t \in Callers, Moves(t), UNCHANGED <<envs, jobs>>,
           pc'[t] \in Building =>
               /\ pc[t] \in Building
               /\ task'[t].env = task[t].env /\ task'[t].job = task[t].job
               /\ pc'[t] \in {"build", "mark_verifying"} => pc[t] \in {"build", "mark_verifying"}
               /\ pc'[t] \in {"verify", "mark_ready"} => pc[t] \in {"verify", "mark_ready"}
               /\ pc[t] = "mark_failed" => pc'[t] = "mark_failed"
    PROVE  Owned'
<1>1. ASSUME NEW u \in Callers, u # t
      PROVE  pc'[u] = pc[u] /\ task'[u] = task[u] /\ Owner(u)'
  BY <1>1, OthersOwn
<1>2. Owner(t)'
  BY DEF Inv, Owned, Owner
<1>3. Alone'
  BY <1>1 DEF Inv, Owned, Alone
<1>4. Paired'
  BY DEF Inv, Owned, Paired, Open
<1> QED
  BY <1>1, <1>2, <1>3, <1>4 DEF Owned

\* get_or_create_exact and reset_failed make a row PENDING that nobody builds.
LEMMA PendingOwned ==
    ASSUME Inv, NEW t \in Callers, Moves(t), pc'[t] \notin Building, jobs' = jobs,
           NEW e \in Specs, envs[e].status \in {"ABSENT", "FAILED"},
           envs' = [envs EXCEPT ![e] = [status |-> "PENDING", image |-> NoImage]]
    PROVE  Owned'
<1>1. envs'[e].status = "PENDING" /\ \A d \in Specs \ {e} : envs'[d] = envs[d]
  BY DEF Inv, Typed, Rows
<1>2. ASSUME NEW u \in Callers, u # t
      PROVE  pc'[u] = pc[u] /\ task'[u] = task[u] /\ Owner(u)'
  <2>1. pc[u] \in Building => task[u].env \in Specs /\ task[u].env # e
    BY OwnRows DEF Inv, Owned, Owner
  <2> QED
    BY <1>1, <1>2, <2>1, OthersOwn
<1>3. Owner(t)'
  BY DEF Owner
<1>4. Alone'
  BY <1>2 DEF Inv, Owned, Alone
<1>5. Paired'
  <2>1. ASSUME NEW j \in JobIds, Open(j) PROVE jobs[j].env \in Specs \ {e}
    <3>1. jobs[j] \in Job
      BY <2>1 DEF Open, NoRow, Inv, Typed, Rows
    <3> QED
      BY <2>1, <3>1 DEF Job, Open, Inv, Owned, Paired
  <2> QED
    BY <1>1, <2>1 DEF Inv, Owned, Paired, Open
<1> QED
  BY <1>2, <1>3, <1>4, <1>5 DEF Owned

\* claim_build gives a PENDING environment to one thread, or to none when its answer is lost.
LEMMA ClaimOwned ==
    ASSUME Inv, NEW t \in Callers, Moves(t), NEW e \in Specs, NEW j \in JobIds, Claimed(e, j),
           pc'[t] \in Building => pc'[t] = "build" /\ task'[t].env = e /\ task'[t].job = j
    PROVE  Owned'
<1>1. /\ envs'[e].status = "BUILDING" /\ envs[e].status = "PENDING"
      /\ \A d \in Specs \ {e} : envs'[d] = envs[d]
      /\ jobs'[j].status = "BUILDING" /\ jobs'[j].env = e /\ jobs[j] = NoRow
      /\ \A k \in JobIds \ {j} : jobs'[k] = jobs[k]
  BY ClaimRows DEF Claimed, Inv
<1>2. ASSUME NEW u \in Callers, u # t
      PROVE  /\ pc'[u] = pc[u] /\ task'[u] = task[u] /\ Owner(u)'
             /\ pc[u] \in Building => task[u].env # e
  <2>1. pc[u] \in Building => /\ task[u].env \in Specs /\ task[u].env # e
                              /\ task[u].job \in JobIds /\ task[u].job # j
    <3> SUFFICES ASSUME pc[u] \in Building
                 PROVE  /\ task[u].env \in Specs /\ task[u].env # e
                        /\ task[u].job \in JobIds /\ task[u].job # j
      OBVIOUS
    <3>1. /\ task[u].env \in Specs /\ task[u].job \in JobIds
          /\ jobs[task[u].job] \in Job
      BY OwnRows
    <3>2. task[u].env # e
      BY <1>1 DEF Inv, Owned, Owner
    <3>3. task[u].job # j
      BY <1>1, <3>1 DEF Job, NoRow
    <3> QED
      BY <3>1, <3>2, <3>3
  <2> QED
    BY <1>1, <1>2, <2>1, OthersOwn
<1>3. Owner(t)'
  BY <1>1 DEF Owner
<1>4. Alone'
  BY <1>2 DEF Inv, Owned, Alone
<1>5. Paired'
  <2>1. ASSUME NEW k \in JobIds, Open(k) PROVE jobs[k].env \in Specs \ {e} /\ k # j
    <3>1. jobs[k] \in Job
      BY <2>1 DEF Open, NoRow, Inv, Typed, Rows
    <3>2. k # j
      BY <1>1, <2>1 DEF Open, NoRow
    <3> QED
      BY <1>1, <2>1, <3>1, <3>2 DEF Job, Open, Inv, Owned, Paired
  <2>2. \A k \in JobIds : Open(k)' => k = j \/ (Open(k) /\ jobs'[k] = jobs[k])
    BY <1>1 DEF Open
  <2>3. \A k \in JobIds : Open(k)' => envs'[jobs'[k].env].status = jobs'[k].status
    BY <1>1, <2>1, <2>2 DEF Inv, Owned, Paired
  <2>4. \A k, l \in JobIds : Open(k)' /\ Open(l)' /\ jobs'[k].env = jobs'[l].env => k = l
    BY <1>1, <2>1, <2>2 DEF Inv, Owned, Paired
  <2>5. \A d \in Specs : envs'[d].status \in {"BUILDING", "VERIFYING"} =>
            \E k \in JobIds : Open(k)' /\ jobs'[k].env = d
    <3>1. Open(j)' /\ jobs'[j].env = e
      BY <1>1 DEF Open
    <3>2. ASSUME NEW d \in Specs \ {e}, envs'[d].status \in {"BUILDING", "VERIFYING"}
          PROVE  \E k \in JobIds : Open(k)' /\ jobs'[k].env = d
      <4>1. PICK k \in JobIds : Open(k) /\ jobs[k].env = d
        BY <1>1, <3>2 DEF Inv, Owned, Paired
      <4> QED
        BY <1>1, <2>1, <4>1 DEF Open
    <3> QED
      BY <3>1, <3>2
  <2> QED
    BY <2>3, <2>4, <2>5 DEF Paired
<1> QED
  BY <1>2, <1>3, <1>4, <1>5 DEF Owned

\* A mark_ method of the owner leaves its environment and its job in one status, and nothing
\* else is touched, although it does not look at the status it overwrites.
LEMMA MarkOwned ==
    ASSUME Inv, NEW t \in Callers, Moves(t), pc[t] \in Building,
           NEW status \in {"BUILDING", "VERIFYING", "READY", "FAILED"},
           NEW image \in Image \cup {NoImage}, Mark(t, status, image),
           status \in {"BUILDING", "VERIFYING"} =>
               envs[task[t].env].status \in {"BUILDING", "VERIFYING"},
           pc'[t] \in Building =>
               /\ task'[t].env = task[t].env /\ task'[t].job = task[t].job
               /\ pc'[t] \in {"build", "mark_verifying"} => status = "BUILDING"
               /\ pc'[t] \in {"verify", "mark_ready"} => status = "VERIFYING"
               /\ status = "READY" => pc'[t] = "mark_failed" /\ "ready" \in BuildFaults
               /\ status # "FAILED"
    PROVE  Owned'
<1> PICK e \in Specs : e = task[t].env
  BY OwnRows
<1> PICK j \in JobIds : j = task[t].job
  BY OwnRows
<1>1. /\ envs'[e].status = status
      /\ \A d \in Specs \ {e} : envs'[d] = envs[d]
      /\ jobs'[j].status = status /\ jobs'[j].env = e
      /\ \A k \in JobIds \ {j} : jobs'[k] = jobs[k]
  BY MarkRows
<1>2. jobs[j].env = e /\ jobs[j].status = envs[e].status
  BY DEF Inv, Owned, Owner
<1>3. ASSUME NEW u \in Callers, u # t
      PROVE  /\ pc'[u] = pc[u] /\ task'[u] = task[u] /\ Owner(u)'
  <2>1. pc[u] \in Building => /\ task[u].env \in Specs /\ task[u].env # e
                              /\ task[u].job \in JobIds /\ task[u].job # j
    <3> SUFFICES ASSUME pc[u] \in Building
                 PROVE  /\ task[u].env \in Specs /\ task[u].env # e
                        /\ task[u].job \in JobIds /\ task[u].job # j
      OBVIOUS
    <3>1. /\ task[u].env \in Specs /\ task[u].job \in JobIds
          /\ jobs[task[u].job].env = task[u].env
      BY OwnRows DEF Inv, Owned, Owner
    <3>2. task[u].env # e
      BY <1>3 DEF Inv, Owned, Alone
    <3> QED
      BY <1>2, <3>1, <3>2
  <2> QED
    BY <1>1, <1>3, <2>1, OthersOwn
<1>4. Owner(t)'
  BY <1>1 DEF Owner
<1>5. Alone'
  BY <1>3 DEF Inv, Owned, Alone
<1>6. Paired'
  <2>1. ASSUME NEW k \in JobIds, Open(k), k # j PROVE jobs[k].env \in Specs \ {e}
    <3>1. jobs[k] \in Job
      BY <2>1 DEF Open, NoRow, Inv, Typed, Rows
    <3>2. jobs[k].env = e => Open(j)
      BY <1>2, <2>1 DEF Open, Inv, Owned, Paired
    <3> QED
      BY <1>2, <2>1, <3>1, <3>2 DEF Job, Inv, Owned, Paired
  <2>2. \A k \in JobIds : Open(k)' => k = j \/ (k # j /\ Open(k) /\ jobs'[k] = jobs[k])
    BY <1>1 DEF Open
  <2>3. \A k \in JobIds : Open(k)' => envs'[jobs'[k].env].status = jobs'[k].status
    BY <1>1, <2>1, <2>2 DEF Inv, Owned, Paired
  <2>4. \A k, l \in JobIds : Open(k)' /\ Open(l)' /\ jobs'[k].env = jobs'[l].env => k = l
    BY <1>1, <2>1, <2>2 DEF Inv, Owned, Paired
  <2>5. \A d \in Specs : envs'[d].status \in {"BUILDING", "VERIFYING"} =>
            \E k \in JobIds : Open(k)' /\ jobs'[k].env = d
    <3>1. status \in {"BUILDING", "VERIFYING"} => Open(j)' /\ jobs'[j].env = e
      BY <1>1 DEF Open
    <3>2. ASSUME NEW d \in Specs \ {e}, envs'[d].status \in {"BUILDING", "VERIFYING"}
          PROVE  \E k \in JobIds : Open(k)' /\ jobs'[k].env = d
      <4>1. PICK k \in JobIds : Open(k) /\ jobs[k].env = d
        BY <1>1, <3>2 DEF Inv, Owned, Paired
      <4> QED
        BY <1>1, <1>2, <4>1 DEF Open
    <3> QED
      BY <1>1, <3>1, <3>2
  <2> QED
    BY <2>3, <2>4, <2>5 DEF Paired
<1> QED
  BY <1>3, <1>4, <1>5, <1>6 DEF Owned

-----------------------------------------------------------------------------
(* Every step keeps types and ownership *)

\* resolve, up to a claim.
LEMMA ResolvingInv ==
    ASSUME Inv, NEW t \in Callers,
           \/ \E s \in Specs : Resolve(t, s) \/ Retry(t, s)
           \/ LookupMisses(t) \/ LookupPending(t) \/ LookupAnswers(t)
           \/ FindSmallestSuperset(t) \/ BindSuperset(t) \/ GetOrCreateExact(t) \/ BindExact(t)
           \/ ResetFailed(t)
    PROVE  Inv'
<1> USE DEF Inv
<1>1. ASSUME NEW s \in Specs, Resolve(t, s) PROVE Inv'
  <2>1. UNCHANGED <<envs, jobs>>
    BY <1>1 DEF Resolve
  <2> QED
    BY <1>1, <2>1, ResolveMoves, QuietOwned DEF Building
<1>2. ASSUME NEW s \in Specs, Retry(t, s) PROVE Inv'
  <2>1. UNCHANGED <<envs, jobs>>
    BY <1>2 DEF Retry
  <2> QED
    BY <1>2, <2>1, RetryMoves, QuietOwned DEF Building
<1>3. CASE LookupMisses(t)
  <2>1. UNCHANGED <<envs, jobs>>
    BY <1>3 DEF LookupMisses
  <2> QED
    BY <1>3, <2>1, LookupMissesMoves, QuietOwned DEF Building
<1>4. CASE LookupPending(t)
  <2>1. task[t].key \in Specs /\ pc[t] # "idle"
    BY <1>4 DEF LookupPending, Typed, Locals, Tasks
  <2>2. PICK e \in Specs : e = aliases[task[t].key]
    BY <1>4, <2>1 DEF LookupPending, Typed, Rows
  <2>3. ChoosesEnv(t, e) /\ Goto(t, "claim") /\ UNCHANGED <<envs, created, aliases, jobs>>
    BY <1>4, <2>2 DEF LookupPending, ChoosesEnv
  <2>4. Typed' /\ Moves(t) /\ pc'[t] = "claim"
    BY <2>1, <2>3, EnvAssigned
  <2> QED
    BY <2>3, <2>4, QuietOwned DEF Building
<1>5. CASE LookupAnswers(t)
  <2>1. End(t) /\ UNCHANGED <<envs, created, aliases, jobs>>
    BY <1>5 DEF LookupAnswers
  <2>2. Typed' /\ Moves(t) /\ pc'[t] = "idle"
    BY <2>1, EndMoves DEF Typed, Rows
  <2> QED
    BY <2>1, <2>2, QuietOwned DEF Building
<1>6. CASE FindSmallestSuperset(t)
  <2>1. UNCHANGED <<envs, created, aliases, jobs>> /\ pc[t] = "superset"
    BY <1>6 DEF FindSmallestSuperset
  <2>2. ASSUME Goto(t, "exact"), task' = task PROVE Inv'
    <3>1. "exact" \in Places \ {"idle"} /\ "exact" \notin Chosen \cup Building
      BY DEF Places, Chosen, Building
    <3>2. /\ pc' \in [Callers -> Places] /\ task' \in [Callers -> Tasks \cup {NoTask}]
          /\ \A u \in Callers : Locals(u)'
          /\ Moves(t) /\ pc'[t] = "exact"
      BY <2>1, <2>2, <3>1, GotoTyped
    <3>3. Typed'
      BY <2>1, <3>2 DEF Typed, Rows
    <3> QED
      BY <2>1, <3>2, <3>3, QuietOwned DEF Building
  <2>3. ASSUME NEW e \in Specs, ChoosesEnv(t, e), Goto(t, "bind_superset") PROVE Inv'
    <3>1. Typed' /\ Moves(t) /\ pc'[t] = "bind_superset"
      BY <2>1, <2>3, EnvAssigned
    <3> QED
      BY <2>1, <3>1, QuietOwned DEF Building
  <2>4. \/ Goto(t, "exact") /\ task' = task
        \/ \E e \in Specs : ChoosesEnv(t, e) /\ Goto(t, "bind_superset")
    BY <1>6 DEF FindSmallestSuperset, ChoosesEnv, Supersets
  <2> QED
    BY <2>2, <2>3, <2>4
<1>7. CASE BindSuperset(t)
  <2>1. task[t].key \in Specs /\ task[t].env \in Specs
    BY <1>7 DEF BindSuperset, Typed, Locals, Chosen, Tasks
  <2>2. /\ End(t) /\ UNCHANGED <<envs, created, jobs>>
        /\ aliases' = BindRequest(task[t].key, task[t].env)
    BY <1>7 DEF BindSuperset
  <2>3. Typed' /\ Moves(t) /\ pc'[t] = "idle"
    BY <2>1, <2>2, BindRows, EndMoves DEF Typed, Rows
  <2> QED
    BY <2>2, <2>3, QuietOwned DEF Building
<1>8. CASE GetOrCreateExact(t)
  <2>1. Typed' /\ Moves(t) /\ pc'[t] = "bind_exact" /\ task[t].key \in Specs
    BY <1>8, GetOrCreateExactMoves
  <2>2. jobs' = jobs
    BY <1>8 DEF GetOrCreateExact
  <2>3. pc'[t] \notin Building
    BY <2>1 DEF Building
  <2>4. CASE envs[task[t].key].status = "ABSENT"
    <3>1. envs' = [envs EXCEPT ![task[t].key] = [status |-> "PENDING", image |-> NoImage]]
      BY <1>8, <2>4 DEF GetOrCreateExact
    <3> QED
      BY <2>1, <2>2, <2>3, <2>4, <3>1, PendingOwned
  <2>5. CASE envs[task[t].key].status # "ABSENT"
    <3>1. envs' = envs
      BY <1>8, <2>5 DEF GetOrCreateExact
    <3> QED
      BY <2>1, <2>2, <2>3, <3>1, QuietOwned
  <2> QED
    BY <2>4, <2>5
<1>9. CASE BindExact(t)
  <2>1. Typed' /\ Moves(t) /\ pc'[t] \notin Building
    BY <1>9, BindExactMoves DEF Building
  <2>2. UNCHANGED <<envs, jobs>>
    BY <1>9 DEF BindExact
  <2> QED
    BY <2>1, <2>2, QuietOwned
<1>10. CASE ResetFailed(t)
  <2>1. CASE envs[task[t].env].status = "FAILED"
    <3>1. /\ Typed' /\ Moves(t) /\ pc'[t] = "claim" /\ task[t].env \in Specs
          /\ envs' = [envs EXCEPT ![task[t].env] = [status |-> "PENDING", image |-> NoImage]]
      BY <1>10, <2>1, ResetFailedMoves
    <3>2. jobs' = jobs /\ pc'[t] \notin Building
      BY <1>10, <3>1 DEF ResetFailed, Building
    <3> QED
      BY <2>1, <3>1, <3>2, PendingOwned
  <2>2. CASE envs[task[t].env].status # "FAILED"
    <3>1. End(t) /\ UNCHANGED <<envs, created, aliases, jobs>>
      BY <1>10, <2>2 DEF ResetFailed
    <3>2. Typed' /\ Moves(t) /\ pc'[t] = "idle"
      BY <3>1, EndMoves DEF Typed, Rows
    <3> QED
      BY <3>1, <3>2, QuietOwned DEF Building
  <2> QED
    BY <2>1, <2>2
<1> QED
  BY <1>1, <1>2, <1>3, <1>4, <1>5, <1>6, <1>7, <1>8, <1>9, <1>10

\* _build.
LEMMA BuildingInv ==
    ASSUME Inv, NEW t \in Callers,
           \/ (\E j \in JobIds : ClaimBuild(t, j) \/ ClaimLost(t, j)) \/ ClaimTaken(t)
           \/ (\E salt \in Salts : BuildRuntimeImage(t, salt)) \/ VerifyRuntimeImage(t)
           \/ CommandFails(t) \/ MarkVerifying(t) \/ MarkVerifyingRaises(t)
           \/ MarkReady(t) \/ MarkReadyRaises(t) \/ MarkFailed(t) \/ MarkFailedRaises(t)
    PROVE  Inv'
<1>1. ASSUME NEW j \in JobIds, ClaimBuild(t, j) PROVE Inv'
  <2>1. /\ Typed' /\ Moves(t) /\ pc'[t] = "build" /\ task[t].env \in Specs
        /\ task'[t].env = task[t].env /\ task'[t].job = j
    BY <1>1, ClaimBuildMoves DEF Inv
  <2>2. Claimed(task[t].env, j)
    BY <1>1 DEF ClaimBuild
  <2> QED
    BY <2>1, <2>2, ClaimOwned DEF Inv
<1>2. ASSUME NEW j \in JobIds, ClaimLost(t, j) PROVE Inv'
  <2>1. task[t].env \in Specs
    BY <1>2 DEF ClaimLost, Inv, Typed, Locals, Chosen
  <2>2. Claimed(task[t].env, j) /\ End(t) /\ UNCHANGED <<created, aliases>>
    BY <1>2 DEF ClaimLost
  <2>3. Typed' /\ Moves(t) /\ pc'[t] = "idle"
    BY <2>1, <2>2, ClaimRows, EndMoves DEF Inv, Typed, Rows
  <2> QED
    BY <2>1, <2>2, <2>3, ClaimOwned DEF Inv, Building
<1>3. CASE ClaimTaken(t) \/ MarkFailedRaises(t)
  <2>1. End(t) /\ UNCHANGED <<envs, created, aliases, jobs>>
    BY <1>3 DEF ClaimTaken, MarkFailedRaises
  <2>2. Typed' /\ Moves(t) /\ pc'[t] = "idle"
    BY <2>1, EndMoves DEF Inv, Typed, Rows
  <2> QED
    BY <2>1, <2>2, QuietOwned DEF Inv, Building
<1>4. ASSUME NEW salt \in Salts, BuildRuntimeImage(t, salt) PROVE Inv'
  <2>1. /\ Typed' /\ Moves(t) /\ pc'[t] = "mark_verifying" /\ task'[t].env = task[t].env
        /\ task'[t].job = task[t].job
    BY <1>4, BuildImageMoves DEF Inv
  <2>2. pc[t] = "build" /\ UNCHANGED <<envs, jobs>>
    BY <1>4 DEF BuildRuntimeImage
  <2> QED
    BY <2>1, <2>2, QuietOwned DEF Inv, Building
<1>5. CASE VerifyRuntimeImage(t)
  <2>1. /\ pc[t] = "verify" /\ Goto(t, "mark_ready")
        /\ UNCHANGED <<envs, created, aliases, jobs, task>>
    BY <1>5 DEF VerifyRuntimeImage
  <2>2. Typed' /\ Moves(t) /\ pc'[t] = "mark_ready"
    BY <2>1, BuildingMoves DEF Inv, Typed, Rows, Building
  <2> QED
    BY <2>1, <2>2, QuietOwned DEF Inv, Building
<1>6. CASE CommandFails(t)
  <2>1. /\ pc[t] \in {"build", "verify"} /\ Goto(t, "mark_failed")
        /\ UNCHANGED <<envs, created, aliases, jobs, task>>
    BY <1>6 DEF CommandFails
  <2>2. Typed' /\ Moves(t) /\ pc'[t] = "mark_failed"
    BY <2>1, BuildingMoves DEF Inv, Typed, Rows, Building
  <2> QED
    BY <2>1, <2>2, QuietOwned DEF Inv, Building
<1>7. ASSUME NEW place \in {"verify", "mark_failed"}, pc[t] = "mark_verifying", Goto(t, place),
             Mark(t, "VERIFYING", envs[task[t].env].image), UNCHANGED <<created, aliases, task>>
      PROVE  Inv'
  <2>1. pc[t] \in Building /\ place \in Building
    BY <1>7 DEF Building
  <2>2. /\ envs[task[t].env].image \in Image \cup {NoImage}
        /\ envs[task[t].env].status = "BUILDING"
    BY <1>7, <2>1, OwnRows DEF Env, Inv, Owned, Owner
  <2>3. envs' \in [Specs -> Env \cup {Absent}] /\ jobs' \in [JobIds -> Job \cup {NoRow}]
    BY <1>7, <2>1, <2>2, MarkRows
  <2>4. Typed' /\ Moves(t) /\ pc'[t] = place
    BY <1>7, <2>1, <2>3, BuildingMoves
  <2> QED
    BY <1>7, <2>1, <2>2, <2>4, MarkOwned DEF Inv
<1>8. CASE MarkVerifying(t)
  BY <1>7, <1>8 DEF MarkVerifying
<1>9. ASSUME pc[t] \in {"mark_verifying", "mark_ready"}, Goto(t, "mark_failed"),
             UNCHANGED <<envs, created, aliases, jobs, task>>
      PROVE  Inv'
  <2>1. Typed' /\ Moves(t) /\ pc'[t] = "mark_failed"
    BY <1>9, BuildingMoves DEF Inv, Typed, Rows, Building
  <2> QED
    BY <1>9, <2>1, QuietOwned DEF Inv, Building
<1>10. CASE MarkVerifyingRaises(t)
  BY <1>7, <1>9, <1>10 DEF MarkVerifyingRaises
<1>11. CASE MarkReady(t)
  <2>1. /\ pc[t] \in Building /\ End(t) /\ UNCHANGED <<created, aliases>>
        /\ Mark(t, "READY", task[t].image)
    BY <1>11 DEF MarkReady, Building
  <2>2. task[t].image \in Image \cup {NoImage}
    BY <1>11 DEF MarkReady, Inv, Typed, Locals
  <2>3. envs' \in [Specs -> Env \cup {Absent}] /\ jobs' \in [JobIds -> Job \cup {NoRow}]
    BY <2>1, <2>2, MarkRows
  <2>4. Typed' /\ Moves(t) /\ pc'[t] = "idle"
    BY <2>1, <2>3, EndMoves DEF Inv, Typed, Rows
  <2>5. pc'[t] \notin Building
    BY <2>4 DEF Building
  <2> QED
    BY <2>1, <2>2, <2>4, <2>5, MarkOwned DEF Inv
<1>12. CASE MarkReadyRaises(t)
  <2>1. CASE UNCHANGED <<envs, jobs>>
    BY <1>9, <1>12, <2>1 DEF MarkReadyRaises
  <2>2. CASE "ready" \in BuildFaults /\ Mark(t, "READY", task[t].image)
    <3>1. /\ pc[t] \in Building /\ Goto(t, "mark_failed") /\ "mark_failed" \in Building
          /\ UNCHANGED <<created, aliases, task>>
      BY <1>12 DEF MarkReadyRaises, Building
    <3>2. task[t].image \in Image \cup {NoImage}
      BY <1>12 DEF MarkReadyRaises, Inv, Typed, Locals
    <3>3. envs' \in [Specs -> Env \cup {Absent}] /\ jobs' \in [JobIds -> Job \cup {NoRow}]
      BY <2>2, <3>1, <3>2, MarkRows
    <3>4. Typed' /\ Moves(t) /\ pc'[t] = "mark_failed"
      BY <3>1, <3>3, BuildingMoves
    <3> QED
      BY <2>2, <3>1, <3>2, <3>4, MarkOwned DEF Inv
  <2> QED
    BY <1>12, <2>1, <2>2 DEF MarkReadyRaises
<1>13. CASE MarkFailed(t)
  <2>1. /\ pc[t] \in Building /\ End(t) /\ UNCHANGED <<created, aliases>>
        /\ Mark(t, "FAILED", envs[task[t].env].image)
    BY <1>13 DEF MarkFailed, Building
  <2>2. envs[task[t].env].image \in Image \cup {NoImage}
    BY <2>1, OwnRows DEF Env
  <2>3. envs' \in [Specs -> Env \cup {Absent}] /\ jobs' \in [JobIds -> Job \cup {NoRow}]
    BY <2>1, <2>2, MarkRows
  <2>4. Typed' /\ Moves(t) /\ pc'[t] = "idle"
    BY <2>1, <2>3, EndMoves DEF Inv, Typed, Rows
  <2>5. pc'[t] \notin Building
    BY <2>4 DEF Building
  <2> QED
    BY <2>1, <2>2, <2>4, <2>5, MarkOwned DEF Inv
<1> QED
  BY <1>1, <1>2, <1>3, <1>4, <1>5, <1>6, <1>8, <1>10, <1>11, <1>12, <1>13

\* Every thread alone, a crash of all of them, and nothing.
LEMMA NextInv ==
    ASSUME Inv, [Next]_buildVars
    PROVE  Inv'
<1>1. ASSUME NEW t \in Callers, NEW s \in Specs, Resolve(t, s) \/ Retry(t, s) PROVE Inv'
  BY <1>1, ResolvingInv
<1>2. ASSUME NEW t \in Callers, Step(t) PROVE Inv'
  BY <1>2, ResolvingInv, BuildingInv DEF Step
<1>3. CASE Crash
  <2>1. /\ \A t \in Callers : pc'[t] = "idle" /\ task'[t] = NoTask
        /\ pc' \in [Callers -> Places] /\ task' \in [Callers -> Tasks \cup {NoTask}]
        /\ UNCHANGED <<envs, created, aliases, jobs>>
    BY <1>3 DEF Crash, Places
  <2>2. Typed'
    BY <2>1 DEF Inv, Typed, Rows, Locals, Chosen, Building
  <2>3. Owned'
    BY <2>1 DEF Inv, Owned, Owner, Alone, Paired, Open, Building
  <2> QED
    BY <2>2, <2>3 DEF Inv
<1>4. CASE UNCHANGED buildVars
  BY <1>4 DEF buildVars, Inv, Typed, Rows, Locals, Owned, Owner, Alone, Paired, Open
<1> QED
  BY <1>1, <1>2, <1>3, <1>4 DEF Next

\* Inv holds in every state, whatever fails.
LEMMA Inductive == Spec => []Inv
<1>1. Init => Inv
  <2> SUFFICES ASSUME Init PROVE Inv
    OBVIOUS
  <2>1. Typed
    BY DEF Init, Typed, Rows, Locals, Places, Chosen, Building
  <2>2. Owned
    BY DEF Init, Owned, Owner, Alone, Paired, Open, Building, Absent, NoRow
  <2> QED
    BY <2>1, <2>2 DEF Inv
<1> QED
  BY <1>1, NextInv, PTL DEF Spec

\* The tables and the locals of every request stay well typed, whatever fails; in particular
\* a thread that marks an environment has a job, and one that marks it READY has an image.
THEOREM TypeCorrect == Spec => []TypeOK
<1>1. Inv => TypeOK
  BY DEF Inv, Typed, Rows, Locals, TypeOK, Chosen, Building, Tasks
<1> QED
  BY <1>1, Inductive, PTL

\* For any number of requests, processes that die and answers that are lost: the environments
\* under construction and the open jobs correspond one to one.
THEOREM JobsAlwaysInStep == Spec => []JobsInStep
<1>1. Inv => JobsInStep
  <2> SUFFICES ASSUME Inv, NEW e \in Specs
               PROVE  IF envs[e].status \in {"BUILDING", "VERIFYING"}
                      THEN \E j \in JobIds : OpenJobs(e) = {j} /\ jobs[j].status = envs[e].status
                      ELSE OpenJobs(e) = {}
    BY DEF JobsInStep
  <2>1. CASE envs[e].status \in {"BUILDING", "VERIFYING"}
    <3>1. PICK j \in JobIds : Open(j) /\ jobs[j].env = e
      BY <2>1 DEF Inv, Owned, Paired
    <3>2. OpenJobs(e) = {j}
      BY <3>1 DEF OpenJobs, Open, Inv, Owned, Paired
    <3>3. jobs[j].status = envs[e].status
      BY <3>1 DEF Inv, Owned, Paired
    <3> QED
      BY <2>1, <3>2, <3>3
  <2>2. CASE envs[e].status \notin {"BUILDING", "VERIFYING"}
    <3>1. OpenJobs(e) = {}
      BY <2>2 DEF OpenJobs, Open, Inv, Owned, Paired
    <3> QED
      BY <2>2, <3>1
  <2> QED
    BY <2>1, <2>2
<1> QED
  BY <1>1, Inductive, PTL

-----------------------------------------------------------------------------
(* What requests are served with, while mark_ready is answered *)

\* A READY environment and a binding are final.
Grows ==
    /\ \A e \in Specs : /\ envs[e].status # "ABSENT" => envs'[e].status # "ABSENT"
                        /\ envs[e].status = "READY" => envs'[e] = envs[e]
    /\ \A s \in Specs : aliases[s] # NoSpec => aliases'[s] = aliases[s]

\* An environment that may answer for a lock may do so ever after.
LEMMA FitsKept ==
    ASSUME Grows, NEW s \in Specs, NEW e \in Specs, Fits(s, e)
    PROVE  Fits(s, e)'
BY DEF Grows, Fits

\* The purpose of a thread that does not move stands.
LEMMA OthersServed ==
    ASSUME Inv, Served, NEW t \in Callers, Moves(t), Grows, NEW u \in Callers, u # t
    PROVE  Purpose(u)'
<1>1. pc'[u] = pc[u] /\ task'[u] = task[u]
  BY DEF Moves, Inv, Typed, Rows
<1>2. pc[u] \in {"bind_superset", "bind_exact"} => task[u].key \in Specs /\ task[u].env \in Specs
  BY DEF Inv, Typed, Locals, Chosen, Tasks
<1>3. pc[u] \in {"bind_superset", "bind_exact"} => Fits(task[u].key, task[u].env)'
  <2> SUFFICES ASSUME pc[u] \in {"bind_superset", "bind_exact"}
               PROVE  Fits(task[u].key, task[u].env)'
    OBVIOUS
  <2> PICK s \in Specs, e \in Specs : s = task[u].key /\ e = task[u].env
    BY <1>2
  <2>1. Fits(s, e)
    BY DEF Served, Purpose
  <2>2. Fits(s, e)'
    BY <2>1, FitsKept
  <2> QED
    BY <1>1, <2>2
<1> QED
  BY <1>1, <1>3 DEF Served, Purpose

\* Bindings that were there stand.
LEMMA BoundKept ==
    ASSUME Inv, Served, Grows, NEW s \in Specs, aliases[s] # NoSpec
    PROVE  Fits(s, aliases[s])'
<1> PICK e \in Specs : e = aliases[s]
  BY DEF Inv, Typed, Rows
<1>1. Fits(s, e) /\ aliases'[s] = e
  BY DEF Served, Bound, Grows
<1>2. Fits(s, e)'
  BY <1>1, FitsKept
<1> QED
  BY <1>1, <1>2

\* A step that changes no environment and no binding.
LEMMA QuietServed ==
    ASSUME Inv, Served, NEW t \in Callers, Moves(t), UNCHANGED <<envs, aliases>>, Purpose(t)'
    PROVE  Served' /\ Grows
<1>1. Grows
  BY DEF Grows
<1>2. \A u \in Callers : Purpose(u)'
  BY <1>1, OthersServed
<1>3. Filled' /\ Distinct'
  BY DEF Served, Filled, Distinct
<1>4. Bound'
  BY <1>1, BoundKept DEF Bound
<1> QED
  BY <1>1, <1>2, <1>3, <1>4 DEF Served

\* bind_request, of an environment that may answer; an earlier binding wins.
LEMMA BindServed ==
    ASSUME Inv, Served, NEW t \in Callers, Moves(t), envs' = envs, Purpose(t)',
           NEW s \in Specs, NEW e \in Specs, Fits(s, e), aliases' = BindRequest(s, e)
    PROVE  Served' /\ Grows
<1>1. /\ aliases'[s] = IF aliases[s] = NoSpec THEN e ELSE aliases[s]
      /\ \A r \in Specs \ {s} : aliases'[r] = aliases[r]
  BY BindRows DEF Inv
<1>2. Grows
  BY <1>1 DEF Grows
<1>3. \A u \in Callers : Purpose(u)'
  BY <1>2, OthersServed
<1>4. Filled' /\ Distinct'
  BY DEF Served, Filled, Distinct
<1>5. ASSUME NEW r \in Specs, aliases'[r] # NoSpec PROVE Fits(r, aliases[r])'
  <2>1. CASE aliases[r] # NoSpec
    BY <1>2, <2>1, BoundKept
  <2>2. CASE aliases[r] = NoSpec
    <3>1. r = s /\ aliases'[r] = e
      BY <1>1, <1>5, <2>2
    <3>2. Fits(s, e)'
      BY <1>2, FitsKept
    <3> QED
      BY <3>1, <3>2
  <2> QED
    BY <2>1, <2>2
<1> QED
  BY <1>2, <1>3, <1>4, <1>5 DEF Served, Bound

\* A row that is not READY is rewritten.
LEMMA RowServed ==
    ASSUME Inv, Served, NEW t \in Callers, Moves(t), aliases' = aliases, Purpose(t)',
           NEW e \in Specs, envs[e].status # "READY", envs'[e].status # "ABSENT",
           \A d \in Specs \ {e} : envs'[d] = envs[d],
           envs'[e].status = "READY" =>
               envs'[e].image \in Image /\ PackagesOf[e] \subseteq envs'[e].image.pkgs,
           \/ envs'[e].image \in {NoImage, envs[e].image}
           \/ \A d \in Specs \ {e} : envs[d].image # envs'[e].image
    PROVE  Served' /\ Grows
<1>1. Grows
  BY DEF Grows
<1>2. \A u \in Callers : Purpose(u)'
  BY <1>1, OthersServed
<1>3. Filled'
  BY DEF Served, Filled
<1>4. Distinct'
  BY DEF Served, Distinct
<1>5. Bound'
  BY <1>1, BoundKept DEF Bound
<1> QED
  BY <1>1, <1>2, <1>3, <1>4, <1>5 DEF Served

\* A request that has ended wants nothing.
LEMMA IdlePurpose ==
    ASSUME NEW t \in Callers, pc'[t] = "idle"
    PROVE  Purpose(t)'
BY DEF Purpose, Building

\* resolve and retry, up to a claim.
LEMMA ResolvingServed ==
    ASSUME Inv, Served, NEW t \in Callers,
           \/ \E s \in Specs : Resolve(t, s) \/ Retry(t, s)
           \/ LookupMisses(t) \/ LookupPending(t) \/ LookupAnswers(t)
           \/ FindSmallestSuperset(t) \/ BindSuperset(t) \/ GetOrCreateExact(t) \/ BindExact(t)
           \/ ResetFailed(t)
    PROVE  Served' /\ Grows
<1>1. ASSUME NEW s \in Specs, Resolve(t, s) PROVE Served' /\ Grows
  <2>1. UNCHANGED <<envs, aliases>>
    BY <1>1 DEF Resolve
  <2>2. Moves(t) /\ pc'[t] = "lookup" /\ task'[t].key = s /\ task'[t].spec = s
    BY <1>1, ResolveMoves DEF Inv
  <2>3. Purpose(t)'
    BY <2>2 DEF Purpose, Building
  <2> QED
    BY <2>1, <2>2, <2>3, QuietServed
<1>2. ASSUME NEW s \in Specs, Retry(t, s) PROVE Served' /\ Grows
  <2>1. UNCHANGED <<envs, aliases>> /\ aliases[s] # NoSpec
        /\ envs[aliases[s]].status = "FAILED"
    BY <1>2 DEF Retry
  <2>2. /\ Moves(t) /\ pc'[t] = "reset" /\ task'[t].spec = s /\ task'[t].env = aliases[s]
    BY <1>2, RetryMoves DEF Inv
  <2>3. aliases[s] = s
    BY <2>1 DEF Served, Bound, Fits
  <2>4. Purpose(t)'
    BY <2>2, <2>3 DEF Purpose
  <2> QED
    BY <2>1, <2>2, <2>4, QuietServed
<1>3. CASE LookupMisses(t)
  <2>1. UNCHANGED <<envs, aliases>> /\ pc[t] = "lookup"
    BY <1>3 DEF LookupMisses
  <2>2. Moves(t) /\ pc'[t] \in {"superset", "exact"} /\ task'[t] = task[t]
    BY <1>3, LookupMissesMoves DEF Inv
  <2>3. task[t].spec = task[t].key
    BY <2>1 DEF Served, Purpose
  <2>4. Purpose(t)'
    BY <2>2, <2>3 DEF Purpose, Building
  <2> QED
    BY <2>1, <2>2, <2>4, QuietServed
<1>4. CASE LookupPending(t)
  <2>1. task[t].key \in Specs /\ pc[t] = "lookup"
    BY <1>4 DEF LookupPending, Inv, Typed, Locals, Tasks
  <2>2. PICK e \in Specs : e = aliases[task[t].key]
    BY <1>4, <2>1 DEF LookupPending, Inv, Typed, Rows
  <2>3. /\ ChoosesEnv(t, e) /\ Goto(t, "claim") /\ UNCHANGED <<envs, created, aliases, jobs>>
        /\ envs[e].status = "PENDING" /\ e # NoSpec
    BY <1>4, <2>2 DEF LookupPending, ChoosesEnv
  <2>4. Moves(t) /\ pc'[t] = "claim" /\ task'[t].env = e /\ task'[t].spec = task[t].spec
    BY <2>1, <2>3, EnvAssigned DEF Inv
  <2>5. task[t].spec = task[t].key /\ e = task[t].key
    BY <2>1, <2>2, <2>3 DEF Served, Purpose, Bound, Fits
  <2>6. Purpose(t)'
    BY <2>4, <2>5 DEF Purpose
  <2> QED
    BY <2>3, <2>4, <2>6, QuietServed
<1>5. ASSUME End(t), UNCHANGED <<envs, aliases>> PROVE Served' /\ Grows
  <2>1. Moves(t) /\ pc'[t] = "idle"
    BY <1>5, EndTyped DEF Inv
  <2> QED
    BY <1>5, <2>1, IdlePurpose, QuietServed
<1>6. CASE LookupAnswers(t)
  BY <1>5, <1>6 DEF LookupAnswers
<1>7. CASE FindSmallestSuperset(t)
  <2>1. UNCHANGED <<envs, created, aliases, jobs>> /\ pc[t] = "superset"
    BY <1>7 DEF FindSmallestSuperset
  <2>2. task[t].spec = task[t].key
    BY <2>1 DEF Served, Purpose
  <2>3. ASSUME Goto(t, "exact"), task' = task PROVE Served' /\ Grows
    <3>1. Moves(t) /\ pc'[t] = "exact" /\ task'[t] = task[t]
      BY <2>3 DEF Goto, Moves, Inv, Typed, Rows
    <3>2. Purpose(t)'
      BY <2>2, <3>1 DEF Purpose, Building
    <3> QED
      BY <2>1, <3>1, <3>2, QuietServed
  <2>4. ASSUME NEW e \in Supersets(task[t].key), ChoosesEnv(t, e), Goto(t, "bind_superset")
        PROVE  Served' /\ Grows
    <3>1. /\ e \in Specs /\ envs[e].status = "READY" /\ PlatformOf[e] = PlatformOf[task[t].key]
          /\ PackagesOf[task[t].key] \subseteq PackagesOf[e]
      BY DEF Supersets
    <3>2. /\ Moves(t) /\ pc'[t] = "bind_superset"
          /\ task'[t].env = e /\ task'[t].key = task[t].key /\ task'[t].spec = task[t].spec
      BY <2>1, <2>4, <3>1, EnvAssigned DEF Inv
    <3>3. Purpose(t)'
      BY <2>1, <2>2, <3>1, <3>2 DEF Purpose, Fits, Building
    <3> QED
      BY <2>1, <3>2, <3>3, QuietServed
  <2>5. \/ Goto(t, "exact") /\ task' = task
        \/ \E e \in Supersets(task[t].key) : ChoosesEnv(t, e) /\ Goto(t, "bind_superset")
    BY <1>7 DEF FindSmallestSuperset, ChoosesEnv
  <2> QED
    BY <2>3, <2>4, <2>5
<1>8. CASE BindSuperset(t)
  <2>1. task[t].key \in Specs /\ task[t].env \in Specs
    BY <1>8 DEF BindSuperset, Inv, Typed, Locals, Chosen, Tasks
  <2>2. /\ End(t) /\ envs' = envs /\ Fits(task[t].key, task[t].env)
        /\ aliases' = BindRequest(task[t].key, task[t].env)
    BY <1>8 DEF BindSuperset, Served, Purpose
  <2>3. Moves(t) /\ pc'[t] = "idle"
    BY <2>2, EndTyped DEF Inv
  <2> QED
    BY <2>1, <2>2, <2>3, IdlePurpose, BindServed
<1>9. CASE GetOrCreateExact(t)
  <2>1. /\ Moves(t) /\ pc'[t] = "bind_exact" /\ task[t].key \in Specs
        /\ task'[t].env = task[t].key /\ task'[t].key = task[t].key
        /\ task'[t].spec = task[t].spec
    BY <1>9, GetOrCreateExactMoves DEF Inv
  <2> PICK s \in Specs : s = task[t].key
    BY <2>1
  <2>2. aliases' = aliases /\ task[t].spec = s
    BY <1>9 DEF GetOrCreateExact, Served, Purpose
  <2>3. CASE envs[s].status = "ABSENT"
    <3>1. envs' = [envs EXCEPT ![s] = [status |-> "PENDING", image |-> NoImage]]
      BY <1>9, <2>3 DEF GetOrCreateExact
    <3>2. /\ envs'[s].status = "PENDING" /\ envs'[s].image = NoImage
          /\ \A d \in Specs \ {s} : envs'[d] = envs[d]
      BY <3>1 DEF Inv, Typed, Rows
    <3>3. Purpose(t)'
      BY <2>1, <2>2, <3>2 DEF Purpose, Fits, Building
    <3> QED
      BY <2>1, <2>2, <2>3, <3>2, <3>3, RowServed
  <2>4. CASE envs[s].status # "ABSENT"
    <3>1. envs' = envs
      BY <1>9, <2>4 DEF GetOrCreateExact
    <3>2. Purpose(t)'
      BY <2>1, <2>2, <2>4, <3>1 DEF Purpose, Fits, Building
    <3> QED
      BY <2>1, <2>2, <3>1, <3>2, QuietServed
  <2> QED
    BY <2>3, <2>4
<1>10. CASE BindExact(t)
  <2>1. /\ Moves(t) /\ task[t].key \in Specs /\ task[t].env \in Specs
        /\ pc'[t] = "idle" \/ (pc'[t] = "claim" /\ task'[t] = task[t])
    BY <1>10, BindExactMoves DEF Inv
  <2>2. /\ envs' = envs /\ Fits(task[t].key, task[t].env)
        /\ task[t].env = task[t].key /\ task[t].spec = task[t].key
        /\ aliases' = BindRequest(task[t].key, task[t].env)
    BY <1>10 DEF BindExact, Served, Purpose
  <2>3. Purpose(t)'
    BY <2>1, <2>2 DEF Purpose, Building
  <2> QED
    BY <2>1, <2>2, <2>3, BindServed
<1>11. CASE ResetFailed(t)
  <2>1. CASE envs[task[t].env].status = "FAILED"
    <3>1. /\ Moves(t) /\ pc'[t] = "claim" /\ task[t].env \in Specs
          /\ task'[t].env = task[t].env /\ task'[t].spec = task[t].env
          /\ envs' = [envs EXCEPT ![task[t].env] = [status |-> "PENDING", image |-> NoImage]]
      BY <1>11, <2>1, ResetFailedMoves DEF Inv
    <3> PICK e \in Specs : e = task[t].env
      BY <3>1
    <3>2. /\ envs'[e].status = "PENDING" /\ envs'[e].image = NoImage
          /\ \A d \in Specs \ {e} : envs'[d] = envs[d]
      BY <3>1 DEF Inv, Typed, Rows
    <3>3. Purpose(t)' /\ aliases' = aliases
      BY <1>11, <3>1 DEF Purpose, ResetFailed
    <3> QED
      BY <2>1, <3>1, <3>2, <3>3, RowServed
  <2>2. CASE envs[task[t].env].status # "FAILED"
    BY <1>5, <1>11, <2>2 DEF ResetFailed
  <2> QED
    BY <2>1, <2>2
<1> QED
  BY <1>1, <1>2, <1>3, <1>4, <1>6, <1>7, <1>8, <1>9, <1>10, <1>11

\* _build, if mark_ready is answered once it is committed.
LEMMA BuildingServed ==
    ASSUME Inv, Served, "ready" \notin BuildFaults, NEW t \in Callers,
           \/ (\E j \in JobIds : ClaimBuild(t, j) \/ ClaimLost(t, j)) \/ ClaimTaken(t)
           \/ (\E salt \in Salts : BuildRuntimeImage(t, salt)) \/ VerifyRuntimeImage(t)
           \/ CommandFails(t) \/ MarkVerifying(t) \/ MarkVerifyingRaises(t)
           \/ MarkReady(t) \/ MarkReadyRaises(t) \/ MarkFailed(t) \/ MarkFailedRaises(t)
    PROVE  Served' /\ Grows
<1>1. ASSUME NEW e \in Specs, NEW j \in JobIds, Claimed(e, j), Moves(t), aliases' = aliases,
             Purpose(t)'
      PROVE  Served' /\ Grows
  <2>1. /\ envs[e].status = "PENDING" /\ envs'[e].status = "BUILDING"
        /\ envs'[e].image = envs[e].image /\ \A d \in Specs \ {e} : envs'[d] = envs[d]
    BY <1>1, ClaimRows DEF Claimed, Inv
  <2> QED
    BY <1>1, <2>1, RowServed
<1>2. ASSUME NEW j \in JobIds, ClaimBuild(t, j) PROVE Served' /\ Grows
  <2>1. /\ Moves(t) /\ pc'[t] = "build" /\ task[t].env \in Specs
        /\ task'[t].env = task[t].env /\ task'[t].spec = task[t].spec
    BY <1>2, ClaimBuildMoves DEF Inv
  <2>2. Claimed(task[t].env, j) /\ aliases' = aliases /\ task[t].spec = task[t].env
    BY <1>2 DEF ClaimBuild, Served, Purpose
  <2>3. Purpose(t)'
    BY <2>1, <2>2 DEF Purpose
  <2> QED
    BY <1>1, <2>1, <2>2, <2>3
<1>3. ASSUME NEW j \in JobIds, ClaimLost(t, j) PROVE Served' /\ Grows
  <2>1. task[t].env \in Specs
    BY <1>3 DEF ClaimLost, Inv, Typed, Locals, Chosen
  <2>2. Claimed(task[t].env, j) /\ End(t) /\ aliases' = aliases
    BY <1>3 DEF ClaimLost
  <2>3. Moves(t) /\ pc'[t] = "idle"
    BY <2>2, EndTyped DEF Inv
  <2> QED
    BY <1>1, <2>1, <2>2, <2>3, IdlePurpose
<1>4. CASE ClaimTaken(t) \/ MarkFailedRaises(t)
  <2>1. End(t) /\ UNCHANGED <<envs, aliases>>
    BY <1>4 DEF ClaimTaken, MarkFailedRaises
  <2>2. Moves(t) /\ pc'[t] = "idle"
    BY <2>1, EndTyped DEF Inv
  <2> QED
    BY <2>1, <2>2, IdlePurpose, QuietServed
<1>5. ASSUME NEW salt \in Salts, BuildRuntimeImage(t, salt) PROVE Served' /\ Grows
  <2>1. /\ Moves(t) /\ pc'[t] = "mark_verifying" /\ task'[t].env = task[t].env
        /\ task'[t].spec = task[t].spec
    BY <1>5, BuildImageMoves DEF Inv
  <2>2. task[t].spec = task[t].env /\ UNCHANGED <<envs, aliases>>
    BY <1>5 DEF BuildRuntimeImage, Served, Purpose, Building
  <2>3. Purpose(t)'
    BY <2>1, <2>2 DEF Purpose
  <2> QED
    BY <2>1, <2>2, <2>3, QuietServed
<1>6. ASSUME pc[t] \in Building, NEW place \in Building, Goto(t, place), task' = task,
             place = "mark_ready" => PackagesOf[task[t].env] \subseteq task[t].image.pkgs
      PROVE  Moves(t) /\ Purpose(t)'
  <2>1. Moves(t) /\ pc'[t] = place /\ task'[t] = task[t]
    BY <1>6 DEF Goto, Moves, Inv, Typed, Rows
  <2>2. task[t].spec = task[t].env
    BY <1>6 DEF Served, Purpose
  <2>3. Purpose(t)'
    BY <1>6, <2>1, <2>2 DEF Purpose, Building
  <2> QED
    BY <2>1, <2>3
<1>7. CASE VerifyRuntimeImage(t)
  <2>1. /\ pc[t] \in Building /\ "mark_ready" \in Building /\ Goto(t, "mark_ready")
        /\ UNCHANGED <<envs, aliases, task>> /\ task[t].spec = task[t].env
        /\ PackagesOf[task[t].spec] \subseteq task[t].image.pkgs
    BY <1>7 DEF VerifyRuntimeImage, Building, Served, Purpose
  <2> QED
    BY <1>6, <2>1, QuietServed
<1>8. ASSUME pc[t] \in Building, Goto(t, "mark_failed"), UNCHANGED <<envs, aliases, task>>
      PROVE  Served' /\ Grows
  <2>1. "mark_failed" \in Building
    BY DEF Building
  <2> QED
    BY <1>6, <1>8, <2>1, QuietServed
<1>9. CASE CommandFails(t)
  BY <1>8, <1>9 DEF CommandFails, Building
<1>10. ASSUME pc[t] \in Building, Moves(t), Purpose(t)', aliases' = aliases,
              NEW status \in {"VERIFYING", "READY", "FAILED"},
              NEW image \in Image \cup {NoImage}, Mark(t, status, image),
              status = "READY" => /\ image \in Image
                                  /\ PackagesOf[task[t].env] \subseteq image.pkgs,
              image = envs[task[t].env].image \/
                  \A d \in Specs \ {task[t].env} : envs[d].image # image
       PROVE  Served' /\ Grows
  <2>1. PICK e \in Specs : e = task[t].env
    BY <1>10, OwnRows
  <2>2. envs[e].status # "READY"
    BY <1>10, <2>1 DEF Inv, Owned, Owner
  <2>3. /\ envs'[e].status = status /\ envs'[e].image = image
        /\ \A d \in Specs \ {e} : envs'[d] = envs[d]
    BY <1>10, <2>1, MarkRows
  <2> QED
    BY <1>10, <2>1, <2>2, <2>3, RowServed
<1>11. ASSUME pc[t] = "mark_verifying", NEW place \in {"verify", "mark_failed"}, Goto(t, place),
              Mark(t, "VERIFYING", envs[task[t].env].image), UNCHANGED <<aliases, task>>
       PROVE  Served' /\ Grows
  <2>1. pc[t] \in Building /\ place \in Building
    BY <1>11 DEF Building
  <2>2. envs[task[t].env].image \in Image \cup {NoImage}
    BY <2>1, OwnRows DEF Env
  <2>3. Moves(t) /\ Purpose(t)'
    BY <1>6, <1>11, <2>1
  <2> QED
    BY <1>10, <1>11, <2>1, <2>2, <2>3
<1>12. CASE MarkVerifying(t)
  BY <1>11, <1>12 DEF MarkVerifying
<1>13. CASE MarkVerifyingRaises(t)
  <2>1. CASE UNCHANGED <<envs, jobs>>
    BY <1>8, <1>13, <2>1 DEF MarkVerifyingRaises, Building
  <2>2. CASE Mark(t, "VERIFYING", envs[task[t].env].image)
    BY <1>11, <1>13, <2>2 DEF MarkVerifyingRaises
  <2> QED
    BY <1>13, <2>1, <2>2 DEF MarkVerifyingRaises
<1>14. CASE MarkReady(t)
  <2>1. /\ pc[t] \in Building /\ End(t) /\ aliases' = aliases
        /\ Mark(t, "READY", task[t].image)
    BY <1>14 DEF MarkReady, Building
  <2>2. task[t].image \in Image /\ PackagesOf[task[t].env] \subseteq task[t].image.pkgs
    BY <1>14 DEF MarkReady, Inv, Typed, Locals, Served, Purpose
  <2>3. \A d \in Specs \ {task[t].env} : envs[d].image # task[t].image
    BY <1>14 DEF MarkReady, ImageTaken
  <2>4. Moves(t) /\ pc'[t] = "idle"
    BY <2>1, EndTyped DEF Inv
  <2> QED
    BY <1>10, <2>1, <2>2, <2>3, <2>4, IdlePurpose
<1>15. CASE MarkReadyRaises(t)
  BY <1>8, <1>15 DEF MarkReadyRaises, Building
<1>16. CASE MarkFailed(t)
  <2>1. /\ pc[t] \in Building /\ End(t) /\ aliases' = aliases
        /\ Mark(t, "FAILED", envs[task[t].env].image)
    BY <1>16 DEF MarkFailed, Building
  <2>2. envs[task[t].env].image \in Image \cup {NoImage}
    BY <2>1, OwnRows DEF Env
  <2>3. Moves(t) /\ pc'[t] = "idle"
    BY <2>1, EndTyped DEF Inv
  <2> QED
    BY <1>10, <2>1, <2>2, <2>3, IdlePurpose
<1> QED
  BY <1>2, <1>3, <1>4, <1>5, <1>7, <1>9, <1>12, <1>13, <1>14, <1>15, <1>16

\* Every step keeps what requests are served with, and takes nothing of it back.
LEMMA NextServed ==
    ASSUME Inv, Served, "ready" \notin BuildFaults, [Next]_buildVars
    PROVE  Served' /\ Grows
<1>1. ASSUME NEW t \in Callers, NEW s \in Specs, Resolve(t, s) \/ Retry(t, s)
      PROVE  Served' /\ Grows
  BY <1>1, ResolvingServed
<1>2. ASSUME NEW t \in Callers, Step(t) PROVE Served' /\ Grows
  BY <1>2, ResolvingServed, BuildingServed DEF Step
<1>3. ASSUME UNCHANGED <<envs, aliases>>, \A t \in Callers : Purpose(t)'
      PROVE  Served' /\ Grows
  <2>1. Grows
    BY <1>3 DEF Grows
  <2>2. Filled' /\ Distinct'
    BY <1>3 DEF Served, Filled, Distinct
  <2>3. Bound'
    BY <1>3, <2>1, BoundKept DEF Bound
  <2> QED
    BY <1>3, <2>1, <2>2, <2>3 DEF Served
<1>4. CASE Crash
  <2>1. UNCHANGED <<envs, aliases>> /\ \A t \in Callers : pc'[t] = "idle"
    BY <1>4 DEF Crash
  <2> QED
    BY <1>3, <2>1, IdlePurpose
<1>5. CASE UNCHANGED buildVars
  <2>1. UNCHANGED <<envs, aliases, pc, task>>
    BY <1>5 DEF buildVars
  <2>2. \A t \in Callers : Purpose(t)'
    BY <2>1 DEF Served, Purpose, Fits
  <2> QED
    BY <1>3, <2>1, <2>2
<1> QED
  BY <1>1, <1>2, <1>4, <1>5 DEF Next

\* Nothing is served at first.
LEMMA InitServed == Init => Served
BY DEF Init, Served, Purpose, Filled, Distinct, Bound, Building, Absent

\* Served holds in every state, if a mark_ready that was committed is answered.
LEMMA ServedAlways ==
    ASSUME "ready" \notin BuildFaults
    PROVE  Spec => []Served
<1>1. Inv /\ Served /\ [Next]_buildVars => Served'
  BY NextServed
<1> QED
  BY <1>1, InitServed, Inductive, PTL DEF Spec

\* What the smallest READY superset, a binding that another request was faster to make and a
\* retry on somebody else's environment give a request holds its packages.  The hypothesis is
\* needed: an answer of mark_ready that is lost makes a READY environment FAILED again, and a
\* request that is bound to it as a superset then rebuilds it with too few packages.
THEOREM RequestsAlwaysServed ==
    ASSUME "ready" \notin BuildFaults
    PROVE  Spec => []RequestsServed
<1>1. Inv /\ Served => RequestsServed
  <2> SUFFICES ASSUME Inv, Served, NEW s \in Specs, aliases[s] # NoSpec
               PROVE  /\ PlatformOf[aliases[s]] = PlatformOf[s]
                      /\ envs[aliases[s]].status # "ABSENT"
                      /\ envs[aliases[s]].status = "READY" =>
                              PackagesOf[s] \subseteq envs[aliases[s]].image.pkgs
    BY DEF RequestsServed
  <2>1. PICK e \in Specs : e = aliases[s]
    BY DEF Inv, Typed, Rows
  <2>2. Fits(s, e)
    BY <2>1 DEF Served, Bound
  <2> QED
    BY <2>1, <2>2 DEF Served, Filled, Fits
<1> QED
  BY <1>1, Inductive, ServedAlways, PTL

\* image_ref identifies an environment, and what is READY holds its own pins.
THEOREM ImagesAlwaysOwn ==
    ASSUME "ready" \notin BuildFaults
    PROVE  Spec => []ImagesOwn
<1>1. Served => ImagesOwn
  <2>1. \A i \in Image : i # NoImage
    BY BuildAssumption DEF Image
  <2> QED
    BY <2>1 DEF Served, Filled, Distinct, ImagesOwn
<1> QED
  BY <1>1, ServedAlways, PTL

-----------------------------------------------------------------------------
(* Refinement of RuntimeAnswers *)

\* Every step answers some locks for the first time, with images that serve them, or none; an
\* answer that was given stays.
LEMMA AnswersStep ==
    ASSUME Inv, Served, Inv', Served', Grows
    PROVE  Answers!Next
<1>1. \A i \in Image : i # NoImage
  BY BuildAssumption DEF Image
<1>2. ASSUME NEW s \in Specs
      PROVE  ReadyImage(s) = NoImage \/ ReadyImage(s)' = ReadyImage(s)
  <2>1. CASE aliases[s] # NoSpec /\ envs[aliases[s]].status = "READY"
    <3>1. PICK e \in Specs : e = aliases[s]
      BY <2>1 DEF Inv, Typed, Rows
    <3>2. aliases'[s] = e /\ envs'[e] = envs[e] /\ envs[e].status = "READY"
      BY <2>1, <3>1 DEF Grows
    <3> QED
      BY <2>1, <3>1, <3>2 DEF ReadyImage
  <2>2. CASE ~(aliases[s] # NoSpec /\ envs[aliases[s]].status = "READY")
    BY <2>2 DEF ReadyImage
  <2> QED
    BY <2>1, <2>2
<1>3. ASSUME NEW s \in Specs
      PROVE  ReadyImage(s)' = NoImage \/ ReadyImage(s)' \in Answers!Serving(s)
  <2>1. CASE aliases'[s] # NoSpec /\ envs'[aliases'[s]].status = "READY"
    <3>1. PICK e \in Specs : e = aliases'[s]
      BY <2>1 DEF Inv, Typed, Rows
    <3>2. Fits(s, e)'
      BY <2>1, <3>1 DEF Served, Bound
    <3>3. envs'[e].image \in Image /\ PackagesOf[s] \subseteq envs'[e].image.pkgs
      BY <2>1, <3>1, <3>2 DEF Served, Filled, Fits
    <3>4. ReadyImage(s)' = envs'[e].image
      BY <2>1, <3>1 DEF ReadyImage
    <3> QED
      BY <3>3, <3>4 DEF Answers!Serving, Answers!Image, Image
  <2>2. CASE ~(aliases'[s] # NoSpec /\ envs'[aliases'[s]].status = "READY")
    BY <2>2 DEF ReadyImage
  <2> QED
    BY <2>1, <2>2
<1> DEFINE S == {s \in Specs : ReadyImage(s)' # ReadyImage(s)}
<1>4. \A s \in S : ReadyImage(s) = NoImage
  BY <1>2
<1>5. \A s \in Specs : IF s \in S THEN ReadyImage(s)' \in Answers!Serving(s)
                       ELSE ReadyImage(s)' = ReadyImage(s)
  BY <1>3, <1>4
<1>6. \A s \in Specs : ReadyImage(s)' \in Answers!Image \cup {NoImage}
  BY <1>3 DEF Answers!Serving
<1>7. S \in SUBSET Specs
  OBVIOUS
<1> HIDE DEF S
<1>8. Answers!Settle(S)
  BY <1>4, <1>5, <1>6, <1>7 DEF Answers!Settle
<1> QED
  BY <1>7, <1>8 DEF Answers!Next

\* The build service implements RuntimeAnswers, the specification that PublishService is
\* composed with, under the hypothesis of RequestsAlwaysServed.
THEOREM AnswersKept ==
    ASSUME "ready" \notin BuildFaults
    PROVE  Spec => ServesAnswers
<1>1. Init => Answers!Init
  BY DEF Init, Answers!Init, ReadyImage
<1>2. Inv /\ Served /\ Inv' /\ Served' /\ [Next]_buildVars => Answers!Next
  BY NextServed, AnswersStep
<1> QED
  BY <1>1, <1>2, Inductive, ServedAlways, PTL DEF Spec, ServesAnswers, Answers!Spec

=============================================================================
