---------------------------- MODULE SandboxAgent ----------------------------
(***************************************************************************)
(* The trusted agent of a sandbox, runner_engine/worker/agent.py, with the *)
(* child process that it starts for each invocation (child.py) and the     *)
(* installation of releases (materialize.py).                              *)
(*                                                                         *)
(* HTTPServer serves one request at a time.  What runs beside it: the      *)
(* thread that reads the output of the child, and the user's processes,    *)
(* which fork, leave the process group, keep or close the output pipe and  *)
(* write to it as they like.  The agent is root and the user is not, so    *)
(* SIGKILL reaches all of them; it takes effect at once.                   *)
(*                                                                         *)
(* stdout and stderr are read alike; of stderr only its limit matters, so  *)
(* one reader stands for both.  What is on stdout is abstracted to what    *)
(* json.loads makes of it; the agent validates nothing beyond that.        *)
(***************************************************************************)
EXTENDS Naturals, FiniteSets

CONSTANTS
    Release,          \* the release that the Runner installs
    Artifacts,        \* what it may send: the id in operator.json, or Broken
    Broken,           \* an archive that is refused
    NoDir,            \* no such directory
    Child,            \* the process that the agent starts
    Others,           \* process ids of its descendants
    Results,          \* what operators return
    Forged            \* JSON objects that the user's code prints itself

\* What an operator may return: its status, retryable and error code.  OTHER stands for whatever
\* is refused, and for an operator that raises; OWN for any code of the operator's choice, also
\* one that the agent uses itself.
Values == [status: {"NONE", "SUCCEEDED", "FAILED", "OTHER"}, retryable: BOOLEAN, code: {"", "OWN"}]

ASSUME AgentAssumption ==
    /\ Child \notin Others
    /\ Release \in Artifacts
    /\ Release # Broken /\ NoDir \notin Artifacts \cup {Broken}
    /\ Results \subseteq Values
    /\ Forged \subseteq
          [status: {"SUCCEEDED", "FAILED", "OTHER"}, retryable: BOOLEAN, code: {"", "OWN"}]

VARIABLES
    target,           \* the directory of the release
    registered,       \* Release is in _releases
    pc,               \* where the agent is
    procs,            \* the user's processes
    group,            \* those in the process group of this child
    holders,          \* those that hold its stdout
    code,             \* how the child ended
    returned,         \* the response that its main has composed, unless it died with the buffer
    flushed,          \* it has left the buffer of sys.stdout
    output,           \* what has been written to stdout
    reader, got,      \* _bounded_reader, and what stdout[] has
    overflow,         \* the event
    outcome,          \* an answer or an exception on its way through the finally clause
    final,            \* _kill_user_processes was called by the finally clause
    pass, todo, found, \* its locals: the pass, the pids still to look at, found
    answer,           \* the answer of the last request
    forked, dodged,   \* history: somebody has forked during this pass; during every pass
    printed,          \* history: the user's code has written to the pipe itself
    tidy              \* history: the child ended with its response, and nothing else, in a pipe
                      \* that only it held

procVars   == <<procs, group, holders>>
childVars  == <<code, returned, flushed, output, printed, tidy>>
readVars   == <<reader, got, overflow>>
cleanVars  == <<final, pass, todo, found, forked, dodged>>
serverVars == <<target, registered, answer>>
vars == <<serverVars, pc, procVars, childVars, readVars, outcome, cleanVars>>

-----------------------------------------------------------------------------
Passes == 3

Failure(error) == [status |-> "FAILED", retryable |-> FALSE, code |-> error]

\* Mutant: a result without a status is a success.
NormalizeResultLax(v) ==
    IF v.status = "OTHER" THEN Failure("USER_EXCEPTION")
    ELSE [v EXCEPT !.status = IF @ = "NONE" THEN "SUCCEEDED" ELSE @]

\* _normalize_result, and what main makes of its exceptions.
NormalizeResult(v) ==
    LET status == IF v.status # "NONE" THEN v.status
                  ELSE IF v.retryable THEN "FAILED" ELSE "SUCCEEDED"
    IN  IF status = "OTHER" \/ (status = "SUCCEEDED" /\ v.retryable)
        THEN Failure("USER_EXCEPTION")
        ELSE [status |-> status, retryable |-> v.retryable,
              code |-> IF status = "FAILED" /\ v.code = "" THEN "OPERATOR_REPORTED_FAILURE"
                       ELSE v.code]

Response == {NormalizeResult(v) : v \in Results}

NoResponse == [status |-> "NONE"]

\* Texts that are not a JSON object: nothing, another JSON value, no JSON, too much.
Empty     == [status |-> "EMPTY"]
NotObject == [status |-> "NOT_OBJECT"]
Garbage   == [status |-> "GARBAGE"]
Flood     == [status |-> "FLOOD"]

Objects == Response \cup Forged

Texts == Objects \cup {Empty, NotObject, Garbage, Flood}

\* What user code may print.
Printable == Forged \cup {NotObject, Garbage, Flood}

\* What a text may become when more is written behind it.  Blanks do not matter to json.loads.
Appended(text, more) ==
    IF text = Flood \/ more = Flood THEN {Flood}
    ELSE IF text = Empty THEN {more}
    ELSE IF text = Garbage THEN {more, Garbage}
    ELSE {text, Garbage}

\* The failures that the agent answers itself.
Errors == {"TIMEOUT", "OUTPUT_LIMIT", "USER_PROCESS_EXITED", "INVALID_CHILD_RESPONSE"}

\* HTTP 400: the Runner gives the sandbox up.
Refused == [status |-> "HTTP_ERROR"]

TypeOK ==
    /\ target \in Artifacts \cup {NoDir} /\ target # Broken
    /\ registered \in BOOLEAN
    /\ pc \in {"idle", "write", "wait", "expired", "join", "list", "kill", "classify", "parse"}
    /\ procs \subseteq Others \cup {Child}
    /\ group \subseteq procs /\ holders \subseteq procs
    /\ Child \in procs => code = "NONE" /\ pc \in {"write", "wait", "expired"}
    /\ code \in {"NONE", "ZERO", "NONZERO"}
    /\ returned \in Response \cup {NoResponse} /\ flushed \in BOOLEAN
    /\ output \in Texts /\ got \in Texts
    /\ reader \in {"reading", "done"}
    /\ overflow \in BOOLEAN
    /\ outcome \in {NoResponse, Failure("TIMEOUT"), Refused}
    /\ final \in BOOLEAN
    /\ pass \in 1..Passes /\ todo \subseteq Others /\ found \in BOOLEAN
    /\ forked \in BOOLEAN /\ dodged \in BOOLEAN
    /\ printed \in BOOLEAN /\ tidy \in BOOLEAN
    /\ answer \in Objects \cup {NoResponse, Refused} \cup {Failure(e) : e \in Errors}

Init ==
    /\ target = NoDir /\ registered = FALSE /\ answer = NoResponse
    /\ pc = "idle"
    /\ procs = {} /\ group = {} /\ holders = {}
    /\ code = "NONE" /\ returned = NoResponse /\ flushed = FALSE
    /\ output = Empty /\ printed = FALSE /\ tidy = FALSE
    /\ reader = "done" /\ got = Empty /\ overflow = FALSE
    /\ outcome = NoResponse
    /\ final = FALSE
    /\ pass = 1 /\ todo = {} /\ found = FALSE /\ forked = FALSE /\ dodged = FALSE

\* The processes in P are gone.
Gone(P) ==
    /\ procs' = procs \ P
    /\ group' = group \ P
    /\ holders' = holders \ P

-----------------------------------------------------------------------------
(* bootstrap *)

\* ReleaseMaterializer.install of an artifact whose SHA-256 matches the request or not.  A
\* directory that is there is kept, whatever it and the artifact hold; otherwise a complete one
\* is renamed to it.  An unsafe or oversized archive and one without operator.json are Broken
\* and leave nothing.
Installed(a, matches) == IF target = NoDir /\ matches /\ a # Broken THEN a ELSE target

\* The release counts as installed if the id in the operator.json of the directory is its own.
Bootstrap(a, matches) ==
    /\ pc = "idle"
    /\ target' = Installed(a, matches)
    /\ registered' = (registered \/ (matches /\ target' = Release))
    /\ answer' = IF matches /\ target' = Release THEN NoResponse ELSE Refused
    /\ UNCHANGED <<pc, procVars, childVars, readVars, outcome, cleanVars>>

-----------------------------------------------------------------------------
(* run, up to the end of the child *)

\* "release is not bootstrapped", or Popen raises.
RunRefused ==
    /\ pc = "idle"
    /\ answer' = Refused
    /\ UNCHANGED <<pc, target, registered, procVars, childVars, readVars, outcome, cleanVars>>

\* Popen and the readers.  A process of an earlier run may still be there.
Run ==
    /\ pc = "idle"
    /\ registered
    /\ procs' = procs \cup {Child} /\ group' = {Child} /\ holders' = {Child}
    /\ reader' = "reading"
    /\ answer' = NoResponse
    /\ pc' = "write"
    /\ UNCHANGED <<target, registered, childVars, got, overflow, outcome, cleanVars>>

\* The child has read its request, which it does before it imports the operator.
WriteRequest ==
    /\ pc = "write"
    /\ Child \in procs
    /\ pc' = "wait"
    /\ UNCHANGED <<serverVars, procVars, childVars, readVars, outcome, cleanVars>>

\* BrokenPipeError: the child did not come so far.
WriteRaises ==
    /\ pc = "write"
    /\ Child \notin procs
    /\ outcome' = Refused
    /\ pc' = "join"
    /\ UNCHANGED <<serverVars, procVars, childVars, readVars, cleanVars>>

WaitReturns ==
    /\ pc = "wait"
    /\ code # "NONE"
    /\ pc' = "join"
    /\ UNCHANGED <<serverVars, procVars, childVars, readVars, outcome, cleanVars>>

\* TimeoutExpired
TimerExpires ==
    /\ pc = "wait"
    /\ code = "NONE"
    /\ pc' = "expired"
    /\ UNCHANGED <<serverVars, procVars, childVars, readVars, outcome, cleanVars>>

\* _kill_group: nothing if the child has been seen to end.
KillGroup ==
    IF code = "NONE"
    THEN Gone(group) /\ code' = "NONZERO"
    ELSE UNCHANGED <<procVars, code>>

\* _kill_user_processes begins.
CleanUp(last) ==
    /\ final' = last
    /\ pass' = 1
    /\ dodged' = TRUE
    /\ pc' = "list"
    /\ UNCHANGED <<todo, found, forked>>

\* _kill_group, wait, and a first _kill_user_processes.
KillExpired ==
    /\ pc = "expired"
    /\ KillGroup
    /\ outcome' = Failure("TIMEOUT")
    /\ CleanUp(FALSE)
    /\ UNCHANGED <<serverVars, returned, flushed, output, printed, tidy, readVars>>

-----------------------------------------------------------------------------
(* run: the finally clause *)

\* The readers get two seconds each, which is enough for what is in a closed pipe.
JoinReader ==
    /\ pc = "join"
    /\ reader = "done"
    /\ CleanUp(TRUE)
    /\ UNCHANGED <<serverVars, procVars, childVars, readVars, outcome>>

\* Mutant: join() without a timeout.
JoinForEver == FALSE /\ UNCHANGED vars

\* Some process still holds the pipe, so the reader is blocked.
JoinTimesOut ==
    /\ pc = "join"
    /\ reader = "reading"
    /\ holders # {}
    /\ CleanUp(TRUE)
    /\ UNCHANGED <<serverVars, procVars, childVars, readVars, outcome>>

\* Path("/proc").iterdir()
ListProcesses ==
    /\ pc = "list"
    /\ todo' = procs
    /\ found' = FALSE
    /\ forked' = FALSE
    /\ pc' = "kill"
    /\ UNCHANGED <<serverVars, procVars, childVars, readVars, outcome, final, pass, dodged>>

\* Mutant: only the process group of the child is killed.
KillProcessOfGroup(p) ==
    /\ pc = "kill"
    /\ p \in todo
    /\ todo' = todo \ {p}
    /\ found' = (found \/ p \in group)
    /\ Gone({p} \cap group)
    /\ UNCHANGED <<serverVars, pc, childVars, readVars, outcome, final, pass, forked, dodged>>

\* os.kill, or ProcessLookupError when it has ended by itself.
KillProcess(p) ==
    /\ pc = "kill"
    /\ p \in todo
    /\ todo' = todo \ {p}
    /\ found' = (found \/ p \in procs)
    /\ Gone({p})
    /\ UNCHANGED <<serverVars, pc, childVars, readVars, outcome, final, pass, forked, dodged>>

\* Mutant: passes until one finds nothing.
PassEndsWhenQuiet ==
    /\ pc = "kill"
    /\ todo = {}
    /\ dodged' = (dodged /\ forked)
    /\ IF found
       THEN pass' = pass + 1 /\ pc' = "list" /\ UNCHANGED final
       ELSE pass' = 1 /\ pc' = (IF final THEN "classify" ELSE "join") /\ final' = FALSE
    /\ found' = FALSE /\ forked' = FALSE
    /\ UNCHANGED <<serverVars, procVars, childVars, readVars, outcome, todo>>

PassEnds ==
    /\ pc = "kill"
    /\ todo = {}
    /\ dodged' = (dodged /\ forked)
    /\ IF found /\ pass < Passes
       THEN pass' = pass + 1 /\ pc' = "list" /\ UNCHANGED final
       ELSE pass' = 1 /\ pc' = (IF final THEN "classify" ELSE "join") /\ final' = FALSE
    /\ found' = FALSE /\ forked' = FALSE
    /\ UNCHANGED <<serverVars, procVars, childVars, readVars, outcome, todo>>

-----------------------------------------------------------------------------
(* run: the answer *)

\* run returns or raises.  Its locals are gone; of its processes only that they exist matters
\* from now on, and a reader that is still at work reads what nobody will look at.
Answer(a) ==
    /\ answer' = a
    /\ pc' = "idle"
    /\ group' = {} /\ holders' = {}
    /\ code' = "NONE" /\ returned' = NoResponse /\ flushed' = FALSE
    /\ output' = Empty /\ printed' = FALSE /\ tidy' = FALSE
    /\ reader' = "done" /\ got' = Empty /\ overflow' = FALSE
    /\ outcome' = NoResponse
    /\ UNCHANGED <<target, registered, procs, cleanVars>>

\* TIMEOUT or the exception on its way; OUTPUT_LIMIT.
Classify ==
    /\ pc = "classify"
    /\ outcome # NoResponse \/ overflow
    /\ Answer(IF outcome # NoResponse THEN outcome ELSE Failure("OUTPUT_LIMIT"))

\* Neither.  The reader may still be at work.
ClassifyNone ==
    /\ pc = "classify"
    /\ outcome = NoResponse /\ ~overflow
    /\ pc' = "parse"
    /\ UNCHANGED <<serverVars, procVars, childVars, readVars, outcome, cleanVars>>

\* The exit code counts only when stdout is empty, and every JSON object is the answer; another
\* JSON value raises where duration_ms is added to it.
Parse ==
    /\ pc = "parse"
    /\ Answer(IF code # "ZERO" /\ got = Empty THEN Failure("USER_PROCESS_EXITED")
              ELSE IF got \in Objects THEN got
              ELSE IF got = NotObject THEN Refused
              ELSE Failure("INVALID_CHILD_RESPONSE"))

-----------------------------------------------------------------------------
(* _bounded_reader: read(64 * 1024) returns a full chunk, or the rest at the end of the file. *)

\* What full chunks may hold of the output: most often a cut text, but a text that is garbage
\* because of what was printed later may begin with anything that was printed.
Prefixes ==
    IF output = Garbage /\ printed
    THEN Forged \cup {NotObject, Garbage} \cup ({returned} \ {NoResponse})
    ELSE {output, Garbage}

ReadChunk ==
    /\ reader = "reading"
    /\ output \notin {Empty, Flood}
    /\ got = Empty
    /\ got' \in Prefixes
    /\ UNCHANGED <<serverVars, pc, procVars, childVars, reader, overflow, outcome, cleanVars>>

ReadToEnd ==
    /\ reader = "reading"
    /\ holders = {}
    /\ output # Flood
    /\ got' = output
    /\ reader' = "done"
    /\ UNCHANGED <<serverVars, pc, procVars, childVars, overflow, outcome, cleanVars>>

\* More than the limit: the event is set before the process group is killed.
ReadTooMuch ==
    /\ reader = "reading"
    /\ output = Flood
    /\ overflow' = TRUE
    /\ reader' = "done"
    /\ KillGroup
    /\ UNCHANGED <<serverVars, pc, returned, flushed, output, printed, tidy, got, outcome, cleanVars>>

-----------------------------------------------------------------------------
(* The user's processes.  The child is the user's once it has read its request. *)

Running == IF pc = "write" THEN procs \ {Child} ELSE procs

\* A child inherits its parent's group and pipe, unless it calls setsid or closes the pipe.
Fork(p, q, grouped, holding) ==
    /\ p \in Running
    /\ q \in Others \ procs
    /\ grouped => p \in group
    /\ holding => p \in holders
    /\ procs' = procs \cup {q}
    /\ group' = IF grouped THEN group \cup {q} ELSE group
    /\ holders' = IF holding THEN holders \cup {q} ELSE holders
    /\ forked' = (forked \/ pc = "kill")
    /\ UNCHANGED <<serverVars, pc, childVars, readVars, outcome, final, pass, todo, found, dodged>>

\* A descendant ends.
Exit(p) ==
    /\ p \in Running \ {Child}
    /\ Gone({p})
    /\ UNCHANGED <<serverVars, pc, childVars, readVars, outcome, cleanVars>>

\* It closes its end of the pipe.
Close(p) ==
    /\ p \in Running \cap holders
    /\ holders' = holders \ {p}
    /\ UNCHANGED <<serverVars, pc, procs, group, childVars, readVars, outcome, cleanVars>>

\* User code writes to the pipe: a JSON object of its own, another value, anything else, or more
\* than the limit.
Write(p, text) ==
    /\ p \in Running \cap holders
    /\ reader = "reading"
    /\ output' \in Appended(output, text)
    /\ printed' = TRUE
    /\ UNCHANGED <<serverVars, pc, procVars, code, returned, flushed, tidy, readVars, outcome,
                   cleanVars>>

\* The operator returns or raises, and main writes its response to sys.stdout, which is buffered
\* (python -I ignores PYTHONUNBUFFERED).  Threads and atexit handlers of the user go on.
ChildReturns(v) ==
    /\ Child \in Running
    /\ returned = NoResponse
    /\ returned' = NormalizeResult(v)
    /\ UNCHANGED <<serverVars, pc, procVars, code, flushed, output, printed, tidy, readVars,
                   outcome, cleanVars>>

\* The buffer goes to the pipe, at the latest when the interpreter shuts down: whole, or cut by
\* what ends the child.  error_message, error_code and relationship have no limit of their own,
\* so a response may exceed the reader's; the traceback of an exception is cut to 8192 bytes.
ChildFlushes(text) ==
    /\ Child \in Running \cap holders
    /\ reader = "reading"
    /\ returned # NoResponse /\ ~flushed
    /\ text \in {returned, Garbage, Flood}
    /\ text = Flood => returned # Failure("USER_EXCEPTION")
    /\ output' \in Appended(output, text)
    /\ flushed' = TRUE
    /\ UNCHANGED <<serverVars, pc, procVars, code, returned, printed, tidy, readVars, outcome,
                   cleanVars>>

\* The child ends, with any code: the interpreter shuts down (an atexit handler or the last flush
\* may fail), os._exit, or a crash, which may come before it has read its request.
ChildDies(c) ==
    /\ Child \in procs
    /\ pc = "write" => c = "NONZERO"
    /\ code' = c
    /\ tidy' = (flushed /\ output = returned /\ ~printed /\ holders = {Child})
    /\ returned' = IF flushed THEN returned ELSE NoResponse
    /\ Gone({Child})
    /\ UNCHANGED <<serverVars, pc, flushed, output, printed, readVars, outcome, cleanVars>>

-----------------------------------------------------------------------------
\* The steps of the request that is being served, and of the reader.
Agent ==
    \/ WriteRequest \/ WriteRaises \/ WaitReturns \/ TimerExpires \/ KillExpired
    \/ JoinReader \/ JoinTimesOut
    \/ ListProcesses \/ (\E p \in Others : KillProcess(p)) \/ PassEnds
    \/ Classify \/ ClassifyNone \/ Parse

Reader == ReadChunk \/ ReadToEnd \/ ReadTooMuch

User ==
    \/ \E p \in Others \cup {Child}, q \in Others, grouped, holding \in BOOLEAN :
            Fork(p, q, grouped, holding)
    \/ \E p \in Others : Exit(p)
    \/ \E p \in Others \cup {Child} : Close(p)
    \/ \E p \in Others \cup {Child}, text \in Printable : Write(p, text)
    \/ \E v \in Results : ChildReturns(v)
    \/ \E text \in {returned, Garbage, Flood} : ChildFlushes(text)
    \/ \E c \in {"ZERO", "NONZERO"} : ChildDies(c)

Next ==
    \/ \E a \in Artifacts, matches \in BOOLEAN : Bootstrap(a, matches)
    \/ RunRefused \/ Run \/ Agent \/ Reader \/ User

Spec == Init /\ [][Next]_vars

\* The agent and its reader are scheduled, and the timers run.  Nothing is assumed of the user.
FairSpec == Spec /\ WF_vars(Agent) /\ WF_vars(Reader)

-----------------------------------------------------------------------------
(* Properties *)

\* What RunnerService relies on when it puts a worker back into the pool: once a run has been
\* answered nothing of it is alive, in or out of the process group, although descendants fork
\* and daemonise while they are hunted.  The one exception is what the three passes of
\* _kill_user_processes are for: somebody forked during every pass that was made.
AnswerQuiet == pc \in {"idle", "classify", "parse"} => procs = {} \/ dodged

\* The answer of a run is what happened.  The release that runs is the one that was asked for.
\* An operator that prints nothing itself, whose response fits into the reader's limit and that
\* leaves nobody at its pipe is answered with its own response, whatever its exit code, unless its
\* time was over.  One that prints nothing itself, however it ends and whatever its descendants
\* hold, is never taken for a success that it did not return, a success that may be retried or a
\* failure without a code.  OUTPUT_LIMIT and USER_PROCESS_EXITED have their cause.  (An operator
\* that prints a JSON object of its own is answered with it, unchecked.)
AnswersSound ==
    [][pc # "idle" /\ pc' = "idle" =>
          /\ target = Release
          /\ tidy => answer' \in {returned, Failure("TIMEOUT")}
          /\ ~printed =>
                /\ answer'.status = "SUCCEEDED" => answer' = returned /\ ~answer'.retryable
                /\ answer'.status = "FAILED" => answer'.code # ""
                /\ answer'.status # "OTHER"
          /\ answer' = Failure("OUTPUT_LIMIT") => output = Flood
          /\ answer' = Failure("USER_PROCESS_EXITED") => code = "NONZERO" /\ ~tidy]_vars

\* A hard wall-clock timeout: every request is answered, whatever the operator does - run for
\* ever, flood its output, or leave a process behind that keeps the pipe open and keeps forking.
RunsEnd == (pc # "idle") ~> (pc = "idle")
=============================================================================
