------------------------- MODULE SandboxAgentProofs -------------------------
(***************************************************************************)
(* Machine-checked theorems about SandboxAgent, for any number of user     *)
(* processes, whatever they do.                                            *)
(***************************************************************************)
EXTENDS SandboxAgent, TLAPS

-----------------------------------------------------------------------------
(* The inductive invariant *)

\* What _kill_user_processes has still to find.
Hunt ==
    /\ pc = "list" => procs = {} \/ dodged
    /\ pc = "kill" => procs = {} \/ (dodged /\ (forked \/ procs \subseteq todo))
    /\ pc \in {"idle", "classify", "parse"} => procs = {} \/ dodged

\* The requests that are served, and how far the run has come.
Served ==
    /\ registered => target = Release
    /\ pc # "idle" => registered
    /\ pc \in {"idle", "write"} => ~flushed /\ ~tidy /\ outcome = NoResponse
    /\ pc = "idle" => code = "NONE" /\ reader = "done"
    /\ pc # "idle" /\ code = "NONE" => Child \in procs
    /\ outcome = Refused => ~tidy /\ Child \notin procs

\* The child, what it returned and what is in the pipe.
Told ==
    /\ Child \in procs => Child \in group
    /\ flushed => returned # NoResponse
    /\ ~printed /\ flushed =>
          output \in {Garbage, Flood, returned} /\ got \in {Empty, Garbage, returned}
    /\ ~printed /\ ~flushed => output = Empty /\ got = Empty
    /\ overflow => output = Flood
    /\ tidy => holders = {} /\ output = returned /\ flushed /\ ~printed

\* What the reader has by the time the agent looks at it.
Heard ==
    /\ pc # "idle" /\ reader = "done" => got = output \/ overflow
    /\ tidy /\ (pc \in {"classify", "parse"} \/ (pc \in {"list", "kill"} /\ final)) =>
           reader = "done"

Inv == TypeOK /\ Hunt /\ Served /\ Told /\ Heard

-----------------------------------------------------------------------------
(* Results *)

\* _normalize_result never makes a retryable success or a failure without a code, and none of
\* its results can be taken for a failure of the agent.
LEMMA Normalized ==
    ASSUME NEW r \in Response
    PROVE  /\ r.status \in {"SUCCEEDED", "FAILED"}
           /\ r.status = "SUCCEEDED" => ~r.retryable
           /\ r.status = "FAILED" => r.code # ""
           /\ r # NoResponse /\ r # Refused /\ \A e \in Errors : r # Failure(e)
<1>1. PICK v \in Values : r = NormalizeResult(v)
  BY AgentAssumption DEF Response
<1>2. /\ v.status \in {"NONE", "SUCCEEDED", "FAILED", "OTHER"} /\ v.retryable \in BOOLEAN
      /\ v.code \in {"", "OWN"}
  BY DEF Values
<1>3. r = Failure("USER_EXCEPTION") \/
      \E s \in {"SUCCEEDED", "FAILED"}, c \in {"", "OWN", "OPERATOR_REPORTED_FAILURE"} :
          /\ r = [status |-> s, retryable |-> v.retryable, code |-> c]
          /\ s = "SUCCEEDED" => ~v.retryable
          /\ s = "FAILED" => c # ""
  BY <1>1, <1>2 DEF NormalizeResult
<1>4. CASE r = Failure("USER_EXCEPTION")
  BY <1>4 DEF Failure, NoResponse, Refused, Errors
<1>5. ASSUME NEW s \in {"SUCCEEDED", "FAILED"}, NEW c \in {"", "OWN", "OPERATOR_REPORTED_FAILURE"},
             r = [status |-> s, retryable |-> v.retryable, code |-> c],
             s = "SUCCEEDED" => ~v.retryable, s = "FAILED" => c # ""
      PROVE  /\ r.status \in {"SUCCEEDED", "FAILED"}
             /\ r.status = "SUCCEEDED" => ~r.retryable
             /\ r.status = "FAILED" => r.code # ""
             /\ r # NoResponse /\ r # Refused /\ \A e \in Errors : r # Failure(e)
  BY <1>5 DEF Failure, NoResponse, Refused, Errors
<1> QED
  BY <1>3, <1>4, <1>5

\* What the child writes is a response.
LEMMA ResponseOf == \A v \in Results : NormalizeResult(v) \in Response
BY DEF Response

\* A JSON object is none of the other texts.
LEMMA ObjectOf ==
    ASSUME NEW r \in Objects
    PROVE  /\ r.status \in {"SUCCEEDED", "FAILED", "OTHER"}
           /\ r \notin {Empty, NotObject, Garbage, Flood, NoResponse, Refused}
<1>1. r.status \in {"SUCCEEDED", "FAILED", "OTHER"}
  <2>1. CASE r \in Response
    BY <2>1, Normalized
  <2>2. CASE r \in Forged
    BY <2>2, AgentAssumption
  <2> QED
    BY <2>1, <2>2 DEF Objects
<1> QED
  BY <1>1 DEF Empty, NotObject, Garbage, Flood, NoResponse, Refused

\* The texts that are no object differ from one another and from no response at all.
LEMMA TextsDiffer ==
    /\ Empty # NotObject /\ Empty # Garbage /\ Empty # Flood /\ NotObject # Garbage
    /\ NotObject # Flood /\ Garbage # Flood /\ NoResponse \notin Texts
<1>1. \A r \in Objects : r # NoResponse
  BY ObjectOf
<1> QED
  BY <1>1 DEF Texts, Empty, NotObject, Garbage, Flood, NoResponse

\* What is written behind a text makes a text of it.
LEMMA AppendedText ==
    ASSUME NEW text \in Texts, NEW more \in Texts, NEW x \in Appended(text, more)
    PROVE  x \in Texts
BY DEF Appended, Texts

\* So is every prefix that the reader may have.
LEMMA PrefixText ==
    ASSUME TypeOK, NEW x \in Prefixes
    PROVE  x \in Texts
BY DEF Prefixes, Texts, Objects, TypeOK

-----------------------------------------------------------------------------
(* Type correctness *)

\* The locals that _kill_user_processes begins with.
LEMMA CleanUpTyped ==
    ASSUME CleanUp(FALSE) \/ CleanUp(TRUE)
    PROVE  /\ final' \in BOOLEAN /\ dodged' \in BOOLEAN
           /\ pass' \in 1..Passes
           /\ pc' = "list" /\ todo' = todo /\ found' = found /\ forked' = forked
<1>1. final' \in BOOLEAN /\ dodged' \in BOOLEAN
  BY Zenon DEF CleanUp
<1>2. pass' \in 1..Passes
  <2>1. pass' = 1
    BY DEF CleanUp
  <2> QED
    BY <2>1 DEF Passes
<1>3. pc' = "list" /\ todo' = todo /\ found' = found /\ forked' = forked
  BY DEF CleanUp
<1> QED
  BY <1>1, <1>2, <1>3

\* Every request that the agent serves, and every step of it, leaves well-typed state.
LEMMA AgentTyped ==
    ASSUME TypeOK, Served, Told,
           (\E a \in Artifacts, matches \in BOOLEAN : Bootstrap(a, matches)) \/ RunRefused \/ Run \/ Agent
    PROVE  TypeOK'
<1> USE DEF procVars, childVars, readVars, cleanVars, serverVars
<1>1. ASSUME NEW a \in Artifacts, NEW matches \in BOOLEAN, Bootstrap(a, matches) PROVE TypeOK'
  <2>1. target' \in Artifacts \cup {NoDir} /\ target' # Broken
    BY <1>1, AgentAssumption DEF Bootstrap, Installed, TypeOK
  <2>2. registered' \in BOOLEAN
    BY <1>1 DEF Bootstrap, TypeOK
  <2>3. answer' \in {NoResponse, Refused}
    BY <1>1 DEF Bootstrap
  <2> QED
    BY <1>1, <2>1, <2>2, <2>3 DEF Bootstrap, TypeOK
<1>2. CASE RunRefused
  BY <1>2 DEF RunRefused, TypeOK
<1>3. CASE Run
  <2>1. code = "NONE"
    BY <1>3 DEF Run, Served
  <2> QED
    BY <1>3, <2>1 DEF Run, TypeOK
<1>4. CASE WriteRequest \/ WriteRaises \/ WaitReturns \/ TimerExpires
  BY <1>4 DEF WriteRequest, WriteRaises, WaitReturns, TimerExpires, TypeOK
<1>5. CASE KillExpired
  <2>1. Child \notin procs' /\ procs' \subseteq procs /\ group' \subseteq procs'
        /\ holders' \subseteq procs' /\ code' \in {"NONE", "ZERO", "NONZERO"}
    BY <1>5 DEF KillExpired, KillGroup, Gone, Told, TypeOK
  <2>2. CleanUp(FALSE)
    BY <1>5 DEF KillExpired
  <2>3. /\ final' \in BOOLEAN /\ dodged' \in BOOLEAN /\ pass' \in 1..Passes
        /\ pc' = "list" /\ todo' = todo /\ found' = found /\ forked' = forked
    BY <2>2, CleanUpTyped
  <2> QED
    BY <1>5, <2>1, <2>3 DEF KillExpired, TypeOK
<1>6. CASE JoinReader \/ JoinTimesOut
  <2>1. CleanUp(TRUE)
    BY <1>6 DEF JoinReader, JoinTimesOut
  <2>2. Child \notin procs
    BY <1>6 DEF JoinReader, JoinTimesOut, TypeOK
  <2>3. /\ final' \in BOOLEAN /\ dodged' \in BOOLEAN /\ pass' \in 1..Passes
        /\ pc' = "list" /\ todo' = todo /\ found' = found /\ forked' = forked
    BY <2>1, CleanUpTyped
  <2>4. UNCHANGED <<serverVars, procVars, childVars, readVars, outcome>>
    BY <1>6 DEF JoinReader, JoinTimesOut
  <2> QED
    BY <2>2, <2>3, <2>4 DEF TypeOK
<1>7. CASE ListProcesses
  <2>1. procs \subseteq Others
    BY <1>7 DEF ListProcesses, TypeOK
  <2>2. found' \in BOOLEAN /\ forked' \in BOOLEAN
    BY <1>7 DEF ListProcesses
  <2> QED
    BY <1>7, <2>1, <2>2 DEF ListProcesses, TypeOK
<1>8. ASSUME NEW p \in Others, KillProcess(p) PROVE TypeOK'
  <2>1. /\ procs' \subseteq procs /\ group' \subseteq procs' /\ holders' \subseteq procs'
        /\ todo' \subseteq todo
    BY <1>8 DEF KillProcess, Gone, TypeOK
  <2>2. found' \in BOOLEAN
    BY <1>8, Zenon DEF KillProcess
  <2>3. UNCHANGED <<serverVars, pc, childVars, readVars, outcome, final, pass, forked, dodged>>
    BY <1>8 DEF KillProcess
  <2> QED
    BY <2>1, <2>2, <2>3 DEF TypeOK
<1>9. CASE PassEnds
  <2>1. pass' \in 1..Passes
    <3>1. pass' = 1 \/ (pass < Passes /\ pass' = pass + 1)
      BY <1>9 DEF PassEnds
    <3> QED
      BY <3>1 DEF Passes, TypeOK
  <2>2. dodged' \in BOOLEAN
    BY <1>9, Zenon DEF PassEnds
  <2>3. found' \in BOOLEAN /\ forked' \in BOOLEAN
    BY <1>9 DEF PassEnds
  <2>4. final' \in BOOLEAN /\ pc' \in {"list", "classify", "join"}
    BY <1>9 DEF PassEnds, TypeOK
  <2>5. pc = "kill" /\ UNCHANGED <<serverVars, procVars, childVars, readVars, outcome, todo>>
    BY <1>9 DEF PassEnds
  <2> QED
    BY <2>1, <2>2, <2>3, <2>4, <2>5 DEF TypeOK
\* The end of a run.
<1>a. ASSUME NEW a \in Objects \cup {NoResponse, Refused} \cup {Failure(e) : e \in Errors},
             pc \in {"classify", "parse"}, Answer(a)
      PROVE  TypeOK'
  <2>1. Child \notin procs
    BY <1>a DEF TypeOK
  <2>2. output' \in Texts /\ got' \in Texts
    BY <1>a DEF Answer, Texts
  <2> QED
    BY <1>a, <2>1, <2>2 DEF Answer, TypeOK
<1>10. CASE Classify
  <2>1. PICK a : /\ a = IF outcome # NoResponse THEN outcome ELSE Failure("OUTPUT_LIMIT")
                 /\ Answer(a) /\ pc = "classify"
    BY <1>10 DEF Classify
  <2>2. a \in Objects \cup {NoResponse, Refused} \cup {Failure(e) : e \in Errors}
    BY <2>1 DEF TypeOK, Errors
  <2> QED
    BY <1>a, <2>1, <2>2
<1>11. CASE ClassifyNone
  BY <1>11 DEF ClassifyNone, TypeOK
<1>12. CASE Parse
  <2>1. PICK a : /\ a \in {Failure("USER_PROCESS_EXITED"), Refused, Failure("INVALID_CHILD_RESPONSE")}
                       \/ (a = got /\ got \in Objects)
                 /\ Answer(a) /\ pc = "parse"
    BY <1>12 DEF Parse
  <2>2. a \in Objects \cup {NoResponse, Refused} \cup {Failure(e) : e \in Errors}
    BY <2>1 DEF Errors
  <2> QED
    BY <1>a, <2>1, <2>2
<1> QED
  BY <1>1, <1>2, <1>3, <1>4, <1>5, <1>6, <1>7, <1>8, <1>9, <1>10, <1>11, <1>12 DEF Agent

\* The reader and the user's processes do too.
LEMMA OthersTyped ==
    ASSUME TypeOK, Told, Reader \/ User
    PROVE  TypeOK'
<1> USE DEF procVars, childVars, readVars, cleanVars, serverVars
<1>1. CASE ReadChunk \/ ReadToEnd
  <2>1. got' \in Texts
    BY <1>1, PrefixText DEF ReadChunk, ReadToEnd, TypeOK
  <2> QED
    BY <1>1, <2>1 DEF ReadChunk, ReadToEnd, TypeOK
<1>2. CASE ReadTooMuch
  <2>1. /\ Child \in procs' => code' = "NONE" /\ Child \in procs
        /\ procs' \subseteq procs /\ group' \subseteq procs' /\ holders' \subseteq procs'
        /\ code' \in {"NONE", "ZERO", "NONZERO"}
    BY <1>2 DEF ReadTooMuch, KillGroup, Gone, Told, TypeOK
  <2> QED
    BY <1>2, <2>1 DEF ReadTooMuch, TypeOK
<1>3. ASSUME NEW p \in Others \cup {Child}, NEW q \in Others,
             NEW grouped \in BOOLEAN, NEW holding \in BOOLEAN, Fork(p, q, grouped, holding)
      PROVE  TypeOK'
  <2>1. procs' = procs \cup {q} /\ q # Child
    BY <1>3, AgentAssumption DEF Fork
  <2>2. group' \subseteq procs' /\ holders' \subseteq procs'
    BY <1>3 DEF Fork, TypeOK
  <2> QED
    BY <1>3, <2>1, <2>2 DEF Fork, TypeOK
<1>4. ASSUME NEW p \in Others, Exit(p) PROVE TypeOK'
  BY <1>4 DEF Exit, Gone, TypeOK
<1>5. ASSUME NEW p \in Others \cup {Child}, Close(p) PROVE TypeOK'
  BY <1>5 DEF Close, TypeOK
<1>6. ASSUME NEW p \in Others \cup {Child}, NEW text \in Printable, Write(p, text)
      PROVE  TypeOK'
  <2>1. output' \in Texts
    BY <1>6, AppendedText DEF Write, Printable, Texts, Objects, TypeOK
  <2> QED
    BY <1>6, <2>1 DEF Write, TypeOK
<1>7. ASSUME NEW v \in Results, ChildReturns(v) PROVE TypeOK'
  BY <1>7, ResponseOf DEF ChildReturns, TypeOK
<1>8. ASSUME NEW text \in {returned, Garbage, Flood}, ChildFlushes(text) PROVE TypeOK'
  <2>1. text \in Texts
    BY <1>8 DEF ChildFlushes, Texts, Objects, TypeOK
  <2>2. output' \in Texts
    BY <1>8, <2>1, AppendedText DEF ChildFlushes, TypeOK
  <2> QED
    BY <1>8, <2>2 DEF ChildFlushes, TypeOK
<1>9. ASSUME NEW c \in {"ZERO", "NONZERO"}, ChildDies(c) PROVE TypeOK'
  <2>1. tidy' \in BOOLEAN /\ returned' \in Response \cup {NoResponse}
    BY <1>9 DEF ChildDies, TypeOK
  <2> QED
    BY <1>9, <2>1 DEF ChildDies, Gone, TypeOK
<1> QED
  BY <1>1, <1>2, <1>3, <1>4, <1>5, <1>6, <1>7, <1>8, <1>9 DEF Reader, User

-----------------------------------------------------------------------------
(* What is left of the user's processes *)

\* Every step keeps track of the processes that are still to be killed.
LEMMA NextHunt ==
    ASSUME TypeOK, Hunt, Next
    PROVE  Hunt'
<1> USE DEF procVars, childVars, readVars, cleanVars, serverVars
<1>1. CASE (\E a \in Artifacts, matches \in BOOLEAN : Bootstrap(a, matches)) \/ RunRefused \/ Run
  BY <1>1 DEF Bootstrap, RunRefused, Run, Hunt
<1>2. CASE WriteRequest \/ WriteRaises \/ WaitReturns \/ TimerExpires
  BY <1>2 DEF WriteRequest, WriteRaises, WaitReturns, TimerExpires, Hunt
<1>3. CASE KillExpired \/ JoinReader \/ JoinTimesOut
  BY <1>3 DEF KillExpired, JoinReader, JoinTimesOut, CleanUp, Hunt
<1>4. CASE ListProcesses
  BY <1>4 DEF ListProcesses, Hunt
<1>5. ASSUME NEW p \in Others, KillProcess(p) PROVE Hunt'
  BY <1>5 DEF KillProcess, Gone, Hunt
<1>6. CASE PassEnds
  <2>1. procs = {} \/ (dodged /\ forked)
    BY <1>6 DEF PassEnds, Hunt
  <2> QED
    BY <1>6, <2>1 DEF PassEnds, Hunt
<1>7. CASE Classify \/ ClassifyNone \/ Parse
  <2>1. pc \in {"classify", "parse"} /\ pc' \in {"idle", "parse"} /\ UNCHANGED <<procs, dodged>>
    BY <1>7 DEF Classify, ClassifyNone, Parse, Answer
  <2> QED
    BY <2>1 DEF Hunt
<1>8. CASE ReadChunk \/ ReadToEnd
  BY <1>8 DEF ReadChunk, ReadToEnd, Hunt
<1>9. CASE ReadTooMuch
  <2>1. procs' \subseteq procs
    BY <1>9 DEF ReadTooMuch, KillGroup, Gone
  <2> QED
    BY <1>9, <2>1 DEF ReadTooMuch, Hunt
<1>10. ASSUME NEW p \in Others \cup {Child}, NEW q \in Others,
              NEW grouped \in BOOLEAN, NEW holding \in BOOLEAN, Fork(p, q, grouped, holding)
       PROVE  Hunt'
  <2>1. procs # {} /\ (pc = "kill" => forked') /\ pc' = pc /\ dodged' = dodged
    BY <1>10 DEF Fork, Running
  <2> QED
    BY <2>1 DEF Hunt
<1>11. ASSUME NEW p \in Others, Exit(p) PROVE Hunt'
  BY <1>11 DEF Exit, Gone, Hunt
<1>12. ASSUME NEW p \in Others \cup {Child}, Close(p) PROVE Hunt'
  BY <1>12 DEF Close, Hunt
<1>13. ASSUME NEW p \in Others \cup {Child}, NEW text \in Printable, Write(p, text) PROVE Hunt'
  BY <1>13 DEF Write, Hunt
<1>14. ASSUME NEW v \in Results, ChildReturns(v) PROVE Hunt'
  BY <1>14 DEF ChildReturns, Hunt
<1>15. ASSUME NEW text \in {returned, Garbage, Flood}, ChildFlushes(text) PROVE Hunt'
  BY <1>15 DEF ChildFlushes, Hunt
<1>16. ASSUME NEW c \in {"ZERO", "NONZERO"}, ChildDies(c) PROVE Hunt'
  BY <1>16 DEF ChildDies, Gone, Hunt
<1> QED
  BY <1>1, <1>2, <1>3, <1>4, <1>5, <1>6, <1>7, <1>8, <1>9, <1>10, <1>11, <1>12, <1>13, <1>14,
     <1>15, <1>16
    DEF Next, Agent, Reader, User

-----------------------------------------------------------------------------
(* The requests, what the child says and what the agent hears of it *)

\* The end of a run leaves nothing of it behind.
LEMMA AnswerStep ==
    ASSUME TypeOK, Served, pc \in {"classify", "parse"}, NEW a, Answer(a)
    PROVE  Served' /\ Told' /\ Heard'
<1>1. Child \notin procs'
  BY DEF Answer, TypeOK
<1>2. outcome' # Refused
  BY DEF Answer, NoResponse, Refused
<1> QED
  BY <1>1, <1>2 DEF Answer, Served, Told, Heard

\* A run starts only for the release that is installed, and is refused only before the child
\* has said anything.
LEMMA NextServed ==
    ASSUME TypeOK, Served, Told, Next
    PROVE  Served'
<1> USE DEF procVars, childVars, readVars, cleanVars, serverVars
<1>0. NoResponse # Refused /\ Failure("TIMEOUT") # Refused
  BY DEF NoResponse, Refused, Failure
<1>1. ASSUME NEW a \in Artifacts, NEW matches \in BOOLEAN, Bootstrap(a, matches) PROVE Served'
  <2>1. registered' => target' = Release
    <3>1. CASE registered
      <4>1. target = Release /\ target # NoDir
        BY <3>1, AgentAssumption DEF Served
      <4> QED
        BY <1>1, <4>1 DEF Bootstrap, Installed
    <3>2. CASE ~registered
      BY <1>1, <3>2 DEF Bootstrap
    <3> QED
      BY <3>1, <3>2
  <2> QED
    BY <1>1, <2>1 DEF Bootstrap, Served
<1>2. CASE RunRefused
  BY <1>2 DEF RunRefused, Served
<1>3. CASE Run
  BY <1>0, <1>3 DEF Run, Served
<1>4. CASE WriteRequest \/ WriteRaises \/ WaitReturns \/ TimerExpires
  BY <1>4 DEF WriteRequest, WriteRaises, WaitReturns, TimerExpires, Served
<1>5. CASE KillExpired
  <2>1. /\ pc = "expired" /\ pc' = "list" /\ outcome' # Refused
        /\ UNCHANGED <<target, registered>>
    BY <1>0, <1>5 DEF KillExpired, CleanUp
  <2>2. code' # "NONE"
    BY <1>5 DEF KillExpired, KillGroup
  <2> QED
    BY <2>1, <2>2 DEF Served
<1>6. CASE JoinReader \/ JoinTimesOut \/ ListProcesses \/ PassEnds \/ ClassifyNone
  <2>1. /\ pc \notin {"idle", "write"} /\ pc' \notin {"idle", "write"}
        /\ UNCHANGED <<target, registered, procs, tidy, outcome, code>>
    BY <1>6 DEF JoinReader, JoinTimesOut, ListProcesses, PassEnds, ClassifyNone, CleanUp
  <2> QED
    BY <2>1 DEF Served
<1>7. ASSUME NEW p \in Others, KillProcess(p) PROVE Served'
  BY <1>7, AgentAssumption DEF KillProcess, Gone, Served
<1>8. CASE Classify \/ Parse
  BY <1>8, AnswerStep DEF Classify, Parse
<1>9. CASE ReadChunk \/ ReadToEnd
  BY <1>9 DEF ReadChunk, ReadToEnd, Served
<1>10. CASE ReadTooMuch
  <2>1. pc # "idle" /\ pc' = pc
    BY <1>10 DEF ReadTooMuch, Served
  <2>2. procs' \subseteq procs /\ code' # "NONE"
    BY <1>10 DEF ReadTooMuch, KillGroup, Gone
  <2> QED
    BY <1>10, <2>1, <2>2 DEF ReadTooMuch, Served
<1>11. ASSUME NEW p \in Others \cup {Child}, NEW q \in Others,
              NEW grouped \in BOOLEAN, NEW holding \in BOOLEAN, Fork(p, q, grouped, holding)
       PROVE  Served'
  BY <1>11, AgentAssumption DEF Fork, Served
<1>12. ASSUME NEW p \in Others, Exit(p) PROVE Served'
  BY <1>12, AgentAssumption DEF Exit, Gone, Served
<1>13. ASSUME NEW p \in Others \cup {Child}, Close(p) PROVE Served'
  BY <1>13 DEF Close, Served
<1>14. ASSUME NEW p \in Others \cup {Child}, NEW text \in Printable, Write(p, text) PROVE Served'
  BY <1>14 DEF Write, Served
<1>15. ASSUME NEW v \in Results, ChildReturns(v) PROVE Served'
  BY <1>15 DEF ChildReturns, Served
<1>16. ASSUME NEW text \in {returned, Garbage, Flood}, ChildFlushes(text) PROVE Served'
  <2>1. Child \in procs /\ pc \notin {"idle", "write"}
    BY <1>16 DEF ChildFlushes, Running, TypeOK
  <2> QED
    BY <1>16, <2>1 DEF ChildFlushes, Served
<1>17. ASSUME NEW c \in {"ZERO", "NONZERO"}, ChildDies(c) PROVE Served'
  <2>1. Child \in procs /\ pc # "idle"
    BY <1>17 DEF ChildDies, TypeOK
  <2>2. pc = "write" => ~tidy'
    BY <1>17 DEF ChildDies, Served
  <2> QED
    BY <1>17, <2>1, <2>2 DEF ChildDies, Served
<1> QED
  BY <1>1, <1>2, <1>3, <1>4, <1>5, <1>6, <1>7, <1>8, <1>9, <1>10, <1>11, <1>12, <1>13, <1>14,
     <1>15, <1>16, <1>17
    DEF Next, Agent, Reader, User, Printable

\* What is in the pipe and in stdout[] of an operator that prints nothing itself is its response,
\* cut or not; and nothing is written any more once it has ended tidily.
LEMMA NextTold ==
    ASSUME TypeOK, Served, Told, Next
    PROVE  Told'
<1> USE DEF procVars, childVars, readVars, cleanVars, serverVars
<1>1. CASE (\E a \in Artifacts, matches \in BOOLEAN : Bootstrap(a, matches)) \/ RunRefused
  BY <1>1 DEF Bootstrap, RunRefused, Told
<1>2. CASE Run
  BY <1>2 DEF Run, Served, Told
<1>3. CASE WriteRequest \/ WriteRaises \/ WaitReturns \/ TimerExpires
  BY <1>3 DEF WriteRequest, WriteRaises, WaitReturns, TimerExpires, Told
\* _kill_group takes the child with it.
<1>k. ASSUME KillGroup
      PROVE  (Child \in procs' => Child \in group') /\ holders' \subseteq holders
  BY <1>k DEF KillGroup, Gone, Told
<1>4. CASE KillExpired
  <2>1. (Child \in procs' => Child \in group') /\ holders' \subseteq holders
    BY <1>4, <1>k DEF KillExpired
  <2> QED
    BY <1>4, <2>1 DEF KillExpired, Told
<1>5. CASE JoinReader \/ JoinTimesOut \/ ListProcesses \/ PassEnds \/ ClassifyNone
  <2>1. UNCHANGED <<procVars, childVars, readVars>>
    BY <1>5 DEF JoinReader, JoinTimesOut, ListProcesses, PassEnds, ClassifyNone
  <2> QED
    BY <2>1 DEF Told
<1>6. ASSUME NEW p \in Others, KillProcess(p) PROVE Told'
  <2>1. Child \notin procs' /\ holders' \subseteq holders
    BY <1>6 DEF KillProcess, Gone, TypeOK
  <2> QED
    BY <1>6, <2>1 DEF KillProcess, Told
<1>7. CASE Classify \/ Parse
  BY <1>7, AnswerStep DEF Classify, Parse
<1>8. CASE ReadChunk
  <2>1. ~printed => got' \in {output, Garbage} /\ output \notin {Empty, Flood}
    BY <1>8 DEF ReadChunk, Prefixes
  <2>2. ~printed => flushed /\ got' \in {Empty, Garbage, returned}
    BY <2>1 DEF Told, TypeOK
  <2> QED
    BY <1>8, <2>2 DEF ReadChunk, Told
<1>9. CASE ReadToEnd
  BY <1>9 DEF ReadToEnd, Told
<1>10. CASE ReadTooMuch
  <2>1. (Child \in procs' => Child \in group') /\ holders' \subseteq holders
    BY <1>10, <1>k DEF ReadTooMuch
  <2> QED
    BY <1>10, <2>1 DEF ReadTooMuch, Told
<1>11. ASSUME NEW p \in Others \cup {Child}, NEW q \in Others,
              NEW grouped \in BOOLEAN, NEW holding \in BOOLEAN, Fork(p, q, grouped, holding)
       PROVE  Told'
  <2>1. q # Child /\ (holders = {} => holders' = {})
    BY <1>11, AgentAssumption DEF Fork
  <2> QED
    BY <1>11, <2>1 DEF Fork, Told
<1>12. ASSUME NEW p \in Others, Exit(p) PROVE Told'
  BY <1>12, AgentAssumption DEF Exit, Gone, Told
<1>13. ASSUME NEW p \in Others \cup {Child}, Close(p) PROVE Told'
  BY <1>13 DEF Close, Told
<1>14. ASSUME NEW p \in Others \cup {Child}, NEW text \in Printable, Write(p, text) PROVE Told'
  <2>1. ~tidy /\ printed'
    BY <1>14 DEF Write, Told
  <2>2. overflow => output' = Flood
    BY <1>14 DEF Write, Told, Appended
  <2> QED
    BY <1>14, <2>1, <2>2 DEF Write, Told
<1>15. ASSUME NEW v \in Results, ChildReturns(v) PROVE Told'
  <2>1. ~flushed /\ ~tidy
    BY <1>15 DEF ChildReturns, Told
  <2> QED
    BY <1>15, <2>1 DEF ChildReturns, Told
<1>16. ASSUME NEW text \in {returned, Garbage, Flood}, ChildFlushes(text) PROVE Told'
  <2>1. ~tidy /\ ~flushed /\ returned # NoResponse /\ flushed' /\ returned' = returned
    BY <1>16 DEF ChildFlushes, Told
  <2>2. ~printed => output' = text /\ got = Empty
    BY <1>16, <2>1, TextsDiffer DEF ChildFlushes, Told, Appended
  <2>3. overflow => output' = Flood
    BY <1>16 DEF ChildFlushes, Told, Appended
  <2> QED
    BY <1>16, <2>1, <2>2, <2>3 DEF ChildFlushes, Told
<1>17. ASSUME NEW c \in {"ZERO", "NONZERO"}, ChildDies(c) PROVE Told'
  <2>1. flushed => returned' = returned
    BY <1>17 DEF ChildDies
  <2>2. tidy' => holders' = {} /\ output = returned /\ flushed /\ ~printed
    BY <1>17 DEF ChildDies, Gone
  <2>3. Child \notin procs'
    BY <1>17 DEF ChildDies, Gone
  <2> QED
    BY <1>17, <2>1, <2>2, <2>3 DEF ChildDies, Told
<1> QED
  BY <1>1, <1>2, <1>3, <1>4, <1>5, <1>6, <1>7, <1>8, <1>9, <1>10, <1>11, <1>12, <1>13, <1>14,
     <1>15, <1>16, <1>17
    DEF Next, Agent, Reader, User

\* The agent looks at stdout[] only when the reader is through, if nobody holds the pipe.
LEMMA NextHeard ==
    ASSUME TypeOK, Served, Told, Heard, Next
    PROVE  Heard'
<1> USE DEF procVars, childVars, readVars, cleanVars, serverVars
<1>1. CASE (\E a \in Artifacts, matches \in BOOLEAN : Bootstrap(a, matches)) \/ RunRefused
  BY <1>1 DEF Bootstrap, RunRefused, Heard
<1>2. CASE Run
  BY <1>2 DEF Run, Heard
<1>3. CASE WriteRequest \/ WriteRaises \/ WaitReturns \/ TimerExpires
  BY <1>3 DEF WriteRequest, WriteRaises, WaitReturns, TimerExpires, Heard
<1>4. CASE KillExpired
  BY <1>4 DEF KillExpired, CleanUp, Heard
<1>5. CASE JoinReader \/ JoinTimesOut
  <2>1. pc = "join" /\ (reader = "done" \/ holders # {})
    BY <1>5 DEF JoinReader, JoinTimesOut
  <2>2. tidy => reader = "done"
    BY <2>1 DEF Told
  <2> QED
    BY <1>5, <2>1, <2>2 DEF JoinReader, JoinTimesOut, CleanUp, Heard
<1>6. CASE ListProcesses \/ PassEnds \/ ClassifyNone
  BY <1>6 DEF ListProcesses, PassEnds, ClassifyNone, Heard
<1>7. ASSUME NEW p \in Others, KillProcess(p) PROVE Heard'
  BY <1>7 DEF KillProcess, Heard
<1>8. CASE Classify \/ Parse
  BY <1>8, AnswerStep DEF Classify, Parse
<1>9. CASE ReadChunk \/ ReadToEnd \/ ReadTooMuch
  BY <1>9 DEF ReadChunk, ReadToEnd, ReadTooMuch, Heard
<1>10. ASSUME NEW p \in Others \cup {Child}, NEW q \in Others,
              NEW grouped \in BOOLEAN, NEW holding \in BOOLEAN, Fork(p, q, grouped, holding)
       PROVE  Heard'
  BY <1>10 DEF Fork, Heard
<1>11. ASSUME NEW p \in Others, Exit(p) PROVE Heard'
  BY <1>11 DEF Exit, Heard
<1>12. ASSUME NEW p \in Others \cup {Child}, Close(p) PROVE Heard'
  BY <1>12 DEF Close, Heard
<1>13. ASSUME NEW p \in Others \cup {Child}, NEW text \in Printable, Write(p, text) PROVE Heard'
  BY <1>13 DEF Write, Heard
<1>14. ASSUME NEW v \in Results, ChildReturns(v) PROVE Heard'
  BY <1>14 DEF ChildReturns, Heard
<1>15. ASSUME NEW text \in {returned, Garbage, Flood}, ChildFlushes(text) PROVE Heard'
  BY <1>15 DEF ChildFlushes, Heard
<1>16. ASSUME NEW c \in {"ZERO", "NONZERO"}, ChildDies(c) PROVE Heard'
  <2>1. pc \in {"write", "wait", "expired"}
    BY <1>16 DEF ChildDies, TypeOK
  <2> QED
    BY <1>16, <2>1 DEF ChildDies, Heard
<1> QED
  BY <1>1, <1>2, <1>3, <1>4, <1>5, <1>6, <1>7, <1>8, <1>9, <1>10, <1>11, <1>12, <1>13, <1>14,
     <1>15, <1>16
    DEF Next, Agent, Reader, User

-----------------------------------------------------------------------------
(* The answer of a run *)

\* What AnswersSound says of a step that answers a run.
Sound ==
    /\ target = Release
    /\ tidy => answer' \in {returned, Failure("TIMEOUT")}
    /\ ~printed =>
          /\ answer'.status = "SUCCEEDED" => answer' = returned /\ ~answer'.retryable
          /\ answer'.status = "FAILED" => answer'.code # ""
          /\ answer'.status # "OTHER"
    /\ answer' = Failure("OUTPUT_LIMIT") => output = Flood
    /\ answer' = Failure("USER_PROCESS_EXITED") => code = "NONZERO" /\ ~tidy

\* A JSON object, also a forged one, is none of the agent's own failures.  (OWN is.)
LEMMA ObjectNoError ==
    ASSUME NEW r \in Objects, NEW e \in Errors
    PROVE  r # Failure(e)
<1>1. CASE r \in Response
  BY <1>1, Normalized
<1>2. CASE r \in Forged
  <2>1. r.code \in {"", "OWN"}
    BY <1>2, AgentAssumption
  <2>2. Failure(e).code = e /\ e \notin {"", "OWN"}
    BY DEF Failure, Errors
  <2> QED
    BY <2>1, <2>2
<1> QED
  BY <1>1, <1>2 DEF Objects

\* The child's own response is neither nothing nor too much.
LEMMA TidyResponse ==
    ASSUME TypeOK, Told, tidy
    PROVE  returned \in Response /\ output = returned /\ output \in Objects /\ ~overflow
<1>1. returned \in Response /\ output = returned
  BY DEF Told, TypeOK
<1>2. output \in Objects
  BY <1>1 DEF Objects
<1>3. output # Flood
  BY <1>2, ObjectOf
<1> QED
  BY <1>1, <1>2, <1>3 DEF Told

\* TIMEOUT, HTTP 400 and OUTPUT_LIMIT.
LEMMA ClassifySound ==
    ASSUME Inv, Classify
    PROVE  Sound
<1>1. pc = "classify" /\ target = Release
  BY DEF Classify, Inv, Served
<1>2. CASE outcome # NoResponse
  <2>1. answer' = outcome /\ outcome \in {Failure("TIMEOUT"), Refused}
    BY <1>2 DEF Classify, Answer, Inv, TypeOK
  <2>2. tidy => answer' = Failure("TIMEOUT")
    BY <2>1 DEF Inv, Served
  <2>3. CASE answer' = Failure("TIMEOUT")
    BY <1>1, <2>3 DEF Sound, Failure
  <2>4. CASE answer' = Refused
    <3>1. answer'.status = "HTTP_ERROR"
      BY <2>4 DEF Refused
    <3>2. answer' # Failure("OUTPUT_LIMIT") /\ answer' # Failure("USER_PROCESS_EXITED")
      BY <3>1 DEF Failure
    <3> QED
      BY <1>1, <2>2, <3>1, <3>2 DEF Sound
  <2> QED
    BY <2>1, <2>3, <2>4
<1>3. CASE outcome = NoResponse
  <2>1. answer' = Failure("OUTPUT_LIMIT") /\ overflow
    BY <1>3 DEF Classify, Answer
  <2>2. ~tidy /\ output = Flood
    BY <2>1, TidyResponse DEF Inv, Told
  <2> QED
    BY <1>1, <2>1, <2>2 DEF Sound, Failure
<1> QED
  BY <1>2, <1>3

\* What is made of stdout and the exit code.
LEMMA ParseSound ==
    ASSUME Inv, Parse
    PROVE  Sound
<1>1. pc = "parse" /\ target = Release
  BY DEF Parse, Inv, Served
<1>2. code \in {"ZERO", "NONZERO"}
  BY <1>1 DEF Inv, Served, TypeOK
<1>3. tidy => got = returned /\ got \in Objects /\ got # Empty
  <2>1. HAVE tidy
  <2>2. returned \in Response /\ output = returned /\ output \in Objects /\ ~overflow
    BY <2>1, TidyResponse DEF Inv
  <2>3. got = output
    BY <1>1, <2>1, <2>2 DEF Inv, Heard
  <2> QED
    BY <2>2, <2>3, ObjectOf
<1>4. CASE code # "ZERO" /\ got = Empty
  <2>1. answer' = Failure("USER_PROCESS_EXITED")
    BY <1>4 DEF Parse, Answer
  <2> QED
    BY <1>1, <1>2, <1>3, <1>4, <2>1 DEF Sound, Failure
<1>5. CASE ~(code # "ZERO" /\ got = Empty) /\ got \in Objects
  <2>1. answer' = got
    BY <1>5 DEF Parse, Answer
  <2>2. answer' # Failure("OUTPUT_LIMIT") /\ answer' # Failure("USER_PROCESS_EXITED")
    BY <1>5, <2>1, ObjectNoError DEF Errors
  <2>3. got \notin {Empty, Garbage}
    BY <1>5, ObjectOf
  <2>4. ~printed => got = returned /\ got \in Response
    <3>1. HAVE ~printed
    <3>2. flushed /\ got = returned
      BY <2>3, <3>1 DEF Inv, Told, TypeOK
    <3> QED
      BY <3>2 DEF Inv, Told, TypeOK
  <2>5. ~printed =>
           /\ answer'.status = "SUCCEEDED" => answer' = returned /\ ~answer'.retryable
           /\ answer'.status = "FAILED" => answer'.code # ""
           /\ answer'.status # "OTHER"
    BY <2>1, <2>4, Normalized
  <2> QED
    BY <1>1, <1>3, <2>1, <2>2, <2>5 DEF Sound
<1>6. CASE ~(code # "ZERO" /\ got = Empty) /\ got \notin Objects
  <2>1. answer' \in {Refused, Failure("INVALID_CHILD_RESPONSE")}
    BY <1>6 DEF Parse, Answer
  <2>2. ~tidy
    BY <1>3, <1>6
  <2>3. CASE answer' = Failure("INVALID_CHILD_RESPONSE")
    BY <1>1, <2>2, <2>3 DEF Sound, Failure
  <2>4. CASE answer' = Refused
    <3>1. answer'.status = "HTTP_ERROR"
      BY <2>4 DEF Refused
    <3>2. answer' # Failure("OUTPUT_LIMIT") /\ answer' # Failure("USER_PROCESS_EXITED")
      BY <3>1 DEF Failure
    <3> QED
      BY <1>1, <2>2, <3>1, <3>2 DEF Sound
  <2> QED
    BY <2>1, <2>3, <2>4
<1> QED
  BY <1>4, <1>5, <1>6

\* No other step answers a run.
LEMMA OnlyAnswersEnd ==
    ASSUME Next, pc # "idle", pc' = "idle"
    PROVE  Classify \/ Parse
<1> USE DEF procVars, childVars, readVars, cleanVars, serverVars
<1>1. ~(\E a \in Artifacts, matches \in BOOLEAN : Bootstrap(a, matches)) /\ ~RunRefused /\ ~Run
  BY DEF Bootstrap, RunRefused, Run
<1>2. ~Reader
  BY DEF Reader, ReadChunk, ReadToEnd, ReadTooMuch
<1>3. ~User
  BY DEF User, Fork, Exit, Close, Write, ChildReturns, ChildFlushes, ChildDies
<1>4. ~(WriteRequest \/ WriteRaises \/ WaitReturns \/ TimerExpires \/ ListProcesses \/ ClassifyNone)
  BY DEF WriteRequest, WriteRaises, WaitReturns, TimerExpires, ListProcesses, ClassifyNone
<1>5. ~(KillExpired \/ JoinReader \/ JoinTimesOut)
  BY DEF KillExpired, JoinReader, JoinTimesOut, CleanUp
<1>6. ~PassEnds /\ ~(\E p \in Others : KillProcess(p))
  BY DEF PassEnds, KillProcess
<1> QED
  BY <1>1, <1>2, <1>3, <1>4, <1>5, <1>6 DEF Next, Agent

-----------------------------------------------------------------------------
(* Theorems *)

\* Inv holds in every state of every behaviour.
LEMMA Inductive == Spec => []Inv
<1>1. Init => Inv
  <2> SUFFICES ASSUME Init PROVE Inv
    OBVIOUS
  <2>1. TypeOK
    <3>1. 1 \in 1..Passes
      BY DEF Passes
    <3>2. Empty \in Texts
      BY DEF Texts
    <3> QED
      BY <3>1, <3>2, AgentAssumption DEF Init, TypeOK
  <2>2. NoResponse # Refused
    BY DEF NoResponse, Refused
  <2>3. Hunt /\ Served /\ Told /\ Heard
    BY <2>2 DEF Init, Hunt, Served, Told, Heard
  <2> QED
    BY <2>1, <2>3 DEF Inv
<1>2. Inv /\ [Next]_vars => Inv'
  <2> SUFFICES ASSUME Inv, [Next]_vars PROVE Inv'
    OBVIOUS
  <2>1. CASE Next
    <3>1. TypeOK'
      BY <2>1, AgentTyped, OthersTyped DEF Next, Inv
    <3> QED
      BY <2>1, <3>1, NextHunt, NextServed, NextTold, NextHeard DEF Inv
  <2>2. CASE UNCHANGED vars
    <3> USE <2>2 DEF vars, procVars, childVars, readVars, cleanVars, serverVars
    <3>1. TypeOK'
      BY DEF Inv, TypeOK
    <3>2. Hunt' /\ Served' /\ Told' /\ Heard'
      BY DEF Inv, Hunt, Served, Told, Heard
    <3> QED
      BY <3>1, <3>2 DEF Inv
  <2> QED
    BY <2>1, <2>2
<1> QED
  BY <1>1, <1>2, PTL DEF Spec

\* The agent, its reader and the user's processes keep every variable in its set, in any
\* interleaving; in particular the child is alive only while the agent is waiting for it.
THEOREM TypeCorrect == Spec => []TypeOK
BY Inductive, PTL DEF Inv

\* For any number of processes that fork, daemonise and exit as they like while
\* _kill_user_processes walks /proc: what survives an answered run has forked in every pass.
THEOREM QuietAlways == Spec => []AnswerQuiet
<1>1. Inv => AnswerQuiet
  BY DEF Inv, Hunt, AnswerQuiet
<1> QED
  BY <1>1, Inductive, PTL

\* For any number of processes and any results: a run is answered for the release that was asked
\* for; an operator that prints nothing itself, whose response fits and that leaves nobody at its
\* pipe is answered with its response or TIMEOUT, whatever its exit code; one that prints nothing
\* itself, however it ends, is never taken for a success that it did not return; OUTPUT_LIMIT and
\* USER_PROCESS_EXITED have their cause.
THEOREM SoundAlways == Spec => AnswersSound
<1>1. ASSUME Inv, [Next]_vars, pc # "idle", pc' = "idle" PROVE Sound
  <2>1. Next
    BY <1>1 DEF vars
  <2>2. Classify \/ Parse
    BY <1>1, <2>1, OnlyAnswersEnd
  <2> QED
    BY <1>1, <2>2, ClassifySound, ParseSound
<1>2. Inv /\ [Next]_vars => [pc # "idle" /\ pc' = "idle" => Sound]_vars
  BY <1>1
<1>3. Inv /\ [Next]_vars =>
         [pc # "idle" /\ pc' = "idle" =>
          /\ target = Release
          /\ tidy => answer' \in {returned, Failure("TIMEOUT")}
          /\ ~printed =>
                /\ answer'.status = "SUCCEEDED" => answer' = returned /\ ~answer'.retryable
                /\ answer'.status = "FAILED" => answer'.code # ""
                /\ answer'.status # "OTHER"
          /\ answer' = Failure("OUTPUT_LIMIT") => output = Flood
          /\ answer' = Failure("USER_PROCESS_EXITED") => code = "NONZERO" /\ ~tidy]_vars
  BY <1>2 DEF Sound
<1> QED
  BY <1>3, Inductive, PTL DEF Spec, AnswersSound

=============================================================================
