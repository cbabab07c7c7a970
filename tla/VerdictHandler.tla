---------------------------- MODULE VerdictHandler ----------------------------
(***************************************************************************)
(* handle() of judge_core_agent (verdict/mod.rs): one task, from its work  *)
(* directory over the compiler to the batches of cases, under its two      *)
(* callers, which Init chooses between:                                    *)
(*   "agent"       a process in a container serving the manager's          *)
(*                 connections (judge_core_agent main.rs).  The manager    *)
(*                 gives up a slow attempt and sends the frame again under *)
(*                 the same id; a new manager counts its ids from the      *)
(*                 start.  Neither stops the handler of the old frame.     *)
(*   "standalone"  an HTTP service (judge_core_standalone): every request  *)
(*                 has an id of its own, a client that goes away takes its *)
(*                 handler along, a restart counts from the start.         *)
(* The directory is named by the id, so handlers may meet in it.  A case   *)
(* is CaseRunner's; here it answers what the executable's source deserves. *)
(***************************************************************************)
EXTENDS Naturals, Sequences, FiniteSets, FiniteSetsExt

CONSTANTS
  Handlers,    \* connections or requests
  Tasks,       \* VerdictTask values
  Compiles,    \* the tasks whose source compiles
  StopOnFirst, \* the tasks with stop_on_first_error
  Answers,     \* of each task: what its cases deserve, "accepted" or not
  NoTask,
  BatchMax,    \* BATCH_MAX
  MaxFrame,    \* bound: frame ids
  MaxFaults    \* bound: handlers that meet a failing call or a slow compiler

Verdicts == {"accepted", "wrong"}

ASSUME HandlerAssumption ==
  /\ NoTask \notin Tasks
  /\ Compiles \subseteq Tasks /\ StopOnFirst \subseteq Tasks
  /\ Answers \in [Tasks -> Seq(Verdicts)]
  /\ BatchMax \in Nat \ {0}
  /\ MaxFrame \in Nat \ {0} /\ MaxFaults \in Nat

VARIABLES
  driver,    \* "agent" or "standalone"
  process,   \* "serving", "draining", "exited"
  nextFrame, \* next_frame_id of the manager, TASK_ID of the service
  client,    \* of each handler: "none", "waiting", "gaveUp", "gone", "answered"
  frame,     \* its frame id
  task,      \* its task
  stage,     \* "free", "preparing", "writing", "compiling", "linking", "running",
             \* "cleaning", "replying", "ended", "dropped", or "compiles on",
             \* "links on": dropped, with its compiler still at work
  cases,     \* per case: "queued", "flying", "error" or its verdict
  joined,    \* the cases the join loop has seen
  result,    \* [kind, cases]
  hit,       \* history: it met a failing call or a slow compiler
  met,       \* history: the handlers it shared the directory with
  work       \* the directory of each id: [dir, source, object, exe]

handlerVars == <<client, frame, task, stage, cases, joined, result, hit, met>>
vars == <<driver, process, nextFrame, handlerVars, work>>

Frames == 1 .. MaxFrame
Gone == [dir |-> FALSE, source |-> NoTask, object |-> NoTask, exe |-> NoTask]
Active(h) == stage[h] \notin {"free", "ended", "dropped"}
Result(kind, seen) == [kind |-> kind, cases |-> seen]
NoResult == Result("none", <<>>)
Dir(h) == work[frame[h]]

Init ==
  /\ driver \in {"agent", "standalone"}
  /\ process = "serving"
  /\ nextFrame = 1
  /\ client = [h \in Handlers |-> "none"]
  /\ frame = [h \in Handlers |-> 1]
  /\ task = [h \in Handlers |-> NoTask]
  /\ stage = [h \in Handlers |-> "free"]
  /\ cases = [h \in Handlers |-> <<>>]
  /\ joined = [h \in Handlers |-> {}]
  /\ result = [h \in Handlers |-> NoResult]
  /\ hit = [h \in Handlers |-> FALSE]
  /\ met = [h \in Handlers |-> {}]
  /\ work = [f \in Frames |-> Gone]

Step(h, from, next) == stage[h] = from /\ stage' = [stage EXCEPT ![h] = next]

SetDir(h, d) == work' = [work EXCEPT ![frame[h]] = d]

-----------------------------------------------------------------------------
(* The callers.                                                            *)

(* A connection is accepted and its frame received. *)
Receive(h, f, t) ==
  /\ process = "serving" /\ stage[h] = "free"
  /\ frame' = [frame EXCEPT ![h] = f]
  /\ task' = [task EXCEPT ![h] = t]
  /\ stage' = [stage EXCEPT ![h] = "preparing"]
  /\ LET others == {g \in Handlers : Active(g) /\ frame[g] = f}
     IN met' = [g \in Handlers |-> IF g = h THEN others
                                   ELSE IF g \in others THEN met[g] \cup {h} ELSE met[g]]
  /\ UNCHANGED <<driver, process, cases, joined, result, hit, work>>

Submit(h) ==
  /\ nextFrame <= MaxFrame
  /\ nextFrame' = nextFrame + 1
  /\ client' = [client EXCEPT ![h] = "waiting"]
  /\ \E t \in Tasks : Receive(h, nextFrame, t)

(* The manager's task timeout. *)
GiveUp(h) ==
  /\ driver = "agent"
  /\ client[h] = "waiting"
  /\ client' = [client EXCEPT ![h] = "gaveUp"]
  /\ UNCHANGED <<driver, process, nextFrame, frame, task, stage, cases, joined, result, hit,
                 met, work>>

(* The task is dispatched again, with its frame id. *)
Retry(h, g) ==
  /\ driver = "agent"
  /\ client[g] = "gaveUp" /\ h # g
  /\ client' = [client EXCEPT ![h] = "waiting", ![g] = "gone"]
  /\ Receive(h, frame[g], task[g])
  /\ UNCHANGED nextFrame

NewManager ==
  /\ driver = "agent"
  /\ nextFrame > 1
  /\ nextFrame' = 1
  /\ client' = [h \in Handlers |-> IF client[h] \in {"waiting", "gaveUp"} THEN "gone"
                                   ELSE client[h]]
  /\ UNCHANGED <<driver, process, frame, task, stage, cases, joined, result, hit, met, work>>

(* The compiler is spawned without kill_on_drop: it outlives the handler.  *)
WithoutHandler(h) ==
  CASE stage[h] \in {"compiling", "compiles on"} -> "compiles on"
    [] stage[h] \in {"linking", "links on"} -> "links on"
    [] OTHER -> "dropped"

(* The futures in H are dropped: nothing after their last await runs, but  *)
(* the compilers of those in on.                                           *)
DropAll(H, on) ==
  /\ stage' = [h \in Handlers |-> IF h \in H /\ Active(h)
                                  THEN IF h \in on THEN WithoutHandler(h) ELSE "dropped"
                                  ELSE stage[h]]
  /\ client' = [h \in Handlers |-> IF h \in H /\ client[h] = "waiting" THEN "gone"
                                   ELSE client[h]]
  /\ UNCHANGED <<driver, frame, task, cases, joined, result, hit, met, work>>

Disconnect(h) ==
  /\ driver = "standalone"
  /\ client[h] = "waiting"
  /\ DropAll({h}, {h})
  /\ UNCHANGED <<process, nextFrame>>

(* The service is killed and started again: its files are still there,     *)
(* and compilers, unless a container takes them along.                     *)
Restart ==
  /\ driver = "standalone"
  /\ nextFrame > 1
  /\ nextFrame' = 1
  /\ \E on \in SUBSET Handlers : DropAll(Handlers, on)
  /\ UNCHANGED process

Interrupt ==
  /\ driver = "agent"
  /\ process = "serving"
  /\ process' = "draining"
  /\ UNCHANGED <<driver, nextFrame, handlerVars, work>>

Drained ==
  /\ process = "draining"
  /\ \A h \in Handlers : ~Active(h)
  /\ process' = "exited"
  /\ UNCHANGED <<driver, nextFrame, handlerVars, work>>

DrainWaits ==                         \* slip: no timeout around the join
  /\ process = "draining" /\ \A h \in Handlers : ~Active(h)
  /\ process' = "exited"
  /\ DropAll(Handlers, {})
  /\ UNCHANGED nextFrame

DrainTimeout ==
  /\ process = "draining"
  /\ process' = "exited"
  /\ DropAll(Handlers, {})
  /\ UNCHANGED nextFrame

(* The compiler that was left alone is done with the files it finds, or    *)
(* fails.                                                                  *)
CompilerEnds(h) ==
  /\ \/ /\ Dir(h).source \in Compiles
        /\ Step(h, "compiles on", "dropped")
        /\ SetDir(h, [Dir(h) EXCEPT !.object = Dir(h).source])
     \/ /\ Dir(h).object # NoTask
        /\ Step(h, "links on", "dropped")
        /\ SetDir(h, [Dir(h) EXCEPT !.exe = Dir(h).object])
     \/ /\ stage[h] \in {"compiles on", "links on"}
        /\ Step(h, stage[h], "dropped") /\ UNCHANGED work
  /\ UNCHANGED <<driver, process, nextFrame, client, frame, task, cases, joined, result, hit, met>>

Callers ==
  \/ \E h \in Handlers :
       Submit(h) \/ GiveUp(h) \/ Disconnect(h) \/ CompilerEnds(h) \/ \E g \in Handlers : Retry(h, g)
  \/ NewManager \/ Restart \/ Interrupt \/ Drained \/ DrainTimeout

-----------------------------------------------------------------------------
(* handle().                                                               *)

(* The handler leaves the stage with a result, for the stage next. *)
Finish(h, r, next) ==
  /\ result' = [result EXCEPT ![h] = r]
  /\ stage' = [stage EXCEPT ![h] = next]

Hit(h) ==
  /\ Cardinality({g \in Handlers : hit[g]}) < MaxFaults
  /\ hit' = [hit EXCEPT ![h] = TRUE]

handling == <<driver, process, nextFrame, client, frame, task, met>>

(* create_dir_all: a directory that exists is taken as it is. *)
Prepare(h) ==
  /\ Step(h, "preparing", "writing")
  /\ SetDir(h, [Dir(h) EXCEPT !.dir = TRUE])
  /\ UNCHANGED <<handling, cases, joined, result, hit>>

PrepareFails(h) ==
  /\ stage[h] = "preparing" /\ Hit(h)
  /\ Finish(h, Result("internal", <<>>), "replying")
  /\ UNCHANGED <<handling, cases, joined, work>>

WriteSource(h) ==
  /\ Dir(h).dir
  /\ Step(h, "writing", "compiling")
  /\ SetDir(h, [Dir(h) EXCEPT !.source = task[h]])
  /\ UNCHANGED <<handling, cases, joined, result, hit>>

(* compile() returns an error: no directory, or a failing call. *)
CompileFails(h) ==
  /\ stage[h] \in {"writing", "compiling", "linking"}
  /\ IF Dir(h).dir THEN Hit(h) ELSE hit' = hit
  /\ Finish(h, Result("internal", <<>>), "cleaning")
  /\ UNCHANGED <<handling, cases, joined, work>>

CompilerSlow(h) ==
  /\ stage[h] \in {"compiling", "linking"} /\ Hit(h)
  /\ Finish(h, Result("timeout", <<>>), "cleaning")
  /\ UNCHANGED <<handling, cases, joined, work>>

(* g++ -c; the link that follows begins a new executable. *)
Compile(h) ==
  /\ Dir(h).source \in Compiles
  /\ Step(h, "compiling", "linking")
  /\ SetDir(h, [Dir(h) EXCEPT !.object = Dir(h).source, !.exe = NoTask])
  /\ UNCHANGED <<handling, cases, joined, result, hit>>

Queued(t) == [i \in 1 .. Len(Answers[t]) |-> "queued"]

Link(h) ==
  /\ Dir(h).object # NoTask
  /\ Step(h, "linking", "running")
  /\ SetDir(h, [Dir(h) EXCEPT !.exe = Dir(h).object])
  /\ cases' = [cases EXCEPT ![h] = Queued(task[h])]
  /\ joined' = [joined EXCEPT ![h] = {}]
  /\ UNCHANGED <<handling, result, hit>>

CompileErrorReplies(h) ==             \* slip: an early return without cleanup
  /\ \/ stage[h] = "compiling" /\ Dir(h).source \notin Compiles
     \/ stage[h] = "linking" /\ Dir(h).object = NoTask
  /\ Finish(h, Result("compile", <<>>), "replying")
  /\ UNCHANGED <<handling, cases, joined, hit, work>>

(* The compiler or the linker exits with an error: its input is not good,  *)
(* or not there.                                                           *)
CompileError(h) ==
  /\ \/ stage[h] = "compiling" /\ Dir(h).source \notin Compiles
     \/ stage[h] = "linking" /\ Dir(h).object = NoTask
  /\ Finish(h, Result("compile", <<>>), "cleaning")
  /\ UNCHANGED <<handling, cases, joined, hit, work>>

All(h) == 1 .. Len(cases[h])
Flying(h) == {i \in All(h) : cases[h][i] # "queued"} \ joined[h]
Left(h) == {i \in All(h) : cases[h][i] = "queued"}

SpawnBatch(h) ==
  /\ stage[h] = "running" /\ Flying(h) = {} /\ Left(h) # {}
  /\ LET batch == {i \in Left(h) : i < Min(Left(h)) + BatchMax}
     IN cases' = [cases EXCEPT ![h] = [i \in All(h) |-> IF i \in batch THEN "flying" ELSE @[i]]]
  /\ UNCHANGED <<handling, stage, joined, result, hit, work>>

(* A case of the batch runs what is in the directory now (CaseRunner).     *)
(* Another task's program may answer anything.                             *)
Run(h, i) ==
  /\ stage[h] = "running" /\ i \in All(h) /\ cases[h][i] = "flying"
  /\ \/ /\ Dir(h).exe # NoTask
        /\ \E v \in Verdicts : /\ Dir(h).exe = task[h] => v = Answers[task[h]][i]
                               /\ cases' = [cases EXCEPT ![h][i] = v]
        /\ hit' = hit
     \/ /\ Dir(h).exe # NoTask => Hit(h)
        /\ Dir(h).exe = NoTask => hit' = hit
        /\ cases' = [cases EXCEPT ![h][i] = "error"]
  /\ UNCHANGED <<handling, stage, joined, result, work>>

JoinIgnoresError(h, i) ==             \* slip: an error is passed over
  /\ stage[h] = "running" /\ i \in Flying(h) /\ cases[h][i] # "flying"
  /\ IF cases[h][i] = "wrong" /\ task[h] \in StopOnFirst
     THEN Finish(h, Result("stopped", <<cases[h][i]>>), "cleaning") /\ joined' = joined
     ELSE joined' = [joined EXCEPT ![h] = @ \cup {i}] /\ UNCHANGED <<stage, result>>
  /\ UNCHANGED <<handling, cases, hit, work>>

(* join_next: in the order of completion; an end here aborts the rest. *)
Join(h, i) ==
  /\ stage[h] = "running" /\ i \in Flying(h) /\ cases[h][i] # "flying"
  /\ IF cases[h][i] = "error"
     THEN Finish(h, Result("internal", <<>>), "cleaning") /\ joined' = joined
     ELSE IF cases[h][i] # "accepted" /\ task[h] \in StopOnFirst
     THEN Finish(h, Result("stopped", <<cases[h][i]>>), "cleaning") /\ joined' = joined
     ELSE joined' = [joined EXCEPT ![h] = @ \cup {i}] /\ UNCHANGED <<stage, result>>
  /\ UNCHANGED <<handling, cases, hit, work>>

AllJudgedEarly(h) ==                  \* slip: the last batch's verdicts are not looked at
  /\ stage[h] = "running" /\ Left(h) = {} /\ \A i \in Flying(h) : cases[h][i] # "flying"
  /\ Finish(h, IF All(h) = {} \/ task[h] \in StopOnFirst THEN Result("passed", <<>>)
               ELSE Result("collected", cases[h]), "cleaning")
  /\ UNCHANGED <<handling, cases, joined, hit, work>>

(* Without cases the answer is AllPassed in either mode. *)
AllJudged(h) ==
  /\ stage[h] = "running" /\ joined[h] = All(h)
  /\ Finish(h, IF All(h) = {} \/ task[h] \in StopOnFirst THEN Result("passed", <<>>)
               ELSE Result("collected", cases[h]), "cleaning")
  /\ UNCHANGED <<handling, cases, joined, hit, work>>

(* remove_dir_all; its error is ignored. *)
Cleanup(h) ==
  /\ Step(h, "cleaning", "replying")
  /\ SetDir(h, Gone)
  /\ UNCHANGED <<handling, cases, joined, result, hit>>

CleanupFails(h) ==
  /\ Step(h, "cleaning", "replying")
  /\ Hit(h)
  /\ UNCHANGED <<handling, cases, joined, result, work>>

(* send, to a client that may have gone. *)
Reply(h) ==
  /\ Step(h, "replying", "ended")
  /\ client' = [client EXCEPT ![h] = IF @ = "waiting" THEN "answered" ELSE @]
  /\ UNCHANGED <<driver, process, nextFrame, frame, task, cases, joined, result, hit, met, work>>

Handle(h) ==
  \/ Prepare(h) \/ PrepareFails(h) \/ WriteSource(h) \/ CompileFails(h) \/ CompilerSlow(h)
  \/ Compile(h) \/ Link(h) \/ CompileError(h)
  \/ SpawnBatch(h) \/ AllJudged(h)
  \/ \E i \in All(h) : Run(h, i) \/ Join(h, i)
  \/ Cleanup(h) \/ CleanupFails(h) \/ Reply(h)

Next == Callers \/ \E h \in Handlers : Handle(h)

Spec == Init /\ [][Next]_vars

(* The runtime polls the handlers and the timer fires; a case may hang     *)
(* (CaseRunner), so running one is not fair.                               *)
FairSpec ==
  /\ Spec
  /\ WF_vars(Drained) /\ WF_vars(DrainTimeout)

-----------------------------------------------------------------------------
(* Properties.                                                             *)

CaseStates == {"queued", "flying", "error"} \cup Verdicts
Kinds == {"none", "internal", "timeout", "compile", "stopped", "passed", "collected"}
Results == [kind : Kinds, cases : Seq(Verdicts)]
Dirs == [dir : BOOLEAN, source : Tasks \cup {NoTask}, object : Tasks \cup {NoTask},
         exe : Tasks \cup {NoTask}]

(* Every variable has its type. *)
TypeOK ==
  /\ driver \in {"agent", "standalone"}
  /\ process \in {"serving", "draining", "exited"}
  /\ nextFrame \in 1 .. MaxFrame + 1
  /\ client \in [Handlers -> {"none", "waiting", "gaveUp", "gone", "answered"}]
  /\ frame \in [Handlers -> Frames]
  /\ task \in [Handlers -> Tasks \cup {NoTask}]
  /\ stage \in [Handlers -> {"free", "preparing", "writing", "compiling", "linking",
                             "running", "cleaning", "replying", "ended", "dropped",
                             "compiles on", "links on"}]
  /\ cases \in [Handlers -> Seq(CaseStates)]
  /\ joined \in [Handlers -> SUBSET Nat]
  /\ result \in [Handlers -> Results]
  /\ hit \in [Handlers -> BOOLEAN]
  /\ met \in [Handlers -> SUBSET Handlers]
  /\ work \in [Frames -> Dirs]

(* What the cases of task t allow as an answer. *)
Answered(t, r) ==
  CASE r.kind = "passed" -> \A i \in 1 .. Len(Answers[t]) : Answers[t][i] = "accepted"
    [] r.kind = "stopped" -> t \in StopOnFirst /\ \E i \in 1 .. Len(Answers[t]) :
                               r.cases = <<Answers[t][i]>> /\ Answers[t][i] # "accepted"
    [] r.kind = "collected" -> r.cases = Answers[t]
    [] OTHER -> TRUE

(* A verdict on the cases is the task's own, whatever an earlier handler   *)
(* left behind in the directory and however attempts of the task that the  *)
(* manager gave up run on beside it; only tasks of two managers, or of two *)
(* lives of the service, under one id can spoil it.                        *)
VerdictIsOwn ==
  \A h \in Handlers :
    (\A g \in met[h] : task[g] = task[h]) => Answered(task[h], result[h])

(* Alone in its directory, a handler reports a compilation error only of a *)
(* source that does not compile, and an internal error or a timeout only   *)
(* if something failed.                                                    *)
ErrorsAreOwn ==
  \A h \in Handlers :
    met[h] = {} =>
      /\ result[h].kind = "compile" => task[h] \notin Compiles
      /\ result[h].kind \in {"internal", "timeout"} => hit[h]

(* What a client is told is the outcome of its own task: neither leftovers *)
(* of a directory nor a handler beside it change a verdict or an error.    *)
OutcomeIsOwn == VerdictIsOwn /\ ErrorsAreOwn

(* A directory is there only while a handler uses it, unless a handler of  *)
(* that id was dropped or could not remove it.                             *)
NothingLeft ==
  \A f \in Frames :
    work[f].dir => \E h \in Handlers :
                     frame[h] = f /\ (Active(h) \/ stage[h] = "dropped" \/ hit[h])

(* A SIGINT ends the agent, even when a case hangs. *)
DrainEnds == process = "draining" ~> process = "exited"
=============================================================================
