------------------------------ MODULE CaseRunner ------------------------------
(***************************************************************************)
(* One test case of a C++ submission (Cpp::verdict in                      *)
(* judge_core_agent/verdict/cpp.rs): the judge spawns the program, writes  *)
(* its input, lets two tasks read its output up to a limit, waits for the  *)
(* first of exit, exceeded output and wall time, and decides.  The program *)
(* does what it likes; the two meet at three pipes of bounded capacity.    *)
(*                                                                         *)
(* Output is a sequence of units: "x", or a two-byte character of which    *)
(* "lead" and "tail" are the halves (read_to_string wants whole ones).     *)
(***************************************************************************)
EXTENDS Naturals, Sequences

CONSTANTS
  InputSize,   \* units of case.input
  Expected,    \* case.output
  OutputLimit, \* ResourcesLimit::output_bytes
  PipeSize,    \* capacity of a pipe (the kernel's)
  MaxWrites,   \* bound: units the program writes
  MaxFaults    \* bound: failing system calls of the judge

Units == {"x", "lead", "tail"}

ASSUME RunnerAssumption ==
  /\ InputSize \in Nat
  /\ Expected \in Seq(Units)
  /\ OutputLimit \in Nat
  /\ PipeSize \in Nat \ {0}
  /\ MaxWrites \in Nat
  /\ MaxFaults \in Nat

Streams == {"stdout", "stderr"}

VARIABLES
  program,  \* "none", "running", "ok", "code", "signal", "oom", "killed" (by the judge)
  toWrite,  \* units of input not yet written
  stdin,    \* units in the pipe to the program
  pipe,     \* per stream: what is in the pipe to the judge
  written,  \* units the program has written
  judge,    \* "spawning", "feeding", "selecting", "collecting", "done"
  reader,   \* per stream: "unspawned", "reading", "ended", "failed"
  buffer,   \* per stream: what its reader has read
  exceeded, \* Notify output_exceeded: has a permit
  outcome,  \* "none", "exited", "output", "wall"
  verdict,  \* "none", "accepted", "wrong", "runtime", "internal" or the reason of a kill
  faults

programVars == <<program, stdin, pipe, written>>
readerVars == <<reader, buffer, exceeded>>
vars == <<programVars, toWrite, judge, readerVars, outcome, verdict, faults>>

Exits == {"ok", "code", "signal", "oom"}
Kills == {"cpu", "wall", "output", "memory", "signaled"}
Verdicts == {"none", "accepted", "wrong", "runtime", "internal"} \cup Kills

Running == program = "running"
Wrote(s) == buffer[s] \o pipe[s]

(* Every "lead" is followed by a "tail" and every "tail" preceded by one.  *)
Decodable(text) ==
  /\ \A i \in 1 .. Len(text) :
       text[i] = "lead" => i < Len(text) /\ text[i + 1] = "tail"
  /\ \A i \in 1 .. Len(text) :
       text[i] = "tail" => i > 1 /\ text[i - 1] = "lead"

Init ==
  /\ program = "none"
  /\ toWrite = InputSize
  /\ stdin = 0
  /\ pipe = [s \in Streams |-> <<>>]
  /\ written = 0
  /\ judge = "spawning"
  /\ reader = [s \in Streams |-> "unspawned"]
  /\ buffer = [s \in Streams |-> <<>>]
  /\ exceeded = FALSE
  /\ outcome = "none"
  /\ verdict = "none"
  /\ faults = 0

-----------------------------------------------------------------------------
(* The program (external).                                                 *)

Reads ==
  /\ Running /\ stdin > 0
  /\ stdin' = stdin - 1
  /\ UNCHANGED <<program, pipe, written, toWrite, judge, readerVars, outcome, verdict, faults>>

Writes(s, u) ==
  /\ Running /\ written < MaxWrites
  /\ reader[s] \in {"unspawned", "reading"}
  /\ Len(pipe[s]) < PipeSize
  /\ pipe' = [pipe EXCEPT ![s] = Append(@, u)]
  /\ written' = written + 1
  /\ UNCHANGED <<program, stdin, toWrite, judge, readerVars, outcome, verdict, faults>>

(* Writing to a pipe whose reader has gone: SIGPIPE. *)
BrokenPipe(s) ==
  /\ Running /\ written < MaxWrites
  /\ reader[s] \in {"ended", "failed"}
  /\ program' = "signal"
  /\ UNCHANGED <<stdin, pipe, written, toWrite, judge, readerVars, outcome, verdict, faults>>

Ends(how) ==
  /\ Running
  /\ program' = how
  /\ UNCHANGED <<stdin, pipe, written, toWrite, judge, readerVars, outcome, verdict, faults>>

Program ==
  \/ Reads
  \/ \E s \in Streams : BrokenPipe(s) \/ \E u \in Units : Writes(s, u)
  \/ \E how \in Exits : Ends(how)

-----------------------------------------------------------------------------
(* The judge's main line.                                                  *)

Killed == IF Running THEN "killed" ELSE program

(* cgroup, spawn, add_task; the child takes its pipes along. *)
Spawn ==
  /\ judge = "spawning"
  /\ judge' = "feeding"
  /\ program' = "running"
  /\ UNCHANGED <<stdin, pipe, written, toWrite, readerVars, outcome, verdict, faults>>

FeedBeyond ==                         \* slip: writes on after the last unit
  /\ judge = "feeding" /\ Running
  /\ stdin < PipeSize
  /\ toWrite' = toWrite - 1
  /\ stdin' = stdin + 1
  /\ UNCHANGED <<program, pipe, written, judge, readerVars, outcome, verdict, faults>>

Feed ==
  /\ judge = "feeding" /\ Running
  /\ toWrite > 0 /\ stdin < PipeSize
  /\ toWrite' = toWrite - 1
  /\ stdin' = stdin + 1
  /\ UNCHANGED <<program, pipe, written, judge, readerVars, outcome, verdict, faults>>

(* All written, or EPIPE, which is not an error; only then the readers     *)
(* start and the clock runs.                                               *)
Fed ==
  /\ judge = "feeding"
  /\ toWrite = 0 \/ ~Running
  /\ judge' = "selecting"
  /\ reader' = [s \in Streams |-> "reading"]
  /\ UNCHANGED <<programVars, toWrite, buffer, exceeded, outcome, verdict, faults>>

(* select!: whichever branch is ready and chosen. *)
Select(result) ==
  /\ judge = "selecting"
  /\ judge' = "collecting"
  /\ outcome' = result
  /\ UNCHANGED <<stdin, pipe, written, toWrite, readerVars, verdict, faults>>

Exited == ~Running /\ Select("exited") /\ UNCHANGED program

OutputExceeded == exceeded /\ Select("output") /\ program' = Killed

WallTimeoutLeaves == Select("wall") /\ UNCHANGED program \* slip: kill forgotten

WallTimeout == Select("wall") /\ program' = Killed

JudgeFailsLeaves ==                   \* slip: no kill_on_drop
  /\ judge \in {"spawning", "feeding", "selecting"}
  /\ faults < MaxFaults /\ faults' = faults + 1
  /\ judge' = "done"
  /\ verdict' = "internal"
  /\ UNCHANGED <<programVars, toWrite, readerVars, outcome>>

GivesUp ==
  /\ faults < MaxFaults /\ faults' = faults + 1
  /\ judge' = "done"
  /\ verdict' = "internal"
  /\ UNCHANGED <<stdin, pipe, written, toWrite, readerVars, outcome>>

(* The cgroup that is to hold the memory limit cannot be made: the program *)
(* is not even started.                                                    *)
LimitsFail ==
  /\ judge = "spawning"
  /\ GivesUp
  /\ UNCHANGED program

(* Spawning, adding to the cgroup, feeding, waiting or killing fails: `?`  *)
(* drops the child, which kills it.                                        *)
JudgeFails ==
  /\ judge \in {"spawning", "feeding", "selecting"}
  /\ GivesUp
  /\ program' = Killed

TooLong == \E s \in Streams : Len(buffer[s]) > OutputLimit

(* The cgroup's CPU time against the limit.  The time a program takes is   *)
(* not modelled: either answer.                                            *)
OverCpu == BOOLEAN

DecideAfterExit(overCpu) ==
  CASE program = "ok" /\ overCpu -> "cpu"
    [] program = "ok" /\ ~overCpu /\ TooLong -> "output"
    [] program = "ok" /\ ~overCpu /\ ~TooLong ->
         IF buffer["stdout"] = Expected THEN "accepted" ELSE "wrong"
    [] program = "code" -> "runtime"
    [] program = "oom" -> "memory"
    [] program = "signal" -> "signaled"

(* Both readers are joined; text that is no UTF-8 is an error.             *)
Collect ==
  /\ judge = "collecting"
  /\ \A s \in Streams : reader[s] \in {"ended", "failed"}
  /\ judge' = "done"
  /\ \E overCpu \in OverCpu :
       verdict' =
         IF \E s \in Streams : reader[s] = "failed" THEN "internal"
         ELSE IF outcome = "exited" THEN DecideAfterExit(overCpu)
         ELSE outcome
  /\ UNCHANGED <<programVars, toWrite, readerVars, outcome, faults>>

Judge ==
  \/ Spawn \/ Feed \/ Fed
  \/ Exited \/ OutputExceeded \/ WallTimeout
  \/ LimitsFail \/ JudgeFails
  \/ Collect

-----------------------------------------------------------------------------
(* The reader tasks: read_to_string on a stream cut after limit + 1.       *)

Read(s) ==
  /\ reader[s] = "reading"
  /\ pipe[s] # <<>> /\ Len(buffer[s]) <= OutputLimit
  /\ buffer' = [buffer EXCEPT ![s] = Append(@, Head(pipe[s]))]
  /\ pipe' = [pipe EXCEPT ![s] = Tail(@)]
  /\ UNCHANGED <<program, stdin, written, toWrite, judge, reader, exceeded, outcome, verdict,
                 faults>>

AtEnd(s) ==
  \/ Len(buffer[s]) > OutputLimit
  \/ ~Running /\ pipe[s] = <<>>

ReadEndsByChunk(s) ==                 \* slip: each chunk is decoded by itself
  /\ reader[s] = "reading"
  /\ AtEnd(s) \/ ~Decodable(buffer[s])
  /\ reader' = [reader EXCEPT ![s] = IF Decodable(buffer[s]) THEN "ended" ELSE "failed"]
  /\ exceeded' = (exceeded \/ (Decodable(buffer[s]) /\ Len(buffer[s]) > OutputLimit))
  /\ UNCHANGED <<programVars, toWrite, judge, buffer, outcome, verdict, faults>>

ReadEnds(s) ==
  /\ reader[s] = "reading" /\ AtEnd(s)
  /\ reader' = [reader EXCEPT ![s] = IF Decodable(buffer[s]) THEN "ended" ELSE "failed"]
  /\ exceeded' = (exceeded \/ (Decodable(buffer[s]) /\ Len(buffer[s]) > OutputLimit))
  /\ UNCHANGED <<programVars, toWrite, judge, buffer, outcome, verdict, faults>>

Readers == \E s \in Streams : Read(s) \/ ReadEnds(s)

-----------------------------------------------------------------------------
(* The case is over. *)
Done == judge = "done" /\ UNCHANGED vars

Next == Program \/ Judge \/ Readers \/ Done

Spec == Init /\ [][Next]_vars

(* The runtime schedules the judge and its readers, and the timer fires;   *)
(* nothing is assumed of the program.                                      *)
FairSpec ==
  /\ Spec
  /\ WF_vars(Spawn \/ Fed \/ Exited \/ OutputExceeded \/ WallTimeout \/ Collect)
  /\ WF_vars(Feed)
  /\ \A s \in Streams : WF_vars(Read(s) \/ ReadEnds(s))

-----------------------------------------------------------------------------
(* Properties.                                                             *)

(* Every variable has its type. *)
TypeOK ==
  /\ program \in {"none", "running", "killed"} \cup Exits
  /\ toWrite \in 0 .. InputSize
  /\ stdin \in 0 .. PipeSize
  /\ pipe \in [Streams -> Seq(Units)]
  /\ written \in 0 .. MaxWrites
  /\ judge \in {"spawning", "feeding", "selecting", "collecting", "done"}
  /\ reader \in [Streams -> {"unspawned", "reading", "ended", "failed"}]
  /\ buffer \in [Streams -> Seq(Units)]
  /\ exceeded \in BOOLEAN
  /\ outcome \in {"none", "exited", "output", "wall"}
  /\ verdict \in Verdicts
  /\ faults \in 0 .. MaxFaults

(* A program is accepted, or its answer called wrong, on all it ever wrote *)
(* and on a clean exit, however reading, exiting and the timer raced.      *)
JudgedOnAll ==
  verdict \in {"accepted", "wrong"} =>
    /\ program = "ok"
    /\ \A s \in Streams : pipe[s] = <<>> /\ Len(Wrote(s)) <= OutputLimit
    /\ verdict = "accepted" <=> Wrote("stdout") = Expected

(* The output limit is not blamed on a program that kept it.               *)
OutputJustified == verdict = "output" => \E s \in Streams : Len(Wrote(s)) > OutputLimit

(* A program whose output is whole text within the limit never gets        *)
(* "internal", unless a system call of the judge failed.                   *)
InternalHasCause ==
  verdict = "internal" =>
    faults > 0 \/ \E s \in Streams : ~Decodable(Wrote(s)) \/ Len(Wrote(s)) > OutputLimit

(* No verdict without its reason, in whichever order the program's exit,   *)
(* the end of its output, the output limit and the wall timer are noticed. *)
VerdictJustified == JudgedOnAll /\ OutputJustified /\ InternalHasCause

(* No program outlives its verdict. *)
NobodyLeft == judge = "done" => ~Running

(* The case ends, whatever the program does: cpp.rs kills a program when   *)
(* its "wall time limit [is] exceeded".                                    *)
CaseEnds == <>(judge = "done")
=============================================================================
