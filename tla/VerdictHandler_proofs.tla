------------------------ MODULE VerdictHandler_proofs ------------------------
(***************************************************************************)
(* The safety of handle(), for any number of handlers, tasks, cases and    *)
(* frame ids.  The argument: whoever touches a directory while handler h   *)
(* is active has met h; so, if all it met have its task, what h wrote over *)
(* whatever was there stays its task's own until it is removed.            *)
(***************************************************************************)
EXTENDS VerdictHandler, SequenceTheorems, TLAPS

(* A handler that was never used has no client, no result and no history;  *)
(* the others have a task.                                                 *)
Known ==
  /\ \A h \in Handlers : client[h] # "none" => stage[h] # "free"
  /\ \A h \in Handlers : stage[h] # "free" => task[h] \in Tasks
  /\ \A h \in Handlers : stage[h] = "free" => result[h] = NoResult /\ ~hit[h]
  /\ \A h \in Handlers : \A g \in met[h] : stage[g] # "free" /\ stage[h] # "free"

(* Two active handlers of one id have met. *)
MetShared ==
  \A h, g \in Handlers :
    h # g /\ Active(h) /\ Active(g) /\ frame[h] = frame[g] => g \in met[h]

OwnCompany(h) == \A g \in met[h] : task[g] = task[h]

(* What a handler in its own company finds is its task's or not there.     *)
Overwritten ==
  \A h \in Handlers :
    OwnCompany(h) =>
      /\ stage[h] \in {"compiling", "linking", "running"} => Dir(h).source \in {task[h], NoTask}
      /\ stage[h] \in {"linking", "running"} => Dir(h).object \in {task[h], NoTask}
      /\ stage[h] = "running" => Dir(h).exe \in {task[h], NoTask}

(* What a handler finds that has met nobody. *)
Alone ==
  \A h \in Handlers :
    met[h] = {} =>
      /\ stage[h] \in {"writing", "compiling", "linking", "running"} => Dir(h).dir
      /\ stage[h] \in {"compiling", "linking", "running"} => Dir(h).source = task[h]
      /\ stage[h] \in {"linking", "running"} => Dir(h).object = task[h]
      /\ stage[h] = "running" => Dir(h).exe = task[h]

(* While the cases run there is an entry for each, and it holds what that  *)
(* case deserves once it was run; an error has its cause.                  *)
RightSoFar ==
  \A h \in Handlers :
    stage[h] = "running" =>
      /\ Len(cases[h]) = Len(Answers[task[h]])
      /\ \A i \in 1 .. Len(cases[h]) :
           /\ OwnCompany(h) /\ cases[h][i] \in Verdicts => cases[h][i] = Answers[task[h]][i]
           /\ met[h] = {} /\ cases[h][i] = "error" => hit[h]

(* What the join loop has let pass. *)
JoinedPassed ==
  \A h \in Handlers :
    stage[h] = "running" =>
      /\ joined[h] \subseteq 1 .. Len(cases[h])
      /\ \A i \in joined[h] :
           /\ cases[h][i] \in Verdicts
           /\ task[h] \in StopOnFirst => cases[h][i] = "accepted"

(* NothingLeft, with those who are about to make or have removed the       *)
(* directory taken away from its users.                                    *)
Uses(h) == stage[h] \in {"writing", "compiling", "linking", "running", "cleaning", "dropped",
                         "compiles on", "links on"}

Used ==
  \A f \in Frames : work[f].dir => \E h \in Handlers : frame[h] = f /\ (Uses(h) \/ hit[h])

IInv ==
  /\ TypeOK /\ Known /\ MetShared /\ Overwritten /\ Alone /\ RightSoFar /\ JoinedPassed /\ Used
  /\ VerdictIsOwn /\ ErrorsAreOwn

-----------------------------------------------------------------------------
(* The invariant holds at first and is kept by every step.                 *)

LEMMA InitInv == Init => IInv
<1> SUFFICES ASSUME Init PROVE IInv
  OBVIOUS
<1>1. TypeOK
  <2>1. \A S : <<>> \in Seq(S)
    BY EmptySeq
  <2>2. 1 \in Frames /\ nextFrame \in 1 .. MaxFrame + 1
    BY HandlerAssumption DEF Init, Frames
  <2>3. /\ cases \in [Handlers -> Seq(CaseStates)]
        /\ result \in [Handlers -> Results]
    BY <2>1 DEF Init, NoResult, Result, Results, Kinds
  <2> QED BY <2>2, <2>3 DEF Init, TypeOK, Gone, Dirs
<1>2. Known /\ MetShared /\ Overwritten /\ Alone /\ RightSoFar /\ JoinedPassed /\ Used
  BY DEF Init, Known, MetShared, Overwritten, Alone, RightSoFar, JoinedPassed, Used, Active,
     Gone
<1>3. VerdictIsOwn /\ ErrorsAreOwn
  BY DEF Init, VerdictIsOwn, ErrorsAreOwn, Answered, NoResult, Result
<1> QED BY <1>1, <1>2, <1>3 DEF IInv

(* What a step may not do to a handler it does not work for. *)
Continues(g) ==
  /\ task'[g] = task[g] /\ frame'[g] = frame[g] /\ met[g] \subseteq met'[g]
  /\ OwnCompany(g)' => OwnCompany(g)
  /\ hit[g] => hit'[g]

LEMMA RunningKeep ==
  ASSUME RightSoFar, JoinedPassed,
         \A g \in Handlers :
           stage'[g] = "running" => /\ stage[g] = "running" /\ Continues(g)
                                    /\ cases'[g] = cases[g] /\ joined'[g] = joined[g]
  PROVE  RightSoFar' /\ JoinedPassed'
<1>1. RightSoFar'
  <2> SUFFICES ASSUME NEW g \in Handlers, stage'[g] = "running"
               PROVE  /\ Len(cases'[g]) = Len(Answers[task'[g]])
                      /\ \A i \in 1 .. Len(cases'[g]) :
                           /\ OwnCompany(g)' /\ cases'[g][i] \in Verdicts =>
                                cases'[g][i] = Answers[task'[g]][i]
                           /\ met'[g] = {} /\ cases'[g][i] = "error" => hit'[g]
    BY DEF RightSoFar
  <2>1. /\ stage[g] = "running" /\ cases'[g] = cases[g] /\ task'[g] = task[g]
        /\ OwnCompany(g)' => OwnCompany(g)
        /\ met'[g] = {} => met[g] = {}
        /\ hit[g] => hit'[g]
    BY DEF Continues
  <2> QED BY <2>1 DEF RightSoFar
<1>2. JoinedPassed'
  BY DEF JoinedPassed, Continues
<1> QED BY <1>1, <1>2

LEMMA FoundKeep ==
  ASSUME Overwritten, Alone, work' = work,
         \A g \in Handlers :
           stage'[g] \in {"writing", "compiling", "linking", "running"} =>
             stage'[g] = stage[g] /\ Continues(g)
  PROVE  Overwritten' /\ Alone'
<1>1. ASSUME NEW g \in Handlers, stage'[g] \in {"writing", "compiling", "linking", "running"}
      PROVE  /\ stage[g] = stage'[g] /\ Dir(g)' = Dir(g) /\ task'[g] = task[g]
             /\ OwnCompany(g)' => OwnCompany(g)
             /\ met'[g] = {} => met[g] = {}
  BY <1>1 DEF Continues, Dir
<1>2. Overwritten'
  BY <1>1 DEF Overwritten
<1>3. Alone'
  BY <1>1 DEF Alone
<1> QED BY <1>2, <1>3

LEMMA ResultsKeep ==
  ASSUME VerdictIsOwn, ErrorsAreOwn,
         \A g \in Handlers :
           result'[g] = NoResult \/ (result'[g] = result[g] /\ Continues(g))
  PROVE  VerdictIsOwn' /\ ErrorsAreOwn'
<1>1. ASSUME NEW g \in Handlers, result'[g] = NoResult
      PROVE  /\ Answered(task'[g], result'[g])
             /\ result'[g].kind \notin {"compile", "internal", "timeout"}
  BY <1>1 DEF NoResult, Result, Answered
<1>2. ASSUME NEW g \in Handlers, result'[g] = result[g], Continues(g)
      PROVE  /\ task'[g] = task[g]
             /\ OwnCompany(g)' => OwnCompany(g)
             /\ met'[g] = {} => met[g] = {}
             /\ hit[g] => hit'[g]
  BY <1>2 DEF Continues
<1>3. ASSUME NEW g \in Handlers, OwnCompany(g)'
      PROVE  Answered(task'[g], result'[g])
  <2>1. CASE result'[g] = NoResult
    BY <2>1, <1>1
  <2>2. CASE result'[g] = result[g] /\ Continues(g)
    <3>1. OwnCompany(g) /\ task'[g] = task[g] /\ result'[g] = result[g]
      BY <2>2, <1>2, <1>3
    <3>2. Answered(task[g], result[g])
      BY <3>1 DEF VerdictIsOwn, OwnCompany
    <3> QED BY <3>1, <3>2
  <2> QED BY <2>1, <2>2
<1>4. VerdictIsOwn'
  BY <1>3 DEF VerdictIsOwn, OwnCompany
<1>5. ErrorsAreOwn'
  <2> SUFFICES ASSUME NEW g \in Handlers, met'[g] = {}
               PROVE  /\ result'[g].kind = "compile" => task'[g] \notin Compiles
                      /\ result'[g].kind \in {"internal", "timeout"} => hit'[g]
    BY DEF ErrorsAreOwn
  <2>1. CASE result'[g] = NoResult
    BY <2>1, <1>1
  <2>2. CASE result'[g] = result[g] /\ Continues(g)
    BY <2>2, <1>2 DEF ErrorsAreOwn
  <2> QED BY <2>1, <2>2
<1> QED BY <1>4, <1>5

(* Handlers whose company and frames a step leaves alone continue. *)
LEMMA Continue ==
  ASSUME UNCHANGED <<frame, task, met>>, \A g \in Handlers : hit[g] => hit'[g]
  PROVE  \A g \in Handlers : Continues(g)
  BY DEF Continues, OwnCompany



(* What an ending handler has to show. *)
Grounds(h, r) ==
  /\ OwnCompany(h) => Answered(task[h], r)
  /\ met[h] = {} => /\ r.kind = "compile" => task[h] \notin Compiles
                    /\ r.kind \in {"internal", "timeout"} => hit'[h]

LEMMA EndsKeep ==
  ASSUME IInv, NEW h \in Handlers, NEW r \in Results, NEW next \in {"cleaning", "replying"},
         Active(h), next = "replying" => stage[h] = "preparing", Finish(h, r, next),
         hit' \in {hit, [hit EXCEPT ![h] = TRUE]},
         UNCHANGED <<handling, cases, joined, work>>, Grounds(h, r)
  PROVE  IInv'
<1>1. /\ stage' = [stage EXCEPT ![h] = next] /\ result' = [result EXCEPT ![h] = r]
      /\ UNCHANGED <<driver, process, nextFrame, client, frame, task, met, cases, joined, work>>
  BY DEF Finish, handling
<1>2. TypeOK'
  BY <1>1 DEF IInv, TypeOK
<1>3. \A g \in Handlers : Continues(g)
  <2>1. \A g \in Handlers : hit[g] => hit'[g]
    BY DEF IInv, TypeOK
  <2> QED BY <1>1, <2>1, Continue
<1>4. \A g \in Handlers \ {h} : stage'[g] = stage[g] /\ result'[g] = result[g]
  BY <1>1 DEF IInv, TypeOK
<1>5. stage'[h] = next /\ result'[h] = r
  BY <1>1 DEF IInv, TypeOK
<1>6. Known' /\ MetShared'
  <2>1. \A g \in Handlers \ {h} : hit'[g] = hit[g]
    BY DEF IInv, TypeOK
  <2>2. Known'
    BY <1>1, <1>4, <1>5, <2>1 DEF IInv, Known, Active
  <2>3. MetShared'
    BY <1>1, <1>4, <1>5 DEF IInv, MetShared, Active
  <2> QED BY <2>2, <2>3
<1>7. Overwritten' /\ Alone'
  BY <1>1, <1>3, <1>4, <1>5, FoundKeep DEF IInv
<1>8. RightSoFar' /\ JoinedPassed'
  BY <1>1, <1>3, <1>4, <1>5, RunningKeep DEF IInv
<1>9. Used'
  <2>1. ASSUME NEW g \in Handlers, Uses(g) \/ hit[g] PROVE Uses(g)' \/ hit'[g]
    BY <2>1, <1>3, <1>4, <1>5 DEF Uses, Active, Continues
  <2> QED BY <1>1, <2>1 DEF IInv, Used
<1>10. VerdictIsOwn'
  <2>1. \A g \in Handlers \ {h} : result'[g] = result[g] /\ task'[g] = task[g] /\ met'[g] = met[g]
    BY <1>1, <1>4
  <2>2. ASSUME OwnCompany(h)' PROVE Answered(task'[h], result'[h])
    BY <2>2, <1>1, <1>3, <1>5 DEF Grounds, Continues
  <2> QED BY <1>1, <2>1, <2>2 DEF IInv, VerdictIsOwn, OwnCompany
<1>11. ErrorsAreOwn'
  BY <1>1, <1>3, <1>4, <1>5 DEF IInv, ErrorsAreOwn, Grounds, Continues
<1> QED BY <1>2, <1>6, <1>7, <1>8, <1>9, <1>10, <1>11 DEF IInv

LEMMA HitIs == ASSUME NEW h \in Handlers, Hit(h) PROVE hit' = [hit EXCEPT ![h] = TRUE]
  BY DEF Hit

(* The results without cases. *)
LEMMA PlainResult ==
  ASSUME NEW kind \in {"internal", "timeout", "compile"}
  PROVE  /\ Result(kind, <<>>) \in Results
         /\ Result(kind, <<>>).kind = kind
         /\ \A t : Answered(t, Result(kind, <<>>))
<1>1. <<>> \in Seq(Verdicts)
  BY EmptySeq
<1>2. Result(kind, <<>>) \in Results /\ Result(kind, <<>>).kind = kind
  BY <1>1 DEF Result, Results, Kinds
<1>3. \A t : Answered(t, Result(kind, <<>>))
  BY <1>2 DEF Answered
<1> QED BY <1>2, <1>3

LEMMA CompileErrorsKeep ==
  ASSUME IInv, NEW h \in Handlers,
         CompileFails(h) \/ CompilerSlow(h) \/ CompileError(h) \/ PrepareFails(h)
  PROVE  IInv'
<1>1. TypeOK /\ hit \in [Handlers -> BOOLEAN] /\ task[h] \in Tasks \cup {NoTask}
  BY DEF IInv, TypeOK
<1>2. CASE PrepareFails(h)
  <2>1. /\ stage[h] = "preparing" /\ Hit(h) /\ Finish(h, Result("internal", <<>>), "replying")
        /\ UNCHANGED <<handling, cases, joined, work>>
    BY <1>2 DEF PrepareFails
  <2>2. hit' = [hit EXCEPT ![h] = TRUE] /\ hit'[h]
    BY <2>1, <1>1, HitIs
  <2>3. Grounds(h, Result("internal", <<>>)) /\ Result("internal", <<>>) \in Results
    BY <2>2, PlainResult DEF Grounds
  <2>4. Active(h)
    BY <2>1 DEF Active
  <2> QED BY <2>1, <2>2, <2>3, <2>4, EndsKeep
<1>3. CASE CompileFails(h)
  <2>1. /\ stage[h] \in {"writing", "compiling", "linking"}
        /\ Finish(h, Result("internal", <<>>), "cleaning")
        /\ UNCHANGED <<handling, cases, joined, work>>
        /\ IF Dir(h).dir THEN Hit(h) ELSE hit' = hit
    BY <1>3 DEF CompileFails
  <2>2. hit' \in {hit, [hit EXCEPT ![h] = TRUE]} /\ (Dir(h).dir => hit'[h])
    BY <2>1, <1>1, HitIs
  <2>3. met[h] = {} => Dir(h).dir
    BY <2>1 DEF IInv, Alone
  <2>4. Grounds(h, Result("internal", <<>>)) /\ Result("internal", <<>>) \in Results
    BY <2>2, <2>3, PlainResult DEF Grounds
  <2>5. Active(h)
    BY <2>1 DEF Active
  <2> QED BY <2>1, <2>2, <2>4, <2>5, EndsKeep
<1>4. CASE CompilerSlow(h)
  <2>1. /\ stage[h] \in {"compiling", "linking"} /\ Hit(h)
        /\ Finish(h, Result("timeout", <<>>), "cleaning")
        /\ UNCHANGED <<handling, cases, joined, work>>
    BY <1>4 DEF CompilerSlow
  <2>2. hit' = [hit EXCEPT ![h] = TRUE] /\ hit'[h]
    BY <2>1, <1>1, HitIs
  <2>3. Grounds(h, Result("timeout", <<>>)) /\ Result("timeout", <<>>) \in Results
    BY <2>2, PlainResult DEF Grounds
  <2>4. Active(h)
    BY <2>1 DEF Active
  <2> QED BY <2>1, <2>2, <2>3, <2>4, EndsKeep
<1>5. CASE CompileError(h)
  <2>1. /\ \/ stage[h] = "compiling" /\ Dir(h).source \notin Compiles
           \/ stage[h] = "linking" /\ Dir(h).object = NoTask
        /\ Finish(h, Result("compile", <<>>), "cleaning")
        /\ UNCHANGED <<handling, cases, joined, work>> /\ hit' = hit
    BY <1>5 DEF CompileError
  <2>2. task[h] # NoTask
    BY <2>1, HandlerAssumption DEF IInv, Known
  <2>3. met[h] = {} => task[h] \notin Compiles
    BY <2>1, <2>2 DEF IInv, Alone
  <2>4. Grounds(h, Result("compile", <<>>)) /\ Result("compile", <<>>) \in Results
    BY <2>3, PlainResult DEF Grounds
  <2>5. Active(h)
    BY <2>1 DEF Active
  <2> QED BY <2>1, <2>4, <2>5, EndsKeep
<1> QED BY <1>2, <1>3, <1>4, <1>5
LEMMA QueuedType ==
  ASSUME NEW t \in Tasks
  PROVE  /\ Queued(t) \in Seq(CaseStates) /\ Len(Queued(t)) = Len(Answers[t])
         /\ \A i \in 1 .. Len(Answers[t]) : Queued(t)[i] = "queued"
<1>1. Answers[t] \in Seq(Verdicts)
  BY HandlerAssumption
<1>2. Len(Answers[t]) \in Nat
  BY <1>1
<1>3. Queued(t) \in [1 .. Len(Answers[t]) -> CaseStates]
  BY <1>2 DEF Queued, CaseStates
<1>4. Queued(t) \in Seq(CaseStates)
  BY <1>2, <1>3, SeqDef
<1>5. DOMAIN Queued(t) = 1 .. Len(Queued(t))
  BY <1>4
<1>6. Len(Queued(t)) \in Nat /\ DOMAIN Queued(t) = 1 .. Len(Answers[t])
  BY <1>4, <1>3
<1>7. Len(Queued(t)) = Len(Answers[t])
  BY <1>2, <1>5, <1>6
<1> QED BY <1>4, <1>7 DEF Queued


LEMMA ReceiveKeeps ==
  ASSUME IInv, NEW h \in Handlers, NEW f \in Frames, NEW t \in Tasks,
         client' \in [Handlers -> {"none", "waiting", "gaveUp", "gone", "answered"}],
         nextFrame' \in 1 .. MaxFrame + 1,
         \A g \in Handlers \ {h} : client'[g] # "none" => client[g] # "none",
         Receive(h, f, t)
  PROVE  IInv'
<1>a. /\ stage[h] = "free" /\ stage'[h] = "preparing" /\ result'[h] = NoResult /\ ~hit[h]
      /\ UNCHANGED <<cases, joined, result, hit, work>>
      /\ \A g \in Handlers \ {h} : stage'[g] = stage[g] /\ frame'[g] = frame[g]
  <2>1. /\ stage[h] = "free" /\ stage' = [stage EXCEPT ![h] = "preparing"]
        /\ frame' = [frame EXCEPT ![h] = f]
        /\ UNCHANGED <<cases, joined, result, hit, work>>
    BY DEF Receive
  <2>2. result[h] = NoResult /\ ~hit[h]
    BY <2>1 DEF IInv, Known
  <2> QED BY <2>1, <2>2 DEF IInv, TypeOK
<1>b. \A g \in Handlers \ {h} : Continues(g)
  <2> SUFFICES ASSUME NEW g \in Handlers \ {h} PROVE Continues(g)
    OBVIOUS
  <2>1. task'[g] = task[g] /\ frame'[g] = frame[g] /\ met[g] \subseteq met'[g] /\ hit' = hit
    BY DEF IInv, TypeOK, Receive
  <2>2. \A k \in met[g] : task'[k] = task[k]
    BY <1>a DEF IInv, TypeOK, Known, Receive
  <2> QED BY <2>1, <2>2 DEF Continues, OwnCompany
<1>1. TypeOK'
  <2>1. /\ TypeOK
        /\ UNCHANGED <<driver, process, cases, joined, result, hit, work>>
        /\ frame' = [frame EXCEPT ![h] = f] /\ task' = [task EXCEPT ![h] = t]
        /\ stage' = [stage EXCEPT ![h] = "preparing"]
    BY DEF IInv, Receive
  <2>2. met' \in [Handlers -> SUBSET Handlers]
    BY DEF IInv, TypeOK, Receive
  <2>3. /\ frame' \in [Handlers -> Frames] /\ task' \in [Handlers -> Tasks \cup {NoTask}]
        /\ stage' \in [Handlers -> {"free", "preparing", "writing", "compiling", "linking",
                                    "running", "cleaning", "replying", "ended", "dropped",
                                    "compiles on", "links on"}]
    BY <2>1 DEF TypeOK
  <2> QED BY <2>1, <2>2, <2>3 DEF TypeOK
<1>2. Known'
  <2>1. /\ UNCHANGED <<result, hit>> /\ task'[h] = t
        /\ \A g \in Handlers \ {h} : task'[g] = task[g] /\ met'[g] \subseteq met[g] \cup {h}
        /\ \A g \in met'[h] : g # h /\ Active(g)
        /\ TypeOK /\ Known
    BY <1>a DEF IInv, TypeOK, Receive, Active
  <2>2. \A g \in Handlers : stage'[g] = "free" <=> stage[g] = "free" /\ g # h
    BY <1>a
  <2>3. \A g \in Handlers : met[g] \subseteq Handlers /\ met'[g] \subseteq Handlers
    BY <1>1, <2>1 DEF TypeOK
  <2>4. \A g \in Handlers : \A k \in met'[g] : stage'[g] # "free" /\ stage'[k] # "free"
    <3> SUFFICES ASSUME NEW g \in Handlers, NEW k \in met'[g]
                 PROVE  stage'[g] # "free" /\ stage'[k] # "free"
      OBVIOUS
    <3>1. CASE g = h
      BY <1>a, <2>1, <2>3, <3>1 DEF Active
    <3>2. CASE g # h /\ k = h
      <4>1. Active(g)
        BY <1>a, <3>2 DEF IInv, TypeOK, Known, Receive
      <4> QED BY <1>a, <2>2, <3>2, <4>1 DEF Active
    <3>3. CASE g # h /\ k # h
      BY <2>1, <2>2, <2>3, <3>3 DEF Known
    <3> QED BY <3>1, <3>2, <3>3
  <2> QED BY <1>a, <2>1, <2>2, <2>4 DEF Known
<1>3. MetShared'
  BY DEF IInv, TypeOK, MetShared, Known, Active, Receive, NoResult, Result, Frames
<1>4. Overwritten'
  BY <1>a, <1>b, FoundKeep DEF IInv
<1>5. Alone'
  BY <1>a, <1>b, FoundKeep DEF IInv
<1>6. RightSoFar'
  BY <1>a, <1>b, RunningKeep DEF IInv
<1>7. JoinedPassed'
  BY <1>a, <1>b, RunningKeep DEF IInv
<1>8. Used'
  <2>1. ASSUME NEW g \in Handlers, Uses(g) \/ hit[g] PROVE frame'[g] = frame[g] /\ (Uses(g)' \/ hit'[g])
    BY <2>1, <1>a DEF Uses
  <2> QED BY <1>a, <2>1 DEF IInv, Used
<1>9. VerdictIsOwn'
  BY <1>a, <1>b, ResultsKeep DEF IInv
<1>10. ErrorsAreOwn'
  BY <1>a, <1>b, ResultsKeep DEF IInv
<1> QED
  BY <1>1, <1>2, <1>3, <1>4, <1>5, <1>6, <1>7, <1>8, <1>9, <1>10 DEF IInv

LEMMA LeavesKeep ==
  ASSUME IInv, TypeOK', UNCHANGED <<frame, task, cases, joined, result, met, work>>,
         \A g \in Handlers : (hit[g] => hit'[g]) /\ (hit'[g] = hit[g] \/ Active(g)),
         \A g \in Handlers : client'[g] # "none" => client[g] # "none",
         \A g \in Handlers :
           \/ stage'[g] = stage[g]
           \/ Active(g) /\ stage'[g] \in {"dropped", "compiles on", "links on"}
           \/ stage[g] = "replying" /\ stage'[g] = "ended"
           \/ stage[g] = "cleaning" /\ stage'[g] = "replying" /\ hit'[g]
  PROVE  IInv'
<1>1. \A g \in Handlers : Continues(g)
  BY Continue
<1>2. \A g \in Handlers : /\ stage'[g] = "free" <=> stage[g] = "free"
                          /\ Active(g)' => Active(g)
  BY DEF Active
<1>3. Known' /\ MetShared'
  <2>1. Known'
    BY <1>2 DEF IInv, Known, Active, TypeOK
  <2>2. MetShared'
    BY <1>2 DEF IInv, MetShared
  <2> QED BY <2>1, <2>2
<1>4. Overwritten' /\ Alone'
  <2>1. \A g \in Handlers : stage'[g] \in {"writing", "compiling", "linking", "running"} =>
                              stage'[g] = stage[g]
    OBVIOUS
  <2> QED BY <1>1, <2>1, FoundKeep DEF IInv
<1>5. RightSoFar' /\ JoinedPassed'
  <2>1. \A g \in Handlers : stage'[g] = "running" => stage[g] = "running"
    OBVIOUS
  <2> QED BY <1>1, <2>1, RunningKeep DEF IInv
<1>6. Used'
  <2>1. ASSUME NEW g \in Handlers, Uses(g) \/ hit[g] PROVE Uses(g)' \/ hit'[g]
    BY <2>1 DEF Uses
  <2> QED BY <2>1 DEF IInv, Used
<1>7. VerdictIsOwn' /\ ErrorsAreOwn'
  BY <1>1, ResultsKeep DEF IInv
<1> QED BY <1>3, <1>4, <1>5, <1>6, <1>7 DEF IInv

LEMMA ClientsKeep ==
  ASSUME IInv,
         \/ \E h \in Handlers : GiveUp(h)
         \/ NewManager \/ Interrupt \/ Drained \/ UNCHANGED vars
  PROVE  IInv'
<1>1. TypeOK'
  <2>1. TypeOK /\ 1 \in 1 .. MaxFrame + 1
    BY HandlerAssumption DEF IInv
  <2>2. CASE \E h \in Handlers : GiveUp(h)
    BY <2>1, <2>2 DEF TypeOK, GiveUp
  <2>3. CASE NewManager
    BY <2>1, <2>3 DEF TypeOK, NewManager
  <2>4. CASE Interrupt \/ Drained \/ UNCHANGED vars
    BY <2>1, <2>4 DEF TypeOK, Interrupt, Drained, vars, handlerVars
  <2> QED BY <2>2, <2>3, <2>4
<1>2. /\ UNCHANGED <<frame, task, stage, cases, joined, result, hit, met, work>>
      /\ \A g \in Handlers : client'[g] # "none" => client[g] # "none"
  BY DEF IInv, TypeOK, GiveUp, NewManager, Interrupt, Drained, vars, handlerVars
<1> QED BY <1>1, <1>2, LeavesKeep

LEMMA DropsKeep ==
  ASSUME IInv, NEW H \in SUBSET Handlers, NEW on \in SUBSET Handlers, DropAll(H, on),
         nextFrame' \in 1 .. MaxFrame + 1, process' \in {"serving", "draining", "exited"}
  PROVE  IInv'
<1>1. \A g \in Handlers : WithoutHandler(g) \in {"dropped", "compiles on", "links on"}
  BY DEF WithoutHandler
<1>2. \A g \in Handlers :
        \/ stage'[g] = stage[g]
        \/ Active(g) /\ stage'[g] \in {"dropped", "compiles on", "links on"}
  BY <1>1 DEF DropAll
<1>3. /\ UNCHANGED <<driver, frame, task, cases, joined, result, hit, met, work>>
      /\ client' \in [Handlers -> {"none", "waiting", "gaveUp", "gone", "answered"}]
      /\ \A g \in Handlers : client'[g] # "none" => client[g] # "none"
  BY DEF IInv, TypeOK, DropAll
<1>4. stage' \in [Handlers -> {"free", "preparing", "writing", "compiling", "linking",
                               "running", "cleaning", "replying", "ended", "dropped",
                               "compiles on", "links on"}]
  <2>1. stage' = [g \in Handlers |-> stage'[g]]
    BY DEF DropAll
  <2> QED BY <1>2, <2>1 DEF IInv, TypeOK
<1>5. TypeOK'
  BY <1>3, <1>4 DEF IInv, TypeOK
<1> QED BY <1>2, <1>3, <1>5, LeavesKeep

(* A step of handle() that writes a directory keeps the types. *)
LEMMA WritesTyped ==
  ASSUME TypeOK, NEW h \in Handlers, NEW d \in Dirs, NEW from,
         NEW next \in {"writing", "compiling", "linking", "running", "replying", "dropped"},
         Step(h, from, next), SetDir(h, d), UNCHANGED <<handling, result, hit>>,
         cases' \in [Handlers -> Seq(CaseStates)], joined' \in [Handlers -> SUBSET Nat]
  PROVE  TypeOK'
<1>1. UNCHANGED <<driver, process, nextFrame, client, frame, task, met, result, hit>>
  BY DEF handling
<1>2. stage' \in [Handlers -> {"free", "preparing", "writing", "compiling", "linking",
                               "running", "cleaning", "replying", "ended", "dropped",
                               "compiles on", "links on"}]
  <2>1. stage \in [Handlers -> {"free", "preparing", "writing", "compiling", "linking",
                                "running", "cleaning", "replying", "ended", "dropped",
                                "compiles on", "links on"}]
    BY DEF TypeOK
  <2> QED BY <2>1 DEF Step
<1>3. work' \in [Frames -> Dirs]
  <2>1. work \in [Frames -> Dirs] /\ work' = [work EXCEPT ![frame[h]] = d]
    BY DEF TypeOK, SetDir
  <2> QED BY <2>1
<1> QED BY <1>1, <1>2, <1>3 DEF TypeOK

(* The directory of a handler, and each of its parts. *)
LEMMA DirParts ==
  ASSUME TypeOK, NEW h \in Handlers
  PROVE  /\ Dir(h) \in Dirs /\ task[h] \in Tasks \cup {NoTask}
         /\ Dir(h).source \in Tasks \cup {NoTask} /\ Dir(h).object \in Tasks \cup {NoTask}
<1>1. work \in [Frames -> Dirs] /\ frame[h] \in Frames /\ task[h] \in Tasks \cup {NoTask}
  BY DEF TypeOK
<1>2. Dir(h) \in Dirs
  BY <1>1 DEF Dir
<1> QED BY <1>1, <1>2 DEF Dirs

LEMMA DirsWritten ==
  ASSUME TypeOK, NEW h \in Handlers, NEW d, SetDir(h, d), frame' = frame
  PROVE  \A g \in Handlers : Dir(g)' = IF frame[g] = frame[h] THEN d ELSE Dir(g)
<1>1. work \in [Frames -> Dirs] /\ frame \in [Handlers -> Frames]
  BY DEF TypeOK
<1> QED BY <1>1 DEF SetDir, Dir

(* A handler that writes what is its own, or moves on what is there, leaves *)
(* the others with what they may find.                                     *)
LEMMA WrittenKeep ==
  ASSUME IInv, NEW h \in Handlers, Active(h), NEW d \in Dirs, SetDir(h, d),
         UNCHANGED <<frame, task, met>>, \A g \in Handlers \ {h} : stage'[g] = stage[g],
         d.source \in {Dir(h).source, task[h], NoTask},
         d.object \in {Dir(h).object, Dir(h).source, NoTask},
         d.exe \in {Dir(h).exe, Dir(h).object, NoTask},
         OwnCompany(h) =>
           /\ stage'[h] \in {"compiling", "linking", "running"} => d.source \in {task[h], NoTask}
           /\ stage'[h] \in {"linking", "running"} => d.object \in {task[h], NoTask}
           /\ stage'[h] = "running" => d.exe \in {task[h], NoTask},
         met[h] = {} =>
           /\ stage'[h] \in {"writing", "compiling", "linking", "running"} => d.dir
           /\ stage'[h] \in {"compiling", "linking", "running"} => d.source = task[h]
           /\ stage'[h] \in {"linking", "running"} => d.object = task[h]
           /\ stage'[h] = "running" => d.exe = task[h]
  PROVE  Overwritten' /\ Alone'
<1>1. \A g \in Handlers : Dir(g)' = IF frame[g] = frame[h] THEN d ELSE Dir(g)
  BY DirsWritten DEF IInv
<1>2. \A g \in Handlers : OwnCompany(g)' <=> OwnCompany(g)
  BY DEF OwnCompany
<1>3. Overwritten'
  <2> SUFFICES ASSUME NEW g \in Handlers, OwnCompany(g)
               PROVE  /\ stage'[g] \in {"compiling", "linking", "running"} =>
                           Dir(g)'.source \in {task[g], NoTask}
                      /\ stage'[g] \in {"linking", "running"} =>
                           Dir(g)'.object \in {task[g], NoTask}
                      /\ stage'[g] = "running" => Dir(g)'.exe \in {task[g], NoTask}
    BY <1>2 DEF Overwritten
  <2>1. CASE g = h
    BY <1>1, <2>1
  <2>2. CASE g # h /\ frame[g] # frame[h]
    BY <1>1, <2>2 DEF IInv, Overwritten
  <2>3. CASE g # h /\ frame[g] = frame[h]
    <3>1. Dir(g) = Dir(h) /\ Dir(g)' = d /\ stage'[g] = stage[g]
      BY <1>1, <2>3 DEF Dir
    <3>2. CASE ~Active(g)
      BY <3>1, <3>2, <2>3 DEF Active
    <3>3. CASE Active(g)
      <4>1. task[h] = task[g]
        BY <2>3, <3>3 DEF IInv, MetShared, OwnCompany
      <4>2. /\ stage[g] \in {"compiling", "linking", "running"} => Dir(h).source \in {task[g], NoTask}
            /\ stage[g] \in {"linking", "running"} => Dir(h).object \in {task[g], NoTask}
            /\ stage[g] = "running" => Dir(h).exe \in {task[g], NoTask}
        BY <3>1 DEF IInv, Overwritten
      <4> QED BY <3>1, <4>1, <4>2
    <3> QED BY <3>2, <3>3
  <2> QED BY <2>1, <2>2, <2>3
<1>4. Alone'
  <2> SUFFICES ASSUME NEW g \in Handlers, met[g] = {},
                      stage'[g] \in {"writing", "compiling", "linking", "running"}
               PROVE  /\ Dir(g)'.dir
                      /\ stage'[g] \in {"compiling", "linking", "running"} =>
                           Dir(g)'.source = task[g]
                      /\ stage'[g] \in {"linking", "running"} => Dir(g)'.object = task[g]
                      /\ stage'[g] = "running" => Dir(g)'.exe = task[g]
    BY DEF Alone
  <2>1. CASE g = h
    BY <1>1, <2>1
  <2>2. CASE g # h
    <3>1. stage'[g] = stage[g] /\ Active(g)
      BY <2>2 DEF Active
    <3>2. frame[g] # frame[h]
      BY <2>2, <3>1 DEF IInv, MetShared
    <3> QED BY <1>1, <3>1, <3>2 DEF IInv, Alone
  <2> QED BY <2>1, <2>2
<1> QED BY <1>3, <1>4

LEMMA PreparesKeep ==
  ASSUME IInv, NEW h \in Handlers, Prepare(h)
  PROVE  IInv'
<1>a. /\ UNCHANGED <<driver, process, nextFrame, client, frame, task, met, cases, joined, result, hit>>
      /\ \A g \in Handlers \ {h} : stage'[g] = stage[g]
      /\ stage'[h] # "running" /\ \A g \in Handlers : Continues(g)
  <2>1. UNCHANGED <<driver, process, nextFrame, client, frame, task, met, cases, joined, result, hit>>
    BY DEF Prepare, handling
  <2> QED BY <2>1, Continue DEF IInv, TypeOK, Prepare, Step
<1>1. TypeOK'
  <2>1. TypeOK /\ Dir(h) \in Dirs /\ task[h] \in Tasks \cup {NoTask}
    BY DirParts DEF IInv
  <2> DEFINE d == [Dir(h) EXCEPT !.dir = TRUE]
  <2>2. d \in Dirs
    BY <2>1 DEF Dirs
  <2>3. Step(h, "preparing", "writing") /\ SetDir(h, d) /\ UNCHANGED <<handling, cases, joined, result, hit>>
    BY DEF Prepare
  <2>4. cases' \in [Handlers -> Seq(CaseStates)] /\ joined' \in [Handlers -> SUBSET Nat]
    BY <2>1, <2>3 DEF TypeOK
  <2> HIDE DEF d
  <2> QED BY <2>1, <2>2, <2>3, <2>4, WritesTyped
<1>2. Known'
  BY DEF IInv, TypeOK, Known, Prepare, Step, SetDir, handling, Frames
<1>3. MetShared'
  BY DEF IInv, TypeOK, MetShared, Known, Active, Prepare, Step, SetDir, handling, Frames
<1>4. Overwritten' /\ Alone'
  <2> DEFINE d == [Dir(h) EXCEPT !.dir = TRUE]
  <2>1. TypeOK /\ Dir(h) \in Dirs /\ task[h] \in Tasks \cup {NoTask}
        /\ Dir(h).source \in Tasks \cup {NoTask} /\ Dir(h).object \in Tasks \cup {NoTask}
    BY DirParts DEF IInv
  <2>2. d \in Dirs /\ SetDir(h, d) /\ Active(h) /\ stage'[h] = "writing"
    BY <2>1 DEF TypeOK, Dirs, Prepare, Step, Active
  <2>3. d.dir /\ d.source = Dir(h).source /\ d.object = Dir(h).object /\ d.exe = Dir(h).exe
    BY <2>1 DEF Dirs
  <2>4. stage'[h] \notin {"compiling", "linking", "running"}
    BY <2>2
  <2> HIDE DEF d
  <2> QED BY <1>a, <2>2, <2>3, <2>4, WrittenKeep
<1>6. RightSoFar'
  BY <1>a, RunningKeep DEF IInv
<1>7. JoinedPassed'
  BY <1>a, RunningKeep DEF IInv
<1>8. Used'
  <2>1. TypeOK /\ SetDir(h, [Dir(h) EXCEPT !.dir = TRUE]) /\ UNCHANGED <<frame, hit>>
        /\ Uses(h)' /\ \A g \in Handlers \ {h} : stage'[g] = stage[g]
    BY DEF IInv, TypeOK, Prepare, Step, Uses, handling
  <2>2. \A f \in Frames : work'[f].dir => work[f].dir \/ f = frame[h]
    BY <2>1 DEF TypeOK, SetDir
  <2>3. \A g \in Handlers : frame'[g] = frame[g] /\ (Uses(g) \/ hit[g] => Uses(g)' \/ hit'[g])
    BY <2>1 DEF Uses
  <2> QED BY <2>1, <2>2, <2>3 DEF IInv, Used
<1>9. VerdictIsOwn'
  BY <1>a, ResultsKeep DEF IInv
<1>10. ErrorsAreOwn'
  BY <1>a, ResultsKeep DEF IInv
<1> QED
  BY <1>1, <1>2, <1>3, <1>4, <1>6, <1>7, <1>8, <1>9, <1>10 DEF IInv

LEMMA WritesKeep ==
  ASSUME IInv, NEW h \in Handlers, WriteSource(h)
  PROVE  IInv'
<1>a. /\ UNCHANGED <<driver, process, nextFrame, client, frame, task, met, cases, joined, result, hit>>
      /\ \A g \in Handlers \ {h} : stage'[g] = stage[g]
      /\ stage'[h] # "running" /\ \A g \in Handlers : Continues(g)
  <2>1. UNCHANGED <<driver, process, nextFrame, client, frame, task, met, cases, joined, result, hit>>
    BY DEF WriteSource, handling
  <2> QED BY <2>1, Continue DEF IInv, TypeOK, WriteSource, Step
<1>1. TypeOK'
  <2>1. TypeOK /\ Dir(h) \in Dirs /\ task[h] \in Tasks \cup {NoTask}
    BY DirParts DEF IInv
  <2> DEFINE d == [Dir(h) EXCEPT !.source = task[h]]
  <2>2. d \in Dirs
    BY <2>1 DEF Dirs
  <2>3. Step(h, "writing", "compiling") /\ SetDir(h, d) /\ UNCHANGED <<handling, cases, joined, result, hit>>
    BY DEF WriteSource
  <2>4. cases' \in [Handlers -> Seq(CaseStates)] /\ joined' \in [Handlers -> SUBSET Nat]
    BY <2>1, <2>3 DEF TypeOK
  <2> HIDE DEF d
  <2> QED BY <2>1, <2>2, <2>3, <2>4, WritesTyped
<1>2. Known'
  BY DEF IInv, TypeOK, Known, WriteSource, Step, SetDir, handling, Frames
<1>3. MetShared'
  BY DEF IInv, TypeOK, MetShared, Known, Active, WriteSource, Step, SetDir, handling,
     Frames
<1>4. Overwritten' /\ Alone'
  <2> DEFINE d == [Dir(h) EXCEPT !.source = task[h]]
  <2>1. TypeOK /\ Dir(h) \in Dirs /\ task[h] \in Tasks \cup {NoTask}
        /\ Dir(h).source \in Tasks \cup {NoTask} /\ Dir(h).object \in Tasks \cup {NoTask}
    BY DirParts DEF IInv
  <2>2. d \in Dirs /\ SetDir(h, d) /\ Active(h) /\ stage'[h] = "compiling" /\ Dir(h).dir
    BY <2>1 DEF TypeOK, Dirs, WriteSource, Step, Active
  <2>3. d.dir /\ d.source = task[h] /\ d.object = Dir(h).object /\ d.exe = Dir(h).exe
    BY <2>1, <2>2 DEF Dirs
  <2>4. stage'[h] \notin {"linking", "running"}
    BY <2>2
  <2> HIDE DEF d
  <2> QED BY <1>a, <2>2, <2>3, <2>4, WrittenKeep
<1>6. RightSoFar'
  BY <1>a, RunningKeep DEF IInv
<1>7. JoinedPassed'
  BY <1>a, RunningKeep DEF IInv
<1>8. Used'
  <2>1. TypeOK /\ SetDir(h, [Dir(h) EXCEPT !.source = task[h]]) /\ UNCHANGED <<frame, hit>>
        /\ Uses(h)' /\ \A g \in Handlers \ {h} : stage'[g] = stage[g]
    BY DEF IInv, TypeOK, WriteSource, Step, Uses, handling
  <2>2. \A f \in Frames : work'[f].dir => work[f].dir \/ f = frame[h]
    BY <2>1 DEF TypeOK, SetDir
  <2>3. \A g \in Handlers : frame'[g] = frame[g] /\ (Uses(g) \/ hit[g] => Uses(g)' \/ hit'[g])
    BY <2>1 DEF Uses
  <2> QED BY <2>1, <2>2, <2>3 DEF IInv, Used
<1>9. VerdictIsOwn'
  BY <1>a, ResultsKeep DEF IInv
<1>10. ErrorsAreOwn'
  BY <1>a, ResultsKeep DEF IInv
<1> QED
  BY <1>1, <1>2, <1>3, <1>4, <1>6, <1>7, <1>8, <1>9, <1>10 DEF IInv

LEMMA CompilesKeep ==
  ASSUME IInv, NEW h \in Handlers, Compile(h)
  PROVE  IInv'
<1>a. /\ UNCHANGED <<driver, process, nextFrame, client, frame, task, met, cases, joined, result, hit>>
      /\ \A g \in Handlers \ {h} : stage'[g] = stage[g]
      /\ stage'[h] # "running" /\ \A g \in Handlers : Continues(g)
  <2>1. UNCHANGED <<driver, process, nextFrame, client, frame, task, met, cases, joined, result, hit>>
    BY DEF Compile, handling
  <2> QED BY <2>1, Continue DEF IInv, TypeOK, Compile, Step
<1>1. TypeOK'
  <2>1. TypeOK /\ Dir(h) \in Dirs /\ Dir(h).source \in Tasks \cup {NoTask}
    BY DirParts DEF IInv
  <2> DEFINE d == [Dir(h) EXCEPT !.object = Dir(h).source, !.exe = NoTask]
  <2>2. d \in Dirs
    BY <2>1 DEF Dirs
  <2>3. Step(h, "compiling", "linking") /\ SetDir(h, d) /\ UNCHANGED <<handling, cases, joined, result, hit>>
    BY DEF Compile
  <2>4. cases' \in [Handlers -> Seq(CaseStates)] /\ joined' \in [Handlers -> SUBSET Nat]
    BY <2>1, <2>3 DEF TypeOK
  <2> HIDE DEF d
  <2> QED BY <2>1, <2>2, <2>3, <2>4, WritesTyped
<1>2. Known'
  BY DEF IInv, TypeOK, Known, Compile, Step, SetDir, handling, Frames
<1>3. MetShared'
  BY DEF IInv, TypeOK, MetShared, Known, Active, Compile, Step, SetDir, handling, Frames
<1>4. Overwritten' /\ Alone'
  <2> DEFINE d == [Dir(h) EXCEPT !.object = Dir(h).source, !.exe = NoTask]
  <2>1. TypeOK /\ Dir(h) \in Dirs /\ task[h] \in Tasks \cup {NoTask}
        /\ Dir(h).source \in Tasks \cup {NoTask} /\ Dir(h).object \in Tasks \cup {NoTask}
    BY DirParts DEF IInv
  <2>2. /\ d \in Dirs /\ SetDir(h, d) /\ Active(h)
        /\ stage[h] = "compiling" /\ stage'[h] = "linking"
    BY <2>1 DEF TypeOK, Dirs, Compile, Step, Active
  <2>3. d.dir = Dir(h).dir /\ d.source = Dir(h).source /\ d.object = Dir(h).source /\ d.exe = NoTask
    BY <2>1 DEF Dirs
  <2>4. /\ OwnCompany(h) => Dir(h).source \in {task[h], NoTask}
        /\ met[h] = {} => Dir(h).dir /\ Dir(h).source = task[h]
        /\ stage'[h] # "running"
    BY <2>2 DEF IInv, Overwritten, Alone
  <2> HIDE DEF d
  <2> QED BY <1>a, <2>2, <2>3, <2>4, WrittenKeep
<1>6. RightSoFar'
  BY <1>a, RunningKeep DEF IInv
<1>7. JoinedPassed'
  BY <1>a, RunningKeep DEF IInv
<1>8. Used'
  <2>1. TypeOK /\ SetDir(h, [Dir(h) EXCEPT !.object = Dir(h).source, !.exe = NoTask]) /\ UNCHANGED <<frame, hit>>
        /\ Uses(h)' /\ \A g \in Handlers \ {h} : stage'[g] = stage[g]
    BY DEF IInv, TypeOK, Compile, Step, Uses, handling
  <2>2. \A f \in Frames : work'[f].dir => work[f].dir \/ f = frame[h]
    BY <2>1 DEF TypeOK, SetDir
  <2>3. \A g \in Handlers : frame'[g] = frame[g] /\ (Uses(g) \/ hit[g] => Uses(g)' \/ hit'[g])
    BY <2>1 DEF Uses
  <2> QED BY <2>1, <2>2, <2>3 DEF IInv, Used
<1>9. VerdictIsOwn'
  BY <1>a, ResultsKeep DEF IInv
<1>10. ErrorsAreOwn'
  BY <1>a, ResultsKeep DEF IInv
<1> QED
  BY <1>1, <1>2, <1>3, <1>4, <1>6, <1>7, <1>8, <1>9, <1>10 DEF IInv

LEMMA LinksKeep ==
  ASSUME IInv, NEW h \in Handlers, Link(h)
  PROVE  IInv'
<1>a. task[h] \in Tasks
  BY DEF IInv, Known, Link, Step
<1>b. /\ Queued(task[h]) \in Seq(CaseStates) /\ Len(Queued(task[h])) = Len(Answers[task[h]])
      /\ \A i \in 1 .. Len(Answers[task[h]]) : Queued(task[h])[i] = "queued"
  BY <1>a, QueuedType
<1>1. TypeOK'
  <2>1. TypeOK /\ Dir(h) \in Dirs /\ Dir(h).object \in Tasks \cup {NoTask}
    BY DirParts DEF IInv
  <2> DEFINE d == [Dir(h) EXCEPT !.exe = Dir(h).object]
  <2>2. d \in Dirs
    BY <2>1 DEF Dirs
  <2>3. Step(h, "linking", "running") /\ SetDir(h, d) /\ UNCHANGED <<handling, result, hit>>
    BY DEF Link
  <2>4. cases' \in [Handlers -> Seq(CaseStates)] /\ joined' \in [Handlers -> SUBSET Nat]
    BY <2>1, <1>b DEF TypeOK, Link
  <2> HIDE DEF d
  <2> QED BY <2>1, <2>2, <2>3, <2>4, WritesTyped
<1>2. Known'
  BY DEF IInv, TypeOK, Known, Link, Step, SetDir, Queued, handling, Frames
<1>3. MetShared'
  BY DEF IInv, TypeOK, MetShared, Known, Active, Link, Step, SetDir, Queued, handling,
     Frames
<1>4. Overwritten' /\ Alone'
  <2> DEFINE d == [Dir(h) EXCEPT !.exe = Dir(h).object]
  <2>1. TypeOK /\ Dir(h) \in Dirs /\ task[h] \in Tasks \cup {NoTask}
        /\ Dir(h).source \in Tasks \cup {NoTask} /\ Dir(h).object \in Tasks \cup {NoTask}
    BY DirParts DEF IInv
  <2>2. /\ d \in Dirs /\ SetDir(h, d) /\ Active(h)
        /\ stage[h] = "linking" /\ stage'[h] = "running"
        /\ UNCHANGED <<frame, task, met>> /\ \A g \in Handlers \ {h} : stage'[g] = stage[g]
    BY <2>1 DEF TypeOK, Dirs, Link, Step, Active, handling
  <2>3. /\ d.dir = Dir(h).dir /\ d.source = Dir(h).source
        /\ d.object = Dir(h).object /\ d.exe = Dir(h).object
    BY <2>1 DEF Dirs
  <2>4. /\ OwnCompany(h) => Dir(h).source \in {task[h], NoTask} /\ Dir(h).object \in {task[h], NoTask}
        /\ met[h] = {} => Dir(h).dir /\ Dir(h).source = task[h] /\ Dir(h).object = task[h]
    BY <2>2 DEF IInv, Overwritten, Alone
  <2> HIDE DEF d
  <2> QED BY <2>2, <2>3, <2>4, WrittenKeep
<1>6. RightSoFar'
  <2>1. UNCHANGED <<frame, task, met, hit>>
        /\ cases'[h] = Queued(task[h])
        /\ \A g \in Handlers \ {h} : stage'[g] = stage[g] /\ cases'[g] = cases[g]
    BY DEF IInv, TypeOK, Link, Step, handling
  <2>2. "queued" \notin Verdicts \cup {"error"}
    BY DEF Verdicts
  <2> QED BY <1>b, <2>1, <2>2 DEF IInv, RightSoFar, OwnCompany
<1>7. JoinedPassed'
  <2>1. /\ UNCHANGED task /\ joined'[h] = {}
        /\ \A g \in Handlers \ {h} : /\ stage'[g] = stage[g] /\ cases'[g] = cases[g]
                                     /\ joined'[g] = joined[g]
    BY DEF IInv, TypeOK, Link, Step, handling
  <2> QED BY <2>1 DEF IInv, JoinedPassed
<1>8. Used'
  <2>1. TypeOK /\ SetDir(h, [Dir(h) EXCEPT !.exe = Dir(h).object]) /\ UNCHANGED <<frame, hit>>
        /\ Uses(h)' /\ \A g \in Handlers \ {h} : stage'[g] = stage[g]
    BY DEF IInv, TypeOK, Link, Step, Uses, handling
  <2>2. \A f \in Frames : work'[f].dir => work[f].dir \/ f = frame[h]
    BY <2>1 DEF TypeOK, SetDir
  <2>3. \A g \in Handlers : frame'[g] = frame[g] /\ (Uses(g) \/ hit[g] => Uses(g)' \/ hit'[g])
    BY <2>1 DEF Uses
  <2> QED BY <2>1, <2>2, <2>3 DEF IInv, Used
<1>9. VerdictIsOwn'
  BY DEF IInv, TypeOK, VerdictIsOwn, Known, Link, Step, SetDir, Queued, handling, Frames
<1>10. ErrorsAreOwn'
  BY DEF IInv, TypeOK, ErrorsAreOwn, Known, Link, Step, SetDir, Queued, handling, Frames
<1> QED
  BY <1>1, <1>2, <1>3, <1>4, <1>6, <1>7, <1>8, <1>9, <1>10 DEF IInv

(* The compiler of a dropped handler makes its object or executable of     *)
(* what is there, which is their task's own for all who have it around.    *)
LEMMA CompilerEndsKeeps ==
  ASSUME IInv, NEW h \in Handlers, CompilerEnds(h)
  PROVE  IInv'
<1>1. /\ UNCHANGED <<driver, process, nextFrame, client, frame, task, met, cases, joined, result, hit>>
      /\ stage[h] \in {"compiles on", "links on"} /\ stage'[h] = "dropped"
      /\ \A g \in Handlers \ {h} : stage'[g] = stage[g]
  BY DEF IInv, TypeOK, CompilerEnds, Step
<1>2. PICK from \in {"compiles on", "links on"} : Step(h, from, "dropped")
  BY DEF CompilerEnds
<1>3. CASE UNCHANGED work
  <2>1. TypeOK'
    BY <1>1, <1>2, <1>3 DEF IInv, TypeOK, Step
  <2>2. \A g \in Handlers :
          stage'[g] = stage[g] \/ (Active(g) /\ stage'[g] \in {"dropped", "compiles on", "links on"})
    BY <1>1 DEF Active
  <2> QED BY <1>1, <1>3, <2>1, <2>2, LeavesKeep
<1>4. CASE \E made \in {[Dir(h) EXCEPT !.object = Dir(h).source],
                        [Dir(h) EXCEPT !.exe = Dir(h).object]} : SetDir(h, made)
  <2>1. TypeOK /\ Dir(h) \in Dirs
        /\ Dir(h).source \in Tasks \cup {NoTask} /\ Dir(h).object \in Tasks \cup {NoTask}
    BY DirParts DEF IInv
  <2>2. PICK made \in Dirs :
          /\ SetDir(h, made)
          /\ made.dir = Dir(h).dir /\ made.source = Dir(h).source
          /\ \/ made.object = Dir(h).source /\ made.exe = Dir(h).exe
             \/ made.object = Dir(h).object /\ made.exe = Dir(h).object
    BY <1>4, <2>1 DEF Dirs
  <2>3. TypeOK'
    <3>1. UNCHANGED <<handling, cases, joined, result, hit>>
      BY <1>1 DEF handling
    <3>2. cases' \in [Handlers -> Seq(CaseStates)] /\ joined' \in [Handlers -> SUBSET Nat]
      BY <2>1, <3>1 DEF TypeOK
    <3> QED BY <1>2, <2>1, <2>2, <3>1, <3>2, WritesTyped
  <2>5. \A g \in Handlers : Continues(g)
    BY <1>1, Continue
  <2>6. Known'
    <3>1. \A g \in Handlers : stage'[g] = "free" <=> stage[g] = "free"
      BY <1>1
    <3>2. UNCHANGED <<client, task, result, hit, met>> /\ Known
      BY <1>1 DEF IInv
    <3>3. \A g \in Handlers : met[g] \subseteq Handlers
      BY <2>1 DEF TypeOK
    <3> QED BY <3>1, <3>2, <3>3 DEF Known
  <2>7. MetShared'
    <3>1. \A g \in Handlers : Active(g)' => Active(g)
      BY <1>1 DEF Active
    <3> QED BY <1>1, <3>1 DEF IInv, MetShared
  <2>8. Overwritten' /\ Alone'
    <3>1. Active(h) /\ stage'[h] \notin {"writing", "compiling", "linking", "running"}
      BY <1>1 DEF Active
    <3> QED BY <1>1, <2>2, <3>1, WrittenKeep
  <2>9. RightSoFar' /\ JoinedPassed'
    BY <1>1, <2>5, RunningKeep DEF IInv
  <2>10. Used'
    <3>1. \A f \in Frames : work'[f].dir => work[f].dir
      BY <2>1, <2>2 DEF TypeOK, SetDir, Dir
    <3>2. ASSUME NEW g \in Handlers, Uses(g) \/ hit[g] PROVE Uses(g)' \/ hit'[g]
      BY <1>1, <3>2 DEF Uses
    <3> QED BY <1>1, <3>1, <3>2 DEF IInv, Used
  <2>11. VerdictIsOwn' /\ ErrorsAreOwn'
    BY <1>1, <2>5, ResultsKeep DEF IInv
  <2> QED BY <2>3, <2>6, <2>7, <2>8, <2>9, <2>10, <2>11 DEF IInv
<1> QED BY <1>3, <1>4 DEF CompilerEnds

LEMMA BatchesKeep ==
  ASSUME IInv, NEW h \in Handlers, SpawnBatch(h)
  PROVE  IInv'
<1>1. /\ TypeOK /\ stage[h] = "running" /\ cases[h] \in Seq(CaseStates)
      /\ UNCHANGED <<handling, stage, joined, result, hit, work>>
  BY DEF IInv, TypeOK, SpawnBatch
<1>2. UNCHANGED <<driver, process, nextFrame, client, frame, task, met, stage, joined, result, hit,
                  work>>
  BY <1>1 DEF handling
<1>3. PICK c : /\ cases' = [cases EXCEPT ![h] = c]
               /\ c \in Seq(CaseStates) /\ Len(c) = Len(cases[h])
               /\ \A i \in 1 .. Len(cases[h]) :
                    c[i] = cases[h][i] \/ (cases[h][i] = "queued" /\ c[i] = "flying")
  <2> DEFINE batch == {i \in Left(h) : i < Min(Left(h)) + BatchMax}
             c == [i \in All(h) |-> IF i \in batch THEN "flying" ELSE cases[h][i]]
  <2>1. cases' = [cases EXCEPT ![h] = c]
    BY <1>1 DEF SpawnBatch, TypeOK
  <2>2. batch \subseteq Left(h) /\ All(h) = 1 .. Len(cases[h]) /\ Len(cases[h]) \in Nat
    BY <1>1 DEF All
  <2>3. \A i \in batch : cases[h][i] = "queued"
    BY <2>2 DEF Left
  <2> HIDE DEF batch
  <2>4. \A i \in All(h) : cases[h][i] \in CaseStates /\ "flying" \in CaseStates
    BY <1>1, <2>2, ElementOfSeq DEF CaseStates
  <2>5. c \in [1 .. Len(cases[h]) -> CaseStates]
    BY <2>2, <2>4
  <2>6. c \in Seq(CaseStates) /\ Len(c) = Len(cases[h])
    BY <2>2, <2>5, SeqDef, LenProperties
  <2>7. \A i \in 1 .. Len(cases[h]) :
          c[i] = cases[h][i] \/ (cases[h][i] = "queued" /\ c[i] = "flying")
    BY <2>2, <2>3
  <2> HIDE DEF c
  <2> QED BY <2>1, <2>6, <2>7
<1>4. cases'[h] = c /\ \A g \in Handlers \ {h} : cases'[g] = cases[g]
  BY <1>1, <1>3 DEF TypeOK
<1>5. \A g \in Handlers : Continues(g)
  BY <1>2, Continue
<1>6. TypeOK'
  <2>1. cases' \in [Handlers -> Seq(CaseStates)]
    BY <1>1, <1>3 DEF TypeOK
  <2> QED BY <1>1, <1>2, <2>1 DEF TypeOK
<1>7. Known' /\ MetShared' /\ Used'
  BY <1>2 DEF IInv, Known, MetShared, Active, Used, Uses
<1>8. Overwritten' /\ Alone'
  BY <1>2, <1>5, FoundKeep DEF IInv
<1>9. RightSoFar'
  <2>1. "flying" \notin Verdicts \cup {"error"}
    BY DEF Verdicts
  <2>2. \A g \in Handlers : OwnCompany(g)' <=> OwnCompany(g)
    BY <1>2 DEF OwnCompany
  <2> SUFFICES ASSUME NEW g \in Handlers, stage[g] = "running"
               PROVE  /\ Len(cases'[g]) = Len(Answers[task[g]])
                      /\ \A i \in 1 .. Len(cases'[g]) :
                           /\ OwnCompany(g) /\ cases'[g][i] \in Verdicts =>
                                cases'[g][i] = Answers[task[g]][i]
                           /\ met[g] = {} /\ cases'[g][i] = "error" => hit[g]
    BY <1>2, <2>2 DEF RightSoFar
  <2>3. CASE g # h
    BY <1>4, <2>3 DEF IInv, RightSoFar
  <2>4. CASE g = h
    BY <1>3, <1>4, <2>1, <2>4 DEF IInv, RightSoFar
  <2> QED BY <2>3, <2>4
<1>10. JoinedPassed'
  <2> SUFFICES ASSUME NEW g \in Handlers, stage[g] = "running"
               PROVE  /\ joined[g] \subseteq 1 .. Len(cases'[g])
                      /\ \A j \in joined[g] :
                           /\ cases'[g][j] \in Verdicts
                           /\ task[g] \in StopOnFirst => cases'[g][j] = "accepted"
    BY <1>2 DEF JoinedPassed
  <2>1. CASE g # h
    BY <1>4, <2>1 DEF IInv, JoinedPassed
  <2>2. CASE g = h
    <3>1. \A j \in joined[h] : cases[h][j] # "queued" /\ j \in 1 .. Len(cases[h])
      BY <1>1 DEF IInv, JoinedPassed, Verdicts
    <3> QED BY <1>3, <1>4, <2>2, <3>1 DEF IInv, JoinedPassed
  <2> QED BY <2>1, <2>2
<1>11. VerdictIsOwn' /\ ErrorsAreOwn'
  BY <1>2, <1>5, ResultsKeep DEF IInv
<1> QED BY <1>6, <1>7, <1>8, <1>9, <1>10, <1>11 DEF IInv

LEMMA RunsKeep ==
  ASSUME IInv, NEW h \in Handlers, NEW i \in All(h), Run(h, i)
  PROVE  IInv'
<1>1. /\ stage[h] = "running" /\ cases[h] \in Seq(CaseStates) /\ i \in 1 .. Len(cases[h])
      /\ UNCHANGED <<handling, stage, joined, result, work>>
      /\ cases[h][i] = "flying"
  BY DEF IInv, TypeOK, Run, All
<1>2. hit' \in {hit, [hit EXCEPT ![h] = TRUE]}
  BY HitIs DEF Run
<1>3. PICK v \in CaseStates :
        /\ cases' = [cases EXCEPT ![h][i] = v]
        /\ OwnCompany(h) /\ v \in Verdicts => v = Answers[task[h]][i]
        /\ met[h] = {} /\ v = "error" => hit'[h]
  <2>1. OwnCompany(h) => Dir(h).exe \in {task[h], NoTask}
    BY <1>1 DEF IInv, Overwritten
  <2>2. met[h] = {} => Dir(h).exe # NoTask
    BY <1>1, HandlerAssumption DEF IInv, Alone, Known
  <2>3. CASE /\ Dir(h).exe # NoTask
             /\ \E v \in Verdicts : /\ Dir(h).exe = task[h] => v = Answers[task[h]][i]
                                    /\ cases' = [cases EXCEPT ![h][i] = v]
    <3>1. "error" \notin Verdicts /\ Verdicts \subseteq CaseStates
      BY DEF Verdicts, CaseStates
    <3> QED BY <2>1, <2>3, <3>1
  <2>4. CASE /\ Dir(h).exe # NoTask => Hit(h)
             /\ cases' = [cases EXCEPT ![h][i] = "error"]
    <3>1. "error" \notin Verdicts /\ "error" \in CaseStates
      BY DEF Verdicts, CaseStates
    <3>2. met[h] = {} => hit'[h]
      BY <2>2, <2>4, HitIs DEF IInv, TypeOK
    <3> QED BY <2>4, <3>1, <3>2
  <2> QED BY <2>3, <2>4 DEF Run
<1>4. /\ cases' = [cases EXCEPT ![h] = [cases[h] EXCEPT ![i] = v]]
      /\ [cases[h] EXCEPT ![i] = v] \in Seq(CaseStates)
      /\ Len([cases[h] EXCEPT ![i] = v]) = Len(cases[h])
      /\ \A j \in 1 .. Len(cases[h]) :
           [cases[h] EXCEPT ![i] = v][j] = IF j = i THEN v ELSE cases[h][j]
  <2>1. cases' = [cases EXCEPT ![h] = [cases[h] EXCEPT ![i] = v]]
    BY <1>3 DEF IInv, TypeOK
  <2> QED BY <1>1, <1>3, <2>1, ExceptSeq
<1>5. /\ cases'[h] \in Seq(CaseStates) /\ Len(cases'[h]) = Len(cases[h])
      /\ \A j \in 1 .. Len(cases[h]) : cases'[h][j] = IF j = i THEN v ELSE cases[h][j]
      /\ \A g \in Handlers \ {h} : cases'[g] = cases[g]
  BY <1>4 DEF IInv, TypeOK
<1>6. /\ UNCHANGED <<driver, process, nextFrame, client, frame, task, met, stage, joined, result,
                     work>>
      /\ \A g \in Handlers : hit[g] => hit'[g]
  BY <1>1, <1>2 DEF handling, IInv, TypeOK
<1>7. \A g \in Handlers : Continues(g)
  BY <1>6, Continue
<1>8. TypeOK'
  BY <1>2, <1>4, <1>6 DEF IInv, TypeOK
<1>9. Known' /\ MetShared'
  BY <1>1, <1>2, <1>6 DEF IInv, Known, MetShared, Active, TypeOK
<1>10. Overwritten' /\ Alone'
  BY <1>6, <1>7, FoundKeep DEF IInv
<1>11. RightSoFar'
  <2> SUFFICES ASSUME NEW g \in Handlers, stage[g] = "running"
               PROVE  /\ Len(cases'[g]) = Len(Answers[task[g]])
                      /\ \A j \in 1 .. Len(cases'[g]) :
                           /\ OwnCompany(g) /\ cases'[g][j] \in Verdicts =>
                                cases'[g][j] = Answers[task[g]][j]
                           /\ met[g] = {} /\ cases'[g][j] = "error" => hit'[g]
    BY <1>6 DEF RightSoFar, OwnCompany
  <2>1. CASE g # h
    BY <2>1, <1>5, <1>6 DEF IInv, RightSoFar
  <2>2. CASE g = h
    BY <2>2, <1>3, <1>5, <1>6 DEF IInv, RightSoFar
  <2> QED BY <2>1, <2>2
<1>12. JoinedPassed'
  <2> SUFFICES ASSUME NEW g \in Handlers, stage[g] = "running"
               PROVE  /\ joined[g] \subseteq 1 .. Len(cases'[g])
                      /\ \A j \in joined[g] :
                           /\ cases'[g][j] \in Verdicts
                           /\ task[g] \in StopOnFirst => cases'[g][j] = "accepted"
    BY <1>6 DEF JoinedPassed
  <2>1. CASE g # h
    BY <2>1, <1>5 DEF IInv, JoinedPassed
  <2>2. CASE g = h
    <3>1. i \notin joined[h]
      BY <1>1 DEF IInv, JoinedPassed, Verdicts
    <3> QED BY <2>2, <3>1, <1>5 DEF IInv, JoinedPassed
  <2> QED BY <2>1, <2>2
<1>13. Used'
  BY <1>6 DEF IInv, Used, Uses
<1>14. VerdictIsOwn' /\ ErrorsAreOwn'
  BY <1>6, <1>7, ResultsKeep DEF IInv
<1> QED BY <1>8, <1>9, <1>10, <1>11, <1>12, <1>13, <1>14 DEF IInv

LEMMA JoinsKeep ==
  ASSUME IInv, NEW h \in Handlers, NEW i \in All(h), Join(h, i)
  PROVE  IInv'
<1>1. /\ stage[h] = "running" /\ i \in 1 .. Len(cases[h]) /\ i \in Flying(h)
      /\ cases[h][i] \notin {"flying", "queued"} /\ cases[h][i] \in CaseStates
      /\ UNCHANGED <<handling, cases, hit, work>>
  BY ElementOfSeq DEF IInv, TypeOK, Join, All, Flying
<1>2. /\ Len(cases[h]) = Len(Answers[task[h]])
      /\ OwnCompany(h) /\ cases[h][i] \in Verdicts => cases[h][i] = Answers[task[h]][i]
      /\ met[h] = {} /\ cases[h][i] = "error" => hit[h]
  BY <1>1 DEF IInv, RightSoFar
<1>3. Active(h) /\ cases[h][i] \in Verdicts \cup {"error"}
  BY <1>1 DEF Active, CaseStates, Verdicts
<1>4. CASE cases[h][i] = "error"
  <2>1. Finish(h, Result("internal", <<>>), "cleaning") /\ joined' = joined
    BY <1>4 DEF Join
  <2>2. Grounds(h, Result("internal", <<>>)) /\ Result("internal", <<>>) \in Results
    BY <1>1, <1>2, <1>4, PlainResult DEF Grounds
  <2> QED BY <1>1, <1>3, <2>1, <2>2, EndsKeep
<1>5. CASE cases[h][i] \in Verdicts \ {"accepted"} /\ task[h] \in StopOnFirst
  <2> DEFINE r == Result("stopped", <<cases[h][i]>>)
  <2>1. Finish(h, r, "cleaning") /\ joined' = joined
    BY <1>5 DEF Join, Verdicts
  <2>2. r \in Results /\ r.kind = "stopped" /\ r.cases = <<cases[h][i]>>
    BY <1>5 DEF Result, Results, Kinds
  <2>3. OwnCompany(h) => Answered(task[h], r)
    <3>1. OwnCompany(h) => cases[h][i] = Answers[task[h]][i]
                           /\ i \in 1 .. Len(Answers[task[h]])
      BY <1>1, <1>2, <1>5
    <3> QED BY <1>5, <2>2, <3>1 DEF Answered
  <2>4. Grounds(h, r)
    BY <2>2, <2>3 DEF Grounds
  <2> HIDE DEF r
  <2> QED BY <1>1, <1>3, <2>1, <2>2, <2>4, EndsKeep
<1>6. CASE cases[h][i] \in Verdicts /\ (task[h] \in StopOnFirst => cases[h][i] = "accepted")
  <2>1. joined' = [joined EXCEPT ![h] = @ \cup {i}] /\ UNCHANGED <<stage, result>>
    BY <1>6 DEF Join, Verdicts
  <2>2. UNCHANGED <<driver, process, nextFrame, client, frame, task, met, stage, cases, result,
                    hit, work>>
    BY <1>1, <2>1 DEF handling
  <2>3. joined'[h] = joined[h] \cup {i} /\ \A g \in Handlers \ {h} : joined'[g] = joined[g]
    BY <2>1 DEF IInv, TypeOK
  <2>4. \A g \in Handlers : Continues(g)
    BY <2>2, Continue
  <2>5. TypeOK'
    <3>1. joined \in [Handlers -> SUBSET Nat] /\ i \in Nat
      <4>1. joined \in [Handlers -> SUBSET Nat] /\ cases[h] \in Seq(CaseStates)
        BY DEF IInv, TypeOK
      <4>2. Len(cases[h]) \in Nat
        BY <4>1, LenProperties
      <4> QED BY <1>1, <4>1, <4>2
    <3>2. joined' \in [Handlers -> SUBSET Nat]
      BY <2>1, <3>1
    <3> QED BY <2>2, <3>2 DEF IInv, TypeOK
  <2>6. Known' /\ MetShared' /\ Used'
    BY <2>2 DEF IInv, Known, MetShared, Active, Used, Uses
  <2>7. Overwritten' /\ Alone'
    BY <2>2, <2>4, FoundKeep DEF IInv
  <2>8. RightSoFar'
    BY <2>2 DEF IInv, RightSoFar, OwnCompany
  <2>9. JoinedPassed'
    BY <1>1, <1>6, <2>2, <2>3 DEF IInv, JoinedPassed
  <2>10. VerdictIsOwn' /\ ErrorsAreOwn'
    BY <2>2, <2>4, ResultsKeep DEF IInv
  <2> QED BY <2>5, <2>6, <2>7, <2>8, <2>9, <2>10 DEF IInv
<1> QED BY <1>3, <1>4, <1>5, <1>6

LEMMA CleanupsKeep ==
  ASSUME IInv, NEW h \in Handlers, Cleanup(h)
  PROVE  IInv'
<1>a. /\ UNCHANGED <<driver, process, nextFrame, client, frame, task, met, cases, joined, result, hit>>
      /\ \A g \in Handlers \ {h} : stage'[g] = stage[g]
      /\ stage'[h] # "running" /\ \A g \in Handlers : Continues(g)
  <2>1. UNCHANGED <<driver, process, nextFrame, client, frame, task, met, cases, joined, result, hit>>
    BY DEF Cleanup, handling
  <2> QED BY <2>1, Continue DEF IInv, TypeOK, Cleanup, Step
<1>b. /\ stage[h] = "cleaning" /\ stage'[h] = "replying"
      /\ \A g \in Handlers : Dir(g)' = IF frame[g] = frame[h] THEN Gone ELSE Dir(g)
  BY <1>a DEF IInv, TypeOK, Cleanup, Step, SetDir, Dir
<1>1. TypeOK'
  <2>1. TypeOK /\ Gone \in Dirs
    BY DEF IInv, Gone, Dirs
  <2>2. Step(h, "cleaning", "replying") /\ SetDir(h, Gone)
        /\ UNCHANGED <<handling, cases, joined, result, hit>>
    BY DEF Cleanup
  <2>3. cases' \in [Handlers -> Seq(CaseStates)] /\ joined' \in [Handlers -> SUBSET Nat]
    BY <2>1, <2>2 DEF TypeOK
  <2> QED BY <2>1, <2>2, <2>3, WritesTyped
<1>2. Known'
  BY DEF IInv, TypeOK, Known, Cleanup, Step, SetDir, Gone, handling, Frames
<1>3. MetShared'
  BY DEF IInv, TypeOK, MetShared, Known, Active, Cleanup, Step, SetDir, Gone, handling,
     Frames
<1>4. Overwritten'
  <2>1. \A g \in Handlers : OwnCompany(g)' <=> OwnCompany(g)
    BY <1>a DEF OwnCompany
  <2>2. Gone.source = NoTask /\ Gone.object = NoTask /\ Gone.exe = NoTask
    BY DEF Gone
  <2> QED BY <1>a, <1>b, <2>1, <2>2 DEF IInv, Overwritten
<1>5. Alone'
  <2>1. ASSUME NEW g \in Handlers, met[g] = {}, Active(g), g # h
        PROVE  Dir(g)' = Dir(g)
    <3>1. Active(h) /\ frame[g] # frame[h]
      BY <1>b, <2>1 DEF IInv, MetShared, Active
    <3> QED BY <1>b, <3>1
  <2> QED BY <1>a, <1>b, <2>1 DEF IInv, Alone, Active
<1>6. RightSoFar'
  BY <1>a, RunningKeep DEF IInv
<1>7. JoinedPassed'
  BY <1>a, RunningKeep DEF IInv
<1>8. Used'
  <2> SUFFICES ASSUME NEW f \in Frames, work'[f].dir
               PROVE  \E g \in Handlers : frame'[g] = f /\ (Uses(g)' \/ hit'[g])
    BY DEF Used
  <2>1. work' = [work EXCEPT ![frame[h]] = Gone] /\ ~Gone.dir
    BY DEF Cleanup, SetDir, Gone
  <2>2. f # frame[h] /\ work[f].dir
    BY <2>1 DEF IInv, TypeOK
  <2>3. PICK g \in Handlers : frame[g] = f /\ (Uses(g) \/ hit[g])
    BY <2>2 DEF IInv, Used
  <2> QED BY <1>a, <2>2, <2>3 DEF Uses
<1>9. VerdictIsOwn'
  BY <1>a, ResultsKeep DEF IInv
<1>10. ErrorsAreOwn'
  BY <1>a, ResultsKeep DEF IInv
<1> QED
  BY <1>1, <1>2, <1>3, <1>4, <1>5, <1>6, <1>7, <1>8, <1>9, <1>10 DEF IInv

LEMMA RepliesKeep ==
  ASSUME IInv, NEW h \in Handlers, Reply(h) \/ CleanupFails(h)
  PROVE  IInv'
<1>1. CASE Reply(h)
  <2>1. TypeOK'
    BY <1>1 DEF IInv, TypeOK, Reply, Step
  <2>2. /\ UNCHANGED <<frame, task, cases, joined, result, hit, met, work>>
        /\ \A g \in Handlers : client'[g] # "none" => client[g] # "none"
        /\ \A g \in Handlers : \/ stage'[g] = stage[g]
                               \/ stage[g] = "replying" /\ stage'[g] = "ended"
    BY <1>1 DEF IInv, TypeOK, Reply, Step
  <2> QED BY <2>1, <2>2, LeavesKeep
<1>2. CASE CleanupFails(h)
  <2>1. hit' = [hit EXCEPT ![h] = TRUE]
    BY <1>2, HitIs DEF CleanupFails
  <2>2. TypeOK'
    BY <1>2, <2>1 DEF IInv, TypeOK, CleanupFails, Step, handling
  <2>3. /\ UNCHANGED <<client, frame, task, cases, joined, result, met, work>>
        /\ \A g \in Handlers : (hit[g] => hit'[g]) /\ (hit'[g] = hit[g] \/ Active(g))
        /\ \A g \in Handlers : \/ stage'[g] = stage[g]
                               \/ stage[g] = "cleaning" /\ stage'[g] = "replying" /\ hit'[g]
    BY <1>2, <2>1 DEF IInv, TypeOK, CleanupFails, Step, handling, Active
  <2> QED BY <2>2, <2>3, LeavesKeep
<1> QED BY <1>1, <1>2

LEMMA AllJudgedKeeps ==
  ASSUME IInv, NEW h \in Handlers, AllJudged(h)
  PROVE  IInv'
<1> DEFINE passes == All(h) = {} \/ task[h] \in StopOnFirst
           r == IF passes THEN Result("passed", <<>>) ELSE Result("collected", cases[h])
<1>1. /\ stage[h] = "running" /\ joined[h] = 1 .. Len(cases[h]) /\ Finish(h, r, "cleaning")
      /\ UNCHANGED <<handling, cases, joined, hit, work>>
  BY DEF AllJudged, All
<1>2. /\ cases[h] \in Seq(CaseStates) /\ task[h] \in Tasks
      /\ Len(cases[h]) = Len(Answers[task[h]])
      /\ \A i \in 1 .. Len(cases[h]) :
           /\ cases[h][i] \in Verdicts
           /\ task[h] \in StopOnFirst => cases[h][i] = "accepted"
           /\ OwnCompany(h) => cases[h][i] = Answers[task[h]][i]
  BY <1>1 DEF IInv, TypeOK, Known, RightSoFar, JoinedPassed
<1>3. cases[h] \in Seq(Verdicts)
  <2>1. \A i \in 1 .. Len(cases[h]) : cases[h][i] \in Verdicts
    BY <1>2
  <2>2. cases[h] \in [1 .. Len(cases[h]) -> Verdicts] /\ Len(cases[h]) \in Nat
    BY <1>2, <2>1
  <2> QED BY <2>2, SeqDef
<1>4. r \in Results /\ r.kind \in {"passed", "collected"}
  <2>1. <<>> \in Seq(Verdicts)
    BY EmptySeq
  <2> QED BY <1>3, <2>1 DEF Result, Results, Kinds
<1>5. OwnCompany(h) => Answered(task[h], r)
  <2> SUFFICES ASSUME OwnCompany(h) PROVE Answered(task[h], r)
    OBVIOUS
  <2>1. CASE passes
    <3>1. \A i \in 1 .. Len(Answers[task[h]]) : Answers[task[h]][i] = "accepted"
      BY <2>1, <1>2 DEF All
    <3>2. r.kind = "passed"
      BY <2>1 DEF Result
    <3> QED BY <3>1, <3>2 DEF Answered
  <2>2. CASE ~passes
    <3>1. Answers[task[h]] \in Seq(Verdicts)
      BY <1>2, HandlerAssumption
    <3>2. cases[h] = Answers[task[h]]
      BY <1>2, <1>3, <3>1, SeqEqual
    <3>3. r.kind = "collected" /\ r.cases = cases[h]
      BY <2>2 DEF Result
    <3> QED BY <3>2, <3>3 DEF Answered
  <2> QED BY <2>1, <2>2
<1>6. Grounds(h, r) /\ Active(h)
  BY <1>1, <1>4, <1>5 DEF Grounds, Active
<1> HIDE DEF r
<1> QED BY <1>1, <1>4, <1>6, EndsKeep

LEMMA CallersKeep == ASSUME IInv, Callers PROVE IInv'
<1>1. CASE \E h \in Handlers : Submit(h)
  <2>1. PICK h \in Handlers, t \in Tasks :
          /\ nextFrame <= MaxFrame /\ nextFrame' = nextFrame + 1
          /\ client' = [client EXCEPT ![h] = "waiting"] /\ Receive(h, nextFrame, t)
    BY <1>1 DEF Submit
  <2>2. nextFrame \in Frames /\ nextFrame' \in 1 .. MaxFrame + 1
    <3>1. nextFrame \in 1 .. MaxFrame + 1 /\ MaxFrame \in Nat
      BY HandlerAssumption DEF IInv, TypeOK
    <3> QED BY <2>1, <3>1 DEF Frames
  <2>3. /\ client' \in [Handlers -> {"none", "waiting", "gaveUp", "gone", "answered"}]
        /\ \A g \in Handlers \ {h} : client'[g] # "none" => client[g] # "none"
    BY <2>1 DEF IInv, TypeOK
  <2> QED BY <2>1, <2>2, <2>3, ReceiveKeeps
<1>2. CASE \E h, g \in Handlers : Retry(h, g)
  <2>1. PICK h \in Handlers, g \in Handlers : Retry(h, g)
    BY <1>2
  <2>2. frame[g] \in Frames /\ task[g] \in Tasks
    BY <2>1 DEF IInv, TypeOK, Known, Retry
  <2>3. /\ client' \in [Handlers -> {"none", "waiting", "gaveUp", "gone", "answered"}]
        /\ \A k \in Handlers \ {h} : client'[k] # "none" => client[k] # "none"
        /\ nextFrame' \in 1 .. MaxFrame + 1
        /\ Receive(h, frame[g], task[g])
    BY <2>1 DEF IInv, TypeOK, Retry
  <2> QED BY <2>2, <2>3, ReceiveKeeps
<1>3. CASE (\E h \in Handlers : Disconnect(h)) \/ Restart \/ DrainTimeout
  <2>1. /\ \E H, on \in SUBSET Handlers : DropAll(H, on)
        /\ nextFrame' \in 1 .. MaxFrame + 1
        /\ process' \in {"serving", "draining", "exited"}
    <3>1. CASE \E h \in Handlers : Disconnect(h)
      BY <3>1 DEF IInv, TypeOK, Disconnect
    <3>2. CASE Restart
      <4>1. 1 \in 1 .. MaxFrame + 1
        BY HandlerAssumption
      <4>2. /\ nextFrame' = 1 /\ process' = process
            /\ \E on \in SUBSET Handlers : DropAll(Handlers, on)
        BY <3>2 DEF Restart
      <4> QED BY <4>1, <4>2 DEF IInv, TypeOK
    <3>3. CASE DrainTimeout
      BY <3>3 DEF IInv, TypeOK, DrainTimeout
    <3> QED BY <1>3, <3>1, <3>2, <3>3
  <2> QED BY <2>1, DropsKeep
<1>4. CASE (\E h \in Handlers : GiveUp(h)) \/ NewManager \/ Interrupt \/ Drained
  BY <1>4, ClientsKeep
<1>5. CASE \E h \in Handlers : CompilerEnds(h)
  BY <1>5, CompilerEndsKeeps
<1> QED BY <1>1, <1>2, <1>3, <1>4, <1>5 DEF Callers

LEMMA NextInv == IInv /\ [Next]_vars => IInv'
<1> SUFFICES ASSUME IInv, [Next]_vars PROVE IInv'
  OBVIOUS
<1>1. CASE Callers
  BY <1>1, CallersKeep
<1>2. ASSUME NEW h \in Handlers, Handle(h) PROVE IInv'
  BY <1>2, PreparesKeep, WritesKeep, CompilesKeep, LinksKeep, CompileErrorsKeep, BatchesKeep,
     RunsKeep, JoinsKeep, AllJudgedKeeps, CleanupsKeep, RepliesKeep
     DEF Handle
<1>3. CASE UNCHANGED vars
  BY <1>3, ClientsKeep
<1> QED BY <1>1, <1>2, <1>3 DEF Next

LEMMA SpecInv == Spec => []IInv
  BY InitInv, NextInv, PTL DEF Spec

-----------------------------------------------------------------------------
(* Every variable of the handlers has its type.                            *)
THEOREM TypeCorrect == Spec => []TypeOK
<1>1. IInv => TypeOK
  BY DEF IInv
<1> QED BY <1>1, SpecInv, PTL

(* A verdict on the cases is the task's own, whatever was left in the      *)
(* directory and however retries of the task run on beside each other.     *)
THEOREM VerdictsAreOwn == Spec => []VerdictIsOwn
<1>1. IInv => VerdictIsOwn
  BY DEF IInv
<1> QED BY <1>1, SpecInv, PTL

(* Alone in its directory, a handler reports no error without its cause.   *)
THEOREM ErrorsHaveCause == Spec => []ErrorsAreOwn
<1>1. IInv => ErrorsAreOwn
  BY DEF IInv
<1> QED BY <1>1, SpecInv, PTL

(* What a client is told is the outcome of its own task.                   *)
THEOREM OutcomesAreOwn == Spec => []OutcomeIsOwn
<1>1. IInv => OutcomeIsOwn
  BY DEF IInv, OutcomeIsOwn
<1> QED BY <1>1, SpecInv, PTL

(* A directory outlives its handlers only if one of them was dropped or    *)
(* met a failing call.                                                     *)
THEOREM DirectoriesGo == Spec => []NothingLeft
<1>1. IInv => NothingLeft
  BY DEF IInv, Used, Uses, Active, NothingLeft
<1> QED BY <1>1, SpecInv, PTL

=============================================================================
