-------------------------- MODULE CaseRunner_proofs --------------------------
(***************************************************************************)
(* Verdicts are justified for any input, expected output, limit, pipe      *)
(* capacity and any amount the program writes.  The argument: a reader     *)
(* that has ended stays at the end of what was written (or beyond the      *)
(* limit), because nobody writes once it has; so what the judge decides on *)
(* after joining both readers is still all there is.                       *)
(***************************************************************************)
EXTENDS CaseRunner, SequenceTheorems, TLAPS

(* The program is not there before it is spawned, is there while the judge *)
(* waits for it, and is gone once the judge has selected; there is a verdict exactly at the end.              *)
NobodyWrites ==
  /\ judge = "spawning" => program = "none"
  /\ judge \in {"feeding", "selecting"} => program \in {"running"} \cup Exits
  /\ judge = "collecting" =>
       outcome # "none" /\ (outcome = "exited" => program \in Exits)
  /\ judge \in {"collecting", "done"} => ~Running
  /\ judge = "done" <=> verdict # "none"

(* A reader ends at the end and knows whether its text is whole.           *)
ReadToEnd ==
  \A s \in Streams :
    /\ judge \in {"spawning", "feeding"} => reader[s] = "unspawned"
    /\ reader[s] \in {"ended", "failed"} => AtEnd(s)
    /\ reader[s] = "ended" => Decodable(buffer[s])
    /\ reader[s] = "failed" => ~Decodable(buffer[s])

(* The output branch is only taken for a text that is too long.            *)
ExceededShown ==
  /\ exceeded => TooLong
  /\ outcome = "output" => exceeded

(* Each verdict with what it was based on. *)
Reasons ==
  /\ verdict = "internal" => faults > 0 \/ \E s \in Streams : reader[s] = "failed"
  /\ verdict = "output" => TooLong
  /\ verdict \in {"accepted", "wrong"} =>
       /\ program = "ok"
       /\ \A s \in Streams : reader[s] = "ended"
       /\ ~TooLong
       /\ verdict = "accepted" <=> buffer["stdout"] = Expected

IInv == TypeOK /\ NobodyWrites /\ ReadToEnd /\ ExceededShown /\ Reasons

-----------------------------------------------------------------------------
(* The invariant holds at first and is kept by every step.                 *)

LEMMA InitInv == Init => IInv
<1> SUFFICES ASSUME Init PROVE IInv
  OBVIOUS
<1>1. <<>> \in Seq(Units)
  BY EmptySeq
<1>2. TypeOK
  <2>1. /\ pipe \in [Streams -> Seq(Units)] /\ buffer \in [Streams -> Seq(Units)]
        /\ reader \in [Streams -> {"unspawned", "reading", "ended", "failed"}]
    BY <1>1 DEF Init
  <2>2. toWrite \in 0 .. InputSize /\ stdin \in 0 .. PipeSize
        /\ written \in 0 .. MaxWrites /\ faults \in 0 .. MaxFaults
    BY RunnerAssumption DEF Init
  <2> QED BY <2>1, <2>2 DEF Init, TypeOK, Verdicts
<1>3. NobodyWrites /\ ReadToEnd /\ ExceededShown /\ Reasons
  BY DEF Init, NobodyWrites, ReadToEnd, ExceededShown, Reasons, Running
<1> QED BY <1>2, <1>3 DEF IInv

(* What each outcome of the decision was based on. *)
LEMMA DecideFacts ==
  ASSUME program \in Exits, NEW overCpu \in BOOLEAN
  PROVE  LET v == DecideAfterExit(overCpu)
         IN /\ v \in Verdicts \ {"none", "internal"}
            /\ v = "output" => TooLong
            /\ v \in {"accepted", "wrong"} => program = "ok" /\ ~TooLong
            /\ v \in {"accepted", "wrong"} =>
                 (v = "accepted" <=> buffer["stdout"] = Expected)
  BY DEF DecideAfterExit, Exits, Verdicts, Kills

LEMMA ReadsKeep ==
  ASSUME IInv, Reads
  PROVE  IInv'
<1>1. TypeOK'
  BY RunnerAssumption DEF IInv, TypeOK, Units, Streams, Exits, Verdicts, Kills,
     Reads, Running, readerVars
<1>2. NobodyWrites'
  BY DEF IInv, NobodyWrites, TypeOK, Running, Exits, Reads, readerVars
<1>3. ReadToEnd'
  BY DEF IInv, ReadToEnd, TypeOK, AtEnd, Streams, Running, Reads, readerVars
<1>4. ExceededShown'
  BY DEF IInv, ExceededShown, TypeOK, TooLong, Streams, Reads, Running, readerVars
<1>5. Reasons'
  BY DEF IInv, Reasons, TypeOK, TooLong, Streams, Reads, Running, readerVars
<1> QED BY <1>1, <1>2, <1>3, <1>4, <1>5 DEF IInv

LEMMA WritesKeep ==
  ASSUME IInv, NEW s \in Streams, NEW u \in Units, Writes(s, u)
  PROVE  IInv'
<1>1. TypeOK'
  BY RunnerAssumption DEF IInv, TypeOK, Units, Streams, Exits, Verdicts, Kills,
     Writes, Running, readerVars
<1>2. NobodyWrites'
  BY DEF IInv, NobodyWrites, TypeOK, Running, Exits, Writes, readerVars
<1>3. ReadToEnd'
  BY DEF IInv, ReadToEnd, TypeOK, AtEnd, Streams, Running, Writes, readerVars
<1>4. ExceededShown'
  BY DEF IInv, ExceededShown, TypeOK, TooLong, Streams, Writes, Running, readerVars
<1>5. Reasons'
  BY DEF IInv, Reasons, TypeOK, TooLong, Streams, Writes, Running, readerVars
<1> QED BY <1>1, <1>2, <1>3, <1>4, <1>5 DEF IInv

LEMMA EndsKeep ==
  ASSUME IInv, (\E s \in Streams : BrokenPipe(s)) \/ \E how \in Exits : Ends(how)
  PROVE  IInv'
<1>1. TypeOK'
  BY RunnerAssumption DEF IInv, TypeOK, Units, Streams, Exits, Verdicts, Kills,
     BrokenPipe, Ends, Running, readerVars
<1>2. NobodyWrites'
  BY DEF IInv, NobodyWrites, TypeOK, Running, Exits, BrokenPipe, Ends, readerVars
<1>3. ReadToEnd'
  BY DEF IInv, ReadToEnd, TypeOK, AtEnd, Streams, Running, BrokenPipe, Ends, Exits,
     readerVars
<1>4. ExceededShown'
  BY DEF IInv, ExceededShown, TypeOK, TooLong, Streams, BrokenPipe, Ends, Exits,
     Running, readerVars
<1>5. Reasons'
  BY DEF IInv, Reasons, TypeOK, TooLong, Streams, BrokenPipe, Ends, Exits, Running,
     readerVars
<1> QED BY <1>1, <1>2, <1>3, <1>4, <1>5 DEF IInv

LEMMA FeedKeep ==
  ASSUME IInv, Spawn \/ Feed \/ Fed
  PROVE  IInv'
<1>1. TypeOK'
  BY RunnerAssumption DEF IInv, TypeOK, Units, Streams, Exits, Verdicts, Kills,
     Spawn, Feed, Fed, Running, readerVars, programVars
<1>2. NobodyWrites'
  BY DEF IInv, NobodyWrites, TypeOK, Running, Exits, Spawn, Feed, Fed, readerVars,
     programVars
<1>3. ReadToEnd'
  BY DEF IInv, ReadToEnd, TypeOK, AtEnd, Streams, Running, Spawn, Feed, Fed,
     readerVars, programVars, NobodyWrites
<1>4. ExceededShown'
  BY DEF IInv, ExceededShown, TypeOK, TooLong, Streams, Spawn, Feed, Fed, Running,
     readerVars, programVars
<1>5. Reasons'
  BY DEF IInv, Reasons, TypeOK, TooLong, Streams, Spawn, Feed, Fed, Running,
     readerVars, programVars, NobodyWrites
<1> QED BY <1>1, <1>2, <1>3, <1>4, <1>5 DEF IInv

LEMMA SelectsKeep ==
  ASSUME IInv, Exited \/ OutputExceeded \/ WallTimeout
  PROVE  IInv'
<1>1. TypeOK'
  BY RunnerAssumption DEF IInv, TypeOK, Units, Streams, Exits, Verdicts, Kills,
     Exited, OutputExceeded, WallTimeout, Select, Killed, Running, readerVars
<1>2. NobodyWrites'
  BY DEF IInv, NobodyWrites, TypeOK, Running, Exits, Exited, OutputExceeded,
     WallTimeout, Select, Killed, readerVars
<1>3. ReadToEnd'
  BY DEF IInv, ReadToEnd, TypeOK, AtEnd, Streams, Running, Exited, OutputExceeded,
     WallTimeout, Select, Killed, readerVars
<1>4. ExceededShown'
  BY DEF IInv, ExceededShown, TypeOK, TooLong, Streams, Exited, OutputExceeded,
     WallTimeout, Select, Killed, Running, readerVars
<1>5. Reasons'
  BY DEF IInv, Reasons, TypeOK, TooLong, Streams, Exited, OutputExceeded,
     WallTimeout, Select, Killed, Running, readerVars
<1> QED BY <1>1, <1>2, <1>3, <1>4, <1>5 DEF IInv

LEMMA FailsKeep ==
  ASSUME IInv, LimitsFail \/ JudgeFails
  PROVE  IInv'
<1>1. TypeOK'
  BY RunnerAssumption DEF IInv, TypeOK, Units, Streams, Exits, Verdicts, Kills,
     LimitsFail, JudgeFails, GivesUp, Killed, Running, readerVars
<1>2. NobodyWrites'
  BY DEF IInv, NobodyWrites, TypeOK, Running, Exits, LimitsFail, JudgeFails,
     GivesUp, Killed, readerVars
<1>3. ReadToEnd'
  BY DEF IInv, ReadToEnd, TypeOK, AtEnd, Streams, Running, LimitsFail, JudgeFails, GivesUp, Killed,
     readerVars
<1>4. ExceededShown'
  BY DEF IInv, ExceededShown, TypeOK, TooLong, Streams, LimitsFail, JudgeFails, GivesUp, Killed, Running,
     readerVars
<1>5. Reasons'
  BY DEF IInv, Reasons, TypeOK, TooLong, Streams, LimitsFail, JudgeFails, GivesUp, Killed, Running,
     readerVars
<1> QED BY <1>1, <1>2, <1>3, <1>4, <1>5 DEF IInv

LEMMA CollectsKeep ==
  ASSUME IInv, Collect
  PROVE  IInv'
<1>1. TypeOK'
  <2>1. PICK overCpu \in BOOLEAN :
          verdict' = IF \E s \in Streams : reader[s] = "failed" THEN "internal"
                     ELSE IF outcome = "exited" THEN DecideAfterExit(overCpu)
                     ELSE outcome
    BY DEF Collect, OverCpu
  <2>2. outcome = "exited" => DecideAfterExit(overCpu) \in Verdicts
    BY DecideFacts DEF IInv, NobodyWrites, Collect
  <2>3. verdict' \in Verdicts
    BY <2>1, <2>2 DEF IInv, TypeOK, NobodyWrites, Collect, Verdicts, Kills
  <2> QED BY <2>3 DEF IInv, TypeOK, Collect, programVars, readerVars
<1>2. NobodyWrites'
  <2>1. PICK overCpu \in BOOLEAN :
          verdict' = IF \E s \in Streams : reader[s] = "failed" THEN "internal"
                     ELSE IF outcome = "exited" THEN DecideAfterExit(overCpu)
                     ELSE outcome
    BY DEF Collect, OverCpu
  <2>2. outcome = "exited" => DecideAfterExit(overCpu) # "none"
    BY DecideFacts DEF IInv, NobodyWrites, Collect
  <2>3. verdict' # "none"
    BY <2>1, <2>2 DEF IInv, TypeOK, NobodyWrites, Collect
  <2> QED BY <2>3 DEF IInv, NobodyWrites, Collect, programVars, Running
<1>3. ReadToEnd'
  BY DEF IInv, ReadToEnd, TypeOK, AtEnd, Streams, Running, Collect, DecideAfterExit,
     programVars, readerVars
<1>4. ExceededShown'
  BY DEF IInv, ExceededShown, TypeOK, TooLong, Streams, Collect, DecideAfterExit,
     Running, programVars, readerVars
<1>5. Reasons'
  <2>1. PICK overCpu \in BOOLEAN :
          verdict' = IF \E s \in Streams : reader[s] = "failed" THEN "internal"
                     ELSE IF outcome = "exited" THEN DecideAfterExit(overCpu)
                     ELSE outcome
    BY DEF Collect, OverCpu
  <2>2. CASE \E s \in Streams : reader[s] = "failed"
    BY <2>1, <2>2 DEF Collect, Reasons, readerVars
  <2>3. CASE /\ ~ \E s \in Streams : reader[s] = "failed"
             /\ outcome = "exited"
    <3>1. program \in Exits /\ \A s \in Streams : reader[s] = "ended"
      BY <2>3 DEF IInv, NobodyWrites, Collect
    <3>2. UNCHANGED <<program, reader, buffer, faults>> /\ TooLong' = TooLong
      BY DEF Collect, programVars, readerVars, TooLong
    <3> QED BY <2>1, <2>3, <3>1, <3>2, DecideFacts DEF Reasons
  <2>4. CASE /\ ~ \E s \in Streams : reader[s] = "failed"
             /\ outcome # "exited"
    BY <2>1, <2>4 DEF IInv, TypeOK, ExceededShown, NobodyWrites, Collect, Reasons, TooLong, readerVars
  <2> QED BY <2>2, <2>3, <2>4
<1> QED BY <1>1, <1>2, <1>3, <1>4, <1>5 DEF IInv

LEMMA ReadKeep ==
  ASSUME IInv, NEW s \in Streams, Read(s)
  PROVE  IInv'
<1>1. TypeOK'
  BY RunnerAssumption DEF IInv, TypeOK, Units, Streams, Exits, Verdicts, Kills, Read
<1>2. NobodyWrites'
  BY DEF IInv, NobodyWrites, TypeOK, Running, Exits, Read
<1>3. ReadToEnd'
  BY DEF IInv, ReadToEnd, TypeOK, AtEnd, Streams, Running, Read
<1>4. ExceededShown'
  <2>1. TooLong => TooLong'
    <3>1. Len(buffer[s])' = Len(buffer[s]) + 1 /\ Len(buffer[s]) \in Nat
      BY HeadTailProperties, AppendProperties, LenProperties DEF IInv, TypeOK, Read
    <3>2. \A r \in Streams : r # s => buffer[r]' = buffer[r]
      BY DEF IInv, TypeOK, Read
    <3> QED BY <3>1, <3>2, RunnerAssumption DEF TooLong
  <2> QED BY <2>1 DEF IInv, ExceededShown, Read
<1>5. Reasons'
  <2>1. TooLong => TooLong'
    <3>1. Len(buffer[s])' = Len(buffer[s]) + 1 /\ Len(buffer[s]) \in Nat
      BY HeadTailProperties, AppendProperties, LenProperties DEF IInv, TypeOK, Read
    <3>2. \A r \in Streams : r # s => buffer[r]' = buffer[r]
      BY DEF IInv, TypeOK, Read
    <3> QED BY <3>1, <3>2, RunnerAssumption DEF TooLong
  <2>2. verdict \notin {"accepted", "wrong"}
    BY DEF IInv, Reasons, Read
  <2> QED BY <2>1, <2>2 DEF IInv, Reasons, Read
<1> QED BY <1>1, <1>2, <1>3, <1>4, <1>5 DEF IInv

LEMMA ReadEndsKeep ==
  ASSUME IInv, NEW s \in Streams, ReadEnds(s)
  PROVE  IInv'
<1>1. TypeOK'
  BY RunnerAssumption DEF IInv, TypeOK, Units, Streams, Exits, Verdicts, Kills,
     ReadEnds, programVars
<1>2. NobodyWrites'
  BY DEF IInv, NobodyWrites, TypeOK, Running, Exits, ReadEnds, programVars
<1>3. ReadToEnd'
  BY DEF IInv, ReadToEnd, TypeOK, AtEnd, Streams, Running, ReadEnds, programVars
<1>4. ExceededShown'
  BY DEF IInv, ExceededShown, TypeOK, TooLong, Streams, ReadEnds, programVars
<1>5. Reasons'
  BY DEF IInv, Reasons, TypeOK, TooLong, Streams, ReadEnds, programVars
<1> QED BY <1>1, <1>2, <1>3, <1>4, <1>5 DEF IInv

LEMMA RestKeep ==
  ASSUME IInv, UNCHANGED vars
  PROVE  IInv'
<1>1. TypeOK'
  BY RunnerAssumption DEF IInv, TypeOK, Units, Streams, Exits, Verdicts, Kills,
     vars, programVars, readerVars
<1>2. NobodyWrites'
  BY DEF IInv, NobodyWrites, TypeOK, Running, Exits, vars, programVars, readerVars
<1>3. ReadToEnd'
  BY DEF IInv, ReadToEnd, TypeOK, AtEnd, Streams, Running, vars, programVars,
     readerVars
<1>4. ExceededShown'
  BY DEF IInv, ExceededShown, TypeOK, TooLong, Streams, vars, programVars,
     readerVars
<1>5. Reasons'
  BY DEF IInv, Reasons, TypeOK, TooLong, Streams, vars, programVars, readerVars
<1> QED BY <1>1, <1>2, <1>3, <1>4, <1>5 DEF IInv

LEMMA NextInv == IInv /\ [Next]_vars => IInv'
<1> SUFFICES ASSUME IInv, [Next]_vars PROVE IInv'
  OBVIOUS
<1>1. CASE Program
  BY <1>1, ReadsKeep, WritesKeep, EndsKeep DEF Program
<1>2. CASE Judge
  BY <1>2, FeedKeep, SelectsKeep, FailsKeep, CollectsKeep DEF Judge
<1>3. CASE Readers
  BY <1>3, ReadKeep, ReadEndsKeep DEF Readers
<1>4. CASE Done \/ UNCHANGED vars
  BY <1>4, RestKeep DEF Done
<1> QED BY <1>1, <1>2, <1>3, <1>4 DEF Next

LEMMA SpecInv == Spec => []IInv
  BY InitInv, NextInv, PTL DEF Spec

-----------------------------------------------------------------------------
(* What has been read and what is still in the pipe. *)
LEMMA WroteFacts ==
  ASSUME TypeOK, NEW s \in Streams
  PROVE  /\ Len(buffer[s]) \in Nat /\ Len(Wrote(s)) \in Nat
         /\ Len(Wrote(s)) >= Len(buffer[s])
         /\ pipe[s] = <<>> => Wrote(s) = buffer[s]
<1>1. buffer[s] \in Seq(Units) /\ pipe[s] \in Seq(Units)
  BY DEF TypeOK
<1>2. Len(Wrote(s)) = Len(buffer[s]) + Len(pipe[s])
  BY <1>1, ConcatProperties DEF Wrote
<1>3. Len(buffer[s]) \in Nat /\ Len(pipe[s]) \in Nat
  BY <1>1, LenProperties
<1>4. pipe[s] = <<>> => Wrote(s) = buffer[s]
  BY <1>1, ConcatEmptySeq DEF Wrote
<1>5. Len(Wrote(s)) \in Nat /\ Len(Wrote(s)) >= Len(buffer[s])
  <2>1. \A a, b \in Nat : a + b \in Nat /\ a + b >= a
    OBVIOUS
  <2> QED BY <1>2, <1>3, <2>1, Zenon
<1> QED BY <1>3, <1>4, <1>5

(* Every variable of a running case has its type.                          *)
THEOREM TypeCorrect == Spec => []TypeOK
<1>1. IInv => TypeOK
  BY DEF IInv
<1> QED BY <1>1, SpecInv, PTL

(* Accepted and wrong are decided on the whole output of a clean run.      *)
THEOREM AnswersJudgedWhole == Spec => []JudgedOnAll
<1>1. IInv => JudgedOnAll
  <2> SUFFICES ASSUME IInv, verdict \in {"accepted", "wrong"}
               PROVE  /\ program = "ok"
                      /\ \A s \in Streams : pipe[s] = <<>> /\ Len(Wrote(s)) <= OutputLimit
                      /\ verdict = "accepted" <=> Wrote("stdout") = Expected
    BY DEF JudgedOnAll
  <2>1. program = "ok" /\ ~TooLong /\ \A s \in Streams : reader[s] = "ended"
    BY DEF IInv, Reasons
  <2>2. ASSUME NEW s \in Streams
        PROVE  pipe[s] = <<>> /\ Wrote(s) = buffer[s] /\ Len(Wrote(s)) <= OutputLimit
    <3>1. TypeOK
      BY DEF IInv
    <3>2. AtEnd(s)
      BY <2>1 DEF IInv, ReadToEnd
    <3>3. ~(Len(buffer[s]) > OutputLimit)
      BY <2>1 DEF TooLong
    <3>4. pipe[s] = <<>>
      BY <3>2, <3>3 DEF AtEnd
    <3> QED BY <3>1, <3>3, <3>4, WroteFacts, RunnerAssumption
  <2> QED BY <2>1, <2>2 DEF IInv, Reasons, Streams
<1> QED BY <1>1, SpecInv, PTL

(* Nobody is charged with too much output who kept the limit.              *)
THEOREM LimitJustified == Spec => []OutputJustified
<1>1. IInv => OutputJustified
  <2> SUFFICES ASSUME IInv, verdict = "output"
               PROVE  \E s \in Streams : Len(Wrote(s)) > OutputLimit
    BY DEF OutputJustified
  <2>1. PICK s \in Streams : Len(buffer[s]) > OutputLimit
    BY DEF IInv, Reasons, TooLong
  <2>2. TypeOK
    BY DEF IInv
  <2> QED BY <2>1, <2>2, WroteFacts, RunnerAssumption
<1> QED BY <1>1, SpecInv, PTL

(* A program that writes whole text within the limit never gets an         *)
(* internal error, unless the judge itself fails.                          *)
THEOREM InternalJustified == Spec => []InternalHasCause
<1>1. IInv => InternalHasCause
  <2> SUFFICES ASSUME IInv, NEW s \in Streams, reader[s] = "failed"
               PROVE  ~Decodable(Wrote(s)) \/ Len(Wrote(s)) > OutputLimit
    BY DEF IInv, Reasons, InternalHasCause
  <2>1. TypeOK /\ ~Decodable(buffer[s]) /\ AtEnd(s)
    BY DEF IInv, ReadToEnd
  <2>2. CASE Len(buffer[s]) > OutputLimit
    BY <2>1, <2>2, WroteFacts, RunnerAssumption
  <2>3. CASE pipe[s] = <<>>
    BY <2>1, <2>3, WroteFacts
  <2> QED BY <2>1, <2>2, <2>3 DEF AtEnd
<1> QED BY <1>1, SpecInv, PTL

(* No verdict of a case is without its reason.                             *)
THEOREM VerdictsJustified == Spec => []VerdictJustified
<1>1. JudgedOnAll /\ OutputJustified /\ InternalHasCause => VerdictJustified
  BY DEF VerdictJustified
<1> QED BY <1>1, AnswersJudgedWhole, LimitJustified, InternalJustified, PTL

(* When there is a verdict, the program is gone.                           *)
THEOREM NobodyOutlives == Spec => []NobodyLeft
<1>1. IInv => NobodyLeft
  BY DEF IInv, NobodyWrites, NobodyLeft
<1> QED BY <1>1, SpecInv, PTL
=============================================================================
