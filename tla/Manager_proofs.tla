---------------------------- MODULE Manager_proofs ----------------------------
(***************************************************************************)
(* The safety of the two loops of judge_core_manager that create and       *)
(* remove agents: of the containers' life (AgentFleet), then of the scaler *)
(* (AutoScaler), for any number of agents and of faults.                   *)
(*                                                                         *)
(* The containers: an id belongs to create() or to the manager's books,    *)
(* never to both; create() leaves behind it all that its earlier calls     *)
(* made; destroy() takes the record away only when the task is gone.       *)
(* The scaler: when its cooldowns are longer than what they wait for, no   *)
(* creation is in progress when one is decided on, and no agent is         *)
(* draining when one is marked.                                            *)
(***************************************************************************)
EXTENDS AgentFleet, AutoScaler, FiniteSetTheorems, TLAPS

(* An id not yet drawn is nowhere. *)
Unused ==
  \A a \in Agents \ used :
    /\ a \notin containers \cup agents \cup todo \cup scanned
    /\ creating[a] = "no" /\ task[a] = "none"
    /\ \A c \in Callers : destroying[c][a] = "no"

(* While create() works on an id, the manager's books do not have it.      *)
CreatingIsUnknown ==
  /\ CreateOrDestroy
  /\ \A a \in Agents : creating[a] # "no" =>
       manager \notin {"down", "discovering"} /\ a \notin agents \cup todo \cup scanned

(* create() has made what its finished calls make.                         *)
MadeSoFar ==
  \A a \in Agents :
    /\ creating[a] \in {"image", "prepare", "container", "task", "start", "socket"} => a \in dirs
    /\ creating[a] \in {"container", "task", "start", "socket"} => a \in snapshots
    /\ creating[a] \in {"task", "start", "socket"} => a \in containers
    /\ creating[a] = "start" => task[a] = "created"
    /\ creating[a] = "socket" => task[a] \in {"running", "stopped"}

(* A task has all it stands on, destroy() is past the deletion of the task *)
(* only when there is none, and nobody waits for a task that is creating.  *)
TaskIsWhole ==
  /\ \A a \in Agents : task[a] # "none" => a \in containers \cap snapshots \cap dirs
  /\ \A c \in Callers, a \in Agents :
       destroying[c][a] \in {"container", "snapshot", "dir"} => task[a] = "none"

(* main looks at each id once: what it has still to look at is neither     *)
(* listed nor being drained.                                               *)
TodoIsFresh ==
  manager = "discovering" =>
    \A a \in todo : a \notin agents \cup scanned /\ destroying["drain"][a] = "no"

(* The list and the marks of a manager that is down are empty.             *)
DownIsEmpty ==
  manager = "down" =>
    agents = {} /\ todo = {} /\ scanned = {} /\ destroying = NoDestroys

IInv ==
  /\ TypeOK
  /\ ListedIsWhole
  /\ Unused /\ CreatingIsUnknown /\ MadeSoFar /\ TaskIsWhole /\ TodoIsFresh /\ DownIsEmpty

-----------------------------------------------------------------------------
(* The invariant holds at first and is kept by every step.                 *)

LEMMA InitInv == Init => IInv
  BY FleetAssumption DEF Init, IInv, TypeOK, ListedIsWhole, Unused, CreatingIsUnknown,
     CreateOrDestroy, MadeSoFar, TaskIsWhole, TodoIsFresh, DownIsEmpty, NoDestroys,
     Callers, Creates, Destroys

LEMMA BeginsKeep ==
  ASSUME IInv, NEW a \in Agents, CreateBegin(a)
  PROVE  IInv'
<1>1. TypeOK'
  BY FleetAssumption DEF IInv, TypeOK, Creates, Destroys, Callers, CreateBegin,
     Scaling, Fault
<1>2. ListedIsWhole'
  BY DEF IInv, ListedIsWhole, Callers, TypeOK, CreateBegin, Scaling
<1>3. Unused'
  BY DEF IInv, Unused, Callers, TypeOK, CreateBegin, Scaling
<1>4. CreatingIsUnknown'
  BY DEF IInv, CreatingIsUnknown, CreateOrDestroy, Callers, TypeOK, Unused,
     CreateBegin, Scaling
<1>5. MadeSoFar'
  BY DEF IInv, MadeSoFar, TypeOK, Callers, CreateBegin, Scaling
<1>6. TaskIsWhole'
  BY DEF IInv, TaskIsWhole, Callers, TypeOK, CreateBegin, Scaling
<1>7. TodoIsFresh'
  BY DEF IInv, TodoIsFresh, Callers, TypeOK, CreateBegin, Scaling
<1>8. DownIsEmpty'
  BY DEF IInv, DownIsEmpty, NoDestroys, TypeOK, Callers, CreateBegin, Scaling
<1> QED BY <1>1, <1>2, <1>3, <1>4, <1>5, <1>6, <1>7, <1>8 DEF IInv

LEMMA MakesKeep ==
  ASSUME IInv, NEW a \in Agents, MakeDir(a) \/ ResolveImage(a)
         \/ PrepareSnapshot(a) \/ CreateContainer(a)
  PROVE  IInv'
<1>1. TypeOK'
  BY FleetAssumption DEF IInv, TypeOK, Creates, Destroys, Callers, MakeDir, ResolveImage,
     PrepareSnapshot, CreateContainer, CreateAt, CreateQuiet, Fault
<1>2. ListedIsWhole'
  BY DEF IInv, ListedIsWhole, Callers, TypeOK, MakeDir, ResolveImage, PrepareSnapshot,
     CreateContainer, CreateAt, CreateQuiet
<1>3. Unused'
  BY DEF IInv, Unused, Callers, TypeOK, MakeDir, ResolveImage, PrepareSnapshot, CreateContainer,
     CreateAt, CreateQuiet
<1>4. CreatingIsUnknown'
  BY DEF IInv, CreatingIsUnknown, CreateOrDestroy, Callers, TypeOK, MakeDir, ResolveImage,
     PrepareSnapshot, CreateContainer, CreateAt, CreateQuiet
<1>5. MadeSoFar'
  BY DEF IInv, MadeSoFar, TypeOK, Callers, MakeDir, ResolveImage, PrepareSnapshot,
     CreateContainer, CreateAt, CreateQuiet
<1>6. TaskIsWhole'
  BY DEF IInv, TaskIsWhole, Callers, TypeOK, MakeDir, ResolveImage, PrepareSnapshot,
     CreateContainer, CreateAt, CreateQuiet
<1>7. TodoIsFresh'
  BY DEF IInv, TodoIsFresh, Callers, TypeOK, MakeDir, ResolveImage, PrepareSnapshot,
     CreateContainer, CreateAt, CreateQuiet
<1>8. DownIsEmpty'
  BY DEF IInv, DownIsEmpty, NoDestroys, TypeOK, Callers, MakeDir, ResolveImage, PrepareSnapshot,
     CreateContainer, CreateAt, CreateQuiet
<1> QED BY <1>1, <1>2, <1>3, <1>4, <1>5, <1>6, <1>7, <1>8 DEF IInv

LEMMA TasksKeep ==
  ASSUME IInv, NEW a \in Agents, CreateTask(a) \/ StartTask(a)
  PROVE  IInv'
<1>1. TypeOK'
  BY FleetAssumption DEF IInv, TypeOK, Creates, Destroys, Callers, CreateTask,
     StartTask, CreateAt, CreateQuiet, Fault
<1>2. ListedIsWhole'
  BY DEF IInv, ListedIsWhole, Callers, TypeOK, CreatingIsUnknown, CreateTask,
     StartTask, CreateAt, CreateQuiet
<1>3. Unused'
  BY DEF IInv, Unused, Callers, TypeOK, CreateTask, StartTask, CreateAt, CreateQuiet
<1>4. CreatingIsUnknown'
  BY DEF IInv, CreatingIsUnknown, CreateOrDestroy, Callers, TypeOK, CreateTask,
     StartTask, CreateAt, CreateQuiet
<1>5. MadeSoFar'
  BY DEF IInv, MadeSoFar, TypeOK, Callers, CreateTask, StartTask, CreateAt,
     CreateQuiet
<1>6. TaskIsWhole'
  BY DEF IInv, TaskIsWhole, Callers, TypeOK, MadeSoFar, CreatingIsUnknown,
     CreateOrDestroy, CreateTask, StartTask, CreateAt, CreateQuiet
<1>7. TodoIsFresh'
  BY DEF IInv, TodoIsFresh, Callers, TypeOK, CreateTask, StartTask, CreateAt,
     CreateQuiet
<1>8. DownIsEmpty'
  BY DEF IInv, DownIsEmpty, NoDestroys, TypeOK, Callers, CreateTask, StartTask,
     CreateAt, CreateQuiet
<1> QED BY <1>1, <1>2, <1>3, <1>4, <1>5, <1>6, <1>7, <1>8 DEF IInv

LEMMA ReadyKeep ==
  ASSUME IInv, NEW a \in Agents, AgentReady(a)
  PROVE  IInv'
<1>1. TypeOK'
  BY FleetAssumption DEF IInv, TypeOK, Creates, Destroys, Callers, AgentReady,
     CreateAt, CreateQuiet, Fault
<1>2. ListedIsWhole'
  BY DEF IInv, ListedIsWhole, Callers, TypeOK, MadeSoFar, CreatingIsUnknown,
     CreateOrDestroy, AgentReady, CreateAt, CreateQuiet
<1>3. Unused'
  BY DEF IInv, Unused, Callers, TypeOK, AgentReady, CreateAt, CreateQuiet
<1>4. CreatingIsUnknown'
  BY DEF IInv, CreatingIsUnknown, CreateOrDestroy, Callers, TypeOK, AgentReady,
     CreateAt, CreateQuiet
<1>5. MadeSoFar'
  BY DEF IInv, MadeSoFar, TypeOK, Callers, AgentReady, CreateAt, CreateQuiet
<1>6. TaskIsWhole'
  BY DEF IInv, TaskIsWhole, Callers, TypeOK, AgentReady, CreateAt, CreateQuiet
<1>7. TodoIsFresh'
  BY DEF IInv, TodoIsFresh, Callers, TypeOK, CreatingIsUnknown, AgentReady,
     CreateAt, CreateQuiet
<1>8. DownIsEmpty'
  BY DEF IInv, DownIsEmpty, NoDestroys, TypeOK, Callers, CreatingIsUnknown,
     AgentReady, CreateAt, CreateQuiet
<1> QED BY <1>1, <1>2, <1>3, <1>4, <1>5, <1>6, <1>7, <1>8 DEF IInv

LEMMA FailsKeep ==
  ASSUME IInv, NEW a \in Agents, CreateFails(a)
  PROVE  IInv'
<1>1. TypeOK'
  BY FleetAssumption DEF IInv, TypeOK, Creates, Destroys, Callers, CreateFails,
     CreateQuiet, Fault
<1>2. ListedIsWhole'
  BY DEF IInv, ListedIsWhole, Callers, TypeOK, CreateFails, CreateQuiet
<1>3. Unused'
  BY DEF IInv, Unused, Callers, TypeOK, CreateFails, CreateQuiet
<1>4. CreatingIsUnknown'
  BY DEF IInv, CreatingIsUnknown, CreateOrDestroy, Callers, TypeOK, CreateFails,
     CreateQuiet
<1>5. MadeSoFar'
  BY DEF IInv, MadeSoFar, TypeOK, Callers, CreateFails, CreateQuiet
<1>6. TaskIsWhole'
  BY DEF IInv, TaskIsWhole, Callers, TypeOK, CreateFails, CreateQuiet
<1>7. TodoIsFresh'
  BY DEF IInv, TodoIsFresh, Callers, TypeOK, CreateFails, CreateQuiet
<1>8. DownIsEmpty'
  BY DEF IInv, DownIsEmpty, NoDestroys, TypeOK, Callers, CreateFails, CreateQuiet
<1> QED BY <1>1, <1>2, <1>3, <1>4, <1>5, <1>6, <1>7, <1>8 DEF IInv

LEMMA KillsKeep ==
  ASSUME IInv, NEW a \in Agents, NEW c \in Callers, Kill(c, a) \/ Wait(c, a)
  PROVE  IInv'
<1>1. TypeOK'
  BY FleetAssumption DEF IInv, TypeOK, Creates, Destroys, Callers, Kill, Wait,
     DestroyAt, DestroyQuiet, Fault
<1>2. ListedIsWhole'
  BY DEF IInv, ListedIsWhole, Callers, TypeOK, Kill, Wait, DestroyAt, DestroyQuiet
<1>3. Unused'
  BY DEF IInv, Unused, Callers, TypeOK, Kill, Wait, DestroyAt, DestroyQuiet
<1>4. CreatingIsUnknown'
  BY DEF IInv, CreatingIsUnknown, CreateOrDestroy, Callers, TypeOK, Kill, Wait,
     DestroyAt, DestroyQuiet
<1>5. MadeSoFar'
  BY DEF IInv, MadeSoFar, TypeOK, Callers, CreatingIsUnknown, CreateOrDestroy, Kill,
     Wait, DestroyAt, DestroyQuiet
<1>6. TaskIsWhole'
  BY DEF IInv, TaskIsWhole, Callers, TypeOK, Kill, Wait, DestroyAt, DestroyQuiet
<1>7. TodoIsFresh'
  BY DEF IInv, TodoIsFresh, Callers, TypeOK, Kill, Wait, DestroyAt, DestroyQuiet
<1>8. DownIsEmpty'
  BY DEF IInv, DownIsEmpty, NoDestroys, TypeOK, Callers, Kill, Wait, DestroyAt,
     DestroyQuiet
<1> QED BY <1>1, <1>2, <1>3, <1>4, <1>5, <1>6, <1>7, <1>8 DEF IInv

LEMMA TaskDeletionsKeep ==
  ASSUME IInv, NEW a \in Agents, NEW c \in Callers, DeleteTask(c, a) \/ DeleteTaskFails(c, a)
  PROVE  IInv'
<1>1. TypeOK'
  BY FleetAssumption DEF IInv, TypeOK, Creates, Destroys, Callers, DeleteTask,
     DeleteTaskFails, Deletable, DestroyAt, DestroyQuiet, Fault
<1>2. ListedIsWhole'
  BY DEF IInv, ListedIsWhole, Callers, TypeOK, DeleteTask, DeleteTaskFails,
     Deletable, DestroyAt, DestroyQuiet
<1>3. Unused'
  BY DEF IInv, Unused, Callers, TypeOK, DeleteTask, DeleteTaskFails, Deletable,
     DestroyAt, DestroyQuiet
<1>4. CreatingIsUnknown'
  BY DEF IInv, CreatingIsUnknown, CreateOrDestroy, Callers, TypeOK, DeleteTask,
     DeleteTaskFails, Deletable, DestroyAt, DestroyQuiet
<1>5. MadeSoFar'
  BY DEF IInv, MadeSoFar, TypeOK, Callers, CreatingIsUnknown, CreateOrDestroy,
     DeleteTask, DeleteTaskFails, Deletable, DestroyAt, DestroyQuiet
<1>6. TaskIsWhole'
  BY DEF IInv, TaskIsWhole, Callers, TypeOK, DeleteTask, DeleteTaskFails, Deletable,
     DestroyAt, DestroyQuiet
<1>7. TodoIsFresh'
  BY DEF IInv, TodoIsFresh, Callers, TypeOK, DeleteTask, DeleteTaskFails, Deletable,
     DestroyAt, DestroyQuiet
<1>8. DownIsEmpty'
  BY DEF IInv, DownIsEmpty, NoDestroys, TypeOK, Callers, DeleteTask,
     DeleteTaskFails, Deletable, DestroyAt, DestroyQuiet
<1> QED BY <1>1, <1>2, <1>3, <1>4, <1>5, <1>6, <1>7, <1>8 DEF IInv

LEMMA ContainerDeletionsKeep ==
  ASSUME IInv, NEW a \in Agents, NEW c \in Callers, DeleteContainer(c, a) \/ DeleteContainerFails(c, a)
  PROVE  IInv'
<1>1. TypeOK'
  BY FleetAssumption DEF IInv, TypeOK, Creates, Destroys, Callers, DeleteContainer,
     DeleteContainerFails, DestroyAt, DestroyQuiet, Fault
<1>2. ListedIsWhole'
  BY DEF IInv, ListedIsWhole, Callers, TypeOK, DeleteContainer,
     DeleteContainerFails, DestroyAt, DestroyQuiet
<1>3. Unused'
  BY DEF IInv, Unused, Callers, TypeOK, DeleteContainer, DeleteContainerFails,
     DestroyAt, DestroyQuiet
<1>4. CreatingIsUnknown'
  BY DEF IInv, CreatingIsUnknown, CreateOrDestroy, Callers, TypeOK, DeleteContainer,
     DeleteContainerFails, DestroyAt, DestroyQuiet
<1>5. MadeSoFar'
  BY DEF IInv, MadeSoFar, TypeOK, Callers, CreatingIsUnknown, CreateOrDestroy,
     DeleteContainer, DeleteContainerFails, DestroyAt, DestroyQuiet
<1>6. TaskIsWhole'
  BY DEF IInv, TaskIsWhole, Callers, TypeOK, DeleteContainer, DeleteContainerFails,
     DestroyAt, DestroyQuiet
<1>7. TodoIsFresh'
  BY DEF IInv, TodoIsFresh, Callers, TypeOK, DeleteContainer, DeleteContainerFails,
     DestroyAt, DestroyQuiet
<1>8. DownIsEmpty'
  BY DEF IInv, DownIsEmpty, NoDestroys, TypeOK, Callers, DeleteContainer,
     DeleteContainerFails, DestroyAt, DestroyQuiet
<1> QED BY <1>1, <1>2, <1>3, <1>4, <1>5, <1>6, <1>7, <1>8 DEF IInv

LEMMA RemovalsKeep ==
  ASSUME IInv, NEW a \in Agents, NEW c \in Callers, RemoveSnapshot(c, a) \/ RemoveDir(c, a)
  PROVE  IInv'
<1>1. TypeOK'
  BY FleetAssumption DEF IInv, TypeOK, Creates, Destroys, Callers, RemoveSnapshot,
     RemoveDir, DestroyAt, DestroyQuiet, Fault
<1>2. ListedIsWhole'
  BY DEF IInv, ListedIsWhole, Callers, TypeOK, RemoveSnapshot, RemoveDir, DestroyAt,
     DestroyQuiet
<1>3. Unused'
  BY DEF IInv, Unused, Callers, TypeOK, RemoveSnapshot, RemoveDir, DestroyAt,
     DestroyQuiet
<1>4. CreatingIsUnknown'
  BY DEF IInv, CreatingIsUnknown, CreateOrDestroy, Callers, TypeOK, RemoveSnapshot,
     RemoveDir, DestroyAt, DestroyQuiet
<1>5. MadeSoFar'
  BY DEF IInv, MadeSoFar, TypeOK, Callers, CreatingIsUnknown, CreateOrDestroy,
     RemoveSnapshot, RemoveDir, DestroyAt, DestroyQuiet
<1>6. TaskIsWhole'
  BY DEF IInv, TaskIsWhole, Callers, TypeOK, RemoveSnapshot, RemoveDir, DestroyAt,
     DestroyQuiet
<1>7. TodoIsFresh'
  BY DEF IInv, TodoIsFresh, Callers, TypeOK, RemoveSnapshot, RemoveDir, DestroyAt,
     DestroyQuiet
<1>8. DownIsEmpty'
  BY DEF IInv, DownIsEmpty, NoDestroys, TypeOK, Callers, RemoveSnapshot, RemoveDir,
     DestroyAt, DestroyQuiet
<1> QED BY <1>1, <1>2, <1>3, <1>4, <1>5, <1>6, <1>7, <1>8 DEF IInv

LEMMA DrainsKeep ==
  ASSUME IInv, (\E S \in SUBSET Agents : Scan(S)) \/ TakeOff
  PROVE  IInv'
<1>1. TypeOK'
  BY FleetAssumption DEF IInv, TypeOK, Creates, Destroys, Callers, Scan, TakeOff,
     Begin, outside, Fault
<1>2. ListedIsWhole'
  BY DEF IInv, ListedIsWhole, Callers, TypeOK, Scan, TakeOff, Begin, outside
<1>3. Unused'
  BY DEF IInv, Unused, Callers, TypeOK, Scan, TakeOff, Begin, outside
<1>4. CreatingIsUnknown'
  BY DEF IInv, CreatingIsUnknown, CreateOrDestroy, Callers, TypeOK, Scan, TakeOff,
     Begin, outside
<1>5. MadeSoFar'
  BY DEF IInv, MadeSoFar, TypeOK, Callers, Scan, TakeOff, Begin, outside
<1>6. TaskIsWhole'
  BY DEF IInv, TaskIsWhole, Callers, TypeOK, Scan, TakeOff, Begin, outside
<1>7. TodoIsFresh'
  BY DEF IInv, TodoIsFresh, Callers, TypeOK, Scan, TakeOff, Begin, outside
<1>8. DownIsEmpty'
  BY DEF IInv, DownIsEmpty, NoDestroys, TypeOK, Callers, Scan, TakeOff, Begin,
     outside
<1> QED BY <1>1, <1>2, <1>3, <1>4, <1>5, <1>6, <1>7, <1>8 DEF IInv

LEMMA DiscoveryKeep ==
  ASSUME IInv, Start \/ (\E a \in Agents : Adopt(a)) \/ Serve
  PROVE  IInv'
<1>1. TypeOK'
  BY FleetAssumption DEF IInv, TypeOK, Creates, Destroys, Callers, Start, Adopt,
     Alive, Serve, Destroying, outside, Fault
<1>2. ListedIsWhole'
  BY DEF IInv, ListedIsWhole, Callers, TypeOK, TaskIsWhole, TodoIsFresh, Start,
     Adopt, Alive, Serve, Destroying, outside
<1>3. Unused'
  BY DEF IInv, Unused, Callers, TypeOK, Start, Adopt, Alive, Serve, Destroying,
     outside
<1>4. CreatingIsUnknown'
  BY DEF IInv, CreatingIsUnknown, CreateOrDestroy, Callers, TypeOK, Start, Adopt,
     Alive, Serve, Destroying, outside
<1>5. MadeSoFar'
  BY DEF IInv, MadeSoFar, TypeOK, Callers, Start, Adopt, Alive, Serve, Destroying,
     outside
<1>6. TaskIsWhole'
  BY DEF IInv, TaskIsWhole, Callers, TypeOK, Start, Adopt, Alive, Serve, Destroying,
     outside
<1>7. TodoIsFresh'
  BY DEF IInv, TodoIsFresh, Callers, TypeOK, DownIsEmpty, NoDestroys, Start, Adopt,
     Alive, Serve, Destroying, outside
<1>8. DownIsEmpty'
  BY DEF IInv, DownIsEmpty, NoDestroys, TypeOK, Callers, Start, Adopt, Alive, Serve,
     Destroying, outside
<1> QED BY <1>1, <1>2, <1>3, <1>4, <1>5, <1>6, <1>7, <1>8 DEF IInv

LEMMA DiscardsKeep ==
  ASSUME IInv, NEW a \in Agents, Discard(a)
  PROVE  IInv'
<1>1. TypeOK'
  BY FleetAssumption DEF IInv, TypeOK, Creates, Destroys, Callers, Discard, Begin,
     Destroying, outside, Fault
<1>2. ListedIsWhole'
  BY DEF IInv, ListedIsWhole, Callers, TypeOK, TodoIsFresh, Discard, Begin,
     Destroying, outside
<1>3. Unused'
  BY DEF IInv, Unused, Callers, TypeOK, Discard, Begin, Destroying, outside
<1>4. CreatingIsUnknown'
  BY DEF IInv, CreatingIsUnknown, CreateOrDestroy, Callers, TypeOK, Discard, Begin,
     Destroying, outside
<1>5. MadeSoFar'
  BY DEF IInv, MadeSoFar, TypeOK, Callers, Discard, Begin, Destroying, outside
<1>6. TaskIsWhole'
  BY DEF IInv, TaskIsWhole, Callers, TypeOK, Discard, Begin, Destroying, outside
<1>7. TodoIsFresh'
  BY DEF IInv, TodoIsFresh, Callers, TypeOK, Discard, Begin, Destroying, outside
<1>8. DownIsEmpty'
  BY DEF IInv, DownIsEmpty, NoDestroys, TypeOK, Callers, Discard, Begin, Destroying,
     outside
<1> QED BY <1>1, <1>2, <1>3, <1>4, <1>5, <1>6, <1>7, <1>8 DEF IInv

LEMMA ShutdownsKeep ==
  ASSUME IInv, Shutdown \/ ClearAndDestroy
  PROVE  IInv'
<1>1. TypeOK'
  BY FleetAssumption DEF IInv, TypeOK, Creates, Destroys, Callers, Shutdown,
     ClearAndDestroy, Begin, outside, Fault
<1>2. ListedIsWhole'
  BY DEF IInv, ListedIsWhole, Callers, TypeOK, Shutdown, ClearAndDestroy, Begin,
     outside
<1>3. Unused'
  BY DEF IInv, Unused, Callers, TypeOK, Shutdown, ClearAndDestroy, Begin, outside
<1>4. CreatingIsUnknown'
  BY DEF IInv, CreatingIsUnknown, CreateOrDestroy, Callers, TypeOK, Shutdown,
     ClearAndDestroy, Begin, outside
<1>5. MadeSoFar'
  BY DEF IInv, MadeSoFar, TypeOK, Callers, Shutdown, ClearAndDestroy, Begin, outside
<1>6. TaskIsWhole'
  BY DEF IInv, TaskIsWhole, Callers, TypeOK, Shutdown, ClearAndDestroy, Begin,
     outside
<1>7. TodoIsFresh'
  BY DEF IInv, TodoIsFresh, Callers, TypeOK, Shutdown, ClearAndDestroy, Begin,
     outside
<1>8. DownIsEmpty'
  BY DEF IInv, DownIsEmpty, NoDestroys, TypeOK, Callers, Shutdown, ClearAndDestroy,
     Begin, outside
<1> QED BY <1>1, <1>2, <1>3, <1>4, <1>5, <1>6, <1>7, <1>8 DEF IInv

LEMMA EndsKeep ==
  ASSUME IInv, Exit \/ Crash
  PROVE  IInv'
<1>1. TypeOK'
  BY FleetAssumption DEF IInv, TypeOK, Creates, Destroys, Callers, Exit, Crash,
     Gone, outside, NoDestroys, Fault
<1>2. ListedIsWhole'
  BY DEF IInv, ListedIsWhole, Callers, TypeOK, Exit, Crash, Gone, outside,
     NoDestroys
<1>3. Unused'
  BY DEF IInv, Unused, Callers, TypeOK, Exit, Crash, Gone, outside, NoDestroys
<1>4. CreatingIsUnknown'
  BY DEF IInv, CreatingIsUnknown, CreateOrDestroy, Callers, TypeOK, Exit, Crash,
     Gone, outside, NoDestroys
<1>5. MadeSoFar'
  BY DEF IInv, MadeSoFar, TypeOK, Callers, Exit, Crash, Gone, outside, NoDestroys
<1>6. TaskIsWhole'
  BY DEF IInv, TaskIsWhole, Callers, TypeOK, Exit, Crash, Gone, outside, NoDestroys
<1>7. TodoIsFresh'
  BY DEF IInv, TodoIsFresh, Callers, TypeOK, Exit, Crash, Gone, outside, NoDestroys
<1>8. DownIsEmpty'
  BY DEF IInv, DownIsEmpty, NoDestroys, TypeOK, Callers, Exit, Crash, Gone, outside
<1> QED BY <1>1, <1>2, <1>3, <1>4, <1>5, <1>6, <1>7, <1>8 DEF IInv

LEMMA AgentsKeep ==
  ASSUME IInv, NEW a \in Agents, AgentDies(a) \/ AgentStops(a)
  PROVE  IInv'
<1>1. TypeOK'
  BY FleetAssumption DEF IInv, TypeOK, Creates, Destroys, Callers, AgentDies,
     AgentStops, Fault
<1>2. ListedIsWhole'
  BY DEF IInv, ListedIsWhole, Callers, TypeOK, AgentDies, AgentStops
<1>3. Unused'
  BY DEF IInv, Unused, Callers, TypeOK, AgentDies, AgentStops
<1>4. CreatingIsUnknown'
  BY DEF IInv, CreatingIsUnknown, CreateOrDestroy, Callers, TypeOK, AgentDies,
     AgentStops
<1>5. MadeSoFar'
  BY DEF IInv, MadeSoFar, TypeOK, Callers, AgentDies, AgentStops
<1>6. TaskIsWhole'
  BY DEF IInv, TaskIsWhole, Callers, TypeOK, AgentDies, AgentStops
<1>7. TodoIsFresh'
  BY DEF IInv, TodoIsFresh, Callers, TypeOK, AgentDies, AgentStops
<1>8. DownIsEmpty'
  BY DEF IInv, DownIsEmpty, NoDestroys, TypeOK, Callers, AgentDies, AgentStops
<1> QED BY <1>1, <1>2, <1>3, <1>4, <1>5, <1>6, <1>7, <1>8 DEF IInv

LEMMA StuttersKeep ==
  ASSUME IInv, UNCHANGED vars
  PROVE  IInv'
<1>1. TypeOK'
  BY FleetAssumption DEF IInv, TypeOK, Creates, Destroys, Callers, vars, outside,
     Fault
<1>2. ListedIsWhole'
  BY DEF IInv, ListedIsWhole, Callers, TypeOK, vars, outside
<1>3. Unused'
  BY DEF IInv, Unused, Callers, TypeOK, vars, outside
<1>4. CreatingIsUnknown'
  BY DEF IInv, CreatingIsUnknown, CreateOrDestroy, Callers, TypeOK, vars, outside
<1>5. MadeSoFar'
  BY DEF IInv, MadeSoFar, TypeOK, Callers, vars, outside
<1>6. TaskIsWhole'
  BY DEF IInv, TaskIsWhole, Callers, TypeOK, vars, outside
<1>7. TodoIsFresh'
  BY DEF IInv, TodoIsFresh, Callers, TypeOK, vars, outside
<1>8. DownIsEmpty'
  BY DEF IInv, DownIsEmpty, NoDestroys, TypeOK, Callers, vars, outside
<1> QED BY <1>1, <1>2, <1>3, <1>4, <1>5, <1>6, <1>7, <1>8 DEF IInv

LEMMA NextInv == IInv /\ [Next]_vars => IInv'
<1> SUFFICES ASSUME IInv, [Next]_vars PROVE IInv'
  OBVIOUS
<1>1. ASSUME NEW a \in Agents, CreateBegin(a) \/ Create(a) \/ CreateFails(a)
      PROVE  IInv'
  BY <1>1, BeginsKeep, MakesKeep, TasksKeep, ReadyKeep, FailsKeep DEF Create
<1>2. ASSUME NEW a \in Agents, NEW c \in Callers, Destroy(c, a)
      PROVE  IInv'
  BY <1>2, KillsKeep, TaskDeletionsKeep, ContainerDeletionsKeep, RemovalsKeep DEF Destroy
<1>3. CASE \/ \E S \in SUBSET Agents : Scan(S)
           \/ TakeOff \/ Start \/ Shutdown \/ Crash
  BY <1>3, DrainsKeep, DiscoveryKeep, ShutdownsKeep, EndsKeep
<1>4. CASE Main
  BY <1>4, DiscoveryKeep, DiscardsKeep, ShutdownsKeep, EndsKeep DEF Main
<1>5. ASSUME NEW a \in Agents, AgentDies(a) \/ AgentStops(a)
      PROVE  IInv'
  BY <1>5, AgentsKeep
<1> QED BY <1>1, <1>2, <1>3, <1>4, <1>5, StuttersKeep DEF Next

LEMMA SpecInv == Spec => []IInv
  BY InitInv, NextInv, PTL DEF Spec

-----------------------------------------------------------------------------
(* Every variable of a running system has its type.                        *)
THEOREM TypeCorrect == Spec => []TypeOK
<1>1. IInv => TypeOK
  BY DEF IInv
<1> QED BY <1>1, SpecInv, PTL

(* However creations, removals, crashes and restarts interleave, there is  *)
(* no task in containerd without the record by which a manager finds it.   *)
THEOREM TasksAreFound == Spec => []RunningIsFound
<1>1. IInv => RunningIsFound
  BY DEF IInv, TaskIsWhole, RunningIsFound
<1> QED BY <1>1, SpecInv, PTL

(* An agent the pool lists has all it was made of, and no destroy() has    *)
(* begun on it, neither the drain loop's nor main's.                       *)
THEOREM ListedAreWhole == Spec => []ListedIsWhole
<1>1. IInv => ListedIsWhole
  BY DEF IInv
<1> QED BY <1>1, SpecInv, PTL

(* create() and destroy() never work on the same agent.                    *)
THEOREM NeverBoth == Spec => []CreateOrDestroy
<1>1. IInv => CreateOrDestroy
  BY DEF IInv, CreatingIsUnknown
<1> QED BY <1>1, SpecInv, PTL

(* Whatever crashes, fails or interleaves, the agents can be found and     *)
(* taken away whole.                                                       *)
THEOREM AlwaysWhole == Spec => []FleetIsWhole
<1>1. RunningIsFound /\ ListedIsWhole /\ CreateOrDestroy => FleetIsWhole
  BY DEF FleetIsWhole
<1> QED BY <1>1, TasksAreFound, ListedAreWhole, NeverBoth, PTL

-----------------------------------------------------------------------------
(* The scaler.                                                             *)

Statuses == {"none", "creating", "up", "draining"}

(* What both arguments need to know of the state. *)
Shape ==
  /\ status \in [Slots -> Statuses]
  /\ age \in [Slots -> Nat]
  /\ phase \in {"waiting", "deciding", "marking"}
  /\ metrics \in [agents : Nat, draining : Nat, active : Nat, queue : Nat]
  /\ queue \in Nat
  /\ lost \in Nat
  /\ trend \in {-1, 0, 1}
  /\ sinceUp \in 0 .. UpCooldown
  /\ sinceDown \in 0 .. DownCooldown
  /\ \A a \in Slots : status[a] \in {"none", "up"} => age[a] = 0
  /\ phase = "marking" => target \in Slots /\ status[target] \in {"none", "up"}

(* The creations begun less than n intervals ago. *)
Younger(n) == {a \in With("creating") : age[a] < n}

Everyone == With("creating") \cup InPool

(* How many scale-ups one creation can see, its own left out.              *)
Rounds == ProvisionTicks \div UpCooldown

(* A batch is begun at most once per cooldown, so few of the creations in  *)
(* progress are young; a decision that may scale up misses no more agents  *)
(* than one creation's time has batches.                                   *)
UpInv ==
  /\ \A a \in Slots : status[a] = "creating" => age[a] <= ProvisionTicks
  /\ \A k, n \in Nat : n = sinceUp + k * UpCooldown => Cardinality(Younger(n)) <= k * Batch
  /\ phase = "deciding" /\ sinceUp >= UpCooldown =>
       Cardinality(Everyone) <= metrics.agents + Rounds * Batch
  /\ Cardinality(Everyone) <= OvershootBound

(* When the next agent is picked no drain is in progress, and what the     *)
(* metrics counted is still up or was taken off as unhealthy.              *)
DownInv ==
  /\ \A a \in Slots : status[a] = "draining" => age[a] = sinceDown /\ age[a] <= DrainTicks
  /\ phase = "deciding" /\ sinceDown >= DownCooldown =>
       metrics.agents <= Cardinality(With("up")) + lost
  /\ phase = "marking" => sinceDown = 0 /\ Cardinality(With("up")) + lost > MinAgents
  /\ phase = "marking" => With("draining") = {}

-----------------------------------------------------------------------------
(* Arithmetic and sets.                                                    *)

(* The least of some integers is one of them. *)
LEMMA MinOf ==
  ASSUME NEW S \in SUBSET Int, NEW x \in S, \A y \in S : x <= y
  PROVE  Min(S) \in S /\ \A y \in S : Min(S) <= y
  BY DEF Min

LEMMA MinOfTwo ==
  ASSUME NEW i \in Int, NEW j \in Int
  PROVE  Min({i, j}) = IF i <= j THEN i ELSE j
<1>1. CASE i <= j
  BY <1>1, MinOf
<1>2. CASE ~(i <= j)
  BY <1>2, MinOf
<1> QED BY <1>1, <1>2

LEMMA MinOfThree ==
  ASSUME NEW i \in Int, NEW j \in Int, NEW k \in Int
  PROVE  Min({i, j, k}) \in {i, j, k} /\ Min({i, j, k}) <= j /\ Min({i, j, k}) <= k
<1>1. PICK x \in {i, j, k} : \A y \in {i, j, k} : x <= y
  OBVIOUS
<1>2. {i, j, k} \in SUBSET Int
  OBVIOUS
<1>3. Min({i, j, k}) \in {i, j, k} /\ \A y \in {i, j, k} : Min({i, j, k}) <= y
  BY <1>1, <1>2, MinOf
<1> QED BY <1>3

(* The greater of two integers. *)
LEMMA MaxOfTwo ==
  ASSUME NEW i \in Int, NEW j \in Int
  PROVE  Max({i, j}) \in Int /\ i <= Max({i, j}) /\ j <= Max({i, j})
<1>1. PICK x \in {i, j} : \A y \in {i, j} : x >= y
  OBVIOUS
<1>2. Max({i, j}) \in {i, j} /\ \A y \in {i, j} : Max({i, j}) >= y
  BY <1>1 DEF Max
<1> QED BY <1>2

(* So many cooldowns, and one more, outlast a creation.                    *)
LEMMA RoundsOutlast ==
  Rounds \in Nat /\ ProvisionTicks < UpCooldown + Rounds * UpCooldown
<1>1. ProvisionTicks \in Nat /\ UpCooldown \in Nat \ {0}
  BY ScalerAssumption
<1>2. Rounds \in Nat
  BY <1>1 DEF Rounds
<1>3. ProvisionTicks < UpCooldown + Rounds * UpCooldown
  BY <1>1 DEF Rounds
<1> QED BY <1>2, <1>3

(* The first of k batches and the rest. *)
LEMMA OneMore ==
  ASSUME NEW k \in Nat \ {0}, NEW b \in Nat
  PROVE  k - 1 \in Nat /\ k * b = b + (k - 1) * b
  OBVIOUS

(* The bound is a number above each of the two it is the greater of.       *)
LEMMA BoundFacts ==
  /\ OvershootBound \in Int
  /\ MaxAdopted <= OvershootBound
  /\ MaxAgents + Rounds * Batch <= OvershootBound
<1>1. Rounds \in Nat /\ Batch \in Nat /\ MaxAgents \in Nat /\ MaxAdopted \in Nat
  BY RoundsOutlast, ScalerAssumption
<1>2. Rounds * Batch = Batch * Rounds /\ Rounds * Batch \in Nat
  BY <1>1
<1>3. OvershootBound = Max({MaxAdopted, MaxAgents + Batch * Rounds})
  BY DEF OvershootBound, Rounds
<1>4. PICK i \in Int : i = MaxAgents + Batch * Rounds
  BY <1>1
<1>5. /\ OvershootBound \in Int
      /\ MaxAdopted <= OvershootBound /\ i <= OvershootBound
  <2>1. MaxAdopted \in Int
    BY <1>1
  <2>2. Max({MaxAdopted, i}) \in Int
        /\ MaxAdopted <= Max({MaxAdopted, i}) /\ i <= Max({MaxAdopted, i})
    BY <2>1, MaxOfTwo
  <2>3. OvershootBound = Max({MaxAdopted, i})
    BY <1>3, <1>4
  <2> QED BY <2>2, <2>3
<1> QED BY <1>1, <1>2, <1>4, <1>5

(* A clock that stops at its bound. *)
LEMMA OlderFacts ==
  ASSUME NEW b \in Nat, NEW n \in 0 .. b
  PROVE  /\ Older(n, b) \in 0 .. b
         /\ Older(n, b) = b \/ Older(n, b) = n + 1
         /\ n < b => Older(n, b) = n + 1
  BY MinOfTwo DEF Older

(* Parts of the agents are finite; a smaller part has fewer. *)
LEMMA PartsFinite ==
  ASSUME NEW S \in SUBSET Slots
  PROVE  IsFiniteSet(S) /\ Cardinality(S) \in Nat
  BY ScalerAssumption, FS_Subset, FS_CardinalityType

LEMMA PartsAdded ==
  ASSUME NEW S \in SUBSET Slots, NEW T \in SUBSET Slots
  PROVE  Cardinality(S \cup T) <= Cardinality(S) + Cardinality(T)
<1>1. Cardinality(S \cup T) = Cardinality(S) + Cardinality(T) - Cardinality(S \cap T)
  BY PartsFinite, FS_Union
<1>2. Cardinality(S \cap T) \in Nat /\ Cardinality(S) \in Nat /\ Cardinality(T) \in Nat
  BY PartsFinite
<1> QED BY <1>1, <1>2

LEMMA PartsOrdered ==
  ASSUME NEW S \in SUBSET Slots, NEW T \in SUBSET S
  PROVE  Cardinality(T) <= Cardinality(S)
  BY PartsFinite, FS_Subset

(* The metrics are numbers. *)
LEMMA MetricsType == Metrics \in [agents : Nat, draining : Nat, active : Nat, queue : {queue}]
<1>1. InPool \in SUBSET Slots /\ With("draining") \in SUBSET Slots
  BY DEF InPool, With
<1>6. IsFiniteSet(InPool)
  BY <1>1, PartsFinite
<1>7. 1 \in Int /\ Capacity \in Int
  BY ScalerAssumption
<1>2. IsFiniteSet(1 .. Capacity)
  BY <1>7, FS_Interval
<1>3. IsFiniteSet(InPool \X (1 .. Capacity))
  BY <1>6, <1>2, FS_Product
<1>4. IsFiniteSet(Running) /\ Cardinality(Running) \in Nat
  BY <1>3, FS_Subset, FS_CardinalityType DEF Running
<1> QED BY <1>1, <1>4, PartsFinite DEF Metrics

(* The decision is a number of creations, at most a batch, that max_agents *)
(* has room for, as far as the metrics know.                               *)
LEMMA NeedFacts ==
  ASSUME Shape, NEW buffer \in Buffers
  PROVE  /\ Need(metrics, buffer) \in Nat
         /\ Need(metrics, buffer) <= Batch
         /\ Need(metrics, buffer) > 0 => Need(metrics, buffer) + metrics.agents <= MaxAgents
<1>1. buffer \in Nat
  BY ScalerAssumption DEF Buffers
<1>2. CeilDiv(metrics.active + metrics.queue + buffer, Capacity) \in Int
  BY <1>1, ScalerAssumption DEF Shape, CeilDiv
<1> DEFINE c == CeilDiv(metrics.active + metrics.queue + buffer, Capacity)
<1>3. Excess(c, metrics.agents) \in Nat
  BY <1>2 DEF Shape, Excess
<1>4. Excess(MaxAgents, metrics.agents) \in Nat /\ Batch \in Nat
  BY ScalerAssumption DEF Shape, Excess
<1>5. /\ Need(metrics, buffer) \in {Excess(c, metrics.agents), Batch, Excess(MaxAgents, metrics.agents)}
      /\ Need(metrics, buffer) <= Excess(MaxAgents, metrics.agents)
      /\ Need(metrics, buffer) <= Batch
  <2> HIDE DEF c
  <2>1. PICK x, y, z : x = Excess(c, metrics.agents) /\ y = Batch /\ z = Excess(MaxAgents, metrics.agents)
    OBVIOUS
  <2>2. Need(metrics, buffer) = Min({x, y, z})
    BY <2>1 DEF Need, c
  <2>3. x \in Int /\ y \in Int /\ z \in Int
    BY <1>3, <1>4, <2>1
  <2>4. Min({x, y, z}) \in {x, y, z} /\ Min({x, y, z}) <= y /\ Min({x, y, z}) <= z
    BY <2>3, MinOfThree
  <2>5. PICK n : n = Min({x, y, z})
    OBVIOUS
  <2>6. n \in {x, y, z} /\ n <= y /\ n <= z
    BY <2>4, <2>5
  <2> QED BY <2>1, <2>2, <2>5, <2>6
<1>6. Need(metrics, buffer) \in Nat
  BY <1>3, <1>4, <1>5
<1> QED BY <1>4, <1>5, <1>6, ScalerAssumption DEF Shape, Excess

(* A creation spawned for each of n free identities. *)
LEMMA SpawnFacts ==
  ASSUME Shape, NEW n, ScaleUp(n)
  PROVE  \E S \in SUBSET With("none") :
           /\ Cardinality(S) = n
           /\ status' = [a \in Slots |-> IF a \in S THEN "creating" ELSE status[a]]
           /\ InPool' = InPool
           /\ With("up")' = With("up")
           /\ With("draining")' = With("draining")
           /\ With("creating")' = With("creating") \cup S
<1>1. PICK S \in SUBSET With("none") :
        /\ Cardinality(S) = n
        /\ status' = [a \in Slots |-> IF a \in S THEN "creating" ELSE status[a]]
  BY DEF ScaleUp, kSubset
<1>2. \A a \in S : a \in Slots /\ status[a] = "none"
  BY DEF With
<1>3. /\ With("up")' = With("up")
      /\ With("draining")' = With("draining")
      /\ With("creating")' = With("creating") \cup S
  BY <1>1, <1>2 DEF With
<1> QED BY <1>1, <1>3 DEF InPool

-----------------------------------------------------------------------------
(* Shape.                                                                  *)

LEMMA InitShape == ScalerInit => Shape
  BY ScalerAssumption DEF ScalerInit, Shape, Statuses

LEMMA TickShape ==
  ASSUME Shape, Tick
  PROVE  Shape'
<1>1. metrics' \in [agents : Nat, draining : Nat, active : Nat, queue : Nat]
  BY MetricsType DEF Tick, Shape
<1>2. sinceUp' \in 0 .. UpCooldown /\ sinceDown' \in 0 .. DownCooldown
  BY OlderFacts, ScalerAssumption DEF Tick, Shape
<1>3. trend' \in {-1, 0, 1}
  BY DEF Tick, Shape, Trends, Sign
<1>4. age' \in [Slots -> Nat] /\ \A a \in Slots : status[a] \in {"none", "up"} => age'[a] = 0
  BY DEF Tick, Shape
<1> QED BY <1>1, <1>2, <1>3, <1>4 DEF Tick, Shape

LEMMA DecideShape ==
  ASSUME Shape, Decide
  PROVE  Shape'
<1>1. PICK buffer \in Buffers :
        LET n == Need(metrics, buffer)
        IN ScaleUp(n) \/ ScaleUpCooling(n) \/ NotConfirmed(n) \/ PickTarget(n) \/ NoTarget(n)
  BY DEF Decide
<1> DEFINE n == Need(metrics, buffer)
<1>2. phase = "deciding"
  BY DEF Decide
<1>3. CASE ScaleUp(n)
  <2>1. PICK S \in SUBSET With("none") :
          status' = [a \in Slots |-> IF a \in S THEN "creating" ELSE status[a]]
    BY <1>3, SpawnFacts
  <2>2. status' \in [Slots -> Statuses]
    BY <2>1 DEF Shape, Statuses
  <2>3. \A a \in Slots : status'[a] \in {"none", "up"} => age[a] = 0
    BY <2>1 DEF Shape
  <2> QED BY <1>3, <2>2, <2>3, ScalerAssumption DEF ScaleUp, Shape
<1>4. CASE ScaleUpCooling(n) \/ NotConfirmed(n) \/ NoTarget(n)
  BY <1>4 DEF ScaleUpCooling, NotConfirmed, NoTarget, Shape, poolVars
<1>5. CASE PickTarget(n)
  <2>1. target' \in Slots /\ status[target'] = "up"
    BY <1>5 DEF PickTarget, LeastLoaded, Usable, With
  <2> QED BY <1>5, <2>1, ScalerAssumption DEF PickTarget, Shape, poolVars
<1> QED BY <1>1, <1>3, <1>4, <1>5

LEMMA NextShape == Shape /\ [ScalerNext]_scalerVars => Shape'
<1> SUFFICES ASSUME Shape, [ScalerNext]_scalerVars PROVE Shape'
  OBVIOUS
<1>1. CASE Submit
  BY <1>1 DEF Submit, Shape, loopVars
<1>2. ASSUME NEW a \in Slots, Dispatch(a) \/ Finish(a) \/ Sicken(a)
      PROVE  Shape'
  BY <1>2 DEF Dispatch, Finish, Sicken, Shape, loopVars
<1>3. ASSUME NEW a \in Slots, Created(a) \/ CreateFailed(a) \/ Drained(a)
      PROVE  Shape'
  BY <1>3 DEF Created, CreateFailed, Drained, Shape, Statuses, loopVars
<1>4. CASE Mark \/ MarkMissed
  BY <1>4 DEF Mark, MarkMissed, Shape, Statuses, poolVars
<1>5. CASE UNCHANGED scalerVars
  BY <1>5 DEF Shape, scalerVars, poolVars, loopVars
<1> QED BY <1>1, <1>2, <1>3, <1>4, <1>5, TickShape, DecideShape DEF ScalerNext

-----------------------------------------------------------------------------
(* max_agents.                                                             *)

(* The sets that are counted are parts of the agents.                      *)
LEMMA PartsOfAgents ==
  /\ Everyone \in SUBSET Slots /\ InPool \in SUBSET Everyone
  /\ With("creating") \in SUBSET Slots /\ With("up") \in SUBSET Slots
  /\ \A n : Younger(n) \in SUBSET Slots
  BY DEF Everyone, InPool, With, Younger

LEMMA InitUpInv == ScalerInit => UpInv
<1> SUFFICES ASSUME ScalerInit PROVE UpInv
  OBVIOUS
<1>1. PICK S \in SUBSET Slots :
        Cardinality(S) <= MaxAdopted /\ status = [a \in Slots |-> IF a \in S THEN "up" ELSE "none"]
  BY DEF ScalerInit
<1>2. With("creating") = {} /\ Everyone = S
  BY <1>1 DEF With, InPool, Everyone
<1>3. \A n \in Nat : Cardinality(Younger(n)) = 0
  BY <1>2, FS_EmptySet DEF Younger
<1>4. \A k \in Nat : 0 <= k * Batch
  BY ScalerAssumption
<1>5. Cardinality(Everyone) <= OvershootBound
  BY <1>1, <1>2, PartsFinite, BoundFacts, ScalerAssumption
<1>6. \A a \in Slots : status[a] # "creating"
  BY <1>1
<1> QED BY <1>3, <1>4, <1>5, <1>6 DEF ScalerInit, UpInv

(* A step that begins no creation and takes nobody in keeps UpInv, as long *)
(* as no agent gets younger and the loop is where it was or gives up.      *)
LEMMA ShrinkUpInv ==
  ASSUME Shape, UpInv,
         Everyone' \in SUBSET Everyone,
         \A a \in Slots : status'[a] = "creating" => status[a] = "creating" /\ age'[a] = age[a],
         sinceUp' = sinceUp, metrics' = metrics,
         phase' = "deciding" => phase = "deciding"
  PROVE  UpInv'
<1>1. Cardinality(Everyone') <= Cardinality(Everyone)
      /\ Cardinality(Everyone) \in Nat /\ Cardinality(Everyone') \in Nat
  BY PartsOfAgents, PartsOrdered, PartsFinite
<1>2. ASSUME NEW k \in Nat, NEW n \in Nat, n = sinceUp + k * UpCooldown
      PROVE  Cardinality(Younger(n)') <= k * Batch
  <2>1. Younger(n)' = {a \in With("creating")' : age'[a] < n}
    BY DEF Younger
  <2>2. Younger(n)' \in SUBSET Younger(n)
    BY <2>1 DEF Younger, With
  <2>3. Cardinality(Younger(n)') <= Cardinality(Younger(n))
        /\ Cardinality(Younger(n)) \in Nat /\ Cardinality(Younger(n)') \in Nat
    BY <2>2, PartsOfAgents, PartsOrdered, PartsFinite
  <2>4. Cardinality(Younger(n)) <= k * Batch
    BY <1>2 DEF UpInv
  <2>5. k * Batch \in Nat
    BY ScalerAssumption
  <2> QED BY <2>3, <2>4, <2>5
<1>3. metrics.agents + Rounds * Batch \in Nat /\ OvershootBound \in Int
  BY RoundsOutlast, BoundFacts, ScalerAssumption DEF Shape
<1>4. \A k, n \in Nat : n = sinceUp' + k * UpCooldown => Cardinality(Younger(n)') <= k * Batch
  BY <1>2
<1>5. phase' = "deciding" /\ sinceUp' >= UpCooldown =>
        Cardinality(Everyone') <= metrics'.agents + Rounds * Batch
  BY <1>1, <1>3 DEF UpInv
<1>6. Cardinality(Everyone') <= OvershootBound
  BY <1>1, <1>3 DEF UpInv
<1>7. \A a \in Slots : status'[a] = "creating" => age'[a] <= ProvisionTicks
  BY DEF UpInv
<1> QED BY <1>4, <1>5, <1>6, <1>7 DEF UpInv

(* A scale-up begins a batch a cooldown after the last.                    *)
LEMMA ScaleUpUpInv ==
  ASSUME Shape, UpInv, phase = "deciding",
         NEW buffer \in Buffers, ScaleUp(Need(metrics, buffer))
  PROVE  UpInv'
<1> DEFINE n == Need(metrics, buffer)
<1>1. PICK S \in SUBSET With("none") :
        /\ Cardinality(S) = n
        /\ status' = [a \in Slots |-> IF a \in S THEN "creating" ELSE status[a]]
        /\ InPool' = InPool
        /\ With("creating")' = With("creating") \cup S
  BY SpawnFacts
<1>2. sinceUp = UpCooldown /\ sinceUp' = 0 /\ phase' = "waiting" /\ age' = age
  BY ScalerAssumption DEF ScaleUp, Shape
<1>3. n \in Nat /\ n > 0 /\ n <= Batch /\ n + metrics.agents <= MaxAgents
  BY NeedFacts DEF ScaleUp
<1> HIDE DEF n
<1>4. S \in SUBSET Slots /\ \A a \in S : age[a] = 0
  BY DEF Shape, With
<1>5. \A a \in Slots : status'[a] = "creating" => age'[a] <= ProvisionTicks
  BY <1>1, <1>2, <1>4, ScalerAssumption DEF UpInv
<1>6. ASSUME NEW k \in Nat, NEW m \in Nat, m = 0 + k * UpCooldown
      PROVE  Cardinality(Younger(m)') <= k * Batch
  <2>1. Younger(m)' = {a \in With("creating") \cup S : age[a] < m}
    BY <1>1, <1>2 DEF Younger
  <2>2. CASE k = 0
    <3>1. m = 0
      BY <1>6, <2>2, ScalerAssumption
    <3>2. Younger(m)' = {}
      BY <2>1, <3>1, <1>4 DEF Shape, With
    <3>3. k * Batch = 0
      BY <2>2, ScalerAssumption
    <3> QED BY <3>2, <3>3, FS_EmptySet
  <2>3. CASE k # 0
    <3>1. k - 1 \in Nat /\ m = UpCooldown + (k - 1) * UpCooldown /\ k * Batch = Batch + (k - 1) * Batch
      BY <1>6, <2>3, OneMore, ScalerAssumption
    <3>2. Younger(m)' \in SUBSET (S \cup Younger(m))
      BY <2>1 DEF Younger
    <3>3. S \cup Younger(m) \in SUBSET Slots /\ Younger(m) \in SUBSET Slots
      BY <1>4, PartsOfAgents
    <3>4. Cardinality(Younger(m)) <= (k - 1) * Batch
      BY <1>2, <3>1 DEF UpInv
    <3>5. /\ Cardinality(Younger(m)') <= Cardinality(S \cup Younger(m))
          /\ Cardinality(S \cup Younger(m)) <= Cardinality(S) + Cardinality(Younger(m))
      BY <1>4, <3>2, <3>3, PartsOrdered, PartsAdded
    <3>6. Cardinality(Younger(m)') \in Nat /\ Cardinality(S \cup Younger(m)) \in Nat
          /\ Cardinality(Younger(m)) \in Nat
      BY <3>2, <3>3, PartsFinite
    <3>7. Batch \in Nat /\ (k - 1) * Batch \in Nat
      BY <3>1, ScalerAssumption
    <3> QED BY <1>1, <1>3, <3>1, <3>4, <3>5, <3>6, <3>7
  <2> QED BY <2>2, <2>3
<1>7. Cardinality(Everyone') <= OvershootBound
  <2>1. Everyone' = S \cup Everyone
    BY <1>1 DEF Everyone
  <2>2. Cardinality(Everyone') <= n + Cardinality(Everyone)
    BY <1>1, <1>4, <2>1, PartsOfAgents, PartsAdded
  <2>3. Cardinality(Everyone) <= metrics.agents + Rounds * Batch
    BY <1>2, ScalerAssumption DEF UpInv
  <2>4. Cardinality(Everyone) \in Nat /\ Cardinality(Everyone') \in Nat
    BY <1>4, <2>1, PartsOfAgents, PartsFinite
  <2>5. Rounds * Batch \in Nat /\ metrics.agents \in Nat /\ MaxAgents \in Nat
    BY RoundsOutlast, ScalerAssumption DEF Shape
  <2> QED BY <1>3, <2>2, <2>3, <2>4, <2>5, BoundFacts
<1> QED BY <1>2, <1>5, <1>6, <1>7 DEF UpInv

LEMMA DecideUpInv ==
  ASSUME Shape, UpInv, Decide
  PROVE  UpInv'
<1>1. PICK buffer \in Buffers :
        LET n == Need(metrics, buffer)
        IN ScaleUp(n) \/ ScaleUpCooling(n) \/ NotConfirmed(n) \/ PickTarget(n) \/ NoTarget(n)
  BY DEF Decide
<1> DEFINE n == Need(metrics, buffer)
<1>2. phase = "deciding"
  BY DEF Decide
<1>3. CASE ScaleUp(n)
  BY <1>2, <1>3, ScaleUpUpInv
<1>4. CASE ScaleUpCooling(n) \/ NotConfirmed(n) \/ NoTarget(n) \/ PickTarget(n)
  <2>1. /\ status' = status /\ age' = age /\ sinceUp' = sinceUp /\ metrics' = metrics
        /\ phase' \in {"waiting", "marking"}
    BY <1>4 DEF ScaleUpCooling, NotConfirmed, NoTarget, PickTarget, poolVars
  <2>2. Everyone' = Everyone
    BY <2>1 DEF Everyone, InPool, With
  <2> QED BY <2>1, <2>2, ShrinkUpInv
<1> QED BY <1>1, <1>3, <1>4

(* An interval passes: the creations get older, and the last scale-up.     *)
LEMMA TickUpInv ==
  ASSUME Shape, UpInv, Tick
  PROVE  UpInv'
<1>1. /\ With("creating")' = With("creating") /\ InPool' = InPool /\ Everyone' = Everyone
      /\ metrics'.agents = Cardinality(InPool)
  BY DEF Tick, With, InPool, Metrics, Everyone
<1>2. ASSUME NEW a \in Slots, status'[a] = "creating"
      PROVE  age'[a] = age[a] + 1 /\ age'[a] <= ProvisionTicks
  BY <1>2, ScalerAssumption DEF Tick, Due, UpInv, Shape
<1>3. sinceUp' \in Nat /\ sinceUp' <= sinceUp + 1 /\ sinceUp' <= UpCooldown
  BY OlderFacts, ScalerAssumption DEF Tick, Shape
<1>4. ASSUME NEW k \in Nat, NEW n \in Nat, n = sinceUp' + k * UpCooldown
      PROVE  Cardinality(Younger(n)') <= k * Batch
  <2>1. PICK m \in Nat : m = sinceUp + k * UpCooldown
    BY ScalerAssumption DEF Shape
  <2>2. n <= m + 1
    <3>1. k * UpCooldown \in Nat
      BY ScalerAssumption
    <3> QED BY <1>3, <1>4, <2>1, <3>1 DEF Shape
  <2>3. Younger(n)' \in SUBSET Younger(m)
    <3>1. ASSUME NEW a \in With("creating")', age'[a] < n
          PROVE  a \in With("creating") /\ age[a] < m
      <4>1. a \in Slots /\ status'[a] = "creating" /\ a \in With("creating")
        BY <1>1, <3>1 DEF With
      <4> QED BY <1>2, <2>2, <3>1, <4>1 DEF Shape
    <3>2. Younger(n)' = {a \in With("creating")' : age'[a] < n}
      BY DEF Younger
    <3> QED BY <3>1, <3>2 DEF Younger
  <2>4. Cardinality(Younger(m)) <= k * Batch
    BY <2>1 DEF UpInv
  <2>5. Cardinality(Younger(n)') <= Cardinality(Younger(m))
        /\ Cardinality(Younger(n)') \in Nat /\ Cardinality(Younger(m)) \in Nat
    BY <2>3, PartsOfAgents, PartsOrdered, PartsFinite
  <2>6. k * Batch \in Nat
    BY ScalerAssumption
  <2> QED BY <2>4, <2>5, <2>6
<1>5. ASSUME sinceUp' >= UpCooldown
      PROVE  Cardinality(Everyone') <= metrics'.agents + Rounds * Batch
  <2>1. sinceUp' = UpCooldown
    BY <1>3, <1>5, ScalerAssumption
  <2>7. PICK n \in Nat : n = UpCooldown + Rounds * UpCooldown
    BY RoundsOutlast, ScalerAssumption
  <2>2. Cardinality(Younger(n)') <= Rounds * Batch
    BY <1>4, <2>1, <2>7, RoundsOutlast
  <2>3. Younger(n)' = With("creating")
    <3>1. ASSUME NEW a \in With("creating")
          PROVE  age'[a] < n
      <4>1. a \in Slots /\ status'[a] = "creating"
        BY <1>1 DEF With
      <4>2. age[a] \in Nat
        BY <4>1 DEF Shape
      <4> QED BY <1>2, <2>7, <4>1, <4>2, RoundsOutlast, ScalerAssumption
    <3>2. Younger(n)' = {a \in With("creating")' : age'[a] < n}
      BY DEF Younger
    <3> QED BY <1>1, <3>1, <3>2
  <2>4. Cardinality(Everyone) <= Cardinality(With("creating")) + Cardinality(InPool)
    BY PartsOfAgents, PartsAdded DEF Everyone
  <2>5. Cardinality(Everyone) \in Nat /\ Cardinality(With("creating")) \in Nat
        /\ Cardinality(InPool) \in Nat
    BY PartsOfAgents, PartsFinite
  <2>6. Rounds * Batch \in Nat
    BY RoundsOutlast, ScalerAssumption
  <2> QED BY <1>1, <2>2, <2>3, <2>4, <2>5, <2>6
<1>6. Cardinality(Everyone') <= OvershootBound
  BY <1>1 DEF UpInv
<1>7. \A a \in Slots : status'[a] = "creating" => age'[a] <= ProvisionTicks
  BY <1>2
<1>8. \A k, n \in Nat : n = sinceUp' + k * UpCooldown => Cardinality(Younger(n)') <= k * Batch
  BY <1>4
<1>9. sinceUp' >= UpCooldown => Cardinality(Everyone') <= metrics'.agents + Rounds * Batch
  BY <1>5
<1> QED BY <1>6, <1>7, <1>8, <1>9 DEF UpInv

LEMMA NextUpInv ==
  ASSUME Shape, UpInv, [ScalerNext]_scalerVars
  PROVE  UpInv'
<1>1. ASSUME UNCHANGED <<status, age, loopVars>>
      PROVE  UpInv'
  <2>1. Everyone' = Everyone
    BY <1>1 DEF Everyone, InPool, With
  <2> QED BY <1>1, <2>1, ShrinkUpInv DEF loopVars
<1>2. CASE Submit \/ \E a \in Slots : Dispatch(a) \/ Finish(a) \/ Sicken(a)
  BY <1>1, <1>2 DEF Submit, Dispatch, Finish, Sicken
<1>3. ASSUME NEW a \in Slots, Created(a) \/ CreateFailed(a) \/ Drained(a)
      PROVE  UpInv'
  <2>1. Everyone' \in SUBSET Everyone
    BY <1>3 DEF Created, CreateFailed, Drained, Shape, With, InPool, Everyone
  <2>2. \A b \in Slots : status'[b] = "creating" => status[b] = "creating" /\ age'[b] = age[b]
    BY <1>3 DEF Created, CreateFailed, Drained, Shape
  <2>3. UNCHANGED loopVars
    BY <1>3 DEF Created, CreateFailed, Drained
  <2> QED BY <2>1, <2>2, <2>3, ShrinkUpInv DEF loopVars
<1>4. CASE Mark \/ MarkMissed
  <2>1. Everyone' = Everyone
    BY <1>4 DEF Mark, MarkMissed, poolVars, Shape, With, InPool, Everyone
  <2>2. \A b \in Slots : status'[b] = "creating" => status[b] = "creating" /\ age'[b] = age[b]
    BY <1>4 DEF Mark, MarkMissed, poolVars, Shape
  <2> QED BY <1>4, <2>1, <2>2, ShrinkUpInv DEF Mark, MarkMissed
<1>5. CASE UNCHANGED scalerVars
  BY <1>1, <1>5 DEF scalerVars, poolVars
<1> QED BY <1>2, <1>3, <1>4, <1>5, DecideUpInv, TickUpInv DEF ScalerNext

(* The pool goes beyond max_agents by no more than a batch for each        *)
(* cooldown that fits into a creation, whatever else happens: a scale-up   *)
(* misses only creations in progress and those done since its snapshot.    *)
THEOREM OvershootHeld == ScalerSpec => []OvershootBounded
<1>1. ScalerInit => Shape /\ UpInv
  BY InitShape, InitUpInv
<1>2. Shape /\ UpInv /\ [ScalerNext]_scalerVars => (Shape /\ UpInv)'
  BY NextShape, NextUpInv
<1>3. Shape /\ UpInv => OvershootBounded
  BY DEF UpInv, OvershootBounded, Everyone
<1> QED BY <1>1, <1>2, <1>3, PTL DEF ScalerSpec

-----------------------------------------------------------------------------
(* min_agents.                                                             *)

LEMMA InitDownInv == ScalerInit => DownInv
  BY ScalerAssumption DEF ScalerInit, DownInv

LEMMA DecideDownInv ==
  ASSUME Shape, DownInv, DownCooldown > DrainTicks, Decide
  PROVE  DownInv'
<1>1. PICK buffer \in Buffers :
        LET n == Need(metrics, buffer)
        IN ScaleUp(n) \/ ScaleUpCooling(n) \/ NotConfirmed(n) \/ PickTarget(n) \/ NoTarget(n)
  BY DEF Decide
<1> DEFINE n == Need(metrics, buffer)
<1>2. phase = "deciding"
  BY DEF Decide
<1>3. CASE ScaleUp(n)
  <2>1. /\ With("up")' = With("up")
        /\ With("draining")' = With("draining")
    BY <1>3, SpawnFacts
  <2>2. \A a \in Slots : status'[a] = "draining" => status[a] = "draining"
    BY <2>1 DEF With
  <2>3. age' = age /\ sinceDown' = sinceDown /\ phase' = "waiting" /\ metrics' = metrics
    BY <1>3 DEF ScaleUp
  <2> QED BY <2>2, <2>3 DEF DownInv
<1>4. CASE ScaleUpCooling(n) \/ NotConfirmed(n) \/ NoTarget(n)
  BY <1>4 DEF ScaleUpCooling, NotConfirmed, NoTarget, DownInv, poolVars
<1>5. CASE PickTarget(n)
  <2>1. sinceDown >= DownCooldown /\ metrics.agents > MinAgents
    BY <1>5 DEF PickTarget, Confirmed, AboveMin
  <2>2. \A a \in Slots : status[a] # "draining"
    BY <2>1, ScalerAssumption DEF DownInv, Shape
  <2>3. /\ With("draining") = {} /\ With("draining")' = {} /\ With("up")' = With("up")
        /\ lost' = lost
    BY <1>5, <2>2 DEF PickTarget, poolVars, With
  <2>4. Cardinality(With("up")) \in Nat
    BY PartsFinite DEF With
  <2>5. Cardinality(With("up")) + lost > MinAgents
    BY <1>2, <2>1, <2>4, ScalerAssumption DEF DownInv, Shape
  <2> QED BY <1>5, <2>2, <2>3, <2>5 DEF PickTarget, DownInv, poolVars
<1> QED BY <1>1, <1>3, <1>4, <1>5

(* The drain loop takes off a draining agent, or a sick one, counted lost. *)
LEMMA DrainedDownInv ==
  ASSUME Shape, DownInv, NEW a \in Slots, Drained(a)
  PROVE  DownInv'
<1>1. /\ With("draining")' \in SUBSET With("draining")
      /\ \A b \in Slots : status'[b] = "draining" => status[b] = "draining" /\ age'[b] = age[b]
  BY DEF Drained, Shape, With
<1>2. UNCHANGED loopVars
  BY DEF Drained
<1>3. /\ Cardinality(With("up")) \in Nat /\ Cardinality(With("up")') \in Nat
      /\ IsFiniteSet(With("up")')
  BY PartsFinite DEF With
<1>4. ASSUME phase # "waiting"
      PROVE  Cardinality(With("up")) + lost = Cardinality(With("up")') + lost'
  <2>1. CASE status[a] = "up"
    <3>1. With("up") = With("up")' \cup {a} /\ a \notin With("up")'
      BY <2>1 DEF Drained, Shape, With
    <3>2. Cardinality(With("up")) = Cardinality(With("up")') + 1
      BY <1>3, <3>1, FS_AddElement
    <3>3. lost' = lost + 1
      BY <1>4, <2>1 DEF Drained
    <3> QED BY <1>3, <3>2, <3>3 DEF Shape
  <2>2. CASE status[a] # "up"
    <3>1. With("up")' = With("up") /\ lost' = lost
      BY <2>2 DEF Drained, Shape, With
    <3> QED BY <3>1
  <2> QED BY <2>1, <2>2
<1>5. phase = "deciding" /\ sinceDown >= DownCooldown =>
        metrics.agents <= Cardinality(With("up")') + lost'
  BY <1>4 DEF DownInv
<1>6. phase = "marking" => sinceDown = 0 /\ Cardinality(With("up")') + lost' > MinAgents
  BY <1>4 DEF DownInv
<1>7. phase = "marking" => With("draining")' = {}
  BY <1>1 DEF DownInv
<1> QED BY <1>1, <1>2, <1>5, <1>6, <1>7 DEF DownInv, loopVars

LEMMA NextDownInv ==
  ASSUME Shape, DownInv, DownCooldown > DrainTicks, [ScalerNext]_scalerVars
  PROVE  DownInv'
<1>1. ASSUME UNCHANGED <<status, age, lost, loopVars>>
      PROVE  DownInv'
  BY <1>1 DEF DownInv, With, loopVars
<1>2. CASE Submit \/ \E a \in Slots : Dispatch(a) \/ Finish(a) \/ Sicken(a)
  BY <1>1, <1>2 DEF Submit, Dispatch, Finish, Sicken
<1>3. ASSUME NEW a \in Slots, Created(a) \/ CreateFailed(a)
      PROVE  DownInv'
  <2>1. With("up") \in SUBSET With("up")' /\ With("up")' \in SUBSET Slots
    BY <1>3 DEF Created, CreateFailed, Shape, With
  <2>2. /\ Cardinality(With("up")) <= Cardinality(With("up")')
        /\ Cardinality(With("up")) \in Nat /\ Cardinality(With("up")') \in Nat
    BY <2>1, PartsOrdered, PartsFinite
  <2>3. \A b \in Slots : status'[b] = "draining" <=> status[b] = "draining"
    BY <1>3 DEF Created, CreateFailed, Shape
  <2>4. \A b \in Slots : status[b] = "draining" => age'[b] = age[b]
    BY <1>3 DEF Created, CreateFailed, Shape
  <2>5. UNCHANGED loopVars /\ lost' = lost
    BY <1>3 DEF Created, CreateFailed
  <2>6. With("draining")' = With("draining")
    BY <2>3 DEF With
  <2>7. metrics.agents \in Nat /\ lost \in Nat
    BY DEF Shape
  <2> QED BY <2>2, <2>3, <2>4, <2>5, <2>6, <2>7, ScalerAssumption DEF DownInv, loopVars
<1>4. ASSUME NEW a \in Slots, Drained(a)
      PROVE  DownInv'
  BY <1>4, DrainedDownInv
<1>5. CASE Tick
  <2>1. /\ phase' = "deciding" /\ metrics'.agents = Cardinality(InPool)
        /\ With("up")' = With("up") /\ lost' = 0
    BY <1>5 DEF Tick, Metrics, With
  <2>2. ASSUME NEW a \in Slots, status'[a] = "draining"
        PROVE  age'[a] = sinceDown' /\ age'[a] <= DrainTicks
    <3>1. status[a] = "draining" /\ age[a] = sinceDown /\ age[a] < DrainTicks
      BY <1>5, <2>2, ScalerAssumption DEF Tick, Due, DownInv, Shape
    <3>2. age'[a] = age[a] + 1
      BY <1>5, <3>1 DEF Tick
    <3>3. sinceDown' = sinceDown + 1
      BY <1>5, <3>1, OlderFacts, ScalerAssumption DEF Tick, Shape
    <3> QED BY <3>1, <3>2, <3>3, ScalerAssumption DEF Shape
  <2>3. ASSUME sinceDown' >= DownCooldown
        PROVE  Cardinality(InPool) <= Cardinality(With("up")) + 0
    <3>1. \A a \in Slots : status'[a] # "draining"
      BY <2>2, <2>3, ScalerAssumption, TickShape, <1>5 DEF Shape
    <3>2. InPool = With("up")
      BY <1>5, <3>1 DEF Tick, InPool, With
    <3>3. Cardinality(InPool) \in Nat
      BY PartsFinite DEF InPool, With
    <3> QED BY <3>2, <3>3
  <2> QED BY <2>1, <2>2, <2>3 DEF DownInv
<1>6. CASE Mark
  <2>1. status[target] = "up"
    BY <1>6 DEF Mark, Shape, InPool, With
  <2>2. /\ sinceDown' = 0 /\ phase' = "waiting"
        /\ \A b \in Slots : status'[b] = "draining" => b = target
    BY <1>6, <2>1 DEF Mark, DownInv, Shape, With
  <2>3. age'[target] = 0
    BY <1>6, <2>1 DEF Mark, Shape
  <2> QED BY <2>2, <2>3, ScalerAssumption DEF DownInv
<1>7. CASE MarkMissed
  BY <1>7 DEF MarkMissed, DownInv, poolVars
<1>8. CASE UNCHANGED scalerVars
  BY <1>1, <1>8 DEF scalerVars, poolVars
<1> QED BY <1>2, <1>3, <1>4, <1>5, <1>6, <1>7, <1>8, DecideDownInv DEF ScalerNext

(* With a cooldown longer than a drain takes, the agents that are not      *)
(* draining, with those taken off as unhealthy since the decision, are     *)
(* more than min_agents whenever one is marked, whatever happened between  *)
(* the snapshot and the mark.                                              *)
THEOREM MinAgentsHeld ==
  ASSUME DownCooldown > DrainTicks
  PROVE  ScalerSpec => ScaleDownKeepsMin
<1>1. ScalerInit => Shape /\ DownInv
  BY InitShape, InitDownInv
<1>2. Shape /\ DownInv /\ [ScalerNext]_scalerVars => (Shape /\ DownInv)'
  BY NextShape, NextDownInv
<1>3. Shape /\ DownInv /\ [ScalerNext]_scalerVars =>
        [\A a \in Slots : status[a] = "up" /\ status'[a] = "draining" =>
           Cardinality(With("up")) + lost > MinAgents]_scalerVars
  <2> SUFFICES ASSUME Shape, DownInv, [ScalerNext]_scalerVars,
                      NEW a \in Slots, status[a] = "up", status'[a] = "draining"
               PROVE  Cardinality(With("up")) + lost > MinAgents
    OBVIOUS
  <2>1. CASE Mark
    BY <2>1 DEF Mark, DownInv
  <2>2. CASE Decide
    <3>1. PICK n : ScaleUp(n) \/ ScaleUpCooling(n) \/ NotConfirmed(n) \/ PickTarget(n) \/ NoTarget(n)
      BY <2>2 DEF Decide
    <3>2. CASE ScaleUp(n)
      BY <3>2, SpawnFacts DEF With
    <3> QED BY <3>1, <3>2 DEF ScaleUpCooling, NotConfirmed, PickTarget, NoTarget, poolVars
  <2>3. CASE ~Mark /\ ~Decide
    BY <2>3 DEF ScalerNext, Submit, Dispatch, Finish, Sicken, Created, CreateFailed, Drained, Tick,
       MarkMissed, scalerVars, poolVars, Shape
  <2> QED BY <2>1, <2>2, <2>3
<1> QED BY <1>1, <1>2, <1>3, PTL DEF ScalerSpec, ScaleDownKeepsMin
=============================================================================
