------------------------ MODULE ProblemStore_proofs ------------------------
(***************************************************************************)
(* What the clients of the problem store were told is what is stored, what *)
(* a submission is judged on is one version of each, and an error has a    *)
(* cause: for any number of requests, columns, tags and cases.             *)
(*                                                                         *)
(* The argument: a transaction that replaces rows has them all in its      *)
(* hands (seen, then gone) if they are by a request that was over before   *)
(* it came, so its commit leaves none of them; what it inserts is by a     *)
(* request nobody else had before; who comes later and commits takes the   *)
(* place.  Who has the row of the problem waits for nobody, and who waits  *)
(* for rows or keys waits for one that brings rows to the same table; so   *)
(* the victim of a circle has a rival, and every circle is of requests     *)
(* that replace rows.                                                      *)
(***************************************************************************)
EXTENDS ProblemStore, FiniteSetTheorems, SequenceTheorems, TLAPS

(* TypeOK, but for where the holder of the lock is.                         *)
Types ==
  /\ impl \in {"rust", "ts"}
  /\ there \in BOOLEAN /\ deleted \in BOOLEAN
  /\ field \in [Fields -> Requests \cup {Nobody}]
  /\ store \subseteq Rows
  /\ lock \in Requests \cup {Nobody}
  /\ kind \in [Requests -> Kinds \cup {"none"}]
  /\ sets \in [Requests -> SUBSET Fields]
  /\ wanted \in [Requests -> Lists \cup {Cases}]
  /\ at \in [Requests -> Statements \cup {"idle", "over"}]
  /\ seen \in [Requests -> SUBSET Rows]
  /\ limit \in [Requests -> Requests \cup {Nobody}]
  /\ gone \in [Requests -> SUBSET Rows]
  /\ mine \in [Requests -> SUBSET Rows]
  /\ answer \in [Requests -> {"none", "ok", "refused", "error"}]
  /\ hit \in [Requests -> BOOLEAN]
  /\ took \in [Requests -> BOOLEAN]
  /\ before \in [Requests -> SUBSET Requests]

RowsOf(r) == {RowOf(r, i) : i \in DOMAIN wanted[r]}

(* Case rows come by the upload. *)
Whole(S) == \A x \in S : x.item \in CaseIds => \A n \in CaseIds : [by |-> x.by, item |-> n] \in S

(* Who was over before another came is over.                               *)
BeforeIsOver ==
  \A r \in Requests : \A q \in before[r] : at[q] = "over" /\ q # r

(* Each kind of request has its statements and its lists.                  *)
StageFits(r) ==
  /\ at[r] = "idle" <=> kind[r] = "none"
  /\ answer[r] = "none" <=> at[r] # "over"
  /\ kind[r] = "create" => at[r] \in {"new", "insert", "commit", "over"}
  /\ kind[r] = "create" /\ impl = "ts" => at[r] # "commit"
  /\ kind[r] = "update" => at[r] \in {"find", "write", "commit", "over"}
  /\ kind[r] = "retag" => at[r] \in {"find", "scan", "delete", "insert", "write", "commit", "over"}
  /\ kind[r] = "delete" => at[r] \in {"find", "write", "over"}
  /\ kind[r] = "upload" =>
       at[r] \in {"find", "find again", "scan", "delete", "insert", "commit", "over"}
  /\ kind[r] = "submit" => at[r] \in {"find", "read", "store", "over"}
  /\ kind[r] \in {"create", "retag"} => wanted[r] \in Lists
  /\ kind[r] = "upload" => wanted[r] = Cases

(* Who holds the row of the problem is where it does.                      *)
Locks(r) ==
  \/ kind[r] \in {"update", "retag"} /\ at[r] = "commit"
  \/ kind[r] = "retag" /\ impl = "ts" /\ at[r] \in {"scan", "delete", "insert"}

LockFits(r) == lock = r <=> Locks(r)

(* What changed something is over, or it is a TypeScript creation that     *)
(* still inserts its tags.                                                 *)
TookFits(r) ==
  /\ took[r] => at[r] = "over" \/ (kind[r] = "create" /\ impl = "ts" /\ at[r] = "insert")
  /\ kind[r] = "create" /\ impl = "ts" /\ at[r] = "insert" => took[r]
  /\ Ok(r) => took[r]
  /\ took[r] /\ answer[r] \in {"error", "refused"} => hit[r] \/ Autocommit(r)

(* The rows a transaction has inserted are the first of those it brings.   *)
Holding == {"insert", "write", "commit"}

Counted(r) ==
  /\ IsFiniteSet(mine[r])
  /\ mine[r] = {RowOf(r, i) : i \in 1 .. Cardinality(mine[r])}
  /\ Cardinality(mine[r]) <= Len(wanted[r])

MineFits(r) ==
  /\ at[r] \notin Holding \/ kind[r] \notin Replacing \/ Autocommit(r) => mine[r] = {}
  /\ impl = "ts" /\ at[r] # "commit" => mine[r] = {}
  /\ impl = "rust" => Counted(r)
  /\ impl = "rust" /\ at[r] = "insert" => Cardinality(mine[r]) < Len(wanted[r])
  /\ at[r] = "commit" /\ kind[r] \in Replacing => mine[r] = RowsOf(r)
  /\ at[r] = "write" /\ kind[r] = "retag" /\ impl = "rust" => mine[r] = RowsOf(r)

Own(r) == StageFits(r) /\ LockFits(r) /\ TookFits(r) /\ MineFits(r)

(* What it has deleted is still stored, for all others.                    *)
GoneFits ==
  \A r \in Requests :
    /\ at[r] \notin Holding \cup {"delete"} \/ kind[r] \notin {"retag", "upload"} => gone[r] = {}
    /\ at[r] = "write" /\ impl = "ts" => gone[r] = {}
    /\ gone[r] \subseteq store /\ (at[r] \in Holding => Whole(gone[r]))
    /\ \A x \in gone[r] : x.item \in Table(r)
    /\ \A q \in Requests \ {r} : gone[q] \cap gone[r] = {}

(* Every row is one that its request brought, and every column was written *)
(* by a request that took effect.                                          *)
StoreFits ==
  /\ \A x \in store : x.by # Nobody =>
       /\ kind[x.by] \in Replacing /\ took[x.by]
       /\ kind[x.by] = "create" /\ impl = "ts" => at[x.by] = "over"
       /\ x.item \in Table(x.by)
       /\ x \in RowsOf(x.by)
  /\ Whole(store)
  /\ \A f \in Fields : field[f] # Nobody => took[field[f]]
  /\ \A r \in Requests : \A x \in seen[r] : x.by # Nobody => took[x.by]

(* The creation is the first that happens to the problem.                  *)
ThereFits ==
  /\ \A r, q \in Requests : kind[r] = "create" /\ kind[q] = "create" => q = r
  /\ \A r \in Requests : kind[r] = "create" /\ ~took[r] => ~there
  /\ \A r \in Requests : kind[r] = "create" => \A x \in store : x.by \notin Past(r)
  /\ ~there =>
       /\ store = {}
       /\ \A r \in Requests :
            ~took[r] /\ (kind[r] # "create" => at[r] \in {"idle", "find", "over"})

(* The rows that a replacement has to find.                                *)
Old(r, x) ==
  /\ x.item \in Table(r)
  /\ \/ x.by \in Past(r)
     \/ impl = "rust" /\ kind[x.by] = "create"
     \/ impl = "ts" /\ kind[r] = "retag" /\ kind[x.by] = "retag"

Cleared(r) == 
  /\ kind[r] \in {"retag", "upload"}
  /\ at[r] \in Holding /\ (at[r] = "write" => impl = "rust")

(* What a DELETE has got and can still get.                                *)
Reach(r) == (seen[r] \cap store) \cup gone[r]

OldIsHeld ==
  \A r \in Requests :
    /\ at[r] = "delete" =>
         /\ \A x \in store : Old(r, x) => x \in seen[r] \cup gone[r]
         /\ Whole(Reach(r)) /\ \A x \in seen[r] : x.item \in Table(r)
    /\ Cleared(r) => \A x \in store : Old(r, x) => x \in gone[r]

(* What took effect stands.                                                *)
Done(r) == took[r] /\ at[r] = "over" /\ (Autocommit(r) => Ok(r))

Replaced(r) ==
  /\ \A x \in store : x.item \in Table(r) => x.by \notin Past(r)
  /\ \/ \A i \in DOMAIN wanted[r] : RowOf(r, i) \in store
     \/ \E q \in Requests \ {r} :
          took[q] /\ kind[q] \in Replacing /\ Table(q) = Table(r) /\ q \notin before[r]

TookStands ==
  \A r \in Requests :
    /\ took[r] => 
         /\ \A f \in Fields : Sets(r, f) => there /\ field[f] \notin Past(r)
         /\ kind[r] = "delete" => deleted
    /\ Done(r) /\ kind[r] \in Replacing => Replaced(r)

(* Uploads in the table ran at the same time, and the last of them has     *)
(* cases there.                                                            *)
CasesFit ==
  /\ \A x, y \in store :
       x.item \in CaseIds /\ y.item \in CaseIds => x.by \notin Past(y.by)
  /\ \A q \in Requests : took[q] /\ kind[q] = "upload" /\ CaseCount > 0 =>
       \E x \in store : x.item \in CaseIds

(* What a submission has read so far.                                      *)
LimitsRead(s) ==
  \A q \in before[s] : Ok(q) =>
    /\ Sets(q, Limit) => limit[s] \notin Past(q)
    /\ kind[q] = "delete" => impl = "ts"

CasesRead(s) ==
  /\ \A x \in seen[s] : \A n \in CaseIds : [by |-> x.by, item |-> n] \in seen[s]
  /\ \A x, y \in seen[s] : x.by \notin Past(y.by)
  /\ \A q \in before[s] : Ok(q) /\ kind[q] = "upload" =>
       (CaseCount > 0 => seen[s] # {}) /\ \A x \in seen[s] : x.by \notin Past(q)

SubmitFits ==
  \A s \in Requests : kind[s] = "submit" =>
    /\ at[s] \in {"read", "store"} \/ Ok(s) => LimitsRead(s)
    /\ at[s] = "store" \/ Ok(s) => CasesRead(s)

Shape == Types /\ BeforeIsOver /\ \A r \in Requests : Own(r)
Hands == GoneFits /\ StoreFits /\ ThereFits /\ OldIsHeld
IInv == Shape /\ Hands /\ TookStands /\ CasesFit /\ SubmitFits /\ ErrorsHaveCause

-----------------------------------------------------------------------------
(* Lists and lengths.                                                      *)

LEMMA ListFacts ==
  ASSUME NEW l \in Lists \cup {Cases}
  PROVE  /\ l \in Seq(Tags \cup CaseIds) /\ Len(l) \in Nat /\ DOMAIN l = 1 .. Len(l)
         /\ \A i \in DOMAIN l : l[i] \in Tags \cup CaseIds
         /\ l \in Lists => \A i \in DOMAIN l : l[i] \in Tags
<1>1. PICK n \in Nat : l \in [1 .. n -> Tags] \/ (n = CaseCount /\ l = [i \in 1 .. n |-> i])
  <2>1. CASE l \in Lists
    BY <2>1, StoreAssumption DEF Lists
  <2>2. CASE l = Cases
    BY <2>2, StoreAssumption DEF Cases, CaseIds
  <2> QED BY <2>1, <2>2
<1>2. l \in [1 .. n -> Tags \cup CaseIds]
  BY <1>1 DEF CaseIds
<1>3. l \in Seq(Tags \cup CaseIds)
  BY <1>2, SeqDef
<1>4. Len(l) \in Nat /\ DOMAIN l = 1 .. Len(l)
  BY <1>3, LenProperties
<1>5. ASSUME l \in Lists, NEW i \in DOMAIN l
      PROVE  l[i] \in Tags
  BY <1>5 DEF Lists
<1> QED BY <1>2, <1>3, <1>4, <1>5

LEMMA WantedFacts ==
  ASSUME Types, NEW r \in Requests
  PROVE  /\ Len(wanted[r]) \in Nat /\ DOMAIN wanted[r] = 1 .. Len(wanted[r])
         /\ \A i \in DOMAIN wanted[r] : wanted[r][i] \in Tags \cup CaseIds
         /\ \A i \in DOMAIN wanted[r] : RowOf(r, i) \in Rows
<1>1. wanted[r] \in Lists \cup {Cases}
  BY DEF Types
<1>2. /\ Len(wanted[r]) \in Nat /\ DOMAIN wanted[r] = 1 .. Len(wanted[r])
      /\ \A i \in DOMAIN wanted[r] : wanted[r][i] \in Tags \cup CaseIds
  BY <1>1, ListFacts
<1> QED BY <1>2 DEF RowOf, Rows

(* Tags and cases have different tables.                                   *)
LEMMA Tables ==
  /\ Tags \cap CaseIds = {}
  /\ \A r \in Requests : Table(r) = Tags \/ Table(r) = CaseIds
  BY StoreAssumption DEF CaseIds, Table

LEMMA PastFacts ==
  /\ Past(Nobody) = {} /\ Past(Nobody)' = {}
  /\ \A r \in Requests : Past(r) = before[r] \cup {Nobody} /\ Past(r)' = before'[r] \cup {Nobody}
  BY StoreAssumption DEF Past

-----------------------------------------------------------------------------
(* What a step of one request changes.                                     *)

Acts(r) == Send(r) \/ Step(r) \/ Victim(r) \/ Fails(r)

LEMMA GoToFacts ==
  ASSUME Types, NEW r \in Requests, NEW s \in Statements \cup {"over"}, GoTo(r, s)
  PROVE  /\ at' \in [Requests -> Statements \cup {"idle", "over"}]
         /\ answer' \in [Requests -> {"none", "ok", "refused", "error"}]
         /\ hit' \in [Requests -> BOOLEAN]
         /\ at'[r] = s
         /\ \A q \in Requests \ {r} : at'[q] = at[q] /\ answer'[q] = answer[q] /\ hit'[q] = hit[q]
         /\ s # "over" => answer' = answer /\ hit' = hit
         /\ s = "over" => \/ answer'[r] = "ok" /\ hit' = hit
                          \/ answer'[r] = "error" /\ hit'[r] = TRUE
<1>1. /\ at' \in [Requests -> Statements \cup {"idle", "over"}] /\ at'[r] = s
      /\ \A q \in Requests \ {r} : at'[q] = at[q]
  BY DEF GoTo, Types
<1>2. CASE s # "over" /\ UNCHANGED <<answer, hit>>
  BY <1>1, <1>2 DEF Types
<1>3. CASE s = "over" /\ answer' = [answer EXCEPT ![r] = "ok"] /\ hit' = hit
  BY <1>1, <1>3 DEF Types
<1>4. CASE s = "over" /\ answer' = [answer EXCEPT ![r] = "error"] /\ Fault(r)
  BY <1>1, <1>4 DEF Types, Fault
<1> QED BY <1>2, <1>3, <1>4 DEF GoTo

LEMMA NextStatements ==
  ASSUME NEW r \in Requests
  PROVE  /\ AfterFind(r) \in Statements
         /\ \A n : AfterRows(r, n) \in Statements \cup {"over"}
         /\ AfterWrite(r) \in Statements \cup {"over"}
  BY DEF AfterFind, AfterRows, AfterWrite, Statements

LEMMA GiveUpFacts ==
  ASSUME Types, NEW r \in Requests, NEW a \in {"refused", "error"}, GiveUp(r, a)
  PROVE  /\ at' \in [Requests -> Statements \cup {"idle", "over"}]
         /\ answer' \in [Requests -> {"none", "ok", "refused", "error"}]
         /\ seen' \in [Requests -> SUBSET Rows] /\ gone' \in [Requests -> SUBSET Rows]
         /\ mine' \in [Requests -> SUBSET Rows]
         /\ at'[r] = "over" /\ answer'[r] = a
         /\ seen'[r] = {} /\ gone'[r] = {} /\ mine'[r] = {}
         /\ \A q \in Requests \ {r} :
              /\ at'[q] = at[q] /\ answer'[q] = answer[q] /\ seen'[q] = seen[q]
              /\ gone'[q] = gone[q] /\ mine'[q] = mine[q]
         /\ lock' # r /\ \A q \in Requests \ {r} : lock' = q <=> lock = q
         /\ lock' \in {lock, Nobody}
         /\ there' = there /\ deleted' = deleted /\ field' = field /\ store' = store
         /\ limit' = limit /\ took' = took
<1>1. lock' # r /\ lock' \in {lock, Nobody} /\ \A q \in Requests \ {r} : lock' = q <=> lock = q
  BY StoreAssumption DEF GiveUp, Unlock
<1>2. /\ at' \in [Requests -> Statements \cup {"idle", "over"}] /\ at'[r] = "over"
      /\ answer' \in [Requests -> {"none", "ok", "refused", "error"}] /\ answer'[r] = a
      /\ \A q \in Requests \ {r} : at'[q] = at[q] /\ answer'[q] = answer[q]
  BY DEF GiveUp, Types
<1>3. /\ seen' \in [Requests -> SUBSET Rows] /\ seen'[r] = {}
      /\ \A q \in Requests \ {r} : seen'[q] = seen[q]
  BY DEF GiveUp, Types
<1>4. /\ gone' \in [Requests -> SUBSET Rows] /\ gone'[r] = {}
      /\ mine' \in [Requests -> SUBSET Rows] /\ mine'[r] = {}
      /\ \A q \in Requests \ {r} : gone'[q] = gone[q] /\ mine'[q] = mine[q]
  BY DEF GiveUp, Types
<1> QED BY <1>1, <1>2, <1>3, <1>4 DEF GiveUp, row

-----------------------------------------------------------------------------
(* The rows of a batch.                                                    *)

LEMMA BatchFacts ==
  ASSUME Types, NEW r \in Requests, MineFits(r), at[r] = "insert"
  PROVE  /\ impl = "rust" => Turn(r) \in DOMAIN wanted[r] /\ Batch(r) = {RowOf(r, Turn(r))}
         /\ impl = "ts" => Batch(r) = RowsOf(r)
         /\ Batch(r) \subseteq RowsOf(r) /\ Batch(r) \subseteq Rows
<1>1. /\ Len(wanted[r]) \in Nat /\ DOMAIN wanted[r] = 1 .. Len(wanted[r])
      /\ \A i \in DOMAIN wanted[r] : RowOf(r, i) \in Rows
  BY WantedFacts
<1>2. CASE impl = "rust"
  <2>1. Cardinality(mine[r]) \in Nat /\ Cardinality(mine[r]) < Len(wanted[r])
    BY <1>2, FS_CardinalityType DEF MineFits, Counted
  <2>2. Turn(r) \in DOMAIN wanted[r]
    BY <1>1, <2>1 DEF Turn
  <2>3. Batch(r) = {RowOf(r, Turn(r))}
    BY <1>2 DEF Batch
  <2> QED BY <1>1, <1>2, <2>2, <2>3 DEF RowsOf
<1>3. CASE impl = "ts"
  <2>1. Batch(r) = RowsOf(r)
    BY <1>3 DEF Batch, RowsOf
  <2> QED BY <1>1, <1>3, <2>1 DEF RowsOf
<1> QED BY <1>2, <1>3 DEF Types

(* Where a step goes.                                                      *)
LEMMA Goes ==
  ASSUME NEW r \in Requests
  PROVE  /\ Find(r) => GoTo(r, AfterFind(r)) /\ AfterFind(r) \in Statements
         /\ New(r) => GoTo(r, AfterRows(r, 0)) /\ AfterRows(r, 0) \in Statements \cup {"over"}
         /\ Scan(r) => \E s \in Statements : GoTo(r, s)
         /\ Insert(r) => \E s \in Statements \cup {"over"} : GoTo(r, s)
         /\ Write(r) => GoTo(r, AfterWrite(r)) /\ AfterWrite(r) \in Statements \cup {"over"}
         /\ Commit(r) => GoTo(r, "over")
         /\ StoreSubmission(r) => GoTo(r, "over")
<1>1. Scan(r) => \E s \in Statements : GoTo(r, s)
  BY DEF Scan, Statements
<1>2. ASSUME Insert(r)
      PROVE  \E s \in Statements \cup {"over"} : GoTo(r, s)
  <2>1. PICK n : GoTo(r, AfterRows(r, n))
    BY <1>2 DEF Insert, Inserted
  <2> QED BY <2>1, NextStatements
<1>3. Find(r) => GoTo(r, AfterFind(r))
  BY DEF Find
<1>4. New(r) => GoTo(r, AfterRows(r, 0))
  BY DEF New
<1>5. Write(r) => GoTo(r, AfterWrite(r))
  BY DEF Write
<1>6. (Commit(r) => GoTo(r, "over")) /\ (StoreSubmission(r) => GoTo(r, "over"))
  BY DEF Commit, Committed, StoreSubmission
<1> QED BY <1>1, <1>2, <1>3, <1>4, <1>5, <1>6, NextStatements

(* Giving up keeps the types. *)
LEMMA GiveUpTypes ==
  ASSUME Types, NEW r \in Requests, NEW a \in {"refused", "error"}, GiveUp(r, a),
         hit' \in [Requests -> BOOLEAN], UNCHANGED <<impl, request>>
  PROVE  Types'
<1>1. /\ at' \in [Requests -> Statements \cup {"idle", "over"}]
      /\ answer' \in [Requests -> {"none", "ok", "refused", "error"}]
      /\ seen' \in [Requests -> SUBSET Rows] /\ gone' \in [Requests -> SUBSET Rows]
      /\ mine' \in [Requests -> SUBSET Rows]
  BY GiveUpFacts
<1>2. /\ there' = there /\ deleted' = deleted /\ field' = field /\ store' = store
      /\ limit' = limit /\ took' = took /\ lock' \in Requests \cup {Nobody}
  BY GiveUpFacts DEF Types
<1>3. kind' = kind /\ sets' = sets /\ wanted' = wanted /\ before' = before /\ impl' = impl
  BY DEF request
<1> QED BY <1>1, <1>2, <1>3 DEF Types

(* What an update brings.                                                  *)
LEMMA UpdateFacts ==
  ASSUME Types, NEW r \in Requests, SendUpdate(r)
  PROVE  /\ Arrive(r, "update") \/ (Arrive(r, "retag") /\ wanted'[r] \in Lists)
         /\ wanted' \in [Requests -> Lists \cup {Cases}] /\ sets' \in [Requests -> SUBSET Fields]
         /\ \A q \in Requests \ {r} : wanted'[q] = wanted[q] /\ sets'[q] = sets[q]
<1>1. CASE Arrive(r, "update") /\ UNCHANGED wanted
           /\ \E S \in {{}} \cup {{f} : f \in Fields} : sets' = [sets EXCEPT ![r] = S]
  <2>1. PICK S \in SUBSET Fields : sets' = [sets EXCEPT ![r] = S]
    BY <1>1
  <2> QED BY <1>1, <2>1 DEF Types
<1>2. CASE \E patch \in Patches :
             /\ Arrive(r, "retag")
             /\ sets' = [sets EXCEPT ![r] = patch.sets]
             /\ wanted' = [wanted EXCEPT ![r] = patch.tags]
  <2>1. PICK patch \in Patches :
          /\ Arrive(r, "retag")
          /\ sets' = [sets EXCEPT ![r] = patch.sets]
          /\ wanted' = [wanted EXCEPT ![r] = patch.tags]
    BY <1>2
  <2>2. patch.sets \in SUBSET Fields /\ patch.tags \in Lists
    BY StoreAssumption DEF Lists
  <2> QED BY <2>1, <2>2 DEF Types
<1> QED BY <1>1, <1>2 DEF SendUpdate

(* Every action keeps the types.                                           *)
LEMMA NextTypes ==
  ASSUME Types, NEW r \in Requests, MineFits(r), Acts(r)
  PROVE  Types'
<1>1. ASSUME NEW k \in Kinds, Arrive(r, k),
             wanted' \in [Requests -> Lists \cup {Cases}], sets' \in [Requests -> SUBSET Fields]
      PROVE  Types'
  BY <1>1 DEF Arrive, Types, Statements, row
<1>2. CASE Send(r)
  <2>1. wanted' \in [Requests -> Lists \cup {Cases}] /\ sets' \in [Requests -> SUBSET Fields]
    <3>1. CASE SendUpdate(r)
      BY <3>1, UpdateFacts
    <3>2. CASE SendCreate(r) \/ SendUpload(r) \/ SendOther(r)
      BY <3>2 DEF SendCreate, SendUpload, SendOther, Types
    <3> QED BY <1>2, <3>1, <3>2 DEF Send
  <2> QED BY <1>1, <1>2, <2>1 DEF Send, SendCreate, SendUpdate, SendUpload, SendOther, Kinds
<1>3. CASE Find(r)
  <2>1. limit' \in [Requests -> Requests \cup {Nobody}]
    BY <1>3, StoreAssumption DEF Find, Types
  <2> QED BY <1>3, <2>1, GoToFacts, NextStatements DEF Find, Types, row, request
<1>4. CASE Refuse(r) \/ InsertTaken(r) \/ NothingToSet(r) \/ Victim(r)
  <2>1. PICK a \in {"refused", "error"} : GiveUp(r, a)
    BY <1>4 DEF Refuse, InsertTaken, NothingToSet, Victim
  <2>2. UNCHANGED <<impl, request, hit>> /\ hit \in [Requests -> BOOLEAN]
    BY <1>4 DEF Refuse, InsertTaken, NothingToSet, Victim, Types
  <2> QED BY <2>1, <2>2, GiveUpTypes
<1>5. CASE Fails(r)
  <2>1. hit' \in [Requests -> BOOLEAN]
    BY <1>5 DEF Fails, Fault, Types
  <2> QED BY <1>5, <2>1, GiveUpTypes DEF Fails
<1>6. CASE New(r)
  <2>1. there' \in BOOLEAN /\ field' \in [Fields -> Requests \cup {Nobody}]
        /\ took' \in [Requests -> BOOLEAN]
    <3>1. CASE Autocommit(r)
      <4>1. there' = TRUE /\ field' = [f \in Fields |-> r] /\ took' = [took EXCEPT ![r] = TRUE]
        BY <1>6, <3>1 DEF New
      <4>2. took \in [Requests -> BOOLEAN]
        BY DEF Types
      <4> QED BY <4>1, <4>2
    <3>2. CASE ~Autocommit(r)
      <4>1. UNCHANGED <<there, field, took>>
        BY <1>6, <3>2 DEF New
      <4> QED BY <4>1 DEF Types
    <3> QED BY <3>1, <3>2
  <2> QED BY <1>6, <2>1, GoToFacts, NextStatements DEF New, Types, request
<1>7. CASE Scan(r)
  <2>1. PICK s \in Statements : GoTo(r, s)
    BY <1>7 DEF Scan, Statements
  <2>2. seen' \in [Requests -> SUBSET Rows]
    BY <1>7 DEF Scan, Types
  <2> QED BY <1>7, <2>1, <2>2, GoToFacts DEF Scan, Types, row, request
<1>8. CASE Delete(r)
  <2>1. PICK X \in SUBSET seen[r] :
           /\ seen' = [seen EXCEPT ![r] = @ \ X]
           /\ gone' = [gone EXCEPT ![r] = @ \cup (X \cap store)]
    BY <1>8 DEF Delete
  <2>2. gone' \in [Requests -> SUBSET Rows] /\ seen' \in [Requests -> SUBSET Rows]
    BY <2>1 DEF Types
  <2>3. /\ at' \in [Requests -> Statements \cup {"idle", "over"}]
        /\ answer' \in [Requests -> {"none", "ok", "refused", "error"}]
        /\ hit' \in [Requests -> BOOLEAN]
    BY <1>8, GoToFacts, NextStatements DEF Delete, Types
  <2> QED BY <1>8, <2>2, <2>3 DEF Delete, Types, row, request
<1>9. CASE Insert(r)
  <2>1. PICK n : GoTo(r, AfterRows(r, n))
    BY <1>9 DEF Insert, Inserted
  <2>2. Batch(r) \subseteq Rows
    BY <1>9, BatchFacts DEF Insert, Inserted
  <2>3. store' \subseteq Rows /\ mine' \in [Requests -> SUBSET Rows]
    BY <1>9, <2>2 DEF Insert, Types
  <2> QED BY <1>9, <2>1, <2>3, GoToFacts, NextStatements DEF Insert, Inserted, Types, row, request
<1>10. CASE Write(r)
  <2>1. /\ deleted' \in BOOLEAN /\ lock' \in Requests \cup {Nobody}
        /\ took' \in [Requests -> BOOLEAN]
    BY <1>10 DEF Write, Types
  <2> QED BY <1>10, <2>1, GoToFacts, NextStatements DEF Write, Types, request
<1>11. CASE Commit(r)
  <2>1. field' \in [Fields -> Requests \cup {Nobody}]
    <3>1. \A f \in Fields : field[f] \in Requests \cup {Nobody}
      BY DEF Types
    <3> QED BY <1>11, <3>1 DEF Commit, Committed
  <2>2. there' \in BOOLEAN /\ lock' \in Requests \cup {Nobody}
    BY <1>11 DEF Commit, Committed, Unlock, Types
  <2>3. /\ store' \subseteq Rows /\ gone' \in [Requests -> SUBSET Rows]
        /\ mine' \in [Requests -> SUBSET Rows] /\ took' \in [Requests -> BOOLEAN]
    BY <1>11 DEF Commit, Committed, Types
  <2> QED BY <1>11, <2>1, <2>2, <2>3, GoToFacts DEF Commit, Committed, Types, request
<1>12. CASE StoreSubmission(r)
  <2>1. took' \in [Requests -> BOOLEAN]
    BY <1>12 DEF StoreSubmission, Types
  <2> QED BY <1>12, <2>1, GoToFacts DEF StoreSubmission, Types, row, request
<1> QED BY <1>2, <1>3, <1>4, <1>5, <1>6, <1>7, <1>8, <1>9, <1>10, <1>11, <1>12 DEF Acts, Step

(* A request changes nothing of another.                                   *)
SameAt(q) ==
  /\ kind'[q] = kind[q] /\ sets'[q] = sets[q] /\ wanted'[q] = wanted[q] /\ before'[q] = before[q]
  /\ at'[q] = at[q] /\ seen'[q] = seen[q] /\ limit'[q] = limit[q] /\ gone'[q] = gone[q]
  /\ mine'[q] = mine[q] /\ answer'[q] = answer[q] /\ hit'[q] = hit[q] /\ took'[q] = took[q]

LEMMA Others ==
  ASSUME Types, NEW r \in Requests, Acts(r)
  PROVE  impl' = impl /\ \A q \in Requests \ {r} : SameAt(q)
<1>1. ASSUME NEW k \in Kinds, Arrive(r, k)
      PROVE  \A q \in Requests \ {r} :
               /\ kind'[q] = kind[q] /\ before'[q] = before[q]
               /\ at'[q] = at[q] /\ seen'[q] = seen[q] /\ limit'[q] = limit[q] /\ gone'[q] = gone[q]
               /\ mine'[q] = mine[q] /\ answer'[q] = answer[q] /\ hit'[q] = hit[q] /\ took'[q] = took[q]
  BY <1>1 DEF Arrive, Types
<1>2. CASE Send(r)
  <2>1. \A q \in Requests \ {r} : wanted'[q] = wanted[q] /\ sets'[q] = sets[q]
    <3>1. CASE SendUpdate(r)
      BY <3>1, UpdateFacts
    <3>2. CASE SendCreate(r) \/ SendUpload(r) \/ SendOther(r)
      BY <3>2 DEF SendCreate, SendUpload, SendOther, Types
    <3> QED BY <1>2, <3>1, <3>2 DEF Send
  <2>2. \E k \in Kinds : Arrive(r, k)
    BY <1>2 DEF Send, SendCreate, SendUpdate, SendUpload, SendOther, Kinds
  <2> QED BY <1>1, <2>1, <2>2 DEF SameAt, Arrive
<1>3. ASSUME NEW s \in Statements \cup {"over"}, GoTo(r, s), UNCHANGED <<impl, request>>,
             \A q \in Requests \ {r} :
               /\ seen'[q] = seen[q] /\ limit'[q] = limit[q] /\ gone'[q] = gone[q]
               /\ mine'[q] = mine[q] /\ took'[q] = took[q]
      PROVE  impl' = impl /\ \A q \in Requests \ {r} : SameAt(q)
  <2>1. \A q \in Requests \ {r} : at'[q] = at[q] /\ answer'[q] = answer[q] /\ hit'[q] = hit[q]
    BY <1>3, GoToFacts
  <2> QED BY <1>3, <2>1 DEF request, SameAt
<1>4. CASE Refuse(r) \/ InsertTaken(r) \/ NothingToSet(r) \/ Victim(r)
  <2>1. PICK a \in {"refused", "error"} : GiveUp(r, a)
    BY <1>4 DEF Refuse, InsertTaken, NothingToSet, Victim
  <2>2. UNCHANGED <<impl, request, hit>>
    BY <1>4 DEF Refuse, InsertTaken, NothingToSet, Victim
  <2> QED BY <2>1, <2>2, GiveUpFacts DEF request, SameAt
<1>5. CASE Fails(r)
  <2>1. \A q \in Requests \ {r} : hit'[q] = hit[q]
    BY <1>5 DEF Fails, Fault, Types
  <2>2. GiveUp(r, "error") /\ UNCHANGED <<impl, request>>
    BY <1>5 DEF Fails
  <2> QED BY <2>1, <2>2, GiveUpFacts DEF request, SameAt
<1>6. CASE Find(r) \/ New(r) \/ Scan(r) \/ Insert(r) \/ Write(r) \/ Commit(r)
           \/ StoreSubmission(r)
  <2>1. PICK s \in Statements \cup {"over"} : GoTo(r, s)
    BY <1>6, Goes
  <2>2. UNCHANGED <<impl, request>>
    BY <1>6 DEF Find, New, Scan, Insert, Inserted, Write, Commit, Committed, StoreSubmission
  <2>3. \A q \in Requests \ {r} :
               /\ seen'[q] = seen[q] /\ limit'[q] = limit[q] /\ gone'[q] = gone[q]
               /\ mine'[q] = mine[q] /\ took'[q] = took[q]
    BY <1>6 DEF Find, New, Scan, Insert, Inserted, Write, Commit, Committed, StoreSubmission, Types
  <2> QED BY <1>3, <2>1, <2>2, <2>3
<1>7. CASE Delete(r)
  <2>1. \A q \in Requests \ {r} : at'[q] = at[q] /\ answer'[q] = answer[q] /\ hit'[q] = hit[q]
    BY <1>7, GoToFacts, NextStatements DEF Delete
  <2>2. \A q \in Requests \ {r} : seen'[q] = seen[q] /\ gone'[q] = gone[q]
    BY <1>7 DEF Delete, Types
  <2> QED BY <1>7, <2>1, <2>2 DEF Delete, request, SameAt
<1> QED BY <1>2, <1>4, <1>5, <1>6, <1>7 DEF Acts, Step

-----------------------------------------------------------------------------
(* What a step does to the request that takes it.                          *)

Stored == <<row, store, lock>>

LEMMA SendFacts ==
  ASSUME Types, NEW r \in Requests, Send(r)
  PROVE  /\ at[r] = "idle" /\ kind'[r] \in Kinds
         /\ kind'[r] = "create" => at'[r] = "new" /\ ~there /\ \A q \in Requests : kind[q] # "create"
         /\ kind'[r] # "create" => at'[r] = "find"
         /\ kind'[r] \in {"create", "retag"} => wanted'[r] \in Lists
         /\ kind'[r] = "upload" => wanted'[r] = Cases
         /\ before'[r] = {q \in Requests : at[q] = "over"}
         /\ UNCHANGED <<Stored, seen, limit, gone, mine, answer, hit, took>>
<1>1. ASSUME NEW k \in Kinds, Arrive(r, k)
      PROVE  /\ at[r] = "idle" /\ kind'[r] = k
             /\ at'[r] = IF k = "create" THEN "new" ELSE "find"
             /\ before'[r] = {q \in Requests : at[q] = "over"}
             /\ UNCHANGED <<Stored, seen, limit, gone, mine, answer, hit, took>>
  BY <1>1 DEF Arrive, Types, Stored
<1>2. CASE SendCreate(r)
  <2>1. Arrive(r, "create") /\ "create" \in Kinds
    BY <1>2 DEF SendCreate, Kinds
  <2>2. wanted'[r] \in Lists
    BY <1>2 DEF SendCreate, Types
  <2>3. ~there /\ \A q \in Requests : kind[q] # "create"
    BY <1>2 DEF SendCreate
  <2> QED BY <1>1, <2>1, <2>2, <2>3
<1>3. CASE SendUpdate(r)
  <2>1. Arrive(r, "update") \/ (Arrive(r, "retag") /\ wanted'[r] \in Lists)
    BY <1>3, UpdateFacts
  <2> QED BY <1>1, <2>1 DEF Kinds
<1>4. CASE SendUpload(r)
  <2>1. Arrive(r, "upload") /\ wanted'[r] = Cases
    BY <1>4 DEF SendUpload, Types
  <2> QED BY <1>1, <2>1 DEF Kinds
<1>5. CASE SendOther(r)
  BY <1>1, <1>5 DEF SendOther, Kinds
<1> QED BY <1>2, <1>3, <1>4, <1>5 DEF Send

LEMMA FindFacts ==
  ASSUME Types, NEW r \in Requests, Find(r)
  PROVE  /\ at[r] \in {"find", "find again"} /\ there
         /\ ~deleted \/ (kind[r] = "submit" /\ impl = "ts")
         /\ kind[r] = "submit" => at'[r] = "read" /\ limit'[r] = field[Limit]
         /\ kind[r] \in {"update", "delete"} => at'[r] = "write"
         /\ kind[r] = "retag" /\ impl = "ts" => at'[r] = "write"
         /\ kind[r] = "retag" /\ impl = "rust" => at'[r] = "scan"
         /\ kind[r] = "upload" => at'[r] \in {"find again", "scan"}
         /\ at'[r] \in Statements
         /\ UNCHANGED <<Stored, request, seen, gone, mine, answer, hit, took>>
<1>1. GoTo(r, AfterFind(r)) /\ AfterFind(r) \in Statements
  BY Goes
<1>2. at'[r] = AfterFind(r) /\ answer' = answer /\ hit' = hit
  BY <1>1, GoToFacts DEF Statements
<1>3. kind[r] = "submit" => limit'[r] = field[Limit]
  BY DEF Find, Types
<1> QED BY <1>1, <1>2, <1>3 DEF Find, Found, AfterFind, RowFirst, Stored

LEMMA ScanFacts ==
  ASSUME Types, NEW r \in Requests, Scan(r)
  PROVE  /\ \/ at[r] = "scan" /\ at'[r] = "delete"
            \/ at[r] = "read" /\ at'[r] = "store"
         /\ seen'[r] = {x \in store : x.item \in Tags <=> kind[r] = "retag"}
         /\ UNCHANGED <<Stored, request, limit, gone, mine, answer, hit, took>>
<1>1. seen'[r] = {x \in store : x.item \in Tags <=> kind[r] = "retag"}
  <2> DEFINE found == {x \in store : x.item \in Tags <=> kind[r] = "retag"}
  <2>1. seen' = [seen EXCEPT ![r] = found]
    BY DEF Scan
  <2> HIDE DEF found
  <2> QED BY <2>1 DEF Types, found
<1>2. UNCHANGED <<Stored, request, limit, gone, mine, took>>
  BY DEF Scan, Stored
<1>3. CASE at[r] = "scan" /\ GoTo(r, "delete")
  BY <1>1, <1>2, <1>3, GoToFacts DEF Statements
<1>4. CASE at[r] = "read" /\ GoTo(r, "store")
  BY <1>1, <1>2, <1>4, GoToFacts DEF Statements
<1> QED BY <1>3, <1>4 DEF Scan

(* What comes after a statement that changes rows. *)
LEMMA AfterRowsFacts ==
  ASSUME NEW r \in Requests, NEW n
  PROVE  /\ n < Len(wanted[r]) => AfterRows(r, n) = "insert"
         /\ ~(n < Len(wanted[r])) /\ Autocommit(r) => AfterRows(r, n) = "over"
         /\ ~(n < Len(wanted[r])) /\ ~Autocommit(r) /\ kind[r] = "retag" /\ impl = "rust" =>
              AfterRows(r, n) = "write"
         /\ ~(n < Len(wanted[r])) /\ ~Autocommit(r) /\ ~(kind[r] = "retag" /\ impl = "rust") =>
              AfterRows(r, n) = "commit"
  BY DEF AfterRows

LEMMA DeleteFacts ==
  ASSUME Types, NEW r \in Requests, Delete(r)
  PROVE  /\ at[r] = "delete"
         /\ \E X \in SUBSET seen[r] :
              /\ \A q \in Requests \ {r} : X \cap gone[q] = {}
              /\ seen'[r] = seen[r] \ X
              /\ gone'[r] = gone[r] \cup (X \cap store)
         /\ UNCHANGED <<Stored, request, limit, mine, took>>
         /\ at'[r] = "delete" => at' = at /\ answer' = answer /\ hit' = hit
         /\ at'[r] # "delete" => seen'[r] = {} /\ at'[r] = AfterRows(r, 0)
         /\ ~Autocommit(r) => answer' = answer /\ hit' = hit
<1>1. PICK X \in SUBSET seen[r] :
        /\ \A q \in Requests \ {r} : X \cap gone[q] = {}
        /\ seen' = [seen EXCEPT ![r] = @ \ X]
        /\ gone' = [gone EXCEPT ![r] = @ \cup (X \cap store)]
        /\ IF seen[r] \subseteq X THEN GoTo(r, AfterRows(r, 0)) ELSE UNCHANGED <<at, answer, hit>>
  <2> DEFINE choices == IF seen[r] = {} THEN {{}} ELSE {{x} : x \in seen[r]}
  <2>1. choices \subseteq SUBSET seen[r]
    OBVIOUS
  <2>2. PICK Y \in choices :
          /\ \A q \in Requests \ {r} : Y \cap gone[q] = {}
          /\ seen' = [seen EXCEPT ![r] = @ \ Y]
          /\ gone' = [gone EXCEPT ![r] = @ \cup (Y \cap store)]
          /\ IF seen[r] \subseteq Y THEN GoTo(r, AfterRows(r, 0)) ELSE UNCHANGED <<at, answer, hit>>
    BY DEF Delete
  <2> HIDE DEF choices
  <2> QED BY <2>1, <2>2
<1>2. seen'[r] = seen[r] \ X /\ gone'[r] = gone[r] \cup (X \cap store)
  BY <1>1 DEF Types
<1>3. AfterRows(r, 0) \in Statements \cup {"over"} /\ AfterRows(r, 0) # "delete"
  BY NextStatements DEF AfterRows
<1>4. ~Autocommit(r) => AfterRows(r, 0) # "over"
  BY AfterRowsFacts
<1>5. at[r] = "delete" /\ UNCHANGED <<Stored, request, limit, mine, took>>
  BY DEF Delete, Stored
<1>6. CASE seen[r] \subseteq X
  <2>1. GoTo(r, AfterRows(r, 0)) /\ seen'[r] = {}
    BY <1>1, <1>2, <1>6
  <2>2. at'[r] = AfterRows(r, 0) /\ (~Autocommit(r) => answer' = answer /\ hit' = hit)
    BY <1>3, <1>4, <2>1, GoToFacts
  <2> QED BY <1>1, <1>2, <1>3, <1>5, <2>1, <2>2
<1>7. CASE ~(seen[r] \subseteq X)
  <2>1. UNCHANGED <<at, answer, hit>>
    BY <1>1, <1>7
  <2> QED BY <1>1, <1>2, <1>5, <2>1
<1> QED BY <1>6, <1>7

(* The end of a request that was not cut short.                            *)
Ends(r) ==
  /\ at'[r] = "over"
  /\ \/ answer'[r] = "ok" /\ hit' = hit
     \/ answer'[r] = "error" /\ hit'[r] = TRUE

LEMMA NewFacts ==
  ASSUME Types, NEW r \in Requests, New(r)
  PROVE  /\ at[r] = "new"
         /\ at'[r] = AfterRows(r, 0)
         /\ at'[r] # "over" => answer' = answer /\ hit' = hit
         /\ at'[r] = "over" => Ends(r)
         /\ Autocommit(r) =>
              there' = TRUE /\ field' = [f \in Fields |-> r] /\ took'[r] = TRUE
         /\ ~Autocommit(r) => there' = there /\ field' = field /\ took' = took
         /\ UNCHANGED <<deleted, store, lock, request, seen, limit, gone, mine>>
<1>1. GoTo(r, AfterRows(r, 0)) /\ AfterRows(r, 0) \in Statements \cup {"over"}
  BY Goes
<1>2. /\ at'[r] = AfterRows(r, 0)
      /\ at'[r] # "over" => answer' = answer /\ hit' = hit
      /\ at'[r] = "over" => Ends(r)
  BY <1>1, GoToFacts DEF Ends
<1>3. Autocommit(r) => there' = TRUE /\ field' = [f \in Fields |-> r] /\ took'[r] = TRUE
  BY DEF New, Types
<1> QED BY <1>2, <1>3 DEF New

LEMMA InsertFacts ==
  ASSUME Types, NEW r \in Requests, Insert(r)
  PROVE  /\ at[r] = "insert" /\ Blockers(r) = {} /\ ~Taken(r)
         /\ at'[r] = AfterRows(r, IF impl = "rust" THEN Turn(r) ELSE Len(wanted[r]))
         /\ at'[r] # "over" => answer' = answer /\ hit' = hit
         /\ at'[r] = "over" => Ends(r)
         /\ Autocommit(r) => store' = store \cup Batch(r) /\ mine' = mine
         /\ ~Autocommit(r) => store' = store /\ mine'[r] = mine[r] \cup Batch(r)
         /\ UNCHANGED <<row, lock, request, seen, limit, gone, took>>
<1> DEFINE n == IF impl = "rust" THEN Turn(r) ELSE Len(wanted[r])
<1>1. GoTo(r, AfterRows(r, n)) /\ AfterRows(r, n) \in Statements \cup {"over"}
  BY NextStatements DEF Insert, Inserted
<1>2. /\ at'[r] = AfterRows(r, n)
      /\ at'[r] # "over" => answer' = answer /\ hit' = hit
      /\ at'[r] = "over" => Ends(r)
  BY <1>1, GoToFacts DEF Ends
<1>3. ~Autocommit(r) => store' = store /\ mine'[r] = mine[r] \cup Batch(r)
  BY DEF Insert, Types
<1> QED BY <1>2, <1>3 DEF Insert, Inserted

LEMMA WriteFacts ==
  ASSUME Types, NEW r \in Requests, Write(r)
  PROVE  /\ at[r] = "write" /\ ~SetsNothing(r) /\ Blockers(r) = {}
         /\ Autocommit(r) => Ends(r) /\ deleted' = TRUE /\ took'[r] = TRUE /\ lock' = lock
         /\ ~Autocommit(r) =>
              /\ at'[r] = IF kind[r] = "retag" /\ impl = "ts" THEN "scan" ELSE "commit"
              /\ answer' = answer /\ hit' = hit
              /\ deleted' = deleted /\ took' = took /\ lock' = r
         /\ UNCHANGED <<there, field, store, request, seen, limit, gone, mine>>
<1>1. GoTo(r, AfterWrite(r)) /\ AfterWrite(r) \in Statements \cup {"over"}
  BY Goes
<1>2. Autocommit(r) => AfterWrite(r) = "over"
  BY DEF AfterWrite
<1>3. ~Autocommit(r) =>
        /\ AfterWrite(r) = IF kind[r] = "retag" /\ impl = "ts" THEN "scan" ELSE "commit"
        /\ AfterWrite(r) # "over"
  BY DEF AfterWrite
<1>4. Autocommit(r) => deleted' = TRUE /\ took'[r] = TRUE /\ lock' = lock
  BY DEF Write, Types
<1> QED BY <1>1, <1>2, <1>3, <1>4, GoToFacts DEF Write, Ends

LEMMA CommitFacts ==
  ASSUME Types, NEW r \in Requests, Commit(r)
  PROVE  /\ at[r] = "commit" /\ Ends(r)
         /\ store' = (store \ gone[r]) \cup mine[r]
         /\ there' = (there \/ kind[r] = "create")
         /\ \A f \in Fields : field'[f] =
              IF kind[r] = "create" \/ (lock = r /\ f \in sets[r]) THEN r ELSE field[f]
         /\ gone'[r] = {} /\ mine'[r] = {} /\ took'[r] = TRUE
         /\ lock' # r /\ \A q \in Requests \ {r} : lock' = q <=> lock = q
         /\ UNCHANGED <<deleted, request, seen, limit>>
<1>1. Ends(r)
  <2>1. GoTo(r, "over")
    BY Goes
  <2> QED BY <2>1, GoToFacts DEF Ends
<1>2. lock' # r /\ \A q \in Requests \ {r} : lock' = q <=> lock = q
  BY StoreAssumption DEF Commit, Unlock
<1> QED BY <1>1, <1>2 DEF Commit, Committed, Types

LEMMA StoreFacts ==
  ASSUME Types, NEW r \in Requests, StoreSubmission(r)
  PROVE  /\ at[r] = "store" /\ Ends(r) /\ took'[r] = TRUE
         /\ UNCHANGED <<Stored, request, seen, limit, gone, mine>>
<1>1. Ends(r)
  <2>1. GoTo(r, "over")
    BY Goes
  <2> QED BY <2>1, GoToFacts DEF Ends
<1> QED BY <1>1 DEF StoreSubmission, Types, Stored

(* A request that is cut short or told no. *)
Gives(r) == Refuse(r) \/ InsertTaken(r) \/ NothingToSet(r) \/ Victim(r) \/ Fails(r)

LEMMA GivesFacts ==
  ASSUME Types, NEW r \in Requests, Gives(r)
  PROVE  /\ at[r] \in Statements /\ at'[r] = "over" /\ answer'[r] \in {"refused", "error"}
         /\ seen'[r] = {} /\ gone'[r] = {} /\ mine'[r] = {}
         /\ lock' # r /\ \A q \in Requests \ {r} : lock' = q <=> lock = q
         /\ UNCHANGED <<row, store, limit, took, request>>
         /\ Fails(r) => hit'[r] = TRUE
         /\ ~Fails(r) => hit' = hit
<1>1. PICK a \in {"refused", "error"} : GiveUp(r, a)
  BY DEF Gives, Refuse, InsertTaken, NothingToSet, Victim, Fails
<1>2. at[r] \in Statements
  <2>1. Blockers(r) # {} => at[r] \in Statements
    BY DEF Blockers, Statements
  <2> QED BY <2>1 DEF Gives, Refuse, InsertTaken, NothingToSet, Victim, Fails, Open, Statements
<1>3. Fails(r) => hit'[r] = TRUE
  BY DEF Fails, Fault, Types
<1>4. (~Fails(r) => hit' = hit) /\ UNCHANGED request
  BY DEF Gives, Refuse, InsertTaken, NothingToSet, Victim, Fails
<1> QED BY <1>1, <1>2, <1>3, <1>4, GiveUpFacts DEF row

(* The steps there are. *)
LEMMA Split ==
  ASSUME NEW r \in Requests, Acts(r)
  PROVE  \/ Send(r) \/ Gives(r) \/ Find(r) \/ New(r) \/ Scan(r) \/ Delete(r) \/ Insert(r)
         \/ Write(r) \/ Commit(r) \/ StoreSubmission(r)
  BY DEF Acts, Step, Gives

-----------------------------------------------------------------------------
(* Each request's own part of the invariant.                               *)

(* Who acts is not over. *)
LEMMA ActsOpen ==
  ASSUME Types, NEW r \in Requests, Acts(r)
  PROVE  at[r] # "over" /\ (~Send(r) => UNCHANGED request)
<1>1. CASE Send(r)
  BY <1>1, SendFacts
<1>2. CASE Gives(r)
  BY <1>2, GivesFacts DEF Statements
<1> QED BY <1>1, <1>2, Split, FindFacts, NewFacts, ScanFacts, DeleteFacts, InsertFacts, WriteFacts,
        CommitFacts, StoreFacts

LEMMA NextBefore ==
  ASSUME Types, BeforeIsOver, NEW r \in Requests, Acts(r)
  PROVE  BeforeIsOver'
<1> SUFFICES ASSUME NEW q \in Requests, NEW p \in before'[q]
             PROVE  at'[p] = "over" /\ p # q
  BY DEF BeforeIsOver
<1>1. at[p] = "over" /\ p # q /\ p \in Requests
  <2>1. CASE q = r /\ Send(r)
    BY <2>1, SendFacts
  <2>2. CASE q # r \/ ~Send(r)
    <3>1. before'[q] = before[q]
      BY <2>2, Others, ActsOpen DEF SameAt, request
    <3> QED BY <3>1 DEF BeforeIsOver, Types
  <2> QED BY <2>1, <2>2
<1>2. p # r
  BY <1>1, ActsOpen
<1> QED BY <1>1, <1>2, Others DEF SameAt

LEMMA StageOver ==
  ASSUME NEW r \in Requests, StageFits(r), at[r] # "idle", impl' = impl, UNCHANGED request,
         at'[r] = "over", answer'[r] # "none"
  PROVE  StageFits(r)'
  BY DEF StageFits, request

LEMMA NextStage ==
  ASSUME Types, NEW r \in Requests, Own(r), Acts(r)
  PROVE  StageFits(r)'
<1>1. CASE Send(r)
  BY <1>1, SendFacts, Others DEF Own, StageFits, Kinds
<1>2. CASE Gives(r)
  BY <1>2, GivesFacts, Others, StageOver DEF Own, Statements
<1>3. CASE Find(r)
  <2>1. impl' = impl /\ kind' = kind /\ wanted' = wanted /\ answer' = answer
    BY <1>3, FindFacts, Others DEF request
  <2>2. answer[r] = "none" /\ kind[r] # "none" /\ kind[r] # "create" /\ at'[r] \notin {"idle", "over"}
    <3>1. at[r] \in {"find", "find again"} /\ at'[r] \in Statements
      BY <1>3, FindFacts
    <3>2. at'[r] \notin {"idle", "over"}
      BY <3>1 DEF Statements
    <3> QED BY <3>1, <3>2 DEF Own, StageFits
  <2>3. /\ kind[r] = "submit" => at'[r] = "read"
        /\ kind[r] \in {"update", "delete"} => at'[r] = "write"
        /\ kind[r] = "retag" => at'[r] \in {"write", "scan"}
        /\ kind[r] = "upload" => at'[r] \in {"find again", "scan"}
    BY <1>3, FindFacts DEF Types
  <2> QED BY <2>1, <2>2, <2>3 DEF Own, StageFits
<1>4. CASE Scan(r)
  <2>1. impl' = impl /\ kind' = kind /\ wanted' = wanted /\ answer' = answer
    BY <1>4, ScanFacts, Others DEF request
  <2>2. (at[r] = "scan" /\ at'[r] = "delete") \/ (at[r] = "read" /\ at'[r] = "store")
    BY <1>4, ScanFacts
  <2> QED BY <2>1, <2>2 DEF Own, StageFits
<1>5. ASSUME NEW n, at'[r] = AfterRows(r, n), UNCHANGED request,
             at[r] \in {"new", "delete", "insert"},
             at'[r] # "over" => answer' = answer,
             at'[r] = "over" => Ends(r)
      PROVE  StageFits(r)'
  <2>1. kind[r] \in {"create", "retag", "upload"}
    BY <1>5 DEF Own, StageFits, Types, Kinds
  <2>2. CASE at'[r] = "over"
    BY <1>5, <2>2, Others, StageOver DEF Own, Ends
  <2>3. CASE at'[r] # "over"
    BY <1>5, <2>1, <2>3, AfterRowsFacts, Others DEF Own, StageFits, request, Autocommit
  <2> QED BY <2>2, <2>3
<1>6. CASE New(r) \/ Insert(r)
  BY <1>5, <1>6, NewFacts, InsertFacts
<1>7. CASE Delete(r)
  <2>1. ~Autocommit(r)
    BY <1>7, DeleteFacts DEF Own, StageFits, Autocommit
  <2>2. at'[r] # "over"
    BY <1>7, <2>1, DeleteFacts, AfterRowsFacts
  <2>3. CASE at'[r] = "delete"
    BY <1>7, <2>3, DeleteFacts, Others DEF Own, StageFits, request
  <2>4. CASE at'[r] # "delete"
    BY <1>5, <1>7, <2>1, <2>2, <2>4, DeleteFacts
  <2> QED BY <2>3, <2>4
<1>8. CASE Write(r)
  <2>1. kind[r] \in {"update", "retag", "delete"}
    BY <1>8, WriteFacts DEF Own, StageFits, Types, Kinds
  <2>2. CASE Autocommit(r)
    BY <1>8, <2>2, WriteFacts, Others, StageOver DEF Own, Ends
  <2>3. CASE ~Autocommit(r)
    <3>1. impl' = impl /\ kind' = kind /\ wanted' = wanted /\ answer' = answer
      BY <1>8, <2>3, WriteFacts, Others DEF request
    <3>2. at'[r] \in {"scan", "commit"} /\ (at'[r] = "scan" => kind[r] = "retag") /\ kind[r] # "delete"
      BY <1>8, <2>3, WriteFacts DEF Autocommit
    <3>3. answer[r] = "none"
      BY <1>8, WriteFacts DEF Own, StageFits
    <3> QED BY <2>1, <3>1, <3>2, <3>3 DEF Own, StageFits
  <2> QED BY <2>2, <2>3
<1>9. CASE Commit(r) \/ StoreSubmission(r)
  BY <1>9, CommitFacts, StoreFacts, Others, StageOver DEF Own, Ends
<1> QED BY <1>1, <1>2, <1>3, <1>4, <1>6, <1>7, <1>8, <1>9, Split

LEMMA NextTook ==
  ASSUME Types, NEW r \in Requests, Own(r), Acts(r)
  PROVE  TookFits(r)'
<1>1. CASE Send(r)
  BY <1>1, SendFacts, Others DEF Own, StageFits, TookFits, Ok
<1>2. CASE Gives(r)
  <2>1. took[r] => kind[r] = "create" /\ impl = "ts"
    BY <1>2, GivesFacts DEF Own, TookFits, Statements
  <2> QED BY <1>2, <2>1, GivesFacts, Others DEF TookFits, Ok, Autocommit, request
<1>3. CASE Find(r)
  <2>1. at[r] \in Statements \ {"insert"} /\ at'[r] \in Statements \ {"insert"}
    BY <1>3, FindFacts DEF Own, StageFits, Statements, Types, Kinds
  <2> QED BY <1>3, <2>1, FindFacts, Others DEF Own, StageFits, TookFits, Ok, request, Statements
<1>4. CASE Scan(r)
  BY <1>4, ScanFacts, Others DEF Own, StageFits, TookFits, Ok, request
<1>5. CASE Delete(r)
  <2>1. ~Autocommit(r) /\ kind[r] # "create"
    BY <1>5, DeleteFacts DEF Own, StageFits, Autocommit
  <2>2. at'[r] # "over"
    BY <1>5, <2>1, DeleteFacts, AfterRowsFacts
  <2> QED BY <1>5, <2>1, <2>2, DeleteFacts, Others DEF Own, StageFits, TookFits, Ok, request
<1>6. CASE New(r)
  <2>1. kind[r] = "create"
    BY <1>6, NewFacts DEF Own, StageFits, Types, Kinds
  <2>2. at'[r] \in {"insert", "commit", "over"} /\ (at'[r] = "over" => Autocommit(r))
    BY <1>6, <2>1, NewFacts, AfterRowsFacts
  <2>3. kind'[r] = "create" /\ impl' = impl
    BY <1>6, <2>1, NewFacts, Others DEF request
  <2>4. ~took[r] /\ answer[r] = "none"
    BY <1>6, NewFacts DEF Own, TookFits, StageFits
  <2>5. CASE Autocommit(r)
    <3>1. impl = "ts" /\ took'[r] = TRUE /\ at'[r] # "commit"
      BY <1>6, <2>1, <2>5, NewFacts, AfterRowsFacts DEF Autocommit
    <3> QED BY <2>2, <2>3, <3>1 DEF TookFits, Autocommit
  <2>6. CASE ~Autocommit(r)
    <3>1. impl # "ts" /\ took'[r] = took[r] /\ answer'[r] = answer[r]
      BY <1>6, <2>1, <2>2, <2>6, NewFacts DEF Autocommit
    <3> QED BY <2>3, <2>4, <3>1 DEF TookFits, Ok
  <2> QED BY <2>5, <2>6
<1>7. CASE Insert(r)
  <2>1. at'[r] = "over" => Autocommit(r)
    BY <1>7, InsertFacts, AfterRowsFacts
  <2>2. kind[r] \in {"create", "retag", "upload"} /\ kind' = kind /\ impl' = impl /\ took' = took
    BY <1>7, InsertFacts, Others DEF Own, StageFits, Types, Kinds, request
  <2>3. CASE Autocommit(r)
    <3>1. kind[r] = "create" /\ impl = "ts" /\ took[r]
      BY <1>7, <2>2, <2>3, InsertFacts DEF Autocommit, Own, TookFits
    <3>2. at'[r] \in {"insert", "over"}
      BY <1>7, <2>3, InsertFacts, AfterRowsFacts
    <3> QED BY <2>2, <3>1, <3>2 DEF TookFits, Autocommit
  <2>4. CASE ~Autocommit(r)
    <3>1. ~took[r] /\ answer'[r] = "none"
      <4>1. at[r] = "insert" /\ answer' = answer
        BY <1>7, <2>1, <2>4, InsertFacts
      <4> QED BY <4>1, <2>4 DEF Own, TookFits, StageFits, Autocommit
    <3>2. ~(kind[r] = "create" /\ impl = "ts")
      BY <2>4 DEF Autocommit
    <3> QED BY <2>2, <3>1, <3>2 DEF TookFits, Ok
  <2> QED BY <2>3, <2>4
<1>8. CASE Write(r)
  <2>1. kind[r] \in {"update", "retag", "delete"}
    BY <1>8, WriteFacts DEF Own, StageFits, Types, Kinds
  <2> QED BY <1>8, <2>1, WriteFacts, Others DEF Own, StageFits, TookFits, Ok, request, Ends, Autocommit
<1>9. CASE Commit(r) \/ StoreSubmission(r)
  BY <1>9, CommitFacts, StoreFacts, Others DEF Own, TookFits, Ok, request, Ends
<1> QED BY <1>1, <1>2, <1>3, <1>4, <1>5, <1>6, <1>7, <1>8, <1>9, Split

LEMMA NextLock ==
  ASSUME Types, NEW r \in Requests, \A q \in Requests : Own(q), Acts(r)
  PROVE  \A q \in Requests : LockFits(q)'
<1>1. \A q \in Requests \ {r} : Locks(q)' <=> Locks(q)
  BY Others DEF SameAt, Locks
<1>2. ASSUME lock' # r, ~Locks(r)', \A q \in Requests \ {r} : lock' = q <=> lock = q
      PROVE  \A q \in Requests : LockFits(q)'
  BY <1>1, <1>2 DEF Own, LockFits
<1>3. ASSUME lock' = lock, Locks(r) <=> Locks(r)'
      PROVE  \A q \in Requests : LockFits(q)'
  BY <1>1, <1>3 DEF Own, LockFits
<1>4. CASE Send(r)
  <2>1. ~Locks(r) /\ ~Locks(r)' /\ lock' = lock
    BY <1>4, SendFacts DEF Locks, Stored
  <2> QED BY <1>3, <2>1
<1>5. CASE Gives(r)
  <2>1. ~Locks(r)'
    BY <1>5, GivesFacts DEF Locks
  <2> QED BY <1>2, <1>5, <2>1, GivesFacts
<1>6. CASE Find(r)
  <2>1. ~Locks(r) /\ lock' = lock
    BY <1>6, FindFacts DEF Locks, Stored
  <2>2. ~Locks(r)'
    <3>1. kind' = kind /\ impl' = impl
      BY <1>6, FindFacts, Others DEF request
    <3>2. kind[r] # "create" /\ kind[r] # "none"
      BY <1>6, FindFacts DEF Own, StageFits
    <3>3. at'[r] = "commit" => FALSE
      BY <1>6, <3>2, FindFacts DEF Types, Kinds
    <3>4. kind[r] = "retag" /\ impl = "ts" => at'[r] = "write"
      BY <1>6, FindFacts
    <3> QED BY <3>1, <3>3, <3>4 DEF Locks
  <2> QED BY <1>3, <2>1, <2>2
<1>7. CASE Scan(r)
  <2>1. lock' = lock /\ (Locks(r) <=> Locks(r)')
    BY <1>7, ScanFacts, Others DEF Locks, Stored, request, Own, StageFits
  <2> QED BY <1>3, <2>1
<1>8. ASSUME NEW n, at'[r] = AfterRows(r, n), UNCHANGED request, lock' = lock,
             at[r] \in {"new", "delete", "insert"}
      PROVE  \A q \in Requests : LockFits(q)'
  <2>1. CASE kind[r] = "retag" /\ impl = "ts"
    <3>1. at'[r] \in {"insert", "commit"}
      BY <1>8, <2>1, AfterRowsFacts DEF Autocommit
    <3>2. Locks(r) /\ Locks(r)'
      BY <1>8, <2>1, <3>1, Others DEF Locks, Own, StageFits, request
    <3> QED BY <1>3, <1>8, <3>2
  <2>2. CASE kind[r] = "retag" /\ impl = "rust"
    <3>1. at'[r] \in {"insert", "write"}
      BY <1>8, <2>2, AfterRowsFacts DEF Autocommit
    <3>2. ~Locks(r) /\ ~Locks(r)'
      BY <1>8, <2>2, <3>1, Others DEF Locks, request
    <3> QED BY <1>3, <1>8, <3>2
  <2>3. CASE kind[r] # "retag"
    <3>1. kind[r] # "update"
      BY <1>8 DEF Own, StageFits
    <3>2. ~Locks(r) /\ ~Locks(r)'
      BY <1>8, <2>3, <3>1 DEF Locks, request
    <3> QED BY <1>3, <1>8, <3>2
  <2> QED BY <2>1, <2>2, <2>3 DEF Types
<1>9. CASE New(r) \/ Delete(r) \/ Insert(r)
  <2>1. CASE Delete(r) /\ at'[r] = "delete"
    <3>1. lock' = lock /\ (Locks(r) <=> Locks(r)')
      BY <2>1, DeleteFacts, Others DEF Locks, Stored, request
    <3> QED BY <1>3, <3>1
  <2>2. CASE ~(Delete(r) /\ at'[r] = "delete")
    BY <1>8, <1>9, <2>2, NewFacts, DeleteFacts, InsertFacts DEF Stored
  <2> QED BY <2>1, <2>2
<1>10. CASE Write(r)
  <2>1. kind[r] \in {"update", "retag", "delete"} /\ kind' = kind /\ impl' = impl
    BY <1>10, WriteFacts, Others DEF Own, StageFits, Types, Kinds, request
  <2>2. CASE Autocommit(r)
    <3>1. ~Locks(r) /\ ~Locks(r)' /\ lock' = lock
      BY <1>10, <2>1, <2>2, WriteFacts DEF Locks, Ends
    <3> QED BY <1>3, <3>1
  <2>3. CASE ~Autocommit(r)
    <3>1. lock' = r /\ at'[r] = IF kind[r] = "retag" /\ impl = "ts" THEN "scan" ELSE "commit"
      BY <1>10, <2>3, WriteFacts
    <3>2. Locks(r)'
      BY <2>1, <2>3, <3>1 DEF Locks, Autocommit
    <3>3. \A q \in Requests \ {r} : lock # q
      BY <1>10, WriteFacts DEF Blockers
    <3> QED BY <1>1, <3>1, <3>2, <3>3 DEF Own, LockFits
  <2> QED BY <2>2, <2>3
<1>11. CASE Commit(r)
  <2>1. ~Locks(r)'
    BY <1>11, CommitFacts DEF Locks, Ends
  <2> QED BY <1>2, <1>11, <2>1, CommitFacts
<1>12. CASE StoreSubmission(r)
  <2>1. ~Locks(r) /\ ~Locks(r)' /\ lock' = lock
    BY <1>12, StoreFacts DEF Locks, Ends, Stored
  <2> QED BY <1>3, <2>1
<1> QED BY <1>4, <1>5, <1>6, <1>7, <1>9, <1>10, <1>11, <1>12, Split

(* An empty hand fits every request. *)
LEMMA EmptyHand ==
  ASSUME Types', NEW r \in Requests, mine'[r] = {}, at'[r] # "insert",
         at'[r] \in {"commit", "write"} => kind'[r] \notin Replacing \/ (at'[r] = "write" /\ impl' = "ts")
  PROVE  MineFits(r)'
<1>1. Len(wanted'[r]) \in Nat
  <2>1. wanted'[r] \in Lists \cup {Cases}
    BY DEF Types
  <2> QED BY <2>1, ListFacts
<1>2. IsFiniteSet(mine'[r]) /\ Cardinality(mine'[r]) = 0
  BY FS_EmptySet
<1>3. mine'[r] = {RowOf(r, i)' : i \in 1 .. 0}
  OBVIOUS
<1>4. Counted(r)'
  BY <1>1, <1>2, <1>3 DEF Counted
<1> QED BY <1>4 DEF MineFits, Replacing

(* Nothing about the hand changes but where its owner is.                  *)
LEMMA SameHand ==
  ASSUME Types, NEW r \in Requests, MineFits(r), impl' = impl, UNCHANGED <<request, mine>>,
         (at[r] \in Holding /\ at'[r] \in Holding) \/ mine[r] = {},
         at[r] # "commit" /\ at'[r] \in {"commit", "write"} /\ kind[r] \in Replacing
            /\ (at'[r] = "write" => impl = "rust" /\ kind[r] = "retag") => mine[r] = RowsOf(r),
         impl = "rust" /\ at'[r] = "insert" => Cardinality(mine[r]) < Len(wanted[r]),
         impl = "ts" /\ at[r] = "commit" => at'[r] = "commit"
  PROVE  MineFits(r)'
<1>1. RowsOf(r)' = RowsOf(r) /\ (Counted(r)' <=> Counted(r))
  BY DEF RowsOf, RowOf, Counted, request
<1>2. kind' = kind /\ wanted' = wanted /\ mine' = mine
  BY DEF request
<1> QED BY <1>1, <1>2 DEF MineFits, Holding, Autocommit, Replacing

(* An insertion in Rust adds one row to the hand, the next of the list.    *)
LEMMA RustInserts ==
  ASSUME Types, Types', NEW r \in Requests, Own(r), Insert(r), impl = "rust"
  PROVE  MineFits(r)'
<1> DEFINE n == Cardinality(mine[r])
           x == RowOf(r, Turn(r))
<1>1. at[r] = "insert" /\ Counted(r) /\ n < Len(wanted[r]) /\ ~Autocommit(r)
  <2>1. at[r] = "insert"
    BY InsertFacts
  <2> QED BY <2>1 DEF Own, MineFits, StageFits, Autocommit
<1>2. n \in Nat /\ Turn(r) = n + 1 /\ Len(wanted[r]) \in Nat /\ DOMAIN wanted[r] = 1 .. Len(wanted[r])
  BY <1>1, FS_CardinalityType, WantedFacts DEF Counted, Turn
<1>3. Turn(r) \in DOMAIN wanted[r] /\ Batch(r) = {x}
  BY <1>1, BatchFacts DEF Own
<1>4. x \notin mine[r]
  <2>1. ~Taken(r)
    BY InsertFacts
  <2>2. Clash(x, x)
    BY DEF Clash
  <2> QED BY <1>3, <2>1, <2>2 DEF Taken
<1>5. mine'[r] = mine[r] \cup {x} /\ UNCHANGED request
  BY <1>1, <1>3, InsertFacts
<1>6. Cardinality(mine'[r]) = n + 1 /\ IsFiniteSet(mine'[r])
  BY <1>1, <1>4, <1>5, FS_AddElement DEF Counted
<1>7. \A i : RowOf(r, i)' = RowOf(r, i)
  BY <1>5 DEF RowOf, request
<1>8. mine'[r] = {RowOf(r, i) : i \in 1 .. (n + 1)}
  <2>1. mine[r] = {RowOf(r, i) : i \in 1 .. n}
    BY <1>1 DEF Counted
  <2>2. 1 .. (n + 1) = (1 .. n) \cup {n + 1}
    BY <1>2
  <2> QED BY <1>2, <1>5, <2>1, <2>2
<1>9. Counted(r)'
  <2>1. mine'[r] = {RowOf(r, i)' : i \in 1 .. Cardinality(mine'[r])}
    BY <1>6, <1>7, <1>8
  <2>2. wanted' = wanted
    BY <1>5 DEF request
  <2> QED BY <1>1, <1>2, <1>6, <2>1, <2>2 DEF Counted
<1>10. at'[r] = AfterRows(r, n + 1) /\ impl' = impl /\ kind' = kind /\ wanted' = wanted
  BY <1>2, <1>5, InsertFacts, Others DEF Acts, Step, request
<1>11. kind[r] \in Replacing
  BY <1>1 DEF Own, StageFits, Replacing, Types, Kinds
<1>12. CASE n + 1 < Len(wanted[r])
  <2>1. at'[r] = "insert"
    BY <1>10, <1>12, AfterRowsFacts
  <2> QED BY <1>1, <1>6, <1>9, <1>10, <1>11, <1>12, <2>1 DEF MineFits, Holding, Autocommit
<1>13. CASE ~(n + 1 < Len(wanted[r]))
  <2>1. at'[r] \in {"write", "commit"}
    BY <1>1, <1>10, <1>13, AfterRowsFacts
  <2>2. n + 1 = Len(wanted[r])
    BY <1>1, <1>2, <1>13
  <2>3. mine'[r] = RowsOf(r)'
    BY <1>2, <1>7, <1>8, <1>10, <2>2 DEF RowsOf
  <2> QED BY <1>1, <1>9, <1>10, <1>11, <2>1, <2>3 DEF MineFits, Holding, Autocommit
<1> QED BY <1>12, <1>13

LEMMA NextMine ==
  ASSUME Types, Types', NEW r \in Requests, Own(r), Acts(r)
  PROVE  MineFits(r)'
<1>1. at[r] \notin Holding => mine[r] = {}
  BY DEF Own, MineFits
<1>2. CASE Send(r)
  BY <1>1, <1>2, SendFacts, EmptyHand DEF Holding
<1>3. CASE Gives(r)
  BY <1>3, GivesFacts, EmptyHand
<1>4. CASE Find(r)
  <2>1. mine'[r] = {} /\ kind' = kind /\ impl' = impl
    BY <1>1, <1>4, FindFacts, Others DEF Holding, request
  <2>2. kind[r] # "create" /\ kind[r] # "none"
    BY <1>4, FindFacts DEF Own, StageFits
  <2>3. /\ at'[r] \notin {"insert", "commit"}
        /\ at'[r] = "write" => kind[r] \notin Replacing \/ impl = "ts"
    BY <1>4, <2>2, FindFacts DEF Types, Kinds, Replacing
  <2> QED BY <2>1, <2>3, EmptyHand
<1>5. CASE Scan(r)
  BY <1>1, <1>5, ScanFacts, EmptyHand DEF Holding
<1>6. ASSUME mine[r] = {}, at'[r] = AfterRows(r, 0), UNCHANGED <<request, mine>>,
             at[r] \in {"new", "delete"}
      PROVE  MineFits(r)'
  <2>1. Len(wanted[r]) \in Nat /\ DOMAIN wanted[r] = 1 .. Len(wanted[r])
    BY WantedFacts
  <2>2. Cardinality(mine[r]) = 0
    BY <1>6, FS_EmptySet
  <2>3. CASE 0 < Len(wanted[r])
    <3>1. at'[r] = "insert"
      BY <1>6, <2>3, AfterRowsFacts
    <3> QED BY <1>6, <2>2, <2>3, <3>1, SameHand, Others DEF Own
  <2>4. CASE ~(0 < Len(wanted[r]))
    <3>1. at'[r] # "insert"
      BY <1>6, <2>4, AfterRowsFacts
    <3>2. RowsOf(r) = {}
      BY <2>1, <2>4 DEF RowsOf
    <3> QED BY <1>6, <3>1, <3>2, SameHand, Others DEF Own
  <2> QED BY <2>3, <2>4
<1>7. CASE New(r) \/ Delete(r)
  <2>1. CASE Delete(r) /\ at'[r] = "delete"
    BY <1>1, <2>1, DeleteFacts, EmptyHand DEF Holding
  <2>2. CASE ~(Delete(r) /\ at'[r] = "delete")
    BY <1>1, <1>6, <1>7, <2>2, NewFacts, DeleteFacts DEF Holding
  <2> QED BY <2>1, <2>2
<1>8. CASE Insert(r) /\ impl = "ts"
  <2>1. at[r] = "insert" /\ mine[r] = {} /\ Batch(r) = RowsOf(r)
    BY <1>8, InsertFacts, BatchFacts DEF Own, MineFits
  <2>2. Len(wanted[r]) \in Nat /\ at'[r] = AfterRows(r, Len(wanted[r]))
    BY <1>8, InsertFacts, WantedFacts
  <2>3. CASE Autocommit(r)
    <3>1. at'[r] = "over" /\ mine'[r] = {}
      BY <1>8, <2>1, <2>2, <2>3, AfterRowsFacts, InsertFacts
    <3> QED BY <3>1, EmptyHand
  <2>4. CASE ~Autocommit(r)
    <3>1. at'[r] = "commit" /\ mine'[r] = RowsOf(r)
      <4>1. AfterRows(r, Len(wanted[r])) = "commit"
        BY <1>8, <2>2, <2>4 DEF AfterRows
      <4>2. mine'[r] = mine[r] \cup Batch(r)
        BY <1>8, <2>4, InsertFacts
      <4> QED BY <2>1, <2>2, <4>1, <4>2
    <3>2. kind' = kind /\ wanted' = wanted /\ impl' = impl
      BY <1>8, InsertFacts, Others DEF request
    <3>3. RowsOf(r)' = RowsOf(r)
      BY <3>2 DEF RowsOf, RowOf
    <3>4. kind[r] \in Replacing
      BY <2>1 DEF Own, StageFits, Replacing, Types, Kinds
    <3> QED BY <1>8, <2>4, <3>1, <3>2, <3>3, <3>4 DEF MineFits, Holding, Autocommit
  <2> QED BY <2>3, <2>4
<1>9. CASE Insert(r) /\ impl = "rust"
  BY <1>9, RustInserts
<1>10. CASE Write(r)
  <2>1. /\ kind[r] \in {"update", "retag", "delete"} /\ at[r] = "write"
        /\ kind' = kind /\ impl' = impl /\ mine' = mine
    BY <1>10, WriteFacts, Others DEF Own, StageFits, Types, Kinds, request
  <2>2. CASE kind[r] = "retag" /\ impl = "rust"
    <3>1. mine[r] = RowsOf(r) /\ at'[r] = "commit"
      BY <1>10, <2>1, <2>2, WriteFacts DEF Own, MineFits, Autocommit
    <3> QED BY <1>10, <2>1, <2>2, <3>1, WriteFacts, SameHand, Others DEF Own, Holding
  <2>3. CASE kind[r] # "retag"
    <3>1. mine[r] = {} /\ at'[r] \in {"commit", "over"}
      BY <1>10, <2>1, <2>3, WriteFacts DEF Own, MineFits, Replacing, Ends
    <3> QED BY <2>1, <2>3, <3>1, EmptyHand DEF Replacing
  <2>4. CASE kind[r] = "retag" /\ impl = "ts"
    <3>1. mine[r] = {} /\ at'[r] = "scan"
      BY <1>10, <2>1, <2>4, WriteFacts DEF Own, MineFits, Autocommit
    <3> QED BY <2>1, <3>1, EmptyHand
  <2> QED BY <2>2, <2>3, <2>4 DEF Types
<1>11. CASE Commit(r)
  BY <1>11, CommitFacts, EmptyHand DEF Ends
<1>12. CASE StoreSubmission(r)
  BY <1>1, <1>12, StoreFacts, EmptyHand DEF Holding, Ends
<1> QED BY <1>2, <1>3, <1>4, <1>5, <1>7, <1>8, <1>9, <1>10, <1>11, <1>12, Split DEF Types

(* So each request's own part is kept by every step. *)
LEMMA NextOwn ==
  ASSUME Types, Types', NEW r \in Requests, \A q \in Requests : Own(q), Acts(r)
  PROVE  \A q \in Requests : Own(q)'
<1>1. Own(r)'
  BY NextStage, NextTook, NextLock, NextMine DEF Own
<1>2. ASSUME NEW q \in Requests \ {r}
      PROVE  Own(q)'
  <2>1. SameAt(q) /\ impl' = impl
    BY Others
  <2>2. \A i : RowOf(q, i)' = RowOf(q, i)
    BY <2>1 DEF RowOf, SameAt
  <2>3. RowsOf(q)' = RowsOf(q) /\ (Counted(q)' <=> Counted(q))
    BY <2>1, <2>2 DEF RowsOf, Counted, SameAt
  <2>4. MineFits(q)'
    BY <2>1, <2>3 DEF MineFits, SameAt, Own, Autocommit
  <2>5. StageFits(q)' /\ TookFits(q)'
    BY <2>1 DEF StageFits, TookFits, Ok, SameAt, Own, Autocommit
  <2> QED BY <2>4, <2>5, NextLock DEF Own
<1> QED BY <1>1, <1>2

-----------------------------------------------------------------------------
(* What is stored.                                                         *)

(* Who has started keeps what it is, and what took effect stays so.        *)
LEMMA Keeps ==
  ASSUME Types, Types', NEW r \in Requests, \A q \in Requests : Own(q), Acts(r)
  PROVE  /\ impl' = impl /\ at[r] # "over"
         /\ \A q \in Requests : at[q] # "idle" =>
              /\ kind'[q] = kind[q] /\ sets'[q] = sets[q] /\ wanted'[q] = wanted[q]
              /\ before'[q] = before[q] /\ at'[q] # "idle" /\ RowsOf(q)' = RowsOf(q)
         /\ \A q \in Requests : took[q] => took'[q] /\ at[q] # "idle"
<1>1. at[r] # "idle" => ~Send(r)
  BY SendFacts
<1>2. ASSUME NEW q \in Requests, at[q] # "idle"
      PROVE  /\ kind'[q] = kind[q] /\ sets'[q] = sets[q] /\ wanted'[q] = wanted[q]
             /\ before'[q] = before[q] /\ at'[q] # "idle"
  <2>1. CASE q = r
    <3>1. UNCHANGED request
      BY <1>1, <1>2, <2>1, ActsOpen
    <3>2. StageFits(r)' /\ StageFits(r)
      BY NextStage DEF Own
    <3> QED BY <1>2, <2>1, <3>1, <3>2 DEF StageFits, request
  <2>2. CASE q # r
    BY <1>2, <2>2, Others DEF SameAt
  <2> QED BY <2>1, <2>2
<1>3. ASSUME NEW q \in Requests, at[q] # "idle"
      PROVE  RowsOf(q)' = RowsOf(q)
  <2>1. wanted'[q] = wanted[q]
    BY <1>2, <1>3
  <2> QED BY <2>1 DEF RowsOf, RowOf
<1>4. ASSUME NEW q \in Requests, took[q]
      PROVE  took'[q] /\ at[q] # "idle"
  <2>1. at[q] # "idle"
    BY <1>4 DEF Own, TookFits
  <2>2. took'[r] = TRUE \/ took' = took
    <3>1. CASE New(r)
      BY <3>1, NewFacts
    <3>2. CASE Write(r)
      BY <3>2, WriteFacts
    <3>3. CASE Commit(r) \/ StoreSubmission(r)
      BY <3>3, CommitFacts, StoreFacts
    <3>4. CASE Gives(r) \/ Find(r) \/ Scan(r) \/ Send(r)
      BY <3>4, GivesFacts, FindFacts, ScanFacts, SendFacts
    <3>5. CASE Delete(r) \/ Insert(r)
      BY <3>5, DeleteFacts, InsertFacts
    <3> QED BY <3>1, <3>2, <3>3, <3>4, <3>5, Split
  <2>3. q # r => took'[q] = took[q]
    BY Others DEF SameAt
  <2> QED BY <1>4, <2>1, <2>2, <2>3
<1> QED BY <1>2, <1>3, <1>4, Others, ActsOpen

(* The rows a replacement brings.                                          *)
LEMMA RowsFacts ==
  ASSUME Types, NEW r \in Requests, StageFits(r), kind[r] \in Replacing
  PROVE  /\ \A x \in RowsOf(r) : x.by = r /\ x.item \in Table(r) /\ x \in Rows
         /\ Whole(RowsOf(r))
         /\ kind[r] = "upload" => \A n \in CaseIds : [by |-> r, item |-> n] \in RowsOf(r)
<1>1. \A i \in DOMAIN wanted[r] : RowOf(r, i) \in Rows
  BY WantedFacts
<1>2. \A i : RowOf(r, i).by = r /\ RowOf(r, i).item = wanted[r][i]
  BY DEF RowOf
<1>3. CASE kind[r] = "upload"
  <2>1. wanted[r] = Cases
    BY <1>3 DEF StageFits
  <2>2. DOMAIN wanted[r] = CaseIds /\ \A i \in CaseIds : wanted[r][i] = i
    BY <2>1 DEF Cases
  <2>3. \A n \in CaseIds : [by |-> r, item |-> n] \in RowsOf(r)
    BY <2>2 DEF RowsOf, RowOf
  <2>4. \A x \in RowsOf(r) : x.by = r /\ x.item \in Table(r) /\ x \in Rows
    BY <1>1, <1>2, <1>3, <2>2 DEF RowsOf, Table
  <2> QED BY <2>3, <2>4 DEF Whole
<1>4. CASE kind[r] \in {"create", "retag"}
  <2>1. wanted[r] \in Lists
    BY <1>4 DEF StageFits
  <2>2. \A i \in DOMAIN wanted[r] : wanted[r][i] \in Tags
    BY <2>1, ListFacts
  <2>3. \A x \in RowsOf(r) : x.by = r /\ x.item \in Tags /\ x \in Rows
    BY <1>1, <1>2, <2>2 DEF RowsOf
  <2> QED BY <1>4, <2>3, Tables DEF Whole, Table
<1> QED BY <1>3, <1>4 DEF Replacing

(* The rows change when a transaction that replaces them commits, and when *)
(* TypeScript's creation inserts its tags.                                 *)
LEMMA Writes ==
  ASSUME Types, NEW r \in Requests, Own(r), GoneFits, Acts(r)
  PROVE  \/ store' = store
         \/ /\ Insert(r) /\ kind[r] = "create" /\ impl = "ts" /\ took[r] /\ at'[r] = "over"
            /\ store' = store \cup RowsOf(r)
         \/ /\ Commit(r) /\ kind[r] \in Replacing
            /\ store' = (store \ gone[r]) \cup RowsOf(r)
<1>1. CASE Insert(r)
  <2>1. at[r] = "insert"
    BY <1>1, InsertFacts
  <2>2. CASE Autocommit(r)
    <3>1. kind[r] = "create" /\ impl = "ts" /\ took[r]
      BY <2>1, <2>2 DEF Autocommit, Own, StageFits, TookFits
    <3>2. Batch(r) = RowsOf(r)
      BY <2>1, <3>1, BatchFacts DEF Own
    <3>3. at'[r] = AfterRows(r, Len(wanted[r])) /\ Len(wanted[r]) \in Nat
      BY <1>1, <3>1, InsertFacts, WantedFacts
    <3>4. at'[r] = "over"
      BY <2>2, <3>3, AfterRowsFacts
    <3> QED BY <1>1, <2>2, <3>1, <3>2, <3>4, InsertFacts
  <2>3. CASE ~Autocommit(r)
    BY <1>1, <2>3, InsertFacts
  <2> QED BY <2>2, <2>3
<1>2. CASE Commit(r)
  <2>1. at[r] = "commit" /\ store' = (store \ gone[r]) \cup mine[r]
    BY <1>2, CommitFacts
  <2>2. CASE kind[r] \in Replacing
    BY <1>2, <2>1, <2>2 DEF Own, MineFits
  <2>3. CASE kind[r] \notin Replacing
    <3>1. mine[r] = {} /\ gone[r] = {}
      BY <2>3 DEF Own, MineFits, GoneFits, Replacing
    <3> QED BY <2>1, <3>1
  <2> QED BY <2>2, <2>3
<1> QED BY <1>1, <1>2, Split, SendFacts, GivesFacts, FindFacts, NewFacts, ScanFacts, DeleteFacts,
        WriteFacts, StoreFacts DEF Stored

(* Every row that is stored was, or is one of those that are brought.      *)
LEMMA RowsBy ==
  ASSUME Types, Types', NEW r \in Requests, \A q \in Requests : Own(q), GoneFits, StoreFits, Acts(r)
  PROVE  /\ store \ gone[r] \subseteq store'
         /\ \A x \in store : x.by # r /\ (x.by # Nobody =>
              x.by \in Requests \ {r} /\ SameAt(x.by) /\ at[x.by] # "idle")
         /\ \A x \in store' \ store :
              /\ x \in RowsOf(r) /\ x.by = r /\ x.item \in Table(r) /\ kind[r] \in Replacing
              /\ at[r] # "idle" /\ at'[r] = "over" /\ took'[r]
              /\ at[r] = "commit" \/ (kind[r] = "create" /\ impl = "ts")
<1>1. \A x \in store : x.by \in Requests \cup {Nobody}
  BY DEF Types, Rows
<1>2. ASSUME NEW x \in store
      PROVE  x.by # r /\ (x.by # Nobody => at[x.by] # "idle")
  <2>1. CASE x.by = Nobody
    BY <2>1, StoreAssumption
  <2>2. CASE x.by # Nobody
    <3>1. x.by \in Requests /\ kind[x.by] \in Replacing /\ took[x.by]
      BY <1>1, <2>2 DEF StoreFits
    <3>2. at[x.by] # "idle"
      BY <3>1, Keeps
    <3>3. ASSUME x.by = r
          PROVE  FALSE
      <4>1. kind[r] = "create" /\ impl = "ts"
        BY <3>1, <3>3, Keeps DEF Own, TookFits
      <4>2. at[r] = "over"
        BY <2>2, <3>3, <4>1 DEF StoreFits
      <4> QED BY <4>2, Keeps
    <3> QED BY <3>2, <3>3
  <2> QED BY <2>1, <2>2
<1>3. \A x \in store : x.by # Nobody => x.by \in Requests \ {r} /\ SameAt(x.by)
  BY <1>1, <1>2, Others
<1>4. ASSUME NEW x \in store' \ store
      PROVE  /\ x \in RowsOf(r) /\ kind[r] \in Replacing
             /\ at[r] # "idle" /\ at'[r] = "over" /\ took'[r]
             /\ at[r] = "commit" \/ (kind[r] = "create" /\ impl = "ts")
  <2>1. CASE Insert(r) /\ kind[r] = "create" /\ impl = "ts" /\ took[r] /\ at'[r] = "over"
               /\ store' = store \cup RowsOf(r)
    BY <1>4, <2>1, InsertFacts DEF Replacing
  <2>2. CASE Commit(r) /\ kind[r] \in Replacing /\ store' = (store \ gone[r]) \cup RowsOf(r)
    BY <1>4, <2>2, CommitFacts DEF Ends
  <2> QED BY <1>4, <2>1, <2>2, Writes
<1>5. \A x \in store' \ store : x.by = r /\ x.item \in Table(r)
  BY <1>4, RowsFacts DEF Own
<1>6. store \ gone[r] \subseteq store'
  BY Writes
<1> QED BY <1>1, <1>2, <1>3, <1>4, <1>5, <1>6

(* Deleted rows stay in one hand. *)
LEMMA NextGone ==
  ASSUME Types, Types', NEW r \in Requests, \A q \in Requests : Own(q), \A q \in Requests : Own(q)',
         Hands, Acts(r)
  PROVE  GoneFits'
<1>1. store \ gone[r] \subseteq store' /\ impl' = impl
  BY RowsBy, Keeps DEF Hands
<1>2. gone'[r] = {} \/ (gone'[r] = gone[r] /\ store \subseteq store') \/ Delete(r)
  <2>1. CASE Gives(r) \/ Commit(r)
    BY <2>1, GivesFacts, CommitFacts
  <2>2. CASE Insert(r)
    BY <2>2, InsertFacts
  <2>3. CASE Send(r) \/ Find(r) \/ Scan(r) \/ New(r)
    BY <2>3, SendFacts, FindFacts, ScanFacts, NewFacts DEF Stored
  <2>4. CASE Write(r) \/ StoreSubmission(r)
    BY <2>4, WriteFacts, StoreFacts DEF Stored
  <2> QED BY <2>1, <2>2, <2>3, <2>4, Split
<1>3. Whole(store) /\ GoneFits
  BY DEF Hands, StoreFits
<1>4. ASSUME Delete(r)
      PROVE  /\ gone'[r] \subseteq store /\ store' = store
             /\ at'[r] \in Holding => Whole(gone'[r])
             /\ \A x \in gone'[r] : x.item \in Table(r)
             /\ \A q \in Requests \ {r} : gone[q] \cap gone'[r] = {}
             /\ at'[r] \in Holding \cup {"delete"} /\ (at'[r] = "write" => impl = "rust")
             /\ kind[r] \in {"retag", "upload"} /\ UNCHANGED request
  <2>1. at[r] = "delete" /\ store' = store /\ UNCHANGED request
    BY <1>4, DeleteFacts DEF Stored
  <2>2. PICK X \in SUBSET seen[r] :
          /\ \A q \in Requests \ {r} : X \cap gone[q] = {}
          /\ seen'[r] = seen[r] \ X
          /\ gone'[r] = gone[r] \cup (X \cap store)
    BY <1>4, DeleteFacts
  <2>3. Whole(Reach(r)) /\ \A x \in seen[r] : x.item \in Table(r)
    BY <2>1 DEF Hands, OldIsHeld
  <2>4. /\ gone[r] \subseteq store /\ \A x \in gone[r] : x.item \in Table(r)
        /\ \A q \in Requests \ {r} : gone[q] \cap gone[r] = {}
    BY <1>3 DEF GoneFits
  <2>5. kind[r] \in {"retag", "upload"}
    BY <2>1 DEF Own, StageFits, Types, Kinds
  <2>6. CASE at'[r] = "delete"
    BY <2>1, <2>2, <2>3, <2>4, <2>5, <2>6 DEF Holding
  <2>7. CASE at'[r] # "delete"
    <3>1. seen'[r] = {} /\ at'[r] = AfterRows(r, 0)
      BY <1>4, <2>7, DeleteFacts
    <3>2. gone'[r] = Reach(r)
      BY <2>2, <3>1 DEF Reach
    <3>3. at'[r] \in {"insert", "write", "commit"} /\ (at'[r] = "write" => impl = "rust")
      BY <2>5, <3>1 DEF AfterRows, Autocommit
    <3> QED BY <2>1, <2>2, <2>3, <2>4, <2>5, <3>2, <3>3 DEF Holding
  <2> QED BY <2>6, <2>7
<1>5. ASSUME NEW q \in Requests \ {r}
      PROVE  /\ at[q] = at'[q] /\ kind'[q] = kind[q] /\ gone'[q] = gone[q]
             /\ gone[q] \subseteq store' /\ Table(q)' = Table(q)
  <2>1. SameAt(q)
    BY Others
  <2>2. gone[q] \subseteq store /\ gone[q] \cap gone[r] = {}
    BY <1>3 DEF GoneFits
  <2> QED BY <1>1, <2>1, <2>2 DEF SameAt, Table
<1>7. \/ gone'[r] = {}
      \/ Delete(r)
      \/ /\ gone'[r] = gone[r] /\ store \subseteq store' /\ gone[r] # {} /\ kind'[r] = kind[r]
         /\ at[r] \in Holding /\ at'[r] \in Holding /\ kind[r] \in {"retag", "upload"}
         /\ at'[r] = "write" => impl = "rust"
  <2> SUFFICES ASSUME gone'[r] # {}, ~Delete(r)
               PROVE  /\ kind'[r] = kind[r] /\ at[r] \in Holding /\ at'[r] \in Holding
                      /\ at'[r] = "write" => impl = "rust"
    BY <1>2, <1>3 DEF GoneFits
  <2>1. gone[r] # {} /\ at[r] \in Holding \cup {"delete"} /\ kind[r] \in {"retag", "upload"}
        /\ (at[r] = "write" => impl = "rust")
    BY <1>2, <1>3 DEF GoneFits, Types
  <2>2. ~Autocommit(r) /\ kind'[r] = kind[r]
    BY <2>1, Keeps DEF Holding, Autocommit
  <2>3. Insert(r) \/ Write(r)
    <3>1. ~Gives(r) /\ ~Commit(r)
      BY GivesFacts, CommitFacts
    <3>2. ~Send(r) /\ ~Find(r) /\ ~Scan(r) /\ ~New(r) /\ ~StoreSubmission(r)
      BY <2>1, SendFacts, FindFacts, ScanFacts, NewFacts, StoreFacts DEF Holding
    <3> QED BY <3>1, <3>2, Split
  <2>4. CASE Insert(r)
    <3>1. PICK n : at'[r] = AfterRows(r, n)
      BY <2>4, InsertFacts
    <3>2. at[r] = "insert"
      BY <2>4, InsertFacts
    <3> QED BY <2>2, <3>1, <3>2 DEF AfterRows, Holding, Types
  <2>5. CASE Write(r)
    <3>1. at[r] = "write" /\ impl = "rust"
      BY <2>1, <2>5, WriteFacts
    <3>2. at'[r] = "commit"
      BY <2>2, <2>5, <3>1, WriteFacts
    <3> QED BY <2>2, <3>1, <3>2 DEF Holding
  <2> QED BY <2>3, <2>4, <2>5
<1>8. /\ at'[r] \notin Holding \cup {"delete"} \/ kind'[r] \notin {"retag", "upload"} => gone'[r] = {}
      /\ at'[r] = "write" /\ impl' = "ts" => gone'[r] = {}
      /\ gone'[r] \subseteq store' /\ (at'[r] \in Holding => Whole(gone'[r]))
      /\ \A x \in gone'[r] : x.item \in Table(r)'
      /\ \A q \in Requests \ {r} : gone'[q] \cap gone'[r] = {}
  <2>1. CASE gone'[r] = {}
    BY <2>1 DEF Whole
  <2>2. CASE Delete(r)
    BY <1>1, <1>4, <1>5, <2>2 DEF Holding, request, Table
  <2>3. CASE /\ gone'[r] = gone[r] /\ store \subseteq store' /\ gone[r] # {} /\ kind'[r] = kind[r]
             /\ at[r] \in Holding /\ at'[r] \in Holding /\ kind[r] \in {"retag", "upload"}
             /\ at'[r] = "write" => impl = "rust"
    <3>1. gone[r] \subseteq store /\ Whole(gone[r]) /\ \A x \in gone[r] : x.item \in Table(r)
      BY <1>3, <2>3 DEF GoneFits
    <3>2. \A q \in Requests \ {r} : gone'[q] \cap gone'[r] = {}
      BY <1>3, <1>5, <2>3 DEF GoneFits
    <3> QED BY <1>1, <2>3, <3>1, <3>2 DEF Table
  <2> QED BY <1>7, <2>1, <2>2, <2>3
<1>9. ASSUME NEW q \in Requests \ {r}
      PROVE  /\ at'[q] \notin Holding \cup {"delete"} \/ kind'[q] \notin {"retag", "upload"} =>
                  gone'[q] = {}
             /\ at'[q] = "write" /\ impl' = "ts" => gone'[q] = {}
             /\ gone'[q] \subseteq store' /\ (at'[q] \in Holding => Whole(gone'[q]))
             /\ \A x \in gone'[q] : x.item \in Table(q)'
             /\ \A p \in Requests \ {q} : gone'[p] \cap gone'[q] = {}
  <2>1. \A p \in Requests \ {q} : gone'[p] \cap gone'[q] = {}
    <3>1. gone'[r] \cap gone'[q] = {}
      BY <1>8
    <3>2. \A p \in Requests \ {q, r} : gone'[p] \cap gone'[q] = {}
      BY <1>3, <1>5 DEF GoneFits
    <3> QED BY <3>1, <3>2
  <2> QED BY <1>1, <1>3, <1>5, <2>1 DEF GoneFits
<1> QED BY <1>8, <1>9 DEF GoneFits, Whole

(* Every row and every column is by a request that took effect.            *)
LEMMA NextStored ==
  ASSUME Types, Types', NEW r \in Requests, \A q \in Requests : Own(q), \A q \in Requests : Own(q)',
         Hands, Acts(r)
  PROVE  StoreFits'
<1>1. /\ \A q \in Requests : took[q] => took'[q]
      /\ impl' = impl
  BY Keeps
<1>2. ASSUME NEW x \in store', x.by # Nobody
      PROVE  /\ kind'[x.by] \in Replacing /\ took'[x.by]
             /\ kind'[x.by] = "create" /\ impl' = "ts" => at'[x.by] = "over"
             /\ x.item \in Table(x.by)' /\ x \in RowsOf(x.by)'
  <2>1. CASE x \in store
    <3>1. x.by \in Requests \ {r} /\ SameAt(x.by) /\ at[x.by] # "idle"
      BY <1>2, <2>1, RowsBy DEF Hands
    <3>2. /\ kind[x.by] \in Replacing /\ took[x.by]
          /\ kind[x.by] = "create" /\ impl = "ts" => at[x.by] = "over"
          /\ x.item \in Table(x.by) /\ x \in RowsOf(x.by)
      BY <1>2, <2>1 DEF Hands, StoreFits
    <3>3. RowsOf(x.by)' = RowsOf(x.by)
      BY <3>1, Keeps
    <3>4. kind'[x.by] = kind[x.by] /\ at'[x.by] = at[x.by]
      BY <3>1 DEF SameAt
    <3> QED BY <1>1, <3>1, <3>2, <3>3, <3>4 DEF Table
  <2>2. CASE x \notin store
    <3>1. /\ x \in RowsOf(r) /\ x.by = r /\ x.item \in Table(r) /\ kind[r] \in Replacing
          /\ at[r] # "idle" /\ at'[r] = "over" /\ took'[r]
      BY <2>2, RowsBy DEF Hands
    <3>2. RowsOf(r)' = RowsOf(r) /\ kind'[r] = kind[r]
      BY <3>1, Keeps
    <3> QED BY <3>1, <3>2 DEF Table
  <2> QED BY <2>1, <2>2
<1>3. Whole(store')
  <2>1. Whole(store) /\ store \subseteq Rows
    BY DEF Hands, StoreFits, Types
  <2>2. ASSUME Whole(gone[r])
        PROVE  Whole(store \ gone[r])
    <3> SUFFICES ASSUME NEW x \in store \ gone[r], x.item \in CaseIds, NEW n \in CaseIds,
                        [by |-> x.by, item |-> n] \in gone[r]
                 PROVE  FALSE
      BY <2>1 DEF Whole
    <3>1. [by |-> x.by, item |-> x.item] \in gone[r]
      BY <2>2 DEF Whole
    <3>2. x = [by |-> x.by, item |-> x.item]
      BY <2>1 DEF Rows
    <3> QED BY <3>1, <3>2
  <2>3. kind[r] \in Replacing => Whole(RowsOf(r))
    BY RowsFacts DEF Own
  <2>4. CASE kind[r] \in Replacing /\ store' = store \cup RowsOf(r)
    BY <2>1, <2>3, <2>4 DEF Whole
  <2>5. CASE Commit(r) /\ kind[r] \in Replacing /\ store' = (store \ gone[r]) \cup RowsOf(r)
    <3>1. Whole(gone[r])
      BY <2>5, CommitFacts DEF Hands, GoneFits, Holding
    <3> QED BY <2>2, <2>3, <2>5, <3>1 DEF Whole
  <2> QED BY <2>1, <2>4, <2>5, Writes DEF Hands, Replacing
<1>4. ASSUME NEW f \in Fields, field'[f] # Nobody
      PROVE  took'[field'[f]]
  <2>1. field'[f] = field[f] \/ (field'[f] = r /\ took'[r])
    <3>1. CASE Gives(r) \/ Find(r) \/ Scan(r) \/ Send(r)
      BY <3>1, GivesFacts, FindFacts, ScanFacts, SendFacts DEF row, Stored
    <3>2. CASE Delete(r) \/ Insert(r) \/ Write(r) \/ StoreSubmission(r)
      BY <3>2, DeleteFacts, InsertFacts, WriteFacts, StoreFacts DEF row, Stored
    <3>3. CASE New(r)
      BY <3>3, NewFacts
    <3>4. CASE Commit(r)
      BY <3>4, CommitFacts
    <3> QED BY <3>1, <3>2, <3>3, <3>4, Split
  <2>2. field[f] # Nobody => took[field[f]] /\ field[f] \in Requests
    BY DEF Hands, StoreFits, Types
  <2> QED BY <1>1, <1>4, <2>1, <2>2
<1>5. ASSUME NEW q \in Requests, NEW x \in seen'[q], x.by # Nobody
      PROVE  took'[x.by]
  <2>1. CASE x \in seen[q]
    BY <1>1, <1>5, <2>1 DEF Hands, StoreFits, Types, Rows
  <2>2. CASE x \notin seen[q]
    <3>1. q = r
      BY <2>2, Others DEF SameAt
    <3>2. Scan(r)
      <4>1. ~Gives(r) /\ ~Delete(r)
        BY <2>2, <3>1, GivesFacts, DeleteFacts
      <4>2. ~Send(r) /\ ~Find(r) /\ ~Insert(r) /\ ~New(r)
        BY <2>2, <3>1, SendFacts, FindFacts, InsertFacts, NewFacts
      <4>3. ~Write(r) /\ ~Commit(r) /\ ~StoreSubmission(r)
        BY <2>2, <3>1, WriteFacts, CommitFacts, StoreFacts
      <4> QED BY <4>1, <4>2, <4>3, Split
    <3>3. x \in store
      BY <3>1, <3>2, ScanFacts
    <3> QED BY <1>1, <1>5, <3>3 DEF Hands, StoreFits, Types, Rows
  <2> QED BY <2>1, <2>2
<1> QED BY <1>2, <1>3, <1>4, <1>5 DEF StoreFits, Whole

(* The problem comes with its creation, and stays. *)
LEMMA ThereGrows ==
  ASSUME Types, NEW r \in Requests, Own(r), Acts(r)
  PROVE  /\ there => there'
         /\ there' => there \/ (kind[r] = "create" /\ kind'[r] = "create" /\ took'[r])
<1>1. CASE Gives(r) \/ Find(r) \/ Scan(r) \/ Send(r)
  BY <1>1, GivesFacts, FindFacts, ScanFacts, SendFacts DEF row, Stored
<1>2. CASE Delete(r) \/ Insert(r) \/ Write(r) \/ StoreSubmission(r)
  BY <1>2, DeleteFacts, InsertFacts, WriteFacts, StoreFacts DEF row, Stored
<1>3. CASE New(r)
  <2>1. kind[r] = "create" /\ kind' = kind
    BY <1>3, NewFacts DEF Own, StageFits, Types, Kinds, request
  <2> QED BY <1>3, <2>1, NewFacts
<1>4. CASE Commit(r)
  <2>1. kind' = kind /\ took'[r] = TRUE /\ there' = (there \/ kind[r] = "create")
    BY <1>4, CommitFacts DEF request
  <2> QED BY <2>1
<1> QED BY <1>1, <1>2, <1>3, <1>4, Split

(* Nothing happens to the problem before it is created. *)
LEMMA NextThere ==
  ASSUME Types, Types', NEW r \in Requests, \A q \in Requests : Own(q), \A q \in Requests : Own(q)',
         BeforeIsOver, BeforeIsOver', Hands, Acts(r)
  PROVE  ThereFits'
<1>1. /\ \A q \in Requests : took[q] => took'[q]
      /\ impl' = impl /\ at[r] # "over"
  BY Keeps
<1>2. ASSUME NEW q \in Requests, kind'[q] = "create"
      PROVE  \/ kind[q] = "create"
             \/ q = r /\ Send(r) /\ ~there /\ \A p \in Requests : kind[p] # "create"
  <2>1. CASE q = r /\ Send(r)
    BY <1>2, <2>1, SendFacts
  <2>2. CASE q # r \/ ~Send(r)
    BY <1>2, <2>2, Others, ActsOpen DEF SameAt, request
  <2> QED BY <2>1, <2>2
<1>3. \A p, q \in Requests : kind'[p] = "create" /\ kind'[q] = "create" => q = p
  BY <1>2 DEF Hands, ThereFits
<1>4. /\ there => there'
      /\ there' => there \/ (kind[r] = "create" /\ kind'[r] = "create" /\ took'[r])
  BY ThereGrows
<1>5. ASSUME NEW q \in Requests, kind'[q] = "create", ~took'[q]
      PROVE  ~there'
  <2>1. ~took[q]
    BY <1>1, <1>5
  <2>2. ~there
    BY <1>2, <1>5, <2>1 DEF Hands, ThereFits
  <2>3. ~(kind[r] = "create" /\ kind'[r] = "create" /\ took'[r])
    BY <1>3, <1>5
  <2> QED BY <1>4, <2>2, <2>3
<1>6. ASSUME NEW q \in Requests, kind'[q] = "create", NEW x \in store'
      PROVE  x.by \notin Past(q)'
  <2>1. CASE x \in store
    <3>1. kind[q] = "create"
      BY <1>2, <1>6, <2>1 DEF Hands, ThereFits
    <3>2. at[q] # "idle"
      BY <3>1 DEF Own, StageFits
    <3>3. before'[q] = before[q]
      BY <3>2, Keeps
    <3> QED BY <2>1, <3>1, <3>3, PastFacts DEF Hands, ThereFits
  <2>2. CASE x \notin store
    <3>1. x.by = r /\ at[r] # "idle"
      BY <2>2, <1>6, RowsBy DEF Hands
    <3>2. ~Send(r)
      BY <3>1, SendFacts
    <3>3. before'[q] = before[q]
      BY <3>2, Others, ActsOpen DEF SameAt, request
    <3>4. r \notin before[q] /\ r # Nobody
      BY <1>1, StoreAssumption DEF BeforeIsOver
    <3> QED BY <3>1, <3>3, <3>4, PastFacts
  <2> QED BY <2>1, <2>2
<1>7. ASSUME ~there'
      PROVE  store' = {} /\ \A q \in Requests :
               ~took'[q] /\ (kind'[q] # "create" => at'[q] \in {"idle", "find", "over"})
  <2>1. ~there /\ store = {}
    BY <1>4, <1>7 DEF Hands, ThereFits
  <2>2. \A q \in Requests : ~took[q] /\ (kind[q] # "create" => at[q] \in {"idle", "find", "over"})
    BY <2>1 DEF Hands, ThereFits
  <2>3. \/ Send(r)
        \/ Gives(r)
        \/ /\ kind[r] = "create" /\ kind'[r] = "create" /\ took'[r] = FALSE /\ store' = store
    <3>1. CASE kind[r] = "create"
      <4>1. at[r] \in {"new", "insert", "commit"} /\ at[r] # "idle"
        BY <1>1, <3>1 DEF Own, StageFits
      <4>2. kind'[r] = "create"
        BY <3>1, <4>1, Keeps
      <4>3. ~Commit(r)
        BY <1>7, <3>1, CommitFacts
      <4>4. CASE New(r)
        <5>1. ~Autocommit(r)
          BY <1>7, <4>4, NewFacts
        <5>2. took' = took /\ store' = store
          BY <4>4, <5>1, NewFacts
        <5> QED BY <2>2, <3>1, <4>2, <5>2 DEF Types
      <4>5. CASE Insert(r)
        <5>1. impl # "ts" /\ at[r] = "insert"
          BY <2>2, <3>1, <4>5, InsertFacts DEF Own, TookFits
        <5>2. ~Autocommit(r)
          BY <3>1, <5>1 DEF Autocommit
        <5>3. took' = took /\ store' = store
          BY <4>5, <5>2, InsertFacts
        <5> QED BY <2>2, <3>1, <4>2, <5>3 DEF Types
      <4>6. ~Find(r) /\ ~Scan(r) /\ ~Delete(r) /\ ~Write(r) /\ ~StoreSubmission(r)
        BY <4>1, FindFacts, ScanFacts, DeleteFacts, WriteFacts, StoreFacts
      <4> QED BY <4>3, <4>4, <4>5, <4>6, Split
    <3>2. CASE kind[r] # "create"
      <4>1. at[r] \in {"idle", "find"}
        BY <1>1, <2>2, <3>2
      <4>2. ~Find(r)
        BY <2>1, FindFacts
      <4>3. ~New(r) /\ ~Insert(r) /\ ~Commit(r)
        BY <4>1, NewFacts, InsertFacts, CommitFacts
      <4>4. ~Scan(r) /\ ~Delete(r) /\ ~Write(r) /\ ~StoreSubmission(r)
        BY <4>1, ScanFacts, DeleteFacts, WriteFacts, StoreFacts
      <4> QED BY <4>2, <4>3, <4>4, Split
    <3> QED BY <3>1, <3>2
  <2>4. store' = {} /\ ~took'[r] /\ (kind'[r] # "create" => at'[r] \in {"idle", "find", "over"})
    <3>1. CASE Send(r)
      BY <2>1, <2>2, <3>1, SendFacts DEF Stored
    <3>2. CASE Gives(r)
      BY <2>1, <2>2, <3>2, GivesFacts
    <3> QED BY <2>1, <2>3, <3>1, <3>2
  <2>5. ASSUME NEW q \in Requests \ {r}
        PROVE  ~took'[q] /\ (kind'[q] # "create" => at'[q] \in {"idle", "find", "over"})
    <3>1. took'[q] = took[q] /\ kind'[q] = kind[q] /\ at'[q] = at[q]
      BY Others DEF SameAt
    <3> QED BY <2>2, <3>1
  <2> QED BY <2>4, <2>5
<1> QED BY <1>3, <1>5, <1>6, <1>7 DEF ThereFits

(* A commit of another takes whole uploads out of the reach of a DELETE.   *)
LEMMA ReachStays ==
  ASSUME Types, Types', NEW r \in Requests, NEW q \in Requests \ {r}, \A p \in Requests : Own(p),
         Hands, Acts(r), Whole(Reach(q))
  PROVE  Whole(Reach(q)')
<1>1. seen'[q] = seen[q] /\ gone'[q] = gone[q]
  BY Others DEF SameAt
<1>2. store \ gone[r] \subseteq store' /\ gone[q] \cap gone[r] = {} /\ gone[q] \subseteq store
  BY RowsBy DEF Hands, GoneFits
<1> SUFFICES ASSUME NEW x \in Reach(q)', x.item \in CaseIds, NEW n \in CaseIds
             PROVE  [by |-> x.by, item |-> n] \in Reach(q)'
  BY DEF Whole
<1> DEFINE y == [by |-> x.by, item |-> n]
<1>3. x \in Rows /\ x = [by |-> x.by, item |-> x.item]
  <2>1. x \in Rows
    BY <1>1 DEF Reach, Types
  <2> QED BY <2>1 DEF Rows
<1>4. CASE x \notin store
  <2>1. x \in seen[q] /\ x \in store' \ store
    BY <1>1, <1>2, <1>4 DEF Reach
  <2>2. /\ x.by = r /\ x.item \in Table(r) /\ at[r] # "idle"
        /\ at[r] = "commit" \/ (kind[r] = "create" /\ impl = "ts")
    BY <2>1, RowsBy DEF Hands
  <2>3. took[r]
    BY <2>1, <2>2, StoreAssumption DEF Hands, StoreFits
  <2>4. kind[r] = "create"
    BY <2>2, <2>3 DEF Own, TookFits
  <2> QED BY <2>2, <2>4, Tables DEF Table
<1>5. CASE x \in store
  <2>1. x \in Reach(q)
    BY <1>1, <1>5 DEF Reach
  <2>2. y \in Reach(q)
    BY <2>1 DEF Whole
  <2>3. CASE ~Commit(r)
    <3>1. store \subseteq store'
      BY <2>3, Writes DEF Hands
    <3> QED BY <1>1, <2>2, <3>1 DEF Reach
  <2>4. CASE Commit(r)
    <3>1. at[r] = "commit"
      BY <2>4, CommitFacts
    <3>2. Whole(gone[r])
      BY <3>1 DEF Hands, GoneFits, Holding
    <3>3. y \in gone[r] => x \in gone[r]
      BY <1>3, <3>2 DEF Whole
    <3>4. ASSUME y \in gone[r]
          PROVE  FALSE
      <4>1. x \in gone[r] /\ x \in store'
        BY <1>1, <1>2, <3>3, <3>4 DEF Reach
      <4>2. x \in mine[r]
        BY <2>4, <4>1, CommitFacts
      <4>3. mine[r] \subseteq RowsOf(r) /\ kind[r] \in Replacing
        BY <3>1, <4>2 DEF Own, MineFits
      <4>4. x.by = r
        BY <4>2, <4>3, RowsFacts DEF Own
      <4> QED BY <1>5, <4>4, RowsBy DEF Hands
    <3> QED BY <1>1, <1>2, <2>2, <3>4 DEF Reach
  <2> QED BY <2>3, <2>4
<1> QED BY <1>4, <1>5

(* What is old stays old while its request goes on.                        *)
LEMMA OldStays ==
  ASSUME Types, Types', NEW r \in Requests, \A q \in Requests : Own(q), Hands, Acts(r),
         UNCHANGED request, NEW x \in store
  PROVE  Old(r, x)' => Old(r, x)
<1>1. Past(r)' = Past(r) /\ Table(r)' = Table(r) /\ impl' = impl /\ kind' = kind
  BY Keeps DEF Past, Table, request
<1> QED BY <1>1 DEF Old

(* Who replaces rows has all the old ones in its hands. *)
LEMMA NextOld ==
  ASSUME Types, Types', NEW r \in Requests, \A q \in Requests : Own(q), \A q \in Requests : Own(q)',
         BeforeIsOver, Hands, Acts(r)
  PROVE  OldIsHeld'
<1>1. /\ impl' = impl /\ at[r] # "over"
      /\ \A x \in store : x.by # Nobody => kind'[x.by] = kind[x.by]
  BY Keeps, RowsBy DEF Hands, SameAt
<1>2. ASSUME NEW q \in Requests \ {r}
      PROVE  /\ at'[q] = "delete" =>
                  /\ \A x \in store' : Old(q, x)' => x \in seen'[q] \cup gone'[q]
                  /\ Whole(Reach(q)') /\ \A x \in seen'[q] : x.item \in Table(q)'
             /\ Cleared(q)' => \A x \in store' : Old(q, x)' => x \in gone'[q]
  <2>1. /\ SameAt(q) /\ Table(q)' = Table(q) /\ (Cleared(q)' <=> Cleared(q))
        /\ Past(q)' = Past(q)
    BY <1>1, Others DEF SameAt, Table, Cleared, Past
  <2>2. ASSUME NEW x \in store', Old(q, x)', at[q] = "delete" \/ Cleared(q)
        PROVE  x \in store /\ Old(q, x)
    <3>1. x \in store
      <4> SUFFICES ASSUME x \notin store PROVE FALSE
        OBVIOUS
      <4>1. /\ x.by = r /\ kind[r] \in Replacing /\ at[r] # "idle"
            /\ at[r] = "commit" \/ (kind[r] = "create" /\ impl = "ts")
        BY <2>2, RowsBy DEF Hands
      <4>2. kind'[r] = kind[r]
        BY <4>1, Keeps
      <4>3. r \notin before'[q]
        BY <1>1, <2>1 DEF BeforeIsOver, SameAt
      <4>4. kind[q] \in {"retag", "upload"} /\ at[q] \in {"delete", "insert", "write", "commit"}
            /\ (at[q] = "write" => impl = "rust")
        BY <2>2 DEF Own, StageFits, Cleared, Holding, Types, Kinds
      <4>5. CASE impl = "rust" /\ kind[r] = "create"
        <5>1. ~took[r]
          BY <1>1, <4>1, <4>5 DEF Own, TookFits
        <5>2. ~there
          BY <4>5, <5>1 DEF Hands, ThereFits
        <5> QED BY <4>4, <5>2 DEF Hands, ThereFits
      <4>6. CASE impl = "ts" /\ kind[q] = "retag" /\ kind[r] = "retag"
        <5>1. Locks(q) /\ Locks(r)
          BY <4>1, <4>4, <4>6 DEF Locks
        <5> QED BY <5>1 DEF Own, LockFits
      <4>7. x.by \notin Past(q)'
        BY <4>1, <4>3, PastFacts, StoreAssumption
      <4>8. x.by = r /\ kind'[q] = kind[q]
        BY <2>1, <4>1 DEF SameAt
      <4> QED BY <1>1, <2>2, <4>2, <4>5, <4>6, <4>7, <4>8 DEF Old
    <3>2. CASE x.by = Nobody
      <4>1. x.by \in Past(q)
        BY <3>2, PastFacts
      <4> QED BY <2>1, <2>2, <3>1, <4>1 DEF Old
    <3>3. CASE x.by # Nobody
      <4>1. kind'[x.by] = kind[x.by] /\ kind'[q] = kind[q]
        BY <1>1, <2>1, <3>1, <3>3 DEF SameAt
      <4> QED BY <1>1, <2>1, <2>2, <3>1, <4>1 DEF Old
    <3> QED BY <3>2, <3>3
  <2>3. at[q] = "delete" =>
          /\ \A x \in store : Old(q, x) => x \in seen[q] \cup gone[q]
          /\ Whole(Reach(q)') /\ \A x \in seen[q] : x.item \in Table(q)
    BY ReachStays DEF Hands, OldIsHeld
  <2>4. Cleared(q) => \A x \in store : Old(q, x) => x \in gone[q]
    BY DEF Hands, OldIsHeld
  <2> QED BY <2>1, <2>2, <2>3, <2>4 DEF SameAt
<1>3. /\ at'[r] = "delete" =>
           /\ \A x \in store' : Old(r, x)' => x \in seen'[r] \cup gone'[r]
           /\ Whole(Reach(r)') /\ \A x \in seen'[r] : x.item \in Table(r)'
      /\ Cleared(r)' => \A x \in store' : Old(r, x)' => x \in gone'[r]
  <2>1. CASE Scan(r)
    <3>1. /\ seen'[r] = {x \in store : x.item \in Tags <=> kind[r] = "retag"}
          /\ UNCHANGED request /\ store' = store
          /\ (at[r] = "scan" /\ at'[r] = "delete") \/ at'[r] = "store"
      BY <2>1, ScanFacts DEF Stored
    <3>2. ~Cleared(r)'
      BY <3>1 DEF Cleared, Holding
    <3>3. ASSUME at'[r] = "delete"
          PROVE  kind[r] = "retag" \/ kind[r] = "upload"
      BY <3>1, <3>3 DEF Own, StageFits, Types, Kinds
    <3>4. Table(r)' = Table(r)
      BY <3>1 DEF Table, request
    <3>5. ASSUME at'[r] = "delete", NEW x \in store
          PROVE  x.item \in Table(r) <=> x \in seen'[r]
      <4>1. x.item \in Tags \cup CaseIds
        BY <3>5 DEF Types, Rows
      <4> QED BY <3>1, <3>3, <3>5, <4>1, Tables DEF Table
    <3>6. ASSUME at'[r] = "delete"
          PROVE  Whole(seen'[r])
      <4> SUFFICES ASSUME NEW x \in seen'[r], x.item \in CaseIds, NEW n \in CaseIds
                   PROVE  [by |-> x.by, item |-> n] \in seen'[r]
        BY DEF Whole
      <4>1. x \in store /\ x.item \in Table(r)
        BY <3>1, <3>5, <3>6
      <4>2. Table(r) = CaseIds
        BY <4>1, Tables
      <4>3. [by |-> x.by, item |-> n] \in store
        BY <4>1 DEF Hands, StoreFits, Whole
      <4> QED BY <3>5, <3>6, <4>2, <4>3
    <3>7. \A x \in store' : Old(r, x)' => x.item \in Table(r)
      BY <3>4 DEF Old
    <3>8. ASSUME at'[r] = "delete"
          PROVE  Reach(r)' = seen'[r]
      <4>1. gone'[r] = {} /\ seen'[r] \subseteq store'
        BY <2>1, <3>1, <3>8, ScanFacts DEF Hands, GoneFits, Holding
      <4> QED BY <4>1 DEF Reach
    <3> QED BY <3>1, <3>2, <3>4, <3>5, <3>6, <3>7, <3>8
  <2>2. CASE Delete(r)
    <3>1. at[r] = "delete" /\ UNCHANGED request /\ store' = store
      BY <2>2, DeleteFacts DEF Stored
    <3>2. PICK X \in SUBSET seen[r] :
            seen'[r] = seen[r] \ X /\ gone'[r] = gone[r] \cup (X \cap store)
      BY <2>2, DeleteFacts
    <3>3. /\ \A x \in store : Old(r, x) => x \in seen[r] \cup gone[r]
          /\ Whole(Reach(r)) /\ \A x \in seen[r] : x.item \in Table(r)
      BY <3>1 DEF Hands, OldIsHeld
    <3>4. \A x \in store : Old(r, x)' => Old(r, x)
      BY <3>1, OldStays
    <3>5. Table(r)' = Table(r)
      BY <3>1 DEF Table, request
    <3>6. CASE at'[r] = "delete"
      <4>1. ~Cleared(r)'
        BY <3>6 DEF Cleared, Holding
      <4>2. Reach(r)' = Reach(r)
        BY <3>1, <3>2 DEF Reach
      <4>3. \A x \in store : x \in seen[r] \cup gone[r] => x \in seen'[r] \cup gone'[r]
        BY <3>2
      <4> QED BY <3>1, <3>2, <3>3, <3>4, <3>5, <4>1, <4>2, <4>3
    <3>7. CASE at'[r] # "delete"
      <4>1. seen'[r] = {}
        BY <2>2, <3>7, DeleteFacts
      <4>2. \A x \in store : x \in seen[r] \cup gone[r] => x \in gone'[r]
        BY <3>2, <4>1
      <4> QED BY <3>1, <3>3, <3>4, <3>7, <4>2
    <3> QED BY <3>6, <3>7
  <2>3. CASE Insert(r) \/ Write(r)
    <3>1. /\ UNCHANGED request /\ gone' = gone /\ at[r] \in {"insert", "write"}
          /\ Write(r) => at[r] = "write"
      BY <2>3, InsertFacts, WriteFacts
    <3>2. at'[r] # "delete"
      <4>1. CASE Insert(r)
        BY <4>1, InsertFacts DEF AfterRows
      <4>2. CASE Write(r)
        BY <4>2, WriteFacts DEF Ends
      <4> QED BY <2>3, <4>1, <4>2
    <3>3. ASSUME Cleared(r)'
          PROVE  Cleared(r) /\ store' = store
      <4>1. kind[r] \in {"retag", "upload"} /\ ~Autocommit(r)
        BY <3>1, <3>3 DEF Cleared, Autocommit, request
      <4>2. CASE Insert(r)
        BY <4>1, <4>2, InsertFacts DEF Cleared, Holding
      <4>3. CASE Write(r)
        <5>1. store' = store /\ at'[r] = IF kind[r] = "retag" /\ impl = "ts" THEN "scan" ELSE "commit"
          BY <4>1, <4>3, WriteFacts
        <5>2. kind[r] = "retag" /\ at[r] = "write"
          BY <3>1, <4>1, <4>3 DEF Own, StageFits
        <5>3. impl = "rust"
          BY <3>3, <5>1, <5>2 DEF Cleared, Holding, Types
        <5> QED BY <5>1, <5>2, <5>3 DEF Cleared, Holding
      <4> QED BY <2>3, <4>2, <4>3
    <3>4. \A x \in store : Old(r, x)' => Old(r, x)
      BY <3>1, OldStays
    <3> QED BY <3>1, <3>2, <3>3, <3>4 DEF Hands, OldIsHeld
  <2>4. CASE Send(r) \/ Gives(r) \/ Commit(r) \/ StoreSubmission(r)
    <3>1. at'[r] \in {"new", "find", "over"}
      BY <2>4, SendFacts, GivesFacts, CommitFacts, StoreFacts DEF Ends
    <3> QED BY <3>1 DEF Cleared, Holding
  <2>5. CASE New(r)
    <3>1. at[r] = "new" /\ kind' = kind /\ at'[r] = AfterRows(r, 0)
      BY <2>5, NewFacts DEF request
    <3>2. kind[r] = "create"
      BY <3>1 DEF Own, StageFits, Types, Kinds
    <3>3. at'[r] # "delete"
      BY <3>1 DEF AfterRows
    <3> QED BY <3>1, <3>2, <3>3 DEF Cleared
  <2>6. CASE Find(r)
    <3>1. at[r] \in {"find", "find again"} /\ at[r] # "idle" /\ kind'[r] = kind[r]
      BY <2>6, FindFacts DEF request
    <3>2. kind[r] # "none" /\ kind[r] # "create"
      BY <3>1 DEF Own, StageFits
    <3>3. at'[r] \notin {"delete", "insert", "commit"}
      BY <2>6, <3>2, FindFacts DEF Types, Kinds
    <3>4. at'[r] = "write" => kind[r] \in {"update", "delete"} \/ impl = "ts"
      BY <2>6, <3>2, FindFacts DEF Types, Kinds
    <3> QED BY <1>1, <3>1, <3>3, <3>4 DEF Cleared, Holding
  <2> QED BY <2>1, <2>2, <2>3, <2>4, <2>5, <2>6, Split
<1> QED BY <1>2, <1>3 DEF OldIsHeld

(* What a commit takes away it replaces. *)
LEMMA TakenAway ==
  ASSUME Types, Types', NEW r \in Requests, \A q \in Requests : Own(q), Hands, Acts(r),
         NEW x \in store, x \notin store'
  PROVE  /\ Commit(r) /\ x \in gone[r] /\ x.item \in Table(r) /\ kind[r] \in {"retag", "upload"}
         /\ took'[r] /\ kind'[r] = kind[r] /\ RowsOf(r) \subseteq store'
<1>1. Commit(r) /\ store' = (store \ gone[r]) \cup RowsOf(r)
  BY Writes DEF Hands
<1>2. x \in gone[r]
  BY <1>1
<1>3. kind[r] \in {"retag", "upload"} /\ x.item \in Table(r)
  BY <1>2 DEF Hands, GoneFits
<1> QED BY <1>1, <1>2, <1>3, CommitFacts DEF request

LEMMA NextStands ==
  ASSUME Types, Types', NEW r \in Requests, \A q \in Requests : Own(q), \A q \in Requests : Own(q)',
         BeforeIsOver, BeforeIsOver', Hands, TookStands, Acts(r)
  PROVE  TookStands'
<1>1. /\ impl' = impl /\ at[r] # "over" /\ (there => there')
      /\ \A q \in Requests : took[q] => took'[q] /\ at[q] # "idle"
      /\ \A q \in Requests : r \notin before'[q] \/ Send(r)
  BY Keeps, ThereGrows, Others, ActsOpen DEF BeforeIsOver, SameAt, request
<1>2. deleted => deleted'
  <2>1. CASE Gives(r) \/ Find(r) \/ Scan(r) \/ Send(r)
    BY <2>1, GivesFacts, FindFacts, ScanFacts, SendFacts DEF row, Stored
  <2>2. CASE Delete(r) \/ Insert(r) \/ New(r) \/ StoreSubmission(r)
    BY <2>2, DeleteFacts, InsertFacts, NewFacts, StoreFacts DEF row, Stored
  <2>3. CASE Write(r)
    BY <2>3, WriteFacts
  <2>4. CASE Commit(r)
    BY <2>4, CommitFacts
  <2> QED BY <2>1, <2>2, <2>3, <2>4, Split
<1>3. \A f \in Fields : field'[f] = field[f] \/ (field'[f] = r /\ ~Send(r))
  <2>1. CASE Gives(r) \/ Find(r) \/ Scan(r) \/ Send(r)
    BY <2>1, GivesFacts, FindFacts, ScanFacts, SendFacts DEF row, Stored
  <2>2. CASE Delete(r) \/ Insert(r) \/ Write(r) \/ StoreSubmission(r)
    BY <2>2, DeleteFacts, InsertFacts, WriteFacts, StoreFacts DEF row, Stored
  <2>3. CASE New(r)
    <3>1. ~Send(r)
      BY <2>3, NewFacts, SendFacts
    <3> QED BY <2>3, <3>1, NewFacts
  <2>4. CASE Commit(r)
    <3>1. ~Send(r)
      BY <2>4, CommitFacts, SendFacts
    <3> QED BY <2>4, <3>1, CommitFacts
  <2> QED BY <2>1, <2>2, <2>3, <2>4, Split
<1>4. ASSUME NEW q \in Requests, took[q]
      PROVE  /\ \A f \in Fields : Sets(q, f)' => there' /\ field'[f] \notin Past(q)'
             /\ kind'[q] = "delete" => deleted'
  <2>1. kind'[q] = kind[q] /\ sets'[q] = sets[q] /\ before'[q] = before[q]
    BY <1>1, <1>4, Keeps
  <2>2. \A f \in Fields : Sets(q, f) => there /\ field[f] \notin Past(q)
    BY <1>4 DEF TookStands
  <2>3. kind[q] = "delete" => deleted
    BY <1>4 DEF TookStands
  <2>4. \A f \in Fields : Sets(q, f)' <=> Sets(q, f)
    BY <2>1 DEF Sets
  <2>5. Past(q)' = Past(q) /\ (~Send(r) => r \notin Past(q)')
    <3>1. Past(q) = before[q] \cup {Nobody} /\ Past(q)' = before'[q] \cup {Nobody}
      BY PastFacts
    <3>2. r # Nobody /\ (r \notin before'[q] \/ Send(r))
      BY <1>1, StoreAssumption
    <3> QED BY <2>1, <3>1, <3>2
  <2> QED BY <1>1, <1>2, <1>3, <2>1, <2>2, <2>3, <2>4, <2>5
<1>5. ASSUME took'[r], ~took[r]
      PROVE  /\ \A f \in Fields : Sets(r, f)' => there' /\ field'[f] \notin Past(r)'
             /\ kind'[r] = "delete" => deleted'
  <2>1. r \notin Past(r)'
    BY PastFacts, StoreAssumption DEF BeforeIsOver
  <2>2. CASE New(r)
    <3>1. kind'[r] = "create"
      <4>1. at[r] = "new" /\ kind' = kind
        BY <2>2, NewFacts DEF request
      <4> QED BY <4>1 DEF Own, StageFits, Types, Kinds
    <3>2. Autocommit(r)
      BY <1>5, <2>2, NewFacts
    <3>3. there' = TRUE /\ field' = [f \in Fields |-> r]
      BY <2>2, <3>2, NewFacts
    <3> QED BY <2>1, <3>1, <3>3
  <2>3. CASE Write(r)
    <3>1. Autocommit(r) /\ kind'[r] = kind[r] /\ sets' = sets
      BY <1>5, <2>3, WriteFacts DEF request
    <3>2. kind[r] = "delete"
      BY <2>3, <3>1, WriteFacts DEF Own, StageFits, Autocommit
    <3> QED BY <2>3, <3>1, <3>2, WriteFacts DEF Sets
  <2>4. CASE Commit(r)
    <3>1. at[r] = "commit" /\ kind'[r] = kind[r] /\ sets' = sets
      BY <2>4, CommitFacts DEF request
    <3>2. kind[r] # "delete"
      BY <3>1 DEF Own, StageFits
    <3>3. kind[r] = "create" => there'
      BY <2>4, CommitFacts
    <3>4. kind[r] # "create" => there'
      BY <1>1, <3>1 DEF Hands, ThereFits
    <3>5. kind[r] \in {"update", "retag"} => lock = r
      BY <3>1 DEF Own, LockFits, Locks
    <3>6. \A f \in Fields : Sets(r, f)' => field'[f] = r
      <4>1. \A f \in Fields : kind[r] = "create" \/ (lock = r /\ f \in sets[r]) => field'[f] = r
        BY <2>4, CommitFacts
      <4>2. \A f \in Fields : Sets(r, f)' => kind[r] = "create" \/ (lock = r /\ f \in sets[r])
        BY <3>1, <3>5 DEF Sets
      <4> QED BY <4>1, <4>2
    <3> QED BY <2>1, <3>1, <3>2, <3>3, <3>4, <3>6
  <2>5. CASE StoreSubmission(r)
    <3>1. kind'[r] = "submit"
      <4>1. at[r] = "store" /\ kind' = kind
        BY <2>5, StoreFacts DEF request
      <4> QED BY <4>1 DEF Own, StageFits, Types, Kinds
    <3> QED BY <3>1 DEF Sets
  <2>6. took' = took => FALSE
    BY <1>5
  <2>7. Gives(r) \/ Find(r) \/ Scan(r) \/ Send(r) \/ Delete(r) \/ Insert(r) => took' = took
    BY GivesFacts, FindFacts, ScanFacts, SendFacts, DeleteFacts, InsertFacts
  <2> QED BY <2>2, <2>3, <2>4, <2>5, <2>6, <2>7, Split
<1>6. ASSUME NEW q \in Requests, Done(q), kind[q] \in Replacing
      PROVE  Replaced(q)'
  <2>1. q # r /\ took[q] /\ Replaced(q) /\ at[q] # "idle"
    BY <1>1, <1>6 DEF Done, TookStands
  <2>2. SameAt(q) /\ Table(q)' = Table(q) /\ Past(q)' = Past(q)
    BY <2>1, Others DEF SameAt, Table, Past
  <2>3. \A i : RowOf(q, i)' = RowOf(q, i)
    BY <2>2 DEF RowOf, SameAt
  <2>4. ASSUME NEW x \in store', x.item \in Table(q)
        PROVE  x.by \notin Past(q)
    <3>1. CASE x \in store
      BY <2>1, <2>4, <3>1 DEF Replaced
    <3>2. CASE x \notin store
      BY <1>1, <2>4, <3>2, RowsBy, PastFacts, StoreAssumption DEF Hands, BeforeIsOver
    <3> QED BY <3>1, <3>2
  <2>5. ASSUME NEW p \in Requests \ {q},
               took[p] /\ kind[p] \in Replacing /\ Table(p) = Table(q) /\ p \notin before[q]
        PROVE  took'[p] /\ kind'[p] \in Replacing /\ Table(p)' = Table(q)' /\ p \notin before'[q]
    <3>1. took'[p] /\ kind'[p] = kind[p]
      BY <1>1, <2>5, Keeps
    <3> QED BY <2>2, <2>5, <3>1 DEF Table, SameAt
  <2>6. ASSUME NEW i \in DOMAIN wanted[q], RowOf(q, i) \in store, RowOf(q, i) \notin store'
        PROVE  took'[r] /\ kind'[r] \in Replacing /\ Table(r)' = Table(q)' /\ r \notin before'[q]
    <3>1. /\ RowOf(q, i).item \in Table(r) /\ took'[r] /\ kind'[r] = kind[r]
          /\ kind[r] \in {"retag", "upload"}
      BY <2>6, TakenAway
    <3>2. RowOf(q, i).by = q
      BY DEF RowOf
    <3>3. RowOf(q, i).item \in Table(q)
      BY <2>6, <3>2, StoreAssumption DEF Hands, StoreFits
    <3>4. Table(r)' = Table(q)'
      BY <2>2, <3>1, <3>3, Tables DEF Table
    <3>5. r \notin before'[q]
      BY <1>1, <2>2 DEF BeforeIsOver, SameAt
    <3> QED BY <3>1, <3>4, <3>5 DEF Replacing
  <2>7. \/ \A i \in DOMAIN wanted'[q] : RowOf(q, i)' \in store'
        \/ \E p \in Requests \ {q} :
             took'[p] /\ kind'[p] \in Replacing /\ Table(p)' = Table(q)' /\ p \notin before'[q]
    <3>1. wanted'[q] = wanted[q]
      BY <2>2 DEF SameAt
    <3>2. CASE \A i \in DOMAIN wanted[q] : RowOf(q, i) \in store
      BY <2>1, <2>3, <2>6, <3>1, <3>2
    <3>3. CASE ~\A i \in DOMAIN wanted[q] : RowOf(q, i) \in store
      <4>1. PICK p \in Requests \ {q} :
              took[p] /\ kind[p] \in Replacing /\ Table(p) = Table(q) /\ p \notin before[q]
        BY <2>1, <3>3 DEF Replaced
      <4> QED BY <2>5, <4>1
    <3> QED BY <3>2, <3>3
  <2> QED BY <2>2, <2>4, <2>7 DEF Replaced, SameAt
<1>7. ASSUME Done(r)', kind'[r] \in Replacing
      PROVE  Replaced(r)'
  <2>1. r \notin Past(r)'
    BY PastFacts, StoreAssumption DEF BeforeIsOver
  <2>2. at[r] # "idle" /\ UNCHANGED request
    <3>1. ~Send(r)
      BY <1>7, SendFacts DEF Done
    <3>2. at[r] # "idle"
      BY <3>1, Split, GivesFacts, FindFacts, NewFacts, ScanFacts, DeleteFacts, InsertFacts,
         WriteFacts, CommitFacts, StoreFacts DEF Statements
    <3> QED BY <3>1, <3>2, ActsOpen
  <2>3. /\ kind'[r] = kind[r] /\ Table(r)' = Table(r) /\ Past(r)' = Past(r)
        /\ before'[r] = before[r]
        /\ \A i : RowOf(r, i)' = RowOf(r, i) /\ wanted'[r] = wanted[r]
    BY <2>2 DEF request, Table, RowOf, Past
  <2>4. kind[r] = "create" => \A x \in store : x.by \notin Past(r)
    BY DEF Hands, ThereFits
  <2>5. kind[r] \in Replacing => \A x \in RowsOf(r) : x.by = r
    BY RowsFacts DEF Own
  <2>6. ASSUME RowsOf(r) \subseteq store',
               \A x \in store' : x.item \in Table(r) => x.by \notin Past(r)
        PROVE  Replaced(r)'
    <3>1. \A i \in DOMAIN wanted[r] : RowOf(r, i) \in store'
      BY <2>6 DEF RowsOf
    <3> QED BY <2>3, <2>6, <3>1 DEF Replaced
  <2>7. CASE Commit(r)
    <3>1. store' = (store \ gone[r]) \cup RowsOf(r) /\ at[r] = "commit"
      <4>1. at[r] = "commit" /\ store' = (store \ gone[r]) \cup mine[r]
        BY <2>7, CommitFacts
      <4> QED BY <1>7, <2>3, <4>1 DEF Own, MineFits
    <3>2. ASSUME NEW x \in store \ gone[r], x.item \in Table(r), kind[r] # "create"
          PROVE  x.by \notin Past(r)
      <4>1. Cleared(r)
        BY <1>7, <2>3, <3>1, <3>2 DEF Cleared, Holding, Replacing
      <4> QED BY <3>2, <4>1 DEF Hands, OldIsHeld, Old
    <3> QED BY <1>7, <2>1, <2>3, <2>4, <2>5, <2>6, <3>1, <3>2
  <2>8. CASE Insert(r)
    <3>1. store' = store \cup RowsOf(r) /\ kind[r] = "create"
      <4>1. at'[r] = "over" /\ at[r] = "insert"
        BY <1>7, <2>8, InsertFacts DEF Done
      <4>2. Autocommit(r)
        BY <2>8, <4>1, InsertFacts, AfterRowsFacts
      <4>3. store' = store \cup Batch(r) /\ kind[r] = "create" /\ impl = "ts"
        BY <2>8, <4>1, <4>2, InsertFacts DEF Autocommit, Own, StageFits
      <4> QED BY <4>1, <4>3, BatchFacts DEF Own
    <3> QED BY <1>7, <2>1, <2>3, <2>4, <2>5, <2>6, <3>1
  <2>9. CASE New(r)
    <3>1. store' = store /\ kind[r] = "create" /\ ~(0 < Len(wanted[r]))
      <4>1. at'[r] = "over" /\ at'[r] = AfterRows(r, 0)
        BY <1>7, <2>9, NewFacts DEF Done
      <4>2. store' = store /\ at[r] = "new"
        BY <2>9, NewFacts
      <4>3. kind[r] = "create"
        BY <4>2 DEF Own, StageFits, Types, Kinds
      <4>4. ~(0 < Len(wanted[r]))
        BY <4>1, AfterRowsFacts
      <4> QED BY <4>2, <4>3, <4>4
    <3>2. RowsOf(r) = {}
      BY <3>1, WantedFacts DEF RowsOf
    <3> QED BY <2>4, <2>6, <3>1, <3>2
  <2>10. ~Find(r) /\ ~Scan(r)
    BY <1>7, FindFacts, ScanFacts DEF Done, Statements
  <2>11. ~Delete(r) /\ ~Write(r) /\ ~StoreSubmission(r)
    <3>1. ~StoreSubmission(r)
      BY <1>7, <2>3, StoreFacts DEF Own, StageFits, Replacing
    <3>2. kind[r] # "delete" /\ kind[r] \in {"create", "retag", "upload"}
      BY <1>7, <2>3 DEF Replacing
    <3>3. ASSUME Write(r)
          PROVE  FALSE
      <4>1. ~Autocommit(r)
        BY <3>2, <3>3, WriteFacts DEF Autocommit, Own, StageFits
      <4> QED BY <1>7, <3>3, <4>1, WriteFacts DEF Done
    <3>4. ASSUME Delete(r)
          PROVE  FALSE
      <4>1. ~Autocommit(r)
        BY <3>2, <3>4, DeleteFacts DEF Autocommit, Own, StageFits
      <4> QED BY <1>7, <3>4, <4>1, DeleteFacts, AfterRowsFacts DEF Done
    <3> QED BY <3>1, <3>3, <3>4
  <2>12. ~Gives(r)
    <3> SUFFICES ASSUME Gives(r) PROVE FALSE
      OBVIOUS
    <3>1. answer'[r] \in {"refused", "error"} /\ took' = took
      BY GivesFacts
    <3>2. Autocommit(r)' => FALSE
      BY <1>7, <3>1 DEF Done, Ok
    <3>3. took[r] /\ kind[r] = kind'[r]
      BY <1>7, <2>3, <3>1 DEF Done
    <3> QED BY <1>1, <3>2, <3>3 DEF Own, TookFits, Autocommit
  <2> QED BY <2>2, <2>7, <2>8, <2>9, <2>10, <2>11, <2>12, Split, SendFacts
<1>8. ASSUME NEW q \in Requests, Done(q)', kind'[q] \in Replacing
      PROVE  Replaced(q)'
  <2>1. CASE q = r
    BY <1>7, <1>8, <2>1
  <2>2. CASE q # r
    <3>1. Done(q) /\ kind[q] \in Replacing
      BY <1>1, <1>8, <2>2, Others DEF SameAt, Done, Autocommit, Ok
    <3> QED BY <1>6, <3>1
  <2> QED BY <2>1, <2>2
<1>9. \A q \in Requests \ {r} : took'[q] = took[q]
  BY Others DEF SameAt
<1> QED BY <1>4, <1>5, <1>8, <1>9 DEF TookStands

(* Of two uploads in the table, neither came after the other's end. *)
LEMMA NextCases ==
  ASSUME Types, Types', NEW r \in Requests, \A q \in Requests : Own(q), \A q \in Requests : Own(q)',
         BeforeIsOver, BeforeIsOver', Hands, CasesFit, Acts(r)
  PROVE  CasesFit'
<1>1. at[r] # "over" /\ impl' = impl
  BY Keeps
<1>2. ASSUME NEW x \in store', NEW y \in store', x.item \in CaseIds, y.item \in CaseIds
      PROVE  x.by \notin Past(y.by)'
  <2>1. CASE x \in store /\ y \in store
    <3>1. y.by # Nobody => before'[y.by] = before[y.by]
      BY <2>1, RowsBy DEF Hands, SameAt
    <3>2. Past(y.by)' = Past(y.by)
      BY <3>1 DEF Past
    <3> QED BY <1>2, <2>1, <3>2 DEF CasesFit
  <2>2. CASE x \notin store
    <3>1. x.by = r /\ at[r] # "idle"
      BY <1>2, <2>2, RowsBy DEF Hands
    <3>2. y.by \in Requests \cup {Nobody}
      BY <1>2 DEF Types, Rows
    <3>3. y.by \in Requests => before'[y.by] = before[y.by]
      BY <3>1, SendFacts, Others, ActsOpen DEF SameAt, request
    <3>4. y.by \in Requests => r \notin before'[y.by]
      BY <1>1, <3>3 DEF BeforeIsOver
    <3> QED BY <3>1, <3>2, <3>4, PastFacts, StoreAssumption
  <2>3. CASE x \in store /\ y \notin store
    <3>1. /\ y.by = r /\ y.item \in Table(r) /\ kind[r] \in Replacing /\ at[r] # "idle"
          /\ at[r] = "commit" \/ (kind[r] = "create" /\ impl = "ts")
      BY <1>2, <2>3, RowsBy DEF Hands
    <3>2. kind[r] = "upload"
      BY <1>2, <3>1, Tables DEF Table, Replacing
    <3>3. x \notin gone[r]
      <4>1. Commit(r) /\ store' = (store \ gone[r]) \cup RowsOf(r)
        BY <2>3, <1>2, <3>2, Writes DEF Hands
      <4>2. x.by # r
        BY <2>3, RowsBy DEF Hands
      <4>3. x \notin RowsOf(r)
        BY <3>1, <4>2, RowsFacts DEF Own
      <4> QED BY <1>2, <4>1, <4>3
    <3>4. Cleared(r)
      BY <3>1, <3>2 DEF Cleared, Holding
    <3>5. x.by \notin Past(r)
      BY <1>2, <2>3, <3>2, <3>3, <3>4 DEF Hands, OldIsHeld, Old, Table
    <3>6. Past(r)' = Past(r)
      BY <3>1, Keeps, PastFacts
    <3> QED BY <3>1, <3>5, <3>6
  <2> QED BY <2>1, <2>2, <2>3
<1>3. ASSUME NEW q \in Requests, took'[q], kind'[q] = "upload", CaseCount > 0
      PROVE  \E x \in store' : x.item \in CaseIds
  <2>1. 1 \in CaseIds
    BY <1>3, StoreAssumption DEF CaseIds
  <2>2. ASSUME NEW p \in Requests, kind[p] = "upload", RowsOf(p) \subseteq store'
        PROVE  \E x \in store' : x.item \in CaseIds
    <3>1. [by |-> p, item |-> 1] \in store'
      BY <2>1, <2>2, RowsFacts DEF Own, Replacing
    <3> QED BY <2>1, <3>1
  <2>3. CASE took[q]
    <3>1. kind[q] = "upload"
      BY <1>3, <2>3, Keeps
    <3>2. PICK x \in store : x.item \in CaseIds
      BY <1>3, <2>3, <3>1 DEF CasesFit
    <3>3. CASE x \in store'
      BY <3>2, <3>3
    <3>4. CASE x \notin store'
      <4>1. x.item \in Table(r) /\ kind[r] \in {"retag", "upload"} /\ RowsOf(r) \subseteq store'
        BY <3>4, TakenAway
      <4>2. kind[r] = "upload"
        BY <3>2, <4>1, Tables DEF Table
      <4> QED BY <2>2, <4>1, <4>2
    <3> QED BY <3>3, <3>4
  <2>4. CASE ~took[q]
    <3>1. q = r
      BY <1>3, <2>4, Others DEF SameAt
    <3>2. kind[r] = "upload" /\ ~Autocommit(r)
      <4>1. took' # took
        BY <1>3, <2>4
      <4>2. kind[r] = "upload"
        BY <1>3, <3>1, <4>1, SendFacts, ActsOpen DEF request
      <4> QED BY <4>2 DEF Autocommit
    <3>3. Commit(r)
      <4>1. ~New(r) /\ ~Write(r) /\ ~StoreSubmission(r)
        BY <3>2, NewFacts, WriteFacts, StoreFacts DEF Own, StageFits
      <4>2. took' # took
        BY <1>3, <2>4
      <4>3. ~Gives(r) /\ ~Find(r) /\ ~Scan(r) /\ ~Send(r) /\ ~Delete(r) /\ ~Insert(r)
        BY <4>2, GivesFacts, FindFacts, ScanFacts, SendFacts, DeleteFacts, InsertFacts
      <4> QED BY <4>1, <4>3, Split
    <3>4. RowsOf(r) \subseteq store'
      <4>1. at[r] = "commit" /\ mine[r] \subseteq store'
        BY <3>3, CommitFacts
      <4> QED BY <3>2, <4>1 DEF Own, MineFits, Replacing
    <3> QED BY <2>2, <3>2, <3>4
  <2> QED BY <2>3, <2>4
<1> QED BY <1>2, <1>3 DEF CasesFit

(* What a submission read stays what it is judged on. *)
LEMMA NextSubmit ==
  ASSUME Types, Types', NEW r \in Requests, \A q \in Requests : Own(q), \A q \in Requests : Own(q)',
         BeforeIsOver, Hands, TookStands, CasesFit, SubmitFits, Acts(r)
  PROVE  SubmitFits'
<1>1. /\ at[r] # "over" /\ impl' = impl
      /\ \A q \in Requests : at[q] # "idle" => before'[q] = before[q]
  BY Keeps
<1>2. ASSUME NEW s \in Requests, at[s] # "idle", NEW q \in before[s]
      PROVE  /\ q \in Requests /\ before'[s] = before[s]
             /\ kind'[q] = kind[q] /\ answer'[q] = answer[q] /\ before'[q] = before[q]
             /\ \A f \in Fields : Sets(q, f)' <=> Sets(q, f)
             /\ Past(q)' = Past(q)
  <2>1. q \in Requests \ {r}
    BY <1>1 DEF BeforeIsOver, Types
  <2>2. SameAt(q)
    BY <2>1, Others
  <2> QED BY <1>1, <1>2, <2>1, <2>2 DEF SameAt, Sets, Past
<1>3. ASSUME NEW s \in Requests, at[s] # "idle", limit'[s] = limit[s], LimitsRead(s)
      PROVE  LimitsRead(s)'
  <2> SUFFICES ASSUME NEW q \in before'[s], Ok(q)'
               PROVE  /\ Sets(q, Limit)' => limit'[s] \notin Past(q)'
                      /\ kind'[q] = "delete" => impl' = "ts"
    BY DEF LimitsRead
  <2>1. q \in before[s] /\ Limit \in Fields
    BY <1>1, <1>3, StoreAssumption
  <2>2. /\ kind'[q] = kind[q] /\ answer'[q] = answer[q] /\ Past(q)' = Past(q)
        /\ Sets(q, Limit)' <=> Sets(q, Limit)
    BY <1>2, <1>3, <2>1
  <2> QED BY <1>1, <1>3, <2>1, <2>2 DEF LimitsRead, Ok
<1>4. ASSUME NEW s \in Requests, at[s] # "idle", seen'[s] = seen[s], CasesRead(s)
      PROVE  CasesRead(s)'
  <2>1. ASSUME NEW y \in seen[s]
        PROVE  Past(y.by)' = Past(y.by)
    <3>1. y.by # Nobody => y.by \in Requests /\ took[y.by]
      BY <2>1 DEF Types, Rows, Hands, StoreFits
    <3>2. y.by # Nobody => before'[y.by] = before[y.by]
      BY <3>1, Keeps
    <3> QED BY <3>2 DEF Past
  <2>2. ASSUME NEW q \in before'[s], Ok(q)', kind'[q] = "upload"
        PROVE  (CaseCount > 0 => seen[s] # {}) /\ \A x \in seen[s] : x.by \notin Past(q)'
    <3>1. q \in before[s]
      BY <1>1, <1>4, <2>2
    <3>2. kind'[q] = kind[q] /\ answer'[q] = answer[q] /\ Past(q)' = Past(q)
      BY <1>2, <1>4, <3>1
    <3> QED BY <1>4, <2>2, <3>1, <3>2 DEF CasesRead, Ok
  <2> QED BY <1>4, <2>1, <2>2 DEF CasesRead
<1>5. ASSUME NEW s \in Requests \ {r}, kind'[s] = "submit"
      PROVE  /\ at'[s] \in {"read", "store"} \/ Ok(s)' => LimitsRead(s)'
             /\ at'[s] = "store" \/ Ok(s)' => CasesRead(s)'
  <2>1. SameAt(s)
    BY Others
  <2>2. at[s] # "idle" /\ kind[s] = "submit"
    BY <1>5, <2>1 DEF Own, StageFits, SameAt
  <2>3. /\ at[s] \in {"read", "store"} \/ Ok(s) => LimitsRead(s)
        /\ at[s] = "store" \/ Ok(s) => CasesRead(s)
    BY <2>2 DEF SubmitFits
  <2>4. limit'[s] = limit[s] /\ seen'[s] = seen[s] /\ at'[s] = at[s] /\ answer'[s] = answer[s]
    BY <2>1 DEF SameAt
  <2>5. (LimitsRead(s) => LimitsRead(s)') /\ (CasesRead(s) => CasesRead(s)')
    BY <1>3, <1>4, <2>2, <2>4
  <2> QED BY <2>3, <2>4, <2>5 DEF Ok
<1>6. ASSUME kind'[r] = "submit"
      PROVE  /\ at'[r] \in {"read", "store"} \/ Ok(r)' => LimitsRead(r)'
             /\ at'[r] = "store" \/ Ok(r)' => CasesRead(r)'
  <2>1. CASE Send(r)
    <3>1. at'[r] = "find" /\ answer'[r] = "none"
      BY <1>6, <2>1, SendFacts DEF Own, StageFits
    <3> QED BY <3>1 DEF Ok
  <2>2. CASE Gives(r)
    <3>1. at'[r] = "over" /\ answer'[r] \in {"refused", "error"}
      BY <2>2, GivesFacts
    <3> QED BY <3>1 DEF Ok
  <2>3. ~Send(r) => UNCHANGED request
    BY ActsOpen
  <2>4. CASE Find(r)
    <3>1. /\ at[r] # "idle" /\ kind[r] = "submit" /\ at'[r] = "read" /\ limit'[r] = field[Limit]
          /\ ~deleted \/ impl = "ts"
          /\ answer'[r] = answer[r] /\ UNCHANGED request
      <4>1. at[r] \in {"find", "find again"} /\ UNCHANGED request /\ answer' = answer
        BY <2>4, FindFacts
      <4> QED BY <1>6, <2>4, <4>1, FindFacts DEF request
    <3>2. answer'[r] = "none"
      BY <1>1, <3>1 DEF Own, StageFits
    <3>3. ASSUME NEW q \in before'[r], Ok(q)'
          PROVE  /\ Sets(q, Limit)' => limit'[r] \notin Past(q)'
                 /\ kind'[q] = "delete" => impl' = "ts"
      <4>1. q \in before[r] /\ Limit \in Fields
        BY <3>1, <3>3, StoreAssumption DEF request
      <4>2. /\ q \in Requests /\ kind'[q] = kind[q] /\ answer'[q] = answer[q]
            /\ Past(q)' = Past(q) /\ (Sets(q, Limit)' <=> Sets(q, Limit))
        BY <1>2, <3>1, <4>1
      <4>3. took[q]
        BY <3>3, <4>2 DEF Own, TookFits, Ok
      <4>4. /\ Sets(q, Limit) => field[Limit] \notin Past(q)
            /\ kind[q] = "delete" => deleted
        BY <4>1, <4>2, <4>3 DEF TookStands
      <4> QED BY <1>1, <3>1, <4>2, <4>4
    <3>4. LimitsRead(r)'
      BY <3>3 DEF LimitsRead
    <3> QED BY <3>1, <3>2, <3>4 DEF Ok
  <2>5. CASE Scan(r)
    <3>1. UNCHANGED request /\ answer' = answer /\ limit' = limit
      BY <2>5, ScanFacts
    <3>2. kind[r] = "submit"
      BY <1>6, <3>1 DEF request
    <3>3. at[r] = "read" /\ at'[r] = "store"
      BY <2>5, <3>2, ScanFacts DEF Own, StageFits
    <3>4. seen'[r] = {x \in store : x.item \notin Tags}
      BY <2>5, <3>2, ScanFacts
    <3>5. answer'[r] = "none"
      BY <3>1, <3>3 DEF Own, StageFits
    <3>6. LimitsRead(r)'
      BY <1>3, <3>1, <3>2, <3>3 DEF SubmitFits
    <3>7. \A x \in store : x.item \in CaseIds <=> x \in seen'[r]
      <4>1. \A x \in store : x.item \in Tags \cup CaseIds
        BY DEF Types, Rows
      <4> QED BY <3>4, <4>1, Tables
    <3>8. \A x \in seen'[r] : x \in store /\ Past(x.by)' = Past(x.by)
      <4>1. \A x \in store : x.by # Nobody => before'[x.by] = before[x.by]
        BY RowsBy DEF Hands, SameAt
      <4>2. \A x \in store : Past(x.by)' = Past(x.by)
        BY <4>1 DEF Past
      <4> QED BY <3>4, <4>2
    <3>9. \A x \in seen'[r] : \A n \in CaseIds : [by |-> x.by, item |-> n] \in seen'[r]
      <4>1. Whole(store)
        BY DEF Hands, StoreFits
      <4> QED BY <3>7, <3>8, <4>1 DEF Whole
    <3>10. \A x, y \in seen'[r] : x.by \notin Past(y.by)'
      BY <3>7, <3>8 DEF CasesFit
    <3>11. ASSUME NEW q \in before'[r], Ok(q)', kind'[q] = "upload"
           PROVE  (CaseCount > 0 => seen'[r] # {}) /\ \A x \in seen'[r] : x.by \notin Past(q)'
      <4>1. q \in before[r]
        BY <3>1, <3>11 DEF request
      <4>2. /\ q \in Requests /\ kind'[q] = kind[q] /\ answer'[q] = answer[q]
            /\ Past(q)' = Past(q)
        BY <1>2, <3>3, <4>1
      <4>3. took[q] /\ at[q] = "over" /\ ~Autocommit(q)
        BY <3>11, <4>1, <4>2 DEF Own, TookFits, Ok, BeforeIsOver, Autocommit
      <4>4. Replaced(q) /\ Table(q) = CaseIds
        BY <3>11, <4>2, <4>3 DEF TookStands, Done, Table, Replacing
      <4>5. CaseCount > 0 => \E x \in store : x.item \in CaseIds
        BY <3>11, <4>2, <4>3 DEF CasesFit
      <4> QED BY <3>7, <3>8, <4>2, <4>4, <4>5 DEF Replaced
    <3>12. CasesRead(r)'
      BY <3>9, <3>10, <3>11 DEF CasesRead
    <3> QED BY <3>6, <3>12
  <2>6. CASE StoreSubmission(r)
    <3>1. UNCHANGED <<request, seen, limit>> /\ at[r] = "store"
      BY <2>6, StoreFacts
    <3>2. kind[r] = "submit"
      BY <1>6, <3>1 DEF request
    <3>3. LimitsRead(r) /\ CasesRead(r)
      BY <3>1, <3>2 DEF SubmitFits
    <3> QED BY <1>3, <1>4, <3>1, <3>3
  <2>7. ~New(r) /\ ~Delete(r) /\ ~Insert(r) /\ ~Write(r) /\ ~Commit(r)
    <3>1. Send(r) \/ kind[r] = "submit"
      BY <1>6, <2>3 DEF request
    <3>2. ~Send(r) \/ at[r] = "idle"
      BY SendFacts
    <3>3. at[r] \notin {"new", "delete", "insert", "write", "commit"}
      BY <3>1, <3>2 DEF Own, StageFits
    <3> QED BY <3>3, NewFacts, DeleteFacts, InsertFacts, WriteFacts, CommitFacts
  <2> QED BY <2>1, <2>2, <2>4, <2>5, <2>6, <2>7, Split
<1> QED BY <1>5, <1>6 DEF SubmitFits

-----------------------------------------------------------------------------
(* Errors.                                                                 *)

Cause(r) ==
  \/ kind[r] \in Tagging /\ Repeats(r)
  \/ SetsNothing(r)
  \/ \E q \in Requests \ {r} : Overlap(q, r) /\ Rivals(q, r)

(* A row that is stored and was not deleted for r is by one that runs      *)
(* beside it.                                                              *)
LEMMA StoredRival ==
  ASSUME Types, BeforeIsOver, \A q \in Requests : Own(q), Hands,
         NEW r \in Requests, at[r] = "insert", kind[r] \in Tagging,
         NEW i \in DOMAIN wanted[r], NEW y \in store \ gone[r], Clash(RowOf(r, i), y)
  PROVE  Cause(r)
<1> DEFINE q == y.by
<1>1. wanted[r] \in Lists
  BY DEF Own, StageFits, Tagging
<1>2. RowOf(r, i).item \in Tags /\ RowOf(r, i).item = wanted[r][i]
  BY <1>1, ListFacts DEF RowOf
<1>3. y.item \in Tags
  BY <1>2 DEF Clash
<1>4. ASSUME kind[r] = "retag"
      PROVE  ~Old(r, y)
  <2>1. Cleared(r)
    BY <1>4 DEF Cleared, Holding
  <2> QED BY <2>1 DEF Hands, OldIsHeld
<1>5. q \notin Past(r)
  <2>1. CASE kind[r] = "create"
    BY <2>1 DEF Hands, ThereFits
  <2>2. CASE kind[r] = "retag"
    BY <1>3, <1>4, <2>2 DEF Old, Table
  <2> QED BY <2>1, <2>2 DEF Tagging
<1>6. q # Nobody /\ q \notin before[r] /\ q \in Requests
  BY <1>5, StoreAssumption DEF Past, Types, Rows
<1>7. kind[q] \in Replacing /\ took[q] /\ y.item \in Table(q)
  BY <1>6 DEF Hands, StoreFits
<1>8. kind[q] \in Tagging
  BY <1>3, <1>7, Tables DEF Table, Replacing, Tagging
<1>9. q # r /\ at[q] # "idle"
  <2>1. at[q] # "idle"
    BY <1>6, <1>8 DEF Own, StageFits, Tagging
  <2>2. CASE kind[r] = "create"
    <3>1. took[r] => impl = "ts"
      BY <2>2 DEF Own, TookFits
    <3>2. kind[q] = "create" /\ impl = "ts" => at[q] = "over"
      BY <1>6 DEF Hands, StoreFits
    <3> QED BY <1>7, <2>1, <2>2, <3>1, <3>2
  <2>3. CASE kind[r] = "retag"
    BY <1>7, <2>1, <2>3 DEF Own, TookFits
  <2> QED BY <2>2, <2>3 DEF Tagging
<1>10. r \notin before[q]
  BY <1>6 DEF BeforeIsOver
<1>11. Rivals(q, r)
  <2>1. CASE impl = "rust"
    <3>1. kind[r] # "create"
      <4> SUFFICES ASSUME kind[r] = "create" PROVE FALSE
        OBVIOUS
      <4>1. ~took[r]
        BY <2>1 DEF Own, TookFits
      <4> QED BY <4>1 DEF Hands, ThereFits
    <3>2. kind[q] # "create"
      BY <1>3, <1>4, <2>1, <3>1 DEF Old, Table, Tagging
    <3> QED BY <1>8, <2>1, <3>1, <3>2 DEF Rivals, Tagging
  <2>2. CASE impl = "ts"
    <3>1. kind[r] = "retag" => kind[q] = "create"
      BY <1>3, <1>4, <1>8, <2>2 DEF Old, Table, Tagging
    <3>2. kind[r] = "create" => kind[q] = "retag"
      BY <1>6, <1>8, <1>9 DEF Hands, ThereFits, Tagging
    <3> QED BY <2>2, <3>1, <3>2 DEF Rivals, Tagging
  <2> QED BY <2>1, <2>2 DEF Types
<1>12. Overlap(q, r)
  BY <1>6, <1>9, <1>10 DEF Overlap
<1> QED BY <1>6, <1>9, <1>11, <1>12 DEF Cause

(* The rows an upload brings are new. *)
LEMMA UploadIsNew ==
  ASSUME Types, \A q \in Requests : Own(q), Hands,
         NEW r \in Requests, at[r] = "insert", kind[r] = "upload",
         NEW i \in DOMAIN wanted[r], NEW y, Clash(RowOf(r, i), y)
  PROVE  y = RowOf(r, i) /\ y \notin store /\ \A p \in Requests \ {r} : y \notin mine[p] \cup gone[p]
<1>1. RowOf(r, i) \in RowsOf(r)
  BY DEF RowsOf
<1>2. RowOf(r, i).item \notin Tags /\ RowOf(r, i).by = r
  BY <1>1, RowsFacts, Tables DEF Own, Table, Replacing
<1>3. y = RowOf(r, i) /\ y.by = r
  BY <1>2 DEF Clash
<1>4. y \notin store
  BY <1>3, StoreAssumption DEF Hands, StoreFits, Own, TookFits
<1>5. ASSUME NEW p \in Requests \ {r}
      PROVE  y \notin mine[p] \cup gone[p]
  <2>1. gone[p] \subseteq store
    BY DEF Hands, GoneFits
  <2>2. mine[p] # {} => mine[p] = {RowOf(p, j) : j \in 1 .. Cardinality(mine[p])} \/ mine[p] = RowsOf(p)
    BY DEF Own, MineFits, Counted, Types, Holding
  <2>3. \A x \in mine[p] : x.by = p
    BY <2>2 DEF RowsOf, RowOf
  <2> QED BY <1>3, <1>4, <2>1, <2>3
<1> QED BY <1>3, <1>4, <1>5

LEMMA TakenCause ==
  ASSUME Types, BeforeIsOver, \A q \in Requests : Own(q), Hands,
         NEW r \in Requests, InsertTaken(r)
  PROVE  Cause(r)
<1>1. at[r] = "insert" /\ Taken(r) /\ kind[r] \in Replacing
  BY DEF InsertTaken, Own, StageFits, Types, Kinds, Replacing
<1>2. /\ Len(wanted[r]) \in Nat /\ DOMAIN wanted[r] = 1 .. Len(wanted[r])
      /\ Batch(r) \subseteq RowsOf(r)
  BY <1>1, WantedFacts, BatchFacts DEF Own
<1>3. \A i : RowOf(r, i).item = wanted[r][i]
  BY DEF RowOf
<1>4. ASSUME impl = "ts", NEW i \in DOMAIN wanted[r], NEW j \in DOMAIN wanted[r], i # j,
             Clash(RowOf(r, i), RowOf(r, j))
      PROVE  Cause(r)
  <2>1. CASE kind[r] = "upload"
    <3>1. RowOf(r, i) = RowOf(r, j)
      BY <1>1, <1>4, <2>1, UploadIsNew
    <3>2. wanted[r] = Cases
      BY <2>1 DEF Own, StageFits
    <3> QED BY <1>3, <1>4, <3>1, <3>2 DEF Cases
  <2>2. CASE kind[r] # "upload"
    BY <1>1, <1>4, <2>2 DEF Cause, Replacing, Repeats, Tagging
  <2> QED BY <2>1, <2>2
<1>5. ASSUME NEW i \in DOMAIN wanted[r], NEW y \in store \ gone[r], Clash(RowOf(r, i), y)
      PROVE  Cause(r)
  <2>1. kind[r] # "upload"
    BY <1>1, <1>5, UploadIsNew
  <2> QED BY <1>1, <1>5, <2>1, StoredRival DEF Replacing, Tagging
<1>6. ASSUME NEW x \in Batch(r), NEW y \in mine[r], Clash(x, y)
      PROVE  Cause(r)
  <2>1. impl = "rust" /\ Counted(r)
    BY <1>1, <1>6 DEF Own, MineFits, Types
  <2>2. PICK j \in 1 .. Cardinality(mine[r]) : y = RowOf(r, j)
    BY <1>6, <2>1 DEF Counted
  <2>3. x = RowOf(r, Turn(r)) /\ Turn(r) \in DOMAIN wanted[r]
    BY <1>1, <1>6, <2>1, BatchFacts DEF Own
  <2>4. Cardinality(mine[r]) \in Nat
    BY <2>1, FS_CardinalityType DEF Counted
  <2>5. j # Turn(r) /\ j \in DOMAIN wanted[r]
    BY <1>2, <2>1, <2>2, <2>4 DEF Turn, Counted
  <2>6. CASE kind[r] = "upload"
    <3>1. y = RowOf(r, Turn(r))
      BY <1>1, <1>6, <2>3, <2>6, UploadIsNew
    <3>2. wanted[r] = Cases
      BY <2>6 DEF Own, StageFits
    <3>3. wanted[r][j] = wanted[r][Turn(r)]
      BY <1>3, <2>2, <3>1
    <3>4. \A n \in DOMAIN wanted[r] : wanted[r][n] = n
      BY <3>2 DEF Cases
    <3> QED BY <2>3, <2>5, <3>3, <3>4
  <2>7. CASE kind[r] # "upload"
    <3>1. kind[r] \in {"create", "retag"}
      BY <1>1, <2>7 DEF Replacing
    <3>2. Clash(RowOf(r, Turn(r)), RowOf(r, j))
      BY <1>6, <2>2, <2>3
    <3>3. Repeats(r)
      <4> DEFINE m == Turn(r)
      <4>1. m \in DOMAIN wanted[r] /\ m # j /\ Clash(RowOf(r, m), RowOf(r, j))
        BY <2>3, <2>5, <3>2
      <4> QED BY <2>5, <4>1 DEF Repeats
    <3> QED BY <3>1, <3>3 DEF Cause, Tagging
  <2> QED BY <2>6, <2>7
<1>7. \A x \in Batch(r) : \E i \in DOMAIN wanted[r] : x = RowOf(r, i)
  BY <1>2 DEF RowsOf
<1>8. CASE \E x \in Batch(r), y \in (store \ gone[r]) \cup mine[r] : Clash(x, y)
  <2>1. PICK x \in Batch(r), y \in (store \ gone[r]) \cup mine[r] : Clash(x, y)
    BY <1>8
  <2>2. CASE y \in mine[r]
    BY <1>6, <2>1, <2>2
  <2>3. CASE y \notin mine[r]
    BY <1>5, <1>7, <2>1, <2>3
  <2> QED BY <2>2, <2>3
<1> QED BY <1>1, <1>4, <1>8 DEF Taken, Repeats

(* Who is on a circle waits, for one who waits, and is waited for.         *)
LEMMA OnCircle ==
  ASSUME NEW r \in Requests, Circle(r)
  PROVE  /\ \E p \in Requests : p \in Blockers(r) /\ Blockers(p) # {}
         /\ \E q \in Requests : r \in Blockers(q)
<1> DEFINE waits == [q \in Requests |-> Blockers(q)]
<1>1. Cardinality(Requests) \in Nat
  BY StoreAssumption, FS_CardinalityType
<1>2. PICK n \in 1 .. Cardinality(Requests) : \E c \in [0 .. n -> Requests] :
        c[0] = r /\ c[n] = r /\ \A i \in 1 .. n : c[i] \in waits[c[i - 1]]
  BY DEF Circle
<1>3. PICK c \in [0 .. n -> Requests] :
        c[0] = r /\ c[n] = r /\ \A i \in 1 .. n : c[i] \in waits[c[i - 1]]
  BY <1>2
<1>4. n \in Nat /\ n >= 1 /\ 0 \in 0 .. n /\ 1 \in 1 .. n /\ n \in 1 .. n /\ n - 1 \in 0 .. n
  BY <1>1
<1>5. \A q \in Requests : waits[q] = Blockers(q)
  OBVIOUS
<1>6. c[1] \in Blockers(r) /\ c[1] \in Requests
  <2>1. 1 - 1 = 0 /\ 1 \in 0 .. n
    BY <1>4
  <2>2. c[1] \in waits[c[0]]
    BY <1>3, <1>4, <2>1
  <2> QED BY <1>3, <1>5, <2>1, <2>2
<1>7. r \in Blockers(c[n - 1]) /\ c[n - 1] \in Requests
  <2>1. c[n] \in waits[c[n - 1]] /\ c[n - 1] \in Requests
    BY <1>3, <1>4
  <2> QED BY <1>3, <1>5, <2>1
<1>8. n # 1
  BY <1>3, <1>6 DEF Blockers
<1>9. Blockers(c[1]) # {}
  <2>1. 2 \in 1 .. n /\ 2 - 1 = 1
    BY <1>4, <1>8
  <2>2. c[2] \in waits[c[1]]
    BY <1>3, <2>1
  <2> QED BY <1>5, <1>6, <2>2
<1> QED BY <1>6, <1>7, <1>9

(* Whose rows another waits for, at a DELETE or a key. *)
LEMMA HandsOpen ==
  ASSUME Types, \A p \in Requests : Own(p), Hands, NEW q \in Requests, NEW y \in mine[q] \cup gone[q]
  PROVE  /\ at[q] \in Holding \cup {"delete"} /\ kind[q] \in Replacing /\ y.item \in Table(q)
         /\ impl = "ts" /\ kind[q] = "retag" => Locks(q)
         /\ impl = "ts" => kind[q] # "create"
         /\ y \in gone[q] => kind[q] # "create"
<1>1. CASE y \in gone[q]
  <2>1. /\ at[q] \in Holding \cup {"delete"} /\ kind[q] \in {"retag", "upload"} /\ y.item \in Table(q)
        /\ ~(at[q] = "write" /\ impl = "ts")
    BY <1>1 DEF Hands, GoneFits
  <2> QED BY <2>1 DEF Replacing, Locks, Holding
<1>2. CASE y \in mine[q]
  <2>1. /\ at[q] \in Holding /\ kind[q] \in Replacing /\ ~Autocommit(q)
        /\ impl = "ts" => at[q] = "commit"
    BY <1>2 DEF Own, MineFits
  <2>2. mine[q] = RowsOf(q) \/ Counted(q)
    BY <2>1 DEF Own, MineFits, Types
  <2>3. mine[q] \subseteq RowsOf(q)
    <3> SUFFICES ASSUME Counted(q) PROVE mine[q] \subseteq RowsOf(q)
      BY <2>2
    <3>1. Cardinality(mine[q]) \in Nat /\ Cardinality(mine[q]) <= Len(wanted[q])
      BY FS_CardinalityType DEF Counted
    <3>2. Len(wanted[q]) \in Nat /\ DOMAIN wanted[q] = 1 .. Len(wanted[q])
      BY WantedFacts
    <3>3. \A i \in 1 .. Cardinality(mine[q]) : i \in DOMAIN wanted[q]
      BY <3>1, <3>2
    <3> QED BY <3>3 DEF Counted, RowsOf
  <2>4. y.item \in Table(q)
    BY <1>2, <2>1, <2>3, RowsFacts DEF Own
  <2> QED BY <1>2, <2>1, <2>4 DEF Locks, Autocommit, Hands, GoneFits, Replacing
<1> QED BY <1>1, <1>2

(* What a tag meets is in the hands of one that brings tags. *)
LEMMA TagHands ==
  ASSUME Types, \A p \in Requests : Own(p), Hands, NEW r \in Requests, at[r] = "insert",
         NEW q \in Requests \ {r}, q \in Blockers(r)
  PROVE  \E y \in mine[q] \cup gone[q] : kind[r] \in Tagging /\ kind[q] \in Tagging /\ y.item \in Tags
<1>1. PICK x \in Batch(r), y \in mine[q] \cup gone[q] : Clash(x, y)
  BY DEF Blockers
<1>2. PICK i \in DOMAIN wanted[r] : x = RowOf(r, i)
  BY BatchFacts DEF Own, RowsOf
<1>3. kind[r] # "upload"
  BY <1>1, <1>2, UploadIsNew
<1>4. kind[r] \in Tagging /\ wanted[r] \in Lists
  BY <1>3 DEF Own, StageFits, Types, Kinds, Tagging
<1>5. x.item \in Tags
  BY <1>2, <1>4, ListFacts DEF RowOf
<1>6. y.item \in Tags
  BY <1>1, <1>5 DEF Clash
<1>7. kind[q] \in Replacing /\ y.item \in Table(q)
  BY <1>1, HandsOpen
<1>8. kind[q] \in Tagging
  BY <1>6, <1>7, Tables DEF Table, Replacing, Tagging
<1> QED BY <1>1, <1>4, <1>6, <1>8

(* What a DELETE waits for is in the hands of one that deletes the same. *)
LEMMA DeleteHands ==
  ASSUME Types, \A p \in Requests : Own(p), Hands, NEW r \in Requests, at[r] = "delete",
         NEW q \in Requests \ {r}, q \in Blockers(r)
  PROVE  /\ kind[r] \in {"retag", "upload"} /\ kind[q] = kind[r]
         /\ \E y : y \in mine[q] \cup gone[q]
<1>1. PICK y \in seen[r] \cap gone[q] : TRUE
  BY DEF Blockers
<1>2. kind[r] \in {"retag", "upload"}
  BY DEF Own, StageFits, Types, Kinds
<1>3. y.item \in Table(r) /\ y.item \in Table(q) /\ kind[q] \in {"retag", "upload"}
  BY <1>1 DEF Hands, OldIsHeld, GoneFits
<1> QED BY <1>1, <1>2, <1>3, Tables DEF Table

(* Who has the row of the problem waits for nobody: in Rust it only has to *)
(* commit, in TypeScript whoever else has tags in its hands would have the *)
(* row.                                                                    *)
LEMMA HolderIsFree ==
  ASSUME Types, \A p \in Requests : Own(p), Hands, NEW r \in Requests, lock = r
  PROVE  Blockers(r) = {}
<1> SUFFICES ASSUME NEW q \in Requests \ {r}, q \in Blockers(r) PROVE FALSE
  BY DEF Blockers
<1>1. Locks(r) /\ ~Locks(q)
  BY DEF Own, LockFits
<1>2. impl = "ts" /\ kind[r] = "retag" /\ at[r] \in {"delete", "insert"}
  BY <1>1 DEF Locks, Blockers
<1>3. kind[q] # "retag" \/ \A y : y \notin mine[q] \cup gone[q]
  BY <1>1, <1>2, HandsOpen
<1>4. CASE at[r] = "delete"
  BY <1>2, <1>3, <1>4, DeleteHands
<1>5. CASE at[r] = "insert"
  BY <1>2, <1>3, <1>5, TagHands, HandsOpen DEF Tagging
<1> QED BY <1>2, <1>4, <1>5

(* Who waits elsewhere waits for a rival. *)
LEMMA WaitsForRival ==
  ASSUME Types, BeforeIsOver, \A p \in Requests : Own(p), Hands, NEW r \in Requests,
         at[r] # "write", NEW q \in Requests \ {r}, q \in Blockers(r)
  PROVE  Overlap(q, r) /\ Rivals(q, r)
<1>1. at[r] \in {"delete", "insert"}
  BY DEF Blockers
<1>2. PICK y \in mine[q] \cup gone[q] : TRUE
  BY <1>1, DeleteHands, TagHands
<1>3. at[q] \in Holding \cup {"delete"}
  BY <1>2, HandsOpen
<1>4. Overlap(q, r)
  BY <1>1, <1>3 DEF Overlap, BeforeIsOver, Holding
<1>5. impl = "ts" => ~(kind[q] = "retag" /\ kind[r] = "retag")
  <2> SUFFICES ASSUME impl = "ts", kind[q] = "retag", kind[r] = "retag" PROVE FALSE
    OBVIOUS
  <2>1. Locks(q) /\ Locks(r)
    BY <1>1, <1>2, HandsOpen DEF Locks
  <2> QED BY <2>1 DEF Own, LockFits
<1>6. CASE at[r] = "delete"
  <2>1. kind[r] \in {"retag", "upload"} /\ kind[q] = kind[r]
    BY <1>6, DeleteHands
  <2>2. impl = "rust" \/ impl = "ts"
    BY DEF Types
  <2> QED BY <1>4, <1>5, <2>1, <2>2 DEF Rivals
<1>7. CASE at[r] = "insert"
  <2>1. kind[r] \in Tagging /\ kind[q] \in Tagging
    BY <1>7, TagHands
  <2>2. CASE impl = "ts"
    <3>1. kind[q] # "create"
      BY <1>2, <2>2, HandsOpen
    <3>2. kind[q] = "retag" /\ kind[r] = "create"
      BY <1>5, <2>1, <2>2, <3>1 DEF Tagging
    <3> QED BY <1>4, <2>2, <3>2 DEF Rivals, Tagging
  <2>3. CASE impl = "rust"
    <3>1. ~(kind[r] = "create" \/ kind[q] = "create")
      <4> SUFFICES ASSUME NEW p \in {r, q}, kind[p] = "create" PROVE FALSE
        OBVIOUS
      <4>1. ~took[p]
        BY <1>1, <1>3, <2>3 DEF Own, TookFits, Holding
      <4>2. ~there
        BY <4>1 DEF Hands, ThereFits
      <4>3. kind[r] = "create" /\ kind[q] = "create"
        BY <1>1, <1>3, <4>2 DEF Hands, ThereFits, Holding
      <4> QED BY <4>3 DEF Hands, ThereFits
    <3> QED BY <1>4, <2>1, <2>3, <3>1 DEF Rivals, Tagging
  <2> QED BY <2>2, <2>3 DEF Types
<1> QED BY <1>1, <1>4, <1>6, <1>7

(* The victim of a circle has a rival. *)
LEMMA VictimCause ==
  ASSUME Types, BeforeIsOver, \A q \in Requests : Own(q), Hands, NEW r \in Requests, Victim(r)
  PROVE  Cause(r)
<1>1. PICK p \in Requests : p \in Blockers(r) /\ Blockers(p) # {}
  BY OnCircle DEF Victim
<1>2. p # r
  BY <1>1 DEF Blockers
<1>3. at[r] # "write"
  <2>1. lock # p
    BY <1>1, HolderIsFree
  <2> QED BY <1>1, <2>1 DEF Blockers
<1> QED BY <1>1, <1>2, <1>3, WaitsForRival DEF Cause

(* A cause remains one. *)
LEMMA CauseStays ==
  ASSUME Types, Types', NEW r \in Requests, \A q \in Requests : Own(q), Acts(r),
         NEW q \in Requests, at[q] # "idle", Cause(q)
  PROVE  Cause(q)'
<1>1. /\ impl' = impl
      /\ \A p \in Requests : at[p] # "idle" =>
           /\ kind'[p] = kind[p] /\ wanted'[p] = wanted[p] /\ before'[p] = before[p]
           /\ at'[p] # "idle" /\ sets'[p] = sets[p]
  BY Keeps
<1>2. ASSUME NEW p \in Requests \ {q}, Overlap(p, q), Rivals(p, q)
      PROVE  Cause(q)'
  <2>1. at[p] # "idle"
    BY <1>2 DEF Overlap
  <2>2. /\ kind'[p] = kind[p] /\ before'[p] = before[p] /\ at'[p] # "idle"
        /\ kind'[q] = kind[q] /\ before'[q] = before[q] /\ at'[q] # "idle"
    BY <1>1, <2>1
  <2>3. Overlap(p, q)' /\ Rivals(p, q)'
    BY <1>1, <1>2, <2>2 DEF Overlap, Rivals
  <2> QED BY <2>3 DEF Cause
<1>3. kind'[q] = kind[q] /\ wanted'[q] = wanted[q] /\ sets'[q] = sets[q]
  BY <1>1
<1>4. CASE SetsNothing(q)
  BY <1>1, <1>3, <1>4 DEF Cause, SetsNothing
<1>5. CASE kind[q] \in Tagging /\ Repeats(q)
  <2>1. PICK i \in DOMAIN wanted[q], j \in DOMAIN wanted[q] : i # j /\ Clash(RowOf(q, i), RowOf(q, j))
    BY <1>5 DEF Repeats
  <2>2. RowOf(q, i)' = RowOf(q, i) /\ RowOf(q, j)' = RowOf(q, j)
    BY <1>3 DEF RowOf
  <2>3. Repeats(q)'
    BY <1>1, <1>3, <2>1, <2>2 DEF Repeats, Clash
  <2> QED BY <1>3, <1>5, <2>3 DEF Cause
<1> QED BY <1>2, <1>4, <1>5 DEF Cause

(* Who fails without a fault met a key or a circle. *)
LEMMA NewError ==
  ASSUME Types, NEW r \in Requests, \A q \in Requests : Own(q), BeforeIsOver, Hands, Acts(r),
         answer'[r] = "error", ~hit'[r]
  PROVE  InsertTaken(r) \/ NothingToSet(r) \/ Victim(r)
<1>1. answer[r] = "none"
  BY ActsOpen DEF Own, StageFits
<1>2. answer' # answer
  BY <1>1
<1>3. ~Send(r) /\ ~Find(r) /\ ~Scan(r)
  BY <1>2, SendFacts, FindFacts, ScanFacts
<1>4. ~Ends(r)
  BY DEF Ends
<1>5. ~New(r) /\ ~Insert(r)
  BY <1>2, <1>4, NewFacts, InsertFacts
<1>6. ~Commit(r) /\ ~StoreSubmission(r)
  BY <1>4, CommitFacts, StoreFacts
<1>7. ~Write(r)
  BY <1>2, <1>4, WriteFacts
<1>8. ~Delete(r)
  <2> SUFFICES ASSUME Delete(r) PROVE FALSE
    OBVIOUS
  <2>1. ~Autocommit(r)
    BY DeleteFacts DEF Own, StageFits, Autocommit
  <2> QED BY <1>2, <2>1, DeleteFacts
<1>9. ~Fails(r)
  BY GivesFacts DEF Gives
<1>10. ~Refuse(r)
  BY DEF Refuse, GiveUp, Types
<1> QED BY <1>3, <1>5, <1>6, <1>7, <1>8, <1>9, <1>10, Split DEF Gives

LEMMA NextErrors ==
  ASSUME Types, Types', NEW r \in Requests, \A q \in Requests : Own(q), \A q \in Requests : Own(q)',
         BeforeIsOver, Hands, ErrorsHaveCause, Acts(r)
  PROVE  ErrorsHaveCause'
<1>1. ErrorsHaveCause <=> \A q \in Requests : answer[q] = "error" /\ ~hit[q] => Cause(q)
  BY DEF ErrorsHaveCause, Cause
<1>2. ASSUME NEW q \in Requests, answer'[q] = "error", ~hit'[q]
      PROVE  at[q] # "idle" /\ Cause(q)
  <2>1. CASE q # r
    <3>1. answer[q] = "error" /\ hit'[q] = hit[q] /\ at[q] = at'[q]
      BY <1>2, <2>1, Others DEF SameAt
    <3>2. at'[q] = "over"
      BY <1>2 DEF Own, StageFits
    <3> QED BY <1>1, <1>2, <3>1, <3>2
  <2>2. CASE q = r
    <3>1. InsertTaken(r) \/ NothingToSet(r) \/ Victim(r)
      BY <1>2, <2>2, NewError
    <3>2. at[r] # "idle"
      BY <3>1, GivesFacts DEF Gives, Statements
    <3>3. CASE InsertTaken(r)
      BY <2>2, <3>2, <3>3, TakenCause
    <3>4. CASE Victim(r)
      BY <2>2, <3>2, <3>4, VictimCause
    <3>5. CASE NothingToSet(r)
      BY <2>2, <3>2, <3>5 DEF NothingToSet, Cause
    <3> QED BY <3>1, <3>3, <3>4, <3>5
  <2> QED BY <2>1, <2>2
<1>3. ASSUME NEW q \in Requests, answer'[q] = "error", ~hit'[q]
      PROVE  Cause(q)'
  BY <1>2, <1>3, CauseStays
<1> QED BY <1>3 DEF ErrorsHaveCause, Cause

-----------------------------------------------------------------------------
(* The invariant holds at the start and after every step.                  *)

LEMMA InitInv ==
  Init => IInv
<1> SUFFICES ASSUME Init PROVE IInv
  OBVIOUS
<1>1. PICK e \in SUBSET (Tags \cup CaseIds) :
        /\ store = [by : {Nobody}, item : e] /\ e \cap CaseIds \in {{}, CaseIds}
        /\ ~there => e = {}
  <2>1. PICK e \in IF there THEN Earlier[impl] ELSE {{}} : store = [by : {Nobody}, item : e]
    BY DEF Init
  <2>2. impl = "rust" \/ impl = "ts"
    BY DEF Init
  <2>3. CASE there
    BY <2>1, <2>2, <2>3, StoreAssumption DEF CaseIds
  <2>4. CASE ~there
    BY <2>1, <2>4
  <2> QED BY <2>3, <2>4
<1>2. /\ \A r \in Requests :
           /\ kind[r] = "none" /\ at[r] = "idle" /\ seen[r] = {} /\ gone[r] = {} /\ mine[r] = {}
           /\ answer[r] = "none" /\ took[r] = FALSE /\ before[r] = {}
      /\ lock = Nobody /\ \A f \in Fields : field[f] = Nobody
  BY DEF Init
<1>3. \A x \in store : x.by = Nobody /\ x.item \in e
  BY <1>1
<1>4. Types
  <2>1. <<>> \in Lists
    <3>1. <<>> \in [1 .. 0 -> Tags] /\ 0 \in 0 .. MaxTags
      BY StoreAssumption
    <3> QED BY <3>1 DEF Lists
  <2>2. wanted \in [Requests -> Lists \cup {Cases}]
    BY <2>1 DEF Init
  <2>3. store \subseteq Rows
    BY <1>1 DEF Rows
  <2>4. /\ impl \in {"rust", "ts"} /\ there \in BOOLEAN /\ deleted \in BOOLEAN
        /\ field \in [Fields -> Requests \cup {Nobody}]
        /\ kind \in [Requests -> Kinds \cup {"none"}] /\ sets \in [Requests -> SUBSET Fields]
        /\ at \in [Requests -> Statements \cup {"idle", "over"}]
        /\ answer \in [Requests -> {"none", "ok", "refused", "error"}]
    BY DEF Init
  <2>5. /\ lock \in Requests \cup {Nobody} /\ limit \in [Requests -> Requests \cup {Nobody}]
        /\ seen \in [Requests -> SUBSET Rows] /\ gone \in [Requests -> SUBSET Rows]
        /\ mine \in [Requests -> SUBSET Rows] /\ before \in [Requests -> SUBSET Requests]
        /\ hit \in [Requests -> BOOLEAN] /\ took \in [Requests -> BOOLEAN]
    BY DEF Init
  <2> QED BY <2>2, <2>3, <2>4, <2>5 DEF Types
<1>5. BeforeIsOver
  BY <1>2 DEF BeforeIsOver
<1>6. ASSUME NEW r \in Requests
      PROVE  Own(r)
  <2>1. StageFits(r) /\ TookFits(r)
    BY <1>2 DEF StageFits, TookFits, Ok
  <2>2. LockFits(r)
    BY <1>2, StoreAssumption DEF LockFits, Locks
  <2>3. Counted(r)
    <3>1. IsFiniteSet(mine[r]) /\ Cardinality(mine[r]) = 0
      BY <1>2, FS_EmptySet
    <3>2. mine[r] = {RowOf(r, i) : i \in 1 .. 0}
      BY <1>2
    <3>3. Len(wanted[r]) \in Nat
      BY <1>4, WantedFacts
    <3> QED BY <3>1, <3>2, <3>3 DEF Counted
  <2>4. MineFits(r)
    BY <1>2, <2>3 DEF MineFits, Replacing
  <2> QED BY <2>1, <2>2, <2>4 DEF Own
<1>7. GoneFits /\ StoreFits /\ ThereFits
  <2>1. Whole(store)
    <3> SUFFICES ASSUME NEW x \in store, x.item \in CaseIds, NEW n \in CaseIds
                 PROVE  [by |-> x.by, item |-> n] \in store
      BY DEF Whole
    <3>1. n \in e
      BY <1>1, <1>3
    <3> QED BY <1>1, <1>3, <3>1
  <2>2. StoreFits
    BY <1>2, <1>3, <2>1 DEF StoreFits
  <2>3. ~there => store = {}
    BY <1>1
  <2> QED BY <1>2, <2>2, <2>3 DEF GoneFits, ThereFits, Holding
<1>8. OldIsHeld
  BY <1>2 DEF OldIsHeld, Cleared, Holding
<1>9. TookStands /\ CasesFit /\ SubmitFits /\ ErrorsHaveCause
  BY <1>2, <1>3, PastFacts DEF TookStands, Done, CasesFit, SubmitFits, ErrorsHaveCause
<1> QED BY <1>4, <1>5, <1>6, <1>7, <1>8, <1>9 DEF IInv, Shape, Hands

LEMMA NextInv ==
  IInv /\ [Next]_vars => IInv'
<1> SUFFICES ASSUME IInv, [Next]_vars PROVE IInv'
  OBVIOUS
<1>1. ASSUME NEW r \in Requests, Acts(r)
      PROVE  IInv'
  <2>1. Types /\ BeforeIsOver /\ \A q \in Requests : Own(q)
    BY DEF IInv, Shape
  <2>2. Types'
    BY <1>1, <2>1, NextTypes DEF Own
  <2>3. BeforeIsOver' /\ \A q \in Requests : Own(q)'
    BY <1>1, <2>1, <2>2, NextBefore, NextOwn
  <2>4. Hands'
    BY <1>1, <2>1, <2>2, <2>3, NextGone, NextStored, NextThere, NextOld DEF Hands, IInv
  <2>5. TookStands'
    BY <1>1, <2>1, <2>2, <2>3, NextStands DEF IInv
  <2>6. CasesFit' /\ SubmitFits'
    BY <1>1, <2>1, <2>2, <2>3, NextCases, NextSubmit DEF IInv
  <2>7. ErrorsHaveCause'
    BY <1>1, <2>1, <2>2, <2>3, NextErrors DEF IInv
  <2> QED BY <2>2, <2>3, <2>4, <2>5, <2>6, <2>7 DEF IInv, Shape
<1>2. CASE UNCHANGED vars
  <2>1. /\ UNCHANGED <<impl, there, deleted, field, store, lock, kind, sets, wanted, before>>
        /\ UNCHANGED <<at, seen, limit, gone, mine, answer, hit, took>>
    BY <1>2 DEF vars, row, request
  <2>2. Types' /\ BeforeIsOver'
    BY <2>1 DEF IInv, Shape, Types, BeforeIsOver
  <2>3. ASSUME NEW q \in Requests
        PROVE  Own(q)'
    <3>1. Own(q)
      BY DEF IInv, Shape
    <3>2. StageFits(q)' /\ LockFits(q)' /\ TookFits(q)'
      BY <2>1, <3>1 DEF Own, StageFits, LockFits, Locks, TookFits, Ok, Autocommit
    <3>3. RowsOf(q)' = RowsOf(q) /\ (Counted(q)' <=> Counted(q))
      BY <2>1 DEF RowsOf, RowOf, Counted
    <3>4. MineFits(q)'
      BY <2>1, <3>1, <3>3 DEF Own, MineFits, Autocommit
    <3> QED BY <3>2, <3>4 DEF Own
  <2>4. GoneFits' /\ ThereFits'
    BY <2>1 DEF IInv, Hands, GoneFits, ThereFits, Table, Whole, Past
  <2>5. StoreFits'
    <3>1. StoreFits
      BY DEF IInv, Hands
    <3>2. \A q : RowsOf(q)' = RowsOf(q)
      BY <2>1 DEF RowsOf, RowOf
    <3> QED BY <2>1, <3>1, <3>2 DEF StoreFits, Table, Whole
  <2>6. OldIsHeld'
    BY <2>1 DEF IInv, Hands, OldIsHeld, Old, Cleared, Table, Whole, Reach, Past
  <2>7. TookStands'
    BY <2>1 DEF IInv, TookStands, Done, Replaced, Sets, Table, RowOf, Ok, Autocommit, Past
  <2>8. CasesFit' /\ SubmitFits'
    BY <2>1 DEF IInv, CasesFit, SubmitFits, LimitsRead, CasesRead, Sets, Ok, Past
  <2>9. ErrorsHaveCause'
    BY <2>1 DEF IInv, ErrorsHaveCause, Overlap, Rivals, SetsNothing, Repeats, RowOf, Clash
  <2> QED BY <2>2, <2>3, <2>4, <2>5, <2>6, <2>7, <2>8, <2>9 DEF IInv, Shape, Hands
<1> QED BY <1>1, <1>2 DEF Next, Rest, Acts

LEMMA Invariant ==
  Spec => []IInv
BY InitInv, NextInv, PTL DEF Spec

(* Every variable has its type, and the row of the problem is locked only  *)
(* by a request that is still at work.                                     *)
THEOREM TypeCorrect ==
  Spec => []TypeOK
<1>1. IInv => TypeOK
  <2> SUFFICES ASSUME IInv PROVE TypeOK
    OBVIOUS
  <2>1. Types /\ \A r \in Requests : Own(r)
    BY DEF IInv, Shape
  <2>2. lock \in {r \in Requests : Open(r)} \cup {Nobody}
    <3> SUFFICES ASSUME lock \in Requests PROVE Open(lock)
      BY <2>1 DEF Types
    <3>1. Locks(lock)
      BY <2>1 DEF Own, LockFits
    <3> QED BY <3>1 DEF Locks, Open, Statements
  <2> QED BY <2>1, <2>2 DEF Types, TypeOK
<1> QED BY <1>1, Invariant, PTL

(* What a client was told is what is stored: no change that was answered   *)
(* with success is undone by one that ended before or set another column,  *)
(* a deletion stays, a replacement leaves nothing of what was over when it *)
(* came, and what was refused or failed left nothing behind.               *)
THEOREM AnswersTrue ==
  Spec => []AnswersAreTrue
<1>1. IInv => AnswersAreTrue
  <2> SUFFICES ASSUME IInv, NEW r \in Requests
               PROVE  /\ Ok(r) => Stands(r)
                      /\ at[r] = "over" /\ ~took[r] =>
                           (\A f \in Fields : field[f] # r) /\ (\A x \in store : x.by # r)
                      /\ took[r] /\ answer[r] \in {"error", "refused"} => hit[r] \/ Autocommit(r)
    BY DEF AnswersAreTrue
  <2>1. Own(r) /\ StoreFits /\ TookStands
    BY DEF IInv, Shape, Hands
  <2>2. Ok(r) => Stands(r)
    <3> SUFFICES ASSUME Ok(r) PROVE Stands(r)
      OBVIOUS
    <3>1. took[r] /\ Done(r)
      BY <2>1 DEF Own, TookFits, StageFits, Done, Ok
    <3>2. kind[r] \in Replacing => Replaced(r)
      BY <2>1, <3>1 DEF TookStands
    <3> QED BY <2>1, <3>1, <3>2 DEF TookStands, Stands, Replaced
  <2>3. ~took[r] => (\A f \in Fields : field[f] # r) /\ (\A x \in store : x.by # r)
    BY <2>1, StoreAssumption DEF StoreFits
  <2>4. took[r] /\ answer[r] \in {"error", "refused"} => hit[r] \/ Autocommit(r)
    BY <2>1 DEF Own, TookFits
  <2> QED BY <2>2, <2>3, <2>4
<1> QED BY <1>1, Invariant, PTL

(* A submission is judged on whole uploads, of two only if they ran at the *)
(* same time, and on nothing that was replaced before it came; nor on the  *)
(* limits of then.                                                         *)
THEOREM SubmitOneVersion ==
  Spec => []SubmitSeesOneVersion
<1>1. IInv => SubmitSeesOneVersion
  <2> SUFFICES ASSUME IInv, NEW s \in Requests, kind[s] = "submit", Ok(s)
               PROVE  /\ \A x \in seen[s] : \A n \in CaseIds : [by |-> x.by, item |-> n] \in seen[s]
                      /\ \A x, y \in seen[s] : x.by \notin Past(y.by)
                      /\ \A q \in before[s] : Ok(q) =>
                           /\ kind[q] = "upload" =>
                                /\ CaseCount > 0 => seen[s] # {}
                                /\ \A x \in seen[s] : x.by \notin Past(q)
                           /\ Sets(q, Limit) => limit[s] \notin Past(q)
                           /\ kind[q] = "delete" => impl = "ts"
    BY DEF SubmitSeesOneVersion
  <2>1. LimitsRead(s) /\ CasesRead(s)
    BY DEF IInv, SubmitFits
  <2> QED BY <2>1 DEF LimitsRead, CasesRead
<1> QED BY <1>1, Invariant, PTL

(* A request that met no fault fails only for what it asks or for a rival  *)
(* that ran at the same time, whatever circles the database breaks.        *)
THEOREM ErrorsCaused ==
  Spec => []ErrorsHaveCause
<1>1. IInv => ErrorsHaveCause
  BY DEF IInv
<1> QED BY <1>1, Invariant, PTL

-----------------------------------------------------------------------------
(* Circles.                                                                *)

CirclesAreReplacements ==
  \A r \in Requests : Circle(r) =>
    \/ kind[r] = "upload" /\ at[r] = "delete"
    \/ impl = "rust" /\ kind[r] = "retag" /\ at[r] \in {"delete", "insert"}

(* Requests come to wait for each other in a circle only over rows that    *)
(* they replace: uploads at their DELETE, and in Rust updates of the tags  *)
(* at theirs or at a key.  Creations, deletions, updates of columns and    *)
(* submissions are on no circle, nor is any TypeScript update: it has the  *)
(* row of the problem before it asks for the tags.                         *)
THEOREM NoOtherCircle ==
  Spec => []CirclesAreReplacements
<1>1. IInv => CirclesAreReplacements
  <2> SUFFICES ASSUME IInv, NEW r \in Requests, Circle(r)
               PROVE  \/ kind[r] = "upload" /\ at[r] = "delete"
                      \/ impl = "rust" /\ kind[r] = "retag" /\ at[r] \in {"delete", "insert"}
    BY DEF CirclesAreReplacements
  <2>1. Types /\ BeforeIsOver /\ Hands /\ \A q \in Requests : Own(q)
    BY DEF IInv, Shape
  <2>2. PICK p \in Requests : p \in Blockers(r) /\ Blockers(p) # {}
    BY OnCircle
  <2>3. PICK q \in Requests : r \in Blockers(q)
    BY OnCircle
  <2>4. p # r /\ q # r /\ at[r] \in {"write", "delete", "insert"}
    BY <2>2, <2>3 DEF Blockers
  <2>5. lock # p /\ lock # r
    BY <2>1, <2>2, HolderIsFree
  <2>6. at[r] # "write"
    BY <2>2, <2>5 DEF Blockers
  <2>7. Rivals(p, r)
    BY <2>1, <2>2, <2>4, <2>6, WaitsForRival
  <2>8. PICK y \in mine[r] \cup gone[r] : TRUE
    BY <2>3, <2>5 DEF Blockers
  <2>9. kind[r] = "upload" => at[r] # "insert"
    BY <2>1, <2>2, <2>4, TagHands DEF Tagging
  <2>10. ~(impl = "ts" /\ kind[r] \in Tagging)
    <3>1. impl = "ts" => kind[r] # "create" /\ (kind[r] = "retag" => Locks(r))
      BY <2>1, <2>8, HandsOpen
    <3> QED BY <2>1, <2>5, <3>1 DEF Own, LockFits, Tagging
  <2>11. kind[r] = "upload" \/ (impl = "rust" /\ kind[r] = "retag")
    BY <2>7, <2>10 DEF Rivals, Tagging
  <2> QED BY <2>4, <2>6, <2>9, <2>11
<1> QED BY <1>1, Invariant, PTL
=============================================================================
