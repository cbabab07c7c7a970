---------------------------- MODULE ProblemStore ----------------------------
(***************************************************************************)
(* One problem in the database, with its tags and test cases, under the    *)
(* requests that create, change, delete, fill and submit to it, in either  *)
(* of the two programs that serve them: the Rust services                  *)
(* (api_server_db/src/repositories) and the TypeScript API                 *)
(* (apps/api/src/modules/problems/repository.ts).  They run the same       *)
(* statements in another order and in other transactions.                  *)
(* The database is PostgreSQL at its default isolation, READ COMMITTED: a  *)
(* statement sees what is committed when it starts and what its own        *)
(* transaction did; a row another transaction has changed, or a key it has *)
(* inserted, is waited for; who waits in a circle is aborted.              *)
(***************************************************************************)
EXTENDS Naturals, Sequences, FiniteSets

CONSTANTS
  Requests,   \* HTTP requests for the problem, each by a client of its own
  Nobody,
  Fields,     \* columns of the problem that an update sets
  Limit,      \* the one of them that a submission copies
  Tags,
  Earlier,    \* bound: sets of tags and test cases stored before the requests
              \* come, in each program's tables
  Patches,    \* bound: columns and tags that are set together
  MaxTags,    \* bound: tags in a request
  MaxTagging, \* bound: requests that bring tags
  CaseCount,  \* bound: test cases in an upload
  MaxFaults   \* bound: requests that meet a failing statement or are dropped

ASSUME StoreAssumption ==
  /\ IsFiniteSet(Requests) /\ Limit \in Fields /\ Nobody \notin Requests
  /\ MaxTags \in Nat /\ MaxTagging \in Nat /\ CaseCount \in Nat /\ MaxFaults \in Nat
  /\ Tags \cap (1 .. CaseCount) = {}
  /\ \A e \in Earlier["rust"] \cup Earlier["ts"] :
       e \subseteq Tags \cup (1 .. CaseCount) /\ e \cap (1 .. CaseCount) \in {{}, 1 .. CaseCount}
  /\ \A e \in Earlier["ts"] : \A t, u \in e \cap Tags : t = u
  /\ Patches \subseteq [sets : SUBSET Fields, tags : UNION {[1 .. n -> Tags] : n \in 0 .. MaxTags}]

Kinds == {"create", "update", "retag", "delete", "upload", "submit"}
Tagging == {"create", "retag"}
CaseIds == 1 .. CaseCount
Lists == UNION {[1 .. n -> Tags] : n \in 0 .. MaxTags}
Cases == [i \in CaseIds |-> i]
Statements ==
  {"find", "find again", "new", "scan", "delete", "insert", "write", "commit", "read", "store"}

VARIABLES
  impl,     \* which program serves: "rust" or "ts"
  there,    \* whether the row of the problem is in the table
  deleted,  \* whether its deleted_at is set
  field,    \* who wrote each column last
  store,    \* its rows in the tables of tags and of test cases: [by, item]
  lock,     \* whose transaction has changed the row of the problem
  kind,     \* of each request
  sets,     \* the columns an update sets
  wanted,   \* the tags or cases it brings, in order
  at,       \* its next statement; "idle" before it comes, "over" at its end
  seen,     \* the rows its last query found; of a DELETE those not yet done
  limit,    \* whose limit a submission copied
  gone,     \* the rows its transaction has deleted
  mine,     \* the rows its transaction has inserted
  answer,   \* "none" until it is answered
  hit,      \* history: it met a failing statement or was dropped
  took,     \* history: it changed what is stored
  before    \* history: the requests that were over when it came

row == <<there, deleted, field>>
request == <<kind, sets, wanted, before>>
vars == <<impl, row, store, lock, request, at, seen, limit, gone, mine, answer, hit, took>>

(* Test cases have ids of their own.  Tags have (problem, tag) for their   *)
(* key in Rust; in TypeScript's migration the problem alone is the key.    *)
Clash(x, y) ==
  IF x.item \in Tags THEN y.item \in Tags /\ (impl = "ts" \/ x.item = y.item) ELSE x = y

Init ==
  /\ impl \in {"rust", "ts"}
  /\ there \in BOOLEAN
  /\ deleted = FALSE
  /\ field = [f \in Fields |-> Nobody]
  /\ store \in {[by : {Nobody}, item : e] : e \in IF there THEN Earlier[impl] ELSE {{}}}
  /\ lock = Nobody
  /\ kind = [r \in Requests |-> "none"]
  /\ sets = [r \in Requests |-> {}]
  /\ wanted = [r \in Requests |-> <<>>]
  /\ at = [r \in Requests |-> "idle"]
  /\ seen = [r \in Requests |-> {}]
  /\ limit = [r \in Requests |-> Nobody]
  /\ gone = [r \in Requests |-> {}]
  /\ mine = [r \in Requests |-> {}]
  /\ answer = [r \in Requests |-> "none"]
  /\ hit = [r \in Requests |-> FALSE]
  /\ took = [r \in Requests |-> FALSE]
  /\ before = [r \in Requests |-> {}]

-----------------------------------------------------------------------------
(* The statements of a handler, in order.                                  *)

Open(r) == at[r] \in Statements

(* The statements of a deletion and of TypeScript's creation commit        *)
(* themselves.                                                             *)
Autocommit(r) == kind[r] = "delete" \/ (kind[r] = "create" /\ impl = "ts")

(* TypeScript's update writes the row before the tags, the Rust one after. *)
RowFirst(r) == kind[r] \in {"update", "delete"} \/ (kind[r] = "retag" /\ impl = "ts")

(* A Rust upload looks for the problem twice, in two functions. *)
AfterFind(r) ==
  IF kind[r] = "submit" THEN "read"
  ELSE IF RowFirst(r) THEN "write"
  ELSE IF kind[r] = "upload" /\ impl = "rust" /\ at[r] = "find" THEN "find again" ELSE "scan"

(* n of its rows are inserted. *)
AfterRows(r, n) ==
  IF n < Len(wanted[r]) THEN "insert"
  ELSE IF Autocommit(r) THEN "over"
  ELSE IF kind[r] = "retag" /\ impl = "rust" THEN "write" ELSE "commit"

AfterWrite(r) ==
  IF Autocommit(r) THEN "over" ELSE IF kind[r] = "retag" /\ impl = "ts" THEN "scan" ELSE "commit"

Fault(r) ==
  /\ Cardinality({q \in Requests : hit[q]}) < MaxFaults
  /\ hit' = [hit EXCEPT ![r] = TRUE]

(* After the last statement the request may have done its work and be      *)
(* reported as failed, when the connection breaks.                         *)
GoTo(r, s) ==
  /\ at' = [at EXCEPT ![r] = s]
  /\ \/ s # "over" /\ UNCHANGED <<answer, hit>>
     \/ s = "over" /\ answer' = [answer EXCEPT ![r] = "ok"] /\ hit' = hit
     \/ s = "over" /\ answer' = [answer EXCEPT ![r] = "error"] /\ Fault(r)

Unlock(r) == lock' = IF lock = r THEN Nobody ELSE lock

(* The transaction is rolled back and the request is over; whether its     *)
(* client hears of it makes no difference to what is stored.               *)
GiveUp(r, a) ==
  /\ at' = [at EXCEPT ![r] = "over"]
  /\ answer' = [answer EXCEPT ![r] = a]
  /\ seen' = [seen EXCEPT ![r] = {}]
  /\ gone' = [gone EXCEPT ![r] = {}]
  /\ mine' = [mine EXCEPT ![r] = {}]
  /\ Unlock(r)
  /\ UNCHANGED <<row, store, limit, took>>

-----------------------------------------------------------------------------
(* What a statement has to wait for.                                       *)

RowOf(r, i) == [by |-> r, item |-> wanted[r][i]]

(* The row that is inserted next in Rust, all of them in TypeScript.       *)
Turn(r) == Cardinality(mine[r]) + 1
Batch(r) == {RowOf(r, i) : i \in IF impl = "rust" THEN {Turn(r)} ELSE DOMAIN wanted[r]}

(* Drizzle's set({}) throws before a statement is sent; SeaORM at least sets *)
(* updated_at.                                                             *)
SetsNothing(r) == impl = "ts" /\ kind[r] \in {"update", "retag"} /\ sets[r] = {}

(* Nothing says in which order a DELETE goes through its rows: it may be   *)
(* waiting for any of them.                                                *)
Blockers(r) ==
  {q \in Requests \ {r} :
     \/ at[r] = "write" /\ ~SetsNothing(r) /\ lock = q
     \/ at[r] = "delete" /\ seen[r] \cap gone[q] # {}
     \/ at[r] = "insert" /\ \E x \in Batch(r), y \in mine[q] \cup gone[q] : Clash(x, y)}

Circle(r) ==
  LET waits == [q \in Requests |-> Blockers(q)]
  IN \E n \in 1 .. Cardinality(Requests) : \E c \in [0 .. n -> Requests] :
       c[0] = r /\ c[n] = r /\ \A i \in 1 .. n : c[i] \in waits[c[i - 1]]

(* The database aborts one of those who wait for each other.               *)
Victim(r) ==
  /\ Blockers(r) # {} /\ Circle(r)
  /\ GiveUp(r, "error")
  /\ UNCHANGED <<impl, request, hit>>

-----------------------------------------------------------------------------
(* A request comes in.                                                     *)

Arrive(r, k) ==
  /\ at[r] = "idle"
  /\ k \in Tagging => Cardinality({q \in Requests : kind[q] \in Tagging}) < MaxTagging
  /\ kind' = [kind EXCEPT ![r] = k]
  /\ at' = [at EXCEPT ![r] = IF k = "create" THEN "new" ELSE "find"]
  /\ before' = [before EXCEPT ![r] = {q \in Requests : at[q] = "over"}]
  /\ UNCHANGED <<impl, row, store, lock, seen, limit, gone, mine, answer, hit, took>>

(* The problem has an id of its own: nobody else creates it.               *)
SendCreate(r) ==
  /\ ~there /\ \A q \in Requests : kind[q] # "create"
  /\ \E tags \in Lists : wanted' = [wanted EXCEPT ![r] = tags]
  /\ Arrive(r, "create")
  /\ UNCHANGED sets

(* At most one column, or tags beside what else is set. *)
SendUpdate(r) ==
  \/ /\ Arrive(r, "update") /\ UNCHANGED wanted
     /\ \E S \in {{}} \cup {{f} : f \in Fields} : sets' = [sets EXCEPT ![r] = S]
  \/ \E patch \in Patches :
       /\ Arrive(r, "retag")
       /\ sets' = [sets EXCEPT ![r] = patch.sets]
       /\ wanted' = [wanted EXCEPT ![r] = patch.tags]

SendUpload(r) ==
  /\ Arrive(r, "upload")
  /\ wanted' = [wanted EXCEPT ![r] = Cases]
  /\ UNCHANGED sets

SendOther(r) ==
  /\ Arrive(r, "delete") \/ Arrive(r, "submit")
  /\ UNCHANGED <<sets, wanted>>

-----------------------------------------------------------------------------

(* The check before anything is changed, outside any transaction.  Only    *)
(* TypeScript's submissions do without deleted_at.  The requests are those *)
(* of the author: anybody else's change ends here.                         *)
Found(r) == there /\ (~deleted \/ (kind[r] = "submit" /\ impl = "ts"))

Find(r) ==
  /\ at[r] \in {"find", "find again"} /\ Found(r)
  /\ GoTo(r, AfterFind(r))
  /\ limit' = [limit EXCEPT ![r] = IF kind[r] = "submit" THEN field[Limit] ELSE Nobody]
  /\ UNCHANGED <<impl, row, store, lock, request, seen, gone, mine, took>>

Refuse(r) ==
  /\ at[r] \in {"find", "find again"} /\ ~Found(r)
  /\ GiveUp(r, "refused")
  /\ UNCHANGED <<impl, request, hit>>

(* The problem is inserted: at once for all, or in the transaction.        *)
New(r) ==
  /\ at[r] = "new"
  /\ GoTo(r, AfterRows(r, 0))
  /\ IF Autocommit(r)
     THEN /\ there' = TRUE /\ field' = [f \in Fields |-> r]
          /\ took' = [took EXCEPT ![r] = TRUE]
     ELSE UNCHANGED <<there, field, took>>
  /\ UNCHANGED <<impl, deleted, store, lock, request, seen, limit, gone, mine>>

(* DELETE, first half: the rows it finds.  SELECT, for a submission.       *)
Scan(r) ==
  /\ \/ at[r] = "scan" /\ GoTo(r, "delete")
     \/ at[r] = "read" /\ GoTo(r, "store")
  /\ seen' = [seen EXCEPT ![r] = {x \in store : x.item \in Tags <=> kind[r] = "retag"}]
  /\ UNCHANGED <<impl, row, store, lock, request, limit, gone, mine, took>>

DeleteForgets(r) ==                   \* slip: nothing is deleted
  /\ at[r] = "delete"
  /\ GoTo(r, AfterRows(r, 0))
  /\ seen' = [seen EXCEPT ![r] = {}]
  /\ UNCHANGED <<impl, row, store, lock, request, limit, gone, mine, took>>

(* Second half: one of them after the other, once nobody else has it and   *)
(* if it is still there.  Those it has deleted it keeps while it waits.    *)
Delete(r) ==
  /\ at[r] = "delete"
  /\ \E X \in IF seen[r] = {} THEN {{}} ELSE {{x} : x \in seen[r]} :
       /\ \A q \in Requests \ {r} : X \cap gone[q] = {}
       /\ seen' = [seen EXCEPT ![r] = @ \ X]
       /\ gone' = [gone EXCEPT ![r] = @ \cup (X \cap store)]
       /\ IF seen[r] \subseteq X THEN GoTo(r, AfterRows(r, 0)) ELSE UNCHANGED <<at, answer, hit>>
  /\ UNCHANGED <<impl, row, store, lock, request, limit, mine, took>>

Repeats(r) == \E i, j \in DOMAIN wanted[r] : i # j /\ Clash(RowOf(r, i), RowOf(r, j))

(* A key is held by a row that stays, or twice in the request itself.      *)
Taken(r) ==
  \/ \E x \in Batch(r), y \in (store \ gone[r]) \cup mine[r] : Clash(x, y)
  \/ impl = "ts" /\ Repeats(r)

Inserted(r) ==
  /\ at[r] = "insert" /\ Blockers(r) = {} /\ ~Taken(r)
  /\ GoTo(r, AfterRows(r, IF impl = "rust" THEN Turn(r) ELSE Len(wanted[r])))
  /\ UNCHANGED <<impl, row, lock, request, seen, limit, gone, took>>

InsertCommits(r) ==                   \* slip: rows are inserted outside the transaction
  /\ Inserted(r)
  /\ mine' = [mine EXCEPT ![r] = @ \cup Batch(r)]
  /\ store' = store \cup Batch(r)

Insert(r) ==
  /\ Inserted(r)
  /\ IF Autocommit(r) THEN store' = store \cup Batch(r) /\ UNCHANGED mine
     ELSE mine' = [mine EXCEPT ![r] = @ \cup Batch(r)] /\ UNCHANGED store

InsertTaken(r) ==
  /\ at[r] = "insert" /\ Blockers(r) = {} /\ Taken(r)
  /\ GiveUp(r, "error")
  /\ UNCHANGED <<impl, request, hit>>

(* TypeScript's update without a column to set, before its transaction has *)
(* done anything.                                                          *)
NothingToSet(r) ==
  /\ at[r] = "write" /\ SetsNothing(r)
  /\ GiveUp(r, "error")
  /\ UNCHANGED <<impl, request, hit>>

(* The row of the problem: a deletion sets deleted_at and is done, an      *)
(* update holds the row until it commits.  Nobody asks again whether the   *)
(* problem is deleted.                                                     *)
Write(r) ==
  /\ at[r] = "write" /\ ~SetsNothing(r) /\ Blockers(r) = {}
  /\ GoTo(r, AfterWrite(r))
  /\ IF Autocommit(r)
     THEN deleted' = TRUE /\ took' = [took EXCEPT ![r] = TRUE] /\ UNCHANGED lock
     ELSE lock' = r /\ UNCHANGED <<deleted, took>>
  /\ UNCHANGED <<impl, there, field, store, request, seen, limit, gone, mine>>

Committed(r) ==
  /\ at[r] = "commit"
  /\ GoTo(r, "over")
  /\ store' = (store \ gone[r]) \cup mine[r]
  /\ there' = (there \/ kind[r] = "create")
  /\ field' = [f \in Fields |->
       IF kind[r] = "create" \/ (lock = r /\ f \in sets[r]) THEN r ELSE field[f]]
  /\ gone' = [gone EXCEPT ![r] = {}]
  /\ mine' = [mine EXCEPT ![r] = {}]
  /\ took' = [took EXCEPT ![r] = TRUE]
  /\ UNCHANGED <<impl, request, seen, limit>>

CommitWhole(r) ==                     \* slip: an update writes the whole row it read, not its column
  Committed(r) /\ Unlock(r) /\ deleted' = (deleted /\ lock # r)

CommitKeeps(r) ==                     \* slip: the row stays locked
  Committed(r) /\ UNCHANGED <<lock, deleted>>

(* Only the columns that were set are written.                             *)
Commit(r) == Committed(r) /\ Unlock(r) /\ UNCHANGED deleted

(* The submission goes into its table, with the task made of what was      *)
(* read.                                                                   *)
StoreSubmission(r) ==
  /\ at[r] = "store"
  /\ GoTo(r, "over")
  /\ took' = [took EXCEPT ![r] = TRUE]
  /\ UNCHANGED <<impl, row, store, lock, request, seen, limit, gone, mine>>

-----------------------------------------------------------------------------

(* A statement fails, or the client or the program goes away.              *)
Fails(r) ==
  /\ Open(r)
  /\ Fault(r)
  /\ GiveUp(r, "error")
  /\ UNCHANGED <<impl, request>>

Send(r) == SendCreate(r) \/ SendUpdate(r) \/ SendUpload(r) \/ SendOther(r)

Step(r) ==
  \/ Find(r) \/ Refuse(r) \/ New(r) \/ Scan(r) \/ Delete(r) \/ Insert(r) \/ InsertTaken(r)
  \/ NothingToSet(r) \/ Write(r) \/ Commit(r) \/ StoreSubmission(r)

(* All requests of the instance are over. *)
Rest == (\A r \in Requests : at[r] = "over") /\ UNCHANGED vars

Next == (\E r \in Requests : Send(r) \/ Step(r) \/ Victim(r) \/ Fails(r)) \/ Rest

Spec == Init /\ [][Next]_vars

-----------------------------------------------------------------------------

Rows == [by : Requests \cup {Nobody}, item : Tags \cup CaseIds]

(* Every variable has its type. *)
TypeOK ==
  /\ impl \in {"rust", "ts"}
  /\ there \in BOOLEAN /\ deleted \in BOOLEAN
  /\ field \in [Fields -> Requests \cup {Nobody}]
  /\ store \subseteq Rows
  /\ lock \in {r \in Requests : Open(r)} \cup {Nobody}
  /\ kind \in [Requests -> Kinds \cup {"none"}]
  /\ sets \in [Requests -> SUBSET Fields]
  /\ wanted \in [Requests -> Lists \cup {Cases}]
  /\ at \in [Requests -> Statements \cup {"idle", "over"}]
  /\ seen \in [Requests -> SUBSET Rows]
  /\ limit \in [Requests -> Requests \cup {Nobody}]
  /\ gone \in [Requests -> SUBSET Rows]
  /\ mine \in [Requests -> SUBSET Rows]
  /\ answer \in [Requests -> {"none", "ok", "refused", "error"}]
  /\ hit \in [Requests -> BOOLEAN]
  /\ took \in [Requests -> BOOLEAN]
  /\ before \in [Requests -> SUBSET Requests]

Ok(r) == answer[r] = "ok"
Table(r) == IF kind[r] = "upload" THEN CaseIds ELSE Tags
Replacing == {"create", "retag", "upload"}
Sets(r, f) == kind[r] = "create" \/ (kind[r] \in {"update", "retag"} /\ f \in sets[r])

(* Who wrote before r came. *)
Past(r) == IF r = Nobody THEN {} ELSE before[r] \cup {Nobody}

(* What was in the place before r came is no longer there. *)
Stands(r) ==
  /\ \A f \in Fields : Sets(r, f) => there /\ field[f] \notin Past(r)
  /\ kind[r] = "delete" => deleted
  /\ kind[r] \in Replacing =>
       /\ \A x \in store : x.item \in Table(r) => x.by \notin Past(r)
       /\ \/ \A i \in DOMAIN wanted[r] : RowOf(r, i) \in store
          \/ \E q \in Requests \ {r} :
               took[q] /\ kind[q] \in Replacing /\ Table(q) = Table(r) /\ q \notin before[r]

(* What a client was told is what is stored.  A change that was answered   *)
(* with success stands until one that ended later: it is not undone by a   *)
(* change of another column or by one that read the problem before, a      *)
(* deletion stays, and an upload or a list of tags leaves nothing of those *)
(* that were over when it came.  A change that was refused or failed left  *)
(* nothing; only the row of a problem that TypeScript created without its  *)
(* tags stays, and what a commit did whose answer was lost.                *)
AnswersAreTrue ==
  \A r \in Requests :
    /\ Ok(r) => Stands(r)
    /\ at[r] = "over" /\ ~took[r] =>
         (\A f \in Fields : field[f] # r) /\ (\A x \in store : x.by # r)
    /\ took[r] /\ answer[r] \in {"error", "refused"} =>
         hit[r] \/ Autocommit(r)

(* What a submission is judged on.  Uploads come whole or not at all, and  *)
(* of two only if they ran at the same time; what was replaced, or deleted *)
(* in Rust, before the submission came is not used, the limits neither.    *)
SubmitSeesOneVersion ==
  \A s \in Requests : kind[s] = "submit" /\ Ok(s) =>
    /\ \A x \in seen[s] : \A n \in CaseIds : [by |-> x.by, item |-> n] \in seen[s]
    /\ \A x, y \in seen[s] : x.by \notin Past(y.by)
    /\ \A q \in before[s] : Ok(q) =>
         /\ kind[q] = "upload" =>
              (CaseCount > 0 => seen[s] # {}) /\ \A x \in seen[s] : x.by \notin Past(q)
         /\ Sets(q, Limit) => limit[s] \notin Past(q)
         /\ kind[q] = "delete" => impl = "ts"

Overlap(q, r) == at[q] # "idle" /\ at[r] # "idle" /\ q \notin before[r] /\ r \notin before[q]

(* Two requests that may wait for each other, or one for the other's key:  *)
(* in TypeScript a problem's tags are written under the lock of its row,   *)
(* except while it is created.                                             *)
Rivals(q, r) ==
  \/ kind[q] = "upload" /\ kind[r] = "upload"
  \/ impl = "rust" /\ kind[q] = "retag" /\ kind[r] = "retag"
  \/ impl = "ts" /\ {kind[q], kind[r]} = Tagging

(* A request that met no failure fails only for what it asks, the same tag *)
(* twice in Rust, more than one or no column beside them in TypeScript, or *)
(* for a rival that ran at the same time: then the rows that one DELETE    *)
(* has and another waits for may close a circle even if their tags do not  *)
(* meet.  Updates that set a column, deletions and submissions always      *)
(* succeed or are refused, creations in Rust too unless they repeat a tag. *)
ErrorsHaveCause ==
  \A r \in Requests :
    answer[r] = "error" /\ ~hit[r] =>
      \/ kind[r] \in Tagging /\ Repeats(r)
      \/ SetsNothing(r)
      \/ \E q \in Requests \ {r} : Overlap(q, r) /\ Rivals(q, r)
=============================================================================
