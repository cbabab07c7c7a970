------------------------------ MODULE Accounts ------------------------------
(***************************************************************************)
(* The auth service (auth/src/router.rs): concurrent requests that         *)
(* register, log in with a password, refresh, revoke and introspect, over  *)
(* the tables users and refresh_tokens.  Nothing runs in a transaction: a  *)
(* handler is a chain of single statements with other requests, a failing  *)
(* database and clients that go away between any two of them.              *)
(* A refresh token is a signature over its subject and the second it was   *)
(* issued in, with no id of its own: two logins of one user within a       *)
(* second get the same token, and store it in two rows.                    *)
(***************************************************************************)
EXTENDS Naturals, FiniteSets

CONSTANTS
  Requests,    \* HTTP requests; an account's id is the request that made it
  Names, Emails,
  Nothing,     \* no name, no email, no token
  RefreshTtl,  \* refresh_token_ttl_secs
  AccessTtl,   \* access_token_ttl_secs
  Leeway,      \* by how much the JWT library takes an expired token
  MaxTime,     \* bound: seconds
  MaxGrants,   \* bound: requests that register or log in
  MaxFaults    \* bound: requests that meet a failing statement, are dropped or
               \* present a token of the wrong type

ASSUME AccountsAssumption ==
  /\ RefreshTtl \in Nat /\ AccessTtl \in Nat /\ Leeway \in Nat
  /\ MaxTime \in Nat /\ MaxGrants \in Nat /\ MaxFaults \in Nat

Types == {"refresh", "access"}
Tokens == [sub : Requests, typ : Types, iat : 0 .. MaxTime]

ASSUME NothingAssumption == Nothing \notin Names \cup Emails \cup Tokens

VARIABLES
  now,
  users,   \* table users: the registrations whose account is in it
  rows,    \* table refresh_tokens: [id, token, expired]
  kind,    \* of each request: "register", "password", "refresh", "revoke", "introspect"
  name,    \* the name it registers or logs in with
  email,   \* the email it registers
  right,   \* whether the password it logs in with is the account's, or the token
           \* it presents of the type it is taken for
  token,   \* the token it signed, or was sent
  read,    \* the rows it has read
  stage,   \* "idle", the statement that comes next, "answered", "dropped"
  answer,  \* "none" until it is answered
  hit,     \* history: it met a failing statement or was dropped
  settled  \* history: its account's registration, or its token's revocation, was
           \* answered before it came

requestVars == <<kind, name, email, right, token, read, stage, answer, hit, settled>>
vars == <<now, users, rows, requestVars>>

Init ==
  /\ now = 0
  /\ users = {}
  /\ rows = {}
  /\ kind = [r \in Requests |-> "none"]
  /\ name = [r \in Requests |-> Nothing]
  /\ email = [r \in Requests |-> Nothing]
  /\ right = [r \in Requests |-> FALSE]
  /\ token = [r \in Requests |-> Nothing]
  /\ read = [r \in Requests |-> {}]
  /\ stage = [r \in Requests |-> "idle"]
  /\ answer = [r \in Requests |-> "none"]
  /\ hit = [r \in Requests |-> FALSE]
  /\ settled = [r \in Requests |-> FALSE]

-----------------------------------------------------------------------------

Goes(r, from, to) == stage[r] = from /\ stage' = [stage EXCEPT ![r] = to] /\ answer' = answer

Answer(r, a) ==
  /\ stage' = [stage EXCEPT ![r] = "answered"]
  /\ answer' = [answer EXCEPT ![r] = a]

(* The handler returns, and what it has read is gone. *)
Decide(r, a) ==
  /\ stage[r] = "deciding"
  /\ Answer(r, a)
  /\ read' = [read EXCEPT ![r] = {}]

Grants == {"register", "password"}

Misfit(r) == kind[r] \notin Grants /\ token[r] # Nothing /\ ~right[r]

MayFail == Cardinality({q \in Requests : hit[q] \/ Misfit(q)}) < MaxFaults

Fault(r) ==
  /\ MayFail
  /\ hit' = [hit EXCEPT ![r] = TRUE]

args == <<kind, name, email, right, settled>>

(* A request comes in. *)
Arrive(r, k, next) ==
  /\ stage[r] = "idle"
  /\ kind' = [kind EXCEPT ![r] = k]
  /\ stage' = [stage EXCEPT ![r] = next]
  /\ UNCHANGED <<now, users, rows, read, answer, hit>>

(* A revocation of token t was answered, and met no failure. *)
Revoked(t) ==
  \E v \in Requests : kind[v] = "revoke" /\ token[v] = t /\ answer[v] = "ok" /\ ~hit[v]

(* The tokens clients were given, and may present (an answer that is lost   *)
(* on its way counts as one: Drop is only for those that are never made).  *)
Given ==
  {token[q] : q \in {p \in Requests : kind[p] \in Grants /\ answer[p] = "ok"}}

MayGrant == Cardinality({q \in Requests : kind[q] \in Grants}) < MaxGrants

SendRegister(r) ==
  /\ MayGrant
  /\ \E n \in Names, e \in Emails : name' = [name EXCEPT ![r] = n] /\ email' = [email EXCEPT ![r] = e]
  /\ Arrive(r, "register", "naming")
  /\ UNCHANGED <<right, token, settled>>

SendPassword(r) ==
  /\ MayGrant
  /\ \E n \in Names, b \in BOOLEAN :
       /\ name' = [name EXCEPT ![r] = n] /\ right' = [right EXCEPT ![r] = b]
       /\ settled' = [settled EXCEPT ![r] =
            \E u \in users : name[u] = n /\ stage[u] = "answered"]
  /\ Arrive(r, "password", "looking")
  /\ UNCHANGED <<email, token>>

(* Either token of a login, at any endpoint.  Who introspects says in       *)
(* token_hint which type it is; the others ask for a refresh token.        *)
SendToken(r) ==
  /\ \E t \in Given, k \in {"refresh", "revoke", "introspect"}, typ \in Types, fits \in BOOLEAN :
       /\ k # "introspect" => (fits <=> typ = "refresh")
       /\ ~fits => MayFail
       /\ token' = [token EXCEPT ![r] = [t EXCEPT !.typ = typ]]
       /\ right' = [right EXCEPT ![r] = fits]
       /\ settled' = [settled EXCEPT ![r] = typ = "refresh" /\ Revoked(t)]
       /\ Arrive(r, k, "reading")
  /\ UNCHANGED <<name, email>>

-----------------------------------------------------------------------------
(* register_handler                                                        *)

NameHeld(r) == \E u \in users : name[u] = name[r]
EmailHeld(r) == \E u \in users : email[u] = email[r]

(* An empty field or a short password: nothing is looked up. *)
RejectInput(r) ==
  /\ stage[r] = "naming"
  /\ Answer(r, "invalid_request")
  /\ UNCHANGED <<now, users, rows, token, read, hit, args>>

FindName(r) ==
  /\ IF NameHeld(r) THEN stage[r] = "naming" /\ Answer(r, "username_taken")
     ELSE Goes(r, "naming", "mailing")
  /\ UNCHANGED <<now, users, rows, token, read, hit, args>>

FindEmail(r) ==
  /\ IF EmailHeld(r) THEN stage[r] = "mailing" /\ Answer(r, "email_taken")
     ELSE Goes(r, "mailing", "inserting")
  /\ UNCHANGED <<now, users, rows, token, read, hit, args>>

(* Both columns are unique. *)
Inserted(r) == ~NameHeld(r) /\ ~EmailHeld(r) /\ users' = users \cup {r}

InsertUserUntold(r) ==                \* slip: a lost race is answered at once
  /\ \/ Inserted(r) /\ Goes(r, "inserting", "signing")
     \/ /\ NameHeld(r) \/ EmailHeld(r)
        /\ stage[r] = "inserting" /\ Answer(r, "server_error")
        /\ users' = users
  /\ UNCHANGED <<now, rows, token, read, hit, args>>

(* Who comes second gets an error. *)
InsertUser(r) ==
  /\ \/ Inserted(r) /\ Goes(r, "inserting", "signing")
     \/ /\ NameHeld(r) \/ EmailHeld(r)
        /\ Goes(r, "inserting", "asking name")
        /\ users' = users
  /\ UNCHANGED <<now, rows, token, read, hit, args>>

(* The statement fails, whether the row got there or not. *)
InsertUserFails(r) ==
  /\ Goes(r, "inserting", "asking name")
  /\ users' = users \/ Inserted(r)
  /\ Fault(r)
  /\ UNCHANGED <<now, rows, token, read, args>>

(* After any error of the insert: which of the two was it? *)
AskName(r) ==
  /\ IF NameHeld(r) THEN stage[r] = "asking name" /\ Answer(r, "username_taken")
     ELSE Goes(r, "asking name", "asking email")
  /\ UNCHANGED <<now, users, rows, token, read, hit, args>>

AskEmail(r) ==
  /\ stage[r] = "asking email"
  /\ Answer(r, IF EmailHeld(r) THEN "email_taken" ELSE "server_error")
  /\ UNCHANGED <<now, users, rows, token, read, hit, args>>

(* A lookup that fails here counts as "not found". *)
AskFails(r) ==
  /\ \/ Goes(r, "asking name", "asking email")
     \/ stage[r] = "asking email" /\ Answer(r, "server_error")
  /\ Fault(r)
  /\ UNCHANGED <<now, users, rows, token, read, args>>

(* The lookups before the insert, and the one of a login. *)
LookupFails(r) ==
  /\ stage[r] \in {"naming", "mailing", "looking"} /\ Answer(r, "server_error")
  /\ Fault(r)
  /\ UNCHANGED <<now, users, rows, token, read, args>>

-----------------------------------------------------------------------------
(* token_handler: the password grant, and what it shares with register.    *)

FindUser(r) ==
  /\ IF NameHeld(r) /\ right[r] THEN Goes(r, "looking", "signing")
     ELSE stage[r] = "looking" /\ Answer(r, "invalid_grant")
  /\ UNCHANGED <<now, users, rows, token, read, hit, args>>

Account(r) == CHOOSE u \in users : name[u] = name[r]

(* token::generate: no random part. *)
Signed(r) == [sub |-> Account(r), typ |-> "refresh", iat |-> now]

Sign(r) ==
  /\ Goes(r, "signing", "storing")
  /\ token' = [token EXCEPT ![r] = Signed(r)]
  /\ UNCHANGED <<now, users, rows, read, hit, args>>

Row(r) == [id |-> r, token |-> token[r], expired |-> now + RefreshTtl]

Stored(r) == rows' = rows \cup {Row(r)}

StoreUnsigned(r) ==                   \* slip: the row is written before the token is signed
  /\ stage[r] \in {"signing", "storing"} /\ Answer(r, "ok")
  /\ Stored(r)
  /\ UNCHANGED <<now, users, token, read, hit, args>>

StoreToken(r) ==
  /\ stage[r] = "storing" /\ Answer(r, "ok")
  /\ Stored(r)
  /\ UNCHANGED <<now, users, token, read, hit, args>>

(* The account of a registration that gets here stays. *)
StoreFails(r) ==
  /\ stage[r] = "storing" /\ Answer(r, "server_error")
  /\ rows' = rows \/ Stored(r)
  /\ Fault(r)
  /\ UNCHANGED <<now, users, token, read, args>>

-----------------------------------------------------------------------------
(* The requests that bring a token.                                        *)

(* The library allows some leeway.                                         *)
Verified(t) ==
  now <= t.iat + (IF t.typ = "refresh" THEN RefreshTtl ELSE AccessTtl) + Leeway

(* token::verify: the signature is right; the time is not over, and the    *)
(* type is the one it is taken for.                                        *)
Passes(r) == Verified(token[r]) /\ right[r]

Matching(r) == {row \in read[r] : row.token = token[r]}

(* The answer of a request whose token is not good. *)
Denial(r) ==
  CASE kind[r] = "refresh" -> "invalid_grant"
    [] kind[r] = "revoke" -> "ok"
    [] OTHER -> "inactive"

Deny(r) ==
  /\ stage[r] = "reading" /\ ~Passes(r)
  /\ Answer(r, Denial(r))
  /\ UNCHANGED <<now, users, rows, token, read, hit, args>>

(* All rows of the user, each with a hash of its own.  Access tokens are   *)
(* not in the store.                                                       *)
ReadRows(r) ==
  /\ Goes(r, "reading", "deciding")
  /\ Passes(r)
  /\ read' = [read EXCEPT ![r] =
       {row \in rows : token[r].typ = "refresh" /\ row.token.sub = token[r].sub}]
  /\ UNCHANGED <<now, users, rows, token, hit, args>>

(* revoke answers 200 and introspect "inactive" even then. *)
ReadFails(r) ==
  /\ stage[r] = "reading" /\ Passes(r)
  /\ Answer(r, IF kind[r] = "refresh" THEN "server_error" ELSE Denial(r))
  /\ Fault(r)
  /\ UNCHANGED <<now, users, rows, token, read, args>>

RefreshFirst(r) ==                    \* slip: the first row of the user is taken for the token's
  /\ kind[r] = "refresh"
  /\ \/ read[r] = {} /\ Decide(r, "invalid_grant")
     \/ \E row \in read[r] :
          Decide(r, IF row.token # token[r] \/ row.expired < now THEN "invalid_grant" ELSE "ok")
  /\ UNCHANGED <<now, users, rows, token, hit, args>>

(* The first row, in no particular order, that holds the token decides;    *)
(* the rows are those read before.                                         *)
Refresh(r) ==
  /\ kind[r] = "refresh"
  /\ \/ Matching(r) = {} /\ Decide(r, "invalid_grant")
     \/ \E row \in Matching(r) : Decide(r, IF row.expired < now THEN "invalid_grant" ELSE "ok")
  /\ UNCHANGED <<now, users, rows, token, hit, args>>

RevokeExpired(r) ==                   \* slip: a row of the user goes, if its time is over
  /\ kind[r] = "revoke"
  /\ rows' = {other \in rows : other \notin read[r] \/ other.expired >= now}
  /\ Decide(r, "ok")
  /\ UNCHANGED <<now, users, token, hit, args>>

(* One row that holds the token is deleted. *)
Deletes(r) == \E row \in Matching(r) : rows' = {other \in rows : other.id # row.id}

Revoke(r) ==
  /\ kind[r] = "revoke"
  /\ Deletes(r) \/ (Matching(r) = {} /\ rows' = rows)
  /\ Decide(r, "ok")
  /\ UNCHANGED <<now, users, token, hit, args>>

(* A delete that fails is logged: the answer is the same. *)
RevokeFails(r) ==
  /\ kind[r] = "revoke"
  /\ rows' = rows \/ Deletes(r)
  /\ Decide(r, "ok")
  /\ Fault(r)
  /\ UNCHANGED <<now, users, token, args>>

(* Then the user is looked up; users are not deleted.                      *)
Introspect(r) ==
  /\ kind[r] = "introspect"
  /\ Decide(r, IF /\ token[r].typ = "refresh" => Matching(r) # {}
                  /\ token[r].sub \in users
               THEN "active" ELSE "inactive")
  /\ UNCHANGED <<now, users, rows, token, hit, args>>

IntrospectFails(r) ==
  /\ kind[r] = "introspect"
  /\ Decide(r, "inactive")
  /\ Fault(r)
  /\ UNCHANGED <<now, users, rows, token, args>>

-----------------------------------------------------------------------------

Open(r) == stage[r] \notin {"idle", "answered", "dropped"}

(* The client goes away, or the service stops: the future is dropped, and  *)
(* the statement it waits for may still be carried out.                    *)
Drop(r) ==
  /\ Open(r)
  /\ Fault(r)
  /\ stage' = [stage EXCEPT ![r] = "dropped"]
  /\ \/ UNCHANGED <<users, rows>>
     \/ stage[r] = "inserting" /\ Inserted(r) /\ rows' = rows
     \/ stage[r] = "storing" /\ Stored(r) /\ users' = users
     \/ stage[r] = "deciding" /\ kind[r] = "revoke" /\ Deletes(r) /\ users' = users
  /\ UNCHANGED <<now, token, read, answer, args>>

Tick ==
  /\ now < MaxTime
  /\ now' = now + 1
  /\ UNCHANGED <<users, rows, requestVars>>

Register(r) ==
  \/ RejectInput(r) \/ FindName(r) \/ FindEmail(r) \/ InsertUser(r) \/ InsertUserFails(r)
  \/ AskName(r) \/ AskEmail(r) \/ AskFails(r)

Grant(r) == LookupFails(r) \/ FindUser(r) \/ Sign(r) \/ StoreToken(r) \/ StoreFails(r)

Present(r) ==
  \/ Deny(r) \/ ReadRows(r) \/ ReadFails(r) \/ Refresh(r)
  \/ Revoke(r) \/ RevokeFails(r) \/ Introspect(r) \/ IntrospectFails(r)

Next ==
  \/ Tick
  \/ \E r \in Requests :
       \/ SendRegister(r) \/ SendPassword(r) \/ SendToken(r)
       \/ Register(r) \/ Grant(r) \/ Present(r) \/ Drop(r)

Spec == Init /\ [][Next]_vars

-----------------------------------------------------------------------------

Rows == [id : Requests, token : Tokens, expired : Nat]
Kinds == Grants \cup {"none", "refresh", "revoke", "introspect"}
Stages == {"idle", "naming", "mailing", "inserting", "asking name", "asking email", "looking",
           "signing", "storing", "reading", "deciding", "answered", "dropped"}
Answers == {"none", "ok", "active", "inactive", "username_taken", "email_taken",
            "invalid_request", "invalid_grant", "server_error"}

(* Every variable has its type. *)
TypeOK ==
  /\ now \in 0 .. MaxTime
  /\ users \subseteq Requests
  /\ rows \subseteq Rows
  /\ kind \in [Requests -> Kinds]
  /\ name \in [Requests -> Names \cup {Nothing}]
  /\ email \in [Requests -> Emails \cup {Nothing}]
  /\ right \in [Requests -> BOOLEAN]
  /\ token \in [Requests -> Tokens \cup {Nothing}]
  /\ read \in [Requests -> SUBSET Rows]
  /\ stage \in [Requests -> Stages]
  /\ answer \in [Requests -> Answers]
  /\ hit \in [Requests -> BOOLEAN]
  /\ settled \in [Requests -> BOOLEAN]

(* Registrations race between the lookups and the insert, and are told     *)
(* apart by a second look at the tables: whoever is told that a name or an *)
(* email is taken was beaten by the account of somebody else, nobody has   *)
(* an account without being told so, and there is one account per name and *)
(* per email.  Only a failing statement can blur that.                     *)
RegistrationTold ==
  /\ \A u, w \in users : u # w => name[u] # name[w] /\ email[u] # email[w]
  /\ \A r \in Requests :
       kind[r] = "register" /\ stage[r] = "answered" =>
         /\ answer[r] = "username_taken" =>
              \E u \in users : name[u] = name[r] /\ (u # r \/ hit[r])
         /\ answer[r] = "email_taken" =>
              \E u \in users : email[u] = email[r] /\ (u # r \/ hit[r])
         /\ answer[r] = "server_error" => hit[r]
         /\ answer[r] = "ok" => r \in users
         /\ r \in users => answer[r] = "ok" \/ hit[r]

(* Two logins that were given one and the same token. *)
Twins(t) ==
  \E p, q \in Requests : p # q /\ {kind[p], kind[q]} \subseteq Grants /\ token[p] = t /\ token[q] = t

(* A refresh token is good for nothing once its revocation was answered:   *)
(* a request that comes later is refused, unless the revocation met a      *)
(* failure it did not report, or another login within the same second got  *)
(* the same token and left a second row.                                   *)
LogoutHolds ==
  \A r \in Requests :
    kind[r] \in {"refresh", "introspect"} /\ settled[r] /\ answer[r] \in {"ok", "active"} =>
      Twins(token[r])

(* A revocation of token t is over, whatever it met. *)
Deleted(t) ==
  \E v \in Requests : kind[v] = "revoke" /\ token[v] = t /\ stage[v] \in {"answered", "dropped"}

(* Nobody is turned away without a cause: an account whose registration    *)
(* was over can log in, whatever became of its first token, and a token    *)
(* that is presented as what it is is taken until its time is over or it   *)
(* was itself revoked, not another of the same user.  The other token of a *)
(* login is not a refresh token.                                           *)
RefusalsHaveCause ==
  \A r \in Requests :
    ~hit[r] =>
      /\ kind[r] = "password" /\ answer[r] = "invalid_grant" /\ right[r] =>
           ~settled[r]
      /\ kind[r] = "refresh" /\ answer[r] = "invalid_grant" =>
           ~right[r] \/ now > token[r].iat + RefreshTtl \/ Deleted(token[r])
      /\ kind[r] = "introspect" /\ answer[r] = "inactive" =>
           \/ ~Passes(r)
           \/ token[r].typ = "refresh" /\ Deleted(token[r])
      /\ answer[r] # "server_error"
=============================================================================
