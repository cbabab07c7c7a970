-------------------------- MODULE Accounts_proofs --------------------------
(***************************************************************************)
(* Theorems about Accounts: what registrations are told, that a logout     *)
(* holds, and that refusals have a cause, for any number of requests,      *)
(* names, emails, seconds and faults.                                      *)
(***************************************************************************)
EXTENDS Accounts, TLAPS

Asking == {"asking name", "asking email"}
Presenting == {"refresh", "revoke", "introspect"}
Ended == {"answered", "dropped"}

(* Which stages belong to which requests. *)
Staged(r) ==
  /\ stage[r] = "idle" <=> kind[r] = "none"
  /\ stage[r] = "idle" => ~settled[r]
  /\ stage[r] \in {"naming", "mailing", "inserting"} \cup Asking => kind[r] = "register"
  /\ stage[r] = "looking" => kind[r] = "password"
  /\ stage[r] \in {"signing", "storing"} => kind[r] \in Grants
  /\ stage[r] \in {"reading", "deciding"} => kind[r] \in Presenting
  /\ answer[r] = "none" <=> stage[r] # "answered"
  /\ stage[r] = "dropped" => hit[r]

(* An account is that of a registration that got past its insert, and is   *)
(* there for whoever found it.                                             *)
Listed(r) ==
  /\ r \in users =>
       /\ kind[r] = "register"
       /\ stage[r] \in Asking \cup {"signing", "storing"} \cup Ended
       /\ stage[r] \in Asking => hit[r]
  /\ stage[r] \in {"signing", "storing"} =>
       NameHeld(r) /\ (kind[r] = "register" => r \in users)
  /\ kind[r] = "password" /\ settled[r] => NameHeld(r)
  /\ stage[r] = "asking name" /\ ~hit[r] => NameHeld(r) \/ EmailHeld(r)
  /\ stage[r] = "asking email" /\ ~hit[r] => EmailHeld(r)

(* A token belongs to an account and is a refresh token when it is signed. *)
Proper(t) == t \in Tokens /\ t.typ = "refresh" /\ t.sub \in users /\ t.iat <= now

Granted(r) ==
  /\ stage[r] \notin {"storing", "reading", "deciding"} \cup Ended => token[r] = Nothing
  /\ kind[r] \in Grants /\ token[r] # Nothing => Proper(token[r])
  /\ kind[r] \in Grants /\ (stage[r] = "storing" \/ answer[r] = "ok") => token[r] # Nothing

(* A token that is presented was given to somebody. *)
GivenTo(p, t) ==
  /\ kind[p] \in Grants /\ answer[p] = "ok" /\ token[p] # Nothing
  /\ token[p].sub = t.sub
  /\ t.typ = "refresh" => token[p] = t

Presented(r) ==
  kind[r] \in Presenting =>
    /\ token[r] \in Tokens
    /\ kind[r] # "introspect" /\ right[r] => token[r].typ = "refresh"
    /\ kind[r] # "introspect" /\ token[r].typ = "refresh" => right[r]
    /\ stage[r] = "deciding" => right[r]
    /\ \E p \in Requests : GivenTo(p, token[r])

(* A row is that of a grant that is over. *)
Genuine(row) ==
  /\ kind[row.id] \in Grants /\ token[row.id] = row.token
  /\ stage[row.id] \in Ended
  /\ row.token.iat + RefreshTtl <= row.expired

(* The row of a grant stays until its token is revoked. *)
Kept(r) ==
  kind[r] \in Grants /\ answer[r] = "ok" =>
    Deleted(token[r]) \/ \E row \in rows : row.id = r /\ row.token = token[r]

(* What was read is enough to decide. *)
ReadEnough(r) ==
  stage[r] = "deciding" /\ token[r].typ = "refresh" =>
    /\ Deleted(token[r]) \/ Matching(r) # {}
    /\ Twins(token[r]) \/ \A row \in rows : row.token = token[r] => row \in read[r]
    /\ settled[r] => Twins(token[r]) \/ Matching(r) = {}

(* After a revocation there is no row for its token. *)
Gone(r) ==
  kind[r] = "revoke" /\ answer[r] = "ok" /\ ~hit[r] =>
    \/ Twins(token[r])
    \/ ~Verified(token[r])
    \/ token[r].typ # "refresh"
    \/ \A row \in rows : row.token # token[r]

Settled(r) ==
  kind[r] \in Presenting /\ settled[r] =>
    token[r].typ = "refresh" /\ Revoked(token[r])

(* The properties, of one request. *)
Told(r) ==
  kind[r] = "register" /\ stage[r] = "answered" =>
    /\ answer[r] = "username_taken" =>
         \E u \in users : name[u] = name[r] /\ (u # r \/ hit[r])
    /\ answer[r] = "email_taken" =>
         \E u \in users : email[u] = email[r] /\ (u # r \/ hit[r])
    /\ answer[r] = "server_error" => hit[r]
    /\ answer[r] = "ok" => r \in users
    /\ r \in users => answer[r] = "ok" \/ hit[r]

OutFor(r) ==
  kind[r] \in {"refresh", "introspect"} /\ settled[r] /\ answer[r] \in {"ok", "active"} =>
    Twins(token[r])

Caused(r) ==
  ~hit[r] =>
    /\ kind[r] = "password" /\ answer[r] = "invalid_grant" /\ right[r] => ~settled[r]
    /\ kind[r] = "refresh" /\ answer[r] = "invalid_grant" =>
         ~right[r] \/ now > token[r].iat + RefreshTtl \/ Deleted(token[r])
    /\ kind[r] = "introspect" /\ answer[r] = "inactive" =>
         \/ ~Passes(r)
         \/ token[r].typ = "refresh" /\ Deleted(token[r])
    /\ answer[r] # "server_error"

Distinct == \A u, w \in users : u # w => name[u] # name[w] /\ email[u] # email[w]

Own(r) ==
  /\ Staged(r) /\ Listed(r) /\ Granted(r) /\ Presented(r) /\ Kept(r) /\ ReadEnough(r)
  /\ Gone(r) /\ Settled(r) /\ Told(r) /\ OutFor(r) /\ Caused(r)
  /\ \A row \in read[r] : Genuine(row)

IInv ==
  /\ TypeOK /\ Distinct
  /\ \A row \in rows : Genuine(row)
  /\ \A r \in Requests : Own(r)

-----------------------------------------------------------------------------
(* Steps.                                                                  *)

Only(r) ==
  \A q \in Requests \ {r} :
    /\ kind'[q] = kind[q] /\ name'[q] = name[q] /\ email'[q] = email[q] /\ right'[q] = right[q]
    /\ token'[q] = token[q] /\ read'[q] = read[q] /\ stage'[q] = stage[q]
    /\ answer'[q] = answer[q] /\ hit'[q] = hit[q] /\ settled'[q] = settled[q]

(* What a request keeps in its own steps. *)
Same(r) ==
  /\ stage[r] # "idle" =>
       /\ kind'[r] = kind[r] /\ name'[r] = name[r] /\ email'[r] = email[r]
       /\ right'[r] = right[r] /\ settled'[r] = settled[r]
  /\ token[r] # Nothing => token'[r] = token[r]
  /\ hit[r] => hit'[r]

(* A step of one request. *)
Moves(r) ==
  /\ now' = now
  /\ stage[r] \notin Ended /\ stage'[r] # "idle"
  /\ Only(r) /\ Same(r)
  /\ users' = users \/ (stage[r] = "inserting" /\ Inserted(r))
  /\ \/ rows' = rows
     \/ stage[r] = "storing" /\ Stored(r) /\ stage'[r] \in Ended
     \/ stage[r] = "deciding" /\ kind[r] = "revoke" /\ Deletes(r) /\ stage'[r] \in Ended

LEMMA SendMoves ==
  ASSUME TypeOK, NEW r \in Requests, Staged(r), Granted(r),
         SendRegister(r) \/ SendPassword(r) \/ SendToken(r)
  PROVE  Moves(r)
<1> USE DEF TypeOK, Arrive, Moves, Only, Same, Ended
<1>1. CASE SendRegister(r)
  BY <1>1 DEF SendRegister
<1>2. CASE SendPassword(r)
  BY <1>2 DEF SendPassword
<1>3. CASE SendToken(r)
  BY <1>3 DEF SendToken, Granted
<1> QED
  BY <1>1, <1>2, <1>3

LEMMA RegisterMoves ==
  ASSUME TypeOK, NEW r \in Requests, Staged(r), Granted(r), Register(r)
  PROVE  Moves(r)
<1> USE DEF TypeOK, Goes, Answer, Fault, args, Moves, Only, Same, Ended
<1>1. CASE RejectInput(r)
  BY <1>1 DEF RejectInput
<1>2. CASE FindName(r)
  BY <1>2 DEF FindName
<1>3. CASE FindEmail(r)
  BY <1>3 DEF FindEmail
<1>4. CASE InsertUser(r)
  BY <1>4 DEF InsertUser
<1>5. CASE InsertUserFails(r)
  BY <1>5 DEF InsertUserFails
<1>6. CASE AskName(r)
  BY <1>6 DEF AskName
<1>7. CASE AskEmail(r)
  BY <1>7 DEF AskEmail
<1>8. CASE AskFails(r)
  BY <1>8 DEF AskFails
<1> QED
  BY <1>1, <1>2, <1>3, <1>4, <1>5, <1>6, <1>7, <1>8 DEF Register

LEMMA GrantMoves ==
  ASSUME TypeOK, NEW r \in Requests, Staged(r), Granted(r), Grant(r)
  PROVE  Moves(r)
<1> USE DEF TypeOK, Goes, Answer, Fault, args, Moves, Only, Same, Ended
<1>1. CASE LookupFails(r)
  BY <1>1 DEF LookupFails
<1>2. CASE FindUser(r)
  BY <1>2 DEF FindUser
<1>3. CASE Sign(r)
  BY <1>3 DEF Sign, Granted
<1>4. CASE StoreToken(r)
  BY <1>4 DEF StoreToken
<1>5. CASE StoreFails(r)
  BY <1>5 DEF StoreFails
<1> QED
  BY <1>1, <1>2, <1>3, <1>4, <1>5 DEF Grant

LEMMA PresentMoves ==
  ASSUME TypeOK, NEW r \in Requests, Staged(r), Granted(r), Present(r)
  PROVE  Moves(r)
<1> USE DEF TypeOK, Goes, Answer, Decide, Fault, args, Moves, Only, Same, Ended
<1>1. CASE Deny(r)
  BY <1>1 DEF Deny
<1>2. CASE ReadRows(r)
  BY <1>2 DEF ReadRows
<1>3. CASE ReadFails(r)
  BY <1>3 DEF ReadFails
<1>4. CASE Refresh(r)
  BY <1>4 DEF Refresh
<1>5. CASE Revoke(r)
  BY <1>5 DEF Revoke
<1>6. CASE RevokeFails(r)
  BY <1>6 DEF RevokeFails
<1>7. CASE Introspect(r)
  BY <1>7 DEF Introspect
<1>8. CASE IntrospectFails(r)
  BY <1>8 DEF IntrospectFails
<1> QED
  BY <1>1, <1>2, <1>3, <1>4, <1>5, <1>6, <1>7, <1>8 DEF Present

LEMMA DropMoves ==
  ASSUME TypeOK, NEW r \in Requests, Staged(r), Granted(r), Drop(r)
  PROVE  Moves(r)
BY DEF TypeOK, Drop, Open, Fault, args, Moves, Only, Same, Ended

-----------------------------------------------------------------------------
(* What stays.                                                             *)

Stays(q) ==
  /\ stage[q] # "idle" =>
       /\ kind'[q] = kind[q] /\ name'[q] = name[q] /\ email'[q] = email[q]
       /\ right'[q] = right[q] /\ settled'[q] = settled[q] /\ stage'[q] # "idle"
  /\ token[q] # Nothing => token'[q] = token[q]
  /\ stage[q] \in Ended =>
       stage'[q] = stage[q] /\ answer'[q] = answer[q] /\ hit'[q] = hit[q]

LEMMA AllStay ==
  ASSUME TypeOK, NEW r \in Requests, Moves(r), NEW q \in Requests
  PROVE  Stays(q)
<1>1. CASE q = r
  BY <1>1 DEF Moves, Same, Stays
<1>2. CASE q # r
  BY <1>2 DEF Moves, Only, Stays
<1> QED
  BY <1>1, <1>2

LEMMA UsersStay ==
  ASSUME NEW r \in Requests, Moves(r)
  PROVE  users \subseteq users'
BY DEF Moves, Inserted

LEMMA HeldStay ==
  ASSUME IInv, NEW r \in Requests, Moves(r), NEW q \in Requests, stage[q] # "idle"
  PROVE  /\ NameHeld(q) => NameHeld(q)'
         /\ EmailHeld(q) => EmailHeld(q)'
<1>1. users \subseteq users' /\ users \subseteq Requests /\ TypeOK
  BY UsersStay DEF IInv, TypeOK
<1>2. Stays(q)
  BY <1>1, AllStay
<1>3. ASSUME NEW u \in users
      PROVE  name'[u] = name[u] /\ email'[u] = email[u]
  <2>1. stage[u] # "idle"
    BY <1>1 DEF IInv, Own, Listed, Asking, Ended
  <2>2. Stays(u)
    BY <1>1, AllStay
  <2> QED
    BY <2>1, <2>2 DEF Stays
<1> QED
  BY <1>1, <1>2, <1>3 DEF Stays, NameHeld, EmailHeld

LEMMA KindsStay ==
  ASSUME IInv, NEW r \in Requests, Moves(r), NEW q \in Requests, kind[q] # "none"
  PROVE  kind'[q] = kind[q] /\ Stays(q)
<1>1. TypeOK /\ Staged(q)
  BY DEF IInv, Own
<1>2. Stays(q)
  BY <1>1, AllStay
<1> QED
  BY <1>1, <1>2 DEF Stays, Staged

LEMMA TwinsStay ==
  ASSUME IInv, NEW r \in Requests, Moves(r), NEW t, t # Nothing, Twins(t)
  PROVE  Twins(t)'
<1>1. PICK p \in Requests, q \in Requests :
        p # q /\ {kind[p], kind[q]} \subseteq Grants /\ token[p] = t /\ token[q] = t
  BY DEF Twins
<1>2. kind'[p] = kind[p] /\ kind'[q] = kind[q] /\ Stays(p) /\ Stays(q)
  BY <1>1, KindsStay DEF Grants
<1>3. token'[p] = t /\ token'[q] = t
  BY <1>1, <1>2 DEF Stays
<1> QED
  BY <1>1, <1>2, <1>3 DEF Twins

LEMMA RevocationsStay ==
  ASSUME IInv, NEW r \in Requests, Moves(r), NEW t, t # Nothing
  PROVE  /\ Deleted(t) => Deleted(t)'
         /\ Revoked(t) => Revoked(t)'
<1>1. ASSUME NEW v \in Requests, kind[v] = "revoke", token[v] = t
      PROVE  /\ kind'[v] = "revoke" /\ token'[v] = t
             /\ stage[v] \in Ended =>
                  stage'[v] = stage[v] /\ answer'[v] = answer[v] /\ hit'[v] = hit[v]
  <2>1. kind'[v] = kind[v] /\ Stays(v)
    BY <1>1, KindsStay
  <2> QED
    BY <1>1, <2>1 DEF Stays
<1>2. \A v \in Requests : answer[v] = "ok" => stage[v] \in Ended
  BY DEF IInv, Own, Staged, Ended
<1>3. ASSUME Deleted(t) PROVE Deleted(t)'
  BY <1>1, <1>3 DEF Deleted, Ended
<1>4. ASSUME Revoked(t) PROVE Revoked(t)'
  BY <1>1, <1>2, <1>4 DEF Revoked
<1> QED
  BY <1>3, <1>4

LEMMA RowsStay ==
  ASSUME IInv, NEW r \in Requests, Moves(r), NEW row \in Rows, Genuine(row)
  PROVE  Genuine(row)'
<1>1. row.id \in Requests /\ row.token # Nothing /\ TypeOK
  BY NothingAssumption DEF Rows, IInv
<1>2. kind'[row.id] = kind[row.id] /\ Stays(row.id)
  BY <1>1, KindsStay DEF Genuine, Grants
<1> QED
  BY <1>1, <1>2 DEF Genuine, Stays

LEMMA GivenStay ==
  ASSUME IInv, NEW r \in Requests, Moves(r), NEW p \in Requests, NEW t, GivenTo(p, t)
  PROVE  GivenTo(p, t)'
<1>1. kind'[p] = kind[p] /\ Stays(p) /\ Staged(p)
  BY KindsStay DEF GivenTo, Grants, IInv, Own
<1>2. token'[p] = token[p] /\ stage[p] \in Ended
  BY <1>1 DEF GivenTo, Staged, Stays, Ended
<1>3. answer'[p] = answer[p]
  BY <1>1, <1>2 DEF Stays
<1> QED
  BY <1>1, <1>2, <1>3 DEF GivenTo

LEMMA ProperStay ==
  ASSUME NEW r \in Requests, Moves(r), NEW t, Proper(t)
  PROVE  Proper(t)'
BY UsersStay DEF Proper, Moves

-----------------------------------------------------------------------------
(* What the step of one request leaves to the others.                      *)

LEMMA InitInv ==
  Init => IInv
<1> SUFFICES ASSUME Init PROVE IInv
  OBVIOUS
<1> USE DEF Init
<1>1. TypeOK
  BY AccountsAssumption DEF TypeOK, Kinds, Stages, Answers
<1>2. Distinct /\ \A row \in rows : Genuine(row)
  BY DEF Distinct
<1>3. ASSUME NEW r \in Requests PROVE Own(r)
  <2>1. Staged(r) /\ Listed(r) /\ Granted(r) /\ Presented(r)
    BY DEF Staged, Listed, Granted, Presented, Asking, Presenting, Grants, Ended
  <2>2. Kept(r) /\ ReadEnough(r) /\ Gone(r) /\ Settled(r)
    BY DEF Kept, ReadEnough, Gone, Settled, Grants, Presenting
  <2>3. Told(r) /\ OutFor(r) /\ Caused(r)
    BY DEF Told, OutFor, Caused
  <2> QED
    BY <2>1, <2>2, <2>3 DEF Own
<1> QED
  BY <1>1, <1>2, <1>3 DEF IInv

(* A row that is added for a token somebody already holds is a twin's. *)
LEMMA AddedIsTwin ==
  ASSUME IInv, NEW r \in Requests, Moves(r), stage[r] = "storing", Stored(r),
         NEW p \in Requests, kind[p] \in Grants, answer[p] = "ok",
         token[p] = token[r], token[p] # Nothing
  PROVE  Twins(token[p])'
<1>1. kind[r] \in Grants /\ answer[r] = "none" /\ answer[p] # "none"
  BY DEF IInv, Own, Staged
<1>2. Twins(token[p])
  BY <1>1 DEF Twins
<1>3. ASSUME NEW t, t = token[p] PROVE Twins(t)' /\ token'[p] = t
  <2>1. kind[p] # "none" /\ Twins(t) /\ t # Nothing
    BY <1>2, <1>3 DEF Grants
  <2>2. Stays(p) /\ Twins(t)'
    BY <2>1, KindsStay, TwinsStay
  <2> QED
    BY <1>3, <2>1, <2>2 DEF Stays
<1>4. PICK t : t = token[p]
  OBVIOUS
<1> QED
  BY <1>3, <1>4

(* What a revocation deletes are rows of its token. *)
LEMMA DeletedIsOwn ==
  ASSUME IInv, NEW r \in Requests, Moves(r), stage[r] = "deciding", kind[r] = "revoke",
         Deletes(r), stage'[r] \in Ended
  PROVE  /\ \A row \in rows \ rows' : token[row.id] = token[r] /\ row.token = token[r]
         /\ rows' \subseteq rows
         /\ \A t : t = token[r] => Deleted(t)'
<1>1. PICK row \in Matching(r) : rows' = {other \in rows : other.id # row.id}
  BY DEF Deletes
<1>2. Genuine(row) /\ row.token = token[r]
  BY <1>1 DEF Matching, IInv, Own
<1>3. token[r] \in Tokens /\ kind'[r] = "revoke" /\ Stays(r)
  BY KindsStay DEF IInv, Own, Presented, Presenting
<1>4. token'[r] = token[r]
  BY <1>3, NothingAssumption DEF Stays
<1>5. ASSUME NEW t, t = token[r] PROVE Deleted(t)'
  BY <1>3, <1>4, <1>5 DEF Deleted, Ended
<1>6. \A other \in rows : Genuine(other)
  BY DEF IInv
<1> QED
  BY <1>1, <1>2, <1>5, <1>6 DEF Genuine

LEMMA OthersListed ==
  ASSUME IInv, NEW r \in Requests, Moves(r), NEW q \in Requests, q # r
  PROVE  Staged(q)' /\ Listed(q)' /\ Granted(q)' /\ Presented(q)' /\ Settled(q)'
<1>1. Staged(q) /\ Listed(q) /\ Granted(q) /\ Presented(q) /\ Settled(q) /\ TypeOK
  BY DEF IInv, Own
<1>2. /\ kind'[q] = kind[q] /\ name'[q] = name[q] /\ email'[q] = email[q]
      /\ token'[q] = token[q] /\ stage'[q] = stage[q] /\ answer'[q] = answer[q]
      /\ hit'[q] = hit[q] /\ settled'[q] = settled[q] /\ right'[q] = right[q]
  BY DEF Moves, Only
<1>3. Staged(q)'
  BY <1>1, <1>2 DEF Staged
<1>4. Listed(q)'
  <2>1. q \in users' => q \in users
    BY DEF Moves, Inserted
  <2>2. CASE stage[q] = "idle"
    BY <1>1, <1>2, <2>1, <2>2 DEF Listed, Staged, Asking, Ended
  <2>3. CASE stage[q] # "idle"
    <3>1. (NameHeld(q) => NameHeld(q)') /\ (EmailHeld(q) => EmailHeld(q)')
      BY <2>3, HeldStay
    <3>2. (q \in users)' <=> q \in users
      BY <2>1, UsersStay
    <3> QED
      BY <1>1, <1>2, <3>1, <3>2 DEF Listed
  <2> QED
    BY <2>2, <2>3
<1>5. Granted(q)'
  <2>1. ASSUME NEW t, Proper(t) PROVE Proper(t)'
    BY <2>1, ProperStay
  <2>2. PICK t : t = token[q]
    OBVIOUS
  <2>3. Proper(token[q]) => Proper(t)'
    BY <2>1, <2>2
  <2> QED
    BY <1>1, <1>2, <2>2, <2>3 DEF Granted
<1>6. Presented(q)'
  <2> SUFFICES ASSUME kind[q] \in Presenting PROVE Presented(q)'
    BY <1>2 DEF Presented
  <2>1. PICK t : t = token[q]
    OBVIOUS
  <2>2. PICK p \in Requests : GivenTo(p, t)
    BY <1>1, <2>1 DEF Presented
  <2>3. GivenTo(p, t)'
    BY <2>2, GivenStay
  <2>4. GivenTo(p, token[q])'
    BY <1>2, <2>1, <2>3
  <2> QED
    BY <1>1, <1>2, <2>4 DEF Presented
<1>7. Settled(q)'
  <2> SUFFICES ASSUME kind[q] \in Presenting, settled[q] PROVE Settled(q)'
    BY <1>2 DEF Settled
  <2>1. token[q] # Nothing
    BY <1>1, NothingAssumption DEF Presented, Presenting
  <2>2. PICK t : t = token[q]
    OBVIOUS
  <2>3. Revoked(t) => Revoked(t)'
    BY <2>1, <2>2, RevocationsStay
  <2>4. Revoked(t) /\ token[q].typ = "refresh"
    BY <1>1, <2>2 DEF Settled
  <2> QED
    BY <1>2, <2>2, <2>3, <2>4 DEF Settled
<1> QED
  BY <1>3, <1>4, <1>5, <1>6, <1>7

LEMMA OthersKept ==
  ASSUME IInv, NEW r \in Requests, Moves(r), NEW q \in Requests, q # r
  PROVE  Kept(q)'
<1>1. Kept(q) /\ Granted(q)
  BY DEF IInv, Own
<1>2. kind'[q] = kind[q] /\ token'[q] = token[q] /\ answer'[q] = answer[q]
  BY DEF Moves, Only
<1> SUFFICES ASSUME kind[q] \in Grants, answer[q] = "ok" PROVE Kept(q)'
  BY <1>2 DEF Kept
<1>3. PICK t : t = token[q] /\ t # Nothing
  BY <1>1 DEF Granted
<1>4. CASE Deleted(t)
  BY <1>2, <1>3, <1>4, RevocationsStay DEF Kept
<1>5. CASE ~Deleted(t)
  <2>1. PICK row \in rows : row.id = q /\ row.token = t
    BY <1>1, <1>3, <1>5 DEF Kept
  <2>2. CASE row \in rows'
    BY <1>2, <1>3, <2>1, <2>2 DEF Kept
  <2>3. CASE row \notin rows'
    <3>1. stage[r] = "deciding" /\ kind[r] = "revoke" /\ Deletes(r) /\ stage'[r] \in Ended
      BY <2>1, <2>3 DEF Moves, Stored
    <3>2. t = token[r]
      BY <1>3, <2>1, <2>3, <3>1, DeletedIsOwn
    <3>3. Deleted(t)'
      BY <3>1, <3>2, DeletedIsOwn
    <3> QED
      BY <1>2, <1>3, <3>3 DEF Kept
  <2> QED
    BY <2>2, <2>3
<1> QED
  BY <1>4, <1>5

(* No row is added for a token that was presented, unless it is a twin's. *)
LEMMA PresentedRows ==
  ASSUME IInv, NEW r \in Requests, Moves(r), NEW q \in Requests, kind[q] \in Presenting,
         NEW t, t = token[q], t.typ = "refresh"
  PROVE  Twins(t)' \/ \A row \in rows' : row.token = t => row \in rows
<1>1. CASE rows' \subseteq rows
  BY <1>1
<1>2. CASE ~(rows' \subseteq rows)
  <2>1. stage[r] = "storing" /\ Stored(r)
    BY <1>2 DEF Moves, Deletes
  <2>2. CASE token[r] # t
    BY <2>1, <2>2 DEF Stored, Row
  <2>3. CASE token[r] = t
    <3>1. PICK p \in Requests : GivenTo(p, t)
      BY DEF IInv, Own, Presented
    <3>2. token[p] = t /\ kind[p] \in Grants /\ answer[p] = "ok" /\ t # Nothing
      BY <3>1 DEF GivenTo
    <3>3. Twins(token[p])'
      BY <2>1, <2>3, <3>2, AddedIsTwin
    <3>4. token'[p] = token[p]
      <4>1. Stays(p)
        BY <3>2, KindsStay DEF Grants
      <4> QED
        BY <3>2, <4>1 DEF Stays
    <3> QED
      BY <3>2, <3>3, <3>4
  <2> QED
    BY <2>2, <2>3
<1> QED
  BY <1>1, <1>2

LEMMA OthersRead ==
  ASSUME IInv, NEW r \in Requests, Moves(r), NEW q \in Requests, q # r
  PROVE  ReadEnough(q)' /\ Gone(q)'
<1>1. ReadEnough(q) /\ Gone(q) /\ Staged(q) /\ Presented(q)
  BY DEF IInv, Own
<1>2. /\ kind'[q] = kind[q] /\ token'[q] = token[q] /\ stage'[q] = stage[q]
      /\ answer'[q] = answer[q] /\ hit'[q] = hit[q] /\ settled'[q] = settled[q]
      /\ read'[q] = read[q] /\ now' = now
  BY DEF Moves, Only
<1>3. PICK t : t = token[q]
  OBVIOUS
<1>4. ASSUME kind[q] \in Presenting, t.typ = "refresh"
      PROVE  /\ (Twins(t) => Twins(t)') /\ (Deleted(t) => Deleted(t)')
             /\ Twins(t)' \/ \A row \in rows' : row.token = t => row \in rows
  <2>1. t # Nothing
    BY <1>1, <1>3, <1>4, NothingAssumption DEF Presented
  <2> QED
    BY <1>3, <1>4, <2>1, TwinsStay, RevocationsStay, PresentedRows
<1>5. Matching(q)' = Matching(q)
  BY <1>2 DEF Matching
<1>6. ReadEnough(q)'
  <2> SUFFICES ASSUME stage[q] = "deciding", t.typ = "refresh" PROVE ReadEnough(q)'
    BY <1>2, <1>3 DEF ReadEnough
  <2>1. kind[q] \in Presenting
    BY <1>1 DEF Staged
  <2>2. /\ Deleted(t) \/ Matching(q) # {}
        /\ Twins(t) \/ \A row \in rows : row.token = t => row \in read[q]
        /\ settled[q] => Twins(t) \/ Matching(q) = {}
    BY <1>1, <1>3 DEF ReadEnough
  <2>3. /\ Deleted(t)' \/ Matching(q) # {}
        /\ Twins(t)' \/ \A row \in rows' : row.token = t => row \in read[q]
        /\ settled[q] => Twins(t)' \/ Matching(q) = {}
    BY <1>4, <2>1, <2>2
  <2> QED
    BY <1>2, <1>3, <1>5, <2>3 DEF ReadEnough
<1>7. Gone(q)'
  <2> SUFFICES ASSUME kind[q] = "revoke", answer[q] = "ok", ~hit[q], t.typ = "refresh"
               PROVE  Gone(q)'
    BY <1>2, <1>3 DEF Gone
  <2>1. kind[q] \in Presenting /\ t.typ = "refresh"
    BY <1>1, <1>3 DEF Presented, Presenting
  <2>2. Twins(t) \/ ~Verified(t) \/ \A row \in rows : row.token # t
    BY <1>1, <1>3 DEF Gone
  <2>3. Twins(t)' \/ ~Verified(t)' \/ \A row \in rows' : row.token # t
    BY <1>2, <1>4, <2>1, <2>2 DEF Verified
  <2> QED
    BY <1>2, <1>3, <2>3 DEF Gone
<1> QED
  BY <1>6, <1>7

LEMMA OthersTold ==
  ASSUME IInv, NEW r \in Requests, Moves(r), NEW q \in Requests, q # r
  PROVE  Told(q)' /\ OutFor(q)' /\ Caused(q)'
<1>1. Told(q) /\ OutFor(q) /\ Caused(q) /\ Staged(q) /\ Presented(q) /\ TypeOK
  BY DEF IInv, Own
<1>2. /\ kind'[q] = kind[q] /\ name'[q] = name[q] /\ email'[q] = email[q] /\ right'[q] = right[q]
      /\ token'[q] = token[q] /\ stage'[q] = stage[q] /\ answer'[q] = answer[q]
      /\ hit'[q] = hit[q] /\ settled'[q] = settled[q] /\ now' = now
  BY DEF Moves, Only
<1>3. PICK t : t = token[q]
  OBVIOUS
<1>4. ASSUME kind[q] \in Presenting
      PROVE  (Twins(t) => Twins(t)') /\ (Deleted(t) => Deleted(t)')
  <2>1. t # Nothing
    BY <1>1, <1>3, <1>4, NothingAssumption DEF Presented
  <2> QED
    BY <2>1, TwinsStay, RevocationsStay
<1>5. Told(q)'
  <2>1. q \in users' <=> q \in users
    BY UsersStay DEF Moves, Inserted
  <2>2. ASSUME NEW u \in users
        PROVE  u \in users' /\ name'[u] = name[u] /\ email'[u] = email[u]
    <3>1. u \in Requests /\ stage[u] # "idle" /\ u \in users'
      BY UsersStay DEF IInv, TypeOK, Own, Listed, Asking, Ended
    <3>2. Stays(u)
      BY <1>1, <3>1, AllStay
    <3> QED
      BY <3>1, <3>2 DEF Stays
  <2> QED
    BY <1>1, <1>2, <2>1, <2>2 DEF Told
<1>6. OutFor(q)'
  BY <1>1, <1>2, <1>3, <1>4 DEF OutFor, Presenting
<1>7. Caused(q)'
  <2>1. ~Passes(q) => ~Passes(q)'
    BY <1>2 DEF Passes, Verified
  <2> QED
    BY <1>1, <1>2, <1>3, <1>4, <2>1 DEF Caused, Presenting
<1> QED
  BY <1>5, <1>6, <1>7

LEMMA OthersOwn ==
  ASSUME IInv, NEW r \in Requests, Moves(r), NEW q \in Requests, q # r
  PROVE  Own(q)'
<1>1. read'[q] = read[q] /\ read[q] \subseteq Rows /\ \A row \in read[q] : Genuine(row)
  BY DEF Moves, Only, IInv, TypeOK, Own
<1>2. \A row \in read'[q] : Genuine(row)'
  BY <1>1, RowsStay
<1> QED
  BY <1>2, OthersListed, OthersKept, OthersRead, OthersTold DEF Own

-----------------------------------------------------------------------------
(* Types.                                                                  *)

LEMMA ArriveTypes ==
  ASSUME TypeOK, NEW r \in Requests, NEW k \in Kinds, NEW next \in Stages, Arrive(r, k, next)
  PROVE  /\ now' \in 0 .. MaxTime /\ users' \subseteq Requests /\ rows' \subseteq Rows
         /\ kind' \in [Requests -> Kinds] /\ stage' \in [Requests -> Stages]
         /\ read' \in [Requests -> SUBSET Rows] /\ answer' \in [Requests -> Answers]
         /\ hit' \in [Requests -> BOOLEAN]
BY DEF TypeOK, Arrive

LEMMA SendTypes ==
  ASSUME IInv, NEW r \in Requests, SendRegister(r) \/ SendPassword(r) \/ SendToken(r)
  PROVE  TypeOK'
<1>1. TypeOK
  BY DEF IInv
<1>2. CASE SendRegister(r)
  <2>1. PICK n \in Names, e \in Emails :
          name' = [name EXCEPT ![r] = n] /\ email' = [email EXCEPT ![r] = e]
    BY <1>2 DEF SendRegister
  <2>2. Arrive(r, "register", "naming") /\ right' = right /\ token' = token /\ settled' = settled
    BY <1>2 DEF SendRegister
  <2>3. "register" \in Kinds /\ "naming" \in Stages
    BY DEF Kinds, Grants, Stages
  <2>4. /\ name' \in [Requests -> Names \cup {Nothing}] /\ email' \in [Requests -> Emails \cup {Nothing}]
        /\ right' \in [Requests -> BOOLEAN] /\ settled' \in [Requests -> BOOLEAN]
        /\ token' \in [Requests -> Tokens \cup {Nothing}]
    BY <1>1, <2>1, <2>2 DEF TypeOK
  <2> QED
    BY <1>1, <2>2, <2>3, <2>4, ArriveTypes DEF TypeOK
<1>3. CASE SendPassword(r)
  <2>1. PICK n \in Names, b \in BOOLEAN, c \in BOOLEAN :
          /\ name' = [name EXCEPT ![r] = n] /\ right' = [right EXCEPT ![r] = b]
          /\ settled' = [settled EXCEPT ![r] = c]
    BY <1>3 DEF SendPassword
  <2>2. Arrive(r, "password", "looking") /\ email' = email /\ token' = token
    BY <1>3 DEF SendPassword
  <2>3. "password" \in Kinds /\ "looking" \in Stages
    BY DEF Kinds, Grants, Stages
  <2>4. /\ name' \in [Requests -> Names \cup {Nothing}] /\ email' \in [Requests -> Emails \cup {Nothing}]
        /\ right' \in [Requests -> BOOLEAN] /\ settled' \in [Requests -> BOOLEAN]
        /\ token' \in [Requests -> Tokens \cup {Nothing}]
    BY <1>1, <2>1, <2>2 DEF TypeOK
  <2> QED
    BY <1>1, <2>2, <2>3, <2>4, ArriveTypes DEF TypeOK
<1>4. CASE SendToken(r)
  <2>1. PICK t \in Given, k \in {"refresh", "revoke", "introspect"}, typ \in Types, fits \in BOOLEAN :
          /\ token' = [token EXCEPT ![r] = [t EXCEPT !.typ = typ]]
          /\ right' = [right EXCEPT ![r] = fits]
          /\ settled' = [settled EXCEPT ![r] = typ = "refresh" /\ Revoked(t)]
          /\ Arrive(r, k, "reading")
    <3>1. SendToken(r)
      BY <1>4
    <3> QED BY <3>1, ZenonT(60) DEF SendToken
  <2>2. t \in Tokens
    <3>1. PICK q \in Requests : t = token[q] /\ kind[q] \in Grants /\ answer[q] = "ok"
      BY <2>1 DEF Given
    <3>2. Granted(q)
      BY DEF IInv, Own
    <3> QED BY <3>1, <3>2 DEF Granted, Proper
  <2>3. [t EXCEPT !.typ = typ] \in Tokens
    BY <2>1, <2>2 DEF Tokens
  <2>4. PICK x \in Tokens : token' = [token EXCEPT ![r] = x]
    BY <2>1, <2>3
  <2>5. PICK b \in BOOLEAN : settled' = [settled EXCEPT ![r] = b]
    BY <2>1
  <2>6. name' = name /\ email' = email /\ \E c \in BOOLEAN : right' = [right EXCEPT ![r] = c]
    BY <1>4, <2>1 DEF SendToken
  <2>7. k \in Kinds /\ "reading" \in Stages
    BY DEF Kinds, Stages
  <2>8. /\ name' \in [Requests -> Names \cup {Nothing}] /\ email' \in [Requests -> Emails \cup {Nothing}]
        /\ right' \in [Requests -> BOOLEAN] /\ settled' \in [Requests -> BOOLEAN]
        /\ token' \in [Requests -> Tokens \cup {Nothing}]
    BY <1>1, <2>4, <2>5, <2>6 DEF TypeOK
  <2> QED
    BY <1>1, <2>1, <2>7, <2>8, ArriveTypes DEF TypeOK
<1> QED
  BY <1>2, <1>3, <1>4

LEMMA RegisterTypes ==
  ASSUME IInv, NEW r \in Requests, Register(r)
  PROVE  TypeOK'
<1>1. TypeOK
  BY DEF IInv
<1> USE DEF TypeOK, Goes, Answer, Fault, args, Inserted, Stages, Answers
<1>2. CASE RejectInput(r)
  BY <1>1, <1>2 DEF RejectInput
<1>3. CASE FindName(r)
  BY <1>1, <1>3 DEF FindName
<1>4. CASE FindEmail(r)
  BY <1>1, <1>4 DEF FindEmail
<1>5. CASE InsertUser(r)
  BY <1>1, <1>5 DEF InsertUser
<1>6. CASE InsertUserFails(r)
  BY <1>1, <1>6 DEF InsertUserFails
<1>7. CASE AskName(r)
  BY <1>1, <1>7 DEF AskName
<1>8. CASE AskEmail(r)
  BY <1>1, <1>8 DEF AskEmail
<1>9. CASE AskFails(r)
  BY <1>1, <1>9 DEF AskFails
<1> QED
  BY <1>2, <1>3, <1>4, <1>5, <1>6, <1>7, <1>8, <1>9 DEF Register

(* Whoever signs finds the account, whoever stores has signed. *)
LEMMA Signing ==
  ASSUME IInv, NEW r \in Requests, stage[r] = "signing"
  PROVE  Account(r) \in users /\ Signed(r) \in Tokens
<1>1. NameHeld(r) /\ TypeOK
  BY DEF IInv, Own, Listed
<1>2. Account(r) \in users
  BY <1>1 DEF NameHeld, Account
<1> QED
  BY <1>1, <1>2 DEF TypeOK, Signed, Tokens, Types

LEMMA Storing ==
  ASSUME IInv, NEW r \in Requests, stage[r] = "storing"
  PROVE  kind[r] \in Grants /\ Proper(token[r]) /\ Row(r) \in Rows /\ token[r] # Nothing
<1>1. kind[r] \in Grants /\ Proper(token[r]) /\ token[r] # Nothing
  BY DEF IInv, Own, Granted, Staged
<1>2. now \in Nat
  BY DEF IInv, TypeOK
<1> QED
  BY <1>1, <1>2, AccountsAssumption DEF Row, Rows, Proper

LEMMA GrantTypes ==
  ASSUME IInv, NEW r \in Requests, Grant(r)
  PROVE  TypeOK'
<1>1. TypeOK
  BY DEF IInv
<1> USE DEF TypeOK, Goes, Answer, Fault, args, Stored, Stages, Answers
<1>2. CASE LookupFails(r)
  BY <1>1, <1>2 DEF LookupFails
<1>3. CASE FindUser(r)
  BY <1>1, <1>3 DEF FindUser
<1>4. CASE Sign(r)
  BY <1>1, <1>4, Signing DEF Sign
<1>5. CASE StoreToken(r)
  BY <1>1, <1>5, Storing DEF StoreToken
<1>6. CASE StoreFails(r)
  BY <1>1, <1>6, Storing DEF StoreFails
<1> QED
  BY <1>2, <1>3, <1>4, <1>5, <1>6 DEF Grant

LEMMA PresentTypes ==
  ASSUME IInv, NEW r \in Requests, Present(r)
  PROVE  TypeOK'
<1>1. TypeOK /\ Denial(r) \in Answers
  BY DEF IInv, Denial, Answers
<1> USE DEF TypeOK, Goes, Answer, Decide, Fault, args, Deletes, Stages, Answers
<1>2. CASE Deny(r)
  BY <1>1, <1>2 DEF Deny
<1>3. CASE ReadRows(r)
  BY <1>1, <1>3 DEF ReadRows
<1>4. CASE ReadFails(r)
  BY <1>1, <1>4 DEF ReadFails
<1>5. CASE Refresh(r)
  BY <1>1, <1>5 DEF Refresh
<1>6. CASE Revoke(r)
  BY <1>1, <1>6 DEF Revoke
<1>7. CASE RevokeFails(r)
  BY <1>1, <1>7 DEF RevokeFails
<1>8. CASE Introspect(r)
  BY <1>1, <1>8 DEF Introspect
<1>9. CASE IntrospectFails(r)
  BY <1>1, <1>9 DEF IntrospectFails
<1> QED
  BY <1>2, <1>3, <1>4, <1>5, <1>6, <1>7, <1>8, <1>9 DEF Present

LEMMA DropTypes ==
  ASSUME IInv, NEW r \in Requests, Drop(r)
  PROVE  TypeOK'
BY Storing DEF IInv, Drop, TypeOK, Fault, args, Stored, Deletes, Inserted, Stages

-----------------------------------------------------------------------------
(* What the step of a request does to itself.                              *)

(* What was read stays genuine; a request that grants has nothing else to  *)
(* show for a token that was presented.                                    *)
LEMMA GrantOwn ==
  ASSUME IInv, NEW r \in Requests, Moves(r), kind'[r] \in Grants, read'[r] = read[r],
         Staged(r)', Listed(r)', Granted(r)', Kept(r)', Told(r)', Caused(r)'
  PROVE  Own(r)'
<1>1. Presented(r)' /\ Gone(r)' /\ Settled(r)' /\ OutFor(r)'
  BY DEF Presented, Gone, Settled, OutFor, Grants, Presenting
<1>2. ReadEnough(r)'
  BY DEF Staged, ReadEnough, Grants, Presenting
<1>3. read[r] \subseteq Rows /\ \A row \in read[r] : Genuine(row)
  BY DEF IInv, TypeOK, Own
<1>4. \A row \in read'[r] : Genuine(row)'
  BY <1>3, RowsStay
<1> QED
  BY <1>1, <1>2, <1>4 DEF Own

LEMMA PresentOwn ==
  ASSUME IInv, NEW r \in Requests, Moves(r), kind'[r] \in Presenting,
         read'[r] \subseteq read[r] \cup rows,
         Staged(r)', Granted(r)', Presented(r)', Settled(r)', ReadEnough(r)', Gone(r)', OutFor(r)',
         Caused(r)', r \notin users'
  PROVE  Own(r)'
<1>1. Listed(r)' /\ Kept(r)' /\ Told(r)'
  BY DEF Staged, Listed, Kept, Told, Grants, Presenting, Asking
<1>2. /\ read[r] \subseteq Rows /\ \A row \in read[r] : Genuine(row)
      /\ rows \subseteq Rows /\ \A row \in rows : Genuine(row)
  BY DEF IInv, TypeOK, Own
<1>3. \A row \in read'[r] : Genuine(row)'
  BY <1>2, RowsStay
<1> QED
  BY <1>1, <1>3 DEF Own

LEMMA SendRegisterOwn ==
  ASSUME IInv, NEW r \in Requests, Moves(r), SendRegister(r)
  PROVE  Own(r)'
<1>1. Staged(r) /\ Listed(r) /\ Granted(r) /\ Caused(r) /\ TypeOK
  BY DEF IInv, Own
<1>2. /\ stage[r] = "idle" /\ kind'[r] = "register" /\ stage'[r] = "naming" /\ users' = users
      /\ read' = read /\ answer' = answer /\ hit' = hit /\ token' = token /\ settled' = settled
  BY <1>1 DEF SendRegister, Arrive, TypeOK
<1>3. r \notin users /\ answer[r] = "none" /\ token[r] = Nothing
  BY <1>1, <1>2 DEF Listed, Staged, Granted, Asking, Ended
<1>4. Staged(r)' /\ Listed(r)' /\ Granted(r)' /\ Kept(r)' /\ Told(r)' /\ Caused(r)'
  BY <1>2, <1>3 DEF Staged, Listed, Granted, Kept, Told, Caused, Asking, Presenting, Grants, Ended
<1> QED
  BY <1>2, <1>4, GrantOwn DEF Grants

LEMMA SendPasswordOwn ==
  ASSUME IInv, NEW r \in Requests, Moves(r), SendPassword(r)
  PROVE  Own(r)'
<1>1. Staged(r) /\ Listed(r) /\ Granted(r) /\ Caused(r) /\ TypeOK
  BY DEF IInv, Own
<1>2. /\ stage[r] = "idle" /\ kind'[r] = "password" /\ stage'[r] = "looking" /\ users' = users
      /\ read' = read /\ answer' = answer /\ hit' = hit /\ token' = token
  BY <1>1 DEF SendPassword, Arrive, TypeOK
<1>3. r \notin users /\ answer[r] = "none" /\ token[r] = Nothing
  BY <1>1, <1>2 DEF Listed, Staged, Granted, Asking, Ended
<1>4. settled'[r] => NameHeld(r)'
  <2>1. PICK n \in Names :
          /\ name' = [name EXCEPT ![r] = n]
          /\ settled'[r] = (\E u \in users : name[u] = n /\ stage[u] = "answered")
    BY <1>1 DEF SendPassword, TypeOK
  <2>2. name'[r] = n /\ \A u \in users : name'[u] = name[u]
    BY <1>1, <1>3, <2>1 DEF TypeOK
  <2> QED
    BY <1>2, <2>1, <2>2 DEF NameHeld
<1>5. Staged(r)' /\ Listed(r)' /\ Granted(r)' /\ Kept(r)' /\ Told(r)' /\ Caused(r)'
  BY <1>2, <1>3, <1>4
  DEF Staged, Listed, Granted, Kept, Told, Caused, Asking, Presenting, Grants, Ended
<1> QED
  BY <1>2, <1>5, GrantOwn DEF Grants

LEMMA SendTokenOwn ==
  ASSUME IInv, NEW r \in Requests, Moves(r), SendToken(r)
  PROVE  Own(r)'
<1>1. Staged(r) /\ Listed(r) /\ Granted(r) /\ Caused(r) /\ TypeOK
  BY DEF IInv, Own
<1>2. PICK q \in Requests, k \in {"refresh", "revoke", "introspect"}, typ \in Types, fits \in BOOLEAN :
        /\ kind[q] \in Grants /\ answer[q] = "ok"
        /\ k # "introspect" => (fits <=> typ = "refresh")
        /\ token' = [token EXCEPT ![r] = [token[q] EXCEPT !.typ = typ]]
        /\ right' = [right EXCEPT ![r] = fits]
        /\ settled' = [settled EXCEPT ![r] = typ = "refresh" /\ Revoked(token[q])]
        /\ Arrive(r, k, "reading")
  <2>1. PICK t \in Given, k \in {"refresh", "revoke", "introspect"}, typ \in Types, fits \in BOOLEAN :
          /\ k # "introspect" => (fits <=> typ = "refresh")
          /\ token' = [token EXCEPT ![r] = [t EXCEPT !.typ = typ]]
          /\ right' = [right EXCEPT ![r] = fits]
          /\ settled' = [settled EXCEPT ![r] = typ = "refresh" /\ Revoked(t)]
          /\ Arrive(r, k, "reading")
    BY DEF SendToken
  <2>2. PICK q \in Requests : kind[q] \in Grants /\ answer[q] = "ok" /\ t = token[q]
    BY <2>1 DEF Given
  <2> QED
    BY <2>1, <2>2
<1>3. /\ stage[r] = "idle" /\ kind'[r] = k /\ stage'[r] = "reading" /\ users' = users
      /\ read' = read /\ answer' = answer /\ hit' = hit
  BY <1>1, <1>2 DEF Arrive, TypeOK
<1>4. r \notin users /\ answer[r] = "none" /\ token[r] = Nothing
  BY <1>1, <1>3 DEF Listed, Staged, Granted, Asking, Ended
<1>5. token[q] \in Tokens /\ token[q].typ = "refresh" /\ token[q] # Nothing
  <2>1. Granted(q)
    BY DEF IInv, Own
  <2> QED
    BY <1>2, <2>1 DEF Granted, Proper
<1>6. PICK x \in Tokens : x = [token[q] EXCEPT !.typ = typ]
  <2>1. [token[q] EXCEPT !.typ = typ] \in Tokens
    BY <1>5 DEF Tokens
  <2> QED
    BY <2>1
<1>7. /\ token'[r] = x /\ x.typ = typ /\ x.sub = token[q].sub
      /\ typ = "refresh" => x = token[q]
  <2>1. token'[r] = x
    BY <1>1, <1>2, <1>6 DEF TypeOK
  <2>2. x.typ = typ /\ x.sub = token[q].sub /\ (typ = "refresh" => x = token[q])
    BY <1>5, <1>6 DEF Tokens
  <2> QED
    BY <2>1, <2>2
<1>8. Presented(r)'
  <2>1. GivenTo(q, x)
    BY <1>2, <1>5, <1>7 DEF GivenTo
  <2>2. GivenTo(q, x)'
    BY <2>1, GivenStay
  <2>3. right'[r] = fits
    BY <1>1, <1>2 DEF TypeOK
  <2> QED
    BY <1>2, <1>3, <1>6, <1>7, <2>2, <2>3 DEF Presented, Presenting, Types
<1>9. Settled(r)'
  <2>1. settled'[r] => typ = "refresh" /\ Revoked(token[q])
    BY <1>1, <1>2 DEF TypeOK
  <2>2. PICK t : t = token[q] /\ t # Nothing
    BY <1>5
  <2>3. Revoked(t) => Revoked(t)'
    BY <2>2, RevocationsStay
  <2> QED
    BY <1>7, <2>1, <2>2, <2>3 DEF Settled
<1>10. Staged(r)' /\ Granted(r)'
  BY <1>3, <1>4, <1>2 DEF Staged, Granted, Presenting, Grants, Asking, Ended
<1>11. ReadEnough(r)' /\ Gone(r)' /\ OutFor(r)' /\ Caused(r)'
  BY <1>3, <1>4 DEF ReadEnough, Gone, OutFor, Caused
<1> QED
  BY <1>2, <1>3, <1>4, <1>8, <1>9, <1>10, <1>11, PresentOwn DEF Presenting

(* A registration that ends without a token. *)
LEMMA TurnedAway ==
  ASSUME IInv, NEW r \in Requests, Moves(r), kind[r] \in Grants, stage[r] # "idle",
         stage'[r] = "answered", answer'[r] \notin {"none", "ok"}, read'[r] = read[r],
         token' = token, users' = users,
         Told(r)', Caused(r)'
  PROVE  Own(r)'
<1>1. Staged(r) /\ Listed(r) /\ Granted(r)
  BY DEF IInv, Own
<1>2. Stays(r) /\ kind'[r] = kind[r] /\ settled'[r] = settled[r]
  BY AllStay DEF Stays, IInv
<1>3. (NameHeld(r) => NameHeld(r)') /\ (Proper(token[r]) => Proper(token[r])')
  <2>1. Proper(token[r]) => Proper(token[r])'
    BY DEF Proper, Moves
  <2> QED
    BY <2>1, HeldStay
<1>4. Staged(r)' /\ Listed(r)' /\ Granted(r)' /\ Kept(r)'
  BY <1>1, <1>2, <1>3 DEF Staged, Listed, Granted, Kept, Asking, Presenting, Grants, Ended
<1> QED
  BY <1>2, <1>4, GrantOwn

(* A registration that goes on without a token. *)
LEMMA GoesOn ==
  ASSUME IInv, NEW r \in Requests, Moves(r), kind[r] = "register",
         stage[r] \in {"naming", "mailing", "inserting"} \cup Asking,
         stage'[r] \in {"mailing", "inserting"} \cup Asking,
         answer'[r] = answer[r], read'[r] = read[r], token' = token,
         Listed(r)'
  PROVE  Own(r)'
<1>1. Staged(r) /\ Granted(r)
  BY DEF IInv, Own
<1>2. Stays(r) /\ kind'[r] = kind[r] /\ settled'[r] = settled[r]
  BY AllStay DEF Stays, IInv, Asking
<1>3. answer[r] = "none" /\ token[r] = Nothing
  BY <1>1 DEF Staged, Granted, Asking, Ended
<1>4. Staged(r)' /\ Granted(r)' /\ Kept(r)' /\ Told(r)' /\ Caused(r)'
  BY <1>2, <1>3 DEF Staged, Granted, Kept, Told, Caused, Asking, Presenting, Grants, Ended
<1> QED
  BY <1>2, <1>4, GrantOwn DEF Grants

LEMMA RegisterOwn ==
  ASSUME IInv, NEW r \in Requests, Moves(r), Register(r)
  PROVE  Own(r)'
<1>1. Staged(r) /\ Listed(r) /\ Granted(r) /\ TypeOK
  BY DEF IInv, Own
<1>2. /\ stage[r] \in {"naming", "mailing", "inserting"} \cup Asking /\ kind[r] = "register"
      /\ kind' = kind /\ name' = name /\ email' = email /\ token' = token /\ read' = read
      /\ settled' = settled /\ rows' = rows
  BY <1>1
  DEF Register, RejectInput, FindName, FindEmail, InsertUser, InsertUserFails, AskName, AskEmail,
      AskFails, Goes, Answer, args, Staged, Asking
<1>3. kind[r] \in Grants /\ stage[r] # "idle"
  BY <1>2 DEF Grants, Asking
<1>4. CASE RejectInput(r)
  <2>1. stage[r] = "naming" /\ stage'[r] = "answered" /\ answer'[r] = "invalid_request" /\ users' = users
    BY <1>1, <1>4 DEF RejectInput, Answer, TypeOK
  <2>2. Told(r)' /\ Caused(r)'
    BY <1>1, <1>2, <2>1 DEF Told, Caused, Listed, Asking, Ended
  <2> QED
    BY <1>2, <1>3, <2>1, <2>2, TurnedAway
<1>5. CASE FindName(r)
  <2>1. stage[r] = "naming" /\ users' = users /\ hit' = hit /\ r \notin users
    BY <1>1, <1>5 DEF FindName, Goes, Listed, Asking, Ended
  <2>2. CASE NameHeld(r)
    <3>1. stage'[r] = "answered" /\ answer'[r] = "username_taken"
      BY <1>1, <1>5, <2>2 DEF FindName, Answer, TypeOK
    <3>2. Told(r)' /\ Caused(r)'
      BY <1>2, <2>1, <2>2, <3>1 DEF Told, Caused, NameHeld
    <3> QED
      BY <1>2, <1>3, <2>1, <3>1, <3>2, TurnedAway
  <2>3. CASE ~NameHeld(r)
    <3>1. stage'[r] = "mailing" /\ answer'[r] = answer[r]
      BY <1>1, <1>5, <2>3 DEF FindName, Goes, TypeOK
    <3>2. Listed(r)'
      BY <1>2, <2>1, <3>1 DEF Listed, Asking
    <3> QED
      BY <1>2, <2>1, <3>1, <3>2, GoesOn
  <2> QED
    BY <2>2, <2>3
<1>6. CASE FindEmail(r)
  <2>1. stage[r] = "mailing" /\ users' = users /\ hit' = hit /\ r \notin users
    BY <1>1, <1>6 DEF FindEmail, Goes, Listed, Asking, Ended
  <2>2. CASE EmailHeld(r)
    <3>1. stage'[r] = "answered" /\ answer'[r] = "email_taken"
      BY <1>1, <1>6, <2>2 DEF FindEmail, Answer, TypeOK
    <3>2. Told(r)' /\ Caused(r)'
      BY <1>2, <2>1, <2>2, <3>1 DEF Told, Caused, EmailHeld
    <3> QED
      BY <1>2, <1>3, <2>1, <3>1, <3>2, TurnedAway
  <2>3. CASE ~EmailHeld(r)
    <3>1. stage'[r] = "inserting" /\ answer'[r] = answer[r]
      BY <1>1, <1>6, <2>3 DEF FindEmail, Goes, TypeOK
    <3>2. Listed(r)'
      BY <1>2, <2>1, <3>1 DEF Listed, Asking
    <3> QED
      BY <1>2, <2>1, <3>1, <3>2, GoesOn
  <2> QED
    BY <2>2, <2>3
<1>7. CASE InsertUser(r)
  <2>1. stage[r] = "inserting" /\ hit' = hit /\ r \notin users /\ token[r] = Nothing /\ answer[r] = "none"
    BY <1>1, <1>7 DEF InsertUser, Goes, Listed, Granted, Staged, Asking, Ended
  <2>2. CASE users' = users \cup {r}
    <3>1. stage'[r] = "signing" /\ answer'[r] = answer[r]
      BY <1>1, <1>7, <2>1, <2>2 DEF InsertUser, Goes, TypeOK
    <3>2. NameHeld(r)'
      BY <2>2 DEF NameHeld
    <3>3. Staged(r)' /\ Listed(r)' /\ Granted(r)' /\ Kept(r)' /\ Told(r)' /\ Caused(r)'
      BY <1>2, <2>1, <2>2, <3>1, <3>2
      DEF Staged, Listed, Granted, Kept, Told, Caused, Asking, Presenting, Grants, Ended
    <3> QED
      BY <1>2, <1>3, <3>3, GrantOwn
  <2>3. CASE users' # users \cup {r}
    <3>1. /\ stage'[r] = "asking name" /\ answer'[r] = answer[r] /\ users' = users
          /\ NameHeld(r) \/ EmailHeld(r)
      BY <1>1, <1>7, <2>3 DEF InsertUser, Inserted, Goes, TypeOK
    <3>2. Listed(r)'
      BY <1>2, <2>1, <3>1 DEF Listed, Asking, NameHeld, EmailHeld
    <3> QED
      BY <1>2, <2>1, <3>1, <3>2, GoesOn DEF Asking
  <2> QED
    BY <2>2, <2>3
<1>8. CASE InsertUserFails(r)
  <2>1. stage'[r] = "asking name" /\ answer'[r] = answer[r] /\ hit'[r]
    BY <1>1, <1>8 DEF InsertUserFails, Goes, Fault, TypeOK
  <2>2. Listed(r)'
    BY <1>2, <2>1 DEF Listed, Asking
  <2> QED
    BY <1>2, <2>1, <2>2, GoesOn DEF Asking
<1>9. CASE AskName(r)
  <2>1. stage[r] = "asking name" /\ users' = users /\ hit' = hit /\ (r \in users => hit[r])
    BY <1>1, <1>9 DEF AskName, Goes, Listed, Asking
  <2>2. CASE NameHeld(r)
    <3>1. stage'[r] = "answered" /\ answer'[r] = "username_taken"
      BY <1>1, <1>9, <2>2 DEF AskName, Answer, TypeOK
    <3>2. Told(r)' /\ Caused(r)'
      BY <1>2, <2>1, <2>2, <3>1 DEF Told, Caused, NameHeld
    <3> QED
      BY <1>2, <1>3, <2>1, <3>1, <3>2, TurnedAway
  <2>3. CASE ~NameHeld(r)
    <3>1. stage'[r] = "asking email" /\ answer'[r] = answer[r]
      BY <1>1, <1>9, <2>3 DEF AskName, Goes, TypeOK
    <3>2. Listed(r)'
      BY <1>1, <1>2, <2>1, <2>3, <3>1 DEF Listed, Asking, EmailHeld
    <3> QED
      BY <1>2, <2>1, <3>1, <3>2, GoesOn DEF Asking
  <2> QED
    BY <2>2, <2>3
<1>10. CASE AskEmail(r)
  <2>1. /\ stage[r] = "asking email" /\ users' = users /\ hit' = hit /\ (r \in users => hit[r])
        /\ ~hit[r] => EmailHeld(r)
    BY <1>1, <1>10 DEF AskEmail, Listed, Asking
  <2>2. stage'[r] = "answered" /\ answer'[r] = (IF EmailHeld(r) THEN "email_taken" ELSE "server_error")
    BY <1>1, <1>10 DEF AskEmail, Answer, TypeOK
  <2>3. Told(r)' /\ Caused(r)'
    BY <1>2, <2>1, <2>2 DEF Told, Caused, EmailHeld
  <2> QED
    BY <1>2, <1>3, <2>1, <2>2, <2>3, TurnedAway
<1>11. CASE AskFails(r)
  <2>1. hit'[r] /\ users' = users /\ stage[r] \in Asking
    BY <1>1, <1>11 DEF AskFails, Fault, Goes, Asking, TypeOK
  <2>2. CASE Goes(r, "asking name", "asking email")
    <3>1. stage'[r] = "asking email" /\ answer'[r] = answer[r]
      BY <1>1, <2>2 DEF Goes, TypeOK
    <3>2. Listed(r)'
      BY <1>2, <2>1, <3>1 DEF Listed, Asking
    <3> QED
      BY <1>2, <2>1, <3>1, <3>2, GoesOn DEF Asking
  <2>3. CASE ~Goes(r, "asking name", "asking email")
    <3>1. stage'[r] = "answered" /\ answer'[r] = "server_error"
      BY <1>1, <1>11, <2>3 DEF AskFails, Answer, TypeOK
    <3>2. Told(r)' /\ Caused(r)'
      BY <2>1, <3>1 DEF Told, Caused
    <3> QED
      BY <1>2, <1>3, <2>1, <3>1, <3>2, TurnedAway
  <2> QED
    BY <2>2, <2>3
<1> QED
  BY <1>4, <1>5, <1>6, <1>7, <1>8, <1>9, <1>10, <1>11 DEF Register

LEMMA SignOwn ==
  ASSUME IInv, NEW r \in Requests, Moves(r), Sign(r)
  PROVE  Own(r)'
<1>1. Staged(r) /\ Listed(r) /\ Granted(r) /\ TypeOK
  BY DEF IInv, Own
<1>2. /\ stage[r] = "signing" /\ stage'[r] = "storing" /\ answer'[r] = answer[r]
      /\ kind' = kind /\ name' = name /\ email' = email /\ read' = read /\ hit' = hit
      /\ settled' = settled /\ users' = users /\ now' = now
      /\ token'[r] = Signed(r)
  BY <1>1 DEF Sign, Goes, args, TypeOK
<1>3. kind[r] \in Grants /\ answer[r] = "none"
  BY <1>1, <1>2 DEF Staged
<1>4. Proper(token[r])' /\ token'[r] # Nothing
  <2>1. PICK t : t = Signed(r)
    OBVIOUS
  <2>2. t \in Tokens /\ t.typ = "refresh" /\ t.sub \in users /\ t.iat = now
    BY <1>2, <2>1, Signing DEF Signed
  <2>3. now <= now
    BY <1>1, AccountsAssumption DEF TypeOK
  <2> QED
    BY <1>2, <2>1, <2>2, <2>3, NothingAssumption DEF Proper
<1>5. NameHeld(r)'
  BY <1>1, <1>2 DEF Listed, NameHeld
<1>6. Staged(r)' /\ Listed(r)' /\ Granted(r)' /\ Kept(r)' /\ Told(r)' /\ Caused(r)'
  BY <1>1, <1>2, <1>3, <1>4, <1>5
  DEF Staged, Listed, Granted, Kept, Told, Caused, Asking, Presenting, Grants, Ended
<1> QED
  BY <1>2, <1>3, <1>6, GrantOwn

LEMMA StoreTokenOwn ==
  ASSUME IInv, NEW r \in Requests, Moves(r), StoreToken(r)
  PROVE  Own(r)'
<1>1. Staged(r) /\ Listed(r) /\ Granted(r) /\ TypeOK
  BY DEF IInv, Own
<1>2. /\ stage[r] = "storing" /\ stage'[r] = "answered" /\ answer'[r] = "ok"
      /\ kind' = kind /\ name' = name /\ email' = email /\ read' = read /\ hit' = hit
      /\ settled' = settled /\ users' = users /\ now' = now /\ token' = token
      /\ Row(r) \in rows'
  BY <1>1 DEF StoreToken, Stored, Answer, args, TypeOK
<1>3. kind[r] \in Grants /\ Proper(token[r]) /\ token[r] # Nothing
  BY <1>2, Storing
<1>4. Proper(token[r])' /\ NameHeld(r)'
  BY <1>1, <1>2, <1>3 DEF Listed, NameHeld, Proper
<1>5. Kept(r)'
  BY <1>2 DEF Kept, Row
<1>6. Staged(r)' /\ Listed(r)' /\ Granted(r)' /\ Told(r)' /\ Caused(r)'
  BY <1>1, <1>2, <1>3, <1>4
  DEF Staged, Listed, Granted, Told, Caused, Asking, Presenting, Grants, Ended
<1> QED
  BY <1>2, <1>3, <1>5, <1>6, GrantOwn

LEMMA GrantsOwn ==
  ASSUME IInv, NEW r \in Requests, Moves(r), Grant(r)
  PROVE  Own(r)'
<1>1. Staged(r) /\ Listed(r) /\ Granted(r) /\ TypeOK
  BY DEF IInv, Own
<1>2. CASE LookupFails(r)
  <2>1. /\ stage[r] \in {"naming", "mailing", "looking"} /\ stage'[r] = "answered"
        /\ answer'[r] = "server_error" /\ read'[r] = read[r] /\ token' = token /\ users' = users
        /\ kind'[r] = kind[r] /\ hit'[r]
    BY <1>1, <1>2 DEF LookupFails, Answer, Fault, args, TypeOK
  <2>2. kind[r] \in Grants /\ stage[r] # "idle"
    BY <1>1, <2>1 DEF Staged, Grants
  <2>3. Told(r)' /\ Caused(r)'
    BY <2>1 DEF Told, Caused
  <2> QED
    BY <2>1, <2>2, <2>3, TurnedAway
<1>3. CASE FindUser(r)
  <2>1. /\ stage[r] = "looking" /\ read'[r] = read[r] /\ token' = token /\ users' = users
        /\ kind' = kind /\ name' = name /\ email' = email /\ right' = right /\ hit' = hit
        /\ settled' = settled
    BY <1>3 DEF FindUser, Goes, args
  <2>2. kind[r] = "password" /\ kind[r] \in Grants /\ token[r] = Nothing /\ answer[r] = "none"
    BY <1>1, <2>1 DEF Staged, Granted, Grants, Ended
  <2>3. CASE NameHeld(r) /\ right[r]
    <3>1. stage'[r] = "signing" /\ answer'[r] = "none"
      BY <1>1, <1>3, <2>2, <2>3 DEF FindUser, Goes, TypeOK
    <3>2. NameHeld(r)'
      BY <2>1, <2>3 DEF NameHeld
    <3>3. Staged(r)' /\ Listed(r)' /\ Granted(r)' /\ Kept(r)' /\ Told(r)' /\ Caused(r)'
      BY <1>1, <2>1, <2>2, <3>1, <3>2
      DEF Staged, Listed, Granted, Kept, Told, Caused, Asking, Presenting, Grants, Ended
    <3> QED
      BY <2>1, <2>2, <3>3, GrantOwn
  <2>4. CASE ~(NameHeld(r) /\ right[r])
    <3>1. stage'[r] = "answered" /\ answer'[r] = "invalid_grant"
      BY <1>1, <1>3, <2>4 DEF FindUser, Answer, TypeOK
    <3>2. right[r] => ~settled[r]
      BY <1>1, <2>2, <2>4 DEF Listed
    <3>3. Told(r)' /\ Caused(r)'
      BY <2>1, <2>2, <3>1, <3>2 DEF Told, Caused
    <3> QED
      BY <2>1, <2>2, <3>1, <3>3, TurnedAway
  <2> QED
    BY <2>3, <2>4
<1>4. CASE Sign(r)
  BY <1>4, SignOwn
<1>5. CASE StoreToken(r)
  BY <1>5, StoreTokenOwn
<1>6. CASE StoreFails(r)
  <2>1. /\ stage[r] = "storing" /\ stage'[r] = "answered"
        /\ answer'[r] = "server_error" /\ read'[r] = read[r] /\ token' = token /\ users' = users
        /\ kind'[r] = kind[r] /\ hit'[r]
    BY <1>1, <1>6 DEF StoreFails, Answer, Fault, args, TypeOK
  <2>2. kind[r] \in Grants /\ stage[r] # "idle"
    BY <2>1, Storing
  <2>3. Told(r)' /\ Caused(r)'
    BY <2>1 DEF Told, Caused
  <2> QED
    BY <2>1, <2>2, <2>3, TurnedAway
<1> QED
  BY <1>2, <1>3, <1>4, <1>5, <1>6 DEF Grant

LEMMA PresentedStays ==
  ASSUME IInv, NEW r \in Requests, Moves(r), kind[r] \in Presenting, NEW t, t = token[r]
  PROVE  (Twins(t) => Twins(t)') /\ (Deleted(t) => Deleted(t)')
<1>1. t # Nothing
  BY NothingAssumption DEF IInv, Own, Presented
<1> QED
  BY <1>1, TwinsStay, RevocationsStay

(* A request that presents a token, answered or on its way. *)
LEMMA PresentKeeps ==
  ASSUME IInv, NEW r \in Requests, Moves(r), kind[r] \in Presenting,
         stage[r] \in {"reading", "deciding"}, token' = token, users' = users,
         \/ stage'[r] = "answered" /\ answer'[r] # "none"
         \/ stage'[r] = "deciding" /\ answer'[r] = "none" /\ right[r]
         \/ stage'[r] = "dropped" /\ answer'[r] = "none" /\ hit'[r]
  PROVE  /\ Staged(r)' /\ Granted(r)' /\ Presented(r)' /\ Settled(r)' /\ r \notin users'
         /\ kind'[r] = kind[r] /\ settled'[r] = settled[r]
<1>1. Staged(r) /\ Listed(r) /\ Granted(r) /\ Presented(r) /\ Settled(r) /\ TypeOK
  BY DEF IInv, Own
<1>2. /\ kind'[r] = kind[r] /\ settled'[r] = settled[r] /\ right'[r] = right[r]
      /\ token[r] # Nothing
  BY <1>1, AllStay, NothingAssumption DEF Stays, Presented
<1>3. Staged(r)'
  BY <1>1, <1>2 DEF Staged, Asking, Presenting, Grants
<1>4. Granted(r)'
  BY <1>2 DEF Granted, Grants, Presenting, Ended
<1>5. Presented(r)'
  <2>1. PICK p \in Requests : GivenTo(p, token[r])
    BY <1>1 DEF Presented
  <2>2. PICK t : t = token[r] /\ GivenTo(p, t)
    BY <2>1
  <2>3. GivenTo(p, t)'
    BY <2>2, GivenStay
  <2> QED
    BY <1>1, <1>2, <2>2, <2>3 DEF Presented
<1>6. ASSUME NEW t, t = token[r]
      PROVE  Revoked(t) => Revoked(t)'
  BY <1>2, <1>6, RevocationsStay
<1>7. Settled(r)'
  <2>1. PICK t : t = token[r]
    OBVIOUS
  <2>2. Revoked(t) => Revoked(t)'
    BY <1>6, <2>1
  <2>3. settled[r] => Revoked(t) /\ token[r].typ = "refresh"
    BY <1>1, <2>1 DEF Settled
  <2> QED
    BY <1>2, <2>1, <2>2, <2>3 DEF Settled
<1>8. r \notin users'
  BY <1>1 DEF Listed, Presenting
<1> QED
  BY <1>2, <1>3, <1>4, <1>5, <1>6, <1>7, <1>8

(* An answer to a request that presents a token. *)
LEMMA Answered ==
  ASSUME IInv, NEW r \in Requests, Moves(r), kind[r] \in Presenting,
         stage[r] \in {"reading", "deciding"}, token' = token, users' = users,
         read'[r] \subseteq read[r], stage'[r] = "answered", answer'[r] # "none",
         Gone(r)', OutFor(r)', Caused(r)'
  PROVE  Own(r)'
<1>1. ReadEnough(r)'
  BY DEF ReadEnough
<1>2. /\ Staged(r)' /\ Granted(r)' /\ Presented(r)' /\ Settled(r)' /\ r \notin users'
      /\ kind'[r] = kind[r]
  BY PresentKeeps
<1> QED
  BY <1>1, <1>2, PresentOwn

LEMMA ReadRowsOwn ==
  ASSUME IInv, NEW r \in Requests, Moves(r), ReadRows(r)
  PROVE  Own(r)'
<1>1. Staged(r) /\ Granted(r) /\ Presented(r) /\ Settled(r) /\ TypeOK
  BY DEF IInv, Own
<1>2. /\ stage[r] = "reading" /\ stage'[r] = "deciding" /\ answer'[r] = answer[r]
      /\ kind' = kind /\ hit' = hit /\ settled' = settled /\ users' = users /\ rows' = rows
      /\ now' = now /\ token' = token /\ Verified(token[r]) /\ right[r]
      /\ read'[r] = {row \in rows : token[r].typ = "refresh" /\ row.token.sub = token[r].sub}
  BY <1>1 DEF ReadRows, Passes, Goes, args, TypeOK
<1>3. kind[r] \in Presenting /\ answer[r] = "none"
  BY <1>1, <1>2 DEF Staged
<1>4. /\ Staged(r)' /\ Granted(r)' /\ Presented(r)' /\ Settled(r)' /\ r \notin users'
      /\ kind'[r] = kind[r]
  BY <1>2, <1>3, PresentKeeps
<1>5. Gone(r)' /\ OutFor(r)' /\ Caused(r)'
  BY <1>2, <1>3 DEF Gone, OutFor, Caused
<1>6. ReadEnough(r)'
  <2> SUFFICES ASSUME token[r].typ = "refresh" PROVE ReadEnough(r)'
    BY <1>2 DEF ReadEnough
  <2>1. PICK t : t = token[r]
    OBVIOUS
  <2>2. (Twins(t) => Twins(t)') /\ (Deleted(t) => Deleted(t)')
    BY <1>3, <2>1, PresentedStays
  <2>3. Matching(r)' = {row \in rows : row.token = t}
    BY <1>2, <2>1 DEF Matching
  <2>4. Deleted(t)' \/ \E row \in rows : row.token = t
    <3>1. PICK p \in Requests : GivenTo(p, t)
      BY <1>1, <1>3, <2>1 DEF Presented
    <3>2. kind[p] \in Grants /\ answer[p] = "ok" /\ token[p] = t /\ Kept(p)
      BY <2>1, <3>1 DEF GivenTo, IInv, Own
    <3> QED
      BY <2>2, <3>2 DEF Kept
  <2>5. settled[r] => Twins(t)' \/ ~ \E row \in rows : row.token = t
    <3> SUFFICES ASSUME settled[r] PROVE Twins(t) \/ ~ \E row \in rows : row.token = t
      BY <2>2
    <3>1. Revoked(t)
      BY <1>1, <1>3, <2>1 DEF Settled
    <3>2. PICK v \in Requests : kind[v] = "revoke" /\ token[v] = t /\ answer[v] = "ok" /\ ~hit[v]
      BY <3>1 DEF Revoked
    <3>3. Gone(v)
      BY DEF IInv, Own
    <3> QED
      BY <1>2, <2>1, <3>2, <3>3 DEF Gone
  <2> QED
    BY <1>2, <2>1, <2>3, <2>4, <2>5 DEF ReadEnough
<1> QED
  BY <1>2, <1>3, <1>4, <1>5, <1>6, PresentOwn

LEMMA RefreshOwn ==
  ASSUME IInv, NEW r \in Requests, Moves(r), Refresh(r)
  PROVE  Own(r)'
<1>1. Presented(r) /\ ReadEnough(r) /\ Settled(r) /\ TypeOK
  BY DEF IInv, Own
<1>2. /\ stage[r] = "deciding" /\ stage'[r] = "answered" /\ kind[r] = "refresh"
      /\ kind' = kind /\ hit' = hit /\ settled' = settled /\ users' = users /\ rows' = rows
      /\ now' = now /\ token' = token /\ read'[r] = {}
      /\ \/ Matching(r) = {} /\ answer'[r] = "invalid_grant"
         \/ \E row \in Matching(r) :
              answer'[r] = IF row.expired < now THEN "invalid_grant" ELSE "ok"
  BY <1>1 DEF Refresh, Decide, Answer, args, TypeOK
<1>3. PICK t : t = token[r]
  OBVIOUS
<1>4. kind[r] \in Presenting /\ answer'[r] # "none" /\ t.typ = "refresh" /\ t \in Tokens
  BY <1>1, <1>2, <1>3 DEF Presenting, Presented
<1>5. (Twins(t) => Twins(t)') /\ (Deleted(t) => Deleted(t)')
  BY <1>3, <1>4, PresentedStays
<1>6. Deleted(t) \/ Matching(r) # {}
  BY <1>1, <1>2, <1>3, <1>4 DEF ReadEnough
<1>7. settled[r] => Twins(t) \/ Matching(r) = {}
  BY <1>1, <1>2, <1>3, <1>4 DEF ReadEnough
<1>8. ASSUME NEW row \in Matching(r), row.expired < now PROVE now > t.iat + RefreshTtl
  <2>1. row.token = t /\ Genuine(row) /\ row \in Rows
    BY <1>3 DEF Matching, IInv, TypeOK, Own
  <2>2. t.iat + RefreshTtl <= row.expired
    BY <2>1 DEF Genuine
  <2>3. t.iat \in Nat /\ row.expired \in Nat /\ now \in Nat
    BY <1>1, <1>4, <2>1, AccountsAssumption DEF Tokens, Rows, TypeOK
  <2> QED
    BY <1>8, <2>2, <2>3, AccountsAssumption
<1>9. answer'[r] = "invalid_grant" => now > t.iat + RefreshTtl \/ Deleted(t)
  BY <1>2, <1>6, <1>8
<1>10. answer'[r] = "ok" /\ settled[r] => Twins(t)
  BY <1>2, <1>7
<1>11. answer'[r] \in {"ok", "invalid_grant"}
  BY <1>2
<1>12. Gone(r)' /\ OutFor(r)'
  BY <1>2, <1>3, <1>5, <1>10, <1>11 DEF Gone, OutFor
<1>13. Caused(r)'
  BY <1>2, <1>3, <1>5, <1>9, <1>11 DEF Caused
<1> QED
  BY <1>2, <1>4, <1>12, <1>13, Answered

LEMMA RevokeOwn ==
  ASSUME IInv, NEW r \in Requests, Moves(r), Revoke(r)
  PROVE  Own(r)'
<1>1. Presented(r) /\ ReadEnough(r) /\ TypeOK
  BY DEF IInv, Own
<1>2. /\ stage[r] = "deciding" /\ stage'[r] = "answered" /\ kind[r] = "revoke"
      /\ kind' = kind /\ hit' = hit /\ settled' = settled /\ users' = users
      /\ now' = now /\ token' = token /\ read'[r] = {} /\ answer'[r] = "ok"
      /\ Deletes(r) \/ (Matching(r) = {} /\ rows' = rows)
  BY <1>1 DEF Revoke, Decide, Answer, args, TypeOK
<1>3. PICK t : t = token[r]
  OBVIOUS
<1>4. kind[r] \in Presenting /\ t.typ = "refresh" /\ t # Nothing
  BY <1>1, <1>2, <1>3, NothingAssumption DEF Presenting, Presented
<1>5. Twins(t) => Twins(t)'
  BY <1>3, <1>4, PresentedStays
<1>6. Twins(t) \/ \A row \in rows' : row.token # t
  <2>1. CASE Deletes(r)
    <3>1. PICK row \in Matching(r) : rows' = {other \in rows : other.id # row.id}
      BY <2>1 DEF Deletes
    <3>2. Genuine(row) /\ row.token = t /\ row.id \in Requests
      BY <1>3 DEF Matching, IInv, TypeOK, Own, Rows
    <3>3. ASSUME NEW other \in rows', other.token = t PROVE Twins(t)
      <4>1. Genuine(other) /\ other.id # row.id /\ other.id \in Requests
        BY <3>1 DEF IInv, TypeOK, Rows
      <4> QED
        BY <3>2, <3>3, <4>1 DEF Genuine, Twins
    <3> QED
      BY <3>3
  <2>2. CASE Matching(r) = {} /\ rows' = rows
    <3>1. Twins(t) \/ \A row \in rows : row.token = t => row \in read[r]
      BY <1>1, <1>2, <1>3, <1>4 DEF ReadEnough
    <3> QED
      BY <1>3, <2>2, <3>1 DEF Matching
  <2> QED
    BY <1>2, <2>1, <2>2
<1>7. Gone(r)' /\ OutFor(r)' /\ Caused(r)'
  BY <1>2, <1>3, <1>5, <1>6 DEF Gone, OutFor, Caused
<1> QED
  BY <1>2, <1>4, <1>7, Answered

LEMMA IntrospectOwn ==
  ASSUME IInv, NEW r \in Requests, Moves(r), Introspect(r)
  PROVE  Own(r)'
<1>1. Presented(r) /\ ReadEnough(r) /\ Settled(r) /\ TypeOK
  BY DEF IInv, Own
<1>2. /\ stage[r] = "deciding" /\ stage'[r] = "answered" /\ kind[r] = "introspect"
      /\ kind' = kind /\ hit' = hit /\ settled' = settled /\ users' = users /\ rows' = rows
      /\ now' = now /\ token' = token /\ read'[r] = {}
      /\ answer'[r] = IF /\ token[r].typ = "refresh" => Matching(r) # {}
                         /\ token[r].sub \in users
                      THEN "active" ELSE "inactive"
  BY <1>1 DEF Introspect, Decide, Answer, args, TypeOK
<1>3. PICK t : t = token[r]
  OBVIOUS
<1>4. kind[r] \in Presenting /\ answer'[r] \in {"active", "inactive"}
  BY <1>2 DEF Presenting
<1>5. (Twins(t) => Twins(t)') /\ (Deleted(t) => Deleted(t)')
  BY <1>3, <1>4, PresentedStays
<1>6. t.sub \in users
  <2>1. PICK p \in Requests : GivenTo(p, t)
    BY <1>1, <1>3, <1>4 DEF Presented
  <2>2. Granted(p)
    BY DEF IInv, Own
  <2> QED
    BY <2>1, <2>2 DEF GivenTo, Granted, Proper
<1>7. answer'[r] = "inactive" => t.typ = "refresh" /\ Deleted(t)
  BY <1>1, <1>2, <1>3, <1>6 DEF ReadEnough
<1>8. answer'[r] = "active" /\ settled[r] => Twins(t)
  BY <1>1, <1>2, <1>3, <1>4 DEF ReadEnough, Settled
<1>9. Gone(r)' /\ OutFor(r)' /\ Caused(r)'
  BY <1>2, <1>3, <1>4, <1>5, <1>7, <1>8 DEF Gone, OutFor, Caused
<1>10. answer'[r] # "none"
  BY <1>4
<1> QED
  BY <1>2, <1>4, <1>9, <1>10, Answered

LEMMA PresentsOwn ==
  ASSUME IInv, NEW r \in Requests, Moves(r), Present(r)
  PROVE  Own(r)'
<1>1. Staged(r) /\ Presented(r) /\ Settled(r) /\ TypeOK
  BY DEF IInv, Own
<1>2. CASE Deny(r)
  <2>1. /\ stage[r] = "reading" /\ stage'[r] = "answered" /\ answer'[r] = Denial(r)
        /\ kind' = kind /\ hit' = hit /\ settled' = settled /\ users' = users
        /\ now' = now /\ token' = token /\ read' = read /\ right' = right /\ ~Passes(r)
    BY <1>1, <1>2 DEF Deny, Answer, args, TypeOK
  <2>2. kind[r] \in Presenting /\ token[r] \in Tokens
    BY <1>1, <2>1 DEF Staged, Presented
  <2>3. PICK t : t = token[r]
    OBVIOUS
  <2>4. ~Passes(r)' /\ (right[r] => ~Verified(t) /\ ~Verified(t)')
    BY <2>1, <2>3 DEF Passes, Verified
  <2>5. t.typ = "refresh" /\ right[r] => now > t.iat + RefreshTtl
    <3>1. t.iat \in Nat /\ now \in Nat
      BY <1>1, <2>2, <2>3, AccountsAssumption DEF Tokens, TypeOK
    <3> QED
      BY <2>4, <3>1, AccountsAssumption DEF Verified
  <2>6. /\ kind[r] # "introspect" /\ t.typ = "refresh" => right[r]
        /\ kind[r] # "introspect" /\ right[r] => t.typ = "refresh"
    BY <1>1, <2>2, <2>3 DEF Presented
  <2>7. /\ answer'[r] # "none" /\ answer'[r] # "server_error" /\ answer'[r] # "active"
        /\ answer'[r] = "ok" => kind[r] = "revoke"
    BY <2>1, <2>2 DEF Denial, Presenting
  <2>8. Gone(r)' /\ OutFor(r)' /\ Caused(r)'
    BY <2>1, <2>2, <2>3, <2>4, <2>5, <2>6, <2>7 DEF Gone, OutFor, Caused, Presenting
  <2> QED
    BY <2>1, <2>2, <2>7, <2>8, Answered
<1>3. CASE ReadRows(r)
  BY <1>3, ReadRowsOwn
<1>4. CASE ReadFails(r)
  <2>1. /\ stage[r] = "reading" /\ stage'[r] = "answered"
        /\ answer'[r] = (IF kind[r] = "refresh" THEN "server_error" ELSE Denial(r))
        /\ kind' = kind /\ hit'[r] /\ settled' = settled /\ users' = users
        /\ token' = token /\ read' = read
    BY <1>1, <1>4 DEF ReadFails, Answer, Fault, args, TypeOK
  <2>2. kind[r] \in Presenting
    BY <1>1, <2>1 DEF Staged
  <2>3. answer'[r] # "none" /\ answer'[r] # "active" /\ (answer'[r] = "ok" => kind[r] = "revoke")
    BY <2>1, <2>2 DEF Denial, Presenting
  <2>4. Gone(r)' /\ OutFor(r)' /\ Caused(r)'
    BY <2>1, <2>3 DEF Gone, OutFor, Caused
  <2> QED
    BY <2>1, <2>2, <2>3, <2>4, Answered
<1>5. CASE Refresh(r)
  BY <1>5, RefreshOwn
<1>6. CASE Revoke(r)
  BY <1>6, RevokeOwn
<1>7. CASE RevokeFails(r)
  <2>1. /\ stage[r] = "deciding" /\ stage'[r] = "answered" /\ answer'[r] = "ok" /\ kind[r] = "revoke"
        /\ kind' = kind /\ hit'[r] /\ settled' = settled /\ users' = users
        /\ token' = token /\ read'[r] = {}
    BY <1>1, <1>7 DEF RevokeFails, Decide, Answer, Fault, args, TypeOK
  <2>2. Gone(r)' /\ OutFor(r)' /\ Caused(r)'
    BY <2>1 DEF Gone, OutFor, Caused
  <2> QED
    BY <2>1, <2>2, Answered DEF Presenting
<1>8. CASE Introspect(r)
  BY <1>8, IntrospectOwn
<1>9. CASE IntrospectFails(r)
  <2>1. /\ stage[r] = "deciding" /\ stage'[r] = "answered" /\ answer'[r] = "inactive"
        /\ kind[r] = "introspect"
        /\ kind' = kind /\ hit'[r] /\ settled' = settled /\ users' = users
        /\ token' = token /\ read'[r] = {}
    BY <1>1, <1>9 DEF IntrospectFails, Decide, Answer, Fault, args, TypeOK
  <2>2. Gone(r)' /\ OutFor(r)' /\ Caused(r)'
    BY <2>1 DEF Gone, OutFor, Caused
  <2> QED
    BY <2>1, <2>2, Answered DEF Presenting
<1> QED
  BY <1>2, <1>3, <1>4, <1>5, <1>6, <1>7, <1>8, <1>9 DEF Present

LEMMA DropOwn ==
  ASSUME IInv, NEW r \in Requests, Moves(r), Drop(r)
  PROVE  Own(r)'
<1>1. Staged(r) /\ Listed(r) /\ Granted(r) /\ TypeOK
  BY DEF IInv, Own
<1>2. /\ stage[r] \notin {"idle", "answered", "dropped"} /\ stage'[r] = "dropped" /\ hit'[r]
      /\ answer' = answer /\ kind' = kind /\ name' = name /\ email' = email /\ settled' = settled
      /\ token' = token /\ read' = read
      /\ users' = users \/ (stage[r] = "inserting" /\ users' = users \cup {r})
  BY <1>1 DEF Drop, Open, Fault, Inserted, args, TypeOK
<1>3. answer'[r] = "none" /\ kind[r] # "none"
  BY <1>1, <1>2 DEF Staged
<1>4. Told(r)' /\ OutFor(r)' /\ Caused(r)' /\ Kept(r)' /\ Gone(r)' /\ ReadEnough(r)'
  BY <1>2, <1>3 DEF Told, OutFor, Caused, Kept, Gone, ReadEnough
<1>5. CASE kind[r] \in Grants
  <2>1. Staged(r)'
    BY <1>1, <1>2, <1>3 DEF Staged, Asking, Presenting
  <2>2. NameHeld(r) => NameHeld(r)'
    BY <1>2, HeldStay
  <2>3. Listed(r)'
    BY <1>1, <1>2, <2>2 DEF Staged, Listed, Asking, Ended
  <2>4. Granted(r)'
    <3>1. PICK t : t = token[r]
      OBVIOUS
    <3>2. Proper(t) => Proper(t)'
      BY ProperStay
    <3> QED
      BY <1>1, <1>2, <1>3, <3>1, <3>2 DEF Granted, Ended
  <2> QED
    BY <1>2, <1>4, <1>5, <2>1, <2>3, <2>4, GrantOwn
<1>6. CASE kind[r] \in Presenting
  <2>1. stage[r] \in {"reading", "deciding"}
    BY <1>1, <1>2, <1>6 DEF Staged, Grants, Presenting, Asking, TypeOK, Stages
  <2>2. users' = users
    BY <1>2, <2>1
  <2>3. /\ Staged(r)' /\ Granted(r)' /\ Presented(r)' /\ Settled(r)' /\ r \notin users'
        /\ kind'[r] = kind[r]
    BY <1>2, <1>3, <1>6, <2>1, <2>2, PresentKeeps
  <2> QED
    BY <1>2, <1>4, <1>6, <2>3, PresentOwn
<1> QED
  BY <1>1, <1>3, <1>5, <1>6 DEF TypeOK, Kinds, Presenting, Grants

-----------------------------------------------------------------------------
(* The invariant.                                                          *)

LEMMA RowsGenuine ==
  ASSUME IInv, NEW r \in Requests, Moves(r)
  PROVE  \A row \in rows' : Genuine(row)'
<1>1. TypeOK /\ \A row \in rows : row \in Rows /\ Genuine(row)
  BY DEF IInv, TypeOK
<1>2. \A row \in rows : Genuine(row)'
  BY <1>1, RowsStay
<1>3. CASE rows' \subseteq rows
  BY <1>2, <1>3
<1>4. CASE ~(rows' \subseteq rows)
  <2>1. stage[r] = "storing" /\ Stored(r) /\ stage'[r] \in Ended
    BY <1>4 DEF Moves, Deletes
  <2>2. kind[r] \in Grants /\ Proper(token[r]) /\ token[r] # Nothing
    BY <2>1, Storing
  <2>3. kind'[r] = kind[r] /\ token'[r] = token[r]
    BY <1>1, <2>1, <2>2, AllStay DEF Stays
  <2>4. token[r].iat + RefreshTtl <= now + RefreshTtl
    <3>1. token[r].iat \in Nat /\ now \in Nat /\ token[r].iat <= now
      BY <1>1, <2>2, AccountsAssumption DEF Proper, Tokens, TypeOK
    <3> QED
      BY <3>1, AccountsAssumption
  <2>5. PICK row : row = Row(r)
    OBVIOUS
  <2>6. row.id = r /\ row.token = token[r] /\ row.expired = now + RefreshTtl
    BY <2>5 DEF Row
  <2>7. Genuine(row)'
    BY <2>1, <2>2, <2>3, <2>4, <2>6 DEF Genuine
  <2>8. rows' = rows \cup {row}
    BY <2>1, <2>5 DEF Stored
  <2> QED
    BY <1>2, <2>7, <2>8
<1> QED
  BY <1>3, <1>4

LEMMA DistinctStays ==
  ASSUME IInv, NEW r \in Requests, Moves(r)
  PROVE  Distinct'
<1>1. TypeOK /\ Distinct /\ users \subseteq Requests
  BY DEF IInv, TypeOK
<1>2. ASSUME NEW u \in Requests, stage[u] # "idle" PROVE name'[u] = name[u] /\ email'[u] = email[u]
  BY <1>1, <1>2, AllStay DEF Stays
<1>3. \A u \in users : stage[u] # "idle"
  BY <1>1 DEF IInv, Own, Listed, Asking, Ended
<1>4. \A u \in users : name'[u] = name[u] /\ email'[u] = email[u]
  BY <1>1, <1>2, <1>3
<1>5. CASE users' = users
  BY <1>1, <1>4, <1>5 DEF Distinct
<1>6. CASE stage[r] = "inserting" /\ Inserted(r)
  <2>1. name'[r] = name[r] /\ email'[r] = email[r]
    BY <1>2, <1>6
  <2>2. /\ \A u \in users : name[u] # name[r] /\ email[u] # email[r]
        /\ users' = users \cup {r}
    BY <1>6 DEF Inserted, NameHeld, EmailHeld
  <2> QED
    BY <1>1, <1>4, <2>1, <2>2 DEF Distinct
<1> QED
  BY <1>5, <1>6 DEF Moves

(* As time goes on tokens run out, and no more.                            *)
LEMMA TickStep ==
  ASSUME IInv, Tick
  PROVE  IInv'
<1>1. TypeOK /\ now' = now + 1 /\ now < MaxTime
  BY DEF IInv, Tick
<1>2. /\ users' = users /\ rows' = rows /\ kind' = kind /\ name' = name /\ email' = email
      /\ right' = right /\ token' = token /\ read' = read /\ stage' = stage /\ answer' = answer
      /\ hit' = hit /\ settled' = settled
  BY DEF Tick, requestVars
<1>3. TypeOK'
  <2>1. now' \in 0 .. MaxTime
    BY <1>1, AccountsAssumption DEF TypeOK
  <2> QED
    BY <1>1, <1>2, <2>1 DEF TypeOK
<1>4. Distinct' /\ \A row \in rows' : Genuine(row)'
  BY <1>2 DEF IInv, Distinct, Genuine
<1>5. ASSUME NEW r \in Requests PROVE Own(r)'
  <2>1. Own(r) /\ now \in Nat
    BY <1>1, AccountsAssumption DEF IInv, TypeOK
  <2>2. Staged(r)' /\ Listed(r)' /\ Kept(r)' /\ Settled(r)'
    <3>1. Staged(r)' /\ Listed(r)'
      BY <1>2, <2>1 DEF Own, Staged, Listed, NameHeld, EmailHeld
    <3>2. Kept(r)' /\ Settled(r)'
      BY <1>2, <2>1 DEF Own, Kept, Deleted, Settled, Revoked
    <3> QED
      BY <3>1, <3>2
  <2>3. Presented(r)' /\ Told(r)' /\ OutFor(r)' /\ \A row \in read'[r] : Genuine(row)'
    BY <1>2, <2>1 DEF Own, Presented, GivenTo, Told, OutFor, Twins, Genuine
  <2>4. ReadEnough(r)'
    BY <1>2, <2>1 DEF Own, ReadEnough, Deleted, Twins, Matching
  <2>5. Granted(r)'
    <3>1. PICK t : t = token[r]
      OBVIOUS
    <3>2. ASSUME Proper(t) PROVE Proper(t)'
      <4>1. t.iat \in Nat
        BY <3>2, AccountsAssumption DEF Proper, Tokens
      <4> QED
        BY <1>1, <1>2, <2>1, <3>2, <4>1 DEF Proper
    <3>3. Granted(r)
      BY <2>1 DEF Own
    <3> QED
      BY <1>2, <3>1, <3>2, <3>3 DEF Granted
  <2>6. ASSUME kind[r] \in Presenting
        PROVE  /\ ~Verified(token[r]) => ~Verified(token[r])'
               /\ now > token[r].iat + RefreshTtl => now' > token[r].iat + RefreshTtl
    <3>1. PICK t \in Tokens : t = token[r]
      BY <2>1, <2>6 DEF Own, Presented
    <3>2. t.iat \in Nat
      BY AccountsAssumption DEF Tokens
    <3>3. PICK ttl \in Nat : ttl = IF t.typ = "refresh" THEN RefreshTtl ELSE AccessTtl
      BY AccountsAssumption
    <3>4. ~(now <= t.iat + ttl + Leeway) => ~(now + 1 <= t.iat + ttl + Leeway)
      BY <2>1, <3>2, <3>3, AccountsAssumption
    <3>5. now > t.iat + RefreshTtl => now + 1 > t.iat + RefreshTtl
      BY <2>1, <3>2, AccountsAssumption
    <3> QED
      BY <1>1, <1>2, <3>1, <3>3, <3>4, <3>5 DEF Verified
  <2>7. Gone(r)'
    <3>1. Gone(r) /\ (kind[r] = "revoke" => kind[r] \in Presenting)
      BY <2>1 DEF Own, Presenting
    <3> QED
      BY <1>2, <2>6, <3>1 DEF Gone, Twins
  <2>8. Caused(r)'
    <3>1. Caused(r) /\ (kind[r] \in {"refresh", "introspect"} => kind[r] \in Presenting)
      BY <2>1 DEF Own, Presenting
    <3> QED
      BY <1>2, <2>6, <3>1 DEF Caused, Deleted, Passes
  <2> QED
    BY <2>2, <2>3, <2>4, <2>5, <2>7, <2>8 DEF Own
<1> QED
  BY <1>3, <1>4, <1>5 DEF IInv

LEMMA StepInv ==
  ASSUME IInv, [Next]_vars
  PROVE  IInv'
<1>1. CASE Tick
  BY <1>1, TickStep
<1>2. ASSUME NEW r \in Requests,
             \/ SendRegister(r) \/ SendPassword(r) \/ SendToken(r)
             \/ Register(r) \/ Grant(r) \/ Present(r) \/ Drop(r)
      PROVE  IInv'
  <2>1. TypeOK /\ Staged(r) /\ Granted(r)
    BY DEF IInv, Own
  <2>2. Moves(r)
    BY <1>2, <2>1, SendMoves, RegisterMoves, GrantMoves, PresentMoves, DropMoves
  <2>3. TypeOK'
    BY <1>2, SendTypes, RegisterTypes, GrantTypes, PresentTypes, DropTypes
  <2>4. Own(r)'
    BY <1>2, <2>2, SendRegisterOwn, SendPasswordOwn, SendTokenOwn, RegisterOwn, GrantsOwn,
       PresentsOwn, DropOwn
  <2>5. \A q \in Requests : Own(q)'
    BY <2>2, <2>4, OthersOwn
  <2>6. Distinct' /\ \A row \in rows' : Genuine(row)'
    BY <2>2, DistinctStays, RowsGenuine
  <2> QED
    BY <2>3, <2>5, <2>6 DEF IInv
<1>3. CASE UNCHANGED vars
  <2>1. /\ now' = now /\ users' = users /\ rows' = rows /\ kind' = kind /\ name' = name
        /\ email' = email /\ right' = right /\ token' = token /\ read' = read /\ stage' = stage
        /\ answer' = answer /\ hit' = hit /\ settled' = settled
    BY <1>3 DEF vars, requestVars
  <2>2. TypeOK' /\ Distinct' /\ \A row \in rows' : Genuine(row)'
    BY <2>1 DEF IInv, TypeOK, Distinct, Genuine
  <2>3. ASSUME NEW r \in Requests PROVE Own(r)'
    <3>1. Own(r)
      BY DEF IInv
    <3>2. Staged(r)' /\ Listed(r)' /\ Granted(r)' /\ Kept(r)'
      <4>1. Staged(r)' /\ Listed(r)'
        BY <2>1, <3>1 DEF Own, Staged, Listed, NameHeld, EmailHeld
      <4>2. Granted(r)'
        BY <2>1, <3>1 DEF Own, Granted, Proper
      <4>3. Kept(r)'
        BY <2>1, <3>1 DEF Own, Kept, Deleted
      <4> QED
        BY <4>1, <4>2, <4>3
    <3>5. Presented(r)'
      BY <2>1, <3>1 DEF Own, Presented, GivenTo
    <3>3. ReadEnough(r)' /\ Gone(r)' /\ Settled(r)'
      BY <2>1, <3>1
      DEF Own, ReadEnough, Gone, Settled, Deleted, Twins, Matching, Verified, Revoked
    <3>4. Told(r)' /\ OutFor(r)' /\ Caused(r)' /\ \A row \in read'[r] : Genuine(row)'
      BY <2>1, <3>1 DEF Own, Told, OutFor, Caused, Twins, Deleted, Passes, Verified, Genuine
    <3> QED
      BY <3>2, <3>3, <3>4, <3>5 DEF Own
  <2> QED
    BY <2>2, <2>3 DEF IInv
<1> QED
  BY <1>1, <1>2, <1>3 DEF Next

LEMMA AlwaysInv ==
  Spec => []IInv
<1>1. Init => IInv
  BY InitInv
<1>2. IInv /\ [Next]_vars => IInv'
  BY StepInv
<1> QED
  BY <1>1, <1>2, PTL DEF Spec

(* Every variable of the auth service keeps its type (router.rs).          *)
THEOREM TypeCorrect ==
  Spec => []TypeOK
<1>1. IInv => TypeOK
  BY DEF IInv
<1> QED
  BY <1>1, AlwaysInv, PTL

(* However many registrations race, each is told the truth about its name  *)
(* and its email, and one account at most exists for either                *)
(* (register_handler).                                                     *)
THEOREM RegistrationAlwaysTold ==
  Spec => []RegistrationTold
<1>1. IInv => RegistrationTold
  BY DEF IInv, Distinct, Own, Told, RegistrationTold
<1> QED
  BY <1>1, AlwaysInv, PTL

(* However requests interleave, a token whose revocation was answered is   *)
(* refused from then on, but for a twin of the same second                 *)
(* (revoke_handler against token_handler and introspect_handler).          *)
THEOREM LogoutAlwaysHolds ==
  Spec => []LogoutHolds
<1>1. IInv => LogoutHolds
  BY DEF IInv, Own, OutFor, LogoutHolds
<1> QED
  BY <1>1, AlwaysInv, PTL

(* However requests interleave, nobody is turned away who is not wrong,    *)
(* late or revoked, unless a statement of the request failed.              *)
THEOREM RefusalsAlwaysHaveCause ==
  Spec => []RefusalsHaveCause
<1>1. IInv => RefusalsHaveCause
  BY DEF IInv, Own, Caused, RefusalsHaveCause
<1> QED
  BY <1>1, AlwaysInv, PTL
=============================================================================
