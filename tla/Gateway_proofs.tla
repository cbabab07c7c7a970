--------------------------- MODULE Gateway_proofs ---------------------------
(***************************************************************************)
(* Theorems about Gateway, for any connections, clients, route tables and  *)
(* limits.                                                                 *)
(***************************************************************************)
EXTENDS Gateway, WellFoundedInduction, TLAPS

Busy == {"limit", "auth", "upstream"}

USE GatewayAssumption

-----------------------------------------------------------------------------
(* Type correctness                                                        *)

LEMMA TypeInit == Init => TypeOK
<1> SUFFICES ASSUME Init PROVE TypeOK
  OBVIOUS
<1>1. routes \in Tables /\ phase = "serving" BY DEF Init
<1>2. req \in [Conns -> Requests \cup {NoRequest}] BY DEF Init
<1>3. user \in [Conns -> Users] BY DEF Init, Users, Tokens
<1>4. limiter \in [LimitKeys -> [Conns -> [used : Nat, burst : Nat]]]
  BY DEF Init, NoLimiter
<1>5. \A c \in Conns : ConnOK(c) BY DEF Init, ConnOK
<1>6. QED BY <1>1, <1>2, <1>3, <1>4, <1>5 DEF Init, TypeOK

(* A table's routes have keys of limiters. *)
LEMMA KeyTyped ==
  ASSUME routes \in Tables, NEW i \in DOMAIN routes, NEW ip \in Clients
  PROVE  <<routes[i].path, ip>> \in LimitKeys /\ i \in Nat /\ routes[i].burst \in Nat
<1>1. routes \in Seq(RouteConfig) OBVIOUS
<1>2. i \in Nat /\ routes[i] \in RouteConfig BY <1>1
<1>3. routes[i].path \in RoutePaths /\ routes[i].burst \in Nat BY <1>2 DEF RouteConfig
<1>4. QED BY <1>2, <1>3 DEF LimitKeys

LEMMA RequestTyped ==
  ASSUME TypeOK, NEW c \in Conns, pc[c] \in {"body", "limit", "auth", "upstream"}
  PROVE  req[c] \in Requests
BY DEF TypeOK, ConnOK

(* What a step of connection c has to show: its own new state. *)
ConnTyped ==
  /\ pc \in [Conns -> {"none", "idle", "body", "limit", "auth", "upstream"}]
  /\ req \in [Conns -> Requests \cup {NoRequest}]
  /\ route \in [Conns -> Nat]
  /\ held \in [Conns -> Conns \cup {NoConn}]
  /\ user \in [Conns -> Users]
  /\ \A c \in Conns : ConnOK(c)

LimitTyped ==
  /\ cache \in [LimitKeys -> Conns \cup {NoConn}]
  /\ limiter \in [LimitKeys -> [Conns -> [used : Nat, burst : Nat]]]
  /\ idle \in [LimitKeys -> Nat] /\ level \in [LimitKeys -> Nat]
  /\ raced \subseteq LimitKeys

KeyTypes ==
  /\ {published, reply, cached} \subseteq 0 .. MaxRotations
  /\ reply <= published /\ cached <= published
  /\ fetch \in {"waiting", "asked", "replied"}

LEMMA TypeParts ==
  TypeOK <=> /\ routes \in Tables
             /\ phase \in {"serving", "draining", "ended"}
             /\ ConnTyped
             /\ LimitTyped
             /\ KeyTypes
             /\ sent \in 0 .. MaxRequests
BY DEF TypeOK, ConnTyped, LimitTyped, KeyTypes

LEMMA TypePartsNext ==
  TypeOK' <=> /\ routes' \in Tables
              /\ phase' \in {"serving", "draining", "ended"}
              /\ ConnTyped'
              /\ LimitTyped'
              /\ KeyTypes'
              /\ sent' \in 0 .. MaxRequests
BY DEF TypeOK, ConnTyped, LimitTyped, KeyTypes

LEMMA LimitKept == LimitTyped /\ UNCHANGED limitVars => LimitTyped'
BY DEF LimitTyped, limitVars

LEMMA KeysKept == KeyTypes /\ UNCHANGED keyVars => KeyTypes'
BY DEF KeyTypes, keyVars

LEMMA ConnsKept ==
  ConnTyped /\ UNCHANGED <<routes, published, connVars>> => ConnTyped'
BY DEF ConnTyped, connVars, ConnOK, Requests, Tokens, Users

(* A step that changes one connection and keeps what the others have. *)
LEMMA ConnStep ==
  ASSUME ConnTyped, NEW c \in Conns,
         UNCHANGED <<routes, published>>,
         NEW np \in {"none", "idle", "body", "limit", "auth", "upstream"},
         NEW nq \in Requests \cup {NoRequest}, NEW nr \in Nat,
         NEW nh \in Conns \cup {NoConn}, NEW nu \in Users,
         pc' = [pc EXCEPT ![c] = np],
         req' = [req EXCEPT ![c] = nq],
         route' = [route EXCEPT ![c] = nr],
         held' = [held EXCEPT ![c] = nh],
         user' = [user EXCEPT ![c] = nu],
         np \in {"body"} \cup Busy <=> nq # NoRequest,
         IF np \in Busy THEN nr \in DOMAIN routes ELSE nr = 0,
         nh # NoConn => np = "limit",
         nu # NoToken => np \in {"body"} \cup Busy,
         nu \notin {NoToken, Claimed} => np = "upstream"
  PROVE  ConnTyped'
<1>1. pc' \in [Conns -> {"none", "idle", "body", "limit", "auth", "upstream"}]
  BY DEF ConnTyped
<1>2. req' \in [Conns -> (Requests \cup {NoRequest})']
  BY DEF ConnTyped, Requests, Tokens, NoRequest
<1>3. route' \in [Conns -> Nat] BY DEF ConnTyped
<1>4. held' \in [Conns -> Conns \cup {NoConn}] BY DEF ConnTyped
<1>5. user' \in [Conns -> Users'] BY DEF ConnTyped, Tokens, Users
<1>6. ASSUME NEW x \in Conns PROVE ConnOK(x)'
  <2>1. CASE x = c
    <3>1. /\ pc'[x] = np /\ req'[x] = nq /\ route'[x] = nr /\ held'[x] = nh /\ user'[x] = nu
      BY <2>1 DEF ConnTyped
    <3>2. QED BY <3>1 DEF ConnOK, Busy, NoRequest
  <2>2. CASE x # c
    <3>1. /\ pc'[x] = pc[x] /\ req'[x] = req[x] /\ route'[x] = route[x]
          /\ held'[x] = held[x] /\ user'[x] = user[x]
      BY <2>2 DEF ConnTyped
    <3>2. ConnOK(x) BY DEF ConnTyped
    <3>3. QED BY <3>1, <3>2 DEF ConnOK, NoRequest
  <2>3. QED BY <2>1, <2>2
<1>7. QED BY <1>1, <1>2, <1>3, <1>4, <1>5, <1>6 DEF ConnTyped

(* A request that ends leaves its connection with nothing of it. *)
LEMMA EndTyped ==
  ASSUME ConnTyped, NEW c \in Conns, NEW next \in {"none", "idle"}, EndRequest(c, next)
  PROVE  ConnTyped'
<1>1. NoToken \in Users BY DEF Tokens, Users
<1>2. UNCHANGED <<routes, published>> BY DEF EndRequest, keyVars
<1>3. /\ pc' = [pc EXCEPT ![c] = next]
      /\ req' = [req EXCEPT ![c] = NoRequest]
      /\ route' = [route EXCEPT ![c] = 0]
      /\ held' = [held EXCEPT ![c] = NoConn]
      /\ user' = [user EXCEPT ![c] = NoToken]
  BY DEF EndRequest
<1>4. QED BY <1>1, <1>2, <1>3, ConnStep DEF Busy

LEMMA EndRequestType ==
  ASSUME TypeOK, NEW c \in Conns, NEW next \in {"none", "idle"}, EndRequest(c, next),
         UNCHANGED limitVars
  PROVE  TypeOK'
<1>1. ConnTyped' BY EndTyped, TypeParts
<1>2. UNCHANGED <<routes, phase, keyVars, sent>> BY DEF EndRequest
<1>3. LimitTyped' /\ KeyTypes' BY <1>2, LimitKept, KeysKept, TypeParts
<1>4. QED BY <1>1, <1>2, <1>3, TypeParts, TypePartsNext

(* EXCEPT with the old value changes nothing. *)
LEMMA ConnSame ==
  ASSUME ConnTyped, NEW c \in Conns
  PROVE  /\ req = [req EXCEPT ![c] = req[c]]
         /\ route = [route EXCEPT ![c] = route[c]]
         /\ held = [held EXCEPT ![c] = held[c]]
         /\ user = [user EXCEPT ![c] = user[c]]
         /\ req[c] \in Requests \cup {NoRequest} /\ route[c] \in Nat
         /\ held[c] \in Conns \cup {NoConn} /\ user[c] \in Users
         /\ ConnOK(c)
BY DEF ConnTyped

LEMMA AcceptType == ASSUME TypeOK, NEW c \in Conns, Accept(c) PROVE TypeOK'
<1>1. ConnTyped /\ LimitTyped /\ KeyTypes BY TypeParts
<1>2. UNCHANGED <<routes, phase, limitVars, keyVars, sent>> BY DEF Accept
<1>3. ConnOK(c) /\ pc[c] = "none" BY <1>1, ConnSame DEF Accept
<1>4. req[c] = NoRequest /\ route[c] = 0 /\ held[c] = NoConn /\ user[c] = NoToken
  BY <1>3 DEF ConnOK
<1>5. ConnTyped'
  <2>1. /\ pc' = [pc EXCEPT ![c] = "idle"] /\ UNCHANGED <<req, route, held, user>>
    BY DEF Accept
  <2>2. UNCHANGED <<routes, published>> BY <1>2 DEF keyVars
  <2>3. NoToken \in Users BY DEF Tokens, Users
  <2>4. /\ req' = [req EXCEPT ![c] = NoRequest] /\ route' = [route EXCEPT ![c] = 0]
        /\ held' = [held EXCEPT ![c] = NoConn] /\ user' = [user EXCEPT ![c] = NoToken]
    BY <1>1, <1>4, <2>1, ConnSame
  <2>5. "idle" \notin {"body"} \cup Busy /\ 0 \in Nat BY DEF Busy
  <2>6. pc' = [pc EXCEPT ![c] = "idle"] BY <2>1
  <2>7. QED BY <1>1, <2>6, <2>2, <2>3, <2>4, <2>5, ConnStep
<1>6. LimitTyped' /\ KeyTypes' BY <1>1, <1>2, LimitKept, KeysKept
<1>7. QED BY <1>2, <1>5, <1>6, TypeParts, TypePartsNext

LEMMA SendType == ASSUME TypeOK, NEW c \in Conns, SendRequest(c) PROVE TypeOK'
<1>1. ConnTyped /\ LimitTyped /\ KeyTypes BY TypeParts
<1>2. UNCHANGED <<routes, phase, limitVars, keyVars>> BY DEF SendRequest
<1>3. ConnOK(c) /\ pc[c] = "idle" BY <1>1, ConnSame DEF SendRequest
<1>4. route[c] = 0 /\ held[c] = NoConn BY <1>3 DEF ConnOK
<1>5. PICK p \in Paths, ip \in Clients, t \in Tokens, h \in {NoToken, Claimed} :
        /\ req' = [req EXCEPT ![c] = [path |-> p, client |-> ip, token |-> t]]
        /\ user' = [user EXCEPT ![c] = h]
  BY DEF SendRequest
<1>6. ConnTyped'
  <2> DEFINE q == [path |-> p, client |-> ip, token |-> t]
  <2>1. /\ pc' = [pc EXCEPT ![c] = "body"] /\ UNCHANGED <<route, held>>
    BY DEF SendRequest
  <2>2. UNCHANGED <<routes, published>> BY <1>2 DEF keyVars
  <2>3. q \in Requests \cup {NoRequest} /\ q # NoRequest BY DEF Requests, NoRequest
  <2>4. /\ route' = [route EXCEPT ![c] = 0] /\ held' = [held EXCEPT ![c] = NoConn]
        /\ h \in Users
    BY <1>1, <1>4, <2>1, ConnSame DEF Tokens, Users
  <2>5. req' = [req EXCEPT ![c] = q] BY <1>5
  <2> HIDE DEF q
  <2>6. QED BY <1>1, <1>5, <2>1, <2>2, <2>3, <2>4, <2>5, ConnStep DEF Busy
<1>7. LimitTyped' /\ KeyTypes' BY <1>1, <1>2, LimitKept, KeysKept
<1>8. sent' \in 0 .. MaxRequests BY TypeParts DEF SendRequest
<1>9. QED BY <1>2, <1>6, <1>7, <1>8, TypeParts, TypePartsNext

LEMMA LookupType == ASSUME TypeOK, NEW c \in Conns, Lookup(c) PROVE TypeOK'
<1>1. ConnTyped /\ LimitTyped /\ KeyTypes BY TypeParts
<1>2. UNCHANGED <<routes, phase, user, req, cache, limiter, level, raced, keyVars, sent>>
  BY DEF Lookup
<1>3. ConnOK(c) /\ pc[c] = "body" BY <1>1, ConnSame DEF Lookup
<1>4. req[c] # NoRequest /\ user[c] \in {NoToken, Claimed} BY <1>3 DEF ConnOK
<1>5. PICK i \in DOMAIN routes :
        /\ route' = [route EXCEPT ![c] = i]
        /\ held' = [held EXCEPT ![c] = cache[<<routes[i].path, req[c].client>>]]
        /\ idle' = [idle EXCEPT ![<<routes[i].path, req[c].client>>] = 0]
  BY DEF Lookup
<1>6. req[c] \in Requests BY <1>1, <1>4, ConnSame
<1>7. <<routes[i].path, req[c].client>> \in LimitKeys /\ i \in Nat
  BY <1>6, TypeParts, KeyTyped DEF Requests
<1>8. cache[<<routes[i].path, req[c].client>>] \in Conns \cup {NoConn}
  BY <1>1, <1>7 DEF LimitTyped
<1>9. ConnTyped'
  <2>1. pc' = [pc EXCEPT ![c] = "limit"] BY DEF Lookup
  <2>2. UNCHANGED <<routes, published>> BY <1>2 DEF keyVars
  <2>3. /\ req' = [req EXCEPT ![c] = req[c]] /\ user' = [user EXCEPT ![c] = user[c]]
        /\ req[c] \in Requests \cup {NoRequest} /\ user[c] \in Users
    BY <1>1, <1>2, ConnSame
  <2>4. QED BY <1>1, <1>4, <1>5, <1>7, <1>8, <2>1, <2>2, <2>3, ConnStep DEF Busy
<1>10. LimitTyped' BY <1>1, <1>2, <1>5, <1>7 DEF LimitTyped
<1>11. KeyTypes' BY <1>1, <1>2, KeysKept
<1>12. QED BY <1>2, <1>9, <1>10, <1>11, TypeParts, TypePartsNext

(* A connection in "limit" has a key. *)
LEMMA LimitKeyTyped ==
  ASSUME TypeOK, NEW c \in Conns, pc[c] \in Busy
  PROVE  /\ LimitKey(c) \in LimitKeys
         /\ route[c] \in DOMAIN routes /\ route[c] \in Nat
         /\ routes[route[c]].path = LimitKey(c)[1]
         /\ routes[route[c]].burst \in Nat
         /\ req[c] \in Requests
<1>1. ConnOK(c) /\ route[c] \in DOMAIN routes /\ req[c] \in Requests
  BY RequestTyped, TypeParts, ConnSame DEF ConnOK, Busy
<1>2. req[c].client \in Clients BY <1>1 DEF Requests
<1>3. QED BY <1>1, <1>2, KeyTyped, TypeParts DEF LimitKey

LEMMA InsertType == ASSUME TypeOK, NEW c \in Conns, Insert(c) PROVE TypeOK'
<1>1. ConnTyped /\ LimitTyped /\ KeyTypes BY TypeParts
<1>2. UNCHANGED <<routes, phase, pc, req, route, user, level, keyVars, sent>> BY DEF Insert
<1>3. ConnOK(c) /\ pc[c] = "limit" BY <1>1, ConnSame DEF Insert
<1>4. LimitKey(c) \in LimitKeys /\ routes[route[c]].burst \in Nat
  BY <1>3, LimitKeyTyped DEF Busy
<1>5. ConnTyped'
  <2>1. held' = [held EXCEPT ![c] = c] BY DEF Insert
  <2>2. UNCHANGED <<routes, published>> BY <1>2 DEF keyVars
  <2>3. held' \in [Conns -> Conns \cup {NoConn}] BY <1>1, <2>1 DEF ConnTyped
  <2>4. ASSUME NEW x \in Conns PROVE ConnOK(x)'
    <3>1. ConnOK(x) BY <1>1 DEF ConnTyped
    <3>2. held'[x] # NoConn => pc[x] = "limit"
      BY <1>1, <1>3, <2>1, <3>1 DEF ConnOK, ConnTyped
    <3>3. QED BY <1>2, <3>1, <3>2 DEF ConnOK, NoRequest
  <2>5. QED BY <1>1, <1>2, <2>2, <2>3, <2>4 DEF ConnTyped, Requests, Tokens, Users, NoRequest
<1>6. LimitTyped' BY <1>1, <1>2, <1>4 DEF LimitTyped, Insert
<1>7. KeyTypes' BY <1>1, <1>2, KeysKept
<1>8. QED BY <1>2, <1>5, <1>6, <1>7, TypeParts, TypePartsNext

Limiters == [used : Nat, burst : Nat]

LEMMA CellsSet ==
  ASSUME NEW l \in Limiters, NEW n \in Nat
  PROVE  /\ [l EXCEPT !.used = n] \in Limiters
         /\ [l EXCEPT !.used = n].used = n
         /\ [l EXCEPT !.used = n].burst = l.burst
         /\ l.used \in Nat /\ l.burst \in Nat
BY DEF Limiters

(* One limiter of a key is changed. *)
LEMMA OneLimiter ==
  ASSUME limiter \in [LimitKeys -> [Conns -> Limiters]],
         NEW k \in LimitKeys, NEW m \in Conns, NEW l \in Limiters
  PROVE  LET new == [limiter EXCEPT ![k] = [limiter[k] EXCEPT ![m] = l]]
         IN /\ new \in [LimitKeys -> [Conns -> Limiters]]
            /\ new[k][m] = l
            /\ \A j \in LimitKeys, x \in Conns :
                 j # k \/ x # m => new[j][x] = limiter[j][x]
OBVIOUS

LEMMA AllowedType == ASSUME TypeOK, NEW c \in Conns, Allowed(c) PROVE TypeOK'
<1>1. ConnTyped /\ LimitTyped /\ KeyTypes BY TypeParts
<1>2. UNCHANGED <<routes, phase, req, route, user, cache, idle, raced, keyVars, sent>>
  BY DEF Allowed
<1>3. ConnOK(c) /\ pc[c] = "limit" /\ held[c] \in Conns
  BY <1>1, ConnSame DEF Allowed
<1>4. LimitKey(c) \in LimitKeys /\ route[c] \in DOMAIN routes /\ req[c] # NoRequest
      /\ user[c] \in {NoToken, Claimed}
  BY <1>3, LimitKeyTyped DEF Busy, ConnOK
<1>5. ConnTyped'
  <2>1. pc' = [pc EXCEPT ![c] = "auth"] /\ held' = [held EXCEPT ![c] = NoConn]
    BY DEF Allowed
  <2>2. UNCHANGED <<routes, published>> BY <1>2 DEF keyVars
  <2>3. /\ req' = [req EXCEPT ![c] = req[c]] /\ route' = [route EXCEPT ![c] = route[c]]
        /\ user' = [user EXCEPT ![c] = user[c]] /\ user[c] \in Users
        /\ req[c] \in Requests \cup {NoRequest} /\ route[c] \in Nat
    BY <1>1, <1>2, <1>4, ConnSame
  <2>4. QED BY <1>1, <1>4, <2>1, <2>2, <2>3, ConnStep DEF Busy
<1>6. LimitTyped'
  <2> DEFINE k == LimitKey(c)
             m == held[c]
             l == [limiter[k][m] EXCEPT !.used = limiter[k][m].used + 1]
  <2>1. limiter \in [LimitKeys -> [Conns -> Limiters]] BY <1>1 DEF LimitTyped, Limiters
  <2>2. limiter[k][m] \in Limiters BY <1>3, <1>4, <2>1
  <2>3. l \in Limiters
    <3>1. limiter[k][m].used \in Nat BY <2>2, CellsSet
    <3>2. limiter[k][m].used + 1 \in Nat BY <3>1
    <3>3. QED BY <2>2, <3>2, CellsSet
  <2>4. limiter' = [limiter EXCEPT ![k] = [limiter[k] EXCEPT ![m] = l]] BY DEF Allowed
  <2>5. limiter' \in [LimitKeys -> [Conns -> Limiters]]
    <3> HIDE DEF l, k, m
    <3>1. QED BY <1>3, <1>4, <2>1, <2>3, <2>4, OneLimiter DEF k, m
  <2>6. level' \in [LimitKeys -> Nat] BY <1>1, <1>4 DEF Allowed, LimitTyped
  <2>7. QED BY <1>1, <1>2, <2>5, <2>6 DEF LimitTyped, Limiters
<1>7. KeyTypes' BY <1>1, <1>2, KeysKept
<1>8. QED BY <1>2, <1>5, <1>6, <1>7, TypeParts, TypePartsNext

LEMMA ForwardType ==
  ASSUME TypeOK, NEW c \in Conns, pc[c] = "auth", NEW id \in Users, NEW t \in Tokens,
         Forward(c, id, t)
  PROVE  TypeOK'
<1>1. ConnTyped /\ LimitTyped /\ KeyTypes BY TypeParts
<1>2. UNCHANGED <<routes, phase, route, held, limitVars, keyVars, sent>> BY DEF Forward
<1>3. ConnOK(c) /\ held[c] = NoConn BY <1>1, ConnSame DEF ConnOK
<1>4. req[c] \in Requests /\ route[c] \in DOMAIN routes
  BY LimitKeyTyped DEF Busy
<1>5. ConnTyped'
  <2> DEFINE q == [req[c] EXCEPT !.token = t]
  <2>1. /\ pc' = [pc EXCEPT ![c] = "upstream"] /\ user' = [user EXCEPT ![c] = id]
        /\ req' = [req EXCEPT ![c] = q]
    BY DEF Forward
  <2>2. UNCHANGED <<routes, published>> BY <1>2 DEF keyVars
  <2>3. q \in Requests \cup {NoRequest} /\ q # NoRequest
    BY <1>4 DEF Requests, NoRequest
  <2>4. /\ route' = [route EXCEPT ![c] = route[c]] /\ held' = [held EXCEPT ![c] = NoConn]
        /\ route[c] \in Nat
    BY <1>1, <1>2, <1>3, ConnSame
  <2> HIDE DEF q
  <2>5. QED BY <1>1, <1>4, <2>1, <2>2, <2>3, <2>4, ConnStep DEF Busy
<1>6. LimitTyped' /\ KeyTypes' BY <1>1, <1>2, LimitKept, KeysKept
<1>7. QED BY <1>2, <1>5, <1>6, TypeParts, TypePartsNext

LEMMA SecondType == ASSUME TypeOK, Second PROVE TypeOK'
<1>1. ConnTyped /\ LimitTyped /\ KeyTypes BY TypeParts
<1>2. UNCHANGED <<routes, phase, connVars, raced, keyVars, sent>> BY DEF Second
<1>3. \A n \in Nat : Leaked(n) \in Nat BY DEF Leaked
<1>4. LimitTyped'
  <2>1. cache' \in [LimitKeys -> Conns \cup {NoConn}] BY <1>1 DEF Second, LimitTyped
  <2>2. limiter' \in [LimitKeys -> [Conns -> [used : Nat, burst : Nat]]]
    <3>1. ASSUME NEW k \in LimitKeys, NEW m \in Conns
          PROVE  [limiter[k][m] EXCEPT !.used = Leaked(@)] \in [used : Nat, burst : Nat]
      <4>1. limiter[k][m] \in Limiters BY <1>1 DEF LimitTyped, Limiters
      <4>2. Leaked(limiter[k][m].used) \in Nat BY <1>3, <4>1, CellsSet
      <4>3. QED BY <4>1, <4>2, CellsSet DEF Limiters
    <3>2. NoLimiter \in [used : Nat, burst : Nat] BY DEF NoLimiter
    <3>3. QED BY <3>1, <3>2 DEF Second
  <2>3. idle' \in [LimitKeys -> Nat] BY <1>1 DEF Second, LimitTyped
  <2>4. level' \in [LimitKeys -> Nat] BY <1>1, <1>3 DEF Second, LimitTyped
  <2>5. QED BY <1>1, <1>2, <2>1, <2>2, <2>3, <2>4 DEF LimitTyped
<1>5. ConnTyped' BY <1>1, <1>2, ConnsKept DEF keyVars
<1>6. KeyTypes' BY <1>1, <1>2, KeysKept
<1>7. QED BY <1>2, <1>4, <1>5, <1>6, TypeParts, TypePartsNext

LEMMA RotateType == ASSUME TypeOK, Rotate PROVE TypeOK'
<1>1. ConnTyped /\ LimitTyped /\ KeyTypes BY TypeParts
<1>2. UNCHANGED <<routes, phase, connVars, limitVars, sent>> BY DEF Rotate
<1>3. KeyTypes' BY <1>1 DEF KeyTypes, Rotate
<1>4. Tokens \subseteq Tokens' /\ Users \subseteq Users'
  BY <1>1 DEF Tokens, Users, Rotate, KeyTypes
<1>5. ConnTyped'
  <2>1. Requests \subseteq Requests' BY <1>4 DEF Requests
  <2>2. \A c \in Conns : ConnOK(c)' BY <1>1, <1>2 DEF ConnOK, ConnTyped, connVars, NoRequest
  <2>3. QED BY <1>1, <1>2, <1>4, <2>1, <2>2 DEF ConnTyped, connVars, NoRequest
<1>6. QED BY <1>1, <1>2, <1>3, <1>5, LimitKept, TypeParts, TypePartsNext

LEMMA FetchingType == ASSUME TypeOK, Fetching PROVE TypeOK'
<1>1. ConnTyped /\ LimitTyped /\ KeyTypes BY TypeParts
<1>2. UNCHANGED <<routes, phase, connVars, limitVars, published, sent>>
  BY DEF Fetching, FetchBegin, KeyServed, FetchFails, FetchStore
<1>3. KeyTypes'
  BY <1>1 DEF KeyTypes, Fetching, FetchBegin, KeyServed, FetchFails, FetchStore
<1>4. QED BY <1>1, <1>2, <1>3, LimitKept, ConnsKept, TypeParts, TypePartsNext

LEMMA CutType == ASSUME TypeOK, Cut PROVE TypeOK'
<1>1. ConnTyped /\ LimitTyped /\ KeyTypes BY TypeParts
<1>2. UNCHANGED <<routes, limitVars, keyVars, sent>> /\ phase' = "ended" BY DEF Cut
<1>3. \A c \in Conns : ConnOK(c)' BY DEF ConnOK, Cut, NoRequest
<1>4. ConnTyped'
  <2>1. NoToken \in Users' BY DEF Tokens, Users
  <2>2. QED BY <1>3, <2>1 DEF Cut, ConnTyped, NoRequest
<1>5. QED BY <1>1, <1>2, <1>4, LimitKept, KeysKept, TypeParts, TypePartsNext

LEMMA PhaseType ==
  ASSUME TypeOK, UNCHANGED <<routes, connVars, limitVars, keyVars, sent>>,
         phase' \in {"serving", "draining", "ended"}
  PROVE  TypeOK'
BY ConnsKept, LimitKept, KeysKept, TypeParts, TypePartsNext DEF keyVars

LEMMA AuthType ==
  ASSUME TypeOK, NEW c \in Conns,
         PassThrough(c) \/ Strip(c) \/ Identify(c) \/ Anonymous(c) \/ AuthFailed(c)
  PROVE  TypeOK'
<1>1. pc[c] = "auth"
  BY DEF PassThrough, Strip, Identify, Anonymous, AuthFailed, Authenticating
<1>2. NoToken \in Tokens /\ user[c] \in Users BY TypeParts, ConnSame DEF Tokens
<1>3. req[c].token \in Tokens /\ req[c].token \in Users
  BY <1>1, RequestTyped DEF Requests, Users
<1>4. CASE PassThrough(c) BY <1>1, <1>2, <1>3, <1>4, ForwardType DEF PassThrough
<1>5. CASE Strip(c) BY <1>1, <1>2, <1>5, ForwardType DEF Strip
<1>6. CASE Identify(c) BY <1>1, <1>3, <1>6, ForwardType DEF Identify
<1>7. CASE Anonymous(c) BY <1>1, <1>2, <1>3, <1>7, ForwardType DEF Anonymous
<1>8. CASE AuthFailed(c) BY <1>8, EndRequestType DEF AuthFailed
<1>9. QED BY <1>4, <1>5, <1>6, <1>7, <1>8

LEMMA EndingType ==
  ASSUME TypeOK, NEW c \in Conns,
         \/ Close(c) \/ Health(c) \/ RouteNotFound(c) \/ RateLimited(c)
         \/ UpstreamFails(c) \/ Replied(c)
  PROVE  TypeOK'
<1>1. (EndRequest(c, "none") \/ EndRequest(c, "idle")) /\ UNCHANGED limitVars
  BY DEF Close, Health, RouteNotFound, RateLimited, UpstreamFails, Replied
<1>2. QED BY <1>1, EndRequestType

LEMMA ServeType == ASSUME TypeOK, NEW c \in Conns, Serve(c) \/ Peer(c) PROVE TypeOK'
<1>1. CASE Accept(c) BY <1>1, AcceptType
<1>2. CASE Lookup(c) BY <1>2, LookupType
<1>3. CASE Insert(c) BY <1>3, InsertType
<1>4. CASE Allowed(c) BY <1>4, AllowedType
<1>5. CASE SendRequest(c) BY <1>5, SendType
<1>6. QED BY <1>1, <1>2, <1>3, <1>4, <1>5, AuthType, EndingType DEF Serve, Peer

LEMMA TypeNext == TypeOK /\ [Next]_vars => TypeOK'
<1> SUFFICES ASSUME TypeOK, [Next]_vars PROVE TypeOK'
  OBVIOUS
<1>1. CASE \E c \in Conns : Serve(c) \/ Peer(c) BY <1>1, ServeType
<1>2. CASE Second BY <1>2, SecondType
<1>3. CASE Rotate BY <1>3, RotateType
<1>4. CASE Fetching BY <1>4, FetchingType
<1>5. CASE Interrupt \/ Drained BY <1>5, PhaseType DEF Interrupt, Drained
<1>6. CASE DrainTimeout \/ AcceptFails BY <1>6, CutType DEF DrainTimeout, AcceptFails
<1>7. CASE UNCHANGED vars
  <2>1. UNCHANGED <<routes, connVars, limitVars, keyVars, sent>> /\ phase' = phase
    BY <1>7 DEF vars
  <2>2. phase \in {"serving", "draining", "ended"} BY TypeParts
  <2>3. QED BY <2>1, <2>2, PhaseType
<1>8. QED BY <1>1, <1>2, <1>3, <1>4, <1>5, <1>6, <1>7 DEF Next

(* Every variable keeps its type, and a connection keeps nothing of a      *)
(* request beyond its answer (gateway/main.rs, layers).                    *)
THEOREM TypeCorrect == Spec => []TypeOK
<1>1. Init => TypeOK BY TypeInit
<1>2. TypeOK /\ [Next]_vars => TypeOK' BY TypeNext
<1>3. QED BY <1>1, <1>2, PTL DEF Spec

-----------------------------------------------------------------------------
(* Limiters                                                                *)

(* An entry that leaves the cache has all its cells back.                  *)
EvictedWhenFull ==
  \A t \in Tables : \A i \in DOMAIN t : t[i].burst <= PerSec * IdleSecs

(* As long as no two first requests met there is one limiter for a key:    *)
(* whoever holds one holds the cached one, and it counts all admissions.   *)
(* What it has given out and what it gained while idle fit its burst.      *)
HoldsCached(k) ==
  \A c \in Conns : pc[c] = "limit" /\ held[c] # NoConn /\ LimitKey(c) = k =>
    held[c] = cache[k] /\ idle[k] = 0

CountsAll(k) ==
  IF cache[k] = NoConn THEN level[k] = 0
  ELSE /\ level[k] = limiter[k][cache[k]].used
       /\ level[k] = 0 \/ level[k] + PerSec * idle[k] <= limiter[k][cache[k]].burst
       /\ \E i \in DOMAIN routes :
            routes[i].path = k[1] /\ routes[i].burst = limiter[k][cache[k]].burst

LimitInv == \A k \in LimitKeys \ raced : HoldsCached(k) /\ CountsAll(k)

LEMMA Product ==
  ASSUME NEW n \in Nat, NEW m \in Nat
  PROVE  /\ PerSec * n \in Nat
         /\ PerSec * 0 = 0
         /\ PerSec * (n + 1) = PerSec * n + PerSec
         /\ n <= m => PerSec * n <= PerSec * m
OBVIOUS

(* What has leaked while a limiter was idle is at least its burst.         *)
LEMMA LeakedAll ==
  ASSUME NEW cells \in Nat, NEW leak \in Nat, NEW burst \in Nat, NEW full \in Nat, NEW rate \in Nat,
         cells + leak <= burst, burst <= full, full <= leak + rate
  PROVE  cells <= rate
OBVIOUS

LEMMA LimitInvKept ==
  ASSUME TypeOK, LimitInv, UNCHANGED <<routes, limitVars>>,
         \A c \in Conns : pc'[c] = "limit" =>
           pc[c] = "limit" /\ held'[c] = held[c] /\ req'[c] = req[c] /\ route'[c] = route[c]
  PROVE  LimitInv'
<1> SUFFICES ASSUME NEW k \in LimitKeys, k \notin raced PROVE HoldsCached(k)' /\ CountsAll(k)'
  BY DEF LimitInv, limitVars, LimitKeys
<1>1. HoldsCached(k) /\ CountsAll(k) BY DEF LimitInv
<1>2. HoldsCached(k)' BY <1>1 DEF HoldsCached, LimitKey, limitVars
<1>3. CountsAll(k)' BY <1>1 DEF CountsAll, limitVars
<1>4. QED BY <1>2, <1>3

(* What connection c is in "limit" for is not changed by another one. *)
LEMMA EndKeeps ==
  ASSUME TypeOK, LimitInv, NEW c \in Conns, NEW next \in {"none", "idle"},
         EndRequest(c, next), UNCHANGED limitVars
  PROVE  LimitInv'
<1>1. ASSUME NEW x \in Conns, pc'[x] = "limit"
      PROVE  pc[x] = "limit" /\ held'[x] = held[x] /\ req'[x] = req[x] /\ route'[x] = route[x]
  BY <1>1, TypeParts DEF EndRequest, ConnTyped
<1>2. QED BY <1>1, LimitInvKept DEF EndRequest

LEMMA LookupKeeps ==
  ASSUME TypeOK, LimitInv, NEW c \in Conns, Lookup(c)
  PROVE  LimitInv'
<1> SUFFICES ASSUME NEW k \in LimitKeys, k \notin raced PROVE HoldsCached(k)' /\ CountsAll(k)'
  BY DEF LimitInv, Lookup, LimitKeys
<1>1. HoldsCached(k) /\ CountsAll(k) BY DEF LimitInv
<1>2. PICK i \in DOMAIN routes :
        /\ route' = [route EXCEPT ![c] = i]
        /\ held' = [held EXCEPT ![c] = cache[<<routes[i].path, req[c].client>>]]
        /\ idle' = [idle EXCEPT ![<<routes[i].path, req[c].client>>] = 0]
  BY DEF Lookup
<1>3. UNCHANGED <<routes, req, cache, limiter, level>> /\ pc' = [pc EXCEPT ![c] = "limit"]
  BY DEF Lookup
<1>4. req[c] \in Requests BY RequestTyped DEF Lookup
<1>5. <<routes[i].path, req[c].client>> \in LimitKeys
  BY <1>4, TypeParts, KeyTyped DEF Requests
<1>6. idle'[k] = 0 \/ idle'[k] = idle[k] BY <1>2, <1>5, TypeParts DEF LimitTyped
<1>7. HoldsCached(k)'
  <2>1. SUFFICES ASSUME NEW x \in Conns, pc'[x] = "limit", held'[x] # NoConn, LimitKey(x)' = k
                 PROVE  held'[x] = cache[k] /\ idle'[k] = 0
    BY <1>3 DEF HoldsCached
  <2>2. CASE x = c
    <3>1. held'[c] = cache[<<routes[i].path, req[c].client>>] /\ route'[c] = i
      BY <1>2, TypeParts DEF ConnTyped
    <3>2. k = <<routes[i].path, req[c].client>> BY <1>3, <2>1, <2>2, <3>1 DEF LimitKey
    <3>3. QED BY <1>2, <1>5, <2>2, <3>1, <3>2, TypeParts DEF LimitTyped
  <2>3. CASE x # c
    <3>1. pc[x] = "limit" /\ held'[x] = held[x] /\ LimitKey(x) = k
      BY <1>2, <1>3, <2>1, <2>3, TypeParts DEF ConnTyped, LimitKey
    <3>2. QED BY <1>1, <1>6, <2>1, <3>1 DEF HoldsCached
  <2>4. QED BY <2>2, <2>3
<1>8. CountsAll(k)'
  <2>1. CASE cache[k] = NoConn BY <1>1, <1>3, <2>1 DEF CountsAll
  <2>2. CASE cache[k] # NoConn
    <3> DEFINE l == limiter[k][cache[k]]
    <3>1. /\ idle[k] \in Nat /\ level[k] \in Nat
      BY TypeParts DEF LimitTyped
    <3>2. l \in Limiters BY <2>2, TypeParts DEF LimitTyped, Limiters
    <3>3. l.burst \in Nat BY <3>2, CellsSet
    <3>4. PerSec * idle[k] \in Nat /\ PerSec * 0 = 0 BY <3>1, Product
    <3>5. level[k] = 0 \/ level[k] + PerSec * idle'[k] <= l.burst
      BY <1>1, <1>6, <2>2, <3>1, <3>3, <3>4 DEF CountsAll
    <3>6. QED BY <1>1, <1>3, <2>2, <3>5 DEF CountsAll
  <2>3. QED BY <2>1, <2>2
<1>9. QED BY <1>7, <1>8

LEMMA InsertKeeps ==
  ASSUME TypeOK, LimitInv, NEW c \in Conns, Insert(c)
  PROVE  LimitInv'
<1> SUFFICES ASSUME NEW k \in LimitKeys, k \notin raced'
             PROVE  HoldsCached(k)' /\ CountsAll(k)'
  BY DEF LimitInv, LimitKeys
<1> DEFINE n == LimitKey(c)
<1>1. pc[c] = "limit" /\ held[c] = NoConn BY DEF Insert
<1>2. n \in LimitKeys /\ routes[route[c]].path = n[1] /\ route[c] \in DOMAIN routes
  BY <1>1, LimitKeyTyped DEF Busy
<1>3. /\ UNCHANGED <<routes, pc, req, route, level>>
      /\ cache' = [cache EXCEPT ![n] = c]
      /\ limiter' = [limiter EXCEPT ![n][c] = [used |-> 0, burst |-> routes[route[c]].burst]]
      /\ idle' = [idle EXCEPT ![n] = 0]
      /\ held' = [held EXCEPT ![c] = c]
      /\ raced' = IF cache[n] = NoConn THEN raced ELSE raced \cup {n}
  BY DEF Insert
<1>4. k \notin raced /\ HoldsCached(k) /\ CountsAll(k) BY <1>3 DEF LimitInv
<1>5. CASE k = n
  <2>1. cache[k] = NoConn BY <1>3, <1>5
  <2>2. \A x \in Conns : pc[x] = "limit" /\ LimitKey(x) = k => held[x] = NoConn
    BY <1>4, <2>1 DEF HoldsCached
  <2>3. cache'[k] = c /\ idle'[k] = 0 BY <1>2, <1>3, <1>5, TypeParts DEF LimitTyped
  <2>4. HoldsCached(k)'
    BY <1>3, <2>2, <2>3, TypeParts DEF HoldsCached, LimitKey, ConnTyped
  <2>5. limiter'[k][c] = [used |-> 0, burst |-> routes[route[c]].burst]
    BY <1>2, <1>3, <1>5, TypeParts DEF LimitTyped
  <2>6. level[k] = 0 BY <1>4, <2>1 DEF CountsAll
  <2>7. CountsAll(k)' BY <1>2, <1>3, <1>5, <2>3, <2>5, <2>6 DEF CountsAll
  <2>8. QED BY <2>4, <2>7
<1>6. CASE k # n
  <2>1. cache'[k] = cache[k] /\ idle'[k] = idle[k] /\ limiter'[k] = limiter[k]
    BY <1>2, <1>3, <1>6, TypeParts DEF LimitTyped
  <2>2. \A x \in Conns : LimitKey(x)' = LimitKey(x) BY <1>3 DEF LimitKey
  <2>3. HoldsCached(k)'
    BY <1>3, <1>4, <1>6, <2>1, <2>2, TypeParts DEF HoldsCached, ConnTyped
  <2>4. CountsAll(k)' BY <1>3, <1>4, <2>1 DEF CountsAll
  <2>5. QED BY <2>3, <2>4
<1>7. QED BY <1>5, <1>6

LEMMA AllowedKeeps ==
  ASSUME TypeOK, LimitInv, NEW c \in Conns, Allowed(c)
  PROVE  LimitInv'
<1> SUFFICES ASSUME NEW k \in LimitKeys, k \notin raced PROVE HoldsCached(k)' /\ CountsAll(k)'
  BY DEF LimitInv, Allowed, LimitKeys
<1> DEFINE n == LimitKey(c)
           m == held[c]
           l == limiter[n][m]
<1>1. pc[c] = "limit" /\ m \in Conns /\ HasCell(l)
  BY TypeParts, ConnSame DEF Allowed
<1>2. n \in LimitKeys BY <1>1, LimitKeyTyped DEF Busy
<1>3. /\ UNCHANGED <<routes, req, route, cache, idle>>
      /\ limiter' = [limiter EXCEPT ![n] = [limiter[n] EXCEPT ![m] = [l EXCEPT !.used = l.used + 1]]]
      /\ level' = [level EXCEPT ![n] = level[n] + 1]
      /\ held' = [held EXCEPT ![c] = NoConn] /\ pc' = [pc EXCEPT ![c] = "auth"]
  BY DEF Allowed
<1>4. HoldsCached(k) /\ CountsAll(k) BY DEF LimitInv
<1>5. HoldsCached(k)'
  BY <1>3, <1>4, TypeParts DEF HoldsCached, LimitKey, ConnTyped
<1>6. CASE k # n
  <2>1. level'[k] = level[k] /\ limiter'[k] = limiter[k]
    BY <1>2, <1>3, <1>6, TypeParts DEF LimitTyped
  <2>2. CountsAll(k)' BY <1>3, <1>4, <2>1 DEF CountsAll
  <2>3. QED BY <1>5, <2>2
<1>7. CASE k = n
  <2>1. m = cache[k] /\ idle[k] = 0 /\ cache[k] # NoConn BY <1>1, <1>4, <1>7 DEF HoldsCached
  <2>2. limiter \in [LimitKeys -> [Conns -> Limiters]] /\ level[k] \in Nat
    BY TypeParts DEF LimitTyped, Limiters
  <2>3. l \in Limiters BY <1>1, <1>2, <2>2
  <2>4. l.used \in Nat /\ l.burst \in Nat /\ l.used < l.burst
    BY <1>1, <2>3, CellsSet DEF HasCell
  <2>5. PICK g \in Limiters : /\ g = [l EXCEPT !.used = l.used + 1]
                               /\ g.used = l.used + 1 /\ g.burst = l.burst
    <3>1. l.used + 1 \in Nat BY <2>4
    <3> HIDE DEF l
    <3>2. QED BY <2>3, <3>1, CellsSet
  <2>6. limiter'[k][m] = g
    <3>1. limiter' = [limiter EXCEPT ![n] = [limiter[n] EXCEPT ![m] = g]] BY <1>3, <2>5
    <3>2. g \in Limiters /\ m \in Conns BY <1>1, <2>5
    <3> HIDE DEF m, n
    <3>3. limiter'[n][m] = g BY <1>2, <2>2, <3>1, <3>2, OneLimiter
    <3>4. QED BY <1>7, <3>3
  <2>7. level'[k] = level[k] + 1 BY <1>2, <1>3, <1>7, TypeParts DEF LimitTyped
  <2>8. level[k] = l.used BY <1>4, <1>7, <2>1 DEF CountsAll
  <2>9. level'[k] + PerSec * idle'[k] <= g.burst
    <3>1. PerSec * idle'[k] = 0 BY <1>3, <2>1, Product
    <3> HIDE DEF l
    <3>2. QED BY <2>4, <2>5, <2>7, <2>8, <3>1
  <2>10. \E i \in DOMAIN routes : routes[i].path = k[1] /\ routes[i].burst = g.burst
    BY <1>4, <1>7, <2>1, <2>5 DEF CountsAll
  <2>11. CountsAll(k)'
    <3>1. cache'[k] = m /\ m # NoConn BY <1>3, <2>1
    <3>2. level'[k] = g.used BY <2>5, <2>7, <2>8
    <3>3. \E i \in DOMAIN routes' : routes'[i].path = k[1] /\ routes'[i].burst = g.burst
      BY <1>3, <2>10
    <3> HIDE DEF m
    <3>4. QED BY <2>6, <2>9, <3>1, <3>2, <3>3 DEF CountsAll
  <2>12. QED BY <1>5, <2>11
<1>8. QED BY <1>6, <1>7

LEMMA SecondKeeps ==
  ASSUME TypeOK, LimitInv, EvictedWhenFull, Second
  PROVE  LimitInv'
<1> SUFFICES ASSUME NEW k \in LimitKeys, k \notin raced PROVE HoldsCached(k)' /\ CountsAll(k)'
  BY DEF LimitInv, Second, LimitKeys
<1>1. /\ UNCHANGED <<routes, pc>>
      /\ cache'[k] = IF Expires(k) THEN NoConn ELSE cache[k]
      /\ idle'[k] = IF cache[k] = NoConn \/ Expires(k) THEN 0 ELSE idle[k] + 1
      /\ level'[k] = Leaked(level[k])
  BY DEF Second, connVars
<1>2. CountsAll(k) BY DEF LimitInv
<1>3. idle[k] \in Nat /\ level[k] \in Nat BY TypeParts DEF LimitTyped
<1>4. HoldsCached(k)' BY <1>1 DEF Second, HoldsCached
<1>5. CASE cache[k] = NoConn
  <2>1. level'[k] = 0 BY <1>1, <1>2, <1>5 DEF CountsAll, Leaked
  <2>2. cache'[k] = NoConn BY <1>1, <1>5
  <2>3. QED BY <1>4, <2>1, <2>2 DEF CountsAll
<1>6. CASE cache[k] # NoConn
  <2> DEFINE m == cache[k]
             l == limiter[k][m]
  <2>1. m \in Conns BY <1>6, TypeParts DEF LimitTyped
  <2>2. l \in Limiters BY <2>1, TypeParts DEF LimitTyped, Limiters
  <2>3. l.used \in Nat /\ l.burst \in Nat BY <2>2, CellsSet
  <2>4. /\ level[k] = l.used
        /\ level[k] = 0 \/ level[k] + PerSec * idle[k] <= l.burst
        /\ \E i \in DOMAIN routes : routes[i].path = k[1] /\ routes[i].burst = l.burst
    BY <1>2, <1>6 DEF CountsAll
  <2>5. l.burst <= PerSec * IdleSecs BY <2>4, TypeParts DEF EvictedWhenFull
  <2>6. /\ PerSec * idle[k] \in Nat /\ PerSec * IdleSecs \in Nat
        /\ PerSec * (idle[k] + 1) = PerSec * idle[k] + PerSec
        /\ IdleSecs <= idle[k] + 1 => PerSec * IdleSecs <= PerSec * (idle[k] + 1)
    <3>1. idle[k] + 1 \in Nat /\ IdleSecs \in Nat BY <1>3
    <3>2. QED BY <1>3, <3>1, Product
  <2>7. CASE Expires(k)
    <3>1. IdleSecs <= idle[k] + 1 BY <1>3, <2>7 DEF Expires
    <3>2. level[k] <= PerSec
      <4> HIDE DEF l
      <4>1. level[k] \in Nat /\ PerSec \in Nat BY <1>3, <2>3, <2>4
      <4>2. CASE level[k] = 0 BY <4>1, <4>2
      <4>3. CASE level[k] + PerSec * idle[k] <= l.burst
        <5>1. PerSec * IdleSecs <= PerSec * idle[k] + PerSec BY <2>6, <3>1
        <5>2. QED BY <2>3, <2>5, <2>6, <4>1, <4>3, <5>1, LeakedAll
      <4>4. QED BY <2>4, <4>2, <4>3
    <3>3. level'[k] = 0 BY <1>1, <1>3, <3>2 DEF Leaked
    <3>4. cache'[k] = NoConn BY <1>1, <2>7
    <3>5. QED BY <1>4, <3>3, <3>4 DEF CountsAll
  <2>8. CASE ~Expires(k)
    <3>1. cache'[k] = m /\ idle'[k] = idle[k] + 1 BY <1>1, <1>6, <2>8
    <3>2. limiter'[k][m] = [l EXCEPT !.used = Leaked(l.used)] BY <2>1, <2>8 DEF Second
    <3>3. Leaked(l.used) \in Nat BY <2>3 DEF Leaked
    <3>4. limiter'[k][m].used = Leaked(l.used) /\ limiter'[k][m].burst = l.burst
      <4> HIDE DEF l
      <4>1. QED BY <2>2, <3>2, <3>3, CellsSet
    <3>5. level'[k] = limiter'[k][m].used BY <1>1, <2>4, <3>4
    <3>6. level'[k] = 0 \/ level'[k] + PerSec * idle'[k] <= l.burst
      <4> HIDE DEF l
      <4>1. CASE level[k] <= PerSec BY <1>1, <1>3, <4>1 DEF Leaked
      <4>2. CASE level[k] > PerSec
        <5>1. level'[k] = level[k] - PerSec BY <1>1, <4>2 DEF Leaked
        <5>2. PerSec * idle'[k] = PerSec * idle[k] + PerSec BY <2>6, <3>1
        <5>3. level[k] + PerSec * idle[k] <= l.burst BY <1>3, <2>4, <4>2
        <5>4. QED BY <1>3, <2>3, <2>6, <5>1, <5>2, <5>3
      <4>3. QED BY <1>3, <4>1, <4>2
    <3>7. \E i \in DOMAIN routes' : routes'[i].path = k[1] /\ routes'[i].burst = l.burst
      BY <1>1, <2>4
    <3>8. CountsAll(k)'
      <4>1. m # NoConn BY <1>6
      <4> HIDE DEF l, m
      <4>2. QED BY <3>1, <3>4, <3>5, <3>6, <3>7, <4>1 DEF CountsAll
    <3>9. QED BY <1>4, <3>8
  <2>9. QED BY <2>7, <2>8
<1>7. QED BY <1>5, <1>6

(* The other steps touch no limiter, and nobody who holds one. *)
LEMMA OthersKeep ==
  ASSUME TypeOK, LimitInv, NEW c \in Conns,
         \/ Accept(c) \/ SendRequest(c) \/ PassThrough(c) \/ Strip(c) \/ Identify(c)
         \/ Anonymous(c)
  PROVE  LimitInv'
<1>1. UNCHANGED <<routes, held, route, limitVars>>
  BY DEF Accept, SendRequest, PassThrough, Strip, Identify, Anonymous, Forward
<1>2. /\ \E p \in {"idle", "body", "upstream"} : pc' = [pc EXCEPT ![c] = p]
      /\ req' = req \/ \E q : req' = [req EXCEPT ![c] = q]
  BY DEF Accept, SendRequest, PassThrough, Strip, Identify, Anonymous, Forward
<1>3. ASSUME NEW x \in Conns, pc'[x] = "limit"
      PROVE  pc[x] = "limit" /\ req'[x] = req[x]
  BY <1>2, <1>3, TypeParts DEF ConnTyped
<1>4. QED BY <1>1, <1>3, LimitInvKept

LEMMA ConnKeeps == ASSUME TypeOK, LimitInv, NEW c \in Conns, Serve(c) \/ Peer(c) PROVE LimitInv'
<1>1. CASE Lookup(c) BY <1>1, LookupKeeps
<1>2. CASE Insert(c) BY <1>2, InsertKeeps
<1>3. CASE Allowed(c) BY <1>3, AllowedKeeps
<1>4. CASE \/ Close(c) \/ Health(c) \/ RouteNotFound(c) \/ RateLimited(c)
           \/ UpstreamFails(c) \/ Replied(c) \/ AuthFailed(c)
  <2>1. (EndRequest(c, "none") \/ EndRequest(c, "idle")) /\ UNCHANGED limitVars
    BY <1>4 DEF Close, Health, RouteNotFound, RateLimited, UpstreamFails, Replied, AuthFailed
  <2>2. QED BY <2>1, EndKeeps
<1>5. QED BY <1>1, <1>2, <1>3, <1>4, OthersKeep DEF Serve, Peer

LEMMA LimitInvNext == TypeOK /\ LimitInv /\ EvictedWhenFull /\ [Next]_vars => LimitInv'
<1> SUFFICES ASSUME TypeOK, LimitInv, EvictedWhenFull, [Next]_vars PROVE LimitInv'
  OBVIOUS
<1>1. CASE \E c \in Conns : Serve(c) \/ Peer(c) BY <1>1, ConnKeeps
<1>2. CASE Second BY <1>2, SecondKeeps
<1>3. CASE DrainTimeout \/ AcceptFails
  <2>1. UNCHANGED <<routes, limitVars>> /\ pc' = [c \in Conns |-> "none"]
    BY <1>3 DEF DrainTimeout, AcceptFails, Cut
  <2>2. \A c \in Conns : pc'[c] # "limit" BY <2>1
  <2>3. QED BY <2>1, <2>2, LimitInvKept
<1>4. CASE Rotate \/ Fetching \/ Interrupt \/ Drained \/ UNCHANGED vars
  <2>1. UNCHANGED <<routes, limitVars, connVars>>
    BY <1>4 DEF Rotate, Fetching, FetchBegin, KeyServed, FetchFails, FetchStore, Interrupt,
                Drained, vars
  <2>2. QED BY <2>1, LimitInvKept DEF connVars
<1>5. QED BY <1>1, <1>2, <1>3, <1>4 DEF Next

LEMMA LimitInvGives == TypeOK /\ LimitInv => AllowanceHeld
<1> SUFFICES ASSUME TypeOK, LimitInv, NEW k \in LimitKeys, k \notin raced, level[k] > 0
             PROVE  \E i \in DOMAIN routes :
                      routes[i].path = k[1] /\ level[k] <= routes[i].burst
  BY DEF AllowanceHeld
<1>1. cache[k] # NoConn BY TypeParts DEF LimitInv, CountsAll, LimitTyped
<1>2. PICK i \in DOMAIN routes :
        routes[i].path = k[1] /\ routes[i].burst = limiter[k][cache[k]].burst
  BY <1>1 DEF LimitInv, CountsAll
<1>3. level[k] + PerSec * idle[k] <= routes[i].burst
  BY <1>1, <1>2, TypeParts DEF LimitInv, CountsAll, LimitTyped
<1>4. PerSec * idle[k] \in Nat /\ level[k] \in Nat /\ routes[i].burst \in Nat
  <2>1. idle[k] \in Nat /\ level[k] \in Nat BY TypeParts DEF LimitTyped
  <2>2. PerSec * idle[k] \in Nat BY <2>1, Product
  <2>3. routes \in Seq(RouteConfig) BY TypeParts
  <2>4. routes[i] \in RouteConfig BY <2>3
  <2>5. routes[i].burst \in Nat BY <2>4 DEF RouteConfig
  <2>6. QED BY <2>1, <2>2, <2>5
<1>5. level[k] <= routes[i].burst BY <1>3, <1>4
<1>6. QED BY <1>2, <1>5

(* For any number of clients, connections and routes: a client gets no more *)
(* than its burst, and what comes back while time passes, unless two of its *)
(* first requests met.  The limiter cache may forget an idle client because *)
(* by then its limiter is full (hypothesis; main.rs keeps entries 300 s).   *)
THEOREM AllowanceKept ==
  ASSUME EvictedWhenFull
  PROVE  Spec => []AllowanceHeld
<1>1. Init => LimitInv BY DEF Init, LimitInv, HoldsCached, CountsAll
<1>2. TypeOK /\ LimitInv /\ [Next]_vars => LimitInv' BY LimitInvNext
<1>3. QED BY <1>1, <1>2, TypeCorrect, LimitInvGives, PTL DEF Spec

-----------------------------------------------------------------------------
(* Identities                                                              *)

Forwarded == {"upstream"}

(* The key in the cache is never replaced by an older one, so a token that *)
(* verified was signed by a key the gateway has, or had.                   *)
IdentityInv ==
  /\ fetch = "replied" => cached <= reply
  /\ \A c \in Conns : pc[c] \in Forwarded => Identified(c)

LEMMA IdentityKept ==
  ASSUME IdentityInv, UNCHANGED <<routes, keyVars>>,
         \A c \in Conns : pc'[c] \in Forwarded =>
           /\ pc[c] \in Forwarded
           /\ route'[c] = route[c] /\ user'[c] = user[c] /\ req'[c] = req[c]
  PROVE  IdentityInv'
<1>1. (fetch = "replied" => cached <= reply)' BY DEF IdentityInv, keyVars
<1>2. ASSUME NEW c \in Conns, pc'[c] \in Forwarded PROVE Identified(c)'
  <2>1. Identified(c) BY <1>2 DEF IdentityInv
  <2>2. /\ route'[c] = route[c] /\ user'[c] = user[c] /\ req'[c] = req[c]
        /\ routes' = routes /\ cached' = cached
    BY <1>2 DEF keyVars
  <2>3. QED BY <2>1, <2>2 DEF Identified, Level
<1>3. QED BY <1>1, <1>2 DEF IdentityInv

(* A connection whose request ends, or has not come to auth. *)
LEMMA OthersIdentified ==
  ASSUME TypeOK, IdentityInv, NEW c \in Conns,
         UNCHANGED <<routes, keyVars>>,
         NEW p \in {"none", "idle", "body", "limit", "auth"},
         pc' = [pc EXCEPT ![c] = p],
         \A x \in Conns \ {c} : route'[x] = route[x] /\ user'[x] = user[x] /\ req'[x] = req[x]
  PROVE  IdentityInv'
<1>1. ASSUME NEW x \in Conns, pc'[x] \in Forwarded PROVE x # c /\ pc[x] \in Forwarded
  BY <1>1, TypeParts DEF ConnTyped, Forwarded
<1>2. QED BY <1>1, IdentityKept

LEMMA EndIdentified ==
  ASSUME TypeOK, IdentityInv, NEW c \in Conns, NEW next \in {"none", "idle"},
         EndRequest(c, next)
  PROVE  IdentityInv'
<1>1. /\ UNCHANGED <<routes, keyVars>>
      /\ pc' = [pc EXCEPT ![c] = next]
  BY DEF EndRequest
<1>2. \A x \in Conns \ {c} : route'[x] = route[x] /\ user'[x] = user[x] /\ req'[x] = req[x]
  BY TypeParts DEF EndRequest, ConnTyped
<1>3. QED BY <1>1, <1>2, OthersIdentified

LEMMA BeforeAuthIdentified ==
  ASSUME TypeOK, IdentityInv, NEW c \in Conns,
         Accept(c) \/ SendRequest(c) \/ Lookup(c) \/ Insert(c) \/ Allowed(c)
  PROVE  IdentityInv'
<1>1. ConnTyped BY TypeParts
<1>2. UNCHANGED <<routes, keyVars>> BY DEF Accept, SendRequest, Lookup, Insert, Allowed
<1>3. \A x \in Conns \ {c} : route'[x] = route[x] /\ user'[x] = user[x] /\ req'[x] = req[x]
  BY <1>1 DEF Accept, SendRequest, Lookup, Insert, Allowed, ConnTyped
<1>4. CASE Insert(c)
  <2>1. pc[c] = "limit" /\ pc' = pc BY <1>4 DEF Insert
  <2>2. pc' = [pc EXCEPT ![c] = "limit"] BY <1>1, <2>1 DEF ConnTyped
  <2>3. QED BY <1>2, <1>3, <2>2, OthersIdentified
<1>5. CASE Accept(c) \/ SendRequest(c) \/ Lookup(c) \/ Allowed(c)
  <2>1. \E p \in {"idle", "body", "limit", "auth"} : pc' = [pc EXCEPT ![c] = p]
    BY <1>5 DEF Accept, SendRequest, Lookup, Allowed
  <2>2. QED BY <1>2, <1>3, <2>1, OthersIdentified
<1>6. QED BY <1>4, <1>5

(* What Forward has to be given for the request to be identified. *)
LEMMA ForwardIdentified ==
  ASSUME TypeOK, IdentityInv, NEW c \in Conns, pc[c] = "auth", NEW id, NEW t,
         Forward(c, id, t),
         Level(c) = "required" => id \notin {NoToken, Claimed},
         id \notin {NoToken, Claimed} =>
           Level(c) \in {"required", "optional"} /\ id = t /\ id \in 0 .. cached,
         Level(c) = "bypass_and_strip" => t = NoToken
  PROVE  IdentityInv'
<1>1. ConnTyped BY TypeParts
<1>2. UNCHANGED <<routes, route, keyVars>> BY DEF Forward
<1>3. (fetch = "replied" => cached <= reply)' BY <1>2 DEF IdentityInv, keyVars
<1>4. ASSUME NEW x \in Conns, pc'[x] \in Forwarded PROVE Identified(x)'
  <2>1. CASE x = c
    <3>1. user'[x] = id /\ req'[x].token = t
      <4>1. req[c] \in Requests BY RequestTyped
      <4>2. [req[c] EXCEPT !.token = t].token = t BY <4>1 DEF Requests
      <4>3. req'[c] = [req[c] EXCEPT !.token = t] BY <1>1 DEF Forward, ConnTyped
      <4>4. user'[c] = id BY <1>1 DEF Forward, ConnTyped
      <4>5. QED BY <2>1, <4>2, <4>3, <4>4
    <3>2. Level(x)' = Level(c) /\ cached' = cached BY <1>2, <2>1 DEF Level, keyVars
    <3>3. QED BY <3>1, <3>2 DEF Identified
  <2>2. CASE x # c
    <3>1. /\ pc'[x] = pc[x] /\ user'[x] = user[x] /\ req'[x] = req[x]
      BY <1>1, <2>2 DEF Forward, ConnTyped
    <3>2. Identified(x) BY <1>4, <3>1 DEF IdentityInv
    <3>3. QED BY <1>2, <3>1, <3>2 DEF Identified, Level, keyVars
  <2>3. QED BY <2>1, <2>2
<1>5. QED BY <1>3, <1>4 DEF IdentityInv

LEMMA AuthIdentified ==
  ASSUME TypeOK, IdentityInv, NEW c \in Conns,
         PassThrough(c) \/ Strip(c) \/ Identify(c) \/ Anonymous(c)
  PROVE  IdentityInv'
<1>1. pc[c] = "auth" BY DEF PassThrough, Strip, Identify, Anonymous, Authenticating
<1>7. user[c] \in {NoToken, Claimed} BY <1>1, TypeParts DEF ConnTyped, ConnOK
<1>2. CASE PassThrough(c)
  BY <1>1, <1>2, <1>7, ForwardIdentified DEF PassThrough, Authenticating
<1>3. CASE Strip(c)
  BY <1>1, <1>3, <1>7, ForwardIdentified DEF Strip, Authenticating
<1>4. CASE Identify(c)
  <2>1. cached \in Nat BY TypeParts DEF KeyTypes
  <2>2. req[c].token = cached /\ Level(c) \in {"required", "optional"}
    BY <1>4 DEF Identify, Verified, Authenticating
  <2>3. req[c].token \notin {NoToken, Claimed} /\ req[c].token \in 0 .. cached BY <2>1, <2>2
  <2>4. Forward(c, req[c].token, req[c].token) BY <1>4 DEF Identify
  <2>5. QED BY <1>1, <2>2, <2>3, <2>4, ForwardIdentified
<1>5. CASE Anonymous(c)
  BY <1>1, <1>5, <1>7, ForwardIdentified DEF Anonymous, Authenticating
<1>6. QED BY <1>2, <1>3, <1>4, <1>5

LEMMA KeysIdentified ==
  ASSUME TypeOK, IdentityInv, Rotate \/ Fetching
  PROVE  IdentityInv'
<1>1. KeyTypes BY TypeParts
<1>2. UNCHANGED <<routes, connVars>>
  BY DEF Rotate, Fetching, FetchBegin, KeyServed, FetchFails, FetchStore
<1>3. cached <= cached' /\ cached \in Nat /\ cached' \in Nat
      /\ (fetch' = "replied" => cached' <= reply')
  <2>1. CASE Rotate BY <1>1, <2>1 DEF Rotate, IdentityInv, KeyTypes
  <2>2. CASE FetchBegin BY <1>1, <2>2 DEF FetchBegin, IdentityInv, KeyTypes
  <2>3. CASE KeyServed BY <1>1, <2>3 DEF KeyServed, IdentityInv, KeyTypes
  <2>4. CASE FetchFails BY <1>1, <2>4 DEF FetchFails, IdentityInv, KeyTypes
  <2>5. CASE FetchStore BY <1>1, <2>5 DEF FetchStore, IdentityInv, KeyTypes
  <2>6. QED BY <2>1, <2>2, <2>3, <2>4, <2>5 DEF Fetching
<1>4. ASSUME NEW c \in Conns, pc'[c] \in Forwarded PROVE Identified(c)'
  <2>1. Identified(c) BY <1>2, <1>4 DEF IdentityInv, connVars
  <2>2. user[c] \in 0 .. cached => user[c] \in 0 .. cached' BY <1>3
  <2>3. QED BY <1>2, <2>1, <2>2 DEF Identified, Level, connVars
<1>5. QED BY <1>3, <1>4 DEF IdentityInv

LEMMA IdentityNext == TypeOK /\ IdentityInv /\ [Next]_vars => IdentityInv'
<1> SUFFICES ASSUME TypeOK, IdentityInv, [Next]_vars PROVE IdentityInv'
  OBVIOUS
<1>1. ASSUME NEW c \in Conns, Serve(c) \/ Peer(c) PROVE IdentityInv'
  <2>1. CASE \/ Close(c) \/ Health(c) \/ RouteNotFound(c) \/ RateLimited(c)
             \/ UpstreamFails(c) \/ Replied(c) \/ AuthFailed(c)
    <3>1. EndRequest(c, "none") \/ EndRequest(c, "idle")
      BY <2>1 DEF Close, Health, RouteNotFound, RateLimited, UpstreamFails, Replied, AuthFailed
    <3>2. QED BY <3>1, EndIdentified
  <2>2. QED BY <1>1, <2>1, BeforeAuthIdentified, AuthIdentified
        DEF Serve, Peer
<1>2. CASE Rotate \/ Fetching BY <1>2, KeysIdentified
<1>3. CASE DrainTimeout \/ AcceptFails
  <2>1. UNCHANGED <<routes, keyVars>> /\ pc' = [c \in Conns |-> "none"]
    BY <1>3 DEF DrainTimeout, AcceptFails, Cut
  <2>2. \A c \in Conns : pc'[c] \notin Forwarded BY <2>1 DEF Forwarded
  <2>3. QED BY <2>1, <2>2, IdentityKept
<1>4. CASE Second \/ Interrupt \/ Drained \/ UNCHANGED vars
  <2>1. UNCHANGED <<routes, keyVars, connVars>>
    BY <1>4 DEF Second, Interrupt, Drained, vars
  <2>2. QED BY <2>1, IdentityKept DEF connVars
<1>5. QED BY <1>1, <1>2, <1>3, <1>4 DEF Next

-----------------------------------------------------------------------------
(* Routes.  Facts about the fold follow from a least counterexample.       *)

LEMMA Least ==
  ASSUME NEW S \in SUBSET Nat, S # {}
  PROVE  \E m \in S : \A n \in S : m <= n
<1>1. \E m \in S : \A n \in S : <<n, m>> \notin OpToRel(<, Nat)
  BY NatLessThanWellFounded, WFMin
<1>2. PICK m \in S : \A n \in S : <<n, m>> \notin OpToRel(<, Nat) BY <1>1
<1>3. \A n \in S : ~(n < m) BY <1>2 DEF OpToRel
<1>4. QED BY <1>3

Upto(path, m, f) ==
  f = [i \in 0 .. m |-> IF i = 0 THEN 0 ELSE Better(path, f[i - 1], i)]

(* One more route extends the fold over those before it. *)
LEMMA UptoNext ==
  ASSUME NEW path, NEW m \in Nat \ {0}, NEW f, Upto(path, m - 1, f)
  PROVE  \E g : Upto(path, m, g)
<1> DEFINE g == [i \in 0 .. m |-> IF i = m THEN Better(path, f[m - 1], m) ELSE f[i]]
<1>1. ASSUME NEW i \in 0 .. m
      PROVE  g[i] = IF i = 0 THEN 0 ELSE Better(path, g[i - 1], i)
  <2>1. CASE i = m
    <3>1. m - 1 \in 0 .. m /\ m - 1 # m /\ i # 0 BY <2>1
    <3>2. g[i] = Better(path, f[m - 1], m) /\ g[m - 1] = f[m - 1] BY <2>1, <3>1
    <3>3. QED BY <2>1, <3>1, <3>2
  <2>2. CASE i < m
    <3>1. i \in 0 .. m - 1 /\ (i # 0 => i - 1 \in 0 .. m /\ i - 1 # m) BY <2>2
    <3>2. g[i] = f[i] /\ (i # 0 => g[i - 1] = f[i - 1]) BY <2>2, <3>1
    <3>3. f[i] = IF i = 0 THEN 0 ELSE Better(path, f[i - 1], i) BY <3>1 DEF Upto
    <3>4. QED BY <3>2, <3>3
  <2>3. QED BY <2>1, <2>2
<1>2. g = [i \in 0 .. m |-> g[i]] OBVIOUS
<1> HIDE DEF g
<1>3. Upto(path, m, g) BY <1>1, <1>2 DEF Upto
<1>4. QED BY <1>3

LEMMA UptoExists ==
  ASSUME NEW path, NEW m \in Nat
  PROVE  \E f : Upto(path, m, f)
<1> DEFINE Bad == {n \in Nat : ~ \E f : Upto(path, n, f)}
<1>1. Bad \in SUBSET Nat OBVIOUS
<1>2. \A n \in Nat : n \in Bad <=> ~ \E f : Upto(path, n, f) OBVIOUS
<1>3. Upto(path, 0, [i \in 0 .. 0 |-> 0]) BY DEF Upto
<1> HIDE DEF Bad
<1>4. ASSUME Bad # {} PROVE FALSE
  <2>1. PICK n \in Bad : \A k \in Bad : n <= k BY <1>1, <1>4, Least
  <2>2. n \in Nat \ {0} BY <1>1, <1>2, <1>3, <2>1
  <2>3. n - 1 \in Nat /\ n - 1 \notin Bad BY <2>1, <2>2
  <2>4. PICK f : Upto(path, n - 1, f) BY <1>2, <2>3
  <2>5. \E g : Upto(path, n, g) BY <2>2, <2>4, UptoNext
  <2>6. QED BY <1>2, <2>1, <2>2, <2>5
<1>5. QED BY <1>2, <1>4

(* MatchRoute is the last value of the fold. *)
LEMMA MatchRouteIs ==
  ASSUME NEW path, Len(routes) \in Nat
  PROVE  \E f : Upto(path, Len(routes), f) /\ MatchRoute(path) = f[Len(routes)]
<1> DEFINE f == CHOOSE best : best = [i \in 0 .. Len(routes) |->
                  IF i = 0 THEN 0 ELSE Better(path, best[i - 1], i)]
<1>1. Upto(path, Len(routes), f) BY UptoExists DEF Upto
<1>2. MatchRoute(path) = f[Len(routes)] BY DEF MatchRoute
<1> HIDE DEF f
<1>3. QED BY <1>1, <1>2

(* The order on routes is linear: one that beats the best is beaten by none *)
(* that the best was not beaten by.                                         *)
LEMMA BeatsOrder ==
  ASSUME NEW r, NEW s, NEW t,
         Len(r.path) \in Nat, Len(s.path) \in Nat, Len(t.path) \in Nat
  PROVE  /\ ~Beats(r, r)
         /\ Beats(r, s) /\ ~Beats(t, s) => ~Beats(t, r)
         /\ ~Beats(t, s) => \/ Len(t.path) < Len(s.path)
                            \/ Len(t.path) = Len(s.path) /\ (t.exact => s.exact)
BY DEF Beats

(* b is a best route for path among the first i. *)
BestOf(path, i, b) ==
  /\ b \in 0 .. i
  /\ b = 0 => \A j \in 1 .. i : ~Matches(routes[j], path)
  /\ b # 0 => /\ Matches(routes[b], path)
              /\ \A j \in 1 .. i : Matches(routes[j], path) => ~Beats(routes[j], routes[b])

LEMMA BetterBest ==
  ASSUME NEW path, NEW i \in 1 .. Len(routes), Len(routes) \in Nat,
         \A j \in 1 .. Len(routes) : Len(routes[j].path) \in Nat,
         NEW b, BestOf(path, i - 1, b)
  PROVE  BestOf(path, i, Better(path, b, i))
<1>1. b \in 0 .. i - 1 BY DEF BestOf
<1>2. \A j \in 1 .. i : j = i \/ j \in 1 .. i - 1 OBVIOUS
<1>3. CASE ~Matches(routes[i], path)
  <2>1. Better(path, b, i) = b /\ b \in 0 .. i BY <1>1, <1>3 DEF Better
  <2>2. QED BY <1>2, <1>3, <2>1 DEF BestOf
<1>4. CASE Matches(routes[i], path) /\ b = 0
  <2>1. Better(path, b, i) = i /\ i \in 0 .. i /\ i # 0 BY <1>4 DEF Better
  <2>2. \A j \in 1 .. i - 1 : ~Matches(routes[j], path) BY <1>4 DEF BestOf
  <2>3. ~Beats(routes[i], routes[i]) BY BeatsOrder
  <2>4. QED BY <1>2, <1>4, <2>1, <2>2, <2>3 DEF BestOf
<1>5. CASE Matches(routes[i], path) /\ b # 0 /\ Beats(routes[i], routes[b])
  <2>1. Better(path, b, i) = i /\ i \in 0 .. i /\ i # 0 BY <1>5 DEF Better
  <2>2. ASSUME NEW j \in 1 .. i, Matches(routes[j], path)
        PROVE  ~Beats(routes[j], routes[i])
    <3>1. CASE j = i BY <3>1, BeatsOrder
    <3>2. CASE j \in 1 .. i - 1
      <4>1. ~Beats(routes[j], routes[b]) BY <1>5, <2>2, <3>2 DEF BestOf
      <4>2. b \in 1 .. Len(routes) /\ j \in 1 .. Len(routes) BY <1>1, <1>5, <3>2
      <4>3. QED BY <1>5, <4>1, <4>2, BeatsOrder
    <3>3. QED BY <1>2, <3>1, <3>2
  <2>3. QED BY <1>5, <2>1, <2>2 DEF BestOf
<1>6. CASE Matches(routes[i], path) /\ b # 0 /\ ~Beats(routes[i], routes[b])
  <2>1. Better(path, b, i) = b /\ b \in 0 .. i BY <1>1, <1>6 DEF Better
  <2>2. \A j \in 1 .. i - 1 : Matches(routes[j], path) => ~Beats(routes[j], routes[b])
    BY <1>6 DEF BestOf
  <2>3. Matches(routes[b], path) BY <1>6 DEF BestOf
  <2>4. QED BY <1>2, <1>6, <2>1, <2>2, <2>3 DEF BestOf
<1>7. QED BY <1>3, <1>4, <1>5, <1>6

LEMMA FoldBest ==
  ASSUME NEW path, NEW f, Len(routes) \in Nat,
         \A j \in 1 .. Len(routes) : Len(routes[j].path) \in Nat,
         Upto(path, Len(routes), f)
  PROVE  BestOf(path, Len(routes), f[Len(routes)])
<1> DEFINE Bad == {i \in 0 .. Len(routes) : ~BestOf(path, i, f[i])}
<1>1. Bad \in SUBSET Nat OBVIOUS
<1>2. \A i \in 0 .. Len(routes) : i \in Bad <=> ~BestOf(path, i, f[i]) OBVIOUS
<1>3. Bad \subseteq 0 .. Len(routes) OBVIOUS
<1> HIDE DEF Bad
<1>4. \A i \in 0 .. Len(routes) :
        f[i] = IF i = 0 THEN 0 ELSE Better(path, f[i - 1], i)
  BY DEF Upto
<1>5. BestOf(path, 0, f[0]) BY <1>4 DEF BestOf
<1>6. ASSUME Bad # {} PROVE FALSE
  <2>1. PICK i \in Bad : \A k \in Bad : i <= k BY <1>1, <1>6, Least
  <2>2. i \in 0 .. Len(routes) /\ i # 0 BY <1>2, <1>3, <1>5, <2>1
  <2>3. i \in 1 .. Len(routes) /\ i - 1 \in 0 .. Len(routes) BY <2>2
  <2>4. i - 1 \notin Bad BY <2>1, <2>3
  <2>5. BestOf(path, i - 1, f[i - 1]) BY <1>2, <2>3, <2>4
  <2>6. BestOf(path, i, Better(path, f[i - 1], i)) BY <2>3, <2>5, BetterBest
  <2>7. QED BY <1>2, <1>4, <2>1, <2>2, <2>6
<1>7. Len(routes) \in 0 .. Len(routes) OBVIOUS
<1>8. QED BY <1>2, <1>6, <1>7

(* match_route (router.rs): of the routes that match, it returns a longest  *)
(* one, an exact one before a prefix, and None only if there is none.       *)
THEOREM MatchRouteBest ==
  ASSUME routes \in Tables, NEW path
  PROVE  BestOf(path, Len(routes), MatchRoute(path))
<1>1. routes \in Seq(RouteConfig) OBVIOUS
<1>2. Len(routes) \in Nat BY <1>1
<1>3. ASSUME NEW j \in 1 .. Len(routes) PROVE Len(routes[j].path) \in Nat
  <2>1. routes[j] \in RouteConfig BY <1>1
  <2>2. routes[j].path \in Seq(STRING) BY <2>1 DEF RouteConfig
  <2>3. QED BY <2>2
<1>4. PICK f : Upto(path, Len(routes), f) /\ MatchRoute(path) = f[Len(routes)]
  BY <1>2, MatchRouteIs
<1>5. QED BY <1>2, <1>3, <1>4, FoldBest

(* A prefix of a sequence, element by element. *)
LEMMA PrefixIs ==
  ASSUME NEW S, NEW p \in Seq(S), NEW q \in Seq(S)
  PROVE  IsPrefix(p, q) <=> Len(p) <= Len(q) /\ \A i \in 1 .. Len(p) : p[i] = q[i]
<1>1. CASE Len(p) <= Len(q)
  <2>1. SubSeq(p, 1, Len(p)) = [i \in 1 .. Len(p) |-> p[i]] OBVIOUS
  <2>2. SubSeq(q, 1, Len(p)) = [i \in 1 .. Len(p) |-> q[i]] BY <1>1
  <2>3. IsPrefix(p, q) <=> [i \in 1 .. Len(p) |-> p[i]] = [i \in 1 .. Len(p) |-> q[i]]
    BY <1>1, <2>1, <2>2 DEF IsPrefix
  <2>4. ([i \in 1 .. Len(p) |-> p[i]] = [i \in 1 .. Len(p) |-> q[i]])
          <=> \A i \in 1 .. Len(p) : p[i] = q[i]
    <3>1. ASSUME [i \in 1 .. Len(p) |-> p[i]] = [i \in 1 .. Len(p) |-> q[i]],
                 NEW i \in 1 .. Len(p)
          PROVE  p[i] = q[i]
      <4>1. [j \in 1 .. Len(p) |-> p[j]][i] = [j \in 1 .. Len(p) |-> q[j]][i] BY <3>1
      <4>2. QED BY <4>1
    <3>2. QED BY <3>1
  <2>5. QED BY <1>1, <2>3, <2>4
<1>2. CASE ~(Len(p) <= Len(q)) BY <1>2 DEF IsPrefix
<1>3. QED BY <1>1, <1>2

LEMMA AppendIs ==
  ASSUME NEW S, NEW p \in Seq(S), NEW e
  PROVE  /\ Append(p, e) \in Seq(S \cup {e}) /\ Len(Append(p, e)) = Len(p) + 1
         /\ Append(p, e)[Len(p) + 1] = e
         /\ \A i \in 1 .. Len(p) : Append(p, e)[i] = p[i]
<1> DEFINE T == S \cup {e}
<1>1. p \in Seq(T) /\ e \in T
  <2>1. \A i \in 1 .. Len(p) : p[i] \in T OBVIOUS
  <2>2. p = [i \in 1 .. Len(p) |-> p[i]] /\ Len(p) \in Nat OBVIOUS
  <2>3. QED BY <2>1, <2>2
<1> HIDE DEF T
<1>2. Append(p, e) \in Seq(T) /\ Len(Append(p, e)) = Len(p) + 1 BY <1>1
<1>3. Append(p, e)[Len(p) + 1] = e BY <1>1
<1>4. \A i \in 1 .. Len(p) : Append(p, e)[i] = p[i] BY <1>1
<1>5. QED BY <1>2, <1>3, <1>4 DEF T

(* The router compares a prefix and the character behind it: that is to    *)
(* compare segments.                                                       *)
LEMMA MatchesMeant ==
  ASSUME NEW r \in RouteConfig, NEW path \in Seq(STRING)
  PROVE  Matches(r, path) <=> Meant(r, path)
<1> DEFINE p == r.path
<1>1. p \in Seq(STRING) BY DEF RouteConfig
<1> HIDE DEF p
<1> DEFINE ps == Append(p, "/")
<1> DEFINE qs == Append(path, "/")
<1> DEFINE S == STRING \cup {"/"}
<1>2. /\ ps \in Seq(S) /\ Len(ps) = Len(p) + 1 /\ ps[Len(p) + 1] = "/"
      /\ \A i \in 1 .. Len(p) : ps[i] = p[i]
  BY <1>1, AppendIs
<1>3. /\ qs \in Seq(S) /\ Len(qs) = Len(path) + 1 /\ qs[Len(path) + 1] = "/"
      /\ \A i \in 1 .. Len(path) : qs[i] = path[i]
  BY AppendIs
<1>4. Len(p) \in Nat /\ Len(path) \in Nat BY <1>1
<1> HIDE DEF ps, qs, S
<1>5. IsPrefix(p, path) <=> Len(p) <= Len(path) /\ \A i \in 1 .. Len(p) : p[i] = path[i]
  BY <1>1, PrefixIs
<1>6. IsPrefix(ps, qs) <=> Len(ps) <= Len(qs) /\ \A i \in 1 .. Len(ps) : ps[i] = qs[i]
  BY <1>2, <1>3, PrefixIs
<1>7. ASSUME IsPrefixMatch(p, path) PROVE IsPrefix(ps, qs)
  <2>1. Len(p) <= Len(path) /\ \A i \in 1 .. Len(p) : p[i] = path[i]
    BY <1>5, <1>7 DEF IsPrefixMatch
  <2>2. qs[Len(p) + 1] = "/"
    <3>1. CASE Len(path) = Len(p) BY <1>3, <3>1
    <3>2. CASE Len(path) # Len(p)
      <4>1. path[Len(p) + 1] = "/" BY <1>7, <3>2 DEF IsPrefixMatch
      <4>2. Len(p) + 1 \in 1 .. Len(path) BY <1>4, <2>1, <3>2
      <4>3. QED BY <1>3, <4>1, <4>2
    <3>3. QED BY <3>1, <3>2
  <2>3. ASSUME NEW i \in 1 .. Len(ps) PROVE ps[i] = qs[i]
    <3>1. CASE i = Len(p) + 1 BY <1>2, <2>2, <3>1
    <3>2. CASE i # Len(p) + 1
      <4>1. i \in 1 .. Len(p) /\ i \in 1 .. Len(path) BY <1>2, <1>4, <2>1, <3>2
      <4>2. QED BY <1>2, <1>3, <2>1, <4>1
    <3>3. QED BY <3>1, <3>2
  <2>4. QED BY <1>2, <1>3, <1>4, <1>6, <2>1, <2>3
<1>8. ASSUME IsPrefix(ps, qs) PROVE IsPrefixMatch(p, path)
  <2>1. Len(p) <= Len(path) /\ \A i \in 1 .. Len(ps) : ps[i] = qs[i]
    BY <1>2, <1>3, <1>4, <1>6, <1>8
  <2>2. ASSUME NEW i \in 1 .. Len(p) PROVE p[i] = path[i]
    <3>1. i \in 1 .. Len(ps) /\ i \in 1 .. Len(path) BY <1>2, <1>4, <2>1
    <3>2. QED BY <1>2, <1>3, <2>1, <3>1
  <2>3. Len(path) = Len(p) \/ path[Len(p) + 1] = "/"
    <3>1. CASE Len(path) # Len(p)
      <4>1. Len(p) + 1 \in 1 .. Len(path) /\ Len(p) + 1 \in 1 .. Len(ps)
        BY <1>2, <1>4, <2>1, <3>1
      <4>2. QED BY <1>2, <1>3, <2>1, <4>1
    <3>2. QED BY <3>1
  <2>4. IsPrefix(p, path) BY <1>5, <2>1, <2>2
  <2>5. QED BY <2>3, <2>4 DEF IsPrefixMatch
<1>9. IsPrefixMatch(p, path) <=> IsPrefix(ps, qs) BY <1>7, <1>8
<1>10. CASE r.exact BY <1>10 DEF Matches, Meant
<1>11. CASE ~r.exact BY <1>9, <1>11 DEF Matches, Meant, p, ps, qs
<1>12. QED BY <1>10, <1>11

(* From its lookup to its answer a request keeps the route it was given. *)
RoutedInv == \A c \in Conns : pc[c] \in Busy => RoutedBest(c)

LEMMA RoutedKept ==
  ASSUME RoutedInv, UNCHANGED routes,
         \A c \in Conns : pc'[c] \in Busy =>
           /\ pc[c] \in Busy
           /\ route'[c] = route[c] /\ req'[c].path = req[c].path
  PROVE  RoutedInv'
<1>1. ASSUME NEW c \in Conns, pc'[c] \in Busy PROVE RoutedBest(c)'
  <2>1. RoutedBest(c) BY <1>1 DEF RoutedInv
  <2>2. route'[c] = route[c] /\ req'[c].path = req[c].path /\ routes' = routes BY <1>1
  <2>3. QED BY <2>1, <2>2 DEF RoutedBest
<1>2. QED BY <1>1 DEF RoutedInv

LEMMA EndRouted ==
  ASSUME TypeOK, RoutedInv, NEW c \in Conns, NEW next \in {"none", "idle"},
         EndRequest(c, next)
  PROVE  RoutedInv'
<1>1. UNCHANGED routes BY DEF EndRequest
<1>2. ASSUME NEW x \in Conns, pc'[x] \in Busy
      PROVE  pc[x] \in Busy /\ route'[x] = route[x] /\ req'[x].path = req[x].path
  BY <1>2, TypeParts DEF EndRequest, ConnTyped, Busy
<1>3. QED BY <1>1, <1>2, RoutedKept

LEMMA LookupRouted ==
  ASSUME TypeOK, RoutedInv, NEW c \in Conns, Lookup(c)
  PROVE  RoutedInv'
<1>1. ConnTyped /\ routes \in Tables BY TypeParts
<1>2. UNCHANGED <<routes, req>> BY DEF Lookup
<1>3. PICK i \in DOMAIN routes :
        i = MatchRoute(req[c].path) /\ route' = [route EXCEPT ![c] = i]
  BY DEF Lookup
<1>4. pc' = [pc EXCEPT ![c] = "limit"] BY DEF Lookup
<1>5. ASSUME NEW x \in Conns, pc'[x] \in Busy PROVE RoutedBest(x)'
  <2>1. CASE x = c
    <3>1. route'[x] = i /\ req'[x].path = req[c].path /\ routes' = routes
      BY <1>1, <1>2, <1>3, <2>1 DEF ConnTyped
    <3>2. BestOf(req[c].path, Len(routes), i) BY <1>1, <1>3, MatchRouteBest
    <3>3. routes \in Seq(RouteConfig) BY <1>1
    <3>4. DOMAIN routes = 1 .. Len(routes) /\ i # 0 BY <3>3
    <3>8. req[c].path \in Seq(STRING)
      <4>1. req[c] \in Requests BY RequestTyped DEF Lookup
      <4>2. QED BY <4>1 DEF Requests
    <3>9. \A j \in DOMAIN routes : Matches(routes[j], req[c].path) <=> Meant(routes[j], req[c].path)
      BY <3>3, <3>8, MatchesMeant
    <3>5. Meant(routes[i], req[c].path) BY <3>2, <3>4, <3>9 DEF BestOf
    <3>6. ASSUME NEW j \in DOMAIN routes, Meant(routes[j], req[c].path)
          PROVE  \/ Len(routes[j].path) < Len(routes[i].path)
                 \/ /\ Len(routes[j].path) = Len(routes[i].path)
                    /\ routes[j].exact => routes[i].exact
      <4>1. ~Beats(routes[j], routes[i]) BY <3>2, <3>4, <3>6, <3>9 DEF BestOf
      <4>2. routes[j] \in RouteConfig /\ routes[i] \in RouteConfig BY <3>3
      <4>3. Len(routes[j].path) \in Nat /\ Len(routes[i].path) \in Nat
        <5>1. routes[j].path \in Seq(STRING) /\ routes[i].path \in Seq(STRING)
          BY <4>2 DEF RouteConfig
        <5>2. QED BY <5>1
      <4>4. QED BY <4>1, <4>3, BeatsOrder
    <3>7. QED BY <3>1, <3>5, <3>6 DEF RoutedBest
  <2>2. CASE x # c
    <3>1. pc'[x] = pc[x] /\ route'[x] = route[x] BY <1>1, <1>3, <1>4, <2>2 DEF ConnTyped
    <3>2. RoutedBest(x) BY <1>5, <3>1 DEF RoutedInv
    <3>3. QED BY <1>2, <3>1, <3>2 DEF RoutedBest
  <2>3. QED BY <2>1, <2>2
<1>6. QED BY <1>5 DEF RoutedInv

(* A step that only moves a request on, or starts one. *)
LEMMA MoveRouted ==
  ASSUME TypeOK, RoutedInv, NEW c \in Conns,
         Accept(c) \/ SendRequest(c) \/ Insert(c) \/ Allowed(c)
  PROVE  RoutedInv'
<1>1. ConnTyped BY TypeParts
<1>2. UNCHANGED <<routes, route>>
  BY DEF Accept, SendRequest, Insert, Allowed
<1>3. ASSUME NEW x \in Conns, pc'[x] \in Busy
      PROVE  pc[x] \in Busy /\ req'[x].path = req[x].path
  <2>1. CASE Accept(c) BY <1>1, <1>3, <2>1 DEF Accept, ConnTyped, Busy
  <2>2. CASE SendRequest(c) BY <1>1, <1>3, <2>2 DEF SendRequest, ConnTyped, Busy
  <2>3. CASE Insert(c) BY <1>1, <1>3, <2>3 DEF Insert, ConnTyped, Busy
  <2>4. CASE Allowed(c) BY <1>1, <1>3, <2>4 DEF Allowed, ConnTyped, Busy
  <2>5. QED BY <2>1, <2>2, <2>3, <2>4
<1>4. QED BY <1>2, <1>3, RoutedKept

LEMMA ForwardRouted ==
  ASSUME TypeOK, RoutedInv, NEW c \in Conns, pc[c] = "auth", NEW id, NEW t,
         Forward(c, id, t)
  PROVE  RoutedInv'
<1>1. ConnTyped BY TypeParts
<1>2. UNCHANGED <<routes, route>> BY DEF Forward
<1>3. ASSUME NEW x \in Conns, pc'[x] \in Busy
      PROVE  pc[x] \in Busy /\ req'[x].path = req[x].path
  <2>1. CASE x = c
    <3>1. req[c] \in Requests BY RequestTyped
    <3>2. [req[c] EXCEPT !.token = t].path = req[c].path BY <3>1 DEF Requests
    <3>3. req'[c] = [req[c] EXCEPT !.token = t] BY <1>1 DEF Forward, ConnTyped
    <3>4. QED BY <2>1, <3>2, <3>3 DEF Busy
  <2>2. CASE x # c
    <3>1. pc'[x] = pc[x] /\ req'[x] = req[x] BY <1>1, <2>2 DEF Forward, ConnTyped
    <3>2. QED BY <1>3, <3>1
  <2>3. QED BY <2>1, <2>2
<1>4. QED BY <1>2, <1>3, RoutedKept

LEMMA RoutedNext == TypeOK /\ RoutedInv /\ [Next]_vars => RoutedInv'
<1> SUFFICES ASSUME TypeOK, RoutedInv, [Next]_vars PROVE RoutedInv'
  OBVIOUS
<1>1. ASSUME NEW c \in Conns, Serve(c) \/ Peer(c) PROVE RoutedInv'
  <2>1. CASE \/ Close(c) \/ Health(c) \/ RouteNotFound(c) \/ RateLimited(c)
             \/ UpstreamFails(c) \/ Replied(c) \/ AuthFailed(c)
    <3>1. EndRequest(c, "none") \/ EndRequest(c, "idle")
      BY <2>1 DEF Close, Health, RouteNotFound, RateLimited, UpstreamFails, Replied, AuthFailed
    <3>2. QED BY <3>1, EndRouted
  <2>2. CASE PassThrough(c) \/ Strip(c) \/ Identify(c) \/ Anonymous(c)
    <3>1. pc[c] = "auth"
      BY <2>2 DEF PassThrough, Strip, Identify, Anonymous, Authenticating
    <3>2. \E id, t : Forward(c, id, t) BY <2>2 DEF PassThrough, Strip, Identify, Anonymous
    <3>3. QED BY <3>1, <3>2, ForwardRouted
  <2>3. QED BY <1>1, <2>1, <2>2, MoveRouted, LookupRouted DEF Serve, Peer
<1>2. CASE DrainTimeout \/ AcceptFails
  <2>1. UNCHANGED routes /\ pc' = [c \in Conns |-> "none"]
    BY <1>2 DEF DrainTimeout, AcceptFails, Cut
  <2>2. \A c \in Conns : pc'[c] \notin Busy BY <2>1 DEF Busy
  <2>3. QED BY <2>1, <2>2, RoutedKept
<1>3. CASE Second \/ Rotate \/ Fetching \/ Interrupt \/ Drained \/ UNCHANGED vars
  <2>1. UNCHANGED <<routes, connVars>>
    BY <1>3 DEF Second, Rotate, Fetching, FetchBegin, KeyServed, FetchFails, FetchStore,
                Interrupt, Drained, vars
  <2>2. QED BY <2>1, RoutedKept DEF connVars
<1>4. QED BY <1>1, <1>2, <1>3 DEF Next

(* Whatever the table, the keys, the fetches and the connections do: what   *)
(* reaches an upstream came by the longest route that its segments are      *)
(* meant for, exact before prefix; behind a required route the x-user-id is *)
(* never the client's own but the user of the token forwarded with it,      *)
(* signed by a key that was fetched; on an optional one it is that or the   *)
(* client's own, on the others only the client's own, and a route that      *)
(* strips forwards no token (router.rs, layers/auth.rs).                    *)
THEOREM ForwardedHeld == Spec => []ForwardedAsConfigured
<1>1. Init => IdentityInv /\ RoutedInv
  BY DEF Init, IdentityInv, RoutedInv, Forwarded, Busy
<1>2. TypeOK /\ IdentityInv /\ [Next]_vars => IdentityInv' BY IdentityNext
<1>3. TypeOK /\ RoutedInv /\ [Next]_vars => RoutedInv' BY RoutedNext
<1>4. IdentityInv /\ RoutedInv => ForwardedAsConfigured
  BY DEF IdentityInv, RoutedInv, ForwardedAsConfigured, Forwarded, Busy
<1>5. QED BY <1>1, <1>2, <1>3, <1>4, TypeCorrect, PTL DEF Spec
=============================================================================
