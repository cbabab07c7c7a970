------------------------------- MODULE Gateway -------------------------------
(***************************************************************************)
(* The HTTP gateway (gateway/main.rs and its layers).  The accept loop     *)
(* takes connections until SIGINT and then lets them drain.  A request     *)
(* goes through health, route, rate limit and auth to the upstream.        *)
(* Connections share two things: the cache of rate limiters                *)
(* (rate_limiter/memory.rs), read and filled in separate steps, and the    *)
(* signing key that jwks.rs fetches from the auth service once a minute.   *)
(*                                                                         *)
(* A path is a sequence of characters (the router works on bytes).  A      *)
(* token is the number of the key that signed it: the auth service has     *)
(* one key at a time, publishes it alone and puts no kid in its tokens; a  *)
(* token of a key that is no more stands for all that does not verify.     *)
(* per_sec is the same on all routes, burst is each route's own.           *)
(***************************************************************************)
EXTENDS Integers, FiniteSets, SequencesExt

CONSTANTS
  Conns,         \* TCP connections a client may have open
  Clients,       \* client addresses (X-Forwarded-For or the peer's)
  Paths,         \* paths that are asked for
  Claiming,      \* bound: those asked for with an x-user-id header at times
  Tables,        \* route tables that may be configured
  Healthz,       \* the path "/healthz"
  MaxConnections,
  PerSec,        \* RateLimitConfig::per_sec
  IdleSecs,      \* time_to_idle of the limiter cache
  NoConn, NoToken,
  Claimed,       \* the user in an x-user-id header that a client wrote itself
  MaxRotations,  \* bound: key changes of the auth service
  MaxRequests    \* bound: requests sent

Levels == {"optional", "required", "none", "bypass_and_strip"}
RoutePaths == UNION {{t[i].path : i \in DOMAIN t} : t \in Tables}

RouteConfig == [path : RoutePaths, exact : BOOLEAN, auth : Levels, burst : Nat]

(* GatewayConfig::validate, the part the model can tell apart. *)
Valid(t) ==
  \A i \in DOMAIN t : t[i].path # <<>> /\ t[i].burst > 0 /\ PerSec > 0

ASSUME GatewayAssumption ==
  /\ Conns # {} /\ Clients # {}
  /\ NoConn \notin Conns
  /\ <<>> \notin Paths
  /\ NoToken \notin Nat /\ Claimed \notin Nat \cup {NoToken}
  /\ Tables \subseteq Seq(RouteConfig)
  /\ RoutePaths \cup Paths \subseteq Seq(STRING)
  /\ PerSec \in Nat \ {0} /\ IdleSecs \in Nat \ {0}
  /\ MaxConnections \in Nat \ {0}
  /\ {MaxRotations, MaxRequests} \subseteq Nat

VARIABLES
  routes,    \* config.routes
  phase,     \* "serving", "draining", "ended"
  pc,        \* per connection: "none", "idle", "body", "limit",
             \*   "auth", "upstream"
  req,       \* per connection: path, client and token of its request
  route,     \* per connection: index of the matched route, 0 if none
  held,      \* per connection in "limit": maker of the limiter it holds, or NoConn
  user,      \* per connection: the request's x-user-id header: Claimed if the
             \*   client wrote it, the token AuthService took it from, or NoToken
  cache,     \* per limiter key: maker of the cached limiter, or NoConn
  limiter,   \* per limiter key and maker: cells used, and burst
  idle,      \* per limiter key: seconds since its last use
  published, \* the auth service's key
  fetch,     \* refresh task: "waiting", "asked", "replied"
  reply,     \* key in the reply
  cached,    \* key in the JwksCache
  sent,
  level,     \* per limiter key: cells used, had there been one limiter (history)
  raced      \* limiter keys for which two first requests met (history)

connVars == <<pc, req, route, held, user>>
limitVars == <<cache, limiter, idle, level, raced>>
keyVars == <<published, fetch, reply, cached>>
vars == <<routes, phase, connVars, limitVars, keyVars, sent>>

LimitKeys == RoutePaths \X Clients
Tokens == {NoToken} \cup 0 .. published
NoRequest == [path |-> <<>>, client |-> NoConn, token |-> NoToken]
NoLimiter == [used |-> 0, burst |-> 0]

Init ==
  /\ routes \in {t \in Tables : Valid(t)}
  /\ phase = "serving"
  /\ pc = [c \in Conns |-> "none"]
  /\ req = [c \in Conns |-> NoRequest]
  /\ route = [c \in Conns |-> 0]
  /\ held = [c \in Conns |-> NoConn]
  /\ user = [c \in Conns |-> NoToken]
  /\ cache = [k \in LimitKeys |-> NoConn]
  /\ limiter = [k \in LimitKeys |-> [m \in Conns |-> NoLimiter]]
  /\ idle = [k \in LimitKeys |-> 0]
  /\ published = 0
  /\ fetch = "waiting"
  /\ reply = 0
  /\ cached = 0
  /\ sent = 0
  /\ level = [k \in LimitKeys |-> 0]
  /\ raced = {}

-----------------------------------------------------------------------------
(* router.rs                                                               *)

IsPrefixMatch(prefix, path) ==
  /\ IsPrefix(prefix, path)
  /\ Len(path) = Len(prefix) \/ path[Len(prefix) + 1] = "/"

Matches(r, path) ==
  IF r.exact THEN path = r.path ELSE IsPrefixMatch(r.path, path)

BeatsByLength(r, best) == Len(r.path) >= Len(best.path) \* slip: no tie-break

(* key > best_key: the lexicographic order of (path.len(), is_exact). *)
Beats(r, best) ==
  \/ Len(r.path) > Len(best.path)
  \/ Len(r.path) = Len(best.path) /\ r.exact /\ ~best.exact

(* The closure of match_route's fold: the best route up to the i-th. *)
Better(path, best, i) ==
  IF Matches(routes[i], path) /\ (best = 0 \/ Beats(routes[i], routes[best]))
  THEN i ELSE best

(* The index of the route that match_route returns, 0 for None. *)
MatchRoute(path) ==
  LET best[i \in 0 .. Len(routes)] == IF i = 0 THEN 0 ELSE Better(path, best[i - 1], i)
  IN best[Len(routes)]

-----------------------------------------------------------------------------
(* Connections and requests                                                *)

LimitKey(c) == <<routes[route[c]].path, req[c].client>>
Level(c) == routes[route[c]].auth

(* try_acquire_owned() finds a permit: the permit of each earlier connection *)
(* was a local of this select arm and went back when the arm ended.  With    *)
(* max_connections > 0 the arm that answers 503 is never reached.            *)
Accept(c) ==
  /\ phase = "serving" /\ pc[c] = "none"
  /\ MaxConnections > 0
  /\ pc' = [pc EXCEPT ![c] = "idle"]
  /\ UNCHANGED <<routes, phase, req, route, held, user, limitVars, keyVars, sent>>

SendRequest(c) ==
  /\ phase # "ended" /\ pc[c] = "idle" /\ sent < MaxRequests
  /\ \E p \in Paths, ip \in Clients, t \in Tokens, h \in {NoToken, Claimed} :
       /\ h = Claimed => p \in Claiming
       /\ req' = [req EXCEPT ![c] = [path |-> p, client |-> ip, token |-> t]]
       /\ user' = [user EXCEPT ![c] = h]
  /\ pc' = [pc EXCEPT ![c] = "body"]
  /\ sent' = sent + 1
  /\ UNCHANGED <<routes, phase, route, held, limitVars, keyVars>>

EndRequestLeaks(c, next) ==            \* slip: the identity stays
  /\ pc' = [pc EXCEPT ![c] = next]
  /\ route' = [route EXCEPT ![c] = 0]
  /\ held' = [held EXCEPT ![c] = NoConn]
  /\ req' = [req EXCEPT ![c] = NoRequest]
  /\ UNCHANGED <<routes, phase, user, keyVars, sent>>

(* What the connection keeps of a request is dropped with it. *)
EndRequest(c, next) ==
  /\ pc' = [pc EXCEPT ![c] = next]
  /\ route' = [route EXCEPT ![c] = 0]
  /\ held' = [held EXCEPT ![c] = NoConn]
  /\ user' = [user EXCEPT ![c] = NoToken]
  /\ req' = [req EXCEPT ![c] = NoRequest]
  /\ UNCHANGED <<routes, phase, keyVars, sent>>

(* The client goes, or its body cannot be read: hyper drops the service's *)
(* future at an await.                                                    *)
Close(c) ==
  /\ phase # "ended"
  /\ pc[c] \in {"idle", "body", "upstream"}
  /\ EndRequest(c, "none")
  /\ UNCHANGED limitVars

(* /healthz: the manager of a gateway that got past JwksManager::new is ready. *)
Health(c) ==
  /\ phase # "ended" /\ pc[c] = "body"
  /\ req[c].path = Healthz
  /\ EndRequest(c, "idle")
  /\ UNCHANGED limitVars

RouteNotFound(c) ==
  /\ phase # "ended" /\ pc[c] = "body"
  /\ req[c].path # Healthz
  /\ MatchRoute(req[c].path) = 0
  /\ EndRequest(c, "idle")
  /\ UNCHANGED limitVars

(* limiters.get: the read of the cache, a step before the insert that *)
(* follows a miss.                                                     *)
Lookup(c) ==
  /\ phase # "ended" /\ pc[c] = "body"
  /\ req[c].path # Healthz
  /\ \E i \in DOMAIN routes :
       /\ i = MatchRoute(req[c].path)
       /\ route' = [route EXCEPT ![c] = i]
       /\ LET k == <<routes[i].path, req[c].client>>
          IN /\ held' = [held EXCEPT ![c] = cache[k]]
             /\ idle' = [idle EXCEPT ![k] = 0]
  /\ pc' = [pc EXCEPT ![c] = "limit"]
  /\ UNCHANGED <<routes, phase, req, user, cache, limiter, level, raced, keyVars, sent>>

Insert(c) ==
  /\ phase # "ended" /\ pc[c] = "limit" /\ held[c] = NoConn
  /\ LET k == LimitKey(c)
     IN /\ cache' = [cache EXCEPT ![k] = c]
        /\ limiter' = [limiter EXCEPT ![k][c] = [used |-> 0, burst |-> routes[route[c]].burst]]
        /\ idle' = [idle EXCEPT ![k] = 0]
        /\ raced' = IF cache[k] = NoConn THEN raced ELSE raced \cup {k}
  /\ held' = [held EXCEPT ![c] = c]
  /\ UNCHANGED <<routes, phase, pc, req, route, user, level, keyVars, sent>>

HasCellAtLimit(l) == l.used <= l.burst \* slip: off by one

HasCell(l) == l.used < l.burst

(* limiter.check() of the limiter in hand, which may no longer be the      *)
(* cached one.                                                             *)
Allowed(c) ==
  /\ phase # "ended" /\ pc[c] = "limit" /\ held[c] # NoConn
  /\ LET k == LimitKey(c)
     IN /\ HasCell(limiter[k][held[c]])
        /\ limiter' = [limiter EXCEPT ![k][held[c]].used = @ + 1]
        /\ level' = [level EXCEPT ![k] = @ + 1]
  /\ held' = [held EXCEPT ![c] = NoConn]
  /\ pc' = [pc EXCEPT ![c] = "auth"]
  /\ UNCHANGED <<routes, phase, req, route, user, cache, idle, raced, keyVars, sent>>

RateLimited(c) ==
  /\ phase # "ended" /\ pc[c] = "limit" /\ held[c] # NoConn
  /\ ~HasCell(limiter[LimitKey(c)][held[c]])
  /\ EndRequest(c, "idle")
  /\ UNCHANGED limitVars

(* JwksManager::verify: without a kid, by the one key in the cache.        *)
Verified(t) == t = cached

Authenticating(c, levels) ==
  phase # "ended" /\ pc[c] = "auth" /\ Level(c) \in levels

(* x-user-id and Authorization of the request that is forwarded.  What the *)
(* client sent as x-user-id goes along unless AuthService puts another in  *)
(* its place: no level removes it.                                         *)
Forward(c, id, token) ==
  /\ pc' = [pc EXCEPT ![c] = "upstream"]
  /\ user' = [user EXCEPT ![c] = id]
  /\ req' = [req EXCEPT ![c].token = token]
  /\ UNCHANGED <<routes, phase, route, held, limitVars, keyVars, sent>>

PassThrough(c) == Authenticating(c, {"none"}) /\ Forward(c, user[c], req[c].token)

Strip(c) == Authenticating(c, {"bypass_and_strip"}) /\ Forward(c, user[c], NoToken)

IdentifyBeside(c) ==                   \* slip: append for insert, the first one counts
  /\ Authenticating(c, {"required", "optional"})
  /\ Verified(req[c].token)
  /\ Forward(c, IF user[c] = NoToken THEN req[c].token ELSE user[c], req[c].token)

Identify(c) ==
  /\ Authenticating(c, {"required", "optional"})
  /\ Verified(req[c].token)
  /\ Forward(c, req[c].token, req[c].token)

(* On an optional route a token that does not verify is as good as none,   *)
(* though the comment on AuthenticationLevel::Optional (config.rs) says it *)
(* is rejected.                                                            *)
Anonymous(c) ==
  /\ Authenticating(c, {"optional"})
  /\ ~Verified(req[c].token)
  /\ Forward(c, user[c], req[c].token)

AuthFailed(c) ==
  /\ Authenticating(c, {"required"})
  /\ ~Verified(req[c].token)
  /\ EndRequest(c, "idle")
  /\ UNCHANGED limitVars

(* Unusable or unreachable upstream, or upstream_timeout_secs. *)
UpstreamFails(c) ==
  /\ phase # "ended" /\ pc[c] = "upstream"
  /\ EndRequest(c, "idle")
  /\ UNCHANGED limitVars

(* The upstream's answer, its head in time and then its body, which is     *)
(* passed on without a timeout.                                            *)
Replied(c) ==
  /\ phase # "ended" /\ pc[c] = "upstream"
  /\ EndRequest(c, "idle")
  /\ UNCHANGED limitVars

-----------------------------------------------------------------------------
(* Time, keys and the process                                              *)

Leaked(n) == IF n > PerSec THEN n - PerSec ELSE 0

Expires(k) == cache[k] # NoConn /\ idle[k] + 1 >= IdleSecs

(* A second passes: limiters give cells back and an entry idle for too     *)
(* long leaves the cache.  InMemoryRateLimiter::check is synchronous and   *)
(* takes no second.                                                        *)
Second ==
  /\ phase # "ended"
  /\ \A c \in Conns : pc[c] # "limit"
  /\ cache' = [k \in LimitKeys |-> IF Expires(k) THEN NoConn ELSE cache[k]]
  /\ limiter' = [k \in LimitKeys |-> [m \in Conns |->
                   IF Expires(k) \/ m # cache[k] THEN NoLimiter
                   ELSE [limiter[k][m] EXCEPT !.used = Leaked(@)]]]
  /\ idle' = [k \in LimitKeys |-> IF cache[k] = NoConn \/ Expires(k) THEN 0 ELSE idle[k] + 1]
  /\ level' = [k \in LimitKeys |-> Leaked(level[k])]
  /\ UNCHANGED <<routes, phase, connVars, raced, keyVars, sent>>

(* The auth service is restarted with another key pair (external). *)
Rotate ==
  /\ phase # "ended" /\ published < MaxRotations
  /\ published' = published + 1
  /\ UNCHANGED <<routes, phase, connVars, limitVars, fetch, reply, cached, sent>>

FetchBegin ==
  /\ phase # "ended" /\ fetch = "waiting"
  /\ fetch' = "asked"
  /\ UNCHANGED <<routes, phase, connVars, limitVars, published, reply, cached, sent>>

(* GET /jwks.json is answered (auth/router.rs, jwks_handler). *)
KeyServed ==
  /\ phase # "ended" /\ fetch = "asked"
  /\ fetch' = "replied"
  /\ reply' = published
  /\ UNCHANGED <<routes, phase, connVars, limitVars, published, cached, sent>>

FetchFails ==
  /\ phase # "ended" /\ fetch \in {"asked", "replied"}
  /\ fetch' = "waiting"
  /\ reply' = 0
  /\ UNCHANGED <<routes, phase, connVars, limitVars, published, cached, sent>>

FetchStoreFirst ==                     \* slip: keeps the key it has
  /\ phase # "ended" /\ fetch = "replied"
  /\ fetch' = "waiting"
  /\ reply' = 0
  /\ UNCHANGED <<routes, phase, connVars, limitVars, published, cached, sent>>

FetchStore ==
  /\ phase # "ended" /\ fetch = "replied"
  /\ fetch' = "waiting"
  /\ cached' = reply
  /\ reply' = 0
  /\ UNCHANGED <<routes, phase, connVars, limitVars, published, sent>>

(* SIGINT: the listener is dropped and the connections may finish. *)
Interrupt ==
  /\ phase = "serving"
  /\ phase' = "draining"
  /\ UNCHANGED <<routes, connVars, limitVars, keyVars, sent>>

Drained ==
  /\ phase = "draining"
  /\ \A c \in Conns : pc[c] = "none"
  /\ phase' = "ended"
  /\ UNCHANGED <<routes, connVars, limitVars, keyVars, sent>>

(* main returns and the runtime drops every task: the drain has taken      *)
(* drain_timeout_secs, or accept() failed, which ends a serving gateway at  *)
(* once.                                                                   *)
Cut ==
  /\ phase' = "ended"
  /\ pc' = [c \in Conns |-> "none"]
  /\ req' = [c \in Conns |-> NoRequest]
  /\ route' = [c \in Conns |-> 0]
  /\ held' = [c \in Conns |-> NoConn]
  /\ user' = [c \in Conns |-> NoToken]
  /\ UNCHANGED <<routes, limitVars, keyVars, sent>>

DrainTimeout == phase = "draining" /\ Cut

AcceptFails == phase = "serving" /\ Cut

Fetching == FetchBegin \/ KeyServed \/ FetchFails \/ FetchStore

Serve(c) ==
  \/ Accept(c) \/ Health(c) \/ RouteNotFound(c) \/ Lookup(c) \/ Insert(c) \/ Allowed(c)
  \/ RateLimited(c) \/ PassThrough(c) \/ Strip(c) \/ Identify(c) \/ Anonymous(c)
  \/ AuthFailed(c) \/ UpstreamFails(c)

Peer(c) == SendRequest(c) \/ Close(c) \/ Replied(c)

Next ==
  \/ \E c \in Conns : Serve(c) \/ Peer(c)
  \/ Second \/ Rotate \/ Fetching
  \/ Interrupt \/ Drained \/ DrainTimeout \/ AcceptFails

Spec == Init /\ [][Next]_vars

(* The runtime runs the refresh task, a fetch ends (HTTP_CLIENT gives it no *)
(* timeout) and not all of them fail; nothing is assumed of clients and     *)
(* upstreams.                                                               *)
FairSpec == Spec /\ WF_vars(FetchBegin) /\ SF_vars(KeyServed) /\ SF_vars(FetchStore)

-----------------------------------------------------------------------------
(* Properties.                                                             *)

Users == Tokens \cup {Claimed}
Requests == [path : Paths, client : Clients, token : Tokens]

ConnOK(c) ==
  /\ pc[c] \in {"body", "limit", "auth", "upstream"} <=> req[c] # NoRequest
  /\ IF pc[c] \in {"limit", "auth", "upstream"}
     THEN route[c] \in DOMAIN routes ELSE route[c] = 0
  /\ held[c] # NoConn => pc[c] = "limit"
  /\ user[c] # NoToken => pc[c] \in {"body", "limit", "auth", "upstream"}
  /\ user[c] \notin {NoToken, Claimed} => pc[c] = "upstream"

(* Every variable has its type; a connection holds a limiter only while it *)
(* is checked, and a route from the lookup to the answer.                  *)
TypeOK ==
  /\ routes \in Tables
  /\ phase \in {"serving", "draining", "ended"}
  /\ pc \in [Conns -> {"none", "idle", "body", "limit", "auth", "upstream"}]
  /\ req \in [Conns -> Requests \cup {NoRequest}]
  /\ route \in [Conns -> Nat]
  /\ held \in [Conns -> Conns \cup {NoConn}]
  /\ user \in [Conns -> Users]
  /\ \A c \in Conns : ConnOK(c)
  /\ cache \in [LimitKeys -> Conns \cup {NoConn}]
  /\ limiter \in [LimitKeys -> [Conns -> [used : Nat, burst : Nat]]]
  /\ idle \in [LimitKeys -> Nat] /\ level \in [LimitKeys -> Nat]
  /\ raced \subseteq LimitKeys
  /\ {published, reply, cached} \subseteq 0 .. MaxRotations
  /\ reply <= published /\ cached <= published
  /\ fetch \in {"waiting", "asked", "replied"}
  /\ sent \in 0 .. MaxRequests

(* A client is let through at most burst times at once, and then as the     *)
(* cells come back (rate_limiter/memory.rs), however its connections        *)
(* interleave and entries are evicted; except after two of its first        *)
(* requests met, when each made a limiter.                                  *)
AllowanceHeld ==
  \A k \in LimitKeys \ raced : level[k] > 0 =>
    \E i \in DOMAIN routes : routes[i].path = k[1] /\ level[k] <= routes[i].burst

(* A route is meant for its own path and, a prefix, for every path that     *)
(* begins with all its segments (the comment in is_prefix_match).  The last *)
(* segment of a prefix that ends in "/" is empty, so it is meant for no     *)
(* other path that is asked for: the route "/" of the example configuration *)
(* serves nothing but "/".                                                  *)
Meant(r, path) ==
  IF r.exact THEN path = r.path ELSE IsPrefix(Append(r.path, "/"), Append(path, "/"))

RoutedBest(c) ==
  LET r == routes[route[c]]
  IN /\ Meant(r, req[c].path)
     /\ \A i \in DOMAIN routes : Meant(routes[i], req[c].path) =>
          \/ Len(routes[i].path) < Len(r.path)
          \/ Len(routes[i].path) = Len(r.path) /\ (routes[i].exact => r.exact)

Identified(c) ==
  /\ Level(c) = "required" => user[c] \notin {NoToken, Claimed}
  /\ user[c] \notin {NoToken, Claimed} =>
       /\ Level(c) \in {"required", "optional"}
       /\ user[c] = req[c].token /\ user[c] \in 0 .. cached
  /\ Level(c) = "bypass_and_strip" => req[c].token = NoToken

(* What reaches an upstream came by the longest route meant for its path,   *)
(* exact before prefix.  Behind a required route the user is always that of *)
(* the forwarded token, signed by a key the gateway has fetched, whatever   *)
(* x-user-id the client sent; on the other levels the header is that or the *)
(* client's own, so an upstream may rely on it only behind a required one;  *)
(* a route that strips forwards no token (router.rs, layers/auth.rs).       *)
ForwardedAsConfigured ==
  \A c \in Conns : pc[c] = "upstream" => RoutedBest(c) /\ Identified(c)

(* Once the auth service's key stays the same and the fetches end, the      *)
(* gateway comes to verify with it for good: the refresh task neither       *)
(* stops at a failed fetch nor puts an older key back (jwks.rs).            *)
KeysCatchUp == <>[](phase # "ended" => cached = published)
=============================================================================
