--------------------------- MODULE GatewaySessions ---------------------------
(***************************************************************************)
(* The API gateway's login sessions.  A login stores its session in the    *)
(* cache, which has a tier in the memory of the gateway that handled it    *)
(* and a tier in Redis, then lists it in the user's set of sessions, then  *)
(* returns the token.  The guard admits a token whose session either tier  *)
(* has.  A logout deletes one session; a change of password deletes those  *)
(* the set lists, and the set.  Every await is a place where the requests  *)
(* of this gateway and of others interleave.                               *)
(*                                                                         *)
(* The cache (cache-manager over Keyv) is external: set and del await all  *)
(* tiers, get asks the tiers in turn and does not copy what it finds into  *)
(* an earlier one.  No session is ever given the status INACTIVE, so the   *)
(* guard's test of the status always passes.  Which password a client      *)
(* sends is left open: a call of the user service may be refused.          *)
(***************************************************************************)
EXTENDS Naturals, FiniteSets

CONSTANTS
    Gateways,   \* processes of the gateway
    Requests,   \* requests handled at one time
    Users,
    Tokens,     \* identifiers randomUUID draws, one for each login
    TTL,        \* the seven days that tokens, sessions and sets live
    Nil,
    MaxTime,    \* bound: time
    MaxEntered, \* bound: logouts and changes of password
    MaxFaults   \* bound: rejected calls and restarts

ASSUME SessionsAssumption ==
    /\ TTL \in Nat \ {0} /\ MaxTime \in Nat /\ MaxEntered \in Nat /\ MaxFaults \in Nat
    /\ Nil \notin Gateways \cup Users \cup Tokens

VARIABLES
    now,
    memory,     \* memory[g][j]: when the session expires in g's tier, 0 if not there
    redis,      \* redis[j]: the same in Redis
    listed,     \* listed[u]: user:sessions:u, its members and when it expires
    token,      \* token[j]: what the token says and the gateway that made it
    request,    \* request[r]: the handler's progress
    entered, faults,
    issued,     \* history: tokens returned to a client
    deleted,    \* history: deleted[j], gateways that deleted j's session
    loggedOut,  \* history: loggedOut[j], gateways that answered a logout with j
    changed,    \* history: changed[j], gateways that answered a change of
                \*   password begun when j was issued
    swept       \* history: tokens the set lost while their session went on

cacheVars   == <<memory, redis>>
historyVars == <<issued, deleted, loggedOut, changed, swept>>
vars == <<now, cacheVars, listed, token, request, entered, faults, historyVars>>

NoExpiry == MaxTime + TTL + 1
NoSet    == [keys |-> {}, until |-> 0]
NoToken  == [user |-> Nil, gateway |-> Nil, until |-> 0]
NoRequest == [step |-> "idle", gateway |-> Nil, token |-> Nil, keys |-> {}, known |-> {}]

Steps == {"idle", "login_cache", "login_list", "login_expire",
          "logout_read", "logout_delete", "logout_unlist", "logout_orphan",
          "change_call", "change_members", "change_delete", "change_unlist"}

Init ==
    /\ now = 0
    /\ memory = [g \in Gateways |-> [j \in Tokens |-> 0]]
    /\ redis = [j \in Tokens |-> 0]
    /\ listed = [u \in Users |-> NoSet]
    /\ token = [j \in Tokens |-> NoToken]
    /\ request = [r \in Requests |-> NoRequest]
    /\ entered = 0 /\ faults = 0
    /\ issued = {} /\ swept = {}
    /\ deleted = [j \in Tokens |-> {}]
    /\ loggedOut = [j \in Tokens |-> {}]
    /\ changed = [j \in Tokens |-> {}]

----------------------------------------------------------------------------
(***************************************************************************)
(* The cache and the guard.                                                *)
(***************************************************************************)
\* cacheManager.get: the first tier that has the session.
GetSession(g, j) == now < memory[g][j] \/ now < redis[j]

\* Mutant: the time to live is given in the wrong unit.
CacheSetUnit(g, j) ==
    /\ memory' = [memory EXCEPT ![g][j] = now + 1000 * TTL]
    /\ redis' = [redis EXCEPT ![j] = now + 1000 * TTL]

CacheSet(g, j) ==
    /\ memory' = [memory EXCEPT ![g][j] = now + TTL]
    /\ redis' = [redis EXCEPT ![j] = now + TTL]

\* Mutant: the session is deleted in Redis only.
CacheDeleteRedis(g, keys) ==
    /\ redis' = [j \in Tokens |-> IF j \in keys THEN 0 ELSE redis[j]]
    /\ UNCHANGED memory

\* cacheManager.del and mdel: this gateway's memory and Redis.
CacheDelete(g, keys) ==
    /\ memory' = [memory EXCEPT ![g] = [j \in Tokens |-> IF j \in keys THEN 0 ELSE @[j]]]
    /\ redis' = [j \in Tokens |-> IF j \in keys THEN 0 ELSE redis[j]]

Mark(history, keys, g) == [j \in Tokens |-> IF j \in keys THEN history[j] \cup {g} ELSE history[j]]

DeleteSessions(g, keys) == CacheDelete(g, keys) /\ deleted' = Mark(deleted, keys, g)

\* AuthGuard.canActivate: the token is not expired and has a session.
CanActivate(g, j) == now < token[j].until /\ GetSession(g, j)

----------------------------------------------------------------------------
At(r, step) == request[r].step = step
Goto(r, step) == request' = [request EXCEPT ![r].step = step]
Finish(r) == request' = [request EXCEPT ![r] = NoRequest]
UserOf(r) == token[request[r].token].user

\* A request that carries a token and passes the guard.
Enter(r, g, step) ==
    /\ At(r, "idle")
    /\ entered < MaxEntered /\ entered' = entered + 1
    /\ \E j \in issued :
        /\ CanActivate(g, j)
        /\ request' = [request EXCEPT ![r] = [NoRequest EXCEPT !.step = step, !.gateway = g, !.token = j]]
    /\ UNCHANGED <<now, cacheVars, listed, token, faults, historyVars>>

(***************************************************************************)
(* AuthService.login.  EXPIRE does nothing to a set that does not exist.   *)
(***************************************************************************)
LoginSign(r, g) ==
    /\ At(r, "idle")
    /\ \E u \in Users, j \in Tokens :
        /\ token[j] = NoToken
        /\ token' = [token EXCEPT ![j] = [user |-> u, gateway |-> g, until |-> now + TTL]]
        /\ request' = [request EXCEPT ![r] = [NoRequest EXCEPT !.step = "login_cache", !.gateway = g, !.token = j]]
    /\ UNCHANGED <<now, cacheVars, listed, entered, faults, historyVars>>

LoginCache(r) ==
    /\ At(r, "login_cache")
    /\ CacheSet(request[r].gateway, request[r].token)
    /\ Goto(r, "login_list")
    /\ UNCHANGED <<now, listed, token, entered, faults, historyVars>>

LoginList(r) ==
    /\ At(r, "login_list")
    /\ listed' = [listed EXCEPT ![UserOf(r)] =
                    [keys |-> @.keys \cup {request[r].token},
                     until |-> IF @ = NoSet THEN NoExpiry ELSE @.until]]
    /\ Goto(r, "login_expire")
    /\ UNCHANGED <<now, cacheVars, token, entered, faults, historyVars>>

\* Mutant: only the login that creates the set gives it an expiry.
LoginExpireOnce(r) ==
    /\ At(r, "login_expire")
    /\ listed' = [listed EXCEPT ![UserOf(r)].until = IF @ = NoExpiry THEN now + TTL ELSE @]
    /\ issued' = issued \cup {request[r].token}
    /\ Finish(r)
    /\ UNCHANGED <<now, cacheVars, token, entered, faults, deleted, loggedOut, changed, swept>>

LoginExpire(r) ==
    /\ At(r, "login_expire")
    /\ listed' = [listed EXCEPT ![UserOf(r)].until = IF listed[UserOf(r)] = NoSet THEN 0 ELSE now + TTL]
    /\ issued' = issued \cup {request[r].token}
    /\ Finish(r)
    /\ UNCHANGED <<now, cacheVars, token, entered, faults, deleted, loggedOut, changed, swept>>

----------------------------------------------------------------------------
(***************************************************************************)
(* AuthService.logout.  The session is read again after the guard, and may *)
(* be gone by then.  Redis deletes a set that becomes empty.               *)
(***************************************************************************)
LogoutStart(r, g) == Enter(r, g, "logout_read")

LogoutRead(r) ==
    /\ At(r, "logout_read")
    /\ Goto(r, IF GetSession(request[r].gateway, request[r].token)
               THEN "logout_delete" ELSE "logout_orphan")
    /\ UNCHANGED <<now, cacheVars, listed, token, entered, faults, historyVars>>

LogoutAnswered(r) ==
    /\ loggedOut' = Mark(loggedOut, {request[r].token}, request[r].gateway)
    /\ Finish(r)

LogoutDelete(r) ==
    /\ \/ At(r, "logout_delete") /\ Goto(r, "logout_unlist") /\ UNCHANGED loggedOut
       \/ At(r, "logout_orphan") /\ LogoutAnswered(r)
    /\ DeleteSessions(request[r].gateway, {request[r].token})
    /\ UNCHANGED <<now, listed, token, entered, faults, issued, changed, swept>>

Without(set, j) == IF set.keys \subseteq {j} THEN NoSet ELSE [set EXCEPT !.keys = @ \ {j}]

LogoutUnlist(r) ==
    /\ At(r, "logout_unlist")
    /\ listed' = [listed EXCEPT ![UserOf(r)] = Without(@, request[r].token)]
    /\ LogoutAnswered(r)
    /\ UNCHANGED <<now, cacheVars, token, entered, faults, issued, deleted, changed, swept>>

----------------------------------------------------------------------------
(***************************************************************************)
(* AuthService.changePassword.  The sessions deleted are the members the   *)
(* set had when it was read; the set is deleted with those it has then.    *)
(* A request's known, the tokens its user had been issued when the         *)
(* password changed, is only for the history.                              *)
(***************************************************************************)
ChangeStart(r, g) == Enter(r, g, "change_call")

TokensOf(u) == {j \in issued : token[j].user = u}

ChangeCall(r) ==
    /\ At(r, "change_call")
    /\ \/ request' = [request EXCEPT ![r].step = "change_members", ![r].known = TokensOf(UserOf(r))]
       \/ Finish(r)    \* the user service refuses the old password
    /\ UNCHANGED <<now, cacheVars, listed, token, entered, faults, historyVars>>

\* Mutant: the set is deleted as soon as it is read.
ChangeMembersTaken(r) ==
    /\ At(r, "change_members")
    /\ request' = [request EXCEPT ![r].step = "change_delete", ![r].keys = listed[UserOf(r)].keys]
    /\ listed' = [listed EXCEPT ![UserOf(r)] = NoSet]
    /\ UNCHANGED <<now, cacheVars, token, entered, faults, historyVars>>

ChangeMembers(r) ==
    /\ At(r, "change_members")
    /\ request' = [request EXCEPT ![r].step = "change_delete", ![r].keys = listed[UserOf(r)].keys]
    /\ UNCHANGED <<now, cacheVars, listed, token, entered, faults, historyVars>>

ChangeDelete(r) ==
    /\ At(r, "change_delete")
    /\ DeleteSessions(request[r].gateway, request[r].keys)
    /\ Goto(r, "change_unlist")
    /\ UNCHANGED <<now, listed, token, entered, faults, issued, loggedOut, changed, swept>>

ChangeUnlist(r) ==
    /\ At(r, "change_unlist")
    /\ listed' = [listed EXCEPT ![UserOf(r)] = NoSet]
    /\ swept' = swept \cup (listed[UserOf(r)].keys \ request[r].keys)
    /\ changed' = Mark(changed, request[r].known, request[r].gateway)
    /\ Finish(r)
    /\ UNCHANGED <<now, cacheVars, token, entered, faults, issued, deleted, loggedOut>>

----------------------------------------------------------------------------
(***************************************************************************)
(* Faults.  A call of Redis or of the user service that is rejected ends   *)
(* the request with an error where it stands.  A gateway that stops loses  *)
(* its requests and its memory.                                            *)
(***************************************************************************)
Fault == faults < MaxFaults /\ faults' = faults + 1

Reject(r) ==
    /\ Fault
    /\ ~At(r, "idle")
    /\ Finish(r)
    /\ UNCHANGED <<now, cacheVars, listed, token, entered, historyVars>>

Restart(g) ==
    /\ Fault
    /\ memory' = [memory EXCEPT ![g] = [j \in Tokens |-> 0]]
    /\ request' = [r \in Requests |-> IF request[r].gateway = g THEN NoRequest ELSE request[r]]
    /\ UNCHANGED <<now, redis, listed, token, entered, historyVars>>

\* Time passes; what expires is deleted.  A set may expire between SADD and
\* EXPIRE of a login.
Tick ==
    /\ now < MaxTime
    /\ now' = now + 1
    /\ LET Live(until) == IF now' < until THEN until ELSE 0
           gone == {u \in Users : listed[u].until <= now'}
       IN /\ memory' = [g \in Gateways |-> [j \in Tokens |-> Live(memory[g][j])]]
          /\ redis' = [j \in Tokens |-> Live(redis[j])]
          /\ listed' = [u \in Users |-> IF u \in gone THEN NoSet ELSE listed[u]]
          /\ swept' = swept \cup {request[r].token : r \in {x \in Requests :
                                    At(x, "login_expire") /\ UserOf(x) \in gone}}
    /\ UNCHANGED <<token, request, entered, faults, issued, deleted, loggedOut, changed>>

Next ==
    \/ \E r \in Requests, g \in Gateways : LoginSign(r, g) \/ LogoutStart(r, g) \/ ChangeStart(r, g)
    \/ \E r \in Requests :
        \/ LoginCache(r) \/ LoginList(r) \/ LoginExpire(r)
        \/ LogoutRead(r) \/ LogoutDelete(r) \/ LogoutUnlist(r)
        \/ ChangeCall(r) \/ ChangeMembers(r) \/ ChangeDelete(r) \/ ChangeUnlist(r)
        \/ Reject(r)
    \/ \E g \in Gateways : Restart(g)
    \/ Tick

Spec == Init /\ [][Next]_vars

----------------------------------------------------------------------------
\* The type invariant.  A session, a token and a set with an expiry live no
\* longer than the seven days from now (auth.service.ts).
SessionsTypeOK ==
    /\ now \in 0..MaxTime /\ entered \in 0..MaxEntered /\ faults \in 0..MaxFaults
    /\ memory \in [Gateways -> [Tokens -> 0..(now + TTL)]]
    /\ redis \in [Tokens -> 0..(now + TTL)]
    /\ listed \in [Users -> [keys : SUBSET Tokens, until : 0..(now + TTL) \cup {NoExpiry}]]
    /\ \A u \in Users : listed[u].keys = {} <=> listed[u].until = 0
    /\ token \in [Tokens -> [user : Users, gateway : Gateways, until : 0..(now + TTL)] \cup {NoToken}]
    /\ request \in [Requests -> [step : Steps, gateway : Gateways \cup {Nil}, token : Tokens \cup {Nil},
                                 keys : SUBSET Tokens, known : SUBSET Tokens]]
    /\ issued \subseteq Tokens /\ swept \subseteq Tokens
    /\ {deleted, loggedOut, changed} \subseteq [Tokens -> SUBSET Gateways]

\* Once a logout is answered (AuthService.logout), its token is refused for
\* good by the gateway that answered and by every gateway that did not make
\* the token, whatever logins, password changes, failures and restarts
\* happen at the same time.  The gateway that made it may still hold the
\* session in memory when another one answered the logout.
LoggedOutIsRefused ==
    \A j \in Tokens, g \in Gateways :
        loggedOut[j] # {} /\ (g = token[j].gateway => g \in loggedOut[j]) => ~CanActivate(g, j)

\* Once a change of password is answered (AuthService.changePassword), the
\* tokens its user had been issued when the password changed are refused by
\* every gateway, also when earlier changes failed half way and days after
\* the login.  The gateway that made a token may still hold its session in
\* memory when another one deleted it first, and so took it off the set;
\* sessions the set has lost are not covered.
PasswordChangeEndsSessions ==
    \A j \in Tokens \ swept, g \in Gateways :
        changed[j] # {} /\ (g = token[j].gateway => deleted[j] \subseteq {g}) => ~CanActivate(g, j)

\* A session whose token was returned is a member of its user's set for as
\* long as Redis has it, so that a change of password finds it.  The set
\* loses a session in two ways only: a login adds it after a change of
\* password reads the members and before it deletes the set, or the set
\* expires between SADD and EXPIRE of the login (auth.service.ts).
LiveSessionsAreListed ==
    \A j \in issued \ swept : now < redis[j] => j \in listed[token[j].user].keys
=============================================================================
