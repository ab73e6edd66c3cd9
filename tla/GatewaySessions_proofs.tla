----------------------- MODULE GatewaySessions_proofs -----------------------
(***************************************************************************)
(* The gateway's sessions for any number of gateways, requests, users and  *)
(* tokens: types, that a logout and a change of password end the sessions  *)
(* they should, and that a live session stays listed.                      *)
(***************************************************************************)
EXTENDS GatewaySessions, TLAPS

LoginSteps == {"login_cache", "login_list", "login_expire"}

\* A request in progress holds the token of a session: a new one while it
\* logs in, one that was returned to a client otherwise.  The sessions it
\* read and those it knows are its user's.
RequestsHoldTokens ==
    \A r \in Requests : ~At(r, "idle") =>
        /\ request[r].gateway \in Gateways
        /\ request[r].token \in Tokens /\ token[request[r].token] # NoToken
        /\ request[r].step \in LoginSteps =>
              request[r].token \notin issued /\ token[request[r].token].gateway = request[r].gateway
        /\ request[r].step \notin LoginSteps => request[r].token \in issued
        /\ \A k \in request[r].keys : token[k] # NoToken /\ token[k].user = UserOf(r)
        /\ \A k \in request[r].known : k \in issued /\ token[k].user = UserOf(r)

\* Two logins in progress make different tokens.
LoginsAreApart ==
    \A r, q \in Requests :
        r # q /\ request[r].step \in LoginSteps /\ request[q].step \in LoginSteps
            => request[r].token # request[q].token

\* A user's set holds that user's tokens.
SetsHoldTokens ==
    /\ \A j \in issued : token[j] # NoToken
    /\ \A u \in Users : \A j \in listed[u].keys : token[j] # NoToken /\ token[j].user = u

\* A login's token is in no set, and no change of password has read it,
\* before SADD.
FreshIsUnlisted ==
    \A r \in Requests : request[r].step \in {"login_cache", "login_list"} =>
        /\ \A u \in Users : request[r].token \notin listed[u].keys
        /\ \A q \in Requests : ~At(q, "idle") => request[r].token \notin request[q].keys

\* Only the gateway that made a token has its session in memory, and then
\* Redis has it too unless another gateway deleted it.
MemoryFollowsRedis ==
    \A g \in Gateways, j \in Tokens : memory[g][j] # 0 =>
        /\ g = token[j].gateway
        /\ redis[j] = memory[g][j] \/ ~(deleted[j] \subseteq {g})

\* A session is gone from Redis and from the memory of the gateway that
\* answers a logout, and does not come back.
LogoutsAreDone ==
    /\ \A j \in Tokens : loggedOut[j] # {} =>
        j \in issued /\ redis[j] = 0 /\ \A g \in loggedOut[j] : memory[g][j] = 0
    /\ \A r \in Requests : At(r, "logout_unlist") =>
        redis[request[r].token] = 0 /\ memory[request[r].gateway][request[r].token] = 0

\* A set has the sessions Redis has, and lives as long as they do.
SetsOutliveSessions ==
    /\ \A j \in issued \ swept : redis[j] # 0 =>
        j \in listed[token[j].user].keys /\ redis[j] <= listed[token[j].user].until
    /\ \A r \in Requests :
        At(r, "login_expire") /\ request[r].token \notin swept /\ redis[request[r].token] # 0
            => request[r].token \in listed[UserOf(r)].keys
    /\ \A r \in Requests : At(r, "change_unlist") => \A k \in request[r].keys : redis[k] = 0

\* A change of password has read, or does not need, the sessions it knows of.
ChangesAreDone ==
    /\ \A j \in Tokens \ swept : changed[j] # {} => j \in issued /\ redis[j] = 0
    /\ \A r \in Requests : \A k \in request[r].known \ swept :
        /\ At(r, "change_delete") => k \in request[r].keys \/ redis[k] = 0
        /\ At(r, "change_unlist") => redis[k] = 0

----------------------------------------------------------------------------
\* What a token that was signed says.
LEMMA SignedToken ==
    ASSUME SessionsTypeOK, NEW j \in Tokens, token[j] # NoToken
    PROVE  token[j].user \in Users /\ token[j].gateway \in Gateways
BY DEF SessionsTypeOK

\* The user of a request in progress is one.
LEMMA RequestUser ==
    ASSUME SessionsTypeOK, RequestsHoldTokens, NEW r \in Requests, ~At(r, "idle")
    PROVE  /\ request[r].gateway \in Gateways /\ request[r].token \in Tokens
           /\ UserOf(r) \in Users
BY SignedToken DEF RequestsHoldTokens, UserOf

\* The types of the initial state.
LEMMA SessionsTypeInit ==
    ASSUME Init
    PROVE  SessionsTypeOK
<1>1. NoSet \in [keys : SUBSET Tokens, until : 0..(now + TTL) \cup {NoExpiry}]
  BY SessionsAssumption DEF NoSet, Init
<1>2. NoRequest \in [step : Steps, gateway : Gateways \cup {Nil}, token : Tokens \cup {Nil},
                     keys : SUBSET Tokens, known : SUBSET Tokens]
  BY DEF NoRequest, Steps
<1> QED
  BY <1>1, <1>2, SessionsAssumption DEF Init, SessionsTypeOK, NoSet

\* Every step keeps the types.
LEMMA SessionsTypeStep ==
    ASSUME SessionsTypeOK, RequestsHoldTokens, Next
    PROVE  SessionsTypeOK'
<1> DEFINE RequestType == [step : Steps, gateway : Gateways \cup {Nil}, token : Tokens \cup {Nil},
                           keys : SUBSET Tokens, known : SUBSET Tokens]
           TokenType == [user : Users, gateway : Gateways, until : 0..(now + TTL)] \cup {NoToken}
           Past == 0..(now + TTL)
           OthersTyped == /\ now \in 0..MaxTime /\ entered \in 0..MaxEntered /\ faults \in 0..MaxFaults
                          /\ memory \in [Gateways -> [Tokens -> Past]]
                          /\ redis \in [Tokens -> Past]
                          /\ listed \in [Users -> [keys : SUBSET Tokens, until : Past \cup {NoExpiry}]]
                          /\ \A u \in Users : listed[u].keys = {} <=> listed[u].until = 0
                          /\ issued \subseteq Tokens /\ swept \subseteq Tokens
                          /\ {deleted, loggedOut, changed} \subseteq [Tokens -> SUBSET Gateways]
<1>a. /\ request \in [Requests -> RequestType]
      /\ token \in [Tokens -> TokenType]
      /\ OthersTyped
  BY DEF SessionsTypeOK
<1>b. SUFFICES /\ request' \in [Requests -> RequestType]
               /\ token' \in [Tokens -> TokenType']
               /\ OthersTyped'
  BY DEF SessionsTypeOK
<1>c. NoRequest \in RequestType
  BY DEF NoRequest, Steps
<1>d. \A step \in Steps, g \in Gateways, j \in Tokens :
        [NoRequest EXCEPT !.step = step, !.gateway = g, !.token = j] \in RequestType
  BY DEF NoRequest
<1>e. \A rq \in RequestType, step \in Steps : [rq EXCEPT !.step = step] \in RequestType
  OBVIOUS
<1>g. \A rq \in RequestType, S \in SUBSET Tokens :
        [rq EXCEPT !.keys = S] \in RequestType /\ [rq EXCEPT !.known = S] \in RequestType
  OBVIOUS
<1>f. now + TTL \in Past /\ now + TTL > 0 /\ 0 \in Past
  BY <1>a, SessionsAssumption
<1> HIDE DEF RequestType, TokenType
<1>1. ASSUME NEW r \in Requests, NEW g \in Gateways, LoginSign(r, g)
      PROVE  request' \in [Requests -> RequestType] /\ token' \in [Tokens -> TokenType'] /\ OthersTyped'
  <2>1. OthersTyped'
    BY <1>1, <1>a DEF LoginSign, cacheVars, historyVars
  <2>2. PICK u \in Users, j \in Tokens :
            /\ token' = [token EXCEPT ![j] = [user |-> u, gateway |-> g, until |-> now + TTL]]
            /\ request' = [request EXCEPT ![r] =
                              [NoRequest EXCEPT !.step = "login_cache", !.gateway = g, !.token = j]]
    BY <1>1 DEF LoginSign
  <2>3. request' \in [Requests -> RequestType]
    BY <2>2, <1>a, <1>d DEF Steps
  <2>4. [user |-> u, gateway |-> g, until |-> now + TTL] \in TokenType
    BY <1>f DEF TokenType
  <2>5. TokenType' = TokenType
    BY <1>1 DEF LoginSign, TokenType
  <2> QED
    BY <2>1, <2>2, <2>3, <2>4, <2>5, <1>a
<1>2. ASSUME NEW r \in Requests, NEW g \in Gateways, LogoutStart(r, g) \/ ChangeStart(r, g)
      PROVE  request' \in [Requests -> RequestType] /\ token' \in [Tokens -> TokenType'] /\ OthersTyped'
  <2>1. PICK step \in {"logout_read", "change_call"} : Enter(r, g, step)
    BY <1>2 DEF LogoutStart, ChangeStart
  <2>2. OthersTyped'
    BY <2>1, <1>a, SessionsAssumption DEF Enter, cacheVars, historyVars
  <2>3. token' \in [Tokens -> TokenType']
    BY <2>1, <1>a DEF Enter, TokenType
  <2>4. request' \in [Requests -> RequestType]
    <3>1. PICK j \in issued : request' = [request EXCEPT ![r] =
                                [NoRequest EXCEPT !.step = step, !.gateway = g, !.token = j]]
      BY <2>1 DEF Enter
    <3>2. j \in Tokens /\ step \in Steps
      BY <1>a DEF Steps
    <3> QED
      BY <3>1, <3>2, <1>a, <1>d
  <2> QED
    BY <2>2, <2>3, <2>4
<1>3. ASSUME NEW r \in Requests, LoginCache(r)
      PROVE  request' \in [Requests -> RequestType] /\ token' \in [Tokens -> TokenType'] /\ OthersTyped'
  <2>1. request' \in [Requests -> RequestType]
    BY <1>3, <1>a, <1>c, <1>e DEF LoginCache, Goto, Steps
  <2>2. token' \in [Tokens -> TokenType']
    BY <1>3, <1>a DEF LoginCache, TokenType
  <2>3. OthersTyped'
    BY <1>3, <1>a, <1>f DEF LoginCache, CacheSet, historyVars
  <2> QED
    BY <2>1, <2>2, <2>3
<1>4. ASSUME NEW r \in Requests, LoginList(r)
      PROVE  request' \in [Requests -> RequestType] /\ token' \in [Tokens -> TokenType'] /\ OthersTyped'
  <2>1. request' \in [Requests -> RequestType]
    BY <1>4, <1>a, <1>c, <1>e DEF LoginList, Goto, Steps
  <2>2. token' \in [Tokens -> TokenType']
    BY <1>4, <1>a DEF LoginList, TokenType
  <2>3. OthersTyped'
    <3> DEFINE set == listed[UserOf(r)]
               new == [keys |-> set.keys \cup {request[r].token},
                       until |-> IF set = NoSet THEN NoExpiry ELSE set.until]
    <3>1. UserOf(r) \in Users /\ request[r].token \in Tokens
      BY <1>4, RequestUser DEF LoginList, At
    <3>2. /\ set \in [keys : SUBSET Tokens, until : Past \cup {NoExpiry}]
          /\ set.keys = {} <=> set.until = 0
      BY <1>a, <3>1
    <3>3. NoExpiry \in Nat /\ NoExpiry # 0
      BY SessionsAssumption DEF NoExpiry
    <3>4. set.until = 0 => set = NoSet
      BY <3>2 DEF NoSet
    <3>5. new \in [keys : SUBSET Tokens, until : Past \cup {NoExpiry}] /\ new.keys # {} /\ new.until # 0
      BY <3>1, <3>2, <3>3, <3>4
    <3>6. listed' = [listed EXCEPT ![UserOf(r)] = new]
      BY <1>4 DEF LoginList
    <3> HIDE DEF new
    <3>7. /\ listed' \in [Users -> [keys : SUBSET Tokens, until : Past \cup {NoExpiry}]]
          /\ \A u \in Users : listed'[u].keys = {} <=> listed'[u].until = 0
      BY <3>1, <3>5, <3>6, <1>a
    <3> QED
      BY <1>4, <3>7, <1>a DEF LoginList, cacheVars, historyVars
  <2> QED
    BY <2>1, <2>2, <2>3
<1>5. ASSUME NEW r \in Requests, LoginExpire(r)
      PROVE  request' \in [Requests -> RequestType] /\ token' \in [Tokens -> TokenType'] /\ OthersTyped'
  <2>1. request' \in [Requests -> RequestType]
    BY <1>5, <1>a, <1>c, <1>e DEF LoginExpire, Finish
  <2>2. token' \in [Tokens -> TokenType']
    BY <1>5, <1>a DEF LoginExpire, TokenType
  <2>3. OthersTyped'
    <3> DEFINE set == listed[UserOf(r)]
               new == [set EXCEPT !.until = IF set = NoSet THEN 0 ELSE now + TTL]
    <3>1. UserOf(r) \in Users /\ request[r].token \in Tokens
      BY <1>5, RequestUser DEF LoginExpire, At
    <3>2. /\ set \in [keys : SUBSET Tokens, until : Past \cup {NoExpiry}]
          /\ set.keys = {} <=> set.until = 0
      BY <1>a, <3>1
    <3>2a. listed' = [listed EXCEPT ![UserOf(r)] = new]
      BY <1>5, <1>a, <3>1 DEF LoginExpire
    <3> HIDE DEF set
    <3>3a. ASSUME set = NoSet PROVE set.keys = {}
      BY <3>3a DEF NoSet
    <3>3b. ASSUME set.keys = {} PROVE set = NoSet
      BY <3>2, <3>3b DEF NoSet
    <3>3. set = NoSet <=> set.keys = {}
      BY <3>3a, <3>3b
    <3>4. new \in [keys : SUBSET Tokens, until : Past \cup {NoExpiry}] /\ (new.keys = {} <=> new.until = 0)
      <4>1. CASE set = NoSet
        BY <3>2, <3>3, <4>1, <1>f
      <4>2. CASE set # NoSet
        BY <3>2, <3>3, <4>2, <1>f
      <4> QED
        BY <4>1, <4>2
    <3> HIDE DEF new
    <3>6. /\ listed' \in [Users -> [keys : SUBSET Tokens, until : Past \cup {NoExpiry}]]
          /\ \A u \in Users : listed'[u].keys = {} <=> listed'[u].until = 0
      BY <3>1, <3>4, <3>2a, <1>a
    <3> QED
      BY <1>5, <3>1, <3>6, <1>a DEF LoginExpire, cacheVars
  <2> QED
    BY <2>1, <2>2, <2>3
<1>6. ASSUME NEW r \in Requests, LogoutRead(r) \/ ChangeCall(r) \/ ChangeMembers(r)
      PROVE  request' \in [Requests -> RequestType] /\ token' \in [Tokens -> TokenType'] /\ OthersTyped'
  <2>1. request' \in [Requests -> RequestType]
    <3>1. CASE LogoutRead(r)
      BY <3>1, <1>a, <1>e DEF LogoutRead, Goto, Steps
    <3>2. CASE ChangeCall(r)
      <4>1. CASE Finish(r)
        BY <4>1, <1>a, <1>c DEF Finish
      <4>2. CASE ~Finish(r)
        <5>1. request' = [request EXCEPT ![r] = [request[r] EXCEPT !.step = "change_members",
                                                                   !.known = TokensOf(UserOf(r))]]
          BY <3>2, <4>2, <1>a DEF ChangeCall, RequestType
        <5>2. TokensOf(UserOf(r)) \in SUBSET Tokens
          BY <1>a DEF TokensOf
        <5>3. [request[r] EXCEPT !.step = "change_members", !.known = TokensOf(UserOf(r))] \in RequestType
          BY <5>2, <1>a, <1>e, <1>g DEF Steps
        <5> QED
          BY <5>1, <5>3, <1>a
      <4> QED
        BY <4>1, <4>2
    <3>3. CASE ChangeMembers(r)
      <4>1. UserOf(r) \in Users
        BY <3>3, RequestUser DEF ChangeMembers, At
      <4> QED
        <5>1. request' = [request EXCEPT ![r] = [request[r] EXCEPT !.step = "change_delete",
                                                                   !.keys = listed[UserOf(r)].keys]]
          BY <3>3, <1>a DEF ChangeMembers, RequestType
        <5>2. listed[UserOf(r)].keys \in SUBSET Tokens
          BY <4>1, <1>a
        <5>3. [request[r] EXCEPT !.step = "change_delete", !.keys = listed[UserOf(r)].keys] \in RequestType
          BY <5>2, <1>a, <1>e, <1>g DEF Steps
        <5> QED
          BY <5>1, <5>3, <1>a
    <3> QED
      BY <1>6, <3>1, <3>2, <3>3
  <2>2. token' \in [Tokens -> TokenType']
    BY <1>6, <1>a DEF LogoutRead, ChangeCall, ChangeMembers, TokenType
  <2>3. OthersTyped'
    BY <1>6, <1>a, <1>f DEF LogoutRead, ChangeCall, ChangeMembers, cacheVars, historyVars
  <2> QED
    BY <2>1, <2>2, <2>3
<1>7. ASSUME NEW r \in Requests, LogoutDelete(r)
      PROVE  request' \in [Requests -> RequestType] /\ token' \in [Tokens -> TokenType'] /\ OthersTyped'
  <2>1. request' \in [Requests -> RequestType]
    <3>1. CASE Goto(r, "logout_unlist")
      BY <3>1, <1>a, <1>e DEF Goto, Steps
    <3>2. CASE Finish(r)
      BY <3>2, <1>a, <1>c DEF Finish
    <3> QED
      BY <1>7, <3>1, <3>2 DEF LogoutDelete, LogoutAnswered
  <2>2. token' \in [Tokens -> TokenType']
    BY <1>7, <1>a DEF LogoutDelete, TokenType
  <2>3. OthersTyped'
    BY <1>7, <1>a, <1>f, RequestUser
       DEF LogoutDelete, LogoutAnswered, DeleteSessions, CacheDelete, Mark, At
  <2> QED
    BY <2>1, <2>2, <2>3
<1>8. ASSUME NEW r \in Requests, LogoutUnlist(r)
      PROVE  request' \in [Requests -> RequestType] /\ token' \in [Tokens -> TokenType'] /\ OthersTyped'
  <2>1. request' \in [Requests -> RequestType]
    BY <1>8, <1>a, <1>c, <1>e DEF LogoutUnlist, LogoutAnswered, Finish
  <2>2. token' \in [Tokens -> TokenType']
    BY <1>8, <1>a DEF LogoutUnlist, TokenType
  <2>3. OthersTyped'
    BY <1>8, <1>a, <1>f, RequestUser DEF LogoutUnlist, LogoutAnswered, Without, Mark, At, cacheVars, NoSet
  <2> QED
    BY <2>1, <2>2, <2>3
<1>9. ASSUME NEW r \in Requests, ChangeDelete(r)
      PROVE  request' \in [Requests -> RequestType] /\ token' \in [Tokens -> TokenType'] /\ OthersTyped'
  <2>1. request' \in [Requests -> RequestType]
    BY <1>9, <1>a, <1>c, <1>e DEF ChangeDelete, Goto, Steps
  <2>2. token' \in [Tokens -> TokenType']
    BY <1>9, <1>a DEF ChangeDelete, TokenType
  <2>3. OthersTyped'
    BY <1>9, <1>a, <1>f, RequestUser DEF ChangeDelete, DeleteSessions, CacheDelete, Mark, At
  <2> QED
    BY <2>1, <2>2, <2>3
<1>10. ASSUME NEW r \in Requests, ChangeUnlist(r)
      PROVE  request' \in [Requests -> RequestType] /\ token' \in [Tokens -> TokenType'] /\ OthersTyped'
  <2>1. request' \in [Requests -> RequestType]
    BY <1>10, <1>a, <1>c, <1>e DEF ChangeUnlist, Finish
  <2>2. token' \in [Tokens -> TokenType']
    BY <1>10, <1>a DEF ChangeUnlist, TokenType
  <2>3. OthersTyped'
    BY <1>10, <1>a, <1>f, RequestUser DEF ChangeUnlist, Mark, At, cacheVars, NoSet
  <2> QED
    BY <2>1, <2>2, <2>3
<1>11. ASSUME NEW r \in Requests, Reject(r)
      PROVE  request' \in [Requests -> RequestType] /\ token' \in [Tokens -> TokenType'] /\ OthersTyped'
  <2>1. request' \in [Requests -> RequestType]
    BY <1>11, <1>a, <1>c, <1>e DEF Reject, Finish
  <2>2. token' \in [Tokens -> TokenType']
    BY <1>11, <1>a DEF Reject, TokenType
  <2>3. OthersTyped'
    BY <1>11, <1>a, <1>f, SessionsAssumption DEF Reject, Fault, cacheVars, historyVars
  <2> QED
    BY <2>1, <2>2, <2>3
<1>12. ASSUME NEW g \in Gateways, Restart(g)
      PROVE  request' \in [Requests -> RequestType] /\ token' \in [Tokens -> TokenType'] /\ OthersTyped'
  BY <1>12, <1>a, <1>c, SessionsAssumption DEF Restart, Fault, historyVars, TokenType
<1>13. ASSUME Tick
      PROVE  request' \in [Requests -> RequestType] /\ token' \in [Tokens -> TokenType'] /\ OthersTyped'
  <2>1. OthersTyped'
    BY <1>13, <1>a, RequestUser, SessionsAssumption DEF Tick, At, NoSet
  <2>2. token' \in [Tokens -> TokenType']
    BY <1>13, <1>a, SessionsAssumption DEF Tick, TokenType
  <2> QED
    BY <1>13, <1>a, <2>1, <2>2 DEF Tick
<1> QED
  BY <1>1, <1>2, <1>3, <1>4, <1>5, <1>6, <1>7, <1>8, <1>9, <1>10, <1>11, <1>12, <1>13 DEF Next
----------------------------------------------------------------------------
(***************************************************************************)
(* What the handlers do, request by request and session by session.        *)
(***************************************************************************)
\* A request that enters holds a token that was returned.
Entered(r, g) ==
    /\ At(r, "idle")
    /\ request'[r].step \in {"logout_read", "change_call"}
    /\ request'[r].gateway = g /\ request'[r].token \in issued
    /\ request'[r].keys = {} /\ request'[r].known = {}
    /\ \A q \in Requests \ {r} : request'[q] = request[q]
    /\ UNCHANGED <<now, memory, redis, listed, token, issued, deleted, loggedOut, changed, swept>>

\* A logout or a password change that starts only records its own request.
LEMMA EnterEffect ==
    ASSUME SessionsTypeOK, NEW r \in Requests, NEW g \in Gateways,
           LogoutStart(r, g) \/ ChangeStart(r, g)
    PROVE  Entered(r, g)
<1> USE DEF Entered
<1>1. PICK step \in {"logout_read", "change_call"} : Enter(r, g, step)
  BY DEF LogoutStart, ChangeStart
<1>2. PICK j \in issued : request' = [request EXCEPT ![r] =
                                [NoRequest EXCEPT !.step = step, !.gateway = g, !.token = j]]
  BY <1>1 DEF Enter
<1>3. /\ request'[r] = [NoRequest EXCEPT !.step = step, !.gateway = g, !.token = j]
      /\ \A q \in Requests \ {r} : request'[q] = request[q]
  BY <1>2 DEF SessionsTypeOK
<1>4. /\ request'[r].step = step /\ request'[r].gateway = g /\ request'[r].token = j
      /\ request'[r].keys = {} /\ request'[r].known = {}
  BY <1>3 DEF NoRequest
<1> QED
  BY <1>1, <1>3, <1>4 DEF Enter, cacheVars, historyVars

\* A change of password is refused, or goes on to the user's set.
Called(r) ==
    /\ At(r, "change_call")
    /\ \/ request'[r].step = "idle" /\ request'[r].known = {}
       \/ /\ request'[r].step = "change_members"
          /\ request'[r].gateway = request[r].gateway /\ request'[r].token = request[r].token
          /\ request'[r].keys = request[r].keys /\ request'[r].known = TokensOf(UserOf(r))
    /\ \A q \in Requests \ {r} : request'[q] = request[q]
    /\ UNCHANGED <<now, memory, redis, listed, token, issued, deleted, loggedOut, changed, swept>>

\* The answer of the user service moves one request on and leaves Redis alone.
LEMMA ChangeCallEffect ==
    ASSUME SessionsTypeOK, NEW r \in Requests, ChangeCall(r)
    PROVE  Called(r)
<1> USE DEF Called
<1>1. CASE Finish(r)
  BY <1>1 DEF ChangeCall, Finish, NoRequest, cacheVars, historyVars, SessionsTypeOK
<1>2. CASE request' = [request EXCEPT ![r].step = "change_members", ![r].known = TokensOf(UserOf(r))]
  BY <1>2 DEF ChangeCall, cacheVars, historyVars, SessionsTypeOK
<1> QED
  BY <1>1, <1>2 DEF ChangeCall

\* Deleting sessions takes them out of one gateway's memory and of Redis.
LEMMA DeleteEffect ==
    ASSUME SessionsTypeOK, NEW g \in Gateways, NEW keys, DeleteSessions(g, keys)
    PROVE  /\ \A j \in Tokens : redis'[j] = IF j \in keys THEN 0 ELSE redis[j]
           /\ \A x \in Gateways, j \in Tokens :
                memory'[x][j] = IF x = g /\ j \in keys THEN 0 ELSE memory[x][j]
           /\ \A j \in Tokens : deleted'[j] = IF j \in keys THEN deleted[j] \cup {g} ELSE deleted[j]
BY DEF DeleteSessions, CacheDelete, Mark, SessionsTypeOK

\* A logout deletes its session and is answered, or goes on to the set.
LogoutDeleted(r) ==
    /\ ~At(r, "idle") /\ request[r].step \notin LoginSteps
    /\ \A j \in Tokens : redis'[j] = IF j = request[r].token THEN 0 ELSE redis[j]
    /\ \A x \in Gateways, j \in Tokens : memory'[x][j] =
         IF x = request[r].gateway /\ j = request[r].token THEN 0 ELSE memory[x][j]
    /\ \A j \in Tokens : deleted'[j] =
         IF j = request[r].token THEN deleted[j] \cup {request[r].gateway} ELSE deleted[j]
    /\ \/ /\ loggedOut' = loggedOut
          /\ request'[r].step = "logout_unlist"
          /\ request'[r].gateway = request[r].gateway /\ request'[r].token = request[r].token
          /\ request'[r].keys = request[r].keys /\ request'[r].known = request[r].known
       \/ /\ request'[r].step = "idle" /\ request'[r].known = {}
          /\ \A j \in Tokens : loggedOut'[j] =
               IF j = request[r].token THEN loggedOut[j] \cup {request[r].gateway} ELSE loggedOut[j]
    /\ \A q \in Requests \ {r} : request'[q] = request[q]
    /\ UNCHANGED <<now, listed, token, issued, changed, swept>>

\* Logout deletes its session from Redis and from the memory of its own gateway.
LEMMA LogoutDeleteEffect ==
    ASSUME SessionsTypeOK, RequestsHoldTokens, NEW r \in Requests, LogoutDelete(r)
    PROVE  LogoutDeleted(r)
<1> USE DEF LogoutDeleted
<1>1. ~At(r, "idle") /\ request[r].step \notin LoginSteps
  BY DEF LogoutDelete, At, LoginSteps
<1>2. request[r].gateway \in Gateways
  BY <1>1, RequestUser
<1>3. DeleteSessions(request[r].gateway, {request[r].token})
  BY DEF LogoutDelete
<1>6. /\ \A j \in Tokens : redis'[j] = IF j = request[r].token THEN 0 ELSE redis[j]
      /\ \A x \in Gateways, j \in Tokens : memory'[x][j] =
            IF x = request[r].gateway /\ j = request[r].token THEN 0 ELSE memory[x][j]
      /\ \A j \in Tokens : deleted'[j] =
            IF j = request[r].token THEN deleted[j] \cup {request[r].gateway} ELSE deleted[j]
  <2> DEFINE keys == {request[r].token}
  <2>1. \A j : j \in keys <=> j = request[r].token
    OBVIOUS
  <2>2. DeleteSessions(request[r].gateway, keys)
    BY <1>3
  <2> HIDE DEF keys
  <2>3. /\ \A j \in Tokens : redis'[j] = IF j \in keys THEN 0 ELSE redis[j]
        /\ \A x \in Gateways, j \in Tokens :
             memory'[x][j] = IF x = request[r].gateway /\ j \in keys THEN 0 ELSE memory[x][j]
        /\ \A j \in Tokens :
             deleted'[j] = IF j \in keys THEN deleted[j] \cup {request[r].gateway} ELSE deleted[j]
    BY <1>2, <2>2, DeleteEffect
  <2> QED
    BY <2>1, <2>3
<1>4. CASE Goto(r, "logout_unlist") /\ UNCHANGED loggedOut
  <2>1. /\ request'[r] = [request[r] EXCEPT !.step = "logout_unlist"]
        /\ \A q \in Requests \ {r} : request'[q] = request[q]
    BY <1>4 DEF Goto, SessionsTypeOK
  <2>2. /\ request'[r].step = "logout_unlist"
        /\ request'[r].gateway = request[r].gateway /\ request'[r].token = request[r].token
        /\ request'[r].keys = request[r].keys /\ request'[r].known = request[r].known
    BY <2>1
  <2> QED
    BY <1>1, <1>6, <1>4, <2>1, <2>2 DEF LogoutDelete
<1>5. CASE LogoutAnswered(r)
  BY <1>1, <1>6, <1>5 DEF LogoutAnswered, Mark, Finish, LogoutDelete, SessionsTypeOK, NoRequest
<1> QED
  BY <1>4, <1>5 DEF LogoutDelete

\* A logout takes its session out of the set and is answered.
LogoutUnlisted(r) ==
    /\ At(r, "logout_unlist")
    /\ \A u \in Users \ {UserOf(r)} : listed'[u] = listed[u]
    /\ listed'[UserOf(r)].keys = listed[UserOf(r)].keys \ {request[r].token}
    /\ listed'[UserOf(r)].keys # {} => listed'[UserOf(r)].until = listed[UserOf(r)].until
    /\ \A j \in Tokens : loggedOut'[j] =
         IF j = request[r].token THEN loggedOut[j] \cup {request[r].gateway} ELSE loggedOut[j]
    /\ request'[r].step = "idle" /\ request'[r].known = {}
    /\ \A q \in Requests \ {r} : request'[q] = request[q]
    /\ UNCHANGED <<now, memory, redis, token, issued, deleted, changed, swept>>

\* Logout's second Redis call takes the key off the user's set.
LEMMA LogoutUnlistEffect ==
    ASSUME SessionsTypeOK, RequestsHoldTokens, NEW r \in Requests, LogoutUnlist(r)
    PROVE  LogoutUnlisted(r)
<1> USE DEF LogoutUnlisted
<1>1. UserOf(r) \in Users /\ At(r, "logout_unlist")
  BY RequestUser DEF LogoutUnlist, At
<1>2. listed' = [listed EXCEPT ![UserOf(r)] = Without(listed[UserOf(r)], request[r].token)]
  BY DEF LogoutUnlist
<1>3. listed[UserOf(r)].keys \in SUBSET Tokens /\ DOMAIN listed = Users
      /\ listed[UserOf(r)] = [keys |-> listed[UserOf(r)].keys, until |-> listed[UserOf(r)].until]
  BY <1>1 DEF SessionsTypeOK
<1>4. /\ \A u \in Users \ {UserOf(r)} : listed'[u] = listed[u]
      /\ listed'[UserOf(r)] = Without(listed[UserOf(r)], request[r].token)
  BY <1>1, <1>2, <1>3
<1>5. /\ listed'[UserOf(r)].keys = listed[UserOf(r)].keys \ {request[r].token}
      /\ listed'[UserOf(r)].keys # {} => listed'[UserOf(r)].until = listed[UserOf(r)].until
  BY <1>3, <1>4 DEF Without, NoSet
<1>6. /\ \A j \in Tokens : loggedOut'[j] =
            IF j = request[r].token THEN loggedOut[j] \cup {request[r].gateway} ELSE loggedOut[j]
      /\ request'[r].step = "idle" /\ request'[r].known = {}
      /\ \A q \in Requests \ {r} : request'[q] = request[q]
  BY DEF LogoutUnlist, LogoutAnswered, Mark, Finish, NoRequest, SessionsTypeOK
<1> QED
  BY <1>1, <1>4, <1>5, <1>6 DEF LogoutUnlist, cacheVars

\* A login adds its session to the user's set.
LoginListed(r) ==
    /\ At(r, "login_list") /\ UserOf(r) \in Users
    /\ \A u \in Users \ {UserOf(r)} : listed'[u] = listed[u]
    /\ listed'[UserOf(r)].keys = listed[UserOf(r)].keys \cup {request[r].token}
    /\ listed[UserOf(r)].keys # {} => listed'[UserOf(r)].until = listed[UserOf(r)].until
    /\ request'[r].step = "login_expire"
    /\ request'[r].gateway = request[r].gateway /\ request'[r].token = request[r].token
    /\ request'[r].keys = request[r].keys /\ request'[r].known = request[r].known
    /\ \A q \in Requests \ {r} : request'[q] = request[q]
    /\ UNCHANGED <<now, memory, redis, token, issued, deleted, loggedOut, changed, swept>>

\* Login's SADD puts the new key in the user's set.
LEMMA LoginListEffect ==
    ASSUME SessionsTypeOK, RequestsHoldTokens, NEW r \in Requests, LoginList(r)
    PROVE  LoginListed(r)
<1> USE DEF LoginListed
<1>1. UserOf(r) \in Users /\ At(r, "login_list")
  BY RequestUser DEF LoginList, At
<1>2. /\ \A u \in Users \ {UserOf(r)} : listed'[u] = listed[u]
      /\ listed'[UserOf(r)] = [keys |-> listed[UserOf(r)].keys \cup {request[r].token},
                               until |-> IF listed[UserOf(r)] = NoSet THEN NoExpiry
                                         ELSE listed[UserOf(r)].until]
  BY <1>1 DEF LoginList, SessionsTypeOK
<1>3. listed[UserOf(r)].keys # {} => listed[UserOf(r)] # NoSet
  BY DEF NoSet
<1>4. /\ listed'[UserOf(r)].keys = listed[UserOf(r)].keys \cup {request[r].token}
      /\ listed[UserOf(r)].keys # {} => listed'[UserOf(r)].until = listed[UserOf(r)].until
  BY <1>2, <1>3
<1> QED
  BY <1>1, <1>2, <1>4 DEF LoginList, Goto, cacheVars, historyVars, SessionsTypeOK

\* A login renews the set, if there is one, and returns its token.
LoginReturned(r) ==
    /\ At(r, "login_expire") /\ UserOf(r) \in Users
    /\ \A u \in Users \ {UserOf(r)} : listed'[u] = listed[u]
    /\ listed'[UserOf(r)].keys = listed[UserOf(r)].keys
    /\ listed[UserOf(r)].keys # {} => listed'[UserOf(r)].until = now + TTL
    /\ issued' = issued \cup {request[r].token}
    /\ request'[r].step = "idle" /\ request'[r].known = {}
    /\ \A q \in Requests \ {r} : request'[q] = request[q]
    /\ UNCHANGED <<now, memory, redis, token, deleted, loggedOut, changed, swept>>

\* Login's EXPIRE renews the set's lifetime and answers the request.
LEMMA LoginExpireEffect ==
    ASSUME SessionsTypeOK, RequestsHoldTokens, NEW r \in Requests, LoginExpire(r)
    PROVE  LoginReturned(r)
<1> USE DEF LoginReturned
<1>1. UserOf(r) \in Users /\ At(r, "login_expire")
  BY RequestUser DEF LoginExpire, At
<1>2. /\ \A u \in Users \ {UserOf(r)} : listed'[u] = listed[u]
      /\ listed'[UserOf(r)] = [listed[UserOf(r)] EXCEPT !.until =
                                  IF listed[UserOf(r)] = NoSet THEN 0 ELSE now + TTL]
  BY <1>1 DEF LoginExpire, SessionsTypeOK
<1>3. listed[UserOf(r)].keys # {} => listed[UserOf(r)] # NoSet
  BY DEF NoSet
<1>4. /\ listed'[UserOf(r)].keys = listed[UserOf(r)].keys
      /\ listed[UserOf(r)].keys # {} => listed'[UserOf(r)].until = now + TTL
  BY <1>1, <1>2, <1>3
<1> QED
  BY <1>1, <1>2, <1>4 DEF LoginExpire, Finish, cacheVars, NoRequest, SessionsTypeOK

----------------------------------------------------------------------------
\* Requests keep holding the tokens they should.
LEMMA HoldStep ==
    ASSUME SessionsTypeOK, RequestsHoldTokens, LoginsAreApart, SetsHoldTokens, Next
    PROVE  RequestsHoldTokens'
<1>1. ASSUME NEW r \in Requests, NEW g \in Gateways, LoginSign(r, g) PROVE RequestsHoldTokens'
  BY <1>1, SessionsAssumption
     DEF LoginSign, historyVars, NoRequest, NoToken, At, UserOf, RequestsHoldTokens,
         SetsHoldTokens, LoginSteps, SessionsTypeOK
<1>2. ASSUME NEW r \in Requests, NEW g \in Gateways, LogoutStart(r, g) \/ ChangeStart(r, g)
      PROVE  RequestsHoldTokens'
  <2>1. Entered(r, g)
    BY <1>2, EnterEffect
  <2>2. issued \subseteq Tokens
    BY DEF SessionsTypeOK
  <2> QED
    BY <2>1, <2>2 DEF Entered, At, UserOf, RequestsHoldTokens, SetsHoldTokens, LoginSteps
<1>3. ASSUME NEW r \in Requests, LoginCache(r) PROVE RequestsHoldTokens'
  BY <1>3 DEF LoginCache, CacheSet, Goto, historyVars, At, UserOf, RequestsHoldTokens, LoginSteps
<1>4. ASSUME NEW r \in Requests, LoginList(r) PROVE RequestsHoldTokens'
  <2>1. LoginListed(r)
    BY <1>4, LoginListEffect
  <2> QED
    BY <2>1 DEF LoginListed, At, UserOf, RequestsHoldTokens, LoginSteps
<1>5. ASSUME NEW r \in Requests, LoginExpire(r) PROVE RequestsHoldTokens'
  <2>1. LoginReturned(r)
    BY <1>5, LoginExpireEffect
  <2> QED
    BY <2>1 DEF LoginReturned, At, UserOf, RequestsHoldTokens, LoginsAreApart
<1>6. ASSUME NEW r \in Requests, LogoutRead(r) PROVE RequestsHoldTokens'
  BY <1>6 DEF LogoutRead, Goto, historyVars, At, UserOf, RequestsHoldTokens, LoginSteps
<1>7. ASSUME NEW r \in Requests, LogoutDelete(r) PROVE RequestsHoldTokens'
  <2>1. LogoutDeleted(r)
    BY <1>7, LogoutDeleteEffect
  <2> QED
    BY <2>1 DEF LogoutDeleted, At, UserOf, RequestsHoldTokens, LoginSteps
<1>8. ASSUME NEW r \in Requests, LogoutUnlist(r) PROVE RequestsHoldTokens'
  <2>1. LogoutUnlisted(r)
    BY <1>8, LogoutUnlistEffect
  <2> QED
    BY <2>1 DEF LogoutUnlisted, At, UserOf, RequestsHoldTokens
<1>9. ASSUME NEW r \in Requests, ChangeCall(r) PROVE RequestsHoldTokens'
  <2>1. Called(r)
    BY <1>9, ChangeCallEffect
  <2> QED
    BY <2>1 DEF Called, TokensOf, At, UserOf, RequestsHoldTokens, LoginSteps
<1>10. ASSUME NEW r \in Requests, ChangeMembers(r) PROVE RequestsHoldTokens'
  BY <1>10, SessionsAssumption
     DEF ChangeMembers, historyVars, At, UserOf, RequestsHoldTokens, SetsHoldTokens, LoginSteps,
         SessionsTypeOK
<1>11. ASSUME NEW r \in Requests, ChangeDelete(r) PROVE RequestsHoldTokens'
  BY <1>11
     DEF ChangeDelete, DeleteSessions, CacheDelete, Goto, At, UserOf, RequestsHoldTokens,
         LoginSteps
<1>12. ASSUME NEW r \in Requests, ChangeUnlist(r) PROVE RequestsHoldTokens'
  BY <1>12 DEF ChangeUnlist, Finish, NoRequest, At, UserOf, RequestsHoldTokens
<1>13. ASSUME NEW r \in Requests, Reject(r) PROVE RequestsHoldTokens'
  BY <1>13 DEF Reject, Finish, historyVars, NoRequest, At, UserOf, RequestsHoldTokens
<1>14. ASSUME NEW g \in Gateways, Restart(g) PROVE RequestsHoldTokens'
  BY <1>14 DEF Restart, historyVars, NoRequest, At, UserOf, RequestsHoldTokens
<1>15. ASSUME Tick PROVE RequestsHoldTokens'
  BY <1>15 DEF Tick, At, UserOf, RequestsHoldTokens
<1> QED
  BY <1>1, <1>2, <1>3, <1>4, <1>5, <1>6, <1>7, <1>8, <1>9, <1>10, <1>11, <1>12, <1>13, <1>14,
     <1>15
     DEF Next

\* A token is drawn by one login.
LEMMA ApartStep ==
    ASSUME SessionsTypeOK, RequestsHoldTokens, LoginsAreApart, Next
    PROVE  LoginsAreApart'
<1>1. ASSUME NEW r \in Requests, NEW g \in Gateways, LoginSign(r, g) PROVE LoginsAreApart'
  BY <1>1 DEF LoginSign, NoToken, At, LoginsAreApart, RequestsHoldTokens, LoginSteps
<1>2. ASSUME NEW r \in Requests, NEW g \in Gateways, LogoutStart(r, g) \/ ChangeStart(r, g)
      PROVE  LoginsAreApart'
  <2>1. Entered(r, g)
    BY <1>2, EnterEffect
  <2> QED
    BY <2>1 DEF Entered, LoginsAreApart, LoginSteps
<1>3. ASSUME NEW r \in Requests, LoginCache(r) PROVE LoginsAreApart'
  BY <1>3 DEF LoginCache, CacheSet, Goto, At, LoginsAreApart, LoginSteps
<1>4. ASSUME NEW r \in Requests, LoginList(r) PROVE LoginsAreApart'
  BY <1>4 DEF LoginList, Goto, At, LoginsAreApart, LoginSteps
<1>5. ASSUME NEW r \in Requests, LoginExpire(r) PROVE LoginsAreApart'
  BY <1>5 DEF LoginExpire, Finish, NoRequest, LoginsAreApart, LoginSteps
<1>6. ASSUME NEW r \in Requests, LogoutRead(r) PROVE LoginsAreApart'
  BY <1>6 DEF LogoutRead, Goto, LoginsAreApart, LoginSteps
<1>7. ASSUME NEW r \in Requests, LogoutDelete(r) PROVE LoginsAreApart'
  <2>1. LogoutDeleted(r)
    BY <1>7, LogoutDeleteEffect
  <2> QED
    BY <2>1 DEF LogoutDeleted, LoginsAreApart, LoginSteps
<1>8. ASSUME NEW r \in Requests, LogoutUnlist(r) PROVE LoginsAreApart'
  BY <1>8 DEF LogoutUnlist, LogoutAnswered, Without, Finish, NoRequest, LoginsAreApart, LoginSteps
<1>9. ASSUME NEW r \in Requests, ChangeCall(r) PROVE LoginsAreApart'
  <2>1. Called(r)
    BY <1>9, ChangeCallEffect
  <2> QED
    BY <2>1 DEF Called, TokensOf, LoginsAreApart, LoginSteps
<1>10. ASSUME NEW r \in Requests, ChangeMembers(r) PROVE LoginsAreApart'
  BY <1>10 DEF ChangeMembers, LoginsAreApart, LoginSteps, SessionsTypeOK
<1>11. ASSUME NEW r \in Requests, ChangeDelete(r) PROVE LoginsAreApart'
  BY <1>11 DEF ChangeDelete, DeleteSessions, CacheDelete, Goto, LoginsAreApart, LoginSteps
<1>12. ASSUME NEW r \in Requests, ChangeUnlist(r) PROVE LoginsAreApart'
  BY <1>12 DEF ChangeUnlist, Finish, NoRequest, LoginsAreApart, LoginSteps
<1>13. ASSUME NEW r \in Requests, Reject(r) PROVE LoginsAreApart'
  BY <1>13 DEF Reject, Finish, NoRequest, LoginsAreApart, LoginSteps
<1>14. ASSUME NEW g \in Gateways, Restart(g) PROVE LoginsAreApart'
  BY <1>14 DEF Restart, NoRequest, LoginsAreApart, LoginSteps
<1>15. ASSUME Tick PROVE LoginsAreApart'
  BY <1>15 DEF Tick, LoginsAreApart
<1> QED
  BY <1>1, <1>2, <1>3, <1>4, <1>5, <1>6, <1>7, <1>8, <1>9, <1>10, <1>11, <1>12, <1>13, <1>14,
     <1>15
     DEF Next

\* Sets keep holding their user's tokens.
LEMMA SetsHoldStep ==
    ASSUME SessionsTypeOK, RequestsHoldTokens, SetsHoldTokens, Next
    PROVE  SetsHoldTokens'
<1>1. ASSUME NEW r \in Requests, NEW g \in Gateways, LoginSign(r, g) PROVE SetsHoldTokens'
  BY <1>1 DEF LoginSign, historyVars, NoToken, SetsHoldTokens
<1>2. ASSUME NEW r \in Requests, NEW g \in Gateways, LogoutStart(r, g) \/ ChangeStart(r, g)
      PROVE  SetsHoldTokens'
  <2>1. Entered(r, g)
    BY <1>2, EnterEffect
  <2> QED
    BY <2>1 DEF Entered, SetsHoldTokens
<1>3. ASSUME NEW r \in Requests, LoginCache(r) PROVE SetsHoldTokens'
  BY <1>3 DEF LoginCache, CacheSet, historyVars, SetsHoldTokens
<1>4. ASSUME NEW r \in Requests, LoginList(r) PROVE SetsHoldTokens'
  BY <1>4 DEF LoginList, historyVars, At, UserOf, SetsHoldTokens, RequestsHoldTokens
<1>5. ASSUME NEW r \in Requests, LoginExpire(r) PROVE SetsHoldTokens'
  BY <1>5 DEF LoginExpire, At, SetsHoldTokens, RequestsHoldTokens
<1>6. ASSUME NEW r \in Requests, LogoutRead(r) PROVE SetsHoldTokens'
  BY <1>6 DEF LogoutRead, historyVars, SetsHoldTokens
<1>7. ASSUME NEW r \in Requests, LogoutDelete(r) PROVE SetsHoldTokens'
  <2>1. LogoutDeleted(r)
    BY <1>7, LogoutDeleteEffect
  <2> QED
    BY <2>1 DEF LogoutDeleted, SetsHoldTokens
<1>8. ASSUME NEW r \in Requests, LogoutUnlist(r) PROVE SetsHoldTokens'
  BY <1>8 DEF LogoutUnlist, LogoutAnswered, Without, NoSet, SetsHoldTokens, SessionsTypeOK
<1>9. ASSUME NEW r \in Requests, ChangeCall(r) PROVE SetsHoldTokens'
  <2>1. Called(r)
    BY <1>9, ChangeCallEffect
  <2> QED
    BY <2>1 DEF Called, TokensOf, SetsHoldTokens
<1>10. ASSUME NEW r \in Requests, ChangeMembers(r) PROVE SetsHoldTokens'
  BY <1>10 DEF ChangeMembers, historyVars, SetsHoldTokens
<1>11. ASSUME NEW r \in Requests, ChangeDelete(r) PROVE SetsHoldTokens'
  BY <1>11 DEF ChangeDelete, DeleteSessions, CacheDelete, SetsHoldTokens
<1>12. ASSUME NEW r \in Requests, ChangeUnlist(r) PROVE SetsHoldTokens'
  BY <1>12 DEF ChangeUnlist, NoSet, SetsHoldTokens
<1>13. ASSUME NEW r \in Requests, Reject(r) PROVE SetsHoldTokens'
  BY <1>13 DEF Reject, historyVars, SetsHoldTokens
<1>14. ASSUME NEW g \in Gateways, Restart(g) PROVE SetsHoldTokens'
  BY <1>14 DEF Restart, historyVars, SetsHoldTokens
<1>15. ASSUME Tick PROVE SetsHoldTokens'
  BY <1>15 DEF Tick, NoSet, SetsHoldTokens
<1> QED
  BY <1>1, <1>2, <1>3, <1>4, <1>5, <1>6, <1>7, <1>8, <1>9, <1>10, <1>11, <1>12, <1>13, <1>14,
     <1>15
     DEF Next

\* A token reaches a set only through its own login.
LEMMA FreshStep ==
    ASSUME SessionsTypeOK, RequestsHoldTokens, SetsHoldTokens, LoginsAreApart, FreshIsUnlisted, Next
    PROVE  FreshIsUnlisted'
<1>1. ASSUME NEW r \in Requests, NEW g \in Gateways, LoginSign(r, g) PROVE FreshIsUnlisted'
  BY <1>1 DEF LoginSign, NoRequest, NoToken, At, FreshIsUnlisted, SetsHoldTokens, RequestsHoldTokens
<1>2. ASSUME NEW r \in Requests, NEW g \in Gateways, LogoutStart(r, g) \/ ChangeStart(r, g)
      PROVE  FreshIsUnlisted'
  <2>1. Entered(r, g)
    BY <1>2, EnterEffect
  <2> QED
    BY <2>1 DEF Entered, At, FreshIsUnlisted
<1>3. ASSUME NEW r \in Requests, LoginCache(r) PROVE FreshIsUnlisted'
  BY <1>3 DEF LoginCache, CacheSet, Goto, At, FreshIsUnlisted
<1>4. ASSUME NEW r \in Requests, LoginList(r) PROVE FreshIsUnlisted'
  BY <1>4, RequestUser
     DEF LoginList, Goto, At, FreshIsUnlisted, LoginsAreApart, LoginSteps, SessionsTypeOK
<1>5. ASSUME NEW r \in Requests, LoginExpire(r) PROVE FreshIsUnlisted'
  BY <1>5 DEF LoginExpire, Finish, NoRequest, At, FreshIsUnlisted
<1>6. ASSUME NEW r \in Requests, LogoutRead(r) PROVE FreshIsUnlisted'
  BY <1>6 DEF LogoutRead, Goto, At, FreshIsUnlisted
<1>7. ASSUME NEW r \in Requests, LogoutDelete(r) PROVE FreshIsUnlisted'
  <2>1. LogoutDeleted(r)
    BY <1>7, LogoutDeleteEffect
  <2> QED
    BY <2>1 DEF LogoutDeleted, At, FreshIsUnlisted
<1>8. ASSUME NEW r \in Requests, LogoutUnlist(r) PROVE FreshIsUnlisted'
  BY <1>8 DEF LogoutUnlist, LogoutAnswered, Without, Finish, NoRequest, NoSet, At, FreshIsUnlisted
<1>9. ASSUME NEW r \in Requests, ChangeCall(r) PROVE FreshIsUnlisted'
  <2>1. Called(r)
    BY <1>9, ChangeCallEffect
  <2> QED
    BY <2>1 DEF Called, TokensOf, At, FreshIsUnlisted
<1>10. ASSUME NEW r \in Requests, ChangeMembers(r) PROVE FreshIsUnlisted'
  BY <1>10
     DEF ChangeMembers, cacheVars, historyVars, At, FreshIsUnlisted, LoginsAreApart,
         SetsHoldTokens, LoginSteps, SessionsTypeOK
<1>11. ASSUME NEW r \in Requests, ChangeDelete(r) PROVE FreshIsUnlisted'
  BY <1>11 DEF ChangeDelete, DeleteSessions, CacheDelete, Goto, At, FreshIsUnlisted
<1>12. ASSUME NEW r \in Requests, ChangeUnlist(r) PROVE FreshIsUnlisted'
  BY <1>12 DEF ChangeUnlist, Finish, NoRequest, NoSet, At, FreshIsUnlisted
<1>13. ASSUME NEW r \in Requests, Reject(r) PROVE FreshIsUnlisted'
  BY <1>13 DEF Reject, Finish, NoRequest, At, FreshIsUnlisted
<1>14. ASSUME NEW g \in Gateways, Restart(g) PROVE FreshIsUnlisted'
  BY <1>14 DEF Restart, NoRequest, At, FreshIsUnlisted
<1>15. ASSUME Tick PROVE FreshIsUnlisted'
  BY <1>15 DEF Tick, NoSet, At, FreshIsUnlisted
<1> QED
  BY <1>1, <1>2, <1>3, <1>4, <1>5, <1>6, <1>7, <1>8, <1>9, <1>10, <1>11, <1>12, <1>13, <1>14,
     <1>15
     DEF Next

\* The tiers of the cache stay together.
LEMMA MemoryStep ==
    ASSUME SessionsTypeOK, RequestsHoldTokens, MemoryFollowsRedis, Next
    PROVE  MemoryFollowsRedis'
<1>1. ASSUME NEW r \in Requests, NEW g \in Gateways, LoginSign(r, g) PROVE MemoryFollowsRedis'
  BY <1>1, SessionsAssumption DEF LoginSign, cacheVars, historyVars, NoToken, MemoryFollowsRedis
<1>2. ASSUME NEW r \in Requests, NEW g \in Gateways, LogoutStart(r, g) \/ ChangeStart(r, g)
      PROVE  MemoryFollowsRedis'
  <2>1. Entered(r, g)
    BY <1>2, EnterEffect
  <2> QED
    BY <2>1 DEF Entered, MemoryFollowsRedis
<1>3. ASSUME NEW r \in Requests, LoginCache(r) PROVE MemoryFollowsRedis'
  BY <1>3
     DEF LoginCache, CacheSet, historyVars, At, MemoryFollowsRedis, RequestsHoldTokens,
         LoginSteps, SessionsTypeOK
<1>4. ASSUME NEW r \in Requests, LoginList(r) PROVE MemoryFollowsRedis'
  BY <1>4 DEF LoginList, cacheVars, historyVars, MemoryFollowsRedis
<1>5. ASSUME NEW r \in Requests, LoginExpire(r) PROVE MemoryFollowsRedis'
  BY <1>5 DEF LoginExpire, cacheVars, MemoryFollowsRedis
<1>6. ASSUME NEW r \in Requests, LogoutRead(r) PROVE MemoryFollowsRedis'
  BY <1>6 DEF LogoutRead, cacheVars, historyVars, MemoryFollowsRedis
<1>7. ASSUME NEW r \in Requests, LogoutDelete(r) PROVE MemoryFollowsRedis'
  <2>1. LogoutDeleted(r)
    BY <1>7, LogoutDeleteEffect
  <2> QED
    <3> SUFFICES ASSUME NEW x \in Gateways, NEW j \in Tokens, memory'[x][j] # 0
                 PROVE  /\ x = token'[j].gateway
                        /\ redis'[j] = memory'[x][j] \/ ~(deleted'[j] \subseteq {x})
      BY DEF MemoryFollowsRedis
    <3>1. memory'[x][j] = memory[x][j] /\ token' = token
      BY <2>1 DEF LogoutDeleted
    <3>4. /\ x = token[j].gateway
          /\ redis[j] = memory[x][j] \/ ~(deleted[j] \subseteq {x})
      BY <3>1 DEF MemoryFollowsRedis
    <3>2. CASE j = request[r].token
      <4>1. x # request[r].gateway /\ request[r].gateway \in deleted'[j]
        BY <2>1, <3>2 DEF LogoutDeleted
      <4> QED
        BY <3>1, <3>4, <4>1
    <3>3. CASE j # request[r].token
      <4>1. redis'[j] = redis[j] /\ deleted'[j] = deleted[j]
        BY <2>1, <3>3 DEF LogoutDeleted
      <4> QED
        BY <3>1, <3>4, <4>1
    <3> QED
      BY <3>2, <3>3
<1>8. ASSUME NEW r \in Requests, LogoutUnlist(r) PROVE MemoryFollowsRedis'
  BY <1>8 DEF LogoutUnlist, LogoutAnswered, Without, cacheVars, MemoryFollowsRedis
<1>9. ASSUME NEW r \in Requests, ChangeCall(r) PROVE MemoryFollowsRedis'
  <2>1. Called(r)
    BY <1>9, ChangeCallEffect
  <2> QED
    BY <2>1 DEF Called, TokensOf, MemoryFollowsRedis
<1>10. ASSUME NEW r \in Requests, ChangeMembers(r) PROVE MemoryFollowsRedis'
  BY <1>10 DEF ChangeMembers, cacheVars, historyVars, MemoryFollowsRedis
<1>11. ASSUME NEW r \in Requests, ChangeDelete(r) PROVE MemoryFollowsRedis'
  <2>1. request[r].gateway \in Gateways
    BY <1>11, RequestUser DEF ChangeDelete, At
  <2>2. /\ \A j \in Tokens : redis'[j] = IF j \in request[r].keys THEN 0 ELSE redis[j]
        /\ \A x \in Gateways, j \in Tokens :
                memory'[x][j] = IF x = request[r].gateway /\ j \in request[r].keys THEN 0 ELSE memory[x][j]
        /\ \A j \in Tokens : deleted'[j] =
                IF j \in request[r].keys THEN deleted[j] \cup {request[r].gateway} ELSE deleted[j]
    BY <1>11, <2>1, DeleteEffect DEF ChangeDelete
  <2> QED
    <3> SUFFICES ASSUME NEW x \in Gateways, NEW j \in Tokens, memory'[x][j] # 0
                 PROVE  /\ x = token'[j].gateway
                        /\ redis'[j] = memory'[x][j] \/ ~(deleted'[j] \subseteq {x})
      BY DEF MemoryFollowsRedis
    <3>1. memory'[x][j] = memory[x][j] /\ token' = token
      BY <1>11, <2>2 DEF ChangeDelete
    <3>2. CASE j \in request[r].keys
      <4>1. x # request[r].gateway /\ request[r].gateway \in deleted'[j]
        BY <2>2, <3>2
      <4> QED
        BY <3>1, <4>1 DEF MemoryFollowsRedis
    <3>3. CASE j \notin request[r].keys
      BY <2>2, <3>1, <3>3 DEF MemoryFollowsRedis
    <3> QED
      BY <3>2, <3>3
<1>12. ASSUME NEW r \in Requests, ChangeUnlist(r) PROVE MemoryFollowsRedis'
  BY <1>12 DEF ChangeUnlist, cacheVars, MemoryFollowsRedis
<1>13. ASSUME NEW r \in Requests, Reject(r) PROVE MemoryFollowsRedis'
  BY <1>13 DEF Reject, cacheVars, historyVars, MemoryFollowsRedis
<1>14. ASSUME NEW g \in Gateways, Restart(g) PROVE MemoryFollowsRedis'
  BY <1>14 DEF Restart, historyVars, MemoryFollowsRedis
<1>15. ASSUME Tick PROVE MemoryFollowsRedis'
  BY <1>15 DEF Tick, At, MemoryFollowsRedis
<1> QED
  BY <1>1, <1>2, <1>3, <1>4, <1>5, <1>6, <1>7, <1>8, <1>9, <1>10, <1>11, <1>12, <1>13, <1>14,
     <1>15
     DEF Next

\* A logged out session does not come back.
LEMMA LogoutsStep ==
    ASSUME SessionsTypeOK, RequestsHoldTokens, LoginsAreApart, LogoutsAreDone, Next
    PROVE  LogoutsAreDone'
<1>1. ASSUME NEW r \in Requests, NEW g \in Gateways, LoginSign(r, g) PROVE LogoutsAreDone'
  BY <1>1 DEF LoginSign, cacheVars, historyVars, NoToken, At, LogoutsAreDone
<1>2. ASSUME NEW r \in Requests, NEW g \in Gateways, LogoutStart(r, g) \/ ChangeStart(r, g)
      PROVE  LogoutsAreDone'
  <2>1. Entered(r, g)
    BY <1>2, EnterEffect
  <2> QED
    BY <2>1 DEF Entered, At, LogoutsAreDone
<1>3. ASSUME NEW r \in Requests, LoginCache(r) PROVE LogoutsAreDone'
  BY <1>3
     DEF LoginCache, CacheSet, Goto, historyVars, At, LogoutsAreDone, RequestsHoldTokens,
         LoginSteps
<1>4. ASSUME NEW r \in Requests, LoginList(r) PROVE LogoutsAreDone'
  BY <1>4 DEF LoginList, Goto, cacheVars, historyVars, At, LogoutsAreDone
<1>5. ASSUME NEW r \in Requests, LoginExpire(r) PROVE LogoutsAreDone'
  BY <1>5 DEF LoginExpire, Finish, cacheVars, NoRequest, At, LogoutsAreDone
<1>6. ASSUME NEW r \in Requests, LogoutRead(r) PROVE LogoutsAreDone'
  BY <1>6 DEF LogoutRead, Goto, cacheVars, historyVars, At, LogoutsAreDone
<1>7. ASSUME NEW r \in Requests, LogoutDelete(r) PROVE LogoutsAreDone'
  <2>1. LogoutDeleted(r)
    BY <1>7, LogoutDeleteEffect
  <2> QED
    <3> DEFINE c == request[r].token
    <3>1. /\ request[r].gateway \in Gateways /\ c \in Tokens /\ c \in issued
          /\ redis'[c] = 0 /\ memory'[request[r].gateway][c] = 0 /\ issued' = issued
      BY <2>1 DEF LogoutDeleted, RequestsHoldTokens
    <3>2. /\ \A j \in Tokens : redis[j] = 0 => redis'[j] = 0
          /\ \A x \in Gateways, j \in Tokens : memory[x][j] = 0 => memory'[x][j] = 0
      BY <2>1 DEF LogoutDeleted
    <3>3. \A j \in Tokens : loggedOut[j] \subseteq Gateways
      BY DEF SessionsTypeOK
    <3>4. ASSUME NEW j \in Tokens, loggedOut'[j] # {}
          PROVE  j \in issued' /\ redis'[j] = 0 /\ \A x \in loggedOut'[j] : memory'[x][j] = 0
      <4>1. CASE loggedOut'[j] = loggedOut[j]
        BY <3>1, <3>2, <3>3, <3>4, <4>1 DEF LogoutsAreDone
      <4>2. CASE j = c /\ loggedOut'[j] = loggedOut[j] \cup {request[r].gateway}
        BY <3>1, <3>2, <3>3, <4>2 DEF LogoutsAreDone
      <4> QED
        BY <2>1, <4>1, <4>2 DEF LogoutDeleted
    <3>5. ASSUME NEW q \in Requests, At(q, "logout_unlist")'
          PROVE  redis'[request'[q].token] = 0 /\ memory'[request'[q].gateway][request'[q].token] = 0
      <4>1. CASE q = r
        BY <2>1, <3>1, <3>5, <4>1 DEF LogoutDeleted, At
      <4>2. CASE q # r
        <5>1. request'[q] = request[q] /\ At(q, "logout_unlist")
          BY <2>1, <3>5, <4>2 DEF LogoutDeleted, At
        <5>2. request[q].gateway \in Gateways /\ request[q].token \in Tokens
          BY <5>1 DEF At, RequestsHoldTokens
        <5> QED
          BY <3>2, <5>1, <5>2 DEF LogoutsAreDone
      <4> QED
        BY <4>1, <4>2
    <3> QED
      BY <3>4, <3>5 DEF LogoutsAreDone
<1>8. ASSUME NEW r \in Requests, LogoutUnlist(r) PROVE LogoutsAreDone'
  <2>1. LogoutUnlisted(r)
    BY <1>8, LogoutUnlistEffect
  <2> QED
    <3>1. request[r].token \in issued
      BY <2>1 DEF LogoutUnlisted, At, RequestsHoldTokens, LoginSteps
    <3>2. ASSUME NEW j \in Tokens, loggedOut'[j] # {}
          PROVE  j \in issued' /\ redis'[j] = 0 /\ \A x \in loggedOut'[j] : memory'[x][j] = 0
      <4>1. CASE j = request[r].token
        <5>1. /\ loggedOut'[j] = loggedOut[j] \cup {request[r].gateway}
              /\ memory' = memory /\ redis' = redis /\ issued' = issued
          BY <2>1, <4>1 DEF LogoutUnlisted
        <5>2. redis[j] = 0 /\ memory[request[r].gateway][j] = 0
          BY <2>1, <4>1 DEF LogoutUnlisted, LogoutsAreDone
        <5> QED
          BY <3>1, <4>1, <5>1, <5>2 DEF LogoutsAreDone
      <4>2. CASE j # request[r].token
        BY <2>1, <3>2, <4>2 DEF LogoutUnlisted, LogoutsAreDone
      <4> QED
        BY <4>1, <4>2
    <3> QED
      BY <2>1, <3>2 DEF LogoutUnlisted, At, LogoutsAreDone
<1>9. ASSUME NEW r \in Requests, ChangeCall(r) PROVE LogoutsAreDone'
  <2>1. Called(r)
    BY <1>9, ChangeCallEffect
  <2> QED
    BY <2>1 DEF Called, TokensOf, At, LogoutsAreDone
<1>10. ASSUME NEW r \in Requests, ChangeMembers(r) PROVE LogoutsAreDone'
  BY <1>10 DEF ChangeMembers, cacheVars, historyVars, At, LogoutsAreDone, SessionsTypeOK
<1>11. ASSUME NEW r \in Requests, ChangeDelete(r) PROVE LogoutsAreDone'
  BY <1>11, RequestUser DEF ChangeDelete, DeleteSessions, CacheDelete, Goto, At, LogoutsAreDone
<1>12. ASSUME NEW r \in Requests, ChangeUnlist(r) PROVE LogoutsAreDone'
  BY <1>12 DEF ChangeUnlist, Finish, cacheVars, NoRequest, At, LogoutsAreDone
<1>13. ASSUME NEW r \in Requests, Reject(r) PROVE LogoutsAreDone'
  BY <1>13 DEF Reject, Finish, cacheVars, historyVars, NoRequest, At, LogoutsAreDone
<1>14. ASSUME NEW g \in Gateways, Restart(g) PROVE LogoutsAreDone'
  BY <1>14 DEF Restart, historyVars, NoRequest, At, LogoutsAreDone
<1>15. ASSUME Tick PROVE LogoutsAreDone'
  BY <1>15, RequestUser DEF Tick, At, LogoutsAreDone, SessionsTypeOK
<1> QED
  BY <1>1, <1>2, <1>3, <1>4, <1>5, <1>6, <1>7, <1>8, <1>9, <1>10, <1>11, <1>12, <1>13, <1>14,
     <1>15
     DEF Next

\* A request that moves on, and touches neither Redis nor a set, disturbs no
\* session.
LEMMA OutliveElsewhere ==
    ASSUME SetsOutliveSessions, NEW r \in Requests,
           UNCHANGED <<redis, listed, token, issued, swept>>,
           request'[r].step \notin {"login_expire", "change_unlist"},
           \A q \in Requests \ {r} : request'[q] = request[q]
    PROVE  SetsOutliveSessions'
<1>1. \A q \in Requests \ {r} : request'[q] = request[q] /\ UserOf(q)' = UserOf(q)
  BY DEF UserOf
<1>2. \A j \in issued' \ swept' : redis'[j] # 0 =>
        j \in listed'[token'[j].user].keys /\ redis'[j] <= listed'[token'[j].user].until
  BY DEF SetsOutliveSessions
<1>3. ASSUME NEW q \in Requests, At(q, "login_expire")', request'[q].token \notin swept',
             redis'[request'[q].token] # 0
      PROVE  request'[q].token \in listed'[UserOf(q)'].keys
  BY <1>1, <1>3 DEF At, SetsOutliveSessions
<1>4. ASSUME NEW q \in Requests, At(q, "change_unlist")', NEW k \in request'[q].keys
      PROVE  redis'[k] = 0
  BY <1>1, <1>4 DEF At, SetsOutliveSessions
<1> QED
  BY <1>2, <1>3, <1>4 DEF SetsOutliveSessions

\* No step but the two that sweep takes a live session off its set.
LEMMA OutliveStep ==
    ASSUME SessionsTypeOK, RequestsHoldTokens, LoginsAreApart, SetsHoldTokens, FreshIsUnlisted,
           LogoutsAreDone, SetsOutliveSessions, Next
    PROVE  SetsOutliveSessions'
<1>1. ASSUME NEW r \in Requests, NEW g \in Gateways, LoginSign(r, g) PROVE SetsOutliveSessions'
  BY <1>1, RequestUser
     DEF LoginSign, cacheVars, historyVars, NoToken, At, UserOf, SetsOutliveSessions,
         SetsHoldTokens
<1>2. ASSUME NEW r \in Requests, NEW g \in Gateways, LogoutStart(r, g) \/ ChangeStart(r, g)
      PROVE  SetsOutliveSessions'
  <2>1. Entered(r, g)
    BY <1>2, EnterEffect
  <2> QED
    BY <2>1 DEF Entered, At, UserOf, SetsOutliveSessions
<1>3. ASSUME NEW r \in Requests, LoginCache(r) PROVE SetsOutliveSessions'
  BY <1>3
     DEF LoginCache, CacheSet, Goto, historyVars, At, UserOf, SetsOutliveSessions,
         FreshIsUnlisted, LoginsAreApart, RequestsHoldTokens, LoginSteps
<1>4. ASSUME NEW r \in Requests, LoginList(r) PROVE SetsOutliveSessions'
  <2>1. LoginListed(r)
    BY <1>4, LoginListEffect
  <2> QED
    <3>1. \A u \in Users : listed[u].keys \subseteq listed'[u].keys
      BY <2>1 DEF LoginListed
    <3>2. \A u \in Users : listed[u].keys # {} => listed'[u].until = listed[u].until
      BY <2>1 DEF LoginListed
    <3>3. redis' = redis /\ token' = token /\ issued' = issued /\ swept' = swept
      BY <2>1 DEF LoginListed
    <3>4. ASSUME NEW j \in issued' \ swept', redis'[j] # 0
          PROVE  j \in listed'[token'[j].user].keys /\ redis'[j] <= listed'[token'[j].user].until
      <4>1. j \in Tokens /\ token[j].user \in Users
        BY <3>3, SignedToken DEF SetsHoldTokens, SessionsTypeOK
      <4>2. j \in listed[token[j].user].keys /\ redis[j] <= listed[token[j].user].until
        BY <3>3, <3>4 DEF SetsOutliveSessions
      <4> QED
        BY <3>1, <3>2, <3>3, <4>1, <4>2
    <3>5. ASSUME NEW q \in Requests, At(q, "login_expire")', request'[q].token \notin swept',
                 redis'[request'[q].token] # 0
          PROVE  request'[q].token \in listed'[UserOf(q)'].keys
      <4>1. CASE q = r
        BY <2>1, <4>1 DEF LoginListed, UserOf
      <4>2. CASE q # r
        <5>1. request'[q] = request[q] /\ At(q, "login_expire")
          BY <2>1, <3>5, <4>2 DEF LoginListed, At
        <5>2. UserOf(q) \in Users /\ UserOf(q)' = UserOf(q)
          BY <3>3, <5>1, RequestUser DEF At, UserOf
        <5> QED
          BY <3>1, <3>3, <3>5, <5>1, <5>2 DEF SetsOutliveSessions
      <4> QED
        BY <4>1, <4>2
    <3>6. ASSUME NEW q \in Requests, At(q, "change_unlist")'
          PROVE  \A k \in request'[q].keys : redis'[k] = 0
      BY <2>1, <3>3, <3>6 DEF LoginListed, At, SetsOutliveSessions
    <3> QED
      BY <3>4, <3>5, <3>6 DEF SetsOutliveSessions
<1>5. ASSUME NEW r \in Requests, LoginExpire(r) PROVE SetsOutliveSessions'
  <2>1. LoginReturned(r)
    BY <1>5, LoginExpireEffect
  <2> QED
    <3>1. \A u \in Users : listed'[u].keys = listed[u].keys
      BY <2>1 DEF LoginReturned
    <3>2. redis' = redis /\ token' = token /\ swept' = swept /\ now' = now
      BY <2>1 DEF LoginReturned
    <3>3. UserOf(r) = token[request[r].token].user /\ UserOf(r) \in Users /\ request[r].token \in Tokens
      BY <2>1, RequestUser DEF LoginReturned, At, UserOf
    <3>4. ASSUME NEW j \in issued' \ swept', redis'[j] # 0
          PROVE  j \in listed'[token'[j].user].keys /\ redis'[j] <= listed'[token'[j].user].until
      <4>1. j \in Tokens /\ token[j] # NoToken
        BY <2>1, <3>3 DEF LoginReturned, At, SetsHoldTokens, RequestsHoldTokens, SessionsTypeOK
      <4>2. token[j].user \in Users
        BY <4>1, SignedToken
      <4>3. j \in listed[token[j].user].keys
        BY <2>1, <3>2, <3>3, <3>4 DEF LoginReturned, SetsOutliveSessions
      <4>4. CASE token[j].user = UserOf(r)
        <5>1. listed'[UserOf(r)].until = now + TTL
          BY <2>1, <4>3, <4>4 DEF LoginReturned
        <5>2. redis[j] <= now + TTL
          BY <4>1 DEF SessionsTypeOK
        <5> QED
          BY <3>1, <3>2, <4>2, <4>3, <4>4, <5>1, <5>2
      <4>5. CASE token[j].user # UserOf(r)
        <5>1. listed'[token[j].user] = listed[token[j].user] /\ j \in issued
          BY <2>1, <3>3, <4>2, <4>5 DEF LoginReturned
        <5> QED
          BY <3>2, <3>4, <4>3, <5>1 DEF SetsOutliveSessions
      <4> QED
        BY <4>4, <4>5
    <3>5. ASSUME NEW q \in Requests, At(q, "login_expire")', request'[q].token \notin swept',
                 redis'[request'[q].token] # 0
          PROVE  request'[q].token \in listed'[UserOf(q)'].keys
      <4>1. request'[q] = request[q] /\ At(q, "login_expire")
        BY <2>1, <3>5 DEF LoginReturned, At
      <4>2. UserOf(q) \in Users /\ UserOf(q)' = UserOf(q)
        BY <3>2, <4>1, RequestUser DEF At, UserOf
      <4> QED
        BY <3>1, <3>2, <3>5, <4>1, <4>2 DEF SetsOutliveSessions
    <3>6. ASSUME NEW q \in Requests, At(q, "change_unlist")'
          PROVE  \A k \in request'[q].keys : redis'[k] = 0
      BY <2>1, <3>2, <3>6 DEF LoginReturned, At, SetsOutliveSessions
    <3> QED
      BY <3>4, <3>5, <3>6 DEF SetsOutliveSessions
<1>6. ASSUME NEW r \in Requests, LogoutRead(r) PROVE SetsOutliveSessions'
  BY <1>6 DEF LogoutRead, Goto, cacheVars, historyVars, At, UserOf, SetsOutliveSessions
<1>7. ASSUME NEW r \in Requests, LogoutDelete(r) PROVE SetsOutliveSessions'
  <2>1. LogoutDeleted(r)
    BY <1>7, LogoutDeleteEffect
  <2> QED
    <3>1. \A j \in Tokens : redis'[j] = 0 \/ redis'[j] = redis[j]
      BY <2>1 DEF LogoutDeleted
    <3>2. listed' = listed /\ token' = token /\ swept' = swept /\ issued' = issued /\ issued \subseteq Tokens
      BY <2>1 DEF LogoutDeleted, SessionsTypeOK
    <3>3. \A j \in issued' \ swept' : redis'[j] # 0 =>
            j \in listed'[token'[j].user].keys /\ redis'[j] <= listed'[token'[j].user].until
      BY <3>1, <3>2 DEF SetsOutliveSessions
    <3>4. ASSUME NEW q \in Requests, At(q, "login_expire")', request'[q].token \notin swept',
                 redis'[request'[q].token] # 0
          PROVE  request'[q].token \in listed'[UserOf(q)'].keys
      <4>1. request'[q] = request[q] /\ At(q, "login_expire")
        BY <2>1, <3>4 DEF LogoutDeleted, At
      <4>2. request[q].token \in Tokens
        BY <4>1, RequestUser DEF At
      <4> QED
        BY <3>1, <3>2, <3>4, <4>1, <4>2 DEF SetsOutliveSessions, UserOf
    <3>5. ASSUME NEW q \in Requests, At(q, "change_unlist")'
          PROVE  \A k \in request'[q].keys : redis'[k] = 0
      <4>1. request'[q] = request[q] /\ At(q, "change_unlist") /\ request[q].keys \subseteq Tokens
        BY <2>1, <3>5 DEF LogoutDeleted, At, SessionsTypeOK
      <4> QED
        BY <3>1, <4>1 DEF SetsOutliveSessions
    <3> QED
      BY <3>3, <3>4, <3>5 DEF SetsOutliveSessions
<1>8. ASSUME NEW r \in Requests, LogoutUnlist(r) PROVE SetsOutliveSessions'
  <2>1. LogoutUnlisted(r)
    BY <1>8, LogoutUnlistEffect
  <2> QED
    <3> DEFINE c == request[r].token
    <3>1. redis' = redis /\ token' = token /\ issued' = issued /\ swept' = swept
      BY <2>1 DEF LogoutUnlisted
    <3>2. c \in issued /\ UserOf(r) \in Users
      BY <2>1, RequestUser DEF LogoutUnlisted, At, RequestsHoldTokens, LoginSteps
    <3>3. \A u \in Users : /\ listed[u].keys \ {c} \subseteq listed'[u].keys
                           /\ listed'[u].keys # {} => listed'[u].until = listed[u].until
      BY <2>1 DEF LogoutUnlisted
    <3>4. redis[c] = 0
      BY <2>1 DEF LogoutUnlisted, LogoutsAreDone
    <3>5. ASSUME NEW j \in issued' \ swept', redis'[j] # 0
          PROVE  j \in listed'[token'[j].user].keys /\ redis'[j] <= listed'[token'[j].user].until
      <4>1. j \in Tokens /\ token[j].user \in Users
        BY <3>1, SignedToken DEF SetsHoldTokens, SessionsTypeOK
      <4>2. j \in listed[token[j].user].keys /\ redis[j] <= listed[token[j].user].until
        BY <3>1, <3>5 DEF SetsOutliveSessions
      <4>3. j \in listed'[token[j].user].keys
        BY <3>1, <3>3, <3>4, <3>5, <4>1, <4>2
      <4> QED
        BY <3>1, <3>3, <4>1, <4>2, <4>3
    <3>6. ASSUME NEW q \in Requests, At(q, "login_expire")', request'[q].token \notin swept',
                 redis'[request'[q].token] # 0
          PROVE  request'[q].token \in listed'[UserOf(q)'].keys
      <4>1. request'[q] = request[q] /\ At(q, "login_expire")
        BY <2>1, <3>6 DEF LogoutUnlisted, At
      <4>2. UserOf(q) \in Users /\ UserOf(q)' = UserOf(q) /\ request[q].token # c
        BY <3>1, <3>4, <3>6, <4>1, RequestUser DEF At, UserOf
      <4>3. request[q].token \in listed[UserOf(q)].keys
        BY <3>1, <3>6, <4>1 DEF SetsOutliveSessions
      <4> QED
        BY <3>3, <4>1, <4>2, <4>3
    <3>7. ASSUME NEW q \in Requests, At(q, "change_unlist")'
          PROVE  \A k \in request'[q].keys : redis'[k] = 0
      BY <2>1, <3>1, <3>7 DEF LogoutUnlisted, At, SetsOutliveSessions
    <3> QED
      BY <3>5, <3>6, <3>7 DEF SetsOutliveSessions
<1>9. ASSUME NEW r \in Requests, ChangeCall(r) PROVE SetsOutliveSessions'
  <2>1. /\ UNCHANGED <<redis, listed, token, issued, swept>>
        /\ request'[r].step \in {"idle", "change_members"}
        /\ \A q \in Requests \ {r} : request'[q] = request[q]
    BY <1>9, ChangeCallEffect DEF Called
  <2> QED
    BY <2>1, OutliveElsewhere
<1>10. ASSUME NEW r \in Requests, ChangeMembers(r) PROVE SetsOutliveSessions'
  <2>1. /\ UNCHANGED <<redis, listed, token, issued, swept>>
        /\ request'[r].step = "change_delete"
        /\ \A q \in Requests \ {r} : request'[q] = request[q]
    BY <1>10 DEF ChangeMembers, cacheVars, historyVars, SessionsTypeOK
  <2> QED
    BY <2>1, OutliveElsewhere
<1>11. ASSUME NEW r \in Requests, ChangeDelete(r) PROVE SetsOutliveSessions'
  BY <1>11, RequestUser
     DEF ChangeDelete, DeleteSessions, CacheDelete, Goto, At, UserOf, SetsOutliveSessions,
         SessionsTypeOK
<1>12. ASSUME NEW r \in Requests, ChangeUnlist(r) PROVE SetsOutliveSessions'
  <2>1. /\ request'[r].step = "idle" /\ \A q \in Requests \ {r} : request'[q] = request[q]
        /\ redis' = redis /\ token' = token /\ issued' = issued
        /\ swept' = swept \cup (listed[UserOf(r)].keys \ request[r].keys)
        /\ \A u \in Users \ {UserOf(r)} : listed'[u] = listed[u]
    BY <1>12 DEF ChangeUnlist, Finish, cacheVars, NoRequest, SessionsTypeOK
  <2>2. /\ UserOf(r) \in Users /\ issued \subseteq Tokens
        /\ \A k \in request[r].keys : redis[k] = 0
    BY <1>12, RequestUser DEF ChangeUnlist, At, SetsOutliveSessions, SessionsTypeOK
  <2>3. ASSUME NEW j \in issued' \ swept', redis'[j] # 0
        PROVE  j \in listed'[token'[j].user].keys /\ redis'[j] <= listed'[token'[j].user].until
    <3>1. j \in listed[token[j].user].keys /\ redis[j] <= listed[token[j].user].until
      BY <2>1, <2>3 DEF SetsOutliveSessions
    <3>2. token[j].user \in Users \ {UserOf(r)}
      BY <2>1, <2>2, <2>3, <3>1, SignedToken DEF SetsHoldTokens
    <3> QED
      BY <2>1, <3>1, <3>2
  <2>4. ASSUME NEW q \in Requests \ {r}
        PROVE  /\ request'[q] = request[q] /\ UserOf(q)' = UserOf(q)
               /\ \A step : At(q, step)' <=> At(q, step)
    BY <2>1 DEF At, UserOf
  <2>5. ASSUME NEW q \in Requests, At(q, "login_expire")', request'[q].token \notin swept',
               redis'[request'[q].token] # 0
        PROVE  request'[q].token \in listed'[UserOf(q)'].keys
    <3>1. q # r
      BY <2>1, <2>5 DEF At
    <3>2. request[q].token \in listed[UserOf(q)].keys
      BY <2>1, <2>4, <2>5, <3>1 DEF SetsOutliveSessions
    <3>3. UserOf(q) \in Users \ {UserOf(r)}
      BY <2>1, <2>2, <2>4, <2>5, <3>1, <3>2, RequestUser DEF At
    <3> QED
      BY <2>1, <2>4, <3>1, <3>2, <3>3
  <2>6. ASSUME NEW q \in Requests, At(q, "change_unlist")', NEW k \in request'[q].keys
        PROVE  redis'[k] = 0
    BY <2>1, <2>4, <2>6 DEF At, SetsOutliveSessions
  <2> QED
    BY <2>3, <2>5, <2>6 DEF SetsOutliveSessions
<1>13. ASSUME NEW r \in Requests, Reject(r) PROVE SetsOutliveSessions'
  BY <1>13 DEF Reject, Finish, cacheVars, historyVars, NoRequest, At, UserOf, SetsOutliveSessions
<1>14. ASSUME NEW g \in Gateways, Restart(g) PROVE SetsOutliveSessions'
  BY <1>14 DEF Restart, historyVars, NoRequest, At, UserOf, SetsOutliveSessions
<1>15. ASSUME Tick PROVE SetsOutliveSessions'
  <2>1. /\ now' = now + 1 /\ now \in Nat /\ issued \subseteq Tokens
        /\ token' = token /\ request' = request /\ issued' = issued
    BY <1>15 DEF Tick, SessionsTypeOK
  <2>2. \A j \in Tokens : redis'[j] = IF now' < redis[j] THEN redis[j] ELSE 0
    BY <1>15 DEF Tick
  <2>3. \A u \in Users : listed'[u] = IF listed[u].until <= now' THEN NoSet ELSE listed[u]
    BY <1>15 DEF Tick
  <2>4. /\ swept \subseteq swept'
        /\ \A q \in Requests : At(q, "login_expire") /\ UserOf(q) \in Users /\ listed[UserOf(q)].until <= now'
              => request[q].token \in swept'
    BY <1>15 DEF Tick
  <2>5. \A u \in Users : listed[u].until \in Nat
    BY SessionsAssumption DEF SessionsTypeOK, NoExpiry
  <2>6. \A j \in Tokens : redis[j] \in Nat
    BY DEF SessionsTypeOK
  <2>7. ASSUME NEW j \in issued' \ swept', redis'[j] # 0
        PROVE  j \in listed'[token'[j].user].keys /\ redis'[j] <= listed'[token'[j].user].until
    <3>1. j \in Tokens /\ token[j].user \in Users
      BY <2>1, SignedToken DEF SetsHoldTokens
    <3>2. redis'[j] = redis[j] /\ now' < redis[j]
      BY <2>2, <2>7, <3>1
    <3>3. j \in listed[token[j].user].keys /\ redis[j] <= listed[token[j].user].until
      BY <2>1, <2>4, <2>6, <3>1, <3>2 DEF SetsOutliveSessions
    <3>4. ~(listed[token[j].user].until <= now')
      BY <2>1, <2>5, <2>6, <3>1, <3>2, <3>3
    <3> QED
      BY <2>1, <2>3, <3>1, <3>2, <3>3, <3>4
  <2>8. ASSUME NEW q \in Requests, At(q, "login_expire")', request'[q].token \notin swept',
               redis'[request'[q].token] # 0
        PROVE  request'[q].token \in listed'[UserOf(q)'].keys
    <3>1. request'[q] = request[q] /\ At(q, "login_expire") /\ UserOf(q)' = UserOf(q)
      BY <2>1, <2>8 DEF At, UserOf
    <3>2. UserOf(q) \in Users /\ request[q].token \in Tokens
      BY <3>1, RequestUser DEF At
    <3>3. request[q].token \in listed[UserOf(q)].keys
      BY <2>1, <2>2, <2>4, <2>6, <2>8, <3>1, <3>2 DEF SetsOutliveSessions
    <3>4. ~(listed[UserOf(q)].until <= now')
      BY <2>4, <2>8, <3>1, <3>2
    <3> QED
      BY <2>3, <3>1, <3>2, <3>3, <3>4
  <2>9. ASSUME NEW q \in Requests, At(q, "change_unlist")'
        PROVE  \A k \in request'[q].keys : redis'[k] = 0
    <3>1. request'[q] = request[q] /\ At(q, "change_unlist") /\ request[q].keys \subseteq Tokens
      BY <2>1, <2>9 DEF At, SessionsTypeOK
    <3> QED
      BY <2>1, <2>2, <3>1 DEF SetsOutliveSessions
  <2> QED
    BY <2>7, <2>8, <2>9 DEF SetsOutliveSessions
<1> QED
  BY <1>1, <1>2, <1>3, <1>4, <1>5, <1>6, <1>7, <1>8, <1>9, <1>10, <1>11, <1>12, <1>13, <1>14,
     <1>15
     DEF Next

\* A session ended by a change of password does not come back.
LEMMA ChangesStep ==
    ASSUME SessionsTypeOK, RequestsHoldTokens, SetsHoldTokens, SetsOutliveSessions, ChangesAreDone, Next
    PROVE  ChangesAreDone'
<1>1. ASSUME NEW r \in Requests, NEW g \in Gateways, LoginSign(r, g) PROVE ChangesAreDone'
  BY <1>1 DEF LoginSign, cacheVars, historyVars, NoToken, At, ChangesAreDone
<1>2. ASSUME NEW r \in Requests, NEW g \in Gateways, LogoutStart(r, g) \/ ChangeStart(r, g)
      PROVE  ChangesAreDone'
  <2>1. Entered(r, g)
    BY <1>2, EnterEffect
  <2> QED
    BY <2>1 DEF Entered, At, ChangesAreDone
<1>3. ASSUME NEW r \in Requests, LoginCache(r) PROVE ChangesAreDone'
  BY <1>3
     DEF LoginCache, CacheSet, Goto, historyVars, At, ChangesAreDone, RequestsHoldTokens,
         LoginSteps
<1>4. ASSUME NEW r \in Requests, LoginList(r) PROVE ChangesAreDone'
  BY <1>4 DEF LoginList, Goto, cacheVars, historyVars, At, ChangesAreDone
<1>5. ASSUME NEW r \in Requests, LoginExpire(r) PROVE ChangesAreDone'
  BY <1>5 DEF LoginExpire, Finish, cacheVars, NoRequest, At, ChangesAreDone
<1>6. ASSUME NEW r \in Requests, LogoutRead(r) PROVE ChangesAreDone'
  BY <1>6 DEF LogoutRead, Goto, cacheVars, historyVars, At, ChangesAreDone
<1>7. ASSUME NEW r \in Requests, LogoutDelete(r) PROVE ChangesAreDone'
  <2>1. LogoutDeleted(r)
    BY <1>7, LogoutDeleteEffect
  <2> QED
    <3>1. \A j \in Tokens : redis[j] = 0 => redis'[j] = 0
      BY <2>1 DEF LogoutDeleted
    <3>2. changed' = changed /\ swept' = swept /\ issued' = issued
      BY <2>1 DEF LogoutDeleted
    <3>3. \A j \in Tokens \ swept' : changed'[j] # {} => j \in issued' /\ redis'[j] = 0
      BY <3>1, <3>2 DEF ChangesAreDone
    <3>4. ASSUME NEW q \in Requests, NEW k \in request'[q].known \ swept'
          PROVE  /\ At(q, "change_delete")' => k \in request'[q].keys \/ redis'[k] = 0
                 /\ At(q, "change_unlist")' => redis'[k] = 0
      <4>1. CASE q = r
        BY <2>1, <4>1 DEF LogoutDeleted, At
      <4>2. CASE q # r
        <5>1. request'[q] = request[q] /\ k \in Tokens
          BY <2>1, <4>2 DEF LogoutDeleted, SessionsTypeOK
        <5> QED
          BY <3>1, <3>2, <5>1 DEF ChangesAreDone, At
      <4> QED
        BY <4>1, <4>2
    <3> QED
      BY <3>3, <3>4 DEF ChangesAreDone
<1>8. ASSUME NEW r \in Requests, LogoutUnlist(r) PROVE ChangesAreDone'
  BY <1>8
     DEF LogoutUnlist, LogoutAnswered, Without, Finish, cacheVars, NoRequest, At, ChangesAreDone,
         SessionsTypeOK
<1>9. ASSUME NEW r \in Requests, ChangeCall(r) PROVE ChangesAreDone'
  <2>1. Called(r)
    BY <1>9, ChangeCallEffect
  <2> QED
    BY <2>1 DEF Called, TokensOf, At, ChangesAreDone
<1>10. ASSUME NEW r \in Requests, ChangeMembers(r) PROVE ChangesAreDone'
  BY <1>10
     DEF ChangeMembers, cacheVars, historyVars, At, ChangesAreDone, SetsOutliveSessions,
         SetsHoldTokens, RequestsHoldTokens, SessionsTypeOK
<1>11. ASSUME NEW r \in Requests, ChangeDelete(r) PROVE ChangesAreDone'
  BY <1>11 DEF ChangeDelete, DeleteSessions, CacheDelete, Goto, At, ChangesAreDone, SessionsTypeOK
<1>12. ASSUME NEW r \in Requests, ChangeUnlist(r) PROVE ChangesAreDone'
  BY <1>12
     DEF ChangeUnlist, Mark, Finish, cacheVars, NoRequest, At, ChangesAreDone,
         RequestsHoldTokens
<1>13. ASSUME NEW r \in Requests, Reject(r) PROVE ChangesAreDone'
  BY <1>13 DEF Reject, Finish, cacheVars, historyVars, NoRequest, At, ChangesAreDone
<1>14. ASSUME NEW g \in Gateways, Restart(g) PROVE ChangesAreDone'
  BY <1>14 DEF Restart, historyVars, NoRequest, At, ChangesAreDone
<1>15. ASSUME Tick PROVE ChangesAreDone'
  BY <1>15 DEF Tick, At, ChangesAreDone, SessionsTypeOK
<1> QED
  BY <1>1, <1>2, <1>3, <1>4, <1>5, <1>6, <1>7, <1>8, <1>9, <1>10, <1>11, <1>12, <1>13, <1>14,
     <1>15
     DEF Next

----------------------------------------------------------------------------
\* The inductive invariant.
SessionsInvariant ==
    /\ SessionsTypeOK
    /\ RequestsHoldTokens /\ LoginsAreApart /\ SetsHoldTokens /\ FreshIsUnlisted
    /\ MemoryFollowsRedis /\ LogoutsAreDone /\ SetsOutliveSessions /\ ChangesAreDone

\* It holds before any login.
LEMMA SessionsInvariantInit ==
    ASSUME Init
    PROVE  SessionsInvariant
<1>1. SessionsTypeOK
  BY SessionsTypeInit
<1>2. \A r \in Requests : request[r].step = "idle" /\ request[r].known = {}
  BY DEF Init, NoRequest
<1>3. /\ issued = {} /\ \A u \in Users : listed[u].keys = {}
      /\ \A g \in Gateways, j \in Tokens : memory[g][j] = 0
      /\ \A j \in Tokens : loggedOut[j] = {} /\ changed[j] = {}
  BY DEF Init, NoSet
<1>4. RequestsHoldTokens /\ LoginsAreApart /\ SetsHoldTokens /\ FreshIsUnlisted
  BY <1>2, <1>3
     DEF At, RequestsHoldTokens, LoginsAreApart, SetsHoldTokens, FreshIsUnlisted, LoginSteps
<1>5. MemoryFollowsRedis /\ LogoutsAreDone /\ SetsOutliveSessions /\ ChangesAreDone
  BY <1>2, <1>3 DEF At, MemoryFollowsRedis, LogoutsAreDone, SetsOutliveSessions, ChangesAreDone
<1> QED
  BY <1>1, <1>4, <1>5 DEF SessionsInvariant

\* Every step of every request, failure, restart and passing of time keeps it.
LEMMA SessionsInvariantStep ==
    ASSUME SessionsInvariant, [Next]_vars
    PROVE  SessionsInvariant'
<1>1. CASE Next
  BY <1>1, SessionsTypeStep, HoldStep, ApartStep, SetsHoldStep, FreshStep, MemoryStep,
     LogoutsStep, OutliveStep, ChangesStep
     DEF SessionsInvariant
<1>2. CASE UNCHANGED vars
  <2> USE <1>2 DEF vars, cacheVars, historyVars, At, UserOf
  <2>1. SessionsTypeOK'
    BY DEF SessionsInvariant, SessionsTypeOK
  <2>2. RequestsHoldTokens' /\ LoginsAreApart' /\ SetsHoldTokens' /\ FreshIsUnlisted'
    BY DEF SessionsInvariant, RequestsHoldTokens, LoginsAreApart, SetsHoldTokens, FreshIsUnlisted
  <2>3. MemoryFollowsRedis' /\ LogoutsAreDone' /\ SetsOutliveSessions' /\ ChangesAreDone'
    BY
       DEF SessionsInvariant, MemoryFollowsRedis, LogoutsAreDone, SetsOutliveSessions,
           ChangesAreDone
  <2> QED
    BY <2>1, <2>2, <2>3 DEF SessionsInvariant
<1> QED
  BY <1>1, <1>2

\* The invariant holds in every state of every execution.
THEOREM SessionsInvariance == Spec => []SessionsInvariant
BY SessionsInvariantInit, SessionsInvariantStep, PTL DEF Spec

\* Sessions, tokens and sets with an expiry never live longer than the seven
\* days AuthService gives them.
THEOREM SessionsTypes == Spec => []SessionsTypeOK
<1>1. SessionsInvariant => SessionsTypeOK
  BY DEF SessionsInvariant
<1> QED
  BY <1>1, SessionsInvariance, PTL

\* A token that AuthService.logout answered is refused for good by the gateway
\* that answered and by all but the one that made it.
THEOREM LogoutIsFinal == Spec => []LoggedOutIsRefused
<1>1. ASSUME SessionsInvariant PROVE LoggedOutIsRefused
  <2> SUFFICES ASSUME NEW j \in Tokens, NEW g \in Gateways, loggedOut[j] # {},
                      g = token[j].gateway => g \in loggedOut[j]
               PROVE  ~CanActivate(g, j)
    BY DEF LoggedOutIsRefused
  <2>1. redis[j] = 0
    BY <1>1 DEF SessionsInvariant, LogoutsAreDone
  <2>2. memory[g][j] = 0
    BY <1>1 DEF SessionsInvariant, LogoutsAreDone, MemoryFollowsRedis
  <2>3. now \in Nat
    BY <1>1 DEF SessionsInvariant, SessionsTypeOK
  <2> QED
    BY <2>1, <2>2, <2>3 DEF CanActivate, GetSession
<1> QED
  BY <1>1, SessionsInvariance, PTL

\* Redis never holds a returned session that its user's set does not list,
\* but for the two races that sweep it.
THEOREM SessionsStayListed == Spec => []LiveSessionsAreListed
<1>1. ASSUME SessionsInvariant PROVE LiveSessionsAreListed
  <2> SUFFICES ASSUME NEW j \in issued \ swept, now < redis[j]
               PROVE  j \in listed[token[j].user].keys
    BY DEF LiveSessionsAreListed
  <2>1. now \in Nat
    BY <1>1 DEF SessionsInvariant, SessionsTypeOK
  <2>2. redis[j] # 0
    BY <2>1
  <2> QED
    BY <1>1, <2>2 DEF SessionsInvariant, SetsOutliveSessions
<1> QED
  BY <1>1, SessionsInvariance, PTL

\* The sessions that AuthService.changePassword should end are refused, but for
\* those that a race with a login or an expiry swept from the set, and in the
\* memory of the gateway that made a session another one deleted.
THEOREM PasswordChangeIsFinal == Spec => []PasswordChangeEndsSessions
<1>1. ASSUME SessionsInvariant PROVE PasswordChangeEndsSessions
  <2> SUFFICES ASSUME NEW j \in Tokens \ swept, NEW g \in Gateways, changed[j] # {},
                      g = token[j].gateway => deleted[j] \subseteq {g}
               PROVE  ~CanActivate(g, j)
    BY DEF PasswordChangeEndsSessions
  <2>1. redis[j] = 0
    BY <1>1 DEF SessionsInvariant, ChangesAreDone
  <2>2. memory[g][j] = 0
    BY <1>1, <2>1 DEF SessionsInvariant, MemoryFollowsRedis
  <2>3. now \in Nat
    BY <1>1 DEF SessionsInvariant, SessionsTypeOK
  <2> QED
    BY <2>1, <2>2, <2>3 DEF CanActivate, GetSession
<1> QED
  BY <1>1, SessionsInvariance, PTL
=============================================================================
