-------------------------------- MODULE Gateway --------------------------------
(***************************************************************************)
(* The way of an HTTP request through the API: ServeHTTP, the rate         *)
(* limiter, authentication, the handlers of the tenant tables (businesses, *)
(* API keys, users, incidents, security policy) and the access log, of     *)
(* src/internal/api/server.go and src/internal/core/store.go.              *)
(*                                                                         *)
(* A request holds no lock from one step to the next.  It looks its key up *)
(* three times - for its limit, for its handler, for its log entry - and   *)
(* the key, the policy and the clock may have changed each time.           *)
(*                                                                         *)
(* Left out: a body or a route that is refused (it changes nothing and is  *)
(* logged as any other answer), reads (one, of the users, stands for all), *)
(* the policy's retention periods, which no code reads, display fields.    *)
(***************************************************************************)
EXTENDS Integers, FiniteSets

CONSTANTS
  Exchange,      \* HTTP requests: each is one request and its answer
  Business,      \* ids newID("biz") can return
  KeyId,         \* ids newID("key") can return
  IncidentId,    \* ids newID("inc") can return
  Email,         \* e-mail addresses of users
  Origin,        \* what rateLimitKey returns: an Authorization header, or the
                 \* address of a client that sends none
  Bearer,        \* the key whose secret a header bears, Absent when none's
  Traffic,       \* the pairs of origin and command that clients send
  Founders,      \* first key and owner of each business in the snapshot the
                 \* server starts from, Absent for the others
  DefaultLimit,  \* s.rateLimit and the default policy's RateLimitPerMinute
  Minute,        \* length of a window
  MaxTime,       \* bound on the clock
  Absent         \* stands for a missing map entry, a nil pointer, an empty id

Scope ==
  {"admin", "api_keys:write", "users:read", "users:write", "incidents:write",
   "security_policy:write"}

Command ==
  [op : {"CreateBusiness"}, setupToken : BOOLEAN, owner : Email]
    \cup [op : {"CreateAPIKey"}, scopes : (SUBSET Scope) \ {{}}]
    \cup [op : {"RevokeAPIKey"}, key : KeyId]
    \cup [op : {"ListUsers"}]
    \cup [op : {"CreateUser"}, email : Email]
    \cup [op : {"CreateIncident"}]
    \cup [op : {"ResolveIncident"}, incident : IncidentId]
    \cup [op : {"UpdateSecurityPolicy"}, limit : Nat \ {0}]

ASSUME GatewayAssumption ==
  /\ Bearer \in [Origin -> KeyId \cup {Absent}]
  /\ Traffic \subseteq Origin \X Command
  /\ Founders \in [Business -> [key : KeyId, owner : Email] \cup {Absent}]
  /\ \A a, b \in Business :
       /\ Founders[a] # Absent /\ Founders[b] # Absent
       /\ Founders[a].key = Founders[b].key
       => a = b
  /\ DefaultLimit \in Nat \ {0}
  /\ Minute \in Nat \ {0}
  /\ MaxTime \in Nat

VARIABLES
  clock,      \* time.Now()
  flight,     \* each exchange: where it is and what it has captured
  keys,       \* s.apiKeys, and by it s.apiKeyHash
  users,      \* s.users
  incidents,  \* s.incidents
  policies,   \* s.securityPolicies: RateLimitPerMinute of each business
  audit,      \* s.auditLogs
  windows,    \* s.rateWindows
  accessLog   \* s.accessLogs

tables == <<keys, users, incidents, policies, audit>>
vars == <<clock, flight, tables, windows, accessLog>>

-------------------------------------------------------------------------------
(* Records *)

Stage ==
  {"arrived", "identified", "measured", "admitted", "authenticated", "answered",
   "logged"}
Status ==
  {"none", "ok", "unauthorized", "forbidden", "not_found", "conflict",
   "rate_limited"}

\* business and limit are what the limiter found; window and countedAt tell
\* when it counted the request; tooLate that its key was revoked when it came
\* (the last three are history).
InFlight ==
  [origin : Origin, command : Command, stage : Stage, now : Nat,
   business : Business \cup {Absent}, limit : Nat, status : Status,
   window : Nat, countedAt : Nat, tooLate : BOOLEAN]

Key ==
  [business : Business, scopes : SUBSET Scope, createdBy : KeyId \cup Email,
   revoked : BOOLEAN]
User == [business : Business, email : Email]
Incident ==
  [business : Business, createdBy : KeyId, resolvedBy : KeyId \cup {Absent}]
Action ==
  {"business.created", "user.created", "api_key.created", "api_key.revoked",
   "incident.created", "incident.resolved", "security_policy.updated"}
\* The actor is Absent for "system"; the exchange stands for the entry's id.
AuditEntry ==
  [exchange : Exchange \cup {Absent}, business : Business,
   actor : KeyId \cup {Absent}, action : Action,
   resource : KeyId \cup Email \cup IncidentId \cup Business]
Window == [count : Nat, resetAt : Nat]
AccessEntry ==
  [exchange : Exchange, business : Business \cup {Absent},
   key : KeyId \cup {Absent}, status : Status]

\* A missing entry is none of the records; ids carry a prefix that tells what
\* they name, and none is an e-mail address.
ASSUME NamesAssumption ==
  /\ Absent \notin InFlight \cup Key \cup Incident \cup Nat
  /\ KeyId \cap (Email \cup IncidentId \cup Business) = {}
  /\ IncidentId \cap (Email \cup Business) = {}
  /\ Business \cap Email = {}

-------------------------------------------------------------------------------
(* Keys *)

\* Bug: RevokedAt is not looked at.
KnownKey(k) == k # Absent /\ keys[k] # Absent

\* AuthenticateAPIKey
ValidKey(k) ==
  /\ k # Absent
  /\ keys[k] # Absent
  /\ ~keys[k].revoked

\* apiKeyHasScope
HasScope(k, scope) == keys[k].scopes \cap {"admin", scope} # {}

\* The scope each handler asks for.
RequiredScope(command) ==
  CASE command.op \in {"CreateAPIKey", "RevokeAPIKey"} -> "api_keys:write"
    [] command.op = "ListUsers" -> "users:read"
    [] command.op = "CreateUser" -> "users:write"
    [] command.op \in {"CreateIncident", "ResolveIncident"} -> "incidents:write"
    [] command.op = "UpdateSecurityPolicy" -> "security_policy:write"

KeyOf(x) == Bearer[flight[x].origin]

-------------------------------------------------------------------------------
(* Steps of a request before its handler *)

At(x, stage) == flight[x] # Absent /\ flight[x].stage = stage

\* A secret is known only from the answer that created its key.
Arrive(x, origin, command) ==
  /\ flight[x] = Absent
  /\ <<origin, command>> \in Traffic
  /\ Bearer[origin] # Absent => keys[Bearer[origin]] # Absent
  /\ flight' = [flight EXCEPT ![x] =
       [origin |-> origin, command |-> command, stage |-> "arrived",
        now |-> clock, business |-> Absent, limit |-> DefaultLimit,
        status |-> "none", window |-> 0, countedAt |-> 0,
        tooLate |-> Bearer[origin] # Absent /\ keys[Bearer[origin]].revoked]]
  /\ UNCHANGED <<clock, tables, windows, accessLog>>

\* allowRequest looks the key up ...
Identify(x) ==
  /\ At(x, "arrived")
  /\ flight' = [flight EXCEPT
       ![x].stage = "identified",
       ![x].business = IF ValidKey(KeyOf(x)) THEN keys[KeyOf(x)].business ELSE Absent]
  /\ UNCHANGED <<clock, tables, windows, accessLog>>

\* ... then the policy of its business.
ReadLimit(x) ==
  LET b == flight[x].business IN
  /\ At(x, "identified")
  /\ flight' = [flight EXCEPT
       ![x].stage = "measured",
       ![x].limit = IF b = Absent THEN DefaultLimit ELSE policies[b]]
  /\ UNCHANGED <<clock, tables, windows, accessLog>>

\* Bug: a window is never opened again.
FirstWindow(w, now) ==
  IF w.resetAt = 0 THEN [count |-> 0, resetAt |-> now + Minute] ELSE w

\* The window a request is counted in: a new one if the last has passed.
CurrentWindow(w, now) ==
  IF w.resetAt = 0 \/ now >= w.resetAt
    THEN [count |-> 0, resetAt |-> now + Minute]
    ELSE w

\* Bug: a refused request is answered and nothing else.
RefuseUnlogged(x, window) ==
  flight' = [flight EXCEPT
    ![x].stage = IF window.count > flight[x].limit THEN "logged" ELSE "admitted",
    ![x].status = IF window.count > flight[x].limit THEN "rate_limited" ELSE "none",
    ![x].window = window.resetAt, ![x].countedAt = clock]

Admit(x, window) ==
  flight' = [flight EXCEPT
    ![x].stage = IF window.count > flight[x].limit THEN "answered" ELSE "admitted",
    ![x].status = IF window.count > flight[x].limit THEN "rate_limited" ELSE "none",
    ![x].window = window.resetAt, ![x].countedAt = clock]

\* Bug: the count is not written back.
CountLocally(x) ==
  LET w == CurrentWindow(windows[flight[x].origin], flight[x].now)
      window == [w EXCEPT !.count = @ + 1]
  IN
  /\ At(x, "measured")
  /\ windows' = [windows EXCEPT ![flight[x].origin] = w]
  /\ Admit(x, window)
  /\ UNCHANGED <<clock, tables, accessLog>>

\* Under rateMu, with the "now" of the arrival: counted first, refused after.
Count(x) ==
  LET w == CurrentWindow(windows[flight[x].origin], flight[x].now)
      window == [w EXCEPT !.count = @ + 1]
  IN
  /\ At(x, "measured")
  /\ windows' = [windows EXCEPT ![flight[x].origin] = window]
  /\ Admit(x, window)
  /\ UNCHANGED <<clock, tables, accessLog>>

Answer(x, status) ==
  flight' = [flight EXCEPT ![x].stage = "answered", ![x].status = status]

\* authenticate; handleBusinesses asks for the setup token instead.
Authenticate(x) ==
  LET command == flight[x].command
      k == KeyOf(x)
      unknown == IF command.op = "CreateBusiness" THEN ~command.setupToken
                 ELSE ~ValidKey(k)
  IN
  /\ At(x, "admitted")
  /\ \/ unknown /\ Answer(x, "unauthorized")
     \/ /\ ~unknown
        /\ command.op # "CreateBusiness"
        /\ ~HasScope(k, RequiredScope(command))
        /\ Answer(x, "forbidden")
     \/ /\ ~unknown
        /\ command.op # "CreateBusiness" => HasScope(k, RequiredScope(command))
        /\ flight' = [flight EXCEPT ![x].stage = "authenticated"]
  /\ UNCHANGED <<clock, tables, windows, accessLog>>

-------------------------------------------------------------------------------
(* Handlers: the store operation each calls, under s.mu *)

Actor(x) == KeyOf(x)
Tenant(x) == keys[Actor(x)].business

Handles(x, op) == At(x, "authenticated") /\ flight[x].command.op = op

AuditEntryOf(x, action, resource) ==
  [exchange |-> x, business |-> Tenant(x), actor |-> Actor(x), action |-> action,
   resource |-> resource]

Audit(x, action, resource) == audit' = audit \cup {AuditEntryOf(x, action, resource)}

\* The owner, a key with every scope and the default policy.
Founding(x, b, k, owner) ==
  {[exchange |-> x, business |-> b, actor |-> Absent, action |-> "business.created",
    resource |-> b],
   [exchange |-> x, business |-> b, actor |-> Absent, action |-> "user.created",
    resource |-> owner],
   [exchange |-> x, business |-> b, actor |-> Absent, action |-> "api_key.created",
    resource |-> k]}

FoundingKey(b, owner) ==
  [business |-> b, scopes |-> Scope, createdBy |-> owner, revoked |-> FALSE]

CreateBusiness(x, b, k) ==
  LET owner == flight[x].command.owner IN
  /\ Handles(x, "CreateBusiness")
  /\ policies[b] = Absent
  /\ keys[k] = Absent
  /\ keys' = [keys EXCEPT ![k] = FoundingKey(b, owner)]
  /\ users' = users \cup {[business |-> b, email |-> owner]}
  /\ policies' = [policies EXCEPT ![b] = DefaultLimit]
  /\ audit' = audit \cup Founding(x, b, k, owner)
  /\ Answer(x, "ok")
  /\ UNCHANGED <<clock, incidents, windows, accessLog>>

\* The scopes asked for need not be among the creator's own.
CreateAPIKey(x, k) ==
  /\ Handles(x, "CreateAPIKey")
  /\ keys[k] = Absent
  /\ keys' = [keys EXCEPT ![k] =
       [business |-> Tenant(x), scopes |-> flight[x].command.scopes,
        createdBy |-> Actor(x), revoked |-> FALSE]]
  /\ Audit(x, "api_key.created", k)
  /\ Answer(x, "ok")
  /\ UNCHANGED <<clock, users, incidents, policies, windows, accessLog>>

\* Bug: the key's business is not compared.
RevokeAnyKey(x) ==
  LET k == flight[x].command.key IN
  /\ Handles(x, "RevokeAPIKey")
  /\ IF keys[k] # Absent
       THEN /\ keys' = [keys EXCEPT ![k].revoked = TRUE]
            /\ IF keys[k].revoked THEN UNCHANGED audit ELSE Audit(x, "api_key.revoked", k)
            /\ Answer(x, "ok")
       ELSE UNCHANGED <<keys, audit>> /\ Answer(x, "not_found")
  /\ UNCHANGED <<clock, users, incidents, policies, windows, accessLog>>

\* Bug: a second revocation is audited as well.
RevokeTwice(x) ==
  LET k == flight[x].command.key IN
  /\ Handles(x, "RevokeAPIKey")
  /\ IF keys[k] # Absent /\ keys[k].business = Tenant(x)
       THEN /\ keys' = [keys EXCEPT ![k].revoked = TRUE]
            /\ Audit(x, "api_key.revoked", k)
            /\ Answer(x, "ok")
       ELSE UNCHANGED <<keys, audit>> /\ Answer(x, "not_found")
  /\ UNCHANGED <<clock, users, incidents, policies, windows, accessLog>>

\* A second revocation is answered as the first and changes nothing.
RevokeAPIKey(x) ==
  LET k == flight[x].command.key IN
  /\ Handles(x, "RevokeAPIKey")
  /\ IF keys[k] # Absent /\ keys[k].business = Tenant(x)
       THEN /\ keys' = [keys EXCEPT ![k].revoked = TRUE]
            /\ IF keys[k].revoked THEN UNCHANGED audit ELSE Audit(x, "api_key.revoked", k)
            /\ Answer(x, "ok")
       ELSE UNCHANGED <<keys, audit>> /\ Answer(x, "not_found")
  /\ UNCHANGED <<clock, users, incidents, policies, windows, accessLog>>

ListUsers(x) ==
  /\ Handles(x, "ListUsers")
  /\ Answer(x, "ok")
  /\ UNCHANGED <<clock, tables, windows, accessLog>>

CreateUser(x) ==
  LET user == [business |-> Tenant(x), email |-> flight[x].command.email] IN
  /\ Handles(x, "CreateUser")
  /\ IF user \in users
       THEN UNCHANGED <<users, audit>> /\ Answer(x, "conflict")
       ELSE /\ users' = users \cup {user}
            /\ Audit(x, "user.created", user.email)
            /\ Answer(x, "ok")
  /\ UNCHANGED <<clock, keys, incidents, policies, windows, accessLog>>

\* Bug: the actor is not passed on.
CreateAnonymousIncident(x, i) ==
  /\ Handles(x, "CreateIncident")
  /\ incidents[i] = Absent
  /\ incidents' = [incidents EXCEPT ![i] =
       [business |-> Tenant(x), createdBy |-> Absent, resolvedBy |-> Absent]]
  /\ Audit(x, "incident.created", i)
  /\ Answer(x, "ok")
  /\ UNCHANGED <<clock, keys, users, policies, windows, accessLog>>

CreateIncident(x, i) ==
  /\ Handles(x, "CreateIncident")
  /\ incidents[i] = Absent
  /\ incidents' = [incidents EXCEPT ![i] =
       [business |-> Tenant(x), createdBy |-> Actor(x), resolvedBy |-> Absent]]
  /\ Audit(x, "incident.created", i)
  /\ Answer(x, "ok")
  /\ UNCHANGED <<clock, keys, users, policies, windows, accessLog>>

\* As with a revocation, only the first resolution counts.
ResolveIncident(x) ==
  LET i == flight[x].command.incident IN
  /\ Handles(x, "ResolveIncident")
  /\ IF incidents[i] # Absent /\ incidents[i].business = Tenant(x)
       THEN /\ IF incidents[i].resolvedBy = Absent
                 THEN /\ incidents' = [incidents EXCEPT ![i].resolvedBy = Actor(x)]
                      /\ Audit(x, "incident.resolved", i)
                 ELSE UNCHANGED <<incidents, audit>>
            /\ Answer(x, "ok")
       ELSE UNCHANGED <<incidents, audit>> /\ Answer(x, "not_found")
  /\ UNCHANGED <<clock, keys, users, policies, windows, accessLog>>

UpdateSecurityPolicy(x) ==
  /\ Handles(x, "UpdateSecurityPolicy")
  /\ policies' = [policies EXCEPT ![Tenant(x)] = flight[x].command.limit]
  /\ Audit(x, "security_policy.updated", Tenant(x))
  /\ Answer(x, "ok")
  /\ UNCHANGED <<clock, keys, users, incidents, windows, accessLog>>

Handle(x) ==
  \/ \E b \in Business, k \in KeyId : CreateBusiness(x, b, k)
  \/ \E k \in KeyId : CreateAPIKey(x, k)
  \/ RevokeAPIKey(x)
  \/ ListUsers(x)
  \/ CreateUser(x)
  \/ \E i \in IncidentId : CreateIncident(x, i)
  \/ ResolveIncident(x)
  \/ UpdateSecurityPolicy(x)

-------------------------------------------------------------------------------
(* After the handler *)

\* recordAccess looks the key up again.
RecordAccess(x) ==
  LET valid == ValidKey(KeyOf(x)) IN
  /\ At(x, "answered")
  /\ accessLog' = accessLog \cup
       {[exchange |-> x,
         business |-> IF valid THEN keys[KeyOf(x)].business ELSE Absent,
         key |-> IF valid THEN KeyOf(x) ELSE Absent,
         status |-> flight[x].status]}
  /\ flight' = [flight EXCEPT ![x].stage = "logged"]
  /\ UNCHANGED <<clock, tables, windows>>

Tick ==
  /\ clock < MaxTime
  /\ clock' = clock + 1
  /\ UNCHANGED <<flight, tables, windows, accessLog>>

\* A server started on the snapshot of some businesses as they were created.
Init ==
  LET founded == {b \in Business : Founders[b] # Absent}
  IN  /\ clock = 0
      /\ flight = [x \in Exchange |-> Absent]
      /\ keys = [k \in KeyId |->
           IF \E b \in founded : Founders[b].key = k
             THEN LET b == CHOOSE b \in founded : Founders[b].key = k
                  IN  FoundingKey(b, Founders[b].owner)
             ELSE Absent]
      /\ users = {[business |-> b, email |-> Founders[b].owner] : b \in founded}
      /\ incidents = [i \in IncidentId |-> Absent]
      /\ policies = [b \in Business |-> IF b \in founded THEN DefaultLimit ELSE Absent]
      /\ audit = UNION {Founding(Absent, b, Founders[b].key, Founders[b].owner) :
                          b \in founded}
      /\ windows = [o \in Origin |-> [count |-> 0, resetAt |-> 0]]
      /\ accessLog = {}

Next ==
  \/ Tick
  \/ \E x \in Exchange :
       \/ \E origin \in Origin, command \in {sent[2] : sent \in Traffic} :
            Arrive(x, origin, command)
       \/ Identify(x)
       \/ ReadLimit(x)
       \/ Count(x)
       \/ Authenticate(x)
       \/ Handle(x)
       \/ RecordAccess(x)

Spec == Init /\ [][Next]_vars

-------------------------------------------------------------------------------
(* Invariants *)

\* Every table and every request in flight holds records of its shape.
TypeOK ==
  /\ clock \in Nat
  /\ flight \in [Exchange -> InFlight \cup {Absent}]
  /\ keys \in [KeyId -> Key \cup {Absent}]
  /\ users \subseteq User
  /\ incidents \in [IncidentId -> Incident \cup {Absent}]
  /\ policies \in [Business -> Nat \cup {Absent}]
  /\ audit \subseteq AuditEntry
  /\ windows \in [Origin -> Window]
  /\ accessLog \subseteq AccessEntry

Succeeded(x) == flight[x] # Absent /\ flight[x].status = "ok"

\* Revoking a key stops it at once for whatever is sent afterwards; only a
\* request already on its way when the key was revoked, or one that no key is
\* asked for (CreateBusiness wants the setup token), may still succeed.
RevokedKeysStop ==
  \A x \in Exchange :
    Succeeded(x) /\ flight[x].command.op # "CreateBusiness" => ~flight[x].tooLate

EntriesFor(action, resource) ==
  {e \in audit : e.action = action /\ e.resource = resource}

\* The audit log explains the tables: every key, user and incident has the one
\* entry of its creation, by the actor and for the business it names (a key whose
\* creator is an owner came with the business), and an entry of its revocation or
\* resolution iff it has been revoked or resolved - one, however many requests
\* asked for it at the same time.
AuditExplainsTables ==
  /\ \A k \in KeyId :
       LET created == EntriesFor("api_key.created", k)
           revoked == EntriesFor("api_key.revoked", k)
       IN  /\ Cardinality(created) = IF keys[k] = Absent THEN 0 ELSE 1
           /\ \A e \in created :
                /\ e.business = keys[k].business
                /\ e.actor = IF keys[k].createdBy \in Email THEN Absent
                             ELSE keys[k].createdBy
           /\ Cardinality(revoked) =
                IF keys[k] = Absent THEN 0 ELSE IF keys[k].revoked THEN 1 ELSE 0
  /\ \A b \in Business, email \in Email :
       Cardinality({e \in EntriesFor("user.created", email) : e.business = b}) =
         IF [business |-> b, email |-> email] \in users THEN 1 ELSE 0
  /\ \A i \in IncidentId :
       LET resolved == EntriesFor("incident.resolved", i)
       IN  /\ {e.actor : e \in EntriesFor("incident.created", i)} =
                IF incidents[i] = Absent THEN {} ELSE {incidents[i].createdBy}
           /\ Cardinality(resolved) <= 1
           /\ {e.actor : e \in resolved} =
                IF incidents[i] = Absent THEN {} ELSE {incidents[i].resolvedBy} \ {Absent}

ScopeFor(action) ==
  CASE action \in {"api_key.created", "api_key.revoked"} -> "api_keys:write"
    [] action = "user.created" -> "users:write"
    [] action \in {"incident.created", "incident.resolved"} -> "incidents:write"
    [] action = "security_policy.updated" -> "security_policy:write"

\* What was changed belongs to the business of the entry.
BelongsTo(resource, b) ==
  /\ resource \in KeyId => keys[resource].business = b
  /\ resource \in IncidentId => incidents[resource].business = b
  /\ resource \in Business => resource = b

\* Nothing of a business was ever changed but by a key of that business with the
\* scope for it: whoever an entry names was entitled to what it says, and the
\* policy is the default or one that such an entry of the business accounts for.
ActorsWereEntitled ==
  /\ \A e \in audit :
       /\ BelongsTo(e.resource, e.business)
       /\ e.actor # Absent =>
            keys[e.actor].business = e.business /\ HasScope(e.actor, ScopeFor(e.action))
  /\ \A b \in Business :
       policies[b] \in {Absent, DefaultLimit} \/
         \E e \in EntriesFor("security_policy.updated", b) :
           flight[e.exchange].command.limit = policies[b]

Counted(x, origin) ==
  flight[x] # Absent /\ flight[x].origin = origin /\ flight[x].window # 0

Passed(x) == flight[x].status # "rate_limited"

\* The server's default, or a limit the request's own business has set.
OwnLimits(x) ==
  {DefaultLimit} \cup
    {flight[e.exchange].command.limit :
       e \in IF KeyOf(x) = Absent THEN {}
             ELSE EntriesFor("security_policy.updated", keys[KeyOf(x)].business)}

\* However requests of one origin interleave between reading their limit and
\* being counted, those that pass in one window are no more than the highest
\* limit one of them was measured against; and a window starts no sooner than
\* the one before it ended, even for a request whose clock reading is old.
AdmissionsAreBounded ==
  \A o \in Origin :
    LET counted == {x \in Exchange : Counted(x, o)} IN
    /\ \A x \in counted :
         LET passed == {y \in counted : Passed(y) /\ flight[y].window = flight[x].window}
         IN  passed # {} => \E y \in passed : Cardinality(passed) <= flight[y].limit
    /\ \A x, y \in counted :
         flight[x].window < flight[y].window =>
           flight[x].window + Minute <= flight[y].window

\* A refusal is earned: a limit of the request's own business was used up by
\* others of the same origin that were counted less than a minute before it came.
RefusalsAreEarned ==
  \A x \in Exchange :
    flight[x] # Absent /\ ~Passed(x) =>
      \E limit \in OwnLimits(x) :
        limit <= Cardinality({y \in Exchange \ {x} :
                                /\ Counted(y, flight[x].origin)
                                /\ flight[x].now < flight[y].countedAt + Minute})

\* Every answered request is in the access log once, with the answer it got; the
\* entry names the request's own key, and only a revocation hides it.
AccessLogTellsTraffic ==
  \A x \in Exchange :
    LET entries == {e \in accessLog : e.exchange = x}
        k == KeyOf(x)
    IN  IF ~At(x, "logged") THEN entries = {}
        ELSE \E e \in entries :
               /\ entries = {e}
               /\ e.status = flight[x].status
               /\ \/ e.key = Absent /\ e.business = Absent
                     /\ k # Absent => keys[k].revoked
                  \/ e.key = k /\ k # Absent /\ e.business = keys[k].business
===============================================================================
