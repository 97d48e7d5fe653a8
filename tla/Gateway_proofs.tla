---------------------------- MODULE Gateway_proofs ----------------------------
(***************************************************************************)
(* What the gateway promises, proved for every set of keys, requests and   *)
(* limits.  Tables only grow: a key never changes its business, its scopes *)
(* or its creator and is never un-revoked, and what a request captured on  *)
(* its way stays true of the tables it was captured from.  That is why     *)
(* three look-ups of one key without a lock in between do no harm.         *)
(***************************************************************************)
EXTENDS Gateway, FiniteSetTheorems, TLAPS

-------------------------------------------------------------------------------
(* The inductive invariant *)

\* allowRequest reads the policy of a business a key named.
KeysHavePolicies ==
  \A k \in KeyId : keys[k] # Absent => policies[keys[k].business] # Absent

\* What a request has captured is still so: its key exists, its business is its
\* key's, a handler runs only for a key with the scope it asks for, and no answer
\* is there before one is given.
CapturedBy(x) ==
  /\ KeyOf(x) # Absent => keys[KeyOf(x)] # Absent
  /\ flight[x].tooLate => KeyOf(x) # Absent /\ keys[KeyOf(x)].revoked
  /\ flight[x].business # Absent =>
       KeyOf(x) # Absent /\ flight[x].business = keys[KeyOf(x)].business
  /\ flight[x].stage = "authenticated" /\ flight[x].command.op # "CreateBusiness" =>
       /\ KeyOf(x) # Absent
       /\ HasScope(KeyOf(x), RequiredScope(flight[x].command))
       /\ ~flight[x].tooLate
  /\ flight[x].stage \in {"arrived", "identified", "measured"} =>
       flight[x].window = 0
  /\ flight[x].stage \notin {"answered", "logged"} => flight[x].status = "none"

CapturedIsTrue == \A x \in Exchange : flight[x] # Absent => CapturedBy(x)

Inv == TypeOK /\ KeysHavePolicies /\ CapturedIsTrue /\ RevokedKeysStop

\* The fields a command has by its kind.
LEMMA CommandFields ==
  ASSUME NEW command \in Command
  PROVE  /\ command.op = "CreateBusiness" => command.owner \in Email
         /\ command.op = "CreateAPIKey" => command.scopes \in SUBSET Scope
         /\ command.op = "RevokeAPIKey" => command.key \in KeyId
         /\ command.op = "CreateUser" => command.email \in Email
         /\ command.op = "ResolveIncident" => command.incident \in IncidentId
         /\ command.op = "UpdateSecurityPolicy" => command.limit \in Nat \ {0}
BY DEF Command

\* The key of a request is an id or missing.
LEMMA KeyOfType ==
  ASSUME TypeOK, NEW x \in Exchange, flight[x] # Absent
  PROVE  /\ flight[x] \in InFlight
         /\ KeyOf(x) \in KeyId \cup {Absent}
BY GatewayAssumption DEF TypeOK, KeyOf, InFlight

\* A handler other than CreateBusiness runs for a key there is, of a business
\* there is.
LEMMA HandlerHasTenant ==
  ASSUME Inv, NEW x \in Exchange, At(x, "authenticated"),
         flight[x].command.op # "CreateBusiness"
  PROVE  /\ Actor(x) \in KeyId /\ Actor(x) # Absent
         /\ keys[Actor(x)] \in Key
         /\ Tenant(x) \in Business
         /\ policies[Tenant(x)] \in Nat
BY KeyOfType, NamesAssumption
   DEF Inv, TypeOK, KeysHavePolicies, CapturedIsTrue, CapturedBy, At, Actor, Tenant, Key

-------------------------------------------------------------------------------
(* Types *)

\* An answer leaves a request a request.
LEMMA AnswerType ==
  ASSUME flight \in [Exchange -> InFlight \cup {Absent}],
         NEW x \in Exchange, flight[x] # Absent,
         NEW status \in Status, Answer(x, status)
  PROVE  flight' \in [Exchange -> InFlight \cup {Absent}] /\ flight'[x] \in InFlight
<1>1. flight[x] \in InFlight
  OBVIOUS
<1>2. [flight[x] EXCEPT !.stage = "answered", !.status = status] \in InFlight
  BY <1>1 DEF InFlight, Stage
<1>3. flight' = [flight EXCEPT ![x] =
                   [flight[x] EXCEPT !.stage = "answered", !.status = status]]
  BY DEF Answer
<1>4. QED
  BY <1>2, <1>3

\* An audit entry of a handler has its shape.
LEMMA AuditType ==
  ASSUME Inv, NEW x \in Exchange, At(x, "authenticated"),
         flight[x].command.op # "CreateBusiness",
         NEW action \in Action,
         NEW resource \in KeyId \cup Email \cup IncidentId \cup Business,
         Audit(x, action, resource)
  PROVE  audit' \subseteq AuditEntry
<1>1. AuditEntryOf(x, action, resource) \in AuditEntry
  BY HandlerHasTenant DEF AuditEntryOf, AuditEntry
<1>2. QED
  BY <1>1 DEF Audit, Inv, TypeOK

\* So have those of a new business.
LEMMA FoundingType ==
  ASSUME NEW x \in Exchange \cup {Absent}, NEW b \in Business, NEW k \in KeyId,
         NEW owner \in Email
  PROVE  Founding(x, b, k, owner) \subseteq AuditEntry
<1>1. /\ "business.created" \in Action /\ "user.created" \in Action
      /\ "api_key.created" \in Action
  BY DEF Action
<1>2. \A action \in Action, resource \in KeyId \cup Email \cup IncidentId \cup Business :
        [exchange |-> x, business |-> b, actor |-> Absent, action |-> action,
         resource |-> resource] \in AuditEntry
  BY DEF AuditEntry
<1>3. QED
  BY <1>1, <1>2 DEF Founding

\* Steps of a request before and after its handler.
Passage(x) ==
  \/ \E origin \in Origin, command \in {sent[2] : sent \in Traffic} :
       Arrive(x, origin, command)
  \/ Identify(x)
  \/ ReadLimit(x)
  \/ Count(x)
  \/ Authenticate(x)
  \/ RecordAccess(x)

\* They keep every table and request well formed.
LEMMA PassageType ==
  ASSUME Inv, NEW x \in Exchange, Passage(x)
  PROVE  TypeOK' /\ flight'[x] \in InFlight
<1>1. CASE \E origin \in Origin, command \in {sent[2] : sent \in Traffic} :
             Arrive(x, origin, command)
  <2>1. PICK origin \in Origin, command \in {sent[2] : sent \in Traffic} :
               Arrive(x, origin, command)
    BY <1>1
  <2>2. command \in Command
    BY <2>1, GatewayAssumption DEF Arrive
  <2>3. Bearer[origin] # Absent => keys[Bearer[origin]] \in Key
    BY <2>1, GatewayAssumption DEF Arrive, Inv, TypeOK
  <2>4. (Bearer[origin] # Absent /\ keys[Bearer[origin]].revoked) \in BOOLEAN
    BY <2>3 DEF Key
  <2>5. flight'[x] \in InFlight
    BY <2>1, <2>2, <2>4, GatewayAssumption DEF Arrive, Inv, TypeOK, InFlight, Stage, Status
  <2>6. flight' \in [Exchange -> InFlight \cup {Absent}]
    BY <2>1, <2>5 DEF Arrive, Inv, TypeOK
  <2>7. QED
    BY <2>1, <2>5, <2>6 DEF Arrive, tables, Inv, TypeOK
<1>2. CASE Identify(x)
  <2>1. (IF ValidKey(KeyOf(x)) THEN keys[KeyOf(x)].business ELSE Absent)
          \in Business \cup {Absent}
    BY <1>2, KeyOfType DEF Identify, At, Inv, TypeOK, ValidKey, Key
  <2>2. flight[x] \in InFlight
    BY <1>2, KeyOfType DEF Identify, At, Inv
  <2> DEFINE b == IF ValidKey(KeyOf(x)) THEN keys[KeyOf(x)].business ELSE Absent
  <2>3. flight' = [flight EXCEPT ![x] =
                     [flight[x] EXCEPT !.stage = "identified", !.business = b]]
    BY <1>2 DEF Identify
  <2> HIDE DEF b
  <2>4. [flight[x] EXCEPT !.stage = "identified", !.business = b] \in InFlight
    BY <2>1, <2>2 DEF b, InFlight, Stage
  <2>5. flight' \in [Exchange -> InFlight \cup {Absent}]
    BY <2>3, <2>4 DEF Inv, TypeOK
  <2>6. flight'[x] \in InFlight
    BY <2>3, <2>4 DEF Inv, TypeOK
  <2>7. QED
    BY <1>2, <2>5, <2>6 DEF Identify, tables, Inv, TypeOK
<1>3. CASE ReadLimit(x)
  <2>1. flight[x].business # Absent => policies[flight[x].business] \in Nat
    BY <1>3, KeyOfType DEF ReadLimit, At, Inv, TypeOK, CapturedIsTrue, CapturedBy, KeysHavePolicies, Key
  <2>2. (IF flight[x].business = Absent THEN DefaultLimit
         ELSE policies[flight[x].business]) \in Nat
    BY <2>1, GatewayAssumption
  <2> DEFINE l == IF flight[x].business = Absent THEN DefaultLimit
                  ELSE policies[flight[x].business]
  <2>3. flight' = [flight EXCEPT ![x] =
                     [flight[x] EXCEPT !.stage = "measured", !.limit = l]]
    BY <1>3 DEF ReadLimit
  <2> HIDE DEF l
  <2>4. flight[x] \in InFlight
    BY <1>3, KeyOfType DEF ReadLimit, At, Inv
  <2>5. [flight[x] EXCEPT !.stage = "measured", !.limit = l] \in InFlight
    BY <2>2, <2>4 DEF l, InFlight, Stage
  <2>6. flight' \in [Exchange -> InFlight \cup {Absent}]
    BY <2>3, <2>5 DEF Inv, TypeOK
  <2>7. flight'[x] \in InFlight
    BY <2>3, <2>5 DEF Inv, TypeOK
  <2>8. QED
    BY <1>3, <2>6, <2>7 DEF ReadLimit, tables, Inv, TypeOK
<1>4. CASE Count(x)
  <2> DEFINE w == CurrentWindow(windows[flight[x].origin], flight[x].now)
             window == [w EXCEPT !.count = @ + 1]
  <2>1. flight[x] \in InFlight /\ windows[flight[x].origin] \in Window
    BY <1>4, KeyOfType DEF Count, At, Inv, TypeOK, InFlight
  <2>2. w \in Window
    BY <2>1, GatewayAssumption DEF CurrentWindow, Window, InFlight
  <2>3. window \in Window
    BY <2>2 DEF Window
  <2>4. Admit(x, window) /\ windows' = [windows EXCEPT ![flight[x].origin] = window]
        /\ UNCHANGED <<clock, tables, accessLog>>
    BY <1>4 DEF Count
  <2> HIDE DEF window
  <2>5. \A stage \in Stage, status \in Status :
          [flight[x] EXCEPT !.stage = stage, !.status = status,
             !.window = window.resetAt, !.countedAt = clock] \in InFlight
    BY <2>1, <2>3 DEF Inv, TypeOK, InFlight, Window
  <2>6. PICK stage \in Stage, status \in Status :
          flight' = [flight EXCEPT ![x] =
                       [flight[x] EXCEPT !.stage = stage, !.status = status,
                          !.window = window.resetAt, !.countedAt = clock]]
    BY ZenonT(60), <2>4 DEF Admit, Stage, Status
  <2>7. flight' \in [Exchange -> InFlight \cup {Absent}] /\ flight'[x] \in InFlight
    BY <2>5, <2>6 DEF Inv, TypeOK
  <2>8. QED
    BY <2>3, <2>4, <2>7 DEF tables, Inv, TypeOK
<1>5. CASE Authenticate(x)
  <2>1. /\ flight' = [flight EXCEPT ![x].stage = "authenticated"]
           \/ \E status \in Status : Answer(x, status)
        /\ UNCHANGED <<clock, tables, windows, accessLog>>
    BY <1>5 DEF Authenticate, Status
  <2>2. flight[x] # Absent /\ flight[x] \in InFlight
    BY <1>5, KeyOfType DEF Authenticate, At, Inv
  <2>3. ASSUME flight' = [flight EXCEPT ![x].stage = "authenticated"]
        PROVE  flight' \in [Exchange -> InFlight \cup {Absent}] /\ flight'[x] \in InFlight
    <3>1. [flight[x] EXCEPT !.stage = "authenticated"] \in InFlight
      BY <2>2 DEF InFlight, Stage
    <3>2. QED
      BY <2>2, <2>3, <3>1 DEF Inv, TypeOK
  <2>4. flight' \in [Exchange -> InFlight \cup {Absent}] /\ flight'[x] \in InFlight
    BY <2>1, <2>2, <2>3, AnswerType DEF Inv, TypeOK
  <2>5. UNCHANGED <<clock, keys, users, incidents, policies, audit, windows, accessLog>>
    BY <2>1 DEF tables
  <2>6. QED
    BY <2>4, <2>5 DEF Inv, TypeOK
<1>6. CASE RecordAccess(x)
  <2>1. flight[x] \in InFlight /\ KeyOf(x) \in KeyId \cup {Absent}
    BY <1>6, KeyOfType DEF RecordAccess, At, Inv
  <2>2. flight' \in [Exchange -> InFlight \cup {Absent}] /\ flight'[x] \in InFlight
    BY <1>6, <2>1 DEF RecordAccess, Inv, TypeOK, InFlight, Stage
  <2>3. accessLog' \subseteq AccessEntry
    BY <1>6, <2>1 DEF RecordAccess, Inv, TypeOK, AccessEntry, ValidKey, Key, InFlight
  <2>4. QED
    BY <1>6, <2>2, <2>3 DEF RecordAccess, tables, Inv, TypeOK
<1>7. QED
  BY <1>1, <1>2, <1>3, <1>4, <1>5, <1>6 DEF Passage

-------------------------------------------------------------------------------
(* Tables only grow *)

\* A key stays with its business, scopes and creator, and revoked once revoked; a
\* business keeps having a policy; nothing leaves the audit log.
TablesGrow ==
  /\ \A k \in KeyId :
       keys[k] # Absent =>
         /\ keys'[k] # Absent
         /\ keys'[k].business = keys[k].business
         /\ keys'[k].scopes = keys[k].scopes
         /\ keys'[k].createdBy = keys[k].createdBy
         /\ keys[k].revoked => keys'[k].revoked
  /\ \A b \in Business : policies[b] # Absent => policies'[b] # Absent
  /\ \A i \in IncidentId :
       incidents[i] # Absent =>
         /\ incidents'[i] # Absent
         /\ incidents'[i].business = incidents[i].business
  /\ audit \subseteq audit'

\* What every handler does, whatever else it does.
Handled(x) ==
  /\ At(x, "authenticated")
  /\ \E status \in {"ok", "not_found", "conflict"} : Answer(x, status)
  /\ UNCHANGED <<clock, windows, accessLog>>
  /\ TypeOK'
  /\ TablesGrow
  /\ KeysHavePolicies'

\* A handler answers its request, and leaves all tables well formed.
LEMMA AnswerSuffices ==
  ASSUME Inv, NEW x \in Exchange, At(x, "authenticated"),
         NEW status \in {"ok", "not_found", "conflict"}, Answer(x, status),
         UNCHANGED <<clock, windows, accessLog>>,
         keys' \in [KeyId -> Key \cup {Absent}],
         users' \subseteq User,
         incidents' \in [IncidentId -> Incident \cup {Absent}],
         policies' \in [Business -> Nat \cup {Absent}],
         audit' \subseteq AuditEntry,
         TablesGrow, KeysHavePolicies'
  PROVE  Handled(x)
<1>1. flight' \in [Exchange -> InFlight \cup {Absent}]
  BY AnswerType DEF Inv, TypeOK, At, Status
<1>2. QED
  BY <1>1 DEF Handled, Inv, TypeOK

\* The store operation behind each handler does what Handled says: creating a
\* business does.
LEMMA CreateBusinessHandles ==
  ASSUME Inv, NEW x \in Exchange, NEW b \in Business, NEW k \in KeyId,
         CreateBusiness(x, b, k)
  PROVE  Handled(x)
<1> DEFINE owner == flight[x].command.owner
<1>1. /\ At(x, "authenticated") /\ Answer(x, "ok")
      /\ policies[b] = Absent /\ keys[k] = Absent
      /\ keys' = [keys EXCEPT ![k] = FoundingKey(b, owner)]
      /\ users' = users \cup {[business |-> b, email |-> owner]}
      /\ policies' = [policies EXCEPT ![b] = DefaultLimit]
      /\ audit' = audit \cup Founding(x, b, k, owner)
      /\ UNCHANGED <<clock, incidents, windows, accessLog>>
  BY DEF CreateBusiness, Handles
<1>2. owner \in Email
  <2>1. flight[x] \in InFlight /\ flight[x].command.op = "CreateBusiness"
    BY KeyOfType DEF CreateBusiness, Handles, At, Inv
  <2>2. QED
    BY <2>1, CommandFields DEF InFlight
<1> HIDE DEF owner
<1>3. FoundingKey(b, owner) \in Key
  BY <1>2 DEF FoundingKey, Key
<1>4. keys' \in [KeyId -> Key \cup {Absent}]
  BY <1>1, <1>3 DEF Inv, TypeOK
<1>5. users' \subseteq User
  BY <1>1, <1>2 DEF Inv, TypeOK, User
<1>6. policies' \in [Business -> Nat \cup {Absent}]
  BY <1>1, GatewayAssumption DEF Inv, TypeOK
<1>7. audit' \subseteq AuditEntry
  <2>1. Founding(x, b, k, owner) \subseteq AuditEntry
    BY <1>2, FoundingType
  <2>2. QED
    BY <1>1, <2>1 DEF Inv, TypeOK
<1>8. TablesGrow
  BY <1>1, GatewayAssumption, NamesAssumption DEF TablesGrow, Inv, TypeOK
<1>9. KeysHavePolicies'
  <2>1. ASSUME NEW j \in KeyId, keys'[j] # Absent
        PROVE  policies'[keys'[j].business] # Absent
    <3>1. CASE j = k
      BY <1>1, <3>1, GatewayAssumption, NamesAssumption DEF FoundingKey, Inv, TypeOK
    <3>2. CASE j # k
      <4>1. keys'[j] = keys[j] /\ keys[j] \in Key
        BY <1>1, <2>1, <3>2 DEF Inv, TypeOK
      <4>2. QED
        BY <1>1, <2>1, <4>1 DEF Inv, TypeOK, KeysHavePolicies, Key
    <3>3. QED
      BY <3>1, <3>2
  <2>2. QED
    BY <2>1 DEF KeysHavePolicies
<1>10. QED
  BY <1>1, <1>4, <1>5, <1>6, <1>7, <1>8, <1>9, AnswerSuffices DEF Inv, TypeOK

\* A handler that leaves the keys and the policies alone.
LEMMA OtherTablesSuffice ==
  ASSUME Inv, NEW x \in Exchange, At(x, "authenticated"),
         NEW status \in {"ok", "not_found", "conflict"}, Answer(x, status),
         UNCHANGED <<clock, keys, policies, windows, accessLog>>,
         users' \subseteq User,
         incidents' \in [IncidentId -> Incident \cup {Absent}],
         \A i \in IncidentId :
           incidents[i] # Absent =>
             incidents'[i] # Absent /\ incidents'[i].business = incidents[i].business,
         audit' \subseteq AuditEntry, audit \subseteq audit'
  PROVE  Handled(x)
<1>1. TablesGrow /\ KeysHavePolicies'
  BY DEF TablesGrow, Inv, KeysHavePolicies
<1>2. QED
  BY <1>1, AnswerSuffices DEF Inv, TypeOK

\* Creating a key does.
LEMMA CreateAPIKeyHandles ==
  ASSUME Inv, NEW x \in Exchange, NEW k \in KeyId, CreateAPIKey(x, k)
  PROVE  Handled(x)
<1> DEFINE new == [business |-> Tenant(x), scopes |-> flight[x].command.scopes,
                   createdBy |-> Actor(x), revoked |-> FALSE]
<1>1. /\ At(x, "authenticated") /\ flight[x].command.op = "CreateAPIKey"
      /\ Answer(x, "ok") /\ Audit(x, "api_key.created", k)
      /\ keys[k] = Absent
      /\ keys' = [keys EXCEPT ![k] = new]
      /\ UNCHANGED <<clock, users, incidents, policies, windows, accessLog>>
  BY DEF CreateAPIKey, Handles
<1>2. flight[x].command.scopes \in SUBSET Scope
  BY <1>1, KeyOfType, CommandFields DEF At, Inv, InFlight
<1>3. /\ Tenant(x) \in Business /\ Actor(x) \in KeyId
      /\ policies[Tenant(x)] # Absent
  BY <1>1, HandlerHasTenant, NamesAssumption
<1>4. new \in Key /\ new.business = Tenant(x)
  BY <1>2, <1>3 DEF Key
<1> HIDE DEF new
<1>5. keys' \in [KeyId -> Key \cup {Absent}]
  BY <1>1, <1>4 DEF Inv, TypeOK
<1>6. audit' \subseteq AuditEntry /\ audit \subseteq audit'
  <2>1. "api_key.created" \in Action
    BY DEF Action
  <2>2. QED
    BY <1>1, <2>1, AuditType DEF Audit
<1>7. TablesGrow
  BY <1>1, <1>6 DEF TablesGrow, Inv, TypeOK
<1>8. KeysHavePolicies'
  <2>1. ASSUME NEW j \in KeyId, keys'[j] # Absent
        PROVE  policies'[keys'[j].business] # Absent
    <3>1. CASE j = k
      BY <1>1, <1>3, <1>4, <3>1 DEF Inv, TypeOK
    <3>2. CASE j # k
      BY <1>1, <2>1, <3>2 DEF Inv, TypeOK, KeysHavePolicies
    <3>3. QED
      BY <3>1, <3>2
  <2>2. QED
    BY <2>1 DEF KeysHavePolicies
<1>9. QED
  BY <1>1, <1>5, <1>6, <1>7, <1>8, AnswerSuffices DEF Inv, TypeOK

\* Revoking one does.
LEMMA RevokeAPIKeyHandles ==
  ASSUME Inv, NEW x \in Exchange, RevokeAPIKey(x)
  PROVE  Handled(x)
<1> DEFINE k == flight[x].command.key
<1>1. /\ At(x, "authenticated") /\ flight[x].command.op = "RevokeAPIKey"
      /\ UNCHANGED <<clock, users, incidents, policies, windows, accessLog>>
  BY DEF RevokeAPIKey, Handles
<1>2. \/ /\ keys[k] # Absent
         /\ keys' = [keys EXCEPT ![k].revoked = TRUE]
         /\ UNCHANGED audit \/ Audit(x, "api_key.revoked", k)
         /\ Answer(x, "ok")
      \/ UNCHANGED <<keys, audit>> /\ Answer(x, "not_found")
  BY DEF RevokeAPIKey
<1>3. k \in KeyId
  BY <1>1, KeyOfType, CommandFields DEF At, Inv, InFlight
<1> HIDE DEF k
<1>4. keys' \in [KeyId -> Key \cup {Absent}]
  <2>1. CASE /\ keys[k] # Absent
             /\ keys' = [keys EXCEPT ![k].revoked = TRUE]
    <3>1. keys[k] \in Key
      BY <1>3, <2>1 DEF Inv, TypeOK
    <3>2. [keys[k] EXCEPT !.revoked = TRUE] \in Key
      BY <3>1 DEF Key
    <3>3. QED
      BY <2>1, <3>2 DEF Inv, TypeOK
  <2>2. QED
    BY <1>2, <2>1 DEF Inv, TypeOK
<1>5. audit' \subseteq AuditEntry /\ audit \subseteq audit'
  <2>1. "api_key.revoked" \in Action
    BY DEF Action
  <2>2. CASE Audit(x, "api_key.revoked", k)
    BY <1>1, <1>3, <2>1, <2>2, AuditType DEF Audit
  <2>3. QED
    BY <1>2, <2>2 DEF Inv, TypeOK
<1>6. \A j \in KeyId :
        keys[j] # Absent =>
          /\ keys'[j] # Absent
          /\ keys'[j].business = keys[j].business
          /\ keys'[j].scopes = keys[j].scopes
          /\ keys'[j].createdBy = keys[j].createdBy
          /\ keys[j].revoked => keys'[j].revoked
  <2> SUFFICES ASSUME NEW j \in KeyId, keys[j] # Absent
               PROVE  /\ keys'[j] # Absent
                      /\ keys'[j].business = keys[j].business
                      /\ keys'[j].scopes = keys[j].scopes
                      /\ keys'[j].createdBy = keys[j].createdBy
                      /\ keys[j].revoked => keys'[j].revoked
    OBVIOUS
  <2>1. CASE /\ j = k
             /\ keys' = [keys EXCEPT ![k].revoked = TRUE]
    <3>1. keys[j] \in Key
      BY DEF Inv, TypeOK
    <3>2. keys'[j] = [keys[j] EXCEPT !.revoked = TRUE]
      BY <2>1 DEF Inv, TypeOK
    <3>3. keys'[j] \in Key
      BY <3>1, <3>2 DEF Key
    <3>4. QED
      BY <3>1, <3>2, <3>3, NamesAssumption DEF Key
  <2>2. QED
    BY <1>2, <2>1 DEF Inv, TypeOK
<1>7. TablesGrow
  BY <1>1, <1>5, <1>6 DEF TablesGrow
<1>8. KeysHavePolicies'
  <2>1. ASSUME NEW j \in KeyId, keys'[j] # Absent
        PROVE  policies'[keys'[j].business] # Absent
    <3>1. keys[j] # Absent
      BY <1>2, <2>1 DEF Inv, TypeOK
    <3>2. QED
      BY <1>1, <1>6, <3>1 DEF Inv, KeysHavePolicies
  <2>2. QED
    BY <2>1 DEF KeysHavePolicies
<1>9. QED
  BY <1>1, <1>2, <1>4, <1>5, <1>7, <1>8, AnswerSuffices DEF Inv, TypeOK

\* Reading the users does.
LEMMA ListUsersHandles ==
  ASSUME Inv, NEW x \in Exchange, ListUsers(x)
  PROVE  Handled(x)
BY OtherTablesSuffice DEF ListUsers, Handles, tables, Inv, TypeOK

\* Creating a user does.
LEMMA CreateUserHandles ==
  ASSUME Inv, NEW x \in Exchange, CreateUser(x)
  PROVE  Handled(x)
<1> DEFINE user == [business |-> Tenant(x), email |-> flight[x].command.email]
<1>1. /\ At(x, "authenticated") /\ flight[x].command.op = "CreateUser"
      /\ UNCHANGED <<clock, keys, incidents, policies, windows, accessLog>>
      /\ \/ UNCHANGED <<users, audit>> /\ Answer(x, "conflict")
         \/ /\ users' = users \cup {user}
            /\ Audit(x, "user.created", user.email)
            /\ Answer(x, "ok")
  BY DEF CreateUser, Handles
<1>2. flight[x].command.email \in Email
  BY <1>1, KeyOfType, CommandFields DEF At, Inv, InFlight
<1>3. user \in User /\ user.email \in Email
  BY <1>1, <1>2, HandlerHasTenant DEF User
<1> HIDE DEF user
<1>4. "user.created" \in Action
  BY DEF Action
<1>5. users' \subseteq User /\ audit' \subseteq AuditEntry /\ audit \subseteq audit'
  BY <1>1, <1>3, <1>4, AuditType DEF Audit, Inv, TypeOK
<1>6. QED
  BY <1>1, <1>5, OtherTablesSuffice DEF Inv, TypeOK

\* Opening an incident does.
LEMMA CreateIncidentHandles ==
  ASSUME Inv, NEW x \in Exchange, NEW i \in IncidentId, CreateIncident(x, i)
  PROVE  Handled(x)
<1> DEFINE new == [business |-> Tenant(x), createdBy |-> Actor(x), resolvedBy |-> Absent]
<1>1. /\ At(x, "authenticated") /\ flight[x].command.op = "CreateIncident"
      /\ incidents[i] = Absent
      /\ incidents' = [incidents EXCEPT ![i] = new]
      /\ Audit(x, "incident.created", i) /\ Answer(x, "ok")
      /\ UNCHANGED <<clock, keys, users, policies, windows, accessLog>>
  BY DEF CreateIncident, Handles
<1>2. new \in Incident
  BY <1>1, HandlerHasTenant DEF Incident
<1> HIDE DEF new
<1>3. "incident.created" \in Action
  BY DEF Action
<1>4. audit' \subseteq AuditEntry /\ audit \subseteq audit'
  BY <1>1, <1>3, AuditType DEF Audit
<1>5. incidents' \in [IncidentId -> Incident \cup {Absent}]
  BY <1>1, <1>2 DEF Inv, TypeOK
<1>6. \A j \in IncidentId : incidents[j] # Absent => incidents'[j] = incidents[j]
  BY <1>1 DEF Inv, TypeOK
<1>7. QED
  BY <1>1, <1>4, <1>5, <1>6, OtherTablesSuffice DEF Inv, TypeOK

\* Resolving one does.
LEMMA ResolveIncidentHandles ==
  ASSUME Inv, NEW x \in Exchange, ResolveIncident(x)
  PROVE  Handled(x)
<1> DEFINE i == flight[x].command.incident
<1>1. /\ At(x, "authenticated") /\ flight[x].command.op = "ResolveIncident"
      /\ UNCHANGED <<clock, keys, users, policies, windows, accessLog>>
  BY DEF ResolveIncident, Handles
<1>2. \/ /\ incidents[i] # Absent
         /\ incidents' = [incidents EXCEPT ![i].resolvedBy = Actor(x)]
         /\ Audit(x, "incident.resolved", i)
         /\ Answer(x, "ok")
      \/ UNCHANGED <<incidents, audit>> /\ Answer(x, "ok")
      \/ UNCHANGED <<incidents, audit>> /\ Answer(x, "not_found")
  BY DEF ResolveIncident
<1>3. i \in IncidentId
  BY <1>1, KeyOfType, CommandFields DEF At, Inv, InFlight
<1>4. Actor(x) \in KeyId
  BY <1>1, HandlerHasTenant
<1> HIDE DEF i
<1>5. CASE /\ incidents[i] # Absent
           /\ incidents' = [incidents EXCEPT ![i].resolvedBy = Actor(x)]
           /\ Audit(x, "incident.resolved", i)
           /\ Answer(x, "ok")
  <2>1. incidents[i] \in Incident
    BY <1>3, <1>5 DEF Inv, TypeOK
  <2> DEFINE new == [incidents[i] EXCEPT !.resolvedBy = Actor(x)]
  <2>2. new \in Incident /\ new.business = incidents[i].business
    BY <1>4, <2>1 DEF Incident
  <2>3. incidents' = [incidents EXCEPT ![i] = new]
    BY <1>5
  <2> HIDE DEF new
  <2>4. incidents' \in [IncidentId -> Incident \cup {Absent}]
    BY <2>2, <2>3 DEF Inv, TypeOK
  <2>5. \A j \in IncidentId :
          incidents[j] # Absent =>
            incidents'[j] # Absent /\ incidents'[j].business = incidents[j].business
    BY <1>3, <2>2, <2>3, NamesAssumption DEF Inv, TypeOK
  <2>6. "incident.resolved" \in Action
    BY DEF Action
  <2>7. audit' \subseteq AuditEntry /\ audit \subseteq audit'
    BY <1>1, <1>3, <1>5, <2>6, AuditType DEF Audit
  <2>8. QED
    BY <1>1, <1>5, <2>4, <2>5, <2>7, OtherTablesSuffice DEF Inv, TypeOK
<1>6. CASE UNCHANGED <<incidents, audit>>
  BY <1>1, <1>2, <1>6, OtherTablesSuffice DEF Inv, TypeOK
<1>7. QED
  BY <1>2, <1>5, <1>6

\* Setting the policy does.
LEMMA UpdateSecurityPolicyHandles ==
  ASSUME Inv, NEW x \in Exchange, UpdateSecurityPolicy(x)
  PROVE  Handled(x)
<1> DEFINE b == Tenant(x)
           limit == flight[x].command.limit
<1>1. /\ At(x, "authenticated") /\ flight[x].command.op = "UpdateSecurityPolicy"
      /\ policies' = [policies EXCEPT ![b] = limit]
      /\ Audit(x, "security_policy.updated", b) /\ Answer(x, "ok")
      /\ UNCHANGED <<clock, keys, users, incidents, windows, accessLog>>
  BY DEF UpdateSecurityPolicy, Handles
<1>2. limit \in Nat
  BY <1>1, KeyOfType, CommandFields DEF At, Inv, InFlight
<1>3. b \in Business
  BY <1>1, HandlerHasTenant
<1> HIDE DEF b, limit
<1>4. "security_policy.updated" \in Action
  BY DEF Action
<1>5. audit' \subseteq AuditEntry /\ audit \subseteq audit'
  BY <1>1, <1>3, <1>4, AuditType DEF Audit
<1>6. policies' \in [Business -> Nat \cup {Absent}]
  BY <1>1, <1>2 DEF Inv, TypeOK
<1>7. \A c \in Business : policies[c] # Absent => policies'[c] # Absent
  BY <1>1, <1>2, NamesAssumption DEF Inv, TypeOK
<1>8. TablesGrow
  BY <1>1, <1>5, <1>7 DEF TablesGrow
<1>9. KeysHavePolicies'
  <2>1. \A k \in KeyId : keys[k] # Absent => keys[k].business \in Business
    BY DEF Inv, TypeOK, Key
  <2>2. QED
    BY <1>1, <1>7, <2>1 DEF Inv, KeysHavePolicies
<1>10. QED
  BY <1>1, <1>5, <1>6, <1>8, <1>9, AnswerSuffices DEF Inv, TypeOK

\* Every handler does what Handled says.
LEMMA HandlersHandle ==
  ASSUME Inv, NEW x \in Exchange, Handle(x)
  PROVE  Handled(x)
BY CreateBusinessHandles, CreateAPIKeyHandles, RevokeAPIKeyHandles, ListUsersHandles,
   CreateUserHandles, CreateIncidentHandles, ResolveIncidentHandles,
   UpdateSecurityPolicyHandles
   DEF Handle

-------------------------------------------------------------------------------
(* Requests go on *)

\* A request keeps what it came with, and what the limiter made of it.
GoesOn(x) ==
  /\ flight'[x] # Absent
  /\ flight'[x].origin = flight[x].origin
  /\ flight'[x].command = flight[x].command
  /\ flight'[x].now = flight[x].now
  /\ flight'[x].tooLate = flight[x].tooLate
  /\ flight[x].window # 0 =>
       /\ flight'[x].window = flight[x].window
       /\ flight'[x].countedAt = flight[x].countedAt
       /\ flight'[x].limit = flight[x].limit
       /\ flight'[x].status = "rate_limited" <=> flight[x].status = "rate_limited"

RequestsGoOn == \A x \in Exchange : flight[x] # Absent => GoesOn(x)

\* A request that does not move keeps what it captured, whatever handlers do.
LEMMA CapturedByOthers ==
  ASSUME Inv, TablesGrow, NEW y \in Exchange, flight[y] # Absent,
         flight'[y] = flight[y]
  PROVE  /\ CapturedBy(y)'
         /\ (Succeeded(y) /\ flight[y].command.op # "CreateBusiness")' =>
              ~flight'[y].tooLate
<1>1. KeyOf(y)' = KeyOf(y)
  BY DEF KeyOf
<1>2. CapturedBy(y) /\ KeyOf(y) \in KeyId \cup {Absent}
  BY KeyOfType DEF Inv, CapturedIsTrue
<1>3. KeyOf(y) # Absent =>
        /\ keys'[KeyOf(y)] # Absent
        /\ keys'[KeyOf(y)].business = keys[KeyOf(y)].business
        /\ keys'[KeyOf(y)].scopes = keys[KeyOf(y)].scopes
        /\ keys[KeyOf(y)].revoked => keys'[KeyOf(y)].revoked
  BY <1>2 DEF TablesGrow, CapturedBy
<1>4. CapturedBy(y)'
  BY <1>1, <1>2, <1>3 DEF CapturedBy, HasScope
<1>5. QED
  BY <1>4 DEF Inv, RevokedKeysStop, Succeeded

\* A handler's request: answered at most once, and never too late.
LEMMA HandlerMoves ==
  ASSUME Inv, NEW x \in Exchange, Handled(x)
  PROVE  RequestsGoOn /\ CapturedIsTrue' /\ RevokedKeysStop'
<1>1. PICK status \in {"ok", "not_found", "conflict"} : Answer(x, status)
  BY DEF Handled
<1>2. flight[x] \in InFlight /\ flight[x] # Absent /\ CapturedBy(x)
      /\ flight[x].stage = "authenticated"
  BY KeyOfType DEF Handled, At, Inv, CapturedIsTrue
<1>3. /\ \A y \in Exchange : y # x => flight'[y] = flight[y]
      /\ flight'[x] = [flight[x] EXCEPT !.stage = "answered", !.status = status]
  BY <1>1 DEF Answer, Inv, TypeOK
<1>4. flight'[x] \in InFlight
  BY <1>2, <1>3 DEF InFlight, Stage, Status
<1>5. flight'[x] # Absent
  BY <1>4, NamesAssumption
<1>6. RequestsGoOn
  <2>1. GoesOn(x)
    BY <1>2, <1>3, <1>5 DEF GoesOn, InFlight, CapturedBy
  <2>2. \A y \in Exchange : y # x /\ flight[y] # Absent => GoesOn(y)
    BY <1>3 DEF GoesOn
  <2>3. QED
    BY <2>1, <2>2 DEF RequestsGoOn
<1>7. KeyOf(x)' = KeyOf(x)
  BY <1>2, <1>3 DEF KeyOf, InFlight
<1>8. KeyOf(x) \in KeyId \cup {Absent}
  BY <1>2, KeyOfType DEF Inv
<1>9. CapturedBy(x)'
  BY <1>2, <1>3, <1>7, <1>8 DEF CapturedBy, InFlight, Handled, TablesGrow
<1>10. flight'[x].command.op # "CreateBusiness" => ~flight'[x].tooLate
  BY <1>2, <1>3 DEF CapturedBy, InFlight
<1>11. CapturedIsTrue'
  BY <1>3, <1>9, CapturedByOthers DEF CapturedIsTrue, Handled
<1>12. RevokedKeysStop'
  BY ZenonT(60), <1>3, <1>10, CapturedByOthers DEF RevokedKeysStop, Succeeded, Handled
<1>13. QED
  BY <1>6, <1>11, <1>12

\* They leave the tables alone, and every other request.
LEMMA PassageLeavesTheRest ==
  ASSUME Inv, NEW x \in Exchange, Passage(x)
  PROVE  /\ UNCHANGED <<clock, tables>>
         /\ TablesGrow /\ KeysHavePolicies'
         /\ \A y \in Exchange : y # x => flight'[y] = flight[y]
<1>1. UNCHANGED <<clock, tables>>
  BY DEF Passage, Arrive, Identify, ReadLimit, Count, Authenticate, RecordAccess
<1>2. \A y \in Exchange : y # x => flight'[y] = flight[y]
  BY DEF Passage, Arrive, Identify, ReadLimit, Count, Admit, Authenticate, Answer,
         RecordAccess, Inv, TypeOK
<1>3. TablesGrow /\ KeysHavePolicies'
  BY <1>1 DEF TablesGrow, tables, Inv, KeysHavePolicies
<1>4. QED
  BY <1>1, <1>2, <1>3

\* The request that moves goes on, and captures what is so.
LEMMA PassageMovesOne ==
  ASSUME Inv, NEW x \in Exchange, Passage(x)
  PROVE  /\ flight[x] # Absent => GoesOn(x)
         /\ CapturedBy(x)'
         /\ (Succeeded(x) /\ flight[x].command.op # "CreateBusiness")' =>
              ~flight'[x].tooLate
<1>1. CASE \E origin \in Origin, command \in {sent[2] : sent \in Traffic} :
             Arrive(x, origin, command)
  <2>1. PICK origin \in Origin, command \in {sent[2] : sent \in Traffic} :
               Arrive(x, origin, command)
    BY <1>1
  <2>2. UNCHANGED keys /\ flight[x] = Absent
    BY <2>1 DEF Arrive, tables
  <2>3. flight'[x] =
          [origin |-> origin, command |-> command, stage |-> "arrived",
           now |-> clock, business |-> Absent, limit |-> DefaultLimit,
           status |-> "none", window |-> 0, countedAt |-> 0,
           tooLate |-> Bearer[origin] # Absent /\ keys[Bearer[origin]].revoked]
    BY <2>1 DEF Arrive, Inv, TypeOK
  <2>4. KeyOf(x)' = Bearer[origin]
    BY <2>3 DEF KeyOf
  <2>5. Bearer[origin] # Absent => keys[Bearer[origin]] # Absent
    BY <2>1 DEF Arrive
  <2>6. /\ flight'[x].stage = "arrived" /\ flight'[x].status = "none"
        /\ flight'[x].business = Absent /\ flight'[x].window = 0
    BY <2>3
  <2>7. flight'[x].tooLate => Bearer[origin] # Absent /\ keys[Bearer[origin]].revoked
    <3>1. flight'[x].tooLate = (Bearer[origin] # Absent /\ keys[Bearer[origin]].revoked)
      BY <2>3
    <3>2. QED
      BY <3>1, Zenon
  <2>8. CapturedBy(x)'
    BY <2>2, <2>4, <2>5, <2>6, <2>7 DEF CapturedBy
  <2>9. QED
    BY <2>2, <2>6, <2>8 DEF Succeeded
<1>2. ASSUME flight[x] # Absent, flight'[x] \in InFlight, UNCHANGED keys,
             flight'[x].origin = flight[x].origin,
             flight'[x].command = flight[x].command,
             flight'[x].now = flight[x].now,
             flight'[x].tooLate = flight[x].tooLate,
             flight[x].window # 0 =>
               /\ flight'[x].window = flight[x].window
               /\ flight'[x].countedAt = flight[x].countedAt
               /\ flight'[x].limit = flight[x].limit
               /\ flight'[x].status = "rate_limited" <=> flight[x].status = "rate_limited",
             flight'[x].business # Absent =>
               KeyOf(x) # Absent /\ flight'[x].business = keys[KeyOf(x)].business,
             flight'[x].stage = "authenticated" /\ flight[x].command.op # "CreateBusiness" =>
               /\ KeyOf(x) # Absent
               /\ HasScope(KeyOf(x), RequiredScope(flight[x].command))
               /\ ~flight[x].tooLate,
             flight'[x].stage \in {"arrived", "identified", "measured"} =>
               flight'[x].window = 0,
             flight'[x].stage \notin {"answered", "logged"} => flight'[x].status = "none",
             flight'[x].status = "ok" => flight[x].status = "ok"
      PROVE  /\ GoesOn(x)
             /\ CapturedBy(x)'
             /\ (Succeeded(x) /\ flight[x].command.op # "CreateBusiness")' =>
                  ~flight'[x].tooLate
  <2>1. CapturedBy(x)
    BY <1>2 DEF Inv, CapturedIsTrue
  <2>2. flight'[x] # Absent
    BY <1>2, NamesAssumption
  <2>3. KeyOf(x)' = KeyOf(x)
    BY <1>2 DEF KeyOf
  <2>4. CapturedBy(x)'
    BY <1>2, <2>1, <2>3 DEF CapturedBy, HasScope
  <2>5. GoesOn(x)
    BY <1>2, <2>2 DEF GoesOn
  <2>6. QED
    BY <1>2, <2>4, <2>5 DEF Inv, RevokedKeysStop, Succeeded
<1>3. CASE Identify(x) \/ ReadLimit(x) \/ Count(x) \/ Authenticate(x) \/ RecordAccess(x)
  <2>1. flight[x] \in InFlight /\ flight[x] # Absent /\ CapturedBy(x) /\ UNCHANGED keys
    BY <1>3, KeyOfType DEF Identify, ReadLimit, Count, Authenticate, RecordAccess, At,
         tables, Inv, CapturedIsTrue
  <2>2. /\ flight[x].business # Absent =>
             KeyOf(x) # Absent /\ flight[x].business = keys[KeyOf(x)].business
        /\ flight[x].stage = "authenticated" /\ flight[x].command.op # "CreateBusiness" =>
             /\ KeyOf(x) # Absent
             /\ HasScope(KeyOf(x), RequiredScope(flight[x].command))
             /\ ~flight[x].tooLate
        /\ flight[x].tooLate => KeyOf(x) # Absent /\ keys[KeyOf(x)].revoked
        /\ flight[x].stage \in {"arrived", "identified", "measured"} =>
             flight[x].window = 0
        /\ flight[x].stage \notin {"answered", "logged"} => flight[x].status = "none"
    BY <2>1 DEF CapturedBy
  <2>3. CASE Identify(x)
    <3>1. /\ flight[x].stage = "arrived"
          /\ flight'[x] = [flight[x] EXCEPT !.stage = "identified",
               !.business = IF ValidKey(KeyOf(x)) THEN keys[KeyOf(x)].business ELSE Absent]
      BY <2>3 DEF Identify, At, Inv, TypeOK
    <3>2. /\ flight'[x].stage = "identified"
          /\ flight'[x].business =
               IF ValidKey(KeyOf(x)) THEN keys[KeyOf(x)].business ELSE Absent
          /\ flight'[x].origin = flight[x].origin /\ flight'[x].now = flight[x].now
          /\ flight'[x].command = flight[x].command
          /\ flight'[x].tooLate = flight[x].tooLate
          /\ flight'[x].window = flight[x].window /\ flight'[x].status = flight[x].status
      BY <2>1, <3>1 DEF InFlight
    <3>3. flight'[x] \in InFlight
      BY PassageType
    <3>4. QED
      BY <1>2, <2>1, <2>2, <3>1, <3>2, <3>3 DEF ValidKey
  <2>4. CASE ReadLimit(x)
    <3>1. flight[x].stage = "identified"
      BY <2>4 DEF ReadLimit, At
    <3>2. PICK limit : flight'[x] = [flight[x] EXCEPT !.stage = "measured", !.limit = limit]
      BY <2>4 DEF ReadLimit, Inv, TypeOK
    <3>3. /\ flight'[x].stage = "measured"
          /\ flight'[x].business = flight[x].business
          /\ flight'[x].origin = flight[x].origin /\ flight'[x].now = flight[x].now
          /\ flight'[x].command = flight[x].command
          /\ flight'[x].tooLate = flight[x].tooLate
          /\ flight'[x].window = flight[x].window /\ flight'[x].status = flight[x].status
      BY <2>1, <3>2 DEF InFlight
    <3>4. flight'[x] \in InFlight
      BY PassageType
    <3>5. QED
      BY <1>2, <2>1, <2>2, <3>1, <3>3, <3>4
  <2>5. CASE Count(x)
    <3>1. flight[x].stage = "measured"
      BY <2>5 DEF Count, At
    <3>2. PICK w :
            \/ flight'[x] = [flight[x] EXCEPT !.stage = "answered",
                 !.status = "rate_limited", !.window = w.resetAt, !.countedAt = clock]
            \/ flight'[x] = [flight[x] EXCEPT !.stage = "admitted",
                 !.status = "none", !.window = w.resetAt, !.countedAt = clock]
      BY <2>5 DEF Count, Admit, Inv, TypeOK
    <3>3. /\ \/ flight'[x].stage = "answered" /\ flight'[x].status = "rate_limited"
             \/ flight'[x].stage = "admitted" /\ flight'[x].status = "none"
          /\ flight'[x].business = flight[x].business
          /\ flight'[x].origin = flight[x].origin /\ flight'[x].now = flight[x].now
          /\ flight'[x].command = flight[x].command
          /\ flight'[x].tooLate = flight[x].tooLate
      BY <2>1, <3>2 DEF InFlight
    <3>4. flight'[x] \in InFlight
      BY PassageType
    <3>5. QED
      BY <1>2, <2>1, <2>2, <3>1, <3>3, <3>4
  <2>6. CASE Authenticate(x)
    <3>1. flight[x].stage = "admitted"
      BY <2>6 DEF Authenticate, At
    <3>2. PICK stage \in {"answered", "authenticated"},
               status \in {"unauthorized", "forbidden", "none"} :
            /\ flight'[x] = [flight[x] EXCEPT !.stage = stage, !.status = status]
            /\ stage = "authenticated" <=> status = "none"
            /\ stage = "authenticated" /\ flight[x].command.op # "CreateBusiness" =>
                 ValidKey(KeyOf(x)) /\ HasScope(KeyOf(x), RequiredScope(flight[x].command))
      <4>1. CASE Answer(x, "unauthorized") \/ Answer(x, "forbidden")
        BY <4>1 DEF Answer, Inv, TypeOK
      <4>2. CASE /\ flight' = [flight EXCEPT ![x].stage = "authenticated"]
                 /\ flight[x].command.op # "CreateBusiness" =>
                      /\ ValidKey(KeyOf(x))
                      /\ HasScope(KeyOf(x), RequiredScope(flight[x].command))
        <5>1. flight'[x] = [flight[x] EXCEPT !.stage = "authenticated"]
          BY <4>2 DEF Inv, TypeOK
        <5>2. flight'[x] = [flight[x] EXCEPT !.stage = "authenticated", !.status = "none"]
          BY <2>1, <2>2, <3>1, <5>1 DEF InFlight
        <5>3. QED
          BY <4>2, <5>2
      <4>3. QED
        BY <2>6, <4>1, <4>2 DEF Authenticate
    <3>3. /\ flight'[x].stage = stage /\ flight'[x].status = status
          /\ flight'[x].business = flight[x].business
          /\ flight'[x].origin = flight[x].origin /\ flight'[x].now = flight[x].now
          /\ flight'[x].command = flight[x].command
          /\ flight'[x].tooLate = flight[x].tooLate
          /\ flight'[x].window = flight[x].window
          /\ flight'[x].countedAt = flight[x].countedAt
          /\ flight'[x].limit = flight[x].limit
      BY <2>1, <3>2 DEF InFlight
    <3>4. flight'[x] \in InFlight
      BY PassageType
    <3>5. QED
      BY <1>2, <2>1, <2>2, <3>1, <3>2, <3>3, <3>4 DEF ValidKey
  <2>7. CASE RecordAccess(x)
    <3>1. /\ flight[x].stage = "answered"
          /\ flight'[x] = [flight[x] EXCEPT !.stage = "logged"]
      BY <2>7 DEF RecordAccess, At, Inv, TypeOK
    <3>2. /\ flight'[x].stage = "logged" /\ flight'[x].status = flight[x].status
          /\ flight'[x].business = flight[x].business
          /\ flight'[x].origin = flight[x].origin /\ flight'[x].now = flight[x].now
          /\ flight'[x].command = flight[x].command
          /\ flight'[x].tooLate = flight[x].tooLate
          /\ flight'[x].window = flight[x].window
          /\ flight'[x].countedAt = flight[x].countedAt
          /\ flight'[x].limit = flight[x].limit
      BY <2>1, <3>1 DEF InFlight
    <3>3. flight'[x] \in InFlight
      BY PassageType
    <3>4. QED
      BY <1>2, <2>1, <2>2, <3>1, <3>2, <3>3
  <2>8. QED
    BY <1>3, <2>3, <2>4, <2>5, <2>6, <2>7
<1>4. QED
  BY <1>1, <1>3 DEF Passage

\* Whatever happens, tables grow, requests go on and time does not run back.
LEMMA EveryStep ==
  ASSUME Inv, [Next]_vars
  PROVE  Inv' /\ TablesGrow /\ RequestsGoOn /\ clock <= clock'
<1>1. CASE Tick \/ UNCHANGED vars
  <2>1. UNCHANGED <<flight, tables, windows, accessLog>>
        /\ (clock' = clock \/ clock' = clock + 1)
    BY <1>1 DEF Tick, vars
  <2>2. TypeOK' /\ clock <= clock'
    BY <2>1 DEF Inv, TypeOK, tables
  <2>3. TablesGrow /\ RequestsGoOn
    BY <2>1 DEF tables, TablesGrow, RequestsGoOn, GoesOn
  <2>4. KeysHavePolicies' /\ RevokedKeysStop'
    BY <2>1 DEF tables, Inv, KeysHavePolicies, RevokedKeysStop, Succeeded
  <2>5. CapturedIsTrue'
    BY <2>1, <2>3, CapturedByOthers DEF CapturedIsTrue
  <2>6. QED
    BY <2>2, <2>3, <2>4, <2>5 DEF Inv
<1>2. ASSUME NEW x \in Exchange, Passage(x)
      PROVE  Inv' /\ TablesGrow /\ RequestsGoOn /\ clock <= clock'
  <2>1. /\ UNCHANGED <<clock, tables>> /\ TablesGrow /\ KeysHavePolicies'
        /\ \A y \in Exchange : y # x => flight'[y] = flight[y]
    BY <1>2, PassageLeavesTheRest
  <2>2. /\ flight[x] # Absent => GoesOn(x)
        /\ CapturedBy(x)'
        /\ (Succeeded(x) /\ flight[x].command.op # "CreateBusiness")' =>
             ~flight'[x].tooLate
    BY <1>2, PassageMovesOne
  <2>3. TypeOK'
    BY <1>2, PassageType
  <2>4. RequestsGoOn
    BY <2>1, <2>2 DEF RequestsGoOn, GoesOn
  <2>5. CapturedIsTrue'
    BY <2>1, <2>2, CapturedByOthers DEF CapturedIsTrue
  <2>6. RevokedKeysStop'
    BY <2>1, <2>2, CapturedByOthers DEF RevokedKeysStop, Succeeded
  <2>7. QED
    BY <2>1, <2>3, <2>4, <2>5, <2>6 DEF Inv, TypeOK
<1>3. ASSUME NEW x \in Exchange, Handle(x)
      PROVE  Inv' /\ TablesGrow /\ RequestsGoOn /\ clock <= clock'
  <2>1. Handled(x)
    BY <1>3, HandlersHandle
  <2>2. QED
    BY <2>1, HandlerMoves DEF Handled, Inv, TypeOK
<1>4. QED
  BY <1>1, <1>2, <1>3 DEF Next, Passage

\* The key a business was founded with is its own.
LEMMA FoundersKeys ==
  ASSUME Init, NEW k \in KeyId
  PROVE  \/ /\ keys[k] = Absent
            /\ \A b \in Business : Founders[b] # Absent => Founders[b].key # k
         \/ \E b \in Business :
              /\ Founders[b] # Absent /\ Founders[b].key = k
              /\ keys[k] = FoundingKey(b, Founders[b].owner)
<1> DEFINE founded == {b \in Business : Founders[b] # Absent}
<1>1. keys[k] = IF \E b \in founded : Founders[b].key = k
                  THEN LET b == CHOOSE b \in founded : Founders[b].key = k
                       IN  FoundingKey(b, Founders[b].owner)
                  ELSE Absent
  BY DEF Init
<1>2. CASE \E b \in founded : Founders[b].key = k
  <2> DEFINE b == CHOOSE b \in founded : Founders[b].key = k
  <2>1. b \in founded /\ Founders[b].key = k
    BY <1>2
  <2>2. keys[k] = FoundingKey(b, Founders[b].owner)
    BY <1>1, <1>2
  <2>3. QED
    BY <2>1, <2>2
<1>3. CASE ~\E b \in founded : Founders[b].key = k
  BY <1>1, <1>3
<1>4. QED
  BY <1>2, <1>3

\* A server that has just started on a snapshot is in order.
LEMMA InvInit == Init => Inv
<1> SUFFICES ASSUME Init PROVE Inv
  OBVIOUS
<1>1. flight = [x \in Exchange |-> Absent] /\ clock = 0 /\ accessLog = {}
      /\ incidents = [i \in IncidentId |-> Absent]
      /\ windows = [o \in Origin |-> [count |-> 0, resetAt |-> 0]]
  BY DEF Init
<1>2. \A b \in Business : Founders[b] # Absent =>
        Founders[b].key \in KeyId /\ Founders[b].owner \in Email
  BY GatewayAssumption
<1>3. keys \in [KeyId -> Key \cup {Absent}]
  <2>1. \A b \in Business : Founders[b] # Absent =>
          FoundingKey(b, Founders[b].owner) \in Key
    BY <1>2 DEF FoundingKey, Key
  <2>2. \A k \in KeyId : keys[k] \in Key \cup {Absent}
    BY <2>1, FoundersKeys
  <2>3. keys = [k \in KeyId |-> keys[k]]
    BY DEF Init
  <2>4. QED
    BY <2>2, <2>3
<1>4. policies \in [Business -> Nat \cup {Absent}]
  BY GatewayAssumption DEF Init
<1>5. users \subseteq User
  BY <1>2 DEF Init, User
<1>6. audit \subseteq AuditEntry
  <2>1. \A b \in Business : Founders[b] # Absent =>
          Founding(Absent, b, Founders[b].key, Founders[b].owner) \subseteq AuditEntry
    BY <1>2, FoundingType
  <2>2. audit = UNION {Founding(Absent, b, Founders[b].key, Founders[b].owner) :
                         b \in {b \in Business : Founders[b] # Absent}}
    BY DEF Init
  <2>3. QED
    BY <2>1, <2>2
<1>7. TypeOK
  BY <1>1, <1>3, <1>4, <1>5, <1>6 DEF TypeOK, Window
<1>8. KeysHavePolicies
  <2>1. ASSUME NEW k \in KeyId, keys[k] # Absent
        PROVE  policies[keys[k].business] # Absent
    <3>1. PICK b \in Business : /\ Founders[b] # Absent
                                /\ keys[k] = FoundingKey(b, Founders[b].owner)
      BY <2>1, FoundersKeys
    <3>2. keys[k].business = b
      BY <3>1 DEF FoundingKey
    <3>3. policies[b] = DefaultLimit
      BY <3>1 DEF Init
    <3>4. QED
      BY <3>2, <3>3, GatewayAssumption, NamesAssumption
  <2>2. QED
    BY <2>1 DEF KeysHavePolicies
<1>9. CapturedIsTrue /\ RevokedKeysStop
  BY <1>1 DEF CapturedIsTrue, RevokedKeysStop, Succeeded
<1>10. QED
  BY <1>7, <1>8, <1>9 DEF Inv

\* The inductive invariant: types, policies of all businesses with a key, and
\* captured facts that are still so.
THEOREM GatewayInductive == Spec => []Inv
<1>1. Inv /\ [Next]_vars => Inv'
  BY EveryStep
<1>2. QED
  BY InvInit, <1>1, PTL DEF Spec

\* Every table and every request in flight holds records of its shape.
THEOREM GatewayTypeCorrect == Spec => []TypeOK
<1>1. Inv => TypeOK
  BY DEF Inv
<1>2. QED
  BY GatewayInductive, <1>1, PTL

\* A key that was revoked before a request came does not get it through, however
\* its three look-ups interleave with revocations by other requests.
THEOREM RevocationIsImmediate == Spec => []RevokedKeysStop
<1>1. Inv => RevokedKeysStop
  BY DEF Inv
<1>2. QED
  BY GatewayInductive, <1>1, PTL

-------------------------------------------------------------------------------
(* The access log *)

\* Only recording a request makes it logged and writes its entry.
LEMMA LogStep ==
  ASSUME Inv, [Next]_vars, NEW x \in Exchange
  PROVE  \/ RecordAccess(x)
         \/ /\ At(x, "logged")' <=> At(x, "logged")
            /\ At(x, "logged") => flight'[x] = flight[x]
            /\ {e \in accessLog' : e.exchange = x} = {e \in accessLog : e.exchange = x}
<1> DEFINE Goal == /\ At(x, "logged")' <=> At(x, "logged")
                   /\ At(x, "logged") => flight'[x] = flight[x]
                   /\ {e \in accessLog' : e.exchange = x} = {e \in accessLog : e.exchange = x}
<1>1. ASSUME flight'[x] = flight[x],
             {e \in accessLog' : e.exchange = x} = {e \in accessLog : e.exchange = x}
      PROVE  Goal
  BY <1>1 DEF At
<1>2. ASSUME ~At(x, "logged"), flight'[x].stage # "logged", UNCHANGED accessLog
      PROVE  Goal
  BY <1>2 DEF At
<1>3. CASE Tick \/ UNCHANGED vars
  BY <1>1, <1>3 DEF Tick, vars
<1>4. ASSUME NEW y \in Exchange, Handled(y)
      PROVE  Goal
  <2>1. UNCHANGED accessLog
        /\ \E status : flight' = [flight EXCEPT ![y].stage = "answered", ![y].status = status]
    BY <1>4 DEF Handled, Answer
  <2>2. CASE y # x
    BY <1>1, <2>1, <2>2 DEF Inv, TypeOK
  <2>3. CASE y = x
    <3>1. ~At(x, "logged") /\ flight[x] \in InFlight
      BY <1>4, <2>3, KeyOfType DEF Handled, At, Inv
    <3>2. flight'[x].stage = "answered"
      BY <2>1, <2>3, <3>1 DEF Inv, TypeOK, InFlight
    <3>3. QED
      BY <1>2, <2>1, <3>1, <3>2
  <2>4. QED
    BY <2>2, <2>3
<1>5. ASSUME NEW y \in Exchange, y # x, Passage(y)
      PROVE  Goal
  <2>1. flight'[x] = flight[x]
    BY <1>5, PassageLeavesTheRest
  <2>2. {e \in accessLog' : e.exchange = x} = {e \in accessLog : e.exchange = x}
    <3>1. CASE RecordAccess(y)
      <4> DEFINE valid == ValidKey(KeyOf(y))
                 new == [exchange |-> y,
                         business |-> IF valid THEN keys[KeyOf(y)].business ELSE Absent,
                         key |-> IF valid THEN KeyOf(y) ELSE Absent,
                         status |-> flight[y].status]
      <4>1. accessLog' = accessLog \cup {new}
        BY <3>1 DEF RecordAccess
      <4>2. new.exchange = y
        OBVIOUS
      <4> HIDE DEF new
      <4>3. QED
        BY <1>5, <4>1, <4>2
    <3>2. CASE UNCHANGED accessLog
      BY <3>2
    <3>3. QED
      BY <1>5, <3>1, <3>2 DEF Passage, Arrive, Identify, ReadLimit, Count, Authenticate
  <2>3. QED
    BY <1>1, <2>1, <2>2
<1>6. ASSUME Passage(x), ~RecordAccess(x)
      PROVE  Goal
  <2>1. UNCHANGED accessLog /\ ~At(x, "logged")
    BY <1>6 DEF Passage, Arrive, Identify, ReadLimit, Count, Authenticate, At
  <2>2. flight'[x].stage # "logged"
    <3>1. CASE \E origin \in Origin, command \in {sent[2] : sent \in Traffic} :
                 Arrive(x, origin, command)
      BY <3>1 DEF Arrive, Inv, TypeOK
    <3>2. CASE Identify(x)
      BY <3>2, KeyOfType DEF Identify, At, Inv, TypeOK, InFlight
    <3>3. CASE ReadLimit(x)
      BY <3>3, KeyOfType DEF ReadLimit, At, Inv, TypeOK, InFlight
    <3>4. CASE Count(x)
      BY <3>4, KeyOfType DEF Count, Admit, At, Inv, TypeOK, InFlight
    <3>5. CASE Authenticate(x)
      BY <3>5, KeyOfType DEF Authenticate, Answer, At, Inv, TypeOK, InFlight
    <3>6. QED
      BY <1>6, <3>1, <3>2, <3>3, <3>4, <3>5 DEF Passage
  <2>3. QED
    BY <1>2, <2>1, <2>2
<1>7. QED
  BY <1>3, <1>4, <1>5, <1>6, HandlersHandle DEF Next, Passage

\* Each answered request is in the log once, with its answer and its own key.
LEMMA LogTells ==
  ASSUME Inv, AccessLogTellsTraffic, [Next]_vars
  PROVE  AccessLogTellsTraffic'
<1> DEFINE Tells(x) ==
      LET entries == {e \in accessLog : e.exchange = x}
          k == KeyOf(x)
      IN  IF ~At(x, "logged") THEN entries = {}
          ELSE \E e \in entries :
                 /\ entries = {e}
                 /\ e.status = flight[x].status
                 /\ \/ e.key = Absent /\ e.business = Absent
                       /\ k # Absent => keys[k].revoked
                    \/ e.key = k /\ k # Absent /\ e.business = keys[k].business
<1> SUFFICES ASSUME NEW x \in Exchange
             PROVE  Tells(x)'
  BY DEF AccessLogTellsTraffic
<1>1. Tells(x)
  BY DEF AccessLogTellsTraffic
<1>2. TablesGrow
  BY EveryStep
<1>3. CASE RecordAccess(x)
  <2> DEFINE valid == ValidKey(KeyOf(x))
             new == [exchange |-> x,
                     business |-> IF valid THEN keys[KeyOf(x)].business ELSE Absent,
                     key |-> IF valid THEN KeyOf(x) ELSE Absent,
                     status |-> flight[x].status]
  <2>1. /\ At(x, "answered") /\ UNCHANGED keys
        /\ accessLog' = accessLog \cup {new}
        /\ flight' = [flight EXCEPT ![x].stage = "logged"]
    BY <1>3 DEF RecordAccess, tables
  <2>2. flight[x] \in InFlight /\ flight[x].stage = "answered" /\ flight[x] # Absent
    BY <2>1, KeyOfType DEF At, Inv
  <2>3. /\ flight'[x].stage = "logged" /\ flight'[x].status = flight[x].status
        /\ KeyOf(x)' = KeyOf(x)
    BY <2>1, <2>2 DEF Inv, TypeOK, InFlight, KeyOf
  <2>4. flight'[x] # Absent
    BY <1>3, PassageType, NamesAssumption DEF Passage
  <2>5. {e \in accessLog : e.exchange = x} = {}
    BY <1>1, <2>2 DEF At
  <2>6. /\ new.exchange = x /\ new.status = flight[x].status
        /\ valid => new.key = KeyOf(x) /\ new.business = keys[KeyOf(x)].business
        /\ ~valid => new.key = Absent /\ new.business = Absent
    OBVIOUS
  <2>7. ~valid /\ KeyOf(x) # Absent => keys[KeyOf(x)].revoked
    BY <2>2 DEF ValidKey, Inv, CapturedIsTrue, CapturedBy
  <2>8. valid => KeyOf(x) # Absent
    BY DEF ValidKey
  <2> HIDE DEF valid, new
  <2>9. {e \in accessLog' : e.exchange = x} = {new}
    BY <2>1, <2>5, <2>6
  <2>10. At(x, "logged")'
    BY <2>3, <2>4 DEF At
  <2>11. QED
    BY <2>1, <2>3, <2>6, <2>7, <2>8, <2>9, <2>10
<1>4. CASE /\ At(x, "logged")' <=> At(x, "logged")
           /\ At(x, "logged") => flight'[x] = flight[x]
           /\ {e \in accessLog' : e.exchange = x} = {e \in accessLog : e.exchange = x}
  <2>1. CASE At(x, "logged")
    <3>1. KeyOf(x)' = KeyOf(x) /\ KeyOf(x) \in KeyId \cup {Absent}
      BY <1>4, <2>1, KeyOfType DEF KeyOf, At, Inv
    <3>2. KeyOf(x) # Absent =>
            /\ keys[KeyOf(x)] # Absent
            /\ keys'[KeyOf(x)].business = keys[KeyOf(x)].business
            /\ keys[KeyOf(x)].revoked => keys'[KeyOf(x)].revoked
      BY <1>2, <2>1, <3>1 DEF TablesGrow, Inv, CapturedIsTrue, CapturedBy, At
    <3>3. QED
      BY <1>1, <1>4, <2>1, <3>1, <3>2
  <2>2. QED
    BY <1>1, <1>4, <2>1
<1>5. QED
  BY <1>3, <1>4, LogStep

\* The access log holds one entry for each answered request and none else, with
\* the status the request was answered with; it names another key or business
\* never, and none only when there was none or it has been revoked.
THEOREM AccessLogIsTrue == Spec => []AccessLogTellsTraffic
<1>1. Init => AccessLogTellsTraffic
  BY DEF Init, AccessLogTellsTraffic, At
<1>2. Inv /\ AccessLogTellsTraffic /\ [Next]_vars => AccessLogTellsTraffic'
  BY LogTells
<1>3. QED
  BY GatewayInductive, <1>1, <1>2, PTL DEF Spec

-------------------------------------------------------------------------------
(* The audit log *)

\* An entry names what there is, of its business, and a key of that business with
\* the scope its action takes; an update of the policy names its request.
EntryIsRight(e) ==
  /\ policies[e.business] # Absent
  /\ e.resource \in KeyId =>
       keys[e.resource] # Absent /\ keys[e.resource].business = e.business
  /\ e.resource \in IncidentId =>
       incidents[e.resource] # Absent /\ incidents[e.resource].business = e.business
  /\ e.resource \in Business => e.resource = e.business
  /\ e.actor # Absent =>
       /\ keys[e.actor] # Absent
       /\ keys[e.actor].business = e.business
       /\ HasScope(e.actor, ScopeFor(e.action))
  /\ e.action = "security_policy.updated" =>
       e.exchange \in Exchange /\ flight[e.exchange] # Absent

PolicyIsExplained(b) ==
  policies[b] \in {Absent, DefaultLimit} \/
    \E e \in EntriesFor("security_policy.updated", b) :
      flight[e.exchange].command.limit = policies[b]

EntriesInv ==
  /\ \A e \in audit : EntryIsRight(e)
  /\ \A b \in Business : PolicyIsExplained(b)

\* An entry stays right.
LEMMA OldEntriesStayRight ==
  ASSUME Inv, EntriesInv, TablesGrow, RequestsGoOn, NEW e \in audit
  PROVE  EntryIsRight(e)'
<1>1. EntryIsRight(e) /\ e \in AuditEntry
  BY DEF EntriesInv, Inv, TypeOK
<1>2. e.business \in Business /\ e.actor \in KeyId \cup {Absent}
  BY <1>1 DEF AuditEntry
<1>3. QED
  BY <1>1, <1>2 DEF EntryIsRight, TablesGrow, RequestsGoOn, GoesOn, HasScope

\* A handler's own entry is right: its key had the scope when the request was
\* authenticated, and has it still.
LEMMA NewEntryIsRight ==
  ASSUME Inv, TablesGrow, RequestsGoOn,
         NEW x \in Exchange, At(x, "authenticated"),
         flight[x].command.op # "CreateBusiness",
         NEW action \in Action, ScopeFor(action) = RequiredScope(flight[x].command),
         NEW resource,
         resource \in KeyId =>
           keys'[resource] # Absent /\ keys'[resource].business = Tenant(x),
         resource \in IncidentId =>
           incidents'[resource] # Absent /\ incidents'[resource].business = Tenant(x),
         resource \in Business => resource = Tenant(x),
         NEW e, e = AuditEntryOf(x, action, resource)
  PROVE  EntryIsRight(e)'
<1>1. /\ e.exchange = x /\ e.business = Tenant(x) /\ e.actor = Actor(x)
      /\ e.action = action /\ e.resource = resource
  BY DEF AuditEntryOf
<1>2. /\ Actor(x) \in KeyId /\ Actor(x) # Absent /\ Tenant(x) \in Business
      /\ policies[Tenant(x)] # Absent
  BY HandlerHasTenant, NamesAssumption
<1>3. /\ keys[Actor(x)] # Absent /\ keys[Actor(x)].business = Tenant(x)
      /\ HasScope(Actor(x), ScopeFor(action))
  BY <1>2 DEF Inv, CapturedIsTrue, CapturedBy, At, Actor, Tenant
<1>4. /\ keys'[Actor(x)] # Absent /\ keys'[Actor(x)].business = Tenant(x)
      /\ keys'[Actor(x)].scopes = keys[Actor(x)].scopes
      /\ policies'[Tenant(x)] # Absent
  BY <1>2, <1>3 DEF TablesGrow
<1>5. flight'[x] # Absent
  BY DEF RequestsGoOn, GoesOn, At
<1>6. ScopeFor(e.action)' = ScopeFor(e.action)
  BY DEF ScopeFor
<1>7. QED
  BY <1>1, <1>2, <1>3, <1>4, <1>5, <1>6 DEF EntryIsRight, HasScope

\* A policy that is not changed stays explained.
LEMMA PolicyStaysExplained ==
  ASSUME Inv, EntriesInv, TablesGrow, RequestsGoOn, NEW b \in Business,
         policies'[b] = policies[b]
  PROVE  PolicyIsExplained(b)'
<1>1. ASSUME NEW e \in EntriesFor("security_policy.updated", b),
             flight[e.exchange].command.limit = policies[b]
      PROVE  PolicyIsExplained(b)'
  <2>1. e \in audit /\ e.action = "security_policy.updated" /\ e.resource = b
    BY <1>1 DEF EntriesFor
  <2>2. e.exchange \in Exchange /\ flight[e.exchange] # Absent
    BY <2>1 DEF EntriesInv, EntryIsRight
  <2>3. flight'[e.exchange].command = flight[e.exchange].command
    BY <2>2 DEF RequestsGoOn, GoesOn
  <2>4. e \in EntriesFor("security_policy.updated", b)'
    BY <2>1 DEF TablesGrow, EntriesFor
  <2>5. QED
    BY <1>1, <2>3, <2>4 DEF PolicyIsExplained
<1>2. QED
  BY <1>1 DEF EntriesInv, PolicyIsExplained

\* A handler that writes one entry, and no policy.
LEMMA OneMoreEntry ==
  ASSUME Inv, EntriesInv, [Next]_vars,
         NEW x \in Exchange, At(x, "authenticated"),
         flight[x].command.op # "CreateBusiness",
         NEW action \in Action, ScopeFor(action) = RequiredScope(flight[x].command),
         NEW resource, Audit(x, action, resource), UNCHANGED policies,
         resource \in KeyId =>
           keys'[resource] # Absent /\ keys'[resource].business = Tenant(x),
         resource \in IncidentId =>
           incidents'[resource] # Absent /\ incidents'[resource].business = Tenant(x),
         resource \in Business => resource = Tenant(x)
  PROVE  EntriesInv'
<1>1. TablesGrow /\ RequestsGoOn
  BY EveryStep
<1> PICK new : new = AuditEntryOf(x, action, resource)
  OBVIOUS
<1>2. EntryIsRight(new)'
  BY <1>1, NewEntryIsRight
<1>3. audit' = audit \cup {new}
  BY DEF Audit
<1>4. \A e \in audit' : EntryIsRight(e)'
  BY <1>1, <1>2, <1>3, OldEntriesStayRight
<1>5. \A b \in Business : PolicyIsExplained(b)'
  BY <1>1, PolicyStaysExplained
<1>6. QED
  BY <1>4, <1>5 DEF EntriesInv

\* A step that writes no entry and no policy.
LEMMA NoMoreEntries ==
  ASSUME Inv, EntriesInv, [Next]_vars, UNCHANGED <<audit, policies>>
  PROVE  EntriesInv'
<1>1. TablesGrow /\ RequestsGoOn
  BY EveryStep
<1>2. QED
  BY <1>1, OldEntriesStayRight, PolicyStaysExplained DEF EntriesInv

\* The founding entries name a new business, its own key and its owner.
LEMMA FoundingEntriesAreRight ==
  ASSUME Inv, EntriesInv, [Next]_vars, NEW x \in Exchange, NEW b \in Business,
         NEW k \in KeyId, CreateBusiness(x, b, k)
  PROVE  EntriesInv'
<1>1. TablesGrow /\ RequestsGoOn
  BY EveryStep
<1> DEFINE owner == flight[x].command.owner
<1>2. /\ keys' = [keys EXCEPT ![k] = FoundingKey(b, owner)]
      /\ policies' = [policies EXCEPT ![b] = DefaultLimit]
      /\ audit' = audit \cup Founding(x, b, k, owner)
      /\ At(x, "authenticated") /\ flight[x].command.op = "CreateBusiness"
  BY DEF CreateBusiness, Handles
<1>3. owner \in Email
  BY <1>2, KeyOfType, CommandFields DEF At, Inv, InFlight
<1> HIDE DEF owner
<1>4. /\ keys'[k] = FoundingKey(b, owner) /\ policies'[b] = DefaultLimit
      /\ \A c \in Business : c # b => policies'[c] = policies[c]
  BY <1>2 DEF Inv, TypeOK
<1>5. keys'[k] # Absent /\ keys'[k].business = b /\ policies'[b] # Absent
  <2>1. FoundingKey(b, owner) \in Key /\ FoundingKey(b, owner).business = b
    BY <1>3 DEF FoundingKey, Key
  <2>2. QED
    BY <1>4, <2>1, GatewayAssumption, NamesAssumption
<1>6. ASSUME NEW e \in Founding(x, b, k, owner)
      PROVE  EntryIsRight(e)'
  <2>1. /\ e.business = b /\ e.actor = Absent /\ e.action # "security_policy.updated"
        /\ e.resource \in {b, k, owner}
    BY DEF Founding
  <2>2. QED
    BY <1>3, <1>5, <2>1, NamesAssumption DEF EntryIsRight
<1>7. \A e \in audit' : EntryIsRight(e)'
  BY <1>1, <1>2, <1>6, OldEntriesStayRight
<1>8. \A c \in Business : PolicyIsExplained(c)'
  BY <1>1, <1>4, PolicyStaysExplained DEF PolicyIsExplained
<1>9. QED
  BY <1>7, <1>8 DEF EntriesInv

\* No step writes an entry that is not right or a policy without an entry.
LEMMA EntriesStep ==
  ASSUME Inv, EntriesInv, [Next]_vars
  PROVE  EntriesInv'
<1>1. ASSUME NEW x \in Exchange, Handle(x)
      PROVE  EntriesInv'
  <2>1. CASE \E b \in Business, k \in KeyId : CreateBusiness(x, b, k)
    BY <2>1, FoundingEntriesAreRight
  <2>2. ASSUME NEW k \in KeyId, CreateAPIKey(x, k)
        PROVE  EntriesInv'
    <3>1. /\ At(x, "authenticated") /\ flight[x].command.op = "CreateAPIKey"
          /\ Audit(x, "api_key.created", k) /\ UNCHANGED policies
          /\ keys' = [keys EXCEPT ![k] =
               [business |-> Tenant(x), scopes |-> flight[x].command.scopes,
                createdBy |-> Actor(x), revoked |-> FALSE]]
      BY <2>2 DEF CreateAPIKey, Handles
    <3>2. keys'[k].business = Tenant(x) /\ keys'[k] \in Key
      <4>1. Tenant(x) \in Business /\ Actor(x) \in KeyId
        BY <3>1, HandlerHasTenant
      <4>2. flight[x].command.scopes \in SUBSET Scope
        BY <3>1, KeyOfType, CommandFields DEF At, Inv, InFlight
      <4>3. QED
        BY <3>1, <4>1, <4>2 DEF Inv, TypeOK, Key
    <3>3. /\ "api_key.created" \in Action
          /\ ScopeFor("api_key.created") = RequiredScope(flight[x].command)
      BY <3>1 DEF Action, ScopeFor, RequiredScope
    <3>4. QED
      BY <3>1, <3>2, <3>3, OneMoreEntry, NamesAssumption
  <2>3. CASE RevokeAPIKey(x)
    <3> DEFINE k == flight[x].command.key
    <3>1. /\ At(x, "authenticated") /\ flight[x].command.op = "RevokeAPIKey"
          /\ UNCHANGED policies
          /\ \/ UNCHANGED audit
             \/ /\ Audit(x, "api_key.revoked", k)
                /\ keys[k] # Absent /\ keys[k].business = Tenant(x)
      BY <2>3 DEF RevokeAPIKey, Handles
    <3>2. k \in KeyId
      BY <3>1, KeyOfType, CommandFields DEF At, Inv, InFlight
    <3> HIDE DEF k
    <3>3. /\ "api_key.revoked" \in Action
          /\ ScopeFor("api_key.revoked") = RequiredScope(flight[x].command)
      BY <3>1 DEF Action, ScopeFor, RequiredScope
    <3>4. keys[k] # Absent => keys'[k] # Absent /\ keys'[k].business = keys[k].business
      BY <3>2, EveryStep DEF TablesGrow
    <3>5. QED
      BY <3>1, <3>2, <3>3, <3>4, OneMoreEntry, NoMoreEntries, NamesAssumption
  <2>4. CASE ListUsers(x)
    BY <2>4, NoMoreEntries DEF ListUsers, tables
  <2>5. CASE CreateUser(x)
    <3> DEFINE email == flight[x].command.email
               user == [business |-> Tenant(x), email |-> email]
    <3>1. /\ At(x, "authenticated") /\ flight[x].command.op = "CreateUser"
          /\ UNCHANGED policies
          /\ UNCHANGED audit \/ Audit(x, "user.created", user.email)
      BY <2>5 DEF CreateUser, Handles
    <3>2. user.email \in Email
      BY <3>1, KeyOfType, CommandFields DEF At, Inv, InFlight
    <3> HIDE DEF user
    <3>3. /\ "user.created" \in Action
          /\ ScopeFor("user.created") = RequiredScope(flight[x].command)
      BY <3>1 DEF Action, ScopeFor, RequiredScope
    <3>4. user.email \notin KeyId \cup IncidentId \cup Business
      BY <3>2, NamesAssumption
    <3>5. CASE UNCHANGED audit
      BY <3>1, <3>5, NoMoreEntries
    <3>6. CASE Audit(x, "user.created", user.email)
      BY <3>1, <3>3, <3>4, <3>6, OneMoreEntry
    <3>7. QED
      BY <3>1, <3>5, <3>6
  <2>6. ASSUME NEW i \in IncidentId, CreateIncident(x, i)
        PROVE  EntriesInv'
    <3>1. /\ At(x, "authenticated") /\ flight[x].command.op = "CreateIncident"
          /\ Audit(x, "incident.created", i) /\ UNCHANGED policies
          /\ incidents' = [incidents EXCEPT ![i] =
               [business |-> Tenant(x), createdBy |-> Actor(x), resolvedBy |-> Absent]]
      BY <2>6 DEF CreateIncident, Handles
    <3>2. incidents'[i].business = Tenant(x) /\ incidents'[i] \in Incident
      BY <3>1, HandlerHasTenant DEF Inv, TypeOK, Incident
    <3>3. /\ "incident.created" \in Action
          /\ ScopeFor("incident.created") = RequiredScope(flight[x].command)
      BY <3>1 DEF Action, ScopeFor, RequiredScope
    <3>4. QED
      BY <3>1, <3>2, <3>3, OneMoreEntry, NamesAssumption
  <2>7. CASE ResolveIncident(x)
    <3> DEFINE i == flight[x].command.incident
    <3>1. /\ At(x, "authenticated") /\ flight[x].command.op = "ResolveIncident"
          /\ UNCHANGED policies
          /\ \/ UNCHANGED audit
             \/ /\ Audit(x, "incident.resolved", i)
                /\ incidents[i] # Absent /\ incidents[i].business = Tenant(x)
      BY <2>7 DEF ResolveIncident, Handles
    <3>2. i \in IncidentId
      BY <3>1, KeyOfType, CommandFields DEF At, Inv, InFlight
    <3> HIDE DEF i
    <3>3. /\ "incident.resolved" \in Action
          /\ ScopeFor("incident.resolved") = RequiredScope(flight[x].command)
      BY <3>1 DEF Action, ScopeFor, RequiredScope
    <3>4. incidents[i] # Absent =>
            incidents'[i] # Absent /\ incidents'[i].business = incidents[i].business
      BY <3>2, EveryStep DEF TablesGrow
    <3>5. QED
      BY <3>1, <3>2, <3>3, <3>4, OneMoreEntry, NoMoreEntries, NamesAssumption
  <2>8. CASE UpdateSecurityPolicy(x)
    <3> DEFINE b == Tenant(x)
    <3>1. /\ At(x, "authenticated") /\ flight[x].command.op = "UpdateSecurityPolicy"
          /\ policies' = [policies EXCEPT ![b] = flight[x].command.limit]
          /\ Audit(x, "security_policy.updated", b)
      BY <2>8 DEF UpdateSecurityPolicy, Handles
    <3>2. b \in Business
      BY <3>1, HandlerHasTenant
    <3>3. /\ "security_policy.updated" \in Action
          /\ ScopeFor("security_policy.updated") = RequiredScope(flight[x].command)
      BY <3>1 DEF Action, ScopeFor, RequiredScope
    <3>4. TablesGrow /\ RequestsGoOn
      BY EveryStep
    <3> PICK new : new = AuditEntryOf(x, "security_policy.updated", b)
      OBVIOUS
    <3>5. /\ new.exchange = x /\ new.resource = b
          /\ new.action = "security_policy.updated"
      BY DEF AuditEntryOf
    <3>6. audit' = audit \cup {new}
      BY <3>1 DEF Audit
    <3> HIDE DEF b
    <3>7. EntryIsRight(new)'
      BY <3>1, <3>2, <3>3, <3>4, NewEntryIsRight, NamesAssumption DEF b
    <3>8. \A e \in audit' : EntryIsRight(e)'
      BY <3>4, <3>6, <3>7, OldEntriesStayRight
    <3>9. ASSUME NEW c \in Business
          PROVE  PolicyIsExplained(c)'
      <4>1. CASE policies'[c] = policies[c]
        BY <3>4, <4>1, PolicyStaysExplained
      <4>2. CASE policies'[c] # policies[c]
        <5>1. c = b /\ policies'[c] = flight[x].command.limit
          BY <3>1, <4>2 DEF Inv, TypeOK
        <5>2. flight'[x].command = flight[x].command
          BY <3>1, <3>4 DEF RequestsGoOn, GoesOn, At
        <5>3. new \in EntriesFor("security_policy.updated", c)'
          BY <3>5, <3>6, <5>1 DEF EntriesFor
        <5>4. QED
          BY <3>5, <5>1, <5>2, <5>3 DEF PolicyIsExplained
      <4>3. QED
        BY <4>1, <4>2
    <3>10. QED
      BY <3>8, <3>9 DEF EntriesInv
  <2>9. QED
    BY <1>1, <2>1, <2>2, <2>3, <2>4, <2>5, <2>6, <2>7, <2>8 DEF Handle
<1>2. CASE Tick \/ UNCHANGED vars \/ \E x \in Exchange : Passage(x)
  BY <1>2, PassageLeavesTheRest, NoMoreEntries DEF Tick, vars, tables
<1>3. QED
  BY <1>1, <1>2 DEF Next, Passage

\* The entries of a snapshot are the founding ones, right for their businesses.
LEMMA EntriesInit == Init => EntriesInv
<1> SUFFICES ASSUME Init PROVE EntriesInv
  OBVIOUS
<1>1. \A b \in Business : policies[b] = IF Founders[b] # Absent THEN DefaultLimit ELSE Absent
  BY DEF Init
<1>2. audit = UNION {Founding(Absent, b, Founders[b].key, Founders[b].owner) :
                       b \in {b \in Business : Founders[b] # Absent}}
  BY DEF Init
<1>3. ASSUME NEW b \in Business, Founders[b] # Absent,
             NEW e \in Founding(Absent, b, Founders[b].key, Founders[b].owner)
      PROVE  EntryIsRight(e)
  <2>1. /\ Founders[b].key \in KeyId /\ Founders[b].owner \in Email
    BY <1>3, GatewayAssumption
  <2>2. /\ e.business = b /\ e.actor = Absent /\ e.action # "security_policy.updated"
        /\ e.resource \in {b, Founders[b].key, Founders[b].owner}
    BY <1>3 DEF Founding
  <2>3. policies[b] # Absent
    BY <1>1, <1>3, GatewayAssumption, NamesAssumption
  <2>4. keys[Founders[b].key] # Absent /\ keys[Founders[b].key].business = b
    <3>1. PICK c \in Business : /\ Founders[c] # Absent
                                /\ Founders[c].key = Founders[b].key
                                /\ keys[Founders[b].key] = FoundingKey(c, Founders[c].owner)
      BY <1>3, <2>1, FoundersKeys
    <3>2. c = b
      BY <1>3, <3>1, GatewayAssumption
    <3>3. /\ FoundingKey(b, Founders[b].owner) \in Key
          /\ FoundingKey(b, Founders[b].owner).business = b
      BY <2>1 DEF FoundingKey, Key
    <3>4. QED
      BY <3>1, <3>2, <3>3, NamesAssumption
  <2>5. QED
    BY <2>1, <2>2, <2>3, <2>4, NamesAssumption DEF EntryIsRight
<1>4. \A e \in audit : EntryIsRight(e)
  BY <1>2, <1>3
<1>5. \A b \in Business : PolicyIsExplained(b)
  BY <1>1 DEF PolicyIsExplained
<1>6. QED
  BY <1>4, <1>5 DEF EntriesInv

\* The audit log and the policies are in order in every reachable state.
LEMMA EntriesInvariant == Spec => []EntriesInv
<1>1. Inv /\ EntriesInv /\ [Next]_vars => EntriesInv'
  BY EntriesStep
<1>2. QED
  BY GatewayInductive, EntriesInit, <1>1, PTL DEF Spec

\* Nobody ever changed anything of a business but a key of that business that
\* had the scope for it, and every policy is accounted for by such a change.
THEOREM TenantsAreGuarded == Spec => []ActorsWereEntitled
<1>1. EntriesInv => ActorsWereEntitled
  BY DEF EntriesInv, EntryIsRight, PolicyIsExplained, ActorsWereEntitled, BelongsTo
<1>2. QED
  BY EntriesInvariant, <1>1, PTL

\* What the log says of a key, a user and an incident, without counting.
KeyIsExplained(k) ==
  LET created == EntriesFor("api_key.created", k)
      revoked == EntriesFor("api_key.revoked", k)
  IN  /\ keys[k] = Absent => created = {} /\ revoked = {}
      /\ keys[k] # Absent =>
           /\ \E e : /\ created = {e}
                     /\ e.business = keys[k].business
                     /\ e.actor = IF keys[k].createdBy \in Email THEN Absent
                                  ELSE keys[k].createdBy
           /\ IF keys[k].revoked THEN \E e : revoked = {e} ELSE revoked = {}

UserEntries(b, email) == {e \in EntriesFor("user.created", email) : e.business = b}

UserIsExplained(b, email) ==
  IF [business |-> b, email |-> email] \in users
    THEN \E e : UserEntries(b, email) = {e}
    ELSE UserEntries(b, email) = {}

IncidentIsExplained(i) ==
  LET created == EntriesFor("incident.created", i)
      resolved == EntriesFor("incident.resolved", i)
  IN  /\ incidents[i] = Absent => created = {} /\ resolved = {}
      /\ incidents[i] # Absent =>
           /\ \E e : created = {e} /\ e.actor = incidents[i].createdBy
           /\ IF incidents[i].resolvedBy = Absent THEN resolved = {}
              ELSE \E e : resolved = {e} /\ e.actor = incidents[i].resolvedBy

ExplainedInv ==
  /\ \A k \in KeyId : KeyIsExplained(k)
  /\ \A b \in Business, email \in Email : UserIsExplained(b, email)
  /\ \A i \in IncidentId : IncidentIsExplained(i)

\* An entry more is one more for its own action and resource.
LEMMA EntriesGrow ==
  ASSUME NEW new, audit' = audit \cup {new}, NEW action, NEW resource
  PROVE  EntriesFor(action, resource)' =
           IF new.action = action /\ new.resource = resource
             THEN EntriesFor(action, resource) \cup {new}
             ELSE EntriesFor(action, resource)
BY DEF EntriesFor

\* A key that is neither changed nor written about stays explained.
LEMMA KeyUntouched ==
  ASSUME NEW k, KeyIsExplained(k), keys'[k] = keys[k],
         EntriesFor("api_key.created", k)' = EntriesFor("api_key.created", k),
         EntriesFor("api_key.revoked", k)' = EntriesFor("api_key.revoked", k)
  PROVE  KeyIsExplained(k)'
BY DEF KeyIsExplained

\* So does a user that is neither added nor written about.
LEMMA UserUntouched ==
  ASSUME NEW b, NEW email, UserIsExplained(b, email),
         [business |-> b, email |-> email] \in users' <=>
           [business |-> b, email |-> email] \in users,
         UserEntries(b, email)' = UserEntries(b, email)
  PROVE  UserIsExplained(b, email)'
BY DEF UserIsExplained

\* So does an incident that is not written about.
LEMMA IncidentUntouched ==
  ASSUME NEW i, IncidentIsExplained(i), incidents'[i] = incidents[i],
         EntriesFor("incident.created", i)' = EntriesFor("incident.created", i),
         EntriesFor("incident.resolved", i)' = EntriesFor("incident.resolved", i)
  PROVE  IncidentIsExplained(i)'
BY DEF IncidentIsExplained

\* A step that writes no entry and no table leaves all of them explained.
LEMMA NothingTouched ==
  ASSUME ExplainedInv, UNCHANGED <<keys, users, incidents, audit>>
  PROVE  ExplainedInv'
<1>1. \A a, r : EntriesFor(a, r)' = EntriesFor(a, r)
  BY DEF EntriesFor
<1>2. \A b, m : UserEntries(b, m)' = UserEntries(b, m)
  BY <1>1 DEF UserEntries
<1>3. QED
  BY <1>1, <1>2, KeyUntouched, UserUntouched, IncidentUntouched DEF ExplainedInv

\* A key that is created.
LEMMA KeyCreated ==
  ASSUME NEW k, KeyIsExplained(k), keys[k] = Absent, keys'[k] # Absent,
         NEW new, new.business = keys'[k].business,
         new.actor = (IF keys'[k].createdBy \in Email THEN Absent
                      ELSE keys'[k].createdBy),
         ~keys'[k].revoked,
         EntriesFor("api_key.created", k)' = EntriesFor("api_key.created", k) \cup {new},
         EntriesFor("api_key.revoked", k)' = EntriesFor("api_key.revoked", k)
  PROVE  KeyIsExplained(k)'
BY DEF KeyIsExplained

\* A handler that writes an entry about one key, and no other table.
LEMMA OneKeyTouched ==
  ASSUME ExplainedInv, NEW k \in KeyId, NEW new, new.resource = k,
         new.action \in {"api_key.created", "api_key.revoked"},
         audit' = audit \cup {new}, UNCHANGED <<users, incidents>>,
         \A j \in KeyId : j # k => keys'[j] = keys[j],
         KeyIsExplained(k)'
  PROVE  ExplainedInv'
<1>1. \A a, r : (a \notin {"api_key.created", "api_key.revoked"} \/ r # k) =>
        EntriesFor(a, r)' = EntriesFor(a, r)
  BY EntriesGrow
<1>2. \A b, m : UserEntries(b, m)' = UserEntries(b, m)
  BY <1>1 DEF UserEntries
<1>3. ASSUME NEW j \in KeyId PROVE KeyIsExplained(j)'
  BY <1>1, KeyUntouched DEF ExplainedInv
<1>4. ASSUME NEW i \in IncidentId PROVE IncidentIsExplained(i)'
  BY <1>1, IncidentUntouched DEF ExplainedInv
<1>5. ASSUME NEW b \in Business, NEW m \in Email PROVE UserIsExplained(b, m)'
  BY <1>2, UserUntouched DEF ExplainedInv
<1>6. QED
  BY <1>3, <1>4, <1>5 DEF ExplainedInv

\* One about an incident.
LEMMA OneIncidentTouched ==
  ASSUME ExplainedInv, NEW i \in IncidentId, NEW new, new.resource = i,
         new.action \in {"incident.created", "incident.resolved"},
         audit' = audit \cup {new}, UNCHANGED <<users, keys>>,
         \A j \in IncidentId : j # i => incidents'[j] = incidents[j],
         IncidentIsExplained(i)'
  PROVE  ExplainedInv'
<1>1. \A a, r : (a \notin {"incident.created", "incident.resolved"} \/ r # i) =>
        EntriesFor(a, r)' = EntriesFor(a, r)
  BY EntriesGrow
<1>2. \A b, m : UserEntries(b, m)' = UserEntries(b, m)
  BY <1>1 DEF UserEntries
<1>3. ASSUME NEW j \in KeyId PROVE KeyIsExplained(j)'
  BY <1>1, KeyUntouched DEF ExplainedInv
<1>4. ASSUME NEW j \in IncidentId PROVE IncidentIsExplained(j)'
  BY <1>1, IncidentUntouched DEF ExplainedInv
<1>5. ASSUME NEW b \in Business, NEW m \in Email PROVE UserIsExplained(b, m)'
  BY <1>2, UserUntouched DEF ExplainedInv
<1>6. QED
  BY <1>3, <1>4, <1>5 DEF ExplainedInv

\* Handlers of keys.
LEMMA KeyHandlersExplain ==
  ASSUME Inv, EntriesInv, ExplainedInv, NEW x \in Exchange,
         RevokeAPIKey(x) \/ \E k \in KeyId : CreateAPIKey(x, k)
  PROVE  ExplainedInv'
<1>1. ASSUME NEW k \in KeyId, CreateAPIKey(x, k)
      PROVE  ExplainedInv'
  <2> DEFINE row == [business |-> Tenant(x), scopes |-> flight[x].command.scopes,
                     createdBy |-> Actor(x), revoked |-> FALSE]
  <2>1. /\ At(x, "authenticated") /\ flight[x].command.op = "CreateAPIKey"
        /\ keys[k] = Absent /\ Audit(x, "api_key.created", k)
        /\ UNCHANGED <<users, incidents>>
        /\ keys' = [keys EXCEPT ![k] = row]
    BY <1>1 DEF CreateAPIKey, Handles
  <2>2. Actor(x) \in KeyId /\ Tenant(x) \in Business
    BY <2>1, HandlerHasTenant
  <2>3. flight[x].command.scopes \in SUBSET Scope
    BY <2>1, KeyOfType, CommandFields DEF At, Inv, InFlight
  <2>4. /\ row \in Key /\ row.business = Tenant(x) /\ row.createdBy = Actor(x)
        /\ row.revoked = FALSE
    BY <2>2, <2>3 DEF Key
  <2> HIDE DEF row
  <2>5. keys'[k] = row /\ \A j \in KeyId : j # k => keys'[j] = keys[j]
    BY <2>1 DEF Inv, TypeOK
  <2> PICK new : new = AuditEntryOf(x, "api_key.created", k)
    OBVIOUS
  <2>6. /\ new.business = Tenant(x) /\ new.actor = Actor(x)
        /\ new.action = "api_key.created" /\ new.resource = k
    BY DEF AuditEntryOf
  <2>7. audit' = audit \cup {new}
    BY <2>1 DEF Audit
  <2>8. /\ EntriesFor("api_key.created", k)' = EntriesFor("api_key.created", k) \cup {new}
        /\ EntriesFor("api_key.revoked", k)' = EntriesFor("api_key.revoked", k)
    BY <2>6, <2>7, EntriesGrow
  <2>9. keys'[k] # Absent
    BY <2>4, <2>5, NamesAssumption
  <2>10. Actor(x) \notin Email
    BY <2>2, NamesAssumption
  <2>11. KeyIsExplained(k)'
    BY <2>1, <2>4, <2>5, <2>6, <2>8, <2>9, <2>10, KeyCreated DEF ExplainedInv
  <2>12. QED
    BY <2>1, <2>5, <2>6, <2>7, <2>11, OneKeyTouched
<1>2. CASE RevokeAPIKey(x)
  <2> DEFINE k == flight[x].command.key
  <2>1. /\ At(x, "authenticated") /\ flight[x].command.op = "RevokeAPIKey"
        /\ UNCHANGED <<users, incidents>>
        /\ \/ UNCHANGED <<keys, audit>>
           \/ /\ keys[k] # Absent
              /\ keys' = [keys EXCEPT ![k].revoked = TRUE]
              /\ IF keys[k].revoked THEN UNCHANGED audit
                 ELSE Audit(x, "api_key.revoked", k)
    BY <1>2 DEF RevokeAPIKey, Handles
  <2>2. k \in KeyId
    BY <2>1, KeyOfType, CommandFields DEF At, Inv, InFlight
  <2> PICK l \in KeyId : l = k
    BY <2>2
  <2>3. CASE UNCHANGED <<keys, audit>>
    BY <2>1, <2>3, NothingTouched
  <2>4. CASE /\ keys[l] # Absent
             /\ keys' = [keys EXCEPT ![l].revoked = TRUE]
    <3>1. keys[l] \in Key
      BY <2>4 DEF Inv, TypeOK
    <3>2. /\ keys'[l] = [keys[l] EXCEPT !.revoked = TRUE]
          /\ \A j \in KeyId : j # l => keys'[j] = keys[j]
      BY <2>4 DEF Inv, TypeOK
    <3>3. /\ keys'[l].business = keys[l].business
          /\ keys'[l].createdBy = keys[l].createdBy
          /\ keys'[l].revoked = TRUE
          /\ keys'[l] \in Key
      BY <3>1, <3>2 DEF Key
    <3>4. keys'[l] # Absent
      BY <3>3, NamesAssumption
    <3>5. CASE keys[l].revoked
      <4>1. keys'[l] = keys[l]
        BY ZenonT(60), <3>1, <3>2, <3>5 DEF Key
      <4>2. keys' = keys
        BY <2>4, <3>2, <4>1 DEF Inv, TypeOK
      <4>3. QED
        BY <2>1, <2>4, <3>5, <4>2, NothingTouched
    <3>6. CASE ~keys[l].revoked
      <4> PICK new : new = AuditEntryOf(x, "api_key.revoked", l)
        OBVIOUS
      <4>1. new.action = "api_key.revoked" /\ new.resource = l
        BY DEF AuditEntryOf
      <4>2. audit' = audit \cup {new} \/ UNCHANGED <<keys, audit>>
        BY <2>1, <3>6 DEF Audit
      <4>3. CASE audit' = audit \cup {new}
        <5>1. /\ EntriesFor("api_key.revoked", l)' = EntriesFor("api_key.revoked", l) \cup {new}
              /\ EntriesFor("api_key.created", l)' = EntriesFor("api_key.created", l)
          BY <4>1, <4>3, EntriesGrow
        <5>2. /\ EntriesFor("api_key.revoked", l) = {}
              /\ \E e : /\ EntriesFor("api_key.created", l) = {e}
                        /\ e.business = keys[l].business
                        /\ e.actor = IF keys[l].createdBy \in Email THEN Absent
                                     ELSE keys[l].createdBy
          BY SMTT(30), <2>4, <3>6 DEF ExplainedInv, KeyIsExplained
        <5>3. KeyIsExplained(l)'
          BY <3>3, <3>4, <5>1, <5>2 DEF KeyIsExplained
        <5>4. QED
          BY <2>1, <3>2, <4>1, <4>3, <5>3, OneKeyTouched
      <4>4. QED
        BY <2>3, <4>2, <4>3
    <3>7. QED
      BY <3>5, <3>6
  <2>5. QED
    BY <2>1, <2>3, <2>4
<1>3. QED
  BY <1>1, <1>2

\* Handlers of incidents.
LEMMA IncidentHandlersExplain ==
  ASSUME Inv, EntriesInv, ExplainedInv, NEW x \in Exchange,
         ResolveIncident(x) \/ \E i \in IncidentId : CreateIncident(x, i)
  PROVE  ExplainedInv'
<1>1. ASSUME NEW i \in IncidentId, CreateIncident(x, i)
      PROVE  ExplainedInv'
  <2> DEFINE row == [business |-> Tenant(x), createdBy |-> Actor(x), resolvedBy |-> Absent]
  <2>1. /\ At(x, "authenticated") /\ flight[x].command.op = "CreateIncident"
        /\ incidents[i] = Absent /\ Audit(x, "incident.created", i)
        /\ UNCHANGED <<users, keys>>
        /\ incidents' = [incidents EXCEPT ![i] = row]
    BY <1>1 DEF CreateIncident, Handles
  <2>2. Actor(x) \in KeyId /\ Tenant(x) \in Business
    BY <2>1, HandlerHasTenant
  <2>3. row \in Incident /\ row.createdBy = Actor(x) /\ row.resolvedBy = Absent
    BY <2>2 DEF Incident
  <2> HIDE DEF row
  <2>4. incidents'[i] = row /\ \A j \in IncidentId : j # i => incidents'[j] = incidents[j]
    BY <2>1 DEF Inv, TypeOK
  <2> PICK new : new = AuditEntryOf(x, "incident.created", i)
    OBVIOUS
  <2>5. new.actor = Actor(x) /\ new.action = "incident.created" /\ new.resource = i
    BY DEF AuditEntryOf
  <2>6. audit' = audit \cup {new}
    BY <2>1 DEF Audit
  <2>7. /\ EntriesFor("incident.created", i)' = EntriesFor("incident.created", i) \cup {new}
        /\ EntriesFor("incident.resolved", i)' = EntriesFor("incident.resolved", i)
    BY <2>5, <2>6, EntriesGrow
  <2>8. /\ EntriesFor("incident.created", i) = {}
        /\ EntriesFor("incident.resolved", i) = {}
    BY <2>1 DEF ExplainedInv, IncidentIsExplained
  <2>9. incidents'[i] # Absent
    BY <2>3, <2>4, NamesAssumption
  <2>10. IncidentIsExplained(i)'
    BY <2>3, <2>4, <2>5, <2>7, <2>8, <2>9 DEF IncidentIsExplained
  <2>11. QED
    BY <2>1, <2>4, <2>5, <2>6, <2>10, OneIncidentTouched
<1>2. CASE ResolveIncident(x)
  <2>1. /\ At(x, "authenticated") /\ flight[x].command.op = "ResolveIncident"
        /\ flight[x].command.incident \in IncidentId
    BY <1>2, KeyOfType, CommandFields DEF ResolveIncident, Handles, At, Inv, InFlight
  <2> PICK i \in IncidentId : i = flight[x].command.incident
    BY <2>1
  <2>2. /\ UNCHANGED <<users, keys>>
        /\ \/ UNCHANGED <<incidents, audit>>
           \/ /\ incidents[i] # Absent /\ incidents[i].resolvedBy = Absent
              /\ incidents' = [incidents EXCEPT ![i].resolvedBy = Actor(x)]
              /\ Audit(x, "incident.resolved", i)
    BY <1>2 DEF ResolveIncident
  <2>3. CASE /\ incidents[i] # Absent /\ incidents[i].resolvedBy = Absent
             /\ incidents' = [incidents EXCEPT ![i].resolvedBy = Actor(x)]
             /\ Audit(x, "incident.resolved", i)
    <3>1. incidents[i] \in Incident /\ Actor(x) \in KeyId /\ Actor(x) # Absent
      BY <2>1, <2>3, HandlerHasTenant DEF Inv, TypeOK
    <3>2. /\ incidents'[i] = [incidents[i] EXCEPT !.resolvedBy = Actor(x)]
          /\ \A j \in IncidentId : j # i => incidents'[j] = incidents[j]
      BY <2>3 DEF Inv, TypeOK
    <3>3. /\ incidents'[i].createdBy = incidents[i].createdBy
          /\ incidents'[i].resolvedBy = Actor(x)
          /\ incidents'[i] \in Incident
      BY <3>1, <3>2 DEF Incident
    <3>4. incidents'[i] # Absent
      BY <3>3, NamesAssumption
    <3> PICK new : new = AuditEntryOf(x, "incident.resolved", i)
      OBVIOUS
    <3>5. new.actor = Actor(x) /\ new.action = "incident.resolved" /\ new.resource = i
      BY DEF AuditEntryOf
    <3>6. audit' = audit \cup {new}
      BY <2>3 DEF Audit
    <3>7. /\ EntriesFor("incident.resolved", i)' = EntriesFor("incident.resolved", i) \cup {new}
          /\ EntriesFor("incident.created", i)' = EntriesFor("incident.created", i)
      BY <3>5, <3>6, EntriesGrow
    <3>8. /\ EntriesFor("incident.resolved", i) = {}
          /\ \E e : EntriesFor("incident.created", i) = {e} /\ e.actor = incidents[i].createdBy
      BY <2>3 DEF ExplainedInv, IncidentIsExplained
    <3>9. IncidentIsExplained(i)'
      BY <3>1, <3>3, <3>4, <3>5, <3>7, <3>8 DEF IncidentIsExplained
    <3>10. QED
      BY <2>2, <3>2, <3>5, <3>6, <3>9, OneIncidentTouched
  <2>4. QED
    BY <2>2, <2>3, NothingTouched
<1>3. QED
  BY <1>1, <1>2

\* A user who is added.
LEMMA UserHandlerExplains ==
  ASSUME Inv, EntriesInv, ExplainedInv, NEW x \in Exchange, CreateUser(x)
  PROVE  ExplainedInv'
<1>1. /\ At(x, "authenticated") /\ flight[x].command.op = "CreateUser"
      /\ UNCHANGED <<keys, incidents>>
  BY DEF CreateUser, Handles
<1>2. Tenant(x) \in Business /\ flight[x].command.email \in Email
  BY <1>1, HandlerHasTenant, KeyOfType, CommandFields DEF At, Inv, InFlight
<1> PICK b \in Business, m \in Email : b = Tenant(x) /\ m = flight[x].command.email
  BY <1>2
<1>3. \/ UNCHANGED <<users, audit>>
      \/ /\ [business |-> b, email |-> m] \notin users
         /\ users' = users \cup {[business |-> b, email |-> m]}
         /\ Audit(x, "user.created", m)
  BY DEF CreateUser
<1>4. CASE /\ [business |-> b, email |-> m] \notin users
           /\ users' = users \cup {[business |-> b, email |-> m]}
           /\ Audit(x, "user.created", m)
  <2> PICK new : new = AuditEntryOf(x, "user.created", m)
    OBVIOUS
  <2>1. new.business = b /\ new.action = "user.created" /\ new.resource = m
    BY DEF AuditEntryOf
  <2>2. audit' = audit \cup {new}
    BY <1>4 DEF Audit
  <2>3. \A a, r : a # "user.created" \/ r # m => EntriesFor(a, r)' = EntriesFor(a, r)
    BY <2>1, <2>2, EntriesGrow
  <2>4. EntriesFor("user.created", m)' = EntriesFor("user.created", m) \cup {new}
    BY <2>1, <2>2, EntriesGrow
  <2>5. ASSUME NEW c \in Business, NEW n \in Email
        PROVE  UserIsExplained(c, n)'
    <3>1. CASE c = b /\ n = m
      <4>1. UserEntries(b, m) = {}
        BY <1>4 DEF ExplainedInv, UserIsExplained
      <4>2. UserEntries(b, m)' = {new}
        BY <2>1, <2>4, <4>1 DEF UserEntries
      <4>3. [business |-> b, email |-> m] \in users'
        BY <1>4
      <4>4. QED
        BY <3>1, <4>2, <4>3 DEF UserIsExplained
    <3>2. CASE ~(c = b /\ n = m)
      <4>1. UserEntries(c, n)' = UserEntries(c, n)
        BY <2>1, <2>3, <2>4, <3>2 DEF UserEntries
      <4>2. [business |-> c, email |-> n] # [business |-> b, email |-> m]
        BY <3>2
      <4>3. QED
        BY <1>4, <4>1, <4>2, UserUntouched DEF ExplainedInv
    <3>3. QED
      BY <3>1, <3>2
  <2>6. ASSUME NEW k \in KeyId PROVE KeyIsExplained(k)'
    BY <1>1, <2>3, KeyUntouched DEF ExplainedInv
  <2>7. ASSUME NEW i \in IncidentId PROVE IncidentIsExplained(i)'
    BY <1>1, <2>3, IncidentUntouched DEF ExplainedInv
  <2>8. QED
    BY <2>5, <2>6, <2>7 DEF ExplainedInv
<1>5. QED
  BY <1>1, <1>3, <1>4, NothingTouched

\* The entries a new business comes with, by action and resource.
LEMMA FoundingEntries ==
  ASSUME NEW x, NEW b, NEW k, NEW owner
  PROVE  \E eb, eu, ek :
           /\ Founding(x, b, k, owner) = {eb, eu, ek}
           /\ eb.action = "business.created"
           /\ eu.action = "user.created" /\ eu.resource = owner /\ eu.business = b
           /\ ek.action = "api_key.created" /\ ek.resource = k /\ ek.business = b
           /\ ek.actor = Absent
<1> DEFINE eb == [exchange |-> x, business |-> b, actor |-> Absent,
                  action |-> "business.created", resource |-> b]
           eu == [exchange |-> x, business |-> b, actor |-> Absent,
                  action |-> "user.created", resource |-> owner]
           ek == [exchange |-> x, business |-> b, actor |-> Absent,
                  action |-> "api_key.created", resource |-> k]
<1>1. Founding(x, b, k, owner) = {eb, eu, ek}
  BY DEF Founding
<1>2. /\ eb.action = "business.created"
      /\ eu.action = "user.created" /\ eu.resource = owner /\ eu.business = b
      /\ ek.action = "api_key.created" /\ ek.resource = k /\ ek.business = b
      /\ ek.actor = Absent
  OBVIOUS
<1> HIDE DEF eb, eu, ek
<1>3. QED
  BY <1>1, <1>2

\* A new business: its key and its owner come with their entries.
LEMMA BusinessHandlerExplains ==
  ASSUME Inv, EntriesInv, ExplainedInv, NEW x \in Exchange, NEW b \in Business,
         NEW k \in KeyId, CreateBusiness(x, b, k)
  PROVE  ExplainedInv'
<1>1. At(x, "authenticated") /\ flight[x].command.op = "CreateBusiness"
  BY DEF CreateBusiness, Handles
<1>2. flight[x].command.owner \in Email
  BY <1>1, KeyOfType, CommandFields DEF At, Inv, InFlight
<1> PICK m \in Email : m = flight[x].command.owner
  BY <1>2
<1>3. /\ policies[b] = Absent /\ keys[k] = Absent
      /\ keys' = [keys EXCEPT ![k] = FoundingKey(b, m)]
      /\ users' = users \cup {[business |-> b, email |-> m]}
      /\ audit' = audit \cup Founding(x, b, k, m)
      /\ UNCHANGED incidents
  BY DEF CreateBusiness
<1>4. PICK eb, eu, ek :
        /\ Founding(x, b, k, m) = {eb, eu, ek}
        /\ eb.action = "business.created"
        /\ eu.action = "user.created" /\ eu.resource = m /\ eu.business = b
        /\ ek.action = "api_key.created" /\ ek.resource = k /\ ek.business = b
        /\ ek.actor = Absent
  BY FoundingEntries
<1>5. audit' = audit \cup {eb, eu, ek}
  BY <1>3, <1>4
<1>6. /\ EntriesFor("api_key.created", k)' = EntriesFor("api_key.created", k) \cup {ek}
      /\ \A r : r # k => EntriesFor("api_key.created", r)' = EntriesFor("api_key.created", r)
      /\ EntriesFor("user.created", m)' = EntriesFor("user.created", m) \cup {eu}
      /\ \A r : r # m => EntriesFor("user.created", r)' = EntriesFor("user.created", r)
      /\ \A a, r : a \in {"api_key.revoked", "incident.created", "incident.resolved"} =>
           EntriesFor(a, r)' = EntriesFor(a, r)
  BY <1>4, <1>5 DEF EntriesFor
<1>7. ASSUME NEW j \in KeyId PROVE KeyIsExplained(j)'
  <2>1. CASE j = k
    <3>1. FoundingKey(b, m) \in Key
      BY DEF FoundingKey, Key
    <3>2. /\ FoundingKey(b, m).business = b /\ FoundingKey(b, m).createdBy = m
          /\ ~FoundingKey(b, m).revoked
      BY DEF FoundingKey
    <3>3. keys'[k] = FoundingKey(b, m) /\ keys'[k] # Absent
      BY <1>3, <3>1, NamesAssumption DEF Inv, TypeOK
    <3>4. KeyIsExplained(k)
      BY DEF ExplainedInv
    <3>5. QED
      BY <1>3, <1>4, <1>6, <2>1, <3>2, <3>3, <3>4, KeyCreated
  <2>2. CASE j # k
    BY <1>3, <1>6, <2>2, KeyUntouched DEF ExplainedInv, Inv, TypeOK
  <2>3. QED
    BY <2>1, <2>2
<1>8. ASSUME NEW c \in Business, NEW n \in Email PROVE UserIsExplained(c, n)'
  <2>1. CASE c = b /\ n = m
    <3>1. UserEntries(b, m) = {}
      BY <1>3 DEF UserEntries, EntriesFor, EntriesInv, EntryIsRight
    <3>2. UserEntries(b, m)' = {eu}
      BY <1>4, <1>6, <3>1 DEF UserEntries
    <3>3. [business |-> b, email |-> m] \in users'
      BY <1>3
    <3>4. QED
      BY <2>1, <3>2, <3>3 DEF UserIsExplained
  <2>2. CASE ~(c = b /\ n = m)
    <3>1. UserEntries(c, n)' = UserEntries(c, n)
      BY <1>4, <1>6, <2>2 DEF UserEntries
    <3>2. [business |-> c, email |-> n] # [business |-> b, email |-> m]
      BY <2>2
    <3>3. QED
      BY <1>3, <3>1, <3>2, UserUntouched DEF ExplainedInv
  <2>3. QED
    BY <2>1, <2>2
<1>9. ASSUME NEW i \in IncidentId PROVE IncidentIsExplained(i)'
  BY <1>3, <1>6, IncidentUntouched DEF ExplainedInv
<1>10. QED
  BY <1>7, <1>8, <1>9 DEF ExplainedInv

\* Every step keeps log and tables together.
LEMMA ExplainedStep ==
  ASSUME Inv, EntriesInv, ExplainedInv, [Next]_vars
  PROVE  ExplainedInv'
<1>1. ASSUME NEW x \in Exchange, Handle(x)
      PROVE  ExplainedInv'
  <2>1. CASE RevokeAPIKey(x) \/ \E k \in KeyId : CreateAPIKey(x, k)
    BY <2>1, KeyHandlersExplain
  <2>2. CASE ResolveIncident(x) \/ \E i \in IncidentId : CreateIncident(x, i)
    BY <2>2, IncidentHandlersExplain
  <2>3. CASE CreateUser(x)
    BY <2>3, UserHandlerExplains
  <2>4. CASE \E b \in Business, k \in KeyId : CreateBusiness(x, b, k)
    BY <2>4, BusinessHandlerExplains
  <2>5. CASE ListUsers(x)
    BY <2>5, NothingTouched DEF ListUsers, tables
  <2>6. CASE UpdateSecurityPolicy(x)
    <3> PICK new : new = AuditEntryOf(x, "security_policy.updated", Tenant(x))
      OBVIOUS
    <3>1. audit' = audit \cup {new} /\ UNCHANGED <<keys, users, incidents>>
      BY <2>6 DEF UpdateSecurityPolicy, Audit
    <3>2. new.action = "security_policy.updated"
      BY DEF AuditEntryOf
    <3>3. \A a, r : a # "security_policy.updated" => EntriesFor(a, r)' = EntriesFor(a, r)
      BY <3>1, <3>2, EntriesGrow
    <3>4. \A b, m : UserEntries(b, m)' = UserEntries(b, m)
      BY <3>3 DEF UserEntries
    <3>5. ASSUME NEW k \in KeyId PROVE KeyIsExplained(k)'
      BY <3>1, <3>3, KeyUntouched DEF ExplainedInv
    <3>6. ASSUME NEW b \in Business, NEW m \in Email PROVE UserIsExplained(b, m)'
      BY <3>1, <3>4, UserUntouched DEF ExplainedInv
    <3>7. ASSUME NEW i \in IncidentId PROVE IncidentIsExplained(i)'
      BY <3>1, <3>3, IncidentUntouched DEF ExplainedInv
    <3>8. QED
      BY <3>5, <3>6, <3>7 DEF ExplainedInv
  <2>7. QED
    BY <1>1, <2>1, <2>2, <2>3, <2>4, <2>5, <2>6 DEF Handle
<1>2. CASE Tick \/ UNCHANGED vars \/ \E x \in Exchange : Passage(x)
  BY <1>2, PassageLeavesTheRest, NothingTouched DEF Tick, vars, tables
<1>3. QED
  BY <1>1, <1>2 DEF Next, Passage

\* A snapshot explains its founders, and holds nothing else.
LEMMA ExplainedInit == Init => ExplainedInv
<1> SUFFICES ASSUME Init PROVE ExplainedInv
  OBVIOUS
<1> DEFINE Of(b) == Founding(Absent, b, Founders[b].key, Founders[b].owner)
<1>1. \A e : e \in audit <=> \E b \in Business : Founders[b] # Absent /\ e \in Of(b)
  BY DEF Init
<1>2. \A b \in Business : \E eb, eu, ek :
        /\ Of(b) = {eb, eu, ek}
        /\ eb.action = "business.created"
        /\ eu.action = "user.created" /\ eu.resource = Founders[b].owner /\ eu.business = b
        /\ ek.action = "api_key.created" /\ ek.resource = Founders[b].key /\ ek.business = b
        /\ ek.actor = Absent
  BY FoundingEntries
<1> HIDE DEF Of
<1>3. \A a, r : a \notin {"api_key.created", "user.created"} /\ a # "business.created" =>
        EntriesFor(a, r) = {}
  BY <1>1, <1>2 DEF EntriesFor
<1>4. ASSUME NEW k \in KeyId PROVE KeyIsExplained(k)
  <2>1. CASE /\ keys[k] = Absent
             /\ \A b \in Business : Founders[b] # Absent => Founders[b].key # k
    <3>1. EntriesFor("api_key.created", k) = {}
      BY <1>1, <1>2, <2>1 DEF EntriesFor
    <3>2. QED
      BY <1>3, <2>1, <3>1 DEF KeyIsExplained
  <2>2. ASSUME NEW b \in Business, Founders[b] # Absent, Founders[b].key = k,
               keys[k] = FoundingKey(b, Founders[b].owner)
        PROVE  KeyIsExplained(k)
    <3>1. PICK eb, eu, ek :
            /\ Of(b) = {eb, eu, ek}
            /\ eb.action = "business.created"
            /\ eu.action = "user.created"
            /\ ek.action = "api_key.created" /\ ek.resource = k /\ ek.business = b
            /\ ek.actor = Absent
      BY <1>2, <2>2
    <3>2. ek \in EntriesFor("api_key.created", k)
      BY <1>1, <2>2, <3>1 DEF EntriesFor
    <3>3. ASSUME NEW e \in EntriesFor("api_key.created", k)
          PROVE  e = ek
      <4>1. PICK c \in Business : Founders[c] # Absent /\ e \in Of(c)
        BY <1>1, <3>3 DEF EntriesFor
      <4>2. e.action = "api_key.created" /\ e.resource = k
        BY <3>3 DEF EntriesFor
      <4>3. Founders[c].key = k
        BY <1>2, <4>1, <4>2
      <4>4. c = b
        BY <2>2, <4>1, <4>3, GatewayAssumption
      <4>5. QED
        BY <3>1, <4>1, <4>2, <4>4
    <3>4. EntriesFor("api_key.created", k) = {ek}
      BY <3>2, <3>3
    <3>5. Founders[b].owner \in Email
      BY <2>2, GatewayAssumption
    <3>6. FoundingKey(b, Founders[b].owner) \in Key
      BY <3>5 DEF FoundingKey, Key
    <3>7. /\ keys[k].business = b /\ keys[k].createdBy \in Email /\ ~keys[k].revoked
          /\ keys[k] # Absent
      <4>1. keys[k] # Absent
        BY <2>2, <3>6, NamesAssumption
      <4>2. keys[k].business = b /\ keys[k].createdBy \in Email /\ ~keys[k].revoked
        BY <2>2, <3>5 DEF FoundingKey
      <4>3. QED
        BY <4>1, <4>2
    <3>8. EntriesFor("api_key.revoked", k) = {}
      BY <1>3
    <3>9. ek.business = keys[k].business /\ ek.actor = Absent
      BY <3>1, <3>7
    <3>10. QED
      BY <3>4, <3>7, <3>8, <3>9 DEF KeyIsExplained
  <2>3. QED
    BY <2>1, <2>2, FoundersKeys
<1>5. ASSUME NEW b \in Business, NEW m \in Email PROVE UserIsExplained(b, m)
  <2>1. [business |-> b, email |-> m] \in users <=>
          Founders[b] # Absent /\ Founders[b].owner = m
    BY DEF Init
  <2>2. PICK eb, eu, ek :
          /\ Of(b) = {eb, eu, ek}
          /\ eb.action = "business.created"
          /\ eu.action = "user.created" /\ eu.resource = Founders[b].owner /\ eu.business = b
          /\ ek.action = "api_key.created"
    BY <1>2
  <2>3. \A e \in UserEntries(b, m) : e = eu /\ Founders[b] # Absent /\ Founders[b].owner = m
    <3> SUFFICES ASSUME NEW e \in UserEntries(b, m)
                 PROVE  e = eu /\ Founders[b] # Absent /\ Founders[b].owner = m
      OBVIOUS
    <3>1. /\ e \in audit /\ e.action = "user.created" /\ e.resource = m /\ e.business = b
      BY DEF UserEntries, EntriesFor
    <3>2. PICK c \in Business : Founders[c] # Absent /\ e \in Of(c)
      BY <1>1, <3>1
    <3>3. c = b
      BY <1>2, <3>1, <3>2
    <3>4. QED
      BY <2>2, <3>1, <3>2, <3>3
  <2>4. Founders[b] # Absent /\ Founders[b].owner = m => eu \in UserEntries(b, m)
    BY <1>1, <2>2 DEF UserEntries, EntriesFor
  <2>5. QED
    BY <2>1, <2>3, <2>4 DEF UserIsExplained
<1>6. ASSUME NEW i \in IncidentId PROVE IncidentIsExplained(i)
  BY <1>3 DEF IncidentIsExplained, Init
<1>7. QED
  BY <1>4, <1>5, <1>6 DEF ExplainedInv

\* Each key, user and incident has the one entry of its creation, by the actor it
\* names, and one of its revocation or resolution iff there was one.
THEOREM AuditLogExplains == Spec => []AuditExplainsTables
<1>1. Inv /\ EntriesInv /\ ExplainedInv /\ [Next]_vars => ExplainedInv'
  BY ExplainedStep
<1>2. ExplainedInv => AuditExplainsTables
  <2> SUFFICES ASSUME ExplainedInv PROVE AuditExplainsTables
    OBVIOUS
  <2>1. Cardinality({}) = 0 /\ \A e : Cardinality({e}) = 1
    BY FS_EmptySet, FS_Singleton
  <2>2. \A k \in KeyId :
          LET created == EntriesFor("api_key.created", k)
              revoked == EntriesFor("api_key.revoked", k)
          IN  /\ Cardinality(created) = IF keys[k] = Absent THEN 0 ELSE 1
              /\ \A e \in created :
                   /\ e.business = keys[k].business
                   /\ e.actor = IF keys[k].createdBy \in Email THEN Absent
                                ELSE keys[k].createdBy
              /\ Cardinality(revoked) =
                   IF keys[k] = Absent THEN 0 ELSE IF keys[k].revoked THEN 1 ELSE 0
    BY <2>1 DEF ExplainedInv, KeyIsExplained
  <2>3. \A b \in Business, email \in Email :
          Cardinality({e \in EntriesFor("user.created", email) : e.business = b}) =
            IF [business |-> b, email |-> email] \in users THEN 1 ELSE 0
    BY <2>1 DEF ExplainedInv, UserIsExplained, UserEntries
  <2>4. ASSUME NEW i \in IncidentId
        PROVE  LET resolved == EntriesFor("incident.resolved", i)
               IN  /\ {e.actor : e \in EntriesFor("incident.created", i)} =
                        IF incidents[i] = Absent THEN {} ELSE {incidents[i].createdBy}
                   /\ Cardinality(resolved) <= 1
                   /\ {e.actor : e \in resolved} =
                        IF incidents[i] = Absent THEN {}
                        ELSE {incidents[i].resolvedBy} \ {Absent}
    <3>1. IncidentIsExplained(i)
      BY DEF ExplainedInv
    <3>2. CASE incidents[i] = Absent
      BY <2>1, <3>1, <3>2 DEF IncidentIsExplained
    <3>3. CASE incidents[i] # Absent
      <4>1. PICK e : /\ EntriesFor("incident.created", i) = {e}
                     /\ e.actor = incidents[i].createdBy
        BY <3>1, <3>3 DEF IncidentIsExplained
      <4>2. CASE incidents[i].resolvedBy = Absent
        <5>1. EntriesFor("incident.resolved", i) = {}
          BY <3>1, <3>3, <4>2 DEF IncidentIsExplained
        <5>2. QED
          BY <2>1, <3>3, <4>1, <4>2, <5>1
      <4>3. CASE incidents[i].resolvedBy # Absent
        <5>1. PICK r : /\ EntriesFor("incident.resolved", i) = {r}
                       /\ r.actor = incidents[i].resolvedBy
          BY <3>1, <3>3, <4>3 DEF IncidentIsExplained
        <5>2. {incidents[i].resolvedBy} \ {Absent} = {r.actor}
          BY <4>3, <5>1
        <5>3. {d.actor : d \in EntriesFor("incident.resolved", i)} = {r.actor}
          BY <5>1
        <5>4. {d.actor : d \in EntriesFor("incident.created", i)} = {incidents[i].createdBy}
          BY <4>1
        <5>5. Cardinality(EntriesFor("incident.resolved", i)) = 1
          BY <2>1, <5>1
        <5>6. QED
          BY <3>3, <5>2, <5>3, <5>4, <5>5
      <4>4. QED
        BY <4>2, <4>3
    <3>4. QED
      BY <3>2, <3>3
  <2>5. QED
    BY <2>2, <2>3, <2>4 DEF AuditExplainsTables
<1>3. QED
  BY GatewayInductive, EntriesInvariant, ExplainedInit, <1>1, <1>2, PTL DEF Spec

-------------------------------------------------------------------------------
(* The rate limiter *)

\* Requests an origin was charged with, all of them, in one window, and those of
\* the window that passed; and the others a refused request lost against.
CountedFor(o) == {x \in Exchange : Counted(x, o)}
InWindow(o, t) == {x \in CountedFor(o) : flight[x].window = t}
PassedIn(o, t) == {x \in CountedFor(o) : Passed(x) /\ flight[x].window = t}
Rivals(x) ==
  {y \in Exchange \ {x} :
     Counted(y, flight[x].origin) /\ flight[x].now < flight[y].countedAt + Minute}

\* Every limit is at least one; a request came no later than now, and what it was
\* measured against is a limit of its own.
PositivePolicies == \A b \in Business : policies[b] # Absent => policies[b] # 0

Measured(x) ==
  /\ flight[x].now <= clock
  /\ flight[x].limit # 0
  /\ flight[x].limit \in OwnLimits(x)
  /\ flight[x].status = "rate_limited" => flight[x].window # 0

\* The open window counts the requests that were charged to it, ends within a
\* minute of each and of now, and starts where no other is open.
WindowCounts(o) ==
  /\ IsFiniteSet(CountedFor(o))
  /\ Cardinality(InWindow(o, windows[o].resetAt)) = windows[o].count
  /\ windows[o].resetAt <= clock + Minute
  /\ \A x \in CountedFor(o) :
       /\ flight[x].window <= windows[o].resetAt
       /\ flight[x].window < windows[o].resetAt =>
            flight[x].window + Minute <= windows[o].resetAt
       /\ flight[x].window = windows[o].resetAt =>
            windows[o].resetAt <= flight[x].countedAt + Minute

WithinLimit(o, t) ==
  PassedIn(o, t) # {} =>
    \E y \in PassedIn(o, t) : Cardinality(PassedIn(o, t)) <= flight[y].limit

Spaced(o) ==
  \A x, y \in CountedFor(o) :
    flight[x].window < flight[y].window =>
      flight[x].window + Minute <= flight[y].window

Earned(x) == \E limit \in OwnLimits(x) \cap Nat : limit <= Cardinality(Rivals(x))

LimiterInv ==
  /\ PositivePolicies
  /\ \A x \in Exchange : flight[x] # Absent => Measured(x)
  /\ \A o \in Origin :
       /\ WindowCounts(o)
       /\ Spaced(o)
       /\ \A t \in Nat : WithinLimit(o, t)
  /\ \A x \in Exchange : flight[x] # Absent /\ ~Passed(x) => Earned(x)

\* A request's own limits are never taken back.
LEMMA OwnLimitsGrow ==
  ASSUME Inv, EntriesInv, TablesGrow, RequestsGoOn,
         NEW x \in Exchange, flight[x] # Absent, NEW limit \in OwnLimits(x)
  PROVE  limit \in OwnLimits(x)'
<1>1. KeyOf(x)' = KeyOf(x)
  BY DEF RequestsGoOn, GoesOn, KeyOf
<1>2. CASE limit = DefaultLimit
  BY <1>2 DEF OwnLimits
<1>3. CASE limit # DefaultLimit
  <2> PICK b : b = keys[KeyOf(x)].business
    OBVIOUS
  <2>1. /\ KeyOf(x) # Absent
        /\ \E e \in EntriesFor("security_policy.updated", b) :
             limit = flight[e.exchange].command.limit
    BY <1>3 DEF OwnLimits
  <2>2. PICK e \in EntriesFor("security_policy.updated", b) :
             limit = flight[e.exchange].command.limit
    BY <2>1
  <2>3. KeyOf(x) \in KeyId /\ keys[KeyOf(x)] # Absent
    BY <2>1, KeyOfType DEF Inv, CapturedIsTrue, CapturedBy
  <2>4. keys'[KeyOf(x)'].business = b
    BY <1>1, <2>3 DEF TablesGrow
  <2>5. e \in audit /\ e.action = "security_policy.updated" /\ e.resource = b
    BY <2>2 DEF EntriesFor
  <2>6. e.exchange \in Exchange /\ flight[e.exchange] # Absent
    BY <2>5 DEF EntriesInv, EntryIsRight
  <2>7. limit = flight'[e.exchange].command.limit
    BY <2>2, <2>6 DEF RequestsGoOn, GoesOn
  <2>8. e \in EntriesFor("security_policy.updated", b)'
    BY <2>5 DEF TablesGrow, EntriesFor
  <2>9. e \in (IF KeyOf(x) = Absent THEN {}
               ELSE EntriesFor("security_policy.updated", keys[KeyOf(x)].business))'
    BY <1>1, <2>1, <2>4, <2>8
  <2>10. QED
    BY <2>7, <2>9 DEF OwnLimits
<1>4. QED
  BY <1>2, <1>3

\* A refusal stays earned: its rivals stay counted when they were.
LEMMA EarnedStaysEarned ==
  ASSUME Inv, EntriesInv, TablesGrow, RequestsGoOn,
         NEW x \in Exchange, flight[x] # Absent, Earned(x),
         IsFiniteSet(CountedFor(flight[x].origin)')
  PROVE  Earned(x)'
<1>1. PICK limit \in OwnLimits(x) \cap Nat : limit <= Cardinality(Rivals(x))
  BY DEF Earned
<1>2. limit \in OwnLimits(x)'
  BY OwnLimitsGrow
<1>3. flight'[x].origin = flight[x].origin /\ flight'[x].now = flight[x].now
  BY DEF RequestsGoOn, GoesOn
<1>4. Rivals(x) \subseteq Rivals(x)'
  BY <1>3 DEF Rivals, Counted, RequestsGoOn, GoesOn
<1>5. Rivals(x)' \subseteq CountedFor(flight[x].origin)'
  BY <1>3 DEF Rivals, CountedFor
<1>6. IsFiniteSet(Rivals(x)')
  BY <1>5, FS_Subset
<1>7. /\ IsFiniteSet(Rivals(x))
      /\ Cardinality(Rivals(x)) <= Cardinality(Rivals(x)')
  BY <1>4, <1>6, FS_Subset
<1>8. Cardinality(Rivals(x)) \in Nat /\ Cardinality(Rivals(x)') \in Nat
  BY <1>6, <1>7, FS_CardinalityType
<1>9. QED
  BY <1>1, <1>2, <1>7, <1>8 DEF Earned

\* A step that charges nobody: the others go on, time may pass.
ChargesNobody ==
  /\ UNCHANGED windows
  /\ \A x \in Exchange :
       flight'[x] # Absent /\ flight'[x].window # 0 =>
         flight[x] # Absent /\ flight[x].window # 0

\* It leaves every window as it counts.
LEMMA WindowsUndisturbed ==
  ASSUME Inv, RequestsGoOn, ChargesNobody, clock <= clock', Inv',
         NEW o \in Origin, WindowCounts(o), Spaced(o), \A t \in Nat : WithinLimit(o, t)
  PROVE  (WindowCounts(o) /\ Spaced(o) /\ \A t \in Nat : WithinLimit(o, t))'
<1>1. \A x \in Exchange : Counted(x, o)' <=> Counted(x, o)
  BY DEF Counted, ChargesNobody, RequestsGoOn, GoesOn
<1>2. CountedFor(o)' = CountedFor(o)
  BY <1>1 DEF CountedFor
<1>3. \A x \in CountedFor(o) :
        /\ flight'[x].window = flight[x].window
        /\ flight'[x].countedAt = flight[x].countedAt
        /\ flight'[x].limit = flight[x].limit
        /\ Passed(x)' <=> Passed(x)
  BY DEF CountedFor, Counted, RequestsGoOn, GoesOn, Passed
<1>4. \A t : InWindow(o, t)' = InWindow(o, t)
  BY <1>2, <1>3 DEF InWindow
<1>5. \A t : PassedIn(o, t)' = PassedIn(o, t)
  BY <1>2, <1>3 DEF PassedIn
<1>6. WindowCounts(o)'
  <2>1. windows'[o] = windows[o]
    BY DEF ChargesNobody
  <2>2. windows[o].resetAt \in Nat /\ clock \in Nat /\ clock' \in Nat
    BY DEF Inv, TypeOK, Window
  <2>3. windows'[o].resetAt <= clock' + Minute
    BY <2>1, <2>2, GatewayAssumption DEF WindowCounts
  <2>4. Cardinality(InWindow(o, windows[o].resetAt))' = windows'[o].count
    BY <1>4, <2>1 DEF WindowCounts
  <2>5. QED
    BY <1>2, <1>3, <2>1, <2>3, <2>4 DEF WindowCounts
<1>7. Spaced(o)'
  BY <1>2, <1>3 DEF Spaced
<1>8. ASSUME NEW t \in Nat PROVE WithinLimit(o, t)'
  <2>1. WithinLimit(o, t)
    OBVIOUS
  <2>2. \A x \in PassedIn(o, t) : flight'[x].limit = flight[x].limit
    BY <1>3 DEF PassedIn
  <2>3. QED
    BY <1>5, <2>1, <2>2 DEF WithinLimit
<1>9. QED
  BY <1>6, <1>7, <1>8

\* What counting a request does: it is charged to the open window, or opens one.
LEMMA CountCharges ==
  ASSUME Inv, NEW x \in Exchange, Count(x)
  PROVE  \E o \in Origin, t \in Nat, n \in Nat \ {0} :
           /\ flight[x] # Absent /\ flight[x].window = 0
           /\ o = flight[x].origin
           /\ \/ /\ t = windows[o].resetAt /\ n = windows[o].count + 1
                 /\ flight[x].now < t
              \/ /\ t = flight[x].now + Minute /\ n = 1
                 /\ windows[o].resetAt <= flight[x].now
           /\ t # 0
           /\ windows'[o].resetAt = t /\ windows'[o].count = n
           /\ \A p \in Origin : p # o => windows'[p] = windows[p]
           /\ clock' = clock
           /\ \A y \in Exchange : y # x => flight'[y] = flight[y]
           /\ flight'[x] # Absent
           /\ flight'[x].origin = o /\ flight'[x].now = flight[x].now
           /\ flight'[x].window = t /\ flight'[x].countedAt = clock
           /\ flight'[x].limit = flight[x].limit
           /\ Passed(x)' <=> n <= flight[x].limit
<1> DEFINE o == flight[x].origin
           old == windows[o]
           w == CurrentWindow(old, flight[x].now)
           new == [w EXCEPT !.count = @ + 1]
<1>1. /\ At(x, "measured") /\ Admit(x, new)
      /\ windows' = [windows EXCEPT ![o] = new]
      /\ UNCHANGED <<clock, tables, accessLog>>
  BY DEF Count
<1>2. /\ flight[x] # Absent /\ flight[x] \in InFlight /\ o \in Origin
      /\ old \in Window /\ flight[x].now \in Nat /\ flight[x].limit \in Nat
      /\ flight[x].window = 0
  BY <1>1, KeyOfType DEF At, Inv, TypeOK, InFlight, CapturedIsTrue, CapturedBy
<1>3. \/ w = old /\ old.resetAt # 0 /\ flight[x].now < old.resetAt
      \/ /\ w = [count |-> 0, resetAt |-> flight[x].now + Minute]
         /\ old.resetAt <= flight[x].now
  BY <1>2 DEF CurrentWindow, Window
<1>4. w \in Window
  BY <1>2, <1>3, GatewayAssumption DEF Window
<1>5. new \in Window /\ new.count = w.count + 1 /\ new.resetAt = w.resetAt
  BY <1>4 DEF Window
<1>6. windows'[o] = new /\ \A p \in Origin : p # o => windows'[p] = windows[p]
  BY <1>1, <1>2 DEF Inv, TypeOK
<1> HIDE DEF new
<1>7. PICK stage, status :
        /\ flight' = [flight EXCEPT ![x] =
             [flight[x] EXCEPT !.stage = stage, !.status = status,
                !.window = new.resetAt, !.countedAt = clock]]
        /\ status = IF new.count > flight[x].limit THEN "rate_limited" ELSE "none"
  BY ZenonT(60), <1>1 DEF Admit
<1>8. /\ \A y \in Exchange : y # x => flight'[y] = flight[y]
      /\ flight'[x] = [flight[x] EXCEPT !.stage = stage, !.status = status,
                         !.window = new.resetAt, !.countedAt = clock]
  BY <1>7 DEF Inv, TypeOK
<1>9. /\ flight'[x].origin = o /\ flight'[x].now = flight[x].now
      /\ flight'[x].window = new.resetAt /\ flight'[x].countedAt = clock
      /\ flight'[x].limit = flight[x].limit
      /\ flight'[x].status = status
  BY <1>2, <1>8 DEF InFlight
<1>10. flight'[x] # Absent
  BY PassageType, NamesAssumption DEF Passage
<1>11. Passed(x)' <=> new.count <= flight[x].limit
  BY <1>2, <1>5, <1>7, <1>9 DEF Passed, Window
<1> PICK p \in Origin, t \in Nat, n \in Nat : p = o /\ t = new.resetAt /\ n = new.count
  BY <1>2, <1>5 DEF Window
<1>12. /\ \/ /\ t = windows[p].resetAt /\ n = windows[p].count + 1
             /\ flight[x].now < t
          \/ /\ t = flight[x].now + Minute /\ n = 1
             /\ windows[p].resetAt <= flight[x].now
       /\ t # 0 /\ n # 0
  BY <1>2, <1>3, <1>5, GatewayAssumption DEF Window
<1>13. QED
  BY <1>1, <1>2, <1>6, <1>8, <1>9, <1>10, <1>11, <1>12

\* The windows of its origin count one more, and no other origin's does.
LEMMA CountKeepsWindows ==
  ASSUME Inv, Inv', LimiterInv, NEW x \in Exchange, Count(x), NEW p \in Origin
  PROVE  (WindowCounts(p) /\ Spaced(p) /\ \A t \in Nat : WithinLimit(p, t))'
<1>1. PICK o \in Origin, t \in Nat, n \in Nat \ {0} :
         /\ flight[x] # Absent /\ flight[x].window = 0
         /\ o = flight[x].origin
         /\ \/ /\ t = windows[o].resetAt /\ n = windows[o].count + 1
               /\ flight[x].now < t
            \/ /\ t = flight[x].now + Minute /\ n = 1
               /\ windows[o].resetAt <= flight[x].now
         /\ t # 0
         /\ windows'[o].resetAt = t /\ windows'[o].count = n
         /\ \A q \in Origin : q # o => windows'[q] = windows[q]
         /\ clock' = clock
         /\ \A y \in Exchange : y # x => flight'[y] = flight[y]
         /\ flight'[x] # Absent
         /\ flight'[x].origin = o /\ flight'[x].now = flight[x].now
         /\ flight'[x].window = t /\ flight'[x].countedAt = clock
         /\ flight'[x].limit = flight[x].limit
         /\ Passed(x)' <=> n <= flight[x].limit
  BY CountCharges
<1>2. /\ WindowCounts(p) /\ Spaced(p) /\ \A s \in Nat : WithinLimit(p, s)
      /\ Measured(x)
  BY <1>1 DEF LimiterInv
<1>3. x \notin CountedFor(p)
  BY <1>1 DEF CountedFor, Counted
<1>4. \A y \in CountedFor(p) : y # x /\ flight'[y] = flight[y] /\ y \in Exchange
  BY <1>1, <1>3 DEF CountedFor
<1>5. CASE p # o
  <2>1. CountedFor(p)' = CountedFor(p)
    BY <1>1, <1>5 DEF CountedFor, Counted
  <2>2. \A s : InWindow(p, s)' = InWindow(p, s) /\ PassedIn(p, s)' = PassedIn(p, s)
    BY <1>4, <2>1 DEF InWindow, PassedIn, Passed
  <2>3. windows'[p] = windows[p] /\ clock' = clock
    BY <1>1, <1>5
  <2>4. WindowCounts(p)'
    BY <1>2, <1>4, <2>1, <2>2, <2>3 DEF WindowCounts
  <2>5. Spaced(p)'
    BY <1>2, <1>4, <2>1 DEF Spaced
  <2>6. \A s \in Nat : WithinLimit(p, s)'
    <3>1. \A s : \A y \in PassedIn(p, s) : flight'[y] = flight[y]
      BY <1>4 DEF PassedIn
    <3>2. QED
      BY <1>2, <2>2, <3>1 DEF WithinLimit
  <2>7. QED
    BY <2>4, <2>5, <2>6
<1>6. CASE p = o
  <2> DEFINE old == windows[p].resetAt
  <2>1. CountedFor(p)' = CountedFor(p) \cup {x}
    BY <1>1, <1>4, <1>6 DEF CountedFor, Counted
  <2>2. /\ old \in Nat /\ windows[p].count \in Nat /\ clock \in Nat
        /\ flight[x].now \in Nat /\ flight[x].limit \in Nat
        /\ flight[x].now <= clock /\ Minute \in Nat \ {0}
    BY <1>1, <1>2, KeyOfType, GatewayAssumption
       DEF Inv, TypeOK, Window, InFlight, Measured
  <2>3. \A y \in CountedFor(p) :
          /\ flight[y].window \in Nat /\ flight[y].countedAt \in Nat
          /\ flight[y].limit \in Nat
          /\ flight[y].window <= old
          /\ flight[y].window < old => flight[y].window + Minute <= old
          /\ flight[y].window = old => old <= flight[y].countedAt + Minute
    BY <1>2, KeyOfType DEF WindowCounts, CountedFor, Counted, Inv, InFlight
  <2>4. t = old \/ old + Minute <= t
    BY <1>1, <1>6, <2>2
  <2>5. t <= clock + Minute
    BY <1>1, <1>2, <1>6, <2>2 DEF WindowCounts
  <2>6. IsFiniteSet(CountedFor(p)) /\ IsFiniteSet(CountedFor(p)')
    BY <1>2, <2>1, FS_AddElement DEF WindowCounts
  <2>7. InWindow(p, t)' = InWindow(p, t) \cup {x}
    BY <1>1, <1>4, <2>1 DEF InWindow
  <2>8. /\ InWindow(p, t) \subseteq CountedFor(p) /\ x \notin InWindow(p, t)
        /\ IsFiniteSet(InWindow(p, t))
    BY <1>3, <2>6, FS_Subset DEF InWindow
  <2>9. Cardinality(InWindow(p, t)) = n - 1
    <3>1. CASE t = old /\ n = windows[p].count + 1
      BY <1>2, <2>2, <3>1 DEF WindowCounts
    <3>2. CASE old + Minute <= t /\ n = 1
      <4>1. InWindow(p, t) = {}
        BY <2>2, <2>3, <3>2 DEF InWindow
      <4>2. QED
        BY <3>2, <4>1, FS_EmptySet
    <3>3. QED
      BY <1>1, <1>6, <2>2, <3>1, <3>2
  <2>10. Cardinality(InWindow(p, t)') = n
    <3>1. Cardinality(InWindow(p, t) \cup {x}) = Cardinality(InWindow(p, t)) + 1
      BY <2>8, FS_AddElement
    <3>2. QED
      BY <2>7, <2>9, <3>1
  <2>11. WindowCounts(p)'
    <3>1. ASSUME NEW y \in CountedFor(p)'
          PROVE  /\ flight'[y].window <= t
                 /\ flight'[y].window < t => flight'[y].window + Minute <= t
                 /\ flight'[y].window = t => t <= flight'[y].countedAt + Minute
      <4>1. CASE y = x
        BY <1>1, <2>2, <2>5, <4>1
      <4>2. CASE y \in CountedFor(p)
        <5>1. flight'[y] = flight[y]
          BY <1>4, <4>2
        <5>2. QED
          BY <2>2, <2>3, <2>4, <4>2, <5>1
      <4>3. QED
        BY <2>1, <4>1, <4>2
    <3>2. windows'[p].resetAt = t /\ windows'[p].count = n /\ clock' = clock
      BY <1>1, <1>6
    <3>3. QED
      BY <2>5, <2>6, <2>10, <3>1, <3>2 DEF WindowCounts
  <2>12. Spaced(p)'
    <3>1. ASSUME NEW y \in CountedFor(p)', NEW z \in CountedFor(p)',
                 flight'[y].window < flight'[z].window
          PROVE  flight'[y].window + Minute <= flight'[z].window
      <4>1. CASE y = x
        <5>1. z # x /\ z \in CountedFor(p) /\ flight'[z] = flight[z]
          BY <1>1, <1>4, <2>1, <3>1, <4>1
        <5>2. flight[z].window <= old /\ flight[z].window \in Nat
          BY <2>3, <5>1
        <5>3. QED
          BY <1>1, <2>2, <2>4, <3>1, <4>1, <5>1, <5>2
      <4>2. CASE y # x /\ z = x
        <5>1. y \in CountedFor(p) /\ flight'[y] = flight[y]
          BY <1>4, <2>1, <4>2
        <5>2. QED
          BY <1>1, <2>2, <2>3, <2>4, <3>1, <4>2, <5>1
      <4>3. CASE y # x /\ z # x
        BY <1>2, <1>4, <2>1, <3>1, <4>3 DEF Spaced
      <4>4. QED
        BY <4>1, <4>2, <4>3
    <3>2. QED
      BY <3>1 DEF Spaced
  <2>13. ASSUME NEW s \in Nat PROVE WithinLimit(p, s)'
    <3>1. CASE s = t /\ n <= flight[x].limit
      <4>1. x \in PassedIn(p, t)'
        BY <1>1, <2>1, <3>1 DEF PassedIn
      <4>2. PassedIn(p, t)' \subseteq InWindow(p, t)'
        BY DEF PassedIn, InWindow
      <4>3. IsFiniteSet(InWindow(p, t)')
        BY <2>7, <2>8, FS_AddElement
      <4>4. /\ IsFiniteSet(PassedIn(p, t)')
            /\ Cardinality(PassedIn(p, t)') <= Cardinality(InWindow(p, t)')
        BY <4>2, <4>3, FS_Subset
      <4>5. Cardinality(PassedIn(p, t)') \in Nat
        BY <4>4, FS_CardinalityType
      <4>6. Cardinality(PassedIn(p, t)') <= flight'[x].limit
        BY <1>1, <2>2, <2>10, <3>1, <4>4, <4>5
      <4>7. QED
        BY <3>1, <4>1, <4>6 DEF WithinLimit
    <3>2. CASE ~(s = t /\ n <= flight[x].limit)
      <4>1. PassedIn(p, s)' = PassedIn(p, s)
        BY <1>1, <1>3, <1>4, <2>1, <3>2 DEF PassedIn, Passed
      <4>2. \A y \in PassedIn(p, s) : flight'[y] = flight[y]
        BY <1>4 DEF PassedIn
      <4>3. QED
        BY <1>2, <4>1, <4>2 DEF WithinLimit
    <3>3. QED
      BY <3>1, <3>2
  <2>14. QED
    BY <2>11, <2>12, <2>13
<1>7. QED
  BY <1>5, <1>6

\* A request that is refused when it is counted lost against as many others as
\* its limit allows, each counted within a minute before the window ended.
LEMMA RefusalIsEarned ==
  ASSUME Inv, Inv', EntriesInv, LimiterInv, TablesGrow, RequestsGoOn,
         NEW x \in Exchange, Count(x), ~Passed(x)'
  PROVE  Earned(x)'
<1>1. PICK o \in Origin, t \in Nat, n \in Nat \ {0} :
         /\ flight[x] # Absent /\ flight[x].window = 0
         /\ o = flight[x].origin
         /\ \/ /\ t = windows[o].resetAt /\ n = windows[o].count + 1
               /\ flight[x].now < t
            \/ /\ t = flight[x].now + Minute /\ n = 1
               /\ windows[o].resetAt <= flight[x].now
         /\ \A y \in Exchange : y # x => flight'[y] = flight[y]
         /\ flight'[x] # Absent
         /\ flight'[x].origin = o /\ flight'[x].now = flight[x].now
         /\ Passed(x)' <=> n <= flight[x].limit
  BY CountCharges
<1>2. /\ flight[x].limit \in Nat /\ flight[x].limit # 0
      /\ flight[x].limit \in OwnLimits(x) /\ flight[x].now \in Nat
      /\ windows[o].count \in Nat
  BY <1>1, KeyOfType DEF LimiterInv, Measured, Inv, TypeOK, InFlight, Window
<1>3. flight[x].limit <= windows[o].count /\ flight[x].now < windows[o].resetAt
  BY <1>1, <1>2
<1>4. WindowCounts(o)
  BY DEF LimiterInv
<1>5. InWindow(o, windows[o].resetAt) \subseteq Rivals(x)'
  <2>1. ASSUME NEW y \in InWindow(o, windows[o].resetAt)
        PROVE  y \in Rivals(x)'
    <3>1. /\ y \in Exchange /\ Counted(y, o) /\ y \in CountedFor(o)
          /\ flight[y].window = windows[o].resetAt
      BY DEF InWindow, CountedFor
    <3>2. y # x /\ flight'[y] = flight[y]
      BY <1>1, <3>1 DEF Counted
    <3>3. windows[o].resetAt <= flight[y].countedAt + Minute
      BY <1>4, <3>1 DEF WindowCounts
    <3>4. windows[o].resetAt \in Nat /\ flight[y].countedAt \in Nat
      BY <3>1, KeyOfType DEF Counted, Inv, TypeOK, Window, InFlight
    <3>5. flight[x].now < flight[y].countedAt + Minute
      BY <1>2, <1>3, <3>3, <3>4, GatewayAssumption
    <3>6. Counted(y, o)'
      BY <3>1, <3>2 DEF Counted
    <3>7. QED
      BY <1>1, <3>1, <3>2, <3>5, <3>6 DEF Rivals
  <2>2. QED
    BY <2>1
<1>6. IsFiniteSet(Rivals(x)')
  <2>1. IsFiniteSet(CountedFor(o)')
    BY CountKeepsWindows DEF WindowCounts
  <2>2. Rivals(x)' \subseteq CountedFor(o)'
    BY <1>1 DEF Rivals, CountedFor
  <2>3. QED
    BY <2>1, <2>2, FS_Subset
<1>7. /\ Cardinality(InWindow(o, windows[o].resetAt)) <= Cardinality(Rivals(x)')
      /\ Cardinality(Rivals(x)') \in Nat
  BY <1>5, <1>6, FS_Subset, FS_CardinalityType
<1>8. flight[x].limit <= Cardinality(Rivals(x)')
  BY <1>2, <1>3, <1>4, <1>7 DEF WindowCounts
<1>9. flight[x].limit \in OwnLimits(x)'
  BY <1>1, <1>2, OwnLimitsGrow
<1>10. QED
  BY <1>2, <1>8, <1>9 DEF Earned

\* What a request was measured against is a limit of its own, which is positive.
LEMMA MeasuredStep ==
  ASSUME Inv, Inv', EntriesInv, LimiterInv, TablesGrow, RequestsGoOn, clock <= clock',
         [Next]_vars, NEW x \in Exchange, flight'[x] # Absent
  PROVE  Measured(x)'
<1>1. clock \in Nat /\ clock' \in Nat
  BY DEF Inv, TypeOK
<1>2. ASSUME flight[x] # Absent, flight'[x].limit = flight[x].limit,
             flight'[x].status = "rate_limited" => flight'[x].window # 0
      PROVE  Measured(x)'
  <2>1. Measured(x)
    BY <1>2 DEF LimiterInv
  <2>2. flight'[x].now = flight[x].now /\ flight[x].now \in Nat
    BY <1>2, KeyOfType DEF RequestsGoOn, GoesOn, Inv, InFlight
  <2>3. flight[x].limit \in OwnLimits(x)'
    BY <1>2, <2>1, OwnLimitsGrow DEF Measured
  <2>4. QED
    BY <1>1, <1>2, <2>1, <2>2, <2>3 DEF Measured
<1>3. CASE flight'[x] = flight[x]
  BY <1>2, <1>3 DEF LimiterInv, Measured
<1>4. ASSUME NEW origin \in Origin, NEW command, Arrive(x, origin, command)
      PROVE  Measured(x)'
  <2>1. /\ flight'[x].now = clock /\ flight'[x].limit = DefaultLimit
        /\ flight'[x].status = "none" /\ clock' = clock
    BY <1>4 DEF Arrive, Inv, TypeOK
  <2>2. DefaultLimit \in OwnLimits(x)'
    BY DEF OwnLimits
  <2>3. QED
    BY <1>1, <2>1, <2>2, GatewayAssumption DEF Measured
<1>5. CASE ReadLimit(x)
  <2>1. /\ flight[x] # Absent /\ flight[x] \in InFlight /\ flight[x].stage = "identified"
        /\ UNCHANGED <<clock, tables>>
    BY <1>5, KeyOfType DEF ReadLimit, At, Inv
  <2> PICK b, limit :
        b = flight[x].business /\ limit = IF b = Absent THEN DefaultLimit ELSE policies[b]
    OBVIOUS
  <2>2. flight'[x] = [flight[x] EXCEPT !.stage = "measured", !.limit = limit]
    BY <1>5 DEF ReadLimit, Inv, TypeOK
  <2>3. /\ flight'[x].limit = limit /\ flight'[x].now = flight[x].now
        /\ flight'[x].status = flight[x].status /\ flight'[x].window = flight[x].window
        /\ flight'[x].origin = flight[x].origin
    BY <2>1, <2>2 DEF InFlight
  <2>4. Measured(x) /\ CapturedBy(x) /\ PositivePolicies
    BY <2>1 DEF LimiterInv, Inv, CapturedIsTrue
  <2>5. /\ flight'[x].now <= clock'
        /\ flight'[x].status = "rate_limited" => flight'[x].window # 0
    BY <2>1, <2>3, <2>4 DEF Measured
  <2>6. KeyOf(x)' = KeyOf(x)
    BY <2>3 DEF KeyOf
  <2>7. CASE limit = DefaultLimit
    <3>1. DefaultLimit \in OwnLimits(x)'
      BY DEF OwnLimits
    <3>2. QED
      BY <2>3, <2>5, <2>7, <3>1, GatewayAssumption DEF Measured
  <2>8. CASE limit # DefaultLimit
    <3>1. b # Absent /\ limit = policies[b]
      BY <2>8
    <3>2. /\ KeyOf(x) # Absent /\ keys[KeyOf(x)] # Absent
          /\ b = keys[KeyOf(x)].business /\ KeyOf(x) \in KeyId /\ b \in Business
      BY <2>1, <2>4, <3>1, KeyOfType DEF CapturedBy, Inv, InFlight
    <3>3. policies[b] # Absent
      BY <3>2 DEF Inv, KeysHavePolicies
    <3>4. limit # 0
      BY <2>4, <3>1, <3>2, <3>3 DEF PositivePolicies
    <3>5. PICK e \in EntriesFor("security_policy.updated", b) :
                 flight[e.exchange].command.limit = limit
      BY <2>8, <3>1, <3>2, <3>3 DEF EntriesInv, PolicyIsExplained
    <3>6. limit \in OwnLimits(x)
      BY <3>2, <3>5 DEF OwnLimits
    <3>7. limit \in OwnLimits(x)'
      BY <2>1, <3>6, OwnLimitsGrow
    <3>8. QED
      BY <2>3, <2>5, <3>4, <3>7 DEF Measured
  <2>9. QED
    BY <2>7, <2>8
<1>6. CASE Count(x)
  <2>1. PICK t \in Nat \ {0} :
          /\ flight[x] # Absent /\ flight'[x].window = t
          /\ flight'[x].limit = flight[x].limit
    BY <1>6, CountCharges
  <2>2. QED
    BY <1>2, <2>1
<1>7. ASSUME flight[x] # Absent,
             \/ \E stage : flight' = [flight EXCEPT ![x].stage = stage]
             \/ \E business :
                  flight' = [flight EXCEPT ![x].stage = "identified", ![x].business = business]
             \/ \E status \in Status \ {"rate_limited"} : Answer(x, status)
      PROVE  Measured(x)'
  <2>1. flight[x] \in InFlight
    BY <1>7, KeyOfType DEF Inv
  <2>2. PICK stage, business, status :
          /\ status = flight[x].status \/ status # "rate_limited"
          /\ flight'[x] = [flight[x] EXCEPT !.stage = stage, !.business = business,
                             !.status = status]
    <3>1. CASE \E stage : flight' = [flight EXCEPT ![x].stage = stage]
      <4>1. PICK stage : flight' = [flight EXCEPT ![x].stage = stage]
        BY <3>1
      <4>2. flight'[x] = [flight[x] EXCEPT !.stage = stage,
                            !.business = flight[x].business, !.status = flight[x].status]
        BY <2>1, <4>1 DEF Inv, TypeOK, InFlight
      <4>3. QED
        BY <4>2
    <3>2. CASE \E business :
                 flight' = [flight EXCEPT ![x].stage = "identified", ![x].business = business]
      <4>1. PICK business :
               flight' = [flight EXCEPT ![x].stage = "identified", ![x].business = business]
        BY <3>2
      <4>2. flight'[x] = [flight[x] EXCEPT !.stage = "identified",
                            !.business = business, !.status = flight[x].status]
        BY <2>1, <4>1 DEF Inv, TypeOK, InFlight
      <4>3. QED
        BY <4>2
    <3>3. CASE \E status \in Status \ {"rate_limited"} : Answer(x, status)
      <4>1. PICK status \in Status \ {"rate_limited"} : Answer(x, status)
        BY <3>3
      <4>2. flight'[x] = [flight[x] EXCEPT !.stage = "answered",
                            !.business = flight[x].business, !.status = status]
        BY <2>1, <4>1 DEF Answer, Inv, TypeOK, InFlight
      <4>3. QED
        BY <4>1, <4>2
    <3>4. QED
      BY <1>7, <3>1, <3>2, <3>3
  <2>3. /\ flight'[x].limit = flight[x].limit /\ flight'[x].window = flight[x].window
        /\ flight'[x].status = status
    BY <2>1, <2>2 DEF InFlight
  <2>4. Measured(x)
    BY <1>7 DEF LimiterInv
  <2>5. QED
    BY <1>2, <1>7, <2>2, <2>3, <2>4 DEF Measured
<1>8. CASE Identify(x)
  <2>1. flight[x] # Absent
    BY <1>8 DEF Identify, At
  <2>2. PICK business :
          flight' = [flight EXCEPT ![x].stage = "identified", ![x].business = business]
    BY <1>8 DEF Identify
  <2>3. QED
    BY <1>7, <2>1, <2>2
<1>9. CASE Authenticate(x) \/ RecordAccess(x) \/ Handle(x)
  <2>1. flight[x] # Absent
    BY <1>9, HandlersHandle DEF Authenticate, RecordAccess, Handled, At
  <2>2. \/ \E stage : flight' = [flight EXCEPT ![x].stage = stage]
        \/ \E status \in Status \ {"rate_limited"} : Answer(x, status)
    BY <1>9, HandlersHandle DEF Authenticate, RecordAccess, Handled, Status
  <2>3. QED
    BY <1>7, <2>1, <2>2
<1>10. ASSUME NEW y \in Exchange, y # x, Passage(y) \/ Handle(y)
       PROVE  Measured(x)'
  <2>1. flight'[x] = flight[x]
    BY <1>10, PassageLeavesTheRest, HandlersHandle DEF Handled, Answer, Inv, TypeOK
  <2>2. QED
    BY <1>3, <2>1
<1>11. CASE Tick \/ UNCHANGED vars
  BY <1>3, <1>11 DEF Tick, vars
<1>12. QED
  BY <1>4, <1>5, <1>6, <1>8, <1>9, <1>10, <1>11 DEF Next, Passage

\* Policies stay positive.
LEMMA PoliciesStayPositive ==
  ASSUME Inv, LimiterInv, [Next]_vars
  PROVE  PositivePolicies'
<1>1. CASE UNCHANGED policies
  BY <1>1 DEF LimiterInv, PositivePolicies
<1>2. ASSUME NEW x \in Exchange, NEW b \in Business, NEW k \in KeyId,
             CreateBusiness(x, b, k)
      PROVE  PositivePolicies'
  BY <1>2, GatewayAssumption DEF CreateBusiness, LimiterInv, PositivePolicies, Inv, TypeOK
<1>3. ASSUME NEW x \in Exchange, UpdateSecurityPolicy(x)
      PROVE  PositivePolicies'
  <2>1. At(x, "authenticated") /\ flight[x].command.op = "UpdateSecurityPolicy"
    BY <1>3 DEF UpdateSecurityPolicy, Handles
  <2>2. flight[x].command.limit \in Nat \ {0}
    BY <2>1, KeyOfType, CommandFields DEF At, Inv, InFlight
  <2>3. QED
    BY <1>3, <2>2 DEF UpdateSecurityPolicy, LimiterInv, PositivePolicies, Inv, TypeOK
<1>4. ASSUME NEW x \in Exchange, Handle(x)
      PROVE  PositivePolicies'
  BY <1>1, <1>2, <1>3, <1>4
     DEF Handle, CreateAPIKey, RevokeAPIKey, ListUsers, CreateUser, CreateIncident,
         ResolveIncident, tables
<1>5. CASE Tick \/ UNCHANGED vars \/ \E x \in Exchange : Passage(x)
  BY <1>1, <1>5, PassageLeavesTheRest DEF Tick, vars, tables
<1>6. QED
  BY <1>4, <1>5 DEF Next, Passage

\* A step other than a count charges nobody.
LEMMA OthersChargeNobody ==
  ASSUME Inv, Inv', RequestsGoOn, [Next]_vars, \A x \in Exchange : ~Count(x)
  PROVE  ChargesNobody
<1>1. CASE Tick \/ UNCHANGED vars
  BY <1>1 DEF Tick, vars, ChargesNobody
<1>2. ASSUME NEW x \in Exchange, Passage(x) \/ Handle(x)
      PROVE  ChargesNobody
  <2>1. \A y \in Exchange : y # x => flight'[y] = flight[y]
    BY <1>2, PassageLeavesTheRest, HandlersHandle DEF Handled, Answer, Inv, TypeOK
  <2>2. UNCHANGED windows
    BY <1>2, HandlersHandle
       DEF Passage, Arrive, Identify, ReadLimit, Authenticate, RecordAccess, Handled
  <2>3. CASE flight[x] = Absent
    <3>1. PICK origin \in Origin, command \in {sent[2] : sent \in Traffic} :
                 Arrive(x, origin, command)
      BY <1>2, <2>3, HandlersHandle
         DEF Passage, Identify, ReadLimit, Authenticate, RecordAccess, At, Handled
    <3>2. flight'[x].window = 0
      BY <3>1 DEF Arrive, Inv, TypeOK
    <3>3. QED
      BY <2>1, <2>2, <3>2 DEF ChargesNobody
  <2>4. CASE flight[x] # Absent
    <3>1. flight'[x].window = flight[x].window
      <4>1. flight[x] \in InFlight
        BY <2>4, KeyOfType DEF Inv
      <4>2. CASE ReadLimit(x) \/ Identify(x)
        <5>1. PICK stage, business, limit :
                flight'[x] = [flight[x] EXCEPT !.stage = stage, !.business = business,
                                !.limit = limit]
          <6>1. CASE ReadLimit(x)
            <7>1. PICK limit : flight'[x] = [flight[x] EXCEPT !.stage = "measured",
                                               !.limit = limit]
              BY <6>1 DEF ReadLimit, Inv, TypeOK
            <7>2. flight'[x] = [flight[x] EXCEPT !.stage = "measured",
                                  !.business = flight[x].business, !.limit = limit]
              BY <4>1, <7>1 DEF InFlight
            <7>3. QED
              BY <7>2
          <6>2. CASE Identify(x)
            <7>1. PICK business : flight'[x] = [flight[x] EXCEPT !.stage = "identified",
                                                  !.business = business]
              BY <6>2 DEF Identify, Inv, TypeOK
            <7>2. flight'[x] = [flight[x] EXCEPT !.stage = "identified",
                                  !.business = business, !.limit = flight[x].limit]
              BY <4>1, <7>1 DEF InFlight
            <7>3. QED
              BY <7>2
          <6>3. QED
            BY <4>2, <6>1, <6>2
        <5>2. QED
          BY <4>1, <5>1 DEF InFlight
      <4>3. CASE Authenticate(x) \/ RecordAccess(x) \/ Handle(x)
        <5>1. \/ \E stage : flight' = [flight EXCEPT ![x].stage = stage]
              \/ \E status : Answer(x, status)
          BY <4>3, HandlersHandle DEF Authenticate, RecordAccess, Handled
        <5>2. CASE \E stage : flight' = [flight EXCEPT ![x].stage = stage]
          BY <4>1, <5>2 DEF Inv, TypeOK, InFlight
        <5>3. CASE \E status : Answer(x, status)
          BY <4>1, <5>3 DEF Answer, Inv, TypeOK, InFlight
        <5>4. QED
          BY <5>1, <5>2, <5>3
      <4>4. QED
        BY <1>2, <2>4, <4>2, <4>3 DEF Passage, Arrive
    <3>2. QED
      BY <2>1, <2>2, <2>4, <3>1 DEF ChargesNobody
  <2>5. QED
    BY <2>3, <2>4
<1>3. QED
  BY <1>1, <1>2 DEF Next, Passage

\* Every step keeps the limiter's books.
LEMMA LimiterStep ==
  ASSUME Inv, EntriesInv, LimiterInv, [Next]_vars
  PROVE  LimiterInv'
<1>1. Inv' /\ TablesGrow /\ RequestsGoOn /\ clock <= clock'
  BY EveryStep
<1>2. PositivePolicies'
  BY PoliciesStayPositive
<1>3. \A x \in Exchange : flight'[x] # Absent => Measured(x)'
  BY <1>1, MeasuredStep
<1>4. ASSUME NEW x \in Exchange, flight[x] # Absent, ~Passed(x),
             IsFiniteSet(CountedFor(flight[x].origin)')
      PROVE  Earned(x)'
  BY <1>1, <1>4, EarnedStaysEarned DEF LimiterInv
<1>5. CASE \E x \in Exchange : Count(x)
  <2>1. PICK x \in Exchange : Count(x)
    BY <1>5
  <2>2. \A o \in Origin : (WindowCounts(o) /\ Spaced(o) /\ \A t \in Nat : WithinLimit(o, t))'
    BY <1>1, <2>1, CountKeepsWindows
  <2>3. ASSUME NEW y \in Exchange, flight'[y] # Absent, ~Passed(y)'
        PROVE  Earned(y)'
    <3>1. CASE y = x
      BY <1>1, <2>1, <2>3, <3>1, RefusalIsEarned
    <3>2. CASE y # x
      <4>1. flight'[y] = flight[y]
        BY <2>1, <3>2, PassageLeavesTheRest DEF Passage
      <4>2. flight[y] # Absent /\ ~Passed(y) /\ flight'[y].origin \in Origin
        BY <2>3, <4>1, KeyOfType DEF Passed, Inv, InFlight
      <4>3. IsFiniteSet(CountedFor(flight[y].origin)')
        BY <2>2, <4>2 DEF WindowCounts
      <4>4. QED
        BY <1>4, <4>2, <4>3
    <3>3. QED
      BY <3>1, <3>2
  <2>4. QED
    BY <1>2, <1>3, <2>2, <2>3 DEF LimiterInv
<1>6. CASE \A x \in Exchange : ~Count(x)
  <2>1. ChargesNobody
    BY <1>1, <1>6, OthersChargeNobody
  <2>2. \A o \in Origin : (WindowCounts(o) /\ Spaced(o) /\ \A t \in Nat : WithinLimit(o, t))'
    BY <1>1, <2>1, WindowsUndisturbed DEF LimiterInv
  <2>3. ASSUME NEW y \in Exchange, flight'[y] # Absent, ~Passed(y)'
        PROVE  Earned(y)'
    <3>1. flight'[y].status = "rate_limited" /\ flight'[y].window # 0
      BY <1>3, <2>3 DEF Passed, Measured
    <3>2. flight[y] # Absent /\ flight[y].window # 0
      BY <2>1, <2>3, <3>1 DEF ChargesNobody
    <3>3. ~Passed(y) /\ flight'[y].origin \in Origin
      BY <1>1, <3>1, <3>2, KeyOfType DEF RequestsGoOn, GoesOn, Passed, Inv, InFlight
    <3>4. IsFiniteSet(CountedFor(flight[y].origin)')
      BY <2>2, <3>3 DEF WindowCounts
    <3>5. QED
      BY <1>4, <3>2, <3>3, <3>4
  <2>4. QED
    BY <1>2, <1>3, <2>2, <2>3 DEF LimiterInv
<1>7. QED
  BY <1>5, <1>6

\* A server that starts has counted nothing.
LEMMA LimiterInit == Init => LimiterInv
<1> SUFFICES ASSUME Init PROVE LimiterInv
  OBVIOUS
<1>1. \A x \in Exchange : flight[x] = Absent
  BY DEF Init
<1>2. PositivePolicies
  BY GatewayAssumption DEF Init, PositivePolicies
<1>3. ASSUME NEW o \in Origin
      PROVE  WindowCounts(o) /\ Spaced(o) /\ \A t \in Nat : WithinLimit(o, t)
  <2>1. CountedFor(o) = {}
    BY <1>1 DEF CountedFor, Counted
  <2>2. InWindow(o, 0) = {} /\ \A t : PassedIn(o, t) = {}
    BY <2>1 DEF InWindow, PassedIn
  <2>3. windows[o].count = 0 /\ windows[o].resetAt = 0 /\ clock = 0
    BY DEF Init
  <2>4. WindowCounts(o)
    <3>1. IsFiniteSet(CountedFor(o)) /\ Cardinality(InWindow(o, 0)) = 0
      BY <2>1, <2>2, FS_EmptySet
    <3>2. QED
      BY <2>1, <2>3, <3>1, GatewayAssumption DEF WindowCounts
  <2>5. QED
    BY <2>1, <2>2, <2>4 DEF Spaced, WithinLimit
<1>4. QED
  BY <1>1, <1>2, <1>3 DEF LimiterInv

\* The limiter's books are in order in every reachable state.
LEMMA LimiterInvariant == Spec => []LimiterInv
<1>1. Inv /\ EntriesInv /\ LimiterInv /\ [Next]_vars => LimiterInv'
  BY LimiterStep
<1>2. QED
  BY GatewayInductive, EntriesInvariant, LimiterInit, <1>1, PTL DEF Spec

\* In one window of one origin no more requests pass than the highest limit one
\* of them was measured against, however they interleave; windows do not overlap.
THEOREM LimiterBounds == Spec => []AdmissionsAreBounded
<1>1. Inv /\ LimiterInv => AdmissionsAreBounded
  <2> SUFFICES ASSUME Inv, LimiterInv, NEW o \in Origin
               PROVE  LET counted == {x \in Exchange : Counted(x, o)} IN
                      /\ \A x \in counted :
                           LET passed == {y \in counted : Passed(y) /\ flight[y].window = flight[x].window}
                           IN  passed # {} =>
                                 \E y \in passed : Cardinality(passed) <= flight[y].limit
                      /\ \A x, y \in counted :
                           flight[x].window < flight[y].window =>
                             flight[x].window + Minute <= flight[y].window
    BY DEF AdmissionsAreBounded
  <2>1. \A x \in CountedFor(o) : WithinLimit(o, flight[x].window)
    BY KeyOfType DEF LimiterInv, CountedFor, Counted, Inv, InFlight
  <2>2. Spaced(o)
    BY DEF LimiterInv
  <2>3. QED
    BY <2>1, <2>2 DEF WithinLimit, PassedIn, Spaced, CountedFor
<1>2. QED
  BY GatewayInductive, LimiterInvariant, <1>1, PTL

\* Nobody is refused but when others of the same origin, counted less than a
\* minute before, have used up a limit of the request's own business.
THEOREM RefusalsAreFair == Spec => []RefusalsAreEarned
<1>1. LimiterInv => RefusalsAreEarned
  BY DEF LimiterInv, Earned, Rivals, RefusalsAreEarned
<1>2. QED
  BY LimiterInvariant, <1>1, PTL

===============================================================================
