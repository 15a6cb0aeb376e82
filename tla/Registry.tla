------------------------------ MODULE Registry ------------------------------
(***************************************************************************)
(* Names: the registration and login of users, the creation of accounts,    *)
(* and the security log of what is refused.                                 *)
(*                                                                         *)
(* A request looks a name up and then INSERTs it, in one database           *)
(* transaction.  The SELECT sees committed rows only; the INSERT waits on   *)
(* the unique index while another transaction's row of the same name is not *)
(* committed, and fails if it then is.  A token carries the user's name and *)
(* role; the endpoints trust it and do not look the user up again.          *)
(***************************************************************************)
EXTENDS Integers, FiniteSets

CONSTANTS
    Workers,        \* sessions serving requests, one each at a time
    Names,
    Passwords,
    Seeds,          \* Seeds[n]: the auth_user row init.sql inserts, or Absent
    AdminName,      \* settings.admin_username and settings.admin_password:
    AdminPassword,  \* accepted by login whatever auth_user holds
    States,         \* account states a request asks for
    Openings,       \* initial balances a request asks for
    MaxRefusals,    \* bound: failed logins and queries of one behaviour
    None            \* no session

-----------------------------------------------------------------------------

Absent == [table |-> "none"]

User == [table : {"auth_user"}, password : Passwords, role : {"admin", "user"}]
Holder == [table : {"account"}, state : States \cup {"Activo"}, opening : Openings]

Tables == {"auth_user", "account"}

\* A name in a table: what the unique indexes are about.
Keys == Tables \X Names

ASSUME RegistryAssumption ==
    /\ None \notin Workers /\ IsFiniteSet(Workers)
    /\ Seeds \in [Names -> User \cup {Absent}]
    /\ MaxRefusals \in Nat

Creating == {"register", "create", "create_mine"}
Refusable == {"login", "query"}

\* What a request asks for: a password to register or log in with, or an account.
Request == [kind : Creating \cup Refusable, name : Names,
            value : Passwords \cup [state : States \cup {"Activo"}, opening : Openings],
            role : {"none", "admin", "user"}]

NoRequest == [kind |-> "none"]

Codes == {0, 200, 201, 400, 401, 409, 500}

VARIABLES
    rows,       \* committed rows of auth_user and account, by name
    index,      \* the session whose uncommitted INSERT holds a name, or None
    logs,       \* committed security_logs rows, by the kind of request refused
    refused,    \* 401 answers, by the kind of request refused
    tokens,     \* names and roles of the tokens issued
    pc, req, code

vars == <<rows, index, logs, refused, tokens, pc, req, code>>

Seeded == [k \in Keys |-> IF k[1] = "auth_user" THEN Seeds[k[2]] ELSE Absent]

TypeOK ==
    /\ rows \in [Keys -> User \cup Holder \cup {Absent}]
    /\ index \in [Keys -> Workers \cup {None}]
    /\ logs \in [Refusable -> Nat]
    /\ refused \in [Refusable -> Nat]
    /\ tokens \subseteq [name : Names, role : {"admin", "user"}]
    /\ pc \in [Workers -> {"idle", "free", "inserted", "refused", "answer"}]
    /\ req \in [Workers -> Request \cup {NoRequest}]
    /\ code \in [Workers -> Codes]
    /\ \A k \in Keys : rows[k] # Absent => rows[k].table = k[1]

Init ==
    /\ rows = Seeded
    /\ index = [k \in Keys |-> None]
    /\ logs = [k \in Refusable |-> 0]
    /\ refused = [k \in Refusable |-> 0]
    /\ tokens = {}
    /\ pc = [w \in Workers |-> "idle"]
    /\ req = [w \in Workers |-> NoRequest]
    /\ code = [w \in Workers |-> 0]

-----------------------------------------------------------------------------

Table(kind) == IF kind = "register" THEN "auth_user" ELSE "account"

Key(w) == <<Table(req[w].kind), req[w].name>>

\* Mutant: no role is passed, and the model's server default applies.
RowWithDefaultRole(r) ==
    IF r.kind = "register"
      THEN [table |-> "auth_user", password |-> r.value, role |-> "admin"]
      ELSE [table |-> "account", state |-> r.value.state, opening |-> r.value.opening]

\* The row a request INSERTs.  The role in the payload of a registration is not
\* read, and create_my_account sets the state itself.
Row(r) ==
    IF r.kind = "register"
      THEN [table |-> "auth_user", password |-> r.value, role |-> "user"]
      ELSE [table |-> "account", opening |-> r.value.opening,
            state |-> IF r.kind = "create" THEN r.value.state ELSE "Activo"]

\* What the endpoint asks of the caller's token.
Allowed(kind, n) ==
    CASE kind = "create" -> \E t \in tokens : t.role = "admin"
      [] kind = "create_mine" -> \E t \in tokens : t.name = n
      [] kind = "query" -> \E t \in tokens : t.role = "admin"
      [] OTHER -> TRUE

\* What a request may carry; the state of an own account is not asked for.
Payloads(kind) ==
    CASE kind = "create" -> [state : States, opening : Openings]
      [] kind = "create_mine" -> [state : {"Activo"}, opening : Openings]
      [] OTHER -> Passwords

Accept(w, kind, n, value) ==
    /\ pc[w] = "idle"
    /\ Allowed(kind, n)
    /\ value \in Payloads(kind)
    /\ UNCHANGED <<rows, index, logs, refused, tokens>>

Asked(kind, n, value, role) == [kind |-> kind, name |-> n, value |-> value, role |-> role]

Reply(w, c) ==
    /\ pc' = [pc EXCEPT ![w] = "answer"]
    /\ code' = [code EXCEPT ![w] = c]

-----------------------------------------------------------------------------
(* A new name: POST /auth/register, /accounts and /me/account *)

\* Mutant: the SELECT sees rows that are not committed.
TakenDirty(k) == rows[k] # Absent \/ index[k] # None

Taken(k) == rows[k] # Absent

\* get_by_username or get_by_user_name finds nothing.
FindFree(w, kind, n, value) ==
    /\ Accept(w, kind, n, value)
    /\ ~Taken(<<Table(kind), n>>)
    /\ pc' = [pc EXCEPT ![w] = "free"]
    /\ req' = [req EXCEPT ![w] = Asked(kind, n, value, "user")]
    /\ UNCHANGED code

\* Mutant: HTTPException(409) left to the handler of domain errors.
TakenCodeAsDomainError(kind) == IF kind = "register" THEN 404 ELSE 400

TakenCode(kind) == IF kind = "register" THEN 409 ELSE 400

\* It finds a row: the exception leaves session.begin().
FindTaken(w, kind, n, value) ==
    /\ Accept(w, kind, n, value)
    /\ Taken(<<Table(kind), n>>)
    /\ req' = [req EXCEPT ![w] = Asked(kind, n, value, "none")]
    /\ Reply(w, TakenCode(kind))

\* Mutant: no unique index.
IndexIgnored(k) == TRUE

\* The unique index lets a row of this name in.
IndexFree(k) == index[k] = None /\ rows[k] = Absent

Insert(w) ==
    /\ pc[w] = "free"
    /\ IndexFree(Key(w))
    /\ index' = [index EXCEPT ![Key(w)] = w]
    /\ pc' = [pc EXCEPT ![w] = "inserted"]
    /\ UNCHANGED <<rows, logs, refused, tokens, req, code>>

\* Another transaction's row of this name is committed: IntegrityError, which no
\* handler expects.
Duplicate(w) ==
    /\ pc[w] = "free"
    /\ index[Key(w)] = None
    /\ rows[Key(w)] # Absent
    /\ Reply(w, 500)
    /\ UNCHANGED <<rows, index, logs, refused, tokens, req>>

\* Mutant: the index entry outlives a transaction that is rolled back.
KeepIndex(w) == UNCHANGED index

\* The end of a database transaction.
Release(w) == index' = [k \in Keys |-> IF index[k] = w THEN None ELSE index[k]]

Commit(w) ==
    /\ pc[w] = "inserted"
    /\ rows' = [rows EXCEPT ![Key(w)] = Row(req[w])]
    /\ Release(w)
    /\ Reply(w, 201)
    /\ UNCHANGED <<logs, refused, tokens, req>>

-----------------------------------------------------------------------------
(* POST /auth/login and /transactions/query *)

ValidUser(n, p) == rows[<<"auth_user", n>>] # Absent /\ rows[<<"auth_user", n>>].password = p

ValidAdmin(n, p) == n = AdminName /\ p = AdminPassword

LoginRole(n, p) == IF ValidUser(n, p) THEN rows[<<"auth_user", n>>].role ELSE "admin"

Login(w, n, p) ==
    /\ Accept(w, "login", n, p)
    /\ ValidUser(n, p) \/ ValidAdmin(n, p)
    /\ req' = [req EXCEPT ![w] = Asked("login", n, p, LoginRole(n, p))]
    /\ Reply(w, 200)

\* The credentials are wrong: a login's, or the ones a query carries.
WrongCredentials(w, kind, n, p) ==
    /\ Accept(w, kind, n, p)
    /\ logs["login"] + logs["query"] < MaxRefusals
    /\ kind = "login" => ~ValidUser(n, p) /\ ~ValidAdmin(n, p)
    /\ pc' = [pc EXCEPT ![w] = "refused"]
    /\ req' = [req EXCEPT ![w] = Asked(kind, n, p, "none")]
    /\ UNCHANGED code

\* Mutant: the 401 is raised inside session.begin(), which rolls back.
LoggedAndRolledBack(kind) == UNCHANGED logs

Logged(kind) == logs' = [logs EXCEPT ![kind] = @ + 1]

\* The refusal is logged in a database transaction of its own.
LogRefusal(w) ==
    /\ pc[w] = "refused"
    /\ Logged(req[w].kind)
    /\ Reply(w, 401)
    /\ UNCHANGED <<rows, index, refused, tokens, req>>

-----------------------------------------------------------------------------

Forget(w) ==
    /\ pc' = [pc EXCEPT ![w] = "idle"]
    /\ req' = [req EXCEPT ![w] = NoRequest]
    /\ code' = [code EXCEPT ![w] = 0]

\* The response reaches the client, with a token for a registration or a login.
Answer(w) ==
    /\ pc[w] = "answer"
    /\ tokens' = IF req[w].kind \in {"register", "login"} /\ code[w] \in {200, 201}
                   THEN tokens \cup {[name |-> req[w].name, role |-> req[w].role]} ELSE tokens
    /\ refused' = IF code[w] = 401 THEN [refused EXCEPT ![req[w].kind] = @ + 1] ELSE refused
    /\ Forget(w)
    /\ UNCHANGED <<rows, index, logs>>

\* A lost connection or a cancelled request at any await: what is not committed
\* is rolled back, and what is committed is not answered.
Abort(w) ==
    /\ pc[w] # "idle"
    /\ Release(w)
    /\ Forget(w)
    /\ UNCHANGED <<rows, logs, refused, tokens>>

Step(w) == Insert(w) \/ Duplicate(w) \/ Commit(w) \/ LogRefusal(w) \/ Answer(w)

Next == \E w \in Workers :
    \/ \E kind \in Creating, n \in Names : \E value \in Payloads(kind) :
         FindFree(w, kind, n, value) \/ FindTaken(w, kind, n, value)
    \/ \E n \in Names, p \in Passwords :
         \/ Login(w, n, p)
         \/ \E kind \in Refusable : WrongCredentials(w, kind, n, p)
    \/ Step(w)
    \/ Abort(w)

Spec == Init /\ [][Next]_vars

\* PostgreSQL wakes the transactions that wait for an index entry in turn, and
\* the event loop resumes a request whose await is over.
FairSpec == Spec /\ \A w \in Workers : SF_vars(Step(w))

-----------------------------------------------------------------------------
(* Properties *)

\* A request answered 201 owns the name: the row on record is the one it asked
\* for, whoever raced it (accounts.py:31-41, routes.py:155-167).
CreatedIsOnRecord ==
    \A w \in Workers : code[w] = 201 => rows[Key(w)] = Row(req[w])

\* A name is refused only to a request that comes after, or loses to, a committed
\* row of that name: an INSERT that is rolled back costs nobody the name.
RefusedWasTaken ==
    \A w \in Workers : code[w] \in {400, 409, 500} => rows[Key(w)] # Absent

\* Whoever holds a token presented the password on record, or the administrator's
\* of the settings, and only a seeded administrator's token carries that role
\* (routes.py:115-134, 163-169).
TokensAreEarned ==
    /\ \A w \in Workers :
         pc[w] = "answer" /\ code[w] \in {200, 201} /\ req[w].kind \in {"register", "login"} =>
             ValidUser(req[w].name, req[w].value) \/ ValidAdmin(req[w].name, req[w].value)
    /\ \A t \in tokens : t.role = "admin" =>
         t.name = AdminName \/ (Seeds[t.name] # Absent /\ Seeds[t.name].role = "admin")

\* Every 401 for wrong credentials has its row in security_logs, committed before
\* the answer, whatever fails or is cancelled around it (routes.py:123-133, 513-524).
RefusalsAreLogged == \A kind \in Refusable : refused[kind] <= logs[kind]

\* Names are bound once and for all, as NameBinding promises.
Binding == INSTANCE NameBinding WITH Rows <- User \cup Holder, bound <- rows

KeepsNames == Binding!Spec

\* Every request is answered or cancelled, also the one that waits for the
\* INSERT of another on the unique index.
RequestsEnd == \A w \in Workers : pc[w] # "idle" ~> pc[w] = "idle"
=============================================================================
