--------------------------- MODULE RegistryProofs ---------------------------
(***************************************************************************)
(* Safety of the registry for every number of sessions and every set of     *)
(* names.  IInv is the inductive invariant; the theorems at the end draw    *)
(* the properties of Registry from it.                                      *)
(***************************************************************************)
EXTENDS Registry, FiniteSetTheorems, TLAPS

\* A session has a request of the kind its phase is about, and no answer before
\* its last phase.
PhaseOK(w) ==
    /\ code[w] # 0 => pc[w] = "answer"
    /\ pc[w] # "idle" => req[w] \in Request /\ req[w].value \in Payloads(req[w].kind)
    /\ pc[w] \in {"free", "inserted"} => req[w].kind \in Creating /\ req[w].role = "user"
    /\ pc[w] = "refused" => req[w].kind \in Refusable

\* An index entry belongs to the INSERT of a name that is not on record.
IndexOK ==
    /\ \A w \in Workers : pc[w] = "inserted" => index[Key(w)] = w
    /\ \A k \in Keys, w \in Workers : index[k] = w =>
         pc[w] = "inserted" /\ Key(w) = k /\ rows[k] = Absent

SeededAdmin(n) == Seeds[n] # Absent /\ Seeds[n].role = "admin"

MayBeAdmin(n) == n = AdminName \/ SeededAdmin(n)

\* What an answer says is, and stays, true of the committed rows.
AnswerOK(w) ==
    /\ code[w] = 200 => /\ req[w].kind = "login" /\ req[w].role \in {"admin", "user"}
                        /\ ValidUser(req[w].name, req[w].value) \/ ValidAdmin(req[w].name, req[w].value)
                        /\ req[w].role = "admin" => MayBeAdmin(req[w].name)
    /\ code[w] = 201 => /\ req[w].kind \in Creating
                        /\ rows[Key(w)] = Row(req[w])
                        /\ req[w].role = "user"
    /\ code[w] \in {400, 409, 500} => req[w].kind \in Creating /\ rows[Key(w)] # Absent
    /\ code[w] = 401 => req[w].kind \in Refusable

\* Administrators of auth_user were seeded, and tokens of that role are theirs.
RolesOK ==
    /\ \A n \in Names :
         rows[<<"auth_user", n>>] # Absent /\ rows[<<"auth_user", n>>].role = "admin" => SeededAdmin(n)
    /\ \A t \in tokens : t.role = "admin" => MayBeAdmin(t.name)

IInv ==
    /\ TypeOK
    /\ \A w \in Workers : PhaseOK(w) /\ AnswerOK(w)
    /\ IndexOK
    /\ RolesOK

-----------------------------------------------------------------------------
(* The rows *)

\* The name of a request is a key.
LEMMA KeyType ==
    ASSUME NEW r \in Request
    PROVE  <<Table(r.kind), r.name>> \in Keys
  BY DEF Request, Table, Keys, Tables, Creating, Refusable

\* A request to create something carries a row of its table.
LEMMA RowType ==
    ASSUME NEW r \in Request, r.kind \in Creating, r.value \in Payloads(r.kind)
    PROVE  /\ Row(r) \in User \cup Holder
           /\ Row(r) # Absent
           /\ Row(r).table = Table(r.kind)
           /\ r.kind = "register" => Row(r).role = "user" /\ Row(r).password = r.value
  <1>1. CASE r.kind = "register"
    <2>1. r.value \in Passwords
      BY <1>1 DEF Payloads
    <2>2. QED
      BY <1>1, <2>1 DEF Row, User, Holder, Absent, Table
  <1>2. CASE r.kind = "create"
    <2>1. r.value \in [state : States, opening : Openings]
      BY <1>2 DEF Payloads
    <2>2. QED
      BY <1>2, <2>1 DEF Row, User, Holder, Absent, Table
  <1>3. CASE r.kind = "create_mine"
    <2>1. r.value \in [state : {"Activo"}, opening : Openings]
      BY <1>3 DEF Payloads
    <2>2. QED
      BY <1>3, <2>1 DEF Row, User, Holder, Absent, Table
  <1>4. QED
    BY <1>1, <1>2, <1>3 DEF Creating

\* What a request asks for, put together, is a request.
LEMMA AskedType ==
    ASSUME NEW kind \in Creating \cup Refusable, NEW n \in Names,
           NEW value \in Payloads(kind), NEW role \in {"none", "admin", "user"}
    PROVE  /\ Asked(kind, n, value, role) \in Request
           /\ Asked(kind, n, value, role).value \in Payloads(kind)
  <1>1. value \in Passwords \cup [state : States \cup {"Activo"}, opening : Openings]
    BY DEF Payloads
  <1>2. QED
    BY <1>1 DEF Asked, Request

-----------------------------------------------------------------------------
(* The inductive invariant *)

\* Before the first request nothing is pending, and names are as seeded.
LEMMA InitInv == Init => IInv
  <1> SUFFICES ASSUME Init PROVE IInv
    OBVIOUS
  <1> USE RegistryAssumption DEF Init
  <1>1. TypeOK
    BY DEF TypeOK, Seeded, Keys, Tables, Codes, Refusable, Absent, User, Holder, NoRequest
  <1>2. \A w \in Workers : PhaseOK(w) /\ AnswerOK(w)
    BY DEF PhaseOK, AnswerOK
  <1>3. IndexOK
    BY DEF IndexOK
  <1>4. RolesOK
    BY DEF RolesOK, SeededAdmin, Seeded, Keys, Tables
  <1>5. QED
    BY <1>1, <1>2, <1>3, <1>4 DEF IInv

\* A step of session w that commits nothing and keeps the types.
LocalTo(w) ==
    /\ pc' \in [Workers -> {"idle", "free", "inserted", "refused", "answer"}]
    /\ req' \in [Workers -> Request \cup {NoRequest}]
    /\ code' \in [Workers -> Codes]
    /\ logs' \in [Refusable -> Nat]
    /\ pc[w] # "inserted" /\ pc'[w] # "inserted"
    /\ \A v \in Workers : v # w => pc'[v] = pc[v] /\ req'[v] = req[v] /\ code'[v] = code[v]
    /\ UNCHANGED <<rows, index, tokens, refused>>

\* It keeps the invariant if its own request and answer are in order.
LEMMA LocalStep ==
    ASSUME IInv, NEW w \in Workers, LocalTo(w), PhaseOK(w)', AnswerOK(w)'
    PROVE  IInv'
  <1> USE DEF LocalTo
  <1>1. TypeOK'
    BY DEF IInv, TypeOK
  <1>2. \A v \in Workers : PhaseOK(v)' /\ AnswerOK(v)'
    <2> TAKE v \in Workers
    <2>1. CASE v = w
      BY <2>1
    <2>2. CASE v # w
      <3>1. pc'[v] = pc[v] /\ req'[v] = req[v] /\ code'[v] = code[v]
        BY <2>2
      <3>2. PhaseOK(v) /\ AnswerOK(v)
        BY DEF IInv
      <3>3. PhaseOK(v)'
        BY <3>1, <3>2 DEF PhaseOK
      <3>4. AnswerOK(v)'
        BY <3>1, <3>2 DEF AnswerOK, Key, ValidUser
      <3>5. QED
        BY <3>3, <3>4
    <2>3. QED
      BY <2>1, <2>2
  <1>3. IndexOK'
    <2>1. \A v \in Workers : v # w => pc'[v] = pc[v] /\ Key(v)' = Key(v)
      BY DEF IInv, TypeOK, Key
    <2>2. pc'[w] # "inserted"
      BY DEF IInv, TypeOK
    <2>3. QED
      BY <2>1, <2>2 DEF IInv, IndexOK
  <1>4. RolesOK'
    BY DEF IInv, RolesOK
  <1>5. QED
    BY <1>1, <1>2, <1>3, <1>4 DEF IInv

\* A look-up that finds the name free keeps the invariant.
LEMMA FindFreeInv ==
    ASSUME IInv, NEW w \in Workers, NEW kind \in Creating, NEW n \in Names,
           NEW value \in Payloads(kind), FindFree(w, kind, n, value)
    PROVE  IInv'
  <1> DEFINE r == Asked(kind, n, value, "user")
  <1>1. r \in Request /\ r.value \in Payloads(kind) /\ r.kind = kind /\ r.role = "user"
    BY AskedType DEF Asked
  <1>2. /\ UNCHANGED <<rows, index, tokens, logs, refused, code>> /\ pc[w] = "idle"
        /\ pc' = [pc EXCEPT ![w] = "free"] /\ req' = [req EXCEPT ![w] = r]
    BY DEF FindFree, Accept
  <1>3. code[w] = 0 /\ code' = [code EXCEPT ![w] = 0] /\ 0 \in Codes
    BY <1>2 DEF IInv, TypeOK, PhaseOK, Codes
  <1>4. pc'[w] = "free" /\ req'[w] = r /\ code'[w] = 0
    BY <1>2, <1>3 DEF IInv, TypeOK
  <1>5. PhaseOK(w)' /\ AnswerOK(w)'
    BY <1>1, <1>4 DEF PhaseOK, AnswerOK
  <1>6. LocalTo(w)
    BY <1>1, <1>2, <1>3 DEF IInv, TypeOK, LocalTo
  <1>7. QED
    BY <1>5, <1>6, LocalStep

\* So does one that finds it taken: the row it found is committed.
LEMMA FindTakenInv ==
    ASSUME IInv, NEW w \in Workers, NEW kind \in Creating, NEW n \in Names,
           NEW value \in Payloads(kind), FindTaken(w, kind, n, value)
    PROVE  IInv'
  <1> DEFINE r == Asked(kind, n, value, "none")
  <1>1. r \in Request /\ r.value \in Payloads(kind) /\ r.kind = kind /\ r.name = n
    BY AskedType DEF Asked
  <1>2. /\ UNCHANGED <<rows, index, tokens, logs, refused>> /\ pc[w] = "idle"
        /\ pc' = [pc EXCEPT ![w] = "answer"] /\ req' = [req EXCEPT ![w] = r]
        /\ code' = [code EXCEPT ![w] = TakenCode(kind)]
        /\ rows[<<Table(kind), n>>] # Absent
    BY DEF FindTaken, Accept, Reply, Taken
  <1>3. TakenCode(kind) \in {400, 409} /\ TakenCode(kind) \in Codes
    BY DEF TakenCode, Codes
  <1>4. pc'[w] = "answer" /\ req'[w] = r /\ code'[w] = TakenCode(kind)
    BY <1>2 DEF IInv, TypeOK
  <1>5. PhaseOK(w)' /\ AnswerOK(w)'
    BY <1>1, <1>2, <1>3, <1>4 DEF PhaseOK, AnswerOK, Key
  <1>6. LocalTo(w)
    BY <1>1, <1>2, <1>3 DEF IInv, TypeOK, LocalTo
  <1>7. QED
    BY <1>5, <1>6, LocalStep

\* So does an INSERT the unique index refuses, for the same reason.
LEMMA DuplicateInv ==
    ASSUME IInv, NEW w \in Workers, Duplicate(w)
    PROVE  IInv'
  <1>1. /\ UNCHANGED <<rows, index, tokens, logs, refused, req>> /\ pc[w] = "free"
        /\ pc' = [pc EXCEPT ![w] = "answer"]
        /\ code' = [code EXCEPT ![w] = 500]
        /\ rows[Key(w)] # Absent
    BY DEF Duplicate, Reply
  <1>2. /\ req[w] \in Request /\ req[w].value \in Payloads(req[w].kind)
        /\ req[w].kind \in Creating
    BY <1>1 DEF IInv, PhaseOK
  <1>3. req' = [req EXCEPT ![w] = req[w]] /\ 500 \in Codes
    BY <1>1 DEF IInv, TypeOK, Codes
  <1>4. pc'[w] = "answer" /\ req'[w] = req[w] /\ code'[w] = 500
    BY <1>1 DEF IInv, TypeOK
  <1>5. PhaseOK(w)' /\ AnswerOK(w)'
    BY <1>1, <1>2, <1>4 DEF PhaseOK, AnswerOK, Key
  <1>6. LocalTo(w)
    BY <1>1, <1>2, <1>3 DEF IInv, TypeOK, LocalTo
  <1>7. QED
    BY <1>5, <1>6, LocalStep

\* So does a login: the role it answers with is the row's or the administrator's.
LEMMA LoginInv ==
    ASSUME IInv, NEW w \in Workers, NEW n \in Names, NEW p \in Passwords, Login(w, n, p)
    PROVE  IInv'
  <1> DEFINE r == Asked("login", n, p, LoginRole(n, p))
  <1>1. /\ UNCHANGED <<rows, index, tokens, logs, refused>> /\ pc[w] = "idle"
        /\ pc' = [pc EXCEPT ![w] = "answer"] /\ req' = [req EXCEPT ![w] = r]
        /\ code' = [code EXCEPT ![w] = 200]
        /\ ValidUser(n, p) \/ ValidAdmin(n, p)
        /\ p \in Payloads("login")
    BY DEF Login, Accept, Reply
  <1>2. <<"auth_user", n>> \in Keys
    BY DEF Keys, Tables
  <1>3. ValidUser(n, p) => rows[<<"auth_user", n>>] \in User
    BY <1>2 DEF IInv, TypeOK, ValidUser, User, Holder
  <1>4. LoginRole(n, p) \in {"admin", "user"}
    BY <1>3 DEF LoginRole, User
  <1>5. LoginRole(n, p) = "admin" => MayBeAdmin(n)
    <2>1. CASE ValidUser(n, p)
      BY <2>1 DEF IInv, RolesOK, LoginRole, ValidUser, MayBeAdmin
    <2>2. CASE ~ValidUser(n, p)
      BY <1>1, <2>2 DEF ValidAdmin, MayBeAdmin
    <2>3. QED
      BY <2>1, <2>2
  <1>6. r \in Request /\ r.value = p /\ r.kind = "login" /\ r.name = n /\ r.role = LoginRole(n, p)
    BY <1>1, <1>4, AskedType DEF Asked, Refusable
  <1>7. pc'[w] = "answer" /\ req'[w] = r /\ code'[w] = 200 /\ 200 \in Codes
    BY <1>1 DEF IInv, TypeOK, Codes
  <1>8. PhaseOK(w)'
    BY <1>1, <1>6, <1>7 DEF PhaseOK
  <1>9. AnswerOK(w)'
    BY <1>1, <1>4, <1>5, <1>6, <1>7 DEF AnswerOK, ValidUser
  <1>10. LocalTo(w)
    BY <1>1, <1>6, <1>7 DEF IInv, TypeOK, LocalTo
  <1>11. QED
    BY <1>8, <1>9, <1>10, LocalStep

\* So does a refused one, which has still to be logged.
LEMMA WrongCredentialsInv ==
    ASSUME IInv, NEW w \in Workers, NEW kind \in Refusable, NEW n \in Names,
           NEW p \in Passwords, WrongCredentials(w, kind, n, p)
    PROVE  IInv'
  <1> DEFINE r == Asked(kind, n, p, "none")
  <1>1. /\ UNCHANGED <<rows, index, tokens, logs, refused, code>> /\ pc[w] = "idle"
        /\ pc' = [pc EXCEPT ![w] = "refused"] /\ req' = [req EXCEPT ![w] = r]
        /\ p \in Payloads(kind)
    BY DEF WrongCredentials, Accept
  <1>2. r \in Request /\ r.value \in Payloads(kind) /\ r.kind = kind
    BY <1>1, AskedType DEF Asked
  <1>3. code[w] = 0 /\ code' = [code EXCEPT ![w] = 0] /\ 0 \in Codes
    BY <1>1 DEF IInv, TypeOK, PhaseOK, Codes
  <1>4. pc'[w] = "refused" /\ req'[w] = r /\ code'[w] = 0
    BY <1>1, <1>3 DEF IInv, TypeOK
  <1>5. PhaseOK(w)' /\ AnswerOK(w)'
    BY <1>2, <1>4 DEF PhaseOK, AnswerOK
  <1>6. LocalTo(w)
    BY <1>1, <1>2, <1>3 DEF IInv, TypeOK, LocalTo
  <1>7. QED
    BY <1>5, <1>6, LocalStep

\* So does the logging of a refusal.
LEMMA LogRefusalInv ==
    ASSUME IInv, NEW w \in Workers, LogRefusal(w)
    PROVE  IInv'
  <1>1. /\ UNCHANGED <<rows, index, tokens, refused, req>> /\ pc[w] = "refused"
        /\ pc' = [pc EXCEPT ![w] = "answer"]
        /\ code' = [code EXCEPT ![w] = 401]
        /\ logs' = [logs EXCEPT ![req[w].kind] = @ + 1]
    BY DEF LogRefusal, Reply, Logged
  <1>2. /\ req[w] \in Request /\ req[w].value \in Payloads(req[w].kind)
        /\ req[w].kind \in Refusable
    BY <1>1 DEF IInv, PhaseOK
  <1>3. req' = [req EXCEPT ![w] = req[w]] /\ 401 \in Codes
    BY <1>1 DEF IInv, TypeOK, Codes
  <1>4. pc'[w] = "answer" /\ req'[w] = req[w] /\ code'[w] = 401
    BY <1>1 DEF IInv, TypeOK
  <1>5. PhaseOK(w)' /\ AnswerOK(w)'
    BY <1>1, <1>2, <1>4 DEF PhaseOK, AnswerOK
  <1>6. LocalTo(w)
    BY <1>1, <1>2, <1>3 DEF IInv, TypeOK, LocalTo
  <1>7. QED
    BY <1>5, <1>6, LocalStep

\* The INSERT takes the index entry of a name that is free.
LEMMA InsertInv ==
    ASSUME IInv, NEW w \in Workers, Insert(w)
    PROVE  IInv'
  <1>1. /\ pc[w] = "free" /\ index[Key(w)] = None /\ rows[Key(w)] = Absent
        /\ index' = [index EXCEPT ![Key(w)] = w]
        /\ pc' = [pc EXCEPT ![w] = "inserted"]
        /\ UNCHANGED <<rows, logs, refused, tokens, req, code>>
    BY DEF Insert, IndexFree
  <1>2. Key(w) \in Keys
    BY <1>1, KeyType DEF IInv, PhaseOK, Key
  <1>3. TypeOK'
    BY <1>1, <1>2 DEF IInv, TypeOK
  <1>4. pc'[w] = "inserted" /\ \A v \in Workers : v # w => pc'[v] = pc[v]
    BY <1>1 DEF IInv, TypeOK
  <1>5. \A v \in Workers : PhaseOK(v)' /\ AnswerOK(v)'
    <2> TAKE v \in Workers
    <2>1. PhaseOK(v) /\ AnswerOK(v)
      BY DEF IInv
    <2>2. PhaseOK(v)'
      BY <1>1, <1>4, <2>1 DEF PhaseOK
    <2>3. AnswerOK(v)'
      BY <1>1, <2>1 DEF AnswerOK, Key, ValidUser
    <2>4. QED
      BY <2>2, <2>3
  <1>6. IndexOK'
    <2>1. \A v \in Workers : Key(v)' = Key(v)
      BY <1>1 DEF Key
    <2>2. index \in [Keys -> Workers \cup {None}]
      BY DEF IInv, TypeOK
    <2>3. \A v \in Workers : pc'[v] = "inserted" => index'[Key(v)'] = v
      <3> TAKE v \in Workers
      <3>1. CASE v = w
        BY <1>1, <1>2, <2>1, <2>2, <3>1
      <3>2. CASE v # w
        <4> SUFFICES ASSUME pc[v] = "inserted" PROVE index'[Key(v)] = v
          BY <1>4, <2>1, <3>2
        <4>1. index[Key(v)] = v /\ v # None
          BY RegistryAssumption DEF IInv, IndexOK
        <4>2. Key(v) # Key(w)
          BY <1>1, <4>1
        <4>3. Key(v) \in Keys
          BY KeyType DEF IInv, PhaseOK, Key
        <4>4. QED
          BY <1>1, <2>2, <4>1, <4>2, <4>3
      <3>3. QED
        BY <3>1, <3>2
    <2>4. \A k \in Keys, v \in Workers : index'[k] = v =>
            pc'[v] = "inserted" /\ Key(v)' = k /\ rows'[k] = Absent
      <3> SUFFICES ASSUME NEW k \in Keys, NEW v \in Workers, index'[k] = v
                   PROVE  pc'[v] = "inserted" /\ Key(v)' = k /\ rows'[k] = Absent
        OBVIOUS
      <3>1. CASE k = Key(w)
        BY <1>1, <1>2, <1>4, <2>1, <2>2, <3>1
      <3>2. CASE k # Key(w)
        <4>1. index[k] = v
          BY <1>1, <1>2, <2>2, <3>2
        <4>2. pc[v] = "inserted" /\ Key(v) = k /\ rows[k] = Absent
          BY <4>1 DEF IInv, IndexOK
        <4>3. QED
          BY <1>1, <1>4, <2>1, <4>2
      <3>3. QED
        BY <3>1, <3>2
    <2>5. QED
      BY <2>3, <2>4 DEF IndexOK
  <1>7. RolesOK'
    BY <1>1 DEF IInv, RolesOK
  <1>8. QED
    BY <1>3, <1>5, <1>6, <1>7 DEF IInv

-----------------------------------------------------------------------------
(* The steps that end a database transaction *)

\* What Release makes of the index: the entries of the other sessions.
LEMMA Released ==
    ASSUME IInv, NEW w \in Workers, Release(w),
           pc' \in [Workers -> {"idle", "free", "inserted", "refused", "answer"}],
           pc'[w] # "inserted",
           \A v \in Workers : v # w => pc'[v] = pc[v] /\ req'[v] = req[v],
           \A k \in Keys : rows'[k] = rows[k] \/ index[k] = w
    PROVE  index' \in [Keys -> Workers \cup {None}] /\ IndexOK'
  <1>1. index' = [k \in Keys |-> IF index[k] = w THEN None ELSE index[k]]
    BY DEF Release
  <1>2. index' \in [Keys -> Workers \cup {None}]
    BY <1>1 DEF IInv, TypeOK
  <1>3. \A v \in Workers : v # w => Key(v)' = Key(v)
    BY DEF Key
  <1>4. \A v \in Workers : pc'[v] = "inserted" => index'[Key(v)'] = v
    <2> SUFFICES ASSUME NEW v \in Workers, pc'[v] = "inserted" PROVE index'[Key(v)'] = v
      OBVIOUS
    <2>1. v # w /\ pc[v] = "inserted"
      OBVIOUS
    <2>2. index[Key(v)] = v
      BY <2>1 DEF IInv, IndexOK
    <2>3. Key(v) \in Keys
      BY <2>1, KeyType DEF IInv, PhaseOK, Key
    <2>4. QED
      BY <1>1, <1>3, <2>1, <2>2, <2>3
  <1>5. \A k \in Keys, v \in Workers : index'[k] = v =>
          pc'[v] = "inserted" /\ Key(v)' = k /\ rows'[k] = Absent
    <2> SUFFICES ASSUME NEW k \in Keys, NEW v \in Workers, index'[k] = v
                 PROVE  pc'[v] = "inserted" /\ Key(v)' = k /\ rows'[k] = Absent
      OBVIOUS
    <2>1. index[k] = v /\ v # w
      BY <1>1, RegistryAssumption
    <2>2. pc[v] = "inserted" /\ Key(v) = k /\ rows[k] = Absent
      BY <2>1 DEF IInv, IndexOK
    <2>3. QED
      BY <1>3, <2>1, <2>2
  <1>6. QED
    BY <1>2, <1>4, <1>5 DEF IndexOK

\* A cancelled request leaves no row, no index entry and no answer.
LEMMA AbortInv ==
    ASSUME IInv, NEW w \in Workers, Abort(w)
    PROVE  IInv'
  <1>1. /\ pc' = [pc EXCEPT ![w] = "idle"] /\ req' = [req EXCEPT ![w] = NoRequest]
        /\ code' = [code EXCEPT ![w] = 0] /\ Release(w)
        /\ UNCHANGED <<rows, logs, refused, tokens>>
    BY DEF Abort, Forget
  <1>2. /\ pc'[w] = "idle" /\ code'[w] = 0
        /\ \A v \in Workers : v # w =>
             pc'[v] = pc[v] /\ req'[v] = req[v] /\ code'[v] = code[v]
        /\ pc' \in [Workers -> {"idle", "free", "inserted", "refused", "answer"}]
    BY <1>1 DEF IInv, TypeOK
  <1>3. index' \in [Keys -> Workers \cup {None}] /\ IndexOK'
    BY <1>1, <1>2, Released
  <1>4. TypeOK'
    BY <1>1, <1>3 DEF IInv, TypeOK, Codes
  <1>5. \A v \in Workers : PhaseOK(v)' /\ AnswerOK(v)'
    <2> TAKE v \in Workers
    <2>1. CASE v = w
      BY <1>2, <2>1 DEF PhaseOK, AnswerOK
    <2>2. CASE v # w
      <3>1. PhaseOK(v) /\ AnswerOK(v)
        BY DEF IInv
      <3>2. PhaseOK(v)'
        BY <1>2, <2>2, <3>1 DEF PhaseOK
      <3>3. AnswerOK(v)'
        BY <1>1, <1>2, <2>2, <3>1 DEF AnswerOK, Key, ValidUser
      <3>4. QED
        BY <3>2, <3>3
    <2>3. QED
      BY <2>1, <2>2
  <1>6. RolesOK'
    BY <1>1 DEF IInv, RolesOK
  <1>7. QED
    BY <1>3, <1>4, <1>5, <1>6 DEF IInv

\* The COMMIT of an INSERT puts the row on record, where no other session's name is.
LEMMA CommitInv ==
    ASSUME IInv, NEW w \in Workers, Commit(w)
    PROVE  IInv'
  <1>1. /\ pc[w] = "inserted"
        /\ rows' = [rows EXCEPT ![Key(w)] = Row(req[w])]
        /\ Release(w)
        /\ pc' = [pc EXCEPT ![w] = "answer"] /\ code' = [code EXCEPT ![w] = 201]
        /\ UNCHANGED <<logs, refused, tokens, req>>
    BY DEF Commit, Reply
  <1>2. /\ req[w] \in Request /\ req[w].kind \in Creating /\ req[w].role = "user"
        /\ req[w].value \in Payloads(req[w].kind)
        /\ index[Key(w)] = w
    BY <1>1 DEF IInv, PhaseOK, IndexOK
  <1>3. Key(w) \in Keys /\ Key(w)[1] = Table(req[w].kind) /\ Key(w)[2] = req[w].name
    BY <1>2, KeyType DEF Key
  <1>4. /\ Row(req[w]) \in User \cup Holder /\ Row(req[w]) # Absent
        /\ Row(req[w]).table = Table(req[w].kind)
        /\ req[w].kind = "register" => Row(req[w]).role = "user"
    BY <1>2, RowType
  <1>5. rows[Key(w)] = Absent
    BY <1>2, <1>3 DEF IInv, IndexOK
  <1>6. /\ pc'[w] = "answer" /\ code'[w] = 201
        /\ \A v \in Workers : v # w => pc'[v] = pc[v] /\ code'[v] = code[v]
        /\ pc' \in [Workers -> {"idle", "free", "inserted", "refused", "answer"}]
        /\ code' \in [Workers -> Codes]
    BY <1>1 DEF IInv, TypeOK, Codes
  <1>7. /\ rows'[Key(w)] = Row(req[w])
        /\ \A k \in Keys : k # Key(w) => rows'[k] = rows[k]
        /\ rows' \in [Keys -> User \cup Holder \cup {Absent}]
    BY <1>1, <1>3, <1>4 DEF IInv, TypeOK
  <1>8. \A k \in Keys : rows[k] # Absent => rows'[k] = rows[k]
    BY <1>5, <1>7
  <1>9. index' \in [Keys -> Workers \cup {None}] /\ IndexOK'
    BY <1>1, <1>2, <1>6, <1>7, Released
  <1>10. TypeOK'
    <2>1. \A k \in Keys : rows'[k] # Absent => rows'[k].table = k[1]
      BY <1>3, <1>4, <1>7 DEF IInv, TypeOK
    <2>2. QED
      BY <1>1, <1>6, <1>7, <1>9, <2>1 DEF IInv, TypeOK
  <1>11. ASSUME NEW v \in Workers PROVE PhaseOK(v)' /\ AnswerOK(v)'
    <2>1. CASE v = w
      <3>1. PhaseOK(v)'
        BY <1>1, <1>2, <1>6, <2>1 DEF PhaseOK
      <3>2. AnswerOK(v)'
        BY <1>1, <1>2, <1>6, <1>7, <2>1 DEF AnswerOK, Key
      <3>3. QED
        BY <3>1, <3>2
    <2>2. CASE v # w
      <3>1. PhaseOK(v) /\ AnswerOK(v)
        BY DEF IInv
      <3>2. PhaseOK(v)'
        BY <1>1, <1>6, <2>2, <3>1 DEF PhaseOK
      <3>3. code[v] # 0 => req[v] \in Request
        BY <3>1 DEF PhaseOK
      <3>4. code[v] # 0 => Key(v) \in Keys /\ <<"auth_user", req[v].name>> \in Keys
        BY <3>3, KeyType DEF Key, Keys, Tables, Request
      <3>5. code'[v] = 200 => AnswerOK(v)'
        BY <1>1, <1>6, <1>8, <2>2, <3>1, <3>4 DEF AnswerOK, ValidUser
      <3>6. code'[v] = 201 => AnswerOK(v)'
        <4>1. code[v] = 201 => Row(req[v]) # Absent
          BY <3>1, <3>3, RowType DEF AnswerOK, PhaseOK
        <4>2. QED
          BY <1>1, <1>6, <1>8, <2>2, <3>1, <3>4, <4>1 DEF AnswerOK, Key
      <3>7. code'[v] \in {400, 401, 409, 500} => AnswerOK(v)'
        BY <1>1, <1>6, <1>8, <2>2, <3>1, <3>4 DEF AnswerOK, Key
      <3>8. code'[v] = 0 => AnswerOK(v)'
        BY DEF AnswerOK
      <3>9. QED
        BY <1>6, <3>2, <3>5, <3>6, <3>7, <3>8 DEF Codes
    <2>3. QED
      BY <2>1, <2>2
  <1>12. RolesOK'
    <2>1. ASSUME NEW n \in Names, rows'[<<"auth_user", n>>] # Absent,
                 rows'[<<"auth_user", n>>].role = "admin"
          PROVE  SeededAdmin(n)
      <3>1. <<"auth_user", n>> \in Keys
        BY DEF Keys, Tables
      <3>2. CASE <<"auth_user", n>> = Key(w)
        <4>1. req[w].kind = "register"
          BY <1>3, <3>2 DEF Table
        <4>2. QED
          BY <1>4, <1>7, <2>1, <3>2, <4>1
      <3>3. CASE <<"auth_user", n>> # Key(w)
        BY <1>7, <2>1, <3>1, <3>3 DEF IInv, RolesOK
      <3>4. QED
        BY <3>2, <3>3
    <2>2. QED
      BY <1>1, <2>1 DEF IInv, RolesOK
  <1>13. QED
    BY <1>9, <1>10, <1>11, <1>12 DEF IInv

\* A response hands out a token only for a registration or a login.
LEMMA AnswerInv ==
    ASSUME IInv, NEW w \in Workers, Answer(w)
    PROVE  IInv'
  <1> DEFINE token == [name |-> req[w].name, role |-> req[w].role]
  <1>1. /\ pc[w] = "answer"
        /\ tokens' = IF req[w].kind \in {"register", "login"} /\ code[w] \in {200, 201}
                       THEN tokens \cup {token} ELSE tokens
        /\ refused' = IF code[w] = 401 THEN [refused EXCEPT ![req[w].kind] = @ + 1] ELSE refused
        /\ pc' = [pc EXCEPT ![w] = "idle"] /\ req' = [req EXCEPT ![w] = NoRequest]
        /\ code' = [code EXCEPT ![w] = 0]
        /\ UNCHANGED <<rows, index, logs>>
    BY DEF Answer, Forget
  <1>2. PhaseOK(w) /\ AnswerOK(w)
    BY DEF IInv
  <1>3. /\ pc'[w] = "idle" /\ code'[w] = 0
        /\ \A v \in Workers : v # w =>
             pc'[v] = pc[v] /\ req'[v] = req[v] /\ code'[v] = code[v]
        /\ pc' \in [Workers -> {"idle", "free", "inserted", "refused", "answer"}]
    BY <1>1 DEF IInv, TypeOK
  <1>4. req[w].kind \in {"register", "login"} /\ code[w] \in {200, 201} =>
          /\ token.role \in {"admin", "user"}
          /\ token.role = "admin" => MayBeAdmin(token.name)
          /\ token.name \in Names
    <2>1. req[w] \in Request
      BY <1>1, <1>2 DEF PhaseOK
    <2>2. code[w] = 201 => req[w].role = "user"
      BY <1>2 DEF AnswerOK
    <2>3. code[w] = 200 => req[w].role \in {"admin", "user"}
      BY <1>2 DEF AnswerOK
    <2>4. QED
      BY <1>2, <2>1, <2>2, <2>3 DEF AnswerOK, Request
  <1>5. tokens' \subseteq [name : Names, role : {"admin", "user"}]
    BY <1>1, <1>4 DEF IInv, TypeOK
  <1>6. refused' \in [Refusable -> Nat]
    BY <1>1, <1>2 DEF IInv, TypeOK, AnswerOK
  <1>7. TypeOK'
    BY <1>1, <1>5, <1>6 DEF IInv, TypeOK, Codes
  <1>8. \A v \in Workers : PhaseOK(v)' /\ AnswerOK(v)'
    <2> TAKE v \in Workers
    <2>1. CASE v = w
      BY <1>3, <2>1 DEF PhaseOK, AnswerOK
    <2>2. CASE v # w
      <3>1. PhaseOK(v) /\ AnswerOK(v)
        BY DEF IInv
      <3>2. PhaseOK(v)'
        BY <1>3, <2>2, <3>1 DEF PhaseOK
      <3>3. AnswerOK(v)'
        BY <1>1, <1>3, <2>2, <3>1 DEF AnswerOK, Key, ValidUser
      <3>4. QED
        BY <3>2, <3>3
    <2>3. QED
      BY <2>1, <2>2
  <1>9. IndexOK'
    <2>1. \A v \in Workers : pc[v] = "inserted" => v # w
      BY <1>1
    <2>2. \A v \in Workers : v # w => Key(v)' = Key(v)
      BY <1>3 DEF Key
    <2>3. \A v \in Workers : pc'[v] = "inserted" => v # w
      BY <1>3
    <2>4. QED
      BY <1>1, <1>3, <2>1, <2>2, <2>3 DEF IInv, IndexOK
  <1>10. RolesOK'
    BY <1>1, <1>4 DEF IInv, RolesOK
  <1>11. QED
    BY <1>7, <1>8, <1>9, <1>10 DEF IInv

\* Every step keeps the invariant.
LEMMA NextInv == IInv /\ [Next]_vars => IInv'
  <1> SUFFICES ASSUME IInv, [Next]_vars PROVE IInv'
    OBVIOUS
  <1>1. CASE UNCHANGED vars
    BY <1>1 DEF vars, IInv, TypeOK, PhaseOK, AnswerOK, IndexOK, RolesOK, Key, ValidUser
  <1>2. ASSUME NEW w \in Workers, NEW kind \in Creating, NEW n \in Names,
               NEW value \in Payloads(kind),
               FindFree(w, kind, n, value) \/ FindTaken(w, kind, n, value)
        PROVE  IInv'
    BY <1>2, FindFreeInv, FindTakenInv
  <1>3. ASSUME NEW w \in Workers, NEW n \in Names, NEW p \in Passwords,
               \/ Login(w, n, p)
               \/ \E kind \in Refusable : WrongCredentials(w, kind, n, p)
        PROVE  IInv'
    BY <1>3, LoginInv, WrongCredentialsInv
  <1>4. ASSUME NEW w \in Workers, Step(w)
        PROVE  IInv'
    BY <1>4, InsertInv, DuplicateInv, CommitInv, LogRefusalInv, AnswerInv DEF Step
  <1>5. ASSUME NEW w \in Workers, Abort(w)
        PROVE  IInv'
    BY <1>5, AbortInv
  <1>6. QED
    BY <1>1, <1>2, <1>3, <1>4, <1>5 DEF Next

\* The invariant holds throughout.
LEMMA Inductive == Spec => []IInv
  BY InitInv, NextInv, PTL DEF Spec

-----------------------------------------------------------------------------
(* The log *)

\* The sessions about to answer 401 to a request of this kind.
Owing(kind) == {w \in Workers : code[w] = 401 /\ req[w].kind = kind}

\* Each of them has its row in the log, besides those already answered.
LoggedInv ==
    \A kind \in Refusable : refused[kind] + Cardinality(Owing(kind)) <= logs[kind]

\* The sessions that still owe a 401 can be counted.
LEMMA OwingFinite ==
    ASSUME NEW kind
    PROVE  IsFiniteSet(Owing(kind)) /\ Cardinality(Owing(kind)) \in Nat
  <1>1. Owing(kind) \subseteq Workers
    BY DEF Owing
  <1>2. QED
    BY <1>1, RegistryAssumption, FS_Subset, FS_CardinalityType

\* A step that only lets go of refusals owes no new row.
LEMMA OwingKept ==
    ASSUME IInv, LoggedInv, UNCHANGED <<logs, refused>>,
           \A v \in Workers : code'[v] = 401 => code[v] = 401 /\ req'[v] = req[v]
    PROVE  LoggedInv'
  <1> SUFFICES ASSUME NEW kind \in Refusable
               PROVE  refused'[kind] + Cardinality(Owing(kind)') <= logs'[kind]
    BY DEF LoggedInv
  <1>1. Owing(kind)' \subseteq Owing(kind)
    BY DEF Owing
  <1>2. Cardinality(Owing(kind)') <= Cardinality(Owing(kind)) /\ Cardinality(Owing(kind)') \in Nat
    BY <1>1, OwingFinite, FS_Subset, FS_CardinalityType
  <1>3. refused[kind] + Cardinality(Owing(kind)) <= logs[kind]
    BY DEF LoggedInv
  <1>4. refused[kind] \in Nat /\ logs[kind] \in Nat /\ Cardinality(Owing(kind)) \in Nat
    BY OwingFinite DEF IInv, TypeOK
  <1>5. QED
    BY <1>2, <1>3, <1>4

\* The logged row pays for the 401 that is now owed.
LEMMA LogRefusalLogged ==
    ASSUME IInv, LoggedInv, NEW w \in Workers, LogRefusal(w)
    PROVE  LoggedInv'
  <1>1. /\ pc[w] = "refused" /\ code' = [code EXCEPT ![w] = 401]
        /\ logs' = [logs EXCEPT ![req[w].kind] = @ + 1]
        /\ UNCHANGED <<refused, req>>
    BY DEF LogRefusal, Reply, Logged
  <1>2. req[w].kind \in Refusable /\ code[w] = 0
    BY <1>1 DEF IInv, TypeOK, PhaseOK, Codes
  <1>3. code \in [Workers -> Codes] /\ logs \in [Refusable -> Nat] /\ refused \in [Refusable -> Nat]
    BY DEF IInv, TypeOK
  <1> SUFFICES ASSUME NEW kind \in Refusable
               PROVE  refused'[kind] + Cardinality(Owing(kind)') <= logs'[kind]
    BY DEF LoggedInv
  <1>4. refused[kind] + Cardinality(Owing(kind)) <= logs[kind] /\ Cardinality(Owing(kind)) \in Nat
    BY OwingFinite DEF LoggedInv
  <1>5. CASE kind = req[w].kind
    <2>1. Owing(kind)' = Owing(kind) \cup {w} /\ w \notin Owing(kind)
      BY <1>1, <1>2, <1>3, <1>5 DEF Owing
    <2>2. Cardinality(Owing(kind)') = Cardinality(Owing(kind)) + 1
      BY <2>1, OwingFinite, FS_AddElement
    <2>3. logs'[kind] = logs[kind] + 1
      BY <1>1, <1>3, <1>5
    <2>4. QED
      BY <1>1, <1>3, <1>4, <2>2, <2>3
  <1>6. CASE kind # req[w].kind
    <2>1. Owing(kind)' = Owing(kind)
      BY <1>1, <1>2, <1>3, <1>6 DEF Owing
    <2>2. logs'[kind] = logs[kind]
      BY <1>1, <1>3, <1>6
    <2>3. QED
      BY <1>1, <1>4, <2>1, <2>2
  <1>7. QED
    BY <1>5, <1>6

\* The answer settles the 401 it owed, and counts it.
LEMMA AnswerLogged ==
    ASSUME IInv, LoggedInv, NEW w \in Workers, Answer(w)
    PROVE  LoggedInv'
  <1>1. /\ refused' = IF code[w] = 401 THEN [refused EXCEPT ![req[w].kind] = @ + 1] ELSE refused
        /\ req' = [req EXCEPT ![w] = NoRequest] /\ code' = [code EXCEPT ![w] = 0]
        /\ UNCHANGED logs
    BY DEF Answer, Forget
  <1>2. /\ code \in [Workers -> Codes] /\ req \in [Workers -> Request \cup {NoRequest}]
        /\ logs \in [Refusable -> Nat] /\ refused \in [Refusable -> Nat]
    BY DEF IInv, TypeOK
  <1>3. \A v \in Workers : code'[v] = 401 => code[v] = 401 /\ req'[v] = req[v]
    BY <1>1, <1>2
  <1>4. CASE code[w] # 401
    BY <1>1, <1>3, <1>4, OwingKept
  <1>5. CASE code[w] = 401
    <2>1. req[w].kind \in Refusable
      BY <1>5 DEF IInv, AnswerOK
    <2> SUFFICES ASSUME NEW kind \in Refusable
                 PROVE  refused'[kind] + Cardinality(Owing(kind)') <= logs'[kind]
      BY DEF LoggedInv
    <2>2. refused[kind] + Cardinality(Owing(kind)) <= logs[kind] /\ Cardinality(Owing(kind)) \in Nat
      BY OwingFinite DEF LoggedInv
    <2>3. Owing(kind)' = Owing(kind) \ {w}
      BY <1>1, <1>2 DEF Owing
    <2>4. Cardinality(Owing(kind)') = IF w \in Owing(kind) THEN Cardinality(Owing(kind)) - 1
                                      ELSE Cardinality(Owing(kind))
      BY <2>3, OwingFinite, FS_RemoveElement
    <2>5. w \in Owing(kind) <=> kind = req[w].kind
      BY <1>5 DEF Owing
    <2>6. refused'[kind] = IF kind = req[w].kind THEN refused[kind] + 1 ELSE refused[kind]
      BY <1>1, <1>2, <1>5, <2>1
    <2>7. QED
      BY <1>1, <1>2, <2>2, <2>4, <2>5, <2>6
  <1>6. QED
    BY <1>4, <1>5

\* Every step keeps as many log rows as 401s answered and owed.
LEMMA NextLogged == IInv /\ LoggedInv /\ [Next]_vars => LoggedInv'
  <1> SUFFICES ASSUME IInv, LoggedInv, [Next]_vars PROVE LoggedInv'
    OBVIOUS
  <1> DEFINE Lets == \A v \in Workers : code'[v] = 401 => code[v] = 401 /\ req'[v] = req[v]
  <1> USE DEF IInv, TypeOK, Codes
  <1>1. CASE UNCHANGED vars
    BY <1>1, OwingKept DEF vars
  <1>2. ASSUME NEW w \in Workers, NEW kind \in Creating, NEW n \in Names,
               NEW value \in Payloads(kind), FindFree(w, kind, n, value)
        PROVE  LoggedInv'
    <2>1. pc[w] = "idle" /\ PhaseOK(w)
      BY <1>2 DEF FindFree, Accept
    <2>2. Lets
      BY <1>2, <2>1 DEF FindFree, PhaseOK
    <2>3. QED
      BY <1>2, <2>2, OwingKept DEF FindFree, Accept
  <1>3. ASSUME NEW w \in Workers, NEW kind \in Creating, NEW n \in Names,
               NEW value \in Payloads(kind), FindTaken(w, kind, n, value)
        PROVE  LoggedInv'
    <2>1. Lets
      BY <1>3 DEF FindTaken, Reply, TakenCode
    <2>2. QED
      BY <1>3, <2>1, OwingKept DEF FindTaken, Accept
  <1>4. ASSUME NEW w \in Workers, NEW n \in Names, NEW p \in Passwords, Login(w, n, p)
        PROVE  LoggedInv'
    <2>1. Lets
      BY <1>4 DEF Login, Reply
    <2>2. QED
      BY <1>4, <2>1, OwingKept DEF Login, Accept
  <1>5. ASSUME NEW w \in Workers, NEW kind \in Refusable, NEW n \in Names,
               NEW p \in Passwords, WrongCredentials(w, kind, n, p)
        PROVE  LoggedInv'
    <2>1. pc[w] = "idle" /\ PhaseOK(w)
      BY <1>5 DEF WrongCredentials, Accept
    <2>2. Lets
      BY <1>5, <2>1 DEF WrongCredentials, PhaseOK
    <2>3. QED
      BY <1>5, <2>2, OwingKept DEF WrongCredentials, Accept
  <1>6. ASSUME NEW w \in Workers, Insert(w) \/ Duplicate(w) \/ Commit(w) \/ Abort(w)
        PROVE  LoggedInv'
    <2>1. Lets
      BY <1>6 DEF Insert, Duplicate, Commit, Abort, Reply, Forget
    <2>2. QED
      BY <1>6, <2>1, OwingKept DEF Insert, Duplicate, Commit, Abort
  <1>7. ASSUME NEW w \in Workers, LogRefusal(w) \/ Answer(w)
        PROVE  LoggedInv'
    BY <1>7, LogRefusalLogged, AnswerLogged
  <1>8. QED
    BY <1>1, <1>2, <1>3, <1>4, <1>5, <1>6, <1>7 DEF Next, Step

\* At first there are none of either.
LEMMA InitLogged == Init => LoggedInv
  <1> SUFFICES ASSUME Init, NEW kind \in Refusable
               PROVE  refused[kind] + Cardinality(Owing(kind)) <= logs[kind]
    BY DEF LoggedInv
  <1>1. Owing(kind) = {}
    BY DEF Init, Owing
  <1>2. QED
    BY <1>1, FS_EmptySet DEF Init

-----------------------------------------------------------------------------
(* Theorems *)

\* Every variable of the registry keeps its type.
THEOREM TypeCorrect == Spec => []TypeOK
  <1>1. IInv => TypeOK
    BY DEF IInv
  <1>2. QED
    BY <1>1, Inductive, PTL

\* Whoever is told 201 owns the name with the row asked for (accounts.py:31-41,
\* routes.py:155-167), for any number of sessions.
THEOREM CreationIsOnRecord == Spec => []CreatedIsOnRecord
  <1>1. IInv => CreatedIsOnRecord
    BY DEF IInv, AnswerOK, CreatedIsOnRecord
  <1>2. QED
    BY <1>1, Inductive, PTL

\* A name is refused only because a row of that name is committed.
THEOREM RefusalIsJustified == Spec => []RefusedWasTaken
  <1>1. IInv => RefusedWasTaken
    BY DEF IInv, AnswerOK, RefusedWasTaken
  <1>2. QED
    BY <1>1, Inductive, PTL

\* Tokens go to who presented the password on record or the administrator's, and
\* administrators' tokens to administrators (routes.py:115-134, 163-169).
THEOREM TokensEarned == Spec => []TokensAreEarned
  <1>1. ASSUME IInv PROVE TokensAreEarned
    <2>1. ASSUME NEW w \in Workers, pc[w] = "answer", code[w] \in {200, 201},
                 req[w].kind \in {"register", "login"}
          PROVE  ValidUser(req[w].name, req[w].value) \/ ValidAdmin(req[w].name, req[w].value)
      <3>1. PhaseOK(w) /\ AnswerOK(w)
        BY <1>1 DEF IInv
      <3>2. CASE code[w] = 200
        BY <3>1, <3>2 DEF AnswerOK
      <3>3. CASE code[w] = 201
        <4>1. /\ req[w] \in Request /\ req[w].value \in Payloads(req[w].kind)
              /\ req[w].kind = "register" /\ rows[Key(w)] = Row(req[w])
          BY <2>1, <3>1, <3>3 DEF PhaseOK, AnswerOK, Creating
        <4>2. Row(req[w]) # Absent /\ Row(req[w]).password = req[w].value
          BY <4>1, RowType DEF Creating
        <4>3. Key(w) = <<"auth_user", req[w].name>>
          BY <4>1 DEF Key, Table
        <4>4. QED
          BY <4>1, <4>2, <4>3 DEF ValidUser
      <3>4. QED
        BY <2>1, <3>2, <3>3
    <2>2. QED
      BY <1>1, <2>1 DEF IInv, RolesOK, MayBeAdmin, SeededAdmin, TokensAreEarned
  <1>2. QED
    BY <1>1, Inductive, PTL

\* No 401 without its committed row in security_logs (routes.py:123-133, 513-524).
THEOREM RefusalsLogged == Spec => []RefusalsAreLogged
  <1>1. ASSUME IInv, LoggedInv PROVE RefusalsAreLogged
    <2> SUFFICES ASSUME NEW kind \in Refusable PROVE refused[kind] <= logs[kind]
      BY DEF RefusalsAreLogged
    <2>1. refused[kind] + Cardinality(Owing(kind)) <= logs[kind] /\ Cardinality(Owing(kind)) \in Nat
      BY <1>1, OwingFinite DEF LoggedInv
    <2>2. refused[kind] \in Nat /\ logs[kind] \in Nat
      BY <1>1 DEF IInv, TypeOK
    <2>3. QED
      BY <2>1, <2>2
  <1>2. Spec => []LoggedInv
    BY Inductive, InitLogged, NextLogged, PTL DEF Spec
  <1>3. QED
    BY <1>1, <1>2, Inductive, PTL

\* A step of the registry binds one free name, or changes no binding.
LEMMA StepBinds ==
    ASSUME IInv, [Next]_vars
    PROVE  [Binding!Next]_rows
  <1>1. CASE UNCHANGED rows
    BY <1>1
  <1>2. ASSUME NEW w \in Workers, Commit(w)
        PROVE  Binding!Next
    <2>1. pc[w] = "inserted" /\ rows' = [rows EXCEPT ![Key(w)] = Row(req[w])]
      BY <1>2 DEF Commit
    <2>2. /\ req[w] \in Request /\ req[w].kind \in Creating
          /\ req[w].value \in Payloads(req[w].kind) /\ index[Key(w)] = w
      BY <2>1 DEF IInv, PhaseOK, IndexOK
    <2>3. Key(w) \in Keys /\ Row(req[w]) \in User \cup Holder
      BY <2>2, KeyType, RowType DEF Key
    <2>4. rows[Key(w)] = Absent
      BY <2>2, <2>3 DEF IInv, IndexOK
    <2>5. QED
      BY <2>1, <2>3, <2>4 DEF Binding!Next, Binding!Bind
  <1>3. UNCHANGED rows \/ \E w \in Workers : Commit(w)
    <2>1. ASSUME NEW w \in Workers, NEW kind \in Creating, NEW n \in Names,
                 NEW value \in Payloads(kind), FindFree(w, kind, n, value)
          PROVE  UNCHANGED rows
      BY <2>1 DEF FindFree, Accept
    <2>2. ASSUME NEW w \in Workers, NEW kind \in Creating, NEW n \in Names,
                 NEW value \in Payloads(kind), FindTaken(w, kind, n, value)
          PROVE  UNCHANGED rows
      BY <2>2 DEF FindTaken, Accept
    <2>3. ASSUME NEW w \in Workers, NEW n \in Names, NEW p \in Passwords, Login(w, n, p)
          PROVE  UNCHANGED rows
      BY <2>3 DEF Login, Accept
    <2>4. ASSUME NEW w \in Workers, NEW kind \in Refusable, NEW n \in Names,
                 NEW p \in Passwords, WrongCredentials(w, kind, n, p)
          PROVE  UNCHANGED rows
      BY <2>4 DEF WrongCredentials, Accept
    <2>5. ASSUME NEW w \in Workers,
                 Insert(w) \/ Duplicate(w) \/ LogRefusal(w) \/ Answer(w) \/ Abort(w)
          PROVE  UNCHANGED rows
      BY <2>5 DEF Insert, Duplicate, LogRefusal, Answer, Abort
    <2>6. CASE UNCHANGED vars
      BY <2>6 DEF vars
    <2>7. QED
      BY <2>1, <2>2, <2>3, <2>4, <2>5, <2>6 DEF Next, Step
  <1>4. QED
    BY <1>1, <1>2, <1>3

\* The registry implements NameBinding: a name is bound once, by one request.
THEOREM NamesAreKept == Spec => KeepsNames
  <1>1. Init => Binding!Init
    BY DEF Init, Binding!Init
  <1>2. IInv /\ [Next]_vars => [Binding!Next]_rows
    BY StepBinds
  <1>3. QED
    BY <1>1, <1>2, Inductive, PTL DEF Spec, KeepsNames, Binding!Spec
=============================================================================
