--------------------------- MODULE AccountsProofs ---------------------------
(***************************************************************************)
(* Theorems about Accounts and SaleDesk.                                   *)
(*                                                                         *)
(* For any number of accounts, handlers and sessions, a session that is    *)
(* accepted was opened with the authenticator of today, a code opens one,  *)
(* and a session that ended stays ended.  All three rest on the token      *)
(* version: what a session was opened with only has to agree with the      *)
(* account while the version is the one the token carries, and whatever    *)
(* changes role, activity or authenticator raises the version (Grown).     *)
(*                                                                         *)
(* For any number of sales and requests, what the cafe's counter has sent  *)
(* it holds until it is told how it went, and the pages that keep their    *)
(* keys post a sale once.  Both rest on the keys: a key belongs to one     *)
(* attempt, and while its page has the cart of the sale, it is given up or *)
(* the one the page will send again (DeskInv).                             *)
(***************************************************************************)
EXTENDS SaleDesk, TLAPS

-----------------------------------------------------------------------------
(* The inductive invariant of the accounts.                                 *)

\* A code that opens a session has a secret, unless it is no code at all.
Opens(code) == code.kind = "none" \/ code.secret = NoSecret => code = NoCode

\* The recovery codes are those of the authenticator.
RecoveryInv == \A u \in Users : account[u].recovery \subseteq {account[u].mfa}

\* No two accounts ever share a secret.
Owned(a) == {a.mfa, a.pending}
SecretsApart ==
    /\ \A u \in Users : account[u].mfa <= secrets /\ account[u].pending <= secrets
    /\ \A u, v \in Users :
          u # v => Owned(account[u]) \cap Owned(account[v]) \subseteq {NoSecret}

\* Session i carries the version its account has.
Current(i) == sessions[i].version = account[sessions[i].user].version

\* While it does, its code is one of the account's authenticator, and used up.
SessionInv ==
    \A i \in DOMAIN sessions :
        LET code == sessions[i].code
            a == account[sessions[i].user]
        IN  /\ Opens(code)
            /\ sessions[i].version <= a.version
            /\ Current(i) =>
                  /\ code.secret = a.mfa
                  /\ code.kind = "totp" => code.step <= a.last
                  /\ code.kind = "recovery" => code.secret \notin a.recovery

OnceInv ==
    \A i, j \in DOMAIN sessions :
        /\ i # j /\ sessions[i].user = sessions[j].user
        /\ Current(i) /\ Current(j) /\ sessions[i].code = sessions[j].code
        => sessions[i].code = NoCode

\* What a login read is the account as it is, unless the version was raised since.
LoginInv ==
    \A h \in DOMAIN request :
        LET q == request[h]
            a == account[q.user]
        IN  q.op = "login" =>
              /\ Opens(q.code)
              /\ q.code.kind # "recovery" => q.code.secret = q.row.mfa
              /\ q.row.version <= a.version
              /\ q.row.version = a.version => q.row.mfa = a.mfa

AccountsInv ==
    AccountsTypeOK /\ RecoveryInv /\ SecretsApart /\ SessionInv /\ OnceInv /\ LoginInv

\* What an action may do to an account: raise its version, or leave alone what the
\* sessions rely on and only use codes up.
Grown(a, b) ==
    \/ a.version < b.version
    \/ /\ b.version = a.version /\ b.active = a.active /\ b.role = a.role
       /\ b.mfa = a.mfa /\ b.recovery \subseteq a.recovery /\ a.last <= b.last

Delta ==
    /\ account' \in [Users -> AccountType]
    /\ secrets' \in 1..MaxSecret /\ step' \in 0..MaxStep
    /\ \A u \in Users : Grown(account[u], account'[u])
    /\ RecoveryInv' /\ SecretsApart'

\* What every action keeps: no account shrinks, and no session is forgotten.
Kept ==
    /\ \A u \in Users : Grown(account[u], account'[u])
    /\ \A i \in DOMAIN sessions : i \in DOMAIN sessions' /\ sessions'[i] = sessions[i]

-----------------------------------------------------------------------------
(* Types.                                                                   *)

\* A code and an account as the type invariant has them.
LEMMA TotpType ==
    ASSUME step \in 0..MaxStep, NEW s \in Window, NEW e \in 0..MaxSecret
    PROVE  Totp(e, s) \in CodeType
  <1>1. s \in Steps
    BY AccountAssumption DEF Window, Steps, NoStep
  <1> QED BY <1>1 DEF Totp, CodeType

LEMMA NoCodeType == NoCode \in CodeType
  BY AccountAssumption DEF NoCode, CodeType, Steps, NoStep, NoSecret

LEMMA RecoveryType ==
    ASSUME NEW e \in 0..MaxSecret
    PROVE  Recovery(e) \in CodeType
  BY AccountAssumption DEF Recovery, CodeType, Steps, NoStep

\* What a login may present.
LEMMA CodesType ==
    ASSUME AccountsTypeOK, NEW row \in AccountType, NEW code \in Codes(row)
    PROVE  /\ code \in CodeType
           /\ Opens(code)
           /\ code.kind # "recovery" => code.secret = row.mfa
  <1>1. step \in 0..MaxStep /\ row.mfa \in 0..MaxSecret /\ secrets \in 1..MaxSecret
    BY DEF AccountsTypeOK, AccountType
  <1>2. CASE row.mfa # NoSecret
    <2>1. (\E s \in Window : code = Totp(row.mfa, s)) \/ (\E e \in 1..secrets : code = Recovery(e))
      BY <1>2 DEF Codes
    <2>2. CASE \E s \in Window : code = Totp(row.mfa, s)
      BY <1>1, <1>2, <2>2, TotpType DEF Totp, Opens
    <2>3. CASE \E e \in 1..secrets : code = Recovery(e)
      <3>1. PICK e \in 1..secrets : code = Recovery(e)
        BY <2>3
      <3>2. e \in 0..MaxSecret /\ e # NoSecret
        BY <1>1, AccountAssumption DEF NoSecret
      <3> QED BY <3>1, <3>2, RecoveryType DEF Recovery, Opens
    <2> QED BY <2>1, <2>2, <2>3
  <1>3. CASE row.mfa = NoSecret
    <2>1. code = NoCode
      BY <1>3 DEF Codes
    <2> QED BY <2>1, <1>3, NoCodeType DEF NoCode, Opens
  <1> QED BY <1>2, <1>3

LEMMA StartType ==
    ASSUME AccountsTypeOK, NEW h \in Handlers, NEW q \in RequestType, Start(h, q)
    PROVE  /\ DOMAIN request' = DOMAIN request \cup {h}
           /\ DOMAIN request' \subseteq Handlers
           /\ request'[h] = q
           /\ \A g \in DOMAIN request' : g # h => request'[g] = request[g]
           /\ \A g \in DOMAIN request' : request'[g] \in RequestType
  BY DEF AccountsTypeOK, Start

LEMMA EndType ==
    ASSUME AccountsTypeOK, NEW h, End(h)
    PROVE  /\ DOMAIN request' = DOMAIN request \ {h}
           /\ DOMAIN request' \subseteq Handlers
           /\ \A g \in DOMAIN request' : g \in DOMAIN request /\ request'[g] = request[g]
           /\ \A g \in DOMAIN request' : request'[g] \in RequestType
  BY DEF AccountsTypeOK, End

LEMMA RequestsType ==
    ASSUME AccountsTypeOK, NEW u \in Users, NEW code \in CodeType,
           NEW change \in Changes \cup {NoChange},
           NEW op \in {"login", "logout", "step_up", "enroll", "confirm", "disable", "manage"}
    PROVE  /\ Request(op, u, code, change) \in RequestType
           /\ Request(op, u, code, change).op = op
           /\ Request(op, u, code, change).user = u
           /\ Request(op, u, code, change).row = account[u]
           /\ Request(op, u, code, change).code = code
  BY DEF Request, RequestType, AccountsTypeOK

LEMMA InitType == AccountsInit => AccountsTypeOK
  <1> SUFFICES ASSUME AccountsInit PROVE AccountsTypeOK
    OBVIOUS
  <1>1. \A r \in Roles, e \in 0..MaxSecret : NewAccount(r, e) \in AccountType
    BY AccountAssumption DEF NewAccount, AccountType, Steps, NoStep, NoSecret
  <1>2. account \in [Users -> AccountType]
    BY <1>1, AccountAssumption DEF AccountsInit, Roles, NoSecret
  <1> QED BY <1>2, AccountAssumption DEF AccountsInit, AccountsTypeOK

-----------------------------------------------------------------------------
(* What an action that is a Delta keeps.                                    *)

LEMMA VersionTypes ==
    ASSUME AccountsTypeOK
    PROVE  /\ \A u \in Users : /\ account[u] \in AccountType
                               /\ account[u].version \in Nat /\ account[u].last \in Int
           /\ \A i \in DOMAIN sessions : /\ sessions[i].user \in Users
                                         /\ sessions[i].version \in Nat
                                         /\ sessions[i].code \in CodeType
                                         /\ sessions[i].code.step \in Int
           /\ \A h \in DOMAIN request : /\ request[h].user \in Users
                                        /\ request[h].row.version \in Nat
                                        /\ request[h].code.step \in Int
  <1>1. Steps \subseteq Int
    BY AccountAssumption DEF Steps, NoStep
  <1>2. \A u \in Users : account[u] \in AccountType
    BY DEF AccountsTypeOK
  <1>3. ASSUME NEW i \in DOMAIN sessions
        PROVE  sessions[i] \in SessionType
    <2>1. sessions \in Seq(SessionType)
      BY DEF AccountsTypeOK
    <2> QED BY <2>1
  <1>4. ASSUME NEW h \in DOMAIN request
        PROVE  request[h] \in RequestType
    BY DEF AccountsTypeOK
  <1> QED BY <1>1, <1>2, <1>3, <1>4 DEF AccountType, SessionType, CodeType, RequestType

LEMMA DeltaKeepsSessions ==
    ASSUME AccountsInv, Delta, NEW i \in DOMAIN sessions,
           i \in DOMAIN sessions', sessions'[i] = sessions[i]
    PROVE  /\ sessions'[i].version <= account'[sessions'[i].user].version
           /\ Current(i)' =>
                 /\ Current(i)
                 /\ sessions'[i].code.secret = account'[sessions'[i].user].mfa
                 /\ sessions'[i].code.kind = "totp" =>
                        sessions'[i].code.step <= account'[sessions'[i].user].last
                 /\ sessions'[i].code.kind = "recovery" =>
                        sessions'[i].code.secret \notin account'[sessions'[i].user].recovery
  <1> DEFINE u == sessions[i].user
  <1>1. /\ u \in Users /\ account[u].version \in Nat /\ account[u].last \in Int
        /\ sessions[i].version \in Nat /\ sessions[i].code.step \in Int
    BY VersionTypes DEF AccountsInv
  <1>2. account'[u].version \in Nat /\ account'[u].last \in Int
    <2>1. account'[u] \in AccountType
      BY <1>1 DEF Delta
    <2> QED BY <2>1, AccountAssumption DEF AccountType, Steps, NoStep
  <1>3. Grown(account[u], account'[u])
    BY <1>1 DEF Delta
  <1>4. /\ sessions[i].version <= account[u].version
        /\ Current(i) =>
              /\ sessions[i].code.secret = account[u].mfa
              /\ sessions[i].code.kind = "totp" => sessions[i].code.step <= account[u].last
              /\ sessions[i].code.kind = "recovery" =>
                     sessions[i].code.secret \notin account[u].recovery
    BY DEF AccountsInv, SessionInv
  <1> QED BY <1>1, <1>2, <1>3, <1>4 DEF Grown, Current

LEMMA DeltaKeepsLogins ==
    ASSUME AccountsInv, Delta,
           \A g \in DOMAIN request' : g \in DOMAIN request /\ request'[g] = request[g]
    PROVE  LoginInv'
  <1> SUFFICES ASSUME NEW h \in DOMAIN request', request'[h].op = "login"
               PROVE  /\ Opens(request'[h].code)
                      /\ request'[h].code.kind # "recovery" =>
                            request'[h].code.secret = request'[h].row.mfa
                      /\ request'[h].row.version <= account'[request'[h].user].version
                      /\ request'[h].row.version = account'[request'[h].user].version
                            => request'[h].row.mfa = account'[request'[h].user].mfa
    BY DEF LoginInv, Opens
  <1> DEFINE u == request[h].user
  <1>1. /\ u \in Users /\ account[u].version \in Nat /\ request[h].row.version \in Nat
    BY VersionTypes DEF AccountsInv
  <1>2. account'[u].version \in Nat
    <2>1. account'[u] \in AccountType
      BY <1>1 DEF Delta
    <2> QED BY <2>1 DEF AccountType
  <1>3. Grown(account[u], account'[u])
    BY <1>1 DEF Delta
  <1>4. /\ Opens(request[h].code)
        /\ request[h].code.kind # "recovery" => request[h].code.secret = request[h].row.mfa
        /\ request[h].row.version <= account[u].version
        /\ request[h].row.version = account[u].version => request[h].row.mfa = account[u].mfa
    BY DEF AccountsInv, LoginInv
  <1> QED BY <1>1, <1>2, <1>3, <1>4 DEF Grown

\* An action that ends a request, or none, and opens no session.
LEMMA DeltaKeepsInv ==
    ASSUME AccountsInv, Delta, sessions' = sessions,
           \A g \in DOMAIN request' : g \in DOMAIN request /\ request'[g] = request[g]
    PROVE  AccountsInv' /\ Kept
  <1>1. LoginInv'
    BY DeltaKeepsLogins
  <1>2. \A i \in DOMAIN sessions' : /\ i \in DOMAIN sessions /\ sessions'[i] = sessions[i]
                                    /\ Opens(sessions[i].code)
    BY DEF AccountsInv, SessionInv
  <1>3. SessionInv'
    BY <1>2, DeltaKeepsSessions DEF SessionInv, Opens
  <1>4. OnceInv'
    <2>1. \A i \in DOMAIN sessions' : Current(i)' => Current(i)
      BY <1>2, DeltaKeepsSessions
    <2> QED BY <1>2, <2>1 DEF OnceInv, AccountsInv
  <1>5. AccountsTypeOK'
    BY DEF AccountsInv, AccountsTypeOK, Delta
  <1> QED BY <1>1, <1>3, <1>4, <1>5 DEF AccountsInv, Delta, Kept

LEMMA NoDelta ==
    ASSUME AccountsInv, account' = account, secrets' = secrets, step' \in 0..MaxStep
    PROVE  Delta
  <1>1. \A u \in Users : account[u].last \in Int
    BY VersionTypes DEF AccountsInv
  <1> QED BY <1>1 DEF Delta, Grown, AccountsInv, AccountsTypeOK, RecoveryInv, SecretsApart

\* One account is rewritten, perhaps with a secret that is new.
LEMMA OneDelta ==
    ASSUME AccountsInv, NEW u \in Users, NEW b \in AccountType,
           account' = [account EXCEPT ![u] = b], step' = step,
           Grown(account[u], b), b.recovery \subseteq {b.mfa},
           \/ /\ secrets' = secrets
              /\ Owned(b) \subseteq Owned(account[u]) \cup {NoSecret}
           \/ /\ secrets < MaxSecret /\ secrets' = secrets + 1
              /\ Owned(b) \subseteq Owned(account[u]) \cup {NoSecret, secrets + 1}
    PROVE  Delta
  <1>1. /\ secrets \in 1..MaxSecret /\ step \in 0..MaxStep
        /\ account \in [Users -> AccountType]
        /\ \A v \in Users : /\ account[v].mfa \in Nat /\ account[v].pending \in Nat
                            /\ account[v].last \in Int
    <2>1. /\ secrets \in 1..MaxSecret /\ step \in 0..MaxStep
          /\ account \in [Users -> AccountType]
      BY DEF AccountsInv, AccountsTypeOK
    <2>2. \A v \in Users : account[v] \in AccountType
      BY <2>1
    <2>3. \A a \in AccountType : a.mfa \in Nat /\ a.pending \in Nat /\ a.last \in Int
      BY AccountAssumption DEF AccountType, Steps, NoStep
    <2> QED BY <2>1, <2>2, <2>3
  <1>2. account' \in [Users -> AccountType] /\ account'[u] = b
        /\ \A v \in Users : v # u => account'[v] = account[v]
    BY <1>1
  <1>3. \A v \in Users : Grown(account[v], account'[v])
    BY <1>1, <1>2 DEF Grown
  <1>4. RecoveryInv'
    BY <1>2 DEF RecoveryInv, AccountsInv
  <1>5. secrets' \in 1..MaxSecret /\ secrets <= secrets'
    BY <1>1, AccountAssumption
  <1>6. b.mfa \in Nat /\ b.pending \in Nat
    BY DEF AccountType
  <1>7. \A v \in Users : account[v].mfa <= secrets /\ account[v].pending <= secrets
    BY DEF AccountsInv, SecretsApart
  <1>8. SecretsApart'
    <2>1. ASSUME NEW v \in Users
          PROVE  account'[v].mfa <= secrets' /\ account'[v].pending <= secrets'
      <3>1. CASE v = u
        BY <1>1, <1>2, <1>5, <1>6, <1>7, <3>1, AccountAssumption DEF Owned, NoSecret
      <3>2. CASE v # u
        BY <1>1, <1>2, <1>5, <1>7, <3>2
      <3> QED BY <3>1, <3>2
    <2>2. ASSUME NEW v \in Users, v # u
          PROVE  Owned(account[v]) \cap Owned(b) \subseteq {NoSecret}
      <3>1. Owned(account[v]) \cap Owned(account[u]) \subseteq {NoSecret}
        BY <2>2 DEF AccountsInv, SecretsApart
      <3>2. secrets + 1 \notin Owned(account[v])
        BY <1>1, <1>7 DEF Owned
      <3> QED BY <3>1, <3>2
    <2>3. ASSUME NEW v \in Users, NEW w \in Users, v # w
          PROVE  Owned(account'[v]) \cap Owned(account'[w]) \subseteq {NoSecret}
      <3>1. CASE v = u
        BY <1>2, <2>2, <2>3, <3>1
      <3>2. CASE w = u
        BY <1>2, <2>2, <2>3, <3>2
      <3>3. CASE v # u /\ w # u
        BY <1>2, <2>3, <3>3 DEF AccountsInv, SecretsApart
      <3> QED BY <3>1, <3>2, <3>3
    <2> QED BY <2>1, <2>3 DEF SecretsApart, Owned
  <1> QED BY <1>1, <1>2, <1>3, <1>4, <1>5, <1>8 DEF Delta

-----------------------------------------------------------------------------
(* The requests.                                                            *)

LEMMA StartKeepsInv ==
    ASSUME AccountsInv, NEW h \in Handlers, NEW q \in RequestType, Start(h, q),
           UNCHANGED <<account, step, secrets, sessions>>,
           q.op = "login" =>
              /\ Opens(q.code)
              /\ q.code.kind # "recovery" => q.code.secret = q.row.mfa
              /\ q.row = account[q.user]
    PROVE  AccountsInv' /\ Kept
  <1>1. /\ DOMAIN request' \subseteq Handlers
        /\ request'[h] = q
        /\ \A g \in DOMAIN request' : g # h => g \in DOMAIN request /\ request'[g] = request[g]
        /\ \A g \in DOMAIN request' : request'[g] \in RequestType
    <2>1. AccountsTypeOK
      BY DEF AccountsInv
    <2>2. /\ DOMAIN request' = DOMAIN request \cup {h}
          /\ DOMAIN request' \subseteq Handlers
          /\ request'[h] = q
          /\ \A g \in DOMAIN request' : g # h => request'[g] = request[g]
          /\ \A g \in DOMAIN request' : request'[g] \in RequestType
      BY <2>1, StartType
    <2> QED BY <2>2
  <1>2. AccountsTypeOK'
    BY <1>1 DEF AccountsInv, AccountsTypeOK
  <1>3. account[q.user].version \in Nat
    <2>1. q.user \in Users
      BY DEF RequestType
    <2> QED BY <2>1, VersionTypes DEF AccountsInv
  <1>4. LoginInv'
    <2> SUFFICES ASSUME NEW g \in DOMAIN request', request'[g].op = "login"
                 PROVE  /\ Opens(request'[g].code)
                        /\ request'[g].code.kind # "recovery" =>
                              request'[g].code.secret = request'[g].row.mfa
                        /\ request'[g].row.version <= account'[request'[g].user].version
                        /\ request'[g].row.version = account'[request'[g].user].version
                              => request'[g].row.mfa = account'[request'[g].user].mfa
      BY DEF LoginInv, Opens
    <2>1. CASE g = h
      BY <1>1, <1>3, <2>1
    <2>2. CASE g # h
      BY <1>1, <2>2 DEF AccountsInv, LoginInv
    <2> QED BY <2>1, <2>2
  <1>5. RecoveryInv' /\ SecretsApart'
    BY DEF AccountsInv, RecoveryInv, SecretsApart, Owned
  <1>6. SessionInv' /\ OnceInv'
    BY DEF AccountsInv, SessionInv, OnceInv, Current, Opens
  <1>7. Kept
    <2>1. \A u \in Users : account[u].last \in Int
      BY VersionTypes DEF AccountsInv
    <2> QED BY <2>1 DEF Kept, Grown
  <1> QED BY <1>2, <1>4, <1>5, <1>6, <1>7 DEF AccountsInv

LEMMA ReadForLoginKeepsInv ==
    ASSUME AccountsInv, NEW h \in Handlers, NEW u \in Users, NEW code \in Codes(account[u]),
           ReadForLogin(h, u, code)
    PROVE  AccountsInv' /\ Kept
  <1> DEFINE q == Request("login", u, code, NoChange)
  <1>1. account[u] \in AccountType
    BY VersionTypes DEF AccountsInv
  <1>2. /\ code \in CodeType /\ Opens(code)
        /\ code.kind # "recovery" => code.secret = account[u].mfa
    BY <1>1, CodesType DEF AccountsInv
  <1>3. /\ q \in RequestType /\ q.user = u /\ q.row = account[u] /\ q.code = code
    BY <1>2, RequestsType DEF AccountsInv
  <1>4. Start(h, q) /\ UNCHANGED <<account, step, secrets, sessions>>
    BY DEF ReadForLogin
  <1> HIDE DEF q
  <1> QED BY <1>2, <1>3, <1>4, StartKeepsInv

LEMMA BeginKeepsInv ==
    ASSUME AccountsInv, NEW h \in Handlers, NEW i \in DOMAIN sessions,
           NEW op \in {"logout", "step_up", "enroll", "confirm", "disable", "manage"},
           NEW code \in CodeType, NEW change \in Changes \cup {NoChange},
           Begin(h, i, op, code, change)
    PROVE  AccountsInv' /\ Kept
  <1> DEFINE q == Request(op, sessions[i].user, code, change)
  <1>1. sessions[i].user \in Users
    BY VersionTypes DEF AccountsInv
  <1>2. q \in RequestType /\ q.op # "login"
    BY <1>1, RequestsType DEF AccountsInv
  <1>3. Start(h, q) /\ UNCHANGED <<account, step, secrets, sessions>>
    BY DEF Begin
  <1> HIDE DEF q
  <1> QED BY <1>2, <1>3, StartKeepsInv

LEMMA BeginRequestKeepsInv ==
    ASSUME AccountsInv, NEW h \in Handlers, NEW i \in DOMAIN sessions, BeginRequest(h, i)
    PROVE  AccountsInv' /\ Kept
  <1>1. sessions[i].user \in Users
    BY VersionTypes DEF AccountsInv
  <1>2. /\ account[sessions[i].user].mfa \in 0..MaxSecret
        /\ account[sessions[i].user].pending \in 0..MaxSecret
    <2>1. account[sessions[i].user] \in AccountType
      BY <1>1, VersionTypes DEF AccountsInv
    <2> QED BY <2>1 DEF AccountType
  <1>3. ASSUME NEW s \in Window
        PROVE  /\ Totp(account[sessions[i].user].pending, s) \in CodeType
               /\ Totp(account[sessions[i].user].mfa, s) \in CodeType
    BY <1>2, TotpType DEF AccountsInv, AccountsTypeOK
  <1>4. CASE BeginLogout(h, i) \/ BeginStepUp(h, i) \/ BeginEnroll(h, i)
    BY <1>4, NoCodeType, BeginKeepsInv DEF BeginLogout, BeginStepUp, BeginEnroll
  <1>5. ASSUME NEW s \in Window, BeginConfirm(h, i, s) PROVE AccountsInv' /\ Kept
    BY <1>3, <1>5, BeginKeepsInv DEF BeginConfirm, RowOf
  <1>6. ASSUME NEW s \in Window, BeginDisable(h, i, s) PROVE AccountsInv' /\ Kept
    BY <1>3, <1>6, BeginKeepsInv DEF BeginDisable, RowOf
  <1>7. ASSUME NEW change \in Changes, BeginManage(h, i, change) PROVE AccountsInv' /\ Kept
    BY <1>7, NoCodeType, BeginKeepsInv DEF BeginManage
  <1> QED BY <1>4, <1>5, <1>6, <1>7 DEF BeginRequest

-----------------------------------------------------------------------------
(* Their ends.                                                              *)

\* A request that is ended, with its account as it is now.
LEMMA EndingFacts ==
    ASSUME AccountsInv, NEW h \in DOMAIN request
    PROVE  /\ request[h].user \in Users /\ account[request[h].user] \in AccountType
           /\ request[h].code \in CodeType
           /\ request[h].change.user \in Users /\ request[h].change.role \in Roles
           /\ request[h].change.active \in BOOLEAN
  <1>1. request[h] \in RequestType
    BY DEF AccountsInv, AccountsTypeOK
  <1>2. NoChange.user \in Users /\ NoChange.role \in Roles /\ NoChange.active \in BOOLEAN
    BY AccountAssumption DEF NoChange, Roles
  <1>3. \A c \in Changes : c.user \in Users /\ c.role \in Roles /\ c.active \in BOOLEAN
    BY AccountAssumption
  <1> QED BY <1>1, <1>2, <1>3, VersionTypes DEF RequestType, AccountsInv

LEMMA EndKeepsInv ==
    ASSUME AccountsInv, Delta, NEW h, End(h), sessions' = sessions
    PROVE  AccountsInv' /\ Kept
  <1>1. AccountsTypeOK
    BY DEF AccountsInv
  <1>2. \A g \in DOMAIN request' : g \in DOMAIN request /\ request'[g] = request[g]
    BY <1>1, EndType
  <1> QED BY <1>2, DeltaKeepsInv

\* The new value of an account whose version is raised.
LEMMA EnrolledFacts ==
    ASSUME NEW a \in AccountType, NEW code \in CodeType, code.secret # NoSecret
    PROVE  LET b == Enrolled(a, code)
           IN  /\ b \in AccountType /\ a.version < b.version
               /\ b.recovery \subseteq {b.mfa} /\ b.mfa = code.secret
               /\ b.pending = NoSecret
  <1> DEFINE b == Enrolled(a, code)
  <1>1. /\ code.secret \in 0..MaxSecret /\ code.step \in Steps
        /\ {code.secret} \in SUBSET (1..MaxSecret) /\ NoSecret \in 0..MaxSecret
    BY AccountAssumption DEF CodeType, NoSecret
  <1>2. a.version + 1 \in Nat /\ a.version < a.version + 1
    BY DEF AccountType
  <1>3. /\ b.version = a.version + 1 /\ b.recovery = {code.secret}
        /\ b.mfa = code.secret /\ b.pending = NoSecret
    BY DEF Enrolled, AccountType
  <1>4. b \in AccountType
    BY <1>1, <1>2 DEF Enrolled, AccountType
  <1> HIDE DEF b
  <1>5. b \in AccountType /\ a.version < b.version /\ b.recovery \subseteq {b.mfa}
    BY <1>2, <1>3, <1>4
  <1> QED BY <1>3, <1>5 DEF b

LEMMA FinishLogoutKeepsInv ==
    ASSUME AccountsInv, NEW h \in DOMAIN request, FinishLogout(h)
    PROVE  AccountsInv' /\ Kept
  <1> DEFINE u == request[h].user
             b == [account[u] EXCEPT !.version = @ + 1]
  <1>1. u \in Users /\ account[u] \in AccountType
    BY EndingFacts
  <1>2. /\ account' = [account EXCEPT ![u] = b] /\ secrets' = secrets /\ step' = step
        /\ End(h) /\ sessions' = sessions
    BY DEF FinishLogout, Finish
  <1>3. /\ b \in AccountType /\ Grown(account[u], b)
        /\ Owned(b) = Owned(account[u]) /\ b.recovery = account[u].recovery
        /\ b.mfa = account[u].mfa
    BY <1>1 DEF AccountType, Grown, Owned
  <1>4. b.recovery \subseteq {b.mfa}
    BY <1>1, <1>3 DEF AccountsInv, RecoveryInv
  <1> HIDE DEF b
  <1>5. Delta
    BY <1>1, <1>2, <1>3, <1>4, OneDelta
  <1> QED BY <1>2, <1>5, EndKeepsInv

LEMMA FinishStepUpKeepsInv ==
    ASSUME AccountsInv, NEW h \in DOMAIN request, FinishStepUp(h)
    PROVE  AccountsInv' /\ Kept
  <1> DEFINE u == request[h].user
             b == [account[u] EXCEPT !.stepped = TRUE]
  <1>1. u \in Users /\ account[u] \in AccountType /\ account[u].last \in Int
    BY EndingFacts, VersionTypes DEF AccountsInv
  <1>2. /\ account' = [account EXCEPT ![u] = b] /\ secrets' = secrets /\ step' = step
        /\ End(h) /\ sessions' = sessions
    BY DEF FinishStepUp, Finish
  <1>3. /\ b \in AccountType /\ Grown(account[u], b)
        /\ Owned(b) = Owned(account[u]) /\ b.recovery = account[u].recovery
        /\ b.mfa = account[u].mfa
    <2>1. /\ b \in AccountType /\ b.version = account[u].version
          /\ b.active = account[u].active /\ b.role = account[u].role
          /\ b.mfa = account[u].mfa /\ b.pending = account[u].pending
          /\ b.recovery = account[u].recovery /\ b.last = account[u].last
      BY <1>1 DEF AccountType
    <2> HIDE DEF b
    <2> QED BY <1>1, <2>1 DEF Grown, Owned
  <1>4. b.recovery \subseteq {b.mfa}
    BY <1>1, <1>3 DEF AccountsInv, RecoveryInv
  <1> HIDE DEF b
  <1>5. Delta
    BY <1>1, <1>2, <1>3, <1>4, OneDelta
  <1> QED BY <1>2, <1>5, EndKeepsInv

\* Enrolment, from the page or the console, gives the account a fresh secret.
LEMMA PendingDelta ==
    ASSUME AccountsInv, NEW u \in Users, secrets < MaxSecret, secrets' = secrets + 1,
           step' = step, account' = [account EXCEPT ![u].pending = secrets + 1]
    PROVE  Delta
  <1> DEFINE b == [account[u] EXCEPT !.pending = secrets + 1]
  <1>1. account[u] \in AccountType /\ account[u].last \in Int
    BY VersionTypes DEF AccountsInv
  <1>2. secrets + 1 \in 0..MaxSecret
    BY AccountAssumption DEF AccountsInv, AccountsTypeOK
  <1>3. account' = [account EXCEPT ![u] = b]
    OBVIOUS
  <1>4. /\ b \in AccountType /\ Grown(account[u], b)
        /\ b.recovery = account[u].recovery /\ b.mfa = account[u].mfa
        /\ b.pending = secrets + 1
    BY <1>1, <1>2 DEF AccountType, Grown
  <1>5. b.recovery \subseteq {b.mfa} /\ Owned(b) \subseteq Owned(account[u]) \cup {NoSecret, secrets + 1}
    BY <1>4 DEF AccountsInv, RecoveryInv, Owned
  <1> HIDE DEF b
  <1> QED BY <1>3, <1>4, <1>5, OneDelta

LEMMA FinishEnrollKeepsInv ==
    ASSUME AccountsInv, NEW h \in DOMAIN request, FinishEnroll(h)
    PROVE  AccountsInv' /\ Kept
  <1> DEFINE u == request[h].user
  <1>1. u \in Users /\ account[u] \in AccountType
    BY EndingFacts
  <1>2. /\ secrets < MaxSecret /\ secrets' = secrets + 1 /\ step' = step
        /\ End(h) /\ sessions' = sessions
        /\ account' = [account EXCEPT ![u].pending =
                          IF account[u].mfa = NoSecret THEN secrets + 1 ELSE @]
    BY DEF FinishEnroll, Finish
  <1>3. CASE account[u].mfa = NoSecret
    <2>1. Delta
      BY <1>1, <1>2, <1>3, PendingDelta
    <2> QED BY <1>2, <2>1, EndKeepsInv
  <1>4. CASE account[u].mfa # NoSecret
    <2>1. account' = account
      <3>1. account' = [account EXCEPT ![u].pending = @]
        BY <1>2, <1>4
      <3> QED BY <3>1, <1>1 DEF AccountsInv, AccountsTypeOK, AccountType
    <2>2. Delta
      <3>1. /\ secrets \in 1..MaxSecret /\ secrets' \in 1..MaxSecret /\ secrets <= secrets'
            /\ step' \in 0..MaxStep
        BY <1>2, AccountAssumption DEF AccountsInv, AccountsTypeOK
      <3>2. \A v \in Users : /\ Grown(account[v], account[v])
                             /\ account[v].mfa \in Int /\ account[v].pending \in Int
        <4>1. \A a \in AccountType : a.mfa \in Int /\ a.pending \in Int
          BY DEF AccountType
        <4> QED BY <4>1, VersionTypes DEF Grown, AccountsInv
      <3>3. \A v \in Users : account[v].mfa <= secrets' /\ account[v].pending <= secrets'
        BY <3>1, <3>2 DEF AccountsInv, SecretsApart
      <3> QED BY <2>1, <3>1, <3>2, <3>3
              DEF Delta, AccountsInv, AccountsTypeOK, RecoveryInv, SecretsApart, Owned
    <2> QED BY <1>2, <2>2, EndKeepsInv
  <1> QED BY <1>3, <1>4

\* An authenticator is confirmed, by the page or the console: the account's
\* pending secret becomes its own.
LEMMA EnrolledDelta ==
    ASSUME AccountsInv, NEW u \in Users, NEW code \in CodeType,
           code.secret # NoSecret, code.secret = account[u].pending,
           account' = [account EXCEPT ![u] = Enrolled(account[u], code)],
           secrets' = secrets, step' = step
    PROVE  Delta
  <1> DEFINE b == Enrolled(account[u], code)
  <1>1. account[u] \in AccountType
    BY VersionTypes DEF AccountsInv
  <1>2. /\ b \in AccountType /\ account[u].version < b.version
        /\ b.recovery \subseteq {b.mfa} /\ b.mfa = code.secret /\ b.pending = NoSecret
    BY <1>1, EnrolledFacts
  <1>3. account' = [account EXCEPT ![u] = b]
    OBVIOUS
  <1> HIDE DEF b
  <1>4. Grown(account[u], b) /\ Owned(b) \subseteq Owned(account[u]) \cup {NoSecret}
    BY <1>2 DEF Grown, Owned
  <1> QED BY <1>2, <1>3, <1>4, OneDelta

\* The code that confirms was checked against a secret the account waited for.
ConfirmInv ==
    \A h \in DOMAIN request : request[h].op = "confirm" => request[h].code.secret # NoSecret

LEMMA FinishConfirmKeepsInv ==
    ASSUME AccountsInv, ConfirmInv, NEW h \in DOMAIN request, FinishConfirm(h)
    PROVE  AccountsInv' /\ Kept
  <1> DEFINE u == request[h].user
  <1>1. u \in Users /\ request[h].code \in CodeType /\ request[h].code.secret # NoSecret
    BY EndingFacts DEF FinishConfirm, Finish, ConfirmInv
  <1>2. End(h) /\ sessions' = sessions /\ secrets' = secrets /\ step' = step
    BY DEF FinishConfirm, Finish
  <1>3. CASE account[u].pending = request[h].code.secret /\ account[u].mfa = NoSecret
    <2>1. account' = [account EXCEPT ![u] = Enrolled(account[u], request[h].code)]
      BY <1>3 DEF FinishConfirm
    <2>2. Delta
      BY <1>1, <1>2, <1>3, <2>1, EnrolledDelta
    <2> QED BY <1>2, <2>2, EndKeepsInv
  <1>4. CASE ~(account[u].pending = request[h].code.secret /\ account[u].mfa = NoSecret)
    <2>1. account' = account
      BY <1>4 DEF FinishConfirm
    <2>2. Delta
      BY <1>2, <2>1, NoDelta DEF AccountsInv, AccountsTypeOK
    <2> QED BY <1>2, <2>2, EndKeepsInv
  <1> QED BY <1>3, <1>4

LEMMA FinishDisableKeepsInv ==
    ASSUME AccountsInv, NEW h \in DOMAIN request, FinishDisable(h)
    PROVE  AccountsInv' /\ Kept
  <1> DEFINE u == request[h].user
             b == Disabled(account[u])
  <1>1. u \in Users /\ account[u] \in AccountType
    BY EndingFacts
  <1>2. /\ account' = [account EXCEPT ![u] = b] /\ secrets' = secrets /\ step' = step
        /\ End(h) /\ sessions' = sessions
    BY DEF FinishDisable, Finish
  <1>3. /\ account[u].version + 1 \in Nat /\ account[u].version < account[u].version + 1
        /\ NoSecret \in 0..MaxSecret /\ NoStep \in Steps /\ {} \in SUBSET (1..MaxSecret)
    BY <1>1, AccountAssumption DEF AccountType, NoSecret, NoStep, Steps
  <1>4. /\ b.version = account[u].version + 1 /\ b.recovery = {}
        /\ b.mfa = NoSecret /\ b.pending = account[u].pending
    BY <1>1 DEF Disabled, AccountType
  <1>5. b \in AccountType
    BY <1>1, <1>3 DEF Disabled, AccountType
  <1> HIDE DEF b
  <1>6. /\ Grown(account[u], b) /\ Owned(b) \subseteq Owned(account[u]) \cup {NoSecret}
        /\ b.recovery \subseteq {b.mfa}
    BY <1>3, <1>4 DEF Grown, Owned
  <1>7. Delta
    BY <1>1, <1>2, <1>5, <1>6, OneDelta
  <1> QED BY <1>2, <1>7, EndKeepsInv

LEMMA FinishManageKeepsInv ==
    ASSUME AccountsInv, NEW h \in DOMAIN request, FinishManage(h)
    PROVE  AccountsInv' /\ Kept
  <1> DEFINE c == request[h].change
             u == c.user
             b == Changed(account[u], c)
  <1>1. u \in Users /\ c.role \in Roles /\ c.active \in BOOLEAN
    BY EndingFacts
  <1>2. account[u] \in AccountType
    BY <1>1, VersionTypes DEF AccountsInv
  <1>3. End(h) /\ sessions' = sessions /\ secrets' = secrets /\ step' = step
    BY DEF FinishManage, Finish
  <1>4. CASE ManageAllowed(request[h])
    <2>1. account' = [account EXCEPT ![u] = b]
      BY <1>4 DEF FinishManage
    <2>2. account[u].version + 1 \in Nat /\ account[u].version < account[u].version + 1
      BY <1>2 DEF AccountType
    <2>3. /\ b.version = account[u].version + 1 /\ b.recovery = account[u].recovery
          /\ b.mfa = account[u].mfa /\ b.pending = account[u].pending
      BY <1>2 DEF Changed, AccountType
    <2>4. b \in AccountType
      BY <1>1, <1>2, <2>2 DEF Changed, AccountType
    <2> HIDE DEF b
    <2>5. /\ Grown(account[u], b) /\ Owned(b) \subseteq Owned(account[u]) \cup {NoSecret}
          /\ b.recovery \subseteq {b.mfa}
      BY <1>1, <2>2, <2>3 DEF Grown, Owned, AccountsInv, RecoveryInv
    <2>6. Delta
      BY <1>1, <1>3, <2>1, <2>4, <2>5, OneDelta
    <2> QED BY <1>3, <2>6, EndKeepsInv
  <1>5. CASE ~ManageAllowed(request[h])
    <2>1. account' = account
      BY <1>5 DEF FinishManage
    <2>2. Delta
      BY <1>3, <2>1, NoDelta DEF AccountsInv, AccountsTypeOK
    <2> QED BY <1>3, <2>2, EndKeepsInv
  <1> QED BY <1>4, <1>5

-----------------------------------------------------------------------------
(* A login that opens a session.                                            *)

LEMMA ConsumedFacts ==
    ASSUME NEW a \in AccountType, a.last \in Int, NEW code \in CodeType, Fresh(a, code),
           a.recovery \subseteq {a.mfa}
    PROVE  /\ Consumed(a, code) \in AccountType
           /\ Grown(a, Consumed(a, code))
           /\ Owned(Consumed(a, code)) = Owned(a)
           /\ Consumed(a, code).version = a.version
           /\ Consumed(a, code).mfa = a.mfa
           /\ Consumed(a, code).recovery \subseteq {a.mfa}
           /\ code.kind = "totp" => Consumed(a, code).last = code.step /\ a.last < code.step
           /\ code.kind = "recovery" => /\ code.secret \notin Consumed(a, code).recovery
                                        /\ code.secret \in a.recovery
  <1> DEFINE b == Consumed(a, code)
  <1>1. code.kind \in {"none", "totp", "recovery"} /\ code.step \in Int /\ code.step \in Steps
    BY AccountAssumption DEF CodeType, Steps, NoStep
  <1>2. CASE code.kind = "none"
    BY <1>2 DEF Consumed, Grown, Owned
  <1>3. CASE code.kind = "totp"
    <2>1. b = [a EXCEPT !.last = code.step] /\ a.last < code.step
      BY <1>3 DEF Consumed, Fresh
    <2>2. /\ b \in AccountType /\ b.version = a.version /\ b.active = a.active
          /\ b.role = a.role /\ b.mfa = a.mfa /\ b.pending = a.pending
          /\ b.recovery = a.recovery /\ b.last = code.step
      BY <1>1, <2>1 DEF AccountType
    <2> HIDE DEF b
    <2>3. Grown(a, b) /\ Owned(b) = Owned(a)
      BY <1>1, <2>1, <2>2 DEF Grown, Owned
    <2> QED BY <1>3, <2>1, <2>2, <2>3 DEF b
  <1>4. CASE code.kind = "recovery"
    <2>1. b = [a EXCEPT !.recovery = @ \ {code.secret}] /\ code.secret \in a.recovery
      BY <1>4 DEF Consumed, Fresh
    <2>2. /\ b \in AccountType /\ b.version = a.version /\ b.active = a.active
          /\ b.role = a.role /\ b.mfa = a.mfa /\ b.pending = a.pending
          /\ b.recovery = a.recovery \ {code.secret} /\ b.last = a.last
      BY <2>1 DEF AccountType
    <2> HIDE DEF b
    <2>3. Grown(a, b) /\ Owned(b) = Owned(a)
      BY <2>1, <2>2 DEF Grown, Owned
    <2> QED BY <1>4, <2>1, <2>2, <2>3 DEF b
  <1> QED BY <1>1, <1>2, <1>3, <1>4

LEMMA FinishLoginKeepsInv ==
    ASSUME AccountsInv, NEW h \in DOMAIN request, FinishLogin(h)
    PROVE  AccountsInv' /\ Kept
  <1> DEFINE q == request[h]
             u == q.user
             b == Consumed(account[u], q.code)
  <1>1. /\ u \in Users /\ account[u] \in AccountType /\ account[u].last \in Int
        /\ account[u].version \in Nat /\ q.row.version \in Nat /\ q.code \in CodeType
        /\ account[u].recovery \subseteq {account[u].mfa}
    BY EndingFacts, VersionTypes DEF AccountsInv, RecoveryInv
  <1>2. q.op = "login" /\ End(h) /\ secrets' = secrets /\ step' = step
    BY DEF FinishLogin
  <1>3. CASE ~Fresh(account[u], q.code)
    <2>1. account' = account /\ sessions' = sessions
      BY <1>3 DEF FinishLogin
    <2>2. Delta
      BY <1>2, <2>1, NoDelta DEF AccountsInv, AccountsTypeOK
    <2> QED BY <1>2, <2>1, <2>2, EndKeepsInv
  <1>4. CASE Fresh(account[u], q.code)
    <2> DEFINE new == [user |-> u, version |-> q.row.version, code |-> q.code]
    <2>1. account' = [account EXCEPT ![u] = b] /\ sessions' = Append(sessions, new)
      BY <1>4 DEF FinishLogin
    <2>2. /\ b \in AccountType /\ Grown(account[u], b) /\ Owned(b) = Owned(account[u])
          /\ b.version = account[u].version /\ b.mfa = account[u].mfa
          /\ b.recovery \subseteq {b.mfa}
          /\ q.code.kind = "totp" => b.last = q.code.step /\ account[u].last < q.code.step
          /\ q.code.kind = "recovery" => /\ q.code.secret \notin b.recovery
                                         /\ q.code.secret \in account[u].recovery
      BY <1>1, <1>4, ConsumedFacts
    <2> HIDE DEF b
    <2>3. Delta
      BY <1>1, <1>2, <2>1, <2>2, OneDelta
    <2>4. account'[u] = b
      BY <1>1, <2>1 DEF AccountsInv, AccountsTypeOK
    <2>5. /\ sessions \in Seq(SessionType) /\ new \in SessionType
      BY <1>1 DEF SessionType, AccountsInv, AccountsTypeOK
    <2> DEFINE n == Len(sessions) + 1
    <2>6. /\ sessions' \in Seq(SessionType)
          /\ DOMAIN sessions' = DOMAIN sessions \cup {n} /\ n \notin DOMAIN sessions
          /\ sessions'[n] = new
          /\ \A i \in DOMAIN sessions : sessions'[i] = sessions[i]
      BY <2>1, <2>5
    <2> HIDE DEF n
    <2>7. AccountsTypeOK'
      <3>1. AccountsTypeOK
        BY DEF AccountsInv
      <3>2. DOMAIN request' \subseteq Handlers /\ \A g \in DOMAIN request' : request'[g] \in RequestType
        BY <3>1, <1>2, EndType
      <3> QED BY <2>3, <2>6, <3>2 DEF AccountsTypeOK, Delta
    <2>8. LoginInv'
      <3>1. AccountsTypeOK
        BY DEF AccountsInv
      <3>2. \A g \in DOMAIN request' : g \in DOMAIN request /\ request'[g] = request[g]
        BY <3>1, <1>2, EndType
      <3> QED BY <2>3, <3>2, DeltaKeepsLogins
    <2>9. /\ Opens(q.code)
          /\ q.code.kind # "recovery" => q.code.secret = q.row.mfa
          /\ q.row.version <= account[u].version
          /\ q.row.version = account[u].version => q.row.mfa = account[u].mfa
      BY <1>2 DEF AccountsInv, LoginInv
    <2>10. \A i \in DOMAIN sessions :
              /\ Opens(sessions[i].code)
              /\ sessions'[i].version <= account'[sessions'[i].user].version
              /\ Current(i)' =>
                    /\ Current(i)
                    /\ sessions'[i].code.secret = account'[sessions'[i].user].mfa
                    /\ sessions'[i].code.kind = "totp" =>
                           sessions'[i].code.step <= account'[sessions'[i].user].last
                    /\ sessions'[i].code.kind = "recovery" =>
                           sessions'[i].code.secret \notin account'[sessions'[i].user].recovery
      BY <2>3, <2>6, DeltaKeepsSessions DEF AccountsInv, SessionInv
    <2>11. /\ new.version <= b.version
           /\ new.version = b.version =>
                 /\ q.code.secret = b.mfa
                 /\ q.code.kind = "totp" => q.code.step <= b.last
                 /\ q.code.kind = "recovery" => q.code.secret \notin b.recovery
      <3>1. q.code.step \in Int
        BY VersionTypes DEF AccountsInv
      <3>2. q.code.kind = "recovery" => q.code.secret = account[u].mfa
        BY <1>1, <2>2
      <3> QED BY <1>1, <2>2, <2>9, <3>1, <3>2
    <2>12. SessionInv'
      <3> SUFFICES ASSUME NEW i \in DOMAIN sessions'
                   PROVE  /\ Opens(sessions'[i].code)
                          /\ sessions'[i].version <= account'[sessions'[i].user].version
                          /\ Current(i)' =>
                             /\ sessions'[i].code.secret = account'[sessions'[i].user].mfa
                             /\ sessions'[i].code.kind = "totp" =>
                                  sessions'[i].code.step <= account'[sessions'[i].user].last
                             /\ sessions'[i].code.kind = "recovery" =>
                                  sessions'[i].code.secret
                                    \notin account'[sessions'[i].user].recovery
        BY DEF SessionInv, Opens
      <3>1. CASE i = n
        BY <2>4, <2>6, <2>9, <2>11, <3>1 DEF Current
      <3>2. CASE i # n
        BY <2>6, <2>10, <3>2
      <3> QED BY <3>1, <3>2
    <2>13. \A i \in DOMAIN sessions :
              (/\ sessions[i].user = u /\ Current(i) /\ sessions[i].code = q.code)
                 => q.code = NoCode
      <3> SUFFICES ASSUME NEW i \in DOMAIN sessions, sessions[i].user = u, Current(i),
                          sessions[i].code = q.code
                   PROVE  q.code = NoCode
        OBVIOUS
      <3>1. /\ q.code.kind = "totp" => q.code.step <= account[u].last
            /\ q.code.kind = "recovery" => q.code.secret \notin account[u].recovery
        BY DEF AccountsInv, SessionInv
      <3>2. q.code.kind \in {"none", "totp", "recovery"} /\ q.code.step \in Int
        BY <1>1, VersionTypes DEF CodeType, AccountsInv
      <3>3. q.code.kind = "none"
        BY <1>1, <2>2, <3>1, <3>2
      <3> QED BY <2>9, <3>3 DEF Opens
    <2>14. OnceInv'
      <3> SUFFICES ASSUME NEW i \in DOMAIN sessions', NEW j \in DOMAIN sessions', i # j,
                          sessions'[i].user = sessions'[j].user, Current(i)', Current(j)',
                          sessions'[i].code = sessions'[j].code
                   PROVE  sessions'[i].code = NoCode
        BY DEF OnceInv
      <3>1. CASE i # n /\ j # n
        <4>1. i \in DOMAIN sessions /\ j \in DOMAIN sessions /\ Current(i) /\ Current(j)
          BY <2>6, <2>10, <3>1
        <4> QED BY <2>6, <4>1 DEF AccountsInv, OnceInv
      <3>2. CASE i = n
        <4>1. j \in DOMAIN sessions /\ Current(j)
          BY <2>6, <2>10, <3>2
        <4> QED BY <2>6, <2>13, <3>2, <4>1
      <3>3. CASE j = n
        <4>1. i \in DOMAIN sessions /\ Current(i)
          BY <2>6, <2>10, <3>3
        <4> QED BY <2>6, <2>13, <3>3, <4>1
      <3> QED BY <3>1, <3>2, <3>3
    <2> QED BY <2>3, <2>6, <2>7, <2>8, <2>12, <2>14 DEF AccountsInv, Delta, Kept
  <1> QED BY <1>3, <1>4

-----------------------------------------------------------------------------
(* Every step.                                                              *)

\* An action that leaves requests and sessions alone.
LEMMA AloneKeepsInv ==
    ASSUME AccountsInv, Delta, UNCHANGED <<sessions, request>>
    PROVE  AccountsInv' /\ Kept
  BY DeltaKeepsInv

LEMMA LapseKeepsInv ==
    ASSUME AccountsInv, NEW u \in Users, Lapse(u)
    PROVE  AccountsInv' /\ Kept
  <1> DEFINE b == [account[u] EXCEPT !.stepped = FALSE]
  <1>1. account[u] \in AccountType /\ account[u].last \in Int
    BY VersionTypes DEF AccountsInv
  <1>2. account' = [account EXCEPT ![u] = b] /\ UNCHANGED <<step, secrets, sessions, request>>
    BY DEF Lapse
  <1>3. /\ b \in AccountType /\ b.version = account[u].version
        /\ b.active = account[u].active /\ b.role = account[u].role
        /\ b.mfa = account[u].mfa /\ b.pending = account[u].pending
        /\ b.recovery = account[u].recovery /\ b.last = account[u].last
    BY <1>1 DEF AccountType
  <1> HIDE DEF b
  <1>4. /\ Grown(account[u], b) /\ Owned(b) = Owned(account[u])
        /\ b.recovery \subseteq {b.mfa}
    BY <1>1, <1>3 DEF Grown, Owned, AccountsInv, RecoveryInv
  <1>5. Delta
    BY <1>2, <1>3, <1>4, OneDelta
  <1> QED BY <1>2, <1>5, AloneKeepsInv

LEMMA ConsoleKeepsInv ==
    ASSUME AccountsInv, NEW u \in Users,
           ConsoleBegin(u) \/ \E s \in Window : ConsoleConfirm(u, s)
    PROVE  AccountsInv' /\ Kept
  <1>1. CASE ConsoleBegin(u)
    <2>1. Delta
      BY <1>1, PendingDelta DEF ConsoleBegin
    <2> QED BY <1>1, <2>1, AloneKeepsInv DEF ConsoleBegin
  <1>2. ASSUME NEW s \in Window, ConsoleConfirm(u, s)
        PROVE  AccountsInv' /\ Kept
    <2> DEFINE code == Totp(account[u].pending, s)
    <2>1. account[u].pending \in 0..MaxSecret /\ account[u].pending # NoSecret
      <3>1. account[u] \in AccountType
        BY VersionTypes DEF AccountsInv
      <3> QED BY <3>1, <1>2 DEF AccountType, ConsoleConfirm
    <2>2. code \in CodeType /\ code.secret = account[u].pending
      BY <2>1, TotpType DEF Totp, AccountsInv, AccountsTypeOK
    <2>3. /\ account' = [account EXCEPT ![u] = Enrolled(account[u], code)]
          /\ UNCHANGED <<step, secrets, sessions, request>>
      BY <1>2 DEF ConsoleConfirm
    <2> HIDE DEF code
    <2>4. Delta
      BY <2>1, <2>2, <2>3, EnrolledDelta
    <2> QED BY <2>3, <2>4, AloneKeepsInv
  <1> QED BY <1>1, <1>2

LEMMA TickKeepsInv ==
    ASSUME AccountsInv, Tick \/ UNCHANGED accountVars
    PROVE  AccountsInv' /\ Kept
  <1>1. /\ account' = account /\ secrets' = secrets /\ UNCHANGED <<sessions, request>>
        /\ step' \in 0..MaxStep
    BY AccountAssumption DEF Tick, accountVars, AccountsInv, AccountsTypeOK
  <1>2. Delta
    BY <1>1, NoDelta
  <1> QED BY <1>1, <1>2, AloneKeepsInv

\* Only BeginConfirm starts a confirmation.
LEMMA ConfirmStays ==
    ASSUME AccountsInv, ConfirmInv, [AccountsNext]_accountVars
    PROVE  ConfirmInv'
  <1>1. ASSUME NEW h \in Handlers, NEW q \in RequestType, Start(h, q),
               q.op = "confirm" => q.code.secret # NoSecret
        PROVE  ConfirmInv'
    <2>1. AccountsTypeOK
      BY DEF AccountsInv
    <2>2. /\ DOMAIN request' = DOMAIN request \cup {h} /\ request'[h] = q
          /\ \A g \in DOMAIN request' : g # h => request'[g] = request[g]
      BY <1>1, <2>1, StartType
    <2> QED BY <1>1, <2>2 DEF ConfirmInv
  <1>2. ASSUME NEW h \in Handlers, NEW u \in Users, NEW code \in Codes(account[u]),
               ReadForLogin(h, u, code)
        PROVE  ConfirmInv'
    <2> DEFINE q == Request("login", u, code, NoChange)
    <2>1. account[u] \in AccountType
      BY VersionTypes DEF AccountsInv
    <2>2. code \in CodeType
      BY <2>1, CodesType DEF AccountsInv
    <2>3. q \in RequestType /\ q.op = "login"
      BY <2>2, RequestsType DEF AccountsInv
    <2>4. Start(h, q)
      BY <1>2 DEF ReadForLogin
    <2> HIDE DEF q
    <2> QED BY <1>1, <2>3, <2>4
  <1>3. ASSUME NEW h \in Handlers, NEW i \in DOMAIN sessions,
               NEW op \in {"logout", "step_up", "enroll", "confirm", "disable", "manage"},
               NEW code \in CodeType, NEW change \in Changes \cup {NoChange},
               Begin(h, i, op, code, change), op = "confirm" => code.secret # NoSecret
        PROVE  ConfirmInv'
    <2> DEFINE q == Request(op, sessions[i].user, code, change)
    <2>1. sessions[i].user \in Users
      BY VersionTypes DEF AccountsInv
    <2>2. q \in RequestType /\ q.op = op /\ q.code = code
      BY <2>1, RequestsType DEF AccountsInv
    <2>3. Start(h, q)
      BY <1>3 DEF Begin
    <2> HIDE DEF q
    <2> QED BY <1>1, <1>3, <2>2, <2>3
  <1>4. ASSUME NEW h \in Handlers, NEW i \in DOMAIN sessions, BeginRequest(h, i)
        PROVE  ConfirmInv'
    <2>1. /\ account[sessions[i].user].mfa \in 0..MaxSecret
          /\ account[sessions[i].user].pending \in 0..MaxSecret
      <3>1. account[sessions[i].user] \in AccountType
        BY VersionTypes DEF AccountsInv
      <3> QED BY <3>1 DEF AccountType
    <2>2. ASSUME NEW s \in Window
          PROVE  /\ Totp(account[sessions[i].user].pending, s) \in CodeType
                 /\ Totp(account[sessions[i].user].mfa, s) \in CodeType
      BY <2>1, TotpType DEF AccountsInv, AccountsTypeOK
    <2>3. CASE BeginLogout(h, i) \/ BeginStepUp(h, i) \/ BeginEnroll(h, i)
      BY <1>3, <2>3, NoCodeType DEF BeginLogout, BeginStepUp, BeginEnroll
    <2>4. ASSUME NEW s \in Window, BeginConfirm(h, i, s) PROVE ConfirmInv'
      <3>1. Totp(account[sessions[i].user].pending, s).secret # NoSecret
        BY <2>4 DEF Totp, BeginConfirm, RowOf
      <3> QED BY <1>3, <2>2, <2>4, <3>1 DEF BeginConfirm, RowOf
    <2>5. ASSUME NEW s \in Window, BeginDisable(h, i, s) PROVE ConfirmInv'
      BY <1>3, <2>2, <2>5 DEF BeginDisable, RowOf
    <2>6. ASSUME NEW change \in Changes, BeginManage(h, i, change) PROVE ConfirmInv'
      BY <1>3, <2>6, NoCodeType DEF BeginManage
    <2> QED BY <1>4, <2>3, <2>4, <2>5, <2>6 DEF BeginRequest
  <1>5. ASSUME NEW h, End(h)
        PROVE  ConfirmInv'
    <2>1. AccountsTypeOK
      BY DEF AccountsInv
    <2>2. \A g \in DOMAIN request' : g \in DOMAIN request /\ request'[g] = request[g]
      BY <1>5, <2>1, EndType
    <2> QED BY <2>2 DEF ConfirmInv
  <1>6. ASSUME NEW h \in DOMAIN request, FinishRequest(h)
        PROVE  ConfirmInv'
    <2>1. End(h)
      BY <1>6 DEF FinishRequest, FinishLogin, FinishLogout, FinishStepUp, FinishEnroll,
                  FinishConfirm, FinishDisable, FinishManage, Finish
    <2> QED BY <1>5, <2>1
  <1>7. ASSUME request' = request
        PROVE  ConfirmInv'
    BY <1>7 DEF ConfirmInv
  <1>8. CASE UNCHANGED accountVars
    BY <1>7, <1>8 DEF accountVars
  <1>9. ASSUME NEW u \in Users,
               Lapse(u) \/ ConsoleBegin(u) \/ (\E s \in Window : ConsoleConfirm(u, s)) \/ Tick
        PROVE  ConfirmInv'
    BY <1>7, <1>9 DEF Lapse, ConsoleBegin, ConsoleConfirm, Tick
  <1>10. CASE Tick
    BY <1>7, <1>10 DEF Tick
  <1> QED BY <1>2, <1>4, <1>6, <1>8, <1>9, <1>10 DEF AccountsNext

LEMMA NextKeepsInv ==
    ASSUME AccountsInv, ConfirmInv, [AccountsNext]_accountVars
    PROVE  AccountsInv' /\ Kept
  <1>1. ASSUME NEW h \in DOMAIN request, FinishRequest(h)
        PROVE  AccountsInv' /\ Kept
    BY <1>1, FinishLoginKeepsInv, FinishLogoutKeepsInv, FinishStepUpKeepsInv,
       FinishEnrollKeepsInv, FinishConfirmKeepsInv, FinishDisableKeepsInv,
       FinishManageKeepsInv DEF FinishRequest
  <1>2. ASSUME NEW h \in Handlers, NEW u \in Users, NEW code \in Codes(account[u]),
               ReadForLogin(h, u, code)
        PROVE  AccountsInv' /\ Kept
    BY <1>2, ReadForLoginKeepsInv
  <1>3. ASSUME NEW h \in Handlers, NEW i \in DOMAIN sessions, BeginRequest(h, i)
        PROVE  AccountsInv' /\ Kept
    BY <1>3, BeginRequestKeepsInv
  <1>4. ASSUME NEW u \in Users, Lapse(u)
        PROVE  AccountsInv' /\ Kept
    BY <1>4, LapseKeepsInv
  <1>5. ASSUME NEW u \in Users, ConsoleBegin(u) \/ \E s \in Window : ConsoleConfirm(u, s)
        PROVE  AccountsInv' /\ Kept
    BY <1>5, ConsoleKeepsInv
  <1>6. CASE Tick \/ UNCHANGED accountVars
    BY <1>6, TickKeepsInv
  <1> QED BY <1>1, <1>2, <1>3, <1>4, <1>5, <1>6 DEF AccountsNext

LEMMA InitInv == AccountsInit => AccountsInv /\ ConfirmInv
  <1> SUFFICES ASSUME AccountsInit PROVE AccountsInv /\ ConfirmInv
    OBVIOUS
  <1>1. AccountsTypeOK
    BY InitType
  <1>2. \A u \in Users : /\ account[u].mfa = (IF u = Owner THEN 1 ELSE NoSecret)
                         /\ account[u].pending = NoSecret
                         /\ account[u].recovery = {account[u].mfa} \ {NoSecret}
    BY DEF AccountsInit, NewAccount
  <1>3. RecoveryInv
    BY <1>2 DEF RecoveryInv
  <1>4. SecretsApart
    BY <1>2 DEF SecretsApart, Owned, AccountsInit, NoSecret
  <1>5. sessions = <<>> /\ DOMAIN request = {}
    BY DEF AccountsInit
  <1>6. SessionInv /\ OnceInv /\ LoginInv /\ ConfirmInv
    BY <1>5 DEF SessionInv, OnceInv, LoginInv, ConfirmInv
  <1> QED BY <1>1, <1>3, <1>4, <1>6 DEF AccountsInv

-----------------------------------------------------------------------------
(* The theorems.                                                            *)

\* Whatever the requests, the owner and the console do, and in whichever order,
\* accounts, sessions and requests stay what their types say.
THEOREM AccountsTypeCorrect == AccountsSpec => []AccountsTypeOK
  <1>1. AccountsInv /\ ConfirmInv /\ [AccountsNext]_accountVars => (AccountsInv /\ ConfirmInv)'
    BY NextKeepsInv, ConfirmStays
  <1>2. AccountsInv => AccountsTypeOK
    BY DEF AccountsInv
  <1> QED BY InitInv, <1>1, <1>2, PTL DEF AccountsSpec

\* A session that is accepted was opened with the authenticator its account has
\* now, however many requests, enrolments and removals overlapped its sign-in.
THEOREM SessionsCarryTheFactorAlways == AccountsSpec => []SessionsCarryTheFactor
  <1>1. AccountsInv /\ ConfirmInv /\ [AccountsNext]_accountVars => (AccountsInv /\ ConfirmInv)'
    BY NextKeepsInv, ConfirmStays
  <1>2. AccountsInv => SessionsCarryTheFactor
    BY DEF AccountsInv, SessionInv, Current, SessionsCarryTheFactor, Live
  <1> QED BY InitInv, <1>1, <1>2, PTL DEF AccountsSpec

\* A code never opens two sessions that are accepted at the same time, not even
\* for two accounts.
THEOREM CodesOpenOneSessionAlways == AccountsSpec => []CodesOpenOneSession
  <1>1. AccountsInv /\ ConfirmInv /\ [AccountsNext]_accountVars => (AccountsInv /\ ConfirmInv)'
    BY NextKeepsInv, ConfirmStays
  <1>2. AccountsInv => CodesOpenOneSession
    <2> SUFFICES ASSUME AccountsInv, NEW i \in DOMAIN sessions, NEW j \in DOMAIN sessions,
                        i # j, Live(i), Live(j), sessions[i].code = sessions[j].code
                 PROVE  sessions[i].code = NoCode
      BY DEF CodesOpenOneSession
    <2> DEFINE u == sessions[i].user
               v == sessions[j].user
    <2>1. u \in Users /\ v \in Users
      BY VersionTypes DEF AccountsInv
    <2>2. /\ Current(i) /\ Current(j) /\ Opens(sessions[i].code)
          /\ sessions[i].code.secret = account[u].mfa
          /\ sessions[j].code.secret = account[v].mfa
      BY DEF Live, Current, AccountsInv, SessionInv
    <2>3. CASE u = v
      BY <2>2, <2>3 DEF AccountsInv, OnceInv
    <2>4. CASE u # v
      <3>1. account[u].mfa \in Owned(account[u]) \cap Owned(account[v])
        BY <2>2 DEF Owned
      <3>2. account[u].mfa = NoSecret
        BY <2>1, <2>4, <3>1 DEF AccountsInv, SecretsApart
      <3> QED BY <2>2, <3>2 DEF Opens
    <2> QED BY <2>3, <2>4
  <1> QED BY InitInv, <1>1, <1>2, PTL DEF AccountsSpec

\* A session that was ended, by a logout, a change of the account or of its
\* authenticator, is never accepted again.
THEOREM SessionsEndForGood == AccountsSpec => EndedForGood
  <1>1. AccountsInv /\ ConfirmInv /\ [AccountsNext]_accountVars => (AccountsInv /\ ConfirmInv)'
    BY NextKeepsInv, ConfirmStays
  <1>2. AccountsInv /\ ConfirmInv /\ [AccountsNext]_accountVars
           => [StaysEnded]_accountVars
    <2> SUFFICES ASSUME AccountsInv, ConfirmInv, [AccountsNext]_accountVars,
                        NEW i \in DOMAIN sessions, Live(i)'
                 PROVE  Live(i)
      BY DEF StaysEnded
    <2>1. AccountsInv' /\ Kept
      BY NextKeepsInv
    <2>2. sessions'[i] = sessions[i] /\ i \in DOMAIN sessions'
      BY <2>1 DEF Kept
    <2> DEFINE u == sessions[i].user
    <2>3. /\ u \in Users /\ sessions[i].version \in Nat /\ account[u].version \in Nat
          /\ sessions[i].version <= account[u].version
      BY VersionTypes DEF AccountsInv, SessionInv
    <2>4. Grown(account[u], account'[u])
      BY <2>1, <2>3 DEF Kept
    <2>5. /\ account'[u].active /\ account'[u].version = sessions[i].version
          /\ account'[u].role \in Privileged => account'[u].mfa # NoSecret
      BY <2>2 DEF Live
    <2>6. ~(account[u].version < account'[u].version)
      BY <2>3, <2>5
    <2>7. /\ account'[u].version = account[u].version /\ account'[u].active = account[u].active
          /\ account'[u].role = account[u].role /\ account'[u].mfa = account[u].mfa
      BY <2>4, <2>6 DEF Grown
    <2> QED BY <2>5, <2>7, Zenon DEF Live
  <1> QED BY InitInv, <1>1, <1>2, PTL DEF AccountsSpec, EndedForGood

-----------------------------------------------------------------------------
(* The pages that sell.                                                     *)

CartType == [sale: Nat, edit: Nat]
AttemptType == [key: Nat, sale: Nat, body: Seq(Nat)]
PageType == [cart: CartType, attempt: AttemptType, waits: Nat]

\* What page p has sent or may send again under the key of attempt a.
Of(p, a) == [page |-> p, key |-> a.key, sale |-> a.sale, body |-> a.body]

\* The attempts that the pages hold, that are underway and that were posted.
Held == {Of(p, desk[p].attempt) : p \in {q \in Pages : desk[q].attempt # NoAttempt}}
Underway == {Sale(m) : m \in wire}
Used == Held \cup Underway \cup posted

IsMessage(m) ==
    /\ m = [page |-> m.page, try |-> m.try, attempt |-> m.attempt,
            session |-> m.session, answer |-> m.answer]
    /\ m.page \in Pages /\ m.try \in 1..tries /\ m.attempt \in AttemptType

PagesInv ==
    /\ tries \in Nat /\ sales \in Nat
    /\ desk \in [Pages -> PageType]
    /\ \A p \in Pages : /\ desk[p].cart.sale <= sales
                        /\ desk[p].cart.sale = 0 => desk[p].cart = NoCart
                        /\ desk[p].waits <= tries
    /\ \A p, q \in Pages : desk[p].cart.sale = desk[q].cart.sale => 
          p = q \/ desk[p].cart.sale = 0

\* A request that is answered is the one its page waits for, and the cafe's
\* counter holds the attempt of the request it waits for.
WireInv ==
    /\ \A m \in wire : IsMessage(m)
    /\ \A m, n \in wire : m.try = n.try => m = n
    /\ \A m \in wire : /\ m.answer # "none" => desk[m.page].waits = m.try
                       /\ m.page = "cafe" /\ desk[m.page].waits = m.try =>
                             m.attempt = desk[m.page].attempt

\* A key belongs to one attempt.  While its page still holds the cart of the sale,
\* a key is given up or it is the one the page will send again.
KeysInv ==
    /\ \A u \in Used : /\ u.page \in Pages /\ u.key \in 1..tries /\ u.sale \in 1..sales
                       /\ \A p \in Pages : desk[p].cart.sale = u.sale => p = u.page
    /\ \A u, v \in Used : u.key = v.key => u = v
    /\ \A u \in Used :
          u.page # "retail" =>
              \/ u.key \in dropped
              \/ u = Of(u.page, desk[u.page].attempt)
              \/ desk[u.page].cart.sale # u.sale
    /\ \A u, v \in Used :
          u.page # "retail" /\ v.page # "retail" /\ u.sale = v.sale /\ u # v =>
              {u.key, v.key} \cap dropped # {}

\* What the counter has sent it holds, until it is told how it went.
CounterInv ==
    \A u \in Used : u.page = "cafe" => \/ u.key \in confirmed \cup dropped
                                       \/ u = Of("cafe", desk["cafe"].attempt)

DeskInv == PagesInv /\ WireInv /\ KeysInv /\ CounterInv

LEMMA NoAttemptType == NoAttempt \in AttemptType /\ NoAttempt.key = 0 /\ NoAttempt.sale = 0
  BY DEF NoAttempt, AttemptType

LEMMA IdleType == Idle \in PageType /\ Idle.cart.sale = 0 /\ Idle.waits = 0
                  /\ Idle.cart = NoCart /\ Idle.attempt = NoAttempt
  BY NoAttemptType DEF Idle, PageType, CartType, NoCart

LEMMA SaleIs ==
    ASSUME NEW m, IsMessage(m)
    PROVE  Sale(m) = Of(m.page, m.attempt)
  BY DEF Sale, Of

LEMMA UsedIs ==
    ASSUME NEW u
    PROVE  u \in Used <=> \/ \E p \in Pages : /\ desk[p].attempt # NoAttempt
                                              /\ u = Of(p, desk[p].attempt)
                          \/ \E m \in wire : u = Sale(m)
                          \/ u \in posted
  BY DEF Used, Held, Underway

LEMMA DeskStarts == Init => DeskInv
  <1> SUFFICES ASSUME Init PROVE DeskInv
    OBVIOUS
  <1>1. /\ desk = [p \in Pages |-> Idle] /\ wire = {} /\ posted = {}
        /\ sales = 0 /\ tries = 0
    BY DEF Init
  <1>2. Used = {}
    BY <1>1, IdleType DEF Used, Held, Underway
  <1>3. PagesInv
    BY <1>1, IdleType DEF PagesInv
  <1> QED BY <1>1, <1>2, <1>3 DEF DeskInv, WireInv, KeysInv, CounterInv

\* A new attempt, of the cart that its page has on the counter.
NewlySent(u) ==
    /\ u.key = tries + 1 /\ tries' = tries + 1
    /\ u.page \in Pages /\ u = Of(u.page, desk'[u.page].attempt)
    /\ u.sale = desk[u.page].cart.sale /\ desk'[u.page].cart.sale = u.sale
    /\ u.sale # 0
    /\ u.page # "retail" => desk[u.page].attempt = NoAttempt

\* What a step may do to the carts and the keys.
Forward ==
    /\ tries <= tries' /\ sales <= sales'
    /\ confirmed \subseteq confirmed' /\ dropped \subseteq dropped'
    /\ \A u \in Used' : u \in Used \/ NewlySent(u)
    /\ \A u, v \in Used' : NewlySent(u) /\ NewlySent(v) => u = v
    /\ \A p \in Pages : 
          /\ \/ desk'[p].cart.sale \in {desk[p].cart.sale, 0}
             \/ desk'[p].cart.sale > sales
          /\ p # "retail" =>
                \/ desk'[p].attempt = desk[p].attempt
                \/ desk[p].attempt.key \in dropped' \cup {0}
                \/ desk'[p].cart.sale = 0
          /\ p = "cafe" =>
                \/ desk'[p].attempt = desk[p].attempt
                \/ desk[p].attempt.key \in confirmed' \cup dropped' \cup {0}

LEMMA KeysKeep ==
    ASSUME DeskInv, PagesInv', Forward
    PROVE  KeysInv' /\ CounterInv'
  <1>1. /\ PagesInv /\ KeysInv /\ CounterInv
        /\ tries \in Nat /\ sales \in Nat /\ tries' \in Nat /\ sales' \in Nat
        /\ tries <= tries' /\ sales <= sales'
        /\ confirmed \subseteq confirmed' /\ dropped \subseteq dropped'
    BY DEF DeskInv, PagesInv, Forward
  <1>2. ASSUME NEW u \in Used
        PROVE  u.page \in Pages /\ u.key \in 1..tries /\ u.sale \in 1..sales
    BY <1>1 DEF KeysInv
  <1>3. ASSUME NEW p \in Pages
        PROVE  desk[p].cart.sale \in Nat /\ desk'[p].cart.sale \in Nat
               /\ desk'[p].cart.sale <= sales'
    BY <1>1 DEF PagesInv, PageType, CartType
  <1>4. ASSUME NEW u \in Used'
        PROVE  /\ u.page \in Pages /\ u.key \in 1..tries' /\ u.sale \in 1..sales'
               /\ \A p \in Pages : desk'[p].cart.sale = u.sale => p = u.page
    <2>1. CASE u \in Used
      <3>1. u.page \in Pages /\ u.key \in 1..tries' /\ u.sale \in 1..sales'
        BY <1>1, <1>2, <2>1
      <3>2. ASSUME NEW p \in Pages, desk'[p].cart.sale = u.sale PROVE p = u.page
        <4>1. desk'[p].cart.sale # 0 /\ ~ (desk'[p].cart.sale > sales)
          BY <1>1, <1>2, <2>1, <3>2
        <4>2. desk[p].cart.sale = u.sale
          BY <3>2, <4>1 DEF Forward
        <4> QED BY <1>1, <2>1, <4>2 DEF KeysInv
      <3> QED BY <3>1, <3>2
    <2>2. CASE NewlySent(u)
      <3>1. u.page \in Pages /\ u.key \in 1..tries'
        BY <1>1, <2>2 DEF NewlySent
      <3>2. u.sale = desk'[u.page].cart.sale /\ u.sale # 0
        BY <2>2 DEF NewlySent
      <3>3. u.sale \in 1..sales'
        BY <1>1, <1>3, <3>1, <3>2
      <3>4. \A p \in Pages : desk'[p].cart.sale = u.sale => p = u.page
        BY <3>1, <3>2 DEF PagesInv
      <3> QED BY <3>1, <3>3, <3>4
    <2> QED BY <2>1, <2>2 DEF Forward
  <1>5. ASSUME NEW u \in Used', NEW v \in Used', u.key = v.key PROVE u = v
    <2>1. CASE u \in Used /\ v \in Used
      BY <1>1, <1>5, <2>1 DEF KeysInv
    <2>2. CASE NewlySent(u) /\ NewlySent(v)
      BY <2>2 DEF Forward
    <2>3. CASE (u \in Used /\ NewlySent(v)) \/ (v \in Used /\ NewlySent(u))
      <3>1. u.key <= tries \/ v.key <= tries
        BY <1>1, <1>2, <2>3
      <3> QED BY <1>1, <1>5, <2>3, <3>1 DEF NewlySent
    <2> QED BY <2>1, <2>2, <2>3 DEF Forward
  <1>6. ASSUME NEW u \in Used', u.page # "retail"
        PROVE  \/ u.key \in dropped'
               \/ u = Of(u.page, desk'[u.page].attempt)
               \/ desk'[u.page].cart.sale # u.sale
    <2>1. CASE u \in Used
      <3>0. u.page \in Pages /\ u.key # 0 /\ u.sale # 0 /\ ~ (u.sale > sales)
        BY <1>1, <1>2, <2>1
      <3>1. CASE u.key \in dropped
        BY <1>1, <3>1
      <3>2. CASE u = Of(u.page, desk[u.page].attempt)
        <4>1. u.key = desk[u.page].attempt.key
          BY <3>2 DEF Of
        <4> QED BY <1>6, <3>0, <3>2, <4>1 DEF Forward
      <3>3. CASE desk[u.page].cart.sale # u.sale
        BY <3>0, <3>3 DEF Forward
      <3> QED BY <1>1, <1>6, <2>1, <3>1, <3>2, <3>3 DEF KeysInv
    <2>2. CASE NewlySent(u)
      BY <2>2 DEF NewlySent
    <2> QED BY <2>1, <2>2 DEF Forward
  <1>7. ASSUME NEW u \in Used, NEW v, NewlySent(v), u.page # "retail", v.page # "retail",
               u.sale = v.sale
        PROVE  u.key \in dropped
    <2>1. desk[v.page].cart.sale = u.sale /\ v.page \in Pages
      BY <1>7 DEF NewlySent
    <2>2. v.page = u.page
      BY <1>1, <2>1 DEF KeysInv
    <2>3. desk[u.page].attempt.key = 0
      BY <1>7, <2>2, NoAttemptType DEF NewlySent
    <2>4. u # Of(u.page, desk[u.page].attempt)
      <3>1. u.key # 0
        BY <1>1, <1>2
      <3> QED BY <2>3, <3>1 DEF Of
    <2> QED BY <1>1, <1>7, <2>1, <2>2, <2>4 DEF KeysInv
  <1>8. ASSUME NEW u \in Used', NEW v \in Used', u.page # "retail", v.page # "retail",
               u.sale = v.sale, u # v
        PROVE  {u.key, v.key} \cap dropped' # {}
    <2>1. CASE u \in Used /\ v \in Used
      <3>1. {u.key, v.key} \cap dropped # {}
        BY <1>1, <1>8, <2>1 DEF KeysInv
      <3> QED BY <1>1, <3>1
    <2>2. CASE NewlySent(u) /\ NewlySent(v)
      BY <1>8, <2>2 DEF Forward
    <2>3. CASE u \in Used /\ NewlySent(v)
      BY <1>1, <1>7, <1>8, <2>3
    <2>4. CASE v \in Used /\ NewlySent(u)
      BY <1>1, <1>7, <1>8, <2>4
    <2> QED BY <2>1, <2>2, <2>3, <2>4 DEF Forward
  <1>9. ASSUME NEW u \in Used', u.page = "cafe"
        PROVE  u.key \in confirmed' \cup dropped' \/ u = Of("cafe", desk'["cafe"].attempt)
    <2>1. CASE u \in Used
      <3>0. "cafe" \in Pages /\ u.key # 0
        BY <1>1, <1>2, <1>9, <2>1
      <3>1. CASE u.key \in confirmed \cup dropped
        BY <1>1, <3>1
      <3>2. CASE u = Of("cafe", desk["cafe"].attempt)
        <4>1. u.key = desk["cafe"].attempt.key
          BY <3>2 DEF Of
        <4> QED BY <3>0, <3>2, <4>1 DEF Forward
      <3> QED BY <1>1, <1>9, <2>1, <3>1, <3>2 DEF CounterInv
    <2>2. CASE NewlySent(u)
      BY <1>9, <2>2 DEF NewlySent
    <2> QED BY <2>1, <2>2 DEF Forward
  <1>10. KeysInv'
    BY <1>4, <1>5, <1>6, <1>8 DEF KeysInv, Of
  <1>11. CounterInv'
    BY <1>9 DEF CounterInv, Of
  <1> QED BY <1>10, <1>11

\* Nothing new: what is on the counters, underway and posted was there before.
LEMMA NothingNew ==
    ASSUME \A p \in Pages : desk'[p].attempt \in {desk[p].attempt, NoAttempt},
           \A m \in wire' : \E n \in wire : Sale(m) = Sale(n),
           \A s \in posted' : s \in Used
    PROVE  \A u \in Used' : u \in Used
  <1> SUFFICES ASSUME NEW u \in Used' PROVE u \in Used
    OBVIOUS
  <1>1. \/ \E p \in Pages : desk'[p].attempt # NoAttempt /\ u = Of(p, desk'[p].attempt)
        \/ \E m \in wire' : u = Sale(m)
        \/ u \in posted'
    BY DEF Used, Held, Underway, Of, Sale
  <1>2. CASE \E p \in Pages : desk'[p].attempt # NoAttempt /\ u = Of(p, desk'[p].attempt)
    BY <1>2, UsedIs
  <1>3. CASE \E m \in wire' : u = Sale(m)
    BY <1>3, UsedIs
  <1>4. CASE u \in posted'
    BY <1>4
  <1> QED BY <1>1, <1>2, <1>3, <1>4

LEMMA PageFields ==
    ASSUME NEW v \in PageType
    PROVE  /\ v.cart \in CartType /\ v.cart.sale \in Nat /\ v.cart.edit \in Nat
           /\ v.attempt \in AttemptType /\ v.waits \in Nat
           /\ v.attempt.key \in Nat /\ v.attempt.sale \in Nat
  BY DEF PageType, CartType, AttemptType

\* One page changes its cart, its attempt or what it waits for.
LEMMA PagesKeep ==
    ASSUME PagesInv, NEW p \in Pages, NEW v \in PageType, desk' = [desk EXCEPT ![p] = v],
           tries' \in Nat, tries <= tries', sales' \in Nat, sales <= sales',
           \/ v.cart.sale \in {desk[p].cart.sale, 0}
           \/ v.cart.sale = sales + 1 /\ sales' = sales + 1,
           v.cart.sale = 0 => v.cart = NoCart,
           v.waits <= tries'
    PROVE  PagesInv'
  <1>1. ASSUME NEW q \in Pages
        PROVE  /\ desk[q].cart.sale \in Nat /\ desk[q].cart.sale <= sales
               /\ desk[q].waits \in Nat /\ desk[q].waits <= tries
               /\ desk[q].cart.sale = 0 => desk[q].cart = NoCart
    BY PageFields DEF PagesInv
  <1>2. tries \in Nat /\ sales \in Nat /\ v.cart.sale \in Nat
    BY PageFields DEF PagesInv
  <1>3. desk' \in [Pages -> PageType] /\ desk'[p] = v
        /\ \A q \in Pages : q # p => desk'[q] = desk[q]
    BY DEF PagesInv
  <1>4. v.cart.sale <= sales'
    BY <1>1, <1>2
  <1>5. ASSUME NEW q \in Pages
        PROVE  /\ desk'[q].cart.sale <= sales'
               /\ desk'[q].cart.sale = 0 => desk'[q].cart = NoCart
               /\ desk'[q].waits <= tries'
    <2>1. CASE q = p
      BY <1>3, <1>4, <2>1
    <2>2. CASE q # p
      BY <1>1, <1>2, <1>3, <2>2
    <2> QED BY <2>1, <2>2
  <1>6. ASSUME NEW q \in Pages, q # p, v.cart.sale = desk[q].cart.sale
        PROVE  v.cart.sale = 0
    <2>1. v.cart.sale # sales + 1
      BY <1>1, <1>2, <1>6
    <2>2. CASE v.cart.sale = desk[p].cart.sale
      BY <1>6, <2>2 DEF PagesInv
    <2> QED BY <2>1, <2>2
  <1>7. ASSUME NEW q \in Pages, NEW r \in Pages,
               desk'[q].cart.sale = desk'[r].cart.sale
        PROVE  q = r \/ desk'[q].cart.sale = 0
    <2>1. CASE q # p /\ r # p
      BY <1>3, <1>7, <2>1 DEF PagesInv
    <2>2. CASE q = p /\ r # p
      BY <1>3, <1>6, <1>7, <2>2
    <2>3. CASE q # p /\ r = p
      BY <1>3, <1>6, <1>7, <2>3
    <2> QED BY <2>1, <2>2, <2>3
  <1> QED BY <1>3, <1>5, <1>7 DEF PagesInv

LEMMA OnePageStep ==
    ASSUME DeskInv, NEW p \in Pages, NEW v \in PageType, desk' = [desk EXCEPT ![p] = v],
           wire' \subseteq wire, posted' = posted, tries' = tries,
           sales' \in {sales, sales + 1},
           confirmed \subseteq confirmed', dropped \subseteq dropped',
           \/ v.cart.sale \in {desk[p].cart.sale, 0}
           \/ v.cart.sale = sales + 1 /\ sales' = sales + 1,
           v.cart.sale = 0 => v.cart = NoCart,
           v.waits \in {desk[p].waits, 0},
           \A m \in wire' : m.page = p /\ m.answer # "none" => v.waits = m.try,
           v.attempt \in {desk[p].attempt, NoAttempt},
           p = "cafe" /\ v.waits # 0 => v.attempt = desk[p].attempt,
           p # "retail" => \/ v.attempt = desk[p].attempt
                           \/ desk[p].attempt.key \in dropped' \cup {0}
                           \/ v.cart.sale = 0,
           p = "cafe" => \/ v.attempt = desk[p].attempt
                         \/ desk[p].attempt.key \in confirmed' \cup dropped' \cup {0}
    PROVE  DeskInv'
  <1>1. /\ PagesInv /\ WireInv /\ desk \in [Pages -> PageType]
        /\ tries \in Nat /\ sales \in Nat /\ sales' \in Nat /\ sales <= sales'
        /\ desk[p].waits <= tries
    BY DEF DeskInv, PagesInv
  <1>2. PagesInv'
    <2>1. v.waits <= tries'
      BY <1>1
    <2>2. tries' \in Nat /\ tries <= tries'
      BY <1>1
    <2> QED BY <1>1, <2>1, <2>2, PagesKeep
  <1>3. desk'[p] = v /\ \A q \in Pages : q # p => desk'[q] = desk[q]
    BY <1>1
  <1>4. Forward
    <2>1. \A u \in Used' : u \in Used
      <3>1. \A q \in Pages : desk'[q].attempt \in {desk[q].attempt, NoAttempt}
        BY <1>3
      <3>2. \A m \in wire' : \E n \in wire : Sale(m) = Sale(n)
        OBVIOUS
      <3>3. \A s \in posted' : s \in Used
        BY DEF Used
      <3> QED BY <3>1, <3>2, <3>3, NothingNew
    <2>2. \A u \in Used' : ~NewlySent(u)
      BY <1>1 DEF NewlySent
    <2>3. sales + 1 > sales
      BY <1>1
    <2>4. ASSUME NEW q \in Pages
          PROVE  /\ \/ desk'[q].cart.sale \in {desk[q].cart.sale, 0}
                    \/ desk'[q].cart.sale > sales
                 /\ q # "retail" =>
                       \/ desk'[q].attempt = desk[q].attempt
                       \/ desk[q].attempt.key \in dropped' \cup {0}
                       \/ desk'[q].cart.sale = 0
                 /\ q = "cafe" =>
                       \/ desk'[q].attempt = desk[q].attempt
                       \/ desk[q].attempt.key \in confirmed' \cup dropped' \cup {0}
      <3>1. CASE q = p
        BY <1>3, <2>3, <3>1
      <3>2. CASE q # p
        BY <1>3, <3>2
      <3> QED BY <3>1, <3>2
    <2> QED BY <1>1, <2>1, <2>2, <2>4 DEF Forward
  <1>5. WireInv'
    <2>1. \A m \in wire' : IsMessage(m)'
      BY <1>1 DEF WireInv, IsMessage
    <2>2. \A m, n \in wire' : m.try = n.try => m = n
      BY <1>1 DEF WireInv
    <2>3. ASSUME NEW m \in wire'
          PROVE  /\ m.answer # "none" => desk'[m.page].waits = m.try
                 /\ m.page = "cafe" /\ desk'[m.page].waits = m.try =>
                       m.attempt = desk'[m.page].attempt
      <3>1. /\ m.page \in Pages /\ m.try \in 1..tries
            /\ m.answer # "none" => desk[m.page].waits = m.try
            /\ m.page = "cafe" /\ desk[m.page].waits = m.try =>
                  m.attempt = desk[m.page].attempt
        BY <1>1 DEF WireInv, IsMessage
      <3>2. m.try # 0
        BY <1>1, <3>1
      <3>3. CASE m.page = p
        BY <1>3, <3>1, <3>2, <3>3
      <3>4. CASE m.page # p
        BY <1>3, <3>1, <3>4
      <3> QED BY <3>3, <3>4
    <2> QED BY <2>1, <2>2, <2>3 DEF WireInv
  <1> QED BY <1>2, <1>4, <1>5, KeysKeep DEF DeskInv

LEMMA BeginSaleKeeps ==
    ASSUME DeskInv, NEW p \in Pages, BeginSale(p)
    PROVE  DeskInv'
  <1>1. PagesInv /\ WireInv /\ desk[p] \in PageType /\ sales \in Nat
    BY DEF DeskInv, PagesInv
  <1>2. PICK v : v = [desk[p] EXCEPT !.cart = [sale |-> sales + 1, edit |-> 0]]
    OBVIOUS
  <1>3. /\ v \in PageType /\ v.cart.sale = sales + 1 /\ v.attempt = desk[p].attempt
        /\ v.waits = desk[p].waits /\ v.cart.sale # 0
    BY <1>1, <1>2 DEF PageType, CartType
  <1>4. /\ desk' = [desk EXCEPT ![p] = v] /\ sales' = sales + 1
        /\ wire' = wire /\ posted' = posted /\ tries' = tries
        /\ confirmed' = confirmed /\ dropped' = dropped
    BY <1>2 DEF BeginSale
  <1>5. \A m \in wire' : m.page = p /\ m.answer # "none" => v.waits = m.try
    BY <1>1, <1>3, <1>4 DEF WireInv
  <1> QED BY <1>3, <1>4, <1>5, OnePageStep

LEMMA EditCartKeeps ==
    ASSUME DeskInv, NEW p \in Pages, EditCart(p)
    PROVE  DeskInv'
  <1>1. PagesInv /\ WireInv /\ desk[p] \in PageType
        /\ (desk[p].cart.sale = 0 => desk[p].cart = NoCart)
    BY DEF DeskInv, PagesInv
  <1>2. PICK a : a = IF p = "guest" THEN NoAttempt ELSE desk[p].attempt
    OBVIOUS
  <1>3. a \in AttemptType
    BY <1>1, <1>2, PageFields, NoAttemptType
  <1>4. PICK c : c = [desk[p].cart EXCEPT !.edit = @ + 1]
    OBVIOUS
  <1>5. c \in CartType /\ c.sale = desk[p].cart.sale
    BY <1>1, <1>4, PageFields DEF CartType
  <1>6. PICK v : v = [desk[p] EXCEPT !.cart = c, !.attempt = a]
    OBVIOUS
  <1>7. v \in PageType /\ v.cart = c /\ v.attempt = a /\ v.waits = desk[p].waits
    <2>1. PICK w : w = [desk[p] EXCEPT !.cart = c]
      OBVIOUS
    <2>2. w \in PageType /\ w.cart = c /\ w.waits = desk[p].waits
      BY <1>1, <1>5, <2>1 DEF PageType
    <2>3. v = [w EXCEPT !.attempt = a]
      BY <1>6, <2>1
    <2> QED BY <1>3, <2>2, <2>3 DEF PageType
  <1>8. desk' = [desk EXCEPT ![p] = v]
    BY <1>2, <1>4, <1>6 DEF EditCart
  <1>9. /\ sales' = sales /\ wire' = wire /\ posted' = posted /\ tries' = tries
        /\ confirmed' = confirmed /\ dropped \subseteq dropped'
        /\ (p = "guest" /\ desk[p].attempt # NoAttempt => desk[p].attempt.key \in dropped')
        /\ desk[p].cart # NoCart
    BY DEF EditCart
  <1>10. \A m \in wire' : m.page = p /\ m.answer # "none" => v.waits = m.try
    BY <1>1, <1>7, <1>9 DEF WireInv
  <1>11. v.cart.sale # 0
    BY <1>1, <1>5, <1>7, <1>9
  <1>12. v.attempt = desk[p].attempt \/ desk[p].attempt.key \in dropped'
    BY <1>2, <1>7, <1>9
  <1>13. v.attempt \in {desk[p].attempt, NoAttempt} /\ (p = "cafe" => v.attempt = desk[p].attempt)
    BY <1>2, <1>7
  <1> QED BY <1>5, <1>7, <1>8, <1>9, <1>10, <1>11, <1>12, <1>13, OnePageStep

LEMMA NetworkErrorKeeps ==
    ASSUME DeskInv, NEW p \in Pages, NetworkError(p)
    PROVE  DeskInv'
  <1>1. PagesInv /\ WireInv /\ desk[p] \in PageType
        /\ (desk[p].cart.sale = 0 => desk[p].cart = NoCart)
    BY DEF DeskInv, PagesInv
  <1>2. PICK v : v = [desk[p] EXCEPT !.waits = 0]
    OBVIOUS
  <1>3. /\ v \in PageType /\ v.cart = desk[p].cart /\ v.attempt = desk[p].attempt
        /\ v.waits = 0
    BY <1>1, <1>2 DEF PageType
  <1>4. /\ desk' = [desk EXCEPT ![p] = v] /\ sales' = sales
        /\ wire' = Deafened(p) /\ posted' = posted /\ tries' = tries
        /\ confirmed' = confirmed /\ dropped' = dropped
    BY <1>2 DEF NetworkError
  <1>5. /\ wire' \subseteq wire
        /\ \A m \in wire' : m.page = p /\ m.answer # "none" => v.waits = m.try
    BY <1>4 DEF Deafened
  <1>6. /\ v.cart.sale \in {desk[p].cart.sale, 0}
        /\ v.cart.sale = 0 => v.cart = NoCart
        /\ v.waits \in {desk[p].waits, 0}
        /\ v.attempt \in {desk[p].attempt, NoAttempt}
        /\ confirmed \subseteq confirmed' /\ dropped \subseteq dropped'
        /\ sales' \in {sales, sales + 1}
    BY <1>1, <1>3, <1>4
  <1>7. wire' \subseteq wire
    BY <1>5
  <1>8. \A m \in wire' : m.page = p /\ m.answer # "none" => v.waits = m.try
    BY <1>5
  <1> QED BY <1>3, <1>4, <1>6, <1>7, <1>8, OnePageStep

LEMMA ReloadKeeps ==
    ASSUME DeskInv, NEW p \in Pages, Reload(p)
    PROVE  DeskInv'
  <1>1. PagesInv /\ WireInv /\ desk[p] \in PageType
    BY DEF DeskInv, PagesInv
  <1>2. PICK v : v = Reloaded(p)
    OBVIOUS
  <1>3. /\ v \in PageType /\ v.cart = NoCart /\ v.cart.sale = 0 /\ v.waits = 0
        /\ v.attempt \in {desk[p].attempt, NoAttempt}
        /\ p = "cafe" => v.attempt = desk[p].attempt
    <2>1. CASE p = "cafe"
      <3>1. v = [Idle EXCEPT !.attempt = desk[p].attempt]
        BY <1>2, <2>1 DEF Reloaded
      <3>2. desk[p].attempt \in AttemptType
        BY <1>1, PageFields
      <3> QED BY <3>1, <3>2, IdleType DEF PageType
    <2>2. CASE p # "cafe"
      BY <1>2, <2>2, IdleType DEF Reloaded
    <2> QED BY <2>1, <2>2
  <1>4. /\ desk' = [desk EXCEPT ![p] = v] /\ sales' = sales
        /\ wire' = Deafened(p) /\ posted' = posted /\ tries' = tries
        /\ confirmed' = confirmed /\ dropped' = dropped
    BY <1>2 DEF Reload
  <1>5. /\ wire' \subseteq wire
        /\ \A m \in wire' : m.page = p /\ m.answer # "none" => v.waits = m.try
    BY <1>4 DEF Deafened
  <1> QED BY <1>3, <1>4, <1>5, OnePageStep

LEMMA ReceiveKeeps ==
    ASSUME DeskInv, NEW m \in wire, Receive(m)
    PROVE  DeskInv'
  <1>1. PagesInv /\ WireInv
    BY DEF DeskInv
  <1>2. PICK p \in Pages : p = m.page
    BY <1>1 DEF WireInv, IsMessage
  <1>3. /\ desk[p] \in PageType /\ (desk[p].cart.sale = 0 => desk[p].cart = NoCart)
        /\ m.answer # "none" /\ desk[p].waits = m.try
        /\ (p = "cafe" => m.attempt = desk[p].attempt)
    BY <1>1, <1>2 DEF PagesInv, WireInv, Receive
  <1>4. PICK v : v = CASE m.answer = "done" -> Idle
                       [] m.answer \in Final /\ p = "cafe" ->
                             [desk[p] EXCEPT !.attempt = NoAttempt, !.waits = 0]
                       [] OTHER -> [desk[p] EXCEPT !.waits = 0]
    OBVIOUS
  <1>5. desk' = [desk EXCEPT ![p] = v]
    <2>1. CASE m.answer = "done"
      BY <1>2, <1>4, <2>1 DEF Receive, Final
    <2>2. CASE m.answer # "done" /\ m.answer \in Final /\ p = "cafe"
      BY <1>2, <1>4, <2>2 DEF Receive
    <2>3. CASE m.answer # "done" /\ ~ (m.answer \in Final /\ p = "cafe")
      BY <1>2, <1>4, <2>3 DEF Receive
    <2> QED BY <2>1, <2>2, <2>3
  <1>6. /\ sales' = sales /\ posted' = posted /\ tries' = tries /\ wire' = wire \ {m}
        /\ confirmed \subseteq confirmed' /\ dropped \subseteq dropped'
        /\ m.answer = "done" => m.attempt.key \in confirmed'
        /\ m.answer = "refused" /\ p = "cafe" => m.attempt.key \in dropped'
    BY <1>2 DEF Receive
  <1>7. \A n \in wire' : ~ (n.page = p /\ n.answer # "none")
    BY <1>1, <1>2, <1>3, <1>6 DEF WireInv
  <1>8. /\ v \in PageType /\ v.waits = 0
        /\ v.attempt \in {desk[p].attempt, NoAttempt}
        /\ v.cart.sale \in {desk[p].cart.sale, 0} /\ (v.cart.sale = 0 => v.cart = NoCart)
        /\ \/ v.attempt = desk[p].attempt
           \/ m.answer = "done" /\ v.cart.sale = 0
           \/ p = "cafe" /\ m.answer = "refused"
    <2>1. CASE m.answer = "done"
      BY <1>4, <2>1, IdleType DEF Final
    <2>2. CASE m.answer # "done" /\ m.answer \in Final /\ p = "cafe"
      <3>1. v = [desk[p] EXCEPT !.attempt = NoAttempt, !.waits = 0]
        BY <1>4, <2>2
      <3>2. PICK w : w = [desk[p] EXCEPT !.attempt = NoAttempt]
        OBVIOUS
      <3>3. w \in PageType /\ w.attempt = NoAttempt /\ w.cart = desk[p].cart
        BY <1>3, <3>2, NoAttemptType DEF PageType
      <3>4. v = [w EXCEPT !.waits = 0]
        BY <3>1, <3>2
      <3>5. v \in PageType /\ v.waits = 0 /\ v.attempt = NoAttempt /\ v.cart = desk[p].cart
        BY <3>3, <3>4 DEF PageType
      <3> QED BY <1>3, <2>2, <3>5 DEF Final
    <2>3. CASE m.answer # "done" /\ ~ (m.answer \in Final /\ p = "cafe")
      <3>1. v = [desk[p] EXCEPT !.waits = 0]
        BY <1>4, <2>3
      <3>2. v \in PageType /\ v.waits = 0 /\ v.attempt = desk[p].attempt
            /\ v.cart = desk[p].cart
        BY <1>3, <3>1 DEF PageType
      <3> QED BY <1>3, <3>2
    <2> QED BY <2>1, <2>2, <2>3
  <1>9. /\ p # "retail" => \/ v.attempt = desk[p].attempt
                           \/ desk[p].attempt.key \in dropped' \cup {0}
                           \/ v.cart.sale = 0
        /\ p = "cafe" => \/ v.attempt = desk[p].attempt
                         \/ desk[p].attempt.key \in confirmed' \cup dropped' \cup {0}
    BY <1>3, <1>6, <1>8
  <1> QED BY <1>5, <1>6, <1>7, <1>8, <1>9, OnePageStep

\* The attempt of a click is the one the page holds or, with a cart on the counter,
\* a new one; only the retail page gives up one for another.
LEMMA AttemptIs ==
    ASSUME PagesInv, NEW p \in Pages,
           desk[p].cart # NoCart \/ (p = "cafe" /\ desk[p].attempt # NoAttempt)
    PROVE  /\ Attempt(p) \in AttemptType
           /\ \/ Attempt(p) = desk[p].attempt /\ desk[p].attempt # NoAttempt
              \/ /\ Attempt(p).key = tries + 1
                 /\ Attempt(p).sale = desk[p].cart.sale /\ desk[p].cart.sale # 0
                 /\ p # "retail" => desk[p].attempt = NoAttempt
  <1>1. /\ desk[p] \in PageType /\ tries \in Nat
        /\ (desk[p].cart.sale = 0 => desk[p].cart = NoCart)
    BY DEF PagesInv
  <1>2. PICK s \in Nat, e \in Nat, old \in AttemptType :
           s = desk[p].cart.sale /\ e = desk[p].cart.edit /\ old = desk[p].attempt
    BY <1>1, PageFields
  <1>3. PICK kept \in BOOLEAN :
           kept = (IF p = "retail" THEN old.body = Body(p) ELSE old # NoAttempt)
    OBVIOUS
  <1>4. Attempt(p) = IF kept THEN old ELSE NewAttempt(p)
    BY <1>2, <1>3 DEF Attempt
  <1>5. CASE kept
    <2>1. CASE p = "retail"
      <3>1. old.body = <<s, e, tries>>
        BY <1>2, <1>3, <1>5, <2>1 DEF Body
      <3>2. Len(<<s, e, tries>>) = 3 /\ Len(<<>>) = 0
        OBVIOUS
      <3>3. Len(NoAttempt.body) = 0
        BY <3>2 DEF NoAttempt
      <3>4. Len(old.body) = 3
        BY <3>1, <3>2
      <3>5. old # NoAttempt
        BY <3>3, <3>4
      <3> QED BY <1>2, <1>4, <1>5, <3>5
    <2>2. CASE p # "retail"
      BY <1>2, <1>3, <1>4, <1>5, <2>2
    <2> QED BY <2>1, <2>2
  <1>6. CASE ~kept
    <2>1. Attempt(p) = [key |-> tries + 1, sale |-> s, body |-> Body(p)]
      BY <1>2, <1>4, <1>6 DEF NewAttempt
    <2>2. Body(p) \in Seq(Nat)
      <3>1. <<s, e, tries>> \in Seq(Nat) /\ <<s, e>> \in Seq(Nat)
        BY <1>1
      <3>2. Body(p) \in {<<s, e, tries>>, <<s, e>>}
        BY <1>2 DEF Body
      <3> QED BY <3>1, <3>2
    <2>3. tries + 1 \in Nat
      BY <1>1
    <2>4. Attempt(p) \in AttemptType /\ Attempt(p).key = tries + 1 /\ Attempt(p).sale = s
      BY <2>1, <2>2, <2>3 DEF AttemptType
    <2>5. p # "retail" => old = NoAttempt
      BY <1>3, <1>6
    <2>6. desk[p].cart # NoCart
      BY <1>2, <2>5
    <2> QED BY <1>1, <1>2, <2>4, <2>5, <2>6
  <1> QED BY <1>5, <1>6

LEMMA SubmitKeeps ==
    ASSUME DeskInv, NEW p \in Pages, NEW i, Submit(p, i)
    PROVE  DeskInv'
  <1>1. /\ PagesInv /\ WireInv /\ KeysInv /\ desk \in [Pages -> PageType]
        /\ desk[p] \in PageType /\ tries \in Nat /\ sales \in Nat
        /\ desk[p].cart.sale = 0 => desk[p].cart = NoCart
    BY DEF DeskInv, PagesInv
  <1>2. /\ desk[p].waits = 0 /\ tries' = tries + 1
        /\ wire' = wire \cup {Message(p, Attempt(p), i)}
        /\ desk' = [desk EXCEPT ![p] = [desk[p] EXCEPT !.attempt = Attempt(p),
                                                       !.waits = tries + 1]]
        /\ posted' = posted /\ confirmed' = confirmed /\ dropped' = dropped /\ sales' = sales
        /\ desk[p].cart # NoCart \/ (p = "cafe" /\ desk[p].attempt # NoAttempt)
    BY DEF Submit
  <1>3. PICK a : a = Attempt(p)
    OBVIOUS
  <1>4. /\ a \in AttemptType
        /\ \/ a = desk[p].attempt /\ desk[p].attempt # NoAttempt
           \/ /\ a.key = tries + 1 /\ a.sale = desk[p].cart.sale /\ desk[p].cart.sale # 0
              /\ p # "retail" => desk[p].attempt = NoAttempt
    BY <1>1, <1>2, <1>3, AttemptIs
  <1>5. PICK n : n = Message(p, a, i)
    OBVIOUS
  <1>6. /\ n = [page |-> n.page, try |-> n.try, attempt |-> n.attempt,
                session |-> n.session, answer |-> n.answer]
        /\ n.page = p /\ n.try = tries + 1 /\ n.attempt = a /\ n.answer = "none"
        /\ wire' = wire \cup {n}
    BY <1>2, <1>3, <1>5 DEF Message
  <1>7. PICK v : v = [desk[p] EXCEPT !.attempt = a, !.waits = tries + 1]
    OBVIOUS
  <1>8. v \in PageType /\ v.attempt = a /\ v.waits = tries + 1 /\ v.cart = desk[p].cart
    <2>1. PICK w : w = [desk[p] EXCEPT !.attempt = a]
      OBVIOUS
    <2>2. w \in PageType /\ w.attempt = a /\ w.cart = desk[p].cart
      BY <1>1, <1>4, <2>1 DEF PageType
    <2>3. v = [w EXCEPT !.waits = tries + 1]
      BY <1>7, <2>1
    <2>4. tries + 1 \in Nat
      BY <1>1
    <2> QED BY <2>2, <2>3, <2>4 DEF PageType
  <1>9. /\ desk' = [desk EXCEPT ![p] = v] /\ desk'[p] = v
        /\ \A q \in Pages : q # p => desk'[q] = desk[q]
    BY <1>1, <1>2, <1>3, <1>7
  <1>10. PagesInv'
    <2>1. /\ tries' \in Nat /\ tries <= tries' /\ sales' \in Nat /\ sales <= sales'
          /\ v.waits <= tries'
      BY <1>1, <1>2, <1>8
    <2> QED BY <1>1, <1>8, <1>9, <2>1, PagesKeep
  <1>11. \A q \in Pages : desk[q].attempt.key # tries + 1
    <2> SUFFICES ASSUME NEW q \in Pages PROVE desk[q].attempt.key # tries + 1
      OBVIOUS
    <2>1. CASE desk[q].attempt = NoAttempt
      BY <1>1, <2>1, NoAttemptType
    <2>2. CASE desk[q].attempt # NoAttempt
      <3>1. PICK u \in Used : u = Of(q, desk[q].attempt)
        BY <2>2, UsedIs
      <3>2. u.key \in 1..tries /\ u.key = desk[q].attempt.key
        BY <1>1, <3>1 DEF KeysInv, Of
      <3> QED BY <1>1, <3>2
    <2> QED BY <2>1, <2>2
  <1>12. ASSUME NEW u, NewlySent(u) PROVE u = Of(p, a)
    <2>1. u.page \in Pages /\ u = Of(u.page, desk'[u.page].attempt) /\ u.key = tries + 1
      BY <1>12 DEF NewlySent
    <2>2. desk'[u.page].attempt.key = tries + 1
      BY <2>1 DEF Of
    <2>3. u.page = p
      BY <1>9, <1>11, <2>1, <2>2
    <2> QED BY <1>8, <1>9, <2>1, <2>3
  <1>13. Of(p, a) \in Used \/ NewlySent(Of(p, a))
    <2>1. CASE a = desk[p].attempt /\ desk[p].attempt # NoAttempt
      BY <2>1, UsedIs
    <2>2. CASE /\ a.key = tries + 1 /\ a.sale = desk[p].cart.sale /\ desk[p].cart.sale # 0
               /\ p # "retail" => desk[p].attempt = NoAttempt
      <3>1. PICK u : u = Of(p, a)
        OBVIOUS
      <3>2. u.page = p /\ u.key = tries + 1 /\ u.sale = desk[p].cart.sale /\ u.sale # 0
        BY <2>2, <3>1 DEF Of
      <3>3. u = Of(u.page, desk'[u.page].attempt) /\ desk'[u.page].cart.sale = u.sale
        BY <1>8, <1>9, <3>1, <3>2
      <3> QED BY <1>2, <2>2, <3>1, <3>2, <3>3 DEF NewlySent
    <2> QED BY <1>4, <2>1, <2>2
  <1>14. \A u \in Used' : u \in Used \/ NewlySent(u)
    <2> SUFFICES ASSUME NEW u \in Used' PROVE u \in Used \/ u = Of(p, a)
      BY <1>13
    <2>1. \/ \E q \in Pages : desk'[q].attempt # NoAttempt /\ u = Of(q, desk'[q].attempt)
          \/ \E m \in wire' : u = Sale(m)
          \/ u \in posted'
      BY DEF Used, Held, Underway, Of, Sale
    <2>2. CASE \E q \in Pages : desk'[q].attempt # NoAttempt /\ u = Of(q, desk'[q].attempt)
      <3>1. PICK q \in Pages : desk'[q].attempt # NoAttempt /\ u = Of(q, desk'[q].attempt)
        BY <2>2
      <3>2. CASE q = p
        BY <1>8, <1>9, <3>1, <3>2
      <3>3. CASE q # p
        BY <1>9, <3>1, <3>3, UsedIs
      <3> QED BY <3>2, <3>3
    <2>3. CASE \E m \in wire' : u = Sale(m)
      <3>1. Sale(n) = Of(p, a)
        BY <1>6 DEF Sale, Of
      <3> QED BY <1>6, <2>3, <3>1, UsedIs
    <2>4. CASE u \in posted'
      BY <1>2, <2>4, UsedIs
    <2> QED BY <2>1, <2>2, <2>3, <2>4
  <1>15. Forward
    <2>1. tries <= tries' /\ sales <= sales'
      BY <1>1, <1>2
    <2>2. \A u, w \in Used' : NewlySent(u) /\ NewlySent(w) => u = w
      BY <1>12
    <2>3. ASSUME NEW q \in Pages
          PROVE  /\ desk'[q].cart.sale = desk[q].cart.sale
                 /\ q # "retail" => \/ desk'[q].attempt = desk[q].attempt
                                    \/ desk[q].attempt.key = 0
      <3>1. CASE q = p
        BY <1>4, <1>8, <1>9, <3>1, NoAttemptType
      <3>2. CASE q # p
        BY <1>9, <3>2
      <3> QED BY <3>1, <3>2
    <2> QED BY <1>2, <1>14, <2>1, <2>2, <2>3 DEF Forward
  <1>16. WireInv'
    <2>1. ASSUME NEW m \in wire
          PROVE  /\ m = [page |-> m.page, try |-> m.try, attempt |-> m.attempt,
                         session |-> m.session, answer |-> m.answer]
                 /\ m.page \in Pages /\ m.try \in 1..tries /\ m.attempt \in AttemptType
                 /\ m.try \in 1..(tries + 1) /\ m.try # tries + 1 /\ m.try # 0
                 /\ m.answer # "none" => desk[m.page].waits = m.try
                 /\ m.page = "cafe" /\ desk[m.page].waits = m.try =>
                       m.attempt = desk[m.page].attempt
      BY <1>1 DEF WireInv, IsMessage
    <2>2. \A m \in wire' : IsMessage(m)'
      <3>1. tries + 1 \in 1..(tries + 1)
        BY <1>1
      <3> QED BY <1>2, <1>4, <1>6, <2>1, <3>1 DEF IsMessage
    <2>3. \A m, w \in wire' : m.try = w.try => m = w
      BY <1>1, <1>6, <2>1 DEF WireInv
    <2>4. ASSUME NEW m \in wire'
          PROVE  /\ m.answer # "none" => desk'[m.page].waits = m.try
                 /\ m.page = "cafe" /\ desk'[m.page].waits = m.try =>
                       m.attempt = desk'[m.page].attempt
      <3>1. CASE m = n
        BY <1>6, <1>8, <1>9, <3>1
      <3>2. CASE m \in wire /\ m.page = p
        BY <1>2, <1>8, <1>9, <2>1, <3>2
      <3>3. CASE m \in wire /\ m.page # p
        BY <1>9, <2>1, <3>3
      <3> QED BY <1>6, <3>1, <3>2, <3>3
    <2> QED BY <2>2, <2>3, <2>4 DEF WireInv
  <1> QED BY <1>10, <1>15, <1>16, KeysKeep DEF DeskInv

LEMMA HandleKeeps ==
    ASSUME DeskInv, NEW m \in wire, Handle(m)
    PROVE  DeskInv'
  <1>1. PagesInv /\ WireInv /\ IsMessage(m) /\ m.answer = "none"
        /\ desk \in [Pages -> PageType]
    BY DEF DeskInv, WireInv, PagesInv, Handle
  <1>2. /\ desk' = desk /\ confirmed' = confirmed /\ dropped' = dropped
        /\ sales' = sales /\ tries' = tries
        /\ posted' \subseteq posted \cup {Sale(m)}
    BY DEF Handle
  <1>3. PICK n : /\ \E a : n = [m EXCEPT !.answer = a]
                 /\ wire' \subseteq (wire \ {m}) \cup {n}
                 /\ n \in wire' => desk[m.page].waits = m.try \/ n \in wire \ {m}
    BY DEF Handle
  <1>4. /\ n.page = m.page /\ n.try = m.try /\ n.attempt = m.attempt
        /\ IsMessage(n)
    BY <1>1, <1>3 DEF IsMessage
  <1>5. PagesInv'
    BY <1>1, <1>2 DEF PagesInv
  <1>6. Forward
    <2>1. \A q \in Pages : desk'[q].attempt \in {desk[q].attempt, NoAttempt}
      BY <1>2
    <2>2. Sale(n) = Sale(m)
      BY <1>4 DEF Sale
    <2>3. \A w \in wire' : \E x \in wire : Sale(w) = Sale(x)
      BY <1>3, <2>2
    <2>4. Sale(m) \in Used
      BY UsedIs
    <2>5. \A s \in posted' : s \in Used
      BY <1>2, <2>4, UsedIs
    <2>6. \A u \in Used' : u \in Used
      BY <2>1, <2>3, <2>5, NothingNew
    <2>7. \A u \in Used' : ~NewlySent(u)
      BY <1>1, <1>2 DEF NewlySent, PagesInv
    <2>8. tries <= tries' /\ sales <= sales'
      BY <1>1, <1>2 DEF PagesInv
    <2> QED BY <1>2, <2>6, <2>7, <2>8 DEF Forward
  <1>7. WireInv'
    <2>1. \A w \in wire' : IsMessage(w)'
      BY <1>1, <1>2, <1>3, <1>4 DEF WireInv, IsMessage
    <2>2. \A w, x \in wire' : w.try = x.try => w = x
      <3> SUFFICES ASSUME NEW w \in wire', NEW x \in wire', w.try = x.try PROVE w = x
        OBVIOUS
      <3>1. \A y \in wire \ {m} : y.try # n.try
        BY <1>1, <1>4 DEF WireInv
      <3>2. \A y, z \in wire : y.try = z.try => y = z
        BY <1>1 DEF WireInv
      <3>3. w \in wire \ {m} \/ w = n
        BY <1>3
      <3>4. x \in wire \ {m} \/ x = n
        BY <1>3
      <3>5. CASE w \in wire \ {m} /\ x \in wire \ {m}
        BY <3>2, <3>5
      <3> QED BY <3>1, <3>3, <3>4, <3>5
    <2>3. ASSUME NEW w \in wire'
          PROVE  /\ w.answer # "none" => desk'[w.page].waits = w.try
                 /\ w.page = "cafe" /\ desk'[w.page].waits = w.try =>
                       w.attempt = desk'[w.page].attempt
      <3>1. CASE w \in wire \ {m}
        BY <1>1, <1>2, <3>1 DEF WireInv
      <3>2. CASE w = n /\ w \notin wire \ {m}
        <4>1. desk[m.page].waits = m.try
          BY <1>3, <3>2
        <4> QED BY <1>1, <1>2, <1>4, <3>2, <4>1 DEF WireInv
      <3> QED BY <1>3, <3>1, <3>2
    <2> QED BY <2>1, <2>2, <2>3 DEF WireInv
  <1> QED BY <1>5, <1>6, <1>7, KeysKeep DEF DeskInv

LEMMA DeskStays ==
    ASSUME DeskInv, UNCHANGED deskVars
    PROVE  DeskInv'
  <1>1. /\ desk' = desk /\ wire' = wire /\ posted' = posted /\ confirmed' = confirmed
        /\ dropped' = dropped /\ sales' = sales /\ tries' = tries
    BY DEF deskVars
  <1> QED BY <1>1 DEF DeskInv, PagesInv, WireInv, KeysInv, CounterInv, IsMessage, Used,
                      Held, Underway, Of, Sale

\* The pages keep their keys and the server posts what they sent, however requests
\* and answers are lost, late or refused and whatever happens to the accounts.
THEOREM DeskInvariant == Spec => []DeskInv
  <1>1. DeskInv /\ [Next]_vars => DeskInv'
    <2> SUFFICES ASSUME DeskInv, [Next]_vars PROVE DeskInv'
      OBVIOUS
    <2>1. CASE Next
      BY <2>1, BeginSaleKeeps, EditCartKeeps, SubmitKeeps, NetworkErrorKeeps, ReloadKeeps,
         HandleKeeps, ReceiveKeeps, DeskStays DEF Next
    <2>2. CASE UNCHANGED vars
      BY <2>2, DeskStays DEF vars
    <2> QED BY <2>1, <2>2
  <1> QED BY <1>1, DeskStarts, PTL DEF Spec

\* A posted sale of the cafe's counter is one whose success the page has seen, one
\* that the page still holds to retry it, or one that was refused to its face.
THEOREM UnconfirmedSalesAreStored == Spec => []UnconfirmedIsStored
  <1>1. DeskInv => UnconfirmedIsStored
    BY DEF DeskInv, CounterInv, Used, UnconfirmedIsStored, Of
  <1> QED BY <1>1, DeskInvariant, PTL

\* Where no retail page sells: a sale is posted twice only when its page was told
\* of a refusal or its guest changed the cart in between.
THEOREM SalesAreAlwaysPostedOnce ==
    ASSUME "retail" \notin Pages
    PROVE  Spec => []SalesArePostedOnce
  <1>1. DeskInv => SalesArePostedOnce
    BY DEF DeskInv, KeysInv, Used, SalesArePostedOnce
  <1> QED BY <1>1, DeskInvariant, PTL
=============================================================================
