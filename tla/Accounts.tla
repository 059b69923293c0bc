------------------------------ MODULE Accounts ------------------------------
(***************************************************************************)
(* Accounts of the web application and their sessions: sign-in with an     *)
(* authenticator or a recovery code (security.ts), step-up, enrolment and  *)
(* removal of the authenticator and the owner's management of accounts     *)
(* (accounts.ts), logout (handler.ts) and the console that replaces a lost *)
(* authenticator (mfa-console.ts).                                         *)
(*                                                                         *)
(* A request reads the account once and acts later, on the strength of     *)
(* what it read; only the last update is atomic.  A code is the secret it  *)
(* belongs to and, of an authenticator, its time step.  Passwords are      *)
(* right: a wrong one, like a login beyond the limit of attempts, changes  *)
(* no account.  "super_admin" stands for the privileged roles and          *)
(* "kitchen" for those that cannot sell.                                   *)
(***************************************************************************)
EXTENDS Integers, Sequences

CONSTANTS Handlers,     \* the requests that may be underway at once
          Users, Owner, \* the accounts; the one that bootstrap makes privileged
          Changes,      \* what an owner asks for an account
          MaxStep,      \* bound: authenticator time steps
          MaxSecret,    \* bound: enrolments
          MaxSessions,  \* bound: logins
          MaxVersion    \* bound: a higher token version is not raised on request

Roles == {"super_admin", "staff", "kitchen"}
Privileged == {"super_admin"}

ASSUME AccountAssumption ==
    /\ Owner \in Users
    /\ Changes \subseteq [user : Users, role : Roles, active : BOOLEAN]
    /\ MaxStep \in Nat /\ MaxSecret \in Nat \ {0}
    /\ MaxSessions \in Nat /\ MaxVersion \in Nat

VARIABLES account,      \* the users collection
          step,         \* the current time step
          secrets,      \* how many secrets were ever made
          sessions,     \* the tokens handed out, with the code that opened them
          request       \* the request of each busy handler
accountVars == <<account, step, secrets, sessions, request>>

NoSecret == 0
NoStep == -1

NewAccount(role, secret) ==
    [role |-> role, active |-> TRUE, version |-> 1, mfa |-> secret,
     recovery |-> {secret} \ {NoSecret}, pending |-> NoSecret, last |-> NoStep,
     stepped |-> FALSE]

\* bootstrap: the owner has an authenticator, the cashiers have none.
AccountsInit ==
    /\ account = [u \in Users |-> IF u = Owner THEN NewAccount("super_admin", 1)
                                               ELSE NewAccount("staff", NoSecret)]
    /\ step = 0
    /\ secrets = 1
    /\ sessions = <<>>
    /\ request = [h \in {} |-> <<>>]

NoChange == [user |-> Owner, role |-> "super_admin", active |-> TRUE]

\* A request, with the account as it was read at its start.
Request(op, u, code, change) ==
    [op |-> op, user |-> u, row |-> account[u], code |-> code, change |-> change]

Free(h) == h \notin DOMAIN request
Start(h, q) == request' = [g \in DOMAIN request \cup {h} |-> IF g = h THEN q ELSE request[g]]
End(h) == request' = [g \in DOMAIN request \ {h} |-> request[g]]

-----------------------------------------------------------------------------
(* Sign-in.                                                                 *)

\* verifiedTotpStep: the step before, the current one and the next are good.
Window == {s \in {step - 1, step, step + 1} : s >= 0}

NoCode == [kind |-> "none", secret |-> NoSecret, step |-> NoStep]
Totp(secret, s) == [kind |-> "totp", secret |-> secret, step |-> s]
Recovery(secret) == [kind |-> "recovery", secret |-> secret, step |-> NoStep]

\* The codes the account as read accepts: a recovery code is looked up later.
Codes(row) ==
    IF row.mfa # NoSecret
    THEN {Totp(row.mfa, s) : s \in Window} \cup {Recovery(e) : e \in 1..secrets}
    ELSE {c \in {NoCode} : row.role \notin Privileged}

ReadForLogin(h, u, code) ==
    /\ Free(h)
    /\ account[u].active
    /\ code \in Codes(account[u])
    /\ Start(h, Request("login", u, code, NoChange))
    /\ UNCHANGED <<account, step, secrets, sessions>>

\* Mutant: the step that was used last is good again.
FreshRepeated(now, code) ==
    CASE code.kind = "none" -> TRUE
      [] code.kind = "totp" -> now.last <= code.step
      [] OTHER -> now.active /\ code.secret \in now.recovery

\* The update that consumes the code finds the account as it is now.
Fresh(now, code) ==
    CASE code.kind = "none" -> TRUE
      [] code.kind = "totp" -> now.last < code.step
      [] OTHER -> now.active /\ code.secret \in now.recovery

Consumed(now, code) ==
    CASE code.kind = "none" -> now
      [] code.kind = "totp" -> [now EXCEPT !.last = code.step]
      [] OTHER -> [now EXCEPT !.recovery = @ \ {code.secret}]

\* The token carries the version that was read before the code was consumed.
FinishLogin(h) ==
    LET q == request[h]
    IN  /\ q.op = "login"
        /\ End(h)
        /\ IF Fresh(account[q.user], q.code)
           THEN /\ Len(sessions) < MaxSessions
                /\ account' = [account EXCEPT ![q.user] = Consumed(@, q.code)]
                /\ sessions' = Append(sessions,
                       [user |-> q.user, version |-> q.row.version, code |-> q.code])
           ELSE UNCHANGED <<account, sessions>>
        /\ UNCHANGED <<step, secrets>>

-----------------------------------------------------------------------------
(* Requests of a session.                                                   *)

\* currentUser accepts the token of session i.
Live(i) ==
    LET a == account[sessions[i].user]
    IN  /\ a.active
        /\ a.version = sessions[i].version
        /\ a.role \in Privileged => a.mfa # NoSecret

Begin(h, i, op, code, change) ==
    /\ Free(h)
    /\ i \in DOMAIN sessions
    /\ Live(i)
    /\ Start(h, Request(op, sessions[i].user, code, change))
    /\ UNCHANGED <<account, step, secrets, sessions>>

Finish(h, op) ==
    /\ request[h].op = op
    /\ End(h)
    /\ UNCHANGED <<step, sessions>>

RowOf(i) == account[sessions[i].user]
Bounded(u) == account[u].version < MaxVersion

BeginLogout(h, i) ==
    Bounded(sessions[i].user) /\ Begin(h, i, "logout", NoCode, NoChange)

FinishLogout(h) ==
    /\ Finish(h, "logout")
    /\ account' = [account EXCEPT ![request[h].user].version = @ + 1]
    /\ UNCHANGED secrets

\* The code of a step-up is checked and not consumed.
BeginStepUp(h, i) == Begin(h, i, "step_up", NoCode, NoChange)

FinishStepUp(h) ==
    /\ Finish(h, "step_up")
    /\ account' = [account EXCEPT ![request[h].user].stepped = TRUE]
    /\ UNCHANGED secrets

\* Five minutes after the step-up.
Lapse(u) ==
    /\ account[u].stepped
    /\ account' = [account EXCEPT ![u].stepped = FALSE]
    /\ UNCHANGED <<step, secrets, sessions, request>>

BeginEnroll(h, i) ==
    RowOf(i).mfa = NoSecret /\ Begin(h, i, "enroll", NoCode, NoChange)

\* Without effect when the account has got an authenticator since it was read.
FinishEnroll(h) ==
    LET u == request[h].user
    IN  /\ Finish(h, "enroll")
        /\ secrets < MaxSecret
        /\ secrets' = secrets + 1
        /\ account' = [account EXCEPT ![u].pending =
                          IF account[u].mfa = NoSecret THEN secrets + 1 ELSE @]

BeginConfirm(h, i, s) ==
    /\ RowOf(i).mfa = NoSecret
    /\ RowOf(i).pending # NoSecret
    /\ s \in Window
    /\ Bounded(sessions[i].user)
    /\ Begin(h, i, "confirm", Totp(RowOf(i).pending, s), NoChange)

\* Mutant: the sessions opened without the authenticator stay.
EnrolledKeepingSessions(now, code) ==
    [now EXCEPT !.mfa = code.secret, !.recovery = {code.secret}, !.last = code.step,
                !.pending = NoSecret]

Enrolled(now, code) ==
    [now EXCEPT !.mfa = code.secret, !.recovery = {code.secret}, !.last = code.step,
                !.pending = NoSecret, !.version = @ + 1]

\* Refused when another enrolment was begun or confirmed in between.
FinishConfirm(h) ==
    LET q == request[h]
        now == account[q.user]
    IN  /\ Finish(h, "confirm")
        /\ account' = IF now.pending = q.code.secret /\ now.mfa = NoSecret
                      THEN [account EXCEPT ![q.user] = Enrolled(now, q.code)]
                      ELSE account
        /\ UNCHANGED secrets

BeginDisable(h, i, s) ==
    /\ RowOf(i).role \notin Privileged
    /\ RowOf(i).mfa # NoSecret
    /\ s \in Window
    /\ Bounded(sessions[i].user)
    /\ Begin(h, i, "disable", Totp(RowOf(i).mfa, s), NoChange)

Disabled(now) ==
    [now EXCEPT !.mfa = NoSecret, !.recovery = {}, !.last = NoStep, !.version = @ + 1]

\* Whatever the account's role and authenticator are by now.
FinishDisable(h) ==
    /\ Finish(h, "disable")
    /\ account' = [account EXCEPT ![request[h].user] = Disabled(@)]
    /\ UNCHANGED secrets

\* PUT venture-users, by an owner who stepped up.
BeginManage(h, i, change) ==
    /\ RowOf(i).role = "super_admin"
    /\ RowOf(i).stepped
    /\ Bounded(change.user)
    /\ Begin(h, i, "manage", NoCode, change)

ManageAllowed(q) ==
    /\ q.change.role \in Privileged => account[q.change.user].mfa # NoSecret
    /\ q.change.user = q.user => q.change.role = "super_admin" /\ q.change.active

\* Mutant: only a change of the role ends the sessions.
ChangedKeepingSessions(now, change) ==
    [now EXCEPT !.role = change.role, !.active = change.active,
                !.version = IF now.role = change.role THEN @ ELSE @ + 1]

Changed(now, change) ==
    [now EXCEPT !.role = change.role, !.active = change.active, !.version = @ + 1]

\* One transaction over the account that is changed.
FinishManage(h) ==
    LET q == request[h]
    IN  /\ Finish(h, "manage")
        /\ account' = IF ManageAllowed(q)
                      THEN [account EXCEPT ![q.change.user] = Changed(@, q.change)]
                      ELSE account
        /\ UNCHANGED secrets

-----------------------------------------------------------------------------
(* The console, and time.                                                   *)

ConsoleBegin(u) ==
    /\ account[u].active
    /\ secrets < MaxSecret
    /\ secrets' = secrets + 1
    /\ account' = [account EXCEPT ![u].pending = secrets + 1]
    /\ UNCHANGED <<step, sessions, request>>

\* The authenticator of before is replaced.
ConsoleConfirm(u, s) ==
    /\ account[u].pending # NoSecret
    /\ s \in Window
    /\ Bounded(u)
    /\ account' = [account EXCEPT ![u] = Enrolled(@, Totp(@.pending, s))]
    /\ UNCHANGED <<step, secrets, sessions, request>>

Tick ==
    /\ step < MaxStep
    /\ step' = step + 1
    /\ UNCHANGED <<account, secrets, sessions, request>>

-----------------------------------------------------------------------------

BeginRequest(h, i) ==
    \/ BeginLogout(h, i)
    \/ BeginStepUp(h, i)
    \/ BeginEnroll(h, i)
    \/ \E s \in Window : BeginConfirm(h, i, s) \/ BeginDisable(h, i, s)
    \/ \E change \in Changes : BeginManage(h, i, change)

FinishRequest(h) ==
    \/ FinishLogin(h)
    \/ FinishLogout(h)
    \/ FinishStepUp(h)
    \/ FinishEnroll(h)
    \/ FinishConfirm(h)
    \/ FinishDisable(h)
    \/ FinishManage(h)

AccountsNext ==
    \/ \E h \in Handlers, u \in Users : \E code \in Codes(account[u]) :
          ReadForLogin(h, u, code)
    \/ \E h \in Handlers : \E i \in DOMAIN sessions : BeginRequest(h, i)
    \/ \E h \in DOMAIN request : FinishRequest(h)
    \/ \E u \in Users : \/ Lapse(u)
                        \/ ConsoleBegin(u)
                        \/ \E s \in Window : ConsoleConfirm(u, s)
    \/ Tick

AccountsSpec == AccountsInit /\ [][AccountsNext]_accountVars

-----------------------------------------------------------------------------
(* Properties.                                                              *)

Steps == NoStep..(MaxStep + 1)
CodeType == [kind : {"none", "totp", "recovery"}, secret : 0..MaxSecret, step : Steps]
AccountType ==
    [role : Roles, active : BOOLEAN, version : Nat, mfa : 0..MaxSecret,
     recovery : SUBSET (1..MaxSecret), pending : 0..MaxSecret, last : Steps,
     stepped : BOOLEAN]
SessionType == [user : Users, version : Nat, code : CodeType]
RequestType ==
    [op : {"login", "logout", "step_up", "enroll", "confirm", "disable", "manage"},
     user : Users, row : AccountType, code : CodeType, change : Changes \cup {NoChange}]

AccountsTypeOK ==
    /\ account \in [Users -> AccountType]
    /\ step \in 0..MaxStep
    /\ secrets \in 1..MaxSecret
    /\ sessions \in Seq(SessionType)
    /\ DOMAIN request \subseteq Handlers
    /\ \A h \in DOMAIN request : request[h] \in RequestType

\* A session that is accepted was opened with the authenticator the account has
\* now, or one of its recovery codes, and without a code only when it has none:
\* no session survives, or slips past, an enrolment, a replacement or a removal
\* that happens while somebody signs in.
SessionsCarryTheFactor ==
    \A i \in DOMAIN sessions :
        Live(i) => sessions[i].code.secret = account[sessions[i].user].mfa

\* A code opens one session: of two logins with the same code, at once or one
\* after the other, at most one is accepted.
CodesOpenOneSession ==
    \A i, j \in DOMAIN sessions :
        (i # j /\ Live(i) /\ Live(j) /\ sessions[i].code = sessions[j].code)
            => sessions[i].code = NoCode

StaysEnded == \A i \in DOMAIN sessions : ~Live(i) => ~Live(i)'

\* A session that was ended stays ended, whatever the owner, the console and
\* requests underway do to the account afterwards.
EndedForGood == [][StaysEnded]_accountVars
=============================================================================
