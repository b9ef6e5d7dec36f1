-------------------------------- MODULE Accounts --------------------------------
(***************************************************************************)
(* Registration and login with Google.  A visit leaves a state in Redis    *)
(* and comes back through Google with a code, perhaps twice; the callback  *)
(* takes the state, exchanges the code, and finds or creates the user and  *)
(* her account, one call after the other.  The first login of an           *)
(* advertiser is welcomed with credit, whoever asks first.                 *)
(***************************************************************************)
EXTENDS Naturals, FiniteSets

CONSTANTS
    People,     \* accounts at Google
    EmailOf,    \* the verified address of each; two may have had the same
    Visits,     \* ways through Google, numbered as they begin
    Plans,      \* sets of callbacks, each a visit and the number of the time it comes back
    Nobody,
    MaxEnds     \* bound: states that run out and callbacks that stop half way

ASSUME AccountAssumption ==
    /\ Nobody \notin {EmailOf[p] : p \in People}
    /\ \A plan \in Plans : plan \subseteq Visits \X Nat

VARIABLES
    visit,    \* who is on the way, why and as what
    states,   \* visits whose state is in Redis
    codes,    \* visits whose code has not been exchanged
    user,     \* MySQL: users by address, which is unique
    account,  \* MySQL: the user of each account at Google
    callback, \* how far each callback is
    welcome,  \* how often a user got the welcome credit
    ends

accountVars == <<visit, states, codes, user, account, callback, welcome, ends>>

-----------------------------------------------------------------------------
Emails == {EmailOf[p] : p \in People}
Roles  == {"ADVERTISER", "PUBLISHER"}

NoVisit == [intent |-> "none"]
NoUser  == [role |-> "none"]

AccountInit ==
    /\ visit = [v \in Visits |-> NoVisit] /\ states = {} /\ codes = {}
    /\ user = [e \in Emails |-> NoUser]
    /\ account = [p \in People |-> Nobody]
    /\ \E plan \in Plans : callback = [r \in plan |-> "idle"]
    /\ welcome = [e \in Emails |-> 0]
    /\ ends = 0

Person(r)  == visit[r[1]].person
Intent(r)  == visit[r[1]].intent
Address(r) == EmailOf[Person(r)]

Goes(r, at, next) == callback[r] = at /\ callback' = [callback EXCEPT ![r] = next]

OnlyRequest == UNCHANGED <<visit, states, codes, user, account, welcome, ends>>

-----------------------------------------------------------------------------
\* getGoogleAuthUrl: a login has no role.
Redirect(v, p, intent, role) ==
    /\ visit[v] = NoVisit /\ \A w \in Visits : w < v => visit[w] # NoVisit
    /\ visit' = [visit EXCEPT ![v] = [intent |-> intent, person |-> p, role |-> role]]
    /\ states' = states \union {v} /\ codes' = codes \union {v}
    /\ UNCHANGED <<user, account, callback, welcome, ends>>

StateExpires(v) ==
    /\ v \in states /\ ends < MaxEnds /\ ends' = ends + 1
    /\ states' = states \ {v}
    /\ UNCHANGED <<visit, codes, user, account, callback, welcome>>

\* validateState reads the state and then deletes it; one that is not there any more is refused.
ReadState(r) ==
    /\ visit[r[1]] # NoVisit
    /\ Goes(r, "idle", IF r[1] \in states THEN "state" ELSE "refused")
    /\ OnlyRequest

DeleteState(r) ==
    /\ Goes(r, "state", "code")
    /\ states' = states \ {r[1]}
    /\ UNCHANGED <<visit, codes, user, account, welcome, ends>>

\* Google takes a code once.
ExchangeCode(r) ==
    /\ Goes(r, "code", IF r[1] \in codes THEN "find" ELSE "refused")
    /\ codes' = codes \ {r[1]}
    /\ UNCHANGED <<visit, states, user, account, welcome, ends>>

\* Whoever is unknown is registered, also by a login.
FindAccountAnyIntent(r) ==
    /\ Goes(r, "find", IF account[Person(r)] = Nobody THEN "email" ELSE IF Intent(r) = "login" THEN "first" ELSE "exists")
    /\ OnlyRequest

FindAccount(r) ==
    /\ Goes(r, "find", IF account[Person(r)] # Nobody THEN (IF Intent(r) = "login" THEN "first" ELSE "exists")
                       ELSE IF Intent(r) = "login" THEN "unknown" ELSE "email")
    /\ OnlyRequest

FindEmail(r) ==
    /\ Goes(r, "email", IF user[Address(r)] = NoUser THEN "user" ELSE "refused")
    /\ OnlyRequest

CreateUser(r) ==
    LET free == user[Address(r)] = NoUser
    IN  /\ Goes(r, "user", IF free THEN "account" ELSE "refused")
        /\ user' = IF free THEN [user EXCEPT ![Address(r)] = [role |-> visit[r[1]].role, seen |-> FALSE]] ELSE user
        /\ UNCHANGED <<visit, states, codes, account, welcome, ends>>

CreateOAuthAccount(r) ==
    /\ Goes(r, "account", "registered")
    /\ account' = [account EXCEPT ![Person(r)] = Address(r)]
    /\ UNCHANGED <<visit, states, codes, user, welcome, ends>>

-----------------------------------------------------------------------------
(***************************************************************************)
(* handleFirstLogin, by the callback of a login and by the entry of a      *)
(* publisher's page: whoever sets the time of the first login goes on to   *)
(* the credit.                                                             *)
(***************************************************************************)
Welcomed(r) == user[account[Person(r)]]

SetFirstLoginAtIfNull(r) ==
    /\ Goes(r, "first", IF Welcomed(r).seen THEN "in" ELSE IF Welcomed(r).role = "ADVERTISER" THEN "credit" ELSE "in")
    /\ user' = [user EXCEPT ![account[Person(r)]].seen = TRUE]
    /\ UNCHANGED <<visit, states, codes, account, welcome, ends>>

\* One transaction: the balance under a lock, and the entry of the history.
GiveWelcomeCredit(r) ==
    /\ Goes(r, "credit", "in")
    /\ welcome' = [welcome EXCEPT ![account[Person(r)]] = @ + 1]
    /\ UNCHANGED <<visit, states, codes, user, account, ends>>

\* The dashboard of a publisher asks again.
EnterDashboard(r) ==
    /\ Goes(r, "in", "first") /\ Welcomed(r).role = "PUBLISHER"
    /\ OnlyRequest

InHand(r) == callback[r] \in {"state", "code", "find", "email", "user", "account", "first", "credit"}

\* The server stops, or a call fails.
CallbackEnds(r) ==
    /\ InHand(r) /\ ends < MaxEnds /\ ends' = ends + 1
    /\ callback' = [callback EXCEPT ![r] = "refused"]
    /\ UNCHANGED <<visit, states, codes, user, account, welcome>>

Callback(r) ==
    \/ ReadState(r) \/ DeleteState(r) \/ ExchangeCode(r) \/ FindAccount(r) \/ FindEmail(r) \/ CreateUser(r)
    \/ CreateOAuthAccount(r) \/ SetFirstLoginAtIfNull(r) \/ GiveWelcomeCredit(r) \/ EnterDashboard(r)
    \/ CallbackEnds(r)

AccountNext ==
    \/ \E v \in Visits, p \in People :
         \/ Redirect(v, p, "login", "none")
         \/ \E role \in Roles : Redirect(v, p, "register", role)
    \/ \E v \in Visits : StateExpires(v)
    \/ \E r \in DOMAIN callback : Callback(r)

AccountSpec == AccountInit /\ [][AccountNext]_accountVars

-----------------------------------------------------------------------------
(***************************************************************************)
(* Whoever is told that she is registered can log in, in the role and with *)
(* the address she registered with, and as nobody else; an advertiser who  *)
(* has logged in got the welcome credit once, also when her first logins   *)
(* come at the same time, and nobody else got any.  What is half done is   *)
(* left half done only by a callback that stopped.                         *)
(***************************************************************************)
Told(r) == callback[r] \in {"registered", "exists", "in"}

AccountsAreSound ==
    /\ \A r \in DOMAIN callback : Told(r) => account[Person(r)] = Address(r)
    /\ \A p, q \in People : account[p] # Nobody /\ account[p] = account[q] => p = q
    /\ \A e \in Emails :
         /\ welcome[e] <= 1
         /\ welcome[e] = 1 => user[e].role = "ADVERTISER" /\ user[e].seen
         /\ user[e] # NoUser => \E v \in Visits :
              visit[v].intent = "register" /\ EmailOf[visit[v].person] = e /\ visit[v].role = user[e].role
    /\ (ends = 0 /\ \A r \in DOMAIN callback : ~InHand(r)) =>
         \A e \in Emails : user[e] # NoUser =>
             /\ \E p \in People : account[p] = e
             /\ user[e].role = "ADVERTISER" /\ user[e].seen => welcome[e] = 1

=============================================================================
