------------------------------ MODULE Accounts ------------------------------
(***************************************************************************)
(* Accounts and sessions: UsersService, AuthService and VkAuthService.     *)
(* People register with an e-mail address and confirm it by a mailed link, *)
(* or come from VK; they log in, refresh and end sessions and reset their  *)
(* password by another mailed link.  Administrators set roles and delete   *)
(* accounts.                                                               *)
(*                                                                         *)
(* One action is one query (or one e-mail) with the local code up to the   *)
(* next.  No table has a unique index on e-mail, VK key or owner of a      *)
(* token: uniqueness rests on "find, then insert" and "delete, then        *)
(* insert", which requests served at the same time interleave.             *)
(***************************************************************************)
EXTENDS Integers, Sequences, FiniteSets

CONSTANTS
  Email,        \* addresses people register with; RootEmail may be one of them
  RootEmail,    \* the address of the root administrator, whom initData makes
  NoEmail,      \* accounts that come from VK have none
  Key,          \* VK user ids
  Password,
  NoPassword,   \* accounts that come from VK have none
  Role,         \* rows of table "role"
  RootRole,     \* "root_admin"
  NoRole,
  Handler,      \* requests being served at the same time
  MaxUsers,     \* bound: accounts ever created
  MaxResets,    \* bound: reset tokens ever created
  MaxFailures,  \* bound: crashes and rejected queries
  MaxRequests   \* bound: requests made

ASSUME AccountsAssumption ==
  /\ NoEmail \notin Email \cup {RootEmail}
  /\ NoPassword \notin Password
  /\ RootRole \in Role /\ NoRole \notin Role
  /\ IsFiniteSet(Handler)
  /\ {MaxUsers, MaxResets, MaxFailures, MaxRequests} \subseteq Nat

VARIABLES
  users,      \* table "user", by id; a deleted row is not live
  links,      \* table "verify_token": users whose link is stored
  mailed,     \* users a verification link was mailed to
  resets,     \* table "reset_pass_token", by id; a deleted row is not live
  sessions,   \* table "refresh_token": the tokens of each user
  providers,  \* table "auth_provider": <<VK key, user>>
  request,    \* request[h]: what request h is doing
  booted,     \* FALSE until initData has looked for the root administrator
  made,       \* how many requests have been made
  failures    \* crashes and rejected queries so far

tables == <<users, links, mailed, resets, sessions, providers>>
vars == <<tables, request, booted, made, failures>>

-----------------------------------------------------------------------------
User == [email : Email \cup {RootEmail, NoEmail}, password : Password \cup {NoPassword},
         verified : BOOLEAN, role : Role \cup {NoRole}, live : BOOLEAN]

Deleted == [email |-> NoEmail, password |-> NoPassword, verified |-> FALSE,
            role |-> NoRole, live |-> FALSE]

KeyUser == [Deleted EXCEPT !.verified = TRUE, !.live = TRUE]

NewUser(email, password) ==
  [email |-> email, password |-> password, verified |-> FALSE, role |-> NoRole,
   live |-> TRUE]

Root(password) == [NewUser(RootEmail, password) EXCEPT !.verified = TRUE,
                                                       !.role = RootRole]

\* A reset token may not be renewed for five minutes and is good for an hour.
Age == {"new", "renewable", "expired"}

Reset == [email : Email, age : Age, mailed : BOOLEAN, live : BOOLEAN]

Removed(reset) == [reset EXCEPT !.age = "expired", !.mailed = FALSE, !.live = FALSE]

Id == 1..Len(users)

VerifyToken == Id                       \* the user whose link it is
RefreshToken == {"good", "expired"}
AuthProvider == Key \X Id

\* pc names the query a request is waiting for; entity is the user it has read.
Request == [pc : {"none", "insertUser", "sendLink", "insertKeyUser", "insertKey",
                  "deleteTokens", "insertToken", "saveVerified", "deleteLink",
                  "saveRole", "deleteResets", "insertReset", "mailReset",
                  "setPassword", "endSessions", "deleteReset"},
            user : Nat, entity : User, email : Email \cup {NoEmail},
            password : Password \cup {NoPassword}, key : Key \cup {"none"},
            reset : Nat]

NoRequest == [pc |-> "none", user |-> 0, entity |-> Deleted, email |-> NoEmail,
              password |-> NoPassword, key |-> "none", reset |-> 0]

Live == {u \in Id : users[u].live}
WithEmail(email) == {u \in Live : users[u].email = email}
WithKey(key) == {u \in Live : <<key, u>> \in providers}
ResetsOf(email) == {t \in 1..Len(resets) : resets[t].live /\ resets[t].email = email}

Waits(h, pc) == request[h].pc = pc
Goes(h, pc) == request' = [request EXCEPT ![h].pc = pc]
Ends(h) == request' = [request EXCEPT ![h] = NoRequest]
Starts(h, req) ==
  /\ Waits(h, "none")
  /\ request' = [request EXCEPT ![h] = req]
  /\ made < MaxRequests
  /\ made' = made + 1
  /\ UNCHANGED <<tables, booted, failures>>

\* A fresh database: the service starts to listen before initData is done.
AccountsInit ==
  /\ users = <<>>
  /\ links = {} /\ mailed = {}
  /\ resets = <<>>
  /\ sessions = [u \in 1..MaxUsers |-> <<>>]
  /\ providers = {}
  /\ request = [h \in Handler |-> NoRequest]
  /\ booted = FALSE
  /\ made = 0
  /\ failures = 0

-----------------------------------------------------------------------------
(* Registration.                                                            *)

\* Mutant of EmailFree.
EmailAlwaysFree(email) == TRUE

EmailFree(email) == WithEmail(email) = {}

\* createUser: no user with this e-mail is found.
Register(h, email, password) ==
  /\ EmailFree(email)
  /\ Starts(h, [NoRequest EXCEPT !.pc = "insertUser",
                              !.entity = NewUser(email, password)])

\* initData: the same for the root administrator, who needs no link.
Boot(h) ==
  /\ ~booted
  /\ Waits(h, "none")
  /\ booted' = TRUE
  /\ IF EmailFree(RootEmail)
       THEN \E p \in Password :
              request' = [request EXCEPT ![h] =
                            [NoRequest EXCEPT !.pc = "insertUser",
                                              !.entity = Root(p)]]
       ELSE UNCHANGED request
  /\ UNCHANGED <<tables, made, failures>>

InsertUser(h) ==
  /\ Waits(h, "insertUser")
  /\ Len(users) < MaxUsers
  /\ users' = Append(users, request[h].entity)
  /\ IF request[h].entity.verified
       THEN Ends(h)
       ELSE request' = [request EXCEPT ![h] = [NoRequest EXCEPT !.pc = "sendLink",
                                                 !.user = Len(users) + 1]]
  /\ UNCHANGED <<links, mailed, resets, sessions, providers, booted, made, failures>>

\* Mutant of Stored.
NotStored(u) == {}

\* The links a new account gets.
Stored(u) == {u}

\* createVerifyToken: a transaction around the insert of the token and the mail.
\* The token's foreign key refuses a user who has been deleted.
SendLink(h) ==
  /\ Waits(h, "sendLink")
  /\ LET u == request[h].user IN
     IF u \in Live THEN links' = links \cup Stored(u) /\ mailed' = mailed \cup {u}
                   ELSE UNCHANGED <<links, mailed>>
  /\ Ends(h)
  /\ UNCHANGED <<users, resets, sessions, providers, booted, made, failures>>

\* The mail is out, and the commit fails: the link leads nowhere.
LoseLink(h) ==
  /\ Waits(h, "sendLink")
  /\ request[h].user \in Live
  /\ failures < MaxFailures
  /\ mailed' = mailed \cup {request[h].user}
  /\ failures' = failures + 1
  /\ Ends(h)
  /\ UNCHANGED <<users, links, resets, sessions, providers, booted, made>>

\* entity.save(): every column as it was read.  A row that is gone is inserted
\* again.
SaveUser(u, entity) == users' = [users EXCEPT ![u] = entity]

\* verifyUser: the token is found, and its user with it.
VerifyUser(h, u) ==
  /\ u \in links \cap mailed
  /\ Starts(h, [NoRequest EXCEPT !.pc = "saveVerified", !.user = u,
                                           !.entity = users[u]])

SaveVerified(h) ==
  /\ Waits(h, "saveVerified")
  /\ SaveUser(request[h].user, [request[h].entity EXCEPT !.verified = TRUE])
  /\ request' = [request EXCEPT ![h].pc = "deleteLink", ![h].entity = Deleted]
  /\ UNCHANGED <<links, mailed, resets, sessions, providers, booted, made, failures>>

\* The token is deleted and a session starts; an error if it is gone already.
DeleteLink(h) ==
  /\ Waits(h, "deleteLink")
  /\ links' = links \ {request[h].user}
  /\ IF request[h].user \in links THEN Goes(h, "deleteTokens") ELSE Ends(h)
  /\ UNCHANGED <<users, mailed, resets, sessions, providers, booted, made, failures>>

-----------------------------------------------------------------------------
(* Sessions.                                                                *)

\* Mutant of MayLogin.
MayLoginUnverified(u) == u \in Live /\ users[u].email # NoEmail

MayLogin(u) == u \in Live /\ users[u].email # NoEmail /\ users[u].verified

\* login: the password fits a user found by the e-mail.
Login(h, u) ==
  /\ MayLogin(u)
  /\ Starts(h, [NoRequest EXCEPT !.pc = "deleteTokens", !.user = u])

\* authorizeCallback -> createOrGegAuthProvider
VkLogin(h, key) ==
  /\ \/ \E u \in WithKey(key) :
          Starts(h, [NoRequest EXCEPT !.pc = "deleteTokens", !.user = u])
     \/ /\ WithKey(key) = {}
        /\ Starts(h, [NoRequest EXCEPT !.pc = "insertKeyUser", !.key = key])

InsertKeyUser(h) ==
  /\ Waits(h, "insertKeyUser")
  /\ Len(users) < MaxUsers
  /\ users' = Append(users, KeyUser)
  /\ request' = [request EXCEPT ![h].pc = "insertKey", ![h].user = Len(users) + 1]
  /\ UNCHANGED <<links, mailed, resets, sessions, providers, booted, made, failures>>

InsertKey(h) ==
  /\ Waits(h, "insertKey")
  /\ IF request[h].user \in Live
       THEN /\ providers' = providers \cup {<<request[h].key, request[h].user>>}
            /\ request' = [request EXCEPT ![h].pc = "deleteTokens", ![h].key = "none"]
       ELSE Ends(h) /\ UNCHANGED providers
  /\ UNCHANGED <<users, links, mailed, resets, sessions, booted, made, failures>>

\* refreshToken: the cookie's token is found, and is good.
Refresh(h, u) ==
  /\ \E i \in 1..Len(sessions[u]) : sessions[u][i] = "good"
  /\ Starts(h, [NoRequest EXCEPT !.pc = "deleteTokens", !.user = u])

\* The token of a refresh is found and has expired: it is deleted.  Nobody else
\* can use it, so its two queries are one step.
RefreshExpired(u) ==
  /\ sessions[u] # <<>> /\ Head(sessions[u]) = "expired"
  /\ sessions' = [sessions EXCEPT ![u] = Tail(@)]
  /\ UNCHANGED <<users, links, mailed, resets, providers, request, booted, made, failures>>

\* Five hours pass: the oldest good token of u expires.
ExpireSession(u) ==
  \E i \in 1..Len(sessions[u]) :
    /\ sessions[u][i] = "good"
    /\ \A j \in 1..(i-1) : sessions[u][j] = "expired"
    /\ sessions' = [sessions EXCEPT ![u][i] = "expired"]
    /\ UNCHANGED <<users, links, mailed, resets, providers, request, booted, made, failures>>

\* Mutants of Cleared.
ClearedSoftly(tokens) == [i \in 1..Len(tokens) |-> "deleted"]
ClearedIfExpired(tokens) == SelectSeq(tokens, LAMBDA t : t = "good")

Cleared(tokens) == <<>>

\* _createRefreshToken deletes the old tokens ...
DeleteTokens(h) ==
  /\ Waits(h, "deleteTokens")
  /\ sessions' = [sessions EXCEPT ![request[h].user] = Cleared(@)]
  /\ Goes(h, "insertToken")
  /\ UNCHANGED <<users, links, mailed, resets, providers, booted, made, failures>>

\* ... and inserts the new one, unless its user has been deleted.
InsertToken(h) ==
  /\ Waits(h, "insertToken")
  /\ IF request[h].user \in Live
       THEN sessions' = [sessions EXCEPT ![request[h].user] = Append(@, "good")]
       ELSE UNCHANGED sessions
  /\ Ends(h)
  /\ UNCHANGED <<users, links, mailed, resets, providers, booted, made, failures>>

Logout(u) ==
  /\ sessions' = [sessions EXCEPT ![u] = Cleared(@)]
  /\ UNCHANGED <<users, links, mailed, resets, providers, request, booted, made, failures>>

-----------------------------------------------------------------------------
(* Administration.                                                          *)

Administrators == {u \in Live : users[u].role = RootRole}

\* setRole: user and role are found.
SetRole(h, u, role) ==
  /\ Administrators # {}
  /\ u \in Live
  /\ Starts(h, [NoRequest EXCEPT !.pc = "saveRole", !.user = u,
                                         !.entity = [users[u] EXCEPT !.role = role]])

SaveRole(h) ==
  /\ Waits(h, "saveRole")
  /\ SaveUser(request[h].user, request[h].entity)
  /\ Ends(h)
  /\ UNCHANGED <<links, mailed, resets, sessions, providers, booted, made, failures>>

\* deleteUser: one DELETE.  Tokens of links and providers go with the row;
\* a row of "refresh_token" (or of a money table) refuses it.
DeleteUser(u) ==
  /\ Administrators # {}
  /\ u \in Live
  /\ sessions[u] = <<>>
  /\ users' = [users EXCEPT ![u] = Deleted]
  /\ links' = links \ {u}
  /\ providers' = {p \in providers : p[2] # u}
  /\ UNCHANGED <<mailed, resets, sessions, request, booted, made, failures>>

-----------------------------------------------------------------------------
(* Resetting a password.                                                    *)

\* resetPassword: the token found, if any, is not too young.
ResetPassword(h, email) ==
  /\ \/ ResetsOf(email) = {}
     \/ \E t \in ResetsOf(email) : resets[t].age # "new"
  /\ Starts(h, [NoRequest EXCEPT !.pc = "deleteResets", !.email = email])

Dropped(email) == ResetsOf(email)

DeleteResets(h) ==
  /\ Waits(h, "deleteResets")
  /\ resets' = [t \in 1..Len(resets) |->
                  IF t \in Dropped(request[h].email) THEN Removed(resets[t])
                                                     ELSE resets[t]]
  /\ Goes(h, "insertReset")
  /\ UNCHANGED <<users, links, mailed, sessions, providers, booted, made, failures>>

InsertReset(h) ==
  /\ Waits(h, "insertReset")
  /\ Len(resets) < MaxResets
  /\ resets' = Append(resets, [email |-> request[h].email, age |-> "new",
                               mailed |-> FALSE, live |-> TRUE])
  /\ request' = [request EXCEPT ![h].pc = "mailReset", ![h].reset = Len(resets) + 1]
  /\ UNCHANGED <<users, links, mailed, sessions, providers, booted, made, failures>>

\* The link is mailed if a user has the e-mail; another mail says that none has.
MailReset(h) ==
  /\ Waits(h, "mailReset")
  /\ resets' = [resets EXCEPT ![request[h].reset].mailed =
                  resets[request[h].reset].live /\ ~EmailFree(request[h].email)]
  /\ Ends(h)
  /\ UNCHANGED <<users, links, mailed, sessions, providers, booted, made, failures>>

\* Time passes: the tokens created first age first.
AgeReset(t) ==
  /\ t \in 1..Len(resets) /\ resets[t].live /\ resets[t].age # "expired"
  /\ \A s \in 1..(t-1) : resets[s].live => resets[s].age # resets[t].age
  /\ resets' = [resets EXCEPT ![t].age =
                  IF @ = "new" THEN "renewable" ELSE "expired"]
  /\ UNCHANGED <<users, links, mailed, sessions, providers, request, booted, made, failures>>

\* resetPasswordConfirm: the token of the link is found, and is good.
ConfirmReset(h, t, password) ==
  /\ t \in 1..Len(resets)
  /\ resets[t].live /\ resets[t].mailed /\ resets[t].age # "expired"
  /\ Starts(h, [NoRequest EXCEPT !.pc = "setPassword", !.reset = t,
                           !.email = resets[t].email, !.password = password])

\* The password is hashed and written to every user with the e-mail.
SetPassword(h) ==
  /\ Waits(h, "setPassword")
  /\ users' = [u \in Id |->
                 IF u \in WithEmail(request[h].email)
                   THEN [users[u] EXCEPT !.password = request[h].password]
                   ELSE users[u]]
  /\ request' = [request EXCEPT ![h].pc = "endSessions", ![h].password = NoPassword]
  /\ UNCHANGED <<links, mailed, resets, sessions, providers, booted, made, failures>>

\* A user with the e-mail is found, and all his tokens deleted.
EndSessions(h) ==
  /\ Waits(h, "endSessions")
  /\ \/ /\ EmailFree(request[h].email)
        /\ UNCHANGED sessions
     \/ \E u \in WithEmail(request[h].email) :
          sessions' = [sessions EXCEPT ![u] = Cleared(@)]
  /\ Goes(h, "deleteReset")
  /\ UNCHANGED <<users, links, mailed, resets, providers, booted, made, failures>>

\* token.remove(), which nobody awaits.
DeleteReset(h) ==
  /\ Waits(h, "deleteReset")
  /\ resets' = [resets EXCEPT ![request[h].reset] = Removed(@)]
  /\ Ends(h)
  /\ UNCHANGED <<users, links, mailed, sessions, providers, booted, made, failures>>

-----------------------------------------------------------------------------
\* A query or a mail rejects, and with it the request.
Fail(h) ==
  /\ ~Waits(h, "none")
  /\ failures < MaxFailures
  /\ failures' = failures + 1
  /\ Ends(h)
  /\ UNCHANGED <<tables, booted, made>>

\* The process dies and is started again.
Crash ==
  /\ failures < MaxFailures
  /\ failures' = failures + 1
  /\ request' = [h \in Handler |-> NoRequest]
  /\ booted' = FALSE
  /\ UNCHANGED <<tables, made>>

Registration(h) ==
  \/ \E email \in Email, p \in Password : Register(h, email, p)
  \/ Boot(h)
  \/ InsertUser(h)
  \/ SendLink(h)
  \/ LoseLink(h)
  \/ \E u \in Id : VerifyUser(h, u)
  \/ SaveVerified(h)
  \/ DeleteLink(h)

Session(h) ==
  \/ \E u \in Id : Login(h, u) \/ Refresh(h, u)
  \/ \E key \in Key : VkLogin(h, key)
  \/ InsertKeyUser(h)
  \/ InsertKey(h)
  \/ DeleteTokens(h)
  \/ InsertToken(h)

Administration(h) ==
  \/ \E u \in Id, role \in Role : SetRole(h, u, role)
  \/ SaveRole(h)

PasswordReset(h) ==
  \/ \E email \in Email : ResetPassword(h, email)
  \/ DeleteResets(h)
  \/ InsertReset(h)
  \/ MailReset(h)
  \/ \E t \in 1..MaxResets, p \in Password : ConfirmReset(h, t, p)
  \/ SetPassword(h)
  \/ EndSessions(h)
  \/ DeleteReset(h)

AccountsNext ==
  \/ \E h \in Handler :
       \/ Registration(h)
       \/ Session(h)
       \/ Administration(h)
       \/ PasswordReset(h)
       \/ Fail(h)
  \/ \E u \in Id : RefreshExpired(u) \/ ExpireSession(u) \/ Logout(u) \/ DeleteUser(u)
  \/ \E t \in 1..MaxResets : AgeReset(t)
  \/ Crash

AccountsSpec == AccountsInit /\ [][AccountsNext]_vars

-----------------------------------------------------------------------------
(* Properties.                                                              *)

\* Every table and every request is well formed.
AccountsTypeOK ==
  /\ users \in Seq(User)
  /\ links \subseteq VerifyToken /\ mailed \subseteq Id
  /\ resets \in Seq(Reset)
  /\ sessions \in [1..MaxUsers -> Seq(RefreshToken)]
  /\ providers \subseteq AuthProvider
  /\ request \in [Handler -> Request]
  /\ booted \in BOOLEAN
  /\ made \in 0..MaxRequests
  /\ failures \in 0..MaxFailures

\* However saves of stale entities race, only accounts that were mailed a link
\* at their e-mail, VK accounts and the root administrator are ever verified,
\* and only such accounts have sessions (login, lines 117-121; verifyUser).
ConfirmedInv ==
  \A u \in Live :
    (users[u].verified \/ sessions[u] # <<>>)
      => \/ u \in mailed
         \/ users[u].email \in {NoEmail, RootEmail}

\* "Find, then insert" (lines 214-235 and 251-273): requests that race leave at
\* most one account each for an e-mail, and one for a VK key.
AccountsBoundInv ==
  /\ \A email \in Email : Cardinality(WithEmail(email)) <= Cardinality(Handler)
  /\ \A key \in Key : Cardinality(WithKey(key)) <= Cardinality(Handler)

\* "Delete, then insert" (auth.service lines 48-56, users.service lines 356-364):
\* requests that race leave at most one session each of a user, and one reset
\* token each of an e-mail.
TokensBoundInv ==
  /\ \A u \in 1..MaxUsers : Len(sessions[u]) <= Cardinality(Handler)
  /\ \A email \in Email : Cardinality(ResetsOf(email)) <= Cardinality(Handler)

\* Accounts that cannot be confirmed, and whose e-mail is taken: no link, and no
\* request that is about to send one.
Stranded ==
  {u \in Live : /\ users[u].email # NoEmail /\ ~users[u].verified
                /\ u \notin links
                /\ \A h \in Handler : ~(Waits(h, "sendLink") /\ request[h].user = u)}

\* The user is saved before his link is (createUser, lines 235-238), and two
\* queries confirm him (verifyUser, lines 302-303): only a failure strands an
\* account, or a role saved with the user as he was before he was confirmed or
\* deleted (setRole, line 187), at that save or when the link then goes.  No
\* column tells who undid a confirmation, so any deletion of a link is excepted.
StrandedByFailure ==
  [][failures' = failures
       => \A u \in Stranded' \ Stranded :
            \E h \in Handler : /\ Waits(h, "saveRole") \/ Waits(h, "deleteLink")
                              /\ request[h].user = u]_vars

\* A password, once changed, is changed: only another reset replaces it
\* (resetPasswordConfirm, line 410).
PasswordStays ==
  [][\A u \in Id :
       users[u].live /\ users'[u].live /\ users'[u].password # users[u].password
         => \E h \in Handler : SetPassword(h)]_vars

=============================================================================
